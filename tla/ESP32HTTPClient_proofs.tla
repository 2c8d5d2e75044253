----------------------- MODULE ESP32HTTPClient_proofs -----------------------
(***************************************************************************)
(* The kept-alive connection always belongs to the present configuration,  *)
(* and validated TLS is never bypassed but where PolicyEnforced names it,  *)
(* for all sets of URLs, certificates and bundles, and either build.       *)
(*                                                                         *)
(* SessionCurrent alone is not inductive: a connection is opened with what *)
(* _transport and the secure client hold, so these must follow the         *)
(* configuration too, and a request must still be the one that             *)
(* beginConnection() prepared when it is sent.                             *)
(***************************************************************************)
EXTENDS ESP32HTTPClient, TLAPS

(* The secure client holds what was configured last; without one nothing   *)
(* that needs it was configured.                                           *)
SecureCurrent ==
  IF secure = NoClient
  THEN cfg.trust = "none" /\ cfg.cert = Null /\ cfg.key = Null
  ELSE UpToDate(secure)

TransportCurrent == transport \in {"none", Target(Endpoint)}

(* A request that is being sent was accepted by beginConnection(). *)
RequestPrepared ==
  phase # "user" =>
    /\ url = Endpoint
    /\ transport = Target(Endpoint)
    /\ ~Refuses(Endpoint)
    /\ open < MaxOpen

IInv == TypeOK /\ SecureCurrent /\ TransportCurrent /\ RequestPrepared /\ SessionCurrent

-----------------------------------------------------------------------------
(* What the setters of the secure client return, in either build. *)

LEMMA FreshType == Fresh \in SecureClients
  BY DEF Fresh, SecureClients

LEMMA NoClientApart == NoClient \notin SecureClients
  BY DEF NoClient, SecureClients

LEMMA SlotType ==
  ASSUME TypeOK
  PROVE  Slot \in SecureClients
  BY FreshType DEF TypeOK, Slot

LEMMA SetterTypes ==
  ASSUME NEW s \in SecureClients,
         NEW a \in CAs \cup {EmptyPem, Null}, NEW b \in Bundles \cup {Null},
         NEW c \in Certs \cup {Null}, NEW k \in Keys \cup {Null}
  PROVE  /\ WithCA(s, a) \in SecureClients
         /\ WithBundle(s, b) \in SecureClients
         /\ WithCert(s, c, k) \in SecureClients
         /\ WithoutChecks(s) \in SecureClients
  BY DEF SecureClients, WithCA, WithBundle, WithCert, WithoutChecks

(* Applying the configuration to a client that already holds it changes    *)
(* nothing that UpToDate looks at.                                         *)
LEMMA AppliedUpToDate ==
  ASSUME TypeOK, NEW s \in SecureClients, UpToDate(s)
  PROVE  Applied(s) \in SecureClients /\ UpToDate(Applied(s))
<1>1. /\ cfg.ca \in CAs \cup {EmptyPem, Null} /\ cfg.bundle \in Bundles \cup {Null}
      /\ cfg.cert \in Certs \cup {Null} /\ cfg.key \in Keys \cup {Null}
      /\ cfg.trust \in Trusts
  BY DEF TypeOK, Configs
<1>2. Trusted(s) \in SecureClients /\ UpToDate(Trusted(s))
  <2>1. CASE cfg.trust = "insecure"
    <3>1. Trusted(s) = WithoutChecks(s)
      BY <2>1 DEF Trusted
    <3>2. WithoutChecks(s) \in SecureClients
      BY <1>1, SetterTypes
    <3>3. UpToDate(WithoutChecks(s))
      BY <2>1 DEF UpToDate, AnchorTaken, WithoutChecks, SecureClients
    <3>. QED BY <3>1, <3>2, <3>3
  <2>2. CASE cfg.trust = "ca" /\ cfg.ca # Null
    <3>1. Trusted(s) = WithCA(s, cfg.ca)
      BY <2>2 DEF Trusted
    <3>2. WithCA(s, cfg.ca) \in SecureClients
      BY <1>1, SetterTypes
    <3>3. UpToDate(WithCA(s, cfg.ca))
      BY <2>2 DEF UpToDate, AnchorTaken, WithCA, SecureClients
    <3>. QED BY <3>1, <3>2, <3>3
  <2>3. CASE cfg.trust = "bundle" /\ cfg.bundle # Null
    <3>1. Trusted(s) = WithBundle(s, cfg.bundle)
      BY <2>3 DEF Trusted
    <3>2. WithBundle(s, cfg.bundle) \in SecureClients
      BY <1>1, SetterTypes
    <3>3. UpToDate(WithBundle(s, cfg.bundle))
      BY <2>3 DEF UpToDate, AnchorTaken, WithBundle, SecureClients
    <3>. QED BY <3>1, <3>2, <3>3
  <2>4. CASE /\ cfg.trust # "insecure"
             /\ ~(cfg.trust = "ca" /\ cfg.ca # Null)
             /\ ~(cfg.trust = "bundle" /\ cfg.bundle # Null)
    <3>1. Trusted(s) = s
      BY <2>4 DEF Trusted
    <3>. QED BY <3>1
  <2>. QED BY <2>1, <2>2, <2>3, <2>4
<1>. DEFINE t == Trusted(s)
<1>. HIDE DEF t
<1>3. t \in SecureClients /\ UpToDate(t)
  BY <1>2 DEF t
<1>4. /\ WithCert(t, cfg.cert, cfg.key) \in SecureClients
      /\ UpToDate(WithCert(t, cfg.cert, cfg.key))
  <2>1. WithCert(t, cfg.cert, cfg.key) \in SecureClients
    BY <1>1, <1>3, SetterTypes
  <2>2. UpToDate(WithCert(t, cfg.cert, cfg.key))
    BY <1>3 DEF UpToDate, AnchorTaken, WithCert, SecureClients
  <2>. QED BY <2>1, <2>2
<1>. QED BY <1>3, <1>4 DEF Applied, t

-----------------------------------------------------------------------------
LEMMA InitIInv == Init => IInv
<1>. SUFFICES ASSUME Init PROVE IInv
  OBVIOUS
<1>1. TypeOK
  BY OpenAssumption DEF Init, TypeOK, Configs, Endpoint, Endpoints, Trusts
<1>. QED BY <1>1 DEF Init, IInv, SecureCurrent, TransportCurrent, RequestPrepared,
                     SessionCurrent

(* A setter drops the connection and the transport; what is left to show   *)
(* is that the secure client follows the new configuration.                *)
LEMMA ReconfigureStep ==
  ASSUME IInv, UNCHANGED takesBundle, Reconfigure, cfg' \in Configs,
         secure' \in SecureClients \cup {NoClient}, SecureCurrent'
  PROVE  IInv'
<1>1. /\ conn' = NoConn /\ transport' = "none" /\ phase' = "user"
      /\ UNCHANGED <<lastStatus, phase, url, open>>
  BY DEF Reconfigure, InvalidateTlsSession
<1>2. TypeOK'
  BY <1>1 DEF IInv, TypeOK
<1>. QED BY <1>1, <1>2 DEF IInv, TransportCurrent, RequestPrepared, SessionCurrent

(* The endpoint is no concern of the secure client. *)
LEMMA SetUrlStep ==
  ASSUME IInv, UNCHANGED takesBundle, NEW b \in BaseUrls, NEW p \in Ports,
         SetBaseUrl(b, p) \/ SetPort(p) \/ End
  PROVE  IInv'
<1>1. /\ Reconfigure /\ secure' = secure /\ cfg \in Configs
      /\ secure \in SecureClients \cup {NoClient}
  BY DEF SetBaseUrl, SetPort, End, IInv, TypeOK
<1>2. /\ cfg' \in Configs
      /\ cfg'.trust = cfg.trust /\ cfg'.ca = cfg.ca /\ cfg'.bundle = cfg.bundle
      /\ cfg'.cert = cfg.cert /\ cfg'.key = cfg.key
  BY <1>1 DEF SetBaseUrl, SetPort, End, Configs
<1>3. SecureCurrent'
  BY <1>1, <1>2 DEF IInv, SecureCurrent, UpToDate, AnchorTaken
<1>. QED BY <1>1, <1>2, <1>3, ReconfigureStep

(* What the secure client holds before a setter touches it. *)
LEMMA SlotUpToDate ==
  ASSUME IInv
  PROVE  UpToDate(Slot)
<1>1. CASE secure = NoClient
  BY <1>1 DEF IInv, SecureCurrent, Slot, Fresh, UpToDate, AnchorTaken
<1>2. CASE secure # NoClient
  BY <1>2 DEF IInv, SecureCurrent, Slot
<1>. QED BY <1>1, <1>2

LEMMA SetCACertStep ==
  ASSUME IInv, UNCHANGED takesBundle, NEW c \in CAs \cup {EmptyPem, Null}, SetCACert(c)
  PROVE  IInv'
<1>. DEFINE s == Slot
<1>. HIDE DEF s
<1>1. s \in SecureClients /\ UpToDate(s) /\ cfg \in Configs /\ Reconfigure
      /\ secure' = WithCA(s, c)
      /\ cfg' = [cfg EXCEPT !.trust = "ca", !.ca = c, !.bundle = Null]
  BY SlotType, SlotUpToDate DEF SetCACert, IInv, s, TypeOK
<1>2. secure' \in SecureClients
  BY <1>1 DEF WithCA, SecureClients
<1>3. cfg' \in Configs
  BY <1>1 DEF Configs, Trusts
<1>4. SecureCurrent'
  <2>1. UpToDate(secure)'
    BY <1>1 DEF UpToDate, AnchorTaken, WithCA, Configs, SecureClients
  <2>. QED BY <2>1, <1>2, NoClientApart DEF SecureCurrent
<1>. QED BY <1>1, <1>2, <1>3, <1>4, ReconfigureStep

LEMMA SetCACertBundleStep ==
  ASSUME IInv, UNCHANGED takesBundle, NEW b \in Bundles \cup {Null}, SetCACertBundle(b)
  PROVE  IInv'
<1>. DEFINE s == Slot
<1>. HIDE DEF s
<1>1. s \in SecureClients /\ UpToDate(s) /\ cfg \in Configs /\ Reconfigure
      /\ secure' = WithBundle(s, b)
      /\ cfg' = [cfg EXCEPT !.trust = "bundle", !.bundle = b, !.ca = Null]
  BY SlotType, SlotUpToDate DEF SetCACertBundle, IInv, s, TypeOK
<1>2. secure' \in SecureClients
  BY <1>1 DEF WithBundle, SecureClients
<1>3. cfg' \in Configs
  BY <1>1 DEF Configs, Trusts
<1>4. SecureCurrent'
  <2>1. UpToDate(secure)'
    BY <1>1 DEF UpToDate, AnchorTaken, WithBundle, Configs, SecureClients
  <2>. QED BY <2>1, <1>2, NoClientApart DEF SecureCurrent
<1>. QED BY <1>1, <1>2, <1>3, <1>4, ReconfigureStep

LEMMA SetClientCertStep ==
  ASSUME IInv, UNCHANGED takesBundle, NEW c \in Certs \cup {Null}, NEW k \in Keys \cup {Null},
         SetClientCert(c, k)
  PROVE  IInv'
<1>. DEFINE s == Slot
<1>. HIDE DEF s
<1>1. s \in SecureClients /\ UpToDate(s) /\ cfg \in Configs /\ Reconfigure
      /\ secure' = WithCert(s, c, k)
      /\ cfg' = [cfg EXCEPT !.cert = c, !.key = k]
  BY SlotType, SlotUpToDate DEF SetClientCert, IInv, s, TypeOK
<1>2. secure' \in SecureClients
  BY <1>1 DEF WithCert, SecureClients
<1>3. cfg' \in Configs
  BY <1>1 DEF Configs
<1>4. SecureCurrent'
  <2>1. UpToDate(secure)'
    BY <1>1 DEF UpToDate, AnchorTaken, WithCert, Configs, SecureClients
  <2>. QED BY <2>1, <1>2, NoClientApart DEF SecureCurrent
<1>. QED BY <1>1, <1>2, <1>3, <1>4, ReconfigureStep

LEMMA SetInsecureStep ==
  ASSUME IInv, UNCHANGED takesBundle, SetInsecure
  PROVE  IInv'
<1>. DEFINE s == Slot
<1>. HIDE DEF s
<1>1. s \in SecureClients /\ UpToDate(s) /\ cfg \in Configs /\ Reconfigure
      /\ secure' = WithoutChecks(s)
      /\ cfg' = [cfg EXCEPT !.trust = "insecure", !.ca = Null, !.bundle = Null]
  BY SlotType, SlotUpToDate DEF SetInsecure, IInv, s, TypeOK
<1>2. secure' \in SecureClients
  BY <1>1 DEF WithoutChecks, SecureClients
<1>3. cfg' \in Configs
  BY <1>1 DEF Configs, Trusts
<1>4. SecureCurrent'
  <2>1. UpToDate(secure)'
    BY <1>1 DEF UpToDate, AnchorTaken, WithoutChecks, Configs, SecureClients
  <2>. QED BY <2>1, <1>2, NoClientApart DEF SecureCurrent
<1>. QED BY <1>1, <1>2, <1>3, <1>4, ReconfigureStep

(* The policy decides nothing about an open connection. *)
LEMMA RequireStep ==
  ASSUME IInv, UNCHANGED takesBundle, NEW r \in BOOLEAN, RequireValidatedTls(r)
  PROVE  IInv'
<1>1. /\ cfg \in Configs /\ cfg' = [cfg EXCEPT !.required = r]
      /\ phase = "user"
      /\ UNCHANGED <<transport, secure, lastStatus, conn, phase, url, open>>
  BY DEF RequireValidatedTls, IInv, TypeOK
<1>2. /\ cfg' \in Configs /\ cfg'.base = cfg.base /\ cfg'.port = cfg.port
      /\ cfg'.trust = cfg.trust /\ cfg'.ca = cfg.ca /\ cfg'.bundle = cfg.bundle
      /\ cfg'.cert = cfg.cert /\ cfg'.key = cfg.key
  BY <1>1 DEF Configs
<1>3. Endpoint' = Endpoint /\ HasTlsConfig' = HasTlsConfig
  BY <1>2 DEF Endpoint, HasTlsConfig
<1>4. Target(Endpoint)' = Target(Endpoint)
  BY <1>3 DEF Target, Https
<1>5. TypeOK'
  BY <1>1, <1>2 DEF IInv, TypeOK
<1>6. SecureCurrent' /\ SessionCurrent'
  BY <1>1, <1>2, <1>3, <1>4 DEF IInv, SecureCurrent, SessionCurrent, UpToDate, AnchorTaken
<1>7. TransportCurrent' /\ RequestPrepared'
  BY <1>1, <1>4 DEF IInv, TransportCurrent, RequestPrepared
<1>. QED BY <1>5, <1>6, <1>7 DEF IInv

-----------------------------------------------------------------------------
LEMMA TargetType == ASSUME NEW u PROVE Target(u) \in Transports
  BY DEF Target, Transports

(* beginConnection() leaves a transport, a secure client and a connection  *)
(* that belong to the configuration.                                       *)
LEMMA BeginStep ==
  ASSUME IInv, UNCHANGED takesBundle, BeginTransport(Endpoint), cfg' = cfg
  PROVE  /\ transport' = Target(Endpoint)
         /\ secure' \in SecureClients \cup {NoClient} /\ SecureCurrent'
         /\ conn' \in Sessions \cup {NoConn} /\ SessionCurrent'
<1>. DEFINE s == Slot
<1>. HIDE DEF s
<1>1. /\ transport' = Target(Endpoint)
      /\ secure' = IF Target(Endpoint) = "secure" THEN Applied(s) ELSE secure
      /\ conn' = IF transport \notin {"none", Target(Endpoint)} THEN NoConn ELSE conn
      /\ s \in SecureClients /\ UpToDate(s)
      /\ TypeOK /\ SecureCurrent /\ SessionCurrent
  BY SlotType, SlotUpToDate DEF BeginTransport, IInv, s
<1>2. Applied(s) \in SecureClients /\ UpToDate(Applied(s))
  BY <1>1, AppliedUpToDate
<1>3. secure' \in SecureClients \cup {NoClient}
  BY <1>1, <1>2 DEF TypeOK
<1>4. SecureCurrent'
  <2>1. CASE Target(Endpoint) = "secure"
    <3>1. secure' # NoClient /\ UpToDate(secure')
      BY <1>1, <1>2, <2>1, NoClientApart
    <3>. QED BY <3>1 DEF SecureCurrent, UpToDate, AnchorTaken
  <2>2. CASE Target(Endpoint) # "secure"
    BY <1>1, <2>2 DEF SecureCurrent, UpToDate, AnchorTaken
  <2>. QED BY <2>1, <2>2
<1>5. conn' \in Sessions \cup {NoConn}
  BY <1>1 DEF TypeOK
<1>6. SessionCurrent'
  <2>1. Target(Endpoint)' = Target(Endpoint) /\ Endpoint' = Endpoint
    BY DEF Target, Https, Endpoint, HasTlsConfig
  <2>. QED BY <1>1, <2>1 DEF SessionCurrent, UpToDate, AnchorTaken
<1>. QED BY <1>1, <1>3, <1>4, <1>5, <1>6

LEMMA ConfigKept ==
  ASSUME cfg' = cfg
  PROVE  /\ Endpoint' = Endpoint /\ Target(Endpoint)' = Target(Endpoint)
         /\ Refuses(Endpoint)' = Refuses(Endpoint)
  BY DEF Endpoint, Target, Refuses, Https, HasTlsConfig, HasValidatedTlsConfig

LEMMA ExecuteStep ==
  ASSUME IInv, UNCHANGED takesBundle, Execute
  PROVE  IInv'
<1>1. /\ cfg' = cfg /\ open' = open /\ url' = Endpoint
      /\ phase = "user" /\ open < MaxOpen
  BY DEF Execute
<1>2. Endpoint \in Endpoints
  BY DEF IInv, TypeOK, Configs, Endpoint, Endpoints
<1>3. CASE Refuses(Endpoint)
  <2>1. /\ lastStatus' = TLS_NOT_VALIDATED
        /\ UNCHANGED <<transport, secure, conn, phase>>
    BY <1>3 DEF Execute
  <2>2. TypeOK'
    BY <1>1, <1>2, <2>1 DEF IInv, TypeOK
  <2>3. SecureCurrent' /\ SessionCurrent'
    BY <1>1, <2>1, ConfigKept DEF IInv, SecureCurrent, SessionCurrent, UpToDate, AnchorTaken
  <2>. QED BY <1>1, <2>1, <2>2, <2>3, ConfigKept DEF IInv, TransportCurrent, RequestPrepared
<1>4. CASE ~Refuses(Endpoint)
  <2>1. /\ BeginTransport(Endpoint) /\ lastStatus' = lastStatus
        /\ phase' \in {"user", "attempt"}
    BY <1>4 DEF Execute
  <2>2. /\ transport' = Target(Endpoint)
        /\ secure' \in SecureClients \cup {NoClient} /\ SecureCurrent'
        /\ conn' \in Sessions \cup {NoConn} /\ SessionCurrent'
    BY <1>1, <2>1, BeginStep
  <2>3. TypeOK'
    BY <1>1, <1>2, <2>1, <2>2, TargetType DEF IInv, TypeOK
  <2>. QED BY <1>1, <1>4, <2>2, <2>3, ConfigKept DEF IInv, TransportCurrent, RequestPrepared
<1>. QED BY <1>3, <1>4

LEMMA RetryStep ==
  ASSUME IInv, UNCHANGED takesBundle, Retry
  PROVE  IInv'
<1>1. /\ cfg' = cfg /\ open' = open /\ url' = url /\ phase = "failed"
      /\ phase' = "attempt" /\ url = Endpoint /\ ~Refuses(Endpoint)
      /\ lastStatus' = lastStatus /\ BeginTransport(Endpoint)
  BY DEF Retry, IInv, RequestPrepared
<1>2. /\ transport' = Target(Endpoint)
      /\ secure' \in SecureClients \cup {NoClient} /\ SecureCurrent'
      /\ conn' \in Sessions \cup {NoConn} /\ SessionCurrent'
  BY <1>1, BeginStep
<1>3. TypeOK'
  BY <1>1, <1>2, TargetType DEF IInv, TypeOK
<1>. QED BY <1>1, <1>2, <1>3, ConfigKept DEF IInv, TransportCurrent, RequestPrepared

(* The connection an attempt uses belongs to the configuration. *)
LEMMA InUseCurrent ==
  ASSUME IInv, phase = "attempt"
  PROVE  /\ InUse \in Sessions
         /\ InUse.to = Endpoint /\ InUse.via = transport
         /\ InUse.via = "secure" => UpToDate(InUse.held)
<1>1. /\ url = Endpoint /\ url \in Endpoints /\ transport = Target(Endpoint)
      /\ transport \in Transports /\ secure \in SecureClients \cup {NoClient}
  BY TargetType DEF IInv, RequestPrepared, TypeOK
<1>2. transport = "secure" => secure # NoClient
  BY <1>1 DEF IInv, SecureCurrent, Target, HasTlsConfig
<1>3. CASE conn = NoConn
  <2>1. InUse = Opened
    BY <1>3 DEF InUse
  <2>2. Opened \in Sessions
    BY <1>1 DEF Opened, Sessions
  <2>3. Opened.to = Endpoint /\ Opened.via = transport
    BY <1>1 DEF Opened
  <2>4. transport = "secure" => UpToDate(Opened.held)
    BY <1>2 DEF Opened, IInv, SecureCurrent
  <2>. QED BY <2>1, <2>2, <2>3, <2>4
<1>4. CASE conn # NoConn
  BY <1>4 DEF InUse, IInv, TypeOK, SessionCurrent
<1>. QED BY <1>3, <1>4

(* The steps of _http and of the server: the configuration, the transport  *)
(* and the secure client stay, the connection is the one in use or none.   *)
LEMMA ConnStep ==
  ASSUME IInv, UNCHANGED takesBundle, UNCHANGED <<cfg, transport, secure, url>>,
         conn' \in {conn, NoConn} \/ (phase = "attempt" /\ conn' = InUse),
         phase' \in {"user", "failed", phase},
         phase' # "user" => phase # "user" /\ open' = open,
         lastStatus' \in {Answered, Failed, lastStatus}, open' \in 0 .. MaxOpen
  PROVE  IInv'
<1>1. /\ Endpoint' = Endpoint /\ Target(Endpoint)' = Target(Endpoint)
      /\ Refuses(Endpoint)' = Refuses(Endpoint)
  BY ConfigKept
<1>2. phase' \in {"user", "attempt", "failed"}
  BY DEF IInv, TypeOK
<1>3. conn' \in Sessions \cup {NoConn}
  BY InUseCurrent DEF IInv, TypeOK
<1>4. TypeOK'
  BY <1>2, <1>3 DEF IInv, TypeOK
<1>5. SecureCurrent' /\ TransportCurrent' /\ RequestPrepared'
  BY <1>1 DEF IInv, SecureCurrent, UpToDate, AnchorTaken, TransportCurrent, RequestPrepared
<1>6. SessionCurrent'
  <2>1. CASE conn' \in {conn, NoConn}
    BY <2>1, <1>1 DEF IInv, SessionCurrent, UpToDate, AnchorTaken
  <2>2. CASE phase = "attempt" /\ conn' = InUse
    BY <2>2, <1>1, InUseCurrent DEF IInv, SessionCurrent, UpToDate, AnchorTaken, RequestPrepared
  <2>. QED BY <2>1, <2>2
<1>. QED BY <1>4, <1>5, <1>6 DEF IInv

LEMMA HttpStep ==
  ASSUME IInv, UNCHANGED takesBundle, Send \/ SendFails \/ GiveUp \/ Finish \/ Drop
  PROVE  IInv'
<1>1. /\ UNCHANGED <<cfg, transport, secure, url>>
      /\ conn' \in {conn, NoConn} \/ (phase = "attempt" /\ conn' = InUse)
      /\ phase' \in {"user", "failed", phase}
      /\ lastStatus' \in {Answered, Failed, lastStatus}
  BY DEF Send, SendFails, GiveUp, Finish, Drop
<1>2. phase' # "user" => phase # "user" /\ open' = open
  BY DEF Send, SendFails, GiveUp, Finish, Drop
<1>3. open' \in 0 .. MaxOpen
  <2>1. open \in 0 .. MaxOpen /\ (phase = "attempt" => open < MaxOpen)
    BY DEF IInv, TypeOK, RequestPrepared
  <2>. QED BY <2>1, OpenAssumption DEF Send, SendFails, GiveUp, Finish, Drop
<1>. QED BY <1>1, <1>2, <1>3, ConnStep

-----------------------------------------------------------------------------
LEMMA NextIInv == IInv /\ [Next]_vars => IInv'
<1>. SUFFICES ASSUME IInv, [Next]_vars PROVE IInv'
  OBVIOUS
<1>. takesBundle' = takesBundle
  BY DEF Next, vars
<1>1. CASE Configure
  <2>1. ASSUME NEW b \in BaseUrls, NEW p \in Ports, SetBaseUrl(b, p) PROVE IInv'
    BY <2>1, SetUrlStep
  <2>2. ASSUME NEW p \in Ports, SetPort(p) PROVE IInv'
    <3>1. cfg.base \in BaseUrls
      BY DEF IInv, TypeOK, Configs
    <3>. QED BY <3>1, <2>2, SetUrlStep
  <2>3. CASE End
    <3>1. cfg.base \in BaseUrls /\ cfg.port \in Ports
      BY DEF IInv, TypeOK, Configs
    <3>. QED BY <3>1, <2>3, SetUrlStep
  <2>. QED BY <1>1, <2>1, <2>2, <2>3, SetCACertStep, SetCACertBundleStep,
              SetClientCertStep, SetInsecureStep, RequireStep DEF Configure
<1>2. CASE Request
  BY <1>2, ExecuteStep, RetryStep, HttpStep DEF Request
<1>3. CASE Drop
  BY <1>3, HttpStep
<1>4. CASE UNCHANGED vars
  BY <1>4 DEF vars, IInv, TypeOK, SecureCurrent, TransportCurrent, RequestPrepared,
              SessionCurrent, Endpoint, Target, Https, HasTlsConfig, Refuses,
              HasValidatedTlsConfig, UpToDate, AnchorTaken
<1>. QED BY <1>1, <1>2, <1>3, <1>4 DEF Next

LEMMA Inductive == Spec => []IInv
  BY InitIInv, NextIInv, PTL DEF Spec

(* The types, and no more than MaxOpen streams are open. *)
THEOREM ConfigTypes == Spec => []TypeOK
<1>1. IInv => TypeOK
  BY DEF IInv
<1>. QED BY <1>1, Inductive, PTL

(* The kept-alive connection belongs to the configuration of the moment:   *)
(* its endpoint, its transport, its trust anchor and client certificate.   *)
THEOREM ConnectionCurrent == Spec => []SessionCurrent
<1>1. IInv => SessionCurrent
  BY DEF IInv
<1>. QED BY <1>1, Inductive, PTL

(* While validated TLS is required an HTTPS request is only sent over the  *)
(* secure client, and, unless the configured anchor is a bundle that the   *)
(* secure client of the build does not take, over a connection that        *)
(* validated the server.                                                   *)
THEOREM PolicyHolds == Spec => PolicyEnforced
<1>1. ASSUME IInv, Next, phase = "attempt", open' > open, cfg.required, Https(url)
      PROVE  /\ conn'.via = "secure"
             /\ AnchorTaken => /\ ~conn'.held.insecure
                               /\ conn'.held.ca \in CAs \/ conn'.held.bundle \in Bundles
  <2>1. open \in 0 .. MaxOpen /\ url = Endpoint /\ ~Refuses(Endpoint)
        /\ transport = Target(Endpoint)
    BY <1>1 DEF IInv, TypeOK, RequestPrepared
  <2>2. Send
    BY <1>1, <2>1, OpenAssumption DEF Next, Request, Execute, SendFails, Retry, GiveUp,
       Finish, Drop, Configure, Reconfigure, SetBaseUrl, SetPort, End, SetCACert,
       SetCACertBundle, SetClientCert, SetInsecure, RequireValidatedTls
  <2>3. conn' = InUse
    BY <2>2 DEF Send
  <2>4. HasValidatedTlsConfig
    BY <1>1, <2>1 DEF Refuses
  <2>5. transport = "secure"
    BY <1>1, <2>1, <2>4 DEF Target, HasTlsConfig, HasValidatedTlsConfig
  <2>6. InUse.via = "secure" /\ UpToDate(InUse.held)
    BY <1>1, <2>5, InUseCurrent
  <2>7. cfg.ca \in CAs \cup {EmptyPem, Null} /\ cfg.bundle \in Bundles \cup {Null}
    BY <1>1 DEF IInv, TypeOK, Configs
  <2>8. AnchorTaken => /\ ~InUse.held.insecure
                       /\ InUse.held.ca \in CAs \/ InUse.held.bundle \in Bundles
    BY <2>4, <2>6, <2>7 DEF UpToDate, HasValidatedTlsConfig
  <2>. QED BY <2>3, <2>6, <2>8
<1>2. IInv /\ [Next]_vars =>
        [ (phase = "attempt" /\ open' > open /\ cfg.required /\ Https(url)) =>
            /\ conn'.via = "secure"
            /\ AnchorTaken => /\ ~conn'.held.insecure
                              /\ conn'.held.ca \in CAs \/ conn'.held.bundle \in Bundles ]_vars
  BY <1>1
<1>. QED BY <1>2, Inductive, PTL DEF Spec, PolicyEnforced

=============================================================================
