--------------------------- MODULE ESP32HTTPClient ---------------------------
(***************************************************************************)
(* ESP32HTTPClient.cpp, the connection of the client: the configuration of *)
(* endpoint and TLS, the transport chosen for a request, the secure client *)
(* of ESP32HTTPClientTLS.h and the kept-alive connection they share.       *)
(*                                                                         *)
(* All requests of a client use one HTTPClient.  Its connection outlives a *)
(* request, so it has been opened under an earlier configuration; the code *)
(* must drop it whenever that one is given up.  User code runs between the *)
(* requests and, in a streaming callback, while a response is being read;  *)
(* there it may reconfigure the client or run another request.             *)
(*                                                                         *)
(* Builds without a secure client (ESP32HTTPCLIENT_HAS_TLS = 0) are left   *)
(* out; those whose secure client has no setCACertBundle() are not.        *)
(***************************************************************************)
EXTENDS Integers

CONSTANTS
  HttpUrls, HttpsUrls,  (* base URLs by scheme                            *)
  BadUrls,              (* base URLs that http.begin() rejects            *)
  Ports,                (* 0: no port is added to the URL                 *)
  CAs, EmptyPem,        (* root CA strings, and the empty string          *)
  Bundles, Certs, Keys, (* bundles, client certificates and their keys    *)
  Null,                 (* nullptr                                        *)
  MaxOpen               (* bound: streams open at a time, by nesting      *)

BaseUrls == HttpUrls \cup HttpsUrls \cup BadUrls

ASSUME UrlAssumption ==
  /\ HttpUrls \cap HttpsUrls = {}
  /\ BadUrls \cap HttpsUrls = {}

ASSUME PemAssumption ==
  /\ Null \notin CAs \cup Bundles \cup Certs \cup Keys \cup {EmptyPem}
  /\ EmptyPem \notin CAs

ASSUME OpenAssumption == MaxOpen \in Nat \ {0}

VARIABLES
  takesBundle, (* build: SecureClient has one of the setCACertBundle()    *)
               (* that applyCACertBundle() calls                          *)
  cfg,         (* what the setters were given                             *)
  transport,   (* _transport                                              *)
  secure,      (* _secure: the secure client's own settings, or NoClient  *)
  lastStatus,  (* _lastStatusCode                                         *)
  conn,        (* the connection of _http, with how it was opened         *)
  phase,       (* where execute() is                                      *)
  url,         (* the endpoint of the request that is being sent          *)
  open         (* requests whose response is being read                   *)

vars == <<takesBundle, cfg, transport, secure, lastStatus, conn, phase, url, open>>

Trusts     == {"none", "ca", "bundle", "insecure"}
Transports == {"plain", "defaultTls", "secure"}
NoClient   == [made |-> FALSE]
NoConn     == [live |-> FALSE]
TLS_NOT_VALIDATED == -12   (* HTTPC_ERROR_TLS_NOT_VALIDATED *)
Failed            == -1    (* any other negative code       *)
Answered          == 200   (* any status of a server        *)

Configs ==
  [base : BaseUrls, port : Ports, trust : Trusts,
   ca : CAs \cup {EmptyPem, Null}, bundle : Bundles \cup {Null},
   cert : Certs \cup {Null}, key : Keys \cup {Null}, required : BOOLEAN]

Endpoints == [base : BaseUrls, port : Ports]

SecureClients ==
  [made : {TRUE}, ca : CAs \cup {EmptyPem, Null}, bundle : Bundles \cup {Null},
   insecure : BOOLEAN, cert : Certs \cup {Null}, key : Keys \cup {Null}]

(* A live connection: the transport, the endpoint it leads to, and for the *)
(* secure client the settings its handshake was made with.                 *)
Sessions ==
  [live : {TRUE}, via : Transports, to : Endpoints,
   held : SecureClients \cup {NoClient}]

TypeOK ==
  /\ takesBundle \in BOOLEAN
  /\ cfg \in Configs
  /\ transport \in Transports \cup {"none"}
  /\ secure \in SecureClients \cup {NoClient}
  /\ lastStatus \in {0, TLS_NOT_VALIDATED, Failed, Answered}
  /\ conn \in Sessions \cup {NoConn}
  /\ phase \in {"user", "attempt", "failed"}
  /\ url \in Endpoints
  /\ open \in 0 .. MaxOpen

Endpoint == [base |-> cfg.base, port |-> cfg.port]

Init ==
  /\ takesBundle \in BOOLEAN
  /\ cfg \in {c \in Configs :
                /\ c.trust = "none" /\ c.ca = Null /\ c.bundle = Null
                /\ c.cert = Null /\ c.key = Null}
  /\ transport = "none" /\ secure = NoClient /\ lastStatus = 0
  /\ conn = NoConn /\ phase = "user" /\ open = 0
  /\ url = Endpoint

-----------------------------------------------------------------------------
(* The configuration. *)

(* The secure client as create() leaves it. *)
Fresh == [made |-> TRUE, ca |-> Null, bundle |-> Null, insecure |-> FALSE,
          cert |-> Null, key |-> Null]

Slot == IF secure = NoClient THEN Fresh ELSE secure

(* What the setters of the secure client do.  Where it has none for a      *)
(* bundle, applyCACertBundle() returns FALSE, which nobody looks at.       *)
WithCA(s, c)      == [s EXCEPT !.ca = c, !.insecure = FALSE]
WithBundle(s, b)  ==
  IF takesBundle THEN [s EXCEPT !.bundle = b, !.insecure = FALSE] ELSE s
WithCert(s, c, k) == [s EXCEPT !.cert = c, !.key = k]
WithoutChecks(s)  == [s EXCEPT !.insecure = TRUE, !.ca = Null, !.bundle = Null]

(* Mutant: http.end() with reuse still on keeps the socket. *)
InvalidateTlsSessionReuse ==
  /\ conn' = IF secure = NoClient THEN conn ELSE NoConn
  /\ transport' = "none"

(* invalidateTlsSession(), which end() is: without reuse _http.end() closes *)
(* the socket, and the secure client is stopped.                            *)
InvalidateTlsSession ==
  /\ conn' = NoConn
  /\ transport' = "none"

(* The part all setters share.  User code calls them. *)
Reconfigure ==
  /\ phase = "user"
  /\ InvalidateTlsSession
  /\ UNCHANGED <<lastStatus, phase, url, open>>

SetBaseUrl(b, p) ==
  /\ Reconfigure
  /\ cfg' = [cfg EXCEPT !.base = b, !.port = p]
  /\ UNCHANGED secure

SetPort(p) ==
  /\ Reconfigure
  /\ cfg' = [cfg EXCEPT !.port = p]
  /\ UNCHANGED secure

End == Reconfigure /\ UNCHANGED <<cfg, secure>>

SetCACert(c) ==
  /\ Reconfigure
  /\ cfg' = [cfg EXCEPT !.trust = "ca", !.ca = c, !.bundle = Null]
  /\ secure' = WithCA(Slot, c)

SetCACertBundle(b) ==
  /\ Reconfigure
  /\ cfg' = [cfg EXCEPT !.trust = "bundle", !.bundle = b, !.ca = Null]
  /\ secure' = WithBundle(Slot, b)

SetClientCert(c, k) ==
  /\ Reconfigure
  /\ cfg' = [cfg EXCEPT !.cert = c, !.key = k]
  /\ secure' = WithCert(Slot, c, k)

SetInsecure ==
  /\ Reconfigure
  /\ cfg' = [cfg EXCEPT !.trust = "insecure", !.ca = Null, !.bundle = Null]
  /\ secure' = WithoutChecks(Slot)

(* The policy changes and the connection stays. *)
RequireValidatedTls(r) ==
  /\ phase = "user"
  /\ cfg' = [cfg EXCEPT !.required = r]
  /\ UNCHANGED <<transport, secure, lastStatus, conn, phase, url, open>>

-----------------------------------------------------------------------------
(* beginConnection(). *)

Https(u) == u.base \in HttpsUrls

(* Mutant: an empty root CA counts as one. *)
HasAnyTlsConfig ==
  \/ cfg.trust = "ca" /\ cfg.ca # Null
  \/ cfg.trust = "bundle" /\ cfg.bundle # Null

HasValidatedTlsConfig ==
  \/ cfg.trust = "ca" /\ cfg.ca \notin {Null, EmptyPem}
  \/ cfg.trust = "bundle" /\ cfg.bundle # Null

HasTlsConfig ==
  \/ cfg.trust # "none"
  \/ cfg.cert # Null /\ cfg.key # Null

Target(u) ==
  IF ~Https(u) THEN "plain" ELSE IF HasTlsConfig THEN "secure" ELSE "defaultTls"

Refuses(u) == Https(u) /\ cfg.required /\ ~HasValidatedTlsConfig

(* The settings given to the secure client again before each use of it. *)
Trusted(s) ==
  CASE cfg.trust = "insecure"                     -> WithoutChecks(s)
    [] cfg.trust = "ca" /\ cfg.ca # Null          -> WithCA(s, cfg.ca)
    [] cfg.trust = "bundle" /\ cfg.bundle # Null  -> WithBundle(s, cfg.bundle)
    [] OTHER                                      -> s

Applied(s) ==
  IF cfg.cert # Null /\ cfg.key # Null
  THEN WithCert(Trusted(s), cfg.cert, cfg.key) ELSE Trusted(s)

(* Mutant: _transport is only set for the secure client. *)
BeginTransportSecureOnly(u) ==
  /\ transport' = IF Target(u) = "secure" THEN "secure" ELSE transport
  /\ secure' = IF Target(u) = "secure" THEN Applied(Slot) ELSE secure
  /\ conn' = IF transport \notin {"none", Target(u)} THEN NoConn ELSE conn

(* Another transport ends the connection of the old one; the secure client *)
(* is only touched when the request goes through it.                       *)
BeginTransport(u) ==
  /\ transport' = Target(u)
  /\ secure' = IF Target(u) = "secure" THEN Applied(Slot) ELSE secure
  /\ conn' = IF transport \notin {"none", Target(u)} THEN NoConn ELSE conn

(* execute() of any request up to its first attempt.  A refused or rejected*)
(* request goes on to its callbacks at once, after http.end(), and the     *)
(* rejected one leaves the status of the request before it.                *)
Execute ==
  /\ phase = "user" /\ open < MaxOpen
  /\ url' = Endpoint
  /\ IF Refuses(Endpoint)
     THEN /\ lastStatus' = TLS_NOT_VALIDATED
          /\ UNCHANGED <<transport, secure, conn, phase>>
     ELSE /\ BeginTransport(Endpoint)
          /\ phase' = IF cfg.base \in BadUrls THEN "user" ELSE "attempt"
          /\ UNCHANGED lastStatus
  /\ UNCHANGED <<cfg, open>>

(* After a failed attempt: http.end(), which may close the connection (see *)
(* Drop), and beginConnection() once more with its result ignored.         *)
Retry ==
  /\ phase = "failed"
  /\ phase' = "attempt"
  /\ IF Refuses(url)
     THEN /\ lastStatus' = TLS_NOT_VALIDATED
          /\ UNCHANGED <<transport, secure, conn>>
     ELSE /\ BeginTransport(url)
          /\ UNCHANGED lastStatus
  /\ UNCHANGED <<cfg, url, open>>

(* No attempt is left: the code is stored and the callbacks run. *)
GiveUp ==
  /\ phase = "failed"
  /\ phase' = "user"
  /\ lastStatus' = Failed
  /\ UNCHANGED <<cfg, transport, secure, conn, url, open>>

-----------------------------------------------------------------------------
(* _http: it reuses a connection whatever the port of the URL is, and opens*)
(* one otherwise.  Redirects are not followed, which is the default.       *)

Opened == [live |-> TRUE, via |-> transport, to |-> url,
           held |-> IF transport = "secure" THEN secure ELSE NoClient]

InUse == IF conn = NoConn THEN Opened ELSE conn

(* An attempt that is answered: the response is read from here on. *)
Send ==
  /\ phase = "attempt"
  /\ conn' = InUse
  /\ lastStatus' = Answered
  /\ phase' = "user" /\ open' = open + 1
  /\ UNCHANGED <<cfg, transport, secure, url>>

(* An attempt that fails, with or without a connection left. *)
SendFails ==
  /\ phase = "attempt"
  /\ phase' = "failed"
  /\ conn' \in {InUse, NoConn}
  /\ UNCHANGED <<cfg, transport, secure, lastStatus, url, open>>

(* The response has been read: http.end() keeps the connection, unless the *)
(* server said otherwise.                                                  *)
Finish ==
  /\ phase = "user" /\ open > 0
  /\ open' = open - 1
  /\ conn' \in {conn, NoConn}
  /\ UNCHANGED <<cfg, transport, secure, lastStatus, phase, url>>

(* The server closes an idle or a busy connection. *)
Drop ==
  /\ conn # NoConn
  /\ conn' = NoConn
  /\ UNCHANGED <<cfg, transport, secure, lastStatus, phase, url, open>>

Configure ==
  \/ \E b \in BaseUrls, p \in Ports : SetBaseUrl(b, p)
  \/ \E p \in Ports : SetPort(p)
  \/ End
  \/ \E c \in CAs \cup {EmptyPem, Null} : SetCACert(c)
  \/ \E b \in Bundles \cup {Null} : SetCACertBundle(b)
  \/ \E c \in Certs \cup {Null}, k \in Keys \cup {Null} : SetClientCert(c, k)
  \/ SetInsecure
  \/ \E r \in BOOLEAN : RequireValidatedTls(r)

Request == Execute \/ Send \/ SendFails \/ Retry \/ GiveUp \/ Finish

Next == (Configure \/ Request \/ Drop) /\ UNCHANGED takesBundle

Spec == Init /\ [][Next]_vars

-----------------------------------------------------------------------------
(* The configured trust anchor is one that the secure client can be given. *)
(* If it is not, the client goes on with what it was given before: another *)
(* anchor, none, or setInsecure().                                         *)
AnchorTaken == cfg.trust = "bundle" => takesBundle

(* The settings s are those the user configured last, but for the anchor   *)
(* that is not taken.  A CA or a bundle that was configured before stays in*)
(* the secure client and is not looked at here: which one it prefers is up *)
(* to that class.                                                          *)
UpToDate(s) ==
  /\ s.cert = cfg.cert /\ s.key = cfg.key
  /\ cfg.trust = "ca" => s.ca = cfg.ca
  /\ AnchorTaken =>
       /\ cfg.trust = "bundle" => s.bundle = cfg.bundle
       /\ s.insecure = (cfg.trust = "insecure")

(* A kept-alive connection never outlives the configuration it was opened  *)
(* under: it leads to the configured endpoint, over the transport that the *)
(* next request would choose, and its handshake was made with the present  *)
(* trust anchor, if the build has it taken, and client certificate (the    *)
(* setters, 30-43 and 186-244, and beginConnection(), 423-425), also when a*)
(* streaming callback reconfigures the client.                             *)
SessionCurrent ==
  conn # NoConn =>
    /\ conn.to = Endpoint
    /\ conn.via = transport /\ conn.via = Target(Endpoint)
    /\ conn.via = "secure" => UpToDate(conn.held)

(* While validated TLS is required no HTTPS request travels over a         *)
(* connection whose handshake could not have validated the server, not even*)
(* over one that was open before the policy was switched on                *)
(* (requireValidatedTls(), 246-248, and beginConnection(), 397-405).  One  *)
(* case is excluded because the code does not keep it: a bundle that is    *)
(* configured, but not taken by the secure client of the build, satisfies  *)
(* hasValidatedTlsConfig() all the same (ESP32HTTPClientTLS.h 84-87,       *)
(* ESP32HTTPClient.cpp 212 and 438).                                       *)
PolicyEnforced ==
  [][ (phase = "attempt" /\ open' > open /\ cfg.required /\ Https(url)) =>
        /\ conn'.via = "secure"
        /\ AnchorTaken => /\ ~conn'.held.insecure
                          /\ conn'.held.ca \in CAs \/ conn'.held.bundle \in Bundles ]_vars

=============================================================================
