-------------------------- MODULE OutgoingRequest --------------------------
(***************************************************************************)
(* Requests on one client from their construction, through calls of their  *)
(* setters and moves, to the message that execute() hands to HTTPClient.   *)
(* The client keeps the base URL, the port, the headers of all requests    *)
(* and, in a static variable, the next JSON-RPC id.                        *)
(*                                                                         *)
(* What user code has called is kept beside the state, in "asked" of a     *)
(* request and in "set" of the client: it is what the messages are         *)
(* compared with.                                                          *)
(***************************************************************************)
EXTENDS RequestText

CONSTANTS
  Path,          \* the path of every request, with placeholders
  Bases, Ports,  \* base URLs and ports; the client starts with FirstBase, no port
  FirstBase,
  Keys, Texts,   \* names and values of parameters, as text
  PathValues, QueryValues,
  Bare, RawJson, \* values that are written without quotes, and JSON texts
  Structs,       \* what the fields of structs hold: sequences of parameters
  HeaderNames, HeaderValues, CookieNames,
  Lower(_),      \* the lower case of a character
  NameSize, ValueSize,  \* sizes of the arrays in HttpHeader
  IdCount,       \* the counter of ids counts modulo this (2^32 in the code)
  IntText(_),    \* how String(int) writes a number
  MaxSteps       \* bound on all operations together

(* The name Cookie has 2 characters here, 6 in the code's arrays of 64. *)
ASSUME SizesAssumption == NameSize \in Nat \ 0 .. 2 /\ ValueSize \in Nat \ {0}
ASSUME BoundsAssumption == IdCount \in Nat \ {0, 1} /\ MaxSteps \in Nat
ASSUME HeaderAssumption ==
  \A t \in HeaderNames \cup HeaderValues \cup CookieNames \cup Bare :
    t \in Seq({t[i] : i \in DOMAIN t})
ASSUME TextAssumption ==
  \A m, n \in -IdCount .. IdCount : IntText(m) = IntText(n) => m = n

VARIABLES
  base, port,
  headers,  \* _headers of the client: sequence of [name, value]
  set,      \* calls of header setters of the client
  nextId,   \* s_jsonRpcIdCounter
  born,     \* number of JSON-RPC requests constructed
  reqs,     \* the request objects, moved-from ones included
  wire,     \* the messages handed to HTTPClient
  steps

client == <<base, port, headers, set>>
vars   == <<base, port, headers, set, nextId, born, reqs, wire, steps>>

(* strncpy into an array of the given size, the last element of which is   *)
(* set to zero.                                                            *)
Cut(t, size) == SubSeq(t, 1, IF Len(t) < size THEN Len(t) ELSE size - 1)

(* strcasecmp *)
SameName(a, b) == [i \in DOMAIN a |-> Lower(a[i])] = [i \in DOMAIN b |-> Lower(b[i])]

Header(name, value) == [name |-> name, value |-> value]

(* Mutant: names are compared with their case. *)
WithHeaderCased(list, name, value) ==
  LET same == {i \in DOMAIN list : list[i].name = name}
  IN  IF same = {} THEN Append(list, Header(Cut(name, NameSize), Cut(value, ValueSize)))
      ELSE [list EXCEPT ![CHOOSE i \in same : \A j \in same : i <= j].value = Cut(value, ValueSize)]

(* The first header of the name gets the value, or a new one is appended.  *)
(* The name is compared before it is cut.                                  *)
WithHeader(list, name, value) ==
  LET same == {i \in DOMAIN list : SameName(list[i].name, name)}
  IN  IF same = {} THEN Append(list, Header(Cut(name, NameSize), Cut(value, ValueSize)))
      ELSE [list EXCEPT ![CHOOSE i \in same : \A j \in same : i <= j].value = Cut(value, ValueSize)]

Cookie == <<"C", "k">>

(* The value of the Cookie header with one cookie more. *)
WithCookie(list, name, value) ==
  LET kept == {i \in DOMAIN list : SameName(list[i].name, Cookie)}
      old  == IF kept = {} THEN <<>> ELSE list[CHOOSE i \in kept : \A j \in kept : i <= j].value
  IN  (IF old = <<>> THEN <<>> ELSE old \o <<";", " ">>) \o name \o <<"=">> \o value

Init ==
  /\ base = FirstBase /\ port = <<>>
  /\ headers = <<>> /\ set = <<>>
  /\ nextId = 1 /\ born = 0
  /\ reqs = <<>> /\ wire = <<>>
  /\ steps = 0

(* The last step of the bound is left for a message. *)
Step == steps < MaxSteps - 1 /\ steps' = steps + 1

-----------------------------------------------------------------------------
(* The client *)

Asked(op, key, value, quote) == [op |-> op, key |-> key, value |-> value, quote |-> quote]

(* The empty text stands for no port, which is also the default here. *)
SetBaseUrl ==
  /\ Step
  /\ \E b \in Bases, p \in Ports \cup {<<>>} : base' = b /\ port' = p
  /\ UNCHANGED <<headers, set, nextId, born, reqs, wire>>

SetPort ==
  /\ Step
  /\ \E p \in Ports \cup {<<>>} : port' = p
  /\ UNCHANGED <<base, headers, set, nextId, born, reqs, wire>>

(* setHeader(), and bearer(), basic() and apiKey(), which call it. *)
SetHeader ==
  /\ Step
  /\ \E name \in HeaderNames, value \in HeaderValues :
       /\ headers' = WithHeader(headers, name, value)
       /\ set' = Append(set, Asked("header", name, value, FALSE))
  /\ UNCHANGED <<base, port, nextId, born, reqs, wire>>

AddCookie ==
  /\ Step
  /\ \E name \in CookieNames, value \in Bare :
       /\ headers' = WithHeader(headers, Cookie, WithCookie(headers, name, value))
       /\ set' = Append(set, Asked("cookie", name, value, FALSE))
  /\ UNCHANGED <<base, port, nextId, born, reqs, wire>>

-----------------------------------------------------------------------------
(* Construction and moves *)

(* A new object: what every request has, and what its kind has besides.    *)
Fresh(kind, parts) ==
  LET common == [kind |-> kind, path |-> Path, executed |-> FALSE, moved |-> FALSE,
                 pathParams |-> <<>>, queryParams |-> <<>>, asked |-> <<>>, born |-> 0]
  IN  [f \in DOMAIN common \cup DOMAIN parts |->
         IF f \in DOMAIN common THEN common[f] ELSE parts[f]]

Construct(object) ==
  /\ Step
  /\ reqs' = Append(reqs, object)
  /\ UNCHANGED <<client, wire>>

(* get: the method is GET; the other methods of REST differ in their name  *)
(* only.                                                                   *)
NewRest ==
  /\ \E get \in BOOLEAN : Construct(Fresh("rest", [get |-> get, rawBody |-> <<>>, bodyParams |-> <<>>]))
  /\ UNCHANGED <<nextId, born>>

NewGraphQL ==
  /\ \E get \in BOOLEAN :
       Construct([Fresh("graphql",
         [get |-> get, document |-> <<>>, operationName |-> <<>>, rawVariables |-> <<>>,
          variables |-> <<>>, customHeaders |-> <<>>])
         EXCEPT !.asked = <<Asked("get", <<>>, <<>>, get)>>])
  /\ UNCHANGED <<nextId, born>>

NewSoap ==
  /\ \E version \in {"soap", "soap12"} :
       Construct([Fresh("soap",
         [version |-> version, soapAction |-> <<>>, bodyXml |-> <<>>, headerXml |-> <<>>,
          rawEnvelope |-> <<>>])
         EXCEPT !.asked = <<Asked("version", <<>>, version, TRUE)>>])
  /\ UNCHANGED <<nextId, born>>

(* _intId is a signed number of the width of the counter. *)
Signed(n) == IF n < IdCount \div 2 THEN n ELSE n - IdCount

(* Mutant: ids keep only the lower half of the counter. *)
TextOfIdHalved(n) == IntText(n % (IdCount \div 2))
TextOfId(n) == IntText(Signed(n))

NewJsonRpc ==
  /\ Construct([Fresh("rpc",
       [method |-> <<>>, isNotification |-> FALSE, idType |-> "auto", intId |-> TextOfId(nextId),
        stringId |-> <<>>, paramMode |-> "none", params |-> <<>>, rawParams |-> <<>>,
        customHeaders |-> <<>>]) EXCEPT !.born = born + 1])
  /\ nextId' = (nextId + 1) % IdCount
  /\ born' = born + 1

Usable(r) == ~reqs[r].moved

(* The new object holds everything; the old one is marked as executed, so  *)
(* that its destructor sends nothing.                                      *)
Move(r) ==
  /\ Step /\ Usable(r)
  /\ reqs' = Append([reqs EXCEPT ![r].executed = TRUE, ![r].moved = TRUE], reqs[r])
  /\ UNCHANGED <<client, nextId, born, wire>>

-----------------------------------------------------------------------------
(* Setters of requests *)

Kind(r, kind) == reqs[r].kind = kind

Change(r, object, call) ==
  /\ Step /\ Usable(r)
  /\ reqs' = [reqs EXCEPT ![r] = [object EXCEPT !.asked = Append(@, call)]]
  /\ UNCHANGED <<client, nextId, born, wire>>

Param(key, value, quote) == [key |-> key, value |-> value, quote |-> quote]

(* Values that are written in quotes, and those that are not. *)
Values == {Param(<<>>, t, TRUE) : t \in Texts} \cup {Param(<<>>, t, FALSE) : t \in Bare \cup RawJson}
Plains == {Param(<<>>, t, TRUE) : t \in Texts} \cup {Param(<<>>, t, FALSE) : t \in Bare}

PathParam(r) ==
  \E key \in Keys, value \in PathValues :
    Change(r, [reqs[r] EXCEPT !.pathParams = Append(@, Param(key, value, TRUE))],
           Asked("path", key, value, TRUE))

QueryParam(r) ==
  \E key \in Keys, value \in QueryValues :
    Change(r, [reqs[r] EXCEPT !.queryParams = Append(@, Param(key, value, TRUE))],
           Asked("query", key, value, TRUE))

(* body(key, value) *)
BodyField(r) ==
  /\ Kind(r, "rest")
  /\ \E key \in Keys, v \in Plains :
       Change(r, [reqs[r] EXCEPT !.bodyParams = Append(@, Param(key, v.value, v.quote))],
              Asked("body", key, v.value, v.quote))

(* body(struct) *)
BodyStruct(r) ==
  /\ Kind(r, "rest")
  /\ \E fields \in Structs :
       Change(r, [reqs[r] EXCEPT !.rawBody = Serialized(fields)],
              Asked("struct", <<>>, fields, TRUE))

(* A field of the object that a setter assigns its argument to. *)
Assign(r, field, values) ==
  \E value \in values :
    Change(r, [reqs[r] EXCEPT ![field] = value], Asked(field, <<>>, value, TRUE))

Method(r) == Kind(r, "rpc") /\ Assign(r, "method", Texts)

IntId(r) ==
  /\ Kind(r, "rpc")
  /\ \E n \in Bare :
       Change(r, [reqs[r] EXCEPT !.idType = "int", !.intId = n, !.isNotification = FALSE],
              Asked("id", <<>>, n, FALSE))

StringId(r) ==
  /\ Kind(r, "rpc")
  /\ \E text \in Texts :
       Change(r, [reqs[r] EXCEPT !.idType = "string", !.stringId = text, !.isNotification = FALSE],
              Asked("id", <<>>, text, TRUE))

(* nullId(), and id() of a null pointer. *)
NullId(r) ==
  /\ Kind(r, "rpc")
  /\ Change(r, [reqs[r] EXCEPT !.idType = "null", !.isNotification = FALSE],
            Asked("id", <<>>, <<"null">>, FALSE))

(* asNotification() is notification(true). *)
Notification(r) ==
  /\ Kind(r, "rpc")
  /\ \E enable \in BOOLEAN :
       Change(r, [reqs[r] EXCEPT !.isNotification = enable],
              Asked("notification", <<>>, <<>>, enable))

(* addParamInternal(): a name makes the parameters named, for good; without*)
(* one they become positional if they are nothing else yet.  An empty name *)
(* is none.                                                                *)
AddParam(r) ==
  /\ Kind(r, "rpc")
  /\ \E key \in Keys \cup {<<>>}, v \in Values :
       Change(r, [reqs[r] EXCEPT
                    !.paramMode = CASE key # <<>>                -> "named"
                                    [] key = <<>> /\ @ = "none" -> "positional"
                                    [] OTHER                     -> @,
                    !.params = Append(@, Param(key, v.value, v.quote))],
              Asked("param", key, v.value, v.quote))

(* rawParams(), and params() of a struct, which calls it. *)
RawParams(r) ==
  /\ Kind(r, "rpc")
  /\ \E json \in RawJson \cup {<<>>} \cup {Serialized(fields) : fields \in Structs} :
       Change(r, [reqs[r] EXCEPT !.rawParams = json, !.paramMode = "raw"],
              Asked("rawParams", <<>>, json, FALSE))

Document(r)      == Kind(r, "graphql") /\ Assign(r, "document", Texts)
OperationName(r) == Kind(r, "graphql") /\ Assign(r, "operationName", Texts)

(* mutation() *)
Mutation(r) ==
  /\ Kind(r, "graphql")
  /\ \E text \in Texts :
       Change(r, [reqs[r] EXCEPT !.document = text, !.get = FALSE],
              Asked("mutation", <<>>, text, FALSE))

AsGet(r) ==
  /\ Kind(r, "graphql")
  /\ \E get \in BOOLEAN :
       Change(r, [reqs[r] EXCEPT !.get = get], Asked("get", <<>>, <<>>, get))

(* variable() and rawVariable(). *)
Variable(r) ==
  /\ Kind(r, "graphql")
  /\ \E key \in Keys, v \in Values :
       Change(r, [reqs[r] EXCEPT !.variables = Append(@, Param(key, v.value, v.quote))],
              Asked("variable", key, v.value, v.quote))

RawVariables(r) ==
  Kind(r, "graphql") /\ Assign(r, "rawVariables", {Serialized(fields) : fields \in Structs} \cup {<<>>})

(* header() of a JSON-RPC request appends, that of a GraphQL request       *)
(* overwrites.                                                             *)
RequestHeader(r) ==
  /\ reqs[r].kind \in {"rpc", "graphql"}
  /\ \E name \in HeaderNames, value \in HeaderValues :
       Change(r, [reqs[r] EXCEPT !.customHeaders =
                    IF Kind(r, "rpc") THEN Append(@, Header(Cut(name, NameSize), Cut(value, ValueSize)))
                    ELSE WithHeader(@, name, value)],
              Asked("header", name, value, TRUE))

Version(r)     == Kind(r, "soap") /\ Assign(r, "version", {"soap", "soap12"})
SoapAction(r)  == Kind(r, "soap") /\ Assign(r, "soapAction", {<<"x">>, InQuotes(<<"x">>), <<>>})
BodyXml(r)     == Kind(r, "soap") /\ Assign(r, "bodyXml", {<<"<x/>">>})
HeaderXml(r)   == Kind(r, "soap") /\ Assign(r, "headerXml", {<<"<h/>">>})
RawEnvelope(r) == Kind(r, "soap") /\ Assign(r, "rawEnvelope", {<<"<e/>">>, <<>>})

Setter(r) ==
  \/ PathParam(r) \/ QueryParam(r)
  \/ BodyField(r) \/ BodyStruct(r)
  \/ Method(r) \/ IntId(r) \/ StringId(r) \/ NullId(r) \/ Notification(r)
  \/ AddParam(r) \/ RawParams(r)
  \/ Document(r) \/ OperationName(r) \/ Mutation(r) \/ AsGet(r) \/ Variable(r) \/ RawVariables(r)
  \/ RequestHeader(r)
  \/ Version(r) \/ SoapAction(r) \/ BodyXml(r) \/ HeaderXml(r) \/ RawEnvelope(r)

-----------------------------------------------------------------------------
(* Execution *)

ContentType == <<Header(<<"Content-Type">>, <<"json">>)>>

(* What is built, and what of it is sent: GET has no body. *)
PayloadOf(r) ==
  CASE r.kind = "rest"              -> RestBody(r)
    [] r.kind = "rpc"               -> RpcBody(r)
    [] r.kind = "graphql" /\ r.get  -> <<>>
    [] r.kind = "graphql" /\ ~r.get -> GraphQLBody(r)
    [] r.kind = "soap"              -> Envelope(r)

BodyOf(r) == IF r.kind = "rest" /\ r.get THEN <<>> ELSE PayloadOf(r)

(* What a request adds behind the headers of the client. *)
OwnHeaders(r) ==
  CASE r.kind = "rest"    -> IF PayloadOf(r) = <<>> THEN <<>> ELSE ContentType
    [] r.kind = "rpc"     -> r.customHeaders \o ContentType
    [] r.kind = "graphql" -> r.customHeaders \o <<Header(<<"Accept">>, <<"json">>)>>
                               \o (IF r.get THEN <<>> ELSE ContentType)
    [] r.kind = "soap"    -> SoapHeaders(r)

UrlOf(r) ==
  IF r.kind = "graphql" /\ r.get THEN GetUrl(base, port, r) ELSE Url(base, port, r)

Message(r) ==
  [url |-> UrlOf(r), body |-> BodyOf(r), headers |-> headers \o OwnHeaders(r),
   base |-> base, port |-> port, set |-> set,
   kind |-> r.kind, get |-> r.kind \in {"rest", "graphql"} /\ r.get,
   asked |-> r.asked, born |-> r.born,
   id |-> IF r.kind = "rpc" THEN RequestId(r) ELSE <<>>]

(* execute(), by hand, which may happen again, or in the destructor. *)
Execute(r) ==
  /\ steps < MaxSteps /\ steps' = steps + 1
  /\ Usable(r) /\ (Kind(r, "rest") => ~reqs[r].executed)
  /\ wire' = Append(wire, Message(reqs[r]))
  /\ reqs' = [reqs EXCEPT ![r].executed = TRUE]
  /\ UNCHANGED <<client, nextId, born>>

Next ==
  \/ SetBaseUrl \/ SetPort \/ SetHeader \/ AddCookie
  \/ NewRest \/ NewJsonRpc \/ NewGraphQL \/ NewSoap
  \/ \E r \in DOMAIN reqs : Move(r) \/ Setter(r) \/ Execute(r)

Spec == Init /\ [][Next]_vars

-----------------------------------------------------------------------------
(* The last of the calls of one of these operations. *)
Latest(asked, ops) ==
  LET among == {i \in DOMAIN asked : asked[i].op \in ops}
  IN  IF among = {} THEN Asked("none", <<>>, <<>>, FALSE)
      ELSE asked[CHOOSE i \in among : \A j \in among : j <= i]

IsNotification(asked) ==
  LET call == Latest(asked, {"id", "notification"}) IN call.op = "notification" /\ call.quote

(* Nobody has given the request an id, so that it has one of the counter.  *)
IsAutomatic(asked) == ~IsNotification(asked) /\ \A i \in DOMAIN asked : asked[i].op # "id"

(* What getRequestId() should say after these calls. *)
IdText(m) ==
  CASE IsNotification(m.asked) -> <<>>
    [] IsAutomatic(m.asked)    -> TextOfId(m.born % IdCount)
    [] OTHER                   -> Latest(m.asked, {"id"}).value

(* Each JSON-RPC request announces the id that the calls on it, across     *)
(* moves, have asked for last, and automatic ids of two requests differ    *)
(* until the counter has come round, be the requests sent in the order of  *)
(* their construction or not (JsonRpcRequest.cpp 207, 295-358).            *)
IdsApart ==
  \A i, j \in DOMAIN wire :
    LET a == wire[i]
        b == wire[j]
    IN  /\ a.kind = "rpc" => a.id = IdText(a)
        /\ /\ a.kind = "rpc" /\ b.kind = "rpc"
           /\ IsAutomatic(a.asked) /\ IsAutomatic(b.asked)
           /\ a.born < b.born /\ b.born - a.born < IdCount
           => a.id # b.id

-----------------------------------------------------------------------------
(* The name of the header that a call of a header setter, or of cookie(),  *)
(* gives a value, as far as it is kept, and whether all of it is.          *)
NameOf(c) == IF c.op = "cookie" THEN Cookie ELSE Cut(c.key, NameSize)
Fits(c)   == c.op = "cookie" \/ Len(c.key) < NameSize

IsNaming(c)      == c.op \in {"header", "cookie"}
Names(c, name)   == IsNaming(c) /\ SameName(NameOf(c), name)
Naming(calls, name) == {i \in DOMAIN calls : Names(calls[i], name)}

(* The code does not find a name again that it has cut, and so cannot tell *)
(* which call was the last if others give the same name uncut.             *)
Clear(calls, name) ==
  \/ \A i \in Naming(calls, name) : Fits(calls[i])
  \/ \A i \in Naming(calls, name) : ~Fits(calls[i])

(* What one call more makes of the value of a header. *)
After(value, c, name) ==
  IF ~Names(c, name) THEN value
  ELSE IF c.op = "header" THEN c.value
  ELSE (IF value = <<>> THEN <<>> ELSE value \o <<";", " ">>) \o c.key \o <<"=">> \o c.value

(* The value of a header after these calls: the one set last, and behind it*)
(* the cookies added since.                                                *)
Valued(calls, name) ==
  LET after[k \in 0 .. Len(calls)] == IF k = 0 THEN <<>> ELSE After(after[k - 1], calls[k], name)
  IN  after[Len(calls)]

Lines(list, name) == {i \in DOMAIN list : SameName(list[i].name, name)}

IsLast(i, S) == i \in S /\ \A j \in S : j <= i

(* Lines that requests add by themselves, behind all others. *)
LibraryNames == {<<"Content-Type">>, <<"Accept">>, <<"SOAPAction">>}

AsSet(m) ==
  LET calls(name) == IF Naming(m.asked, name) # {} THEN m.asked ELSE m.set
      names == {NameOf(m.set[i]) : i \in DOMAIN m.set}
                 \cup {NameOf(m.asked[i]) : i \in {j \in DOMAIN m.asked : IsNaming(m.asked[j])}}
  IN  \A name \in names :
        (\A own \in LibraryNames : ~SameName(own, name)) =>
          /\ Lines(m.headers, name) # {}
          /\ Clear(calls(name), name) => \A i \in DOMAIN m.headers :
               IsLast(i, Lines(m.headers, name)) =>
                 m.headers[i].value = Cut(Valued(calls(name), name), ValueSize)
          /\ Naming(m.asked, name) = {} /\ (\A i \in Naming(m.set, name) : Fits(m.set[i]))
               => \E i \in DOMAIN m.headers : Lines(m.headers, name) = {i}

(* Every header that was set on the client or on the request goes out with *)
(* the request: the last line of its name has the value set last, whatever *)
(* the case of the name, the request's own value before that of the client,*)
(* and all cookies in one line, each as far as it fits; and there is one   *)
(* line of each name of the client that fits.  Not so for the names of     *)
(* lines that the library adds, nor for a name together with a longer one  *)
(* that is cut to it (ESP32HTTPClient.cpp 115-168, GraphQLRequest.cpp      *)
(* 496-512, and the loops over _headers in execute()).                     *)
HeadersAsSet == \A k \in DOMAIN wire : AsSet(wire[k])

=============================================================================
