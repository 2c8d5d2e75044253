------------------------- MODULE MCOutgoingRequest -------------------------
(***************************************************************************)
(* A small instance of OutgoingRequest, and what the server makes of the   *)
(* messages, compared with what user code has asked for: the server reads  *)
(* JSON strictly, splits the query and undoes its percent-encoding.        *)
(***************************************************************************)
EXTENDS OutgoingRequest, JsonDocument

Host         == <<"http", ":", "/", "/", "host">>
Prefix       == <<"/", "v1">>
FirstBaseDef == Host \o Prefix
BasesDef     == {Host, <<"host">>}
PortsDef     == {<<"80">>}
KeysDef      == {<<"a">>, <<"b">>}
PathDef      == <<"/", "{", "a", "}", "/", "{", "b", "}">>
TextsDef     == {<<"x", "\"">>, <<"\\">>, <<"x", "\n">>}
PathValuesDef  == {<<"x">>, <<"{", "b", "}">>}
QueryValuesDef == {<<"x">>, <<"&">>}
BareDef      == {<<"7">>}
RawJsonDef   == {<<"[", "7", "]">>}
StructsDef   == {<<Param(<<"a">>, <<"x">>, TRUE), Param(<<"b">>, <<"7">>, FALSE)>>,
                 <<Param(<<"a">>, <<"\"">>, TRUE)>>}
HeaderNamesDef  == {<<"x">>, <<"X">>, <<"y", "y", "y">>, <<"c", "k">>}
HeaderValuesDef == {<<"1">>, <<"2">>}
CookieNamesDef  == {<<"a">>, <<"b">>}
IntTextDef(n) == <<ToString(n)>>
LowerDef(c)  == CASE c = "X" -> "x" [] c = "C" -> "c" [] OTHER -> c

-----------------------------------------------------------------------------
(* How a server reads JSON: next is the position behind what was read, or  *)
(* 0 if it is no JSON.                                                     *)

At(t, p) == IF p \in DOMAIN t THEN t[p] ELSE "end"
Punctuation == {"{", "}", "[", "]", ",", ":", "\"", "\\", "\n", "end"}

RECURSIVE CharsAt(_, _), ValueAt(_, _), ItemsAt(_, _, _)

(* A string from behind its first quote. *)
CharsAt(t, p) ==
  LET also(c, q) == LET rest == CharsAt(t, q) IN [rest EXCEPT !.chars = <<c>> \o @]
  IN  CASE At(t, p) = "\"" -> [chars |-> <<>>, next |-> p + 1]
        [] At(t, p) = "\\" /\ At(t, p + 1) \in {"\"", "\\"} -> also(t[p + 1], p + 2)
        [] At(t, p) = "\\" /\ At(t, p + 1) = "n" -> also("\n", p + 2)
        [] At(t, p) \notin {"\"", "\\", "\n", "end"} -> also(t[p], p + 1)
        [] OTHER -> [chars |-> <<>>, next |-> 0]

ValueAt(t, p) ==
  LET chars == CharsAt(t, p + 1)
      stop  == CHOOSE q \in p .. Len(t) + 1 :
                 At(t, q) \in Punctuation /\ \A j \in p .. q - 1 : t[j] \notin Punctuation
  IN  CASE At(t, p) = "\""             -> [node |-> Str(chars.chars), next |-> chars.next]
        [] At(t, p) = "{"              -> ItemsAt(t, p + 1, Obj(<<>>, <<>>))
        [] At(t, p) = "["              -> ItemsAt(t, p + 1, Arr(<<>>))
        [] At(t, p) \in Punctuation \ {"\"", "{", "["} -> [node |-> Missing, next |-> 0]
        [] OTHER -> [node |-> Num(SubSeq(t, p, stop - 1)), next |-> stop]

(* The members or elements of a container from position p on, behind those *)
(* that it already has.                                                    *)
ItemsAt(t, p, v) ==
  LET object == v.kind = "obj"
      close  == IF object THEN "}" ELSE "]"
      key    == IF object /\ At(t, p) = "\"" THEN CharsAt(t, p + 1) ELSE [chars |-> <<>>, next |-> 0]
      from   == IF object THEN key.next + 1 ELSE p
      item   == ValueAt(t, from)
      more   == [v EXCEPT !.kids = Append(@, item.node),
                          !.keys = IF object THEN Append(@, key.chars) ELSE @]
  IN  CASE At(t, p) = close /\ v.kids = <<>> -> [node |-> v, next |-> p + 1]
        [] object /\ (key.next = 0 \/ At(t, key.next) # ":") -> [node |-> Missing, next |-> 0]
        [] item.next # 0 /\ At(t, item.next) = close -> [node |-> more, next |-> item.next + 1]
        [] item.next # 0 /\ At(t, item.next) = ","   -> ItemsAt(t, item.next + 1, more)
        [] OTHER -> [node |-> Missing, next |-> 0]

Json(t) ==
  LET read == ValueAt(t, 1) IN IF read.next = Len(t) + 1 THEN read.node ELSE Missing

-----------------------------------------------------------------------------
(* What user code has asked for *)

Calls(asked, ops) == SelectSeq(asked, LAMBDA c : c.op \in ops)

Wanted(v)      == IF v.quote THEN Str(v.value) ELSE Json(v.value)
Keyed(params)  == Obj([i \in DOMAIN params |-> params[i].key], [i \in DOMAIN params |-> Wanted(params[i])])
Listed(params) == Arr([i \in DOMAIN params |-> Wanted(params[i])])

(* Members that are there only if their value is. *)
Given(key, value) == IF value = Missing THEN <<>> ELSE <<[key |-> <<key>>, node |-> value]>>
Members(given)    == Obj([i \in DOMAIN given |-> given[i].key], [i \in DOMAIN given |-> given[i].node])

Plain(t) == \A i \in DOMAIN t : t[i] \notin {"\"", "\\", "\n"}

(* REST: the last struct, or else the fields. *)
RestAsked(asked) ==
  IF Calls(asked, {"struct"}) = <<>> THEN Calls(asked, {"body"}) ELSE Latest(asked, {"struct"}).value

(* JSON-RPC: raw parameters, or else a list, or else members if any has a  *)
(* name.                                                                   *)
ParamsAsked(asked) ==
  LET raw    == Latest(asked, {"rawParams"}).value
      params == Calls(asked, {"param"})
  IN  CASE raw # <<>> -> Json(raw)
        [] raw = <<>> /\ params = <<>> -> Missing
        [] raw = <<>> /\ params # <<>> /\ \A i \in DOMAIN params : params[i].key = <<>> -> Listed(params)
        [] OTHER -> Keyed(params)

(* Empty raw parameters after the last named one make the code forget that *)
(* the parameters have names.                                              *)
NamesLost(asked) ==
  \E i \in DOMAIN asked :
    /\ asked[i].op = "rawParams"
    /\ \E j \in 1 .. i : asked[j].op = "param" /\ asked[j].key # <<>>
    /\ \A j \in i .. Len(asked) : ~(asked[j].op = "param" /\ asked[j].key # <<>>)

IdAsked(m) ==
  CASE IsNotification(m.asked) -> Missing
    [] IsAutomatic(m.asked)    -> Num(TextOfId(m.born % IdCount))
    [] OTHER                   -> Wanted(Latest(m.asked, {"id"}))

RpcAsked(m) ==
  Members(Given("jsonrpc", Str(<<"2.0">>)) \o Given("method", Str(Latest(m.asked, {"method"}).value))
          \o Given("params", ParamsAsked(m.asked)) \o Given("id", IdAsked(m)))

(* GraphQL *)
VariablesAsked(asked) ==
  LET raw == Latest(asked, {"rawVariables"}).value
      variables == Calls(asked, {"variable"})
  IN  CASE raw # <<>> -> Json(raw)
        [] raw = <<>> /\ variables = <<>> -> Missing
        [] OTHER -> Keyed(variables)

DocumentAsked(asked)  == Latest(asked, {"document", "mutation"}).value
OperationAsked(asked) == Latest(asked, {"operationName"}).value
GraphQLAsked(asked) ==
  Members(Given("query", Str(DocumentAsked(asked)))
          \o Given("operationName", IF OperationAsked(asked) = <<>> THEN Missing ELSE Str(OperationAsked(asked)))
          \o Given("variables", VariablesAsked(asked)))
GetAsked(asked) == LET call == Latest(asked, {"get", "mutation"}) IN call.quote

(* Raw JSON is taken as it is: what is no JSON makes the message none. *)
RawIsJson(asked) ==
  \A i \in DOMAIN asked :
    asked[i].op \in {"rawParams", "rawVariables"} /\ asked[i].value # <<>> => Json(asked[i].value) # Missing

(* SOAP: what an element of the envelope holds, and the headers that name  *)
(* version and action.                                                     *)
Within(t, name) ==
  LET tags == {i \in DOMAIN t : t[i] = name}
      first == CHOOSE i \in tags : \A j \in tags : i <= j
      last  == CHOOSE i \in tags : \A j \in tags : j <= i
  IN  IF tags = {} THEN <<>> ELSE SubSeq(t, first + 2, last - 3)

Unquoted(t) == IF IsQuoted(t) THEN SubSeq(t, 2, Len(t) - 1) ELSE t
HeaderOf(m, name) ==
  LET lines == SelectSeq(m.headers, LAMBDA h : h.name = <<name>>)
  IN  IF lines = <<>> THEN <<>> ELSE Last(lines).value

SoapAsAsked(m) ==
  LET version == Latest(m.asked, {"version"}).value
      action  == Unquoted(Latest(m.asked, {"soapAction"}).value)
      raw     == Latest(m.asked, {"rawEnvelope"}).value
      type    == HeaderOf(m, "Content-Type")
  IN  /\ IF version = "soap12"
         THEN /\ Head(type) = "application/soap+xml" /\ HeaderOf(m, "SOAPAction") = <<>>
              /\ Unquoted(SubSeq(type, 3, Len(type))) = action
         ELSE /\ Head(type) = "text/xml" /\ Len(type) = 1
              /\ HeaderOf(m, "SOAPAction") = InQuotes(action)
      /\ IF raw # <<>> THEN m.body = raw
         ELSE /\ m.body[2] = version
              /\ Within(m.body, "Header") = Latest(m.asked, {"headerXml"}).value
              /\ Within(m.body, "Body") = Latest(m.asked, {"bodyXml"}).value

(* Only the message sent last is looked at: the ones before were when they *)
(* were sent.                                                              *)
LastSent(Holds(_)) == wire # <<>> => Holds(Last(wire))

(* What the server reads in the body is what the calls on the request, in  *)
(* whatever order and across moves, have asked for: every parameter with   *)
(* its name and value, the id, the version and action.  Not so for strings *)
(* with quotes or escapes in REST bodies and structs, which are not        *)
(* escaped, nor after empty rawParams().                                   *)
BodyAsAsked ==
  LastSent(LAMBDA m :
    CASE m.kind = "rest" ->
           LET asked == RestAsked(m.asked)
           IN  IF m.get \/ asked = <<>> THEN m.body = <<>>
               ELSE (\A i \in DOMAIN asked : asked[i].quote => Plain(asked[i].value))
                      => Json(m.body) = Keyed(asked)
      [] m.kind = "rpc" ->
           RawIsJson(m.asked) /\ ~NamesLost(m.asked) => Json(m.body) = RpcAsked(m)
      [] m.kind = "graphql" ->
           IF GetAsked(m.asked) THEN m.body = <<>>
           ELSE RawIsJson(m.asked) => Json(m.body) = GraphQLAsked(m.asked)
      [] m.kind = "soap" -> SoapAsAsked(m))

-----------------------------------------------------------------------------
(* URL *)

RECURSIVE Split(_, _), Decoded(_)
Split(t, c) ==
  LET cuts == {i \in DOMAIN t : t[i] = c}
      cut  == CHOOSE i \in cuts : \A j \in cuts : i <= j
  IN  IF cuts = {} THEN <<t>> ELSE <<SubSeq(t, 1, cut - 1)>> \o Split(SubSeq(t, cut + 1, Len(t)), c)

Decoded(t) ==
  CASE t = <<>> -> <<>>
    [] t # <<>> /\ Head(t) = "%" -> <<t[2]>> \o Decoded(SubSeq(t, 3, Len(t)))
    [] OTHER -> <<Head(t)>> \o Decoded(Tail(t))

(* The pairs of a query as the server splits it. *)
Pairs(query) ==
  LET parts == Split(query, "&")
      pair(t) == LET sides == Split(t, "=") IN <<sides[1], Decoded(Last(sides))>>
  IN  [i \in DOMAIN parts |-> pair(parts[i])]

(* What a placeholder of the path stands for: the value given first. *)
Resolved(asked, key) ==
  LET named == SelectSeq(asked, LAMBDA c : c.op = "path" /\ c.key = key)
  IN  IF named = <<>> THEN <<"{">> \o key \o <<"}">> ELSE Head(named).value

(* A value that holds a placeholder given later is taken for a part of the *)
(* path.                                                                   *)
ReplacedAgain(asked) ==
  \E i, j \in DOMAIN asked :
    i < j /\ asked[i].op = "path" /\ asked[j].op = "path" /\ asked[i].value = Placeholder(asked[j].key)

UserQuery(asked) == LET calls == Calls(asked, {"query"})
                    IN  [i \in DOMAIN calls |-> <<calls[i].key, calls[i].value>>]

(* The variables of a GET request are compared as JSON. *)
QueryAsAsked(m, pairs) ==
  LET user  == UserQuery(m.asked)
      whole == IF ~(m.kind = "graphql" /\ m.get) THEN user
               ELSE user \o (IF DocumentAsked(m.asked) = <<>> THEN <<>>
                             ELSE <<<<<<"query">>, DocumentAsked(m.asked)>>>>)
                         \o (IF OperationAsked(m.asked) = <<>> THEN <<>>
                             ELSE <<<<<<"operationName">>, OperationAsked(m.asked)>>>>)
      variables == VariablesAsked(m.asked)
  IN  IF m.kind = "graphql" /\ m.get /\ variables # Missing
      THEN /\ SubSeq(pairs, 1, Len(pairs) - 1) = whole
           /\ Last(pairs)[1] = <<"variables">> /\ Json(Last(pairs)[2]) = variables
      ELSE pairs = whole

(* The URL leads to the host, port and path that were asked for, with each *)
(* placeholder replaced by its own value, and its query says what was      *)
(* asked for, percent-encoded where it is a GraphQL query.  Not so for a   *)
(* port behind a base URL without a scheme, for values that hold           *)
(* placeholders given later, and for query parameters with an ampersand,   *)
(* which are not encoded.                                                  *)
UrlAsAsked ==
  LastSent(LAMBDA m :
    LET parts == Split(m.url, "?")
        query == IF Len(parts) = 1 THEN <<>> ELSE Pairs(parts[2])
        port_ == IF m.port = <<>> THEN <<>> ELSE <<":">> \o m.port
        host  == IF m.base = FirstBase THEN Host \o port_ \o Prefix ELSE m.base \o port_
        user  == UserQuery(m.asked)
    IN  /\ (m.port # <<>> => Head(m.base) = "http") /\ ~ReplacedAgain(m.asked)
             => parts[1] = host \o <<"/">> \o Resolved(m.asked, <<"a">>)
                                \o <<"/">> \o Resolved(m.asked, <<"b">>)
        /\ (\A i \in DOMAIN user : user[i][2] # <<"&">>) /\ RawIsJson(m.asked)
             => QueryAsAsked(m, query))

=============================================================================
