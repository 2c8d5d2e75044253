---------------------------- MODULE RequestText ----------------------------
(***************************************************************************)
(* The texts that the four kinds of requests are written as: URL, JSON     *)
(* bodies, query string and SOAP envelope.  A text is a sequence of        *)
(* characters; a word whose letters do not matter is one character.        *)
(*                                                                         *)
(* Parameters are records [key, value, quote]: quote tells whether a value *)
(* is written as a JSON string.                                            *)
(***************************************************************************)
EXTENDS Integers, Sequences, SequencesExt

InQuotes(t) == <<"\"">> \o t \o <<"\"">>

(* The parts with a separator between them. *)
Joined(parts, separator) ==
  FlattenSeq([i \in DOMAIN parts |->
                IF i = 1 THEN parts[i] ELSE separator \o parts[i]])

(* String.indexOf(part, from): 0 if there is none. *)
IndexOf(t, part, from) ==
  LET found == {i \in from .. Len(t) : IsPrefix(part, SubSeq(t, i, Len(t)))}
  IN  IF found = {} THEN 0 ELSE CHOOSE i \in found : \A j \in found : i <= j

(* String.replace(part, with): every occurrence, from left to right. *)
Replaced(t, part, with) ==
  LET from[p \in 1 .. Len(t) + 1] ==
        IF p > Len(t) THEN <<>>
        ELSE IF IsPrefix(part, SubSeq(t, p, Len(t))) THEN with \o from[p + Len(part)]
        ELSE <<t[p]>> \o from[p + 1]
  IN  from[1]

-----------------------------------------------------------------------------
(* URL *)

(* Mutant: the first slash is looked for from the scheme on. *)
PortedAtScheme(base, port) ==
  LET slash == IndexOf(base, <<"/">>, 1)
      host  == IF slash = 0 THEN Len(base) ELSE slash - 1
  IN  IF port = <<>> THEN base
      ELSE SubSeq(base, 1, host) \o <<":">> \o port \o SubSeq(base, host + 1, Len(base))

(* The port, if one is set, goes behind the host; a base URL without a     *)
(* scheme gets none.                                                       *)
Ported(base, port) ==
  LET scheme == IndexOf(base, <<":", "/", "/">>, 1)
      slash  == IndexOf(base, <<"/">>, scheme + 3)
      host   == IF slash = 0 THEN Len(base) ELSE slash - 1
  IN  IF port = <<>> \/ scheme = 0 THEN base
      ELSE SubSeq(base, 1, host) \o <<":">> \o port \o SubSeq(base, host + 1, Len(base))

Placeholder(key) == IF Head(key) = "{" THEN key ELSE <<"{">> \o key \o <<"}">>

(* Placeholders are replaced one after another, in what the ones before    *)
(* have left.                                                              *)
ResolvedPath(path, params) ==
  FoldLeft(LAMBDA p, kv : Replaced(p, Placeholder(kv.key), kv.value), path, params)

(* Query parameters are sent as they are. *)
QueryString(params) ==
  IF params = <<>> THEN <<>>
  ELSE <<"?">> \o Joined([i \in DOMAIN params |->
                            params[i].key \o <<"=">> \o params[i].value], <<"&">>)

Url(base, port, r) ==
  Ported(base, port) \o ResolvedPath(r.path, r.pathParams) \o QueryString(r.queryParams)

-----------------------------------------------------------------------------
(* JSON *)

(* Mutant: only quotes are escaped. *)
EscapedQuotes(t) ==
  FlattenSeq([i \in DOMAIN t |-> IF t[i] = "\"" THEN <<"\\", "\"">> ELSE <<t[i]>>])

(* The newline stands for the other control characters too. *)
escapeJsonString(t) ==
  FlattenSeq([i \in DOMAIN t |->
    CASE t[i] \in {"\"", "\\"} -> <<"\\", t[i]>>
      [] t[i] = "\n"           -> <<"\\", "n">>
      [] OTHER                 -> <<t[i]>>])

Member(key, value)   == InQuotes(key) \o <<":">> \o value
JsonObject(members)  == <<"{">> \o Joined(members, <<",">>) \o <<"}">>
JsonArray(elements)  == <<"[">> \o Joined(elements, <<",">>) \o <<"]">>
EscapedValue(kv)     == IF kv.quote THEN InQuotes(escapeJsonString(kv.value)) ELSE kv.value

(* RestJsonSerializer and the body of a REST request write strings as they *)
(* are.                                                                    *)
Serialized(params) ==
  JsonObject([i \in DOMAIN params |->
    Member(params[i].key, IF params[i].quote THEN InQuotes(params[i].value)
                          ELSE params[i].value)])

(* What a struct or raw body says goes before the single fields. *)
RestBody(r) ==
  CASE r.rawBody # <<>>    -> r.rawBody
    [] r.bodyParams # <<>> -> Serialized(r.bodyParams)
    [] OTHER               -> <<>>

-----------------------------------------------------------------------------
(* JSON-RPC *)

RpcParams(r) ==
  CASE r.rawParams # <<>> -> <<Member(<<"params">>, r.rawParams)>>
    [] r.rawParams = <<>> /\ r.params = <<>> -> <<>>
    [] r.rawParams = <<>> /\ r.params # <<>> /\ r.paramMode = "named" ->
         <<Member(<<"params">>,
                  JsonObject([i \in DOMAIN r.params |->
                    Member(escapeJsonString(r.params[i].key), EscapedValue(r.params[i]))]))>>
    [] OTHER ->
         <<Member(<<"params">>,
                  JsonArray([i \in DOMAIN r.params |-> EscapedValue(r.params[i])]))>>

(* getRequestId(): the id of the request, as text. *)
RequestId(r) ==
  CASE r.isNotification                           -> <<>>
    [] ~r.isNotification /\ r.idType = "string" -> r.stringId
    [] ~r.isNotification /\ r.idType = "null"   -> <<"null">>
    [] OTHER                                     -> r.intId

RpcId(r) ==
  IF r.isNotification THEN <<>>
  ELSE <<Member(<<"id">>, IF r.idType = "string" THEN InQuotes(escapeJsonString(r.stringId))
                          ELSE RequestId(r))>>

RpcBody(r) ==
  JsonObject(<<Member(<<"jsonrpc">>, InQuotes(<<"2.0">>)),
               Member(<<"method">>, InQuotes(escapeJsonString(r.method)))>>
             \o RpcParams(r) \o RpcId(r))

-----------------------------------------------------------------------------
(* GraphQL *)

(* The names of variables are written as they are, their values escaped.   *)
Variables(r) ==
  IF r.rawVariables # <<>> THEN r.rawVariables
  ELSE JsonObject([i \in DOMAIN r.variables |->
         Member(r.variables[i].key, EscapedValue(r.variables[i]))])

HasVariables(r) == r.rawVariables # <<>> \/ r.variables # <<>>

GraphQLBody(r) ==
  JsonObject(<<Member(<<"query">>, InQuotes(escapeJsonString(r.document)))>>
    \o (IF r.operationName = <<>> THEN <<>>
        ELSE <<Member(<<"operationName">>, InQuotes(escapeJsonString(r.operationName)))>>)
    \o (IF HasVariables(r) THEN <<Member(<<"variables">>, Variables(r))>> ELSE <<>>))

(* Characters that urlEncode() leaves alone are all but these; the others  *)
(* become a percent sign and their code, here the character itself.        *)
Reserved == {"\"", "\\", "\n", "{", "}", "[", "]", ":", ",", "&", "=", "%", "?", "/"}
urlEncode(t) ==
  FlattenSeq([i \in DOMAIN t |-> IF t[i] \in Reserved THEN <<"%", t[i]>> ELSE <<t[i]>>])

GetUrl(base, port, r) ==
  LET part(name, t) == name \o <<"=">> \o urlEncode(t)
      added == (IF r.document = <<>> THEN <<>> ELSE <<part(<<"query">>, r.document)>>)
            \o (IF r.operationName = <<>> THEN <<>>
                ELSE <<part(<<"operationName">>, r.operationName)>>)
            \o (IF HasVariables(r) THEN <<part(<<"variables">>, Variables(r))>> ELSE <<>>)
      mark  == IF r.queryParams = <<>> THEN <<"?">> ELSE <<"&">>
  IN  Url(base, port, r)
        \o (IF added = <<>> THEN <<>> ELSE mark \o Joined(added, <<"&">>))

-----------------------------------------------------------------------------
(* SOAP *)

Element(prefix, name, inside) ==
  <<"<", prefix, name, ">">> \o inside \o <<"</", prefix, name, ">">>

Envelope(r) ==
  IF r.rawEnvelope # <<>> THEN r.rawEnvelope
  ELSE Element(r.version, "Envelope",
         (IF r.headerXml = <<>> THEN <<>> ELSE Element(r.version, "Header", r.headerXml))
         \o Element(r.version, "Body", r.bodyXml))

IsQuoted(t) == t # <<>> /\ Head(t) = "\"" /\ Last(t) = "\""

(* The headers that name version and action: 1.2 has the action in its     *)
(* content type, 1.1 in a header of its own, always in quotes, which the   *)
(* caller may have written himself.                                        *)
SoapHeaders(r) ==
  IF r.version = "soap12"
  THEN <<[name  |-> <<"Content-Type">>,
          value |-> <<"application/soap+xml">> \o
                    (CASE r.soapAction = <<>>    -> <<>>
                       [] IsQuoted(r.soapAction) -> <<"; action=">> \o r.soapAction
                       [] OTHER                  -> <<"; action=">> \o InQuotes(r.soapAction))]>>
  ELSE <<[name |-> <<"Content-Type">>, value |-> <<"text/xml">>],
         [name |-> <<"SOAPAction">>,
          value |-> IF IsQuoted(r.soapAction) THEN r.soapAction ELSE InQuotes(r.soapAction)]>>

=============================================================================
