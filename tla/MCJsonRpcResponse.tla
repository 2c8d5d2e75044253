------------------------- MODULE MCJsonRpcResponse -------------------------
(* Small instances of JsonRpcResponse for TLC: responses with a result or  *)
(* an error, their members in several orders, whole or cut; and what       *)
(* JsonRpcRequest promises of them.                                        *)
EXTENDS JsonRpcResponse, BoundValues

LOCAL INSTANCE SequencesExt

A == <<"a">>
B == <<"b">>
Zeroth == <<"0">>
First  == <<"1">>

One   == Num(<<"1">>)
Plain == Str(<<"a", "b">>)
Wordy == Str(<<"a", "b", "c", "d", "e">>)

jsonrpc == <<"jsonrpc">>
id      == <<"id">>
result  == <<"result">>
error   == <<"error">>
code    == <<"code">>
message == <<"message">>
data    == <<"data">>

Two == Str(<<"2", ".", "0">>)

Results ==
  <<One, Plain, Wordy, Tricky, True, Null, Obj(<<>>, <<>>), Obj(<<A, B>>, <<Tricky, One>>),
    Obj(<<error, A>>, <<Null, One>>), Arr(<<One, Obj(<<A>>, <<Plain>>)>>)>>

Negative == Num(<<"-", "1", "2">>)
Errors ==
  <<Obj(<<code, message>>, <<Negative, Plain>>),
    Obj(<<message, data, code>>, <<Tricky, Obj(<<A>>, <<Tricky>>), One>>),
    Obj(<<code, data>>, <<One, Tricky>>),
    Obj(<<data>>, <<One>>),
    Obj(<<A, code, data, message>>, <<Arr(<<Tricky>>), Negative, True, Plain>>)>>

Each(Build(_), docs) == [i \in DOMAIN docs |-> Build(docs[i])]

(* The members in the order of the JSON-RPC specification, and others. *)
Usual(name, v)  == Obj(<<jsonrpc, name, id>>, <<Two, v, One>>)
Ending(name, v) == Obj(<<id, jsonrpc, name>>, <<Plain, Two, v>>)
Before(name, v) == Obj(<<name, A, id, jsonrpc>>, <<v, Tricky, Null, Two>>)
Among(name, v)  == Obj(<<A, name, id>>, <<Obj(<<error, B>>, <<One, Tricky>>), v, Negative>>)

UsualResult(v)  == Usual(result, v)
LastResult(v)   == Ending(result, v)
BeforeResult(v) == Before(result, v)
AmongResult(v)  == Among(result, v)
UsualError(v)   == Usual(error, v)
LastError(v)    == Ending(error, v)
BeforeError(v)  == Before(error, v)
AmongError(v)   == Among(error, v)

Docs ==
  <<Among(result, Obj(<<A, B>>, <<Tricky, One>>)), Ending(error, Errors[2])>>
    \o Each(UsualResult, Results) \o Each(LastResult, Results)
    \o Each(BeforeResult, Results) \o Each(AmongResult, Results)
    \o Each(UsualError, Errors) \o Each(LastError, Errors)
    \o Each(BeforeError, Errors) \o Each(AmongError, Errors) \o <<Arr(<<One>>)>>

(* Every document whole, and the first two cut anywhere. *)
Rendered == [d \in DOMAIN Docs |-> Render(Docs[d])]
Parts ==
  [d \in DOMAIN Docs |-> <<d, Len(Rendered[d])>>]
    \o [n \in 1 .. Len(Rendered[1]) |-> <<1, n - 1>>]
    \o [n \in 1 .. Len(Rendered[2]) |-> <<2, n - 1>>]
ResponseTexts == [b \in DOMAIN Parts |-> SubSeq(Rendered[Parts[b][1]], 1, Parts[b][2])]

To(path, type) == [key |-> <<result>> \o path, type |-> type, size |-> 3]

Bound ==
  {To(<<>>, type) : type \in {"int", "String", "chars"}}
    \cup {To(<<A>>, "String"), To(<<B>>, "int"), To(<<Zeroth>>, "long"), To(<<First, A>>, "chars")}

Lists == {<<>>} \cup {<<x>> : x \in Bound} \cup {<<x, y>> : x \in Bound, y \in Bound}

Paths  == UNION {Prefixes(b.key) : b \in Bound}
Places == [d \in DOMAIN Docs |-> [p \in Paths |-> Place(Docs[d], p)]]

-----------------------------------------------------------------------------
Doc         == Docs[Parts[body][1]]
IsWhole     == Parts[body][2] = Len(Rendered[Parts[body][1]])
ItsPlace(i) == Places[Parts[body][1]][bindings[i].key]

Member(name) == Designated(Doc, <<name>>)
InError(name) == Designated(Doc, <<error, name>>)

(* The text of a value as the library keeps it. *)
Kept(v) ==
  CASE v = Missing                 -> <<>>
    [] v.kind = "str"              -> Fitting(v.chars, TextLimit)
    [] v.kind \in {"num", "word"}  -> v.chars
    [] v.kind \in {"obj", "arr"}   -> Render(v)

(* A copy of a string, made for getRawResult() or for several variables of *)
(* the whole result, does not escape again what the string has escaped.    *)
Copied   == wantsRaw \/ \E i, j \in RootBindings : i # j
Survives == Copied => Member(result) # Tricky

(* getRawResult() gets the text of the result, of a string what is kept of *)
(* it between quotes.                                                      *)
Captured(v) == IF v.kind = "str" THEN <<Quote>> \o Kept(v) \o <<Quote>> ELSE Render(v)

(* The result, wherever it stands among the members, is bound by its path, *)
(* whether it is read from the stream or from the raw copy; and a result   *)
(* without kids by every variable of the whole of it. getRawResult()       *)
(* captures the text of every result, but that a string loses its escapes  *)
(* and what its buffer does not hold; a copy of a string with quotes or    *)
(* backslashes is not what bindings should read.                           *)
ResultAsDesignated ==
  where = "after" /\ IsWhole =>
    /\ Survives /\ Independent => \A i \in DOMAIN bindings : RightFrom(i, ItsPlace(i).value)
    /\ Survives /\ Member(result).kind \in {"str", "num", "word"} =>
         \A i \in RootBindings : RightFrom(i, Member(result))
    /\ wantsRaw /\ Member(result) # Missing => raw = Captured(Member(result))

(* When the stream ends early, only the value that the cut falls into may  *)
(* be wrong, also where it was copied first; and what the result does not  *)
(* have, or a response without one, leaves its variable unchanged. Where   *)
(* the stream EndsAt a value, a number becomes 0 and a String empty.       *)
OnlyTheCutValueIsWrong ==
  Survives => \A i \in DOMAIN bindings : RightOrCut(i, ItsPlace(i))

(* The error is reported as the server sent it, in whatever order its      *)
(* members and those of the response come, and at no time unless it sent   *)
(* one: a member of that name in the result or in an unknown member is     *)
(* none. The version and the id, a string, a number or null, are as sent.  *)
MembersAsSent ==
  /\ rpc.hasError => Member(error) # Missing \/ Doc.kind # "obj"
  /\ where = "after" /\ IsWhole /\ Doc.kind = "obj" =>
       /\ rpc.hasError = (Member(error) # Missing)
       /\ rpc.code = Kept(InError(code))
       /\ rpc.message = Kept(InError(message))
       /\ rpc.data = Kept(InError(data))
       /\ rpc.id = Kept(Member(id)) /\ rpc.version = Kept(Member(jsonrpc))

(* The response is taken in to its end, cut or not. *)
ResponseEnds == <>(where = "after")

=============================================================================
