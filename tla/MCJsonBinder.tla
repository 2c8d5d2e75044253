---------------------------- MODULE MCJsonBinder ----------------------------
(* Small instances of JsonBinder for TLC: documents, bodies that are whole *)
(* or cut, lists of bindings; and what the binder promises, told by the    *)
(* document's tree and not by its text.                                    *)
EXTENDS BoundValues, FiniteSets

LOCAL INSTANCE SequencesExt

A == <<"a">>
B == <<"b">>
Zeroth == <<"0">>
First  == <<"1">>

(* Numbers, words, and strings that hold quotes, brackets and backslashes. *)
One    == Num(<<"1">>)
Twelve == Num(<<"1", "2">>)
Plain  == Str(<<"a", "b">>)
Digit  == Str(<<"2">>)

Leaves == <<One, Twelve, Plain, Tricky, Digit, True, False, Null, Str(<<>>)>>

Each(Build(_), docs) == [i \in DOMAIN docs |-> Build(docs[i])]
AsOnlyMember(x)  == Obj(<<A>>, <<x>>)
AsOnlyElement(x) == Arr(<<x>>)
BeforeString(x)  == Obj(<<A, B>>, <<x, Tricky>>)
AfterArray(x)    == Obj(<<B, A>>, <<Arr(<<Tricky>>), x>>)
AfterObject(x)   == Arr(<<Obj(<<B>>, <<Tricky>>), x>>)

Small ==
  <<Obj(<<>>, <<>>), Arr(<<>>), Obj(<<B, A>>, <<Tricky, True>>), Arr(<<Null, Plain>>)>>
    \o Each(AsOnlyMember, Leaves) \o Each(AsOnlyElement, Leaves)

Nested == Each(BeforeString, Small) \o Each(AfterArray, Small) \o Each(AfterObject, Small)

Deep == Obj(<<A, B>>, <<Arr(<<Obj(<<B>>, <<Tricky>>), Obj(<<A, B>>, <<Twelve, True>>)>>), Digit>>)
Wide == Arr(<<Obj(<<A, B>>, <<Tricky, Null>>), Arr(<<Plain, Twelve>>)>>)

(* Bodies: each document whole, and two of them cut anywhere. *)
Long == Obj(<<A>>, <<Str(<<"a", "b", "c", "d", "e">>)>>)
Docs     == <<Deep, Wide, Long>> \o Small \o Nested
Rendered == [d \in DOMAIN Docs |-> Render(Docs[d])]
Parts    == [d \in DOMAIN Docs |-> <<d, Len(Rendered[d])>>]
              \o [n \in 1 .. Len(Rendered[1]) |-> <<1, n - 1>>]
              \o [n \in 1 .. Len(Rendered[2]) |-> <<2, n - 1>>]
DocumentTexts == [b \in DOMAIN Parts |-> SubSeq(Rendered[Parts[b][1]], 1, Parts[b][2])]

IsWhole  == Len(text) = Len(Rendered[Parts[body][1]])

To(key, type) == [key |-> key, type |-> type, size |-> 3]

Bound ==
  {To(<<A>>, "int"), To(<<A>>, "String"), To(<<B>>, "chars"), To(<<B>>, "bool"),
   To(<<A, A>>, "long"), To(<<A, B>>, "String"), To(<<A, First, A>>, "int"),
   To(<<A, First, B>>, "bool"), To(<<A, Zeroth>>, "chars"), To(<<Zeroth>>, "String"),
   To(<<First, A>>, "int"), To(<<First, First>>, "int"), To(<<>>, "String")}

Pairs == {<<>>} \cup {<<x>> : x \in Bound} \cup {<<x, y>> : x \in Bound, y \in Bound}

(* Where each document has what a path designates. *)
Paths  == UNION {Prefixes(b.key) : b \in Bound}
Places == [d \in DOMAIN Docs |-> [p \in Paths |-> Place(Docs[d], p)]]
PlaceOf(p) == Places[Parts[body][1]][p]

-----------------------------------------------------------------------------
ItsPlace(i) == PlaceOf(bindings[i].key)
Right(i)    == RightFrom(i, ItsPlace(i).value)

(* Every variable gets the value that its path designates in the document, *)
(* whatever surrounds it and whichever other paths are bound, if none of   *)
(* them leads to it (restrequest.md, "Path Notation Reference").           *)
BoundAsDesignated ==
  phase = "done" /\ IsWhole /\ Independent => \A i \in DOMAIN bindings : Right(i)

(* When the stream ends early, only the value that the cut falls into may  *)
(* be wrong: what was received whole is right or not yet stored, and a path*)
(* of which no value was received leaves its variable alone, as does at any*)
(* time a path that is not in the document (restrequest.md 208). The one   *)
(* exception is EndsAt: of a value of which only the key, the colon and    *)
(* blanks came, a number becomes 0 and a String empty (RestRequest.cpp     *)
(* 542-544 and 608-629).                                                   *)
OnlyTheCutValueIsWrong ==
  \A i \in DOMAIN bindings : RightOrCut(i, ItsPlace(i))

(* Each call works inside the object or array that its path designates, so *)
(* that what is skipped or captured never takes it out of step: strings    *)
(* with quotes, brackets and backslashes included.                         *)
WithinItsValue ==
  \A k \in DOMAIN stack :
    LET place == PlaceOf(stack[k].path) IN
    place.value.kind = stack[k].kind /\ pos > place.from /\ pos < place.to

(* The parser comes to an end on every document, cut or not. *)
ParserStops == <>(phase = "done")

=============================================================================
