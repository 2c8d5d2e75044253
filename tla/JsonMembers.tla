---------------------------- MODULE JsonMembers ----------------------------
(***************************************************************************)
(* The members of an object and the values of known ones, as the loops of  *)
(* JsonRpcRequest.cpp and GraphQLRequest.cpp read them that take in what is*)
(* around the data.  The library's names of members are single characters. *)
(* Numbers are integers as a server writes them, and stay the text they    *)
(* are.                                                                    *)
(***************************************************************************)
EXTENDS JsonBinder

(* The member that starts here; its key may hold escaped quotes. *)
Key        == Fitting(Unescaped(text, Here + 1), TextLimit)
AfterKey   == SkipBlank(text, EndOfString(text, Here + 1))
MemberPos  == SkipBlank(text, AfterKey + 1)
AtMember   == pos \in DOMAIN text /\ AtKey /\ At(text, AfterKey) = ":"

(* readStringToken(), which takes the character at p for a quote. *)
Token(p) == Fitting(Unescaped(text, Read(text, p)), TextLimit)

(* Mutant: an escaped quote ends a string. *)
TokenEndAtQuote(p) == Read(text, FirstIn(text, Read(text, p), {Quote}))

TokenEnd(p) == EndOfString(text, Read(text, p))

(* A bare value as the loops over characters read it. *)
BareEnd(p) == FirstIn(text, p, {",", "}"} \cup Blank)
Bare(p)    == SubSeq(text, p, BareEnd(p) - 1)

IntegerEnd(p) == FirstNotIn(text, p, Digits \cup {"-", "."})
Integer(p)    == SubSeq(text, p, IntegerEnd(p) - 1)

GoOn(p) == pos' = AfterComma(text, p)

(* What is left of a text from p on, twice as long. *)
Left(s, p) == 2 * (Len(s) + 1 - p)

KeepBinder == UNCHANGED <<body, text, bindings, target, stack, phase>>

=============================================================================
