----------------------------- MODULE JsonBinder -----------------------------
(***************************************************************************)
(* The binding of a JSON body to the caller's variables while it streams   *)
(* by: RestRequest::parseJsonWithBindings, parseObjectWithBindings,        *)
(* parseArrayWithBindings and parsePrimitiveWithBinding.                   *)
(*                                                                         *)
(* A step is one pass through the loop of the innermost object or array; a *)
(* frame is one call of parseObjectWithBindings or parseArrayWithBindings. *)
(* Keys are shorter than 64 characters, paths than 128, and numbers than   *)
(* 64, which the code's buffers hold; buffers for text have their size.  A *)
(* key is not empty and holds no dot, which the code joins the keys of a   *)
(* path with.                                                              *)
(***************************************************************************)
EXTENDS JsonScan

CONSTANTS
  Texts,         (* a sequence of texts: bodies of responses, perhaps cut   *)
  BindingLists,  (* sequences of bindings [key, type, size]                 *)
  TextLimit      (* the buffer of a String: 256 characters in the code      *)

Types == {"int", "long", "bool", "chars", "String"}

ASSUME BindingAssumption ==
  \A bs \in BindingLists :
    /\ IsSequence(bs)
    /\ \A i \in DOMAIN bs :
         /\ {"key", "type", "size"} \subseteq DOMAIN bs[i]
         /\ IsSequence(bs[i].key) /\ bs[i].type \in Types /\ bs[i].size \in Nat \ {0}

ASSUME TextAssumption == \A b \in DOMAIN Texts : IsSequence(Texts[b])

ASSUME LimitAssumption == TextLimit \in Nat \ {0}

VARIABLES
  body,      (* history: which text the body is                             *)
  text,      (* the text the reader reads: the body, or a part of it        *)
  bindings,  (* _responseBindings                                           *)
  target,    (* what the bound variables hold                               *)
  pos,       (* position of the reader                                      *)
  stack,     (* calls in progress: kind, basePath and index of each         *)
  phase      (* "start", "parsing" or "done"                                *)

vars == <<body, text, bindings, target, pos, stack, phase>>

(* What null is to a variable. *)
Zero(type) == IF type = "bool" THEN Bool(FALSE) ELSE <<>>

(* "%d". *)
DigitNames == <<"0", "1", "2", "3", "4", "5", "6", "7", "8", "9">>
Decimal[n \in Nat] ==
  (IF n < 10 THEN <<>> ELSE Decimal[n \div 10]) \o <<DigitNames[(n % 10) + 1]>>

Init ==
  /\ body \in DOMAIN Texts /\ text = Texts[body]
  /\ bindings \in BindingLists
  /\ target = [i \in DOMAIN bindings |-> Untouched]
  /\ pos = 1 /\ stack = <<>> /\ phase = "start"

-----------------------------------------------------------------------------
(* Bindings. *)

(* Mutant: a key is compared up to the length of the path only. *)
MatchPrefix(path) ==
  LET found == {i \in DOMAIN bindings : SubSeq(bindings[i].key, 1, Len(path)) = path}
  IN  IF found = {} THEN 0 ELSE CHOOSE i \in found : \A j \in found : i <= j

(* The first binding whose key is the path; 0 if none. *)
Match(path) ==
  LET found == {i \in DOMAIN bindings : bindings[i].key = path}
  IN  IF found = {} THEN 0 ELSE CHOOSE i \in found : \A j \in found : i <= j

(* The first binding takes the whole object or array. *)
Captures(i) == i # 0 /\ bindings[i].type = "String"

Below(key, path) == Len(key) > Len(path) /\ SubSeq(key, 1, Len(path)) = path

(* Mutant: whatever is nested is parsed, as soon as anything is bound. *)
HasChildAny(path) == path # <<>> /\ bindings # <<>>

(* hasChildBinding: the search stops where it finds the path itself. *)
HasChild(path) ==
  \E j \in DOMAIN bindings :
    Below(bindings[j].key, path) /\ (Match(path) = 0 \/ j < Match(path))

(* parsePrimitiveWithBinding: where it stops reading, and what it stores   *)
(* in a variable bound by b.                                               *)
IsWord(c) == c \in {"n", "t", "f"}

PrimitiveEnd(s, p) ==
  IF IsWord(At(s, p)) THEN FirstNotIn(s, p, Letters)
  ELSE IF At(s, p) = Quote THEN EndOfString(s, p + 1)
  ELSE FirstNotIn(s, p, Numeric)

Stored(s, p, b, old) ==
  LET c    == At(s, p)
      read == SubSeq(s, p, PrimitiveEnd(s, p) - 1)
      str  == Unescaped(s, p + 1)
  IN  CASE c = "n" -> Zero(b.type)
        [] c = Quote /\ b.type = "chars"  -> Fitting(str, b.size)
        [] c = Quote /\ b.type = "String" -> Fitting(str, TextLimit)
        [] c = Quote /\ b.type = "int"    -> LeadingDigits(str)
        [] c \in {"t", "f"} /\ b.type = "bool" -> Bool(read = <<"t", "r", "u", "e">>)
        [] ~(c \in {"n", Quote, "t", "f"}) /\ b.type \in {"int", "long"} -> LeadingDigits(read)
        [] ~(c \in {"n", Quote}) /\ b.type = "String" -> read
        [] OTHER -> old

-----------------------------------------------------------------------------
(* The calls. *)

Frame(kind, path) == [kind |-> kind, path |-> path, index |-> 0]

KindOf(c) == IF c = "{" THEN "obj" ELSE "arr"

Store(i, v) == target' = [target EXCEPT ![i] = v]

(* parseJsonWithBindings *)
Start ==
  /\ phase = "start"
  /\ LET p    == SkipBlank(text, 1)
         root == Match(<<>>)
     IN  IF bindings = <<>>
         THEN phase' = "done" /\ UNCHANGED <<target, pos, stack>>
         ELSE IF At(text, p) \notin Opening
         THEN phase' = "done" /\ pos' = Read(text, p) /\ UNCHANGED <<target, stack>>
         ELSE IF Captures(root)
         THEN /\ Store(root, Raw(text, p)) /\ pos' = EndOfRaw(text, p)
              /\ phase' = "done" /\ UNCHANGED stack
         ELSE /\ stack' = <<Frame(KindOf(At(text, p)), <<>>)>> /\ pos' = p + 1
              /\ phase' = "parsing" /\ UNCHANGED target
  /\ UNCHANGED <<body, text, bindings>>

Active == phase = "parsing" /\ stack # <<>>
Top    == stack[Len(stack)]

(* Where this pass of the loop finds something, and for an object, where   *)
(* the key that starts there ends and where its colon should be.           *)
Here   == SkipBlank(text, pos)
KeyEnd == FirstIn(text, Here + 1, {Quote})
Colon  == SkipBlank(text, Read(text, KeyEnd))

AtKey == At(text, Here) = Quote

(* Mutant: an object does not notice that the stream has ended. *)
AtEndUnnoticed ==
  \/ Top.kind = "arr" /\ pos \notin DOMAIN text
  \/ At(text, Here) = IF Top.kind = "obj" THEN "}" ELSE "]"

(* This pass finds the end of the object or array, or of the stream ... *)
AtEnd ==
  \/ pos \notin DOMAIN text
  \/ At(text, Here) = IF Top.kind = "obj" THEN "}" ELSE "]"

(* ... or a value, and this is where the value starts and its path. *)
AtValue == ~AtEnd /\ (Top.kind = "arr" \/ (AtKey /\ At(text, Colon) = ":"))

ValuePos == IF Top.kind = "arr" THEN Here ELSE SkipBlank(text, Colon + 1)

ValuePath ==
  Append(Top.path, IF Top.kind = "arr" THEN Decimal[Top.index]
                   ELSE SubSeq(text, Here + 1, KeyEnd - 1))

(* The rest of a pass, after its value: a comma is skipped, an array counts.*)
AfterComma(s, p) ==
  LET q == SkipBlank(s, p) IN IF At(s, q) = "," THEN q + 1 ELSE q

(* Mutant: elements of an array are not counted. *)
CountedNever(calls) == calls

Counted(calls) ==
  [calls EXCEPT ![Len(calls)].index = IF calls[Len(calls)].kind = "arr" THEN @ + 1 ELSE @]

Pass(p) == pos' = AfterComma(text, p) /\ stack' = Counted(stack)

(* A String takes the object or array as it is written. *)
Capture ==
  /\ Active /\ AtValue /\ At(text, ValuePos) \in Opening
  /\ Captures(Match(ValuePath))
  /\ Store(Match(ValuePath), Raw(text, ValuePos))
  /\ Pass(EndOfRaw(text, ValuePos))
  /\ UNCHANGED <<body, text, bindings, phase>>

(* Something in the object or array is bound: it is parsed. *)
Descend ==
  /\ Active /\ AtValue /\ At(text, ValuePos) \in Opening
  /\ ~Captures(Match(ValuePath)) /\ HasChild(ValuePath)
  /\ pos' = ValuePos + 1
  /\ stack' = Append(stack, Frame(KindOf(At(text, ValuePos)), ValuePath))
  /\ UNCHANGED <<body, text, bindings, target, phase>>

(* A variable takes a string, a number or a word. *)
Bind ==
  /\ Active /\ AtValue /\ At(text, ValuePos) \notin Opening
  /\ LET i == Match(ValuePath)
     IN  /\ i # 0
         /\ Store(i, Stored(text, ValuePos, bindings[i], target[i]))
  /\ Pass(PrimitiveEnd(text, ValuePos))
  /\ UNCHANGED <<body, text, bindings, phase>>

(* Nothing is bound there. *)
Skip ==
  /\ Active /\ AtValue
  /\ IF At(text, ValuePos) \in Opening
     THEN ~Captures(Match(ValuePath)) /\ ~HasChild(ValuePath)
     ELSE Match(ValuePath) = 0
  /\ Pass(EndOfValue(text, ValuePos))
  /\ UNCHANGED <<body, text, bindings, target, phase>>

(* An object goes on behind what is not a member. *)
Garbled ==
  /\ Active /\ ~AtEnd /\ ~AtValue
  /\ pos' = Read(text, IF AtKey THEN Colon ELSE Here)
  /\ UNCHANGED <<body, text, bindings, target, stack, phase>>

(* The call returns, and the pass of its caller ends. *)
Close ==
  /\ Active /\ AtEnd
  /\ LET p     == IF pos \in DOMAIN text THEN Here + 1 ELSE pos
         calls == SubSeq(stack, 1, Len(stack) - 1)
     IN  IF calls = <<>>
         THEN stack' = <<>> /\ pos' = p /\ phase' = "done"
         ELSE stack' = Counted(calls) /\ pos' = AfterComma(text, p) /\ UNCHANGED phase
  /\ UNCHANGED <<body, text, bindings, target>>

Next == Start \/ Capture \/ Descend \/ Bind \/ Skip \/ Garbled \/ Close

(* The parser runs to its end within execute(). *)
Spec == Init /\ [][Next]_vars /\ WF_vars(Next)

-----------------------------------------------------------------------------
(* The parser calls itself only on the way to something that is bound: it  *)
(* is never deeper than the longest of the paths, however deep the JSON of *)
(* the server, or its garbage, is nested, and so needs no more of the      *)
(* task's stack than the caller's bindings ask for (RestRequest.cpp        *)
(* 664-690 and 737-752, hasChildBinding).                                  *)
RecursionBounded ==
  Len(stack) <= 1 \/ \E i \in DOMAIN bindings : Len(stack) <= Len(bindings[i].key)

(* In an array, at a character that no value starts with. *)
Stuck ==
  /\ stack # <<>> /\ Top.kind = "arr"
  /\ At(text, pos) \notin Opening \cup Blank \cup Numeric \cup {Quote, ",", "]", "n", "t", "f"}

(* An upper bound of the passes that are left. *)
PassesLeft == 2 * (Len(text) + 1 - pos) + Len(stack)

(* Whatever the text, whole, cut or garbled, and whatever is bound: every  *)
(* pass of the loops takes the reader on or returns, so that a text of n   *)
(* characters is parsed in at most 2n passes, except that the loop of      *)
(* an array stays for good where it is Stuck (RestRequest.cpp 637-711 and  *)
(* 717-782, the loops, and 542-631, where nothing may be read).            *)
EachPassCounts ==
  [][phase = "parsing" /\ ~Stuck => PassesLeft' < PassesLeft]_vars

=============================================================================
