---------------------------- MODULE SoapResponse ----------------------------
(***************************************************************************)
(* SoapRequest::parseXmlWithBindings: a SOAP response streams by, elements *)
(* are bound to the caller's variables when they close, and the fields of  *)
(* a fault are collected.                                                  *)
(*                                                                         *)
(* A step is one pass through the loop, or as many as a run of text takes. *)
(* A name is a sequence of words and colons; words differ in more than     *)
(* their case, which the code mostly ignores, and hold no dots.  The copy  *)
(* of the text that getRawResponse() makes on the way is left out.         *)
(***************************************************************************)
EXTENDS TextScan, SequencesExt

CONSTANTS
  Bodies,        (* bodies of responses: [text, doc], perhaps cut           *)
  BindingLists   (* sequences of bindings [key, type, size]                 *)

(* What stands for the end of a text is none of its characters. *)
ASSUME TextAssumption ==
  \A b \in Bodies : IsSequence(b.text) /\ \A p \in DOMAIN b.text : b.text[p] # "end"

ASSUME BindingAssumption ==
  \A bs \in BindingLists : \A i \in DOMAIN bs :
    bs[i].type \in {"int", "bool", "chars", "String"} /\ bs[i].size \in Nat \ {0}

VARIABLES
  body,      (* history: the body, and which document it is of              *)
  bindings,  (* _responseBindings                                           *)
  target,    (* what the bound variables hold                               *)
  fault,     (* the SoapFault                                               *)
  pos,       (* position of the reader                                      *)
  tags,      (* tagStack, which localTagStack follows                       *)
  current    (* currentText                                                 *)

vars == <<body, bindings, target, fault, pos, tags, current>>

NoFault == [matched |-> FALSE, faultCode |-> <<>>, faultString |-> <<>>,
            faultActor |-> <<>>, detail |-> <<>>]

text == body.text

Init ==
  /\ body \in Bodies /\ bindings \in BindingLists
  /\ target = [i \in DOMAIN bindings |-> Untouched]
  /\ fault = NoFault
  /\ pos = 1 /\ tags = <<>> /\ current = <<>>

-----------------------------------------------------------------------------
(* Names and values. *)

(* stripNamespace() *)
Local(name) ==
  LET colon == FirstIn(name, 1, {":"})
  IN  IF colon > Len(name) THEN name ELSE SubSeq(name, colon + 1, Len(name))

Locals(names) == [i \in DOMAIN names |-> Local(names[i])]

(* matchesPath(): the path, or the end of it, with prefixes or without. *)
Matches(path, names) ==
  path # <<>> /\ (IsSuffix(path, Locals(names)) \/ IsSuffix(path, names))

(* decodeXmlEntities(), with one entity for those of a number below 256.   *)
Character ==
  [lt |-> "<", gt |-> ">", amp |-> "&", quot |-> "\"", apos |-> "'", num |-> "1"]

Decoded(t) ==
  LET rest[q \in 1 .. Len(t) + 3] ==
        IF q > Len(t) THEN <<>>
        ELSE IF t[q] = "&" /\ At(t, q + 1) \in DOMAIN Character /\ At(t, q + 2) = ";"
             THEN <<Character[t[q + 1]]>> \o rest[q + 3]
        ELSE <<t[q]>> \o rest[q + 1]
  IN  rest[1]

(* What is left of t without the characters of C at its end. *)
Cut(t, C) == Reverse(SubSeq(Reverse(t), FirstNotIn(Reverse(t), 1, C), Len(t)))

(* trimString() *)
Trimmed(t) == Cut(SubSeq(t, FirstNotIn(t, 1, Blank), Len(t)), Blank)

(* applyBindingValue(), for every binding of the innermost element. *)
Value(b, t) ==
  CASE b.type = "String" -> t
    [] b.type = "chars"  -> Fitting(t, b.size)
    [] b.type = "int"    -> LeadingDigits(Trimmed(t))
    [] b.type = "bool"   -> Bool(Trimmed(t) \in {<<"true">>, <<"1">>})

Bound(names, t) ==
  [i \in DOMAIN target |->
     IF Matches(bindings[i].key, names) THEN Value(bindings[i], t) ELSE target[i]]

(* The field of a fault that an element of this name and parent holds.     *)
Field(leaf, parent) ==
  CASE leaf = "faultcode" \/ (leaf = "value" /\ parent = "code")    -> "faultCode"
    [] leaf = "faultstring" \/ (leaf = "text" /\ parent = "reason") -> "faultString"
    [] leaf \in {"faultactor", "node"} -> "faultActor"
    [] leaf = "role"                   -> "role"
    [] leaf = "detail"                 -> "detail"
    [] leaf = "fault"                  -> "fault"
    [] OTHER                           -> "none"

FieldOf(names) ==
  LET n    == Len(names)
      Word(i) == IF i < 1 THEN "" ELSE Last(Local(names[i]))
  IN  Field(Word(n), Word(n - 1))

(* Mutant: a role is kept although there is a node. *)
CollectedRole(names, t) ==
  LET f == FieldOf(names)
      m == [fault EXCEPT !.matched = TRUE]
  IN  CASE f = "none"  -> fault
        [] f = "fault" -> m
        [] f = "role"  -> [m EXCEPT !.faultActor = Trimmed(t)]
        [] OTHER       -> [m EXCEPT ![f] = Trimmed(t)]

(* The fault when an element with text t closes; a role does not replace a *)
(* node or an actor.                                                       *)
Collected(names, t) ==
  LET f == FieldOf(names)
      m == [fault EXCEPT !.matched = TRUE]
  IN  CASE f = "none"  -> fault
        [] f = "fault" -> m
        [] f = "role"  -> IF fault.faultActor = <<>>
                          THEN [m EXCEPT !.faultActor = Trimmed(t)] ELSE m
        [] OTHER       -> [m EXCEPT ![f] = Trimmed(t)]

-----------------------------------------------------------------------------
(* Where markup ends. *)

(* Mutant: quotes are not looked at. *)
TagCloseUnquoted(p) == FirstIn(text, p, {">"})

(* The bracket that closes the tag with its name at p: not one in quotes.  *)
TagClose(p) ==
  LET close[q \in 1 .. Len(text) + 1] ==
        IF At(text, q) \in {">", "end"} THEN q
        ELSE IF text[q] \in {"\"", "'"}
             THEN close[Read(text, FirstIn(text, q + 1, {text[q]}))]
        ELSE close[q + 1]
  IN  close[p]

(* Mutant: a comment ends with its first bracket. *)
CommentEndAtBracket(p) == Read(text, FirstIn(text, p, {">"}))

(* After the first ">" with two dashes before it, from p on. *)
CommentEnd(p) ==
  LET end[q \in 1 .. Len(text) + 1] ==
        IF q > Len(text) THEN q
        ELSE IF text[q] = ">" /\ q >= p + 2 /\ text[q - 1] = "-" /\ text[q - 2] = "-" THEN q + 1
        ELSE end[q + 1]
  IN  end[p]

(* The ">" with two brackets before it, which ends the CDATA from p on. *)
CDataClose(p) ==
  LET close[q \in 1 .. Len(text) + 1] ==
        IF q > Len(text) THEN q
        ELSE IF text[q] = ">" /\ q >= p + 2 /\ text[q - 1] = "]" /\ text[q - 2] = "]" THEN q
        ELSE close[q + 1]
  IN  close[p]

(* After "?>", from p on. *)
InstructionEnd(p) ==
  LET end[q \in 1 .. Len(text) + 1] ==
        IF q > Len(text) THEN q
        ELSE IF text[q] = "?" /\ At(text, q + 1) = ">" THEN q + 2
        ELSE end[q + 1]
  IN  end[p]

SelfClosing(p) == At(text, TagClose(p)) = ">" /\ At(text, TagClose(p) - 1) = "/"

(* The name at p: up to a blank or the end of the tag. *)
TagName(p) ==
  LET close == TagClose(p) - (IF SelfClosing(p) THEN 1 ELSE 0)
      blank == FirstIn(text, p, Blank)
  IN  SubSeq(text, p, (IF blank < close THEN blank ELSE close) - 1)

-----------------------------------------------------------------------------
(* The loop. *)

AtMarkup == At(text, pos) = "<"
Kind     == At(text, pos + 1)

(* Mutant: when the stream ends, the text that has come is bound. *)
CharactersFlushed ==
  /\ pos \in DOMAIN text /\ ~AtMarkup
  /\ pos' = FirstIn(text, pos, {"<"})
  /\ current' = current \o SubSeq(text, pos, pos' - 1)
  /\ target' = IF pos' > Len(text) THEN Bound(tags, Decoded(current')) ELSE target
  /\ UNCHANGED <<body, bindings, fault, tags>>

Characters ==
  /\ pos \in DOMAIN text /\ ~AtMarkup
  /\ pos' = FirstIn(text, pos, {"<"})
  /\ current' = current \o SubSeq(text, pos, pos' - 1)
  /\ UNCHANGED <<body, bindings, target, fault, tags>>

(* Comments, declarations and instructions are passed over. *)
Aside ==
  /\ AtMarkup
  /\ \/ Kind = "!" /\ At(text, pos + 2) = "-" /\ pos' = CommentEnd(pos + 3)
     \/ Kind = "!" /\ At(text, pos + 2) \notin {"-", "["}
          /\ pos' = Read(text, FirstIn(text, pos + 2, {">"}))
     \/ Kind = "?" /\ pos' = InstructionEnd(pos + 1)
  /\ UNCHANGED <<body, bindings, target, fault, tags, current>>

(* "<![CDATA[": its content, without the brackets at its end, is text.     *)
CData ==
  /\ AtMarkup /\ Kind = "!" /\ At(text, pos + 2) = "["
  /\ IF At(text, pos + 3) = "CDATA" /\ At(text, pos + 4) = "["
     THEN LET close == CDataClose(pos + 5) IN
          /\ pos' = Read(text, close)
          /\ current' = current \o Cut(SubSeq(text, pos + 5, close - 1), {"]"})
     ELSE /\ pos' = Read(text, Read(text, pos + 3))
          /\ UNCHANGED current
  /\ UNCHANGED <<body, bindings, target, fault, tags>>

(* The end of the innermost element; its name there is not looked at.      *)
Close ==
  /\ AtMarkup /\ Kind = "/"
  /\ pos' = Read(text, FirstIn(text, pos + 2, {">"}))
  /\ target' = Bound(tags, Decoded(current))
  /\ fault' = Collected(tags, Decoded(current))
  /\ tags' = SubSeq(tags, 1, Len(tags) - 1)
  /\ current' = <<>>
  /\ UNCHANGED <<body, bindings>>

AtTag == AtMarkup /\ Kind \notin {"!", "?", "/"}

(* An element begins; one that closes itself is bound to no text.          *)
Open ==
  /\ AtTag
  /\ LET name == TagName(pos + 1) IN
     IF name = <<>> THEN UNCHANGED <<target, tags, current>>
     ELSE IF SelfClosing(pos + 1)
     THEN target' = Bound(Append(tags, name), <<>>) /\ UNCHANGED <<tags, current>>
     ELSE tags' = Append(tags, name) /\ current' = <<>> /\ UNCHANGED target
  /\ pos' = Read(text, TagClose(pos + 1))
  /\ UNCHANGED <<body, bindings, fault>>

Next == Characters \/ Aside \/ CData \/ Close \/ Open

Spec == Init /\ [][Next]_vars

-----------------------------------------------------------------------------
(* Every pass of the loop takes something from the stream, whatever is     *)
(* there: a response of n characters, well-formed or not, takes at most n  *)
(* passes (SoapRequest.cpp 639-843).                                       *)
EachPassReads == [][pos' > pos]_vars

(* The stack of open elements stays small: what is in it was read, a name  *)
(* and a bracket at least for each (SoapRequest.cpp 787-835).              *)
TagsBounded == 2 * Len(tags) < pos

=============================================================================
