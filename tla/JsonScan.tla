------------------------------ MODULE JsonScan ------------------------------
(***************************************************************************)
(* How the library finds its way in a JSON text: the static functions      *)
(* skipWhitespace, skipValue, readStringIntoBuffer and readRawJson, which  *)
(* RestRequest.cpp, JsonRpcRequest.cpp and GraphQLRequest.cpp each have a  *)
(* copy of.                                                                *)
(***************************************************************************)
EXTENDS TextScan

Quote   == "\""
Escape  == "\\"
Opening == {"{", "["}
Closing == {"}", "]"}

ClosingOf(c) == IF c = "{" THEN "}" ELSE "]"

(* The letters that words are made of, and what numbers are. *)
Letters == {"a", "b", "c", "d", "e", "f", "i", "l", "n", "r", "s", "t", "u"}
Numeric == Digits \cup {".", "-", "+", "e", "E"}

SkipBlank(s, p) == FirstNotIn(s, p, Blank)

(* Mutant: an escaped quote ends the string. *)
EndOfStringAtQuote(s, p) == Read(s, FirstIn(s, p, {Quote}))

(* The position after the string whose first character is at p. *)
EndOfString(s, p) ==
  LET end[q \in 1 .. Len(s) + 2] ==
        IF q > Len(s) THEN Len(s) + 1
        ELSE IF s[q] = Quote THEN q + 1
        ELSE end[IF s[q] = Escape THEN q + 2 ELSE q + 1]
  IN  end[p]

(* The string's characters; an escaped one stands for itself. *)
Unescaped(s, p) ==
  LET rest[q \in 1 .. Len(s) + 2] ==
        IF At(s, q) \in {Quote, "end"} THEN <<>>
        ELSE IF s[q] # Escape THEN <<s[q]>> \o rest[q + 1]
        ELSE IF q = Len(s) THEN <<>> ELSE <<s[q + 1]>> \o rest[q + 2]
  IN  rest[p]

(* The position after the object or array entered just before p, where     *)
(* brackets of open and close are counted outside of strings.              *)
EndOfNested(s, p, open, close) ==
  LET end[x \in (1 .. Len(s) + 1) \X Nat] ==
        LET q == x[1]
            depth == x[2]
        IN  IF depth = 0 \/ q > Len(s) THEN q
            ELSE IF s[q] = Quote THEN end[<<EndOfString(s, q + 1), depth>>]
            ELSE end[<<q + 1, IF s[q] \in open THEN depth + 1
                              ELSE IF s[q] \in close THEN depth - 1 ELSE depth>>]
  IN  end[<<p, 1>>]

(* skipValue() *)
EndOfValue(s, p) ==
  LET v == SkipBlank(s, p)
      c == At(s, v)
  IN  IF c \in Opening THEN EndOfNested(s, v + 1, {c}, {ClosingOf(c)})
      ELSE IF c = Quote THEN EndOfString(s, v + 1)
      ELSE FirstIn(s, v, {","} \cup Closing \cup Blank)

(* readRawJson(), called after the opening bracket at p was read. *)
EndOfRaw(s, p) == EndOfNested(s, p + 1, Opening, Closing)
Raw(s, p)      == SubSeq(s, p, EndOfRaw(s, p) - 1)

=============================================================================
