------------------------------ MODULE TextScan ------------------------------
(***************************************************************************)
(* Texts as the parsers read them: a text is a sequence of characters, and *)
(* a position past its end is where the stream has ended, so that read()   *)
(* and peek() return -1 and available() is 0.  What variables hold is a    *)
(* sequence of characters too; a number is that of its digits, so that <<>>*)
(* is zero.                                                                *)
(***************************************************************************)
EXTENDS Integers, Sequences

IsSequence(s) == s \in Seq({s[i] : i \in DOMAIN s})

Digits == {"0", "1", "2", "3"}
Blank  == {" ", "\n"}

(* peek() at position p, and the position after read(). *)
At(s, p)   == IF p \in DOMAIN s THEN s[p] ELSE "end"
Read(s, p) == IF p \in DOMAIN s THEN p + 1 ELSE p

(* The first position from p on that holds a character of C, or none of C. *)
FirstIn(s, p, C) ==
  LET first[q \in 1 .. Len(s) + 1] ==
        IF At(s, q) \in C \cup {"end"} THEN q ELSE first[q + 1]
  IN  first[p]

FirstNotIn(s, p, C) ==
  LET first[q \in 1 .. Len(s) + 1] == IF At(s, q) \in C THEN first[q + 1] ELSE q
  IN  first[p]

Untouched == <<"untouched">>
Bool(b)   == IF b THEN <<"yes">> ELSE <<"no">>

(* atoi() and its kin. *)
LeadingDigits(t) == SubSeq(t, 1, FirstNotIn(t, 1, Digits) - 1)

(* What fits in a buffer of the given size. *)
Fitting(t, size) == SubSeq(t, 1, IF Len(t) < size THEN Len(t) ELSE size - 1)

=============================================================================
