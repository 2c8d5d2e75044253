------------------------ MODULE SoapResponse_proofs ------------------------
(* Theorems about SoapResponse, for all responses, well-formed or not, and *)
(* all lists of bindings.                                                  *)
EXTENDS SoapResponse, TextFacts

-----------------------------------------------------------------------------
(* Where markup ends. *)

InText ==
  /\ IsSequence(text) /\ \A p \in DOMAIN text : text[p] # "end"
  /\ pos \in 1 .. Len(text) + 1

LEMMA CommentEndEnds ==
  ASSUME IsSequence(text), NEW p \in 1 .. Len(text) + 1
  PROVE  CommentEnd(p) \in p .. Len(text) + 1
<1>. DEFINE n     == Len(text)
            Ends(q) == text[q] = ">" /\ q >= p + 2 /\ text[q - 1] = "-" /\ text[q - 2] = "-"
            Z     == {q \in 1 .. n + 1 : q > n \/ Ends(q)}
            value == [q \in 1 .. n + 1 |-> IF q > n THEN q ELSE q + 1]
            next  == [q \in 1 .. n + 1 |-> q + 1]
            Eq(g) == g = [q \in 1 .. Len(text) + 1 |->
                            IF q > Len(text) THEN q
                            ELSE IF text[q] = ">" /\ q >= p + 2 /\ text[q - 1] = "-"
                                      /\ text[q - 2] = "-" THEN q + 1
                            ELSE g[q + 1]]
<1>1. n \in Nat
  BY SequenceLength
<1>2. Scans(n, Z, value, next)
  <2>. HIDE DEF Ends
  <2>. QED BY <1>1 DEF Scans
<1>3. ASSUME NEW g PROVE Eq(g) <=> Follows(g, 1 .. n + 1, Z, value, next)
  <2>1. Eq(g) <=> g = [q \in 1 .. n + 1 |-> IF q > n THEN q ELSE IF Ends(q) THEN q + 1 ELSE g[q + 1]]
    OBVIOUS
  <2>. HIDE DEF Ends, Eq
  <2>. QED BY <2>1 DEF Follows
<1>. HIDE DEF n, Z, value, next, Eq
<1>4. PICK g : Eq(g) /\ CommentEnd(p) = g[p]
  <2>1. \E g : Follows(g, 1 .. n + 1, Z, value, next)
    BY <1>1, <1>2, ScanEnds
  <2>2. \E g : Eq(g)
    BY <1>3, <2>1
  <2>. QED BY <2>2 DEF CommentEnd, Eq
<1>5. Follows(g, 1 .. n + 1, Z, value, next)
  BY <1>3, <1>4
<1>6. \A q \in 1 .. n + 1 : g[q] \in q .. n + 1
  BY <1>1, <1>2, <1>5, ScanEnds
<1>. QED BY <1>4, <1>6 DEF n

LEMMA CDataCloseEnds ==
  ASSUME IsSequence(text), NEW p \in 1 .. Len(text) + 1
  PROVE  CDataClose(p) \in p .. Len(text) + 1
<1>. DEFINE n     == Len(text)
            Ends(q) == text[q] = ">" /\ q >= p + 2 /\ text[q - 1] = "]" /\ text[q - 2] = "]"
            Z     == {q \in 1 .. n + 1 : q > n \/ Ends(q)}
            value == [q \in 1 .. n + 1 |-> q]
            next  == [q \in 1 .. n + 1 |-> q + 1]
            Eq(g) == g = [q \in 1 .. Len(text) + 1 |->
                            IF q > Len(text) THEN q
                            ELSE IF text[q] = ">" /\ q >= p + 2 /\ text[q - 1] = "]"
                                      /\ text[q - 2] = "]" THEN q
                            ELSE g[q + 1]]
<1>1. n \in Nat
  BY SequenceLength
<1>2. Scans(n, Z, value, next)
  <2>. HIDE DEF Ends
  <2>. QED BY <1>1 DEF Scans
<1>3. ASSUME NEW g PROVE Eq(g) <=> Follows(g, 1 .. n + 1, Z, value, next)
  <2>1. Eq(g) <=> g = [q \in 1 .. n + 1 |-> IF q > n THEN q ELSE IF Ends(q) THEN q ELSE g[q + 1]]
    OBVIOUS
  <2>. HIDE DEF Ends, Eq
  <2>. QED BY <2>1 DEF Follows
<1>. HIDE DEF n, Z, value, next, Eq
<1>4. PICK g : Eq(g) /\ CDataClose(p) = g[p]
  <2>1. \E g : Follows(g, 1 .. n + 1, Z, value, next)
    BY <1>1, <1>2, ScanEnds
  <2>2. \E g : Eq(g)
    BY <1>3, <2>1
  <2>. QED BY <2>2 DEF CDataClose, Eq
<1>5. Follows(g, 1 .. n + 1, Z, value, next)
  BY <1>3, <1>4
<1>6. \A q \in 1 .. n + 1 : g[q] \in q .. n + 1
  BY <1>1, <1>2, <1>5, ScanEnds
<1>. QED BY <1>4, <1>6 DEF n

LEMMA InstructionEndEnds ==
  ASSUME IsSequence(text), NEW p \in 1 .. Len(text) + 1
  PROVE  InstructionEnd(p) \in p .. Len(text) + 1
<1>. DEFINE n     == Len(text)
            Ends(q) == text[q] = "?" /\ At(text, q + 1) = ">"
            Z     == {q \in 1 .. n + 1 : q > n \/ Ends(q)}
            value == [q \in 1 .. n + 1 |-> IF q > n THEN q ELSE q + 2]
            next  == [q \in 1 .. n + 1 |-> q + 1]
            Eq(g) == g = [q \in 1 .. Len(text) + 1 |->
                            IF q > Len(text) THEN q
                            ELSE IF text[q] = "?" /\ At(text, q + 1) = ">" THEN q + 2
                            ELSE g[q + 1]]
<1>1. n \in Nat
  BY SequenceLength
<1>2. Scans(n, Z, value, next)
  <2>1. ASSUME NEW q \in 1 .. n, Ends(q) PROVE q + 2 \in q .. n + 1
    <3>1. q + 1 \in 1 .. n + 1 /\ At(text, q + 1) # "end"
      BY <1>1, <2>1
    <3>2. q + 1 \in 1 .. n
      BY <3>1, Within
    <3>. QED BY <1>1, <3>2
  <2>. HIDE DEF Ends
  <2>. QED BY <1>1, <2>1 DEF Scans
<1>3. ASSUME NEW g PROVE Eq(g) <=> Follows(g, 1 .. n + 1, Z, value, next)
  <2>1. Eq(g) <=> g = [q \in 1 .. n + 1 |-> IF q > n THEN q ELSE IF Ends(q) THEN q + 2 ELSE g[q + 1]]
    OBVIOUS
  <2>. HIDE DEF Ends, Eq
  <2>. QED BY <2>1 DEF Follows
<1>. HIDE DEF n, Z, value, next, Eq
<1>4. PICK g : Eq(g) /\ InstructionEnd(p) = g[p]
  <2>1. \E g : Follows(g, 1 .. n + 1, Z, value, next)
    BY <1>1, <1>2, ScanEnds
  <2>2. \E g : Eq(g)
    BY <1>3, <2>1
  <2>. QED BY <2>2 DEF InstructionEnd, Eq
<1>5. Follows(g, 1 .. n + 1, Z, value, next)
  BY <1>3, <1>4
<1>6. \A q \in 1 .. n + 1 : g[q] \in q .. n + 1
  BY <1>1, <1>2, <1>5, ScanEnds
<1>. QED BY <1>4, <1>6 DEF n

LEMMA TagCloseEnds ==
  ASSUME IsSequence(text), NEW p \in 1 .. Len(text) + 1
  PROVE  TagClose(p) \in p .. Len(text) + 1
<1>. DEFINE n     == Len(text)
            Quoted(q) == text[q] \in {"\"", "'"}
            Ends(q) == At(text, q) \in {">", "end"}
            Z     == {q \in 1 .. n + 1 : Ends(q)}
            value == [q \in 1 .. n + 1 |-> q]
            next  == [q \in 1 .. n + 1 |->
                       IF Quoted(q) THEN Read(text, FirstIn(text, q + 1, {text[q]})) ELSE q + 1]
            Eq(g) == g = [q \in 1 .. Len(text) + 1 |->
                            IF At(text, q) \in {">", "end"} THEN q
                            ELSE IF text[q] \in {"\"", "'"}
                            THEN g[Read(text, FirstIn(text, q + 1, {text[q]}))]
                            ELSE g[q + 1]]
<1>1. n \in Nat
  BY SequenceLength
<1>2. Scans(n, Z, value, next)
  <2>1. ASSUME NEW q \in 1 .. n + 1, ~Ends(q)
        PROVE  q + 1 \in q + 1 .. n + 1 /\ Read(text, FirstIn(text, q + 1, {text[q]})) \in q + 1 .. n + 1
    <3>1. At(text, q) # "end"
      BY <2>1
    <3>2. q + 1 \in 1 .. n + 1
      BY <3>1, Within
    <3>3. FirstIn(text, q + 1, {text[q]}) \in q + 1 .. n + 1
      BY <3>2, FirstInEnds
    <3>4. FirstIn(text, q + 1, {text[q]}) \in 1 .. n + 1
      BY <1>1, <3>3
    <3>5. Read(text, FirstIn(text, q + 1, {text[q]})) \in FirstIn(text, q + 1, {text[q]}) .. n + 1
      BY <3>4, ReadOn
    <3>. QED BY <1>1, <3>2, <3>3, <3>5
  <2>. HIDE DEF Ends, Quoted
  <2>. QED BY <1>1, <2>1 DEF Scans
<1>3. ASSUME NEW g PROVE Eq(g) <=> Follows(g, 1 .. n + 1, Z, value, next)
  <2>1. Eq(g) <=> g = [q \in 1 .. n + 1 |->
                         IF Ends(q) THEN q
                         ELSE IF Quoted(q) THEN g[Read(text, FirstIn(text, q + 1, {text[q]}))]
                         ELSE g[q + 1]]
    OBVIOUS
  <2>. HIDE DEF Ends, Quoted, Eq
  <2>. QED BY <2>1 DEF Follows
<1>. HIDE DEF n, Z, value, next, Eq
<1>4. PICK g : Eq(g) /\ TagClose(p) = g[p]
  <2>1. \E g : Follows(g, 1 .. n + 1, Z, value, next)
    BY <1>1, <1>2, ScanEnds
  <2>2. \E g : Eq(g)
    BY <1>3, <2>1
  <2>. QED BY <2>2 DEF TagClose, Eq
<1>5. Follows(g, 1 .. n + 1, Z, value, next)
  BY <1>3, <1>4
<1>6. \A q \in 1 .. n + 1 : g[q] \in q .. n + 1
  BY <1>1, <1>2, <1>5, ScanEnds
<1>. QED BY <1>4, <1>6 DEF n

-----------------------------------------------------------------------------
(* Every pass reads. *)

(* Where the name of an element is at p, at least one character is read.   *)
LEMMA NameIsRead ==
  ASSUME IsSequence(text), NEW p \in 1 .. Len(text) + 1, TagName(p) # <<>>
  PROVE  TagClose(p) >= p + 1
<1>. DEFINE close == TagClose(p) - (IF SelfClosing(p) THEN 1 ELSE 0)
            blank == FirstIn(text, p, Blank)
            last  == (IF blank < close THEN blank ELSE close) - 1
<1>1. Len(text) \in Nat /\ TagClose(p) \in p .. Len(text) + 1 /\ blank \in p .. Len(text) + 1
  BY TagCloseEnds, FirstInEnds, SequenceLength
<1>2. close \in Int /\ close <= TagClose(p) /\ last \in Int /\ last < close
  BY <1>1
<1>3. TagName(p) = SubSeq(text, p, last)
  BY DEF TagName
<1>4. text \in Seq(Elements(text))
  BY DEF IsSequence, Elements
<1>. HIDE DEF close, blank, last, Elements
<1>5. last >= p
  BY <1>1, <1>2, <1>3, <1>4
<1>. QED BY <1>1, <1>2, <1>5

LEMMA PassReads ==
  ASSUME InText, Next
  PROVE  /\ body' = body /\ pos' \in pos + 1 .. Len(text) + 1
         /\ \/ tags' = tags
            \/ tags' = SubSeq(tags, 1, Len(tags) - 1)
            \/ pos' >= pos + 2 /\ \E name : tags' = Append(tags, name)
<1>. DEFINE n == Len(text)
<1>1. IsSequence(text) /\ n \in Nat /\ pos \in 1 .. n + 1
  BY SequenceLength DEF InText
<1>. HIDE DEF n
<1>2. ASSUME NEW p \in 1 .. n + 1, At(text, p) # "end"
      PROVE  p \in 1 .. n /\ p + 1 \in 1 .. n + 1
  BY <1>1, <1>2, Within DEF n
<1>3. ASSUME NEW p \in 1 .. n + 1, NEW C
      PROVE  /\ FirstIn(text, p, C) \in p .. n + 1
             /\ Read(text, FirstIn(text, p, C)) \in p .. n + 1
  <2>1. FirstIn(text, p, C) \in p .. n + 1
    BY <1>1, FirstInEnds DEF n
  <2>2. FirstIn(text, p, C) \in 1 .. n + 1
    BY <1>1, <2>1
  <2>3. Read(text, FirstIn(text, p, C)) \in FirstIn(text, p, C) .. n + 1
    BY <1>1, <2>2, ReadOn DEF n
  <2>. QED BY <1>1, <2>1, <2>3
<1>4. ASSUME AtMarkup PROVE pos + 1 \in 1 .. n + 1
  <2>1. At(text, pos) # "end"
    BY <1>4 DEF AtMarkup
  <2>. QED BY <1>1, <1>2, <2>1
<1>5. ASSUME AtMarkup, Kind # "end" PROVE pos + 2 \in 1 .. n + 1
  <2>1. (pos + 1) + 1 \in 1 .. n + 1
    BY <1>2, <1>4, <1>5 DEF Kind
  <2>. QED BY <1>1, <2>1
<1>6. CASE Characters
  <2>1. /\ body' = body /\ tags' = tags /\ pos' = FirstIn(text, pos, {"<"})
        /\ pos \in DOMAIN text /\ At(text, pos) # "<"
    BY <1>6 DEF Characters, AtMarkup
  <2>2. pos' \in pos .. n + 1 /\ At(text, pos') \in {"<", "end"}
    BY <1>1, <2>1, FirstInEnds DEF n
  <2>3. pos' # pos
    BY <2>1, <2>2 DEF InText, At
  <2>. QED BY <1>1, <2>1, <2>2, <2>3 DEF n
<1>7. CASE Aside
  <2>1. AtMarkup /\ body' = body /\ tags' = tags
    BY <1>7 DEF Aside
  <2>2. CASE Kind = "!" /\ At(text, pos + 2) = "-" /\ pos' = CommentEnd(pos + 3)
    <3>1. pos + 2 \in 1 .. n + 1 /\ At(text, pos + 2) # "end"
      BY <1>5, <2>1, <2>2
    <3>2. pos + 3 \in 1 .. n + 1
      BY <1>1, <1>2, <3>1
    <3>3. pos' \in pos + 3 .. n + 1
      BY <1>1, <2>2, <3>2, CommentEndEnds DEF n
    <3>. QED BY <1>1, <2>1, <3>3 DEF n
  <2>3. CASE Kind = "!" /\ pos' = Read(text, FirstIn(text, pos + 2, {">"}))
    <3>1. pos + 2 \in 1 .. n + 1
      BY <1>5, <2>1, <2>3
    <3>2. pos' \in pos + 2 .. n + 1
      BY <1>3, <2>3, <3>1
    <3>. QED BY <1>1, <2>1, <3>2 DEF n
  <2>4. CASE Kind = "?" /\ pos' = InstructionEnd(pos + 1)
    <3>1. pos' \in pos + 1 .. n + 1
      BY <1>1, <1>4, <2>1, <2>4, InstructionEndEnds DEF n
    <3>. QED BY <1>1, <2>1, <3>1 DEF n
  <2>. QED BY <1>7, <2>2, <2>3, <2>4 DEF Aside
<1>8. CASE CData
  <2>1. /\ AtMarkup /\ Kind # "end" /\ At(text, pos + 2) # "end"
        /\ body' = body /\ tags' = tags
    BY <1>8 DEF CData
  <2>2. pos + 2 \in 1 .. n + 1
    BY <1>5, <2>1
  <2>3. pos + 3 \in 1 .. n + 1
    BY <1>1, <1>2, <2>1, <2>2
  <2>4. CASE At(text, pos + 3) = "CDATA" /\ At(text, pos + 4) = "["
    <3>1. pos + 4 \in 1 .. n + 1
      BY <1>1, <1>2, <2>3, <2>4
    <3>2. pos + 5 \in 1 .. n + 1
      BY <1>1, <1>2, <2>4, <3>1
    <3>3. CDataClose(pos + 5) \in pos + 5 .. n + 1
      BY <1>1, <3>2, CDataCloseEnds DEF n
    <3>4. CDataClose(pos + 5) \in 1 .. n + 1
      BY <1>1, <3>3
    <3>5. pos' = Read(text, CDataClose(pos + 5))
      BY <1>8, <2>4 DEF CData
    <3>6. pos' \in CDataClose(pos + 5) .. n + 1
      BY <1>1, <3>4, <3>5, ReadOn DEF n
    <3>. QED BY <1>1, <2>1, <3>3, <3>6 DEF n
  <2>5. CASE ~(At(text, pos + 3) = "CDATA" /\ At(text, pos + 4) = "[")
    <3>1. pos' = Read(text, Read(text, pos + 3))
      BY <1>8, <2>5 DEF CData
    <3>2. Read(text, pos + 3) \in pos + 3 .. n + 1
      BY <1>1, <2>3, ReadOn DEF n
    <3>3. Read(text, pos + 3) \in 1 .. n + 1
      BY <1>1, <3>2
    <3>4. pos' \in Read(text, pos + 3) .. n + 1
      BY <1>1, <3>1, <3>3, ReadOn DEF n
    <3>. QED BY <1>1, <2>1, <3>2, <3>4 DEF n
  <2>. QED BY <2>4, <2>5
<1>9. CASE Close
  <2>1. /\ AtMarkup /\ Kind # "end" /\ body' = body
        /\ pos' = Read(text, FirstIn(text, pos + 2, {">"}))
        /\ tags' = SubSeq(tags, 1, Len(tags) - 1)
    BY <1>9 DEF Close
  <2>2. pos' \in pos + 2 .. n + 1
    BY <1>3, <1>5, <2>1
  <2>. QED BY <1>1, <2>1, <2>2 DEF n
<1>10. CASE Open
  <2>. DEFINE name == TagName(pos + 1)
  <2>1. /\ AtMarkup /\ body' = body /\ pos' = Read(text, TagClose(pos + 1))
        /\ tags' = tags \/ (name # <<>> /\ tags' = Append(tags, name))
    BY <1>10 DEF Open, AtTag
  <2>2. pos + 1 \in 1 .. n + 1
    BY <1>4, <2>1
  <2>3. TagClose(pos + 1) \in pos + 1 .. n + 1
    BY <1>1, <2>2, TagCloseEnds DEF n
  <2>4. TagClose(pos + 1) \in 1 .. n + 1
    BY <1>1, <2>3
  <2>5. pos' \in TagClose(pos + 1) .. n + 1
    BY <1>1, <2>1, <2>4, ReadOn DEF n
  <2>6. pos' \in pos + 1 .. n + 1
    BY <1>1, <2>3, <2>5
  <2>7. CASE name # <<>>
    <3>1. TagClose(pos + 1) >= (pos + 1) + 1
      BY <1>1, <2>2, <2>7, NameIsRead DEF n
    <3>2. pos' >= pos + 2
      BY <1>1, <2>3, <2>5, <3>1
    <3>. QED BY <2>1, <2>6, <3>2 DEF n
  <2>8. CASE name = <<>>
    BY <2>1, <2>6, <2>8 DEF n
  <2>. QED BY <2>7, <2>8
<1>. QED BY <1>6, <1>7, <1>8, <1>9, <1>10 DEF Next

(* An element that closes leaves no more open ones than there were. *)
LEMMA Popped ==
  ASSUME NEW s, IsSequence(s)
  PROVE  IsSequence(SubSeq(s, 1, Len(s) - 1)) /\ Len(SubSeq(s, 1, Len(s) - 1)) <= Len(s)
<1>1. Len(s) \in Nat
  BY SequenceLength
<1>2. CASE Len(s) = 0
  <2>1. s \in Seq(Elements(s))
    BY DEF IsSequence, Elements
  <2>. HIDE DEF Elements
  <2>2. SubSeq(s, 1, 0 - 1) = <<>>
    BY <2>1
  <2>3. IsSequence(<<>>) /\ Len(<<>>) = 0
    BY DEF IsSequence
  <2>4. SubSeq(s, 1, Len(s) - 1) = <<>>
    BY <1>2, <2>2
  <2>. DEFINE t == SubSeq(s, 1, Len(s) - 1)
  <2>5. IsSequence(t) /\ Len(t) = 0
    BY <2>3, <2>4, Zenon
  <2>. HIDE DEF t
  <2>6. Len(t) <= Len(s)
    BY <1>2, <2>5
  <2>7. IsSequence(t) /\ Len(t) <= Len(s)
    BY <2>5, <2>6
  <2>. QED BY <2>7 DEF t
<1>3. CASE Len(s) # 0
  <2>1. Len(s) - 1 \in 0 .. Len(s)
    BY <1>1, <1>3
  <2>. QED BY <1>1, <2>1, Shortened
<1>. QED BY <1>2, <1>3

-----------------------------------------------------------------------------
ReadInv ==
  /\ body \in Bodies /\ InText
  /\ IsSequence(tags) /\ TagsBounded

LEMMA InitRead == Init => ReadInv
<1>. SUFFICES ASSUME Init PROVE ReadInv
  OBVIOUS
<1>1. body \in Bodies /\ pos = 1 /\ tags = <<>>
  BY DEF Init
<1>2. IsSequence(text) /\ \A p \in DOMAIN text : text[p] # "end"
  BY <1>1, TextAssumption DEF text
<1>3. InText
  BY <1>1, <1>2, SequenceLength DEF InText
<1>4. IsSequence(tags)
  BY <1>1 DEF IsSequence
<1>. QED BY <1>1, <1>3, <1>4 DEF ReadInv, TagsBounded

LEMMA NextRead == ReadInv /\ [Next]_vars => ReadInv'
<1>. SUFFICES ASSUME ReadInv, [Next]_vars PROVE ReadInv'
  OBVIOUS
<1>1. CASE Next
  <2>1. /\ body' = body /\ pos' \in pos + 1 .. Len(text) + 1
        /\ \/ tags' = tags
           \/ tags' = SubSeq(tags, 1, Len(tags) - 1)
           \/ pos' >= pos + 2 /\ \E name : tags' = Append(tags, name)
    BY <1>1, PassReads DEF ReadInv
  <2>2. /\ IsSequence(text) /\ Len(text) \in Nat /\ pos \in 1 .. Len(text) + 1
        /\ \A p \in DOMAIN text : text[p] # "end"
        /\ IsSequence(tags) /\ Len(tags) \in Nat /\ 2 * Len(tags) < pos
    BY SequenceLength DEF ReadInv, InText, TagsBounded
  <2>3. text' = text
    BY <2>1 DEF text
  <2>4. InText'
    BY <2>1, <2>2, <2>3 DEF InText, IsSequence
  <2>5. ASSUME NEW s, IsSequence(s), Len(s) \in Nat, tags' = s, 2 * Len(s) < pos'
        PROVE  IsSequence(tags)' /\ TagsBounded'
    BY <2>5 DEF IsSequence, TagsBounded
  <2>6. ASSUME tags' = tags
        PROVE  IsSequence(tags)' /\ TagsBounded'
    BY <2>1, <2>2, <2>5, <2>6
  <2>7. ASSUME tags' = SubSeq(tags, 1, Len(tags) - 1)
        PROVE  IsSequence(tags)' /\ TagsBounded'
    <3>. DEFINE s == SubSeq(tags, 1, Len(tags) - 1)
    <3>1. IsSequence(s) /\ Len(s) <= Len(tags)
      BY <2>2, Popped
    <3>. HIDE DEF s
    <3>2. Len(s) \in Nat
      BY <3>1, SequenceLength
    <3>3. 2 * Len(s) < pos'
      BY <2>1, <2>2, <3>1, <3>2
    <3>4. tags' = s
      BY <2>7 DEF s
    <3>. QED BY <2>5, <3>1, <3>2, <3>3, <3>4
  <2>8. ASSUME pos' >= pos + 2, NEW name, tags' = Append(tags, name)
        PROVE  IsSequence(tags)' /\ TagsBounded'
    <3>. DEFINE s == Append(tags, name)
    <3>1. IsSequence(s) /\ Len(s) = Len(tags) + 1
      BY <2>2, Extended
    <3>. HIDE DEF s
    <3>2. Len(s) \in Nat /\ 2 * Len(s) < pos'
      BY <2>1, <2>2, <2>8, <3>1
    <3>3. tags' = s
      BY <2>8 DEF s
    <3>. QED BY <2>5, <3>1, <3>2, <3>3
  <2>9. IsSequence(tags)' /\ TagsBounded'
    BY <2>1, <2>6, <2>7, <2>8
  <2>. QED BY <2>1, <2>4, <2>9 DEF ReadInv
<1>2. CASE UNCHANGED vars
  BY <1>2 DEF vars, ReadInv, InText, TagsBounded, text
<1>. QED BY <1>1, <1>2

(* A SOAP response of n characters, well-formed or not, takes at most n    *)
(* passes of the loop.                                                     *)
THEOREM PassesRead == Spec => [](pos \in 1 .. Len(text) + 1) /\ EachPassReads
<1>1. ReadInv => pos \in 1 .. Len(text) + 1
  BY DEF ReadInv, InText
<1>2. ReadInv /\ [Next]_vars => [pos' > pos]_vars
  <2>. SUFFICES ASSUME ReadInv, Next PROVE pos' > pos
    OBVIOUS
  <2>1. pos' \in pos + 1 .. Len(text) + 1
    BY PassReads DEF ReadInv
  <2>2. Len(text) \in Nat /\ pos \in Nat
    BY SequenceLength DEF ReadInv, InText
  <2>. QED BY <2>1, <2>2
<1>. QED BY <1>1, <1>2, InitRead, NextRead, PTL DEF Spec, EachPassReads

(* The stack of open elements is bounded by what has been read. *)
THEOREM OpenElementsBounded == Spec => []TagsBounded
<1>1. ReadInv => TagsBounded
  BY DEF ReadInv
<1>. QED BY <1>1, InitRead, NextRead, PTL DEF Spec

=============================================================================
