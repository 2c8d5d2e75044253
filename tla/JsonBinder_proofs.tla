------------------------- MODULE JsonBinder_proofs -------------------------
(***************************************************************************)
(* Theorems about JsonBinder, for all texts, whole, cut or garbled, and all*)
(* lists of bindings; and about the responses that use it, of JSON-RPC and *)
(* of GraphQL: the parser stays as shallow as the paths of the caller, and *)
(* each pass of a loop takes a reader on or returns.                       *)
(***************************************************************************)
EXTENDS JsonRpcResponse, GraphQLResponse, TextFacts

-----------------------------------------------------------------------------
(* The scans of JsonScan *)

LEMMA EndOfStringEnds ==
  ASSUME NEW s, IsSequence(s), NEW p \in 1 .. Len(s) + 1
  PROVE  EndOfString(s, p) \in p .. Len(s) + 1
<1>. DEFINE n     == Len(s) + 2
            X     == 1 .. n
            Z     == {q \in X : q > Len(s) \/ s[q] = Quote}
            value == [q \in X |-> IF q > Len(s) THEN Len(s) + 1 ELSE q + 1]
            next  == [q \in X |-> IF s[q] = Escape THEN q + 2 ELSE q + 1]
            far   == [q \in X |-> n - q]
            Eq(g) == g = [q \in 1 .. Len(s) + 2 |->
                            IF q > Len(s) THEN Len(s) + 1
                            ELSE IF s[q] = Quote THEN q + 1
                            ELSE g[IF s[q] = Escape THEN q + 2 ELSE q + 1]]
            T     == {t \in X \X X : t[2] <= Len(s) + 1 /\ (t[1] <= t[2] \/ t[1] = Len(s) + 2)}
<1>1. n \in Nat /\ Len(s) \in Nat
  BY SequenceLength
<1>2. Descends(X, Z, next, far)
  BY <1>1 DEF Descends
<1>3. ASSUME NEW g PROVE Eq(g) <=> Follows(g, X, Z, value, next)
  <2>1. \A q \in X : (IF q > Len(s) THEN Len(s) + 1
                      ELSE IF s[q] = Quote THEN q + 1
                      ELSE g[IF s[q] = Escape THEN q + 2 ELSE q + 1])
                     = IF q \in Z THEN value[q] ELSE g[next[q]]
    BY <1>1
  <2>. QED BY <2>1 DEF Follows
<1>4. PICK g : Eq(g) /\ EndOfString(s, p) = g[p]
  <2>1. \A x \in X : far[x] <= n
    BY <1>1
  <2>. HIDE DEF X, Z, next, far, value
  <2>2. \E g : Follows(g, X, Z, value, next)
    BY <1>1, <1>2, <2>1, DescentExists
  <2>3. \E g : Eq(g)
    BY <1>3, <2>2
  <2>. QED BY <2>3 DEF EndOfString
<1>5. \A x \in X \cap Z : <<x, value[x]>> \in T
  BY <1>1
<1>6. ASSUME NEW x \in X \ Z, <<next[x], g[next[x]]>> \in T
      PROVE  <<x, g[next[x]]>> \in T
  <2>. DEFINE y == next[x]
              r == g[next[x]]
  <2>1. x \in 1 .. Len(s) /\ y \in {x + 1, x + 2}
    BY <1>1
  <2>2. r \in X /\ r <= Len(s) + 1 /\ (y <= r \/ y = Len(s) + 2)
    BY <1>6
  <2>3. x <= r
    <3>1. CASE y <= r
      <4>. HIDE DEF y, r
      <4>. QED BY <1>1, <2>1, <2>2, <3>1
    <3>2. CASE y = Len(s) + 2
      <4>1. g[y] = Len(s) + 1
        BY <1>1, <1>4, <3>2
      <4>. HIDE DEF y
      <4>. QED BY <1>1, <2>1, <4>1 DEF y
    <3>. QED BY <2>2, <3>1, <3>2
  <2>. HIDE DEF r, y
  <2>4. <<x, r>> \in T
    BY <1>1, <2>1, <2>2, <2>3
  <2>. QED BY <2>4 DEF r
<1>7. Follows(g, X, Z, value, next)
  BY <1>3, <1>4
<1>8. \A x \in X : <<x, g[x]>> \in T
  <2>. HIDE DEF X, Z, next, far, value, T, Eq
  <2>. QED BY <1>2, <1>5, <1>6, <1>7, DescentHolds
<1>9. <<p, g[p]>> \in T
  BY <1>8
<1>. QED BY <1>1, <1>4, <1>9

LEMMA EndOfStringIs ==
  ASSUME NEW s, IsSequence(s)
  PROVE  \A q \in 1 .. Len(s) + 2 :
           EndOfString(s, q) = IF q > Len(s) THEN Len(s) + 1
                               ELSE IF s[q] = Quote THEN q + 1
                               ELSE EndOfString(s, IF s[q] = Escape THEN q + 2 ELSE q + 1)
<1>. DEFINE n     == Len(s) + 2
            X     == 1 .. n
            Z     == {q \in X : q > Len(s) \/ s[q] = Quote}
            value == [q \in X |-> IF q > Len(s) THEN Len(s) + 1 ELSE q + 1]
            next  == [q \in X |-> IF s[q] = Escape THEN q + 2 ELSE q + 1]
            far   == [q \in X |-> n - q]
            Eq(g) == g = [q \in 1 .. Len(s) + 2 |->
                            IF q > Len(s) THEN Len(s) + 1
                            ELSE IF s[q] = Quote THEN q + 1
                            ELSE g[IF s[q] = Escape THEN q + 2 ELSE q + 1]]
<1>1. n \in Nat /\ Len(s) \in Nat
  BY SequenceLength
<1>2. Descends(X, Z, next, far)
  BY <1>1 DEF Descends
<1>3. ASSUME NEW g PROVE Follows(g, X, Z, value, next) => Eq(g)
  <2>1. \A q \in X : (IF q > Len(s) THEN Len(s) + 1
                      ELSE IF s[q] = Quote THEN q + 1
                      ELSE g[IF s[q] = Escape THEN q + 2 ELSE q + 1])
                     = IF q \in Z THEN value[q] ELSE g[next[q]]
    BY <1>1
  <2>. QED BY <2>1 DEF Follows
<1>4. PICK g : Eq(g) /\ \A q : EndOfString(s, q) = g[q]
  <2>1. \A x \in X : far[x] <= n
    BY <1>1
  <2>. HIDE DEF X, Z, next, far, value
  <2>2. \E g : Follows(g, X, Z, value, next)
    BY <1>1, <1>2, <2>1, DescentExists
  <2>3. Eq(CHOOSE g : Eq(g))
    BY <1>3, <2>2
  <2>4. \A q : EndOfString(s, q) = (CHOOSE g : Eq(g))[q]
    BY DEF EndOfString
  <2>. QED BY <2>3, <2>4
<1>. QED BY <1>1, <1>4

LEMMA Joined ==
  ASSUME NEW S, NEW s \in Seq(S), NEW t \in Seq(S)
  PROVE  s \o t \in Seq(S) /\ Len(s \o t) = Len(s) + Len(t) /\ Len(s) \in Nat /\ Len(t) \in Nat
OBVIOUS

(* A string is not longer than what it is written as. *)
LEMMA UnescapedFits ==
  ASSUME NEW s, IsSequence(s), NEW p \in 1 .. Len(s) + 1
  PROVE  /\ IsSequence(Unescaped(s, p)) /\ Len(Unescaped(s, p)) \in Nat
         /\ Len(Unescaped(s, p)) <= EndOfString(s, p) - p
<1>. DEFINE n     == Len(s) + 2
            X     == 1 .. n
            Z     == {q \in X : At(s, q) \in {Quote, "end"} \/ (s[q] = Escape /\ q = Len(s))}
            value == [q \in X |-> <<>>]
            head  == [q \in X |-> IF s[q] # Escape THEN <<s[q]>> ELSE <<s[q + 1]>>]
            next  == [q \in X |-> IF s[q] # Escape THEN q + 1 ELSE q + 2]
            far   == [q \in X |-> n - q]
            Eq(g) == g = [q \in 1 .. Len(s) + 2 |->
                            IF At(s, q) \in {Quote, "end"} THEN <<>>
                            ELSE IF s[q] # Escape THEN <<s[q]>> \o g[q + 1]
                            ELSE IF q = Len(s) THEN <<>> ELSE <<s[q + 1]>> \o g[q + 2]]
            S     == Seq(Elements(s))
            T     == {t \in X \X S : t[1] = n \/ Len(t[2]) <= EndOfString(s, t[1]) - t[1]}
<1>1. n \in Nat /\ Len(s) \in Nat /\ DOMAIN s = 1 .. Len(s)
  BY SequenceLength
<1>2. ASSUME NEW q \in X \ Z
      PROVE  /\ q \in 1 .. Len(s) /\ s[q] # Quote
             /\ next[q] \in q + 1 .. Len(s) + 1
             /\ next[q] = IF s[q] = Escape THEN q + 2 ELSE q + 1
             /\ head[q] \in S /\ Len(head[q]) = 1
  <2>1. q \in 1 .. Len(s) /\ s[q] # Quote /\ (s[q] = Escape => q # Len(s))
    BY <1>1 DEF At
  <2>2. next[q] \in q + 1 .. Len(s) + 1 /\ next[q] = IF s[q] = Escape THEN q + 2 ELSE q + 1
    <3>1. next[q] = IF s[q] = Escape THEN q + 2 ELSE q + 1
      OBVIOUS
    <3>. DEFINE L == Len(s)
                y == next[q]
                e == s[q] = Escape
    <3>2. L \in Nat /\ q \in 1 .. L /\ (e => q # L) /\ y = IF e THEN q + 2 ELSE q + 1
      BY <1>1, <2>1, <3>1
    <3>. HIDE DEF next, X, Z, L, y, e
    <3>3. y \in q + 1 .. L + 1
      BY <3>2
    <3>. QED BY <3>1, <3>3 DEF L, y
  <2>3. s[q] \in Elements(s) /\ (s[q] = Escape => s[q + 1] \in Elements(s))
    <3>. DEFINE L == Len(s)
                e == s[q] = Escape
    <3>. HIDE DEF X, Z
    <3>1. L \in Nat /\ q \in 1 .. L /\ (e => q # L) /\ DOMAIN s = 1 .. L
      BY <1>1, <2>1
    <3>. HIDE DEF L, e
    <3>2. q \in DOMAIN s /\ (e => q + 1 \in DOMAIN s)
      BY <3>1
    <3>. QED BY <3>2 DEF Elements, e
  <2>4. head[q] = IF s[q] # Escape THEN <<s[q]>> ELSE <<s[q + 1]>>
    OBVIOUS
  <2>. HIDE DEF Z, next, head, X
  <2>5. head[q] \in S /\ Len(head[q]) = 1
    BY <2>3, <2>4
  <2>. QED BY <2>1, <2>2, <2>5
<1>3. Descends(X, Z, next, far)
  <2>1. far \in [X -> Nat]
    BY <1>1
  <2>2. ASSUME NEW q \in X \ Z PROVE next[q] \in X /\ far[next[q]] < far[q]
    <3>1. next[q] \in q + 1 .. Len(s) + 1 /\ q \in 1 .. Len(s)
      BY <1>2
    <3>. HIDE DEF next, Z
    <3>. QED BY <1>1, <3>1
  <2>. QED BY <2>1, <2>2 DEF Descends
<1>4. ASSUME NEW g PROVE Eq(g) <=> Collects(g, X, Z, value, head, next)
  <2>1. ASSUME NEW q \in X
        PROVE  (IF At(s, q) \in {Quote, "end"} THEN <<>>
                ELSE IF s[q] # Escape THEN <<s[q]>> \o g[q + 1]
                ELSE IF q = Len(s) THEN <<>> ELSE <<s[q + 1]>> \o g[q + 2])
               = IF q \in Z THEN value[q] ELSE head[q] \o g[next[q]]
    OBVIOUS
  <2>2. X = 1 .. Len(s) + 2
    OBVIOUS
  <2>. HIDE DEF Z, value, head, next
  <2>. QED BY <2>1, <2>2 DEF Collects
<1>5. PICK g : Eq(g) /\ Unescaped(s, p) = g[p]
  <2>1. \A x \in X : far[x] <= n
    BY <1>1
  <2>. HIDE DEF X, Z, next, far, value, head
  <2>2. \E g : Collects(g, X, Z, value, head, next)
    BY <1>1, <1>3, <2>1, CollectExists
  <2>3. Eq(CHOOSE g : Eq(g))
    BY <1>4, <2>2
  <2>4. Unescaped(s, p) = (CHOOSE g : Eq(g))[p]
    BY DEF Unescaped
  <2>. QED BY <2>3, <2>4
<1>6. ASSUME NEW x \in X \cap Z PROVE <<x, value[x]>> \in T
  <2>1. value[x] = <<>>
    OBVIOUS
  <2>2. <<>> \in S /\ Len(<<>>) = 0
    OBVIOUS
  <2>3. x = n \/ EndOfString(s, x) - x >= 0
    <3>1. CASE x \in 1 .. Len(s) + 1
      <4>1. EndOfString(s, x) \in x .. Len(s) + 1
        BY <3>1, EndOfStringEnds
      <4>. DEFINE e == EndOfString(s, x)
                  L == Len(s)
      <4>2. L \in Nat /\ x \in 1 .. L + 1 /\ e \in x .. L + 1
        BY <1>1, <3>1, <4>1
      <4>. HIDE DEF X, Z, e, L
      <4>3. e - x >= 0
        BY <4>2
      <4>. QED BY <4>3 DEF e
    <3>2. CASE x \notin 1 .. Len(s) + 1
      <4>. DEFINE L == Len(s)
      <4>1. L \in Nat /\ x \in 1 .. L + 2 /\ x \notin 1 .. L + 1
        BY <1>1, <3>2
      <4>. HIDE DEF X, Z, L
      <4>2. x = L + 2
        BY <4>1
      <4>. QED BY <4>2 DEF L
    <3>. QED BY <3>1, <3>2
  <2>. HIDE DEF value, S
  <2>. QED BY <2>1, <2>2, <2>3
<1>7. ASSUME NEW x \in X \ Z, <<next[x], g[next[x]]>> \in T
      PROVE  <<x, head[x] \o g[next[x]]>> \in T
  <2>. DEFINE y == next[x]
              h == head[x]
              r == g[next[x]]
  <2>1. /\ x \in 1 .. Len(s) /\ s[x] # Quote /\ y \in x + 1 .. Len(s) + 1
        /\ y = (IF s[x] = Escape THEN x + 2 ELSE x + 1) /\ h \in S /\ Len(h) = 1
    BY <1>2
  <2>2. r \in S /\ (y = n \/ Len(r) <= EndOfString(s, y) - y)
    BY <1>7
  <2>. HIDE DEF y, h, r, X, Z, T, value, head, next, Eq
  <2>3. EndOfString(s, x) = EndOfString(s, y)
    <3>1. x \in 1 .. Len(s) + 2 /\ ~(x > Len(s))
      BY <1>1, <2>1
    <3>. QED BY <2>1, <3>1, EndOfStringIs
  <2>4. h \o r \in S /\ Len(h \o r) = 1 + Len(r) /\ Len(r) \in Nat
    <3>. DEFINE E == Elements(s)
    <3>1. h \in Seq(E) /\ r \in Seq(E) /\ Len(h) = 1
      BY <2>1, <2>2
    <3>. HIDE DEF E
    <3>2. h \o r \in Seq(E) /\ Len(h \o r) = Len(h) + Len(r) /\ Len(r) \in Nat
      BY <3>1, Joined
    <3>. QED BY <3>1, <3>2 DEF E
  <2>5. EndOfString(s, y) \in Nat
    <3>1. y \in 1 .. Len(s) + 1
      BY <1>1, <2>1
    <3>2. EndOfString(s, y) \in y .. Len(s) + 1
      BY <3>1, EndOfStringEnds
    <3>. QED BY <1>1, <3>1, <3>2
  <2>6. Len(h \o r) <= EndOfString(s, x) - x
    BY <1>1, <2>1, <2>2, <2>3, <2>4, <2>5
  <2>7. <<x, h \o r>> \in T
    <3>1. x \in X
      OBVIOUS
    <3>. HIDE DEF S
    <3>. QED BY <2>4, <2>6, <3>1 DEF T
  <2>. QED BY <2>7 DEF h, r
<1>8. Collects(g, X, Z, value, head, next)
  BY <1>4, <1>5
<1>9. \A x \in X : <<x, g[x]>> \in T
  <2>1. Grows(g, X, Z, head, next, T)
    BY <1>7 DEF Grows
  <2>2. \A x \in X \cap Z : <<x, value[x]>> \in T
    BY <1>6
  <2>. HIDE DEF X, Z, next, far, value, head, T, Eq
  <2>. QED BY <1>3, <1>8, <2>1, <2>2, CollectHolds
<1>10. g[p] \in S /\ Len(g[p]) <= EndOfString(s, p) - p
  <2>1. <<p, g[p]>> \in T /\ p # n
    BY <1>1, <1>9
  <2>. QED BY <2>1
<1>11. Unescaped(s, p) \in Seq(Elements(Unescaped(s, p))) /\ Len(Unescaped(s, p)) \in Nat
  <2>. DEFINE u == Unescaped(s, p)
  <2>1. u \in Seq(Elements(s))
    BY <1>5, <1>10
  <2>. HIDE DEF u, X, Z, next, far, value, head, T, Eq
  <2>2. u \in Seq(Elements(u)) /\ Len(u) \in Nat
    BY <2>1 DEF Elements
  <2>. QED BY <2>2 DEF u
<1>. QED BY <1>5, <1>10, <1>11 DEF IsSequence, Elements

LEMMA EndOfNestedEnds ==
  ASSUME NEW s, IsSequence(s), NEW p \in 1 .. Len(s) + 1, NEW open, NEW close
  PROVE  EndOfNested(s, p, open, close) \in p .. Len(s) + 1
<1>. DEFINE n     == Len(s) + 1
            X     == (1 .. n) \X Nat
            Z     == {x \in X : x[2] = 0 \/ x[1] > Len(s)}
            value == [x \in X |-> x[1]]
            next  == [x \in X |->
                        IF s[x[1]] = Quote THEN <<EndOfString(s, x[1] + 1), x[2]>>
                        ELSE <<x[1] + 1, IF s[x[1]] \in open THEN x[2] + 1
                                         ELSE IF s[x[1]] \in close THEN x[2] - 1 ELSE x[2]>>]
            far   == [x \in X |-> n - x[1]]
            Eq(g) == g = [x \in (1 .. Len(s) + 1) \X Nat |->
                            LET q == x[1]
                                depth == x[2]
                            IN  IF depth = 0 \/ q > Len(s) THEN q
                                ELSE IF s[q] = Quote THEN g[<<EndOfString(s, q + 1), depth>>]
                                ELSE g[<<q + 1, IF s[q] \in open THEN depth + 1
                                                ELSE IF s[q] \in close THEN depth - 1
                                                ELSE depth>>]]
            T     == {t \in X \X (1 .. n) : t[1][1] <= t[2]}
<1>1. n \in Nat /\ Len(s) \in Nat
  BY SequenceLength
<1>2. ASSUME NEW x \in X \ Z
      PROVE  \E r \in x[1] + 1 .. n, e \in Nat : next[x] = <<r, e>>
  <2>1. PICK q \in 1 .. Len(s), d \in Nat : d > 0 /\ x = <<q, d>>
    BY <1>1
  <2>2. q + 1 \in 1 .. Len(s) + 1
    BY <1>1
  <2>3. EndOfString(s, q + 1) \in q + 1 .. n
    BY <2>2, EndOfStringEnds
  <2>. QED BY <1>1, <2>1, <2>3
<1>3. Descends(X, Z, next, far)
  <2>1. far \in [X -> Nat]
    BY <1>1
  <2>2. ASSUME NEW x \in X \ Z PROVE next[x] \in X /\ far[next[x]] < far[x]
    <3>1. PICK r \in x[1] + 1 .. n, e \in Nat : next[x] = <<r, e>>
      BY <1>2
    <3>. HIDE DEF next, Z
    <3>. QED BY <1>1, <3>1
  <2>. QED BY <2>1, <2>2 DEF Descends
<1>4. ASSUME NEW g PROVE Eq(g) <=> Follows(g, X, Z, value, next)
  <2>1. \A x \in X : (LET q == x[1]
                                depth == x[2]
                            IN  IF depth = 0 \/ q > Len(s) THEN q
                                ELSE IF s[q] = Quote THEN g[<<EndOfString(s, q + 1), depth>>]
                                ELSE g[<<q + 1, IF s[q] \in open THEN depth + 1
                                                ELSE IF s[q] \in close THEN depth - 1
                                                ELSE depth>>])
                     = IF x \in Z THEN value[x] ELSE g[next[x]]
    BY <1>1
  <2>. QED BY <2>1 DEF Follows
<1>5. PICK g : Eq(g) /\ EndOfNested(s, p, open, close) = g[<<p, 1>>]
  <2>1. \A x \in X : far[x] <= n
    BY <1>1
  <2>. HIDE DEF X, Z, next, far, value
  <2>2. \E g : Follows(g, X, Z, value, next)
    BY <1>1, <1>3, <2>1, DescentExists
  <2>3. \E g : Eq(g)
    BY <1>4, <2>2
  <2>. QED BY <2>3 DEF EndOfNested
<1>6. \A x \in X \cap Z : <<x, value[x]>> \in T
  BY <1>1
<1>7. ASSUME NEW x \in X \ Z, <<next[x], g[next[x]]>> \in T
      PROVE  <<x, g[next[x]]>> \in T
  <2>1. PICK r \in x[1] + 1 .. n, e \in Nat : next[x] = <<r, e>>
    BY <1>2
  <2>2. g[next[x]] \in 1 .. n /\ r <= g[next[x]] /\ x \in X
    BY <1>7, <2>1
  <2>. HIDE DEF next, Z
  <2>. QED BY <1>1, <2>2
<1>8. Follows(g, X, Z, value, next)
  BY <1>4, <1>5
<1>9. \A x \in X : <<x, g[x]>> \in T
  <2>. HIDE DEF X, Z, next, far, value, T, Eq
  <2>. QED BY <1>3, <1>6, <1>7, <1>8, DescentHolds
<1>10. <<<<p, 1>>, g[<<p, 1>>]>> \in T
  BY <1>9
<1>11. g[<<p, 1>>] \in p .. n
  BY <1>1, <1>10
<1>. QED BY <1>5, <1>11

LEMMA SkipBlankEnds ==
  ASSUME NEW s, IsSequence(s), NEW p \in 1 .. Len(s) + 1
  PROVE  /\ SkipBlank(s, p) \in p .. Len(s) + 1
         /\ At(s, SkipBlank(s, p)) \notin Blank
<1>1. "end" \notin Blank
  BY DEF Blank
<1>. QED BY <1>1, FirstNotInEnds DEF SkipBlank

LEMMA AfterCommaEnds ==
  ASSUME NEW s, IsSequence(s), NEW p \in 1 .. Len(s) + 1
  PROVE  /\ AfterComma(s, p) \in p .. Len(s) + 1
         /\ At(s, p) = "," => AfterComma(s, p) > p
<1>1. Len(s) \in Nat
  BY SequenceLength
<1>2. PICK q \in p .. Len(s) + 1 : q = SkipBlank(s, p)
  BY SkipBlankEnds
<1>3. AfterComma(s, p) = IF At(s, q) = "," THEN q + 1 ELSE q
  BY <1>2 DEF AfterComma
<1>4. q \in 1 .. Len(s) + 1
  BY <1>1
<1>5. At(s, q) = "," => q + 1 \in 1 .. Len(s) + 1
  BY <1>4, Within
<1>6. CASE At(s, q) = ","
  <2>1. AfterComma(s, p) = q + 1
    BY <1>3, <1>6
  <2>2. q + 1 \in 1 .. Len(s) + 1
    BY <1>5, <1>6
  <2>3. q + 1 \in p .. Len(s) + 1 /\ q + 1 > p
    BY <1>1, <2>2
  <2>. QED BY <2>1, <2>3
<1>7. CASE At(s, q) # ","
  <2>1. AfterComma(s, p) = q
    BY <1>3, <1>7
  <2>2. At(s, p) = "," => q # p
    BY <1>7
  <2>3. q # p => q > p
    BY <1>1
  <2>. QED BY <2>1, <2>2, <2>3
<1>. QED BY <1>6, <1>7

LEMMA EndOfRawEnds ==
  ASSUME NEW s, IsSequence(s), NEW p \in 1 .. Len(s)
  PROVE  EndOfRaw(s, p) \in p + 1 .. Len(s) + 1
<1>1. p + 1 \in 1 .. Len(s) + 1
  BY SequenceLength
<1>. QED BY <1>1, EndOfNestedEnds DEF EndOfRaw

(* What readers of a primitive can be at without reading anything. *)
LEMMA PrimitiveEnds ==
  ASSUME NEW s, IsSequence(s), NEW p \in 1 .. Len(s) + 1
  PROVE  /\ PrimitiveEnd(s, p) \in p .. Len(s) + 1
         /\ PrimitiveEnd(s, p) = p => ~IsWord(At(s, p)) /\ At(s, p) \notin Numeric \cup {Quote}
<1>1. "end" \notin Letters /\ "end" \notin Numeric
  BY DEF Letters, Numeric, Digits
<1>2. CASE IsWord(At(s, p))
  <2>1. At(s, p) \in Letters
    BY <1>2 DEF IsWord, Letters
  <2>2. /\ FirstNotIn(s, p, Letters) \in p .. Len(s) + 1
        /\ At(s, FirstNotIn(s, p, Letters)) \notin Letters
    BY <1>1, FirstNotInEnds
  <2>. QED BY <1>2, <2>1, <2>2 DEF PrimitiveEnd
<1>3. CASE ~IsWord(At(s, p)) /\ At(s, p) = Quote
  <2>1. p + 1 \in 1 .. Len(s) + 1
    BY <1>3, Within DEF Quote
  <2>2. EndOfString(s, p + 1) \in p + 1 .. Len(s) + 1
    BY <2>1, EndOfStringEnds
  <2>. QED BY <1>3, <2>2, SequenceLength DEF PrimitiveEnd
<1>4. CASE ~IsWord(At(s, p)) /\ At(s, p) # Quote
  <2>1. /\ FirstNotIn(s, p, Numeric) \in p .. Len(s) + 1
        /\ At(s, FirstNotIn(s, p, Numeric)) \notin Numeric
    BY <1>1, FirstNotInEnds
  <2>. QED BY <1>4, <2>1 DEF PrimitiveEnd
<1>. QED BY <1>2, <1>3, <1>4

(* A value is skipped unless there is none. *)
LEMMA EndOfValueEnds ==
  ASSUME NEW s, IsSequence(s), NEW p \in 1 .. Len(s) + 1
  PROVE  /\ EndOfValue(s, p) \in p .. Len(s) + 1
         /\ EndOfValue(s, p) = p => At(s, p) \in {",", "end"} \cup Closing
<1>. DEFINE v == SkipBlank(s, p)
            c == At(s, v)
            C == {","} \cup Closing \cup Blank
<1>1. v \in p .. Len(s) + 1 /\ c \notin Blank /\ Len(s) \in Nat
  BY SkipBlankEnds, SequenceLength
<1>2. v \in 1 .. Len(s) + 1
  BY <1>1
<1>3. EndOfValue(s, p) = IF c \in Opening THEN EndOfNested(s, v + 1, {c}, {ClosingOf(c)})
                         ELSE IF c = Quote THEN EndOfString(s, v + 1)
                         ELSE FirstIn(s, v, C)
  BY DEF EndOfValue
<1>4. CASE c \in Opening \cup {Quote}
  <2>1. v + 1 \in 1 .. Len(s) + 1
    BY <1>2, <1>4, Within DEF Opening, Quote
  <2>2. EndOfNested(s, v + 1, {c}, {ClosingOf(c)}) \in v + 1 .. Len(s) + 1
    BY <2>1, EndOfNestedEnds
  <2>3. EndOfString(s, v + 1) \in v + 1 .. Len(s) + 1
    BY <2>1, EndOfStringEnds
  <2>. HIDE DEF v, c
  <2>4. EndOfValue(s, p) \in v + 1 .. Len(s) + 1
    BY <1>3, <1>4, <2>2, <2>3
  <2>5. EndOfValue(s, p) \in p .. Len(s) + 1
    BY <1>1, <2>4
  <2>6. EndOfValue(s, p) # p
    BY <1>1, <2>4
  <2>. QED BY <2>5, <2>6
<1>5. CASE c \notin Opening \cup {Quote}
  <2>1. FirstIn(s, v, C) \in v .. Len(s) + 1 /\ At(s, FirstIn(s, v, C)) \in C \cup {"end"}
    BY <1>2, FirstInEnds
  <2>2. EndOfValue(s, p) = FirstIn(s, v, C)
    BY <1>3, <1>5
  <2>. HIDE DEF v, C, c
  <2>3. EndOfValue(s, p) \in v .. Len(s) + 1
    BY <2>1, <2>2
  <2>4. EndOfValue(s, p) \in p .. Len(s) + 1
    BY <1>1, <2>3
  <2>5. ASSUME EndOfValue(s, p) = p PROVE At(s, p) \in {",", "end"} \cup Closing
    <3>1. v = p
      BY <1>1, <2>3, <2>5
    <3>2. At(s, p) \in C \cup {"end"}
      BY <2>1, <2>2, <2>5
    <3>. QED BY <1>1, <3>1, <3>2 DEF C, c
  <2>. QED BY <2>4, <2>5
<1>. QED BY <1>4, <1>5

-----------------------------------------------------------------------------
(* The calls in progress.  The outermost one parses what a path of n names *)
(* is of, and each of the others what a path of one name more is of, which *)
(* something that is bound is below.                                       *)
Calls(n) ==
  /\ IsSequence(stack)
  /\ \A k \in DOMAIN stack :
       /\ {"kind", "path"} \subseteq DOMAIN stack[k]
       /\ stack[k].kind \in {"obj", "arr"}
       /\ IsSequence(stack[k].path) /\ Len(stack[k].path) = n + k - 1
       /\ k # 1 => \E j \in DOMAIN bindings : Len(bindings[j].key) >= n + k

(* Bindings as the caller's are. *)
Keyed(list) == \A j \in DOMAIN list : IsSequence(list[j].key)

LEMMA ListsKeyed ==
  ASSUME NEW list \in BindingLists
  PROVE  Keyed(list)
BY BindingAssumption DEF Keyed

LEMMA CountedKeeps ==
  ASSUME NEW frames, IsSequence(frames), frames # <<>>,
         \A k \in DOMAIN frames : {"kind", "path"} \subseteq DOMAIN frames[k]
  PROVE  /\ IsSequence(Counted(frames)) /\ Len(Counted(frames)) = Len(frames)
         /\ DOMAIN Counted(frames) = DOMAIN frames
         /\ \A k \in DOMAIN frames :
              /\ Counted(frames)[k].kind = frames[k].kind /\ Counted(frames)[k].path = frames[k].path
              /\ DOMAIN Counted(frames)[k] = DOMAIN frames[k]
<1>. DEFINE t   == Len(frames)
            top == [frames[t] EXCEPT !.index = IF frames[t].kind = "arr" THEN @ + 1 ELSE @]
            new == [frames EXCEPT ![t] = top]
<1>1. t \in Nat /\ DOMAIN frames = 1 .. t /\ t # 0
  BY SequenceLength
<1>2. t \in DOMAIN frames
  BY <1>1
<1>3. Counted(frames) = new
  BY DEF Counted
<1>4. top.kind = frames[t].kind /\ top.path = frames[t].path /\ DOMAIN top = DOMAIN frames[t]
  BY <1>2
<1>. HIDE DEF top
<1>5. /\ IsSequence(new) /\ DOMAIN new = DOMAIN frames /\ new[t] = top
      /\ \A k \in DOMAIN frames : k # t => new[k] = frames[k]
  BY <1>1, <1>2, Exchanged
<1>. HIDE DEF new
<1>6. Len(new) = t
  <2>1. Len(new) \in Nat /\ DOMAIN new = 1 .. Len(new)
    BY <1>5, SequenceLength
  <2>. QED BY <1>1, <1>5, <2>1
<1>. QED BY <1>3, <1>4, <1>5, <1>6

(* What is left of the calls stays as it is. *)
LEMMA CallsKept ==
  ASSUME NEW n \in Nat, Calls(n), NEW frames, stack' = frames, bindings' = bindings,
         IsSequence(frames), DOMAIN frames \subseteq DOMAIN stack,
         \A k \in DOMAIN frames :
           /\ frames[k].kind = stack[k].kind /\ frames[k].path = stack[k].path
           /\ DOMAIN frames[k] = DOMAIN stack[k]
  PROVE  Calls(n)'
<1>1. IsSequence(stack')
  BY DEF IsSequence
<1>2. ASSUME NEW k \in DOMAIN stack'
      PROVE  /\ {"kind", "path"} \subseteq DOMAIN stack'[k]
             /\ stack'[k].kind \in {"obj", "arr"}
             /\ IsSequence(stack'[k].path) /\ Len(stack'[k].path) = n + k - 1
             /\ k # 1 => \E j \in DOMAIN bindings : Len(bindings[j].key) >= n + k
  <2>1. /\ k \in DOMAIN stack /\ DOMAIN stack'[k] = DOMAIN stack[k]
        /\ stack'[k].kind = stack[k].kind /\ stack'[k].path = stack[k].path
    OBVIOUS
  <2>2. IsSequence(stack[k].path)
    BY <2>1 DEF Calls
  <2>3. IsSequence(stack'[k].path)
    BY <2>1, <2>2, Zenon
  <2>. QED BY <2>1, <2>3 DEF Calls
<1>. QED BY <1>1, <1>2 DEF Calls

LEMMA CallsCounted ==
  ASSUME NEW n \in Nat, Calls(n), stack # <<>>, stack' = Counted(stack), bindings' = bindings
  PROVE  Calls(n)' /\ Len(stack') = Len(stack)
<1>1. IsSequence(stack) /\ \A k \in DOMAIN stack : {"kind", "path"} \subseteq DOMAIN stack[k]
  BY DEF Calls
<1>. QED BY <1>1, CountedKeeps, CallsKept

(* A call of its own for what is found at a path. *)
LEMMA CallsEntered ==
  ASSUME NEW n \in Nat, NEW kind \in {"obj", "arr"}, NEW path, IsSequence(path), Len(path) = n,
         stack' = <<Frame(kind, path)>>
  PROVE  Calls(n)'
<1>. DEFINE frame == [kind |-> kind, path |-> path, index |-> 0]
<1>1. stack' = <<frame>>
  BY DEF Frame
<1>2. /\ {"kind", "path"} \subseteq DOMAIN frame
      /\ frame.kind = kind /\ frame.path = path
  OBVIOUS
<1>. HIDE DEF frame
<1>3. <<frame>> \in Seq({<<frame>>[i] : i \in DOMAIN <<frame>>})
  OBVIOUS
<1>4. IsSequence(stack')
  BY <1>1, <1>3 DEF IsSequence
<1>5. DOMAIN stack' = {1} /\ stack'[1] = frame
  BY <1>1
<1>6. IsSequence(stack'[1].path)
  BY <1>2, <1>5 DEF IsSequence
<1>. QED BY <1>2, <1>4, <1>5, <1>6 DEF Calls

(* The path of the value that this pass of the loop finds. *)
LEMMA ValuePathLength ==
  ASSUME NEW n \in Nat, Calls(n), stack # <<>>
  PROVE  /\ IsSequence(ValuePath) /\ Len(ValuePath) = n + Len(stack)
         /\ Len(stack) \in DOMAIN stack /\ Top.kind \in {"obj", "arr"}
<1>1. IsSequence(stack) /\ Len(stack) \in Nat /\ DOMAIN stack = 1 .. Len(stack) /\ Len(stack) # 0
  BY SequenceLength DEF Calls
<1>2. Len(stack) \in DOMAIN stack
  BY <1>1
<1>3. IsSequence(Top.path) /\ Len(Top.path) = n + Len(stack) - 1
  BY <1>2 DEF Calls, Top
<1>4. PICK name : ValuePath = Append(Top.path, name)
  BY DEF ValuePath
<1>5. IsSequence(Append(Top.path, name)) /\ Len(Append(Top.path, name)) = Len(Top.path) + 1
  BY <1>3, Extended
<1>6. IsSequence(ValuePath)
  BY <1>4, <1>5 DEF IsSequence
<1>7. Top.kind \in {"obj", "arr"}
  BY <1>2 DEF Calls, Top
<1>. QED BY <1>1, <1>2, <1>3, <1>4, <1>5, <1>6, <1>7

(* A call within another one is made for what is on the way to a binding.  *)
LEMMA CallsDeeper ==
  ASSUME NEW n \in Nat, Calls(n), Keyed(bindings), Descend
  PROVE  Calls(n)'
<1>. DEFINE t     == Len(stack)
            frame == Frame(KindOf(At(text, ValuePos)), ValuePath)
            new   == Append(stack, frame)
<1>1. /\ stack # <<>> /\ HasChild(ValuePath)
      /\ stack' = new /\ bindings' = bindings
  BY DEF Descend, Active
<1>2. /\ t \in DOMAIN stack /\ IsSequence(stack) /\ t \in Nat /\ DOMAIN stack = 1 .. t
      /\ IsSequence(ValuePath) /\ Len(ValuePath) = n + t
  BY <1>1, ValuePathLength, SequenceLength DEF Calls
<1>3. /\ {"kind", "path"} \subseteq DOMAIN frame
      /\ frame.kind \in {"obj", "arr"} /\ frame.path = ValuePath
  BY DEF Frame, KindOf
<1>4. PICK j \in DOMAIN bindings : Len(bindings[j].key) >= n + t + 1
  <2>1. PICK j \in DOMAIN bindings : Len(bindings[j].key) > Len(ValuePath)
    BY <1>1 DEF HasChild, Below
  <2>2. Len(bindings[j].key) \in Nat
    BY SequenceLength DEF Keyed
  <2>. QED BY <1>2, <2>1, <2>2
<1>. HIDE DEF frame
<1>5. /\ IsSequence(new) /\ DOMAIN new = 1 .. t + 1 /\ new[t + 1] = frame
      /\ \A k \in DOMAIN stack : new[k] = stack[k]
  BY <1>2, Extended
<1>. HIDE DEF new
<1>6. IsSequence(stack')
  BY <1>1, <1>5 DEF IsSequence
<1>7. ASSUME NEW k \in DOMAIN stack'
      PROVE  /\ {"kind", "path"} \subseteq DOMAIN stack'[k]
             /\ stack'[k].kind \in {"obj", "arr"}
             /\ IsSequence(stack'[k].path) /\ Len(stack'[k].path) = n + k - 1
             /\ k # 1 => \E i \in DOMAIN bindings : Len(bindings[i].key) >= n + k
  <2>1. CASE k \in DOMAIN stack
    <3>1. stack'[k] = stack[k]
      BY <1>1, <1>5, <2>1
    <3>2. IsSequence(stack'[k].path)
      BY <2>1, <3>1 DEF Calls, IsSequence
    <3>. QED BY <2>1, <3>1, <3>2 DEF Calls
  <2>2. CASE k \notin DOMAIN stack
    <3>1. k = t + 1 /\ stack'[k] = frame
      BY <1>1, <1>2, <1>5, <2>2
    <3>2. IsSequence(stack'[k].path)
      BY <1>2, <1>3, <3>1 DEF IsSequence
    <3>. QED BY <1>2, <1>3, <1>4, <3>1, <3>2
  <2>. QED BY <2>1, <2>2
<1>. QED BY <1>1, <1>6, <1>7 DEF Calls

(* A call returns. *)
LEMMA CallsReturned ==
  ASSUME NEW n \in Nat, Calls(n), Close
  PROVE  Calls(n)' /\ Len(stack') = Len(stack) - 1
<1>. DEFINE t    == Len(stack)
            outer == SubSeq(stack, 1, t - 1)
<1>1. stack # <<>> /\ bindings' = bindings /\ stack' = IF outer = <<>> THEN <<>> ELSE Counted(outer)
  BY DEF Close, Active
<1>2. IsSequence(stack) /\ t \in Nat /\ DOMAIN stack = 1 .. t /\ t # 0
  BY <1>1, SequenceLength DEF Calls
<1>3. /\ IsSequence(outer) /\ Len(outer) = t - 1 /\ DOMAIN outer = 1 .. t - 1
      /\ \A k \in 1 .. t - 1 : outer[k] = stack[k]
  BY <1>2, Shortened
<1>. HIDE DEF outer
<1>4. CASE outer = <<>>
  <2>1. stack' = outer
    BY <1>1, <1>4
  <2>2. Calls(n)'
    BY <1>1, <1>2, <1>3, <2>1, CallsKept
  <2>. QED BY <1>3, <2>1, <2>2
<1>5. CASE outer # <<>>
  <2>1. stack' = Counted(outer)
    BY <1>1, <1>5
  <2>2. \A k \in DOMAIN outer : k \in DOMAIN stack /\ {"kind", "path"} \subseteq DOMAIN outer[k]
    BY <1>2, <1>3 DEF Calls
  <2>3. /\ IsSequence(Counted(outer)) /\ Len(Counted(outer)) = Len(outer)
        /\ DOMAIN Counted(outer) = DOMAIN outer
        /\ \A k \in DOMAIN outer :
             /\ Counted(outer)[k].kind = outer[k].kind /\ Counted(outer)[k].path = outer[k].path
             /\ DOMAIN Counted(outer)[k] = DOMAIN outer[k]
    BY <1>3, <1>5, <2>2, CountedKeeps
  <2>4. Calls(n)'
    BY <1>1, <1>3, <2>1, <2>2, <2>3, CallsKept
  <2>. QED BY <1>3, <2>1, <2>3, <2>4
<1>. QED BY <1>4, <1>5

(* What the parser does once it has been called. *)
Parse == Capture \/ Descend \/ Bind \/ Skip \/ Garbled \/ Close

LEMMA ParseKeepsCalls ==
  ASSUME NEW n \in Nat, Calls(n), Keyed(bindings), Parse
  PROVE  Calls(n)' /\ bindings' = bindings
<1>1. bindings' = bindings /\ stack # <<>>
  BY DEF Parse, Capture, Descend, Bind, Skip, Garbled, Close, Active
<1>2. CASE Capture \/ Bind \/ Skip
  <2>1. stack' = Counted(stack)
    BY <1>2 DEF Capture, Bind, Skip, Pass
  <2>. QED BY <1>1, <2>1, CallsCounted
<1>3. CASE Descend
  BY <1>1, <1>3, CallsDeeper
<1>4. CASE Garbled
  <2>1. stack' = stack
    BY <1>4 DEF Garbled
  <2>. QED BY <1>1, <2>1 DEF Calls
<1>5. CASE Close
  BY <1>1, <1>5, CallsReturned
<1>. QED BY <1>2, <1>3, <1>4, <1>5 DEF Parse

LEMMA CallsBounded ==
  ASSUME NEW n \in Nat, Calls(n), Keyed(bindings)
  PROVE  RecursionBounded
<1>. DEFINE t == Len(stack)
<1>1. t \in Nat /\ DOMAIN stack = 1 .. t
  BY SequenceLength DEF Calls
<1>2. ASSUME t > 1 PROVE \E j \in DOMAIN bindings : t <= Len(bindings[j].key)
  <2>1. t \in DOMAIN stack /\ t # 1
    BY <1>1, <1>2
  <2>2. PICK j \in DOMAIN bindings : Len(bindings[j].key) >= n + t
    BY <2>1 DEF Calls
  <2>3. Len(bindings[j].key) \in Nat
    BY SequenceLength DEF Keyed
  <2>. QED BY <1>1, <2>2, <2>3
<1>. QED BY <1>1, <1>2 DEF RecursionBounded

-----------------------------------------------------------------------------
(* The parser on its own *)

CallsInv == bindings \in BindingLists /\ Calls(0)

LEMMA EmptyPath == IsSequence(<<>>) /\ Len(<<>>) = 0
BY DEF IsSequence

LEMMA InitCalls == Init => CallsInv
<1>. SUFFICES ASSUME Init PROVE CallsInv
  OBVIOUS
<1>1. stack = <<>> /\ bindings \in BindingLists
  BY DEF Init
<1>2. IsSequence(stack)
  BY <1>1, EmptyPath
<1>. QED BY <1>1, <1>2 DEF CallsInv, Calls

LEMMA NextCalls == CallsInv /\ [Next]_vars => CallsInv'
<1>. SUFFICES ASSUME CallsInv, [Next]_vars PROVE CallsInv'
  OBVIOUS
<1>1. CASE Start
  <2>1. bindings' = bindings
    BY <1>1 DEF Start
  <2>2. CASE stack' = stack
    BY <2>1, <2>2 DEF CallsInv, Calls
  <2>3. CASE stack' # stack
    <3>1. PICK kind \in {"obj", "arr"} : stack' = <<Frame(kind, <<>>)>>
      BY <1>1, <2>3 DEF Start, KindOf
    <3>2. Calls(0)'
      BY <3>1, EmptyPath, CallsEntered
    <3>. QED BY <2>1, <3>2 DEF CallsInv
  <2>. QED BY <2>2, <2>3
<1>2. CASE Parse
  <2>1. Calls(0)' /\ bindings' = bindings
    BY <1>2, ParseKeepsCalls, ListsKeyed DEF CallsInv
  <2>. QED BY <2>1 DEF CallsInv
<1>3. CASE UNCHANGED vars
  BY <1>3 DEF CallsInv, Calls, vars
<1>. QED BY <1>1, <1>2, <1>3 DEF Next, Parse

(* The parser needs no more of the task's stack than the caller's paths ask*)
(* for, however deep the JSON is nested.                                   *)
THEOREM StackBounded == Spec => []RecursionBounded
<1>1. CallsInv => RecursionBounded
  BY CallsBounded, ListsKeyed DEF CallsInv
<1>. QED BY <1>1, InitCalls, NextCalls, PTL DEF Spec

-----------------------------------------------------------------------------
(* The parser within a JSON-RPC response, where it starts at the result *)

RpcCallsInv == bindings \in BindingLists /\ Calls(1)

LEMMA InitRpcCalls == RpcInit => RpcCallsInv
<1>. SUFFICES ASSUME RpcInit PROVE RpcCallsInv
  OBVIOUS
<1>1. stack = <<>> /\ bindings \in BindingLists
  BY DEF RpcInit, Init
<1>2. IsSequence(stack)
  BY <1>1, EmptyPath
<1>. QED BY <1>1, <1>2 DEF RpcCallsInv, Calls

LEMMA NextRpcCalls == RpcCallsInv /\ [RpcNext]_rpcVars => RpcCallsInv'
<1>. SUFFICES ASSUME RpcCallsInv, [RpcNext]_rpcVars PROVE RpcCallsInv'
  OBVIOUS
<1>1. CASE UNCHANGED <<bindings, stack>>
  BY <1>1 DEF RpcCallsInv, Calls
<1>2. CASE ApplyInside
  <2>1. PICK kind \in {"obj", "arr"} : stack' = <<Frame(kind, ResultPath)>>
    BY <1>2 DEF ApplyInside, KindOf
  <2>2. IsSequence(ResultPath) /\ Len(ResultPath) = 1
    BY DEF IsSequence, ResultPath
  <2>3. Calls(1)'
    BY <2>1, <2>2, CallsEntered
  <2>. QED BY <1>2, <2>3 DEF ApplyInside, RpcCallsInv
<1>3. CASE BindInside
  <2>1. Parse
    BY <1>3 DEF BindInside, Parse
  <2>2. Calls(1)' /\ bindings' = bindings
    BY <2>1, ParseKeepsCalls, ListsKeyed DEF RpcCallsInv
  <2>. QED BY <2>2 DEF RpcCallsInv
<1>4. CASE Respond \/ Version \/ Id \/ Error \/ ErrorMember \/ SkipMember \/ PassOver \/ EndObject
  <2>1. KeepBinder
    BY <1>4 DEF Respond, Version, Id, Error, ErrorMember, SkipMember, PassOver, EndObject
  <2>. QED BY <1>1, <2>1 DEF KeepBinder
<1>5. CASE Result \/ ApplyRaw \/ ApplyPrimitive \/ BindingReturns \/ UNCHANGED rpcVars
  BY <1>1, <1>5 DEF Result, ApplyRaw, ApplyPrimitive, BindingReturns, rpcVars, vars
<1>. QED BY <1>2, <1>3, <1>4, <1>5 DEF RpcNext

(* The same of a whole JSON-RPC response. *)
THEOREM RpcStackBounded == RpcSpec => []RecursionBounded
<1>1. RpcCallsInv => RecursionBounded
  BY CallsBounded, ListsKeyed DEF RpcCallsInv
<1>. QED BY <1>1, InitRpcCalls, NextRpcCalls, PTL DEF RpcSpec

-----------------------------------------------------------------------------
(* Progress *)

InText == IsSequence(text) /\ pos \in 1 .. Len(text) + 1

LEMMA HereEnds ==
  ASSUME InText
  PROVE  /\ Len(text) \in Nat /\ Here \in pos .. Len(text) + 1 /\ Here \in 1 .. Len(text) + 1
         /\ At(text, Here) \notin Blank
<1>1. Len(text) \in Nat
  BY SequenceLength DEF InText
<1>2. Here \in pos .. Len(text) + 1 /\ At(text, Here) \notin Blank
  BY SkipBlankEnds DEF InText, Here
<1>. QED BY <1>1, <1>2 DEF InText

(* A key ends behind its quote. *)
LEMMA KeyPlaces ==
  ASSUME InText, AtKey
  PROVE  Here \in pos .. Len(text) /\ Colon \in Here + 1 .. Len(text) + 1
<1>1. /\ Len(text) \in Nat /\ Here \in pos .. Len(text) + 1 /\ Here \in 1 .. Len(text) + 1
      /\ IsSequence(text)
  BY HereEnds DEF InText
<1>2. At(text, Here) # "end"
  BY DEF AtKey, Quote
<1>3. Here \in 1 .. Len(text) /\ Here + 1 \in 1 .. Len(text) + 1
  BY <1>1, <1>2, Within
<1>4. KeyEnd \in Here + 1 .. Len(text) + 1
  BY <1>1, <1>3, FirstInEnds DEF KeyEnd
<1>5. KeyEnd \in 1 .. Len(text) + 1
  BY <1>1, <1>3, <1>4
<1>6. Read(text, KeyEnd) \in KeyEnd .. Len(text) + 1
  BY <1>1, <1>5, ReadOn
<1>7. Read(text, KeyEnd) \in 1 .. Len(text) + 1
  BY <1>1, <1>5, <1>6
<1>8. Colon \in Read(text, KeyEnd) .. Len(text) + 1
  BY <1>1, <1>7, SkipBlankEnds DEF Colon
<1>. QED BY <1>1, <1>3, <1>4, <1>6, <1>8

(* A value starts behind the key of a member, or where an element does. *)
LEMMA ValuePlaces ==
  ASSUME InText, AtValue, Top.kind \in {"obj", "arr"}
  PROVE  /\ ValuePos \in pos .. Len(text) + 1 /\ ValuePos \in 1 .. Len(text) + 1
         /\ At(text, ValuePos) \notin Blank
         /\ Top.kind = "obj" => ValuePos > pos
         /\ Top.kind = "arr" => ValuePos = Here
<1>1. /\ Len(text) \in Nat /\ Here \in pos .. Len(text) + 1 /\ Here \in 1 .. Len(text) + 1
      /\ At(text, Here) \notin Blank /\ IsSequence(text) /\ pos \in Nat
  BY HereEnds DEF InText
<1>2. CASE Top.kind = "arr"
  <2>1. ValuePos = Here
    BY <1>2 DEF ValuePos
  <2>. QED BY <1>1, <1>2, <2>1
<1>3. CASE Top.kind = "obj"
  <2>1. AtKey /\ At(text, Colon) # "end"
    BY <1>3 DEF AtValue
  <2>2. Here \in pos .. Len(text) /\ Colon \in Here + 1 .. Len(text) + 1
    BY <2>1, KeyPlaces
  <2>3. Colon \in 1 .. Len(text) + 1
    BY <1>1, <2>2
  <2>4. Colon + 1 \in 1 .. Len(text) + 1
    BY <1>1, <2>1, <2>3, Within
  <2>5. ValuePos = SkipBlank(text, Colon + 1)
    BY <1>3 DEF ValuePos
  <2>6. ValuePos \in Colon + 1 .. Len(text) + 1 /\ At(text, ValuePos) \notin Blank
    BY <1>1, <2>4, <2>5, SkipBlankEnds
  <2>. QED BY <1>1, <1>3, <2>2, <2>6
<1>. QED BY <1>2, <1>3

(* Where the pass ends if its value ends at p. *)
LEMMA PassPlaces ==
  ASSUME InText, NEW p \in 1 .. Len(text) + 1, p >= pos, pos' = AfterComma(text, p)
  PROVE  /\ pos' \in 1 .. Len(text) + 1 /\ pos' >= p /\ pos' >= pos
         /\ pos' = pos => p = pos /\ At(text, pos) # ","
<1>1. IsSequence(text) /\ Len(text) \in Nat /\ pos \in Nat
  BY SequenceLength DEF InText
<1>2. AfterComma(text, p) \in p .. Len(text) + 1
  BY <1>1, AfterCommaEnds
<1>3. pos' \in 1 .. Len(text) + 1 /\ pos' >= p /\ pos' >= pos /\ (pos' = pos => p = pos)
  BY <1>1, <1>2
<1>4. ASSUME pos' = pos PROVE At(text, pos) # ","
  <2>1. At(text, p) = "," => AfterComma(text, p) > p
    BY <1>1, AfterCommaEnds
  <2>2. ~(AfterComma(text, p) > p) /\ p = pos
    BY <1>1, <1>3, <1>4
  <2>. QED BY <2>1, <2>2
<1>. QED BY <1>3, <1>4

NoValue(c) == c \notin Opening \cup Numeric \cup {Quote} /\ ~IsWord(c)

LEMMA EndsHaveNoValue ==
  ASSUME NEW c \in {",", "end"} \cup Closing
  PROVE  NoValue(c)
<1>1. c \notin Numeric
  BY DEF Closing, Numeric, Digits
<1>2. c \notin Opening \cup {Quote} /\ ~IsWord(c)
  BY DEF Closing, Opening, Quote, IsWord
<1>. QED BY <1>1, <1>2 DEF NoValue

(* A pass with a value, which ends at p, goes on: if p is where it started,*)
(* the reader is in an array and Stuck.                                    *)
LEMMA ValuePassGoesOn ==
  ASSUME InText, AtValue, stack # <<>>, Top.kind \in {"obj", "arr"},
         NEW p \in ValuePos .. Len(text) + 1, p = ValuePos => NoValue(At(text, p)),
         pos' = AfterComma(text, p)
  PROVE  /\ pos' \in 1 .. Len(text) + 1 /\ pos' >= pos
         /\ ~Stuck => pos' > pos
<1>1. /\ ValuePos \in pos .. Len(text) + 1 /\ ValuePos \in 1 .. Len(text) + 1
      /\ At(text, ValuePos) \notin Blank
      /\ Top.kind = "obj" => ValuePos > pos
      /\ Top.kind = "arr" => ValuePos = Here
  BY ValuePlaces
<1>2. Len(text) \in Nat /\ pos \in Nat
  BY SequenceLength DEF InText
<1>3. p \in 1 .. Len(text) + 1 /\ p >= pos
  BY <1>1, <1>2
<1>4. /\ pos' \in 1 .. Len(text) + 1 /\ pos' >= p /\ pos' >= pos
      /\ pos' = pos => p = pos
  BY <1>3, PassPlaces
<1>5. ASSUME pos' = pos PROVE Stuck
  <2>1. p = pos /\ ValuePos = pos
    BY <1>1, <1>2, <1>4, <1>5
  <2>2. Top.kind = "arr" /\ Here = pos
    BY <1>1, <1>2, <2>1
  <2>3. NoValue(At(text, pos)) /\ At(text, pos) \notin Blank /\ At(text, pos) # ","
    BY <1>1, <1>3, <1>5, <2>1, PassPlaces
  <2>4. At(text, pos) # "]"
    BY <2>2 DEF AtValue, AtEnd
  <2>. QED BY <2>2, <2>3, <2>4 DEF Stuck, NoValue, IsWord
<1>. QED BY <1>2, <1>4, <1>5

LEMMA ParseGoesOn ==
  ASSUME InText, NEW n \in Nat, Calls(n), Parse
  PROVE  /\ text' = text /\ pos' \in 1 .. Len(text) + 1 /\ pos' >= pos
         /\ ~Close /\ ~Stuck => pos' > pos
<1>1. stack # <<>> /\ Top.kind \in {"obj", "arr"}
  <2>1. stack # <<>>
    BY DEF Parse, Capture, Descend, Bind, Skip, Garbled, Close, Active
  <2>. QED BY <2>1, ValuePathLength
<1>2. /\ IsSequence(text) /\ Len(text) \in Nat /\ pos \in Nat
      /\ Here \in pos .. Len(text) + 1 /\ Here \in 1 .. Len(text) + 1
  BY HereEnds DEF InText
<1>3. ASSUME AtValue
      PROVE  ValuePos \in pos .. Len(text) + 1 /\ ValuePos \in 1 .. Len(text) + 1
  BY <1>1, <1>3, ValuePlaces
<1>4. ASSUME AtValue, At(text, ValuePos) \in Opening
      PROVE  ValuePos \in 1 .. Len(text) /\ ValuePos + 1 \in 1 .. Len(text) + 1
  <2>1. At(text, ValuePos) # "end"
    BY <1>4 DEF Opening
  <2>. QED BY <1>2, <1>3, <1>4, <2>1, Within
<1>5. CASE Capture
  <2>1. AtValue /\ At(text, ValuePos) \in Opening /\ pos' = AfterComma(text, EndOfRaw(text, ValuePos))
    BY <1>5 DEF Capture, Pass
  <2>2. EndOfRaw(text, ValuePos) \in ValuePos + 1 .. Len(text) + 1
    BY <1>2, <1>4, <2>1, EndOfRawEnds
  <2>3. EndOfRaw(text, ValuePos) \in ValuePos .. Len(text) + 1 /\ EndOfRaw(text, ValuePos) # ValuePos
    BY <1>2, <1>3, <2>1, <2>2
  <2>4. pos' \in 1 .. Len(text) + 1 /\ pos' >= pos /\ (~Stuck => pos' > pos)
    BY <1>1, <2>1, <2>3, ValuePassGoesOn
  <2>. QED BY <1>5, <2>4 DEF Capture
<1>6. CASE Descend
  <2>1. AtValue /\ At(text, ValuePos) \in Opening /\ pos' = ValuePos + 1
    BY <1>6 DEF Descend
  <2>2. pos' \in 1 .. Len(text) + 1 /\ pos' > pos
    BY <1>2, <1>3, <1>4, <2>1
  <2>. QED BY <1>2, <1>6, <2>2 DEF Descend
<1>7. CASE Bind
  <2>1. /\ AtValue /\ At(text, ValuePos) \notin Opening
        /\ pos' = AfterComma(text, PrimitiveEnd(text, ValuePos))
    BY <1>7 DEF Bind, Pass
  <2>2. /\ PrimitiveEnd(text, ValuePos) \in ValuePos .. Len(text) + 1
        /\ PrimitiveEnd(text, ValuePos) = ValuePos =>
             ~IsWord(At(text, ValuePos)) /\ At(text, ValuePos) \notin Numeric \cup {Quote}
    BY <1>2, <1>3, <2>1, PrimitiveEnds
  <2>3. PrimitiveEnd(text, ValuePos) = ValuePos => NoValue(At(text, ValuePos))
    BY <2>1, <2>2 DEF NoValue
  <2>4. pos' \in 1 .. Len(text) + 1 /\ pos' >= pos /\ (~Stuck => pos' > pos)
    BY <1>1, <2>1, <2>2, <2>3, ValuePassGoesOn
  <2>. QED BY <1>7, <2>4 DEF Bind
<1>8. CASE Skip
  <2>1. AtValue /\ pos' = AfterComma(text, EndOfValue(text, ValuePos))
    BY <1>8 DEF Skip, Pass
  <2>2. /\ EndOfValue(text, ValuePos) \in ValuePos .. Len(text) + 1
        /\ EndOfValue(text, ValuePos) = ValuePos =>
             At(text, ValuePos) \in {",", "end"} \cup Closing
    BY <1>2, <1>3, <2>1, EndOfValueEnds
  <2>3. EndOfValue(text, ValuePos) = ValuePos => NoValue(At(text, ValuePos))
    BY <2>2, EndsHaveNoValue
  <2>4. pos' \in 1 .. Len(text) + 1 /\ pos' >= pos /\ (~Stuck => pos' > pos)
    BY <1>1, <2>1, <2>2, <2>3, ValuePassGoesOn
  <2>. QED BY <1>8, <2>4 DEF Skip
<1>9. CASE Garbled
  <2>1. /\ text' = text /\ pos \in DOMAIN text
        /\ pos' = Read(text, IF AtKey THEN Colon ELSE Here)
    BY <1>9 DEF Garbled, AtEnd
  <2>2. CASE AtKey
    <3>1. Here \in pos .. Len(text) /\ Colon \in Here + 1 .. Len(text) + 1
      BY <2>2, KeyPlaces
    <3>2. Colon \in 1 .. Len(text) + 1 /\ Colon > pos
      BY <1>2, <3>1
    <3>3. pos' \in Colon .. Len(text) + 1
      BY <1>2, <2>1, <2>2, <3>2, ReadOn
    <3>. QED BY <1>2, <2>1, <3>2, <3>3
  <2>3. CASE ~AtKey
    <3>1. pos <= Len(text)
      BY <1>2, <2>1, SequenceLength
    <3>2. pos' \in Here .. Len(text) + 1 /\ (Here <= Len(text) => pos' = Here + 1)
      BY <1>2, <2>1, <2>3, ReadOn
    <3>. QED BY <1>2, <2>1, <3>1, <3>2
  <2>. QED BY <2>2, <2>3
<1>10. CASE Close
  <2>. DEFINE p == IF pos \in DOMAIN text THEN Here + 1 ELSE pos
  <2>1. AtEnd /\ text' = text /\ pos' \in {p, AfterComma(text, p)}
    BY <1>10 DEF Close
  <2>2. p \in 1 .. Len(text) + 1 /\ p >= pos
    <3>1. CASE pos \in DOMAIN text
      <4>1. At(text, Here) # "end"
        BY <2>1, <3>1 DEF AtEnd
      <4>2. Here + 1 \in 1 .. Len(text) + 1
        BY <1>2, <4>1, Within
      <4>. QED BY <1>2, <3>1, <4>2
    <3>2. CASE pos \notin DOMAIN text
      BY <1>2, <3>2 DEF InText
    <3>. QED BY <3>1, <3>2
  <2>. HIDE DEF p
  <2>3. AfterComma(text, p) \in p .. Len(text) + 1
    BY <1>2, <2>2, AfterCommaEnds
  <2>. QED BY <1>2, <1>10, <2>1, <2>2, <2>3
<1>. QED BY <1>5, <1>6, <1>7, <1>8, <1>9, <1>10 DEF Parse

(* How the number of calls changes. *)
LEMMA ParseDepth ==
  ASSUME NEW n \in Nat, Calls(n), Parse
  PROVE  /\ Len(stack) \in Nat /\ Len(stack') \in Nat
         /\ Len(stack') = IF Close THEN Len(stack) - 1
                          ELSE IF Descend THEN Len(stack) + 1 ELSE Len(stack)
<1>1. IsSequence(stack) /\ Len(stack) \in Nat
  BY SequenceLength DEF Calls
<1>2. CASE Close
  BY <1>1, <1>2, CallsReturned, SequenceLength DEF Calls
<1>3. CASE Descend
  <2>1. stack' = Append(stack, Frame(KindOf(At(text, ValuePos)), ValuePath))
    BY <1>3 DEF Descend
  <2>2. Len(stack') = Len(stack) + 1
    BY <1>1, <2>1, Extended
  <2>3. ~Close
    BY <1>3 DEF Descend, Close, AtValue
  <2>. QED BY <1>1, <1>3, <2>2, <2>3
<1>4. CASE ~Close /\ ~Descend
  <2>1. Capture \/ Bind \/ Skip \/ Garbled
    BY <1>4 DEF Parse
  <2>2. CASE Garbled
    BY <1>1, <1>4, <2>2 DEF Garbled
  <2>3. CASE Capture \/ Bind \/ Skip
    <3>1. stack # <<>> /\ stack' = Counted(stack) /\ bindings' = bindings
      BY <2>3 DEF Capture, Bind, Skip, Pass, Active
    <3>2. Len(stack') = Len(stack)
      BY <3>1, CallsCounted
    <3>. QED BY <1>1, <1>4, <3>2
  <2>. QED BY <2>1, <2>2, <2>3
<1>. QED BY <1>2, <1>3, <1>4

LEMMA Fewer ==
  ASSUME NEW length \in Nat, NEW p \in Nat, NEW q \in Nat, NEW d \in Nat, NEW e \in Nat,
         (q >= p /\ e < d) \/ (q > p /\ e <= d + 1)
  PROVE  2 * (length + 1 - q) + e < 2 * (length + 1 - p) + d
OBVIOUS

ParseInv == CallsInv /\ InText

LEMMA InitParse == Init => ParseInv
<1>. SUFFICES ASSUME Init PROVE ParseInv
  OBVIOUS
<1>1. IsSequence(text)
  BY TextAssumption DEF Init
<1>2. pos \in 1 .. Len(text) + 1
  BY <1>1, SequenceLength DEF Init
<1>. QED BY <1>1, <1>2, InitCalls DEF ParseInv, InText

LEMMA NextParse == ParseInv /\ [Next]_vars => ParseInv'
<1>. SUFFICES ASSUME ParseInv, [Next]_vars PROVE ParseInv'
  OBVIOUS
<1>1. CallsInv'
  BY NextCalls DEF ParseInv
<1>2. IsSequence(text) /\ Len(text) \in Nat /\ pos \in 1 .. Len(text) + 1
  BY SequenceLength DEF ParseInv, InText
<1>3. CASE Start
  <2>. DEFINE p == SkipBlank(text, 1)
  <2>1. /\ text' = text
        /\ \/ pos' = pos
           \/ pos' = Read(text, p)
           \/ At(text, p) \in Opening /\ pos' \in {EndOfRaw(text, p), p + 1}
    BY <1>3 DEF Start
  <2>2. p \in 1 .. Len(text) + 1
    BY <1>2, SkipBlankEnds
  <2>. HIDE DEF p
  <2>3. Read(text, p) \in 1 .. Len(text) + 1
    BY <1>2, <2>2, ReadOn
  <2>4. ASSUME At(text, p) \in Opening
        PROVE  EndOfRaw(text, p) \in 1 .. Len(text) + 1 /\ p + 1 \in 1 .. Len(text) + 1
    <3>1. At(text, p) # "end"
      BY <2>4 DEF Opening
    <3>2. p \in 1 .. Len(text) /\ p + 1 \in 1 .. Len(text) + 1
      BY <1>2, <2>2, <3>1, Within
    <3>3. EndOfRaw(text, p) \in p + 1 .. Len(text) + 1
      BY <1>2, <3>2, EndOfRawEnds
    <3>. QED BY <1>2, <3>2, <3>3
  <2>5. pos' \in 1 .. Len(text) + 1
    BY <1>2, <2>1, <2>3, <2>4
  <2>. QED BY <1>1, <1>2, <2>1, <2>5 DEF ParseInv, InText
<1>4. CASE Parse
  <2>1. text' = text /\ pos' \in 1 .. Len(text) + 1
    BY <1>4, ParseGoesOn DEF ParseInv, CallsInv
  <2>. QED BY <1>1, <1>2, <2>1 DEF ParseInv, InText
<1>5. CASE UNCHANGED vars
  BY <1>1, <1>2, <1>5 DEF ParseInv, InText, vars
<1>. QED BY <1>3, <1>4, <1>5 DEF Next, Parse

(* Every pass through the loops of the parser takes the reader on or       *)
(* returns, whatever the text and the bindings, and so there are at most   *)
(* twice as many as characters; but an array's loop stays where it is Stuck*)
THEOREM PassesCounted == Spec => [](PassesLeft \in Nat) /\ EachPassCounts
<1>1. ParseInv => PassesLeft \in Nat
  BY SequenceLength DEF ParseInv, InText, CallsInv, Calls, PassesLeft
<1>2. ParseInv /\ [Next]_vars => [phase = "parsing" /\ ~Stuck => PassesLeft' < PassesLeft]_vars
  <2>. SUFFICES ASSUME ParseInv, Next, phase = "parsing", ~Stuck
                PROVE  PassesLeft' < PassesLeft
    OBVIOUS
  <2>. DEFINE L == Len(text)
              d == Len(stack)
              e == Len(stack')
  <2>1. Parse
    BY DEF Next, Parse, Start
  <2>2. /\ text' = text /\ pos' \in 1 .. L + 1 /\ pos' >= pos
        /\ ~Close => pos' > pos
    BY <2>1, ParseGoesOn DEF ParseInv, CallsInv
  <2>3. L \in Nat /\ pos \in Nat /\ pos' \in Nat
    BY <2>2, SequenceLength DEF ParseInv, InText
  <2>4. d \in Nat /\ e \in Nat /\ e = IF Close THEN d - 1 ELSE IF Descend THEN d + 1 ELSE d
    BY <2>1, ParseDepth DEF ParseInv, CallsInv
  <2>5. PassesLeft = 2 * (L + 1 - pos) + d /\ PassesLeft' = 2 * (L + 1 - pos') + e
    BY <2>2 DEF PassesLeft
  <2>. HIDE DEF L, d, e
  <2>6. (pos' >= pos /\ e < d) \/ (pos' > pos /\ e <= d + 1)
    BY <2>2, <2>4
  <2>7. 2 * (L + 1 - pos') + e < 2 * (L + 1 - pos) + d
    BY <2>3, <2>4, <2>6, Fewer
  <2>. QED BY <2>5, <2>7
<1>. QED BY <1>1, <1>2, InitParse, NextParse, PTL DEF Spec, EachPassCounts

-----------------------------------------------------------------------------
(* Progress of the loops over a JSON-RPC response *)

LEMMA SliceFits ==
  ASSUME NEW s, IsSequence(s), NEW p \in 1 .. Len(s) + 1, NEW e \in p .. Len(s) + 1
  PROVE  IsSequence(SubSeq(s, p, e - 1)) /\ Len(SubSeq(s, p, e - 1)) = e - p
<1>. DEFINE t == SubSeq(s, p, e - 1)
<1>1. s \in Seq(Elements(s)) /\ Len(s) \in Nat
  BY SequenceLength DEF IsSequence, Elements
<1>. HIDE DEF Elements
<1>2. t \in Seq(Elements(s)) /\ Len(t) = e - p
  BY <1>1
<1>. HIDE DEF t
<1>3. t \in Seq(Elements(t))
  BY <1>2 DEF Elements
<1>. QED BY <1>2, <1>3 DEF IsSequence, Elements, t

LEMMA FittingFits ==
  ASSUME NEW t, IsSequence(t), NEW size \in Nat \ {0}
  PROVE  IsSequence(Fitting(t, size)) /\ Len(Fitting(t, size)) \in Nat /\ Len(Fitting(t, size)) <= Len(t)
<1>. DEFINE n == IF Len(t) < size THEN Len(t) ELSE size - 1
<1>1. n \in 0 .. Len(t) /\ Len(t) \in Nat
  BY SequenceLength
<1>2. Fitting(t, size) = SubSeq(t, 1, n)
  BY DEF Fitting
<1>. HIDE DEF n
<1>3. IsSequence(SubSeq(t, 1, n)) /\ Len(SubSeq(t, 1, n)) = n
  BY <1>1, Shortened
<1>. QED BY <1>1, <1>2, <1>3

(* A member's value starts behind its key and colon. *)
LEMMA MemberPlaces ==
  ASSUME InText, AtMember
  PROVE  MemberPos \in pos + 2 .. Len(text) + 1 /\ MemberPos \in 1 .. Len(text) + 1
<1>1. /\ Len(text) \in Nat /\ Here \in pos .. Len(text) + 1 /\ Here \in 1 .. Len(text) + 1
      /\ IsSequence(text) /\ pos \in 1 .. Len(text) + 1
  BY HereEnds DEF InText
<1>2. At(text, Here) # "end" /\ At(text, AfterKey) # "end"
  BY DEF AtMember, AtKey, Quote
<1>3. Here + 1 \in 1 .. Len(text) + 1
  BY <1>1, <1>2, Within
<1>4. EndOfString(text, Here + 1) \in Here + 1 .. Len(text) + 1
  BY <1>1, <1>3, EndOfStringEnds
<1>5. EndOfString(text, Here + 1) \in 1 .. Len(text) + 1
  BY <1>1, <1>3, <1>4
<1>6. AfterKey \in EndOfString(text, Here + 1) .. Len(text) + 1
  BY <1>1, <1>5, SkipBlankEnds DEF AfterKey
<1>7. AfterKey \in 1 .. Len(text) + 1 /\ AfterKey >= Here + 1
  BY <1>1, <1>4, <1>5, <1>6
<1>8. AfterKey + 1 \in 1 .. Len(text) + 1
  BY <1>1, <1>2, <1>7, Within
<1>9. MemberPos \in AfterKey + 1 .. Len(text) + 1
  BY <1>1, <1>8, SkipBlankEnds DEF MemberPos
<1>. QED BY <1>1, <1>7, <1>8, <1>9

LEMMA TokenEnds ==
  ASSUME InText, NEW p \in 1 .. Len(text) + 1
  PROVE  TokenEnd(p) \in p .. Len(text) + 1
<1>1. IsSequence(text) /\ Len(text) \in Nat
  BY SequenceLength DEF InText
<1>2. Read(text, p) \in p .. Len(text) + 1
  BY <1>1, ReadOn
<1>3. Read(text, p) \in 1 .. Len(text) + 1
  BY <1>1, <1>2
<1>4. TokenEnd(p) \in Read(text, p) .. Len(text) + 1
  BY <1>1, <1>3, EndOfStringEnds DEF TokenEnd
<1>. QED BY <1>1, <1>2, <1>4

LEMMA BareEnds ==
  ASSUME InText, NEW p \in 1 .. Len(text) + 1
  PROVE  BareEnd(p) \in p .. Len(text) + 1
BY FirstInEnds DEF InText, BareEnd

LEMMA IntegerEnds ==
  ASSUME InText, NEW p \in 1 .. Len(text) + 1
  PROVE  IntegerEnd(p) \in p .. Len(text) + 1
<1>1. "end" \notin Digits \cup {"-", "."}
  BY DEF Digits
<1>. QED BY <1>1, FirstNotInEnds DEF InText, IntegerEnd

LEMMA RawEnds ==
  ASSUME InText, NEW p \in 1 .. Len(text) + 1, At(text, p) \in Opening
  PROVE  EndOfRaw(text, p) \in p + 1 .. Len(text) + 1 /\ EndOfRaw(text, p) \in p .. Len(text) + 1
<1>1. IsSequence(text) /\ Len(text) \in Nat
  BY SequenceLength DEF InText
<1>2. At(text, p) # "end"
  BY DEF Opening
<1>3. p \in 1 .. Len(text)
  BY <1>1, <1>2, Within
<1>4. EndOfRaw(text, p) \in p + 1 .. Len(text) + 1
  BY <1>1, <1>3, EndOfRawEnds
<1>. QED BY <1>1, <1>4

(* The copy of a result is longer than the result by a quote at most. *)
LEMMA RawResultFits ==
  ASSUME InText, NEW p \in 1 .. Len(text) + 1
  PROVE  /\ RawResultEnd(p) \in p .. Len(text) + 1
         /\ IsSequence(RawResult(p)) /\ Len(RawResult(p)) \in Nat
         /\ Len(RawResult(p)) <= RawResultEnd(p) - p + 1
<1>1. IsSequence(text) /\ Len(text) \in Nat
  BY SequenceLength DEF InText
<1>2. CASE At(text, p) \in Opening
  <2>1. RawResultEnd(p) = EndOfRaw(text, p) /\ RawResult(p) = SubSeq(text, p, EndOfRaw(text, p) - 1)
    BY <1>2 DEF RawResultEnd, RawResult, Raw
  <2>2. EndOfRaw(text, p) \in p .. Len(text) + 1
    BY <1>2, RawEnds
  <2>3. IsSequence(RawResult(p)) /\ Len(RawResult(p)) = EndOfRaw(text, p) - p
    BY <1>1, <2>1, <2>2, SliceFits
  <2>. QED BY <1>1, <2>1, <2>2, <2>3
<1>3. CASE At(text, p) \notin Opening /\ At(text, p) # Quote
  <2>1. RawResultEnd(p) = BareEnd(p) /\ RawResult(p) = SubSeq(text, p, BareEnd(p) - 1)
    BY <1>3 DEF RawResultEnd, RawResult, Bare
  <2>2. BareEnd(p) \in p .. Len(text) + 1
    BY BareEnds
  <2>3. IsSequence(RawResult(p)) /\ Len(RawResult(p)) = BareEnd(p) - p
    BY <1>1, <2>1, <2>2, SliceFits
  <2>. QED BY <1>1, <2>1, <2>2, <2>3
<1>4. CASE At(text, p) \notin Opening /\ At(text, p) = Quote
  <2>. DEFINE t == Token(p)
              q == <<Quote>>
  <2>1. RawResultEnd(p) = TokenEnd(p) /\ RawResult(p) = (q \o t) \o q
    BY <1>4 DEF RawResultEnd, RawResult
  <2>2. p + 1 \in 1 .. Len(text) + 1 /\ Read(text, p) = p + 1
    BY <1>1, <1>4, Within DEF Quote
  <2>3. TokenEnd(p) = EndOfString(text, p + 1) /\ t = Fitting(Unescaped(text, p + 1), TextLimit)
    BY <2>2 DEF TokenEnd, Token
  <2>4. /\ IsSequence(Unescaped(text, p + 1)) /\ Len(Unescaped(text, p + 1)) \in Nat
        /\ Len(Unescaped(text, p + 1)) <= EndOfString(text, p + 1) - (p + 1)
    BY <1>1, <2>2, UnescapedFits
  <2>5. TokenEnd(p) \in p .. Len(text) + 1
    BY TokenEnds
  <2>6. IsSequence(t) /\ Len(t) \in Nat /\ Len(t) <= Len(Unescaped(text, p + 1))
    BY <2>3, <2>4, FittingFits, LimitAssumption
  <2>7. IsSequence(q) /\ Len(q) = 1
    BY Short
  <2>. HIDE DEF q, t
  <2>8. IsSequence(q \o t) /\ Len(q \o t) = Len(q) + Len(t)
    BY <2>6, <2>7, Concatenated
  <2>9. IsSequence((q \o t) \o q) /\ Len((q \o t) \o q) = Len(q \o t) + Len(q)
    BY <2>7, <2>8, Concatenated
  <2>. QED BY <1>1, <2>1, <2>3, <2>4, <2>5, <2>6, <2>7, <2>8, <2>9
<1>. QED BY <1>2, <1>3, <1>4

Loops  == {"before", "response", "error", "apply", "bind", "after"}
Ahead  == IsSequence(stream.text) /\ stream.pos \in 1 .. Len(stream.text) + 1

RpcInv ==
  /\ RpcCallsInv /\ InText /\ Ahead
  /\ where \in Loops
  /\ where = "before" => pos = 1
  /\ where # "bind" => stack = <<>>
  /\ phase = "done" => stack = <<>>

LEMMA RpcLengths ==
  ASSUME RpcInv
  PROVE  /\ IsSequence(text) /\ Len(text) \in Nat /\ pos \in 1 .. Len(text) + 1
         /\ IsSequence(stream.text) /\ Len(stream.text) \in Nat /\ stream.pos \in 1 .. Len(stream.text) + 1
         /\ Len(stack) \in Nat
         /\ Left(text, pos) \in Nat /\ Left(stream.text, stream.pos) \in Nat /\ Rank \in 0 .. 2
         /\ RpcPassesLeft \in Nat
<1>1. /\ IsSequence(text) /\ pos \in 1 .. Len(text) + 1
      /\ IsSequence(stream.text) /\ stream.pos \in 1 .. Len(stream.text) + 1 /\ IsSequence(stack)
  BY DEF RpcInv, InText, Ahead, RpcCallsInv, Calls
<1>2. Len(text) \in Nat /\ Len(stream.text) \in Nat /\ Len(stack) \in Nat
  BY <1>1, SequenceLength
<1>3. Left(text, pos) \in Nat
  BY <1>1, <1>2 DEF Left
<1>4. Left(stream.text, stream.pos) \in Nat
  BY <1>1, <1>2 DEF Left
<1>5. Rank \in 0 .. 2
  BY DEF Rank
<1>6. RpcPassesLeft \in Nat
  BY <1>2, <1>3, <1>4, <1>5 DEF RpcPassesLeft
<1>. QED BY <1>1, <1>2, <1>3, <1>4, <1>5, <1>6

LEMMA Sooner ==
  ASSUME NEW length \in Int, NEW p \in Int, NEW q \in Int, NEW outer \in Int, NEW d \in Int,
         NEW r \in Int, NEW o \in Int, o < r + 2 * (q - p)
  PROVE  2 * (length + 1 - q) + outer + d + o < 2 * (length + 1 - p) + outer + d + r
OBVIOUS

LEMMA Outweighs ==
  ASSUME NEW p \in Int, NEW q \in Int, NEW r \in Int, NEW o \in Int
  PROVE  /\ q > p /\ o <= r + 1 => o < r + 2 * (q - p)
         /\ q >= p /\ o < r => o < r + 2 * (q - p)
OBVIOUS

LEMMA Ranks ==
  /\ Rank \in 0 .. 2 /\ Rank' \in 0 .. 2
  /\ where = "after" => Rank = 0
  /\ where = "response" => Rank = 1
  /\ where \in Loops \ {"after", "response"} => Rank = 2
  /\ where' = "after" => Rank' = 0
  /\ where' = "response" => Rank' = 1
  /\ where' \in Loops \ {"after", "response"} => Rank' = 2
  /\ where' = where => Rank' = Rank
BY DEF Rank, Loops

(* Steps of the loops that read on in the same text. *)
LEMMA ReadsOn ==
  ASSUME RpcInv, KeepBinder, UNCHANGED stream, where # "bind",
         pos' \in pos .. Len(text) + 1, where' \in Loops \ {"before", "bind"},
         Rank' < Rank + 2 * (pos' - pos)
  PROVE  Ahead' /\ InText' /\ (RpcCallsInv' => RpcInv') /\ RpcPassesLeft' < RpcPassesLeft
<1>1. /\ IsSequence(text) /\ Len(text) \in Nat /\ pos \in 1 .. Len(text) + 1
      /\ Left(stream.text, stream.pos) \in Nat /\ Len(stack) \in Nat /\ Rank \in 0 .. 2
  BY RpcLengths
<1>2. text' = text /\ stack' = stack /\ stream' = stream /\ stack = <<>>
  BY DEF KeepBinder, RpcInv
<1>3. pos' \in 1 .. Len(text) + 1
  BY <1>1
<1>4. InText' /\ Ahead'
  BY <1>2, <1>3 DEF RpcInv, InText, Ahead
<1>5. RpcCallsInv' => RpcInv'
  BY <1>2, <1>4 DEF RpcInv
<1>6. Rank' \in 0 .. 2
  BY DEF Rank
<1>7. /\ RpcPassesLeft = 2 * (Len(text) + 1 - pos) + Left(stream.text, stream.pos) + Len(stack) + Rank
      /\ RpcPassesLeft' = 2 * (Len(text) + 1 - pos') + Left(stream.text, stream.pos) + Len(stack) + Rank'
  BY <1>2 DEF RpcPassesLeft, Left
<1>8. RpcPassesLeft' < RpcPassesLeft
  <2>. DEFINE L == Len(text)
              S == Left(stream.text, stream.pos)
              d == Len(stack)
  <2>1. L \in Int /\ pos \in Int /\ pos' \in Int /\ S \in Int /\ d \in Int /\ Rank \in Int /\ Rank' \in Int
    BY <1>1, <1>3, <1>6
  <2>. HIDE DEF L, S, d
  <2>2. 2 * (L + 1 - pos') + S + d + Rank' < 2 * (L + 1 - pos) + S + d + Rank
    BY <2>1, Sooner
  <2>. QED BY <1>7, <2>2 DEF L, S, d
<1>. QED BY <1>4, <1>5, <1>8

(* Steps that return to the loop of the response. *)
LEMMA Resumes ==
  ASSUME RpcInv, where \in {"apply", "bind"}, stack = <<>>, stack' = <<>>,
         NEW p \in pos .. Len(text) + 1, Resume(p)
  PROVE  Ahead' /\ InText' /\ (RpcCallsInv' => RpcInv') /\ RpcPassesLeft' < RpcPassesLeft
<1>1. /\ IsSequence(text) /\ Len(text) \in Nat /\ pos \in 1 .. Len(text) + 1
      /\ IsSequence(stream.text) /\ Len(stream.text) \in Nat /\ stream.pos \in 1 .. Len(stream.text) + 1
  BY RpcLengths
<1>2. where' = "response" /\ stream' = NoStream
  BY DEF Resume
<1>3. IsSequence(NoStream.text) /\ Len(NoStream.text) = 0 /\ NoStream.pos = 1
  BY Short DEF NoStream
<1>4. Ahead'
  BY <1>2, <1>3 DEF Ahead
<1>5. Left(stream'.text, stream'.pos) = 0 /\ Rank' = 1 /\ Rank = 2
  BY <1>2, <1>3 DEF Left, Rank
<1>6. InText' /\ Left(text', pos') <= Left(text, pos) + Left(stream.text, stream.pos)
  <2>1. CASE stream = NoStream
    <3>1. text' = text /\ pos' = AfterComma(text, p)
      BY <2>1 DEF Resume, GoOn
    <3>2. p \in 1 .. Len(text) + 1
      BY <1>1
    <3>3. AfterComma(text, p) \in p .. Len(text) + 1
      BY <1>1, <3>2, AfterCommaEnds
    <3>4. pos' \in 1 .. Len(text) + 1 /\ pos' >= pos
      BY <1>1, <3>1, <3>2, <3>3
    <3>5. InText'
      BY <1>1, <3>1, <3>4 DEF InText
    <3>6. Left(stream.text, stream.pos) = 0
      BY <1>3, <2>1 DEF Left
    <3>7. Left(text', pos') <= Left(text, pos)
      BY <1>1, <3>1, <3>4 DEF Left
    <3>8. Left(text, pos) \in Nat
      BY RpcLengths
    <3>. QED BY <3>5, <3>6, <3>7, <3>8
  <2>2. CASE stream # NoStream
    <3>1. text' = stream.text /\ pos' = AfterComma(stream.text, stream.pos)
      BY <2>2 DEF Resume
    <3>2. AfterComma(stream.text, stream.pos) \in stream.pos .. Len(stream.text) + 1
      BY <1>1, AfterCommaEnds
    <3>3. pos' \in 1 .. Len(stream.text) + 1 /\ pos' >= stream.pos
      BY <1>1, <3>1, <3>2
    <3>4. InText'
      BY <1>1, <3>1, <3>3 DEF InText
    <3>5. Left(text', pos') <= Left(stream.text, stream.pos)
      BY <1>1, <3>1, <3>3 DEF Left
    <3>6. Left(text', pos') \in Int
      BY <1>1, <3>1, <3>3 DEF Left
    <3>7. Left(text, pos) \in Nat /\ Left(stream.text, stream.pos) \in Nat
      BY RpcLengths
    <3>. QED BY <3>4, <3>5, <3>6, <3>7
  <2>. QED BY <2>1, <2>2
<1>7. Left(text', pos') \in Nat
  <2>1. Len(text') \in Nat /\ pos' \in 1 .. Len(text') + 1
    BY <1>6, SequenceLength DEF InText
  <2>. QED BY <2>1 DEF Left
<1>8. RpcPassesLeft' < RpcPassesLeft
  <2>1. RpcPassesLeft = Left(text, pos) + Left(stream.text, stream.pos) + 0 + 2
    BY <1>5 DEF RpcPassesLeft
  <2>2. RpcPassesLeft' = Left(text', pos') + 0 + 0 + 1
    BY <1>5 DEF RpcPassesLeft
  <2>3. Left(text, pos) \in Nat /\ Left(stream.text, stream.pos) \in Nat
    BY RpcLengths
  <2>. QED BY <1>6, <1>7, <2>1, <2>2, <2>3
<1>9. RpcCallsInv' => RpcInv'
  BY <1>2, <1>4, <1>6 DEF RpcInv, Loops
<1>. QED BY <1>4, <1>6, <1>8, <1>9

LEMMA MemberGoesOn ==
  ASSUME InText, AtMember, NEW e \in MemberPos .. Len(text) + 1, GoOn(e)
  PROVE  pos' \in pos + 2 .. Len(text) + 1
<1>1. /\ IsSequence(text) /\ Len(text) \in Nat /\ pos \in 1 .. Len(text) + 1
      /\ MemberPos \in pos + 2 .. Len(text) + 1
  BY MemberPlaces, SequenceLength DEF InText
<1>2. e \in 1 .. Len(text) + 1
  BY <1>1
<1>3. pos' \in e .. Len(text) + 1
  BY <1>1, <1>2, AfterCommaEnds DEF GoOn
<1>. QED BY <1>1, <1>2, <1>3

(* A pass that finds no member reads what it has found. *)
LEMMA PassOverReads ==
  ASSUME InText, pos \in DOMAIN text, pos' = Read(text, IF AtKey THEN AfterKey ELSE Here)
  PROVE  pos' \in pos + 1 .. Len(text) + 1
<1>1. /\ Len(text) \in Nat /\ Here \in pos .. Len(text) + 1 /\ Here \in 1 .. Len(text) + 1
      /\ IsSequence(text) /\ pos \in 1 .. Len(text)
  BY HereEnds, SequenceLength DEF InText
<1>2. CASE AtKey
  <2>1. Here + 1 \in 1 .. Len(text) + 1
    BY <1>1, <1>2, Within DEF AtKey, Quote
  <2>2. EndOfString(text, Here + 1) \in Here + 1 .. Len(text) + 1
    BY <1>1, <2>1, EndOfStringEnds
  <2>3. EndOfString(text, Here + 1) \in 1 .. Len(text) + 1
    BY <1>1, <2>1, <2>2
  <2>4. AfterKey \in EndOfString(text, Here + 1) .. Len(text) + 1
    BY <1>1, <2>3, SkipBlankEnds DEF AfterKey
  <2>5. AfterKey \in 1 .. Len(text) + 1 /\ AfterKey >= pos + 1
    BY <1>1, <2>2, <2>4
  <2>6. pos' \in AfterKey .. Len(text) + 1
    BY <1>1, <1>2, <2>5, ReadOn
  <2>. QED BY <1>1, <2>5, <2>6
<1>3. CASE ~AtKey
  <2>1. pos' \in Here .. Len(text) + 1 /\ (Here <= Len(text) => pos' = Here + 1)
    BY <1>1, <1>3, ReadOn
  <2>. QED BY <1>1, <2>1
<1>. QED BY <1>2, <1>3

(* The loops over the response and its error. *)
LEMMA ResponseReads ==
  ASSUME RpcInv,
         Respond \/ Version \/ Id \/ Error \/ ErrorMember \/ SkipMember \/ PassOver \/ EndObject
  PROVE  (RpcCallsInv' => RpcInv') /\ RpcPassesLeft' < RpcPassesLeft
<1>1. /\ IsSequence(text) /\ Len(text) \in Nat /\ pos \in 1 .. Len(text) + 1 /\ InText
      /\ Here \in pos .. Len(text) + 1
  BY RpcLengths, HereEnds DEF RpcInv
<1>2. KeepBinder /\ stream' = stream
  BY DEF Respond, Version, Id, Error, ErrorMember, SkipMember, PassOver, EndObject, KeepRest
<1>3. SUFFICES /\ where # "bind" /\ pos' \in pos .. Len(text) + 1
               /\ where' \in Loops \ {"before", "bind"}
               /\ Rank' < Rank + 2 * (pos' - pos)
  BY <1>2, ReadsOn
(* A member is read. *)
<1>4. ASSUME AtMember, where \in {"response", "error"}, where' = where,
             NEW e \in MemberPos .. Len(text) + 1, GoOn(e)
      PROVE  /\ where # "bind" /\ pos' \in pos .. Len(text) + 1
             /\ where' \in Loops \ {"before", "bind"}
             /\ Rank' < Rank + 2 * (pos' - pos)
  <2>1. pos' \in pos + 2 .. Len(text) + 1
    BY <1>1, <1>4, MemberGoesOn
  <2>2. Rank' = Rank /\ Rank \in 0 .. 2
    BY <1>4, Ranks
  <2>3. pos' \in pos .. Len(text) + 1 /\ pos' > pos /\ pos \in Int /\ Len(text) + 1 \in Int
    BY <1>1, <2>1
  <2>5. Rank' < Rank + 2 * (pos' - pos)
    <3>1. /\ pos' \in Int /\ pos \in Int /\ pos' >= pos /\ Rank \in Int /\ Rank' \in Int
          /\ (pos' > pos /\ Rank' <= Rank + 1) \/ Rank' < Rank
      BY <2>2, <2>3
    <3>. QED BY <3>1, Outweighs
  <2>4. where # "bind" /\ where' \in Loops \ {"before", "bind"}
    BY <1>4 DEF Loops
  <2>. QED BY <2>3, <2>4, <2>5
<1>5. ASSUME AtMember
      PROVE  /\ MemberPos \in 1 .. Len(text) + 1 /\ MemberPos \in pos + 2 .. Len(text) + 1
             /\ TokenEnd(MemberPos) \in MemberPos .. Len(text) + 1
             /\ IntegerEnd(MemberPos) \in MemberPos .. Len(text) + 1
             /\ BareEnd(MemberPos) \in MemberPos .. Len(text) + 1
             /\ EndOfValue(text, MemberPos) \in MemberPos .. Len(text) + 1
             /\ At(text, MemberPos) \in Opening => EndOfRaw(text, MemberPos) \in MemberPos .. Len(text) + 1
  <2>1. MemberPos \in 1 .. Len(text) + 1 /\ MemberPos \in pos + 2 .. Len(text) + 1
    BY <1>1, <1>5, MemberPlaces
  <2>. QED BY <1>1, <2>1, TokenEnds, IntegerEnds, BareEnds, EndOfValueEnds, RawEnds
<1>6. CASE Respond
  <2>. DEFINE p == SkipBlank(text, 1)
  <2>1. where = "before" /\ where' \in {"response", "after"}
    BY <1>6, Zenon DEF Respond
  <2>2. p \in 1 .. Len(text) + 1
    BY <1>1, SkipBlankEnds
  <2>3. pos' = p \/ (At(text, p) # "end" /\ pos' = p + 1)
    BY <1>6, Zenon DEF Respond
  <2>. HIDE DEF p
  <2>4. pos' \in 1 .. Len(text) + 1
    BY <1>1, <2>2, <2>3, Within
  <2>5. pos = 1 /\ Rank = 2 /\ Rank' \in 0 .. 1
    BY <2>1, Ranks DEF RpcInv, Loops
  <2>6. pos' \in pos .. Len(text) + 1 /\ pos \in Int /\ Len(text) + 1 \in Int
    BY <1>1, <2>4, <2>5
  <2>7. Rank' < Rank + 2 * (pos' - pos)
    <3>1. /\ pos' \in Int /\ pos \in Int /\ pos' >= pos /\ Rank \in Int /\ Rank' \in Int
          /\ (pos' > pos /\ Rank' <= Rank + 1) \/ Rank' < Rank
      BY <2>5, <2>6
    <3>. QED BY <3>1, Outweighs
  <2>8. where # "bind" /\ where' \in Loops \ {"before", "bind"}
    BY <2>1 DEF Loops
  <2>. QED BY <2>6, <2>7, <2>8
<1>7. CASE Version
  <2>1. AtMember /\ where = "response" /\ where' = where /\ GoOn(TokenEnd(MemberPos))
    BY <1>7 DEF Version
  <2>. QED BY <1>4, <1>5, <2>1
<1>8. CASE Id
  <2>. DEFINE p == MemberPos
  <2>1. AtMember /\ where = "response" /\ where' = where
    BY <1>8 DEF Id
  <2>2. \/ GoOn(TokenEnd(p)) \/ GoOn(IntegerEnd(p))
        \/ GoOn(IF p + 4 > Len(text) THEN Len(text) + 1 ELSE p + 4)
    BY <1>8 DEF Id
  <2>3. p \in 1 .. Len(text) + 1
    BY <1>5, <2>1
  <2>. HIDE DEF p
  <2>4. (IF p + 4 > Len(text) THEN Len(text) + 1 ELSE p + 4) \in p .. Len(text) + 1
    BY <1>1, <2>3
  <2>5. PICK e \in p .. Len(text) + 1 : GoOn(e)
    <3>1. TokenEnd(p) \in p .. Len(text) + 1 /\ IntegerEnd(p) \in p .. Len(text) + 1
      BY <1>5, <2>1 DEF p
    <3>. QED BY <2>2, <2>4, <3>1
  <2>. QED BY <1>4, <2>1, <2>5 DEF p
<1>9. CASE Error
  <2>1. AtMember /\ where = "response"
    BY <1>9 DEF Error
  <2>2. CASE At(text, MemberPos) = "{"
    <3>1. where' = "error" /\ pos' = MemberPos + 1
      BY <1>9, <2>2 DEF Error
    <3>2. MemberPos \in 1 .. Len(text) + 1 /\ MemberPos \in pos + 2 .. Len(text) + 1
      BY <1>5, <2>1
    <3>3. MemberPos + 1 \in 1 .. Len(text) + 1
      BY <1>1, <2>2, <3>2, Within
    <3>4. Rank = 1 /\ Rank' = 2
      BY <2>1, <3>1, Ranks DEF Loops
    <3>5. pos' \in pos + 3 .. Len(text) + 1
      BY <1>1, <3>1, <3>2, <3>3
    <3>6. pos' \in pos .. Len(text) + 1 /\ pos' > pos /\ pos \in Int /\ Len(text) + 1 \in Int
      BY <1>1, <3>5
    <3>7. Rank' < Rank + 2 * (pos' - pos)
      <4>1. /\ pos' \in Int /\ pos \in Int /\ pos' >= pos /\ Rank \in Int /\ Rank' \in Int
            /\ (pos' > pos /\ Rank' <= Rank + 1) \/ Rank' < Rank
        BY <3>4, <3>6
      <4>. QED BY <4>1, Outweighs
    <3>8. where # "bind" /\ where' \in Loops \ {"before", "bind"}
      BY <2>1, <3>1 DEF Loops
    <3>. QED BY <3>6, <3>7, <3>8
  <2>3. CASE At(text, MemberPos) # "{"
    <3>1. where' = where /\ GoOn(EndOfValue(text, MemberPos))
      BY <1>9, <2>3 DEF Error
    <3>. QED BY <1>4, <1>5, <2>1, <3>1
  <2>. QED BY <2>2, <2>3
<1>10. CASE ErrorMember
  <2>1. AtMember /\ where = "error" /\ where' = where
    BY <1>10 DEF ErrorMember
  <2>2. \/ GoOn(IntegerEnd(MemberPos)) \/ GoOn(TokenEnd(MemberPos)) \/ GoOn(BareEnd(MemberPos))
        \/ At(text, MemberPos) \in Opening /\ GoOn(EndOfRaw(text, MemberPos))
    BY <1>10 DEF ErrorMember
  <2>3. PICK e \in MemberPos .. Len(text) + 1 : GoOn(e)
    BY <1>5, <2>1, <2>2
  <2>. QED BY <1>4, <2>1, <2>3
<1>11. CASE SkipMember
  <2>1. AtMember /\ where \in {"response", "error"} /\ where' = where /\ GoOn(EndOfValue(text, MemberPos))
    BY <1>11 DEF SkipMember
  <2>. QED BY <1>4, <1>5, <2>1
<1>12. CASE PassOver
  <2>1. /\ where \in {"response", "error"} /\ where' = where /\ pos \in DOMAIN text
        /\ pos' = Read(text, IF AtKey THEN AfterKey ELSE Here)
    BY <1>12 DEF PassOver
  <2>2. pos' \in pos + 1 .. Len(text) + 1
    BY <1>1, <2>1, PassOverReads
  <2>3. Rank' = Rank /\ Rank \in 0 .. 2
    BY <2>1, Ranks
  <2>4. pos' \in pos .. Len(text) + 1 /\ pos' > pos /\ pos \in Int /\ Len(text) + 1 \in Int
    BY <1>1, <2>2
  <2>5. Rank' < Rank + 2 * (pos' - pos)
    <3>1. /\ pos' \in Int /\ pos \in Int /\ pos' >= pos /\ Rank \in Int /\ Rank' \in Int
          /\ (pos' > pos /\ Rank' <= Rank + 1) \/ Rank' < Rank
      BY <2>3, <2>4
    <3>. QED BY <3>1, Outweighs
  <2>6. where # "bind" /\ where' \in Loops \ {"before", "bind"}
    BY <2>1 DEF Loops
  <2>. QED BY <2>4, <2>5, <2>6
<1>13. CASE EndObject
  <2>. DEFINE p == IF pos \in DOMAIN text THEN Here + 1 ELSE pos
  <2>1. p \in pos .. Len(text) + 1 /\ p \in 1 .. Len(text) + 1
    <3>1. CASE pos \in DOMAIN text
      <4>1. At(text, Here) # "end"
        BY <1>13, <3>1, Zenon DEF EndObject
      <4>2. Here \in 1 .. Len(text) + 1
        BY <1>1
      <4>3. Here + 1 \in 1 .. Len(text) + 1
        BY <1>1, <4>1, <4>2, Within
      <4>. QED BY <1>1, <3>1, <4>3
    <3>2. CASE pos \notin DOMAIN text
      BY <1>1, <3>2
    <3>. QED BY <3>1, <3>2
  <2>2. \/ where = "error" /\ where' = "response" /\ pos' = AfterComma(text, p)
        \/ where = "response" /\ where' = "after" /\ pos' = p
    BY <1>13, Zenon DEF EndObject, GoOn
  <2>. HIDE DEF p
  <2>3. AfterComma(text, p) \in p .. Len(text) + 1
    BY <1>1, <2>1, AfterCommaEnds
  <2>4. pos' \in pos .. Len(text) + 1
    BY <1>1, <2>1, <2>2, <2>3
  <2>5. Rank' < Rank /\ Rank \in 0 .. 2 /\ Rank' \in 0 .. 2
    BY <2>2, Ranks DEF Loops
  <2>6. Rank' < Rank + 2 * (pos' - pos)
    <3>1. /\ pos' \in Int /\ pos \in Int /\ pos' >= pos /\ Rank \in Int /\ Rank' \in Int
          /\ (pos' > pos /\ Rank' <= Rank + 1) \/ Rank' < Rank
      BY <1>1, <2>4, <2>5
    <3>. QED BY <3>1, Outweighs
  <2>7. where # "bind" /\ where' \in Loops \ {"before", "bind"}
    BY <2>2 DEF Loops
  <2>. QED BY <2>4, <2>6, <2>7
<1>. QED BY <1>6, <1>7, <1>8, <1>9, <1>10, <1>11, <1>12, <1>13

(* The member "result": the copy, which is read first, and what is behind  *)
(* it are less than what was left.                                         *)
LEMMA ResultReads ==
  ASSUME RpcInv, Result
  PROVE  (RpcCallsInv' => RpcInv') /\ RpcPassesLeft' < RpcPassesLeft
<1>. DEFINE e == RawResultEnd(MemberPos)
            c == RawResult(MemberPos)
<1>1. /\ IsSequence(text) /\ Len(text) \in Nat /\ pos \in 1 .. Len(text) + 1 /\ InText
      /\ Left(text, pos) \in Nat /\ Left(stream.text, stream.pos) \in Nat
  BY RpcLengths DEF RpcInv
<1>2. /\ where = "response" /\ AtMember /\ UNCHANGED <<body, bindings, target, stack, phase>>
      /\ stack = <<>>
  BY DEF Result, RpcInv
<1>3. MemberPos \in 1 .. Len(text) + 1 /\ MemberPos \in pos + 2 .. Len(text) + 1
  BY <1>1, <1>2, MemberPlaces
<1>4. e \in MemberPos .. Len(text) + 1 /\ IsSequence(c) /\ Len(c) \in Nat /\ Len(c) <= e - MemberPos + 1
  BY <1>1, <1>3, RawResultFits
<1>5. Rank = 1
  BY <1>2 DEF Rank
<1>6. CASE ~wantsRaw
  <2>1. where' = "apply" /\ pos' = MemberPos /\ UNCHANGED <<text, stream>>
    BY <1>6 DEF Result
  <2>2. Rank' = 2
    BY <2>1 DEF Rank
  <2>3. KeepBinder /\ pos' \in pos .. Len(text) + 1 /\ Rank' < Rank + 2 * (pos' - pos)
    BY <1>1, <1>2, <1>3, <1>5, <2>1, <2>2 DEF KeepBinder
  <2>. QED BY <1>2, <2>1, <2>3, ReadsOn DEF Loops
<1>7. CASE wantsRaw /\ bindings = <<>>
  <2>1. GoOn(e) /\ UNCHANGED <<where, text, stream>>
    BY <1>7 DEF Result
  <2>2. pos' \in pos + 2 .. Len(text) + 1
    BY <1>1, <1>2, <1>4, <2>1, MemberGoesOn
  <2>3. Rank' = 1
    BY <1>2, <2>1 DEF Rank
  <2>. HIDE DEF e, c
  <2>4. pos' \in pos .. Len(text) + 1 /\ pos' > pos /\ pos \in Int /\ Len(text) + 1 \in Int
    BY <1>1, <2>2
  <2>5. Rank' < Rank + 2 * (pos' - pos)
    <3>1. pos' \in Int /\ pos' >= pos /\ Rank \in Int /\ Rank' \in Int /\ Rank' <= Rank + 1
      BY <1>5, <2>3, <2>4
    <3>. QED BY <2>4, <3>1, Outweighs
  <2>6. KeepBinder
    BY <1>2, <2>1 DEF KeepBinder
  <2>. QED BY <1>2, <2>1, <2>4, <2>5, <2>6, ReadsOn DEF Loops
<1>8. CASE wantsRaw /\ bindings # <<>>
  <2>1. /\ where' = "apply" /\ text' = c /\ pos' = 1
        /\ stream' = [text |-> text, pos |-> e]
    BY <1>8 DEF Result
  <2>. HIDE DEF c, e
  <2>2. e \in 1 .. Len(text) + 1
    BY <1>1, <1>3, <1>4
  <2>3. InText' /\ Ahead'
    BY <1>1, <1>4, <2>1, <2>2 DEF InText, Ahead
  <2>4. RpcCallsInv' => RpcInv'
    BY <1>2, <2>1, <2>3 DEF RpcInv, Loops
  <2>5. Rank' = 2
    BY <2>1 DEF Rank
  <2>6. Left(text, pos) = 2 * (Len(text) + 1 - pos) /\ Left(text', pos') = 2 * Len(c)
    BY <1>4, <2>1 DEF Left
  <2>7. Left(stream'.text, stream'.pos) = 2 * (Len(text) + 1 - e)
    BY <2>1 DEF Left
  <2>8. stack' = stack /\ Len(stack) = 0
    BY <1>2
  <2>9. RpcPassesLeft' = 2 * Len(c) + 2 * (Len(text) + 1 - e) + 0 + 2
    BY <2>5, <2>6, <2>7, <2>8 DEF RpcPassesLeft
  <2>10. RpcPassesLeft = 2 * (Len(text) + 1 - pos) + Left(stream.text, stream.pos) + 0 + 1
    BY <1>5, <2>6, <2>8 DEF RpcPassesLeft
  <2>11. RpcPassesLeft' < RpcPassesLeft
    BY <1>1, <1>3, <1>4, <2>9, <2>10
  <2>. QED BY <2>4, <2>11
<1>. QED BY <1>6, <1>7, <1>8

(* The result is taken at once, or its loop is entered. *)
LEMMA ResultApplied ==
  ASSUME RpcInv, ApplyRaw \/ ApplyInside \/ ApplyPrimitive
  PROVE  (RpcCallsInv' => RpcInv') /\ RpcPassesLeft' < RpcPassesLeft
<1>1. /\ IsSequence(text) /\ Len(text) \in Nat /\ pos \in 1 .. Len(text) + 1 /\ InText
      /\ Here \in pos .. Len(text) + 1 /\ Here \in 1 .. Len(text) + 1
      /\ Left(text, pos) \in Nat /\ Left(stream.text, stream.pos) \in Nat
  BY RpcLengths, HereEnds DEF RpcInv
<1>2. where = "apply" /\ stack = <<>>
  BY DEF ApplyRaw, ApplyInside, ApplyPrimitive, RpcInv
<1>3. CASE ApplyRaw
  <2>1. At(text, Here) \in Opening /\ stack' = stack /\ Resume(EndOfRaw(text, Here))
    BY <1>3 DEF ApplyRaw
  <2>2. EndOfRaw(text, Here) \in Here .. Len(text) + 1
    BY <1>1, <2>1, RawEnds
  <2>3. EndOfRaw(text, Here) \in pos .. Len(text) + 1
    BY <1>1, <2>2
  <2>. QED BY <1>2, <2>1, <2>3, Resumes
<1>4. CASE ApplyPrimitive
  <2>1. stack' = stack /\ At(text, Here) \notin Opening
    BY <1>4 DEF ApplyPrimitive
  <2>2. Resume(RawResultEnd(Here)) \/ Resume(PrimitiveEnd(text, Here)) \/ Resume(EndOfValue(text, Here))
    BY <1>4 DEF ApplyPrimitive
  <2>3. /\ RawResultEnd(Here) \in Here .. Len(text) + 1
        /\ PrimitiveEnd(text, Here) \in Here .. Len(text) + 1
        /\ EndOfValue(text, Here) \in Here .. Len(text) + 1
    BY <1>1, RawResultFits, PrimitiveEnds, EndOfValueEnds
  <2>4. PICK p \in pos .. Len(text) + 1 : Resume(p)
    BY <1>1, <2>2, <2>3
  <2>. QED BY <1>2, <2>1, <2>4, Resumes
<1>5. CASE ApplyInside
  <2>1. /\ At(text, Here) \in Opening /\ where' = "bind" /\ phase' = "parsing"
        /\ pos' = Here + 1 /\ UNCHANGED <<text, stream>>
        /\ stack' = <<Frame(KindOf(At(text, Here)), ResultPath)>>
    BY <1>5 DEF ApplyInside
  <2>2. Here + 1 \in 1 .. Len(text) + 1
    BY <1>1, <2>1, Within DEF Opening
  <2>3. InText' /\ Ahead'
    BY <1>1, <2>1, <2>2 DEF InText, Ahead, RpcInv
  <2>4. RpcCallsInv' => RpcInv'
    BY <2>1, <2>3 DEF RpcInv, Loops
  <2>5. Len(stack) = 0 /\ Len(stack') = 1
    BY <1>2, <2>1
  <2>6. Rank = 2 /\ Rank' = 2
    BY <1>2, <2>1 DEF Rank
  <2>7. RpcPassesLeft = 2 * (Len(text) + 1 - pos) + Left(stream.text, stream.pos) + 0 + 2
    BY <2>5, <2>6 DEF RpcPassesLeft, Left
  <2>8. RpcPassesLeft' = 2 * (Len(text) + 1 - (Here + 1)) + Left(stream.text, stream.pos) + 1 + 2
    BY <2>1, <2>5, <2>6 DEF RpcPassesLeft, Left
  <2>9. RpcPassesLeft' < RpcPassesLeft
    BY <1>1, <2>7, <2>8
  <2>. QED BY <2>4, <2>9
<1>. QED BY <1>3, <1>4, <1>5

(* The parser of the result goes on, unless it is stuck, and returns. *)
LEMMA ResultParsed ==
  ASSUME RpcInv, BindInside \/ BindingReturns
  PROVE  (RpcCallsInv' => RpcInv') /\ (~Stuck => RpcPassesLeft' < RpcPassesLeft)
<1>1. /\ IsSequence(text) /\ Len(text) \in Nat /\ pos \in 1 .. Len(text) + 1 /\ InText
      /\ Left(text, pos) \in Nat /\ Left(stream.text, stream.pos) \in Nat
  BY RpcLengths DEF RpcInv
<1>2. CASE BindingReturns
  <2>1. where = "bind" /\ phase = "done" /\ stack' = stack /\ Resume(pos)
    BY <1>2 DEF BindingReturns
  <2>2. stack = <<>> /\ pos \in pos .. Len(text) + 1
    BY <1>1, <2>1 DEF RpcInv
  <2>. QED BY <2>1, <2>2, Resumes
<1>3. CASE BindInside
  <2>1. Parse /\ where = "bind" /\ where' = "bind" /\ stream' = stream
    BY <1>3 DEF BindInside, Parse
  <2>2. Calls(1)
    BY DEF RpcInv, RpcCallsInv
  <2>3. /\ text' = text /\ pos' \in 1 .. Len(text) + 1 /\ pos' >= pos
        /\ ~Close /\ ~Stuck => pos' > pos
    BY <1>1, <2>1, <2>2, ParseGoesOn
  <2>4. /\ Len(stack) \in Nat /\ Len(stack') \in Nat
        /\ Len(stack') = IF Close THEN Len(stack) - 1
                         ELSE IF Descend THEN Len(stack) + 1 ELSE Len(stack)
    BY <2>1, <2>2, ParseDepth
  <2>5. InText' /\ Ahead'
    BY <1>1, <2>1, <2>3 DEF InText, Ahead, RpcInv
  <2>6. phase' = "done" => stack' = <<>>
    <3>1. CASE Close
      BY <3>1 DEF Close, Active
    <3>2. CASE ~Close
      <4>1. Capture \/ Descend \/ Bind \/ Skip \/ Garbled
        BY <2>1, <3>2 DEF Parse
      <4>2. phase = "parsing" /\ phase' = phase
        BY <4>1 DEF Capture, Descend, Bind, Skip, Garbled, Active
      <4>. QED BY <4>2
    <3>. QED BY <3>1, <3>2
  <2>7. RpcCallsInv' => RpcInv'
    BY <2>1, <2>5, <2>6 DEF RpcInv, Loops
  <2>8. ASSUME ~Stuck PROVE RpcPassesLeft' < RpcPassesLeft
    <3>. DEFINE L == Len(text)
                S == Left(stream.text, stream.pos)
                d == Len(stack)
                e == Len(stack')
    <3>1. Rank = 2 /\ Rank' = 2
      BY <2>1 DEF Rank
    <3>2. RpcPassesLeft = 2 * (L + 1 - pos) + S + d + 2 /\ RpcPassesLeft' = 2 * (L + 1 - pos') + S + e + 2
      BY <2>1, <2>3, <3>1 DEF RpcPassesLeft, Left
    <3>3. L \in Nat /\ pos \in Nat /\ pos' \in Nat /\ S \in Nat /\ d \in Nat /\ e \in Nat
      BY <1>1, <2>3, <2>4
    <3>4. (pos' >= pos /\ e < d) \/ (pos' > pos /\ e <= d + 1)
      BY <2>3, <2>4, <2>8
    <3>. HIDE DEF L, S, d, e
    <3>5. 2 * (L + 1 - pos') + e < 2 * (L + 1 - pos) + d
      BY <3>3, <3>4, Fewer
    <3>. DEFINE a == 2 * (L + 1 - pos')
                b == 2 * (L + 1 - pos)
    <3>6. a \in Int /\ b \in Int
      BY <3>3
    <3>9. a + e < b + d
      BY <3>5
    <3>7. RpcPassesLeft = b + S + d + 2 /\ RpcPassesLeft' = a + S + e + 2
      BY <3>2
    <3>. HIDE DEF a, b
    <3>8. a + S + e + 2 < b + S + d + 2
      BY <3>3, <3>6, <3>9
    <3>. QED BY <3>7, <3>8
  <2>. QED BY <2>7, <2>8
<1>. QED BY <1>2, <1>3

LEMMA InitRpc == RpcInit => RpcInv
<1>. SUFFICES ASSUME RpcInit PROVE RpcInv
  OBVIOUS
<1>1. IsSequence(text)
  BY TextAssumption DEF RpcInit, Init
<1>2. InText
  BY <1>1, SequenceLength DEF RpcInit, Init, InText
<1>3. IsSequence(stream.text) /\ Len(stream.text) = 0 /\ stream.pos = 1
  BY Short DEF RpcInit, NoStream
<1>. QED BY <1>2, <1>3, InitRpcCalls DEF RpcInit, Init, RpcInv, Ahead, Loops

LEMMA NextRpc ==
  ASSUME RpcInv, RpcNext
  PROVE  RpcInv' /\ (~Stuck => RpcPassesLeft' < RpcPassesLeft)
<1>1. RpcCallsInv'
  BY NextRpcCalls DEF RpcInv
<1>. QED BY <1>1, ResponseReads, ResultReads, ResultApplied, ResultParsed DEF RpcNext

(* Every pass through the loops over a JSON-RPC response takes the reader  *)
(* on or returns, whatever the text and the bindings, also where the result*)
(* is copied first; but an array's loop in the result stays where it is    *)
(* Stuck.                                                                  *)
THEOREM RpcPassesCounted == RpcSpec => [](RpcPassesLeft \in Nat) /\ EachRpcPassCounts
<1>1. RpcInv => RpcPassesLeft \in Nat
  BY RpcLengths
<1>2. RpcInv /\ [RpcNext]_rpcVars => RpcInv'
  <2>. SUFFICES ASSUME RpcInv, [RpcNext]_rpcVars PROVE RpcInv'
    OBVIOUS
  <2>1. CASE RpcNext
    BY <2>1, NextRpc
  <2>2. CASE UNCHANGED rpcVars
    BY <2>2 DEF rpcVars, vars, RpcInv, RpcCallsInv, Calls, InText, Ahead
  <2>. QED BY <2>1, <2>2
<1>3. RpcInv /\ [RpcNext]_rpcVars => [~Stuck => RpcPassesLeft' < RpcPassesLeft]_rpcVars
  BY NextRpc
<1>. QED BY <1>1, <1>2, <1>3, InitRpc, PTL DEF RpcSpec, EachRpcPassCounts

-----------------------------------------------------------------------------
(* Paths in a GraphQL response *)

LEMMA Sequences ==
  ASSUME NEW E, NEW t \in Seq(E)
  PROVE  IsSequence(t)
<1>1. t \in Seq({t[i] : i \in DOMAIN t})
  OBVIOUS
<1>. QED BY <1>1 DEF IsSequence

(* The loop over a path goes on behind each of its names. *)
LEMMA NamePlaces ==
  ASSUME InText, NEW r \in 1 .. Len(text) + 1
  PROVE  LET q == SkipBlank(text, r)
         IN  /\ q \in r .. Len(text) + 1 /\ q \in 1 .. Len(text) + 1
             /\ Read(text, q) \in r .. Len(text) + 1
             /\ ~PathOver(q) => AfterComma(text, NameEnd(q)) \in r + 1 .. Len(text) + 1
<1>. DEFINE q == SkipBlank(text, r)
            e == NameEnd(q)
<1>1. IsSequence(text) /\ Len(text) \in Nat
  BY SequenceLength DEF InText
<1>2. q \in r .. Len(text) + 1 /\ At(text, q) \notin Blank
  BY <1>1, SkipBlankEnds
<1>. HIDE DEF q
<1>3. q \in 1 .. Len(text) + 1
  BY <1>1, <1>2
<1>4. Read(text, q) \in r .. Len(text) + 1
  <2>1. Read(text, q) \in q .. Len(text) + 1
    BY <1>1, <1>3, ReadOn
  <2>. QED BY <1>1, <1>2, <2>1
<1>5. ASSUME ~PathOver(q) PROVE AfterComma(text, e) \in r + 1 .. Len(text) + 1
  <2>1. At(text, q) # "end" /\ At(text, q) # "]"
    BY <1>5, Zenon DEF PathOver
  <2>2. q \in 1 .. Len(text) /\ q + 1 \in 1 .. Len(text) + 1 /\ Read(text, q) = q + 1
    BY <1>1, <1>3, <2>1, Within
  <2>3. CASE At(text, q) = Quote
    <3>1. e = EndOfString(text, q + 1)
      BY <2>2, <2>3 DEF NameEnd, TokenEnd
    <3>2. e \in q + 1 .. Len(text) + 1
      BY <1>1, <2>2, <3>1, EndOfStringEnds
    <3>. HIDE DEF e
    <3>3. e \in 1 .. Len(text) + 1
      BY <1>1, <2>2, <3>2
    <3>4. AfterComma(text, e) \in e .. Len(text) + 1
      BY <1>1, <3>3, AfterCommaEnds
    <3>. QED BY <1>1, <1>2, <3>2, <3>4
  <2>4. CASE At(text, q) # Quote
    <3>1. e = FirstIn(text, q, {",", "]"} \cup Blank)
      BY <2>4 DEF NameEnd, BareName
    <3>2. At(text, e) \in ({",", "]"} \cup Blank) \cup {"end"}
      BY <1>1, <1>3, <3>1, FirstInEnds
    <3>6. e \in q .. Len(text) + 1
      BY <1>1, <1>3, <3>1, FirstInEnds
    <3>. HIDE DEF e
    <3>3. e \in 1 .. Len(text) + 1
      BY <1>1, <1>3, <3>6
    <3>4. AfterComma(text, e) \in e .. Len(text) + 1 /\ (At(text, e) = "," => AfterComma(text, e) > e)
      BY <1>1, <3>3, AfterCommaEnds
    <3>5. e = q => At(text, e) = ","
      BY <1>2, <2>1, <3>2
    <3>. DEFINE a == AfterComma(text, e)
                L == Len(text)
    <3>7. a \in e .. L + 1 /\ (e = q => a > e)
      BY <3>4, <3>5
    <3>8. L \in Nat /\ q \in r .. L + 1 /\ e \in q .. L + 1 /\ r \in 1 .. L + 1
      BY <1>1, <1>2, <3>6
    <3>. HIDE DEF a, L
    <3>9. a \in r + 1 .. L + 1
      BY <3>7, <3>8
    <3>. QED BY <3>9 DEF a, L
  <2>. QED BY <2>3, <2>4
<1>. QED BY <1>2, <1>3, <1>4, <1>5 DEF q

LEMMA PathStops ==
  ASSUME InText, NEW p \in 1 .. Len(text) + 1
  PROVE  PathStop(p) \in p .. Len(text) + 1
<1>. DEFINE n     == Len(text)
            X     == 1 .. n + 1
            Z     == {r \in X : PathOver(SkipBlank(text, r))}
            value == [r \in X |-> SkipBlank(text, r)]
            next  == [r \in X |-> AfterComma(text, NameEnd(SkipBlank(text, r)))]
            Eq(g) == g = [r \in 1 .. Len(text) + 1 |->
                            LET q == SkipBlank(text, r)
                            IN  IF PathOver(q) THEN q
                                ELSE g[AfterComma(text, NameEnd(q))]]
<1>1. n \in Nat
  BY SequenceLength DEF InText
<1>2. Scans(n, Z, value, next)
  <2>1. ASSUME NEW r \in X
        PROVE  IF r \in Z THEN value[r] \in r .. n + 1 ELSE next[r] \in r + 1 .. n + 1
    <3>. DEFINE q == SkipBlank(text, r)
    <3>1. /\ q \in r .. n + 1
          /\ ~PathOver(q) => AfterComma(text, NameEnd(q)) \in r + 1 .. n + 1
      BY NamePlaces
    <3>2. value[r] = q /\ next[r] = AfterComma(text, NameEnd(q)) /\ (r \in Z <=> PathOver(q))
      OBVIOUS
    <3>. HIDE DEF q, value, next, Z
    <3>. QED BY <3>1, <3>2
  <2>. QED BY <2>1 DEF Scans
<1>3. ASSUME NEW g PROVE Eq(g) <=> Follows(g, X, Z, value, next)
  <2>1. ASSUME NEW r \in X
        PROVE  (LET q == SkipBlank(text, r)
                IN  IF PathOver(q) THEN q ELSE g[AfterComma(text, NameEnd(q))])
               = IF r \in Z THEN value[r] ELSE g[next[r]]
    OBVIOUS
  <2>2. X = 1 .. Len(text) + 1
    OBVIOUS
  <2>. HIDE DEF X, Z, value, next
  <2>. QED BY <2>1, <2>2 DEF Follows
<1>4. /\ \E g : Follows(g, 1 .. n + 1, Z, value, next)
      /\ \A g : Follows(g, 1 .. n + 1, Z, value, next) => \A r \in 1 .. n + 1 : g[r] \in r .. n + 1
  <2>. HIDE DEF n, Z, value, next
  <2>. QED BY <1>1, <1>2, ScanEnds
<1>5. PICK g : Eq(g) /\ PathStop(p) = g[p]
  <2>1. Eq(CHOOSE g : Eq(g))
    <3>1. \E g : Eq(g)
      <4>. HIDE DEF Z, value, next, Eq
      <4>. QED BY <1>3, <1>4
    <3>. QED BY <3>1
  <2>2. PathStop(p) = (CHOOSE g : Eq(g))[p]
    BY DEF PathStop
  <2>. QED BY <2>1, <2>2
<1>6. Follows(g, X, Z, value, next)
  BY <1>3, <1>5
<1>. QED
  <2>. HIDE DEF Z, value, next, Eq
  <2>. QED BY <1>4, <1>5, <1>6

LEMMA PathEnds ==
  ASSUME InText, NEW p \in 1 .. Len(text) + 1
  PROVE  PathEnd(p) \in p .. Len(text) + 1
<1>1. IsSequence(text) /\ Len(text) \in Nat
  BY SequenceLength DEF InText
<1>2. PathStop(p) \in p .. Len(text) + 1
  BY PathStops
<1>. DEFINE q == PathStop(p)
<1>. HIDE DEF q
<1>3. q \in p .. Len(text) + 1 /\ q \in 1 .. Len(text) + 1
  BY <1>1, <1>2 DEF q
<1>4. Read(text, q) \in q .. Len(text) + 1
  BY <1>1, <1>3, ReadOn
<1>5. Read(text, q) \in p .. Len(text) + 1
  BY <1>1, <1>3, <1>4
<1>. QED BY <1>5 DEF PathEnd, q

(* What the loop collects is a sequence of names. *)
LEMMA PathNamed ==
  ASSUME InText, NEW p \in 1 .. Len(text) + 1
  PROVE  IsSequence(PathNames(p))
<1>. DEFINE n     == Len(text)
            X     == 1 .. n + 1
            Z     == {r \in X : PathOver(SkipBlank(text, r))}
            value == [r \in X |-> <<>>]
            head  == [r \in X |-> NameAt(SkipBlank(text, r))]
            next  == [r \in X |-> AfterComma(text, NameEnd(SkipBlank(text, r)))]
            far   == [r \in X |-> n + 1 - r]
            Eq(g) == g = [r \in 1 .. Len(text) + 1 |->
                            LET q == SkipBlank(text, r)
                            IN  IF PathOver(q) THEN <<>>
                                ELSE NameAt(q) \o g[AfterComma(text, NameEnd(q))]]
            E     == {Token(q) : q \in X} \cup {SubSeq(text, q, BareName(q) - 1) : q \in X}
            S     == Seq(E)
            T     == X \X S
<1>1. n \in Nat
  BY SequenceLength DEF InText
<1>2. ASSUME NEW r \in X
      PROVE  /\ SkipBlank(text, r) \in X
             /\ r \notin Z => next[r] \in r + 1 .. n + 1
  <2>. DEFINE q == SkipBlank(text, r)
  <2>1. /\ q \in 1 .. n + 1
        /\ ~PathOver(q) => AfterComma(text, NameEnd(q)) \in r + 1 .. n + 1
    BY NamePlaces
  <2>2. next[r] = AfterComma(text, NameEnd(q)) /\ (r \in Z <=> PathOver(q))
    OBVIOUS
  <2>. HIDE DEF q, next, Z
  <2>. QED BY <2>1, <2>2 DEF q
<1>3. Descends(X, Z, next, far)
  <2>1. far \in [X -> Nat]
    BY <1>1
  <2>2. ASSUME NEW r \in X \ Z PROVE next[r] \in X /\ far[next[r]] < far[r]
    <3>1. next[r] \in r + 1 .. n + 1
      BY <1>2
    <3>. HIDE DEF next, Z
    <3>. QED BY <1>1, <3>1
  <2>. QED BY <2>1, <2>2 DEF Descends
<1>4. ASSUME NEW g PROVE Eq(g) <=> Collects(g, X, Z, value, head, next)
  <2>1. ASSUME NEW r \in X
        PROVE  (LET q == SkipBlank(text, r)
                IN  IF PathOver(q) THEN <<>> ELSE NameAt(q) \o g[AfterComma(text, NameEnd(q))])
               = IF r \in Z THEN value[r] ELSE head[r] \o g[next[r]]
    OBVIOUS
  <2>2. X = 1 .. Len(text) + 1
    OBVIOUS
  <2>. HIDE DEF X, Z, value, head, next
  <2>. QED BY <2>1, <2>2 DEF Collects
<1>5. PICK g : Eq(g) /\ PathNames(p) = g[p]
  <2>1. \A r \in X : far[r] <= n
    BY <1>1
  <2>2. \E g : Eq(g)
    <3>. HIDE DEF X, Z, next, far, value, head, Eq
    <3>1. \E g : Collects(g, X, Z, value, head, next)
      BY <1>1, <1>3, <2>1, CollectExists
    <3>. QED BY <1>4, <3>1
  <2>3. PathNames(p) = (CHOOSE g : Eq(g))[p]
    BY DEF PathNames
  <2>. QED BY <2>2, <2>3
<1>6. Collects(g, X, Z, value, head, next)
  BY <1>4, <1>5
<1>7. ASSUME NEW r \in X PROVE head[r] \in S
  <2>. DEFINE q == SkipBlank(text, r)
  <2>1. q \in X /\ head[r] = NameAt(q)
    BY <1>2
  <2>2. NameAt(q) \in {<<Token(q)>>, <<SubSeq(text, q, BareName(q) - 1)>>, <<>>}
    BY DEF NameAt
  <2>3. Token(q) \in E /\ SubSeq(text, q, BareName(q) - 1) \in E
    BY <2>1
  <2>. HIDE DEF q, E, head
  <2>4. <<Token(q)>> \in S /\ <<SubSeq(text, q, BareName(q) - 1)>> \in S /\ <<>> \in S
    BY <2>3
  <2>. QED BY <2>1, <2>2, <2>4
<1>8. \A x \in X : <<x, g[x]>> \in T
  <2>1. Grows(g, X, Z, head, next, T)
    <3>1. ASSUME NEW x \in X \ Z, <<next[x], g[next[x]]>> \in T
          PROVE  <<x, head[x] \o g[next[x]]>> \in T
      <4>1. head[x] \in S /\ g[next[x]] \in S
        BY <1>7, <3>1
      <4>. HIDE DEF head, next, E
      <4>2. head[x] \o g[next[x]] \in S
        BY <4>1
      <4>. QED BY <4>2
    <3>. QED BY <3>1 DEF Grows
  <2>2. ASSUME NEW x \in X \cap Z PROVE <<x, value[x]>> \in T
    <3>1. value[x] = <<>>
      OBVIOUS
    <3>. HIDE DEF value, Z, E
    <3>2. value[x] \in S
      BY <3>1
    <3>. QED BY <3>2
  <2>. HIDE DEF X, Z, next, far, value, head, T, Eq
  <2>. QED BY <1>3, <1>6, <2>1, <2>2, CollectHolds
<1>9. g[p] \in S
  BY <1>8
<1>. QED
  <2>. HIDE DEF E
  <2>. QED BY <1>5, <1>9, Sequences

-----------------------------------------------------------------------------
(* Progress of the loops over a GraphQL response *)

(* Which loops are at work within which, ... *)
Outer == {"before", "response", "boundary", "headers", "seek", "part"}

Inside(a, b) ==
  \/ b = "errors" /\ a \in {"response", "part", "payload"}
  \/ b = "error" /\ a = "errors"
  \/ b = "locations" /\ a = "error"
  \/ b = "location" /\ a = "locations"
  \/ b = "incremental" /\ a = "part"
  \/ b \in {"payload", "deliver"} /\ a = "incremental"
  \/ b = "bind" /\ a \in {"response", "part", "deliver"}
  \/ b = "full" /\ a \in {"response", "error", "location", "part", "payload"}

Nested ==
  /\ IsSequence(calls)
  /\ calls # <<>> => calls[1] \in Outer
  /\ \A k \in DOMAIN calls : k # 1 => Inside(calls[k - 1], calls[k])

OfPart == calls # <<>> /\ calls[1] = "part"

(* ... how many readers wait meanwhile, ... *)
Waiting ==
  /\ IsSequence(readers)
  /\ \A k \in DOMAIN readers :
       IsSequence(readers[k].text) /\ readers[k].pos \in 1 .. Len(readers[k].text) + 1
  /\ Len(readers) <= 2
  /\ Loop # "bind" => Len(readers) = IF OfPart THEN 1 ELSE 0
  /\ Loop = "bind" => IF OfPart THEN Len(readers) = 2 ELSE Len(readers) <= 1

(* ... what is known of a payload, ... *)
Collected ==
  /\ {"path", "data"} \subseteq DOMAIN inc
  /\ IsSequence(inc.path) /\ IsSequence(inc.data)

(* ... which bindings there are, where those of a copy are not longer than *)
(* the caller's, ...                                                       *)
Served ==
  /\ \A i \in DOMAIN own : "key" \in DOMAIN own[i] /\ IsSequence(own[i].key) /\ own[i].key # <<>>
  /\ \A i \in DOMAIN bindings :
       i \in DOMAIN own /\ IsSequence(bindings[i].key) /\ Len(bindings[i].key) <= Len(own[i].key)

(* ... and what the parser of RestRequest does.                            *)
Parsing ==
  /\ \E n \in {0, 1} : Calls(n)
  /\ Loop # "bind" => stack = <<>> /\ phase = "start"
  /\ Loop = "bind" => /\ phase \in {"start", "parsing", "done"}
                      /\ phase # "parsing" => stack = <<>>
                      /\ phase = "start" => pos = 1
  /\ Loop = "before" => pos = 1

GqlInv == InText /\ Nested /\ Waiting /\ Collected /\ Served /\ Parsing

LEMMA CallsKnown ==
  ASSUME Nested, calls # <<>>
  PROVE  /\ Len(calls) \in Nat \ {0} /\ DOMAIN calls = 1 .. Len(calls)
         /\ Loop = calls[Len(calls)]
         /\ Loop \in Outer => Len(calls) = 1
         /\ Loop \notin Outer => Len(calls) > 1 /\ Inside(calls[Len(calls) - 1], Loop)
         /\ Loop = "incremental" => Len(calls) = 2 /\ OfPart
         /\ Loop \in {"payload", "deliver"} => Len(calls) = 3 /\ OfPart
         /\ \A k \in DOMAIN calls : calls[k] = "payload" => k = 3
<1>. DEFINE t == Len(calls)
<1>1. t \in Nat \ {0} /\ DOMAIN calls = 1 .. t /\ Loop = calls[t] /\ calls[1] \in Outer
  BY SequenceLength DEF Nested, Loop, Last
<1>. HIDE DEF t
<1>2. \A k \in 1 .. t : k # 1 => Inside(calls[k - 1], calls[k])
  BY <1>1 DEF Nested
<1>3. \A k \in 1 .. t : calls[k] \in Outer => k = 1
  BY <1>2 DEF Inside, Outer
<1>4. \A k \in 1 .. t : calls[k] \notin Outer => k > 1 /\ Inside(calls[k - 1], calls[k])
  BY <1>1, <1>2
<1>5. \A k \in 1 .. t : calls[k] = "incremental" => k = 2 /\ calls[1] = "part"
  <2>1. ASSUME NEW k \in 1 .. t, calls[k] = "incremental" PROVE k = 2 /\ calls[1] = "part"
    <3>1. k > 1 /\ calls[k - 1] = "part" /\ k - 1 \in 1 .. t
      BY <1>1, <1>4, <2>1 DEF Inside, Outer
    <3>2. k - 1 = 1
      BY <1>3, <3>1 DEF Outer
    <3>. QED BY <3>1, <3>2
  <2>. QED BY <2>1
<1>6. \A k \in 1 .. t : calls[k] \in {"payload", "deliver"} => k = 3 /\ calls[1] = "part"
  <2>1. ASSUME NEW k \in 1 .. t, calls[k] \in {"payload", "deliver"} PROVE k = 3 /\ calls[1] = "part"
    <3>1. k > 1 /\ calls[k - 1] = "incremental" /\ k - 1 \in 1 .. t
      BY <1>1, <1>4, <2>1 DEF Inside, Outer
    <3>2. k - 1 = 2 /\ calls[1] = "part"
      BY <1>5, <3>1
    <3>. QED BY <3>1, <3>2
  <2>. QED BY <2>1
<1>. QED BY <1>1, <1>3, <1>4, <1>5, <1>6 DEF t, OfPart

LEMMA CallsPushed ==
  ASSUME Nested, calls # <<>>, NEW loop, Inside(Loop, loop), calls' = Append(calls, loop)
  PROVE  /\ Nested' /\ Len(calls') = Len(calls) + 1 /\ Loop' = loop /\ calls' # <<>>
         /\ calls'[Len(calls) + 1] = loop
         /\ \A k \in DOMAIN calls : calls'[k] = calls[k]
         /\ OfPart' <=> OfPart
<1>. DEFINE t   == Len(calls)
            new == Append(calls, loop)
<1>1. t \in Nat \ {0} /\ DOMAIN calls = 1 .. t /\ Loop = calls[t] /\ calls[1] \in Outer
  BY CallsKnown DEF Nested
<1>2. /\ IsSequence(new) /\ Len(new) = t + 1 /\ DOMAIN new = 1 .. t + 1 /\ new[t + 1] = loop
      /\ \A k \in DOMAIN calls : new[k] = calls[k]
  BY Extended DEF Nested
<1>. HIDE DEF new
<1>3. calls' = new
  BY DEF new
<1>. HIDE DEF t
<1>4. new # <<>> /\ new[1] = calls[1]
  <2>1. 1 \in DOMAIN calls /\ 1 \in DOMAIN new
    BY <1>1, <1>2
  <2>2. DOMAIN <<>> = {}
    OBVIOUS
  <2>. QED BY <1>2, <2>1, <2>2
<1>5. ASSUME NEW k \in DOMAIN new, k # 1 PROVE Inside(new[k - 1], new[k])
  <2>1. CASE k \in 1 .. t
    <3>1. new[k] = calls[k] /\ new[k - 1] = calls[k - 1]
      BY <1>1, <1>2, <1>5, <2>1
    <3>. QED BY <1>1, <1>5, <2>1, <3>1 DEF Nested
  <2>2. CASE k \notin 1 .. t
    <3>1. k = t + 1 /\ t \in DOMAIN calls
      BY <1>1, <1>2, <1>5, <2>2
    <3>2. new[k] = loop /\ new[k - 1] = Loop
      BY <1>1, <1>2, <3>1
    <3>. QED BY <3>2
  <2>. QED BY <2>1, <2>2
<1>6. Nested'
  BY <1>1, <1>2, <1>3, <1>4, <1>5 DEF Nested, IsSequence
<1>7. Loop' = loop
  BY <1>2, <1>3, <1>4 DEF Loop, Last
<1>. QED BY <1>1, <1>2, <1>3, <1>4, <1>6, <1>7 DEF t, OfPart

LEMMA CallsPopped ==
  ASSUME Nested, calls # <<>>, calls' = Front(calls)
  PROVE  /\ Nested' /\ Len(calls') = Len(calls) - 1
         /\ \A k \in 1 .. Len(calls) - 1 : calls'[k] = calls[k]
         /\ Loop \in Outer => calls' = <<>> /\ Loop' = "done"
         /\ Loop \notin Outer => /\ calls' # <<>> /\ calls'[1] = calls[1]
                                 /\ Inside(Loop', Loop) /\ (OfPart' <=> OfPart)
<1>. DEFINE t   == Len(calls)
            new == SubSeq(calls, 1, t - 1)
<1>1. /\ t \in Nat \ {0} /\ DOMAIN calls = 1 .. t /\ Loop = calls[t]
      /\ Loop \in Outer => t = 1
      /\ Loop \notin Outer => t > 1 /\ Inside(calls[t - 1], Loop)
  BY CallsKnown
<1>2. /\ IsSequence(new) /\ Len(new) = t - 1 /\ DOMAIN new = 1 .. t - 1
      /\ \A k \in 1 .. t - 1 : new[k] = calls[k]
  BY <1>1, Shortened DEF Nested
<1>3. calls' = new
  BY DEF Front
<1>. HIDE DEF new
<1>. HIDE DEF t
<1>4. Nested'
  <2>1. ASSUME new # <<>> PROVE 1 \in 1 .. t - 1
    <3>1. t - 1 # 0
      <4>1. ASSUME t - 1 = 0 PROVE new = <<>>
        BY <1>2, <4>1, SequenceLength, Short, SameSequence
      <4>. QED BY <2>1, <4>1
    <3>. QED BY <1>1, <3>1
  <2>2. new # <<>> => new[1] \in Outer
    BY <1>1, <1>2, <2>1 DEF Nested
  <2>3. \A k \in DOMAIN new : k # 1 => Inside(new[k - 1], new[k])
    <3>1. ASSUME NEW k \in 1 .. t - 1, k # 1 PROVE Inside(new[k - 1], new[k])
      <4>1. k \in DOMAIN calls /\ k - 1 \in 1 .. t - 1
        BY <1>1, <3>1
      <4>2. new[k] = calls[k] /\ new[k - 1] = calls[k - 1]
        BY <1>2, <4>1
      <4>. QED BY <3>1, <4>1, <4>2 DEF Nested
    <3>. QED BY <1>2, <3>1
  <2>. QED BY <1>2, <1>3, <2>2, <2>3 DEF Nested, IsSequence
<1>5. ASSUME Loop \in Outer PROVE calls' = <<>> /\ Loop' = "done"
  <2>1. Len(new) = 0
    BY <1>1, <1>2, <1>5
  <2>2. new = <<>>
    BY <1>2, <2>1, SequenceLength, Short, SameSequence
  <2>. QED BY <1>3, <2>2 DEF Loop
<1>6. ASSUME Loop \notin Outer
      PROVE  calls' # <<>> /\ calls'[1] = calls[1] /\ Inside(Loop', Loop) /\ (OfPart' <=> OfPart)
  <2>1. t > 1 /\ 1 \in 1 .. t - 1 /\ t - 1 \in 1 .. t - 1
    BY <1>1, <1>6
  <2>2. new[1] = calls[1] /\ new[t - 1] = calls[t - 1] /\ 1 \in DOMAIN new
    BY <1>2, <2>1
  <2>3. new # <<>>
    <3>1. DOMAIN <<>> = {}
      OBVIOUS
    <3>. QED BY <2>2, <3>1
  <2>4. Loop' = calls[t - 1]
    BY <1>2, <1>3, <2>2, <2>3 DEF Loop, Last
  <2>. QED BY <1>1, <1>3, <1>6, <2>2, <2>3, <2>4 DEF OfPart
<1>. QED BY <1>2, <1>3, <1>4, <1>5, <1>6 DEF t

LEMMA LeftCounted ==
  ASSUME NEW s, IsSequence(s), NEW p \in 1 .. Len(s) + 1
  PROVE  Left(s, p) \in Nat
BY SequenceLength DEF Left

LEMMA BehindCounted ==
  ASSUME Waiting, NEW k \in Nat
  PROVE  LeftBehind(k) \in Nat
BY LeftCounted DEF Waiting, LeftBehind

LEMMA PendingCounted ==
  ASSUME Collected
  PROVE  Pending \in Nat /\ Left(inc.data, 1) \in Nat
<1>1. Len(inc.data) \in Nat /\ 1 \in 1 .. Len(inc.data) + 1
  BY SequenceLength DEF Collected
<1>2. Left(inc.data, 1) \in Nat
  BY <1>1, LeftCounted DEF Collected
<1>. QED BY <1>2 DEF Pending

LEMMA GqlLengths ==
  ASSUME GqlInv
  PROVE  /\ IsSequence(text) /\ Len(text) \in Nat /\ pos \in 1 .. Len(text) + 1
         /\ Left(text, pos) \in Nat /\ LeftBehind(1) \in Nat /\ LeftBehind(2) \in Nat
         /\ Pending \in Nat /\ Len(stack) \in Nat /\ Len(calls) \in Nat /\ Stage \in Nat
         /\ GqlPassesLeft \in Nat
<1>1. IsSequence(text) /\ Len(text) \in Nat /\ pos \in 1 .. Len(text) + 1
  BY SequenceLength DEF GqlInv, InText
<1>2. Left(text, pos) \in Nat /\ LeftBehind(1) \in Nat /\ LeftBehind(2) \in Nat /\ Pending \in Nat
  BY <1>1, LeftCounted, BehindCounted, PendingCounted DEF GqlInv
<1>3. Len(stack) \in Nat /\ Len(calls) \in Nat
  BY SequenceLength DEF GqlInv, Parsing, Calls, Nested
<1>4. Stage \in Nat
  BY DEF Stage
<1>5. GqlPassesLeft \in Nat
  BY <1>2, <1>3, <1>4 DEF GqlPassesLeft
<1>. QED BY <1>1, <1>2, <1>3, <1>4, <1>5

(* A sum of what is left: the reader goes on by q - p characters, and what *)
(* else is counted changes from r to o.                                    *)
LEMMA Fewer3 ==
  ASSUME NEW length \in Int, NEW p \in Int, NEW q \in Int, NEW b1 \in Int, NEW b2 \in Int, NEW d \in Int,
         NEW r \in Int, NEW o \in Int, o < r + 6 * (q - p)
  PROVE  3 * (2 * (length + 1 - q) + b1 + b2) + d + o < 3 * (2 * (length + 1 - p) + b1 + b2) + d + r
OBVIOUS

(* Steps of the loops that read on in the same text.  What they lead to is *)
(* left to the lemmas that use this one.                                   *)
Besides == Pending + Len(calls) + Stage

LEMMA BesidesCounted ==
  ASSUME Nested, Collected
  PROVE  Pending \in Nat /\ Len(calls) \in Nat /\ Stage \in Nat /\ Besides \in Int
<1>1. Pending \in Nat /\ Len(calls) \in Nat
  BY PendingCounted, SequenceLength DEF Nested
<1>2. Stage \in Nat
  BY DEF Stage
<1>. QED BY <1>1, <1>2 DEF Besides

LEMMA BesidesNext ==
  ASSUME Nested', Collected'
  PROVE  Pending' \in Nat /\ Len(calls') \in Nat /\ Stage' \in Nat /\ Besides' \in Int
<1>1. Len(inc'.data) \in Nat /\ 1 \in 1 .. Len(inc'.data) + 1 /\ IsSequence(inc'.data)
  BY SequenceLength DEF Collected
<1>2. Left(inc'.data, 1) \in Nat
  BY <1>1, LeftCounted
<1>3. Pending' \in Nat
  BY <1>2 DEF Pending
<1>4. Len(calls') \in Nat
  BY SequenceLength DEF Nested
<1>5. Stage' \in Nat
  BY DEF Stage
<1>. QED BY <1>3, <1>4, <1>5 DEF Besides

LEMMA GqlReadsOn ==
  ASSUME GqlInv, KeepParser, Loop # "bind", Loop' \notin {"bind", "before"}, OfPart' <=> OfPart,
         Nested', Collected', pos' \in pos .. Len(text) + 1, Besides' < Besides + 6 * (pos' - pos)
  PROVE  GqlInv' /\ GqlPassesLeft' < GqlPassesLeft
<1>1. /\ IsSequence(text) /\ Len(text) \in Nat /\ pos \in 1 .. Len(text) + 1
      /\ Left(text, pos) \in Nat /\ LeftBehind(1) \in Nat /\ LeftBehind(2) \in Nat
      /\ Len(stack) \in Nat
  BY GqlLengths
<1>2. /\ text' = text /\ stack' = stack /\ readers' = readers /\ bindings' = bindings
      /\ phase' = phase /\ own' = own
  BY DEF KeepParser, rest
<1>3. pos' \in 1 .. Len(text) + 1
  BY <1>1
<1>4. InText'
  BY <1>1, <1>2, <1>3 DEF InText
<1>5. Waiting'
  BY <1>2 DEF GqlInv, Waiting
<1>6. Served'
  BY <1>2 DEF GqlInv, Served
<1>7. Parsing'
  BY <1>2 DEF GqlInv, Parsing, Calls
<1>8. GqlInv'
  BY <1>4, <1>5, <1>6, <1>7 DEF GqlInv
<1>9. GqlPassesLeft' < GqlPassesLeft
  <2>. DEFINE L  == Len(text)
              b1 == LeftBehind(1)
              b2 == LeftBehind(2)
              d  == Len(stack)
              r  == Besides
              o  == Besides'
  <2>1. /\ L \in Int /\ pos \in Int /\ pos' \in Int /\ b1 \in Int /\ b2 \in Int /\ d \in Int
        /\ r \in Int /\ o \in Int
    BY <1>1, <1>3, BesidesCounted, BesidesNext DEF GqlInv
  <2>2. o < r + 6 * (pos' - pos)
    OBVIOUS
  <2>3. GqlPassesLeft = 3 * (2 * (L + 1 - pos) + b1 + b2) + d + r
    <3>1. /\ Pending \in Nat /\ Len(calls) \in Nat /\ Stage \in Nat
      BY GqlLengths
    <3>2. GqlPassesLeft = 3 * (2 * (L + 1 - pos) + b1 + b2) + Pending + d + Len(calls) + Stage
      BY DEF GqlPassesLeft, Left
    <3>. DEFINE x == 3 * (2 * (L + 1 - pos) + b1 + b2)
                c == Len(calls)
    <3>3. x \in Int /\ c \in Nat
      BY <2>1, <3>1
    <3>. HIDE DEF x, L, b1, b2, d, c
    <3>. QED BY <2>1, <3>1, <3>2, <3>3 DEF Besides, x, c
  <2>4. GqlPassesLeft' = 3 * (2 * (L + 1 - pos') + b1 + b2) + d + o
    <3>1. /\ Pending' \in Nat /\ Len(calls') \in Nat /\ Stage' \in Nat
      BY BesidesNext
    <3>2. GqlPassesLeft' = 3 * (2 * (L + 1 - pos') + b1 + b2) + Pending' + d + Len(calls') + Stage'
      BY <1>2 DEF GqlPassesLeft, Left, LeftBehind
    <3>. DEFINE x == 3 * (2 * (L + 1 - pos') + b1 + b2)
                c == Len(calls')
                e == Pending'
                f == Stage'
    <3>3. x \in Int /\ c \in Nat /\ e \in Nat /\ f \in Nat
      BY <2>1, <3>1
    <3>4. o = e + c + f /\ GqlPassesLeft' = x + e + d + c + f
      BY <3>2 DEF Besides
    <3>. HIDE DEF L, b1, b2, d, c, e, f, o
    <3>5. GqlPassesLeft' = x + d + o
      <4>. HIDE DEF x
      <4>. QED BY <2>1, <3>3, <3>4
    <3>. QED BY <3>5
  <2>. HIDE DEF L, b1, b2, d, r, o
  <2>5. 3 * (2 * (L + 1 - pos') + b1 + b2) + d + o < 3 * (2 * (L + 1 - pos) + b1 + b2) + d + r
    BY <2>1, <2>2, Fewer3
  <2>. QED BY <2>3, <2>4, <2>5
<1>. QED BY <1>8, <1>9

(* What is counted besides the text that is read. *)
LEMMA Gains ==
  ASSUME NEW p \in Int, NEW q \in Int, NEW b \in Int, NEW e \in Int, NEW c \in Int, NEW f \in Int,
         NEW s \in Int,
         \/ q >= p /\ e < b + 6 * (q - p) /\ f = c
         \/ q >= p + 1 /\ e <= b + 4 /\ f = c + 1
         \/ q >= p /\ e <= b /\ f = c - 1
  PROVE  e + f + s < b + c + s + 6 * (q - p)
OBVIOUS

(* A loop goes on with what it does, ... *)
LEMMA GqlStays ==
  ASSUME GqlInv, KeepParser, Loop \notin {"bind", "before"}, calls' = calls, Collected',
         pos' \in pos .. Len(text) + 1, Pending' < Pending + 6 * (pos' - pos)
  PROVE  GqlInv' /\ GqlPassesLeft' < GqlPassesLeft
<1>1. pos \in Int /\ pos' \in Int
  BY GqlLengths
<1>2. Nested' /\ (OfPart' <=> OfPart) /\ Loop' = Loop
  BY DEF GqlInv, Nested, OfPart, Loop
<1>3. Stage' = Stage
  BY <1>2 DEF Stage
<1>4. Besides' < Besides + 6 * (pos' - pos)
  <2>1. Pending \in Nat /\ Pending' \in Nat /\ Len(calls) \in Nat /\ Stage \in Nat
    BY <1>2, BesidesCounted, BesidesNext DEF GqlInv
  <2>2. Besides = Pending + Len(calls) + Stage /\ Besides' = Pending' + Len(calls) + Stage
    BY <1>3 DEF Besides
  <2>3. Pending' + Len(calls) + Stage < Pending + Len(calls) + Stage + 6 * (pos' - pos)
    <3>1. /\ pos' >= pos /\ Pending \in Int /\ Pending' \in Int /\ Len(calls) \in Int /\ Stage \in Int
      BY <1>1, <2>1
    <3>. QED BY <1>1, <3>1, Gains
  <2>. QED BY <2>2, <2>3
<1>. QED BY <1>2, <1>4, GqlReadsOn

LEMMA GqlKeeps ==
  ASSUME GqlInv, KeepParser, Loop \notin {"bind", "before"}, calls' = calls,
         DOMAIN inc' = DOMAIN inc, inc'.path = inc.path, inc'.data = inc.data,
         pos' \in pos + 1 .. Len(text) + 1
  PROVE  GqlInv' /\ GqlPassesLeft' < GqlPassesLeft
<1>1. Pending' = Pending /\ Pending \in Nat
  BY PendingCounted DEF Pending, GqlInv
<1>2. Collected'
  BY DEF Collected, GqlInv, IsSequence
<1>3. Len(text) \in Nat /\ pos \in 1 .. Len(text) + 1
  BY GqlLengths
<1>4. pos' \in pos .. Len(text) + 1 /\ Pending' < Pending + 6 * (pos' - pos)
  <2>1. pos' \in pos .. Len(text) + 1 /\ pos' >= pos + 1 /\ pos \in Int /\ pos' \in Int
    BY <1>3
  <2>2. ASSUME NEW p \in Int, NEW q \in Int, NEW b \in Int, q >= p + 1
        PROVE  b < b + 6 * (q - p)
    BY <2>2
  <2>3. Pending \in Int
    BY <1>1
  <2>4. Pending < Pending + 6 * (pos' - pos)
    BY <2>1, <2>2, <2>3
  <2>. QED BY <1>1, <2>1, <2>4
<1>. QED BY <1>2, <1>4, GqlStays

LEMMA GqlReads ==
  ASSUME GqlInv, KeepParser, Loop \notin {"bind", "before"}, calls' = calls, inc' = inc,
         pos' \in pos + 1 .. Len(text) + 1
  PROVE  GqlInv' /\ GqlPassesLeft' < GqlPassesLeft
BY GqlKeeps

(* ... enters another one, ... *)
LEMMA GqlEnters ==
  ASSUME GqlInv, KeepParser, calls # <<>>, Loop # "bind",
         NEW loop, loop # "bind", Inside(Loop, loop), calls' = Append(calls, loop),
         inc' = IF loop = "payload" THEN NoPayload ELSE inc, pos' \in pos + 1 .. Len(text) + 1
  PROVE  GqlInv' /\ GqlPassesLeft' < GqlPassesLeft
<1>1. Len(text) \in Nat /\ pos \in 1 .. Len(text) + 1
  BY GqlLengths
<1>2. /\ Nested' /\ Len(calls') = Len(calls) + 1 /\ Loop' = loop /\ calls' # <<>>
      /\ calls'[Len(calls) + 1] = loop
      /\ \A k \in DOMAIN calls : calls'[k] = calls[k]
      /\ OfPart' <=> OfPart
  BY CallsPushed DEF GqlInv
<1>3. /\ Len(calls) \in Nat \ {0} /\ DOMAIN calls = 1 .. Len(calls)
      /\ Loop \in {"incremental"} => Len(calls) = 2
  BY CallsKnown DEF GqlInv
<1>4. Collected'
  BY EmptyPath DEF Collected, GqlInv, NoPayload
<1>5. Pending \in Nat /\ Stage \in Nat
  BY BesidesCounted DEF GqlInv
<1>6. Stage' = Stage
  <2>1. calls'[1] = calls[1]
    BY <1>2, <1>3
  <2>. QED BY <1>2, <2>1 DEF Stage
<1>7. Pending' <= Pending + 4
  <2>1. CASE loop = "payload"
    <3>1. Left(<<>>, 1) = 0
      BY EmptyPath DEF Left
    <3>2. inc'.data = <<>>
      BY <2>1 DEF NoPayload
    <3>3. Pending' \in {0, 4}
      BY <3>1, <3>2 DEF Pending
    <3>. QED BY <1>5, <3>3
  <2>2. CASE loop # "payload"
    <3>1. CASE Len(calls) >= 3
      <4>1. Len(calls') >= 3 /\ calls'[3] = calls[3]
        BY <1>2, <1>3, <3>1
      <4>2. Pending' = Pending
        BY <2>2, <3>1, <4>1 DEF Pending
      <4>. QED BY <1>5, <4>2
    <3>2. CASE ~(Len(calls) >= 3)
      <4>1. Len(calls') >= 3 => calls'[3] = loop
        BY <1>2, <1>3, <3>2
      <4>2. Pending' = 0
        BY <2>2, <4>1 DEF Pending
      <4>. QED BY <1>5, <4>2
    <3>. QED BY <3>1, <3>2
  <2>. QED BY <2>1, <2>2
<1>8. Besides' < Besides + 6 * (pos' - pos)
  <2>. DEFINE e == Len(calls')
              c == Len(calls)
  <2>1. Pending' \in Nat
    BY <1>2, <1>4, BesidesNext
  <2>2. Besides = Pending + c + Stage /\ Besides' = Pending' + e + Stage /\ e = c + 1 /\ c \in Nat
    BY <1>2, <1>3, <1>6 DEF Besides
  <2>. HIDE DEF e, c
  <2>3. pos' >= pos + 1 /\ pos' \in Int /\ pos \in Int
    BY <1>1
  <2>4. Pending' \in Int /\ Pending \in Int /\ Stage \in Int /\ e \in Int /\ c \in Int
    BY <1>5, <2>1, <2>2
  <2>5. Pending' + e + Stage < Pending + c + Stage + 6 * (pos' - pos)
    BY <1>7, <2>2, <2>3, <2>4, Gains
  <2>. QED BY <2>2, <2>5
<1>9. Loop' \notin {"bind", "before"} /\ pos' \in pos .. Len(text) + 1
  BY <1>1, <1>2 DEF Inside
<1>. QED BY <1>2, <1>4, <1>8, <1>9, GqlReadsOn

(* ... or returns. *)
LEMMA GqlLeaves ==
  ASSUME GqlInv, KeepParser, calls # <<>>, Loop \notin Outer, Loop # "bind",
         calls' = Front(calls), Collected', inc'.data = inc.data, pos' \in pos .. Len(text) + 1
  PROVE  GqlInv' /\ GqlPassesLeft' < GqlPassesLeft
<1>1. Len(text) \in Nat /\ pos \in 1 .. Len(text) + 1
  BY GqlLengths
<1>2. /\ Nested' /\ Len(calls') = Len(calls) - 1
      /\ \A k \in 1 .. Len(calls) - 1 : calls'[k] = calls[k]
      /\ calls' # <<>> /\ calls'[1] = calls[1] /\ Inside(Loop', Loop) /\ (OfPart' <=> OfPart)
  BY CallsPopped DEF GqlInv
<1>3. Len(calls) \in Nat \ {0} /\ DOMAIN calls = 1 .. Len(calls)
  BY CallsKnown DEF GqlInv
<1>4. Loop' \notin {"bind", "before"}
  BY <1>2 DEF Inside
<1>5. Pending \in Nat /\ Stage \in Nat
  BY BesidesCounted DEF GqlInv
<1>6. Stage' = Stage
  BY <1>2, <1>4 DEF Stage
<1>7. Pending' <= Pending
  <2>1. CASE Len(calls') >= 3
    <3>1. Len(calls) >= 3 /\ calls'[3] = calls[3]
      BY <1>2, <1>3, <2>1
    <3>2. Pending' = Pending
      BY <2>1, <3>1 DEF Pending
    <3>. QED BY <1>5, <3>2
  <2>2. CASE ~(Len(calls') >= 3)
    <3>1. Pending' = 0
      BY <2>2 DEF Pending
    <3>. QED BY <1>5, <3>1
  <2>. QED BY <2>1, <2>2
<1>8. Besides' < Besides + 6 * (pos' - pos)
  <2>. DEFINE e == Len(calls')
              c == Len(calls)
  <2>1. Pending' \in Nat
    BY <1>2, BesidesNext
  <2>2. Besides = Pending + c + Stage /\ Besides' = Pending' + e + Stage /\ e = c - 1 /\ c \in Nat
    BY <1>2, <1>3, <1>6 DEF Besides
  <2>. HIDE DEF e, c
  <2>3. pos' >= pos /\ pos' \in Int /\ pos \in Int
    BY <1>1
  <2>4. Pending' \in Int /\ Pending \in Int /\ Stage \in Int /\ e \in Int /\ c \in Int
    BY <1>5, <2>1, <2>2
  <2>5. Pending' + e + Stage < Pending + c + Stage + 6 * (pos' - pos)
    BY <1>7, <2>2, <2>3, <2>4, Gains
  <2>. QED BY <2>2, <2>5
<1>. QED BY <1>2, <1>4, <1>8, GqlReadsOn

LEMMA KnownLoops ==
  /\ DOMAIN Known = {"response", "error", "part", "payload"}
  /\ \A loop \in DOMAIN Known : loop \notin {"bind", "before", "done"}
  /\ DOMAIN ElementOf = {"errors", "locations", "incremental"}
  /\ ElementOf["errors"] = "error" /\ ElementOf["locations"] = "location"
  /\ ElementOf["incremental"] = "payload"
BY DEF Known, ElementOf

LEMMA WordsEnd ==
  ASSUME InText, MemberPos \in 1 .. Len(text) + 1
  PROVE  WordEnd \in MemberPos .. Len(text) + 1 /\ NumberEnd \in MemberPos .. Len(text) + 1
<1>1. IsSequence(text)
  BY DEF InText
<1>2. "end" \notin Letters /\ "end" \notin Digits \cup {"-"}
  BY DEF Letters, Digits
<1>. QED BY <1>1, <1>2, FirstNotInEnds, Zenon DEF WordEnd, NumberEnd

(* A buffer is full before what is to be read into it ends. *)
LEMMA FilledWithin ==
  ASSUME NEW room \in Nat \ {0}, NEW n \in Nat, NEW m \in 1 .. n + 1, NEW p \in m .. n + 1,
         NEW end \in p .. n + 1, ~Fits(p, end, room)
  PROVE  p + room - 1 \in m .. n + 1
BY DEF Fits

(* The loop that stays in a word, once its buffer is full. *)
LEMMA BufferFills ==
  ASSUME GqlInv, FillBuffer
  PROVE  GqlInv' /\ GqlPassesLeft' < GqlPassesLeft
<1>1. IsSequence(text) /\ Len(text) \in Nat /\ pos \in 1 .. Len(text) + 1 /\ InText
  BY GqlLengths DEF GqlInv
<1>2. {NumberRoom, NameRoom, NullRoom, WordRoom} \subseteq Nat \ {0}
  BY RoomAssumption
<1>3. AtMember /\ KeepParser /\ inc' = inc
  BY DEF FillBuffer, AtKnown, KeepPayloads
<1>4. Loop \in {"response", "error", "location", "part", "payload"}
  BY DEF FillBuffer, AtKnown, Known
<1>5. calls # <<>> /\ Loop # "bind" /\ Inside(Loop, "full")
  BY <1>4 DEF Loop, Inside
<1>6. MemberPos \in 1 .. Len(text) + 1 /\ MemberPos \in pos + 2 .. Len(text) + 1
  BY <1>1, <1>3, MemberPlaces
<1>7. WordEnd \in MemberPos .. Len(text) + 1 /\ NumberEnd \in MemberPos .. Len(text) + 1
  BY <1>1, <1>6, WordsEnd
<1>8. ASSUME NEW p \in MemberPos .. Len(text) + 1, NEW end \in p .. Len(text) + 1,
             NEW room \in Nat \ {0}, Fill(p, end, room)
      PROVE  calls' = Append(calls, "full") /\ pos' \in pos + 1 .. Len(text) + 1
  <2>1. calls' = Append(calls, "full") /\ pos' = p + room - 1 /\ ~Fits(p, end, room)
    BY <1>8 DEF Fill, Enter
  <2>. DEFINE m == MemberPos
              n == Len(text)
  <2>2. m \in 1 .. n + 1 /\ m \in pos + 2 .. n + 1 /\ p \in m .. n + 1 /\ end \in p .. n + 1 /\ n \in Nat
    BY <1>1, <1>6, <1>8
  <2>. HIDE DEF m, n
  <2>3. p + room - 1 \in m .. n + 1
    BY <2>1, <2>2, FilledWithin
  <2>4. p + room - 1 \in pos + 1 .. n + 1
    BY <1>1, <2>2, <2>3
  <2>. QED BY <2>1, <2>4 DEF n
<1>9. ASSUME AtKnown("path")
      PROVE  LET q == PathStop(MemberPos + 1)
             IN  q \in MemberPos .. Len(text) + 1 /\ BareName(q) \in q .. Len(text) + 1
  <2>1. At(text, MemberPos) = "["
    BY <1>4, <1>9 DEF AtKnown, Known
  <2>2. MemberPos + 1 \in 1 .. Len(text) + 1
    BY <1>1, <1>6, <2>1, Within
  <2>. DEFINE q == PathStop(MemberPos + 1)
  <2>3. q \in MemberPos + 1 .. Len(text) + 1
    BY <1>1, <2>2, PathStops
  <2>. HIDE DEF q
  <2>4. q \in 1 .. Len(text) + 1 /\ q \in MemberPos .. Len(text) + 1
    BY <1>1, <1>6, <2>3
  <2>5. BareName(q) \in q .. Len(text) + 1
    BY <1>1, <2>4, FirstInEnds DEF BareName
  <2>. QED BY <2>4, <2>5 DEF q
<1>10. calls' = Append(calls, "full") /\ pos' \in pos + 1 .. Len(text) + 1
  <2>1. \/ Fill(MemberPos, NumberEnd, NumberRoom)
        \/ Fill(MemberPos, WordEnd, WordRoom)
        \/ Fill(MemberPos, WordEnd, NullRoom)
        \/ /\ AtKnown("path")
           /\ LET q == PathStop(MemberPos + 1) IN Fill(q, BareName(q), NameRoom)
    BY DEF FillBuffer
  <2>2. MemberPos \in MemberPos .. Len(text) + 1
    BY <1>1, <1>6
  <2>. QED BY <1>2, <1>7, <1>8, <1>9, <2>1, <2>2
<1>11. inc' = IF "full" = "payload" THEN NoPayload ELSE inc
  BY <1>3
<1>. QED BY <1>3, <1>5, <1>10, <1>11, GqlEnters

(* The steps that read a member, or what is none, and stay in their loop. *)
LEMMA MembersRead ==
  ASSUME GqlInv, SkipUnknown \/ PassOverOther \/ LocationMember \/ DataAbsent \/ HasNext
  PROVE  GqlInv' /\ GqlPassesLeft' < GqlPassesLeft
<1>1. IsSequence(text) /\ Len(text) \in Nat /\ pos \in 1 .. Len(text) + 1 /\ InText
  BY GqlLengths DEF GqlInv
<1>2. KeepParser /\ calls' = calls /\ inc' = inc
  BY DEF SkipUnknown, PassOverOther, LocationMember, DataAbsent, HasNext, KeepPayloads
<1>3. Loop \notin {"bind", "before"}
  BY KnownLoops DEF SkipUnknown, PassOverOther, LocationMember, DataAbsent, HasNext
<1>4. SUFFICES pos' \in pos + 1 .. Len(text) + 1
  BY <1>2, <1>3, GqlReads
<1>5. CASE PassOverOther
  <2>1. pos \in DOMAIN text /\ pos' = Read(text, IF AtKey THEN AfterKey ELSE Here)
    BY <1>5 DEF PassOverOther, Ended
  <2>. QED BY <1>1, <2>1, PassOverReads
<1>6. ASSUME AtMember, NEW e \in MemberPos .. Len(text) + 1, GoOn(e)
      PROVE  pos' \in pos + 1 .. Len(text) + 1
  <2>1. pos' \in pos + 2 .. Len(text) + 1
    BY <1>1, <1>6, MemberGoesOn
  <2>. QED BY <1>1, <2>1
<1>7. ASSUME AtMember
      PROVE  /\ MemberPos \in 1 .. Len(text) + 1 /\ MemberPos \in MemberPos .. Len(text) + 1
             /\ EndOfValue(text, MemberPos) \in MemberPos .. Len(text) + 1
             /\ WordEnd \in MemberPos .. Len(text) + 1
             /\ NumberEnd \in MemberPos .. Len(text) + 1
  <2>1. MemberPos \in 1 .. Len(text) + 1
    BY <1>1, <1>7, MemberPlaces
  <2>3. MemberPos \in MemberPos .. Len(text) + 1
    BY <1>1, <2>1
  <2>4. EndOfValue(text, MemberPos) \in MemberPos .. Len(text) + 1
    BY <1>1, <2>1, EndOfValueEnds
  <2>5. WordEnd \in MemberPos .. Len(text) + 1 /\ NumberEnd \in MemberPos .. Len(text) + 1
    BY <1>1, <2>1, WordsEnd
  <2>. QED BY <2>1, <2>3, <2>4, <2>5
<1>8. CASE SkipUnknown
  <2>1. AtMember /\ GoOn(EndOfValue(text, MemberPos))
    BY <1>8 DEF SkipUnknown
  <2>. QED BY <1>6, <1>7, <2>1
<1>9. CASE LocationMember
  <2>1. AtMember /\ GoOn(NumberEnd)
    BY <1>9 DEF LocationMember
  <2>. QED BY <1>6, <1>7, <2>1
<1>10. CASE DataAbsent
  <2>1. AtMember /\ \/ GoOn(WordEnd)
                    \/ GoOn(MemberPos)
    BY <1>10 DEF DataAbsent, AtKnown
  <2>. QED BY <1>6, <1>7, <2>1
<1>11. CASE HasNext
  <2>1. AtMember /\ GoOn(WordEnd)
    BY <1>11 DEF HasNext, AtKnown
  <2>. QED BY <1>6, <1>7, <2>1
<1>. QED BY <1>5, <1>8, <1>9, <1>10, <1>11

LEMMA ErrorsRead ==
  ASSUME GqlInv, Errors \/ MemberOfError
  PROVE  GqlInv' /\ GqlPassesLeft' < GqlPassesLeft
<1>1. IsSequence(text) /\ Len(text) \in Nat /\ pos \in 1 .. Len(text) + 1 /\ InText
  BY GqlLengths DEF GqlInv
<1>2. AtMember /\ KeepParser /\ Loop \in DOMAIN Known
  BY DEF Errors, MemberOfError, AtKnown
<1>3. Loop \notin {"bind", "before"} /\ calls # <<>>
  BY <1>2, KnownLoops DEF Loop
<1>4. MemberPos \in 1 .. Len(text) + 1 /\ MemberPos \in pos + 2 .. Len(text) + 1
  BY <1>1, <1>2, MemberPlaces
<1>5. ASSUME NEW e \in MemberPos .. Len(text) + 1, GoOn(e)
      PROVE  pos' \in pos + 1 .. Len(text) + 1
  <2>1. pos' \in pos + 2 .. Len(text) + 1
    BY <1>1, <1>2, <1>5, MemberGoesOn
  <2>. QED BY <1>1, <2>1
<1>6. ASSUME At(text, MemberPos) = "["
      PROVE  MemberPos + 1 \in 1 .. Len(text) + 1 /\ MemberPos + 1 \in pos + 1 .. Len(text) + 1
             /\ MemberPos + 1 \in MemberPos .. Len(text) + 1
  <2>1. MemberPos + 1 \in 1 .. Len(text) + 1
    BY <1>1, <1>4, <1>6, Within
  <2>. QED BY <1>1, <1>4, <2>1
<1>7. CASE Errors
  <2>1. CASE At(text, MemberPos) = "["
    <3>1. Loop \in {"response", "part", "payload"}
      BY <1>7 DEF Errors, AtKnown, Known
    <3>2. Inside(Loop, "errors")
      BY <3>1 DEF Inside
    <3>3. calls' = Append(calls, "errors") /\ pos' = MemberPos + 1 /\ inc' = inc
      BY <1>7, <2>1 DEF Errors, Enter, KeepPayloads
    <3>. QED BY <1>2, <1>3, <1>6, <2>1, <3>2, <3>3, GqlEnters
  <2>2. CASE At(text, MemberPos) # "["
    <3>1. GoOn(EndOfValue(text, MemberPos)) /\ calls' = calls
          /\ inc' = IF Loop = "payload" THEN [inc EXCEPT !.errors = errors] ELSE inc
      BY <1>7, <2>2 DEF Errors, TakeErrors
    <3>2. EndOfValue(text, MemberPos) \in MemberPos .. Len(text) + 1
      BY <1>1, <1>4, EndOfValueEnds
    <3>3. pos' \in pos + 1 .. Len(text) + 1
      BY <1>5, <3>1, <3>2
    <3>4. DOMAIN inc' = DOMAIN inc /\ inc'.data = inc.data /\ inc'.path = inc.path
      BY <3>1 DEF GqlInv, Collected
    <3>. QED BY <1>2, <1>3, <3>1, <3>3, <3>4, GqlKeeps
  <2>. QED BY <2>1, <2>2
<1>8. CASE MemberOfError
  <2>1. Loop = "error" /\ inc' = inc
    BY <1>8 DEF MemberOfError, KeepPayloads
  <2>2. \/ GoOn(TokenEnd(MemberPos)) /\ calls' = calls
        \/ At(text, MemberPos) = "[" /\ GoOn(PathEnd(MemberPos + 1)) /\ calls' = calls
        \/ At(text, MemberPos) \in Opening /\ GoOn(EndOfRaw(text, MemberPos)) /\ calls' = calls
        \/ At(text, MemberPos) = "[" /\ pos' = MemberPos + 1 /\ calls' = Append(calls, "locations")
    <3>1. AtKnown("path") => At(text, MemberPos) = "["
      BY <2>1 DEF AtKnown, Known
    <3>2. AtKnown("locations") => At(text, MemberPos) = "["
      BY <2>1 DEF AtKnown, Known
    <3>3. AtKnown("extensions") => At(text, MemberPos) \in Opening
      BY <2>1 DEF AtKnown, Known
    <3>. QED BY <1>8, <3>1, <3>2, <3>3, Zenon DEF MemberOfError, Enter
  <2>3. ASSUME calls' = calls, NEW e \in MemberPos .. Len(text) + 1, GoOn(e)
        PROVE  GqlInv' /\ GqlPassesLeft' < GqlPassesLeft
    BY <1>2, <1>3, <1>5, <2>1, <2>3, GqlReads
  <2>4. TokenEnd(MemberPos) \in MemberPos .. Len(text) + 1
    BY <1>1, <1>4, TokenEnds
  <2>5. At(text, MemberPos) = "[" => PathEnd(MemberPos + 1) \in MemberPos .. Len(text) + 1
    <3>1. SUFFICES ASSUME At(text, MemberPos) = "[" PROVE PathEnd(MemberPos + 1) \in MemberPos .. Len(text) + 1
      OBVIOUS
    <3>2. PathEnd(MemberPos + 1) \in MemberPos + 1 .. Len(text) + 1
      BY <1>1, <1>6, <3>1, PathEnds
    <3>. QED BY <1>1, <1>4, <3>2
  <2>6. At(text, MemberPos) \in Opening => EndOfRaw(text, MemberPos) \in MemberPos .. Len(text) + 1
    BY <1>1, <1>4, RawEnds
  <2>7. CASE At(text, MemberPos) = "[" /\ pos' = MemberPos + 1 /\ calls' = Append(calls, "locations")
    <3>1. Inside(Loop, "locations")
      BY <2>1 DEF Inside
    <3>. QED BY <1>2, <1>3, <1>6, <2>1, <2>7, <3>1, GqlEnters
  <2>. QED BY <2>2, <2>3, <2>4, <2>5, <2>6, <2>7
<1>. QED BY <1>7, <1>8

(* Behind the bracket that ends an object or an array, or at the end.      *)
LEMMA BehindPlaces ==
  ASSUME InText, NEW bracket, bracket # "end", AtEndOf(bracket)
  PROVE  Behind \in pos .. Len(text) + 1 /\ Behind \in 1 .. Len(text) + 1
<1>1. /\ Len(text) \in Nat /\ Here \in pos .. Len(text) + 1 /\ Here \in 1 .. Len(text) + 1
      /\ IsSequence(text) /\ pos \in 1 .. Len(text) + 1
  BY HereEnds DEF InText
<1>2. CASE Ended
  BY <1>1, <1>2 DEF Behind
<1>3. CASE ~Ended
  <2>1. At(text, Here) # "end" /\ Behind = Here + 1
    BY <1>3 DEF AtEndOf, Behind
  <2>2. Here + 1 \in 1 .. Len(text) + 1
    BY <1>1, <2>1, Within
  <2>. QED BY <1>1, <2>1, <2>2
<1>. QED BY <1>2, <1>3

LEMMA BehindGoesOn ==
  ASSUME InText, NEW bracket, bracket # "end", AtEndOf(bracket), GoOn(Behind)
  PROVE  pos' \in pos .. Len(text) + 1
<1>1. Behind \in pos .. Len(text) + 1 /\ Behind \in 1 .. Len(text) + 1
  BY BehindPlaces
<1>2. IsSequence(text) /\ Len(text) \in Nat /\ pos \in 1 .. Len(text) + 1
  BY SequenceLength DEF InText
<1>3. pos' \in Behind .. Len(text) + 1
  BY <1>1, <1>2, AfterCommaEnds DEF GoOn
<1>. QED BY <1>1, <1>2, <1>3

(* The loops over arrays: an element, what is none, and the end. *)
LEMMA ListsRead ==
  ASSUME GqlInv, Element \/ NoObject \/ EndOfList
  PROVE  GqlInv' /\ (~NotAnObject => GqlPassesLeft' < GqlPassesLeft)
<1>1. /\ IsSequence(text) /\ Len(text) \in Nat /\ pos \in 1 .. Len(text) + 1 /\ InText
      /\ Here \in pos .. Len(text) + 1 /\ Here \in 1 .. Len(text) + 1 /\ At(text, Here) \notin Blank
  BY GqlLengths, HereEnds DEF GqlInv
<1>2. KeepParser /\ Loop \in {"errors", "locations", "incremental"}
  BY KnownLoops DEF Element, NoObject, EndOfList
<1>3. Loop \notin {"bind", "before"} /\ Loop \notin Outer /\ calls # <<>>
  BY <1>2 DEF Loop, Outer
<1>4. CASE Element
  <2>1. calls' = Append(calls, ElementOf[Loop]) /\ pos' = Here + 1
        /\ inc' = IF Loop = "incremental" THEN NoPayload ELSE inc
    BY <1>4 DEF Element, Enter
  <2>2. At(text, Here) # "end"
    BY <1>4, Zenon DEF Element
  <2>3. pos' \in pos + 1 .. Len(text) + 1
    <3>1. Here + 1 \in 1 .. Len(text) + 1
      BY <1>1, <2>2, Within
    <3>. QED BY <1>1, <2>1, <3>1
  <2>. DEFINE loop == ElementOf[Loop]
  <2>4. loop # "bind" /\ Inside(Loop, loop) /\ (loop = "payload" <=> Loop = "incremental")
    BY <1>2, KnownLoops DEF Inside
  <2>5. inc' = IF loop = "payload" THEN NoPayload ELSE inc
    BY <2>1, <2>4
  <2>. HIDE DEF loop
  <2>6. calls' = Append(calls, loop)
    BY <2>1 DEF loop
  <2>. QED BY <1>2, <1>3, <2>3, <2>4, <2>5, <2>6, GqlEnters
<1>5. CASE NoObject
  <2>1. pos' = AfterComma(text, Here) /\ calls' = calls /\ inc' = inc
    BY <1>5 DEF NoObject, GoOn, KeepPayloads
  <2>2. /\ pos' \in 1 .. Len(text) + 1 /\ pos' >= Here /\ pos' >= pos
        /\ pos' = pos => Here = pos /\ At(text, pos) # ","
    <3>1. Here \in 1 .. Len(text) + 1 /\ Here >= pos
      BY <1>1
    <3>. QED BY <1>1, <2>1, <3>1, PassPlaces, Zenon
  <2>3. ASSUME pos' = pos PROVE NotAnObject
    <3>1. Here = pos /\ At(text, pos) # "," /\ At(text, pos) \notin Blank
      BY <1>1, <2>2, <2>3
    <3>2. ~Ended /\ At(text, Here) \notin {"{", "]"}
      BY <1>5, Zenon DEF NoObject
    <3>3. Loop \in DOMAIN ElementOf
      BY <1>5 DEF NoObject
    <3>. QED BY <3>1, <3>2, <3>3, Zenon DEF NotAnObject
  <2>4. CASE pos' = pos
    <3>1. Nested' /\ Waiting' /\ Collected' /\ Served' /\ Parsing' /\ InText'
      BY <1>2, <1>3, <2>1, <2>4 DEF GqlInv, KeepParser, rest, Nested, Waiting, Collected, Served,
         Parsing, Calls, InText, Loop, OfPart
    <3>. QED BY <2>3, <2>4, <3>1 DEF GqlInv
  <2>5. CASE pos' # pos
    <3>. DEFINE p == pos'
    <3>2. p \in 1 .. Len(text) + 1 /\ p >= pos /\ p # pos
      BY <2>2, <2>5
    <3>. HIDE DEF p
    <3>1. p \in pos + 1 .. Len(text) + 1
      BY <1>1, <3>2
    <3>. USE DEF p
    <3>. QED BY <1>2, <1>3, <2>1, <3>1, GqlReads
  <2>. QED BY <2>4, <2>5
<1>6. CASE EndOfList
  <2>1. AtEndOf("]") /\ calls' = Front(calls) /\ GoOn(Behind)
    BY <1>6 DEF EndOfList
  <2>2. pos' \in pos .. Len(text) + 1
    BY <1>1, <2>1, BehindGoesOn, Zenon
  <2>3. /\ DOMAIN inc' = DOMAIN inc /\ inc'.path = inc.path /\ inc'.data = inc.data
    <3>1. inc' = inc \/ inc' = [inc EXCEPT !.errors = errors]
      BY <1>6 DEF EndOfList, TakeErrors, KeepPayloads
    <3>. QED BY <3>1 DEF GqlInv, Collected
  <2>4. Collected'
    BY <2>3 DEF GqlInv, Collected, IsSequence
  <2>. QED BY <1>2, <1>3, <2>1, <2>2, <2>3, <2>4, GqlLeaves
<1>. QED BY <1>4, <1>5, <1>6

(* The ends of objects, and a payload. *)
LEMMA ObjectsEnd ==
  ASSUME GqlInv, EndOfObject \/ Deliver
  PROVE  GqlInv' /\ GqlPassesLeft' < GqlPassesLeft
<1>1. IsSequence(text) /\ Len(text) \in Nat /\ pos \in 1 .. Len(text) + 1 /\ InText
  BY GqlLengths DEF GqlInv
<1>2. /\ KeepParser /\ calls' = Front(calls) /\ inc' = inc
      /\ Loop \in {"response", "error", "location", "deliver"}
  BY DEF EndOfObject, Deliver, KeepPayloads
<1>3. Loop \notin {"bind", "before"} /\ calls # <<>>
  BY <1>2 DEF Loop
<1>4. Collected'
  BY <1>2 DEF GqlInv, Collected
<1>5. pos' \in pos .. Len(text) + 1
  <2>1. CASE Deliver
    BY <1>1, <2>1 DEF Deliver
  <2>2. CASE EndOfObject
    <3>1. AtEndOf("}") /\ (pos' = Behind \/ GoOn(Behind))
      BY <2>2, Zenon DEF EndOfObject
    <3>2. "}" # "end"
      BY Zenon
    <3>. QED BY <1>1, <3>1, <3>2, BehindPlaces, BehindGoesOn, Zenon
  <2>. QED BY <1>2, <2>1, <2>2
<1>6. CASE Loop # "response"
  <2>1. Loop \notin Outer
    BY <1>2, <1>6 DEF Outer
  <2>. QED BY <1>2, <1>3, <1>4, <1>5, <2>1, GqlLeaves
<1>7. CASE Loop = "response"
  <2>1. Loop \in Outer /\ Len(calls) \in Nat \ {0}
    BY <1>3, <1>7, CallsKnown DEF Outer, GqlInv
  <2>2. calls' = <<>> /\ Loop' = "done" /\ Nested'
    BY <1>2, <1>3, <2>1, CallsPopped DEF GqlInv
  <2>3. OfPart' <=> OfPart
    <3>1. Len(calls) = 1 /\ Loop = calls[Len(calls)]
      BY <1>3, <2>1, CallsKnown DEF GqlInv
    <3>. QED BY <1>7, <2>2, <3>1 DEF OfPart
  <2>4. Besides' < Besides + 6 * (pos' - pos)
    <3>1. Besides' = 0
      <4>1. Len(calls') = 0
        BY <2>2, EmptyPath
      <4>2. Pending' = 0 /\ Stage' = 0
        BY <2>2, <4>1 DEF Pending, Stage
      <4>. QED BY <4>1, <4>2 DEF Besides
    <3>. DEFINE c == Len(calls)
    <3>2. Pending \in Nat /\ Stage \in Nat /\ c \in Nat /\ c # 0 /\ Besides = Pending + c + Stage
      BY <2>1, BesidesCounted DEF GqlInv, Besides
    <3>. HIDE DEF c
    <3>3. Besides \in Int /\ Besides > 0
      BY <3>2
    <3>4. ASSUME NEW b \in Int, NEW p \in Int, NEW q \in Int, b > 0, q >= p
          PROVE  0 < b + 6 * (q - p)
      BY <3>4
    <3>5. pos \in Int /\ pos' \in Int /\ pos' >= pos
      BY <1>1, <1>5
    <3>. QED BY <3>1, <3>3, <3>4, <3>5
  <2>. QED BY <1>2, <1>3, <1>4, <1>5, <2>2, <2>3, <2>4, GqlReadsOn
<1>. QED BY <1>6, <1>7

LEMMA PayloadsRead ==
  ASSUME GqlInv, Payloads \/ PayloadMember
  PROVE  GqlInv' /\ GqlPassesLeft' < GqlPassesLeft
<1>1. IsSequence(text) /\ Len(text) \in Nat /\ pos \in 1 .. Len(text) + 1 /\ InText
  BY GqlLengths DEF GqlInv
<1>2. AtMember /\ KeepParser /\ Loop \in DOMAIN Known
  BY DEF Payloads, PayloadMember, AtKnown
<1>3. Loop \notin {"bind", "before"} /\ calls # <<>>
  BY <1>2, KnownLoops DEF Loop
<1>4. MemberPos \in 1 .. Len(text) + 1 /\ MemberPos \in pos + 2 .. Len(text) + 1
  BY <1>1, <1>2, MemberPlaces
<1>5. ASSUME At(text, MemberPos) = "["
      PROVE  MemberPos + 1 \in 1 .. Len(text) + 1 /\ MemberPos + 1 \in pos + 1 .. Len(text) + 1
  <2>1. MemberPos + 1 \in 1 .. Len(text) + 1
    BY <1>1, <1>4, <1>5, Within
  <2>. QED BY <1>1, <1>4, <2>1
<1>6. CASE Payloads
  <2>1. Loop = "part" /\ At(text, MemberPos) = "[" /\ inc' = inc
        /\ calls' = Append(calls, "incremental") /\ pos' = MemberPos + 1
    BY <1>6 DEF Payloads, AtKnown, Known, Enter, KeepPayloads
  <2>2. Inside(Loop, "incremental")
    BY <2>1 DEF Inside
  <2>. QED BY <1>2, <1>3, <1>5, <2>1, <2>2, GqlEnters
<1>7. CASE PayloadMember /\ AtKnown("path") /\ inc' = [inc EXCEPT !.path = PathNames(MemberPos + 1)]
           /\ GoOn(PathEnd(MemberPos + 1))
  <2>1. calls' = calls /\ Loop = "payload"
    BY <1>7 DEF PayloadMember
  <2>2. At(text, MemberPos) = "["
    BY <1>7, <2>1 DEF AtKnown, Known
  <2>3. PathEnd(MemberPos + 1) \in MemberPos + 1 .. Len(text) + 1 /\ IsSequence(PathNames(MemberPos + 1))
    BY <1>1, <1>5, <2>2, PathEnds, PathNamed
  <2>4. PathEnd(MemberPos + 1) \in MemberPos .. Len(text) + 1
    BY <1>1, <1>4, <2>3
  <2>5. pos' \in pos + 2 .. Len(text) + 1
    BY <1>1, <1>2, <1>7, <2>4, MemberGoesOn
  <2>6. inc'.path = PathNames(MemberPos + 1) /\ inc'.data = inc.data /\ DOMAIN inc' = DOMAIN inc
    BY <1>7 DEF GqlInv, Collected
  <2>7. Collected'
    BY <2>3, <2>6, Zenon DEF GqlInv, Collected, IsSequence
  <2>8. Pending' = Pending /\ Pending \in Int
    BY <2>1, <2>6, PendingCounted DEF Pending, GqlInv
  <2>9. pos' \in pos .. Len(text) + 1 /\ Pending' < Pending + 6 * (pos' - pos)
    <3>1. ASSUME NEW p \in Int, NEW q \in Int, NEW b \in Int, q >= p + 2
          PROVE  b < b + 6 * (q - p)
      BY <3>1
    <3>2. pos' \in pos .. Len(text) + 1 /\ pos' >= pos + 2 /\ pos' \in Int /\ pos \in Int
      BY <1>1, <2>5
    <3>. QED BY <2>8, <3>1, <3>2
  <2>. QED BY <1>2, <1>3, <2>1, <2>7, <2>9, GqlStays
<1>8. CASE PayloadMember /\ AtKnown("data") /\ inc' = [inc EXCEPT !.data = Raw(text, MemberPos)]
           /\ GoOn(EndOfRaw(text, MemberPos))
  <2>. DEFINE e == EndOfRaw(text, MemberPos)
              copied == Raw(text, MemberPos)
  <2>1. calls' = calls /\ Loop = "payload"
    BY <1>8 DEF PayloadMember
  <2>2. At(text, MemberPos) \in Opening
    BY <1>8, <2>1 DEF AtKnown, Known
  <2>3. e \in MemberPos .. Len(text) + 1
    BY <1>1, <1>4, <2>2, RawEnds
  <2>4. copied = SubSeq(text, MemberPos, e - 1)
    BY DEF Raw
  <2>5. e \in 1 .. Len(text) + 1
    BY <1>1, <1>4, <2>3
  <2>6. AfterComma(text, e) \in e .. Len(text) + 1 /\ pos' = AfterComma(text, e)
    BY <1>1, <1>8, <2>5, AfterCommaEnds DEF GoOn
  <2>. HIDE DEF e
  <2>7. IsSequence(copied) /\ Len(copied) = e - MemberPos
    BY <1>1, <1>4, <2>3, <2>4, SliceFits
  <2>8. inc'.path = inc.path /\ inc'.data = copied /\ DOMAIN inc' = DOMAIN inc
    BY <1>8 DEF GqlInv, Collected
  <2>9. Collected'
    BY <2>7, <2>8, Zenon DEF GqlInv, Collected, IsSequence
  <2>10. Pending' <= 3 * Left(copied, 1) + 4 /\ Left(copied, 1) = 2 * (e - MemberPos) /\ Pending \in Nat
    <3>. HIDE DEF copied
    <3>1. Left(copied, 1) = 2 * (e - MemberPos) /\ Left(copied, 1) \in Nat
      BY <1>1, <1>4, <2>3, <2>7 DEF Left
    <3>2. Pending' \in {3 * Left(copied, 1) + 4, 0}
      BY <2>8 DEF Pending
    <3>. QED BY <3>1, <3>2, PendingCounted DEF GqlInv
  <2>11. pos' \in pos .. Len(text) + 1 /\ Pending' < Pending + 6 * (pos' - pos)
    <3>1. ASSUME NEW p \in Int, NEW q \in Int, NEW b \in Nat, NEW f \in Int, NEW i \in Int, NEW j \in Int,
                 f <= 3 * (2 * (j - i)) + 4, i >= p + 2, q >= j
          PROVE  f < b + 6 * (q - p)
      BY <3>1
    <3>2. /\ pos' \in pos .. Len(text) + 1 /\ pos' \in Int /\ pos \in Int /\ MemberPos >= pos + 2
          /\ MemberPos \in Int /\ e \in Int /\ pos' >= e
      BY <1>1, <1>4, <2>3, <2>6
    <3>3. Nested'
      BY <2>1 DEF GqlInv, Nested
    <3>4. Pending' \in Int
      BY <2>9, <3>3, BesidesNext
    <3>. QED BY <2>10, <3>1, <3>2, <3>4
  <2>. QED BY <1>2, <1>3, <2>1, <2>9, <2>11, GqlStays
<1>. QED BY <1>6, <1>7, <1>8 DEF PayloadMember

(* The outermost loop is followed by another one, or goes on. *)
LEMMA GqlFollows ==
  ASSUME GqlInv, KeepParser, inc' = inc, Loop \in Outer \ {"part"},
         NEW loop \in {"response", "boundary", "headers", "seek"}, calls' \in {<<>>, <<loop>>},
         pos' \in pos .. Len(text) + 1,
         \/ calls' = <<>> \/ Loop = "before" \/ pos' > pos
         \/ Loop = "headers" /\ loop = "seek"
         \/ Loop = "seek" /\ loop = "boundary"
  PROVE  GqlInv' /\ GqlPassesLeft' < GqlPassesLeft
<1>1. Len(text) \in Nat /\ pos \in 1 .. Len(text) + 1
  BY GqlLengths
<1>2. calls # <<>> /\ Len(calls) = 1 /\ Loop = calls[1] /\ Loop # "bind"
  <2>1. calls # <<>>
    BY DEF Loop, Outer
  <2>. QED BY <2>1, CallsKnown DEF GqlInv, Outer
<1>3. /\ Len(calls') = IF calls' = <<>> THEN 0 ELSE 1
      /\ calls' # <<>> => calls'[1] = loop
      /\ Loop' = IF calls' = <<>> THEN "done" ELSE loop
      /\ DOMAIN calls' \subseteq {1} /\ IsSequence(calls')
  <2>1. calls' = <<>> => Len(calls') = 0 /\ DOMAIN calls' = {} /\ IsSequence(calls') /\ Loop' = "done"
    BY EmptyPath DEF Loop, IsSequence
  <2>2. /\ Len(<<loop>>) = 1 /\ DOMAIN <<loop>> = {1} /\ <<loop>>[1] = loop /\ <<loop>> # <<>>
        /\ IsSequence(<<loop>>)
    <3>1. IsSequence(<<loop>>)
      BY Short
    <3>2. Len(<<loop>>) = 1 /\ DOMAIN <<loop>> = {1} /\ <<loop>>[1] = loop /\ <<loop>> # <<>>
      OBVIOUS
    <3>. QED BY <3>1, <3>2
  <2>3. calls' = <<loop>> => Len(calls') = 1 /\ DOMAIN calls' = {1} /\ calls'[1] = loop /\ calls' # <<>>
                             /\ Loop' = loop
    BY <2>2 DEF Loop, Last
  <2>4. calls' = <<loop>> => IsSequence(calls')
    BY <2>2, Zenon DEF IsSequence
  <2>. QED BY <2>1, <2>3, <2>4
<1>4. Nested'
  BY <1>3 DEF Nested, Outer
<1>5. OfPart' <=> OfPart
  BY <1>2, <1>3 DEF OfPart
<1>6. Collected'
  BY DEF GqlInv, Collected
<1>7. Loop' \notin {"bind", "before"}
  BY <1>3
<1>8. Pending = 0 /\ Pending' = 0
  BY <1>2, <1>3 DEF Pending
<1>9. /\ Stage \in 0 .. 3 /\ (Loop = "before" => Stage = 3) /\ (Loop = "headers" => Stage = 2)
      /\ (Loop = "seek" => Stage = 1)
  BY <1>2 DEF Stage, Outer
<1>10. /\ Stage' \in 0 .. 2 /\ (calls' = <<>> => Stage' = 0) /\ (loop = "seek" => Stage' \in 0 .. 1)
       /\ (loop = "boundary" => Stage' = 0)
  BY <1>3 DEF Stage
<1>11. Besides' < Besides + 6 * (pos' - pos)
  <2>. DEFINE e == Len(calls')
              c == Len(calls)
              s == Stage
              z == Stage'
              p == pos
              q == pos'
  <2>1. Besides = 1 + s /\ Besides' = e + z
    BY <1>2, <1>8, <1>9, <1>10, <1>3 DEF Besides
  <2>2. q > p => e + z < 1 + s + 6 * (q - p)
    <3>1. e \in 0 .. 1 /\ z \in 0 .. 2 /\ s \in Nat /\ q \in Int /\ p \in Int
      BY <1>1, <1>3, <1>9, <1>10
    <3>. HIDE DEF e, z, s, p, q
    <3>. QED BY <3>1
  <2>3. e + z < 1 + s => e + z < 1 + s + 6 * (q - p)
    <3>1. e \in 0 .. 1 /\ z \in 0 .. 2 /\ s \in Nat /\ q \in Int /\ p \in Int /\ q >= p
      BY <1>1, <1>3, <1>9, <1>10
    <3>. HIDE DEF e, z, s, p, q
    <3>. QED BY <3>1
  <2>4. CASE calls' = <<>>
    <3>1. e = 0 /\ z = 0 /\ s \in Nat
      BY <1>3, <1>9, <1>10, <2>4
    <3>. HIDE DEF e, z, s
    <3>2. e + z < 1 + s
      BY <3>1
    <3>. QED BY <2>1, <2>3, <3>2
  <2>5. CASE Loop = "before" \/ (Loop = "headers" /\ loop = "seek") \/ (Loop = "seek" /\ loop = "boundary")
    <3>1. e \in 0 .. 1 /\ z \in 0 .. 2 /\ s \in 1 .. 3 /\ z < s
      BY <1>3, <1>9, <1>10, <2>5
    <3>. HIDE DEF e, z, s
    <3>2. e + z < 1 + s
      BY <3>1
    <3>. QED BY <2>1, <2>3, <3>2
  <2>. HIDE DEF e, z, s
  <2>. QED BY <2>1, <2>2, <2>4, <2>5
<1>. QED BY <1>2, <1>4, <1>5, <1>6, <1>7, <1>11, GqlReadsOn

LEMMA LinesRead ==
  ASSUME GqlInv, Begin \/ BoundaryLine \/ HeaderLine \/ SeekOn
  PROVE  GqlInv' /\ GqlPassesLeft' < GqlPassesLeft
<1>1. /\ IsSequence(text) /\ Len(text) \in Nat /\ pos \in 1 .. Len(text) + 1 /\ InText
      /\ Here \in pos .. Len(text) + 1 /\ Here \in 1 .. Len(text) + 1
  BY GqlLengths, HereEnds DEF GqlInv
<1>2. KeepParser /\ inc' = inc /\ Loop \in {"before", "boundary", "headers", "seek"}
  BY DEF Begin, BoundaryLine, HeaderLine, SeekOn, KeepPayloads
<1>3. Loop \in Outer \ {"part"} /\ calls = <<Loop>>
  <2>1. Loop \in Outer \ {"part"} /\ calls # <<>>
    BY <1>2 DEF Loop, Outer
  <2>2. Len(calls) = 1 /\ Loop = calls[1] /\ IsSequence(calls)
    BY <2>1, CallsKnown DEF GqlInv, Nested
  <2>3. calls = <<Loop>>
    <3>1. Len(<<calls[1]>>) = 1 /\ <<calls[1]>>[1] = calls[1] /\ IsSequence(<<calls[1]>>)
      BY Short
    <3>2. \A i \in 1 .. 1 : calls[i] = <<calls[1]>>[i]
      BY <3>1
    <3>3. calls = <<calls[1]>>
      BY <2>2, <3>1, <3>2, SameSequence
    <3>. QED BY <2>2, <3>3, Zenon
  <2>. QED BY <2>1, <2>3
<1>4. EndOfLine \in pos .. Len(text) + 1 /\ EndOfLine \in 1 .. Len(text) + 1
  <2>1. EndOfLine \in pos .. Len(text) + 1
    BY <1>1, FirstInEnds DEF EndOfLine
  <2>. QED BY <1>1, <2>1
<1>5. Read(text, EndOfLine) \in pos .. Len(text) + 1 /\ (~LastLine => Read(text, EndOfLine) > pos)
  <2>1. Read(text, EndOfLine) \in EndOfLine .. Len(text) + 1
        /\ (EndOfLine <= Len(text) => Read(text, EndOfLine) = EndOfLine + 1)
    BY <1>1, <1>4, ReadOn
  <2>2. ~LastLine => EndOfLine <= Len(text)
    BY <1>1, <1>4 DEF LastLine
  <2>. QED BY <1>1, <1>4, <2>1, <2>2
<1>6. CASE Begin
  <2>. DEFINE p == SkipBlank(text, 1)
  <2>1. pos = 1 /\ Loop = "before"
    BY <1>6 DEF Begin, GqlInv, Parsing
  <2>2. p \in pos .. Len(text) + 1 /\ p \in 1 .. Len(text) + 1
    BY <1>1, <2>1, SkipBlankEnds
  <2>3. /\ calls' \in {<<>>, <<"boundary">>} \/ calls' = <<"response">>
        /\ pos' \in {pos, p} \/ (pos' = p + 1 /\ At(text, p) = "{")
    BY <1>6, Zenon DEF Begin
  <2>. HIDE DEF p
  <2>4. At(text, p) = "{" => At(text, p) # "end"
    BY Zenon
  <2>5. At(text, p) # "end" => p + 1 \in 1 .. Len(text) + 1
    BY <1>1, <2>2, Within
  <2>6. pos' \in {pos, p} \/ (pos' = p + 1 /\ p + 1 \in 1 .. Len(text) + 1)
    BY <2>3, <2>4, <2>5, Zenon
  <2>7. pos' \in pos .. Len(text) + 1
    BY <1>1, <2>1, <2>2, <2>6
  <2>8. calls' \in {<<>>, <<"boundary">>} \/ calls' \in {<<>>, <<"response">>}
    BY <2>3
  <2>. QED BY <1>2, <1>3, <2>1, <2>7, <2>8, GqlFollows
<1>7. CASE BoundaryLine
  <2>1. pos' = Read(text, EndOfLine) /\ Loop = "boundary"
        /\ (calls' = <<>> \/ (~LastLine /\ calls' \in {<<"headers">>, <<"boundary">>}))
    BY <1>3, <1>7 DEF BoundaryLine
  <2>2. pos' \in pos .. Len(text) + 1 /\ (calls' = <<>> \/ pos' > pos)
    BY <1>5, <2>1
  <2>3. calls' \in {<<>>, <<"headers">>} \/ calls' \in {<<>>, <<"boundary">>}
    BY <2>1
  <2>. QED BY <1>2, <1>3, <2>2, <2>3, GqlFollows
<1>8. CASE HeaderLine
  <2>1. pos' = Read(text, EndOfLine) /\ Loop = "headers"
        /\ (calls' = <<"seek">> \/ (~LastLine /\ calls' = <<"headers">>))
    BY <1>3, <1>8 DEF HeaderLine
  <2>2. pos' \in pos .. Len(text) + 1 /\ (calls' = <<"seek">> \/ pos' > pos)
    BY <1>5, <2>1
  <2>. QED BY <1>2, <1>3, <2>1, <2>2, GqlFollows
<1>9. CASE SeekOn
  <2>1. /\ Loop = "seek" /\ pos' \in {Here, Read(text, Here)}
        /\ \/ calls' \in {<<>>, <<"boundary">>}
           \/ calls' = <<"seek">> /\ pos' \in DOMAIN text /\ pos' = Read(text, Here)
    BY <1>3, <1>9, Zenon DEF SeekOn
  <2>2. Read(text, Here) \in Here .. Len(text) + 1 /\ (Here <= Len(text) => Read(text, Here) = Here + 1)
    BY <1>1, ReadOn
  <2>3. pos' \in pos .. Len(text) + 1
    BY <1>1, <2>1, <2>2
  <2>4. calls' = <<"seek">> /\ pos' \in DOMAIN text /\ pos' = Read(text, Here) => pos' > pos
    <3>1. DOMAIN text = 1 .. Len(text)
      BY <1>1, SequenceLength
    <3>2. Read(text, Here) \in 1 .. Len(text) => Read(text, Here) > pos
      BY <1>1, <2>2
    <3>. QED BY <3>1, <3>2
  <2>5. calls' \in {<<>>, <<"boundary">>} \/ (calls' \in {<<>>, <<"seek">>} /\ pos' > pos)
    BY <2>1, <2>4
  <2>. QED BY <1>2, <1>3, <2>1, <2>3, <2>5, GqlFollows
<1>. QED BY <1>6, <1>7, <1>8, <1>9

(* Steps that change the reader or the parser.  What the readers have left,*)
(* the one at work and those that wait.                                    *)
Reading == Left(text, pos) + LeftBehind(1) + LeftBehind(2)

LEMMA ReadingCounted ==
  ASSUME GqlInv
  PROVE  /\ Reading \in Nat /\ Besides \in Nat /\ Len(stack) \in Nat
         /\ GqlPassesLeft = 3 * Reading + Besides + Len(stack)
<1>1. /\ Left(text, pos) \in Nat /\ LeftBehind(1) \in Nat /\ LeftBehind(2) \in Nat
      /\ Pending \in Nat /\ Len(stack) \in Nat /\ Len(calls) \in Nat /\ Stage \in Nat
  BY GqlLengths
<1>. DEFINE d == Len(stack)
            c == Len(calls)
<1>2. GqlPassesLeft = 3 * Reading + Pending + d + c + Stage /\ Besides = Pending + c + Stage
  BY DEF GqlPassesLeft, Reading, Besides
<1>3. Reading \in Nat /\ d \in Nat /\ c \in Nat
  BY <1>1 DEF Reading
<1>. HIDE DEF d, c
<1>4. Besides \in Nat /\ GqlPassesLeft = 3 * Reading + Besides + d
  BY <1>1, <1>2, <1>3
<1>. QED BY <1>3, <1>4 DEF d

LEMMA ReadingNext ==
  ASSUME GqlInv'
  PROVE  /\ Reading' \in Nat /\ Besides' \in Nat /\ Len(stack') \in Nat
         /\ GqlPassesLeft' = 3 * Reading' + Besides' + Len(stack')
<1>1. IsSequence(text') /\ pos' \in 1 .. Len(text') + 1
  BY DEF GqlInv, InText
<1>2. Left(text', pos') \in Nat
  BY <1>1, LeftCounted
<1>3. ASSUME NEW k \in Nat PROVE LeftBehind(k)' \in Nat
  <2>1. k \in DOMAIN readers' => Left(readers'[k].text, readers'[k].pos) \in Nat
    BY LeftCounted DEF GqlInv, Waiting
  <2>. QED BY <2>1 DEF LeftBehind
<1>4. LeftBehind(1)' \in Nat /\ LeftBehind(2)' \in Nat
  BY <1>3
<1>5. Pending' \in Nat /\ Len(calls') \in Nat /\ Stage' \in Nat
  BY BesidesNext DEF GqlInv
<1>6. Len(stack') \in Nat
  BY SequenceLength DEF GqlInv, Parsing, Calls
<1>. DEFINE d == Len(stack')
            c == Len(calls')
            e == Pending'
            f == Stage'
            x == Reading'
            b == Besides'
            m == GqlPassesLeft'
<1>7. m = 3 * x + e + d + c + f /\ b = e + c + f
  BY DEF GqlPassesLeft, Reading, Besides
<1>8. x \in Nat /\ d \in Nat /\ c \in Nat /\ e \in Nat /\ f \in Nat
  BY <1>2, <1>4, <1>5, <1>6 DEF Reading
<1>. HIDE DEF d, c, e, f, x, b, m
<1>9. b \in Nat /\ m = 3 * x + b + d
  BY <1>7, <1>8
<1>. QED BY <1>8, <1>9 DEF d, x, b, m

LEMMA GqlCounts ==
  ASSUME GqlInv, GqlInv', NEW x \in Int, NEW y \in Int, 3 * x + y < 0,
         Reading' <= Reading + x, Besides' + Len(stack') <= Besides + Len(stack) + y
  PROVE  GqlPassesLeft' < GqlPassesLeft
<1>1. ASSUME NEW r \in Int, NEW s \in Int, NEW b \in Int, NEW c \in Int, NEW d \in Int, NEW e \in Int,
             s <= r + x, c + e <= b + d + y
      PROVE  3 * s + c + e < 3 * r + b + d
  BY <1>1
<1>2. /\ Reading \in Int /\ Besides \in Int /\ Len(stack) \in Int
      /\ Reading' \in Int /\ Besides' \in Int /\ Len(stack') \in Int
  BY ReadingCounted, ReadingNext
<1>3. 3 * Reading' + Besides' + Len(stack') < 3 * Reading + Besides + Len(stack)
  BY <1>1, <1>2
<1>. QED BY <1>3, ReadingCounted, ReadingNext

LEMMA ReaderLeft ==
  ASSUME Waiting, Len(readers) < 2, IsSequence(text), NEW p \in 1 .. Len(text) + 1,
         readers' = Append(readers, [text |-> text, pos |-> p])
  PROVE  /\ IsSequence(readers') /\ Len(readers') = Len(readers) + 1
         /\ \A k \in DOMAIN readers' :
              IsSequence(readers'[k].text) /\ readers'[k].pos \in 1 .. Len(readers'[k].text) + 1
         /\ LeftBehind(1)' + LeftBehind(2)' = LeftBehind(1) + LeftBehind(2) + Left(text, p)
<1>. DEFINE r   == [text |-> text, pos |-> p]
            new == Append(readers, r)
            n   == Len(readers)
<1>1. r.text = text /\ r.pos = p
  OBVIOUS
<1>. HIDE DEF r
<1>2. /\ IsSequence(new) /\ n \in Nat /\ Len(new) = n + 1
      /\ DOMAIN readers = 1 .. n /\ DOMAIN new = 1 .. n + 1 /\ new[n + 1] = r
      /\ \A k \in DOMAIN readers : new[k] = readers[k]
  BY Extended DEF Waiting
<1>3. readers' = new
  BY DEF r
<1>. HIDE DEF new
<1>4. ASSUME NEW k \in DOMAIN new
      PROVE  IsSequence(new[k].text) /\ new[k].pos \in 1 .. Len(new[k].text) + 1
  <2>1. CASE k \in DOMAIN readers
    <3>1. new[k] = readers[k]
      BY <1>2, <2>1
    <3>. QED BY <2>1, <3>1 DEF Waiting
  <2>2. CASE k \notin DOMAIN readers
    <3>1. new[k] = r
      BY <1>2, <1>4, <2>2
    <3>. QED BY <1>1, <3>1
  <2>. QED BY <2>1, <2>2
<1>5. LeftBehind(1)' + LeftBehind(2)' = LeftBehind(1) + LeftBehind(2) + Left(text, p)
  <2>1. LeftBehind(1) \in Nat /\ LeftBehind(2) \in Nat /\ Left(text, p) \in Nat
    BY BehindCounted, LeftCounted
  <2>. HIDE DEF n
  <2>2. n \in {0, 1}
    BY <1>2 DEF n
  <2>3. CASE n = 0
    <3>1. 1 \notin DOMAIN readers /\ 2 \notin DOMAIN readers /\ 1 \in DOMAIN new /\ 2 \notin DOMAIN new /\ new[1] = r
      BY <1>2, <2>3
    <3>2. LeftBehind(1) = 0 /\ LeftBehind(2) = 0 /\ LeftBehind(2)' = 0
      BY <1>3, <3>1 DEF LeftBehind
    <3>3. LeftBehind(1)' = Left(text, p)
      BY <1>1, <1>3, <3>1 DEF LeftBehind
    <3>. QED BY <2>1, <3>2, <3>3
  <2>4. CASE n = 1
    <3>1. 1 \in DOMAIN readers /\ 2 \notin DOMAIN readers /\ 1 \in DOMAIN new /\ 2 \in DOMAIN new
          /\ new[1] = readers[1] /\ new[2] = r
      BY <1>2, <2>4
    <3>2. LeftBehind(2) = 0 /\ LeftBehind(1)' = LeftBehind(1)
      BY <1>3, <3>1 DEF LeftBehind
    <3>3. LeftBehind(2)' = Left(text, p)
      BY <1>1, <1>3, <3>1 DEF LeftBehind
    <3>. QED BY <2>1, <3>2, <3>3
  <2>. QED BY <2>2, <2>3, <2>4
<1>. QED BY <1>2, <1>3, <1>4, <1>5 DEF n

LEMMA ReaderBack ==
  ASSUME Waiting, readers # <<>>, readers' = Front(readers)
  PROVE  /\ IsSequence(readers') /\ Len(readers') = Len(readers) - 1
         /\ \A k \in DOMAIN readers' :
              IsSequence(readers'[k].text) /\ readers'[k].pos \in 1 .. Len(readers'[k].text) + 1
         /\ IsSequence(Last(readers).text) /\ Last(readers).pos \in 1 .. Len(Last(readers).text) + 1
         /\ LeftBehind(1)' + LeftBehind(2)'
              = LeftBehind(1) + LeftBehind(2) - Left(Last(readers).text, Last(readers).pos)
<1>. DEFINE n   == Len(readers)
            new == SubSeq(readers, 1, n - 1)
<1>1. n \in 1 .. 2 /\ DOMAIN readers = 1 .. n
  <2>1. n \in Nat /\ n <= 2 /\ DOMAIN readers = 1 .. n
    BY SequenceLength DEF Waiting
  <2>2. n # 0
    BY Short, SameSequence DEF Waiting
  <2>. QED BY <2>1, <2>2
<1>2. /\ IsSequence(new) /\ Len(new) = n - 1 /\ DOMAIN new = 1 .. n - 1
      /\ \A k \in 1 .. n - 1 : new[k] = readers[k]
  BY <1>1, Shortened DEF Waiting
<1>3. readers' = new /\ Last(readers) = readers[n]
  BY DEF Front, Last
<1>. HIDE DEF new
<1>4. \A k \in DOMAIN new : IsSequence(new[k].text) /\ new[k].pos \in 1 .. Len(new[k].text) + 1
  <2>1. ASSUME NEW k \in DOMAIN new PROVE new[k] = readers[k] /\ k \in DOMAIN readers
    BY <1>1, <1>2, <2>1
  <2>. QED BY <2>1 DEF Waiting
<1>5. IsSequence(readers[n].text) /\ readers[n].pos \in 1 .. Len(readers[n].text) + 1
  <2>1. n \in DOMAIN readers
    BY <1>1
  <2>. QED BY <2>1 DEF Waiting
<1>6. LeftBehind(1)' + LeftBehind(2)' = LeftBehind(1) + LeftBehind(2) - Left(readers[n].text, readers[n].pos)
  <2>1. LeftBehind(1) \in Nat /\ LeftBehind(2) \in Nat
    BY BehindCounted
  <2>. HIDE DEF n
  <2>2. CASE n = 1
    <3>1. 1 \in DOMAIN readers /\ 2 \notin DOMAIN readers /\ 1 \notin DOMAIN new /\ 2 \notin DOMAIN new
      BY <1>1, <1>2, <2>2
    <3>2. LeftBehind(1)' = 0 /\ LeftBehind(2)' = 0 /\ LeftBehind(2) = 0
      BY <1>3, <3>1 DEF LeftBehind
    <3>3. LeftBehind(1) = Left(readers[n].text, readers[n].pos)
      BY <2>2, <3>1 DEF LeftBehind
    <3>. QED BY <2>1, <3>2, <3>3
  <2>3. CASE n = 2
    <3>1. 1 \in DOMAIN readers /\ 2 \in DOMAIN readers /\ 1 \in DOMAIN new /\ 2 \notin DOMAIN new
          /\ new[1] = readers[1]
      BY <1>1, <1>2, <2>3
    <3>2. LeftBehind(1)' = LeftBehind(1) /\ LeftBehind(2)' = 0
      BY <1>3, <3>1 DEF LeftBehind
    <3>3. LeftBehind(2) = Left(readers[n].text, readers[n].pos)
      BY <2>3, <3>1 DEF LeftBehind
    <3>. QED BY <2>1, <3>2, <3>3
  <2>. QED BY <1>1, <2>2, <2>3
<1>. QED BY <1>2, <1>3, <1>4, <1>5, <1>6 DEF n

(* Bindings of a copy are not longer than the caller's. *)
NotLonger(list) ==
  \A i \in DOMAIN list :
    i \in DOMAIN own /\ IsSequence(list[i].key) /\ Len(list[i].key) <= Len(own[i].key)

LEMMA OwnKeys ==
  ASSUME Served, NEW i \in DOMAIN own
  PROVE  /\ "key" \in DOMAIN own[i] /\ IsSequence(own[i].key)
         /\ Len(own[i].key) \in Nat \ {0} /\ 1 <= Len(own[i].key)
         /\ Len(own[i].key) <= Len(own[i].key)
         /\ IsSequence(Tail(own[i].key)) /\ Len(Tail(own[i].key)) <= Len(own[i].key)
<1>. DEFINE k == own[i].key
<1>1. "key" \in DOMAIN own[i] /\ IsSequence(k) /\ k # <<>>
  BY DEF Served
<1>2. k \in Seq(Elements(k)) /\ Len(k) \in Nat
  BY <1>1, SequenceLength DEF IsSequence, Elements
<1>. HIDE DEF k, Elements
<1>3. Tail(k) \in Seq(Elements(k)) /\ Len(Tail(k)) = Len(k) - 1 /\ Len(k) # 0
  BY <1>1, <1>2
<1>4. IsSequence(Tail(k))
  BY <1>3, Sequences
<1>5. Len(k) \in Nat \ {0} /\ 1 <= Len(k) /\ Len(k) <= Len(k) /\ Len(Tail(k)) <= Len(k)
  BY <1>2, <1>3
<1>. QED BY <1>1, <1>3, <1>4, <1>5 DEF k

LEMMA ElsewhereShort == IsSequence(Elsewhere) /\ Len(Elsewhere) = 1
<1>1. IsSequence(Elsewhere)
  BY Short DEF Elsewhere
<1>. QED BY <1>1 DEF Elsewhere

LEMMA SingleNotLonger ==
  ASSUME Served
  PROVE  NotLonger(Rebased(InSingle))
<1>. DEFINE list == Rebased(InSingle)
<1>1. DOMAIN list = DOMAIN own
  BY DEF Rebased
<1>2. ASSUME NEW i \in DOMAIN own
      PROVE  IsSequence(list[i].key) /\ Len(list[i].key) <= Len(own[i].key)
  <2>1. list[i].key = InSingle(i)
    BY OwnKeys DEF Rebased
  <2>2. InSingle(i) \in {Elsewhere, Tail(own[i].key)}
    BY DEF InSingle
  <2>3. IsSequence(InSingle(i)) /\ Len(InSingle(i)) <= Len(own[i].key)
    <3>1. CASE InSingle(i) = Elsewhere
      BY <3>1, OwnKeys, ElsewhereShort DEF IsSequence
    <3>2. CASE InSingle(i) = Tail(own[i].key)
      BY <3>2, OwnKeys DEF IsSequence
    <3>. QED BY <2>2, <3>1, <3>2
  <2>. QED BY <2>1, <2>3 DEF IsSequence
<1>. QED BY <1>1, <1>2 DEF NotLonger

LEMMA PartNotLonger ==
  ASSUME Served
  PROVE  NotLonger(Rebased(InPart))
<1>. DEFINE list == Rebased(InPart)
<1>1. DOMAIN list = DOMAIN own
  BY DEF Rebased
<1>2. ASSUME NEW i \in DOMAIN own
      PROVE  IsSequence(list[i].key) /\ Len(list[i].key) <= Len(own[i].key)
  <2>1. list[i].key = InPart(i)
    BY OwnKeys DEF Rebased
  <2>2. InPart(i) \in {own[i].key, Tail(own[i].key)}
    BY DEF InPart
  <2>3. IsSequence(InPart(i)) /\ Len(InPart(i)) <= Len(own[i].key)
    <3>1. CASE InPart(i) = own[i].key
      BY <3>1, OwnKeys DEF IsSequence
    <3>2. CASE InPart(i) = Tail(own[i].key)
      BY <3>2, OwnKeys DEF IsSequence
    <3>. QED BY <2>2, <3>1, <3>2
  <2>. QED BY <2>1, <2>3 DEF IsSequence
<1>. QED BY <1>1, <1>2 DEF NotLonger

LEMMA PayloadNotLonger ==
  ASSUME Served, Collected
  PROVE  NotLonger(Rebased(InPayload))
<1>. DEFINE list == Rebased(InPayload)
<1>1. DOMAIN list = DOMAIN own
  BY DEF Rebased
<1>2. Len(Prefix) \in Nat /\ Len(Prefix) >= 1
  <2>1. inc.path \in Seq(Elements(inc.path)) /\ Len(inc.path) \in Nat
    BY SequenceLength DEF Collected, IsSequence, Elements
  <2>2. DataPath \in Seq({Data}) /\ Len(DataPath) = 1
    BY DEF DataPath
  <2>. DEFINE E == Elements(inc.path) \cup {Data}
  <2>3. DataPath \in Seq(E) /\ inc.path \in Seq(E)
    BY <2>1, <2>2
  <2>. HIDE DEF E
  <2>4. Len(DataPath \o inc.path) = 1 + Len(inc.path)
    BY <2>2, <2>3, Joined
  <2>. QED BY <2>1, <2>4 DEF Prefix
<1>3. ASSUME NEW i \in DOMAIN own
      PROVE  IsSequence(list[i].key) /\ Len(list[i].key) <= Len(own[i].key)
  <2>. DEFINE k == own[i].key
              n == Len(Prefix)
  <2>1. list[i].key = InPayload(i)
    BY OwnKeys DEF Rebased
  <2>2. IsSequence(k) /\ Len(k) \in Nat \ {0} /\ Len(Elsewhere) = 1 /\ IsSequence(Elsewhere)
    BY OwnKeys, ElsewhereShort
  <2>3. CASE ~Matched(i)
    <3>1. InPayload(i) = Elsewhere
      BY <2>3 DEF InPayload
    <3>. QED BY <2>1, <2>2, <3>1 DEF IsSequence
  <2>4. CASE Matched(i)
    <3>. DEFINE ended == SubSeq(k[n], Len(Prefix[n]) + 1, Len(k[n]))
                a     == IF ended = <<>> THEN <<>> ELSE <<ended>>
                b     == SubSeq(k, n + 1, Len(k))
                E     == Elements(k) \cup {ended}
    <3>1. n <= Len(k)
      BY <1>2, <2>2, <2>4 DEF Matched
    <3>2. InPayload(i) = a \o b
      BY <2>4 DEF InPayload
    <3>3. k \in Seq(Elements(k))
      BY <2>2 DEF IsSequence, Elements
    <3>. HIDE DEF k, n, ended, Elements
    <3>4. b \in Seq(Elements(k)) /\ Len(b) = Len(k) - n
      BY <1>2, <2>2, <3>1, <3>3 DEF n
    <3>5. a \in Seq({ended}) /\ Len(a) \in 0 .. 1
      <4>1. <<>> \in Seq({ended}) /\ <<ended>> \in Seq({ended}) /\ Len(<<>>) = 0 /\ Len(<<ended>>) = 1
        OBVIOUS
      <4>2. a \in {<<>>, <<ended>>}
        OBVIOUS
      <4>. HIDE DEF a
      <4>3. CASE a = <<>>
        BY <4>1, <4>3
      <4>4. CASE a = <<ended>>
        BY <4>1, <4>4
      <4>. QED BY <4>2, <4>3, <4>4
    <3>. HIDE DEF a, b
    <3>6. a \in Seq(E) /\ b \in Seq(E)
      BY <3>4, <3>5
    <3>. HIDE DEF E
    <3>7. a \o b \in Seq(E) /\ Len(a \o b) = Len(a) + Len(b)
      BY <3>6
    <3>8. IsSequence(a \o b)
      BY <3>7, Sequences
    <3>9. Len(a \o b) <= Len(k)
      <4>1. /\ Len(a) \in 0 .. 1 /\ Len(k) \in Nat /\ n \in Nat /\ n >= 1
            /\ Len(a \o b) = Len(a) + (Len(k) - n)
        BY <1>2, <2>2, <3>4, <3>5, <3>7 DEF k, n
      <4>2. ASSUME NEW u \in 0 .. 1, NEW v \in Nat, NEW w \in Nat, w >= 1
            PROVE  u + (v - w) <= v
        BY <4>2
      <4>. QED BY <4>1, <4>2
    <3>. QED BY <2>1, <3>2, <3>8, <3>9 DEF k, IsSequence
  <2>. QED BY <2>3, <2>4
<1>. QED BY <1>1, <1>3 DEF NotLonger

(* A copy is parsed, while the reader left waits at p. *)
LEMMA CopyParsed ==
  ASSUME GqlInv, Loop # "bind", NEW copy, IsSequence(copy), NEW list, NotLonger(list),
         NEW p \in 1 .. Len(text) + 1, ParseCopy(copy, list, p), UNCHANGED <<stack, phase, own>>,
         Nested', Loop' = "bind", OfPart' <=> OfPart, Collected'
  PROVE  GqlInv' /\ Reading' = Reading - Left(text, pos) + Left(text, p) + Left(copy, 1)
<1>1. /\ text' = copy /\ pos' = 1 /\ bindings' = list
      /\ readers' = Append(readers, [text |-> text, pos |-> p])
  BY DEF ParseCopy
<1>2. IsSequence(text) /\ Len(copy) \in Nat /\ 1 \in 1 .. Len(copy) + 1
  BY SequenceLength DEF GqlInv, InText
<1>3. Len(readers) = (IF OfPart THEN 1 ELSE 0) /\ stack = <<>> /\ phase = "start"
  BY DEF GqlInv, Waiting, Parsing
<1>4. Len(readers) < 2
  BY <1>3
<1>5. /\ IsSequence(readers') /\ Len(readers') = Len(readers) + 1
      /\ \A k \in DOMAIN readers' :
           IsSequence(readers'[k].text) /\ readers'[k].pos \in 1 .. Len(readers'[k].text) + 1
      /\ LeftBehind(1)' + LeftBehind(2)' = LeftBehind(1) + LeftBehind(2) + Left(text, p)
  BY <1>1, <1>2, <1>4, ReaderLeft DEF GqlInv
<1>6. InText'
  BY <1>1, <1>2 DEF InText
<1>7. Waiting'
  <2>. DEFINE n == Len(readers')
  <2>1. n = IF OfPart' THEN 2 ELSE 1
    BY <1>3, <1>5
  <2>. HIDE DEF n
  <2>2. n <= 2 /\ IF OfPart' THEN n = 2 ELSE n <= 1
    BY <2>1
  <2>. QED BY <1>5, <2>2 DEF Waiting, n
<1>8. Served'
  BY <1>1 DEF NotLonger, Served, GqlInv
<1>9. Calls(0)'
  <2>1. stack' = <<>> /\ IsSequence(<<>>) /\ DOMAIN <<>> = {}
    BY <1>3, EmptyPath
  <2>. QED BY <2>1 DEF Calls, IsSequence
<1>10. Parsing'
  BY <1>1, <1>3, <1>9 DEF Parsing
<1>11. Reading' = Reading - Left(text, pos) + Left(text, p) + Left(copy, 1)
  <2>1. LeftBehind(1) \in Nat /\ LeftBehind(2) \in Nat /\ Left(text, pos) \in Nat
    BY GqlLengths
  <2>2. Left(text, p) \in Nat /\ Left(copy, 1) \in Nat
    BY <1>2, LeftCounted
  <2>. DEFINE b == LeftBehind(1)'
              c == LeftBehind(2)'
              d == b + c
  <2>3. Reading' = Left(copy, 1) + b + c /\ Reading = Left(text, pos) + LeftBehind(1) + LeftBehind(2)
    BY <1>1 DEF Reading
  <2>4. d = LeftBehind(1) + LeftBehind(2) + Left(text, p)
    BY <1>5
  <2>5. b \in Nat /\ c \in Nat
    <3>1. ASSUME NEW k \in Nat PROVE LeftBehind(k)' \in Nat
      BY <1>5, LeftCounted DEF LeftBehind
    <3>. QED BY <3>1
  <2>. HIDE DEF b, c
  <2>. QED BY <2>1, <2>2, <2>3, <2>4, <2>5 DEF d
<1>. QED BY <1>6, <1>7, <1>8, <1>10, <1>11 DEF GqlInv

(* The parser is called by the loop over a response or a part. *)
LEMMA BindCalled ==
  ASSUME GqlInv, calls # <<>>, Loop \in {"response", "part"}, calls' = Append(calls, "bind"),
         inc' = inc
  PROVE  /\ Nested' /\ Loop' = "bind" /\ (OfPart' <=> OfPart) /\ Collected'
         /\ Besides = 1 + Stage /\ Besides' = 2 + Stage' /\ Stage \in 0 .. 1
         /\ phase' = "start" => Stage' = Stage + 2
         /\ phase' = "parsing" => Stage' = Stage + 1
<1>1. Loop \in Outer /\ Inside(Loop, "bind")
  BY DEF Outer, Inside
<1>2. Len(calls) = 1 /\ Loop = calls[1] /\ 1 \in DOMAIN calls
  <2>1. Len(calls) = 1 /\ Loop = calls[1] /\ DOMAIN calls = 1 .. 1
    BY <1>1, CallsKnown DEF GqlInv
  <2>2. 1 \in 1 .. 1
    OBVIOUS
  <2>. QED BY <2>1, <2>2, Zenon
<1>3. /\ Nested' /\ Len(calls') = 2 /\ Loop' = "bind" /\ calls' # <<>> /\ calls'[1] = calls[1]
      /\ OfPart' <=> OfPart
  BY <1>1, <1>2, CallsPushed DEF GqlInv
<1>4. Pending = 0 /\ Pending' = 0
  BY <1>2, <1>3 DEF Pending
<1>5. Stage = IF Loop = "part" THEN 1 ELSE 0
  BY <1>2 DEF Stage
<1>6. /\ phase' = "start" => Stage' = Stage + 2
      /\ phase' = "parsing" => Stage' = Stage + 1
      /\ Stage' \in Nat
  BY <1>2, <1>3, <1>5 DEF Stage
<1>7. Besides = 1 + Stage /\ Besides' = 2 + Stage'
  BY <1>2, <1>3, <1>4, <1>5, <1>6 DEF Besides
<1>. QED BY <1>3, <1>5, <1>6, <1>7 DEF GqlInv, Collected

(* Data are copied, and the copy is parsed. *)
LEMMA MemberCopied ==
  ASSUME GqlInv, AtMember, At(text, MemberPos) \in Opening, NEW list, NotLonger(list),
         calls # <<>>, Loop \in {"response", "part"}, calls' = Append(calls, "bind"), inc' = inc,
         ParseCopy(Raw(text, MemberPos), list, EndOfRaw(text, MemberPos)),
         UNCHANGED <<stack, phase, own>>
  PROVE  GqlInv' /\ GqlPassesLeft' < GqlPassesLeft
<1>. DEFINE copy == Raw(text, MemberPos)
            p    == EndOfRaw(text, MemberPos)
<1>1. IsSequence(text) /\ Len(text) \in Nat /\ pos \in 1 .. Len(text) + 1 /\ InText
  BY GqlLengths DEF GqlInv
<1>2. MemberPos \in 1 .. Len(text) + 1 /\ MemberPos \in pos + 2 .. Len(text) + 1
  BY <1>1, MemberPlaces
<1>3. p \in MemberPos .. Len(text) + 1
  BY <1>1, <1>2, RawEnds
<1>4. copy = SubSeq(text, MemberPos, p - 1)
  BY DEF Raw
<1>5. ParseCopy(copy, list, p)
  OBVIOUS
<1>. HIDE DEF copy, p
<1>6. IsSequence(copy) /\ Len(copy) = p - MemberPos
  BY <1>1, <1>2, <1>3, <1>4, SliceFits
<1>7. /\ Nested' /\ Loop' = "bind" /\ (OfPart' <=> OfPart) /\ Collected'
      /\ Besides = 1 + Stage /\ Besides' = 2 + Stage' /\ Stage \in 0 .. 1
      /\ phase' = "start" => Stage' = Stage + 2
  BY BindCalled
<1>8. Loop # "bind" /\ phase = "start" /\ p \in 1 .. Len(text) + 1
  BY <1>1, <1>2, <1>3 DEF GqlInv, Parsing
<1>9. GqlInv' /\ Reading' = Reading - Left(text, pos) + Left(text, p) + Left(copy, 1)
  BY <1>5, <1>6, <1>7, <1>8, CopyParsed
<1>10. Reading' <= Reading + (0 - 4)
  <2>1. ASSUME NEW r \in Int, NEW l \in Int, NEW i \in Int, NEW m \in Int, NEW e \in Int, m >= i + 2
        PROVE  r - 2 * (l + 1 - i) + 2 * (l + 1 - e) + 2 * ((e - m) + 1 - 1) <= r + (0 - 4)
    BY <2>1
  <2>. DEFINE L == Len(text)
              m == MemberPos
  <2>2. Left(text, pos) = 2 * (L + 1 - pos) /\ Left(text, p) = 2 * (L + 1 - p)
        /\ Left(copy, 1) = 2 * ((p - m) + 1 - 1)
    BY <1>6 DEF Left
  <2>3. L \in Int /\ pos \in Int /\ m \in Int /\ p \in Int /\ m >= pos + 2
    BY <1>1, <1>2, <1>3
  <2>4. Reading \in Int
    BY ReadingCounted
  <2>. HIDE DEF L, m
  <2>5. Reading - 2 * (L + 1 - pos) + 2 * (L + 1 - p) + 2 * ((p - m) + 1 - 1) <= Reading + (0 - 4)
    BY <2>1, <2>3, <2>4
  <2>. QED BY <1>9, <2>2, <2>5
<1>11. Besides' + Len(stack') <= Besides + Len(stack) + 3
  <2>1. Len(stack') = Len(stack) /\ Len(stack) \in Nat
    BY ReadingCounted
  <2>2. Stage' = Stage + 2
    BY <1>7, <1>8
  <2>. QED BY <1>7, <2>1, <2>2
<1>. QED BY <1>9, <1>10, <1>11, GqlCounts

LEMMA DataRead ==
  ASSUME GqlInv, DataCopied \/ PartData
  PROVE  GqlInv' /\ GqlPassesLeft' < GqlPassesLeft
<1>1. IsSequence(text) /\ Len(text) \in Nat /\ pos \in 1 .. Len(text) + 1 /\ InText
  BY GqlLengths DEF GqlInv
<1>2. AtMember /\ Loop \in {"response", "part"} /\ inc' = inc /\ UNCHANGED <<body, stack, phase, rest>>
  BY DEF DataCopied, PartData, AtKnown, KeepPayloads
<1>3. calls # <<>> /\ Loop \notin {"bind", "before"} /\ own' = own
  BY <1>2 DEF Loop, rest
<1>4. At(text, MemberPos) \in Opening
  <2>1. PartData => At(text, MemberPos) \in Opening
    BY DEF PartData, AtKnown, Known
  <2>. QED BY <2>1 DEF DataCopied
<1>5. \/ GoOn(EndOfRaw(text, MemberPos)) /\ UNCHANGED <<calls, text, bindings, readers>>
      \/ calls' = Append(calls, "bind")
         /\ \/ ParseCopy(Raw(text, MemberPos), Rebased(InSingle), EndOfRaw(text, MemberPos))
            \/ ParseCopy(Raw(text, MemberPos), Rebased(InPart), EndOfRaw(text, MemberPos))
  <2>1. CASE DataCopied
    BY <2>1 DEF DataCopied
  <2>2. CASE PartData
    BY <2>2 DEF PartData
  <2>. QED BY <2>1, <2>2
<1>6. CASE GoOn(EndOfRaw(text, MemberPos)) /\ UNCHANGED <<calls, text, bindings, readers>>
  <2>1. MemberPos \in 1 .. Len(text) + 1
    BY <1>1, <1>2, MemberPlaces
  <2>2. EndOfRaw(text, MemberPos) \in MemberPos .. Len(text) + 1
    BY <1>1, <1>4, <2>1, RawEnds
  <2>3. pos' \in pos + 2 .. Len(text) + 1
    BY <1>1, <1>2, <1>6, <2>2, MemberGoesOn
  <2>4. pos' \in pos + 1 .. Len(text) + 1
    BY <1>1, <2>3
  <2>5. KeepParser
    BY <1>2, <1>6 DEF KeepParser
  <2>. QED BY <1>2, <1>3, <1>6, <2>4, <2>5, GqlReads
<1>7. NotLonger(Rebased(InSingle)) /\ NotLonger(Rebased(InPart))
  BY SingleNotLonger, PartNotLonger DEF GqlInv
<1>8. ASSUME calls' = Append(calls, "bind"), NEW list, NotLonger(list),
             ParseCopy(Raw(text, MemberPos), list, EndOfRaw(text, MemberPos))
      PROVE  GqlInv' /\ GqlPassesLeft' < GqlPassesLeft
  BY <1>2, <1>3, <1>4, <1>8, MemberCopied
<1>. QED BY <1>5, <1>6, <1>7, <1>8

LEMMA AppendedTwo ==
  ASSUME NEW s, IsSequence(s), NEW a, NEW b
  PROVE  s \o <<a, b>> = Append(Append(s, a), b)
<1>. DEFINE E == Elements(s) \cup {a, b}
<1>1. s \in Seq(Elements(s))
  BY DEF IsSequence, Elements
<1>. HIDE DEF Elements
<1>2. s \in Seq(E) /\ a \in E /\ b \in E
  BY <1>1
<1>. HIDE DEF E
<1>. QED BY <1>2

(* At the end of a payload, its loop is followed by the delivery, ... *)
LEMMA DeliveryNext ==
  ASSUME GqlInv, Loop = "payload"
  PROVE  LET s == Append(Front(calls), "deliver")
         IN  /\ IsSequence(s) /\ Len(s) = 3 /\ DOMAIN s = 1 .. 3
             /\ s[1] = "part" /\ s[2] = "incremental" /\ s[3] = "deliver"
             /\ Len(calls) = 3 /\ calls[1] = "part" /\ calls[3] = "payload"
             /\ IsSequence(Front(calls))
<1>. DEFINE f == Front(calls)
            s == Append(f, "deliver")
<1>1. calls # <<>>
  BY DEF Loop
<1>2. /\ Len(calls) = 3 /\ OfPart /\ calls[3] = "payload" /\ DOMAIN calls = 1 .. 3
  <2>1. Len(calls) = 3 /\ OfPart /\ Loop = calls[Len(calls)] /\ DOMAIN calls = 1 .. Len(calls)
    BY <1>1, CallsKnown DEF GqlInv
  <2>. QED BY <2>1
<1>3. calls[1] = "part" /\ calls[2] = "incremental"
  <2>1. calls[1] = "part"
    BY <1>2 DEF OfPart
  <2>2. Inside(calls[2], calls[3])
    <3>1. 3 \in DOMAIN calls /\ 3 # 1 /\ 3 - 1 = 2
      BY <1>2
    <3>2. Inside(calls[3 - 1], calls[3])
      BY <3>1 DEF GqlInv, Nested
    <3>. QED BY <3>1, <3>2
  <2>. QED BY <1>2, <2>1, <2>2 DEF Inside
<1>4. /\ IsSequence(f) /\ Len(f) = 2 /\ DOMAIN f = 1 .. 2 /\ f[1] = calls[1] /\ f[2] = calls[2]
  <2>1. f = SubSeq(calls, 1, Len(calls) - 1)
    BY DEF Front
  <2>2. Len(calls) - 1 = 2 /\ 2 \in 0 .. Len(calls)
    BY <1>2
  <2>3. f = SubSeq(calls, 1, 2)
    BY <2>1, <2>2
  <2>4. /\ IsSequence(f) /\ Len(f) = 2 /\ DOMAIN f = 1 .. 2 /\ \A i \in 1 .. 2 : f[i] = calls[i]
    BY <2>2, <2>3, Shortened DEF GqlInv, Nested
  <2>. HIDE DEF f
  <2>5. 1 \in 1 .. 2 /\ 2 \in 1 .. 2
    OBVIOUS
  <2>. QED BY <2>4, <2>5
<1>. HIDE DEF f
<1>5. /\ IsSequence(s) /\ Len(s) = Len(f) + 1 /\ DOMAIN s = 1 .. Len(f) + 1 /\ s[Len(f) + 1] = "deliver"
      /\ \A i \in DOMAIN f : s[i] = f[i]
  BY <1>4, Extended
<1>. HIDE DEF s
<1>6. Len(s) = 3 /\ DOMAIN s = 1 .. 3 /\ s[3] = "deliver"
  <2>1. Len(f) + 1 = 3
    BY <1>4
  <2>. QED BY <1>5, <2>1
<1>7. s[1] = "part" /\ s[2] = "incremental"
  <2>1. 1 \in DOMAIN f /\ 2 \in DOMAIN f
    BY <1>4
  <2>. QED BY <1>3, <1>4, <1>5, <2>1
<1>. QED BY <1>2, <1>3, <1>4, <1>5, <1>6, <1>7 DEF s, f

(* ... or the parser is called first. *)
LEMMA PayloadEnds ==
  ASSUME GqlInv, EndOfPayload
  PROVE  GqlInv' /\ GqlPassesLeft' < GqlPassesLeft
<1>. DEFINE s == Append(Front(calls), "deliver")
            n == Append(s, "bind")
<1>1. IsSequence(text) /\ Len(text) \in Nat /\ pos \in 1 .. Len(text) + 1 /\ InText
  BY GqlLengths DEF GqlInv
<1>2. /\ Loop = "payload" /\ AtEndOf("}") /\ inc' = inc /\ UNCHANGED <<body, stack, phase, rest>>
  BY Zenon DEF EndOfPayload, KeepPayloads
<1>3. calls # <<>> /\ Loop # "bind" /\ OfPart /\ phase = "start" /\ stack = <<>> /\ own' = own
  <2>1. calls # <<>> /\ Loop # "bind"
    BY <1>2 DEF Loop
  <2>2. OfPart
    BY <1>2, <2>1, CallsKnown DEF GqlInv
  <2>. QED BY <1>2, <2>1, <2>2 DEF GqlInv, Parsing, rest
<1>4. /\ IsSequence(s) /\ Len(s) = 3 /\ DOMAIN s = 1 .. 3
      /\ s[1] = "part" /\ s[2] = "incremental" /\ s[3] = "deliver"
      /\ Len(calls) = 3 /\ calls[1] = "part" /\ calls[3] = "payload"
      /\ IsSequence(Front(calls))
  BY <1>2, DeliveryNext
<1>5. \/ calls' = s /\ GoOn(Behind) /\ UNCHANGED <<text, bindings, readers>>
      \/ calls' = n /\ ParseCopy(inc.data, Rebased(InPayload), Behind)
  <2>1. Front(calls) \o <<"deliver", "bind">> = n
    BY <1>4, AppendedTwo
  <2>2. \/ calls' = s /\ GoOn(Behind) /\ UNCHANGED <<text, bindings, readers>>
        \/ calls' = Front(calls) \o <<"deliver", "bind">> /\ ParseCopy(inc.data, Rebased(InPayload), Behind)
    BY Zenon DEF EndOfPayload
  <2>. QED BY <2>1, <2>2, Zenon
<1>. HIDE DEF s
<1>6. Collected' /\ IsSequence(inc.data)
  BY <1>2 DEF GqlInv, Collected
<1>7. /\ Pending = 3 * Left(inc.data, 1) + 4 /\ Left(inc.data, 1) \in Nat /\ Stage = 1
      /\ Besides = 3 * Left(inc.data, 1) + 8
  <2>1. Pending = 3 * Left(inc.data, 1) + 4 /\ Left(inc.data, 1) \in Nat
    BY <1>4, PendingCounted DEF Pending, GqlInv
  <2>2. Stage = 1
    <3>1. calls # <<>> /\ calls[1] = "part" /\ Loop # "bind"
      BY <1>3, <1>4
    <3>. QED BY <3>1 DEF Stage
  <2>. QED BY <1>4, <2>1, <2>2 DEF Besides
<1>8. "}" # "end"
  BY Zenon
<1>9. Behind \in pos .. Len(text) + 1 /\ Behind \in 1 .. Len(text) + 1
  BY <1>1, <1>2, <1>8, BehindPlaces
<1>10. ASSUME NEW k \in 1 .. 3, k # 1 PROVE Inside(s[k - 1], s[k])
  <2>1. CASE k = 2
    <3>1. k - 1 = 1
      BY <2>1
    <3>. QED BY <1>4, <2>1, <3>1 DEF Inside
  <2>2. CASE k = 3
    <3>1. k - 1 = 2
      BY <2>2
    <3>. QED BY <1>4, <2>2, <3>1 DEF Inside
  <2>. QED BY <1>10, <2>1, <2>2
<1>11. s # <<>> /\ s[1] \in Outer
  <2>1. s # <<>>
    BY <1>4, EmptyPath
  <2>. QED BY <1>4, <2>1 DEF Outer
<1>12. CASE calls' = s /\ GoOn(Behind) /\ UNCHANGED <<text, bindings, readers>>
  <2>1. Nested'
    BY <1>4, <1>10, <1>11, <1>12 DEF Nested, IsSequence
  <2>2. Loop' = "deliver" /\ (OfPart' <=> OfPart)
    BY <1>3, <1>4, <1>11, <1>12 DEF Loop, Last, OfPart
  <2>3. Besides' = 4
    <3>1. Pending' = 0
      BY <1>4, <1>12 DEF Pending
    <3>2. Stage' = 1
      BY <1>4, <1>11, <1>12, <2>2 DEF Stage
    <3>3. Len(calls') = 3
      BY <1>4, <1>12
    <3>4. Besides' = Pending' + Len(calls') + Stage'
      BY DEF Besides
    <3>. QED BY <3>1, <3>2, <3>3, <3>4
  <2>4. pos' \in pos .. Len(text) + 1
    BY <1>1, <1>2, <1>8, <1>12, BehindGoesOn
  <2>5. Besides' < Besides + 6 * (pos' - pos)
    <3>1. ASSUME NEW i \in Int, NEW j \in Int, NEW l \in Nat, j >= i
          PROVE  4 < 3 * l + 8 + 6 * (j - i)
      BY <3>1
    <3>2. pos \in Int /\ pos' \in Int /\ pos' >= pos
      BY <1>1, <2>4
    <3>. QED BY <1>7, <2>3, <3>1, <3>2
  <2>6. KeepParser /\ Loop' \notin {"bind", "before"}
    BY <1>2, <1>12, <2>2 DEF KeepParser
  <2>. QED BY <1>3, <1>6, <2>1, <2>2, <2>4, <2>5, <2>6, GqlReadsOn
<1>13. CASE calls' = n /\ ParseCopy(inc.data, Rebased(InPayload), Behind)
  <2>1. /\ IsSequence(n) /\ Len(n) = 4 /\ DOMAIN n = 1 .. 4 /\ n[4] = "bind"
        /\ \A i \in 1 .. 3 : n[i] = s[i]
    <3>1. /\ IsSequence(n) /\ Len(n) = Len(s) + 1 /\ DOMAIN n = 1 .. Len(s) + 1 /\ n[Len(s) + 1] = "bind"
          /\ \A i \in DOMAIN s : n[i] = s[i]
      <4>1. IsSequence(s)
        BY <1>4
      <4>. QED BY <4>1, Extended
    <3>2. Len(s) + 1 = 4
      BY <1>4
    <3>. HIDE DEF n
    <3>. QED BY <1>4, <3>1, <3>2
  <2>. HIDE DEF n
  <2>2. n # <<>> /\ n[1] = "part" /\ n[3] = "deliver"
    BY <1>4, <2>1, EmptyPath
  <2>3. ASSUME NEW k \in 1 .. 4, k # 1 PROVE Inside(n[k - 1], n[k])
    <3>1. CASE k = 4
      <4>1. k - 1 = 3
        BY <3>1
      <4>. QED BY <2>1, <2>2, <3>1, <4>1 DEF Inside
    <3>2. CASE k # 4
      <4>1. k \in 1 .. 3 /\ k - 1 \in 1 .. 3
        BY <2>3, <3>2
      <4>2. n[k] = s[k] /\ n[k - 1] = s[k - 1]
        BY <2>1, <4>1
      <4>. QED BY <1>10, <2>3, <4>1, <4>2
    <3>. QED BY <3>1, <3>2
  <2>4. Nested'
    BY <1>13, <2>1, <2>2, <2>3 DEF Nested, IsSequence, Outer
  <2>5. Loop' = "bind" /\ (OfPart' <=> OfPart)
    BY <1>3, <1>13, <2>1, <2>2 DEF Loop, Last, OfPart
  <2>6. NotLonger(Rebased(InPayload))
    BY PayloadNotLonger DEF GqlInv
  <2>7. GqlInv' /\ Reading' = Reading - Left(text, pos) + Left(text, Behind) + Left(inc.data, 1)
    BY <1>2, <1>3, <1>6, <1>9, <1>13, <2>4, <2>5, <2>6, CopyParsed
  <2>8. Besides' = 7
    <3>1. Pending' = 0
      BY <1>13, <2>1, <2>2 DEF Pending
    <3>2. Stage' = 3
      <4>1. calls' # <<>> /\ calls'[1] = "part" /\ Loop' = "bind" /\ phase' = "start"
        BY <1>2, <1>3, <1>13, <2>2, <2>5
      <4>. QED BY <4>1 DEF Stage
    <3>. QED BY <1>13, <2>1, <3>1, <3>2 DEF Besides
  <2>. DEFINE l == Left(inc.data, 1)
  <2>9. Reading' <= Reading + l
    <3>1. ASSUME NEW r \in Int, NEW t \in Int, NEW i \in Int, NEW j \in Int, NEW k \in Int, j >= i
          PROVE  r - 2 * (t + 1 - i) + 2 * (t + 1 - j) + k <= r + k
      BY <3>1
    <3>2. Reading \in Int /\ Len(text) \in Int /\ pos \in Int /\ Behind \in Int /\ l \in Int /\ Behind >= pos
      BY <1>1, <1>7, <1>9, ReadingCounted
    <3>3. Left(text, pos) = 2 * (Len(text) + 1 - pos) /\ Left(text, Behind) = 2 * (Len(text) + 1 - Behind)
      BY DEF Left
    <3>4. Reading' = Reading - 2 * (Len(text) + 1 - pos) + 2 * (Len(text) + 1 - Behind) + l
      BY <2>7, <3>3
    <3>. HIDE DEF l
    <3>. QED BY <3>1, <3>2, <3>4
  <2>10. /\ l \in Int /\ (0 - 1) - 3 * l \in Int /\ 3 * l + ((0 - 1) - 3 * l) < 0
         /\ Besides' + Len(stack') <= Besides + Len(stack) + ((0 - 1) - 3 * l)
    <3>1. l \in Nat /\ Besides = 3 * l + 8
      BY <1>7
    <3>2. Len(stack') = Len(stack) /\ Len(stack) \in Nat
      BY <1>2, ReadingCounted
    <3>. HIDE DEF l
    <3>. DEFINE d == Len(stack)
    <3>3. Besides' + d <= Besides + d + ((0 - 1) - 3 * l)
      <4>1. d \in Nat
        BY <3>2
      <4>. HIDE DEF d
      <4>. QED BY <2>8, <3>1, <4>1
    <3>. QED BY <3>1, <3>2, <3>3
  <2>. HIDE DEF l
  <2>. QED BY <2>7, <2>9, <2>10, GqlCounts
<1>. QED BY <1>5, <1>12, <1>13

(* The parser reads the response itself. *)
LEMMA StreamRead ==
  ASSUME GqlInv, DataStreamed
  PROVE  GqlInv' /\ GqlPassesLeft' < GqlPassesLeft
<1>. DEFINE kind == KindOf(At(text, MemberPos))
<1>1. IsSequence(text) /\ Len(text) \in Nat /\ pos \in 1 .. Len(text) + 1 /\ InText
  BY GqlLengths DEF GqlInv
<1>2. /\ AtMember /\ Loop = "response" /\ At(text, MemberPos) \in Opening
      /\ inc' = inc /\ UNCHANGED <<body, text, bindings, readers, rest>>
      /\ calls' = Append(calls, "bind") /\ pos' = MemberPos + 1 /\ phase' = "parsing"
      /\ stack' = <<Frame(kind, DataPath)>>
  BY DEF DataStreamed, AtKnown, Known, Enter, KeepPayloads
<1>3. kind \in {"obj", "arr"}
  BY DEF KindOf
<1>. HIDE DEF kind
<1>4. calls # <<>> /\ own' = own /\ Loop # "bind" /\ Loop \in {"response", "part"}
  BY <1>2 DEF Loop, rest
<1>5. MemberPos \in 1 .. Len(text) + 1 /\ MemberPos \in pos + 2 .. Len(text) + 1
  BY <1>1, <1>2, MemberPlaces
<1>6. MemberPos + 1 \in 1 .. Len(text) + 1
  BY <1>1, <1>2, <1>5, Within DEF Opening
<1>7. /\ Nested' /\ Loop' = "bind" /\ (OfPart' <=> OfPart) /\ Collected'
      /\ Besides = 1 + Stage /\ Besides' = 2 + Stage' /\ Stage \in 0 .. 1
      /\ Stage' = Stage + 1
  BY <1>2, <1>4, BindCalled
<1>8. stack = <<>> /\ Len(readers) = IF OfPart THEN 1 ELSE 0
  BY <1>4 DEF GqlInv, Parsing, Waiting
<1>9. Calls(1)'
  <2>1. IsSequence(DataPath) /\ Len(DataPath) = 1
    BY Short DEF DataPath
  <2>. QED BY <1>2, <1>3, <2>1, CallsEntered
<1>10. GqlInv'
  <2>1. InText'
    BY <1>1, <1>2, <1>6 DEF InText
  <2>2. Served'
    BY <1>2, <1>4 DEF GqlInv, Served
  <2>3. Parsing'
    BY <1>2, <1>7, <1>9 DEF Parsing
  <2>4. Waiting'
    <3>1. ~OfPart'
      <4>1. Loop = calls[1]
        BY <1>2, <1>4, CallsKnown DEF GqlInv, Outer
      <4>. QED BY <1>2, <1>7, <4>1 DEF OfPart
    <3>2. readers' = readers /\ Len(readers) = 0
      BY <1>2, <1>7, <1>8, <3>1
    <3>. QED BY <1>7, <3>1, <3>2 DEF GqlInv, Waiting
  <2>. QED BY <1>7, <2>1, <2>2, <2>3, <2>4 DEF GqlInv
<1>11. Reading' <= Reading + (0 - 6)
  <2>1. ASSUME NEW a \in Int, NEW b \in Int, NEW c \in Int, NEW l \in Int, NEW i \in Int, NEW m \in Int,
               m >= i + 2
        PROVE  2 * (l + 1 - (m + 1)) + b + c <= 2 * (l + 1 - i) + b + c + (0 - 6)
    BY <2>1
  <2>2. /\ Reading = 2 * (Len(text) + 1 - pos) + LeftBehind(1) + LeftBehind(2)
        /\ Reading' = 2 * (Len(text) + 1 - (MemberPos + 1)) + LeftBehind(1) + LeftBehind(2)
    BY <1>2 DEF Reading, Left, LeftBehind
  <2>3. /\ LeftBehind(1) \in Int /\ LeftBehind(2) \in Int /\ Len(text) \in Int /\ pos \in Int
        /\ MemberPos \in Int /\ MemberPos >= pos + 2
    BY <1>1, <1>5, GqlLengths
  <2>. QED BY <2>1, <2>2, <2>3
<1>12. Besides' + Len(stack') <= Besides + Len(stack) + 3
  <2>1. Len(stack') = 1 /\ Len(stack) = 0
    BY <1>2, <1>8
  <2>. QED BY <1>7, <2>1
<1>. QED BY <1>10, <1>11, <1>12, GqlCounts

(* A step that leaves the loops and the readers waiting as they are. *)
LEMMA BindingOn ==
  ASSUME GqlInv, Loop = "bind", UNCHANGED <<text, calls, readers, inc, own, bindings>>,
         pos' \in 1 .. Len(text) + 1, pos' >= pos, Parsing'
  PROVE  /\ GqlInv' /\ Reading \in Int /\ Reading' = Reading - 2 * (pos' - pos)
         /\ Besides - Stage \in Int /\ Besides' = Besides - Stage + Stage'
         /\ Stage \in Nat /\ Stage' \in Nat
         /\ phase' = phase => Stage' <= Stage
         /\ phase \in {"start", "parsing"} /\ phase' \notin {phase, "start"} => Stage' <= Stage - 1
<1>1. IsSequence(text) /\ Len(text) \in Nat /\ pos \in 1 .. Len(text) + 1 /\ InText
  BY GqlLengths DEF GqlInv
<1>2. Loop' = Loop /\ (OfPart' <=> OfPart) /\ calls # <<>>
  BY DEF Loop, OfPart
<1>3. GqlInv'
  <2>1. InText'
    BY <1>1 DEF InText
  <2>2. Nested' /\ Collected' /\ Served'
    BY DEF GqlInv, Nested, Collected, Served
  <2>3. Waiting'
    BY <1>2 DEF GqlInv, Waiting
  <2>. QED BY <2>1, <2>2, <2>3 DEF GqlInv
<1>4. Reading \in Int /\ Reading' = Reading - 2 * (pos' - pos)
  <2>1. ASSUME NEW b \in Int, NEW c \in Int, NEW l \in Int, NEW i \in Int, NEW j \in Int
        PROVE  2 * (l + 1 - j) + b + c = (2 * (l + 1 - i) + b + c) - 2 * (j - i)
    OBVIOUS
  <2>2. /\ Reading = 2 * (Len(text) + 1 - pos) + LeftBehind(1) + LeftBehind(2)
        /\ Reading' = 2 * (Len(text) + 1 - pos') + LeftBehind(1) + LeftBehind(2)
    BY DEF Reading, Left, LeftBehind
  <2>3. /\ LeftBehind(1) \in Int /\ LeftBehind(2) \in Int /\ Len(text) \in Int /\ pos \in Int /\ pos' \in Int
    BY <1>1, GqlLengths
  <2>4. Reading \in Int
    BY ReadingCounted
  <2>5. 2 * (Len(text) + 1 - pos') + LeftBehind(1) + LeftBehind(2)
          = (2 * (Len(text) + 1 - pos) + LeftBehind(1) + LeftBehind(2)) - 2 * (pos' - pos)
    BY <2>1, <2>3
  <2>. QED BY <2>2, <2>4, <2>5
<1>5. Pending' = Pending
  BY DEF Pending
<1>6. Stage \in Nat /\ Stage' \in Nat
  BY DEF Stage
<1>7. Besides - Stage \in Int /\ Besides' = Besides - Stage + Stage'
  <2>. DEFINE c == Len(calls)
              s == Stage
              z == Stage'
              o == Besides'
  <2>1. Pending \in Nat /\ c \in Nat /\ s \in Nat /\ z \in Nat
    BY <1>6, BesidesCounted DEF GqlInv
  <2>2. Besides = Pending + c + s /\ o = Pending + c + z
    BY <1>5 DEF Besides
  <2>. HIDE DEF c, s, z, o
  <2>3. Besides - s \in Int /\ o = Besides - s + z
    BY <2>1, <2>2
  <2>. QED BY <2>3 DEF s, z, o
<1>8. /\ phase' = phase => Stage' <= Stage
      /\ phase \in {"start", "parsing"} /\ phase' \notin {phase, "start"} => Stage' <= Stage - 1
  <2>. DEFINE f == IF calls = <<>> THEN 0
                   ELSE CASE calls[1] = "before" -> 3 [] calls[1] = "headers" -> 2
                          [] calls[1] \in {"seek", "part"} -> 1 [] OTHER -> 0
              g == IF phase = "start" THEN 2 ELSE IF phase = "parsing" THEN 1 ELSE 0
              h == IF phase' = "start" THEN 2 ELSE IF phase' = "parsing" THEN 1 ELSE 0
  <2>1. Stage = f + g /\ Stage' = f + h
    BY <1>2 DEF Stage
  <2>2. f \in Int /\ g \in Int /\ h \in Int
    OBVIOUS
  <2>3. /\ phase' = phase => h <= g
        /\ phase \in {"start", "parsing"} /\ phase' \notin {phase, "start"} => h <= g - 1
    OBVIOUS
  <2>. HIDE DEF f, g, h
  <2>4. h <= g => Stage' <= Stage
    BY <2>1, <2>2
  <2>5. h <= g - 1 => Stage' <= Stage - 1
    BY <2>1, <2>2
  <2>. QED BY <2>3, <2>4, <2>5
<1>. QED BY <1>3, <1>4, <1>6, <1>7, <1>8

LEMMA BindingFewer ==
  ASSUME NEW s \in Int, NEW z \in Int, NEW d \in Int, NEW e \in Int, NEW i \in Int, NEW j \in Int, j >= i,
         \/ z <= s /\ e <= d - 1
         \/ z <= s /\ e <= d + 1 /\ j > i
         \/ z <= s - 1 /\ e <= d + 1 /\ j > i
         \/ z <= s - 1 /\ e <= d
  PROVE  z + e < s + d + 6 * (j - i)
OBVIOUS

(* The parser starts, or goes on unless it is stuck. *)
LEMMA BindingReads ==
  ASSUME GqlInv, BindData
  PROVE  GqlInv' /\ (~Stuck => GqlPassesLeft' < GqlPassesLeft)
<1>1. IsSequence(text) /\ Len(text) \in Nat /\ pos \in 1 .. Len(text) + 1 /\ InText
  BY GqlLengths DEF GqlInv
<1>2. Loop = "bind" /\ inc' = inc /\ own' = own /\ UNCHANGED <<calls, readers>> /\ (Start \/ Parse)
  BY DEF BindData, Parse, KeepPayloads, rest
<1>3. Loop' = "bind"
  BY <1>2 DEF Loop
(* What is counted decreases if the reader goes on or the parser returns. *)
<1>4. ASSUME UNCHANGED <<text, bindings>>, pos' \in 1 .. Len(text) + 1, pos' >= pos, Parsing',
             Stage' + Len(stack') < Stage + Len(stack) + 6 * (pos' - pos)
      PROVE  GqlPassesLeft' < GqlPassesLeft
  <2>1. /\ GqlInv' /\ Reading \in Int /\ Reading' = Reading - 2 * (pos' - pos)
        /\ Besides - Stage \in Int /\ Besides' = Besides - Stage + Stage'
        /\ Stage \in Nat /\ Stage' \in Nat
    BY <1>2, <1>4, BindingOn
  <2>2. /\ Besides \in Nat /\ Len(stack) \in Nat /\ Len(stack') \in Nat /\ pos \in Int /\ pos' \in Int
        /\ GqlPassesLeft = 3 * Reading + Besides + Len(stack)
        /\ GqlPassesLeft' = 3 * Reading' + Besides' + Len(stack')
    BY <1>1, <1>4, <2>1, ReadingCounted, ReadingNext
  <2>3. ASSUME NEW r \in Int, NEW b \in Int, NEW u \in Int, NEW v \in Int, NEW l \in Int, NEW m \in Int,
               NEW i \in Int, NEW j \in Int, v + m < u + l + 6 * (j - i)
        PROVE  3 * (r - 2 * (j - i)) + (b - u + v) + m < 3 * r + b + l
    BY <2>3
  <2>4. 3 * (Reading - 2 * (pos' - pos)) + (Besides - Stage + Stage') + Len(stack')
          < 3 * Reading + Besides + Len(stack)
    <3>1. /\ Besides \in Int /\ Stage \in Int /\ Stage' \in Int
          /\ Len(stack) \in Int /\ Len(stack') \in Int
      BY <2>1, <2>2
    <3>. QED BY <1>4, <2>1, <2>2, <2>3, <3>1, Zenon
  <2>. QED BY <2>1, <2>2, <2>4
<1>5. CASE Start
  <2>. DEFINE p    == SkipBlank(text, 1)
              kind == KindOf(At(text, p))
  <2>1. phase = "start" /\ pos = 1 /\ stack = <<>> /\ UNCHANGED <<text, bindings>>
    BY <1>2, <1>5 DEF Start, GqlInv, Parsing
  <2>2. \/ phase' = "done" /\ stack' = stack /\ pos' \in {pos, Read(text, p)}
        \/ /\ At(text, p) \in Opening /\ phase' = "done" /\ stack' = stack
           /\ pos' = EndOfRaw(text, p)
        \/ /\ At(text, p) \in Opening /\ phase' = "parsing" /\ pos' = p + 1
           /\ stack' = <<Frame(kind, <<>>)>>
    BY <1>5 DEF Start
  <2>3. kind \in {"obj", "arr"}
    BY DEF KindOf
  <2>. HIDE DEF kind, p
  <2>4. p \in 1 .. Len(text) + 1
    BY <1>1, <2>1, SkipBlankEnds DEF p
  <2>5. At(text, p) \in Opening =>
          EndOfRaw(text, p) \in 1 .. Len(text) + 1 /\ p + 1 \in 1 .. Len(text) + 1
    <3>1. SUFFICES ASSUME At(text, p) \in Opening
                   PROVE  EndOfRaw(text, p) \in 1 .. Len(text) + 1 /\ p + 1 \in 1 .. Len(text) + 1
      OBVIOUS
    <3>2. EndOfRaw(text, p) \in p .. Len(text) + 1
      BY <1>1, <2>4, <3>1, RawEnds
    <3>3. p + 1 \in 1 .. Len(text) + 1
      BY <1>1, <2>4, <3>1, Within DEF Opening
    <3>. QED BY <1>1, <2>4, <3>2, <3>3
  <2>6. Read(text, p) \in 1 .. Len(text) + 1
    <3>1. Read(text, p) \in p .. Len(text) + 1
      BY <1>1, <2>4, ReadOn
    <3>. QED BY <1>1, <2>4, <3>1
  <2>7. pos' \in 1 .. Len(text) + 1 /\ pos' >= pos /\ (phase' = "parsing" => pos' > pos)
    <3>1. pos' \in 1 .. Len(text) + 1
      BY <1>1, <2>2, <2>5, <2>6
    <3>2. pos' >= pos
      BY <1>1, <2>1, <3>1
    <3>3. phase' = "parsing" => pos' > pos
      BY <1>1, <2>1, <2>2, <2>4
    <3>. QED BY <3>1, <3>2, <3>3
  <2>8. Parsing' /\ Len(stack) = 0 /\ Len(stack') = (IF phase' = "parsing" THEN 1 ELSE 0)
        /\ phase' \in {"parsing", "done"}
    <3>1. CASE stack' = stack /\ phase' = "done"
      <4>1. Calls(0)'
        <5>1. IsSequence(<<>>) /\ DOMAIN <<>> = {}
          BY EmptyPath
        <5>. QED BY <2>1, <3>1, <5>1 DEF Calls, IsSequence
      <4>. QED BY <1>3, <2>1, <3>1, <4>1 DEF Parsing
    <3>2. CASE phase' = "parsing" /\ stack' = <<Frame(kind, <<>>)>>
      <4>1. Calls(0)'
        BY <2>3, <3>2, CallsEntered, EmptyPath
      <4>2. Len(stack') = 1
        BY <3>2
      <4>. QED BY <1>3, <2>1, <3>2, <4>1, <4>2 DEF Parsing
    <3>. QED BY <2>2, <3>1, <3>2
  <2>9. GqlInv' /\ Stage' <= Stage - 1 /\ Stage \in Int /\ Stage' \in Int
    BY <1>2, <2>1, <2>7, <2>8, BindingOn
  <2>10. Stage' + Len(stack') < Stage + Len(stack) + 6 * (pos' - pos)
    <3>1. pos \in Int /\ pos' \in Int /\ pos' >= pos
      BY <1>1, <2>7
    <3>2. Len(stack) \in Int /\ Len(stack') \in Int
      BY <2>8
    <3>3. CASE phase' = "parsing"
      <4>1. Len(stack') <= Len(stack) + 1 /\ pos' > pos
        BY <2>7, <2>8, <3>3
      <4>. QED BY <2>9, <3>1, <3>2, <4>1, BindingFewer
    <3>4. CASE phase' = "done"
      <4>1. Len(stack') <= Len(stack)
        BY <2>8, <3>4
      <4>. QED BY <2>9, <3>1, <3>2, <4>1, BindingFewer
    <3>. QED BY <2>8, <3>3, <3>4
  <2>. QED BY <1>4, <2>1, <2>7, <2>8, <2>9, <2>10
<1>6. CASE Parse
  <2>1. PICK n \in {0, 1} : Calls(n)
    BY DEF GqlInv, Parsing
  <2>2. n \in Nat
    OBVIOUS
  <2>3. Keyed(bindings)
    BY DEF GqlInv, Served, Keyed
  <2>4. Calls(n)' /\ bindings' = bindings
    BY <1>6, <2>1, <2>2, <2>3, ParseKeepsCalls
  <2>5. /\ text' = text /\ pos' \in 1 .. Len(text) + 1 /\ pos' >= pos
        /\ ~Close /\ ~Stuck => pos' > pos
    BY <1>1, <1>6, <2>1, <2>2, ParseGoesOn
  <2>6. /\ Len(stack) \in Nat /\ Len(stack') \in Nat
        /\ Len(stack') = IF Close THEN Len(stack) - 1
                         ELSE IF Descend THEN Len(stack) + 1 ELSE Len(stack)
    BY <1>6, <2>1, <2>2, ParseDepth
  <2>7. phase = "parsing" /\ phase' \in {"parsing", "done"} /\ (phase' = "done" => stack' = <<>>)
    <3>1. CASE Close
      BY <3>1 DEF Close, Active
    <3>2. CASE ~Close
      <4>1. Capture \/ Descend \/ Bind \/ Skip \/ Garbled
        BY <1>6, <3>2 DEF Parse
      <4>2. phase = "parsing" /\ phase' = phase
        BY <4>1 DEF Capture, Descend, Bind, Skip, Garbled, Active
      <4>. QED BY <4>2
    <3>. QED BY <3>1, <3>2
  <2>8. Parsing'
    BY <1>3, <2>4, <2>7 DEF Parsing
  <2>9. GqlInv' /\ Stage' <= Stage /\ Stage \in Int /\ Stage' \in Int
    <3>1. /\ GqlInv' /\ Stage \in Nat /\ Stage' \in Nat
          /\ phase' = phase => Stage' <= Stage
          /\ phase \in {"start", "parsing"} /\ phase' \notin {phase, "start"} => Stage' <= Stage - 1
      BY <1>2, <2>4, <2>5, <2>8, BindingOn
    <3>2. Stage' <= Stage - 1 => Stage' <= Stage
      BY <3>1
    <3>3. phase' = phase \/ (phase \in {"start", "parsing"} /\ phase' \notin {phase, "start"})
      BY <2>7
    <3>4. Stage' <= Stage
      BY <3>1, <3>2, <3>3
    <3>. QED BY <3>1, <3>4
  <2>10. ASSUME ~Stuck PROVE GqlPassesLeft' < GqlPassesLeft
    <3>1. pos \in Int /\ pos' \in Int /\ pos' >= pos
      BY <1>1, <2>5
    <3>2. \/ Len(stack') <= Len(stack) - 1
          \/ Len(stack') <= Len(stack) + 1 /\ pos' > pos
      <4>1. CASE Close
        <5>1. Len(stack') = Len(stack) - 1
          BY <2>6, <4>1
        <5>. QED BY <2>6, <5>1
      <4>2. CASE ~Close
        <5>1. Len(stack') \in {Len(stack), Len(stack) + 1}
          BY <2>6, <4>2
        <5>2. Len(stack') <= Len(stack) + 1
          BY <2>6, <5>1
        <5>. QED BY <2>5, <2>10, <4>2, <5>2
      <4>. QED BY <4>1, <4>2
    <3>3. Len(stack) \in Int /\ Len(stack') \in Int
      BY <2>6
    <3>4. Stage' + Len(stack') < Stage + Len(stack) + 6 * (pos' - pos)
      BY <2>9, <3>1, <3>2, <3>3, BindingFewer
    <3>. QED BY <1>4, <2>4, <2>5, <2>8, <3>4
  <2>. QED BY <2>9, <2>10
<1>. QED BY <1>2, <1>5, <1>6

(* The parser returns, and the reader left goes on. *)
LEMMA BindingLeaves ==
  ASSUME GqlInv, DataBound
  PROVE  GqlInv' /\ GqlPassesLeft' < GqlPassesLeft
<1>1. IsSequence(text) /\ Len(text) \in Nat /\ pos \in 1 .. Len(text) + 1 /\ InText
  BY GqlLengths DEF GqlInv
<1>2. /\ Loop = "bind" /\ phase = "done" /\ calls' = Front(calls) /\ phase' = "start" /\ bindings' = own
      /\ inc' = inc /\ own' = own /\ stack' = stack /\ calls # <<>> /\ Loop \notin Outer
  BY DEF DataBound, KeepPayloads, rest, Loop, Outer
<1>3. /\ Nested' /\ Len(calls') = Len(calls) - 1
      /\ \A k \in 1 .. Len(calls) - 1 : calls'[k] = calls[k]
      /\ calls' # <<>> /\ calls'[1] = calls[1] /\ Inside(Loop', Loop) /\ (OfPart' <=> OfPart)
  BY <1>2, CallsPopped DEF GqlInv
<1>4. Loop' \notin {"bind", "before"}
  BY <1>2, <1>3 DEF Inside
<1>5. /\ stack = <<>> /\ Len(readers) = (IF OfPart THEN 2 ELSE Len(readers)) /\ (~OfPart => Len(readers) <= 1)
      /\ Len(readers) \in Nat
  BY <1>2, SequenceLength DEF GqlInv, Parsing, Waiting
<1>6. Served' /\ Collected'
  <2>1. \A i \in DOMAIN own : IsSequence(own[i].key) /\ Len(own[i].key) <= Len(own[i].key)
    BY OwnKeys DEF GqlInv
  <2>. QED BY <1>2, <2>1 DEF GqlInv, Served, Collected
<1>7. Parsing'
  <2>1. IsSequence(<<>>) /\ DOMAIN <<>> = {}
    BY EmptyPath
  <2>2. Calls(0)'
    BY <1>2, <1>5, <2>1 DEF Calls, IsSequence
  <2>. QED BY <1>2, <1>4, <1>5, <2>2 DEF Parsing
<1>8. Besides' + Len(stack') <= Besides + Len(stack) + (0 - 1)
  <2>1. Stage' = Stage /\ Stage \in Nat
    BY <1>2, <1>3, <1>4 DEF Stage
  <2>2. Pending' \in {0, Pending} /\ Pending \in Nat
    <3>1. Pending \in Nat
      BY PendingCounted DEF GqlInv
    <3>2. Len(calls) \in Nat
      BY SequenceLength DEF GqlInv, Nested
    <3>3. CASE Len(calls') >= 3
      <4>1. Len(calls) >= 3 /\ calls'[3] = calls[3]
        BY <1>3, <3>2, <3>3
      <4>2. Pending' = Pending
        BY <1>2, <3>3, <4>1 DEF Pending
      <4>. QED BY <3>1, <4>2
    <3>4. CASE ~(Len(calls') >= 3)
      BY <3>1, <3>4 DEF Pending
    <3>. QED BY <3>3, <3>4
  <2>. DEFINE c == Len(calls)
              d == Len(stack)
              e == Len(calls')
              b == Besides'
              f == Pending'
  <2>3. Besides = Pending + c + Stage /\ b = f + e + Stage /\ e = c - 1 /\ Len(stack') = d
    BY <1>2, <1>3, <2>1 DEF Besides
  <2>4. c \in Nat /\ d \in Nat
    BY ReadingCounted, SequenceLength DEF GqlInv, Nested
  <2>. HIDE DEF c, d, e, b, f
  <2>5. f \in Nat /\ f <= Pending
    BY <2>2 DEF f
  <2>6. b + d <= Besides + d + (0 - 1)
    BY <2>1, <2>2, <2>3, <2>4, <2>5
  <2>. QED BY <2>3, <2>6 DEF b, d
<1>9. CASE readers = <<>>
  <2>1. GoOn(pos) /\ text' = text /\ readers' = readers
    BY <1>9 DEF DataBound
  <2>2. pos' \in pos .. Len(text) + 1
    BY <1>1, <2>1, AfterCommaEnds DEF GoOn
  <2>3. Len(readers) = 0 /\ ~OfPart
    BY <1>5, <1>9, EmptyPath
  <2>4. Waiting'
    BY <1>3, <1>4, <2>1, <2>3 DEF GqlInv, Waiting
  <2>5. InText'
    BY <1>1, <2>1, <2>2 DEF InText
  <2>6. GqlInv'
    BY <1>3, <1>6, <1>7, <2>4, <2>5 DEF GqlInv
  <2>7. Reading' <= Reading + 0
    <3>1. ASSUME NEW b \in Int, NEW c \in Int, NEW l \in Int, NEW i \in Int, NEW j \in Int, j >= i
          PROVE  2 * (l + 1 - j) + b + c <= 2 * (l + 1 - i) + b + c + 0
      BY <3>1
    <3>2. /\ Reading = 2 * (Len(text) + 1 - pos) + LeftBehind(1) + LeftBehind(2)
          /\ Reading' = 2 * (Len(text) + 1 - pos') + LeftBehind(1) + LeftBehind(2)
      BY <2>1 DEF Reading, Left, LeftBehind
    <3>3. /\ LeftBehind(1) \in Int /\ LeftBehind(2) \in Int /\ Len(text) \in Int /\ pos \in Int
          /\ pos' \in Int /\ pos' >= pos
      BY <1>1, <2>2, GqlLengths
    <3>. QED BY <3>1, <3>2, <3>3
  <2>. QED BY <1>8, <2>6, <2>7, GqlCounts
<1>10. CASE readers # <<>>
  <2>. DEFINE s == Last(readers).text
              p == Last(readers).pos
  <2>1. readers' = Front(readers) /\ text' = s /\ pos' = AfterComma(s, p)
    BY <1>10 DEF DataBound
  <2>2. /\ IsSequence(readers') /\ Len(readers') = Len(readers) - 1
        /\ \A k \in DOMAIN readers' :
             IsSequence(readers'[k].text) /\ readers'[k].pos \in 1 .. Len(readers'[k].text) + 1
        /\ IsSequence(s) /\ p \in 1 .. Len(s) + 1
        /\ LeftBehind(1)' + LeftBehind(2)' = LeftBehind(1) + LeftBehind(2) - Left(s, p)
    BY <1>10, <2>1, ReaderBack DEF GqlInv
  <2>. HIDE DEF s, p
  <2>3. Len(s) \in Nat
    BY <2>2, SequenceLength
  <2>4. AfterComma(s, p) \in p .. Len(s) + 1
    BY <2>2, AfterCommaEnds
  <2>5. AfterComma(s, p) \in 1 .. Len(s) + 1
    BY <2>2, <2>3, <2>4
  <2>6. InText'
    BY <2>1, <2>2, <2>5 DEF InText
  <2>7. Waiting'
    <3>. DEFINE n == Len(readers')
                m == Len(readers)
    <3>1. m \in Nat /\ n = m - 1 /\ (OfPart => m = 2) /\ (~OfPart => m <= 1)
      BY <1>5, <2>2
    <3>2. n \in Nat
      BY <2>2, SequenceLength
    <3>. HIDE DEF n, m
    <3>3. n <= 2 /\ n = IF OfPart THEN 1 ELSE 0
      BY <3>1, <3>2
    <3>. QED BY <1>3, <1>4, <2>2, <3>3 DEF Waiting, n
  <2>8. GqlInv'
    BY <1>3, <1>6, <1>7, <2>6, <2>7 DEF GqlInv
  <2>9. Reading' <= Reading + 0
    <3>. DEFINE b == LeftBehind(1)'
                c == LeftBehind(2)'
                q == AfterComma(s, p)
    <3>1. Reading' = Left(s, q) + b + c /\ Reading = Left(text, pos) + LeftBehind(1) + LeftBehind(2)
      BY <2>1 DEF Reading
    <3>2. Left(s, q) = 2 * (Len(s) + 1 - q) /\ Left(s, p) = 2 * (Len(s) + 1 - p)
      BY DEF Left
    <3>3. b \in Nat /\ c \in Nat
      <4>1. ASSUME NEW k \in Nat PROVE LeftBehind(k)' \in Nat
        BY <2>2, LeftCounted DEF LeftBehind
      <4>. QED BY <4>1
    <3>4. Left(text, pos) \in Nat /\ LeftBehind(1) \in Nat /\ LeftBehind(2) \in Nat
      BY GqlLengths
    <3>5. b + c = LeftBehind(1) + LeftBehind(2) - Left(s, p)
      BY <2>2
    <3>6. q \in Int /\ p \in Int /\ q >= p
      BY <2>2, <2>3, <2>4
    <3>. HIDE DEF b, c, q
    <3>7. ASSUME NEW i \in Int, NEW j \in Int, NEW l \in Int, NEW t \in Nat, NEW u \in Int, NEW v \in Int,
                 NEW w \in Int, NEW z \in Int, w + z = u + v - 2 * (l + 1 - i), j >= i
          PROVE  2 * (l + 1 - j) + w + z <= t + u + v + 0
      BY <3>7
    <3>8. Len(s) \in Int /\ b \in Int /\ c \in Int /\ LeftBehind(1) \in Int /\ LeftBehind(2) \in Int
      BY <2>3, <3>3, <3>4
    <3>9. 2 * (Len(s) + 1 - q) + b + c <= Left(text, pos) + LeftBehind(1) + LeftBehind(2) + 0
      BY <3>2, <3>4, <3>5, <3>6, <3>7, <3>8
    <3>. QED BY <3>1, <3>2, <3>9
  <2>. QED BY <1>8, <2>8, <2>9, GqlCounts
<1>. QED BY <1>9, <1>10

(* A part is read from a copy, and left at its end. *)
LEMMA OneLoop ==
  ASSUME NEW loop \in Outer, calls' \in {<<>>, <<loop>>}
  PROVE  /\ Nested' /\ Len(calls') = (IF calls' = <<>> THEN 0 ELSE 1) /\ Pending' = 0
         /\ Loop' = (IF calls' = <<>> THEN "done" ELSE loop)
         /\ calls' # <<>> => calls'[1] = loop
<1>1. calls' = <<>> => Len(calls') = 0 /\ DOMAIN calls' = {} /\ IsSequence(calls') /\ Loop' = "done"
  BY EmptyPath DEF Loop, IsSequence
<1>2. /\ Len(<<loop>>) = 1 /\ DOMAIN <<loop>> = {1} /\ <<loop>>[1] = loop /\ <<loop>> # <<>>
      /\ IsSequence(<<loop>>)
  <2>1. IsSequence(<<loop>>)
    BY Short
  <2>2. Len(<<loop>>) = 1 /\ DOMAIN <<loop>> = {1} /\ <<loop>>[1] = loop /\ <<loop>> # <<>>
    OBVIOUS
  <2>. QED BY <2>1, <2>2
<1>3. calls' = <<loop>> => Len(calls') = 1 /\ DOMAIN calls' = {1} /\ calls'[1] = loop /\ calls' # <<>>
                           /\ Loop' = loop
  BY <1>2 DEF Loop, Last
<1>4. calls' = <<loop>> => IsSequence(calls')
  BY <1>2, Zenon DEF IsSequence
<1>5. Len(calls') = (IF calls' = <<>> THEN 0 ELSE 1) /\ DOMAIN calls' \subseteq {1} /\ IsSequence(calls')
  BY <1>1, <1>3, <1>4
<1>6. Nested'
  BY <1>1, <1>3, <1>5 DEF Nested
<1>7. Pending' = 0
  BY <1>5 DEF Pending
<1>. QED BY <1>1, <1>3, <1>5, <1>6, <1>7

LEMMA AtOuter ==
  ASSUME Nested, Loop \in Outer
  PROVE  calls # <<>> /\ Len(calls) = 1 /\ Loop = calls[1] /\ Pending = 0 /\ Besides = 1 + Stage
<1>1. calls # <<>>
  BY DEF Loop, Outer
<1>2. Len(calls) = 1 /\ Loop = calls[1]
  BY <1>1, CallsKnown
<1>3. Pending = 0
  BY <1>2 DEF Pending
<1>4. Stage \in Nat
  BY DEF Stage
<1>. QED BY <1>1, <1>2, <1>3, <1>4 DEF Besides

LEMMA PartBegins ==
  ASSUME GqlInv, BeginPart
  PROVE  GqlInv' /\ GqlPassesLeft' < GqlPassesLeft
<1>. DEFINE copy == Raw(text, Here)
            e    == EndOfRaw(text, Here)
<1>1. /\ IsSequence(text) /\ Len(text) \in Nat /\ pos \in 1 .. Len(text) + 1 /\ InText
      /\ Here \in pos .. Len(text) + 1 /\ Here \in 1 .. Len(text) + 1
  BY GqlLengths, HereEnds DEF GqlInv
<1>2. /\ Loop = "seek" /\ calls' = <<"part">> /\ readers' = <<[text |-> text, pos |-> e]>>
      /\ text' = copy /\ pos' = 2 /\ inc' = inc /\ own' = own
      /\ UNCHANGED <<bindings, stack, phase>>
  BY DEF BeginPart, rest
<1>3. At(text, Here) \in Opening
  BY Zenon DEF BeginPart, Opening
<1>4. e \in Here + 1 .. Len(text) + 1
  BY <1>1, <1>3, RawEnds
<1>5. copy = SubSeq(text, Here, e - 1)
  BY DEF Raw
<1>6. IsSequence(copy) /\ Len(copy) = e - Here
  <2>. HIDE DEF copy, e
  <2>1. e \in Here .. Len(text) + 1
    BY <1>1, <1>4
  <2>. QED BY <1>1, <1>5, <2>1, SliceFits
<1>. HIDE DEF copy, e
<1>7. Loop \in Outer /\ "part" \in Outer
  BY <1>2 DEF Outer
<1>8. calls # <<>> /\ Loop = calls[1] /\ Besides = 1 + Stage
  BY <1>7, AtOuter DEF GqlInv
<1>9. ~OfPart /\ Stage = 1 /\ readers = <<>>
  <2>1. ~OfPart /\ Stage = 1
    BY <1>2, <1>8 DEF OfPart, Stage
  <2>2. Len(readers) = 0 /\ IsSequence(readers)
    BY <1>2, <2>1 DEF GqlInv, Waiting
  <2>3. readers = <<>>
    BY <2>2, Short, SameSequence
  <2>. QED BY <2>1, <2>3
<1>10. calls' # <<>>
  BY <1>2
<1>11. Nested' /\ Len(calls') = 1 /\ Pending' = 0 /\ Loop' = "part" /\ calls'[1] = "part"
  <2>1. calls' \in {<<>>, <<"part">>}
    BY <1>2
  <2>. QED BY <1>7, <1>10, <2>1, OneLoop
<1>12. OfPart' /\ Stage' = 1
  BY <1>10, <1>11 DEF OfPart, Stage
<1>13. InText'
  <2>1. Len(copy) \in Nat /\ Len(copy) >= 1
    BY <1>1, <1>4, <1>6
  <2>2. 2 \in 1 .. Len(copy) + 1
    BY <2>1
  <2>. QED BY <1>2, <1>6, <2>2 DEF InText
<1>14. /\ IsSequence(readers') /\ Len(readers') = 1 /\ DOMAIN readers' = {1}
       /\ readers'[1].text = text /\ readers'[1].pos = e
  <2>. DEFINE r == [text |-> text, pos |-> e]
  <2>1. IsSequence(<<r>>)
    BY Short
  <2>2. Len(<<r>>) = 1 /\ DOMAIN <<r>> = {1} /\ <<r>>[1] = r /\ r.text = text /\ r.pos = e
    OBVIOUS
  <2>. QED BY <1>2, <2>1, <2>2
<1>15. Waiting'
  <2>1. e \in 1 .. Len(text) + 1
    BY <1>1, <1>4
  <2>. QED BY <1>1, <1>11, <1>12, <1>14, <2>1 DEF Waiting
<1>16. Served' /\ Collected' /\ Parsing'
  <2>1. stack = <<>> /\ phase = "start"
    BY <1>2 DEF GqlInv, Parsing
  <2>2. Calls(0)'
    <3>1. IsSequence(<<>>) /\ DOMAIN <<>> = {}
      BY EmptyPath
    <3>. QED BY <1>2, <2>1, <3>1 DEF Calls, IsSequence
  <2>3. Parsing'
    BY <1>2, <1>11, <2>1, <2>2 DEF Parsing
  <2>. QED BY <1>2, <2>3 DEF GqlInv, Served, Collected
<1>17. GqlInv'
  BY <1>11, <1>13, <1>15, <1>16 DEF GqlInv
<1>18. Reading' <= Reading + (0 - 2)
  <2>1. LeftBehind(1) = 0 /\ LeftBehind(2) = 0 /\ LeftBehind(1)' = Left(text, e) /\ LeftBehind(2)' = 0
    BY <1>9, <1>14, EmptyPath DEF LeftBehind
  <2>2. Reading = 2 * (Len(text) + 1 - pos) /\ Reading' = 2 * ((e - Here) + 1 - 2) + 2 * (Len(text) + 1 - e)
    <3>. DEFINE L == Len(text)
                b == LeftBehind(1)'
                c == LeftBehind(2)'
                h == Here
    <3>1. Reading = 2 * (L + 1 - pos) + 0 + 0 /\ Reading' = 2 * ((e - h) + 1 - 2) + b + c
      BY <1>2, <1>6, <2>1 DEF Reading, Left
    <3>2. b = 2 * (L + 1 - e) /\ c = 0
      BY <2>1 DEF Left
    <3>3. L \in Int /\ pos \in Int /\ e \in Int /\ h \in Int
      BY <1>1, <1>4
    <3>. HIDE DEF L, b, c, h
    <3>4. Reading = 2 * (L + 1 - pos) /\ Reading' = 2 * ((e - h) + 1 - 2) + 2 * (L + 1 - e)
      BY <3>1, <3>2, <3>3
    <3>. QED BY <3>4 DEF L, h
  <2>3. ASSUME NEW l \in Int, NEW i \in Int, NEW h \in Int, NEW j \in Int, h >= i
        PROVE  2 * ((j - h) + 1 - 2) + 2 * (l + 1 - j) <= 2 * (l + 1 - i) + (0 - 2)
    BY <2>3
  <2>4. Len(text) \in Int /\ pos \in Int /\ e \in Int /\ Here \in Int /\ Here >= pos
    BY <1>1, <1>4
  <2>. QED BY <2>2, <2>3, <2>4
<1>19. Besides' + Len(stack') <= Besides + Len(stack) + 0
  <2>1. Besides = 2 /\ Besides' = 2
    BY <1>8, <1>9, <1>11, <1>12 DEF Besides
  <2>2. Len(stack') = Len(stack) /\ Len(stack) \in Nat
    BY <1>2, ReadingCounted
  <2>. QED BY <2>1, <2>2
<1>. QED BY <1>17, <1>18, <1>19, GqlCounts

LEMMA PartEnds ==
  ASSUME GqlInv, EndOfPart
  PROVE  GqlInv' /\ GqlPassesLeft' < GqlPassesLeft
<1>. DEFINE s == readers[1].text
            p == readers[1].pos
<1>1. IsSequence(text) /\ Len(text) \in Nat /\ pos \in 1 .. Len(text) + 1
  BY GqlLengths
<1>2. /\ Loop = "part" /\ calls' \in {<<>>, <<"boundary">>} /\ readers' = <<>> /\ text' = s /\ pos' = p
      /\ inc' = inc /\ own' = own /\ UNCHANGED <<bindings, stack, phase>>
  BY DEF EndOfPart, rest
<1>3. Loop \in Outer /\ "boundary" \in Outer
  BY <1>2 DEF Outer
<1>4. calls # <<>> /\ Loop = calls[1] /\ Besides = 1 + Stage /\ OfPart /\ Stage = 1
  <2>1. calls # <<>> /\ Loop = calls[1] /\ Besides = 1 + Stage
    BY <1>3, AtOuter DEF GqlInv
  <2>. QED BY <1>2, <2>1 DEF OfPart, Stage
<1>5. IsSequence(readers) /\ Len(readers) = 1 /\ DOMAIN readers = {1}
  <2>1. IsSequence(readers) /\ Len(readers) = 1
    BY <1>2, <1>4 DEF GqlInv, Waiting
  <2>2. DOMAIN readers = 1 .. 1 /\ 1 .. 1 = {1}
    BY <2>1, SequenceLength
  <2>. QED BY <2>1, <2>2
<1>6. IsSequence(s) /\ p \in 1 .. Len(s) + 1
  BY <1>5 DEF GqlInv, Waiting
<1>7. LeftBehind(1) = Left(s, p) /\ LeftBehind(2) = 0
  BY <1>5 DEF LeftBehind
<1>. HIDE DEF s, p
<1>8. /\ Nested' /\ Len(calls') = (IF calls' = <<>> THEN 0 ELSE 1) /\ Pending' = 0
      /\ Loop' = (IF calls' = <<>> THEN "done" ELSE "boundary")
      /\ calls' # <<>> => calls'[1] = "boundary"
  BY <1>2, <1>3, OneLoop
<1>9. ~OfPart' /\ Stage' = 0 /\ Loop' \notin {"bind", "before"}
  BY <1>8 DEF OfPart, Stage
<1>10. InText'
  BY <1>2, <1>6 DEF InText
<1>11. Waiting'
  <2>1. IsSequence(<<>>) /\ Len(<<>>) = 0 /\ DOMAIN <<>> = {}
    BY EmptyPath
  <2>2. IsSequence(readers') /\ Len(readers') = 0 /\ DOMAIN readers' = {}
    BY <1>2, <2>1 DEF IsSequence
  <2>. QED BY <1>9, <2>2 DEF Waiting
<1>12. Served' /\ Collected' /\ Parsing'
  <2>1. stack = <<>> /\ phase = "start"
    BY <1>2 DEF GqlInv, Parsing
  <2>2. Calls(0)'
    <3>1. IsSequence(<<>>) /\ DOMAIN <<>> = {}
      BY EmptyPath
    <3>. QED BY <1>2, <2>1, <3>1 DEF Calls, IsSequence
  <2>3. Parsing'
    BY <1>2, <1>9, <2>1, <2>2 DEF Parsing
  <2>. QED BY <1>2, <2>3 DEF GqlInv, Served, Collected
<1>13. GqlInv'
  BY <1>8, <1>10, <1>11, <1>12 DEF GqlInv
<1>14. Reading' <= Reading + 0
  <2>1. LeftBehind(1)' = 0 /\ LeftBehind(2)' = 0
    BY <1>2, EmptyPath DEF LeftBehind
  <2>2. Left(text, pos) \in Nat /\ Left(s, p) \in Nat
    BY <1>1, <1>6, LeftCounted
  <2>3. Reading' = Left(s, p) + 0 + 0 /\ Reading = Left(text, pos) + Left(s, p) + 0
    BY <1>2, <1>7, <2>1 DEF Reading
  <2>. QED BY <2>2, <2>3
<1>15. Besides' + Len(stack') <= Besides + Len(stack) + (0 - 1)
  <2>1. Besides = 2 /\ Besides' \in {0, 1}
    BY <1>4, <1>8, <1>9 DEF Besides
  <2>2. Len(stack') = Len(stack) /\ Len(stack) \in Nat
    BY <1>2, ReadingCounted
  <2>. QED BY <2>1, <2>2
<1>. QED BY <1>13, <1>14, <1>15, GqlCounts

LEMMA Normalized ==
  ASSUME NEW path, IsSequence(path)
  PROVE  IsSequence(NormalizeDataPath(path)) /\ NormalizeDataPath(path) # <<>>
<1>1. IsSequence(DataPath) /\ Len(DataPath) = 1
  <2>1. IsSequence(<<Data>>) /\ Len(<<Data>>) = 1
    BY Short
  <2>. QED BY <2>1, Zenon DEF DataPath
<1>. DEFINE u == DataPath \o path
<1>2. IsSequence(u) /\ Len(u) = 1 + Len(path) /\ Len(path) \in Nat
  BY <1>1, Concatenated
<1>. HIDE DEF u
<1>3. u # <<>>
  <2>1. Len(<<>>) = 0
    OBVIOUS
  <2>. QED BY <1>2, <2>1
<1>4. NormalizeDataPath(path) = u \/ (NormalizeDataPath(path) = path /\ path # <<>>)
  BY DEF NormalizeDataPath, u
<1>5. CASE NormalizeDataPath(path) = u
  BY <1>2, <1>3, <1>5, Zenon
<1>6. CASE NormalizeDataPath(path) = path /\ path # <<>>
  BY <1>6, Zenon
<1>. QED BY <1>4, <1>5, <1>6

LEMMA RequestedServed ==
  ASSUME NEW asked \in BindingLists, NEW whole \in BOOLEAN, NEW i \in DOMAIN Requested(asked, whole)
  PROVE  /\ "key" \in DOMAIN Requested(asked, whole)[i]
         /\ IsSequence(Requested(asked, whole)[i].key) /\ Requested(asked, whole)[i].key # <<>>
<1>. DEFINE n == Len(asked)
            s == [j \in DOMAIN asked |-> [asked[j] EXCEPT !.key = NormalizeDataPath(@)]]
            r == [key |-> DataPath, type |-> "String", size |-> 1]
            t == IF whole THEN <<r>> ELSE <<>>
            Named(b) == "key" \in DOMAIN b /\ IsSequence(b.key) /\ b.key # <<>>
<1>1. n \in Nat /\ DOMAIN asked = 1 .. n
  BY BindingAssumption, SequenceLength
<1>2. ASSUME NEW j \in 1 .. n PROVE Named(s[j])
  <2>1. "key" \in DOMAIN asked[j] /\ IsSequence(asked[j].key)
    BY <1>1, BindingAssumption
  <2>2. s[j] = [asked[j] EXCEPT !.key = NormalizeDataPath(@)]
    BY <1>1
  <2>3. s[j].key = NormalizeDataPath(asked[j].key) /\ "key" \in DOMAIN s[j]
    BY <2>1, <2>2
  <2>. QED BY <2>1, <2>3, Normalized, Zenon
<1>3. IsSequence(s) /\ Len(s) = n
  <2>1. s \in [1 .. n -> {s[j] : j \in DOMAIN s}] /\ DOMAIN s = 1 .. n
    BY <1>1
  <2>. HIDE DEF s, n
  <2>2. s \in Seq({s[j] : j \in DOMAIN s}) /\ Len(s) = n
    BY <1>1, <2>1
  <2>. QED BY <2>2 DEF IsSequence
<1>4. Named(r)
  <2>1. IsSequence(<<Data>>) /\ <<Data>> # <<>>
    BY Short
  <2>2. r.key = <<Data>> /\ "key" \in DOMAIN r
    BY DEF DataPath
  <2>. QED BY <2>1, <2>2, Zenon
<1>5. IsSequence(t) /\ \A j \in 1 .. Len(t) : Named(t[j])
  <2>1. CASE whole
    <3>1. t = <<r>>
      BY <2>1
    <3>. HIDE DEF r, Named
    <3>2. IsSequence(<<r>>) /\ Len(<<r>>) = 1
      BY Short
    <3>3. ASSUME NEW j \in 1 .. Len(<<r>>) PROVE <<r>>[j] = r
      BY <3>2
    <3>. HIDE DEF t
    <3>4. \A j \in 1 .. Len(<<r>>) : Named(<<r>>[j])
      BY <1>4, <3>3, Zenon
    <3>. QED BY <3>1, <3>2, <3>4, Zenon
  <2>2. CASE ~whole
    BY <2>2, EmptyPath
  <2>. QED BY <2>1, <2>2
<1>6. Requested(asked, whole) = s \o t
  BY DEF Requested
<1>. HIDE DEF s, t, r, n, Named
<1>7. /\ Len(t) \in Nat /\ DOMAIN (s \o t) = 1 .. n + Len(t)
      /\ \A j \in 1 .. n : (s \o t)[j] = s[j]
      /\ \A j \in 1 .. Len(t) : (s \o t)[n + j] = t[j]
  BY <1>3, <1>5, Concatenated
<1>8. Named((s \o t)[i])
  <2>1. i \in 1 .. n + Len(t)
    BY <1>6, <1>7
  <2>2. CASE i \in 1 .. n
    BY <1>2, <1>7, <2>2
  <2>3. CASE i \notin 1 .. n
    <3>1. i - n \in 1 .. Len(t) /\ n + (i - n) = i
      BY <1>1, <1>7, <2>1, <2>3
    <3>2. (s \o t)[i] = t[i - n]
      BY <1>7, <3>1
    <3>. QED BY <1>5, <3>1, <3>2
  <2>. QED BY <2>2, <2>3
<1>. QED BY <1>6, <1>8 DEF Named

LEMMA InitGql == GqlInit => GqlInv
<1>. SUFFICES ASSUME GqlInit PROVE GqlInv
  OBVIOUS
<1>1. /\ text \in {Texts[b] : b \in DOMAIN Texts} /\ pos = 1 /\ stack = <<>> /\ phase = "start"
      /\ calls = <<"before">> /\ readers = <<>> /\ inc = NoPayload /\ bindings = own
  BY DEF GqlInit
<1>2. InText
  <2>1. IsSequence(text)
    BY <1>1, TextAssumption
  <2>. QED BY <1>1, <2>1, SequenceLength DEF InText
<1>3. IsSequence(<<"before">>) /\ Len(<<"before">>) = 1 /\ <<"before">>[1] = "before" /\ <<"before">> # <<>>
      /\ DOMAIN <<"before">> = {1}
  <2>1. IsSequence(<<"before">>)
    BY Short
  <2>. QED BY <2>1
<1>4. Nested /\ Loop = "before" /\ ~OfPart
  <2>1. IsSequence(calls)
    BY <1>1, <1>3, Zenon
  <2>2. calls # <<>> /\ calls[1] = "before" /\ DOMAIN calls = {1} /\ Last(calls) = "before"
    BY <1>1, <1>3 DEF Last
  <2>. QED BY <2>1, <2>2 DEF Nested, Outer, Loop, OfPart
<1>5. IsSequence(<<>>) /\ Len(<<>>) = 0 /\ DOMAIN <<>> = {}
  BY EmptyPath
<1>6. Waiting
  <2>1. IsSequence(readers) /\ Len(readers) = 0 /\ DOMAIN readers = {}
    BY <1>1, <1>5 DEF IsSequence
  <2>. QED BY <1>4, <2>1 DEF Waiting
<1>7. Collected
  <2>1. inc.path = <<>> /\ inc.data = <<>> /\ {"path", "data"} \subseteq DOMAIN inc
    BY <1>1 DEF NoPayload
  <2>. QED BY <1>5, <2>1 DEF Collected, IsSequence
<1>8. Served
  <2>1. PICK asked \in BindingLists : own = Requested(asked, wantsRawData) /\ wantsRawData \in BOOLEAN
    BY DEF GqlInit
  <2>2. \A i \in DOMAIN own : "key" \in DOMAIN own[i] /\ IsSequence(own[i].key) /\ own[i].key # <<>>
    BY <2>1, RequestedServed
  <2>3. \A i \in DOMAIN own : Len(own[i].key) <= Len(own[i].key)
    BY <2>2, SequenceLength
  <2>. QED BY <1>1, <2>2, <2>3 DEF Served
<1>9. Parsing
  <2>1. Calls(0)
    BY <1>1, <1>5 DEF Calls, IsSequence
  <2>. QED BY <1>1, <1>4, <2>1 DEF Parsing
<1>. QED BY <1>2, <1>4, <1>6, <1>7, <1>8, <1>9 DEF GqlInv

LEMMA GqlUnchanged ==
  ASSUME GqlInv, UNCHANGED gqlVars
  PROVE  GqlInv'
<1>1. /\ UNCHANGED <<text, pos, bindings, stack, phase>>
      /\ UNCHANGED <<own, calls, readers, inc>>
  BY DEF gqlVars, vars, rest
<1>2. InText' /\ Collected' /\ Served'
  BY <1>1 DEF GqlInv, InText, Collected, Served
<1>3. Loop' = Loop /\ (OfPart' <=> OfPart)
  BY <1>1 DEF Loop, OfPart
<1>4. Nested'
  BY <1>1 DEF GqlInv, Nested
<1>5. Waiting'
  BY <1>1, <1>3 DEF GqlInv, Waiting
<1>6. Parsing'
  BY <1>1, <1>3 DEF GqlInv, Parsing, Calls
<1>. QED BY <1>2, <1>4, <1>5, <1>6 DEF GqlInv

(* The same of one pass, also where it changes nothing, which a formula    *)
(* over behaviours does not see: a pass that takes no reader on and does   *)
(* not return is one of a loop that is Stuck, at what is NotAnObject, or   *)
(* Overfull (GraphQLRequest.cpp 1023-1316 and 1318-1529).                  *)
THEOREM NextGql ==
  ASSUME GqlInv, GqlNext
  PROVE  GqlInv' /\ (~Stuck /\ ~NotAnObject /\ ~Overfull => GqlPassesLeft' < GqlPassesLeft)
<1>1. CASE SkipUnknown \/ PassOverOther \/ LocationMember \/ DataAbsent \/ HasNext
  BY <1>1, MembersRead
<1>2. CASE Errors \/ MemberOfError
  BY <1>2, ErrorsRead
<1>3. CASE Element \/ NoObject \/ EndOfList
  BY <1>3, ListsRead
<1>4. CASE EndOfObject \/ Deliver
  BY <1>4, ObjectsEnd
<1>5. CASE Payloads \/ PayloadMember
  BY <1>5, PayloadsRead
<1>6. CASE Begin \/ BoundaryLine \/ HeaderLine \/ SeekOn
  BY <1>6, LinesRead
<1>7. CASE DataCopied \/ PartData
  BY <1>7, DataRead
<1>8. CASE DataStreamed
  BY <1>8, StreamRead
<1>9. CASE BindData
  BY <1>9, BindingReads
<1>10. CASE DataBound
  BY <1>10, BindingLeaves
<1>11. CASE EndOfPayload
  BY <1>11, PayloadEnds
<1>12. CASE BeginPart
  BY <1>12, PartBegins
<1>13. CASE EndOfPart
  BY <1>13, PartEnds
<1>14. CASE FillBuffer
  BY <1>14, BufferFills
<1>15. CASE StayFull
  BY <1>15, GqlUnchanged DEF StayFull
<1>. QED BY <1>1, <1>2, <1>3, <1>4, <1>5, <1>6, <1>7, <1>8, <1>9, <1>10, <1>11, <1>12, <1>13, <1>14, <1>15
     DEF GqlNext

LEMMA GqlPreserved == GqlInv /\ [GqlNext]_gqlVars => GqlInv'
<1>. SUFFICES ASSUME GqlInv, [GqlNext]_gqlVars PROVE GqlInv'
  OBVIOUS
<1>1. CASE GqlNext
  BY <1>1, NextGql
<1>2. CASE UNCHANGED gqlVars
  BY <1>2, GqlUnchanged
<1>. QED BY <1>1, <1>2

(* Every pass through the loops over a GraphQL response takes a reader on  *)
(* or returns, whatever the text, in one piece or in parts, and whatever is*)
(* asked for, also where data are copied and the copy is read again: so all*)
(* of them end, but for an array's loop in the data that is Stuck, one over*)
(* an array of objects that looks at what is NotAnObject, and one over the *)
(* characters of a number, a name or a word whose buffer is Overfull.      *)
THEOREM GqlPassesCounted == GqlSpec => [](GqlPassesLeft \in Nat) /\ EachGqlPassCounts
<1>1. GqlInv => GqlPassesLeft \in Nat
  BY GqlLengths
<1>2. GqlInv /\ [GqlNext]_gqlVars
        => [~Stuck /\ ~NotAnObject /\ ~Overfull => GqlPassesLeft' < GqlPassesLeft]_gqlVars
  BY NextGql
<1>. QED BY <1>1, <1>2, InitGql, GqlPreserved, PTL DEF GqlSpec, EachGqlPassCounts

(* The parser in the data of a GraphQL response is not deeper than the     *)
(* paths that the caller gave, also where it reads a copy with bindings of *)
(* that copy, whatever path a payload brings.                              *)
THEOREM GqlStackBounded == GqlSpec => []DataRecursionBounded
<1>1. GqlInv => DataRecursionBounded
  <2>. SUFFICES ASSUME GqlInv PROVE DataRecursionBounded
    OBVIOUS
  <2>. DEFINE t == Len(stack)
  <2>1. PICK n \in {0, 1} : Calls(n)
    BY DEF GqlInv, Parsing
  <2>2. t \in Nat /\ DOMAIN stack = 1 .. t
    BY <2>1, SequenceLength DEF Calls
  <2>3. ASSUME t > 1 PROVE \E i \in DOMAIN own : t <= Len(own[i].key)
    <3>1. t \in DOMAIN stack /\ t # 1
      BY <2>2, <2>3
    <3>2. PICK i \in DOMAIN bindings : Len(bindings[i].key) >= n + t
      BY <2>1, <3>1 DEF Calls
    <3>3. i \in DOMAIN own /\ Len(bindings[i].key) <= Len(own[i].key) /\ Len(bindings[i].key) \in Nat
      BY SequenceLength DEF GqlInv, Served
    <3>4. Len(own[i].key) \in Nat
      BY <3>3, OwnKeys DEF GqlInv
    <3>. HIDE DEF t
    <3>. QED BY <2>2, <3>2, <3>3, <3>4
  <2>. HIDE DEF t
  <2>4. t <= 1 \/ t > 1
    BY <2>2
  <2>5. t <= 1 \/ \E i \in DOMAIN own : t <= Len(own[i].key)
    BY <2>3, <2>4
  <2>. QED BY <2>5 DEF DataRecursionBounded, t
<1>. QED BY <1>1, InitGql, GqlPreserved, PTL DEF GqlSpec

=============================================================================
