------------------------------ MODULE TextFacts ------------------------------
(* Facts that proofs about several modules need: about sequences, sets of  *)
(* numbers, and the recursive functions that the parsers find their way in *)
(* a text with, that they are defined on every text and where they can end.*)
EXTENDS TextScan, WellFoundedInduction, TLAPS

-----------------------------------------------------------------------------
(* Sequences *)

Elements(s) == {s[i] : i \in DOMAIN s}

LEMMA SequenceLength ==
  ASSUME NEW s, IsSequence(s)
  PROVE  Len(s) \in Nat /\ DOMAIN s = 1 .. Len(s)
<1>1. s \in Seq(Elements(s))
  BY DEF IsSequence, Elements
<1>. HIDE DEF Elements
<1>. QED BY <1>1

LEMMA Extended ==
  ASSUME NEW s, IsSequence(s), NEW e
  PROVE  /\ IsSequence(Append(s, e))
         /\ Len(s) \in Nat /\ Len(Append(s, e)) = Len(s) + 1
         /\ DOMAIN s = 1 .. Len(s) /\ DOMAIN Append(s, e) = 1 .. Len(s) + 1
         /\ Append(s, e)[Len(s) + 1] = e
         /\ \A i \in DOMAIN s : Append(s, e)[i] = s[i]
<1>. DEFINE S == Elements(s) \cup {e}
            t == Append(s, e)
<1>1. s \in Seq(S) /\ e \in S
  <2>1. s \in Seq(Elements(s)) /\ Elements(s) \subseteq S
    BY DEF IsSequence, Elements
  <2>. HIDE DEF S
  <2>2. s \in Seq(S)
    BY <2>1
  <2>. QED BY <2>2 DEF S
<1>. HIDE DEF S
<1>2. /\ t \in Seq(S) /\ Len(s) \in Nat /\ Len(t) = Len(s) + 1
      /\ DOMAIN s = 1 .. Len(s) /\ DOMAIN t = 1 .. Len(s) + 1
      /\ t[Len(s) + 1] = e
      /\ \A i \in DOMAIN s : t[i] = s[i]
  BY <1>1
<1>. HIDE DEF t
<1>3. t \in Seq(Elements(t))
  BY <1>2 DEF Elements
<1>. QED BY <1>2, <1>3 DEF IsSequence, Elements, t

LEMMA Exchanged ==
  ASSUME NEW s, IsSequence(s), NEW r \in DOMAIN s, NEW e
  PROVE  /\ IsSequence([s EXCEPT ![r] = e])
         /\ DOMAIN [s EXCEPT ![r] = e] = DOMAIN s
         /\ [s EXCEPT ![r] = e][r] = e
         /\ \A i \in DOMAIN s : i # r => [s EXCEPT ![r] = e][i] = s[i]
<1>. DEFINE S == Elements(s) \cup {e}
            t == [s EXCEPT ![r] = e]
<1>1. s \in Seq(S) /\ e \in S
  <2>1. s \in Seq(Elements(s)) /\ Elements(s) \subseteq S
    BY DEF IsSequence, Elements
  <2>. HIDE DEF S
  <2>2. s \in Seq(S)
    BY <2>1
  <2>. QED BY <2>2 DEF S
<1>. HIDE DEF S
<1>2. /\ t \in Seq(S) /\ DOMAIN t = DOMAIN s /\ t[r] = e
      /\ \A i \in DOMAIN s : i # r => t[i] = s[i]
  BY <1>1
<1>. HIDE DEF t
<1>3. t \in Seq(Elements(t))
  BY <1>2 DEF Elements
<1>. QED BY <1>2, <1>3 DEF IsSequence, Elements, t

LEMMA Shortened ==
  ASSUME NEW s, IsSequence(s), NEW n \in 0 .. Len(s)
  PROVE  /\ IsSequence(SubSeq(s, 1, n)) /\ Len(SubSeq(s, 1, n)) = n
         /\ DOMAIN SubSeq(s, 1, n) = 1 .. n
         /\ \A i \in 1 .. n : SubSeq(s, 1, n)[i] = s[i]
<1>. DEFINE t == SubSeq(s, 1, n)
<1>1. s \in Seq(Elements(s)) /\ Len(s) \in Nat
  BY SequenceLength DEF IsSequence, Elements
<1>. HIDE DEF Elements
<1>2. /\ t \in Seq(Elements(s)) /\ Len(t) = n /\ DOMAIN t = 1 .. n
      /\ \A i \in 1 .. n : t[i] = s[i]
  BY <1>1
<1>. HIDE DEF t
<1>3. t \in Seq(Elements(t))
  BY <1>2 DEF Elements
<1>. QED BY <1>2, <1>3 DEF IsSequence, Elements, t

(* Sequences are the same if their elements are. *)
LEMMA SameSequence ==
  ASSUME NEW s, NEW t, IsSequence(s), IsSequence(t), Len(s) = Len(t),
         \A i \in 1 .. Len(s) : s[i] = t[i]
  PROVE  s = t
<1>1. s \in Seq(Elements(s)) /\ t \in Seq(Elements(t))
  BY DEF IsSequence, Elements
<1>. HIDE DEF Elements
<1>. QED BY <1>1

LEMMA Concatenated ==
  ASSUME NEW s, NEW t, IsSequence(s), IsSequence(t)
  PROVE  /\ IsSequence(s \o t) /\ Len(s) \in Nat /\ Len(t) \in Nat
         /\ Len(s \o t) = Len(s) + Len(t) /\ DOMAIN (s \o t) = 1 .. Len(s) + Len(t)
         /\ \A i \in 1 .. Len(s) : (s \o t)[i] = s[i]
         /\ \A i \in 1 .. Len(t) : (s \o t)[Len(s) + i] = t[i]
<1>. DEFINE S == Elements(s) \cup Elements(t)
            u == s \o t
<1>1. s \in Seq(S) /\ t \in Seq(S)
  <2>1. s \in Seq(Elements(s)) /\ t \in Seq(Elements(t)) /\ Elements(s) \subseteq S /\ Elements(t) \subseteq S
    BY DEF IsSequence, Elements
  <2>. HIDE DEF S, Elements
  <2>. QED BY <2>1
<1>. HIDE DEF S
<1>2. /\ u \in Seq(S) /\ Len(s) \in Nat /\ Len(t) \in Nat
      /\ Len(u) = Len(s) + Len(t) /\ DOMAIN u = 1 .. Len(s) + Len(t)
      /\ \A i \in 1 .. Len(s) : u[i] = s[i]
      /\ \A i \in 1 .. Len(t) : u[Len(s) + i] = t[i]
  BY <1>1
<1>. HIDE DEF u
<1>3. u \in Seq(Elements(u))
  BY <1>2 DEF Elements
<1>. QED BY <1>2, <1>3 DEF IsSequence, Elements, u

LEMMA Short ==
  ASSUME NEW a, NEW b
  PROVE  /\ IsSequence(<<a>>) /\ IsSequence(<<a, b>>) /\ IsSequence(<<>>)
         /\ DOMAIN <<a>> = 1 .. 1 /\ DOMAIN <<a, b>> = 1 .. 2 /\ DOMAIN <<>> = 1 .. 0
<1>1. IsSequence(<<a>>) /\ IsSequence(<<a, b>>) /\ IsSequence(<<>>)
  BY DEF IsSequence
<1>2. Len(<<a>>) = 1 /\ Len(<<a, b>>) = 2 /\ Len(<<>>) = 0
  OBVIOUS
<1>3. DOMAIN <<a>> = 1 .. 1
  BY <1>1, <1>2, SequenceLength
<1>4. DOMAIN <<a, b>> = 1 .. 2
  BY <1>1, <1>2, SequenceLength
<1>5. DOMAIN <<>> = 1 .. 0
  BY <1>1, <1>2, SequenceLength
<1>. QED BY <1>1, <1>3, <1>4, <1>5

-----------------------------------------------------------------------------
(* Sets of numbers *)

(* A set of natural numbers has a least element, and one without large     *)
(* numbers a greatest.                                                     *)
LEMMA Least ==
  ASSUME NEW T, T \subseteq Nat, T # {}
  PROVE  \E m \in T : \A k \in T : m <= k
<1>. DEFINE Less == {p \in Nat \X Nat : p[1] < p[2]}
<1>1. IsWellFoundedOn(Less, Nat)
  BY NatLessThanWellFounded DEF OpToRel
<1>2. PICK m \in T : \A k \in T : ~(<<k, m>> \in Less)
  <2>. HIDE DEF Less
  <2>. QED BY <1>1, WFMin, Zenon
<1>3. ASSUME NEW k \in T PROVE m <= k
  <2>1. k \in Nat /\ m \in Nat /\ <<k, m>> \notin Less
    BY <1>2
  <2>. QED BY <2>1
<1>. QED BY <1>3

LEMMA Greatest ==
  ASSUME NEW n \in Nat, NEW T, T \subseteq 1 .. n, T # {}
  PROVE  \E m \in T : \A k \in T : k <= m
<1>. DEFINE S == {k \in Nat : n - k \in T}
<1>1. PICK t \in T : TRUE
  OBVIOUS
<1>2. n - t \in S
  BY <1>1
<1>3. PICK m \in S : \A k \in S : m <= k
  BY <1>2, Least
<1>4. ASSUME NEW k \in T PROVE k <= n - m
  <2>1. n - k \in S /\ m \in Nat
    OBVIOUS
  <2>. QED BY <1>3, <2>1
<1>. QED BY <1>4

-----------------------------------------------------------------------------
(* Recursive functions.  They have one form: at some points the result is  *)
(* at hand, at the others it is that of a point further on.  Induction over*)
(* how far it is to the end of the text is done by the least counterexample*)
(* since a theorem about all predicates is out of the provers' reach.      *)

(* Points X, those with a result Z, the results value, the next point of   *)
(* the others, and how far each point is from the end.                     *)
Descends(X, Z, next, far) ==
  /\ far \in [X -> Nat]
  /\ \A x \in X \ Z : next[x] \in X /\ far[next[x]] < far[x]

(* The form of the functions. *)
Follows(g, X, Z, value, next) ==
  g = [x \in X |-> IF x \in Z THEN value[x] ELSE g[next[x]]]

(* What holds of the results where they are at hand, and of a point's if it*)
(* does of the next one's, holds of all.                                   *)
LEMMA DescentHolds ==
  ASSUME NEW X, NEW Z, NEW next, NEW far, Descends(X, Z, next, far),
         NEW value, NEW g, Follows(g, X, Z, value, next), NEW T,
         \A x \in X \cap Z : <<x, value[x]>> \in T,
         \A x \in X \ Z : <<next[x], g[next[x]]>> \in T => <<x, g[next[x]]>> \in T
  PROVE  \A x \in X : <<x, g[x]>> \in T
<1>. DEFINE Bad == {x \in X : <<x, g[x]>> \notin T}
            F   == {far[x] : x \in Bad}
<1>. SUFFICES ASSUME NEW z \in Bad PROVE FALSE
  OBVIOUS
<1>1. F \subseteq Nat /\ F # {}
  BY DEF Descends
<1>2. PICK m \in F : \A k \in F : m <= k
  <2>. HIDE DEF F
  <2>. QED BY <1>1, Least
<1>3. PICK x \in Bad : far[x] = m
  OBVIOUS
<1>4. g[x] = IF x \in Z THEN value[x] ELSE g[next[x]]
  BY DEF Follows
<1>5. x \notin Z
  BY <1>3, <1>4
<1>6. next[x] \in X /\ far[next[x]] < far[x]
  BY <1>3, <1>5 DEF Descends
<1>7. next[x] \notin Bad
  <2>1. ASSUME next[x] \in Bad PROVE FALSE
    <3>1. far[next[x]] \in F
      BY <2>1
    <3>2. far[next[x]] \in Nat /\ m \in Nat
      BY <1>1, <3>1
    <3>3. m <= far[next[x]]
      BY <1>2, <3>1
    <3>. HIDE DEF F, Bad
    <3>. QED BY <1>3, <1>6, <3>2, <3>3
  <2>. QED BY <2>1
<1>8. <<next[x], g[next[x]]>> \in T
  BY <1>6, <1>7
<1>. QED BY <1>3, <1>4, <1>5, <1>8

(* There is such a function: the one on the points that are near the end   *)
(* can be continued to those one further away.                             *)
LEMMA DescentExists ==
  ASSUME NEW X, NEW Z, NEW next, NEW far, Descends(X, Z, next, far), NEW value,
         NEW n \in Nat, \A x \in X : far[x] <= n
  PROVE  \E g : Follows(g, X, Z, value, next)
<1>. DEFINE Near(k) == {x \in X : far[x] < k}
            Done == {k \in Nat : \E g : Follows(g, Near(n + 1 - k), Z, value, next)}
<1>1. n + 1 \in Done
  <2>1. Near(n + 1 - (n + 1)) = {}
    BY DEF Descends
  <2>2. \E g : Follows(g, {}, Z, value, next)
    <3>1. Follows([x \in {} |-> x], {}, Z, value, next)
      BY DEF Follows
    <3>. QED BY <3>1
  <2>. HIDE DEF Near
  <2>3. \E g : Follows(g, Near(n + 1 - (n + 1)), Z, value, next)
    BY <2>1, <2>2
  <2>. QED BY <2>3
<1>2. PICK k \in Done : \A j \in Done : k <= j
  <2>. HIDE DEF Done
  <2>1. Done \subseteq Nat
    BY DEF Done
  <2>. QED BY <1>1, <2>1, Least
<1>3. k \in Nat /\ k <= n + 1
  BY <1>1, <1>2
<1>4. PICK g : Follows(g, Near(n + 1 - k), Z, value, next)
  BY <1>2
<1>5. CASE k = 0
  <2>1. Near(n + 1) = X
    BY DEF Descends
  <2>. QED BY <1>4, <1>5, <2>1
<1>6. CASE k > 0
  <2>. DEFINE m == n + 1 - k
              old == Near(m)
              new == Near(m + 1)
              h == [x \in new |-> IF x \in Z THEN value[x] ELSE g[next[x]]]
  <2>1. m \in Nat
    BY <1>3
  <2>2. old \subseteq new
    BY <2>1 DEF Descends
  <2>3. ASSUME NEW x \in new \ Z PROVE next[x] \in old
    BY <2>1, <2>3 DEF Descends
  <2>4. ASSUME NEW x \in old PROVE h[x] = g[x]
    <3>1. g[x] = IF x \in Z THEN value[x] ELSE g[next[x]]
      BY <1>4, <2>4 DEF Follows
    <3>. QED BY <2>2, <3>1
  <2>5. ASSUME NEW x \in new PROVE h[x] = IF x \in Z THEN value[x] ELSE h[next[x]]
    <3>1. CASE x \in Z
      BY <3>1
    <3>2. CASE x \notin Z
      <4>1. h[next[x]] = g[next[x]]
        BY <2>3, <2>4, <3>2
      <4>. QED BY <3>2, <4>1
    <3>. QED BY <3>1, <3>2
  <2>6. Follows(h, new, Z, value, next)
    BY <2>5 DEF Follows
  <2>7. k - 1 \in Nat /\ n + 1 - (k - 1) = m + 1
    BY <1>3, <1>6
  <2>. HIDE DEF h, m
  <2>8. k - 1 \in Done
    BY <2>6, <2>7
  <2>. HIDE DEF Done
  <2>9. k <= k - 1
    BY <1>2, <2>8
  <2>. QED BY <1>3, <2>9
<1>. QED BY <1>3, <1>5, <1>6

(* The form of functions that collect something on the way. *)
Collects(g, X, Z, value, head, next) ==
  g = [x \in X |-> IF x \in Z THEN value[x] ELSE head[x] \o g[next[x]]]

(* There is such a function, too: as before, it can be continued. *)
LEMMA CollectExists ==
  ASSUME NEW X, NEW Z, NEW next, NEW far, Descends(X, Z, next, far), NEW value, NEW head,
         NEW n \in Nat, \A x \in X : far[x] <= n
  PROVE  \E g : Collects(g, X, Z, value, head, next)
<1>. DEFINE Near(k) == {x \in X : far[x] < k}
            Done == {k \in Nat : \E g : Collects(g, Near(n + 1 - k), Z, value, head, next)}
<1>1. n + 1 \in Done
  <2>1. Near(n + 1 - (n + 1)) = {}
    BY DEF Descends
  <2>2. \E g : Collects(g, {}, Z, value, head, next)
    <3>1. Collects([x \in {} |-> x], {}, Z, value, head, next)
      BY DEF Collects
    <3>. QED BY <3>1
  <2>. HIDE DEF Near
  <2>3. \E g : Collects(g, Near(n + 1 - (n + 1)), Z, value, head, next)
    BY <2>1, <2>2
  <2>. QED BY <2>3
<1>2. PICK k \in Done : \A j \in Done : k <= j
  <2>. HIDE DEF Done
  <2>1. Done \subseteq Nat
    BY DEF Done
  <2>. QED BY <1>1, <2>1, Least
<1>3. k \in Nat /\ k <= n + 1
  BY <1>1, <1>2
<1>4. PICK g : Collects(g, Near(n + 1 - k), Z, value, head, next)
  BY <1>2
<1>5. CASE k = 0
  <2>1. Near(n + 1) = X
    BY DEF Descends
  <2>. QED BY <1>4, <1>5, <2>1
<1>6. CASE k > 0
  <2>. DEFINE m == n + 1 - k
              old == Near(m)
              new == Near(m + 1)
              h == [x \in new |-> IF x \in Z THEN value[x] ELSE head[x] \o g[next[x]]]
  <2>1. m \in Nat
    BY <1>3
  <2>2. old \subseteq new
    BY <2>1 DEF Descends
  <2>3. ASSUME NEW x \in new \ Z PROVE next[x] \in old
    BY <2>1, <2>3 DEF Descends
  <2>4. ASSUME NEW x \in old PROVE h[x] = g[x]
    <3>1. g[x] = IF x \in Z THEN value[x] ELSE head[x] \o g[next[x]]
      BY <1>4, <2>4 DEF Collects
    <3>. QED BY <2>2, <3>1
  <2>5. ASSUME NEW x \in new PROVE h[x] = IF x \in Z THEN value[x] ELSE head[x] \o h[next[x]]
    <3>1. CASE x \in Z
      BY <3>1
    <3>2. CASE x \notin Z
      <4>1. h[next[x]] = g[next[x]]
        BY <2>3, <2>4, <3>2
      <4>. QED BY <3>2, <4>1
    <3>. QED BY <3>1, <3>2
  <2>6. Collects(h, new, Z, value, head, next)
    BY <2>5 DEF Collects
  <2>7. k - 1 \in Nat /\ n + 1 - (k - 1) = m + 1
    BY <1>3, <1>6
  <2>. HIDE DEF h, m
  <2>8. k - 1 \in Done
    BY <2>6, <2>7
  <2>. HIDE DEF Done
  <2>9. k <= k - 1
    BY <1>2, <2>8
  <2>. QED BY <1>3, <2>9
<1>. QED BY <1>3, <1>5, <1>6

(* What holds of what is at hand, and of what a point makes of what the    *)
(* next one has if it does of that, holds of all.                          *)
Grows(g, X, Z, head, next, T) ==
  \A x \in X \ Z : <<next[x], g[next[x]]>> \in T => <<x, head[x] \o g[next[x]]>> \in T

LEMMA CollectHolds ==
  ASSUME NEW X, NEW Z, NEW next, NEW far, Descends(X, Z, next, far),
         NEW value, NEW head, NEW g, Collects(g, X, Z, value, head, next), NEW T,
         \A x \in X \cap Z : <<x, value[x]>> \in T, Grows(g, X, Z, head, next, T)
  PROVE  \A x \in X : <<x, g[x]>> \in T
<1>. DEFINE Bad == {x \in X : <<x, g[x]>> \notin T}
            F   == {far[x] : x \in Bad}
<1>. SUFFICES ASSUME NEW z \in Bad PROVE FALSE
  OBVIOUS
<1>1. F \subseteq Nat /\ F # {}
  BY DEF Descends
<1>2. PICK m \in F : \A k \in F : m <= k
  <2>. HIDE DEF F
  <2>. QED BY <1>1, Least
<1>3. PICK x \in Bad : far[x] = m
  OBVIOUS
<1>4. g[x] = IF x \in Z THEN value[x] ELSE head[x] \o g[next[x]]
  BY DEF Collects
<1>5. x \notin Z
  BY <1>3, <1>4
<1>6. next[x] \in X /\ far[next[x]] < far[x]
  BY <1>3, <1>5 DEF Descends
<1>7. next[x] \notin Bad
  <2>1. ASSUME next[x] \in Bad PROVE FALSE
    <3>1. far[next[x]] \in F
      BY <2>1
    <3>2. far[next[x]] \in Nat /\ m \in Nat
      BY <1>1, <3>1
    <3>3. m <= far[next[x]]
      BY <1>2, <3>1
    <3>. HIDE DEF F, Bad
    <3>. QED BY <1>3, <1>6, <3>2, <3>3
  <2>. QED BY <2>1
<1>8. <<next[x], g[next[x]]>> \in T
  BY <1>6, <1>7
<1>. QED BY <1>3, <1>4, <1>5, <1>8 DEF Grows

(* A scan of a text of n characters: its results are not before where it is*)
(* asked for, and it goes on behind where it is.                           *)
Scans(n, Z, value, next) ==
  \A q \in 1 .. n + 1 : IF q \in Z THEN value[q] \in q .. n + 1 ELSE next[q] \in q + 1 .. n + 1

LEMMA ScanEnds ==
  ASSUME NEW n \in Nat, NEW Z, NEW value, NEW next, Scans(n, Z, value, next)
  PROVE  /\ \E g : Follows(g, 1 .. n + 1, Z, value, next)
         /\ \A g : Follows(g, 1 .. n + 1, Z, value, next) =>
              \A q \in 1 .. n + 1 : g[q] \in q .. n + 1
<1>. DEFINE X   == 1 .. n + 1
            far == [q \in X |-> n + 1 - q]
            T   == {t \in X \X X : t[1] <= t[2]}
<1>1. Descends(X, Z, next, far)
  BY DEF Descends, Scans
<1>2. \A q \in X : far[q] <= n
  OBVIOUS
<1>3. \E g : Follows(g, X, Z, value, next)
  <2>. HIDE DEF X, far
  <2>. QED BY <1>1, <1>2, DescentExists
<1>4. ASSUME NEW g, Follows(g, X, Z, value, next), NEW q \in X
      PROVE  g[q] \in q .. n + 1
  <2>1. \A x \in X \cap Z : <<x, value[x]>> \in T
    BY DEF Scans
  <2>2. ASSUME NEW x \in X \ Z, <<next[x], g[next[x]]>> \in T
        PROVE  <<x, g[next[x]]>> \in T
    BY <2>2 DEF Scans
  <2>3. \A x \in X : <<x, g[x]>> \in T
    <3>. HIDE DEF X, far, T
    <3>. QED BY <1>1, <1>4, <2>1, <2>2, DescentHolds
  <2>4. <<q, g[q]>> \in T
    BY <2>3
  <2>. QED BY <2>4
<1>. QED BY <1>3, <1>4

-----------------------------------------------------------------------------
(* The scans of TextScan *)

(* Where there is a character, the text goes on. *)
LEMMA Within ==
  ASSUME NEW s, IsSequence(s), NEW p \in 1 .. Len(s) + 1, At(s, p) # "end"
  PROVE  p \in 1 .. Len(s) /\ p + 1 \in 1 .. Len(s) + 1 /\ Read(s, p) = p + 1
BY SequenceLength DEF At, Read

LEMMA ReadOn ==
  ASSUME NEW s, IsSequence(s), NEW p \in 1 .. Len(s) + 1
  PROVE  /\ Read(s, p) \in p .. Len(s) + 1
         /\ p <= Len(s) => Read(s, p) = p + 1
BY SequenceLength DEF Read

LEMMA FirstInEnds ==
  ASSUME NEW s, IsSequence(s), NEW C, NEW p \in 1 .. Len(s) + 1
  PROVE  /\ FirstIn(s, p, C) \in p .. Len(s) + 1
         /\ At(s, FirstIn(s, p, C)) \in C \cup {"end"}
<1>. DEFINE n     == Len(s) + 1
            X     == 1 .. n
            Z     == {q \in X : At(s, q) \in C \cup {"end"}}
            value == [q \in X |-> q]
            next  == [q \in X |-> q + 1]
            far   == [q \in X |-> n - q]
            Eq(g) == g = [q \in 1 .. Len(s) + 1 |->
                            IF At(s, q) \in C \cup {"end"} THEN q ELSE g[q + 1]]
            T     == {t \in X \X X : t[1] <= t[2] /\ At(s, t[2]) \in C \cup {"end"}}
<1>1. n \in Nat /\ At(s, n) = "end"
  BY SequenceLength DEF At
<1>2. Descends(X, Z, next, far)
  BY <1>1 DEF Descends
<1>3. ASSUME NEW g PROVE Eq(g) <=> Follows(g, X, Z, value, next)
  BY DEF Follows
<1>4. PICK g : Eq(g) /\ FirstIn(s, p, C) = g[p]
  <2>1. \A x \in X : far[x] <= n
    BY <1>1
  <2>. HIDE DEF X, Z, next, far, value
  <2>2. \E g : Follows(g, X, Z, value, next)
    BY <1>1, <1>2, <2>1, DescentExists
  <2>3. \E g : Eq(g)
    BY <1>3, <2>2
  <2>. QED BY <2>3 DEF FirstIn
<1>5. \A x \in X \cap Z : <<x, value[x]>> \in T
  BY <1>1
<1>6. \A x \in X \ Z : <<next[x], g[next[x]]>> \in T => <<x, g[next[x]]>> \in T
  BY <1>1
<1>7. Follows(g, X, Z, value, next)
  BY <1>3, <1>4
<1>8. \A x \in X : <<x, g[x]>> \in T
  <2>. HIDE DEF X, Z, next, far, value, T, Eq
  <2>. QED BY <1>2, <1>5, <1>6, <1>7, DescentHolds
<1>9. <<p, g[p]>> \in T
  BY <1>8
<1>. QED BY <1>1, <1>4, <1>9

LEMMA FirstNotInEnds ==
  ASSUME NEW s, IsSequence(s), NEW C, "end" \notin C, NEW p \in 1 .. Len(s) + 1
  PROVE  /\ FirstNotIn(s, p, C) \in p .. Len(s) + 1
         /\ At(s, FirstNotIn(s, p, C)) \notin C
<1>. DEFINE n     == Len(s) + 1
            X     == 1 .. n
            Z     == {q \in X : At(s, q) \notin C}
            value == [q \in X |-> q]
            next  == [q \in X |-> q + 1]
            far   == [q \in X |-> n - q]
            Eq(g) == g = [q \in 1 .. Len(s) + 1 |-> IF At(s, q) \in C THEN g[q + 1] ELSE q]
            T     == {t \in X \X X : t[1] <= t[2] /\ At(s, t[2]) \notin C}
<1>1. n \in Nat /\ At(s, n) = "end"
  BY SequenceLength DEF At
<1>2. Descends(X, Z, next, far)
  BY <1>1 DEF Descends
<1>3. ASSUME NEW g PROVE Eq(g) <=> Follows(g, X, Z, value, next)
  BY DEF Follows
<1>4. PICK g : Eq(g) /\ FirstNotIn(s, p, C) = g[p]
  <2>1. \A x \in X : far[x] <= n
    BY <1>1
  <2>. HIDE DEF X, Z, next, far, value
  <2>2. \E g : Follows(g, X, Z, value, next)
    BY <1>1, <1>2, <2>1, DescentExists
  <2>3. \E g : Eq(g)
    BY <1>3, <2>2
  <2>. QED BY <2>3 DEF FirstNotIn
<1>5. \A x \in X \cap Z : <<x, value[x]>> \in T
  BY <1>1
<1>6. \A x \in X \ Z : <<next[x], g[next[x]]>> \in T => <<x, g[next[x]]>> \in T
  BY <1>1
<1>7. Follows(g, X, Z, value, next)
  BY <1>3, <1>4
<1>8. \A x \in X : <<x, g[x]>> \in T
  <2>. HIDE DEF X, Z, next, far, value, T, Eq
  <2>. QED BY <1>2, <1>5, <1>6, <1>7, DescentHolds
<1>9. <<p, g[p]>> \in T
  BY <1>8
<1>. QED BY <1>1, <1>4, <1>9

=============================================================================
