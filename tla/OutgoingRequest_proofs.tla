----------------------- MODULE OutgoingRequest_proofs -----------------------
(* Theorems about OutgoingRequest, for all sequences of constructions,     *)
(* setters, moves and executions: the headers of all messages, for every   *)
(* size of the arrays that keep them, and the ids of JSON-RPC requests, for*)
(* every width of the counter.                                             *)
EXTENDS OutgoingRequest, TextFacts

-----------------------------------------------------------------------------
(* Texts in arrays *)

(* What is left of a text in an array. *)
LEMMA CutText ==
  ASSUME NEW t, IsSequence(t), NEW size \in Nat \ {0}
  PROVE  /\ IsSequence(Cut(t, size)) /\ Len(Cut(t, size)) \in Nat /\ Len(Cut(t, size)) < size
         /\ Len(Cut(t, size)) = IF Len(t) < size THEN Len(t) ELSE size - 1
         /\ \A i \in 1 .. Len(Cut(t, size)) : Cut(t, size)[i] = t[i]
         /\ Len(t) < size => Cut(t, size) = t
<1>. DEFINE n == IF Len(t) < size THEN Len(t) ELSE size - 1
            u == SubSeq(t, 1, n)
<1>1. n \in 0 .. Len(t) /\ n < size /\ Len(t) \in Nat
  BY SequenceLength
<1>2. /\ IsSequence(u) /\ Len(u) = n
      /\ \A i \in 1 .. n : u[i] = t[i]
  <2>. HIDE DEF n
  <2>. QED BY <1>1, Shortened
<1>. HIDE DEF u
<1>3. Len(t) < size => u = t
  BY <1>2, SameSequence
<1>4. Cut(t, size) = u
  BY DEF Cut, u
<1>. QED BY <1>1, <1>2, <1>3, <1>4

(* Texts that agree as far as they are kept do so with the same text behind*)
(* them.                                                                   *)
LEMMA CutAgain ==
  ASSUME NEW v, NEW w, NEW s, IsSequence(v), IsSequence(w), IsSequence(s),
         NEW size \in Nat \ {0}, Cut(v, size) = Cut(w, size)
  PROVE  Cut(v \o s, size) = Cut(w \o s, size)
<1>. DEFINE n == Len(Cut(v, size))
            a == v \o s
            b == w \o s
<1>1. /\ Len(v) \in Nat /\ Len(w) \in Nat /\ Len(s) \in Nat
      /\ n = (IF Len(v) < size THEN Len(v) ELSE size - 1)
      /\ n = (IF Len(w) < size THEN Len(w) ELSE size - 1)
      /\ \A i \in 1 .. n : v[i] = w[i]
  <2>1. Len(v) \in Nat /\ Len(w) \in Nat /\ Len(s) \in Nat
    BY SequenceLength
  <2>2. /\ n = (IF Len(v) < size THEN Len(v) ELSE size - 1)
        /\ \A i \in 1 .. n : Cut(v, size)[i] = v[i]
    BY CutText
  <2>3. /\ n = (IF Len(w) < size THEN Len(w) ELSE size - 1)
        /\ \A i \in 1 .. n : Cut(w, size)[i] = w[i]
    BY CutText
  <2>. HIDE DEF n
  <2>. QED BY <2>1, <2>2, <2>3
<1>2. CASE n < size - 1
  <2>1. Len(v) = Len(w) /\ \A i \in 1 .. Len(v) : v[i] = w[i]
    BY <1>1, <1>2
  <2>2. v = w
    BY <2>1, SameSequence
  <2>. QED BY <2>2
<1>3. CASE ~(n < size - 1)
  <2>. HIDE DEF n
  <2>1. n = size - 1 /\ n <= Len(v) /\ n <= Len(w)
    BY <1>1, <1>3
  <2>2. /\ IsSequence(a) /\ Len(a) \in Nat /\ n <= Len(a)
        /\ IsSequence(b) /\ Len(b) \in Nat /\ n <= Len(b)
        /\ \A i \in 1 .. n : a[i] = v[i] /\ b[i] = w[i]
    BY <1>1, <2>1, Concatenated
  <2>. HIDE DEF a, b
  <2>3. /\ Len(Cut(a, size)) = n /\ IsSequence(Cut(a, size)) /\ \A i \in 1 .. n : Cut(a, size)[i] = a[i]
        /\ Len(Cut(b, size)) = n /\ IsSequence(Cut(b, size)) /\ \A i \in 1 .. n : Cut(b, size)[i] = b[i]
    <3>1. ASSUME NEW t, IsSequence(t), Len(t) \in Nat, n <= Len(t)
          PROVE  Len(Cut(t, size)) = n /\ IsSequence(Cut(t, size)) /\ \A i \in 1 .. n : Cut(t, size)[i] = t[i]
      <4>1. /\ IsSequence(Cut(t, size))
            /\ Len(Cut(t, size)) = IF Len(t) < size THEN Len(t) ELSE size - 1
            /\ \A i \in 1 .. Len(Cut(t, size)) : Cut(t, size)[i] = t[i]
        BY <3>1, CutText
      <4>. QED BY <2>1, <3>1, <4>1
    <3>. QED BY <2>2, <3>1
  <2>4. Cut(a, size) = Cut(b, size)
    BY <1>1, <2>2, <2>3, SameSequence
  <2>. QED BY <2>4 DEF a, b
<1>. QED BY <1>2, <1>3

(* A value that has been cut and the value itself are the same with one    *)
(* cookie more behind them.                                                *)
LEMMA CutCookie ==
  ASSUME NEW v, IsSequence(v), NEW w, IsSequence(w), NEW size \in Nat \ {0}, w = Cut(v, size),
         NEW a, NEW b, NEW c, NEW d, IsSequence(a), IsSequence(b), IsSequence(c), IsSequence(d)
  PROVE  LET More(t) == (IF t = <<>> THEN <<>> ELSE t \o a) \o b \o c \o d
         IN  Cut(More(w), size) = Cut(More(v), size)
<1>. DEFINE x == IF v = <<>> THEN <<>> ELSE v \o a
            y == IF w = <<>> THEN <<>> ELSE w \o a
<1>1. Cut(w, size) = Cut(v, size)
  BY CutText
<1>2. IsSequence(x) /\ IsSequence(y)
  BY Concatenated, Short
<1>3. CASE size = 1
  <2>1. ASSUME NEW t, IsSequence(t) PROVE Cut(t, size) = <<>>
    <3>1. IsSequence(Cut(t, size)) /\ Len(Cut(t, size)) = 0
      BY <1>3, <2>1, CutText
    <3>. QED BY <3>1, Short, SameSequence
  <2>2. IsSequence(((x \o b) \o c) \o d) /\ IsSequence(((y \o b) \o c) \o d)
    <3>. HIDE DEF x, y
    <3>. QED BY <1>2, Concatenated
  <2>3. Cut(((x \o b) \o c) \o d, size) = Cut(((y \o b) \o c) \o d, size)
    BY <2>1, <2>2
  <2>. QED BY <2>3
<1>4. CASE size # 1
  <2>1. w = <<>> <=> v = <<>>
    <3>1. Len(v) \in Nat /\ (Len(w) = 0 <=> Len(v) = 0)
      BY <1>4, CutText, SequenceLength
    <3>2. ASSUME NEW t, IsSequence(t) PROVE t = <<>> <=> Len(t) = 0
      BY <3>2, Short, SameSequence
    <3>. QED BY <3>1, <3>2
  <2>2. Cut(y, size) = Cut(x, size)
    BY <1>1, <2>1, CutAgain
  <2>. HIDE DEF x, y
  <2>3. Cut(y \o b, size) = Cut(x \o b, size) /\ IsSequence(y \o b) /\ IsSequence(x \o b)
    BY <1>2, <2>2, CutAgain, Concatenated
  <2>4. /\ Cut((y \o b) \o c, size) = Cut((x \o b) \o c, size)
        /\ IsSequence((y \o b) \o c) /\ IsSequence((x \o b) \o c)
    BY <2>3, CutAgain, Concatenated
  <2>5. Cut(((y \o b) \o c) \o d, size) = Cut(((x \o b) \o c) \o d, size)
    BY <2>4, CutAgain
  <2>. QED BY <2>5 DEF x, y
<1>. QED BY <1>3, <1>4

-----------------------------------------------------------------------------
(* Names *)

LEMMA SameNameLength ==
  ASSUME NEW a, NEW b, IsSequence(a), IsSequence(b), SameName(a, b)
  PROVE  Len(a) = Len(b)
<1>. DEFINE low(t) == [i \in DOMAIN t |-> Lower(t[i])]
<1>1. DOMAIN low(a) = DOMAIN a /\ DOMAIN low(b) = DOMAIN b /\ low(a) = low(b)
  BY DEF SameName
<1>2. DOMAIN a = DOMAIN b
  BY <1>1
<1>3. Len(a) \in Nat /\ Len(b) \in Nat /\ 1 .. Len(a) = 1 .. Len(b)
  BY <1>2, SequenceLength
<1>. QED BY <1>3

LEMMA SameNames ==
  /\ \A a : SameName(a, a)
  /\ \A a, b : SameName(a, b) => SameName(b, a)
  /\ \A a, b, c : SameName(a, b) /\ SameName(b, c) => SameName(a, c)
BY DEF SameName

(* What belongs to a name belongs to it in any case of its letters. *)
LEMMA OneClass ==
  ASSUME NEW a, NEW b, SameName(a, b)
  PROVE  /\ \A c : Names(c, a) <=> Names(c, b)
         /\ \A calls : Naming(calls, a) = Naming(calls, b)
         /\ \A calls : Clear(calls, a) <=> Clear(calls, b)
         /\ \A list : Lines(list, a) = Lines(list, b)
<1>1. \A c : SameName(c, a) <=> SameName(c, b)
  BY SameNames
<1>2. \A c : Names(c, a) <=> Names(c, b)
  BY <1>1 DEF Names
<1>3. \A calls : Naming(calls, a) = Naming(calls, b)
  BY <1>2 DEF Naming
<1>. QED BY <1>1, <1>2, <1>3 DEF Clear, Lines

(* A call more, and a line more. *)
LEMMA NamingOneMore ==
  ASSUME NEW calls, IsSequence(calls), NEW c, NEW name
  PROVE  /\ Naming(Append(calls, c), name)
              = Naming(calls, name) \cup {i \in {Len(calls) + 1} : Names(c, name)}
         /\ (\A i \in Naming(Append(calls, c), name) : Fits(Append(calls, c)[i]))
              <=> (\A i \in Naming(calls, name) : Fits(calls[i])) /\ (Names(c, name) => Fits(c))
         /\ (\A i \in Naming(Append(calls, c), name) : ~Fits(Append(calls, c)[i]))
              <=> (\A i \in Naming(calls, name) : ~Fits(calls[i])) /\ (Names(c, name) => ~Fits(c))
<1>. DEFINE t == Append(calls, c)
            n == Len(calls)
<1>1. /\ n \in Nat /\ DOMAIN calls = 1 .. n /\ DOMAIN t = 1 .. n + 1
      /\ t[n + 1] = c /\ \A i \in DOMAIN calls : t[i] = calls[i]
  BY Extended
<1>. HIDE DEF t, n
<1>2. Naming(t, name) = Naming(calls, name) \cup {i \in {n + 1} : Names(c, name)}
  BY <1>1 DEF Naming
<1>3. \A i \in Naming(calls, name) : i \in DOMAIN calls
  BY DEF Naming
<1>4. /\ (\A i \in Naming(t, name) : Fits(t[i]))
           <=> (\A i \in Naming(calls, name) : Fits(calls[i])) /\ (Names(c, name) => Fits(c))
      /\ (\A i \in Naming(t, name) : ~Fits(t[i]))
           <=> (\A i \in Naming(calls, name) : ~Fits(calls[i])) /\ (Names(c, name) => ~Fits(c))
  BY <1>1, <1>2, <1>3
<1>. QED BY <1>2, <1>4 DEF t, n

LEMMA LinesOneMore ==
  ASSUME NEW list, IsSequence(list), NEW h, NEW name
  PROVE  /\ Lines(Append(list, h), name)
              = Lines(list, name) \cup {i \in {Len(list) + 1} : SameName(h.name, name)}
         /\ Lines(list, name) \subseteq 1 .. Len(list) /\ Len(list) \in Nat
BY Extended DEF Lines

LEMMA LinesExchanged ==
  ASSUME NEW list, IsSequence(list), NEW j \in DOMAIN list, NEW h, h.name = list[j].name, NEW name
  PROVE  Lines([list EXCEPT ![j] = h], name) = Lines(list, name)
<1>. DEFINE t == [list EXCEPT ![j] = h]
<1>1. DOMAIN t = DOMAIN list /\ t[j] = h /\ \A i \in DOMAIN list : i # j => t[i] = list[i]
  BY Exchanged
<1>. HIDE DEF t
<1>2. Lines(t, name) = Lines(list, name)
  BY <1>1 DEF Lines
<1>. QED BY <1>2 DEF t

-----------------------------------------------------------------------------
(* The values that the calls have given a name. *)

(* The function that Valued goes through the calls with. *)
Runs(g, calls, name, n) ==
  g = [k \in 0 .. n |-> IF k = 0 THEN <<>> ELSE After(g[k - 1], calls[k], name)]

LEMMA RunsStep ==
  ASSUME NEW g, NEW calls, NEW name, NEW n \in Nat, Runs(g, calls, name, n)
  PROVE  /\ g[0] = <<>>
         /\ \A k \in 1 .. n : g[k] = After(g[k - 1], calls[k], name)
         /\ DOMAIN g = 0 .. n
BY DEF Runs

(* Two such functions agree as far as their calls do. *)
LEMMA RunsAgree ==
  ASSUME NEW a, NEW b, NEW calls, NEW others, NEW name, NEW n \in Nat, NEW m \in Nat,
         n <= m, Runs(a, calls, name, n), Runs(b, others, name, m),
         \A k \in 1 .. n : calls[k] = others[k]
  PROVE  \A k \in 0 .. n : a[k] = b[k]
<1>. DEFINE Bad == {k \in 0 .. n : a[k] # b[k]}
<1>. SUFFICES ASSUME Bad # {} PROVE FALSE
  OBVIOUS
<1>1. PICK k \in Bad : \A j \in Bad : k <= j
  <2>1. Bad \subseteq Nat
    OBVIOUS
  <2>. HIDE DEF Bad
  <2>. QED BY <2>1, Least
<1>2. a[0] = <<>> /\ b[0] = <<>>
  BY RunsStep
<1>3. k \in 1 .. n /\ k - 1 \in 0 .. n /\ k - 1 < k
  BY <1>2
<1>4. k - 1 \notin Bad
  <2>. HIDE DEF Bad
  <2>. QED BY <1>1, <1>3
<1>5. a[k - 1] = b[k - 1]
  BY <1>3, <1>4
<1>6. a[k] = After(a[k - 1], calls[k], name) /\ b[k] = After(b[k - 1], others[k], name)
  <2>1. k \in 1 .. m
    BY <1>3
  <2>. QED BY <1>3, <2>1, RunsStep
<1>. QED BY <1>3, <1>5, <1>6

(* It is continued by one call. *)
LEMMA RunsOn ==
  ASSUME NEW g, NEW calls, NEW name, NEW n \in Nat, Runs(g, calls, name, n)
  PROVE  \E h : Runs(h, calls, name, n + 1)
<1>. DEFINE h == [k \in 0 .. n + 1 |-> IF k = 0 THEN <<>> ELSE After(g[k - 1], calls[k], name)]
<1>1. ASSUME NEW k \in 0 .. n PROVE h[k] = g[k]
  BY RunsStep
<1>2. ASSUME NEW k \in 0 .. n + 1, k # 0 PROVE h[k - 1] = g[k - 1]
  <2>1. k - 1 \in 0 .. n
    BY <1>2
  <2>. HIDE DEF h
  <2>. QED BY <1>1, <2>1
<1>3. h = [k \in 0 .. n + 1 |-> IF k = 0 THEN <<>> ELSE After(h[k - 1], calls[k], name)]
  BY <1>2
<1>4. Runs(h, calls, name, n + 1)
  BY <1>3 DEF Runs
<1>. QED BY <1>4

LEMMA RunsExist ==
  ASSUME NEW calls, NEW name, NEW n \in Nat
  PROVE  \E g : Runs(g, calls, name, n)
<1>. DEFINE Bad == {k \in 0 .. n : ~ \E g : Runs(g, calls, name, k)}
<1>. SUFFICES ASSUME Bad # {} PROVE FALSE
  <2>1. n \in 0 .. n
    OBVIOUS
  <2>. QED BY <2>1
<1>1. PICK k \in Bad : \A j \in Bad : k <= j
  <2>1. Bad \subseteq Nat
    OBVIOUS
  <2>. HIDE DEF Bad
  <2>. QED BY <2>1, Least
<1>2. k # 0
  <2>1. Runs([j \in {0} |-> <<>>], calls, name, 0)
    BY DEF Runs
  <2>. QED BY <2>1
<1>3. k - 1 \in Nat /\ k - 1 \in 0 .. n /\ (k - 1) + 1 = k
  BY <1>2
<1>4. k - 1 \notin Bad
  <2>. HIDE DEF Bad
  <2>. QED BY <1>1, <1>3
<1>5. \E g : Runs(g, calls, name, k)
  <2>1. PICK g : Runs(g, calls, name, k - 1)
    BY <1>3, <1>4
  <2>. QED BY <1>3, <2>1, RunsOn
<1>. QED BY <1>5

LEMMA ValuedRuns ==
  ASSUME NEW calls, IsSequence(calls), NEW name
  PROVE  \E g : Runs(g, calls, name, Len(calls)) /\ Valued(calls, name) = g[Len(calls)]
<1>. DEFINE n == Len(calls)
            Eq(g) == g = [k \in 0 .. Len(calls) |->
                            IF k = 0 THEN <<>> ELSE After(g[k - 1], calls[k], name)]
            f == CHOOSE g : Eq(g)
<1>1. n \in Nat
  BY SequenceLength
<1>2. \E g : Eq(g)
  <2>1. PICK g : Runs(g, calls, name, Len(calls))
    BY <1>1, RunsExist
  <2>2. Eq(g)
    BY <2>1, Zenon DEF Runs
  <2>. QED BY <2>2
<1>3. Eq(f)
  BY <1>2
<1>4. Valued(calls, name) = f[Len(calls)]
  BY DEF Valued
<1>5. Runs(f, calls, name, Len(calls))
  BY <1>3 DEF Runs
<1>. QED BY <1>4, <1>5

LEMMA ValuedOneMore ==
  ASSUME NEW calls, IsSequence(calls), NEW c, NEW name
  PROVE  Valued(Append(calls, c), name) = After(Valued(calls, name), c, name)
<1>. DEFINE t == Append(calls, c)
            n == Len(calls)
<1>1. /\ IsSequence(t) /\ n \in Nat /\ Len(t) = n + 1 /\ DOMAIN calls = 1 .. n
      /\ t[n + 1] = c /\ \A i \in 1 .. n : t[i] = calls[i]
  BY Extended
<1>. HIDE DEF t
<1>2. PICK a : Runs(a, calls, name, n) /\ Valued(calls, name) = a[n]
  BY ValuedRuns
<1>3. PICK b : Runs(b, t, name, n + 1) /\ Valued(t, name) = b[n + 1]
  BY <1>1, ValuedRuns
<1>. HIDE DEF n
<1>4. a[n] = b[n]
  <2>1. n + 1 \in Nat /\ n <= n + 1 /\ n \in 0 .. n
    BY <1>1
  <2>. QED BY <1>1, <1>2, <1>3, <2>1, RunsAgree
<1>5. b[n + 1] = After(b[(n + 1) - 1], t[n + 1], name)
  <2>1. n + 1 \in 1 .. n + 1 /\ n + 1 \in Nat
    BY <1>1
  <2>. QED BY <1>3, <2>1, RunsStep
<1>6. (n + 1) - 1 = n
  BY <1>1
<1>. QED BY <1>1, <1>2, <1>3, <1>4, <1>5, <1>6 DEF t

(* A name that no call gives a value has none. *)
LEMMA ValuedNone ==
  ASSUME NEW calls, IsSequence(calls), NEW name, Naming(calls, name) = {}
  PROVE  Valued(calls, name) = <<>>
<1>. DEFINE n == Len(calls)
<1>1. n \in Nat /\ DOMAIN calls = 1 .. n
  BY SequenceLength
<1>2. PICK g : Runs(g, calls, name, n) /\ Valued(calls, name) = g[n]
  BY ValuedRuns
<1>. HIDE DEF n
<1>0. g[0] = <<>> /\ \A j \in 1 .. n : g[j] = After(g[j - 1], calls[j], name)
  BY <1>1, <1>2, RunsStep
<1>. DEFINE Bad == {k \in 0 .. n : g[k] # <<>>}
<1>3. ASSUME Bad # {} PROVE FALSE
  <2>1. PICK k \in Bad : \A j \in Bad : k <= j
    <3>1. Bad \subseteq Nat
      BY <1>1
    <3>. HIDE DEF Bad
    <3>. QED BY <1>3, <3>1, Least
  <2>2. g[0] = <<>> /\ \A j \in 1 .. n : g[j] = After(g[j - 1], calls[j], name)
    BY <1>0
  <2>3. k \in 1 .. n /\ k - 1 \in 0 .. n /\ k - 1 < k
    BY <1>1, <2>2
  <2>4. k - 1 \notin Bad
    <3>. HIDE DEF Bad
    <3>. QED BY <2>1, <2>3
  <2>5. ~Names(calls[k], name)
    BY <1>1, <2>3 DEF Naming
  <2>6. g[k] = g[k - 1]
    BY <2>2, <2>3, <2>5 DEF After
  <2>. QED BY <2>3, <2>4, <2>6
<1>4. n \notin Bad /\ n \in 0 .. n
  BY <1>1, <1>3
<1>. QED BY <1>2, <1>4

(* What a call makes of a text is one. *)
LEMMA AfterSequence ==
  ASSUME NEW v, IsSequence(v), NEW c, IsNaming(c) => IsSequence(c.key) /\ IsSequence(c.value), NEW name
  PROVE  IsSequence(After(v, c, name))
<1>1. CASE ~Names(c, name)
  BY <1>1 DEF After
<1>2. CASE Names(c, name) /\ c.op = "header"
  BY <1>2 DEF After, Names
<1>3. CASE Names(c, name) /\ c.op # "header"
  <2>. DEFINE semicolon == <<";", " ">>
              equals == <<"=">>
              y == IF v = <<>> THEN <<>> ELSE v \o semicolon
  <2>1. IsSequence(semicolon) /\ IsSequence(equals)
    BY Short, Zenon
  <2>2. After(v, c, name) = ((y \o c.key) \o equals) \o c.value
    BY <1>3, Zenon DEF After
  <2>. HIDE DEF semicolon, equals
  <2>3. IsSequence(y)
    BY <2>1, Concatenated, Short
  <2>4. IsSequence(c.key) /\ IsSequence(c.value)
    BY <1>3 DEF Names
  <2>. HIDE DEF y
  <2>. QED BY <2>1, <2>2, <2>3, <2>4, Concatenated
<1>. QED BY <1>1, <1>2, <1>3

(* The value is a text if those of the calls are. *)
LEMMA ValuedSequence ==
  ASSUME NEW calls, IsSequence(calls),
         \A i \in DOMAIN calls : IsNaming(calls[i]) => IsSequence(calls[i].key) /\ IsSequence(calls[i].value),
         NEW name
  PROVE  IsSequence(Valued(calls, name))
<1>. DEFINE n == Len(calls)
<1>1. n \in Nat /\ DOMAIN calls = 1 .. n
  BY SequenceLength
<1>2. PICK g : Runs(g, calls, name, n) /\ Valued(calls, name) = g[n]
  BY ValuedRuns
<1>. HIDE DEF n
<1>3. g[0] = <<>> /\ \A j \in 1 .. n : g[j] = After(g[j - 1], calls[j], name)
  BY <1>1, <1>2, RunsStep
<1>6. IsSequence(g[0])
  BY <1>3, Short
<1>. DEFINE Bad == {k \in 0 .. n : ~IsSequence(g[k])}
<1>4. ASSUME Bad # {} PROVE FALSE
  <2>1. PICK k \in Bad : \A j \in Bad : k <= j
    <3>1. Bad \subseteq Nat
      BY <1>1
    <3>. HIDE DEF Bad
    <3>. QED BY <1>4, <3>1, Least
  <2>2. k \in 1 .. n /\ k - 1 \in 0 .. n /\ k - 1 < k
    BY <1>1, <1>6
  <2>3. k - 1 \notin Bad
    <3>. HIDE DEF Bad
    <3>. QED BY <2>1, <2>2
  <2>4. IsSequence(g[k - 1]) /\ g[k] = After(g[k - 1], calls[k], name) /\ k \in DOMAIN calls
    BY <1>1, <1>3, <2>2, <2>3
  <2>5. ~IsSequence(g[k])
    OBVIOUS
  <2>. QED BY <2>4, <2>5, AfterSequence
<1>5. n \notin Bad /\ n \in 0 .. n
  BY <1>1, <1>4
<1>. QED BY <1>2, <1>5

(* The value is the same in any case of the letters of the name. *)
LEMMA ValuedOneClass ==
  ASSUME NEW calls, IsSequence(calls), NEW a, NEW b, SameName(a, b)
  PROVE  Valued(calls, a) = Valued(calls, b)
<1>. DEFINE n == Len(calls)
<1>1. n \in Nat
  BY SequenceLength
<1>2. PICK g : Runs(g, calls, a, n) /\ Valued(calls, a) = g[n]
  BY ValuedRuns
<1>3. PICK h : Runs(h, calls, b, n) /\ Valued(calls, b) = h[n]
  BY ValuedRuns
<1>. HIDE DEF n
<1>4. \A v, c : After(v, c, a) = After(v, c, b)
  BY OneClass DEF After
<1>5. Runs(g, calls, b, n)
  BY <1>2, <1>4 DEF Runs
<1>6. n <= n /\ n \in 0 .. n
  BY <1>1
<1>. QED BY <1>1, <1>2, <1>3, <1>5, <1>6, RunsAgree

-----------------------------------------------------------------------------
(* Lists of headers, and the calls that have made them *)

IsLine(h) ==
  h = Header(h.name, h.value) /\ IsSequence(h.name) /\ IsSequence(h.value) /\ Len(h.name) < NameSize

AllFit(calls, name) == \A i \in Naming(calls, name) : Fits(calls[i])

(* Every call has a line, every line a call, and the last line of a name   *)
(* its value.                                                              *)
Kept(list, calls) ==
  /\ IsSequence(list) /\ \A i \in DOMAIN list : IsLine(list[i])
  /\ IsSequence(calls)
  /\ \A i \in DOMAIN calls :
       IsNaming(calls[i]) => /\ IsSequence(calls[i].key) /\ IsSequence(calls[i].value)
                             /\ Lines(list, NameOf(calls[i])) # {}
  /\ \A i \in DOMAIN list : Naming(calls, list[i].name) # {}
  /\ \A i \in DOMAIN list :
       IsLast(i, Lines(list, list[i].name)) /\ Clear(calls, list[i].name)
         => list[i].value = Cut(Valued(calls, list[i].name), ValueSize)

(* No two lines have a name in common that fits in each of its calls.      *)
OneEach(list, calls) ==
  \A i, j \in DOMAIN list :
    SameName(list[i].name, list[j].name) /\ AllFit(calls, list[i].name) => i = j

LEMMA NameOfText ==
  ASSUME NEW c, IsNaming(c), IsSequence(c.key)
  PROVE  /\ IsSequence(NameOf(c)) /\ Len(NameOf(c)) < NameSize
         /\ Fits(c) /\ c.op = "header" => NameOf(c) = c.key
         /\ ~Fits(c) => c.op = "header" /\ Len(c.key) >= NameSize
<1>1. NameSize \in Nat \ {0} /\ 2 < NameSize /\ Len(c.key) \in Nat
  BY SizesAssumption, SequenceLength
<1>2. IsSequence(Cookie) /\ Len(Cookie) = 2
  BY Short DEF Cookie
<1>3. CASE c.op = "cookie"
  <2>1. NameOf(c) = Cookie /\ Fits(c)
    BY <1>3 DEF NameOf, Fits
  <2>. QED BY <1>1, <1>2, <1>3, <2>1
<1>4. CASE c.op = "header"
  <2>1. NameOf(c) = Cut(c.key, NameSize) /\ (Fits(c) <=> Len(c.key) < NameSize)
    BY <1>4 DEF NameOf, Fits
  <2>2. /\ IsSequence(Cut(c.key, NameSize)) /\ Len(Cut(c.key, NameSize)) < NameSize
        /\ Len(c.key) < NameSize => Cut(c.key, NameSize) = c.key
    BY <1>1, CutText
  <2>. QED BY <1>1, <1>4, <2>1, <2>2
<1>. QED BY <1>3, <1>4 DEF IsNaming

LEMMA NewLine ==
  ASSUME NEW name, NEW value, IsSequence(name), IsSequence(value)
  PROVE  IsLine(Header(Cut(name, NameSize), Cut(value, ValueSize)))
<1>1. /\ IsSequence(Cut(name, NameSize)) /\ Len(Cut(name, NameSize)) < NameSize
      /\ IsSequence(Cut(value, ValueSize))
  BY CutText, SizesAssumption
<1>. QED BY <1>1 DEF IsLine, Header

(* Other calls change nothing. *)
LEMMA OtherKept ==
  ASSUME NEW list, NEW calls, Kept(list, calls), NEW c, ~IsNaming(c)
  PROVE  /\ Kept(list, Append(calls, c))
         /\ OneEach(list, calls) => OneEach(list, Append(calls, c))
<1>. DEFINE t == Append(calls, c)
<1>1. IsSequence(calls)
  BY DEF Kept
<1>2. ASSUME NEW name
      PROVE  /\ Naming(t, name) = Naming(calls, name)
             /\ AllFit(t, name) <=> AllFit(calls, name)
             /\ Clear(t, name) <=> Clear(calls, name)
             /\ Valued(t, name) = Valued(calls, name)
  <2>1. ~Names(c, name)
    BY DEF Names
  <2>2. Valued(t, name) = Valued(calls, name)
    BY <1>1, <2>1, ValuedOneMore DEF After
  <2>3. Naming(t, name) = Naming(calls, name)
    BY <1>1, <2>1, NamingOneMore
  <2>5. AllFit(t, name) <=> AllFit(calls, name)
    BY <1>1, <2>1, NamingOneMore DEF AllFit
  <2>4. Clear(t, name) <=> Clear(calls, name)
    BY <1>1, <2>1, NamingOneMore DEF Clear
  <2>. QED BY <2>2, <2>3, <2>4, <2>5
<1>3. /\ IsSequence(t) /\ DOMAIN t = 1 .. Len(calls) + 1 /\ DOMAIN calls = 1 .. Len(calls)
      /\ Len(calls) \in Nat /\ t[Len(calls) + 1] = c
      /\ \A i \in DOMAIN calls : t[i] = calls[i]
  BY <1>1, Extended
<1>. HIDE DEF t
<1>4. ASSUME NEW i \in DOMAIN t, IsNaming(t[i])
      PROVE  IsSequence(t[i].key) /\ IsSequence(t[i].value) /\ Lines(list, NameOf(t[i])) # {}
  <2>1. i \in DOMAIN calls /\ t[i] = calls[i]
    BY <1>3, <1>4
  <2>. QED BY <1>4, <2>1 DEF Kept
<1>5. Kept(list, t)
  BY <1>2, <1>3, <1>4 DEF Kept
<1>6. OneEach(list, calls) => OneEach(list, t)
  BY <1>2 DEF OneEach
<1>. QED BY <1>5, <1>6 DEF t

(* A line more, which is the last one of its name. *)
LEMMA LineKept ==
  ASSUME NEW list, NEW calls, Kept(list, calls), NEW c, IsNaming(c),
         IsSequence(c.key), IsSequence(c.value),
         NEW h, IsLine(h), h.name = NameOf(c),
         Clear(Append(calls, c), h.name)
           => h.value = Cut(Valued(Append(calls, c), h.name), ValueSize)
  PROVE  /\ Kept(Append(list, h), Append(calls, c))
         /\ OneEach(list, calls) /\ (Fits(c) => Lines(list, h.name) = {})
              => OneEach(Append(list, h), Append(calls, c))
<1>. DEFINE t == Append(calls, c)
            l == Append(list, h)
            m == Len(calls)
            n == Len(list)
<1>1. IsSequence(calls) /\ IsSequence(list)
  BY DEF Kept
<1>2. /\ IsSequence(t) /\ DOMAIN t = 1 .. m + 1 /\ DOMAIN calls = 1 .. m
      /\ m \in Nat /\ t[m + 1] = c /\ \A i \in DOMAIN calls : t[i] = calls[i]
      /\ IsSequence(l) /\ DOMAIN l = 1 .. n + 1 /\ DOMAIN list = 1 .. n
      /\ n \in Nat /\ l[n + 1] = h /\ \A i \in DOMAIN list : l[i] = list[i]
  BY <1>1, Extended
<1>3. ASSUME NEW name
      PROVE  /\ Naming(t, name) = Naming(calls, name) \cup {i \in {m + 1} : Names(c, name)}
             /\ AllFit(t, name) <=> AllFit(calls, name) /\ (Names(c, name) => Fits(c))
             /\ Lines(l, name) = Lines(list, name) \cup {i \in {n + 1} : SameName(h.name, name)}
             /\ Lines(list, name) \subseteq 1 .. n
             /\ SameName(h.name, name) <=> Names(c, name)
  <2>1. /\ Naming(t, name) = Naming(calls, name) \cup {i \in {m + 1} : Names(c, name)}
        /\ AllFit(t, name) <=> AllFit(calls, name) /\ (Names(c, name) => Fits(c))
    BY <1>1, NamingOneMore DEF AllFit
  <2>2. /\ Lines(l, name) = Lines(list, name) \cup {i \in {n + 1} : SameName(h.name, name)}
        /\ Lines(list, name) \subseteq 1 .. n
    BY <1>1, LinesOneMore
  <2>3. SameName(h.name, name) <=> Names(c, name)
    BY DEF Names
  <2>. QED BY <2>1, <2>2, <2>3
<1>4. ASSUME NEW name, ~Names(c, name)
      PROVE  /\ Clear(t, name) <=> Clear(calls, name)
             /\ Valued(t, name) = Valued(calls, name)
  <2>1. Valued(t, name) = Valued(calls, name)
    BY <1>1, <1>4, ValuedOneMore DEF After
  <2>. QED BY <1>1, <1>4, <2>1, NamingOneMore DEF Clear
<1>. HIDE DEF t, l, m, n
<1>5. \A i \in DOMAIN l : IsLine(l[i])
  BY <1>2 DEF Kept
<1>6. ASSUME NEW i \in DOMAIN t, IsNaming(t[i])
      PROVE  IsSequence(t[i].key) /\ IsSequence(t[i].value) /\ Lines(l, NameOf(t[i])) # {}
  <2>1. CASE i \in DOMAIN calls
    <3>1. t[i] = calls[i]
      BY <1>2, <2>1
    <3>2. Lines(list, NameOf(t[i])) # {} /\ IsSequence(t[i].key) /\ IsSequence(t[i].value)
      BY <1>6, <2>1, <3>1 DEF Kept
    <3>. QED BY <1>3, <3>2
  <2>2. CASE i = m + 1
    <3>1. Names(c, NameOf(c))
      BY SameNames DEF Names
    <3>. QED BY <1>2, <1>3, <2>2, <3>1
  <2>. QED BY <1>2, <2>1, <2>2
<1>7. ASSUME NEW i \in DOMAIN l PROVE Naming(t, l[i].name) # {}
  <2>1. CASE i \in DOMAIN list
    <3>1. l[i] = list[i] /\ Naming(calls, list[i].name) # {}
      BY <1>2, <2>1 DEF Kept
    <3>. QED BY <1>3, <3>1
  <2>2. CASE i = n + 1
    <3>1. Names(c, h.name)
      BY SameNames DEF Names
    <3>. QED BY <1>2, <1>3, <2>2, <3>1
  <2>. QED BY <1>2, <2>1, <2>2
<1>8. ASSUME NEW i \in DOMAIN l, IsLast(i, Lines(l, l[i].name)), Clear(t, l[i].name)
      PROVE  l[i].value = Cut(Valued(t, l[i].name), ValueSize)
  <2>1. CASE i = n + 1
    <3>1. l[i] = h
      BY <1>2, <2>1
    <3>. QED BY <1>8, <3>1 DEF t
  <2>2. CASE i \in DOMAIN list
    <3>1. l[i] = list[i] /\ i < n + 1
      BY <1>2, <2>2
    <3>2. ~SameName(h.name, list[i].name)
      <4>1. ASSUME SameName(h.name, list[i].name) PROVE FALSE
        <5>1. n + 1 \in Lines(l, l[i].name)
          BY <1>3, <3>1, <4>1
        <5>2. n + 1 <= i
          BY <1>8, <5>1 DEF IsLast
        <5>. QED BY <1>2, <2>2, <3>1, <5>2
      <4>. QED BY <4>1
    <3>3. ~Names(c, list[i].name)
      BY <1>3, <3>2
    <3>4. Lines(l, l[i].name) = Lines(list, list[i].name)
      BY <1>3, <3>1, <3>2
    <3>5. IsLast(i, Lines(list, list[i].name)) /\ Clear(calls, list[i].name)
      BY <1>4, <1>8, <3>1, <3>3, <3>4
    <3>6. list[i].value = Cut(Valued(calls, list[i].name), ValueSize)
      BY <2>2, <3>5 DEF Kept
    <3>. QED BY <1>4, <3>1, <3>3, <3>6
  <2>. QED BY <1>2, <2>1, <2>2
<1>9. Kept(l, t)
  BY <1>2, <1>5, <1>6, <1>7, <1>8 DEF Kept
<1>10. ASSUME OneEach(list, calls), Fits(c) => Lines(list, h.name) = {},
              NEW i \in DOMAIN l, NEW j \in DOMAIN l,
              SameName(l[i].name, l[j].name), AllFit(t, l[i].name)
       PROVE  i = j
  <2>1. CASE i \in DOMAIN list /\ j \in DOMAIN list
    <3>1. l[i] = list[i] /\ l[j] = list[j] /\ AllFit(calls, list[i].name)
      BY <1>2, <1>3, <1>10, <2>1
    <3>. QED BY <1>10, <2>1, <3>1 DEF OneEach
  <2>2. ASSUME NEW k \in DOMAIN list, SameName(h.name, list[k].name) \/ SameName(list[k].name, h.name),
               AllFit(t, list[k].name) \/ AllFit(t, h.name)
        PROVE  FALSE
    <3>1. SameName(list[k].name, h.name) /\ SameName(h.name, list[k].name)
      BY <2>2, SameNames
    <3>2. Names(c, list[k].name) /\ Names(c, h.name)
      BY <1>3, <3>1, SameNames
    <3>3. Fits(c)
      BY <1>3, <2>2, <3>2
    <3>4. k \in Lines(list, h.name)
      BY <3>1 DEF Lines
    <3>. QED BY <1>10, <3>3, <3>4
  <2>3. CASE i = n + 1 /\ j \in DOMAIN list
    BY <1>2, <1>10, <2>2, <2>3
  <2>4. CASE i \in DOMAIN list /\ j = n + 1
    BY <1>2, <1>10, <2>2, <2>4
  <2>. QED BY <1>2, <2>1, <2>3, <2>4
<1>11. OneEach(list, calls) /\ (Fits(c) => Lines(list, h.name) = {}) => OneEach(l, t)
  BY <1>10 DEF OneEach
<1>. QED BY <1>9, <1>11 DEF t, l

(* The line of a name that fits gets a new value.                          *)
LEMMA ExchangeKept ==
  ASSUME NEW list, NEW calls, Kept(list, calls), OneEach(list, calls),
         NEW c, IsNaming(c), IsSequence(c.key), IsSequence(c.value), Fits(c),
         NEW j \in DOMAIN list, SameName(list[j].name, NameOf(c)),
         NEW h, IsLine(h), h.name = list[j].name,
         Clear(Append(calls, c), h.name)
           => h.value = Cut(Valued(Append(calls, c), h.name), ValueSize)
  PROVE  /\ Kept([list EXCEPT ![j] = h], Append(calls, c))
         /\ OneEach([list EXCEPT ![j] = h], Append(calls, c))
<1>. DEFINE t == Append(calls, c)
            l == [list EXCEPT ![j] = h]
            m == Len(calls)
<1>1. IsSequence(calls) /\ IsSequence(list)
  BY DEF Kept
<1>2. /\ IsSequence(t) /\ DOMAIN t = 1 .. m + 1 /\ DOMAIN calls = 1 .. m
      /\ m \in Nat /\ t[m + 1] = c /\ \A i \in DOMAIN calls : t[i] = calls[i]
  BY <1>1, Extended
<1>3. /\ IsSequence(l) /\ DOMAIN l = DOMAIN list
      /\ l[j] = h /\ \A i \in DOMAIN list : i # j => l[i] = list[i]
  BY <1>1, Exchanged
<1>4. \A i \in DOMAIN list : l[i].name = list[i].name
  BY <1>3
<1>5. ASSUME NEW name
      PROVE  /\ Naming(t, name) = Naming(calls, name) \cup {i \in {m + 1} : Names(c, name)}
             /\ AllFit(t, name) => AllFit(calls, name)
             /\ Lines(l, name) = Lines(list, name)
  <2>1. Naming(t, name) = Naming(calls, name) \cup {i \in {m + 1} : Names(c, name)}
    BY <1>1, NamingOneMore
  <2>2. AllFit(t, name) => AllFit(calls, name)
    BY <1>1, NamingOneMore DEF AllFit
  <2>3. Lines(l, name) = Lines(list, name)
    BY <1>1, LinesExchanged
  <2>. QED BY <2>1, <2>2, <2>3
<1>6. ASSUME NEW name, ~Names(c, name)
      PROVE  /\ Clear(t, name) <=> Clear(calls, name)
             /\ Valued(t, name) = Valued(calls, name)
  <2>1. Valued(t, name) = Valued(calls, name)
    BY <1>1, <1>6, ValuedOneMore DEF After
  <2>. QED BY <1>1, <1>6, <2>1, NamingOneMore DEF Clear
<1>7. ASSUME NEW name, Names(c, name), Clear(t, name) PROVE AllFit(calls, name)
  <2>1. Naming(t, name) # {} /\ m + 1 \in Naming(t, name)
    BY <1>5, <1>7
  <2>2. AllFit(t, name)
    BY <1>2, <1>7, <2>1 DEF Clear, AllFit
  <2>. QED BY <1>5, <2>2
<1>. HIDE DEF t, l, m
<1>8. \A i \in DOMAIN l : IsLine(l[i])
  BY <1>3 DEF Kept
<1>9. ASSUME NEW i \in DOMAIN t, IsNaming(t[i])
      PROVE  IsSequence(t[i].key) /\ IsSequence(t[i].value) /\ Lines(l, NameOf(t[i])) # {}
  <2>1. CASE i \in DOMAIN calls
    <3>1. t[i] = calls[i]
      BY <1>2, <2>1
    <3>. QED BY <1>5, <1>9, <2>1, <3>1 DEF Kept
  <2>2. CASE i = m + 1
    <3>1. j \in Lines(list, NameOf(c))
      BY DEF Lines
    <3>. QED BY <1>2, <1>5, <2>2, <3>1
  <2>. QED BY <1>2, <2>1, <2>2
<1>10. ASSUME NEW i \in DOMAIN l PROVE Naming(t, l[i].name) # {}
  <2>1. Naming(calls, list[i].name) # {} /\ l[i].name = list[i].name
    BY <1>3, <1>4 DEF Kept
  <2>. QED BY <1>5, <2>1
<1>11. ASSUME NEW i \in DOMAIN l, IsLast(i, Lines(l, l[i].name)), Clear(t, l[i].name)
       PROVE  l[i].value = Cut(Valued(t, l[i].name), ValueSize)
  <2>1. CASE i = j
    BY <1>3, <1>11, <2>1 DEF t
  <2>2. CASE i # j
    <3>1. l[i] = list[i] /\ i \in DOMAIN list
      BY <1>3, <2>2
    <3>2. ~Names(c, list[i].name)
      <4>1. ASSUME Names(c, list[i].name) PROVE FALSE
        <5>1. SameName(list[i].name, list[j].name)
          BY <4>1, SameNames DEF Names
        <5>2. AllFit(calls, list[i].name)
          BY <1>7, <1>11, <3>1, <4>1
        <5>. QED BY <2>2, <3>1, <5>1, <5>2 DEF OneEach
      <4>. QED BY <4>1
    <3>3. IsLast(i, Lines(list, list[i].name)) /\ Clear(calls, list[i].name)
      BY <1>5, <1>6, <1>11, <3>1, <3>2
    <3>4. list[i].value = Cut(Valued(calls, list[i].name), ValueSize)
      BY <3>1, <3>3 DEF Kept
    <3>. QED BY <1>6, <3>1, <3>2, <3>4
  <2>. QED BY <2>1, <2>2
<1>12. Kept(l, t)
  BY <1>2, <1>3, <1>8, <1>9, <1>10, <1>11 DEF Kept
<1>13. OneEach(l, t)
  BY <1>3, <1>4, <1>5 DEF OneEach
<1>. QED BY <1>12, <1>13 DEF t, l

(* setHeader() and cookie() give the first line of the name the value, or  *)
(* add a line.                                                             *)
FirstLine(list, name) == CHOOSE i \in Lines(list, name) : \A k \in Lines(list, name) : i <= k

Placed(l, list, name, value) ==
  \/ /\ Lines(list, name) = {}
     /\ l = Append(list, Header(Cut(name, NameSize), Cut(value, ValueSize)))
  \/ LET j == FirstLine(list, name)
     IN  /\ j \in Lines(list, name)
         /\ l = [list EXCEPT ![j] = Header(list[j].name, Cut(value, ValueSize))]

LEMMA WithHeaderIs ==
  ASSUME NEW list, IsSequence(list), \A i \in DOMAIN list : IsLine(list[i]),
         NEW name, NEW value
  PROVE  Placed(WithHeader(list, name, value), list, name, value)
<1>1. CASE Lines(list, name) = {}
  BY <1>1 DEF WithHeader, Lines, Placed
<1>2. CASE Lines(list, name) # {}
  <2>. DEFINE j == FirstLine(list, name)
  <2>1. j \in Lines(list, name)
    <3>1. Lines(list, name) \subseteq Nat
      BY SequenceLength DEF Lines
    <3>. QED BY <1>2, <3>1, Least DEF FirstLine
  <2>2. WithHeader(list, name, value) = [list EXCEPT ![j].value = Cut(value, ValueSize)]
    BY <1>2 DEF WithHeader, Lines, FirstLine
  <2>. HIDE DEF j
  <2>3. j \in DOMAIN list /\ list[j] = Header(list[j].name, list[j].value)
    BY <2>1 DEF Lines, IsLine
  <2>4. [list[j] EXCEPT !.value = Cut(value, ValueSize)] = Header(list[j].name, Cut(value, ValueSize))
    BY <2>3 DEF Header
  <2>5. WithHeader(list, name, value) = [list EXCEPT ![j] = Header(list[j].name, Cut(value, ValueSize))]
    BY <2>2, <2>4
  <2>. QED BY <2>1, <2>5 DEF j, Placed
<1>. QED BY <1>1, <1>2

(* A line that is looked for by a name that fits has that name, and by one *)
(* that does not fit no line is found.                                     *)
LEMMA LinesOf ==
  ASSUME NEW list, \A i \in DOMAIN list : IsLine(list[i]), NEW name, IsSequence(name),
         Lines(list, name) # {}
  PROVE  Len(name) < NameSize
<1>1. PICK i \in DOMAIN list : SameName(list[i].name, name)
  BY DEF Lines
<1>2. IsSequence(list[i].name) /\ Len(list[i].name) < NameSize
  BY DEF IsLine
<1>. QED BY <1>1, <1>2, SameNameLength

LEMMA SetHeaderKept ==
  ASSUME NEW list, NEW calls, Kept(list, calls), OneEach(list, calls),
         NEW c, c.op = "header", IsSequence(c.key), IsSequence(c.value)
  PROVE  /\ Kept(WithHeader(list, c.key, c.value), Append(calls, c))
         /\ OneEach(WithHeader(list, c.key, c.value), Append(calls, c))
<1>. DEFINE t == Append(calls, c)
            l == WithHeader(list, c.key, c.value)
            new == Header(Cut(c.key, NameSize), Cut(c.value, ValueSize))
<1>. SUFFICES Kept(l, t) /\ OneEach(l, t)
  OBVIOUS
<1>1. IsSequence(calls) /\ IsSequence(list) /\ \A i \in DOMAIN list : IsLine(list[i])
  BY DEF Kept
<1>2. /\ IsNaming(c) /\ NameOf(c) = Cut(c.key, NameSize) /\ (Fits(c) <=> Len(c.key) < NameSize)
      /\ Fits(c) => NameOf(c) = c.key
  BY NameOfText DEF IsNaming, NameOf, Fits
<1>3. ASSUME NEW name, SameName(NameOf(c), name)
      PROVE  Valued(t, name) = c.value
  BY <1>1, <1>2, <1>3, ValuedOneMore DEF After, Names
<1>4. CASE Lines(list, c.key) = {} /\ l = Append(list, new)
  <2>1. IsLine(new) /\ new.name = NameOf(c) /\ new.value = Cut(c.value, ValueSize)
    BY <1>2, NewLine DEF Header
  <2>2. new.value = Cut(Valued(t, new.name), ValueSize)
    BY <1>3, <2>1, SameNames
  <2>3. Fits(c) => Lines(list, new.name) = {}
    BY <1>2, <1>4, <2>1
  <2>. HIDE DEF new
  <2>. QED BY <1>2, <1>4, <2>1, <2>2, <2>3, LineKept
<1>5. ASSUME NEW j \in Lines(list, c.key), l = [list EXCEPT ![j] = Header(list[j].name, Cut(c.value, ValueSize))]
      PROVE  Kept(l, t) /\ OneEach(l, t)
  <2>. DEFINE h == Header(list[j].name, Cut(c.value, ValueSize))
  <2>1. Fits(c) /\ j \in DOMAIN list /\ SameName(list[j].name, NameOf(c))
    BY <1>1, <1>2, <1>5, LinesOf DEF Lines
  <2>2. h.name = list[j].name /\ h.value = Cut(c.value, ValueSize) /\ IsLine(h)
    <3>1. IsSequence(Cut(c.value, ValueSize))
      BY CutText, SizesAssumption
    <3>. QED BY <1>1, <2>1, <3>1 DEF IsLine, Header
  <2>3. h.value = Cut(Valued(t, h.name), ValueSize)
    BY <1>3, <2>1, <2>2, SameNames
  <2>. HIDE DEF h
  <2>4. l = [list EXCEPT ![j] = h]
    BY <1>5 DEF h
  <2>. QED BY <1>2, <2>1, <2>2, <2>3, <2>4, ExchangeKept
<1>6. Placed(l, list, c.key, c.value)
  BY <1>1, WithHeaderIs
<1>. HIDE DEF l, t
<1>. QED BY <1>4, <1>5, <1>6 DEF Placed

(* The value that a cookie more makes is what the call makes of the value  *)
(* of the header, as far as both are kept.                                 *)
LEMMA AddCookieKept ==
  ASSUME NEW list, NEW calls, Kept(list, calls), OneEach(list, calls),
         NEW c, c.op = "cookie", IsSequence(c.key), IsSequence(c.value)
  PROVE  LET l == WithHeader(list, Cookie, WithCookie(list, c.key, c.value))
         IN  Kept(l, Append(calls, c)) /\ OneEach(l, Append(calls, c))
<1>. DEFINE t == Append(calls, c)
            v == WithCookie(list, c.key, c.value)
            l == WithHeader(list, Cookie, v)
            first == FirstLine(list, Cookie)
            new == Header(Cut(Cookie, NameSize), Cut(v, ValueSize))
            old == IF Lines(list, Cookie) = {} THEN <<>> ELSE list[first].value
            More(x) == (IF x = <<>> THEN <<>> ELSE x \o <<";", " ">>) \o c.key \o <<"=">> \o c.value
<1>. SUFFICES Kept(l, t) /\ OneEach(l, t)
  OBVIOUS
<1>1. IsSequence(calls) /\ IsSequence(list) /\ \A i \in DOMAIN list : IsLine(list[i])
  BY DEF Kept
<1>2. IsNaming(c) /\ NameOf(c) = Cookie /\ Fits(c)
  BY DEF IsNaming, NameOf, Fits
<1>3. IsSequence(Cookie) /\ Len(Cookie) < NameSize /\ Cut(Cookie, NameSize) = Cookie
  <2>1. IsSequence(Cookie) /\ Len(Cookie) = 2
    BY Short DEF Cookie
  <2>2. NameSize \in Nat \ {0} /\ 2 < NameSize
    BY SizesAssumption
  <2>. HIDE DEF Cookie
  <2>. QED BY <2>1, <2>2, CutText
<1>4. v = More(old)
  BY Zenon DEF WithCookie, Lines, FirstLine
<1>5. ASSUME NEW x, IsSequence(x) PROVE IsSequence(More(x))
  <2>1. IsSequence(<<";", " ">>) /\ IsSequence(<<"=">>)
    BY Short, Zenon
  <2>. DEFINE semicolon == <<";", " ">>
              equals == <<"=">>
              y == IF x = <<>> THEN <<>> ELSE x \o semicolon
  <2>2. IsSequence(semicolon) /\ IsSequence(equals)
    BY <2>1
  <2>. HIDE DEF semicolon, equals
  <2>3. IsSequence(y)
    BY <1>5, <2>2, Concatenated, Short
  <2>. HIDE DEF y
  <2>4. IsSequence(((y \o c.key) \o equals) \o c.value)
    BY <2>2, <2>3, Concatenated
  <2>. QED BY <2>4, Zenon DEF y, semicolon, equals
<1>6. ASSUME NEW name, SameName(Cookie, name)
      PROVE  Valued(t, name) = More(Valued(calls, name))
  <2>1. Valued(t, name) = After(Valued(calls, name), c, name) /\ Names(c, name) /\ c.op # "header"
    BY <1>1, <1>2, <1>6, ValuedOneMore DEF Names
  <2>. QED BY <2>1, Zenon DEF After
<1>7. ASSUME NEW x, IsSequence(x), NEW w, IsSequence(w), w = Cut(x, ValueSize)
      PROVE  Cut(More(w), ValueSize) = Cut(More(x), ValueSize)
  <2>. DEFINE semicolon == <<";", " ">>
              equals == <<"=">>
  <2>1. IsSequence(semicolon) /\ IsSequence(equals)
    BY Short, Zenon
  <2>. HIDE DEF semicolon, equals
  <2>2. ValueSize \in Nat \ {0}
    BY SizesAssumption
  <2>3. Cut((IF w = <<>> THEN <<>> ELSE w \o semicolon) \o c.key \o equals \o c.value, ValueSize)
          = Cut((IF x = <<>> THEN <<>> ELSE x \o semicolon) \o c.key \o equals \o c.value, ValueSize)
    BY <1>7, <2>1, <2>2, CutCookie
  <2>. QED BY <2>3, Zenon DEF semicolon, equals
<1>. HIDE DEF v, More, l
<1>8. CASE Lines(list, Cookie) = {} /\ l = Append(list, new)
  <2>1. IsSequence(old) /\ old = <<>>
    BY <1>8, Short
  <2>2. Valued(calls, Cookie) = <<>>
    <3>1. ASSUME NEW i \in Naming(calls, Cookie) PROVE FALSE
      <4>1. i \in DOMAIN calls /\ IsNaming(calls[i]) /\ SameName(NameOf(calls[i]), Cookie)
        BY DEF Naming, Names
      <4>2. Lines(list, NameOf(calls[i])) # {}
        BY <4>1 DEF Kept
      <4>. QED BY <1>8, <4>1, <4>2, OneClass
    <3>2. Naming(calls, Cookie) = {}
      BY <3>1
    <3>. QED BY <1>1, <3>2, ValuedNone
  <2>3. Valued(t, Cookie) = v
    BY <1>4, <1>6, <2>1, <2>2, SameNames
  <2>4. IsSequence(v)
    BY <1>4, <1>5, <2>1
  <2>5. IsLine(new) /\ new.name = Cookie /\ new.value = Cut(v, ValueSize)
    BY <1>3, <2>4, NewLine DEF Header
  <2>. HIDE DEF new
  <2>6. Clear(t, new.name) => new.value = Cut(Valued(t, new.name), ValueSize)
    BY <2>3, <2>5
  <2>7. Lines(list, new.name) = {}
    BY <1>8, <2>5
  <2>. QED BY <1>2, <1>8, <2>5, <2>6, <2>7, LineKept
<1>9. \A name : AllFit(t, name) => AllFit(calls, name)
  BY <1>1, NamingOneMore DEF AllFit
<1>10. ASSUME Lines(list, Cookie) # {}, first \in Lines(list, Cookie),
             l = [list EXCEPT ![first] = Header(list[first].name, Cut(v, ValueSize))]
      PROVE  Kept(l, t) /\ OneEach(l, t)
  <2>. DEFINE name == list[first].name
              h == Header(name, Cut(v, ValueSize))
  <2>1. first \in DOMAIN list /\ SameName(name, Cookie) /\ SameName(Cookie, name)
    BY <1>10, SameNames DEF Lines
  <2>2. IsLine(list[first]) /\ old = list[first].value /\ IsSequence(old)
    BY <1>1, <1>10, <2>1 DEF IsLine
  <2>3. IsSequence(v)
    BY <1>4, <1>5, <2>2
  <2>4. h.name = name /\ h.value = Cut(v, ValueSize) /\ IsLine(h)
    <3>1. IsSequence(Cut(v, ValueSize))
      BY <2>3, CutText, SizesAssumption
    <3>. QED BY <2>2, <3>1 DEF IsLine, Header
  <2>5. ASSUME Clear(t, name) PROVE Cut(v, ValueSize) = Cut(Valued(t, name), ValueSize)
    <3>1. AllFit(calls, name)
      <4>1. Names(c, name)
        BY <1>2, <2>1 DEF Names
      <4>2. AllFit(t, name)
        <5>1. Len(calls) + 1 \in Naming(t, name) /\ t[Len(calls) + 1] = c
          BY <1>1, <4>1, NamingOneMore, Extended
        <5>. QED BY <1>2, <2>5, <5>1 DEF Clear, AllFit
      <4>3. AllFit(t, name) => AllFit(calls, name)
        BY <1>9
      <4>. QED BY <4>2, <4>3
    <3>2. IsLast(first, Lines(list, name))
      <4>1. ASSUME NEW k \in Lines(list, name) PROVE k = first
        <5>1. k \in DOMAIN list /\ SameName(name, list[k].name)
          BY SameNames DEF Lines
        <5>. QED BY <2>1, <3>1, <5>1 DEF OneEach
      <4>2. first \in Lines(list, name) /\ first \in Nat
        BY <1>1, <2>1, SameNames, SequenceLength DEF Lines
      <4>. HIDE DEF first, name
      <4>. QED BY <4>1, <4>2 DEF IsLast
    <3>3. Clear(calls, name)
      BY <3>1 DEF Clear, AllFit
    <3>4. old = Cut(Valued(calls, name), ValueSize)
      BY <2>1, <2>2, <3>2, <3>3 DEF Kept
    <3>5. IsSequence(Valued(calls, name))
      BY <1>1, ValuedSequence DEF Kept
    <3>6. Cut(More(old), ValueSize) = Cut(More(Valued(calls, name)), ValueSize)
      BY <1>7, <2>2, <3>4, <3>5
    <3>. QED BY <1>4, <1>6, <2>1, <3>6
  <2>. HIDE DEF h, first
  <2>6. l = [list EXCEPT ![first] = h]
    BY <1>10 DEF h
  <2>7. Clear(t, h.name) => h.value = Cut(Valued(t, h.name), ValueSize)
    BY <2>4, <2>5
  <2>8. Fits(c) /\ IsNaming(c) /\ SameName(list[first].name, NameOf(c)) /\ h.name = list[first].name
    BY <1>2, <2>1, <2>4
  <2>. HIDE DEF name
  <2>9. Kept([list EXCEPT ![first] = h], t) /\ OneEach([list EXCEPT ![first] = h], t)
    BY <2>1, <2>4, <2>7, <2>8, ExchangeKept
  <2>. QED BY <2>6, <2>9
<1>11. Placed(l, list, Cookie, v)
  BY <1>1, WithHeaderIs DEF l
<1>. HIDE DEF t
<1>. QED BY <1>8, <1>10, <1>11 DEF Placed

(* A call names a line, and a line has a call that names it. *)
LEMMA NamedLines ==
  ASSUME NEW list, NEW calls, Kept(list, calls), NEW name
  PROVE  Naming(calls, name) # {} <=> Lines(list, name) # {}
<1>1. ASSUME NEW i \in Naming(calls, name) PROVE Lines(list, name) # {}
  <2>1. i \in DOMAIN calls /\ IsNaming(calls[i]) /\ SameName(NameOf(calls[i]), name)
    BY DEF Naming, Names
  <2>2. Lines(list, NameOf(calls[i])) # {}
    BY <2>1 DEF Kept
  <2>. QED BY <2>1, <2>2, OneClass
<1>2. ASSUME NEW i \in Lines(list, name) PROVE Naming(calls, name) # {}
  <2>1. i \in DOMAIN list /\ SameName(list[i].name, name)
    BY DEF Lines
  <2>2. Naming(calls, list[i].name) # {}
    BY <2>1 DEF Kept
  <2>. QED BY <2>1, <2>2, OneClass
<1>. QED BY <1>1, <1>2

LEMMA LastValue ==
  ASSUME NEW list, NEW calls, Kept(list, calls), NEW name, Clear(calls, name),
         NEW i, IsLast(i, Lines(list, name))
  PROVE  list[i].value = Cut(Valued(calls, name), ValueSize)
<1>1. i \in DOMAIN list /\ SameName(list[i].name, name) /\ IsSequence(calls)
  BY DEF IsLast, Lines, Kept
<1>2. /\ Clear(calls, list[i].name) /\ IsLast(i, Lines(list, list[i].name))
      /\ Valued(calls, list[i].name) = Valued(calls, name)
  BY <1>1, OneClass, ValuedOneClass
<1>. QED BY <1>1, <1>2 DEF Kept

(* Without calls that set headers there are none. *)
LEMMA KeptNothing ==
  ASSUME NEW calls, IsSequence(calls), \A i \in DOMAIN calls : ~IsNaming(calls[i])
  PROVE  Kept(<<>>, calls) /\ OneEach(<<>>, calls)
<1>1. IsSequence(<<>>) /\ DOMAIN <<>> = 1 .. 0
  BY Short
<1>2. Kept(<<>>, calls)
  BY <1>1 DEF Kept
<1>. QED BY <1>1, <1>2 DEF OneEach

-----------------------------------------------------------------------------
(* Messages *)

Library(lib) == IsSequence(lib) /\ \A i \in DOMAIN lib : lib[i].name \in LibraryNames

(* Lines that begin with those of custom; the others are the library's.    *)
Behind(own, custom) ==
  /\ IsSequence(own) /\ IsSequence(custom) /\ Len(custom) <= Len(own)
  /\ \A i \in 1 .. Len(custom) : own[i] = custom[i]
  /\ \A i \in Len(custom) + 1 .. Len(own) : own[i].name \in LibraryNames

LEMMA LibraryBehind ==
  /\ \A custom : IsSequence(custom) => Behind(custom, custom)
  /\ \A lib : Library(lib) => Behind(lib, <<>>)
  /\ \A own, custom, lib : Behind(own, custom) /\ Library(lib) => Behind(own \o lib, custom)
<1>1. ASSUME NEW custom, IsSequence(custom) PROVE Behind(custom, custom)
  BY <1>1, SequenceLength DEF Behind
<1>2. ASSUME NEW lib, Library(lib) PROVE Behind(lib, <<>>)
  <2>1. IsSequence(<<>>) /\ Len(<<>>) = 0
    BY Short
  <2>2. IsSequence(lib) /\ Len(lib) \in Nat /\ DOMAIN lib = 1 .. Len(lib)
    BY <1>2, SequenceLength DEF Library
  <2>. QED BY <1>2, <2>1, <2>2 DEF Behind, Library
<1>3. ASSUME NEW own, NEW custom, NEW lib, Behind(own, custom), Library(lib)
      PROVE  Behind(own \o lib, custom)
  <2>. DEFINE u == own \o lib
  <2>1. /\ IsSequence(u) /\ Len(own) \in Nat /\ Len(lib) \in Nat /\ Len(custom) \in Nat
        /\ Len(u) = Len(own) + Len(lib) /\ DOMAIN lib = 1 .. Len(lib)
        /\ \A i \in 1 .. Len(own) : u[i] = own[i]
        /\ \A i \in 1 .. Len(lib) : u[Len(own) + i] = lib[i]
    BY <1>3, Concatenated, SequenceLength DEF Behind, Library
  <2>. HIDE DEF u
  <2>2. ASSUME NEW i \in Len(custom) + 1 .. Len(u) PROVE u[i].name \in LibraryNames
    <3>1. CASE i <= Len(own)
      BY <1>3, <2>1, <3>1 DEF Behind
    <3>2. CASE i > Len(own)
      <4>1. i - Len(own) \in 1 .. Len(lib) /\ Len(own) + (i - Len(own)) = i
        BY <2>1, <3>2
      <4>2. u[i] = lib[i - Len(own)]
        BY <2>1, <4>1
      <4>. QED BY <1>3, <2>1, <4>1, <4>2 DEF Library
    <3>. QED BY <2>1, <3>1, <3>2
  <2>3. Behind(u, custom)
    BY <1>3, <2>1, <2>2 DEF Behind
  <2>. QED BY <2>3 DEF u
<1>. QED BY <1>1, <1>2, <1>3

LEMMA LibraryLines ==
  /\ Library(<<>>)
  /\ \A a : a.name \in LibraryNames => Library(<<a>>)
  /\ \A a, b : a.name \in LibraryNames /\ b.name \in LibraryNames => Library(<<a, b>>)
<1>1. Library(<<>>)
  <2>1. IsSequence(<<>>) /\ DOMAIN <<>> = 1 .. 0
    BY Short
  <2>. QED BY <2>1 DEF Library
<1>2. ASSUME NEW a, a.name \in LibraryNames PROVE Library(<<a>>)
  <2>1. IsSequence(<<a>>) /\ DOMAIN <<a>> = 1 .. 1 /\ <<a>>[1] = a
    BY Short
  <2>. QED BY <1>2, <2>1 DEF Library
<1>3. ASSUME NEW a, NEW b, a.name \in LibraryNames, b.name \in LibraryNames PROVE Library(<<a, b>>)
  <2>1. IsSequence(<<a, b>>) /\ DOMAIN <<a, b>> = 1 .. 2 /\ <<a, b>>[1] = a /\ <<a, b>>[2] = b
    BY Short
  <2>. QED BY <1>3, <2>1 DEF Library
<1>. QED BY <1>1, <1>2, <1>3

Kinds     == {"rest", "rpc", "graphql", "soap"}
Custom(o) == IF o.kind \in {"rpc", "graphql"} THEN o.customHeaders ELSE <<>>

LEMMA OwnHeadersIs ==
  ASSUME NEW o, o.kind \in Kinds, IsSequence(Custom(o))
  PROVE  Behind(OwnHeaders(o), Custom(o))
<1>. DEFINE type   == Header(<<"Content-Type">>, <<"json">>)
            accept == Header(<<"Accept">>, <<"json">>)
<1>1. type.name \in LibraryNames /\ accept.name \in LibraryNames
  BY Zenon DEF Header, LibraryNames
<1>2. ContentType = <<type>>
  BY DEF ContentType
<1>. HIDE DEF type
<1>3. Library(ContentType)
  BY <1>1, <1>2, LibraryLines
<1>4. CASE o.kind = "rest"
  <2>1. Library(OwnHeaders(o)) /\ Custom(o) = <<>>
    BY <1>3, <1>4, LibraryLines DEF OwnHeaders, Custom
  <2>. QED BY <2>1, LibraryBehind
<1>5. CASE o.kind = "rpc"
  <2>1. Custom(o) = o.customHeaders /\ OwnHeaders(o) = o.customHeaders \o ContentType
    BY <1>5 DEF OwnHeaders, Custom
  <2>. QED BY <1>3, <2>1, LibraryBehind
<1>6. CASE o.kind = "graphql"
  <2>. DEFINE x == IF o.get THEN <<>> ELSE ContentType
  <2>1. Custom(o) = o.customHeaders
    BY <1>6 DEF Custom
  <2>2. OwnHeaders(o) = (o.customHeaders \o <<accept>>) \o x
    BY <1>6 DEF OwnHeaders
  <2>. HIDE DEF accept
  <2>3. Library(<<accept>>) /\ Library(x)
    BY <1>1, <1>3, LibraryLines
  <2>. HIDE DEF x
  <2>. QED BY <2>1, <2>2, <2>3, LibraryBehind
<1>7. CASE o.kind = "soap"
  <2>1. Custom(o) = <<>> /\ OwnHeaders(o) = SoapHeaders(o)
    BY <1>7 DEF OwnHeaders, Custom
  <2>2. ASSUME NEW v PROVE /\ [name |-> <<"Content-Type">>, value |-> v].name \in LibraryNames
                           /\ [name |-> <<"SOAPAction">>, value |-> v].name \in LibraryNames
    BY Zenon DEF LibraryNames
  <2>3. Library(SoapHeaders(o))
    <3>1. PICK a, b : /\ a.name \in LibraryNames /\ b.name \in LibraryNames
                      /\ SoapHeaders(o) = <<a>> \/ SoapHeaders(o) = <<a, b>>
      BY <2>2, Zenon DEF SoapHeaders
    <3>. QED BY <3>1, LibraryLines
  <2>. QED BY <2>1, <2>3, LibraryBehind
<1>. QED BY <1>4, <1>5, <1>6, <1>7 DEF Kinds

(* The lines of a message are those of the client and those of the request *)
(* behind them, but for the library's.                                     *)
LEMMA LinesOfMessage ==
  ASSUME NEW list, IsSequence(list), NEW own, NEW custom, Behind(own, custom),
         NEW name, \A lib \in LibraryNames : ~SameName(lib, name)
  PROVE  LET t == list \o own
         IN  /\ DOMAIN t = 1 .. Len(list) + Len(own)
             /\ Lines(t, name) = Lines(list, name) \cup {Len(list) + i : i \in Lines(custom, name)}
             /\ \A i \in DOMAIN list : t[i] = list[i]
             /\ \A i \in DOMAIN custom : t[Len(list) + i] = custom[i]
             /\ Lines(list, name) \subseteq 1 .. Len(list) /\ Lines(custom, name) \subseteq 1 .. Len(custom)
             /\ Len(list) \in Nat /\ Len(custom) \in Nat
<1>. DEFINE t == list \o own
            n == Len(list)
<1>1. /\ IsSequence(t) /\ n \in Nat /\ Len(own) \in Nat /\ Len(custom) \in Nat
      /\ DOMAIN t = 1 .. n + Len(own) /\ Len(custom) <= Len(own)
      /\ DOMAIN list = 1 .. n /\ DOMAIN custom = 1 .. Len(custom)
      /\ \A i \in 1 .. n : t[i] = list[i]
      /\ \A i \in 1 .. Len(own) : t[n + i] = own[i]
  BY Concatenated, SequenceLength DEF Behind
<1>. HIDE DEF t, n
<1>2. \A i \in 1 .. Len(custom) : t[n + i] = custom[i]
  BY <1>1 DEF Behind
<1>3. ASSUME NEW i \in Len(custom) + 1 .. Len(own) PROVE ~SameName(t[n + i].name, name)
  BY <1>1, <1>3 DEF Behind
<1>4. Lines(list, name) \subseteq 1 .. n /\ Lines(custom, name) \subseteq 1 .. Len(custom)
  BY <1>1 DEF Lines
<1>5. ASSUME NEW i \in Lines(t, name)
      PROVE  i \in Lines(list, name) \cup {n + k : k \in Lines(custom, name)}
  <2>1. CASE i <= n
    BY <1>1, <2>1 DEF Lines
  <2>2. CASE i > n
    <3>. DEFINE k == i - n
    <3>1. k \in 1 .. Len(own) /\ n + k = i /\ SameName(t[i].name, name)
      BY <1>1, <2>2 DEF Lines
    <3>. HIDE DEF k
    <3>2. k \in 1 .. Len(custom)
      <4>1. k \notin Len(custom) + 1 .. Len(own)
        BY <1>3, <3>1
      <4>. QED BY <1>1, <3>1, <4>1
    <3>3. k \in Lines(custom, name)
      BY <1>1, <1>2, <3>1, <3>2 DEF Lines
    <3>. QED BY <3>1, <3>3
  <2>. QED BY <1>1, <2>1, <2>2 DEF Lines
<1>6. Lines(list, name) \subseteq Lines(t, name)
  BY <1>1 DEF Lines
<1>7. ASSUME NEW k \in Lines(custom, name) PROVE n + k \in Lines(t, name)
  <2>1. k \in 1 .. Len(custom) /\ SameName(custom[k].name, name)
    BY <1>1 DEF Lines
  <2>2. n + k \in DOMAIN t /\ t[n + k] = custom[k]
    BY <1>1, <1>2, <2>1
  <2>. QED BY <2>1, <2>2 DEF Lines
<1>8. Lines(t, name) = Lines(list, name) \cup {n + k : k \in Lines(custom, name)}
  BY <1>5, <1>6, <1>7
<1>. QED BY <1>1, <1>2, <1>4, <1>8 DEF t, n

LEMMA MessageAsSet ==
  ASSUME NEW list, NEW calls, Kept(list, calls), OneEach(list, calls),
         \A i \in DOMAIN calls : IsNaming(calls[i]),
         NEW custom, NEW asked, Kept(custom, asked), NEW own, Behind(own, custom),
         NEW m, m.headers = list \o own, m.set = calls, m.asked = asked
  PROVE  AsSet(m)
<1>. DEFINE t == list \o own
            n == Len(list)
            Which(name) == IF Naming(asked, name) # {} THEN asked ELSE calls
            all == {NameOf(calls[i]) : i \in DOMAIN calls}
                     \cup {NameOf(asked[i]) : i \in {j \in DOMAIN asked : IsNaming(asked[j])}}
<1>1. ASSUME NEW name \in all, \A lib \in LibraryNames : ~SameName(lib, name)
      PROVE  /\ Lines(t, name) # {}
             /\ Clear(Which(name), name) => \A i \in DOMAIN t :
                  IsLast(i, Lines(t, name)) => t[i].value = Cut(Valued(Which(name), name), ValueSize)
             /\ Naming(asked, name) = {} /\ (\A i \in Naming(calls, name) : Fits(calls[i]))
                  => \E i \in DOMAIN t : Lines(t, name) = {i}
  <2>. DEFINE A == Lines(list, name)
              B == Lines(custom, name)
  <2>1. /\ DOMAIN t = 1 .. Len(list) + Len(own)
        /\ Lines(t, name) = A \cup {n + i : i \in B}
        /\ \A i \in DOMAIN list : t[i] = list[i]
        /\ \A i \in DOMAIN custom : t[n + i] = custom[i]
        /\ A \subseteq 1 .. n /\ B \subseteq 1 .. Len(custom)
        /\ n \in Nat /\ Len(custom) \in Nat
    BY <1>1, LinesOfMessage DEF Kept
  <2>2. (Naming(asked, name) # {} <=> B # {}) /\ (Naming(calls, name) # {} <=> A # {})
    BY NamedLines
  <2>3. A \subseteq DOMAIN list /\ B \subseteq DOMAIN custom
    BY DEF Lines
  <2>. HIDE DEF t, n
  <2>4. CASE B # {}
    <3>1. Which(name) = asked
      BY <2>2, <2>4
    <3>2. ASSUME NEW i, IsLast(i, Lines(t, name)), Clear(asked, name)
          PROVE  t[i].value = Cut(Valued(asked, name), ValueSize)
      <4>1. PICK b : b \in B
        BY <2>4
      <4>2. n + b <= i /\ b \in 1 .. Len(custom)
        BY <2>1, <3>2, <4>1 DEF IsLast
      <4>3. PICK k \in B : i = n + k
        BY <2>1, <3>2, <4>2 DEF IsLast
      <4>4. ASSUME NEW j \in B PROVE j <= k
        <5>1. n + j <= n + k /\ j \in Nat /\ k \in Nat
          BY <2>1, <3>2, <4>3 DEF IsLast
        <5>. QED BY <2>1, <5>1
      <4>5. IsLast(k, B) /\ t[i] = custom[k]
        BY <2>1, <2>3, <4>3, <4>4 DEF IsLast
      <4>. QED BY <3>2, <4>5, LastValue
    <3>3. Lines(t, name) # {}
      BY <2>1, <2>4
    <3>4. Naming(asked, name) # {}
      BY <2>2, <2>4
    <3>. QED BY <3>1, <3>2, <3>3, <3>4
  <2>5. CASE B = {}
    <3>1. Naming(asked, name) = {} /\ Which(name) = calls /\ Lines(t, name) = A
      BY <2>1, <2>2, <2>5
    <3>2. A # {}
      <4>1. \A i \in DOMAIN asked : IsNaming(asked[i]) => name # NameOf(asked[i])
        BY <3>1, SameNames DEF Naming, Names
      <4>2. PICK i \in DOMAIN calls : name = NameOf(calls[i])
        BY <1>1, <4>1
      <4>3. i \in Naming(calls, name)
        BY <4>2, SameNames DEF Naming, Names
      <4>. QED BY <2>2, <4>3
    <3>3. ASSUME NEW i, IsLast(i, Lines(t, name)), Clear(calls, name)
          PROVE  t[i].value = Cut(Valued(calls, name), ValueSize)
      <4>1. IsLast(i, A) /\ i \in DOMAIN list
        BY <2>3, <3>1, <3>3 DEF IsLast
      <4>. QED BY <2>1, <3>3, <4>1, LastValue
    <3>4. ASSUME \A i \in Naming(calls, name) : Fits(calls[i])
          PROVE  \E i \in DOMAIN t : Lines(t, name) = {i}
      <4>1. PICK i : i \in A
        BY <3>2
      <4>2. ASSUME NEW j \in A PROVE j = i
        <5>1. /\ i \in DOMAIN list /\ j \in DOMAIN list
              /\ SameName(list[i].name, name) /\ SameName(list[j].name, name)
          BY <4>1 DEF Lines
        <5>2. SameName(list[i].name, list[j].name) /\ AllFit(calls, list[i].name)
          BY <3>4, <5>1, SameNames, OneClass DEF AllFit
        <5>. QED BY <5>1, <5>2 DEF OneEach
      <4>3. A = {i}
        BY <4>1, <4>2
      <4>4. i \in DOMAIN t
        BY <2>1, <3>1, <4>1 DEF Lines
      <4>. QED BY <3>1, <4>3, <4>4
    <3>. QED BY <3>1, <3>2, <3>3, <3>4
  <2>. QED BY <2>4, <2>5
<1>. QED BY <1>1 DEF AsSet


-----------------------------------------------------------------------------
(* The inductive invariant. *)

IdOps == {"id", "notification"}

(* What every request object has, and what one of JSON-RPC has besides. *)
Fields    == {"kind", "asked", "born", "executed", "moved"}
RpcFields == {"isNotification", "idType", "intId", "stringId"}

NoIdCall(asked) == \A i \in DOMAIN asked : asked[i].op # "id"

(* The id that the members of object o stand for is the one its calls have *)
(* asked for last, whether or not it is a notification at the moment.      *)
IdMembers(o) ==
  /\ o.born \in Nat
  /\ o.isNotification <=> IsNotification(o.asked)
  /\ IF NoIdCall(o.asked)
     THEN o.idType = "auto" /\ o.intId = TextOfId(o.born % IdCount)
     ELSE LET id == Latest(o.asked, {"id"}).value IN
          \/ o.idType = "int" /\ o.intId = id
          \/ o.idType = "string" /\ o.stringId = id
          \/ o.idType = "null" /\ id = <<"null">>

(* The headers of object o are those that its calls have set. *)
OwnKept(o) ==
  /\ o.kind \in Kinds
  /\ o.kind \in {"rpc", "graphql"} => "customHeaders" \in DOMAIN o
  /\ Kept(Custom(o), o.asked)
  /\ o.kind = "graphql" => OneEach(o.customHeaders, o.asked)

Sound(o) ==
  /\ Fields \subseteq DOMAIN o
  /\ IsSequence(o.asked)
  /\ OwnKept(o)
  /\ o.kind = "rpc" => RpcFields \subseteq DOMAIN o /\ IdMembers(o)

(* The headers of the client are those that have been set, one line each,  *)
(* the counter follows the number of JSON-RPC requests constructed, and    *)
(* each message has the headers and bears the id it should.                *)
HeadersKept ==
  Kept(headers, set) /\ OneEach(headers, set) /\ \A i \in DOMAIN set : IsNaming(set[i])

IInv ==
  /\ HeadersKept
  /\ born \in Nat /\ nextId = (born + 1) % IdCount
  /\ IsSequence(reqs) /\ \A r \in DOMAIN reqs : Sound(reqs[r])
  /\ IsSequence(wire)
  /\ \A i \in DOMAIN wire :
       /\ wire[i].kind = "rpc" => wire[i].id = IdText(wire[i]) /\ wire[i].born \in Nat
       /\ AsSet(wire[i])

-----------------------------------------------------------------------------
(* The call made last is the latest of its operations, and does not matter *)
(* to the others.                                                          *)
LEMMA LatestCall ==
  ASSUME NEW asked, IsSequence(asked), NEW call, NEW ops
  PROVE  Latest(Append(asked, call), ops) = IF call.op \in ops THEN call ELSE Latest(asked, ops)
<1>. DEFINE t == Append(asked, call)
            Among(s) == {i \in DOMAIN s : s[i].op \in ops}
            Final(S) == CHOOSE i \in S : \A j \in S : j <= i
<1>1. /\ Len(asked) \in Nat
      /\ DOMAIN asked = 1 .. Len(asked) /\ DOMAIN t = 1 .. Len(asked) + 1
      /\ t[Len(asked) + 1] = call
      /\ \A i \in DOMAIN asked : t[i] = asked[i]
  BY Extended
<1>. HIDE DEF t
<1>2. CASE call.op \in ops
  <2>1. Len(asked) + 1 \in Among(t) /\ \A j \in Among(t) : j \in Nat /\ j <= Len(asked) + 1
    BY <1>1, <1>2
  <2>2. Final(Among(t)) = Len(asked) + 1
    BY <1>1, <2>1
  <2>3. Latest(t, ops) = t[Final(Among(t))]
    BY <2>1 DEF Latest
  <2>. QED BY <1>1, <1>2, <2>2, <2>3 DEF t
<1>3. CASE call.op \notin ops
  <2>1. Among(t) = Among(asked)
    BY <1>1, <1>3
  <2>2. CASE Among(asked) = {}
    BY <1>3, <2>1, <2>2 DEF Latest, t
  <2>3. CASE Among(asked) # {}
    <3>1. Latest(t, ops) = t[Final(Among(asked))] /\ Latest(asked, ops) = asked[Final(Among(asked))]
      BY <2>1, <2>3 DEF Latest
    <3>2. Final(Among(asked)) \in DOMAIN asked
      <4>1. \E m \in Among(asked) : \A k \in Among(asked) : k <= m
        BY <1>1, <2>3, Greatest
      <4>. QED BY <4>1
    <3>. QED BY <1>1, <1>3, <3>1, <3>2 DEF t
  <2>. QED BY <2>2, <2>3
<1>. QED BY <1>2, <1>3

(* A call that is not about the id changes nothing the id depends on.      *)
LEMMA OtherCall ==
  ASSUME NEW asked, IsSequence(asked), NEW call, call.op \notin IdOps
  PROVE  /\ IsNotification(Append(asked, call)) <=> IsNotification(asked)
         /\ NoIdCall(Append(asked, call)) <=> NoIdCall(asked)
         /\ Latest(Append(asked, call), {"id"}) = Latest(asked, {"id"})
<1>1. /\ Latest(Append(asked, call), {"id"}) = Latest(asked, {"id"})
      /\ Latest(Append(asked, call), {"id", "notification"}) = Latest(asked, {"id", "notification"})
  BY LatestCall DEF IdOps
<1>2. NoIdCall(Append(asked, call)) <=> NoIdCall(asked)
  BY Extended DEF NoIdCall, IdOps
<1>. QED BY <1>1, <1>2 DEF IsNotification

(* notification() decides whether there is an id, and keeps which.         *)
LEMMA NotificationCall ==
  ASSUME NEW asked, IsSequence(asked), NEW enable, NEW key, NEW value
  PROVE  LET t == Append(asked, Asked("notification", key, value, enable))
         IN  /\ IsNotification(t) <=> enable
             /\ NoIdCall(t) <=> NoIdCall(asked)
             /\ Latest(t, {"id"}) = Latest(asked, {"id"})
<1>. DEFINE call == Asked("notification", key, value, enable)
            t == Append(asked, call)
<1>1. call.op = "notification" /\ call.quote = enable
  BY DEF Asked
<1>. HIDE DEF call
<1>2. Latest(t, {"id"}) = Latest(asked, {"id"}) /\ Latest(t, {"id", "notification"}) = call
  BY <1>1, LatestCall
<1>3. NoIdCall(t) <=> NoIdCall(asked)
  BY <1>1, Extended DEF NoIdCall
<1>4. IsNotification(t) <=> enable
  BY <1>1, <1>2 DEF IsNotification
<1>. QED BY <1>2, <1>3, <1>4 DEF call

(* A call of id() or nullId() gives an id, and ends being a notification.  *)
LEMMA IdCall ==
  ASSUME NEW asked, IsSequence(asked), NEW key, NEW value, NEW quote
  PROVE  LET t == Append(asked, Asked("id", key, value, quote))
         IN  /\ ~IsNotification(t) /\ ~NoIdCall(t)
             /\ Latest(t, {"id"}).value = value
<1>. DEFINE call == Asked("id", key, value, quote)
            t == Append(asked, call)
<1>1. call.op = "id" /\ call.value = value
  BY DEF Asked
<1>. HIDE DEF call
<1>2. Latest(t, {"id"}) = call /\ Latest(t, {"id", "notification"}) = call
  BY <1>1, LatestCall
<1>3. ~NoIdCall(t)
  BY <1>1, Extended DEF NoIdCall
<1>. QED BY <1>1, <1>2, <1>3 DEF IsNotification, call

-----------------------------------------------------------------------------
(* The counter and the texts of ids. *)

LEMMA Division ==
  ASSUME NEW a \in Nat
  PROVE  \E q \in Nat, x \in 0 .. IdCount - 1 : a = IdCount * q + x /\ a % IdCount = x
<1>1. a = IdCount * (a \div IdCount) + (a % IdCount)
  BY BoundsAssumption
<1>2. a \div IdCount \in Nat /\ a % IdCount \in 0 .. IdCount - 1
  BY BoundsAssumption
<1>. QED BY <1>1, <1>2

LEMMA Remainder ==
  ASSUME NEW q \in Int, NEW x \in 0 .. IdCount - 1
  PROVE  (IdCount * q + x) % IdCount = x
BY BoundsAssumption

LEMMA CountedOn ==
  ASSUME NEW a \in Nat
  PROVE  ((a % IdCount) + 1) % IdCount = (a + 1) % IdCount
<1>. USE BoundsAssumption
<1>1. PICK q \in Nat, x \in 0 .. IdCount - 1 : a = IdCount * q + x /\ a % IdCount = x
  BY Division
<1>2. CASE x + 1 < IdCount
  <2>1. a + 1 = IdCount * q + (x + 1) /\ q \in Int /\ x + 1 \in 0 .. IdCount - 1
    BY <1>1, <1>2
  <2>2. (IdCount * q + (x + 1)) % IdCount = x + 1
    BY <2>1, Remainder, Zenon
  <2>3. (x + 1) % IdCount = x + 1
    BY <1>2
  <2>. QED BY <1>1, <2>1, <2>2, <2>3
<1>3. CASE x + 1 = IdCount
  <2>1. a + 1 = IdCount * (q + 1) + 0 /\ 0 \in 0 .. IdCount - 1
    BY <1>1, <1>3
  <2>2. (IdCount * (q + 1) + 0) % IdCount = 0
    BY <2>1, Remainder
  <2>3. (x + 1) % IdCount = 0
    BY <1>3
  <2>. QED BY <1>1, <2>1, <2>2, <2>3
<1>. QED BY <1>1, <1>2, <1>3

(* There is no multiple of the counter's range between two neighbours.     *)
LEMMA Multiples ==
  ASSUME NEW p \in Int, NEW q \in Int, NEW d \in Int, 0 < d, d < IdCount
  PROVE  IdCount * p # IdCount * q + d
BY BoundsAssumption

LEMMA CountsDiffer ==
  ASSUME NEW a \in Nat, NEW b \in Nat, a < b, b - a < IdCount
  PROVE  a % IdCount # b % IdCount
<1>1. PICK q \in Nat, x \in 0 .. IdCount - 1 : a = IdCount * q + x /\ a % IdCount = x
  BY Division
<1>2. PICK p \in Nat, y \in 0 .. IdCount - 1 : b = IdCount * p + y /\ b % IdCount = y
  BY Division
<1>3. ASSUME x = y PROVE FALSE
  <2>. DEFINE u == IdCount * p
              v == IdCount * q
  <2>1. u \in Int /\ v \in Int /\ a = v + x /\ b = u + x
    BY <1>1, <1>2, <1>3, BoundsAssumption
  <2>. HIDE DEF u, v
  <2>2. u = v + (b - a)
    BY <2>1
  <2>. QED BY <2>2, Multiples DEF u, v
<1>. QED BY <1>1, <1>2, <1>3

LEMMA IdsDiffer ==
  ASSUME NEW a \in Nat, NEW b \in Nat, a < b, b - a < IdCount
  PROVE  TextOfId(a % IdCount) # TextOfId(b % IdCount)
<1>. DEFINE m == a % IdCount
            n == b % IdCount
<1>1. m \in 0 .. IdCount - 1 /\ n \in 0 .. IdCount - 1
  BY BoundsAssumption
<1>2. m # n
  BY CountsDiffer
<1>. HIDE DEF m, n
<1>3. IdCount \div 2 \in Nat /\ IdCount \div 2 < IdCount
  BY BoundsAssumption
<1>4. Signed(m) \in -IdCount .. IdCount /\ Signed(n) \in -IdCount .. IdCount /\ Signed(m) # Signed(n)
  BY <1>1, <1>2, <1>3, BoundsAssumption DEF Signed
<1>. QED BY <1>4, TextAssumption DEF TextOfId, m, n

-----------------------------------------------------------------------------
(* Objects *)

(* The members that the id and the headers depend on, and the operations  *)
(* that are about them.                                                    *)
Core == {"kind", "asked", "born", "customHeaders"} \cup RpcFields

CoreOps == IdOps \cup {"header", "cookie"}

Agree(o, p) == DOMAIN o = DOMAIN p /\ \A f \in Core \cap DOMAIN p : o[f] = p[f]

LEMMA Setting ==
  ASSUME NEW p, NEW f, f \notin Core, NEW e
  PROVE  Agree([p EXCEPT ![f] = e], p)
BY DEF Agree

LEMMA AgreeTransitive ==
  ASSUME NEW o, NEW p, NEW q, Agree(o, p), Agree(p, q)
  PROVE  Agree(o, q)
BY DEF Agree

LEMMA SoundCopy ==
  ASSUME NEW o, NEW p, Agree(o, p), Sound(p)
  PROVE  Sound(o)
<1>1. Fields \subseteq DOMAIN o /\ o.kind = p.kind /\ o.asked = p.asked /\ o.born = p.born
  BY DEF Sound, Agree, Core, Fields
<1>2. ASSUME o.kind = "rpc" PROVE RpcFields \subseteq DOMAIN o /\ IdMembers(o)
  <2>1. RpcFields \subseteq DOMAIN p /\ IdMembers(p)
    BY <1>1, <1>2 DEF Sound
  <2>2. /\ o.isNotification = p.isNotification /\ o.idType = p.idType
        /\ o.intId = p.intId /\ o.stringId = p.stringId
    BY <2>1 DEF Agree, Core, RpcFields
  <2>3. IdMembers(o)
    BY <1>1, <2>1, <2>2 DEF IdMembers
  <2>. QED BY <2>1, <2>3 DEF Agree
<1>3. OwnKept(o)
  <2>1. OwnKept(p)
    BY DEF Sound
  <2>2. p.kind \in {"rpc", "graphql"} => "customHeaders" \in DOMAIN o /\ o.customHeaders = p.customHeaders
    BY <2>1 DEF OwnKept, Agree, Core
  <2>. QED BY <1>1, <2>1, <2>2 DEF OwnKept, Custom
<1>. QED BY <1>1, <1>2, <1>3 DEF Sound

(* A call that is not about headers. *)
LEMMA OwnOtherCall ==
  ASSUME NEW p, OwnKept(p), NEW o, o.kind = p.kind,
         NEW call, ~IsNaming(call), o.asked = Append(p.asked, call),
         p.kind \in {"rpc", "graphql"} => "customHeaders" \in DOMAIN o /\ o.customHeaders = p.customHeaders
  PROVE  OwnKept(o)
<1>1. Custom(o) = Custom(p)
  BY DEF Custom
<1>2. /\ Kept(Custom(o), o.asked)
      /\ OneEach(Custom(p), p.asked) => OneEach(Custom(o), o.asked)
  BY <1>1, OtherKept DEF OwnKept
<1>. QED BY <1>1, <1>2 DEF OwnKept, Custom

(* The object after a call that is about neither the id nor headers. *)
LEMMA SoundOtherCall ==
  ASSUME NEW p, Sound(p), NEW call, call.op \notin CoreOps
  PROVE  Sound([p EXCEPT !.asked = Append(@, call)])
<1>. DEFINE o == [p EXCEPT !.asked = Append(@, call)]
<1>1. /\ Fields \subseteq DOMAIN o /\ DOMAIN o = DOMAIN p
      /\ o.kind = p.kind /\ o.born = p.born /\ o.asked = Append(p.asked, call)
  BY DEF Sound, Fields
<1>2. ASSUME p.kind = "rpc" PROVE RpcFields \subseteq DOMAIN p /\ IdMembers(o)
  <2>1. RpcFields \subseteq DOMAIN p /\ IdMembers(p) /\ IsSequence(p.asked)
    BY <1>2 DEF Sound
  <2>2. /\ o.isNotification = p.isNotification /\ o.idType = p.idType
        /\ o.intId = p.intId /\ o.stringId = p.stringId
    BY <2>1 DEF RpcFields
  <2>. HIDE DEF o
  <2>3. /\ IsNotification(o.asked) <=> IsNotification(p.asked)
        /\ NoIdCall(o.asked) <=> NoIdCall(p.asked)
        /\ Latest(o.asked, {"id"}) = Latest(p.asked, {"id"})
    BY <1>1, <2>1, OtherCall DEF CoreOps
  <2>. QED BY <1>1, <2>1, <2>2, <2>3 DEF IdMembers
<1>3. IsSequence(o.asked)
  BY <1>1, Extended DEF Sound
<1>4. p.kind \in {"rpc", "graphql"} => "customHeaders" \in DOMAIN o /\ o.customHeaders = p.customHeaders
  BY <1>1 DEF Sound, OwnKept
<1>. HIDE DEF o
<1>5. OwnKept(o)
  BY <1>1, <1>4, OwnOtherCall DEF Sound, CoreOps, IsNaming
<1>6. Sound(o)
  BY <1>1, <1>2, <1>3, <1>5 DEF Sound
<1>. QED BY <1>6 DEF o

(* The object that an id has been given to. *)
LEMMA SoundIdCall ==
  ASSUME NEW p, Sound(p), p.kind = "rpc", NEW q, DOMAIN q = DOMAIN p,
         q.kind = p.kind, q.asked = p.asked, q.born = p.born, q.isNotification = FALSE,
         q.customHeaders = p.customHeaders,
         NEW value, NEW quote,
         \/ q.idType = "int" /\ q.intId = value
         \/ q.idType = "string" /\ q.stringId = value
         \/ q.idType = "null" /\ value = <<"null">>
  PROVE  Sound([q EXCEPT !.asked = Append(@, Asked("id", <<>>, value, quote))])
<1>. DEFINE o == [q EXCEPT !.asked = Append(@, Asked("id", <<>>, value, quote))]
<1>1. /\ IsSequence(p.asked) /\ Fields \subseteq DOMAIN q /\ RpcFields \subseteq DOMAIN q
      /\ q.born \in Nat /\ OwnKept(p) /\ "customHeaders" \in DOMAIN q
  BY DEF Sound, IdMembers, OwnKept
<1>2. /\ DOMAIN o = DOMAIN q /\ o.kind = "rpc" /\ o.born = q.born
      /\ o.asked = Append(p.asked, Asked("id", <<>>, value, quote))
      /\ o.isNotification = FALSE /\ o.idType = q.idType
      /\ o.intId = q.intId /\ o.stringId = q.stringId /\ o.customHeaders = q.customHeaders
  BY <1>1 DEF Fields, RpcFields
<1>. HIDE DEF o
<1>3. ~IsNotification(o.asked) /\ ~NoIdCall(o.asked) /\ Latest(o.asked, {"id"}).value = value
  BY <1>1, <1>2, IdCall
<1>4. IsSequence(o.asked)
  BY <1>1, <1>2, Extended
<1>5. IdMembers(o)
  BY <1>1, <1>2, <1>3 DEF IdMembers
<1>6. OwnKept(o)
  BY <1>1, <1>2, OwnOtherCall DEF IsNaming, Asked
<1>7. Sound(o)
  BY <1>1, <1>2, <1>4, <1>5, <1>6 DEF Sound
<1>. QED BY <1>7 DEF o

(* The object after notification(enable). *)
LEMMA SoundNotification ==
  ASSUME NEW p, Sound(p), p.kind = "rpc", NEW enable \in BOOLEAN
  PROVE  Sound([[p EXCEPT !.isNotification = enable] EXCEPT
                 !.asked = Append(@, Asked("notification", <<>>, <<>>, enable))])
<1>. DEFINE q == [p EXCEPT !.isNotification = enable]
            o == [q EXCEPT !.asked = Append(@, Asked("notification", <<>>, <<>>, enable))]
<1>1. /\ IsSequence(p.asked) /\ Fields \subseteq DOMAIN p /\ RpcFields \subseteq DOMAIN p /\ IdMembers(p)
      /\ OwnKept(p) /\ "customHeaders" \in DOMAIN p
  BY DEF Sound, OwnKept
<1>2. /\ DOMAIN q = DOMAIN p /\ q.kind = "rpc" /\ q.born = p.born /\ q.asked = p.asked
      /\ q.isNotification = enable /\ q.idType = p.idType
      /\ q.intId = p.intId /\ q.stringId = p.stringId /\ q.customHeaders = p.customHeaders
  BY <1>1 DEF Fields, RpcFields
<1>. HIDE DEF q
<1>3. /\ DOMAIN o = DOMAIN q /\ o.kind = "rpc" /\ o.born = q.born
      /\ o.asked = Append(p.asked, Asked("notification", <<>>, <<>>, enable))
      /\ o.isNotification = enable /\ o.idType = q.idType
      /\ o.intId = q.intId /\ o.stringId = q.stringId /\ o.customHeaders = q.customHeaders
  BY <1>1, <1>2 DEF Fields, RpcFields
<1>. HIDE DEF o
<1>4. /\ IsNotification(o.asked) <=> enable
      /\ NoIdCall(o.asked) <=> NoIdCall(p.asked)
      /\ Latest(o.asked, {"id"}) = Latest(p.asked, {"id"})
  BY <1>1, <1>3, NotificationCall
<1>5. IsSequence(o.asked)
  BY <1>1, <1>3, Extended
<1>6. IdMembers(o)
  BY <1>1, <1>2, <1>3, <1>4 DEF IdMembers
<1>7. OwnKept(o)
  BY <1>1, <1>2, <1>3, OwnOtherCall DEF IsNaming, Asked
<1>8. Sound(o)
  BY <1>1, <1>2, <1>3, <1>5, <1>6, <1>7 DEF Sound
<1>. QED BY <1>8 DEF o, q

-----------------------------------------------------------------------------
(* Steps *)

(* A step that neither constructs a request of JSON-RPC nor sends one.     *)
LEMMA ObjectsStep ==
  ASSUME IInv, UNCHANGED <<nextId, born, wire, headers, set>>,
         IsSequence(reqs'), \A r \in DOMAIN reqs' : Sound(reqs'[r])
  PROVE  IInv'
BY DEF IInv, HeadersKept

LEMMA ClientStep ==
  ASSUME IInv, UNCHANGED <<nextId, born, reqs, wire, headers, set>>
  PROVE  IInv'
BY ObjectsStep DEF IInv

LEMMA ConstructStep ==
  ASSUME IInv, NEW object, Sound(object), Construct(object), UNCHANGED <<nextId, born>>
  PROVE  IInv'
<1>1. IsSequence(reqs') /\ \A r \in DOMAIN reqs' : Sound(reqs'[r])
  BY Extended DEF IInv, Construct
<1>. QED BY <1>1, ObjectsStep DEF Construct, client

LEMMA ChangeStep ==
  ASSUME IInv, NEW r \in DOMAIN reqs, NEW object, NEW call, Change(r, object, call),
         Sound([object EXCEPT !.asked = Append(@, call)])
  PROVE  IInv'
<1>1. IsSequence(reqs') /\ \A i \in DOMAIN reqs' : Sound(reqs'[i])
  BY Exchanged DEF IInv, Change
<1>. QED BY <1>1, ObjectsStep DEF Change, client

(* Headers and cookies of the client. *)
LEMMA HeaderStep ==
  ASSUME IInv, SetHeader \/ AddCookie
  PROVE  IInv'
<1>1. HeadersKept'
  <2>1. HeadersKept /\ IsSequence(set)
    BY DEF IInv, HeadersKept, Kept
  <2>2. ASSUME NEW c, IsNaming(c), set' = Append(set, c), Kept(headers', set'), OneEach(headers', set')
        PROVE  HeadersKept'
    <3>1. \A i \in DOMAIN Append(set, c) : IsNaming(Append(set, c)[i])
      BY <2>1, <2>2, Extended DEF HeadersKept
    <3>. QED BY <2>2, <3>1 DEF HeadersKept
  <2>3. CASE SetHeader
    <3>1. PICK name \in HeaderNames, value \in HeaderValues :
            /\ headers' = WithHeader(headers, name, value)
            /\ set' = Append(set, Asked("header", name, value, FALSE))
      BY <2>3 DEF SetHeader
    <3>. DEFINE c == Asked("header", name, value, FALSE)
    <3>2. c.op = "header" /\ c.key = name /\ c.value = value /\ IsNaming(c)
      BY DEF Asked, IsNaming
    <3>. HIDE DEF c
    <3>3. IsSequence(name) /\ IsSequence(value)
      BY HeaderAssumption DEF IsSequence
    <3>4. Kept(headers', Append(set, c)) /\ OneEach(headers', Append(set, c))
      BY <2>1, <3>1, <3>2, <3>3, SetHeaderKept DEF HeadersKept
    <3>5. set' = Append(set, c)
      BY <3>1 DEF c
    <3>. QED BY <2>2, <3>2, <3>4, <3>5
  <2>4. CASE AddCookie
    <3>1. PICK name \in CookieNames, value \in Bare :
            /\ headers' = WithHeader(headers, Cookie, WithCookie(headers, name, value))
            /\ set' = Append(set, Asked("cookie", name, value, FALSE))
      BY <2>4 DEF AddCookie
    <3>. DEFINE c == Asked("cookie", name, value, FALSE)
    <3>2. c.op = "cookie" /\ c.key = name /\ c.value = value /\ IsNaming(c)
      BY DEF Asked, IsNaming
    <3>. HIDE DEF c
    <3>3. IsSequence(name) /\ IsSequence(value)
      BY HeaderAssumption DEF IsSequence
    <3>4. Kept(headers', Append(set, c)) /\ OneEach(headers', Append(set, c))
      BY <2>1, <3>1, <3>2, <3>3, AddCookieKept DEF HeadersKept
    <3>5. set' = Append(set, c)
      BY <3>1 DEF c
    <3>. QED BY <2>2, <3>2, <3>4, <3>5
  <2>. QED BY <2>3, <2>4
<1>2. UNCHANGED <<nextId, born, reqs, wire>>
  BY DEF SetHeader, AddCookie
<1>. QED BY <1>1, <1>2 DEF IInv

(* Most setters: they touch no member of Core, and the call says nothing   *)
(* of the id or of headers.                                                *)
LEMMA OtherSetter ==
  ASSUME IInv, NEW r \in DOMAIN reqs, NEW object, NEW call, Change(r, object, call),
         Agree(object, reqs[r]), call.op \notin CoreOps
  PROVE  IInv'
BY ChangeStep, SoundCopy, SoundOtherCall DEF IInv

LEMMA SettingTwo ==
  ASSUME NEW p, NEW f, f \notin Core, NEW g, g \notin Core, NEW d, NEW e
  PROVE  Agree([p EXCEPT ![f] = d, ![g] = e], p)
BY DEF Agree

(* A setter of one member that is not of Core. *)
LEMMA MemberStep ==
  ASSUME IInv, NEW r \in DOMAIN reqs, NEW field, field \notin Core, NEW value,
         NEW call, call.op \notin CoreOps,
         Change(r, [reqs[r] EXCEPT ![field] = value], call)
  PROVE  IInv'
<1>. DEFINE object == [reqs[r] EXCEPT ![field] = value]
<1>1. Agree(object, reqs[r])
  BY Setting
<1>. HIDE DEF object
<1>2. Change(r, object, call)
  BY DEF object
<1>. QED BY <1>1, <1>2, OtherSetter

LEMMA AssignStep ==
  ASSUME IInv, NEW r \in DOMAIN reqs, NEW field, NEW values, Assign(r, field, values),
         field \notin Core, field \notin CoreOps
  PROVE  IInv'
<1>1. PICK value \in values :
        Change(r, [reqs[r] EXCEPT ![field] = value], Asked(field, <<>>, value, TRUE))
  BY DEF Assign
<1>2. Asked(field, <<>>, value, TRUE).op = field
  BY DEF Asked
<1>. QED BY <1>1, <1>2, MemberStep

(* A header of a request: JSON-RPC appends a line, GraphQL overwrites. *)
LEMMA RequestHeaderStep ==
  ASSUME IInv, NEW r \in DOMAIN reqs, RequestHeader(r)
  PROVE  IInv'
<1>. DEFINE p == reqs[r]
<1>1. /\ Sound(p) /\ p.kind \in {"rpc", "graphql"} /\ "customHeaders" \in DOMAIN p /\ OwnKept(p)
      /\ IsSequence(p.asked) /\ Fields \subseteq DOMAIN p
  BY DEF IInv, Sound, OwnKept, RequestHeader
<1>2. PICK name \in HeaderNames, value \in HeaderValues :
        Change(r, [p EXCEPT !.customHeaders =
                     IF p.kind = "rpc" THEN Append(@, Header(Cut(name, NameSize), Cut(value, ValueSize)))
                     ELSE WithHeader(@, name, value)],
               Asked("header", name, value, TRUE))
  BY DEF RequestHeader, Kind
<1>3. IsSequence(name) /\ IsSequence(value)
  BY HeaderAssumption DEF IsSequence
<1>. DEFINE c == Asked("header", name, value, TRUE)
            old == p.customHeaders
            line == Header(Cut(name, NameSize), Cut(value, ValueSize))
            list == IF p.kind = "rpc" THEN Append(old, line) ELSE WithHeader(old, name, value)
            object == [p EXCEPT !.customHeaders = list]
            o == [object EXCEPT !.asked = Append(@, c)]
<1>4. c.op = "header" /\ c.key = name /\ c.value = value /\ IsNaming(c) /\ c.op \notin IdOps
  BY DEF Asked, IsNaming, IdOps
<1>. HIDE DEF c, p
<1>5. Change(r, object, c)
  BY <1>2 DEF c
<1>6. /\ DOMAIN o = DOMAIN p /\ o.customHeaders = list /\ o.asked = Append(p.asked, c)
      /\ \A f \in DOMAIN p : f \notin {"customHeaders", "asked"} => o[f] = p[f]
  BY <1>1 DEF Fields
<1>. HIDE DEF list
<1>7. o.kind = p.kind /\ o.born = p.born
  BY <1>1, <1>6 DEF Fields
<1>8. p.kind = "rpc" => RpcFields \subseteq DOMAIN o /\ IdMembers(o)
  <2>. SUFFICES ASSUME p.kind = "rpc" PROVE RpcFields \subseteq DOMAIN o /\ IdMembers(o)
    OBVIOUS
  <2>1. RpcFields \subseteq DOMAIN p /\ IdMembers(p)
    BY <1>1 DEF Sound
  <2>2. /\ o.isNotification = p.isNotification /\ o.idType = p.idType
        /\ o.intId = p.intId /\ o.stringId = p.stringId
    BY <1>6, <2>1 DEF RpcFields
  <2>. HIDE DEF o
  <2>3. /\ IsNotification(o.asked) <=> IsNotification(p.asked)
        /\ NoIdCall(o.asked) <=> NoIdCall(p.asked)
        /\ Latest(o.asked, {"id"}) = Latest(p.asked, {"id"})
    BY <1>1, <1>4, <1>6, OtherCall
  <2>. QED BY <1>6, <1>7, <2>1, <2>2, <2>3 DEF IdMembers
<1>. HIDE DEF o
<1>9. Kept(old, p.asked) /\ (p.kind = "graphql" => OneEach(old, p.asked))
  BY <1>1 DEF OwnKept, Custom
<1>10. Kept(list, o.asked) /\ (p.kind = "graphql" => OneEach(list, o.asked))
  <2>1. CASE p.kind = "rpc"
    <3>1. IsLine(line) /\ line.name = NameOf(c) /\ line.value = Cut(value, ValueSize)
      BY <1>3, <1>4, NewLine DEF Header, NameOf
    <3>2. Valued(Append(p.asked, c), line.name) = value
      <4>1. Names(c, line.name)
        BY <1>4, <3>1, SameNames DEF Names
      <4>. QED BY <1>1, <1>4, <4>1, ValuedOneMore DEF After
    <3>. HIDE DEF line
    <3>3. Kept(Append(old, line), Append(p.asked, c))
      BY <1>3, <1>4, <1>9, <3>1, <3>2, LineKept
    <3>. QED BY <1>6, <2>1, <3>3 DEF list
  <2>2. CASE p.kind = "graphql"
    <3>1. Kept(WithHeader(old, name, value), Append(p.asked, c))
          /\ OneEach(WithHeader(old, name, value), Append(p.asked, c))
      BY <1>3, <1>4, <1>9, <2>2, SetHeaderKept
    <3>. QED BY <1>6, <2>2, <3>1 DEF list
  <2>. QED BY <1>1, <2>1, <2>2
<1>11. OwnKept(o)
  BY <1>1, <1>6, <1>7, <1>10 DEF OwnKept, Custom
<1>12. IsSequence(o.asked)
  BY <1>1, <1>6, Extended
<1>13. Sound(o)
  BY <1>1, <1>6, <1>7, <1>8, <1>11, <1>12 DEF Sound
<1>. HIDE DEF object
<1>. QED BY <1>5, <1>13, ChangeStep DEF o

(* Every setter other than those of the id. *)
LEMMA OtherSetters ==
  ASSUME IInv, NEW r \in DOMAIN reqs, Setter(r),
         ~IntId(r), ~StringId(r), ~NullId(r), ~Notification(r)
  PROVE  IInv'
<1>1. CASE PathParam(r)
  <2>1. PICK key, value :
          Change(r, [reqs[r] EXCEPT !.pathParams = Append(@, Param(key, value, TRUE))],
                 Asked("path", key, value, TRUE))
    BY <1>1 DEF PathParam
  <2>2. "pathParams" \notin Core /\ Asked("path", key, value, TRUE).op \notin CoreOps
    BY DEF Core, RpcFields, IdOps, CoreOps, Asked
  <2>. QED BY <2>1, <2>2, MemberStep
<1>2. CASE QueryParam(r)
  <2>1. PICK key, value :
          Change(r, [reqs[r] EXCEPT !.queryParams = Append(@, Param(key, value, TRUE))],
                 Asked("query", key, value, TRUE))
    BY <1>2 DEF QueryParam
  <2>2. "queryParams" \notin Core /\ Asked("query", key, value, TRUE).op \notin CoreOps
    BY DEF Core, RpcFields, IdOps, CoreOps, Asked
  <2>. QED BY <2>1, <2>2, MemberStep
<1>3. CASE BodyField(r)
  <2>1. PICK key, v :
          Change(r, [reqs[r] EXCEPT !.bodyParams = Append(@, Param(key, v.value, v.quote))],
                 Asked("body", key, v.value, v.quote))
    BY <1>3 DEF BodyField
  <2>2. "bodyParams" \notin Core /\ Asked("body", key, v.value, v.quote).op \notin CoreOps
    BY DEF Core, RpcFields, IdOps, CoreOps, Asked
  <2>. QED BY <2>1, <2>2, MemberStep
<1>4. CASE BodyStruct(r)
  <2>1. PICK fields :
          Change(r, [reqs[r] EXCEPT !.rawBody = Serialized(fields)],
                 Asked("struct", <<>>, fields, TRUE))
    BY <1>4 DEF BodyStruct
  <2>2. "rawBody" \notin Core /\ Asked("struct", <<>>, fields, TRUE).op \notin CoreOps
    BY DEF Core, RpcFields, IdOps, CoreOps, Asked
  <2>. QED BY <2>1, <2>2, MemberStep
<1>5. CASE AsGet(r)
  <2>1. PICK get :
          Change(r, [reqs[r] EXCEPT !.get = get],
                 Asked("get", <<>>, <<>>, get))
    BY <1>5 DEF AsGet
  <2>2. "get" \notin Core /\ Asked("get", <<>>, <<>>, get).op \notin CoreOps
    BY DEF Core, RpcFields, IdOps, CoreOps, Asked
  <2>. QED BY <2>1, <2>2, MemberStep
<1>6. CASE Variable(r)
  <2>1. PICK key, v :
          Change(r, [reqs[r] EXCEPT !.variables = Append(@, Param(key, v.value, v.quote))],
                 Asked("variable", key, v.value, v.quote))
    BY <1>6 DEF Variable
  <2>2. "variables" \notin Core /\ Asked("variable", key, v.value, v.quote).op \notin CoreOps
    BY DEF Core, RpcFields, IdOps, CoreOps, Asked
  <2>. QED BY <2>1, <2>2, MemberStep
<1>7. ASSUME NEW field \in {"method", "document", "operationName", "rawVariables", "version",
                             "soapAction", "bodyXml", "headerXml", "rawEnvelope"},
             NEW values, Assign(r, field, values)
      PROVE  IInv'
  <2>1. field \notin Core /\ field \notin CoreOps
    BY DEF Core, RpcFields, IdOps, CoreOps
  <2>. QED BY <1>7, <2>1, AssignStep
<1>8. CASE \/ Method(r) \/ Document(r) \/ OperationName(r) \/ RawVariables(r) \/ Version(r)
          \/ SoapAction(r) \/ BodyXml(r) \/ HeaderXml(r) \/ RawEnvelope(r)
  BY <1>7, <1>8 DEF Method, Document, OperationName, RawVariables, Version, SoapAction, BodyXml, HeaderXml, RawEnvelope
<1>9. CASE AddParam(r)
  <2>1. PICK key, v, mode :
          Change(r, [reqs[r] EXCEPT !.paramMode = mode, !.params = Append(@, Param(key, v.value, v.quote))],
                 Asked("param", key, v.value, v.quote))
    BY <1>9 DEF AddParam
  <2>. DEFINE object == [reqs[r] EXCEPT !.paramMode = mode, !.params = Append(@, Param(key, v.value, v.quote))]
  <2>2. Agree(object, reqs[r]) /\ Asked("param", key, v.value, v.quote).op \notin CoreOps
    BY SettingTwo DEF Core, RpcFields, IdOps, CoreOps, Asked
  <2>. HIDE DEF object
  <2>3. Change(r, object, Asked("param", key, v.value, v.quote))
    BY <2>1 DEF object
  <2>. QED BY <2>2, <2>3, OtherSetter
<1>10. CASE RawParams(r)
  <2>1. PICK json :
          Change(r, [reqs[r] EXCEPT !.rawParams = json, !.paramMode = "raw"],
                 Asked("rawParams", <<>>, json, FALSE))
    BY <1>10 DEF RawParams
  <2>. DEFINE object == [reqs[r] EXCEPT !.rawParams = json, !.paramMode = "raw"]
  <2>2. Agree(object, reqs[r]) /\ Asked("rawParams", <<>>, json, FALSE).op \notin CoreOps
    BY SettingTwo DEF Core, RpcFields, IdOps, CoreOps, Asked
  <2>. HIDE DEF object
  <2>3. Change(r, object, Asked("rawParams", <<>>, json, FALSE))
    BY <2>1 DEF object
  <2>. QED BY <2>2, <2>3, OtherSetter
<1>11. CASE Mutation(r)
  <2>1. PICK text :
          Change(r, [reqs[r] EXCEPT !.document = text, !.get = FALSE],
                 Asked("mutation", <<>>, text, FALSE))
    BY <1>11 DEF Mutation
  <2>. DEFINE object == [reqs[r] EXCEPT !.document = text, !.get = FALSE]
  <2>2. Agree(object, reqs[r]) /\ Asked("mutation", <<>>, text, FALSE).op \notin CoreOps
    BY SettingTwo DEF Core, RpcFields, IdOps, CoreOps, Asked
  <2>. HIDE DEF object
  <2>3. Change(r, object, Asked("mutation", <<>>, text, FALSE))
    BY <2>1 DEF object
  <2>. QED BY <2>2, <2>3, OtherSetter
<1>12. CASE RequestHeader(r)
  BY <1>12, RequestHeaderStep
<1>. QED BY <1>1, <1>2, <1>3, <1>4, <1>5, <1>6, <1>8, <1>9, <1>10, <1>11, <1>12 DEF Setter

LEMMA IdSetters ==
  ASSUME IInv, NEW r \in DOMAIN reqs, IntId(r) \/ StringId(r) \/ NullId(r) \/ Notification(r)
  PROVE  IInv'
<1>. DEFINE p == reqs[r]
<1>1. Sound(p) /\ p.kind = "rpc" /\ Fields \subseteq DOMAIN p /\ RpcFields \subseteq DOMAIN p
  BY DEF IInv, Sound, IntId, StringId, NullId, Notification, Kind
<1>. HIDE DEF p
<1>2. CASE IntId(r)
  <2>1. PICK n : Change(r, [p EXCEPT !.idType = "int", !.intId = n, !.isNotification = FALSE],
                        Asked("id", <<>>, n, FALSE))
    BY <1>2 DEF IntId, p
  <2>. DEFINE q == [p EXCEPT !.idType = "int", !.intId = n, !.isNotification = FALSE]
  <2>2. /\ DOMAIN q = DOMAIN p /\ q.kind = p.kind /\ q.asked = p.asked /\ q.born = p.born
        /\ q.customHeaders = p.customHeaders
        /\ q.isNotification = FALSE /\ q.idType = "int" /\ q.intId = n
    BY <1>1 DEF Fields, RpcFields
  <2>. HIDE DEF q
  <2>3. Sound([q EXCEPT !.asked = Append(@, Asked("id", <<>>, n, FALSE))])
    BY <1>1, <2>2, SoundIdCall
  <2>4. Change(r, q, Asked("id", <<>>, n, FALSE))
    BY <2>1 DEF q
  <2>. QED BY <2>3, <2>4, ChangeStep
<1>3. CASE StringId(r)
  <2>1. PICK text : Change(r, [p EXCEPT !.idType = "string", !.stringId = text, !.isNotification = FALSE],
                           Asked("id", <<>>, text, TRUE))
    BY <1>3 DEF StringId, p
  <2>. DEFINE q == [p EXCEPT !.idType = "string", !.stringId = text, !.isNotification = FALSE]
  <2>2. /\ DOMAIN q = DOMAIN p /\ q.kind = p.kind /\ q.asked = p.asked /\ q.born = p.born
        /\ q.customHeaders = p.customHeaders
        /\ q.isNotification = FALSE /\ q.idType = "string" /\ q.stringId = text
    BY <1>1 DEF Fields, RpcFields
  <2>. HIDE DEF q
  <2>3. Sound([q EXCEPT !.asked = Append(@, Asked("id", <<>>, text, TRUE))])
    BY <1>1, <2>2, SoundIdCall
  <2>4. Change(r, q, Asked("id", <<>>, text, TRUE))
    BY <2>1 DEF q
  <2>. QED BY <2>3, <2>4, ChangeStep
<1>4. CASE NullId(r)
  <2>. DEFINE q == [p EXCEPT !.idType = "null", !.isNotification = FALSE]
  <2>1. Change(r, q, Asked("id", <<>>, <<"null">>, FALSE))
    BY <1>4 DEF NullId, p
  <2>2. /\ DOMAIN q = DOMAIN p /\ q.kind = p.kind /\ q.asked = p.asked /\ q.born = p.born
        /\ q.customHeaders = p.customHeaders
        /\ q.isNotification = FALSE /\ q.idType = "null"
    BY <1>1 DEF Fields, RpcFields
  <2>. HIDE DEF q
  <2>3. Sound([q EXCEPT !.asked = Append(@, Asked("id", <<>>, <<"null">>, FALSE))])
    BY <1>1, <2>2, SoundIdCall
  <2>. QED BY <2>1, <2>3, ChangeStep
<1>5. CASE Notification(r)
  <2>1. PICK enable \in BOOLEAN :
          Change(r, [p EXCEPT !.isNotification = enable], Asked("notification", <<>>, <<>>, enable))
    BY <1>5 DEF Notification, p
  <2>2. Sound([[p EXCEPT !.isNotification = enable] EXCEPT
                 !.asked = Append(@, Asked("notification", <<>>, <<>>, enable))])
    BY <1>1, SoundNotification
  <2>. QED BY <2>1, <2>2, ChangeStep
<1>. QED BY <1>2, <1>3, <1>4, <1>5

(* The copy is as sound as the object, and so is what is left of it.       *)
LEMMA MoveStep ==
  ASSUME IInv, NEW r \in DOMAIN reqs, Move(r)
  PROVE  IInv'
<1>. DEFINE left == [reqs[r] EXCEPT !.executed = TRUE, !.moved = TRUE]
            rest == [reqs EXCEPT ![r] = left]
<1>1. Sound(reqs[r]) /\ Sound(left)
  <2>1. Agree(left, reqs[r])
    BY SettingTwo DEF Core, RpcFields
  <2>. HIDE DEF left
  <2>. QED BY <2>1, SoundCopy DEF IInv
<1>2. reqs' = Append(rest, reqs[r])
  <2>1. reqs' = Append([reqs EXCEPT ![r].executed = TRUE, ![r].moved = TRUE], reqs[r])
    BY DEF Move
  <2>2. [reqs EXCEPT ![r].executed = TRUE, ![r].moved = TRUE] = rest
    BY DEF IInv
  <2>. QED BY <2>1, <2>2
<1>. HIDE DEF left
<1>3. IsSequence(rest) /\ \A i \in DOMAIN rest : Sound(rest[i])
  BY <1>1, Exchanged DEF IInv
<1>. HIDE DEF rest
<1>4. IsSequence(reqs') /\ \A i \in DOMAIN reqs' : Sound(reqs'[i])
  BY <1>1, <1>2, <1>3, Extended
<1>. QED BY <1>4, ObjectsStep DEF Move, client

(* The message bears the id that the calls on the object have asked for.   *)
LEMMA ExecuteStep ==
  ASSUME IInv, NEW r \in DOMAIN reqs, Execute(r)
  PROVE  IInv'
<1>. DEFINE o == reqs[r]
            m == Message(o)
<1>1. Sound(o)
  BY DEF IInv
<1>2. /\ m.kind = o.kind /\ m.asked = o.asked /\ m.born = o.born
      /\ m.kind = "rpc" => m.id = RequestId(o)
  BY DEF Message
<1>3. ASSUME m.kind = "rpc" PROVE m.id = IdText(m) /\ m.born \in Nat
  <2>1. IdMembers(o)
    BY <1>1, <1>2, <1>3 DEF Sound
  <2>. HIDE DEF o, m
  <2>2. m.born \in Nat
    BY <1>2, <2>1 DEF IdMembers
  <2>3. CASE IsNotification(o.asked)
    BY <1>2, <1>3, <2>1, <2>3 DEF IdMembers, IdText, RequestId, IsAutomatic
  <2>4. CASE IsAutomatic(o.asked)
    BY <1>2, <1>3, <2>1, <2>4 DEF IdMembers, IdText, RequestId, IsAutomatic, NoIdCall
  <2>5. CASE ~IsNotification(o.asked) /\ ~IsAutomatic(o.asked)
    BY <1>2, <1>3, <2>1, <2>5 DEF IdMembers, IdText, RequestId, IsAutomatic, NoIdCall
  <2>. QED BY <2>2, <2>3, <2>4, <2>5
<1>4. AsSet(m)
  <2>1. m.headers = headers \o OwnHeaders(o) /\ m.set = set /\ m.asked = o.asked
    BY DEF Message
  <2>2. HeadersKept /\ OwnKept(o)
    BY <1>1 DEF IInv, Sound
  <2>. HIDE DEF m, o
  <2>3. Behind(OwnHeaders(o), Custom(o))
    BY <2>2, OwnHeadersIs DEF OwnKept, Kept
  <2>. QED BY <2>1, <2>2, <2>3, MessageAsSet DEF HeadersKept, OwnKept
<1>5. /\ IsSequence(wire')
      /\ \A i \in DOMAIN wire' :
           /\ wire'[i].kind = "rpc" => wire'[i].id = IdText(wire'[i]) /\ wire'[i].born \in Nat
           /\ AsSet(wire'[i])
  <2>1. wire' = Append(wire, m)
    BY DEF Execute
  <2>. HIDE DEF m
  <2>. QED BY <1>3, <1>4, <2>1, Extended DEF IInv
<1>6. IsSequence(reqs') /\ \A i \in DOMAIN reqs' : Sound(reqs'[i])
  <2>. DEFINE sent == [o EXCEPT !.executed = TRUE]
  <2>1. reqs' = [reqs EXCEPT ![r] = sent]
    BY DEF Execute, IInv
  <2>2. Agree(sent, o)
    BY Setting DEF Core, RpcFields
  <2>. HIDE DEF sent
  <2>3. Sound(sent)
    BY <1>1, <2>2, SoundCopy
  <2>. QED BY <2>1, <2>3, Exchanged DEF IInv
<1>7. UNCHANGED <<headers, set, nextId, born>>
  BY DEF Execute, client
<1>. QED BY <1>5, <1>6, <1>7 DEF IInv, HeadersKept

LEMMA Constructed ==
  ASSUME NEW kind, NEW parts
  PROVE  LET o == Fresh(kind, parts)
         IN  /\ DOMAIN o = DOMAIN parts \cup Fields \cup {"path", "pathParams", "queryParams"}
             /\ o.kind = kind /\ o.asked = <<>> /\ o.born = 0
             /\ \A f \in DOMAIN parts :
                  f \notin Fields \cup {"path", "pathParams", "queryParams"} => o[f] = parts[f]
BY DEF Fresh, Fields

LEMMA Empty == IsSequence(<<>>) /\ DOMAIN <<>> = {}
<1>1. IsSequence(<<>>) /\ DOMAIN <<>> = 1 .. 0
  BY Short
<1>. QED BY <1>1

LEMMA InitIInv == Init => IInv
<1>. SUFFICES ASSUME Init PROVE IInv
  OBVIOUS
<1>1. HeadersKept
  BY Empty, KeptNothing DEF Init, HeadersKept
<1>2. born = 0 /\ nextId = (born + 1) % IdCount
  BY BoundsAssumption DEF Init
<1>. QED BY <1>1, <1>2, Empty DEF Init, IInv

(* Objects of the other kinds have no id. *)
LEMMA SoundOther ==
  ASSUME NEW o, Fields \subseteq DOMAIN o, o.kind # "rpc", OwnKept(o)
  PROVE  Sound(o)
BY DEF Sound, OwnKept, Kept

(* A new object without headers. *)
LEMMA OwnNothing ==
  ASSUME NEW o, o.kind \in Kinds, IsSequence(o.asked), \A i \in DOMAIN o.asked : ~IsNaming(o.asked[i]),
         o.kind \in {"rpc", "graphql"} => "customHeaders" \in DOMAIN o /\ o.customHeaders = <<>>
  PROVE  OwnKept(o)
<1>1. Custom(o) = <<>>
  BY DEF Custom
<1>2. Kept(<<>>, o.asked) /\ OneEach(<<>>, o.asked)
  BY KeptNothing
<1>. QED BY <1>1, <1>2 DEF OwnKept

LEMMA NewOtherStep ==
  ASSUME IInv, NewRest \/ NewGraphQL \/ NewSoap
  PROVE  IInv'
<1>1. CASE NewRest
  <2>1. PICK parts : Construct(Fresh("rest", parts))
    BY <1>1 DEF NewRest
  <2>. DEFINE object == Fresh("rest", parts)
  <2>2. Fields \subseteq DOMAIN object /\ object.kind = "rest" /\ object.asked = <<>>
    BY Constructed
  <2>. HIDE DEF object
  <2>3. OwnKept(object)
    BY <2>2, Empty, OwnNothing DEF Kinds
  <2>4. Construct(object)
    BY <2>1 DEF object
  <2>. QED BY <1>1, <2>2, <2>3, <2>4, SoundOther, ConstructStep DEF NewRest
<1>2. ASSUME NEW kind \in {"graphql", "soap"}, NEW parts, NEW call, ~IsNaming(call),
             kind = "graphql" => "customHeaders" \in DOMAIN parts /\ parts["customHeaders"] = <<>>,
             Construct([Fresh(kind, parts) EXCEPT !.asked = <<call>>]), UNCHANGED <<nextId, born>>
      PROVE  IInv'
  <2>. DEFINE o == Fresh(kind, parts)
              object == [o EXCEPT !.asked = <<call>>]
  <2>1. /\ Fields \subseteq DOMAIN o /\ o.kind = kind
        /\ kind = "graphql" => "customHeaders" \in DOMAIN o /\ o.customHeaders = <<>>
    <3>1. /\ DOMAIN o = DOMAIN parts \cup Fields \cup {"path", "pathParams", "queryParams"}
          /\ o.kind = kind
          /\ \A f \in DOMAIN parts :
               f \notin Fields \cup {"path", "pathParams", "queryParams"} => o[f] = parts[f]
      BY DEF Fresh, Fields
    <3>. HIDE DEF o
    <3>. QED BY <1>2, <3>1 DEF Fields
  <2>. HIDE DEF o
  <2>2. /\ Fields \subseteq DOMAIN object /\ object.kind = kind /\ object.asked = <<call>>
        /\ kind = "graphql" => "customHeaders" \in DOMAIN object /\ object.customHeaders = <<>>
    BY <1>2, <2>1 DEF Fields
  <2>. HIDE DEF object
  <2>3. IsSequence(<<call>>) /\ \A i \in DOMAIN <<call>> : ~IsNaming(<<call>>[i])
    <3>1. IsSequence(<<call>>) /\ DOMAIN <<call>> = 1 .. 1 /\ <<call>>[1] = call
      BY Short
    <3>. QED BY <1>2, <3>1
  <2>4. OwnKept(object)
    BY <1>2, <2>2, <2>3, OwnNothing DEF Kinds
  <2>5. Sound(object)
    BY <1>2, <2>2, <2>4, SoundOther
  <2>6. Construct(object)
    BY <1>2 DEF object, o
  <2>. QED BY <1>2, <2>5, <2>6, ConstructStep
<1>3. CASE NewGraphQL
  <2>1. PICK get \in BOOLEAN :
          Construct([Fresh("graphql",
            [get |-> get, document |-> <<>>, operationName |-> <<>>, rawVariables |-> <<>>,
             variables |-> <<>>, customHeaders |-> <<>>])
            EXCEPT !.asked = <<Asked("get", <<>>, <<>>, get)>>])
    BY <1>3 DEF NewGraphQL
  <2>. DEFINE parts == [get |-> get, document |-> <<>>, operationName |-> <<>>, rawVariables |-> <<>>,
                        variables |-> <<>>, customHeaders |-> <<>>]
              call == Asked("get", <<>>, <<>>, get)
  <2>2. "customHeaders" \in DOMAIN parts /\ parts["customHeaders"] = <<>> /\ ~IsNaming(call)
    BY DEF IsNaming, Asked
  <2>3. Construct([Fresh("graphql", parts) EXCEPT !.asked = <<call>>])
    BY <2>1
  <2>. HIDE DEF parts, call
  <2>. QED BY <1>2, <1>3, <2>2, <2>3 DEF NewGraphQL
<1>4. CASE NewSoap
  <2>1. PICK version, parts :
          Construct([Fresh("soap", parts) EXCEPT !.asked = <<Asked("version", <<>>, version, TRUE)>>])
    BY <1>4 DEF NewSoap
  <2>2. ~IsNaming(Asked("version", <<>>, version, TRUE))
    BY DEF IsNaming, Asked
  <2>. QED BY <1>2, <1>4, <2>1, <2>2 DEF NewSoap
<1>. QED BY <1>1, <1>3, <1>4

(* A new request of JSON-RPC has the next id of the counter.               *)
LEMMA NewJsonRpcStep ==
  ASSUME IInv, NewJsonRpc
  PROVE  IInv'
<1>. DEFINE parts == [method |-> <<>>, isNotification |-> FALSE, idType |-> "auto",
                      intId |-> TextOfId(nextId), stringId |-> <<>>, paramMode |-> "none",
                      params |-> <<>>, rawParams |-> <<>>, customHeaders |-> <<>>]
            o == Fresh("rpc", parts)
            object == [o EXCEPT !.born = born + 1]
<1>1. /\ reqs' = Append(reqs, object) /\ UNCHANGED <<wire, headers, set>>
      /\ nextId' = (nextId + 1) % IdCount /\ born' = born + 1
  BY DEF NewJsonRpc, Construct, client
<1>2. /\ Fields \cup RpcFields \subseteq DOMAIN o
      /\ o.kind = "rpc" /\ o.asked = <<>> /\ o.isNotification = FALSE
      /\ o.idType = "auto" /\ o.intId = TextOfId(nextId)
      /\ "customHeaders" \in DOMAIN o /\ o.customHeaders = <<>>
  <2>1. /\ RpcFields \subseteq DOMAIN parts /\ RpcFields \cap Fields = {}
        /\ parts["isNotification"] = FALSE /\ parts["idType"] = "auto"
        /\ parts["intId"] = TextOfId(nextId)
        /\ "customHeaders" \in DOMAIN parts /\ parts["customHeaders"] = <<>>
    BY DEF Fields, RpcFields
  <2>. HIDE DEF parts
  <2>2. /\ DOMAIN o = DOMAIN parts \cup Fields \cup {"path", "pathParams", "queryParams"}
        /\ o.kind = "rpc" /\ o.asked = <<>>
        /\ \A f \in DOMAIN parts :
             f \notin Fields \cup {"path", "pathParams", "queryParams"} => o[f] = parts[f]
    BY DEF Fresh, Fields
  <2>. HIDE DEF o
  <2>. QED BY <2>1, <2>2 DEF Fields, RpcFields
<1>. HIDE DEF o
<1>3. /\ Fields \cup RpcFields \subseteq DOMAIN object
      /\ object.kind = "rpc" /\ object.asked = <<>> /\ object.isNotification = FALSE
      /\ object.idType = "auto" /\ object.intId = TextOfId(nextId)
      /\ object.born = born + 1
      /\ "customHeaders" \in DOMAIN object /\ object.customHeaders = <<>>
  BY <1>2 DEF Fields, RpcFields
<1>. HIDE DEF object
<1>4. ~IsNotification(<<>>) /\ NoIdCall(<<>>)
  BY DEF IsNotification, Latest, Asked, NoIdCall
<1>5. born \in Nat /\ nextId = (born + 1) % IdCount
  BY DEF IInv
<1>6. IdMembers(object)
  BY <1>3, <1>4, <1>5 DEF IdMembers
<1>7. Sound(object)
  <2>1. OwnKept(object)
    BY <1>3, Empty, OwnNothing DEF Kinds
  <2>. QED BY <1>3, <1>6, <2>1, Empty DEF Sound
<1>8. IsSequence(reqs') /\ \A r \in DOMAIN reqs' : Sound(reqs'[r])
  BY <1>1, <1>7, Extended DEF IInv
<1>9. born' \in Nat /\ nextId' = (born' + 1) % IdCount
  <2>1. (((born + 1) % IdCount) + 1) % IdCount = (born + 1 + 1) % IdCount
    BY <1>5, CountedOn
  <2>. QED BY <1>1, <1>5, <2>1
<1>. QED BY <1>1, <1>8, <1>9 DEF IInv, HeadersKept

-----------------------------------------------------------------------------

LEMMA NextIInv == IInv /\ [Next]_vars => IInv'
<1>. SUFFICES ASSUME IInv, [Next]_vars
              PROVE  IInv'
  OBVIOUS
<1>1. CASE SetBaseUrl \/ SetPort
  BY <1>1, ClientStep DEF SetBaseUrl, SetPort
<1>2. CASE SetHeader \/ AddCookie
  BY <1>2, HeaderStep
<1>3. CASE NewRest \/ NewGraphQL \/ NewSoap
  BY <1>3, NewOtherStep
<1>4. CASE NewJsonRpc
  BY <1>4, NewJsonRpcStep
<1>5. ASSUME NEW r \in DOMAIN reqs, Move(r) \/ Setter(r) \/ Execute(r)
      PROVE  IInv'
  BY <1>5, MoveStep, IdSetters, OtherSetters, ExecuteStep
<1>6. CASE UNCHANGED vars
  BY <1>6, ClientStep DEF vars, client
<1>. QED BY <1>1, <1>2, <1>3, <1>4, <1>5, <1>6 DEF Next

LEMMA ImpliesIdsApart == IInv => IdsApart
<1>. SUFFICES ASSUME IInv, NEW i \in DOMAIN wire, NEW j \in DOMAIN wire
              PROVE  LET a == wire[i]
                         b == wire[j]
                     IN  /\ a.kind = "rpc" => a.id = IdText(a)
                         /\ /\ a.kind = "rpc" /\ b.kind = "rpc"
                            /\ IsAutomatic(a.asked) /\ IsAutomatic(b.asked)
                            /\ a.born < b.born /\ b.born - a.born < IdCount
                            => a.id # b.id
  BY DEF IdsApart
<1>. DEFINE a == wire[i]
            b == wire[j]
<1>1. /\ a.kind = "rpc" => a.id = IdText(a) /\ a.born \in Nat
      /\ b.kind = "rpc" => b.id = IdText(b) /\ b.born \in Nat
  BY DEF IInv
<1>. HIDE DEF a, b
<1>2. ASSUME a.kind = "rpc", b.kind = "rpc", IsAutomatic(a.asked), IsAutomatic(b.asked),
             a.born < b.born, b.born - a.born < IdCount
      PROVE  a.id # b.id
  <2>1. a.id = TextOfId(a.born % IdCount) /\ b.id = TextOfId(b.born % IdCount)
    BY <1>1, <1>2 DEF IdText, IsAutomatic
  <2>. QED BY <1>1, <1>2, <2>1, IdsDiffer
<1>. QED BY <1>1, <1>2 DEF a, b

(* Every header that was set on the client or on the request goes out with *)
(* the request, with the value set last and all cookies in one line, each  *)
(* as far as it fits in its array, whatever is constructed, moved and      *)
(* executed in which order, for every size of the arrays and all texts     *)
(* (ESP32HTTPClient.cpp 115-168).                                          *)
THEOREM HeadersSent == Spec => []HeadersAsSet
<1>1. Init => IInv
  BY InitIInv
<1>2. IInv /\ [Next]_vars => IInv'
  BY NextIInv
<1>3. IInv => HeadersAsSet
  BY DEF IInv, HeadersAsSet
<1>. QED BY <1>1, <1>2, <1>3, PTL DEF Spec

(* Each message of JSON-RPC bears the id that the calls on its request have*)
(* asked for last, and requests that nobody gave an id bear different ones *)
(* until the counter has come round, whatever is constructed, moved and    *)
(* executed in which order (JsonRpcRequest.cpp 207, 295-358).              *)
THEOREM RequestsToldApart == Spec => []IdsApart
<1>1. Init => IInv
  BY InitIInv
<1>2. IInv /\ [Next]_vars => IInv'
  BY NextIInv
<1>3. IInv => IdsApart
  BY ImpliesIdsApart
<1>. QED BY <1>1, <1>2, <1>3, PTL DEF Spec

=============================================================================
