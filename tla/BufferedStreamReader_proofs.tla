-------------------- MODULE BufferedStreamReader_proofs --------------------
(* Theorems about BufferedStreamReader, for every wire, buffer size, time  *)
(* limit and clock width that satisfy its assumptions.  The last one needs *)
(* the history of how long the reader has waited (MCBufferedStreamReader). *)
EXTENDS MCBufferedStreamReader, TLAPS

-----------------------------------------------------------------------------
(* The inductive invariant. *)

IsChunk(p) == p \in DOMAIN Wire /\ Kind(p) = "size"

(* The position of the last byte of the chunk whose header is at p. *)
ChunkEnd(p) == HeaderEnd(p) + Wire[p].n

(* With t bytes taken, the reader stands in the header line of a chunk of  *)
(* size n, its LF still to come; *)
InHeader(t, n) ==
  \E p \in DOMAIN Wire : IsChunk(p) /\ Wire[p].n = n /\ p <= t /\ t < HeaderEnd(p)

(* or inside a chunk with n bytes left; *)
InChunk(t, n) ==
  \E p \in DOMAIN Wire : /\ IsChunk(p) /\ Wire[p].n > 0
                         /\ HeaderEnd(p) <= t /\ t + n = ChunkEnd(p)

(* or behind a chunk, with at most k bytes of its CRLF taken; *)
AfterData(t, k) ==
  \E p \in DOMAIN Wire : /\ IsChunk(p) /\ Wire[p].n > 0
                         /\ ChunkEnd(p) <= t /\ t <= ChunkEnd(p) + k

(* or where a header line may begin; *)
AtBoundary(t) == t = 0 \/ AfterData(t, 2)

(* or behind the header of the last chunk. *)
AtEnd(t) ==
  \E p \in DOMAIN Wire : IsChunk(p) /\ Wire[p].n = 0 /\ HeaderEnd(p) <= t

(* The place in the coding that the members and the wait loop stand for. *)
Framing ==
  /\ pc # "caller" => ~eof
  /\ idle => pc # "caller"
  /\ pc = "plain" => Mode = "plain"
  /\ pc \in {"header", "data", "crlf", "final"} => Mode = "chunked"
  /\ Mode = "chunked" =>
       /\ pc = "caller" /\ ~eof =>
            IF chunkRemaining > 0 THEN InChunk(taken, chunkRemaining)
                                  ELSE AtBoundary(taken)
       /\ pc = "header" => /\ chunkRemaining = 0
                           /\ IF hexBuf = Empty THEN AtBoundary(taken)
                                                ELSE InHeader(taken, hexBuf)
       /\ pc = "data"   => chunkRemaining > 0 /\ InChunk(taken, chunkRemaining)
       /\ pc = "crlf"   => /\ chunkRemaining = 0 /\ skip \in 1 .. 2
                           /\ AfterData(taken, 2 - skip)
       /\ pc = "final"  => skip \in 1 .. 2 /\ AtEnd(taken)

(* How far into the wire the buffer has got. *)
Fetched == IF Mode = "string" THEN Len(Wire) ELSE taken

(* The part of buffer b from index p on is, in order, the part of the body *)
(* after byte l and up to byte f.                                          *)
Holds(b, p, l, f) ==
  /\ l <= f
  /\ \A i, j \in 1 .. Len(b) : i < j => b[i] < b[j]
  /\ \A i \in p + 1 .. Len(b) : l < b[i] /\ b[i] <= f
  /\ \A r \in Body : r <= f => r <= l \/ \E i \in p + 1 .. Len(b) : b[i] = r

(* What is buffered and not yet consumed is, in order, the part of the     *)
(* body between the byte consumed last and the last byte taken.            *)
Buffering ==
  /\ Mode = "string" => pc = "caller"
  /\ pc # "caller" => pos = 0
  /\ pc = "plain" => buf = <<>>
  /\ Holds(buf, pos, last, Fetched)

(* A source that has said "no more" has nothing left and asks no more. *)
Ended == reply = NoByte =>
           /\ pc = "caller" /\ pos = Len(buf)
           /\ eof \/ Mode = "string"

IInv == TypeOK /\ Framing /\ Buffering /\ Ended

-----------------------------------------------------------------------------
(* Facts about the wire. *)

(* The items of the wire are well typed. *)
LEMMA WireType ==
  /\ Len(Wire) \in Nat /\ DOMAIN Wire = 1 .. Len(Wire)
  /\ \A p \in DOMAIN Wire : Wire[p].n \in Nat
  /\ \A p \in DOMAIN Wire : Kind(p) \in {"size", "ext", "CR", "LF", "data"}
  /\ Body \subseteq DOMAIN Wire
  /\ Body \subseteq Nat \ {0}
<1>. DEFINE R == [kind : {"size", "ext", "CR", "LF", "data"}, n : Nat]
<1>1. Wire \in Seq(R)
  BY WireAssumption
<1> HIDE DEF R
<1>2. Len(Wire) \in Nat /\ DOMAIN Wire = 1 .. Len(Wire)
  BY <1>1
<1>3. \A p \in DOMAIN Wire : Wire[p] \in R
  BY <1>1, <1>2
<1>4. \A p \in DOMAIN Wire : /\ Wire[p].n \in Nat
                             /\ Wire[p].kind \in {"size", "ext", "CR", "LF", "data"}
  BY <1>3 DEF R
<1>5. Body \subseteq DOMAIN Wire
  BY DEF Body
<1>. QED BY <1>2, <1>4, <1>5 DEF Kind

(* The header of a chunk is size, possibly ext, CR, LF. *)
LEMMA HeaderShape ==
  ASSUME Mode = "chunked", NEW p, IsChunk(p)
  PROVE  /\ p \in 1 .. Len(Wire) /\ Wire[p].n \in Nat
         /\ HeaderEnd(p) \in DOMAIN Wire
         /\ \/ /\ HeaderEnd(p) = p + 2
               /\ Kind(p + 1) = "CR" /\ Kind(p + 2) = "LF"
            \/ /\ HeaderEnd(p) = p + 3
               /\ Kind(p + 1) = "ext" /\ Kind(p + 2) = "CR" /\ Kind(p + 3) = "LF"
<1>1. WellFramed
  BY WireAssumption
<1>2. /\ HeaderEnd(p) \in DOMAIN Wire
      /\ Kind(HeaderEnd(p) - 1) = "CR" /\ Kind(HeaderEnd(p)) = "LF"
  BY <1>1 DEF WellFramed, IsChunk
<1>3. p \in 1 .. Len(Wire) /\ Wire[p].n \in Nat
  BY WireType DEF IsChunk
<1>4. CASE Kind(p + 1) = "ext"
  BY <1>2, <1>3, <1>4 DEF HeaderEnd
<1>5. CASE Kind(p + 1) # "ext"
  BY <1>2, <1>3, <1>5 DEF HeaderEnd
<1>. QED BY <1>4, <1>5

(* A chunk that is not the last: its data, its CRLF, the next header. *)
LEMMA ChunkShape ==
  ASSUME Mode = "chunked", NEW p, IsChunk(p), Wire[p].n > 0
  PROVE  /\ ChunkEnd(p) + 3 \in DOMAIN Wire
         /\ \A r \in HeaderEnd(p) + 1 .. ChunkEnd(p) : Kind(r) = "data"
         /\ Kind(ChunkEnd(p) + 1) = "CR" /\ Kind(ChunkEnd(p) + 2) = "LF"
         /\ IsChunk(ChunkEnd(p) + 3)
BY WireAssumption DEF WellFramed, IsChunk, ChunkEnd

(* At a boundary the next item is the CRLF of the chunk before or a size. *)
LEMMA BoundaryStep ==
  ASSUME Mode = "chunked", NEW t \in Nat, t + 1 \in DOMAIN Wire, AtBoundary(t)
  PROVE  \/ /\ Kind(t + 1) \in {"CR", "LF"}
            /\ AtBoundary(t + 1)
         \/ /\ Kind(t + 1) = "size"
            /\ InHeader(t + 1, Wire[t + 1].n)
<1>1. ASSUME IsChunk(t + 1)
      PROVE  Kind(t + 1) = "size" /\ InHeader(t + 1, Wire[t + 1].n)
  BY <1>1, HeaderShape DEF IsChunk, InHeader
<1>2. CASE t = 0
  BY <1>1, <1>2, WireAssumption DEF WellFramed, IsChunk
<1>3. CASE AfterData(t, 2)
  <2>1. PICK p \in DOMAIN Wire : /\ IsChunk(p) /\ Wire[p].n > 0
                                 /\ ChunkEnd(p) <= t /\ t <= ChunkEnd(p) + 2
    BY <1>3 DEF AfterData
  <2>2. ChunkEnd(p) \in Nat
    BY <2>1, HeaderShape, WireType DEF ChunkEnd
  <2>3. CASE t = ChunkEnd(p) + 2
    BY <1>1, <2>1, <2>2, <2>3, ChunkShape
  <2>4. CASE t < ChunkEnd(p) + 2
    <3>1. Kind(t + 1) \in {"CR", "LF"}
      <4>1. t + 1 = ChunkEnd(p) + 1 \/ t + 1 = ChunkEnd(p) + 2
        BY <2>1, <2>2, <2>4
      <4>. QED BY <2>1, <4>1, ChunkShape
    <3>2. AfterData(t + 1, 2)
      BY <2>1, <2>2, <2>4 DEF AfterData
    <3>. QED BY <3>1, <3>2 DEF AtBoundary
  <2>. QED BY <2>1, <2>2, <2>3, <2>4
<1>. QED BY <1>2, <1>3 DEF AtBoundary

(* In a header line the next item is not data, and its LF ends it. *)
LEMMA HeaderStep ==
  ASSUME Mode = "chunked", NEW t \in Nat, NEW n \in Nat, InHeader(t, n)
  PROVE  /\ Kind(t + 1) \in {"ext", "CR", "LF"}
         /\ Kind(t + 1) # "LF" => InHeader(t + 1, n)
         /\ Kind(t + 1) = "LF" => IF n = 0 THEN AtEnd(t + 1) ELSE InChunk(t + 1, n)
<1>1. PICK p \in DOMAIN Wire : /\ IsChunk(p) /\ Wire[p].n = n
                               /\ p <= t /\ t < HeaderEnd(p)
  BY DEF InHeader
<1>2. /\ p \in Nat /\ HeaderEnd(p) \in Nat
      /\ \/ /\ HeaderEnd(p) = p + 2
            /\ Kind(p + 1) = "CR" /\ Kind(p + 2) = "LF"
         \/ /\ HeaderEnd(p) = p + 3
            /\ Kind(p + 1) = "ext" /\ Kind(p + 2) = "CR" /\ Kind(p + 3) = "LF"
  BY <1>1, HeaderShape, WireType
<1>3. /\ Kind(t + 1) \in {"ext", "CR", "LF"}
      /\ Kind(t + 1) # "LF" => t + 1 < HeaderEnd(p)
      /\ Kind(t + 1) = "LF" => t + 1 = HeaderEnd(p)
  <2>1. t + 1 = p + 1 \/ t + 1 = p + 2 \/ t + 1 = p + 3
    BY <1>1, <1>2
  <2>. QED BY <1>1, <1>2, <2>1
<1>4. Kind(t + 1) # "LF" => InHeader(t + 1, n)
  BY <1>1, <1>2, <1>3 DEF InHeader
<1>5. ASSUME Kind(t + 1) = "LF", n = 0 PROVE AtEnd(t + 1)
  BY <1>1, <1>2, <1>3, <1>5 DEF AtEnd
<1>6. ASSUME Kind(t + 1) = "LF", n # 0 PROVE InChunk(t + 1, n)
  BY <1>1, <1>2, <1>3, <1>6 DEF InChunk, ChunkEnd
<1>. QED BY <1>3, <1>4, <1>5, <1>6

(* The bytes left of a chunk are data of the body, and taking k of them    *)
(* leaves the reader inside the chunk or right behind it.                  *)
LEMMA ChunkStep ==
  ASSUME Mode = "chunked", NEW t \in Nat, NEW n \in Nat, InChunk(t, n)
  PROVE  /\ \A r \in t + 1 .. t + n : r \in Body
         /\ \A k \in 0 .. n : InChunk(t + k, n - k)
         /\ AfterData(t + n, 0)
<1>1. PICK p \in DOMAIN Wire : /\ IsChunk(p) /\ Wire[p].n > 0
                               /\ HeaderEnd(p) <= t /\ t + n = ChunkEnd(p)
  BY DEF InChunk
<1>2. /\ HeaderEnd(p) \in Nat /\ ChunkEnd(p) \in Nat
      /\ ChunkEnd(p) + 3 \in 1 .. Len(Wire)
      /\ \A r \in HeaderEnd(p) + 1 .. ChunkEnd(p) : Kind(r) = "data"
  BY <1>1, HeaderShape, ChunkShape, WireType DEF ChunkEnd
<1>3. \A r \in t + 1 .. t + n : r \in Body
  <2>1. \A r \in t + 1 .. t + n : r \in DOMAIN Wire /\ Kind(r) = "data"
    BY <1>1, <1>2, WireType
  <2>. QED BY <2>1 DEF Body
<1>4. \A k \in 0 .. n : InChunk(t + k, n - k)
  BY <1>1, <1>2 DEF InChunk
<1>5. AfterData(t + n, 0)
  BY <1>1, <1>2 DEF AfterData
<1>. QED BY <1>3, <1>4, <1>5

(* Behind a chunk the next items are its CRLF. *)
LEMMA AfterDataStep ==
  ASSUME Mode = "chunked", NEW t \in Nat, NEW k \in 0 .. 1, AfterData(t, k)
  PROVE  /\ Kind(t + 1) \in {"CR", "LF"}
         /\ AfterData(t + 1, k + 1) /\ AfterData(t, k + 1)
         /\ AtBoundary(t + 1) /\ AtBoundary(t)
<1>1. PICK p \in DOMAIN Wire : /\ IsChunk(p) /\ Wire[p].n > 0
                               /\ ChunkEnd(p) <= t /\ t <= ChunkEnd(p) + k
  BY DEF AfterData
<1>2. /\ ChunkEnd(p) \in Nat
      /\ Kind(ChunkEnd(p) + 1) = "CR" /\ Kind(ChunkEnd(p) + 2) = "LF"
  BY <1>1, HeaderShape, ChunkShape, WireType DEF ChunkEnd
<1>3. Kind(t + 1) \in {"CR", "LF"}
  <2>1. t + 1 = ChunkEnd(p) + 1 \/ t + 1 = ChunkEnd(p) + 2
    BY <1>1, <1>2
  <2>. QED BY <1>2, <2>1
<1>4. AfterData(t + 1, k + 1) /\ AfterData(t, k + 1)
  BY <1>1, <1>2 DEF AfterData
<1>5. AfterData(t + 1, 2) /\ AfterData(t, 2)
  BY <1>1, <1>2 DEF AfterData
<1>. QED BY <1>3, <1>4, <1>5 DEF AtBoundary

(* Behind the last header no data and no further header follows. *)
LEMMA EndStep ==
  ASSUME Mode = "chunked", NEW t \in Nat, AtEnd(t)
  PROVE  /\ t + 1 \notin Body
         /\ AtEnd(t + 1)
         /\ \A r \in DOMAIN Wire : Kind(r) \in {"data", "size"} => r <= t
<1>1. PICK p \in DOMAIN Wire : IsChunk(p) /\ Wire[p].n = 0 /\ HeaderEnd(p) <= t
  BY DEF AtEnd
<1>2. HeaderEnd(p) \in Nat
  BY <1>1, HeaderShape, WireType
<1>3. \A r \in DOMAIN Wire : r > HeaderEnd(p) => Kind(r) \notin {"data", "size"}
  BY <1>1, WireAssumption DEF WellFramed, IsChunk
<1>. QED BY <1>1, <1>2, <1>3, WireType DEF AtEnd, Body

-----------------------------------------------------------------------------
(* Facts about the buffer. *)

(* The items of a concatenation. *)
LEMMA Concatenation ==
  ASSUME NEW S, NEW s \in Seq(S), NEW t \in Seq(S)
  PROVE  /\ s \o t \in Seq(S) /\ Len(s \o t) = Len(s) + Len(t)
         /\ \A i \in 1 .. Len(s) + Len(t) :
              (s \o t)[i] = IF i <= Len(s) THEN s[i] ELSE t[i - Len(s)]
OBVIOUS

(* Taking an item that is not of the body leaves the buffer complete. *)
LEMMA HoldsSkip ==
  ASSUME NEW b \in Seq(Body), NEW p \in 0 .. Len(b), NEW l \in Body \cup {0},
         NEW f \in Nat, Holds(b, p, l, f), f + 1 \notin Body
  PROVE  Holds(b, p, l, f + 1)
<1>1. \A i \in 1 .. Len(b) : b[i] \in Nat
  BY WireType
<1>2. \A r \in Body : r <= f + 1 => r <= f
  BY WireType
<1>3. l \in Nat
  BY WireType
<1>. QED BY <1>1, <1>2, <1>3 DEF Holds

(* Appending the next k items, all of the body, keeps the buffer in order. *)
LEMMA HoldsAppend ==
  ASSUME NEW b \in Seq(Body), NEW l \in Body \cup {0}, NEW f \in Nat, NEW k \in Nat,
         Holds(b, 0, l, f), NEW c \in Seq(Body), Len(c) = Len(b) + k,
         \A i \in 1 .. Len(c) : c[i] = IF i <= Len(b) THEN b[i] ELSE f + (i - Len(b))
  PROVE  Holds(c, 0, l, f + k)
<1>2. Len(c) = Len(b) + k
  OBVIOUS
<1>3. \A i \in 1 .. Len(c) : c[i] = IF i <= Len(b) THEN b[i] ELSE f + (i - Len(b))
  OBVIOUS
<1>4. /\ Len(b) \in Nat
      /\ \A i \in 1 .. Len(b) : b[i] \in Nat
      /\ l \in Nat
  BY WireType
<1>5. \A i, j \in 1 .. Len(c) : i < j => c[i] < c[j]
  BY <1>2, <1>3, <1>4 DEF Holds
<1>6. \A i \in 1 .. Len(c) : l < c[i] /\ c[i] <= f + k
  BY <1>2, <1>3, <1>4 DEF Holds
<1>7. ASSUME NEW r \in Body, r <= f + k, ~ r <= l
      PROVE  \E i \in 1 .. Len(c) : c[i] = r
  <2>1. CASE r <= f
    <3>1. PICK i \in 1 .. Len(b) : b[i] = r
      BY <1>7, <2>1 DEF Holds
    <3>. QED BY <1>2, <1>3, <1>4, <3>1
  <2>2. CASE ~ r <= f
    <3>1. r \in Nat
      BY WireType
    <3>2. r - f + Len(b) \in 1 .. Len(c) /\ c[r - f + Len(b)] = r
      BY <1>2, <1>3, <1>4, <1>7, <2>2, <3>1
    <3>. QED BY <3>2
  <2>. QED BY <2>1, <2>2
<1>8. l <= f + k
  BY <1>4 DEF Holds
<1>9. Holds(c, 0, l, f + k)
  <2>1. \A r \in Body : r <= f + k => r <= l \/ \E i \in 1 .. Len(c) : c[i] = r
    BY <1>7
  <2>2. 0 + 1 = 1
    OBVIOUS
  <2>. QED BY <1>5, <1>6, <1>8, <2>1, <2>2, Zenon DEF Holds
<1>. QED BY <1>9

(* A call that returns gives the next byte of the buffer, and counts it as *)
(* consumed if it is read().                                               *)
LEMMA ReturnStep ==
  ASSUME NEW op, NEW b \in Seq(Body), NEW p \in 0 .. Len(b), NEW f \in Nat,
         last \in Body \cup {0}, Holds(b, p, last, f), Return(op, b, p)
  PROVE  /\ buf' = b /\ pc' = "caller" /\ pos' \in 0 .. Len(b)
         /\ last' \in Body \cup {0}
         /\ reply' \in Body \cup {NoByte, Abstract!Unasked}
         /\ Holds(b, pos', last', f)
         /\ reply' = NoByte => p = Len(b) /\ pos' = Len(b)
         /\ hexBuf' = Empty /\ skip' = 0 /\ start' = 0 /\ idle' = FALSE
<1>. USE DEF NoByte, Abstract!NoByte, Abstract!Unasked
<1>1. /\ Len(b) \in Nat /\ last \in Nat
      /\ \A i \in 1 .. Len(b) : b[i] \in Body /\ b[i] \in Nat \ {0}
  BY WireType
<1>2. CASE p < Len(b) /\ op = "read"
  <2>1. /\ buf' = b /\ pc' = "caller" /\ pos' = p + 1
        /\ last' = b[p + 1] /\ reply' = b[p + 1]
        /\ hexBuf' = Empty /\ skip' = 0 /\ start' = 0 /\ idle' = FALSE
    BY <1>2 DEF Return
  <2>2. p + 1 \in 1 .. Len(b)
    BY <1>1, <1>2
  <2>3. Holds(b, p + 1, b[p + 1], f)
    <3>1. \A r \in Body : r <= last => r <= b[p + 1]
      BY <1>1, <2>2, WireType DEF Holds
    <3>. QED BY <1>1, <2>2, <3>1 DEF Holds
  <2>. QED BY <1>1, <2>1, <2>2, <2>3
<1>3. CASE ~(p < Len(b) /\ op = "read")
  <2>1. /\ buf' = b /\ pc' = "caller" /\ pos' = p /\ last' = last
        /\ reply' = IF p < Len(b) THEN b[p + 1] ELSE NoByte
        /\ hexBuf' = Empty /\ skip' = 0 /\ start' = 0 /\ idle' = FALSE
    BY <1>3 DEF Return
  <2>. QED BY <1>1, <2>1
<1>. QED BY <1>2, <1>3

(* ... and that byte is the one the abstract source gives. *)
LEMMA ReturnAnswers ==
  ASSUME NEW op, NEW b \in Seq(Body), NEW p \in 0 .. Len(b), NEW f \in Nat,
         last \in Body \cup {0}, Holds(b, p, last, f), Return(op, b, p),
         p < Len(b) => reply # NoByte
  PROVE  Abstract!Next
<1>1. /\ Len(b) \in Nat /\ last \in Nat
      /\ \A i \in 1 .. Len(b) : b[i] \in Body /\ b[i] \in Nat
  BY WireType
<1>2. CASE p < Len(b)
  <2>1. p + 1 \in 1 .. Len(b) /\ p + 1 \in p + 1 .. Len(b)
    BY <1>1, <1>2
  <2>2. last < b[p + 1] /\ b[p + 1] <= f
    BY <2>1 DEF Holds
  <2>3. ASSUME NEW r \in Body, last < r PROVE b[p + 1] <= r
    <3>1. r \in Nat
      BY WireType
    <3>2. CASE r <= f
      <4>1. PICK i \in p + 1 .. Len(b) : b[i] = r
        BY <1>1, <2>3, <3>1, <3>2 DEF Holds
      <4>2. CASE i = p + 1
        BY <1>1, <2>1, <4>1, <4>2
      <4>3. CASE i # p + 1
        <5>1. i \in 1 .. Len(b) /\ p + 1 < i
          BY <1>1, <4>3
        <5>2. b[p + 1] < b[i]
          BY <2>1, <5>1 DEF Holds
        <5>. QED BY <1>1, <2>1, <4>1, <5>1, <5>2
      <4>. QED BY <4>2, <4>3
    <3>3. CASE ~(r <= f)
      BY <1>1, <2>1, <2>2, <3>1, <3>3
    <3>. QED BY <3>2, <3>3
  <2>4. Abstract!Follows(last, b[p + 1])
    BY <1>1, <2>1, <2>2, <2>3 DEF Abstract!Follows
  <2>5. reply' = b[p + 1] /\ last' \in {last, b[p + 1]}
    BY <1>2 DEF Return
  <2>6. Abstract!Answer(b[p + 1])
    BY <1>2, <2>4, <2>5 DEF Abstract!Answer, NoByte
  <2>. QED BY <1>1, <2>1, <2>6 DEF Abstract!Next
<1>3. CASE ~(p < Len(b))
  BY <1>3 DEF Return, NoByte, Abstract!Next, Abstract!End
<1>. QED BY <1>2, <1>3

-----------------------------------------------------------------------------
(* Every step keeps the inductive invariant, and is a step of the abstract *)
(* source or leaves what the caller sees alone.                            *)
Sim == [Abstract!Next]_caller


(* The invariant holds initially; a reader of a string has it all at hand. *)
LEMMA InitIInv == Init => IInv
<1>. SUFFICES ASSUME Init PROVE IInv
  OBVIOUS
<1>. USE DEF Init, NoByte, Abstract!NoByte, Abstract!Unasked
<1>1. buf \in Seq(Body) /\ (Mode # "string" => buf = <<>>)
  <2>1. CASE Mode = "string"
    <3>1. Body = 1 .. Len(Wire) /\ Len(Wire) \in Nat
      BY <2>1, WireType DEF Body
    <3>. QED BY <2>1, <3>1, WireType
  <2>2. CASE Mode # "string"
    BY <2>2
  <2>. QED BY <2>1, <2>2
<1>2. TypeOK
  <2>1. 0 \in 0 .. CLOCK_MOD - 1 /\ 0 \in 0 .. Len(Wire) /\ 0 \in 0 .. Len(buf)
    BY <1>1, SizeAssumption, WireType
  <2>2. Mode # "string" => Len(buf) <= BUF_SIZE
    BY <1>1, SizeAssumption
  <2>3. arrived \in 0 .. Len(Wire) /\ taken \in 0 .. arrived
    BY <2>1
  <2>6. broken \in BOOLEAN /\ eof \in BOOLEAN /\ idle \in BOOLEAN
    OBVIOUS
  <2>4. /\ now \in 0 .. CLOCK_MOD - 1 /\ start \in 0 .. CLOCK_MOD - 1
        /\ pos \in 0 .. Len(buf) /\ chunkRemaining \in Nat
    BY <2>1
  <2>5. /\ pc \in Waits \cup {"caller"} /\ call \in Calls
        /\ hexBuf \in Nat \cup {Empty} /\ skip \in 0 .. 2
        /\ last \in Body \cup {0}
        /\ reply \in Body \cup {NoByte, Abstract!Unasked}
    BY DEF Calls
  <2>. QED BY <1>1, <2>2, <2>3, <2>4, <2>5, <2>6 DEF TypeOK
<1>3. Framing
  BY DEF Framing, AtBoundary
<1>4. Buffering
  <2>1. CASE Mode = "string"
    <3>1. Body = 1 .. Len(Wire) /\ Len(Wire) \in Nat
      BY <2>1, WireType DEF Body
    <3>2. Len(buf) = Len(Wire) /\ \A i \in 1 .. Len(Wire) : buf[i] = i
      BY <2>1, WireType
    <3>. QED BY <2>1, <3>1, <3>2 DEF Buffering, Holds, Fetched
  <2>2. CASE Mode # "string"
    <3>1. Len(buf) = 0 /\ Fetched = 0
      BY <1>1, <2>2 DEF Fetched
    <3>. QED BY <2>2, <3>1, WireType DEF Buffering, Holds
  <2>. QED BY <2>1, <2>2
<1>5. Ended
  BY DEF Ended
<1>. QED BY <1>2, <1>3, <1>4, <1>5 DEF IInv

(* The network and the clock do not touch the reader. *)
LEMMA EnvironmentStep ==
  ASSUME IInv, Arrive \/ Break \/ Tick
  PROVE  IInv' /\ Sim
<1>1. TypeOK'
  <2>1. CASE Arrive
    BY <2>1, WireType DEF IInv, TypeOK, Arrive
  <2>2. CASE Break
    BY <2>2 DEF IInv, TypeOK, Break
  <2>3. CASE Tick
    <3>1. (now + 1) % CLOCK_MOD \in 0 .. CLOCK_MOD - 1
      BY SizeAssumption DEF IInv, TypeOK
    <3>. QED BY <2>3, <3>1 DEF IInv, TypeOK, Tick
  <2>. QED BY <2>1, <2>2, <2>3
<1>2. UNCHANGED <<taken, buf, pos, chunkRemaining, eof, pc, hexBuf, skip, idle, last, reply>>
  BY DEF Arrive, Break, Tick
<1>3. Framing' /\ Buffering' /\ Ended'
  BY <1>2 DEF IInv, Framing, Buffering, Fetched, Ended
<1>. QED BY <1>1, <1>2, <1>3 DEF IInv, Sim, caller

(* The two halves of an unsuccessful poll change nothing but idle. *)
LEMMA PollStep ==
  ASSUME IInv, PollEmpty \/ PollAgain
  PROVE  IInv' /\ Sim
<1>1. /\ idle' \in BOOLEAN
      /\ idle' => pc # "caller"
      /\ UNCHANGED <<net, taken, buf, pos, chunkRemaining, eof, pc, call, hexBuf,
                     skip, start, caller>>
  BY DEF PollEmpty, PollAgain
<1>2. TypeOK'
  BY <1>1 DEF IInv, TypeOK, net, caller
<1>3. Framing' /\ Buffering' /\ Ended'
  BY <1>1 DEF IInv, Framing, Buffering, Fetched, Ended, caller
<1>. QED BY <1>1, <1>2, <1>3 DEF IInv, Sim

(* A step of the reader keeps the types if it keeps those of what it sets. *)
LEMMA ReaderType ==
  ASSUME TypeOK, UNCHANGED net, call' \in Calls,
         taken' \in 0 .. arrived, chunkRemaining' \in Nat, eof' \in BOOLEAN,
         buf' \in Seq(Body), Mode # "string" => Len(buf') <= BUF_SIZE,
         pos' \in 0 .. Len(buf'), pc' \in Waits \cup {"caller"},
         hexBuf' \in Nat \cup {Empty}, skip' \in 0 .. 2,
         start' \in {0, now}, idle' = FALSE,
         last' \in Body \cup {0}, reply' \in Body \cup {NoByte, Abstract!Unasked}
  PROVE  TypeOK'
<1>1. UNCHANGED <<arrived, broken, now>>
  BY DEF net
<1>2. now \in 0 .. CLOCK_MOD - 1 /\ 0 \in 0 .. CLOCK_MOD - 1
  BY SizeAssumption DEF TypeOK
<1>3. start' \in 0 .. CLOCK_MOD - 1 /\ now' \in 0 .. CLOCK_MOD - 1
  BY <1>1, <1>2
<1>4. arrived' \in 0 .. Len(Wire) /\ broken' \in BOOLEAN /\ idle' \in BOOLEAN
  BY <1>1 DEF TypeOK
<1>5. taken' \in 0 .. arrived'
  BY <1>1
<1>. QED BY <1>3, <1>4, <1>5 DEF TypeOK

(* A refill that ends the body hands over what it has. *)
LEMMA HandOver ==
  ASSUME IInv, pc # "caller", UNCHANGED <<net, call>>, NEW b \in Seq(Body),
         Return(call, b, 0), eof' \in BOOLEAN, b # <<>> \/ eof',
         taken' \in 0 .. arrived, chunkRemaining' \in Nat,
         Len(b) <= BUF_SIZE, Holds(b, 0, last, taken'),
         Mode = "chunked" => eof'
  PROVE  IInv' /\ Sim
<1>1. /\ Mode # "string" /\ taken' \in Nat /\ last \in Body \cup {0}
      /\ 0 \in 0 .. Len(b)
  BY DEF IInv, Buffering, TypeOK
<1>2. /\ buf' = b /\ pc' = "caller" /\ pos' \in 0 .. Len(b)
      /\ last' \in Body \cup {0}
      /\ reply' \in Body \cup {NoByte, Abstract!Unasked}
      /\ Holds(b, pos', last', taken')
      /\ reply' = NoByte => 0 = Len(b) /\ pos' = Len(b)
      /\ hexBuf' = Empty /\ skip' = 0 /\ start' = 0 /\ idle' = FALSE
  BY <1>1, ReturnStep
<1>3. TypeOK'
  <2>1. /\ UNCHANGED net /\ TypeOK /\ call' \in Calls
        /\ buf' \in Seq(Body) /\ Len(buf') <= BUF_SIZE
        /\ pos' \in 0 .. Len(buf') /\ pc' \in Waits \cup {"caller"}
        /\ hexBuf' \in Nat \cup {Empty} /\ skip' \in 0 .. 2 /\ start' \in {0, now}
    BY <1>2 DEF IInv, TypeOK
  <2>. QED BY <1>2, <2>1, ReaderType, Zenon
<1>4. Framing'
  BY <1>2 DEF Framing
<1>5. Buffering'
  BY <1>1, <1>2 DEF Buffering, Fetched
<1>6. Ended'
  <2>1. Len(b) = 0 => b = <<>>
    OBVIOUS
  <2>. QED BY <1>2, <2>1 DEF Ended
<1>7. Sim
  <2>1. reply # NoByte
    BY DEF IInv, Ended
  <2>. QED BY <1>1, <2>1, ReturnAnswers DEF Sim
<1>. QED BY <1>3, <1>4, <1>5, <1>6, <1>7 DEF IInv

(* A call is answered from the buffer, or refill() is entered with nothing *)
(* buffered that the caller has not consumed.                              *)
LEMMA CallStep ==
  ASSUME IInv, NEW op \in Calls, Call(op)
  PROVE  IInv' /\ Sim
<1>1. /\ pc = "caller" /\ call' = op /\ UNCHANGED <<net, taken, chunkRemaining, eof>>
  BY DEF Call
<1>2. /\ taken \in 0 .. arrived /\ chunkRemaining \in Nat /\ eof \in BOOLEAN
      /\ buf \in Seq(Body) /\ pos \in 0 .. Len(buf) /\ last \in Body \cup {0}
      /\ Fetched \in Nat /\ Fetched' = Fetched
  <2>1. /\ taken \in 0 .. arrived /\ arrived \in Nat /\ Len(Wire) \in Nat
    BY WireType DEF IInv, TypeOK
  <2>2. Fetched \in Nat /\ Fetched' = Fetched
    BY <1>1, <2>1 DEF Fetched
  <2>. QED BY <2>2 DEF IInv, TypeOK
<1>3. CASE pos < Len(buf) \/ eof \/ Mode = "string"
  <2>1. Return(op, buf, pos) /\ Holds(buf, pos, last, Fetched)
    BY <1>3 DEF Call, IInv, Buffering
  <2>2. /\ buf' = buf /\ pc' = "caller" /\ pos' \in 0 .. Len(buf)
        /\ last' \in Body \cup {0}
        /\ reply' \in Body \cup {NoByte, Abstract!Unasked}
        /\ Holds(buf, pos', last', Fetched)
        /\ reply' = NoByte => pos = Len(buf) /\ pos' = Len(buf)
        /\ hexBuf' = Empty /\ skip' = 0 /\ start' = 0 /\ idle' = FALSE
    BY <1>2, <2>1, ReturnStep
  <2>3. TypeOK'
    <3>1. Mode # "string" => Len(buf') <= BUF_SIZE
      BY <2>2 DEF IInv, TypeOK
    <3>2. call' \in Calls /\ taken' \in 0 .. arrived /\ chunkRemaining' \in Nat
      BY <1>1, <1>2
    <3>3. eof' \in BOOLEAN /\ UNCHANGED net /\ TypeOK
      BY <1>1, <1>2 DEF IInv
    <3>4. /\ buf' \in Seq(Body) /\ pos' \in 0 .. Len(buf')
          /\ pc' \in Waits \cup {"caller"}
          /\ hexBuf' \in Nat \cup {Empty} /\ skip' \in 0 .. 2 /\ start' \in {0, now}
      BY <1>2, <2>2
    <3>. QED BY <2>2, <3>1, <3>2, <3>3, <3>4, ReaderType, Zenon
  <2>4. Framing'
    BY <1>1, <2>2 DEF IInv, Framing
  <2>5. Buffering'
    BY <1>2, <2>2 DEF Buffering
  <2>6. Ended'
    BY <1>1, <1>2, <1>3, <2>2 DEF Ended
  <2>7. Sim
    <3>1. pos < Len(buf) => reply # NoByte
      BY <1>2 DEF IInv, Ended
    <3>. QED BY <1>2, <2>1, <3>1, ReturnAnswers DEF Sim
  <2>. QED BY <2>3, <2>4, <2>5, <2>6, <2>7 DEF IInv
<1>4. CASE ~(pos < Len(buf) \/ eof \/ Mode = "string")
  <2>1. /\ buf' = <<>> /\ pos' = 0 /\ hexBuf' = Empty
        /\ pc' = IF Mode = "plain" THEN "plain"
                 ELSE IF chunkRemaining = 0 THEN "header" ELSE "data"
        /\ start' = now /\ idle' = FALSE /\ UNCHANGED <<skip, last, reply>>
    BY <1>4 DEF Call, WaitIn, caller
  <2>2. pos = Len(buf) /\ ~eof /\ Mode \in {"plain", "chunked"} /\ Fetched = taken
    <3>1. Len(buf) \in Nat
      BY <1>2
    <3>. QED BY <1>2, <1>4, <3>1, WireAssumption DEF Modes, Fetched
  <2>3. TypeOK'
    <3>1. /\ buf' \in Seq(Body) /\ Len(buf') = 0 /\ 0 <= BUF_SIZE
      BY <2>1, SizeAssumption
    <3>2. /\ skip' \in 0 .. 2 /\ reply' \in Body \cup {NoByte, Abstract!Unasked}
          /\ last' \in Body \cup {0}
      BY <2>1 DEF IInv, TypeOK
    <3>3. pc' \in Waits \cup {"caller"} /\ pos' \in 0 .. Len(buf')
      BY <2>1, <3>1 DEF Waits
    <3>4. call' \in Calls /\ taken' \in 0 .. arrived /\ chunkRemaining' \in Nat
      BY <1>1, <1>2
    <3>5. eof' \in BOOLEAN /\ UNCHANGED net /\ TypeOK
      BY <1>1, <1>2 DEF IInv
    <3>6. /\ Mode # "string" => Len(buf') <= BUF_SIZE
          /\ hexBuf' \in Nat \cup {Empty} /\ start' \in {0, now} /\ idle' = FALSE
      BY <2>1, <3>1
    <3>. QED BY <3>1, <3>2, <3>3, <3>4, <3>5, <3>6, ReaderType, Zenon
  <2>4. Framing'
    BY <1>1, <1>2, <2>1, <2>2 DEF IInv, Framing
  <2>5. Buffering'
    <3>1. Holds(<<>>, 0, last, taken)
      BY <1>2, <2>2 DEF IInv, Buffering, Holds
    <3>. QED BY <1>1, <2>1, <2>2, <3>1 DEF Buffering, Fetched
  <2>6. Ended'
    BY <1>1, <2>1, <2>2 DEF IInv, Ended
  <2>. QED BY <2>1, <2>3, <2>4, <2>5, <2>6 DEF IInv, Sim, caller
<1>. QED BY <1>3, <1>4

(* A wait loop is left for another one: what the members stand for has to  *)
(* be re-established, the rest is common to all such steps.                *)
LEMMA WaitStep ==
  ASSUME IInv, NEW w \in Waits, WaitIn(w), UNCHANGED <<net, eof, call, caller>>,
         pc # "caller", taken' \in 0 .. arrived, chunkRemaining' \in Nat,
         hexBuf' \in Nat \cup {Empty}, skip' \in 0 .. 2, pos' = 0,
         buf' \in Seq(Body), Len(buf') <= BUF_SIZE,
         Holds(buf', 0, last, taken'), w # "plain", Framing'
  PROVE  IInv' /\ Sim
<1>1. TypeOK'
  <2>1. /\ call' \in Calls /\ eof' \in BOOLEAN
        /\ last' \in Body \cup {0} /\ reply' \in Body \cup {NoByte, Abstract!Unasked}
    BY DEF IInv, TypeOK, caller
  <2>2. /\ pos' \in 0 .. Len(buf') /\ pc' \in Waits \cup {"caller"}
        /\ start' \in {0, now} /\ idle' = FALSE /\ UNCHANGED net /\ TypeOK
    BY DEF WaitIn, IInv
  <2>. QED BY <2>1, <2>2, ReaderType, Zenon
<1>2. Buffering'
  BY DEF IInv, Buffering, Fetched, WaitIn, caller, Waits
<1>3. Ended'
  BY DEF IInv, Ended, caller
<1>. QED BY <1>1, <1>2, <1>3 DEF IInv, Sim

(* The loop over chunks goes on, or the full buffer is handed over. *)
LEMMA NextChunkStep ==
  ASSUME IInv, NEW b \in Seq(Body), NEW remaining \in Nat, NextChunk(b, remaining),
         UNCHANGED <<net, eof, call>>, pc # "caller", Mode = "chunked", ~eof,
         taken' \in 0 .. arrived, chunkRemaining' = remaining,
         Len(b) <= BUF_SIZE, Holds(b, 0, last, taken'),
         IF remaining > 0 THEN InChunk(taken', remaining) ELSE AtBoundary(taken')
  PROVE  IInv' /\ Sim
<1>1. taken' \in Nat /\ pos = 0 /\ last \in Body \cup {0} /\ Len(b) \in Nat
  BY DEF IInv, TypeOK, Buffering
<1>2. CASE Len(b) < BUF_SIZE
  <2>. DEFINE w == IF remaining = 0 THEN "header" ELSE "data"
  <2>1. WaitIn(w) /\ hexBuf' = Empty /\ buf' = b /\ UNCHANGED <<pos, skip, caller>>
    BY <1>2 DEF NextChunk
  <2>2. Framing'
    BY <2>1 DEF Framing, WaitIn
  <2>3. w \in Waits /\ w # "plain"
    BY DEF Waits
  <2>4. skip' \in 0 .. 2
    BY <2>1 DEF IInv, TypeOK
  <2>. HIDE DEF w
  <2>. QED BY <1>1, <2>1, <2>2, <2>3, <2>4, WaitStep
<1>3. CASE ~(Len(b) < BUF_SIZE)
  <2>1. Return(call, b, 0) /\ 0 \in 0 .. Len(b)
    BY <1>1, <1>3 DEF NextChunk
  <2>2. /\ buf' = b /\ pc' = "caller" /\ pos' \in 0 .. Len(b)
        /\ last' \in Body \cup {0}
        /\ reply' \in Body \cup {NoByte, Abstract!Unasked}
        /\ Holds(b, pos', last', taken')
        /\ reply' = NoByte => 0 = Len(b) /\ pos' = Len(b)
        /\ hexBuf' = Empty /\ skip' = 0 /\ start' = 0 /\ idle' = FALSE
    BY <1>1, <2>1, ReturnStep
  <2>3. TypeOK'
    <3>1. /\ eof' \in BOOLEAN /\ call' \in Calls /\ UNCHANGED net /\ TypeOK
          /\ chunkRemaining' \in Nat
      BY DEF IInv, TypeOK
    <3>2. /\ buf' \in Seq(Body) /\ Len(buf') <= BUF_SIZE /\ pos' \in 0 .. Len(buf')
          /\ pc' \in Waits \cup {"caller"}
          /\ hexBuf' \in Nat \cup {Empty} /\ skip' \in 0 .. 2 /\ start' \in {0, now}
      BY <2>2
    <3>. QED BY <2>2, <3>1, <3>2, ReaderType, Zenon
  <2>4. Framing'
    BY <2>2 DEF Framing
  <2>5. Buffering'
    BY <2>2 DEF Buffering, Fetched
  <2>6. Ended'
    BY <1>3, <2>2, SizeAssumption DEF Ended
  <2>7. Sim
    <3>1. reply # NoByte
      BY DEF IInv, Ended
    <3>. QED BY <1>1, <2>1, <3>1, ReturnAnswers DEF Sim
  <2>. QED BY <2>3, <2>4, <2>5, <2>6, <2>7 DEF IInv
<1>. QED BY <1>2, <1>3

(* One ignored readRawByte() is over, with its byte or without. *)
LEMMA SkippedStep ==
  ASSUME IInv, pc \in {"crlf", "final"}, Skipped, UNCHANGED <<net, chunkRemaining, call>>,
         taken' \in {taken, taken + 1}, taken' \in 0 .. arrived
  PROVE  IInv' /\ Sim
<1>1. /\ Mode = "chunked" /\ pos = 0 /\ taken \in Nat /\ skip \in 1 .. 2
      /\ buf \in Seq(Body) /\ Len(buf) <= BUF_SIZE /\ last \in Body \cup {0}
      /\ chunkRemaining \in Nat /\ hexBuf \in Nat \cup {Empty}
      /\ Holds(buf, 0, last, taken) /\ ~eof
  BY DEF IInv, TypeOK, Framing, Buffering, Fetched
<1>2. CASE pc = "crlf"
  <2>1. chunkRemaining = 0 /\ AfterData(taken, 2 - skip)
    BY <1>1, <1>2 DEF IInv, Framing
  <2>2. /\ Kind(taken + 1) \in {"CR", "LF"}
        /\ AfterData(taken', 2 - skip + 1) /\ AtBoundary(taken')
    <3>1. 2 - skip \in 0 .. 1
      BY <1>1
    <3>. QED BY <1>1, <2>1, <3>1, AfterDataStep
  <2>3. Holds(buf, 0, last, taken')
    <3>1. taken + 1 \notin Body /\ 0 \in 0 .. Len(buf)
      BY <1>1, <2>2 DEF Body
    <3>. QED BY <1>1, <3>1, HoldsSkip
  <2>4. CASE skip = 2
    <3>1. WaitIn("crlf") /\ skip' = 1 /\ UNCHANGED <<buf, pos, eof, hexBuf, caller>>
      BY <1>2, <2>4 DEF Skipped
    <3>2. Framing'
      BY <1>1, <2>1, <2>2, <2>4, <3>1 DEF Framing, WaitIn
    <3>. QED BY <1>1, <1>2, <2>3, <3>1, <3>2, WaitStep DEF Waits
  <2>5. CASE skip = 1
    <3>1. NextChunk(buf, chunkRemaining) /\ UNCHANGED eof
      BY <1>2, <2>5 DEF Skipped
    <3>. QED BY <1>1, <1>2, <2>1, <2>2, <2>3, <3>1, NextChunkStep
  <2>. QED BY <1>1, <2>4, <2>5
<1>3. CASE pc = "final"
  <2>1. AtEnd(taken') /\ Holds(buf, 0, last, taken')
    <3>1. AtEnd(taken) /\ 0 \in 0 .. Len(buf)
      BY <1>1, <1>3 DEF IInv, Framing
    <3>2. taken + 1 \notin Body /\ AtEnd(taken + 1)
      BY <1>1, <3>1, EndStep
    <3>. QED BY <1>1, <3>1, <3>2, HoldsSkip
  <2>2. CASE skip = 2
    <3>1. WaitIn("final") /\ skip' = 1 /\ UNCHANGED <<buf, pos, eof, hexBuf, caller>>
      BY <1>3, <2>2 DEF Skipped
    <3>2. Framing'
      BY <1>1, <2>1, <3>1 DEF Framing, WaitIn
    <3>. QED BY <1>1, <1>3, <2>1, <3>1, <3>2, WaitStep DEF Waits
  <2>3. CASE skip = 1
    <3>1. eof' = TRUE /\ Return(call, buf, 0)
      BY <1>3, <2>3 DEF Skipped
    <3>. QED BY <1>1, <1>3, <2>1, <3>1, HandOver
  <2>. QED BY <1>1, <2>2, <2>3
<1>. QED BY <1>2, <1>3

(* refill() gives up: nothing more is taken. *)
LEMMA GiveUpStep ==
  ASSUME IInv, pc # "caller", GiveUp, UNCHANGED <<net, taken, chunkRemaining, call>>
  PROVE  IInv' /\ Sim
<1>1. /\ buf \in Seq(Body) /\ Len(buf) <= BUF_SIZE /\ Holds(buf, 0, last, taken)
      /\ taken' \in 0 .. arrived /\ chunkRemaining' \in Nat
  BY DEF IInv, TypeOK, Buffering, Fetched
<1>2. Return(call, buf, 0) /\ eof' = TRUE
  BY DEF GiveUp
<1>. QED BY <1>1, <1>2, HandOver

(* A wait times out, or the socket fails. *)
LEMMA TimeOutStep ==
  ASSUME IInv, TimeOut \/ ReadFails
  PROVE  IInv' /\ Sim
<1>1. taken' = taken /\ taken' \in 0 .. arrived /\ pc \in Waits \cup {"caller"}
  BY DEF TimeOut, ReadFails, IInv, TypeOK
<1>2. idle => pc # "caller"
  BY DEF IInv, Framing
<1>3. CASE TimeOut /\ pc \in {"crlf", "final"}
  BY <1>1, <1>3, SkippedStep DEF TimeOut
<1>4. CASE TimeOut /\ pc \notin {"crlf", "final"}
  BY <1>1, <1>2, <1>4, GiveUpStep DEF TimeOut
<1>5. CASE ReadFails /\ pc \in {"crlf", "final"}
  BY <1>1, <1>5, SkippedStep DEF ReadFails, Ready
<1>6. CASE ReadFails /\ pc \notin {"crlf", "final"}
  BY <1>1, <1>6, GiveUpStep DEF ReadFails, Ready
<1>. QED BY <1>3, <1>4, <1>5, <1>6

LEMMA SkipByteStep ==
  ASSUME IInv, SkipByte
  PROVE  IInv' /\ Sim
<1>1. taken' \in {taken, taken + 1} /\ taken' \in 0 .. arrived
  <2>1. taken < arrived /\ arrived \in Nat /\ taken \in Nat
    BY WireType DEF SkipByte, Ready, IInv, TypeOK
  <2>. QED BY <2>1 DEF SkipByte
<1>. QED BY <1>1, SkippedStep DEF SkipByte, Ready

(* refill() without chunks takes what is there and fits. *)
LEMMA ReadPlainStep ==
  ASSUME IInv, ReadPlain
  PROVE  IInv' /\ Sim
<1>. DEFINE avail == arrived - taken
            k == IF broken THEN 0 ELSE IF avail < BUF_SIZE THEN avail ELSE BUF_SIZE
            b == [i \in 1 .. k |-> taken + i]
<1>1. /\ pc = "plain" /\ taken < arrived /\ taken' = taken + k /\ eof' = (k = 0)
      /\ Return(call, b, 0) /\ UNCHANGED <<net, chunkRemaining, call>>
  BY DEF ReadPlain, Ready
<1>2. /\ taken \in Nat /\ arrived \in 0 .. Len(Wire) /\ Len(Wire) \in Nat
      /\ Mode = "plain" /\ chunkRemaining \in Nat /\ last \in Body \cup {0}
      /\ buf = <<>> /\ Holds(<<>>, 0, last, taken)
  BY <1>1, WireType DEF IInv, TypeOK, Framing, Buffering, Fetched
<1>3. k \in Nat /\ k <= avail /\ k <= BUF_SIZE
  BY <1>1, <1>2, SizeAssumption
<1>. HIDE DEF k
<1>4. \A r \in taken + 1 .. taken + k : r \in Body
  BY <1>2, <1>3, WireType DEF Body
<1>5. b \in Seq(Body) /\ Len(b) = k /\ Holds(b, 0, last, taken + k)
  <2>1. <<>> \in Seq(Body) /\ Len(<<>>) = 0
    OBVIOUS
  <2>2. \A i \in 1 .. k : taken + i \in Body
    BY <1>2, <1>3, <1>4
  <2>3. b \in Seq(Body) /\ Len(b) = k /\ \A i \in 1 .. k : b[i] = taken + i
    BY <1>3, <2>2
  <2>. HIDE DEF b
  <2>4. /\ Len(b) = Len(<<>>) + k
        /\ \A i \in 1 .. Len(b) :
             b[i] = IF i <= Len(<<>>) THEN <<>>[i] ELSE taken + (i - Len(<<>>))
    BY <1>2, <1>3, <2>1, <2>3
  <2>. QED BY <1>2, <1>3, <2>1, <2>3, <2>4, HoldsAppend
<1>6. b # <<>> \/ eof'
  BY <1>1, <1>3, <1>5
<1>. HIDE DEF b
<1>7. taken' \in 0 .. arrived /\ eof' \in BOOLEAN
  BY <1>1, <1>2, <1>3
<1>. QED BY <1>1, <1>2, <1>3, <1>5, <1>6, <1>7, HandOver

(* A character of a header line other than its LF. *)
LEMMA ReadHeaderStep ==
  ASSUME IInv, ReadHeader
  PROVE  IInv' /\ Sim
<1>1. /\ pc = "header" /\ taken < arrived /\ taken' = taken + 1
      /\ Kind(taken + 1) # "LF" /\ WaitIn("header")
      /\ hexBuf' = IF Kind(taken + 1) # "CR" /\ hexBuf = Empty
                   THEN Wire[taken + 1].n ELSE hexBuf
      /\ UNCHANGED <<net, buf, pos, chunkRemaining, eof, call, skip, caller>>
  BY DEF ReadHeader, Ready
<1>2. /\ taken \in Nat /\ arrived \in Nat /\ taken + 1 \in DOMAIN Wire
      /\ Mode = "chunked" /\ chunkRemaining = 0 /\ pos = 0 /\ ~eof
      /\ buf \in Seq(Body) /\ Len(buf) <= BUF_SIZE /\ last \in Body \cup {0}
      /\ hexBuf \in Nat \cup {Empty} /\ skip \in 0 .. 2
      /\ Holds(buf, 0, last, taken)
  BY <1>1, WireType DEF IInv, TypeOK, Framing, Buffering, Fetched
<1>3. /\ taken + 1 \notin Body /\ hexBuf' \in Nat \cup {Empty}
      /\ IF hexBuf' = Empty THEN AtBoundary(taken + 1) ELSE InHeader(taken + 1, hexBuf')
  <2>1. CASE hexBuf = Empty
    <3>1. AtBoundary(taken)
      BY <1>1, <1>2, <2>1 DEF IInv, Framing
    <3>2. CASE Kind(taken + 1) \in {"CR", "LF"} /\ AtBoundary(taken + 1)
      <4>1. hexBuf' = hexBuf /\ taken + 1 \notin Body
        BY <1>1, <1>2, <3>2 DEF Body
      <4>. QED BY <2>1, <3>2, <4>1
    <3>3. CASE Kind(taken + 1) = "size" /\ InHeader(taken + 1, Wire[taken + 1].n)
      BY <1>1, <1>2, <2>1, <3>3, WireType DEF Body, Empty
    <3>. QED BY <1>2, <3>1, <3>2, <3>3, BoundaryStep
  <2>2. CASE hexBuf # Empty
    <3>1. InHeader(taken, hexBuf) /\ hexBuf \in Nat
      BY <1>1, <1>2, <2>2 DEF IInv, Framing
    <3>2. Kind(taken + 1) \in {"ext", "CR", "LF"} /\ InHeader(taken + 1, hexBuf)
      BY <1>1, <1>2, <3>1, HeaderStep
    <3>3. taken + 1 \notin Body
      BY <1>2, <3>2 DEF Body
    <3>4. hexBuf' = hexBuf
      BY <1>1, <2>2
    <3>. QED BY <2>2, <3>1, <3>2, <3>3, <3>4
  <2>. QED BY <2>1, <2>2
<1>4. Framing'
  BY <1>1, <1>2, <1>3 DEF Framing, WaitIn
<1>5. Holds(buf, 0, last, taken')
  <2>1. 0 \in 0 .. Len(buf)
    BY <1>2
  <2>. QED BY <1>1, <1>2, <1>3, <2>1, HoldsSkip
<1>6. taken' \in 0 .. arrived /\ "header" \in Waits
  BY <1>1, <1>2 DEF Waits
<1>. QED BY <1>1, <1>2, <1>3, <1>4, <1>5, <1>6, WaitStep

(* The LF that ends a header line. *)
LEMMA ReadHeaderEndStep ==
  ASSUME IInv, ReadHeaderEnd
  PROVE  IInv' /\ Sim
<1>1. /\ pc = "header" /\ taken < arrived /\ taken' = taken + 1
      /\ Kind(taken + 1) = "LF" /\ UNCHANGED <<net, eof, call>>
  BY DEF ReadHeaderEnd, Ready
<1>2. /\ taken \in Nat /\ arrived \in Nat /\ taken + 1 \in DOMAIN Wire
      /\ Mode = "chunked" /\ chunkRemaining = 0 /\ pos = 0 /\ ~eof
      /\ buf \in Seq(Body) /\ Len(buf) <= BUF_SIZE /\ last \in Body \cup {0}
      /\ hexBuf \in Nat \cup {Empty} /\ skip \in 0 .. 2
      /\ Holds(buf, 0, last, taken)
  BY <1>1, WireType DEF IInv, TypeOK, Framing, Buffering, Fetched
<1>3. Holds(buf, 0, last, taken') /\ taken' \in 0 .. arrived
  <2>1. 0 \in 0 .. Len(buf) /\ taken + 1 \notin Body
    BY <1>1, <1>2 DEF Body
  <2>. QED BY <1>1, <1>2, <2>1, HoldsSkip
<1>4. CASE hexBuf = Empty
  <2>1. NextChunk(buf, 0) /\ UNCHANGED chunkRemaining
    BY <1>4 DEF ReadHeaderEnd, Empty
  <2>2. AtBoundary(taken')
    <3>1. AtBoundary(taken)
      BY <1>1, <1>2, <1>4 DEF IInv, Framing
    <3>. QED BY <1>1, <1>2, <3>1, BoundaryStep
  <2>. QED BY <1>1, <1>2, <1>3, <2>1, <2>2, NextChunkStep
<1>5. CASE hexBuf = 0
  <2>1. /\ WaitIn("final") /\ skip' = 2
        /\ UNCHANGED <<buf, pos, hexBuf, chunkRemaining, caller>>
    BY <1>5 DEF ReadHeaderEnd, Empty
  <2>2. AtEnd(taken')
    <3>1. InHeader(taken, 0)
      BY <1>1, <1>2, <1>5 DEF IInv, Framing, Empty
    <3>. QED BY <1>1, <1>2, <3>1, HeaderStep
  <2>3. Framing'
    BY <1>1, <1>2, <2>1, <2>2 DEF Framing, WaitIn
  <2>4. "final" \in Waits
    BY DEF Waits
  <2>. QED BY <1>1, <1>2, <1>3, <2>1, <2>3, <2>4, WaitStep
<1>6. CASE hexBuf \notin {Empty, 0}
  <2>1. /\ WaitIn("data") /\ chunkRemaining' = hexBuf
        /\ UNCHANGED <<buf, pos, hexBuf, skip, caller>>
    BY <1>6 DEF ReadHeaderEnd
  <2>2. hexBuf \in Nat /\ hexBuf > 0 /\ InChunk(taken', hexBuf)
    <3>1. InHeader(taken, hexBuf) /\ hexBuf \in Nat
      BY <1>1, <1>2, <1>6 DEF IInv, Framing
    <3>. QED BY <1>1, <1>2, <1>6, <3>1, HeaderStep
  <2>3. Framing'
    BY <1>1, <1>2, <2>1, <2>2 DEF Framing, WaitIn
  <2>4. "data" \in Waits
    BY DEF Waits
  <2>. QED BY <1>1, <1>2, <1>3, <2>1, <2>2, <2>3, <2>4, WaitStep
<1>. QED BY <1>4, <1>5, <1>6

(* Bytes of a chunk go to the buffer. *)
LEMMA ReadDataStep ==
  ASSUME IInv, ReadData
  PROVE  IInv' /\ Sim
<1>1. PICK k \in 1 .. BUF_SIZE :
        LET b == buf \o [i \in 1 .. k |-> taken + i] IN
        /\ k <= chunkRemaining /\ k <= BUF_SIZE - Len(buf) /\ k <= arrived - taken
        /\ taken' = taken + k
        /\ chunkRemaining' = chunkRemaining - k
        /\ IF chunkRemaining = k
           THEN /\ WaitIn("crlf")
                /\ skip' = 2
                /\ buf' = b
                /\ UNCHANGED <<pos, hexBuf, caller>>
           ELSE NextChunk(b, chunkRemaining - k)
  BY DEF ReadData, Limits
<1>. DEFINE d == [i \in 1 .. k |-> taken + i]
            b == buf \o d
<1>2. /\ pc = "data" /\ UNCHANGED <<net, eof, call>>
      /\ taken \in Nat /\ arrived \in Nat /\ k \in Nat /\ BUF_SIZE \in Nat
      /\ Mode = "chunked" /\ chunkRemaining \in Nat /\ pos = 0 /\ ~eof
      /\ buf \in Seq(Body) /\ Len(buf) \in Nat /\ last \in Body \cup {0}
      /\ hexBuf \in Nat \cup {Empty}
      /\ Holds(buf, 0, last, taken) /\ InChunk(taken, chunkRemaining)
  BY SizeAssumption, WireType DEF ReadData, Limits, Ready, IInv, TypeOK, Framing, Buffering, Fetched
<1>3. /\ \A i \in 1 .. k : taken + i \in Body
      /\ InChunk(taken + k, chunkRemaining - k)
      /\ AfterData(taken + chunkRemaining, 0)
  <2>1. /\ \A r \in taken + 1 .. taken + chunkRemaining : r \in Body
        /\ \A j \in 0 .. chunkRemaining : InChunk(taken + j, chunkRemaining - j)
        /\ AfterData(taken + chunkRemaining, 0)
    BY <1>2, ChunkStep
  <2>. QED BY <1>1, <1>2, <2>1
<1>4. b \in Seq(Body) /\ Len(b) = Len(buf) + k /\ Holds(b, 0, last, taken + k)
  <2>1. d \in Seq(Body) /\ Len(d) = k /\ \A i \in 1 .. k : d[i] = taken + i
    BY <1>2, <1>3
  <2>. HIDE DEF d
  <2>2. /\ b \in Seq(Body) /\ Len(b) = Len(buf) + k
        /\ \A i \in 1 .. Len(buf) + k :
             b[i] = IF i <= Len(buf) THEN buf[i] ELSE d[i - Len(buf)]
    BY <1>2, <2>1, Concatenation
  <2>3. \A i \in 1 .. Len(b) :
          b[i] = IF i <= Len(buf) THEN buf[i] ELSE taken + (i - Len(buf))
    BY <1>2, <2>1, <2>2
  <2>. HIDE DEF b
  <2>. QED BY <1>2, <2>2, <2>3, HoldsAppend
<1>5. /\ taken' = taken + k /\ taken' \in 0 .. arrived /\ Len(b) <= BUF_SIZE
      /\ chunkRemaining' = chunkRemaining - k /\ chunkRemaining - k \in Nat
  BY <1>1, <1>2, <1>4
<1>6. CASE chunkRemaining = k
  <2>1. WaitIn("crlf") /\ skip' = 2 /\ buf' = b /\ UNCHANGED <<pos, hexBuf, caller>>
    BY <1>1, <1>6
  <2>. HIDE DEF b
  <2>2. AfterData(taken', 0) /\ chunkRemaining' = 0
    BY <1>2, <1>3, <1>5, <1>6
  <2>3. Framing'
    BY <1>2, <2>1, <2>2 DEF Framing, WaitIn
  <2>4. "crlf" \in Waits
    BY DEF Waits
  <2>. QED BY <1>2, <1>4, <1>5, <2>1, <2>2, <2>3, <2>4, WaitStep
<1>7. CASE chunkRemaining # k
  <2>1. NextChunk(b, chunkRemaining - k)
    BY <1>1, <1>7
  <2>. HIDE DEF b
  <2>2. chunkRemaining - k > 0
    BY <1>1, <1>2, <1>7
  <2>. QED BY <1>2, <1>3, <1>4, <1>5, <2>1, <2>2, NextChunkStep
<1>. QED BY <1>6, <1>7

(* The invariant is inductive. *)
LEMMA NextIInv == IInv /\ [Next]_vars => IInv' /\ Sim
<1>. SUFFICES ASSUME IInv, [Next]_vars PROVE IInv' /\ Sim
  OBVIOUS
<1>1. CASE Arrive \/ Break \/ Tick
  BY <1>1, EnvironmentStep
<1>2. ASSUME NEW op \in Calls, Call(op) PROVE IInv' /\ Sim
  BY <1>2, CallStep
<1>3. CASE Refill
  BY <1>3, PollStep, TimeOutStep, ReadPlainStep, ReadHeaderStep, ReadHeaderEndStep,
     ReadDataStep, SkipByteStep DEF Refill
<1>4. CASE UNCHANGED vars
  <2>1. TypeOK'
    BY <1>4 DEF vars, IInv, TypeOK
  <2>2. Framing' /\ Buffering' /\ Ended'
    BY <1>4 DEF vars, IInv, Framing, Buffering, Fetched, Ended
  <2>. QED BY <1>4, <2>1, <2>2 DEF IInv, Sim, vars, caller
<1>. QED BY <1>1, <1>2, <1>3, <1>4 DEF Next

LEMMA Invariance == Spec => []IInv
<1>1. IInv /\ [Next]_vars => IInv'
  BY NextIInv
<1>. QED BY InitIInv, <1>1, PTL DEF Spec

-----------------------------------------------------------------------------
(* The theorems. *)

(* Every variable keeps its type; in particular refill() never writes past *)
(* the end of _buf and pos stays within what is buffered.                  *)
THEOREM TypeCorrect == Spec => []TypeOK
<1>1. IInv => TypeOK
  BY DEF IInv
<1>. QED BY Invariance, <1>1, PTL

(* No byte taken from the socket is lost. *)
THEOREM Lossless == Spec => []NothingLost
<1>1. ASSUME IInv PROVE NothingLost
  <2>1. CASE Mode = "string"
    <3>1. \A p \in Body : p <= Len(Wire)
      BY WireType
    <3>. QED BY <1>1, <2>1, <3>1 DEF IInv, Buffering, Holds, Fetched, NothingLost
  <2>2. CASE Mode # "string"
    BY <1>1, <2>2 DEF IInv, Buffering, Holds, Fetched, NothingLost
  <2>. QED BY <2>1, <2>2
<1>. QED BY Invariance, <1>1, PTL

(* The reader never loses its place in the chunked coding. *)
THEOREM FramingSafe == Spec => []FramingKept
<1>1. ASSUME IInv PROVE FramingKept
  <2>1. ASSUME Ready("header")
        PROVE  /\ Kind(taken + 1) # "data"
               /\ Kind(taken + 1) = "size" => hexBuf = Empty
               /\ Kind(taken + 1) = "ext" => hexBuf # Empty
    <3>1. /\ pc = "header" /\ Mode = "chunked" /\ taken \in Nat
          /\ taken + 1 \in DOMAIN Wire /\ hexBuf \in Nat \cup {Empty}
      BY <1>1, <2>1, WireType DEF Ready, IInv, TypeOK, Framing
    <3>2. CASE hexBuf = Empty
      BY <1>1, <3>1, <3>2, BoundaryStep DEF IInv, Framing
    <3>3. CASE hexBuf # Empty
      <4>1. InHeader(taken, hexBuf) /\ hexBuf \in Nat
        BY <1>1, <3>1, <3>3 DEF IInv, Framing
      <4>2. Kind(taken + 1) \in {"ext", "CR", "LF"}
        BY <3>1, <4>1, HeaderStep
      <4>. QED BY <3>3, <4>2
    <3>. QED BY <3>2, <3>3
  <2>2. ASSUME Ready("data")
        PROVE  /\ chunkRemaining > 0
               /\ \A p \in taken + 1 .. taken + chunkRemaining :
                    p \in DOMAIN Wire /\ Kind(p) = "data"
    <3>1. /\ Mode = "chunked" /\ taken \in Nat /\ chunkRemaining \in Nat
          /\ chunkRemaining > 0 /\ InChunk(taken, chunkRemaining)
      BY <1>1, <2>2, WireType DEF Ready, IInv, TypeOK, Framing
    <3>. QED BY <3>1, ChunkStep DEF Body
  <2>3. ASSUME Ready("crlf") PROVE Kind(taken + 1) \in {"CR", "LF"}
    <3>1. /\ Mode = "chunked" /\ taken \in Nat /\ 2 - skip \in 0 .. 1
          /\ AfterData(taken, 2 - skip)
      BY <1>1, <2>3, WireType DEF Ready, IInv, TypeOK, Framing
    <3>. QED BY <3>1, AfterDataStep
  <2>. QED BY <2>1, <2>2, <2>3 DEF FramingKept
<1>. QED BY Invariance, <1>1, PTL

(* The reader implements ByteSource: whatever the network does, the parser *)
(* above it reads the body in order, without gaps and repetitions, up to   *)
(* where the source ends for good.                                         *)
THEOREM Refinement == Spec => ImplementsByteSource
<1>1. Init => Abstract!Init
  BY DEF Init, Abstract!Init
<1>2. IInv /\ [Next]_vars => [Abstract!Next]_(Abstract!vars)
  BY NextIInv DEF Sim, caller, Abstract!vars
<1>. QED BY Invariance, <1>1, <1>2, PTL DEF Spec, ImplementsByteSource, Abstract!Spec

-----------------------------------------------------------------------------
(* The clock, and how long the reader has waited. *)

(* A difference of two readings of the clock, in unsigned arithmetic. *)
LEMMA Difference ==
  ASSUME NEW m \in Nat \ {0}, NEW a \in 0 .. m - 1, NEW b \in 0 .. m - 1
  PROVE  (a - b) % m = IF a >= b THEN a - b ELSE a - b + m
OBVIOUS

(* The clock wraps to zero. *)
LEMMA Successor ==
  ASSUME NEW m \in Nat \ {0}, NEW a \in 0 .. m - 1
  PROVE  (a + 1) % m = IF a + 1 < m THEN a + 1 ELSE 0
OBVIOUS

(* A tick before the wait expires lengthens it by one, also if it wraps,   *)
(* and it is seen as a change of the clock.                                *)
LEMMA ElapsedTick ==
  ASSUME TypeOK, Tick, pc # "caller"
  PROVE  /\ Elapsed \in Nat /\ Elapsed < TIMEOUT_MS
         /\ Elapsed' = Elapsed + 1 /\ now' # now
<1>1. /\ CLOCK_MOD \in Nat \ {0} /\ CLOCK_MOD > TIMEOUT_MS
      /\ TIMEOUT_MS \in Nat \ {0}
      /\ now \in 0 .. CLOCK_MOD - 1 /\ start \in 0 .. CLOCK_MOD - 1
  BY SizeAssumption DEF TypeOK
<1>2. now' = IF now + 1 < CLOCK_MOD THEN now + 1 ELSE 0
  BY <1>1, Successor DEF Tick
<1>3. start' = start /\ ~(Elapsed >= TIMEOUT_MS)
  BY DEF Tick, Expired
<1>4. Elapsed = IF now >= start THEN now - start ELSE now - start + CLOCK_MOD
  BY <1>1, Difference DEF Elapsed
<1>5. now' \in 0 .. CLOCK_MOD - 1
  BY <1>1, <1>2
<1>6. Elapsed' = IF now' >= start THEN now' - start ELSE now' - start + CLOCK_MOD
  BY <1>1, <1>3, <1>5, Difference DEF Elapsed
<1>. QED BY <1>1, <1>2, <1>3, <1>4, <1>6

(* A wait that begins has lasted no time. *)
LEMMA ElapsedWaitIn ==
  ASSUME TypeOK, UNCHANGED now, start' = now
  PROVE  Elapsed' = 0
<1>1. /\ CLOCK_MOD \in Nat \ {0} /\ now \in 0 .. CLOCK_MOD - 1
  BY SizeAssumption DEF TypeOK
<1>2. Elapsed' = (now - now) % CLOCK_MOD
  BY DEF Elapsed
<1>. QED BY <1>1, <1>2, Difference

-----------------------------------------------------------------------------
(* The inductive invariant: the wait the code measures, from the clock it  *)
(* read when the wait began, is not longer than the time that has really   *)
(* passed since a byte was taken, however often the clock wrapped.         *)
Patience ==
  /\ waited \in 0 .. TIMEOUT_MS
  /\ pc # "caller" => Elapsed <= waited

WInv == IInv /\ Patience

(* How the reader's own steps treat the clock: one that takes a byte, and  *)
(* one that leaves a wait for another, starts the measurement anew.        *)
LEMMA ReaderRestarts ==
  ASSUME IInv, Refill \/ \E op \in Calls : Call(op)
  PROVE  /\ UNCHANGED now
         /\ \/ pc' = "caller"
            \/ start' = now
            \/ UNCHANGED <<pc, start, taken>> /\ pc # "caller"
<1>1. UNCHANGED net => UNCHANGED now
  BY DEF net
<1>2. ASSUME NEW op \in Calls, Call(op)
      PROVE  UNCHANGED net /\ (pc' = "caller" \/ start' = now)
  BY <1>2 DEF Call, Return, WaitIn
<1>3. CASE PollEmpty \/ PollAgain
  BY <1>1, <1>3 DEF PollEmpty, PollAgain, IInv, Framing
<1>4. Skipped => pc' = "caller" \/ start' = now
  BY DEF Skipped, WaitIn, Return, NextChunk
<1>5. CASE TimeOut \/ ReadFails
  BY <1>1, <1>4, <1>5 DEF TimeOut, ReadFails, GiveUp, Return
<1>6. CASE ReadPlain
  BY <1>1, <1>6 DEF ReadPlain, Return
<1>7. CASE ReadHeader
  BY <1>1, <1>7 DEF ReadHeader, WaitIn
<1>8. CASE ReadHeaderEnd
  BY <1>1, <1>8 DEF ReadHeaderEnd, NextChunk, WaitIn, Return
<1>9. CASE ReadData
  BY <1>1, <1>9 DEF ReadData, NextChunk, WaitIn, Return
<1>10. CASE SkipByte
  BY <1>1, <1>4, <1>10 DEF SkipByte
<1>. QED BY <1>1, <1>2, <1>3, <1>5, <1>6, <1>7, <1>8, <1>9, <1>10 DEF Refill

(* The invariant holds initially. *)
LEMMA InitWInv == MCInit => WInv
<1>. SUFFICES ASSUME MCInit PROVE WInv
  OBVIOUS
<1>1. IInv
  BY InitIInv DEF MCInit
<1>2. waited \in 0 .. TIMEOUT_MS /\ pc = "caller"
  BY SizeAssumption DEF MCInit, Init
<1>. QED BY <1>1, <1>2 DEF WInv, Patience

(* Every step keeps it. *)
LEMMA NextWInv == WInv /\ [MCNext]_<<vars, waited>> => WInv'
<1>. SUFFICES ASSUME WInv, [MCNext]_<<vars, waited>> PROVE WInv'
  OBVIOUS
<1>1. IInv' /\ TypeOK
  BY NextIInv DEF WInv, IInv, MCNext
<1>2. TIMEOUT_MS \in Nat \ {0} /\ waited \in 0 .. TIMEOUT_MS
  BY SizeAssumption DEF WInv, Patience
<1>3. CASE UNCHANGED <<vars, waited>>
  <2>1. UNCHANGED <<pc, now, start, waited>>
    BY <1>3 DEF vars
  <2>. QED BY <1>1, <2>1 DEF WInv, Patience, Elapsed
<1>4. CASE MCNext
  <2>1. waited' = IF pc' = "caller" \/ pc = "caller" \/ taken' # taken THEN 0
                  ELSE IF now' # now /\ waited < TIMEOUT_MS THEN waited + 1
                  ELSE waited
    BY <1>4 DEF MCNext
  <2>2. waited' \in 0 .. TIMEOUT_MS
    BY <1>2, <2>1
  <2>3. ASSUME pc' # "caller" PROVE Elapsed' <= waited'
    <3>1. CASE Tick
      <4>1. pc # "caller" /\ UNCHANGED <<pc, taken>>
        BY <2>3, <3>1 DEF Tick
      <4>2. /\ Elapsed \in Nat /\ Elapsed < TIMEOUT_MS
            /\ Elapsed' = Elapsed + 1 /\ now' # now
        BY <1>1, <3>1, <4>1, ElapsedTick
      <4>3. Elapsed <= waited
        BY <4>1 DEF WInv, Patience
      <4>. QED BY <1>2, <2>1, <2>3, <4>1, <4>2, <4>3
    <3>2. CASE Arrive \/ Break
      <4>1. UNCHANGED <<pc, now, start, taken>>
        BY <3>2 DEF Arrive, Break
      <4>. QED BY <2>1, <2>3, <4>1 DEF WInv, Patience, Elapsed
    <3>3. CASE Refill \/ \E op \in Calls : Call(op)
      <4>1. /\ UNCHANGED now
            /\ start' = now \/ (UNCHANGED <<pc, start, taken>> /\ pc # "caller")
        BY <2>3, <3>3, ReaderRestarts DEF WInv
      <4>2. CASE start' = now
        BY <1>1, <2>2, <4>1, <4>2, ElapsedWaitIn
      <4>3. CASE UNCHANGED <<pc, start, taken>> /\ pc # "caller"
        BY <2>1, <2>3, <4>1, <4>3 DEF WInv, Patience, Elapsed
      <4>. QED BY <4>1, <4>2, <4>3
    <3>. QED BY <1>4, <3>1, <3>2, <3>3 DEF MCNext, Next
  <2>. QED BY <1>1, <2>2, <2>3 DEF WInv, Patience
<1>. QED BY <1>3, <1>4

-----------------------------------------------------------------------------
(* The theorem. *)

(* Behind the header of the last chunk nothing of the body is to come. *)
LEMMA EndIsOver ==
  ASSUME Mode = "chunked", TypeOK, taken' \in Nat, taken' >= taken, AtEnd(taken)
  PROVE  BodyOver
<1>1. taken \in Nat
  BY WireType DEF TypeOK
<1>2. \A r \in DOMAIN Wire : Kind(r) \in {"data", "size"} => r <= taken
  BY <1>1, EndStep
<1>3. ASSUME NEW p \in DOMAIN Wire, p \in Body \/ Kind(p) = "size" PROVE p <= taken'
  <2>1. p <= taken /\ p \in Nat
    BY <1>2, <1>3, WireType DEF Body
  <2>. QED BY <1>1, <2>1
<1>. QED BY <1>3 DEF BodyOver

(* The two skips of the last line end the body, all others do not. *)
LEMMA SkippedEnds ==
  ASSUME IInv, pc \in {"crlf", "final"}, Skipped, eof', taken' \in Nat,
         taken' >= taken
  PROVE  BodyOver
<1>1. ~eof /\ Mode = "chunked"
  BY DEF IInv, Framing
<1>2. pc = "final"
  BY <1>1 DEF Skipped
<1>3. AtEnd(taken)
  BY <1>1, <1>2 DEF IInv, Framing
<1>. QED BY <1>1, <1>3, EndIsOver DEF IInv

(* A body ends only when all of it has been taken, when no byte came for   *)
(* TIMEOUT_MS, or when the socket fails: for no width of the clock and at  *)
(* no time does readRawByte() or refill() give up on a slow answer early.  *)
THEOREM BodyEndsInTime == MCSpec => EndJustified
<1>. DEFINE Justified == eof' /\ ~eof => BodyOver \/ waited >= TIMEOUT_MS \/ broken
<1>1. ASSUME WInv, MCNext, eof', ~eof PROVE BodyOver \/ waited >= TIMEOUT_MS \/ broken
  <2>1. /\ taken \in Nat /\ waited \in Nat /\ TIMEOUT_MS \in Nat
        /\ IInv /\ TypeOK
    BY <1>1, WireType, SizeAssumption DEF WInv, IInv, TypeOK, Patience
  <2>2. CASE TimeOut
    <3>1. CASE pc \in {"crlf", "final"}
      BY <1>1, <2>1, <2>2, <3>1, SkippedEnds DEF TimeOut
    <3>2. CASE pc \notin {"crlf", "final"}
      <4>1. pc # "caller" /\ Elapsed >= TIMEOUT_MS
        BY <2>1, <2>2 DEF TimeOut, Expired, IInv, Framing
      <4>2. Elapsed <= waited
        BY <1>1, <4>1 DEF WInv, Patience
      <4>3. Elapsed \in Int
        <5>1. now \in 0 .. CLOCK_MOD - 1 /\ start \in 0 .. CLOCK_MOD - 1
              /\ CLOCK_MOD \in Nat \ {0}
          BY <2>1, SizeAssumption DEF TypeOK
        <5>. QED BY <5>1 DEF Elapsed
      <4>. QED BY <2>1, <4>1, <4>2, <4>3
    <3>. QED BY <3>1, <3>2
  <2>3. CASE ReadPlain
    <3>1. arrived - taken \in Nat \ {0} /\ BUF_SIZE \in Nat \ {0}
      BY <2>1, <2>3, WireType, SizeAssumption DEF ReadPlain, Ready, IInv, TypeOK
    <3>. QED BY <1>1, <2>3, <3>1 DEF ReadPlain
  <2>4. CASE SkipByte
    BY <1>1, <2>1, <2>4, SkippedEnds DEF SkipByte, Ready
  <2>5. CASE ReadFails
    BY <2>5 DEF ReadFails
  <2>6. ~(Arrive \/ Break \/ Tick \/ PollEmpty \/ PollAgain \/ ReadHeader
          \/ ReadHeaderEnd \/ ReadData \/ \E op \in Calls : Call(op))
    BY <1>1 DEF Arrive, Break, Tick, PollEmpty, PollAgain, ReadHeader, ReadHeaderEnd,
                ReadData, Call
  <2>. QED BY <1>1, <2>2, <2>3, <2>4, <2>5, <2>6 DEF MCNext, Next, Refill
<1>2. WInv /\ [MCNext]_<<vars, waited>> => [Justified]_<<vars, waited>>
  BY <1>1
<1>. HIDE DEF Justified
<1>3. MCSpec => [][Justified]_<<vars, waited>>
  BY InitWInv, NextWInv, <1>2, PTL DEF MCSpec
<1>. QED BY <1>3 DEF EndJustified, Justified

=============================================================================
