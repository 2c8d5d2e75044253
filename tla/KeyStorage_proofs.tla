------------------------- MODULE KeyStorage_proofs -------------------------
(* Proofs about KeyStorage, for every reserve, every number of fields and  *)
(* every number of bindings.                                               *)
EXTENDS KeyStorage, TLAPS

(* No growth yet: the condition under which KeysLive speaks. *)
Calm == container = "deque" \/ (structs <= 1 /\ store.size <= Reserve)

(* While it holds, the first array is the only one there ever was; and     *)
(* until the first struct under a path, a vector holds nothing.            *)
FirstArray == Calm => store.array = 1 /\ \A i \in DOMAIN keys : keys[i] \in {0, 1}

Unused == container = "vector" /\ structs = 0 => store.size = 0 /\ ~binder.path

IInv == TypeOK /\ FirstArray /\ Unused /\ store.capacity >= Reserve

-----------------------------------------------------------------------------
(* What the container's operations do to a well-formed _keyStorage. *)
Stores == [size : Nat, capacity : Nat \ {0}, array : Nat \ {0}]

LEMMA GrownStore ==
  ASSUME NEW s \in Stores, NEW c \in Nat \ {0}
  PROVE  /\ Grown(s, c) \in Stores
         /\ Grown(s, c).size = s.size
         /\ Grown(s, c).capacity = c
BY DEF Stores, Grown

LEMMA CountedStore ==
  ASSUME NEW s \in Stores
  PROVE  /\ [s EXCEPT !.size = @ + 1] \in Stores
         /\ [s EXCEPT !.size = @ + 1].size = s.size + 1
         /\ [s EXCEPT !.size = @ + 1].capacity = s.capacity
         /\ [s EXCEPT !.size = @ + 1].array = s.array
BY DEF Stores

LEMMA ReservedStore ==
  ASSUME NEW s \in Stores, NEW n \in Nat
  PROVE  /\ Reserved(s, n) \in Stores
         /\ Reserved(s, n).size = s.size
         /\ Reserved(s, n).capacity >= s.capacity
         /\ n <= s.capacity => Reserved(s, n) = s
<1>1. s.capacity \in Nat \ {0}
  BY DEF Stores
<1>2. CASE n > s.capacity
  <2>1. n \in Nat \ {0} /\ ~(n <= s.capacity)
    BY <1>1, <1>2
  <2>2. Reserved(s, n) = Grown(s, n)
    BY <1>2 DEF Reserved
  <2>. QED  BY <1>1, <1>2, <2>1, <2>2, GrownStore
<1>3. CASE ~(n > s.capacity)
  BY <1>1, <1>3 DEF Reserved
<1>. QED  BY <1>2, <1>3

LEMMA PushedStore ==
  ASSUME NEW s \in Stores, container = "vector" => s.size <= s.capacity
  PROVE  /\ Pushed(s) \in Stores
         /\ Pushed(s).size = s.size + 1
         /\ Pushed(s).capacity >= s.capacity
         /\ container = "vector" => Pushed(s).size <= Pushed(s).capacity
         /\ container # "vector" \/ s.size < s.capacity => Pushed(s).array = s.array
<1>0. s.capacity \in Nat \ {0} /\ s.size \in Nat
  BY DEF Stores
<1>1. CASE container = "vector" /\ s.size = s.capacity
  <2>1. Pushed(s) = [Grown(s, 2 * s.capacity) EXCEPT !.size = @ + 1]
    BY <1>1 DEF Pushed
  <2>2. 2 * s.capacity \in Nat \ {0}
    BY <1>0
  <2>3. /\ Grown(s, 2 * s.capacity) \in Stores
        /\ Grown(s, 2 * s.capacity).size = s.size
        /\ Grown(s, 2 * s.capacity).capacity = 2 * s.capacity
    BY <2>2, GrownStore
  <2>4. /\ Pushed(s) \in Stores
        /\ Pushed(s).size = s.size + 1
        /\ Pushed(s).capacity = 2 * s.capacity
    BY <2>1, <2>3, CountedStore
  <2>. QED  BY <1>0, <1>1, <2>4
<1>2. CASE ~(container = "vector" /\ s.size = s.capacity)
  <2>1. Pushed(s) = [s EXCEPT !.size = @ + 1]
    BY <1>2 DEF Pushed
  <2>. QED  BY <1>0, <1>2, <2>1, CountedStore
<1>. QED  BY <1>1, <1>2

LEMMA AppendedKeys ==
  ASSUME NEW ks \in Seq(Nat), NEW k \in Nat
  PROVE  /\ Append(ks, k) \in Seq(Nat)
         /\ (\A i \in DOMAIN ks : ks[i] \in {0, 1}) /\ k \in {0, 1}
              => \A i \in DOMAIN Append(ks, k) : Append(ks, k)[i] \in {0, 1}
OBVIOUS

LEMMA Start == Init => IInv
BY ReserveAssumption DEF Init, IInv, TypeOK, FirstArray, Unused, Calm, Idle

(* The two ways to add a key, where a key may be stored. *)
LEMMA LiteralStep ==
  ASSUME IInv, AddLiteral, UNCHANGED <<container, structs>>,
         binder' \in [left : Nat, path : BOOLEAN], binder'.path => binder.path
  PROVE  IInv'
<1>1. keys' \in Seq(Nat)
  BY AppendedKeys DEF IInv, TypeOK, AddLiteral
<1>2. TypeOK'
  BY <1>1 DEF IInv, TypeOK, AddLiteral
<1>3. FirstArray'
  BY AppendedKeys DEF IInv, TypeOK, FirstArray, Calm, AddLiteral
<1>4. Unused' /\ (store.capacity >= Reserve)'
  BY DEF IInv, Unused, AddLiteral
<1>. QED  BY <1>2, <1>3, <1>4 DEF IInv

LEMMA StoredStep ==
  ASSUME IInv, AddStored, UNCHANGED <<container, structs>>,
         container = "deque" \/ binder.path,
         binder' \in [left : Nat, path : BOOLEAN]
  PROVE  IInv'
<1>. USE ReserveAssumption
<1>1. store \in Stores /\ (container = "vector" => store.size <= store.capacity)
  BY DEF IInv, TypeOK, Stores
<1>2. /\ store' \in Stores
      /\ store'.size = store.size + 1
      /\ store'.capacity >= store.capacity
      /\ container = "vector" => store'.size <= store'.capacity
      /\ container # "vector" \/ store.size < store.capacity => store'.array = store.array
  BY <1>1, PushedStore DEF AddStored
<1>3. keys' = Append(keys, store'.array) /\ keys' \in Seq(Nat)
  BY <1>2, AppendedKeys DEF IInv, TypeOK, AddStored, Stores
<1>4. TypeOK'
  BY <1>2, <1>3 DEF IInv, TypeOK, Stores
<1>5. Calm' => Calm /\ store'.array = store.array
  BY <1>1, <1>2 DEF IInv, TypeOK, Calm, Stores
<1>6. FirstArray'
  BY <1>3, <1>5, AppendedKeys DEF IInv, TypeOK, FirstArray
<1>7. Unused' /\ (store.capacity >= Reserve)'
  BY <1>1, <1>2 DEF IInv, TypeOK, Unused, Stores
<1>. QED  BY <1>4, <1>6, <1>7 DEF IInv

LEMMA Step == IInv /\ [Next]_vars => IInv'
<1>. SUFFICES ASSUME IInv, [Next]_vars PROVE IInv'
  OBVIOUS
<1>. USE ReserveAssumption, FieldAssumption
<1>1. CASE BindVariable
  <2>1. AddLiteral \/ (container = "deque" /\ AddStored)
    BY <1>1 DEF BindVariable
  <2>2. UNCHANGED <<container, binder, structs>>
    BY <1>1 DEF BindVariable
  <2>3. binder' \in [left : Nat, path : BOOLEAN] /\ (binder'.path => binder.path)
    BY <2>2 DEF IInv, TypeOK
  <2>. QED  BY <2>1, <2>2, <2>3, LiteralStep, StoredStep
<1>2. CASE Field
  <2>1. UNCHANGED <<container, structs>>
    BY <1>2 DEF Field
  <2>2. binder' \in [left : Nat, path : BOOLEAN] /\ (binder'.path => binder.path)
    <3>1. binder \in [left : Nat, path : BOOLEAN] /\ binder.left > 0
      BY <1>2 DEF Field, IInv, TypeOK
    <3>2. CASE binder.left = 1
      BY <1>2, <3>2 DEF Field, Idle
    <3>3. CASE binder.left # 1
      <4>1. binder' = [binder EXCEPT !.left = @ - 1]
        BY <1>2, <3>3 DEF Field
      <4>. QED  BY <3>1, <3>3, <4>1
    <3>. QED  BY <3>2, <3>3
  <2>3. CASE container = "vector" /\ ~binder.path
    BY <1>2, <2>1, <2>2, <2>3, LiteralStep DEF Field
  <2>4. CASE ~(container = "vector" /\ ~binder.path)
    <3>1. container = "deque" \/ binder.path
      BY <2>4 DEF IInv, TypeOK
    <3>. QED  BY <1>2, <2>1, <2>2, <2>4, <3>1, StoredStep DEF Field
  <2>. QED  BY <2>3, <2>4
<1>3. ASSUME NEW n \in FieldCounts, NEW path \in BOOLEAN, BindStruct(n, path)
      PROVE  IInv'
  <2>1. /\ binder' = [left |-> n, path |-> path]
        /\ structs' = IF path THEN structs + 1 ELSE structs
        /\ store' = IF ~path THEN store
                    ELSE IF container = "vector" THEN Reserved(store, store.size + Reserve)
                    ELSE Pushed(store)
        /\ UNCHANGED <<container, keys>>
    BY <1>3 DEF BindStruct
  <2>2. store \in Stores /\ (container = "vector" => store.size <= store.capacity)
    BY DEF IInv, TypeOK, Stores
  <2>3. store' \in Stores /\ store'.capacity >= store.capacity
    <3>1. store.size \in Nat /\ store.capacity \in Nat
      BY <2>2 DEF Stores
    <3>2. store.size + Reserve \in Nat
      BY <3>1
    <3>3. CASE ~path
      BY <2>1, <2>2, <3>1, <3>3
    <3>4. CASE path /\ container = "vector"
      BY <2>1, <2>2, <3>2, <3>4, ReservedStore
    <3>5. CASE path /\ container # "vector"
      BY <2>1, <2>2, <3>5, PushedStore
    <3>. QED  BY <3>3, <3>4, <3>5
  <2>4. container = "vector" => store'.size = store.size
    BY <2>1, <2>2, ReservedStore DEF Stores
  <2>5. binder' \in [left : Nat, path : BOOLEAN] /\ binder'.path = path
    BY <2>1
  <2>6. structs' \in Nat /\ (path => structs' = structs + 1)
    BY <2>1 DEF IInv, TypeOK
  <2>7. TypeOK'
    BY <2>1, <2>2, <2>3, <2>4, <2>5, <2>6 DEF IInv, TypeOK, Stores
  <2>8. Calm' => Calm /\ store'.array = store.array
    <3>1. CASE ~path
      BY <2>1, <3>1 DEF Calm
    <3>2. CASE path /\ container = "vector"
      <4>. SUFFICES ASSUME Calm' PROVE Calm /\ store'.array = store.array
        OBVIOUS
      <4>1. structs = 0
        BY <2>1, <2>6, <3>2 DEF Calm, IInv, TypeOK
      <4>2. store.size = 0
        BY <3>2, <4>1 DEF IInv, Unused
      <4>3. store' = store
        BY <2>1, <2>2, <3>2, <4>2, ReservedStore DEF IInv, Stores
      <4>. QED  BY <4>1, <4>2, <4>3 DEF Calm
    <3>3. CASE path /\ container = "deque"
      BY <2>1, <2>2, <3>3, PushedStore DEF Calm
    <3>. QED  BY <3>1, <3>2, <3>3 DEF IInv, TypeOK
  <2>9. FirstArray'
    BY <2>1, <2>8 DEF IInv, FirstArray
  <2>10. Unused' /\ (store.capacity >= Reserve)'
    BY <2>1, <2>2, <2>3, <2>4, <2>5, <2>6 DEF IInv, TypeOK, Unused, Stores
  <2>. QED  BY <2>7, <2>9, <2>10 DEF IInv
<1>4. CASE UNCHANGED vars
  BY <1>4 DEF vars, IInv, TypeOK, FirstArray, Unused, Calm
<1>. QED  BY <1>1, <1>2, <1>3, <1>4 DEF Next

(* The types of TypeOK hold, and a vector never holds more than its array  *)
(* has room for (push_back and reserve of _keyStorage).                    *)
THEOREM TypeCorrect == Spec => []TypeOK
<1>1. IInv => TypeOK
  BY DEF IInv
<1>. QED  BY Start, Step, <1>1, PTL DEF Spec

(* The parser can read the key of every binding: of all of them where a    *)
(* deque keeps the keys, of all of them in a vector that one struct was    *)
(* bound into with at most the reserved number of fields.                  *)
THEOREM KeysStayLive == Spec => []KeysLive
<1>1. IInv => KeysLive
  BY DEF IInv, FirstArray, Calm, KeysLive, Live
<1>. QED  BY Start, Step, <1>1, PTL DEF Spec

=============================================================================
