----------------------------- MODULE KeyStorage -----------------------------
(***************************************************************************)
(* Where the keys of a request's bindings live.  A binding holds a pointer *)
(* to its key: a literal of the caller, or the characters of a String in   *)
(* the request's _keyStorage when the library composed the key.  That is a *)
(* std::vector in RestRequest, whose elements move when it grows, and a    *)
(* std::deque in GraphQLRequest and JsonRpcRequest, whose elements do not. *)
(*                                                                         *)
(* A String keeps a short text inside itself, and a vector copies elements *)
(* whose move constructor may throw, so a pointer into an array that was   *)
(* given up is not to be read, whatever the key's length.                  *)
(***************************************************************************)
EXTENDS Integers, Sequences

CONSTANTS
  Reserve,      (* what the constructors reserve: 128 in the code           *)
  FieldCounts,  (* numbers of fields of mapped structs                      *)
  MaxBindings   (* bound: bindings of a request                             *)

ASSUME ReserveAssumption == Reserve \in Nat \ {0}
ASSUME FieldAssumption   == FieldCounts \subseteq Nat \ {0}
ASSUME BoundAssumption   == MaxBindings \in Nat

VARIABLES
  container,  (* "vector" or "deque"                                        *)
  store,      (* _keyStorage: size, capacity, and which array it uses       *)
  keys,       (* per binding the array its key is in, or 0 for a literal    *)
  binder,     (* the RestJsonBinder at work: fields left, whether under a   *)
              (* path                                                       *)
  structs     (* history: structs bound under a path                        *)

vars == <<container, store, keys, binder, structs>>

Idle == [left |-> 0, path |-> FALSE]

Grown(s, capacity) ==
  [size |-> s.size, capacity |-> capacity, array |-> s.array + 1]

(* std::vector::reserve() *)
Reserved(s, capacity) == IF capacity > s.capacity THEN Grown(s, capacity) ELSE s

(* Mutant: room is made for each key and not once for all of them. *)
PushedReserving(s) ==
  LET r == Reserved(s, s.size + Reserve) IN [r EXCEPT !.size = @ + 1]

(* Mutant: a full vector does not grow. *)
PushedUngrown(s) == [s EXCEPT !.size = @ + 1]

(* push_back(): a full vector doubles its capacity; a deque stays. *)
Pushed(s) ==
  LET roomy == IF container = "vector" /\ s.size = s.capacity
               THEN Grown(s, 2 * s.capacity) ELSE s
  IN  [roomy EXCEPT !.size = @ + 1]

Init ==
  /\ container \in {"vector", "deque"}
  /\ store = [size |-> 0, capacity |-> Reserve, array |-> 1]
  /\ keys = <<>> /\ binder = Idle /\ structs = 0

Room(n) == Len(keys) + n <= MaxBindings

AddStored ==
  /\ store' = Pushed(store)
  /\ keys' = Append(keys, store'.array)

AddLiteral == keys' = Append(keys, 0) /\ UNCHANGED store

(* getBody(), getData() and getResult() of one variable: RestRequest takes *)
(* the caller's key, the others compose one, but for the result itself.    *)
BindVariable ==
  /\ binder = Idle /\ Room(1)
  /\ AddLiteral \/ (container = "deque" /\ AddStored)
  /\ UNCHANGED <<container, binder, structs>>

(* The same of a struct: the binder is made, with a reserve if there is a  *)
(* path; the classes that keep a deque store the path itself first.        *)
BindStruct(n, path) ==
  /\ binder = Idle /\ Room(n)
  /\ binder' = [left |-> n, path |-> path]
  /\ structs' = IF path THEN structs + 1 ELSE structs
  /\ store' = IF ~path THEN store
              ELSE IF container = "vector" THEN Reserved(store, store.size + Reserve)
              ELSE Pushed(store)
  /\ UNCHANGED <<container, keys>>

(* field() of the binder: at the root of a REST body a key is a literal.   *)
Field ==
  /\ binder.left > 0
  /\ IF container = "vector" /\ ~binder.path THEN AddLiteral ELSE AddStored
  /\ binder' = IF binder.left = 1 THEN Idle ELSE [binder EXCEPT !.left = @ - 1]
  /\ UNCHANGED <<container, structs>>

Next ==
  \/ BindVariable \/ Field
  \/ \E n \in FieldCounts, path \in BOOLEAN : BindStruct(n, path)

Spec == Init /\ [][Next]_vars

-----------------------------------------------------------------------------
TypeOK ==
  /\ container \in {"vector", "deque"}
  /\ store \in [size : Nat, capacity : Nat \ {0}, array : Nat \ {0}]
  /\ keys \in Seq(Nat)
  /\ binder \in [left : Nat, path : BOOLEAN]
  /\ structs \in Nat
  /\ container = "vector" => store.size <= store.capacity

Live(i) == keys[i] \in {0, store.array}

(* The parser can read the key of every binding: of all of them where a    *)
(* deque keeps the keys, and for a vector as long as no second struct was  *)
(* bound under a path and the first one has no more fields than reserved.  *)
KeysLive ==
  container = "deque" \/ (structs <= 1 /\ store.size <= Reserve) =>
    \A i \in DOMAIN keys : Live(i)

=============================================================================
