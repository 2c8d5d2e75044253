---------------------------- MODULE BoundValues ----------------------------
(***************************************************************************)
(* What the bindings of JsonBinder promise, told by the document's tree and*)
(* not by its text.                                                        *)
(***************************************************************************)
EXTENDS JsonBinder, JsonDocument

(* A string that can take a reader of its text out of step. *)
Tricky == Str(<<"\"", "]", "\\">>)

(* What a variable bound by b holds when the value v was read. *)
Expected(b, v) ==
  CASE v.kind \in {"obj", "arr"} /\ b.type = "String"   -> Render(v)
    [] v.kind = "str" /\ b.type = "chars"               -> Fitting(v.chars, b.size)
    [] v.kind = "str" /\ b.type = "String"              -> Fitting(v.chars, TextLimit)
    [] v.kind = "str" /\ b.type = "int"                 -> LeadingDigits(v.chars)
    [] v.kind = "num" /\ b.type \in {"int", "long", "String"} -> v.chars
    [] v = Null                                         -> Zero(b.type)
    [] v \in {True, False} /\ b.type = "bool"           -> Bool(v = True)
    [] v \in {True, False} /\ b.type = "String"         -> v.chars
    [] OTHER                                            -> Untouched

RightFrom(i, v) == target[i] = Expected(bindings[i], v)

(* The body ends where the value should start: behind the colon of its key *)
(* or the blank after it, in an array behind the blank after the comma.    *)
(* There peek() is -1, which the parser takes for a number of no digits.   *)
EndsAt(place) ==
  place.value # Missing /\ place.from - Len(Texts[body]) \in {1, 2}

(* What is stored then: atoi("") or atol(""), which is 0, or an empty      *)
(* String; other variables take no number.                                 *)
Emptied(b) == IF b.type \in {"int", "long", "String"} THEN <<>> ELSE Untouched

(* A value received whole is right or not stored (yet). One of which no    *)
(* character was received, or which is not in the document, leaves its     *)
(* variable alone, but where the body EndsAt it the variable may be        *)
(* emptied. Nothing is said of a value received in part.                   *)
RightOrCut(i, place) ==
  LET received == Len(Texts[body]) IN
  /\ place.value # Missing /\ place.to <= received + 1 =>
       RightFrom(i, place.value) \/ target[i] = Untouched
  /\ place.value = Missing \/ place.from > received =>
       target[i] = Untouched \/ (EndsAt(place) /\ target[i] = Emptied(bindings[i]))

(* No path is, or leads to, another one. *)
Independent ==
  \A i, j \in DOMAIN bindings :
    i # j => bindings[i].key # bindings[j].key /\ ~Below(bindings[i].key, bindings[j].key)

=============================================================================
