----------------------------- MODULE ByteSource -----------------------------
(***************************************************************************)
(* What the parsers of the library expect from a response body: successive *)
(* reads return the bytes of the body in order, none lost and none twice;  *)
(* asking whether a byte is there, or peeking at it, does not consume it;  *)
(* and once the source has answered "no more" it never answers otherwise.  *)
(*                                                                         *)
(* A byte is named by its position on the wire, so that two bytes with the *)
(* same value are still told apart.                                        *)
(***************************************************************************)
EXTENDS Integers

CONSTANT Body  (* the positions that carry body bytes, all above 0 *)

VARIABLES
  last,   (* the byte the caller consumed last, 0 before the first *)
  reply   (* the answer to the latest call *)

vars == <<last, reply>>

NoByte  == -1   (* the answer when the body is over *)
Unasked == 0    (* no call has been answered yet    *)

(* q is the first byte of the body after position p. *)
Follows(p, q) ==
  /\ q \in Body
  /\ p < q
  /\ \A r \in Body : p < r => q <= r

Init ==
  /\ last = 0
  /\ reply = Unasked

(* The caller looks at the next byte, or looks at it and consumes it. *)
Answer(q) ==
  /\ reply # NoByte
  /\ Follows(last, q)
  /\ reply' = q
  /\ last' \in {last, q}

(* The body is over, or the source gives up on it. *)
End ==
  /\ reply' = NoByte
  /\ UNCHANGED last

Next == End \/ \E q \in Body : Answer(q)

Spec == Init /\ [][Next]_vars

=============================================================================
