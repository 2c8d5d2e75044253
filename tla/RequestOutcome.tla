--------------------------- MODULE RequestOutcome ---------------------------
(***************************************************************************)
(* What the callbacks of the library promise of a request, whatever its    *)
(* kind.  Each execution reports that it is complete, and then one outcome,*)
(* success or error, never both; every report goes to the request's own    *)
(* callback and then to the client's.  What it reports besides (a SOAP     *)
(* fault, a JSON-RPC error, the errors of a GraphQL answer) never turns an *)
(* outcome into the other one, and its metrics come last.                  *)
(*                                                                         *)
(* A callback may execute another request, so executions nest; each one    *)
(* keeps the promise on its own.                                           *)
(***************************************************************************)
EXTENDS Integers, Sequences

VARIABLE told  (* per nested execution, the callbacks invoked so far *)

Events == {"reqResponse", "cliResponse", "reqFault", "rpcError", "reqSuccess",
           "cliSuccess", "reqError", "cliError", "gqlErrors", "observability"}

Just(t, e) == t # <<>> /\ t[Len(t)] = e

(* Event e may come next in an execution that has reported t. *)
MayTell(t, e) ==
  CASE e = "reqResponse"            -> t = <<>>
    [] e = "cliResponse"            -> Just(t, "reqResponse")
    [] e \in {"reqFault", "rpcError"} -> Just(t, "cliResponse")
    [] e = "reqSuccess"             -> Just(t, "cliResponse")
    [] e = "reqError"               -> t # <<>> /\ t[Len(t)] \in {"cliResponse", "reqFault", "rpcError"}
    [] e = "cliSuccess"             -> Just(t, "reqSuccess")
    [] e = "cliError"               -> Just(t, "reqError")
    [] e = "gqlErrors"              -> Just(t, "cliSuccess") \/ Just(t, "cliError")
    [] e = "observability"          -> Just(t, "cliSuccess") \/ Just(t, "cliError")
                                         \/ Just(t, "gqlErrors")

Complete(t) == Just(t, "observability")

Init == told = <<>>

Begin == told' = Append(told, <<>>)

Tell ==
  /\ told # <<>>
  /\ \E e \in Events :
       /\ MayTell(told[Len(told)], e)
       /\ told' = [told EXCEPT ![Len(told)] = Append(@, e)]

Finish ==
  /\ told # <<>> /\ Complete(told[Len(told)])
  /\ told' = SubSeq(told, 1, Len(told) - 1)

Next == Begin \/ Tell \/ Finish

Spec == Init /\ [][Next]_told

=============================================================================
