------------------------- MODULE MCRequestExecution -------------------------
(* Small instances of RequestExecution for TLC, and what the documentation *)
(* says of the callbacks.                                                  *)
EXTENDS RequestExecution

AllKinds == {"rest", "soap", "graphql", "jsonrpc"}
Rest     == {"rest"}

OkOrError == {200, 500}

(* maxRetry is at the bound that stands for INT_MAX. *)
Extreme == {1}

-----------------------------------------------------------------------------
(* "executed when any request finishes with a 2xx HTTP status code":       *)
(* esp32httpclient.md on onSuccess(), which execute() also calls with the  *)
(* status of an earlier request.                                           *)
SuccessIsAnswered ==
  \A i \in DOMAIN stack : Told(stack[i], "cliSuccess") => Is2xx(stack[i].answered)

=============================================================================
