----------------------- MODULE MCBufferedStreamReader -----------------------
(* Small instances of BufferedStreamReader for TLC, with a history of how  *)
(* long the reader has waited.                                             *)
EXTENDS BufferedStreamReader

(* Wire items *)
Item(k)  == [kind |-> k, n |-> 0]
Size(k)  == <<[kind |-> "size", n |-> k]>>
CRLF     == <<Item("CR"), Item("LF")>>
Ext      == <<Item("ext")>>
Data(k)  == [i \in 1 .. k |-> Item("data")]
Chunk(k) == Size(k) \o CRLF \o Data(k) \o CRLF

(* A chunk shorter than the buffer, one with an extension that does not    *)
(* fit into the buffer, the last chunk and a trailer line.                 *)
ChunkedWire == Chunk(1) \o Size(4) \o Ext \o CRLF \o Data(4) \o CRLF
               \o Size(0) \o CRLF \o Ext \o CRLF \o CRLF

PlainWire == Data(6)

-----------------------------------------------------------------------------
VARIABLE waited  (* clock units since the call began or a byte was taken *)

MCInit == Init /\ waited = 0

MCNext ==
  /\ Next
  /\ waited' = IF pc' = "caller" \/ pc = "caller" \/ taken' # taken THEN 0
               ELSE IF now' # now /\ waited < TIMEOUT_MS THEN waited + 1
               ELSE waited

MCSpec == MCInit /\ [][MCNext]_<<vars, waited>> /\ Fairness

(* The whole body has been taken, in chunked mode with the last header. *)
BodyOver ==
  \A p \in DOMAIN Wire : p \in Body \/ Kind(p) = "size" => p <= taken'

(* The body ends only when it is over, when nothing came for TIMEOUT_MS,   *)
(* or when the socket fails: a slow answer is not cut short by a clock     *)
(* that wraps or by a wait that goes on from the start of another one      *)
(* (readRawByte(), 48-55, and the waits of refill(), 62-67 and 114-118).   *)
EndJustified ==
  [][eof' /\ ~eof => BodyOver \/ waited >= TIMEOUT_MS \/ broken]_<<vars, waited>>

=============================================================================
