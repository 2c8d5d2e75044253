------------------------ MODULE BufferedStreamReader ------------------------
(***************************************************************************)
(* BufferedStreamReader.cpp: the buffer between the socket and the         *)
(* parsers.  It removes the chunked transfer coding, waits for bytes that  *)
(* have not arrived, and gives up after TIMEOUT_MS of waiting.             *)
(*                                                                         *)
(* The parser, the network task that fills the socket and the millisecond  *)
(* clock run concurrently.  A wait loop of the code is two steps, the poll *)
(* of available() and the comparison of millis(), so a byte may arrive     *)
(* between them.  A byte is its position in Wire; the hexadecimal digits   *)
(* of a chunk header are one item that carries the number, a chunk         *)
(* extension or a trailer line is one item "ext".                          *)
(***************************************************************************)
EXTENDS Integers, Sequences

CONSTANTS
  Mode,        (* which constructor built the reader                   *)
  Wire,        (* what the server sends after the response headers     *)
  BUF_SIZE,    (* capacity of _buf                                     *)
  TIMEOUT_MS,  (* longest wait for one byte, in clock units            *)
  CLOCK_MOD    (* millis() counts modulo this (2^32 on the target)     *)

Modes == {"string", "plain", "chunked"}

Kind(p) == Wire[p].kind

(* The position of the LF that ends the chunk header whose size is at p. *)
HeaderEnd(p) == IF Kind(p + 1) = "ext" THEN p + 3 ELSE p + 2

(* A chunk: size, CRLF, that many bytes, CRLF, then the next header.  The  *)
(* chunk of size zero is the last: neither a size nor a body byte follows. *)
WellFramed ==
  /\ Wire # <<>> /\ Kind(1) = "size"
  /\ \A p \in DOMAIN Wire : Kind(p) = "size" =>
       LET q == HeaderEnd(p)
           n == Wire[p].n
       IN  /\ q \in DOMAIN Wire
           /\ Kind(q - 1) = "CR" /\ Kind(q) = "LF"
           /\ n > 0 => /\ q + n + 3 \in DOMAIN Wire
                       /\ \A r \in q + 1 .. q + n : Kind(r) = "data"
                       /\ Kind(q + n + 1) = "CR" /\ Kind(q + n + 2) = "LF"
                       /\ Kind(q + n + 3) = "size"
           /\ n = 0 => \A r \in DOMAIN Wire :
                         r > q => Kind(r) \notin {"data", "size"}

ASSUME WireAssumption ==
  /\ Mode \in Modes
  /\ Wire \in Seq([kind : {"size", "ext", "CR", "LF", "data"}, n : Nat])
  /\ Mode = "chunked" => WellFramed

ASSUME SizeAssumption ==
  /\ BUF_SIZE \in Nat \ {0}
  /\ TIMEOUT_MS \in Nat \ {0}
  /\ CLOCK_MOD \in Nat /\ CLOCK_MOD > TIMEOUT_MS

Body == IF Mode = "chunked" THEN {p \in DOMAIN Wire : Kind(p) = "data"}
                            ELSE DOMAIN Wire

VARIABLES
  (* the socket, the network and the clock *)
  arrived,         (* bytes of Wire that reached the socket             *)
  taken,           (* bytes of Wire the reader took from the socket     *)
  broken,          (* the socket fails every read                       *)
  now,             (* millis()                                          *)
  (* the reader's members *)
  buf,             (* _buf[0 .. _len)                                   *)
  pos,             (* _pos                                              *)
  chunkRemaining,  (* _chunkRemaining                                   *)
  eof,             (* _eof                                              *)
  (* the call in progress *)
  pc,              (* where refill() waits; "caller" outside a call     *)
  call,            (* which member function runs                        *)
  hexBuf,          (* the header line so far, Empty or its number       *)
  skip,            (* readRawByte() calls left of a pair                *)
  start,           (* millis() when the wait began                      *)
  idle,            (* the poll of this wait loop found no byte          *)
  (* what the caller saw *)
  last,            (* the byte it consumed last                         *)
  reply            (* the answer to its latest call                     *)

net    == <<arrived, broken, now>>
caller == <<last, reply>>
vars   == <<arrived, taken, broken, now, buf, pos, chunkRemaining, eof, pc,
            call, hexBuf, skip, start, idle, last, reply>>

Abstract == INSTANCE ByteSource

Empty   == -1
NoByte  == Abstract!NoByte
Calls   == {"available", "read", "peek"}
Waits   == {"plain", "header", "data", "crlf", "final"}

(* millis() - start, in unsigned arithmetic. *)
Elapsed == (now - start) % CLOCK_MOD

(* Mutants: the clock compared with a deadline, wrapped or not. *)
ExpiredWrapped  == now >= (start + TIMEOUT_MS) % CLOCK_MOD
ExpiredDeadline == now >= start + TIMEOUT_MS

Expired == Elapsed >= TIMEOUT_MS

(* What bounds one readBytes() of chunk data. *)
LimitsNoRoom  == {chunkRemaining, arrived - taken}
LimitsNoChunk == {BUF_SIZE - Len(buf), arrived - taken}
Limits        == {chunkRemaining, BUF_SIZE - Len(buf), arrived - taken}

TypeOK ==
  /\ arrived \in 0 .. Len(Wire) /\ taken \in 0 .. arrived
  /\ broken \in BOOLEAN /\ eof \in BOOLEAN /\ idle \in BOOLEAN
  /\ now \in 0 .. CLOCK_MOD - 1 /\ start \in 0 .. CLOCK_MOD - 1
  /\ buf \in Seq(Body)
  /\ Mode # "string" => Len(buf) <= BUF_SIZE
  /\ pos \in 0 .. Len(buf)
  /\ chunkRemaining \in Nat
  /\ pc \in Waits \cup {"caller"}
  /\ call \in Calls
  /\ hexBuf \in Nat \cup {Empty}
  /\ skip \in 0 .. 2
  /\ last \in Body \cup {0}
  /\ reply \in Body \cup {NoByte, Abstract!Unasked}

Init ==
  /\ arrived = 0 /\ taken = 0 /\ broken = FALSE
  /\ now \in 0 .. CLOCK_MOD - 1 /\ start = 0
  /\ buf = IF Mode = "string" THEN [p \in DOMAIN Wire |-> p] ELSE <<>>
  /\ pos = 0
  /\ chunkRemaining = 0
  /\ eof = FALSE
  /\ pc = "caller" /\ call = "available"
  /\ hexBuf = Empty /\ skip = 0 /\ idle = FALSE
  /\ last = 0 /\ reply = Abstract!Unasked

-----------------------------------------------------------------------------
(* The environment. *)

Arrive ==
  /\ arrived < Len(Wire) /\ Mode # "string"
  /\ arrived' = arrived + 1
  /\ UNCHANGED <<taken, broken, now, buf, pos, chunkRemaining, eof, pc, call,
                 hexBuf, skip, start, idle, last, reply>>

Break ==
  /\ ~broken /\ Mode # "string"
  /\ broken' = TRUE
  /\ UNCHANGED <<arrived, taken, now, buf, pos, chunkRemaining, eof, pc, call,
                 hexBuf, skip, start, idle, last, reply>>

(* A waiting reader is scheduled before the clock runs on past an expired  *)
(* wait: yield() returns long before the counter could wrap around.        *)
Tick ==
  /\ pc # "caller" => ~Expired
  /\ now' = (now + 1) % CLOCK_MOD
  /\ UNCHANGED <<arrived, taken, broken, buf, pos, chunkRemaining, eof, pc,
                 call, hexBuf, skip, start, idle, last, reply>>

-----------------------------------------------------------------------------
(* Building blocks of the reader's steps. *)

(* Mutant: peek() consumes the byte. *)
ReturnPeekConsumes(op, b, p) ==
  /\ pc' = "caller"
  /\ buf' = b
  /\ IF p < Len(b)
     THEN /\ reply' = b[p + 1]
          /\ pos'   = p + 1
          /\ last'  = IF op = "read" THEN b[p + 1] ELSE last
     ELSE /\ reply' = NoByte
          /\ pos' = p
          /\ UNCHANGED last
  /\ hexBuf' = Empty /\ skip' = 0 /\ start' = 0 /\ idle' = FALSE

(* The call returns to its caller with b buffered and p bytes of it read; *)
(* the local variables of refill() are gone.                              *)
Return(op, b, p) ==
  /\ pc' = "caller"
  /\ buf' = b
  /\ IF p < Len(b)
     THEN /\ reply' = b[p + 1]
          /\ pos'   = IF op = "read" THEN p + 1 ELSE p
          /\ last'  = IF op = "read" THEN b[p + 1] ELSE last
     ELSE /\ reply' = NoByte
          /\ pos' = p
          /\ UNCHANGED last
  /\ hexBuf' = Empty /\ skip' = 0 /\ start' = 0 /\ idle' = FALSE

(* refill() goes on in wait loop w. *)
WaitIn(w) ==
  /\ pc' = w
  /\ start' = now
  /\ idle' = FALSE

(* The head of the loop over chunks, with the buffer already extended. *)
NextChunk(b, remaining) ==
  IF Len(b) < BUF_SIZE
  THEN /\ WaitIn(IF remaining = 0 THEN "header" ELSE "data")
       /\ hexBuf' = Empty
       /\ buf' = b
       /\ UNCHANGED <<pos, skip, caller>>
  ELSE Return(call, b, 0)

(* One of two readRawByte() calls whose result is ignored is over. *)
Skipped ==
  IF skip > 1
  THEN /\ WaitIn(pc)
       /\ skip' = skip - 1
       /\ UNCHANGED <<buf, pos, eof, hexBuf, caller>>
  ELSE IF pc = "final"
       THEN /\ eof' = TRUE
            /\ Return(call, buf, 0)
       ELSE /\ NextChunk(buf, chunkRemaining)
            /\ UNCHANGED eof

(* Mutant: what is buffered is dropped ("return false"). *)
GiveUpEmpty ==
  /\ eof' = TRUE
  /\ Return(call, <<>>, 0)

(* refill() gives up: what it has buffered is still delivered. *)
GiveUp ==
  /\ eof' = TRUE
  /\ Return(call, buf, 0)

-----------------------------------------------------------------------------
(* The reader. *)

(* available(), read() and peek(): from the buffer, or at the end, at once;*)
(* otherwise refill() is entered.                                          *)
Call(op) ==
  /\ pc = "caller"
  /\ call' = op
  /\ IF pos < Len(buf) \/ eof \/ Mode = "string"
     THEN /\ Return(op, buf, pos)
          /\ UNCHANGED <<chunkRemaining, eof>>
     ELSE /\ buf' = <<>> /\ pos' = 0
          /\ WaitIn(IF Mode = "plain" THEN "plain"
                    ELSE IF chunkRemaining = 0 THEN "header" ELSE "data")
          /\ hexBuf' = Empty
          /\ UNCHANGED <<chunkRemaining, eof, skip, caller>>
  /\ UNCHANGED <<net, taken>>

(* The poll of available() in a wait loop finds nothing. *)
PollEmpty ==
  /\ pc # "caller" /\ ~idle
  /\ taken = arrived
  /\ idle' = TRUE
  /\ UNCHANGED <<net, taken, buf, pos, chunkRemaining, eof, pc, call, hexBuf,
                 skip, start, caller>>

(* ... then the clock is compared: yield() and poll again, or time out. *)
PollAgain ==
  /\ idle /\ ~Expired
  /\ idle' = FALSE
  /\ UNCHANGED <<net, taken, buf, pos, chunkRemaining, eof, pc, call, hexBuf,
                 skip, start, caller>>

TimeOut ==
  /\ idle /\ Expired
  /\ IF pc \in {"crlf", "final"} THEN Skipped ELSE GiveUp
  /\ UNCHANGED <<net, taken, chunkRemaining, call>>

(* The poll finds bytes: the wait loop w is left. *)
Ready(w) == pc = w /\ ~idle /\ taken < arrived

(* refill() without chunks: whatever is there, up to the buffer's size. *)
ReadPlain ==
  /\ Ready("plain")
  /\ LET avail == arrived - taken
         k == IF broken THEN 0 ELSE IF avail < BUF_SIZE THEN avail ELSE BUF_SIZE
     IN  /\ taken' = taken + k
         /\ eof' = (k = 0)
         /\ Return(call, [i \in 1 .. k |-> taken + i], 0)
  /\ UNCHANGED <<net, chunkRemaining, call>>

(* The characters of a header line other than its LF.  CR is dropped, and  *)
(* what follows the number is cut off.                                     *)
ReadHeader ==
  /\ Ready("header") /\ ~broken /\ Kind(taken + 1) # "LF"
  /\ taken' = taken + 1
  /\ hexBuf' = IF Kind(taken + 1) # "CR" /\ hexBuf = Empty
               THEN Wire[taken + 1].n ELSE hexBuf
  /\ WaitIn("header")
  /\ UNCHANGED <<net, buf, pos, chunkRemaining, eof, call, skip, caller>>

(* The LF: an empty line is ignored, zero is the last chunk. *)
ReadHeaderEnd ==
  /\ Ready("header") /\ ~broken /\ Kind(taken + 1) = "LF"
  /\ taken' = taken + 1
  /\ CASE hexBuf = Empty -> /\ NextChunk(buf, 0)
                            /\ UNCHANGED chunkRemaining
       [] hexBuf = 0     -> /\ WaitIn("final")
                            /\ skip' = 2
                            /\ UNCHANGED <<buf, pos, hexBuf, chunkRemaining, caller>>
       [] OTHER          -> /\ WaitIn("data")
                            /\ chunkRemaining' = hexBuf
                            /\ UNCHANGED <<buf, pos, hexBuf, skip, caller>>
  /\ UNCHANGED <<net, eof, call>>

(* Bytes of a chunk: no more than it has left, than fit, than are there. *)
ReadData ==
  /\ Ready("data") /\ ~broken
  /\ \E k \in 1 .. BUF_SIZE :
       LET b == buf \o [i \in 1 .. k |-> taken + i] IN
       /\ k \in Limits /\ \A m \in Limits : k <= m
       /\ taken' = taken + k
       /\ chunkRemaining' = chunkRemaining - k
       /\ IF chunkRemaining = k
          THEN /\ WaitIn("crlf")
               /\ skip' = 2
               /\ buf' = b
               /\ UNCHANGED <<pos, hexBuf, caller>>
          ELSE NextChunk(b, chunkRemaining - k)
  /\ UNCHANGED <<net, eof, call>>

(* readRawByte() for the CRLF after a chunk: any byte will do. *)
SkipByte ==
  /\ Ready("crlf") \/ Ready("final")
  /\ ~broken
  /\ taken' = taken + 1
  /\ Skipped
  /\ UNCHANGED <<net, chunkRemaining, call>>

(* The socket reports bytes and fails to give them: read() and readBytes() *)
(* return nothing.                                                         *)
ReadFails ==
  /\ broken
  /\ \/ /\ Ready("header") \/ Ready("data")
        /\ GiveUp
     \/ /\ Ready("crlf") \/ Ready("final")
        /\ Skipped
  /\ UNCHANGED <<net, taken, chunkRemaining, call>>

Refill ==
  \/ PollEmpty \/ PollAgain \/ TimeOut
  \/ ReadPlain \/ ReadHeader \/ ReadHeaderEnd \/ ReadData
  \/ SkipByte \/ ReadFails

Next ==
  \/ Arrive \/ Break \/ Tick
  \/ \E op \in Calls : Call(op)
  \/ Refill

(* A call runs on: its task is scheduled, and time passes. *)
Fairness == WF_vars(Refill) /\ WF_vars(Tick)

Spec == Init /\ [][Next]_vars /\ Fairness

-----------------------------------------------------------------------------
(* Safety. *)

(* The reader never loses its place in the chunked coding, although it     *)
(* skips the CRLF after a chunk without looking and goes on after a        *)
(* timeout there: a character taken for a header line stands in a header   *)
(* or on the CRLF before it, a size is only met at the start of a line, and*)
(* what is taken for data is data (refill(), lines 77-129).                *)
FramingKept ==
  /\ Ready("header") => /\ Kind(taken + 1) # "data"
                        /\ Kind(taken + 1) = "size" => hexBuf = Empty
                        /\ Kind(taken + 1) = "ext" => hexBuf # Empty
  /\ Ready("data") =>
       /\ chunkRemaining > 0
       /\ \A p \in taken + 1 .. taken + chunkRemaining :
            p \in DOMAIN Wire /\ Kind(p) = "data"
  /\ Ready("crlf") => Kind(taken + 1) \in {"CR", "LF"}

(* Bytes taken from the socket are never lost: each one of the body is     *)
(* consumed or still to be delivered, also when refill() gives up half way *)
(* ("return _len > 0", lines 84, 107, 116, 122).                           *)
NothingLost ==
  \A p \in Body : p <= taken =>
    p <= last \/ \E i \in pos + 1 .. Len(buf) : buf[i] = p

(* Every call returns, whatever the network does. *)
CallReturns == pc # "caller" ~> pc = "caller"

(* The reader implements the byte source the parsers expect. *)
ImplementsByteSource == Abstract!Spec

=============================================================================
