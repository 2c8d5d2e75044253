---------------------- MODULE RequestExecution_proofs ----------------------
(* Theorems about RequestExecution, for every number of request objects,   *)
(* requests and nested executions, all retries and all codes of a server.  *)
EXTENDS RequestExecution, SequenceTheorems, TLAPS

-----------------------------------------------------------------------------
(* The inductive invariant.  f is an execution, r its request object, and  *)
(* fault the user's SoapFault.                                             *)

(* An execution counts its retries; what was answered is its code, and it  *)
(* is answered only when it is through with its attempts.                  *)
Attempting(f, r) ==
  /\ r.executed
  /\ f.retries <= r.maxRetry
  /\ f.attempts <= 1 + f.retries
  /\ f.pc = "attempt" => f.attempts = f.retries /\ f.answered = 0
  /\ f.answered # 0 => f.code = f.answered
  /\ f.connected /\ f.pc # "attempt" => f.code = f.answered \/ ~Is2xx(f.code)

(* The last callback told is the one at work, and the outcomes told are    *)
(* those of its code.                                                      *)
Reporting(f) ==
  /\ f.pc \in {"attempt", "over"} => f.told = <<>>
  /\ f.pc \in Callbacks => f.told # <<>> /\ f.told[Len(f.told)] = f.pc
  /\ Told(f, "reqSuccess") => Is2xx(f.code)
  /\ Told(f, "reqError") /\ ~f.interrupted => f.errMsg = f.code

(* What made a fault or an error be reported is still there when its       *)
(* callback has returned, so that the outcome will be an error.            *)
Detailed(f, r, fault) ==
  /\ f.pc = "reqFault" => r.kind = "soap" /\ (IF r.target THEN fault ELSE f.localFault)
  /\ f.pc = "rpcError" => r.kind = "jsonrpc" /\ r.errors

Sound(f, r, fault) ==
  /\ f \in Frames /\ r \in Requests /\ fault \in BOOLEAN
  /\ Attempting(f, r) /\ Reporting(f) /\ Detailed(f, r, fault)

Executions == \A i \in DOMAIN stack : Sound(stack[i], Req(stack[i]), userFault)

(* No object is executed twice at a time; only the innermost execution may *)
(* not have been interrupted, and then the status of the client is its own.*)
Nesting ==
  /\ \A i, j \in DOMAIN stack : stack[i].o = stack[j].o => i = j
  /\ \A i \in DOMAIN stack : ~stack[i].interrupted =>
       /\ i = Len(stack)
       /\ stack[i].pc # "attempt" => lastStatus = stack[i].code

(* An object that holds a request is marked as executed if the request was,*)
(* or was moved on; and one object at most is live.                        *)
Unexecuted(i) == runs[i].explicit + runs[i].implicit = 0

Holds(o, i) == obj[o] # NoObject /\ obj[o].id = i

Ownership ==
  /\ \A o \in Objects : obj[o] # NoObject =>
       /\ obj[o].id \in 1 .. made
       /\ obj[o].live => (obj[o].executed <=> ~Unexecuted(obj[o].id))
       /\ ~obj[o].live => obj[o].executed
  /\ \A i \in 1 .. made : \A o, p \in Objects :
       Holds(o, i) /\ Holds(p, i) /\ obj[o].live /\ obj[p].live => o = p

(* A request not executed is in a live object; one that a destructor       *)
(* executes is in no live object besides.                                  *)
InDestructor(o) == \E d \in DOMAIN stack : stack[d].o = o /\ stack[d].inDestructor

Accounts ==
  /\ \A i \in 1 .. MaxMade :
       /\ runs[i].implicit <= 1
       /\ runs[i].implicit = 1 => runs[i].explicit = 0
       /\ i > made => Unexecuted(i)
       /\ i <= made /\ Unexecuted(i) => \E o \in Objects : Holds(o, i) /\ obj[o].live
  /\ \A i \in 1 .. made : \A o \in Objects :
       Holds(o, i) /\ obj[o].live /\ runs[i].implicit = 1 => InDestructor(o)

IInv == TypeOK /\ Executions /\ Nesting /\ Ownership /\ Accounts

-----------------------------------------------------------------------------
(* Sequences: the last element replaced, one appended, the last removed.   *)

LEMMA Replaced ==
  ASSUME NEW S, NEW s \in Seq(S), s # <<>>, NEW e \in S
  PROVE  /\ Len(s) \in Nat \ {0} /\ Len(s) \in DOMAIN s
         /\ [s EXCEPT ![Len(s)] = e] \in Seq(S)
         /\ Len([s EXCEPT ![Len(s)] = e]) = Len(s)
         /\ DOMAIN [s EXCEPT ![Len(s)] = e] = DOMAIN s
         /\ [s EXCEPT ![Len(s)] = e][Len(s)] = e
         /\ \A i \in DOMAIN s : i # Len(s) => [s EXCEPT ![Len(s)] = e][i] = s[i]
OBVIOUS

LEMMA Appended ==
  ASSUME NEW S, NEW s \in Seq(S), NEW e \in S
  PROVE  /\ Append(s, e) \in Seq(S)
         /\ Append(s, e) # <<>>
         /\ Len(Append(s, e)) = Len(s) + 1
         /\ DOMAIN Append(s, e) = DOMAIN s \cup {Len(s) + 1}
         /\ Append(s, e)[Len(s) + 1] = e
         /\ \A i \in DOMAIN s : i # Len(s) + 1 /\ Append(s, e)[i] = s[i]
OBVIOUS

LEMMA Shortened ==
  ASSUME NEW S, NEW s \in Seq(S), s # <<>>
  PROVE  /\ SubSeq(s, 1, Len(s) - 1) \in Seq(S)
         /\ Len(SubSeq(s, 1, Len(s) - 1)) = Len(s) - 1
         /\ DOMAIN SubSeq(s, 1, Len(s) - 1) = DOMAIN s \ {Len(s)}
         /\ \A i \in DOMAIN s \ {Len(s)} : SubSeq(s, 1, Len(s) - 1)[i] = s[i]
<1>. DEFINE t == SubSeq(s, 1, Len(s) - 1)
<1>1. Len(s) \in Nat \ {0} /\ DOMAIN s = 1 .. Len(s) /\ \A i \in 1 .. Len(s) : s[i] \in S
  OBVIOUS
<1>2. t \in Seq(S)
  BY <1>1
<1>3. Len(t) = Len(s) - 1
  BY <1>1
<1>4. DOMAIN t = 1 .. Len(s) - 1
  BY <1>2, <1>3
<1>5. \A i \in 1 .. Len(s) - 1 : t[i] = s[i]
  BY <1>1
<1>. QED  BY <1>1, <1>2, <1>3, <1>4, <1>5

LEMMA LastOf ==
  ASSUME NEW S, NEW s \in Seq(S), s # <<>>
  PROVE  Len(s) \in Nat \ {0} /\ Len(s) \in DOMAIN s /\ s[Len(s)] \in S
OBVIOUS

-----------------------------------------------------------------------------
(* Frames. *)

Codes == ServerCodes \cup {0, Failed, TLS_NOT_VALIDATED}

LEMMA FrameFields ==
  ASSUME NEW f \in Frames
  PROVE  /\ f.o \in Objects /\ f.inDestructor \in BOOLEAN /\ f.connected \in BOOLEAN
         /\ f.pc \in Callbacks \cup {"attempt", "over"}
         /\ f.code \in Codes /\ f.code \in Int
         /\ f.retries \in Nat /\ f.retries <= INT_MAX /\ f.localFault \in BOOLEAN
         /\ f.attempts \in Nat /\ f.answered \in ServerCodes \cup {0}
         /\ f.errorSent \in BOOLEAN /\ f.told \in Seq(Callbacks)
         /\ f.interrupted \in BOOLEAN /\ f.errMsg \in Codes
<1>1. /\ f.o \in Objects /\ f.inDestructor \in BOOLEAN /\ f.connected \in BOOLEAN
      /\ f.pc \in Callbacks \cup {"attempt", "over"}
      /\ f.code \in Codes
      /\ f.retries \in 0 .. INT_MAX /\ f.localFault \in BOOLEAN
      /\ f.attempts \in 0 .. INT_MAX + 1 /\ f.answered \in ServerCodes \cup {0}
      /\ f.errorSent \in BOOLEAN /\ f.told \in Seq(Callbacks)
      /\ f.interrupted \in BOOLEAN /\ f.errMsg \in Codes
  BY DEF Frames, Codes
<1>2. Codes \subseteq Int
  BY CodeAssumption DEF Codes, Failed, TLS_NOT_VALIDATED
<1>3. INT_MAX \in Nat
  BY BoundAssumption
<1>4. f.retries \in Nat /\ f.retries <= INT_MAX /\ f.attempts \in Nat
  BY <1>1, <1>3
<1>5. f.code \in Int
  BY <1>1, <1>2
<1>. QED  BY <1>1, <1>4, <1>5

LEMMA RequestFields ==
  ASSUME NEW r \in Requests
  PROVE  /\ r.id \in 1 .. MaxMade /\ r.kind \in Kinds
         /\ r.maxRetry \in Nat /\ r.maxRetry <= INT_MAX
         /\ r.target \in BOOLEAN /\ r.executed \in BOOLEAN
         /\ r.live \in BOOLEAN /\ r.errors \in BOOLEAN
         /\ r # NoObject
<1>1. /\ r.id \in 1 .. MaxMade /\ r.kind \in Kinds /\ r.maxRetry \in Retries
      /\ r.target \in BOOLEAN /\ r.executed \in BOOLEAN
      /\ r.live \in BOOLEAN /\ r.errors \in BOOLEAN
  BY DEF Requests
<1>2. r.maxRetry \in Nat /\ r.maxRetry <= INT_MAX
  <2>1. r.maxRetry \in 0 .. INT_MAX
    BY <1>1, BoundAssumption
  <2>. QED  BY <2>1, BoundAssumption
<1>3. r # NoObject
  BY <1>1, BoundAssumption DEF NoObject
<1>. QED  BY <1>1, <1>2, <1>3

(* A frame that is interrupted keeps everything else. *)
LEMMA MarkedFrame ==
  ASSUME NEW f \in Frames
  PROVE  LET g == [f EXCEPT !.interrupted = TRUE] IN
         /\ g \in Frames /\ g.interrupted
         /\ g.o = f.o /\ g.inDestructor = f.inDestructor /\ g.connected = f.connected
         /\ g.pc = f.pc /\ g.code = f.code /\ g.retries = f.retries
         /\ g.localFault = f.localFault /\ g.attempts = f.attempts
         /\ g.answered = f.answered /\ g.told = f.told /\ g.errMsg = f.errMsg
BY DEF Frames

(* A request object that keeps what its execution depends on, ... *)
SameRequest(r, q) ==
  /\ q.kind = r.kind /\ q.maxRetry = r.maxRetry /\ q.target = r.target
  /\ (r.executed => q.executed) /\ (r.errors => q.errors)

(* ... keeps the execution sound, and so does an interruption. *)
LEMMA SoundKept ==
  ASSUME NEW f, NEW r, NEW b, Sound(f, r, b),
         NEW q \in Requests, SameRequest(r, q), NEW c \in BOOLEAN, b => c
  PROVE  Sound(f, q, c)
<1>1. f \in Frames /\ r \in Requests /\ Attempting(f, r) /\ Reporting(f) /\ Detailed(f, r, b)
  BY DEF Sound
<1>2. Attempting(f, q)
  BY <1>1 DEF Attempting, SameRequest
<1>3. Detailed(f, q, c)
  BY <1>1 DEF Detailed, SameRequest
<1>. QED  BY <1>1, <1>2, <1>3 DEF Sound

LEMMA SoundMarked ==
  ASSUME NEW f, NEW r, NEW b, Sound(f, r, b)
  PROVE  Sound([f EXCEPT !.interrupted = TRUE], r, b)
<1>. DEFINE g == [f EXCEPT !.interrupted = TRUE]
<1>1. f \in Frames /\ r \in Requests /\ b \in BOOLEAN
  BY DEF Sound
<1>2. Attempting(f, r) /\ Reporting(f) /\ Detailed(f, r, b)
  BY DEF Sound
<1>3. /\ g \in Frames /\ g.interrupted /\ g.connected = f.connected
      /\ g.pc = f.pc /\ g.code = f.code /\ g.retries = f.retries
      /\ g.localFault = f.localFault /\ g.attempts = f.attempts
      /\ g.answered = f.answered /\ g.told = f.told /\ g.errMsg = f.errMsg
  BY <1>1, MarkedFrame
<1>. HIDE DEF g
<1>4. Attempting(g, r)
  BY <1>2, <1>3 DEF Attempting
<1>5. Reporting(g)
  BY <1>2, <1>3 DEF Reporting, Told
<1>6. Detailed(g, r, b)
  BY <1>2, <1>3 DEF Detailed
<1>7. Sound(g, r, b)
  BY <1>1, <1>3, <1>4, <1>5, <1>6 DEF Sound
<1>. QED  BY <1>7 DEF g

(* An execution that begins: without a connection it may find any status.  *)
First(o, d, connected, pc, c) ==
  [o |-> o, inDestructor |-> d, connected |-> connected, pc |-> pc,
   code |-> c, retries |-> 0, localFault |-> FALSE,
   attempts |-> 0, answered |-> 0, errorSent |-> FALSE,
   told |-> <<>>, interrupted |-> FALSE, errMsg |-> 0]

LEMMA SoundFirst ==
  ASSUME NEW o \in Objects, NEW d \in BOOLEAN, NEW connected \in BOOLEAN,
         NEW pc \in {"attempt", "over"}, NEW c \in Codes, connected => c = 0,
         NEW r \in Requests, r.executed, NEW b \in BOOLEAN
  PROVE  Sound(First(o, d, connected, pc, c), r, b)
<1>. DEFINE f == First(o, d, connected, pc, c)
<1>0. 0 \in 0 .. INT_MAX /\ 0 \in 0 .. INT_MAX + 1
  BY BoundAssumption
<1>1. f \in Frames
  BY <1>0 DEF First, Frames, Codes
<1>2. /\ f.connected = connected /\ f.pc = pc /\ f.code = c /\ f.retries = 0
      /\ f.attempts = 0 /\ f.answered = 0 /\ f.told = <<>>
  BY DEF First
<1>. HIDE DEF f
<1>3. Attempting(f, r)
  BY <1>2, RequestFields DEF Attempting, Is2xx
<1>4. Reporting(f)
  BY <1>2 DEF Reporting, Told, Callbacks
<1>5. Detailed(f, r, b)
  BY <1>2 DEF Detailed
<1>6. Sound(f, r, b)
  BY <1>1, <1>3, <1>4, <1>5 DEF Sound
<1>. QED  BY <1>6 DEF f

(* An attempt that fails, with another one to come, ... *)
Retried(f) == [[f EXCEPT !.attempts = @ + 1] EXCEPT !.retries = @ + 1]

LEMMA SoundRetried ==
  ASSUME NEW f, NEW r, NEW b, Sound(f, r, b), f.pc = "attempt", f.retries < r.maxRetry
  PROVE  /\ Sound(Retried(f), r, b)
         /\ Retried(f).o = f.o /\ Retried(f).told = f.told /\ Retried(f).pc = f.pc
         /\ Retried(f).interrupted = f.interrupted /\ Retried(f).inDestructor = f.inDestructor
<1>. DEFINE g == Retried(f)
<1>1. f \in Frames /\ r \in Requests /\ b \in BOOLEAN
  BY DEF Sound
<1>2. Attempting(f, r) /\ Reporting(f) /\ Detailed(f, r, b)
  BY DEF Sound
<1>3. f.retries \in Nat /\ f.attempts = f.retries /\ r.maxRetry \in Nat /\ r.maxRetry <= INT_MAX
  BY <1>1, <1>2, FrameFields, RequestFields DEF Attempting
<1>4. f.attempts + 1 \in 0 .. INT_MAX + 1 /\ f.retries + 1 \in 0 .. INT_MAX
  BY <1>3, BoundAssumption
<1>5. /\ g \in Frames
      /\ g.attempts = f.attempts + 1 /\ g.retries = f.retries + 1
      /\ g.o = f.o /\ g.inDestructor = f.inDestructor /\ g.connected = f.connected
      /\ g.pc = f.pc /\ g.code = f.code /\ g.localFault = f.localFault
      /\ g.answered = f.answered /\ g.told = f.told
      /\ g.interrupted = f.interrupted /\ g.errMsg = f.errMsg
  BY <1>1, <1>4 DEF Frames, Retried
<1>. HIDE DEF g
<1>6. Attempting(g, r)
  BY <1>2, <1>3, <1>5 DEF Attempting
<1>7. Reporting(g)
  BY <1>2, <1>5 DEF Reporting, Told
<1>8. Detailed(g, r, b)
  BY <1>2, <1>5 DEF Detailed
<1>9. Sound(g, r, b)
  BY <1>1, <1>5, <1>6, <1>7, <1>8 DEF Sound
<1>. QED  BY <1>5, <1>9 DEF g

(* ... and the last one, which fails or is answered. *)
Left(f, c) == [f EXCEPT !.code = c, !.pc = "over"]

Missed(f) == Left([f EXCEPT !.attempts = @ + 1], Failed)

AnsweredBy(f, c, e) ==
  Left([[f EXCEPT !.attempts = @ + 1, !.answered = c, !.errorSent = e] EXCEPT !.localFault = e], c)

LEMMA SoundMissed ==
  ASSUME NEW f, NEW r, NEW b, Sound(f, r, b), f.pc = "attempt"
  PROVE  /\ Sound(Missed(f), r, b)
         /\ Missed(f).o = f.o /\ Missed(f).told = f.told /\ Missed(f).code = Failed
         /\ Missed(f).interrupted = f.interrupted /\ Missed(f).inDestructor = f.inDestructor
<1>. DEFINE g == Missed(f)
<1>1. f \in Frames /\ r \in Requests /\ b \in BOOLEAN
  BY DEF Sound
<1>2. Attempting(f, r) /\ Reporting(f)
  BY DEF Sound
<1>3. /\ f.retries \in Nat /\ f.attempts = f.retries /\ f.retries <= INT_MAX
      /\ f.answered = 0 /\ f.told = <<>>
  BY <1>1, <1>2, FrameFields DEF Attempting, Reporting
<1>4. f.attempts + 1 \in 0 .. INT_MAX + 1
  BY <1>3, BoundAssumption
<1>5. /\ g \in Frames
      /\ g.attempts = f.attempts + 1 /\ g.retries = f.retries /\ g.code = Failed /\ g.pc = "over"
      /\ g.o = f.o /\ g.inDestructor = f.inDestructor /\ g.connected = f.connected
      /\ g.answered = f.answered /\ g.told = f.told /\ g.interrupted = f.interrupted
  BY <1>1, <1>4 DEF Frames, Missed, Left
<1>. HIDE DEF g
<1>6. ~Is2xx(Failed)
  BY DEF Is2xx, Failed
<1>7. Attempting(g, r)
  BY <1>2, <1>3, <1>5, <1>6 DEF Attempting
<1>8. Reporting(g)
  BY <1>3, <1>5 DEF Reporting, Told, Callbacks
<1>9. Detailed(g, r, b)
  BY <1>5 DEF Detailed
<1>10. Sound(g, r, b)
  BY <1>1, <1>5, <1>7, <1>8, <1>9 DEF Sound
<1>. QED  BY <1>5, <1>10 DEF g

LEMMA SoundAnswered ==
  ASSUME NEW f, NEW r, NEW b, Sound(f, r, b), f.pc = "attempt",
         NEW c \in ServerCodes, NEW e \in BOOLEAN
  PROVE  /\ Sound(AnsweredBy(f, c, e), r, b)
         /\ AnsweredBy(f, c, e).o = f.o /\ AnsweredBy(f, c, e).told = f.told
         /\ AnsweredBy(f, c, e).code = c
         /\ AnsweredBy(f, c, e).interrupted = f.interrupted
         /\ AnsweredBy(f, c, e).inDestructor = f.inDestructor
<1>. DEFINE g == AnsweredBy(f, c, e)
<1>1. f \in Frames /\ r \in Requests /\ b \in BOOLEAN
  BY DEF Sound
<1>2. Attempting(f, r) /\ Reporting(f)
  BY DEF Sound
<1>3. /\ f.retries \in Nat /\ f.attempts = f.retries /\ f.retries <= INT_MAX
      /\ f.told = <<>>
  BY <1>1, <1>2, FrameFields DEF Attempting, Reporting
<1>4. f.attempts + 1 \in 0 .. INT_MAX + 1
  BY <1>3, BoundAssumption
<1>5. /\ g \in Frames
      /\ g.attempts = f.attempts + 1 /\ g.retries = f.retries /\ g.code = c /\ g.pc = "over"
      /\ g.o = f.o /\ g.inDestructor = f.inDestructor /\ g.connected = f.connected
      /\ g.answered = c /\ g.told = f.told /\ g.interrupted = f.interrupted
  BY <1>1, <1>4 DEF Frames, AnsweredBy, Left
<1>. HIDE DEF g
<1>6. Attempting(g, r)
  BY <1>2, <1>3, <1>5 DEF Attempting
<1>7. Reporting(g)
  BY <1>3, <1>5 DEF Reporting, Told, Callbacks
<1>8. Detailed(g, r, b)
  BY <1>5 DEF Detailed
<1>9. Sound(g, r, b)
  BY <1>1, <1>5, <1>6, <1>7, <1>8 DEF Sound
<1>. QED  BY <1>5, <1>9 DEF g

-----------------------------------------------------------------------------
(* The callbacks. *)

(* A callback is told, and is the one at work. *)
Telling(f, e, m) == [f EXCEPT !.pc = e, !.told = Append(@, e), !.errMsg = m]

LEMMA SoundTelling ==
  ASSUME NEW f, NEW r, NEW b, Sound(f, r, b), f.pc # "attempt",
         NEW e \in Callbacks, NEW m \in Codes,
         e = "reqSuccess" => Is2xx(f.code),
         e = "reqError" /\ ~f.interrupted => m = f.code,
         e # "reqError" => m = f.errMsg,
         e = "reqFault" => r.kind = "soap" /\ (IF r.target THEN b ELSE f.localFault),
         e = "rpcError" => r.kind = "jsonrpc" /\ r.errors
  PROVE  /\ Sound(Telling(f, e, m), r, b)
         /\ Telling(f, e, m).o = f.o /\ Telling(f, e, m).code = f.code
         /\ Telling(f, e, m).told = Append(f.told, e)
         /\ Telling(f, e, m).pc = e
         /\ Telling(f, e, m).interrupted = f.interrupted
         /\ Telling(f, e, m).inDestructor = f.inDestructor
<1>. DEFINE g == Telling(f, e, m)
<1>1. f \in Frames /\ r \in Requests /\ b \in BOOLEAN
  BY DEF Sound
<1>2. Attempting(f, r) /\ Reporting(f) /\ Detailed(f, r, b)
  BY DEF Sound
<1>3. f.told \in Seq(Callbacks)
  BY <1>1, FrameFields
<1>4. Append(f.told, e) \in Seq(Callbacks)
  BY <1>3
<1>5. /\ g \in Frames
      /\ g.attempts = f.attempts /\ g.retries = f.retries /\ g.code = f.code /\ g.pc = e
      /\ g.o = f.o /\ g.inDestructor = f.inDestructor /\ g.connected = f.connected
      /\ g.answered = f.answered /\ g.localFault = f.localFault
      /\ g.told = Append(f.told, e) /\ g.errMsg = m /\ g.interrupted = f.interrupted
  BY <1>1, <1>4 DEF Frames, Telling, Codes
<1>. HIDE DEF g
<1>6. e \notin {"attempt", "over"}
  BY DEF Callbacks
<1>7. Attempting(g, r)
  BY <1>2, <1>5, <1>6 DEF Attempting
<1>8. \A x : Told(g, x) => Told(f, x) \/ x = e
  BY <1>3, <1>5, Appended DEF Told
<1>9. Reporting(g)
  <2>1. g.told # <<>> /\ g.told[Len(g.told)] = g.pc
    BY <1>3, <1>5, Appended
  <2>2. Told(g, "reqSuccess") => Is2xx(g.code)
    BY <1>2, <1>5, <1>8 DEF Reporting
  <2>3. Told(g, "reqError") /\ ~g.interrupted => g.errMsg = g.code
    BY <1>2, <1>5, <1>8 DEF Reporting
  <2>. QED  BY <1>5, <1>6, <2>1, <2>2, <2>3 DEF Reporting
<1>10. Detailed(g, r, b)
  BY <1>5 DEF Detailed
<1>11. Sound(g, r, b)
  BY <1>1, <1>5, <1>7, <1>9, <1>10 DEF Sound
<1>. QED  BY <1>5, <1>11 DEF g

(* Which callback comes after which. *)
LEMMA Order ==
  ASSUME NEW f, Sound(f, Req(f), userFault), f.pc # "attempt"
  PROVE  /\ After(f) = "done" <=> f.pc = "observability"
         /\ f.pc # "observability" =>
              /\ After(f) \in Callbacks
              /\ Contract!MayTell(f.told, After(f))
              /\ After(f) = "reqSuccess" => Is2xx(f.code)
              /\ After(f) = "reqFault" => Req(f).kind = "soap" /\ Matched(f)
              /\ After(f) = "rpcError" => Req(f).kind = "jsonrpc" /\ Req(f).errors
<1>. DEFINE r == Req(f)
<1>1. /\ f \in Frames /\ Reporting(f) /\ Detailed(f, r, userFault)
  BY DEF Sound
<1>2. f.pc \in Callbacks \cup {"over"}
  BY <1>1, FrameFields
<1>3. f.pc = "over" => f.told = <<>>
  BY <1>1 DEF Reporting
<1>4. f.pc \in Callbacks => Contract!Just(f.told, f.pc)
  BY <1>1 DEF Reporting, Contract!Just
<1>5. CASE f.pc = "over"
  <2>1. After(f) = "reqResponse"
    BY <1>5 DEF After
  <2>. QED  BY <1>3, <1>5, <2>1 DEF Callbacks, Contract!MayTell
<1>6. CASE f.pc = "reqResponse"
  <2>1. After(f) = "cliResponse"
    BY <1>6 DEF After
  <2>. QED  BY <1>4, <1>6, <2>1 DEF Callbacks, Contract!MayTell
<1>7. CASE f.pc = "cliResponse"
  <2>1. After(f) = IF HasDetail(f) THEN Detail(f) ELSE Outcome(f)
    BY <1>7 DEF After
  <2>2. CASE r.kind = "soap" /\ Matched(f)
    <3>1. After(f) = "reqFault"
      BY <2>1, <2>2 DEF HasDetail, Detail
    <3>. QED  BY <1>4, <1>7, <2>2, <3>1 DEF Callbacks, Contract!MayTell
  <2>3. CASE ~(r.kind = "soap" /\ Matched(f)) /\ r.kind = "jsonrpc" /\ r.errors
    <3>1. After(f) = "rpcError"
      BY <2>1, <2>3 DEF HasDetail, Detail
    <3>. QED  BY <1>4, <1>7, <2>3, <3>1 DEF Callbacks, Contract!MayTell
  <2>4. CASE ~(r.kind = "soap" /\ Matched(f)) /\ ~(r.kind = "jsonrpc" /\ r.errors)
    <3>1. After(f) = IF Is2xx(f.code) THEN "reqSuccess" ELSE "reqError"
      BY <2>1, <2>4 DEF HasDetail, Detail, Outcome
    <3>. QED
      BY <1>4, <1>7, <3>1 DEF Callbacks, Contract!MayTell, Contract!Just
  <2>. QED  BY <2>2, <2>3, <2>4
<1>8. CASE f.pc \in {"reqFault", "rpcError"}
  <2>1. After(f) = Outcome(f)
    BY <1>8 DEF After
  <2>2. Outcome(f) = "reqError"
    BY <1>1, <1>8 DEF Outcome, Detailed, Matched
  <2>. QED  BY <1>4, <1>8, <2>1, <2>2 DEF Callbacks, Contract!MayTell, Contract!Just
<1>9. CASE f.pc = "reqSuccess"
  <2>1. After(f) = "cliSuccess"
    BY <1>9 DEF After
  <2>. QED  BY <1>4, <1>9, <2>1 DEF Callbacks, Contract!MayTell
<1>10. CASE f.pc = "reqError"
  <2>1. After(f) = "cliError"
    BY <1>10 DEF After
  <2>. QED  BY <1>4, <1>10, <2>1 DEF Callbacks, Contract!MayTell
<1>11. CASE f.pc \in {"cliSuccess", "cliError"}
  <2>1. After(f) = Extra(f)
    BY <1>11 DEF After
  <2>2. After(f) \in {"gqlErrors", "observability"}
    BY <2>1 DEF Extra
  <2>. QED  BY <1>4, <1>11, <2>2 DEF Callbacks, Contract!MayTell
<1>12. CASE f.pc = "gqlErrors"
  <2>1. After(f) = "observability"
    BY <1>12 DEF After
  <2>. QED  BY <1>4, <1>12, <2>1 DEF Callbacks, Contract!MayTell
<1>13. CASE f.pc = "observability"
  BY <1>13 DEF After
<1>. QED
  BY <1>2, <1>5, <1>6, <1>7, <1>8, <1>9, <1>10, <1>11, <1>12, <1>13 DEF Callbacks

(* The message of an error is about the code, unless another execution     *)
(* came in between.                                                        *)
LEMMA MessageAbout ==
  ASSUME NEW f, f \in Frames, f.interrupted \/ lastStatus = f.code, lastStatus \in Codes
  PROVE  /\ MessageCode(f) \in Codes
         /\ After(f) = "reqError" /\ ~f.interrupted => MessageCode(f) = f.code
         /\ After(f) # "reqError" => MessageCode(f) = f.errMsg
<1>1. f.code \in Codes /\ f.errMsg \in Codes
  BY FrameFields
<1>2. CASE After(f) # "reqError"
  BY <1>1, <1>2 DEF MessageCode
<1>3. CASE After(f) = "reqError"
  <2>1. MessageCode(f) = IF Detail(f) = "rpcError" THEN f.code ELSE lastStatus
    BY <1>3 DEF MessageCode
  <2>. QED  BY <1>1, <1>3, <2>1
<1>. QED  BY <1>2, <1>3

-----------------------------------------------------------------------------
(* The steps. *)

LEMMA StackType ==
  ASSUME TypeOK
  PROVE  /\ stack \in Seq(Frames) /\ Len(stack) \in Nat /\ DOMAIN stack = 1 .. Len(stack)
         /\ \A i \in DOMAIN stack : stack[i] \in Frames
         /\ stack # <<>> => Len(stack) \in DOMAIN stack /\ Top \in Frames
BY DEF TypeOK, Top

LEMMA ObjectType ==
  ASSUME TypeOK, NEW o \in Objects, obj[o] # NoObject
  PROVE  obj[o] \in Requests
BY DEF TypeOK

LEMMA Start == Init => IInv
<1>. SUFFICES ASSUME Init PROVE IInv
  OBVIOUS
<1>. USE BoundAssumption
<1>1. stack = <<>> /\ DOMAIN stack = {}
  BY DEF Init
<1>2. TypeOK
  <2>1. stack \in Seq(Frames) /\ Len(stack) = 0
    BY <1>1
  <2>2. runs \in [1 .. MaxMade -> [explicit : 0 .. MaxRuns, implicit : Nat]]
    BY DEF Init
  <2>3. userFault \in BOOLEAN
    BY DEF Init
  <2>. QED  BY <2>1, <2>2, <2>3 DEF Init, TypeOK
<1>3. Executions /\ Nesting
  BY <1>1 DEF Executions, Nesting
<1>4. Ownership
  BY DEF Init, Ownership, Holds
<1>5. Accounts
  BY DEF Init, Accounts, Holds, Unexecuted
<1>. QED  BY <1>2, <1>3, <1>4, <1>5 DEF IInv

(* Objects that keep what they are: only errors may be added.              *)
SameObject(r, q) ==
  /\ q \in Requests /\ SameRequest(r, q)
  /\ q.id = r.id /\ q.live = r.live /\ q.executed = r.executed

KeepsObjects ==
  /\ obj' \in [Objects -> Requests \cup {NoObject}]
  /\ \A o \in Objects : IF obj[o] = NoObject THEN obj'[o] = NoObject
                        ELSE obj'[o] # NoObject /\ SameObject(obj[o], obj'[o])

(* The innermost execution goes on. *)
LEMMA Going ==
  ASSUME IInv, stack # <<>>, NEW g,
         stack' = [stack EXCEPT ![Len(stack)] = g],
         Sound(g, obj'[g.o], userFault'),
         g.o = Top.o, g.interrupted = Top.interrupted, g.inDestructor = Top.inDestructor,
         ~g.interrupted /\ g.pc # "attempt" => lastStatus' = g.code,
         lastStatus' \in Codes, userFault => userFault',
         KeepsObjects, UNCHANGED <<made, runs>>
  PROVE  IInv'
<1>. DEFINE n == Len(stack)
<1>0. TypeOK /\ Executions /\ Nesting /\ Ownership /\ Accounts
  BY DEF IInv
<1>1. g \in Frames /\ userFault' \in BOOLEAN
  BY DEF Sound
<1>2. /\ stack \in Seq(Frames) /\ n \in DOMAIN stack
      /\ stack' \in Seq(Frames) /\ Len(stack') = n /\ DOMAIN stack' = DOMAIN stack
      /\ stack'[n] = g
      /\ \A i \in DOMAIN stack : i # n => stack'[i] = stack[i]
  BY <1>0, <1>1, StackType, Replaced
<1>3. \A i \in DOMAIN stack : stack'[i].o = stack[i].o /\ stack'[i].interrupted = stack[i].interrupted
                              /\ stack'[i].inDestructor = stack[i].inDestructor
  BY <1>2 DEF Top
<1>4. TypeOK'
  BY <1>0, <1>1, <1>2 DEF TypeOK, KeepsObjects, Codes
<1>5. ASSUME NEW i \in DOMAIN stack'
      PROVE  Sound(stack'[i], obj'[stack'[i].o], userFault')
  <2>1. CASE i = n
    BY <1>2, <2>1
  <2>2. CASE i # n
    <3>1. Sound(stack[i], obj[stack[i].o], userFault)
      BY <1>0, <1>2 DEF Executions, Req
    <3>2. stack[i].o \in Objects /\ obj[stack[i].o] # NoObject
      BY <3>1, FrameFields, RequestFields DEF Sound
    <3>3. /\ obj'[stack[i].o] \in Requests
          /\ SameRequest(obj[stack[i].o], obj'[stack[i].o])
      BY <3>2 DEF KeepsObjects, SameObject
    <3>4. Sound(stack[i], obj'[stack[i].o], userFault')
      BY <1>1, <3>1, <3>3, SoundKept
    <3>. QED  BY <1>2, <2>2, <3>4
  <2>. QED  BY <2>1, <2>2
<1>6. Executions'
  BY <1>5 DEF Executions, Req
<1>7. Nesting'
  <2>1. \A i, j \in DOMAIN stack' : stack'[i].o = stack'[j].o => i = j
    BY <1>0, <1>2, <1>3 DEF Nesting
  <2>2. ASSUME NEW i \in DOMAIN stack', ~stack'[i].interrupted
        PROVE  i = n /\ (stack'[i].pc # "attempt" => lastStatus' = stack'[i].code)
    <3>1. i = n
      BY <1>0, <1>2, <1>3, <2>2 DEF Nesting
    <3>. QED  BY <1>2, <2>2, <3>1
  <2>. QED  BY <1>2, <2>1, <2>2 DEF Nesting
<1>8. \A o \in Objects : /\ obj'[o] = NoObject <=> obj[o] = NoObject
                         /\ obj[o] # NoObject => /\ obj'[o].id = obj[o].id
                                                 /\ obj'[o].live = obj[o].live
                                                 /\ obj'[o].executed = obj[o].executed
  BY DEF KeepsObjects, SameObject
<1>9. Ownership'
  BY <1>0, <1>8 DEF Ownership, Holds, Unexecuted
<1>10. \A o \in Objects : InDestructor(o) => InDestructor(o)'
  BY <1>2, <1>3 DEF InDestructor
<1>11. Accounts'
  BY <1>0, <1>8, <1>10 DEF Accounts, Holds, Unexecuted
<1>. QED  BY <1>4, <1>6, <1>7, <1>9, <1>11 DEF IInv

LEMMA LoseStep ==
  ASSUME IInv, Lose
  PROVE  IInv'
<1>0. TypeOK /\ Executions /\ Nesting
  BY DEF IInv
<1>1. stack # <<>> /\ Top.pc = "attempt" /\ UNCHANGED <<obj, made, userFault, runs>>
  BY DEF Lose
<1>2. Len(stack) \in DOMAIN stack /\ Top = stack[Len(stack)] /\ Sound(Top, Req(Top), userFault)
  BY <1>0, <1>1, StackType DEF Executions, Top
<1>3. KeepsObjects
  <2>1. \A o \in Objects : obj[o] # NoObject => SameObject(obj[o], obj[o])
    BY <1>0, ObjectType DEF SameObject, SameRequest
  <2>. QED  BY <1>0, <1>1, <2>1 DEF KeepsObjects, TypeOK
<1>4. lastStatus \in Codes /\ Failed \in Codes
  BY <1>0 DEF TypeOK, Codes
<1>5. CASE Retryable(Failed, Top, Req(Top))
  <2>. PICK g : g = Retried(Top)
    OBVIOUS
  <2>1. stack' = [stack EXCEPT ![Len(stack)] = g] /\ lastStatus' = lastStatus
    BY <1>5 DEF Lose, Retried
  <2>2. /\ Sound(g, Req(Top), userFault) /\ g.o = Top.o /\ g.pc = "attempt"
        /\ g.interrupted = Top.interrupted /\ g.inDestructor = Top.inDestructor
    BY <1>1, <1>2, <1>5, SoundRetried DEF Retryable
  <2>3. Sound(g, obj'[g.o], userFault')
    BY <1>1, <2>2 DEF Req
  <2>. QED  BY <1>1, <1>3, <1>4, <2>1, <2>2, <2>3, Going
<1>6. CASE ~Retryable(Failed, Top, Req(Top))
  <2>. PICK g : g = Missed(Top)
    OBVIOUS
  <2>1. stack' = [stack EXCEPT ![Len(stack)] = g] /\ lastStatus' = Failed
    BY <1>6 DEF Lose, Leave, Missed, Left
  <2>2. /\ Sound(g, Req(Top), userFault) /\ g.o = Top.o /\ g.code = Failed
        /\ g.interrupted = Top.interrupted /\ g.inDestructor = Top.inDestructor
    BY <1>1, <1>2, SoundMissed
  <2>3. Sound(g, obj'[g.o], userFault')
    BY <1>1, <2>2 DEF Req
  <2>. QED  BY <1>1, <1>3, <1>4, <2>1, <2>2, <2>3, Going
<1>. QED  BY <1>5, <1>6

LEMMA AnswerStep ==
  ASSUME IInv, NEW c \in ServerCodes, NEW e \in BOOLEAN, Answer(c, e)
  PROVE  IInv'
<1>0. TypeOK /\ Executions /\ Nesting
  BY DEF IInv
<1>1. stack # <<>> /\ Top.pc = "attempt" /\ UNCHANGED <<made, runs>>
  BY DEF Answer
<1>2. Len(stack) \in DOMAIN stack /\ Top = stack[Len(stack)] /\ Sound(Top, Req(Top), userFault)
  BY <1>0, <1>1, StackType DEF Executions, Top
<1>3. Top.o \in Objects /\ Req(Top) \in Requests /\ Req(Top) = obj[Top.o] /\ Req(Top) # NoObject
  BY <1>2, FrameFields, RequestFields DEF Sound, Req
<1>4. ~Retryable(c, Top, Req(Top))
  BY CodeAssumption DEF Retryable
<1>. PICK g : g = AnsweredBy(Top, c, e)
  OBVIOUS
<1>5. /\ stack' = [stack EXCEPT ![Len(stack)] = g] /\ lastStatus' = c
      /\ obj' = [obj EXCEPT ![Top.o].errors = @ \/ (e /\ Req(Top).kind \in {"graphql", "jsonrpc"})]
      /\ userFault' = (userFault \/ (e /\ Req(Top).target))
  BY <1>4 DEF Answer, Leave, AnsweredBy, Left
<1>6. /\ Sound(g, Req(Top), userFault) /\ g.o = Top.o /\ g.code = c
      /\ g.interrupted = Top.interrupted /\ g.inDestructor = Top.inDestructor
  BY <1>1, <1>2, SoundAnswered
<1>7. KeepsObjects
  <2>. PICK more \in BOOLEAN : more = (Req(Top).errors \/ (e /\ Req(Top).kind \in {"graphql", "jsonrpc"}))
    OBVIOUS
  <2>1. obj' = [obj EXCEPT ![Top.o] = [obj[Top.o] EXCEPT !.errors = more]]
    BY <1>3, <1>5
  <2>2. SameObject(obj[Top.o], [obj[Top.o] EXCEPT !.errors = more])
    BY <1>3 DEF SameObject, SameRequest, Requests
  <2>3. \A o \in Objects : obj[o] # NoObject => SameObject(obj[o], obj[o])
    BY <1>0, ObjectType DEF SameObject, SameRequest
  <2>4. [obj[Top.o] EXCEPT !.errors = more] # NoObject
    BY <2>2, RequestFields DEF SameObject
  <2>. QED  BY <1>0, <1>3, <2>1, <2>2, <2>3, <2>4 DEF KeepsObjects, TypeOK, SameObject
<1>8. userFault' \in BOOLEAN /\ (userFault => userFault') /\ lastStatus' \in Codes
  BY <1>5 DEF Codes
<1>9. Sound(g, obj'[g.o], userFault')
  BY <1>3, <1>6, <1>7, <1>8, SoundKept DEF KeepsObjects, SameObject
<1>. QED  BY <1>1, <1>5, <1>6, <1>7, <1>8, <1>9, Going

LEMMA CallbackStep ==
  ASSUME IInv, NextCallback
  PROVE  IInv'
<1>0. TypeOK /\ Executions /\ Nesting
  BY DEF IInv
<1>1. /\ stack # <<>> /\ Top.pc # "attempt" /\ After(Top) # "done"
      /\ UNCHANGED <<obj, made, lastStatus, userFault, runs>>
  BY DEF NextCallback
<1>2. Len(stack) \in DOMAIN stack /\ Top = stack[Len(stack)] /\ Sound(Top, Req(Top), userFault)
  BY <1>0, <1>1, StackType DEF Executions, Top
<1>3. lastStatus \in Codes /\ Top \in Frames
  BY <1>0, <1>2 DEF TypeOK, Codes, Sound
<1>4. Top.interrupted \/ lastStatus = Top.code
  BY <1>0, <1>1, <1>2 DEF Nesting
<1>. PICK g : g = Telling(Top, After(Top), MessageCode(Top))
  OBVIOUS
<1>5. stack' = [stack EXCEPT ![Len(stack)] = g]
  BY <1>2 DEF NextCallback, Telling
<1>6. /\ Sound(g, Req(Top), userFault) /\ g.o = Top.o /\ g.code = Top.code
      /\ g.interrupted = Top.interrupted /\ g.inDestructor = Top.inDestructor
  <2>1. /\ After(Top) \in Callbacks
        /\ After(Top) = "reqSuccess" => Is2xx(Top.code)
        /\ After(Top) = "reqFault" => Req(Top).kind = "soap" /\ Matched(Top)
        /\ After(Top) = "rpcError" => Req(Top).kind = "jsonrpc" /\ Req(Top).errors
    BY <1>1, <1>2, Order
  <2>2. /\ MessageCode(Top) \in Codes
        /\ After(Top) = "reqError" /\ ~Top.interrupted => MessageCode(Top) = Top.code
        /\ After(Top) # "reqError" => MessageCode(Top) = Top.errMsg
    BY <1>3, <1>4, MessageAbout
  <2>. QED  BY <1>1, <1>2, <2>1, <2>2, SoundTelling DEF Matched
<1>7. KeepsObjects
  <2>1. \A o \in Objects : obj[o] # NoObject => SameObject(obj[o], obj[o])
    BY <1>0, ObjectType DEF SameObject, SameRequest
  <2>. QED  BY <1>0, <1>1, <2>1 DEF KeepsObjects, TypeOK
<1>8. Sound(g, obj'[g.o], userFault')
  BY <1>1, <1>6 DEF Req
<1>. QED  BY <1>1, <1>3, <1>4, <1>5, <1>6, <1>7, <1>8, Going

LEMMA ReturnStep ==
  ASSUME IInv, Return
  PROVE  IInv'
<1>. DEFINE n == Len(stack)
<1>0. TypeOK /\ Executions /\ Nesting /\ Ownership /\ Accounts
  BY DEF IInv
<1>1. /\ stack # <<>> /\ stack' = SubSeq(stack, 1, n - 1)
      /\ obj' = IF Top.inDestructor THEN [obj EXCEPT ![Top.o] = NoObject] ELSE obj
      /\ UNCHANGED <<made, lastStatus, userFault, runs>>
  BY DEF Return
<1>2. /\ stack \in Seq(Frames) /\ n \in DOMAIN stack /\ Top = stack[n] /\ n \in Nat /\ n <= MaxDepth
      /\ stack' \in Seq(Frames) /\ Len(stack') = n - 1 /\ DOMAIN stack' = DOMAIN stack \ {n}
      /\ \A i \in DOMAIN stack' : stack'[i] = stack[i]
  BY <1>0, <1>1, StackType, Shortened DEF Top, TypeOK
<1>3. /\ Sound(Top, obj[Top.o], userFault) /\ Top.o \in Objects
      /\ obj[Top.o] # NoObject /\ obj[Top.o].executed
  <2>1. Sound(Top, obj[Top.o], userFault)
    BY <1>0, <1>2 DEF Executions, Req
  <2>. QED  BY <2>1, FrameFields, RequestFields DEF Sound, Attempting
<1>4. \A o \in Objects : obj'[o] # NoObject => obj'[o] = obj[o]
  BY <1>0, <1>1 DEF TypeOK
<1>5. \A o \in Objects : o # Top.o => obj'[o] = obj[o]
  BY <1>0, <1>1 DEF TypeOK
<1>6. TypeOK'
  <2>1. obj' \in [Objects -> Requests \cup {NoObject}]
    BY <1>0, <1>1 DEF TypeOK
  <2>2. Len(stack') <= MaxDepth
    BY <1>2, BoundAssumption
  <2>. QED  BY <1>0, <1>1, <1>2, <2>1, <2>2 DEF TypeOK
<1>7. ASSUME NEW i \in DOMAIN stack'
      PROVE  Sound(stack'[i], obj'[stack'[i].o], userFault')
  <2>1. Sound(stack[i], obj[stack[i].o], userFault)
    BY <1>0, <1>2 DEF Executions, Req
  <2>2. stack[i].o # Top.o /\ stack[i].o \in Objects
    BY <1>0, <1>2, <2>1, FrameFields DEF Nesting, Sound
  <2>. QED  BY <1>1, <1>2, <1>5, <2>1, <2>2
<1>8. Executions'
  BY <1>7 DEF Executions, Req
<1>9. Nesting'
  BY <1>0, <1>1, <1>2 DEF Nesting
<1>10. Ownership'
  BY <1>0, <1>1, <1>4 DEF Ownership, Holds, Unexecuted
<1>11. Accounts'
  <2>1. ASSUME NEW i \in 1 .. made, Unexecuted(i)
        PROVE  \E o \in Objects : obj'[o] # NoObject /\ obj'[o].id = i /\ obj'[o].live
    <3>1. made \in 0 .. MaxMade /\ MaxMade \in Nat
      BY <1>0, BoundAssumption DEF TypeOK
    <3>2. PICK o \in Objects : Holds(o, i) /\ obj[o].live
      BY <1>0, <2>1, <3>1 DEF Accounts
    <3>3. o # Top.o
      BY <1>0, <1>3, <2>1, <3>2 DEF Ownership, Holds
    <3>. QED  BY <1>5, <3>2, <3>3 DEF Holds
  <2>2. ASSUME NEW o \in Objects, obj'[o] # NoObject, InDestructor(o)
        PROVE  InDestructor(o)'
    <3>1. PICK d \in DOMAIN stack : stack[d].o = o /\ stack[d].inDestructor
      BY <2>2 DEF InDestructor
    <3>2. d # n
      BY <1>0, <1>1, <1>2, <1>3, <2>2, <3>1 DEF TypeOK
    <3>. QED  BY <1>2, <3>1, <3>2 DEF InDestructor
  <2>3. made \in Nat /\ \A i \in 1 .. MaxMade : i <= made => i \in 1 .. made
    BY <1>0, BoundAssumption DEF TypeOK
  <2>. QED  BY <1>0, <1>1, <1>4, <2>1, <2>2, <2>3 DEF Accounts, Holds, Unexecuted
<1>. QED  BY <1>6, <1>8, <1>9, <1>10, <1>11 DEF IInv

(* The executions in progress are interrupted, and remain what they are.   *)
LEMMA InterruptedStack ==
  ASSUME TypeOK
  PROVE  /\ Interrupted \in Seq(Frames) /\ Len(Interrupted) = Len(stack)
         /\ DOMAIN Interrupted = DOMAIN stack
         /\ \A i \in DOMAIN stack :
              /\ Interrupted[i] = [stack[i] EXCEPT !.interrupted = TRUE]
              /\ Interrupted[i].interrupted /\ Interrupted[i].o = stack[i].o
              /\ Interrupted[i].inDestructor = stack[i].inDestructor
              /\ Interrupted[i].told = stack[i].told
<1>1. stack \in Seq(Frames) /\ Len(stack) \in Nat /\ DOMAIN stack = 1 .. Len(stack)
  BY StackType
<1>2. \A i \in DOMAIN stack :
        /\ Interrupted[i] = [stack[i] EXCEPT !.interrupted = TRUE]
        /\ Interrupted[i] \in Frames
        /\ Interrupted[i].interrupted /\ Interrupted[i].o = stack[i].o
        /\ Interrupted[i].inDestructor = stack[i].inDestructor
        /\ Interrupted[i].told = stack[i].told
  BY StackType, MarkedFrame DEF Interrupted
<1>3. DOMAIN Interrupted = 1 .. Len(stack)
  BY <1>1 DEF Interrupted
<1>4. Interrupted \in Seq(Frames) /\ Len(Interrupted) = Len(stack)
  <2>1. Interrupted \in [1 .. Len(stack) -> Frames]
    BY <1>1, <1>2, <1>3 DEF Interrupted
  <2>. QED  BY <1>1, <2>1
<1>. QED  BY <1>1, <1>2, <1>3, <1>4

(* What Begin does, whoever calls it: an execution is put on top. *)
LEMMA Pushed ==
  ASSUME TypeOK, NEW o \in Objects, NEW d \in BOOLEAN, Begin(o, d)
  PROVE  \E connected \in BOOLEAN, pc \in {"attempt", "over"}, c \in Codes :
           /\ connected => c = 0
           /\ pc = "over" => lastStatus' = c
           /\ lastStatus' \in Codes
           /\ stack' = Append(Interrupted, First(o, d, connected, pc, c))
<1>1. PICK begun \in {"ok", "refused", "rejected"}, entered \in LoopEntered(obj[o]) :
        LET status    == IF begun = "refused" THEN TLS_NOT_VALIDATED ELSE lastStatus
            connected == begun = "ok"
            sends     == connected /\ entered
            c         == StartCode(connected, status)
        IN  /\ stack' = Append(Interrupted,
                          First(o, d, connected, IF sends THEN "attempt" ELSE "over", c))
            /\ lastStatus' = IF sends THEN status ELSE c
  BY DEF Begin, First
<1>2. entered \in BOOLEAN
  BY DEF LoopEntered
<1>. DEFINE status    == IF begun = "refused" THEN TLS_NOT_VALIDATED ELSE lastStatus
            connected == begun = "ok"
            sends     == connected /\ entered
            c         == StartCode(connected, status)
            pc        == IF sends THEN "attempt" ELSE "over"
<1>3. status \in Codes
  BY DEF TypeOK, Codes
<1>4. c \in Codes /\ (connected => c = 0)
  BY <1>3 DEF StartCode, Codes
<1>5. lastStatus' \in Codes /\ (pc = "over" => lastStatus' = c)
  BY <1>1, <1>3, <1>4
<1>6. connected \in BOOLEAN /\ pc \in {"attempt", "over"}
  OBVIOUS
<1>7. stack' = Append(Interrupted, First(o, d, connected, pc, c))
  BY <1>1
<1>. HIDE DEF status, connected, sends, c, pc
<1>. QED  BY <1>4, <1>5, <1>6, <1>7

LEMMA Beginning ==
  ASSUME IInv, NEW o \in Objects, NEW d \in BOOLEAN, Begin(o, d), obj[o] # NoObject
  PROVE  /\ stack' \in Seq(Frames) /\ Len(stack') <= MaxDepth /\ lastStatus' \in Codes
         /\ obj' = [obj EXCEPT ![o].executed = TRUE]
         /\ obj' \in [Objects -> Requests \cup {NoObject}]
         /\ \A p \in Objects : p # o => obj'[p] = obj[p]
         /\ obj'[o] # NoObject /\ obj'[o].executed
         /\ obj'[o].id = obj[o].id /\ obj'[o].live = obj[o].live
         /\ UNCHANGED <<made, userFault>>
         /\ Executions' /\ Nesting'
         /\ \A p \in Objects : InDestructor(p) => InDestructor(p)'
         /\ d => InDestructor(o)'
         /\ o \notin Busy
<1>. DEFINE n == Len(stack)
<1>0. TypeOK /\ Executions /\ Nesting
  BY DEF IInv
<1>1. /\ UserTurn /\ o \notin Busy /\ n < MaxDepth
      /\ obj' = [obj EXCEPT ![o].executed = TRUE]
      /\ UNCHANGED <<made, userFault>>
  BY DEF Begin
<1>2. PICK connected \in BOOLEAN, pc \in {"attempt", "over"}, c \in Codes :
        /\ connected => c = 0
        /\ pc = "over" => lastStatus' = c
        /\ lastStatus' \in Codes
        /\ stack' = Append(Interrupted, First(o, d, connected, pc, c))
  BY <1>0, Pushed
<1>3. obj[o] \in Requests /\ userFault \in BOOLEAN
  BY <1>0, ObjectType DEF TypeOK
<1>4. obj' = [obj EXCEPT ![o] = [obj[o] EXCEPT !.executed = TRUE]]
  BY <1>1
<1>5. LET q == [obj[o] EXCEPT !.executed = TRUE] IN
      /\ q \in Requests /\ q # NoObject /\ q.executed /\ q.id = obj[o].id /\ q.live = obj[o].live
      /\ SameRequest(obj[o], q)
  <2>1. [obj[o] EXCEPT !.executed = TRUE] \in Requests
    BY <1>3 DEF Requests
  <2>. QED  BY <1>3, <2>1, RequestFields DEF Requests, SameRequest
<1>6. /\ obj' \in [Objects -> Requests \cup {NoObject}]
      /\ obj'[o] = [obj[o] EXCEPT !.executed = TRUE]
      /\ \A p \in Objects : p # o => obj'[p] = obj[p]
  BY <1>0, <1>4, <1>5 DEF TypeOK
<1>. DEFINE f == First(o, d, connected, pc, c)
<1>7. Sound(f, obj'[o], userFault')
  <2>. PICK q \in Requests, b \in BOOLEAN : q = obj'[o] /\ b = userFault'
    BY <1>1, <1>3, <1>5, <1>6
  <2>1. q.executed
    BY <1>5, <1>6
  <2>2. connected => c = 0
    BY <1>2
  <2>. HIDE DEF f
  <2>3. Sound(First(o, d, connected, pc, c), q, b)
    BY <2>1, <2>2, SoundFirst
  <2>. QED  BY <2>3 DEF f
<1>8. f \in Frames /\ f.o = o /\ f.inDestructor = d /\ f.interrupted = FALSE /\ f.pc = pc /\ f.code = c
  BY <1>7 DEF Sound, First
<1>. HIDE DEF f
<1>9. /\ stack \in Seq(Frames) /\ n \in Nat /\ DOMAIN stack = 1 .. n
      /\ Interrupted \in Seq(Frames) /\ Len(Interrupted) = n /\ DOMAIN Interrupted = DOMAIN stack
  BY <1>0, StackType, InterruptedStack
<1>10. /\ stack' \in Seq(Frames) /\ Len(stack') = n + 1 /\ DOMAIN stack' = DOMAIN stack \cup {n + 1}
       /\ stack'[n + 1] = f
       /\ \A i \in DOMAIN stack : i # n + 1 /\ stack'[i] = Interrupted[i]
  BY <1>2, <1>8, <1>9, Appended DEF f
<1>11. Len(stack') <= MaxDepth
  BY <1>1, <1>9, <1>10, BoundAssumption
<1>12. \A i \in DOMAIN stack : stack[i].o # o /\ stack[i].o \in Objects
  <2>1. \A i \in DOMAIN stack : stack[i] \in Frames
    BY <1>0, StackType
  <2>. QED  BY <1>1, <2>1, FrameFields DEF Busy
<1>13. ASSUME NEW i \in DOMAIN stack'
       PROVE  Sound(stack'[i], obj'[stack'[i].o], userFault')
  <2>1. CASE i = n + 1
    BY <1>7, <1>8, <1>10, <2>1
  <2>2. CASE i \in DOMAIN stack
    <3>1. Sound(stack[i], obj[stack[i].o], userFault)
      BY <1>0, <2>2 DEF Executions, Req
    <3>2. /\ stack'[i] = [stack[i] EXCEPT !.interrupted = TRUE]
          /\ stack'[i].o = stack[i].o
      BY <1>0, <1>10, <2>2, InterruptedStack
    <3>3. Sound(stack'[i], obj[stack[i].o], userFault)
      BY <3>1, <3>2, SoundMarked
    <3>. QED  BY <1>1, <1>6, <1>12, <2>2, <3>2, <3>3
  <2>. QED  BY <1>10, <2>1, <2>2
<1>14. Executions'
  BY <1>13 DEF Executions, Req
<1>15. \A i \in DOMAIN stack : /\ stack'[i].interrupted /\ stack'[i].o = stack[i].o
                               /\ stack'[i].inDestructor = stack[i].inDestructor
  BY <1>0, <1>10, InterruptedStack
<1>16. Nesting'
  <2>1. \A i, j \in DOMAIN stack' : stack'[i].o = stack'[j].o => i = j
    BY <1>0, <1>8, <1>10, <1>12, <1>15 DEF Nesting
  <2>2. \A i \in DOMAIN stack' : ~stack'[i].interrupted =>
           i = Len(stack') /\ (stack'[i].pc # "attempt" => lastStatus' = stack'[i].code)
    BY <1>2, <1>8, <1>10, <1>15
  <2>. QED  BY <2>1, <2>2 DEF Nesting
<1>17. /\ \A p \in Objects : InDestructor(p) => InDestructor(p)'
       /\ d => InDestructor(o)'
  BY <1>8, <1>10, <1>15 DEF InDestructor
<1>. QED  BY <1>1, <1>2, <1>5, <1>6, <1>10, <1>11, <1>14, <1>16, <1>17

(* Both ways to execute a request: its account says how. *)
LEMMA Accounted ==
  ASSUME IInv, NEW o \in Objects, NEW d \in BOOLEAN, Begin(o, d),
         obj[o] # NoObject, obj[o].live,
         NEW a \in [explicit : 0 .. MaxRuns, implicit : Nat],
         a.explicit + a.implicit > 0, a.implicit <= 1,
         a.implicit = 1 => a.explicit = 0 /\ d,
         runs' = [runs EXCEPT ![obj[o].id] = a]
  PROVE  IInv'
<1>0. TypeOK /\ Ownership /\ Accounts /\ made \in 0 .. MaxMade /\ MaxMade \in Nat /\ MaxRuns \in Nat
  BY BoundAssumption DEF IInv, TypeOK
<1>1. /\ stack' \in Seq(Frames) /\ Len(stack') <= MaxDepth /\ lastStatus' \in Codes
      /\ obj' \in [Objects -> Requests \cup {NoObject}]
      /\ \A p \in Objects : p # o => obj'[p] = obj[p]
      /\ obj'[o] # NoObject /\ obj'[o].executed
      /\ obj'[o].id = obj[o].id /\ obj'[o].live = obj[o].live
      /\ UNCHANGED <<made, userFault>>
      /\ Executions' /\ Nesting'
      /\ \A p \in Objects : InDestructor(p) => InDestructor(p)'
      /\ d => InDestructor(o)'
  BY Beginning
<1>2. PICK id \in 1 .. MaxMade : id = obj[o].id /\ id \in 1 .. made
  BY <1>0 DEF Ownership
<1>3. /\ runs' \in [1 .. MaxMade -> [explicit : 0 .. MaxRuns, implicit : Nat]]
      /\ runs'[id] = a
      /\ \A i \in 1 .. MaxMade : i # id => runs'[i] = runs[i]
  BY <1>0, <1>2 DEF TypeOK
<1>4. TypeOK'
  BY <1>0, <1>1, <1>3 DEF TypeOK, Codes
<1>5. a.explicit \in Nat /\ a.implicit \in Nat /\ a.implicit <= 1 /\ a.explicit + a.implicit # 0
  BY <1>0
<1>6. \A i \in 1 .. MaxMade : Unexecuted(i)' => i # id /\ Unexecuted(i)
  BY <1>3, <1>5 DEF Unexecuted
<1>7. \A i \in 1 .. MaxMade : i # id => (Unexecuted(i)' <=> Unexecuted(i))
  BY <1>3 DEF Unexecuted
<1>8. \A p \in Objects : /\ obj'[p] # NoObject <=> obj[p] # NoObject
                         /\ obj[p] # NoObject => obj'[p].id = obj[p].id /\ obj'[p].live = obj[p].live
  BY <1>1
<1>9. \A i, p : p \in Objects => (Holds(p, i)' <=> Holds(p, i))
  BY <1>8 DEF Holds
<1>10. \A p \in Objects : Holds(p, id) /\ obj[p].live => p = o
  BY <1>0, <1>2 DEF Ownership, Holds
<1>11. Ownership'
  <2>1. ASSUME NEW p \in Objects, obj'[p] # NoObject, NEW i, i = obj'[p].id
        PROVE  /\ i \in 1 .. made
               /\ obj'[p].live => (obj'[p].executed <=> ~Unexecuted(i)')
               /\ ~obj'[p].live => obj'[p].executed
    <3>1. CASE p = o
      <4>1. i = id /\ ~Unexecuted(i)'
        BY <1>1, <1>2, <1>6, <2>1, <3>1
      <4>. QED  BY <1>1, <1>2, <3>1, <4>1
    <3>2. CASE p # o
      <4>1. obj[p] # NoObject /\ obj'[p] = obj[p] /\ i \in 1 .. made /\ i \in 1 .. MaxMade
        BY <1>0, <1>1, <2>1, <3>2 DEF Ownership
      <4>2. obj[p].live => i # id
        BY <1>10, <2>1, <3>2, <4>1 DEF Holds
      <4>3. /\ obj[p].live => (obj[p].executed <=> ~Unexecuted(i))
            /\ ~obj[p].live => obj[p].executed
        BY <1>0, <2>1, <4>1 DEF Ownership
      <4>. QED  BY <1>7, <4>1, <4>2, <4>3
    <3>. QED  BY <3>1, <3>2
  <2>2. \A i \in 1 .. made' : \A p, q \in Objects :
          Holds(p, i)' /\ Holds(q, i)' /\ obj'[p].live /\ obj'[q].live => p = q
    BY <1>0, <1>1, <1>8, <1>9 DEF Ownership, Holds
  <2>. QED  BY <1>1, <2>1, <2>2 DEF Ownership, Unexecuted, Holds
<1>12. Accounts'
  <2>1. ASSUME NEW i \in 1 .. MaxMade
        PROVE  /\ runs'[i].implicit <= 1
               /\ runs'[i].implicit = 1 => runs'[i].explicit = 0
               /\ i > made => Unexecuted(i)'
               /\ i <= made /\ Unexecuted(i)' => \E p \in Objects : Holds(p, i)' /\ obj'[p].live
    <3>1. CASE i = id
      <4>1. i <= made /\ runs'[i] = a /\ ~Unexecuted(i)'
        BY <1>0, <1>2, <1>3, <1>6, <3>1
      <4>2. a.implicit <= 1 /\ (a.implicit = 1 => a.explicit = 0)
        BY <1>5
      <4>. QED  BY <1>0, <4>1, <4>2
    <3>2. CASE i # id
      <4>1. i <= made /\ Unexecuted(i) => \E p \in Objects : Holds(p, i)' /\ obj'[p].live
        BY <1>0, <1>8, <1>9 DEF Accounts, Holds
      <4>. QED  BY <1>0, <1>3, <1>7, <3>2, <4>1 DEF Accounts
    <3>. QED  BY <3>1, <3>2
  <2>2. ASSUME NEW i \in 1 .. made, NEW p \in Objects,
               Holds(p, i), obj[p].live, runs'[i].implicit = 1
        PROVE  InDestructor(p)'
    <3>1. CASE i = id
      BY <1>1, <1>3, <1>10, <2>2, <3>1
    <3>2. CASE i # id
      <4>1. i \in 1 .. MaxMade /\ runs[i].implicit = 1
        BY <1>0, <1>3, <2>2, <3>2
      <4>. QED  BY <1>0, <1>1, <2>2, <4>1 DEF Accounts
    <3>. QED  BY <3>1, <3>2
  <2>3. \A i \in 1 .. made : \A p \in Objects :
          Holds(p, i)' /\ obj'[p].live /\ runs'[i].implicit = 1 => InDestructor(p)'
    BY <1>8, <1>9, <2>2 DEF Holds
  <2>. QED  BY <1>1, <2>1, <2>3 DEF Accounts, Unexecuted, Holds
<1>. QED  BY <1>1, <1>4, <1>11, <1>12 DEF IInv

LEMMA ExecuteStep ==
  ASSUME IInv, NEW o \in Objects, Execute(o)
  PROVE  IInv'
<1>0. TypeOK /\ Ownership /\ Accounts /\ MaxMade \in Nat /\ MaxRuns \in Nat /\ made \in 0 .. MaxMade
  BY BoundAssumption DEF IInv, TypeOK
<1>1. /\ obj[o] # NoObject /\ obj[o].live /\ Begin(o, FALSE) /\ o \notin Busy
      /\ runs[obj[o].id].explicit < MaxRuns
      /\ runs' = [runs EXCEPT ![obj[o].id].explicit = @ + 1]
  BY DEF Execute, Begin
<1>. PICK id \in 1 .. MaxMade : id = obj[o].id /\ id \in 1 .. made
  BY <1>0, <1>1 DEF Ownership
<1>2. ~InDestructor(o)
  BY <1>1 DEF Busy, InDestructor
<1>3. /\ runs[id].explicit \in 0 .. MaxRuns /\ runs[id].implicit \in Nat
      /\ runs[id].implicit <= 1 /\ runs[id].implicit # 1
  BY <1>0, <1>1, <1>2 DEF TypeOK, Accounts, Holds
<1>. PICK a : a = [runs[id] EXCEPT !.explicit = runs[id].explicit + 1]
  OBVIOUS
<1>4. /\ a \in [explicit : 0 .. MaxRuns, implicit : Nat]
      /\ a.explicit = runs[id].explicit + 1 /\ a.implicit = runs[id].implicit
  <2>1. runs[id] \in [explicit : 0 .. MaxRuns, implicit : Nat]
    BY <1>0 DEF TypeOK
  <2>2. runs[id].explicit + 1 \in 0 .. MaxRuns
    BY <1>0, <1>1, <1>3
  <2>. QED  BY <2>1, <2>2
<1>5. runs' = [runs EXCEPT ![obj[o].id] = a]
  BY <1>1
<1>6. a.explicit + a.implicit > 0 /\ a.implicit <= 1 /\ a.implicit # 1
  BY <1>0, <1>3, <1>4
<1>. QED  BY <1>1, <1>4, <1>5, <1>6, Accounted

(* A destructor that executes the request, ... *)
LEMMA ExecutedByDestructor ==
  ASSUME IInv, NEW o \in Objects, Destroy(o), ~obj[o].executed
  PROVE  IInv'
<1>0. TypeOK /\ Ownership /\ Accounts /\ MaxMade \in Nat /\ MaxRuns \in Nat /\ made \in 0 .. MaxMade
  BY BoundAssumption DEF IInv, TypeOK
<1>1. /\ obj[o] # NoObject /\ Begin(o, TRUE)
      /\ runs' = [runs EXCEPT ![obj[o].id].implicit = @ + 1]
  BY DEF Destroy
<1>. PICK id \in 1 .. MaxMade : id = obj[o].id /\ id \in 1 .. made
  BY <1>0, <1>1 DEF Ownership
<1>2. obj[o].live /\ Unexecuted(id)
  BY <1>0, <1>1 DEF Ownership
<1>3. /\ runs[id] \in [explicit : 0 .. MaxRuns, implicit : Nat]
      /\ runs[id].explicit = 0 /\ runs[id].implicit = 0
  BY <1>0, <1>2 DEF TypeOK, Unexecuted
<1>. PICK a : a = [runs[id] EXCEPT !.implicit = runs[id].implicit + 1]
  OBVIOUS
<1>4. /\ a \in [explicit : 0 .. MaxRuns, implicit : Nat]
      /\ a.explicit = 0 /\ a.implicit = 1
  BY <1>3
<1>5. runs' = [runs EXCEPT ![obj[o].id] = a]
  BY <1>1
<1>6. a.explicit + a.implicit > 0 /\ a.implicit <= 1 /\ (a.implicit = 1 => a.explicit = 0 /\ TRUE)
  BY <1>4
<1>. QED  BY <1>1, <1>2, <1>4, <1>5, <1>6, Accounted

(* ... and one that does not. *)
LEMMA Destroyed ==
  ASSUME IInv, NEW o \in Objects, Destroy(o), obj[o].executed
  PROVE  IInv'
<1>0. TypeOK /\ Executions /\ Nesting /\ Ownership /\ Accounts /\ made \in 0 .. MaxMade /\ MaxMade \in Nat
  BY BoundAssumption DEF IInv, TypeOK
<1>1. /\ o \notin Busy /\ obj[o] # NoObject /\ obj' = [obj EXCEPT ![o] = NoObject]
      /\ UNCHANGED <<made, lastStatus, userFault, stack, runs>>
  BY DEF Destroy
<1>2. /\ obj' \in [Objects -> Requests \cup {NoObject}]
      /\ obj'[o] = NoObject /\ \A p \in Objects : p # o => obj'[p] = obj[p]
  BY <1>0, <1>1 DEF TypeOK
<1>3. \A i \in DOMAIN stack : stack[i].o # o /\ stack[i].o \in Objects
  <2>1. \A i \in DOMAIN stack : stack[i] \in Frames
    BY <1>0, StackType
  <2>. QED  BY <1>1, <2>1, FrameFields DEF Busy
<1>4. TypeOK' /\ Nesting'
  BY <1>0, <1>1, <1>2 DEF TypeOK, Nesting
<1>5. Executions'
  BY <1>0, <1>1, <1>2, <1>3 DEF Executions, Req
<1>6. \A p \in Objects : obj'[p] # NoObject => obj'[p] = obj[p]
  BY <1>2
<1>7. Ownership'
  BY <1>0, <1>1, <1>6 DEF Ownership, Holds, Unexecuted
<1>8. ASSUME NEW i \in 1 .. MaxMade, i <= made, Unexecuted(i)
      PROVE  \E p \in Objects : obj'[p] # NoObject /\ obj'[p].id = i /\ obj'[p].live
  <2>1. PICK p \in Objects : Holds(p, i) /\ obj[p].live
    BY <1>0, <1>8 DEF Accounts
  <2>2. p # o
    BY <1>0, <1>8, <2>1 DEF Ownership, Holds
  <2>. QED  BY <1>2, <2>1, <2>2 DEF Holds
<1>9. Accounts'
  BY <1>0, <1>1, <1>6, <1>8 DEF Accounts, Holds, Unexecuted, InDestructor
<1>. QED  BY <1>4, <1>5, <1>7, <1>9 DEF IInv

LEMMA MakeStep ==
  ASSUME IInv, NEW o \in Objects, NEW k \in Kinds, NEW m \in Retries, NEW t \in BOOLEAN,
         Make(o, k, m, t)
  PROVE  IInv'
<1>0. TypeOK /\ Executions /\ Nesting /\ Ownership /\ Accounts /\ made \in 0 .. MaxMade /\ MaxMade \in Nat
  BY BoundAssumption DEF IInv, TypeOK
<1>. PICK i0 \in 1 .. MaxMade : i0 = made + 1
  BY <1>0 DEF Make
<1>. PICK q : q = [id |-> i0, kind |-> k, maxRetry |-> m, target |-> t,
                   executed |-> FALSE, live |-> TRUE, errors |-> FALSE]
  OBVIOUS
<1>1. /\ obj[o] = NoObject /\ made' = i0 /\ obj' = [obj EXCEPT ![o] = q]
      /\ UNCHANGED <<lastStatus, userFault, stack, runs>>
  BY DEF Make
<1>2. q \in Requests /\ q # NoObject /\ q.id = i0 /\ q.live /\ ~q.executed
  BY RequestFields DEF Requests
<1>3. /\ obj' \in [Objects -> Requests \cup {NoObject}]
      /\ obj'[o] = q /\ \A p \in Objects : p # o => obj'[p] = obj[p]
  BY <1>0, <1>1, <1>2 DEF TypeOK
<1>4. ASSUME NEW i \in DOMAIN stack
      PROVE  Sound(stack[i], obj[stack[i].o], userFault) /\ stack[i].o # o /\ stack[i].o \in Objects
  <2>1. Sound(stack[i], obj[stack[i].o], userFault)
    BY <1>0 DEF Executions, Req
  <2>2. stack[i].o \in Objects /\ obj[stack[i].o] # NoObject
    BY <2>1, FrameFields, RequestFields DEF Sound
  <2>. QED  BY <1>1, <2>1, <2>2
<1>5. TypeOK' /\ Nesting'
  BY <1>0, <1>1, <1>3 DEF TypeOK, Nesting
<1>6. Executions'
  BY <1>1, <1>3, <1>4 DEF Executions, Req
<1>7. /\ Unexecuted(i0) /\ runs[i0].implicit = 0
      /\ 1 .. made' = 1 .. made \cup {i0} /\ i0 \notin 1 .. made
  <2>1. i0 > made /\ 1 .. i0 = 1 .. made \cup {i0} /\ i0 \notin 1 .. made
    BY <1>0
  <2>2. Unexecuted(i0)
    BY <1>0, <2>1 DEF Accounts
  <2>3. runs[i0] \in [explicit : 0 .. MaxRuns, implicit : Nat]
    BY <1>0 DEF TypeOK
  <2>. QED  BY <1>0, <1>1, <2>1, <2>2, <2>3 DEF Unexecuted
<1>8. \A p \in Objects : p # o /\ obj[p] # NoObject => obj[p].id \in 1 .. made /\ obj[p].id # i0
  BY <1>0, <1>7 DEF Ownership
<1>9. Ownership'
  <2>1. ASSUME NEW p \in Objects, obj'[p] # NoObject, NEW i, i = obj'[p].id
        PROVE  /\ i \in 1 .. made'
               /\ obj'[p].live => (obj'[p].executed <=> ~Unexecuted(i))
               /\ ~obj'[p].live => obj'[p].executed
    <3>1. CASE p = o
      BY <1>2, <1>3, <1>7, <2>1, <3>1
    <3>2. CASE p # o
      BY <1>0, <1>3, <1>7, <2>1, <3>2 DEF Ownership
    <3>. QED  BY <3>1, <3>2
  <2>2. ASSUME NEW i \in 1 .. made', NEW p \in Objects, NEW r \in Objects,
               obj'[p] # NoObject, obj'[p].id = i, obj'[p].live,
               obj'[r] # NoObject, obj'[r].id = i, obj'[r].live
        PROVE  p = r
    <3>1. CASE i = i0
      BY <1>3, <1>8, <2>2, <3>1
    <3>2. CASE i # i0
      <4>1. p # o /\ r # o /\ i \in 1 .. made
        BY <1>2, <1>3, <1>7, <2>2, <3>2
      <4>. QED  BY <1>0, <1>3, <2>2, <4>1 DEF Ownership, Holds
    <3>. QED  BY <3>1, <3>2
  <2>. QED  BY <1>1, <2>1, <2>2 DEF Ownership, Holds, Unexecuted
<1>10. Accounts'
  <2>1. ASSUME NEW i \in 1 .. MaxMade, i <= made', Unexecuted(i)
        PROVE  \E p \in Objects : obj'[p] # NoObject /\ obj'[p].id = i /\ obj'[p].live
    <3>1. CASE i = i0
      BY <1>2, <1>3, <3>1
    <3>2. CASE i # i0
      <4>1. i <= made
        BY <1>0, <1>1, <2>1, <3>2
      <4>2. PICK p \in Objects : Holds(p, i) /\ obj[p].live
        BY <1>0, <2>1, <4>1 DEF Accounts
      <4>. QED  BY <1>1, <1>3, <4>2 DEF Holds
    <3>. QED  BY <3>1, <3>2
  <2>2. ASSUME NEW i \in 1 .. made', NEW p \in Objects,
               obj'[p] # NoObject, obj'[p].id = i, obj'[p].live, runs[i].implicit = 1
        PROVE  InDestructor(p)
    <3>1. i # i0 /\ i \in 1 .. made
      BY <1>7, <2>2
    <3>2. Holds(p, i) /\ obj[p].live
      BY <1>2, <1>3, <2>2, <3>1 DEF Holds
    <3>. QED  BY <1>0, <2>2, <3>1, <3>2 DEF Accounts
  <2>3. \A i \in 1 .. MaxMade : i > made' => i > made
    BY <1>0, <1>1
  <2>. QED  BY <1>0, <1>1, <2>1, <2>2, <2>3 DEF Accounts, Holds, Unexecuted, InDestructor
<1>. QED  BY <1>5, <1>6, <1>9, <1>10 DEF IInv

LEMMA MoveStep ==
  ASSUME IInv, NEW o \in Objects, NEW p \in Objects \ {o}, Move(o, p)
  PROVE  IInv'
<1>0. TypeOK /\ Executions /\ Nesting /\ Ownership /\ Accounts /\ made \in 0 .. MaxMade /\ MaxMade \in Nat
  BY BoundAssumption DEF IInv, TypeOK
<1>. PICK r, q : r = obj[o] /\ q = MovedFrom(obj[o])
  OBVIOUS
<1>1. /\ obj[o] # NoObject /\ obj[o].live /\ o \notin Busy /\ obj[p] = NoObject
      /\ obj' = [obj EXCEPT ![p] = r, ![o] = q]
      /\ UNCHANGED <<made, lastStatus, userFault, stack, runs>>
  BY DEF Move
<1>2. r \in Requests /\ r # NoObject
  BY <1>0, <1>1, ObjectType
<1>3. /\ q \in Requests /\ q # NoObject
      /\ q.id = r.id /\ q.live = FALSE /\ q.executed = TRUE
  <2>1. q = [r EXCEPT !.live = FALSE, !.executed = TRUE]
    BY DEF MovedFrom
  <2>2. q \in Requests /\ q.id = r.id /\ q.live = FALSE /\ q.executed = TRUE
    BY <1>2, <2>1 DEF Requests
  <2>. QED  BY <2>2, RequestFields
<1>4. /\ obj' \in [Objects -> Requests \cup {NoObject}]
      /\ obj'[o] = q /\ obj'[p] = r
      /\ \A s \in Objects : s # o /\ s # p => obj'[s] = obj[s]
  BY <1>0, <1>1, <1>2, <1>3 DEF TypeOK
<1>5. ASSUME NEW i \in DOMAIN stack
      PROVE  /\ Sound(stack[i], obj[stack[i].o], userFault)
             /\ stack[i].o # o /\ stack[i].o # p /\ stack[i].o \in Objects
  <2>1. Sound(stack[i], obj[stack[i].o], userFault)
    BY <1>0 DEF Executions, Req
  <2>2. stack[i].o \in Objects /\ obj[stack[i].o] # NoObject
    BY <2>1, FrameFields, RequestFields DEF Sound
  <2>. QED  BY <1>1, <2>1, <2>2 DEF Busy
<1>6. TypeOK' /\ Nesting'
  BY <1>0, <1>1, <1>4 DEF TypeOK, Nesting
<1>7. Executions'
  BY <1>1, <1>4, <1>5 DEF Executions, Req
<1>8. ~InDestructor(o)
  BY <1>1 DEF Busy, InDestructor
(* Each live object holds what one held before, and only p's has moved.    *)
<1>9. \A s \in Objects : obj'[s] # NoObject /\ obj'[s].live =>
        /\ s # o
        /\ s = p => obj'[s] = obj[o]
        /\ s # p => obj'[s] = obj[s]
  BY <1>3, <1>4
<1>10. Ownership'
  <2>1. ASSUME NEW s \in Objects, obj'[s] # NoObject, NEW i, i = obj'[s].id
        PROVE  /\ i \in 1 .. made
               /\ obj'[s].live => (obj'[s].executed <=> ~Unexecuted(i))
               /\ ~obj'[s].live => obj'[s].executed
    BY <1>0, <1>1, <1>3, <1>4, <2>1 DEF Ownership
  <2>2. \A i \in 1 .. made : \A s, t \in Objects :
          /\ obj'[s] # NoObject /\ obj'[s].id = i /\ obj'[s].live
          /\ obj'[t] # NoObject /\ obj'[t].id = i /\ obj'[t].live
          => s = t
    BY <1>0, <1>1, <1>9 DEF Ownership, Holds
  <2>. QED  BY <1>1, <2>1, <2>2 DEF Ownership, Holds, Unexecuted
<1>11. Accounts'
  <2>1. ASSUME NEW i \in 1 .. MaxMade, i <= made, Unexecuted(i)
        PROVE  \E s \in Objects : obj'[s] # NoObject /\ obj'[s].id = i /\ obj'[s].live
    <3>1. PICK s \in Objects : Holds(s, i) /\ obj[s].live
      BY <1>0, <2>1 DEF Accounts
    <3>2. CASE s = o
      BY <1>1, <1>2, <1>4, <3>1, <3>2 DEF Holds
    <3>3. CASE s # o
      <4>1. s # p
        BY <1>1, <3>1 DEF Holds
      <4>. QED  BY <1>4, <3>1, <3>3, <4>1 DEF Holds
    <3>. QED  BY <3>2, <3>3
  <2>2. ASSUME NEW i \in 1 .. made, NEW s \in Objects,
               obj'[s] # NoObject, obj'[s].id = i, obj'[s].live, runs[i].implicit = 1
        PROVE  InDestructor(s)
    <3>1. s # p
      BY <1>0, <1>1, <1>8, <1>9, <2>2 DEF Accounts, Holds
    <3>. QED  BY <1>0, <1>9, <2>2, <3>1 DEF Accounts, Holds
  <2>. QED  BY <1>0, <1>1, <2>1, <2>2 DEF Accounts, Holds, Unexecuted, InDestructor
<1>. QED  BY <1>6, <1>7, <1>10, <1>11 DEF IInv

LEMMA StutterStep ==
  ASSUME IInv, UNCHANGED vars
  PROVE  IInv'
<1>1. UNCHANGED <<obj, made, lastStatus, userFault, stack, runs>>
  BY DEF vars
<1>2. TypeOK'
  BY <1>1 DEF IInv, TypeOK
<1>3. Executions' /\ Nesting'
  BY <1>1 DEF IInv, Executions, Nesting, Req
<1>4. Ownership' /\ Accounts'
  BY <1>1 DEF IInv, Ownership, Accounts, Holds, Unexecuted, InDestructor
<1>. QED  BY <1>2, <1>3, <1>4 DEF IInv

LEMMA Step == IInv /\ [Next]_vars => IInv'
<1>. SUFFICES ASSUME IInv, [Next]_vars PROVE IInv'
  OBVIOUS
<1>1. ASSUME NEW o \in Objects, NEW k \in Kinds, NEW m \in Retries, NEW t \in BOOLEAN,
             Make(o, k, m, t)
      PROVE  IInv'
  BY <1>1, MakeStep
<1>2. ASSUME NEW o \in Objects, NEW p \in Objects \ {o}, Move(o, p)
      PROVE  IInv'
  BY <1>2, MoveStep
<1>3. ASSUME NEW o \in Objects, Execute(o)
      PROVE  IInv'
  BY <1>3, ExecuteStep
<1>4. ASSUME NEW o \in Objects, Destroy(o)
      PROVE  IInv'
  BY <1>4, ExecutedByDestructor, Destroyed
<1>5. CASE UserCode
  BY <1>1, <1>2, <1>3, <1>4, <1>5 DEF UserCode
<1>6. CASE Attempt
  BY <1>6, LoseStep, AnswerStep DEF Attempt
<1>7. CASE NextCallback
  BY <1>7, CallbackStep
<1>8. CASE Return
  BY <1>8, ReturnStep
<1>9. CASE UNCHANGED vars
  BY <1>9, StutterStep
<1>. QED  BY <1>5, <1>6, <1>7, <1>8, <1>9 DEF Next

(* In every reachable state the objects are well typed, an execution in    *)
(* progress agrees with the members it has set, executions nest as their   *)
(* callbacks called them, an object has at most one owner, and what was    *)
(* told to the callbacks accounts for what was sent.                       *)
THEOREM Invariance == Spec => []IInv
<1>1. Init => IInv
  BY Start
<1>2. IInv /\ [Next]_vars => IInv'
  BY Step
<1>. QED  BY <1>1, <1>2, PTL DEF Spec

-----------------------------------------------------------------------------
(* What the invariant says of the properties. *)

(* The types of the request objects, of the executions in progress and of  *)
(* the accounts, with no more of each than the bounds allow: in particular *)
(* a retry is counted at most maxRetry times, so that no counter overflows.*)
THEOREM ExecutionTypes == Spec => []TypeOK
<1>1. IInv => TypeOK
  BY DEF IInv
<1>. QED  BY <1>1, Invariance, PTL

(* A request is executed when the last object that held it is gone, by its *)
(* destructor if nobody else did, and by a destructor only once: whatever  *)
(* is moved, executed by hand or nested in callbacks meanwhile.            *)
THEOREM DestructorExecutesOnce == Spec => []ExecutedOnce
<1>1. IInv => ExecutedOnce
  <2>. SUFFICES ASSUME IInv PROVE ExecutedOnce
    OBVIOUS
  <2>1. TypeOK /\ Accounts /\ made \in 0 .. MaxMade /\ MaxMade \in Nat
    BY BoundAssumption DEF IInv, TypeOK
  <2>2. ASSUME NEW i \in 1 .. made
        PROVE  /\ runs[i].implicit <= 1
               /\ runs[i].implicit = 1 => runs[i].explicit = 0
               /\ Holders(i) = {} => runs[i].explicit + runs[i].implicit > 0
    <3>1. i \in 1 .. MaxMade /\ i <= made
      BY <2>1
    <3>2. /\ runs[i].implicit <= 1
          /\ runs[i].implicit = 1 => runs[i].explicit = 0
      BY <2>1, <3>1 DEF Accounts
    <3>3. Unexecuted(i) => Holders(i) # {}
      BY <2>1, <3>1 DEF Accounts, Holds, Holders
    <3>4. runs[i] \in [explicit : 0 .. MaxRuns, implicit : Nat]
      BY <2>1, <3>1 DEF TypeOK
    <3>5. runs[i].explicit \in Nat /\ runs[i].implicit \in Nat
      BY <3>4, BoundAssumption
    <3>. QED  BY <3>2, <3>3, <3>5 DEF Unexecuted
  <2>. QED  BY <2>2 DEF ExecutedOnce
<1>. QED  BY <1>1, Invariance, PTL

(* What a server answered is never sent again, and an execution sends at   *)
(* most 1 + maxRetry times, for every maxRetry up to INT_MAX.              *)
THEOREM AnswersNeverResent == Spec => []NeverResent
<1>1. IInv => NeverResent
  <2>. SUFFICES ASSUME IInv, NEW i \in DOMAIN stack, NEW f, f = stack[i]
       PROVE  /\ f.attempts <= 1 + Req(f).maxRetry
              /\ f.pc = "attempt" => f.answered = 0
              /\ f.answered # 0 => f.code = f.answered
    BY DEF NeverResent
  <2>1. Sound(f, Req(f), userFault)
    BY DEF IInv, Executions
  <2>2. f \in Frames /\ Req(f) \in Requests /\ Attempting(f, Req(f))
    BY <2>1 DEF Sound
  <2>3. /\ f.retries \in Nat /\ f.attempts \in Nat /\ Req(f).maxRetry \in Nat
        /\ f.retries <= Req(f).maxRetry /\ f.attempts <= 1 + f.retries
    BY <2>2, FrameFields, RequestFields DEF Attempting
  <2>. QED  BY <2>2, <2>3 DEF Attempting
<1>. QED  BY <1>1, Invariance, PTL

(* The success callbacks run for an answer of this very execution, except  *)
(* where the URL was rejected; and the message of an error is about its own*)
(* code, except where another execution came in between.                   *)
THEOREM OutcomesEarned == Spec => []OutcomeEarned
<1>1. IInv => OutcomeEarned
  <2>. SUFFICES ASSUME IInv, NEW i \in DOMAIN stack, NEW f, f = stack[i]
       PROVE  /\ Told(f, "reqSuccess") /\ f.connected => Is2xx(f.answered)
              /\ Told(f, "reqError") /\ ~f.interrupted => f.errMsg = f.code
    BY DEF OutcomeEarned
  <2>1. Sound(f, Req(f), userFault)
    BY DEF IInv, Executions
  <2>2. f \in Frames /\ Attempting(f, Req(f)) /\ Reporting(f)
    BY <2>1 DEF Sound
  <2>3. Told(f, "reqSuccess") => f.pc # "attempt"
    BY <2>2 DEF Reporting, Told
  <2>. QED  BY <2>2, <2>3 DEF Attempting, Reporting
<1>. QED  BY <1>1, Invariance, PTL

-----------------------------------------------------------------------------
(* The executions keep the contract of the callbacks: each step is one of  *)
(* the contract's, or none, on what the executions have told.              *)
TellsOf(s) == [i \in DOMAIN s |-> s[i].told]

Tells == TellsOf(stack)

LEMMA TellsType ==
  ASSUME NEW s \in Seq(Frames)
  PROVE  /\ TellsOf(s) \in Seq(Seq(Callbacks)) /\ Len(TellsOf(s)) = Len(s)
         /\ Len(s) \in Nat /\ DOMAIN TellsOf(s) = 1 .. Len(s) /\ DOMAIN s = 1 .. Len(s)
         /\ \A i \in 1 .. Len(s) : TellsOf(s)[i] = s[i].told /\ s[i] \in Frames
<1>1. DOMAIN s = 1 .. Len(s) /\ Len(s) \in Nat /\ \A i \in 1 .. Len(s) : s[i] \in Frames
  OBVIOUS
<1>2. \A i \in 1 .. Len(s) : s[i].told \in Seq(Callbacks)
  BY <1>1, FrameFields
<1>3. TellsOf(s) \in [1 .. Len(s) -> Seq(Callbacks)]
  BY <1>1, <1>2 DEF TellsOf
<1>4. TellsOf(s) \in Seq(Seq(Callbacks)) /\ Len(TellsOf(s)) = Len(s)
  BY <1>1, <1>3
<1>. QED  BY <1>1, <1>3, <1>4 DEF TellsOf

(* The last execution tells e. *)
LEMMA ToldMore ==
  ASSUME NEW s \in Seq(Frames), s # <<>>, NEW g \in Frames, NEW e \in Callbacks,
         g.told = Append(s[Len(s)].told, e)
  PROVE  TellsOf([s EXCEPT ![Len(s)] = g])
           = [TellsOf(s) EXCEPT ![Len(TellsOf(s))] = Append(@, e)]
<1>. DEFINE u == [s EXCEPT ![Len(s)] = g]
            n == Len(s)
<1>1. u \in Seq(Frames) /\ Len(u) = n /\ u[n] = g /\ \A i \in 1 .. n : i # n => u[i] = s[i]
  BY Replaced
<1>2. n \in 1 .. n
  BY LastOf
<1>. HIDE DEF u
<1>3. /\ DOMAIN TellsOf(u) = 1 .. n
      /\ \A i \in 1 .. n : TellsOf(u)[i] = u[i].told
      /\ DOMAIN TellsOf(s) = 1 .. n /\ Len(TellsOf(s)) = n
      /\ \A i \in 1 .. n : TellsOf(s)[i] = s[i].told
  BY <1>1, TellsType
<1>4. \A i \in 1 .. n : TellsOf(u)[i] = IF i = n THEN Append(TellsOf(s)[n], e) ELSE TellsOf(s)[i]
  BY <1>1, <1>2, <1>3
<1>5. TellsOf(u) = [i \in 1 .. n |-> TellsOf(u)[i]]
  BY <1>3 DEF TellsOf
<1>6. TellsOf(u) = [TellsOf(s) EXCEPT ![n] = Append(@, e)]
  BY <1>3, <1>4, <1>5
<1>. QED  BY <1>3, <1>6 DEF u

(* It says nothing new. *)
LEMMA ToldNothing ==
  ASSUME NEW s \in Seq(Frames), s # <<>>, NEW g \in Frames, g.told = s[Len(s)].told
  PROVE  TellsOf([s EXCEPT ![Len(s)] = g]) = TellsOf(s)
<1>. DEFINE u == [s EXCEPT ![Len(s)] = g]
            n == Len(s)
<1>1. u \in Seq(Frames) /\ Len(u) = n /\ u[n] = g /\ \A i \in 1 .. n : i # n => u[i] = s[i]
  BY Replaced
<1>. HIDE DEF u
<1>2. /\ TellsOf(u) \in Seq(Seq(Callbacks)) /\ Len(TellsOf(u)) = n
      /\ TellsOf(s) \in Seq(Seq(Callbacks)) /\ Len(TellsOf(s)) = n
      /\ \A i \in 1 .. n : TellsOf(u)[i] = u[i].told /\ TellsOf(s)[i] = s[i].told
  BY <1>1, TellsType
<1>3. \A i \in 1 .. n : TellsOf(u)[i] = TellsOf(s)[i]
  BY <1>1, <1>2
<1>4. TellsOf(u) = TellsOf(s)
  BY <1>2, <1>3, SeqEqual
<1>. QED  BY <1>4 DEF u

(* An execution begins. *)
LEMMA ToldFirst ==
  ASSUME NEW s \in Seq(Frames), NEW m \in Seq(Frames), NEW f \in Frames, f.told = <<>>,
         Len(m) = Len(s), \A i \in 1 .. Len(s) : m[i].told = s[i].told
  PROVE  TellsOf(Append(m, f)) = Append(TellsOf(s), <<>>)
<1>. DEFINE u == Append(m, f)
            n == Len(s)
            t == Append(TellsOf(s), <<>>)
<1>1. /\ TellsOf(s) \in Seq(Seq(Callbacks)) /\ Len(TellsOf(s)) = n /\ n \in Nat
      /\ \A i \in 1 .. n : TellsOf(s)[i] = s[i].told
  BY TellsType
<1>2. u \in Seq(Frames) /\ Len(u) = n + 1 /\ u[n + 1] = f /\ \A i \in 1 .. n : u[i] = m[i]
  BY <1>1
<1>3. <<>> \in Seq(Callbacks)
  OBVIOUS
<1>4. t \in Seq(Seq(Callbacks)) /\ Len(t) = n + 1 /\ t[n + 1] = <<>> /\ \A i \in 1 .. n : t[i] = TellsOf(s)[i]
  BY <1>1, <1>3
<1>. HIDE DEF u, t
<1>5. /\ TellsOf(u) \in Seq(Seq(Callbacks)) /\ Len(TellsOf(u)) = n + 1
      /\ \A i \in 1 .. n + 1 : TellsOf(u)[i] = u[i].told
  BY <1>2, TellsType
<1>6. ASSUME NEW i \in 1 .. n + 1
      PROVE  TellsOf(u)[i] = t[i]
  <2>1. CASE i = n + 1
    BY <1>2, <1>4, <1>5, <2>1
  <2>2. CASE i # n + 1
    <3>1. i \in 1 .. n
      BY <1>1, <2>2
    <3>. QED  BY <1>1, <1>2, <1>4, <1>5, <3>1
  <2>. QED  BY <2>1, <2>2
<1>7. TellsOf(u) = t
  BY <1>4, <1>5, <1>6, SeqEqual
<1>. QED  BY <1>7 DEF u, t

(* The last execution is over. *)
LEMMA ToldAll ==
  ASSUME NEW s \in Seq(Frames), s # <<>>
  PROVE  TellsOf(SubSeq(s, 1, Len(s) - 1)) = SubSeq(TellsOf(s), 1, Len(TellsOf(s)) - 1)
<1>. DEFINE u == SubSeq(s, 1, Len(s) - 1)
            n == Len(s) - 1
            t == SubSeq(TellsOf(s), 1, Len(TellsOf(s)) - 1)
<1>1. Len(s) \in Nat \ {0} /\ n \in Nat /\ 1 .. n = 1 .. Len(s) \ {Len(s)}
  BY LastOf
<1>2. /\ TellsOf(s) \in Seq(Seq(Callbacks)) /\ Len(TellsOf(s)) = Len(s)
      /\ DOMAIN s = 1 .. Len(s) /\ DOMAIN TellsOf(s) = 1 .. Len(s)
      /\ \A i \in 1 .. Len(s) : TellsOf(s)[i] = s[i].told
  BY TellsType
<1>3. u \in Seq(Frames) /\ Len(u) = n /\ \A i \in 1 .. n : u[i] = s[i]
  BY <1>1, <1>2, Shortened
<1>4. TellsOf(s) # <<>>
  BY <1>1, <1>2
<1>5. t \in Seq(Seq(Callbacks)) /\ Len(t) = n /\ \A i \in 1 .. n : t[i] = TellsOf(s)[i]
  BY <1>1, <1>2, <1>4, Shortened
<1>. HIDE DEF u, t
<1>6. /\ TellsOf(u) \in Seq(Seq(Callbacks)) /\ Len(TellsOf(u)) = n
      /\ \A i \in 1 .. n : TellsOf(u)[i] = u[i].told
  BY <1>3, TellsType
<1>7. \A i \in 1 .. n : TellsOf(u)[i] = t[i]
  BY <1>1, <1>2, <1>3, <1>5, <1>6
<1>8. TellsOf(u) = t
  BY <1>5, <1>6, <1>7, SeqEqual
<1>. QED  BY <1>8 DEF u, t

LEMMA BeginTells ==
  ASSUME IInv, NEW o \in Objects, NEW d \in BOOLEAN, Begin(o, d), obj[o] # NoObject
  PROVE  Tells' = Append(Tells, <<>>)
<1>0. TypeOK
  BY DEF IInv
<1>. PICK connected \in BOOLEAN, pc \in {"attempt", "over"}, c \in Codes :
       stack' = Append(Interrupted, First(o, d, connected, pc, c)) /\ (connected => c = 0)
  BY <1>0, Pushed
<1>. PICK f : f = First(o, d, connected, pc, c)
  OBVIOUS
<1>. PICK r \in Requests : r = [obj[o] EXCEPT !.executed = TRUE]
  BY <1>0, ObjectType DEF Requests
<1>1. r.executed
  BY <1>0, ObjectType DEF Requests
<1>2. Sound(f, r, TRUE)
  BY <1>1, SoundFirst
<1>3. f \in Frames /\ f.told = <<>>
  BY <1>2 DEF Sound, First
<1>4. /\ stack \in Seq(Frames) /\ DOMAIN stack = 1 .. Len(stack)
      /\ Interrupted \in Seq(Frames) /\ Len(Interrupted) = Len(stack)
      /\ \A i \in 1 .. Len(stack) : Interrupted[i].told = stack[i].told
  BY <1>0, StackType, InterruptedStack
<1>5. TellsOf(Append(Interrupted, f)) = Append(TellsOf(stack), <<>>)
  BY <1>3, <1>4, ToldFirst
<1>. QED  BY <1>5 DEF Tells

LEMMA AttemptTells ==
  ASSUME IInv, Attempt
  PROVE  Tells' = Tells
<1>0. TypeOK
  BY DEF IInv
<1>1. ASSUME stack # <<>>, NEW g,
             stack' = [stack EXCEPT ![Len(stack)] = g], Sound(g, Req(Top), userFault), g.told = Top.told
      PROVE  Tells' = Tells
  <2>1. stack \in Seq(Frames) /\ g \in Frames /\ g.told = stack[Len(stack)].told
    BY <1>0, <1>1 DEF TypeOK, Sound, Top
  <2>. QED  BY <1>1, <2>1, ToldNothing DEF Tells
<1>2. ASSUME stack # <<>>
      PROVE  Sound(Top, Req(Top), userFault)
  BY <1>0, <1>2, StackType DEF IInv, Executions, Top
<1>3. CASE Lose
  <2>1. stack # <<>> /\ Top.pc = "attempt"
    BY <1>3 DEF Lose
  <2>2. CASE Retryable(Failed, Top, Req(Top))
    <3>1. stack' = [stack EXCEPT ![Len(stack)] = Retried(Top)]
      BY <1>3, <2>2 DEF Lose, Retried
    <3>2. Sound(Retried(Top), Req(Top), userFault) /\ Retried(Top).told = Top.told
      BY <1>2, <2>1, <2>2, SoundRetried DEF Retryable
    <3>. QED  BY <1>1, <2>1, <3>1, <3>2
  <2>3. CASE ~Retryable(Failed, Top, Req(Top))
    <3>1. stack' = [stack EXCEPT ![Len(stack)] = Missed(Top)]
      BY <1>3, <2>3 DEF Lose, Leave, Missed, Left
    <3>2. Sound(Missed(Top), Req(Top), userFault) /\ Missed(Top).told = Top.told
      BY <1>2, <2>1, SoundMissed
    <3>. QED  BY <1>1, <2>1, <3>1, <3>2
  <2>. QED  BY <2>2, <2>3
<1>4. ASSUME NEW c \in ServerCodes, NEW e \in BOOLEAN, Answer(c, e)
      PROVE  Tells' = Tells
  <2>1. stack # <<>> /\ Top.pc = "attempt"
    BY <1>4 DEF Answer
  <2>2. ~Retryable(c, Top, Req(Top))
    BY CodeAssumption DEF Retryable
  <2>3. stack' = [stack EXCEPT ![Len(stack)] = AnsweredBy(Top, c, e)]
    BY <1>4, <2>2 DEF Answer, Leave, AnsweredBy, Left
  <2>4. Sound(AnsweredBy(Top, c, e), Req(Top), userFault) /\ AnsweredBy(Top, c, e).told = Top.told
    BY <1>2, <2>1, SoundAnswered
  <2>. QED  BY <1>1, <2>1, <2>3, <2>4
<1>. QED  BY <1>3, <1>4 DEF Attempt

LEMMA CallbackTells ==
  ASSUME IInv, NextCallback
  PROVE  /\ Tells # <<>>
         /\ \E e \in Callbacks :
              /\ Contract!MayTell(Tells[Len(Tells)], e)
              /\ Tells' = [Tells EXCEPT ![Len(Tells)] = Append(@, e)]
<1>0. TypeOK /\ Executions /\ Nesting
  BY DEF IInv
<1>1. stack # <<>> /\ Top.pc # "attempt" /\ After(Top) # "done"
  BY DEF NextCallback
<1>2. /\ stack \in Seq(Frames) /\ Len(stack) \in DOMAIN stack /\ DOMAIN stack = 1 .. Len(stack)
      /\ Top = stack[Len(stack)] /\ Sound(Top, Req(Top), userFault)
  BY <1>0, <1>1, StackType DEF Executions, Top
<1>3. lastStatus \in Codes /\ Top \in Frames
  BY <1>0, <1>2 DEF TypeOK, Codes, Sound
<1>4. Top.interrupted \/ lastStatus = Top.code
  BY <1>0, <1>1, <1>2 DEF Nesting
<1>. PICK e : e = After(Top)
  OBVIOUS
<1>. PICK g : g = Telling(Top, e, MessageCode(Top))
  OBVIOUS
<1>5. stack' = [stack EXCEPT ![Len(stack)] = g]
  BY <1>2 DEF NextCallback, Telling
<1>6. /\ e \in Callbacks /\ Contract!MayTell(Top.told, e)
      /\ e = "reqSuccess" => Is2xx(Top.code)
      /\ e = "reqFault" => Req(Top).kind = "soap" /\ Matched(Top)
      /\ e = "rpcError" => Req(Top).kind = "jsonrpc" /\ Req(Top).errors
  BY <1>1, <1>2, Order
<1>7. Sound(g, Req(Top), userFault) /\ g.told = Append(Top.told, e)
  <2>1. /\ MessageCode(Top) \in Codes
        /\ e = "reqError" /\ ~Top.interrupted => MessageCode(Top) = Top.code
        /\ e # "reqError" => MessageCode(Top) = Top.errMsg
    BY <1>3, <1>4, MessageAbout
  <2>. QED  BY <1>1, <1>2, <1>6, <2>1, SoundTelling DEF Matched
<1>8. g \in Frames /\ g.told = Append(stack[Len(stack)].told, e)
  BY <1>2, <1>7 DEF Sound
<1>9. Tells' = [Tells EXCEPT ![Len(Tells)] = Append(@, e)]
  BY <1>1, <1>2, <1>5, <1>6, <1>8, ToldMore DEF Tells
<1>10. Len(Tells) = Len(stack) /\ Tells # <<>> /\ Tells[Len(Tells)] = Top.told
  <2>1. Len(stack) \in Nat /\ Len(stack) # 0
    BY <1>1, <1>2, LastOf
  <2>. QED  BY <1>2, <2>1, TellsType DEF Tells
<1>. QED  BY <1>6, <1>9, <1>10

LEMMA ReturnTells ==
  ASSUME IInv, Return
  PROVE  /\ Tells # <<>> /\ Contract!Complete(Tells[Len(Tells)])
         /\ Tells' = SubSeq(Tells, 1, Len(Tells) - 1)
<1>0. TypeOK /\ Executions
  BY DEF IInv
<1>1. /\ stack # <<>> /\ Top.pc # "attempt" /\ After(Top) = "done"
      /\ stack' = SubSeq(stack, 1, Len(stack) - 1)
  BY DEF Return
<1>2. /\ stack \in Seq(Frames) /\ Len(stack) \in DOMAIN stack /\ DOMAIN stack = 1 .. Len(stack)
      /\ Top = stack[Len(stack)] /\ Sound(Top, Req(Top), userFault)
  BY <1>0, <1>1, StackType DEF Executions, Top
<1>3. Top.pc = "observability"
  BY <1>1, <1>2, Order
<1>4. Contract!Complete(Top.told)
  BY <1>2, <1>3 DEF Sound, Reporting, Callbacks, Contract!Complete, Contract!Just
<1>5. Len(Tells) = Len(stack) /\ Tells # <<>> /\ Tells[Len(Tells)] = Top.told
  <2>1. Len(stack) \in Nat /\ Len(stack) # 0
    BY <1>1, <1>2, LastOf
  <2>. QED  BY <1>2, <2>1, TellsType DEF Tells
<1>. QED  BY <1>1, <1>2, <1>4, <1>5, ToldAll DEF Tells

LEMMA StepTells == IInv /\ [Next]_vars => Contract!Next \/ Tells' = Tells
<1>. SUFFICES ASSUME IInv, [Next]_vars PROVE Contract!Next \/ Tells' = Tells
  OBVIOUS
<1>1. ASSUME NEW o \in Objects, NEW d \in BOOLEAN, Begin(o, d), obj[o] # NoObject
      PROVE  Contract!Next
  BY <1>1, BeginTells DEF Contract!Next, Contract!Begin, Tells, TellsOf
<1>2. CASE UserCode
  <2>1. ASSUME stack' = stack
        PROVE  Tells' = Tells
    BY <2>1 DEF Tells, TellsOf
  <2>. PICK o \in Objects :
         \/ \E k \in Kinds, m \in Retries, t \in BOOLEAN : Make(o, k, m, t)
         \/ \E p \in Objects \ {o} : Move(o, p)
         \/ Execute(o)
         \/ Destroy(o)
    BY <1>2 DEF UserCode
  <2>2. CASE Execute(o)
    BY <1>1, <2>2 DEF Execute
  <2>3. CASE Destroy(o)
    BY <1>1, <2>1, <2>3 DEF Destroy
  <2>. QED  BY <2>1, <2>2, <2>3 DEF Make, Move
<1>3. CASE Attempt
  BY <1>3, AttemptTells
<1>4. CASE NextCallback
  BY <1>4, CallbackTells DEF Contract!Next, Contract!Tell, Contract!Events, Callbacks, Tells, TellsOf
<1>5. CASE Return
  BY <1>5, ReturnTells DEF Contract!Next, Contract!Finish, Tells, TellsOf
<1>6. CASE UNCHANGED vars
  BY <1>6 DEF vars, Tells, TellsOf
<1>. QED  BY <1>2, <1>3, <1>4, <1>5, <1>6 DEF Next

(* The executions of requests of all four classes implement the contract   *)
(* of the callbacks: each tells of completion first and of one outcome,    *)
(* the request's callback before the client's, and of its metrics last,    *)
(* while others are nested in it.                                          *)
THEOREM ContractKept == Spec => KeepsContract
<1>1. Init => Contract!Init
  <2>. SUFFICES ASSUME Init PROVE Contract!Init
    OBVIOUS
  <2>1. stack = <<>> /\ stack \in Seq(Frames)
    BY DEF Init
  <2>2. TellsOf(stack) \in Seq(Seq(Callbacks)) /\ Len(TellsOf(stack)) = 0
    BY <2>1, TellsType
  <2>3. TellsOf(stack) = <<>>
    BY <2>2
  <2>. QED  BY <2>3 DEF Contract!Init, TellsOf
<1>2. IInv /\ [Next]_vars => [Contract!Next]_(Tells)
  BY StepTells
<1>. QED  BY <1>1, <1>2, Invariance, PTL DEF Spec, KeepsContract, Contract!Spec, Tells, TellsOf

=============================================================================
