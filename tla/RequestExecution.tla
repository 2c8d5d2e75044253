-------------------------- MODULE RequestExecution --------------------------
(***************************************************************************)
(* execute() of RestRequest, SoapRequest, GraphQLRequest and JsonRpcRequest*)
(* and the life of a request object: made by the client, moved, executed   *)
(* explicitly or by its destructor.                                        *)
(*                                                                         *)
(* One task runs everything, so an execution is a frame of its call stack; *)
(* callbacks are user code and may make, execute and destroy other requests*)
(* before they return.  The network loses requests and replies.  All       *)
(* callbacks are registered; one that is not is one that does nothing.     *)
(***************************************************************************)
EXTENDS Integers, Sequences, FiniteSets

CONSTANTS
  Objects,      (* places for request objects                             *)
  Kinds,        (* which request classes are used                         *)
  ServerCodes,  (* status codes a server answers with                     *)
  Retries,      (* values of maxRetry                                     *)
  INT_MAX,      (* bound standing for the largest int                     *)
  MaxMade,      (* bound: requests made                                   *)
  MaxRuns,      (* bound: explicit executions of one request              *)
  MaxDepth      (* bound: nesting of executions                           *)

ASSUME KindAssumption == Kinds \subseteq {"rest", "soap", "graphql", "jsonrpc"}

ASSUME CodeAssumption == ServerCodes \subseteq 100 .. 599

ASSUME BoundAssumption ==
  /\ INT_MAX \in Nat \ {0} /\ Retries \subseteq 0 .. INT_MAX
  /\ MaxMade \in Nat /\ MaxRuns \in Nat /\ MaxDepth \in Nat

VARIABLES
  obj,         (* the request objects                                     *)
  made,        (* requests made so far                                    *)
  lastStatus,  (* _lastStatusCode of the client                           *)
  userFault,   (* .matched of the SoapFault that getFault() is given      *)
  stack,       (* the executions in progress, the innermost last          *)
  runs         (* history: explicit and implicit executions per request   *)

vars == <<obj, made, lastStatus, userFault, stack, runs>>

TLS_NOT_VALIDATED == -12
Failed            == -1
NoObject == [id |-> 0]

Callbacks == {"reqResponse", "cliResponse", "reqFault", "rpcError", "reqSuccess",
              "cliSuccess", "reqError", "cliError", "gqlErrors", "observability"}

(* A request object.  live: it was not moved from; errors: _hasError of a  *)
(* JSON-RPC request, or _errors of a GraphQL one is not empty; target:     *)
(* getFault() was called.                                                  *)
Requests ==
  [id : 1 .. MaxMade, kind : Kinds, maxRetry : Retries, target : BOOLEAN,
   executed : BOOLEAN, live : BOOLEAN, errors : BOOLEAN]

(* An execution: the local variables of execute() and, as history, the     *)
(* attempts made, what the server answered, which callbacks ran, whether   *)
(* one of them executed another request, and which code the message given  *)
(* to the error callbacks is about.                                        *)
Frames ==
  [o : Objects, inDestructor : BOOLEAN, connected : BOOLEAN,
   pc : Callbacks \cup {"attempt", "over"},
   code : ServerCodes \cup {0, Failed, TLS_NOT_VALIDATED}, retries : 0 .. INT_MAX,
   localFault : BOOLEAN, attempts : 0 .. INT_MAX + 1,
   answered : ServerCodes \cup {0}, errorSent : BOOLEAN, told : Seq(Callbacks),
   interrupted : BOOLEAN, errMsg : ServerCodes \cup {0, Failed, TLS_NOT_VALIDATED}]

TypeOK ==
  /\ obj \in [Objects -> Requests \cup {NoObject}]
  /\ made \in 0 .. MaxMade
  /\ lastStatus \in ServerCodes \cup {0, Failed, TLS_NOT_VALIDATED}
  /\ userFault \in BOOLEAN
  /\ stack \in Seq(Frames) /\ Len(stack) <= MaxDepth
  /\ runs \in [1 .. MaxMade -> [explicit : 0 .. MaxRuns, implicit : Nat]]

Init ==
  /\ obj = [o \in Objects |-> NoObject]
  /\ made = 0 /\ lastStatus = 0 /\ userFault = FALSE
  /\ stack = <<>>
  /\ runs = [i \in 1 .. MaxMade |-> [explicit |-> 0, implicit |-> 0]]

Top    == stack[Len(stack)]
Busy   == {stack[i].o : i \in DOMAIN stack}
Req(f) == obj[f.o]

(* User code runs: the program itself, or a callback. *)
UserTurn == IF stack = <<>> THEN TRUE ELSE Top.pc \in Callbacks

-----------------------------------------------------------------------------
(* The life of a request object. *)

(* get(), post(), ..., soap(), graphql() and jsonRpc() of the client. *)
Make(o, k, m, t) ==
  /\ UserTurn /\ obj[o] = NoObject /\ made < MaxMade
  /\ t => k = "soap"
  /\ made' = made + 1
  /\ obj' = [obj EXCEPT ![o] =
       [id |-> made + 1, kind |-> k, maxRetry |-> m, target |-> t,
        executed |-> FALSE, live |-> TRUE, errors |-> FALSE]]
  /\ UNCHANGED <<lastStatus, userFault, stack, runs>>

(* Mutant: the request moved from is not marked as executed. *)
MovedFromArmed(r) == [r EXCEPT !.live = FALSE]

(* What the move constructor leaves behind. *)
MovedFrom(r) == [r EXCEPT !.live = FALSE, !.executed = TRUE]

Move(o, p) ==
  /\ UserTurn /\ obj[o] # NoObject /\ obj[o].live /\ o \notin Busy
  /\ obj[p] = NoObject
  /\ obj' = [obj EXCEPT ![p] = obj[o], ![o] = MovedFrom(obj[o])]
  /\ UNCHANGED <<made, lastStatus, userFault, stack, runs>>

-----------------------------------------------------------------------------
(* The attempts. *)

(* Whether the loop over attempts is entered.  1 + maxRetries overflows for*)
(* INT_MAX, which the build may do in two ways; JsonRpcRequest compares    *)
(* with <= and adds nothing.                                               *)
LoopEntered(r) ==
  IF r.maxRetry = INT_MAX /\ r.kind # "jsonrpc" THEN BOOLEAN ELSE {TRUE}

(* Mutants: an answer is retried like a loss; one retry too many. *)
RetryableAnswer(c, f, r) == (c < 0 \/ c >= 400) /\ f.retries < r.maxRetry
RetryableOnceMore(c, f, r) == c < 0 /\ f.retries <= r.maxRetry

(* Whether an attempt with code c is followed by another one. *)
Retryable(c, f, r) == c < 0 /\ f.retries < r.maxRetry

(* Mutant: the code starts as the status of the client in any case. *)
StartCodeStale(connected, status) == status

StartCode(connected, status) == IF connected THEN 0 ELSE status

(* The loop is left: the code is stored, and http.end() called. *)
Leave(f, c) ==
  /\ lastStatus' = c
  /\ stack' = [stack EXCEPT ![Len(stack)] = [f EXCEPT !.code = c, !.pc = "over"]]

(* The executions in progress, when another one starts. *)
Interrupted == [i \in DOMAIN stack |-> [stack[i] EXCEPT !.interrupted = TRUE]]

(* execute() up to its first attempt.  beginConnection() may refuse (and   *)
(* then sets the status) or http.begin() may reject the URL (and leaves    *)
(* the status of an earlier request).                                      *)
Begin(o, destructor) ==
  /\ UserTurn /\ o \notin Busy /\ Len(stack) < MaxDepth
  /\ \E begun \in {"ok", "refused", "rejected"} : \E entered \in LoopEntered(obj[o]) :
       LET status    == IF begun = "refused" THEN TLS_NOT_VALIDATED ELSE lastStatus
           connected == begun = "ok"
           sends     == connected /\ entered
           c         == StartCode(connected, status)
           first     == [o |-> o, inDestructor |-> destructor, connected |-> connected,
                         pc |-> IF sends THEN "attempt" ELSE "over",
                         code |-> c, retries |-> 0, localFault |-> FALSE,
                         attempts |-> 0, answered |-> 0, errorSent |-> FALSE,
                         told |-> <<>>, interrupted |-> FALSE, errMsg |-> 0]
       IN  /\ stack' = Append(Interrupted, first)
           /\ lastStatus' = IF sends THEN status ELSE c
  /\ obj' = [obj EXCEPT ![o].executed = TRUE]
  /\ UNCHANGED <<made, userFault>>

(* User code calls execute(). *)
Execute(o) ==
  /\ obj[o] # NoObject /\ obj[o].live /\ runs[obj[o].id].explicit < MaxRuns
  /\ Begin(o, FALSE)
  /\ runs' = [runs EXCEPT ![obj[o].id].explicit = @ + 1]

(* A request object goes out of scope. *)
Destroy(o) ==
  /\ UserTurn /\ o \notin Busy /\ obj[o] # NoObject
  /\ IF obj[o].executed
     THEN /\ obj' = [obj EXCEPT ![o] = NoObject]
          /\ UNCHANGED <<made, lastStatus, userFault, stack, runs>>
     ELSE /\ Begin(o, TRUE)
          /\ runs' = [runs EXCEPT ![obj[o].id].implicit = @ + 1]

(* The server answers with c; e: the body carries a SOAP fault, a JSON-RPC *)
(* error or GraphQL errors, which parsing stores where each class keeps it.*)
Answer(c, e) ==
  /\ stack # <<>> /\ Top.pc = "attempt"
  /\ LET r == Req(Top)
         f == [Top EXCEPT !.attempts = @ + 1, !.answered = c, !.errorSent = e]
     IN  /\ e => r.kind # "rest"
         /\ IF Retryable(c, Top, r)
            THEN /\ stack' = [stack EXCEPT ![Len(stack)] = [f EXCEPT !.retries = @ + 1]]
                 /\ UNCHANGED <<obj, lastStatus, userFault>>
            ELSE /\ Leave([f EXCEPT !.localFault = e], c)
                 /\ obj' = [obj EXCEPT ![Top.o].errors =
                              @ \/ (e /\ r.kind \in {"graphql", "jsonrpc"})]
                 /\ userFault' = (userFault \/ (e /\ r.target))
  /\ UNCHANGED <<made, runs>>

(* Mutant: retries are not counted (and attempts up to one only). *)
LoseUncounted ==
  /\ stack # <<>> /\ Top.pc = "attempt"
  /\ IF Retryable(Failed, Top, Req(Top))
     THEN /\ stack' = [stack EXCEPT ![Len(stack)].attempts = 1 - @]
          /\ UNCHANGED lastStatus
     ELSE Leave(Top, Failed)
  /\ UNCHANGED <<obj, made, userFault, runs>>

(* The attempt fails: http.end(), beginConnection() with its result        *)
(* ignored, and the next attempt; or the loop is left.                     *)
Lose ==
  /\ stack # <<>> /\ Top.pc = "attempt"
  /\ LET f == [Top EXCEPT !.attempts = @ + 1]
     IN  IF Retryable(Failed, Top, Req(Top))
         THEN /\ stack' = [stack EXCEPT ![Len(stack)] = [f EXCEPT !.retries = @ + 1]]
              /\ UNCHANGED lastStatus
         ELSE Leave(f, Failed)
  /\ UNCHANGED <<obj, made, userFault, runs>>

Attempt == Lose \/ \E c \in ServerCodes, e \in BOOLEAN : Answer(c, e)

-----------------------------------------------------------------------------
(* The callbacks. *)

Is2xx(c) == c >= 200 /\ c < 300

(* faultPtr->matched: the user's SoapFault if there is one. *)
Matched(f) == IF Req(f).target THEN userFault ELSE f.localFault

(* Mutant: the status alone decides. *)
OutcomeByStatus(f) == IF Is2xx(f.code) THEN "reqSuccess" ELSE "reqError"

(* Which outcome is reported. *)
Outcome(f) ==
  IF Req(f).kind = "jsonrpc" /\ Req(f).errors THEN "reqError"
  ELSE IF Is2xx(f.code) /\ ~(Req(f).kind = "soap" /\ Matched(f))
       THEN "reqSuccess" ELSE "reqError"

(* What is reported between completion and outcome: a fault, an error. *)
Detail(f) ==
  IF Req(f).kind = "soap" /\ Matched(f) THEN "reqFault"
  ELSE IF Req(f).kind = "jsonrpc" /\ Req(f).errors THEN "rpcError"
  ELSE "none"

HasDetail(f) == Detail(f) # "none"

(* What is reported after the outcome: the errors of a GraphQL answer, and *)
(* the metrics.                                                            *)
Extra(f) ==
  IF Req(f).kind = "graphql" /\ Req(f).errors THEN "gqlErrors" ELSE "observability"

(* The callback called after the loop, or after callback pc has returned. *)
After(f) ==
  CASE f.pc = "over"                         -> "reqResponse"
    [] f.pc = "reqResponse"                  -> "cliResponse"
    [] f.pc = "cliResponse" /\ HasDetail(f)  -> Detail(f)
    [] f.pc = "cliResponse" /\ ~HasDetail(f) -> Outcome(f)
    [] f.pc \in {"reqFault", "rpcError"}     -> Outcome(f)
    [] f.pc = "reqSuccess"                   -> "cliSuccess"
    [] f.pc = "reqError"                     -> "cliError"
    [] f.pc \in {"cliSuccess", "cliError"}   -> Extra(f)
    [] f.pc = "gqlErrors"                    -> "observability"
    [] f.pc = "observability"                -> "done"

(* The code that the message of the error callbacks is about: a JSON-RPC   *)
(* error has its own, and otherwise the client is asked for the message,   *)
(* which describes the status that the client has by then.                 *)
MessageCode(f) ==
  CASE After(f) = "reqError" /\ Detail(f) = "rpcError" -> f.code
    [] After(f) = "reqError" /\ Detail(f) # "rpcError" -> lastStatus
    [] OTHER -> f.errMsg

(* A callback returns and the next one is called. *)
NextCallback ==
  /\ stack # <<>> /\ Top.pc # "attempt" /\ After(Top) # "done"
  /\ stack' = [stack EXCEPT ![Len(stack)] =
       [Top EXCEPT !.pc = After(Top), !.told = Append(@, After(Top)), !.errMsg = MessageCode(Top)]]
  /\ UNCHANGED <<obj, made, lastStatus, userFault, runs>>

(* The last one returns: execute() is over, and so is the object if its    *)
(* destructor called.                                                      *)
Return ==
  /\ stack # <<>> /\ Top.pc # "attempt" /\ After(Top) = "done"
  /\ stack' = SubSeq(stack, 1, Len(stack) - 1)
  /\ obj' = IF Top.inDestructor THEN [obj EXCEPT ![Top.o] = NoObject] ELSE obj
  /\ UNCHANGED <<made, lastStatus, userFault, runs>>

UserCode ==
  \E o \in Objects :
    \/ \E k \in Kinds, m \in Retries, t \in BOOLEAN : Make(o, k, m, t)
    \/ \E p \in Objects \ {o} : Move(o, p)
    \/ Execute(o)
    \/ Destroy(o)

Next == UserCode \/ Attempt \/ NextCallback \/ Return

(* The task is scheduled: an attempt ends, if only by the timeout of _http.*)
Fairness == WF_vars(Attempt)

Spec == Init /\ [][Next]_vars /\ Fairness

-----------------------------------------------------------------------------
Contract == INSTANCE RequestOutcome WITH told <- [i \in DOMAIN stack |-> stack[i].told]

Told(f, e) == \E i \in DOMAIN f.told : f.told[i] = e

(* Each execution keeps the promise of its callbacks, however executions   *)
(* nest and whatever the network does.                                     *)
KeepsContract == Contract!Spec

(* A request is executed when the last object that held it is gone, without*)
(* the user asking; one that was executed, or moved on, is not executed by *)
(* a destructor (RestRequest.cpp 107-131 and its three copies).            *)
Holders(i) == {o \in Objects : obj[o] # NoObject /\ obj[o].id = i}

ExecutedOnce ==
  \A i \in 1 .. made :
    /\ runs[i].implicit <= 1
    /\ runs[i].implicit = 1 => runs[i].explicit = 0
    /\ Holders(i) = {} => runs[i].explicit + runs[i].implicit > 0

(* An attempt follows only failed ones: what a server answered is never    *)
(* sent again, and an execution sends at most 1 + maxRetry times (the loops*)
(* RestRequest.cpp 356-391, SoapRequest.cpp, GraphQLRequest.cpp 900-914 and*)
(* JsonRpcRequest.cpp 985-994).                                            *)
NeverResent ==
  \A i \in DOMAIN stack :
    LET f == stack[i] IN
    /\ f.attempts <= 1 + Req(f).maxRetry
    /\ f.pc = "attempt" => f.answered = 0
    /\ f.answered # 0 => f.code = f.answered

(* What an execution reports is its own: the success callbacks run for an  *)
(* answer of this very execution, except where the URL was rejected and    *)
(* nothing was sent (see SuccessIsAnswered), and the message of the error  *)
(* callbacks is about its own code, except where a callback has executed   *)
(* another request before the message was made (RestRequest.cpp 435-456).  *)
OutcomeEarned ==
  \A i \in DOMAIN stack :
    LET f == stack[i] IN
    /\ Told(f, "reqSuccess") /\ f.connected => Is2xx(f.answered)
    /\ Told(f, "reqError") /\ ~f.interrupted => f.errMsg = f.code

(* The loop over attempts ends: each pass counts. *)
AttemptsEnd ==
  \A d \in 1 .. MaxDepth :
    (Len(stack) = d /\ Top.pc = "attempt") ~> ~(Len(stack) = d /\ Top.pc = "attempt")

=============================================================================
