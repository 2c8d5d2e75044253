# Verification of esp32-http-client

TLA+ models of the library in `src/src/`, checked with TLC and, where a result should hold for every value of
the parameters, proved with TLAPS. All paths below are relative to the repository (`src/...`); `File.cpp:12`
is short for `src/src/File.cpp:12`. `PROJECT.json` maps every definition to the lines it models and lists the
runs, the properties, the mutants that each property must catch, the hazards and the theorems.

## 1. The system

The library is an HTTP client for the ESP32. One `ESP32HTTPClient` owns an `HTTPClient` of the Arduino core (the
kept-alive connection), a secure client for TLS, the configuration, and callbacks. It makes request objects of
four classes - REST, SOAP, GraphQL, JSON-RPC - which collect what they need through chained setters and run in
`execute()`, at the latest in their destructor. `execute()` is synchronous: it connects, sends, retries, parses
the body *while it streams by* into variables the caller has bound to paths of it, and calls the callbacks.

    user code --setters--> ESP32HTTPClient --configuration--> HTTPClient / NetworkClientSecure  (Arduino core)
        |  ^                    |     ^ lastStatus                  |
        |  | callbacks          makes | beginConnection()           | bytes, as they arrive
        |  |                    v     |                             v
        +--+---------- Rest/Soap/GraphQl/JsonRpcRequest <---- BufferedStreamReader
                                |
                                +--> JSON or XML parser --> bound variables, fault, error, raw result

| component | state it keeps | operations | what makes it correct |
|---|---|---|---|
| Buffered stream reader (`BufferedStreamReader.*`) | buffer, position, bytes left of the chunk, end flag | `available`, `read`, `peek`, `refill`, `readRawByte` | the bytes of the body in order, none lost, none twice; chunk framing never taken for data; ends only for a reason; every call returns |
| Connection and TLS (`ESP32HTTPClient.cpp`, `ESP32HTTPClientTLS.h`) | base URL, port, trust anchor, client certificate, policy, `_transport`, `_secure`, the live connection | URL and TLS setters, `requireValidatedTls`, `end`, `beginConnection` | a kept-alive connection never outlives the configuration it was made under; required validation is never bypassed |
| Execution of requests (`*Request.cpp`) | the request objects, `_lastStatusCode`, the call stack | make, move, `execute`, destructor, attempts, callbacks | executed exactly once; bounded retries, never after an answer; success only when earned; one outcome, in order |
| JSON binding parser (`RestRequest.cpp`) | reader position, call stack with paths and indices, bound variables | `parseJsonWithBindings`, `parseObjectWithBindings`, `parseArrayWithBindings`, `parsePrimitiveWithBinding` | each variable gets what its path designates; a cut body spoils only the value it cuts; never out of step; ends |
| Storage of keys (`RestTypes.h`, `*Request.*`) | `_keyStorage`, pointers to it in bindings | binding variables and structs | a binding's key pointer never dangles |
| JSON-RPC response (`JsonRpcRequest.cpp`) | error, id, version, raw result | `parseResponseObject`, `parseErrorObject`, `parseResultValue`, `applyBindingsToResult` | members in any order; error, id and result reported as sent |
| SOAP response (`SoapRequest.cpp`) | stack of tags, text, fault, variables | `parseXmlWithBindings` | in step with the markup; elements and fault fields as sent; a cut body binds nothing wrong |
| GraphQL response (`GraphQLRequest.cpp`) | errors, the payload being collected, `hasNext`, raw data | `parseResponse`, `parseSingleResponse`, `parseMultipartResponse`, `parseErrors` and below | errors as sent; data bound whether streamed or copied; payloads once, in order, complete; ends |
| Outgoing messages (`*Request.*`, `RestTypes.h`, `ESP32HTTPClient.cpp`) | parameters, ids, raw bodies, headers of requests; headers, cookies, base URL, port of the client; the counter of ids | setters, moves, `buildRequestBody`, `buildGetUrl`, `buildEnvelope`, `RestJsonSerializer`, `setHeader`, `cookie` | the server reads in the message what was asked for, whatever the order of the calls; ids differ |
| Header copies, error texts | none | copy loop, tables | *not worth a model, see section 7* |

**Where it is hard.** *Interleaving*: the network task fills the socket and the clock runs while a wait loop
polls; user code runs in callbacks, inside an execution, and may reconfigure the client, run other requests or
let them go out of scope. *Order*: bytes may stop anywhere - between the two characters of the CRLF behind a
chunk, inside a string, between members. *Timeouts and retries*: a lost request and a lost reply look alike;
the reader ends a body after its own timeout, but goes on after one at the line break behind a chunk. *State that outlives its use*: the connection, the status of the previous
request, pointers into a growing vector. *Boundaries*: `millis()` wraps, `1 + maxRetries` overflows, text buffers
are short. *Orders of calls*: setters of the client and of requests may come in any order, some replace, some add, some
forget. `PROJECT.json` lists these 40 hazards with their lines and the properties aimed at them.

## 2. The modules

| module | extends / instances | what it is |
|---|---|---|
| `ByteSource` | | abstract: what a parser expects of a response body |
| `BufferedStreamReader` | `INSTANCE ByteSource` | the reader, the socket, the clock |
| `BufferedStreamReader_proofs` | the reader and its MC module | types, framing, no loss, refinement, no early end |
| `ESP32HTTPClient` | | configuration, transport, TLS client, kept-alive connection |
| `ESP32HTTPClient_proofs` | the client | types, connection, policy |
| `RequestOutcome` | | abstract: what the callbacks promise of one execution, nested ones included |
| `RequestExecution` | `INSTANCE RequestOutcome` | request objects and `execute()` of all four classes |
| `RequestExecution_proofs` | the executions | types, one execution, no resending, outcomes, refinement |
| `TextScan` | | texts and positions, as `read()` and `peek()` see them |
| `TextFacts` | `TextScan` | lemmas: sequences, least elements, where recursive scanning ends |
| `JsonScan` | `TextScan` | `skipWhitespace`, `skipValue`, `readStringIntoBuffer`, `readRawJson` as functions |
| `JsonBinder` | `JsonScan` | the JSON binding parser |
| `JsonBinder_proofs` | `JsonRpcResponse`, `GraphQLResponse`, `TextFacts` | bounded recursion and progress, alone, in a JSON-RPC and in a GraphQL response |
| `JsonMembers` | `JsonBinder` | the loop over the members of an object that both response classes share |
| `JsonRpcResponse` | `JsonMembers` | the JSON-RPC response, which uses the binding parser for its result |
| `GraphQLResponse` | `JsonMembers` | single and incremental GraphQL responses, which use it for their data |
| `KeyStorage`, `KeyStorage_proofs` | | where the keys of bindings live |
| `SoapResponse` | `TextScan` | the XML parser with bindings and fault |
| `SoapResponse_proofs` | `SoapResponse`, `TextFacts` | progress, bounded stack of open elements |
| `RequestText` | | URL, JSON bodies, query and envelope as functions of what a request has collected |
| `OutgoingRequest` | `RequestText` | client and requests through setters and moves to the messages they send |
| `OutgoingRequest_proofs` | `OutgoingRequest`, `TextFacts` | ids of JSON-RPC requests, headers of all messages |
| `JsonDocument`, `XmlDocument` | | reference: documents as trees, how they are written, what a path designates |
| `BoundValues` | `JsonBinder`, `JsonDocument` | what bindings promise, in terms of the tree |
| `MC*` | their module | instances for TLC, and properties that need a document, a history or a quotation of the docs |

Modules with theorems reach no `RECURSIVE` operator; recursion there is by recursive functions. `JsonDocument` and
`XmlDocument` are recursive over trees, and only MC modules use them that no theorem is about.

### BufferedStreamReader

Bytes are positions in `Wire`, so equal bytes are told apart. The parser, the network (`Arrive`, `Break`) and the
clock (`Tick`) interleave. A wait loop of the code is split where it can be overtaken: `PollEmpty` is the poll of
`available()`, `PollAgain` and `TimeOut` the comparison of `millis()`, so that a byte may come in between. `pc`
names the wait loop of `refill()`: `plain`, `header`, `data`, `crlf` (the two ignored `readRawByte()` behind a
chunk) and `final`. `ReadHeader`, `ReadHeaderEnd`, `ReadData`, `SkipByte`, `ReadFails` are what each loop does
with bytes, `Return` is the end of `available()`, `read()` or `peek()`. `Limits` is the minimum that bounds
a `readBytes()`. The digits of a chunk size are one item that carries the number: `strtoul()` over a header line cut
to the size of `hexBuf` is abstracted.

### ESP32HTTPClient

Each setter is an action that ends in `InvalidateTlsSession`, as in the code. `Execute`, `Retry`, `GiveUp`, `Send`,
`SendFails` and `Finish` are a request as far as it touches the connection; `open` counts the responses that
are being read, in whose streaming callbacks user code may call any setter or run another request. What
`HTTPClient` does is external: it reuses a live connection whatever the port (`InUse`) and opens one otherwise
(`Opened`). `held` records the settings of the handshake. `takesBundle` stands for the build: whether its secure client
has a `setCACertBundle()`, or `applyCACertBundle()` is the overload that does nothing; it never changes.

### RequestExecution

A frame of `stack` is one `execute()` in progress; `pc` is `attempt` in the loop over attempts, `over` behind it, or
the callback that is running. User code (`Make`, `Move`, `Execute`, `Destroy`) may step whenever no attempt is in
progress: before and after executions, and in each callback. `Begin` has three outcomes of `beginConnection()`:
accepted, refused by policy (which sets the status) and rejected by `http.begin()` (which does not). `LoopEntered`
is a choice where `1 + maxRetries` overflows, which is undefined. `Answer` and `Lose` are the two ends of an
attempt. `After` is the order of callbacks that the four copies of `execute()` share, with their differences in
`Detail`, `Outcome` and `Extra`.

### JsonScan, JsonBinder, JsonRpcResponse

The static helpers of the parsers are functions from a position to a position. A step of `JsonBinder` is one pass
through the loop of the innermost object or array, together with the comma behind its value; `stack` is the
recursion of the code, `path` and `index` its local variables. `Capture`, `Descend`, `Bind` and `Skip` are the four
things a pass may do with a value. `JsonRpcResponse` adds `where`, the function at work, and `stream`, the
outer reader while a second one reads the copy made for `getRawResult()`. Characters are those the parser tells
apart; buffer sizes are parameters (`TextLimit` for the 256 characters of a `String`).

### GraphQLResponse

`calls` is the stack of loops at work: over the members of a response, a part or a payload, over an array of errors,
locations or payloads. A step is one member or one element. The data go to `JsonBinder`, either with the positions
of the stream (`DataStreamed`) or with those of a copy (`DataCopied`, `ParseCopy`); `readers` keeps the stream meanwhile,
as `own` keeps the list of all bindings while `bindings` is the list that the code has stripped for the parser.
`BoundaryLine`, `HeaderLine` and `SeekOn` are the search for a part. `delivered` records what `onIncremental()` was
called with. Numbers, bare names and words are read into buffers of `NumberRoom`, `NameRoom`, `NullRoom` and `WordRoom`
(32, 64, 8 and 16 characters in the code), by loops that go on without reading when their buffer is full: what does not
fit ends in `FillBuffer`, and from there only in `StayFull`.

### RequestText and OutgoingRequest

A request is a record of what its class keeps, and each setter is an action, for all of its overloads: what they
differ in is whether the value is written in quotes. `Construct` takes the next id; `Move` leaves the old object
unusable; `Execute` appends a message, made of the request and of the client as it is now, to `wire`. `asked` and
`set` are histories of the calls, and the properties compare messages with them, not with the state.
`HTTPClient.addHeader()` is external: the message lists its calls in order, and the last line of a name counts.
In `MCOutgoingRequest` the server reads: a strict JSON reader, a query splitter that undoes percent-encoding. What it
reads of headers takes no reader, so that `HeadersAsSet` is in `OutgoingRequest`.

### KeyStorage

A `std::vector` gets a new `array` number whenever it grows; a key is live while its array is the present one.
`AddStored` is `push_back` and `c_str()`, `BindStruct` the constructor of `RestJsonBinder` with its reserve.

### SoapResponse

A step is one pass through the loop over the body, a run of text being one. `Close` and `Open` apply bindings and
collect the fault. Words are single characters of the model and differ in more than case.

## 3. The runs

All with TLC, all exhaustive. "Pass" runs check every listed property; for each property
`PROJECT.json` names a mutant of the code under which TLC finds it violated.

| run | instance | shows |
|---|---|---|
| `reader_chunked` | chunked body: a chunk of 1, one of 4 with an extension, the last one, a trailer; buffer 3, timeout 2, clock modulo 5 | `FramingKept`, `NothingLost`, `EndJustified`, `CallReturns`, refinement of `ByteSource` |
| `reader_plain` | 6 bytes without chunks, buffer 4 | `CallReturns` |
| `client_connection` | one URL of each kind (http, https, rejected), two ports, one CA, the empty CA, one bundle, one client certificate, responses nested to 2; builds whose secure client takes a bundle and builds whose does not | `SessionCurrent`, `PolicyEnforced` |
| `execution` | all four classes, 2 objects, 2 requests, answers 200 and 500, one retry which is also `INT_MAX`, nesting 2 | `ExecutedOnce`, `NeverResent`, `OutcomeEarned`, `AttemptsEnd`, refinement of `RequestOutcome` |
| `execution_stale` | as above with REST | *violation*: success reported for a request that was never sent |
| `json_binder` | 91 documents with nested objects and arrays and tricky strings, two cut at every character; every list of up to two of 13 bindings | `BoundAsDesignated`, `OnlyTheCutValueIsWrong`, `WithinItsValue`, `RecursionBounded`, `ParserStops` |
| `key_storage` | reserve 3, structs of up to 4 fields, 7 bindings, vector and deque | `KeysLive` |
| `key_storage_vector` | the same | *violation*: the second struct under a path moves the keys of the first |
| `rpc_response` | 63 responses with 10 results and 5 errors among their members in four orders, two cut at every character; every list of up to two of 7 bindings; with and without a raw result | `ResultAsDesignated`, `OnlyTheCutValueIsWrong`, `MembersAsSent`, `ResponseEnds` |
| `graphql_response` | 12 single responses and 9 incremental ones of up to 6 parts, three of them cut at every character; buffers of 2 to 6 characters; 10 lists of bindings, with and without `getRawData()` and `getRawResponse()` | `ErrorsAsSent`, `DataAsDesignated`, `OnlyTheCutValueIsWrong`, `PayloadsInOrder`, `ResponseEnds` |
| `outgoing_request` | every sequence of 5 operations on one client and its requests, the last of them an execution; names and values with quotes, escapes, placeholders, ampersands; arrays of headers scaled to 3 and 10, the counter of ids modulo 2 | `BodyAsAsked`, `IdsApart`, `UrlAsAsked`, `HeadersAsSet` |
| `soap_response` | 35 documents: elements with attributes, comments and CDATA that look like markup, faults of both versions, three documents cut at every character; 18 pairs of bindings | `ElementBound`, `CutNeverWrong`, `InStep`, `FaultReported` |

**Why the bounds are enough.** *Reader*: one chunk is shorter and one longer than the buffer, so data are cut by the
chunk, by the buffer and by what has arrived; the clock is wider than the timeout and wraps in every run. *Client*:
with one URL of each kind and a port that is added or not, every change of transport, endpoint and trust occurs,
also between a request and its retry; nesting 2 is a request in a callback of another. *Execution*: two objects and
two requests give a move, a request inside another's callback and a destructor inside an execution; one retry is
the smallest number that distinguishes "retried", "out of retries" and "overflows". *JSON, JSON-RPC and SOAP*: a
parser's memory is the path on its stack, so documents three levels deep with every kind of value beside every kind
of sibling reach each combination of loop and character; cutting at every character is what a lost connection does.
*GraphQL*: members in
both orders, errors in up to two parts, payloads with and without path, before and after `hasNext`, parts that are
empty or not the last though they say so; the buffers are such that `12`, `1`, `null` and `false` just fit, and each of
them also meets something that does not. *Outgoing*: the setters of a request touch fields of their own, so what can
go wrong takes a construction, two calls that meet (or a call and a move, or a call on the client) and an execution;
five operations hold that and one more call; a counter modulo 2 comes round within them. *Keys*: 7 bindings are two structs, one of them with more fields than were reserved. `CHECK_DEADLOCK FALSE` stands where the
system stops: a parser at the end of its text, a program that has made all its requests and bindings.

**Properties in short.** Each is stated in full above its definition.

- `FramingKept`: the reader skips the CRLF behind a chunk unseen and goes on if it timed out there; still it never
  takes data for a header, nor a header for data.
- `NothingLost`: a byte taken from the socket was consumed or is in the buffer, whichever way a refill ended.
- `EndJustified`: the end is reported only at the end, after a full timeout of silence, or on a broken socket - not
  because the clock wrapped or a wait was inherited.
- `SessionCurrent`, `PolicyEnforced`: see section 1; both across reconfigurations in a streaming callback. Where the build
  does not take the configured bundle (`AnchorTaken`) they say nothing of the trust anchor: the code has none to show.
- `ExecutedOnce`: of all objects a request was moved through, exactly one executes it unasked, and only if nobody did.
- `KeepsContract`: completion, then fault or RPC error, then one outcome at the request and then at the client, then
  extra errors and metrics; for each nested execution on its own.
- `OutcomeEarned`: success is reported for a 2xx of this very execution, and an error with a message about its own code.
  It excludes by name what the code gets wrong: nothing was connected (`execution_stale`), and another request was
  executed in a callback before the message was made.
- `OnlyTheCutValueIsWrong`, `CutNeverWrong`: what a connection that breaks in mid-body may do to variables. Of JSON, a value
  that came whole is right or not stored, and one of which nothing came leaves its variable alone - except where the body
  ends right before it (`EndsAt`): then an integer may become 0 and a `String` empty, and nothing else.
- `ErrorsAsSent`, `PayloadsInOrder`: errors accumulate over the parts; a payload is delivered with those and with the
  `hasNext` that were read before its end, and nothing after the part that says there is no next.
- `ResponseEnds`: the parser comes to the end of the response, but in those that are made to hold it up (`Standing`), and
  there only at an element that is no object or with a full buffer.
- `DataAsDesignated`: the last payload that has the value wins; a variable bound to data that are streamed, copied or
  rebased to the path of a payload gets the same.
- `BodyAsAsked`, `UrlAsAsked`, `HeadersAsSet`: what a strict server reads in a message is what all calls together asked
  for. The cases the code gets wrong are named in the property and listed in section 5.
  `HeadersAsSet` leaves out the names that the library itself adds a line for, and a name that the array cuts together with
  the longer ones that are cut to it.
- `IdsApart`: automatic ids differ until the counter has come round, and the message bears the announced id.
- `RecursionBounded`: the parser calls itself only on the way to something bound, so that the server, with whatever it
  sends, cannot make it deeper than the longest of the caller's paths.
- `WithinItsValue`, `InStep`: the parser's stack is the place of its position in the document, at every step.

**Fairness.** The reader: `WF(Refill)` (its task is scheduled) and `WF(Tick)` (time passes); `Tick` stops while a wait
is overdue, because `yield()` returns long before a 32-bit millisecond counter wraps. Nothing is assumed of the
network. Execution: `WF(Attempt)`, as `HTTPClient` ends each attempt by its timeout; none for user code, whose
callbacks may never return. Parsers of responses: `WF(Next)` for a sequential loop with nothing to wait for but the reader,
whose calls return by `CallReturns`. The client and outgoing messages have no liveness.

## 4. The proofs

| theorem | for every | argument |
|---|---|---|
| `BufferedStreamReader_proofs!TypeCorrect`, `FramingSafe`, `Lossless` | well-framed wire, buffer size, timeout, clock width; all three modes, also the one over a string | `IInv`: the types; `Framing`, which ties each wait loop to the place on the wire it can be at; `Buffering`, which says that the buffer is the gap in the body between what was consumed and what was taken; `Ended` |
| `BufferedStreamReader_proofs!Refinement` | the same | each step is a step of `ByteSource` or leaves `last` and `reply` alone; needs `Buffering` for the order and `Ended` for "no more stays no more" |
| `BufferedStreamReader_proofs!BodyEndsInTime` (`EndJustified`) | the same | about `MCSpec`, which adds the history `waited`, the silence since a byte was taken: the wait that the code measures is never longer, however often the clock wraps (`WInv`); `Framing` says that the two skips which end a body are those behind the last chunk |
| `ESP32HTTPClient_proofs!ConfigTypes`, `ConnectionCurrent` | URLs, ports, certificates, bundles, nesting | a connection is opened from `_transport`, `_secure` and the prepared URL, so `IInv` adds that these follow the configuration (`SecureCurrent`, `TransportCurrent`) and that a request being sent was prepared under the present one (`RequestPrepared`) |
| `ESP32HTTPClient_proofs!PolicyHolds` | the same | from that invariant: a connection in use is current, and the present configuration is not refused. Of either build: it is always made by the secure client, and that client holds a configured anchor unless the anchor is a bundle that the build does not take |
| `RequestExecution_proofs!ExecutionTypes`, `DestructorExecutesOnce`, `AnswersNeverResent`, `OutcomesEarned` | number of objects and requests, retries, codes of the server, nesting | `IInv`, five parts, below |
| `RequestExecution_proofs!ContractKept` | the same | each step maps to one of `RequestOutcome` or a stutter: a frame of the code's stack is one of the promise's, `Reporting` gives the callbacks told, `Detailed` says that what made a fault or an error be reported still stands when the outcome is chosen |
| `KeyStorage_proofs!TypeCorrect`, `KeysStayLive` | reserve, numbers of fields and of bindings | while at most one struct was bound under a path within the reserve, the first array is the only one |
| `JsonBinder_proofs!StackBounded`, `RpcStackBounded` (`RecursionBounded`) | text, JSON or not, and list of bindings; on the stream and on the copy made for a raw result | `Calls`: the call at depth k is about a path of k - 1 names (of k within a response), and, unless it is the outermost, has a binding below |
| `JsonBinder_proofs!PassesCounted` (`EachPassCounts`) | text and bindings | each scanning function is defined on every text and ends behind where it began, so that `PassesLeft`, a natural number, decreases in each pass but where the parser is `Stuck` |
| `SoapResponse_proofs!PassesRead`, `OpenElementsBounded` | text, XML or not | the same of the scanning functions for markup; a name on the stack and its bracket were read |
| `JsonBinder_proofs!RpcPassesCounted` (`EachRpcPassCounts`) | text and bindings, with and without a raw result | a copy of the result is longer than what it was written as by a quote at most (`UnescapedFits`, `RawResultFits`), which its key and colon outweigh; so the sum over both readers, `RpcPassesLeft`, decreases |
| `JsonBinder_proofs!GqlPassesCounted` (`EachGqlPassCounts`), `NextGql` | sizes of the buffers, text, in one piece or in parts, boundary and bindings, with and without raw data and raw response | `GqlInv`, below; a copy is the text that the reader left for it has passed, and the data of a payload, which are read again at its end, are counted as `Pending` from when they are collected; a filled buffer has taken characters (`FilledWithin`, `BufferFills`). `NextGql` says it of every single pass: it is counted, or one of the two exceptions below holds |
| `JsonBinder_proofs!GqlStackBounded` (`DataRecursionBounded`) | the same | `GqlInv`: keys stripped of `data` or of the path of a payload are not longer than the caller's (`SingleNotLonger`, `PartNotLonger`, `PayloadNotLonger`) |
| `OutgoingRequest_proofs!HeadersSent` (`HeadersAsSet`) | header and cookie texts, sizes of the arrays, sequence of setters, moves and executions | each call has a line and each line a call, the last line of a name has the value that all calls made of it (`Kept`), and there is one line for each name that fits (`OneEach`); of the client and of each object, through moves. A value cut before stays the same when cookies are appended (`CutAgain`) |
| `OutgoingRequest_proofs!RequestsToldApart` (`IdsApart`) | modulus of the counter, sequence of setters, moves and executions | the counter follows `born`, the history of constructions; what a JSON-RPC object keeps of its id is what the last of its calls asked for, through moves; each message quotes it |

**The invariant of `RequestExecution`.** None of its properties is inductive; each says something of one execution that
depends on the objects, on the client and on the executions around it. `Executions`: each frame counts its retries, what
was answered is its code (`Attempting`), and the callbacks told are those of its code (`Reporting`, `Detailed`). `Nesting`:
no object is executed twice at a time, and `lastStatus` belongs to the innermost execution until another one has
interrupted it - without which `OutcomeEarned` would not survive the return of a callback. `Ownership`: of the objects that a
request was moved through one at most is live, and its `executed` flag is that of the request. `Accounts`: a request
that nobody has executed is in a live object, and one that a destructor executes is in no other. The last two make
`ExecutedOnce` survive `Move` and `Destroy`.

**The invariant of `GraphQLResponse`.** `Nested` says which loops are at work within which, and so how deep: that a payload is
read in a list in a part, that the parser of the data is called by a response, a part or a delivery. `Waiting` follows from it: one
reader waits while a part is read, one more while a copy is parsed. `Collected` and `Served` are about what was taken from the
text before it is used: paths and data of a payload, and the keys of a copy beside the caller's. `Parsing` says that the parser's
stack is empty while it is not at work, and otherwise is as deep as the keys (`Calls`).

**Recursive scanning.** The scanning functions of `TextScan`, `JsonScan` and `SoapResponse` are recursive functions on
the positions of a text. That such a function is what its equation says follows in `TextFacts` from a lemma for one
pattern, `Scans`, by least counterexample over the distance to the end of the text (`DescentHolds`, `DescentExists`); `ScanEnds`
then gives where it can end. Functions that collect what they pass, such as `Unescaped` and `PathNames`, follow another
pattern, `Collects`, in the same way (`CollectExists`, `CollectHolds`), and the values that a list of calls leaves in a list of
headers a third (`RunsExist`, `RunsAgree`). What the scans return is characterised only as far as the theorems need it: that
they go on, and how long a copy is at most beside its text.

**Where the parser is stuck.** `EachPassCounts` has one exception, which is the code's: the loop over an array stays where
it is at a character that starts no value, such as `}` (`RestRequest.cpp:717`, 542). On documents, whole or cut,
`ParserStops` says that it does not come there; the theorem says that it stands still nowhere else. A JSON-RPC response adds no
such place. A GraphQL response adds two. `NotAnObject`: the loops over errors, locations and payloads come back for good to an
element that is no object (`GraphQLRequest.cpp:1164`, 1202, 1417). `Overfull`: the loops that read `null` instead of data that
are to be kept raw, the number of a location, a bare name in a path and the word behind `hasNext` ask for one more character
without reading it when their buffer is full (1072-1074, 1267-1274, 1305-1309, 1501-1503). The theorem says that there is
no third one.

**Assumptions**, all named in the modules and evaluated by TLC in the runs: a well-framed chunked body (a server that breaks
the coding is not covered), in which behind the size and its optional extension stand CR and LF, and no body bytes follow
the last chunk; sizes above zero, a clock wider than the timeout, schemes of URLs that do not overlap; codes of servers
between 100 and 599; texts are sequences of characters, none of which is the value that stands for their end;
bindings are sequences of records of a key, which is a sequence, a type and a size; buffers of a GraphQL response hold at least
one character (`RoomAssumption`); header and cookie texts are sequences, and
the array for a header's name holds `Cookie`; different integers have different texts; the counter of ids counts modulo at
least 2.

`FramingKept` says nothing while a call is not running, yet the place on the wire survives in `_chunkRemaining` alone;
`SessionCurrent` does not see the secure client from which the next connection is made; `RecursionBounded` does not see
for which binding a call was made: so these properties are not inductive either, and the invariants above add what they
leave out.

**Model-checked only.**
Liveness - `CallReturns`, `AttemptsEnd`, `ParserStops`, `ResponseEnds` - and with it `ENABLED` are out of reach of the
prover. The properties that compare a parser with a document, or a message with what a reader makes of it, are by
induction over recursive data, and the trees and readers are `RECURSIVE` operators, which the prover cannot load:
`BoundAsDesignated`, `OnlyTheCutValueIsWrong`, `WithinItsValue`, `ResultAsDesignated`, `MembersAsSent`, `ErrorsAsSent`,
`DataAsDesignated`, `PayloadsInOrder`, `ElementBound`, `CutNeverWrong`, `InStep`, `FaultReported`, `BodyAsAsked`,
`UrlAsAsked`. The theorems about the parsers stand beside them: they say less, but of every text.
`EachPassCounts`, `EachRpcPassCounts`, `EachGqlPassCounts`, `DataRecursionBounded`, `EachPassReads` and `TagsBounded` are
stated in the modules of the parsers and proved, and are in no run's configuration: the documents of the runs are well formed or
cut, and these are about every other text as well.

## 5. Findings

With a run that shows them (`findings` in `PROJECT.json`):

1. *`execution_stale`* - a URL that `http.begin()` rejects leaves the previous status, and `execute()` reports it,
   with the success callbacks (`RestRequest.cpp:344`; the same in the other three).
2. *`key_storage_vector`* - a second struct under a path reallocates the vector that earlier bindings point into
   (`RestTypes.h:213`).

Met while modelling. The models do the same as the code, and the properties are stated so that they allow it:

- where the secure client of the Arduino core has no `setCACertBundle()`, the third overload of `applyCACertBundle()` installs
  nothing and returns `false` (`ESP32HTTPClientTLS.h:84-87`), which nobody looks at (`ESP32HTTPClient.cpp:212`, 438).
  `hasValidatedTlsConfig()` (254-257) asks only whether a bundle was given: with `requireValidatedTls(true)` the request
  is sent although the secure client has no trust anchor, or the one before, or is still told `setInsecure()`.
  `src/docs/api/esp32httpclient.md:598` promises a fail-closed mode, though of a bundle that is "configured";
- a body cut right behind the colon of a member, in an array behind the blank after a comma, makes a variable for a number
  0 and a `String` empty, as if received: `peek()` is -1 there, which is taken for a number (`RestRequest.cpp:542-544`,
  608-629);
- the body is read with a fixed wait of 2 s per byte (`BufferedStreamReader.cpp:50,66,116`): the documented timeouts
  (`src/docs/api/esp32httpclient.md:451`, `src/docs/api/restrequest.md:120`) do not apply to it, and a body with a longer
  pause is parsed as if complete;
- every element named `Role`, `Node` or `detail` makes a SOAP response a fault (`SoapRequest.cpp:764`), which
  `src/docs/api/soaprequest.md:193` says of `<Fault>` only;
- the message of an error callback describes another request if `onResponse()` has run one (`RestRequest.cpp:450`);
- a 3xx runs the error callbacks (`RestRequest.cpp:442`), which `src/docs/api/restrequest.md:170` excludes;
- the `SoapFault` of `getFault()` is never cleared (`SoapRequest.cpp:510`), nor `_hasError` of a JSON-RPC request that is
  executed again (`JsonRpcRequest.cpp:1046`): a later execution reports the fault or error of an earlier one;
- `1 + maxRetries` overflows for `INT_MAX` (`SoapRequest.cpp:468`, and REST and GraphQL), and nothing may be sent;
- a `String` bound to the root ends the parse, and no other binding is served (`RestRequest.cpp:490`), which
  `src/docs/api/restrequest.md:266-267` shows together;
- a string for a `String` is cut at 255 characters (`RestRequest.cpp:582`);
- `"error": null` counts as an error (`JsonRpcRequest.cpp:1160`);
- a raw string result loses its escapes (`JsonRpcRequest.cpp:1324`), and bindings then read that copy: `Survives` in
  `MCJsonRpcResponse` names the exception;
- an XML element around a leaf of the same name is bound when it closes, to no text (`SoapRequest.cpp:741`);
- brackets at the end of a CDATA section are lost (`SoapRequest.cpp:689`), and entities in it are decoded (738).

GraphQL responses (`GraphQLRequest.cpp`):

- a `String` bound to the whole of the data is served only where the data are copied (1053);
- `getRawData()` gets nothing from the initial payload of an incremental response (1394);
- the path of a payload is compared with the beginning of a binding's path, also in the middle of a name (1479);
- errors accumulate over the parts, and each payload reports those of the ones before (1461);
- a payload gets the `hasNext` that was read so far, and so the last one of a part that says `hasNext` behind its payloads
  says there is more (1489); a last part that holds nothing else gives no callback, so that
  `src/docs/api/graphqlrequest.md:203-205` may never see the end;
- a payload cut before its path is bound as if it had none, and what came of a cut part is delivered (1471, 1490);
- a location whose value is a string is read on inside that string (1265);
- the loops over errors, locations and payloads stand still at an element that is no object (1164, 1202, 1417);
- four loops never end on text that is longer than their buffer, as they read only into free room and ask only for the kind of
  the next character: a number in a location of more than 31 characters (1267), a bare name in a path of more than 63
  (1305), a word with `n` in place of data kept raw of more than 7 letters (1072), a word behind `hasNext` of more than
  15 (1501). `JsonRpcRequest.cpp:1208-1209` reads on in the same place.

Outgoing messages:

- strings of REST bodies and of structs are not escaped (`RestRequest.cpp:333`, `RestTypes.h:194`), nor are the names of
  GraphQL variables (`GraphQLRequest.cpp:706`);
- query parameters are not percent-encoded (`RestRequest.cpp:289`);
- a port is left out behind a base URL without a scheme (`RestRequest.cpp:259`);
- a value that holds a placeholder is replaced again by a later `path()` (`RestRequest.cpp:278`);
- positional parameters among named ones become members with empty names, and empty `rawParams()` after named ones make
  the code forget the names (`JsonRpcRequest.cpp:366,520`);
- a header name longer than 63 characters is never found again, and each `setHeader()` of it adds a line
  (`ESP32HTTPClient.cpp:117`); the `Cookie` header is cut at 255 characters, in the middle of a cookie (118).

## 6. Plan

In order, the most important behaviour first. Steps 1 to 9 are done.

1. `BufferedStreamReader` and `ByteSource`, with proofs: every parser stands on it.
2. `ESP32HTTPClient` with proofs: the state that all requests share.
3. `RequestExecution` and `RequestOutcome`: the four classes composed by nesting on one client.
4. `JsonScan`, `JsonBinder`, `KeyStorage`, `JsonRpcResponse`.
5. `SoapResponse`.
6. `JsonMembers`, `GraphQLResponse` over `JsonBinder`: single and incremental responses.
7. `RequestText`, `OutgoingRequest`: what requests and the client make of the calls of their setters.
8. Proofs: the invariants of `RequestExecution` (`TypeOK`, `ExecutedOnce`, `NeverResent`, `OutcomeEarned`), then that it
   implements `RequestOutcome`; `EndJustified`; the ids of `OutgoingRequest`; that the parsers go on and stay shallow on
   every text.
9. Proofs: the bound on the recursion in a GraphQL response, whose bindings are stripped and rebased; progress of the
   loops of both responses; the headers of outgoing messages.
10. Composition of `BufferedStreamReader` with two executions on one kept-alive connection: what happens to bytes that
   the first one gave up on.

## 7. Not modelled

Response headers and cookies: a copy loop whose result nothing reads. Error messages and TLS hints: tables; only which
code a message is about is modelled. Timeouts, redirects, user agent, content types, `accept()`: settings passed on to
`HTTPClient`. `base64Encode()`, and how `snprintf()` writes numbers: conversions whose result is one text here.
`HTTPClient`, `NetworkClientSecure`, `millis()`: external, modelled as the code uses them. Floating-point variables and
widths of `int`: values are the digits of a text. `getRawResponse()` of the other classes: keeps characters as they come.
A path that already holds a query, a SOAP action that is a single quote, null pointers as arguments. Text that is not JSON
or XML at all is in the proofs of section 4 only: the documents of the runs are well formed, whole or cut. Builds without TLS
(`ESP32HTTPCLIENT_HAS_TLS` 0). Tests, benchmarks and examples: read for what they claim.
