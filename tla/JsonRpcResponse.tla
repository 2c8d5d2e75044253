--------------------------- MODULE JsonRpcResponse ---------------------------
(***************************************************************************)
(* How JsonRpcRequest takes in a response: parseResponse, its object and   *)
(* the error object in it, and the result, which is bound by the parser of *)
(* RestRequest (JsonBinder) under the path "result".                       *)
(*                                                                         *)
(* getRawResponse() is left out: the same text is then parsed from a String*)
(* instead of the stream; so are the variables that take a copy of what rpc*)
(* holds.                                                                  *)
(***************************************************************************)
EXTENDS JsonMembers

VARIABLES
  where,     (* the function at work: "response", "error", "apply", "bind", *)
             (* or "before" and "after" all of them                         *)
  wantsRaw,  (* getRawResult() was called                                   *)
  raw,       (* and what its String holds                                   *)
  stream,    (* the reader left while another one reads the raw result      *)
  rpc        (* _hasError, _error and what else the response says           *)

rpcVars == <<vars, where, wantsRaw, raw, stream, rpc>>

JSONRPC_PARSE_ERROR == <<"parse error">>
ResultPath == <<<<"result">>>>
NoStream   == [text |-> <<>>, pos |-> 1]

RpcInit ==
  /\ Init
  /\ where = "before" /\ wantsRaw \in BOOLEAN
  /\ raw = Untouched /\ stream = NoStream
  /\ rpc = [hasError |-> FALSE, code |-> <<>>, message |-> <<>>, data |-> <<>>,
            version |-> <<>>, id |-> <<>>]

-----------------------------------------------------------------------------
KeepRest == UNCHANGED <<wantsRaw, raw, stream>>

(* parseResponseObject() up to its loop. *)
Respond ==
  /\ where = "before"
  /\ LET p == SkipBlank(text, 1)
     IN  /\ where' = IF At(text, p) = "{" THEN "response" ELSE "after"
         /\ pos' = IF At(text, p) = "{" THEN p + 1 ELSE p
         /\ rpc' = IF At(text, p) \in {"{", "end"} THEN rpc
                   ELSE [rpc EXCEPT !.hasError = TRUE, !.code = JSONRPC_PARSE_ERROR]
  /\ KeepBinder /\ KeepRest

Version ==
  /\ where = "response" /\ AtMember /\ Key = <<"jsonrpc">>
  /\ rpc' = [rpc EXCEPT !.version = Token(MemberPos)]
  /\ GoOn(TokenEnd(MemberPos))
  /\ UNCHANGED where /\ KeepBinder /\ KeepRest

Id ==
  /\ where = "response" /\ AtMember /\ Key = <<"id">>
  /\ LET p == MemberPos IN
     \/ /\ At(text, p) = Quote
        /\ rpc' = [rpc EXCEPT !.id = Token(p)] /\ GoOn(TokenEnd(p))
     \/ /\ At(text, p) = "n"
        /\ rpc' = [rpc EXCEPT !.id = <<"n", "u", "l", "l">>]
        /\ GoOn(IF p + 4 > Len(text) THEN Len(text) + 1 ELSE p + 4)
     \/ /\ At(text, p) \notin {Quote, "n"}
        /\ rpc' = [rpc EXCEPT !.id = Integer(p)] /\ GoOn(IntegerEnd(p))
  /\ UNCHANGED where /\ KeepBinder /\ KeepRest

(* The member "error": its object is entered, anything else is skipped. *)
Error ==
  /\ where = "response" /\ AtMember /\ Key = <<"error">>
  /\ rpc' = [rpc EXCEPT !.hasError = TRUE]
  /\ IF At(text, MemberPos) = "{"
     THEN where' = "error" /\ pos' = MemberPos + 1
     ELSE UNCHANGED where /\ GoOn(EndOfValue(text, MemberPos))
  /\ KeepBinder /\ KeepRest

(* A member of the error object. *)
ErrorMember ==
  /\ where = "error" /\ AtMember
  /\ LET p == MemberPos IN
     \/ /\ Key = <<"code">>
        /\ rpc' = [rpc EXCEPT !.code = Integer(p)] /\ GoOn(IntegerEnd(p))
     \/ /\ Key = <<"message">>
        /\ rpc' = [rpc EXCEPT !.message = Token(p)] /\ GoOn(TokenEnd(p))
     \/ /\ Key = <<"data">> /\ At(text, p) \in Opening
        /\ rpc' = [rpc EXCEPT !.data = Raw(text, p)] /\ GoOn(EndOfRaw(text, p))
     \/ /\ Key = <<"data">> /\ At(text, p) = Quote
        /\ rpc' = [rpc EXCEPT !.data = Token(p)] /\ GoOn(TokenEnd(p))
     \/ /\ Key = <<"data">> /\ At(text, p) \notin Opening \cup {Quote}
        /\ rpc' = [rpc EXCEPT !.data = Bare(p)] /\ GoOn(BareEnd(p))
  /\ UNCHANGED where /\ KeepBinder /\ KeepRest

Unknown ==
  IF where = "error" THEN Key \notin {<<"code">>, <<"message">>, <<"data">>}
  ELSE Key \notin {<<"jsonrpc">>, <<"id">>, <<"error">>, <<"result">>}

(* Mutant: of an object that is skipped only the bracket is. *)
SkipMemberEntering ==
  /\ where \in {"response", "error"} /\ AtMember /\ Unknown
  /\ GoOn(IF At(text, MemberPos) \in Opening THEN MemberPos + 1 ELSE EndOfValue(text, MemberPos))
  /\ UNCHANGED <<where, rpc>> /\ KeepBinder /\ KeepRest

SkipMember ==
  /\ where \in {"response", "error"} /\ AtMember /\ Unknown
  /\ GoOn(EndOfValue(text, MemberPos))
  /\ UNCHANGED <<where, rpc>> /\ KeepBinder /\ KeepRest

(* No member here: a comma, or something else, is passed over. *)
PassOver ==
  /\ where \in {"response", "error"} /\ pos \in DOMAIN text
  /\ ~AtMember /\ At(text, Here) # "}"
  /\ pos' = Read(text, IF AtKey THEN AfterKey ELSE Here)
  /\ UNCHANGED <<where, rpc>> /\ KeepBinder /\ KeepRest

(* Mutant: the end of the stream goes unnoticed in the error object. *)
EndObjectUnnoticed ==
  /\ where = "response" /\ (pos \notin DOMAIN text \/ At(text, Here) = "}")
  /\ where' = "after" /\ pos' = (IF pos \in DOMAIN text THEN Here + 1 ELSE pos)
  /\ UNCHANGED rpc /\ KeepBinder /\ KeepRest

(* The end of an object, or of the text. *)
EndObject ==
  /\ where \in {"response", "error"}
  /\ pos \notin DOMAIN text \/ At(text, Here) = "}"
  /\ LET p == IF pos \in DOMAIN text THEN Here + 1 ELSE pos
     IN  IF where = "error" THEN where' = "response" /\ GoOn(p)
         ELSE where' = "after" /\ pos' = p
  /\ UNCHANGED rpc /\ KeepBinder /\ KeepRest

-----------------------------------------------------------------------------
(* The result. *)

(* parseResultValue() where the raw result is wanted: a copy of it, and    *)
(* where that ends.                                                        *)
RawResult(p) ==
  IF At(text, p) \in Opening THEN Raw(text, p)
  ELSE IF At(text, p) = Quote THEN <<Quote>> \o Token(p) \o <<Quote>>
  ELSE Bare(p)

RawResultEnd(p) ==
  IF At(text, p) \in Opening THEN EndOfRaw(text, p)
  ELSE IF At(text, p) = Quote THEN TokenEnd(p)
  ELSE BareEnd(p)

(* Mutant: bindings are applied to the stream, behind the result.          *)
ResultFromStream ==
  /\ where = "response" /\ AtMember /\ Key = <<"result">>
  /\ IF ~wantsRaw
     THEN where' = "apply" /\ pos' = MemberPos /\ UNCHANGED raw
     ELSE where' = "apply" /\ pos' = RawResultEnd(MemberPos) /\ raw' = RawResult(MemberPos)
  /\ UNCHANGED <<body, text, bindings, target, stack, phase, wantsRaw, stream, rpc>>

(* parseResultValue(): bindings are applied to the stream, or to the copy  *)
(* by a reader of its own.                                                 *)
Result ==
  /\ where = "response" /\ AtMember /\ Key = <<"result">>
  /\ IF ~wantsRaw
     THEN where' = "apply" /\ pos' = MemberPos /\ UNCHANGED <<text, raw, stream>>
     ELSE /\ raw' = RawResult(MemberPos)
          /\ IF bindings = <<>>
             THEN GoOn(RawResultEnd(MemberPos)) /\ UNCHANGED <<where, text, stream>>
             ELSE /\ where' = "apply" /\ text' = raw' /\ pos' = 1
                  /\ stream' = [text |-> text, pos |-> RawResultEnd(MemberPos)]
  /\ UNCHANGED <<body, bindings, target, stack, phase, wantsRaw, rpc>>

(* Back in the loop of the response, where the stream is read. *)
Resume(p) ==
  /\ where' = "response"
  /\ stream' = NoStream
  /\ IF stream = NoStream
     THEN GoOn(p) /\ UNCHANGED text
     ELSE text' = stream.text /\ pos' = AfterComma(stream.text, stream.pos)

RootBindings == {i \in DOMAIN bindings : bindings[i].key \in {ResultPath, <<>>}}
FirstRoot    == CHOOSE i \in RootBindings : \A j \in RootBindings : i <= j
HasChildren  == \E i \in DOMAIN bindings : Below(bindings[i].key, ResultPath)

(* applyBindingsToResult(): the result as it is written, ... *)
ApplyRaw ==
  /\ where = "apply" /\ At(text, Here) \in Opening
  /\ RootBindings # {} /\ Captures(FirstRoot) /\ ~HasChildren
  /\ Store(FirstRoot, Raw(text, Here))
  /\ Resume(EndOfRaw(text, Here))
  /\ UNCHANGED <<body, bindings, stack, phase, wantsRaw, raw, rpc>>

(* ... what is in it, ... *)
ApplyInside ==
  /\ where = "apply" /\ At(text, Here) \in Opening
  /\ ~(RootBindings # {} /\ Captures(FirstRoot) /\ ~HasChildren)
  /\ where' = "bind" /\ phase' = "parsing"
  /\ pos' = Here + 1 /\ stack' = <<Frame(KindOf(At(text, Here)), ResultPath)>>
  /\ UNCHANGED <<body, text, bindings, target, wantsRaw, raw, stream, rpc>>

(* Mutant: only the first variable takes a string, a number or a word. *)
ApplyPrimitiveOnce ==
  /\ where = "apply" /\ At(text, Here) \notin Opening
  /\ IF RootBindings # {}
     THEN /\ Store(FirstRoot, Stored(text, Here, bindings[FirstRoot], target[FirstRoot]))
          /\ Resume(PrimitiveEnd(text, Here))
     ELSE UNCHANGED target /\ Resume(EndOfValue(text, Here))
  /\ UNCHANGED <<body, bindings, stack, phase, wantsRaw, raw, rpc>>

(* ... or a string, a number or a word, read once for several variables.   *)
ApplyPrimitive ==
  /\ where = "apply" /\ At(text, Here) \notin Opening
  /\ LET p     == Here
         again == RawResult(p)
     IN  IF \E i, j \in RootBindings : i # j
         THEN /\ target' = [i \in DOMAIN target |->
                   IF i \in RootBindings THEN Stored(again, 1, bindings[i], target[i]) ELSE target[i]]
              /\ Resume(RawResultEnd(p))
         ELSE IF RootBindings # {}
         THEN /\ Store(FirstRoot, Stored(text, p, bindings[FirstRoot], target[FirstRoot]))
              /\ Resume(PrimitiveEnd(text, p))
         ELSE UNCHANGED target /\ Resume(EndOfValue(text, p))
  /\ UNCHANGED <<body, bindings, stack, phase, wantsRaw, raw, rpc>>

(* The parser of RestRequest at work, and its return. *)
BindInside ==
  /\ where = "bind"
  /\ Capture \/ Descend \/ Bind \/ Skip \/ Garbled \/ Close
  /\ UNCHANGED <<where, wantsRaw, raw, stream, rpc>>

BindingReturns ==
  /\ where = "bind" /\ phase = "done"
  /\ phase' = "start" /\ Resume(pos)
  /\ UNCHANGED <<body, bindings, target, stack, wantsRaw, raw, rpc>>

RpcNext ==
  \/ Respond \/ Version \/ Id \/ Error \/ ErrorMember \/ SkipMember \/ PassOver
  \/ EndObject \/ Result \/ ApplyRaw \/ ApplyInside \/ ApplyPrimitive
  \/ BindInside \/ BindingReturns

RpcSpec == RpcInit /\ [][RpcNext]_rpcVars /\ WF_rpcVars(RpcNext)

-----------------------------------------------------------------------------
(* An upper bound of the passes that are left: through the text that is    *)
(* read, then through what is behind the copy of a result.                 *)
Rank == IF where = "after" THEN 0 ELSE IF where = "response" THEN 1 ELSE 2

RpcPassesLeft == Left(text, pos) + Left(stream.text, stream.pos) + Len(stack) + Rank

(* Whatever the text, JSON-RPC or not, and whatever is bound: each pass of *)
(* the loops over the response, its error and its result takes the reader  *)
(* on or returns, also where the result is copied first and the copy read  *)
(* again, so that n characters take at most 2n + 2 passes; except that the *)
(* loop of an array in the result stays for good where it is Stuck         *)
(* (JsonRpcRequest.cpp 1100-1342).                                         *)
EachRpcPassCounts ==
  [][~Stuck => RpcPassesLeft' < RpcPassesLeft]_rpcVars

=============================================================================
