--------------------------- MODULE GraphQLResponse ---------------------------
(***************************************************************************)
(* How GraphQLRequest takes in a response: a single one, the data of which *)
(* stream through the parser of RestRequest (JsonBinder) or through a copy,*)
(* and an incremental one, whose parts come as multipart/mixed.            *)
(*                                                                         *)
(* calls is the stack of loops at work, readers that of the readers left   *)
(* for one over a copy.  Left out: what is done with _errors afterwards,   *)
(* and the copy that getRawResponse() makes.  "\r" does not occur.  A path *)
(* is a sequence of names.                                                 *)
(***************************************************************************)
EXTENDS JsonMembers, SequencesExt

CONSTANTS
  Incremental,  (* which of Texts are of type multipart/mixed *)
  Boundary,     (* and what separates their parts             *)
  NumberRoom,   (* size of numBuf, for the number of a location, ... *)
  NameRoom,     (* of elemBuf, for a name without quotes in a path,  *)
  NullRoom,     (* of nbuf, for the null that data are, ...          *)
  WordRoom      (* and of valBuf, for the word after hasNext         *)

ASSUME IncrementalAssumption == Incremental \subseteq DOMAIN Texts
ASSUME RoomAssumption == {NumberRoom, NameRoom, NullRoom, WordRoom} \subseteq Nat \ {0}

VARIABLES
  own,           (* _responseBindings; bindings is that of the parser at work *)
  wantsRawData,  (* getRawData() was called; its String is bound last         *)
  keepsAll,      (* getRawResponse() was called                               *)
  calls,         (* loops at work, innermost last                             *)
  readers,       (* readers to go on with, innermost last                     *)
  errors,        (* _errors                                                   *)
  part,          (* payload, what the loop over a part has collected          *)
  inc,           (* and the loop over one of its incremental payloads         *)
  hasNext,       (* hasNextVal                                                *)
  delivered      (* history: what _onIncrementalCb was called with            *)

rest    == <<own, wantsRawData, keepsAll>>
gqlVars == <<vars, rest, calls, readers, errors, part, inc, hasNext, delivered>>

Data      == <<"data">>
DataPath  == <<Data>>
Delimiter == <<"-", "-">> \o Boundary

NoError    == [message |-> <<>>, locations |-> <<>>, path |-> <<>>, extensions |-> <<>>]
NoLocation == [line |-> <<>>, column |-> <<>>]
NoPayload  == [path |-> <<>>, data |-> <<>>, errors |-> <<>>]

(* normalizeDataPath() *)
NormalizeDataPath(path) == IF path # <<>> /\ Head(path) = Data THEN path ELSE DataPath \o path

(* getData() and getRawData() *)
Requested(asked, raw) ==
  [i \in DOMAIN asked |-> [asked[i] EXCEPT !.key = NormalizeDataPath(@)]]
    \o IF raw THEN <<[key |-> DataPath, type |-> "String", size |-> 1]>> ELSE <<>>

GqlInit ==
  /\ body \in DOMAIN Texts /\ text = Texts[body]
  /\ wantsRawData \in BOOLEAN /\ keepsAll \in IF body \in Incremental THEN {FALSE} ELSE BOOLEAN
  /\ own \in {Requested(asked, wantsRawData) : asked \in BindingLists} /\ bindings = own
  /\ target = [i \in DOMAIN own |-> Untouched]
  /\ pos = 1 /\ stack = <<>> /\ phase = "start"
  /\ calls = <<"before">> /\ readers = <<>>
  /\ errors = <<>> /\ part = NoPayload /\ inc = NoPayload /\ hasNext = TRUE
  /\ delivered = <<>>

-----------------------------------------------------------------------------
Loop    == IF calls = <<>> THEN "done" ELSE Last(calls)
Ended   == pos \notin DOMAIN text
Enter(loop, p) == calls' = Append(calls, loop) /\ pos' = p

KeepParser   == UNCHANGED <<body, text, bindings, stack, phase, readers, rest>>
KeepPayloads == UNCHANGED <<part, inc, hasNext, delivered>>

(* parseResponse(), up to the loop that does the work. *)
Begin ==
  /\ Loop = "before"
  /\ LET p == SkipBlank(text, 1) IN
     IF body \in Incremental
     THEN calls' = (IF Ended THEN <<>> ELSE <<"boundary">>) /\ UNCHANGED pos
     ELSE IF At(text, p) = "{" THEN calls' = <<"response">> /\ pos' = p + 1
     ELSE calls' = <<>> /\ pos' = p
  /\ UNCHANGED <<target, errors>> /\ KeepParser /\ KeepPayloads

(* The members that the loops over objects know, and the characters that   *)
(* their values must start with.                                           *)
Anything == {At(text, MemberPos)}
Known ==
  [response |-> [data |-> IF keepsAll THEN Anything ELSE Opening, errors |-> Anything],
   error    |-> [message |-> {Quote}, locations |-> {"["}, path |-> {"["}, extensions |-> Opening],
   part     |-> [data |-> Opening, incremental |-> {"["}, hasNext |-> Anything, errors |-> Anything],
   payload  |-> [path |-> {"["}, data |-> Opening, errors |-> Anything]]

AtKnown(name) ==
  /\ AtMember /\ Loop \in DOMAIN Known /\ name \in DOMAIN Known[Loop]
  /\ Key = <<name>> /\ At(text, MemberPos) \in Known[Loop][name]

SkipUnknown ==
  /\ AtMember /\ Loop \in DOMAIN Known
  /\ ~\E name \in DOMAIN Known[Loop] : AtKnown(name)
  /\ GoOn(EndOfValue(text, MemberPos))
  /\ UNCHANGED <<calls, target, errors>> /\ KeepParser /\ KeepPayloads

(* No member here: a comma, or something else, is passed over. *)
PassOverOther ==
  /\ Loop \in {"response", "error", "location", "part", "payload"} /\ ~Ended
  /\ ~AtMember /\ At(text, Here) # "}"
  /\ pos' = Read(text, IF AtKey THEN AfterKey ELSE Here)
  /\ UNCHANGED <<calls, target, errors>> /\ KeepParser /\ KeepPayloads

AtEndOf(bracket) == Ended \/ At(text, Here) = bracket
Behind           == IF Ended THEN pos ELSE Here + 1

NumberEnd == FirstNotIn(text, MemberPos, Digits \cup {"-"})
WordEnd   == FirstNotIn(text, MemberPos, Letters)

(* A number, name or word fits in its buffer, with a terminator. *)
Fits(p, end, room) == end - p < room

-----------------------------------------------------------------------------
(* Errors.  An error is in the list from its bracket on, and a location in *)
(* its error: the code puts them there when they are complete, and nobody  *)
(* looks in between.                                                       *)

(* A loop that has called parseErrors() takes all errors there are. *)
TakeErrors(loop) ==
  /\ part' = IF loop = "part" THEN [part EXCEPT !.errors = errors] ELSE part
  /\ inc'  = IF loop = "payload" THEN [inc EXCEPT !.errors = errors] ELSE inc
  /\ UNCHANGED <<hasNext, delivered>>

Errors ==
  /\ AtKnown("errors")
  /\ IF At(text, MemberPos) = "["
     THEN Enter("errors", MemberPos + 1) /\ KeepPayloads
     ELSE GoOn(EndOfValue(text, MemberPos)) /\ TakeErrors(Loop) /\ UNCHANGED calls
  /\ UNCHANGED <<target, errors>> /\ KeepParser

(* The loops over arrays of objects. *)
ElementOf == [errors |-> "error", locations |-> "location", incremental |-> "payload"]

Latest == Len(errors)

Element ==
  /\ Loop \in DOMAIN ElementOf /\ ~Ended /\ At(text, Here) = "{"
  /\ Enter(ElementOf[Loop], Here + 1)
  /\ errors' = CASE Loop = "errors"    -> Append(errors, NoError)
                 [] Loop = "locations" -> [errors EXCEPT ![Latest].locations = Append(@, NoLocation)]
                 [] OTHER              -> errors
  /\ inc' = IF Loop = "incremental" THEN NoPayload ELSE inc
  /\ UNCHANGED <<target, part, hasNext, delivered>> /\ KeepParser

(* What is no object is not read: the loop comes back to it, forever. *)
NoObject ==
  /\ Loop \in DOMAIN ElementOf /\ ~Ended /\ At(text, Here) \notin {"{", "]"}
  /\ GoOn(Here)
  /\ UNCHANGED <<calls, target, errors>> /\ KeepParser /\ KeepPayloads

(* Mutant: the loop over an array does not notice the end of the text. *)
EndOfListUnnoticed ==
  /\ Loop \in DOMAIN ElementOf /\ At(text, Here) = "]"
  /\ calls' = Front(calls) /\ GoOn(Behind)
  /\ IF Loop = "errors" THEN TakeErrors(calls[Len(calls) - 1]) ELSE KeepPayloads
  /\ UNCHANGED <<target, errors>> /\ KeepParser

EndOfList ==
  /\ Loop \in DOMAIN ElementOf /\ AtEndOf("]")
  /\ calls' = Front(calls) /\ GoOn(Behind)
  /\ IF Loop = "errors" THEN TakeErrors(calls[Len(calls) - 1]) ELSE KeepPayloads
  /\ UNCHANGED <<target, errors>> /\ KeepParser

(* parsePath() behind the bracket before p: where a name or an index that  *)
(* starts at q ends, those there are, and where they end.                  *)
BareName(q) == FirstIn(text, q, {",", "]"} \cup Blank)
NameFits(q) == At(text, q) = Quote \/ Fits(q, BareName(q), NameRoom)
NameEnd(q)  == IF At(text, q) = Quote THEN TokenEnd(q) ELSE BareName(q)
NameAt(q)   == IF At(text, q) = Quote THEN <<Token(q)>>
               ELSE IF BareName(q) > q THEN <<SubSeq(text, q, BareName(q) - 1)>> ELSE <<>>

PathOver(q) == At(text, q) \in {"]", "end"} \/ ~NameFits(q)

PathNames(p) ==
  LET names[r \in 1 .. Len(text) + 1] ==
        LET q == SkipBlank(text, r)
        IN  IF PathOver(q) THEN <<>> ELSE NameAt(q) \o names[AfterComma(text, NameEnd(q))]
  IN  names[p]

PathStop(p) ==
  LET stop[r \in 1 .. Len(text) + 1] ==
        LET q == SkipBlank(text, r)
        IN  IF PathOver(q) THEN q ELSE stop[AfterComma(text, NameEnd(q))]
  IN  stop[p]

PathEnd(p) == Read(text, PathStop(p))

SetError(field, v) == errors' = [errors EXCEPT ![Latest][field] = v]

(* parseSingleError() *)
MemberOfError ==
  /\ Loop = "error"
  /\ LET p == MemberPos IN
     \/ /\ AtKnown("message") /\ SetError("message", Token(p))
        /\ GoOn(TokenEnd(p)) /\ UNCHANGED calls
     \/ /\ AtKnown("path") /\ NameFits(PathStop(p + 1))
        /\ SetError("path", PathNames(p + 1))
        /\ GoOn(PathEnd(p + 1)) /\ UNCHANGED calls
     \/ /\ AtKnown("extensions") /\ SetError("extensions", Raw(text, p))
        /\ GoOn(EndOfRaw(text, p)) /\ UNCHANGED calls
     \/ /\ AtKnown("locations")
        /\ Enter("locations", p + 1) /\ UNCHANGED errors
  /\ UNCHANGED target /\ KeepParser /\ KeepPayloads

(* parseLocation(): a value that is no number is left to PassOverOther. *)
LocationMember ==
  /\ Loop = "location" /\ AtMember /\ Fits(MemberPos, NumberEnd, NumberRoom)
  /\ LET set(field) == errors' = [errors EXCEPT ![Latest].locations[Len(errors[Latest].locations)][field]
                                    = SubSeq(text, MemberPos, NumberEnd - 1)]
     IN  /\ CASE Key = <<"line">>   -> set("line")
              [] Key = <<"column">> -> set("column")
              [] OTHER              -> UNCHANGED errors
         /\ GoOn(NumberEnd)
  /\ UNCHANGED <<calls, target>> /\ KeepParser /\ KeepPayloads

(* The end of a response, an error or a location. *)
EndOfObject ==
  /\ Loop \in {"response", "error", "location"} /\ AtEndOf("}")
  /\ calls' = Front(calls)
  /\ IF Loop = "response" THEN pos' = Behind ELSE GoOn(Behind)
  /\ UNCHANGED <<target, errors>> /\ KeepParser /\ KeepPayloads

-----------------------------------------------------------------------------
(* Bindings for a reader over a copy.  One that is not passed on to the    *)
(* parser stands in its list with a key that no text has.                  *)
Elsewhere == <<<<"no such key">>>>

Rebased(KeyOf(_)) == [i \in DOMAIN own |-> [own[i] EXCEPT !.key = KeyOf(i)]]

IsRaw(i) == wantsRawData /\ i = Len(own)

(* Behind "data." in a single response, where "data" is the whole, ... *)
InSingle(i) == IF IsRaw(i) THEN Elsewhere ELSE Tail(own[i].key)

(* Mutant: the prefix stays on the keys. *)
InPartUnstripped(i) == own[i].key

(* ... and in a part, where it is a member of that name. *)
InPart(i) == IF Below(own[i].key, DataPath) THEN Tail(own[i].key) ELSE own[i].key

(* The path of an incremental payload is compared with a key as a text, so *)
(* that its last name may end within a name of the key.                    *)
Prefix == DataPath \o inc.path

Matched(i) ==
  LET key == own[i].key
      n   == Len(Prefix)
  IN  /\ Len(key) >= n
      /\ SubSeq(key, 1, n - 1) = Front(Prefix)
      /\ IsPrefix(Prefix[n], key[n])

(* Mutant: data of a payload are bound as if it had no path. *)
InPayloadPathless(i) == IF Matched(i) THEN Tail(own[i].key) ELSE Elsewhere

InPayload(i) ==
  LET n     == Len(Prefix)
      ended == SubSeq(own[i].key[n], Len(Prefix[n]) + 1, Len(own[i].key[n]))
  IN  IF ~Matched(i) THEN Elsewhere
      ELSE (IF ended = <<>> THEN <<>> ELSE <<ended>>) \o SubSeq(own[i].key, n + 1, Len(own[i].key))

(* A reader over a copy is parsed; the one left goes on at p. *)
ParseCopy(copy, list, p) ==
  /\ readers' = Append(readers, [text |-> text, pos |-> p])
  /\ text' = copy /\ pos' = 1 /\ bindings' = list

(* The parser of RestRequest at work, and its return. *)
BindData ==
  /\ Loop = "bind"
  /\ Start \/ Capture \/ Descend \/ Bind \/ Skip \/ Garbled \/ Close
  /\ UNCHANGED <<calls, readers, errors, rest>> /\ KeepPayloads

DataBound ==
  /\ Loop = "bind" /\ phase = "done"
  /\ calls' = Front(calls) /\ phase' = "start" /\ bindings' = own
  /\ IF readers = <<>>
     THEN GoOn(pos) /\ UNCHANGED <<text, readers>>
     ELSE /\ readers' = Front(readers) /\ text' = Last(readers).text
          /\ pos' = AfterComma(Last(readers).text, Last(readers).pos)
  /\ UNCHANGED <<body, target, stack, errors, rest>> /\ KeepPayloads

(* The data of a single response, from the stream ... *)
DataStreamed ==
  /\ Loop = "response" /\ AtKnown("data") /\ ~wantsRawData /\ ~keepsAll
  /\ Enter("bind", MemberPos + 1)
  /\ phase' = "parsing" /\ stack' = <<Frame(KindOf(At(text, MemberPos)), DataPath)>>
  /\ UNCHANGED <<body, text, bindings, target, readers, errors, rest>> /\ KeepPayloads

(* ... or copied first. *)
DataCopied ==
  /\ Loop = "response" /\ AtKnown("data") /\ (wantsRawData \/ keepsAll)
  /\ At(text, MemberPos) \in Opening
  /\ IF wantsRawData THEN Store(Len(own), Raw(text, MemberPos)) ELSE UNCHANGED target
  /\ IF own = <<>>
     THEN GoOn(EndOfRaw(text, MemberPos)) /\ UNCHANGED <<calls, text, bindings, readers>>
     ELSE /\ calls' = Append(calls, "bind")
          /\ ParseCopy(Raw(text, MemberPos), Rebased(InSingle), EndOfRaw(text, MemberPos))
  /\ UNCHANGED <<body, stack, phase, errors, rest>> /\ KeepPayloads

(* Where the whole response was copied, null is read and anything else is  *)
(* left to PassOverOther.                                                  *)
DataAbsent ==
  /\ Loop = "response" /\ AtKnown("data") /\ At(text, MemberPos) \notin Opening
  /\ LET null == At(text, MemberPos) = "n"
         end  == IF null THEN WordEnd ELSE MemberPos
     IN  /\ null => Fits(MemberPos, end, NullRoom)
         /\ GoOn(end)
         /\ IF null /\ wantsRawData THEN Store(Len(own), SubSeq(text, MemberPos, end - 1))
            ELSE UNCHANGED target
  /\ UNCHANGED <<calls, errors>> /\ KeepParser /\ KeepPayloads

-----------------------------------------------------------------------------
(* Incremental responses: between the parts, ... *)

HasAt(p, chars) == \A k \in DOMAIN chars : At(text, p + k - 1) = chars[k]
EndOfLine       == FirstIn(text, pos, {"\n"})
FirstInLine     == FirstNotIn(text, pos, {" "})
LastLine        == EndOfLine >= Len(text)

BoundaryLine ==
  /\ Loop = "boundary"
  /\ pos' = Read(text, EndOfLine)
  /\ calls' = IF LastLine \/ HasAt(FirstInLine, Delimiter \o <<"-", "-">>) THEN <<>>
              ELSE IF HasAt(FirstInLine, Delimiter) THEN <<"headers">> ELSE calls
  /\ UNCHANGED <<target, errors>> /\ KeepParser /\ KeepPayloads

HeaderLine ==
  /\ Loop = "headers"
  /\ pos' = Read(text, EndOfLine)
  /\ calls' = IF FirstInLine = EndOfLine \/ LastLine THEN <<"seek">> ELSE calls
  /\ UNCHANGED <<target, errors>> /\ KeepParser /\ KeepPayloads

(* What is no object before the next boundary is passed over; ... *)
SeekOn ==
  /\ Loop = "seek" /\ At(text, Here) # "{"
  /\ pos' = IF At(text, Here) = "-" THEN Here ELSE Read(text, Here)
  /\ calls' = IF pos' \notin DOMAIN text THEN <<>>
              ELSE IF At(text, Here) = "-" THEN <<"boundary">> ELSE calls
  /\ UNCHANGED <<target, errors>> /\ KeepParser /\ KeepPayloads

(* ... an object is copied, and ... *)
BeginPart ==
  /\ Loop = "seek" /\ At(text, Here) = "{"
  /\ calls' = <<"part">>
  /\ readers' = <<[text |-> text, pos |-> EndOfRaw(text, Here)]>>
  /\ text' = Raw(text, Here) /\ pos' = 2
  /\ part' = NoPayload /\ hasNext' = TRUE
  /\ UNCHANGED <<body, bindings, target, stack, phase, rest, errors, inc, delivered>>

(* ... has members. *)
PartData ==
  /\ Loop = "part" /\ AtKnown("data")
  /\ part' = [part EXCEPT !.data = Raw(text, MemberPos)]
  /\ IF own = <<>>
     THEN GoOn(EndOfRaw(text, MemberPos)) /\ UNCHANGED <<calls, text, bindings, readers>>
     ELSE /\ calls' = Append(calls, "bind")
          /\ ParseCopy(Raw(text, MemberPos), Rebased(InPart), EndOfRaw(text, MemberPos))
  /\ UNCHANGED <<body, target, stack, phase, errors, rest, inc, hasNext, delivered>>

HasNext ==
  /\ Loop = "part" /\ AtKnown("hasNext") /\ Fits(MemberPos, WordEnd, WordRoom)
  /\ hasNext' = (SubSeq(text, MemberPos, WordEnd - 1) = <<"t", "r", "u", "e">>)
  /\ GoOn(WordEnd)
  /\ UNCHANGED <<calls, target, errors, part, inc, delivered>> /\ KeepParser

Payloads ==
  /\ Loop = "part" /\ AtKnown("incremental")
  /\ Enter("incremental", MemberPos + 1)
  /\ UNCHANGED <<target, errors>> /\ KeepParser /\ KeepPayloads

PayloadMember ==
  /\ Loop = "payload"
  /\ \/ /\ AtKnown("path") /\ NameFits(PathStop(MemberPos + 1))
        /\ inc' = [inc EXCEPT !.path = PathNames(MemberPos + 1)]
        /\ GoOn(PathEnd(MemberPos + 1))
     \/ /\ AtKnown("data")
        /\ inc' = [inc EXCEPT !.data = Raw(text, MemberPos)]
        /\ GoOn(EndOfRaw(text, MemberPos))
  /\ UNCHANGED <<calls, target, errors, part, hasNext, delivered>> /\ KeepParser

(* An incremental payload is bound, if it has data that some binding may   *)
(* be in, ...                                                              *)
EndOfPayload ==
  /\ Loop = "payload" /\ AtEndOf("}")
  /\ IF inc.data = <<>> \/ ~\E i \in DOMAIN own : Matched(i)
     THEN /\ calls' = Append(Front(calls), "deliver") /\ GoOn(Behind)
          /\ UNCHANGED <<text, bindings, readers>>
     ELSE /\ calls' = Front(calls) \o <<"deliver", "bind">>
          /\ ParseCopy(inc.data, Rebased(InPayload), Behind)
  /\ UNCHANGED <<body, target, stack, phase, errors, rest>> /\ KeepPayloads

Callback(payload, next) ==
  delivered' = Append(delivered, [payload |-> payload, hasNext |-> next])

(* ... and then delivered. *)
Deliver ==
  /\ Loop = "deliver"
  /\ calls' = Front(calls) /\ Callback(inc, hasNext)
  /\ UNCHANGED <<pos, target, errors, part, inc, hasNext>> /\ KeepParser

(* Mutant: a part is always delivered. *)
EndOfPartAlways ==
  /\ Loop = "part" /\ AtEndOf("}")
  /\ Callback(part, hasNext)
  /\ readers' = <<>> /\ text' = readers[1].text /\ pos' = readers[1].pos
  /\ calls' = IF hasNext /\ pos' \in DOMAIN text' THEN <<"boundary">> ELSE <<>>
  /\ UNCHANGED <<body, bindings, target, stack, phase, errors, rest, part, inc, hasNext>>

(* At the end of a part, data of its own are delivered, with the hasNext   *)
(* that it had anywhere; and no other part is read after the last one.     *)
EndOfPart ==
  /\ Loop = "part" /\ AtEndOf("}")
  /\ IF part.data = <<>> THEN UNCHANGED delivered ELSE Callback(part, hasNext)
  /\ readers' = <<>> /\ text' = readers[1].text /\ pos' = readers[1].pos
  /\ calls' = IF hasNext /\ pos' \in DOMAIN text' THEN <<"boundary">> ELSE <<>>
  /\ UNCHANGED <<body, bindings, target, stack, phase, errors, rest, part, inc, hasNext>>

-----------------------------------------------------------------------------
(* What does not fit is read until the buffer is full.  Then the loop over *)
(* its characters reads no more, and does not end either.                  *)
Fill(p, end, room) == ~Fits(p, end, room) /\ Enter("full", p + room - 1)

FillBuffer ==
  /\ \/ Loop = "location" /\ AtMember /\ Fill(MemberPos, NumberEnd, NumberRoom)
     \/ AtKnown("hasNext") /\ Fill(MemberPos, WordEnd, WordRoom)
     \/ /\ Loop = "response" /\ AtKnown("data") /\ At(text, MemberPos) = "n"
        /\ Fill(MemberPos, WordEnd, NullRoom)
     \/ /\ AtKnown("path")
        /\ LET q == PathStop(MemberPos + 1)
           IN  At(text, q) # Quote /\ Fill(q, BareName(q), NameRoom)
  /\ UNCHANGED <<target, errors>> /\ KeepParser /\ KeepPayloads

Overfull == Loop = "full"

StayFull == Overfull /\ UNCHANGED gqlVars

GqlNext ==
  \/ Begin \/ SkipUnknown \/ PassOverOther \/ EndOfObject
  \/ Errors \/ Element \/ NoObject \/ EndOfList \/ MemberOfError \/ LocationMember
  \/ DataStreamed \/ DataCopied \/ DataAbsent \/ BindData \/ DataBound
  \/ BoundaryLine \/ HeaderLine \/ SeekOn \/ BeginPart
  \/ PartData \/ HasNext \/ Payloads \/ PayloadMember \/ EndOfPayload \/ Deliver \/ EndOfPart
  \/ FillBuffer \/ StayFull

(* As the parsers before: a sequential loop within execute(). *)
GqlSpec == GqlInit /\ [][GqlNext]_gqlVars /\ WF_gqlVars(GqlNext)

-----------------------------------------------------------------------------
(* The parser in the data is never deeper than the longest of the caller's *)
(* paths, also where it reads a copy with bindings of its own, whatever the*)
(* server sent as a payload's path (GraphQLRequest.cpp 1054-1067, 1399-1409*)
(* and 1473-1484; RestRequest.cpp 664-690 and 737-752).                    *)
DataRecursionBounded ==
  Len(stack) <= 1 \/ \E i \in DOMAIN own : Len(stack) <= Len(own[i].key)

(* At something in an array of objects that is none. *)
NotAnObject ==
  Loop \in DOMAIN ElementOf /\ ~Ended /\ At(text, pos) \notin {"{", "]", ","} \cup Blank

(* An upper bound of the passes that are left: through the text that is    *)
(* read, through what is behind copies, and through the data of a payload, *)
(* which are bound at its end; and for the loops at work.                  *)
LeftBehind(k) == IF k \in DOMAIN readers THEN Left(readers[k].text, readers[k].pos) ELSE 0

Pending == IF Len(calls) >= 3 /\ calls[3] = "payload" THEN 3 * Left(inc.data, 1) + 4 ELSE 0

Stage ==
  (IF calls = <<>> THEN 0
   ELSE CASE calls[1] = "before" -> 3 [] calls[1] = "headers" -> 2
          [] calls[1] \in {"seek", "part"} -> 1 [] OTHER -> 0)
  + (IF Loop # "bind" THEN 0
     ELSE CASE phase = "start" -> 2 [] phase = "parsing" -> 1 [] OTHER -> 0)

GqlPassesLeft ==
  3 * (Left(text, pos) + LeftBehind(1) + LeftBehind(2)) + Pending
    + Len(stack) + Len(calls) + Stage

(* Whatever the text, GraphQL or not, single or in parts, and whatever is  *)
(* bound: each pass of the loops takes a reader on or returns, also where  *)
(* data are copied and the copy is read again, so that there are at most   *)
(* some passes for each character; except that an array's loop stays for   *)
(* good where it is Stuck in data, or where it looks for an object that is *)
(* NotAnObject, and a word's where its buffer is Overfull, as happens with *)
(* location numbers of 32 characters, names without quotes of 64, an n-word*)
(* as data of 8 and a hasNext of 16 (GraphQLRequest.cpp 1023-1316 and      *)
(* 1318-1529).                                                             *)
EachGqlPassCounts ==
  [][~Stuck /\ ~NotAnObject /\ ~Overfull => GqlPassesLeft' < GqlPassesLeft]_gqlVars

=============================================================================
