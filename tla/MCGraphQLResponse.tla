------------------------- MODULE MCGraphQLResponse -------------------------
(* Small instances of GraphQLResponse for TLC: single and incremental      *)
(* responses, whole or cut; and what GraphQLRequest promises of them.      *)
EXTENDS GraphQLResponse, BoundValues

LOCAL INSTANCE SequencesExt
LOCAL INSTANCE FiniteSets
LOCAL INSTANCE Functions

A == <<"a">>
B == <<"b">>
Zeroth == <<"0">>
First  == <<"1">>

One    == Num(<<"1">>)
Twelve == Num(<<"1", "2">>)
Plain  == Str(<<"a", "b">>)

(* One character too long for their buffers. *)
LongNumber == Num(<<"1", "2", "3">>)
LongName   == Twelve
LongNull   == Word(<<"n", "u", "l", "l", "s">>)
LongTrue   == Word(<<"t", "r", "u", "e", "s", "t">>)

data       == <<"data">>
message    == <<"message">>
locations  == <<"locations">>
path       == <<"path">>
extensions == <<"extensions">>
line       == <<"line">>
column     == <<"column">>
errs       == <<"errors">>
more       == <<"incremental">>
next       == <<"hasNext">>

(* Errors: with all members in two orders, with some, with members that    *)
(* are not what they should be, and with unknown ones.                     *)
At12   == Obj(<<line, column>>, <<One, Twelve>>)
Empty  == Obj(<<>>, <<>>)
Full   == Obj(<<message, locations, path, extensions>>,
              <<Tricky, Arr(<<At12>>), Arr(<<Plain, One>>), Obj(<<A>>, <<Tricky>>)>>)
Turned == Obj(<<extensions, path, A, locations, message>>,
              <<Obj(<<message>>, <<One>>), Arr(<<>>), Obj(<<path>>, <<Tricky>>),
                Arr(<<Empty, Obj(<<column, A, line>>, <<One, Tricky, Twelve>>)>>), Plain>>)
Odd    == Obj(<<path, message, locations, extensions>>, <<Null, Null, Null, Tricky>>)
Brief  == Obj(<<message>>, <<Plain>>)

Values == Obj(<<A, B>>, <<One, Arr(<<Tricky, Obj(<<A>>, <<Plain>>)>>)>>)

(* Single responses; the last ones have something that a loop does not get *)
(* past: an element that is no object, and what a buffer does not hold.    *)
StandingSingles ==
  <<Obj(<<errs, data>>, <<Arr(<<Brief, Null>>), Values>>),
    Obj(<<errs, data>>,
        <<Arr(<<Full, Obj(<<locations, message>>,
                          <<Arr(<<At12, Obj(<<column, line>>, <<LongNumber, One>>)>>), Plain>>)>>), Values>>),
    Obj(<<data, errs>>, <<Values, Arr(<<Obj(<<path, message>>, <<Arr(<<Plain, One, LongName>>), Plain>>)>>)>>)>>

Singles ==
  <<Obj(<<errs, data>>, <<Arr(<<Brief, Full>>), Values>>),
    Obj(<<data, errs>>, <<Values, Arr(<<Turned, Full>>)>>),
    Obj(<<A, data, extensions>>, <<Obj(<<data>>, <<Plain>>), Arr(<<One, Values>>), Tricky>>),
    Obj(<<data, errs>>, <<Null, Arr(<<Odd, Empty, Full>>)>>),
    Obj(<<errs, data>>, <<Null, Obj(<<A, B>>, <<Null, Values>>)>>),
    Obj(<<data, B>>, <<One, Arr(<<Obj(<<errs>>, <<Plain>>)>>)>>),
    Obj(<<errs>>, <<Arr(<<>>)>>),
    Arr(<<Values>>),
    Obj(<<data, A>>, <<LongNull, LongNull>>)>> \o StandingSingles

(* Incremental ones, by their parts; a part that is Missing is empty. *)
Initial   == Obj(<<data, next>>, <<Values, True>>)
Later(ps) == Obj(<<more, next>>, <<Arr(ps), True>>)
Last1(ps) == Obj(<<more, next>>, <<Arr(ps), False>>)
Last2(ps) == Obj(<<next, more>>, <<False, Arr(ps)>>)
OfB       == Obj(<<path, data>>, <<Arr(<<Str(B), One>>), Obj(<<A>>, <<Twelve>>)>>)
OfRoot    == Obj(<<A, data>>, <<Tricky, Obj(<<A>>, <<Twelve>>)>>)
Reversed  == Obj(<<errs, data, path>>, <<Arr(<<Brief>>), Obj(<<A>>, <<Plain>>), Arr(<<Str(B), One>>)>>)
Nothing   == Obj(<<path, data, errs>>, <<Null, Null, Arr(<<Full>>)>>)

StandingStreams ==
  <<<<Initial, Later(<<OfB, Null>>), Last1(<<OfB>>)>>,
    <<Initial, Obj(<<more, next, data>>, <<Arr(<<OfB>>), LongTrue, Values>>), Last1(<<OfB>>)>>,
    <<Initial, Later(<<OfB, Obj(<<data, path>>, <<Values, Arr(<<LongName, One>>)>>)>>), Last1(<<OfB>>)>>>>

Streams ==
  <<<<Initial, Last1(<<OfB, Reversed>>)>>,
    <<Obj(<<errs, data, next>>, <<Arr(<<Brief>>), Values, True>>), Later(<<Reversed>>), Last2(<<OfRoot>>)>>,
    <<Missing, Initial, Missing, Later(<<>>), Obj(<<next>>, <<False>>), Initial>>,
    <<Obj(<<data>>, <<Arr(<<One, Values>>)>>), Last2(<<Nothing, OfB>>), Later(<<OfB>>)>>,
    <<Obj(<<next, data, errs>>, <<False, Values, Arr(<<Turned>>)>>)>>,
    <<Initial, Obj(<<A, more, errs, next>>, <<Tricky, Null, Null, True>>), Last1(<<OfB>>)>>>> \o StandingStreams

-----------------------------------------------------------------------------
(* What is sent, whole, and some of it also cut anywhere. *)
Separator == <<"b">>
Before    == <<"-", "-", "b", "\n", "a", "\n", "\n">>
WrittenPart(p) == Before \o (IF p = Missing THEN <<>> ELSE Render(p) \o <<"\n">>)
Written(ps)    == <<"\n">> \o FlattenSeq([k \in DOMAIN ps |-> WrittenPart(ps[k])])
                    \o <<"-", "-", "b", "-", "-", "\n">>

(* The number of characters before the object of a part. *)
Offset(ps, k) == Len(Written(SubSeq(ps, 1, k - 1))) - 6 + Len(Before)

NSingles == Len(Singles)
Rendered == [d \in DOMAIN Singles |-> Render(Singles[d])] \o [d \in DOMAIN Streams |-> Written(Streams[d])]

(* TLC works out what is bound in a set once. *)
Once(Of(_), value) == CHOOSE result \in {Of(v) : v \in {value}} : TRUE

PartsOf(rendered) ==
  LET cutsOf(d) == [n \in 1 .. Len(rendered[d]) |-> <<d, n - 1>>]
  IN  [d \in DOMAIN rendered |-> <<d, Len(rendered[d])>>]
        \o cutsOf(1) \o cutsOf(NSingles + 1) \o cutsOf(NSingles + 2)
TextsOf(rendered) ==
  LET cut(parts) == [b \in DOMAIN parts |-> SubSeq(rendered[parts[b][1]], 1, parts[b][2])]
  IN  Once(cut, PartsOf(rendered))

Parts         == Once(PartsOf, Rendered)
ResponseTexts == Once(TextsOf, Rendered)
MultipartTexts == {b \in DOMAIN Parts : Parts[b][1] > NSingles}

To(key, type) == [key |-> key, type |-> type, size |-> 3]

Lists ==
  {<<>>, <<To(<<>>, "String")>>, <<To(<<A>>, "int")>>, <<To(<<A>>, "String"), To(<<B>>, "String")>>,
   <<To(<<Data, B>>, "chars"), To(<<A>>, "String")>>,
   <<To(<<Data, B, First, A>>, "String"), To(<<A>>, "long")>>,
   <<To(<<B, Zeroth>>, "chars"), To(<<B, First, A>>, "int")>>,
   <<To(<<B, First, A>>, "chars"), To(<<First, A>>, "int")>>,
   <<To(<<B, First>>, "String"), To(<<Zeroth>>, "long")>>,
   <<To(<<B, <<"1", "0">>, A>>, "String")>>}

-----------------------------------------------------------------------------
(* What the trees say: errors, ... *)

ArrayOr(v)    == IF v.kind = "arr" THEN v.kids ELSE <<>>
CharsOr(v)    == IF v.kind = "str" THEN Fitting(v.chars, TextLimit) ELSE <<>>
NumberOr(v)   == IF v.kind = "num" THEN v.chars ELSE <<>>
RenderOr(v)   == IF v.kind \in {"obj", "arr"} THEN Render(v) ELSE <<>>
NamesOf(v)    == [k \in DOMAIN ArrayOr(v) |-> v.kids[k].chars]

ErrorOf(e) ==
  [message |-> CharsOr(Designated(e, <<message>>)),
   locations |-> LET ls == ArrayOr(Designated(e, <<locations>>))
                 IN  [k \in DOMAIN ls |-> [line   |-> NumberOr(Designated(ls[k], <<line>>)),
                                           column |-> NumberOr(Designated(ls[k], <<column>>))]],
   path |-> NamesOf(Designated(e, <<path>>)),
   extensions |-> RenderOr(Designated(e, <<extensions>>))]

ErrorsOf(v) == [k \in DOMAIN ArrayOr(v) |-> ErrorOf(v.kids[k])]

(* ... and payloads in the order in which they are complete.  sent is what *)
(* was sent so far; where counts the characters before the object.         *)
NothingSent == [errors |-> <<>>, next |-> TRUE, own |-> <<>>, payloads |-> <<>>]

PayloadOf(v, where, sent) ==
  LET all == sent.errors \o ErrorsOf(Designated(v, <<errs>>)) IN
  [sent EXCEPT !.errors = all,
     !.payloads = Append(@,
        [path |-> NamesOf(Designated(v, <<path>>)), ofPart |-> FALSE, value |-> Designated(v, <<data>>),
         errors |-> IF Designated(v, <<errs>>) = Missing THEN <<>> ELSE all,
         next |-> sent.next, from |-> where + 1, to |-> where + 1 + Len(Render(v)), end |-> where + 1 + Len(Render(v))])]

MemberOf(p, where, sent, i) ==
  LET v == p.kids[i] IN
  CASE p.keys[i] = next -> [sent EXCEPT !.next = (v = True)]
    [] p.keys[i] = errs -> [sent EXCEPT !.errors = @ \o ErrorsOf(v), !.own = sent.errors \o ErrorsOf(v)]
    [] p.keys[i] = more ->
         LET upTo[k \in 0 .. Len(ArrayOr(v))] ==
               IF k = 0 THEN sent
               ELSE PayloadOf(v.kids[k], where + StartOf(p, <<more, <<ToString(k - 1)>>>>) - 1, upTo[k - 1])
         IN  upTo[Len(ArrayOr(v))]
    [] OTHER -> sent

DataOf(p, where, sent, place) ==
  IF RenderOr(place.value) = <<>> THEN sent
  ELSE [sent EXCEPT !.payloads = Append(@,
          [path |-> <<>>, ofPart |-> TRUE, value |-> place.value, errors |-> sent.own, next |-> sent.next,
           from |-> where + place.from, to |-> where + place.to, end |-> where + 1 + Len(Render(p))])]

PartOf(p, where, sent) ==
  LET upTo[i \in 0 .. Len(p.kids)] ==
        IF i = 0 THEN [sent EXCEPT !.own = <<>>] ELSE MemberOf(p, where, upTo[i - 1], i)
  IN  IF p = Missing \/ ~sent.next THEN sent
      ELSE DataOf(p, where, upTo[Len(p.kids)], Place(p, <<data>>))

SentIn(ps) ==
  LET upTo[k \in 0 .. Len(ps)] ==
        IF k = 0 THEN NothingSent ELSE PartOf(ps[k], Offset(ps, k), upTo[k - 1])
  IN  upTo[Len(ps)]

Sent ==
  [d \in DOMAIN Rendered |->
     IF d > NSingles THEN SentIn(Streams[d - NSingles])
     ELSE [NothingSent EXCEPT !.errors = IF Singles[d].kind = "obj"
                                         THEN ErrorsOf(Designated(Singles[d], <<errs>>)) ELSE <<>>]]

Paths  == {NormalizeDataPath(b.key) : b \in UNION {Range(l) : l \in Lists}}
Places == [d \in DOMAIN Singles |-> [p \in Paths \cup {DataPath} |-> Place(Singles[d], p)]]

-----------------------------------------------------------------------------
Doc      == Parts[body][1]
Received == Parts[body][2]
IsWhole  == Received = Len(Rendered[Doc])
Single   == body \notin Incremental
Done     == calls = <<>>

(* ws below are the payloads that were sent. *)
Writes == Sent[Doc].payloads

(* The loop is at something in an array of objects that is none. *)
AtNoObject == Loop \in DOMAIN ElementOf /\ ~Ended /\ At(text, Here) \notin {"{", "]", ",", " "}

(* Errors come as they were sent, in order, with those of all parts, and at*)
(* no time one that was not: only the last may be incomplete, while it is  *)
(* being read or because the text ends in it.                              *)
ErrorsAsSent ==
  \A sent \in {Sent[Doc].errors} :
    /\ Done /\ IsWhole => errors = sent
    /\ Len(errors) <= Len(sent)
    /\ \A k \in 1 .. Len(errors) - 1 : errors[k] = sent[k]

(* What binding i designates in the data of a payload; the whole of the    *)
(* data only in an incremental payload without a path.                     *)
InWrite(i, w) ==
  LET key  == own[i].key
      full == DataPath \o w.path
  IN  IF RenderOr(w.value) = <<>> \/ (w.ofPart /\ key = DataPath) \/ ~IsPrefix(full, key) THEN Missing
      ELSE Designated(w.value, SubSeq(key, Len(full) + 1, Len(key)))

(* What its variable holds when the first n payloads were bound. *)
AfterWrites(ws, n, i) ==
  LET after[k \in 0 .. n] ==
        IF k = 0 THEN Untouched
        ELSE LET v == Expected(own[i], InWrite(i, ws[k]))
             IN  IF v = Untouched THEN after[k - 1] ELSE v
  IN  after[n]

(* And in a single response, where the whole of the data is served only if *)
(* they are copied.                                                        *)
SingleValue(i) ==
  LET v == Places[Doc][own[i].key].value IN
  IF own[i].key # DataPath THEN Expected(own[i], v)
  ELSE IF v.kind \in {"obj", "arr"} /\ (wantsRawData \/ keepsAll) THEN Render(v)
  ELSE IF v = Null /\ keepsAll /\ IsRaw(i) THEN v.chars
  ELSE Untouched

(* No binding is in the way of binding i: none is of the same value, or of *)
(* one in or around it; and none is taken for one of another name because  *)
(* a payload's path ends within its own.                                   *)
Apart(i, j) ==
  /\ own[i].key # own[j].key
  /\ ~Below(own[i].key, own[j].key) /\ ~Below(own[j].key, own[i].key)

Pathless(ws)  == \E w \in Range(ws) : w.path = <<>> /\ ~w.ofPart
Misled(ws, i) == \E w \in Range(ws) :
                   LET full == DataPath \o w.path
                       n    == Len(full)
                   IN  Len(own[i].key) >= n /\ own[i].key[n] # full[n] /\ IsPrefix(full[n], own[i].key[n])
Clear(ws, i) ==
  /\ \A j \in DOMAIN own : ~Misled(ws, j)
  /\ \A j \in DOMAIN own \ {i} :
       \/ Apart(i, j)
       \/ IsRaw(j) /\ (Single \/ ~Pathless(ws))
       \/ IsRaw(i) /\ own[j].key # DataPath

AllAsDesignated(ws) ==
  \A i \in DOMAIN own : Clear(ws, i) =>
    target[i] = IF Single THEN SingleValue(i) ELSE AfterWrites(ws, Len(ws), i)

(* Every variable holds what its path designates in the data, whether they *)
(* are read from the stream or from a copy; and in those of an incremental *)
(* response, what the last payload says that has it.                       *)
DataAsDesignated == Done /\ IsWhole => \A ws \in {Writes} : AllAsDesignated(ws)

(* A payload that is cut may have lost names at the end of its path. *)
Touches(w, i) ==
  \E n \in 0 .. Len(w.path) : InWrite(i, [w EXCEPT !.path = SubSeq(@, 1, n)]) # Missing

RightInSingle(i) ==
  LET place == Places[Doc][own[i].key] IN
  /\ place.value # Missing /\ place.to <= Received + 1 => target[i] \in {SingleValue(i), Untouched}
  /\ place.value = Missing \/ place.from > Received =>
       target[i] = Untouched \/ (EndsAt(place) /\ target[i] = Emptied(own[i]))

RightInStream(ws, i) ==
  LET n == Cardinality({k \in DOMAIN ws : ws[k].to <= Received + 1})
      cut == n < Len(ws) /\ ws[n + 1].from <= Received /\ Touches(ws[n + 1], i)
  IN  \/ cut
      \/ \E k \in 0 .. n : (Done => k = n) /\ target[i] = AfterWrites(ws, k, i)

RightSoFar(ws) ==
  \A i \in DOMAIN own : Clear(ws, i) => IF Single THEN RightInSingle(i) ELSE RightInStream(ws, i)

(* When the text ends early, only the value, or the payload, that the cut  *)
(* falls into may be bound wrongly; what came before it is bound as if     *)
(* everything had come. In a single response that EndsAt a value, before   *)
(* its first character, a number becomes 0 and a String empty.             *)
OnlyTheCutValueIsWrong == \A ws \in {Writes} : RightSoFar(ws)

Promised(w) ==
  [payload |-> [path |-> w.path, data |-> RenderOr(w.value), errors |-> w.errors], hasNext |-> w.next]

InOrder(ws) ==
  /\ Done /\ IsWhole => Len(delivered) = Len(ws)
  /\ \A k \in DOMAIN delivered :
       /\ k \in DOMAIN ws
       /\ delivered[k] = Promised(ws[k]) \/ (ws[k].end > Received + 1 /\ k = Len(delivered))

(* Every payload of an incremental response is delivered once, in order and*)
(* complete, with the errors there are when its own were read, and with the*)
(* hasNext that was read before; nothing is read behind a part without     *)
(* next.  Only the payload that the text ends in may be incomplete.        *)
PayloadsInOrder == \A ws \in {Writes} : InOrder(ws)

(* What a loop does not get past is in these, and in the data that are     *)
(* LongNull where the whole response was copied.                           *)
Standing ==
  \/ Doc \in NSingles - Len(StandingSingles) + 1 .. NSingles
  \/ Doc > Len(Rendered) - Len(StandingStreams)
  \/ Doc = NSingles - Len(StandingSingles) /\ keepsAll

(* The response is taken in to its end, cut or not, unless an array of     *)
(* objects holds something else, or a number, a name or a word does not fit*)
(* in the buffer that it is read into.                                     *)
ResponseEnds == <>(Done \/ (Standing /\ (AtNoObject \/ Overfull)))

=============================================================================
