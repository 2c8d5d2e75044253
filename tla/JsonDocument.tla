---------------------------- MODULE JsonDocument ----------------------------
(***************************************************************************)
(* JSON documents as trees, how a server writes them, and what a path of   *)
(* keys and indices designates: the reference that the parser, which sees  *)
(* only characters, is compared with.                                      *)
(***************************************************************************)
EXTENDS Integers, Sequences

LOCAL INSTANCE SequencesExt
LOCAL INSTANCE TLC

(* kind: "obj", "arr", "str", "num" or "word"; keys and kids of an object, *)
(* kids of an array, chars of the others.                                  *)
Node(kind, chars, keys, kids) ==
  [kind |-> kind, chars |-> chars, keys |-> keys, kids |-> kids]

Str(chars)      == Node("str", chars, <<>>, <<>>)
Num(digits)     == Node("num", digits, <<>>, <<>>)
Word(letters)   == Node("word", letters, <<>>, <<>>)
Obj(keys, kids) == Node("obj", <<>>, keys, kids)
Arr(kids)       == Node("arr", <<>>, <<>>, kids)

True  == Word(<<"t", "r", "u", "e">>)
False == Word(<<"f", "a", "l", "s", "e">>)
Null  == Word(<<"n", "u", "l", "l">>)

Missing == Node("none", <<>>, <<>>, <<>>)

(* A string, quotes and backslashes of which are escaped. *)
Quoted(chars) ==
  <<"\"">> \o FlattenSeq([i \in DOMAIN chars |->
                IF chars[i] \in {"\"", "\\"} THEN <<"\\", chars[i]>> ELSE <<chars[i]>>])
           \o <<"\"">>

(* The text of a document, with a blank after each colon and comma. *)
RECURSIVE Render(_), InsideTo(_, _)
Item(v, i) == (IF v.kind = "obj" THEN Quoted(v.keys[i]) \o <<":", " ">> ELSE <<>>)
              \o Render(v.kids[i])
InsideTo(v, n) ==
  IF n = 0 THEN <<>>
  ELSE InsideTo(v, n - 1) \o (IF n = 1 THEN <<>> ELSE <<",", " ">>) \o Item(v, n)
Inside(v) == InsideTo(v, Len(v.kids))
Render(v) ==
  CASE v.kind = "str" -> Quoted(v.chars)
    [] v.kind \in {"num", "word"} -> v.chars
    [] v.kind = "obj" -> <<"{">> \o Inside(v) \o <<"}">>
    [] v.kind = "arr" -> <<"[">> \o Inside(v) \o <<"]">>

(* Which kid a segment of a path names; 0 if none. *)
KidNamed(v, seg) ==
  LET named == {i \in DOMAIN v.kids :
                  seg = IF v.kind = "obj" THEN v.keys[i] ELSE <<ToString(i - 1)>>}
  IN  IF named = {} THEN 0 ELSE CHOOSE i \in named : TRUE

RECURSIVE Designated(_, _)
Designated(v, path) ==
  IF path = <<>> THEN v
  ELSE LET i == KidNamed(v, Head(path))
       IN  IF i = 0 THEN Missing ELSE Designated(v.kids[i], Tail(path))

(* Where the value that a path designates starts in the text: behind the   *)
(* bracket, and behind the kids before it and its own key.                 *)
UpTo(v, i) == [v EXCEPT !.kids = SubSeq(@, 1, i), !.keys = SubSeq(@, 1, IF v.kind = "obj" THEN i ELSE 0)]

RECURSIVE StartOf(_, _)
StartOf(v, path) ==
  IF path = <<>> THEN 1
  ELSE LET i == KidNamed(v, Head(path))
       IN  1 + Len(Inside(UpTo(v, i))) - Len(Render(v.kids[i]))
             + StartOf(v.kids[i], Tail(path))

(* What a path designates and where: from its first character to the one   *)
(* after its last.                                                         *)
Place(v, path) ==
  LET found == Designated(v, path)
      from  == IF found = Missing THEN 0 ELSE StartOf(v, path)
  IN  [value |-> found, from |-> from,
       to |-> IF found = Missing THEN 0 ELSE from + Len(Render(found))]

=============================================================================
