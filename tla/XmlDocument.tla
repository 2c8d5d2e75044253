---------------------------- MODULE XmlDocument ----------------------------
(***************************************************************************)
(* XML documents as trees, how a server writes them, and what elements     *)
(* they have: the reference that the parser, which sees only characters,   *)
(* is compared with.                                                       *)
(***************************************************************************)
EXTENDS Integers, Sequences

LOCAL INSTANCE SequencesExt

(* kind: "elem", "text", "cdata" or "aside"; chars of an aside are markup. *)
Node(kind, name, attributes, kids, chars) ==
  [kind |-> kind, name |-> name, attributes |-> attributes, kids |-> kids, chars |-> chars]

Elem(name, kids)             == Node("elem", name, <<>>, kids, <<>>)
Attr(name, attributes, kids) == Node("elem", name, attributes, kids, <<>>)
Text(chars)                  == Node("text", <<>>, <<>>, <<>>, chars)
CDataOf(chars)               == Node("cdata", <<>>, <<>>, <<>>, chars)
AsideOf(markup)              == Node("aside", <<>>, <<>>, <<>>, markup)

(* TLC works out what is bound in a set once. *)
Once(Of(_), value) == CHOOSE result \in {Of(v) : v \in {value}} : TRUE

EntityOf(c) ==
  CASE c = "<" -> <<"&", "lt", ";">>
    [] c = "&" -> <<"&", "amp", ";">>
    [] c = "'" -> <<"&", "apos", ";">>
    [] OTHER   -> <<c>>

(* A part of a document: what is written of it, the text it gives to the   *)
(* element it is in, and its elements in the order in which they end:      *)
(* where each starts, where its content does and where its end tag does.   *)
Part(written, chars, elements) ==
  [written |-> written, chars |-> chars, elements |-> elements]

WrittenOf(parts) == FlattenSeq([i \in DOMAIN parts |-> parts[i].written])
CharsOf(parts)   == FlattenSeq([i \in DOMAIN parts |-> parts[i].chars])

(* The elements of a part in an element of this name, n characters on.     *)
Within(name, n, part) ==
  [k \in DOMAIN part.elements |->
     [part.elements[k] EXCEPT !.names = <<name>> \o @, !.from = @ + n,
                              !.inner = @ + n, !.close = @ + n]]

(* The element v with these parts; one of no parts closes itself. *)
ElementOf(v, parts) ==
  LET empty     == parts = <<>>
      open      == <<"<">> \o v.name \o v.attributes \o (IF empty THEN <<"/", ">">> ELSE <<">">>)
      end       == IF empty THEN <<>> ELSE <<"<", "/">> \o v.name \o <<">">>
      inside    == WrittenOf(parts)
      Before(i) == Len(open) + Len(WrittenOf(SubSeq(parts, 1, i - 1)))
      below     == FlattenSeq([i \in DOMAIN parts |-> Within(v.name, Before(i), parts[i])])
  IN  Part(open \o inside \o end, <<>>,
           Append(below, [names |-> <<v.name>>, leaf |-> below = <<>>, empty |-> empty,
                          content |-> CharsOf(parts), from |-> 1, inner |-> 1 + Len(open),
                          close |-> 1 + Len(open) + Len(inside)]))

RECURSIVE PartOf(_)
PartOf(v) ==
  LET Whole(parts) == ElementOf(v, parts)
      kids == SubSeq([i \in DOMAIN v.kids |-> PartOf(v.kids[i])], 1, Len(v.kids))
  IN  CASE v.kind = "elem"  -> Once(Whole, kids)
        [] v.kind = "text"  -> Part(FlattenSeq([i \in DOMAIN v.chars |-> EntityOf(v.chars[i])]), v.chars, <<>>)
        [] v.kind = "cdata" -> Part(<<"<", "!", "[", "CDATA", "[">> \o v.chars \o <<"]", "]", ">">>, v.chars, <<>>)
        [] v.kind = "aside" -> Part(v.chars, <<>>, <<>>)

=============================================================================
