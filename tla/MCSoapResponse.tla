--------------------------- MODULE MCSoapResponse ---------------------------
(* Small instances of SoapResponse for TLC: documents, whole or cut, and   *)
(* what SoapRequest promises of them, told by their elements.              *)
EXTENDS SoapResponse, XmlDocument, FiniteSets

A == <<"a">>
B == <<"b">>
Prefixed(name) == <<"m", ":">> \o name
Name(word)     == <<word>>

Envelope(kids) == Elem(<<"s", ":", "envelope">>, <<Elem(<<"s", ":", "body">>, kids)>>)

One   == Text(<<"1">>)
Space == Text(<<" ">>)
Tricky == Text(<<"1", "<", "/", "&">>)

(* Attributes and asides that hold what could be taken for markup. *)
Quotes   == <<" ", "x", "=", "\"", "/", ">", "'", "\"">>
Apostrophes == <<" ", "x", "=", "'", ">", "\"", "'">>
Comment  == AsideOf(<<"<", "!", "-", "-", "<", "a", ">", "-", ">", "-", "-", ">">>)
Program  == AsideOf(<<"<", "?", "x", ">", "?", ">">>)

Declaration == AsideOf(<<"<", "!", "doctype", " ", "a", ">">>)

Elements ==
  <<Elem(A, <<One>>), Elem(A, <<>>), Attr(A, Quotes, <<One>>), Attr(A, Apostrophes, <<>>),
    Attr(Prefixed(A), <<" ", "x", "=", "'", "/", "'">>, <<Tricky>>),
    Elem(A, <<Space, One, Space>>), Elem(A, <<One, Comment, One>>),
    Elem(A, <<CDataOf(<<"<", "/", "]", "a", ">">>)>>),
    Elem(A, <<Program, Declaration, Text(<<"true">>), CDataOf(<<>>)>>)>>

Alone(x)    == Envelope(<<x>>)
Under(x)    == Envelope(<<Elem(B, <<x, Elem(Prefixed(B), <<Tricky>>)>>), Space>>)
Twice(x)    == Envelope(<<x, Comment, Elem(Prefixed(A), <<Text(<<"2">>)>>)>>)

Each(Build(_), docs) == [i \in DOMAIN docs |-> Build(docs[i])]

Leaf(word, c)  == Elem(<<"s", ":", word>>, <<Space, Text(<<c>>), Space>>)
Bare(word, c)  == Elem(<<word>>, <<Text(<<c>>)>>)
Fault(kids)    == Envelope(<<Elem(<<"s", ":", "fault">>, kids)>>)
CodeOf(c)      == Elem(<<"s", ":", "code">>, <<Leaf("value", c), Elem(<<"subcode">>, <<Bare("value", "b")>>)>>)
ReasonOf(c)    == Elem(<<"s", ":", "reason">>, <<Leaf("text", c)>>)

Faults ==
  <<Fault(<<CodeOf("1"), ReasonOf("2"), Leaf("node", "3"), Leaf("role", "4"), Leaf("detail", "5")>>),
    Fault(<<Bare("faultcode", "1"), Bare("faultstring", "2"), Bare("faultactor", "3"), Bare("detail", "4")>>),
    Fault(<<Leaf("role", "1"), Leaf("node", "2"), ReasonOf("3"), CodeOf("4")>>),
    Fault(<<Bare("faultcode", "1"), Leaf("role", "2")>>), Fault(<<Space>>)>>

Docs == <<Under(Elements[3]), Faults[1], Twice(Elements[8])>>
          \o Each(Alone, Elements) \o Each(Under, Elements) \o Each(Twice, Elements) \o Faults

(* Every document whole, and the first three cut anywhere. *)
Wholes == [d \in DOMAIN Docs |-> PartOf(Docs[d])]

BodyOf(d, whole, n) == [doc |-> d, text |-> SubSeq(whole.written, 1, n)]

ResponseBodies ==
  UNION {LET n == Len(Wholes[d].written)
         IN  {BodyOf(d, whole, i) : i \in IF d <= 3 THEN 0 .. n ELSE {n}, whole \in {Wholes[d]}} :
           d \in DOMAIN Docs}

To(key, type) == [key |-> key, type |-> type, size |-> 3]

Lists ==
  LET bound == {To(<<A>>, "int"), To(<<A>>, "String"), To(<<A>>, "bool"), To(<<Prefixed(A)>>, "chars"),
                To(<<B, A>>, "chars"), To(<<B>>, "String"), To(<<B, B>>, "String"),
                To(<<<<"body">>, A>>, "int"), To(<<<<"s", ":", "body">>, A>>, "String")}
  IN  {<<x, y>> : x \in bound, y \in {To(<<A>>, "String"), To(<<B, A>>, "chars")}}

-----------------------------------------------------------------------------
IsWhole == text = Wholes[body.doc].written
Over    == pos = Len(text) + 1

(* An element is known by its name, with or without the prefix, under the  *)
(* names that a path gives before it.                                      *)
Unprefixed(name) == <<Last(name)>>
Designates(path, names) ==
  \/ IsSuffix(path, names)
  \/ IsSuffix(path, [i \in DOMAIN names |-> Unprefixed(names[i])])

Designated(i) == SelectSeq(Wholes[body.doc].elements, LAMBDA e : Designates(bindings[i].key, e.names))

(* Every variable gets the text of the last element that its path          *)
(* designates, whatever markup attributes, comments and CDATA seem to be   *)
(* around it or in it, and none if there is no such element                *)
(* (soaprequest.md, "Path Matching Examples"); said of elements without    *)
(* others in them.  No CDATA here end in "]" or have entities in them: the *)
(* code changes those.                                                     *)
ElementBound ==
  Over /\ IsWhole => \A i \in DOMAIN bindings :
    LET es == Designated(i) IN
    IF es = <<>> THEN target[i] = Untouched
    ELSE Last(es).leaf => target[i] = Value(bindings[i], Last(es).content)

(* A cut body binds nothing wrong: a variable holds the text of an element *)
(* that came whole, or what it held before.                                *)
CutNeverWrong ==
  \A i \in DOMAIN bindings :
    \/ target[i] = Untouched
    \/ \E k \in DOMAIN Designated(i) :
         LET e == Designated(i)[k] IN
         /\ e.close <= Len(text) + 1
         /\ e.leaf => target[i] = Value(bindings[i], e.content)

(* The parser keeps in step: the names it has on its stack are those of the*)
(* elements that the reader is in.                                         *)
InStep ==
  pos \in DOMAIN text =>
    LET around == SelectSeq(Wholes[body.doc].elements, LAMBDA e : ~e.empty /\ e.inner <= pos /\ pos <= e.close)
    IN  tags = (IF around = <<>> THEN <<>> ELSE around[1].names)

(* What came of a fault is reported, field by field, in SOAP 1.1 and 1.2   *)
(* and in any order; a node is preferred to a role, and the value of a     *)
(* subcode is no code.  No detail, node or role is outside of a fault here:*)
(* the code takes one for a fault of its own.                              *)
Received(path) ==
  LET es == SelectSeq(Wholes[body.doc].elements, LAMBDA e :
              e.close < Len(text) /\ Designates(path, e.names) /\ e.leaf)
  IN  IF es = <<>> THEN <<>> ELSE Last(es).content

InFault(path) ==
  LET t == Received(<<<<"fault">>>> \o path) IN SelectSeq(t, LAMBDA c : c # " ")

Either(s, t) == IF s # <<>> THEN s ELSE t

FaultReported ==
  Over =>
    /\ fault.faultCode = Either(InFault(<<<<"faultcode">>>>), InFault(<<<<"code">>, <<"value">>>>))
    /\ fault.faultString = Either(InFault(<<<<"faultstring">>>>), InFault(<<<<"reason">>, <<"text">>>>))
    /\ fault.faultActor = Either(InFault(<<<<"faultactor">>>>),
                                 Either(InFault(<<<<"node">>>>), InFault(<<<<"role">>>>)))
    /\ fault.detail = InFault(<<<<"detail">>>>)
    /\ IsWhole => (fault.matched =
         \E k \in DOMAIN Wholes[body.doc].elements : Designates(<<<<"fault">>>>, Wholes[body.doc].elements[k].names))

=============================================================================
