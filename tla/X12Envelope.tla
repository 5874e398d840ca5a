------------------------------- MODULE X12Envelope -------------------------------
(***************************************************************************)
(* The wire: X12Service writes segments as text and reads them back,       *)
(* EnvelopeService wraps a body into an interchange and takes interchanges *)
(* apart again.                                                            *)
(***************************************************************************)
EXTENDS Integers, Sequences, SequencesExt

(* The codec, on values that are sequences of characters.  Nothing escapes *)
(* a delimiter within a value.                                             *)
ElementSeparator == "*"
Terminator == "~"
LineBreaks == {"\r", "\n"}

SerializeSegment(segment) ==
    FoldLeft(LAMBDA text, v : text \o <<ElementSeparator>> \o v, segment.tag, segment.elements)
        \o <<Terminator>>

(* Every segment is terminated, one per line.                              *)
Serialize(segments) ==
    FlattenSeq([n \in DOMAIN segments |-> SerializeSegment(segments[n]) \o <<"\n">>])

(* A fault of split: empty pieces are dropped.                             *)
SplitDroppingEmpty(text, separator) ==
    SelectSeq(FoldLeft(LAMBDA pieces, c :
                          IF c = separator THEN Append(pieces, <<>>)
                          ELSE [pieces EXCEPT ![Len(pieces)] = Append(@, c)],
                       << <<>> >>, text),
              LAMBDA piece : piece # <<>>)

(* String.split: the pieces between the separators, empty ones too.        *)
Split(text, separator) ==
    FoldLeft(LAMBDA pieces, c :
                IF c = separator THEN Append(pieces, <<>>)
                ELSE [pieces EXCEPT ![Len(pieces)] = Append(@, c)],
             << <<>> >>, text)

ParseText(raw) ==
    LET Stripped(piece) == SelectSeq(piece, LAMBDA c : c \notin LineBreaks)
        pieces == [n \in DOMAIN Split(raw, Terminator) |-> Stripped(Split(raw, Terminator)[n])]
        filled == SelectSeq(pieces, LAMBDA p : p # <<>>)
    IN  [n \in DOMAIN filled |->
            LET fields == Split(filled[n], ElementSeparator)
            IN  [tag |-> Head(fields), elements |-> Tail(fields)]]

-------------------------------------------------------------------------------
(* Envelope segments: the fields that identify and count.  Sender,         *)
(* receiver, qualifiers, dates and versions are copied from configuration. *)
Body(item) == [tag |-> "body", item |-> item]
ISA(control) == [tag |-> "ISA", control |-> control]
GS(functionalId, control) == [tag |-> "GS", id |-> functionalId, control |-> control]
ST(code, control) == [tag |-> "ST", id |-> code, control |-> control]
SE(count, control) == [tag |-> "SE", count |-> count, control |-> control]
GE(count, control) == [tag |-> "GE", count |-> count, control |-> control]
IEA(count, control) == [tag |-> "IEA", count |-> count, control |-> control]

(* A fault of the trailer: SE01 counts the body only.                      *)
BuildInterchangeCountingBody(body, control, functionalId, code) ==
    <<ISA(control.isa13), GS(functionalId, control.gs06), ST(code, control.st02)>>
        \o [n \in DOMAIN body |-> Body(body[n])]
        \o <<SE(Len(body), control.st02), GE(1, control.gs06), IEA(1, control.isa13)>>

BuildInterchange(body, control, functionalId, code) ==
    <<ISA(control.isa13), GS(functionalId, control.gs06), ST(code, control.st02)>>
        \o [n \in DOMAIN body |-> Body(body[n])]
        \o <<SE(Len(body) + 2, control.st02), GE(1, control.gs06), IEA(1, control.isa13)>>

-------------------------------------------------------------------------------
(* One segment of the walk that separates a batch: `inSet` says where the  *)
(* open set is listed (a set opened outside any group is listed nowhere),  *)
(* and closing a group leaves its set open.                                *)
Nowhere == <<0, 0>>

OpenSet(walk, segment) ==
    LET set == [code |-> segment.id, control |-> segment.control, body |-> <<>>]
        last == Len(walk.groups)
    IN  IF walk.inGroup
        THEN [walk EXCEPT !.groups[last].sets = Append(@, set),
                          !.inSet = <<last, Len(walk.groups[last].sets) + 1>>]
        ELSE [walk EXCEPT !.inSet = Nowhere]

TakeBody(walk, segment) ==
    IF walk.inSet = Nowhere THEN walk
    ELSE [walk EXCEPT !.groups[walk.inSet[1]].sets[walk.inSet[2]].body = Append(@, segment.item)]

(* A fault of the walk: SE does not close the set.                         *)
WalkIgnoringSE(walk, segment) ==
    CASE segment.tag = "GS" ->
            [walk EXCEPT !.groups = Append(@, [functionalId |-> segment.id,
                                               control |-> segment.control, sets |-> <<>>]),
                         !.inGroup = TRUE]
      [] segment.tag = "GE" -> [walk EXCEPT !.inGroup = FALSE]
      [] segment.tag = "ST" -> OpenSet(walk, segment)
      [] segment.tag \in {"SE", "ISA", "IEA"} -> walk
      [] segment.tag = "body" -> TakeBody(walk, segment)

WalkSegment(walk, segment) ==
    CASE segment.tag = "GS" ->
            [walk EXCEPT !.groups = Append(@, [functionalId |-> segment.id,
                                               control |-> segment.control, sets |-> <<>>]),
                         !.inGroup = TRUE]
      [] segment.tag = "GE" -> [walk EXCEPT !.inGroup = FALSE]
      [] segment.tag = "ST" -> OpenSet(walk, segment)
      [] segment.tag = "SE" -> [walk EXCEPT !.inSet = Nowhere]
      [] segment.tag \in {"ISA", "IEA"} -> walk
      [] segment.tag = "body" -> TakeBody(walk, segment)

ParseGroups(segments) ==
    FoldLeft(WalkSegment, [groups |-> <<>>, inGroup |-> FALSE, inSet |-> Nowhere],
             segments).groups

(* parseInterchange: the first of each header, and all that is no envelope.*)
ParseInterchange(segments) ==
    LET First(tag) == SelectSeq(segments, LAMBDA s : s.tag = tag)
        Of(tag, field) == IF First(tag) = <<>> THEN <<>> ELSE <<Head(First(tag))[field]>>
        bodies == First("body")
    IN  [isa13 |-> Of("ISA", "control"), gs06 |-> Of("GS", "control"),
         st02 |-> Of("ST", "control"), functionalId |-> Of("GS", "id"),
         code |-> Of("ST", "id"), body |-> [n \in DOMAIN bodies |-> bodies[n].item]]
===============================================================================
