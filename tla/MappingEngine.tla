----------------------------- MODULE MappingEngine -----------------------------
(***************************************************************************)
(* The declarative maps of the mapping engine and what EmitService and     *)
(* IngestService make of them: a canonical document becomes the segments   *)
(* of a transaction set, and the segments a document again.                *)
(*                                                                         *)
(* A canonical value is an object, an array, a text, a number (in          *)
(* thousandths) or a date (its year: the rest is copied digit by digit);   *)
(* a value on the wire is a text, a numeral or the digits of a date, and   *)
(* carries its length.  Maps have the fields the JSON has: an optional     *)
(* field that is absent is not in the record's domain.                     *)
(***************************************************************************)
EXTENDS Integers, Sequences, SequencesExt, TLC

Has(r, field) == field \in DOMAIN r

Absent == [kind |-> "absent"]
Thrown == [kind |-> "thrown"]
Object(at) == [kind |-> "object", at |-> at]
Array(items) == [kind |-> "array", items |-> items]
Text(text, len) == [kind |-> "text", text |-> text, len |-> len]
Number(milli) == [kind |-> "number", milli |-> milli]
Date(year) == [kind |-> "date", year |-> year]
Blank == Text("", 0)
EmptyObject == Object([k \in {} |-> Absent])

-------------------------------------------------------------------------------
(* A path is its keys; what is not there is undefined at any depth.        *)
Child(v, key) ==
    IF v.kind = "object" /\ key \in DOMAIN v.at THEN v.at[key] ELSE Absent

ResolvePath(ctx, path) == FoldLeft(Child, ctx, path)

(* Write at a path, making the objects in between; a path that runs into a *)
(* value throws.  An array that a path indexes is an object with the index *)
(* as its key (no map also collects that array with `over`).               *)
RECURSIVE SetPath(_, _, _)
SetPath(target, path, value) ==
    IF target.kind # "object" THEN Thrown
    ELSE LET key == Head(path)
             child == IF Child(target, key) = Absent THEN EmptyObject
                      ELSE Child(target, key)
             written == IF Len(path) = 1 THEN value
                        ELSE SetPath(child, Tail(path), value)
         IN  IF written = Thrown THEN Thrown ELSE Object((key :> written) @@ target.at)

IsPresent(v) ==
    /\ v # Absent
    /\ v.kind = "text" => v # Blank
    /\ v.kind = "array" => v.items # <<>>

(* `when`: a path that must be present, or compared with a literal.        *)
EvalWhen(node, ctx) ==
    Has(node, "when") =>
        LET v == ResolvePath(ctx, node.when.path)
            same == IF v = Absent THEN node.when.literal = Blank
                    ELSE v = node.when.literal
        IN  CASE node.when.op = "present" -> IsPresent(v)
              [] node.when.op = "==" -> same
              [] node.when.op = "!=" -> ~same

-------------------------------------------------------------------------------
(* Numerals: fixed places, half away from zero.                            *)
Unit(places) == 10 ^ (3 - places)
Magnitude(milli) == IF milli < 0 THEN -milli ELSE milli
Rounded(milli, unit) ==
    LET r == ((Magnitude(milli) + unit \div 2) \div unit) * unit
    IN  IF milli < 0 THEN -r ELSE r

IntegerDigits(milli) ==
    CHOOSE k \in 1..9 : /\ Magnitude(milli) \div 1000 < 10 ^ k
                        /\ k = 1 \/ Magnitude(milli) \div 1000 >= 10 ^ (k - 1)
Numeral(milli, places) ==
    [kind |-> "numeral", milli |-> milli, places |-> places,
     len |-> IntegerDigits(milli) + (IF places = 0 THEN 0 ELSE places + 1)
               + (IF milli < 0 THEN 1 ELSE 0)]

ApplyDecimal(v, places) ==
    IF v.kind \in {"number", "numeral"}
    THEN Numeral(Rounded(v.milli, Unit(places)), places)
    ELSE Thrown

FormatDate(v, format) ==
    CASE v.kind # "date" -> Thrown
      [] v.kind = "date" /\ format = "CCYYMMDD" ->
            [kind |-> "ccyymmdd", year |-> v.year, len |-> 8]
      [] v.kind = "date" /\ format = "YYMMDD" ->
            [kind |-> "yymmdd", year |-> v.year % 100, len |-> 6]

(* String(raw) of a number has the decimals it needs.                      *)
Plain(v) ==
    IF v.kind = "number"
    THEN Numeral(v.milli, CHOOSE p \in 0..3 :
             /\ v.milli % Unit(p) = 0
             /\ \A q \in 0..3 : v.milli % Unit(q) = 0 => p <= q)
    ELSE v

(* The inverse of formatting: the century of a two-digit year is guessed.  *)
ParseX12Date(v, format) ==
    CASE format = "CCYYMMDD" /\ v.kind = "ccyymmdd" -> Date(v.year)
      [] format = "YYMMDD" /\ v.kind = "yymmdd" ->
            Date(IF v.year >= 70 THEN 1900 + v.year ELSE 2000 + v.year)
      [] OTHER -> Thrown

CoerceElement(v, el) ==
    CASE Has(el, "format") -> ParseX12Date(v, el.format)
      [] ~Has(el, "format") /\ Has(el, "decimal") ->
            IF v.kind = "numeral" THEN Number(v.milli) ELSE Thrown
      [] OTHER -> v

-------------------------------------------------------------------------------
(* Emit.  A node applies to each element of the array it runs over, or to  *)
(* the current context.                                                    *)
Contexts(node, ctx) ==
    LET over == ResolvePath(ctx, node.over)
        Included(item) == EvalWhen(node, item)
    IN  CASE Has(node, "over") ->
               IF over.kind = "array" THEN SelectSeq(over.items, Included) ELSE <<>>
          [] ~Has(node, "over") /\ EvalWhen(node, ctx) -> <<ctx>>
          [] OTHER -> <<>>

(* Where an element takes its value: the HL frame, a constant, the length  *)
(* of an array (which must be one) or a path.                              *)
Source(el, ctx, frame) ==
    CASE Has(el, "hl") -> IF frame[el.hl] = 0 THEN Absent ELSE Number(1000 * frame[el.hl])
      [] Has(el, "const") -> el.const
      [] Has(el, "count") -> LET counted == ResolvePath(ctx, el.count)
                             IN  IF counted.kind = "array"
                                 THEN Number(1000 * Len(counted.items)) ELSE Thrown
      [] Has(el, "path") -> ResolvePath(ctx, el.path)
      [] OTHER -> Absent

Defaulted(raw, el) ==
    IF raw \in {Absent, Blank} /\ Has(el, "default") /\ ~Has(el, "hl") THEN el.default ELSE raw

Written(value, el) ==
    CASE value \in {Absent, Blank} -> Blank
      [] value = Thrown -> Thrown
      [] OTHER -> CASE Has(el, "format") -> FormatDate(value, el.format)
                    [] ~Has(el, "format") /\ Has(el, "decimal") -> ApplyDecimal(value, el.decimal)
                    [] OTHER -> Plain(value)

ResolveElement(el, ctx, frame) == Written(Defaulted(Source(el, ctx, frame), el), el)

(* An empty element takes its qualifier with it; gaps are filled.          *)
Claim(slots, el, value) ==
    CASE value = Blank -> slots
      [] value # Blank /\ Has(el, "qualifier") ->
            (el.pos :> value) @@ (el.qualifier.pos :> el.qualifier.const) @@ slots
      [] OTHER -> (el.pos :> value) @@ slots

Filled(slots) ==
    [p \in 1..Max({0} \cup DOMAIN slots) |-> IF p \in DOMAIN slots THEN slots[p] ELSE Blank]

BuildSegment(node, ctx, frame) ==
    [tag |-> node.segment,
     elements |-> Filled(FoldLeft(LAMBDA slots, el : Claim(slots, el, ResolveElement(el, ctx, frame)),
                                  [p \in {} |-> Blank], node.elements))]

(* A fault of the hierarchy: the parent is the HL before.                  *)
FrameInSequence(n, frame) == [id |-> n + 1, parent |-> n]

(* Each iteration of an HL loop is a new frame under the current one.      *)
Frame(n, frame) == [id |-> n + 1, parent |-> frame.id]

RECURSIVE Walk(_, _, _, _)
Walk(nodes, ctx, frame, acc) ==
    LET Visit(node, a, c) ==
            IF Has(node, "loop")
            THEN LET id == a.n + (IF Has(node, "hl") THEN 1 ELSE 0)
                 IN  Walk(node.segments, c, IF Has(node, "hl") THEN Frame(a.n, frame) ELSE frame,
                          [a EXCEPT !.n = id])
            ELSE [a EXCEPT !.out = Append(@, BuildSegment(node, c, frame))]
        Node(a, node) ==
            FoldLeft(LAMBDA b, c : Visit(node, b, c), a, Contexts(node, ctx))
    IN  FoldLeft(Node, acc, nodes)

Throws(body) == \E n \in DOMAIN body : Thrown \in ToSet(body[n].elements)

Emit(doc, map) ==
    Walk(map.structure, doc, [id |-> 0, parent |-> 0], [out |-> <<>>, n |-> 0]).out

-------------------------------------------------------------------------------
(* Ingest.  A cursor consumes segments in map order; a repeated node       *)
(* collects its segments into an array.                                    *)
MatchOk(node, seg) ==
    Has(node, "match") => /\ node.match.pos \in DOMAIN seg.elements
                          /\ seg.elements[node.match.pos] = node.match.eq

Claims(node, segs, i) ==
    i <= Len(segs) /\ segs[i].tag = node.segment /\ MatchOk(node, segs[i])

ReadSegment(node, seg, target) ==
    LET Read(t, el) ==
            IF /\ Has(el, "path")
               /\ el.pos \in DOMAIN seg.elements
               /\ seg.elements[el.pos] # Blank
            THEN LET v == CoerceElement(seg.elements[el.pos], el)
                 IN  IF v = Thrown THEN Thrown ELSE SetPath(t, el.path, v)
            ELSE t
    IN  FoldLeft(Read, target, node.elements)

RECURSIVE LeadingTag(_)
LeadingTag(node) ==
    IF Has(node, "segment") THEN node.segment ELSE LeadingTag(Head(node.segments))

Collected(node, s, r) ==
    [i |-> r.i,
     target |-> CASE r.items = <<>> -> s.target
                  [] Thrown \in ToSet(r.items) -> Thrown
                  [] OTHER -> SetPath(s.target, node.over, Array(r.items))]

RECURSIVE Read(_, _, _), Iterate(_, _, _)
Read(nodes, segs, start) ==
    LET Node(s, node) ==
            CASE Has(node, "over") -> Collected(node, s, Iterate(node, segs, [i |-> s.i, items |-> <<>>]))
              [] ~Has(node, "over") /\ Has(node, "loop") -> Read(node.segments, segs, s)
              [] ~Has(node, "over") /\ Has(node, "segment") ->
                   IF Claims(node, segs, s.i)
                   THEN [i |-> s.i + 1, target |-> ReadSegment(node, segs[s.i], s.target)]
                   ELSE s
    IN  FoldLeft(Node, start, nodes)

(* The iterations of a repeated node: while its leading segment is next,   *)
(* and until one of them consumes nothing.                                 *)
Iterate(node, segs, r) ==
    LET item == IF Has(node, "loop")
                THEN Read(node.segments, segs, [i |-> r.i, target |-> EmptyObject])
                ELSE Read(<<[segment |-> node.segment, elements |-> node.elements]>>,
                          segs, [i |-> r.i, target |-> EmptyObject])
        next == IF Has(node, "loop")
                THEN r.i <= Len(segs) /\ segs[r.i].tag = LeadingTag(node)
                ELSE Claims(node, segs, r.i)
    IN  IF next /\ item.i > r.i
        THEN Iterate(node, segs, [i |-> item.i, items |-> Append(r.items, item.target)])
        ELSE r

(* A fault of ingest: only the segment that was not claimed is kept.       *)
IngestKeepingOne(segs, map) ==
    LET end == Read(map.structure, segs, [i |-> 1, target |-> EmptyObject])
    IN  [doc |-> end.target, unmapped |-> IF end.i > Len(segs) THEN <<>> ELSE <<segs[end.i]>>]

(* What no node claims is kept aside, from the first such segment on.      *)
Ingest(segs, map) ==
    LET end == Read(map.structure, segs, [i |-> 1, target |-> EmptyObject])
    IN  [doc |-> end.target, unmapped |-> SubSeq(segs, end.i, Len(segs))]

-------------------------------------------------------------------------------
(* A fault of the structural check: qualifiers claim no position.          *)
PositionsIgnoringQualifiers(node) == [n \in DOMAIN node.elements |-> node.elements[n].pos]

(* The positions that the elements of a segment and their qualifiers claim.*)
Positions(node) ==
    FlattenSeq([n \in DOMAIN node.elements |->
        IF Has(node.elements[n], "qualifier")
        THEN <<node.elements[n].pos, node.elements[n].qualifier.pos>>
        ELSE <<node.elements[n].pos>>])

(* The structural part of map validation: `match` on inbound maps only, no *)
(* position claimed twice, HL values inside an HL loop.                    *)
RECURSIVE WellFormed(_, _, _)
WellFormed(nodes, direction, insideHl) ==
    \A n \in DOMAIN nodes :
        LET node == nodes[n]
        IN  /\ direction = "outbound" => ~Has(node, "match")
            /\ IF Has(node, "loop")
               THEN WellFormed(node.segments, direction, insideHl \/ Has(node, "hl"))
               ELSE /\ IsInjective(Positions(node))
                    /\ \A e \in DOMAIN node.elements :
                          Has(node.elements[e], "hl") => insideHl

ValidMap(map) == WellFormed(map.structure, map.direction, FALSE)
===============================================================================
