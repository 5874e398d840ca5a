------------------------------- MODULE Conformance -------------------------------
(***************************************************************************)
(* The checks of a received document that decide what the partner is told: *)
(* ConformanceValidator (body against specification), FunctionalAckService *)
(* (the 997 made of its findings) and the correlation of a response with   *)
(* the order it answers.  Segments and wire values are those of            *)
(* MappingEngine.                                                          *)
(***************************************************************************)
EXTENDS MappingEngine

Issue(tag, position, element, code, bad) ==
    [tag |-> tag, position |-> position, element |-> element, code |-> code, bad |-> bad]

(* What a value is made of: -?digits(.digits)?, or digits only.            *)
IsNumeric(v) == v.kind # "text"
IsDigits(v) == \/ v.kind \in {"ccyymmdd", "yymmdd"}
               \/ v.kind = "numeral" /\ v.places = 0 /\ v.milli >= 0

ElementAt(seg, pos) == IF pos \in DOMAIN seg.elements THEN seg.elements[pos] ELSE Blank

If(condition, s) == IF condition THEN <<s>> ELSE <<>>

(* The findings about one element, in the order they are looked for.       *)
CheckElement(seg, position, el) ==
    LET v == ElementAt(seg, el.pos)
        Bad(code) == Issue(seg.tag, position, el.pos, code, v)
    IN  IF v = Blank
        THEN If(el.requirement = "mandatory", Issue(seg.tag, position, el.pos, "1", Absent))
        ELSE    If(Has(el, "min") /\ v.len < el.min, Bad("5"))
             \o If(Has(el, "max") /\ v.len > el.max, Bad("4"))
             \o If(Has(el, "type") /\ el.type \in {"N", "R"} /\ ~IsNumeric(v), Bad("6"))
             \o If(Has(el, "type") /\ el.type = "DT" /\ ~IsDigits(v), Bad("8"))
             \o If(Has(el, "type") /\ el.type = "TM" /\ ~IsDigits(v), Bad("9"))
             \o If(Has(el, "codes") /\ v \notin el.codes, Bad("7"))

Occurrences(segs, tag) == Cardinality({n \in DOMAIN segs : segs[n].tag = tag})

(* Segment by segment as received, then the rules about presence and use.  *)
Validate(segs, spec) ==
    LET Rule(tag) == SelectSeq(spec, LAMBDA s : s.tag = tag)
        OfSegment(n) ==
            IF Rule(segs[n].tag) = <<>> THEN <<Issue(segs[n].tag, n, 0, "2", Absent)>>
            ELSE LET rule == Last(Rule(segs[n].tag))
                 IN  FlattenSeq([e \in DOMAIN rule.elements |->
                                    CheckElement(segs[n], n, rule.elements[e])])
        OfRule(r) ==
            LET c == Occurrences(segs, r.tag)
            IN     If(r.requirement = "mandatory" /\ c < 1, Issue(r.tag, 0, 0, "3", Absent))
                \o If(Has(r, "maxUse") /\ c > r.maxUse, Issue(r.tag, 0, 0, "5", Absent))
    IN  FlattenSeq([n \in DOMAIN segs |-> OfSegment(n)])
            \o FlattenSeq([r \in DOMAIN spec |-> OfRule(spec[r])])

-------------------------------------------------------------------------------
(* The 997.  The numbers it carries are kept as naturals.                  *)
Seg(tag, elements) == [tag |-> tag, elements |-> elements]

(* A fault of the detail: the notes of a tag are those of its first segment.*)
DetailByTag(issues) ==
    FlattenSeq([n \in DOMAIN issues |->
        LET first == CHOOSE m \in 1..n : /\ issues[m].tag = issues[n].tag
                                         /\ \A k \in 1..(m - 1) : issues[k].tag # issues[n].tag
            Head3(code) == Seg("AK3", <<issues[n].tag, issues[first].position, Blank, code>>)
        IN  IF issues[n].element = 0 THEN <<Head3(issues[n].code)>>
            ELSE <<Head3("8"),
                   Seg("AK4", <<issues[n].element, Blank, issues[n].code, issues[n].bad>>)>>])

(* The notes of a set: grouped by segment occurrence in the order first    *)
(* met, those about the segment before those about its elements.           *)
DetailSegments(issues) ==
    LET Key(n) == <<issues[n].position, issues[n].tag>>
        firsts == SelectSeq([n \in DOMAIN issues |-> n],
                            LAMBDA n : \A m \in 1..(n - 1) : Key(m) # Key(n))
        Notes(n) ==
            LET group == SelectSeq(issues, LAMBDA i : <<i.position, i.tag>> = Key(n))
                onSegment == SelectSeq(group, LAMBDA i : i.element = 0)
                onElements == SelectSeq(group, LAMBDA i : i.element # 0)
                Head3(code) == Seg("AK3", <<issues[n].tag, issues[n].position, Blank, code>>)
            IN  [k \in DOMAIN onSegment |-> Head3(onSegment[k].code)]
                \o If(onElements # <<>>, Head3("8"))
                \o [k \in DOMAIN onElements |->
                      Seg("AK4", <<onElements[k].element, Blank, onElements[k].code>>
                                 \o If(onElements[k].bad # Absent, onElements[k].bad))]
    IN  FlattenSeq([k \in DOMAIN firsts |-> Notes(firsts[k])])

GroupAckCode(received, accepted) ==
    CASE received = 0 \/ accepted = 0 -> "R"
      [] received # 0 /\ accepted = received -> "A"
      [] OTHER -> "P"

(* What cannot be named cannot be acknowledged.                            *)
Nameable(group) ==
    /\ group.functionalId # Blank /\ group.control # Blank
    /\ \A n \in DOMAIN group.sets : group.sets[n].code # Blank /\ group.sets[n].control # Blank

AckBody(group, verdicts) ==
    LET accepted == Cardinality({n \in DOMAIN verdicts : verdicts[n] = <<>>})
        OfSet(n) ==
            LET detail == DetailSegments(verdicts[n])
            IN  <<Seg("AK2", <<group.sets[n].code, group.sets[n].control>>)>>
                \o detail
                \o <<Seg("AK5", <<IF verdicts[n] = <<>> THEN "A" ELSE "R">>
                                 \o If(detail # <<>>, "5"))>>
    IN  <<Seg("AK1", <<group.functionalId, group.control>>)>>
        \o FlattenSeq([n \in DOMAIN group.sets |-> OfSet(n)])
        \o <<Seg("AK9", <<GroupAckCode(Len(group.sets), accepted),
                          Len(group.sets), Len(group.sets), accepted>>)>>

-------------------------------------------------------------------------------
(* Correlation: lines are [id, quantity, price], an id may be missing.     *)
ProductIds(lines) == {lines[n].id : n \in DOMAIN lines} \ {Absent}
Committed(lines, id) ==
    FoldLeft(LAMBDA sum, l : IF l.id = id THEN sum + l.quantity ELSE sum, 0, lines)

(* A fault of the line check: each line alone is held against the order.   *)
CorrelateLinesOneByOne(lines, order) ==
    {[kind |-> "unknown-line", ref |-> id] :
        id \in ProductIds(lines) \ ProductIds(order.lines)}
    \cup {[kind |-> "qty-exceeds", ref |-> lines[n].id] :
            n \in {m \in DOMAIN lines : /\ lines[m].id \in ProductIds(order.lines)
                                        /\ lines[m].quantity > Committed(order.lines, lines[m].id)}}

CorrelateLines(lines, order) ==
    {[kind |-> "unknown-line", ref |-> id] :
        id \in ProductIds(lines) \ ProductIds(order.lines)}
    \cup {[kind |-> "qty-exceeds", ref |-> id] :
            id \in {i \in ProductIds(lines) \cap ProductIds(order.lines) :
                       Committed(lines, i) > Committed(order.lines, i)}}

PoMismatch(po) == {[kind |-> "po-mismatch", ref |-> po]}

CorrelateAckToOrder(ack, order) ==
    IF ack.po # order.po THEN PoMismatch(ack.po) ELSE CorrelateLines(ack.lines, order)

(* A shipment carries several orders: the first with the order's number.   *)
CorrelateShipToOrder(ship, order) ==
    LET same == SelectSeq(ship.orders, LAMBDA o : o.po = order.po)
    IN  IF same = <<>>
        THEN PoMismatch(IF ship.orders = <<>> THEN Absent ELSE Head(ship.orders).po)
        ELSE CorrelateLines(Head(same).lines, order)

LineSum(lines) == FoldLeft(LAMBDA sum, l : sum + l.quantity * l.price, 0, lines)

CorrelateInvoiceToOrder(invoice, order) ==
    IF invoice.po # order.po THEN PoMismatch(invoice.po)
    ELSE CorrelateLines(invoice.lines, order)
         \cup IF invoice.total # Absent /\ invoice.total # [sum |-> LineSum(invoice.lines)]
              THEN {[kind |-> "total-mismatch", ref |-> invoice.total]} ELSE {}

CorrelateToOrder(docType, response, order) ==
    CASE docType = "855" -> CorrelateAckToOrder(response, order)
      [] docType = "856" -> CorrelateShipToOrder(response, order)
      [] docType = "810" -> CorrelateInvoiceToOrder(response, order)

(* A 997 answers the group we sent: its control number and functional id.  *)
Correlate997ToGroup(ack, sent) ==
       If(ack.control # sent.control, [kind |-> "control-mismatch", ref |-> ack.control])
    \o If(ack.functionalId # sent.functionalId,
          [kind |-> "control-mismatch", ref |-> ack.functionalId])
===============================================================================
