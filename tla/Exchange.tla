--------------------------------- MODULE Exchange ---------------------------------
(***************************************************************************)
(* Documents exchanged with a partner under one trading relationship.      *)
(* Outbound, the documents of a payload are translated by the maps of the  *)
(* relationship and sent side by side (Emissions).  Inbound, a batch is    *)
(* separated, each set translated and validated, each group answered with  *)
(* a 997.  Responses are correlated with the order they answer.            *)
(***************************************************************************)
EXTENDS Conformance, HouseFormat, X12Envelope, Emissions

CONSTANTS
    Documents,   \* sequence of RelationshipDocument with maps and specs resolved
    Streams,     \* interchanges a partner may send
    Responses,   \* [docType, response, order] to correlate
    Texts,       \* segments, their values sequences of characters, to write
    HlLevels     \* the levels of a hierarchy, the outermost first

VARIABLE
    inspected    \* the stream, response or text at hand and what became of it

exchangeVars == <<emissions, counted, inspected>>

-------------------------------------------------------------------------------
(* findDoc: the first enabled configuration of the type and direction.     *)
FindDoc(docType, direction) ==
    SelectSeq(Documents, LAMBDA d : /\ d.docType = docType
                                    /\ d.direction = direction
                                    /\ d.enabled)

(* MapRegistry: a map that validation refuses is never there to get.       *)
InRegistry(rd) == ValidMap(rd.map)

ValidateBody(body, rd) == IF Has(rd, "spec") THEN Validate(body, rd.spec) ELSE <<>>

Nothing == [kind |-> "nothing"]

(* What emitDocument makes of a document before its first await, and when  *)
(* it throws: nothing configured, no such map in use, a value missing.     *)
EmittedBody(job) ==
    LET found == FindDoc(job.docType, "outbound")
    IN  IF found = <<>> THEN <<>> ELSE Emit(job.doc, Head(found).map)
EmitThrows(job) ==
    LET found == FindDoc(job.docType, "outbound")
    IN  found = <<>> \/ ~InRegistry(Head(found)) \/ Throws(EmittedBody(job))

ASSUME EmissionsAssumption ==
    \A payload \in Payloads : \A job \in ToSet(payload) :
        Translation(job) = EmittedBody(job) /\ Rejected(job) = EmitThrows(job)

ExchangeInit == EmissionInit /\ inspected = Nothing

(* The interchange that emission e has sent.                               *)
Interchange(e) ==
    LET rd == Head(FindDoc(emissions[e].job.docType, "outbound"))
        id == IF Has(rd.map, "functionalId") THEN rd.map.functionalId ELSE Blank
    IN  BuildInterchange(emissions[e].body, ControlOf(e), id, rd.docType)

-------------------------------------------------------------------------------
(* A partner's interchange: every set of every group translated and        *)
(* validated, the group answered, or the run thrown out of.                *)
IngestBody(set) ==
    LET rd == Head(FindDoc(set.code, "inbound"))
    IN  [translated |-> Ingest(set.body, rd.map), issues |-> ValidateBody(set.body, rd)]

Ingestible(set) ==
    /\ FindDoc(set.code, "inbound") # <<>>
    /\ InRegistry(Head(FindDoc(set.code, "inbound")))
    /\ IngestBody(set).translated.doc # Thrown

Answered(group) ==
    LET results == [n \in DOMAIN group.sets |-> IngestBody(group.sets[n])]
    IN  [results |-> results,
         ack |-> AckBody(group, [n \in DOMAIN results |-> results[n].issues])]

ReceiveStream(stream) ==
    LET groups == ParseGroups(stream)
        answers == \A g \in DOMAIN groups :
                      /\ Nameable(groups[g])
                      /\ \A n \in DOMAIN groups[g].sets : Ingestible(groups[g].sets[n])
    IN  /\ inspected = Nothing
        /\ inspected' = [kind |-> "stream", stream |-> stream, groups |-> groups,
                         answers |-> IF answers
                                     THEN [g \in DOMAIN groups |-> Answered(groups[g])]
                                     ELSE <<>>]
        /\ UNCHANGED emissionVars

ReceiptNext == \E stream \in Streams : ReceiveStream(stream)

(* A response uploaded against an order.                                   *)
Correlate(c) ==
    /\ inspected = Nothing
    /\ inspected' = [kind |-> "response", docType |-> c.docType, response |-> c.response,
                     order |-> c.order,
                     issues |-> CorrelateToOrder(c.docType, c.response, c.order)]
    /\ UNCHANGED emissionVars

CorrelationNext == \E c \in Responses : Correlate(c)

WriteText(segments) ==
    /\ inspected = Nothing
    /\ inspected' = [kind |-> "text", segments |-> segments, raw |-> Serialize(segments)]
    /\ UNCHANGED emissionVars

CodecNext == \E segments \in Texts : WriteText(segments)

-------------------------------------------------------------------------------
MapOf(e, direction) == Head(FindDoc(emissions[e].job.docType, direction)).map

RECURSIVE Leaves(_)
Leaves(nodes) ==
    UNION {IF Has(nodes[n], "loop") THEN Leaves(nodes[n].segments) ELSE {nodes[n]} :
              n \in DOMAIN nodes}

(* What is left of a value a after the wire: a number to its places, an    *)
(* empty value nothing (or its default), anything else as it was.          *)
KeptElement(el, a, b) ==
    Has(el, "path") =>
        LET from == ResolvePath(a, el.path)
            to == ResolvePath(b, el.path)
        IN  CASE from \in {Absent, Blank} -> Has(el, "default") \/ to = Absent
              [] from.kind = "number" ->
                    IF Has(el, "decimal")
                    THEN to.kind = "number"
                         /\ 2 * Magnitude(to.milli - from.milli) <= Unit(el.decimal)
                    ELSE to = Plain(from)
              [] from.kind = "date" /\ el.format = "YYMMDD" /\ from.year \notin 1970..2069 ->
                    to # from /\ to.year % 100 = from.year % 100
              [] OTHER -> to = from

RECURSIVE Kept(_, _, _)
Kept(nodes, a, b) ==
    \A n \in DOMAIN nodes :
        LET node == nodes[n]
            inner == IF Has(node, "loop") THEN node.segments
                     ELSE <<[segment |-> node.segment, elements |-> node.elements]>>
            from == Contexts(node, a)
            to == ResolvePath(b, node.over)
        IN  CASE Has(node, "over") ->
                   IF from = <<>> THEN to = Absent
                   ELSE /\ to.kind = "array" /\ Len(to.items) = Len(from)
                        /\ \A k \in DOMAIN from : Kept(inner, from[k], to.items[k])
              [] ~Has(node, "over") /\ Has(node, "loop") -> Kept(inner, a, b)
              [] OTHER -> from # <<>> => \A e \in DOMAIN node.elements :
                                            KeptElement(node.elements[e], a, b)

(* A partner reads in the sent document what the customer wrote: with the  *)
(* inbound map of its type nothing is left unclaimed, each mapped value is *)
(* kept (to its decimal places and within the century the format can tell),*)
(* and sending what was read says the same again, unless an array that the *)
(* map counts was empty: it is read as no array at all.  That the maps     *)
(* passed validation is what it rests on.                                  *)
SentDocumentReadsBack ==
    \A e \in Sent :
        LET out == MapOf(e, "outbound")
            doc == emissions[e].job.doc
            back == Ingest(emissions[e].body, MapOf(e, "inbound"))
            again == Emit(back.doc, out)
            countsNothing == \E node \in Leaves(out.structure) : \E n \in DOMAIN node.elements :
                                /\ Has(node.elements[n], "count")
                                /\ ResolvePath(doc, node.elements[n].count) = Array(<<>>)
        IN  InRegistry(Head(FindDoc(emissions[e].job.docType, "inbound"))) =>
                /\ back.unmapped = <<>> /\ back.doc # Thrown
                /\ Kept(out.structure, doc, back.doc)
                /\ IF countsNothing THEN Throws(again) ELSE again = emissions[e].body

(* The maps and the specifications of the house format agree: what is found*)
(* wrong with a document we send is a value the customer's document gave or*)
(* left out, never a constant, a qualifier, a count or a segment of the    *)
(* map ("matches what the sample map emits").                              *)
FindingsAreTheCustomers ==
    \A e \in Sent :
        LET job == emissions[e].job
            issues == Validate(emissions[e].body, HouseSpecs[job.docType.text])
            nodes == Leaves(MapOf(e, "outbound").structure)
        IN  job.docType.text \in DOMAIN HouseSpecs => \A n \in DOMAIN issues :
                IF issues[n].element = 0
                THEN /\ issues[n].code = "3"
                     /\ \E node \in nodes : node.segment = issues[n].tag
                ELSE \E node \in nodes : \E k \in DOMAIN node.elements :
                        /\ node.segment = issues[n].tag
                        /\ node.elements[k].pos = issues[n].element
                        /\ Has(node.elements[k], "path")

(* What acknowledges an order in full, and what invoices it.               *)
Tagged(body, tag) == SelectSeq(body, LAMBDA s : s.tag = tag)
Acknowledged(body) ==
    LET beg == body[1].elements
        Line(s) == <<s, Seg("ACK", <<Text("IA", 2), s.elements[2], s.elements[3]>>)>>
        lines == Tagged(body, "PO1")
    IN  <<Seg("BAK", <<Text("00", 2), Text("AC", 2), beg[3], beg[5]>>)>>
        \o Tagged(body, "N1")
        \o FlattenSeq([n \in DOMAIN lines |-> Line(lines[n])])
        \o Tagged(body, "CTT")
Invoiced(body) ==
    LET beg == body[1].elements
        lines == Tagged(body, "PO1")
    IN  <<Seg("BIG", <<beg[5], beg[3], Blank, beg[3]>>)>>
        \o Tagged(body, "N1")
        \o [n \in DOMAIN lines |-> Seg("IT1", lines[n].elements)]
        \o <<Seg("TDS", <<Numeral(1000, 2)>>)>>
        \o Tagged(body, "CTT")

(* An order that conforms to the house format can be answered within it:   *)
(* its full acknowledgment conforms, and so does its invoice as long as    *)
(* each quantity has the ten places an invoice leaves it.                  *)
ConformingOrderCanBeAnswered ==
    \A e \in Sent :
        LET body == emissions[e].body
            short == \A n \in DOMAIN body :
                        body[n].tag = "PO1" => body[n].elements[2].len <= 10
        IN  /\ emissions[e].job.docType.text = "850"
            /\ Validate(body, HouseSpecs["850"]) = <<>>
            => /\ Validate(Acknowledged(body), HouseSpecs["855"]) = <<>>
               /\ short => Validate(Invoiced(body), HouseSpecs["810"]) = <<>>

(* The hierarchy of a ship notice is the one of its document: HL numbers   *)
(* run without a gap, and each names the last HL one level up as parent.   *)
HierarchyIsATree ==
    \A e \in Sent :
        LET hls == SelectSeq(emissions[e].body, LAMBDA s : s.tag = "HL")
            Depth(n) == CHOOSE d \in DOMAIN HlLevels : HlLevels[d] = hls[n].elements[3]
            Above(n) == Max({0} \cup {m \in 1..(n - 1) : Depth(m) = Depth(n) - 1})
        IN  \A n \in DOMAIN hls :
                /\ hls[n].elements[1] = Numeral(1000 * n, 0)
                /\ hls[n].elements[2] = IF Depth(n) = 1 THEN Blank
                                        ELSE Numeral(1000 * Above(n), 0)

Between(stream, first, last) ==
    Cardinality({n \in DOMAIN stream : first <= n /\ n <= last})
IndexOf(stream, tag) == CHOOSE n \in DOMAIN stream : stream[n].tag = tag

(* An interchange says of itself what its receiver counts and reads: the   *)
(* trailers' counts and echoed control numbers, and the body whole, whether*)
(* it is taken apart as a batch or as a single transaction set.            *)
InterchangeTellsTheTruth ==
    \A e \in Sent :
        LET s == Interchange(e)
            At(tag) == s[IndexOf(s, tag)]
            groups == ParseGroups(s)
            one == ParseInterchange(s)
        IN  /\ At("SE").count = Between(s, IndexOf(s, "ST"), IndexOf(s, "SE"))
            /\ At("SE").control = At("ST").control
            /\ At("GE") = GE(Len(groups[1].sets), At("GS").control)
            /\ At("IEA") = IEA(Len(groups), At("ISA").control)
            /\ groups = <<[functionalId |-> At("GS").id, control |-> At("GS").control,
                           sets |-> <<[code |-> At("ST").id, control |-> At("ST").control,
                                       body |-> emissions[e].body]>>]>>
            /\ one.body = emissions[e].body /\ one.code = <<At("ST").id>>

(* A 997 answers one interchange: it correlates with the group that it     *)
(* acknowledges and with no other group that was sent.                     *)
AckFindsItsGroup ==
    \A e, f \in Sent :
        LET ack == AckBody(ParseGroups(Interchange(e))[1], <<<<>>>>)[1].elements
            group == ParseGroups(Interchange(f))[1]
        IN  (Correlate997ToGroup([functionalId |-> ack[1], control |-> ack[2]], group) = <<>>)
                <=> e = f

-------------------------------------------------------------------------------
(* The reference for a batch: a set belongs to the group whose GS comes    *)
(* last before its ST with no GE between, a body segment to the set whose  *)
(* ST comes last before it with no SE between.                             *)
LastOf(stream, n, tags) == Max({0} \cup {m \in 1..(n - 1) : stream[m].tag \in tags})
Indices(stream, tag) ==
    SelectSeq([n \in DOMAIN stream |-> n], LAMBDA n : stream[n].tag = tag)
BodyOf(stream, st) ==
    LET own == SelectSeq(Indices(stream, "body"),
                         LAMBDA n : LastOf(stream, n, {"ST", "SE"}) = st)
    IN  [k \in DOMAIN own |-> stream[own[k]].item]
SetsOf(stream, gs) ==
    LET own == SelectSeq(Indices(stream, "ST"),
                         LAMBDA n : LastOf(stream, n, {"GS", "GE"}) = gs)
    IN  [k \in DOMAIN own |-> [code |-> stream[own[k]].id, control |-> stream[own[k]].control,
                                body |-> BodyOf(stream, own[k])]]

(* A batch is separated as its headers and trailers say, also when some of *)
(* them are missing or out of place.                                       *)
BatchSeparatedByItsEnvelope ==
    inspected.kind = "stream" =>
        LET stream == inspected.stream
            headers == Indices(stream, "GS")
        IN  inspected.groups =
                [g \in DOMAIN headers |->
                    [functionalId |-> stream[headers[g]].id,
                     control |-> stream[headers[g]].control,
                     sets |-> SetsOf(stream, headers[g])]]

(* What a body must be under a specification, stated as a condition.       *)
ElementConforms(v, el) ==
    IF v = Blank THEN el.requirement # "mandatory"
    ELSE /\ Has(el, "min") => v.len >= el.min
         /\ Has(el, "max") => v.len <= el.max
         /\ Has(el, "codes") => v \in el.codes
         /\ Has(el, "type") /\ el.type \in {"N", "R"} => IsNumeric(v)
         /\ Has(el, "type") /\ el.type \in {"DT", "TM"} => IsDigits(v)
Conforms(body, spec) ==
    /\ \A n \in DOMAIN body : \E r \in DOMAIN spec : spec[r].tag = body[n].tag
    /\ \A n \in DOMAIN body, r \in DOMAIN spec : spec[r].tag = body[n].tag =>
          \A e \in DOMAIN spec[r].elements :
              ElementConforms(ElementAt(body[n], spec[r].elements[e].pos), spec[r].elements[e])
    /\ \A r \in DOMAIN spec :
          LET uses == {n \in DOMAIN body : body[n].tag = spec[r].tag}
          IN  /\ spec[r].requirement = "mandatory" => uses # {}
              /\ Has(spec[r], "maxUse") => Cardinality(uses) <= spec[r].maxUse

(* What a partner reads from the notes of a 997: each element note belongs *)
(* to the segment note before it, and each note to the set named before.   *)
Notes(ack) ==
    LET SetNo(n) == Cardinality({m \in 1..n : ack[m].tag = "AK2"})
        note == {n \in DOMAIN ack : \/ ack[n].tag = "AK4"
                                    \/ ack[n].tag = "AK3" /\ ack[n].elements[4] # "8"}
        Header(n) == ack[Max({m \in 1..n : ack[m].tag = "AK3"})].elements
    IN  {<<SetNo(n), Header(n)[1], Header(n)[2],
           IF ack[n].tag = "AK4" THEN <<ack[n].elements[1], ack[n].elements[3]>>
           ELSE <<0, ack[n].elements[4]>>>> : n \in note}

(* A 997 can be read back: its verdict on a set is whether the set meets   *)
(* its specification, and its notes are all of the findings, each with the *)
(* segment and element it is about; the group's code sums up the sets.     *)
(* Whether the segments of a set are counted from the one after ST, as the *)
(* code does, or from ST, as functional-ack.service.ts:13 says, is left    *)
(* open; it is the same for all of them, and what no one segment shows,    *)
(* that one is absent or used too often, is at 0.                          *)
AckTellsTheFindings ==
    inspected.kind = "stream" => \E ahead \in {0, 1} : \A g \in DOMAIN inspected.answers :
        LET answer == inspected.answers[g]
            sets == inspected.groups[g].sets
            codes == SelectSeq(answer.ack, LAMBDA s : s.tag = "AK5")
            found == {<<n, i>> \in (DOMAIN sets) \X (1..20) : i \in DOMAIN answer.results[n].issues}
            Spec(n) == Head(FindDoc(sets[n].code, "inbound"))
            Good(n) == Has(Spec(n), "spec") => Conforms(sets[n].body, Spec(n).spec)
            good == {n \in DOMAIN sets : Good(n)}
            Place(issue) == IF issue.position = 0 THEN 0 ELSE issue.position + ahead
        IN  /\ Len(codes) = Len(sets)
            /\ \A n \in DOMAIN sets : (codes[n].elements[1] = "A") <=> Good(n)
            /\ Notes(answer.ack) =
                  {LET issue == answer.results[f[1]].issues[f[2]]
                   IN  <<f[1], issue.tag, Place(issue), <<issue.element, issue.code>>>> :
                      f \in found}
            /\ \A f \in found :
                  LET issue == answer.results[f[1]].issues[f[2]]
                      body == sets[f[1]].body
                  IN  issue.position # 0 => body[issue.position].tag = issue.tag
            /\ Last(answer.ack).elements =
                  <<CASE good = {} -> "R"
                      [] good # {} /\ good = DOMAIN sets -> "A"
                      [] OTHER -> "P", Len(sets), Len(sets), Cardinality(good)>>

(* No segment of a set is lost: what the map does not claim is kept from   *)
(* the first such segment on, and the document says what the segments      *)
(* before it say.                                                          *)
UnclaimedIsKept ==
    inspected.kind = "stream" => \A g \in DOMAIN inspected.answers :
        \A n \in DOMAIN inspected.answers[g].results :
            LET set == inspected.groups[g].sets[n]
                map == Head(FindDoc(set.code, "inbound")).map
                read == inspected.answers[g].results[n].translated
                claimed == SubSeq(set.body, 1, Len(set.body) - Len(read.unmapped))
            IN  /\ set.body = claimed \o read.unmapped
                /\ Ingest(claimed, map) = [doc |-> read.doc, unmapped |-> <<>>]

(* A response corresponds to its order: each unit it commits can be given  *)
(* a unit of the same product that was ordered, none twice.                *)
Units(lines) == {<<n, k>> \in (DOMAIN lines) \X (1..4) :
                    lines[n].id # Absent /\ k <= lines[n].quantity}
Covered(lines, order) ==
    /\ ProductIds(lines) \subseteq ProductIds(order.lines)
    /\ \E unit \in [Units(lines) -> Units(order.lines)] :
          /\ IsInjective(unit)
          /\ \A u \in Units(lines) : order.lines[unit[u][1]].id = lines[u[1]].id

(* Correlation finds nothing exactly when the response is of the order's   *)
(* number, its lines are covered however they are split, and an invoice's  *)
(* total is the sum of its lines.                                          *)
CorrelationFindsOverCommitment ==
    inspected.kind = "response" =>
        LET r == inspected.response
            order == inspected.order
            shipped == SelectSeq(r.orders, LAMBDA o : o.po = order.po)
        IN  inspected.issues = {} <=>
                CASE inspected.docType = "856" ->
                       shipped # <<>> /\ Covered(Head(shipped).lines, order)
                  [] inspected.docType = "855" -> r.po = order.po /\ Covered(r.lines, order)
                  [] inspected.docType = "810" ->
                       /\ r.po = order.po
                       /\ Covered(r.lines, order)
                       /\ r.total \in {Absent, [sum |-> LineSum(r.lines)]}

(* What is written is read back unless a value holds a delimiter or a line *)
(* break, and then it never is: nothing is escaped.                        *)
CleanTextReadsBack ==
    inspected.kind = "text" =>
        (ParseText(inspected.raw) = inspected.segments <=>
            \A n \in DOMAIN inspected.segments :
                \A v \in DOMAIN inspected.segments[n].elements :
                    ToSet(inspected.segments[n].elements[v])
                        \cap ({ElementSeparator, Terminator} \cup LineBreaks) = {})

-------------------------------------------------------------------------------
(* What is sent says what the customer wrote, in all its parts: read back  *)
(* by the maps of its type, and in the hierarchy of a ship notice.         *)
SentDocumentTellsAll == SentDocumentReadsBack /\ HierarchyIsATree

(* Maps and specifications of the house format serve one another: in what  *)
(* we send, and in what can be said to an order that conforms.             *)
HouseFormatServes == FindingsAreTheCustomers /\ ConformingOrderCanBeAnswered

(* The wire says back what was put on it: values to segments, segments to  *)
(* sets and groups, an interchange to the one set that was sent with it,   *)
(* a 997 to the one group that it answers.                                 *)
WireReadsBack ==
    /\ InterchangeTellsTheTruth /\ AckFindsItsGroup
    /\ BatchSeparatedByItsEnvelope /\ CleanTextReadsBack

(* Nothing a partner sends is lost between its body and its 997: it is read*)
(* or kept aside, and judged, finding by finding.                          *)
SetIsAccountedFor == AckTellsTheFindings /\ UnclaimedIsKept
==================================================================================
