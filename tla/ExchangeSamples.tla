---------------------------- MODULE ExchangeSamples ----------------------------
(***************************************************************************)
(* The maps and documents of the fixtures, in the terms of MappingEngine,  *)
(* and the inputs that Exchange is checked with.                           *)
(***************************************************************************)
EXTENDS HouseFormat, X12Envelope

Code2(c) == Text(c, 2)
Word(w) == Text(w, 5)
Type(t) == Text(t, 3)
Digits(n) == Numeral(1000 * n, 0)
Nested(key, v) == Object(key :> v)

(* Elements of a map.                                                      *)
AtPath(pos, path) == [pos |-> pos, path |-> path]
AtConst(pos, c) == [pos |-> pos, const |-> c]
AtDate(pos, path, format) == [pos |-> pos, path |-> path, format |-> format]
AtNumber(pos, path, places) == [pos |-> pos, path |-> path, decimal |-> places]
AtCount(pos, path) == [pos |-> pos, count |-> path]
AtHl(pos, what) == [pos |-> pos, hl |-> what]
ProductId(pos) == [pos |-> pos, path |-> <<"ids", "0", "value">>,
                   qualifier |-> [pos |-> pos - 1, const |-> Code2("UP")]]

Node(tag, elements) == [segment |-> tag, elements |-> elements]
Loop(name, over, nodes) == [loop |-> name, over |-> over, segments |-> nodes]
Level(name, nodes) == [loop |-> name, hl |-> name, segments |-> nodes]
LevelOver(name, over, nodes) == [loop |-> name, hl |-> name, over |-> over, segments |-> nodes]

Quantity(pos) == AtNumber(pos, <<"quantity", "value">>, 0)
UomAt(pos) == AtPath(pos, <<"quantity", "uom">>)
Parties == Loop("N1", <<"parties">>,
    <<Node("N1", <<AtPath(1, <<"role">>), AtPath(2, <<"address", "name">>)>>)>>)
LineNode(tag) ==
    Node(tag, <<AtPath(1, <<"lineNumber">>), Quantity(2), UomAt(3),
                AtNumber(4, <<"unitPrice", "amount">>, 2), ProductId(7)>>)
CountOf(path) == Node("CTT", <<AtCount(1, path)>>)
LinNode == Node("LIN", <<AtPath(1, <<"lineNumber">>), AtConst(2, Code2("UP")),
                         AtPath(3, <<"ids", "0", "value">>)>>)

Structure850(format) == <<
    Node("BEG", <<AtConst(1, Code2("00")), AtConst(2, Code2("SA")), AtPath(3, <<"poNumber">>),
                  AtDate(5, <<"poDate">>, format)>>),
    Parties,
    Loop("PO1", <<"lineItems">>, <<LineNode("PO1")>>),
    CountOf(<<"lineItems">>)>>
Structure810 == <<
    Node("BIG", <<AtDate(1, <<"invoiceDate">>, "CCYYMMDD"), AtPath(2, <<"invoiceNumber">>),
                  AtPath(4, <<"poNumber">>)>>),
    Parties,
    Loop("IT1", <<"lineItems">>, <<LineNode("IT1")>>),
    Node("TDS", <<AtNumber(1, <<"totalAmount">>, 2)>>),
    CountOf(<<"lineItems">>)>>
Structure855 == <<
    Node("BAK", <<AtConst(1, Code2("00")), AtPath(2, <<"ackType">>), AtPath(3, <<"poNumber">>),
                  AtDate(4, <<"ackDate">>, "CCYYMMDD")>>),
    Parties,
    Loop("PO1", <<"lineItems">>,
         <<LineNode("PO1"), Node("ACK", <<AtPath(1, <<"ackStatus">>), Quantity(2), UomAt(3)>>)>>),
    CountOf(<<"lineItems">>)>>

(* The levels of the ship notice; read, an HL is known by its level code.  *)
HlNode(level, direction) ==
    LET node == Node("HL", <<AtHl(1, "id"), AtHl(2, "parent"), AtConst(3, Text(level, 1))>>)
    IN  IF direction = "inbound"
        THEN ("match" :> [pos |-> 3, eq |-> Text(level, 1)]) @@ node
        ELSE node
Structure856(direction) == <<
    Node("BSN", <<AtConst(1, Code2("00")), AtPath(2, <<"shipmentId">>),
                  AtDate(3, <<"shipDate">>, "CCYYMMDD")>>),
    Level("S", <<HlNode("S", direction),
        LevelOver("O", <<"orders">>, <<HlNode("O", direction),
            Node("PRF", <<AtPath(1, <<"poNumber">>)>>),
            LevelOver("I", <<"items">>, <<HlNode("I", direction), LinNode,
                Node("SN1", <<Quantity(2), UomAt(3)>>)>>)>>)>>),
    CountOf(<<"orders">>)>>
Structure997 == <<
    Node("AK1", <<AtPath(1, <<"ackFunctionalId">>), AtPath(2, <<"ackGroupControlNumber">>)>>),
    Node("AK9", <<AtPath(1, <<"ackCode">>), AtPath(2, <<"setsIncluded">>),
                  AtPath(3, <<"setsReceived">>), AtPath(4, <<"setsAccepted">>)>>)>>
Structure846 == <<
    Node("BIA", <<AtConst(1, Code2("00")), AtPath(2, <<"reportType">>),
                  AtPath(3, <<"referenceId">>), AtDate(4, <<"reportDate">>, "CCYYMMDD")>>),
    Loop("LIN", <<"items">>,
         <<LinNode, Node("QTY", <<AtConst(1, Code2("33")), Quantity(2)>>)>>)>>

(* Segments that repeat or are conditional without a loop, and a default.  *)
StructureOfNotes == <<
    Node("BEG", <<AtPath(1, <<"poNumber">>) @@ ("default" :> Word("none")),
                  AtDate(2, <<"poDate">>, "YYMMDD")>>),
    [segment |-> "REF", over |-> <<"refs">>,
     when |-> [path |-> <<"kind">>, op |-> "!=", literal |-> Code2("XX")],
     elements |-> <<AtPath(1, <<"kind">>), AtPath(2, <<"value">>)>>],
    [segment |-> "MSG", when |-> [path |-> <<"note">>, op |-> "present"],
     elements |-> <<AtPath(1, <<"note">>)>>],
    [segment |-> "CUR", when |-> [path |-> <<"currency">>, op |-> "==", literal |-> Code2("US")],
     elements |-> <<AtPath(1, <<"currency">>)>>]>>

Both(docType, id, structureOut, structureIn) ==
    LET Configured(direction, structure) ==
            [docType |-> Type(docType), direction |-> direction, enabled |-> TRUE,
             map |-> [direction |-> direction, functionalId |-> Code2(id), structure |-> structure]]
    IN  <<Configured("outbound", structureOut), Configured("inbound", structureIn)>>
Same(docType, id, structure) == Both(docType, id, structure, structure)

(* The 850 and 856 are validated, the first entry of the 850 is switched   *)
(* off, and the 864 names maps that validation refuses (a position claimed *)
(* twice), so that the registry does not have them.  A relationship names  *)
(* its maps by id: the type it gives them is not the one that they have.   *)
Clash == <<Node("BEG", <<AtPath(1, <<"poNumber">>),
                         AtPath(2, <<"kind">>) @@
                             ("qualifier" :> [pos |-> 1, const |-> Code2("UP")])>>)>>
MCDocuments ==
    LET With(rds, spec) == [n \in DOMAIN rds |-> ("spec" :> spec) @@ rds[n]]
        off == [Same("850", "PO", <<>>)[1] EXCEPT !.enabled = FALSE]
    IN  <<off>> \o With(Same("850", "PO", Structure850("CCYYMMDD")), House850)
        \o With(Both("856", "SH", Structure856("outbound"), Structure856("inbound")), House856)
        \o Same("810", "IN", Structure810) \o Same("855", "PR", Structure855)
        \o Same("997", "FA", Structure997) \o Same("846", "IB", Structure846)
        \o Same("860", "PC", StructureOfNotes) \o Same("864", "TX", Clash)
        \o With(SubSeq(Same("875", "OG", Structure850("YYMMDD")), 2, 2), House850)

-------------------------------------------------------------------------------
(* Documents a customer sends.                                             *)
Obj(pairs) == Object([k \in {p[1] : p \in pairs} |-> (CHOOSE p \in pairs : p[1] = k)[2]])
Product(id) == Nested("0", Nested("value", Text(id, 12)))
Line(no, quantity, uom, price, id) ==
    Obj({<<"lineNumber", no>>, <<"quantity", Obj({<<"value", Number(quantity)>>, <<"uom", uom>>})>>,
         <<"unitPrice", Nested("amount", Number(price))>>, <<"ids", Product(id)>>,
         <<"ackStatus", Code2("IA")>>})
PartyDoc(role) == Obj({<<"role", Code2(role)>>, <<"address", Nested("name", Word("name"))>>})
EachUnit == Code2("EA")
FirstLine == Line(Digits(1), 10000, EachUnit, 18500, "A")
OddLine == Line(Blank, 2500, EachUnit, 44005, "B")
RefundLine == Line(Digits(2), 5000, Code2("QQ"), -500, "A")
Order(lines, parties, year) ==
    Obj({<<"poNumber", Word("4500")>>, <<"poDate", Date(year)>>, <<"parties", Array(parties)>>,
         <<"lineItems", Array(lines)>>})
ShippedItem(id) == Obj({<<"lineNumber", Digits(1)>>, <<"ids", Product(id)>>,
    <<"quantity", Obj({<<"value", Number(10000)>>, <<"uom", EachUnit>>})>>})
ShippedOrder(items) == Obj({<<"poNumber", Word("4500")>>, <<"items", Array(items)>>})
Shipment(orders) == Obj({<<"shipmentId", Word("ship")>>, <<"shipDate", Date(2026)>>,
                         <<"orders", Array(orders)>>})
Invoice(total) == Obj({<<"invoiceNumber", Word("inv")>>, <<"invoiceDate", Date(2026)>>,
    <<"poNumber", Word("4500")>>, <<"parties", Array(<<PartyDoc("BT")>>)>>,
    <<"lineItems", Array(<<FirstLine>>)>>, <<"totalAmount", total>>})
Acknowledgment == Obj({<<"ackType", Code2("AC")>>, <<"poNumber", Word("4500")>>,
    <<"ackDate", Date(2026)>>, <<"lineItems", Array(<<FirstLine, OddLine>>)>>})
Ack997 == Obj({<<"ackFunctionalId", Code2("PO")>>, <<"ackGroupControlNumber", Digits(1)>>,
    <<"ackCode", Text("A", 1)>>, <<"setsIncluded", Digits(1)>>, <<"setsReceived", Digits(1)>>,
    <<"setsAccepted", Digits(1)>>})
Inventory == Obj({<<"reportType", Code2("DD")>>, <<"referenceId", Word("ref")>>,
    <<"reportDate", Date(2026)>>, <<"items", Array(<<ShippedItem("A"), ShippedItem("B")>>)>>})
Ref(kind) == Obj({<<"kind", Code2(kind)>>, <<"value", Word(kind)>>})
NotesDoc(fields, year) == Obj({<<"poDate", Date(year)>>} \cup fields)

Job(docType, doc) == [docType |-> Type(docType), doc |-> doc]
PlainOrder == Job("850", Order(<<FirstLine>>, <<PartyDoc("ST"), PartyDoc("BY")>>, 2026))
ShipNotice == Job("856", Shipment(<<ShippedOrder(<<ShippedItem("A"), ShippedItem("B")>>),
                                    ShippedOrder(<<ShippedItem("A")>>)>>))
SingleJobs == {
    Job("850", Order(<<FirstLine, OddLine, RefundLine>>, <<PartyDoc("SU")>>, 1999)),
    Job("850", Order(<<>>, <<>>, 2026)),
    Job("850", Obj({<<"poNumber", Word("4500")>>})),
    Job("850", Obj({<<"lineItems", Array(<<>>)>>, <<"poDate", Word("today")>>})),
    Job("856", Shipment(<<>>)), Job("856", Shipment(<<ShippedOrder(<<>>)>>)),
    Job("810", Invoice(Number(185000))), Job("810", Invoice(Word("much"))),
    Job("855", Acknowledgment), Job("997", Ack997), Job("846", Inventory),
    Job("860", NotesDoc({}, 1955)), Job("860", NotesDoc({<<"note", Blank>>}, 2069)),
    Job("860", NotesDoc({<<"poNumber", Word("4500")>>, <<"note", Word("rush")>>,
                      <<"currency", Code2("US")>>,
                      <<"refs", Array(<<Ref("DP"), Ref("XX"), Ref("IA")>>)>>}, 1999)),
    Job("864", Obj({<<"poNumber", Word("4500")>>, <<"kind", Word("kind")>>})),
    Job("824", EmptyObject)}
MCPayloads == {<<job>> : job \in SingleJobs}
    \cup {<<PlainOrder, ShipNotice, PlainOrder>>, <<ShipNotice, Job("824", EmptyObject), PlainOrder>>}

-------------------------------------------------------------------------------
(* Interchanges a partner sends.  Every stream of a few envelope segments, *)
(* in any order, and batches of two groups whose sets say various things.  *)
BegIn(po, day) == [tag |-> "BEG", elements |-> <<Code2("00"), Code2("SA"), po, Blank, day>>]
DayOn(year) == [kind |-> "ccyymmdd", year |-> year, len |-> 8]
LineIn(uom) == [tag |-> "PO1", elements |-> <<Digits(1), Digits(10), uom, Digits(18)>>]
Count1 == [tag |-> "CTT", elements |-> <<Digits(1)>>]
RefIn == [tag |-> "REF", elements |-> <<Code2("DP")>>]
Good == <<BegIn(Word("4500"), DayOn(2026)), LineIn(EachUnit), Count1>>
MCBodies == {
    Good, <<>>,
    <<BegIn(Blank, DayOn(2026)), LineIn(Code2("QQ")), Count1>>,
    <<LineIn(EachUnit), BegIn(Word("4500"), DayOn(2026)), Count1, Count1>>,
    <<BegIn(Word("4500"), DayOn(2026)), RefIn, LineIn(Text("EACH", 4)), Count1>>,
    <<BegIn(Word("4500"), DayOn(2026)), BegIn(Blank, Blank), LineIn(EachUnit), RefIn>>,
    <<BegIn(Word("4500"), Word("today")), LineIn(EachUnit), Count1>>,
    <<[tag |-> "PO1", elements |-> <<Digits(1), Word("ten"), Text("E", 1), Text("-", 1)>>]>>}
StreamSegments == {GS(Code2("PO"), [no |-> 1]), ST(Type("850"), [no |-> 1]),
                   Body(BegIn(Word("4500"), DayOn(2026))), SE(1, [no |-> 1]), GE(1, [no |-> 1])}
Set(code, no, body) == <<ST(Type(code), no)>>
    \o [n \in DOMAIN body |-> Body(body[n])] \o <<SE(Len(body) + 2, no)>>
Group(no, sets) == <<GS(Code2("PO"), no)>> \o FlattenSeq(sets) \o <<GE(Len(sets), no)>>
Batch(groups) == <<ISA([no |-> 9])>> \o FlattenSeq(groups) \o <<IEA(Len(groups), [no |-> 9])>>
MCStreams ==
    UNION {[1..n -> StreamSegments] : n \in 0..5}
    \cup {Batch(<<Group([no |-> 1], <<Set("850", [no |-> 1], a), Set("850", [no |-> 2], b)>>),
                  Group([no |-> 2], <<Set("850", [no |-> 3], b)>>)>>) : a, b \in MCBodies}
    \cup {Batch(<<Group([no |-> 1], <<Set("875", [no |-> 1], b), Set("824", [no |-> 2], Good)>>)>>) :
              b \in MCBodies}
    \cup {Batch(<<Group(control, <<Set("850", no, Good)>>)>>) :
              control, no \in {Blank, [no |-> 1]}}

(* Responses to an order: every pair of lines of the response against      *)
(* orders of a few lines, the other order number, other totals.            *)
LineC(id, quantity) == [id |-> id, quantity |-> quantity, price |-> 3]
Ids == {Text("A", 1), Text("B", 1), Absent}
LinesC(n) == UNION {[1..k -> {LineC(id, q) : id \in Ids, q \in {1, 3}}] : k \in 0..n}
OrdersC == {[po |-> Word("4500"), lines |-> lines] :
              lines \in {<<>>, <<LineC(Text("A", 1), 3)>>,
                         <<LineC(Text("A", 1), 1), LineC(Text("B", 1), 2), LineC(Text("A", 1), 1)>>}}
Response(docType, response, order) ==
    [docType |-> docType, response |-> response, order |-> order]
MCResponses ==
    {Response("855", [po |-> po, lines |-> lines], order) :
        po \in {Word("4500"), Word("none")}, lines \in LinesC(2), order \in OrdersC}
    \cup {Response("810", [po |-> Word("4500"), lines |-> lines, total |-> total], order) :
        lines \in LinesC(2), total \in {Absent, [sum |-> 6], [sum |-> 9]}, order \in OrdersC}
    \cup {Response("856", [orders |-> orders], order) :
        orders \in UNION {[1..k -> {[po |-> po, lines |-> <<LineC(Text("A", 1), q)>>] :
                              po \in {Word("4500"), Word("none")}, q \in {1, 3}}] : k \in 0..2},
        order \in OrdersC}

(* Segments with values of one or two characters, delimiters among them.   *)
Values == UNION {[1..k -> {"a", "*", "~", "\n"}] : k \in 0..2}
MCTexts == {<<[tag |-> <<"N", "1">>, elements |-> <<u, v>>],
              [tag |-> <<"R">>, elements |-> <<u>>]>> : u, v \in Values}
================================================================================
