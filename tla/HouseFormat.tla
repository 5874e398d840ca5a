------------------------------ MODULE HouseFormat ------------------------------
(***************************************************************************)
(* The house format: the built-in specifications a partner's documents are *)
(* held against when the tenant has provisioned none of its own.  Names of *)
(* segments and elements are left out, lengths and code lists are kept.    *)
(***************************************************************************)
EXTENDS MappingEngine

El(pos, requirement, type, min, max) ==
    [pos |-> pos, requirement |-> requirement, type |-> type, min |-> min, max |-> max]

(* An element with a code list: codes of the least length, unless said.    *)
Code(pos, requirement, min, max, codes) ==
    [pos |-> pos, requirement |-> requirement, type |-> "ID", min |-> min, max |-> max,
     codes |-> {Text(c, min) : c \in codes}]

Must(pos, type, max) == El(pos, "mandatory", type, 1, max)
May(pos, type, max) == El(pos, "optional", type, 1, max)
Day(pos) == El(pos, "mandatory", "DT", 8, 8)

Segments(tag, requirement, elements) ==
    [tag |-> tag, requirement |-> requirement, elements |-> elements]
Once(tag, elements) ==
    [tag |-> tag, requirement |-> "mandatory", maxUse |-> 1, elements |-> elements]

(* Parts that several documents share.                                     *)
Uom == {"EA", "CA", "PC", "BX", "LB", "FT"}
ProductQualifiers == {"UP", "VN", "UK", "IN", "SK"}
PartyN1(roles) ==
    Segments("N1", "optional", <<Code(1, "mandatory", 2, 3, roles), May(2, "AN", 60)>>)
LineOf(tag, quantity, price) ==
    Segments(tag, "mandatory",
        <<May(1, "AN", 20), Must(2, "R", quantity), Code(3, "mandatory", 2, 2, Uom),
          El(4, price, "R", 1, 17), Code(6, "conditional", 2, 2, ProductQualifiers),
          El(7, "conditional", "AN", 1, 48)>>)
Item(requirement) ==
    Segments("LIN", requirement,
        <<May(1, "AN", 20), Code(2, "mandatory", 2, 2, ProductQualifiers), Must(3, "AN", 48)>>)
Totals == Once("CTT", <<Must(1, "N", 6)>>)

House850 == <<
    Once("BEG", <<Code(1, "mandatory", 2, 2, {"00", "01", "04", "05", "06"}),
                  Code(2, "mandatory", 2, 2, {"SA", "BK", "KN", "NE", "OS", "RL", "RN"}),
                  Must(3, "AN", 22), May(4, "AN", 30), Day(5)>>),
    PartyN1({"ST", "BT", "SF", "BY", "SE", "VN"}),
    LineOf("PO1", 15, "mandatory"),
    Totals>>

(* A fault of the 855: no buyer among the parties, no status of a line.    *)
House855WithoutBuyer == <<
    Once("BAK", <<Code(1, "mandatory", 2, 2, {"00", "01", "05", "06", "07", "14"}),
                  Code(2, "mandatory", 2, 2, {"AC", "AD", "AE", "AH", "AK", "AP", "AT",
                                              "RD", "RF", "RJ", "RO"}),
                  Must(3, "AN", 22), Day(4)>>),
    PartyN1({"ST", "BT", "SF", "SE", "SU", "VN"}),
    LineOf("PO1", 15, "optional"),
    Totals>>

House855 == <<
    Once("BAK", <<Code(1, "mandatory", 2, 2, {"00", "01", "05", "06", "07", "14"}),
                  Code(2, "mandatory", 2, 2, {"AC", "AD", "AE", "AH", "AK", "AP", "AT",
                                              "RD", "RF", "RJ", "RO"}),
                  Must(3, "AN", 22), Day(4)>>),
    PartyN1({"ST", "BT", "SF", "BY", "SE", "SU", "VN"}),
    LineOf("PO1", 15, "optional"),
    Segments("ACK", "optional",
        <<Code(1, "mandatory", 2, 2, {"IA", "IB", "IC", "ID", "IF", "IP", "IQ", "IR", "IS",
                                      "IW", "AC", "BP", "DR"}),
          El(2, "conditional", "R", 1, 15), Code(3, "conditional", 2, 2, Uom)>>),
    Totals>>

House856 == <<
    Once("BSN", <<Code(1, "mandatory", 2, 2, {"00", "01", "05", "06", "07"}),
                  Must(2, "AN", 30), Day(3)>>),
    Segments("HL", "mandatory",
        <<Must(1, "AN", 12), El(2, "conditional", "AN", 1, 12),
          Code(3, "mandatory", 1, 2, {"S", "O", "I", "P", "T"})>>),
    Segments("PRF", "optional", <<Must(1, "AN", 22)>>),
    Item("optional"),
    Segments("SN1", "optional",
        <<May(1, "AN", 20), Must(2, "R", 10), Code(3, "mandatory", 2, 2, Uom)>>),
    Totals>>

House810 == <<
    Once("BIG", <<Day(1), Must(2, "AN", 22), El(4, "conditional", "AN", 1, 22)>>),
    PartyN1({"ST", "BT", "SF", "BY", "SE", "RE", "VN"}),
    LineOf("IT1", 10, "mandatory"),
    Once("TDS", <<Must(1, "R", 15)>>),
    Totals>>

House846 == <<
    Once("BIA", <<Code(1, "mandatory", 2, 2, {"00", "05", "15", "49"}),
                  Code(2, "mandatory", 2, 2, {"DD", "SI", "NP", "PQ"}),
                  Must(3, "AN", 30), Day(4)>>),
    Item("mandatory"),
    Segments("QTY", "mandatory",
        <<Code(1, "mandatory", 2, 2, {"33", "17", "20", "25"}), Must(2, "R", 15)>>)>>

House997 == <<
    Once("AK1", <<Code(1, "mandatory", 2, 2, {"PO", "PR", "SH", "IN", "IB", "FA"}),
                  Must(2, "N", 9)>>),
    Once("AK9", <<Code(1, "mandatory", 1, 1, {"A", "E", "P", "R"}),
                  Must(2, "N", 6), Must(3, "N", 6), Must(4, "N", 6)>>)>>

HouseSpecs == ("850" :> House850) @@ ("855" :> House855) @@ ("856" :> House856)
                  @@ ("810" :> House810) @@ ("846" :> House846) @@ ("997" :> House997)
================================================================================
