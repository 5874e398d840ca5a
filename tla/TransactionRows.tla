----------------------------- MODULE TransactionRows -----------------------------
(***************************************************************************)
(* TransactionRepository.  A canonical document is saved as normalized rows*)
(* in one transaction, its time taken before; it is read back from its     *)
(* rows; and the console lists what is stored page by page, each page a    *)
(* count and a select, while documents keep arriving.                      *)
(***************************************************************************)
EXTENDS Integers, Sequences, FiniteSets, SequencesExt, FiniteSetsExt

CONSTANTS
    RowIds,       \* the random ids a save may draw
    Canonicals,   \* documents that may be saved: [docType, doc]
    Filters,      \* document types a list may ask for; "any" is no filter
    PageSizes,    \* limits a list may ask for
    MaxSaves,     \* bounds: saves under way at once,
    MaxTime       \* the clock

(* A document has lists of orders, of their lines, and of the typed values *)
(* and parties; a line may have a number, and a status only in an 855. Its *)
(* codes are those of a purchase order's purpose and type; what it has that*)
(* no table has a column for is its rest: an inventory advice's header and *)
(* items, the charges of a document, the references, dates and extensions  *)
(* of a line, a currency, whatever else is in extensions.                  *)
IsList(seq) == seq \in Seq(ToSet(seq))
IsLine(line, docType) ==
    /\ line = [number |-> line.number, ids |-> line.ids, quantity |-> line.quantity,
               price |-> line.price, description |-> line.description,
             charges |-> line.charges, ack |-> line.ack]
    /\ line.number # <<>> => /\ line.number = <<[value |-> line.number[1].value,
                                                zeros |-> line.number[1].zeros]>>
                             /\ line.number[1].value \in Int
    /\ IsList(line.ids)
    /\ docType # "855" => line.ack = <<>>
IsDocument(doc, docType) ==
    /\ doc = [header |-> doc.header, codes |-> doc.codes, rest |-> doc.rest,
              orders |-> doc.orders, parties |-> doc.parties,
              references |-> doc.references, dates |-> doc.dates]
    /\ IsList(doc.orders) /\ IsList(doc.parties)
    /\ IsList(doc.references) /\ IsList(doc.dates)
    /\ \A order \in ToSet(doc.orders) :
          /\ order = [po |-> order.po, items |-> order.items]
          /\ IsList(order.items)
          /\ \A line \in ToSet(order.items) : IsLine(line, docType)
    /\ \A party \in ToSet(doc.parties) :
          /\ party = [role |-> party.role, ids |-> party.ids, address |-> party.address]
          /\ IsList(party.ids)

ASSUME RowsAssumption ==
    /\ RowIds \subseteq Int
    /\ \A c \in Canonicals : IsDocument(c.doc, c.docType)
    /\ PageSizes \subseteq Nat \ {0}
    /\ MaxSaves \in Nat /\ MaxTime \in Nat

VARIABLES
    txns,        \* the committed transactions with all of their rows, by id
    saves,       \* saves whose transaction is not committed yet
    now,         \* the clock, in the units of created_at
    reader       \* the console walking the pages of a list

rowsVars == <<txns, saves, now, reader>>

-------------------------------------------------------------------------------
(* Optional values are sequences of at most one.                           *)
HeadOf(seq) == IF seq = <<>> THEN <<>> ELSE <<Head(seq)>>

(* Places in their order: by the first number, then by the second.         *)
Precedes(p, q) == p[1] < q[1] \/ (p[1] = q[1] /\ p[2] < q[2])
Earlier(places, p) == {q \in places : Precedes(q, p)}
InTurn(places) ==
    [k \in 1..Cardinality(places) |->
        CHOOSE p \in places : Cardinality(Earlier(places, p)) = k - 1]

(* The lines of a document; a ship notice has them under its orders, all   *)
(* others under its only one.                                              *)
LinesOf(doc) ==
    LET places == InTurn(UNION {{n} \X DOMAIN doc.orders[n].items : n \in DOMAIN doc.orders})
    IN  [k \in DOMAIN places |-> doc.orders[places[k][1]].items[places[k][2]]]
FirstPo(doc) == IF doc.orders = <<>> THEN <<>> ELSE doc.orders[1].po

(* The values that have a qualifier.                                       *)
Qualified(values) ==
    LET places == InTurn({1} \X {n \in DOMAIN values : values[n].type # <<>>})
    IN  [k \in DOMAIN places |-> values[places[k][2]]]

(* A fault of the line's row: an unqualified id is not promoted.           *)
LineRowUnpromoted(line, n, docType) ==
    [number |-> IF line.number = <<>> THEN n ELSE Head(line.number).value,
     sku |-> HeadOf(Qualified(line.ids)),
     ids |-> Qualified(line.ids),
     quantity |-> line.quantity, price |-> line.price,
     amount |-> HeadOf(line.charges), description |-> line.description,
     ack |-> IF docType = "855" THEN line.ack ELSE <<>>]

(* One line as it is stored: its number as an integer, its first id        *)
(* promoted, the ids that are qualified, its first charge, an 855's status.*)
LineRow(line, n, docType) ==
    [number |-> IF line.number = <<>> THEN n ELSE Head(line.number).value,
     sku |-> HeadOf(line.ids),
     ids |-> Qualified(line.ids),
     quantity |-> line.quantity, price |-> line.price,
     amount |-> HeadOf(line.charges), description |-> line.description,
     ack |-> IF docType = "855" THEN line.ack ELSE <<>>]

PartyRow(party) ==
    [role |-> party.role, id |-> HeadOf(party.ids), address |-> party.address]

(* The header column of the document's own type that is stored.            *)
Subtyped == {"850", "810", "855", "856"}
SubtypeRow(docType, doc) == IF docType \in Subtyped THEN doc.header ELSE <<>>

(* save: the header, the subtype, the lines, parties and typed values.     *)
Shredded(docType, doc) ==
    LET lines == LinesOf(doc)
    IN  [docType |-> docType, po |-> FirstPo(doc), lineCount |-> Len(lines),
         subtype |-> SubtypeRow(docType, doc),
         codes |-> IF docType = "850" THEN doc.codes ELSE <<>>,
         lines |-> [n \in DOMAIN lines |-> LineRow(lines[n], n, docType)],
         parties |-> [n \in DOMAIN doc.parties |-> PartyRow(doc.parties[n])],
         references |-> Qualified(doc.references), dates |-> Qualified(doc.dates)]

(* Rows selected without an order come in any.                             *)
InAnyOrder(rows) ==
    {[k \in DOMAIN rows |-> rows[p[k]]] : p \in Bijection(DOMAIN rows, DOMAIN rows)}

(* One line read back, its ids in any order, its charge not at all.        *)
LineReadings(row, docType) ==
    {[number |-> <<[value |-> row.number, zeros |-> 0]>>, ids |-> ids,
      quantity |-> row.quantity, price |-> row.price, description |-> row.description,
      charges |-> <<>>, ack |-> IF docType = "855" THEN row.ack ELSE <<>>] :
        ids \in IF row.ids # <<>> THEN InAnyOrder(row.ids) ELSE {row.sku}}

(* The lines come by their number, those of one number in any order.       *)
ByNumber(rows) ==
    {ordered \in InAnyOrder(rows) :
        \A m, n \in DOMAIN ordered : m < n => ordered[m].number <= ordered[n].number}
ItemsRead(rows, docType) ==
    LET any == UNION {LineReadings(row, docType) : row \in ToSet(rows)}
    IN  UNION {{items \in [DOMAIN ordered -> any] :
                   \A n \in DOMAIN ordered : items[n] \in LineReadings(ordered[n], docType)} :
               ordered \in ByNumber(rows)}

PartiesRead(rows) ==
    [n \in DOMAIN rows |-> [role |-> rows[n].role, ids |-> rows[n].id,
                            address |-> rows[n].address]]

(* reconstruct: what may be read of a document, everything under one order.*)
Reconstruct(row) ==
    {[header |-> row.subtype, codes |-> <<>>, rest |-> <<>>,
      orders |-> <<[po |-> row.po, items |-> items]>>,
      parties |-> parties, references |-> references, dates |-> dates] :
        items \in ItemsRead(row.lines, row.docType),
        parties \in InAnyOrder(PartiesRead(row.parties)),
        references \in InAnyOrder(row.references), dates \in InAnyOrder(row.dates)}

-------------------------------------------------------------------------------
Idle == [pc |-> "idle"]

RowsInit ==
    /\ txns = {}
    /\ saves = {}
    /\ now = 0
    /\ reader = Idle

IdsOf(rows) == {t.id : t \in rows}
TakenIds == IdsOf(txns) \cup IdsOf(saves)

(* A save draws an id, takes the time and begins its transaction.          *)
BeginSave(id, c) ==
    /\ id \notin TakenIds /\ Cardinality(saves) < MaxSaves
    /\ saves' = saves \cup {[id |-> id, created |-> now, doc |-> c.doc,
                             row |-> Shredded(c.docType, c.doc)]}
    /\ UNCHANGED <<txns, now, reader>>

(* The transaction commits: all of its rows are there at once.             *)
CommitSave(s) ==
    /\ txns' = txns \cup {s}
    /\ saves' = saves \ {s}
    /\ reader' = IF reader.pc = "page" THEN [reader EXCEPT !.raced = TRUE] ELSE reader
    /\ UNCHANGED now

(* A statement of the transaction is rejected: nothing is stored.          *)
AbortSave(s) ==
    /\ saves' = saves \ {s}
    /\ UNCHANGED <<txns, now, reader>>

Tick ==
    /\ now < MaxTime
    /\ now' = now + 1
    /\ UNCHANGED <<txns, saves, reader>>

(* The rows a filter selects, in the order of their time, then their id.   *)
Matching(docType) == {t \in txns : docType \in {t.row.docType, "any"}}
Before(a, b) == a.created < b.created \/ (a.created = b.created /\ a.id < b.id)
InListOrder(docType) ==
    LET rows == Matching(docType)
        Ahead(t) == {u \in rows : Before(u, t)}
    IN  [k \in 1..Cardinality(rows) |-> CHOOSE t \in rows : Cardinality(Ahead(t)) = k - 1]

(* list: a page is counted, then selected; the console asks for the next   *)
(* one until a page is not full.                                           *)
OpenList(docType, limit) ==
    /\ reader = Idle
    /\ reader' = [pc |-> "count", docType |-> docType, limit |-> limit, offset |-> 0,
                  present |-> IdsOf(Matching(docType)), total |-> 0, seen |-> <<>>,
                  page |-> 0, raced |-> FALSE]
    /\ UNCHANGED <<txns, saves, now>>

(* A fault of the count: it counts whatever there is.                      *)
CountListOfAll ==
    /\ reader.pc = "count"
    /\ reader' = [reader EXCEPT !.pc = "page", !.raced = FALSE,
                                !.total = Cardinality(txns)]
    /\ UNCHANGED <<txns, saves, now>>

CountList ==
    /\ reader.pc = "count"
    /\ reader' = [reader EXCEPT !.pc = "page", !.raced = FALSE,
                                !.total = Cardinality(Matching(reader.docType))]
    /\ UNCHANGED <<txns, saves, now>>

(* A fault of the page: the newest first.                                  *)
PageNewestFirst ==
    LET all == Reverse(InListOrder(reader.docType))
        page == SubSeq(all, reader.offset + 1, Min({reader.offset + reader.limit, Len(all)}))
    IN  /\ reader.pc = "page"
        /\ reader' = [reader EXCEPT !.pc = IF Len(page) < reader.limit THEN "done" ELSE "count",
                                    !.offset = @ + reader.limit,
                                    !.page = Len(page),
                                    !.seen = @ \o [n \in DOMAIN page |-> page[n].id]]
        /\ UNCHANGED <<txns, saves, now>>

SelectPage ==
    LET all == InListOrder(reader.docType)
        page == SubSeq(all, reader.offset + 1, Min({reader.offset + reader.limit, Len(all)}))
    IN  /\ reader.pc = "page"
        /\ reader' = [reader EXCEPT !.pc = IF Len(page) < reader.limit THEN "done" ELSE "count",
                                    !.offset = @ + reader.limit,
                                    !.page = Len(page),
                                    !.seen = @ \o [n \in DOMAIN page |-> page[n].id]]
        /\ UNCHANGED <<txns, saves, now>>

RowsNext ==
    \/ \E id \in RowIds, c \in Canonicals : BeginSave(id, c)
    \/ \E s \in saves : CommitSave(s) \/ AbortSave(s)
    \/ Tick
    \/ \E docType \in Filters, limit \in PageSizes : OpenList(docType, limit)
    \/ CountList
    \/ SelectPage

RowsSpec == RowsInit /\ [][RowsNext]_rowsVars

-------------------------------------------------------------------------------
RowsTypeOK ==
    /\ \A t \in txns \cup saves : t.id \in RowIds /\ t.created \in 0..now
    /\ \A t, u \in txns \cup saves : t.id = u.id => t = u
    /\ txns \cap saves = {}
    /\ reader.pc \in {"idle", "count", "page", "done"}

(* In whatever order the rows come, all that a plain document says is read *)
(* back, and its lines as they stand; the parties, the references, the     *)
(* dates and the ids of a line may come in another order. It is plain if   *)
(* its type has rows of its own, its lines are of one order and numbered as*)
(* they stand, its ids qualified, its parties have one id each, and it has *)
(* nothing of what is stored and not read (its codes, a line's charge) or  *)
(* has no column. Of any document every line is read back with its         *)
(* quantity, its price and its qualified ids, or else its first one, the   *)
(* lines by their number, with every qualified reference and date and the  *)
(* purchase order it names first.                                          *)
PlainDocument(doc) ==
    LET lines == LinesOf(doc)
        qualified(v) == v.type # <<>>
    IN  /\ Len(doc.orders) = 1 /\ doc.codes = <<>> /\ doc.rest = <<>>
        /\ \A n \in DOMAIN lines :
              /\ lines[n].number = <<[value |-> n, zeros |-> 0]>>
              /\ lines[n].charges = <<>>
              /\ \A k \in DOMAIN lines[n].ids : qualified(lines[n].ids[k])
        /\ \A n \in DOMAIN doc.parties : Len(doc.parties[n].ids) <= 1
        /\ \A v \in ToSet(doc.references) \cup ToSet(doc.dates) : qualified(v)
SameLine(read, line) ==
    /\ read = [line EXCEPT !.ids = read.ids]
    /\ read.ids \in InAnyOrder(line.ids)
SameButForOrder(read, doc) ==
    LET items == read.orders[1].items
        wrote == doc.orders[1].items
    IN  /\ read.header = doc.header /\ read.codes = doc.codes /\ read.rest = doc.rest
        /\ Len(read.orders) = Len(doc.orders) /\ read.orders[1].po = doc.orders[1].po
        /\ Len(items) = Len(wrote)
        /\ \A n \in DOMAIN wrote : SameLine(items[n], wrote[n])
        /\ read.parties \in InAnyOrder(doc.parties)
        /\ read.references \in InAnyOrder(doc.references)
        /\ read.dates \in InAnyOrder(doc.dates)
Essence(line) ==
    LET known == {id \in ToSet(line.ids) : id.type # <<>>}
    IN  [ids |-> IF known = {} THEN ToSet(HeadOf(line.ids)) ELSE known,
         quantity |-> line.quantity, price |-> line.price]
Occurring(lines, e) == Cardinality({n \in DOMAIN lines : Essence(lines[n]) = e})
RowsTellTheDocument ==
    \A t \in txns : \A read \in Reconstruct(t.row) :
        LET wrote == LinesOf(t.doc)
            lines == LinesOf(read)
        IN  /\ t.row.docType \in Subtyped /\ PlainDocument(t.doc) => SameButForOrder(read, t.doc)
            /\ t.row.lineCount = Len(lines)
            /\ \A e \in {Essence(wrote[n]) : n \in DOMAIN wrote} :
                  Occurring(lines, e) = Occurring(wrote, e)
            /\ \A m, n \in DOMAIN lines :
                  m < n => Head(lines[m].number).value <= Head(lines[n].number).value
            /\ read.orders[1].po = FirstPo(t.doc)
            /\ read.references \in InAnyOrder(Qualified(t.doc.references))
            /\ read.dates \in InAnyOrder(Qualified(t.doc.dates))

(* Walking through the pages shows every document that was stored when the *)
(* walk began, whatever is saved meanwhile; one is shown twice only if one *)
(* was saved meanwhile that comes before it.                               *)
PagesMissNothing ==
    reader.pc = "done" =>
        /\ reader.present \subseteq ToSet(reader.seen)
        /\ \A id \in ToSet(reader.seen) :
              Cardinality({n \in DOMAIN reader.seen : reader.seen[n] = id}) > 1 =>
                  \E t, u \in txns :
                      t.id \notin reader.present /\ u.id = id /\ Before(t, u)

(* "they must match": a page and its count disagree only if a document was *)
(* saved between the two.                                                  *)
PageMatchesItsCount ==
    (reader.pc \in {"count", "done"} /\ reader.offset > 0 /\ ~reader.raced) =>
        reader.page = Min({reader.limit, Max({0, reader.total - (reader.offset - reader.limit)})})

(* The list of documents is true of the table while documents are saved:   *)
(* in its pages and in its count.                                          *)
ListTellsTheTable == PagesMissNothing /\ PageMatchesItsCount
===============================================================================
