------------------------------ MODULE StoreProofs ------------------------------
(***************************************************************************)
(* What the database is and what is read of it, for any number of servers, *)
(* rows, saves, hydrates and readers.  Four arguments:                     *)
(* - the schema: a server creates the first statement that is missing or   *)
(*   none;                                                                 *)
(* - the configuration: what a hydrate has read of a row is no older than  *)
(*   the row was when it began, so that registering it can make nothing    *)
(*   older than the hydrates before it promised; and a stage is over only  *)
(*   when each row that had to be found is registered, so relationships,   *)
(*   which come last, find what they name;                                 *)
(* - the list of documents: what is not shown yet stands at or after the   *)
(*   offset of the pages so far, what is shown before it, unless a         *)
(*   document was saved before it.                                         *)
(* - the rows of a document: sorting its lines and leaving out what has no *)
(*   qualifier is listing a finite set of places by their turns, which are *)
(*   a bijection.                                                          *)
(***************************************************************************)
EXTENDS Bootstrap, Configuration, TransactionRows, TLAPS, SequenceTheorems, FiniteSetTheorems

Elements(part) == {part[n] : n \in 1..100}
AllElements ==
    Elements(ConfigStatements) \cup Elements(ReceiptStatements)
        \cup Elements(TransactionStatements) \cup Elements(ProcessingStatements)
        \cup Elements(CertificationStatements) \cup Elements(IdentityStatements)
        \cup Elements(DropshipStatements)

LEMMA StatementsAre == /\ Len(Statements) \in Nat
                       /\ DOMAIN Statements = 1..Len(Statements)
<1>1. ConfigStatements \in Seq(Elements(ConfigStatements))
  BY DEF Elements, ConfigStatements
<1>2. ReceiptStatements \in Seq(Elements(ReceiptStatements))
  BY DEF Elements, ReceiptStatements
<1>3. TransactionStatements \in Seq(Elements(TransactionStatements))
  BY DEF Elements, TransactionStatements
<1>4. ProcessingStatements \in Seq(Elements(ProcessingStatements))
  BY DEF Elements, ProcessingStatements
<1>5. CertificationStatements \in Seq(Elements(CertificationStatements))
  BY DEF Elements, CertificationStatements
<1>6. IdentityStatements \in Seq(Elements(IdentityStatements))
  BY DEF Elements, IdentityStatements
<1>7. DropshipStatements \in Seq(Elements(DropshipStatements))
  BY DEF Elements, DropshipStatements
<1>8. /\ ConfigStatements \in Seq(AllElements) /\ ReceiptStatements \in Seq(AllElements)
      /\ TransactionStatements \in Seq(AllElements)
      /\ ProcessingStatements \in Seq(AllElements)
      /\ CertificationStatements \in Seq(AllElements)
      /\ IdentityStatements \in Seq(AllElements) /\ DropshipStatements \in Seq(AllElements)
  BY <1>1, <1>2, <1>3, <1>4, <1>5, <1>6, <1>7, SeqMonotonic DEF AllElements
<1>9. Statements \in Seq(AllElements)
  BY <1>8, ConcatProperties DEF Statements
<1> QED BY <1>9

(* What is made is the first k statements, no server is past the next one, *)
(* and one that has started has seen them all.                             *)
MadeUpTo(k) ==
    /\ made = 1..k
    /\ \A s \in Servers :
          /\ reached[s] <= k + 1
          /\ boot[s] = "creates" => reached[s] \in DOMAIN Statements
          /\ boot[s] = "ready" => k = Len(Statements)

BootstrapInv ==
    /\ BootstrapTypeOK
    /\ reached \in [Servers -> 1..(Len(Statements) + 1)]
    /\ boot \in [Servers -> {"looks", "creates", "ready", "failed"}]
    /\ \E k \in 0..Len(Statements) : MadeUpTo(k)

LEMMA BootstrapTypesOf ==
    ASSUME BootstrapInv, NEW k \in 0..Len(Statements), MadeUpTo(k), NEW s \in Servers
    PROVE  /\ Len(Statements) \in Nat /\ DOMAIN Statements = 1..Len(Statements)
           /\ k \in Nat /\ k <= Len(Statements)
           /\ reached[s] \in Nat /\ 1 <= reached[s] /\ reached[s] <= k + 1
<1>1. Len(Statements) \in Nat /\ DOMAIN Statements = 1..Len(Statements)
  BY StatementsAre
<1>2. reached[s] \in 1..(Len(Statements) + 1)
  BY DEF BootstrapInv
<1>3. k \in Nat /\ k <= Len(Statements)
  BY <1>1
<1>4. reached[s] \in Nat /\ 1 <= reached[s]
  BY <1>1, <1>2
<1>5. reached[s] <= k + 1
  BY DEF MadeUpTo
<1> QED BY <1>1, <1>3, <1>4, <1>5

LEMMA LookStep ==
    ASSUME BootstrapInv, NEW s \in Servers, Look(s)
    PROVE  BootstrapInv'
<1> DEFINE missing == {n \in reached[s]..Len(Statements) : n \notin made}
<1>1. PICK k \in 0..Len(Statements) : MadeUpTo(k)
  BY DEF BootstrapInv
<1>2. /\ Len(Statements) \in Nat /\ DOMAIN Statements = 1..Len(Statements) /\ k \in Nat
      /\ k <= Len(Statements)
      /\ reached[s] \in Nat /\ 1 <= reached[s] /\ reached[s] <= k + 1
  BY <1>1, BootstrapTypesOf
<1>3. missing = (k + 1)..Len(Statements)
  <2>1. made = 1..k
    BY <1>1 DEF MadeUpTo
  <2>2. \A n \in Nat : n \in made <=> 1 <= n /\ n <= k
    BY <1>2, <2>1
  <2>3. \A n \in reached[s]..Len(Statements) : n \in Nat /\ 1 <= n /\ n <= Len(Statements)
    BY <1>2
  <2>4. missing \subseteq (k + 1)..Len(Statements)
    BY <1>2, <2>2, <2>3
  <2>5. (k + 1)..Len(Statements) \subseteq missing
    BY <1>2, <2>2
  <2> QED BY <2>4, <2>5
<1> HIDE DEF missing
<1>4. CASE missing = {}
  <2>1. k = Len(Statements)
    <3>1. k < Len(Statements) => k + 1 \in missing
      BY <1>2, <1>3
    <3>2. ~(k < Len(Statements))
      BY <1>4, <3>1
    <3> DEFINE last == Len(Statements)
    <3>3. last \in Nat /\ k \in Nat /\ k <= last /\ ~(k < last)
      BY <1>2, <3>2
    <3> HIDE DEF last
    <3>4. k = last
      BY <3>3
    <3> QED BY <3>4 DEF last
  <2>2. boot' = [boot EXCEPT ![s] = "ready"] /\ UNCHANGED <<made, reached, crashes>>
    BY <1>4 DEF Look, missing
  <2>3. MadeUpTo(k)'
    BY <1>1, <2>1, <2>2 DEF MadeUpTo, BootstrapInv
  <2> QED BY <2>2, <2>3 DEF BootstrapInv, BootstrapTypeOK
<1>5. CASE missing # {}
  <2>1. k + 1 \in missing /\ \A n \in missing : k + 1 <= n
    BY <1>2, <1>3, <1>5
  <2>2. Min(missing) = k + 1
    BY <1>2, <1>3, <2>1 DEF Min
  <2>3. /\ boot' = [boot EXCEPT ![s] = "creates"] /\ UNCHANGED <<made, crashes>>
        /\ reached' = [reached EXCEPT ![s] = k + 1]
    BY <1>5, <2>2 DEF Look, missing
  <2>4. k + 1 \in DOMAIN Statements
    BY <1>2, <1>3, <2>1
  <2>5. MadeUpTo(k)'
    <3>1. \A t \in Servers : /\ reached'[t] = IF t = s THEN k + 1 ELSE reached[t]
                             /\ boot'[t] = IF t = s THEN "creates" ELSE boot[t]
      BY <2>3 DEF BootstrapInv
    <3>2. k + 1 <= k + 1
      BY <1>2
    <3> QED BY <1>1, <2>3, <2>4, <3>1, <3>2 DEF MadeUpTo
  <2> QED BY <1>2, <2>3, <2>4, <2>5 DEF BootstrapInv, BootstrapTypeOK
<1> QED BY <1>4, <1>5

LEMMA FailStep ==
    ASSUME BootstrapInv, NEW s \in Servers, Fails(s), UNCHANGED made,
           crashes' \in 0..MaxCrashes
    PROVE  BootstrapInv'
<1>1. PICK k \in 0..Len(Statements) : MadeUpTo(k)
  BY DEF BootstrapInv
<1>2. Len(Statements) \in Nat /\ k \in Nat
  BY StatementsAre
<1>3. MadeUpTo(k)'
  BY <1>1, <1>2 DEF MadeUpTo, BootstrapInv, Fails
<1> QED BY <1>2, <1>3 DEF BootstrapInv, BootstrapTypeOK, Fails

LEMMA CreateStep ==
    ASSUME BootstrapInv, NEW s \in Servers, Create(s)
    PROVE  BootstrapInv'
<1>1. PICK k \in 0..Len(Statements) : MadeUpTo(k)
  BY DEF BootstrapInv
<1>2. /\ Len(Statements) \in Nat /\ DOMAIN Statements = 1..Len(Statements) /\ k \in Nat
      /\ k <= Len(Statements) /\ reached[s] \in DOMAIN Statements
      /\ reached[s] \in Nat /\ 1 <= reached[s] /\ reached[s] <= k + 1
  BY <1>1, BootstrapTypesOf DEF MadeUpTo, Create
<1>3. CASE Fails(s) /\ UNCHANGED made
  BY <1>3, FailStep DEF BootstrapInv, BootstrapTypeOK, Create
<1>4. CASE reached[s] \notin made /\ made' = made \cup {reached[s]} /\ Passes(s)
  <2>0. made = 1..k
    BY <1>1 DEF MadeUpTo
  <2>1. reached[s] = k + 1
    BY <1>2, <1>4, <2>0
  <2>2. made' = 1..(k + 1) /\ k + 1 \in 0..Len(Statements)
    <3>1. made' = 1..k \cup {k + 1}
      BY <1>4, <2>0, <2>1
    <3> QED BY <1>2, <2>1, <3>1
  <2>3. /\ reached' = [reached EXCEPT ![s] = k + 2]
        /\ boot' = [boot EXCEPT ![s] = "looks"] /\ UNCHANGED crashes
    BY <1>2, <1>4, <2>1 DEF Passes, Create
  <2>4. \A t \in Servers : boot[t] # "ready"
    <3>1. k + 1 <= Len(Statements)
      BY <1>2, <2>1
    <3> DEFINE last == Len(Statements)
    <3>2. last \in Nat /\ k \in Nat /\ k + 1 <= last
      BY <1>2, <3>1
    <3> HIDE DEF last
    <3>3. k # last
      BY <3>2
    <3>4. k # Len(Statements)
      BY <3>3 DEF last
    <3>5. \A t \in Servers : boot[t] = "ready" => k = Len(Statements)
      BY <1>1 DEF MadeUpTo
    <3> QED BY <3>4, <3>5
  <2>5. MadeUpTo(k + 1)'
    <3>1. \A t \in Servers : /\ reached'[t] = IF t = s THEN k + 2 ELSE reached[t]
                             /\ boot'[t] = IF t = s THEN "looks" ELSE boot[t]
      BY <2>3 DEF BootstrapInv
    <3>2. \A t \in Servers : /\ reached[t] \in Nat /\ reached[t] <= k + 1
                             /\ boot[t] = "creates" => reached[t] \in DOMAIN Statements
      BY <1>1, BootstrapTypesOf DEF MadeUpTo
    <3>3. \A t \in Servers : reached'[t] <= (k + 1) + 1
      BY <1>2, <3>1, <3>2
    <3> QED BY <2>2, <2>4, <3>1, <3>2, <3>3 DEF MadeUpTo
  <2>6. made' \subseteq DOMAIN Statements
    BY <1>2, <2>2
  <2> QED BY <1>2, <2>2, <2>3, <2>5, <2>6 DEF BootstrapInv, BootstrapTypeOK
<1> QED BY <1>3, <1>4 DEF Create

-------------------------------------------------------------------------------
(* The inductive invariant of the bootstrap.                               *)
THEOREM BootstrapInvHolds == BootstrapSpec => []BootstrapInv
<1>1. BootstrapInit => BootstrapInv
  <2> SUFFICES ASSUME BootstrapInit
               PROVE  BootstrapInv
    OBVIOUS
  <2>1. MadeUpTo(0) /\ 0 \in 0..Len(Statements)
    BY StatementsAre DEF BootstrapInit, MadeUpTo
  <2> QED BY <2>1, StatementsAre, MaxCrashesAssumption
          DEF BootstrapInit, BootstrapInv, BootstrapTypeOK
<1>2. ASSUME BootstrapInv, [BootstrapNext]_bootstrapVars
      PROVE  BootstrapInv'
  <2>1. CASE \E s \in Servers : Look(s)
    BY <1>2, <2>1, LookStep
  <2>2. CASE \E s \in Servers : Create(s)
    BY <1>2, <2>2, CreateStep
  <2>3. ASSUME NEW s \in Servers, CrashAtBoot(s)
        PROVE  BootstrapInv'
    <3>1. crashes' \in 0..MaxCrashes
      BY <1>2, <2>3, MaxCrashesAssumption DEF CrashAtBoot, BootstrapInv, BootstrapTypeOK
    <3> QED BY <1>2, <2>3, <3>1, FailStep DEF CrashAtBoot
  <2>4. ASSUME NEW s \in Servers, StartAgain(s)
        PROVE  BootstrapInv'
    BY <1>2, <2>4 DEF StartAgain, BootstrapInv, BootstrapTypeOK, MadeUpTo
  <2>5. CASE UNCHANGED bootstrapVars
    BY <1>2, <2>5 DEF bootstrapVars, BootstrapInv, BootstrapTypeOK, MadeUpTo
  <2> QED BY <1>2, <2>1, <2>2, <2>3, <2>4, <2>5 DEF BootstrapNext
<1> QED BY <1>1, <1>2, PTL DEF BootstrapSpec

(* Each server is at one of the statements, whatever stops it.             *)
THEOREM BootstrapTypes == BootstrapSpec => []BootstrapTypeOK
BY BootstrapInvHolds, PTL DEF BootstrapInv

LEMMA GapsAreNone ==
    ASSUME BootstrapInv
    PROVE  MadeInOrder
<1>1. PICK k \in 0..Len(Statements) : MadeUpTo(k)
  BY DEF BootstrapInv
<1>2. k \in Nat /\ made = 1..k
  <2>1. made = 1..k
    BY <1>1 DEF MadeUpTo
  <2>2. k \in Nat
    BY StatementsAre
  <2> QED BY <2>1, <2>2
<1>3. Cardinality(1..k) = k
  BY <1>2, FS_Interval
<1> QED BY <1>2, <1>3 DEF MadeInOrder

(* Servers that overlap and stop leave no gap in what they create.         *)
THEOREM SchemaHasNoGap == BootstrapSpec => []MadeInOrder
<1>1. BootstrapInv => MadeInOrder
  BY GapsAreNone
<1> QED BY <1>1, BootstrapInvHolds, PTL

(* A server that has started finds everything made.                        *)
ReadyFindsAll == (\E s \in Servers : boot[s] = "ready") => made = DOMAIN Statements
THEOREM StartedServersFindAll == BootstrapSpec => []ReadyFindsAll
<1>1. BootstrapInv => ReadyFindsAll
  BY StatementsAre DEF BootstrapInv, MadeUpTo, ReadyFindsAll
<1> QED BY <1>1, BootstrapInvHolds, PTL

(* The lookup of a table by its name does not depend on how much is there. *)
LEMMA PrefixFinds ==
    ASSUME NEW k \in 0..Len(Statements), NEW n \in 1..k, NEW name \in Needed(Statements[n])
    PROVE  LET m == CHOOSE m \in 1..k : Statements[m].kind = "table"
                                         /\ Statements[m].name = name
           IN  m \in 1..k /\ name \in TablesOf(1..k) /\ Finds(Statements[n], m)
<1>1. /\ Len(Statements) \in Nat /\ DOMAIN Statements = 1..Len(Statements)
      /\ k \in Nat /\ k <= Len(Statements)
  <2> DEFINE last == Len(Statements)
  <2>1. last \in Nat /\ DOMAIN Statements = 1..last /\ k \in 0..last
    BY StatementsAre
  <2> HIDE DEF last
  <2>2. k \in Nat /\ k <= last
    BY <2>1
  <2> QED BY <2>1, <2>2 DEF last
<1> DEFINE IsIt(m) == Statements[m].kind = "table" /\ Statements[m].name = name
<1>2. n \in DOMAIN Statements /\ \A m \in 1..(n - 1) : m \in 1..k
  BY <1>1
<1>3. \A m \in 1..k : m \in DOMAIN Statements
  BY <1>1
<1>4. PICK m \in 1..(n - 1) : IsIt(m) /\ Finds(Statements[n], m)
  BY <1>2, StatementsAssumption
<1>5. m \in 1..k
  BY <1>2, <1>4
<1>6. \A l \in 1..k : IsIt(l) => l = m
  BY <1>3, <1>4, <1>5, StatementsAssumption
<1>7. (CHOOSE l \in 1..k : IsIt(l)) = m
  BY <1>4, <1>5, <1>6
<1>8. name \in TablesOf(1..k)
  BY <1>4, <1>5 DEF TablesOf
<1> QED BY <1>4, <1>5, <1>7, <1>8

(* What is there is made of what was made before, and a server that is     *)
(* ready finds the database its repositories are compiled for.  Of the list*)
(* of statements this takes StatementsAssumption.                          *)
THEOREM DatabaseFits == BootstrapSpec => []DatabaseFitsServers
<1>1. ASSUME BootstrapInv
      PROVE  DatabaseFitsServers
  <2>1. PICK k \in 0..Len(Statements) : MadeUpTo(k)
    BY <1>1 DEF BootstrapInv
  <2>2. made = 1..k
    BY <2>1 DEF MadeUpTo
  <2>3. MadeInOrder
    BY <1>1, GapsAreNone
  <2>4. ASSUME NEW n \in made
        PROVE  /\ Needed(Statements[n]) \subseteq TablesMade
               /\ NamesOwnColumns(Statements[n])
               /\ \A name \in Needed(Statements[n]) :
                     Finds(Statements[n],
                           CHOOSE m \in made : Statements[m].kind = "table"
                                                /\ Statements[m].name = name)
    <3>1. n \in 1..k /\ n \in DOMAIN Statements
      <4>1. n \in made /\ made \subseteq DOMAIN Statements
        BY <1>1 DEF BootstrapInv, BootstrapTypeOK
      <4> QED BY <2>2, <4>1
    <3>2. NamesOwnColumns(Statements[n])
      BY <3>1, StatementsAssumption
    <3>3. ASSUME NEW name \in Needed(Statements[n])
          PROVE  /\ name \in TablesMade
                 /\ Finds(Statements[n],
                          CHOOSE m \in made : Statements[m].kind = "table"
                                               /\ Statements[m].name = name)
      <4>1. LET m == CHOOSE m \in 1..k : Statements[m].kind = "table"
                                         /\ Statements[m].name = name
            IN  m \in 1..k /\ name \in TablesOf(1..k) /\ Finds(Statements[n], m)
        BY <3>1, PrefixFinds
      <4> QED BY <2>2, <4>1 DEF TablesMade
    <3> QED BY <3>2, <3>3
  <2>5. ReadyServerFitsItsDatabase
    <3> SUFFICES ASSUME \E s \in Servers : boot[s] = "ready"
                 PROVE  FitsRepositories(made)
      BY DEF ReadyServerFitsItsDatabase
    <3>1. k = Len(Statements)
      BY <2>1 DEF MadeUpTo
    <3>2. made = DOMAIN Statements
      BY <2>2, <3>1, StatementsAre
    <3> QED BY <3>2, StatementsAssumption
  <2> QED BY <2>3, <2>4, <2>5 DEF DatabaseFitsServers, SchemaGrowsInOrder
<1> QED BY <1>1, BootstrapInvHolds, PTL

-------------------------------------------------------------------------------
(* Configuration.                                                          *)
-------------------------------------------------------------------------------
(* The inductive invariant.  `d` is the database and the registry; c is a  *)
(* call of hydrate.                                                        *)
Store == [flats |-> flats, headers |-> headers, parts |-> parts, writes |-> writes,
          registry |-> registry]

RowsOf(d) == d.flats \cup d.headers

(* A header and its parts are of one save.                                 *)
TablesOK(d) ==
    /\ d.writes \in Nat
    /\ \A r \in RowsOf(d) :
          r.born \in Nat /\ r.at \in Nat /\ r.born <= r.at /\ r.at <= d.writes
    /\ \A r \in d.flats : r.kind \in {"spec", "map", "transport"}
    /\ \A r \in d.headers : r.kind \in {"connector", "relationship"} /\ r.valid
    /\ \A r, q \in d.flats : Names(r, q.kind, q.id) => r = q
    /\ \A r, q \in d.headers : Names(r, q.kind, q.id) => r = q
    /\ \A p \in d.parts : /\ p.kind \in {"connector", "relationship"}
                          /\ p.at \in Nat /\ p.at <= d.writes
                          /\ \A ref \in p.refs : ref.kind \in {"spec", "map"}
    /\ \A p, q \in d.parts : Names(p, q.kind, q.id) => p = q
    /\ \A r \in d.headers, p \in d.parts : Names(p, r.kind, r.id) => p.at = r.at

(* What was read of a row is no older than the row was at time `began`.    *)
Fresh(row, began, d) ==
    \A r \in RowsOf(d) : Names(r, row.kind, row.id) /\ r.at <= began => r.at <= row.at

Whole(e) == \A at \in e.partsAt : at \in Nat /\ (at = e.at \/ e.readAt < at)

EntryOK(e, d) ==
    /\ e.kind \in {"spec", "map", "connector", "relationship"} /\ e.valid
    /\ e.at \in Nat /\ e.at <= d.writes
    /\ e.began \in Nat /\ e.began <= d.writes
    /\ e.kind = "relationship" => \A ref \in e.refs : ref.kind \in {"spec", "map"}
    /\ e.kind \in {"connector", "relationship"} => Whole(e)

Resolved(e, d) ==
    \A ref \in e.refs, r \in d.flats :
        /\ Names(r, ref.kind, ref.id)
        /\ r.tenant = e.tenant /\ r.born <= e.began
        => \E f \in d.registry : Names(f, ref.kind, ref.id)

RegistryOK(d) ==
    /\ \A e, f \in d.registry : Names(e, f.kind, f.id) => e = f
    /\ \A e \in d.registry : EntryOK(e, d) /\ (e.kind = "relationship" => Resolved(e, d))

(* The rows that c must find, and those of them that it is done with.      *)
Must(c, r) == r.tenant = c.tenant /\ r.born <= c.began
Passed(stage) ==
    CASE stage = "map" -> {"spec"}
      [] stage = "connector" -> {"spec", "map"}
      [] stage = "relationship" -> {"spec", "map", "connector"}
      [] stage = "done" -> {"spec", "map", "connector", "relationship"}
      [] OTHER -> {}
DoneWith(c, r) ==
    \/ r.kind \in Passed(c.stage)
    \/ /\ r.kind = "connector" /\ c.stage = "connector" /\ c.step # "list"
       /\ r.id \notin c.list /\ \A x \in c.header : x.row.id # r.id

(* What it is done with is registered; if it runs alone, as it was or newer.*)
WarmFor(c, d) ==
    \A r \in RowsOf(d) :
        Must(c, r) /\ DoneWith(c, r) =>
            \E e \in d.registry : /\ Names(e, r.kind, r.id)
                                  /\ c.alone /\ r.at <= c.began => r.at <= e.at

(* A list of rows was read and is to be registered.                        *)
FlatsRead(c, d) ==
    /\ \A q \in c.list : /\ q.kind = c.stage /\ q.at \in Nat /\ q.at <= d.writes
                         /\ Fresh(q, c.began, d)
    /\ \A q, s \in c.list : q.id = s.id => q = s
    /\ \A r \in d.flats : r.kind = c.stage /\ Must(c, r) => \E q \in c.list : q.id = r.id

(* A header was read, its parts are to be read.                            *)
HeaderRead(c, x, d) ==
    /\ x.row.kind = c.stage /\ x.row.valid /\ x.row.at \in Nat /\ x.row.at <= d.writes
    /\ x.readAt \in Nat /\ x.readAt <= d.writes
    /\ Fresh(x.row, c.began, d)
    /\ \A p \in d.parts : Names(p, x.row.kind, x.row.id) => p.at = x.row.at \/ x.readAt < p.at
    /\ x.row.id \notin c.list

(* A relationship was read, and waits for the others.                      *)
LoadedOK(c, e, d) ==
    /\ EntryOK(e, d) /\ e.kind = "relationship" /\ e.tenant = c.tenant /\ e.began = c.began
    /\ Fresh(e, c.began, d)
    /\ e.id \notin c.list /\ \A x \in c.header : x.row.id # e.id

HeadersRead(c, d) ==
    /\ c.step = "parts" => c.header # {}
    /\ \A x \in c.header : HeaderRead(c, x, d)
    /\ \A x, y \in c.header : x = y
    /\ \A e \in c.loaded : c.stage = "relationship" /\ LoadedOK(c, e, d)
    /\ \A e, f \in c.loaded : e.id = f.id => e = f
    /\ c.stage = "relationship" =>
          \A r \in d.headers : r.kind = "relationship" /\ Must(c, r) =>
              \/ r.id \in c.list
              \/ \E x \in c.header : x.row.id = r.id
              \/ \E e \in c.loaded : e.id = r.id

IsCall(c) ==
    /\ c = [tenant |-> c.tenant, stage |-> c.stage, step |-> c.step, began |-> c.began,
            alone |-> c.alone, list |-> c.list, header |-> c.header, loaded |-> c.loaded]
    /\ c.alone \in BOOLEAN /\ c.began \in Nat
    /\ c.stage \in {"spec", "map", "connector", "relationship", "done", "failed"}
    /\ c.stage \in {"spec", "map"} => c.step \in {"list", "register"}
    /\ c.stage \in {"connector", "relationship"} => c.step \in {"list", "header", "parts"}
    /\ c.stage = "failed" => ~c.alone
    /\ c.step # "parts" => c.header = {}
    /\ c.step = "list" => c.loaded = {}

CallOK(c, d) ==
    /\ IsCall(c) /\ c.began <= d.writes
    /\ c.stage \in {"spec", "map"} /\ c.step = "register" => FlatsRead(c, d)
    /\ c.stage \in {"connector", "relationship"} /\ c.step \in {"header", "parts"} =>
          HeadersRead(c, d)
    /\ WarmFor(c, d)

(* A call that overlaps no other was over before any that is running began.*)
Live(c) == c.stage \notin {"done", "failed"}
Apart(calls) ==
    \A g, h \in DOMAIN calls :
        g # h /\ Live(calls[g]) /\ calls[h].alone =>
            ~Live(calls[h]) /\ calls[h].began <= calls[g].began

ConfigInv ==
    /\ TablesOK(Store)
    /\ RegistryOK(Store)
    /\ Len(hydrates) \in Nat /\ hydrates = [h \in 1..Len(hydrates) |-> hydrates[h]]
    /\ \A h \in DOMAIN hydrates : CallOK(hydrates[h], Store)
    /\ Apart(hydrates)

-------------------------------------------------------------------------------
(* Writes.  A row that was there keeps who it is of and when it came, and  *)
(* has its time or that of the write; the others came with the write.      *)
Written(d, n) ==
    /\ n.registry = d.registry
    /\ d.writes \in Nat /\ n.writes = d.writes + 1
    /\ \A r \in n.flats : \/ r.born = n.writes
                          \/ \E q \in d.flats : /\ Names(r, q.kind, q.id)
                                                /\ r.tenant = q.tenant /\ r.born = q.born
                                                /\ r.at \in {q.at, n.writes}
    /\ \A r \in n.headers : \/ r.born = n.writes
                            \/ \E q \in d.headers : /\ Names(r, q.kind, q.id)
                                                    /\ r.tenant = q.tenant /\ r.born = q.born
                                                    /\ r.at \in {q.at, n.writes}
    /\ \A p \in n.parts : p \in d.parts \/ p.at = n.writes

LEMMA FreshStays ==
    ASSUME NEW d, NEW n, TablesOK(d), TablesOK(n), Written(d, n),
           NEW row, NEW began \in Nat, began <= d.writes, Fresh(row, began, d)
    PROVE  Fresh(row, began, n)
<1> SUFFICES ASSUME NEW r \in RowsOf(n), Names(r, row.kind, row.id), r.at <= began
             PROVE  r.at <= row.at
  BY DEF Fresh
<1>1. /\ r.born \in Nat /\ r.at \in Nat /\ r.born <= r.at
      /\ d.writes \in Nat /\ n.writes = d.writes + 1
  BY DEF TablesOK, Written
<1>2. r.born # n.writes /\ r.at # n.writes
  BY <1>1
<1>3. PICK q \in RowsOf(d) : Names(r, q.kind, q.id) /\ r.at = q.at
  BY <1>2 DEF Written, RowsOf
<1>4. Names(q, row.kind, row.id)
  BY <1>3 DEF Names
<1> QED BY <1>3, <1>4 DEF Fresh

LEMMA EntryStays ==
    ASSUME NEW d, NEW n, Written(d, n), NEW e, EntryOK(e, d)
    PROVE  EntryOK(e, n)
<1>1. d.writes \in Nat /\ n.writes = d.writes + 1
  BY DEF Written
<1>2. e.at \in Nat /\ e.at <= d.writes /\ e.began \in Nat /\ e.began <= d.writes
  BY DEF EntryOK
<1>3. e.at <= n.writes /\ e.began <= n.writes
  BY <1>1, <1>2
<1> QED BY <1>2, <1>3 DEF EntryOK

(* The rows that a call must find were there.                              *)
LEMMA MustWasThere ==
    ASSUME NEW d, NEW n, TablesOK(d), TablesOK(n), Written(d, n),
           NEW r \in RowsOf(n), r.born <= d.writes
    PROVE  /\ \E q \in RowsOf(d) : /\ r.kind = q.kind /\ r.id = q.id
                                   /\ r.tenant = q.tenant /\ r.born = q.born
                                   /\ r.at \in {q.at, n.writes}
           /\ r \in n.flats => \E q \in d.flats : /\ r.kind = q.kind /\ r.id = q.id
                                                  /\ r.tenant = q.tenant /\ r.born = q.born
           /\ r \in n.headers => \E q \in d.headers : /\ r.kind = q.kind /\ r.id = q.id
                                                      /\ r.tenant = q.tenant /\ r.born = q.born
<1>1. r.born \in Nat /\ d.writes \in Nat /\ n.writes = d.writes + 1
  BY DEF TablesOK, Written
<1>2. r.born # n.writes
  BY <1>1
<1> QED BY <1>2 DEF Written, RowsOf, Names

LEMMA CallStays ==
    ASSUME NEW d, NEW n, TablesOK(d), TablesOK(n), Written(d, n), NEW c, CallOK(c, d)
    PROVE  CallOK(c, n)
<1>1. /\ IsCall(c) /\ c.began \in Nat /\ c.began <= d.writes
      /\ d.writes \in Nat /\ n.writes = d.writes + 1
  BY DEF CallOK, IsCall, Written
<1>2. c.began <= n.writes
  BY <1>1
<1>3. \A r \in RowsOf(n) : Must(c, r) =>
          /\ r.born \in Nat /\ r.born <= d.writes
          /\ r.at \in Nat
  BY <1>1 DEF Must, TablesOK
<1>4. WarmFor(c, n)
  <2> SUFFICES ASSUME NEW r \in RowsOf(n), Must(c, r), DoneWith(c, r)
               PROVE  \E e \in d.registry : /\ Names(e, r.kind, r.id)
                                            /\ c.alone /\ r.at <= c.began => r.at <= e.at
    BY DEF WarmFor, Written
  <2>1. PICK q \in RowsOf(d) : /\ r.kind = q.kind /\ r.id = q.id
                               /\ r.tenant = q.tenant /\ r.born = q.born
                               /\ r.at \in {q.at, n.writes}
    BY <1>3, MustWasThere
  <2>2. Must(c, q) /\ DoneWith(c, q)
    BY <2>1 DEF Must, DoneWith
  <2>3. PICK e \in d.registry : /\ Names(e, q.kind, q.id)
                                /\ c.alone /\ q.at <= c.began => q.at <= e.at
    BY <2>2, <1>1 DEF CallOK, WarmFor
  <2>4. r.at <= c.began => r.at = q.at
    BY <1>1, <2>1
  <2> QED BY <2>1, <2>3, <2>4 DEF Names
<1>5. ASSUME c.stage \in {"spec", "map"}, c.step = "register"
      PROVE  FlatsRead(c, n)
  <2>1. FlatsRead(c, d)
    BY <1>5 DEF CallOK
  <2>2. ASSUME NEW q \in c.list
        PROVE  q.kind = c.stage /\ q.at \in Nat /\ q.at <= n.writes /\ Fresh(q, c.began, n)
    <3>1. q.kind = c.stage /\ q.at \in Nat /\ q.at <= d.writes /\ Fresh(q, c.began, d)
      BY <2>1 DEF FlatsRead
    <3>2. q.at <= n.writes
      BY <1>1, <3>1
    <3>3. Fresh(q, c.began, n)
      BY <1>1, <3>1, FreshStays
    <3> QED BY <3>1, <3>2, <3>3
  <2>3. ASSUME NEW r \in n.flats, r.kind = c.stage, Must(c, r)
        PROVE  \E q \in c.list : q.id = r.id
    <3>1. PICK s \in d.flats : r.kind = s.kind /\ r.id = s.id /\ r.tenant = s.tenant
                               /\ r.born = s.born
      BY <1>3, <2>3, MustWasThere DEF RowsOf
    <3>2. Must(c, s) /\ s.kind = c.stage
      BY <2>3, <3>1 DEF Must
    <3> QED BY <2>1, <3>1, <3>2 DEF FlatsRead
  <2> QED BY <2>1, <2>2, <2>3 DEF FlatsRead
<1>6. ASSUME c.stage \in {"connector", "relationship"}, c.step \in {"header", "parts"}
      PROVE  HeadersRead(c, n)
  <2>1. HeadersRead(c, d)
    BY <1>6 DEF CallOK
  <2>2. ASSUME NEW x \in c.header
        PROVE  HeaderRead(c, x, n)
    <3>1. HeaderRead(c, x, d)
      BY <2>1 DEF HeadersRead
    <3>2. x.row.at <= n.writes /\ x.readAt <= n.writes /\ x.readAt < n.writes
      BY <1>1, <3>1 DEF HeaderRead
    <3>3. Fresh(x.row, c.began, n)
      BY <1>1, <3>1, FreshStays DEF HeaderRead
    <3>4. \A p \in n.parts :
             Names(p, x.row.kind, x.row.id) => p.at = x.row.at \/ x.readAt < p.at
      BY <3>1, <3>2 DEF HeaderRead, Written
    <3> QED BY <3>1, <3>2, <3>3, <3>4 DEF HeaderRead
  <2>3. ASSUME NEW e \in c.loaded
        PROVE  c.stage = "relationship" /\ LoadedOK(c, e, n)
    <3>1. c.stage = "relationship" /\ LoadedOK(c, e, d)
      BY <2>1 DEF HeadersRead
    <3>2. EntryOK(e, n)
      BY <3>1, EntryStays DEF LoadedOK
    <3>3. Fresh(e, c.began, n)
      BY <1>1, <3>1, FreshStays DEF LoadedOK
    <3> QED BY <3>1, <3>2, <3>3 DEF LoadedOK
  <2>4. ASSUME c.stage = "relationship", NEW r \in n.headers, r.kind = "relationship", Must(c, r)
        PROVE  \/ r.id \in c.list
               \/ \E x \in c.header : x.row.id = r.id
               \/ \E e \in c.loaded : e.id = r.id
    <3>1. PICK s \in d.headers : r.kind = s.kind /\ r.id = s.id /\ r.tenant = s.tenant
                                 /\ r.born = s.born
      BY <1>3, <2>4, MustWasThere DEF RowsOf
    <3>2. Must(c, s) /\ s.kind = "relationship"
      BY <2>4, <3>1 DEF Must
    <3> QED BY <2>1, <2>4, <3>1, <3>2 DEF HeadersRead
  <2> QED BY <2>1, <2>2, <2>3, <2>4 DEF HeadersRead
<1> QED BY <1>1, <1>2, <1>4, <1>5, <1>6 DEF CallOK

LEMMA RegistryStays ==
    ASSUME NEW d, NEW n, TablesOK(d), TablesOK(n), Written(d, n), RegistryOK(d)
    PROVE  RegistryOK(n)
<1>1. n.registry = d.registry
  BY DEF Written
<1>2. ASSUME NEW e \in d.registry
      PROVE  EntryOK(e, n) /\ (e.kind = "relationship" => Resolved(e, n))
  <2>1. EntryOK(e, d) /\ (e.kind = "relationship" => Resolved(e, d))
    BY DEF RegistryOK
  <2>2. EntryOK(e, n)
    BY <2>1, EntryStays
  <2>3. ASSUME e.kind = "relationship", NEW ref \in e.refs, NEW r \in n.flats,
               Names(r, ref.kind, ref.id), r.tenant = e.tenant, r.born <= e.began
        PROVE  \E f \in n.registry : Names(f, ref.kind, ref.id)
    <3>1. /\ e.began \in Nat /\ e.began <= d.writes /\ r.born \in Nat /\ d.writes \in Nat
          /\ r \in RowsOf(n)
      BY <2>1 DEF EntryOK, TablesOK, RowsOf
    <3>2. r.born <= d.writes
      BY <2>3, <3>1
    <3>3. PICK s \in d.flats : r.kind = s.kind /\ r.id = s.id /\ r.tenant = s.tenant
                               /\ r.born = s.born
      BY <3>1, <3>2, MustWasThere
    <3>4. Names(s, ref.kind, ref.id) /\ s.tenant = e.tenant /\ s.born <= e.began
      BY <2>3, <3>3 DEF Names
    <3> QED BY <1>1, <2>1, <2>3, <3>4 DEF Resolved
  <2> QED BY <2>2, <2>3 DEF Resolved
<1> QED BY <1>1, <1>2 DEF RegistryOK

(* A write keeps the invariant if it keeps the tables.                     *)
LEMMA WriteKeeps ==
    ASSUME ConfigInv, TablesOK(Store'), Written(Store, Store'), UNCHANGED hydrates
    PROVE  ConfigInv'
<1>1. TablesOK(Store) /\ RegistryOK(Store)
  BY DEF ConfigInv
<1>2. RegistryOK(Store')
  BY <1>1, RegistryStays
<1>3. \A h \in DOMAIN hydrates : CallOK(hydrates[h], Store')
  BY <1>1, CallStays DEF ConfigInv
<1> QED BY <1>2, <1>3 DEF ConfigInv

(* An upsert leaves one row of the id, of the time of the write.           *)
LEMMA UpsertWrites ==
    ASSUME NEW rows, \A r, q \in rows : Names(r, q.kind, q.id) => r = q,
           NEW row, row = [kind |-> row.kind, id |-> row.id, tenant |-> row.tenant,
                           at |-> row.at, born |-> row.born, valid |-> row.valid],
           NEW new, new = Upsert(rows, row)
    PROVE  /\ \A r, q \in new : Names(r, q.kind, q.id) => r = q
           /\ \A r \in new :
                 \/ r \in rows /\ ~Names(r, row.kind, row.id)
                 \/ /\ r.kind = row.kind /\ r.id = row.id /\ r.at = row.at
                    /\ r.valid = row.valid
                    /\ \/ r.born = row.born
                       \/ \E q \in rows : /\ Names(q, row.kind, row.id)
                                          /\ r.tenant = q.tenant /\ r.born = q.born
<1> DEFINE old == {r \in rows : Names(r, row.kind, row.id)}
           over(r) == [kind |-> row.kind, id |-> row.id, tenant |-> r.tenant, at |-> row.at,
                       born |-> r.born, valid |-> row.valid]
           put(r) == [row EXCEPT !.tenant = r.tenant, !.born = r.born]
<1>1. ASSUME NEW r
      PROVE  put(r) = over(r)
  <2> DEFINE theirs == r.tenant
             since == r.born
             mid == [row EXCEPT !.tenant = theirs]
  <2>1. mid = [kind |-> row.kind, id |-> row.id, tenant |-> theirs, at |-> row.at,
               born |-> row.born, valid |-> row.valid]
    OBVIOUS
  <2>2. [row EXCEPT !.tenant = theirs, !.born = since] = [mid EXCEPT !.born = since]
    OBVIOUS
  <2> HIDE DEF mid, theirs, since
  <2>3. [mid EXCEPT !.born = since]
            = [kind |-> row.kind, id |-> row.id, tenant |-> theirs, at |-> row.at,
               born |-> since, valid |-> row.valid]
    BY <2>1
  <2> QED BY <2>2, <2>3 DEF theirs, since
<1>2. new = (rows \ old) \cup (IF old = {} THEN {row} ELSE {over(r) : r \in old})
  <2>1. new = (rows \ old) \cup (IF old = {} THEN {row} ELSE {put(r) : r \in old})
    BY DEF Upsert
  <2> HIDE DEF put, over, old
  <2>2. {put(r) : r \in old} = {over(r) : r \in old}
    BY <1>1
  <2> QED BY <2>1, <2>2
<1>3. \A r, q \in old : r = q
  BY DEF Names
<1>4. \A r : /\ over(r).kind = row.kind /\ over(r).id = row.id /\ over(r).at = row.at
             /\ over(r).valid = row.valid /\ over(r).born = r.born /\ over(r).tenant = r.tenant
  OBVIOUS
<1> HIDE DEF over
<1>5. \A r \in new : \/ r \in rows /\ ~Names(r, row.kind, row.id)
                     \/ r = row /\ old = {}
                     \/ \E q \in old : r = over(q)
  BY <1>2
<1>6. \A r \in new :
         \/ r \in rows /\ ~Names(r, row.kind, row.id)
         \/ /\ r.kind = row.kind /\ r.id = row.id /\ r.at = row.at /\ r.valid = row.valid
            /\ \/ r.born = row.born
               \/ \E q \in rows : /\ Names(q, row.kind, row.id)
                                  /\ r.tenant = q.tenant /\ r.born = q.born
  BY <1>4, <1>5
<1>7. ASSUME NEW r \in new, NEW q \in new, Names(r, q.kind, q.id)
      PROVE  r = q
  <2>1. CASE r \in rows /\ q \in rows
    BY <1>7, <2>1
  <2>2. CASE Names(r, row.kind, row.id) /\ Names(q, row.kind, row.id)
    BY <1>3, <1>5, <2>2
  <2>3. Names(r, row.kind, row.id) <=> Names(q, row.kind, row.id)
    BY <1>7 DEF Names
  <2> QED BY <1>6, <2>1, <2>2, <2>3 DEF Names
<1> QED BY <1>6, <1>7

LEMMA FlatSaved ==
    ASSUME ConfigInv, NEW t, NEW f \in Flats, SaveFlat(t, f)
    PROVE  ConfigInv'
<1> DEFINE d == Store
           n == Store'
<1>1. TablesOK(d) /\ writes \in Nat
  BY DEF ConfigInv, TablesOK, Store
<1>2. writes' = writes + 1 /\ UNCHANGED <<headers, parts, registry, hydrates>>
  BY DEF SaveFlat, Writes
<1>3. /\ \A r, q \in flats' : Names(r, q.kind, q.id) => r = q
      /\ \A r \in flats' :
            \/ r \in flats /\ ~Names(r, f.kind, f.id)
            \/ /\ Names(r, f.kind, f.id) /\ r.at = writes + 1
               /\ \/ r.born = writes + 1
                  \/ \E q \in flats : /\ Names(q, f.kind, f.id)
                                      /\ r.tenant = q.tenant /\ r.born = q.born
  <2>1. \A r, q \in flats : Names(r, q.kind, q.id) => r = q
    BY <1>1 DEF TablesOK, Store
  <2> DEFINE row == RowOf(t, f.kind, f.id, f.valid)
  <2>2. /\ row = [kind |-> row.kind, id |-> row.id, tenant |-> row.tenant,
                  at |-> row.at, born |-> row.born, valid |-> row.valid]
        /\ row.kind = f.kind /\ row.id = f.id /\ row.at = writes + 1 /\ row.born = writes + 1
        /\ flats' = Upsert(flats, row)
    BY DEF RowOf, SaveFlat
  <2> HIDE DEF row
  <2> QED BY <2>1, <2>2, UpsertWrites DEF Names
<1>4. f.kind \in {"spec", "map", "transport"}
  BY ConfigAssumption
<1>5. /\ d.flats = flats /\ d.headers = headers /\ d.parts = parts /\ d.writes = writes
      /\ d.registry = registry
      /\ n.flats = flats' /\ n.headers = headers /\ n.parts = parts /\ n.writes = writes + 1
      /\ n.registry = registry
  BY <1>2 DEF Store
<1> HIDE DEF d, n
<1>6. \A r \in n.flats : /\ r.born \in Nat /\ r.at \in Nat /\ r.born <= r.at
                         /\ r.at <= n.writes /\ r.kind \in {"spec", "map", "transport"}
  BY <1>1, <1>3, <1>4, <1>5 DEF TablesOK, RowsOf, Names
<1>7. \A r \in n.headers : r.at <= n.writes
  BY <1>1, <1>5 DEF TablesOK, RowsOf
<1>8. \A p \in n.parts : p.at <= n.writes
  BY <1>1, <1>5 DEF TablesOK
<1>9. TablesOK(n)
  BY <1>1, <1>3, <1>5, <1>6, <1>7, <1>8 DEF TablesOK, RowsOf
<1>10. Written(d, n)
  BY <1>1, <1>3, <1>5 DEF Written, Names
<1> QED BY <1>2, <1>9, <1>10, WriteKeeps DEF d, n

(* An aggregate is saved: its header upserted, its parts replaced by own.  *)
LEMMA AggregateSaved ==
    ASSUME ConfigInv, NEW k \in {"connector", "relationship"}, NEW i, NEW t, NEW own,
           own.kind = k, own.id = i, own.at = writes + 1,
           \A ref \in own.refs : ref.kind \in {"spec", "map"},
           headers' = Upsert(headers, RowOf(t, k, i, TRUE)),
           parts' = {p \in parts : ~Names(p, k, i)} \cup {own},
           writes' = writes + 1, UNCHANGED <<flats, registry, hydrates>>
    PROVE  ConfigInv'
<1> DEFINE d == Store
           n == Store'
<1>1. TablesOK(d) /\ writes \in Nat
  BY DEF ConfigInv, TablesOK, Store
<1>2. /\ \A r, q \in headers' : Names(r, q.kind, q.id) => r = q
      /\ \A r \in headers' :
            \/ r \in headers /\ ~Names(r, k, i)
            \/ /\ Names(r, k, i) /\ r.at = writes + 1 /\ r.valid
               /\ \/ r.born = writes + 1
                  \/ \E q \in headers : /\ Names(q, k, i)
                                        /\ r.tenant = q.tenant /\ r.born = q.born
  <2>1. \A r, q \in headers : Names(r, q.kind, q.id) => r = q
    BY <1>1 DEF TablesOK, Store
  <2> DEFINE row == RowOf(t, k, i, TRUE)
  <2>2. /\ row = [kind |-> row.kind, id |-> row.id, tenant |-> row.tenant,
                  at |-> row.at, born |-> row.born, valid |-> row.valid]
        /\ row.kind = k /\ row.id = i /\ row.at = writes + 1 /\ row.born = writes + 1
        /\ headers' = Upsert(headers, row)
    BY DEF RowOf
  <2>3. row.valid = TRUE
    BY DEF RowOf
  <2> HIDE DEF row
  <2>4. \A r : r.valid = row.valid => r.valid
    BY <2>3
  <2>5. /\ \A r, q \in headers' : Names(r, q.kind, q.id) => r = q
        /\ \A r \in headers' :
              \/ r \in headers /\ ~Names(r, row.kind, row.id)
              \/ /\ r.kind = row.kind /\ r.id = row.id /\ r.at = row.at
                 /\ r.valid = row.valid
                 /\ \/ r.born = row.born
                    \/ \E q \in headers : /\ Names(q, row.kind, row.id)
                                          /\ r.tenant = q.tenant /\ r.born = q.born
    BY <2>1, <2>2, UpsertWrites
  <2>6. ASSUME NEW r \in headers'
        PROVE  \/ r \in headers /\ ~Names(r, k, i)
               \/ /\ Names(r, k, i) /\ r.at = writes + 1 /\ r.valid
                  /\ \/ r.born = writes + 1
                     \/ \E q \in headers : /\ Names(q, k, i)
                                           /\ r.tenant = q.tenant /\ r.born = q.born
    <3>1. CASE r \in headers /\ ~Names(r, row.kind, row.id)
      BY <2>2, <3>1
    <3>2. CASE ~(r \in headers /\ ~Names(r, row.kind, row.id))
      <4>1. r.valid
        BY <2>4, <2>5, <3>2
      <4>2. /\ Names(r, k, i) /\ r.at = writes + 1
            /\ \/ r.born = writes + 1
               \/ \E q \in headers : /\ Names(q, k, i)
                                     /\ r.tenant = q.tenant /\ r.born = q.born
        <5>1. /\ r.kind = row.kind /\ r.id = row.id /\ r.at = row.at
              /\ \/ r.born = row.born
                 \/ \E q \in headers : /\ Names(q, row.kind, row.id)
                                       /\ r.tenant = q.tenant /\ r.born = q.born
          BY <2>5, <3>2
        <5>2. /\ row.kind = k /\ row.id = i /\ row.at = writes + 1 /\ row.born = writes + 1
          BY <2>2
        <5>3. r.kind = k /\ r.id = i /\ r.at = writes + 1
          BY <5>1, <5>2
        <5>4. \/ r.born = writes + 1
              \/ \E q \in headers : /\ Names(q, k, i)
                                    /\ r.tenant = q.tenant /\ r.born = q.born
          BY <5>1, <5>2
        <5>5. Names(r, k, i)
          BY <5>3 DEF Names
        <5> QED BY <5>3, <5>4, <5>5
      <4> QED BY <4>1, <4>2
    <3> QED BY <3>1, <3>2
  <2> QED BY <2>5, <2>6
<1>3. /\ d.flats = flats /\ d.headers = headers /\ d.parts = parts /\ d.writes = writes
      /\ d.registry = registry
      /\ n.flats = flats /\ n.headers = headers' /\ n.parts = parts' /\ n.writes = writes + 1
      /\ n.registry = registry
  BY DEF Store
<1> HIDE DEF d, n
<1>4. ASSUME NEW r \in n.headers
      PROVE  /\ r.born \in Nat /\ r.at \in Nat /\ r.born <= r.at
             /\ r.at <= n.writes /\ r.kind \in {"connector", "relationship"} /\ r.valid
  <2>1. r \in headers' /\ n.writes = writes + 1
    BY <1>3
  <2>2. \A q \in headers : /\ q.born \in Nat /\ q.at \in Nat /\ q.born <= q.at
                           /\ q.at <= writes
                           /\ q.kind \in {"connector", "relationship"} /\ q.valid
    BY <1>1, <1>3 DEF TablesOK, RowsOf
  <2>3. CASE r \in headers
    <3>1. r.at <= writes + 1
      BY <1>1, <2>2, <2>3
    <3> QED BY <2>1, <2>2, <2>3, <3>1
  <2>4. CASE r \notin headers
    <3>1. /\ r.kind = k /\ r.at = writes + 1 /\ r.valid
          /\ \/ r.born = writes + 1
             \/ \E q \in headers : r.born = q.born
      BY <1>2, <2>1, <2>4 DEF Names
    <3> QED BY <1>1, <2>1, <2>2, <3>1
  <2> QED BY <2>3, <2>4
<1>5. \A r \in n.flats : r.at <= n.writes
  BY <1>1, <1>3 DEF TablesOK, RowsOf
<1>6. \A p \in n.parts : \/ p \in parts /\ ~Names(p, k, i)
                         \/ p = own
  BY <1>3
<1>7. \A p \in n.parts : /\ p.kind \in {"connector", "relationship"}
                         /\ p.at \in Nat /\ p.at <= n.writes
                         /\ \A ref \in p.refs : ref.kind \in {"spec", "map"}
  BY <1>1, <1>3, <1>6 DEF TablesOK
<1>8. \A p, q \in n.parts : Names(p, q.kind, q.id) => p = q
  BY <1>1, <1>3, <1>6 DEF TablesOK, Names
<1>9. \A r \in n.headers :
         \/ r \in headers /\ ~Names(r, k, i)
         \/ /\ Names(r, k, i) /\ r.at = writes + 1
            /\ \/ r.born = writes + 1
               \/ \E q \in headers : /\ Names(q, k, i)
                                     /\ r.tenant = q.tenant /\ r.born = q.born
  BY <1>2, <1>3
<1>10. ASSUME NEW r \in n.headers, NEW p \in n.parts, Names(p, r.kind, r.id)
       PROVE  p.at = r.at
  <2>1. \A q \in headers, s \in parts : Names(s, q.kind, q.id) => s.at = q.at
    BY <1>1, <1>3 DEF TablesOK
  <2>2. Names(r, k, i) <=> Names(p, k, i)
    BY <1>10 DEF Names
  <2>3. CASE Names(r, k, i)
    BY <1>6, <1>9, <2>2, <2>3
  <2>4. CASE ~Names(r, k, i)
    <3>1. Names(own, k, i)
      BY DEF Names
    <3> QED BY <1>6, <1>9, <1>10, <2>1, <2>2, <2>4, <3>1
  <2> QED BY <2>3, <2>4
<1>11. TablesOK(n)
  <2>1. \A r, q \in n.headers : Names(r, q.kind, q.id) => r = q
    BY <1>2, <1>3
  <2>2. n.writes \in Nat
    BY <1>1, <1>3
  <2>3. /\ \A r \in n.flats : r.kind \in {"spec", "map", "transport"}
        /\ \A r, q \in n.flats : Names(r, q.kind, q.id) => r = q
        /\ \A r \in n.flats : r.born \in Nat /\ r.at \in Nat /\ r.born <= r.at
    BY <1>1, <1>3 DEF TablesOK, RowsOf
  <2>4. \A r \in RowsOf(n) :
           r.born \in Nat /\ r.at \in Nat /\ r.born <= r.at /\ r.at <= n.writes
    BY <1>4, <1>5, <2>3 DEF RowsOf
  <2>5. \A r \in n.headers : r.kind \in {"connector", "relationship"} /\ r.valid
    BY <1>4
  <2> QED BY <1>7, <1>8, <1>10, <2>1, <2>2, <2>3, <2>4, <2>5 DEF TablesOK
<1>12. Written(d, n)
  BY <1>1, <1>3, <1>6, <1>9 DEF Written, Names
<1> QED BY <1>11, <1>12, WriteKeeps DEF d, n

LEMMA ConnectorSaved ==
    ASSUME ConfigInv, NEW t, NEW id, SaveConnector(t, id)
    PROVE  ConfigInv'
<1> DEFINE own == [kind |-> "connector", id |-> id, tenant |-> t, at |-> writes + 1, refs |-> {}]
<1>1. /\ own.kind = "connector" /\ own.id = id /\ own.at = writes + 1 /\ own.refs = {}
      /\ headers' = Upsert(headers, RowOf(t, "connector", id, TRUE))
      /\ parts' = {p \in parts : ~Names(p, "connector", id)} \cup {own}
      /\ writes' = writes + 1 /\ UNCHANGED <<flats, registry, hydrates>>
  BY DEF SaveConnector, Writes
<1> HIDE DEF own
<1> QED BY <1>1, AggregateSaved

LEMMA RelationshipSaved ==
    ASSUME ConfigInv, NEW t, NEW b \in Bindings, SaveRelationship(t, b)
    PROVE  ConfigInv'
<1> DEFINE own == [kind |-> "relationship", id |-> b.id, tenant |-> t, at |-> writes + 1,
                   refs |-> b.refs]
<1>1. /\ own.kind = "relationship" /\ own.id = b.id /\ own.at = writes + 1 /\ own.refs = b.refs
      /\ headers' = Upsert(headers, RowOf(t, "relationship", b.id, TRUE))
      /\ parts' = {p \in parts : ~Names(p, "relationship", b.id)} \cup {own}
      /\ writes' = writes + 1 /\ UNCHANGED <<flats, registry, hydrates>>
  BY DEF SaveRelationship, Writes
<1>2. \A ref \in b.refs : ref.kind \in {"spec", "map"}
  BY ConfigAssumption
<1> HIDE DEF own
<1> QED BY <1>1, <1>2, AggregateSaved

LEMMA ConnectorDeleted ==
    ASSUME ConfigInv, NEW t, NEW id, DeleteConnector(t, id)
    PROVE  ConfigInv'
<1> DEFINE d == Store
           n == Store'
<1>1. TablesOK(d) /\ writes \in Nat
  BY DEF ConfigInv, TablesOK, Store
<1>2. /\ d.flats = flats /\ d.headers = headers /\ d.parts = parts /\ d.writes = writes
      /\ d.registry = registry
      /\ n.flats = flats /\ n.headers = headers' /\ n.parts = parts' /\ n.writes = writes + 1
      /\ n.registry = registry /\ hydrates' = hydrates
      /\ headers' \subseteq headers /\ parts' \subseteq parts
  BY DEF Store, DeleteConnector, Writes
<1> HIDE DEF d, n
<1>3. \A r \in RowsOf(n) : r \in RowsOf(d) /\ r.at <= n.writes
  BY <1>1, <1>2 DEF TablesOK, RowsOf
<1>4. \A p \in n.parts : p \in d.parts /\ p.at <= n.writes
  BY <1>1, <1>2 DEF TablesOK
<1>5. TablesOK(n)
  BY <1>1, <1>2, <1>3, <1>4 DEF TablesOK
<1>6. Written(d, n)
  BY <1>1, <1>2 DEF Written, Names
<1> QED BY <1>2, <1>5, <1>6, WriteKeeps DEF d, n

-------------------------------------------------------------------------------
(* Hydrates.  What happens to the fields of a call.                        *)
Call(t, stage, step, began, alone, list, header, loaded) ==
    [tenant |-> t, stage |-> stage, step |-> step, began |-> began, alone |-> alone,
     list |-> list, header |-> header, loaded |-> loaded]

LEMMA StepAndList ==
    ASSUME NEW c, IsCall(c), NEW v, NEW w
    PROVE  [c EXCEPT !.step = v, !.list = w]
               = Call(c.tenant, c.stage, v, c.began, c.alone, w, c.header, c.loaded)
<1> DEFINE m == [c EXCEPT !.step = v]
<1>1. m = Call(c.tenant, c.stage, v, c.began, c.alone, c.list, c.header, c.loaded)
  BY DEF Call, IsCall
<1>2. [c EXCEPT !.step = v, !.list = w] = [m EXCEPT !.list = w]
  OBVIOUS
<1> HIDE DEF m
<1>3. [m EXCEPT !.list = w]
          = Call(c.tenant, c.stage, v, c.began, c.alone, w, c.header, c.loaded)
  BY <1>1 DEF Call
<1> QED BY <1>2, <1>3

LEMMA StepAndHeader ==
    ASSUME NEW c, IsCall(c), NEW v, NEW w
    PROVE  [c EXCEPT !.step = v, !.header = w]
               = Call(c.tenant, c.stage, v, c.began, c.alone, c.list, w, c.loaded)
<1> DEFINE m == [c EXCEPT !.step = v]
<1>1. m = Call(c.tenant, c.stage, v, c.began, c.alone, c.list, c.header, c.loaded)
  BY DEF Call, IsCall
<1>2. [c EXCEPT !.step = v, !.header = w] = [m EXCEPT !.header = w]
  OBVIOUS
<1> HIDE DEF m
<1>3. [m EXCEPT !.header = w]
          = Call(c.tenant, c.stage, v, c.began, c.alone, c.list, w, c.loaded)
  BY <1>1 DEF Call
<1> QED BY <1>2, <1>3

Fetched(c, v, w, x) == [c EXCEPT !.list = v, !.header = w, !.step = x]
LEMMA ListHeaderStep ==
    ASSUME NEW c, IsCall(c), NEW v, NEW w, NEW x
    PROVE  Fetched(c, v, w, x)
               = Call(c.tenant, c.stage, x, c.began, c.alone, v, w, c.loaded)
<1> DEFINE m == [c EXCEPT !.list = v]
           n == [m EXCEPT !.header = w]
<1>1. m = Call(c.tenant, c.stage, c.step, c.began, c.alone, v, c.header, c.loaded)
  BY DEF Call, IsCall
<1>2. Fetched(c, v, w, x) = [n EXCEPT !.step = x]
  BY DEF Fetched
<1> HIDE DEF m
<1>3. n = Call(c.tenant, c.stage, c.step, c.began, c.alone, v, w, c.loaded)
  BY <1>1 DEF Call
<1> HIDE DEF n
<1>4. [n EXCEPT !.step = x] = Call(c.tenant, c.stage, x, c.began, c.alone, v, w, c.loaded)
  BY <1>3 DEF Call
<1> QED BY <1>2, <1>4

LEMMA NextStageSets ==
    ASSUME NEW c, IsCall(c), NEW v
    PROVE  [c EXCEPT !.stage = v, !.step = "list", !.list = {}, !.loaded = {}]
               = Call(c.tenant, v, "list", c.began, c.alone, {}, c.header, {})
<1> DEFINE k == [c EXCEPT !.stage = v]
           m == [k EXCEPT !.step = "list"]
           n == [m EXCEPT !.list = {}]
<1>1. k = Call(c.tenant, v, c.step, c.began, c.alone, c.list, c.header, c.loaded)
  BY DEF Call, IsCall
<1>2. [c EXCEPT !.stage = v, !.step = "list", !.list = {}, !.loaded = {}]
          = [n EXCEPT !.loaded = {}]
  OBVIOUS
<1> HIDE DEF k
<1>3. m = Call(c.tenant, v, "list", c.began, c.alone, c.list, c.header, c.loaded)
  BY <1>1 DEF Call
<1> HIDE DEF m
<1>4. n = Call(c.tenant, v, "list", c.began, c.alone, {}, c.header, c.loaded)
  BY <1>3 DEF Call
<1> HIDE DEF n
<1>5. [n EXCEPT !.loaded = {}] = Call(c.tenant, v, "list", c.began, c.alone, {}, c.header, {})
  BY <1>4 DEF Call
<1> QED BY <1>2, <1>5

LEMMA Stage ==
    /\ After("spec") = "map" /\ After("map") = "connector"
    /\ After("connector") = "relationship" /\ After("relationship") = "done"
<1>1. /\ DOMAIN Stages = 1..5
      /\ Stages[1] = "spec" /\ Stages[2] = "map" /\ Stages[3] = "connector"
      /\ Stages[4] = "relationship" /\ Stages[5] = "done"
  BY DEF Stages
<1>2. /\ (CHOOSE n \in DOMAIN Stages : Stages[n] = "spec") = 1
      /\ (CHOOSE n \in DOMAIN Stages : Stages[n] = "map") = 2
      /\ (CHOOSE n \in DOMAIN Stages : Stages[n] = "connector") = 3
      /\ (CHOOSE n \in DOMAIN Stages : Stages[n] = "relationship") = 4
  BY <1>1
<1> QED BY <1>1, <1>2 DEF After

-------------------------------------------------------------------------------
(* Entries replace what was registered of their ids: every name that was   *)
(* there still is.                                                         *)
Held(d, entries) == [flats |-> d.flats, headers |-> d.headers, parts |-> d.parts,
                     writes |-> d.writes, registry |-> Registered(d.registry, entries)]

LEMMA HeldIs ==
    ASSUME NEW d, NEW entries
    PROVE  LET n == Held(d, entries)
           IN  /\ n.flats = d.flats /\ n.headers = d.headers /\ n.parts = d.parts
               /\ n.writes = d.writes /\ RowsOf(n) = RowsOf(d)
               /\ \A e \in n.registry : e \in d.registry \/ e \in entries
               /\ \A e \in entries : e \in n.registry
               /\ \A e \in d.registry :
                     e \in n.registry \/ \E f \in entries : Names(e, f.kind, f.id)
BY DEF Held, Registered, RowsOf

LEMMA NamesStay ==
    ASSUME NEW d, NEW entries, NEW k, NEW i, \E e \in d.registry : Names(e, k, i)
    PROVE  \E e \in Held(d, entries).registry : Names(e, k, i)
<1>1. PICK e \in d.registry : Names(e, k, i)
  OBVIOUS
<1>2. CASE \E f \in entries : Names(e, f.kind, f.id)
  BY <1>1, <1>2, HeldIs DEF Names
<1>3. CASE ~\E f \in entries : Names(e, f.kind, f.id)
  BY <1>1, <1>3, HeldIs
<1> QED BY <1>2, <1>3

LEMMA RegistersSoundly ==
    ASSUME NEW d, RegistryOK(d), NEW entries,
           \A e, f \in entries : Names(e, f.kind, f.id) => e = f,
           \A e \in entries : EntryOK(e, d) /\ (e.kind = "relationship" => Resolved(e, d))
    PROVE  RegistryOK(Held(d, entries))
<1> DEFINE n == Held(d, entries)
<1>1. ASSUME NEW e \in n.registry
      PROVE  EntryOK(e, n) /\ (e.kind = "relationship" => Resolved(e, n))
  <2>1. e \in d.registry \/ e \in entries
    BY HeldIs
  <2>2. EntryOK(e, d) /\ (e.kind = "relationship" => Resolved(e, d))
    BY <2>1 DEF RegistryOK
  <2>3. EntryOK(e, n)
    BY <2>2, HeldIs DEF EntryOK
  <2>4. ASSUME e.kind = "relationship", NEW ref \in e.refs, NEW r \in n.flats,
               Names(r, ref.kind, ref.id), r.tenant = e.tenant, r.born <= e.began
        PROVE  \E f \in n.registry : Names(f, ref.kind, ref.id)
    <3>1. \E f \in d.registry : Names(f, ref.kind, ref.id)
      BY <2>2, <2>4, HeldIs DEF Resolved
    <3> QED BY <3>1, NamesStay
  <2> QED BY <2>3, <2>4 DEF Resolved
<1>2. ASSUME NEW e \in n.registry, NEW f \in n.registry, Names(e, f.kind, f.id)
      PROVE  e = f
  <2>1. n.registry = {x \in d.registry : \A y \in entries : ~Names(x, y.kind, y.id)} \cup entries
    BY DEF Held, Registered
  <2>2. CASE e \in entries /\ f \in entries
    BY <1>2, <2>2
  <2>3. CASE e \in d.registry /\ f \in d.registry
    BY <1>2, <2>3 DEF RegistryOK
  <2>4. CASE e \in entries /\ f \notin entries
    BY <1>2, <2>1, <2>4 DEF Names
  <2>5. CASE e \notin entries /\ f \in entries
    BY <1>2, <2>1, <2>5 DEF Names
  <2> QED BY <2>1, <2>2, <2>3, <2>4, <2>5
<1> HIDE DEF n
<1>3. RegistryOK(n)
  BY <1>1, <1>2 DEF RegistryOK
<1> QED BY <1>3 DEF n

(* Entries that were read no earlier than c began leave c warm.            *)
LEMMA WarmStays ==
    ASSUME NEW d, TablesOK(d), NEW entries, NEW c, WarmFor(c, d), c.began \in Nat,
           NEW began \in Nat, c.alone => c.began <= began,
           \A e \in entries : Fresh(e, began, d)
    PROVE  WarmFor(c, Held(d, entries))
<1> DEFINE n == Held(d, entries)
<1> SUFFICES ASSUME NEW r \in RowsOf(d), Must(c, r), DoneWith(c, r)
             PROVE  \E e \in n.registry : /\ Names(e, r.kind, r.id)
                                          /\ c.alone /\ r.at <= c.began => r.at <= e.at
  BY HeldIs DEF WarmFor
<1>1. PICK e \in d.registry : /\ Names(e, r.kind, r.id)
                              /\ c.alone /\ r.at <= c.began => r.at <= e.at
  BY DEF WarmFor
<1>2. CASE e \in n.registry
  BY <1>1, <1>2
<1>3. CASE e \notin n.registry
  <2>1. PICK f \in entries : Names(e, f.kind, f.id)
    BY <1>3, HeldIs
  <2>2. Names(f, r.kind, r.id) /\ Names(r, f.kind, f.id)
    BY <1>1, <2>1 DEF Names
  <2>3. f \in n.registry
    BY HeldIs
  <2>4. ASSUME c.alone, r.at <= c.began
        PROVE  r.at <= f.at
    <3>1. r.at \in Nat
      BY DEF TablesOK
    <3>2. r.at <= began
      BY <2>4, <3>1
    <3> QED BY <2>2, <3>2 DEF Fresh
  <2> QED BY <2>2, <2>3, <2>4
<1> QED BY <1>2, <1>3

LEMMA FunctionIsSequence ==
    ASSUME NEW S, NEW l \in Nat, NEW f \in [1..l -> S]
    PROVE  Len(f) \in Nat /\ f = [k \in 1..Len(f) |-> f[k]]
<1>1. f \in Seq(S)
  BY SeqDef
<1> QED BY <1>1, LenProperties

(* Call h becomes c, and what it registers is no older than when it began. *)
LEMMA OneCallMoves ==
    ASSUME ConfigInv, NEW h \in DOMAIN hydrates, NEW c, NEW entries,
           hydrates' = [hydrates EXCEPT ![h] = c], Store' = Held(Store, entries),
           Live(hydrates[h]), c.alone => hydrates[h].alone,
           Live(c) => c.began = hydrates[h].began,
           \A e, f \in entries : Names(e, f.kind, f.id) => e = f,
           \A e \in entries : /\ EntryOK(e, Store) /\ Fresh(e, hydrates[h].began, Store)
                              /\ e.kind = "relationship" => Resolved(e, Store),
           CallOK(c, Held(Store, entries))
    PROVE  ConfigInv'
<1> DEFINE d == Store
           n == Held(d, entries)
<1>1. TablesOK(d) /\ RegistryOK(d) /\ Apart(hydrates)
  BY DEF ConfigInv
<1>2. RegistryOK(n)
  BY <1>1, RegistersSoundly
<1>3. TablesOK(n)
  BY <1>1, HeldIs DEF TablesOK
<1>4. /\ DOMAIN hydrates' = DOMAIN hydrates /\ hydrates'[h] = c
      /\ \A k \in DOMAIN hydrates : k # h => hydrates'[k] = hydrates[k]
  OBVIOUS
<1>5. \A k \in DOMAIN hydrates : CallOK(hydrates[k], d)
  BY DEF ConfigInv
<1>6. ASSUME NEW k \in DOMAIN hydrates, k # h
      PROVE  CallOK(hydrates[k], n)
  <2> DEFINE o == hydrates[k]
             b == hydrates[h].began
  <2>1. CallOK(o, d) /\ o.began \in Nat /\ b \in Nat
    BY <1>5 DEF CallOK, IsCall
  <2>2. o.alone => o.began <= b
    BY <1>1, <1>6 DEF Apart
  <2> HIDE DEF o, b, d
  <2>3. \A e \in entries : Fresh(e, b, d)
    BY DEF b, d
  <2>4. WarmFor(o, n)
    BY <1>1, <2>1, <2>2, <2>3, WarmStays DEF CallOK
  <2>5. o.began <= n.writes
    BY <2>1, HeldIs DEF CallOK
  <2>6. FlatsRead(o, d) => FlatsRead(o, n)
    BY HeldIs DEF FlatsRead, Fresh
  <2>7. HeadersRead(o, d) => HeadersRead(o, n)
    <3>1. \A x : HeaderRead(o, x, d) => HeaderRead(o, x, n)
      BY HeldIs DEF HeaderRead, Fresh
    <3>2. \A e : EntryOK(e, d) => EntryOK(e, n)
      BY HeldIs DEF EntryOK
    <3>3. \A e : LoadedOK(o, e, d) => LoadedOK(o, e, n)
      BY <3>2, HeldIs DEF LoadedOK, Fresh
    <3> QED BY <3>1, <3>3, HeldIs DEF HeadersRead
  <2>8. CallOK(o, n)
    BY <2>1, <2>4, <2>5, <2>6, <2>7 DEF CallOK
  <2> QED BY <2>8 DEF o
<1>7. \A k \in DOMAIN hydrates' : CallOK(hydrates'[k], n)
  BY <1>4, <1>6
<1>8. Apart(hydrates')
  BY <1>1, <1>4 DEF Apart
<1>9. /\ Len(hydrates') \in Nat
      /\ hydrates' = [k \in 1..Len(hydrates') |-> hydrates'[k]]
  <2> DEFINE l == Len(hydrates)
             S == {hydrates'[k] : k \in 1..l}
  <2>1. l \in Nat /\ DOMAIN hydrates = 1..l
    BY DEF ConfigInv
  <2>2. hydrates' = [k \in 1..l |-> hydrates'[k]]
    BY <2>1
  <2>3. hydrates' \in [1..l -> S]
    BY <2>2
  <2> DEFINE f == hydrates'
  <2>4. l \in Nat /\ f \in [1..l -> S]
    BY <2>1, <2>3
  <2> HIDE DEF S, l, f
  <2>5. Len(f) \in Nat /\ f = [k \in 1..Len(f) |-> f[k]]
    BY <2>4, FunctionIsSequence
  <2> QED BY <2>5 DEF f
<1> QED BY <1>2, <1>3, <1>7, <1>8, <1>9 DEF ConfigInv

(* It registers nothing.                                                   *)
LEMMA OneCallReads ==
    ASSUME ConfigInv, NEW h \in DOMAIN hydrates, NEW c,
           Goes(h, c, registry),
           Live(hydrates[h]), c.alone => hydrates[h].alone,
           Live(c) => c.began = hydrates[h].began,
           CallOK(c, Store)
    PROVE  ConfigInv'
<1>1. Registered(registry, {}) = registry
  BY DEF Registered
<1>2. Store' = Held(Store, {}) /\ Held(Store, {}) = Store
  BY <1>1 DEF Store, Held, Goes
<1>3. hydrates' = [hydrates EXCEPT ![h] = c]
  BY DEF Goes
<1> DEFINE entries == {}
<1>4. /\ \A e, f \in entries : Names(e, f.kind, f.id) => e = f
      /\ \A e \in entries : /\ EntryOK(e, Store) /\ Fresh(e, hydrates[h].began, Store)
                            /\ e.kind = "relationship" => Resolved(e, Store)
  OBVIOUS
<1>5. CallOK(c, Held(Store, entries)) /\ Store' = Held(Store, entries)
  BY <1>2
<1> HIDE DEF entries
<1> QED BY <1>3, <1>4, <1>5, OneCallMoves

LEMMA OneCallRegisters ==
    ASSUME ConfigInv, NEW h \in DOMAIN hydrates, NEW c, NEW entries,
           Goes(h, c, Registered(registry, entries)),
           Live(hydrates[h]), c.alone => hydrates[h].alone,
           Live(c) => c.began = hydrates[h].began,
           \A e, f \in entries : Names(e, f.kind, f.id) => e = f,
           \A e \in entries : /\ EntryOK(e, Store) /\ Fresh(e, hydrates[h].began, Store)
                              /\ e.kind = "relationship" => Resolved(e, Store),
           CallOK(c, Held(Store, entries))
    PROVE  ConfigInv'
<1>1. Store' = Held(Store, entries)
  BY DEF Store, Held, Goes
<1>2. hydrates' = [hydrates EXCEPT ![h] = c]
  BY DEF Goes
<1> QED BY <1>1, <1>2, OneCallMoves

-------------------------------------------------------------------------------
(* The steps of a hydrate.                                                 *)
LEMMA FlatsListed ==
    ASSUME ConfigInv, NEW h \in DOMAIN hydrates, ListFlats(h)
    PROVE  ConfigInv'
<1> DEFINE d == Store
           o == hydrates[h]
           l == Listed(h, flats)
           c == [o EXCEPT !.step = "register", !.list = l]
<1>1. TablesOK(d) /\ CallOK(o, d) /\ IsCall(o)
  BY DEF ConfigInv, CallOK
<1>2. o.stage \in {"spec", "map"} /\ o.step = "list" /\ Goes(h, c, registry)
  BY DEF ListFlats, At
<1>3. \A r : r \in l <=> r \in flats /\ r.kind = o.stage /\ r.tenant = o.tenant
  BY DEF Listed
<1>4. d.flats = flats /\ d.headers = headers
  BY DEF Store
<1> HIDE DEF d, o, l
<1>5. c = Call(o.tenant, o.stage, "register", o.began, o.alone, l, o.header, o.loaded)
  BY <1>1, StepAndList
<1>6. o.header = {} /\ o.loaded = {}
  BY <1>1, <1>2 DEF IsCall
<1> HIDE DEF c
<1>7. IsCall(c)
  BY <1>1, <1>2, <1>5, <1>6 DEF IsCall, Call
<1>8. /\ c.tenant = o.tenant /\ c.stage = o.stage /\ c.step = "register" /\ c.began = o.began
      /\ c.alone = o.alone /\ c.list = l /\ c.header = {} /\ c.loaded = {}
  BY <1>5, <1>6 DEF Call
<1>9. WarmFor(c, d)
  BY <1>1, <1>2, <1>8 DEF CallOK, WarmFor, Must, DoneWith
<1>10. FlatsRead(c, d)
  <2>1. ASSUME NEW q \in l
        PROVE  q.kind = c.stage /\ q.at \in Nat /\ q.at <= d.writes /\ Fresh(q, c.began, d)
    <3>1. q \in d.flats /\ q.kind = c.stage
      BY <1>3, <1>4, <1>8
    <3>2. q.at \in Nat /\ q.at <= d.writes
      BY <1>1, <3>1 DEF TablesOK, RowsOf
    <3>3. ASSUME NEW r \in RowsOf(d), Names(r, q.kind, q.id)
          PROVE  r = q
      <4>1. r \in d.flats
        BY <1>1, <3>1, <3>3 DEF TablesOK, RowsOf, Names
      <4> QED BY <1>1, <3>1, <3>3, <4>1 DEF TablesOK
    <3>4. Fresh(q, c.began, d)
      BY <3>2, <3>3 DEF Fresh
    <3> QED BY <3>1, <3>2, <3>4
  <2>2. \A q, s \in l : q.id = s.id => q = s
    BY <1>1, <1>3, <1>4 DEF TablesOK, Names
  <2>3. \A r \in d.flats : r.kind = c.stage /\ Must(c, r) => r \in l
    BY <1>3, <1>4, <1>8 DEF Must
  <2> QED BY <1>8, <2>1, <2>2, <2>3 DEF FlatsRead
<1>11. CallOK(c, d)
  BY <1>1, <1>2, <1>7, <1>8, <1>9, <1>10 DEF CallOK
<1>12. Live(o)
  BY <1>2 DEF Live
<1> QED BY <1>2, <1>8, <1>11, <1>12, OneCallReads DEF d, o

LEMMA EntryIs ==
    ASSUME NEW h, NEW row, NEW own, NEW readAt
    PROVE  LET e == Entry(h, row, own, readAt)
           IN  /\ e.kind = row.kind /\ e.id = row.id /\ e.at = row.at
               /\ e.valid = row.valid
               /\ e.partsAt = {p.at : p \in own} /\ e.refs = UNION {p.refs : p \in own}
               /\ e.tenant = hydrates[h].tenant /\ e.began = hydrates[h].began
               /\ e.readAt = readAt
BY DEF Entry

(* Rows of specifications and maps that were read are fit to register.     *)
LEMMA FlatEntries ==
    ASSUME ConfigInv, NEW h \in DOMAIN hydrates, At(h, {"spec", "map"}, "register"),
           NEW rows, \A r \in rows : r \in hydrates[h].list /\ r.valid,
           NEW entries, entries = {Entry(h, r, {}, r.at) : r \in rows}
    PROVE  /\ \A e, f \in entries : Names(e, f.kind, f.id) => e = f
           /\ \A e \in entries :
                 /\ EntryOK(e, Store) /\ Fresh(e, hydrates[h].began, Store)
                 /\ e.kind = "relationship" => Resolved(e, Store)
<1> DEFINE d == Store
           o == hydrates[h]
           entryOf(r) == Entry(h, r, {}, r.at)
<1>1. CallOK(o, d) /\ o.began \in Nat /\ o.began <= d.writes
  BY DEF ConfigInv, CallOK, IsCall
<1>2. o.stage \in {"spec", "map"} /\ FlatsRead(o, d)
  BY <1>1 DEF At, CallOK
<1>3. \A r : /\ entryOf(r).kind = r.kind /\ entryOf(r).id = r.id /\ entryOf(r).at = r.at
             /\ entryOf(r).began = o.began
  BY EntryIs
<1>4. \A r \in rows : entryOf(r).valid
  <2> SUFFICES ASSUME NEW r \in rows
               PROVE  entryOf(r).valid
    OBVIOUS
  <2>1. entryOf(r).valid = r.valid
    BY EntryIs
  <2> QED BY <2>1
<1> HIDE DEF d, o, entryOf
<1>5. entries = {entryOf(r) : r \in rows} /\ \A r \in rows : r \in o.list
  BY DEF o, entryOf
<1>6. \A r, q \in rows : Names(entryOf(r), entryOf(q).kind, entryOf(q).id) => r = q
  BY <1>2, <1>3, <1>5 DEF FlatsRead, Names
<1>7. ASSUME NEW r \in rows
      PROVE  /\ EntryOK(entryOf(r), d) /\ Fresh(entryOf(r), o.began, d)
             /\ entryOf(r).kind # "relationship"
  <2>1. r.kind = o.stage /\ r.at \in Nat /\ r.at <= d.writes /\ Fresh(r, o.began, d)
    BY <1>2, <1>5 DEF FlatsRead
  <2>2. Fresh(entryOf(r), o.began, d)
    BY <1>3, <2>1 DEF Fresh
  <2>3. entryOf(r).kind \in {"spec", "map"}
    BY <1>2, <1>3, <2>1
  <2>4. EntryOK(entryOf(r), d)
    BY <1>1, <1>3, <1>4, <2>1, <2>3 DEF EntryOK
  <2> QED BY <2>2, <2>3, <2>4
<1> QED BY <1>5, <1>6, <1>7 DEF d, o

LEMMA FailedIs ==
    ASSUME NEW h, NEW d, d.writes \in Nat
    PROVE  CallOK(Failed(h), d) /\ ~Live(Failed(h)) /\ ~Failed(h).alone
<1> DEFINE c == Failed(h)
<1>1. /\ c = [tenant |-> c.tenant, stage |-> c.stage, step |-> c.step, began |-> c.began,
              alone |-> c.alone, list |-> c.list, header |-> c.header, loaded |-> c.loaded]
      /\ c.stage = "failed" /\ c.step = "list" /\ c.began = 0 /\ c.header = {} /\ c.loaded = {}
  BY DEF Failed
<1>2. c.alone \in BOOLEAN /\ ~c.alone
  <2>1. c.alone = FALSE
    BY DEF Failed
  <2> QED BY <2>1
<1> HIDE DEF c
<1>3. IsCall(c)
  BY <1>1, <1>2 DEF IsCall
<1>4. \A r : ~DoneWith(c, r)
  BY <1>1 DEF DoneWith, Passed
<1>5. CallOK(c, d)
  BY <1>1, <1>3, <1>4 DEF CallOK, WarmFor
<1> QED BY <1>1, <1>2, <1>5 DEF c, Live

(* A stage of o is over and c is its next: all of the stage is registered. *)
LEMMA NextIsWarm ==
    ASSUME NEW d, TablesOK(d), NEW o, WarmFor(o, d), o.began \in Nat, NEW entries,
           \A e \in entries : Fresh(e, o.began, d),
           o.stage \in {"spec", "map", "connector", "relationship"},
           NEW c, c.tenant = o.tenant, c.began = o.began, c.alone = o.alone,
           c.stage = After(o.stage), c.step = "list",
           \A r \in RowsOf(d) : r.kind = o.stage /\ Must(o, r) =>
              \/ DoneWith(o, r)
              \/ \E e \in entries : Names(e, r.kind, r.id)
    PROVE  WarmFor(c, Held(d, entries))
<1> DEFINE n == Held(d, entries)
<1> HIDE DEF n
<1>1. WarmFor(o, n)
  BY WarmStays DEF n
<1>2. RowsOf(n) = RowsOf(d) /\ \A e \in entries : e \in n.registry
  BY HeldIs DEF n
<1>3. ASSUME NEW r \in RowsOf(d), Must(o, r), DoneWith(c, r)
      PROVE  DoneWith(o, r) \/ r.kind = o.stage
  BY <1>3, Stage DEF DoneWith, Passed
<1>4. ASSUME NEW r \in RowsOf(d), Must(o, r), DoneWith(c, r)
      PROVE  \E e \in n.registry : /\ Names(e, r.kind, r.id)
                                   /\ c.alone /\ r.at <= c.began => r.at <= e.at
  <2>1. CASE DoneWith(o, r)
    BY <1>1, <1>2, <1>4, <2>1 DEF WarmFor
  <2>2. CASE ~DoneWith(o, r)
    <3>1. PICK e \in entries : Names(e, r.kind, r.id)
      BY <1>3, <1>4, <2>2
    <3>2. Names(r, e.kind, e.id) /\ e \in n.registry
      BY <1>2, <3>1 DEF Names
    <3>3. r.at <= c.began => r.at <= e.at
      BY <3>2 DEF Fresh
    <3> QED BY <3>1, <3>2, <3>3
  <2> QED BY <2>1, <2>2
<1>5. \A r : Must(c, r) <=> Must(o, r)
  BY DEF Must
<1> QED BY <1>2, <1>4, <1>5 DEF WarmFor, n

LEMMA FlatsRegistered ==
    ASSUME ConfigInv, NEW h \in DOMAIN hydrates, RegisterFlats(h)
    PROVE  ConfigInv'
<1> DEFINE d == Store
           o == hydrates[h]
           valid == {row \in o.list : row.valid}
           entryOf(rows) == {Entry(h, r, {}, r.at) : r \in rows}
<1>1. TablesOK(d) /\ CallOK(o, d) /\ IsCall(o) /\ o.began \in Nat /\ d.writes \in Nat
  BY DEF ConfigInv, CallOK, IsCall, TablesOK
<1>2. At(h, {"spec", "map"}, "register")
  BY DEF RegisterFlats
<1>3. o.stage \in {"spec", "map"} /\ o.step = "register" /\ Live(o) /\ FlatsRead(o, d)
  BY <1>1, <1>2 DEF At, Live, CallOK
<1>4. ASSUME valid = o.list, Goes(h, NextStage(h), Registered(registry, entryOf(valid)))
      PROVE  ConfigInv'
  <2> DEFINE c == NextStage(h)
             entries == entryOf(valid)
  <2>1. /\ \A e, f \in entries : Names(e, f.kind, f.id) => e = f
        /\ \A e \in entries : /\ EntryOK(e, d) /\ Fresh(e, o.began, d)
                              /\ e.kind = "relationship" => Resolved(e, d)
    BY <1>2, FlatEntries
  <2>2. c = Call(o.tenant, After(o.stage), "list", o.began, o.alone, {}, o.header, {})
    BY <1>1, NextStageSets DEF NextStage
  <2>3. \A q \in o.list : \E e \in entries : e.kind = q.kind /\ e.id = q.id
    BY <1>4, EntryIs
  <2> HIDE DEF d, o, c, entries
  <2>4. o.header = {}
    BY <1>1, <1>3 DEF IsCall
  <2>5. /\ c.tenant = o.tenant /\ c.stage = After(o.stage) /\ c.step = "list"
        /\ c.began = o.began /\ c.alone = o.alone /\ c.header = {} /\ c.loaded = {}
    BY <2>2, <2>4 DEF Call
  <2>6. c.stage \in {"map", "connector"}
    BY <1>3, <2>5, Stage
  <2>7. IsCall(c)
    <3>1. c = [tenant |-> c.tenant, stage |-> c.stage, step |-> c.step, began |-> c.began,
               alone |-> c.alone, list |-> c.list, header |-> c.header, loaded |-> c.loaded]
      BY <2>2 DEF Call
    <3>2. c.alone \in BOOLEAN /\ c.began \in Nat
      BY <1>1, <2>5 DEF IsCall
    <3> QED BY <2>5, <2>6, <3>1, <3>2 DEF IsCall
  <2>8. ASSUME NEW r \in RowsOf(d), r.kind = o.stage, Must(o, r)
        PROVE  \E e \in entries : Names(e, r.kind, r.id)
    <3>1. r \in d.flats
      BY <1>1, <1>3, <2>8 DEF TablesOK, RowsOf
    <3>2. PICK q \in o.list : q.id = r.id /\ q.kind = r.kind
      BY <1>3, <2>8, <3>1 DEF FlatsRead
    <3> QED BY <2>3, <3>2 DEF Names
  <2>9. WarmFor(o, d)
    BY <1>1 DEF CallOK
  <2>10. WarmFor(c, Held(d, entries))
    BY <1>1, <1>3, <2>1, <2>5, <2>8, <2>9, NextIsWarm
  <2>11. c.began <= d.writes
    BY <1>1, <2>5 DEF CallOK
  <2>12. CallOK(c, Held(d, entries))
    BY <2>5, <2>6, <2>7, <2>10, <2>11, HeldIs DEF CallOK
  <2>13. c.alone => o.alone
    BY <2>5
  <2>14. Goes(h, c, Registered(registry, entries))
    BY <1>4 DEF c, entries
  <2> QED BY <1>3, <2>1, <2>5, <2>12, <2>13, <2>14, OneCallRegisters DEF d, o
<1>5. ASSUME NEW before \in SUBSET valid, Goes(h, Failed(h), Registered(registry, entryOf(before)))
      PROVE  ConfigInv'
  <2> DEFINE c == Failed(h)
             entries == entryOf(before)
  <2>1. /\ \A e, f \in entries : Names(e, f.kind, f.id) => e = f
        /\ \A e \in entries : /\ EntryOK(e, d) /\ Fresh(e, o.began, d)
                              /\ e.kind = "relationship" => Resolved(e, d)
    BY <1>2, FlatEntries
  <2>2. Goes(h, c, Registered(registry, entries))
    BY <1>5
  <2>3. CallOK(c, Held(d, entries)) /\ ~Live(c) /\ ~c.alone
    <3>1. Held(d, entries).writes \in Nat
      BY <1>1, HeldIs
    <3> QED BY <3>1, FailedIs
  <2> HIDE DEF d, o, c, entries
  <2> QED BY <1>3, <2>1, <2>2, <2>3, OneCallRegisters DEF d, o
<1> QED BY <1>4, <1>5 DEF RegisterFlats

(* There is one header of an id, so what is read of it is the row.         *)
LEMMA HeaderIsFresh ==
    ASSUME NEW d, TablesOK(d), NEW q \in d.headers, NEW began
    PROVE  Fresh(q, began, d)
<1>1. ASSUME NEW r \in RowsOf(d), Names(r, q.kind, q.id)
      PROVE  r = q
  <2>1. r \in d.headers
    BY <1>1 DEF TablesOK, RowsOf, Names
  <2> QED BY <1>1, <2>1 DEF TablesOK
<1>2. q.at \in Nat
  BY DEF TablesOK, RowsOf
<1> QED BY <1>1, <1>2 DEF Fresh

LEMMA HeadersListed ==
    ASSUME ConfigInv, NEW h \in DOMAIN hydrates, ListHeaders(h)
    PROVE  ConfigInv'
<1> DEFINE d == Store
           o == hydrates[h]
           l == {r.id : r \in Listed(h, headers)}
           c == [o EXCEPT !.step = "header", !.list = l]
<1>1. TablesOK(d) /\ CallOK(o, d) /\ IsCall(o)
  BY DEF ConfigInv, CallOK
<1>2. o.stage \in {"connector", "relationship"} /\ o.step = "list" /\ Goes(h, c, registry)
  BY DEF ListHeaders, At
<1>3. \A r \in headers : r.kind = o.stage /\ r.tenant = o.tenant => r.id \in l
  BY DEF Listed
<1>4. d.flats = flats /\ d.headers = headers
  BY DEF Store
<1> HIDE DEF d, o, l
<1>5. c = Call(o.tenant, o.stage, "header", o.began, o.alone, l, o.header, o.loaded)
  BY <1>1, StepAndList
<1>6. o.header = {} /\ o.loaded = {}
  BY <1>1, <1>2 DEF IsCall
<1> HIDE DEF c
<1>7. IsCall(c)
  BY <1>1, <1>2, <1>5, <1>6 DEF IsCall, Call
<1>8. /\ c.tenant = o.tenant /\ c.stage = o.stage /\ c.step = "header" /\ c.began = o.began
      /\ c.alone = o.alone /\ c.list = l /\ c.header = {} /\ c.loaded = {}
  BY <1>5, <1>6 DEF Call
<1>9. \A r \in d.headers : r.kind = c.stage /\ Must(c, r) => r.id \in c.list
  BY <1>3, <1>4, <1>8 DEF Must
<1>10. WarmFor(c, d)
  <2>1. ASSUME NEW r \in RowsOf(d), Must(c, r), DoneWith(c, r)
        PROVE  Must(o, r) /\ DoneWith(o, r)
    <3>1. Must(o, r)
      BY <1>8, <2>1 DEF Must
    <3>2. r.kind \in Passed(c.stage)
      <4> SUFFICES ASSUME r.kind = "connector", c.stage = "connector", r.id \notin c.list
                   PROVE  FALSE
        BY <2>1 DEF DoneWith
      <4>1. r \in d.headers
        BY <1>1 DEF TablesOK, RowsOf
      <4> QED BY <1>9, <2>1, <4>1
    <3> QED BY <1>8, <3>1, <3>2 DEF DoneWith
  <2>2. WarmFor(o, d)
    BY <1>1 DEF CallOK
  <2> QED BY <1>8, <2>1, <2>2 DEF WarmFor
<1>11. HeadersRead(c, d)
  BY <1>8, <1>9 DEF HeadersRead
<1>12. CallOK(c, d)
  BY <1>1, <1>2, <1>7, <1>8, <1>10, <1>11 DEF CallOK
<1>13. Live(o)
  BY <1>2 DEF Live
<1> QED BY <1>2, <1>8, <1>12, <1>13, OneCallReads DEF d, o

LEMMA HeaderGot ==
    ASSUME ConfigInv, NEW h \in DOMAIN hydrates, NEW id, GetHeader(h, id)
    PROVE  ConfigInv'
<1> DEFINE d == Store
           o == hydrates[h]
           found == {r \in Listed(h, headers) : r.id = id}
           read(r) == [row |-> r, readAt |-> writes]
           x == {read(r) : r \in found}
           s == IF found = {} THEN "header" ELSE "parts"
           l == o.list \ {id}
           c == Fetched(o, l, x, s)
<1>1. TablesOK(d) /\ CallOK(o, d) /\ IsCall(o) /\ writes \in Nat /\ d.writes = writes
  BY DEF ConfigInv, CallOK, TablesOK, Store
<1>2. /\ o.stage \in {"connector", "relationship"} /\ o.step = "header" /\ id \in o.list
      /\ Goes(h, c, registry)
  BY DEF GetHeader, At, Fetched
<1>3. /\ d.headers = headers /\ d.parts = parts
      /\ \A r : r \in found <=> /\ r \in headers /\ r.kind = o.stage /\ r.tenant = o.tenant
                                /\ r.id = id
  BY DEF Listed, Store
<1>4. \A r : read(r).row = r /\ read(r).readAt = writes
  OBVIOUS
<1>5. o.header = {} /\ HeadersRead(o, d)
  BY <1>1, <1>2 DEF IsCall, CallOK
<1>6. s \in {"header", "parts"} /\ (s = "parts" <=> found # {}) /\ (x = {} <=> found = {})
  OBVIOUS
<1> HIDE DEF d, o, l, x, s, read, found
<1>7. c = Call(o.tenant, o.stage, s, o.began, o.alone, l, x, o.loaded)
  BY <1>1, ListHeaderStep
<1> HIDE DEF c
<1>8. /\ c.tenant = o.tenant /\ c.stage = o.stage /\ c.step = s /\ c.began = o.began
      /\ c.alone = o.alone /\ c.list = l /\ c.header = x /\ c.loaded = o.loaded
  BY <1>7 DEF Call
<1>9. IsCall(c)
  <2>1. c = [tenant |-> c.tenant, stage |-> c.stage, step |-> c.step, began |-> c.began,
             alone |-> c.alone, list |-> c.list, header |-> c.header, loaded |-> c.loaded]
    BY <1>7 DEF Call
  <2>2. c.alone \in BOOLEAN /\ c.began \in Nat
    BY <1>1, <1>8 DEF IsCall
  <2> QED BY <1>2, <1>6, <1>8, <2>1, <2>2 DEF IsCall
<1>10. \A y : y \in x <=> \E r \in found : y = read(r)
  BY DEF x
<1>11. \A i : i \in l <=> i \in o.list /\ i # id
  BY DEF l
<1>12. ASSUME NEW r \in d.headers, r.kind = o.stage, Must(o, r), r.id = id
       PROVE  \E y \in x : y.row.id = r.id
  <2>1. r \in found
    BY <1>3, <1>12 DEF Must
  <2> QED BY <1>4, <1>10, <2>1
<1>13. WarmFor(c, d)
  <2>1. ASSUME NEW r \in RowsOf(d), Must(c, r), DoneWith(c, r)
        PROVE  Must(o, r) /\ DoneWith(o, r)
    <3>1. Must(o, r)
      BY <1>8, <2>1 DEF Must
    <3>2. CASE r.kind \in Passed(c.stage)
      BY <1>8, <3>1, <3>2 DEF DoneWith
    <3>3. CASE r.kind \notin Passed(c.stage)
      <4>1. /\ r.kind = "connector" /\ c.stage = "connector" /\ r.id \notin l
            /\ \A y \in x : y.row.id # r.id
        BY <1>8, <2>1, <3>3 DEF DoneWith
      <4>2. r \in d.headers
        BY <1>1, <4>1 DEF TablesOK, RowsOf
      <4>3. r.id \notin o.list
        BY <1>8, <1>11, <1>12, <3>1, <4>1, <4>2
      <4> QED BY <1>2, <1>5, <1>8, <3>1, <4>1, <4>3 DEF DoneWith
    <3> QED BY <3>2, <3>3
  <2>2. WarmFor(o, d)
    BY <1>1 DEF CallOK
  <2> QED BY <1>8, <2>1, <2>2 DEF WarmFor
<1>14. ASSUME NEW y \in x
       PROVE  HeaderRead(c, y, d)
  <2>1. PICK r \in found : y = read(r)
    BY <1>10
  <2>2. y.row = r /\ y.readAt = writes
    BY <1>4, <2>1
  <2>3. r \in d.headers /\ r.kind = o.stage /\ r.id = id
    BY <1>3
  <2>4. r.at \in Nat /\ r.at <= d.writes
    BY <1>1, <2>3 DEF TablesOK, RowsOf
  <2>5. y.row.valid
    <3>1. r.valid
      BY <1>1, <2>3 DEF TablesOK
    <3> QED BY <2>2, <3>1
  <2>6. Fresh(r, c.began, d)
    BY <1>1, <2>3, HeaderIsFresh
  <2>7. \A p \in d.parts : Names(p, r.kind, r.id) => p.at = r.at
    BY <1>1, <2>3 DEF TablesOK
  <2>8. y.row.id \notin c.list
    BY <1>8, <1>11, <2>2, <2>3
  <2> QED BY <1>1, <1>8, <2>2, <2>3, <2>4, <2>5, <2>6, <2>7, <2>8 DEF HeaderRead
<1>15. ASSUME NEW y \in x, NEW z \in x
       PROVE  y = z
  BY <1>1, <1>3, <1>10 DEF TablesOK, Names
<1>16. ASSUME NEW e \in o.loaded
       PROVE  c.stage = "relationship" /\ LoadedOK(c, e, d)
  <2>1. o.stage = "relationship" /\ LoadedOK(o, e, d)
    BY <1>5 DEF HeadersRead
  <2>2. e.id # id
    BY <1>2, <2>1 DEF LoadedOK
  <2>3. \A y \in x : y.row.id = id
    BY <1>3, <1>4, <1>10
  <2> QED BY <1>8, <1>11, <2>1, <2>2, <2>3 DEF LoadedOK
<1>17. ASSUME c.stage = "relationship", NEW r \in d.headers, r.kind = "relationship", Must(c, r)
       PROVE  \/ r.id \in c.list
              \/ \E y \in c.header : y.row.id = r.id
              \/ \E e \in c.loaded : e.id = r.id
  <2>1. Must(o, r) /\ r.kind = o.stage /\ o.stage = "relationship"
    BY <1>8, <1>17 DEF Must
  <2>2. r.id \in o.list \/ \E e \in o.loaded : e.id = r.id
    BY <1>5, <2>1 DEF HeadersRead
  <2> QED BY <1>8, <1>11, <1>12, <2>1, <2>2
<1>18. HeadersRead(c, d)
  <2>1. \A e, f \in c.loaded : e.id = f.id => e = f
    BY <1>5, <1>8 DEF HeadersRead
  <2>2. c.step = "parts" => c.header # {}
    BY <1>6, <1>8
  <2> QED BY <1>8, <1>14, <1>15, <1>16, <1>17, <2>1, <2>2 DEF HeadersRead
<1>19. CallOK(c, d)
  BY <1>1, <1>2, <1>8, <1>9, <1>13, <1>18 DEF CallOK
<1>20. Live(o)
  BY <1>2 DEF Live
<1> QED BY <1>2, <1>8, <1>19, <1>20, OneCallReads DEF d, o

(* An aggregate of the header that h has read, of the parts that are there,*)
(* is fit to register.                                                     *)
LEMMA AggregateRead ==
    ASSUME ConfigInv, NEW h \in DOMAIN hydrates,
           At(h, {"connector", "relationship"}, "parts"),
           NEW x \in hydrates[h].header, NEW own,
           own = {p \in parts : Names(p, x.row.kind, x.row.id)},
           NEW e, e = Entry(h, x.row, own, x.readAt)
    PROVE  /\ EntryOK(e, Store) /\ Fresh(e, hydrates[h].began, Store)
           /\ e.kind = hydrates[h].stage /\ e.id = x.row.id
           /\ e.tenant = hydrates[h].tenant /\ e.began = hydrates[h].began
<1> DEFINE d == Store
           o == hydrates[h]
<1>1. TablesOK(d) /\ CallOK(o, d) /\ d.parts = parts
  BY DEF ConfigInv, Store
<1>2. o.stage \in {"connector", "relationship"} /\ HeadersRead(o, d)
  BY <1>1 DEF At, CallOK
<1>3. HeaderRead(o, x, d) /\ o.began \in Nat /\ o.began <= d.writes
  BY <1>1, <1>2 DEF HeadersRead, CallOK, IsCall
<1>4. /\ e.kind = x.row.kind /\ e.id = x.row.id /\ e.at = x.row.at
      /\ e.partsAt = {p.at : p \in own} /\ e.refs = UNION {p.refs : p \in own}
      /\ e.tenant = o.tenant /\ e.began = o.began /\ e.readAt = x.readAt
  BY EntryIs
<1>5. e.valid
  <2>1. e.valid = x.row.valid
    BY EntryIs
  <2>2. x.row.valid
    BY <1>3 DEF HeaderRead
  <2> QED BY <2>1, <2>2
<1> HIDE DEF d, o
<1>6. Whole(e)
  BY <1>1, <1>3, <1>4 DEF Whole, HeaderRead, TablesOK
<1>7. \A ref \in e.refs : ref.kind \in {"spec", "map"}
  <2> SUFFICES ASSUME NEW ref \in e.refs
               PROVE  ref.kind \in {"spec", "map"}
    OBVIOUS
  <2>1. PICK p \in own : ref \in p.refs
    BY <1>4
  <2>2. p \in d.parts
    BY <1>1
  <2> QED BY <1>1, <2>1, <2>2 DEF TablesOK
<1>8. e.kind = o.stage
  BY <1>3, <1>4 DEF HeaderRead
<1>9. e.at \in Nat /\ e.at <= d.writes /\ Fresh(e, o.began, d)
  BY <1>3, <1>4 DEF HeaderRead, Fresh
<1>10. EntryOK(e, d)
  BY <1>2, <1>3, <1>4, <1>5, <1>6, <1>7, <1>8, <1>9 DEF EntryOK
<1> QED BY <1>4, <1>8, <1>9, <1>10 DEF d, o

LEMMA PartsGot ==
    ASSUME ConfigInv, NEW h \in DOMAIN hydrates, GetParts(h)
    PROVE  ConfigInv'
<1> DEFINE d == Store
           o == hydrates[h]
           x == CHOOSE r \in o.header : TRUE
           own == {p \in parts : Names(p, x.row.kind, x.row.id)}
           entry == Entry(h, x.row, own, x.readAt)
           back == [o EXCEPT !.step = "header", !.header = {}]
           more == [back EXCEPT !.loaded = @ \cup {entry}]
<1>1. TablesOK(d) /\ CallOK(o, d) /\ IsCall(o) /\ WarmFor(o, d) /\ o.began <= d.writes
  BY DEF ConfigInv, CallOK
<1>2. At(h, {"connector", "relationship"}, "parts")
  BY DEF GetParts
<1>3. o.stage \in {"connector", "relationship"} /\ o.step = "parts" /\ HeadersRead(o, d)
  BY <1>1, <1>2 DEF At, CallOK
<1>4. IF entry.kind = "connector" THEN Goes(h, back, Registered(registry, {entry}))
      ELSE Goes(h, more, registry)
  BY DEF GetParts
<1>5. x \in o.header /\ o.header # {}
  BY <1>3 DEF HeadersRead
<1>6. /\ EntryOK(entry, d) /\ Fresh(entry, o.began, d)
      /\ entry.kind = o.stage /\ entry.id = x.row.id
      /\ entry.tenant = o.tenant /\ entry.began = o.began
  BY <1>2, <1>5, AggregateRead
<1>7. back = Call(o.tenant, o.stage, "header", o.began, o.alone, o.list, {}, o.loaded)
  BY <1>1, StepAndHeader
<1> DEFINE all == back.loaded \cup {entry}
<1>8. more = [back EXCEPT !.loaded = all]
  OBVIOUS
<1> HIDE DEF d, o, x, own, entry, back, more, all
<1>9. x \in o.header /\ \A y \in o.header : y = x
  BY <1>3, <1>5 DEF HeadersRead
<1>10. x.row.id \notin o.list
  BY <1>3, <1>5 DEF HeadersRead, HeaderRead
<1>11. /\ back.tenant = o.tenant /\ back.stage = o.stage /\ back.step = "header"
       /\ back.began = o.began /\ back.alone = o.alone /\ back.list = o.list
       /\ back.header = {} /\ back.loaded = o.loaded
  BY <1>7 DEF Call
<1>12. ASSUME NEW c, NEW loaded,
              c = Call(o.tenant, o.stage, "header", o.began, o.alone, o.list, {}, loaded)
       PROVE  IsCall(c)
  <2>1. c = [tenant |-> c.tenant, stage |-> c.stage, step |-> c.step, began |-> c.began,
             alone |-> c.alone, list |-> c.list, header |-> c.header, loaded |-> c.loaded]
    BY <1>12 DEF Call
  <2>2. /\ c.began = o.began /\ c.alone = o.alone /\ c.stage = o.stage /\ c.step = "header"
        /\ c.header = {}
    BY <1>12 DEF Call
  <2>3. c.alone \in BOOLEAN /\ c.began \in Nat
    BY <1>1, <2>2 DEF IsCall
  <2> QED BY <1>3, <2>1, <2>2, <2>3 DEF IsCall
<1>13. Live(o)
  BY <1>3 DEF Live
<1>14. CASE o.stage = "connector"
  <2> DEFINE entries == {entry}
             n == Held(d, entries)
  <2>1. entry \in entries /\ \A e \in entries : e = entry
    OBVIOUS
  <2> HIDE DEF entries, n
  <2>2. WarmFor(o, n)
    BY <1>1, <1>6, <2>1, WarmStays DEF IsCall, n
  <2>3. RowsOf(n) = RowsOf(d) /\ entry \in n.registry
    BY <2>1, HeldIs DEF n
  <2>4. ASSUME NEW r \in RowsOf(d), Must(o, r), DoneWith(back, r)
        PROVE  \E e \in n.registry : /\ Names(e, r.kind, r.id)
                                     /\ back.alone /\ r.at <= back.began => r.at <= e.at
    <3>1. CASE DoneWith(o, r)
      BY <1>11, <2>2, <2>3, <2>4, <3>1 DEF WarmFor
    <3>2. CASE ~DoneWith(o, r)
      <4>1. r.kind = "connector" /\ r.id \notin o.list
        BY <1>11, <2>4, <3>2 DEF DoneWith
      <4>2. r.id = x.row.id
        BY <1>3, <1>9, <1>14, <3>2, <4>1 DEF DoneWith
      <4>3. Names(entry, r.kind, r.id) /\ Names(r, entry.kind, entry.id)
        BY <1>6, <1>14, <4>1, <4>2 DEF Names
      <4>4. r.at <= back.began => r.at <= entry.at
        BY <1>6, <1>11, <4>3 DEF Fresh
      <4> QED BY <2>3, <4>3, <4>4
    <3> QED BY <3>1, <3>2
  <2>5. WarmFor(back, n)
    <3>1. \A r : Must(back, r) <=> Must(o, r)
      BY <1>11 DEF Must
    <3> QED BY <2>3, <2>4, <3>1 DEF WarmFor
  <2>6. o.loaded = {}
    BY <1>3, <1>14 DEF HeadersRead
  <2>7. HeadersRead(back, n)
    BY <1>11, <1>14, <2>6 DEF HeadersRead
  <2>8. back.began <= n.writes
    BY <1>1, <1>11, HeldIs DEF n
  <2>9. IsCall(back)
    BY <1>7, <1>12
  <2>10. CallOK(back, n)
    BY <1>11, <1>14, <2>5, <2>7, <2>8, <2>9 DEF CallOK
  <2>11. Goes(h, back, Registered(registry, entries))
    BY <1>4, <1>6, <1>14 DEF entries
  <2>12. /\ \A e, f \in entries : Names(e, f.kind, f.id) => e = f
         /\ \A e \in entries : /\ EntryOK(e, d) /\ Fresh(e, o.began, d)
                               /\ e.kind = "relationship" => Resolved(e, d)
    BY <1>6, <1>14, <2>1
  <2>13. back.alone => o.alone
    BY <1>11
  <2> QED BY <1>11, <1>13, <2>10, <2>11, <2>12, <2>13, OneCallRegisters DEF d, o, n
<1>15. CASE o.stage = "relationship"
  <2>1. all = o.loaded \cup {entry}
    BY <1>11 DEF all
  <2>2. more = Call(o.tenant, o.stage, "header", o.began, o.alone, o.list, {}, all)
    BY <1>7, <1>8 DEF Call
  <2>3. /\ more.tenant = o.tenant /\ more.stage = o.stage /\ more.step = "header"
        /\ more.began = o.began /\ more.alone = o.alone /\ more.list = o.list
        /\ more.header = {} /\ more.loaded = all
    BY <2>2 DEF Call
  <2>4. \A e : e \in all <=> e \in o.loaded \/ e = entry
    BY <2>1
  <2>5. WarmFor(more, d)
    <3>1. \A r : Must(more, r) /\ DoneWith(more, r) => Must(o, r) /\ DoneWith(o, r)
      BY <1>15, <2>3 DEF Must, DoneWith
    <3> QED BY <1>1, <2>3, <3>1 DEF WarmFor
  <2>6. ASSUME NEW e \in all
        PROVE  LoadedOK(more, e, d)
    <3>1. CASE e \in o.loaded
      <4>1. LoadedOK(o, e, d)
        BY <1>3, <3>1 DEF HeadersRead
      <4> QED BY <2>3, <4>1 DEF LoadedOK
    <3>2. CASE e = entry
      BY <1>6, <1>10, <1>15, <2>3, <3>2 DEF LoadedOK
    <3> QED BY <2>4, <3>1, <3>2
  <2>7. ASSUME NEW e \in all, NEW f \in all, e.id = f.id
        PROVE  e = f
    <3>1. \A g \in o.loaded : g.id # entry.id
      BY <1>3, <1>5, <1>6 DEF HeadersRead, LoadedOK
    <3>2. \A g, k \in o.loaded : g.id = k.id => g = k
      BY <1>3 DEF HeadersRead
    <3> QED BY <2>4, <2>7, <3>1, <3>2
  <2>8. ASSUME NEW r \in d.headers, r.kind = "relationship", Must(more, r)
        PROVE  \/ r.id \in more.list
               \/ \E e \in more.loaded : e.id = r.id
    <3>1. Must(o, r)
      BY <2>3, <2>8 DEF Must
    <3>2. \/ r.id \in o.list
          \/ \E y \in o.header : y.row.id = r.id
          \/ \E e \in o.loaded : e.id = r.id
      BY <1>3, <1>15, <2>8, <3>1 DEF HeadersRead
    <3> QED BY <1>6, <1>9, <2>3, <2>4, <3>2
  <2>9. HeadersRead(more, d)
    BY <1>15, <2>3, <2>6, <2>7, <2>8 DEF HeadersRead
  <2>10. IsCall(more)
    BY <1>12, <2>2
  <2>11. CallOK(more, d)
    BY <1>1, <1>15, <2>3, <2>5, <2>9, <2>10 DEF CallOK
  <2>12. Goes(h, more, registry)
    BY <1>4, <1>6, <1>15
  <2>13. more.alone => o.alone
    BY <2>3
  <2> QED BY <1>13, <2>3, <2>11, <2>12, <2>13, OneCallReads DEF d, o
<1> QED BY <1>3, <1>14, <1>15

LEMMA ListFinished ==
    ASSUME ConfigInv, NEW h \in DOMAIN hydrates, FinishList(h)
    PROVE  ConfigInv'
<1> DEFINE d == Store
           o == hydrates[h]
           c == NextStage(h)
           entries == o.loaded
<1>1. /\ TablesOK(d) /\ CallOK(o, d) /\ IsCall(o) /\ WarmFor(o, d)
      /\ o.began \in Nat /\ o.began <= d.writes
  BY DEF ConfigInv, CallOK, IsCall
<1>2. /\ o.stage \in {"connector", "relationship"} /\ o.step = "header" /\ o.list = {}
      /\ Goes(h, c, Registered(registry, entries))
  BY DEF FinishList, At
<1>3. HeadersRead(o, d) /\ o.header = {}
  BY <1>1, <1>2 DEF CallOK, IsCall
<1>4. c = Call(o.tenant, After(o.stage), "list", o.began, o.alone, {}, o.header, {})
  BY <1>1, NextStageSets DEF NextStage
<1> HIDE DEF d, o, c, entries
<1>5. /\ c.tenant = o.tenant /\ c.stage = After(o.stage) /\ c.step = "list"
      /\ c.began = o.began /\ c.alone = o.alone /\ c.header = {} /\ c.loaded = {}
  BY <1>3, <1>4 DEF Call
<1>6. c.stage \in {"relationship", "done"}
  BY <1>2, <1>5, Stage
<1>7. IsCall(c)
  <2>1. c = [tenant |-> c.tenant, stage |-> c.stage, step |-> c.step, began |-> c.began,
             alone |-> c.alone, list |-> c.list, header |-> c.header, loaded |-> c.loaded]
    BY <1>4 DEF Call
  <2>2. c.alone \in BOOLEAN /\ c.began \in Nat
    BY <1>1, <1>5 DEF IsCall
  <2> QED BY <1>5, <1>6, <2>1, <2>2 DEF IsCall
<1>8. ASSUME NEW e \in entries
      PROVE  /\ EntryOK(e, d) /\ Fresh(e, o.began, d)
             /\ e.kind = "relationship" /\ o.stage = "relationship"
             /\ e.tenant = o.tenant /\ e.began = o.began
  BY <1>3 DEF HeadersRead, LoadedOK, entries
<1>9. ASSUME NEW e \in entries
      PROVE  Resolved(e, d)
  <2> SUFFICES ASSUME NEW ref \in e.refs, NEW r \in d.flats, Names(r, ref.kind, ref.id),
                      r.tenant = e.tenant, r.born <= e.began
               PROVE  \E f \in d.registry : Names(f, ref.kind, ref.id)
    BY DEF Resolved
  <2>1. Must(o, r) /\ r \in RowsOf(d)
    BY <1>8 DEF Must, RowsOf
  <2>2. ref.kind \in {"spec", "map"}
    BY <1>8 DEF EntryOK
  <2>3. DoneWith(o, r)
    BY <1>8, <2>2 DEF DoneWith, Passed, Names
  <2>4. PICK f \in d.registry : Names(f, r.kind, r.id)
    BY <1>1, <2>1, <2>3 DEF WarmFor
  <2> QED BY <2>4 DEF Names
<1>10. \A e, f \in entries : Names(e, f.kind, f.id) => e = f
  BY <1>3 DEF HeadersRead, Names, entries
<1>11. ASSUME NEW r \in RowsOf(d), r.kind = o.stage, Must(o, r)
       PROVE  DoneWith(o, r) \/ \E e \in entries : Names(e, r.kind, r.id)
  <2>1. CASE o.stage = "connector"
    BY <1>2, <1>3, <1>11, <2>1 DEF DoneWith
  <2>2. CASE o.stage = "relationship"
    <3>1. r \in d.headers
      BY <1>1, <1>11, <2>2 DEF TablesOK, RowsOf
    <3>2. PICK e \in entries : e.id = r.id
      BY <1>2, <1>3, <1>11, <2>2, <3>1 DEF HeadersRead, entries
    <3> QED BY <1>8, <1>11, <3>2 DEF Names
  <2> QED BY <1>2, <2>1, <2>2
<1>12. WarmFor(c, Held(d, entries))
  <2>1. \A e \in entries : Fresh(e, o.began, d)
    BY <1>8
  <2> QED BY <1>1, <1>2, <1>5, <1>11, <2>1, NextIsWarm
<1>13. CallOK(c, Held(d, entries))
  <2>1. c.began <= Held(d, entries).writes
    BY <1>1, <1>5, HeldIs
  <2> QED BY <1>5, <1>6, <1>7, <1>12, <2>1 DEF CallOK
<1>14. Live(o) /\ (c.alone => o.alone)
  BY <1>2, <1>5 DEF Live
<1>15. \A e \in entries : /\ EntryOK(e, d) /\ Fresh(e, o.began, d)
                          /\ e.kind = "relationship" => Resolved(e, d)
  BY <1>8, <1>9
<1> QED BY <1>2, <1>5, <1>10, <1>13, <1>14, <1>15, OneCallRegisters DEF d, o

LEMMA AppendIs ==
    ASSUME NEW l \in Nat, NEW f, f = [k \in 1..l |-> f[k]], NEW e
    PROVE  LET g == Append(f, e)
           IN  /\ Len(g) = l + 1 /\ g = [k \in 1..Len(g) |-> g[k]]
               /\ g[l + 1] = e /\ \A k \in 1..l : g[k] = f[k]
<1> DEFINE T == {f[k] : k \in 1..l} \cup {e}
           g == Append(f, e)
<1>1. f \in [1..l -> T]
  OBVIOUS
<1>2. e \in T
  OBVIOUS
<1> HIDE DEF T
<1>3. f \in Seq(T) /\ Len(f) = l
  <2>1. f \in Seq(T)
    BY <1>1, SeqDef
  <2> QED BY <1>1, <2>1, LenProperties
<1>4. /\ g \in Seq(T) /\ Len(g) = l + 1 /\ g[l + 1] = e
      /\ \A k \in 1..l : g[k] = f[k]
  BY <1>2, <1>3, AppendProperties
<1> QED BY <1>4, LenProperties

(* A hydrate begins: none that is running is alone any more.               *)
LEMMA AloneSet ==
    ASSUME NEW c, IsCall(c), NEW v
    PROVE  [c EXCEPT !.alone = v]
               = Call(c.tenant, c.stage, c.step, c.began, v, c.list, c.header, c.loaded)
BY DEF Call, IsCall

LEMMA LessAlone ==
    ASSUME NEW d, NEW o, CallOK(o, d), NEW v \in BOOLEAN, v => o.alone,
           NEW c, c = [o EXCEPT !.alone = v]
    PROVE  /\ CallOK(c, d) /\ (c.alone => v)
           /\ c.began = o.began /\ (Live(c) <=> Live(o))
<1>1. c = Call(o.tenant, o.stage, o.step, o.began, v, o.list, o.header, o.loaded)
  BY AloneSet DEF CallOK
<1>2. /\ c.tenant = o.tenant /\ c.stage = o.stage /\ c.step = o.step /\ c.began = o.began
      /\ c.list = o.list /\ c.header = o.header /\ c.loaded = o.loaded
  BY <1>1 DEF Call
<1>3. c.alone = v
  BY <1>1 DEF Call
<1>4. c.alone \in BOOLEAN /\ (c.alone => v)
  BY <1>3
<1>5. c.stage = "failed" => ~c.alone
  <2>1. o.stage = "failed" => ~o.alone
    BY DEF CallOK, IsCall
  <2> QED BY <1>2, <1>4, <2>1
<1>6. c = [tenant |-> c.tenant, stage |-> c.stage, step |-> c.step, began |-> c.began,
           alone |-> c.alone, list |-> c.list, header |-> c.header, loaded |-> c.loaded]
  BY <1>1 DEF Call
<1>7. IsCall(c)
  BY <1>2, <1>4, <1>5, <1>6 DEF CallOK, IsCall
<1>8. WarmFor(c, d)
  <2>1. \A r : Must(c, r) /\ DoneWith(c, r) => Must(o, r) /\ DoneWith(o, r)
    BY <1>2 DEF Must, DoneWith
  <2>2. c.alone => o.alone
    BY <1>4
  <2> QED BY <1>2, <2>1, <2>2 DEF CallOK, WarmFor
<1>9. FlatsRead(o, d) => FlatsRead(c, d)
  BY <1>2 DEF FlatsRead, Must
<1>10. HeadersRead(o, d) => HeadersRead(c, d)
  <2>1. \A x : HeaderRead(o, x, d) => HeaderRead(c, x, d)
    BY <1>2 DEF HeaderRead
  <2>2. \A e : LoadedOK(o, e, d) => LoadedOK(c, e, d)
    BY <1>2 DEF LoadedOK
  <2> QED BY <1>2, <2>1, <2>2 DEF HeadersRead, Must
<1>11. CallOK(c, d)
  BY <1>2, <1>7, <1>8, <1>9, <1>10 DEF CallOK
<1> QED BY <1>2, <1>4, <1>11 DEF Live

LEMMA HydrateBegins ==
    ASSUME ConfigInv, NEW t, Hydrate(t)
    PROVE  ConfigInv'
<1> DEFINE d == Store
           l == Len(hydrates)
           none == \A k \in DOMAIN hydrates : ~Running(k)
           moved(k) == [hydrates[k] EXCEPT !.alone = @ /\ ~Running(k)]
           others == [k \in DOMAIN hydrates |-> moved(k)]
           new == Call(t, "spec", "list", writes, none, {}, {}, {})
<1>1. /\ TablesOK(d) /\ RegistryOK(d) /\ Apart(hydrates) /\ l \in Nat
      /\ DOMAIN hydrates = 1..l /\ d.writes = writes /\ writes \in Nat
      /\ \A k \in 1..l : CallOK(hydrates[k], d)
  BY DEF ConfigInv, TablesOK, Store
<1>2. hydrates' = Append(others, new) /\ d' = d
  BY DEF Hydrate, Call, Store
<1>3. \A k \in 1..l : Running(k) <=> Live(hydrates[k])
  BY DEF Running, Live
<1>4. /\ Len(hydrates') = l + 1
      /\ hydrates' = [k \in 1..Len(hydrates') |-> hydrates'[k]]
      /\ hydrates'[l + 1] = new /\ \A k \in 1..l : hydrates'[k] = moved(k)
  <2> DEFINE g == hydrates'
  <2>1. others = [k \in 1..l |-> others[k]] /\ l \in Nat /\ g = Append(others, new)
    BY <1>1, <1>2
  <2>2. \A k \in 1..l : others[k] = moved(k)
    BY <1>1
  <2> HIDE DEF others, new, moved, l, g
  <2>3. /\ Len(g) = l + 1 /\ g = [k \in 1..Len(g) |-> g[k]]
        /\ g[l + 1] = new /\ \A k \in 1..l : g[k] = others[k]
    BY <2>1, AppendIs
  <2> QED BY <2>2, <2>3 DEF g
<1>5. DOMAIN hydrates' = 1..(l + 1)
  BY <1>1, <1>4
<1>6. ASSUME NEW k \in 1..l
      PROVE  /\ CallOK(hydrates'[k], d)
             /\ hydrates'[k].alone => hydrates[k].alone /\ ~Live(hydrates[k])
             /\ hydrates'[k].began = hydrates[k].began
             /\ Live(hydrates'[k]) <=> Live(hydrates[k])
  <2> DEFINE o == hydrates[k]
             v == o.alone /\ ~Running(k)
             c == hydrates'[k]
  <2>1. CallOK(o, d)
    BY <1>1
  <2>2. c = [o EXCEPT !.alone = v]
    BY <1>4
  <2>3. v \in BOOLEAN
    BY <2>1 DEF CallOK, IsCall
  <2>4. v => o.alone /\ ~Live(o)
    BY <1>3
  <2> HIDE DEF o, v, c, d
  <2>5. CallOK(c, d) /\ (c.alone => v) /\ c.began = o.began /\ (Live(c) <=> Live(o))
    BY <2>1, <2>2, <2>3, <2>4, LessAlone
  <2> QED BY <2>4, <2>5 DEF o, c, d
<1>7. /\ new = [tenant |-> new.tenant, stage |-> new.stage, step |-> new.step,
                began |-> new.began, alone |-> new.alone, list |-> new.list,
                header |-> new.header, loaded |-> new.loaded]
      /\ new.stage = "spec" /\ new.step = "list" /\ new.began = writes
      /\ new.header = {} /\ new.loaded = {}
  BY DEF Call
<1>8. new.alone \in BOOLEAN /\ (new.alone => none)
  <2>1. new.alone = none
    BY DEF Call
  <2> QED BY <2>1
<1>9. none => \A k \in 1..l : ~Live(hydrates[k])
  BY <1>1, <1>3
<1> HIDE DEF d, new, others, moved, none, l
<1>10. CallOK(new, d)
  <2>1. IsCall(new)
    BY <1>1, <1>7, <1>8 DEF IsCall
  <2>2. \A r : ~DoneWith(new, r)
    BY <1>7 DEF DoneWith, Passed
  <2>3. new.began <= d.writes
    BY <1>1, <1>7
  <2> QED BY <1>7, <2>1, <2>2, <2>3 DEF CallOK, WarmFor
<1>11. \A k \in DOMAIN hydrates' : CallOK(hydrates'[k], d)
  BY <1>1, <1>4, <1>5, <1>6, <1>10
<1>12. ASSUME NEW g \in DOMAIN hydrates', NEW k \in DOMAIN hydrates',
              g # k, Live(hydrates'[g]), hydrates'[k].alone
       PROVE  ~Live(hydrates'[k]) /\ hydrates'[k].began <= hydrates'[g].began
  <2>1. CASE g \in 1..l /\ k \in 1..l
    BY <1>1, <1>6, <1>12, <2>1 DEF Apart
  <2>2. CASE g = l + 1 /\ k \in 1..l
    <3>1. hydrates'[g].began = writes
      BY <1>4, <1>7, <2>2
    <3>2. hydrates[k].began <= writes
      BY <1>1, <2>2 DEF CallOK
    <3> QED BY <1>6, <1>12, <2>2, <3>1, <3>2
  <2>3. CASE g \in 1..l /\ k = l + 1
    BY <1>4, <1>6, <1>8, <1>9, <1>12, <2>3
  <2> QED BY <1>1, <1>5, <1>12, <2>1, <2>2, <2>3
<1>13. Apart(hydrates')
  BY <1>12 DEF Apart
<1>14. Len(hydrates') \in Nat
  BY <1>1, <1>4
<1> QED BY <1>1, <1>2, <1>4, <1>11, <1>13, <1>14 DEF ConfigInv, d

(* A restart ends every call, and nothing is registered.                   *)
LEMMA ServerRestarted ==
    ASSUME ConfigInv, RestartServer
    PROVE  ConfigInv'
<1> DEFINE d == Store
           n == Store'
           l == Len(hydrates)
<1>1. TablesOK(d) /\ l \in Nat /\ DOMAIN hydrates = 1..l
  BY DEF ConfigInv
<1>2. /\ n.flats = d.flats /\ n.headers = d.headers /\ n.parts = d.parts
      /\ n.writes = d.writes /\ n.registry = {}
  BY DEF RestartServer, Store
<1>3. hydrates' = [k \in 1..l |-> Failed(k)]
  BY <1>1 DEF RestartServer
<1> HIDE DEF d, n, l
<1>4. TablesOK(n) /\ RegistryOK(n)
  BY <1>1, <1>2 DEF TablesOK, RowsOf, RegistryOK
<1>5. n.writes \in Nat
  BY <1>4 DEF TablesOK
<1>6. DOMAIN hydrates' = 1..l /\ \A k \in 1..l : hydrates'[k] = Failed(k)
  BY <1>3
<1>7. \A k \in 1..l : /\ CallOK(hydrates'[k], n)
                      /\ ~Live(hydrates'[k]) /\ ~hydrates'[k].alone
  BY <1>5, <1>6, FailedIs
<1>8. Apart(hydrates')
  BY <1>6, <1>7 DEF Apart
<1>9. Len(hydrates') \in Nat /\ hydrates' = [k \in 1..Len(hydrates') |-> hydrates'[k]]
  <2> DEFINE S == {Failed(k) : k \in 1..l}
             f == hydrates'
  <2>1. l \in Nat /\ f \in [1..l -> S]
    BY <1>1, <1>3
  <2> HIDE DEF S, f
  <2>2. Len(f) \in Nat /\ f = [k \in 1..Len(f) |-> f[k]]
    BY <2>1, FunctionIsSequence
  <2> QED BY <2>2 DEF f
<1> QED BY <1>4, <1>6, <1>7, <1>8, <1>9 DEF ConfigInv, n

LEMMA ConfigStarts ==
    ASSUME ConfigInit
    PROVE  ConfigInv
<1> DEFINE d == Store
<1>1. /\ d.flats = FirstFlats /\ d.headers = FirstHeaders /\ d.parts = FirstParts
      /\ d.writes = 0 /\ d.registry = {} /\ hydrates = <<>>
  BY DEF ConfigInit, Store
<1> HIDE DEF d
<1>2. /\ \A r, q \in d.flats : Names(r, q.kind, q.id) => r = q
      /\ \A r, q \in d.headers : Names(r, q.kind, q.id) => r = q
      /\ \A p, q \in d.parts : Names(p, q.kind, q.id) => p = q
  BY <1>1, StartAssumption DEF Names
<1>3. \A r \in RowsOf(d) : r.at = 0 /\ r.born = 0
  BY <1>1, StartAssumption DEF RowsOf
<1>4. \A r \in d.headers : r.kind \in {"connector", "relationship"} /\ r.valid
  BY <1>1, StartAssumption
<1>5. \A r \in d.flats : r.kind \in {"spec", "map", "transport"}
  BY <1>1, StartAssumption
<1>6. \A p \in d.parts : /\ p.kind \in {"connector", "relationship"} /\ p.at = 0
                         /\ \A ref \in p.refs : ref.kind \in {"spec", "map"}
  BY <1>1, StartAssumption
<1>7. \A r \in d.headers : r.at = 0
  BY <1>3 DEF RowsOf
<1>8. TablesOK(d)
  BY <1>1, <1>2, <1>3, <1>4, <1>5, <1>6, <1>7 DEF TablesOK
<1>9. RegistryOK(d)
  BY <1>1 DEF RegistryOK
<1>10. DOMAIN hydrates = {} /\ Len(hydrates) = 0
       /\ hydrates = [h \in 1..Len(hydrates) |-> hydrates[h]]
  BY <1>1
<1> QED BY <1>8, <1>9, <1>10 DEF ConfigInv, Apart, d

-------------------------------------------------------------------------------
LEMMA ConfigStep ==
    ASSUME ConfigInv, [ConfigNext]_configVars
    PROVE  ConfigInv'
<1>1. CASE UNCHANGED configVars
  BY <1>1 DEF configVars, ConfigInv, Store
<1>2. ASSUME NEW t \in Tenants, NEW f \in Flats, SaveFlat(t, f)
      PROVE  ConfigInv'
  BY <1>2, FlatSaved
<1>3. ASSUME NEW t \in Tenants, NEW id \in ConnectorIds, SaveConnector(t, id)
      PROVE  ConfigInv'
  BY <1>3, ConnectorSaved
<1>4. ASSUME NEW t \in Tenants, NEW id \in ConnectorIds, DeleteConnector(t, id)
      PROVE  ConfigInv'
  BY <1>4, ConnectorDeleted
<1>5. ASSUME NEW t \in Tenants, NEW b \in Bindings, SaveRelationship(t, b)
      PROVE  ConfigInv'
  BY <1>5, RelationshipSaved
<1>6. ASSUME NEW t \in Tenants, Hydrate(t)
      PROVE  ConfigInv'
  BY <1>6, HydrateBegins
<1>7. ASSUME NEW h \in DOMAIN hydrates, ListFlats(h)
      PROVE  ConfigInv'
  BY <1>7, FlatsListed
<1>8. ASSUME NEW h \in DOMAIN hydrates, RegisterFlats(h)
      PROVE  ConfigInv'
  BY <1>8, FlatsRegistered
<1>9. ASSUME NEW h \in DOMAIN hydrates, ListHeaders(h)
      PROVE  ConfigInv'
  BY <1>9, HeadersListed
<1>10. ASSUME NEW h \in DOMAIN hydrates, GetParts(h)
       PROVE  ConfigInv'
  BY <1>10, PartsGot
<1>11. ASSUME NEW h \in DOMAIN hydrates, FinishList(h)
       PROVE  ConfigInv'
  BY <1>11, ListFinished
<1>12. ASSUME NEW h \in DOMAIN hydrates, NEW id \in hydrates[h].list, GetHeader(h, id)
       PROVE  ConfigInv'
  BY <1>12, HeaderGot
<1>13. ASSUME RestartServer
       PROVE  ConfigInv'
  BY <1>13, ServerRestarted
<1> QED BY <1>1, <1>2, <1>3, <1>4, <1>5, <1>6, <1>7, <1>8, <1>9, <1>10, <1>11, <1>12, <1>13
        DEF ConfigNext

(* The database, the registries and the calls of hydrate fit one another,  *)
(* however saves, deletes, hydrates and restarts interleave.               *)
THEOREM ConfigInvHolds == ConfigSpec => []ConfigInv
<1>1. ConfigInit => ConfigInv
  BY ConfigStarts
<1>2. ConfigInv /\ [ConfigNext]_configVars => ConfigInv'
  BY ConfigStep
<1> QED BY <1>1, <1>2, PTL DEF ConfigSpec

(* Ids are keys of the tables and of the registries, and no malformed map  *)
(* is registered: a hydrate stops at one.                                  *)
THEOREM ConfigurationTypes == ConfigSpec => []ConfigTypeOK
<1>1. ASSUME ConfigInv
      PROVE  ConfigTypeOK
  <2> DEFINE d == Store
  <2>1. /\ d.flats = flats /\ d.headers = headers /\ d.parts = parts /\ d.writes = writes
        /\ d.registry = registry
    BY DEF Store
  <2> HIDE DEF d
  <2>2. TablesOK(d) /\ RegistryOK(d) /\ \A h \in DOMAIN hydrates : CallOK(hydrates[h], d)
    BY <1>1 DEF ConfigInv, d
  <2>3. \A r, q \in flats \cup headers : Names(r, q.kind, q.id) => r = q
    BY <2>1, <2>2 DEF TablesOK, Names
  <2>4. \A p, q \in parts : Names(p, q.kind, q.id) => p = q
    BY <2>1, <2>2 DEF TablesOK
  <2>5. \A e, f \in registry : Names(e, f.kind, f.id) => e = f
    BY <2>1, <2>2 DEF RegistryOK
  <2>6. ASSUME NEW e \in registry
        PROVE  e.valid /\ e.kind # "transport" /\ e.at \in 0..writes
    <3>1. EntryOK(e, d) /\ writes \in Nat
      BY <2>1, <2>2 DEF RegistryOK, TablesOK
    <3>2. e.valid
      BY <3>1 DEF EntryOK
    <3>3. e.kind # "transport" /\ e.at \in 0..writes
      BY <2>1, <3>1 DEF EntryOK
    <3> QED BY <3>2, <3>3
  <2>7. \A h \in DOMAIN hydrates : hydrates[h].began \in 0..writes
    BY <2>1, <2>2 DEF TablesOK, CallOK, IsCall
  <2> QED BY <2>3, <2>4, <2>5, <2>6, <2>7 DEF ConfigTypeOK
<1> QED BY <1>1, ConfigInvHolds, PTL

(* When a hydrate that overlapped no other is done, each row that was there*)
(* when it began is registered, no older than it was then.                 *)
THEOREM HydrateWarms == ConfigSpec => []HydratedIsWarm
<1>1. ASSUME ConfigInv
      PROVE  HydratedIsWarm
  <2> DEFINE d == Store
  <2>1. d.flats = flats /\ d.headers = headers /\ d.registry = registry
    BY DEF Store
  <2> HIDE DEF d
  <2>2. TablesOK(d) /\ RegistryOK(d) /\ \A h \in DOMAIN hydrates : CallOK(hydrates[h], d)
    BY <1>1 DEF ConfigInv, d
  <2> SUFFICES ASSUME NEW h \in DOMAIN hydrates, Warm(h), NEW r \in flats \cup headers,
                      r.kind # "transport", r.tenant = hydrates[h].tenant,
                      r.born <= hydrates[h].began
               PROVE  \E e \in registry : /\ Names(e, r.kind, r.id)
                                          /\ r.at <= hydrates[h].began => e.at >= r.at
    BY DEF HydratedIsWarm
  <2> DEFINE c == hydrates[h]
  <2>3. c.stage = "done" /\ c.alone
    BY DEF Warm
  <2>4. Must(c, r)
    BY DEF Must
  <2>5. c.began \in Nat /\ WarmFor(c, d)
    BY <2>2 DEF CallOK, IsCall
  <2> HIDE DEF c
  <2>6. r \in RowsOf(d)
    BY <2>1 DEF RowsOf
  <2>7. r.kind \in {"spec", "map", "connector", "relationship"} /\ r.at \in Nat
    BY <2>1, <2>2, <2>6 DEF TablesOK
  <2>8. DoneWith(c, r)
    BY <2>3, <2>7 DEF DoneWith, Passed
  <2>9. PICK e \in registry : /\ Names(e, r.kind, r.id)
                              /\ r.at <= c.began => r.at <= e.at
    BY <2>1, <2>3, <2>4, <2>5, <2>6, <2>8 DEF WarmFor
  <2>10. e.at \in Nat
    BY <2>1, <2>2 DEF RegistryOK, EntryOK
  <2> QED BY <2>7, <2>9, <2>10 DEF c
<1> QED BY <1>1, ConfigInvHolds, PTL

(* What documents are translated from is what was saved: all of it is      *)
(* there after a hydrate, a relationship finds the maps and specifications *)
(* that it names, and an aggregate is of one save unless it was saved      *)
(* between two reads of it, for any number of tenants, rows and hydrates.  *)
THEOREM RegistriesStaySound == ConfigSpec => []RegistriesAreSound
<1>1. ASSUME ConfigInv
      PROVE  RelationshipsResolve /\ MixedOnlyAcrossASave
  <2> DEFINE d == Store
  <2>1. d.flats = flats /\ d.registry = registry
    BY DEF Store
  <2> HIDE DEF d
  <2>2. RegistryOK(d)
    BY <1>1 DEF ConfigInv, d
  <2>3. RelationshipsResolve
    BY <2>1, <2>2 DEF RelationshipsResolve, RegistryOK, Resolved
  <2>4. MixedOnlyAcrossASave
    BY <2>1, <2>2 DEF MixedOnlyAcrossASave, RegistryOK, EntryOK, Whole
  <2> QED BY <2>3, <2>4
<1> QED BY <1>1, ConfigInvHolds, HydrateWarms, PTL DEF RegistriesAreSound

-------------------------------------------------------------------------------
(* The list.  M are the rows it selects of the table T, r is its reader.   *)
Selected(T, docType) == {t \in T : docType \in {t.row.docType, "any"}}
Ahead(M, t) == {u \in M : Before(u, t)}
Rank(M, t) == Cardinality(Ahead(M, t))

KeysOK(T) ==
    /\ IsFiniteSet(T)
    /\ \A t \in T : t.id \in Int /\ t.created \in Int
    /\ \A t, u \in T : t.id = u.id => t = u

IsReader(r) ==
    /\ r = [pc |-> r.pc, docType |-> r.docType, limit |-> r.limit, offset |-> r.offset,
            present |-> r.present, total |-> r.total, seen |-> r.seen, page |-> r.page,
            raced |-> r.raced]
    /\ r.pc \in {"count", "page", "done"} /\ r.raced \in BOOLEAN
    /\ r.limit \in Nat \ {0} /\ r.offset \in Nat
    /\ r.seen \in Seq(Int)

Once(seen, id) == \A m, n \in DOMAIN seen : seen[m] = id /\ seen[n] = id => m = n

(* What was there and is not shown yet comes after the pages so far; what  *)
(* is shown came in them once, unless something was saved before it.       *)
WalkOK(r, T) ==
    LET M == Selected(T, r.docType)
        shown == ToSet(r.seen)
    IN  /\ r.present \subseteq IdsOf(M) /\ shown \subseteq IdsOf(M)
        /\ \A t \in M : t.id \in r.present /\ t.id \notin shown =>
              r.pc # "done" /\ r.offset <= Rank(M, t)
        /\ \A u \in M : u.id \in shown =>
              \/ \E t \in T : t.id \notin r.present /\ Before(t, u)
              \/ Rank(M, u) < r.offset /\ Once(r.seen, u.id)

CountOK(r, T) ==
    /\ r.pc = "page" /\ ~r.raced => r.total = Cardinality(Selected(T, r.docType))
    /\ r.pc \in {"count", "done"} /\ r.offset > 0 /\ ~r.raced =>
          r.page = Min({r.limit, Max({0, r.total - (r.offset - r.limit)})})

RowsInv ==
    /\ now \in Nat /\ IsFiniteSet(txns)
    /\ RowsTypeOK
    /\ reader # Idle => IsReader(reader) /\ WalkOK(reader, txns) /\ CountOK(reader, txns)

-------------------------------------------------------------------------------
(* The rows are in one order, and the rank of each is its place in it.     *)
LEMMA BeforeOrders ==
    ASSUME NEW T, KeysOK(T), NEW a \in T, NEW b \in T, NEW c \in T
    PROVE  /\ ~Before(a, a)
           /\ Before(a, b) /\ Before(b, c) => Before(a, c)
           /\ a # b => Before(a, b) \/ Before(b, a)
<1>1. /\ a.id \in Int /\ a.created \in Int /\ b.id \in Int /\ b.created \in Int
      /\ c.id \in Int /\ c.created \in Int
  BY DEF KeysOK
<1>2. a # b => a.id # b.id
  BY DEF KeysOK
<1> QED BY <1>1, <1>2 DEF Before

LEMMA RanksTell ==
    ASSUME NEW M, KeysOK(M)
    PROVE  /\ Cardinality(M) \in Nat
           /\ \A t \in M : Rank(M, t) \in Nat /\ Rank(M, t) < Cardinality(M)
           /\ \A t, u \in M : Rank(M, t) = Rank(M, u) => t = u
           /\ \A k \in 1..Cardinality(M) : \E t \in M : Rank(M, t) = k - 1
<1> DEFINE T == 1..Cardinality(M)
           f == [t \in M |-> Rank(M, t) + 1]
<1>0. IsFiniteSet(M)
  BY DEF KeysOK
<1>1. Cardinality(M) \in Nat
  BY <1>0, FS_CardinalityType
<1>2. ASSUME NEW t \in M
      PROVE  /\ IsFiniteSet(Ahead(M, t)) /\ Rank(M, t) \in Nat /\ Rank(M, t) < Cardinality(M)
  <2>1. Ahead(M, t) \in SUBSET M /\ Ahead(M, t) # M
    BY BeforeOrders DEF Ahead
  <2>2. IsFiniteSet(Ahead(M, t)) /\ Cardinality(Ahead(M, t)) \in Nat
        /\ Cardinality(Ahead(M, t)) <= Cardinality(M)
        /\ Cardinality(Ahead(M, t)) # Cardinality(M)
    BY <1>0, <2>1, FS_Subset, FS_CardinalityType
  <2> QED BY <1>1, <2>2 DEF Rank
<1>3. ASSUME NEW t \in M, NEW u \in M, Before(t, u)
      PROVE  Rank(M, t) < Rank(M, u)
  <2>1. Ahead(M, t) \in SUBSET Ahead(M, u) /\ Ahead(M, t) # Ahead(M, u)
    <3>1. \A v \in M : Before(v, t) => Before(v, u)
      BY <1>3, BeforeOrders
    <3>2. t \in Ahead(M, u) /\ t \notin Ahead(M, t)
      BY <1>3, BeforeOrders DEF Ahead
    <3> QED BY <3>1, <3>2 DEF Ahead
  <2>2. /\ Cardinality(Ahead(M, t)) <= Cardinality(Ahead(M, u))
        /\ Cardinality(Ahead(M, t)) # Cardinality(Ahead(M, u))
    BY <1>2, <2>1, FS_Subset
  <2>3. Rank(M, t) \in Nat /\ Rank(M, u) \in Nat
    BY <1>2
  <2> QED BY <2>2, <2>3 DEF Rank
<1>4. \A t, u \in M : Rank(M, t) = Rank(M, u) => t = u
  <2> SUFFICES ASSUME NEW t \in M, NEW u \in M, t # u
               PROVE  Rank(M, t) # Rank(M, u)
    OBVIOUS
  <2>1. Before(t, u) \/ Before(u, t)
    BY BeforeOrders
  <2>2. Rank(M, t) \in Nat /\ Rank(M, u) \in Nat
    BY <1>2
  <2> QED BY <1>3, <2>1, <2>2
<1>5. \A t \in M : Rank(M, t) + 1 \in T
  BY <1>1, <1>2
<1>6. f \in Injection(M, T)
  <2>1. f \in [M -> T]
    BY <1>5
  <2>2. \A t, u \in M : f[t] = f[u] => t = u
    <3> SUFFICES ASSUME NEW t \in M, NEW u \in M, f[t] = f[u]
                 PROVE  t = u
      OBVIOUS
    <3>1. Rank(M, t) \in Nat /\ Rank(M, u) \in Nat
      BY <1>2
    <3>2. Rank(M, t) + 1 = Rank(M, u) + 1
      OBVIOUS
    <3>3. Rank(M, t) = Rank(M, u)
      BY <3>1, <3>2
    <3> QED BY <1>4, <3>3
  <2> HIDE DEF f, T
  <2> QED BY <2>1, <2>2 DEF Injection, IsInjective
<1>7. f \in Surjection(M, T)
  <2>1. IsFiniteSet(T) /\ Cardinality(T) = Cardinality(M)
    BY <1>1, FS_Interval
  <2> HIDE DEF f, T
  <2> QED BY <1>6, <2>1, FS_Injection
<1>8. ASSUME NEW k \in T
      PROVE  \E t \in M : Rank(M, t) = k - 1
  <2>1. PICK t \in M : f[t] = k
    BY <1>7 DEF Surjection
  <2>2. Rank(M, t) + 1 = k /\ Rank(M, t) \in Nat
    BY <1>2, <2>1
  <2> QED BY <2>2
<1> QED BY <1>1, <1>2, <1>4, <1>8

(* A row that is saved is before some, and leaves the rank of the others.  *)
LEMMA RankGrows ==
    ASSUME NEW M, NEW s, KeysOK(M \cup {s}), NEW t \in M
    PROVE  /\ Rank(M, t) <= Rank(M \cup {s}, t)
           /\ ~Before(s, t) => Rank(M \cup {s}, t) = Rank(M, t)
<1> DEFINE N == M \cup {s}
<1>1. IsFiniteSet(Ahead(N, t))
  <2>1. IsFiniteSet(N) /\ Ahead(N, t) \in SUBSET N
    BY DEF KeysOK, Ahead
  <2> QED BY <2>1, FS_Subset
<1>2. Ahead(M, t) \in SUBSET Ahead(N, t)
  BY DEF Ahead
<1>3. ~Before(s, t) => Ahead(N, t) = Ahead(M, t)
  BY DEF Ahead
<1>4. Cardinality(Ahead(M, t)) <= Cardinality(Ahead(N, t))
  BY <1>1, <1>2, FS_Subset
<1> QED BY <1>3, <1>4 DEF Rank

LEMMA SelectedKeys ==
    ASSUME NEW T, KeysOK(T), NEW docType
    PROVE  KeysOK(Selected(T, docType))
<1>1. Selected(T, docType) \in SUBSET T
  BY DEF Selected
<1>2. IsFiniteSet(Selected(T, docType))
  BY <1>1, FS_Subset DEF KeysOK
<1> QED BY <1>1, <1>2 DEF KeysOK

LEMMA TwoLeast ==
    ASSUME NEW a \in Int, NEW b \in Int
    PROVE  /\ Min({a, b}) = IF a <= b THEN a ELSE b
           /\ Max({a, b}) = IF a <= b THEN b ELSE a
<1>1. \A x \in {a, b} : x = a \/ x = b
  OBVIOUS
<1>2. Min({a, b}) = IF a <= b THEN a ELSE b
  BY <1>1 DEF Min
<1>3. Max({a, b}) = IF a <= b THEN b ELSE a
  BY <1>1 DEF Max
<1> QED BY <1>2, <1>3

LEMMA SequenceOf ==
    ASSUME NEW S, NEW l \in Nat, NEW f \in [1..l -> S]
    PROVE  f \in Seq(S) /\ Len(f) = l
<1>1. f \in Seq(S)
  BY SeqDef
<1> QED BY <1>1, LenProperties

LEMMA SliceIs ==
    ASSUME NEW S, NEW s \in Seq(S), NEW o \in Nat, NEW u \in Nat, u <= Len(s)
    PROVE  LET slice == SubSeq(s, o + 1, u)
           IN  /\ slice \in Seq(S) /\ Len(slice) = IF o <= u THEN u - o ELSE 0
               /\ \A n \in 1..Len(slice) : slice[n] = s[o + n]
<1>1. CASE o <= u
  <2>1. o + 1 \in Int /\ u \in Int /\ \A i \in (o + 1)..u : i \in 1..Len(s)
    BY LenProperties
  <2>2. \A i \in (o + 1)..u : s[i] \in S
    BY <2>1, ElementOfSeq
  <2> DEFINE slice == SubSeq(s, o + 1, u)
  <2>3. /\ slice \in Seq(S)
        /\ Len(slice) = IF o + 1 <= u THEN u - (o + 1) + 1 ELSE 0
        /\ \A n \in 1..(u - (o + 1) + 1) : slice[n] = s[(o + 1) + n - 1]
    BY <2>1, <2>2, SubSeqProperties
  <2> HIDE DEF slice
  <2>4. Len(slice) = u - o /\ u - (o + 1) + 1 = u - o
    BY <1>1, <2>3
  <2>5. \A n \in 1..(u - o) : (o + 1) + n - 1 = o + n
    BY <1>1
  <2>6. \A n \in 1..Len(slice) : slice[n] = s[o + n]
    BY <2>3, <2>4, <2>5
  <2> QED BY <1>1, <2>3, <2>4, <2>6 DEF slice
<1>2. CASE ~(o <= u)
  <2>1. SubSeq(s, o + 1, u) = <<>>
    BY <1>2, SubSeqEmpty
  <2> QED BY <1>2, <2>1
<1> QED BY <1>1, <1>2

(* The list has each row at its rank; a page is what is at its ranks.      *)
LEMMA ListIs ==
    ASSUME NEW M, KeysOK(M),
           NEW all, all = [k \in 1..Cardinality(M) |-> CHOOSE t \in M : Rank(M, t) = k - 1]
    PROVE  /\ all \in Seq(M) /\ Len(all) = Cardinality(M)
           /\ \A k \in 1..Cardinality(M) : Rank(M, all[k]) = k - 1
<1>1. Cardinality(M) \in Nat /\ \A k \in 1..Cardinality(M) : \E t \in M : Rank(M, t) = k - 1
  BY RanksTell
<1>2. \A k \in 1..Cardinality(M) : all[k] \in M /\ Rank(M, all[k]) = k - 1
  BY <1>1
<1>3. all \in [1..Cardinality(M) -> M] /\ Cardinality(M) \in Nat
  BY <1>1, <1>2
<1> QED BY <1>2, <1>3, SequenceOf

PageSize(M, offset, limit) ==
    IF Cardinality(M) <= offset THEN 0
    ELSE IF offset + limit <= Cardinality(M) THEN limit
    ELSE Cardinality(M) - offset

IsPage(M, offset, page, size) ==
    /\ page \in Seq(M) /\ size \in Nat /\ Len(page) = size
    /\ \A n \in 1..size : Rank(M, page[n]) = offset + n - 1

TellsPage(M, offset, ids, size) ==
    /\ ids \in Seq(Int) /\ Len(ids) = size
    /\ \A n \in 1..size : \E t \in M : t.id = ids[n] /\ Rank(M, t) = offset + n - 1
    /\ \A t \in M : offset <= Rank(M, t) /\ Rank(M, t) < offset + size =>
          \E n \in 1..size : ids[n] = t.id

LEMMA PageHolds ==
    ASSUME NEW M, KeysOK(M), NEW offset \in Nat, NEW page, NEW size,
           IsPage(M, offset, page, size)
    PROVE  TellsPage(M, offset, [n \in DOMAIN page |-> page[n].id], size)
<1> DEFINE ids == [n \in DOMAIN page |-> page[n].id]
<1>0. /\ page \in Seq(M) /\ size \in Nat /\ Len(page) = size
      /\ \A n \in 1..size : Rank(M, page[n]) = offset + n - 1
  BY DEF IsPage
<1>1. DOMAIN page = 1..size /\ \A n \in 1..size : page[n] \in M
  BY <1>0, LenProperties
<1>2. \A n \in 1..size : ids[n] = page[n].id
  BY <1>1
<1>3. ids \in Seq(Int) /\ Len(ids) = size
  <2>1. ids \in [1..size -> Int]
    BY <1>1 DEF KeysOK
  <2> HIDE DEF ids
  <2> QED BY <1>0, <2>1, SequenceOf
<1>4. ASSUME NEW t \in M, offset <= Rank(M, t), Rank(M, t) < offset + size
      PROVE  \E n \in 1..size : ids[n] = t.id
  <2>1. /\ Rank(M, t) \in Nat
        /\ \A u \in M : Rank(M, t) = Rank(M, u) => t = u
    BY RanksTell
  <2> DEFINE n == Rank(M, t) - offset + 1
  <2>2. n \in 1..size /\ offset + n - 1 = Rank(M, t)
    BY <1>0, <1>4, <2>1
  <2>3. Rank(M, page[n]) = Rank(M, t) /\ page[n] \in M
    BY <1>0, <1>1, <2>2
  <2>4. page[n] = t
    BY <2>1, <2>3
  <2> QED BY <1>2, <2>2, <2>4
<1>5. \A n \in 1..size : \E t \in M : t.id = ids[n] /\ Rank(M, t) = offset + n - 1
  BY <1>0, <1>1, <1>2
<1> HIDE DEF ids
<1>6. TellsPage(M, offset, ids, size)
  BY <1>3, <1>4, <1>5 DEF TellsPage
<1> QED BY <1>6 DEF ids

ByRank(M, all) ==
    /\ all \in Seq(M) /\ Len(all) = Cardinality(M)
    /\ \A k \in 1..Cardinality(M) : Rank(M, all[k]) = k - 1

LEMMA PageIs ==
    ASSUME NEW M, KeysOK(M), NEW offset \in Nat, NEW limit \in Nat \ {0},
           NEW all, ByRank(M, all)
    PROVE  IsPage(M, offset, SubSeq(all, offset + 1, Min({offset + limit, Len(all)})),
                  PageSize(M, offset, limit))
<1>0. /\ all \in Seq(M) /\ Len(all) = Cardinality(M)
      /\ \A k \in 1..Cardinality(M) : Rank(M, all[k]) = k - 1
  BY DEF ByRank
<1> DEFINE page == SubSeq(all, offset + 1, Min({offset + limit, Len(all)}))
           size == PageSize(M, offset, limit)
           c == Cardinality(M)
           top == Min({offset + limit, Len(all)})
<1>1. c \in Nat
  BY RanksTell
<1>2. top = IF offset + limit <= c THEN offset + limit ELSE c
  <2>1. offset + limit \in Int /\ Len(all) \in Int /\ Len(all) = c
    BY <1>0, <1>1
  <2> HIDE DEF c
  <2> QED BY <2>1, TwoLeast
<1>3. page = SubSeq(all, offset + 1, top)
  OBVIOUS
<1>9. size = IF c <= offset THEN 0 ELSE IF offset + limit <= c THEN limit ELSE c - offset
  BY DEF PageSize
<1> HIDE DEF top, page, size
<1>4. top \in Nat /\ top <= Len(all)
  BY <1>0, <1>1, <1>2
<1>5. /\ page \in Seq(M) /\ Len(page) = IF offset <= top THEN top - offset ELSE 0
      /\ \A n \in 1..Len(page) : page[n] = all[offset + n]
  <2> DEFINE slice == SubSeq(all, offset + 1, top)
  <2>1. /\ slice \in Seq(M) /\ Len(slice) = IF offset <= top THEN top - offset ELSE 0
        /\ \A n \in 1..Len(slice) : slice[n] = all[offset + n]
    BY <1>0, <1>4, SliceIs
  <2> QED BY <1>3, <2>1
<1>6. size \in Nat /\ size = IF offset <= top THEN top - offset ELSE 0
  BY <1>1, <1>2, <1>9
<1>7. \A n \in 1..size : offset + n \in 1..c /\ offset + n \in Int
  BY <1>1, <1>9
<1>8. ASSUME NEW n \in 1..size
      PROVE  Rank(M, page[n]) = offset + n - 1
  <2>1. page[n] = all[offset + n]
    BY <1>5, <1>6
  <2>2. Rank(M, all[offset + n]) = offset + n - 1
    BY <1>0, <1>7
  <2> QED BY <2>1, <2>2
<1>10. IsPage(M, offset, page, size)
  BY <1>5, <1>6, <1>8 DEF IsPage
<1> QED BY <1>10 DEF page, size

-------------------------------------------------------------------------------
(* A page is read: r becomes q.                                            *)
LEMMA JoinShows ==
    ASSUME NEW S, NEW a \in Seq(S), NEW b \in Seq(S)
    PROVE  LET j == a \o b
           IN  /\ j \in Seq(S)
               /\ \A i : i \in ToSet(j) <=> i \in ToSet(a) \/ \E n \in 1..Len(b) : b[n] = i
               /\ \A i : i \in ToSet(a) /\ Once(a, i) /\ (\A n \in 1..Len(b) : b[n] # i) =>
                     Once(j, i)
               /\ \A i : /\ i \notin ToSet(a)
                         /\ \A n, o \in 1..Len(b) : b[n] = i /\ b[o] = i => n = o
                         => Once(j, i)
<1> DEFINE j == a \o b
           m == Len(a)
           k == Len(b)
<1>1. m \in Nat /\ k \in Nat /\ DOMAIN a = 1..m
  BY LenProperties
<1>2. j \in Seq(S) /\ Len(j) = m + k
  BY ConcatProperties
<1>3. DOMAIN j = 1..(m + k)
  BY <1>2, LenProperties
<1>4. \A n \in 1..(m + k) : j[n] = IF n <= m THEN a[n] ELSE b[n - m]
  BY ConcatProperties
<1> HIDE DEF j, m, k
<1>5. /\ \A n \in 1..m : n \in 1..(m + k) /\ n <= m
      /\ \A n \in 1..k : m + n \in 1..(m + k) /\ ~(m + n <= m) /\ (m + n) - m = n
  BY <1>1
<1>6. /\ \A n \in 1..m : j[n] = a[n]
      /\ \A n \in 1..k : j[m + n] = b[n]
  BY <1>4, <1>5
<1>7. ASSUME NEW n \in 1..(m + k), n \notin 1..m
      PROVE  \E o \in 1..k : n = m + o
  <2>1. n - m \in 1..k /\ n = m + (n - m)
    BY <1>1, <1>7
  <2> QED BY <2>1
<1>8. ASSUME NEW i
      PROVE  i \in ToSet(j) <=> i \in ToSet(a) \/ \E n \in 1..k : b[n] = i
  <2>1. ASSUME i \in ToSet(j)
        PROVE  i \in ToSet(a) \/ \E n \in 1..k : b[n] = i
    <3>1. PICK n \in 1..(m + k) : j[n] = i
      BY <1>3, <2>1 DEF ToSet
    <3> QED BY <1>1, <1>6, <1>7, <3>1 DEF ToSet
  <2>2. i \in ToSet(a) => i \in ToSet(j)
    BY <1>1, <1>3, <1>5, <1>6 DEF ToSet
  <2>3. (\E n \in 1..k : b[n] = i) => i \in ToSet(j)
    BY <1>3, <1>5, <1>6 DEF ToSet
  <2> QED BY <2>1, <2>2, <2>3
<1>9. ASSUME NEW i, i \in ToSet(a), Once(a, i), \A n \in 1..k : b[n] # i
      PROVE  Once(j, i)
  <2>1. \A n \in 1..(m + k) : j[n] = i => n \in 1..m
    BY <1>6, <1>7, <1>9
  <2>2. \A n, o \in 1..m : a[n] = i /\ a[o] = i => n = o
    BY <1>1, <1>9 DEF Once
  <2> QED BY <1>3, <1>6, <2>1, <2>2 DEF Once
<1>10. ASSUME NEW i, i \notin ToSet(a), \A n, o \in 1..k : b[n] = i /\ b[o] = i => n = o
       PROVE  Once(j, i)
  <2>1. \A n \in 1..m : j[n] # i
    BY <1>1, <1>6, <1>10 DEF ToSet
  <2>2. \A n \in 1..(m + k) : j[n] = i => \E o \in 1..k : n = m + o /\ b[o] = i
    BY <1>6, <1>7, <2>1
  <2> QED BY <1>3, <1>10, <2>2 DEF Once
<1> QED BY <1>2, <1>8, <1>9, <1>10 DEF j, k

PageRead(r, M, ids, q) ==
    LET size == PageSize(M, r.offset, r.limit)
    IN  /\ r.pc = "page" /\ TellsPage(M, r.offset, ids, size)
        /\ q.docType = r.docType /\ q.present = r.present /\ q.seen = r.seen \o ids
        /\ q.offset = r.offset + r.limit
        /\ q.pc = IF size < r.limit THEN "done" ELSE "count"

LEMMA PageShown ==
    ASSUME NEW T, KeysOK(T), NEW r, IsReader(r), WalkOK(r, T), NEW q, NEW ids,
           PageRead(r, Selected(T, r.docType), ids, q)
    PROVE  WalkOK(q, T)
<1> DEFINE M == Selected(T, r.docType)
           size == PageSize(M, r.offset, r.limit)
<1>2. r.offset \in Nat /\ r.limit \in Nat \ {0}
  BY DEF IsReader
<1>3. /\ \A t \in M : t.id \in Int /\ Rank(M, t) \in Nat /\ Rank(M, t) < Cardinality(M)
      /\ \A t, u \in M : t.id = u.id => t = u
      /\ Cardinality(M) \in Nat
  BY SelectedKeys, RanksTell DEF KeysOK
<1>4. /\ size \in Nat /\ size <= r.limit
      /\ Cardinality(M) <= r.offset + size \/ size = r.limit
  BY <1>2, <1>3 DEF PageSize
<1>11. /\ r.pc = "page" /\ ids \in Seq(Int) /\ Len(ids) = size
       /\ q.docType = r.docType /\ q.present = r.present /\ q.seen = r.seen \o ids
       /\ q.offset = r.offset + r.limit
       /\ q.pc = IF size < r.limit THEN "done" ELSE "count"
  BY DEF PageRead, TellsPage
<1>12. /\ \A n \in 1..size : \E t \in M : t.id = ids[n] /\ Rank(M, t) = r.offset + n - 1
       /\ \A t \in M : r.offset <= Rank(M, t) /\ Rank(M, t) < r.offset + size =>
             \E n \in 1..size : ids[n] = t.id
  BY DEF PageRead, TellsPage
<1>13. M = Selected(T, r.docType)
  OBVIOUS
<1> HIDE DEF M, size
<1> DEFINE shown == ToSet(r.seen)
           given(i) == \E n \in 1..size : ids[n] = i
<1>1. /\ \A i : i \in ToSet(q.seen) <=> i \in shown \/ given(i)
      /\ \A i : i \in shown /\ Once(r.seen, i) /\ ~given(i) => Once(q.seen, i)
      /\ \A i : /\ i \notin shown
                /\ \A n, o \in 1..size : ids[n] = i /\ ids[o] = i => n = o
                => Once(q.seen, i)
  <2> DEFINE j == q.seen
             a == r.seen
  <2>1. a \in Seq(Int) /\ j = a \o ids
    BY <1>11 DEF IsReader
  <2> HIDE DEF j, a
  <2> DEFINE l == Len(ids)
  <2>3. /\ \A i : i \in ToSet(j) <=> i \in ToSet(a) \/ \E n \in 1..l : ids[n] = i
        /\ \A i : i \in ToSet(a) /\ Once(a, i) /\ (\A n \in 1..l : ids[n] # i) => Once(j, i)
        /\ \A i : /\ i \notin ToSet(a)
                  /\ \A n, o \in 1..l : ids[n] = i /\ ids[o] = i => n = o
                  => Once(j, i)
    <3>1. ids \in Seq(Int)
      BY <1>11
    <3> QED BY <2>1, <3>1, JoinShows
  <2>4. l = size
    BY <1>11
  <2> HIDE DEF l
  <2>2. /\ \A i : i \in ToSet(j) <=> i \in ToSet(a) \/ \E n \in 1..size : ids[n] = i
        /\ \A i : i \in ToSet(a) /\ Once(a, i) /\ (\A n \in 1..size : ids[n] # i) => Once(j, i)
        /\ \A i : /\ i \notin ToSet(a)
                  /\ \A n, o \in 1..size : ids[n] = i /\ ids[o] = i => n = o
                  => Once(j, i)
    BY <2>3, <2>4
  <2> QED BY <2>2 DEF a, j
<1> HIDE DEF shown, given
<1>5. ASSUME NEW i, given(i)
      PROVE  i \in IdsOf(M)
  <2>1. PICK t \in M : t.id = i
    BY <1>5, <1>12 DEF given
  <2> QED BY <2>1 DEF IdsOf
<1>6. /\ r.present \subseteq IdsOf(M) /\ shown \subseteq IdsOf(M)
      /\ \A t \in M : t.id \in r.present /\ t.id \notin shown => r.offset <= Rank(M, t)
      /\ \A u \in M : u.id \in shown =>
            \/ \E t \in T : t.id \notin r.present /\ Before(t, u)
            \/ Rank(M, u) < r.offset /\ Once(r.seen, u.id)
  BY <1>13 DEF WalkOK, shown
<1>7. ASSUME NEW t \in M, t.id \in r.present, t.id \notin ToSet(q.seen)
      PROVE  q.pc # "done" /\ q.offset <= Rank(M, t)
  <2>1. r.offset <= Rank(M, t)
    BY <1>1, <1>6, <1>7
  <2>2. ~(Rank(M, t) < r.offset + size)
    BY <1>1, <1>7, <1>12, <2>1 DEF given
  <2>3. Rank(M, t) \in Nat /\ Rank(M, t) < Cardinality(M)
    BY <1>3
  <2>4. size = r.limit
    BY <1>2, <1>3, <1>4, <2>2, <2>3
  <2> QED BY <1>2, <1>11, <2>2, <2>3, <2>4
<1>8. ASSUME NEW n \in 1..size, NEW u \in M, ids[n] = u.id
      PROVE  Rank(M, u) = r.offset + n - 1
  BY <1>3, <1>8, <1>12
<1>9. ASSUME NEW u \in M, u.id \in ToSet(q.seen)
      PROVE  \/ \E t \in T : t.id \notin q.present /\ Before(t, u)
             \/ Rank(M, u) < q.offset /\ Once(q.seen, u.id)
  <2> SUFFICES ASSUME ~\E t \in T : t.id \notin r.present /\ Before(t, u)
               PROVE  Rank(M, u) < q.offset /\ Once(q.seen, u.id)
    BY <1>11
  <2>1. u.id \in shown => Rank(M, u) < r.offset /\ Once(r.seen, u.id)
    BY <1>6
  <2>2. Rank(M, u) \in Nat
    BY <1>3
  <2>3. CASE given(u.id)
    <3>1. PICK n \in 1..size : ids[n] = u.id
      BY <2>3 DEF given
    <3>2. Rank(M, u) = r.offset + n - 1
      BY <1>8, <3>1
    <3>3. Rank(M, u) < q.offset /\ ~(Rank(M, u) < r.offset)
      BY <1>2, <1>4, <1>11, <3>2
    <3>4. \A j, k \in 1..size : ids[j] = u.id /\ ids[k] = u.id => j = k
      <4> SUFFICES ASSUME NEW j \in 1..size, NEW k \in 1..size, ids[j] = u.id, ids[k] = u.id
                   PROVE  j = k
        OBVIOUS
      <4>1. Rank(M, u) = r.offset + j - 1 /\ Rank(M, u) = r.offset + k - 1
        BY <1>8
      <4> QED BY <1>2, <2>2, <4>1
    <3> QED BY <1>1, <2>1, <3>3, <3>4
  <2>4. CASE ~given(u.id)
    <3>1. u.id \in shown /\ Rank(M, u) < r.offset /\ Once(r.seen, u.id)
      BY <1>1, <1>9, <2>1, <2>4
    <3>2. Rank(M, u) < q.offset
      BY <1>2, <1>11, <2>2, <3>1
    <3> QED BY <1>1, <2>4, <3>1, <3>2
  <2> QED BY <2>3, <2>4
<1>10. M = Selected(T, q.docType) /\ ToSet(q.seen) \subseteq IdsOf(M)
  BY <1>1, <1>5, <1>6, <1>11, <1>13
<1> QED BY <1>6, <1>7, <1>9, <1>10, <1>11 DEF WalkOK

(* What was counted, if nothing was saved since, tells how long it is.     *)
LEMMA PageCounted ==
    ASSUME NEW T, KeysOK(T), NEW r, IsReader(r), r.pc = "page", CountOK(r, T),
           NEW c, c = Cardinality(Selected(T, r.docType)),
           NEW size, size = IF c <= r.offset THEN 0
                            ELSE IF r.offset + r.limit <= c THEN r.limit ELSE c - r.offset,
           NEW q, q.limit = r.limit, q.offset = r.offset + r.limit, q.total = r.total,
           q.page = size, q.pc # "page", q.raced => r.raced, r.raced => q.raced
    PROVE  CountOK(q, T)
<1> SUFFICES ASSUME ~r.raced
             PROVE  q.page = Min({q.limit, Max({0, q.total - (q.offset - q.limit)})})
  BY DEF CountOK
<1>1. r.offset \in Nat /\ r.limit \in Nat /\ c \in Nat
  BY SelectedKeys, RanksTell DEF IsReader
<1>2. q.total = c
  BY DEF CountOK
<1> DEFINE left == q.total - (q.offset - q.limit)
           most == Max({0, left})
<1>3. left = c - r.offset /\ left \in Int
  BY <1>1, <1>2
<1> HIDE DEF left
<1>4. most = IF 0 <= left THEN left ELSE 0
  <2>1. 0 \in Int /\ left \in Int
    BY <1>3
  <2>2. Max({0, left}) = IF 0 <= left THEN left ELSE 0
    BY <2>1, TwoLeast
  <2> QED BY <2>2
<1>5. most \in Int
  BY <1>3, <1>4
<1> HIDE DEF most
<1>6. Min({q.limit, most}) = IF q.limit <= most THEN q.limit ELSE most
  <2>1. q.limit \in Int
    BY <1>1
  <2> QED BY <1>5, <2>1, TwoLeast
<1>7. size = IF q.limit <= most THEN q.limit ELSE most
  BY <1>1, <1>3, <1>4
<1> QED BY <1>6, <1>7 DEF most, left

(* A row arrives while the list is walked.                                 *)
LEMMA RowArrives ==
    ASSUME NEW T, NEW s, KeysOK(T \cup {s}), s \notin T, NEW r, WalkOK(r, T),
           NEW q, q.docType = r.docType, q.present = r.present, q.seen = r.seen,
           q.offset = r.offset, q.pc = r.pc, r.offset \in Nat
    PROVE  WalkOK(q, T \cup {s})
<1> DEFINE N == T \cup {s}
           M == Selected(T, r.docType)
           L == Selected(N, r.docType)
           shown == ToSet(r.seen)
<1>1. /\ r.present \subseteq IdsOf(M) /\ shown \subseteq IdsOf(M)
      /\ \A t \in M : t.id \in r.present /\ t.id \notin shown =>
            r.pc # "done" /\ r.offset <= Rank(M, t)
      /\ \A u \in M : u.id \in shown =>
            \/ \E t \in T : t.id \notin r.present /\ Before(t, u)
            \/ Rank(M, u) < r.offset /\ Once(r.seen, u.id)
  BY DEF WalkOK
<1>2. M \subseteq L /\ M \subseteq T /\ L \subseteq N /\ (L = M \/ L = M \cup {s})
  BY DEF Selected
<1>3. s.id \notin r.present /\ s.id \notin shown
  <2>1. \A t \in M : t.id # s.id
    BY <1>2 DEF KeysOK
  <2> QED BY <1>1, <2>1 DEF IdsOf
<1>4. IdsOf(M) \subseteq IdsOf(L)
  BY <1>2 DEF IdsOf
<1>5. KeysOK(L) /\ KeysOK(M)
  <2>1. KeysOK(T)
    <3>1. T \in SUBSET N
      OBVIOUS
    <3>2. IsFiniteSet(T)
      BY <3>1, FS_Subset DEF KeysOK
    <3> QED BY <3>1, <3>2 DEF KeysOK
  <2> QED BY <2>1, SelectedKeys
<1> HIDE DEF M, L, N, shown
<1>6. ASSUME NEW t \in M
      PROVE  /\ Rank(M, t) \in Nat /\ Rank(L, t) \in Nat /\ Rank(M, t) <= Rank(L, t)
             /\ ~Before(s, t) => Rank(L, t) = Rank(M, t)
  <2>1. Rank(M, t) \in Nat /\ Rank(L, t) \in Nat
    BY <1>2, <1>5, RanksTell
  <2>2. CASE L = M
    BY <2>1, <2>2
  <2>3. CASE L = M \cup {s}
    BY <1>5, <2>1, <2>3, RankGrows
  <2> QED BY <1>2, <2>2, <2>3
<1>7. \A t \in L : t.id \in r.present \/ t.id \in shown => t \in M
  BY <1>2, <1>3
<1>8. ASSUME NEW t \in L, t.id \in r.present, t.id \notin shown
      PROVE  r.pc # "done" /\ r.offset <= Rank(L, t)
  <2>1. t \in M
    BY <1>7, <1>8
  <2>2. r.pc # "done" /\ r.offset <= Rank(M, t)
    BY <1>1, <1>8, <2>1
  <2>3. Rank(M, t) \in Nat /\ Rank(L, t) \in Nat /\ Rank(M, t) <= Rank(L, t)
    BY <1>6, <2>1
  <2> QED BY <2>2, <2>3
<1>9. ASSUME NEW u \in L, u.id \in shown
      PROVE  \/ \E t \in N : t.id \notin r.present /\ Before(t, u)
             \/ Rank(L, u) < r.offset /\ Once(r.seen, u.id)
  <2>1. u \in M
    BY <1>7, <1>9
  <2>2. s \in N /\ T \subseteq N
    BY DEF N
  <2>3. CASE Before(s, u)
    BY <1>3, <2>2, <2>3
  <2>4. CASE ~Before(s, u)
    <3>1. Rank(L, u) = Rank(M, u)
      BY <1>6, <2>1, <2>4
    <3> QED BY <1>1, <1>9, <2>1, <2>2, <3>1
  <2> QED BY <2>3, <2>4
<1>10. L = Selected(N, q.docType)
  BY DEF L
<1> QED BY <1>1, <1>4, <1>8, <1>9, <1>10 DEF WalkOK, N, shown

-------------------------------------------------------------------------------
(* The steps.                                                              *)
Reader(pc, docType, limit, offset, present, total, seen, page, raced) ==
    [pc |-> pc, docType |-> docType, limit |-> limit, offset |-> offset, present |-> present,
     total |-> total, seen |-> seen, page |-> page, raced |-> raced]

Counted(r, v, w, x) == [r EXCEPT !.pc = v, !.raced = w, !.total = x]
LEMMA CountSets ==
    ASSUME NEW r, IsReader(r), NEW v, NEW w, NEW x
    PROVE  Counted(r, v, w, x)
               = Reader(v, r.docType, r.limit, r.offset, r.present, x, r.seen, r.page, w)
<1> DEFINE m == [r EXCEPT !.pc = v]
           n == [m EXCEPT !.raced = w]
<1>1. m = Reader(v, r.docType, r.limit, r.offset, r.present, r.total, r.seen, r.page, r.raced)
  BY DEF Reader, IsReader
<1>2. Counted(r, v, w, x) = [n EXCEPT !.total = x]
  BY DEF Counted
<1> HIDE DEF m
<1>3. n = Reader(v, r.docType, r.limit, r.offset, r.present, r.total, r.seen, r.page, w)
  BY <1>1 DEF Reader
<1> HIDE DEF n
<1>4. [n EXCEPT !.total = x]
          = Reader(v, r.docType, r.limit, r.offset, r.present, x, r.seen, r.page, w)
  BY <1>3 DEF Reader
<1> QED BY <1>2, <1>4

Turned(r, v, w, x, y) == [r EXCEPT !.pc = v, !.offset = w, !.page = x, !.seen = y]
LEMMA PageSets ==
    ASSUME NEW r, IsReader(r), NEW v, NEW w, NEW x, NEW y
    PROVE  Turned(r, v, w, x, y)
               = Reader(v, r.docType, r.limit, w, r.present, r.total, y, x, r.raced)
<1> DEFINE m == [r EXCEPT !.pc = v]
           n == [m EXCEPT !.offset = w]
           o == [n EXCEPT !.page = x]
<1>1. m = Reader(v, r.docType, r.limit, r.offset, r.present, r.total, r.seen, r.page, r.raced)
  BY DEF Reader, IsReader
<1>2. Turned(r, v, w, x, y) = [o EXCEPT !.seen = y]
  BY DEF Turned
<1> HIDE DEF m
<1>3. n = Reader(v, r.docType, r.limit, w, r.present, r.total, r.seen, r.page, r.raced)
  BY <1>1 DEF Reader
<1> HIDE DEF n
<1>4. o = Reader(v, r.docType, r.limit, w, r.present, r.total, r.seen, x, r.raced)
  BY <1>3 DEF Reader
<1> HIDE DEF o
<1>5. [o EXCEPT !.seen = y]
          = Reader(v, r.docType, r.limit, w, r.present, r.total, y, x, r.raced)
  BY <1>4 DEF Reader
<1> QED BY <1>2, <1>5

LEMMA RacedSet ==
    ASSUME NEW r, IsReader(r), NEW v
    PROVE  [r EXCEPT !.raced = v]
               = Reader(r.pc, r.docType, r.limit, r.offset, r.present, r.total, r.seen,
                        r.page, v)
BY DEF Reader, IsReader

(* What a reader is made of.                                               *)
LEMMA ReaderIs ==
    ASSUME NEW pc \in {"count", "page", "done"}, NEW docType, NEW limit \in Nat \ {0},
           NEW offset \in Nat, NEW present, NEW total, NEW seen \in Seq(Int), NEW page,
           NEW raced \in BOOLEAN,
           NEW q, q = Reader(pc, docType, limit, offset, present, total, seen, page, raced)
    PROVE  /\ IsReader(q) /\ q # Idle
           /\ q.pc = pc /\ q.docType = docType /\ q.limit = limit /\ q.offset = offset
           /\ q.present = present /\ q.total = total /\ q.seen = seen /\ q.page = page
           /\ q.raced => raced
           /\ raced => q.raced
<1>1. /\ q.pc = pc /\ q.docType = docType /\ q.limit = limit /\ q.offset = offset
      /\ q.present = present /\ q.total = total /\ q.seen = seen /\ q.page = page
      /\ q = [pc |-> q.pc, docType |-> q.docType, limit |-> q.limit, offset |-> q.offset,
              present |-> q.present, total |-> q.total, seen |-> q.seen, page |-> q.page,
              raced |-> q.raced]
  BY DEF Reader
<1>2. q.raced = raced
  BY DEF Reader
<1>3. q.raced \in BOOLEAN /\ (q.raced => raced) /\ (raced => q.raced)
  BY <1>2
<1>4. IsReader(q)
  BY <1>1, <1>3 DEF IsReader
<1>5. q # Idle
  BY <1>1 DEF Idle
<1> QED BY <1>1, <1>3, <1>4, <1>5

(* The rows of the table and those being saved have one id each.           *)
LEMMA KeysHold ==
    ASSUME RowsInv
    PROVE  /\ KeysOK(txns)
           /\ \A s \in saves : KeysOK(txns \cup {s}) /\ s \notin txns
<1>0. /\ \A t \in txns \cup saves : t.id \in RowIds /\ t.created \in 0..now
      /\ RowIds \subseteq Int /\ now \in Nat
  BY RowsAssumption DEF RowsInv, RowsTypeOK
<1>1. \A t \in txns \cup saves : t.id \in Int /\ t.created \in Int
  <2> SUFFICES ASSUME NEW t \in txns \cup saves
               PROVE  t.id \in Int /\ t.created \in Int
    OBVIOUS
  <2>1. t.id \in RowIds /\ t.created \in 0..now
    BY <1>0
  <2>2. t.id \in Int
    BY <1>0, <2>1
  <2>3. t.created \in Int
    BY <1>0, <2>1
  <2> QED BY <2>2, <2>3
<1>2. \A t, u \in txns \cup saves : t.id = u.id => t = u
  BY DEF RowsInv, RowsTypeOK
<1>3. KeysOK(txns)
  BY <1>1, <1>2 DEF KeysOK, RowsInv
<1>4. ASSUME NEW s \in saves
      PROVE  KeysOK(txns \cup {s}) /\ s \notin txns
  <2>1. IsFiniteSet(txns \cup {s})
    BY FS_AddElement DEF RowsInv
  <2>2. s \notin txns
    BY DEF RowsInv, RowsTypeOK
  <2> QED BY <1>1, <1>2, <2>1, <2>2 DEF KeysOK
<1> QED BY <1>3, <1>4

LEMMA ReaderKept ==
    ASSUME RowsInv, UNCHANGED <<txns, reader>>
    PROVE  /\ IsFiniteSet(txns') /\ reader'.pc \in {"idle", "count", "page", "done"}
           /\ reader' # Idle =>
                 IsReader(reader') /\ WalkOK(reader', txns') /\ CountOK(reader', txns')
BY DEF RowsInv, RowsTypeOK

LEMMA BeginKeeps ==
    ASSUME RowsInv, NEW id \in RowIds, NEW c \in Canonicals, BeginSave(id, c)
    PROVE  RowsInv'
<1> DEFINE s == [id |-> id, created |-> now, doc |-> c.doc, row |-> Shredded(c.docType, c.doc)]
<1>1. saves' = saves \cup {s} /\ UNCHANGED <<txns, now, reader>>
  BY DEF BeginSave
<1>2. s.id = id /\ s.created = now
  OBVIOUS
<1> HIDE DEF s
<1>3. now \in Nat /\ s.id \in RowIds /\ s.created \in 0..now
  BY <1>2 DEF RowsInv
<1>4. \A t \in txns \cup saves : t.id # s.id
  BY <1>2 DEF BeginSave, TakenIds, IdsOf
<1>5. /\ \A t \in txns \cup saves : t.id \in RowIds /\ t.created \in 0..now
      /\ \A t, u \in txns \cup saves : t.id = u.id => t = u
      /\ txns \cap saves = {}
  BY DEF RowsInv, RowsTypeOK
<1>6. txns' \cup saves' = (txns \cup saves) \cup {s}
  BY <1>1
<1>7. \A t \in txns' \cup saves' : t.id \in RowIds /\ t.created \in 0..now'
  BY <1>1, <1>3, <1>5, <1>6
<1>8. \A t, u \in txns' \cup saves' : t.id = u.id => t = u
  BY <1>4, <1>5, <1>6
<1>9. txns' \cap saves' = {}
  BY <1>1, <1>4, <1>5
<1> QED BY <1>1, <1>3, <1>7, <1>8, <1>9, ReaderKept DEF RowsInv, RowsTypeOK

LEMMA AbortKeeps ==
    ASSUME RowsInv, NEW s \in saves, AbortSave(s)
    PROVE  RowsInv'
<1>1. saves' = saves \ {s} /\ UNCHANGED <<txns, now, reader>>
  BY DEF AbortSave
<1>2. /\ \A t \in txns' \cup saves' : t.id \in RowIds /\ t.created \in 0..now'
      /\ \A t, u \in txns' \cup saves' : t.id = u.id => t = u
      /\ txns' \cap saves' = {} /\ now' \in Nat
  BY <1>1 DEF RowsInv, RowsTypeOK
<1> QED BY <1>1, <1>2, ReaderKept DEF RowsInv, RowsTypeOK

LEMMA TickKeeps ==
    ASSUME RowsInv, Tick
    PROVE  RowsInv'
<1>1. now' = now + 1 /\ UNCHANGED <<txns, saves, reader>> /\ now \in Nat
  BY DEF Tick, RowsInv
<1>2. now' \in Nat /\ \A n \in 0..now : n \in 0..now'
  BY <1>1
<1>3. /\ \A t \in txns' \cup saves' : t.id \in RowIds /\ t.created \in 0..now'
      /\ \A t, u \in txns' \cup saves' : t.id = u.id => t = u
      /\ txns' \cap saves' = {}
  BY <1>1, <1>2 DEF RowsInv, RowsTypeOK
<1> QED BY <1>1, <1>2, <1>3, ReaderKept DEF RowsInv, RowsTypeOK

LEMMA CommitKeeps ==
    ASSUME RowsInv, NEW s \in saves, CommitSave(s)
    PROVE  RowsInv'
<1>1. txns' = txns \cup {s} /\ saves' = saves \ {s} /\ now' = now
  BY DEF CommitSave
<1>2. /\ \A t \in txns' \cup saves' : t.id \in RowIds /\ t.created \in 0..now'
      /\ \A t, u \in txns' \cup saves' : t.id = u.id => t = u
      /\ txns' \cap saves' = {} /\ now' \in Nat
  <2>1. txns' \cup saves' = txns \cup saves
    BY <1>1
  <2>2. txns' \cap saves' = {} /\ now' \in Nat
    BY <1>1 DEF RowsInv, RowsTypeOK
  <2> QED BY <1>1, <2>1, <2>2 DEF RowsInv, RowsTypeOK
<1>3. KeysOK(txns \cup {s}) /\ s \notin txns
  BY KeysHold
<1>4. IsFiniteSet(txns')
  BY <1>1, <1>3 DEF KeysOK
<1>5. CASE reader = Idle
  <2>1. reader' = reader /\ reader'.pc = "idle"
    BY <1>5 DEF CommitSave, Idle
  <2> QED BY <1>2, <1>4, <1>5, <2>1 DEF RowsInv, RowsTypeOK
<1>6. CASE reader # Idle
  <2>1. IsReader(reader) /\ WalkOK(reader, txns) /\ CountOK(reader, txns)
    BY <1>6 DEF RowsInv
  <2>2. reader.pc \in {"count", "page", "done"} /\ reader.offset \in Nat
    BY <2>1 DEF IsReader
  <2>3. CASE reader.pc = "page"
    <3>1. reader' = [reader EXCEPT !.raced = TRUE]
      BY <2>3 DEF CommitSave
    <3>2. reader' = Reader(reader.pc, reader.docType, reader.limit, reader.offset,
                           reader.present, reader.total, reader.seen, reader.page, TRUE)
      BY <2>1, <3>1, RacedSet
    <3>3. /\ reader.limit \in Nat \ {0} /\ reader.seen \in Seq(Int) /\ TRUE \in BOOLEAN
      BY <2>1 DEF IsReader
    <3> DEFINE q == reader'
               r == reader
               yes == TRUE
    <3>4. /\ q = Reader(r.pc, r.docType, r.limit, r.offset, r.present, r.total, r.seen,
                        r.page, yes)
          /\ r.pc \in {"count", "page", "done"} /\ r.limit \in Nat \ {0} /\ r.offset \in Nat
          /\ r.seen \in Seq(Int) /\ yes \in BOOLEAN
      BY <2>2, <3>2, <3>3
    <3> HIDE DEF q, r, yes
    <3>10. /\ IsReader(q) /\ q # Idle
           /\ q.pc = r.pc /\ q.docType = r.docType /\ q.offset = r.offset
           /\ q.present = r.present /\ q.seen = r.seen
           /\ yes => q.raced
      BY <3>4, ReaderIs
    <3>5. /\ IsReader(q) /\ q # Idle
          /\ q.pc = reader.pc /\ q.docType = reader.docType /\ q.offset = reader.offset
          /\ q.present = reader.present /\ q.seen = reader.seen
          /\ TRUE => q.raced
      BY <3>10 DEF r, yes
    <3>6. WalkOK(q, txns \cup {s})
      BY <1>3, <2>1, <2>2, <3>5, RowArrives
    <3>7. CountOK(q, txns \cup {s})
      BY <3>5 DEF CountOK
    <3>8. IsReader(reader') /\ WalkOK(reader', txns') /\ CountOK(reader', txns')
      BY <1>1, <3>5, <3>6, <3>7 DEF q
    <3>9. reader'.pc \in {"idle", "count", "page", "done"}
      BY <2>2, <3>5 DEF q
    <3> QED BY <1>2, <1>4, <3>8, <3>9 DEF RowsInv, RowsTypeOK
  <2>4. CASE reader.pc # "page"
    <3>1. reader' = reader
      BY <2>4 DEF CommitSave
    <3>2. WalkOK(reader, txns \cup {s})
      <4> DEFINE r == reader
      <4>1. WalkOK(r, txns) /\ r.offset \in Nat
        BY <2>1, <2>2
      <4> HIDE DEF r
      <4>2. WalkOK(r, txns \cup {s})
        BY <1>3, <4>1, RowArrives
      <4> QED BY <4>2 DEF r
    <3>3. CountOK(reader, txns \cup {s})
      BY <2>1, <2>4 DEF CountOK
    <3>4. IsReader(reader') /\ WalkOK(reader', txns') /\ CountOK(reader', txns')
      BY <1>1, <2>1, <3>1, <3>2, <3>3
    <3>5. reader'.pc \in {"idle", "count", "page", "done"}
      BY <2>2, <3>1
    <3> QED BY <1>2, <1>4, <3>4, <3>5 DEF RowsInv, RowsTypeOK
  <2> QED BY <2>3, <2>4
<1> QED BY <1>5, <1>6

(* A step of the reader keeps the invariant if the reader is sound of the  *)
(* rows there are.                                                         *)
LEMMA ReaderStep ==
    ASSUME RowsInv, UNCHANGED <<txns, saves, now>>,
           IsReader(reader'), WalkOK(reader', txns), CountOK(reader', txns)
    PROVE  RowsInv'
<1>1. reader'.pc \in {"idle", "count", "page", "done"}
  BY DEF IsReader
<1> QED BY <1>1 DEF RowsInv, RowsTypeOK

LEMMA OpenKeeps ==
    ASSUME RowsInv, NEW docType \in Filters, NEW limit \in PageSizes,
           OpenList(docType, limit)
    PROVE  RowsInv'
<1> DEFINE M == Selected(txns, docType)
           q == reader'
           no == FALSE
           pc == "count"
           none == <<>>
           ids == IdsOf(M)
<1>1. q = Reader(pc, docType, limit, 0, ids, 0, none, 0, no)
  BY DEF OpenList, Reader, Matching, Selected
<1>2. /\ limit \in Nat \ {0} /\ none \in Seq(Int) /\ no \in BOOLEAN /\ 0 \in Nat
      /\ pc \in {"count", "page", "done"}
  BY RowsAssumption
<1> HIDE DEF q, no, none, pc, ids
<1>6. /\ IsReader(q) /\ q # Idle
      /\ q.pc = pc /\ q.docType = docType /\ q.offset = 0
      /\ q.present = ids /\ q.seen = none
  BY <1>1, <1>2, ReaderIs
<1>3. /\ IsReader(q) /\ q # Idle
      /\ q.pc = "count" /\ q.docType = docType /\ q.offset = 0
      /\ q.present = IdsOf(M) /\ q.seen = <<>>
  BY <1>6 DEF pc, none, ids
<1>4. WalkOK(q, txns)
  <2>1. ToSet(q.seen) = {}
    BY <1>3 DEF ToSet
  <2>2. \A t \in M : Rank(M, t) \in Nat
    BY KeysHold, SelectedKeys, RanksTell
  <2>3. \A t \in M : q.pc # "done" /\ q.offset <= Rank(M, t)
    BY <1>3, <2>2
  <2> QED BY <1>3, <2>1, <2>3 DEF WalkOK
<1>5. CountOK(q, txns)
  BY <1>3 DEF CountOK
<1> QED BY <1>3, <1>4, <1>5, ReaderStep DEF OpenList, q

LEMMA CountKeeps ==
    ASSUME RowsInv, CountList
    PROVE  RowsInv'
<1> DEFINE r == reader
           q == reader'
           c == Cardinality(Selected(txns, r.docType))
           no == FALSE
           pc == "page"
<1>1. reader # Idle /\ r.pc = "count"
  BY DEF CountList, Idle
<1>2. IsReader(r) /\ WalkOK(r, txns)
  BY <1>1 DEF RowsInv
<1>3. q = Counted(r, pc, no, c)
  BY DEF CountList, Matching, Selected, Counted
<1>9. no \in BOOLEAN /\ pc \in {"count", "page", "done"}
  OBVIOUS
<1> HIDE DEF r, q, c, no, pc
<1>4. q = Reader(pc, r.docType, r.limit, r.offset, r.present, c, r.seen, r.page, no)
  BY <1>2, <1>3, CountSets
<1>5. /\ r.limit \in Nat \ {0} /\ r.offset \in Nat /\ r.seen \in Seq(Int)
  BY <1>2 DEF IsReader
<1>10. /\ IsReader(q) /\ q # Idle
       /\ q.pc = pc /\ q.docType = r.docType /\ q.offset = r.offset
       /\ q.present = r.present /\ q.seen = r.seen /\ q.total = c
  BY <1>4, <1>5, <1>9, ReaderIs
<1>6. /\ IsReader(q) /\ q # Idle
      /\ q.pc = "page" /\ q.docType = r.docType /\ q.offset = r.offset
      /\ q.present = r.present /\ q.seen = r.seen /\ q.total = c
  BY <1>10 DEF pc
<1>7. WalkOK(q, txns)
  <2>1. r.pc # "done" /\ q.pc # "done"
    BY <1>1, <1>6 DEF r
  <2> QED BY <1>2, <1>6, <2>1 DEF WalkOK
<1>8. CountOK(q, txns)
  BY <1>6 DEF CountOK, c
<1> QED BY <1>6, <1>7, <1>8, ReaderStep DEF CountList, q

LEMMA SelectKeeps ==
    ASSUME RowsInv, SelectPage
    PROVE  RowsInv'
<1> DEFINE r == reader
           q == reader'
           M == Selected(txns, r.docType)
           all == InListOrder(r.docType)
           offset == r.offset
           limit == r.limit
           size == PageSize(M, offset, limit)
           page == SubSeq(all, offset + 1, Min({offset + limit, Len(all)}))
           ids == [n \in DOMAIN page |-> page[n].id]
           pc == IF Len(page) < limit THEN "done" ELSE "count"
           next == offset + limit
           seen == r.seen \o ids
<1>1. reader # Idle /\ r.pc = "page"
  BY DEF SelectPage, Idle
<1>2. IsReader(r) /\ WalkOK(r, txns) /\ CountOK(r, txns)
  BY <1>1 DEF RowsInv
<1>3. q = Turned(r, pc, next, Len(page), seen)
  BY DEF SelectPage, Turned
<1>4. KeysOK(txns) /\ KeysOK(M)
  BY KeysHold, SelectedKeys
<1>5. all = [k \in 1..Cardinality(M) |-> CHOOSE t \in M : Rank(M, t) = k - 1]
  BY DEF InListOrder, Matching, Selected, Rank, Ahead
<1> HIDE DEF r, q, all
<1>6. offset \in Nat /\ limit \in Nat \ {0} /\ r.seen \in Seq(Int) /\ r.raced \in BOOLEAN
  BY <1>2 DEF IsReader
<1>7. M = Selected(txns, r.docType) /\ offset = r.offset /\ limit = r.limit
  OBVIOUS
<1> HIDE DEF M, offset, limit
<1>8. ByRank(M, all)
  BY <1>4, <1>5, ListIs DEF ByRank
<1>9. IsPage(M, offset, page, size)
  BY <1>4, <1>6, <1>8, PageIs
<1> HIDE DEF size
<1>10. TellsPage(M, offset, ids, size)
  BY <1>4, <1>6, <1>9, PageHolds
<1>11. Len(page) = size /\ pc = IF size < limit THEN "done" ELSE "count"
  BY <1>9 DEF IsPage
<1>12. next = offset + limit /\ next \in Nat
  BY <1>6
<1> HIDE DEF page, ids, pc, next
<1>13. seen = r.seen \o ids /\ seen \in Seq(Int)
  BY <1>6, <1>10, ConcatProperties DEF TellsPage
<1> HIDE DEF seen
<1>14. q = Reader(pc, r.docType, r.limit, next, r.present, r.total, seen, size, r.raced)
  BY <1>2, <1>3, <1>11, PageSets
<1>15. pc \in {"count", "page", "done"} /\ pc # "page" /\ r.limit \in Nat \ {0}
  BY <1>6, <1>7, <1>11
<1>16. /\ IsReader(q) /\ q # Idle
       /\ q.pc = pc /\ q.docType = r.docType /\ q.limit = r.limit
       /\ q.offset = next /\ q.present = r.present /\ q.total = r.total
       /\ q.seen = seen /\ q.page = size
       /\ q.raced => r.raced
       /\ r.raced => q.raced
  <2>1. /\ pc \in {"count", "page", "done"} /\ r.limit \in Nat \ {0} /\ next \in Nat
        /\ seen \in Seq(Int) /\ r.raced \in BOOLEAN
    BY <1>6, <1>12, <1>13, <1>15
  <2> QED BY <1>14, <2>1, ReaderIs
<1>17. r.pc = "page"
  BY <1>1 DEF r
<1>18. WalkOK(q, txns)
  <2>1. PageRead(r, M, ids, q)
    BY <1>7, <1>10, <1>11, <1>12, <1>13, <1>16, <1>17 DEF PageRead, size
  <2> QED BY <1>2, <1>4, <1>7, <2>1, PageShown
<1>19. CountOK(q, txns)
  <2> DEFINE c == Cardinality(M)
  <2>1. c = Cardinality(Selected(txns, r.docType))
    BY <1>7
  <2>2. size = IF c <= r.offset THEN 0
               ELSE IF r.offset + r.limit <= c THEN r.limit ELSE c - r.offset
    BY <1>7 DEF PageSize, size
  <2>3. q.pc # "page" /\ q.offset = r.offset + r.limit
    BY <1>7, <1>12, <1>15, <1>16
  <2> HIDE DEF c
  <2> QED BY <1>2, <1>4, <1>16, <1>17, <2>1, <2>2, <2>3, PageCounted
<1> QED BY <1>16, <1>18, <1>19, ReaderStep DEF SelectPage, q

LEMMA RowsStep ==
    ASSUME RowsInv, [RowsNext]_rowsVars
    PROVE  RowsInv'
<1>1. ASSUME NEW id \in RowIds, NEW c \in Canonicals, BeginSave(id, c)
      PROVE  RowsInv'
  BY <1>1, BeginKeeps
<1>2. ASSUME NEW s \in saves, CommitSave(s)
      PROVE  RowsInv'
  BY <1>2, CommitKeeps
<1>3. ASSUME NEW s \in saves, AbortSave(s)
      PROVE  RowsInv'
  BY <1>3, AbortKeeps
<1>4. CASE Tick
  BY <1>4, TickKeeps
<1>5. ASSUME NEW docType \in Filters, NEW limit \in PageSizes, OpenList(docType, limit)
      PROVE  RowsInv'
  BY <1>5, OpenKeeps
<1>6. CASE CountList
  BY <1>6, CountKeeps
<1>7. CASE SelectPage
  BY <1>7, SelectKeeps
<1>8. CASE UNCHANGED rowsVars
  <2>1. UNCHANGED <<txns, reader, saves, now>>
    BY <1>8 DEF rowsVars
  <2> QED BY <2>1 DEF RowsInv, RowsTypeOK
<1> QED BY <1>1, <1>2, <1>3, <1>4, <1>5, <1>6, <1>7, <1>8 DEF RowsNext

LEMMA RowsStart == RowsInit => RowsInv
<1> SUFFICES ASSUME RowsInit
             PROVE  RowsInv
  OBVIOUS
<1>1. txns = {} /\ saves = {} /\ now = 0 /\ reader = Idle /\ reader.pc = "idle"
  BY DEF RowsInit, Idle
<1> QED BY <1>1, FS_EmptySet DEF RowsInv, RowsTypeOK

(* RowsInv is inductive.                                                   *)
THEOREM RowsInvHolds == RowsSpec => []RowsInv
<1>1. RowsInit => RowsInv
  BY RowsStart
<1>2. RowsInv /\ [RowsNext]_rowsVars => RowsInv'
  BY RowsStep
<1> QED BY <1>1, <1>2, PTL DEF RowsSpec

(* The rows of every transaction, committed or not, have an id of their    *)
(* own and a time that was.                                                *)
THEOREM RowsTypes == RowsSpec => []RowsTypeOK
<1>1. RowsInv => RowsTypeOK
  BY DEF RowsInv
<1> QED BY <1>1, RowsInvHolds, PTL

LEMMA OnceIsOne ==
    ASSUME NEW seen \in Seq(Int), NEW id, Once(seen, id)
    PROVE  ~(Cardinality({n \in DOMAIN seen : seen[n] = id}) > 1)
<1> DEFINE P == {n \in DOMAIN seen : seen[n] = id}
<1> SUFFICES ~(Cardinality(P) > 1)
  OBVIOUS
<1>1. \A m, n \in P : m = n
  BY DEF Once
<1> HIDE DEF P
<1>2. CASE P = {}
  <2>1. Cardinality(P) = 0
    BY <1>2, FS_EmptySet
  <2> QED BY <2>1
<1>3. CASE P # {}
  <2>1. PICK m \in P : TRUE
    BY <1>3
  <2>2. P = {m}
    BY <1>1, <2>1
  <2>3. Cardinality({m}) = 1
    BY FS_Singleton
  <2> QED BY <2>2, <2>3
<1> QED BY <1>2, <1>3

(* The pages of a list show whatever was stored when it was opened, and    *)
(* show a document again only if another came before it; a page is as long *)
(* as its count told unless a document was saved between the two.          *)
THEOREM ListIsTrue == RowsSpec => []ListTellsTheTable
<1>1. RowsInv => ListTellsTheTable
  <2> SUFFICES ASSUME RowsInv
               PROVE  ListTellsTheTable
    OBVIOUS
  <2>1. CASE reader = Idle
    <3>1. reader.pc = "idle"
      BY <2>1 DEF Idle
    <3> QED BY <3>1 DEF ListTellsTheTable, PagesMissNothing, PageMatchesItsCount
  <2>2. CASE reader # Idle
    <3> DEFINE M == Selected(txns, reader.docType)
    <3>1. IsReader(reader) /\ WalkOK(reader, txns) /\ CountOK(reader, txns)
      BY <2>2 DEF RowsInv
    <3>2. reader.seen \in Seq(Int)
      BY <3>1 DEF IsReader
    <3>3. PageMatchesItsCount
      BY <3>1 DEF CountOK, PageMatchesItsCount
    <3>4. ASSUME reader.pc = "done"
          PROVE  reader.present \subseteq ToSet(reader.seen)
      <4>1. reader.present \subseteq IdsOf(M)
        BY <3>1 DEF WalkOK
      <4>2. \A t \in M : t.id \in reader.present => t.id \in ToSet(reader.seen)
        BY <3>1, <3>4 DEF WalkOK
      <4> QED BY <4>1, <4>2 DEF IdsOf
    <3>5. ASSUME NEW id \in ToSet(reader.seen),
                 Cardinality({n \in DOMAIN reader.seen : reader.seen[n] = id}) > 1
          PROVE  \E t, u \in txns : t.id \notin reader.present /\ u.id = id /\ Before(t, u)
      <4>1. ~Once(reader.seen, id)
        BY <3>2, <3>5, OnceIsOne
      <4>2. PICK u \in M : u.id = id
        BY <3>1 DEF WalkOK, IdsOf
      <4>3. u \in txns
        BY DEF Selected
      <4>4. \E t \in txns : t.id \notin reader.present /\ Before(t, u)
        BY <3>1, <4>1, <4>2 DEF WalkOK
      <4> QED BY <4>2, <4>3, <4>4
    <3> QED BY <3>3, <3>4, <3>5 DEF ListTellsTheTable, PagesMissNothing
  <2> QED BY <2>1, <2>2
<1> QED BY <1>1, RowsInvHolds, PTL

-------------------------------------------------------------------------------
(* Places are in one order, and the turn of each is its index in it.       *)
Turn(S, p) == Cardinality(Earlier(S, p))
Places == Int \X Int

LEMMA PrecedesOrders ==
    ASSUME NEW a \in Places, NEW b \in Places, NEW c \in Places
    PROVE  /\ ~Precedes(a, a)
           /\ Precedes(a, b) /\ Precedes(b, c) => Precedes(a, c)
           /\ a # b => Precedes(a, b) \/ Precedes(b, a)
<1>1. /\ a[1] \in Int /\ a[2] \in Int /\ b[1] \in Int /\ b[2] \in Int
      /\ c[1] \in Int /\ c[2] \in Int
  BY DEF Places
<1>2. a # b => a[1] # b[1] \/ a[2] # b[2]
  BY DEF Places
<1> QED BY <1>1, <1>2 DEF Precedes

LEMMA OntoOnce ==
    ASSUME NEW S, NEW T, IsFiniteSet(S), NEW f \in [S -> T],
           \A x, y \in S : f[x] = f[y] => x = y,
           \A y \in T : \E x \in S : f[x] = y
    PROVE  IsFiniteSet(T) /\ Cardinality(T) = Cardinality(S)
<1>1. f \in Surjection(S, T)
  BY DEF Surjection
<1>2. f \in Injection(S, T)
  BY DEF Injection, IsInjective
<1> QED BY <1>1, <1>2, FS_Surjection

LEMMA TurnsTell ==
    ASSUME NEW S \in SUBSET Places, IsFiniteSet(S)
    PROVE  /\ Cardinality(S) \in Nat
           /\ \A p \in S : Turn(S, p) \in Nat /\ Turn(S, p) < Cardinality(S)
           /\ \A p, q \in S : Precedes(p, q) => Turn(S, p) < Turn(S, q)
           /\ \A p, q \in S : Turn(S, p) = Turn(S, q) => p = q
           /\ \A k \in 1..Cardinality(S) : \E p \in S : Turn(S, p) = k - 1
<1> DEFINE T == 1..Cardinality(S)
           f == [p \in S |-> Turn(S, p) + 1]
<1>0. \A p \in S : p \in Places
  OBVIOUS
<1>1. Cardinality(S) \in Nat
  BY FS_CardinalityType
<1>2. ASSUME NEW p \in S
      PROVE  /\ IsFiniteSet(Earlier(S, p)) /\ Turn(S, p) \in Nat /\ Turn(S, p) < Cardinality(S)
  <2>1. Earlier(S, p) \in SUBSET S /\ Earlier(S, p) # S
    BY <1>0, PrecedesOrders DEF Earlier
  <2>2. IsFiniteSet(Earlier(S, p)) /\ Cardinality(Earlier(S, p)) \in Nat
        /\ Cardinality(Earlier(S, p)) <= Cardinality(S)
        /\ Cardinality(Earlier(S, p)) # Cardinality(S)
    BY <2>1, FS_Subset, FS_CardinalityType
  <2> QED BY <1>1, <2>2 DEF Turn
<1>3. ASSUME NEW p \in S, NEW q \in S, Precedes(p, q)
      PROVE  Turn(S, p) < Turn(S, q)
  <2>1. Earlier(S, p) \in SUBSET Earlier(S, q) /\ Earlier(S, p) # Earlier(S, q)
    <3>1. \A r \in S : Precedes(r, p) => Precedes(r, q)
      BY <1>0, <1>3, PrecedesOrders
    <3>2. p \in Earlier(S, q) /\ p \notin Earlier(S, p)
      BY <1>0, <1>3, PrecedesOrders DEF Earlier
    <3> QED BY <3>1, <3>2 DEF Earlier
  <2>2. /\ Cardinality(Earlier(S, p)) <= Cardinality(Earlier(S, q))
        /\ Cardinality(Earlier(S, p)) # Cardinality(Earlier(S, q))
    BY <1>2, <2>1, FS_Subset
  <2>3. Turn(S, p) \in Nat /\ Turn(S, q) \in Nat
    BY <1>2
  <2> QED BY <2>2, <2>3 DEF Turn
<1>4. \A p, q \in S : Turn(S, p) = Turn(S, q) => p = q
  <2> SUFFICES ASSUME NEW p \in S, NEW q \in S, p # q
               PROVE  Turn(S, p) # Turn(S, q)
    OBVIOUS
  <2>1. Precedes(p, q) \/ Precedes(q, p)
    BY <1>0, PrecedesOrders
  <2>2. Turn(S, p) \in Nat /\ Turn(S, q) \in Nat
    BY <1>2
  <2> QED BY <1>3, <2>1, <2>2
<1>5. f \in [S -> T]
  BY <1>1, <1>2
<1>6. \A p, q \in S : f[p] = f[q] => p = q
  <2> SUFFICES ASSUME NEW p \in S, NEW q \in S, f[p] = f[q]
               PROVE  p = q
    OBVIOUS
  <2>1. Turn(S, p) \in Nat /\ Turn(S, q) \in Nat
    BY <1>2
  <2>2. Turn(S, p) + 1 = Turn(S, q) + 1
    OBVIOUS
  <2>3. Turn(S, p) = Turn(S, q)
    BY <2>1, <2>2
  <2> QED BY <1>4, <2>3
<1>7. f \in Surjection(S, T)
  <2>1. IsFiniteSet(T) /\ Cardinality(T) = Cardinality(S)
    BY <1>1, FS_Interval
  <2> HIDE DEF f, T
  <2>2. f \in Injection(S, T)
    BY <1>5, <1>6 DEF Injection, IsInjective
  <2> QED BY <2>1, <2>2, FS_Injection
<1>8. ASSUME NEW k \in T
      PROVE  \E p \in S : Turn(S, p) = k - 1
  <2>1. PICK p \in S : f[p] = k
    BY <1>7 DEF Surjection
  <2>2. Turn(S, p) + 1 = k /\ Turn(S, p) \in Nat
    BY <1>2, <2>1
  <2> QED BY <2>2
<1> QED BY <1>1, <1>2, <1>3, <1>4, <1>8

(* The list of a set of places has each of them once, in order.            *)
LEMMA InTurnIs ==
    ASSUME NEW S \in SUBSET Places, IsFiniteSet(S)
    PROVE  LET t == InTurn(S)
               n == Cardinality(S)
           IN  /\ n \in Nat /\ t \in [1..n -> S]
               /\ \A k \in 1..n : Turn(S, t[k]) = k - 1
               /\ \A p \in S : \E k \in 1..n : t[k] = p
               /\ \A j, k \in 1..n : t[j] = t[k] => j = k
               /\ \A j, k \in 1..n : j < k => Precedes(t[j], t[k])
<1> DEFINE n == Cardinality(S)
           t == InTurn(S)
<1>1. /\ n \in Nat
      /\ \A p \in S : Turn(S, p) \in Nat /\ Turn(S, p) < n
      /\ \A p, q \in S : Precedes(p, q) => Turn(S, p) < Turn(S, q)
      /\ \A p, q \in S : Turn(S, p) = Turn(S, q) => p = q
      /\ \A k \in 1..n : \E p \in S : Turn(S, p) = k - 1
  BY TurnsTell
<1>2. t = [k \in 1..n |-> CHOOSE p \in S : Turn(S, p) = k - 1]
  BY DEF InTurn, Turn
<1> HIDE DEF n, t
<1>3. \A k \in 1..n : t[k] \in S /\ Turn(S, t[k]) = k - 1
  BY <1>1, <1>2
<1>4. t \in [1..n -> S]
  BY <1>2, <1>3
<1>5. ASSUME NEW p \in S
      PROVE  \E k \in 1..n : t[k] = p
  <2> DEFINE k == Turn(S, p) + 1
  <2>1. k \in 1..n /\ Turn(S, p) = k - 1
    BY <1>1
  <2> HIDE DEF k
  <2>2. t[k] = p
    BY <1>1, <1>3, <2>1
  <2> QED BY <2>1, <2>2
<1>6. ASSUME NEW j \in 1..n, NEW k \in 1..n, t[j] = t[k]
      PROVE  j = k
  <2>1. j - 1 = k - 1
    BY <1>3, <1>6
  <2> QED BY <1>1, <2>1
<1>7. ASSUME NEW j \in 1..n, NEW k \in 1..n, j < k
      PROVE  Precedes(t[j], t[k])
  <2>1. t[j] \in S /\ t[k] \in S /\ Turn(S, t[j]) = j - 1 /\ Turn(S, t[k]) = k - 1
    BY <1>3
  <2>2. ~(k - 1 < j - 1) /\ j - 1 # k - 1
    BY <1>1, <1>7
  <2>3. ~Precedes(t[k], t[j]) /\ t[j] # t[k]
    BY <1>1, <2>1, <2>2
  <2>4. t[j] \in Places /\ t[k] \in Places
    BY <2>1
  <2> QED BY <2>3, <2>4, PrecedesOrders
<1> QED BY <1>1, <1>3, <1>4, <1>5, <1>6, <1>7 DEF n, t

(* Places that ascend with the second number are listed as they stand.     *)
LEMMA AscendingCount ==
    ASSUME NEW n \in Nat, NEW f \in [1..n -> Int], NEW k \in 0..n
    PROVE  LET P == {<<f[j], j>> : j \in 1..k}
           IN  P \in SUBSET Places /\ IsFiniteSet(P) /\ Cardinality(P) = k
<1> DEFINE P == {<<f[j], j>> : j \in 1..k}
           g == [j \in 1..k |-> <<f[j], j>>]
<1>1. \A j \in 1..k : f[j] \in Int /\ j \in Int
  OBVIOUS
<1>2. P \in SUBSET Places
  BY <1>1 DEF Places
<1>3. g \in [1..k -> P]
  OBVIOUS
<1>4. \A i, j \in 1..k : g[i] = g[j] => i = j
  OBVIOUS
<1>5. \A p \in P : \E j \in 1..k : g[j] = p
  OBVIOUS
<1>6. IsFiniteSet(1..k) /\ Cardinality(1..k) = k
  BY FS_Interval
<1> HIDE DEF P, g
<1>7. IsFiniteSet(P) /\ Cardinality(P) = k
  BY <1>3, <1>4, <1>5, <1>6, OntoOnce
<1> QED BY <1>2, <1>7 DEF P

LEMMA InTurnAscending ==
    ASSUME NEW n \in Nat, NEW f \in [1..n -> Int],
           \A j, k \in 1..n : j < k => f[j] <= f[k]
    PROVE  InTurn({<<f[j], j>> : j \in 1..n}) = [k \in 1..n |-> <<f[k], k>>]
<1> DEFINE P == {<<f[j], j>> : j \in 1..n}
<1>0. n \in 0..n
  OBVIOUS
<1>1. P \in SUBSET Places /\ IsFiniteSet(P) /\ Cardinality(P) = n
  BY <1>0, AscendingCount
<1>2. ASSUME NEW k \in 1..n
      PROVE  Turn(P, <<f[k], k>>) = k - 1
  <2>1. Earlier(P, <<f[k], k>>) = {<<f[j], j>> : j \in 1..(k - 1)}
    <3>1. ASSUME NEW j \in 1..n
          PROVE  Precedes(<<f[j], j>>, <<f[k], k>>) <=> j < k
      <4>1. f[j] \in Int /\ f[k] \in Int
        OBVIOUS
      <4>2. j < k => f[j] <= f[k]
        OBVIOUS
      <4>3. k < j => f[k] <= f[j]
        OBVIOUS
      <4>4. j \in Int /\ k \in Int
        OBVIOUS
      <4>5. Precedes(<<f[j], j>>, <<f[k], k>>) <=> f[j] < f[k] \/ (f[j] = f[k] /\ j < k)
        BY DEF Precedes
      <4> QED BY <4>1, <4>2, <4>3, <4>4, <4>5
    <3>2. \A j \in 1..(k - 1) : j \in 1..n /\ j < k
      OBVIOUS
    <3>3. \A j \in 1..n : j < k => j \in 1..(k - 1)
      OBVIOUS
    <3> QED BY <3>1, <3>2, <3>3 DEF Earlier
  <2>2. k - 1 \in 0..n
    OBVIOUS
  <2>3. Cardinality({<<f[j], j>> : j \in 1..(k - 1)}) = k - 1
    BY <2>2, AscendingCount
  <2> QED BY <2>1, <2>3 DEF Turn
<1> DEFINE t == InTurn(P)
<1>3. t \in [1..n -> P] /\ \A k \in 1..n : Turn(P, t[k]) = k - 1
  BY <1>1, InTurnIs
<1>4. \A k \in 1..n : <<f[k], k>> \in P
  OBVIOUS
<1> HIDE DEF P, t
<1>5. \A p, q \in P : Turn(P, p) = Turn(P, q) => p = q
  BY <1>1, TurnsTell
<1>6. ASSUME NEW k \in 1..n
      PROVE  t[k] = <<f[k], k>>
  <2>1. t[k] \in P /\ Turn(P, t[k]) = k - 1
    BY <1>3
  <2>2. <<f[k], k>> \in P /\ Turn(P, <<f[k], k>>) = k - 1
    BY <1>2, <1>4 DEF P
  <2> QED BY <1>5, <2>1, <2>2
<1> QED BY <1>3, <1>6 DEF P, t
-------------------------------------------------------------------------------
(* The lines of one order are its items; what is all qualified stays; of   *)
(* what is not, the qualified ones are left.                               *)
LEMMA ListIsFunction ==
    ASSUME NEW seq, IsList(seq)
    PROVE  /\ Len(seq) \in Nat /\ DOMAIN seq = 1..Len(seq)
           /\ seq = [k \in 1..Len(seq) |-> seq[k]]
           /\ \A k \in 1..Len(seq) : seq[k] \in ToSet(seq)
<1>1. seq \in Seq(ToSet(seq))
  BY DEF IsList
<1>2. Len(seq) \in Nat /\ DOMAIN seq = 1..Len(seq) /\ seq \in [1..Len(seq) -> ToSet(seq)]
  BY <1>1, LenProperties
<1> QED BY <1>2

LEMMA FunctionIsList ==
    ASSUME NEW n \in Nat, NEW f, f = [k \in 1..n |-> f[k]]
    PROVE  IsList(f) /\ Len(f) = n /\ DOMAIN f = 1..n
<1>1. DOMAIN f = 1..n
  OBVIOUS
<1>2. f \in [1..n -> ToSet(f)]
  BY <1>1 DEF ToSet
<1> QED BY <1>1, <1>2, SequenceOf DEF IsList

LEMMA InTurnOfRow ==
    ASSUME NEW n \in Nat
    PROVE  InTurn({<<1, j>> : j \in 1..n}) = [k \in 1..n |-> <<1, k>>]
<1> DEFINE f == [k \in 1..n |-> 1]
<1>1. f \in [1..n -> Int] /\ \A j, k \in 1..n : j < k => f[j] <= f[k]
  OBVIOUS
<1>2. /\ {<<f[j], j>> : j \in 1..n} = {<<1, j>> : j \in 1..n}
      /\ [k \in 1..n |-> <<f[k], k>>] = [k \in 1..n |-> <<1, k>>]
  OBVIOUS
<1> HIDE DEF f
<1>3. InTurn({<<f[j], j>> : j \in 1..n}) = [k \in 1..n |-> <<f[k], k>>]
  BY <1>1, InTurnAscending
<1> QED BY <1>2, <1>3

LEMMA LinesOfOne ==
    ASSUME NEW doc, IsList(doc.orders), Len(doc.orders) = 1, IsList(doc.orders[1].items)
    PROVE  LinesOf(doc) = doc.orders[1].items
<1> DEFINE items == doc.orders[1].items
           n == Len(items)
           P == UNION {{o} \X DOMAIN doc.orders[o].items : o \in DOMAIN doc.orders}
<1>1. DOMAIN doc.orders = {1}
  BY ListIsFunction
<1>2. n \in Nat /\ DOMAIN items = 1..n /\ items = [k \in 1..n |-> items[k]]
  BY ListIsFunction
<1>3. P = {<<1, j>> : j \in 1..n}
  BY <1>1, <1>2
<1>4. InTurn(P) = [k \in 1..n |-> <<1, k>>]
  BY <1>2, <1>3, InTurnOfRow
<1>5. LinesOf(doc) = [k \in DOMAIN InTurn(P) |->
                        doc.orders[InTurn(P)[k][1]].items[InTurn(P)[k][2]]]
  BY DEF LinesOf
<1> HIDE DEF P
<1>6. DOMAIN InTurn(P) = 1..n /\ \A k \in 1..n : InTurn(P)[k][1] = 1 /\ InTurn(P)[k][2] = k
  BY <1>4
<1>7. LinesOf(doc) = [k \in 1..n |-> doc.orders[1].items[k]]
  BY <1>5, <1>6
<1> QED BY <1>2, <1>7

LEMMA QualifiedOfAll ==
    ASSUME NEW values, IsList(values), \A k \in 1..Len(values) : values[k].type # <<>>
    PROVE  Qualified(values) = values
<1> DEFINE n == Len(values)
           P == {1} \X {k \in DOMAIN values : values[k].type # <<>>}
<1>1. n \in Nat /\ DOMAIN values = 1..n /\ values = [k \in 1..n |-> values[k]]
  BY ListIsFunction
<1>2. P = {<<1, j>> : j \in 1..n}
  BY <1>1
<1>3. InTurn(P) = [k \in 1..n |-> <<1, k>>]
  BY <1>1, <1>2, InTurnOfRow
<1>4. Qualified(values) = [k \in DOMAIN InTurn(P) |-> values[InTurn(P)[k][2]]]
  BY DEF Qualified
<1> HIDE DEF P
<1>5. Qualified(values) = [k \in 1..n |-> values[k]]
  BY <1>3, <1>4
<1> QED BY <1>1, <1>5

LEMMA QualifiedIs ==
    ASSUME NEW values, IsList(values)
    PROVE  LET q == Qualified(values)
           IN  /\ IsList(q) /\ ToSet(q) = {v \in ToSet(values) : v.type # <<>>}
               /\ \A k \in 1..Len(q) : q[k].type # <<>>
               /\ q = <<>> <=> \A k \in 1..Len(values) : values[k].type = <<>>
<1> DEFINE D == {k \in DOMAIN values : values[k].type # <<>>}
           P == {1} \X D
           c == Cardinality(P)
           q == Qualified(values)
<1>1. Len(values) \in Nat /\ DOMAIN values = 1..Len(values)
  BY ListIsFunction
<1>2. P \in SUBSET Places
  BY <1>1 DEF Places
<1>3. IsFiniteSet(P)
  <2>1. IsFiniteSet(1..Len(values))
    BY <1>1, FS_Interval
  <2>2. IsFiniteSet(D)
    BY <1>1, <2>1, FS_Subset
  <2>3. IsFiniteSet({1})
    BY FS_Singleton
  <2> HIDE DEF D
  <2> QED BY <2>2, <2>3, FS_Product
<1>4. q = [k \in DOMAIN InTurn(P) |-> values[InTurn(P)[k][2]]]
  BY DEF Qualified
<1>5. \A p \in P : p[2] \in D
  OBVIOUS
<1>6. \A d \in D : <<1, d>> \in P
  OBVIOUS
<1>7. \A d \in D : values[d].type # <<>>
  OBVIOUS
<1>8. D = {} <=> \A k \in 1..Len(values) : values[k].type = <<>>
  BY <1>1
<1> HIDE DEF P, D, q, c
<1>9. /\ c \in Nat /\ InTurn(P) \in [1..c -> P]
      /\ \A p \in P : \E k \in 1..c : InTurn(P)[k] = p
  BY <1>2, <1>3, InTurnIs DEF c
<1>10. /\ q = [k \in 1..c |-> values[InTurn(P)[k][2]]]
       /\ \A k \in 1..c : q[k].type # <<>>
  BY <1>4, <1>5, <1>7, <1>9
<1>11. IsList(q) /\ Len(q) = c /\ DOMAIN q = 1..c
  BY <1>9, <1>10, FunctionIsList
<1>12. q = <<>> <=> D = {}
  <2>1. CASE D = {}
    <3>1. c \notin 1..c
      BY <1>5, <1>9, <2>1
    <3>2. c = 0
      BY <1>9, <3>1
    <3> QED BY <1>11, <2>1, <3>2
  <2>2. CASE D # {}
    <3>1. PICK k \in 1..c : TRUE
      BY <1>6, <1>9, <2>2
    <3> QED BY <1>11, <2>2, <3>1
  <2> QED BY <2>1, <2>2
<1>13. ToSet(q) = {v \in ToSet(values) : v.type # <<>>}
  <2>1. \A k \in 1..c : \E d \in D : q[k] = values[d]
    BY <1>5, <1>9, <1>10
  <2>2. \A d \in D : \E k \in 1..c : q[k] = values[d]
    <3> SUFFICES ASSUME NEW d \in D
                 PROVE  \E k \in 1..c : q[k] = values[d]
      OBVIOUS
    <3>1. PICK k \in 1..c : InTurn(P)[k] = <<1, d>>
      BY <1>6, <1>9
    <3>2. InTurn(P)[k][2] = d
      BY <3>1
    <3> QED BY <1>10, <3>2
  <2>3. {v \in ToSet(values) : v.type # <<>>} = {values[d] : d \in D}
    BY DEF ToSet, D
  <2> QED BY <1>11, <2>1, <2>2, <2>3 DEF ToSet
<1> QED BY <1>8, <1>10, <1>11, <1>12, <1>13 DEF q

LEMMA LinesAre ==
    ASSUME NEW doc, NEW docType, IsDocument(doc, docType)
    PROVE  LET lines == LinesOf(doc)
           IN  /\ IsList(lines)
               /\ \A k \in 1..Len(lines) : IsLine(lines[k], docType)
<1> DEFINE Items(o) == doc.orders[o].items
           N == Len(doc.orders)
           g == [o \in 1..N |-> {o} \X DOMAIN Items(o)]
           grid == {g[o] : o \in 1..N}
           P == UNION {{o} \X DOMAIN doc.orders[o].items : o \in DOMAIN doc.orders}
           c == Cardinality(P)
           lines == LinesOf(doc)
<1>1. IsList(doc.orders)
  BY DEF IsDocument
<1>2. /\ N \in Nat /\ DOMAIN doc.orders = 1..N
      /\ \A o \in 1..N : doc.orders[o] \in ToSet(doc.orders)
  BY <1>1, ListIsFunction
<1>3. \A o \in 1..N : /\ IsList(Items(o))
                      /\ \A line \in ToSet(Items(o)) : IsLine(line, docType)
  BY <1>2 DEF IsDocument
<1>4. ASSUME NEW o \in 1..N
      PROVE  /\ Len(Items(o)) \in Nat /\ DOMAIN Items(o) = 1..Len(Items(o))
             /\ \A j \in DOMAIN Items(o) : IsLine(Items(o)[j], docType)
  <2>1. IsList(Items(o))
    BY <1>3
  <2> DEFINE items == Items(o)
  <2> HIDE DEF items
  <2>2. /\ Len(items) \in Nat /\ DOMAIN items = 1..Len(items)
        /\ \A j \in 1..Len(items) : items[j] \in ToSet(items)
    BY <2>1, ListIsFunction DEF items
  <2> QED BY <1>3, <2>2 DEF items
<1>5. P = UNION grid
  BY <1>2
<1>6. ASSUME NEW o \in 1..N
      PROVE  IsFiniteSet(g[o]) /\ g[o] \in SUBSET Places
  <2>1. IsFiniteSet({o}) /\ IsFiniteSet(DOMAIN Items(o))
    <3> DEFINE l == Len(Items(o))
    <3>1. DOMAIN Items(o) = 1..l
      BY <1>4
    <3>2. l \in Int
      BY <1>4
    <3> HIDE DEF l
    <3>3. IsFiniteSet(1..l)
      BY <3>2, FS_Interval
    <3> QED BY <3>1, <3>3, FS_Singleton
  <2>2. IsFiniteSet({o} \X DOMAIN Items(o))
    BY <2>1, FS_Product
  <2>3. {o} \X DOMAIN Items(o) \in SUBSET Places
    BY <1>2, <1>4 DEF Places
  <2> QED BY <2>2, <2>3
<1>7. IsFiniteSet(grid)
  <2>1. g \in Surjection(1..N, grid)
    BY DEF Surjection
  <2>2. IsFiniteSet(1..N)
    BY <1>2, FS_Interval
  <2> HIDE DEF g, grid
  <2> QED BY <2>1, <2>2, FS_Surjection
<1>8. \A T \in grid : IsFiniteSet(T) /\ T \in SUBSET Places
  BY <1>6
<1>9. \A q \in P : q[1] \in 1..N /\ q[2] \in DOMAIN Items(q[1])
  BY <1>2
<1>10. lines = [k \in DOMAIN InTurn(P) |-> Items(InTurn(P)[k][1])[InTurn(P)[k][2]]]
  BY DEF LinesOf
<1> HIDE DEF g, grid, P, c, lines, N, Items
<1>11. IsFiniteSet(P) /\ P \in SUBSET Places
  BY <1>5, <1>7, <1>8, FS_UNION
<1>12. c \in Nat /\ InTurn(P) \in [1..c -> P]
  BY <1>11, InTurnIs DEF c
<1>13. lines = [k \in 1..c |-> lines[k]]
  BY <1>10, <1>12
<1>14. ASSUME NEW k \in 1..c
       PROVE  IsLine(lines[k], docType)
  <2> DEFINE q == InTurn(P)[k]
  <2>1. q \in P /\ lines[k] = Items(q[1])[q[2]]
    BY <1>10, <1>12
  <2> HIDE DEF q
  <2> QED BY <1>4, <1>9, <2>1
<1>15. IsList(lines) /\ Len(lines) = c
  BY <1>12, <1>13, FunctionIsList
<1> QED BY <1>14, <1>15 DEF lines

(* The first of a list, if there is one.                                   *)
LEMMA HeadOfIs ==
    ASSUME NEW seq, IsList(seq)
    PROVE  /\ IsList(HeadOf(seq)) /\ HeadOf(HeadOf(seq)) = HeadOf(seq)
           /\ Len(seq) <= 1 => HeadOf(seq) = seq
           /\ seq # <<>> => HeadOf(seq) = <<seq[1]>> /\ 1 \in DOMAIN seq
<1>1. Len(seq) \in Nat /\ DOMAIN seq = 1..Len(seq) /\ seq \in Seq(ToSet(seq))
      /\ seq = [k \in 1..Len(seq) |-> seq[k]]
  BY ListIsFunction DEF IsList
<1>2. CASE seq = <<>>
  <2>1. HeadOf(seq) = <<>>
    BY <1>2 DEF HeadOf
  <2> QED BY <1>2, <2>1
<1>3. CASE seq # <<>>
  <2> DEFINE one == <<seq[1]>>
  <2>1. Len(seq) # 0
    BY <1>1, <1>3, EmptySeq
  <2>2. 1 \in DOMAIN seq /\ HeadOf(seq) = one
    BY <1>1, <1>3, <2>1 DEF HeadOf
  <2>3. one # <<>> /\ Head(one) = seq[1] /\ one = [k \in 1..1 |-> one[k]]
    OBVIOUS
  <2>4. IsList(one) /\ HeadOf(one) = one
    BY <2>3, FunctionIsList DEF HeadOf
  <2>5. ASSUME Len(seq) <= 1
        PROVE  one = seq
    <3>1. Len(seq) = 1
      BY <1>1, <2>1, <2>5
    <3> QED BY <1>1, <3>1
  <2> HIDE DEF one
  <2>6. HeadOf(seq) = <<seq[1]>>
    BY <2>2 DEF one
  <2> QED BY <2>2, <2>4, <2>5, <2>6
<1> QED BY <1>2, <1>3

(* What a line's row tells of it, in whatever order its ids come.          *)
Shuffles(p, n) ==
    /\ p \in [1..n -> 1..n]
    /\ \A j, k \in 1..n : p[j] = p[k] => j = k
    /\ \A m \in 1..n : \E k \in 1..n : p[k] = m

LEMMA AnyOrderIs ==
    ASSUME NEW seq, IsList(seq), NEW n, n = Len(seq), NEW other \in InAnyOrder(seq)
    PROVE  /\ IsList(other) /\ Len(other) = n /\ ToSet(other) = ToSet(seq)
           /\ \E p : Shuffles(p, n) /\ other = [k \in 1..n |-> seq[p[k]]]
<1>1. n \in Nat /\ DOMAIN seq = 1..n
  BY ListIsFunction
<1>2. PICK p \in Bijection(1..n, 1..n) : other = [k \in 1..n |-> seq[p[k]]]
  BY <1>1 DEF InAnyOrder
<1>3. /\ p \in [1..n -> 1..n]
      /\ \A j, k \in 1..n : p[j] = p[k] => j = k
      /\ \A m \in 1..n : \E k \in 1..n : p[k] = m
  BY DEF Bijection, Injection, Surjection, IsInjective
<1>4. other = [k \in 1..n |-> other[k]]
  BY <1>2
<1>5. IsList(other) /\ Len(other) = n /\ DOMAIN other = 1..n
  BY <1>1, <1>4, FunctionIsList
<1>6. ToSet(other) = ToSet(seq)
  <2>1. \A k \in 1..n : other[k] = seq[p[k]] /\ p[k] \in 1..n
    BY <1>2, <1>3
  <2>2. \A m \in 1..n : \E k \in 1..n : other[k] = seq[m]
    BY <1>3, <2>1
  <2>3. ToSet(other) = {other[k] : k \in 1..n} /\ ToSet(seq) = {seq[k] : k \in 1..n}
    BY <1>1, <1>5 DEF ToSet
  <2>4. \A k \in 1..n : other[k] \in {seq[m] : m \in 1..n}
    BY <2>1
  <2>5. \A m \in 1..n : seq[m] \in {other[k] : k \in 1..n}
    BY <2>2
  <2>6. ToSet(other) \subseteq ToSet(seq)
    BY <2>3, <2>4
  <2>7. ToSet(seq) \subseteq ToSet(other)
    BY <2>3, <2>5
  <2> QED BY <2>6, <2>7
<1>7. Shuffles(p, n)
  BY <1>3 DEF Shuffles
<1> QED BY <1>2, <1>5, <1>6, <1>7

LEMMA HeadIsOf ==
    ASSUME NEW seq, IsList(seq)
    PROVE  /\ ToSet(HeadOf(HeadOf(seq))) = ToSet(HeadOf(seq))
           /\ ToSet(HeadOf(seq)) \subseteq ToSet(seq)
<1>1. HeadOf(HeadOf(seq)) = HeadOf(seq)
  BY HeadOfIs
<1>2. CASE seq = <<>>
  BY <1>1, <1>2 DEF HeadOf
<1>3. CASE seq # <<>>
  <2>1. HeadOf(seq) = <<seq[1]>> /\ 1 \in DOMAIN seq
    BY <1>3, HeadOfIs
  <2>2. ToSet(HeadOf(seq)) = {seq[1]}
    BY <2>1 DEF ToSet
  <2> QED BY <1>1, <2>1, <2>2 DEF ToSet
<1> QED BY <1>2, <1>3

LEMMA RowOfLine ==
    ASSUME NEW line, NEW docType, IsLine(line, docType), NEW n \in Int,
           NEW read \in LineReadings(LineRow(line, n, docType), docType)
    PROVE  LET row == LineRow(line, n, docType)
           IN  /\ row.number \in Int /\ read.number[1].value = row.number
               /\ Essence(read) = Essence(line)
               /\ /\ line.number = <<[value |-> n, zeros |-> 0]>> /\ line.charges = <<>>
                  /\ \A k \in DOMAIN line.ids : line.ids[k].type # <<>>
                  => SameLine(read, line) /\ row.number = n
<1> DEFINE ids == line.ids
           row == LineRow(line, n, docType)
           kept == Qualified(ids)
<1>1. IsList(ids) /\ (docType # "855" => line.ack = <<>>)
  BY DEF IsLine
<1>2. DOMAIN ids = 1..Len(ids)
  BY <1>1, ListIsFunction
<1>3. /\ IsList(kept) /\ ToSet(kept) = {id \in ToSet(ids) : id.type # <<>>}
      /\ kept = <<>> <=> \A k \in DOMAIN ids : ids[k].type = <<>>
  BY <1>1, <1>2, QualifiedIs
<1>4. /\ row.number = IF line.number = <<>> THEN n ELSE Head(line.number).value
      /\ row.sku = HeadOf(ids) /\ row.ids = kept
      /\ row.quantity = line.quantity /\ row.price = line.price
      /\ row.description = line.description
      /\ row.ack = IF docType = "855" THEN line.ack ELSE <<>>
  BY DEF LineRow
<1> HIDE DEF row
<1>5. PICK known \in IF kept # <<>> THEN InAnyOrder(kept) ELSE {HeadOf(ids)} :
         read = [number |-> <<[value |-> row.number, zeros |-> 0]>>, ids |-> known,
                 quantity |-> line.quantity, price |-> line.price,
                 description |-> line.description, charges |-> <<>>, ack |-> line.ack]
  BY <1>1, <1>4 DEF LineReadings, row
<1> HIDE DEF kept
<1>6. row.number \in Int
  BY <1>4 DEF IsLine
<1>7. /\ read.number[1].value = row.number /\ read.ids = known
      /\ read.quantity = line.quantity /\ read.price = line.price
  BY <1>5
<1>8. Essence(read) = Essence(line)
  <2> DEFINE Known(s) == {id \in ToSet(s) : id.type # <<>>}
             Ids(s) == IF Known(s) = {} THEN ToSet(HeadOf(s)) ELSE Known(s)
  <2>1. Essence(line) = [ids |-> Ids(ids), quantity |-> line.quantity, price |-> line.price]
    BY DEF Essence
  <2>2. Essence(read) = [ids |-> Ids(known), quantity |-> line.quantity, price |-> line.price]
    BY <1>7 DEF Essence
  <2>3. CASE kept # <<>>
    <3>1. ToSet(known) = ToSet(kept)
      BY <1>3, <1>5, <2>3, AnyOrderIs
    <3>2. Known(known) = Known(ids)
      BY <1>3, <3>1
    <3>3. Known(ids) # {}
      BY <1>2, <1>3, <2>3 DEF ToSet
    <3>4. Ids(known) = Ids(ids)
      BY <3>2, <3>3
    <3> HIDE DEF Ids
    <3> QED BY <2>1, <2>2, <3>4
  <2>4. CASE kept = <<>>
    <3>1. known = HeadOf(ids)
      BY <1>5, <2>4
    <3>2. Known(ids) = {}
      BY <1>2, <1>3, <2>4 DEF ToSet
    <3>3. ToSet(HeadOf(known)) = ToSet(HeadOf(ids)) /\ ToSet(known) \subseteq ToSet(ids)
      BY <1>1, <3>1, HeadIsOf
    <3>4. Known(known) = {}
      BY <3>2, <3>3
    <3>5. Ids(known) = Ids(ids)
      BY <3>2, <3>3, <3>4
    <3> HIDE DEF Ids
    <3> QED BY <2>1, <2>2, <3>5
  <2> QED BY <2>3, <2>4
<1>9. ASSUME line.number = <<[value |-> n, zeros |-> 0]>>, line.charges = <<>>,
             \A k \in DOMAIN ids : ids[k].type # <<>>
      PROVE  SameLine(read, line) /\ row.number = n
  <2>1. row.number = n
    BY <1>4, <1>9
  <2>2. kept = ids
    BY <1>1, <1>2, <1>9, QualifiedOfAll DEF kept
  <2>3. known \in InAnyOrder(ids)
    <3>1. CASE kept # <<>>
      BY <1>5, <2>2, <3>1
    <3>2. CASE kept = <<>>
      <4>1. ids = <<>> /\ known = <<>>
        BY <1>5, <2>2, <3>2 DEF HeadOf
      <4>2. known \in InAnyOrder(<<>>)
        <5> DEFINE p == [k \in DOMAIN <<>> |-> k]
        <5>1. p \in Bijection(DOMAIN <<>>, DOMAIN <<>>)
          BY DEF Bijection, Injection, Surjection, IsInjective
        <5>2. [k \in DOMAIN <<>> |-> <<>>[p[k]]] = <<>>
          OBVIOUS
        <5> HIDE DEF p
        <5> QED BY <4>1, <5>1, <5>2 DEF InAnyOrder
      <4> QED BY <4>1, <4>2
    <3> QED BY <3>1, <3>2
  <2>4. line = [number |-> line.number, ids |-> line.ids, quantity |-> line.quantity,
                price |-> line.price, description |-> line.description,
                charges |-> line.charges, ack |-> line.ack]
    BY DEF IsLine
  <2>5. [line EXCEPT !.ids = known] =
           [number |-> line.number, ids |-> known, quantity |-> line.quantity,
            price |-> line.price, description |-> line.description,
            charges |-> line.charges, ack |-> line.ack]
    BY <2>4
  <2>6. read = [line EXCEPT !.ids = known]
    BY <1>5, <1>9, <2>1, <2>5
  <2> QED BY <1>7, <2>1, <2>3, <2>6 DEF SameLine
<1> QED BY <1>6, <1>7, <1>8, <1>9 DEF row

(* Numbers that are their places are in order only where they stand.       *)
LEMMA AscendingStays ==
    ASSUME NEW n \in Nat, NEW p, Shuffles(p, n),
           \A j, k \in 1..n : j < k => p[j] <= p[k],
           NEW k \in 1..n
    PROVE  p[k] = k
<1> DEFINE A == 1..(k - 1)
           B == 1..(p[k] - 1)
           f == [j \in A |-> p[j]]
<1>1. /\ p \in [1..n -> 1..n]
      /\ \A i, j \in 1..n : p[i] = p[j] => i = j
      /\ \A m \in 1..n : \E j \in 1..n : p[j] = m
  BY DEF Shuffles
<1> DEFINE v == p[k]
<1>2. k \in Int /\ v \in Int /\ k - 1 \in Nat /\ v - 1 \in Nat /\ 1 <= v /\ v <= n
  BY <1>1
<1>3. \A j \in 1..n : j < k => p[j] <= v
  OBVIOUS
<1>4. \A j \in 1..n : k < j => v <= p[j]
  OBVIOUS
<1>5. ASSUME NEW j \in A
      PROVE  j \in 1..n /\ p[j] \in B
  <2>1. j \in 1..n /\ j < k
    BY <1>2
  <2>2. p[j] \in 1..n /\ p[j] # v /\ p[j] <= v
    BY <1>1, <1>3, <2>1
  <2> QED BY <1>2, <2>1, <2>2
<1>6. ASSUME NEW m \in B
      PROVE  \E j \in A : p[j] = m
  <2>1. m \in 1..n /\ m < v
    BY <1>2
  <2>2. PICK j \in 1..n : p[j] = m
    BY <1>1, <2>1
  <2>3. j # k /\ ~(k < j)
    <3>1. p[j] < v
      BY <2>1, <2>2
    <3>2. p[j] \in Int
      BY <2>1, <2>2
    <3> QED BY <1>2, <1>4, <3>1, <3>2
  <2> QED BY <1>2, <2>2, <2>3
<1>7. f \in [A -> B]
  BY <1>5
<1>8. \A i, j \in A : f[i] = f[j] => i = j
  BY <1>1, <1>5
<1>9. \A m \in B : \E j \in A : f[j] = m
  BY <1>6
<1> DEFINE below == k - 1
           under == v - 1
<1>10. below \in Nat /\ under \in Nat /\ A = 1..below /\ B = 1..under
  BY <1>2
<1> HIDE DEF A, B, f, v, below, under
<1>11. IsFiniteSet(A) /\ Cardinality(A) = below
  BY <1>10, FS_Interval
<1>12. Cardinality(B) = under
  BY <1>10, FS_Interval
<1>13. Cardinality(B) = Cardinality(A)
  BY <1>7, <1>8, <1>9, <1>11, OntoOnce
<1> QED BY <1>2, <1>11, <1>12, <1>13 DEF v, below, under

(* The rows of its lines, those of a document that is plain as they stand. *)
LineRows(doc, docType) ==
    [n \in DOMAIN LinesOf(doc) |-> LineRow(LinesOf(doc)[n], n, docType)]

(* The k-th item read is the p[k]-th line that was written.                *)
ReadInTurn(items, wrote, rows, docType, p, n) ==
    /\ Shuffles(p, n)
    /\ IsList(items) /\ Len(items) = n /\ DOMAIN items = 1..n
    /\ \A k \in 1..n : /\ p[k] \in 1..n /\ IsLine(wrote[p[k]], docType)
                       /\ rows[p[k]] = LineRow(wrote[p[k]], p[k], docType)
                       /\ items[k] \in LineReadings(rows[p[k]], docType)
    /\ \A j, k \in 1..n : j < k => rows[p[j]].number <= rows[p[k]].number

LEMMA LinesRead ==
    ASSUME NEW doc, NEW docType, IsDocument(doc, docType),
           NEW wrote, wrote = LinesOf(doc), NEW rows, rows = LineRows(doc, docType),
           NEW items \in ItemsRead(rows, docType), NEW n, n = Len(wrote)
    PROVE  /\ n \in Nat /\ DOMAIN wrote = 1..n
           /\ \E p : ReadInTurn(items, wrote, rows, docType, p, n)
<1>1. /\ IsList(wrote) /\ n \in Nat /\ DOMAIN wrote = 1..n
      /\ \A k \in 1..n : IsLine(wrote[k], docType)
  BY LinesAre, ListIsFunction
<1>2. /\ rows = [k \in 1..n |-> LineRow(wrote[k], k, docType)]
      /\ rows = [k \in 1..n |-> rows[k]]
  BY <1>1 DEF LineRows
<1>3. IsList(rows) /\ Len(rows) = n
  BY <1>1, <1>2, FunctionIsList
<1>4. PICK ordered \in ByNumber(rows) :
         /\ DOMAIN items = DOMAIN ordered /\ items = [k \in DOMAIN ordered |-> items[k]]
         /\ \A k \in DOMAIN ordered : items[k] \in LineReadings(ordered[k], docType)
  BY DEF ItemsRead
<1>5. /\ ordered \in InAnyOrder(rows)
      /\ \A j, k \in DOMAIN ordered : j < k => ordered[j].number <= ordered[k].number
  BY DEF ByNumber
<1>6. PICK p : Shuffles(p, n) /\ ordered = [k \in 1..n |-> rows[p[k]]]
  BY <1>3, <1>5, AnyOrderIs
<1>7. DOMAIN ordered = 1..n /\ \A k \in 1..n : ordered[k] = rows[p[k]] /\ p[k] \in 1..n
  BY <1>6 DEF Shuffles
<1>8. IsList(items) /\ Len(items) = n /\ DOMAIN items = 1..n
  BY <1>1, <1>4, <1>7, FunctionIsList
<1>9. \A j, k \in 1..n : j < k => rows[p[j]].number <= rows[p[k]].number
  BY <1>5, <1>7
<1>10. \A k \in 1..n : /\ p[k] \in 1..n /\ IsLine(wrote[p[k]], docType)
                       /\ rows[p[k]] = LineRow(wrote[p[k]], p[k], docType)
                       /\ items[k] \in LineReadings(rows[p[k]], docType)
  BY <1>1, <1>2, <1>4, <1>7
<1>11. ReadInTurn(items, wrote, rows, docType, p, n)
  BY <1>6, <1>8, <1>9, <1>10 DEF ReadInTurn
<1> QED BY <1>1, <1>11

LEMMA LineRowsTell ==
    ASSUME NEW doc, NEW docType, IsDocument(doc, docType),
           NEW wrote, wrote = LinesOf(doc), NEW rows, rows = LineRows(doc, docType),
           NEW items \in ItemsRead(rows, docType)
    PROVE  /\ IsList(items) /\ Len(items) = Len(wrote)
           /\ \A e : Occurring(items, e) = Occurring(wrote, e)
           /\ \A j, k \in DOMAIN items :
                 j < k => Head(items[j].number).value <= Head(items[k].number).value
<1> DEFINE n == Len(wrote)
<1> HIDE DEF n
<1>0. n \in Nat /\ DOMAIN wrote = 1..n
  BY LinesRead DEF n
<1>11. PICK p : ReadInTurn(items, wrote, rows, docType, p, n)
  BY LinesRead DEF n
<1>1. /\ Shuffles(p, n) /\ p \in [1..n -> 1..n]
      /\ \A j, k \in 1..n : p[j] = p[k] => j = k
      /\ \A m \in 1..n : \E k \in 1..n : p[k] = m
      /\ IsList(items) /\ Len(items) = n /\ DOMAIN items = 1..n
      /\ \A k \in 1..n : /\ p[k] \in 1..n /\ IsLine(wrote[p[k]], docType)
                         /\ rows[p[k]] = LineRow(wrote[p[k]], p[k], docType)
                         /\ items[k] \in LineReadings(rows[p[k]], docType)
      /\ \A j, k \in 1..n : j < k => rows[p[j]].number <= rows[p[k]].number
  BY <1>11 DEF ReadInTurn, Shuffles
<1>2. ASSUME NEW k \in 1..n
      PROVE  /\ Essence(items[k]) = Essence(wrote[p[k]])
             /\ items[k].number[1].value = rows[p[k]].number
  <2> DEFINE m == p[k]
             w == wrote[m]
             r == items[k]
  <2>1. m \in Int /\ IsLine(w, docType)
    BY <1>1
  <2>2. r \in LineReadings(rows[m], docType) /\ rows[m] = LineRow(w, m, docType)
    BY <1>1
  <2> HIDE DEF m, w, r
  <2> DEFINE row == LineRow(w, m, docType)
  <2>3. r \in LineReadings(row, docType)
    BY <2>2
  <2>4. Essence(r) = Essence(w) /\ r.number[1].value = row.number
    BY <2>1, <2>3, RowOfLine
  <2> QED BY <2>2, <2>4 DEF m, w, r
<1>3. ASSUME NEW e
      PROVE  Occurring(items, e) = Occurring(wrote, e)
  <2> DEFINE A == {k \in 1..n : Essence(items[k]) = e}
             B == {k \in 1..n : Essence(wrote[k]) = e}
             f == [k \in A |-> p[k]]
  <2>1. f \in [A -> B]
    BY <1>1, <1>2
  <2>2. \A j, k \in A : f[j] = f[k] => j = k
    BY <1>1
  <2>3. \A m \in B : \E k \in A : f[k] = m
    <3> SUFFICES ASSUME NEW m \in B
                 PROVE  \E k \in A : f[k] = m
      OBVIOUS
    <3>1. PICK k \in 1..n : p[k] = m
      BY <1>1
    <3>2. k \in A
      BY <1>2, <3>1
    <3> QED BY <3>1, <3>2
  <2>4. IsFiniteSet(A)
    <3>1. IsFiniteSet(1..n) /\ A \in SUBSET (1..n)
      BY <1>0, FS_Interval
    <3> QED BY <3>1, FS_Subset
  <2> HIDE DEF A, B, f
  <2>5. Cardinality(B) = Cardinality(A)
    BY <2>1, <2>2, <2>3, <2>4, OntoOnce
  <2> QED BY <1>0, <1>1, <2>5 DEF Occurring, A, B
<1>4. ASSUME NEW j \in 1..n, NEW k \in 1..n, j < k
      PROVE  Head(items[j].number).value <= Head(items[k].number).value
  <2>1. /\ items[j].number[1].value = rows[p[j]].number
        /\ items[k].number[1].value = rows[p[k]].number
    BY <1>2
  <2>2. rows[p[j]].number <= rows[p[k]].number
    BY <1>1, <1>4
  <2> DEFINE first == items[j].number[1].value
             second == items[k].number[1].value
             low == rows[p[j]].number
             high == rows[p[k]].number
  <2>3. first = low /\ second = high /\ low <= high
    BY <2>1, <2>2
  <2> HIDE DEF first, second, low, high
  <2>4. first <= second
    BY <2>3
  <2> QED BY <2>4 DEF first, second
<1> QED BY <1>0, <1>1, <1>3, <1>4 DEF n

(* The lines of a plain document are read back as they stand.              *)
LEMMA PlainLines ==
    ASSUME NEW doc, NEW docType, IsDocument(doc, docType),
           NEW wrote, wrote = LinesOf(doc), NEW rows, rows = LineRows(doc, docType),
           NEW items \in ItemsRead(rows, docType),
           \A n \in DOMAIN wrote :
              /\ wrote[n].number = <<[value |-> n, zeros |-> 0]>> /\ wrote[n].charges = <<>>
              /\ \A k \in DOMAIN wrote[n].ids : wrote[n].ids[k].type # <<>>
    PROVE  \A n \in DOMAIN wrote : SameLine(items[n], wrote[n])
<1> DEFINE n == Len(wrote)
<1> HIDE DEF n
<1>0. n \in Nat /\ DOMAIN wrote = 1..n
  BY LinesRead DEF n
<1>11. PICK p : ReadInTurn(items, wrote, rows, docType, p, n)
  BY LinesRead DEF n
<1>1. /\ Shuffles(p, n) /\ p \in [1..n -> 1..n]
      /\ \A j, k \in 1..n : p[j] = p[k] => j = k
      /\ \A m \in 1..n : \E k \in 1..n : p[k] = m
      /\ IsList(items) /\ Len(items) = n /\ DOMAIN items = 1..n
      /\ \A k \in 1..n : /\ p[k] \in 1..n /\ IsLine(wrote[p[k]], docType)
                         /\ rows[p[k]] = LineRow(wrote[p[k]], p[k], docType)
                         /\ items[k] \in LineReadings(rows[p[k]], docType)
      /\ \A j, k \in 1..n : j < k => rows[p[j]].number <= rows[p[k]].number
  BY <1>11 DEF ReadInTurn, Shuffles
<1>2. ASSUME NEW k \in 1..n
      PROVE  SameLine(items[k], wrote[p[k]]) /\ rows[p[k]].number = p[k]
  <2> DEFINE m == p[k]
             w == wrote[m]
             r == items[k]
  <2>1. m \in Int /\ IsLine(w, docType)
    BY <1>1
  <2>2. r \in LineReadings(rows[m], docType) /\ rows[m] = LineRow(w, m, docType)
    BY <1>1
  <2>3. /\ w.number = <<[value |-> m, zeros |-> 0]>> /\ w.charges = <<>>
        /\ \A i \in DOMAIN w.ids : w.ids[i].type # <<>>
    BY <1>0, <1>1
  <2> HIDE DEF m, w, r
  <2> DEFINE row == LineRow(w, m, docType)
  <2>4. r \in LineReadings(row, docType)
    BY <2>2
  <2>5. SameLine(r, w) /\ row.number = m
    BY <2>1, <2>3, <2>4, RowOfLine
  <2> QED BY <2>2, <2>5 DEF m, w, r
<1>3. ASSUME NEW j \in 1..n, NEW k \in 1..n, j < k
      PROVE  p[j] <= p[k]
  <2>1. rows[p[j]].number = p[j] /\ rows[p[k]].number = p[k]
    BY <1>2
  <2>2. rows[p[j]].number <= rows[p[k]].number
    BY <1>1, <1>3
  <2> QED BY <2>1, <2>2
<1>4. ASSUME NEW k \in 1..n
      PROVE  p[k] = k
  <2>1. \A i, j \in 1..n : i < j => p[i] <= p[j]
    BY <1>3
  <2>2. n \in Nat /\ Shuffles(p, n)
    BY <1>0, <1>1
  <2> QED BY <2>1, <2>2, AscendingStays
<1> QED BY <1>0, <1>2, <1>4

(* What a document's rows tell of it, clause by clause.                    *)
TellsItsDocument(row, read, doc) ==
    LET wrote == LinesOf(doc)
        lines == LinesOf(read)
    IN  /\ row.docType \in Subtyped /\ PlainDocument(doc) => SameButForOrder(read, doc)
        /\ row.lineCount = Len(lines)
        /\ \A e \in {Essence(wrote[n]) : n \in DOMAIN wrote} :
              Occurring(lines, e) = Occurring(wrote, e)
        /\ \A m, n \in DOMAIN lines :
              m < n => Head(lines[m].number).value <= Head(lines[n].number).value
        /\ read.orders[1].po = FirstPo(doc)
        /\ read.references \in InAnyOrder(Qualified(doc.references))
        /\ read.dates \in InAnyOrder(Qualified(doc.dates))

LEMMA PartiesReadBack ==
    ASSUME NEW doc, NEW docType, IsDocument(doc, docType),
           \A n \in DOMAIN doc.parties : Len(doc.parties[n].ids) <= 1,
           NEW rows, rows = [n \in DOMAIN doc.parties |-> PartyRow(doc.parties[n])]
    PROVE  PartiesRead(rows) = doc.parties
<1> DEFINE parties == doc.parties
           l == Len(parties)
<1>1. IsList(parties)
  BY DEF IsDocument
<1>2. /\ l \in Nat /\ DOMAIN parties = 1..l /\ parties = [k \in 1..l |-> parties[k]]
      /\ \A k \in 1..l : parties[k] \in ToSet(parties)
  BY <1>1, ListIsFunction
<1>3. ASSUME NEW n \in 1..l
      PROVE  [role |-> rows[n].role, ids |-> rows[n].id, address |-> rows[n].address]
                = parties[n]
  <2>1. /\ parties[n] = [role |-> parties[n].role, ids |-> parties[n].ids,
                         address |-> parties[n].address]
        /\ IsList(parties[n].ids)
    BY <1>2 DEF IsDocument
  <2>2. HeadOf(parties[n].ids) = parties[n].ids
    BY <1>2, <2>1, HeadOfIs
  <2>3. rows[n] = PartyRow(parties[n])
    BY <1>2
  <2>4. /\ rows[n].role = parties[n].role /\ rows[n].id = parties[n].ids
        /\ rows[n].address = parties[n].address
    BY <2>2, <2>3 DEF PartyRow
  <2> QED BY <2>1, <2>4
<1>4. DOMAIN rows = 1..l
  BY <1>2
<1> QED BY <1>2, <1>3, <1>4 DEF PartiesRead

LEMMA RowsTell ==
    ASSUME NEW doc, NEW docType, IsDocument(doc, docType),
           NEW row, row = Shredded(docType, doc), NEW read \in Reconstruct(row)
    PROVE  TellsItsDocument(row, read, doc)
<1> DEFINE wrote == LinesOf(doc)
           rows == LineRows(doc, docType)
           back == PartiesRead(row.parties)
<1>1. /\ row.docType = docType /\ row.po = FirstPo(doc)
      /\ row.lineCount = Len(wrote) /\ row.lines = rows
      /\ row.subtype = SubtypeRow(docType, doc)
      /\ row.parties = [n \in DOMAIN doc.parties |-> PartyRow(doc.parties[n])]
      /\ row.references = Qualified(doc.references) /\ row.dates = Qualified(doc.dates)
  BY DEF Shredded, LineRows
<1> HIDE DEF wrote, rows
<1>2. PICK items \in ItemsRead(rows, docType), parties \in InAnyOrder(back),
           references \in InAnyOrder(Qualified(doc.references)),
           dates \in InAnyOrder(Qualified(doc.dates)) :
         read = [header |-> SubtypeRow(docType, doc), codes |-> <<>>, rest |-> <<>>,
                 orders |-> <<[po |-> FirstPo(doc), items |-> items]>>,
                 parties |-> parties, references |-> references, dates |-> dates]
  <2>1. PICK items \in ItemsRead(row.lines, row.docType), parties \in InAnyOrder(back),
             references \in InAnyOrder(row.references), dates \in InAnyOrder(row.dates) :
           read = [header |-> row.subtype, codes |-> <<>>, rest |-> <<>>,
                   orders |-> <<[po |-> row.po, items |-> items]>>,
                   parties |-> parties, references |-> references, dates |-> dates]
    BY DEF Reconstruct
  <2>2. /\ items \in ItemsRead(rows, docType)
        /\ references \in InAnyOrder(Qualified(doc.references))
        /\ dates \in InAnyOrder(Qualified(doc.dates))
    BY <1>1, <2>1
  <2>3. read = [header |-> SubtypeRow(docType, doc), codes |-> <<>>, rest |-> <<>>,
                orders |-> <<[po |-> FirstPo(doc), items |-> items]>>,
                parties |-> parties, references |-> references, dates |-> dates]
    BY <1>1, <2>1
  <2> HIDE DEF back
  <2> QED BY <2>2, <2>3
<1> DEFINE order == [po |-> FirstPo(doc), items |-> items]
           orders == <<order>>
<1>3. /\ IsList(items) /\ Len(items) = Len(wrote)
      /\ \A e : Occurring(items, e) = Occurring(wrote, e)
      /\ \A j, k \in DOMAIN items :
            j < k => Head(items[j].number).value <= Head(items[k].number).value
  BY LineRowsTell DEF wrote, rows
<1> HIDE DEF back
<1>4. /\ orders[1] = order /\ orders = [k \in 1..1 |-> orders[k]] /\ order.items = items
      /\ order.po = FirstPo(doc)
  OBVIOUS
<1>5. /\ read.header = SubtypeRow(docType, doc) /\ read.codes = <<>> /\ read.rest = <<>>
      /\ read.orders = orders /\ read.parties = parties
      /\ read.references = references /\ read.dates = dates
  BY <1>2
<1> HIDE DEF orders, order
<1>6. IsList(orders) /\ Len(orders) = 1
  BY <1>4, FunctionIsList
<1>7. LinesOf(read) = items
  BY <1>3, <1>4, <1>5, <1>6, LinesOfOne
<1>8. read.orders[1].po = FirstPo(doc) /\ read.orders[1].items = items
  BY <1>4, <1>5
<1>9. ASSUME docType \in Subtyped, PlainDocument(doc)
      PROVE  SameButForOrder(read, doc)
  <2>1. /\ Len(doc.orders) = 1 /\ doc.codes = <<>> /\ doc.rest = <<>>
        /\ \A n \in DOMAIN wrote :
              /\ wrote[n].number = <<[value |-> n, zeros |-> 0]>> /\ wrote[n].charges = <<>>
              /\ \A k \in DOMAIN wrote[n].ids : wrote[n].ids[k].type # <<>>
        /\ \A n \in DOMAIN doc.parties : Len(doc.parties[n].ids) <= 1
        /\ \A v \in ToSet(doc.references) : v.type # <<>>
        /\ \A v \in ToSet(doc.dates) : v.type # <<>>
    BY <1>9 DEF PlainDocument, wrote
  <2>2. \A n \in DOMAIN wrote : SameLine(items[n], wrote[n])
    BY <2>1, PlainLines DEF wrote, rows
  <2>3. IsList(doc.orders) /\ IsList(doc.references) /\ IsList(doc.dates)
    BY DEF IsDocument
  <2>4. wrote = doc.orders[1].items /\ FirstPo(doc) = doc.orders[1].po
    <3>1. DOMAIN doc.orders = 1..1 /\ doc.orders[1] \in ToSet(doc.orders)
      BY <2>1, <2>3, ListIsFunction
    <3>2. IsList(doc.orders[1].items)
      BY <3>1 DEF IsDocument
    <3>3. wrote = doc.orders[1].items
      BY <2>1, <2>3, <3>2, LinesOfOne DEF wrote
    <3>4. doc.orders # <<>>
      BY <3>1
    <3> QED BY <3>3, <3>4 DEF FirstPo
  <2>5. back = doc.parties
    <3>1. \A n \in DOMAIN doc.parties : Len(doc.parties[n].ids) <= 1
      BY <2>1
    <3>2. PartiesRead(row.parties) = doc.parties
      BY <1>1, <3>1, PartiesReadBack
    <3> QED BY <3>2 DEF back
  <2>6. Qualified(doc.references) = doc.references
    BY <2>1, <2>3, ListIsFunction, QualifiedOfAll
  <2>7. Qualified(doc.dates) = doc.dates
    BY <2>1, <2>3, ListIsFunction, QualifiedOfAll
  <2>8. SubtypeRow(docType, doc) = doc.header
    BY <1>9 DEF SubtypeRow
  <2>9. read.header = doc.header /\ read.codes = doc.codes /\ read.rest = doc.rest
    BY <1>5, <2>1, <2>8
  <2>10. Len(read.orders) = Len(doc.orders) /\ read.orders[1].po = doc.orders[1].po
    BY <1>5, <1>6, <1>8, <2>1, <2>4
  <2>11. /\ Len(read.orders[1].items) = Len(doc.orders[1].items)
         /\ \A n \in DOMAIN doc.orders[1].items :
               SameLine(read.orders[1].items[n], doc.orders[1].items[n])
    BY <1>3, <1>8, <2>2, <2>4
  <2>12. /\ read.parties \in InAnyOrder(doc.parties)
         /\ read.references \in InAnyOrder(doc.references)
         /\ read.dates \in InAnyOrder(doc.dates)
    BY <1>2, <1>5, <2>5, <2>6, <2>7
  <2> QED BY <2>9, <2>10, <2>11, <2>12 DEF SameButForOrder
<1>10. /\ row.docType \in Subtyped /\ PlainDocument(doc) => SameButForOrder(read, doc)
       /\ row.lineCount = Len(LinesOf(read))
       /\ \A e \in {Essence(wrote[n]) : n \in DOMAIN wrote} :
             Occurring(LinesOf(read), e) = Occurring(wrote, e)
       /\ \A m, n \in DOMAIN LinesOf(read) :
             m < n => Head(LinesOf(read)[m].number).value <= Head(LinesOf(read)[n].number).value
       /\ read.orders[1].po = FirstPo(doc)
       /\ read.references \in InAnyOrder(Qualified(doc.references))
       /\ read.dates \in InAnyOrder(Qualified(doc.dates))
  BY <1>1, <1>2, <1>3, <1>5, <1>7, <1>8, <1>9
<1> QED BY <1>10 DEF TellsItsDocument, wrote

(* What is stored, or about to be, are the rows of a document.             *)
StoredAreDocuments ==
    \A t \in txns \cup saves :
        \E c \in Canonicals : t.doc = c.doc /\ t.row = Shredded(c.docType, c.doc)

(* Whatever order its rows come in, what is stored of a document tells it: *)
(* all that a plain one says, of any document each line with its qualified *)
(* ids or its first one, its quantity and price, as often as it was there, *)
(* in the order of the numbers.                                            *)
THEOREM RowsAreTrue == RowsSpec => []RowsTellTheDocument
<1>1. RowsInit => StoredAreDocuments
  BY DEF RowsInit, StoredAreDocuments
<1>2. StoredAreDocuments /\ [RowsNext]_rowsVars => StoredAreDocuments'
  <2> SUFFICES ASSUME StoredAreDocuments, [RowsNext]_rowsVars
               PROVE  StoredAreDocuments'
    OBVIOUS
  <2>1. ASSUME NEW id \in RowIds, NEW c \in Canonicals, BeginSave(id, c)
        PROVE  StoredAreDocuments'
    <3> DEFINE s == [id |-> id, created |-> now, doc |-> c.doc,
                     row |-> Shredded(c.docType, c.doc)]
    <3>1. s.doc = c.doc /\ s.row = Shredded(c.docType, c.doc)
      OBVIOUS
    <3>2. saves' = saves \cup {s} /\ txns' = txns
      BY <2>1 DEF BeginSave
    <3> HIDE DEF s
    <3> QED BY <3>1, <3>2 DEF StoredAreDocuments
  <2>2. ASSUME NEW s \in saves, CommitSave(s) \/ AbortSave(s)
        PROVE  StoredAreDocuments'
    <3>1. txns' \cup saves' \subseteq txns \cup saves
      BY <2>2 DEF CommitSave, AbortSave
    <3> QED BY <3>1 DEF StoredAreDocuments
  <2>3. CASE UNCHANGED <<txns, saves>>
    BY <2>3 DEF StoredAreDocuments
  <2>4. Tick \/ CountList \/ SelectPage => UNCHANGED <<txns, saves>>
    BY DEF Tick, CountList, SelectPage
  <2>5. \A docType \in Filters, limit \in PageSizes :
           OpenList(docType, limit) => UNCHANGED <<txns, saves>>
    BY DEF OpenList
  <2>6. UNCHANGED rowsVars => UNCHANGED <<txns, saves>>
    BY DEF rowsVars
  <2> QED BY <2>1, <2>2, <2>3, <2>4, <2>5, <2>6 DEF RowsNext
<1>3. StoredAreDocuments => RowsTellTheDocument
  <2> SUFFICES ASSUME StoredAreDocuments, NEW t \in txns, NEW read \in Reconstruct(t.row)
               PROVE  TellsItsDocument(t.row, read, t.doc)
    BY DEF RowsTellTheDocument, TellsItsDocument
  <2>1. PICK c \in Canonicals : t.doc = c.doc /\ t.row = Shredded(c.docType, c.doc)
    BY DEF StoredAreDocuments
  <2>2. IsDocument(c.doc, c.docType)
    BY RowsAssumption
  <2> QED BY <2>1, <2>2, RowsTell
<1> QED BY <1>1, <1>2, <1>3, PTL DEF RowsSpec
================================================================================
