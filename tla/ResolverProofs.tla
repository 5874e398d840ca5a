---------------------------- MODULE ResolverProofs ----------------------------
(***************************************************************************)
(* What the review queue guarantees, for any number of operators, receipts *)
(* and documents, interleaved at every await and stopped anywhere.         *)
(* An interchange must name its transaction sets apart (SetsNamedApart):   *)
(* locateTransaction looks a set up by code and control number in all      *)
(* groups, so of two sets of one name it would run the first for both.     *)
(* The argument: the ledger only grows, so that what an operator read of   *)
(* an item stays; a re-run of a set is that set's whole run (OneSet) and   *)
(* logs its outcome before it may close the item; and each document that   *)
(* is rejected again passes from one run to the next (Bears).              *)
(***************************************************************************)
EXTENDS PipelineProofs

(* No two sets of an interchange share transaction code and control number.*)
SetsNamedApart ==
    \A p \in Payloads : \A g, i, h, k :
        /\ IsSet(p, g, i) /\ IsSet(p, h, k)
        /\ SetAt(p, g, i).ref = SetAt(p, h, k).ref
        => g = h /\ i = k

-------------------------------------------------------------------------------
(***************************************************************************)
(* A re-run of one set, x: what it works on, pushed and logged is x.       *)
(***************************************************************************)
OneSet(j, docs, rows, x) ==
    /\ j.artifact \in {NoPayload, x.artifact}
    /\ \A d \in Elements(docs) : SameSet(d, x)
    /\ \A e \in Elements(rows.events) : SameSet(e, x)
    /\ Len(rows.events) <= 1
    /\ j.pc = "stamp" => rows.events # <<>>
    /\ j.pc \in Working =>
          /\ rows.events = <<>>
          /\ \/ /\ j.pc = "translate"
                /\ j.work = <<[group |-> x.group, sets |-> <<x.set>>]>>
                /\ j.processed = <<>>
             \/ /\ j.work = <<[group |-> x.group, sets |-> <<>>]>>
                /\ Len(j.processed) = 1
                /\ j.processed[1].set = x.set

(* What handler h does for the item it took up.                            *)
TakesUp(h) ==
    job[h].original # NoEvent =>
        LET e == EventRow(job[h].original)
        IN  /\ e.needsReview
            /\ job[h].artifact \in {NoPayload, e.artifact}
            /\ \A d \in Elements(tables[h].events) : d.group # 0
            /\ e.set # 0 => OneSet(job[h], pushed[h], tables[h], e)

(* An event is in the review queue for its outcome, and a conflict is one  *)
(* that the gateway found.                                                 *)
ItemStands(id) ==
    LET e == EventRow(id)
    IN  /\ e.needsReview <=> e.outcome \in {"rejected", "conflict"}
        /\ e.outcome = "conflict" => /\ receipt[id[1]] = "conflict"
                                     /\ carried[id[1]] = e.artifact

Linked(id) ==
    LET e == EventRow(id)
    IN  e.resolvedTo # NoEvent =>
            /\ e.resolution = "reprocessed"
            /\ e.resolvedTo \in EventsWritten
            /\ EventRow(e.resolvedTo).original = id
            /\ EventRow(e.resolvedTo).artifact = e.artifact
            /\ e.set # 0 => SameSet(EventRow(e.resolvedTo), e)

ReviewInv ==
    /\ \A h \in Handlers : TakesUp(h)
    /\ \A id \in EventsWritten : ItemStands(id) /\ Linked(id)

-------------------------------------------------------------------------------
(* The document of x is safe: it is in the customer's system, or an event  *)
(* of its set is in the review queue that no re-run is about to close.     *)
Safe(x) ==
    \/ \E d \in EventsWritten :
          /\ SameSet(EventRow(d), x)
          /\ EventRow(d).needsReview
          /\ EventRow(d).resolution \in {"open", "dismissed"}
          /\ \A h \in Handlers : job[h].original = d => job[h].pc # "stamp"
    \/ \E h \in Handlers : [artifact |-> x.artifact, group |-> x.group, set |-> x.set]
                              \in Elements(pushed[h])

RejectedAreSafe ==
    \A id \in EventsWritten : EventRow(id).outcome = "rejected" => Safe(EventRow(id))

-------------------------------------------------------------------------------
(* Some copy of interchange p was found to conflict with the first on      *)
(* record.                                                                 *)
InConflict(p) ==
    \E id \in EventsWritten : EventRow(id).outcome = "conflict" /\ EventRow(id).artifact = p

(* The run of g is one of document x: the receipt of its interchange, or   *)
(* one that an operator asked for to run x again.                          *)
Has(g, x) ==
    IF Fresh(g) THEN job[g].artifact = x.artifact
                ELSE SameSet(EventRow(job[g].original), x)

(* An operator took x up from what the run of g left.                      *)
PassedOn(g, x) ==
    \E c \in Handlers : /\ ~Fresh(c)
                        /\ job[c].original[1] = g
                        /\ SameSet(EventRow(job[c].original), x)

Bears(g, x) == Has(g, x) /\ ~PassedOn(g, x)

(* A document of a received interchange is with one run.                   *)
OneBearer ==
    \A x \in Doc : ~InConflict(x.artifact) =>
        \A g, h \in Handlers : Bears(g, x) /\ Bears(h, x) => g = h

(* What an operator runs again was received.                               *)
Rooted ==
    \A g \in Handlers : ~Fresh(g) =>
        LET p == EventRow(job[g].original).artifact
        IN  InConflict(p) \/ \E r \in Handlers : Fresh(r) /\ job[r].artifact = p

-------------------------------------------------------------------------------
(***************************************************************************)
(* One set, run alone.                                                     *)
(***************************************************************************)
LEMMA OneItem ==
    ASSUME NEW S, NEW x \in S
    PROVE  /\ <<x>> \in Seq(S) /\ <<x>> # <<>> /\ Len(<<x>>) = 1 /\ DOMAIN <<x>> = {1}
           /\ Head(<<x>>) = x /\ Tail(<<x>>) = <<>> /\ <<x>>[1] = x
           /\ Elements(<<x>>) = {x}
           /\ Append(<<>>, x) = <<x>>
           /\ \A s \in Seq(S) : Len(s) = 1 => s = <<s[1]>> /\ Tail(s) = <<>> /\ Head(s) = s[1]
<1>1. /\ <<x>> \in Seq(S) /\ <<x>> # <<>> /\ Len(<<x>>) = 1 /\ DOMAIN <<x>> = {1}
      /\ Head(<<x>>) = x /\ <<x>>[1] = x
  OBVIOUS
<1>2. Tail(<<x>>) = <<>>
  BY <1>1, ElementsTail, EmptySeq
<1>3. Elements(<<x>>) = {x}
  BY <1>1 DEF Elements
<1>4. Append(<<>>, x) = <<x>>
  OBVIOUS
<1>5. \A s \in Seq(S) : Len(s) = 1 => s = <<s[1]>> /\ Tail(s) = <<>> /\ Head(s) = s[1]
  <2> SUFFICES ASSUME NEW s \in Seq(S), Len(s) = 1
               PROVE  s = <<s[1]>> /\ Tail(s) = <<>> /\ Head(s) = s[1]
    OBVIOUS
  <2>1. s = <<s[1]>>
    OBVIOUS
  <2>2. s # <<>>
    OBVIOUS
  <2>3. Len(Tail(s)) = 0 /\ Tail(s) \in Seq(S) /\ Head(s) = s[1]
    BY <2>2, ElementsTail
  <2> QED BY <2>1, <2>3, EmptySeq
<1> QED BY <1>1, <1>2, <1>3, <1>4, <1>5

(* Named apart, a set is what locateTransaction finds for it.              *)
LEMMA ReprocessWorkIs ==
    ASSUME SetsNamedApart, NEW e \in LedgerRow, e.set # 0,
           IsSet(e.artifact, e.group, e.set)
    PROVE  ReprocessWork(e) = <<[group |-> e.group, sets |-> <<e.set>>]>>
<1> DEFINE c == LocateTransaction(e.artifact, SetAt(e.artifact, e.group, e.set).ref)
<1>1. e.artifact \in Payloads
  BY DEF LedgerRow
<1>2. /\ IsSet(e.artifact, c[1], c[2])
      /\ SetAt(e.artifact, c[1], c[2]).ref = SetAt(e.artifact, e.group, e.set).ref
  BY <1>1, Located
<1>3. ReprocessWork(e) = <<[group |-> c[1], sets |-> <<c[2]>>]>>
  BY DEF ReprocessWork
<1> HIDE DEF c
<1>4. c[1] = e.group /\ c[2] = e.set
  BY <1>1, <1>2 DEF SetsNamedApart
<1> QED BY <1>3, <1>4

LEMMA OneSetStarts ==
    ASSUME NEW x, NEW original, x.artifact # NoPayload
    PROVE  LET work == <<[group |-> x.group, sets |-> <<x.set>>]>>
           IN  OneSet(StartedJob(x.artifact, original, work), <<>>,
                      [NoRows EXCEPT !.interchanges = Append(@, x.artifact)], x)
<1> DEFINE work == <<[group |-> x.group, sets |-> <<x.set>>]>>
           j2 == StartedJob(x.artifact, original, work)
           rows2 == [NoRows EXCEPT !.interchanges = Append(@, x.artifact)]
<1>1. work # <<>>
  OBVIOUS
<1>2. NextPc(work, original) = "translate"
  BY <1>1 DEF NextPc
<1>3. /\ j2.pc = "translate" /\ j2.artifact = x.artifact /\ j2.work = work
      /\ j2.processed = <<>>
  <2> HIDE DEF work
  <2> QED BY <1>2 DEF StartedJob, NoWork
<1>4. rows2.events = <<>>
  BY DEF NoRows
<1>5. Len(<<>>) = 0
  OBVIOUS
<1> HIDE DEF j2, rows2
<1> QED BY <1>3, <1>4, <1>5, ElementsEmpty DEF OneSet, work, j2, rows2

LEMMA OneSetMoves ==
    ASSUME NEW j \in Job, NEW docs \in Seq(Doc), NEW rows \in Tables, NEW x,
           NEW j2, NEW docs2, NEW rows2,
           RunInv(j, docs, rows), WorkMove(j, docs, rows, j2, docs2, rows2),
           OneSet(j, docs, rows, x), j.original # NoEvent
    PROVE  OneSet(j2, docs2, rows2, x)
<1> DEFINE left == [group |-> x.group, sets |-> <<x.set>>]
           none == [group |-> x.group, sets |-> <<>>]
           First(k) == k.pc = "translate" /\ k.work = <<left>> /\ k.processed = <<>>
           Second(k) == k.work = <<none>> /\ Len(k.processed) = 1 /\ k.processed[1].set = x.set
<1>1. j.pc \in Working /\ WorkInHand(j) /\ ProcessedInHand(j, docs)
  BY WorkMoves DEF RunInv
<1>2. /\ j.work \in Seq(WorkItem) /\ j.processed \in Seq(ProcessedSet)
      /\ j.artifact \in Payloads /\ j.artifact # NoPayload /\ j.work # <<>>
  BY <1>1, JobInHand, PayloadsAssumption
<1>3. j.artifact = x.artifact /\ rows.events = <<>> /\ (First(j) \/ Second(j))
  BY <1>1, <1>2 DEF OneSet
<1>4. First(j) => /\ Head(j.work) = left /\ Head(j.work).sets # <<>>
                  /\ Head(Head(j.work).sets) = x.set /\ Tail(Head(j.work).sets) = <<>>
                  /\ Len(j.work) = 1
  <2>1. Head(<<left>>) = left /\ Len(<<left>>) = 1
    BY OneItem
  <2>2. left.sets = <<x.set>> /\ <<x.set>> # <<>> /\ Head(<<x.set>>) = x.set /\ Tail(<<x.set>>) = <<>>
    BY OneItem
  <2> HIDE DEF left
  <2> QED BY <2>1, <2>2
<1>5. Second(j) => /\ Head(j.work) = none /\ Head(j.work).sets = <<>>
                   /\ Tail(j.work) = <<>> /\ Head(j.work).group = x.group
                   /\ j.processed = <<j.processed[1]>> /\ j.processed # <<>>
                   /\ Tail(j.processed) = <<>> /\ Head(j.processed) = j.processed[1]
  <2>1. Head(<<none>>) = none /\ Tail(<<none>>) = <<>>
    BY OneItem
  <2>2. none.sets = <<>> /\ none.group = x.group
    OBVIOUS
  <2>3. ASSUME Len(j.processed) = 1
        PROVE  /\ j.processed = <<j.processed[1]>> /\ j.processed # <<>>
               /\ Tail(j.processed) = <<>> /\ Head(j.processed) = j.processed[1]
    <3>1. j.processed # <<>>
      <4>1. Len(<<>>) = 0
        OBVIOUS
      <4> SUFFICES ASSUME j.processed = <<>> PROVE FALSE
        OBVIOUS
      <4> QED BY ONLY <2>3, <4>1, j.processed = <<>>
    <3>2. PICK r \in ProcessedSet : TRUE
      BY <1>2, <3>1
    <3> QED BY <1>2, <2>3, <3>1, <3>2, OneItem
  <2> HIDE DEF none
  <2> QED BY <2>1, <2>2, <2>3
<1>6. /\ \A d \in Elements(docs) : SameSet(d, x)
      /\ Elements(rows.events) = {} /\ Len(rows.events) = 0
  BY <1>3, ElementsEmpty DEF OneSet
<1> HIDE DEF left, none
(* While the one event is still to come, only the job has to be looked at. *)
<1>7. ASSUME j2.artifact = j.artifact, j2.pc # "stamp", rows2.events = rows.events,
             docs2 = docs, j2.pc \in Working => First(j2) \/ Second(j2)
      PROVE  OneSet(j2, docs2, rows2, x)
  BY <1>3, <1>6, <1>7 DEF OneSet, left, none
<1>8. CASE Takes(j, docs, rows, j2, docs2, rows2)
  <2>1. j.pc = "translate" /\ First(j) /\ rows2 = rows
    BY <1>3, <1>5, <1>8 DEF Takes
  <2>2. PICK c \in BOOLEAN :
           /\ j2 = Taken(j, c)
           /\ docs2 = IF c THEN Append(docs, DocInHand(j)) ELSE docs
    BY <1>8 DEF Takes
  <2>3. TakeSet(j.work) = <<none>>
    <3>1. /\ TakeSet(j.work) \in Seq(WorkItem) /\ Len(TakeSet(j.work)) = 1
          /\ TakeSet(j.work)[1] = [group |-> j.work[1].group, sets |-> Tail(j.work[1].sets)]
          /\ Head(j.work) = j.work[1]
      BY <1>2, <1>4, <2>1, TakenWork
    <3>2. TakeSet(j.work)[1] = none
      BY <1>4, <2>1, <3>1 DEF left, none
    <3> HIDE DEF First
    <3> QED BY <3>1, <3>2
  <2>4. /\ j2.pc = "translate" /\ j2.artifact = j.artifact /\ j2.work = <<none>>
        /\ j2.processed = Append(<<>>, [set |-> x.set, conformant |-> c, delivered |-> c])
    BY <1>4, <2>1, <2>2, <2>3 DEF Taken, Job
  <2>5. Len(j2.processed) = 1 /\ j2.processed[1].set = x.set
    <3> DEFINE r == [set |-> x.set, conformant |-> c, delivered |-> c]
    <3>1. r.set = x.set
      OBVIOUS
    <3> HIDE DEF r
    <3>2. j2.processed = <<r>>
      BY <2>4 DEF r
    <3> QED BY <3>1, <3>2
  <2>6. \A d \in Elements(docs2) : SameSet(d, x)
    <3>1. SameSet(DocInHand(j), x)
      BY <1>3, <1>4, <2>1 DEF SameSet, DocInHand, left
    <3>2. DocInHand(j) \in Doc
      <4>1. Head(j.work) \in WorkItem
        BY <1>2, ElementsTail
      <4>2. x.set \in Nat
        BY <1>4, <2>1, <4>1, ElementsTail DEF WorkItem
      <4> QED BY <1>2, <1>4, <2>1, <4>1, <4>2 DEF DocInHand, Doc, WorkItem
    <3> QED BY <1>6, <2>2, <3>1, <3>2, ElementsAppend
  <2> QED BY <1>3, <1>6, <2>1, <2>4, <2>5, <2>6 DEF OneSet, none
<1>9. CASE Fails(j, docs, rows, j2, docs2, rows2)
  <2>1. j2.pc = "failed" /\ j2.artifact = j.artifact /\ docs2 = docs /\ rows2 = rows
    BY <1>9 DEF Fails, Job
  <2> QED BY <1>7, <2>1 DEF Working, AfterAck
<1>10. CASE DrawsAck(j, docs, rows, j2, docs2, rows2)
  <2>1. /\ j2.pc = "saveAck" /\ j2.artifact = j.artifact /\ docs2 = docs /\ rows2 = rows
        /\ j2.work = j.work /\ j2.processed = j.processed /\ Head(j.work).sets = <<>>
    BY <1>10 DEF DrawsAck, Job
  <2> QED BY <1>3, <1>4, <1>7, <2>1
<1>11. CASE SavesAck(j, docs, rows, j2, docs2, rows2)
  <2>1. /\ j.pc = "saveAck" /\ j2.pc = "enqueue" /\ j2.artifact = j.artifact /\ docs2 = docs
        /\ j2.work = j.work /\ j2.processed = j.processed /\ rows2.events = rows.events
    BY <1>11 DEF SavesAck, Job, Tables
  <2> QED BY <1>3, <1>7, <2>1
<1>12. CASE Queues(j, docs, rows, j2, docs2, rows2)
  <2>1. /\ j.pc = "enqueue" /\ j2 = Continue(j, j.processed) /\ docs2 = docs
        /\ rows2.events = rows.events
    BY <1>12 DEF Queues, Tables
  <2>2. Second(j) /\ j.processed # <<>>
    BY <1>3, <1>5, <2>1
  <2>3. /\ j2.artifact = j.artifact /\ j2.processed = j.processed /\ j2.pc = "store"
        /\ j2.work = j.work
    BY <1>1, <1>2, <2>1, <2>2, ContinuedJob
  <2> QED BY <1>7, <2>1, <2>2, <2>3
<1>13. CASE Stores(j, docs, rows, j2, docs2, rows2)
  <2>1. /\ j.pc = "store" /\ j2.artifact = j.artifact /\ docs2 = docs
        /\ j2.pc \in {"recordDelivery", "log"}
        /\ j2.work = j.work /\ j2.processed = j.processed /\ rows2.events = rows.events
    BY <1>13 DEF Stores, Job, Tables
  <2> QED BY <1>3, <1>7, <2>1
<1>14. CASE RecordsDelivery(j, docs, rows, j2, docs2, rows2)
  <2>1. /\ j.pc = "recordDelivery" /\ j2.pc = "log" /\ j2.artifact = j.artifact /\ docs2 = docs
        /\ j2.work = j.work /\ j2.processed = j.processed /\ rows2.events = rows.events
    BY <1>14 DEF RecordsDelivery, Job, Tables
  <2> QED BY <1>3, <1>7, <2>1
<1>15. CASE Logs(j, docs, rows, j2, docs2, rows2)
  <2>1. j.pc = "log" /\ j2 = Continue(j, Tail(j.processed)) /\ docs2 = docs
    BY <1>15 DEF Logs
  <2>2. PICK key \in Keys : rows2 = [rows EXCEPT !.events = Append(@, EventFor(j, key))]
    BY <1>15 DEF Logs
  <2>3. Second(j)
    BY <1>3, <2>1
  <2>4. Tail(j.processed) = <<>> /\ Tail(j.processed) \in Seq(ProcessedSet)
    BY <1>2, <1>5, <2>3, ElementsTail
  <2>5. j2.artifact = j.artifact /\ j2.pc = "stamp"
    BY <1>1, <1>5, <2>1, <2>3, <2>4, ContinuedJob
  <2> DEFINE e == EventFor(j, key)
  <2>6. SameSet(e, x)
    BY <1>3, <1>5, <2>3 DEF SameSet, EventFor
  <2> HIDE DEF e
  <2>7. rows2.events = <<e>>
    BY <1>3, <2>2 DEF Tables, e
  <2>8. Elements(<<e>>) = {e} /\ Len(<<e>>) = 1 /\ <<e>> # <<>>
    BY OneItem
  <2> QED BY <1>3, <1>6, <2>1, <2>5, <2>6, <2>7, <2>8 DEF OneSet, Working, AfterAck
<1> QED BY <1>8, <1>9, <1>10, <1>11, <1>12, <1>13, <1>14, <1>15 DEF WorkMove

-------------------------------------------------------------------------------
(***************************************************************************)
(* The ledger only grows: a step adds events of its own run, or closes one.*)
(***************************************************************************)
LEMMA MoveGrows ==
    ASSUME NEW j \in Job, NEW docs \in Seq(Doc), NEW rows \in Tables,
           NEW j2, NEW docs2, NEW rows2,
           RunInv(j, docs, rows), RunMove(j, docs, rows, j2, docs2, rows2)
    PROVE  /\ Elements(docs) \subseteq Elements(docs2)
           /\ Prefix(rows.events, rows2.events)
<1>1. CASE WorkMove(j, docs, rows, j2, docs2, rows2)
  <2>1. rows.events \in Seq(LedgerRow)
    BY DEF Tables
  <2>2. Prefix(rows.events, rows2.events)
    <3>1. \/ rows2.events = rows.events
          \/ \E key \in Keys : rows2.events = Append(rows.events, EventFor(j, key))
      BY <1>1, WorkMoves
    <3> QED BY <2>1, <3>1 DEF Prefix
  <2>3. docs2 = docs \/ Takes(j, docs, rows, j2, docs2, rows2)
    BY <1>1 DEF WorkMove, Fails, DrawsAck, SavesAck, Queues, Stores, RecordsDelivery, Logs
  <2>4. docs2 = docs \/ docs2 = Append(docs, DocInHand(j))
    BY <2>3 DEF Takes
  <2>5. ASSUME NEW d PROVE Elements(docs) \subseteq Elements(Append(docs, d))
    BY DEF Elements
  <2> QED BY <2>2, <2>4, <2>5
<1>2. CASE Starts(j, docs, rows, j2, docs2, rows2)
  <2>1. docs2 = docs /\ rows.events = <<>>
    BY <1>2, NoWorkType DEF Starts
  <2> QED BY <2>1 DEF Prefix
<1>3. CASE Refused(j, docs, rows, j2, docs2, rows2)
  <2>1. docs2 = docs /\ rows.events = <<>>
    BY <1>3, NoWorkType DEF Refused
  <2> QED BY <2>1 DEF Prefix
<1>4. CASE Asked(j, docs, rows, j2, docs2, rows2)
  <2>1. docs2 = docs /\ rows2 = rows
    BY <1>4 DEF Asked
  <2> QED BY <2>1 DEF Prefix
<1> QED BY <1>1, <1>2, <1>3, <1>4 DEF RunMove

(* The row of an event after the step.                                     *)
NextRow(id) == tables'[id[1]].events[id[2]]

(* What a move of run h leaves of the state.                               *)
AfterMove(h) ==
    /\ \A g \in Handlers \ {h} : /\ job'[g] = job[g] /\ pushed'[g] = pushed[g]
                                 /\ tables'[g] = tables[g]
    /\ Elements(pushed[h]) \subseteq Elements(pushed'[h])
    /\ \A id \in EventsWritten : id \in EventsWritten' /\ NextRow(id) = EventRow(id)
    /\ \A id \in EventsWritten' \ EventsWritten :
          /\ id[1] = h /\ id = <<h, id[2]>>
          /\ id[2] \in DOMAIN tables'[h].events \ DOMAIN tables[h].events

LEMMA MovesAfter ==
    ASSUME PipelineInv, NEW h \in Handlers, MoveOf(h)
    PROVE  AfterMove(h)
<1>1. PICK j2, docs2, rows2 :
         /\ Moved(h, j2, docs2, rows2)
         /\ RunMove(job[h], pushed[h], tables[h], j2, docs2, rows2)
  BY DEF MoveOf
<1>2. /\ job \in [Handlers -> Job] /\ pushed \in [Handlers -> Seq(Doc)]
      /\ tables \in [Handlers -> Tables]
      /\ RunInv(job[h], pushed[h], tables[h])
  BY PipelineTypes DEF PipelineInv, RunsHold
<1>3. /\ job'[h] = j2 /\ pushed'[h] = docs2 /\ tables'[h] = rows2
      /\ \A g \in Handlers \ {h} : /\ job'[g] = job[g] /\ pushed'[g] = pushed[g]
                                   /\ tables'[g] = tables[g]
  BY <1>1, <1>2 DEF Moved
<1>4. /\ Elements(pushed[h]) \subseteq Elements(pushed'[h])
      /\ Prefix(tables[h].events, tables'[h].events)
  BY <1>1, <1>2, <1>3, MoveGrows
<1>5. ASSUME NEW id \in EventsWritten
      PROVE  id \in EventsWritten' /\ NextRow(id) = EventRow(id)
  <2>1. id[1] \in Handlers /\ id[2] \in DOMAIN tables[id[1]].events /\ id = <<id[1], id[2]>>
    BY Written DEF PipelineInv
  <2>2. /\ id[2] \in DOMAIN tables'[id[1]].events
        /\ tables'[id[1]].events[id[2]] = tables[id[1]].events[id[2]]
    BY <1>3, <1>4, <2>1 DEF Prefix
  <2> QED BY <2>1, <2>2 DEF EventsWritten, EventRow, NextRow
<1>6. ASSUME NEW id \in EventsWritten', id \notin EventsWritten
      PROVE  /\ id[1] = h /\ id = <<h, id[2]>>
             /\ id[2] \in DOMAIN tables'[h].events \ DOMAIN tables[h].events
  <2>1. PICK g \in Handlers : id \in {g} \X DOMAIN tables'[g].events
    BY DEF EventsWritten
  <2>2. id \notin {g} \X DOMAIN tables[g].events
    BY <1>6 DEF EventsWritten
  <2>3. g = h
    BY <1>3, <2>1, <2>2
  <2> QED BY <2>1, <2>2, <2>3
<1> QED BY <1>3, <1>4, <1>5, <1>6 DEF AfterMove

(* What closing an item leaves of the state.                               *)
AfterClosing(h, resolution, resolvedTo) ==
    LET id == job[h].original
    IN  /\ id \in EventsWritten /\ id # NoEvent
        /\ UNCHANGED <<intakeVars, pushed>>
        /\ job' = [job EXCEPT ![h].pc = "done"]
        /\ EventsWritten' = EventsWritten
        /\ \A d \in EventsWritten :
              NextRow(d) = IF d = id THEN ClosedRow(EventRow(d), resolution, resolvedTo)
                                       ELSE EventRow(d)
        /\ \A g \in Handlers : Len(tables'[g].events) = Len(tables[g].events)

LEMMA ClosesAfter ==
    ASSUME PipelineInv, NEW h \in Handlers, job[h].pc \in {"dismiss", "stamp"},
           NEW resolution \in {"dismissed", "reprocessed"},
           NEW resolvedTo \in EventIds \cup {NoEvent},
           Resolve(h, resolution, resolvedTo)
    PROVE  AfterClosing(h, resolution, resolvedTo)
<1> DEFINE id == job[h].original
           o == id[1]
           closed == ClosedIn(tables[o], id[2], resolution, resolvedTo)
<1>1. /\ o \in Handlers /\ id[2] \in DOMAIN tables[o].events
      /\ tables' = [tables EXCEPT ![o] = closed]
  BY ResolveKeeps
<1>2. id # NoEvent /\ id \in EventsWritten /\ id = <<o, id[2]>>
  <2>1. id # NoEvent /\ id \in EventsWritten
    BY DEF PipelineInv, Standing, StandsAt
  <2> QED BY <2>1, Written DEF PipelineInv
<1>3. UNCHANGED <<intakeVars, pushed>> /\ job' = [job EXCEPT ![h].pc = "done"]
  BY DEF Resolve
<1>4. tables \in [Handlers -> Tables] /\ tables[o] \in Tables
  BY <1>1, PipelineTypes DEF PipelineInv
<1>5. /\ DOMAIN closed.events = DOMAIN tables[o].events
      /\ Len(closed.events) = Len(tables[o].events)
      /\ closed.events[id[2]] = ClosedRow(tables[o].events[id[2]], resolution, resolvedTo)
      /\ \A m \in DOMAIN tables[o].events : m # id[2] => closed.events[m] = tables[o].events[m]
  BY <1>1, <1>4, ClosedRows
<1> HIDE DEF closed, id
<1>6. tables'[o] = closed /\ \A g \in Handlers : g # o => tables'[g] = tables[g]
  BY <1>1, <1>4
<1>7. /\ \A g \in Handlers : DOMAIN tables'[g].events = DOMAIN tables[g].events
      /\ \A g \in Handlers : Len(tables'[g].events) = Len(tables[g].events)
  BY <1>5, <1>6
<1>8. EventsWritten' = EventsWritten
  BY <1>7 DEF EventsWritten
<1>9. ASSUME NEW d \in EventsWritten
      PROVE  NextRow(d) = IF d = id THEN ClosedRow(EventRow(d), resolution, resolvedTo)
                                      ELSE EventRow(d)
  <2>1. d[1] \in Handlers /\ d[2] \in DOMAIN tables[d[1]].events /\ d = <<d[1], d[2]>>
    BY Written DEF PipelineInv
  <2>2. CASE d = id
    BY <1>5, <1>6, <2>2 DEF EventRow, NextRow
  <2>3. CASE d # id
    <3>1. d[1] # o \/ d[2] # id[2]
      BY <1>2, <2>1, <2>3
    <3>2. tables'[d[1]].events[d[2]] = tables[d[1]].events[d[2]]
      BY <1>5, <1>6, <2>1, <3>1
    <3> QED BY <2>3, <3>2 DEF EventRow, NextRow
  <2> QED BY <2>2, <2>3
<1> QED BY <1>2, <1>3, <1>7, <1>8, <1>9 DEF AfterClosing, id

(* A later row of an event reports what the earlier one did.               *)
Kept(d, e) == d = ClosedRow(e, d.resolution, d.resolvedTo)

LEMMA KeptFields ==
    ASSUME NEW e \in LedgerRow, NEW d, Kept(d, e)
    PROVE  /\ SameSet(d, e) /\ d.outcome = e.outcome /\ d.needsReview = e.needsReview
           /\ d.artifact = e.artifact /\ d.group = e.group /\ d.set = e.set
           /\ d.original = e.original /\ d.delivered = e.delivered
<1> DEFINE r == d.resolution
           to == d.resolvedTo
<1>1. d = [e EXCEPT !.resolution = r, !.resolvedTo = to]
  BY DEF Kept, ClosedRow
<1> HIDE DEF r, to
<1> QED BY <1>1 DEF LedgerRow, SameSet

LEMMA KeptByClosing ==
    ASSUME PipelineInv, NEW h \in Handlers, NEW resolution, NEW resolvedTo,
           AfterClosing(h, resolution, resolvedTo)
    PROVE  /\ \A d \in EventsWritten : Kept(NextRow(d), EventRow(d))
           /\ \A d \in EventsWritten : d # job[h].original => NextRow(d) = EventRow(d)
           /\ NextRow(job[h].original).resolution = resolution
           /\ NextRow(job[h].original).resolvedTo = resolvedTo
           /\ \A g \in Handlers : \A d \in Elements(tables'[g].events) :
                 \E e \in Elements(tables[g].events) : Kept(d, e) /\ e \in LedgerRow
<1>1. \A e \in LedgerRow : /\ Kept(e, e)
                           /\ Kept(ClosedRow(e, resolution, resolvedTo), e)
                           /\ ClosedRow(e, resolution, resolvedTo).resolution = resolution
                           /\ ClosedRow(e, resolution, resolvedTo).resolvedTo = resolvedTo
  BY DEF Kept, ClosedRow, LedgerRow
<1>2. \A d \in EventsWritten : EventRow(d) \in LedgerRow
  BY Written DEF PipelineInv
<1>3. \A d \in EventsWritten :
         NextRow(d) = IF d = job[h].original
                        THEN ClosedRow(EventRow(d), resolution, resolvedTo)
                        ELSE EventRow(d)
  BY DEF AfterClosing
<1>4. job[h].original \in EventsWritten
  BY DEF AfterClosing
<1>5. \A d \in EventsWritten : Kept(NextRow(d), EventRow(d))
  BY <1>1, <1>2, <1>3
<1>6. ASSUME NEW g \in Handlers, NEW d \in Elements(tables'[g].events)
      PROVE  \E e \in Elements(tables[g].events) : Kept(d, e) /\ e \in LedgerRow
  <2>1. PICK n \in DOMAIN tables'[g].events : d = tables'[g].events[n]
    BY DEF Elements
  <2>2. <<g, n>> \in EventsWritten'
    BY DEF EventsWritten
  <2>3. <<g, n>> \in EventsWritten
    BY <2>2 DEF AfterClosing
  <2>4. d = NextRow(<<g, n>>)
    BY <2>1 DEF EventRow, NextRow
  <2>5. EventRow(<<g, n>>) \in Elements(tables[g].events)
    BY <2>3, Written DEF PipelineInv
  <2> QED BY <1>2, <1>5, <2>3, <2>4, <2>5
<1> QED BY <1>1, <1>2, <1>3, <1>4, <1>5, <1>6

-------------------------------------------------------------------------------
(***************************************************************************)
(* Every step keeps what links items, re-runs and their events.            *)
(***************************************************************************)
NewEvent(h, e) ==
    /\ e.resolvedTo = NoEvent
    /\ e.needsReview <=> e.outcome \in {"rejected", "conflict"}
    /\ e.outcome = "conflict" => receipt[h] = "conflict" /\ carried[h] = e.artifact

LEMMA MoveKeepsReview ==
    ASSUME PipelineInv, ReviewInv, NEW h \in Handlers, AfterMove(h), UNCHANGED intakeVars,
           TakesUp(h)',
           \A n \in DOMAIN tables'[h].events \ DOMAIN tables[h].events :
              NewEvent(h, tables'[h].events[n])
    PROVE  ReviewInv'
<1>1. ASSUME NEW g \in Handlers
      PROVE  TakesUp(g)'
  <2>1. CASE g = h
    BY <2>1
  <2>2. CASE g # h
    <3>1. /\ job'[g] = job[g] /\ pushed'[g] = pushed[g] /\ tables'[g] = tables[g]
          /\ TakesUp(g)
      BY <2>2 DEF AfterMove, ReviewInv
    <3>2. job[g].original # NoEvent => NextRow(job[g].original) = EventRow(job[g].original)
      BY DEF AfterMove, PipelineInv, Standing, StandsAt
    <3>3. job'[g].original # NoEvent =>
             NextRow(job'[g].original) = EventRow(job[g].original)
      BY <3>1, <3>2 DEF EventRow, NextRow
    <3> QED BY <3>1, <3>3 DEF TakesUp, EventRow, NextRow
  <2> QED BY <2>1, <2>2
<1>2. receipt' = receipt /\ carried' = carried
  BY DEF intakeVars
<1>3. ASSUME NEW id \in EventsWritten'
      PROVE  ItemStands(id)' /\ Linked(id)'
  <2>1. CASE id \in EventsWritten
    <3>1. NextRow(id) = EventRow(id) /\ ItemStands(id) /\ Linked(id)
      BY <2>1 DEF AfterMove, ReviewInv
    <3>2. EventRow(id).resolvedTo # NoEvent =>
             /\ EventRow(id).resolvedTo \in EventsWritten
             /\ EventRow(id).resolvedTo \in EventsWritten'
             /\ NextRow(EventRow(id).resolvedTo) = EventRow(EventRow(id).resolvedTo)
      BY <3>1 DEF Linked, AfterMove
    <3>3. ItemStands(id)'
      BY <1>2, <3>1 DEF ItemStands, EventRow, NextRow
    <3>4. Linked(id)'
      <4>1. NextRow(id).resolvedTo # NoEvent =>
               NextRow(EventRow(id).resolvedTo) = EventRow(EventRow(id).resolvedTo)
        BY <3>1, <3>2 DEF EventRow, NextRow
      <4> QED BY <3>1, <3>2, <4>1 DEF Linked, EventRow, NextRow
    <3> QED BY <3>3, <3>4
  <2>2. CASE id \notin EventsWritten
    <3>1. id[1] = h /\ NewEvent(h, tables'[h].events[id[2]])
      BY <2>2 DEF AfterMove
    <3>2. NextRow(id) = tables'[h].events[id[2]]
      BY <3>1 DEF EventRow, NextRow
    <3> QED BY <1>2, <3>1, <3>2 DEF ItemStands, Linked, NewEvent, EventRow, NextRow
  <2> QED BY <2>1, <2>2
<1> QED BY <1>1, <1>3 DEF ReviewInv

LEMMA WorksKeepsReview ==
    ASSUME PipelineInv, ReviewInv, NEW h \in Handlers, Works(h)
    PROVE  ReviewInv'
<1>1. PICK j2, docs2, rows2 :
         /\ Moved(h, j2, docs2, rows2)
         /\ WorkMove(job[h], pushed[h], tables[h], j2, docs2, rows2)
  BY DEF Works
<1>2. /\ job[h] \in Job /\ pushed[h] \in Seq(Doc) /\ tables[h] \in Tables
      /\ tables[h].events \in Seq(LedgerRow)
      /\ RunInv(job[h], pushed[h], tables[h]) /\ UNCHANGED intakeVars
      /\ TakesUp(h)
  BY PipelineTypes DEF PipelineInv, RunsHold, Works, ReviewInv
<1>3. job'[h] = j2 /\ pushed'[h] = docs2 /\ tables'[h] = rows2
  BY <1>1, PipelineTypes DEF Moved, PipelineInv
<1>4. /\ job[h].pc \in Working
      /\ j2.artifact = job[h].artifact /\ j2.original = job[h].original
      /\ \/ rows2.events = tables[h].events
         \/ /\ job[h].pc = "log"
            /\ \E key \in Keys : rows2.events = Append(tables[h].events, EventFor(job[h], key))
  BY <1>1, <1>2, WorkMoves
<1>5. AfterMove(h)
  BY WorksKeeps, MovesAfter
<1>6. \A key \in Keys : /\ EventFor(job[h], key).resolvedTo = NoEvent
                        /\ EventFor(job[h], key).outcome \in {"accepted", "rejected"}
                        /\ EventFor(job[h], key).needsReview
                           <=> EventFor(job[h], key).outcome \in {"rejected", "conflict"}
                        /\ EventFor(job[h], key).group = Head(job[h].work).group
  BY DEF EventFor
<1>7. \A n \in DOMAIN tables'[h].events \ DOMAIN tables[h].events :
         NewEvent(h, tables'[h].events[n])
  BY <1>2, <1>3, <1>4, <1>6 DEF NewEvent
<1>8. ASSUME job[h].original # NoEvent
      PROVE  TakesUp(h)'
  <2> DEFINE e == EventRow(job[h].original)
  <2>1. NextRow(job[h].original) = e
    BY <1>5, <1>8 DEF AfterMove, PipelineInv, Standing, StandsAt
  <2>2. NextRow(job'[h].original) = e
    BY <1>3, <1>4, <2>1 DEF EventRow, NextRow
  <2>3. /\ e.needsReview /\ job[h].artifact \in {NoPayload, e.artifact}
        /\ \A d \in Elements(tables[h].events) : d.group # 0
        /\ e.set # 0 => OneSet(job[h], pushed[h], tables[h], e)
    BY <1>2, <1>8 DEF TakesUp, EventRow, NextRow
  <2>4. \A d \in Elements(rows2.events) : d.group # 0
    <3>1. ASSUME job[h].pc = "log" PROVE Head(job[h].work).group # 0
      <4>1. /\ job[h].processed \in Seq(ProcessedSet) /\ job[h].processed # <<>>
            /\ job[h].artifact \in Payloads
        BY <1>2, <3>1, JobInHand DEF RunInv, WorkInHand, Working, AfterAck
      <4>2. Head(job[h].processed) \in Elements(job[h].processed)
        BY <4>1, ElementsTail
      <4>3. IsSet(job[h].artifact, Head(job[h].work).group, Head(job[h].processed).set)
        BY <1>2, <1>4, <4>2 DEF RunInv, ProcessedInHand
      <4> QED BY <4>1, <4>3, IsSetNumbers
    <3>2. CASE rows2.events = tables[h].events
      BY <2>3, <3>2
    <3>3. ASSUME job[h].pc = "log", NEW key \in Keys,
                 rows2.events = Append(tables[h].events, EventFor(job[h], key))
          PROVE  \A d \in Elements(rows2.events) : d.group # 0
      <4> DEFINE new == EventFor(job[h], key)
      <4>1. new.group # 0
        BY <1>6, <3>1, <3>3
      <4> HIDE DEF new
      <4>2. \A d \in Elements(Append(tables[h].events, new)) :
               d = new \/ d \in Elements(tables[h].events)
        BY <1>2 DEF Elements
      <4> QED BY <2>3, <3>3, <4>1, <4>2 DEF new
    <3> QED BY <1>4, <3>2, <3>3
  <2> HIDE DEF e
  <2>5. e.set # 0 => OneSet(j2, docs2, rows2, e)
    BY <1>1, <1>2, <1>8, <2>3, OneSetMoves
  <2> QED BY <1>3, <1>4, <2>2, <2>3, <2>4, <2>5 DEF TakesUp, EventRow, NextRow
<1>9. CASE job[h].original = NoEvent
  <2>1. TakesUp(h)'
    BY <1>3, <1>4, <1>9 DEF TakesUp, EventRow, NextRow
  <2> QED BY <1>2, <1>5, <1>7, <2>1, MoveKeepsReview
<1> QED BY <1>2, <1>5, <1>7, <1>8, <1>9, MoveKeepsReview

LEMMA ShortCircuitKeepsReview ==
    ASSUME PipelineInv, ReviewInv, NEW h \in Handlers, ShortCircuit(h)
    PROVE  ReviewInv'
<1> DEFINE e == LedgerEvent(h, carried[h], receipt[h],
                    [group |-> 0, set |-> 0, delivered |-> FALSE, ackNo |-> 0])
<1>1. /\ job[h] = NoWork /\ tables[h] = NoRows
      /\ receipt[h] \in {"duplicate", "conflict"} /\ UNCHANGED intakeVars
      /\ InsertRow(h, "events", e) /\ job' = [job EXCEPT ![h].pc = "done"]
  BY AtTheGate DEF ShortCircuit
<1>2. AfterMove(h)
  BY ShortCircuitKeeps, MovesAfter
<1>3. /\ job \in [Handlers -> Job] /\ tables \in [Handlers -> Tables]
  BY PipelineTypes DEF PipelineInv
<1>4. job'[h].original = NoEvent
  BY <1>1, <1>3, NoWorkType DEF Job
<1>5. e.resolvedTo = NoEvent /\ e.artifact = carried[h] /\ e.outcome = receipt[h]
      /\ e.needsReview = (receipt[h] \in {"rejected", "conflict"})
  BY DEF LedgerEvent
<1> HIDE DEF e
<1>6. tables'[h].events = Append(<<>>, e)
  <2>1. tables' = [tables EXCEPT ![h] = [tables[h] EXCEPT !.events = Append(@, e)]]
    BY <1>1, <1>3, RowInserted
  <2>2. tables[h].events = <<>> /\ tables[h] \in Tables
    BY <1>1, NoWorkType
  <2> QED BY <1>3, <2>1, <2>2 DEF Tables
<1>7. \A n \in DOMAIN tables'[h].events : NewEvent(h, tables'[h].events[n])
  <2>1. \A n \in DOMAIN tables'[h].events : tables'[h].events[n] = e
    BY <1>6
  <2> QED BY <1>5, <2>1 DEF NewEvent
<1>8. TakesUp(h)'
  BY <1>4 DEF TakesUp
<1> QED BY <1>1, <1>2, <1>7, <1>8, MoveKeepsReview

LEMMA ProcessAcceptedKeepsReview ==
    ASSUME PipelineInv, ReviewInv, NEW h \in Handlers, ProcessAccepted(h)
    PROVE  ReviewInv'
<1>1. /\ job[h] = NoWork /\ tables[h] = NoRows /\ UNCHANGED intakeVars
      /\ InsertRow(h, "interchanges", carried[h])
      /\ job' = [job EXCEPT ![h] =
                    StartedJob(carried[h], NoEvent, WholeInterchange(carried[h]))]
  BY AtTheGate DEF ProcessAccepted, Process, StartedJob
<1>2. AfterMove(h)
  BY ProcessAcceptedKeeps, MovesAfter
<1>3. /\ job \in [Handlers -> Job] /\ tables \in [Handlers -> Tables]
  BY PipelineTypes DEF PipelineInv
<1>4. job'[h].original = NoEvent
  BY <1>1, <1>3 DEF StartedJob, NoWork
<1>5. tables'[h].events = <<>>
  <2>1. tables[h].events = <<>> /\ tables[h] \in Tables
    BY <1>1, NoWorkType
  <2> QED BY <1>1, <1>3, <2>1, RowInserted DEF Tables
<1>6. TakesUp(h)'
  BY <1>4 DEF TakesUp
<1>7. DOMAIN tables'[h].events = {}
  BY <1>5
<1> QED BY <1>1, <1>2, <1>6, <1>7, MoveKeepsReview

LEMMA AskKeepsReview ==
    ASSUME PipelineInv, ReviewInv, NEW h \in Handlers, NEW id,
           NEW pc \in {"dismiss", "reprocess"}, Ask(h, id, pc)
    PROVE  ReviewInv'
<1>1. /\ job[h].pc = "idle" /\ id \in EventsWritten /\ EventRow(id).needsReview
      /\ UNCHANGED intakeVars /\ pushed' = pushed /\ tables' = tables
      /\ job' = [job EXCEPT ![h].pc = pc, ![h].original = id]
  BY DEF Ask, OpenItems
<1>2. /\ job \in [Handlers -> Job]
      /\ job[h] = NoWork /\ tables[h] = NoRows /\ pushed[h] = <<>>
  BY <1>1, PipelineTypes DEF PipelineInv, Standing, StandsAt, Waiting
<1>3. AfterMove(h)
  BY AskKeeps, MovesAfter
<1>4. job'[h].pc = pc /\ job'[h].original = id /\ job'[h].artifact = NoPayload
  BY <1>1, <1>2, NoWorkType DEF Job
<1>5. tables'[h].events = <<>> /\ pushed'[h] = <<>> /\ Elements(<<>>) = {} /\ Len(<<>>) = 0
  BY <1>1, <1>2, NoWorkType, ElementsEmpty
<1>6. NextRow(job'[h].original) = EventRow(id)
  BY <1>1, <1>4 DEF EventRow, NextRow
<1>7. \A x : OneSet(job'[h], pushed'[h], tables'[h], x)
  BY <1>4, <1>5 DEF OneSet, Working, AfterAck
<1>8. TakesUp(h)'
  <2>1. /\ NextRow(job'[h].original).needsReview
        /\ \A d \in Elements(tables'[h].events) : d.group # 0
    BY <1>1, <1>5, <1>6
  <2> QED BY <1>4, <1>7, <2>1 DEF TakesUp, EventRow, NextRow
<1>9. DOMAIN tables'[h].events = {}
  BY <1>5
<1> QED BY <1>1, <1>3, <1>8, <1>9, MoveKeepsReview

LEMMA ReprocessKeepsReview ==
    ASSUME SetsNamedApart, PipelineInv, ReviewInv, NEW h \in Handlers, Reprocess(h)
    PROVE  ReviewInv'
<1> DEFINE id == job[h].original
           e == EventRow(id)
           rows2 == [NoRows EXCEPT !.interchanges = Append(@, e.artifact)]
           j2 == StartedJob(e.artifact, id, ReprocessWork(e))
<1>1. /\ job[h].pc = "reprocess" /\ UNCHANGED <<intakeVars, pushed>>
      /\ InsertRow(h, "interchanges", e.artifact) /\ job' = [job EXCEPT ![h] = j2]
  BY DEF Reprocess, Process, StartedJob, At
<1>2. /\ tables[h] = NoRows /\ pushed[h] = <<>> /\ id # NoEvent /\ id \in EventsWritten
      /\ TakesUp(h)
  BY <1>1 DEF PipelineInv, Standing, StandsAt, Waiting, ReviewInv
<1>3. /\ e \in LedgerRow /\ (e.group = 0 <=> e.set = 0)
      /\ (e.group # 0 => IsSet(e.artifact, e.group, e.set))
  BY <1>2, AskedEvent
<1>4. AfterMove(h)
  BY ReprocessKeeps, MovesAfter
<1>5. job \in [Handlers -> Job] /\ tables \in [Handlers -> Tables]
  BY PipelineTypes DEF PipelineInv
<1>6. e.artifact # NoPayload
  BY <1>3, PayloadsAssumption DEF LedgerRow
<1>7. e.set # 0 => OneSet(j2, <<>>, rows2, e)
  BY <1>3, <1>6, ReprocessWorkIs, OneSetStarts
<1>8. j2.artifact = e.artifact /\ j2.original = id
  BY DEF StartedJob, NoWork
<1>9. e.needsReview /\ NextRow(id) = e
  BY <1>2, <1>4 DEF TakesUp, AfterMove
<1> HIDE DEF e, j2, id
<1>10. job'[h] = j2 /\ tables'[h] = rows2 /\ pushed'[h] = <<>>
  <2>1. tables' = [tables EXCEPT ![h] = rows2]
    BY <1>1, <1>2, <1>5, RowInserted
  <2> HIDE DEF rows2
  <2> QED BY <1>1, <1>2, <1>5, <2>1
<1>11. rows2.events = <<>>
  BY DEF NoRows
<1> HIDE DEF rows2
<1>12. NextRow(job'[h].original) = e
  BY <1>8, <1>9, <1>10
<1>13. TakesUp(h)'
  BY <1>7, <1>8, <1>9, <1>10, <1>11, <1>12, ElementsEmpty DEF TakesUp, EventRow, NextRow
<1>14. DOMAIN tables'[h].events = {}
  BY <1>10, <1>11
<1> QED BY <1>1, <1>4, <1>13, <1>14, MoveKeepsReview

(* The gateway does not judge a receipt twice.                             *)
LEMMA VerdictsStay ==
    ASSUME PipelineInv, NEW h \in Handlers, GateStep(h)
    PROVE  \A g \in Handlers : receipt[g] # "none" =>
              receipt'[g] = receipt[g] /\ carried'[g] = carried[g]
<1>1. TypeOK /\ HandlersAgree
  BY DEF PipelineInv, PipelineTypeOK, RegistrationInv
<1> SUFFICES ASSUME NEW g \in Handlers, receipt[g] # "none"
             PROVE  receipt'[g] = receipt[g] /\ carried'[g] = carried[g]
  OBVIOUS
<1>2. stage[g] = "answered"
  BY <1>1 DEF HandlersAgree
<1>3. CASE \E p \in Payloads : Receive(h, p)
  BY <1>1, <1>2, <1>3 DEF Receive, TypeOK
<1>4. CASE AwaitStore(h)
  BY <1>1, <1>2, <1>4 DEF AwaitStore, RegisterAtomically, Upsert, Lookup, TypeOK
<1>5. CASE Abort(h)
  BY <1>5 DEF Abort
<1> QED BY <1>3, <1>4, <1>5 DEF GateStep

LEMMA GateKeepsReview ==
    ASSUME PipelineInv, ReviewInv, UNCHANGED pipelineVars,
           \A g \in Handlers : receipt[g] # "none" =>
              receipt'[g] = receipt[g] /\ carried'[g] = carried[g]
    PROVE  ReviewInv'
<1>1. job' = job /\ pushed' = pushed /\ tables' = tables
  BY DEF pipelineVars
<1>2. \A h \in Handlers : TakesUp(h)'
  BY <1>1 DEF ReviewInv, TakesUp, EventRow
<1>3. EventsWritten' = EventsWritten
  BY <1>1 DEF EventsWritten
<1>4. ASSUME NEW id \in EventsWritten
      PROVE  ItemStands(id)' /\ Linked(id)'
  <2>1. ItemStands(id) /\ Linked(id) /\ id[1] \in Handlers
    BY Written DEF ReviewInv, PipelineInv
  <2>2. ItemStands(id)'
    BY <1>1, <2>1 DEF ItemStands, EventRow
  <2>3. Linked(id)'
    BY <1>1, <1>3, <2>1 DEF Linked, EventRow
  <2> QED BY <2>2, <2>3
<1> QED BY <1>2, <1>3, <1>4 DEF ReviewInv

LEMMA OneSetClosed ==
    ASSUME NEW j, NEW docs, NEW rows \in Tables, NEW x, OneSet(j, docs, rows, x),
           NEW j2, NEW rows2 \in Tables, NEW x2, SameSet(x2, x),
           Len(rows2.events) = Len(rows.events),
           \A d \in Elements(rows2.events) : \E e \in Elements(rows.events) : SameSet(d, e),
           j2 = j \/ (j2.pc = "done" /\ j2.artifact = j.artifact)
    PROVE  OneSet(j2, docs, rows2, x2)
<1>1. rows.events \in Seq(LedgerRow) /\ rows2.events \in Seq(LedgerRow)
  BY DEF Tables
<1>2. rows2.events = <<>> <=> rows.events = <<>>
  BY <1>1, EmptySeq
<1>3. \A d, e : SameSet(d, e) /\ SameSet(e, x) => SameSet(d, x2)
  BY DEF SameSet
<1>4. \A d : SameSet(d, x) => SameSet(d, x2)
  BY DEF SameSet
<1>5. x2.artifact = x.artifact /\ x2.group = x.group /\ x2.set = x.set
  BY DEF SameSet
<1>6. /\ j2.artifact \in {NoPayload, x2.artifact}
      /\ \A d \in Elements(docs) : SameSet(d, x2)
      /\ \A d \in Elements(rows2.events) : SameSet(d, x2)
      /\ Len(rows2.events) <= 1
  BY <1>3, <1>4, <1>5 DEF OneSet
<1>7. CASE j2 = j
  BY <1>2, <1>5, <1>6, <1>7 DEF OneSet
<1>8. CASE j2.pc = "done"
  BY <1>6, <1>8 DEF OneSet, Working, AfterAck
<1> QED BY <1>7, <1>8

LEMMA ClosingKeepsReview ==
    ASSUME PipelineInv, PipelineInv', ReviewInv, NEW h \in Handlers,
           Dismiss(h) \/ StampReprocessed(h)
    PROVE  ReviewInv'
<1>1. PICK resolution \in {"dismissed", "reprocessed"},
           resolvedTo \in EventIds \cup {NoEvent} :
         /\ Resolve(h, resolution, resolvedTo)
         /\ job[h].pc \in {"dismiss", "stamp"}
         /\ resolution = "dismissed" => resolvedTo = NoEvent
         /\ resolution = "reprocessed" =>
               /\ job[h].pc = "stamp"
               /\ resolvedTo = IF tables[h].events # <<>> THEN <<h, 1>> ELSE NoEvent
  BY Closings
<1> DEFINE id == job[h].original
<1>2. AfterClosing(h, resolution, resolvedTo)
  BY <1>1, ClosesAfter
<1>3. /\ id \in EventsWritten /\ id # NoEvent /\ UNCHANGED <<intakeVars, pushed>>
      /\ job' = [job EXCEPT ![h].pc = "done"] /\ EventsWritten' = EventsWritten
      /\ \A g \in Handlers : Len(tables'[g].events) = Len(tables[g].events)
  BY <1>2 DEF AfterClosing
<1>4. /\ \A d \in EventsWritten : Kept(NextRow(d), EventRow(d))
      /\ \A d \in EventsWritten : d # id => NextRow(d) = EventRow(d)
      /\ NextRow(id).resolution = resolution /\ NextRow(id).resolvedTo = resolvedTo
      /\ \A g \in Handlers : \A d \in Elements(tables'[g].events) :
            \E e \in Elements(tables[g].events) : Kept(d, e) /\ e \in LedgerRow
  BY <1>2, KeptByClosing
<1>5. \A d \in EventsWritten : EventRow(d) \in LedgerRow
  BY Written DEF PipelineInv
<1>6. \A d \in EventsWritten :
         /\ SameSet(NextRow(d), EventRow(d)) /\ NextRow(d).outcome = EventRow(d).outcome
         /\ NextRow(d).needsReview = EventRow(d).needsReview
         /\ NextRow(d).original = EventRow(d).original
         /\ NextRow(d).artifact = EventRow(d).artifact /\ NextRow(d).set = EventRow(d).set
  BY <1>4, <1>5, KeptFields
<1>7. job \in [Handlers -> Job]
  BY PipelineTypes DEF PipelineInv
<1>8. \A g \in Handlers : /\ job'[g].original = job[g].original
                          /\ job'[g].artifact = job[g].artifact
                          /\ job'[g] = job[g] \/ job'[g].pc = "done"
  BY <1>3, <1>7 DEF Job
<1> HIDE DEF id
<1>9. ASSUME NEW g \in Handlers
      PROVE  TakesUp(g)'
  <2> SUFFICES ASSUME job[g].original # NoEvent PROVE TakesUp(g)'
    BY <1>8 DEF TakesUp
  <2> DEFINE o == job[g].original
             e == EventRow(o)
             e2 == NextRow(o)
  <2>1. o \in EventsWritten /\ TakesUp(g)
    BY DEF PipelineInv, Standing, StandsAt, ReviewInv
  <2>2. e.needsReview /\ job[g].artifact \in {NoPayload, e.artifact}
    BY <2>1 DEF TakesUp
  <2>3. e.set # 0 => OneSet(job[g], pushed[g], tables[g], e)
    BY <2>1 DEF TakesUp
  <2>4. \A d \in Elements(tables[g].events) : d.group # 0
    BY <2>1 DEF TakesUp
  <2>5. e2.needsReview /\ job'[g].artifact \in {NoPayload, e2.artifact}
    BY <1>6, <1>8, <2>1, <2>2
  <2>6. \A d \in Elements(tables'[g].events) : \E c \in Elements(tables[g].events) :
           SameSet(d, c) /\ d.group = c.group
    BY <1>4, KeptFields
  <2>7. tables[g] \in Tables /\ tables'[g] \in Tables
    BY PipelineTypes DEF PipelineInv, PipelineTypeOK
  <2>8. SameSet(e2, e) /\ e2.set = e.set
    BY <1>6, <2>1
  <2> HIDE DEF e, e2, o
  <2>9. e2.set # 0 => OneSet(job'[g], pushed[g], tables'[g], e2)
    BY <1>3, <1>8, <2>3, <2>6, <2>7, <2>8, OneSetClosed
  <2>10. NextRow(job'[g].original) = e2
    BY <1>8 DEF e2, o
  <2> QED BY <1>3, <2>4, <2>5, <2>6, <2>9, <2>10 DEF TakesUp, EventRow, NextRow
<1>10. ASSUME NEW d \in EventsWritten
       PROVE  ItemStands(d)'
  <2>1. ItemStands(d)
    BY DEF ReviewInv
  <2> QED BY <1>3, <1>6, <2>1 DEF ItemStands, EventRow, NextRow, intakeVars
(* The link of the item that is closed is to an event of this re-run.      *)
<1>11. ASSUME resolvedTo # NoEvent
       PROVE  /\ resolution = "reprocessed" /\ resolvedTo \in EventsWritten
              /\ EventRow(resolvedTo).original = id
              /\ EventRow(resolvedTo).artifact = EventRow(id).artifact
              /\ EventRow(id).set # 0 => SameSet(EventRow(resolvedTo), EventRow(id))
  <2>1. /\ resolution = "reprocessed" /\ job[h].pc = "stamp" /\ resolvedTo = <<h, 1>>
        /\ tables[h].events # <<>>
    BY <1>1, <1>11
  <2>2. tables[h].events \in Seq(LedgerRow)
    BY PipelineTypes DEF PipelineInv
  <2>3. 1 \in DOMAIN tables[h].events
    BY <2>1, <2>2
  <2>4. resolvedTo \in EventsWritten
    BY <2>1, <2>3 DEF EventsWritten
  <2> DEFINE d == EventRow(resolvedTo)
  <2>5. d \in Elements(tables[h].events)
    BY <2>1, <2>3 DEF EventRow, Elements
  <2>6. TakesUp(h) /\ EventsPast(job[h], pushed[h], tables[h]) /\ job[h].artifact # NoPayload
    BY <2>1 DEF ReviewInv, PipelineInv, RunsHold, RunInv, Standing, StandsAt
  <2>7. /\ d.group # 0 /\ job[h].artifact = EventRow(id).artifact
        /\ EventRow(id).set # 0 => SameSet(d, EventRow(id))
    BY <1>3, <2>5, <2>6 DEF TakesUp, OneSet, id
  <2>8. d.original = id /\ d.artifact = job[h].artifact
    BY <2>5, <2>6, <2>7 DEF EventsPast, EventStands, id
  <2> QED BY <2>1, <2>4, <2>7, <2>8
<1>12. ASSUME NEW d \in EventsWritten
       PROVE  Linked(d)'
  <2> DEFINE e2 == NextRow(d)
  <2>1. Linked(d)
    BY DEF ReviewInv
  <2>2. e2.resolvedTo # NoEvent =>
           /\ e2.resolution = "reprocessed" /\ e2.resolvedTo \in EventsWritten
           /\ EventRow(e2.resolvedTo).original = d
           /\ EventRow(e2.resolvedTo).artifact = EventRow(d).artifact
           /\ EventRow(d).set # 0 => SameSet(EventRow(e2.resolvedTo), EventRow(d))
    <3>1. CASE d = id
      BY <1>4, <1>11, <3>1
    <3>2. CASE d # id
      BY <1>4, <2>1, <3>2 DEF Linked
    <3> QED BY <3>1, <3>2
  <2>3. e2.artifact = EventRow(d).artifact /\ e2.set = EventRow(d).set /\ SameSet(e2, EventRow(d))
    BY <1>6
  <2> HIDE DEF e2
  <2> DEFINE to == e2.resolvedTo
  <2>4. to # NoEvent => /\ to \in EventsWritten /\ SameSet(NextRow(to), EventRow(to))
                        /\ NextRow(to).original = EventRow(to).original
                        /\ NextRow(to).artifact = EventRow(to).artifact
    BY <1>6, <2>2
  <2>5. to # NoEvent => /\ e2.resolution = "reprocessed" /\ to \in EventsWritten'
                        /\ NextRow(to).original = d
                        /\ NextRow(to).artifact = e2.artifact
                        /\ e2.set # 0 => SameSet(NextRow(to), e2)
    BY <1>3, <2>2, <2>3, <2>4 DEF SameSet
  <2> QED BY <2>5 DEF Linked, EventRow, NextRow, e2
<1> QED BY <1>3, <1>9, <1>10, <1>12 DEF ReviewInv

LEMMA ReviewStep ==
    ASSUME SetsNamedApart
    PROVE  PipelineInv /\ PipelineInv' /\ ReviewInv /\ [ResolverNext]_vars => ReviewInv'
<1> SUFFICES ASSUME PipelineInv, PipelineInv', ReviewInv, [ResolverNext]_vars
             PROVE  ReviewInv'
  OBVIOUS
<1>1. CASE ResolverNext
  <2>1. PICK h \in Handlers : StepOf(h)
    BY <1>1, ResolverSteps
  <2>2. CASE GateStep(h)
    <3>1. UNCHANGED pipelineVars
      BY <2>2 DEF GateStep
    <3> QED BY <2>2, <3>1, VerdictsStay, GateKeepsReview
  <2> QED BY <2>1, <2>2, WorksKeepsReview, ShortCircuitKeepsReview, ProcessAcceptedKeepsReview,
             AskKeepsReview, ReprocessKeepsReview, ClosingKeepsReview DEF StepOf
<1>2. CASE UNCHANGED vars
  BY <1>2, GateKeepsReview DEF vars, intakeVars
<1> QED BY <1>1, <1>2

LEMMA NothingWrittenYet == PipelineInit => EventsWritten = {} /\ \A h \in Handlers : Fresh(h)
<1> SUFFICES ASSUME PipelineInit PROVE EventsWritten = {} /\ \A h \in Handlers : Fresh(h)
  OBVIOUS
<1>1. \A h \in Handlers : job[h] = NoWork /\ tables[h] = NoRows
  BY DEF PipelineInit
<1>2. \A h \in Handlers : DOMAIN tables[h].events = {}
  BY <1>1, NoWorkType
<1> QED BY <1>1, <1>2, NoWorkType DEF EventsWritten, Fresh

(* Items, re-runs and events belong together as ReviewInv says.            *)
THEOREM ReviewHolds ==
    ASSUME SetsNamedApart
    PROVE  ResolverSpec => []ReviewInv
<1>1. PipelineInit => ReviewInv
  BY NothingWrittenYet DEF ReviewInv, TakesUp, Fresh
<1>2. PipelineInv /\ PipelineInv' /\ ReviewInv /\ [ResolverNext]_vars => ReviewInv'
  BY ReviewStep
<1> QED BY <1>1, <1>2, RunsAreWhole, PTL DEF ResolverSpec

(* The event that a reprocessed item links to is one its own re-run logged *)
(* of the same document, however many operators took the item up.          *)
THEOREM LinksAreOfTheRerun ==
    ASSUME SetsNamedApart
    PROVE  ResolverSpec => []ResolutionLinksTheRerun
<1>1. ReviewInv => ResolutionLinksTheRerun
  BY DEF ReviewInv, Linked, ResolutionLinksTheRerun
<1> QED BY <1>1, ReviewHolds, PTL

-------------------------------------------------------------------------------
(***************************************************************************)
(* A rejected document stays safe.                                         *)
(***************************************************************************)
LEMMA RejectedIsSet ==
    ASSUME PipelineInv, NEW id \in EventsWritten, EventRow(id).outcome = "rejected"
    PROVE  EventRow(id).set # 0 /\ EventRow(id) \in LedgerRow
<1>1. /\ id[1] \in Handlers /\ EventRow(id) \in Elements(tables[id[1]].events)
      /\ EventRow(id) \in LedgerRow
  BY Written DEF PipelineInv
<1>2. EventsPast(job[id[1]], pushed[id[1]], tables[id[1]])
  BY <1>1 DEF PipelineInv, RunsHold, RunInv
<1> QED BY <1>1, <1>2 DEF EventsPast

(* An event that was just written is in nobody's hands.                    *)
LEMMA NewIsNoOriginal ==
    ASSUME PipelineInv, NEW h \in Handlers, AfterMove(h),
           tables'[h] \in Tables,
           job'[h].original = job[h].original \/ job'[h].pc # "stamp",
           NEW id \in EventsWritten' \ EventsWritten
    PROVE  \A g \in Handlers : job'[g].original = id => job'[g].pc # "stamp"
<1>1. id = <<h, id[2]>> /\ id[2] \in DOMAIN tables'[h].events
  BY DEF AfterMove
<1>2. tables'[h].events \in Seq(LedgerRow)
  BY DEF Tables
<1>3. id[2] \in Nat
  BY <1>1, <1>2
<1>4. id # NoEvent
  BY <1>1, <1>3, GroupsAssumption
<1>5. \A g \in Handlers : job[g].original # id
  BY <1>4 DEF PipelineInv, Standing, StandsAt
<1>6. \A g \in Handlers \ {h} : job'[g] = job[g]
  BY DEF AfterMove
<1> QED BY <1>5, <1>6

LEMMA NewIsSafe ==
    ASSUME PipelineInv, NEW h \in Handlers, AfterMove(h), tables'[h] \in Tables,
           job'[h].original = job[h].original \/ job'[h].pc # "stamp",
           NEW id \in EventsWritten' \ EventsWritten,
           NextRow(id).needsReview, NextRow(id).resolution = "open",
           NEW x, SameSet(NextRow(id), x)
    PROVE  Safe(x)'
<1>1. \A g \in Handlers : job'[g].original = id => job'[g].pc # "stamp"
  BY NewIsNoOriginal
<1>2. /\ id \in EventsWritten' /\ SameSet(NextRow(id), x) /\ NextRow(id).needsReview
      /\ NextRow(id).resolution \in {"open", "dismissed"}
  OBVIOUS
<1> QED BY <1>1, <1>2 DEF Safe, EventRow, NextRow

(* A move that does not bring the document's re-run to its stamp.          *)
LEMMA SafeStays ==
    ASSUME PipelineInv, NEW h \in Handlers, AfterMove(h), NEW x, Safe(x),
           \A d \in EventsWritten :
              /\ SameSet(EventRow(d), x) /\ job'[h].original = d /\ job'[h].pc = "stamp"
              => job[h].original = d /\ job[h].pc = "stamp"
    PROVE  Safe(x)'
<1>1. CASE \E g \in Handlers : [artifact |-> x.artifact, group |-> x.group, set |-> x.set]
                                  \in Elements(pushed[g])
  <2>1. \A g \in Handlers : Elements(pushed[g]) \subseteq Elements(pushed'[g])
    BY DEF AfterMove, Elements
  <2>2. \E g \in Handlers : [artifact |-> x.artifact, group |-> x.group, set |-> x.set]
                               \in Elements(pushed'[g])
    BY <1>1, <2>1
  <2>3. \A g \in Handlers : Elements(pushed[g])' = Elements(pushed'[g])
    BY DEF Elements
  <2> QED BY <2>2, <2>3 DEF Safe
<1>2. ASSUME NEW d \in EventsWritten,
             SameSet(EventRow(d), x), EventRow(d).needsReview,
             EventRow(d).resolution \in {"open", "dismissed"},
             \A g \in Handlers : job[g].original = d => job[g].pc # "stamp"
      PROVE  Safe(x)'
  <2>1. d \in EventsWritten' /\ NextRow(d) = EventRow(d)
    BY DEF AfterMove
  <2>2. \A g \in Handlers : job'[g].original = d => job'[g].pc # "stamp"
    BY <1>2 DEF AfterMove
  <2>3. SameSet(NextRow(d), x) /\ NextRow(d).needsReview
        /\ NextRow(d).resolution \in {"open", "dismissed"}
    BY <1>2, <2>1
  <2> QED BY <2>1, <2>2, <2>3 DEF Safe, EventRow, NextRow
<1> QED BY <1>1, <1>2 DEF Safe

(* A re-run comes to its stamp with its outcome on the ledger: delivered,  *)
(* or rejected again in an item of its own.                                *)
LEMMA WorksKeepsSafe ==
    ASSUME PipelineInv, PipelineInv', ReviewInv, ReviewInv',
           NEW h \in Handlers, Works(h)
    PROVE  /\ \A x : x.set # 0 /\ Safe(x) => Safe(x)'
           /\ \A id \in EventsWritten' \ EventsWritten : \A x :
                 NextRow(id).outcome = "rejected" /\ SameSet(NextRow(id), x) => Safe(x)'
<1>1. PICK j2, docs2, rows2 :
         /\ Moved(h, j2, docs2, rows2)
         /\ WorkMove(job[h], pushed[h], tables[h], j2, docs2, rows2)
  BY DEF Works
<1>2. /\ job[h] \in Job /\ pushed[h] \in Seq(Doc) /\ tables[h] \in Tables
      /\ tables[h].events \in Seq(LedgerRow)
      /\ RunInv(job[h], pushed[h], tables[h]) /\ TakesUp(h) /\ TakesUp(h)'
  BY PipelineTypes DEF PipelineInv, RunsHold, ReviewInv
<1>3. job'[h] = j2 /\ pushed'[h] = docs2 /\ tables'[h] = rows2
  BY <1>1, PipelineTypes DEF Moved, PipelineInv
<1>4. /\ job[h].pc \in Working /\ j2.original = job[h].original
      /\ \/ rows2.events = tables[h].events
         \/ \E key \in Keys : rows2.events = Append(tables[h].events, EventFor(job[h], key))
  BY <1>1, <1>2, WorkMoves
<1>5. AfterMove(h)
  BY WorksKeeps, MovesAfter
<1>6. tables'[h] \in Tables /\ pushed'[h] \in Seq(Doc)
  BY DEF PipelineInv, PipelineTypeOK, Doc
<1>7. \A id \in EventsWritten' \ EventsWritten : NextRow(id).resolution = "open"
  <2>1. \A key \in Keys : EventFor(job[h], key).resolution = "open"
    BY DEF EventFor
  <2>2. \A n \in DOMAIN rows2.events \ DOMAIN tables[h].events :
           rows2.events[n].resolution = "open"
    BY <1>2, <1>4, <2>1
  <2> QED BY <1>3, <1>5, <2>2 DEF AfterMove, NextRow
<1>8. \A id \in EventsWritten' :
         NextRow(id).needsReview <=> NextRow(id).outcome \in {"rejected", "conflict"}
  BY DEF ReviewInv, ItemStands, EventRow, NextRow
<1>9. job'[h].original = job[h].original
  BY <1>3, <1>4
<1>10. ASSUME NEW id \in EventsWritten' \ EventsWritten, NEW x,
              NextRow(id).outcome = "rejected", SameSet(NextRow(id), x)
       PROVE  Safe(x)'
  <2>1. NextRow(id).needsReview /\ NextRow(id).resolution = "open"
    BY <1>7, <1>8, <1>10
  <2> QED BY <1>5, <1>6, <1>9, <1>10, <2>1, NewIsSafe
<1>11. ASSUME NEW x, x.set # 0, Safe(x)
       PROVE  Safe(x)'
  <2> DEFINE o == job[h].original
             e == EventRow(o)
  <2>1. CASE ~(o \in EventsWritten /\ SameSet(e, x) /\ j2.pc = "stamp")
    <3>1. \A d \in EventsWritten :
             /\ SameSet(EventRow(d), x) /\ job'[h].original = d /\ job'[h].pc = "stamp"
             => job[h].original = d /\ job[h].pc = "stamp"
      BY <1>3, <1>9, <2>1
    <3> HIDE DEF o, e
    <3> QED BY <1>5, <1>11, <3>1, SafeStays
  <2>2. CASE o \in EventsWritten /\ SameSet(e, x) /\ j2.pc = "stamp"
    <3>1. o # NoEvent /\ e.set # 0 /\ NextRow(o) = e
      <4>1. o # NoEvent
        <5>1. o \in EventIds
          BY <2>2, Written DEF PipelineInv
        <5> QED BY <5>1, GroupsAssumption DEF EventIds
      <4> QED BY <1>5, <1>11, <2>2, <4>1 DEF SameSet, AfterMove
    <3>2. OneSet(job[h], pushed[h], tables[h], e)
      BY <1>2, <3>1 DEF TakesUp
    <3>3. OneSet(j2, docs2, rows2, e)
      BY <1>1, <1>2, <3>1, <3>2, OneSetMoves
    <3> HIDE DEF e, o
    <3>4. tables[h].events = <<>> /\ rows2.events # <<>>
      BY <1>4, <2>2, <3>2, <3>3 DEF OneSet
    <3>5. 1 \in DOMAIN tables'[h].events /\ 1 \notin DOMAIN tables[h].events
      <4>1. rows2.events \in Seq(LedgerRow)
        BY <1>3, <1>6 DEF Tables
      <4> QED BY <1>3, <3>4, <4>1
    <3> DEFINE id == <<h, 1>>
               d == NextRow(id)
    <3>6. d = tables'[h].events[1]
      BY DEF NextRow
    <3>7. id \in EventsWritten' \ EventsWritten
      <4>1. id \in EventsWritten'
        BY <3>5 DEF EventsWritten
      <4>2. id \notin EventsWritten
        <5> SUFFICES ASSUME id \in EventsWritten PROVE FALSE
          OBVIOUS
        <5>1. id[1] = h /\ id[2] = 1
          OBVIOUS
        <5>2. id[2] \in DOMAIN tables[id[1]].events
          <6> HIDE DEF id
          <6> QED BY Written DEF PipelineInv
        <5> QED BY <3>5, <5>1, <5>2
      <4> QED BY <4>1, <4>2
    <3>8. d \in Elements(tables'[h].events)
      BY <3>5, <3>6 DEF Elements
    <3> HIDE DEF id, d
    <3>9. SameSet(d, x)
      <4>1. SameSet(d, e)
        BY <1>3, <3>3, <3>8 DEF OneSet
      <4> QED BY <2>2, <4>1 DEF SameSet
    <3>10. CASE d.outcome = "rejected"
      BY <1>10, <3>7, <3>9, <3>10 DEF d
    <3>11. CASE d.outcome # "rejected"
      <4>1. /\ EventsPast(job'[h], pushed'[h], tables'[h])
            /\ PushesPast(job'[h], pushed'[h])
        BY DEF PipelineInv, RunsHold, RunInv
      <4>2. d.group # 0
        <5>1. d.set # 0
          BY <1>11, <3>9 DEF SameSet
        <5> QED BY <3>8, <4>1, <5>1 DEF EventsPast
      <4>3. EventStands(job'[h], pushed'[h], tables'[h], d)
        BY <3>8, <4>1, <4>2 DEF EventsPast
      <4>4. d.artifact = job'[h].artifact /\ InDocs(pushed'[h], d.group, d.set)
        BY <3>11, <4>3 DEF EventStands
      <4>5. PICK c \in Elements(pushed'[h]) : c.group = d.group /\ c.set = d.set
        BY <4>4 DEF InDocs
      <4>6. c \in Doc
        BY <1>6, <4>5 DEF Elements
      <4>7. c.artifact = d.artifact
        BY <4>1, <4>4, <4>5 DEF PushesPast
      <4>8. c = [artifact |-> x.artifact, group |-> x.group, set |-> x.set]
        BY <3>9, <4>5, <4>6, <4>7 DEF Doc, SameSet
      <4>9. \E g \in Handlers :
               [artifact |-> x.artifact, group |-> x.group, set |-> x.set]
                  \in Elements(pushed'[g])
        BY <4>5, <4>8
      <4>10. \A g \in Handlers : Elements(pushed[g])' = Elements(pushed'[g])
        BY DEF Elements
      <4> QED BY <4>9, <4>10 DEF Safe
    <3> QED BY <3>10, <3>11
  <2> QED BY <2>1, <2>2
<1> QED BY <1>10, <1>11

(* Closing an item loses no document: a dismissed item is one that an      *)
(* operator has answered for, and a stamped one is not counted on.         *)
LEMMA ClosingKeepsSafe ==
    ASSUME PipelineInv, NEW h \in Handlers, Dismiss(h) \/ StampReprocessed(h)
    PROVE  /\ \A x : Safe(x) => Safe(x)'
           /\ EventsWritten' = EventsWritten
           /\ \A d \in EventsWritten : /\ SameSet(NextRow(d), EventRow(d))
                                       /\ NextRow(d).outcome = EventRow(d).outcome
<1>1. PICK resolution \in {"dismissed", "reprocessed"},
           resolvedTo \in EventIds \cup {NoEvent} :
         /\ Resolve(h, resolution, resolvedTo)
         /\ job[h].pc \in {"dismiss", "stamp"}
         /\ resolution = "reprocessed" => job[h].pc = "stamp"
  BY Closings
<1>2. AfterClosing(h, resolution, resolvedTo)
  BY <1>1, ClosesAfter
<1>3. /\ UNCHANGED pushed /\ job' = [job EXCEPT ![h].pc = "done"]
      /\ EventsWritten' = EventsWritten
  BY <1>2 DEF AfterClosing
<1>4. /\ \A d \in EventsWritten : Kept(NextRow(d), EventRow(d))
      /\ \A d \in EventsWritten : d # job[h].original => NextRow(d) = EventRow(d)
      /\ NextRow(job[h].original).resolution = resolution
  BY <1>2, KeptByClosing
<1>5. \A d \in EventsWritten : EventRow(d) \in LedgerRow
  BY Written DEF PipelineInv
<1>6. \A d \in EventsWritten :
         /\ SameSet(NextRow(d), EventRow(d)) /\ NextRow(d).outcome = EventRow(d).outcome
         /\ NextRow(d).needsReview = EventRow(d).needsReview
  BY <1>4, <1>5, KeptFields
<1>7. \A g \in Handlers : /\ job'[g].original = job[g].original
                          /\ job'[g].pc = job[g].pc \/ job'[g].pc = "done"
  BY <1>3, PipelineTypes DEF PipelineInv, Job
<1> SUFFICES ASSUME NEW x, Safe(x) PROVE Safe(x)'
  BY <1>3, <1>6
<1>8. CASE \E g \in Handlers : [artifact |-> x.artifact, group |-> x.group, set |-> x.set]
                                  \in Elements(pushed[g])
  BY <1>3, <1>6, <1>8 DEF Safe, Elements
<1>9. ASSUME NEW d \in EventsWritten,
             SameSet(EventRow(d), x), EventRow(d).needsReview,
             EventRow(d).resolution \in {"open", "dismissed"},
             \A g \in Handlers : job[g].original = d => job[g].pc # "stamp"
      PROVE  Safe(x)'
  <2>1. \A g \in Handlers : job'[g].original = d => job'[g].pc # "stamp"
    BY <1>7, <1>9
  <2>2. NextRow(d).resolution \in {"open", "dismissed"}
    BY <1>1, <1>4, <1>9
  <2>3. SameSet(NextRow(d), x) /\ NextRow(d).needsReview
    BY <1>6, <1>9 DEF SameSet
  <2> QED BY <1>3, <2>1, <2>2, <2>3 DEF Safe, EventRow, NextRow
<1> QED BY <1>8, <1>9 DEF Safe

(* A move that is no work rejects no document, and ends no re-run of one.  *)
LEMMA RestKeepsSafe ==
    ASSUME SetsNamedApart, PipelineInv, NEW h \in Handlers,
           \/ ShortCircuit(h)
           \/ ProcessAccepted(h)
           \/ \E id \in EventsWritten, pc \in {"dismiss", "reprocess"} : Ask(h, id, pc)
           \/ Reprocess(h)
    PROVE  /\ AfterMove(h)
           /\ \A x : x.set # 0 /\ Safe(x) => Safe(x)'
           /\ \A id \in EventsWritten' \ EventsWritten : NextRow(id).outcome # "rejected"
<1>1. job \in [Handlers -> Job] /\ tables \in [Handlers -> Tables] /\ StandsAt(h)
  BY PipelineTypes DEF PipelineInv, Standing
<1>2. AfterMove(h)
  BY ShortCircuitKeeps, ProcessAcceptedKeeps, AskKeeps, ReprocessKeeps, MovesAfter
<1>7. ASSUME NEW n \in DOMAIN tables'[h].events \ DOMAIN tables[h].events
      PROVE  tables'[h].events[n].outcome # "rejected"
  <2>1. CASE ShortCircuit(h)
    <3> DEFINE e == LedgerEvent(h, carried[h], receipt[h],
                        [group |-> 0, set |-> 0, delivered |-> FALSE, ackNo |-> 0])
    <3>1. InsertRow(h, "events", e) /\ e.outcome \in {"duplicate", "conflict"}
      BY <2>1 DEF ShortCircuit, LedgerEvent
    <3> HIDE DEF e
    <3>2. tables'[h].events = Append(tables[h].events, e) /\ tables[h].events \in Seq(LedgerRow)
      BY <1>1, <3>1, RowInserted DEF Tables
    <3> QED BY <1>7, <3>1, <3>2
  <2>2. ASSUME NEW row, InsertRow(h, "interchanges", row) PROVE FALSE
    <3>1. tables'[h].events = tables[h].events
      BY <1>1, <2>2, RowInserted DEF Tables
    <3> QED BY <1>7, <3>1
  <2> QED BY <1>7, <2>1, <2>2 DEF ProcessAccepted, Reprocess, Process, Ask
<1> SUFFICES \A x : x.set # 0 /\ Safe(x) => Safe(x)'
  BY <1>2, <1>7 DEF AfterMove, NextRow
<1>3. CASE ShortCircuit(h)
  <2>1. job'[h].pc = "done"
    BY <1>1, <1>3 DEF ShortCircuit, Job
  <2>2. job'[h].pc # "stamp"
    BY <2>1
  <2> QED BY <1>2, <2>2, SafeStays
<1>4. CASE ProcessAccepted(h)
  <2>1. job'[h].pc = NextPc(WholeInterchange(carried[h]), NoEvent)
    BY <1>1, <1>4 DEF ProcessAccepted, Process, NoWork
  <2>2. job'[h].pc # "stamp"
    BY <2>1 DEF NextPc
  <2> QED BY <1>2, <2>2, SafeStays
<1>5. CASE \E id \in EventsWritten, pc \in {"dismiss", "reprocess"} : Ask(h, id, pc)
  <2>1. PICK id \in EventsWritten, pc \in {"dismiss", "reprocess"} : Ask(h, id, pc)
    BY <1>5
  <2>2. job'[h].pc = pc
    BY <1>1, <2>1 DEF Ask, Job
  <2>3. job'[h].pc # "stamp"
    BY <2>2
  <2> QED BY <1>2, <2>3, SafeStays
<1>6. CASE Reprocess(h)
  <2> DEFINE o == job[h].original
             e == EventRow(o)
  <2>1. job'[h].pc = NextPc(ReprocessWork(e), o) /\ job'[h].original = o
    BY <1>1, <1>6 DEF Reprocess, Process, NoWork
  <2>2. /\ e \in LedgerRow
        /\ e.group = 0 <=> e.set = 0
        /\ e.group # 0 => IsSet(e.artifact, e.group, e.set)
    <3>1. o # NoEvent
      BY <1>1, <1>6 DEF Reprocess, At, StandsAt
    <3> QED BY <3>1, AskedEvent
  <2>3. e.set # 0 => job'[h].pc = "translate"
    <3> SUFFICES ASSUME e.set # 0 PROVE job'[h].pc = "translate"
      OBVIOUS
    <3>1. ReprocessWork(e) = <<[group |-> e.group, sets |-> <<e.set>>]>>
      BY <2>2, ReprocessWorkIs
    <3>2. ReprocessWork(e) # <<>>
      BY <3>1
    <3> QED BY <2>1, <3>2 DEF NextPc
  <2>4. ASSUME NEW x, x.set # 0, Safe(x)
        PROVE  Safe(x)'
    <3>1. \A d \in EventsWritten :
             /\ SameSet(EventRow(d), x) /\ job'[h].original = d /\ job'[h].pc = "stamp"
             => job[h].original = d /\ job[h].pc = "stamp"
      <4>1. SameSet(e, x) => e.set # 0
        BY <2>4 DEF SameSet
      <4> QED BY <2>1, <2>3, <4>1
    <3> QED BY <1>2, <2>4, <3>1, SafeStays
  <2> QED BY <2>4
<1> QED BY <1>3, <1>4, <1>5, <1>6

LEMMA RejectedStep ==
    ASSUME SetsNamedApart
    PROVE  /\ PipelineInv /\ PipelineInv' /\ ReviewInv /\ ReviewInv'
           /\ RejectedAreSafe /\ [ResolverNext]_vars
           => RejectedAreSafe'
<1> SUFFICES ASSUME PipelineInv, PipelineInv', ReviewInv, ReviewInv', RejectedAreSafe,
                    [ResolverNext]_vars
             PROVE  RejectedAreSafe'
  OBVIOUS
<1>1. SUFFICES ASSUME NEW id \in EventsWritten', NextRow(id).outcome = "rejected",
                      NEW x, x = NextRow(id)
               PROVE  Safe(x)'
  <2>1. ASSUME NEW id \in EventsWritten', NextRow(id).outcome = "rejected"
        PROVE  Safe(EventRow(id))'
    <3>1. PICK x : x = NextRow(id)
      OBVIOUS
    <3>2. Safe(x)'
      BY <1>1, <2>1, <3>1
    <3> QED BY <3>1, <3>2 DEF Safe, EventRow, NextRow
  <2> QED BY <2>1 DEF RejectedAreSafe, EventRow, NextRow
<1>2. ASSUME id \in EventsWritten
      PROVE  LET e == EventRow(id)
             IN  e.outcome = "rejected" => e.set # 0 /\ Safe(e)
  BY <1>2, RejectedIsSet DEF RejectedAreSafe
(* Safety of one row is safety of another of the same set.                 *)
<1>3. \A y, z : SameSet(y, z) /\ Safe(y) => Safe(z) /\ (y.set # 0 => z.set # 0)
  BY DEF Safe, SameSet
<1>4. CASE UNCHANGED <<job, pushed, tables>>
  <2>1. EventsWritten' = EventsWritten
    BY <1>4 DEF EventsWritten
  <2>2. x = EventRow(id)
    BY <1>1, <1>4 DEF EventRow, NextRow
  <2>3. Safe(x)
    BY <1>1, <1>2, <2>1, <2>2
  <2>4. \A d : NextRow(d) = EventRow(d)
    BY <1>4 DEF EventRow, NextRow
  <2>5. CASE \E d \in EventsWritten :
                /\ SameSet(EventRow(d), x)
                /\ EventRow(d).needsReview
                /\ EventRow(d).resolution \in {"open", "dismissed"}
                /\ \A h \in Handlers : job[h].original = d => job[h].pc # "stamp"
    <3>1. PICK d \in EventsWritten :
                /\ SameSet(NextRow(d), x)
                /\ NextRow(d).needsReview
                /\ NextRow(d).resolution \in {"open", "dismissed"}
                /\ \A h \in Handlers : job'[h].original = d => job'[h].pc # "stamp"
      BY <1>4, <2>4, <2>5
    <3> QED BY <2>1, <3>1 DEF Safe, EventRow, NextRow
  <2>6. CASE \E h \in Handlers : [artifact |-> x.artifact, group |-> x.group, set |-> x.set]
                                    \in Elements(pushed[h])
    BY <1>4, <2>6 DEF Safe
  <2> QED BY <2>3, <2>5, <2>6 DEF Safe
<1>5. CASE ResolverNext /\ ~UNCHANGED <<job, pushed, tables>>
  <2>1. PICK h \in Handlers : StepOf(h)
    BY <1>5, ResolverSteps
  <2>2. ~GateStep(h)
    BY <1>5 DEF GateStep, pipelineVars
  <2>3. CASE Works(h)
    <3>1. AfterMove(h)
      BY <2>3, WorksKeeps, MovesAfter
    <3>2. CASE id \in EventsWritten
      <4>1. x = EventRow(id)
        BY <1>1, <3>1, <3>2 DEF AfterMove
      <4> QED BY <1>1, <1>2, <2>3, <3>2, <4>1, WorksKeepsSafe
    <3>3. CASE id \notin EventsWritten
      <4>1. SameSet(NextRow(id), x)
        BY <1>1 DEF SameSet
      <4> QED BY <1>1, <2>3, <3>3, <4>1, WorksKeepsSafe
    <3> QED BY <3>2, <3>3
  <2>4. CASE Dismiss(h) \/ StampReprocessed(h)
    <3>1. /\ \A y : Safe(y) => Safe(y)'
          /\ EventsWritten' = EventsWritten
          /\ SameSet(NextRow(id), EventRow(id)) /\ NextRow(id).outcome = EventRow(id).outcome
      BY <2>4, ClosingKeepsSafe
    <3>2. Safe(EventRow(id))
      BY <1>1, <1>2, <3>1
    <3>3. Safe(x)
      BY <1>1, <1>3, <3>1, <3>2 DEF SameSet
    <3> QED BY <3>1, <3>3
  <2>5. CASE \/ ShortCircuit(h)
             \/ ProcessAccepted(h)
             \/ \E d \in EventsWritten, pc \in {"dismiss", "reprocess"} : Ask(h, d, pc)
             \/ Reprocess(h)
    <3>1. /\ AfterMove(h)
          /\ \A y : y.set # 0 /\ Safe(y) => Safe(y)'
          /\ \A d \in EventsWritten' \ EventsWritten : NextRow(d).outcome # "rejected"
      BY <2>5, RestKeepsSafe
    <3>2. id \in EventsWritten
      BY <1>1, <3>1
    <3>3. x = EventRow(id)
      BY <1>1, <3>1, <3>2 DEF AfterMove
    <3> QED BY <1>1, <1>2, <3>1, <3>2, <3>3
  <2> QED BY <2>1, <2>2, <2>3, <2>4, <2>5 DEF StepOf
<1> QED BY <1>4, <1>5 DEF vars, pipelineVars

(* A rejected document is in review or with the customer, whatever stops   *)
(* and however the operators race for it.                                  *)
THEOREM RejectedStayInReview ==
    ASSUME SetsNamedApart
    PROVE  ResolverSpec => []RejectedNeverLost
<1>1. PipelineInit => RejectedAreSafe
  BY NothingWrittenYet DEF RejectedAreSafe
<1>2. /\ PipelineInv /\ PipelineInv' /\ ReviewInv /\ ReviewInv'
      /\ RejectedAreSafe /\ [ResolverNext]_vars
      => RejectedAreSafe'
  BY RejectedStep
<1>3. RejectedAreSafe => RejectedNeverLost
  BY DEF RejectedAreSafe, Safe, RejectedNeverLost
<1> QED BY <1>1, <1>2, <1>3, RunsAreWhole, ReviewHolds, PTL DEF ResolverSpec

-------------------------------------------------------------------------------
(***************************************************************************)
(* Who bears a document, step by step.                                     *)
(***************************************************************************)
(* What every step leaves of the ledger, and of who took up what.          *)
LedgerStays ==
    /\ \A id \in EventsWritten : /\ id \in EventsWritten'
                                 /\ SameSet(NextRow(id), EventRow(id))
                                 /\ NextRow(id).outcome = EventRow(id).outcome
    /\ \A g \in Handlers : ~Fresh(g) => job'[g].original = job[g].original

LEMMA PassedOnStays ==
    ASSUME PipelineInv, LedgerStays, NEW x, NEW g
    PROVE  PassedOn(g, x) => PassedOn(g, x)'
<1> SUFFICES ASSUME NEW c \in Handlers, ~Fresh(c), job[c].original[1] = g,
                    SameSet(EventRow(job[c].original), x)
             PROVE  PassedOn(g, x)'
  BY DEF PassedOn
<1>1. job[c].original \in EventsWritten /\ job[c].original # NoEvent
  BY DEF PipelineInv, Standing, StandsAt, Fresh
<1>2. job'[c].original = job[c].original
  BY DEF LedgerStays
<1>3. SameSet(NextRow(job[c].original), x)
  BY <1>1 DEF LedgerStays, SameSet
<1>4. SameSet(NextRow(job'[c].original), x)
  BY <1>2, <1>3
<1>5. ~Fresh(c)'
  BY <1>1, <1>2 DEF Fresh
<1>6. job'[c].original[1] = g
  BY <1>2
<1> QED BY <1>4, <1>5, <1>6 DEF PassedOn, EventRow, NextRow

LEMMA HasBefore ==
    ASSUME PipelineInv, LedgerStays, NEW x, NEW g \in Handlers,
           job'[g].original = job[g].original,
           Fresh(g) => job'[g].artifact = job[g].artifact
    PROVE  Has(g, x)' => Has(g, x)
<1>1. CASE Fresh(g)
  BY <1>1 DEF Fresh, Has
<1>2. CASE ~Fresh(g)
  <2>1. job[g].original \in EventsWritten
    BY <1>2 DEF PipelineInv, Standing, StandsAt, Fresh
  <2>2. SameSet(NextRow(job[g].original), EventRow(job[g].original))
    BY <2>1 DEF LedgerStays
  <2>3. Has(g, x)' => SameSet(NextRow(job[g].original), x)
    <3>1. Has(g, x)' => SameSet(NextRow(job'[g].original), x)
      BY <1>2 DEF Fresh, Has, EventRow, NextRow
    <3> QED BY <3>1
  <2> QED BY <1>2, <2>2, <2>3 DEF Has, SameSet
<1> QED BY <1>1, <1>2

LEMMA ConflictStays ==
    ASSUME LedgerStays, NEW p
    PROVE  InConflict(p) => InConflict(p)'
<1> SUFFICES ASSUME NEW id \in EventsWritten, EventRow(id).outcome = "conflict",
                    EventRow(id).artifact = p
             PROVE  InConflict(p)'
  BY DEF InConflict
<1>1. id \in EventsWritten' /\ NextRow(id).outcome = "conflict" /\ NextRow(id).artifact = p
  BY DEF LedgerStays, SameSet
<1> QED BY <1>1 DEF InConflict, EventRow, NextRow

LEMMA OneOperatorBefore ==
    ASSUME LedgerStays, OneOperatorPerItem'
    PROVE  OneOperatorPerItem
BY DEF LedgerStays, OneOperatorPerItem, Fresh

(* An item in review is of a document that its run has, or of a conflict.  *)
LEMMA ItemIsOfRun ==
    ASSUME PipelineInv, ReviewInv, NEW id \in EventsWritten, EventRow(id).needsReview
    PROVE  LET e == EventRow(id)
               g == id[1]
           IN  \/ e.outcome = "conflict" /\ InConflict(e.artifact)
               \/ /\ e.outcome = "rejected" /\ e.group # 0 /\ e.set # 0
                  /\ g \in Handlers /\ e.artifact \in Payloads /\ e.artifact = job[g].artifact
                  /\ EventStands(job[g], pushed[g], tables[g], e)
<1> DEFINE e == EventRow(id)
           g == id[1]
<1>1. e.outcome \in {"rejected", "conflict"}
  BY DEF ReviewInv, ItemStands
<1>2. e.outcome = "conflict" => InConflict(e.artifact)
  BY DEF InConflict
<1>3. g \in Handlers /\ e \in LedgerRow /\ e \in Elements(tables[g].events)
  BY Written DEF PipelineInv
<1>4. EventsPast(job[g], pushed[g], tables[g])
  BY <1>3 DEF PipelineInv, RunsHold, RunInv
<1>5. e.artifact \in Payloads
  BY <1>3 DEF LedgerRow
<1> HIDE DEF e, g
<1>6. e.outcome = "rejected" => /\ e.group # 0 /\ e.set # 0
                                /\ EventStands(job[g], pushed[g], tables[g], e)
  BY <1>3, <1>4 DEF EventsPast
<1> QED BY <1>1, <1>2, <1>3, <1>5, <1>6 DEF EventStands, e, g

(* A re-run of a document that is in no conflict is one set's whole run.   *)
LEMMA RerunIsOneSet ==
    ASSUME PipelineInv, ReviewInv, NEW g \in Handlers, ~Fresh(g),
           job[g].artifact # NoPayload, ~InConflict(job[g].artifact)
    PROVE  LET e == EventRow(job[g].original)
           IN  /\ e.artifact = job[g].artifact
               /\ OneSet(job[g], pushed[g], tables[g], e)
<1> DEFINE id == job[g].original
           e == EventRow(id)
<1>1. TakesUp(g) /\ id # NoEvent /\ id \in EventsWritten
  BY DEF ReviewInv, Fresh, PipelineInv, Standing, StandsAt
<1>2. e.artifact = job[g].artifact /\ e.needsReview
  BY <1>1 DEF TakesUp
<1>3. e.set # 0
  BY <1>1, <1>2, ItemIsOfRun
<1> QED BY <1>1, <1>2, <1>3 DEF TakesUp

LEMMA QuietKeepsBearer ==
    ASSUME PipelineInv, OneOperatorPerItem => OneBearer, LedgerStays,
           \A g \in Handlers : /\ job'[g].original = job[g].original
                               /\ Fresh(g) => job'[g].artifact = job[g].artifact
    PROVE  (OneOperatorPerItem => OneBearer)'
<1> SUFFICES ASSUME OneOperatorPerItem', NEW x \in Doc, ~InConflict(x.artifact)',
                    NEW g \in Handlers, NEW h \in Handlers, Bears(g, x)', Bears(h, x)'
             PROVE  g = h
  BY DEF OneBearer, Doc
<1>1. OneBearer /\ ~InConflict(x.artifact)
  BY OneOperatorBefore, ConflictStays
<1>2. Bears(g, x) /\ Bears(h, x)
  BY HasBefore, PassedOnStays DEF Bears
<1> QED BY <1>1, <1>2 DEF OneBearer

(* Whoever runs interchange p again did so of one received.                *)
Root(p) == InConflict(p) \/ \E r \in Handlers : Fresh(r) /\ job[r].artifact = p

LEMMA RootStays ==
    ASSUME LedgerStays, NEW p \in Payloads, Root(p),
           \A r \in Handlers : Fresh(r) /\ job[r].artifact # NoPayload =>
               Fresh(r)' /\ job'[r].artifact = job[r].artifact
    PROVE  Root(p)'
<1>1. CASE InConflict(p)
  BY <1>1, ConflictStays DEF Root
<1>2. CASE \E r \in Handlers : Fresh(r) /\ job[r].artifact = p
  <2>1. PICK r \in Handlers : Fresh(r) /\ job[r].artifact = p
    BY <1>2
  <2>2. Fresh(r)' /\ job'[r].artifact = p
    BY <2>1, PayloadsAssumption
  <2> QED BY <2>2 DEF Root
<1> QED BY <1>1, <1>2 DEF Root

(* What an operator takes up was received: by the run it is an item of, or *)
(* by the one that run goes back to.                                       *)
LEMMA ItemHasRoot ==
    ASSUME PipelineInv, ReviewInv, Rooted, NEW id \in EventsWritten, EventRow(id).needsReview
    PROVE  Root(EventRow(id).artifact) /\ EventRow(id).artifact \in Payloads
<1> DEFINE e == EventRow(id)
           g == id[1]
<1>1. e.artifact \in Payloads
  BY Written DEF PipelineInv, LedgerRow
<1>2. CASE InConflict(e.artifact)
  BY <1>1, <1>2 DEF Root
<1>3. CASE ~InConflict(e.artifact)
  <2>1. g \in Handlers /\ e.artifact = job[g].artifact
    BY <1>3, ItemIsOfRun
  <2>2. CASE Fresh(g)
    BY <1>1, <2>1, <2>2 DEF Root
  <2>3. CASE ~Fresh(g)
    <3>1. EventRow(job[g].original).artifact = e.artifact
      BY <1>1, <1>3, <2>1, <2>3, RerunIsOneSet, PayloadsAssumption
    <3> QED BY <1>1, <2>1, <2>3, <3>1 DEF Rooted, Root
  <2> QED BY <2>2, <2>3
<1> QED BY <1>2, <1>3

LEMMA RootedKept ==
    ASSUME PipelineInv, ReviewInv, Rooted, LedgerStays,
           \A g \in Handlers : Fresh(g) => \/ job'[g].original = NoEvent
                                           \/ /\ job'[g].original \in EventsWritten
                                              /\ EventRow(job'[g].original).needsReview,
           \A r \in Handlers : Fresh(r) /\ job[r].artifact # NoPayload =>
               Fresh(r)' /\ job'[r].artifact = job[r].artifact
    PROVE  Rooted'
<1> SUFFICES ASSUME NEW g \in Handlers, job'[g].original # NoEvent,
                    NEW q, q = NextRow(job'[g].original).artifact
             PROVE  Root(q)'
  <2>1. SUFFICES ASSUME NEW g \in Handlers, job'[g].original # NoEvent
                 PROVE  LET q == NextRow(job'[g].original).artifact
                        IN  \/ \E id \in EventsWritten' : /\ NextRow(id).outcome = "conflict"
                                                         /\ NextRow(id).artifact = q
                            \/ \E r \in Handlers : Fresh(r)' /\ job'[r].artifact = q
    BY DEF Rooted, InConflict, Fresh, EventRow, NextRow
  <2>2. PICK q : q = NextRow(job'[g].original).artifact
    OBVIOUS
  <2>3. Root(q)'
    BY <2>1, <2>2
  <2> QED BY <2>2, <2>3 DEF Root, InConflict, EventRow, NextRow
<1> DEFINE id == job'[g].original
<1>1. id \in EventsWritten /\ EventRow(id).needsReview
  <2>1. CASE Fresh(g)
    BY <2>1
  <2>2. CASE ~Fresh(g)
    <3>1. job[g].original = id /\ TakesUp(g) /\ job[g].original \in EventsWritten
      BY <2>2 DEF LedgerStays, ReviewInv, PipelineInv, Standing, StandsAt, Fresh
    <3> QED BY <2>2, <3>1 DEF TakesUp, Fresh
  <2> QED BY <2>1, <2>2
<1>2. PICK i \in EventsWritten : i = id
  BY <1>1
<1>3. Root(EventRow(i).artifact) /\ EventRow(i).artifact \in Payloads
  BY <1>1, <1>2, ItemHasRoot
<1>4. PICK p \in Payloads : p = EventRow(i).artifact
  BY <1>3
<1>5. Root(p)'
  BY <1>3, <1>4, RootStays
<1>6. q = p
  BY <1>2, <1>4 DEF LedgerStays, SameSet
<1> QED BY <1>5, <1>6

(* The run that an item is of bore the item's document until an operator   *)
(* took it up, and no other operator took up another item of it there.     *)
LEMMA ItemIsBorne ==
    ASSUME PipelineInv, OrderHolds, ReviewInv, NEW id \in EventsWritten, EventRow(id).needsReview,
           \A c \in Handlers : job[c].original # id,
           NEW x \in Doc, SameSet(EventRow(id), x), ~InConflict(x.artifact)
    PROVE  Bears(id[1], x) /\ id[1] \in Handlers
<1> DEFINE e == EventRow(id)
           g == id[1]
<1>1. /\ g \in Handlers /\ e.artifact \in Payloads /\ e.artifact = job[g].artifact
      /\ x.artifact = e.artifact
      /\ EventStands(job[g], pushed[g], tables[g], e)
  BY ItemIsOfRun DEF SameSet
<1>2. e \in Elements(tables[g].events) /\ id[2] \in DOMAIN tables[g].events /\ id = <<g, id[2]>>
      /\ e = tables[g].events[id[2]]
  BY Written DEF PipelineInv, EventRow
<1>3. job[g].artifact # NoPayload
  BY <1>1, PayloadsAssumption
<1>4. ASSUME ~Fresh(g)
      PROVE  LET o == EventRow(job[g].original)
             IN  SameSet(e, o) /\ Len(tables[g].events) <= 1
  BY <1>1, <1>2, <1>3, <1>4, RerunIsOneSet DEF OneSet
<1>5. Has(g, x)
  BY <1>1, <1>4 DEF Has, SameSet
<1>6. ASSUME NEW c \in Handlers, ~Fresh(c), job[c].original[1] = g,
             SameSet(EventRow(job[c].original), x)
      PROVE  FALSE
  <2> DEFINE o == job[c].original
  <2>1. o \in EventsWritten
    BY <1>6 DEF PipelineInv, Standing, StandsAt, Fresh
  <2>2. o = <<g, o[2]>> /\ o[2] \in DOMAIN tables[g].events /\ EventRow(o) = tables[g].events[o[2]]
    BY <1>6, <2>1, Written DEF PipelineInv, EventRow
  <2>3. SameSet(tables[g].events[o[2]], tables[g].events[id[2]])
    BY <1>2, <1>6, <2>2 DEF SameSet
  <2> HIDE DEF o
  <2>4. DOMAIN tables[g].events = 1..Len(tables[g].events) /\ Len(tables[g].events) \in Nat
    BY <1>1, PipelineTypes DEF PipelineInv
  <2>5. o[2] = id[2]
    <3>1. CASE Fresh(g)
      <4>1. EventsInOrder(job[g], tables[g].events)
        BY <1>1, <1>3, <3>1 DEF OrderHolds, OrderInv, Whole, Fresh
      <4> QED BY <1>2, <2>2, <2>3, <2>4, <4>1 DEF EventsInOrder, SameSet
    <3>2. CASE ~Fresh(g)
      <4>1. Len(tables[g].events) <= 1
        BY <1>4, <3>2
      <4> QED BY <1>2, <2>2, <2>4, <4>1
    <3> QED BY <3>1, <3>2
  <2> QED BY <1>2, <2>2, <2>5 DEF o
<1> QED BY <1>1, <1>5, <1>6 DEF Bears, PassedOn

LEMMA AskKeepsBearer ==
    ASSUME PipelineInv, OrderHolds, ReviewInv, OneOperatorPerItem => OneBearer, LedgerStays,
           NEW h \in Handlers, NEW id \in EventsWritten, NEW pc \in {"dismiss", "reprocess"},
           Ask(h, id, pc)
    PROVE  (OneOperatorPerItem => OneBearer)'
<1>1. /\ EventRow(id).needsReview /\ job[h] = NoWork /\ tables' = tables
      /\ job' = [job EXCEPT ![h].pc = pc, ![h].original = id]
      /\ job \in [Handlers -> Job]
  BY PipelineTypes DEF Ask, OpenItems, PipelineInv, Standing, StandsAt
<1>2. /\ job'[h].original = id /\ job'[h].artifact = NoPayload /\ Fresh(h)
      /\ \A g \in Handlers \ {h} : job'[g] = job[g]
  BY <1>1, NoWorkType DEF Job, Fresh
<1>3. id # NoEvent /\ NextRow(id) = EventRow(id)
  BY <1>1, Written, GroupsAssumption DEF PipelineInv, EventIds, NextRow, EventRow
<1> SUFFICES ASSUME OneOperatorPerItem', NEW x \in Doc, ~InConflict(x.artifact)'
             PROVE  \A g, k \in Handlers : Bears(g, x)' /\ Bears(k, x)' => g = k
  BY DEF OneBearer, Doc
<1>4. OneBearer /\ ~InConflict(x.artifact)
  BY OneOperatorBefore, ConflictStays
<1>5. \A g \in Handlers \ {h} : Bears(g, x)' => Bears(g, x)
  BY <1>2, HasBefore, PassedOnStays DEF Bears
<1>6. Has(h, x)' <=> SameSet(EventRow(id), x)
  <2>1. Has(h, x)' <=> SameSet(NextRow(id), x)
    BY <1>2, <1>3 DEF Has, Fresh, EventRow, NextRow
  <2> QED BY <1>3, <2>1
<1>7. CASE ~SameSet(EventRow(id), x)
  BY <1>4, <1>5, <1>6, <1>7 DEF OneBearer, Bears
<1>8. CASE SameSet(EventRow(id), x)
  <2>1. \A c \in Handlers : job[c].original # id
    <3> SUFFICES ASSUME NEW c \in Handlers, job[c].original = id PROVE FALSE
      OBVIOUS
    <3>1. c # h /\ job'[c].original = id
      BY <1>2, <1>3 DEF Fresh
    <3> QED BY <1>2, <1>3, <3>1 DEF OneOperatorPerItem
  <2>2. Bears(id[1], x) /\ id[1] \in Handlers
    BY <1>1, <1>4, <1>8, <2>1, ItemIsBorne
  <2>3. PassedOn(id[1], x)'
    <3>1. SameSet(NextRow(job'[h].original), x) /\ job'[h].original # NoEvent
          /\ job'[h].original[1] = id[1]
      BY <1>2, <1>3, <1>8
    <3> QED BY <3>1 DEF PassedOn, Fresh, EventRow, NextRow
  <2>4. \A g \in Handlers \ {h} : ~Bears(g, x)'
    <3> SUFFICES ASSUME NEW g \in Handlers \ {h}, Bears(g, x)' PROVE FALSE
      OBVIOUS
    <3>1. g = id[1]
      BY <1>4, <1>5, <2>2 DEF OneBearer
    <3> QED BY <2>3, <3>1 DEF Bears
  <2> QED BY <2>4
<1> QED BY <1>7, <1>8

LEMMA ProcessKeepsBearer ==
    ASSUME PipelineInv, Rooted, AtMostOneAccepted, OneOperatorPerItem => OneBearer, LedgerStays,
           NEW h \in Handlers, ProcessAccepted(h)
    PROVE  (OneOperatorPerItem => OneBearer)'
<1> DEFINE p == carried[h]
<1>1. /\ receipt[h] = "accepted" /\ job[h] = NoWork /\ p \in Payloads
      /\ job' = [job EXCEPT ![h] = StartedJob(p, NoEvent, WholeInterchange(p))]
  BY AtTheGate DEF ProcessAccepted, Process, StartedJob
<1>2. /\ job'[h].original = NoEvent /\ job'[h].artifact = p
      /\ job[h].artifact = NoPayload /\ job[h].original = NoEvent
      /\ \A g \in Handlers \ {h} : job'[g] = job[g]
  BY <1>1, NoWorkType, PipelineTypes DEF StartedJob, NoWork, PipelineInv
<1> SUFFICES ASSUME OneOperatorPerItem', NEW x \in Doc, ~InConflict(x.artifact)',
                    NEW g \in Handlers, NEW k \in Handlers, Bears(g, x)', Bears(k, x)'
             PROVE  g = k
  BY DEF OneBearer, Doc
<1>3. OneBearer /\ ~InConflict(x.artifact)
  BY OneOperatorBefore, ConflictStays
<1>4. \A f \in Handlers \ {h} : Bears(f, x)' => Bears(f, x)
  BY <1>2, HasBefore, PassedOnStays DEF Bears
<1>5. CASE x.artifact # p
  <2>1. ~Has(h, x)'
    BY <1>2, <1>5 DEF Has, Fresh
  <2> QED BY <1>3, <1>4, <2>1 DEF OneBearer, Bears
<1>6. CASE x.artifact = p
  <2>1. \A f \in Handlers : Fresh(f) => job[f].artifact # p
    <3> SUFFICES ASSUME NEW f \in Handlers, Fresh(f), job[f].artifact = p PROVE FALSE
      OBVIOUS
    <3>1. p # NoPayload
      BY <1>1, PayloadsAssumption
    <3>2. job[f].pc # "idle" /\ StandsAt(f)
      BY <3>1, NoWorkType DEF PipelineInv, Standing, StandsAt
    <3>3. receipt[f] = "accepted" /\ carried[f] = p
      BY <3>1, <3>2 DEF StandsAt, Fresh
    <3>4. f = h
      BY <1>1, <3>3 DEF AtMostOneAccepted
    <3> QED BY <1>2, <3>1, <3>4
  <2>2. ASSUME NEW f \in Handlers, Has(f, x)
        PROVE  FALSE
    <3>1. CASE Fresh(f)
      BY <1>6, <2>1, <2>2, <3>1 DEF Has
    <3>2. CASE ~Fresh(f)
      <4>1. EventRow(job[f].original).artifact = x.artifact
        BY <2>2, <3>2 DEF Has, SameSet
      <4> QED BY <1>3, <1>6, <2>1, <3>2, <4>1 DEF Rooted
    <3> QED BY <3>1, <3>2
  <2>3. g = h /\ k = h
    BY <1>4, <2>2 DEF Bears
  <2> QED BY <2>3
<1> QED BY <1>5, <1>6

LEMMA StepKeepsLedger ==
    ASSUME PipelineInv, NEW h \in Handlers, StepOf(h)
    PROVE  /\ LedgerStays
           /\ ~(\E id \in EventsWritten, pc \in {"dismiss", "reprocess"} : Ask(h, id, pc)) =>
                 \A g \in Handlers : job'[g].original = job[g].original
           /\ ~ProcessAccepted(h) => \A g \in Handlers : Fresh(g) => job'[g].artifact = job[g].artifact
<1>1. /\ job \in [Handlers -> Job] /\ job[h] \in Job
      /\ job[h].pc = "idle" => job[h] = NoWork
  BY PipelineTypes DEF PipelineInv, Standing, StandsAt
<1> DEFINE Quiet == \A g \in Handlers : /\ job'[g].original = job[g].original
                                        /\ Fresh(g) => job'[g].artifact = job[g].artifact
           Rows == \A id \in EventsWritten : /\ id \in EventsWritten'
                                             /\ SameSet(NextRow(id), EventRow(id))
                                             /\ NextRow(id).outcome = EventRow(id).outcome
<1>2. ASSUME AfterMove(h) PROVE Rows
  BY <1>2 DEF AfterMove, SameSet
<1>3. Quiet /\ Rows => LedgerStays
  BY DEF LedgerStays
<1>4. CASE GateStep(h)
  <2>1. job' = job /\ tables' = tables
    BY <1>4 DEF GateStep, pipelineVars
  <2>2. Rows
    BY <2>1 DEF EventsWritten, EventRow, NextRow, SameSet
  <2> QED BY <1>3, <2>1, <2>2
<1>5. CASE Works(h)
  <2>1. AfterMove(h)
    BY <1>5, WorksKeeps, MovesAfter
  <2>2. PICK j2, docs2, rows2 :
           /\ Moved(h, j2, docs2, rows2)
           /\ WorkMove(job[h], pushed[h], tables[h], j2, docs2, rows2)
    BY <1>5 DEF Works
  <2>3. j2.artifact = job[h].artifact /\ j2.original = job[h].original
    BY <1>1, <2>2, PipelineTypes, WorkMoves DEF PipelineInv, RunsHold
  <2>4. Quiet
    BY <1>1, <2>2, <2>3 DEF Moved
  <2> QED BY <1>2, <1>3, <2>1, <2>4
<1>6. CASE ShortCircuit(h)
  <2>1. AfterMove(h)
    BY <1>6, ShortCircuitKeeps, MovesAfter
  <2>2. Quiet
    BY <1>1, <1>6 DEF ShortCircuit, Job
  <2> QED BY <1>2, <1>3, <2>1, <2>2
<1>7. CASE ProcessAccepted(h)
  <2>1. AfterMove(h)
    BY <1>7, ProcessAcceptedKeeps, MovesAfter
  <2>2. /\ job'[h].original = NoEvent /\ job[h].original = NoEvent
        /\ \A g \in Handlers \ {h} : job'[g] = job[g]
    BY <1>1, <1>7, NoWorkType DEF ProcessAccepted, Process, At, NoWork
  <2>3. \A g \in Handlers : job'[g].original = job[g].original
    BY <2>2
  <2> QED BY <1>2, <1>7, <2>1, <2>3 DEF LedgerStays
<1>8. CASE \E id \in EventsWritten, pc \in {"dismiss", "reprocess"} : Ask(h, id, pc)
  <2>1. PICK id \in EventsWritten, pc \in {"dismiss", "reprocess"} : Ask(h, id, pc)
    BY <1>8
  <2>2. AfterMove(h)
    BY <2>1, AskKeeps, MovesAfter
  <2>3. /\ job[h].original = NoEvent /\ job'[h].artifact = job[h].artifact
        /\ \A g \in Handlers \ {h} : job'[g] = job[g]
    BY <1>1, <2>1, NoWorkType DEF Ask, Job
  <2>4. LedgerStays
    BY <1>2, <2>2, <2>3 DEF LedgerStays, Fresh
  <2>5. \A g \in Handlers : Fresh(g) => job'[g].artifact = job[g].artifact
    BY <2>3
  <2> QED BY <1>8, <2>4, <2>5
<1>9. CASE Reprocess(h)
  <2>1. AfterMove(h)
    BY <1>9, ReprocessKeeps, MovesAfter
  <2>2. /\ job'[h].original = job[h].original /\ job[h].original # NoEvent
        /\ \A g \in Handlers \ {h} : job'[g] = job[g]
    BY <1>1, <1>9 DEF Reprocess, Process, At, NoWork, PipelineInv, Standing, StandsAt
  <2>3. Quiet
    BY <2>2 DEF Fresh
  <2> QED BY <1>2, <1>3, <2>1, <2>3
<1>10. CASE Dismiss(h) \/ StampReprocessed(h)
  <2>1. Rows
    BY <1>10, ClosingKeepsSafe
  <2>2. job' = [job EXCEPT ![h].pc = "done"]
    BY <1>10 DEF Dismiss, StampReprocessed, Resolve
  <2>3. Quiet
    BY <1>1, <2>2 DEF Job
  <2> QED BY <1>3, <2>1, <2>3
<1> QED BY <1>4, <1>5, <1>6, <1>7, <1>8, <1>9, <1>10 DEF StepOf

LEMMA BearerStep ==
    /\ PipelineInv /\ OrderHolds /\ ReviewInv /\ AtMostOneAccepted
    /\ Rooted /\ (OneOperatorPerItem => OneBearer)
    /\ [ResolverNext]_vars
    => Rooted' /\ (OneOperatorPerItem => OneBearer)'
<1> SUFFICES ASSUME PipelineInv, OrderHolds, ReviewInv, AtMostOneAccepted,
                    Rooted, OneOperatorPerItem => OneBearer, [ResolverNext]_vars
             PROVE  Rooted' /\ (OneOperatorPerItem => OneBearer)'
  OBVIOUS
<1>1. CASE UNCHANGED vars
  <2>1. job' = job /\ tables' = tables
    BY <1>1 DEF vars, pipelineVars
  <2>2. LedgerStays
    BY <2>1 DEF LedgerStays, EventsWritten, EventRow, NextRow, SameSet
  <2>3. (OneOperatorPerItem => OneBearer)'
    BY <2>1, <2>2, QuietKeepsBearer
  <2>4. Rooted'
    BY <2>1, <2>2, RootedKept DEF Fresh
  <2> QED BY <2>3, <2>4
<1>2. CASE ResolverNext
  <2>1. PICK h \in Handlers : StepOf(h)
    BY <1>2, ResolverSteps
  <2> DEFINE Asks == \E id \in EventsWritten, pc \in {"dismiss", "reprocess"} : Ask(h, id, pc)
  <2>2. /\ LedgerStays
        /\ ~Asks => \A g \in Handlers : job'[g].original = job[g].original
        /\ ~ProcessAccepted(h) => \A g \in Handlers : Fresh(g) => job'[g].artifact = job[g].artifact
    BY <2>1, StepKeepsLedger
  <2>3. CASE Asks
    <3>1. PICK id \in EventsWritten, pc \in {"dismiss", "reprocess"} : Ask(h, id, pc)
      BY <2>3
    <3>2. (OneOperatorPerItem => OneBearer)'
      BY <2>2, <3>1, AskKeepsBearer
    <3>3. /\ EventRow(id).needsReview /\ job[h].artifact = NoPayload
          /\ job'[h].original = id /\ \A g \in Handlers \ {h} : job'[g] = job[g]
      BY <3>1, NoWorkType, PipelineTypes
      DEF Ask, OpenItems, PipelineInv, Standing, StandsAt, Job
    <3>4. Rooted'
      BY <2>2, <3>3, RootedKept DEF Fresh
    <3> QED BY <3>2, <3>4
  <2>4. CASE ProcessAccepted(h) /\ ~Asks
    <3>1. (OneOperatorPerItem => OneBearer)'
      BY <2>2, <2>4, ProcessKeepsBearer
    <3>2. job[h].artifact = NoPayload /\ \A g \in Handlers \ {h} : job'[g] = job[g]
      BY <2>4, NoWorkType, PipelineTypes
      DEF ProcessAccepted, Process, At, PipelineInv, Standing, StandsAt
    <3>3. Rooted'
      BY <2>2, <2>4, <3>2, RootedKept DEF Fresh
    <3> QED BY <3>1, <3>3
  <2>5. CASE ~ProcessAccepted(h) /\ ~Asks
    <3>1. (OneOperatorPerItem => OneBearer)'
      BY <2>2, <2>5, QuietKeepsBearer
    <3>2. Rooted'
      BY <2>2, <2>5, RootedKept DEF Fresh
    <3> QED BY <3>1, <3>2
  <2> QED BY <2>3, <2>4, <2>5
<1> QED BY <1>1, <1>2

(* What was pushed is borne by the run that pushed it: an operator takes   *)
(* up rejected sets only.                                                  *)
LEMMA PusherBears ==
    ASSUME PipelineInv, ReviewInv, NEW g \in Handlers, NEW x \in Elements(pushed[g]),
           ~InConflict(x.artifact)
    PROVE  Bears(g, x) /\ x \in Doc
<1>1. x \in Doc /\ x.artifact = job[g].artifact /\ x.artifact # NoPayload
  <2>1. pushed[g] \in Seq(Doc) /\ PushesPast(job[g], pushed[g])
    BY PipelineTypes DEF PipelineInv, RunsHold, RunInv
  <2>2. x \in Doc
    BY <2>1 DEF Elements
  <2> QED BY <2>1, <2>2, PayloadsAssumption DEF PushesPast, Doc
<1>2. Has(g, x)
  <2>1. CASE Fresh(g)
    BY <1>1, <2>1 DEF Has
  <2>2. CASE ~Fresh(g)
    <3>1. OneSet(job[g], pushed[g], tables[g], EventRow(job[g].original))
      BY <1>1, <2>2, RerunIsOneSet
    <3>2. SameSet(x, EventRow(job[g].original))
      BY <3>1 DEF OneSet
    <3> QED BY <2>2, <3>2 DEF Has, SameSet
  <2> QED BY <2>1, <2>2
<1>3. ASSUME NEW c \in Handlers, ~Fresh(c), job[c].original[1] = g,
             SameSet(EventRow(job[c].original), x)
      PROVE  FALSE
  <2> DEFINE o == job[c].original
             e == EventRow(o)
  <2>1. o \in EventsWritten /\ e.needsReview
    BY <1>3 DEF PipelineInv, Standing, StandsAt, Fresh, ReviewInv, TakesUp
  <2>2. /\ e.outcome = "rejected"
        /\ EventStands(job[g], pushed[g], tables[g], e)
    BY <1>3, <2>1, ItemIsOfRun DEF SameSet
  <2> HIDE DEF e
  <2>3. ~InDocs(pushed[g], e.group, e.set)
    BY <2>2 DEF EventStands
  <2>4. x.group = e.group /\ x.set = e.set
    BY <1>3 DEF SameSet, e
  <2> QED BY <2>3, <2>4 DEF InDocs
<1> QED BY <1>1, <1>2, <1>3 DEF Bears, PassedOn

(* No set of a received interchange reaches the customer twice, however    *)
(* often it is rejected and taken up again, unless two operators take up   *)
(* the same item.                                                          *)
THEOREM EachItemDeliversOnce ==
    ASSUME SetsNamedApart
    PROVE  ResolverSpec => []OncePerItemTakenUp
<1>1. PipelineInit => Rooted /\ (OneOperatorPerItem => OneBearer)
  <2> SUFFICES ASSUME PipelineInit PROVE Rooted /\ (OneOperatorPerItem => OneBearer)
    OBVIOUS
  <2>1. \A h \in Handlers : Fresh(h) /\ job[h].artifact = NoPayload
    BY NothingWrittenYet, NoWorkType DEF PipelineInit
  <2>2. \A x \in Doc : x.artifact # NoPayload
    BY PayloadsAssumption DEF Doc
  <2> QED BY <2>1, <2>2 DEF Rooted, OneBearer, Bears, Has
<1>2. /\ PipelineInv /\ OrderHolds /\ ReviewInv /\ AtMostOneAccepted
      /\ Rooted /\ (OneOperatorPerItem => OneBearer)
      /\ [ResolverNext]_vars
      => Rooted' /\ (OneOperatorPerItem => OneBearer)'
  BY BearerStep
<1>3. /\ PipelineInv /\ ReviewInv /\ VerdictsAreTrue
      /\ (OneOperatorPerItem => OneBearer)
      => OncePerItemTakenUp
  <2> SUFFICES ASSUME PipelineInv, ReviewInv, VerdictsAreTrue, OneOperatorPerItem, OneBearer,
                      NEW g \in Handlers, NEW h \in Handlers,
                      NEW m \in DOMAIN pushed[g], NEW n \in DOMAIN pushed[h],
                      Accepted(pushed[g][m].artifact), pushed[g][m] = pushed[h][n]
               PROVE  g = h /\ m = n
    BY DEF OncePerItemTakenUp, EachSetDeliveredOnce
  <2> DEFINE x == pushed[g][m]
  <2>1. x \in Elements(pushed[g]) /\ x \in Elements(pushed[h])
    BY DEF Elements
  <2>2. ~InConflict(x.artifact)
    <3> SUFFICES ASSUME NEW id \in EventsWritten, EventRow(id).outcome = "conflict",
                        EventRow(id).artifact = x.artifact
                 PROVE  FALSE
      BY DEF InConflict
    <3>1. PICK r \in Handlers : carried[r] = x.artifact /\ receipt[r] = "accepted"
      BY DEF Accepted
    <3>2. id[1] \in Handlers /\ receipt[id[1]] = "conflict" /\ carried[id[1]] = x.artifact
      BY Written DEF PipelineInv, ReviewInv, ItemStands
    <3> HIDE DEF x
    <3> QED BY <3>1, <3>2 DEF VerdictsAreTrue
  <2>3. Bears(g, x) /\ Bears(h, x) /\ x \in Doc
    BY <2>1, <2>2, PusherBears
  <2>4. g = h
    BY <2>2, <2>3 DEF OneBearer
  <2>5. m = n
    BY <2>4 DEF PipelineInv, RunsHold, RunInv, PushesPast
  <2> QED BY <2>4, <2>5
<1>4. ResolverSpec => [](AtMostOneAccepted /\ VerdictsAreTrue)
  BY GatewayWithinPipeline
<1> QED BY <1>1, <1>2, <1>3, <1>4, RunsAreWhole, RunsAreInOrder, ReviewHolds, PTL DEF ResolverSpec

(* When no two sets of an interchange share code and control number, the   *)
(* re-run of a rejected set touches that set only, as                      *)
(* inbound-pipeline.ts:126 says; with such twins it does not.              *)
THEOREM SiblingsAreLeftAlone ==
    ASSUME SetsNamedApart
    PROVE  ResolverSpec => []SiblingsNeverTouched
<1>1. ReviewInv => SiblingsNeverTouched
  BY DEF ReviewInv, TakesUp, OneSet, SiblingsNeverTouched
<1> QED BY <1>1, ReviewHolds, PTL

(* An event once written is never lost or rewritten: but for how its item  *)
(* was resolved and the link to the re-run, the row stays as it is.        *)
WrittenForGood ==
    \A id \in EventsWritten : id \in EventsWritten' /\ Kept(NextRow(id), EventRow(id))

THEOREM LedgerOnlyGrows == ResolverSpec => [][WrittenForGood]_vars
<1>1. PipelineInv /\ [ResolverNext]_vars => [WrittenForGood]_vars
  <2> SUFFICES ASSUME PipelineInv, ResolverNext PROVE WrittenForGood
    OBVIOUS
  <2>1. PICK h \in Handlers : StepOf(h)
    BY ResolverSteps
  <2>2. \A id \in EventsWritten : Kept(EventRow(id), EventRow(id))
    <3>1. \A e \in LedgerRow : Kept(e, e)
      BY DEF Kept, ClosedRow, LedgerRow
    <3> QED BY <3>1, Written DEF PipelineInv
  <2>3. CASE GateStep(h)
    <3>1. tables' = tables
      BY <2>3 DEF GateStep, pipelineVars
    <3> QED BY <2>2, <3>1 DEF WrittenForGood, EventsWritten, EventRow, NextRow
  <2>4. CASE Dismiss(h) \/ StampReprocessed(h)
    <3>1. PICK resolution \in {"dismissed", "reprocessed"},
               resolvedTo \in EventIds \cup {NoEvent} :
             Resolve(h, resolution, resolvedTo) /\ job[h].pc \in {"dismiss", "stamp"}
      BY <2>4, Closings
    <3>2. AfterClosing(h, resolution, resolvedTo)
      BY <3>1, ClosesAfter
    <3>3. \A id \in EventsWritten : Kept(NextRow(id), EventRow(id))
      BY <3>2, KeptByClosing
    <3>4. EventsWritten' = EventsWritten
      BY <3>2 DEF AfterClosing
    <3> QED BY <3>3, <3>4 DEF WrittenForGood
  <2>5. ASSUME AfterMove(h) PROVE WrittenForGood
    BY <2>2, <2>5 DEF AfterMove, WrittenForGood
  <2> QED BY <2>1, <2>3, <2>4, <2>5, WorksKeeps, ShortCircuitKeeps, ProcessAcceptedKeeps,
             AskKeeps, ReprocessKeeps, MovesAfter DEF StepOf
<1> QED BY <1>1, RunsAreWhole, PTL DEF ResolverSpec
===============================================================================
