---------------------------- MODULE PipelineProofs ----------------------------
(***************************************************************************)
(* What a run of the inbound pipeline guarantees, for any number of        *)
(* handlers, documents and groups, wherever handlers stop, and with        *)
(* operators working the review queue meanwhile: PipelineSpec is           *)
(* ResolverSpec without the operators' steps, so every invariant below is  *)
(* proved of ResolverSpec and holds of both.                               *)
(* The argument: nothing outside a run writes its job, its pushes or its   *)
(* rows (a resolution apart), so an invariant of one run, RunInv, carries  *)
(* the proofs.  It says that what is still to be done is disjoint from     *)
(* what is done, and that the group in hand has the rows its phase needs.  *)
(***************************************************************************)
EXTENDS QuarantineResolver, IntakeProofs, SequenceTheorems, FiniteSetTheorems

-------------------------------------------------------------------------------
(***************************************************************************)
(* The invariant of one run, over the run's own state: its job j, the      *)
(* documents docs it pushed and its rows.                                  *)
(***************************************************************************)
AfterAck == {"store", "recordDelivery", "log"}
Working == {"translate", "saveAck", "enqueue"} \cup AfterAck
Waiting == {"idle", "dismiss", "reprocess"}

(* Work that is still to be done has set i of group g in it.               *)
InWork(work, g, i) ==
    \E k \in DOMAIN work : /\ work[k].group = g
                           /\ \E m \in DOMAIN work[k].sets : work[k].sets[m] = i

IsSet(p, g, i) == g \in DOMAIN Groups(p) /\ i \in DOMAIN Groups(p)[g].sets

(* Work names sets of the interchange, and each of them once.              *)
Fits(p, work) ==
    \A k \in DOMAIN work :
        /\ work[k].group \in DOMAIN Groups(p)
        /\ \A m \in DOMAIN work[k].sets : IsSet(p, work[k].group, work[k].sets[m])

EachOnce(work) ==
    /\ \A k, l \in DOMAIN work : work[k].group = work[l].group => k = l
    /\ \A k \in DOMAIN work : \A m, n \in DOMAIN work[k].sets :
          work[k].sets[m] = work[k].sets[n] => m = n

InDocs(docs, g, i) == \E d \in Elements(docs) : d.group = g /\ d.set = i

(* The phase of a run and the work it has left.                            *)
WorkInHand(j) ==
    /\ j.pc \notin Working \cup {"failed"} => j.work = <<>>
    /\ j.pc \in Working => j.work # <<>> /\ j.artifact # NoPayload
    /\ j.pc \in {"saveAck", "enqueue"} \cup AfterAck => Head(j.work).sets = <<>>
    /\ j.pc \in AfterAck => j.processed # <<>>
    /\ Fits(j.artifact, j.work)
    /\ EachOnce(j.work)

(* The sets of the group in hand that were translated: they are behind, and*)
(* the conformant ones are what the customer got.                          *)
ProcessedInHand(j, docs) ==
    j.pc \in Working =>
        \A s \in Elements(j.processed) :
            /\ s.delivered = s.conformant
            /\ s.conformant <=> InDocs(docs, Head(j.work).group, s.set)
            /\ ~InWork(j.work, Head(j.work).group, s.set)
            /\ IsSet(j.artifact, Head(j.work).group, s.set)

(* What was pushed is behind, and was pushed once.                         *)
PushesPast(j, docs) ==
    /\ \A d \in Elements(docs) : d.artifact = j.artifact /\ ~InWork(j.work, d.group, d.set)
    /\ \A m, n \in DOMAIN docs : docs[m] = docs[n] => m = n

(* What was acknowledged is behind, so its verdict cannot change.          *)
AcksPast(j, docs, acks) ==
    \A a \in Elements(acks) : \A n \in DOMAIN a.accepted :
        /\ a.accepted[n].code <=> InDocs(docs, a.group, a.accepted[n].set)
        /\ ~InWork(j.work, a.group, a.accepted[n].set)

(* A queued 997 that gives set i of group g this code.                     *)
AckOf(rows, no, g, i, code) ==
    \E a \in DOMAIN rows.acks :
        /\ rows.acks[a].no = no
        /\ rows.acks[a].group = g
        /\ [set |-> i, code |-> code] \in Elements(rows.acks[a].accepted)
        /\ a \in Elements(rows.dispatches)

TransactionFor(g, i, conformant) ==
    [group |-> g, set |-> i, state |-> IF conformant THEN "DELIVERED" ELSE "REJECTED"]

AckFor(j) ==
    [group |-> Head(j.work).group, no |-> j.ackNo,
     accepted |-> [n \in 1..Len(j.processed) |->
                      [set |-> j.processed[n].set, code |-> j.processed[n].conformant]]]

(* The rows that the phase of the group in hand needs.                     *)
GroupInHand(j, rows) ==
    LET last == Len(rows.transactions)
        g == Head(j.work).group
        s == Head(j.processed)
    IN  /\ Elements(rows.deliveries) \subseteq DOMAIN rows.transactions
        /\ j.pc = "enqueue" => rows.acks # <<>> /\ rows.acks[Len(rows.acks)] = AckFor(j)
        /\ j.pc \in AfterAck => \A r \in Elements(j.processed) :
              AckOf(rows, j.ackNo, g, r.set, r.conformant)
        /\ j.pc \in {"recordDelivery", "log"} =>
              last # 0 /\ rows.transactions[last] = TransactionFor(g, s.set, s.conformant)
        /\ j.pc = "recordDelivery" => s.conformant /\ last \notin Elements(rows.deliveries)
        /\ j.pc = "log" => (s.conformant <=> last \in Elements(rows.deliveries))

(* What the ledger reports is behind, and stands on rows that no later     *)
(* step touches.                                                           *)
EventStands(j, docs, rows, e) ==
    /\ e.artifact = j.artifact
    /\ IsSet(e.artifact, e.group, e.set)
    /\ ~InWork(j.work, e.group, e.set)
    /\ e.outcome \in {"accepted", "rejected"}
    /\ e.delivered <=> e.outcome = "accepted"
    /\ e.delivered <=> InDocs(docs, e.group, e.set)
    /\ AckOf(rows, e.ackNo, e.group, e.set, e.outcome = "accepted")
    /\ \E t \in DOMAIN rows.transactions :
          /\ rows.transactions[t] = TransactionFor(e.group, e.set, e.outcome = "accepted")
          /\ e.delivered <=> t \in Elements(rows.deliveries)
          /\ j.pc \in {"recordDelivery", "log"} => t # Len(rows.transactions)

EventsPast(j, docs, rows) ==
    \A e \in Elements(rows.events) :
        /\ e.original = j.original
        /\ e.outcome \in {"accepted", "rejected"} => e.group # 0
        /\ e.group = 0 <=> e.set = 0
        /\ e.group # 0 => EventStands(j, docs, rows, e)

RunInv(j, docs, rows) ==
    /\ WorkInHand(j)
    /\ ProcessedInHand(j, docs)
    /\ PushesPast(j, docs)
    /\ AcksPast(j, docs, rows.acks)
    /\ GroupInHand(j, rows)
    /\ EventsPast(j, docs, rows)

Doc == [artifact : Payloads, group : Nat, set : Nat]
WorkItem == [group : Nat, sets : Seq(Nat)]

-------------------------------------------------------------------------------
(***************************************************************************)
(* Sequences, and the elements they have.                                  *)
(***************************************************************************)
LEMMA ElementsOf ==
    ASSUME NEW S, NEW s \in Seq(S)
    PROVE  /\ Elements(s) \subseteq S
           /\ \A x : x \in Elements(s) <=> \E n \in 1..Len(s) : s[n] = x
BY DEF Elements

LEMMA ElementsAppend ==
    ASSUME NEW S, NEW s \in Seq(S), NEW e \in S
    PROVE  /\ Append(s, e) \in Seq(S)
           /\ Len(Append(s, e)) = Len(s) + 1
           /\ Elements(Append(s, e)) = Elements(s) \cup {e}
           /\ DOMAIN s \subseteq DOMAIN Append(s, e)
           /\ Len(s) + 1 \in DOMAIN Append(s, e)
           /\ \A n \in DOMAIN s : Append(s, e)[n] = s[n]
           /\ Append(s, e)[Len(s) + 1] = e
BY DEF Elements

LEMMA ElementsTail ==
    ASSUME NEW S, NEW s \in Seq(S), s # <<>>
    PROVE  /\ Head(s) \in S /\ Tail(s) \in Seq(S)
           /\ Head(s) \in Elements(s) /\ Head(s) = s[1]
           /\ Elements(Tail(s)) \subseteq Elements(s)
           /\ Elements(s) = {Head(s)} \cup Elements(Tail(s))
           /\ Len(Tail(s)) = Len(s) - 1
           /\ \A n \in DOMAIN Tail(s) : n + 1 \in DOMAIN s /\ Tail(s)[n] = s[n + 1]
<1>1. /\ Len(s) \in Nat \ {0} /\ DOMAIN s = 1..Len(s)
      /\ Tail(s) \in Seq(S) /\ DOMAIN Tail(s) = 1..(Len(s) - 1)
      /\ Head(s) \in S /\ Head(s) = s[1]
      /\ Len(Tail(s)) = Len(s) - 1
  OBVIOUS
<1>2. \A n \in 1..(Len(s) - 1) : n + 1 \in 1..Len(s) /\ Tail(s)[n] = s[n + 1]
  OBVIOUS
<1>3. \A n \in 1..Len(s) : n = 1 \/ (n - 1 \in 1..(Len(s) - 1) /\ Tail(s)[n - 1] = s[n])
  BY <1>1, <1>2
<1>4. 1 \in 1..Len(s)
  BY <1>1
<1>5. Elements(Tail(s)) = {s[n + 1] : n \in 1..(Len(s) - 1)}
  BY <1>1, <1>2 DEF Elements
<1>6. Elements(s) = {s[n] : n \in 1..Len(s)}
  BY <1>1 DEF Elements
<1>7. Elements(Tail(s)) \subseteq Elements(s) /\ s[1] \in Elements(s)
  BY <1>2, <1>4, <1>5, <1>6
<1>8. ASSUME NEW x \in Elements(s), x # s[1]
      PROVE  x \in Elements(Tail(s))
  <2>1. PICK n \in 1..Len(s) : x = s[n]
    BY <1>6
  <2>2. n - 1 \in DOMAIN Tail(s) /\ Tail(s)[n - 1] = x
    BY <1>1, <1>3, <1>8, <2>1
  <2> QED BY <2>2 DEF Elements
<1>9. Elements(s) = {Head(s)} \cup Elements(Tail(s))
  BY <1>1, <1>7, <1>8
<1> QED BY <1>1, <1>2, <1>7, <1>9

LEMMA ElementsEmpty == Elements(<<>>) = {}
BY DEF Elements

-------------------------------------------------------------------------------
(***************************************************************************)
(* The work of a run: what taking a set or finishing a group does to it.   *)
(***************************************************************************)
LEMMA GroupsType ==
    ASSUME NEW p \in Payloads
    PROVE  Groups(p) \in Seq(Group)
BY GroupsAssumption DEF Groups

TakeSet(work) ==
    <<[group |-> Head(work).group, sets |-> Tail(Head(work).sets)]>> \o Tail(work)

LEMMA TakenWork ==
    ASSUME NEW work \in Seq(WorkItem), work # <<>>, Head(work).sets # <<>>
    PROVE  /\ TakeSet(work) \in Seq(WorkItem) /\ TakeSet(work) # <<>>
           /\ Len(TakeSet(work)) = Len(work)
           /\ TakeSet(work)[1] = [group |-> work[1].group, sets |-> Tail(work[1].sets)]
           /\ \A k \in DOMAIN work : k # 1 => TakeSet(work)[k] = work[k]
           /\ Head(TakeSet(work)) = TakeSet(work)[1] /\ Head(work) = work[1]
<1> DEFINE item == [group |-> Head(work).group, sets |-> Tail(Head(work).sets)]
<1>1. /\ Head(work) \in WorkItem /\ Tail(work) \in Seq(WorkItem)
      /\ Head(work) = work[1] /\ Len(Tail(work)) = Len(work) - 1
      /\ Len(work) \in Nat \ {0}
      /\ \A n \in 1..(Len(work) - 1) : Tail(work)[n] = work[n + 1]
  BY ElementsTail
<1>2. /\ item \in WorkItem
      /\ item = [group |-> work[1].group, sets |-> Tail(work[1].sets)]
  <2>1. work[1] \in WorkItem /\ work[1].sets \in Seq(Nat) /\ work[1].sets # <<>>
    BY <1>1 DEF WorkItem
  <2>2. Tail(work[1].sets) \in Seq(Nat)
    BY <2>1, ElementsTail
  <2>3. item = [group |-> work[1].group, sets |-> Tail(work[1].sets)]
    BY <1>1
  <2> QED BY <2>1, <2>2, <2>3 DEF WorkItem
<1> HIDE DEF item
<1>3. <<item>> \in Seq(WorkItem) /\ Len(<<item>>) = 1 /\ <<item>>[1] = item
  BY <1>2
<1>4. /\ TakeSet(work) \in Seq(WorkItem)
      /\ Len(TakeSet(work)) = Len(work)
      /\ \A k \in 1..Len(work) : TakeSet(work)[k] =
            IF k <= 1 THEN <<item>>[k] ELSE Tail(work)[k - 1]
  BY <1>1, <1>3, ConcatProperties DEF TakeSet, item
<1>5. \A k \in 1..Len(work) : k # 1 => TakeSet(work)[k] = work[k]
  <2> TAKE k \in 1..Len(work)
  <2> HAVE k # 1
  <2>1. k - 1 \in 1..(Len(work) - 1) /\ ~(k <= 1)
    BY <1>1
  <2> QED BY <1>1, <1>4, <2>1
<1>6. TakeSet(work)[1] = item
  BY <1>1, <1>3, <1>4
<1>7. TakeSet(work) # <<>> /\ Head(TakeSet(work)) = TakeSet(work)[1]
  BY <1>1, <1>4
<1> QED BY <1>1, <1>2, <1>4, <1>5, <1>6, <1>7

(* The set that is taken is behind from then on, and nothing else changes. *)
LEMMA TakenBehind ==
    ASSUME NEW p, NEW work \in Seq(WorkItem), work # <<>>, Head(work).sets # <<>>,
           Fits(p, work), EachOnce(work)
    PROVE  LET g == Head(work).group
               i == Head(Head(work).sets)
           IN  /\ Fits(p, TakeSet(work)) /\ EachOnce(TakeSet(work))
               /\ \A h, m : InWork(TakeSet(work), h, m) => InWork(work, h, m)
               /\ InWork(work, g, i) /\ ~InWork(TakeSet(work), g, i)
               /\ IsSet(p, g, i)
<1> DEFINE g == work[1].group
           sets == work[1].sets
           new == TakeSet(work)
<1>1. /\ new \in Seq(WorkItem) /\ Len(new) = Len(work) /\ Head(work) = work[1]
      /\ new[1].group = g /\ new[1].sets = Tail(sets)
      /\ \A k \in DOMAIN work : k # 1 => new[k] = work[k]
      /\ DOMAIN new = DOMAIN work /\ 1 \in DOMAIN work
  <2>1. /\ new \in Seq(WorkItem) /\ Len(new) = Len(work) /\ Head(work) = work[1]
        /\ new[1] = [group |-> g, sets |-> Tail(sets)]
        /\ \A k \in DOMAIN work : k # 1 => new[k] = work[k]
    BY TakenWork
  <2>2. DOMAIN new = 1..Len(new) /\ DOMAIN work = 1..Len(work) /\ Len(work) \in Nat \ {0}
    BY <2>1, LenProperties, EmptySeq
  <2> HIDE DEF new
  <2> QED BY <2>1, <2>2
<1>2. \A k \in DOMAIN work : new[k].group = work[k].group
  BY <1>1
<1>3. sets \in Seq(Nat) /\ sets # <<>>
  <2>1. work[1] \in WorkItem
    BY <1>1, ElementsTail
  <2> QED BY <1>1, <2>1 DEF WorkItem
<1> HIDE DEF new
<1>4. /\ Head(sets) = sets[1] /\ 1 \in DOMAIN sets /\ 1 \notin {m + 1 : m \in DOMAIN Tail(sets)}
      /\ \A m \in DOMAIN Tail(sets) : m + 1 \in DOMAIN sets /\ Tail(sets)[m] = sets[m + 1]
      /\ DOMAIN Tail(sets) \subseteq Nat
  BY <1>3, ElementsTail
<1>5. EachOnce(new)
  <2>1. \A k, l \in DOMAIN new : new[k].group = new[l].group => k = l
    BY <1>1, <1>2 DEF EachOnce
  <2>2. ASSUME NEW k \in DOMAIN new, NEW m \in DOMAIN new[k].sets, NEW n \in DOMAIN new[k].sets,
               new[k].sets[m] = new[k].sets[n]
        PROVE  m = n
    <3>1. CASE k # 1
      BY <1>1, <2>2, <3>1 DEF EachOnce
    <3>2. CASE k = 1
      <4>1. m + 1 \in DOMAIN sets /\ n + 1 \in DOMAIN sets /\ sets[m + 1] = sets[n + 1]
        BY <1>1, <1>4, <2>2, <3>2
      <4>2. m + 1 = n + 1
        BY <1>1, <4>1 DEF EachOnce
      <4>3. m \in Nat /\ n \in Nat
        BY <1>1, <1>4, <2>2, <3>2
      <4> QED BY <4>2, <4>3
    <3> QED BY <3>1, <3>2
  <2> QED BY <2>1, <2>2 DEF EachOnce
<1>6. ASSUME NEW h, NEW m, InWork(new, h, m)
      PROVE  InWork(work, h, m)
  <2>1. PICK k \in DOMAIN new : new[k].group = h /\ \E n \in DOMAIN new[k].sets : new[k].sets[n] = m
    BY <1>6 DEF InWork
  <2>2. \E n \in DOMAIN work[k].sets : work[k].sets[n] = m
    <3>1. CASE k # 1
      BY <1>1, <2>1, <3>1
    <3>2. CASE k = 1
      <4>1. PICK n \in DOMAIN Tail(sets) : Tail(sets)[n] = m
        BY <1>1, <2>1, <3>2
      <4>2. n + 1 \in DOMAIN sets /\ sets[n + 1] = m
        BY <1>4, <4>1
      <4> QED BY <3>2, <4>2
    <3> QED BY <3>1, <3>2
  <2> QED BY <1>1, <1>2, <2>1, <2>2 DEF InWork
<1>7. Fits(p, new)
  <2> SUFFICES ASSUME NEW k \in DOMAIN new
               PROVE  /\ new[k].group \in DOMAIN Groups(p)
                      /\ \A m \in DOMAIN new[k].sets : IsSet(p, new[k].group, new[k].sets[m])
    BY DEF Fits
  <2>1. CASE k # 1
    BY <1>1, <2>1 DEF Fits
  <2>2. CASE k = 1
    BY <1>1, <1>4, <2>2 DEF Fits
  <2> QED BY <2>1, <2>2
<1>8. InWork(work, g, sets[1]) /\ IsSet(p, g, sets[1])
  BY <1>1, <1>4 DEF InWork, Fits
<1>9. ~InWork(new, g, sets[1])
  <2> SUFFICES ASSUME NEW k \in DOMAIN new, new[k].group = g,
                      NEW m \in DOMAIN new[k].sets, new[k].sets[m] = sets[1]
               PROVE  FALSE
    BY DEF InWork
  <2>1. k = 1
    BY <1>1, <1>2 DEF EachOnce
  <2>2. m \in DOMAIN Tail(sets) /\ sets[m + 1] = sets[1] /\ m + 1 \in DOMAIN sets
    BY <1>1, <1>4, <2>1
  <2>3. m + 1 = 1
    BY <1>1, <1>4, <2>2 DEF EachOnce
  <2> QED BY <1>4, <2>2, <2>3
<1> QED BY <1>1, <1>4, <1>5, <1>6, <1>7, <1>8, <1>9 DEF new

(* Finishing a group leaves the other groups' work.                        *)
LEMMA GroupBehind ==
    ASSUME NEW p, NEW work \in Seq(WorkItem), work # <<>>, Fits(p, work), EachOnce(work)
    PROVE  /\ Tail(work) \in Seq(WorkItem)
           /\ Fits(p, Tail(work)) /\ EachOnce(Tail(work))
           /\ \A g, i : InWork(Tail(work), g, i) => InWork(work, g, i)
           /\ \A i : ~InWork(Tail(work), Head(work).group, i)
<1>1. /\ Tail(work) \in Seq(WorkItem) /\ Head(work) = work[1]
      /\ \A n \in DOMAIN Tail(work) : n + 1 \in DOMAIN work /\ Tail(work)[n] = work[n + 1]
      /\ DOMAIN Tail(work) \subseteq Nat \ {0} /\ 1 \in DOMAIN work
  BY ElementsTail
<1>2. Fits(p, Tail(work))
  BY <1>1 DEF Fits
<1>3. EachOnce(Tail(work))
  <2>1. ASSUME NEW k \in DOMAIN Tail(work), NEW l \in DOMAIN Tail(work),
               Tail(work)[k].group = Tail(work)[l].group
        PROVE  k = l
    <3>1. k + 1 = l + 1
      BY <1>1, <2>1 DEF EachOnce
    <3> QED BY <1>1, <3>1
  <2> QED BY <1>1, <2>1 DEF EachOnce
<1>4. ASSUME NEW k \in DOMAIN Tail(work)
      PROVE  Tail(work)[k].group # Head(work).group
  <2>1. work[k + 1].group = work[1].group => k + 1 = 1
    BY <1>1 DEF EachOnce
  <2> QED BY <1>1, <2>1
<1> QED BY <1>1, <1>2, <1>3, <1>4 DEF InWork

(* The whole interchange is work that fits it.                             *)
LEMMA WholeWork ==
    ASSUME NEW p \in Payloads
    PROVE  /\ WholeInterchange(p) \in Seq(WorkItem)
           /\ Len(WholeInterchange(p)) = Len(Groups(p))
           /\ Fits(p, WholeInterchange(p)) /\ EachOnce(WholeInterchange(p))
<1> DEFINE N == Len(Groups(p))
           Item(g) == [group |-> g, sets |-> [i \in 1..Len(Groups(p)[g].sets) |-> i]]
<1>1. N \in Nat /\ DOMAIN Groups(p) = 1..N
  BY GroupsType
<1>2. ASSUME NEW g \in 1..N
      PROVE  /\ Len(Groups(p)[g].sets) \in Nat
             /\ DOMAIN Groups(p)[g].sets = 1..Len(Groups(p)[g].sets)
  <2>1. Groups(p)[g] \in Group
    BY GroupsType, ElementOfSeq
  <2> QED BY <2>1 DEF Group
<1>3. \A g \in 1..N : Item(g) \in WorkItem
  <2> TAKE g \in 1..N
  <2> DEFINE L == Len(Groups(p)[g].sets)
  <2>1. L \in Nat
    BY <1>2
  <2> HIDE DEF L
  <2>2. [i \in 1..L |-> i] \in Seq(Nat)
    BY <2>1
  <2> QED BY <1>1, <2>2 DEF WorkItem, L
<1>4. WholeInterchange(p) = [g \in 1..N |-> Item(g)]
  BY DEF WholeInterchange
<1> HIDE DEF Item, N
<1>5. WholeInterchange(p) \in Seq(WorkItem) /\ Len(WholeInterchange(p)) = N
  BY <1>1, <1>3, <1>4
<1>6. \A g \in 1..N : WholeInterchange(p)[g] = Item(g)
  BY <1>4
<1>7. DOMAIN WholeInterchange(p) = 1..N
  BY <1>4
<1>8. Fits(p, WholeInterchange(p))
  BY <1>1, <1>2, <1>6, <1>7 DEF Fits, IsSet, Item
<1>9. EachOnce(WholeInterchange(p))
  BY <1>2, <1>6, <1>7 DEF EachOnce, Item
<1> QED BY <1>5, <1>8, <1>9 DEF N

-------------------------------------------------------------------------------
(***************************************************************************)
(* What every step of a run leaves standing.  Extends relates the run      *)
(* before and after: work is taken and not given, documents are pushed for *)
(* sets that were still to be done, rows are only appended, and a delivery *)
(* row is of the transaction just stored.                                  *)
(***************************************************************************)
Prefix(s, t) == \A n \in DOMAIN s : n \in DOMAIN t /\ t[n] = s[n]

Extends(j, docs, rows, j2, docs2, rows2) ==
    /\ j2.artifact = j.artifact /\ j2.original = j.original
    /\ \A g, i : InWork(j2.work, g, i) => InWork(j.work, g, i)
    /\ \A g, i : InDocs(docs, g, i) => InDocs(docs2, g, i)
    /\ \A g, i : InDocs(docs2, g, i) => InDocs(docs, g, i) \/ InWork(j.work, g, i)
    /\ Prefix(rows.acks, rows2.acks)
    /\ Elements(rows.dispatches) \subseteq Elements(rows2.dispatches)
    /\ Prefix(rows.transactions, rows2.transactions)
    /\ Elements(rows.deliveries) \subseteq Elements(rows2.deliveries)
    /\ \A t \in Elements(rows2.deliveries) \ Elements(rows.deliveries) :
          t = Len(rows.transactions) /\ j.pc = "recordDelivery"
    /\ j2.pc \in {"recordDelivery", "log"} =>
          \/ Len(rows2.transactions) \notin DOMAIN rows.transactions
          \/ /\ j.pc \in {"recordDelivery", "log"}
             /\ Len(rows2.transactions) = Len(rows.transactions)

LEMMA EventStillStands ==
    ASSUME NEW j, NEW docs, NEW rows, NEW j2, NEW docs2, NEW rows2, NEW e,
           Extends(j, docs, rows, j2, docs2, rows2),
           EventStands(j, docs, rows, e)
    PROVE  EventStands(j2, docs2, rows2, e)
<1>1. /\ e.artifact = j2.artifact
      /\ IsSet(e.artifact, e.group, e.set)
      /\ ~InWork(j2.work, e.group, e.set)
      /\ e.outcome \in {"accepted", "rejected"}
      /\ e.delivered <=> e.outcome = "accepted"
      /\ e.delivered <=> InDocs(docs2, e.group, e.set)
  BY DEF EventStands, Extends
<1>2. AckOf(rows2, e.ackNo, e.group, e.set, e.outcome = "accepted")
  <2>1. PICK a \in DOMAIN rows.acks :
           /\ rows.acks[a].no = e.ackNo
           /\ rows.acks[a].group = e.group
           /\ [set |-> e.set, code |-> e.outcome = "accepted"] \in Elements(rows.acks[a].accepted)
           /\ a \in Elements(rows.dispatches)
    BY DEF EventStands, AckOf
  <2>2. a \in DOMAIN rows2.acks /\ rows2.acks[a] = rows.acks[a] /\ a \in Elements(rows2.dispatches)
    BY <2>1 DEF Extends, Prefix
  <2> QED BY <2>1, <2>2 DEF AckOf
<1>3. \E t \in DOMAIN rows2.transactions :
         /\ rows2.transactions[t] = TransactionFor(e.group, e.set, e.outcome = "accepted")
         /\ e.delivered <=> t \in Elements(rows2.deliveries)
         /\ j2.pc \in {"recordDelivery", "log"} => t # Len(rows2.transactions)
  <2>1. PICK t \in DOMAIN rows.transactions :
           /\ rows.transactions[t] = TransactionFor(e.group, e.set, e.outcome = "accepted")
           /\ e.delivered <=> t \in Elements(rows.deliveries)
           /\ j.pc \in {"recordDelivery", "log"} => t # Len(rows.transactions)
    BY DEF EventStands
  <2>2. t \in DOMAIN rows2.transactions /\ rows2.transactions[t] = rows.transactions[t]
    BY DEF Extends, Prefix
  <2>3. t \in Elements(rows2.deliveries) <=> t \in Elements(rows.deliveries)
    BY <2>1 DEF Extends
  <2>4. j2.pc \in {"recordDelivery", "log"} => t # Len(rows2.transactions)
    BY <2>1 DEF Extends
  <2> QED BY <2>1, <2>2, <2>3, <2>4
<1> QED BY <1>1, <1>2, <1>3 DEF EventStands

(* The events and the 997s there are stay true.                            *)
LEMMA RecordsStayTrue ==
    ASSUME NEW j, NEW docs, NEW rows, NEW j2, NEW docs2, NEW rows2,
           Extends(j, docs, rows, j2, docs2, rows2)
    PROVE  /\ AcksPast(j, docs, rows.acks) => AcksPast(j2, docs2, rows.acks)
           /\ EventsPast(j, docs, rows) /\ rows2.events = rows.events
              => EventsPast(j2, docs2, rows2)
           /\ PushesPast(j, docs) => PushesPast(j2, docs)
<1>1. AcksPast(j, docs, rows.acks) => AcksPast(j2, docs2, rows.acks)
  BY DEF AcksPast, Extends
<1>2. EventsPast(j, docs, rows) /\ rows2.events = rows.events => EventsPast(j2, docs2, rows2)
  <2> SUFFICES ASSUME EventsPast(j, docs, rows), rows2.events = rows.events,
                      NEW e \in Elements(rows.events)
               PROVE  /\ e.original = j2.original
                      /\ e.outcome \in {"accepted", "rejected"} => e.group # 0
                      /\ e.group = 0 <=> e.set = 0
                      /\ e.group # 0 => EventStands(j2, docs2, rows2, e)
    BY DEF EventsPast
  <2>1. j2.original = j.original
    BY DEF Extends
  <2> QED BY <2>1, EventStillStands DEF EventsPast
<1>3. PushesPast(j, docs) => PushesPast(j2, docs)
  BY DEF PushesPast, Extends
<1> QED BY <1>1, <1>2, <1>3

(* An appended row.                                                        *)
LEMMA AppendExtends ==
    ASSUME NEW S, NEW s \in Seq(S), NEW e \in S
    PROVE  Prefix(s, Append(s, e)) /\ Prefix(s, s)
BY ElementsAppend DEF Prefix

LEMMA Inserted ==
    ASSUME NEW rows \in Tables, NEW s
    PROVE  /\ [rows EXCEPT !["interchanges"] = s] = [rows EXCEPT !.interchanges = s]
           /\ [rows EXCEPT !["acks"] = s] = [rows EXCEPT !.acks = s]
           /\ [rows EXCEPT !["dispatches"] = s] = [rows EXCEPT !.dispatches = s]
           /\ [rows EXCEPT !["transactions"] = s] = [rows EXCEPT !.transactions = s]
           /\ [rows EXCEPT !["deliveries"] = s] = [rows EXCEPT !.deliveries = s]
           /\ [rows EXCEPT !["events"] = s] = [rows EXCEPT !.events = s]
BY DEF Tables

(* A set is translated: it is taken from the work, and pushed when it      *)
(* conforms.                                                               *)
Taken(j, conformant) ==
    [j EXCEPT !.work = TakeSet(@),
              !.processed = Append(@, [set |-> Head(Head(j.work).sets),
                                       conformant |-> conformant,
                                       delivered |-> conformant])]

DocInHand(j) == [artifact |-> j.artifact, group |-> Head(j.work).group,
                 set |-> Head(Head(j.work).sets)]

LEMMA JobInHand ==
    ASSUME NEW j \in Job, WorkInHand(j), j.pc \in Working
    PROVE  /\ j.work \in Seq(WorkItem) /\ j.work # <<>>
           /\ Head(j.work) \in WorkItem /\ Head(j.work).group \in Nat
           /\ Head(j.work).sets \in Seq(Nat)
           /\ j.processed \in Seq(ProcessedSet) /\ j.artifact \in Payloads
           /\ Fits(j.artifact, j.work) /\ EachOnce(j.work)
<1>1. j.work \in Seq(WorkItem) /\ j.work # <<>> /\ j.artifact \in Payloads
  BY DEF Job, WorkItem, WorkInHand
<1>2. Head(j.work) \in WorkItem
  BY <1>1, ElementsTail
<1> QED BY <1>1, <1>2 DEF Job, WorkItem, WorkInHand

LEMMA TakenRun ==
    ASSUME NEW j \in Job, NEW docs \in Seq(Doc), NEW rows \in Tables,
           RunInv(j, docs, rows), j.pc = "translate", Head(j.work).sets # <<>>,
           NEW c \in BOOLEAN
    PROVE  LET docs2 == IF c THEN Append(docs, DocInHand(j)) ELSE docs
           IN  /\ Taken(j, c) \in Job /\ docs2 \in Seq(Doc)
               /\ RunInv(Taken(j, c), docs2, rows)
<1> DEFINE docs2 == IF c THEN Append(docs, DocInHand(j)) ELSE docs
           j2 == Taken(j, c)
           g == Head(j.work).group
           i == Head(Head(j.work).sets)
           r == [set |-> i, conformant |-> c, delivered |-> c]
<1>1. /\ j.work \in Seq(WorkItem) /\ j.work # <<>> /\ j.artifact \in Payloads
      /\ g \in Nat /\ Head(j.work).sets \in Seq(Nat) /\ i \in Nat
      /\ j.processed \in Seq(ProcessedSet)
      /\ Fits(j.artifact, j.work) /\ EachOnce(j.work)
  BY JobInHand, ElementsTail DEF RunInv, Working
<1>2. r \in ProcessedSet
  BY <1>1 DEF ProcessedSet
<1>3. /\ TakeSet(j.work) \in Seq(WorkItem) /\ TakeSet(j.work) # <<>>
      /\ Head(TakeSet(j.work)).group = g
  <2>1. /\ TakeSet(j.work) \in Seq(WorkItem) /\ TakeSet(j.work) # <<>>
        /\ Head(TakeSet(j.work)) = [group |-> j.work[1].group, sets |-> Tail(j.work[1].sets)]
        /\ Head(j.work) = j.work[1]
    BY <1>1, TakenWork
  <2> QED BY <2>1
<1>4. /\ Fits(j.artifact, TakeSet(j.work)) /\ EachOnce(TakeSet(j.work))
      /\ \A h, m : InWork(TakeSet(j.work), h, m) => InWork(j.work, h, m)
      /\ InWork(j.work, g, i) /\ ~InWork(TakeSet(j.work), g, i)
      /\ IsSet(j.artifact, g, i)
  BY <1>1, TakenBehind
<1>5. /\ Append(j.processed, r) \in Seq(ProcessedSet)
      /\ Elements(Append(j.processed, r)) = Elements(j.processed) \cup {r}
  BY <1>1, <1>2, ElementsAppend
<1>6. /\ j2 \in Job
      /\ j2.pc = j.pc /\ j2.artifact = j.artifact /\ j2.original = j.original
      /\ j2.ackNo = j.ackNo
      /\ j2.work = TakeSet(j.work) /\ j2.processed = Append(j.processed, r)
  BY <1>3, <1>5 DEF Taken, Job, WorkItem
<1>7. DocInHand(j) \in Doc /\ DocInHand(j).group = g /\ DocInHand(j).set = i
  BY <1>1 DEF DocInHand, Doc
<1>8. docs2 \in Seq(Doc) /\ Elements(docs2) = IF c THEN Elements(docs) \cup {DocInHand(j)}
                                                    ELSE Elements(docs)
  <2>1. /\ Append(docs, DocInHand(j)) \in Seq(Doc)
        /\ Elements(Append(docs, DocInHand(j))) = Elements(docs) \cup {DocInHand(j)}
    BY <1>7, ElementsAppend
  <2> QED BY <2>1
<1>9. \A h, m : InDocs(docs2, h, m) <=> InDocs(docs, h, m) \/ (c /\ h = g /\ m = i)
  BY <1>7, <1>8 DEF InDocs
<1>10. ~InDocs(docs, g, i)
  BY <1>4 DEF RunInv, PushesPast, InDocs
<1> HIDE DEF docs2, j2, r, g, i
<1>11. WorkInHand(j2)
  BY <1>3, <1>4, <1>6 DEF WorkInHand, RunInv, Working, AfterAck
<1>12. ProcessedInHand(j2, docs2)
  <2> SUFFICES ASSUME NEW s \in Elements(j2.processed)
               PROVE  /\ s.delivered = s.conformant
                      /\ s.conformant <=> InDocs(docs2, g, s.set)
                      /\ ~InWork(TakeSet(j.work), g, s.set)
                      /\ IsSet(j.artifact, g, s.set)
    BY <1>3, <1>6 DEF ProcessedInHand
  <2>1. CASE s \in Elements(j.processed)
    <3>1. /\ s.delivered = s.conformant
          /\ s.conformant <=> InDocs(docs, g, s.set)
          /\ ~InWork(j.work, g, s.set)
          /\ IsSet(j.artifact, g, s.set)
      BY <2>1 DEF RunInv, ProcessedInHand, Working, g
    <3> QED BY <1>4, <1>9, <3>1
  <2>2. CASE s = r
    <3>1. s.set = i /\ s.conformant = c /\ s.delivered = c
      BY <2>2 DEF r
    <3> QED BY <1>4, <1>9, <1>10, <3>1
  <2> QED BY <1>5, <1>6, <2>1, <2>2
<1>13. Extends(j, docs, rows, j2, docs2, rows)
  <2>1. Prefix(rows.acks, rows.acks) /\ Prefix(rows.transactions, rows.transactions)
    BY DEF Prefix
  <2>2. j2.pc \notin {"recordDelivery", "log"}
    BY <1>6
  <2> QED BY <1>4, <1>6, <1>9, <2>1, <2>2 DEF Extends
<1>14. PushesPast(j2, docs2)
  <2>1. \A d \in Elements(docs) : /\ d.artifact = j2.artifact
                                  /\ ~InWork(j.work, d.group, d.set)
                                  /\ ~InWork(j2.work, d.group, d.set)
    BY <1>4, <1>6 DEF RunInv, PushesPast
  <2>2. \A d \in Elements(docs2) : d.artifact = j2.artifact /\ ~InWork(j2.work, d.group, d.set)
    <3>1. DocInHand(j).artifact = j2.artifact
      BY <1>6 DEF DocInHand
    <3> QED BY <1>4, <1>6, <1>7, <1>8, <2>1, <3>1
  <2>3. ASSUME NEW m \in DOMAIN docs2, NEW n \in DOMAIN docs2, docs2[m] = docs2[n]
        PROVE  m = n
    <3>1. CASE ~c
      BY <2>3, <3>1 DEF RunInv, PushesPast, docs2
    <3>2. CASE c
      <4>1. /\ docs2 = Append(docs, DocInHand(j)) /\ DOMAIN docs2 = 1..(Len(docs) + 1)
            /\ \A k \in 1..Len(docs) : docs2[k] = docs[k] /\ docs[k] \in Elements(docs)
            /\ docs2[Len(docs) + 1] = DocInHand(j)
            /\ DOMAIN docs = 1..Len(docs) /\ Len(docs) \in Nat
        BY <1>7, <3>2 DEF docs2, Elements
      <4>2. DocInHand(j) \notin Elements(docs)
        BY <1>7, <1>10 DEF InDocs
      <4>3. \A k \in 1..(Len(docs) + 1) : k \in 1..Len(docs) \/ k = Len(docs) + 1
        BY <4>1
      <4>4. \A k, l \in 1..Len(docs) : docs[k] = docs[l] => k = l
        BY <4>1 DEF RunInv, PushesPast
      <4> QED BY <2>3, <4>1, <4>2, <4>3, <4>4
    <3> QED BY <3>1, <3>2
  <2> QED BY <2>2, <2>3 DEF PushesPast
<1>15. AcksPast(j2, docs2, rows.acks) /\ EventsPast(j2, docs2, rows)
  BY <1>13, RecordsStayTrue DEF RunInv
<1>16. GroupInHand(j2, rows)
  BY <1>6 DEF GroupInHand, RunInv, AfterAck
<1>17. RunInv(j2, docs2, rows)
  BY <1>11, <1>12, <1>14, <1>15, <1>16 DEF RunInv
<1> QED BY <1>6, <1>8, <1>17 DEF docs2, j2

LEMMA FailedRun ==
    ASSUME NEW j \in Job, NEW docs, NEW rows,
           RunInv(j, docs, rows), j.pc = "translate"
    PROVE  LET j2 == [j EXCEPT !.pc = "failed"]
           IN  j2 \in Job /\ RunInv(j2, docs, rows)
<1> DEFINE j2 == [j EXCEPT !.pc = "failed"]
<1>1. /\ j2 \in Job /\ j2.pc = "failed" /\ j2.work = j.work
      /\ j2.artifact = j.artifact /\ j2.original = j.original
  BY DEF Job, Pcs
<1> HIDE DEF j2
<1>2. WorkInHand(j2) /\ ProcessedInHand(j2, docs) /\ GroupInHand(j2, rows)
  BY <1>1 DEF RunInv, WorkInHand, ProcessedInHand, GroupInHand, Working, AfterAck
<1>3. Extends(j, docs, rows, j2, docs, rows)
  BY <1>1 DEF Extends, Prefix
<1>4. PushesPast(j2, docs) /\ AcksPast(j2, docs, rows.acks) /\ EventsPast(j2, docs, rows)
  BY <1>3, RecordsStayTrue DEF RunInv
<1> QED BY <1>1, <1>2, <1>4 DEF RunInv, j2

(* The control numbers of the 997 are drawn.                               *)
LEMMA AckDrawnRun ==
    ASSUME NEW j \in Job, NEW docs, NEW rows, NEW n \in Nat,
           RunInv(j, docs, rows), j.pc = "translate", Head(j.work).sets = <<>>
    PROVE  LET j2 == [j EXCEPT !.pc = "saveAck", !.ackNo = n]
           IN  j2 \in Job /\ RunInv(j2, docs, rows)
<1> DEFINE j2 == [j EXCEPT !.pc = "saveAck", !.ackNo = n]
<1>1. /\ j2 \in Job /\ j2.pc = "saveAck" /\ j2.work = j.work /\ j2.processed = j.processed
      /\ j2.artifact = j.artifact /\ j2.original = j.original
  BY DEF Job, Pcs
<1> HIDE DEF j2
<1>2. WorkInHand(j2)
  BY <1>1 DEF RunInv, WorkInHand, Working, AfterAck
<1>3. ProcessedInHand(j2, docs) /\ GroupInHand(j2, rows)
  BY <1>1 DEF RunInv, ProcessedInHand, GroupInHand, Working, AfterAck
<1>4. Extends(j, docs, rows, j2, docs, rows)
  BY <1>1 DEF Extends, Prefix
<1>5. PushesPast(j2, docs) /\ AcksPast(j2, docs, rows.acks) /\ EventsPast(j2, docs, rows)
  BY <1>4, RecordsStayTrue DEF RunInv
<1> QED BY <1>1, <1>2, <1>3, <1>5 DEF RunInv, j2

(* The 997 of a group gives every set its verdict.                         *)
LEMMA AckForRow ==
    ASSUME NEW j \in Job, WorkInHand(j), j.pc \in Working
    PROVE  /\ AckFor(j) \in [group : Nat, no : Nat, accepted : Seq([set : Nat, code : BOOLEAN])]
           /\ Len(AckFor(j).accepted) = Len(j.processed)
           /\ \A n \in DOMAIN AckFor(j).accepted :
                 /\ n \in DOMAIN j.processed /\ j.processed[n] \in Elements(j.processed)
                 /\ AckFor(j).accepted[n] = [set |-> j.processed[n].set,
                                             code |-> j.processed[n].conformant]
           /\ \A s \in Elements(j.processed) :
                 [set |-> s.set, code |-> s.conformant] \in Elements(AckFor(j).accepted)
<1> DEFINE N == Len(j.processed)
           codes == [n \in 1..N |-> [set |-> j.processed[n].set,
                                     code |-> j.processed[n].conformant]]
<1>1. /\ N \in Nat /\ DOMAIN j.processed = 1..N
      /\ \A n \in 1..N : j.processed[n] \in ProcessedSet
  BY JobInHand, LenProperties, ElementOfSeq
<1>2. \A n \in 1..N : [set |-> j.processed[n].set, code |-> j.processed[n].conformant]
                          \in [set : Nat, code : BOOLEAN]
  BY <1>1 DEF ProcessedSet
<1> HIDE DEF N
<1>3. codes \in Seq([set : Nat, code : BOOLEAN]) /\ Len(codes) = N /\ DOMAIN codes = 1..N
  BY <1>1, <1>2
<1>4. /\ AckFor(j).accepted = codes /\ AckFor(j).group = Head(j.work).group
      /\ AckFor(j).no = j.ackNo
  BY DEF AckFor, N
<1>5. \A n \in 1..N : codes[n] = [set |-> j.processed[n].set,
                                  code |-> j.processed[n].conformant]
  OBVIOUS
<1> HIDE DEF codes
<1>6. AckFor(j) \in [group : Nat, no : Nat, accepted : Seq([set : Nat, code : BOOLEAN])]
  <2>1. Head(j.work).group \in Nat /\ j.ackNo \in Nat
    BY JobInHand DEF Job
  <2> QED BY <1>3, <1>4, <2>1 DEF AckFor
<1>7. \A n \in 1..N : j.processed[n] \in Elements(j.processed)
  BY <1>1 DEF Elements
<1>8. ASSUME NEW s \in Elements(j.processed)
      PROVE  [set |-> s.set, code |-> s.conformant] \in Elements(codes)
  <2>1. PICK n \in 1..N : j.processed[n] = s
    BY <1>1 DEF Elements
  <2> QED BY <1>3, <1>5, <2>1 DEF Elements
<1> QED BY <1>1, <1>3, <1>4, <1>5, <1>6, <1>7, <1>8 DEF N

LEMMA AckSavedRun ==
    ASSUME NEW j \in Job, NEW docs, NEW rows \in Tables,
           RunInv(j, docs, rows), j.pc = "saveAck"
    PROVE  LET j2 == [j EXCEPT !.pc = "enqueue"]
               rows2 == [rows EXCEPT !.acks = Append(@, AckFor(j))]
           IN  j2 \in Job /\ rows2 \in Tables /\ RunInv(j2, docs, rows2)
<1> DEFINE j2 == [j EXCEPT !.pc = "enqueue"]
           rows2 == [rows EXCEPT !.acks = Append(@, AckFor(j))]
           AckRow == [group : Nat, no : Nat, accepted : Seq([set : Nat, code : BOOLEAN])]
           g == Head(j.work).group
<1>1. /\ j2 \in Job /\ j2.pc = "enqueue" /\ j2.work = j.work /\ j2.processed = j.processed
      /\ j2.artifact = j.artifact /\ j2.original = j.original /\ j2.ackNo = j.ackNo
  BY DEF Job, Pcs
<1>2. WorkInHand(j) /\ j.pc \in Working
  BY DEF RunInv, Working
<1>3. rows.acks \in Seq(AckRow) /\ AckFor(j) \in AckRow
  BY <1>2, AckForRow DEF Tables
<1> HIDE DEF AckRow
<1>4. /\ Append(rows.acks, AckFor(j)) \in Seq(AckRow)
      /\ Append(rows.acks, AckFor(j)) # <<>>
      /\ Len(Append(rows.acks, AckFor(j))) = Len(rows.acks) + 1
      /\ Elements(Append(rows.acks, AckFor(j))) = Elements(rows.acks) \cup {AckFor(j)}
      /\ Append(rows.acks, AckFor(j))[Len(rows.acks) + 1] = AckFor(j)
      /\ Prefix(rows.acks, Append(rows.acks, AckFor(j)))
  BY <1>3, ElementsAppend, AppendExtends, AppendProperties
<1>5. /\ rows2 \in Tables /\ rows2.acks = Append(rows.acks, AckFor(j))
      /\ rows2.dispatches = rows.dispatches /\ rows2.transactions = rows.transactions
      /\ rows2.deliveries = rows.deliveries /\ rows2.events = rows.events
  BY <1>4 DEF Tables, AckRow
<1> HIDE DEF j2, rows2
<1>6. WorkInHand(j2) /\ ProcessedInHand(j2, docs)
  BY <1>1 DEF RunInv, WorkInHand, ProcessedInHand, Working, AfterAck
<1>7. Extends(j, docs, rows, j2, docs, rows2)
  <2>1. Prefix(rows.transactions, rows.transactions)
    BY DEF Prefix
  <2> QED BY <1>1, <1>4, <1>5, <2>1 DEF Extends
<1>8. PushesPast(j2, docs) /\ AcksPast(j2, docs, rows.acks) /\ EventsPast(j2, docs, rows2)
  BY <1>5, <1>7, RecordsStayTrue DEF RunInv
<1>9. AcksPast(j2, docs, rows2.acks)
  <2>1. ASSUME NEW n \in DOMAIN AckFor(j).accepted
        PROVE  /\ AckFor(j).accepted[n].code <=>
                     InDocs(docs, AckFor(j).group, AckFor(j).accepted[n].set)
               /\ ~InWork(j2.work, AckFor(j).group, AckFor(j).accepted[n].set)
    <3>1. PICK s \in Elements(j.processed) :
             AckFor(j).accepted[n] = [set |-> s.set, code |-> s.conformant]
      BY <1>2, <2>1, AckForRow
    <3>2. /\ s.conformant <=> InDocs(docs, g, s.set)
          /\ ~InWork(j.work, g, s.set)
      BY <1>2 DEF RunInv, ProcessedInHand
    <3>3. AckFor(j).group = g
      BY DEF AckFor
    <3> QED BY <1>1, <3>1, <3>2, <3>3
  <2> QED BY <1>4, <1>5, <1>8, <2>1 DEF AcksPast
<1>10. GroupInHand(j2, rows2)
  <2>1. AckFor(j2) = AckFor(j)
    BY <1>1 DEF AckFor
  <2>2. rows2.acks # <<>> /\ rows2.acks[Len(rows2.acks)] = AckFor(j2)
    BY <1>4, <1>5, <2>1
  <2> QED BY <1>1, <1>5, <2>2 DEF GroupInHand, RunInv, AfterAck
<1> QED BY <1>1, <1>5, <1>6, <1>8, <1>9, <1>10 DEF RunInv, j2, rows2

(* The run goes on with the sets still to be recorded, or with the next    *)
(* group, or is over.                                                      *)
LEMMA ContinuedJob ==
    ASSUME NEW j \in Job, WorkInHand(j), j.pc \in {"enqueue", "log"},
           NEW rest \in Seq(ProcessedSet)
    PROVE  LET j2 == Continue(j, rest)
           IN  /\ j2 \in Job /\ WorkInHand(j2)
               /\ j2.artifact = j.artifact /\ j2.original = j.original /\ j2.ackNo = j.ackNo
               /\ j2.processed = rest
               /\ \A g, i : InWork(j2.work, g, i) => InWork(j.work, g, i)
               /\ j2.pc \in {"store", "translate", "done", "stamp"}
               /\ j2.pc = "stamp" <=> /\ rest = <<>> /\ Tail(j.work) = <<>>
                                      /\ j.original # NoEvent
               /\ j2.pc = "store" <=> rest # <<>>
               /\ j2.work = IF rest # <<>> THEN j.work ELSE Tail(j.work)
<1>1. /\ j.work \in Seq(WorkItem) /\ j.work # <<>> /\ j.artifact \in Payloads
      /\ Fits(j.artifact, j.work) /\ EachOnce(j.work)
  BY JobInHand DEF Working, AfterAck
<1>2. CASE rest # <<>>
  <2> DEFINE j2 == [j EXCEPT !.pc = "store", !.processed = rest]
  <2>1. /\ j2 \in Job /\ j2.pc = "store" /\ j2.processed = rest /\ j2.work = j.work
        /\ j2.artifact = j.artifact /\ j2.original = j.original /\ j2.ackNo = j.ackNo
    BY DEF Job, Pcs
  <2>2. Continue(j, rest) = j2
    BY <1>2 DEF Continue
  <2> HIDE DEF j2
  <2>3. WorkInHand(j2)
    BY <1>2, <2>1 DEF WorkInHand, Working, AfterAck
  <2> QED BY <1>2, <2>1, <2>2, <2>3
<1>3. CASE rest = <<>>
  <2> DEFINE next == NextPc(Tail(j.work), j.original)
             j2 == [j EXCEPT !.pc = next, !.work = Tail(j.work), !.processed = <<>>]
  <2>1. /\ Tail(j.work) \in Seq(WorkItem)
        /\ Fits(j.artifact, Tail(j.work)) /\ EachOnce(Tail(j.work))
        /\ \A g, i : InWork(Tail(j.work), g, i) => InWork(j.work, g, i)
    BY <1>1, GroupBehind
  <2>2. /\ next \in {"translate", "done", "stamp"}
        /\ next = "translate" <=> Tail(j.work) # <<>>
        /\ next = "stamp" <=> Tail(j.work) = <<>> /\ j.original # NoEvent
    BY DEF NextPc
  <2> HIDE DEF next
  <2>3. /\ j2 \in Job /\ j2.pc = next /\ j2.processed = <<>> /\ j2.work = Tail(j.work)
        /\ j2.artifact = j.artifact /\ j2.original = j.original /\ j2.ackNo = j.ackNo
    <3>1. next \in Pcs /\ <<>> \in Seq(ProcessedSet)
      BY <2>2 DEF Pcs
    <3>2. Tail(j.work) \in Seq([group : Nat, sets : Seq(Nat)])
      BY <2>1 DEF WorkItem
    <3> QED BY <3>1, <3>2 DEF Job
  <2>4. Continue(j, rest) = j2
    BY <1>3 DEF Continue, next
  <2> HIDE DEF j2
  <2>5. j.artifact # NoPayload
    BY <1>1, PayloadsAssumption
  <2>6. WorkInHand(j2)
    BY <2>1, <2>2, <2>3, <2>5 DEF WorkInHand, Working, AfterAck
  <2> QED BY <1>3, <2>1, <2>2, <2>3, <2>4, <2>6
<1> QED BY <1>2, <1>3

LEMMA ContinuedRun ==
    ASSUME NEW j \in Job, WorkInHand(j), j.pc \in {"enqueue", "log"},
           NEW docs, NEW rows, ProcessedInHand(j, docs),
           NEW rest \in Seq(ProcessedSet), Elements(rest) \subseteq Elements(j.processed),
           Elements(rows.deliveries) \subseteq DOMAIN rows.transactions,
           \A r \in Elements(rest) :
               AckOf(rows, j.ackNo, Head(j.work).group, r.set, r.conformant)
    PROVE  /\ ProcessedInHand(Continue(j, rest), docs)
           /\ GroupInHand(Continue(j, rest), rows)
<1> DEFINE j2 == Continue(j, rest)
<1>1. /\ j2.artifact = j.artifact /\ j2.ackNo = j.ackNo /\ j2.processed = rest
      /\ j2.pc \in {"store", "translate", "done", "stamp"}
      /\ j2.pc = "store" <=> rest # <<>>
      /\ j2.work = IF rest # <<>> THEN j.work ELSE Tail(j.work)
  BY ContinuedJob
<1> HIDE DEF j2
<1>2. CASE rest # <<>>
  BY <1>1, <1>2 DEF ProcessedInHand, GroupInHand, Working, AfterAck, j2
<1>3. CASE rest = <<>>
  BY <1>1, <1>3, ElementsEmpty DEF ProcessedInHand, GroupInHand, Working, AfterAck, j2
<1> QED BY <1>2, <1>3

LEMMA QueuedRun ==
    ASSUME NEW j \in Job, NEW docs, NEW rows \in Tables,
           RunInv(j, docs, rows), j.pc = "enqueue"
    PROVE  LET j2 == Continue(j, j.processed)
               rows2 == [rows EXCEPT !.dispatches = Append(@, Len(rows.acks))]
           IN  j2 \in Job /\ rows2 \in Tables /\ RunInv(j2, docs, rows2)
<1> DEFINE j2 == Continue(j, j.processed)
           rows2 == [rows EXCEPT !.dispatches = Append(@, Len(rows.acks))]
           last == Len(rows.acks)
           AckRow == [group : Nat, no : Nat, accepted : Seq([set : Nat, code : BOOLEAN])]
<1>1. WorkInHand(j) /\ j.pc \in Working /\ j.processed \in Seq(ProcessedSet)
  BY JobInHand DEF RunInv, Working
<1>2. /\ j2 \in Job /\ WorkInHand(j2)
      /\ j2.artifact = j.artifact /\ j2.original = j.original
      /\ \A g, i : InWork(j2.work, g, i) => InWork(j.work, g, i)
      /\ j2.pc \in {"store", "translate", "done", "stamp"}
  BY <1>1, ContinuedJob
<1>3. rows.dispatches \in Seq(Nat) /\ rows.acks \in Seq(AckRow)
  BY DEF Tables
<1> HIDE DEF AckRow
<1>4. last \in Nat /\ last \in DOMAIN rows.acks /\ rows.acks[last] = AckFor(j)
  BY <1>3 DEF RunInv, GroupInHand
<1>5. /\ Append(rows.dispatches, last) \in Seq(Nat)
      /\ Elements(Append(rows.dispatches, last)) = Elements(rows.dispatches) \cup {last}
  BY <1>3, <1>4, ElementsAppend
<1>6. /\ rows2 \in Tables /\ rows2.dispatches = Append(rows.dispatches, last)
      /\ rows2.acks = rows.acks /\ rows2.transactions = rows.transactions
      /\ rows2.deliveries = rows.deliveries /\ rows2.events = rows.events
  BY <1>5 DEF Tables
<1> HIDE DEF j2, rows2, last
<1>7. Extends(j, docs, rows, j2, docs, rows2)
  <2>1. Prefix(rows.transactions, rows.transactions) /\ Prefix(rows.acks, rows.acks)
    BY DEF Prefix
  <2> QED BY <1>2, <1>5, <1>6, <2>1 DEF Extends
<1>8. PushesPast(j2, docs) /\ AcksPast(j2, docs, rows2.acks) /\ EventsPast(j2, docs, rows2)
  BY <1>6, <1>7, RecordsStayTrue DEF RunInv
<1>9. \A r \in Elements(j.processed) :
         AckOf(rows2, j.ackNo, Head(j.work).group, r.set, r.conformant)
  <2> TAKE r \in Elements(j.processed)
  <2>1. [set |-> r.set, code |-> r.conformant] \in Elements(AckFor(j).accepted)
    BY <1>1, AckForRow
  <2>2. AckFor(j).no = j.ackNo /\ AckFor(j).group = Head(j.work).group
    BY DEF AckFor
  <2>3. last \in Elements(rows2.dispatches)
    BY <1>5, <1>6
  <2> QED BY <1>4, <1>6, <2>1, <2>2, <2>3 DEF AckOf
<1>10. Elements(rows2.deliveries) \subseteq DOMAIN rows2.transactions
  BY <1>6 DEF RunInv, GroupInHand
<1>11. ProcessedInHand(j, docs)
  BY DEF RunInv
<1>12. ProcessedInHand(j2, docs) /\ GroupInHand(j2, rows2)
  BY <1>1, <1>9, <1>10, <1>11, ContinuedRun DEF j2
<1> QED BY <1>2, <1>6, <1>8, <1>12 DEF RunInv, j2, rows2, last

(* The transaction of the set at the head is stored.                       *)
LEMMA StoredRun ==
    ASSUME NEW j \in Job, NEW docs, NEW rows \in Tables,
           RunInv(j, docs, rows), j.pc = "store"
    PROVE  LET s == Head(j.processed)
               j2 == [j EXCEPT !.pc = IF s.delivered THEN "recordDelivery" ELSE "log"]
               row == TransactionFor(Head(j.work).group, s.set, s.conformant)
               rows2 == [rows EXCEPT !.transactions = Append(@, row)]
           IN  j2 \in Job /\ rows2 \in Tables /\ RunInv(j2, docs, rows2)
<1> DEFINE s == Head(j.processed)
           j2 == [j EXCEPT !.pc = IF s.delivered THEN "recordDelivery" ELSE "log"]
           g == Head(j.work).group
           row == TransactionFor(g, s.set, s.conformant)
           rows2 == [rows EXCEPT !.transactions = Append(@, row)]
           Row == [group : Nat, set : Nat, state : {"DELIVERED", "REJECTED"}]
           n == Len(rows.transactions)
<1>1. /\ WorkInHand(j) /\ j.pc \in Working /\ j.processed \in Seq(ProcessedSet)
      /\ j.processed # <<>> /\ g \in Nat
  BY JobInHand DEF RunInv, Working, AfterAck, WorkInHand
<1>2. s \in ProcessedSet /\ s \in Elements(j.processed)
  BY <1>1, ElementsTail
<1>3. s.delivered = s.conformant /\ s.conformant \in BOOLEAN /\ s.set \in Nat
  BY <1>1, <1>2 DEF RunInv, ProcessedInHand, ProcessedSet
<1>4. row \in Row /\ rows.transactions \in Seq(Row)
  BY <1>1, <1>3 DEF TransactionFor, Tables
<1> HIDE DEF row, Row
<1>5. /\ Append(rows.transactions, row) \in Seq(Row)
      /\ Len(Append(rows.transactions, row)) = n + 1 /\ n \in Nat
      /\ Append(rows.transactions, row)[n + 1] = row
      /\ DOMAIN rows.transactions = 1..n
      /\ DOMAIN rows.transactions \subseteq DOMAIN Append(rows.transactions, row)
      /\ Prefix(rows.transactions, Append(rows.transactions, row))
  BY <1>4, ElementsAppend, AppendExtends, LenProperties
<1>6. /\ rows2 \in Tables /\ rows2.transactions = Append(rows.transactions, row)
      /\ rows2.acks = rows.acks /\ rows2.dispatches = rows.dispatches
      /\ rows2.deliveries = rows.deliveries /\ rows2.events = rows.events
  BY <1>5 DEF Tables, Row
<1>7. /\ j2 \in Job /\ j2.pc = (IF s.conformant THEN "recordDelivery" ELSE "log")
      /\ j2.processed = j.processed /\ j2.work = j.work /\ j2.ackNo = j.ackNo
      /\ j2.artifact = j.artifact /\ j2.original = j.original
  BY <1>3 DEF Job, Pcs
<1> HIDE DEF j2, rows2, s, n, g
<1>8. WorkInHand(j2)
  BY <1>7 DEF RunInv, WorkInHand, Working, AfterAck
<1>9. ProcessedInHand(j2, docs)
  BY <1>7 DEF RunInv, ProcessedInHand, Working, AfterAck
<1>10. Extends(j, docs, rows, j2, docs, rows2)
  <2>1. Prefix(rows.acks, rows.acks)
    BY DEF Prefix
  <2>2. Len(rows2.transactions) \notin DOMAIN rows.transactions
    BY <1>5, <1>6
  <2> QED BY <1>5, <1>6, <1>7, <2>1, <2>2 DEF Extends
<1>11. PushesPast(j2, docs) /\ AcksPast(j2, docs, rows2.acks) /\ EventsPast(j2, docs, rows2)
  BY <1>6, <1>10, RecordsStayTrue DEF RunInv
<1>12. GroupInHand(j2, rows2)
  <2>1. Elements(rows.deliveries) \subseteq DOMAIN rows.transactions
    BY DEF RunInv, GroupInHand
  <2>2. n + 1 \notin Elements(rows2.deliveries)
    BY <1>5, <1>6, <2>1
  <2>3. \A r \in Elements(j.processed) : AckOf(rows2, j2.ackNo, g, r.set, r.conformant)
    BY <1>6, <1>7 DEF RunInv, GroupInHand, AckOf, AfterAck, g
  <2>4. rows2.transactions[Len(rows2.transactions)] = row /\ Len(rows2.transactions) = n + 1
    BY <1>5, <1>6
  <2>5. j2.pc = "recordDelivery" => s.conformant
    BY <1>7
  <2>6. j2.pc = "log" => ~s.conformant
    BY <1>7
  <2>7. n + 1 # 0 /\ j2.pc # "enqueue"
    BY <1>5, <1>7
  <2>8. Elements(rows2.deliveries) \subseteq DOMAIN rows2.transactions
    BY <1>5, <1>6, <2>1
  <2> QED BY <1>7, <2>2, <2>3, <2>4, <2>5, <2>6, <2>7, <2>8 DEF GroupInHand, s, g, row
<1> QED BY <1>6, <1>7, <1>8, <1>9, <1>11, <1>12 DEF RunInv, j2, rows2, s, g, row

(* The delivery row is of the transaction just stored.                     *)
LEMMA DeliveryRecordedRun ==
    ASSUME NEW j \in Job, NEW docs, NEW rows \in Tables,
           RunInv(j, docs, rows), j.pc = "recordDelivery"
    PROVE  LET j2 == [j EXCEPT !.pc = "log"]
               rows2 == [rows EXCEPT !.deliveries = Append(@, Len(rows.transactions))]
           IN  j2 \in Job /\ rows2 \in Tables /\ RunInv(j2, docs, rows2)
<1> DEFINE j2 == [j EXCEPT !.pc = "log"]
           last == Len(rows.transactions)
           rows2 == [rows EXCEPT !.deliveries = Append(@, last)]
           Row == [group : Nat, set : Nat, state : {"DELIVERED", "REJECTED"}]
           s == Head(j.processed)
           g == Head(j.work).group
<1>1. /\ j2 \in Job /\ j2.pc = "log"
      /\ j2.processed = j.processed /\ j2.work = j.work /\ j2.ackNo = j.ackNo
      /\ j2.artifact = j.artifact /\ j2.original = j.original
  BY DEF Job, Pcs
<1>2. rows.transactions \in Seq(Row) /\ rows.deliveries \in Seq(Nat)
  BY DEF Tables
<1> HIDE DEF Row
<1>3. /\ last \in Nat /\ last # 0 /\ last \in DOMAIN rows.transactions
      /\ rows.transactions[last] = TransactionFor(g, s.set, s.conformant)
      /\ s.conformant /\ last \notin Elements(rows.deliveries)
      /\ Elements(rows.deliveries) \subseteq DOMAIN rows.transactions
  BY <1>2 DEF RunInv, GroupInHand
<1>4. /\ Append(rows.deliveries, last) \in Seq(Nat)
      /\ Elements(Append(rows.deliveries, last)) = Elements(rows.deliveries) \cup {last}
  BY <1>2, <1>3, ElementsAppend
<1>5. /\ rows2 \in Tables /\ rows2.deliveries = Append(rows.deliveries, last)
      /\ rows2.acks = rows.acks /\ rows2.dispatches = rows.dispatches
      /\ rows2.transactions = rows.transactions /\ rows2.events = rows.events
  BY <1>4 DEF Tables
<1> HIDE DEF j2, rows2, s, g
<1>6. WorkInHand(j2) /\ ProcessedInHand(j2, docs)
  BY <1>1 DEF RunInv, WorkInHand, ProcessedInHand, Working, AfterAck
<1>7. Extends(j, docs, rows, j2, docs, rows2)
  <2>1. Prefix(rows.acks, rows.acks) /\ Prefix(rows.transactions, rows.transactions)
    BY DEF Prefix
  <2> QED BY <1>1, <1>4, <1>5, <2>1 DEF Extends
<1>8. PushesPast(j2, docs) /\ AcksPast(j2, docs, rows2.acks) /\ EventsPast(j2, docs, rows2)
  BY <1>5, <1>7, RecordsStayTrue DEF RunInv
<1>9. GroupInHand(j2, rows2)
  <2>1. \A r \in Elements(j.processed) : AckOf(rows2, j2.ackNo, g, r.set, r.conformant)
    BY <1>1, <1>5 DEF RunInv, GroupInHand, AckOf, AfterAck, g
  <2>2. Elements(rows2.deliveries) \subseteq DOMAIN rows2.transactions
    BY <1>3, <1>4, <1>5
  <2>3. last \in Elements(rows2.deliveries) /\ Len(rows2.transactions) = last
    BY <1>4, <1>5
  <2> QED BY <1>1, <1>3, <1>5, <2>1, <2>2, <2>3 DEF GroupInHand, s, g
<1> QED BY <1>1, <1>5, <1>6, <1>8, <1>9 DEF RunInv, j2, rows2

(* The ledger event of the set at the head is what its rows say.           *)
EventFor(j, key) ==
    LET s == Head(j.processed)
        outcome == IF s.conformant THEN "accepted" ELSE "rejected"
    IN  [artifact |-> j.artifact, key |-> key, outcome |-> outcome,
         group |-> Head(j.work).group, set |-> s.set, delivered |-> s.delivered,
         needsReview |-> outcome \in {"rejected", "conflict"}, ackNo |-> j.ackNo,
         original |-> j.original, resolution |-> "open", resolvedTo |-> NoEvent]

LEMMA IsSetNumbers ==
    ASSUME NEW p \in Payloads, NEW g, NEW i, IsSet(p, g, i)
    PROVE  g \in Nat \ {0} /\ i \in Nat \ {0}
<1>1. Groups(p) \in Seq(Group) /\ g \in 1..Len(Groups(p)) /\ Groups(p)[g] \in Group
  BY GroupsType, LenProperties, ElementOfSeq DEF IsSet
<1>2. DOMAIN Groups(p)[g].sets = 1..Len(Groups(p)[g].sets)
  BY <1>1 DEF Group
<1> QED BY <1>1, <1>2 DEF IsSet

LEMMA LoggedRun ==
    ASSUME NEW j \in Job, NEW docs, NEW rows \in Tables, NEW key \in Keys,
           RunInv(j, docs, rows), j.pc = "log"
    PROVE  LET j2 == Continue(j, Tail(j.processed))
               rows2 == [rows EXCEPT !.events = Append(@, EventFor(j, key))]
           IN  /\ j2 \in Job /\ rows2 \in Tables /\ RunInv(j2, docs, rows2)
               /\ EventFor(j, key) \in LedgerRow
               /\ EventStands(j2, docs, rows2, EventFor(j, key))
<1> DEFINE rest == Tail(j.processed)
           j2 == Continue(j, rest)
           e == EventFor(j, key)
           rows2 == [rows EXCEPT !.events = Append(@, e)]
           Row == [group : Nat, set : Nat, state : {"DELIVERED", "REJECTED"}]
           last == Len(rows.transactions)
           s == Head(j.processed)
           g == Head(j.work).group
<1>1. /\ WorkInHand(j) /\ j.pc \in Working /\ j.pc \in AfterAck /\ j.artifact \in Payloads
      /\ j.processed \in Seq(ProcessedSet) /\ j.processed # <<>> /\ g \in Nat
  BY JobInHand DEF RunInv, Working, AfterAck, WorkInHand
<1>2. /\ s \in ProcessedSet /\ s \in Elements(j.processed)
      /\ rest \in Seq(ProcessedSet) /\ Elements(rest) \subseteq Elements(j.processed)
  BY <1>1, ElementsTail
<1>3. /\ s.delivered = s.conformant /\ s.conformant \in BOOLEAN /\ s.set \in Nat
      /\ s.conformant <=> InDocs(docs, g, s.set)
      /\ ~InWork(j.work, g, s.set) /\ IsSet(j.artifact, g, s.set)
  BY <1>1, <1>2 DEF RunInv, ProcessedInHand, ProcessedSet
<1>4. /\ e.artifact = j.artifact /\ e.original = j.original /\ e.group = g /\ e.set = s.set
      /\ e.outcome = (IF s.conformant THEN "accepted" ELSE "rejected")
      /\ e.delivered = s.delivered /\ e.ackNo = j.ackNo
  BY DEF EventFor
<1>5. e \in LedgerRow
  <2>1. j.original \in EventIds \cup {NoEvent} /\ j.ackNo \in Nat
    BY DEF Job
  <2>2. (IF s.conformant THEN "accepted" ELSE "rejected") \in Verdicts \cup {"rejected"}
    BY DEF Verdicts
  <2>3. s.delivered \in BOOLEAN
    BY <1>3
  <2> HIDE DEF s, g
  <2> QED BY <1>1, <1>3, <2>1, <2>2, <2>3 DEF EventFor, LedgerRow, s, g
<1>6. /\ Append(rows.events, e) \in Seq(LedgerRow)
      /\ Elements(Append(rows.events, e)) = Elements(rows.events) \cup {e}
  BY <1>5, ElementsAppend DEF Tables
<1>7. /\ rows2 \in Tables /\ rows2.events = Append(rows.events, e)
      /\ rows2.acks = rows.acks /\ rows2.dispatches = rows.dispatches
      /\ rows2.transactions = rows.transactions /\ rows2.deliveries = rows.deliveries
  BY <1>6 DEF Tables
<1>8. /\ j2 \in Job /\ WorkInHand(j2)
      /\ j2.artifact = j.artifact /\ j2.original = j.original
      /\ \A h, i : InWork(j2.work, h, i) => InWork(j.work, h, i)
      /\ j2.pc \in {"store", "translate", "done", "stamp"}
  BY <1>1, <1>2, ContinuedJob
<1> HIDE DEF e, rows2, j2, s, g, rest
<1>9. Extends(j, docs, rows, j2, docs, rows2)
  <2>1. Prefix(rows.transactions, rows.transactions) /\ Prefix(rows.acks, rows.acks)
    BY DEF Prefix
  <2> QED BY <1>7, <1>8, <2>1 DEF Extends
<1>10. PushesPast(j2, docs) /\ AcksPast(j2, docs, rows2.acks)
  BY <1>7, <1>9, RecordsStayTrue DEF RunInv
<1>11. \A r \in Elements(j.processed) : AckOf(rows2, j.ackNo, g, r.set, r.conformant)
  BY <1>1, <1>7 DEF RunInv, GroupInHand, AckOf, g
<1>12. ProcessedInHand(j2, docs) /\ GroupInHand(j2, rows2)
  <2>1. Elements(rows2.deliveries) \subseteq DOMAIN rows2.transactions
    BY <1>7 DEF RunInv, GroupInHand
  <2>2. \A r \in Elements(rest) : AckOf(rows2, j.ackNo, Head(j.work).group, r.set, r.conformant)
    BY <1>2, <1>11 DEF g
  <2>3. ProcessedInHand(j, docs)
    BY DEF RunInv
  <2> QED BY <1>1, <1>2, <2>1, <2>2, <2>3, ContinuedRun DEF j2
<1>13. EventStands(j2, docs, rows2, e)
  <2>1. /\ e.artifact = j2.artifact /\ IsSet(e.artifact, e.group, e.set)
        /\ ~InWork(j2.work, e.group, e.set)
        /\ e.outcome \in {"accepted", "rejected"}
        /\ e.delivered <=> e.outcome = "accepted"
        /\ e.delivered <=> InDocs(docs, e.group, e.set)
    BY <1>3, <1>4, <1>8
  <2>2. AckOf(rows2, e.ackNo, e.group, e.set, e.outcome = "accepted")
    <3>1. AckOf(rows2, j.ackNo, g, s.set, s.conformant)
      BY <1>2, <1>11
    <3>2. (e.outcome = "accepted") = s.conformant
      BY <1>3, <1>4
    <3> QED BY <1>4, <3>1, <3>2
  <2>3. /\ last \in DOMAIN rows2.transactions
        /\ rows2.transactions[last] = TransactionFor(g, s.set, s.conformant)
        /\ s.conformant <=> last \in Elements(rows2.deliveries)
    <3>1. rows.transactions \in Seq(Row)
      BY DEF Tables
    <3> HIDE DEF Row
    <3>2. last # 0 /\ rows.transactions[last] = TransactionFor(g, s.set, s.conformant)
      BY DEF RunInv, GroupInHand, g, s
    <3>3. s.conformant <=> last \in Elements(rows.deliveries)
      BY DEF RunInv, GroupInHand, s
    <3>4. last \in DOMAIN rows.transactions
      BY <3>1, <3>2
    <3> QED BY <1>7, <3>2, <3>3, <3>4
  <2>4. TransactionFor(e.group, e.set, e.outcome = "accepted") = TransactionFor(g, s.set, s.conformant)
    BY <1>3, <1>4 DEF TransactionFor
  <2>5. /\ rows2.transactions[last] = TransactionFor(e.group, e.set, e.outcome = "accepted")
        /\ e.delivered <=> last \in Elements(rows2.deliveries)
        /\ j2.pc \notin {"recordDelivery", "log"}
    BY <1>3, <1>4, <1>8, <2>3, <2>4
  <2> QED BY <2>1, <2>2, <2>3, <2>5 DEF EventStands
<1>14. EventsPast(j2, docs, rows2)
  <2>1. ASSUME NEW f \in Elements(rows.events)
        PROVE  /\ f.original = j2.original
               /\ f.outcome \in {"accepted", "rejected"} => f.group # 0
               /\ f.group = 0 <=> f.set = 0
               /\ f.group # 0 => EventStands(j2, docs, rows2, f)
    <3>1. /\ f.original = j.original
          /\ f.outcome \in {"accepted", "rejected"} => f.group # 0
          /\ f.group = 0 <=> f.set = 0
          /\ f.group # 0 => EventStands(j, docs, rows, f)
      BY DEF RunInv, EventsPast
    <3> QED BY <1>8, <1>9, <3>1, EventStillStands
  <2>2. e.group # 0 /\ e.set # 0
    BY <1>1, <1>3, <1>4, IsSetNumbers
  <2> QED BY <1>4, <1>6, <1>7, <1>8, <1>13, <2>1, <2>2 DEF EventsPast
<1> QED BY <1>5, <1>7, <1>8, <1>10, <1>12, <1>13, <1>14 DEF RunInv, j2, rows2, e, rest

(* A run starts, has not started, or is refused by the gateway.            *)
StartedJob(p, original, work) ==
    [NoWork EXCEPT !.pc = NextPc(work, original), !.artifact = p,
                   !.original = original, !.work = work]

LEMMA StartedRun ==
    ASSUME NEW p \in Payloads, NEW original \in EventIds \cup {NoEvent},
           NEW work \in Seq(WorkItem), Fits(p, work), EachOnce(work)
    PROVE  LET j2 == StartedJob(p, original, work)
               rows2 == [NoRows EXCEPT !.interchanges = Append(@, p)]
           IN  j2 \in Job /\ rows2 \in Tables /\ RunInv(j2, <<>>, rows2)
<1> DEFINE j2 == StartedJob(p, original, work)
           rows2 == [NoRows EXCEPT !.interchanges = Append(@, p)]
           next == NextPc(work, original)
<1>1. next \in {"translate", "done", "stamp"} /\ (next = "translate" <=> work # <<>>)
  BY DEF NextPc
<1> HIDE DEF next
<1>2. /\ NoWork \in Job /\ NoWork.processed = <<>> /\ NoWork.ackNo = 0
      /\ \A S : <<>> \in Seq(S)
  <2>1. \A S : <<>> \in Seq(S)
    OBVIOUS
  <2> QED BY <2>1 DEF NoWork, Job, Pcs
<1>3. /\ j2 \in Job
      /\ j2.pc = next /\ j2.artifact = p /\ j2.original = original /\ j2.work = work
      /\ j2.processed = <<>> /\ j2.ackNo = 0
  <2>1. next \in Pcs /\ work \in Seq([group : Nat, sets : Seq(Nat)])
    BY <1>1 DEF Pcs, WorkItem
  <2>2. j2 = [NoWork EXCEPT !.pc = next, !.artifact = p, !.original = original, !.work = work]
    BY DEF StartedJob, next
  <2> HIDE DEF j2
  <2> QED BY <1>2, <2>1, <2>2 DEF Job
<1>4. Append(<<>>, p) \in Seq(Payloads)
  OBVIOUS
<1>5. /\ rows2.acks = <<>> /\ rows2.dispatches = <<>> /\ rows2.transactions = <<>>
      /\ rows2.deliveries = <<>> /\ rows2.events = <<>>
  BY DEF NoRows
<1>6. rows2 \in Tables
  <2>1. rows2 = [interchanges |-> Append(<<>>, p), acks |-> <<>>, dispatches |-> <<>>,
                 transactions |-> <<>>, deliveries |-> <<>>, events |-> <<>>]
    BY DEF NoRows
  <2>2. \A S : <<>> \in Seq(S)
    OBVIOUS
  <2> HIDE DEF rows2
  <2> QED BY <1>4, <2>1, <2>2 DEF Tables
<1> HIDE DEF j2, rows2
<1>7. p # NoPayload
  BY PayloadsAssumption
<1>8. WorkInHand(j2)
  BY <1>1, <1>3, <1>7 DEF WorkInHand, Working, AfterAck
<1>9. ProcessedInHand(j2, <<>>) /\ PushesPast(j2, <<>>) /\ AcksPast(j2, <<>>, rows2.acks)
  BY <1>3, <1>5, ElementsEmpty DEF ProcessedInHand, PushesPast, AcksPast
<1>10. GroupInHand(j2, rows2) /\ EventsPast(j2, <<>>, rows2)
  BY <1>1, <1>3, <1>5, ElementsEmpty DEF GroupInHand, EventsPast, AfterAck
<1> QED BY <1>3, <1>6, <1>8, <1>9, <1>10 DEF RunInv, j2, rows2

LEMMA RestingRun ==
    ASSUME NEW j, j.work = <<>>, j.pc \notin Working \cup {"failed"}
    PROVE  /\ RunInv(j, <<>>, NoRows)
           /\ \A rows : /\ rows.acks = <<>> /\ rows.dispatches = <<>>
                        /\ rows.transactions = <<>> /\ rows.deliveries = <<>>
                        /\ \A e \in Elements(rows.events) :
                              /\ e.original = j.original
                              /\ e.outcome \notin {"accepted", "rejected"}
                              /\ e.group = 0 /\ e.set = 0
                        => RunInv(j, <<>>, rows)
<1>1. WorkInHand(j) /\ ProcessedInHand(j, <<>>) /\ PushesPast(j, <<>>)
  BY ElementsEmpty DEF WorkInHand, ProcessedInHand, PushesPast, Fits, EachOnce, Working, AfterAck
<1>2. ASSUME NEW rows, rows.acks = <<>>, rows.deliveries = <<>>,
             \A e \in Elements(rows.events) :
                /\ e.original = j.original
                /\ e.outcome \notin {"accepted", "rejected"}
                /\ e.group = 0 /\ e.set = 0
      PROVE  RunInv(j, <<>>, rows)
  <2>1. AcksPast(j, <<>>, rows.acks) /\ EventsPast(j, <<>>, rows)
    BY <1>2, ElementsEmpty DEF AcksPast, EventsPast
  <2>2. GroupInHand(j, rows)
    BY <1>2, ElementsEmpty DEF GroupInHand, Working, AfterAck
  <2> QED BY <1>1, <2>1, <2>2 DEF RunInv
<1>3. NoRows.acks = <<>> /\ NoRows.deliveries = <<>> /\ Elements(NoRows.events) = {}
  BY ElementsEmpty DEF NoRows
<1> QED BY <1>2, <1>3

(* A run that is over, and whose stamp closes the item.                    *)
LEMMA DoneRun ==
    ASSUME NEW j \in Job, NEW docs, NEW rows, RunInv(j, docs, rows),
           j.pc \in {"dismiss", "stamp"}
    PROVE  LET j2 == [j EXCEPT !.pc = "done"]
           IN  j2 \in Job /\ RunInv(j2, docs, rows)
<1> DEFINE j2 == [j EXCEPT !.pc = "done"]
<1>1. /\ j2 \in Job /\ j2.pc = "done" /\ j2.work = j.work
      /\ j2.artifact = j.artifact /\ j2.original = j.original
  BY DEF Job, Pcs
<1> HIDE DEF j2
<1>2. WorkInHand(j2) /\ ProcessedInHand(j2, docs) /\ GroupInHand(j2, rows)
  BY <1>1 DEF RunInv, WorkInHand, ProcessedInHand, GroupInHand, Working, AfterAck
<1>3. Extends(j, docs, rows, j2, docs, rows)
  BY <1>1 DEF Extends, Prefix
<1>4. PushesPast(j2, docs) /\ AcksPast(j2, docs, rows.acks) /\ EventsPast(j2, docs, rows)
  BY <1>3, RecordsStayTrue DEF RunInv
<1> QED BY <1>1, <1>2, <1>4 DEF RunInv, j2

(* Closing an item changes its resolution and nothing that it reports.     *)
ClosedRow(e, resolution, resolvedTo) ==
    [e EXCEPT !.resolution = resolution, !.resolvedTo = resolvedTo]

ClosedIn(rows, n, resolution, resolvedTo) ==
    [rows EXCEPT !.events =
        [rows.events EXCEPT ![n] = ClosedRow(rows.events[n], resolution, resolvedTo)]]

LEMMA ClosedRowType ==
    ASSUME NEW e \in LedgerRow, NEW resolution \in {"dismissed", "reprocessed"},
           NEW resolvedTo \in EventIds \cup {NoEvent}
    PROVE  LET d == ClosedRow(e, resolution, resolvedTo)
           IN  /\ d \in LedgerRow
               /\ d.artifact = e.artifact /\ d.outcome = e.outcome /\ d.group = e.group
               /\ d.set = e.set /\ d.delivered = e.delivered /\ d.ackNo = e.ackNo
               /\ d.original = e.original /\ d.needsReview = e.needsReview
               /\ d.resolution = resolution /\ d.resolvedTo = resolvedTo
BY DEF ClosedRow, LedgerRow

LEMMA ClosedRows ==
    ASSUME NEW rows \in Tables, NEW n \in DOMAIN rows.events,
           NEW resolution \in {"dismissed", "reprocessed"},
           NEW resolvedTo \in EventIds \cup {NoEvent}
    PROVE  LET rows2 == ClosedIn(rows, n, resolution, resolvedTo)
           IN  /\ rows2 \in Tables
               /\ rows2.acks = rows.acks /\ rows2.dispatches = rows.dispatches
               /\ rows2.transactions = rows.transactions
               /\ rows2.deliveries = rows.deliveries
               /\ DOMAIN rows2.events = DOMAIN rows.events
               /\ rows2.events[n] = ClosedRow(rows.events[n], resolution, resolvedTo)
               /\ \A m \in DOMAIN rows.events : m # n => rows2.events[m] = rows.events[m]
               /\ Len(rows2.events) = Len(rows.events)
<1> DEFINE row == ClosedRow(rows.events[n], resolution, resolvedTo)
           events2 == [rows.events EXCEPT ![n] = row]
           rows2 == ClosedIn(rows, n, resolution, resolvedTo)
<1>1. rows.events \in Seq(LedgerRow) /\ n \in 1..Len(rows.events)
  BY DEF Tables
<1>2. row \in LedgerRow
  BY <1>1, ClosedRowType, ElementOfSeq
<1> HIDE DEF row
<1>3. /\ events2 \in Seq(LedgerRow) /\ Len(events2) = Len(rows.events)
      /\ DOMAIN events2 = DOMAIN rows.events
      /\ events2[n] = row
      /\ \A m \in DOMAIN rows.events : m # n => events2[m] = rows.events[m]
  BY <1>1, <1>2, ExceptSeq
<1>4. rows2 = [rows EXCEPT !.events = events2]
  BY DEF ClosedIn, row
<1> HIDE DEF events2, rows2
<1>5. /\ rows2 \in Tables /\ rows2.events = events2
      /\ rows2.acks = rows.acks /\ rows2.dispatches = rows.dispatches
      /\ rows2.transactions = rows.transactions /\ rows2.deliveries = rows.deliveries
  BY <1>3, <1>4 DEF Tables
<1> QED BY <1>3, <1>5 DEF row, rows2

LEMMA ClosedRun ==
    ASSUME NEW j, NEW docs, NEW rows \in Tables, NEW n \in DOMAIN rows.events,
           NEW resolution \in {"dismissed", "reprocessed"},
           NEW resolvedTo \in EventIds \cup {NoEvent}, RunInv(j, docs, rows)
    PROVE  RunInv(j, docs, ClosedIn(rows, n, resolution, resolvedTo))
<1> DEFINE rows2 == ClosedIn(rows, n, resolution, resolvedTo)
<1>1. /\ rows2.acks = rows.acks /\ rows2.dispatches = rows.dispatches
      /\ rows2.transactions = rows.transactions /\ rows2.deliveries = rows.deliveries
      /\ DOMAIN rows2.events = DOMAIN rows.events
      /\ rows2.events[n] = ClosedRow(rows.events[n], resolution, resolvedTo)
      /\ \A m \in DOMAIN rows.events : m # n => rows2.events[m] = rows.events[m]
      /\ \A m \in DOMAIN rows.events : rows.events[m] \in LedgerRow
  <2>1. rows.events \in Seq(LedgerRow)
    BY DEF Tables
  <2>2. \A m \in DOMAIN rows.events : rows.events[m] \in LedgerRow
    BY <2>1
  <2> QED BY <2>2, ClosedRows
<1> HIDE DEF rows2
<1>2. GroupInHand(j, rows2) /\ AcksPast(j, docs, rows2.acks)
  BY <1>1 DEF RunInv, GroupInHand, AckOf
<1>3. ASSUME NEW d \in Elements(rows2.events)
      PROVE  \E e \in Elements(rows.events) :
                /\ d.artifact = e.artifact /\ d.outcome = e.outcome /\ d.group = e.group
                /\ d.set = e.set /\ d.delivered = e.delivered /\ d.ackNo = e.ackNo
                /\ d.original = e.original
  <2>1. PICK m \in DOMAIN rows.events : d = rows2.events[m]
    BY <1>1 DEF Elements
  <2>2. rows.events[m] \in Elements(rows.events)
    BY DEF Elements
  <2>3. CASE m = n
    BY <1>1, <2>1, <2>2, <2>3, ClosedRowType
  <2>4. CASE m # n
    BY <1>1, <2>1, <2>2, <2>4
  <2> QED BY <2>3, <2>4
<1>4. EventsPast(j, docs, rows2)
  <2> SUFFICES ASSUME NEW d \in Elements(rows2.events)
               PROVE  /\ d.original = j.original
                      /\ d.outcome \in {"accepted", "rejected"} => d.group # 0
                      /\ d.group = 0 <=> d.set = 0
                      /\ d.group # 0 => EventStands(j, docs, rows2, d)
    BY DEF EventsPast
  <2>1. PICK e \in Elements(rows.events) :
                /\ d.artifact = e.artifact /\ d.outcome = e.outcome /\ d.group = e.group
                /\ d.set = e.set /\ d.delivered = e.delivered /\ d.ackNo = e.ackNo
                /\ d.original = e.original
    BY <1>3
  <2>2. /\ e.original = j.original
        /\ e.outcome \in {"accepted", "rejected"} => e.group # 0
        /\ e.group = 0 <=> e.set = 0
        /\ e.group # 0 => EventStands(j, docs, rows, e)
    BY DEF RunInv, EventsPast
  <2>3. EventStands(j, docs, rows, e) => EventStands(j, docs, rows2, d)
    BY <1>1, <2>1 DEF EventStands, AckOf
  <2> QED BY <2>1, <2>2, <2>3
<1> QED BY <1>2, <1>4 DEF RunInv, rows2

-------------------------------------------------------------------------------
(***************************************************************************)
(* The moves of a run, as what they do to its job, its documents and rows. *)
(* Every handler step but the closing of an item is one of them.           *)
(***************************************************************************)
Takes(j, docs, rows, j2, docs2, rows2) ==
    /\ j.pc = "translate" /\ Head(j.work).sets # <<>>
    /\ \E c \in BOOLEAN :
          /\ j2 = Taken(j, c)
          /\ docs2 = IF c THEN Append(docs, DocInHand(j)) ELSE docs
    /\ rows2 = rows

Fails(j, docs, rows, j2, docs2, rows2) ==
    /\ j.pc = "translate"
    /\ j2 = [j EXCEPT !.pc = "failed"]
    /\ docs2 = docs /\ rows2 = rows

DrawsAck(j, docs, rows, j2, docs2, rows2) ==
    /\ j.pc = "translate" /\ Head(j.work).sets = <<>>
    /\ \E n \in Nat : j2 = [j EXCEPT !.pc = "saveAck", !.ackNo = n]
    /\ docs2 = docs /\ rows2 = rows

SavesAck(j, docs, rows, j2, docs2, rows2) ==
    /\ j.pc = "saveAck"
    /\ j2 = [j EXCEPT !.pc = "enqueue"]
    /\ docs2 = docs
    /\ rows2 = [rows EXCEPT !.acks = Append(@, AckFor(j))]

Queues(j, docs, rows, j2, docs2, rows2) ==
    /\ j.pc = "enqueue"
    /\ j2 = Continue(j, j.processed)
    /\ docs2 = docs
    /\ rows2 = [rows EXCEPT !.dispatches = Append(@, Len(rows.acks))]

Stores(j, docs, rows, j2, docs2, rows2) ==
    LET s == Head(j.processed)
        row == TransactionFor(Head(j.work).group, s.set, s.conformant)
    IN  /\ j.pc = "store"
        /\ j2 = [j EXCEPT !.pc = IF s.delivered THEN "recordDelivery" ELSE "log"]
        /\ docs2 = docs
        /\ rows2 = [rows EXCEPT !.transactions = Append(@, row)]

RecordsDelivery(j, docs, rows, j2, docs2, rows2) ==
    /\ j.pc = "recordDelivery"
    /\ j2 = [j EXCEPT !.pc = "log"]
    /\ docs2 = docs
    /\ rows2 = [rows EXCEPT !.deliveries = Append(@, Len(rows.transactions))]

Logs(j, docs, rows, j2, docs2, rows2) ==
    /\ j.pc = "log"
    /\ j2 = Continue(j, Tail(j.processed))
    /\ docs2 = docs
    /\ \E key \in Keys : rows2 = [rows EXCEPT !.events = Append(@, EventFor(j, key))]

Starts(j, docs, rows, j2, docs2, rows2) ==
    /\ j.pc \in {"idle", "reprocess"}
    /\ docs = <<>> /\ rows = NoRows
    /\ \E p \in Payloads, work \in Seq(WorkItem) :
          /\ Fits(p, work) /\ EachOnce(work)
          /\ j.original = NoEvent => work = WholeInterchange(p)
          /\ j2 = StartedJob(p, j.original, work)
          /\ rows2 = [NoRows EXCEPT !.interchanges = Append(@, p)]
    /\ docs2 = docs

Refused(j, docs, rows, j2, docs2, rows2) ==
    /\ j = NoWork /\ docs = <<>> /\ rows = NoRows
    /\ j2 = [NoWork EXCEPT !.pc = "done"]
    /\ docs2 = docs
    /\ \E e \in LedgerRow :
          /\ e.original = NoEvent /\ e.outcome \in {"duplicate", "conflict"}
          /\ e.group = 0 /\ e.set = 0
          /\ e.resolution = "open" /\ e.resolvedTo = NoEvent
          /\ rows2 = [NoRows EXCEPT !.events = Append(@, e)]

Asked(j, docs, rows, j2, docs2, rows2) ==
    /\ j = NoWork /\ docs = <<>> /\ rows = NoRows
    /\ \E pc \in {"dismiss", "reprocess"}, id \in EventIds :
          j2 = [NoWork EXCEPT !.pc = pc, !.original = id]
    /\ docs2 = docs /\ rows2 = rows

WorkMove(j, docs, rows, j2, docs2, rows2) ==
    \/ Takes(j, docs, rows, j2, docs2, rows2)
    \/ Fails(j, docs, rows, j2, docs2, rows2)
    \/ DrawsAck(j, docs, rows, j2, docs2, rows2)
    \/ SavesAck(j, docs, rows, j2, docs2, rows2)
    \/ Queues(j, docs, rows, j2, docs2, rows2)
    \/ Stores(j, docs, rows, j2, docs2, rows2)
    \/ RecordsDelivery(j, docs, rows, j2, docs2, rows2)
    \/ Logs(j, docs, rows, j2, docs2, rows2)

RunMove(j, docs, rows, j2, docs2, rows2) ==
    \/ WorkMove(j, docs, rows, j2, docs2, rows2)
    \/ Starts(j, docs, rows, j2, docs2, rows2)
    \/ Refused(j, docs, rows, j2, docs2, rows2)
    \/ Asked(j, docs, rows, j2, docs2, rows2)

LEMMA NoWorkType ==
    /\ NoWork \in Job /\ NoWork.work = <<>> /\ NoWork.pc = "idle"
    /\ NoWork.original = NoEvent /\ NoWork.artifact = NoPayload
    /\ NoRows \in Tables /\ NoRows.acks = <<>> /\ NoRows.dispatches = <<>>
    /\ NoRows.transactions = <<>> /\ NoRows.deliveries = <<>> /\ NoRows.events = <<>>
<1>1. \A S : <<>> \in Seq(S)
  OBVIOUS
<1> QED BY <1>1 DEF NoWork, Job, Pcs, NoRows, Tables

(* Every move of a run keeps its types and its invariant.                  *)
LEMMA RunMoveKeeps ==
    ASSUME NEW j \in Job, NEW docs \in Seq(Doc), NEW rows \in Tables,
           NEW j2, NEW docs2, NEW rows2,
           RunInv(j, docs, rows), RunMove(j, docs, rows, j2, docs2, rows2)
    PROVE  /\ j2 \in Job /\ docs2 \in Seq(Doc) /\ rows2 \in Tables
           /\ RunInv(j2, docs2, rows2)
<1>1. CASE Takes(j, docs, rows, j2, docs2, rows2)
  <2>1. PICK c \in BOOLEAN :
           /\ j2 = Taken(j, c)
           /\ docs2 = IF c THEN Append(docs, DocInHand(j)) ELSE docs
    BY <1>1 DEF Takes
  <2>2. rows2 = rows /\ j.pc = "translate" /\ Head(j.work).sets # <<>>
    BY <1>1 DEF Takes
  <2> DEFINE taken == IF c THEN Append(docs, DocInHand(j)) ELSE docs
  <2>3. /\ Taken(j, c) \in Job /\ taken \in Seq(Doc)
        /\ RunInv(Taken(j, c), taken, rows)
    BY <2>2, TakenRun
  <2>4. j2 = Taken(j, c) /\ docs2 = taken /\ rows2 = rows
    BY <2>1, <2>2
  <2> HIDE DEF taken
  <2>5. j2 \in Job /\ docs2 \in Seq(Doc) /\ rows2 \in Tables
    BY <2>3, <2>4
  <2>6. RunInv(j2, docs2, rows2)
    BY ONLY <2>3, <2>4
  <2> QED BY <2>5, <2>6
<1>2. CASE Fails(j, docs, rows, j2, docs2, rows2)
  <2>1. j.pc = "translate" /\ j2 = [j EXCEPT !.pc = "failed"] /\ docs2 = docs /\ rows2 = rows
    BY <1>2 DEF Fails
  <2> QED BY <2>1, FailedRun
<1>3. CASE DrawsAck(j, docs, rows, j2, docs2, rows2)
  <2>1. PICK n \in Nat : j2 = [j EXCEPT !.pc = "saveAck", !.ackNo = n]
    BY <1>3 DEF DrawsAck
  <2>2. j.pc = "translate" /\ Head(j.work).sets = <<>> /\ docs2 = docs /\ rows2 = rows
    BY <1>3 DEF DrawsAck
  <2>3. j2 \in Job /\ RunInv(j2, docs, rows)
    BY <2>1, <2>2, AckDrawnRun
  <2> QED BY <2>2, <2>3
<1>4. CASE SavesAck(j, docs, rows, j2, docs2, rows2)
  <2>1. /\ j.pc = "saveAck" /\ j2 = [j EXCEPT !.pc = "enqueue"] /\ docs2 = docs
        /\ rows2 = [rows EXCEPT !.acks = Append(@, AckFor(j))]
    BY <1>4 DEF SavesAck
  <2>2. j2 \in Job /\ rows2 \in Tables /\ RunInv(j2, docs, rows2)
    BY <2>1, AckSavedRun
  <2> QED BY <2>1, <2>2
<1>5. CASE Queues(j, docs, rows, j2, docs2, rows2)
  <2>1. /\ j.pc = "enqueue" /\ j2 = Continue(j, j.processed) /\ docs2 = docs
        /\ rows2 = [rows EXCEPT !.dispatches = Append(@, Len(rows.acks))]
    BY <1>5 DEF Queues
  <2>2. j2 \in Job /\ rows2 \in Tables /\ RunInv(j2, docs, rows2)
    BY <2>1, QueuedRun
  <2> QED BY <2>1, <2>2
<1>6. CASE Stores(j, docs, rows, j2, docs2, rows2)
  <2> DEFINE s == Head(j.processed)
             row == TransactionFor(Head(j.work).group, s.set, s.conformant)
  <2>1. /\ j.pc = "store" /\ docs2 = docs
        /\ j2 = [j EXCEPT !.pc = IF s.delivered THEN "recordDelivery" ELSE "log"]
        /\ rows2 = [rows EXCEPT !.transactions = Append(@, row)]
    BY <1>6 DEF Stores
  <2>2. j2 \in Job /\ rows2 \in Tables /\ RunInv(j2, docs, rows2)
    BY <2>1, StoredRun
  <2> QED BY <2>1, <2>2
<1>7. CASE RecordsDelivery(j, docs, rows, j2, docs2, rows2)
  <2>1. /\ j.pc = "recordDelivery" /\ j2 = [j EXCEPT !.pc = "log"] /\ docs2 = docs
        /\ rows2 = [rows EXCEPT !.deliveries = Append(@, Len(rows.transactions))]
    BY <1>7 DEF RecordsDelivery
  <2>2. j2 \in Job /\ rows2 \in Tables /\ RunInv(j2, docs, rows2)
    BY <2>1, DeliveryRecordedRun
  <2> QED BY <2>1, <2>2
<1>8. CASE Logs(j, docs, rows, j2, docs2, rows2)
  <2>1. PICK key \in Keys : rows2 = [rows EXCEPT !.events = Append(@, EventFor(j, key))]
    BY <1>8 DEF Logs
  <2>2. j2 = Continue(j, Tail(j.processed)) /\ docs2 = docs /\ j.pc = "log"
    BY <1>8 DEF Logs
  <2>3. j2 \in Job /\ rows2 \in Tables /\ RunInv(j2, docs, rows2)
    BY <2>1, <2>2, LoggedRun
  <2> QED BY <2>2, <2>3
<1>9. CASE Starts(j, docs, rows, j2, docs2, rows2)
  <2>1. j.original \in EventIds \cup {NoEvent}
    BY DEF Job
  <2>2. PICK p \in Payloads, work \in Seq(WorkItem) :
           /\ Fits(p, work) /\ EachOnce(work)
           /\ j2 = StartedJob(p, j.original, work)
           /\ rows2 = [NoRows EXCEPT !.interchanges = Append(@, p)]
    BY <1>9 DEF Starts
  <2>3. docs2 = <<>>
    BY <1>9 DEF Starts
  <2> DEFINE fresh == [NoRows EXCEPT !.interchanges = Append(@, p)]
  <2>4. /\ StartedJob(p, j.original, work) \in Job /\ fresh \in Tables
        /\ RunInv(StartedJob(p, j.original, work), <<>>, fresh)
    BY <2>1, <2>2, StartedRun
  <2>5. rows2 = fresh /\ docs2 \in Seq(Doc)
    BY <2>2, <2>3
  <2> HIDE DEF fresh
  <2> QED BY <2>2, <2>3, <2>4, <2>5
<1>10. CASE Refused(j, docs, rows, j2, docs2, rows2)
  <2>1. PICK e \in LedgerRow :
           /\ e.original = NoEvent /\ e.outcome \in {"duplicate", "conflict"}
           /\ e.group = 0 /\ e.set = 0
           /\ rows2 = [NoRows EXCEPT !.events = Append(@, e)]
    BY <1>10 DEF Refused
  <2>2. Append(<<>>, e) \in Seq(LedgerRow) /\ Elements(Append(<<>>, e)) = {e}
    <3>1. \A S : <<>> \in Seq(S)
      OBVIOUS
    <3>2. /\ Append(<<>>, e) \in Seq(LedgerRow)
          /\ Elements(Append(<<>>, e)) = Elements(<<>>) \cup {e}
      BY <3>1, ElementsAppend
    <3> QED BY <3>2, ElementsEmpty
  <2>3. /\ rows2 \in Tables /\ rows2.events = Append(<<>>, e)
        /\ rows2.acks = <<>> /\ rows2.dispatches = <<>>
        /\ rows2.transactions = <<>> /\ rows2.deliveries = <<>>
    BY <2>1, <2>2, NoWorkType DEF Tables
  <2>4. j2 \in Job /\ j2.pc = "done" /\ j2.work = <<>> /\ j2.original = NoEvent
    <3>1. j2 = [NoWork EXCEPT !.pc = "done"] /\ "done" \in Pcs
      BY <1>10 DEF Refused, Pcs
    <3> QED BY <3>1, NoWorkType DEF Job
  <2>5. docs2 = <<>> /\ docs2 \in Seq(Doc)
    BY <1>10 DEF Refused
  <2>6. j2.pc \notin Working \cup {"failed"}
    BY <2>4 DEF Working, AfterAck
  <2> HIDE <1>10
  <2> QED BY <2>1, <2>2, <2>3, <2>4, <2>5, <2>6, RestingRun
<1>11. CASE Asked(j, docs, rows, j2, docs2, rows2)
  <2>1. PICK pc \in {"dismiss", "reprocess"}, id \in EventIds :
          j2 = [NoWork EXCEPT !.pc = pc, !.original = id]
    BY <1>11 DEF Asked
  <2>2. j2 \in Job /\ j2.pc = pc /\ j2.work = <<>>
    <3>1. pc \in Pcs
      BY DEF Pcs
    <3> QED BY <2>1, <3>1, NoWorkType DEF Job
  <2>3. docs2 = <<>> /\ docs2 \in Seq(Doc) /\ rows2 = NoRows
    BY <1>11 DEF Asked
  <2>4. j2.pc \notin Working \cup {"failed"}
    BY <2>2 DEF Working, AfterAck
  <2> QED BY <2>2, <2>3, <2>4, RestingRun, NoWorkType
<1> QED BY <1>1, <1>2, <1>3, <1>4, <1>5, <1>6, <1>7, <1>8, <1>9, <1>10, <1>11
   DEF RunMove, WorkMove

(* What a working step leaves: the run it belongs to, and what it logged.  *)
LEMMA WorkMoves ==
    ASSUME NEW j \in Job, NEW docs, NEW rows \in Tables, NEW j2, NEW docs2, NEW rows2,
           RunInv(j, docs, rows), WorkMove(j, docs, rows, j2, docs2, rows2)
    PROVE  /\ j.pc \in Working
           /\ j2.artifact = j.artifact /\ j2.original = j.original
           /\ j2.pc \in Working \cup {"failed", "done", "stamp"}
           /\ j2.pc = "stamp" => j.original # NoEvent
           /\ \/ rows2.events = rows.events
              \/ j.pc = "log" /\ \E key \in Keys : rows2.events = Append(rows.events, EventFor(j, key))
<1> USE DEF Working, AfterAck
<1>1. CASE Takes(j, docs, rows, j2, docs2, rows2)
  <2>1. PICK c \in BOOLEAN : j2 = Taken(j, c)
    BY <1>1 DEF Takes
  <2>2. j2.artifact = j.artifact /\ j2.original = j.original /\ j2.pc = j.pc
    BY <2>1 DEF Taken, Job
  <2> QED BY <1>1, <2>2 DEF Takes
<1>2. CASE Fails(j, docs, rows, j2, docs2, rows2)
  BY <1>2 DEF Fails, Job
<1>3. CASE DrawsAck(j, docs, rows, j2, docs2, rows2)
  BY <1>3 DEF DrawsAck, Job
<1>4. CASE SavesAck(j, docs, rows, j2, docs2, rows2)
  BY <1>4 DEF SavesAck, Job, Tables
<1>5. CASE Queues(j, docs, rows, j2, docs2, rows2)
  <2>1. /\ j.pc = "enqueue" /\ j2 = Continue(j, j.processed)
        /\ rows2 = [rows EXCEPT !.dispatches = Append(@, Len(rows.acks))]
    BY <1>5 DEF Queues
  <2>2. j.processed \in Seq(ProcessedSet) /\ WorkInHand(j)
    BY DEF Job, RunInv
  <2>3. /\ j2.artifact = j.artifact /\ j2.original = j.original
        /\ j2.pc \in {"store", "translate", "done", "stamp"}
        /\ j2.pc = "stamp" => j.original # NoEvent
    BY <2>1, <2>2, ContinuedJob
  <2>4. rows2.events = rows.events
    BY <2>1 DEF Tables
  <2> QED BY <2>1, <2>3, <2>4
<1>6. CASE Stores(j, docs, rows, j2, docs2, rows2)
  BY <1>6 DEF Stores, Job, Tables
<1>7. CASE RecordsDelivery(j, docs, rows, j2, docs2, rows2)
  BY <1>7 DEF RecordsDelivery, Job, Tables
<1>8. CASE Logs(j, docs, rows, j2, docs2, rows2)
  <2>1. PICK key \in Keys : rows2 = [rows EXCEPT !.events = Append(@, EventFor(j, key))]
    BY <1>8 DEF Logs
  <2>2. j.pc = "log" /\ j2 = Continue(j, Tail(j.processed))
    BY <1>8 DEF Logs
  <2>3. Tail(j.processed) \in Seq(ProcessedSet) /\ WorkInHand(j)
    <3>1. j.processed \in Seq(ProcessedSet) /\ j.processed # <<>> /\ WorkInHand(j)
      BY <2>2 DEF Job, RunInv, WorkInHand
    <3> QED BY <3>1, ElementsTail
  <2>4. /\ j2.artifact = j.artifact /\ j2.original = j.original
        /\ j2.pc \in {"store", "translate", "done", "stamp"}
        /\ j2.pc = "stamp" => j.original # NoEvent
    BY <2>2, <2>3, ContinuedJob
  <2>5. rows2.events = Append(rows.events, EventFor(j, key))
    BY <2>1 DEF Tables
  <2> QED BY <2>2, <2>4, <2>5
<1> QED BY <1>1, <1>2, <1>3, <1>4, <1>5, <1>6, <1>7, <1>8 DEF WorkMove

-------------------------------------------------------------------------------
(***************************************************************************)
(* The steps of the specification as moves.                                *)
(***************************************************************************)
Moved(h, j2, docs2, rows2) ==
    /\ job' = [job EXCEPT ![h] = j2]
    /\ pushed' = [pushed EXCEPT ![h] = docs2]
    /\ tables' = [tables EXCEPT ![h] = rows2]

MoveOf(h) ==
    \E j2, docs2, rows2 :
        /\ Moved(h, j2, docs2, rows2)
        /\ RunMove(job[h], pushed[h], tables[h], j2, docs2, rows2)

Works(h) ==
    /\ UNCHANGED intakeVars
    /\ control' \in Nat
    /\ \E j2, docs2, rows2 :
          /\ Moved(h, j2, docs2, rows2)
          /\ WorkMove(job[h], pushed[h], tables[h], j2, docs2, rows2)

LEMMA RowInserted ==
    ASSUME tables \in [Handlers -> Tables], NEW h \in Handlers, NEW row
    PROVE  /\ InsertRow(h, "interchanges", row) => tables' =
                [tables EXCEPT ![h] = [tables[h] EXCEPT !.interchanges = Append(@, row)]]
           /\ InsertRow(h, "acks", row) => tables' =
                [tables EXCEPT ![h] = [tables[h] EXCEPT !.acks = Append(@, row)]]
           /\ InsertRow(h, "dispatches", row) => tables' =
                [tables EXCEPT ![h] = [tables[h] EXCEPT !.dispatches = Append(@, row)]]
           /\ InsertRow(h, "transactions", row) => tables' =
                [tables EXCEPT ![h] = [tables[h] EXCEPT !.transactions = Append(@, row)]]
           /\ InsertRow(h, "deliveries", row) => tables' =
                [tables EXCEPT ![h] = [tables[h] EXCEPT !.deliveries = Append(@, row)]]
           /\ InsertRow(h, "events", row) => tables' =
                [tables EXCEPT ![h] = [tables[h] EXCEPT !.events = Append(@, row)]]
<1>1. tables[h] \in Tables
  OBVIOUS
<1> QED BY <1>1, Inserted DEF InsertRow

(* What translating a set does to the run.                                 *)
LEMMA ProcessedTakes ==
    ASSUME job \in [Handlers -> Job], NEW h \in Handlers, NEW c, Processed(h, c)
    PROVE  job' = [job EXCEPT ![h] = Taken(job[h], c)]
<1> DEFINE j == job[h]
           w == TakeSet(j.work)
           q == Append(j.processed, [set |-> NextSet(h), conformant |-> c, delivered |-> c])
<1>1. j \in Job
  OBVIOUS
<1>2. job' = [job EXCEPT ![h].work = w, ![h].processed = q]
  BY <1>1 DEF Processed, TakeSet, GroupOf, Job
<1>3. Taken(j, c) = [j EXCEPT !.work = w, !.processed = q]
  BY <1>1 DEF Taken, NextSet, Job
<1> HIDE DEF w, q
<1>4. job' = [job EXCEPT ![h] = [j EXCEPT !.work = w, !.processed = q]]
  BY <1>1, <1>2 DEF Job
<1> QED BY <1>3, <1>4

(* Every step of processInterchange is a working step of its run.          *)
LEMMA ProcessStepWorks ==
    ASSUME PipelineTypeOK, NEW h \in Handlers, WorkInHand(job[h]), ProcessStep(h)
    PROVE  Works(h)
<1> DEFINE j == job[h]
           rows == tables[h]
           docs == pushed[h]
<1>1. /\ j \in Job /\ rows \in Tables /\ docs \in Seq(Doc) /\ control \in Nat
      /\ job \in [Handlers -> Job] /\ tables \in [Handlers -> Tables]
      /\ pushed \in [Handlers -> Seq(Doc)]
      /\ pushed = [pushed EXCEPT ![h] = docs] /\ tables = [tables EXCEPT ![h] = rows]
  BY DEF PipelineTypeOK, Doc
<1>2. CASE Deliver(h)
  <2>1. /\ j.pc = "translate" /\ Head(j.work).sets # <<>>
        /\ UNCHANGED <<intakeVars, tables, control>>
    BY <1>2 DEF Deliver, Translating, At
  <2>2. job' = [job EXCEPT ![h] = Taken(j, TRUE)]
    BY <1>1, <1>2, ProcessedTakes DEF Deliver
  <2>3. pushed' = [pushed EXCEPT ![h] = Append(docs, DocInHand(j))]
    BY <1>1, <1>2 DEF Deliver, DocInHand, GroupOf, NextSet
  <2>4. Takes(j, docs, rows, Taken(j, TRUE), Append(docs, DocInHand(j)), rows)
    BY <2>1 DEF Takes
  <2> QED BY <1>1, <2>1, <2>2, <2>3, <2>4 DEF Works, Moved, WorkMove
<1>3. CASE Reject(h)
  <2>1. /\ j.pc = "translate" /\ Head(j.work).sets # <<>>
        /\ UNCHANGED <<intakeVars, pushed, tables, control>>
    BY <1>3 DEF Reject, Translating, At
  <2>2. job' = [job EXCEPT ![h] = Taken(j, FALSE)]
    BY <1>1, <1>3, ProcessedTakes DEF Reject
  <2>3. Takes(j, docs, rows, Taken(j, FALSE), docs, rows)
    BY <2>1 DEF Takes
  <2> QED BY <1>1, <2>1, <2>2, <2>3 DEF Works, Moved, WorkMove
<1>4. CASE TranslateThrows(h) \/ BuildAckThrows(h)
  <2> DEFINE j2 == [j EXCEPT !.pc = "failed"]
  <2>1. j.pc = "translate" /\ UNCHANGED <<intakeVars, pushed, tables, control>>
    BY <1>4 DEF TranslateThrows, BuildAckThrows, Translating, GroupTranslated, At
  <2>2. job' = [job EXCEPT ![h] = j2]
    BY <1>1, <1>4 DEF TranslateThrows, BuildAckThrows
  <2>3. Fails(j, docs, rows, j2, docs, rows)
    BY <2>1 DEF Fails
  <2> QED BY <1>1, <2>1, <2>2, <2>3 DEF Works, Moved, WorkMove
<1>5. CASE BuildAck(h)
  <2> DEFINE j2 == [j EXCEPT !.pc = "saveAck", !.ackNo = control + 1]
  <2>1. /\ j.pc = "translate" /\ Head(j.work).sets = <<>> /\ control' = control + 1
        /\ UNCHANGED <<intakeVars, pushed, tables>>
    BY <1>5 DEF BuildAck, GroupTranslated, At
  <2>2. job' = [job EXCEPT ![h] = j2]
    BY <1>1, <1>5 DEF BuildAck
  <2>3. control + 1 \in Nat
    BY <1>1
  <2>4. DrawsAck(j, docs, rows, j2, docs, rows)
    BY <2>1, <2>3 DEF DrawsAck
  <2>5. control' \in Nat
    BY <2>1, <2>3
  <2> HIDE DEF j2
  <2> QED BY <1>1, <2>1, <2>2, <2>4, <2>5 DEF Works, Moved, WorkMove
<1>6. CASE SaveAck(h)
  <2> DEFINE j2 == [j EXCEPT !.pc = "enqueue"]
             rows2 == [rows EXCEPT !.acks = Append(@, AckFor(j))]
  <2>1. j.pc = "saveAck" /\ UNCHANGED <<intakeVars, pushed, control>>
    BY <1>6 DEF SaveAck, At
  <2>2. job' = [job EXCEPT ![h] = j2]
    BY <1>1, <1>6 DEF SaveAck
  <2>3. InsertRow(h, "acks", AckFor(j))
    BY <1>6 DEF SaveAck, AckFor, GroupOf
  <2>4. tables' = [tables EXCEPT ![h] = rows2]
    BY <1>1, <2>3, RowInserted
  <2>5. SavesAck(j, docs, rows, j2, docs, rows2)
    BY <2>1 DEF SavesAck
  <2> QED BY <1>1, <2>1, <2>2, <2>4, <2>5 DEF Works, Moved, WorkMove
<1>7. CASE EnqueueDispatch(h)
  <2> DEFINE j2 == Continue(j, j.processed)
             rows2 == [rows EXCEPT !.dispatches = Append(@, Len(rows.acks))]
  <2>1. j.pc = "enqueue" /\ UNCHANGED <<intakeVars, pushed, control>>
    BY <1>7 DEF EnqueueDispatch, At
  <2>2. job' = [job EXCEPT ![h] = j2]
    BY <1>1, <1>7 DEF EnqueueDispatch
  <2>3. InsertRow(h, "dispatches", Len(rows.acks))
    BY <1>7 DEF EnqueueDispatch
  <2>4. tables' = [tables EXCEPT ![h] = rows2]
    BY <1>1, <2>3, RowInserted
  <2>5. Queues(j, docs, rows, j2, docs, rows2)
    BY <2>1 DEF Queues
  <2> QED BY <1>1, <2>1, <2>2, <2>4, <2>5 DEF Works, Moved, WorkMove
<1>8. CASE SaveTransaction(h)
  <2> DEFINE s == Head(j.processed)
             row == TransactionFor(Head(j.work).group, s.set, s.conformant)
             j2 == [j EXCEPT !.pc = IF s.delivered THEN "recordDelivery" ELSE "log"]
             rows2 == [rows EXCEPT !.transactions = Append(@, row)]
  <2>1. j.pc = "store" /\ UNCHANGED <<intakeVars, pushed, control>>
    BY <1>8 DEF SaveTransaction, At
  <2>2. job' = [job EXCEPT ![h] = j2]
    BY <1>1, <1>8 DEF SaveTransaction
  <2>3. InsertRow(h, "transactions", row)
    BY <1>8 DEF SaveTransaction, TransactionFor, GroupOf
  <2>4. tables' = [tables EXCEPT ![h] = rows2]
    BY <1>1, <2>3, RowInserted
  <2>5. Stores(j, docs, rows, j2, docs, rows2)
    BY <2>1 DEF Stores
  <2> QED BY <1>1, <2>1, <2>2, <2>4, <2>5 DEF Works, Moved, WorkMove
<1>9. CASE RecordDelivery(h)
  <2> DEFINE j2 == [j EXCEPT !.pc = "log"]
             rows2 == [rows EXCEPT !.deliveries = Append(@, Len(rows.transactions))]
  <2>1. j.pc = "recordDelivery" /\ UNCHANGED <<intakeVars, pushed, control>>
    BY <1>9 DEF RecordDelivery, At
  <2>2. job' = [job EXCEPT ![h] = j2]
    BY <1>1, <1>9 DEF RecordDelivery
  <2>3. InsertRow(h, "deliveries", Len(rows.transactions))
    BY <1>9 DEF RecordDelivery
  <2>4. tables' = [tables EXCEPT ![h] = rows2]
    BY <1>1, <2>3, RowInserted
  <2>5. RecordsDelivery(j, docs, rows, j2, docs, rows2)
    BY <2>1 DEF RecordsDelivery
  <2> QED BY <1>1, <2>1, <2>2, <2>4, <2>5 DEF Works, Moved, WorkMove
<1>10. CASE LogEvent(h)
  <2> DEFINE e == EventFor(j, KeyOf(j.artifact))
             j2 == Continue(j, Tail(j.processed))
             rows2 == [rows EXCEPT !.events = Append(@, e)]
  <2>1. j.pc = "log" /\ UNCHANGED <<intakeVars, pushed, control>>
    BY <1>10 DEF LogEvent, At
  <2>2. job' = [job EXCEPT ![h] = j2]
    BY <1>1, <1>10 DEF LogEvent
  <2>3. InsertRow(h, "events", e)
    BY <1>10 DEF LogEvent, EventFor, LedgerEvent, GroupOf
  <2>4. tables' = [tables EXCEPT ![h] = rows2]
    BY <1>1, <2>3, RowInserted
  <2>5. KeyOf(j.artifact) \in Keys
    <3>1. j.artifact \in Payloads
      BY <1>1, <2>1, JobInHand DEF Working, AfterAck
    <3> QED BY <3>1, KeysType
  <2>6. Logs(j, docs, rows, j2, docs, rows2)
    BY <2>1, <2>5 DEF Logs
  <2> QED BY <1>1, <2>1, <2>2, <2>4, <2>6 DEF Works, Moved, WorkMove
<1> QED BY <1>2, <1>3, <1>4, <1>5, <1>6, <1>7, <1>8, <1>9, <1>10 DEF ProcessStep

-------------------------------------------------------------------------------
(***************************************************************************)
(* What a reprocess runs: sets of the interchange, each once.              *)
(***************************************************************************)
LEMMA HasLeast ==
    ASSUME NEW S, S \subseteq Nat, S # {}
    PROVE  \E n \in S : \A m \in S : n <= m
<1> DEFINE R == StrictSubsetOrdering(Nat)
           T == {1..n : n \in S}
<1>1. IsWellFoundedOn(R, FiniteSubsetsOf(Nat))
  BY FS_StrictSubsetOrderingWellFounded
<1>2. T \subseteq FiniteSubsetsOf(Nat) /\ T # {}
  <2>1. ASSUME NEW n \in S
        PROVE  1..n \in FiniteSubsetsOf(Nat)
    <3>1. n \in Int /\ 1 \in Int /\ 1..n \subseteq Nat
      OBVIOUS
    <3>2. IsFiniteSet(1..n)
      BY <3>1, FS_Interval
    <3> QED BY <3>1, <3>2 DEF FiniteSubsetsOf
  <2> QED BY <2>1
<1> HIDE DEF R
<1>3. PICK x \in T : \A y \in T : ~ (<<y, x>> \in R)
  BY <1>1, <1>2, WFMin
<1>4. PICK n \in S : x = 1..n
  BY <1>3
<1>5. ASSUME NEW m \in S, m < n PROVE FALSE
  <2>1. (1..m) \subseteq (1..n) /\ n \in 1..n /\ n \notin 1..m
    BY <1>5
  <2>2. 1..m # 1..n
    BY <2>1
  <2>3. (1..m) \in SUBSET Nat /\ (1..n) \in SUBSET Nat
    OBVIOUS
  <2>4. <<1..m, 1..n>> \in R
    BY <2>1, <2>2, <2>3 DEF R, StrictSubsetOrdering
  <2> QED BY <1>3, <1>4, <2>4
<1> QED BY <1>5

(* A set with the reference of a set of the interchange is found.          *)
LEMMA Located ==
    ASSUME NEW p \in Payloads, NEW g, NEW i, IsSet(p, g, i)
    PROVE  LET c == LocateTransaction(p, SetAt(p, g, i).ref)
           IN  /\ IsSet(p, c[1], c[2])
               /\ SetAt(p, c[1], c[2]).ref = SetAt(p, g, i).ref
<1> DEFINE ref == SetAt(p, g, i).ref
           all == UNION {{h} \X (1..Len(Groups(p)[h].sets)) : h \in 1..Len(Groups(p))}
           found == {c \in all : SetAt(p, c[1], c[2]).ref = ref}
           before(c, d) == c[1] < d[1] \/ (c[1] = d[1] /\ c[2] <= d[2])
<1>1. /\ DOMAIN Groups(p) = 1..Len(Groups(p)) /\ Len(Groups(p)) \in Nat
      /\ \A h \in 1..Len(Groups(p)) :
            /\ Len(Groups(p)[h].sets) \in Nat
            /\ DOMAIN Groups(p)[h].sets = 1..Len(Groups(p)[h].sets)
  <2>1. Groups(p) \in Seq(Group)
    BY GroupsType
  <2>2. \A h \in 1..Len(Groups(p)) : Groups(p)[h] \in Group
    BY <2>1
  <2> QED BY <2>1, <2>2 DEF Group
<1>2. \A h, n : <<h, n>> \in all <=> IsSet(p, h, n)
  BY <1>1 DEF IsSet
<1>3. \A c \in all : /\ c = <<c[1], c[2]>> /\ IsSet(p, c[1], c[2])
                     /\ c[1] \in Nat /\ c[2] \in Nat
  <2> TAKE c \in all
  <2>1. PICK h \in 1..Len(Groups(p)) : c \in {h} \X (1..Len(Groups(p)[h].sets))
    OBVIOUS
  <2>2. c = <<c[1], c[2]>> /\ c[1] = h /\ c[2] \in 1..Len(Groups(p)[h].sets)
    BY <2>1
  <2> QED BY <1>1, <2>2 DEF IsSet
<1>4. <<g, i>> \in found
  BY <1>2
<1> HIDE DEF all
<1>5. PICK a \in {c[1] : c \in found} : \A b \in {c[1] : c \in found} : a <= b
  <2>1. {c[1] : c \in found} \subseteq Nat
    BY <1>3
  <2>2. {c[1] : c \in found} # {}
    BY <1>4
  <2> HIDE DEF found
  <2> QED BY <2>1, <2>2, HasLeast
<1>6. PICK n \in {c[2] : c \in {d \in found : d[1] = a}} :
               \A m \in {c[2] : c \in {d \in found : d[1] = a}} : n <= m
  <2>1. {c[2] : c \in {d \in found : d[1] = a}} \subseteq Nat
    BY <1>3
  <2>2. {c[2] : c \in {d \in found : d[1] = a}} # {}
    BY <1>5
  <2> HIDE DEF found
  <2> QED BY <2>1, <2>2, HasLeast
<1>7. PICK c \in found : c[1] = a /\ c[2] = n
  BY <1>6
<1>8. \A d \in found : before(c, d)
  <2> TAKE d \in found
  <2>1. a <= d[1] /\ a \in Nat /\ d[1] \in Nat
    BY <1>3, <1>5, <1>7
  <2>2. d[1] = a => n <= d[2]
    BY <1>6
  <2> QED BY <1>7, <2>1, <2>2
<1> DEFINE chosen == CHOOSE x \in found : \A d \in found : before(x, d)
<1>9. chosen \in found
  <2> HIDE DEF found, before
  <2> QED BY <1>8
<1>10. LocateTransaction(p, ref) = chosen
  BY DEF LocateTransaction, all
<1> HIDE DEF chosen
<1> QED BY <1>3, <1>9, <1>10

LEMMA ReprocessWorkFits ==
    ASSUME NEW e \in LedgerRow, e.group = 0 <=> e.set = 0,
           e.group # 0 => IsSet(e.artifact, e.group, e.set)
    PROVE  /\ ReprocessWork(e) \in Seq(WorkItem)
           /\ Fits(e.artifact, ReprocessWork(e)) /\ EachOnce(ReprocessWork(e))
<1>1. e.artifact \in Payloads
  BY DEF LedgerRow
<1>2. CASE e.set = 0
  BY <1>1, <1>2, WholeWork DEF ReprocessWork
<1>3. CASE e.set # 0
  <2> DEFINE c == LocateTransaction(e.artifact, SetAt(e.artifact, e.group, e.set).ref)
             item == [group |-> c[1], sets |-> <<c[2]>>]
  <2>1. IsSet(e.artifact, c[1], c[2])
    BY <1>1, <1>3, Located
  <2>2. c[1] \in Nat /\ c[2] \in Nat
    BY <1>1, <2>1, IsSetNumbers
  <2>3. ReprocessWork(e) = <<item>>
    BY <1>3 DEF ReprocessWork
  <2> HIDE DEF c
  <2>4. item \in WorkItem
    BY <2>2 DEF WorkItem
  <2>5. item.group = c[1] /\ DOMAIN item.sets = {1} /\ item.sets[1] = c[2]
    OBVIOUS
  <2> HIDE DEF item
  <2>6. <<item>> \in Seq(WorkItem) /\ DOMAIN <<item>> = {1} /\ <<item>>[1] = item
    BY <2>4
  <2>7. Fits(e.artifact, <<item>>)
    BY <2>1, <2>5, <2>6 DEF Fits, IsSet
  <2>8. EachOnce(<<item>>)
    BY <2>5, <2>6 DEF EachOnce
  <2> QED BY <2>3, <2>6, <2>7, <2>8
<1> QED BY <1>2, <1>3

-------------------------------------------------------------------------------
(***************************************************************************)
(* The inductive invariant of the specification: every run's own invariant,*)
(* the gateway's, and where each handler stands between the two.           *)
(***************************************************************************)
StandsAt(h) ==
    LET j == job[h]
    IN  /\ j.pc = "idle" => j = NoWork
        /\ j.pc \in Waiting =>
              tables[h] = NoRows /\ pushed[h] = <<>> /\ j.artifact = NoPayload
        /\ j.pc \in {"dismiss", "reprocess", "stamp"} => j.original # NoEvent
        /\ j.original # NoEvent => stage[h] = "idle" /\ j.original \in EventsWritten
        /\ j.original = NoEvent /\ j.pc # "idle" =>
              /\ receipt[h] # "none"
              /\ receipt[h] = "accepted" <=> j.artifact # NoPayload
        /\ j.original = NoEvent /\ j.artifact # NoPayload => carried[h] = j.artifact
        /\ j.pc \in Working \cup {"failed", "stamp"} => j.artifact # NoPayload

Standing == \A h \in Handlers : StandsAt(h)

RunsHold == \A h \in Handlers : RunInv(job[h], pushed[h], tables[h])

PipelineInv == PipelineTypeOK /\ RegistrationInv /\ Standing /\ RunsHold

LEMMA PipelineTypes ==
    ASSUME PipelineTypeOK
    PROVE  /\ job \in [Handlers -> Job] /\ pushed \in [Handlers -> Seq(Doc)]
           /\ tables \in [Handlers -> Tables] /\ control \in Nat
           /\ \A h \in Handlers : /\ job[h] \in Job /\ pushed[h] \in Seq(Doc)
                                  /\ tables[h] \in Tables
                                  /\ tables[h].events \in Seq(LedgerRow)
                                  /\ DOMAIN tables[h].events = 1..Len(tables[h].events)
<1>1. /\ job \in [Handlers -> Job] /\ pushed \in [Handlers -> Seq(Doc)]
      /\ tables \in [Handlers -> Tables] /\ control \in Nat
  BY DEF PipelineTypeOK, Doc
<1>2. \A rows \in Tables : rows.events \in Seq(LedgerRow)
  BY DEF Tables
<1>3. \A s \in Seq(LedgerRow) : DOMAIN s = 1..Len(s)
  OBVIOUS
<1> QED BY <1>1, <1>2, <1>3

(* An event written is a row of its handler's.                             *)
LEMMA Written ==
    ASSUME PipelineTypeOK, NEW id \in EventsWritten
    PROVE  /\ id[1] \in Handlers /\ id[2] \in DOMAIN tables[id[1]].events
           /\ id = <<id[1], id[2]>> /\ id \in EventIds
           /\ EventRow(id) \in LedgerRow
           /\ EventRow(id) \in Elements(tables[id[1]].events)
<1>1. PICK h \in Handlers : id \in {h} \X DOMAIN tables[h].events
  BY DEF EventsWritten
<1>2. id = <<h, id[2]>> /\ id[1] = h /\ id[2] \in 1..Len(tables[h].events)
  BY <1>1, PipelineTypes
<1>3. Len(tables[h].events) \in Nat
  BY PipelineTypes
<1>4. id[2] \in Nat \ {0}
  BY <1>2, <1>3
<1> QED BY <1>1, <1>2, <1>4, PipelineTypes DEF EventIds, EventRow, Elements

(* A move of one handler's run keeps types and every run's invariant.      *)
LEMMA MovedKeeps ==
    ASSUME PipelineTypeOK, RunsHold, NEW h \in Handlers, NEW j2, NEW docs2, NEW rows2,
           Moved(h, j2, docs2, rows2),
           RunMove(job[h], pushed[h], tables[h], j2, docs2, rows2),
           UNCHANGED intakeVars, control' \in Nat
    PROVE  /\ PipelineTypeOK' /\ RunsHold'
           /\ job'[h] = j2 /\ pushed'[h] = docs2 /\ tables'[h] = rows2
           /\ \A g \in Handlers \ {h} : /\ job'[g] = job[g] /\ pushed'[g] = pushed[g]
                                        /\ tables'[g] = tables[g]
<1>1. /\ job'[h] = j2 /\ pushed'[h] = docs2 /\ tables'[h] = rows2
      /\ \A g \in Handlers \ {h} : /\ job'[g] = job[g] /\ pushed'[g] = pushed[g]
                                   /\ tables'[g] = tables[g]
  BY PipelineTypes DEF Moved
<1>2. /\ j2 \in Job /\ docs2 \in Seq(Doc) /\ rows2 \in Tables
      /\ RunInv(j2, docs2, rows2)
  BY PipelineTypes, RunMoveKeeps DEF RunsHold
<1>3. RunsHold'
  BY <1>1, <1>2 DEF RunsHold
<1>4. TypeOK'
  BY DEF PipelineTypeOK, TypeOK, intakeVars
<1>5. /\ job' \in [Handlers -> Job] /\ pushed' \in [Handlers -> Seq(Doc)]
      /\ tables' \in [Handlers -> Tables]
  BY <1>2, PipelineTypes DEF Moved
<1> QED BY <1>1, <1>3, <1>4, <1>5 DEF PipelineTypeOK, Doc

(* The gateway's invariant does not depend on the pipeline.                *)
LEMMA GatewayUntouched ==
    RegistrationInv /\ UNCHANGED intakeVars => RegistrationInv'
BY DEF intakeVars, RegistrationInv, HandlersAgree, RowsAreWhole, RegistrationsCounted,
       Registering

(* Events stay written when every handler's rows are kept.                 *)
LEMMA EventsStayWritten ==
    ASSUME \A g \in Handlers : DOMAIN tables[g].events \subseteq DOMAIN tables'[g].events
    PROVE  EventsWritten \subseteq EventsWritten'
<1> SUFFICES ASSUME NEW id \in EventsWritten PROVE id \in EventsWritten'
  OBVIOUS
<1>1. PICK h \in Handlers : id \in {h} \X DOMAIN tables[h].events
  BY DEF EventsWritten
<1>2. id \in {h} \X DOMAIN tables'[h].events
  BY <1>1
<1> QED BY <1>2 DEF EventsWritten

(* A handler that a step leaves alone stands where it stood.               *)
LEMMA StandsStill ==
    ASSUME NEW g, StandsAt(g), EventsWritten \subseteq EventsWritten',
           job'[g] = job[g], pushed'[g] = pushed[g], tables'[g] = tables[g],
           job[g].original # NoEvent /\ stage[g] = "idle" => stage'[g] = "idle",
           receipt[g] # "none" => receipt'[g] = receipt[g],
           job[g].artifact # NoPayload => carried'[g] = carried[g]
    PROVE  StandsAt(g)'
<1>1. /\ job'[g].original # NoEvent => stage'[g] = "idle" /\ job'[g].original \in EventsWritten'
  BY DEF StandsAt
<1>2. job'[g].original = NoEvent /\ job'[g].pc # "idle" =>
         /\ receipt'[g] # "none"
         /\ receipt'[g] = "accepted" <=> job'[g].artifact # NoPayload
  BY DEF StandsAt
<1>3. job'[g].original = NoEvent /\ job'[g].artifact # NoPayload =>
         carried'[g] = job'[g].artifact
  BY DEF StandsAt
<1>4. /\ job'[g].pc = "idle" => job'[g] = NoWork
      /\ job'[g].pc \in Waiting =>
            tables'[g] = NoRows /\ pushed'[g] = <<>> /\ job'[g].artifact = NoPayload
      /\ job'[g].pc \in {"dismiss", "reprocess", "stamp"} => job'[g].original # NoEvent
      /\ job'[g].pc \in Working \cup {"failed", "stamp"} => job'[g].artifact # NoPayload
  BY DEF StandsAt
<1>5. NoWork' = NoWork /\ NoRows' = NoRows
  BY DEF NoWork, NoRows
<1> QED BY <1>1, <1>2, <1>3, <1>4, <1>5 DEF StandsAt

-------------------------------------------------------------------------------
(***************************************************************************)
(* Every step keeps the invariant.                                         *)
(***************************************************************************)
LEMMA MoveKeepsInv ==
    ASSUME PipelineInv, NEW h \in Handlers, NEW j2, NEW docs2, NEW rows2,
           Moved(h, j2, docs2, rows2),
           RunMove(job[h], pushed[h], tables[h], j2, docs2, rows2),
           UNCHANGED intakeVars, control' \in Nat,
           DOMAIN tables[h].events \subseteq DOMAIN rows2.events,
           EventsWritten \subseteq EventsWritten' => StandsAt(h)'
    PROVE  PipelineInv' /\ MoveOf(h)
<1>1. /\ PipelineTypeOK' /\ RunsHold'
      /\ job'[h] = j2 /\ pushed'[h] = docs2 /\ tables'[h] = rows2
      /\ \A g \in Handlers \ {h} : /\ job'[g] = job[g] /\ pushed'[g] = pushed[g]
                                   /\ tables'[g] = tables[g]
  BY MovedKeeps DEF PipelineInv
<1>2. EventsWritten \subseteq EventsWritten'
  BY <1>1, EventsStayWritten
<1>3. StandsAt(h)'
  BY <1>2
<1>4. \A g \in Handlers \ {h} : StandsAt(g)'
  BY <1>1, <1>2, StandsStill DEF PipelineInv, Standing, intakeVars
<1>5. MoveOf(h)
  BY DEF MoveOf
<1> QED BY <1>1, <1>3, <1>4, <1>5, GatewayUntouched DEF PipelineInv, Standing

LEMMA WorksKeeps ==
    ASSUME PipelineInv, NEW h \in Handlers, Works(h)
    PROVE  PipelineInv' /\ MoveOf(h)
<1>1. PICK j2, docs2, rows2 :
         /\ Moved(h, j2, docs2, rows2)
         /\ WorkMove(job[h], pushed[h], tables[h], j2, docs2, rows2)
  BY DEF Works
<1>2. /\ job[h] \in Job /\ tables[h] \in Tables /\ tables[h].events \in Seq(LedgerRow)
      /\ RunInv(job[h], pushed[h], tables[h]) /\ StandsAt(h)
      /\ UNCHANGED intakeVars /\ control' \in Nat
  BY PipelineTypes DEF PipelineInv, RunsHold, Standing, Works
<1>3. /\ job[h].pc \in Working
      /\ j2.artifact = job[h].artifact /\ j2.original = job[h].original
      /\ j2.pc \in Working \cup {"failed", "done", "stamp"}
      /\ j2.pc = "stamp" => job[h].original # NoEvent
      /\ \/ rows2.events = tables[h].events
         \/ \E key \in Keys : rows2.events = Append(tables[h].events, EventFor(job[h], key))
  BY <1>1, <1>2, WorkMoves
<1>4. DOMAIN tables[h].events \subseteq DOMAIN rows2.events
  BY <1>2, <1>3
<1>5. job'[h] = j2
  BY <1>1, PipelineTypes DEF Moved, PipelineInv
<1>6. ASSUME EventsWritten \subseteq EventsWritten'
      PROVE  StandsAt(h)'
  <2>1. /\ job'[h].pc \notin Waiting \cup {"idle"}
        /\ job[h].pc \notin Waiting \cup {"idle"} /\ job[h].pc # "dismiss"
        /\ job'[h].pc \in Working \cup {"failed", "done", "stamp"}
    BY <1>3, <1>5 DEF Waiting, Working, AfterAck
  <2>2. /\ stage'[h] = stage[h] /\ receipt'[h] = receipt[h] /\ carried'[h] = carried[h]
    BY <1>2 DEF intakeVars
  <2>3. job[h].artifact # NoPayload
    BY <1>2, <1>3 DEF StandsAt
  <2>4. job'[h].original # NoEvent => stage'[h] = "idle" /\ job'[h].original \in EventsWritten'
    BY <1>2, <1>3, <1>5, <1>6, <2>2 DEF StandsAt
  <2>5. job'[h].original = NoEvent /\ job'[h].pc # "idle" =>
           /\ receipt'[h] # "none"
           /\ receipt'[h] = "accepted" <=> job'[h].artifact # NoPayload
    BY <1>2, <1>3, <1>5, <2>1, <2>2 DEF StandsAt, Waiting
  <2>6. job'[h].original = NoEvent /\ job'[h].artifact # NoPayload =>
           carried'[h] = job'[h].artifact
    BY <1>2, <1>3, <1>5, <2>2 DEF StandsAt
  <2>7. job'[h].pc \in {"dismiss", "reprocess", "stamp"} => job'[h].original # NoEvent
    BY <1>3, <1>5, <2>1 DEF Waiting, Working, AfterAck
  <2> QED BY <1>3, <1>5, <2>1, <2>3, <2>4, <2>5, <2>6, <2>7 DEF StandsAt, Waiting
<1>7. RunMove(job[h], pushed[h], tables[h], j2, docs2, rows2)
  BY <1>1 DEF RunMove
<1> QED BY <1>1, <1>2, <1>4, <1>6, <1>7, MoveKeepsInv

(* A handler that the gateway answered and that has not gone on yet.       *)
LEMMA AtTheGate ==
    ASSUME PipelineInv, NEW h \in Handlers, At(h, "idle"), receipt[h] # "none"
    PROVE  /\ job[h] = NoWork /\ tables[h] = NoRows /\ pushed[h] = <<>>
           /\ carried[h] \in Payloads /\ KeyOf(carried[h]) \in Keys
           /\ receipt[h] \in Verdicts
<1>1. job[h].pc = "idle" /\ StandsAt(h)
  BY DEF At, PipelineInv, Standing
<1>2. job[h] = NoWork /\ tables[h] = NoRows /\ pushed[h] = <<>>
  BY <1>1 DEF StandsAt, Waiting
<1>3. TypeOK /\ HandlersAgree
  BY DEF PipelineInv, PipelineTypeOK, RegistrationInv
<1>4. stage[h] # "idle" /\ receipt[h] \in Verdicts
  BY <1>3 DEF HandlersAgree, TypeOK
<1> QED BY <1>2, <1>3, <1>4, CarriesPayload

LEMMA ShortCircuitKeeps ==
    ASSUME PipelineInv, NEW h \in Handlers, ShortCircuit(h)
    PROVE  PipelineInv' /\ MoveOf(h)
<1> DEFINE p == carried[h]
           e == LedgerEvent(h, p, receipt[h],
                    [group |-> 0, set |-> 0, delivered |-> FALSE, ackNo |-> 0])
           j2 == [NoWork EXCEPT !.pc = "done"]
           rows2 == [NoRows EXCEPT !.events = Append(@, e)]
<1>1. /\ job[h] = NoWork /\ tables[h] = NoRows /\ pushed[h] = <<>>
      /\ p \in Payloads /\ KeyOf(p) \in Keys
      /\ receipt[h] \in {"duplicate", "conflict"}
      /\ UNCHANGED <<intakeVars, pushed, control>>
      /\ InsertRow(h, "events", e) /\ job' = [job EXCEPT ![h].pc = "done"]
  BY AtTheGate DEF ShortCircuit
<1>2. /\ job \in [Handlers -> Job] /\ pushed \in [Handlers -> Seq(Doc)]
      /\ tables \in [Handlers -> Tables] /\ control \in Nat
  BY PipelineTypes DEF PipelineInv
<1>3. Moved(h, j2, <<>>, rows2)
  <2>1. job' = [job EXCEPT ![h] = j2]
    BY <1>1, <1>2
  <2>2. pushed' = [pushed EXCEPT ![h] = <<>>]
    BY <1>1, <1>2
  <2>3. tables' = [tables EXCEPT ![h] = rows2]
    <3> HIDE DEF e
    <3> QED BY <1>1, <1>2, RowInserted
  <2> QED BY <2>1, <2>2, <2>3 DEF Moved
<1>4. /\ e \in LedgerRow
      /\ e.original = NoEvent /\ e.outcome \in {"duplicate", "conflict"}
      /\ e.group = 0 /\ e.set = 0
      /\ e.resolution = "open" /\ e.resolvedTo = NoEvent
  BY <1>1, NoWorkType DEF LedgerEvent, LedgerRow, Verdicts
<1>5. RunMove(job[h], pushed[h], tables[h], j2, <<>>, rows2)
  <2> HIDE DEF e
  <2>1. Refused(job[h], pushed[h], tables[h], j2, <<>>, rows2)
    BY <1>1, <1>4 DEF Refused
  <2> QED BY <2>1 DEF RunMove
<1>6. /\ job'[h].pc = "done" /\ job'[h].original = NoEvent
      /\ job'[h].artifact = NoPayload
  BY <1>1, <1>2, NoWorkType DEF NoWork
<1>7. StandsAt(h)'
  BY <1>1, <1>6 DEF StandsAt, Waiting, Working, AfterAck, intakeVars
<1>8. DOMAIN tables[h].events = {}
  BY <1>1, NoWorkType
<1> QED BY <1>1, <1>2, <1>3, <1>5, <1>7, <1>8, MoveKeepsInv

LEMMA ProcessAcceptedKeeps ==
    ASSUME PipelineInv, NEW h \in Handlers, ProcessAccepted(h)
    PROVE  PipelineInv' /\ MoveOf(h)
<1> DEFINE p == carried[h]
           work == WholeInterchange(p)
           j2 == StartedJob(p, NoEvent, work)
           rows2 == [NoRows EXCEPT !.interchanges = Append(@, p)]
<1>1. /\ job[h] = NoWork /\ tables[h] = NoRows /\ pushed[h] = <<>>
      /\ p \in Payloads /\ receipt[h] = "accepted"
      /\ UNCHANGED <<intakeVars, pushed, control>>
      /\ InsertRow(h, "interchanges", p) /\ job' = [job EXCEPT ![h] = j2]
  BY AtTheGate DEF ProcessAccepted, Process, StartedJob
<1>2. /\ job \in [Handlers -> Job] /\ pushed \in [Handlers -> Seq(Doc)]
      /\ tables \in [Handlers -> Tables] /\ control \in Nat
  BY PipelineTypes DEF PipelineInv
<1>3. Moved(h, j2, <<>>, rows2)
  <2>1. pushed' = [pushed EXCEPT ![h] = <<>>]
    BY <1>1, <1>2
  <2>2. tables' = [tables EXCEPT ![h] = rows2]
    BY <1>1, <1>2, RowInserted
  <2> QED BY <1>1, <2>1, <2>2 DEF Moved
<1>4. work \in Seq(WorkItem) /\ Fits(p, work) /\ EachOnce(work)
  BY <1>1, WholeWork
<1>5. RunMove(job[h], pushed[h], tables[h], j2, <<>>, rows2)
  <2> HIDE DEF work
  <2>1. job[h].pc = "idle" /\ job[h].original = NoEvent
    BY <1>1, NoWorkType
  <2>2. Starts(job[h], pushed[h], tables[h], j2, <<>>, rows2)
    BY <1>1, <1>4, <2>1 DEF Starts, work
  <2> QED BY <2>2 DEF RunMove
<1>6. /\ j2.pc \in {"translate", "done"} /\ j2.original = NoEvent /\ j2.artifact = p
  <2>1. NextPc(work, NoEvent) \in {"translate", "done"}
    BY DEF NextPc
  <2> HIDE DEF work
  <2> QED BY <2>1 DEF StartedJob, NoWork
<1>7. job'[h] = j2
  BY <1>1, <1>2
<1>8. p # NoPayload /\ receipt'[h] = "accepted" /\ carried'[h] = p
  BY <1>1, PayloadsAssumption DEF intakeVars
<1>9. StandsAt(h)'
  <2> HIDE DEF p, j2
  <2> QED BY <1>6, <1>7, <1>8 DEF StandsAt, Waiting, Working, AfterAck
<1>10. DOMAIN tables[h].events = {}
  BY <1>1, NoWorkType
<1> QED BY <1>1, <1>2, <1>3, <1>5, <1>9, <1>10, MoveKeepsInv

LEMMA AskKeeps ==
    ASSUME PipelineInv, NEW h \in Handlers, NEW id, NEW pc \in {"dismiss", "reprocess"},
           Ask(h, id, pc)
    PROVE  PipelineInv' /\ MoveOf(h)
<1> DEFINE j2 == [NoWork EXCEPT !.pc = pc, !.original = id]
<1>1. /\ job[h].pc = "idle" /\ stage[h] = "idle" /\ id \in EventsWritten
      /\ UNCHANGED <<intakeVars, pushed, tables, control>>
      /\ job' = [job EXCEPT ![h].pc = pc, ![h].original = id]
  BY DEF Ask, OpenItems
<1>2. /\ job \in [Handlers -> Job] /\ pushed \in [Handlers -> Seq(Doc)]
      /\ tables \in [Handlers -> Tables] /\ control \in Nat
  BY PipelineTypes DEF PipelineInv
<1>3. job[h] = NoWork /\ tables[h] = NoRows /\ pushed[h] = <<>>
  BY <1>1 DEF PipelineInv, Standing, StandsAt, Waiting
<1>4. id \in EventIds
  BY <1>1, Written DEF PipelineInv
<1>5. Moved(h, j2, pushed[h], tables[h])
  <2>1. job' = [job EXCEPT ![h] = j2]
    BY <1>1, <1>2, <1>3 DEF Job
  <2>2. pushed' = [pushed EXCEPT ![h] = pushed[h]] /\ tables' = [tables EXCEPT ![h] = tables[h]]
    BY <1>1, <1>2
  <2> QED BY <2>1, <2>2 DEF Moved
<1>6. RunMove(job[h], pushed[h], tables[h], j2, pushed[h], tables[h])
  <2>1. Asked(job[h], pushed[h], tables[h], j2, pushed[h], tables[h])
    BY <1>3, <1>4 DEF Asked
  <2> QED BY <2>1 DEF RunMove
<1>7. job'[h] = j2
  BY <1>2, <1>5 DEF Moved
<1>8. j2.pc = pc /\ j2.original = id /\ j2.artifact = NoPayload
  BY DEF NoWork
<1>9. id # NoEvent
  BY <1>4, GroupsAssumption DEF EventIds
<1>10. ASSUME EventsWritten \subseteq EventsWritten'
       PROVE  StandsAt(h)'
  <2> HIDE DEF j2
  <2>1. tables'[h] = NoRows /\ pushed'[h] = <<>> /\ stage'[h] = "idle"
    BY <1>1, <1>3 DEF intakeVars
  <2>2. job'[h].pc \notin Working \cup {"failed", "stamp", "idle"}
    BY <1>7, <1>8 DEF Working, AfterAck
  <2> QED BY <1>1, <1>7, <1>8, <1>9, <1>10, <2>1, <2>2 DEF StandsAt
<1> QED BY <1>1, <1>2, <1>5, <1>6, <1>10, MoveKeepsInv

(* The event an operator's request is about.                               *)
LEMMA AskedEvent ==
    ASSUME PipelineInv, NEW h \in Handlers, job[h].original # NoEvent
    PROVE  LET id == job[h].original
               e == EventRow(id)
           IN  /\ id \in EventsWritten /\ id \in EventIds /\ id[1] \in Handlers
               /\ id[2] \in DOMAIN tables[id[1]].events
               /\ e \in LedgerRow
               /\ e.group = 0 <=> e.set = 0
               /\ e.group # 0 => IsSet(e.artifact, e.group, e.set)
<1> DEFINE id == job[h].original
           e == EventRow(id)
<1>1. id \in EventsWritten
  BY DEF PipelineInv, Standing, StandsAt
<1>2. /\ id[1] \in Handlers /\ id[2] \in DOMAIN tables[id[1]].events /\ id \in EventIds
      /\ e \in LedgerRow /\ e \in Elements(tables[id[1]].events)
  BY <1>1, Written DEF PipelineInv
<1>3. EventsPast(job[id[1]], pushed[id[1]], tables[id[1]])
  BY <1>2 DEF PipelineInv, RunsHold, RunInv
<1> QED BY <1>1, <1>2, <1>3 DEF EventsPast, EventStands

LEMMA ReprocessKeeps ==
    ASSUME PipelineInv, NEW h \in Handlers, Reprocess(h)
    PROVE  PipelineInv' /\ MoveOf(h)
<1> DEFINE id == job[h].original
           e == EventRow(id)
           p == e.artifact
           work == ReprocessWork(e)
           j2 == StartedJob(p, id, work)
           rows2 == [NoRows EXCEPT !.interchanges = Append(@, p)]
<1>1. /\ job[h].pc = "reprocess" /\ UNCHANGED <<intakeVars, pushed, control>>
      /\ InsertRow(h, "interchanges", p) /\ job' = [job EXCEPT ![h] = j2]
  BY DEF Reprocess, Process, StartedJob, At
<1>2. /\ job \in [Handlers -> Job] /\ pushed \in [Handlers -> Seq(Doc)]
      /\ tables \in [Handlers -> Tables] /\ control \in Nat
  BY PipelineTypes DEF PipelineInv
<1>3. /\ tables[h] = NoRows /\ pushed[h] = <<>> /\ id # NoEvent
      /\ stage[h] = "idle" /\ id \in EventsWritten
  BY <1>1 DEF PipelineInv, Standing, StandsAt, Waiting
<1>4. e \in LedgerRow /\ p \in Payloads /\ p # NoPayload
  <2>1. e \in LedgerRow
    BY <1>3, AskedEvent
  <2> QED BY <2>1, PayloadsAssumption DEF LedgerRow
<1>5. work \in Seq(WorkItem) /\ Fits(p, work) /\ EachOnce(work)
  BY <1>3, AskedEvent, ReprocessWorkFits
<1> HIDE DEF work, p, e
<1>6. Moved(h, j2, <<>>, rows2)
  <2>1. pushed' = [pushed EXCEPT ![h] = <<>>]
    BY <1>1, <1>2, <1>3
  <2>2. tables' = [tables EXCEPT ![h] = rows2]
    BY <1>1, <1>2, <1>3, RowInserted
  <2> QED BY <1>1, <2>1, <2>2 DEF Moved
<1>7. RunMove(job[h], pushed[h], tables[h], j2, <<>>, rows2)
  <2>1. Starts(job[h], pushed[h], tables[h], j2, <<>>, rows2)
    BY <1>1, <1>3, <1>4, <1>5 DEF Starts
  <2> QED BY <2>1 DEF RunMove
<1>8. j2.pc \in {"translate", "stamp"} /\ j2.original = id /\ j2.artifact = p
  <2>1. NextPc(work, id) \in {"translate", "stamp"}
    BY <1>3 DEF NextPc
  <2> HIDE DEF id
  <2> QED BY <2>1 DEF StartedJob, NoWork
<1>9. job'[h] = j2
  BY <1>1, <1>2
<1>10. ASSUME EventsWritten \subseteq EventsWritten'
       PROVE  StandsAt(h)'
  <2> HIDE DEF j2, id
  <2>1. stage'[h] = "idle"
    BY <1>1, <1>3 DEF intakeVars
  <2> QED BY <1>3, <1>4, <1>8, <1>9, <1>10, <2>1 DEF StandsAt, Waiting, Working, AfterAck
<1>11. DOMAIN tables[h].events = {}
  BY <1>3, NoWorkType
<1> QED BY <1>1, <1>2, <1>6, <1>7, <1>10, <1>11, MoveKeepsInv

(* A resolution closes a row of another run, and ends its own.             *)
LEMMA ResolveKeeps ==
    ASSUME PipelineInv, NEW h \in Handlers, job[h].pc \in {"dismiss", "stamp"},
           NEW resolution \in {"dismissed", "reprocessed"},
           NEW resolvedTo \in EventIds \cup {NoEvent},
           Resolve(h, resolution, resolvedTo)
    PROVE  LET id == job[h].original
               closed == ClosedIn(tables[id[1]], id[2], resolution, resolvedTo)
           IN  /\ PipelineInv'
               /\ id \in EventsWritten /\ id[1] \in Handlers
               /\ id[2] \in DOMAIN tables[id[1]].events
               /\ tables' = [tables EXCEPT ![id[1]] = closed]
<1> DEFINE id == job[h].original
           o == id[1]
           n == id[2]
           closed == ClosedIn(tables[o], n, resolution, resolvedTo)
           j2 == [job[h] EXCEPT !.pc = "done"]
<1>1. /\ UNCHANGED <<intakeVars, pushed, control>>
      /\ job' = [job EXCEPT ![h].pc = "done"]
      /\ tables' = [tables EXCEPT ![o].events[n] =
                       [@ EXCEPT !.resolution = resolution, !.resolvedTo = resolvedTo]]
  BY DEF Resolve
<1>2. /\ job \in [Handlers -> Job] /\ pushed \in [Handlers -> Seq(Doc)]
      /\ tables \in [Handlers -> Tables] /\ control \in Nat
      /\ job[h] \in Job /\ PipelineTypeOK
  BY PipelineTypes DEF PipelineInv
<1>3. StandsAt(h)
  BY DEF PipelineInv, Standing
<1>4. id # NoEvent /\ stage[h] = "idle" /\ id \in EventsWritten
  BY <1>3 DEF StandsAt
<1>5. o \in Handlers /\ n \in DOMAIN tables[o].events
  BY <1>4, AskedEvent
<1> HIDE DEF id, o, n
<1>6. tables' = [tables EXCEPT ![o] = closed]
  <2>1. tables[o] \in Tables
    BY <1>2, <1>5
  <2> QED BY <1>1, <1>2, <1>5, <2>1 DEF ClosedIn, ClosedRow, Tables
<1>7. /\ tables[o] \in Tables
      /\ closed \in Tables /\ DOMAIN closed.events = DOMAIN tables[o].events
      /\ RunInv(job[o], pushed[o], closed)
  <2>1. tables[o] \in Tables /\ RunInv(job[o], pushed[o], tables[o])
    BY <1>2, <1>5 DEF PipelineInv, RunsHold
  <2> QED BY <1>5, <2>1, ClosedRows, ClosedRun
<1> HIDE DEF closed
<1>8. job' = [job EXCEPT ![h] = j2] /\ job'[h] = j2
  BY <1>1, <1>2
<1>9. \A g \in Handlers \ {h} : job'[g] = job[g]
  BY <1>1, <1>2
<1>10. tables'[o] = closed /\ \A g \in Handlers \ {o} : tables'[g] = tables[g]
  BY <1>2, <1>5, <1>6
<1>11. PipelineTypeOK'
  <2>1. j2 \in Job
    BY <1>2 DEF Job, Pcs
  <2>2. job' \in [Handlers -> Job]
    BY <1>2, <1>8, <2>1
  <2>3. tables' \in [Handlers -> Tables]
    BY <1>2, <1>6, <1>7
  <2>4. TypeOK'
    BY <1>1, <1>2 DEF PipelineTypeOK, TypeOK, intakeVars
  <2>5. pushed' \in [Handlers -> Seq(Doc)] /\ control' \in Nat
    BY <1>1, <1>2
  <2> QED BY <2>2, <2>3, <2>4, <2>5 DEF PipelineTypeOK, Doc
<1>12. RunsHold'
  <2> SUFFICES ASSUME NEW g \in Handlers
               PROVE  RunInv(job'[g], pushed[g], tables'[g])
    BY <1>1 DEF RunsHold
  <2>1. RunInv(job[g], pushed[g], tables'[g])
    BY <1>7, <1>10 DEF PipelineInv, RunsHold
  <2>2. CASE g = h
    <3>1. RunInv(j2, pushed[g], tables'[g])
      BY <1>2, <2>1, <2>2, DoneRun
    <3> QED BY <1>8, <2>2, <3>1
  <2>3. CASE g # h
    BY <1>9, <2>1, <2>3
  <2> QED BY <2>2, <2>3
<1>13. EventsWritten \subseteq EventsWritten'
  <2>1. \A g \in Handlers : DOMAIN tables[g].events \subseteq DOMAIN tables'[g].events
    BY <1>7, <1>10
  <2> QED BY <2>1, EventsStayWritten
<1>14. ASSUME NEW g \in Handlers \ {h}
       PROVE  StandsAt(g)'
  <2>1. StandsAt(g)
    BY DEF PipelineInv, Standing
  <2>2. CASE g # o
    BY <1>1, <1>9, <1>10, <1>13, <2>1, <2>2, StandsStill DEF intakeVars
  <2>3. CASE g = o
    <3>1. job[g].pc \notin Waiting
      <4> SUFFICES ASSUME job[g].pc \in Waiting PROVE FALSE
        OBVIOUS
      <4>1. tables[o].events = <<>>
        BY <2>1, <2>3, NoWorkType DEF StandsAt
      <4> QED BY <1>5, <4>1
    <3> QED BY <1>1, <1>9, <1>13, <2>1, <3>1 DEF StandsAt, intakeVars, Waiting
  <2> QED BY <2>2, <2>3
<1>15. StandsAt(h)'
  <2>1. /\ job'[h].pc = "done" /\ job'[h].original = id
        /\ job'[h].artifact = job[h].artifact
    BY <1>2, <1>8 DEF Job, id
  <2>2. stage'[h] = "idle"
    BY <1>1, <1>4 DEF intakeVars
  <2> QED BY <1>4, <1>13, <2>1, <2>2 DEF StandsAt, Waiting, Working, AfterAck
<1>16. RegistrationInv'
  BY <1>1, GatewayUntouched DEF PipelineInv
<1>17. PipelineInv'
  BY <1>11, <1>12, <1>14, <1>15, <1>16 DEF PipelineInv, Standing
<1> QED BY <1>4, <1>5, <1>6, <1>17 DEF id, o, n, closed

(* The steps of the gateway leave the pipeline alone, and judge only a     *)
(* handler that has not gone on.                                           *)
GateStep(h) ==
    /\ UNCHANGED pipelineVars
    /\ \/ job[h].pc = "idle" /\ \E p \in Payloads : Receive(h, p)
       \/ AwaitStore(h)
       \/ Abort(h)

LEMMA GateStepKeeps ==
    ASSUME PipelineInv, NEW h \in Handlers, GateStep(h)
    PROVE  PipelineInv'
<1>1. TypeOK /\ RegistrationInv /\ [Next]_intakeVars
  BY DEF PipelineInv, PipelineTypeOK, GateStep, Next, Step
<1>2. TypeOK' /\ RegistrationInv'
  BY <1>1, TypeStep, RegistrationStep DEF RegistrationInv
<1>3. UNCHANGED <<job, pushed, tables, control>>
  BY DEF GateStep, pipelineVars
<1>4. PipelineTypeOK' /\ RunsHold'
  BY <1>2, <1>3 DEF PipelineInv, PipelineTypeOK, RunsHold
<1>5. EventsWritten \subseteq EventsWritten'
  BY <1>3 DEF EventsWritten
<1>6. ASSUME NEW g \in Handlers
      PROVE  StandsAt(g)'
  <2>1. StandsAt(g) /\ HandlersAgree /\ TypeOK
    BY <1>1 DEF PipelineInv, Standing, RegistrationInv
  <2>2. CASE job[g] = NoWork
    <3>1. job'[g] = NoWork /\ tables'[g] = NoRows /\ pushed'[g] = <<>>
      BY <1>3, <2>1, <2>2, NoWorkType DEF StandsAt, Waiting
    <3> QED BY <3>1, NoWorkType DEF StandsAt, Waiting, Working, AfterAck
  <2>3. CASE job[g] # NoWork
    <3>1. \/ job[g].original # NoEvent /\ stage[g] = "idle"
          \/ receipt[g] # "none" /\ stage[g] = "answered" /\ job[g].original = NoEvent
      BY <2>1, <2>3 DEF StandsAt, HandlersAgree
    <3>2. ASSUME job[h].pc = "idle", NEW p \in Payloads, Receive(h, p)
          PROVE  stage'[g] = stage[g] /\ carried'[g] = carried[g] /\ receipt'[g] = receipt[g]
      <4>1. g # h
        BY <2>1, <2>3, <3>2 DEF StandsAt
      <4> QED BY <2>1, <3>2, <4>1 DEF Receive, TypeOK
    <3>3. ASSUME AwaitStore(h)
          PROVE  stage'[g] = stage[g] /\ carried'[g] = carried[g] /\ receipt'[g] = receipt[g]
      <4>1. g # h
        BY <3>1, <3>3 DEF AwaitStore, RegisterAtomically, Upsert, Lookup
      <4> QED BY <2>1, <3>3, <4>1
              DEF AwaitStore, RegisterAtomically, Upsert, Lookup, TypeOK
    <3>4. ASSUME Abort(h)
          PROVE  stage'[g] = stage[g] /\ carried'[g] = carried[g] /\ receipt'[g] = receipt[g]
      BY <3>4 DEF Abort
    <3>5. stage'[g] = stage[g] /\ carried'[g] = carried[g] /\ receipt'[g] = receipt[g]
      BY <3>2, <3>3, <3>4 DEF GateStep
    <3> QED BY <1>3, <1>5, <2>1, <3>5, StandsStill
  <2> QED BY <2>2, <2>3
<1> QED BY <1>2, <1>4, <1>6 DEF PipelineInv, Standing

(* The steps of the specification, one handler at a time.                  *)
StepOf(h) ==
    \/ GateStep(h)
    \/ Works(h)
    \/ ShortCircuit(h)
    \/ ProcessAccepted(h)
    \/ \E id \in EventsWritten, pc \in {"dismiss", "reprocess"} : Ask(h, id, pc)
    \/ Reprocess(h)
    \/ Dismiss(h) \/ StampReprocessed(h)

LEMMA ResolverSteps ==
    ASSUME PipelineInv, ResolverNext
    PROVE  \E h \in Handlers : StepOf(h)
<1>1. PICK h \in Handlers :
         \/ Arrive(h)
         \/ ReceiveStep(h)
         \/ \E id \in EventsWritten : AskDismiss(h, id) \/ AskReprocess(h, id)
         \/ OperatorStep(h)
         \/ Stop(h)
  BY DEF ResolverNext
<1>2. CASE Arrive(h)
  BY <1>2 DEF Arrive, StepOf, GateStep
<1>3. CASE ReceiveStep(h)
  <2>1. WorkInHand(job[h]) /\ PipelineTypeOK
    BY DEF PipelineInv, RunsHold, RunInv
  <2>2. CASE AwaitGateway(h)
    BY <2>2 DEF AwaitGateway, StepOf, GateStep
  <2>3. CASE ProcessStep(h)
    BY <2>1, <2>3, ProcessStepWorks DEF StepOf
  <2> QED BY <1>3, <2>2, <2>3 DEF ReceiveStep, StepOf
<1>4. CASE \E id \in EventsWritten : AskDismiss(h, id) \/ AskReprocess(h, id)
  BY <1>4 DEF AskDismiss, AskReprocess, StepOf
<1>5. CASE OperatorStep(h)
  BY <1>5 DEF OperatorStep, StepOf
<1>6. CASE Stop(h)
  BY <1>6 DEF Stop, StepOf, GateStep
<1> QED BY <1>1, <1>2, <1>3, <1>4, <1>5, <1>6

(* What the stamp of a re-run, and a dismissal, close the item with.       *)
LEMMA Closings ==
    ASSUME PipelineInv, NEW h \in Handlers, Dismiss(h) \/ StampReprocessed(h)
    PROVE  \E resolution \in {"dismissed", "reprocessed"},
              resolvedTo \in EventIds \cup {NoEvent} :
                 /\ Resolve(h, resolution, resolvedTo)
                 /\ job[h].pc \in {"dismiss", "stamp"}
                 /\ resolution = "dismissed" => resolvedTo = NoEvent
                 /\ resolution = "reprocessed" =>
                       /\ job[h].pc = "stamp"
                       /\ resolvedTo = IF tables[h].events # <<>> THEN <<h, 1>> ELSE NoEvent
<1>1. CASE Dismiss(h)
  BY <1>1 DEF Dismiss, At
<1>2. CASE StampReprocessed(h)
  <2> DEFINE to == IF tables[h].events # <<>> THEN <<h, 1>> ELSE NoEvent
  <2>1. to \in EventIds \cup {NoEvent}
    BY DEF EventIds
  <2>2. Resolve(h, "reprocessed", to) /\ job[h].pc = "stamp"
    BY <1>2 DEF StampReprocessed, At
  <2> HIDE DEF to
  <2>3. "reprocessed" # "dismissed"
    OBVIOUS
  <2>4. /\ Resolve(h, "reprocessed", to) /\ job[h].pc \in {"dismiss", "stamp"}
        /\ "reprocessed" = "dismissed" => to = NoEvent
        /\ "reprocessed" = "reprocessed" =>
              /\ job[h].pc = "stamp"
              /\ to = IF tables[h].events # <<>> THEN <<h, 1>> ELSE NoEvent
    BY <2>2, <2>3 DEF to
  <2> QED BY <2>1, <2>4
<1> QED BY <1>1, <1>2

LEMMA StepKeepsInv == PipelineInv /\ [ResolverNext]_vars => PipelineInv'
<1> SUFFICES ASSUME PipelineInv, [ResolverNext]_vars PROVE PipelineInv'
  OBVIOUS
<1>1. CASE ResolverNext
  <2>1. PICK h \in Handlers : StepOf(h)
    BY <1>1, ResolverSteps
  <2>2. CASE Dismiss(h) \/ StampReprocessed(h)
    <3>1. PICK resolution \in {"dismissed", "reprocessed"},
               resolvedTo \in EventIds \cup {NoEvent} :
             Resolve(h, resolution, resolvedTo) /\ job[h].pc \in {"dismiss", "stamp"}
      BY <2>2, Closings
    <3> QED BY <3>1, ResolveKeeps
  <2> QED BY <2>1, <2>2, GateStepKeeps, WorksKeeps, ShortCircuitKeeps, ProcessAcceptedKeeps,
             AskKeeps, ReprocessKeeps DEF StepOf
<1>2. CASE UNCHANGED vars
  <2>1. UNCHANGED <<job, pushed, tables, control>> /\ UNCHANGED intakeVars
    BY <1>2 DEF vars, pipelineVars
  <2>2. PipelineTypeOK' /\ RunsHold'
    BY <2>1 DEF PipelineInv, PipelineTypeOK, TypeOK, RunsHold, intakeVars
  <2>3. Standing'
    <3> SUFFICES ASSUME NEW g \in Handlers PROVE StandsAt(g)'
      BY DEF Standing
    <3>1. EventsWritten \subseteq EventsWritten'
      BY <2>1 DEF EventsWritten
    <3>2. StandsAt(g)
      BY DEF PipelineInv, Standing
    <3>3. /\ job'[g] = job[g] /\ pushed'[g] = pushed[g] /\ tables'[g] = tables[g]
          /\ stage'[g] = stage[g] /\ receipt'[g] = receipt[g] /\ carried'[g] = carried[g]
      BY <2>1 DEF intakeVars
    <3> QED BY <3>1, <3>2, <3>3, StandsStill
  <2> QED BY <2>1, <2>2, <2>3, GatewayUntouched DEF PipelineInv
<1> QED BY <1>1, <1>2

LEMMA PipelineInitInv == PipelineInit => PipelineInv
<1> SUFFICES ASSUME PipelineInit PROVE PipelineInv
  OBVIOUS
<1>1. TypeOK /\ RegistrationInv
  BY InitInv DEF PipelineInit
<1>2. /\ job = [h \in Handlers |-> NoWork] /\ pushed = [h \in Handlers |-> <<>>]
      /\ tables = [h \in Handlers |-> NoRows] /\ control = 0
      /\ stage = [h \in Handlers |-> "idle"]
  BY DEF PipelineInit, Init
<1>3. \A S : <<>> \in Seq(S)
  OBVIOUS
<1>4. PipelineTypeOK
  BY <1>1, <1>2, <1>3, NoWorkType DEF PipelineTypeOK
<1>5. ASSUME NEW h \in Handlers
      PROVE  StandsAt(h) /\ RunInv(job[h], pushed[h], tables[h])
  <2>1. job[h] = NoWork /\ pushed[h] = <<>> /\ tables[h] = NoRows
    BY <1>2
  <2>2. NoWork.pc \notin Working \cup {"failed"}
    BY NoWorkType DEF Working, AfterAck
  <2>3. RunInv(NoWork, <<>>, NoRows)
    BY <2>2, NoWorkType, RestingRun
  <2>4. StandsAt(h)
    BY <2>1, <2>2, NoWorkType DEF StandsAt
  <2> QED BY <2>1, <2>3, <2>4
<1> QED BY <1>1, <1>4, <1>5 DEF PipelineInv, Standing, RunsHold

(* The pipeline's invariant holds with any number of receipts and of       *)
(* operators, interleaved at every await and stopped anywhere.             *)
THEOREM RunsAreWhole == ResolverSpec => []PipelineInv
BY PipelineInitInv, StepKeepsInv, PTL DEF ResolverSpec

(* Without operators the pipeline does a part of that.                     *)
LEMMA PipelineIsPart == PipelineSpec => ResolverSpec
<1>1. PipelineNext => ResolverNext
  BY DEF PipelineNext, ResolverNext
<1>2. [PipelineNext]_vars => [ResolverNext]_vars
  BY <1>1
<1> QED BY <1>2, PTL DEF PipelineSpec, ResolverSpec

(* The state of the pipeline, and of its ledger, is well-typed.            *)
THEOREM PipelineTypeCorrect ==
    /\ PipelineSpec => []PipelineTypeOK
    /\ ResolverSpec => []PipelineTypeOK
<1>1. PipelineInv => PipelineTypeOK
  BY DEF PipelineInv
<1>2. ResolverSpec => []PipelineTypeOK
  BY <1>1, RunsAreWhole, PTL
<1> QED BY <1>2, PipelineIsPart, PTL

-------------------------------------------------------------------------------
(***************************************************************************)
(* What follows from the invariant.                                        *)
(***************************************************************************)
LEMMA GatewayWithin == ResolverSpec => Spec
<1>1. PipelineInit => Init
  BY DEF PipelineInit
<1>2. PipelineInv /\ [ResolverNext]_vars => [Next]_intakeVars
  <2> SUFFICES ASSUME PipelineInv, [ResolverNext]_vars PROVE [Next]_intakeVars
    OBVIOUS
  <2>1. CASE ResolverNext
    <3>1. PICK h \in Handlers : StepOf(h)
      BY <2>1, ResolverSteps
    <3>2. CASE GateStep(h)
      BY <3>2 DEF GateStep, Next, Step
    <3>3. CASE ~GateStep(h)
      <4>1. UNCHANGED intakeVars
        BY <3>1, <3>3 DEF StepOf, Works, ShortCircuit, ProcessAccepted, Process, Ask,
              Reprocess, Dismiss, StampReprocessed, Resolve
      <4> QED BY <4>1
    <3> QED BY <3>2, <3>3
  <2>2. CASE UNCHANGED vars
    BY <2>2 DEF vars
  <2> QED BY <2>1, <2>2
<1> QED BY <1>1, <1>2, RunsAreWhole, PTL DEF ResolverSpec, Spec

(* Whatever the pipeline and the operators do meanwhile, the trust         *)
(* boundary accepts an interchange once, its verdicts are true, and what   *)
(* was first on record stays.                                              *)
THEOREM GatewayWithinPipeline ==
    /\ ResolverSpec => [](AtMostOneAccepted /\ VerdictsAreTrue)
    /\ ResolverSpec => FirstRecordIsFinal
<1>1. ResolverSpec => [](AtMostOneAccepted /\ VerdictsAreTrue)
  BY GatewayWithin, OneAcceptance, TrueVerdicts, PTL
<1> QED BY <1>1, GatewayWithin, FirstRecordStays, PTL

(* With the in-memory store the gateway keeps the promise of DedupStore    *)
(* inside the pipeline too, operators at work or not.                      *)
THEOREM PromiseKeptWithinPipeline ==
    ASSUME AtomicRegister
    PROVE  ResolverSpec => ImplementsIdempotentIntake
BY GatewayWithin, AtomicStoreKeepsPromise, PTL

(* The runs that a receipt started and that pushed something.              *)
LEMMA PushedByReceipt ==
    ASSUME PipelineInv, NEW h \in Handlers, Fresh(h), pushed[h] # <<>>
    PROVE  /\ receipt[h] = "accepted" /\ carried[h] = job[h].artifact
           /\ job[h].artifact \in Payloads
<1>1. pushed[h] \in Seq(Doc) /\ StandsAt(h) /\ PushesPast(job[h], pushed[h])
  BY PipelineTypes DEF PipelineInv, Standing, RunsHold, RunInv
<1>2. Head(pushed[h]) \in Doc /\ Head(pushed[h]) \in Elements(pushed[h])
  BY <1>1, ElementsTail
<1>3. job[h].artifact \in Payloads
  BY <1>1, <1>2 DEF PushesPast, Doc
<1>4. job[h].artifact # NoPayload /\ job[h].pc # "idle"
  BY <1>1, <1>3, PayloadsAssumption DEF StandsAt, Waiting
<1> QED BY <1>1, <1>3, <1>4 DEF Fresh, StandsAt

(* Of one interchange identity, the customer gets documents from one       *)
(* receipt only, and each set of it once.                                  *)
THEOREM OneReceiptDelivers ==
    /\ PipelineSpec => []CustomerReceivesOnce
    /\ ResolverSpec => []CustomerReceivesOnce
<1>1. PipelineInv /\ AtMostOneAccepted => CustomerReceivesOnce
  <2> SUFFICES ASSUME PipelineInv, AtMostOneAccepted PROVE CustomerReceivesOnce
    OBVIOUS
  <2>1. ASSUME NEW g \in Handlers, NEW h \in Handlers,
               Fresh(g), pushed[g] # <<>>, Fresh(h), pushed[h] # <<>>,
               KeyOf(carried[g]) = KeyOf(carried[h])
        PROVE  g = h
    BY <2>1, PushedByReceipt DEF AtMostOneAccepted
  <2>2. \A h \in Handlers : \A m, n \in DOMAIN pushed[h] :
           pushed[h][m] = pushed[h][n] => m = n
    BY DEF PipelineInv, RunsHold, RunInv, PushesPast
  <2> QED BY <2>1, <2>2 DEF CustomerReceivesOnce
<1>2. ResolverSpec => []CustomerReceivesOnce
  BY <1>1, RunsAreWhole, GatewayWithinPipeline, PTL
<1> QED BY <1>2, PipelineIsPart, PTL

(* Behind every event of a set on the ledger stand the queued 997 with its *)
(* verdict, its transaction row, and its delivery exactly if delivered.    *)
THEOREM LedgerIsTrue ==
    /\ PipelineSpec => []LedgerTellsTheTruth
    /\ ResolverSpec => []LedgerTellsTheTruth
<1>1. PipelineInv => LedgerTellsTheTruth
  <2> SUFFICES ASSUME PipelineInv, NEW h \in Handlers,
                      NEW e \in Elements(tables[h].events), e.group # 0
               PROVE  /\ \E a \in DOMAIN tables[h].acks :
                            /\ tables[h].acks[a].no = e.ackNo
                            /\ tables[h].acks[a].group = e.group
                            /\ [set |-> e.set, code |-> e.outcome = "accepted"]
                                  \in Elements(tables[h].acks[a].accepted)
                            /\ a \in Elements(tables[h].dispatches)
                      /\ \E t \in DOMAIN tables[h].transactions :
                            /\ tables[h].transactions[t] =
                                  [group |-> e.group, set |-> e.set,
                                   state |-> IF e.outcome = "accepted"
                                             THEN "DELIVERED" ELSE "REJECTED"]
                            /\ e.delivered <=> t \in Elements(tables[h].deliveries)
                      /\ e.delivered <=> Pushed(h, e.group, e.set)
    BY DEF LedgerTellsTheTruth
  <2>1. EventStands(job[h], pushed[h], tables[h], e)
    BY DEF PipelineInv, RunsHold, RunInv, EventsPast
  <2>2. AckOf(tables[h], e.ackNo, e.group, e.set, e.outcome = "accepted")
    BY <2>1 DEF EventStands
  <2>3. PICK t \in DOMAIN tables[h].transactions :
           /\ tables[h].transactions[t] = TransactionFor(e.group, e.set, e.outcome = "accepted")
           /\ e.delivered <=> t \in Elements(tables[h].deliveries)
    BY <2>1 DEF EventStands
  <2>4. e.delivered <=> Pushed(h, e.group, e.set)
    BY <2>1 DEF EventStands, InDocs, Pushed
  <2>5. tables[h].transactions[t] =
            [group |-> e.group, set |-> e.set,
             state |-> IF e.outcome = "accepted" THEN "DELIVERED" ELSE "REJECTED"]
    BY <2>3 DEF TransactionFor
  <2> QED BY <2>2, <2>3, <2>4, <2>5 DEF AckOf
<1>2. ResolverSpec => []LedgerTellsTheTruth
  BY <1>1, RunsAreWhole, PTL
<1> QED BY <1>2, PipelineIsPart, PTL

-------------------------------------------------------------------------------
(***************************************************************************)
(* The order of a receipt's run: it goes through the groups and the sets   *)
(* of the interchange as they stand, and its rows are in that order.       *)
(***************************************************************************)
Whole(j) == j.original = NoEvent /\ j.artifact # NoPayload
SetsIn(p, g) == Len(Groups(p)[g].sets)
GroupsDone(j) == Len(Groups(j.artifact)) - Len(j.work)

(* Where the run is: the groups left are the last ones, and of the group   *)
(* in hand the sets translated come before the sets left.                  *)
Position(j) ==
    LET p == j.artifact
        done == GroupsDone(j)
        n == Len(j.processed)
        sets == Head(j.work).sets
    IN  /\ Len(j.work) <= Len(Groups(p))
        /\ \A k \in DOMAIN j.work :
              /\ j.work[k].group = done + k
              /\ k # 1 => j.work[k].sets = [i \in 1..SetsIn(p, done + k) |-> i]
        /\ j.pc \in {"translate", "saveAck", "enqueue"} =>
              /\ n + Len(sets) = SetsIn(p, done + 1)
              /\ \A m \in 1..n : j.processed[m].set = m
              /\ \A m \in 1..Len(sets) : sets[m] = n + m
        /\ j.pc \in AfterAck =>
              /\ n <= SetsIn(p, done + 1)
              /\ \A m \in 1..n : j.processed[m].set = SetsIn(p, done + 1) - n + m

(* The sets that have their event by now.                                  *)
Logged(j, g, i) ==
    /\ IsSet(j.artifact, g, i)
    /\ \/ g <= GroupsDone(j)
       \/ /\ j.pc \in AfterAck
          /\ g = GroupsDone(j) + 1
          /\ i + Len(j.processed) <= SetsIn(j.artifact, g)

AcksInOrder(j, acks) ==
    /\ Len(acks) = IF j.pc \in {"enqueue"} \cup AfterAck THEN GroupsDone(j) + 1
                                                        ELSE GroupsDone(j)
    /\ \A k \in 1..Len(acks) :
          /\ acks[k].group = k
          /\ k \in 1..Len(Groups(j.artifact))
          /\ Len(acks[k].accepted) = SetsIn(j.artifact, k)
          /\ \A n \in 1..Len(acks[k].accepted) : acks[k].accepted[n].set = n

DispatchesInOrder(j, dispatches) ==
    /\ Len(dispatches) = IF j.pc \in AfterAck THEN GroupsDone(j) + 1 ELSE GroupsDone(j)
    /\ \A k \in 1..Len(dispatches) : dispatches[k] = k

EventsInOrder(j, events) ==
    /\ \A g, i : (\E n \in 1..Len(events) : events[n].group = g /\ events[n].set = i)
                    <=> Logged(j, g, i)
    /\ \A m, n \in 1..Len(events) :
          events[m].group = events[n].group /\ events[m].set = events[n].set => m = n
    /\ \A m, n \in 1..Len(events) : m < n => EarlierSet(events[m], events[n])

OrderInv(j, rows) ==
    /\ j.artifact = NoPayload => rows.acks = <<>>
    /\ Whole(j) => /\ Position(j)
                   /\ AcksInOrder(j, rows.acks)
                   /\ DispatchesInOrder(j, rows.dispatches)
                   /\ EventsInOrder(j, rows.events)

LEMMA SetNumbers ==
    ASSUME NEW p \in Payloads
    PROVE  /\ Len(Groups(p)) \in Nat
           /\ \A g \in 1..Len(Groups(p)) : SetsIn(p, g) \in Nat
           /\ \A g, i : IsSet(p, g, i) <=> g \in 1..Len(Groups(p)) /\ i \in 1..SetsIn(p, g)
<1>1. Groups(p) \in Seq(Group)
  BY GroupsType
<1>2. Len(Groups(p)) \in Nat /\ DOMAIN Groups(p) = 1..Len(Groups(p))
  BY <1>1
<1>3. ASSUME NEW g \in 1..Len(Groups(p))
      PROVE  SetsIn(p, g) \in Nat /\ DOMAIN Groups(p)[g].sets = 1..SetsIn(p, g)
  <2>1. Groups(p)[g] \in Group
    BY <1>1
  <2> QED BY <2>1 DEF Group, SetsIn
<1> QED BY <1>2, <1>3 DEF IsSet

(* A run that moves on inside its group, or fails, keeps its place.        *)
LEMMA SamePlace ==
    ASSUME NEW j, NEW j2, j2.artifact = j.artifact, Len(j2.work) = Len(j.work),
           j2.pc \in AfterAck <=> j.pc \in AfterAck,
           Len(j2.processed) = Len(j.processed) \/ j.pc \notin AfterAck
    PROVE  /\ GroupsDone(j2) = GroupsDone(j)
           /\ \A g, i : Logged(j2, g, i) <=> Logged(j, g, i)
           /\ \A events : EventsInOrder(j, events) => EventsInOrder(j2, events)
           /\ \A ds : DispatchesInOrder(j, ds) => DispatchesInOrder(j2, ds)
           /\ \A acks : /\ AcksInOrder(j, acks)
                        /\ j2.pc \in {"enqueue"} \cup AfterAck <=> j.pc \in {"enqueue"} \cup AfterAck
                        => AcksInOrder(j2, acks)
<1>1. GroupsDone(j2) = GroupsDone(j)
  BY DEF GroupsDone
<1>2. \A g, i : Logged(j2, g, i) <=> Logged(j, g, i)
  BY <1>1 DEF Logged
<1>3. \A events : EventsInOrder(j, events) => EventsInOrder(j2, events)
  BY <1>2 DEF EventsInOrder
<1>4. \A ds : DispatchesInOrder(j, ds) => DispatchesInOrder(j2, ds)
  BY <1>1 DEF DispatchesInOrder
<1>5. ASSUME NEW acks, AcksInOrder(j, acks),
             j2.pc \in {"enqueue"} \cup AfterAck <=> j.pc \in {"enqueue"} \cup AfterAck
      PROVE  AcksInOrder(j2, acks)
  BY <1>1, <1>5 DEF AcksInOrder
<1> QED BY <1>1, <1>2, <1>3, <1>4, <1>5

LEMMA TakenOrder ==
    ASSUME NEW j \in Job, NEW rows, NEW c, WorkInHand(j), OrderInv(j, rows),
           j.pc = "translate", Head(j.work).sets # <<>>
    PROVE  OrderInv(Taken(j, c), rows)
<1> DEFINE j2 == Taken(j, c)
           p == j.artifact
           n == Len(j.processed)
           sets == Head(j.work).sets
           r == [set |-> Head(sets), conformant |-> c, delivered |-> c]
<1> SUFFICES OrderInv(j2, rows)
  OBVIOUS
<1>1. /\ j.work \in Seq(WorkItem) /\ j.work # <<>> /\ sets \in Seq(Nat) /\ sets # <<>>
      /\ j.processed \in Seq(ProcessedSet) /\ p \in Payloads
  BY JobInHand DEF Working
<1>2. /\ j2.work = TakeSet(j.work) /\ j2.processed = Append(j.processed, r)
      /\ j2.artifact = p /\ j2.pc = "translate" /\ j2.original = j.original
  BY DEF Taken, Job
<1> HIDE DEF j2
<1>3. /\ TakeSet(j.work) \in Seq(WorkItem) /\ Len(TakeSet(j.work)) = Len(j.work)
      /\ TakeSet(j.work)[1] = [group |-> j.work[1].group, sets |-> Tail(sets)]
      /\ Head(TakeSet(j.work)) = TakeSet(j.work)[1]
      /\ \A k \in DOMAIN j.work : k # 1 => TakeSet(j.work)[k] = j.work[k]
  BY <1>1, TakenWork
<1>4. /\ Head(sets) = sets[1] /\ Len(Tail(sets)) = Len(sets) - 1 /\ Len(sets) \in Nat \ {0}
      /\ \A m \in 1..(Len(sets) - 1) : Tail(sets)[m] = sets[m + 1]
  BY <1>1
<1>5. /\ Len(Append(j.processed, r)) = n + 1 /\ n \in Nat
      /\ Append(j.processed, r)[n + 1] = r
      /\ \A m \in 1..n : Append(j.processed, r)[m] = j.processed[m]
  BY <1>1
<1> HIDE DEF r
<1>6. CASE ~Whole(j)
  BY <1>2, <1>6 DEF OrderInv, Whole
<1>7. CASE Whole(j)
  <2>1. Position(j)
    BY <1>7 DEF OrderInv
  <2>2. GroupsDone(j2) = GroupsDone(j)
    BY <1>2, <1>3 DEF GroupsDone
  <2>3. Head(j2.work).sets = Tail(sets)
    <3> HIDE DEF sets
    <3>1. Head(j2.work) = [group |-> j.work[1].group, sets |-> Tail(sets)]
      BY <1>2, <1>3
    <3> QED BY <3>1
  <2>4. /\ n + Len(sets) = SetsIn(p, GroupsDone(j) + 1)
        /\ \A m \in 1..n : j.processed[m].set = m
        /\ \A m \in 1..Len(sets) : sets[m] = n + m
    BY <2>1 DEF Position
  <2>5. /\ Len(j2.processed) + Len(Tail(sets)) = SetsIn(p, GroupsDone(j2) + 1)
        /\ \A m \in 1..Len(Tail(sets)) : Tail(sets)[m] = Len(j2.processed) + m
    <3>1. \A m \in 1..(Len(sets) - 1) : m + 1 \in 1..Len(sets)
      BY <1>4
    <3> HIDE DEF sets, n, p
    <3> QED BY <1>2, <1>4, <1>5, <2>2, <2>4, <3>1
  <2>6. \A m \in 1..Len(j2.processed) : j2.processed[m].set = m
    <3> SUFFICES ASSUME NEW m \in 1..(n + 1) PROVE j2.processed[m].set = m
      BY <1>2, <1>5
    <3>1. r.set = n + 1
      BY <1>4, <2>4 DEF r
    <3>2. CASE m = n + 1
      BY <1>2, <1>5, <3>1, <3>2
    <3>3. CASE m # n + 1
      <4>1. m \in 1..n
        BY <1>5, <3>3
      <4> QED BY <1>2, <1>5, <2>4, <4>1
    <3> QED BY <3>2, <3>3
  <2>7. \A k \in DOMAIN j2.work :
           /\ j2.work[k].group = GroupsDone(j2) + k
           /\ k # 1 => j2.work[k].sets = [i \in 1..SetsIn(p, GroupsDone(j2) + k) |-> i]
    <3> SUFFICES ASSUME NEW k \in DOMAIN j.work
                 PROVE  /\ j2.work[k].group = GroupsDone(j) + k
                        /\ k # 1 => j2.work[k].sets = [i \in 1..SetsIn(p, GroupsDone(j) + k) |-> i]
      BY <1>1, <1>2, <1>3, <2>2
    <3>1. /\ j.work[k].group = GroupsDone(j) + k
          /\ k # 1 => j.work[k].sets = [i \in 1..SetsIn(p, GroupsDone(j) + k) |-> i]
      BY <2>1 DEF Position
    <3>2. CASE k = 1
      BY <1>2, <1>3, <3>1, <3>2
    <3>3. CASE k # 1
      BY <1>2, <1>3, <3>1, <3>3
    <3> QED BY <3>2, <3>3
  <2>8. Position(j2)
    <3>1. Len(j2.work) <= Len(Groups(p))
      BY <1>2, <1>3, <2>1 DEF Position
    <3>2. j2.pc \notin AfterAck
      BY <1>2 DEF AfterAck
    <3> QED BY <1>2, <2>3, <2>5, <2>6, <2>7, <3>1, <3>2 DEF Position
  <2>9. j2.pc \notin {"enqueue"} \cup AfterAck /\ j.pc \notin {"enqueue"} \cup AfterAck
    BY <1>2 DEF AfterAck
  <2>10. Len(j2.work) = Len(j.work) /\ j2.artifact = j.artifact
    BY <1>2, <1>3
  <2>11. /\ AcksInOrder(j2, rows.acks) /\ DispatchesInOrder(j2, rows.dispatches)
         /\ EventsInOrder(j2, rows.events)
    <3>1. /\ AcksInOrder(j, rows.acks) /\ DispatchesInOrder(j, rows.dispatches)
          /\ EventsInOrder(j, rows.events)
      BY <1>7 DEF OrderInv
    <3> QED BY <2>9, <2>10, <3>1, SamePlace
  <2> QED BY <1>2, <1>7, <2>8, <2>11 DEF OrderInv, Whole
<1> QED BY <1>6, <1>7

(* A step that leaves work and processed alone keeps the order when the    *)
(* rows it depends on are as its new phase wants them.                     *)
LEMMA PhaseOrder ==
    ASSUME NEW j, NEW j2, NEW rows, NEW rows2, OrderInv(j, rows),
           j2.artifact = j.artifact, j2.original = j.original,
           j2.work = j.work, j2.processed = j.processed,
           \/ j2.pc = "failed" /\ j.pc = "translate"
           \/ j2.pc = "saveAck" /\ j.pc = "translate"
           \/ j.pc \in AfterAck /\ j2.pc \in AfterAck,
           rows2.acks = rows.acks, rows2.dispatches = rows.dispatches,
           rows2.events = rows.events
    PROVE  OrderInv(j2, rows2)
<1>1. /\ j2.pc \in AfterAck <=> j.pc \in AfterAck
      /\ j2.pc \in {"enqueue"} \cup AfterAck <=> j.pc \in {"enqueue"} \cup AfterAck
  BY DEF AfterAck
<1>2. ASSUME Whole(j)
      PROVE  /\ Position(j2) /\ AcksInOrder(j2, rows.acks)
             /\ DispatchesInOrder(j2, rows.dispatches) /\ EventsInOrder(j2, rows.events)
  <2>1. /\ Position(j) /\ AcksInOrder(j, rows.acks)
        /\ DispatchesInOrder(j, rows.dispatches) /\ EventsInOrder(j, rows.events)
    BY <1>2 DEF OrderInv
  <2>2. GroupsDone(j2) = GroupsDone(j)
    BY DEF GroupsDone
  <2>3. j2.pc \in {"translate", "saveAck", "enqueue"} => j.pc = "translate"
    BY DEF AfterAck
  <2>4. Position(j2)
    BY <1>1, <2>1, <2>2, <2>3 DEF Position
  <2> QED BY <1>1, <2>1, <2>4, SamePlace
<1> QED BY <1>2 DEF OrderInv, Whole

LEMMA AckSavedOrder ==
    ASSUME NEW j \in Job, NEW rows \in Tables, NEW j2, NEW rows2,
           WorkInHand(j), OrderInv(j, rows), j.pc = "saveAck",
           j2 = [j EXCEPT !.pc = "enqueue"],
           rows2 = [rows EXCEPT !.acks = Append(@, AckFor(j))]
    PROVE  OrderInv(j2, rows2)
<1> DEFINE AckRow == [group : Nat, no : Nat, accepted : Seq([set : Nat, code : BOOLEAN])]
           p == j.artifact
           n == Len(j.processed)
           done == GroupsDone(j)
           new == AckFor(j)
<1>1. /\ j2.pc = "enqueue" /\ j2.work = j.work /\ j2.processed = j.processed
      /\ j2.artifact = j.artifact /\ j2.original = j.original
      /\ rows2.acks = Append(rows.acks, new) /\ rows2.dispatches = rows.dispatches
      /\ rows2.events = rows.events
  BY DEF Job, Tables
<1>2. /\ j.work \in Seq(WorkItem) /\ j.work # <<>> /\ p \in Payloads
      /\ j.processed \in Seq(ProcessedSet) /\ n \in Nat /\ Len(j.work) \in Nat \ {0}
      /\ Head(j.work) = j.work[1] /\ Head(j.work).sets = <<>>
      /\ j.artifact # NoPayload
  <2>1. /\ j.work \in Seq(WorkItem) /\ j.work # <<>> /\ p \in Payloads
        /\ j.processed \in Seq(ProcessedSet)
    BY JobInHand DEF Working
  <2>2. Head(j.work).sets = <<>> /\ j.artifact # NoPayload
    BY <2>1, PayloadsAssumption DEF WorkInHand
  <2>3. n \in Nat /\ Len(j.work) \in Nat \ {0} /\ Head(j.work) = j.work[1]
    BY <2>1
  <2> QED BY <2>1, <2>2, <2>3
<1>3. new \in AckRow /\ rows.acks \in Seq(AckRow)
  <2>1. rows.acks \in Seq(AckRow)
    BY DEF Tables
  <2>2. new \in AckRow
    BY AckForRow DEF Working
  <2> QED BY <2>1, <2>2
<1>4. /\ new.group = Head(j.work).group
      /\ new.accepted = [m \in 1..n |->
                            [set |-> j.processed[m].set, code |-> j.processed[m].conformant]]
  BY DEF AckFor
<1> HIDE DEF new, AckRow
<1>5. /\ Len(Append(rows.acks, new)) = Len(rows.acks) + 1 /\ Len(rows.acks) \in Nat
      /\ Append(rows.acks, new)[Len(rows.acks) + 1] = new
      /\ \A m \in 1..Len(rows.acks) : Append(rows.acks, new)[m] = rows.acks[m]
  BY <1>3
<1>6. ASSUME Whole(j)
      PROVE  /\ Position(j2) /\ AcksInOrder(j2, rows2.acks)
             /\ DispatchesInOrder(j2, rows.dispatches) /\ EventsInOrder(j2, rows.events)
  <2>1. /\ Position(j) /\ AcksInOrder(j, rows.acks)
        /\ DispatchesInOrder(j, rows.dispatches) /\ EventsInOrder(j, rows.events)
    BY <1>6 DEF OrderInv
  <2>2. GroupsDone(j2) = done
    BY <1>1 DEF GroupsDone
  <2>3. Position(j2)
    <3>1. j.pc \in {"translate", "saveAck", "enqueue"} /\ j2.pc \notin AfterAck
      BY <1>1 DEF AfterAck
    <3>2. /\ j2.artifact = j.artifact /\ j2.work = j.work /\ j2.processed = j.processed
      BY <1>1
    <3> HIDE DEF p, n, done
    <3> QED BY <2>1, <2>2, <3>1, <3>2 DEF Position, done
  <2>4. j2.pc \notin AfterAck /\ j.pc \notin {"enqueue"} \cup AfterAck
    BY <1>1 DEF AfterAck
  <2>5. Len(Groups(p)) \in Nat /\ done \in Nat /\ done + 1 <= Len(Groups(p))
    BY <1>2, <2>1, SetNumbers DEF Position, GroupsDone
  <2>6. Len(rows.acks) = done
    BY <2>1, <2>4 DEF AcksInOrder
  <2>7. /\ new.group = done + 1
        /\ n = SetsIn(p, done + 1)
        /\ \A m \in 1..n : j.processed[m].set = m
    <3>1. j.work[1].group = done + 1
      <4>1. 1 \in DOMAIN j.work
        BY <1>2
      <4> QED BY <2>1, <4>1 DEF Position
    <3>3. n + Len(Head(j.work).sets) = SetsIn(p, done + 1)
      BY <2>1 DEF Position
    <3>4. n + Len(<<>>) = n
      BY <1>2
    <3>2. \A m \in 1..n : j.processed[m].set = m
      BY <2>1 DEF Position
    <3> QED BY <1>2, <1>4, <3>1, <3>2, <3>3, <3>4
  <2>8. Len(new.accepted) = n /\ \A m \in 1..n : new.accepted[m].set = m
    BY <1>2, <1>4, <2>7
  <2>9. AcksInOrder(j2, rows2.acks)
    <3>1. Len(rows2.acks) = done + 1
      BY <1>1, <1>5, <2>6
    <3>2. ASSUME NEW k \in 1..(done + 1)
          PROVE  /\ rows2.acks[k].group = k
                 /\ k \in 1..Len(Groups(p))
                 /\ Len(rows2.acks[k].accepted) = SetsIn(p, k)
                 /\ \A m \in 1..Len(rows2.acks[k].accepted) : rows2.acks[k].accepted[m].set = m
      <4>1. CASE k = done + 1
        BY <1>1, <1>5, <2>5, <2>6, <2>7, <2>8, <4>1
      <4>2. CASE k # done + 1
        <5>1. k \in 1..Len(rows.acks)
          BY <2>5, <2>6, <4>2
        <5> QED BY <1>1, <1>5, <2>1, <5>1 DEF AcksInOrder
      <4> QED BY <4>1, <4>2
    <3> QED BY <1>1, <2>2, <3>1, <3>2 DEF AcksInOrder
  <2>10. DispatchesInOrder(j2, rows.dispatches) /\ EventsInOrder(j2, rows.events)
    <3>1. j2.artifact = j.artifact /\ Len(j2.work) = Len(j.work)
          /\ (j2.pc \in AfterAck <=> j.pc \in AfterAck) /\ j.pc \notin AfterAck
      BY <1>1, <2>4
    <3> QED BY <2>1, <3>1, SamePlace
  <2> QED BY <2>3, <2>9, <2>10
<1> QED BY <1>1, <1>2, <1>6 DEF OrderInv, Whole

(* The run goes on with the sets to be recorded, or with the next group.   *)
LEMMA NextPlace ==
    ASSUME NEW j \in Job, WorkInHand(j), Position(j), j.pc \in {"enqueue", "log"},
           NEW rest \in Seq(ProcessedSet),
           rest # <<>> =>
               LET L == SetsIn(j.artifact, GroupsDone(j) + 1)
               IN  Len(rest) <= L /\ \A m \in 1..Len(rest) : rest[m].set = L - Len(rest) + m
    PROVE  LET j2 == Continue(j, rest)
           IN  /\ Position(j2)
               /\ GroupsDone(j2) = IF rest # <<>> THEN GroupsDone(j) ELSE GroupsDone(j) + 1
               /\ GroupsDone(j) \in Nat /\ GroupsDone(j) + 1 \in 1..Len(Groups(j.artifact))
               /\ j2.pc \in AfterAck <=> rest # <<>>
               /\ j2.pc # "enqueue"
               /\ j2.artifact = j.artifact /\ j2.original = j.original
               /\ j2.processed = rest
<1> DEFINE j2 == Continue(j, rest)
           p == j.artifact
           done == GroupsDone(j)
           L == SetsIn(p, done + 1)
<1>1. /\ WorkInHand(j2)
      /\ j2.artifact = p /\ j2.original = j.original /\ j2.processed = rest
      /\ j2.pc \in {"store", "translate", "done", "stamp"}
      /\ j2.pc = "store" <=> rest # <<>>
      /\ j2.work = IF rest # <<>> THEN j.work ELSE Tail(j.work)
  BY ContinuedJob
<1>2. /\ j.work \in Seq(WorkItem) /\ j.work # <<>> /\ p \in Payloads
      /\ Len(j.work) \in Nat \ {0} /\ DOMAIN j.work = 1..Len(j.work)
  <2>1. j.work \in Seq(WorkItem) /\ j.work # <<>> /\ p \in Payloads
    BY JobInHand DEF Working, AfterAck
  <2> QED BY <2>1
<1>3. /\ Len(j.work) <= Len(Groups(p))
      /\ \A k \in 1..Len(j.work) :
            /\ j.work[k].group = done + k
            /\ k # 1 => j.work[k].sets = [i \in 1..SetsIn(p, done + k) |-> i]
  BY <1>2 DEF Position
<1>4. Len(Groups(p)) \in Nat /\ \A g \in 1..Len(Groups(p)) : SetsIn(p, g) \in Nat
  BY <1>2, SetNumbers
<1>5. done \in Nat /\ done + 1 \in 1..Len(Groups(p)) /\ done = Len(Groups(p)) - Len(j.work)
  BY <1>2, <1>3, <1>4 DEF GroupsDone
<1>6. (j2.pc \in AfterAck <=> rest # <<>>) /\ j2.pc # "enqueue"
  BY <1>1 DEF AfterAck
<1> HIDE DEF j2, done, p
<1>7. CASE rest # <<>>
  <2>1. GroupsDone(j2) = done
    BY <1>1, <1>7 DEF GroupsDone, done, p
  <2>2. j2.pc = "store" /\ j2.work = j.work /\ j2.artifact = p /\ j2.processed = rest
    BY <1>1, <1>7
  <2>3. j2.pc \notin {"translate", "saveAck", "enqueue"}
    BY <2>2
  <2>4. Len(rest) <= L /\ \A m \in 1..Len(rest) : rest[m].set = L - Len(rest) + m
    BY <1>7 DEF done, p
  <2>5. Position(j2)
    BY <1>2, <1>3, <2>1, <2>2, <2>3, <2>4 DEF Position
  <2> QED BY <1>1, <1>5, <1>6, <1>7, <2>1, <2>5 DEF j2, done, p
<1>8. CASE rest = <<>>
  <2> DEFINE t == Tail(j.work)
  <2>1. /\ Len(t) = Len(j.work) - 1 /\ t \in Seq(WorkItem) /\ DOMAIN t = 1..Len(t)
        /\ \A k \in 1..Len(t) : k + 1 \in 1..Len(j.work) /\ t[k] = j.work[k + 1]
    BY <1>2
  <2>2. j2.work = t /\ j2.pc \notin AfterAck \cup {"saveAck", "enqueue"}
    BY <1>1, <1>8 DEF AfterAck
  <2> HIDE DEF t
  <2>3. GroupsDone(j2) = done + 1
    <3>1. GroupsDone(j2) = Len(Groups(p)) - Len(t)
      BY <1>1, <2>2 DEF GroupsDone
    <3>2. Len(t) = Len(j.work) - 1
      BY <2>1
    <3> QED BY <1>2, <1>4, <1>5, <3>1, <3>2
  <2>4. \A k \in 1..Len(t) :
           /\ t[k].group = (done + 1) + k
           /\ t[k].sets = [i \in 1..SetsIn(p, (done + 1) + k) |-> i]
    <3> TAKE k \in 1..Len(t)
    <3>1. k + 1 \in 1..Len(j.work) /\ t[k] = j.work[k + 1] /\ k + 1 # 1
      BY <2>1
    <3>2. done + (k + 1) = (done + 1) + k
      BY <1>5, <3>1
    <3> QED BY <1>3, <3>1, <3>2
  <2>5. ASSUME j2.pc = "translate"
        PROVE  /\ Len(rest) + Len(Head(t).sets) = SetsIn(p, (done + 1) + 1)
               /\ \A m \in 1..Len(Head(t).sets) : Head(t).sets[m] = Len(rest) + m
    <3>1. t # <<>>
      BY <1>1, <2>2, <2>5 DEF WorkInHand, Working
    <3>2. 1 \in 1..Len(t) /\ Head(t) = t[1]
      BY <2>1, <3>1
    <3>3. Head(t).sets = [i \in 1..SetsIn(p, (done + 1) + 1) |-> i]
      BY <2>4, <3>2
    <3>4. SetsIn(p, (done + 1) + 1) \in Nat
      <4>1. (done + 1) + 1 \in 1..Len(Groups(p))
        BY <1>2, <1>3, <1>4, <1>5, <2>1, <3>2
      <4> QED BY <1>4, <4>1
    <3>5. Len(rest) = 0
      BY <1>8
    <3> HIDE DEF p
    <3> QED BY <3>3, <3>4, <3>5
  <2>6. Len(t) <= Len(Groups(p))
    BY <1>2, <1>3, <1>4, <2>1
  <2>7. Position(j2)
    <3>1. \A m \in 1..Len(rest) : rest[m].set = m
      BY <1>8
    <3> QED BY <1>1, <2>1, <2>2, <2>3, <2>4, <2>5, <2>6, <3>1 DEF Position
  <2> QED BY <1>1, <1>5, <1>6, <1>8, <2>3, <2>7 DEF j2, done, p
<1> QED BY <1>7, <1>8

LEMMA QueuedOrder ==
    ASSUME NEW j \in Job, NEW rows \in Tables, NEW rows2,
           WorkInHand(j), OrderInv(j, rows), j.pc = "enqueue",
           rows2 = [rows EXCEPT !.dispatches = Append(@, Len(rows.acks))]
    PROVE  OrderInv(Continue(j, j.processed), rows2)
<1> DEFINE j2 == Continue(j, j.processed)
           p == j.artifact
           rest == j.processed
           done == GroupsDone(j)
           L == SetsIn(p, done + 1)
<1>1. /\ rows.dispatches \in Seq(Nat) /\ Len(rows.acks) \in Nat /\ Len(rows.dispatches) \in Nat
      /\ rows2.acks = rows.acks /\ rows2.events = rows.events
      /\ rows2.dispatches = Append(rows.dispatches, Len(rows.acks))
  BY DEF Tables
<1>2. /\ j.work \in Seq(WorkItem) /\ j.work # <<>> /\ p \in Payloads
      /\ rest \in Seq(ProcessedSet) /\ Len(rest) \in Nat /\ p # NoPayload
      /\ Head(j.work).sets = <<>>
  <2>1. j.work \in Seq(WorkItem) /\ j.work # <<>> /\ p \in Payloads /\ rest \in Seq(ProcessedSet)
    BY JobInHand DEF Working
  <2>2. Head(j.work).sets = <<>>
    BY DEF WorkInHand
  <2>3. p # NoPayload
    BY <2>1, PayloadsAssumption
  <2>4. Len(rest) \in Nat
    BY <2>1
  <2> QED BY <2>1, <2>2, <2>3, <2>4
<1> SUFFICES ASSUME Whole(j)
             PROVE  /\ Whole(j2) => /\ Position(j2)
                                    /\ AcksInOrder(j2, rows.acks)
                                    /\ DispatchesInOrder(j2, rows2.dispatches)
                                    /\ EventsInOrder(j2, rows.events)
  <2>1. j2.artifact = j.artifact /\ j2.original = j.original
    BY <1>2, ContinuedJob
  <2> HIDE DEF j2
  <2> QED BY <1>1, <1>2, <2>1 DEF OrderInv, Whole, j2
<1>3. /\ Position(j) /\ AcksInOrder(j, rows.acks)
      /\ DispatchesInOrder(j, rows.dispatches) /\ EventsInOrder(j, rows.events)
  BY DEF OrderInv
<1>4. Len(rest) = L /\ \A m \in 1..Len(rest) : rest[m].set = m
  <2>1. Len(rest) + Len(Head(j.work).sets) = L /\ \A m \in 1..Len(rest) : rest[m].set = m
    BY <1>3 DEF Position
  <2>2. Len(rest) + Len(<<>>) = Len(rest)
    BY <1>2
  <2> QED BY <1>2, <2>1, <2>2
<1>5. rest # <<>> => Len(rest) <= L /\ \A m \in 1..Len(rest) : rest[m].set = L - Len(rest) + m
  BY <1>2, <1>4
<1>6. /\ Position(j2)
      /\ GroupsDone(j2) = IF rest # <<>> THEN done ELSE done + 1
      /\ done \in Nat /\ done + 1 \in 1..Len(Groups(p))
      /\ j2.pc \in AfterAck <=> rest # <<>>
      /\ j2.pc # "enqueue"
      /\ j2.artifact = p /\ j2.processed = rest
  BY <1>2, <1>3, <1>5, NextPlace
<1> HIDE DEF j2, p, rest, done, L
<1>7. Len(rows.acks) = done + 1
  BY <1>3 DEF AcksInOrder, done
<1>8. AcksInOrder(j2, rows.acks)
  BY <1>3, <1>6, <1>7 DEF AcksInOrder, p
<1>9. DispatchesInOrder(j2, rows2.dispatches)
  <2>1. Len(rows.dispatches) = done /\ \A k \in 1..Len(rows.dispatches) : rows.dispatches[k] = k
    BY <1>3 DEF DispatchesInOrder, AfterAck, done
  <2>2. /\ Len(rows2.dispatches) = done + 1
        /\ rows2.dispatches[done + 1] = done + 1
        /\ \A k \in 1..done : rows2.dispatches[k] = rows.dispatches[k]
    BY <1>1, <1>7, <2>1
  <2>3. \A k \in 1..(done + 1) : k \in 1..done \/ k = done + 1
    BY <1>6
  <2>4. \A k \in 1..(done + 1) : rows2.dispatches[k] = k
    BY <2>1, <2>2, <2>3
  <2> QED BY <1>6, <2>2, <2>4 DEF DispatchesInOrder
<1>10. EventsInOrder(j2, rows.events)
  <2>1. ASSUME NEW g, NEW i
        PROVE  Logged(j2, g, i) <=> Logged(j, g, i)
    <3>1. IsSet(p, g, i) => g \in Nat /\ i \in Nat \ {0}
      BY <1>2, IsSetNumbers
    <3>2. Logged(j, g, i) <=> IsSet(p, g, i) /\ g <= done
      BY DEF Logged, AfterAck, p, done
    <3>3. CASE rest # <<>>
      <4>1. Logged(j2, g, i) <=> /\ IsSet(p, g, i)
                                 /\ g <= done \/ (g = done + 1 /\ i + L <= L)
        BY <1>4, <1>6, <3>3 DEF Logged, L
      <4>2. IsSet(p, g, i) => ~(i + L <= L)
        BY <1>2, <1>4, <3>1
      <4> QED BY <3>2, <4>1, <4>2
    <3>4. CASE rest = <<>>
      <4>1. Logged(j2, g, i) <=> IsSet(p, g, i) /\ g <= done + 1
        BY <1>6, <3>4 DEF Logged
      <4>2. ~IsSet(p, done + 1, i)
        <5>1. L = 0
          BY <1>4, <3>4
        <5>2. IsSet(p, done + 1, i) => i \in 1..L
          BY <1>2, SetNumbers DEF L
        <5> QED BY <5>1, <5>2
      <4>3. IsSet(p, g, i) /\ g <= done + 1 => g <= done
        <5>1. g = done + 1 => ~IsSet(p, g, i)
          BY <4>2
        <5> QED BY <1>6, <3>1, <5>1
      <4>4. IsSet(p, g, i) /\ g <= done => g <= done + 1
        BY <1>6, <3>1
      <4> QED BY <3>2, <4>1, <4>3, <4>4
    <3> QED BY <3>3, <3>4
  <2> QED BY <1>3, <2>1 DEF EventsInOrder
<1> QED BY <1>6, <1>8, <1>9, <1>10

LEMMA LoggedOrder ==
    ASSUME NEW j \in Job, NEW rows \in Tables, NEW rows2, NEW e \in LedgerRow,
           WorkInHand(j), OrderInv(j, rows), j.pc = "log",
           e.group = Head(j.work).group, e.set = Head(j.processed).set,
           IsSet(j.artifact, e.group, e.set),
           rows2 = [rows EXCEPT !.events = Append(@, e)]
    PROVE  OrderInv(Continue(j, Tail(j.processed)), rows2)
<1> DEFINE rest == Tail(j.processed)
           j2 == Continue(j, rest)
           p == j.artifact
           n == Len(j.processed)
           done == GroupsDone(j)
           L == SetsIn(p, done + 1)
<1>1. /\ rows.events \in Seq(LedgerRow) /\ Len(rows.events) \in Nat
      /\ rows2.acks = rows.acks /\ rows2.dispatches = rows.dispatches
      /\ rows2.events = Append(rows.events, e)
  BY DEF Tables
<1>2. /\ j.work \in Seq(WorkItem) /\ j.work # <<>> /\ p \in Payloads
      /\ j.processed \in Seq(ProcessedSet) /\ j.processed # <<>>
  BY JobInHand DEF Working, AfterAck, WorkInHand
<1>3. p # NoPayload
  BY <1>2, PayloadsAssumption
<1>4. /\ n \in Nat \ {0} /\ rest \in Seq(ProcessedSet) /\ Len(rest) = n - 1
      /\ Head(j.processed) = j.processed[1]
      /\ \A m \in 1..(n - 1) : m + 1 \in 1..n /\ rest[m] = j.processed[m + 1]
  <2>1. /\ rest \in Seq(ProcessedSet) /\ Len(rest) = n - 1
        /\ Head(j.processed) = j.processed[1]
        /\ \A m \in DOMAIN rest : m + 1 \in DOMAIN j.processed /\ rest[m] = j.processed[m + 1]
    BY <1>2, ElementsTail
  <2>2. n \in Nat \ {0} /\ DOMAIN j.processed = 1..n
    BY <1>2
  <2> HIDE DEF rest
  <2>3. DOMAIN rest = 1..(n - 1)
    BY <2>1
  <2> QED BY <2>1, <2>2, <2>3
<1> SUFFICES ASSUME Whole(j)
             PROVE  /\ Position(j2)
                    /\ AcksInOrder(j2, rows.acks)
                    /\ DispatchesInOrder(j2, rows.dispatches)
                    /\ EventsInOrder(j2, rows2.events)
  <2>1. j2.artifact = j.artifact /\ j2.original = j.original
    BY <1>4, ContinuedJob
  <2> HIDE DEF j2
  <2> QED BY <1>1, <1>3, <2>1 DEF OrderInv, Whole, j2
<1>5. /\ Position(j) /\ AcksInOrder(j, rows.acks)
      /\ DispatchesInOrder(j, rows.dispatches) /\ EventsInOrder(j, rows.events)
  BY DEF OrderInv
<1>6. n <= L /\ \A m \in 1..n : j.processed[m].set = L - n + m
  BY <1>5 DEF Position, AfterAck
<1>7. GroupsDone(j) \in Int /\ L \in Nat /\ e.group = done + 1
  <2>1. /\ Len(j.work) \in Nat \ {0} /\ DOMAIN j.work = 1..Len(j.work)
        /\ Head(j.work) = j.work[1] /\ Len(Groups(p)) \in Nat
    BY <1>2, SetNumbers
  <2>2. j.work[1].group = done + 1
    <3>1. 1 \in DOMAIN j.work
      BY <2>1
    <3> QED BY <1>5, <3>1 DEF Position
  <2>3. Len(j.work) <= Len(Groups(p))
    BY <1>5 DEF Position
  <2>4. done + 1 \in 1..Len(Groups(p)) /\ done \in Int
    BY <2>1, <2>3 DEF GroupsDone
  <2> QED BY <1>2, <2>1, <2>2, <2>4, SetNumbers
<1>8. rest # <<>> => Len(rest) <= L /\ \A m \in 1..Len(rest) : rest[m].set = L - Len(rest) + m
  <2> HIDE DEF rest, L, n
  <2>1. \A m \in 1..(n - 1) : rest[m].set = L - n + (m + 1)
    BY <1>4, <1>6
  <2>2. \A m \in 1..(n - 1) : L - n + (m + 1) = L - (n - 1) + m
    BY <1>4, <1>7
  <2> QED BY <1>4, <1>6, <1>7, <2>1, <2>2
<1>9. /\ Position(j2)
      /\ GroupsDone(j2) = IF rest # <<>> THEN done ELSE done + 1
      /\ done \in Nat /\ done + 1 \in 1..Len(Groups(p))
      /\ j2.pc \in AfterAck <=> rest # <<>>
      /\ j2.pc # "enqueue"
      /\ j2.artifact = p /\ j2.processed = rest
  BY <1>4, <1>5, <1>8, NextPlace
<1>10. e.set = L - n + 1
  <2>1. 1 \in 1..n
    BY <1>4
  <2> QED BY <1>4, <1>6, <2>1
<1> HIDE DEF j2, p, rest, done, L, n
<1>11. AcksInOrder(j2, rows.acks)
  BY <1>5, <1>9 DEF AcksInOrder, AfterAck, p, done
<1>12. DispatchesInOrder(j2, rows.dispatches)
  BY <1>5, <1>9 DEF DispatchesInOrder, AfterAck, done
<1>13. ASSUME NEW g, NEW i
       PROVE  Logged(j2, g, i) <=> Logged(j, g, i) \/ (g = e.group /\ i = e.set)
  <2>1. IsSet(p, g, i) => g \in Nat /\ i \in Nat \ {0}
    BY <1>2, IsSetNumbers
  <2>2. Logged(j, g, i) <=> IsSet(p, g, i) /\ (g <= done \/ (g = done + 1 /\ i + n <= L))
    BY DEF Logged, AfterAck, p, done, n, L
  <2>3. IsSet(p, e.group, e.set)
    BY DEF p
  <2>4. CASE rest # <<>>
    <3>1. Logged(j2, g, i) <=> /\ IsSet(p, g, i)
                               /\ g <= done \/ (g = done + 1 /\ i + (n - 1) <= L)
      BY <1>4, <1>9, <2>4 DEF Logged, L
    <3>2. ASSUME IsSet(p, g, i)
          PROVE  i + (n - 1) <= L <=> i + n <= L \/ i = e.set
      <4>1. i \in Int /\ n \in Int /\ L \in Int
        BY <1>4, <1>7, <2>1, <3>2
      <4>2. i + (n - 1) <= L <=> i + n <= L \/ i = L - n + 1
        BY <4>1
      <4> QED BY <1>10, <4>2
    <3> QED BY <1>7, <2>2, <2>3, <3>1, <3>2
  <2>5. CASE rest = <<>>
    <3>1. Logged(j2, g, i) <=> IsSet(p, g, i) /\ g <= done + 1
      BY <1>9, <2>5 DEF Logged
    <3>2. n = 1
      BY <1>4, <2>5
    <3>3. ASSUME IsSet(p, g, i), g = done + 1
          PROVE  i + n <= L \/ i = e.set
      <4>1. i \in 1..L
        BY <1>2, <3>3, SetNumbers DEF L
      <4> QED BY <1>7, <1>10, <3>2, <4>1
    <3>4. IsSet(p, g, i) => (g <= done + 1 <=> g <= done \/ g = done + 1)
      BY <1>9, <2>1
    <3> QED BY <1>7, <2>2, <2>3, <3>1, <3>3, <3>4
  <2> QED BY <2>4, <2>5
<1>14. ~Logged(j, e.group, e.set)
  <2>1. ~(e.group <= done) /\ ~(e.set + n <= L)
    BY <1>4, <1>6, <1>7, <1>9, <1>10
  <2> QED BY <2>1 DEF Logged, done, n, L, p
<1>15. EventsInOrder(j2, rows2.events)
  <2> DEFINE K == Len(rows.events)
             has(m, g, i) == rows2.events[m].group = g /\ rows2.events[m].set = i
  <2>1. /\ Len(rows2.events) = K + 1 /\ rows2.events[K + 1] = e /\ K \in Nat
        /\ \A m \in 1..K : rows2.events[m] = rows.events[m]
    BY <1>1
  <2>2. \A m \in 1..(K + 1) : m \in 1..K \/ m = K + 1
    BY <2>1
  <2>3. 1..K \subseteq 1..(K + 1) /\ K + 1 \in 1..(K + 1)
    BY <2>1
  <2>4. /\ \A g, i : (\E m \in 1..K : rows.events[m].group = g /\ rows.events[m].set = i)
                        <=> Logged(j, g, i)
        /\ \A l, m \in 1..K :
              rows.events[l].group = rows.events[m].group
              /\ rows.events[l].set = rows.events[m].set => l = m
        /\ \A l, m \in 1..K : l < m => EarlierSet(rows.events[l], rows.events[m])
    BY <1>5 DEF EventsInOrder
  <2> HIDE DEF K
  <2>5. ASSUME NEW g, NEW i
        PROVE  (\E m \in 1..(K + 1) : has(m, g, i)) <=> Logged(j2, g, i)
    <3>1. (\E m \in 1..(K + 1) : has(m, g, i))
             <=> (\E m \in 1..K : has(m, g, i)) \/ has(K + 1, g, i)
      BY <2>2, <2>3
    <3>2. (\E m \in 1..K : has(m, g, i)) <=> Logged(j, g, i)
      BY <2>1, <2>4
    <3>3. has(K + 1, g, i) <=> g = e.group /\ i = e.set
      BY <2>1
    <3> QED BY <1>13, <3>1, <3>2, <3>3
  <2>6. ASSUME NEW l \in 1..(K + 1), NEW m \in 1..(K + 1),
               rows2.events[l].group = rows2.events[m].group,
               rows2.events[l].set = rows2.events[m].set
        PROVE  l = m
    <3>1. \A k \in 1..K : ~(rows.events[k].group = e.group /\ rows.events[k].set = e.set)
      BY <1>14, <2>4
    <3>2. CASE l \in 1..K /\ m \in 1..K
      BY <2>1, <2>4, <2>6, <3>2
    <3>3. CASE l \notin 1..K \/ m \notin 1..K
      BY <2>1, <2>2, <2>6, <3>1, <3>3
    <3> QED BY <3>2, <3>3
  <2>7. 1..Len(rows2.events) = 1..(K + 1)
    BY <2>1
  <2>8. \A g, i : (\E m \in 1..Len(rows2.events) : has(m, g, i)) <=> Logged(j2, g, i)
    <3> HIDE DEF has
    <3> TAKE g, i
    <3>1. (\E m \in 1..(K + 1) : has(m, g, i)) <=> Logged(j2, g, i)
      BY <2>5
    <3> QED BY ONLY <2>7, <3>1
  <2>9. \A l, m \in 1..Len(rows2.events) :
           rows2.events[l].group = rows2.events[m].group
           /\ rows2.events[l].set = rows2.events[m].set => l = m
    BY <2>6, <2>7
  <2>10. ASSUME NEW l \in 1..K
         PROVE  EarlierSet(rows.events[l], e)
    <3> DEFINE g == rows.events[l].group
               i == rows.events[l].set
    <3>1. Logged(j, g, i)
      BY <2>4
    <3> HIDE DEF g, i
    <3>2. IsSet(p, g, i) /\ (g <= done \/ (g = done + 1 /\ i + n <= L))
      BY <3>1 DEF Logged, AfterAck, p, done, n, L
    <3>3. g \in Nat /\ i \in Nat
      BY <1>2, <3>2, IsSetNumbers
    <3>4. i + n <= L => i < e.set
      BY <1>4, <1>7, <1>10, <3>3
    <3>5. g < e.group \/ (g = e.group /\ i < e.set)
      BY <1>7, <1>9, <3>2, <3>3, <3>4
    <3> QED BY <3>5 DEF EarlierSet, g, i
  <2>11. ASSUME NEW l \in 1..(K + 1), NEW m \in 1..(K + 1), l < m
         PROVE  EarlierSet(rows2.events[l], rows2.events[m])
    <3>1. l \in 1..K
      BY <2>1, <2>11
    <3>2. CASE m \in 1..K
      BY <2>1, <2>4, <2>11, <3>1, <3>2
    <3>3. CASE m = K + 1
      BY <2>1, <2>10, <3>1, <3>3
    <3> QED BY <2>2, <3>2, <3>3
  <2>12. \A l, m \in 1..Len(rows2.events) :
            l < m => EarlierSet(rows2.events[l], rows2.events[m])
    BY <2>7, <2>11
  <2> QED BY ONLY <2>8, <2>9, <2>12 DEF EventsInOrder
<1> QED BY <1>9, <1>11, <1>12, <1>15

LEMMA StartedOrder ==
    ASSUME NEW p \in Payloads, NEW original, NEW work, NEW rows2,
           original = NoEvent => work = WholeInterchange(p),
           rows2.acks = <<>>, rows2.dispatches = <<>>, rows2.events = <<>>
    PROVE  OrderInv(StartedJob(p, original, work), rows2)
<1> DEFINE j2 == StartedJob(p, original, work)
           N == Len(Groups(p))
           whole == WholeInterchange(p)
<1> SUFFICES OrderInv(j2, rows2)
  OBVIOUS
<1>1. /\ j2.artifact = p /\ j2.original = original /\ j2.work = work
      /\ j2.processed = <<>> /\ j2.pc = NextPc(work, original)
  BY DEF StartedJob, NoWork
<1>2. p # NoPayload
  BY PayloadsAssumption
<1> HIDE DEF j2
<1> SUFFICES ASSUME original = NoEvent
             PROVE  /\ Position(j2) /\ AcksInOrder(j2, rows2.acks)
                    /\ DispatchesInOrder(j2, rows2.dispatches)
                    /\ EventsInOrder(j2, rows2.events)
  BY <1>1, <1>2 DEF OrderInv, Whole
<1>3. j2.work = whole
  BY <1>1
<1>4. /\ N \in Nat /\ \A g \in 1..N : SetsIn(p, g) \in Nat
      /\ \A g, i : IsSet(p, g, i) <=> g \in 1..N /\ i \in 1..SetsIn(p, g)
  BY SetNumbers
<1>5. /\ whole \in Seq(WorkItem) /\ Len(whole) = N /\ DOMAIN whole = 1..N
      /\ \A g \in 1..N : whole[g] = [group |-> g, sets |-> [i \in 1..SetsIn(p, g) |-> i]]
  <2>1. whole = [g \in 1..N |-> [group |-> g, sets |-> [i \in 1..SetsIn(p, g) |-> i]]]
    BY DEF WholeInterchange, SetsIn
  <2> HIDE DEF whole, N
  <2>2. DOMAIN whole = 1..N
    BY <2>1
  <2> QED BY <2>1, <2>2, WholeWork DEF whole, N
<1>6. GroupsDone(j2) = 0
  BY <1>1, <1>3, <1>4, <1>5 DEF GroupsDone
<1>7. /\ j2.pc \in {"translate", "done"}
      /\ j2.pc = "translate" => whole # <<>>
  BY <1>1, <1>3 DEF NextPc
<1> HIDE DEF N, whole
<1>8. j2.pc \notin {"saveAck", "enqueue"} \cup AfterAck
  BY <1>7 DEF AfterAck
<1>9. Position(j2)
  <2>1. \A k \in DOMAIN j2.work :
           /\ j2.work[k].group = 0 + k
           /\ k # 1 => j2.work[k].sets = [i \in 1..SetsIn(p, 0 + k) |-> i]
    <3> SUFFICES ASSUME NEW k \in 1..N
                 PROVE  /\ whole[k].group = 0 + k
                        /\ whole[k].sets = [i \in 1..SetsIn(p, 0 + k) |-> i]
      BY <1>3, <1>5
    <3>1. 0 + k = k
      BY <1>4
    <3>2. whole[k] = [group |-> k, sets |-> [i \in 1..SetsIn(p, k) |-> i]]
      BY <1>5
    <3>3. whole[k].group = k /\ whole[k].sets = [i \in 1..SetsIn(p, k) |-> i]
      BY <3>2
    <3> HIDE <3>2
    <3> QED BY ONLY <3>1, <3>3
  <2>2. ASSUME j2.pc = "translate"
        PROVE  /\ Len(<<>>) + Len(Head(whole).sets) = SetsIn(p, 0 + 1)
               /\ \A m \in 1..Len(Head(whole).sets) : Head(whole).sets[m] = Len(<<>>) + m
    <3>1. 1 \in 1..N /\ Head(whole) = whole[1]
      BY <1>5, <1>7, <2>2
    <3>2. Head(whole).sets = [i \in 1..SetsIn(p, 1) |-> i] /\ SetsIn(p, 1) \in Nat
      BY <1>4, <1>5, <3>1
    <3>3. /\ Len(Head(whole).sets) = SetsIn(p, 1)
          /\ \A m \in 1..SetsIn(p, 1) : Head(whole).sets[m] = m
      BY <3>2
    <3> QED BY <3>2, <3>3
  <2>3. \A m \in 1..Len(<<>>) : <<>>[m].set = m
    OBVIOUS
  <2>4. Len(j2.work) <= Len(Groups(p))
    BY <1>3, <1>4, <1>5 DEF N
  <2> QED BY <1>1, <1>3, <1>6, <1>8, <2>1, <2>2, <2>3, <2>4 DEF Position
<1>10. Len(rows2.acks) = 0 /\ Len(rows2.dispatches) = 0 /\ Len(rows2.events) = 0
  OBVIOUS
<1>11. AcksInOrder(j2, rows2.acks) /\ DispatchesInOrder(j2, rows2.dispatches)
  BY <1>6, <1>8, <1>10 DEF AcksInOrder, DispatchesInOrder
<1>12. EventsInOrder(j2, rows2.events)
  <2>1. \A g, i : ~Logged(j2, g, i)
    BY <1>1, <1>4, <1>6, <1>8 DEF Logged
  <2> QED BY <1>10, <2>1 DEF EventsInOrder
<1> QED BY <1>9, <1>11, <1>12

(* The rows of a run whose item is closed, or that is over, stay in order. *)
LEMMA ClosedOrder ==
    ASSUME NEW j, NEW rows \in Tables, NEW n \in DOMAIN rows.events,
           NEW resolution \in {"dismissed", "reprocessed"},
           NEW resolvedTo \in EventIds \cup {NoEvent}, OrderInv(j, rows)
    PROVE  OrderInv(j, ClosedIn(rows, n, resolution, resolvedTo))
<1> DEFINE rows2 == ClosedIn(rows, n, resolution, resolvedTo)
<1>1. /\ rows2.acks = rows.acks /\ rows2.dispatches = rows.dispatches
      /\ Len(rows2.events) = Len(rows.events) /\ DOMAIN rows2.events = DOMAIN rows.events
      /\ rows2.events[n] = ClosedRow(rows.events[n], resolution, resolvedTo)
      /\ \A m \in DOMAIN rows.events : m # n => rows2.events[m] = rows.events[m]
  BY ClosedRows
<1>2. rows.events \in Seq(LedgerRow) /\ DOMAIN rows.events = 1..Len(rows.events)
  BY DEF Tables
<1>3. \A m \in 1..Len(rows.events) : /\ rows2.events[m].group = rows.events[m].group
                                     /\ rows2.events[m].set = rows.events[m].set
  <2> TAKE m \in 1..Len(rows.events)
  <2>1. rows.events[n] \in LedgerRow
    BY <1>2
  <2>2. /\ rows2.events[n].group = rows.events[n].group
        /\ rows2.events[n].set = rows.events[n].set
    BY <1>1, <2>1, ClosedRowType
  <2>3. CASE m = n
    BY <2>2, <2>3
  <2>4. CASE m # n
    BY <1>1, <1>2, <2>4
  <2> QED BY <2>3, <2>4
<1> HIDE DEF rows2
<1>4. EventsInOrder(j, rows.events) => EventsInOrder(j, rows2.events)
  BY <1>1, <1>3 DEF EventsInOrder, EarlierSet
<1>5. OrderInv(j, rows2)
  BY <1>1, <1>4 DEF OrderInv
<1> QED BY <1>5 DEF rows2

LEMMA DoneOrder ==
    ASSUME NEW j \in Job, NEW rows, OrderInv(j, rows), j.original # NoEvent
    PROVE  OrderInv([j EXCEPT !.pc = "done"], rows)
BY DEF Job, OrderInv, Whole

(* Every move of a run keeps its order.                                    *)
LEMMA RunMoveOrder ==
    ASSUME NEW j \in Job, NEW docs, NEW rows \in Tables, NEW j2, NEW docs2, NEW rows2,
           RunInv(j, docs, rows), OrderInv(j, rows),
           RunMove(j, docs, rows, j2, docs2, rows2)
    PROVE  OrderInv(j2, rows2)
<1>0. WorkInHand(j)
  BY DEF RunInv
<1>1. CASE Takes(j, docs, rows, j2, docs2, rows2)
  BY <1>0, <1>1, TakenOrder DEF Takes
<1>2. CASE \/ Fails(j, docs, rows, j2, docs2, rows2)
           \/ DrawsAck(j, docs, rows, j2, docs2, rows2)
  <2>1. /\ j.pc = "translate" /\ j2.pc \in {"failed", "saveAck"} /\ rows2 = rows
        /\ j2.artifact = j.artifact /\ j2.original = j.original
        /\ j2.work = j.work /\ j2.processed = j.processed
    BY <1>2 DEF Fails, DrawsAck, Job
  <2> QED BY <2>1, PhaseOrder
<1>3. CASE SavesAck(j, docs, rows, j2, docs2, rows2)
  BY <1>0, <1>3, AckSavedOrder DEF SavesAck
<1>4. CASE Queues(j, docs, rows, j2, docs2, rows2)
  BY <1>0, <1>4, QueuedOrder DEF Queues
<1>5. CASE \/ Stores(j, docs, rows, j2, docs2, rows2)
           \/ RecordsDelivery(j, docs, rows, j2, docs2, rows2)
  <2>1. /\ j.pc \in {"store", "recordDelivery"} /\ j2.pc \in {"recordDelivery", "log"}
        /\ j2.artifact = j.artifact /\ j2.original = j.original
        /\ j2.work = j.work /\ j2.processed = j.processed
        /\ rows2.acks = rows.acks /\ rows2.dispatches = rows.dispatches
        /\ rows2.events = rows.events
    BY <1>5 DEF Stores, RecordsDelivery, Job, Tables
  <2>2. j.pc \in AfterAck /\ j2.pc \in AfterAck
    BY <2>1 DEF AfterAck
  <2> QED BY <2>1, <2>2, PhaseOrder
<1>6. CASE Logs(j, docs, rows, j2, docs2, rows2)
  <2>1. PICK key \in Keys : rows2 = [rows EXCEPT !.events = Append(@, EventFor(j, key))]
    BY <1>6 DEF Logs
  <2>2. j.pc = "log" /\ j2 = Continue(j, Tail(j.processed))
    BY <1>6 DEF Logs
  <2> DEFINE e == EventFor(j, key)
  <2>3. e \in LedgerRow /\ IsSet(e.artifact, e.group, e.set)
    <3>1. e \in LedgerRow /\ \E jj, rr : EventStands(jj, docs, rr, e)
      BY <2>2, LoggedRun
    <3> QED BY <3>1 DEF EventStands
  <2>4. /\ e.group = Head(j.work).group /\ e.set = Head(j.processed).set
        /\ e.artifact = j.artifact
    BY DEF EventFor
  <2> HIDE DEF e
  <2> QED BY <1>0, <2>1, <2>2, <2>3, <2>4, LoggedOrder DEF e
<1>7. CASE Starts(j, docs, rows, j2, docs2, rows2)
  <2>1. PICK p \in Payloads, work \in Seq(WorkItem) :
           /\ j.original = NoEvent => work = WholeInterchange(p)
           /\ j2 = StartedJob(p, j.original, work)
           /\ rows2 = [NoRows EXCEPT !.interchanges = Append(@, p)]
    BY <1>7 DEF Starts
  <2>2. rows2.acks = <<>> /\ rows2.dispatches = <<>> /\ rows2.events = <<>>
    BY <2>1 DEF NoRows
  <2> QED BY <2>1, <2>2, StartedOrder
<1>8. CASE \/ Refused(j, docs, rows, j2, docs2, rows2)
           \/ Asked(j, docs, rows, j2, docs2, rows2)
  <2>1. j2.artifact = NoPayload /\ rows2.acks = <<>>
    BY <1>8, NoWorkType DEF Refused, Asked, NoWork, NoRows
  <2> QED BY <2>1 DEF OrderInv, Whole
<1> QED BY <1>1, <1>2, <1>3, <1>4, <1>5, <1>6, <1>7, <1>8 DEF RunMove, WorkMove

-------------------------------------------------------------------------------
(***************************************************************************)
(* The order holds of every handler's run.                                 *)
(***************************************************************************)
OrderHolds == \A h \in Handlers : OrderInv(job[h], tables[h])

LEMMA MoveKeepsOrder ==
    ASSUME PipelineInv, OrderHolds, NEW h \in Handlers, MoveOf(h)
    PROVE  OrderHolds'
<1>1. PICK j2, docs2, rows2 :
         /\ Moved(h, j2, docs2, rows2)
         /\ RunMove(job[h], pushed[h], tables[h], j2, docs2, rows2)
  BY DEF MoveOf
<1>2. /\ job[h] \in Job /\ tables[h] \in Tables
      /\ RunInv(job[h], pushed[h], tables[h]) /\ OrderInv(job[h], tables[h])
  BY PipelineTypes DEF PipelineInv, RunsHold, OrderHolds
<1>3. OrderInv(j2, rows2)
  BY <1>1, <1>2, RunMoveOrder
<1>4. /\ job'[h] = j2 /\ tables'[h] = rows2
      /\ \A g \in Handlers \ {h} : job'[g] = job[g] /\ tables'[g] = tables[g]
  BY <1>1, PipelineTypes DEF Moved, PipelineInv
<1> QED BY <1>3, <1>4 DEF OrderHolds

LEMMA OrderStep == PipelineInv /\ OrderHolds /\ [ResolverNext]_vars => OrderHolds'
<1> SUFFICES ASSUME PipelineInv, OrderHolds, [ResolverNext]_vars PROVE OrderHolds'
  OBVIOUS
<1>1. CASE UNCHANGED <<job, tables>>
  BY <1>1 DEF OrderHolds
<1>2. CASE ResolverNext
  <2>1. PICK h \in Handlers : StepOf(h)
    BY <1>2, ResolverSteps
  <2>2. CASE GateStep(h)
    BY <1>1, <2>2 DEF GateStep, pipelineVars
  <2>3. CASE Dismiss(h) \/ StampReprocessed(h)
    <3>1. PICK resolution \in {"dismissed", "reprocessed"},
               resolvedTo \in EventIds \cup {NoEvent} :
             Resolve(h, resolution, resolvedTo) /\ job[h].pc \in {"dismiss", "stamp"}
      BY <2>3, Closings
    <3> DEFINE id == job[h].original
               closed == ClosedIn(tables[id[1]], id[2], resolution, resolvedTo)
    <3>2. /\ id[1] \in Handlers /\ id[2] \in DOMAIN tables[id[1]].events
          /\ tables' = [tables EXCEPT ![id[1]] = closed]
      BY <3>1, ResolveKeeps
    <3>3. id # NoEvent
      BY <3>1 DEF PipelineInv, Standing, StandsAt
    <3>4. /\ job \in [Handlers -> Job] /\ tables \in [Handlers -> Tables]
          /\ job[h] \in Job /\ tables[id[1]] \in Tables
      BY <3>2, PipelineTypes DEF PipelineInv
    <3>5. job' = [job EXCEPT ![h].pc = "done"]
      BY <3>1 DEF Resolve
    <3>6. OrderInv([job[h] EXCEPT !.pc = "done"], tables[h])
      BY <3>3, <3>4, DoneOrder DEF OrderHolds
    <3> SUFFICES ASSUME NEW g \in Handlers PROVE OrderInv(job'[g], tables'[g])
      BY DEF OrderHolds
    <3>7. OrderInv(job'[g], tables[g])
      BY <3>4, <3>5, <3>6 DEF OrderHolds
    <3> HIDE DEF id
    <3>8. CASE g = id[1]
      <4>1. OrderInv(job'[g], closed)
        <5> HIDE DEF closed
        <5> QED BY <3>2, <3>4, <3>7, <3>8, ClosedOrder DEF closed
      <4>2. tables'[g] = closed
        BY <3>2, <3>4, <3>8
      <4> QED BY <4>1, <4>2
    <3>9. CASE g # id[1]
      BY <3>2, <3>4, <3>7, <3>9
    <3> QED BY <3>8, <3>9
  <2> QED BY <2>1, <2>2, <2>3, WorksKeeps, ShortCircuitKeeps, ProcessAcceptedKeeps, AskKeeps,
             ReprocessKeeps, MoveKeepsOrder DEF StepOf
<1> QED BY <1>1, <1>2 DEF vars, pipelineVars

(* Receipts work through their interchange in order, with rows to match.   *)
THEOREM RunsAreInOrder == ResolverSpec => []OrderHolds
<1>1. PipelineInit => OrderHolds
  BY NoWorkType DEF PipelineInit, OrderHolds, OrderInv, Whole
<1> QED BY <1>1, OrderStep, RunsAreWhole, PTL DEF ResolverSpec

(* A 997 accepts exactly the sets of its group that the customer has, and  *)
(* answers a receipt's group set by set in the order received.             *)
THEOREM AckIsTrue ==
    /\ PipelineSpec => []AckTellsTheTruth
    /\ ResolverSpec => []AckTellsTheTruth
<1>1. PipelineInv /\ OrderHolds => AckTellsTheTruth
  <2> SUFFICES ASSUME PipelineInv, OrderHolds,
                      NEW h \in Handlers, NEW a \in Elements(tables[h].acks)
               PROVE  /\ \A n \in DOMAIN a.accepted :
                            a.accepted[n].code <=> Pushed(h, a.group, a.accepted[n].set)
                      /\ Fresh(h) => [n \in DOMAIN a.accepted |-> a.accepted[n].set]
                                       = WholeInterchange(job[h].artifact)[a.group].sets
    BY DEF AckTellsTheTruth
  <2>1. \A n \in DOMAIN a.accepted :
           a.accepted[n].code <=> Pushed(h, a.group, a.accepted[n].set)
    BY DEF PipelineInv, RunsHold, RunInv, AcksPast, InDocs, Pushed
  <2>2. ASSUME Fresh(h)
        PROVE  [n \in DOMAIN a.accepted |-> a.accepted[n].set]
                  = WholeInterchange(job[h].artifact)[a.group].sets
    <3> DEFINE p == job[h].artifact
               acks == tables[h].acks
               AckRow == [group : Nat, no : Nat, accepted : Seq([set : Nat, code : BOOLEAN])]
    <3>1. acks \in Seq(AckRow) /\ job[h] \in Job
      BY PipelineTypes DEF PipelineInv, Tables
    <3>2. PICK k \in 1..Len(acks) : a = acks[k]
      BY <3>1 DEF Elements
    <3>3. acks # <<>> /\ a \in AckRow
      <4> HIDE DEF AckRow, acks
      <4> QED BY <3>1, <3>2
    <3>4. Whole(job[h]) /\ p \in Payloads
      BY <2>2, <3>1, <3>3 DEF OrderHolds, OrderInv, Whole, Fresh, Job
    <3>5. /\ a.group = k /\ k \in 1..Len(Groups(p))
          /\ Len(a.accepted) = SetsIn(p, k)
          /\ \A n \in 1..Len(a.accepted) : a.accepted[n].set = n
      BY <3>2, <3>4 DEF OrderHolds, OrderInv, AcksInOrder
    <3>6. DOMAIN a.accepted = 1..Len(a.accepted)
      BY <3>3
    <3>7. WholeInterchange(p)[k].sets = [i \in 1..SetsIn(p, k) |-> i]
      BY <3>5 DEF WholeInterchange, SetsIn
    <3>8. [n \in DOMAIN a.accepted |-> a.accepted[n].set] = [n \in 1..SetsIn(p, k) |-> n]
      BY <3>5, <3>6
    <3> QED BY <3>5, <3>7, <3>8
  <2> QED BY <2>1, <2>2
<1>2. ResolverSpec => []AckTellsTheTruth
  BY <1>1, RunsAreWhole, RunsAreInOrder, PTL
<1> QED BY <1>2, PipelineIsPart, PTL

(* A receipt that ends without an exception has one event per transaction  *)
(* set and one queued 997 per functional group, each in the order received.*)
THEOREM DoneIsComplete ==
    /\ PipelineSpec => []CompletedRunAccountsForAll
    /\ ResolverSpec => []CompletedRunAccountsForAll
<1>1. PipelineInv /\ OrderHolds => CompletedRunAccountsForAll
  <2> SUFFICES ASSUME PipelineInv, OrderHolds, NEW h \in Handlers,
                      job[h].pc = "done", receipt[h] = "accepted"
               PROVE  LET p == carried[h]
                          rows == tables[h]
                      IN  /\ {<<e.group, e.set>> : e \in Elements(rows.events)}
                                = UNION {{<<g, i>> : i \in 1..Len(Groups(p)[g].sets)} :
                                            g \in 1..Len(Groups(p))}
                          /\ \A m, n \in DOMAIN rows.events :
                                m < n => EarlierSet(rows.events[m], rows.events[n])
                          /\ [n \in DOMAIN rows.acks |-> rows.acks[n].group]
                                = [g \in 1..Len(Groups(p)) |-> g]
                          /\ rows.dispatches = [n \in DOMAIN rows.acks |-> n]
    BY DEF CompletedRunAccountsForAll
  <2> DEFINE j == job[h]
             rows == tables[h]
             p == j.artifact
             N == Len(Groups(p))
             AckRow == [group : Nat, no : Nat, accepted : Seq([set : Nat, code : BOOLEAN])]
  <2>1. StandsAt(h) /\ HandlersAgree /\ job[h] \in Job /\ TypeOK
    BY PipelineTypes DEF PipelineInv, Standing, RegistrationInv, PipelineTypeOK
  <2>2. stage[h] # "idle"
    BY <2>1 DEF HandlersAgree
  <2>3. Whole(j) /\ carried[h] = p /\ p \in Payloads
    BY <2>1, <2>2 DEF StandsAt, Whole, Job
  <2>4. j.work = <<>>
    BY DEF PipelineInv, RunsHold, RunInv, WorkInHand, Working, AfterAck
  <2>5. GroupsDone(j) = N /\ N \in Nat
    BY <2>3, <2>4, SetNumbers DEF GroupsDone
  <2>6. j.pc \notin {"enqueue"} \cup AfterAck
    BY DEF AfterAck
  <2>7. /\ AcksInOrder(j, rows.acks) /\ DispatchesInOrder(j, rows.dispatches)
        /\ EventsInOrder(j, rows.events)
    BY <2>3 DEF OrderHolds, OrderInv
  <2>8. /\ rows.acks \in Seq(AckRow) /\ rows.dispatches \in Seq(Nat)
        /\ rows.events \in Seq(LedgerRow)
    BY PipelineTypes DEF PipelineInv, Tables
  <2>9. /\ DOMAIN rows.acks = 1..Len(rows.acks)
        /\ rows.dispatches = [n \in 1..Len(rows.dispatches) |-> rows.dispatches[n]]
        /\ DOMAIN rows.events = 1..Len(rows.events) /\ Len(rows.events) \in Nat
    BY <2>8
  <2> HIDE DEF j, rows, p, N, AckRow
  <2>10. Len(rows.acks) = N /\ \A n \in 1..N : rows.acks[n].group = n
    BY <2>5, <2>6, <2>7 DEF AcksInOrder
  <2>11. Len(rows.dispatches) = N /\ \A n \in 1..N : rows.dispatches[n] = n
    BY <2>5, <2>6, <2>7 DEF DispatchesInOrder
  <2>12. [n \in DOMAIN rows.acks |-> rows.acks[n].group] = [g \in 1..N |-> g]
    BY <2>9, <2>10
  <2>13. rows.dispatches = [n \in DOMAIN rows.acks |-> n]
    BY <2>9, <2>10, <2>11
  <2>14. \A g, i : (\E n \in 1..Len(rows.events) :
                       rows.events[n].group = g /\ rows.events[n].set = i) <=> IsSet(p, g, i)
    <3>1. \A g, i : IsSet(p, g, i) => g \in 1..N
      BY <2>3, SetNumbers DEF N
    <3>2. \A g, i : Logged(j, g, i) <=> IsSet(p, g, i)
      <4>1. ASSUME NEW g, NEW i PROVE Logged(j, g, i) <=> IsSet(p, g, i)
        <5>1. IsSet(p, g, i) => g <= N
          BY <2>5, <3>1
        <5> QED BY <2>5, <2>6, <5>1 DEF Logged, p
      <4> QED BY <4>1
    <3> QED BY <2>7, <3>2 DEF EventsInOrder
  <2>15. {<<e.group, e.set>> : e \in Elements(rows.events)}
            = UNION {{<<g, i>> : i \in 1..Len(Groups(p)[g].sets)} : g \in 1..N}
    <3> DEFINE all == UNION {{<<g, i>> : i \in 1..Len(Groups(p)[g].sets)} : g \in 1..N}
               logged == {<<e.group, e.set>> : e \in Elements(rows.events)}
    <3>1. \A c \in all : \E g, i : c = <<g, i>> /\ IsSet(p, g, i)
      BY <2>3, SetNumbers DEF N, SetsIn
    <3>2. \A g, i : IsSet(p, g, i) => <<g, i>> \in all
      BY <2>3, SetNumbers DEF N, SetsIn
    <3>3. \A c \in logged : \E n \in 1..Len(rows.events) :
             c = <<rows.events[n].group, rows.events[n].set>>
      BY <2>9 DEF Elements
    <3>4. \A n \in 1..Len(rows.events) : <<rows.events[n].group, rows.events[n].set>> \in logged
      BY <2>9 DEF Elements
    <3> HIDE DEF all, logged
    <3>5. logged \subseteq all
      BY <2>14, <3>2, <3>3
    <3>6. all \subseteq logged
      BY <2>14, <3>1, <3>4
    <3> QED BY <3>5, <3>6 DEF all, logged
  <2>16. \A m, n \in DOMAIN rows.events :
            m < n => EarlierSet(rows.events[m], rows.events[n])
    BY <2>7, <2>9 DEF EventsInOrder
  <2> QED BY <2>3, <2>12, <2>13, <2>15, <2>16 DEF N, p, rows, j
<1>2. ResolverSpec => []CompletedRunAccountsForAll
  BY <1>1, RunsAreWhole, RunsAreInOrder, PTL
<1> QED BY <1>2, PipelineIsPart, PTL
===============================================================================
