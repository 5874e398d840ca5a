----------------------------- MODULE ShopifyProofs -----------------------------
(***************************************************************************)
(* What the shop's webhook guarantees, for any number of deliveries of any *)
(* webhooks, interleaved at every await, stopped anywhere, while operators *)
(* edit registrations and catalog.                                         *)
(* The argument: a delivery works through its split in order, so what it   *)
(* has saved is the orders up to where it stands; the tables only grow, so *)
(* that this stays true whatever the others do; every event is of a        *)
(* delivery that was processed, which is what a duplicate is told against. *)
(***************************************************************************)
EXTENDS ShopifyWebhook, TLAPS, SequenceTheorems, FiniteSetTheorems

-------------------------------------------------------------------------------
(* The inductive invariant.  `kept`, `orders` and `events` are the tables  *)
(* of bodies, of placed orders and of processing events.                   *)
IsSequence(s) == Len(s) \in Nat /\ s = [n \in 1..Len(s) |-> s[n]]

IsDelivery(q) ==
    /\ q = [webhook |-> q.webhook, pc |-> q.pc, reg |-> q.reg, rows |-> q.rows,
            split |-> q.split, artifact |-> q.artifact, number |-> q.number,
            saved |-> q.saved, checked |-> q.checked, event |-> q.event]
    /\ q.webhook \in Webhooks
    /\ q.pc \in Underway \cup Ended
    /\ IsSequence(q.split.orders)
    /\ IsSequence(q.saved)
    /\ q.checked \in Nat /\ q.event \in Nat

(* Which events are of the tenant and key of q.                            *)
Tells(e, q) == e.tenant = q.reg.tenant /\ e.key = KeyOfWebhook(q.webhook)

(* Nothing is placed before the body is kept, and the n-th order saved is  *)
(* the n-th of the split: all of it when the loop is through, nothing of a *)
(* split that is held.                                                     *)
PlacesItsSplit(q, kept, orders) ==
    /\ q.pc \in {"shop", "catalog", "ledger", "artifact", "refused", "skipped", "duplicate"}
          => q.saved = <<>>
    /\ q.pc \in {"number", "save", "record", "processed"}
          => q.artifact \in DOMAIN kept /\ kept[q.artifact] = q.webhook
    /\ \A n \in DOMAIN q.saved :
          /\ q.saved[n] \in DOMAIN orders
          /\ n \in DOMAIN q.split.orders
          /\ orders[q.saved[n]].order = q.split.orders[n]
    /\ q.pc \in {"number", "save"}
          => q.split.unmapped = <<>> /\ Len(q.saved) < Len(q.split.orders)
    /\ q.pc \in {"record", "processed"}
          => IF q.split.unmapped = <<>> THEN Len(q.saved) = Len(q.split.orders)
                                        ELSE q.saved = <<>>

(* What was in the ledger when q looked is not of its key; a duplicate is  *)
(* told against an event; a processed delivery has one of its own.         *)
KnowsTheLedger(q, events) ==
    /\ q.pc \in {"shop", "catalog", "ledger"} => q.checked = 0
    /\ \A n \in 1..q.checked : n \in DOMAIN events /\ ~Tells(events[n], q)
    /\ q.pc = "duplicate" => \E n \in DOMAIN events : Tells(events[n], q)
    /\ q.event # 0 <=> q.pc = "processed"
    /\ q.event # 0 =>
          /\ q.event \in DOMAIN events
          /\ Tells(events[q.event], q)
          /\ events[q.event].held <=> q.split.unmapped # <<>>
          /\ events[q.event].artifact = q.artifact

Sound(q, kept, orders, events) ==
    IsDelivery(q) /\ PlacesItsSplit(q, kept, orders) /\ KnowsTheLedger(q, events)

DeliveryInv ==
    /\ IsSequence(requests) /\ IsSequence(bodies) /\ IsSequence(placed) /\ IsSequence(shopLedger)
    /\ \A r \in DOMAIN requests : Sound(requests[r], bodies, placed, shopLedger)
    /\ \A n \in DOMAIN shopLedger : \E r \in DOMAIN requests : requests[r].event = n

(* The number a delivery has drawn and not yet used is nobody else's.      *)
Wanted(q) == <<q.reg.tenant, q.split.orders[Len(q.saved) + 1].vendor>>
ScopeOf(row) == <<row.tenant, row.order.vendor>>

Issued(scope, number, seq) == scope \in DOMAIN seq /\ number \in 1..seq[scope]

NumbersHold(deliveries, orders, seq) ==
    /\ \A s \in DOMAIN seq : seq[s] \in Nat
    /\ \A n \in DOMAIN orders : Issued(ScopeOf(orders[n]), orders[n].number, seq)
    /\ \A m, n \in DOMAIN orders :
          m # n /\ ScopeOf(orders[m]) = ScopeOf(orders[n]) => orders[m].number # orders[n].number
    /\ \A r \in DOMAIN deliveries : deliveries[r].pc = "save" =>
          /\ Issued(Wanted(deliveries[r]), deliveries[r].number, seq)
          /\ \A n \in DOMAIN orders : ScopeOf(orders[n]) = Wanted(deliveries[r])
                                          => orders[n].number # deliveries[r].number
    /\ \A q, r \in DOMAIN deliveries :
          /\ q # r /\ deliveries[q].pc = "save" /\ deliveries[r].pc = "save"
          /\ Wanted(deliveries[q]) = Wanted(deliveries[r])
          => deliveries[q].number # deliveries[r].number

NumbersInv == NumbersHold(requests, placed, vendorSeq)

-------------------------------------------------------------------------------
(* Sequences and the tables made of them.                                  *)
LEMMA SequenceIsSeq ==
    ASSUME NEW s, IsSequence(s), NEW S, \A n \in 1..Len(s) : s[n] \in S
    PROVE  s \in Seq(S)
<1>1. s \in [1..Len(s) -> S]
  BY DEF IsSequence
<1> QED BY <1>1, SeqDef DEF IsSequence

LEMMA SeqIsSequence ==
    ASSUME NEW S, NEW s \in Seq(S)
    PROVE  IsSequence(s) /\ DOMAIN s = 1..Len(s)
<1>1. Len(s) \in Nat /\ s \in [1..Len(s) -> S]
  BY LenProperties
<1> QED BY <1>1 DEF IsSequence

LEMMA SequenceDomain ==
    ASSUME NEW s, IsSequence(s)
    PROVE  DOMAIN s = 1..Len(s)
BY DEF IsSequence

LEMMA FunctionIsSequence ==
    ASSUME NEW f, NEW n \in Nat, f = [k \in 1..n |-> f[k]]
    PROVE  IsSequence(f) /\ Len(f) = n /\ DOMAIN f = 1..n
<1> DEFINE S == {f[k] : k \in 1..n}
<1>1. f \in [1..n -> S]
  OBVIOUS
<1> HIDE DEF S
<1>2. f \in Seq(S)
  BY <1>1, SeqDef
<1>3. Len(f) = n
  BY <1>1, <1>2, LenProperties
<1> QED BY <1>2, <1>3, SeqIsSequence

LEMMA EmptyIsSequence == IsSequence(<<>>) /\ Len(<<>>) = 0 /\ DOMAIN <<>> = {}
<1>1. <<>> \in Seq({}) /\ Len(<<>>) = 0
  BY EmptySeq
<1>2. IsSequence(<<>>) /\ DOMAIN <<>> = 1..Len(<<>>)
  BY <1>1, SeqIsSequence
<1>3. 1..0 = {}
  OBVIOUS
<1> QED BY <1>1, <1>2, <1>3, Zenon

LEMMA Appended ==
    ASSUME NEW s, IsSequence(s), NEW e
    PROVE  /\ IsSequence(Append(s, e))
           /\ Len(Append(s, e)) = Len(s) + 1
           /\ DOMAIN Append(s, e) = 1..(Len(s) + 1)
           /\ Append(s, e)[Len(s) + 1] = e
           /\ \A n \in DOMAIN s : Append(s, e)[n] = s[n]
<1> DEFINE S == {s[n] : n \in 1..Len(s)} \cup {e}
<1>1. s \in Seq(S) /\ e \in S
  BY SequenceIsSeq
<1> HIDE DEF S
<1>2. /\ Append(s, e) \in Seq(S)
      /\ Len(Append(s, e)) = Len(s) + 1
      /\ \A n \in 1..Len(s) : Append(s, e)[n] = s[n]
      /\ Append(s, e)[Len(s) + 1] = e
  BY <1>1, AppendProperties
<1> QED BY <1>1, <1>2, SeqIsSequence, SequenceDomain

(* A table that has only been added to.                                    *)
Grown(s, t) == DOMAIN s \subseteq DOMAIN t /\ \A n \in DOMAIN s : t[n] = s[n]

LEMMA AppendGrows ==
    ASSUME NEW s, IsSequence(s), NEW e
    PROVE  Grown(s, Append(s, e)) /\ DOMAIN Append(s, e) = DOMAIN s \cup {Len(s) + 1}
BY Appended, SequenceDomain DEF Grown, IsSequence

LEMMA SameIsGrown == \A s : Grown(s, s)
BY DEF Grown

(* What is true of a delivery stays true when others add to the tables.    *)
LEMMA SoundStays ==
    ASSUME NEW q, NEW b, NEW p, NEW e, NEW b2, NEW p2, NEW e2,
           Grown(b, b2), Grown(p, p2), Grown(e, e2), Sound(q, b, p, e)
    PROVE  Sound(q, b2, p2, e2)
<1>1. PlacesItsSplit(q, b2, p2)
  BY DEF Sound, PlacesItsSplit, Grown
<1>2. KnowsTheLedger(q, e2)
  <2>1. \A n \in DOMAIN e : n \in DOMAIN e2 /\ e2[n] = e[n]
    BY DEF Grown
  <2> QED BY <2>1 DEF Sound, KnowsTheLedger
<1> QED BY <1>1, <1>2 DEF Sound

-------------------------------------------------------------------------------
(* The split is a sequence of orders, because the lines of an order are.   *)
LEMMA RouteIsSequence ==
    ASSUME NEW w \in Webhooks, NEW resolver
    PROVE  IsSequence(Route(ToCanonical(w.order), resolver).orders)
<1> DEFINE lines == ToCanonical(w.order).lines
           Found(n) == IF lines[n].sku = <<>> THEN <<>> ELSE Resolve(lines[n].sku, resolver)
           routed == {n \in DOMAIN lines : Found(n) # <<>>}
           Vendor(n) == Head(Found(n)).vendor
           Siblings(n) == {m \in routed : Vendor(m) = Vendor(n)}
           firsts == {n \in routed : \A m \in Siblings(n) : n <= m}
<1>1. DOMAIN lines = DOMAIN w.order.lines
  BY DEF ToCanonical
<1>2. IsFiniteSet(DOMAIN w.order.lines)
  <2>1. w.order.lines \in Seq(ToSet(w.order.lines))
    BY ShopifyAssumption
  <2>2. Len(w.order.lines) \in Nat /\ DOMAIN w.order.lines = 1..Len(w.order.lines)
    BY <2>1, LenProperties
  <2>3. IsFiniteSet(1..Len(w.order.lines))
    <3>1. 1 \in Int /\ Len(w.order.lines) \in Int
      BY <2>2
    <3> QED BY <3>1, FS_Interval
  <2> QED BY <2>2, <2>3, Zenon
<1>3. firsts \subseteq DOMAIN w.order.lines
  BY <1>1
<1>4. Cardinality(firsts) \in Nat
  BY <1>2, <1>3, FS_Subset, FS_CardinalityType
<1>5. DOMAIN InOrder(firsts) = 1..Cardinality(firsts)
  BY DEF InOrder
<1> DEFINE orders == Route(ToCanonical(w.order), resolver).orders
<1>6. orders = [k \in DOMAIN InOrder(firsts) |-> orders[k]]
  BY DEF Route
<1> HIDE DEF firsts, orders
<1>7. orders = [k \in 1..Cardinality(firsts) |-> orders[k]]
  BY <1>5, <1>6
<1>8. IsSequence(orders)
  BY <1>4, <1>7, FunctionIsSequence
<1> QED BY <1>8 DEF orders

-------------------------------------------------------------------------------
(* One delivery becomes q, and the tables have at most grown: by an event  *)
(* only if it is the event of q.                                           *)
LEMMA OneMoves ==
    ASSUME DeliveryInv, NEW r \in DOMAIN requests, NEW q,
           requests' = [requests EXCEPT ![r] = q],
           IsSequence(bodies'), IsSequence(placed'), IsSequence(shopLedger'),
           Grown(bodies, bodies'), Grown(placed, placed'), Grown(shopLedger, shopLedger'),
           Sound(q, bodies', placed', shopLedger'),
           requests[r].event \in {0, q.event},
           \A n \in DOMAIN shopLedger' : n \in DOMAIN shopLedger \/ n = q.event
    PROVE  DeliveryInv'
<1>1. /\ DOMAIN requests' = DOMAIN requests
      /\ requests'[r] = q
      /\ \A k \in DOMAIN requests \ {r} : requests'[k] = requests[k]
  OBVIOUS
<1>2. IsSequence(requests')
  <2>1. Len(requests) \in Nat /\ DOMAIN requests = 1..Len(requests)
    BY SequenceDomain DEF DeliveryInv, IsSequence
  <2>2. requests' = [k \in 1..Len(requests) |-> requests'[k]]
    BY <2>1
  <2> QED BY <2>1, <2>2, FunctionIsSequence
<1>3. \A k \in DOMAIN requests' : Sound(requests'[k], bodies', placed', shopLedger')
  <2> SUFFICES ASSUME NEW k \in DOMAIN requests \ {r}
               PROVE  Sound(requests[k], bodies', placed', shopLedger')
    BY <1>1
  <2>1. Sound(requests[k], bodies, placed, shopLedger)
    BY DEF DeliveryInv
  <2> QED BY <2>1, SoundStays
<1>4. \A n \in DOMAIN shopLedger' : \E k \in DOMAIN requests' : requests'[k].event = n
  <2> SUFFICES ASSUME NEW n \in DOMAIN shopLedger'
               PROVE  \E k \in DOMAIN requests : requests'[k].event = n
    BY <1>1
  <2>1. CASE n = q.event
    BY <1>1, <2>1
  <2>2. CASE n # q.event
    <3>1. n \in DOMAIN shopLedger /\ n # 0
      BY <2>2, SequenceDomain DEF DeliveryInv, IsSequence
    <3>2. PICK k \in DOMAIN requests : requests[k].event = n
      BY <3>1 DEF DeliveryInv
    <3>3. k # r
      BY <2>2, <3>1, <3>2
    <3> QED BY <1>1, <3>2, <3>3
  <2> QED BY <2>1, <2>2
<1>5. /\ IsSequence(requests)' /\ IsSequence(bodies)' /\ IsSequence(placed)'
      /\ IsSequence(shopLedger)'
  BY <1>2 DEF IsSequence
<1>6. (\A k \in DOMAIN requests : Sound(requests[k], bodies, placed, shopLedger))'
  BY <1>3
<1> QED BY <1>4, <1>5, <1>6 DEF DeliveryInv

(* The tables are as they were.                                            *)
LEMMA OneMovesAlone ==
    ASSUME DeliveryInv, NEW r \in DOMAIN requests, NEW q,
           requests' = [requests EXCEPT ![r] = q],
           UNCHANGED <<bodies, placed, shopLedger>>,
           Sound(q, bodies, placed, shopLedger), requests[r].event \in {0, q.event}
    PROVE  DeliveryInv'
<1>1. IsSequence(bodies) /\ IsSequence(placed) /\ IsSequence(shopLedger)
  BY DEF DeliveryInv
<1>2. bodies' = bodies /\ placed' = placed /\ shopLedger' = shopLedger
  OBVIOUS
<1> QED BY <1>1, <1>2, SameIsGrown, OneMoves, Zenon

-------------------------------------------------------------------------------
(* The steps of a delivery.                                                *)
LEMMA DeliveryStops ==
    ASSUME DeliveryInv, NEW r \in DOMAIN requests, StopDelivery(r)
    PROVE  DeliveryInv'
<1> DEFINE old == requests[r]
           q == [old EXCEPT !.pc = "stopped"]
<1>1. Sound(old, bodies, placed, shopLedger)
  BY DEF DeliveryInv
<1>2. old.pc \in Underway
  BY DEF StopDelivery
<1>3. /\ requests' = [requests EXCEPT ![r] = q]
      /\ UNCHANGED <<bodies, placed, shopLedger>>
  BY DEF StopDelivery
<1> HIDE DEF old
<1>4. q = [webhook |-> old.webhook, pc |-> "stopped", reg |-> old.reg, rows |-> old.rows,
           split |-> old.split, artifact |-> old.artifact, number |-> old.number,
           saved |-> old.saved, checked |-> old.checked, event |-> old.event]
  BY <1>1 DEF Sound, IsDelivery
<1> HIDE DEF q
<1>5. IsDelivery(q)
  BY <1>1, <1>4 DEF Sound, IsDelivery, Underway, Ended
<1>6. PlacesItsSplit(q, bodies, placed)
  BY <1>1, <1>4 DEF Sound, PlacesItsSplit
<1>7. KnowsTheLedger(q, shopLedger)
  BY <1>1, <1>2, <1>4 DEF Sound, KnowsTheLedger, Tells, Underway
<1>8. old.event \in {0, q.event}
  BY <1>4
<1> QED BY <1>3, <1>5, <1>6, <1>7, <1>8, OneMovesAlone DEF Sound, old

LEMMA LookedUp ==
    ASSUME DeliveryInv, NEW r \in DOMAIN requests, LookUp(r)
    PROVE  DeliveryInv'
<1> DEFINE old == requests[r]
           dup == [old EXCEPT !.pc = "duplicate"]
           new == [old EXCEPT !.pc = "artifact", !.checked = Len(shopLedger)]
           known == Timeline(old.reg.tenant, KeyOfWebhook(old.webhook))
<1>1. Sound(old, bodies, placed, shopLedger)
  BY DEF DeliveryInv
<1>2. old.pc = "ledger"
  BY DEF LookUp
<1>3. UNCHANGED <<bodies, placed, shopLedger>>
  BY DEF LookUp
<1>4. IF known # {} THEN requests' = [requests EXCEPT ![r] = dup]
                    ELSE requests' = [requests EXCEPT ![r] = new]
  BY DEF LookUp
<1>5. known = {n \in DOMAIN shopLedger : Tells(shopLedger[n], old)}
  BY DEF Timeline, Tells
<1>6. old.event = 0 /\ old.saved = <<>>
  BY <1>1, <1>2 DEF Sound, KnowsTheLedger, PlacesItsSplit
<1>7. Len(shopLedger) \in Nat /\ DOMAIN shopLedger = 1..Len(shopLedger)
  BY SequenceDomain DEF DeliveryInv, IsSequence
<1>8. requests[r].event = 0
  BY <1>6
<1> HIDE DEF old, known
<1>9. CASE known # {}
  <2>1. dup = [webhook |-> old.webhook, pc |-> "duplicate", reg |-> old.reg, rows |-> old.rows,
               split |-> old.split, artifact |-> old.artifact, number |-> old.number,
               saved |-> old.saved, checked |-> old.checked, event |-> old.event]
    BY <1>1 DEF Sound, IsDelivery
  <2>2. requests' = [requests EXCEPT ![r] = dup]
    BY <1>4, <1>9
  <2> HIDE DEF dup
  <2>3. IsDelivery(dup)
    BY <1>1, <2>1 DEF Sound, IsDelivery, Ended
  <2>4. PlacesItsSplit(dup, bodies, placed)
    BY <1>1, <1>6, <2>1 DEF Sound, PlacesItsSplit
  <2>5. KnowsTheLedger(dup, shopLedger)
    BY <1>1, <1>2, <1>5, <1>6, <1>9, <2>1 DEF Sound, KnowsTheLedger, Tells
  <2> QED BY <1>3, <1>8, <2>2, <2>3, <2>4, <2>5, OneMovesAlone DEF Sound
<1>10. CASE known = {}
  <2>1. new = [webhook |-> old.webhook, pc |-> "artifact", reg |-> old.reg, rows |-> old.rows,
               split |-> old.split, artifact |-> old.artifact, number |-> old.number,
               saved |-> old.saved, checked |-> Len(shopLedger), event |-> old.event]
    <3> DEFINE mid == [old EXCEPT !.pc = "artifact"]
    <3>1. mid = [webhook |-> old.webhook, pc |-> "artifact", reg |-> old.reg,
                 rows |-> old.rows, split |-> old.split, artifact |-> old.artifact,
                 number |-> old.number, saved |-> old.saved, checked |-> old.checked,
                 event |-> old.event]
      BY <1>1 DEF Sound, IsDelivery
    <3>2. new = [mid EXCEPT !.checked = Len(shopLedger)]
      BY <3>1
    <3> HIDE DEF mid, new
    <3> QED BY <3>1, <3>2
  <2>2. requests' = [requests EXCEPT ![r] = new]
    BY <1>4, <1>10
  <2> HIDE DEF new
  <2>3. IsDelivery(new)
    BY <1>1, <1>7, <2>1 DEF Sound, IsDelivery, Underway
  <2>4. PlacesItsSplit(new, bodies, placed)
    BY <1>1, <1>6, <2>1 DEF Sound, PlacesItsSplit
  <2>5. KnowsTheLedger(new, shopLedger)
    BY <1>1, <1>2, <1>5, <1>6, <1>7, <1>10, <2>1 DEF Sound, KnowsTheLedger, Tells
  <2> QED BY <1>3, <1>8, <2>2, <2>3, <2>4, <2>5, OneMovesAlone DEF Sound
<1> QED BY <1>9, <1>10

LEMMA ShopFound ==
    ASSUME DeliveryInv, NEW r \in DOMAIN requests, FindShop(r)
    PROVE  DeliveryInv'
<1> DEFINE old == requests[r]
           refused == [old EXCEPT !.pc = "refused"]
           found == {s \in shops : s.shop = old.webhook.shop}
           row == CHOOSE s \in found : TRUE
           mid == [old EXCEPT !.pc = "catalog"]
           new == [old EXCEPT !.pc = "catalog", !.reg = row]
<1>1. Sound(old, bodies, placed, shopLedger)
  BY DEF DeliveryInv
<1>2. old.pc = "shop"
  BY DEF FindShop
<1>3. UNCHANGED <<bodies, placed, shopLedger>>
  BY DEF FindShop
<1>4. IF found = {} THEN requests' = [requests EXCEPT ![r] = refused]
                    ELSE requests' = [requests EXCEPT ![r] = new]
  BY DEF FindShop
<1>5. old.event = 0 /\ old.saved = <<>> /\ old.checked = 0
  BY <1>1, <1>2 DEF Sound, KnowsTheLedger, PlacesItsSplit
<1>6. requests[r].event = 0
  BY <1>5
<1> HIDE DEF old, found, row
<1>7. CASE found = {}
  <2>1. refused = [webhook |-> old.webhook, pc |-> "refused", reg |-> old.reg,
                   rows |-> old.rows, split |-> old.split, artifact |-> old.artifact,
                   number |-> old.number, saved |-> old.saved, checked |-> old.checked,
                   event |-> old.event]
    BY <1>1 DEF Sound, IsDelivery
  <2>2. requests' = [requests EXCEPT ![r] = refused]
    BY <1>4, <1>7
  <2> HIDE DEF refused
  <2>3. IsDelivery(refused)
    BY <1>1, <2>1 DEF Sound, IsDelivery, Ended
  <2>4. PlacesItsSplit(refused, bodies, placed)
    BY <1>1, <1>5, <2>1 DEF Sound, PlacesItsSplit
  <2>5. KnowsTheLedger(refused, shopLedger)
    BY <1>1, <1>2, <1>5, <2>1 DEF Sound, KnowsTheLedger, Tells
  <2> QED BY <1>3, <1>6, <2>2, <2>3, <2>4, <2>5, OneMovesAlone DEF Sound
<1>8. CASE found # {}
  <2>1. mid = [webhook |-> old.webhook, pc |-> "catalog", reg |-> old.reg, rows |-> old.rows,
               split |-> old.split, artifact |-> old.artifact, number |-> old.number,
               saved |-> old.saved, checked |-> old.checked, event |-> old.event]
    BY <1>1 DEF Sound, IsDelivery
  <2>2. new = [mid EXCEPT !.reg = row]
    BY <2>1
  <2>3. requests' = [requests EXCEPT ![r] = new]
    BY <1>4, <1>8
  <2> HIDE DEF mid, new
  <2>4. new = [webhook |-> old.webhook, pc |-> "catalog", reg |-> row, rows |-> old.rows,
               split |-> old.split, artifact |-> old.artifact, number |-> old.number,
               saved |-> old.saved, checked |-> old.checked, event |-> old.event]
    BY <2>1, <2>2
  <2>5. IsDelivery(new)
    BY <1>1, <2>4 DEF Sound, IsDelivery, Underway
  <2>6. PlacesItsSplit(new, bodies, placed)
    BY <1>1, <1>5, <2>4 DEF Sound, PlacesItsSplit
  <2>7. KnowsTheLedger(new, shopLedger)
    BY <1>1, <1>2, <1>5, <2>4 DEF Sound, KnowsTheLedger
  <2> QED BY <1>3, <1>6, <2>3, <2>5, <2>6, <2>7, OneMovesAlone DEF Sound
<1> QED BY <1>7, <1>8

LEMMA OrderTakenIn ==
    ASSUME DeliveryInv, NEW r \in DOMAIN requests, IngestOrder(r)
    PROVE  DeliveryInv'
<1> DEFINE old == requests[r]
           ended(pc) == [old EXCEPT !.pc = pc]
           rows == {e \in catalog : e.tenant = old.reg.tenant}
           at == [old EXCEPT !.pc = "ledger"]
           listed == [at EXCEPT !.rows = rows]
<1>1. Sound(old, bodies, placed, shopLedger)
  BY DEF DeliveryInv
<1>2. old.pc = "catalog"
  BY DEF IngestOrder
<1>3. UNCHANGED <<bodies, placed, shopLedger>>
  BY DEF IngestOrder
<1>4. old.event = 0 /\ old.saved = <<>> /\ old.checked = 0
  BY <1>1, <1>2 DEF Sound, KnowsTheLedger, PlacesItsSplit
<1>5. requests[r].event = 0
  BY <1>4
<1>6. PICK entries \in SetToSeqs(rows) :
         requests' =
            CASE ~old.webhook.signed -> [requests EXCEPT ![r].pc = "refused"]
              [] old.webhook.signed /\ old.webhook.order.test
                    -> [requests EXCEPT ![r].pc = "skipped"]
              [] OTHER -> [requests EXCEPT
                    ![r].pc = "ledger", ![r].rows = rows,
                    ![r].split = Route(ToCanonical(old.webhook.order),
                                       Resolver(entries, old.reg.prefixes))]
  BY DEF IngestOrder
<1> DEFINE split == Route(ToCanonical(old.webhook.order), Resolver(entries, old.reg.prefixes))
           new == [listed EXCEPT !.split = split]
<1>7. \/ requests' = [requests EXCEPT ![r] = ended("refused")]
      \/ requests' = [requests EXCEPT ![r] = ended("skipped")]
      \/ requests' = [requests EXCEPT ![r] = new]
  <2>1. CASE ~old.webhook.signed
    BY <1>6, <2>1
  <2>2. CASE old.webhook.signed /\ old.webhook.order.test
    BY <1>6, <2>2
  <2>3. CASE old.webhook.signed /\ ~old.webhook.order.test
    BY <1>6, <2>3
  <2> QED BY <2>1, <2>2, <2>3
<1>8. IsSequence(split.orders)
  BY <1>1, RouteIsSequence DEF Sound, IsDelivery
<1> HIDE DEF old, rows, split
<1>9. ASSUME NEW pc \in {"refused", "skipped"},
             requests' = [requests EXCEPT ![r] = ended(pc)]
      PROVE  DeliveryInv'
  <2> DEFINE q == ended(pc)
  <2>1. q = [webhook |-> old.webhook, pc |-> pc, reg |-> old.reg, rows |-> old.rows,
             split |-> old.split, artifact |-> old.artifact, number |-> old.number,
             saved |-> old.saved, checked |-> old.checked, event |-> old.event]
    BY <1>1 DEF Sound, IsDelivery
  <2>2. requests' = [requests EXCEPT ![r] = q]
    BY <1>9
  <2> HIDE DEF q
  <2>3. IsDelivery(q)
    BY <1>1, <2>1 DEF Sound, IsDelivery, Ended
  <2>4. PlacesItsSplit(q, bodies, placed)
    BY <1>1, <1>4, <2>1 DEF Sound, PlacesItsSplit
  <2>5. KnowsTheLedger(q, shopLedger)
    BY <1>1, <1>2, <1>4, <2>1 DEF Sound, KnowsTheLedger, Tells
  <2> QED BY <1>3, <1>5, <2>2, <2>3, <2>4, <2>5, OneMovesAlone DEF Sound
<1>10. CASE requests' = [requests EXCEPT ![r] = new]
  <2>1. at = [webhook |-> old.webhook, pc |-> "ledger", reg |-> old.reg, rows |-> old.rows,
              split |-> old.split, artifact |-> old.artifact, number |-> old.number,
              saved |-> old.saved, checked |-> old.checked, event |-> old.event]
    BY <1>1 DEF Sound, IsDelivery
  <2> HIDE DEF at
  <2>2. listed = [webhook |-> old.webhook, pc |-> "ledger", reg |-> old.reg, rows |-> rows,
                  split |-> old.split, artifact |-> old.artifact, number |-> old.number,
                  saved |-> old.saved, checked |-> old.checked, event |-> old.event]
    BY <2>1
  <2> HIDE DEF listed
  <2>3. new = [webhook |-> old.webhook, pc |-> "ledger", reg |-> old.reg, rows |-> rows,
               split |-> split, artifact |-> old.artifact, number |-> old.number,
               saved |-> old.saved, checked |-> old.checked, event |-> old.event]
    BY <2>2
  <2> HIDE DEF new
  <2>4. IsDelivery(new)
    BY <1>1, <1>8, <2>3 DEF Sound, IsDelivery, Underway
  <2>5. PlacesItsSplit(new, bodies, placed)
    BY <1>1, <1>4, <2>3, EmptyIsSequence DEF Sound, PlacesItsSplit
  <2>6. KnowsTheLedger(new, shopLedger)
    BY <1>1, <1>2, <1>4, <2>3 DEF Sound, KnowsTheLedger, Tells
  <2> QED BY <1>3, <1>5, <1>10, <2>4, <2>5, <2>6, OneMovesAlone DEF Sound
<1> QED BY <1>7, <1>9, <1>10

LEMMA BodyStored ==
    ASSUME DeliveryInv, NEW r \in DOMAIN requests, PutRaw(r)
    PROVE  DeliveryInv'
<1> DEFINE old == requests[r]
           next == AfterVendor(r, 0)
           kept == [old EXCEPT !.artifact = Len(bodies) + 1]
           new == [kept EXCEPT !.pc = next]
<1>1. Sound(old, bodies, placed, shopLedger)
  BY DEF DeliveryInv
<1>2. old.pc = "artifact"
  BY DEF PutRaw
<1>3. bodies' = Append(bodies, old.webhook) /\ placed' = placed /\ shopLedger' = shopLedger
  BY DEF PutRaw
<1>4. old.event = 0 /\ old.saved = <<>>
  BY <1>1, <1>2 DEF Sound, KnowsTheLedger, PlacesItsSplit
<1>5. requests' = [requests EXCEPT ![r] = new]
  BY DEF PutRaw
<1>6. /\ next = "number" => old.split.unmapped = <<>> /\ 0 < Len(old.split.orders)
      /\ next = "record" => (old.split.unmapped = <<>> => ~(0 < Len(old.split.orders)))
      /\ next \in {"number", "record"}
  BY DEF AfterVendor
<1>7. requests[r].event = 0
  BY <1>4
<1>8. /\ IsSequence(bodies) /\ IsSequence(placed) /\ IsSequence(shopLedger)
      /\ Len(bodies) + 1 \in DOMAIN Append(bodies, old.webhook)
      /\ Append(bodies, old.webhook)[Len(bodies) + 1] = old.webhook
      /\ Grown(bodies, bodies') /\ IsSequence(bodies')
  BY <1>3, Appended, AppendGrows DEF DeliveryInv
<1> HIDE DEF old, next
<1>9. kept = [webhook |-> old.webhook, pc |-> old.pc, reg |-> old.reg, rows |-> old.rows,
              split |-> old.split, artifact |-> Len(bodies) + 1, number |-> old.number,
              saved |-> old.saved, checked |-> old.checked, event |-> old.event]
  BY <1>1 DEF Sound, IsDelivery
<1> HIDE DEF kept
<1>10. new = [webhook |-> old.webhook, pc |-> next, reg |-> old.reg, rows |-> old.rows,
              split |-> old.split, artifact |-> Len(bodies) + 1, number |-> old.number,
              saved |-> old.saved, checked |-> old.checked, event |-> old.event]
  BY <1>9
<1> HIDE DEF new
<1>11. IsDelivery(new)
  BY <1>1, <1>6, <1>10 DEF Sound, IsDelivery, Underway
<1>12. PlacesItsSplit(new, bodies', placed')
  <2>1. Len(old.split.orders) \in Nat
    BY <1>1 DEF Sound, IsDelivery, IsSequence
  <2> QED BY <1>1, <1>3, <1>4, <1>6, <1>8, <1>10, <2>1, EmptyIsSequence DEF Sound, PlacesItsSplit
<1>13. KnowsTheLedger(new, shopLedger')
  BY <1>1, <1>2, <1>3, <1>4, <1>6, <1>10 DEF Sound, KnowsTheLedger, Tells
<1>14. \A n \in DOMAIN shopLedger' : n \in DOMAIN shopLedger \/ n = new.event
  BY <1>3
<1>15. Sound(new, bodies', placed', shopLedger')
  BY <1>11, <1>12, <1>13 DEF Sound
<1>16. /\ IsSequence(placed') /\ IsSequence(shopLedger')
       /\ Grown(placed, placed') /\ Grown(shopLedger, shopLedger')
  BY <1>3, <1>8, SameIsGrown
<1>17. requests[r].event \in {0, new.event}
  BY <1>7
<1> QED BY <1>5, <1>8, <1>14, <1>15, <1>16, <1>17, OneMoves

LEMMA NumberDrawn ==
    ASSUME DeliveryInv, NEW r \in DOMAIN requests, DrawForVendor(r)
    PROVE  DeliveryInv'
<1> DEFINE old == requests[r]
           number == Drawn(Wanted(old)) + 1
           at == [old EXCEPT !.pc = "save"]
           new == [at EXCEPT !.number = number]
<1>1. Sound(old, bodies, placed, shopLedger)
  BY DEF DeliveryInv
<1>2. old.pc = "number"
  BY DEF DrawForVendor
<1>3. UNCHANGED <<bodies, placed, shopLedger>>
  BY DEF DrawForVendor
<1>4. old.event = 0
  BY <1>1, <1>2 DEF Sound, KnowsTheLedger
<1>5. requests' = [requests EXCEPT ![r] = new]
  BY DEF DrawForVendor, Wanted, VendorOrder
<1>6. requests[r].event = 0
  BY <1>4
<1> HIDE DEF old, number
<1>7. at = [webhook |-> old.webhook, pc |-> "save", reg |-> old.reg, rows |-> old.rows,
            split |-> old.split, artifact |-> old.artifact, number |-> old.number,
            saved |-> old.saved, checked |-> old.checked, event |-> old.event]
  BY <1>1 DEF Sound, IsDelivery
<1> HIDE DEF at
<1>8. new = [webhook |-> old.webhook, pc |-> "save", reg |-> old.reg, rows |-> old.rows,
             split |-> old.split, artifact |-> old.artifact, number |-> number,
             saved |-> old.saved, checked |-> old.checked, event |-> old.event]
  BY <1>7
<1> HIDE DEF new
<1>9. IsDelivery(new)
  BY <1>1, <1>8 DEF Sound, IsDelivery, Underway
<1>10. PlacesItsSplit(new, bodies, placed)
  BY <1>1, <1>2, <1>8 DEF Sound, PlacesItsSplit
<1>11. KnowsTheLedger(new, shopLedger)
  BY <1>1, <1>2, <1>4, <1>8 DEF Sound, KnowsTheLedger, Tells
<1> QED BY <1>3, <1>5, <1>6, <1>9, <1>10, <1>11, OneMovesAlone DEF Sound

LEMMA OrderSaved ==
    ASSUME DeliveryInv, NEW r \in DOMAIN requests, SaveOrder(r)
    PROVE  DeliveryInv'
<1> DEFINE old == requests[r]
           next == AfterVendor(r, Len(old.saved) + 1)
           row == [tenant |-> old.reg.tenant, order |-> VendorOrder(r), number |-> old.number]
           saved == Append(old.saved, Len(placed) + 1)
           put == [old EXCEPT !.saved = saved]
           new == [put EXCEPT !.pc = next]
<1>1. Sound(old, bodies, placed, shopLedger)
  BY DEF DeliveryInv
<1>2. old.pc = "save"
  BY DEF SaveOrder
<1>3. placed' = Append(placed, row) /\ bodies' = bodies /\ shopLedger' = shopLedger
  BY DEF SaveOrder
<1>4. old.event = 0
  BY <1>1, <1>2 DEF Sound, KnowsTheLedger
<1>5. requests' = [requests EXCEPT ![r] = new]
  BY DEF SaveOrder
<1>6. /\ old.split.unmapped = <<>> /\ Len(old.saved) < Len(old.split.orders)
      /\ IsSequence(old.split.orders) /\ IsSequence(old.saved)
  BY <1>1, <1>2 DEF Sound, PlacesItsSplit, IsDelivery
<1>7. next = IF Len(old.saved) + 1 < Len(old.split.orders) THEN "number" ELSE "record"
  BY <1>6 DEF AfterVendor
<1>8. row.order = old.split.orders[Len(old.saved) + 1]
  BY DEF VendorOrder
<1>9. /\ IsSequence(bodies) /\ IsSequence(placed) /\ IsSequence(shopLedger)
      /\ DOMAIN Append(placed, row) = DOMAIN placed \cup {Len(placed) + 1}
      /\ Append(placed, row)[Len(placed) + 1] = row
      /\ Grown(placed, placed') /\ IsSequence(placed')
  BY <1>3, Appended, AppendGrows DEF DeliveryInv
<1>10. requests[r].event = 0
  BY <1>4
<1>11. /\ IsSequence(saved) /\ Len(saved) = Len(old.saved) + 1
       /\ DOMAIN saved = DOMAIN old.saved \cup {Len(old.saved) + 1}
       /\ saved[Len(old.saved) + 1] = Len(placed) + 1
       /\ \A n \in DOMAIN old.saved : saved[n] = old.saved[n]
  BY <1>6, Appended, AppendGrows
<1> HIDE DEF old, next, row, saved
<1>12. put = [webhook |-> old.webhook, pc |-> old.pc, reg |-> old.reg, rows |-> old.rows,
              split |-> old.split, artifact |-> old.artifact, number |-> old.number,
              saved |-> saved, checked |-> old.checked, event |-> old.event]
  BY <1>1 DEF Sound, IsDelivery
<1> HIDE DEF put
<1>13. new = [webhook |-> old.webhook, pc |-> next, reg |-> old.reg, rows |-> old.rows,
              split |-> old.split, artifact |-> old.artifact, number |-> old.number,
              saved |-> saved, checked |-> old.checked, event |-> old.event]
  BY <1>12
<1> HIDE DEF new
<1>14. IsDelivery(new)
  BY <1>1, <1>7, <1>11, <1>13 DEF Sound, IsDelivery, Underway
<1>15. PlacesItsSplit(new, bodies', placed')
  <2>1. /\ Len(old.saved) \in Nat /\ Len(old.split.orders) \in Nat
        /\ DOMAIN old.split.orders = 1..Len(old.split.orders)
        /\ DOMAIN old.saved = 1..Len(old.saved)
    BY <1>6, SequenceDomain DEF IsSequence
  <2>2. ASSUME NEW n \in DOMAIN saved
        PROVE  /\ saved[n] \in DOMAIN placed'
               /\ n \in DOMAIN old.split.orders
               /\ placed'[saved[n]].order = old.split.orders[n]
    <3>1. CASE n \in DOMAIN old.saved
      BY <1>1, <1>3, <1>9, <1>11, <3>1 DEF Sound, PlacesItsSplit, Grown
    <3>2. CASE n = Len(old.saved) + 1
      <4>1. n \in DOMAIN old.split.orders
        BY <1>6, <2>1, <3>2
      <4>2. saved[n] = Len(placed) + 1 /\ placed'[Len(placed) + 1] = row
        BY <1>3, <1>9, <1>11, <3>2
      <4> QED BY <1>3, <1>8, <1>9, <3>2, <4>1, <4>2
    <3> QED BY <1>11, <3>1, <3>2
  <2>3. old.artifact \in DOMAIN bodies' /\ bodies'[old.artifact] = old.webhook
    BY <1>1, <1>2, <1>3 DEF Sound, PlacesItsSplit
  <2>4. \A n \in DOMAIN new.saved :
           /\ new.saved[n] \in DOMAIN placed'
           /\ n \in DOMAIN new.split.orders
           /\ placed'[new.saved[n]].order = new.split.orders[n]
    BY <1>13, <2>2
  <2>5. new.pc \in {"number", "record"}
    BY <1>7, <1>13
  <2>6. new.pc = "number" => Len(new.saved) < Len(new.split.orders)
    BY <1>7, <1>11, <1>13
  <2>7. new.pc = "record" => Len(new.saved) = Len(new.split.orders)
    <3> SUFFICES ASSUME new.pc = "record" PROVE Len(new.saved) = Len(new.split.orders)
      OBVIOUS
    <3>1. ~(Len(old.saved) + 1 < Len(old.split.orders))
      BY <1>7, <1>13
    <3>2. Len(old.saved) + 1 = Len(old.split.orders)
      BY <1>6, <2>1, <3>1
    <3> QED BY <1>11, <1>13, <3>2
  <2>8. new.split.unmapped = <<>> /\ new.artifact = old.artifact /\ new.webhook = old.webhook
    BY <1>6, <1>13
  <2> HIDE DEF PlacesItsSplit
  <2> QED BY <2>3, <2>4, <2>5, <2>6, <2>7, <2>8 DEF PlacesItsSplit
<1>16. KnowsTheLedger(new, shopLedger')
  BY <1>1, <1>2, <1>3, <1>4, <1>7, <1>13 DEF Sound, KnowsTheLedger, Tells
<1>17. \A n \in DOMAIN shopLedger' : n \in DOMAIN shopLedger \/ n = new.event
  BY <1>3
<1>18. Sound(new, bodies', placed', shopLedger')
  BY <1>14, <1>15, <1>16 DEF Sound
<1>19. /\ IsSequence(bodies') /\ IsSequence(shopLedger')
       /\ Grown(bodies, bodies') /\ Grown(shopLedger, shopLedger')
  BY <1>3, <1>9, SameIsGrown
<1>20. requests[r].event \in {0, new.event}
  BY <1>10
<1> QED BY <1>5, <1>9, <1>17, <1>18, <1>19, <1>20, OneMoves

LEMMA EventRecorded ==
    ASSUME DeliveryInv, NEW r \in DOMAIN requests, RecordEvent(r)
    PROVE  DeliveryInv'
<1> DEFINE old == requests[r]
           row == [tenant |-> old.reg.tenant, key |-> KeyOfWebhook(old.webhook),
                   held |-> old.split.unmapped # <<>>, artifact |-> old.artifact,
                   relationship |-> IF old.split.orders = <<>> THEN NoShop
                                    ELSE old.split.orders[1].vendor]
           number == Len(shopLedger) + 1
           at == [old EXCEPT !.pc = "processed"]
           new == [at EXCEPT !.event = number]
<1>1. Sound(old, bodies, placed, shopLedger)
  BY DEF DeliveryInv
<1>2. old.pc = "record"
  BY DEF RecordEvent
<1>3. shopLedger' = Append(shopLedger, row) /\ bodies' = bodies /\ placed' = placed
  BY DEF RecordEvent
<1>4. old.event = 0
  BY <1>1, <1>2 DEF Sound, KnowsTheLedger
<1>5. requests' = [requests EXCEPT ![r] = new]
  BY DEF RecordEvent
<1>6. /\ row.tenant = old.reg.tenant /\ row.key = KeyOfWebhook(old.webhook)
      /\ row.artifact = old.artifact
  OBVIOUS
<1>7. row.held <=> old.split.unmapped # <<>>
  OBVIOUS
<1>8. /\ IsSequence(bodies) /\ IsSequence(placed) /\ IsSequence(shopLedger)
      /\ Grown(shopLedger, shopLedger') /\ IsSequence(shopLedger')
      /\ DOMAIN shopLedger' = DOMAIN shopLedger \cup {number}
      /\ shopLedger'[number] = row
  BY <1>3, Appended, AppendGrows DEF DeliveryInv
<1>9. number \in Nat \ {0}
  BY <1>8 DEF IsSequence
<1>10. requests[r].event = 0
  BY <1>4
<1> HIDE DEF old, row, number
<1>11. at = [webhook |-> old.webhook, pc |-> "processed", reg |-> old.reg, rows |-> old.rows,
             split |-> old.split, artifact |-> old.artifact, number |-> old.number,
             saved |-> old.saved, checked |-> old.checked, event |-> old.event]
  BY <1>1 DEF Sound, IsDelivery
<1> HIDE DEF at
<1>12. new = [webhook |-> old.webhook, pc |-> "processed", reg |-> old.reg, rows |-> old.rows,
              split |-> old.split, artifact |-> old.artifact, number |-> old.number,
              saved |-> old.saved, checked |-> old.checked, event |-> number]
  BY <1>11
<1> HIDE DEF new
<1>13. IsDelivery(new)
  BY <1>1, <1>9, <1>12 DEF Sound, IsDelivery, Ended
<1>14. PlacesItsSplit(new, bodies', placed')
  BY <1>1, <1>2, <1>3, <1>12 DEF Sound, PlacesItsSplit
<1>15. KnowsTheLedger(new, shopLedger')
  <2>1. \A n \in 1..new.checked : n \in DOMAIN shopLedger' /\ ~Tells(shopLedger'[n], new)
    BY <1>1, <1>8, <1>12 DEF Sound, KnowsTheLedger, Tells, Grown
  <2>2. new.event # 0 /\ new.pc = "processed" /\ new.event = number
    BY <1>9, <1>12
  <2>3. Tells(shopLedger'[number], new)
    BY <1>6, <1>8, <1>12 DEF Tells
  <2>4. shopLedger'[number].held <=> new.split.unmapped # <<>>
    BY <1>7, <1>8, <1>12
  <2>5. shopLedger'[number].artifact = new.artifact
    BY <1>6, <1>8, <1>12
  <2> QED BY <1>8, <2>1, <2>2, <2>3, <2>4, <2>5 DEF KnowsTheLedger
<1>16. \A n \in DOMAIN shopLedger' : n \in DOMAIN shopLedger \/ n = new.event
  BY <1>8, <1>12
<1>17. Sound(new, bodies', placed', shopLedger')
  BY <1>13, <1>14, <1>15 DEF Sound
<1>18. /\ IsSequence(bodies') /\ IsSequence(placed')
       /\ Grown(bodies, bodies') /\ Grown(placed, placed')
  BY <1>3, <1>8, SameIsGrown
<1>19. requests[r].event \in {0, new.event}
  BY <1>10
<1> QED BY <1>5, <1>8, <1>16, <1>17, <1>18, <1>19, OneMoves

LEMMA DeliveryCame ==
    ASSUME DeliveryInv, NEW w \in Webhooks, Deliver(w)
    PROVE  DeliveryInv'
<1> DEFINE new == [webhook |-> w, pc |-> IF w.shop = NoShop THEN "refused" ELSE "shop",
                   reg |-> [shop |-> w.shop, tenant |-> NoShop, prefixes |-> <<>>],
                   rows |-> {}, split |-> NoSplit, artifact |-> 0, number |-> 0,
                   saved |-> <<>>, checked |-> 0, event |-> 0]
<1>1. requests' = Append(requests, new) /\ UNCHANGED <<bodies, placed, shopLedger>>
  BY DEF Deliver
<1>2. /\ new.webhook = w /\ new.pc \in {"refused", "shop"} /\ new.split = NoSplit
      /\ new.saved = <<>> /\ new.checked = 0 /\ new.event = 0
      /\ new = [webhook |-> new.webhook, pc |-> new.pc, reg |-> new.reg, rows |-> new.rows,
                split |-> new.split, artifact |-> new.artifact, number |-> new.number,
                saved |-> new.saved, checked |-> new.checked, event |-> new.event]
  OBVIOUS
<1> HIDE DEF new
<1>3. NoSplit.orders = <<>>
  BY DEF NoSplit
<1>4. Sound(new, bodies, placed, shopLedger)
  <2>1. IsDelivery(new)
    BY <1>2, <1>3, EmptyIsSequence DEF IsDelivery, Underway, Ended
  <2>2. PlacesItsSplit(new, bodies, placed)
    BY <1>2, EmptyIsSequence DEF PlacesItsSplit
  <2>3. KnowsTheLedger(new, shopLedger)
    BY <1>2 DEF KnowsTheLedger
  <2> QED BY <2>1, <2>2, <2>3 DEF Sound
<1>5. /\ IsSequence(requests')
      /\ DOMAIN requests' = DOMAIN requests \cup {Len(requests) + 1}
      /\ requests'[Len(requests) + 1] = new
      /\ \A k \in DOMAIN requests : requests'[k] = requests[k]
  BY <1>1, Appended, AppendGrows DEF DeliveryInv
<1>6. bodies' = bodies /\ placed' = placed /\ shopLedger' = shopLedger
  BY <1>1
<1>7. (\A k \in DOMAIN requests : Sound(requests[k], bodies, placed, shopLedger))'
  <2> SUFFICES ASSUME NEW k \in DOMAIN requests'
               PROVE  Sound(requests'[k], bodies', placed', shopLedger')
    OBVIOUS
  <2>1. Sound(requests'[k], bodies, placed, shopLedger)
    BY <1>4, <1>5 DEF DeliveryInv
  <2> QED BY <1>6, <2>1
<1>8. (\A n \in DOMAIN shopLedger : \E k \in DOMAIN requests : requests[k].event = n)'
  <2>1. \A n \in DOMAIN shopLedger : \E k \in DOMAIN requests : requests[k].event = n
    BY DEF DeliveryInv
  <2> QED BY <1>5, <1>6, <2>1
<1>9. /\ IsSequence(requests)' /\ IsSequence(bodies)' /\ IsSequence(placed)'
      /\ IsSequence(shopLedger)'
  BY <1>5, <1>6 DEF DeliveryInv, IsSequence
<1> QED BY <1>7, <1>8, <1>9 DEF DeliveryInv

LEMMA FirstDelivery == ShopifyInit => DeliveryInv
<1> SUFFICES ASSUME ShopifyInit PROVE DeliveryInv
  OBVIOUS
<1>1. requests = <<>> /\ bodies = <<>> /\ placed = <<>> /\ shopLedger = <<>>
  BY DEF ShopifyInit
<1> QED BY <1>1, EmptyIsSequence DEF DeliveryInv

LEMMA DeliveryStep == DeliveryInv /\ [ShopifyNext]_shopifyVars => DeliveryInv'
<1> SUFFICES ASSUME DeliveryInv, [ShopifyNext]_shopifyVars PROVE DeliveryInv'
  OBVIOUS
<1>1. ASSUME UNCHANGED <<requests, bodies, placed, shopLedger>> PROVE DeliveryInv'
  <2>1. /\ requests' = requests /\ bodies' = bodies /\ placed' = placed
        /\ shopLedger' = shopLedger
    BY <1>1
  <2> QED BY <2>1 DEF DeliveryInv
<1>2. CASE \E reg \in Registrations : Register(reg)
  BY <1>1, <1>2 DEF Register
<1>3. CASE \E sheet \in Sheets : BulkUpsert(sheet)
  BY <1>1, <1>3 DEF BulkUpsert
<1>4. CASE \E e \in catalog : RemoveEntry(e)
  BY <1>1, <1>4 DEF RemoveEntry
<1>5. CASE \E w \in Webhooks : Deliver(w)
  BY <1>5, DeliveryCame
<1>6. CASE \E r \in DOMAIN requests :
              \/ FindShop(r) \/ IngestOrder(r) \/ LookUp(r) \/ PutRaw(r) \/ DrawForVendor(r)
              \/ SaveOrder(r) \/ RecordEvent(r) \/ StopDelivery(r)
  BY <1>6, ShopFound, OrderTakenIn, LookedUp, BodyStored, NumberDrawn, OrderSaved,
     EventRecorded, DeliveryStops
<1>7. CASE UNCHANGED shopifyVars
  BY <1>1, <1>7 DEF shopifyVars
<1> QED BY <1>2, <1>3, <1>4, <1>5, <1>6, <1>7 DEF ShopifyNext

(* Each delivery has saved what it stands for, and the ledger tells of     *)
(* processed deliveries only, as DeliveryInv says.                         *)
THEOREM DeliveriesAreSound == ShopifySpec => []DeliveryInv
<1> QED BY FirstDelivery, DeliveryStep, PTL DEF ShopifySpec

(* Two deliveries of one webhook both place its orders only if the earlier *)
(* had not recorded its event when the later looked.                       *)
THEOREM PlacesAgainOnlyUnawares == ShopifySpec => []PlacedAgainOnlyUnawares
<1>1. DeliveryInv => PlacedAgainOnlyUnawares
  <2> SUFFICES ASSUME DeliveryInv, NEW q \in DOMAIN requests, NEW r \in DOMAIN requests,
                      requests[q].reg.tenant = requests[r].reg.tenant,
                      KeyOfWebhook(requests[q].webhook) = KeyOfWebhook(requests[r].webhook),
                      requests[q].event # 0
               PROVE  requests[q].event > requests[r].checked
    BY DEF PlacedAgainOnlyUnawares
  <2>1. /\ Sound(requests[q], bodies, placed, shopLedger)
        /\ Sound(requests[r], bodies, placed, shopLedger)
    BY DEF DeliveryInv
  <2>2. requests[q].event \in Nat \ {0} /\ requests[r].checked \in Nat
    BY <2>1 DEF Sound, IsDelivery
  <2>3. Tells(shopLedger[requests[q].event], requests[r])
    BY <2>1 DEF Sound, KnowsTheLedger, Tells
  <2>4. requests[q].event \notin 1..requests[r].checked
    BY <2>1, <2>3 DEF Sound, KnowsTheLedger
  <2> QED BY <2>2, <2>4
<1> QED BY <1>1, DeliveriesAreSound, PTL

(* What is told "processed" is placed whole or held with nothing placed,   *)
(* and a duplicate is told of an order that was dealt with: the webhook ids*)
(* of different orders differ.                                             *)
THEOREM AnsweredOnlyWhenDealtWith ==
    ASSUME \A v, w \in Webhooks : KeyOfWebhook(v) = KeyOfWebhook(w) => v.order.id = w.order.id
    PROVE  ShopifySpec => []AnsweredIsPlacedOrHeld
<1>1. DeliveryInv => AnsweredIsPlacedOrHeld
  <2> SUFFICES ASSUME DeliveryInv PROVE AnsweredIsPlacedOrHeld
    OBVIOUS
  <2>1. ASSUME NEW r \in DOMAIN requests, requests[r].pc = "processed"
        PROVE  DealtWith(r)
    <3> DEFINE q == requests[r]
               e == shopLedger[q.event]
    <3>1. Sound(q, bodies, placed, shopLedger)
      BY DEF DeliveryInv
    <3>2. /\ e.artifact = q.artifact /\ bodies[q.artifact] = q.webhook
          /\ e.held <=> q.split.unmapped # <<>>
      BY <2>1, <3>1 DEF Sound, KnowsTheLedger, PlacesItsSplit
    <3>3. CASE q.split.unmapped # <<>>
      <4>1. q.saved = <<>>
        BY <2>1, <3>1, <3>3 DEF Sound, PlacesItsSplit
      <4>2. PlacedBy(r) = {}
        BY <4>1, EmptyIsSequence DEF PlacedBy
      <4> QED BY <2>1, <3>2, <3>3, <4>2 DEF DealtWith
    <3>4. CASE q.split.unmapped = <<>>
      <4>1. Len(q.saved) = Len(q.split.orders)
        BY <2>1, <3>1, <3>4 DEF Sound, PlacesItsSplit
      <4>2. DOMAIN q.saved = DOMAIN q.split.orders
        BY <3>1, <4>1, SequenceDomain DEF Sound, IsDelivery
      <4>3. \A n \in DOMAIN q.saved : placed[q.saved[n]].order = q.split.orders[n]
        BY <3>1 DEF Sound, PlacesItsSplit
      <4>4. {p.order : p \in PlacedBy(r)} = ToSet(q.split.orders)
        BY <4>2, <4>3 DEF PlacedBy, ToSet
      <4> QED BY <2>1, <3>2, <3>4, <4>4 DEF DealtWith
    <3> QED BY <3>3, <3>4
  <2>2. ASSUME NEW r \in DOMAIN requests, requests[r].pc = "duplicate"
        PROVE  \E q \in DOMAIN requests :
                  /\ q # r /\ DealtWith(q)
                  /\ requests[q].webhook.order.id = requests[r].webhook.order.id
    <3>1. Sound(requests[r], bodies, placed, shopLedger)
      BY DEF DeliveryInv
    <3>2. PICK n \in DOMAIN shopLedger : Tells(shopLedger[n], requests[r])
      BY <2>2, <3>1 DEF Sound, KnowsTheLedger
    <3>3. PICK q \in DOMAIN requests : requests[q].event = n
      BY DEF DeliveryInv
    <3>4. Sound(requests[q], bodies, placed, shopLedger) /\ n # 0
      BY SequenceDomain DEF DeliveryInv, IsSequence
    <3>5. requests[q].pc = "processed" /\ Tells(shopLedger[n], requests[q])
      BY <3>3, <3>4 DEF Sound, KnowsTheLedger
    <3>6. KeyOfWebhook(requests[q].webhook) = KeyOfWebhook(requests[r].webhook)
      BY <3>2, <3>5 DEF Tells
    <3>7. requests[q].webhook \in Webhooks /\ requests[r].webhook \in Webhooks
      BY <3>1, <3>4 DEF Sound, IsDelivery
    <3>8. DealtWith(q) /\ q # r
      BY <2>1, <2>2, <3>5
    <3> QED BY <3>6, <3>7, <3>8
  <2> QED BY <2>1, <2>2 DEF AnsweredIsPlacedOrHeld
<1> QED BY <1>1, DeliveriesAreSound, PTL

-------------------------------------------------------------------------------
(* Control numbers of the vendors.                                         *)
LEMMA NobodyDraws ==
    ASSUME NumbersInv, placed' = placed, vendorSeq' = vendorSeq,
           \A k \in DOMAIN requests' : requests'[k].pc = "save" =>
              k \in DOMAIN requests /\ requests'[k] = requests[k]
    PROVE  NumbersHold(requests', placed', vendorSeq')
BY DEF NumbersInv, NumbersHold

LEMMA OneLeavesNumbers ==
    ASSUME NumbersInv, placed' = placed, vendorSeq' = vendorSeq, NEW r \in DOMAIN requests, NEW q,
           requests' = [requests EXCEPT ![r] = q], q.pc # "save"
    PROVE  NumbersHold(requests', placed', vendorSeq')
BY NobodyDraws

LEMMA DrawnNumberIsNew ==
    ASSUME DeliveryInv, NumbersInv, NEW r \in DOMAIN requests, DrawForVendor(r)
    PROVE  NumbersHold(requests', placed', vendorSeq')
<1> DEFINE old == requests[r]
           scope == Wanted(old)
           number == Drawn(scope) + 1
           at == [old EXCEPT !.pc = "save"]
           new == [at EXCEPT !.number = number]
<1>1. Sound(old, bodies, placed, shopLedger)
  BY DEF DeliveryInv
<1>2. placed' = placed /\ old.pc = "number"
  BY DEF DrawForVendor
<1>3. vendorSeq' = [s \in DOMAIN vendorSeq \cup {scope} |->
                      IF s = scope THEN number ELSE vendorSeq[s]]
  BY DEF DrawForVendor, Wanted, VendorOrder
<1>4. requests' = [requests EXCEPT ![r] = new]
  BY DEF DrawForVendor, Wanted, VendorOrder
<1>5. number \in Nat \ {0} /\ \A n : Issued(scope, n, vendorSeq) => n \in Nat /\ n < number
  BY DEF NumbersInv, NumbersHold, Drawn, Issued
<1>6. number \in 1..number
  BY <1>5
<1> HIDE DEF old, number
<1>7. at = [webhook |-> old.webhook, pc |-> "save", reg |-> old.reg, rows |-> old.rows,
            split |-> old.split, artifact |-> old.artifact, number |-> old.number,
            saved |-> old.saved, checked |-> old.checked, event |-> old.event]
  BY <1>1 DEF Sound, IsDelivery
<1> HIDE DEF at
<1>8. new = [webhook |-> old.webhook, pc |-> "save", reg |-> old.reg, rows |-> old.rows,
             split |-> old.split, artifact |-> old.artifact, number |-> number,
             saved |-> old.saved, checked |-> old.checked, event |-> old.event]
  BY <1>7
<1> HIDE DEF new
<1>9. new.pc = "save" /\ new.number = number /\ Wanted(new) = scope
  BY <1>8 DEF Wanted
<1>10. /\ DOMAIN requests' = DOMAIN requests /\ requests'[r] = new
       /\ \A k \in DOMAIN requests \ {r} : requests'[k] = requests[k]
  BY <1>4
<1> HIDE DEF scope
<1>11. \A s, n : Issued(s, n, vendorSeq) => Issued(s, n, vendorSeq')
  <2> SUFFICES ASSUME NEW s, NEW n, Issued(s, n, vendorSeq) PROVE Issued(s, n, vendorSeq')
    OBVIOUS
  <2>1. CASE s = scope
    BY <1>3, <1>5, <2>1 DEF Issued
  <2>2. CASE s # scope
    BY <1>3, <2>2 DEF Issued
  <2> QED BY <2>1, <2>2
<1>12. Issued(scope, number, vendorSeq')
  BY <1>3, <1>6 DEF Issued
<1>13. \A s \in DOMAIN vendorSeq' : vendorSeq'[s] \in Nat
  BY <1>3, <1>5 DEF NumbersInv, NumbersHold
<1>14. \A n \in DOMAIN placed : ScopeOf(placed[n]) = scope => placed[n].number # number
  BY <1>5 DEF NumbersInv, NumbersHold
<1>15. \A k \in DOMAIN requests : requests[k].pc = "save" /\ Wanted(requests[k]) = scope
          => requests[k].number # number
  BY <1>5 DEF NumbersInv, NumbersHold
<1> QED BY <1>2, <1>9, <1>10, <1>11, <1>12, <1>13, <1>14, <1>15 DEF NumbersInv, NumbersHold

LEMMA SavedNumberIsUsed ==
    ASSUME DeliveryInv, NumbersInv, NEW r \in DOMAIN requests, SaveOrder(r)
    PROVE  NumbersHold(requests', placed', vendorSeq')
<1> DEFINE old == requests[r]
           next == AfterVendor(r, Len(old.saved) + 1)
           row == [tenant |-> old.reg.tenant, order |-> VendorOrder(r), number |-> old.number]
           saved == Append(old.saved, Len(placed) + 1)
           put == [old EXCEPT !.saved = saved]
           new == [put EXCEPT !.pc = next]
<1>1. Sound(old, bodies, placed, shopLedger)
  BY DEF DeliveryInv
<1>2. old.pc = "save" /\ vendorSeq' = vendorSeq /\ placed' = Append(placed, row)
  BY DEF SaveOrder
<1>3. requests' = [requests EXCEPT ![r] = new]
  BY DEF SaveOrder
<1>4. next # "save"
  BY DEF AfterVendor
<1>5. ScopeOf(row) = Wanted(old) /\ row.number = old.number
  BY DEF ScopeOf, Wanted, VendorOrder
<1>6. /\ DOMAIN placed' = DOMAIN placed \cup {Len(placed) + 1}
      /\ placed'[Len(placed) + 1] = row
      /\ \A n \in DOMAIN placed : placed'[n] = placed[n]
  BY <1>2, Appended, AppendGrows DEF DeliveryInv, Grown
<1> HIDE DEF row
<1>7. new.pc # "save"
  <2> HIDE DEF old, next, saved
  <2>1. put = [webhook |-> old.webhook, pc |-> old.pc, reg |-> old.reg, rows |-> old.rows,
               split |-> old.split, artifact |-> old.artifact, number |-> old.number,
               saved |-> saved, checked |-> old.checked, event |-> old.event]
    BY <1>1 DEF Sound, IsDelivery
  <2> HIDE DEF put
  <2>2. new.pc = next
    BY <2>1
  <2> QED BY <1>4, <2>2
<1> HIDE DEF new, next, put
<1>8. /\ DOMAIN requests' = DOMAIN requests /\ requests'[r] = new
      /\ \A k \in DOMAIN requests \ {r} : requests'[k] = requests[k]
  BY <1>3
<1>9. /\ Issued(ScopeOf(row), row.number, vendorSeq)
      /\ \A n \in DOMAIN placed : ScopeOf(placed[n]) = ScopeOf(row)
            => placed[n].number # row.number
      /\ \A k \in DOMAIN requests \ {r} :
            requests[k].pc = "save" /\ Wanted(requests[k]) = ScopeOf(row)
               => requests[k].number # row.number
  BY <1>2, <1>5 DEF NumbersInv, NumbersHold
<1>10. \A n \in DOMAIN placed' : Issued(ScopeOf(placed'[n]), placed'[n].number, vendorSeq')
  BY <1>2, <1>6, <1>9 DEF NumbersInv, NumbersHold
<1>11. \A m, n \in DOMAIN placed' :
          m # n /\ ScopeOf(placed'[m]) = ScopeOf(placed'[n])
             => placed'[m].number # placed'[n].number
  <2> SUFFICES ASSUME NEW m \in DOMAIN placed', NEW n \in DOMAIN placed', m # n,
                      ScopeOf(placed'[m]) = ScopeOf(placed'[n])
               PROVE  placed'[m].number # placed'[n].number
    OBVIOUS
  <2>1. CASE m \in DOMAIN placed /\ n \in DOMAIN placed
    BY <1>6, <2>1 DEF NumbersInv, NumbersHold
  <2>2. CASE m \notin DOMAIN placed
    BY <1>6, <1>9, <2>2
  <2>3. CASE n \notin DOMAIN placed
    BY <1>6, <1>9, <2>3
  <2> QED BY <2>1, <2>2, <2>3
<1>12. ASSUME NEW k \in DOMAIN requests', requests'[k].pc = "save"
       PROVE  /\ Issued(Wanted(requests'[k]), requests'[k].number, vendorSeq')
              /\ \A n \in DOMAIN placed' : ScopeOf(placed'[n]) = Wanted(requests'[k])
                    => placed'[n].number # requests'[k].number
  <2>1. k \in DOMAIN requests \ {r} /\ requests'[k] = requests[k]
    BY <1>7, <1>8, <1>12
  <2>2. /\ Issued(Wanted(requests[k]), requests[k].number, vendorSeq)
        /\ \A n \in DOMAIN placed : ScopeOf(placed[n]) = Wanted(requests[k])
              => placed[n].number # requests[k].number
    BY <1>12, <2>1 DEF NumbersInv, NumbersHold
  <2> QED BY <1>2, <1>6, <1>9, <1>12, <2>1, <2>2
<1>13. \A q, k \in DOMAIN requests' :
          /\ q # k /\ requests'[q].pc = "save" /\ requests'[k].pc = "save"
          /\ Wanted(requests'[q]) = Wanted(requests'[k])
          => requests'[q].number # requests'[k].number
  BY <1>7, <1>8 DEF NumbersInv, NumbersHold
<1>14. \A s \in DOMAIN vendorSeq' : vendorSeq'[s] \in Nat
  BY <1>2 DEF NumbersInv, NumbersHold
<1> QED BY <1>10, <1>11, <1>12, <1>13, <1>14 DEF NumbersHold

(* Every other step leaves numbers, and who holds one, as they are.        *)
LEMMA OthersLeaveNumbers ==
    ASSUME DeliveryInv, NumbersInv, NEW r \in DOMAIN requests,
           \/ FindShop(r) \/ IngestOrder(r) \/ LookUp(r) \/ PutRaw(r) \/ RecordEvent(r)
           \/ StopDelivery(r)
    PROVE  NumbersHold(requests', placed', vendorSeq')
<1> DEFINE old == requests[r]
<1>1. Sound(old, bodies, placed, shopLedger)
  BY DEF DeliveryInv
<1>2. placed' = placed /\ vendorSeq' = vendorSeq
  BY DEF FindShop, IngestOrder, LookUp, PutRaw, RecordEvent, StopDelivery
<1>3. AfterVendor(r, 0) # "save"
  BY DEF AfterVendor
<1>4. /\ DOMAIN requests' = DOMAIN requests
      /\ \A k \in DOMAIN requests \ {r} : requests'[k] = requests[k]
  BY DEF FindShop, IngestOrder, LookUp, PutRaw, RecordEvent, StopDelivery
<1>5. IsDelivery(old)
  BY <1>1 DEF Sound
<1>6. CASE FindShop(r)
  <2>1. requests'[r].pc \in {"refused", "catalog"}
    BY <1>5, <1>6 DEF FindShop, IsDelivery
  <2> QED BY <1>2, <1>4, <2>1, NobodyDraws
<1>7. CASE IngestOrder(r)
  <2>1. requests'[r].pc \in {"refused", "skipped", "ledger"}
    <3>1. PICK entries \in SetToSeqs({e \in catalog : e.tenant = old.reg.tenant}) :
             requests' =
                CASE ~old.webhook.signed -> [requests EXCEPT ![r].pc = "refused"]
                  [] old.webhook.signed /\ old.webhook.order.test
                        -> [requests EXCEPT ![r].pc = "skipped"]
                  [] OTHER -> [requests EXCEPT
                        ![r].pc = "ledger",
                        ![r].rows = {e \in catalog : e.tenant = old.reg.tenant},
                        ![r].split = Route(ToCanonical(old.webhook.order),
                                           Resolver(entries, old.reg.prefixes))]
      BY <1>7 DEF IngestOrder
    <3> DEFINE rows == {e \in catalog : e.tenant = old.reg.tenant}
               split == Route(ToCanonical(old.webhook.order),
                              Resolver(entries, old.reg.prefixes))
    <3> HIDE DEF rows, split
    <3>2. \/ requests' = [requests EXCEPT ![r].pc = "refused"]
          \/ requests' = [requests EXCEPT ![r].pc = "skipped"]
          \/ requests' = [requests EXCEPT ![r].pc = "ledger", ![r].rows = rows, ![r].split = split]
      BY <3>1 DEF rows, split
    <3>3. DOMAIN old = {"webhook", "pc", "reg", "rows", "split", "artifact", "number",
                        "saved", "checked", "event"}
      BY <1>5 DEF IsDelivery
    <3> QED BY <3>2, <3>3
  <2> QED BY <1>2, <1>4, <2>1, NobodyDraws
<1>8. CASE LookUp(r)
  <2>1. requests'[r].pc \in {"duplicate", "artifact"}
    BY <1>5, <1>8 DEF LookUp, IsDelivery
  <2> QED BY <1>2, <1>4, <2>1, NobodyDraws
<1>9. CASE PutRaw(r)
  <2>1. requests'[r].pc = AfterVendor(r, 0)
    BY <1>5, <1>9 DEF PutRaw, IsDelivery
  <2> QED BY <1>2, <1>3, <1>4, <2>1, NobodyDraws
<1>10. CASE RecordEvent(r)
  <2>1. requests'[r].pc = "processed"
    BY <1>5, <1>10 DEF RecordEvent, IsDelivery
  <2> QED BY <1>2, <1>4, <2>1, NobodyDraws
<1>11. CASE StopDelivery(r)
  <2>1. requests'[r].pc = "stopped"
    BY <1>5, <1>11 DEF StopDelivery, IsDelivery
  <2> QED BY <1>2, <1>4, <2>1, NobodyDraws
<1> QED BY <1>6, <1>7, <1>8, <1>9, <1>10, <1>11

LEMMA NumbersStep == DeliveryInv /\ NumbersInv /\ [ShopifyNext]_shopifyVars => NumbersInv'
<1> SUFFICES ASSUME DeliveryInv, NumbersInv, [ShopifyNext]_shopifyVars
             PROVE  NumbersHold(requests', placed', vendorSeq')
  BY DEF NumbersInv
<1>1. ASSUME UNCHANGED <<requests, placed, vendorSeq>>
      PROVE  NumbersHold(requests', placed', vendorSeq')
  BY <1>1, NobodyDraws
<1>2. CASE \E reg \in Registrations : Register(reg)
  BY <1>1, <1>2 DEF Register
<1>3. CASE \E sheet \in Sheets : BulkUpsert(sheet)
  BY <1>1, <1>3 DEF BulkUpsert
<1>4. CASE \E e \in catalog : RemoveEntry(e)
  BY <1>1, <1>4 DEF RemoveEntry
<1>5. CASE \E w \in Webhooks : Deliver(w)
  <2> PICK w \in Webhooks : Deliver(w)
    BY <1>5
  <2> DEFINE new == requests'[Len(requests) + 1]
  <2>1. /\ DOMAIN requests' = DOMAIN requests \cup {Len(requests) + 1}
        /\ \A k \in DOMAIN requests : requests'[k] = requests[k]
    BY Appended, AppendGrows DEF Deliver, DeliveryInv
  <2>2. new.pc = IF w.shop = NoShop THEN "refused" ELSE "shop"
    BY Appended DEF Deliver, DeliveryInv
  <2> QED BY <2>1, <2>2, NobodyDraws DEF Deliver
<1>6. CASE \E r \in DOMAIN requests :
              \/ FindShop(r) \/ IngestOrder(r) \/ LookUp(r) \/ PutRaw(r) \/ DrawForVendor(r)
              \/ SaveOrder(r) \/ RecordEvent(r) \/ StopDelivery(r)
  BY <1>6, OthersLeaveNumbers, DrawnNumberIsNew, SavedNumberIsUsed
<1>7. CASE UNCHANGED shopifyVars
  BY <1>1, <1>7 DEF shopifyVars
<1> QED BY <1>2, <1>3, <1>4, <1>5, <1>6, <1>7 DEF ShopifyNext

(* No two orders of a tenant to one vendor carry the same control number,  *)
(* however deliveries interleave between draw and insert.                  *)
THEOREM VendorNumbersStayDistinct == ShopifySpec => []VendorNumbersDistinct
<1>1. ShopifyInit => NumbersInv
  BY EmptyIsSequence DEF ShopifyInit, NumbersInv, NumbersHold
<1>2. NumbersInv => VendorNumbersDistinct
  BY DEF NumbersInv, NumbersHold, ScopeOf, VendorNumbersDistinct
<1> QED BY <1>1, <1>2, NumbersStep, DeliveriesAreSound, PTL DEF ShopifySpec

-------------------------------------------------------------------------------
(* The split.                                                              *)
LEMMA InOrderLists ==
    ASSUME NEW S \in SUBSET Nat, IsFiniteSet(S)
    PROVE  /\ Cardinality(S) \in Nat
           /\ DOMAIN InOrder(S) = 1..Cardinality(S)
           /\ \A k \in DOMAIN InOrder(S) : InOrder(S)[k] \in S
           /\ \A n \in S : \E k \in DOMAIN InOrder(S) : InOrder(S)[k] = n
           /\ \A j, k \in DOMAIN InOrder(S) : InOrder(S)[j] = InOrder(S)[k] => j = k
           /\ \A k \in DOMAIN InOrder(S) :
                 Cardinality({m \in S : m < InOrder(S)[k]}) = k - 1
<1> DEFINE below(n) == {m \in S : m < n}
           rank(n) == Cardinality(below(n))
           f == [n \in S |-> rank(n) + 1]
           T == 1..Cardinality(S)
<1>1. Cardinality(S) \in Nat
  BY FS_CardinalityType
<1>2. ASSUME NEW n \in S
      PROVE  IsFiniteSet(below(n)) /\ rank(n) \in Nat /\ rank(n) < Cardinality(S)
  <2>1. below(n) \in SUBSET S /\ below(n) # S
    OBVIOUS
  <2>2. IsFiniteSet(below(n)) /\ Cardinality(below(n)) \in Nat
        /\ Cardinality(below(n)) <= Cardinality(S) /\ Cardinality(below(n)) # Cardinality(S)
    BY <2>1, FS_Subset, FS_CardinalityType
  <2> HIDE DEF below
  <2> QED BY <1>1, <2>2
<1>3. ASSUME NEW m \in S, NEW n \in S, m < n
      PROVE  rank(m) < rank(n)
  <2>1. below(m) \in SUBSET below(n) /\ below(m) # below(n)
    <3>1. m \in Nat /\ n \in Nat /\ S \subseteq Nat
      OBVIOUS
    <3>2. \A k \in S : k < m => k < n
      BY <1>3, <3>1
    <3>3. m \in below(n) /\ m \notin below(m)
      BY <1>3, <3>1
    <3> QED BY <3>2, <3>3, Zenon
  <2>2. /\ Cardinality(below(m)) <= Cardinality(below(n))
        /\ Cardinality(below(m)) # Cardinality(below(n))
    BY <1>2, <2>1, FS_Subset
  <2>3. rank(m) \in Nat /\ rank(n) \in Nat
    BY <1>2
  <2> HIDE DEF below
  <2> QED BY <2>2, <2>3
<1> HIDE DEF below
<1>4. \A m, n \in S : rank(m) = rank(n) => m = n
  <2> SUFFICES ASSUME NEW m \in S, NEW n \in S, m # n PROVE rank(m) # rank(n)
    OBVIOUS
  <2>1. m < n \/ n < m
    OBVIOUS
  <2>2. rank(m) \in Nat /\ rank(n) \in Nat
    BY <1>2
  <2> HIDE DEF rank
  <2> QED BY <1>3, <2>1, <2>2
<1>5. \A n \in S : rank(n) + 1 \in T
  BY <1>1, <1>2
<1>6. f \in Injection(S, T)
  <2>1. f \in [S -> T]
    BY <1>5
  <2>2. \A m, n \in S : f[m] = f[n] => m = n
    <3> SUFFICES ASSUME NEW m \in S, NEW n \in S, f[m] = f[n] PROVE m = n
      OBVIOUS
    <3>1. rank(m) \in Nat /\ rank(n) \in Nat
      BY <1>2
    <3>2. rank(m) + 1 = rank(n) + 1
      OBVIOUS
    <3>3. rank(m) = rank(n)
      BY <3>1, <3>2
    <3> QED BY <1>4, <3>3
  <2> HIDE DEF f, T
  <2> QED BY <2>1, <2>2 DEF Injection, IsInjective
<1>7. f \in Surjection(S, T)
  <2>1. IsFiniteSet(T) /\ Cardinality(T) = Cardinality(S)
    BY <1>1, FS_Interval
  <2> HIDE DEF f, T
  <2> QED BY <1>6, <2>1, FS_Injection
<1>8. ASSUME NEW k \in T PROVE \E n \in S : rank(n) = k - 1
  <2>1. PICK n \in S : f[n] = k
    BY <1>7 DEF Surjection
  <2>2. rank(n) + 1 = k /\ rank(n) \in Nat
    BY <1>2, <2>1
  <2> QED BY <2>2
<1>9. InOrder(S) = [k \in T |-> CHOOSE n \in S : rank(n) = k - 1]
  BY DEF InOrder, below
<1> HIDE DEF rank
<1>10. \A k \in T : InOrder(S)[k] \in S /\ rank(InOrder(S)[k]) = k - 1
  BY <1>8, <1>9
<1>11. \A n \in S : \E k \in T : InOrder(S)[k] = n
  <2> TAKE n \in S
  <2>1. rank(n) + 1 \in T /\ rank(n) \in Nat
    BY <1>2, <1>5
  <2>2. (rank(n) + 1) - 1 = rank(n)
    BY <2>1
  <2>3. InOrder(S)[rank(n) + 1] = n
    BY <1>4, <1>10, <2>1, <2>2
  <2> QED BY <2>1, <2>3
<1>12. \A j, k \in T : InOrder(S)[j] = InOrder(S)[k] => j = k
  <2> SUFFICES ASSUME NEW j \in T, NEW k \in T, InOrder(S)[j] = InOrder(S)[k]
               PROVE  j = k
    OBVIOUS
  <2>1. j - 1 = k - 1
    BY <1>10
  <2>2. j \in Int /\ k \in Int
    BY <1>1
  <2> QED BY <2>1, <2>2
<1>13. DOMAIN InOrder(S) = T
  BY <1>9
<1>14. \A k \in DOMAIN InOrder(S) : Cardinality({m \in S : m < InOrder(S)[k]}) = k - 1
  BY <1>10, <1>13 DEF rank, below
<1> HIDE DEF T
<1>15. /\ \A k \in DOMAIN InOrder(S) : InOrder(S)[k] \in S
       /\ \A n \in S : \E k \in DOMAIN InOrder(S) : InOrder(S)[k] = n
       /\ \A j, k \in DOMAIN InOrder(S) : InOrder(S)[j] = InOrder(S)[k] => j = k
  BY <1>10, <1>11, <1>12, <1>13
<1> QED BY <1>1, <1>13, <1>14, <1>15 DEF T

LEMMA HasLeast ==
    ASSUME NEW S \in SUBSET Nat, IsFiniteSet(S), S # {}
    PROVE  \E n \in S : \A m \in S : n <= m
<1> DEFINE n == InOrder(S)[1]
           T == {m \in S : m < n}
<1>1. 1 \in 1..Cardinality(S)
  <2>1. Cardinality(S) \in Nat /\ Cardinality(S) # 0
    BY FS_CardinalityType, FS_EmptySet
  <2> QED BY <2>1
<1>2. n \in S /\ Cardinality(T) = 1 - 1
  <2>1. /\ DOMAIN InOrder(S) = 1..Cardinality(S)
        /\ \A k \in DOMAIN InOrder(S) : InOrder(S)[k] \in S
        /\ \A k \in DOMAIN InOrder(S) :
              Cardinality({m \in S : m < InOrder(S)[k]}) = k - 1
    BY InOrderLists
  <2>2. 1 \in DOMAIN InOrder(S)
    BY <1>1, <2>1
  <2> QED BY <2>1, <2>2, Zenon
<1> HIDE DEF n
<1>3. T \in SUBSET S /\ Cardinality(T) = 0
  BY <1>2
<1>4. T = {}
  <2>1. IsFiniteSet(T)
    BY <1>3, FS_Subset
  <2> HIDE DEF T
  <2> QED BY <1>3, <2>1, FS_EmptySet
<1>5. \A m \in S : n <= m
  BY <1>2, <1>4
<1> QED BY <1>2, <1>5

(* Each line that the resolver finds a vendor for is given to that vendor, *)
(* translated, once and to nobody else; no line is made up, no vendor has  *)
(* two orders, and exactly the lines nobody has are held.                  *)
SplitsExactly(order, resolver) ==
    LET lines == ToCanonical(order).lines
        split == Route(ToCanonical(order), resolver)
        Found(n) == IF lines[n].sku = <<>> THEN <<>> ELSE Resolve(lines[n].sku, resolver)
        Given(m, k, n) ==
           /\ Found(n) # <<>>
           /\ split.orders[m].vendor = Head(Found(n)).vendor
           /\ split.orders[m].lines[k] = Translated(lines[n], Head(Found(n)))
    IN  /\ {split.unmapped[k] : k \in DOMAIN split.unmapped}
              = {n \in DOMAIN order.lines : Found(n) = <<>>}
        /\ \A n \in DOMAIN order.lines : Found(n) # <<>> =>
              \E m \in DOMAIN split.orders :
                 \E k \in DOMAIN split.orders[m].lines : Given(m, k, n)
        /\ \A m \in DOMAIN split.orders : \A k \in DOMAIN split.orders[m].lines :
              \E n \in DOMAIN order.lines : Given(m, k, n)
        /\ \A m, j \in DOMAIN split.orders :
              /\ split.orders[m].vendor = split.orders[j].vendor => m = j
              /\ \A k \in DOMAIN split.orders[m].lines, i \in DOMAIN split.orders[j].lines :
                    split.orders[m].lines[k].line = split.orders[j].lines[i].line
                       => m = j /\ k = i

(* OrderRouter.route splits every order exactly, whatever the resolver     *)
(* answers.                                                                *)
THEOREM SplitIsExact ==
    ASSUME NEW order, order.lines \in Seq(ToSet(order.lines)), NEW resolver
    PROVE  SplitsExactly(order, resolver)
<1> DEFINE lines == ToCanonical(order).lines
           split == Route(ToCanonical(order), resolver)
           Found(n) == IF lines[n].sku = <<>> THEN <<>> ELSE Resolve(lines[n].sku, resolver)
           routed == {n \in DOMAIN lines : Found(n) # <<>>}
           Vendor(n) == Head(Found(n)).vendor
           Siblings(n) == {m \in routed : Vendor(m) = Vendor(n)}
           firsts == {n \in routed : \A m \in Siblings(n) : n <= m}
           F == InOrder(firsts)
           rest == DOMAIN lines \ routed
           missing == InOrder(rest)
           Own(n) == Translated(lines[n], Head(Found(n)))
           Ls(m) == InOrder(Siblings(F[m]))
           orders == split.orders
<1>1. /\ Len(order.lines) \in Nat
      /\ DOMAIN lines = 1..Len(order.lines)
      /\ DOMAIN lines = DOMAIN order.lines
      /\ \A n \in DOMAIN lines : lines[n].line = n
  BY LenProperties DEF ToCanonical
<1>2. /\ IsFiniteSet(DOMAIN lines) /\ DOMAIN lines \subseteq Nat
  BY <1>1, FS_Interval
<1>3. \A n \in DOMAIN lines : lines[n] = [line |-> n, sku |-> lines[n].sku,
         quantity |-> lines[n].quantity, per |-> lines[n].per, uom |-> lines[n].uom,
         price |-> lines[n].price]
  BY DEF ToCanonical
<1>4. /\ DOMAIN orders = DOMAIN F
      /\ \A m \in DOMAIN F : /\ orders[m].vendor = Vendor(F[m])
                             /\ DOMAIN orders[m].lines = DOMAIN Ls(m)
                             /\ \A k \in DOMAIN Ls(m) : orders[m].lines[k] = Own(Ls(m)[k])
  BY DEF Route
<1>5. /\ DOMAIN split.unmapped = DOMAIN missing
      /\ \A k \in DOMAIN missing : split.unmapped[k] = lines[missing[k]].line
  BY DEF Route
<1>6. \A S \in SUBSET DOMAIN lines :
         /\ \A k \in DOMAIN InOrder(S) : InOrder(S)[k] \in S
         /\ \A n \in S : \E k \in DOMAIN InOrder(S) : InOrder(S)[k] = n
         /\ \A j, k \in DOMAIN InOrder(S) : InOrder(S)[j] = InOrder(S)[k] => j = k
  BY <1>2, FS_Subset, InOrderLists
<1>7. \A n \in DOMAIN lines : Own(n).line = n
  BY <1>1, <1>3 DEF Translated
<1>8. /\ firsts \in SUBSET DOMAIN lines /\ firsts \subseteq routed
      /\ routed \in SUBSET DOMAIN lines
      /\ \A n : Siblings(n) \in SUBSET DOMAIN lines
      /\ \A n : \A m \in Siblings(n) : m \in routed /\ Vendor(m) = Vendor(n)
      /\ \A n \in routed : \A m \in routed : Vendor(m) = Vendor(n) => m \in Siblings(n)
      /\ rest \in SUBSET DOMAIN lines
  OBVIOUS
<1>9. \A n \in routed : \E m \in firsts : Vendor(m) = Vendor(n)
  <2> TAKE n \in routed
  <2>1. Siblings(n) \in SUBSET Nat /\ IsFiniteSet(Siblings(n)) /\ n \in Siblings(n)
    BY <1>2, FS_Subset
  <2>2. PICK m \in Siblings(n) : \A k \in Siblings(n) : m <= k
    BY <2>1, HasLeast
  <2> QED BY <2>2
<1>10. \A m, n \in firsts : Vendor(m) = Vendor(n) => m = n
  <2> SUFFICES ASSUME NEW m \in firsts, NEW n \in firsts, Vendor(m) = Vendor(n) PROVE m = n
    OBVIOUS
  <2>1. m <= n /\ n <= m
    OBVIOUS
  <2>2. m \in Nat /\ n \in Nat
    BY <1>2
  <2> QED BY <2>1, <2>2
<1>11. \A n \in DOMAIN lines : n \in routed <=> Found(n) # <<>>
  OBVIOUS
<1>12. \A n : n \in rest <=> n \in DOMAIN lines /\ Found(n) = <<>>
  OBVIOUS
<1> HIDE DEF lines, Found, routed, Vendor, Siblings, firsts, F, missing, Own, Ls, split, rest
<1>13. {split.unmapped[k] : k \in DOMAIN split.unmapped}
          = {n \in DOMAIN order.lines : Found(n) = <<>>}
  <2>1. /\ \A k \in DOMAIN missing : missing[k] \in rest
        /\ \A n \in rest : \E k \in DOMAIN missing : missing[k] = n
    BY <1>6, <1>8 DEF missing
  <2>2. \A k \in DOMAIN missing : split.unmapped[k] = missing[k]
    BY <1>1, <1>5, <1>12, <2>1
  <2>3. {split.unmapped[k] : k \in DOMAIN split.unmapped} = rest
    BY <1>5, <2>1, <2>2
  <2> QED BY <1>1, <1>12, <2>3
<1>14. /\ \A m \in DOMAIN F : F[m] \in firsts
       /\ \A n \in firsts : \E m \in DOMAIN F : F[m] = n
       /\ \A m, j \in DOMAIN F : F[m] = F[j] => m = j
  BY <1>6, <1>8 DEF F
<1>15. ASSUME NEW m \in DOMAIN F
       PROVE  /\ \A k \in DOMAIN Ls(m) : /\ Ls(m)[k] \in routed
                                          /\ Vendor(Ls(m)[k]) = Vendor(F[m])
              /\ \A n \in routed : Vendor(n) = Vendor(F[m])
                    => \E k \in DOMAIN Ls(m) : Ls(m)[k] = n
              /\ \A k, i \in DOMAIN Ls(m) : Ls(m)[k] = Ls(m)[i] => k = i
  <2>1. F[m] \in routed
    BY <1>8, <1>14
  <2> DEFINE S == Siblings(F[m])
  <2>2. S \in SUBSET DOMAIN lines
    BY <1>8
  <2>3. /\ \A n \in S : n \in routed /\ Vendor(n) = Vendor(F[m])
        /\ \A n \in routed : Vendor(n) = Vendor(F[m]) => n \in S
    BY <1>8, <2>1
  <2>4. Ls(m) = InOrder(S)
    BY DEF Ls
  <2> HIDE DEF S
  <2> QED BY <1>6, <2>2, <2>3, <2>4
<1>16. ASSUME NEW m \in DOMAIN F, NEW k \in DOMAIN Ls(m)
       PROVE  /\ Ls(m)[k] \in DOMAIN lines
              /\ Found(Ls(m)[k]) # <<>>
              /\ orders[m].vendor = Vendor(Ls(m)[k])
              /\ orders[m].lines[k] = Own(Ls(m)[k])
              /\ orders[m].lines[k].line = Ls(m)[k]
  BY <1>4, <1>7, <1>8, <1>11, <1>15
<1>17. \A m, j \in DOMAIN F : orders[m].vendor = orders[j].vendor => m = j
  BY <1>4, <1>10, <1>14
<1>18. ASSUME NEW m \in DOMAIN F, NEW j \in DOMAIN F, NEW k \in DOMAIN Ls(m),
              NEW i \in DOMAIN Ls(j), orders[m].lines[k].line = orders[j].lines[i].line
       PROVE  m = j /\ k = i
  <2>1. Ls(m)[k] = Ls(j)[i]
    BY <1>16, <1>18
  <2>2. m = j
    BY <1>16, <1>17, <2>1
  <2> QED BY <1>15, <2>1, <2>2
<1>19. ASSUME NEW n \in DOMAIN lines, Found(n) # <<>>
       PROVE  \E m \in DOMAIN F : \E k \in DOMAIN Ls(m) : Ls(m)[k] = n
  <2>1. n \in routed
    BY <1>11, <1>19
  <2>2. PICK f \in firsts : Vendor(f) = Vendor(n)
    BY <1>9, <2>1
  <2>3. PICK m \in DOMAIN F : F[m] = f
    BY <1>14
  <2> QED BY <1>15, <2>1, <2>2, <2>3
<1>20. \A m \in DOMAIN orders : \A k \in DOMAIN orders[m].lines :
          /\ Ls(m)[k] \in DOMAIN order.lines
          /\ Found(Ls(m)[k]) # <<>>
          /\ orders[m].vendor = Head(Found(Ls(m)[k])).vendor
          /\ orders[m].lines[k] = Translated(lines[Ls(m)[k]], Head(Found(Ls(m)[k])))
  BY <1>1, <1>4, <1>16 DEF Vendor, Own
<1>21. \A n \in DOMAIN order.lines : Found(n) # <<>> =>
          \E m \in DOMAIN orders : \E k \in DOMAIN orders[m].lines : Ls(m)[k] = n
  BY <1>1, <1>4, <1>19
<1>22. \A m, j \in DOMAIN orders :
          /\ orders[m].vendor = orders[j].vendor => m = j
          /\ \A k \in DOMAIN orders[m].lines, i \in DOMAIN orders[j].lines :
                orders[m].lines[k].line = orders[j].lines[i].line => m = j /\ k = i
  BY <1>4, <1>17, <1>18
<1> QED BY <1>13, <1>20, <1>21, <1>22 DEF lines, split, Found, SplitsExactly

-------------------------------------------------------------------------------
(* What is done with a split is still the split of the order.              *)
Routed == {"ledger", "artifact", "number", "save", "record", "duplicate", "processed"}

SplitInv ==
    \A r \in DOMAIN requests : requests[r].pc \in Routed =>
        \E entries \in SetToSeqs(requests[r].rows) :
           requests[r].split = Route(ToCanonical(requests[r].webhook.order),
                                     Resolver(entries, requests[r].reg.prefixes))

(* Every line of the order is given to one vendor once or held, in the     *)
(* quantity ordered, and no vendor gets two orders.                        *)
LinesGoOnce ==
    \A r \in DOMAIN requests : requests[r].pc \in Routed =>
        LET split == requests[r].split
            lines == requests[r].webhook.order.lines
            Given(n) == \E m \in DOMAIN split.orders : \E k \in DOMAIN split.orders[m].lines :
                           split.orders[m].lines[k].line = n
        IN  /\ {split.unmapped[k] : k \in DOMAIN split.unmapped} = {n \in DOMAIN lines : ~Given(n)}
            /\ \A m \in DOMAIN split.orders : \A k \in DOMAIN split.orders[m].lines :
                  \E n \in DOMAIN lines :
                     /\ split.orders[m].lines[k].line = n
                     /\ split.orders[m].lines[k].quantity = lines[n].quantity
            /\ \A m, j \in DOMAIN split.orders :
                  /\ split.orders[m].vendor = split.orders[j].vendor => m = j
                  /\ \A k \in DOMAIN split.orders[m].lines, i \in DOMAIN split.orders[j].lines :
                        split.orders[m].lines[k].line = split.orders[j].lines[i].line
                           => m = j /\ k = i

(* Only the catalog's await sets a split, and only the shop's sets what it *)
(* was made from.                                                          *)
LEMMA SplitStays ==
    ASSUME DeliveryInv, NEW r \in DOMAIN requests,
           \/ LookUp(r) \/ PutRaw(r) \/ DrawForVendor(r) \/ SaveOrder(r) \/ RecordEvent(r)
    PROVE  /\ requests[r].pc \in Routed
           /\ requests'[r].webhook = requests[r].webhook /\ requests'[r].reg = requests[r].reg
           /\ requests'[r].rows = requests[r].rows /\ requests'[r].split = requests[r].split
<1>1. IsDelivery(requests[r])
  BY DEF DeliveryInv, Sound
<1>2. CASE LookUp(r)
  BY <1>1, <1>2 DEF LookUp, IsDelivery, Routed
<1>3. CASE PutRaw(r)
  BY <1>1, <1>3 DEF PutRaw, IsDelivery, Routed
<1>4. CASE DrawForVendor(r)
  BY <1>1, <1>4 DEF DrawForVendor, IsDelivery, Routed
<1>5. CASE SaveOrder(r)
  BY <1>1, <1>5 DEF SaveOrder, IsDelivery, Routed
<1>6. CASE RecordEvent(r)
  BY <1>1, <1>6 DEF RecordEvent, IsDelivery, Routed
<1> QED BY <1>2, <1>3, <1>4, <1>5, <1>6

LEMMA SplitStep == DeliveryInv /\ SplitInv /\ [ShopifyNext]_shopifyVars => SplitInv'
<1> DEFINE Holds(q) == q.pc \in Routed =>
              \E entries \in SetToSeqs(q.rows) :
                 q.split = Route(ToCanonical(q.webhook.order), Resolver(entries, q.reg.prefixes))
<1> SUFFICES ASSUME DeliveryInv, SplitInv, [ShopifyNext]_shopifyVars,
                    NEW k \in DOMAIN requests'
             PROVE  Holds(requests'[k])
  BY DEF SplitInv
<1>1. k \in DOMAIN requests => Holds(requests[k])
  BY DEF SplitInv
<1>2. CASE k \in DOMAIN requests /\ requests'[k] = requests[k]
  BY <1>1, <1>2
<1>3. CASE \E w \in Webhooks : Deliver(w)
  <2> PICK w \in Webhooks : Deliver(w)
    BY <1>3
  <2> DEFINE new == requests'[Len(requests) + 1]
  <2>1. /\ DOMAIN requests' = DOMAIN requests \cup {Len(requests) + 1}
        /\ \A j \in DOMAIN requests : requests'[j] = requests[j]
    BY Appended, AppendGrows DEF Deliver, DeliveryInv
  <2>2. new.pc = IF w.shop = NoShop THEN "refused" ELSE "shop"
    BY Appended DEF Deliver, DeliveryInv
  <2>3. new.pc \notin Routed
    BY <2>2 DEF Routed
  <2> HIDE DEF new
  <2>4. CASE k \in DOMAIN requests
    BY <1>2, <2>1, <2>4
  <2>5. CASE k = Len(requests) + 1
    BY <2>3, <2>5 DEF new
  <2> QED BY <2>1, <2>4, <2>5
<1>4. ASSUME NEW r \in DOMAIN requests,
             \/ FindShop(r) \/ IngestOrder(r) \/ LookUp(r) \/ PutRaw(r) \/ DrawForVendor(r)
             \/ SaveOrder(r) \/ RecordEvent(r) \/ StopDelivery(r)
      PROVE  Holds(requests'[k])
  <2>1. /\ DOMAIN requests' = DOMAIN requests
        /\ \A j \in DOMAIN requests \ {r} : requests'[j] = requests[j]
    BY <1>4 DEF FindShop, IngestOrder, LookUp, PutRaw, DrawForVendor, SaveOrder, RecordEvent,
                StopDelivery
  <2>2. IsDelivery(requests[r])
    BY DEF DeliveryInv, Sound
  <2>3. CASE k # r
    BY <1>2, <2>1, <2>3
  <2>4. CASE k = r /\ FindShop(r)
    <3>1. requests'[r].pc \in {"refused", "catalog"}
      BY <2>2, <2>4 DEF FindShop, IsDelivery
    <3> QED BY <2>4, <3>1 DEF Routed
  <2>5. CASE k = r /\ StopDelivery(r)
    <3>1. requests'[r].pc = "stopped"
      BY <2>2, <2>5 DEF StopDelivery, IsDelivery
    <3> QED BY <2>5, <3>1 DEF Routed
  <2>6. CASE k = r /\ (\/ LookUp(r) \/ PutRaw(r) \/ DrawForVendor(r) \/ SaveOrder(r)
                       \/ RecordEvent(r))
    <3>1. /\ requests[r].pc \in Routed
          /\ requests'[r].webhook = requests[r].webhook /\ requests'[r].reg = requests[r].reg
          /\ requests'[r].rows = requests[r].rows /\ requests'[r].split = requests[r].split
      BY <2>6, SplitStays
    <3> QED BY <1>1, <2>6, <3>1
  <2>7. CASE k = r /\ IngestOrder(r)
    <3> DEFINE old == requests[r]
               rows == {e \in catalog : e.tenant = old.reg.tenant}
               SplitFor(entries) == Route(ToCanonical(old.webhook.order),
                                          Resolver(entries, old.reg.prefixes))
    <3>1. PICK entries \in SetToSeqs(rows) :
             requests' =
                CASE ~old.webhook.signed -> [requests EXCEPT ![r].pc = "refused"]
                  [] old.webhook.signed /\ old.webhook.order.test
                        -> [requests EXCEPT ![r].pc = "skipped"]
                  [] OTHER -> [requests EXCEPT ![r].pc = "ledger", ![r].rows = rows,
                                               ![r].split = SplitFor(entries)]
      BY <2>7 DEF IngestOrder
    <3> DEFINE split == SplitFor(entries)
    <3> HIDE DEF rows, split
    <3>2. \/ requests' = [requests EXCEPT ![r].pc = "refused"]
          \/ requests' = [requests EXCEPT ![r].pc = "skipped"]
          \/ requests' = [requests EXCEPT ![r].pc = "ledger", ![r].rows = rows,
                                          ![r].split = split]
      BY <3>1 DEF split
    <3>3. DOMAIN old = {"webhook", "pc", "reg", "rows", "split", "artifact", "number",
                        "saved", "checked", "event"}
      BY <2>2 DEF IsDelivery
    <3>4. CASE requests' = [requests EXCEPT ![r].pc = "ledger", ![r].rows = rows,
                                            ![r].split = split]
      <4>1. /\ requests'[r].webhook = old.webhook /\ requests'[r].reg = old.reg
            /\ requests'[r].rows = rows /\ requests'[r].split = split
        BY <3>3, <3>4
      <4>2. entries \in SetToSeqs(requests'[r].rows)
        BY <3>1, <4>1
      <4>3. requests'[r].split = Route(ToCanonical(requests'[r].webhook.order),
                                       Resolver(entries, requests'[r].reg.prefixes))
        BY <4>1 DEF split
      <4> QED BY <2>7, <4>2, <4>3
    <3>5. CASE requests' = [requests EXCEPT ![r].pc = "refused"]
      <4>1. requests'[r].pc = "refused"
        BY <3>3, <3>5
      <4> QED BY <2>7, <4>1 DEF Routed
    <3>6. CASE requests' = [requests EXCEPT ![r].pc = "skipped"]
      <4>1. requests'[r].pc = "skipped"
        BY <3>3, <3>6
      <4> QED BY <2>7, <4>1 DEF Routed
    <3> QED BY <3>2, <3>4, <3>5, <3>6
  <2> QED BY <1>4, <2>3, <2>4, <2>5, <2>6, <2>7
<1>5. CASE UNCHANGED requests
  BY <1>2, <1>5
<1>6. CASE \/ \E reg \in Registrations : Register(reg)
           \/ \E sheet \in Sheets : BulkUpsert(sheet)
           \/ \E e \in catalog : RemoveEntry(e)
  BY <1>5, <1>6 DEF Register, BulkUpsert, RemoveEntry
<1> QED BY <1>3, <1>4, <1>5, <1>6 DEF ShopifyNext, shopifyVars

(* What vendors are sent and what is held for review is the order: each of *)
(* its lines once, however the catalog changes while it is dealt with.     *)
THEOREM EachLineGoesOnce == ShopifySpec => []LinesGoOnce
<1>1. DeliveryInv /\ SplitInv => LinesGoOnce
  <2> SUFFICES ASSUME DeliveryInv, SplitInv, NEW r \in DOMAIN requests,
                      requests[r].pc \in Routed
               PROVE  LET split == requests[r].split
                          lines == requests[r].webhook.order.lines
                          Given(n) == \E m \in DOMAIN split.orders :
                                         \E k \in DOMAIN split.orders[m].lines :
                                            split.orders[m].lines[k].line = n
                      IN  /\ {split.unmapped[k] : k \in DOMAIN split.unmapped}
                                = {n \in DOMAIN lines : ~Given(n)}
                          /\ \A m \in DOMAIN split.orders :
                                \A k \in DOMAIN split.orders[m].lines :
                                   \E n \in DOMAIN lines :
                                      /\ split.orders[m].lines[k].line = n
                                      /\ split.orders[m].lines[k].quantity = lines[n].quantity
                          /\ \A m, j \in DOMAIN split.orders :
                                /\ split.orders[m].vendor = split.orders[j].vendor => m = j
                                /\ \A k \in DOMAIN split.orders[m].lines,
                                      i \in DOMAIN split.orders[j].lines :
                                      split.orders[m].lines[k].line = split.orders[j].lines[i].line
                                         => m = j /\ k = i
    BY DEF LinesGoOnce
  <2> DEFINE order == requests[r].webhook.order
             split == requests[r].split
             lines == ToCanonical(order).lines
  <2>1. order.lines \in Seq(ToSet(order.lines))
    BY ShopifyAssumption DEF DeliveryInv, Sound, IsDelivery
  <2>2. PICK entries \in SetToSeqs(requests[r].rows) :
           split = Route(ToCanonical(order), Resolver(entries, requests[r].reg.prefixes))
    BY DEF SplitInv
  <2> DEFINE resolver == Resolver(entries, requests[r].reg.prefixes)
             Found(n) == IF lines[n].sku = <<>> THEN <<>> ELSE Resolve(lines[n].sku, resolver)
             Sent(m, k, n) ==
                /\ Found(n) # <<>>
                /\ split.orders[m].vendor = Head(Found(n)).vendor
                /\ split.orders[m].lines[k] = Translated(lines[n], Head(Found(n)))
  <2>3. \A n \in DOMAIN order.lines : lines[n] =
           [line |-> n, sku |-> lines[n].sku, quantity |-> order.lines[n].quantity,
            per |-> lines[n].per, uom |-> lines[n].uom, price |-> lines[n].price]
    BY DEF ToCanonical
  <2> HIDE DEF order, split, resolver, lines
  <2>4. /\ {split.unmapped[k] : k \in DOMAIN split.unmapped}
              = {n \in DOMAIN order.lines : Found(n) = <<>>}
        /\ \A n \in DOMAIN order.lines : Found(n) # <<>> =>
              \E m \in DOMAIN split.orders : \E k \in DOMAIN split.orders[m].lines : Sent(m, k, n)
        /\ \A m \in DOMAIN split.orders : \A k \in DOMAIN split.orders[m].lines :
              \E n \in DOMAIN order.lines : Sent(m, k, n)
        /\ \A m, j \in DOMAIN split.orders :
              /\ split.orders[m].vendor = split.orders[j].vendor => m = j
              /\ \A k \in DOMAIN split.orders[m].lines, i \in DOMAIN split.orders[j].lines :
                    split.orders[m].lines[k].line = split.orders[j].lines[i].line
                       => m = j /\ k = i
    <3>1. split = Route(ToCanonical(order), resolver)
      BY <2>2 DEF resolver
    <3>2. SplitsExactly(order, resolver)
      BY <2>1, SplitIsExact
    <3> QED BY <3>1, <3>2 DEF lines, SplitsExactly
  <2>5. ASSUME NEW m, NEW k, NEW n \in DOMAIN order.lines, Sent(m, k, n)
        PROVE  /\ split.orders[m].lines[k].line = n
               /\ split.orders[m].lines[k].quantity = order.lines[n].quantity
               /\ Found(n) # <<>>
    <3> DEFINE own == lines[n]
               res == Head(Found(n))
    <3>1. own = [line |-> n, sku |-> own.sku, quantity |-> order.lines[n].quantity,
                 per |-> own.per, uom |-> own.uom, price |-> own.price]
      BY <2>3
    <3>2. Found(n) # <<>> /\ split.orders[m].lines[k] = Translated(own, res)
      BY <2>5
    <3> HIDE DEF own, res, Found
    <3>3. /\ Translated(own, res).line = n
          /\ Translated(own, res).quantity = order.lines[n].quantity
      BY <3>1 DEF Translated
    <3> QED BY <3>2, <3>3
  <2> HIDE DEF Sent, Found
  <2> DEFINE Given(n) == \E m \in DOMAIN split.orders : \E k \in DOMAIN split.orders[m].lines :
                            split.orders[m].lines[k].line = n
  <2>6. \A n \in DOMAIN order.lines : Given(n) <=> Found(n) # <<>>
    BY <2>4, <2>5
  <2>7. {split.unmapped[k] : k \in DOMAIN split.unmapped} = {n \in DOMAIN order.lines : ~Given(n)}
    BY <2>4, <2>6
  <2>8. \A m \in DOMAIN split.orders : \A k \in DOMAIN split.orders[m].lines :
           \E n \in DOMAIN order.lines :
              /\ split.orders[m].lines[k].line = n
              /\ split.orders[m].lines[k].quantity = order.lines[n].quantity
    BY <2>4, <2>5
  <2> QED BY <2>4, <2>7, <2>8 DEF split, order
<1>2. ShopifyInit => SplitInv
  BY EmptyIsSequence DEF ShopifyInit, SplitInv
<1> QED BY <1>1, <1>2, SplitStep, DeliveriesAreSound, PTL DEF ShopifySpec

-------------------------------------------------------------------------------
(* Sorts that keep the order of equals, and options.                       *)
LEMMA FirstOfOne ==
    ASSUME NEW v, NEW d
    PROVE  FirstOf(<<v>>, d) = IF v = <<>> THEN d ELSE v[1]
<1>1. CASE v = <<>>
  <2>1. {n \in DOMAIN <<v>> : <<v>>[n] # <<>>} = {}
    BY <1>1
  <2> QED BY <1>1, <2>1 DEF FirstOf
<1>2. CASE v # <<>>
  <2>1. {n \in DOMAIN <<v>> : <<v>>[n] # <<>>} = {1}
    BY <1>2
  <2>2. Min({1}) = 1
    BY DEF Min
  <2>3. <<v>>[1] = v
    OBVIOUS
  <2> QED BY <1>2, <2>1, <2>2, <2>3 DEF FirstOf
<1> QED BY <1>1, <1>2

LEMMA FirstOfTwo ==
    ASSUME NEW v, NEW u, NEW d, v # <<>>
    PROVE  FirstOf(<<v, u>>, d) = v[1]
<1> DEFINE options == <<v, u>>
           there == {n \in DOMAIN options : options[n] # <<>>}
<1>1. 1 \in there /\ there \subseteq {1, 2} /\ options[1] = v
  OBVIOUS
<1>2. FirstOf(options, d) = IF there = {} THEN d ELSE options[Min(there)][1]
  BY DEF FirstOf
<1> HIDE DEF there, options
<1>3. Min(there) = 1
  <2>1. \A x \in there : (\A y \in there : x <= y) => x = 1
    BY <1>1
  <2>2. 1 \in there /\ \A y \in there : 1 <= y
    BY <1>1
  <2> QED BY <2>1, <2>2 DEF Min
<1>4. FirstOf(options, d) = v[1]
  BY <1>1, <1>2, <1>3
<1> QED BY <1>4 DEF options

(* A stable sort has a first element, and its key is the least.            *)
LEMMA SortedFirstIsLeast ==
    ASSUME NEW S \in SUBSET Nat, IsFiniteSet(S), S # {}, NEW key, DOMAIN key = S,
           \A n \in S : key[n] \in Int
    PROVE  SortedFirst(key) \in S /\ \A m \in S : key[SortedFirst(key)] <= key[m]
<1> DEFINE Before(m, n) == key[m] < key[n] \/ (key[m] = key[n] /\ m < n)
           before(n) == {m \in S : Before(m, n)}
           rank(n) == Cardinality(before(n))
           ranks == {rank(n) : n \in S}
<1>1. S \subseteq Nat /\ Cardinality(S) \in Nat
  BY FS_CardinalityType
<1>2. \A n \in S : IsFiniteSet(before(n)) /\ rank(n) \in 0..Cardinality(S)
  <2> TAKE n \in S
  <2>1. before(n) \in SUBSET S
    OBVIOUS
  <2> HIDE DEF before
  <2>2. /\ IsFiniteSet(before(n)) /\ Cardinality(before(n)) \in Nat
        /\ Cardinality(before(n)) <= Cardinality(S)
    BY <2>1, FS_Subset, FS_CardinalityType
  <2> QED BY <1>1, <2>2
<1>3. \A m, n \in S : Before(m, n) => rank(m) < rank(n)
  <2> SUFFICES ASSUME NEW m \in S, NEW n \in S, Before(m, n) PROVE rank(m) < rank(n)
    OBVIOUS
  <2>1. key[m] \in Int /\ key[n] \in Int /\ m \in Nat /\ n \in Nat
    BY <1>1
  <2>2. \A k \in S : Before(k, m) => Before(k, n)
    <3> TAKE k \in S
    <3>1. key[k] \in Int /\ k \in Nat
      BY <1>1
    <3> QED BY <2>1, <3>1
  <2>3. m \in before(n) /\ m \notin before(m)
    BY <2>1
  <2>4. before(m) \in SUBSET before(n) /\ before(m) # before(n)
    <3> HIDE DEF Before
    <3> QED BY <2>2, <2>3
  <2> HIDE DEF before, Before
  <2>5. /\ Cardinality(before(m)) <= Cardinality(before(n))
        /\ Cardinality(before(m)) # Cardinality(before(n))
    BY <1>2, <2>4, FS_Subset
  <2>6. rank(m) \in Nat /\ rank(n) \in Nat
    BY <1>1, <1>2
  <2> QED BY <2>5, <2>6
<1> HIDE DEF before
<1>4. PICK n \in S : \A m \in S : rank(n) <= rank(m)
  <2> HIDE DEF rank
  <2>1. ranks \in SUBSET (0..Cardinality(S)) /\ ranks # {}
    BY <1>2
  <2>2. ranks \in SUBSET Nat
    BY <1>1, <2>1
  <2>3. IsFiniteSet(0..Cardinality(S))
    <3>1. 0 \in Int /\ Cardinality(S) \in Int
      BY <1>1
    <3> QED BY <3>1, FS_Interval
  <2>4. IsFiniteSet(ranks)
    <3> HIDE DEF ranks
    <3> QED BY <2>1, <2>3, FS_Subset
  <2>5. \E r \in ranks : \A q \in ranks : r <= q
    <3> HIDE DEF ranks
    <3> QED BY <2>1, <2>2, <2>4, HasLeast
  <2> QED BY <2>5
<1>5. \A m \in S : ~Before(m, n)
  <2> TAKE m \in S
  <2>1. rank(m) \in Nat /\ rank(n) \in Nat /\ rank(n) <= rank(m)
    BY <1>1, <1>2, <1>4
  <2> HIDE DEF rank, Before
  <2> QED BY <1>3, <2>1
<1> HIDE DEF rank
<1> DEFINE First(k) == \A m \in DOMAIN key : key[k] < key[m] \/ (key[k] = key[m] /\ k <= m)
<1>6. First(n)
  <2> SUFFICES ASSUME NEW m \in S PROVE key[n] < key[m] \/ (key[n] = key[m] /\ n <= m)
    OBVIOUS
  <2>1. key[m] \in Int /\ key[n] \in Int /\ m \in Nat /\ n \in Nat
    BY <1>1
  <2> QED BY <1>5, <2>1
<1>7. SortedFirst(key) = CHOOSE k \in DOMAIN key : First(k)
  BY DEF SortedFirst
<1> HIDE DEF First
<1>8. SortedFirst(key) \in S /\ First(SortedFirst(key))
  BY <1>6, <1>7
<1>9. \A m \in S : key[SortedFirst(key)] <= key[m]
  <2> TAKE m \in S
  <2>1. key[m] \in Int /\ key[SortedFirst(key)] \in Int
    BY <1>8
  <2> QED BY <1>8, <2>1 DEF First
<1> QED BY <1>8, <1>9
(* The sequences that list a finite set list all of it.                    *)
LEMMA SeqsListTheSet ==
    ASSUME NEW S, IsFiniteSet(S), NEW f \in SetToSeqs(S)
    PROVE  /\ Cardinality(S) \in Nat /\ DOMAIN f = 1..Cardinality(S)
           /\ \A n \in DOMAIN f : f[n] \in S
           /\ \A e \in S : \E n \in DOMAIN f : f[n] = e
<1> DEFINE D == 1..Cardinality(S)
<1>1. Cardinality(S) \in Nat
  BY FS_CardinalityType
<1>2. f \in [D -> S] /\ \A i, j \in D : i # j => f[i] # f[j]
  BY DEF SetToSeqs
<1>3. IsFiniteSet(D) /\ Cardinality(D) = Cardinality(S)
  BY <1>1, FS_Interval
<1> HIDE DEF D
<1>4. f \in Injection(D, S)
  BY <1>2 DEF Injection, IsInjective
<1>5. f \in Surjection(D, S)
  BY <1>3, <1>4, FS_Injection
<1>6. \A e \in S : \E n \in D : f[n] = e
  BY <1>5 DEF Surjection
<1>7. DOMAIN f = D /\ \A n \in D : f[n] \in S
  BY <1>2
<1> QED BY <1>1, <1>6, <1>7 DEF D

-------------------------------------------------------------------------------
(* What a SKU resolves to.                                                 *)
RowsAreEntries(rows) == IsFiniteSet(rows) /\ \A e \in rows : IsEntry(e) /\ e.sku # <<>>
AreSequences(prefixes) ==
    /\ prefixes \in Seq(ToSet(prefixes))
    /\ \A n \in DOMAIN prefixes : prefixes[n].prefix \in Seq(ToSet(prefixes[n].prefix))
PerOf(pack) == IF FirstOf(<<pack>>, 1) > 1 THEN FirstOf(<<pack>>, 1) ELSE 1

(* SkuResolver finds a vendor that has the SKU, if any has: one of those   *)
(* bound to it with the least priority, else one of the longest prefix.    *)
ResolvesIn(sku, rows, prefixes, found) ==
    /\ found = <<>> <=> Vendors(sku, rows, prefixes) = {}
    /\ found # <<>> =>
          <<found[1].vendor, found[1].sku, PerOf(found[1].pack)>> \in Vendors(sku, rows, prefixes)

LEMMA PriorityIsInt == \A e : IsEntry(e) => Priority(e) \in Int
<1> SUFFICES ASSUME NEW e, IsEntry(e) PROVE Priority(e) \in Int
  OBVIOUS
<1>1. Priority(e) = IF e.priority = <<>> THEN 0 ELSE e.priority[1]
  BY FirstOfOne DEF Priority
<1>2. e.priority \in Seq(Int)
  BY DEF IsEntry
<1>3. e.priority # <<>> => e.priority[1] \in Int
  BY <1>2
<1> QED BY <1>1, <1>3

LEMMA PerIsThePack ==
    \A pack : PerOf(pack) = IF pack # <<>> /\ pack[1] > 1 THEN pack[1] ELSE 1
<1> TAKE pack
<1>1. FirstOf(<<pack>>, 1) = IF pack = <<>> THEN 1 ELSE pack[1]
  BY FirstOfOne
<1>2. CASE pack = <<>>
  <2>1. PerOf(pack) = IF 1 > 1 THEN 1 ELSE 1
    BY <1>1, <1>2 DEF PerOf
  <2> QED BY <1>2, <2>1
<1>3. CASE pack # <<>>
  BY <1>1, <1>3 DEF PerOf
<1> QED BY <1>2, <1>3

LEMMA ResolvesToAVendor ==
    ASSUME NEW rows, RowsAreEntries(rows), NEW prefixes, AreSequences(prefixes),
           NEW entries \in SetToSeqs(rows), NEW sku
    PROVE  ResolvesIn(sku, rows, prefixes, Resolve(sku, Resolver(entries, prefixes)))
<1> DEFINE resolver == Resolver(entries, prefixes)
           found == Resolve(sku, resolver)
           listed == {n \in DOMAIN resolver.entries : resolver.entries[n].sku = sku}
           within == {n \in DOMAIN resolver.prefixes :
                        LET prefix == resolver.prefixes[n].prefix
                        IN  prefix # <<>> /\ IsPrefix(prefix, sku)}
           bound == {e \in rows : e.active /\ e.sku = sku}
           under == {p \in ToSet(prefixes) : p.prefix # <<>> /\ IsPrefix(p.prefix, sku)}
           best == resolver.entries[SortedFirst([n \in listed |-> Priority(resolver.entries[n])])]
           long == resolver.prefixes[SortedFirst(
                      [n \in within |-> -Len(resolver.prefixes[n].prefix)])]
<1> SUFFICES ResolvesIn(sku, rows, prefixes, found)
  OBVIOUS
<1>1. found = IF listed # {}
              THEN <<[vendor |-> best.vendor, sku |-> best.vendorSku,
                      pack |-> best.pack, uom |-> best.uom]>>
              ELSE IF within # {}
              THEN <<[vendor |-> long.vendor, sku |-> SubSeq(sku, Len(long.prefix) + 1, Len(sku)),
                      pack |-> <<>>, uom |-> <<>>]>>
              ELSE <<>>
  BY DEF Resolve
<1>2. Vendors(sku, rows, prefixes) =
         IF bound # {}
         THEN {<<e.vendor, e.vendorSku,
                 IF e.pack # <<>> /\ e.pack[1] > 1 THEN e.pack[1] ELSE 1>> :
                  e \in {f \in bound : \A g \in bound : Priority(f) <= Priority(g)}}
         ELSE {<<p.vendor, SubSeq(sku, Len(p.prefix) + 1, Len(sku)), 1>> :
                  p \in {q \in under : \A o \in under : Len(o.prefix) <= Len(q.prefix)}}
  BY DEF Vendors
<1>3. /\ listed \in SUBSET Nat /\ IsFiniteSet(listed)
      /\ \A n \in listed : resolver.entries[n] \in bound
      /\ \A e \in bound : \E n \in listed : resolver.entries[n] = e
  <2>1. /\ Cardinality(rows) \in Nat /\ DOMAIN entries = 1..Cardinality(rows)
        /\ \A n \in DOMAIN entries : entries[n] \in rows
        /\ \A e \in rows : \E n \in DOMAIN entries : entries[n] = e
    BY SeqsListTheSet DEF RowsAreEntries
  <2>2. /\ DOMAIN resolver.entries = {n \in DOMAIN entries : entries[n].active}
        /\ \A n \in DOMAIN resolver.entries : resolver.entries[n] = entries[n]
    BY DEF Resolver
  <2>3. listed \in SUBSET (1..Cardinality(rows))
    BY <2>1, <2>2
  <2>4. IsFiniteSet(1..Cardinality(rows)) /\ 1..Cardinality(rows) \subseteq Nat
    <3>1. 1 \in Int /\ Cardinality(rows) \in Int
      BY <2>1
    <3> QED BY <2>1, <3>1, FS_Interval
  <2>5. listed \in SUBSET Nat /\ IsFiniteSet(listed)
    <3> HIDE DEF listed
    <3> QED BY <2>3, <2>4, FS_Subset
  <2> HIDE DEF resolver
  <2>6. \A n \in listed : resolver.entries[n] \in bound
    BY <2>1, <2>2
  <2>7. \A e \in bound : \E n \in listed : resolver.entries[n] = e
    BY <2>1, <2>2
  <2> QED BY <2>5, <2>6, <2>7
<1>4. /\ within \in SUBSET Nat /\ IsFiniteSet(within)
      /\ \A n \in within : resolver.prefixes[n] \in under /\ n \in DOMAIN prefixes
      /\ \A p \in under : \E n \in within : resolver.prefixes[n] = p
      /\ resolver.prefixes = prefixes
  <2>1. resolver.prefixes = prefixes
    BY DEF Resolver
  <2>2. Len(prefixes) \in Nat /\ DOMAIN prefixes = 1..Len(prefixes)
    BY LenProperties DEF AreSequences
  <2>3. IsFiniteSet(1..Len(prefixes)) /\ 1..Len(prefixes) \subseteq Nat
    <3>1. 1 \in Int /\ Len(prefixes) \in Int
      BY <2>2
    <3> QED BY <2>2, <3>1, FS_Interval
  <2> HIDE DEF resolver
  <2>4. within \in SUBSET (1..Len(prefixes))
    BY <2>1, <2>2
  <2>5. within \in SUBSET Nat /\ IsFiniteSet(within)
    <3> HIDE DEF within
    <3> QED BY <2>3, <2>4, FS_Subset
  <2>6. \A n \in within : resolver.prefixes[n] \in under /\ n \in DOMAIN prefixes
    BY <2>1 DEF ToSet
  <2>7. \A p \in under : \E n \in within : resolver.prefixes[n] = p
    BY <2>1 DEF ToSet
  <2> QED BY <2>1, <2>5, <2>6, <2>7
<1>5. \A e \in bound : Priority(e) \in Int
  BY PriorityIsInt DEF RowsAreEntries
<1>6. \A p \in under : Len(p.prefix) \in Nat
  BY LenProperties DEF AreSequences, ToSet
<1> HIDE DEF resolver, found, listed, within, bound, under
<1>7. CASE listed # {}
  <2> DEFINE key == [n \in listed |-> Priority(resolver.entries[n])]
  <2>1. DOMAIN key = listed /\ \A n \in listed : key[n] \in Int
    BY <1>3, <1>5
  <2>2. SortedFirst(key) \in listed /\ \A m \in listed : key[SortedFirst(key)] <= key[m]
    <3> HIDE DEF key
    <3> QED BY <1>3, <1>7, <2>1, SortedFirstIsLeast
  <2>3. best \in bound
    BY <1>3, <2>2
  <2>4. \A g \in bound : Priority(best) <= Priority(g)
    <3> TAKE g \in bound
    <3>1. PICK n \in listed : resolver.entries[n] = g
      BY <1>3
    <3>2. key[SortedFirst(key)] <= key[n]
      BY <2>2
    <3> QED BY <2>2, <3>1, <3>2
  <2>5. bound # {}
    BY <2>3
  <2> HIDE DEF best
  <2>6. found = <<[vendor |-> best.vendor, sku |-> best.vendorSku,
                   pack |-> best.pack, uom |-> best.uom]>>
    BY <1>1, <1>7
  <2>7. /\ found # <<>> /\ found[1].vendor = best.vendor /\ found[1].sku = best.vendorSku
        /\ found[1].pack = best.pack
    BY <2>6
  <2>8. <<best.vendor, best.vendorSku,
          IF best.pack # <<>> /\ best.pack[1] > 1 THEN best.pack[1] ELSE 1>>
             \in Vendors(sku, rows, prefixes)
    BY <1>2, <2>3, <2>4, <2>5
  <2>9. PerOf(best.pack) = IF best.pack # <<>> /\ best.pack[1] > 1 THEN best.pack[1] ELSE 1
    BY PerIsThePack
  <2>10. <<best.vendor, best.vendorSku, PerOf(best.pack)>> \in Vendors(sku, rows, prefixes)
    BY <2>8, <2>9
  <2> QED BY <2>7, <2>10 DEF ResolvesIn
<1>8. CASE listed = {} /\ within # {}
  <2> DEFINE key == [n \in within |-> -Len(resolver.prefixes[n].prefix)]
  <2>1. DOMAIN key = within /\ \A n \in within : key[n] \in Int
    BY <1>4, <1>6
  <2>2. SortedFirst(key) \in within /\ \A m \in within : key[SortedFirst(key)] <= key[m]
    <3> HIDE DEF key
    <3> QED BY <1>4, <1>8, <2>1, SortedFirstIsLeast
  <2>3. long \in under
    BY <1>4, <2>2
  <2>4. \A o \in under : Len(o.prefix) <= Len(long.prefix)
    <3> TAKE o \in under
    <3>1. PICK n \in within : resolver.prefixes[n] = o
      BY <1>4
    <3>2. -Len(long.prefix) <= -Len(o.prefix)
      BY <2>2, <3>1
    <3>3. Len(long.prefix) \in Nat /\ Len(o.prefix) \in Nat
      BY <1>6, <2>3
    <3> HIDE DEF long
    <3> QED BY <3>2, <3>3
  <2>5. bound = {}
    BY <1>3, <1>8
  <2> HIDE DEF long
  <2>6. found = <<[vendor |-> long.vendor, sku |-> SubSeq(sku, Len(long.prefix) + 1, Len(sku)),
                   pack |-> <<>>, uom |-> <<>>]>>
    BY <1>1, <1>8
  <2>7. /\ found # <<>> /\ found[1].vendor = long.vendor
        /\ found[1].sku = SubSeq(sku, Len(long.prefix) + 1, Len(sku))
        /\ found[1].pack = <<>>
    BY <2>6
  <2>8. <<long.vendor, SubSeq(sku, Len(long.prefix) + 1, Len(sku)), 1>>
           \in Vendors(sku, rows, prefixes)
    BY <1>2, <2>3, <2>4, <2>5
  <2>9. PerOf(<<>>) = 1
    BY PerIsThePack
  <2> QED BY <2>7, <2>8, <2>9 DEF ResolvesIn
<1>9. CASE listed = {} /\ within = {}
  <2>1. bound = {} /\ under = {}
    BY <1>3, <1>4, <1>9
  <2>2. Vendors(sku, rows, prefixes) = {}
    BY <1>2, <2>1
  <2>3. found = <<>>
    BY <1>1, <1>9
  <2> QED BY <2>2, <2>3 DEF ResolvesIn
<1> QED BY <1>7, <1>8, <1>9

(* A line without a SKU has no vendor.                                     *)
LEMMA NobodyHasTheEmptySku ==
    ASSUME NEW rows, RowsAreEntries(rows), NEW prefixes, AreSequences(prefixes)
    PROVE  Vendors(<<>>, rows, prefixes) = {}
<1>1. {e \in rows : e.active /\ e.sku = <<>>} = {}
  BY DEF RowsAreEntries
<1>2. \A p \in ToSet(prefixes) : p.prefix # <<>> => ~IsPrefix(p.prefix, <<>>)
  <2> SUFFICES ASSUME NEW p \in ToSet(prefixes), p.prefix # <<>>, IsPrefix(p.prefix, <<>>)
               PROVE  FALSE
    OBVIOUS
  <2>1. p.prefix \in Seq(ToSet(p.prefix))
    BY DEF AreSequences, ToSet
  <2>2. Len(p.prefix) <= 0
    BY EmptyIsSequence DEF IsPrefix
  <2>3. Len(p.prefix) \in Nat
    BY <2>1, LenProperties
  <2>4. Len(p.prefix) = 0
    BY <2>2, <2>3
  <2> QED BY <2>1, <2>4, EmptySeq
<1>3. {p \in ToSet(prefixes) : p.prefix # <<>> /\ IsPrefix(p.prefix, <<>>)} = {}
  BY <1>2
<1> QED BY <1>1, <1>3 DEF Vendors

(* The purchase order is the order's name, with or without its hash.       *)
LEMMA NameIsKept ==
    ASSUME NEW order, order.name # <<>>
    PROVE  ToCanonical(order).po \in {order.name[1], Tail(order.name[1])}
<1> DEFINE given == <<Hash>> \o FirstOf(<<order.number>>, order.id)
           name == FirstOf(<<order.name>>, given)
           po == ToCanonical(order).po
<1>1. po = IF name # <<>> /\ Head(name) = Hash THEN Tail(name) ELSE name
  BY DEF ToCanonical
<1> HIDE DEF given
<1>2. name = order.name[1]
  BY FirstOfOne
<1> HIDE DEF name, po
<1>3. po \in {order.name[1], Tail(order.name[1])}
  BY <1>1, <1>2
<1> QED BY <1>3 DEF po

(* An order made from the template orders what the shop's customer did.    *)
LEMMA TemplateIsTheOrder ==
    ASSUME NEW w \in Webhooks
    PROVE  LET order == w.order
               made == ToShopify(ToCanonical(order))
           IN  /\ Len(made.lines) = Len(order.lines)
               /\ order.name # <<>> => made.po \in {order.name[1], Tail(order.name[1])}
               /\ \A n \in DOMAIN order.lines :
                     /\ made.lines[n].quantity = order.lines[n].quantity
                     /\ made.lines[n].sku = Trimmed(order.lines[n].sku)
                     /\ order.lines[n].shopMoney # <<>> =>
                           made.lines[n].price = order.lines[n].shopMoney[1]
<1> DEFINE order == w.order
           canonical == ToCanonical(order)
           made == ToShopify(canonical)
<1>1. Len(order.lines) \in Nat /\ DOMAIN order.lines = 1..Len(order.lines)
  BY ShopifyAssumption, LenProperties
<1>2. /\ DOMAIN canonical.lines = DOMAIN order.lines
      /\ \A n \in DOMAIN order.lines :
            /\ canonical.lines[n].quantity = order.lines[n].quantity
            /\ canonical.lines[n].sku = Trimmed(order.lines[n].sku)
            /\ canonical.lines[n].price = LineAmount(order.lines[n])
  BY DEF ToCanonical
<1>3. /\ made.po = canonical.po
      /\ made.lines = [n \in DOMAIN canonical.lines |->
            [sku |-> canonical.lines[n].sku, quantity |-> canonical.lines[n].quantity,
             price |-> canonical.lines[n].price]]
  BY DEF ToShopify
<1>4. order.name # <<>> => made.po \in {order.name[1], Tail(order.name[1])}
  BY <1>3, NameIsKept
<1> HIDE DEF canonical
<1>5. Len(made.lines) = Len(order.lines)
  <2>1. made.lines = [n \in 1..Len(order.lines) |-> made.lines[n]]
    BY <1>1, <1>2, <1>3
  <2> HIDE DEF made, order
  <2> QED BY <1>1, <2>1, FunctionIsSequence
<1>6. ASSUME NEW n \in DOMAIN order.lines
      PROVE  /\ made.lines[n].quantity = order.lines[n].quantity
             /\ made.lines[n].sku = Trimmed(order.lines[n].sku)
             /\ order.lines[n].shopMoney # <<>> =>
                   made.lines[n].price = order.lines[n].shopMoney[1]
  <2>1. order.lines[n].shopMoney # <<>> =>
           LineAmount(order.lines[n]) = order.lines[n].shopMoney[1]
    BY FirstOfTwo DEF LineAmount
  <2> HIDE DEF made
  <2> QED BY <1>2, <1>3, <1>6, <2>1
<1> QED BY <1>4, <1>5, <1>6 DEF order, made, canonical

-------------------------------------------------------------------------------
(* The catalog and the registrations under deliveries.  What a delivery    *)
(* has read of them stays what they held.                                  *)
RowsHold(rows) ==
    /\ IsFiniteSet(rows)
    /\ \A e \in rows : IsEntry(e) /\ ValidEntry(e)
    /\ \A e, f \in rows : SameBinding(e, f) => e = f

ReadsHold(q, kept) ==
    /\ q.pc \in Routed => RowsAreEntries(q.rows)
    /\ q.pc \in Routed \cup {"catalog"} => q.reg \in Registrations
    /\ q.artifact \in 0..Len(kept)

CatalogInv ==
    /\ RowsHold(catalog)
    /\ shops \subseteq Registrations
    /\ \A s, t \in shops : s.shop = t.shop => s = t
    /\ edits \in 0..MaxEdits
    /\ \A r \in DOMAIN requests : ReadsHold(requests[r], bodies)

(* The last rows of a sheet's bindings, and the catalog with them.         *)
LEMMA UpsertKeepsRows ==
    ASSUME NEW rows, RowsHold(rows), NEW sheet \in Sheets
    PROVE  RowsHold(Upserted(rows, sheet))
<1> DEFINE valid == {n \in DOMAIN sheet : ValidEntry(sheet[n])}
           last == {k \in valid : \A m \in valid : SameBinding(sheet[m], sheet[k]) => m <= k}
           new == LastOfTheirBinding(sheet)
           kept == {row \in rows : \A e \in new : ~SameBinding(row, e)}
<1>1. /\ Len(sheet) \in Nat /\ DOMAIN sheet = 1..Len(sheet)
      /\ \A n \in DOMAIN sheet : IsEntry(sheet[n])
  BY CatalogAssumption, LenProperties
<1>2. new = {sheet[n] : n \in last}
  BY DEF LastOfTheirBinding
<1>3. last \subseteq DOMAIN sheet /\ \A n \in last : ValidEntry(sheet[n])
  OBVIOUS
<1>4. \A j, k \in last : SameBinding(sheet[j], sheet[k]) => j = k
  <2> SUFFICES ASSUME NEW j \in last, NEW k \in last, SameBinding(sheet[j], sheet[k])
               PROVE  j = k
    OBVIOUS
  <2>1. SameBinding(sheet[k], sheet[j])
    BY DEF SameBinding
  <2>2. j <= k /\ k <= j
    BY <2>1
  <2>3. j \in Nat /\ k \in Nat
    BY <1>1, <1>3
  <2> QED BY <2>2, <2>3
<1> HIDE DEF last, new
<1>5. IsFiniteSet(new)
  <2> DEFINE f == [n \in last |-> sheet[n]]
  <2>1. IsFiniteSet(1..Len(sheet))
    <3>1. 1 \in Int /\ Len(sheet) \in Int
      BY <1>1
    <3> QED BY <3>1, FS_Interval
  <2>2. IsFiniteSet(last)
    BY <1>1, <1>3, <2>1, FS_Subset
  <2>3. f \in Surjection(last, new)
    BY <1>2 DEF Surjection
  <2> HIDE DEF f
  <2> QED BY <2>2, <2>3, FS_Surjection
<1>6. IsFiniteSet(kept)
  <2>1. kept \in SUBSET rows
    OBVIOUS
  <2> HIDE DEF kept
  <2> QED BY <2>1, FS_Subset DEF RowsHold
<1>7. Upserted(rows, sheet) = kept \cup new
  BY DEF Upserted, new
<1>8. IsFiniteSet(Upserted(rows, sheet))
  <2> HIDE DEF kept
  <2> QED BY <1>5, <1>6, <1>7, FS_Union
<1>9. \A e \in Upserted(rows, sheet) : IsEntry(e) /\ ValidEntry(e)
  BY <1>1, <1>2, <1>3, <1>7 DEF RowsHold
<1>10. \A e, f \in new : SameBinding(e, f) => e = f
  BY <1>2, <1>4
<1>11. \A e, f \in Upserted(rows, sheet) : SameBinding(e, f) => e = f
  <2> SUFFICES ASSUME NEW e \in kept \cup new, NEW f \in kept \cup new, SameBinding(e, f)
               PROVE  e = f
    BY <1>7
  <2>1. SameBinding(f, e)
    BY DEF SameBinding
  <2>2. CASE e \in kept /\ f \in kept
    BY <2>2 DEF RowsHold
  <2>3. CASE e \in new /\ f \in new
    BY <1>10, <2>3
  <2>4. CASE e \in kept /\ f \in new
    BY <2>4
  <2>5. CASE e \in new /\ f \in kept
    BY <2>1, <2>5
  <2> QED BY <2>2, <2>3, <2>4, <2>5
<1> QED BY <1>8, <1>9, <1>11 DEF RowsHold

LEMMA FewerRowsHold ==
    ASSUME NEW rows, RowsHold(rows), NEW some \in SUBSET rows
    PROVE  RowsHold(some) /\ RowsAreEntries(some)
<1>1. IsFiniteSet(some)
  BY FS_Subset DEF RowsHold
<1> QED BY <1>1 DEF RowsHold, RowsAreEntries, ValidEntry

(* Which fields of its own each step of a delivery writes.                 *)
LEMMA ReadsStay ==
    ASSUME DeliveryInv, CatalogInv, NEW r \in DOMAIN requests,
           \/ LookUp(r) \/ PutRaw(r) \/ DrawForVendor(r) \/ SaveOrder(r) \/ RecordEvent(r)
    PROVE  ReadsHold(requests'[r], bodies')
<1>1. ReadsHold(requests[r], bodies)
  BY DEF CatalogInv
<1>2. /\ requests[r].pc \in Routed
      /\ requests'[r].reg = requests[r].reg /\ requests'[r].rows = requests[r].rows
  BY SplitStays
<1>3. IsDelivery(requests[r]) /\ IsSequence(bodies)
  BY DEF DeliveryInv, Sound
<1>4. requests'[r].artifact \in 0..Len(bodies')
  <2>1. CASE PutRaw(r)
    <3>1. bodies' = Append(bodies, requests[r].webhook)
      BY <2>1 DEF PutRaw
    <3>2. Len(bodies') = Len(bodies) + 1 /\ Len(bodies) \in Nat
      BY <1>3, <3>1, Appended DEF IsSequence
    <3>3. requests'[r].artifact = Len(bodies) + 1
      BY <1>3, <2>1 DEF PutRaw, IsDelivery
    <3> QED BY <3>2, <3>3
  <2>2. CASE LookUp(r) \/ DrawForVendor(r) \/ SaveOrder(r) \/ RecordEvent(r)
    <3>1. bodies' = bodies
      BY <2>2 DEF LookUp, DrawForVendor, SaveOrder, RecordEvent
    <3>2. requests'[r].artifact = requests[r].artifact
      <4>1. CASE LookUp(r)
        BY <1>3, <4>1 DEF LookUp, IsDelivery
      <4>2. CASE DrawForVendor(r)
        BY <1>3, <4>2 DEF DrawForVendor, IsDelivery
      <4>3. CASE SaveOrder(r)
        BY <1>3, <4>3 DEF SaveOrder, IsDelivery
      <4>4. CASE RecordEvent(r)
        BY <1>3, <4>4 DEF RecordEvent, IsDelivery
      <4> QED BY <2>2, <4>1, <4>2, <4>3, <4>4
    <3> QED BY <1>1, <3>1, <3>2 DEF ReadsHold
  <2> QED BY <2>1, <2>2
<1> QED BY <1>1, <1>2, <1>4 DEF ReadsHold

LEMMA BodiesGrow ==
    ASSUME DeliveryInv, [ShopifyNext]_shopifyVars
    PROVE  Len(bodies) \in Nat /\ Len(bodies') \in Nat /\ Len(bodies) <= Len(bodies')
<1>1. IsSequence(bodies) /\ Len(bodies) \in Nat
  BY DEF DeliveryInv, IsSequence
<1>2. CASE bodies' = bodies
  BY <1>1, <1>2
<1>3. CASE \E r \in DOMAIN requests : PutRaw(r)
  <2>1. PICK r \in DOMAIN requests : bodies' = Append(bodies, requests[r].webhook)
    BY <1>3 DEF PutRaw
  <2>2. Len(bodies') = Len(bodies) + 1
    BY <1>1, <2>1, Appended
  <2> QED BY <1>1, <2>2
<1> QED BY <1>2, <1>3 DEF ShopifyNext, shopifyVars, Register, BulkUpsert, RemoveEntry, Deliver,
           FindShop, IngestOrder, LookUp, DrawForVendor, SaveOrder, RecordEvent, StopDelivery

LEMMA ReadsStep ==
    ASSUME DeliveryInv, CatalogInv, [ShopifyNext]_shopifyVars, NEW k \in DOMAIN requests'
    PROVE  ReadsHold(requests'[k], bodies')
<1>1. /\ k \in DOMAIN requests => ReadsHold(requests[k], bodies)
      /\ RowsHold(catalog) /\ shops \subseteq Registrations
  BY DEF CatalogInv
<1>2. Len(bodies) \in Nat /\ Len(bodies') \in Nat /\ Len(bodies) <= Len(bodies')
  BY BodiesGrow
<1>3. CASE k \in DOMAIN requests /\ requests'[k] = requests[k]
  BY <1>1, <1>2, <1>3 DEF ReadsHold
<1>4. CASE \E w \in Webhooks : Deliver(w)
  <2> PICK w \in Webhooks : Deliver(w)
    BY <1>4
  <2> DEFINE new == requests'[Len(requests) + 1]
  <2>1. /\ DOMAIN requests' = DOMAIN requests \cup {Len(requests) + 1}
        /\ \A j \in DOMAIN requests : requests'[j] = requests[j]
    BY Appended, AppendGrows DEF Deliver, DeliveryInv
  <2>2. new.pc = (IF w.shop = NoShop THEN "refused" ELSE "shop") /\ new.artifact = 0
    BY Appended DEF Deliver, DeliveryInv
  <2>3. new.pc \notin Routed \cup {"catalog"}
    BY <2>2 DEF Routed
  <2> HIDE DEF new
  <2>4. ReadsHold(new, bodies')
    BY <1>2, <2>2, <2>3 DEF ReadsHold
  <2>5. CASE k \in DOMAIN requests
    BY <1>3, <2>1, <2>5
  <2>6. CASE k = Len(requests) + 1
    BY <2>4, <2>6 DEF new
  <2> QED BY <2>1, <2>5, <2>6
<1>5. ASSUME NEW r \in DOMAIN requests,
             \/ FindShop(r) \/ IngestOrder(r) \/ LookUp(r) \/ PutRaw(r) \/ DrawForVendor(r)
             \/ SaveOrder(r) \/ RecordEvent(r) \/ StopDelivery(r)
      PROVE  ReadsHold(requests'[k], bodies')
  <2>1. /\ DOMAIN requests' = DOMAIN requests
        /\ \A j \in DOMAIN requests \ {r} : requests'[j] = requests[j]
    BY <1>5 DEF FindShop, IngestOrder, LookUp, PutRaw, DrawForVendor, SaveOrder, RecordEvent,
                StopDelivery
  <2> DEFINE old == requests[r]
  <2>2. IsDelivery(old)
    BY DEF DeliveryInv, Sound
  <2>3. DOMAIN old = {"webhook", "pc", "reg", "rows", "split", "artifact", "number",
                      "saved", "checked", "event"}
    BY <2>2 DEF IsDelivery
  <2>4. old.artifact \in 0..Len(bodies)
    BY DEF CatalogInv, ReadsHold
  <2>5. CASE k # r
    BY <1>3, <2>1, <2>5
  <2>6. CASE k = r /\ FindShop(r)
    <3> DEFINE found == {s \in shops : s.shop = old.webhook.shop}
               row == CHOOSE s \in found : TRUE
    <3>1. old.pc = "shop" /\ bodies' = bodies
      BY <2>6 DEF FindShop
    <3>2. IF found = {} THEN requests' = [requests EXCEPT ![r].pc = "refused"]
                        ELSE requests' = [requests EXCEPT ![r].pc = "catalog", ![r].reg = row]
      BY <2>6 DEF FindShop
    <3>3. found # {} => row \in Registrations
      BY <1>1
    <3> HIDE DEF found, row
    <3>4. /\ requests'[r].artifact = old.artifact
          /\ \/ requests'[r].pc = "refused"
             \/ requests'[r].pc = "catalog" /\ requests'[r].reg \in Registrations
      <4>1. CASE found = {}
        <5>1. requests' = [requests EXCEPT ![r].pc = "refused"]
          BY <3>2, <4>1
        <5> QED BY <2>3, <5>1
      <4>2. CASE found # {}
        <5>1. requests' = [requests EXCEPT ![r].pc = "catalog", ![r].reg = row]
          BY <3>2, <4>2
        <5>2. requests'[r].pc = "catalog" /\ requests'[r].reg = row
              /\ requests'[r].artifact = old.artifact
          BY <2>3, <5>1
        <5> QED BY <3>3, <4>2, <5>2
      <4> QED BY <4>1, <4>2
    <3> QED BY <2>4, <2>6, <3>1, <3>4 DEF ReadsHold, Routed
  <2>7. CASE k = r /\ StopDelivery(r)
    <3>1. /\ requests'[r].pc = "stopped" /\ requests'[r].artifact = old.artifact
          /\ bodies' = bodies
      BY <2>3, <2>7 DEF StopDelivery
    <3> QED BY <2>4, <2>7, <3>1 DEF ReadsHold, Routed
  <2>8. CASE k = r /\ (\/ LookUp(r) \/ PutRaw(r) \/ DrawForVendor(r) \/ SaveOrder(r)
                       \/ RecordEvent(r))
    BY <2>8, ReadsStay
  <2>9. CASE k = r /\ IngestOrder(r)
    <3> DEFINE rows == {e \in catalog : e.tenant = old.reg.tenant}
               SplitFor(entries) == Route(ToCanonical(old.webhook.order),
                                          Resolver(entries, old.reg.prefixes))
    <3>1. old.pc = "catalog" /\ bodies' = bodies
      BY <2>9 DEF IngestOrder
    <3>2. PICK entries \in SetToSeqs(rows) :
             requests' =
                CASE ~old.webhook.signed -> [requests EXCEPT ![r].pc = "refused"]
                  [] old.webhook.signed /\ old.webhook.order.test
                        -> [requests EXCEPT ![r].pc = "skipped"]
                  [] OTHER -> [requests EXCEPT ![r].pc = "ledger", ![r].rows = rows,
                                               ![r].split = SplitFor(entries)]
      BY <2>9 DEF IngestOrder
    <3> DEFINE split == SplitFor(entries)
    <3>3. RowsAreEntries(rows)
      <4>1. rows \in SUBSET catalog
        OBVIOUS
      <4> HIDE DEF rows
      <4> QED BY <1>1, <4>1, FewerRowsHold
    <3>4. old.reg \in Registrations
      BY <3>1 DEF CatalogInv, ReadsHold
    <3> HIDE DEF rows, split
    <3>5. \/ requests' = [requests EXCEPT ![r].pc = "refused"]
          \/ requests' = [requests EXCEPT ![r].pc = "skipped"]
          \/ requests' = [requests EXCEPT ![r].pc = "ledger", ![r].rows = rows,
                                          ![r].split = split]
      BY <3>2 DEF split
    <3>6. CASE requests' = [requests EXCEPT ![r].pc = "ledger", ![r].rows = rows,
                                            ![r].split = split]
      <4>1. /\ requests'[r].reg = old.reg /\ requests'[r].rows = rows
            /\ requests'[r].artifact = old.artifact
        BY <2>3, <3>6
      <4> QED BY <2>4, <2>9, <3>1, <3>3, <3>4, <4>1 DEF ReadsHold
    <3>7. CASE requests' = [requests EXCEPT ![r].pc = "refused"]
      <4>1. requests'[r].pc = "refused" /\ requests'[r].artifact = old.artifact
        BY <2>3, <3>7
      <4> QED BY <2>4, <2>9, <3>1, <4>1 DEF ReadsHold, Routed
    <3>8. CASE requests' = [requests EXCEPT ![r].pc = "skipped"]
      <4>1. requests'[r].pc = "skipped" /\ requests'[r].artifact = old.artifact
        BY <2>3, <3>8
      <4> QED BY <2>4, <2>9, <3>1, <4>1 DEF ReadsHold, Routed
    <3> QED BY <3>5, <3>6, <3>7, <3>8
  <2> QED BY <1>5, <2>5, <2>6, <2>7, <2>8, <2>9
<1>6. CASE UNCHANGED requests
  BY <1>3, <1>6
<1>7. CASE \/ \E reg \in Registrations : Register(reg)
           \/ \E sheet \in Sheets : BulkUpsert(sheet)
           \/ \E e \in catalog : RemoveEntry(e)
  BY <1>6, <1>7 DEF Register, BulkUpsert, RemoveEntry
<1> QED BY <1>4, <1>5, <1>6, <1>7 DEF ShopifyNext, shopifyVars

LEMMA CatalogStep == DeliveryInv /\ CatalogInv /\ [ShopifyNext]_shopifyVars => CatalogInv'
<1> SUFFICES ASSUME DeliveryInv, CatalogInv, [ShopifyNext]_shopifyVars PROVE CatalogInv'
  OBVIOUS
<1>1. (\A r \in DOMAIN requests : ReadsHold(requests[r], bodies))'
  BY ReadsStep
<1>2. /\ RowsHold(catalog) /\ shops \subseteq Registrations
      /\ \A s, t \in shops : s.shop = t.shop => s = t
      /\ edits \in 0..MaxEdits /\ MaxEdits \in Nat
  BY ShopifyAssumption DEF CatalogInv
<1>3. ASSUME RowsHold(catalog'), shops' \subseteq Registrations,
             \A s, t \in shops' : s.shop = t.shop => s = t, edits' \in 0..MaxEdits
      PROVE  CatalogInv'
  BY <1>1, <1>3 DEF CatalogInv, RowsHold
<1>4. CASE UNCHANGED <<shops, catalog, edits>>
  BY <1>2, <1>3, <1>4
<1>5. ASSUME NEW reg \in Registrations, Register(reg) PROVE CatalogInv'
  <2>1. /\ shops' = {s \in shops : s.shop # reg.shop} \cup {reg}
        /\ catalog' = catalog /\ edits < MaxEdits /\ edits' = edits + 1
    BY <1>5 DEF Register
  <2>2. edits' \in 0..MaxEdits
    BY <1>2, <2>1
  <2> QED BY <1>2, <1>3, <2>1, <2>2
<1>6. ASSUME NEW sheet \in Sheets, BulkUpsert(sheet) PROVE CatalogInv'
  <2>1. /\ catalog' = Upserted(catalog, sheet)
        /\ shops' = shops /\ edits < MaxEdits /\ edits' = edits + 1
    BY <1>6 DEF BulkUpsert
  <2>2. edits' \in 0..MaxEdits
    BY <1>2, <2>1
  <2>3. RowsHold(catalog')
    BY <1>2, <2>1, UpsertKeepsRows
  <2> QED BY <1>2, <1>3, <2>1, <2>2, <2>3
<1>7. ASSUME NEW e \in catalog, RemoveEntry(e) PROVE CatalogInv'
  <2>1. /\ catalog' = {row \in catalog : ~SameBinding(row, e)}
        /\ shops' = shops /\ edits < MaxEdits /\ edits' = edits + 1
    BY <1>7 DEF RemoveEntry
  <2>2. edits' \in 0..MaxEdits
    BY <1>2, <2>1
  <2>3. catalog' \in SUBSET catalog
    BY <2>1
  <2>4. RowsHold(catalog')
    BY <1>2, <2>3, FewerRowsHold
  <2> QED BY <1>2, <1>3, <2>1, <2>2, <2>4
<1> QED BY <1>4, <1>5, <1>6, <1>7 DEF ShopifyNext, shopifyVars, Deliver, FindShop, IngestOrder,
           LookUp, PutRaw, DrawForVendor, SaveOrder, RecordEvent, StopDelivery

(* The catalog has one row for each binding, whatever is uploaded, and what*)
(* a delivery has read of it and of its registration is such.              *)
THEOREM CatalogStaysSound == ShopifySpec => []CatalogInv
<1>1. ShopifyInit => CatalogInv
  <2> SUFFICES ASSUME ShopifyInit PROVE CatalogInv
    OBVIOUS
  <2>1. requests = <<>> /\ shops = {} /\ catalog = FirstCatalog /\ edits = 0
    BY DEF ShopifyInit
  <2>2. RowsHold(FirstCatalog)
    BY CatalogAssumption DEF RowsHold
  <2> QED BY <2>1, <2>2, EmptyIsSequence, ShopifyAssumption DEF CatalogInv
<1> QED BY <1>1, CatalogStep, DeliveriesAreSound, PTL DEF ShopifySpec

(* The state of deliveries, registrations and catalog is well-typed, and   *)
(* what a delivery refers to is stored, for any number of them.            *)
THEOREM ShopifyTypes == ShopifySpec => []ShopifyTypeOK
<1>1. DeliveryInv /\ CatalogInv => ShopifyTypeOK
  <2> SUFFICES ASSUME DeliveryInv, CatalogInv PROVE ShopifyTypeOK
    OBVIOUS
  <2>1. /\ edits \in 0..MaxEdits
        /\ \A s, t \in shops : s.shop = t.shop => s = t
        /\ \A e, f \in catalog : SameBinding(e, f) => e = f
    BY DEF CatalogInv, RowsHold
  <2>2. ASSUME NEW r \in DOMAIN requests
        PROVE  /\ requests[r].webhook \in Webhooks
               /\ requests[r].pc \in Underway \cup Ended
               /\ requests[r].artifact \in 0..Len(bodies)
               /\ requests[r].event \in 0..Len(shopLedger)
               /\ requests[r].saved \in Seq(DOMAIN placed)
    <3>1. Sound(requests[r], bodies, placed, shopLedger) /\ ReadsHold(requests[r], bodies)
      BY DEF DeliveryInv, CatalogInv
    <3>2. Len(shopLedger) \in Nat /\ DOMAIN shopLedger = 1..Len(shopLedger)
      BY SequenceDomain DEF DeliveryInv, IsSequence
    <3>3. requests[r].event \in 0..Len(shopLedger)
      BY <3>1, <3>2 DEF Sound, KnowsTheLedger
    <3>4. requests[r].saved \in Seq(DOMAIN placed)
      <4>1. IsSequence(requests[r].saved)
        BY <3>1 DEF Sound, IsDelivery
      <4>2. \A n \in 1..Len(requests[r].saved) : requests[r].saved[n] \in DOMAIN placed
        BY <3>1, <4>1, SequenceDomain DEF Sound, PlacesItsSplit
      <4> QED BY <4>1, <4>2, SequenceIsSeq
    <3> QED BY <3>1, <3>3, <3>4 DEF Sound, IsDelivery, ReadsHold
  <2> QED BY <2>1, <2>2 DEF ShopifyTypeOK
<1> QED BY <1>1, DeliveriesAreSound, CatalogStaysSound, PTL

(* A split made from rows of the catalog covers the order.                 *)
Covers(order, rows, prefixes, split) ==
    LET lines == order.lines
        Of(n) == Vendors(Trimmed(lines[n].sku), rows, prefixes)
        given == UNION {{m} \X DOMAIN split.orders[m].lines : m \in DOMAIN split.orders}
        Given(g) == split.orders[g[1]].lines[g[2]]
    IN  /\ ToSet(split.unmapped) = {n \in DOMAIN lines : Of(n) = {}}
        /\ {Given(g).line : g \in given} = {n \in DOMAIN lines : Of(n) # {}}
        /\ \A n \in DOMAIN lines : Of(n) # {} =>
              \E g \in given :
                 /\ \A h \in given : (Given(h).line = n) <=> (h = g)
                 /\ <<split.orders[g[1]].vendor, Given(g).sku, Given(g).per>> \in Of(n)
                 /\ Given(g).quantity = lines[n].quantity
                 /\ Given(g).price = ShopPrice(lines[n])
        /\ \A m, k \in DOMAIN split.orders :
              split.orders[m].vendor = split.orders[k].vendor => m = k
        /\ order.name # <<>> =>
              \A m \in DOMAIN split.orders :
                 split.orders[m].po \in {order.name[1], Tail(order.name[1])}

(* The amount of a line is the customer's price.                           *)
LEMMA AmountIsThePrice ==
    ASSUME NEW line
    PROVE  LineAmount(line) = ShopPrice(line)
<1> DEFINE options == <<line.shopMoney, line.price>>
           there == {n \in DOMAIN options : options[n] # <<>>}
<1>1. LineAmount(line) = IF there = {} THEN 0 ELSE options[Min(there)][1]
  BY DEF LineAmount, FirstOf
<1>2. /\ options[1] = line.shopMoney /\ options[2] = line.price
      /\ DOMAIN options = {1, 2}
      /\ 1 \in there <=> line.shopMoney # <<>>
      /\ 2 \in there <=> line.price # <<>>
      /\ there \subseteq {1, 2}
  OBVIOUS
<1> HIDE DEF there, options
<1>3. CASE line.shopMoney # <<>>
  BY <1>3, FirstOfTwo DEF LineAmount, ShopPrice
<1>4. CASE line.shopMoney = <<>> /\ line.price # <<>>
  <2>1. there = {2}
    BY <1>2, <1>4
  <2>2. Min({2}) = 2
    BY DEF Min
  <2> QED BY <1>1, <1>2, <1>4, <2>1, <2>2 DEF ShopPrice
<1>5. CASE line.shopMoney = <<>> /\ line.price = <<>>
  <2>1. there = {}
    BY <1>2, <1>5
  <2> QED BY <1>1, <1>5, <2>1 DEF ShopPrice
<1> QED BY <1>3, <1>4, <1>5

(* Each order of a split bears the name of the order.                      *)
LEMMA SplitKeepsTheName ==
    ASSUME NEW order, NEW resolver, order.name # <<>>
    PROVE  LET split == Route(ToCanonical(order), resolver)
           IN  \A m \in DOMAIN split.orders :
                  split.orders[m].po \in {order.name[1], Tail(order.name[1])}
<1> DEFINE canonical == ToCanonical(order)
           split == Route(canonical, resolver)
<1>1. canonical.po \in {order.name[1], Tail(order.name[1])}
  BY NameIsKept
<1> HIDE DEF canonical
<1>2. \A m \in DOMAIN split.orders : split.orders[m].po = canonical.po
  BY DEF Route
<1> HIDE DEF split
<1> QED BY <1>1, <1>2 DEF split, canonical

LEMMA SplitCovers ==
    ASSUME NEW order, order.lines \in Seq(ToSet(order.lines)),
           NEW rows, RowsAreEntries(rows), NEW prefixes, AreSequences(prefixes),
           NEW entries \in SetToSeqs(rows)
    PROVE  Covers(order, rows, prefixes,
                  Route(ToCanonical(order), Resolver(entries, prefixes)))
<1> DEFINE resolver == Resolver(entries, prefixes)
           split == Route(ToCanonical(order), resolver)
           own == ToCanonical(order).lines
           Found(n) == IF own[n].sku = <<>> THEN <<>> ELSE Resolve(own[n].sku, resolver)
           Of(n) == Vendors(Trimmed(order.lines[n].sku), rows, prefixes)
           Sent(m, k, n) ==
              /\ Found(n) # <<>>
              /\ split.orders[m].vendor = Head(Found(n)).vendor
              /\ split.orders[m].lines[k] = Translated(own[n], Head(Found(n)))
           given == UNION {{m} \X DOMAIN split.orders[m].lines : m \in DOMAIN split.orders}
           Given(g) == split.orders[g[1]].lines[g[2]]
<1>1. \A n \in DOMAIN order.lines :
         own[n] = [line |-> n, sku |-> Trimmed(order.lines[n].sku),
                   quantity |-> order.lines[n].quantity, per |-> 1, uom |-> "EA",
                   price |-> LineAmount(order.lines[n])]
  BY DEF ToCanonical
<1> HIDE DEF own
<1>2. /\ {split.unmapped[k] : k \in DOMAIN split.unmapped}
            = {n \in DOMAIN order.lines : Found(n) = <<>>}
      /\ \A n \in DOMAIN order.lines : Found(n) # <<>> =>
            \E m \in DOMAIN split.orders : \E k \in DOMAIN split.orders[m].lines : Sent(m, k, n)
      /\ \A m \in DOMAIN split.orders : \A k \in DOMAIN split.orders[m].lines :
            \E n \in DOMAIN order.lines : Sent(m, k, n)
      /\ \A m, j \in DOMAIN split.orders :
            /\ split.orders[m].vendor = split.orders[j].vendor => m = j
            /\ \A k \in DOMAIN split.orders[m].lines, i \in DOMAIN split.orders[j].lines :
                  split.orders[m].lines[k].line = split.orders[j].lines[i].line
                     => m = j /\ k = i
  <2>1. SplitsExactly(order, resolver)
    BY SplitIsExact
  <2> QED BY <2>1 DEF SplitsExactly, own
<1>3. \A n \in DOMAIN order.lines :
         /\ Found(n) = <<>> <=> Of(n) = {}
         /\ Found(n) # <<>> =>
               <<Head(Found(n)).vendor, Head(Found(n)).sku, PerOf(Head(Found(n)).pack)>> \in Of(n)
  <2> TAKE n \in DOMAIN order.lines
  <2> DEFINE sku == Trimmed(order.lines[n].sku)
             found == Resolve(sku, resolver)
  <2>1. own[n].sku = sku
    <3> DEFINE price == LineAmount(order.lines[n])
               quantity == order.lines[n].quantity
    <3>1. own[n] = [line |-> n, sku |-> sku, quantity |-> quantity, per |-> 1, uom |-> "EA",
                    price |-> price]
      BY <1>1
    <3> HIDE DEF sku, price, quantity
    <3> QED BY <3>1
  <2>2. CASE sku = <<>>
    <3>1. Found(n) = <<>>
      BY <2>1, <2>2
    <3>2. Of(n) = {}
      BY <2>2, NobodyHasTheEmptySku
    <3> QED BY <3>1, <3>2
  <2>3. CASE sku # <<>>
    <3>1. Found(n) = found
      BY <2>1, <2>3
    <3>2. ResolvesIn(sku, rows, prefixes, found)
      BY ResolvesToAVendor
    <3>3. Head(found) = found[1]
      OBVIOUS
    <3> HIDE DEF found, sku
    <3>4. /\ found = <<>> <=> Vendors(sku, rows, prefixes) = {}
          /\ found # <<>> => <<Head(found).vendor, Head(found).sku, PerOf(Head(found).pack)>>
                                \in Vendors(sku, rows, prefixes)
      BY <3>2, <3>3 DEF ResolvesIn
    <3> HIDE DEF Found
    <3> QED BY <3>1, <3>4 DEF sku
  <2> QED BY <2>2, <2>3
<1> HIDE DEF split, Found, Of, resolver
<1>4. ASSUME NEW m, NEW k, NEW n \in DOMAIN order.lines, Sent(m, k, n)
      PROVE  /\ split.orders[m].lines[k].line = n
             /\ split.orders[m].lines[k].quantity = order.lines[n].quantity
             /\ split.orders[m].lines[k].price = ShopPrice(order.lines[n])
             /\ <<split.orders[m].vendor, split.orders[m].lines[k].sku,
                  split.orders[m].lines[k].per>> \in Of(n)
  <2> DEFINE line == own[n]
             res == Head(Found(n))
             out == Translated(line, res)
             uom == FirstOf(<<res.uom>>, line.uom)
             per == PerOf(res.pack)
             at == [line EXCEPT !.sku = res.sku]
             packed == [at EXCEPT !.per = per]
  <2>1. line = [line |-> n, sku |-> line.sku, quantity |-> order.lines[n].quantity,
                per |-> line.per, uom |-> line.uom, price |-> line.price]
        /\ line.price = ShopPrice(order.lines[n])
    <3> DEFINE sku == Trimmed(order.lines[n].sku)
               price == LineAmount(order.lines[n])
               quantity == order.lines[n].quantity
    <3>1. line = [line |-> n, sku |-> sku, quantity |-> quantity, per |-> 1, uom |-> "EA",
                  price |-> price]
      BY <1>1
    <3> HIDE DEF sku, price, quantity, line
    <3>2. line = [line |-> n, sku |-> line.sku, quantity |-> quantity, per |-> line.per,
                  uom |-> line.uom, price |-> line.price] /\ line.price = price
      BY <3>1
    <3> QED BY <3>2, AmountIsThePrice DEF quantity, price
  <2>2. out = [packed EXCEPT !.uom = uom]
    BY <2>1 DEF Translated, PerOf
  <2> HIDE DEF line, uom, per, out
  <2>3. at = [line |-> n, sku |-> res.sku, quantity |-> order.lines[n].quantity,
              per |-> line.per, uom |-> line.uom, price |-> line.price]
    BY <2>1
  <2> HIDE DEF at
  <2>4. packed = [line |-> n, sku |-> res.sku, quantity |-> order.lines[n].quantity,
                  per |-> per, uom |-> line.uom, price |-> line.price]
    BY <2>3
  <2> HIDE DEF packed
  <2>5. out = [line |-> n, sku |-> res.sku, quantity |-> order.lines[n].quantity,
               per |-> per, uom |-> uom, price |-> line.price]
    BY <2>2, <2>4
  <2>6. out.line = n /\ out.quantity = order.lines[n].quantity /\ out.sku = res.sku
        /\ out.per = per /\ out.price = line.price
    BY <2>5
  <2>7. split.orders[m].lines[k] = out /\ split.orders[m].vendor = res.vendor
    BY <1>4 DEF out, line
  <2>8. <<res.vendor, res.sku, per>> \in Of(n)
    BY <1>3, <1>4 DEF per
  <2> HIDE DEF res
  <2> QED BY <2>1, <2>6, <2>7, <2>8
<1> HIDE DEF Sent
<1>5. \A g : g \in given <=>
         \E m \in DOMAIN split.orders : \E k \in DOMAIN split.orders[m].lines : g = <<m, k>>
  OBVIOUS
<1> HIDE DEF given
<1>6. ToSet(split.unmapped) = {n \in DOMAIN order.lines : Of(n) = {}}
  BY <1>2, <1>3 DEF ToSet
<1>7. ASSUME NEW n \in DOMAIN order.lines, Of(n) # {}
      PROVE  \E g \in given :
                /\ \A h \in given : (Given(h).line = n) <=> (h = g)
                /\ <<split.orders[g[1]].vendor, Given(g).sku, Given(g).per>> \in Of(n)
                /\ Given(g).quantity = order.lines[n].quantity
                /\ Given(g).price = ShopPrice(order.lines[n])
  <2>1. PICK m \in DOMAIN split.orders : \E k \in DOMAIN split.orders[m].lines : Sent(m, k, n)
    BY <1>2, <1>3, <1>7
  <2>2. PICK k \in DOMAIN split.orders[m].lines : Sent(m, k, n)
    BY <2>1
  <2> DEFINE g == <<m, k>>
  <2>3. g \in given /\ g[1] = m /\ g[2] = k
    BY <1>5
  <2>4. /\ Given(g).line = n /\ Given(g).quantity = order.lines[n].quantity
        /\ Given(g).price = ShopPrice(order.lines[n])
        /\ <<split.orders[g[1]].vendor, Given(g).sku, Given(g).per>> \in Of(n)
    BY <1>4, <2>2, <2>3
  <2>5. ASSUME NEW h \in given, Given(h).line = n PROVE h = g
    <3>1. PICK j \in DOMAIN split.orders : \E i \in DOMAIN split.orders[j].lines : h = <<j, i>>
      BY <1>5
    <3>2. PICK i \in DOMAIN split.orders[j].lines : h = <<j, i>>
      BY <3>1
    <3>3. split.orders[j].lines[i].line = split.orders[m].lines[k].line
      BY <2>3, <2>4, <2>5, <3>2
    <3>4. j = m /\ i = k
      BY <1>2, <3>3
    <3> QED BY <3>2, <3>4
  <2>6. \A h \in given : (Given(h).line = n) <=> (h = g)
    BY <2>4, <2>5
  <2> HIDE DEF g, Given
  <2> QED BY <2>3, <2>4, <2>6
<1>8. \A m, k \in DOMAIN split.orders :
         split.orders[m].vendor = split.orders[k].vendor => m = k
  BY <1>2
<1>9. {Given(g).line : g \in given} = {n \in DOMAIN order.lines : Of(n) # {}}
  <2>1. ASSUME NEW g \in given
        PROVE  Given(g).line \in DOMAIN order.lines /\ Of(Given(g).line) # {}
    <3>1. PICK m \in DOMAIN split.orders : \E k \in DOMAIN split.orders[m].lines : g = <<m, k>>
      BY <1>5
    <3>2. PICK k \in DOMAIN split.orders[m].lines : g = <<m, k>>
      BY <3>1
    <3>3. PICK n \in DOMAIN order.lines : Sent(m, k, n)
      BY <1>2
    <3>4. split.orders[m].lines[k].line = n /\ Of(n) # {}
      BY <1>4, <3>3
    <3> QED BY <3>2, <3>4
  <2>2. ASSUME NEW n \in DOMAIN order.lines, Of(n) # {}
        PROVE  \E g \in given : Given(g).line = n
    BY <1>7, <2>2
  <2> HIDE DEF Given
  <2> QED BY <2>1, <2>2
<1>10. order.name # <<>> =>
          \A m \in DOMAIN split.orders :
             split.orders[m].po \in {order.name[1], Tail(order.name[1])}
  BY SplitKeepsTheName DEF split
<1> QED BY <1>6, <1>7, <1>8, <1>9, <1>10 DEF Covers, split, resolver, Of, given, Given

(* What a delivery sends or holds is the customer's order: each line at a  *)
(* vendor that had it in the catalog then, the best by priority or prefix, *)
(* in that vendor's packs, the quantity ordered and the price paid, and no *)
(* line besides; the lines nobody has are held.                            *)
THEOREM SplitsCoverTheOrder == ShopifySpec => []SplitCoversTheOrder
<1>1. DeliveryInv /\ SplitInv /\ CatalogInv => SplitCoversTheOrder
  <2>1. ASSUME DeliveryInv, SplitInv, CatalogInv, NEW r \in DOMAIN requests,
               requests[r].pc \in {"artifact", "record", "processed"}
        PROVE  Covers(requests[r].webhook.order, requests[r].rows, requests[r].reg.prefixes,
                      requests[r].split)
    <3> DEFINE q == requests[r]
    <3>1. q.pc \in Routed
      BY <2>1 DEF Routed
    <3>2. q.webhook \in Webhooks
      BY <2>1 DEF DeliveryInv, Sound, IsDelivery
    <3>3. q.webhook.order.lines \in Seq(ToSet(q.webhook.order.lines))
      BY <3>2, ShopifyAssumption
    <3>4. RowsAreEntries(q.rows) /\ q.reg \in Registrations
      BY <2>1, <3>1 DEF CatalogInv, ReadsHold
    <3>5. AreSequences(q.reg.prefixes)
      BY <3>4, CatalogAssumption DEF AreSequences
    <3>6. PICK entries \in SetToSeqs(q.rows) :
             q.split = Route(ToCanonical(q.webhook.order), Resolver(entries, q.reg.prefixes))
      BY <2>1, <3>1 DEF SplitInv
    <3> HIDE DEF q
    <3>7. Covers(q.webhook.order, q.rows, q.reg.prefixes,
                 Route(ToCanonical(q.webhook.order), Resolver(entries, q.reg.prefixes)))
      BY <3>3, <3>4, <3>5, SplitCovers
    <3>8. Covers(q.webhook.order, q.rows, q.reg.prefixes, q.split)
      BY <3>6, <3>7
    <3> QED BY <3>8 DEF q
  <2> QED BY <2>1 DEF SplitCoversTheOrder, Covers
<1>2. ShopifyInit => SplitInv
  BY EmptyIsSequence DEF ShopifyInit, SplitInv
<1> QED BY <1>1, <1>2, SplitStep, DeliveriesAreSound, CatalogStaysSound, PTL DEF ShopifySpec

(* Every line of an order goes once, to a vendor that has it, at the shop's*)
(* price and under a number of its own, however deliveries interleave with *)
(* each other and with the operators who edit the catalog.                 *)
THEOREM VendorOrdersStaySound == ShopifySpec => []VendorOrdersAreSound
<1>1. DeliveryInv => TemplateOrdersTheSame
  <2> SUFFICES ASSUME DeliveryInv, NEW r \in DOMAIN requests
               PROVE  requests[r].webhook \in Webhooks
    BY TemplateIsTheOrder DEF TemplateOrdersTheSame
  <2> QED BY DEF DeliveryInv, Sound, IsDelivery
<1>2. VendorNumbersDistinct /\ SplitCoversTheOrder /\ TemplateOrdersTheSame => VendorOrdersAreSound
  BY DEF VendorOrdersAreSound
<1> QED BY <1>1, <1>2, VendorNumbersStayDistinct, SplitsCoverTheOrder, DeliveriesAreSound, PTL
================================================================================
