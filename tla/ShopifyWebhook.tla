------------------------------ MODULE ShopifyWebhook ------------------------------
(***************************************************************************)
(* Orders from a shop.  A delivery of a webhook finds the shop's           *)
(* registration, splits the order over vendors by the tenant's catalog,    *)
(* looks the webhook up in the processing ledger, keeps the raw body, and  *)
(* places an 850 with each vendor, one await after another; Shopify sends  *)
(* again what was not answered.  Operators edit the catalog meanwhile.     *)
(***************************************************************************)
EXTENDS Integers, Sequences, FiniteSets, SequencesExt, FiniteSetsExt

CONSTANTS
    Webhooks,       \* what may be delivered: [shop, id, signed, order]
    Registrations,  \* what may be registered of a shop: [shop, tenant, prefixes]
    Sheets,         \* sequences of catalog entries that may be uploaded
    FirstCatalog,   \* the entries at the start
    NoShop,         \* the missing shop domain header
    MaxDeliveries,  \* bounds
    MaxEdits,
    MaxStops

ASSUME ShopifyAssumption ==
    /\ \A w \in Webhooks : Len(w.id) <= 1 /\ w.order.lines \in Seq(ToSet(w.order.lines))
    /\ MaxDeliveries \in Nat /\ MaxEdits \in Nat /\ MaxStops \in Nat

VARIABLES
    requests,    \* the deliveries received, in the order they came
    shops,       \* rows of shopify_registration
    catalog,     \* rows of product_catalog
    shopLedger,  \* processing events
    bodies,      \* raw artifacts
    placed,      \* outbound 850 transactions
    vendorSeq,   \* control numbers drawn, by tenant and vendor
    edits        \* how often operators have edited

shopifyVars == <<requests, shops, catalog, shopLedger, bodies, placed, vendorSeq, edits>>

(* The first of the values that are there; an absent value is <<>>.        *)
FirstOf(options, default) ==
    LET there == {n \in DOMAIN options : options[n] # <<>>}
    IN  IF there = {} THEN default ELSE options[Min(there)][1]

-------------------------------------------------------------------------------
(* shopifyOrderToCanonical.  Names and SKUs are sequences of characters.   *)
Hash == "#"
Trimmed(sku) ==
    LET kept == {n \in DOMAIN sku : sku[n] # " "}
    IN  IF kept = {} THEN <<>> ELSE SubSeq(sku, Min(kept), Max(kept))

LineAmount(line) == FirstOf(<<line.shopMoney, line.price>>, 0)

(* A fault of lineAmount: the bare price first.                            *)
ToCanonicalByPrice(order) ==
    LET name == FirstOf(<<order.name>>, <<Hash>> \o FirstOf(<<order.number>>, order.id))
    IN  [po |-> IF name # <<>> /\ Head(name) = Hash THEN Tail(name) ELSE name,
         lines |-> [n \in DOMAIN order.lines |->
                      [line |-> n, sku |-> Trimmed(order.lines[n].sku),
                       quantity |-> order.lines[n].quantity, per |-> 1, uom |-> "EA",
                       price |-> FirstOf(<<order.lines[n].price>>, 0)]]]

ToCanonical(order) ==
    LET name == FirstOf(<<order.name>>, <<Hash>> \o FirstOf(<<order.number>>, order.id))
    IN  [po |-> IF name # <<>> /\ Head(name) = Hash THEN Tail(name) ELSE name,
         lines |-> [n \in DOMAIN order.lines |->
                      [line |-> n, sku |-> Trimmed(order.lines[n].sku),
                       quantity |-> order.lines[n].quantity, per |-> 1, uom |-> "EA",
                       price |-> LineAmount(order.lines[n])]]]

(* canonicalToShopifyOrder: the template of an order to create.            *)
ToShopify(canonical) ==
    [po |-> canonical.po,
     lines |-> [n \in DOMAIN canonical.lines |->
                  [sku |-> canonical.lines[n].sku, quantity |-> canonical.lines[n].quantity,
                   price |-> canonical.lines[n].price]]]

-------------------------------------------------------------------------------
(* SkuResolver.  The entries are listed by SKU and priority, which the     *)
(* resolver sorts by again; among entries of equal priority the order is   *)
(* the table's, so `entries` is any order of them.                         *)
Priority(entry) == FirstOf(<<entry.priority>>, 0)

(* A fault of the sorts: the first listed.                                 *)
Unsorted(key) == Min(DOMAIN key)

(* What a stable sort puts first: of the least keys, the first listed.     *)
SortedFirst(key) ==
    CHOOSE n \in DOMAIN key :
       \A m \in DOMAIN key : key[n] < key[m] \/ (key[n] = key[m] /\ n <= m)

Resolver(entries, prefixes) ==
    [entries |-> [n \in {m \in DOMAIN entries : entries[m].active} |-> entries[n]],
     prefixes |-> prefixes]

Resolve(sku, resolver) ==
    LET bound == {n \in DOMAIN resolver.entries : resolver.entries[n].sku = sku}
        under == {n \in DOMAIN resolver.prefixes :
                     LET prefix == resolver.prefixes[n].prefix
                     IN  prefix # <<>> /\ IsPrefix(prefix, sku)}
        best == resolver.entries[SortedFirst([n \in bound |-> Priority(resolver.entries[n])])]
        long == resolver.prefixes[SortedFirst([n \in under |-> -Len(resolver.prefixes[n].prefix)])]
    IN  IF bound # {}
        THEN <<[vendor |-> best.vendor, sku |-> best.vendorSku,
                pack |-> best.pack, uom |-> best.uom]>>
        ELSE IF under # {}
        THEN <<[vendor |-> long.vendor, sku |-> SubSeq(sku, Len(long.prefix) + 1, Len(sku)),
                pack |-> <<>>, uom |-> <<>>]>>
        ELSE <<>>

(* A line as its vendor sees it: quantity/per units.                       *)
Translated(line, res) ==
    LET size == FirstOf(<<res.pack>>, 1)
    IN  [line EXCEPT !.sku = res.sku,
                     !.per = IF size > 1 THEN size ELSE 1,
                     !.uom = FirstOf(<<res.uom>>, @)]

(* The numbers of a finite set, least first.                               *)
InOrder(S) ==
    [k \in 1..Cardinality(S) |-> CHOOSE n \in S : Cardinality({m \in S : m < n}) = k - 1]

(* OrderRouter.route: one order for each vendor, in the order the vendors  *)
(* come up, and the lines that no vendor has.                              *)
Route(canonical, resolver) ==
    LET lines == canonical.lines
        Found(n) == IF lines[n].sku = <<>> THEN <<>> ELSE Resolve(lines[n].sku, resolver)
        routed == {n \in DOMAIN lines : Found(n) # <<>>}
        Vendor(n) == Head(Found(n)).vendor
        Siblings(n) == {m \in routed : Vendor(m) = Vendor(n)}
        firsts == {n \in routed : \A m \in Siblings(n) : n <= m}
        OrderFrom(n) ==
            [vendor |-> Vendor(n), po |-> canonical.po,
             lines |-> [k \in DOMAIN InOrder(Siblings(n)) |->
                          LET m == InOrder(Siblings(n))[k] IN Translated(lines[m], Head(Found(m)))]]
        missing == InOrder(DOMAIN lines \ routed)
    IN  [orders |-> [k \in DOMAIN InOrder(firsts) |-> OrderFrom(InOrder(firsts)[k])],
         unmapped |-> [k \in DOMAIN missing |-> lines[missing[k]].line]]

-------------------------------------------------------------------------------
NoSplit == [orders |-> <<>>, unmapped |-> <<>>]

ShopifyInit ==
    /\ requests = <<>>
    /\ shops = {}
    /\ catalog = FirstCatalog
    /\ shopLedger = <<>>
    /\ bodies = <<>>
    /\ placed = <<>>
    /\ vendorSeq = <<>>
    /\ edits = 0

(* ShopifyRegistrationRepository.upsert: one row for each shop.            *)
Register(reg) ==
    /\ edits < MaxEdits
    /\ edits' = edits + 1
    /\ shops' = {s \in shops : s.shop # reg.shop} \cup {reg}
    /\ UNCHANGED <<requests, catalog, shopLedger, bodies, placed, vendorSeq>>

(* One row for each tenant, SKU and vendor.  The invalid rows of a sheet   *)
(* are skipped, the others written one after another in one transaction: a *)
(* row replaces the one of its binding, the last one stays.                *)
ValidEntry(e) == e.sku # <<>> /\ e.vendorSku # <<>>
SameBinding(e, f) == e.tenant = f.tenant /\ e.sku = f.sku /\ e.vendor = f.vendor

LastOfTheirBinding(sheet) ==
    LET valid == {n \in DOMAIN sheet : ValidEntry(sheet[n])}
    IN  {sheet[n] : n \in {k \in valid :
                              \A m \in valid : SameBinding(sheet[m], sheet[k]) => m <= k}}

(* A fault of the upsert: the row that is there stays beside the new one.  *)
UpsertedBeside(rows, sheet) == rows \cup LastOfTheirBinding(sheet)

Upserted(rows, sheet) ==
    LET new == LastOfTheirBinding(sheet)
    IN  {row \in rows : \A e \in new : ~SameBinding(row, e)} \cup new

BulkUpsert(sheet) ==
    /\ edits < MaxEdits
    /\ edits' = edits + 1
    /\ catalog' = Upserted(catalog, sheet)
    /\ UNCHANGED <<requests, shops, shopLedger, bodies, placed, vendorSeq>>

(* Priorities and packs are integers where they are given, and the rows of *)
(* the table are of different bindings, which its unique index sees to.    *)
IsEntry(e) == e.priority \in Seq(Int) /\ e.pack \in Seq(Int)
ASSUME CatalogAssumption ==
    /\ IsFiniteSet(FirstCatalog)
    /\ \A e \in FirstCatalog : IsEntry(e) /\ ValidEntry(e)
    /\ \A e, f \in FirstCatalog : SameBinding(e, f) => e = f
    /\ \A sheet \in Sheets :
          sheet \in Seq(ToSet(sheet)) /\ \A n \in DOMAIN sheet : IsEntry(sheet[n])
    /\ \A reg \in Registrations :
          /\ reg.prefixes \in Seq(ToSet(reg.prefixes))
          /\ \A n \in DOMAIN reg.prefixes :
                reg.prefixes[n].prefix \in Seq(ToSet(reg.prefixes[n].prefix))

RemoveEntry(e) ==
    /\ edits < MaxEdits
    /\ edits' = edits + 1
    /\ catalog' = {row \in catalog : ~SameBinding(row, e)}
    /\ UNCHANGED <<requests, shops, shopLedger, bodies, placed, vendorSeq>>

(* A delivery: refused without the shop's domain, else it awaits getByShop.*)
Deliver(w) ==
    /\ Len(requests) < MaxDeliveries
    /\ requests' = Append(requests,
          [webhook |-> w, pc |-> IF w.shop = NoShop THEN "refused" ELSE "shop",
           reg |-> [shop |-> w.shop, tenant |-> NoShop, prefixes |-> <<>>],
           rows |-> {}, split |-> NoSplit, artifact |-> 0, number |-> 0, saved |-> <<>>,
           checked |-> 0, event |-> 0])
    /\ UNCHANGED <<shops, catalog, shopLedger, bodies, placed, vendorSeq, edits>>

FindShop(r) ==
    /\ requests[r].pc = "shop"
    /\ requests' =
          LET found == {s \in shops : s.shop = requests[r].webhook.shop}
          IN  IF found = {} THEN [requests EXCEPT ![r].pc = "refused"]
              ELSE [requests EXCEPT ![r].pc = "catalog", ![r].reg = CHOOSE s \in found : TRUE]
    /\ UNCHANGED <<shops, catalog, shopLedger, bodies, placed, vendorSeq, edits>>

(* The tenant's catalog is listed and ShopifyIntake.ingest runs on it: the *)
(* signature, test orders, the split.                                      *)
IngestOrder(r) ==
    LET w == requests[r].webhook
        rows == {e \in catalog : e.tenant = requests[r].reg.tenant}
    IN  /\ requests[r].pc = "catalog"
        /\ \E entries \in SetToSeqs(rows) :
              requests' =
                CASE ~w.signed -> [requests EXCEPT ![r].pc = "refused"]
                  [] w.signed /\ w.order.test -> [requests EXCEPT ![r].pc = "skipped"]
                  [] OTHER -> [requests EXCEPT
                        ![r].pc = "ledger", ![r].rows = rows,
                        ![r].split = Route(ToCanonical(w.order),
                                           Resolver(entries, requests[r].reg.prefixes))]
        /\ UNCHANGED <<shops, catalog, shopLedger, bodies, placed, vendorSeq, edits>>

(* The webhook id, else the order's.                                       *)
KeyOfWebhook(w) == FirstOf(<<w.id>>, w.order.id)
Timeline(tenant, key) ==
    {n \in DOMAIN shopLedger : shopLedger[n].tenant = tenant /\ shopLedger[n].key = key}

(* A fault of the lookup: it asks for deliveries that were not held.       *)
LookUpRouted(r) ==
    /\ requests[r].pc = "ledger"
    /\ requests' =
          IF \E n \in Timeline(requests[r].reg.tenant, KeyOfWebhook(requests[r].webhook)) :
                shopLedger[n].held
          THEN [requests EXCEPT ![r].pc = "duplicate"]
          ELSE [requests EXCEPT ![r].pc = "artifact", ![r].checked = Len(shopLedger)]
    /\ UNCHANGED <<shops, catalog, shopLedger, bodies, placed, vendorSeq, edits>>

LookUp(r) ==
    /\ requests[r].pc = "ledger"
    /\ requests' =
          IF Timeline(requests[r].reg.tenant, KeyOfWebhook(requests[r].webhook)) # {}
          THEN [requests EXCEPT ![r].pc = "duplicate"]
          ELSE [requests EXCEPT ![r].pc = "artifact", ![r].checked = Len(shopLedger)]
    /\ UNCHANGED <<shops, catalog, shopLedger, bodies, placed, vendorSeq, edits>>

(* Where the loop over the vendors goes on after n of them.                *)
AfterVendor(r, n) ==
    LET split == requests[r].split
    IN  IF split.unmapped = <<>> /\ n < Len(split.orders) THEN "number" ELSE "record"

PutRaw(r) ==
    /\ requests[r].pc = "artifact"
    /\ bodies' = Append(bodies, requests[r].webhook)
    /\ requests' = [requests EXCEPT ![r].artifact = Len(bodies) + 1,
                                    ![r].pc = AfterVendor(r, 0)]
    /\ UNCHANGED <<shops, catalog, shopLedger, placed, vendorSeq, edits>>

VendorOrder(r) == requests[r].split.orders[Len(requests[r].saved) + 1]
Drawn(scope) == IF scope \in DOMAIN vendorSeq THEN vendorSeq[scope] ELSE 0

(* A fault of the sequence: it starts over instead of counting on.         *)
DrawForVendorOver(r) ==
    LET scope == <<requests[r].reg.tenant, VendorOrder(r).vendor>>
    IN  /\ requests[r].pc = "number"
        /\ vendorSeq' = [s \in DOMAIN vendorSeq \cup {scope} |->
                            IF s = scope THEN 1 ELSE vendorSeq[s]]
        /\ requests' = [requests EXCEPT ![r].pc = "save",
                                        ![r].number = 1]
        /\ UNCHANGED <<shops, catalog, shopLedger, bodies, placed, edits>>

DrawForVendor(r) ==
    LET scope == <<requests[r].reg.tenant, VendorOrder(r).vendor>>
    IN  /\ requests[r].pc = "number"
        /\ vendorSeq' = [s \in DOMAIN vendorSeq \cup {scope} |->
                            IF s = scope THEN Drawn(scope) + 1 ELSE vendorSeq[s]]
        /\ requests' = [requests EXCEPT ![r].pc = "save",
                                        ![r].number = Drawn(scope) + 1]
        /\ UNCHANGED <<shops, catalog, shopLedger, bodies, placed, edits>>

(* A fault of the loop: it ends one vendor early.                          *)
SaveAllButLast(r) ==
    /\ requests[r].pc = "save"
    /\ placed' = Append(placed, [tenant |-> requests[r].reg.tenant, order |-> VendorOrder(r),
                                 number |-> requests[r].number])
    /\ requests' = [requests EXCEPT ![r].saved = Append(@, Len(placed) + 1),
                                    ![r].pc = AfterVendor(r, Len(requests[r].saved) + 2)]
    /\ UNCHANGED <<shops, catalog, shopLedger, bodies, vendorSeq, edits>>

SaveOrder(r) ==
    /\ requests[r].pc = "save"
    /\ placed' = Append(placed, [tenant |-> requests[r].reg.tenant, order |-> VendorOrder(r),
                                 number |-> requests[r].number])
    /\ requests' = [requests EXCEPT ![r].saved = Append(@, Len(placed) + 1),
                                    ![r].pc = AfterVendor(r, Len(requests[r].saved) + 1)]
    /\ UNCHANGED <<shops, catalog, shopLedger, bodies, vendorSeq, edits>>

RecordEvent(r) ==
    LET split == requests[r].split
    IN  /\ requests[r].pc = "record"
        /\ shopLedger' = Append(shopLedger,
              [tenant |-> requests[r].reg.tenant, key |-> KeyOfWebhook(requests[r].webhook),
               held |-> split.unmapped # <<>>, artifact |-> requests[r].artifact,
               relationship |-> IF split.orders = <<>> THEN NoShop ELSE split.orders[1].vendor])
        /\ requests' = [requests EXCEPT ![r].pc = "processed",
                                        ![r].event = Len(shopLedger) + 1]
        /\ UNCHANGED <<shops, catalog, bodies, placed, vendorSeq, edits>>

(* A delivery ends at an await: the process stops or the statement fails.  *)
Underway == {"shop", "catalog", "ledger", "artifact", "number", "save", "record"}
StopDelivery(r) ==
    /\ requests[r].pc \in Underway
    /\ Cardinality({q \in DOMAIN requests : requests[q].pc = "stopped"}) < MaxStops
    /\ requests' = [requests EXCEPT ![r].pc = "stopped"]
    /\ UNCHANGED <<shops, catalog, shopLedger, bodies, placed, vendorSeq, edits>>

ShopifyNext ==
    \/ \E reg \in Registrations : Register(reg)
    \/ \E sheet \in Sheets : BulkUpsert(sheet)
    \/ \E e \in catalog : RemoveEntry(e)
    \/ \E w \in Webhooks : Deliver(w)
    \/ \E r \in DOMAIN requests :
          \/ FindShop(r) \/ IngestOrder(r) \/ LookUp(r) \/ PutRaw(r) \/ DrawForVendor(r)
          \/ SaveOrder(r) \/ RecordEvent(r) \/ StopDelivery(r)

ShopifySpec == ShopifyInit /\ [][ShopifyNext]_shopifyVars

-------------------------------------------------------------------------------
Ended == {"refused", "skipped", "duplicate", "processed", "stopped"}
PlacedBy(r) == {placed[requests[r].saved[n]] : n \in DOMAIN requests[r].saved}

(* Each delivery is at an await of process or ended, and what it refers to *)
(* is stored: its artifact, its orders, its event.                         *)
ShopifyTypeOK ==
    /\ edits \in 0..MaxEdits
    /\ \A s, t \in shops : s.shop = t.shop => s = t
    /\ \A e, f \in catalog : SameBinding(e, f) => e = f
    /\ \A r \in DOMAIN requests :
          /\ requests[r].webhook \in Webhooks
          /\ requests[r].pc \in Underway \cup Ended
          /\ requests[r].artifact \in 0..Len(bodies)
          /\ requests[r].event \in 0..Len(shopLedger)
          /\ requests[r].saved \in Seq(DOMAIN placed)

(* A webhook's orders are placed by two deliveries only if neither could   *)
(* know of the other: they overlapped, or the first never recorded its     *)
(* event ("Idempotent on the webhook id").                                 *)
PlacedAgainOnlyUnawares ==
    \A q, r \in DOMAIN requests :
        /\ q # r
        /\ requests[q].reg.tenant = requests[r].reg.tenant
        /\ KeyOfWebhook(requests[q].webhook) = KeyOfWebhook(requests[r].webhook)
        /\ PlacedBy(q) # {} /\ PlacedBy(r) # {}
        => requests[q].event = 0 \/ requests[q].event > requests[r].checked

(* Shopify is told a webhook is dealt with only if some delivery of it, or *)
(* of another webhook of its order, placed the whole split with its vendors*)
(* or left it for review with nothing placed; the body is kept.            *)
DealtWith(r) ==
    LET split == requests[r].split
        event == shopLedger[requests[r].event]
    IN  /\ requests[r].pc = "processed"
        /\ bodies[event.artifact] = requests[r].webhook
        /\ IF split.unmapped # <<>>
           THEN event.held /\ PlacedBy(r) = {}
           ELSE ~event.held /\ {p.order : p \in PlacedBy(r)} = ToSet(split.orders)
AnsweredIsPlacedOrHeld ==
    \A r \in DOMAIN requests :
        /\ requests[r].pc = "processed" => DealtWith(r)
        /\ requests[r].pc = "duplicate" =>
              \E q \in DOMAIN requests :
                 /\ q # r /\ DealtWith(q)
                 /\ requests[q].webhook.order.id = requests[r].webhook.order.id

(* No two 850s of a tenant to one vendor carry the same control number,    *)
(* however deliveries interleave.                                          *)
VendorNumbersDistinct ==
    \A m, n \in DOMAIN placed :
        /\ m # n
        /\ placed[m].tenant = placed[n].tenant
        /\ placed[m].order.vendor = placed[n].order.vendor
        => placed[m].number # placed[n].number

(* The reference for a line: the vendors bound to its SKU with the least   *)
(* priority, without a binding the vendor of its longest prefix.           *)
Vendors(sku, rows, prefixes) ==
    LET bound == {e \in rows : e.active /\ e.sku = sku}
        under == {p \in ToSet(prefixes) : p.prefix # <<>> /\ IsPrefix(p.prefix, sku)}
    IN  IF bound # {}
        THEN {<<e.vendor, e.vendorSku,
                IF e.pack # <<>> /\ e.pack[1] > 1 THEN e.pack[1] ELSE 1>> :
                 e \in {f \in bound : \A g \in bound : Priority(f) <= Priority(g)}}
        ELSE {<<p.vendor, SubSeq(sku, Len(p.prefix) + 1, Len(sku)), 1>> :
                 p \in {q \in under : \A o \in under : Len(o.prefix) <= Len(q.prefix)}}

(* The split gives each line of the order to exactly one vendor that has   *)
(* it, in its own SKU and packs, in the quantity ordered and at the price  *)
(* the customer paid, and gives no other lines; it holds the lines nobody  *)
(* has; no vendor gets two orders, and each bears the order's name.        *)
ShopPrice(line) ==
    CASE line.shopMoney # <<>> -> line.shopMoney[1]
      [] line.shopMoney = <<>> /\ line.price # <<>> -> line.price[1]
      [] OTHER -> 0
SplitCoversTheOrder ==
    \A r \in DOMAIN requests :
        requests[r].pc \in {"artifact", "record", "processed"} =>
            LET split == requests[r].split
                order == requests[r].webhook.order
                lines == order.lines
                Of(n) == Vendors(Trimmed(lines[n].sku), requests[r].rows,
                                 requests[r].reg.prefixes)
                given == UNION {{m} \X DOMAIN split.orders[m].lines :
                                   m \in DOMAIN split.orders}
                Given(g) == split.orders[g[1]].lines[g[2]]
            IN  /\ ToSet(split.unmapped) = {n \in DOMAIN lines : Of(n) = {}}
                /\ {Given(g).line : g \in given} = {n \in DOMAIN lines : Of(n) # {}}
                /\ \A n \in DOMAIN lines : Of(n) # {} =>
                      \E g \in given :
                         /\ \A h \in given : (Given(h).line = n) <=> (h = g)
                         /\ <<split.orders[g[1]].vendor, Given(g).sku, Given(g).per>> \in Of(n)
                         /\ Given(g).quantity = lines[n].quantity
                         /\ Given(g).price = ShopPrice(lines[n])
                /\ \A m, k \in DOMAIN split.orders :
                      split.orders[m].vendor = split.orders[k].vendor => m = k
                /\ order.name # <<>> =>
                      \A m \in DOMAIN split.orders :
                         split.orders[m].po \in {order.name[1], Tail(order.name[1])}

(* An order template made from the canonical order orders what the shop's  *)
(* customer did, at the shop's price, under the order's name.              *)
TemplateOrdersTheSame ==
    \A r \in DOMAIN requests :
        LET order == requests[r].webhook.order
            made == ToShopify(ToCanonical(order))
        IN  /\ Len(made.lines) = Len(order.lines)
            /\ order.name # <<>> => made.po \in {order.name[1], Tail(order.name[1])}
            /\ \A n \in DOMAIN order.lines :
                  /\ made.lines[n].quantity = order.lines[n].quantity
                  /\ made.lines[n].sku = Trimmed(order.lines[n].sku)
                  /\ order.lines[n].shopMoney # <<>> =>
                        made.lines[n].price = order.lines[n].shopMoney[1]

(* What vendors are sent is the customer's order: every line once and none *)
(* besides, at a vendor that has it, in the quantity and at the price of   *)
(* the shop, under the order's name and a number of its own.  A template   *)
(* made from the same order orders the same.                               *)
VendorOrdersAreSound == VendorNumbersDistinct /\ SplitCoversTheOrder /\ TemplateOrdersTheSame
===============================================================================
