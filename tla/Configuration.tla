------------------------------ MODULE Configuration ------------------------------
(***************************************************************************)
(* A tenant's configuration: rows that its operators save one after another*)
(* and ConfigLoader.hydrate, which reads them table after table, with an   *)
(* await before each, into the registries that documents are translated    *)
(* from.  Hydrates overlap saves, deletes and one another; a restart       *)
(* empties the registries.                                                 *)
(***************************************************************************)
EXTENDS Integers, Sequences, FiniteSets, SequencesExt

CONSTANTS
    Tenants,
    Flats,          \* what may be saved whole: [kind, id, valid]
    ConnectorIds,
    Bindings,       \* relationships that may be saved: [id, refs], refs of [kind, id]
    FirstFlats,     \* the rows at the start
    FirstHeaders,
    FirstParts,
    MaxWrites,      \* bounds
    MaxHydrates,
    MaxRestarts

ASSUME ConfigAssumption ==
    /\ \A f \in Flats : f.kind \in {"spec", "map", "transport"}
    /\ \A b \in Bindings : \A ref \in b.refs : ref.kind \in {"spec", "map"}
    /\ MaxWrites \in Nat /\ MaxHydrates \in Nat /\ MaxRestarts \in Nat

(* The rows at the start were saved like any others: ids are keys, and the *)
(* parts were saved with their header.                                     *)
ASSUME StartAssumption ==
    /\ \A r \in FirstFlats : r.kind \in {"spec", "map", "transport"}
    /\ \A r \in FirstHeaders : r.kind \in {"connector", "relationship"} /\ r.valid
    /\ \A r \in FirstFlats \cup FirstHeaders : r.at = 0 /\ r.born = 0
    /\ \A p \in FirstParts : /\ p.kind \in {"connector", "relationship"} /\ p.at = 0
                             /\ \A ref \in p.refs : ref.kind \in {"spec", "map"}
    /\ \A rows \in {FirstFlats, FirstHeaders, FirstParts} :
          \A r, q \in rows : r.kind = q.kind /\ r.id = q.id => r = q

VARIABLES
    flats,       \* rows of doc_spec, partner_map, transport_instance
    headers,     \* rows of connector_instance and trading_relationship
    parts,       \* their rows of connector_map and relationship_document
    writes,      \* counts the writes: the time of a row's last one is its `at`
    registry,    \* the four in-memory registries
    hydrates,    \* the calls of hydrate
    restarts

configVars == <<flats, headers, parts, writes, registry, hydrates, restarts>>

-------------------------------------------------------------------------------
ConfigInit ==
    /\ flats = FirstFlats /\ headers = FirstHeaders /\ parts = FirstParts
    /\ writes = 0
    /\ registry = {}
    /\ hydrates = <<>>
    /\ restarts = 0

(* INSERT ... ON CONFLICT (id) DO UPDATE: the row that is there keeps its  *)
(* tenant and its time of creation.                                        *)
Names(row, kind, id) == row.kind = kind /\ row.id = id

Upsert(rows, row) ==
    LET old == {r \in rows : Names(r, row.kind, row.id)}
    IN  (rows \ old) \cup
            IF old = {} THEN {row}
            ELSE {[row EXCEPT !.tenant = r.tenant, !.born = r.born] : r \in old}
RowOf(tenant, kind, id, valid) ==
    [kind |-> kind, id |-> id, tenant |-> tenant, at |-> writes + 1, born |-> writes + 1,
     valid |-> valid]

Writes ==
    /\ writes < MaxWrites
    /\ writes' = writes + 1
    /\ UNCHANGED <<registry, hydrates, restarts>>

(* Specifications, maps (nothing validates them here) and transports.      *)
SaveFlat(tenant, f) ==
    /\ Writes
    /\ flats' = Upsert(flats, RowOf(tenant, f.kind, f.id, f.valid))
    /\ UNCHANGED <<headers, parts>>

(* The header and what it owns in one transaction, the parts replaced.     *)
SaveConnector(tenant, id) ==
    /\ Writes
    /\ headers' = Upsert(headers, RowOf(tenant, "connector", id, TRUE))
    /\ parts' = {p \in parts : ~Names(p, "connector", id)} \cup
                {[kind |-> "connector", id |-> id, tenant |-> tenant, at |-> writes + 1,
                  refs |-> {}]}
    /\ UNCHANGED flats

(* A fault of save: the documents that are there already stay.             *)
SaveRelationshipKeeping(tenant, binding) ==
    /\ Writes
    /\ headers' = Upsert(headers, RowOf(tenant, "relationship", binding.id, TRUE))
    /\ parts' = IF \E p \in parts : Names(p, "relationship", binding.id) THEN parts
                ELSE parts \cup {[kind |-> "relationship", id |-> binding.id, tenant |-> tenant,
                                  at |-> writes + 1, refs |-> binding.refs]}
    /\ UNCHANGED flats

SaveRelationship(tenant, binding) ==
    /\ Writes
    /\ headers' = Upsert(headers, RowOf(tenant, "relationship", binding.id, TRUE))
    /\ parts' = {p \in parts : ~Names(p, "relationship", binding.id)} \cup
                {[kind |-> "relationship", id |-> binding.id, tenant |-> tenant,
                  at |-> writes + 1, refs |-> binding.refs]}
    /\ UNCHANGED flats

DeleteConnector(tenant, id) ==
    LET Own(row) == Names(row, "connector", id) /\ row.tenant = tenant
    IN  /\ Writes
        /\ headers' = {h \in headers : ~Own(h)}
        /\ parts' = {p \in parts : ~Own(p)}
        /\ UNCHANGED flats

-------------------------------------------------------------------------------
(* hydrate.  What an await is for is done in its step: a list is read, then*)
(* registered; an aggregate's header is read, then its parts.              *)
Stages == <<"spec", "map", "connector", "relationship", "done">>
After(stage) == Stages[1 + CHOOSE n \in DOMAIN Stages : Stages[n] = stage]
Running(h) == hydrates[h].stage \notin {"done", "failed"}

Hydrate(tenant) ==
    /\ Len(hydrates) < MaxHydrates
    /\ hydrates' = Append([h \in DOMAIN hydrates |->
                              [hydrates[h] EXCEPT !.alone = @ /\ ~Running(h)]],
          [tenant |-> tenant, stage |-> "spec", step |-> "list", began |-> writes,
           alone |-> \A h \in DOMAIN hydrates : ~Running(h),
           list |-> {}, header |-> {}, loaded |-> {}])
    /\ UNCHANGED <<flats, headers, parts, writes, registry, restarts>>

At(h, stages, step) == hydrates[h].stage \in stages /\ hydrates[h].step = step
Goes(h, call, registered) ==
    /\ registry' = registered
    /\ hydrates' = [hydrates EXCEPT ![h] = call]
    /\ UNCHANGED <<flats, headers, parts, writes, restarts>>
NextStage(h) ==
    [hydrates[h] EXCEPT !.stage = After(@), !.step = "list", !.list = {}, !.loaded = {}]
Failed(h) ==
    [tenant |-> hydrates[h].tenant, stage |-> "failed", step |-> "list", began |-> 0,
     alone |-> FALSE, list |-> {}, header |-> {}, loaded |-> {}]

(* A fault of the registries: what is held stays.                          *)
RegisteredOnce(held, entries) ==
    held \cup {e \in entries : \A f \in held : ~Names(e, f.kind, f.id)}

(* What is registered replaces what a registry held of the same id.        *)
Registered(held, entries) ==
    {e \in held : \A f \in entries : ~Names(e, f.kind, f.id)} \cup entries
Entry(h, row, own, readAt) ==
    [kind |-> row.kind, id |-> row.id, at |-> row.at, valid |-> row.valid,
     partsAt |-> {p.at : p \in own}, refs |-> UNION {p.refs : p \in own},
     tenant |-> hydrates[h].tenant, began |-> hydrates[h].began, readAt |-> readAt]

Listed(h, rows) ==
    {r \in rows : r.kind = hydrates[h].stage /\ r.tenant = hydrates[h].tenant}

ListFlats(h) ==
    /\ At(h, {"spec", "map"}, "list")
    /\ Goes(h, [hydrates[h] EXCEPT !.step = "register", !.list = Listed(h, flats)], registry)

(* A fault of the loop: a malformed map is skipped.                        *)
RegisterSkipping(h) ==
    LET valid == {row \in hydrates[h].list : row.valid}
    IN  /\ At(h, {"spec", "map"}, "register")
        /\ Goes(h, NextStage(h), Registered(registry, {Entry(h, r, {}, r.at) : r \in valid}))

(* Every row is registered; at a malformed map, wherever it stands in the  *)
(* list, register throws out of hydrate.                                   *)
RegisterFlats(h) ==
    LET valid == {row \in hydrates[h].list : row.valid}
        With(rows) == Registered(registry, {Entry(h, r, {}, r.at) : r \in rows})
    IN  /\ At(h, {"spec", "map"}, "register")
        /\ \/ /\ valid = hydrates[h].list
              /\ Goes(h, NextStage(h), With(valid))
           \/ /\ valid # hydrates[h].list
              /\ \E before \in SUBSET valid :
                    Goes(h, Failed(h), With(before))

(* listByTenant of the aggregates: their ids, each to be read in turn.     *)
ListHeaders(h) ==
    /\ At(h, {"connector", "relationship"}, "list")
    /\ Goes(h, [hydrates[h] EXCEPT !.step = "header",
                                   !.list = {r.id : r \in Listed(h, headers)}], registry)

(* get: without a header there is no aggregate.                            *)
GetHeader(h, id) ==
    LET found == {r \in Listed(h, headers) : r.id = id}
    IN  /\ At(h, {"connector", "relationship"}, "header")
        /\ id \in hydrates[h].list
        /\ Goes(h, [hydrates[h] EXCEPT !.list = @ \ {id},
                       !.header = {[row |-> r, readAt |-> writes] : r \in found},
                       !.step = IF found = {} THEN "header" ELSE "parts"], registry)

(* The parts of the header just read.  A connector is registered at once,  *)
(* the relationships when all of them are read.                            *)
GetParts(h) ==
    LET read == CHOOSE r \in hydrates[h].header : TRUE
        own == {p \in parts : Names(p, read.row.kind, read.row.id)}
        entry == Entry(h, read.row, own, read.readAt)
    IN  /\ At(h, {"connector", "relationship"}, "parts")
        /\ LET back == [hydrates[h] EXCEPT !.step = "header", !.header = {}]
           IN  IF entry.kind = "connector"
               THEN Goes(h, back, Registered(registry, {entry}))
               ELSE Goes(h, [back EXCEPT !.loaded = @ \cup {entry}], registry)

FinishList(h) ==
    /\ At(h, {"connector", "relationship"}, "header")
    /\ hydrates[h].list = {}
    /\ Goes(h, NextStage(h), Registered(registry, hydrates[h].loaded))

(* The process starts again, its registries empty, its calls ended.        *)
RestartServer ==
    /\ restarts < MaxRestarts
    /\ restarts' = restarts + 1
    /\ registry' = {}
    /\ hydrates' = [h \in DOMAIN hydrates |-> Failed(h)]
    /\ UNCHANGED <<flats, headers, parts, writes>>

ConfigNext ==
    \/ \E t \in Tenants :
          \/ \E f \in Flats : SaveFlat(t, f)
          \/ \E id \in ConnectorIds : SaveConnector(t, id) \/ DeleteConnector(t, id)
          \/ \E b \in Bindings : SaveRelationship(t, b)
          \/ Hydrate(t)
    \/ \E h \in DOMAIN hydrates :
          \/ ListFlats(h) \/ RegisterFlats(h) \/ ListHeaders(h) \/ GetParts(h) \/ FinishList(h)
          \/ \E id \in hydrates[h].list : GetHeader(h, id)
    \/ RestartServer

ConfigSpec == ConfigInit /\ [][ConfigNext]_configVars

-------------------------------------------------------------------------------
(* Ids are keys of the tables and of the registries, the parts are those of*)
(* one save, and no malformed map is registered.                           *)
ConfigTypeOK ==
    /\ \A r, q \in flats \cup headers : Names(r, q.kind, q.id) => r = q
    /\ \A p, q \in parts : Names(p, q.kind, q.id) => p = q
    /\ \A e, f \in registry : Names(e, f.kind, f.id) => e = f
    /\ \A e \in registry : e.valid /\ e.kind # "transport" /\ e.at \in 0..writes
    /\ \A h \in DOMAIN hydrates : hydrates[h].began \in 0..writes

(* A hydrate that overlapped no other has warmed the registries: each of   *)
(* the tenant's rows that was there when it began is registered, no older  *)
(* than it was then ("a receive then reads warm config").                  *)
Warm(h) == hydrates[h].stage = "done" /\ hydrates[h].alone
HydratedIsWarm ==
    \A h \in DOMAIN hydrates : Warm(h) =>
        \A r \in flats \cup headers :
            /\ r.kind # "transport" /\ r.tenant = hydrates[h].tenant
            /\ r.born <= hydrates[h].began
            => \E e \in registry : /\ Names(e, r.kind, r.id)
                                   /\ r.at <= hydrates[h].began => e.at >= r.at

(* A relationship in use names no map or specification that is missing from*)
(* the registries, except one that was not saved yet when the hydrate that *)
(* loaded the relationship began: also when a hydrate fails half way, or   *)
(* two of them overlap.                                                    *)
RelationshipsResolve ==
    \A e \in registry : e.kind = "relationship" =>
        \A ref \in e.refs, r \in flats :
            /\ Names(r, ref.kind, ref.id)
            /\ r.tenant = e.tenant /\ r.born <= e.began
            => \E f \in registry : Names(f, ref.kind, ref.id)

(* "the set always matches the aggregate": a relationship in use, or a     *)
(* connector with its map, is one that was saved, unless it was saved again*)
(* between the reads of its header and of its parts.                       *)
MixedOnlyAcrossASave ==
    \A e \in registry : e.kind \in {"connector", "relationship"} =>
        \A at \in e.partsAt : at = e.at \/ e.readAt < at

(* What documents are translated from is what was saved: there, resolved   *)
(* and whole, however hydrates, saves and restarts interleave.             *)
RegistriesAreSound == HydratedIsWarm /\ RelationshipsResolve /\ MixedOnlyAcrossASave
===================================================================================
