-------------------------- MODULE QuarantineResolver --------------------------
(***************************************************************************)
(* The operator's review queue over the inbound pipeline: an open item     *)
(* (a conflict, or a rejected transaction set) is dismissed, or its        *)
(* retained bytes are run again, bypassing the dedup ledger.  requireOpen  *)
(* is a read; the stamp that closes the item is a later, unconditional     *)
(* UPDATE, and requests of several operators interleave between the two.   *)
(* A request that requireOpen refuses changes nothing and is no action.    *)
(***************************************************************************)
EXTENDS InboundPipeline

-------------------------------------------------------------------------------
EventsWritten == UNION {{h} \X DOMAIN tables[h].events : h \in Handlers}
EventRow(id) == tables[id[1]].events[id[2]]

(* needingReview, and what requireOpen lets through.                       *)
OpenItems == {id \in EventsWritten : /\ EventRow(id).needsReview
                                     /\ EventRow(id).resolution = "open"}

(* locateTransaction: the first set of the interchange with the code and   *)
(* control number of the event, whatever functional group it is in.        *)
LocateTransaction(p, ref) ==
    LET found == {c \in UNION {{g} \X (1..Len(Groups(p)[g].sets)) : g \in 1..Len(Groups(p))} :
                     SetAt(p, c[1], c[2]).ref = ref}
    IN  CHOOSE c \in found : \A d \in found : c[1] < d[1] \/ (c[1] = d[1] /\ c[2] <= d[2])

(* A fault of reprocess: the filter on the set is lost.                    *)
ReprocessEverything(e) == WholeInterchange(e.artifact)

(* What a reprocess of the event runs: the located set alone for an event  *)
(* that names a set, the whole interchange for a conflict.                 *)
ReprocessWork(e) ==
    IF e.set = 0
    THEN WholeInterchange(e.artifact)
    ELSE LET c == LocateTransaction(e.artifact, SetAt(e.artifact, e.group, e.set).ref)
         IN  <<[group |-> c[1], sets |-> <<c[2]>>]>>

(* An operator asks for item id to be closed one way or the other, and     *)
(* requireOpen has read it as open.                                        *)
Ask(h, id, pc) ==
    /\ Running(h)
    /\ stage[h] = "idle"
    /\ job[h].pc = "idle"
    /\ id \in OpenItems
    /\ job' = [job EXCEPT ![h].pc = pc, ![h].original = id]
    /\ UNCHANGED <<intakeVars, pushed, tables, control>>

AskDismiss(h, id) == Ask(h, id, "dismiss")

(* The artifact is read too; it is retained for good.                      *)
AskReprocess(h, id) == EventRow(id).artifact \in raw /\ Ask(h, id, "reprocess")

(* ledger.resolve: UPDATE ... WHERE id, whatever the row says by now.      *)
Resolve(h, resolution, resolvedTo) ==
    LET id == job[h].original
    IN  /\ tables' = [tables EXCEPT ![id[1]].events[id[2]] =
                         [@ EXCEPT !.resolution = resolution, !.resolvedTo = resolvedTo]]
        /\ job' = [job EXCEPT ![h].pc = "done"]
        /\ UNCHANGED <<intakeVars, pushed, control>>

Dismiss(h) ==
    /\ At(h, "dismiss")
    /\ Resolve(h, "dismissed", NoEvent)

(* pipeline.reprocess: run the retained artifact without the gateway.      *)
Reprocess(h) ==
    LET e == EventRow(job[h].original)
    IN  /\ At(h, "reprocess")
        /\ Process(h, e.artifact, job[h].original, ReprocessWork(e))

(* A fault of the stamp: it links the first event of the original receipt. *)
StampWithOriginal(h) ==
    /\ At(h, "stamp")
    /\ Resolve(h, "reprocessed", <<job[h].original[1], 1>>)

(* The run is over: link the item to the first event the run logged.       *)
StampReprocessed(h) ==
    /\ At(h, "stamp")
    /\ Resolve(h, "reprocessed",
           IF tables[h].events # <<>> THEN <<h, 1>> ELSE NoEvent)

-------------------------------------------------------------------------------
OperatorStep(h) == Dismiss(h) \/ Reprocess(h) \/ StampReprocessed(h)

ResolverNext ==
    \E h \in Handlers :
        \/ Arrive(h)
        \/ ReceiveStep(h)
        \/ \E id \in EventsWritten : AskDismiss(h, id) \/ AskReprocess(h, id)
        \/ OperatorStep(h)
        \/ Stop(h)

ResolverSpec == PipelineInit /\ [][ResolverNext]_vars

-------------------------------------------------------------------------------
Accepted(p) == \E h \in Handlers : carried[h] = p /\ receipt[h] = "accepted"

(* However often a rejected set is taken up from the review queue, and     *)
(* whatever it was rejected for, no set of a received interchange reaches  *)
(* the customer twice: an open item's set has not been delivered, and a    *)
(* delivered one has no open item ("no double-delivery",                   *)
(* inbound-pipeline.ts:127).                                               *)
EachSetDeliveredOnce ==
    \A g, h \in Handlers : \A m \in DOMAIN pushed[g], n \in DOMAIN pushed[h] :
        Accepted(pushed[g][m].artifact) /\ pushed[g][m] = pushed[h][n] => g = h /\ m = n

(* That holds as long as no item is taken up twice: receipts, resends,     *)
(* operators on other items and a stop anywhere do not disturb it.         *)
OneOperatorPerItem ==
    \A g, h \in Handlers :
        job[g].original # NoEvent /\ job[g].original = job[h].original => g = h
OncePerItemTakenUp == OneOperatorPerItem => EachSetDeliveredOnce

SameSet(d, e) == d.artifact = e.artifact /\ d.group = e.group /\ d.set = e.set

(* A rejected document is never lost in review: some event of its set is   *)
(* still open, or an operator dismissed one, or the document has reached   *)
(* the customer.  A re-run closes its item only after its own outcome is   *)
(* on the ledger, so this survives a stop anywhere and racing operators.   *)
RejectedNeverLost ==
    \A id \in EventsWritten : EventRow(id).outcome = "rejected" =>
        LET e == EventRow(id)
        IN  \/ \E d \in EventsWritten : /\ SameSet(EventRow(d), e)
                                        /\ EventRow(d).needsReview
                                        /\ EventRow(d).resolution \in {"open", "dismissed"}
            \/ \E h \in Handlers : [artifact |-> e.artifact, group |-> e.group,
                                    set |-> e.set] \in Elements(pushed[h])

(* The event a reprocessed item links to is one its own re-run produced    *)
(* of the same document, and for a rejected set of that very set.          *)
ResolutionLinksTheRerun ==
    \A id \in EventsWritten : EventRow(id).resolvedTo # NoEvent =>
        LET e == EventRow(id)
            d == EventRow(e.resolvedTo)
        IN  /\ e.resolution = "reprocessed"
            /\ d.original = id
            /\ d.artifact = e.artifact
            /\ e.set # 0 => SameSet(d, e)

(* A re-run of a rejected set touches that set only: "only THAT set is     *)
(* re-run - its already-delivered siblings are never touched"              *)
(* (inbound-pipeline.ts:126).                                              *)
SiblingsNeverTouched ==
    \A h \in Handlers : \A d \in Elements(pushed[h]) :
        job[h].original # NoEvent =>
            LET e == EventRow(job[h].original)
            IN  e.set # 0 => SameSet(d, e)
===============================================================================
