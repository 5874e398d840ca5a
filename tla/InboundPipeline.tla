---------------------------- MODULE InboundPipeline ----------------------------
(***************************************************************************)
(* InboundPipeline.receive and processInterchange: what happens to an      *)
(* interchange after the gateway has judged it.  No database transaction   *)
(* spans the run, so every awaited call (customer push, control numbers,   *)
(* acknowledgment, dispatch queue, transaction, delivery, ledger event) is *)
(* a step of its own, between which other handlers run and this one may    *)
(* stop.  One trading relationship of one tenant.                          *)
(***************************************************************************)
EXTENDS Intake, Sequences

CONSTANTS
    GroupsOf,   \* content -> sequence of functional groups (parseGroups)
    NoEvent

(* A functional group: whether GS01, GS06 and every ST01 and ST02 are      *)
(* there to be echoed in a 997, and its transaction sets in order.  ref is *)
(* the pair ST01, ST02; verdicts are the outcomes that translating and     *)
(* validating the set can have under the maps and specifications an        *)
(* operator may have configured by the time it is run.                     *)
SetVerdicts == {"conforms", "fails", "throws"}
Group == [ackable : BOOLEAN,
          sets : Seq([ref : STRING, verdicts : (SUBSET SetVerdicts) \ {{}}])]

ASSUME GroupsAssumption ==
    /\ GroupsOf \in [{p.content : p \in Payloads} -> Seq(Group)]
    /\ NoEvent \notin Handlers \X Nat

VARIABLES
    job,       \* where each handler is in processInterchange, and its locals
    pushed,    \* documents each handler pushed into the customer's system
    tables,    \* lifecycle rows each handler inserted, in order
    control    \* control_number_seq: the last ISA13 used with the partner

pipelineVars == <<job, pushed, tables, control>>
vars == <<intakeVars, pipelineVars>>

-------------------------------------------------------------------------------
Groups(p) == GroupsOf[p.content]
SetAt(p, g, i) == Groups(p)[g].sets[i]

(* A fault of the loops: only the first group, as parseInterchange reads.  *)
FirstGroupOnly(p) ==
    IF Groups(p) = <<>> THEN <<>>
    ELSE <<[group |-> 1, sets |-> [i \in 1..Len(Groups(p)[1].sets) |-> i]]>>

(* All sets of the interchange, group by group: the loops of               *)
(* processInterchange when it is not told to run one set only.             *)
WholeInterchange(p) ==
    [g \in 1..Len(Groups(p)) |->
        [group |-> g, sets |-> [i \in 1..Len(Groups(p)[g].sets) |-> i]]]

NoWork == [pc |-> "idle", artifact |-> NoPayload, original |-> NoEvent,
           work |-> <<>>, processed |-> <<>>, ackNo |-> 0]

NoRows == [interchanges |-> <<>>, acks |-> <<>>, dispatches |-> <<>>,
           transactions |-> <<>>, deliveries |-> <<>>, events |-> <<>>]

PipelineInit ==
    /\ Init
    /\ job = [h \in Handlers |-> NoWork]
    /\ pushed = [h \in Handlers |-> <<>>]
    /\ tables = [h \in Handlers |-> NoRows]
    /\ control = 0

(* Handler h is at the given await; nothing it did before is undone.       *)
At(h, pc) == Running(h) /\ job[h].pc = pc

GroupOf(h) == Head(job[h].work).group
InsertRow(h, table, row) ==
    tables' = [tables EXCEPT ![h][table] = Append(@, row)]

(* Where the run goes when nothing of the current group is left: to the    *)
(* next group, or back to receive or to the resolver that called it.       *)
NextPc(work, original) ==
    CASE work # <<>> -> "translate"
      [] work = <<>> /\ original = NoEvent -> "done"
      [] OTHER -> "stamp"

(* Leave the processed sets still to be recorded; after the last one, the  *)
(* group is finished.                                                      *)
Continue(j, rest) ==
    IF rest # <<>>
    THEN [j EXCEPT !.pc = "store", !.processed = rest]
    ELSE [j EXCEPT !.pc = NextPc(Tail(j.work), j.original),
                   !.work = Tail(j.work), !.processed = <<>>]

(* A fault of the ledger: what a re-run rejects is not flagged again.      *)
LedgerEventFlaggedOnce(h, p, outcome, detail) ==
    [artifact |-> p, key |-> KeyOf(p), outcome |-> outcome,
     group |-> detail.group, set |-> detail.set, delivered |-> detail.delivered,
     needsReview |-> job[h].original = NoEvent /\ outcome \in {"rejected", "conflict"},
     ackNo |-> detail.ackNo, original |-> job[h].original,
     resolution |-> "open", resolvedTo |-> NoEvent]

(* The ledger row of a set, or of a whole receipt (group and set 0).       *)
LedgerEvent(h, p, outcome, detail) ==
    [artifact |-> p, key |-> KeyOf(p), outcome |-> outcome,
     group |-> detail.group, set |-> detail.set, delivered |-> detail.delivered,
     needsReview |-> outcome \in {"rejected", "conflict"}, ackNo |-> detail.ackNo,
     original |-> job[h].original, resolution |-> "open", resolvedTo |-> NoEvent]

-------------------------------------------------------------------------------
(* A transport calls receive with some bytes, which awaits the gateway.    *)
Arrive(h) ==
    /\ job[h].pc = "idle"
    /\ \E p \in Payloads : Receive(h, p)
    /\ UNCHANGED pipelineVars

AwaitGateway(h) ==
    /\ AwaitStore(h)
    /\ UNCHANGED pipelineVars

(* A duplicate or a conflict is not processed: one interchange-level event,*)
(* a conflict in the review queue.                                         *)
ShortCircuit(h) ==
    /\ At(h, "idle")
    /\ receipt[h] \in {"duplicate", "conflict"}
    /\ InsertRow(h, "events",
           LedgerEvent(h, carried[h], receipt[h],
               [group |-> 0, set |-> 0, delivered |-> FALSE, ackNo |-> 0]))
    /\ job' = [job EXCEPT ![h].pc = "done"]
    /\ UNCHANGED <<intakeVars, pushed, control>>

(* processInterchange starts: parse, and record the envelope.              *)
Process(h, p, original, work) ==
    /\ InsertRow(h, "interchanges", p)
    /\ job' = [job EXCEPT ![h] = [NoWork EXCEPT
                  !.pc = NextPc(work, original), !.artifact = p,
                  !.original = original, !.work = work]]
    /\ UNCHANGED <<intakeVars, pushed, control>>

(* A fault of receive: a duplicate is run as well.                         *)
ProcessUnlessConflict(h) ==
    /\ At(h, "idle")
    /\ receipt[h] \in {"accepted", "duplicate"}
    /\ Process(h, carried[h], NoEvent, WholeInterchange(carried[h]))

(* receive goes on with an accepted interchange.                           *)
ProcessAccepted(h) ==
    /\ At(h, "idle")
    /\ receipt[h] = "accepted"
    /\ Process(h, carried[h], NoEvent, WholeInterchange(carried[h]))

(* The next set of the current group.                                      *)
Translating(h) == At(h, "translate") /\ Head(job[h].work).sets # <<>>
NextSet(h) == Head(Head(job[h].work).sets)
MayBe(h, verdict) ==
    verdict \in SetAt(job[h].artifact, GroupOf(h), NextSet(h)).verdicts

Processed(h, conformant) ==
    job' = [job EXCEPT
        ![h].work = <<[group |-> GroupOf(h), sets |-> Tail(Head(@).sets)]>> \o Tail(@),
        ![h].processed = Append(@, [set |-> NextSet(h), conformant |-> conformant,
                                    delivered |-> conformant])]

(* Translate and validate; a conformant document is pushed to the customer.*)
Deliver(h) ==
    /\ Translating(h)
    /\ MayBe(h, "conforms")
    /\ pushed' = [pushed EXCEPT ![h] = Append(@,
           [artifact |-> job[h].artifact, group |-> GroupOf(h), set |-> NextSet(h)])]
    /\ Processed(h, TRUE)
    /\ UNCHANGED <<intakeVars, tables, control>>

Reject(h) ==
    /\ Translating(h)
    /\ MayBe(h, "fails")
    /\ Processed(h, FALSE)
    /\ UNCHANGED <<intakeVars, pushed, tables, control>>

(* ingestBody throws: no enabled configuration for the document type, a    *)
(* map that is not registered, a value that cannot be coerced.             *)
TranslateThrows(h) ==
    /\ Translating(h)
    /\ MayBe(h, "throws")
    /\ job' = [job EXCEPT ![h].pc = "failed"]
    /\ UNCHANGED <<intakeVars, pushed, tables, control>>

(* The 997 of the group: buildBody refuses a group it cannot name, then    *)
(* the control numbers are drawn from the relationship's sequences.        *)
GroupTranslated(h) == At(h, "translate") /\ Head(job[h].work).sets = <<>>

BuildAck(h) ==
    /\ GroupTranslated(h)
    /\ Groups(job[h].artifact)[GroupOf(h)].ackable
    /\ control' = control + 1
    /\ job' = [job EXCEPT ![h].pc = "saveAck", ![h].ackNo = control + 1]
    /\ UNCHANGED <<intakeVars, pushed, tables>>

(* A fault of the error path: the refused group is tried again for good.   *)
BuildAckRetried(h) ==
    /\ GroupTranslated(h)
    /\ ~Groups(job[h].artifact)[GroupOf(h)].ackable
    /\ UNCHANGED vars

BuildAckThrows(h) ==
    /\ GroupTranslated(h)
    /\ ~Groups(job[h].artifact)[GroupOf(h)].ackable
    /\ job' = [job EXCEPT ![h].pc = "failed"]
    /\ UNCHANGED <<intakeVars, pushed, tables, control>>

(* Faults of the 997: every set is acknowledged as accepted; the row is    *)
(* stored and not queued.                                                  *)
SaveAckAllAccepted(h) ==
    /\ At(h, "saveAck")
    /\ InsertRow(h, "acks",
           [group |-> GroupOf(h), no |-> job[h].ackNo,
            accepted |-> [n \in 1..Len(job[h].processed) |->
                             [set |-> job[h].processed[n].set, code |-> TRUE]]])
    /\ job' = [job EXCEPT ![h].pc = "enqueue"]
    /\ UNCHANGED <<intakeVars, pushed, control>>

EnqueueNothing(h) ==
    /\ At(h, "enqueue")
    /\ job' = [job EXCEPT ![h] = Continue(@, job[h].processed)]
    /\ UNCHANGED <<intakeVars, pushed, tables, control>>

SaveAck(h) ==
    /\ At(h, "saveAck")
    /\ InsertRow(h, "acks",
           [group |-> GroupOf(h), no |-> job[h].ackNo,
            accepted |-> [n \in 1..Len(job[h].processed) |->
                             [set |-> job[h].processed[n].set,
                              code |-> job[h].processed[n].conformant]]])
    /\ job' = [job EXCEPT ![h].pc = "enqueue"]
    /\ UNCHANGED <<intakeVars, pushed, control>>

EnqueueDispatch(h) ==
    /\ At(h, "enqueue")
    /\ InsertRow(h, "dispatches", Len(tables[h].acks))
    /\ job' = [job EXCEPT ![h] = Continue(@, job[h].processed)]
    /\ UNCHANGED <<intakeVars, pushed, control>>

(* A fault of the lifecycle: a state the lifecycle does not have.          *)
SaveTransactionAsAccepted(h) ==
    LET s == Head(job[h].processed)
    IN  /\ At(h, "store")
        /\ InsertRow(h, "transactions",
               [group |-> GroupOf(h), set |-> s.set,
                state |-> IF s.conformant THEN "ACCEPTED" ELSE "REJECTED"])
        /\ job' = [job EXCEPT ![h].pc = IF s.delivered THEN "recordDelivery" ELSE "log"]
        /\ UNCHANGED <<intakeVars, pushed, control>>

(* Per set of the group: the transaction, the delivery, the ledger event.  *)
SaveTransaction(h) ==
    LET s == Head(job[h].processed)
    IN  /\ At(h, "store")
        /\ InsertRow(h, "transactions",
               [group |-> GroupOf(h), set |-> s.set,
                state |-> IF s.conformant THEN "DELIVERED" ELSE "REJECTED"])
        /\ job' = [job EXCEPT ![h].pc = IF s.delivered THEN "recordDelivery" ELSE "log"]
        /\ UNCHANGED <<intakeVars, pushed, control>>

RecordDelivery(h) ==
    /\ At(h, "recordDelivery")
    /\ InsertRow(h, "deliveries", Len(tables[h].transactions))
    /\ job' = [job EXCEPT ![h].pc = "log"]
    /\ UNCHANGED <<intakeVars, pushed, control>>

LogEvent(h) ==
    LET s == Head(job[h].processed)
    IN  /\ At(h, "log")
        /\ InsertRow(h, "events",
               LedgerEvent(h, job[h].artifact,
                   IF s.conformant THEN "accepted" ELSE "rejected",
                   [group |-> GroupOf(h), set |-> s.set, delivered |-> s.delivered,
                    ackNo |-> job[h].ackNo]))
        /\ job' = [job EXCEPT ![h] = Continue(@, Tail(job[h].processed))]
        /\ UNCHANGED <<intakeVars, pushed, control>>

-------------------------------------------------------------------------------
Ended(h) == h \in aborted \/ job[h].pc \in {"done", "failed"}

Stop(h) ==
    /\ ~Ended(h)
    /\ Abort(h)
    /\ UNCHANGED pipelineVars

ProcessStep(h) ==
    \/ Deliver(h)
    \/ Reject(h)
    \/ TranslateThrows(h)
    \/ BuildAck(h)
    \/ BuildAckThrows(h)
    \/ SaveAck(h)
    \/ EnqueueDispatch(h)
    \/ SaveTransaction(h)
    \/ RecordDelivery(h)
    \/ LogEvent(h)

(* What a started handler does of its own; the event loop runs it.         *)
ReceiveStep(h) ==
    \/ AwaitGateway(h)
    \/ ShortCircuit(h)
    \/ ProcessAccepted(h)
    \/ ProcessStep(h)

PipelineNext == \E h \in Handlers : Arrive(h) \/ ReceiveStep(h) \/ Stop(h)

PipelineSpec == PipelineInit /\ [][PipelineNext]_vars

(* Requests need not come and handlers may stop, but a resolved promise is *)
(* eventually resumed.                                                     *)
PipelineFairSpec == PipelineSpec /\ \A h \in Handlers : WF_vars(ReceiveStep(h))

-------------------------------------------------------------------------------
Elements(s) == {s[n] : n \in DOMAIN s}

Pcs == {"idle", "translate", "saveAck", "enqueue", "store", "recordDelivery",
        "log", "done", "failed", "dismiss", "reprocess", "stamp"}
EventIds == Handlers \X (Nat \ {0})
ProcessedSet == [set : Nat, conformant : BOOLEAN, delivered : BOOLEAN]
Job == [pc : Pcs, artifact : Payloads \cup {NoPayload},
        original : EventIds \cup {NoEvent},
        work : Seq([group : Nat, sets : Seq(Nat)]),
        processed : Seq(ProcessedSet), ackNo : Nat]
LedgerRow == [artifact : Payloads, key : Keys, outcome : Verdicts \cup {"rejected"},
              group : Nat, set : Nat, delivered : BOOLEAN, needsReview : BOOLEAN,
              ackNo : Nat, original : EventIds \cup {NoEvent},
              resolution : {"open", "dismissed", "reprocessed"},
              resolvedTo : EventIds \cup {NoEvent}]
Tables == [interchanges : Seq(Payloads),
           acks : Seq([group : Nat, no : Nat,
                       accepted : Seq([set : Nat, code : BOOLEAN])]),
           dispatches : Seq(Nat),
           transactions : Seq([group : Nat, set : Nat,
                               state : {"DELIVERED", "REJECTED"}]),
           deliveries : Seq(Nat),
           events : Seq(LedgerRow)]

(* Types of the pipeline's state.                                          *)
PipelineTypeOK ==
    /\ TypeOK
    /\ job \in [Handlers -> Job]
    /\ pushed \in [Handlers -> Seq([artifact : Payloads, group : Nat, set : Nat])]
    /\ tables \in [Handlers -> Tables]
    /\ control \in Nat

Fresh(h) == job[h].original = NoEvent
Pushed(h, g, i) == \E d \in Elements(pushed[h]) : d.group = g /\ d.set = i

(* Of one interchange identity, however often and however concurrently it  *)
(* is received and in whatever byte form or version, the customer's system *)
(* gets documents from one run only, and each transaction set of it once   *)
(* (runs that an operator starts are not receipts).                        *)
CustomerReceivesOnce ==
    /\ \A g, h \in Handlers :
          /\ Fresh(g) /\ pushed[g] # <<>>
          /\ Fresh(h) /\ pushed[h] # <<>>
          /\ KeyOf(carried[g]) = KeyOf(carried[h])
          => g = h
    /\ \A h \in Handlers : \A m, n \in DOMAIN pushed[h] :
          pushed[h][m] = pushed[h][n] => m = n

(* The partner and the customer are told the same: a 997 accepts exactly   *)
(* those sets of its group that are already in the customer's system, in   *)
(* the order received and each once, whatever stops the run and wherever.  *)
AckTellsTheTruth ==
    \A h \in Handlers : \A a \in Elements(tables[h].acks) :
        /\ \A n \in DOMAIN a.accepted :
              a.accepted[n].code <=> Pushed(h, a.group, a.accepted[n].set)
        /\ Fresh(h) => [n \in DOMAIN a.accepted |-> a.accepted[n].set]
                         = WholeInterchange(job[h].artifact)[a.group].sets

(* The ledger never runs ahead of what it reports: behind the event of a   *)
(* set there is a 997 already queued for dispatch that carries the event's *)
(* verdict, a transaction row in the state that goes with it and, for a    *)
(* delivered set, the delivery row and the push itself.                    *)
LedgerTellsTheTruth ==
    \A h \in Handlers : \A e \in Elements(tables[h].events) : e.group # 0 =>
        /\ \E a \in DOMAIN tables[h].acks :
              /\ tables[h].acks[a].no = e.ackNo
              /\ tables[h].acks[a].group = e.group
              /\ [set |-> e.set, code |-> e.outcome = "accepted"]
                    \in Elements(tables[h].acks[a].accepted)
              /\ a \in Elements(tables[h].dispatches)
        /\ \E t \in DOMAIN tables[h].transactions :
              /\ tables[h].transactions[t] =
                    [group |-> e.group, set |-> e.set,
                     state |-> IF e.outcome = "accepted" THEN "DELIVERED" ELSE "REJECTED"]
              /\ e.delivered <=> t \in Elements(tables[h].deliveries)
        /\ e.delivered <=> Pushed(h, e.group, e.set)

(* A receipt that ends without an exception has accounted for everything   *)
(* it was sent: one event per transaction set, group by group and set by   *)
(* set, and one queued 997 per functional group.                           *)
EarlierSet(d, e) == d.group < e.group \/ (d.group = e.group /\ d.set < e.set)
CompletedRunAccountsForAll ==
    \A h \in Handlers :
        job[h].pc = "done" /\ receipt[h] = "accepted" =>
            LET p == carried[h]
                rows == tables[h]
            IN  /\ {<<e.group, e.set>> : e \in Elements(rows.events)}
                      = UNION {{<<g, i>> : i \in 1..Len(Groups(p)[g].sets)} :
                                  g \in 1..Len(Groups(p))}
                /\ \A m, n \in DOMAIN rows.events :
                      m < n => EarlierSet(rows.events[m], rows.events[n])
                /\ [n \in DOMAIN rows.acks |-> rows.acks[n].group]
                      = [g \in 1..Len(Groups(p)) |-> g]
                /\ rows.dispatches = [n \in DOMAIN rows.acks |-> n]

(* Every receipt is answered or fails: no handler waits for ever, whatever *)
(* the others do or wherever they stop.                                    *)
EveryReceiptEnds == \A h \in Handlers : stage[h] # "idle" ~> Ended(h)

(* Nothing is dropped silently: when all receipts of an identity are over, *)
(* the ledger has an event of it ("Nothing is ever dropped silently",      *)
(* processing-ledger.ts:74).                                               *)
NothingDroppedSilently ==
    \A k \in Keys :
        LET receivers == {h \in Handlers : carried[h] # NoPayload /\ KeyOf(carried[h]) = k}
        IN  receivers # {} /\ (\A h \in receivers : Ended(h)) =>
                \E h \in receivers : tables[h].events # <<>>

(* A receipt that is skipped as an exact resend of an already processed    *)
(* interchange (inbound-pipeline.ts:115) is one: the run that processes    *)
(* the identity has recorded it, or is still at work.                      *)
DuplicateMeansProcessed ==
    \A h \in Handlers : \A e \in Elements(tables[h].events) :
        e.outcome = "duplicate" =>
            \E g \in Handlers :
                /\ receipt[g] = "accepted"
                /\ KeyOf(carried[g]) = e.key
                /\ ~Ended(g) \/ tables[g].events # <<>>
===============================================================================
