-------------------------------- MODULE Intake --------------------------------
(***************************************************************************)
(* The inbound trust boundary: InboundGateway.receive over the raw-artifact*)
(* store and the dedup ledger.  Every call of receive is a handler of its  *)
(* own; handlers interleave at their awaits, in one process or in several  *)
(* that share the database.  One action is one awaited store call together *)
(* with the synchronous code up to the next await.                         *)
(***************************************************************************)
EXTENDS Naturals, FiniteSets

CONSTANTS
    Handlers,        \* requests served, one handler each
    Payloads,        \* [isa, content, form]: the bytes of a document
    NoIsa,           \* isa of bytes that carry no complete interchange identity
    NoPayload,
    AtomicRegister,  \* TRUE: InMemoryDedupStore; FALSE: DedupRepository
    MaxAborts        \* bound: handlers that stop before they end

ASSUME PayloadsAssumption ==
    /\ NoPayload \notin Payloads
    /\ Payloads \subseteq [isa : {p.isa : p \in Payloads},
                           content : {p.content : p \in Payloads},
                           form : {p.form : p \in Payloads}]
ASSUME StoreAssumption == AtomicRegister \in BOOLEAN
ASSUME MaxAbortsAssumption == MaxAborts \in Nat

VARIABLES
    stage,     \* how far receive has come in each handler
    carried,   \* the bytes each handler was called with
    raw,       \* raw_artifact: retained bytes (the content hash identifies them)
    dedup,     \* dedup_ledger: one row per interchange identity
    receipt,   \* the verdict receive returned
    aborted    \* handlers stopped by a crash or by a rejected store call

intakeVars == <<stage, carried, raw, dedup, receipt, aborted>>

-------------------------------------------------------------------------------
(***************************************************************************)
(* identify: the idempotency key is the X12 interchange identity, which    *)
(* the form of the bytes (their line ends) does not touch, and the         *)
(* content hash otherwise.  The fingerprint hashes the normalized segments.*)
(***************************************************************************)
KeyOf(p) == IF p.isa # NoIsa THEN [x12 |-> p.isa] ELSE [sha256 |-> p]

FingerprintOf(p) == IF p.isa # NoIsa THEN [normalized |-> p.content]
                                     ELSE [sha256 |-> p]

Keys == {KeyOf(p) : p \in Payloads}
Fingerprints == {FingerprintOf(p) : p \in Payloads}

Verdicts == {"accepted", "duplicate", "conflict"}

(* A dedup row; an identity that has no row yet has occurrences 0.         *)
DedupRow == [firstArtifact : Payloads \cup {NoPayload},
             firstFingerprint : Fingerprints \cup {NoPayload},
             occurrences : Nat]

NoRow == [firstArtifact |-> NoPayload, firstFingerprint |-> NoPayload,
          occurrences |-> 0]

(* Faults of the verdict: the ledger's vocabulary, the artifact instead of *)
(* the count, the content not compared.                                    *)
VerdictInLedgerWords(row, p) ==
    IF row.occurrences = 1 THEN "accepted" ELSE "rejected"

VerdictByArtifact(row, p) ==
    CASE row.firstArtifact = p -> "accepted"
      [] row.firstArtifact # p /\ row.firstFingerprint = FingerprintOf(p) -> "duplicate"
      [] OTHER -> "conflict"

VerdictIgnoringContent(row, p) ==
    IF row.occurrences = 1 THEN "accepted" ELSE "duplicate"

(* status and conflict of the receipt, as the gateway derives them.        *)
VerdictOn(row, p) ==
    CASE row.occurrences = 1 -> "accepted"
      [] row.occurrences # 1 /\ row.firstFingerprint = FingerprintOf(p) -> "duplicate"
      [] OTHER -> "conflict"

(* A fault of the upsert: it replaces the first record.                    *)
RegisteredReplacing(row, p) ==
    [firstArtifact |-> p, firstFingerprint |-> FingerprintOf(p),
     occurrences |-> row.occurrences + 1]

(* The row after one more registration of payload p: the first inserts,    *)
(* later ones only count.                                                  *)
Registered(row, p) ==
    IF row.occurrences = 0
    THEN [firstArtifact |-> p, firstFingerprint |-> FingerprintOf(p),
          occurrences |-> 1]
    ELSE [row EXCEPT !.occurrences = @ + 1]

-------------------------------------------------------------------------------
Init ==
    /\ stage = [h \in Handlers |-> "idle"]
    /\ carried = [h \in Handlers |-> NoPayload]
    /\ raw = {}
    /\ dedup = [k \in Keys |-> NoRow]
    /\ receipt = [h \in Handlers |-> "none"]
    /\ aborted = {}

Running(h) == h \notin aborted

(* A fault of receive: the bytes are not retained.                         *)
ReceiveWithoutRetaining(h, p) ==
    /\ Running(h)
    /\ stage[h] = "idle"
    /\ stage' = [stage EXCEPT ![h] = "retained"]
    /\ carried' = [carried EXCEPT ![h] = p]
    /\ UNCHANGED <<raw, dedup, receipt, aborted>>

(* receive, first step: retain the bytes before anything looks at them.    *)
(* The identity is derived in the same turn and touches no state.          *)
Receive(h, p) ==
    /\ Running(h)
    /\ stage[h] = "idle"
    /\ stage' = [stage EXCEPT ![h] = "retained"]
    /\ carried' = [carried EXCEPT ![h] = p]
    /\ raw' = raw \cup {p}
    /\ UNCHANGED <<dedup, receipt, aborted>>

(* InMemoryDedupStore.register: check, count and answer in one turn.       *)
RegisterAtomically(h) ==
    LET p == carried[h]
        k == KeyOf(p)
    IN  /\ AtomicRegister
        /\ stage[h] = "retained"
        /\ dedup' = [dedup EXCEPT ![k] = Registered(@, p)]
        /\ receipt' = [receipt EXCEPT ![h] = VerdictOn(Registered(dedup[k], p), p)]
        /\ stage' = [stage EXCEPT ![h] = "answered"]
        /\ UNCHANGED <<carried, raw, aborted>>

(* DedupRepository.register, first statement: INSERT ... ON CONFLICT DO    *)
(* UPDATE occurrences + 1.  One statement, hence atomic.                   *)
Upsert(h) ==
    LET p == carried[h]
    IN  /\ ~AtomicRegister
        /\ stage[h] = "retained"
        /\ dedup' = [dedup EXCEPT ![KeyOf(p)] = Registered(@, p)]
        /\ stage' = [stage EXCEPT ![h] = "upserted"]
        /\ UNCHANGED <<carried, raw, receipt, aborted>>

(* DedupRepository.register, second statement: a separate SELECT of the    *)
(* row, outside any transaction; the gateway judges what it reads.         *)
Lookup(h) ==
    LET p == carried[h]
    IN  /\ stage[h] = "upserted"
        /\ receipt' = [receipt EXCEPT ![h] = VerdictOn(dedup[KeyOf(p)], p)]
        /\ stage' = [stage EXCEPT ![h] = "answered"]
        /\ UNCHANGED <<carried, raw, dedup, aborted>>

(* receive awaits the answer of the store it was given.                    *)
AwaitStore(h) ==
    /\ Running(h)
    /\ RegisterAtomically(h) \/ Upsert(h) \/ Lookup(h)

(* The process dies, or an awaited call rejects and the exception leaves   *)
(* the handler: it takes no further step, what it stored stays.            *)
Abort(h) ==
    /\ Running(h)
    /\ Cardinality(aborted) < MaxAborts
    /\ aborted' = aborted \cup {h}
    /\ UNCHANGED <<stage, carried, raw, dedup, receipt>>

Step(h) ==
    \/ \E p \in Payloads : Receive(h, p)
    \/ AwaitStore(h)
    \/ Abort(h)

Next == \E h \in Handlers : Step(h)

Spec == Init /\ [][Next]_intakeVars

-------------------------------------------------------------------------------
Stages == {"idle", "retained", "upserted", "answered"}

(* Types of the intake state.                                              *)
TypeOK ==
    /\ stage \in [Handlers -> Stages]
    /\ carried \in [Handlers -> Payloads \cup {NoPayload}]
    /\ raw \subseteq Payloads
    /\ dedup \in [Keys -> DedupRow]
    /\ receipt \in [Handlers -> Verdicts \cup {"none"}]
    /\ aborted \subseteq Handlers

Registering(h) == stage[h] \in {"upserted", "answered"}

(* A row holds a retained artifact and that artifact's fingerprint.        *)
RowsAreWhole ==
    \A k \in Keys : dedup[k].occurrences # 0 =>
        /\ dedup[k].firstArtifact \in raw
        /\ dedup[k].firstFingerprint = FingerprintOf(dedup[k].firstArtifact)

(* What receive has done so far in each handler fits its stage.            *)
HandlersAgree ==
    \A h \in Handlers :
        /\ stage[h] = "idle" <=> carried[h] = NoPayload
        /\ stage[h] = "answered" <=> receipt[h] # "none"
        /\ stage[h] # "idle" => carried[h] \in raw

(* Who has registered an identity is counted, two are counted twice, and   *)
(* while the count is one the row is the only registered handler's.        *)
RegistrationsCounted ==
    \A h \in Handlers : Registering(h) =>
        LET row == dedup[KeyOf(carried[h])]
        IN  /\ row.occurrences # 0
            /\ row.occurrences = 1 => row.firstArtifact = carried[h]
            /\ \A g \in Handlers \ {h} :
                  Registering(g) /\ KeyOf(carried[g]) = KeyOf(carried[h])
                  => row.occurrences # 1

(* Why an upsert and a separate read are still enough for one acceptance:  *)
(* only the first handler of an identity can read a count of one.          *)
RegistrationInv == HandlersAgree /\ RowsAreWhole /\ RegistrationsCounted

(* Of all the receipts of one interchange identity, concurrent or not, at  *)
(* most one is answered accepted: the same interchange is never processed  *)
(* twice by the receive path, although DedupRepository.register is an      *)
(* upsert and a later read.                                                *)
AtMostOneAccepted ==
    \A g, h \in Handlers :
        /\ receipt[g] = "accepted"
        /\ receipt[h] = "accepted"
        /\ KeyOf(carried[g]) = KeyOf(carried[h])
        => g = h

(* A verdict compares a receipt with the content that was first on record  *)
(* for its identity: the accepted receipt is that first content, a         *)
(* duplicate repeats it (whatever its byte form), a conflict differs from  *)
(* it, and the bytes on record are retained for the operator to compare.   *)
VerdictsAreTrue ==
    \A h \in Handlers : receipt[h] # "none" =>
        LET row == dedup[KeyOf(carried[h])]
            first == row.firstArtifact
        IN  /\ first \in raw
            /\ receipt[h] = "accepted" => first = carried[h]
            /\ receipt[h] = "duplicate" => FingerprintOf(first) = FingerprintOf(carried[h])
            /\ receipt[h] = "conflict" => FingerprintOf(first) # FingerprintOf(carried[h])

(* What was first on record for an identity is never replaced, and the     *)
(* count never loses a registration: later receipts, of other contents     *)
(* too, are judged against the same original (onConflict updates           *)
(* occurrences only).                                                      *)
FirstRecordIsFinal ==
    [][\A k \in Keys : dedup[k].occurrences > 0 =>
          /\ dedup'[k].firstArtifact = dedup[k].firstArtifact
          /\ dedup'[k].firstFingerprint = dedup[k].firstFingerprint
          /\ dedup'[k].occurrences >= dedup[k].occurrences]_dedup

(* Once every receipt of a registered identity has its verdict, one of     *)
(* them is accepted, so the interchange is processed and not lost:         *)
(* "accepted - first time this interchange identity is seen"               *)
(* (intake.types.ts:22).                                                   *)
FirstOccurrenceAccepted ==
    \A k \in Keys :
        LET receivers == {h \in Handlers : carried[h] # NoPayload /\ KeyOf(carried[h]) = k}
        IN  /\ dedup[k].occurrences > 0
            /\ \A h \in receivers : receipt[h] # "none" \/ h \in aborted
            => \E h \in receivers : receipt[h] = "accepted"

(* The verdicts given so far, as a user of the gateway sees them.          *)
Answers ==
    {[of |-> h, key |-> KeyOf(carried[h]), content |-> FingerprintOf(carried[h]),
      verdict |-> receipt[h]] : h \in {g \in Handlers : receipt[g] # "none"}}

Promise == INSTANCE IdempotentIntake
           WITH Receipts <- Handlers, Identities <- Keys,
                Contents <- Fingerprints, answers <- Answers

(* The gateway implements the atomic check-and-record that DedupStore      *)
(* promises (dedup.store.ts:21).                                           *)
ImplementsIdempotentIntake == Promise!Spec
===============================================================================
