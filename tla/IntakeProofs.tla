----------------------------- MODULE IntakeProofs -----------------------------
(***************************************************************************)
(* What the inbound trust boundary guarantees for any number of handlers,  *)
(* payloads and aborts, and for both implementations of the dedup store.   *)
(* The argument: RegistrationInv is inductive, and it makes the handler    *)
(* that reads a count of one the only one that ever will.                  *)
(***************************************************************************)
EXTENDS Intake, TLAPS

(* Every payload has its row in the ledger.                                *)
LEMMA KeysType == \A p \in Payloads : KeyOf(p) \in Keys
BY DEF Keys

LEMMA FingerprintsType == \A p \in Payloads : FingerprintOf(p) \in Fingerprints
BY DEF Fingerprints

(* Registering a payload keeps the row well-typed and counts it.           *)
LEMMA RegisteredRow ==
    ASSUME NEW row \in DedupRow, NEW p \in Payloads
    PROVE  /\ Registered(row, p) \in DedupRow
           /\ Registered(row, p).occurrences = row.occurrences + 1
           /\ row.occurrences # 0 =>
                 /\ Registered(row, p).firstArtifact = row.firstArtifact
                 /\ Registered(row, p).firstFingerprint = row.firstFingerprint
           /\ row.occurrences = 0 =>
                 /\ Registered(row, p).firstArtifact = p
                 /\ Registered(row, p).firstFingerprint = FingerprintOf(p)
<1>1. CASE row.occurrences = 0
  BY <1>1, FingerprintsType DEF Registered, DedupRow
<1>2. CASE row.occurrences # 0
  BY <1>2 DEF Registered, DedupRow
<1> QED BY <1>1, <1>2

(* The verdict on a row of which something is on record.                   *)
LEMMA VerdictCases ==
    ASSUME NEW row \in DedupRow, NEW p \in Payloads
    PROVE  /\ VerdictOn(row, p) \in Verdicts
           /\ VerdictOn(row, p) = "accepted" <=> row.occurrences = 1
           /\ VerdictOn(row, p) = "duplicate" =>
                 row.firstFingerprint = FingerprintOf(p)
           /\ VerdictOn(row, p) = "conflict" =>
                 row.firstFingerprint # FingerprintOf(p)
BY DEF VerdictOn, Verdicts

-------------------------------------------------------------------------------
(* A handler that has left the idle stage carries a payload.               *)
LEMMA CarriesPayload ==
    ASSUME TypeOK, HandlersAgree, NEW h \in Handlers, stage[h] # "idle"
    PROVE  carried[h] \in Payloads /\ KeyOf(carried[h]) \in Keys
BY KeysType DEF TypeOK, HandlersAgree

(* Every action keeps the types, given that handlers carry what they       *)
(* register.                                                               *)
LEMMA TypeStep == TypeOK /\ HandlersAgree /\ [Next]_intakeVars => TypeOK'
<1> SUFFICES ASSUME TypeOK, HandlersAgree, [Next]_intakeVars
             PROVE  TypeOK'
  OBVIOUS
<1>1. ASSUME NEW h \in Handlers, NEW p \in Payloads, Receive(h, p)
      PROVE  TypeOK'
  BY <1>1 DEF Receive, TypeOK, Stages
<1>2. ASSUME NEW h \in Handlers, RegisterAtomically(h)
      PROVE  TypeOK'
  <2>1. carried[h] \in Payloads /\ KeyOf(carried[h]) \in Keys
    BY <1>2, CarriesPayload DEF RegisterAtomically
  <2>2. dedup[KeyOf(carried[h])] \in DedupRow
    BY <2>1 DEF TypeOK
  <2> DEFINE row == Registered(dedup[KeyOf(carried[h])], carried[h])
  <2>3. row \in DedupRow
    BY <2>1, <2>2, RegisteredRow
  <2>4. VerdictOn(row, carried[h]) \in Verdicts
    BY <2>1, <2>3, VerdictCases
  <2>5. dedup' \in [Keys -> DedupRow]
    BY <1>2, <2>1, <2>3 DEF RegisterAtomically, TypeOK
  <2>6. receipt' \in [Handlers -> Verdicts \cup {"none"}]
    BY <1>2, <2>4 DEF RegisterAtomically, TypeOK
  <2> QED BY <1>2, <2>5, <2>6 DEF RegisterAtomically, TypeOK, Stages
<1>3. ASSUME NEW h \in Handlers, Upsert(h)
      PROVE  TypeOK'
  <2>1. carried[h] \in Payloads /\ KeyOf(carried[h]) \in Keys
    BY <1>3, CarriesPayload DEF Upsert
  <2>2. dedup[KeyOf(carried[h])] \in DedupRow
    BY <2>1 DEF TypeOK
  <2>3. Registered(dedup[KeyOf(carried[h])], carried[h]) \in DedupRow
    BY <2>1, <2>2, RegisteredRow
  <2>4. dedup' \in [Keys -> DedupRow]
    BY <1>3, <2>1, <2>3 DEF Upsert, TypeOK
  <2> QED BY <1>3, <2>4 DEF Upsert, TypeOK, Stages
<1>4. ASSUME NEW h \in Handlers, Lookup(h)
      PROVE  TypeOK'
  <2>1. carried[h] \in Payloads /\ KeyOf(carried[h]) \in Keys
    BY <1>4, CarriesPayload DEF Lookup
  <2>2. VerdictOn(dedup[KeyOf(carried[h])], carried[h]) \in Verdicts
    BY <2>1, VerdictCases DEF TypeOK
  <2>3. receipt' \in [Handlers -> Verdicts \cup {"none"}]
    BY <1>4, <2>2 DEF Lookup, TypeOK
  <2> QED BY <1>4, <2>3 DEF Lookup, TypeOK, Stages
<1>5. ASSUME NEW h \in Handlers, Abort(h)
      PROVE  TypeOK'
  BY <1>5 DEF Abort, TypeOK
<1>6. CASE UNCHANGED intakeVars
  BY <1>6 DEF intakeVars, TypeOK
<1> QED BY <1>1, <1>2, <1>3, <1>4, <1>5, <1>6 DEF Next, Step, AwaitStore

-------------------------------------------------------------------------------
(* The stages, the payloads carried and the receipts go together.          *)
LEMMA HandlersStep == TypeOK /\ HandlersAgree /\ [Next]_intakeVars => HandlersAgree'
<1> SUFFICES ASSUME TypeOK, HandlersAgree, [Next]_intakeVars
             PROVE  HandlersAgree'
  OBVIOUS
<1>1. ASSUME NEW h \in Handlers, NEW p \in Payloads, Receive(h, p)
      PROVE  HandlersAgree'
  BY <1>1, PayloadsAssumption DEF Receive, TypeOK, HandlersAgree
<1>2. ASSUME NEW h \in Handlers, RegisterAtomically(h) \/ Lookup(h)
      PROVE  HandlersAgree'
  <2>1. carried[h] \in Payloads /\ KeyOf(carried[h]) \in Keys
    BY <1>2, CarriesPayload DEF RegisterAtomically, Lookup
  <2>2. dedup[KeyOf(carried[h])] \in DedupRow
    BY <2>1 DEF TypeOK
  <2>3. Registered(dedup[KeyOf(carried[h])], carried[h]) \in DedupRow
    BY <2>1, <2>2, RegisteredRow
  <2>4. PICK v \in Verdicts : receipt' = [receipt EXCEPT ![h] = v]
    BY <1>2, <2>1, <2>2, <2>3, VerdictCases DEF RegisterAtomically, Lookup
  <2>5. v # "none"
    BY DEF Verdicts
  <2> QED BY <1>2, <2>4, <2>5 DEF RegisterAtomically, Lookup, TypeOK, HandlersAgree
<1>3. ASSUME NEW h \in Handlers, Upsert(h)
      PROVE  HandlersAgree'
  BY <1>3 DEF Upsert, TypeOK, HandlersAgree
<1>4. CASE (\E h \in Handlers : Abort(h)) \/ UNCHANGED intakeVars
  BY <1>4 DEF Abort, intakeVars, HandlersAgree
<1> QED BY <1>1, <1>2, <1>3, <1>4 DEF Next, Step, AwaitStore

(* A registration touches one row, and leaves it whole.                    *)
LEMMA RegisterKeepsInv ==
    ASSUME TypeOK, RegistrationInv,
           NEW h \in Handlers, stage[h] = "retained",
           dedup' = [dedup EXCEPT ![KeyOf(carried[h])] = Registered(@, carried[h])],
           NEW s \in {"upserted", "answered"}, stage' = [stage EXCEPT ![h] = s],
           UNCHANGED <<carried, raw>>
    PROVE  RowsAreWhole' /\ RegistrationsCounted'
<1> DEFINE p == carried[h]
           row == dedup[KeyOf(p)]
<1>1. p \in Payloads /\ KeyOf(p) \in Keys /\ p \in raw
  BY CarriesPayload DEF RegistrationInv, HandlersAgree
<1>2. row \in DedupRow
  BY <1>1 DEF TypeOK
<1>3. dedup'[KeyOf(p)] = Registered(row, p)
  BY <1>1 DEF TypeOK
<1>4. \A k \in Keys : k # KeyOf(p) => dedup'[k] = dedup[k]
  BY <1>1 DEF TypeOK
<1>5. row.occurrences \in Nat
  BY <1>2 DEF DedupRow
<1> HIDE DEF p
<1>6. /\ dedup'[KeyOf(p)].occurrences = row.occurrences + 1
      /\ row.occurrences # 0 =>
            /\ dedup'[KeyOf(p)].firstArtifact = row.firstArtifact
            /\ dedup'[KeyOf(p)].firstFingerprint = row.firstFingerprint
      /\ row.occurrences = 0 =>
            /\ dedup'[KeyOf(p)].firstArtifact = p
            /\ dedup'[KeyOf(p)].firstFingerprint = FingerprintOf(p)
  BY <1>1, <1>2, <1>3, RegisteredRow
<1>7. RowsAreWhole'
  <2> SUFFICES ASSUME NEW k \in Keys, dedup'[k].occurrences # 0
               PROVE  /\ dedup'[k].firstArtifact \in raw
                      /\ dedup'[k].firstFingerprint = FingerprintOf(dedup'[k].firstArtifact)
    BY DEF RowsAreWhole
  <2>1. CASE k = KeyOf(p)
    BY <1>1, <1>6, <2>1 DEF RegistrationInv, RowsAreWhole
  <2>2. CASE k # KeyOf(p)
    BY <1>4, <2>2 DEF RegistrationInv, RowsAreWhole
  <2> QED BY <2>1, <2>2
<1>8. RegistrationsCounted'
  <2> SUFFICES ASSUME NEW g \in Handlers, Registering(g)'
               PROVE  /\ dedup'[KeyOf(carried[g])].occurrences # 0
                      /\ dedup'[KeyOf(carried[g])].occurrences = 1
                            => dedup'[KeyOf(carried[g])].firstArtifact = carried[g]
                      /\ \A f \in Handlers \ {g} :
                            Registering(f)' /\ KeyOf(carried[f]) = KeyOf(carried[g])
                            => dedup'[KeyOf(carried[g])].occurrences # 1
    BY DEF RegistrationsCounted
  <2>1. \A f \in Handlers \ {h} : Registering(f)' <=> Registering(f)
    BY DEF TypeOK, Registering
  <2>2. \A f \in Handlers \ {h} :
           Registering(f) /\ KeyOf(carried[f]) = KeyOf(p) => row.occurrences # 0
    BY DEF RegistrationInv, RegistrationsCounted
  <2>3. CASE g = h
    BY <1>5, <1>6, <2>1, <2>2, <2>3 DEF p
  <2>4. CASE g # h /\ KeyOf(carried[g]) = KeyOf(p)
    BY <1>5, <1>6, <2>1, <2>2, <2>4
  <2>5. CASE g # h /\ KeyOf(carried[g]) # KeyOf(p)
    <3>1. KeyOf(carried[g]) \in Keys
      BY <2>1, <2>5, CarriesPayload DEF Registering, RegistrationInv
    <3>2. dedup'[KeyOf(carried[g])] = dedup[KeyOf(carried[g])]
      BY <1>4, <2>5, <3>1
    <3>3. \A f \in Handlers :
             KeyOf(carried[f]) = KeyOf(carried[g]) => f # h
      BY <2>5 DEF p
    <3> QED BY <2>1, <2>5, <3>2, <3>3 DEF RegistrationInv, RegistrationsCounted
  <2> QED BY <2>3, <2>4, <2>5
<1> QED BY <1>7, <1>8

(* What is registered stays counted as long as no one registers.           *)
LEMMA QuietStepKeepsInv ==
    ASSUME RegistrationInv, raw \subseteq raw', UNCHANGED dedup,
           \A h \in Handlers : Registering(h)' =>
               Registering(h) /\ carried'[h] = carried[h]
    PROVE  RowsAreWhole' /\ RegistrationsCounted'
<1>1. RowsAreWhole'
  BY DEF RegistrationInv, RowsAreWhole
<1>2. RegistrationsCounted'
  BY DEF RegistrationInv, RegistrationsCounted
<1> QED BY <1>1, <1>2

LEMMA RegistrationStep ==
    TypeOK /\ RegistrationInv /\ [Next]_intakeVars => RegistrationInv'
<1> SUFFICES ASSUME TypeOK, RegistrationInv, [Next]_intakeVars
             PROVE  RegistrationInv'
  OBVIOUS
<1>1. HandlersAgree'
  BY HandlersStep DEF RegistrationInv
<1>2. ASSUME NEW h \in Handlers, NEW p \in Payloads, Receive(h, p)
      PROVE  RowsAreWhole' /\ RegistrationsCounted'
  <2>1. \A g \in Handlers : Registering(g)' => Registering(g) /\ carried'[g] = carried[g]
    BY <1>2 DEF Receive, TypeOK, Registering
  <2> QED BY <1>2, <2>1, QuietStepKeepsInv DEF Receive
<1>3. ASSUME NEW h \in Handlers, RegisterAtomically(h)
      PROVE  RowsAreWhole' /\ RegistrationsCounted'
  BY <1>3, RegisterKeepsInv DEF RegisterAtomically
<1>4. ASSUME NEW h \in Handlers, Upsert(h)
      PROVE  RowsAreWhole' /\ RegistrationsCounted'
  BY <1>4, RegisterKeepsInv DEF Upsert
<1>5. ASSUME NEW h \in Handlers, Lookup(h)
      PROVE  RowsAreWhole' /\ RegistrationsCounted'
  <2>1. \A g \in Handlers : Registering(g)' => Registering(g) /\ carried'[g] = carried[g]
    BY <1>5 DEF Lookup, TypeOK, Registering
  <2> QED BY <1>5, <2>1, QuietStepKeepsInv DEF Lookup
<1>6. ASSUME (\E h \in Handlers : Abort(h)) \/ UNCHANGED intakeVars
      PROVE  RowsAreWhole' /\ RegistrationsCounted'
  <2>1. \A g \in Handlers : Registering(g)' => Registering(g) /\ carried'[g] = carried[g]
    BY <1>6 DEF Abort, intakeVars, Registering
  <2> QED BY <1>6, <2>1, QuietStepKeepsInv DEF Abort, intakeVars
<1> QED BY <1>1, <1>2, <1>3, <1>4, <1>5, <1>6 DEF Next, Step, AwaitStore, RegistrationInv

-------------------------------------------------------------------------------
(* Nothing has happened yet.                                               *)
LEMMA InitInv == Init => TypeOK /\ RegistrationInv
<1> SUFFICES ASSUME Init PROVE TypeOK /\ RegistrationInv
  OBVIOUS
<1>1. TypeOK
  BY DEF Init, TypeOK, NoRow, DedupRow, Stages
<1>2. RegistrationInv
  BY DEF Init, NoRow, RegistrationInv, HandlersAgree, RowsAreWhole,
         RegistrationsCounted, Registering
<1> QED BY <1>1, <1>2

(* The state of the trust boundary is well-typed, and the registrations of *)
(* an identity are counted handler by handler, in every reachable state.   *)
THEOREM RegistrationHolds == Spec => [](TypeOK /\ RegistrationInv)
<1>1. TypeOK /\ RegistrationInv /\ [Next]_intakeVars => (TypeOK /\ RegistrationInv)'
  BY TypeStep, RegistrationStep DEF RegistrationInv
<1> QED BY InitInv, <1>1, PTL DEF Spec

(* The state of the trust boundary is well-typed in every reachable state. *)
THEOREM TypeCorrect == Spec => []TypeOK
BY RegistrationHolds, PTL

(* A row on record keeps its first artifact and fingerprint, and counts up.*)
LEMMA RowsOnlyGrow ==
    ASSUME TypeOK, HandlersAgree, [Next]_intakeVars,
           NEW k \in Keys, dedup[k].occurrences > 0
    PROVE  /\ dedup'[k].firstArtifact = dedup[k].firstArtifact
           /\ dedup'[k].firstFingerprint = dedup[k].firstFingerprint
           /\ dedup'[k].occurrences >= dedup[k].occurrences
<1>1. dedup[k] \in DedupRow /\ dedup[k].occurrences \in Nat
  BY DEF TypeOK, DedupRow
<1>2. ASSUME NEW h \in Handlers, RegisterAtomically(h) \/ Upsert(h)
      PROVE  \/ dedup'[k] = dedup[k]
             \/ \E p \in Payloads : dedup'[k] = Registered(dedup[k], p)
  <2>1. carried[h] \in Payloads /\ KeyOf(carried[h]) \in Keys
    BY <1>2, CarriesPayload DEF RegisterAtomically, Upsert
  <2> QED BY <1>2, <2>1 DEF RegisterAtomically, Upsert, TypeOK
<1>3. ASSUME NEW h \in Handlers,
             (\E p \in Payloads : Receive(h, p)) \/ Lookup(h) \/ Abort(h)
      PROVE  dedup'[k] = dedup[k]
  BY <1>3 DEF Receive, Lookup, Abort
<1>4. CASE UNCHANGED intakeVars
  BY <1>1, <1>4 DEF intakeVars
<1>5. \/ dedup'[k] = dedup[k]
      \/ \E p \in Payloads : dedup'[k] = Registered(dedup[k], p)
  BY <1>2, <1>3, <1>4 DEF Next, Step, AwaitStore, intakeVars
<1> QED BY <1>1, <1>5, RegisteredRow

(* A receipt is written once, from the row as the step leaves it.          *)
LEMMA AnswersOnce ==
    ASSUME TypeOK, HandlersAgree, [Next]_intakeVars, NEW h \in Handlers,
           receipt'[h] # "none"
    PROVE  /\ carried'[h] = carried[h]
           /\ carried[h] \in Payloads /\ KeyOf(carried[h]) \in Keys
           /\ \/ receipt'[h] = receipt[h]
              \/ receipt'[h] = VerdictOn(dedup'[KeyOf(carried[h])], carried[h])
<1>1. ASSUME NEW g \in Handlers, NEW p \in Payloads, Receive(g, p)
      PROVE  /\ carried'[h] = carried[h] /\ stage[h] # "idle"
             /\ receipt'[h] = receipt[h]
  BY <1>1 DEF Receive, TypeOK, HandlersAgree
<1>2. ASSUME NEW g \in Handlers, RegisterAtomically(g) \/ Lookup(g)
      PROVE  /\ carried'[h] = carried[h] /\ stage[h] # "idle"
             /\ \/ receipt'[h] = receipt[h]
                \/ receipt'[h] = VerdictOn(dedup'[KeyOf(carried[h])], carried[h])
  <2>1. carried[g] \in Payloads /\ KeyOf(carried[g]) \in Keys
    BY <1>2, CarriesPayload DEF RegisterAtomically, Lookup
  <2>2. receipt'[g] = VerdictOn(dedup'[KeyOf(carried[g])], carried[g])
    BY <1>2, <2>1 DEF RegisterAtomically, Lookup, TypeOK
  <2>3. g # h => receipt'[h] = receipt[h]
    BY <1>2 DEF RegisterAtomically, Lookup, TypeOK
  <2>4. carried' = carried /\ stage[g] # "idle"
    BY <1>2 DEF RegisterAtomically, Lookup
  <2> QED BY <2>2, <2>3, <2>4 DEF HandlersAgree
<1>3. ASSUME (\E g \in Handlers : Upsert(g) \/ Abort(g)) \/ UNCHANGED intakeVars
      PROVE  /\ carried'[h] = carried[h] /\ stage[h] # "idle"
             /\ receipt'[h] = receipt[h]
  BY <1>3 DEF Upsert, Abort, intakeVars, HandlersAgree
<1>4. /\ carried'[h] = carried[h] /\ stage[h] # "idle"
      /\ \/ receipt'[h] = receipt[h]
         \/ receipt'[h] = VerdictOn(dedup'[KeyOf(carried[h])], carried[h])
  BY <1>1, <1>2, <1>3 DEF Next, Step, AwaitStore
<1> QED BY <1>4, CarriesPayload

-------------------------------------------------------------------------------
(* Of all the receipts of one interchange identity at most one is accepted,*)
(* whichever store keeps the ledger and however the handlers interleave.   *)
THEOREM OneAcceptance == Spec => []AtMostOneAccepted
<1>1. Init => AtMostOneAccepted
  BY DEF Init, AtMostOneAccepted
<1>2. /\ TypeOK /\ RegistrationInv /\ TypeOK' /\ RegistrationInv'
      /\ AtMostOneAccepted /\ [Next]_intakeVars
      => AtMostOneAccepted'
  <2> SUFFICES ASSUME TypeOK, RegistrationInv, TypeOK', RegistrationInv',
                      AtMostOneAccepted, [Next]_intakeVars,
                      NEW g \in Handlers, NEW h \in Handlers,
                      receipt'[g] = "accepted", receipt'[h] = "accepted",
                      KeyOf(carried'[g]) = KeyOf(carried'[h]), g # h
               PROVE  FALSE
    BY DEF AtMostOneAccepted
  <2> DEFINE row == dedup'[KeyOf(carried'[h])]
  <2>1. Registering(g)' /\ Registering(h)'
    BY DEF RegistrationInv, HandlersAgree, Registering
  <2>2. row.occurrences # 1
    BY <2>1 DEF RegistrationInv, RegistrationsCounted
  <2>3. HandlersAgree
    BY DEF RegistrationInv
  <2>4. \A f \in {g, h} :
           /\ carried'[f] = carried[f] /\ carried[f] \in Payloads
           /\ receipt'[f] = receipt[f] \/ receipt'[f] = VerdictOn(row, carried[f])
    BY <2>3, AnswersOnce
  <2>5. row \in DedupRow
    BY <2>3, AnswersOnce DEF TypeOK
  <2>6. \A f \in {g, h} : receipt[f] = "accepted"
    BY <2>2, <2>4, <2>5, VerdictCases
  <2> QED BY <2>4, <2>6 DEF AtMostOneAccepted
<1> QED BY <1>1, <1>2, RegistrationHolds, PTL DEF Spec

(* Every verdict compares the receipt with what was first on record for    *)
(* its identity, and those bytes are retained.                             *)
THEOREM TrueVerdicts == Spec => []VerdictsAreTrue
<1>1. Init => VerdictsAreTrue
  BY DEF Init, VerdictsAreTrue
<1>2. /\ TypeOK /\ RegistrationInv /\ TypeOK' /\ RegistrationInv'
      /\ VerdictsAreTrue /\ [Next]_intakeVars
      => VerdictsAreTrue'
  <2> SUFFICES ASSUME TypeOK, RegistrationInv, TypeOK', RegistrationInv',
                      VerdictsAreTrue, [Next]_intakeVars,
                      NEW h \in Handlers, receipt'[h] # "none"
               PROVE  LET first == dedup'[KeyOf(carried'[h])].firstArtifact
                      IN  /\ first \in raw'
                          /\ receipt'[h] = "accepted" => first = carried'[h]
                          /\ receipt'[h] = "duplicate" =>
                                FingerprintOf(first) = FingerprintOf(carried'[h])
                          /\ receipt'[h] = "conflict" =>
                                FingerprintOf(first) # FingerprintOf(carried'[h])
    BY DEF VerdictsAreTrue
  <2> DEFINE row == dedup'[KeyOf(carried[h])]
             old == dedup[KeyOf(carried[h])]
  <2>1. HandlersAgree /\ RegistrationInv
    BY DEF RegistrationInv
  <2>2. /\ carried'[h] = carried[h]
        /\ carried[h] \in Payloads /\ KeyOf(carried[h]) \in Keys
        /\ receipt'[h] = receipt[h] \/ receipt'[h] = VerdictOn(row, carried[h])
    BY <2>1, AnswersOnce
  <2>3. Registering(h)'
    BY DEF RegistrationInv, HandlersAgree, Registering
  <2>4. /\ row \in DedupRow /\ row.occurrences # 0
        /\ row.occurrences = 1 => row.firstArtifact = carried[h]
    BY <2>2, <2>3 DEF TypeOK, RegistrationInv, RegistrationsCounted
  <2>5. row.firstArtifact \in raw' /\ row.firstFingerprint = FingerprintOf(row.firstArtifact)
    BY <2>2, <2>4 DEF RegistrationInv, RowsAreWhole
  <2>6. CASE receipt'[h] = VerdictOn(row, carried[h])
    <3>1. /\ receipt'[h] = "accepted" => row.occurrences = 1
          /\ receipt'[h] = "duplicate" => row.firstFingerprint = FingerprintOf(carried[h])
          /\ receipt'[h] = "conflict" => row.firstFingerprint # FingerprintOf(carried[h])
      BY <2>2, <2>4, <2>6, VerdictCases
    <3> QED BY <2>2, <2>4, <2>5, <3>1
  <2>7. CASE receipt'[h] = receipt[h]
    <3>1. Registering(h)
      BY <2>1, <2>7 DEF HandlersAgree, Registering
    <3>2. old.occurrences \in Nat /\ old.occurrences # 0
      BY <2>1, <2>2, <3>1 DEF TypeOK, DedupRow, RegistrationInv, RegistrationsCounted
    <3>3. row.firstArtifact = old.firstArtifact
      BY <2>1, <2>2, <3>2, RowsOnlyGrow
    <3> QED BY <2>2, <2>5, <2>7, <3>3 DEF VerdictsAreTrue
  <2> QED BY <2>2, <2>6, <2>7
<1> QED BY <1>1, <1>2, RegistrationHolds, PTL DEF Spec

(* What was first on record for an identity is never replaced and its      *)
(* count never falls.                                                      *)
THEOREM FirstRecordStays == Spec => FirstRecordIsFinal
<1>1. /\ TypeOK /\ RegistrationInv /\ [Next]_intakeVars
      => [\A k \in Keys : dedup[k].occurrences > 0 =>
             /\ dedup'[k].firstArtifact = dedup[k].firstArtifact
             /\ dedup'[k].firstFingerprint = dedup[k].firstFingerprint
             /\ dedup'[k].occurrences >= dedup[k].occurrences]_dedup
  BY RowsOnlyGrow DEF RegistrationInv
<1> QED BY <1>1, RegistrationHolds, PTL DEF Spec, FirstRecordIsFinal

-------------------------------------------------------------------------------
(***************************************************************************)
(* The store that checks, counts and answers in one turn implements the    *)
(* promise; whatever is on record was accepted by somebody.                *)
(***************************************************************************)
OnRecordAccepted ==
    /\ \A h \in Handlers : stage[h] # "upserted"
    /\ \A k \in Keys : dedup[k].occurrences # 0 =>
          \E h \in Handlers : receipt[h] = "accepted" /\ KeyOf(carried[h]) = k

LEMMA OnRecordStep ==
    ASSUME AtomicRegister, TypeOK, HandlersAgree, OnRecordAccepted, [Next]_intakeVars
    PROVE  OnRecordAccepted'
<1>1. ASSUME NEW g \in Handlers, RegisterAtomically(g)
      PROVE  OnRecordAccepted'
  <2> DEFINE p == carried[g]
             k == KeyOf(carried[g])
  <2>1. p \in Payloads /\ k \in Keys /\ stage[g] = "retained" /\ receipt[g] = "none"
    BY <1>1, CarriesPayload DEF RegisterAtomically, HandlersAgree
  <2>2. /\ dedup[k] \in DedupRow /\ dedup[k].occurrences \in Nat
        /\ Registered(dedup[k], p) \in DedupRow
        /\ Registered(dedup[k], p).occurrences = dedup[k].occurrences + 1
    BY <2>1, RegisteredRow DEF TypeOK, DedupRow
  <2>3. /\ carried' = carried
        /\ \A h \in Handlers \ {g} : receipt'[h] = receipt[h]
        /\ receipt'[g] = VerdictOn(Registered(dedup[k], p), p)
        /\ \A j \in Keys \ {k} : dedup'[j] = dedup[j]
    BY <1>1, <2>1 DEF RegisterAtomically, TypeOK
  <2>4. dedup[k].occurrences = 0 => receipt'[g] = "accepted"
    BY <2>1, <2>2, <2>3, VerdictCases
  <2>5. ASSUME NEW j \in Keys, dedup'[j].occurrences # 0
        PROVE  \E h \in Handlers : receipt'[h] = "accepted" /\ KeyOf(carried'[h]) = j
    <3>1. CASE dedup[j].occurrences # 0
      <4>1. PICK h \in Handlers : receipt[h] = "accepted" /\ KeyOf(carried[h]) = j
        BY <3>1 DEF OnRecordAccepted
      <4>2. h # g
        BY <2>1, <4>1
      <4> QED BY <2>3, <4>1, <4>2
    <3>2. CASE dedup[j].occurrences = 0
      <4>1. j = k
        BY <2>3, <2>5, <3>2
      <4> QED BY <2>3, <2>4, <3>2, <4>1
    <3> QED BY <3>1, <3>2
  <2>6. \A h \in Handlers : stage'[h] # "upserted"
    BY <1>1 DEF RegisterAtomically, TypeOK, OnRecordAccepted
  <2> QED BY <2>5, <2>6 DEF OnRecordAccepted
<1>2. ASSUME NEW g \in Handlers, NEW p \in Payloads, Receive(g, p)
      PROVE  OnRecordAccepted'
  <2>1. receipt[g] = "none"
    BY <1>2 DEF Receive, HandlersAgree
  <2>2. /\ dedup' = dedup /\ receipt' = receipt
        /\ \A h \in Handlers \ {g} : carried'[h] = carried[h]
        /\ \A h \in Handlers : stage'[h] # "upserted"
    BY <1>2 DEF Receive, TypeOK, OnRecordAccepted
  <2> QED BY <2>1, <2>2 DEF OnRecordAccepted
<1>3. ASSUME NEW g \in Handlers, Upsert(g) \/ Lookup(g)
      PROVE  FALSE
  BY <1>3 DEF Upsert, Lookup, OnRecordAccepted
<1>4. ASSUME (\E g \in Handlers : Abort(g)) \/ UNCHANGED intakeVars
      PROVE  OnRecordAccepted'
  BY <1>4 DEF Abort, intakeVars, OnRecordAccepted
<1> QED BY <1>1, <1>2, <1>3, <1>4 DEF Next, Step, AwaitStore

LEMMA OnRecordHolds ==
    ASSUME AtomicRegister
    PROVE  Spec => []OnRecordAccepted
<1>1. Init => OnRecordAccepted
  BY DEF Init, NoRow, OnRecordAccepted
<1>2. TypeOK /\ RegistrationInv /\ OnRecordAccepted /\ [Next]_intakeVars => OnRecordAccepted'
  BY OnRecordStep DEF RegistrationInv
<1> QED BY <1>1, <1>2, RegistrationHolds, PTL DEF Spec

(* With the atomic store a registered interchange whose receipts are all   *)
(* answered has been accepted once: none is lost.                          *)
THEOREM AtomicStoreLosesNone ==
    ASSUME AtomicRegister
    PROVE  Spec => []FirstOccurrenceAccepted
<1>1. TypeOK /\ RegistrationInv /\ OnRecordAccepted => FirstOccurrenceAccepted
  <2> SUFFICES ASSUME TypeOK, HandlersAgree, OnRecordAccepted,
                      NEW k \in Keys, dedup[k].occurrences > 0
               PROVE  \E h \in {f \in Handlers : /\ carried[f] # NoPayload
                                                 /\ KeyOf(carried[f]) = k} :
                          receipt[h] = "accepted"
    BY DEF FirstOccurrenceAccepted, RegistrationInv
  <2>1. dedup[k].occurrences # 0
    BY DEF TypeOK, DedupRow
  <2>2. PICK h \in Handlers : receipt[h] = "accepted" /\ KeyOf(carried[h]) = k
    BY <2>1 DEF OnRecordAccepted
  <2>3. carried[h] # NoPayload
    BY <2>2 DEF HandlersAgree
  <2> QED BY <2>2, <2>3
<1> QED BY <1>1, OnRecordHolds, RegistrationHolds, PTL

(* The answer of handler h.                                                *)
AnswerOf(h) == [of |-> h, key |-> KeyOf(carried[h]),
                content |-> FingerprintOf(carried[h]), verdict |-> receipt[h]]

(* Every step of the gateway over the atomic store gives at most one       *)
(* answer, the one the promise allows.                                     *)
THEOREM AtomicStoreKeepsPromise ==
    ASSUME AtomicRegister
    PROVE  Spec => ImplementsIdempotentIntake
<1>1. Init => Promise!Init
  BY DEF Init, Answers, Promise!Init
<1>2. /\ TypeOK /\ RegistrationInv /\ OnRecordAccepted /\ VerdictsAreTrue
      /\ [Next]_intakeVars
      => [Promise!Next]_Answers
  <2> SUFFICES ASSUME TypeOK, RegistrationInv, OnRecordAccepted, VerdictsAreTrue,
                      [Next]_intakeVars
               PROVE  [Promise!Next]_Answers
    OBVIOUS
  <2>0. HandlersAgree /\ RowsAreWhole /\ RegistrationsCounted
    BY DEF RegistrationInv
  <2>1. ASSUME NEW g \in Handlers, RegisterAtomically(g)
        PROVE  Promise!Next
    <3> DEFINE p == carried[g]
               k == KeyOf(carried[g])
               c == FingerprintOf(carried[g])
               v == VerdictOn(Registered(dedup[k], p), p)
    <3>1. /\ p \in Payloads /\ k \in Keys /\ c \in Fingerprints
          /\ stage[g] = "retained" /\ receipt[g] = "none"
      BY <2>0, <2>1, CarriesPayload, FingerprintsType DEF RegisterAtomically, HandlersAgree
    <3>2. /\ dedup[k] \in DedupRow /\ dedup[k].occurrences \in Nat
          /\ Registered(dedup[k], p) \in DedupRow
          /\ Registered(dedup[k], p).occurrences = dedup[k].occurrences + 1
          /\ dedup[k].occurrences # 0 =>
                Registered(dedup[k], p).firstFingerprint = dedup[k].firstFingerprint
      BY <3>1, RegisteredRow DEF TypeOK, DedupRow
    <3>3. v \in Verdicts
      BY <3>1, <3>2, VerdictCases
    <3>4. /\ carried' = carried
          /\ receipt' = [receipt EXCEPT ![g] = v]
      BY <2>1 DEF RegisterAtomically
    <3>5. Answers' = Answers \cup {[of |-> g, key |-> k, content |-> c, verdict |-> v]}
      <4>1. v # "none"
        BY <3>3 DEF Verdicts
      <4> HIDE DEF v
      <4>2. /\ receipt'[g] = v
            /\ \A h \in Handlers \ {g} : receipt'[h] = receipt[h]
        BY <3>4 DEF TypeOK
      <4> QED BY <3>1, <3>4, <4>1, <4>2 DEF Answers
    <3>6. \A a \in Answers : a.of # g
      BY <3>1 DEF Answers
    <3>7. Promise!Say(g, k, c, v)
      BY <3>5, <3>6 DEF Promise!Say
    <3>8. CASE dedup[k].occurrences = 0
      <4>1. v = "accepted"
        BY <3>1, <3>2, <3>8, VerdictCases
      <4>2. \A a \in Answers : a.key # k
        <5> SUFFICES ASSUME NEW h \in Handlers, receipt[h] # "none", KeyOf(carried[h]) = k
                     PROVE  FALSE
          BY DEF Answers
        <5>1. Registering(h)
          BY <2>0 DEF HandlersAgree, Registering
        <5> QED BY <2>0, <3>8, <5>1 DEF RegistrationsCounted
      <4>3. Promise!Accept(g, k, c)
        BY <3>7, <4>1, <4>2 DEF Promise!Accept
      <4> QED BY <3>1, <4>3 DEF Promise!Next
    <3>9. CASE dedup[k].occurrences # 0
      <4>1. PICK h \in Handlers : receipt[h] = "accepted" /\ KeyOf(carried[h]) = k
        BY <3>1, <3>9 DEF OnRecordAccepted
      <4>2. dedup[k].firstFingerprint = FingerprintOf(carried[h])
        BY <2>0, <3>1, <3>9, <4>1 DEF VerdictsAreTrue, RowsAreWhole
      <4>3. AnswerOf(h) \in Promise!Accepted(k) /\ AnswerOf(h).content = FingerprintOf(carried[h])
        BY <4>1 DEF AnswerOf, Answers, Promise!Accepted
      <4>4. Registered(dedup[k], p).occurrences # 1
        BY <3>2, <3>9
      <4>5. CASE dedup[k].firstFingerprint = c
        <5>1. v = "duplicate"
          BY <3>2, <3>9, <4>4, <4>5 DEF VerdictOn
        <5>2. Promise!Duplicate(g, k, c)
          BY <3>7, <4>2, <4>3, <4>5, <5>1 DEF Promise!Duplicate
        <5> QED BY <3>1, <5>2 DEF Promise!Next
      <4>6. CASE dedup[k].firstFingerprint # c
        <5>1. v = "conflict"
          BY <3>2, <3>9, <4>4, <4>6 DEF VerdictOn
        <5>2. Promise!Conflict(g, k, c)
          BY <3>7, <4>2, <4>3, <4>6, <5>1 DEF Promise!Conflict
        <5> QED BY <3>1, <5>2 DEF Promise!Next
      <4> QED BY <4>5, <4>6
    <3> QED BY <3>8, <3>9
  <2>2. ASSUME NEW g \in Handlers, NEW p \in Payloads, Receive(g, p)
        PROVE  Answers' = Answers
    <3>1. receipt[g] = "none"
      BY <2>0, <2>2 DEF Receive, HandlersAgree
    <3>2. receipt' = receipt /\ \A h \in Handlers \ {g} : carried'[h] = carried[h]
      BY <2>2 DEF Receive, TypeOK
    <3> QED BY <3>1, <3>2 DEF Answers
  <2>3. ASSUME NEW g \in Handlers, Upsert(g) \/ Lookup(g)
        PROVE  FALSE
    BY <2>3 DEF Upsert, Lookup, OnRecordAccepted
  <2>4. ASSUME (\E g \in Handlers : Abort(g)) \/ UNCHANGED intakeVars
        PROVE  Answers' = Answers
    BY <2>4 DEF Abort, intakeVars, Answers
  <2> QED BY <2>1, <2>2, <2>3, <2>4 DEF Next, Step, AwaitStore
<1> QED BY <1>1, <1>2, RegistrationHolds, OnRecordHolds, TrueVerdicts, PTL
        DEF Spec, ImplementsIdempotentIntake, Promise!Spec
===============================================================================
