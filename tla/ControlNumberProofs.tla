-------------------------- MODULE ControlNumberProofs --------------------------
(***************************************************************************)
(* What the durable control-number sequences guarantee for any number of   *)
(* senders and sequences and any pattern of rollbacks.  The argument: the  *)
(* row lock makes upsert, read and commit one step of the sequence, and    *)
(* RowLockInv says so inductively.                                         *)
(* And what the documents of a payload make of these numbers, however many *)
(* they are and whatever they are translated to: each draws after what can *)
(* fail, so that every number counted is on one interchange or will be.    *)
(***************************************************************************)
EXTENDS ControlNumberRepository, Emissions, TLAPS, SequenceTheorems

LEMMA OrderType == /\ Len(Order) \in Nat
                   /\ DOMAIN Order = 1..Len(Order)
                   /\ \A n \in DOMAIN Order : Order[n] \in Scopes
BY OrderAssumption DEF Scopes

LEMMA ScopeType ==
    ASSUME NEW c \in Senders, Drawing(c)
    PROVE  Scope(c) \in Scopes
BY OrderType DEF Drawing, Scope

(* What a commit makes of the row and of the sender's numbers.             *)
LEMMA CommitStep ==
    ASSUME TypeOK, RowLockInv, NEW c \in Senders, Commit(c)
    PROVE  /\ Scope(c) \in Scopes
           /\ committed' = [committed EXCEPT ![Scope(c)] = committed[Scope(c)] + 1]
           /\ drawn' = [drawn EXCEPT ![c][Scope(c)] = committed[Scope(c)] + 1]
           /\ drawn[c][Scope(c)] = 0
<1>1. Drawing(c) /\ Scope(c) \in Scopes /\ phase[c] = "selected"
  BY ScopeType DEF Commit
<1>2. holder[Scope(c)] = c
  BY <1>1 DEF RowLockInv, LocksMatchTransactions
<1>3. pending[Scope(c)] = committed[Scope(c)] + 1 /\ read[c] = pending[Scope(c)]
  BY <1>1, <1>2 DEF RowLockInv, OpenWriteIsNext
<1>4. drawn[c][Scope(c)] = 0
  BY <1>1, OrderType DEF RowLockInv, DrawnInOrder, Drawing, Scope, TypeOK
<1> QED BY <1>1, <1>2, <1>3, <1>4 DEF Commit, Visible

-------------------------------------------------------------------------------
LEMMA TypeStep == TypeOK /\ RowLockInv /\ [Next]_numberVars => TypeOK'
<1> SUFFICES ASSUME TypeOK, RowLockInv, [Next]_numberVars
             PROVE  TypeOK'
  OBVIOUS
<1>1. ASSUME NEW c \in Senders, Upsert(c)
      PROVE  TypeOK'
  <2>1. Scope(c) \in Scopes
    BY <1>1, ScopeType DEF Upsert
  <2> QED BY <1>1, <2>1 DEF Upsert, TypeOK, Phases
<1>2. ASSUME NEW c \in Senders, Select(c)
      PROVE  TypeOK'
  <2>1. Scope(c) \in Scopes
    BY <1>2, ScopeType DEF Select
  <2>2. Visible(c, Scope(c)) \in Nat
    BY <2>1 DEF Visible, TypeOK
  <2> QED BY <1>2, <2>1, <2>2 DEF Select, TypeOK, Phases
<1>3. ASSUME NEW c \in Senders, Commit(c)
      PROVE  TypeOK'
  <2>1. PICK s \in Scopes, k \in Nat :
           /\ committed' = [committed EXCEPT ![s] = k]
           /\ drawn' = [drawn EXCEPT ![c][s] = k]
    <3>1. committed[Scope(c)] + 1 \in Nat
      BY <1>3, CommitStep DEF TypeOK
    <3> QED BY <1>3, <3>1, CommitStep
  <2>2. committed' \in [Scopes -> Nat]
    BY <2>1 DEF TypeOK
  <2>3. drawn' \in [Senders -> [Scopes -> Nat]]
    BY <2>1 DEF TypeOK
  <2>4. Scope(c) \in Scopes
    BY <1>3, CommitStep
  <2> QED BY <1>3, <2>2, <2>3, <2>4 DEF Commit, TypeOK, Phases
<1>4. ASSUME NEW c \in Senders, Return(c)
      PROVE  TypeOK'
  BY <1>4, OrderType DEF Return, Drawing, TypeOK, Phases
<1>5. ASSUME NEW c \in Senders, Rollback(c)
      PROVE  TypeOK'
  BY <1>5 DEF Rollback, TypeOK
<1>6. CASE UNCHANGED numberVars
  BY <1>6 DEF numberVars, TypeOK
<1> QED BY <1>1, <1>2, <1>3, <1>4, <1>5, <1>6 DEF Next, Draw

(* A row is locked exactly by the transaction that is open on it.          *)
LEMMA LocksStep ==
    TypeOK /\ RowLockInv /\ [Next]_numberVars => LocksMatchTransactions'
<1> SUFFICES ASSUME TypeOK, RowLockInv, [Next]_numberVars
             PROVE  LocksMatchTransactions'
  OBVIOUS
<1>0. LocksMatchTransactions
  BY DEF RowLockInv
<1>1. ASSUME NEW c \in Senders, Upsert(c)
      PROVE  LocksMatchTransactions'
  <2>1. Scope(c) \in Scopes
    BY <1>1, ScopeType DEF Upsert
  <2> QED BY <1>0, <1>1, <2>1, SendersAssumption
          DEF Upsert, LocksMatchTransactions, Drawing, Scope, TypeOK
<1>2. ASSUME NEW c \in Senders, Select(c)
      PROVE  LocksMatchTransactions'
  BY <1>0, <1>2 DEF Select, LocksMatchTransactions, Drawing, Scope, TypeOK
<1>3. ASSUME NEW c \in Senders, Commit(c)
      PROVE  LocksMatchTransactions'
  <2>1. Scope(c) \in Scopes
    BY <1>3, CommitStep
  <2> QED BY <1>0, <1>3, <2>1, SendersAssumption
          DEF Commit, LocksMatchTransactions, Drawing, Scope, TypeOK
<1>4. ASSUME NEW c \in Senders, Return(c)
      PROVE  LocksMatchTransactions'
  BY <1>0, <1>4 DEF Return, LocksMatchTransactions, Drawing, Scope, TypeOK
<1>5. ASSUME NEW c \in Senders, Rollback(c)
      PROVE  LocksMatchTransactions'
  BY <1>0, <1>5, SendersAssumption
     DEF Rollback, LocksMatchTransactions, Drawing, Scope, TypeOK
<1>6. CASE UNCHANGED numberVars
  BY <1>0, <1>6 DEF numberVars, LocksMatchTransactions, Drawing, Scope
<1> QED BY <1>1, <1>2, <1>3, <1>4, <1>5, <1>6 DEF Next, Draw

(* What an open transaction has written is the next number.                *)
LEMMA OpenWriteStep ==
    TypeOK /\ RowLockInv /\ [Next]_numberVars => OpenWriteIsNext'
<1> SUFFICES ASSUME TypeOK, RowLockInv, [Next]_numberVars
             PROVE  OpenWriteIsNext'
  OBVIOUS
<1>0. LocksMatchTransactions /\ OpenWriteIsNext
  BY DEF RowLockInv
<1>1. ASSUME NEW c \in Senders, Upsert(c)
      PROVE  OpenWriteIsNext'
  <2>1. Scope(c) \in Scopes
    BY <1>1, ScopeType DEF Upsert
  <2> QED BY <1>0, <1>1, <2>1 DEF Upsert, OpenWriteIsNext, LocksMatchTransactions, TypeOK
<1>2. ASSUME NEW c \in Senders, Select(c)
      PROVE  OpenWriteIsNext'
  <2>1. Scope(c) \in Scopes /\ \A s \in Scopes : holder[s] = c => s = Scope(c)
    BY <1>0, <1>2, ScopeType DEF Select, LocksMatchTransactions
  <2> QED BY <1>0, <1>2, <2>1 DEF Select, Visible, OpenWriteIsNext, TypeOK
<1>3. ASSUME NEW c \in Senders, Commit(c)
      PROVE  OpenWriteIsNext'
  <2>1. /\ Scope(c) \in Scopes
        /\ \A s \in Scopes \ {Scope(c)} : committed'[s] = committed[s]
    BY <1>3, CommitStep DEF TypeOK
  <2>2. \A s \in Scopes : holder[s] = c => s = Scope(c)
    BY <1>0, <1>3 DEF Commit, LocksMatchTransactions
  <2> QED BY <1>0, <1>3, <2>1, <2>2, SendersAssumption DEF Commit, OpenWriteIsNext, TypeOK
<1>4. ASSUME NEW c \in Senders, Return(c)
      PROVE  OpenWriteIsNext'
  BY <1>0, <1>4 DEF Return, OpenWriteIsNext, TypeOK
<1>5. ASSUME NEW c \in Senders, Rollback(c)
      PROVE  OpenWriteIsNext'
  BY <1>0, <1>5, SendersAssumption DEF Rollback, OpenWriteIsNext, TypeOK
<1>6. CASE UNCHANGED numberVars
  BY <1>0, <1>6 DEF numberVars, OpenWriteIsNext
<1> QED BY <1>1, <1>2, <1>3, <1>4, <1>5, <1>6 DEF Next, Draw

(* Numbers are drawn sequence by sequence and never exceed the row.        *)
LEMMA DrawnStep ==
    TypeOK /\ RowLockInv /\ [Next]_numberVars => DrawnInOrder'
<1> SUFFICES ASSUME TypeOK, RowLockInv, [Next]_numberVars
             PROVE  DrawnInOrder'
  OBVIOUS
<1>0. DrawnInOrder
  BY DEF RowLockInv
<1>1. ASSUME NEW c \in Senders, Upsert(c) \/ Select(c)
      PROVE  DrawnInOrder'
  BY <1>0, <1>1 DEF Upsert, Select, DrawnInOrder, TypeOK
<1>2. ASSUME NEW c \in Senders, Commit(c)
      PROVE  DrawnInOrder'
  <2>1. /\ turn[c] \in DOMAIN Order /\ Scope(c) = Order[turn[c]]
        /\ turn' = turn /\ phase[c] = "selected"
        /\ phase' = [phase EXCEPT ![c] = "committed"]
    BY <1>2 DEF Commit, Drawing, Scope
  <2> SUFFICES ASSUME NEW d \in Senders, NEW n \in DOMAIN Order
               PROVE  /\ drawn'[d][Order[n]] # 0 <=>
                            n < turn[d] \/ (n = turn[d] /\ phase'[d] = "committed")
                      /\ drawn'[d][Order[n]] <= committed'[Order[n]]
    BY <2>1 DEF DrawnInOrder
  <2>2. Order[n] \in Scopes /\ Scope(c) \in Scopes /\ n \in Nat /\ turn[d] \in Nat
    BY <2>1, OrderType DEF TypeOK
  <2>3. committed[Order[n]] \in Nat /\ drawn[d][Order[n]] \in Nat /\ committed[Scope(c)] \in Nat
    BY <2>2 DEF TypeOK
  <2>6. /\ committed' = [committed EXCEPT ![Scope(c)] = committed[Scope(c)] + 1]
        /\ drawn' = [drawn EXCEPT ![c][Scope(c)] = committed[Scope(c)] + 1]
    BY <1>2, CommitStep
  <2>4. CASE d = c /\ n = turn[c]
    <3>1. drawn'[d][Order[n]] = committed[Scope(c)] + 1
      BY <1>2, <2>1, <2>2, <2>4, CommitStep DEF TypeOK
    <3>2. committed'[Order[n]] = committed[Scope(c)] + 1
      BY <1>2, <2>1, <2>2, <2>4, CommitStep DEF TypeOK
    <3>3. phase'[d] = "committed"
      BY <2>1, <2>4 DEF TypeOK
    <3> QED BY <2>3, <2>4, <3>1, <3>2, <3>3
  <2>5. CASE ~(d = c /\ n = turn[c])
    <3>1. d = c => Order[n] # Scope(c)
      BY <2>1, <2>5, OrderAssumption
    <3>2. drawn'[d][Order[n]] = drawn[d][Order[n]]
      BY <2>2, <2>6, <3>1 DEF TypeOK
    <3>3. committed'[Order[n]] >= committed[Order[n]]
      <4>1. CASE Order[n] = Scope(c)
        BY <2>2, <2>3, <2>6, <4>1 DEF TypeOK
      <4>2. CASE Order[n] # Scope(c)
        BY <2>2, <2>3, <2>6, <4>2 DEF TypeOK
      <4> QED BY <4>1, <4>2
    <3>4. n = turn[d] => phase'[d] = phase[d]
      BY <2>1, <2>5 DEF TypeOK
    <3>5. committed'[Order[n]] \in Nat
      BY <2>2, TypeStep DEF TypeOK
    <3> QED BY <1>0, <2>2, <2>3, <3>2, <3>3, <3>4, <3>5 DEF DrawnInOrder
  <2> QED BY <2>4, <2>5
<1>3. ASSUME NEW c \in Senders, Return(c)
      PROVE  DrawnInOrder'
  <2>1. /\ turn' = [turn EXCEPT ![c] = @ + 1] /\ phase' = [phase EXCEPT ![c] = "calls"]
        /\ phase[c] = "committed" /\ UNCHANGED <<committed, drawn>>
    BY <1>3 DEF Return
  <2>2. \A n \in DOMAIN Order : n \in Nat
    BY OrderType
  <2> QED BY <1>0, <2>1, <2>2 DEF DrawnInOrder, TypeOK
<1>4. ASSUME (\E c \in Senders : Rollback(c)) \/ UNCHANGED numberVars
      PROVE  DrawnInOrder'
  BY <1>0, <1>4 DEF Rollback, numberVars, DrawnInOrder
<1> QED BY <1>1, <1>2, <1>3, <1>4 DEF Next, Draw

-------------------------------------------------------------------------------
LEMMA InitInv == Init => TypeOK /\ RowLockInv
<1> SUFFICES ASSUME Init PROVE TypeOK /\ RowLockInv
  OBVIOUS
<1>1. TypeOK
  BY OrderType DEF Init, TypeOK, Phases
<1>2. LocksMatchTransactions /\ OpenWriteIsNext
  BY SendersAssumption DEF Init, LocksMatchTransactions, OpenWriteIsNext
<1>3. DrawnInOrder
  BY OrderType DEF Init, DrawnInOrder
<1> QED BY <1>1, <1>2, <1>3 DEF RowLockInv

(* The sequences' state is well-typed, and a row is written by the one     *)
(* transaction that holds its lock, in every reachable state.              *)
THEOREM RowLockHolds == Spec => [](TypeOK /\ RowLockInv)
<1>1. TypeOK /\ RowLockInv /\ [Next]_numberVars => (TypeOK /\ RowLockInv)'
  BY TypeStep, LocksStep, OpenWriteStep, DrawnStep DEF RowLockInv
<1> QED BY InitInv, <1>1, PTL DEF Spec

THEOREM TypeCorrect == Spec => []TypeOK
BY RowLockHolds, PTL

(* Only a commit changes a sequence.                                       *)
LEMMA OnlyCommits ==
    [Next]_numberVars => \/ \E c \in Senders : Commit(c)
                         \/ UNCHANGED <<committed, drawn>>
BY DEF Next, Draw, Upsert, Select, Return, Rollback, numberVars

(* No two interchanges carry the same number of a sequence, and every      *)
(* number below the current value was drawn: rollbacks leave no gap.       *)
LEMMA DistinctAndDenseTogether == Spec => [](NumbersDistinct /\ NumbersDense)
<1>1. Init => NumbersDistinct /\ NumbersDense
  BY DEF Init, NumbersDistinct, NumbersDense
<1>2. /\ TypeOK /\ RowLockInv /\ NumbersDistinct /\ NumbersDense /\ [Next]_numberVars
      => (NumbersDistinct /\ NumbersDense)'
  <2> SUFFICES ASSUME TypeOK, RowLockInv, NumbersDistinct, NumbersDense,
                      [Next]_numberVars
               PROVE  (NumbersDistinct /\ NumbersDense)'
    OBVIOUS
  <2>1. CASE UNCHANGED <<committed, drawn>>
    BY <2>1 DEF NumbersDistinct, NumbersDense
  <2>2. ASSUME NEW c \in Senders, Commit(c)
        PROVE  (NumbersDistinct /\ NumbersDense)'
    <3> DEFINE s == Scope(c)
               k == committed[s] + 1
    <3>1. /\ s \in Scopes
          /\ committed' = [committed EXCEPT ![s] = k]
          /\ drawn' = [drawn EXCEPT ![c][s] = k]
          /\ drawn[c][s] = 0
      BY <2>2, CommitStep
    <3>2. committed[s] \in Nat
      BY <3>1 DEF TypeOK
    <3>3. \A d \in Senders : drawn[d][s] \in Nat /\ drawn[d][s] <= committed[s]
      BY <3>1 DEF TypeOK, RowLockInv, DrawnInOrder, Scopes
    <3> HIDE DEF s
    <3>4. /\ committed'[s] = k
          /\ \A r \in Scopes \ {s} : committed'[r] = committed[r]
          /\ drawn'[c][s] = k
          /\ \A d \in Senders, r \in Scopes :
                d # c \/ r # s => drawn'[d][r] = drawn[d][r]
      BY <3>1 DEF TypeOK
    <3>5. \A d \in Senders \ {c} : drawn'[d][s] # k
      BY <3>1, <3>2, <3>3, <3>4
    <3>6. NumbersDistinct'
      <4> SUFFICES ASSUME NEW d \in Senders, NEW e \in Senders, NEW r \in Scopes,
                          drawn'[d][r] # 0, drawn'[d][r] = drawn'[e][r]
                   PROVE  d = e
        BY DEF NumbersDistinct
      <4>1. CASE r = s
        BY <3>4, <3>5, <4>1 DEF NumbersDistinct
      <4>2. CASE r # s
        BY <3>4, <4>2 DEF NumbersDistinct
      <4> QED BY <4>1, <4>2
    <3>7. NumbersDense'
      <4> SUFFICES ASSUME NEW r \in Scopes, NEW n \in 1..committed'[r]
                   PROVE  \E d \in Senders : drawn'[d][r] = n
        BY DEF NumbersDense
      <4>1. CASE r # s
        <5>1. PICK d \in Senders : drawn[d][r] = n
          BY <3>4, <4>1 DEF NumbersDense
        <5> QED BY <3>4, <4>1, <5>1
      <4>2. CASE r = s /\ n = k
        BY <3>4, <4>2
      <4>3. CASE r = s /\ n # k
        <5>1. n \in 1..committed[s]
          BY <3>2, <3>4, <4>3
        <5>2. PICK d \in Senders : drawn[d][s] = n
          BY <3>1, <5>1 DEF NumbersDense
        <5>3. d # c
          BY <3>1, <3>2, <5>1, <5>2
        <5> QED BY <3>4, <4>3, <5>2, <5>3
      <4> QED BY <4>1, <4>2, <4>3
    <3> QED BY <3>6, <3>7
  <2> QED BY <2>1, <2>2, OnlyCommits
<1> QED BY <1>1, <1>2, RowLockHolds, PTL DEF Spec

(* Both are what the sequence promises.                                    *)
THEOREM DistinctAndDense == Spec => []NumbersDistinctAndDense
BY DistinctAndDenseTogether, PTL DEF NumbersDistinctAndDense

(* A commit gives the next number of its sequence and no other step gives  *)
(* one: the transactions implement the one-step promise of the service.    *)
THEOREM RepositoryKeepsPromise == Spec => ImplementsControlNumberService
<1>1. Init => Service!Init
  BY DEF Init, Service!Init
<1>2. TypeOK /\ RowLockInv /\ [Next]_numberVars => [Service!Next]_<<committed, drawn>>
  <2> SUFFICES ASSUME TypeOK, RowLockInv, [Next]_numberVars
               PROVE  [Service!Next]_<<committed, drawn>>
    OBVIOUS
  <2>1. ASSUME NEW c \in Senders, Commit(c)
        PROVE  Service!Next
    <3>1. Scope(c) \in Scopes /\ Service!Give(c, Scope(c))
      BY <2>1, CommitStep DEF Service!Give
    <3> QED BY <3>1 DEF Service!Next
  <2> QED BY <2>1, OnlyCommits
<1> QED BY <1>1, <1>2, RowLockHolds, PTL
        DEF Spec, ImplementsControlNumberService, Service!Spec

-------------------------------------------------------------------------------
(* The documents of a payload.  An emission that waits for a number has    *)
(* those of the scopes before it and no other; every number counted was    *)
(* drawn by one emission.                                                  *)
Numbered == {"isa", "gs", "st"}
Past(pc) == CASE pc = "gs" -> {"isa"}
              [] pc = "st" -> {"isa", "gs"}
              [] pc = "sent" -> Numbered
              [] OTHER -> {}

IsEmission(q) ==
    /\ q = [pc |-> q.pc, job |-> q.job, body |-> q.body,
            isa |-> q.isa, gs |-> q.gs, st |-> q.st]
    /\ q.pc \in Numbered \cup {"sent", "failed"}
    /\ \A scope \in Numbered : q[scope] \in Nat
    /\ \A scope \in Numbered : q[scope] # 0 <=> scope \in Past(q.pc)

IsListed(all) == Len(all) \in Nat /\ all = [n \in 1..Len(all) |-> all[n]]

(* Numbers of the calls `all` of emitDocument, `upto` drawn of each scope. *)
OnePerNumber(all, upto) ==
    \A scope \in Numbered :
        /\ \A e \in DOMAIN all : all[e][scope] \in 0..upto[scope]
        /\ \A e, f \in DOMAIN all :
              all[e][scope] # 0 /\ all[e][scope] = all[f][scope] => e = f
        /\ \A k \in 1..upto[scope] : \E e \in DOMAIN all : all[e][scope] = k

EmissionInv ==
    /\ IsListed(emissions) /\ \A e \in DOMAIN emissions : IsEmission(emissions[e])
    /\ counted \in [Numbered -> Nat]
    /\ OnePerNumber(emissions, counted)

LEMMA EmissionInvStarts == EmissionInit => EmissionInv
BY DEF EmissionInit, EmissionInv, IsListed, OnePerNumber, Numbered

(* A list and one element more.                                            *)
LEMMA ListedLonger ==
    ASSUME NEW all, IsListed(all), NEW last
    PROVE  LET longer == Append(all, last)
               n == Len(all)
           IN  /\ IsListed(longer) /\ DOMAIN longer = 1..(n + 1)
               /\ longer[n + 1] = last
               /\ \A e \in 1..n : longer[e] = all[e]
<1> DEFINE S == {all[e] : e \in 1..Len(all)} \cup {last}
<1>1. all \in Seq(S) /\ last \in S
  BY DEF IsListed
<1>2. /\ Append(all, last) \in Seq(S)
      /\ Len(Append(all, last)) = Len(all) + 1
      /\ \A e \in 1..Len(all) : Append(all, last)[e] = all[e]
      /\ Append(all, last)[Len(all) + 1] = last
  BY <1>1, AppendProperties
<1> HIDE DEF S
<1>3. DOMAIN Append(all, last) = 1..(Len(all) + 1)
  BY <1>2, LenProperties
<1>4. Append(all, last) = [e \in 1..Len(Append(all, last)) |-> Append(all, last)[e]]
  BY <1>2, LenProperties
<1> QED BY <1>1, <1>2, <1>3, <1>4 DEF IsListed

(* A document that starts has no number yet.                               *)
LEMMA StartKeepsNumbers ==
    ASSUME EmissionInv, NEW job, StartEmission(job)
    PROVE  EmissionInv'
<1> DEFINE n == Len(emissions)
           pc == IF Rejected(job) THEN "failed" ELSE "isa"
           new == [pc |-> pc, job |-> job, body |-> Translation(job),
                   isa |-> 0, gs |-> 0, st |-> 0]
<1>1. /\ n \in Nat /\ DOMAIN emissions = 1..n
      /\ emissions' = Append(emissions, new) /\ counted' = counted
  BY DEF EmissionInv, IsListed, StartEmission
<1>2. pc \in {"failed", "isa"}
  OBVIOUS
<1>3. IsEmission(new) /\ \A scope \in Numbered : new[scope] = 0
  <2> HIDE DEF pc
  <2> QED BY <1>2 DEF IsEmission, Numbered, Past
<1> HIDE DEF new
<1>4. /\ IsListed(emissions') /\ DOMAIN emissions' = 1..(n + 1)
      /\ emissions'[n + 1] = new
      /\ \A e \in 1..n : emissions'[e] = emissions[e]
  <2>1. IsListed(emissions)
    BY DEF EmissionInv
  <2> QED BY <1>1, <2>1, ListedLonger
<1> HIDE DEF n
<1>5. \A e \in 1..(n + 1) : e \in 1..n \/ e = n + 1
  BY <1>1
<1>6. \A e \in DOMAIN emissions' : IsEmission(emissions'[e])
  BY <1>1, <1>3, <1>4, <1>5 DEF EmissionInv
<1>7. ASSUME NEW scope \in Numbered
      PROVE  /\ \A e \in DOMAIN emissions' : emissions'[e][scope] \in 0..counted[scope]
             /\ \A e, f \in DOMAIN emissions' :
                   emissions'[e][scope] # 0 /\ emissions'[e][scope] = emissions'[f][scope]
                   => e = f
             /\ \A k \in 1..counted[scope] :
                   \E e \in DOMAIN emissions' : emissions'[e][scope] = k
  <2>1. /\ \A e \in 1..n : emissions[e][scope] \in 0..counted[scope]
        /\ \A e, f \in 1..n :
              emissions[e][scope] # 0 /\ emissions[e][scope] = emissions[f][scope] => e = f
        /\ \A k \in 1..counted[scope] : \E e \in 1..n : emissions[e][scope] = k
    BY <1>1 DEF EmissionInv, OnePerNumber
  <2>2. counted[scope] \in Nat /\ new[scope] = 0 /\ 0 \in 0..counted[scope]
    BY <1>3 DEF EmissionInv
  <2>3. \A e \in 1..n : e \in 1..(n + 1)
    BY <1>1
  <2> QED BY <1>4, <1>5, <2>1, <2>2, <2>3
<1> QED BY <1>1, <1>4, <1>6, <1>7 DEF EmissionInv, OnePerNumber

(* What a draw makes of its emission.                                      *)
AfterDraw(q, scope, k) == [[q EXCEPT !.pc = Following[scope]] EXCEPT ![scope] = k]

LEMMA DrawnNumber ==
    ASSUME NEW q, IsEmission(q), NEW scope \in Numbered, q.pc = scope,
           NEW k \in Nat \ {0}, NEW r, r = AfterDraw(q, scope, k)
    PROVE  /\ IsEmission(r) /\ r[scope] = k /\ q[scope] = 0
           /\ \A other \in Numbered \ {scope} : r[other] = q[other]
<1> DEFINE job == q.job
           body == q.body
           isa == q.isa
           gs == q.gs
           st == q.st
<1>1. /\ q["isa"] = isa /\ q["gs"] = gs /\ q["st"] = st
      /\ isa \in Nat /\ gs \in Nat /\ st \in Nat
      /\ \A s \in Numbered : q[s] # 0 <=> s \in Past(scope)
  BY DEF IsEmission, Numbered
<1>2. q = [pc |-> scope, job |-> job, body |-> body, isa |-> isa, gs |-> gs, st |-> st]
  BY DEF IsEmission
<1> HIDE DEF job, body, isa, gs, st
<1>3. CASE scope = "isa"
  <2> DEFINE p == [q EXCEPT !.pc = "gs"]
  <2>1. r = [p EXCEPT !.isa = k]
    <3>1. Following[scope] = "gs"
      BY <1>3 DEF Following
    <3> QED BY <1>3, <3>1, Zenon DEF AfterDraw
  <2>2. r = [pc |-> "gs", job |-> job, body |-> body,
             isa |-> k, gs |-> gs, st |-> st]
    <3>1. p = [pc |-> "gs", job |-> job, body |-> body, isa |-> isa, gs |-> gs, st |-> st]
      BY <1>2
    <3> HIDE DEF p
    <3> QED BY <2>1, <3>1
  <2>3. /\ Past("isa") \cup {"isa"} = Past("gs") /\ "isa" \notin Past("isa")
        /\ "gs" \in Numbered \cup {"sent", "failed"}
    BY DEF Past, Numbered
  <2>4. /\ r["isa"] = k /\ r["gs"] = gs /\ r["st"] = st
        /\ r.pc = "gs"
    BY <2>2
  <2>5. \A other \in Numbered \ {scope} : r[other] = q[other]
    BY <1>1, <1>3, <2>4 DEF Numbered
  <2>6. /\ \A s \in Numbered : r[s] \in Nat
        /\ \A s \in Numbered : r[s] # 0 <=> s \in Past(r.pc)
    BY <1>1, <1>3, <2>3, <2>4, <2>5 DEF Numbered
  <2>7. r = [pc |-> r.pc, job |-> r.job, body |-> r.body,
             isa |-> r.isa, gs |-> r.gs, st |-> r.st]
    BY <2>2
  <2>8. IsEmission(r)
    BY <2>3, <2>4, <2>6, <2>7 DEF IsEmission
  <2> QED BY <1>1, <1>3, <2>3, <2>4, <2>5, <2>8 DEF Numbered
<1>4. CASE scope = "gs"
  <2> DEFINE p == [q EXCEPT !.pc = "st"]
  <2>1. r = [p EXCEPT !.gs = k]
    <3>1. Following[scope] = "st"
      BY <1>4 DEF Following
    <3> QED BY <1>4, <3>1, Zenon DEF AfterDraw
  <2>2. r = [pc |-> "st", job |-> job, body |-> body,
             isa |-> isa, gs |-> k, st |-> st]
    <3>1. p = [pc |-> "st", job |-> job, body |-> body, isa |-> isa, gs |-> gs, st |-> st]
      BY <1>2
    <3> HIDE DEF p
    <3> QED BY <2>1, <3>1
  <2>3. /\ Past("gs") \cup {"gs"} = Past("st") /\ "gs" \notin Past("gs")
        /\ "st" \in Numbered \cup {"sent", "failed"}
    BY DEF Past, Numbered
  <2>4. /\ r["gs"] = k /\ r["isa"] = isa /\ r["st"] = st
        /\ r.pc = "st"
    BY <2>2
  <2>5. \A other \in Numbered \ {scope} : r[other] = q[other]
    BY <1>1, <1>4, <2>4 DEF Numbered
  <2>6. /\ \A s \in Numbered : r[s] \in Nat
        /\ \A s \in Numbered : r[s] # 0 <=> s \in Past(r.pc)
    BY <1>1, <1>4, <2>3, <2>4, <2>5 DEF Numbered
  <2>7. r = [pc |-> r.pc, job |-> r.job, body |-> r.body,
             isa |-> r.isa, gs |-> r.gs, st |-> r.st]
    BY <2>2
  <2>8. IsEmission(r)
    BY <2>3, <2>4, <2>6, <2>7 DEF IsEmission
  <2> QED BY <1>1, <1>4, <2>3, <2>4, <2>5, <2>8 DEF Numbered
<1>5. CASE scope = "st"
  <2> DEFINE p == [q EXCEPT !.pc = "sent"]
  <2>1. r = [p EXCEPT !.st = k]
    <3>1. Following[scope] = "sent"
      BY <1>5 DEF Following
    <3> QED BY <1>5, <3>1, Zenon DEF AfterDraw
  <2>2. r = [pc |-> "sent", job |-> job, body |-> body,
             isa |-> isa, gs |-> gs, st |-> k]
    <3>1. p = [pc |-> "sent", job |-> job, body |-> body, isa |-> isa, gs |-> gs, st |-> st]
      BY <1>2
    <3> HIDE DEF p
    <3> QED BY <2>1, <3>1
  <2>3. /\ Past("st") \cup {"st"} = Past("sent") /\ "st" \notin Past("st")
        /\ "sent" \in Numbered \cup {"sent", "failed"}
    BY DEF Past, Numbered
  <2>4. /\ r["st"] = k /\ r["isa"] = isa /\ r["gs"] = gs
        /\ r.pc = "sent"
    BY <2>2
  <2>5. \A other \in Numbered \ {scope} : r[other] = q[other]
    BY <1>1, <1>5, <2>4 DEF Numbered
  <2>6. /\ \A s \in Numbered : r[s] \in Nat
        /\ \A s \in Numbered : r[s] # 0 <=> s \in Past(r.pc)
    BY <1>1, <1>5, <2>3, <2>4, <2>5 DEF Numbered
  <2>7. r = [pc |-> r.pc, job |-> r.job, body |-> r.body,
             isa |-> r.isa, gs |-> r.gs, st |-> r.st]
    BY <2>2
  <2>8. IsEmission(r)
    BY <2>3, <2>4, <2>6, <2>7 DEF IsEmission
  <2> QED BY <1>1, <1>5, <2>3, <2>4, <2>5, <2>8 DEF Numbered
<1> QED BY <1>3, <1>4, <1>5 DEF Numbered

(* A number that is drawn is the next one, and its emission had none.      *)
LEMMA DrawKeepsNumbers ==
    ASSUME EmissionInv, NEW e \in DOMAIN emissions, NEW scope \in Numbered,
           DrawNumber(e, scope)
    PROVE  EmissionInv'
<1> DEFINE n == Len(emissions)
           k == counted[scope] + 1
           q == emissions[e]
           r == AfterDraw(q, scope, k)
<1>1. /\ n \in Nat /\ DOMAIN emissions = 1..n /\ e \in 1..n
      /\ emissions = [f \in 1..n |-> emissions[f]]
      /\ IsEmission(q) /\ q.pc = scope
      /\ counted \in [Numbered -> Nat] /\ counted[scope] \in Nat /\ k \in Nat \ {0}
  BY DEF EmissionInv, IsListed, DrawNumber
<1>2. emissions' = [emissions EXCEPT ![e] = r] /\ counted' = [counted EXCEPT ![scope] = k]
  BY DEF DrawNumber, AfterDraw
<1>3. /\ IsEmission(r) /\ r[scope] = k /\ q[scope] = 0
      /\ \A other \in Numbered \ {scope} : r[other] = q[other]
  <2> HIDE DEF k, q, r
  <2>1. r = AfterDraw(q, scope, k)
    BY DEF r
  <2> QED BY <1>1, <2>1, DrawnNumber
<1> HIDE DEF r, n
<1>4. /\ emissions' = [f \in 1..n |-> IF f = e THEN r ELSE emissions[f]]
      /\ DOMAIN emissions' = 1..n /\ emissions'[e] = r
      /\ \A f \in 1..n \ {e} : emissions'[f] = emissions[f]
  BY <1>1, <1>2
<1>5. IsListed(emissions') /\ \A f \in DOMAIN emissions' : IsEmission(emissions'[f])
  <2>1. IsListed(emissions')
    BY <1>1, <1>4 DEF IsListed
  <2> QED BY <1>1, <1>3, <1>4, <2>1 DEF EmissionInv
<1>6. /\ counted' \in [Numbered -> Nat] /\ counted'[scope] = k
      /\ \A other \in Numbered \ {scope} : counted'[other] = counted[other]
  BY <1>1, <1>2
<1>7. ASSUME NEW other \in Numbered
      PROVE  /\ \A f \in 1..n : emissions[f][other] \in 0..counted[other]
             /\ \A f, g \in 1..n :
                   emissions[f][other] # 0 /\ emissions[f][other] = emissions[g][other]
                   => f = g
             /\ \A m \in 1..counted[other] : \E f \in 1..n : emissions[f][other] = m
  BY <1>1 DEF EmissionInv, OnePerNumber
<1>8. ASSUME NEW other \in Numbered \ {scope}
      PROVE  \A f \in 1..n : emissions'[f][other] = emissions[f][other]
  BY <1>3, <1>4
<1>9. ASSUME NEW other \in Numbered \ {scope}
      PROVE  /\ \A f \in 1..n : emissions'[f][other] \in 0..counted'[other]
             /\ \A f, g \in 1..n :
                   emissions'[f][other] # 0 /\ emissions'[f][other] = emissions'[g][other]
                   => f = g
             /\ \A m \in 1..counted'[other] : \E f \in 1..n : emissions'[f][other] = m
  BY <1>6, <1>7, <1>8
<1>10. \A f \in 1..n : emissions'[f][scope] = IF f = e THEN k ELSE emissions[f][scope]
  BY <1>3, <1>4
<1>11. \A f \in 1..n : emissions'[f][scope] \in 0..counted'[scope]
  BY <1>1, <1>6, <1>7, <1>10
<1>12. ASSUME NEW f \in 1..n, NEW g \in 1..n,
              emissions'[f][scope] # 0, emissions'[f][scope] = emissions'[g][scope]
       PROVE  f = g
  <2>1. \A h \in 1..n : emissions[h][scope] # k
    BY <1>1, <1>7
  <2> QED BY <1>7, <1>10, <1>12, <2>1
<1>13. ASSUME NEW m \in 1..counted'[scope]
       PROVE  \E f \in 1..n : emissions'[f][scope] = m
  <2>1. CASE m = k
    BY <1>1, <1>10, <2>1
  <2>2. CASE m # k
    <3>1. m \in 1..counted[scope]
      BY <1>1, <1>6, <2>2
    <3>2. PICK f \in 1..n : emissions[f][scope] = m
      BY <1>7, <3>1
    <3>3. f # e
      BY <1>3, <3>1, <3>2
    <3> QED BY <1>10, <3>2, <3>3
  <2> QED BY <2>1, <2>2
<1>14. OnePerNumber(emissions', counted')
  <2> SUFFICES ASSUME NEW other \in Numbered
               PROVE  /\ \A f \in 1..n : emissions'[f][other] \in 0..counted'[other]
                      /\ \A f, g \in 1..n :
                            /\ emissions'[f][other] # 0
                            /\ emissions'[f][other] = emissions'[g][other]
                            => f = g
                      /\ \A m \in 1..counted'[other] :
                            \E f \in 1..n : emissions'[f][other] = m
    BY <1>4 DEF OnePerNumber
  <2>1. CASE other = scope
    BY <1>11, <1>12, <1>13, <2>1
  <2>2. CASE other # scope
    BY <1>9, <2>2
  <2> QED BY <2>1, <2>2
<1> QED BY <1>5, <1>6, <1>14 DEF EmissionInv

LEMMA EmissionStep == EmissionInv /\ [EmissionNext]_emissionVars => EmissionInv'
<1> SUFFICES ASSUME EmissionInv, [EmissionNext]_emissionVars
             PROVE  EmissionInv'
  OBVIOUS
<1>1. ASSUME NEW job, StartEmission(job)
      PROVE  EmissionInv'
  BY <1>1, StartKeepsNumbers
<1>2. ASSUME NEW e \in DOMAIN emissions, NEW scope \in DOMAIN counted, DrawNumber(e, scope)
      PROVE  EmissionInv'
  <2>1. scope \in Numbered
    BY DEF EmissionInv
  <2> QED BY <1>2, <2>1, DrawKeepsNumbers
<1>3. CASE UNCHANGED emissionVars
  BY <1>3 DEF emissionVars, EmissionInv, IsListed, OnePerNumber
<1> QED BY <1>1, <1>2, <1>3 DEF EmissionNext

(* The inductive invariant of the emissions of a payload holds throughout. *)
THEOREM EmissionInvHolds == EmissionSpec => []EmissionInv
<1>1. EmissionInit => EmissionInv
  BY EmissionInvStarts
<1>2. EmissionInv /\ [EmissionNext]_emissionVars => EmissionInv'
  BY EmissionStep
<1> QED BY <1>1, <1>2, PTL DEF EmissionSpec

JobsKnown ==
    \A e \in DOMAIN emissions : \E payload \in Payloads : emissions[e].job \in ToSet(payload)

(* Each emission is of a document of a payload and has the numbers of its  *)
(* stage, in every reachable state.                                        *)
THEOREM EmissionTypes == EmissionSpec => []EmissionTypeOK
<1>1. EmissionInit => JobsKnown
  BY DEF EmissionInit, JobsKnown
<1>2. EmissionInv /\ JobsKnown /\ [EmissionNext]_emissionVars => JobsKnown'
  <2> SUFFICES ASSUME EmissionInv, JobsKnown, [EmissionNext]_emissionVars
               PROVE  JobsKnown'
    OBVIOUS
  <2>1. ASSUME NEW payload \in Payloads, NEW job \in ToSet(payload), StartEmission(job)
        PROVE  JobsKnown'
    <3> DEFINE n == Len(emissions)
               new == [pc |-> IF Rejected(job) THEN "failed" ELSE "isa", job |-> job,
                       body |-> Translation(job), isa |-> 0, gs |-> 0, st |-> 0]
    <3>1. emissions' = Append(emissions, new) /\ new.job = job /\ IsListed(emissions)
      BY <2>1 DEF StartEmission, EmissionInv
    <3> HIDE DEF new
    <3>2. /\ n \in Nat /\ DOMAIN emissions = 1..n /\ DOMAIN emissions' = 1..(n + 1)
          /\ emissions'[n + 1] = new
          /\ \A e \in 1..n : emissions'[e] = emissions[e]
      BY <3>1, ListedLonger DEF IsListed
    <3> HIDE DEF n
    <3>3. \A e \in 1..(n + 1) : e \in 1..n \/ e = n + 1
      BY <3>2
    <3> QED BY <3>1, <3>2, <3>3 DEF JobsKnown
  <2>2. ASSUME NEW e \in DOMAIN emissions, NEW scope \in DOMAIN counted, DrawNumber(e, scope)
        PROVE  JobsKnown'
    <3> DEFINE q == emissions[e]
               r == AfterDraw(q, scope, counted[scope] + 1)
    <3>1. q = [pc |-> q.pc, job |-> q.job, body |-> q.body,
               isa |-> q.isa, gs |-> q.gs, st |-> q.st]
      BY DEF EmissionInv, IsEmission
    <3>2. scope # "job"
      BY DEF EmissionInv, Numbered
    <3>3. r.job = q.job
      <4> HIDE DEF q
      <4> QED BY <3>1, <3>2 DEF AfterDraw
    <3>4. emissions' = [emissions EXCEPT ![e] = r]
      BY <2>2 DEF DrawNumber, AfterDraw
    <3> HIDE DEF r
    <3> QED BY <3>3, <3>4 DEF JobsKnown
  <2>3. CASE UNCHANGED emissionVars
    BY <2>3 DEF emissionVars, JobsKnown
  <2> QED BY <2>1, <2>2, <2>3 DEF EmissionNext
<1>3. EmissionInv /\ JobsKnown => EmissionTypeOK
  BY DEF EmissionInv, JobsKnown, EmissionTypeOK, OnePerNumber, IsEmission, Numbered
<1> QED BY <1>1, <1>2, <1>3, EmissionInvHolds, PTL DEF EmissionSpec

(* Two numbers with the same last digits are a cycle apart.                *)
LEMMA CycleApart ==
    ASSUME NEW m \in Nat \ {0}, NEW a \in Nat, NEW b \in Nat, a < b, a % m = b % m
    PROVE  b - a >= m
<1> DEFINE i == a \div m
           j == b \div m
           u == a % m
<1>1. /\ i \in Nat /\ j \in Nat /\ u \in Nat
      /\ a = m * i + u /\ b = m * j + u
  OBVIOUS
<1> HIDE DEF i, j, u
<1>2. j > i
  <2>1. ASSUME j <= i PROVE FALSE
    <3>1. m * j <= m * i
      BY <1>1, <2>1
    <3> QED BY <1>1, <3>1
  <2> QED BY <1>1, <2>1
<1> DEFINE d == j - i
<1>3. d \in Nat \ {0} /\ j = i + d
  BY <1>1, <1>2
<1> HIDE DEF d
<1>4. m * j = m * i + m * d /\ m * d >= m
  BY <1>1, <1>3
<1> QED BY <1>1, <1>4

(* However the draws of the documents of a payload interleave, their       *)
(* numbers run without a gap, no two interchanges share one, and a padded  *)
(* ISA13 repeats only after a whole cycle.                                 *)
THEOREM NumbersTell == EmissionSpec => []NumbersTellInterchangesApart
<1>1. EmissionInv => NumbersTellInterchangesApart
  <2> SUFFICES ASSUME EmissionInv
               PROVE  NumbersTellInterchangesApart
    OBVIOUS
  <2> DEFINE going == {e \in DOMAIN emissions : emissions[e].pc # "failed"}
  <2>1. /\ DOMAIN counted = Numbered
        /\ \A e \in DOMAIN emissions : IsEmission(emissions[e])
        /\ \A scope \in Numbered : counted[scope] \in Nat
    BY DEF EmissionInv
  <2>2. ASSUME NEW scope \in Numbered
        PROVE  /\ \A e \in DOMAIN emissions : emissions[e][scope] \in 0..counted[scope]
               /\ \A e, f \in DOMAIN emissions :
                     emissions[e][scope] # 0 /\ emissions[e][scope] = emissions[f][scope]
                     => e = f
               /\ \A k \in 1..counted[scope] :
                     \E e \in DOMAIN emissions : emissions[e][scope] = k
    BY DEF EmissionInv, OnePerNumber
  <2>3. ASSUME NEW e \in DOMAIN emissions, NEW scope \in Numbered
        PROVE  /\ emissions[e].pc = "failed" => emissions[e][scope] = 0
               /\ emissions[e].pc = "sent" => emissions[e][scope] # 0
    BY <2>1 DEF IsEmission, Past
  <2>4. ASSUME NEW scope \in Numbered
        PROVE  {emissions[e][scope] : e \in going} \ {0} = 1..counted[scope]
    BY <2>1, <2>2, <2>3
  <2>5. ASSUME NEW e \in Sent, NEW f \in Sent, NEW scope \in Numbered, e # f
        PROVE  emissions[e][scope] # emissions[f][scope]
    BY <2>2, <2>3, <2>5 DEF Sent
  <2>6. ASSUME NEW e \in Sent, NEW f \in Sent,
               ControlOf(e).isa13 = ControlOf(f).isa13, emissions[e].isa < emissions[f].isa
        PROVE  emissions[f].isa - emissions[e].isa >= Modulus.isa
    <3>1. emissions[e].isa \in Nat /\ emissions[f].isa \in Nat
      BY <2>1 DEF Sent, IsEmission, Numbered
    <3>2. emissions[e].isa % Modulus.isa = emissions[f].isa % Modulus.isa
      BY <2>6 DEF ControlOf, Padded
    <3> QED BY <2>6, <3>1, <3>2, CycleApart, ModulusAssumption
  <2> QED BY <2>1, <2>4, <2>5, <2>6 DEF NumbersTellInterchangesApart
<1> QED BY <1>1, EmissionInvHolds, PTL
===============================================================================
