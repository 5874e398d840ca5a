------------------------ MODULE ControlNumberRepository ------------------------
(***************************************************************************)
(* The durable control-number sequences of a trading relationship.  Every  *)
(* interchange that is sent (a document by emitDocument, a 997 by          *)
(* buildGroupAck) draws one number from each of the same sequences, in the *)
(* same order, each in a database transaction of its own: an upsert, a     *)
(* read and the commit, between which other senders run.  The upsert holds *)
(* the lock of its row until its transaction ends.                         *)
(***************************************************************************)
EXTENDS Naturals, Sequences, FiniteSets

CONSTANTS
    Senders,     \* interchanges being built
    Order,       \* the scopes an interchange draws from, in order: isa, gs, st
    NoSender,
    MaxStops     \* bound: senders that stop before they end

ASSUME OrderAssumption ==
    /\ Order \in Seq({Order[n] : n \in DOMAIN Order})
    /\ \A m, n \in DOMAIN Order : Order[m] = Order[n] => m = n
ASSUME SendersAssumption == NoSender \notin Senders
ASSUME MaxStopsAssumption == MaxStops \in Nat

Scopes == {Order[n] : n \in DOMAIN Order}

VARIABLES
    committed,   \* current_value of each scope's committed row, 0 before there is one
    holder,      \* the sender whose open transaction has locked the row
    pending,     \* current_value as that transaction has written it
    phase,       \* where each sender is in its present call of next
    turn,        \* which of the sequences that call is for
    read,        \* the value the call has selected
    drawn,       \* the number that call's transaction committed, 0 before
    stopped      \* senders that crashed or whose statement was rejected

numberVars == <<committed, holder, pending, phase, turn, read, drawn, stopped>>

-------------------------------------------------------------------------------
Init ==
    /\ committed = [s \in Scopes |-> 0]
    /\ holder = [s \in Scopes |-> NoSender]
    /\ pending = [s \in Scopes |-> 0]
    /\ phase = [c \in Senders |-> "calls"]
    /\ turn = [c \in Senders |-> 1]
    /\ read = [c \in Senders |-> 0]
    /\ drawn = [c \in Senders |-> [s \in Scopes |-> 0]]
    /\ stopped = {}

Drawing(c) == c \notin stopped /\ turn[c] \in DOMAIN Order
Scope(c) == Order[turn[c]]

(* What a statement of c sees in the row: its own write, else what is      *)
(* committed.                                                              *)
Visible(c, s) == IF holder[s] = c THEN pending[s] ELSE committed[s]

(* A fault of the upsert: it commits on its own.                          *)
UpsertOutsideTransaction(c) ==
    /\ Drawing(c)
    /\ phase[c] = "calls"
    /\ committed' = [committed EXCEPT ![Scope(c)] = @ + 1]
    /\ phase' = [phase EXCEPT ![c] = "upserted"]
    /\ UNCHANGED <<holder, pending, turn, read, drawn, stopped>>

(* INSERT current_value = 1 ON CONFLICT current_value + 1.  A row another  *)
(* transaction has written makes the statement wait for that transaction.  *)
Upsert(c) ==
    /\ Drawing(c)
    /\ phase[c] = "calls"
    /\ holder[Scope(c)] = NoSender
    /\ holder' = [holder EXCEPT ![Scope(c)] = c]
    /\ pending' = [pending EXCEPT ![Scope(c)] = committed[Scope(c)] + 1]
    /\ phase' = [phase EXCEPT ![c] = "upserted"]
    /\ UNCHANGED <<committed, turn, read, drawn, stopped>>

Select(c) ==
    /\ Drawing(c)
    /\ phase[c] = "upserted"
    /\ read' = [read EXCEPT ![c] = Visible(c, Scope(c))]
    /\ phase' = [phase EXCEPT ![c] = "selected"]
    /\ UNCHANGED <<committed, holder, pending, turn, drawn, stopped>>

(* A fault of the read: it gives the value from before the upsert.         *)
CommitOfOldValue(c) ==
    /\ Drawing(c)
    /\ phase[c] = "selected"
    /\ committed' = [committed EXCEPT ![Scope(c)] = Visible(c, Scope(c))]
    /\ holder' = [holder EXCEPT ![Scope(c)] = NoSender]
    /\ drawn' = [drawn EXCEPT ![c][Scope(c)] = committed[Scope(c)]]
    /\ phase' = [phase EXCEPT ![c] = "committed"]
    /\ UNCHANGED <<pending, turn, read, stopped>>

(* The transaction ends; its number now belongs to this call.              *)
Commit(c) ==
    /\ Drawing(c)
    /\ phase[c] = "selected"
    /\ committed' = [committed EXCEPT ![Scope(c)] = Visible(c, Scope(c))]
    /\ holder' = [holder EXCEPT ![Scope(c)] = NoSender]
    /\ drawn' = [drawn EXCEPT ![c][Scope(c)] = read[c]]
    /\ phase' = [phase EXCEPT ![c] = "committed"]
    /\ UNCHANGED <<pending, turn, read, stopped>>

(* A fault of the sender: it leaves a sequence out.                        *)
ReturnSkipping(c) ==
    /\ Drawing(c)
    /\ phase[c] = "committed"
    /\ turn' = [turn EXCEPT ![c] = @ + 2]
    /\ phase' = [phase EXCEPT ![c] = "calls"]
    /\ UNCHANGED <<committed, holder, pending, read, drawn, stopped>>

(* next resolves, and the sender calls it for the next sequence.           *)
Return(c) ==
    /\ Drawing(c)
    /\ phase[c] = "committed"
    /\ turn' = [turn EXCEPT ![c] = @ + 1]
    /\ phase' = [phase EXCEPT ![c] = "calls"]
    /\ UNCHANGED <<committed, holder, pending, read, drawn, stopped>>

(* A fault of the rollback: the lock stays.                                *)
RollbackKeepingLock(c) ==
    /\ Drawing(c)
    /\ Cardinality(stopped) < MaxStops
    /\ stopped' = stopped \cup {c}
    /\ UNCHANGED <<committed, holder, pending, phase, turn, read, drawn>>

(* The sender's process dies or a statement is rejected: the database      *)
(* rolls the open transaction back, and the interchange is not built.      *)
Rollback(c) ==
    /\ Drawing(c)
    /\ Cardinality(stopped) < MaxStops
    /\ stopped' = stopped \cup {c}
    /\ holder' = [s \in Scopes |-> IF holder[s] = c THEN NoSender ELSE holder[s]]
    /\ UNCHANGED <<committed, pending, phase, turn, read, drawn>>

Draw(c) == Upsert(c) \/ Select(c) \/ Commit(c) \/ Return(c)

Next == \E c \in Senders : Draw(c) \/ Rollback(c)

Spec == Init /\ [][Next]_numberVars

(* The database grants a row lock that stays free, and an open transaction *)
(* goes on unless its process stops, which releases it.                    *)
FairSpec == Spec /\ \A c \in Senders : WF_numberVars(Draw(c))

-------------------------------------------------------------------------------
Phases == {"calls", "upserted", "selected", "committed"}

(* Types of the sequences' state.                                          *)
TypeOK ==
    /\ committed \in [Scopes -> Nat]
    /\ holder \in [Scopes -> Senders \cup {NoSender}]
    /\ pending \in [Scopes -> Nat]
    /\ phase \in [Senders -> Phases]
    /\ turn \in [Senders -> 1..(Len(Order) + 1)]
    /\ read \in [Senders -> Nat]
    /\ drawn \in [Senders -> [Scopes -> Nat]]
    /\ stopped \subseteq Senders

(* An open transaction has locked the row of the sequence its sender is    *)
(* drawing from, and has written the next number there.                    *)
LocksMatchTransactions ==
    \A c \in Senders, s \in Scopes :
        holder[s] = c <=> /\ Drawing(c)
                          /\ Scope(c) = s
                          /\ phase[c] \in {"upserted", "selected"}

OpenWriteIsNext ==
    \A c \in Senders : \A s \in Scopes : holder[s] = c =>
        /\ pending[s] = committed[s] + 1
        /\ phase[c] = "selected" => read[c] = pending[s]

(* A sender has drawn from the sequences before its present one only.      *)
DrawnInOrder ==
    \A c \in Senders, n \in DOMAIN Order :
        /\ drawn[c][Order[n]] # 0 <=> n < turn[c] \/ (n = turn[c] /\ phase[c] = "committed")
        /\ drawn[c][Order[n]] <= committed[Order[n]]

(* Why numbers cannot be drawn twice: between a sender's upsert and its    *)
(* commit nobody else can write the row, so what it reads is one more than *)
(* all that was drawn.                                                     *)
RowLockInv == LocksMatchTransactions /\ OpenWriteIsNext /\ DrawnInOrder

(* No two interchanges carry the same number of a sequence, however their  *)
(* transactions interleave and whichever of them roll back: "each caller   *)
(* gets a distinct, monotonic value even under concurrency"                *)
(* (control-number.repository.ts:8).                                       *)
NumbersDistinct ==
    \A c, d \in Senders : \A s \in Scopes :
        drawn[c][s] # 0 /\ drawn[c][s] = drawn[d][s] => c = d

(* Every number up to the current value was drawn by somebody: a           *)
(* transaction that is rolled back leaves no gap, which a partner would    *)
(* take for a lost interchange.                                            *)
NumbersDense ==
    \A s \in Scopes : 1..committed[s] \subseteq {drawn[c][s] : c \in Senders}

(* The sequence of a scope as a partner may rely on it.                    *)
NumbersDistinctAndDense == NumbersDistinct /\ NumbersDense

(* The promise of the service, one number at a time: the transaction's     *)
(* commit is the point at which a number is given.                         *)
Service == INSTANCE ControlNumberService
           WITH Callers <- Senders, last <- committed, given <- drawn
ImplementsControlNumberService == Service!Spec

(* The row locks cannot hold anybody up for good: every sender gets all    *)
(* its numbers unless it stops.                                            *)
EverySenderServed ==
    \A c \in Senders : <>(c \in stopped \/ turn[c] = Len(Order) + 1)
===============================================================================
