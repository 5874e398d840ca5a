--------------------------- MODULE IdempotentIntake ---------------------------
(***************************************************************************)
(* What DedupStore promises its callers: register is one atomic            *)
(* check-and-record.  The first receipt of an identity is accepted and     *)
(* every later one is told, against that accepted content, that it is an   *)
(* exact resend or a conflict.                                             *)
(***************************************************************************)
CONSTANTS Receipts, Identities, Contents

VARIABLE answers   \* set of [of, key, content, verdict]

Answer == [of : Receipts, key : Identities, content : Contents,
           verdict : {"accepted", "duplicate", "conflict"}]

Accepted(k) == {a \in answers : a.key = k /\ a.verdict = "accepted"}

Init == answers = {}

Say(h, k, c, v) ==
    /\ \A a \in answers : a.of # h
    /\ answers' = answers \cup {[of |-> h, key |-> k, content |-> c, verdict |-> v]}

Accept(h, k, c) ==
    /\ \A a \in answers : a.key # k
    /\ Say(h, k, c, "accepted")

Duplicate(h, k, c) ==
    /\ \E a \in Accepted(k) : a.content = c
    /\ Say(h, k, c, "duplicate")

Conflict(h, k, c) ==
    /\ \E a \in Accepted(k) : a.content # c
    /\ Say(h, k, c, "conflict")

Next == \E h \in Receipts, k \in Identities, c \in Contents :
           Accept(h, k, c) \/ Duplicate(h, k, c) \/ Conflict(h, k, c)

Spec == Init /\ [][Next]_answers
===============================================================================
