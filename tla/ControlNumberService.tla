------------------------- MODULE ControlNumberService -------------------------
(***************************************************************************)
(* What ControlNumberService promises: per scope (the ISA13, GS06 and ST02 *)
(* sequences of a relationship) every caller is given the next number, one *)
(* caller at a time.                                                       *)
(***************************************************************************)
EXTENDS Naturals

CONSTANTS Callers, Scopes

VARIABLES last,    \* the highest number given in each scope
          given    \* the number each caller was given, 0 before

Init ==
    /\ last = [s \in Scopes |-> 0]
    /\ given = [c \in Callers |-> [s \in Scopes |-> 0]]

Give(c, s) ==
    /\ given[c][s] = 0
    /\ last' = [last EXCEPT ![s] = @ + 1]
    /\ given' = [given EXCEPT ![c][s] = last[s] + 1]

Next == \E c \in Callers, s \in Scopes : Give(c, s)

Spec == Init /\ [][Next]_<<last, given>>
===============================================================================
