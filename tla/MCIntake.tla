------------------------------- MODULE MCIntake -------------------------------
(* Instances of Intake for TLC: one interchange, its resend with other line *)
(* ends, the same control number on another content, and a payload without  *)
(* an interchange identity.                                                 *)
EXTENDS Intake, TLC

CONSTANTS Isa1, OrderA, OrderB, Json, Unix, Dos

MCPayloads == {[isa |-> Isa1, content |-> OrderA, form |-> Unix],
               [isa |-> Isa1, content |-> OrderA, form |-> Dos],
               [isa |-> Isa1, content |-> OrderB, form |-> Unix],
               [isa |-> NoIsa, content |-> Json, form |-> Unix]}

HandlerSymmetry == Permutations(Handlers)
===============================================================================
