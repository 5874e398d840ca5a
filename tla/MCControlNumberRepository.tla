----------------------- MODULE MCControlNumberRepository -----------------------
(* Instances of ControlNumberRepository for TLC: an interchange draws from  *)
(* three sequences.                                                         *)
EXTENDS ControlNumberRepository

CONSTANTS Isa, Gs, St

IsaGsSt == <<Isa, Gs, St>>
===============================================================================
