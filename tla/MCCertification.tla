---------------------------- MODULE MCCertification ----------------------------
(* Instances of Certification for TLC: a relationship that exchanges orders *)
(* (the anchor) and acknowledgments (a blocking response).  One upload      *)
(* answers the sample, one is well-formed for another order, one is not     *)
(* well-formed.                                                             *)
EXTENDS Certification, TLC

CONSTANTS Good, WrongOrder, Malformed, Gold

AnchorAndResponse == <<"anchor", "response">>
MCAnswers == [u \in Uploads |-> IF u = Good THEN Samples ELSE {}]

HandlerSymmetry == Permutations(Handlers)
===============================================================================
