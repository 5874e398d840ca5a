--------------------------- MODULE MCInboundPipeline ---------------------------
(* Instances of InboundPipeline for TLC.  The batch has two groups: one of  *)
(* two sets, of which the second may be rejected, and one of a single set.  *)
(* Its resend differs in form; the other version reuses its control number. *)
EXTENDS InboundPipeline, TLC

CONSTANTS Isa1, Isa2, Batch, Other, Faulty, Empty, Unix, Dos

Doc(isa, content, form) == [isa |-> isa, content |-> content, form |-> form]
Set(ref, verdicts) == [ref |-> ref, verdicts |-> verdicts]

MCContents ==
    [c \in {Batch, Other, Faulty, Empty} |->
        CASE c = Batch ->
               <<[ackable |-> TRUE,
                  sets |-> <<Set("850/0001", {"conforms"}),
                             Set("850/0002", {"conforms", "fails"})>>],
                 [ackable |-> TRUE,
                  sets |-> <<Set("860/0001", {"conforms", "fails"})>>]>>
          [] c = Other ->
               <<[ackable |-> TRUE, sets |-> <<Set("850/0001", {"conforms"})>>]>>
          [] c = Faulty ->
               <<[ackable |-> TRUE,
                  sets |-> <<Set("850/0001", {"conforms"}),
                             Set("999/0002", {"throws", "fails"})>>],
                 [ackable |-> FALSE, sets |-> <<>>]>>
          [] c = Empty ->
               <<[ackable |-> TRUE, sets |-> <<>>]>>]

GroupsOfThese == [c \in {p.content : p \in Payloads} |-> MCContents[c]]

Versions == {Doc(Isa1, Batch, Unix), Doc(Isa1, Batch, Dos), Doc(Isa1, Other, Unix)}
AllKinds == Versions \cup {Doc(Isa2, Faulty, Unix), Doc(Isa2, Empty, Unix)}
Resent == {Doc(Isa1, Other, Unix)}
ResentFaulty == {Doc(Isa1, Faulty, Unix)}

HandlerSymmetry == Permutations(Handlers)
===============================================================================
