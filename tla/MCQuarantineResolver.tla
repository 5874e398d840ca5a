------------------------- MODULE MCQuarantineResolver -------------------------
(* Instances of QuarantineResolver for TLC.  The pair has two sets in one   *)
(* group, the second rejected until the map is fixed.  The twin has the     *)
(* same ST02 in two groups, as X12 allows.  The rival reuses the pair's     *)
(* interchange control number.                                              *)
EXTENDS QuarantineResolver, TLC

CONSTANTS Isa1, Pair, Twin, Rival, Unix

Doc(content) == [isa |-> Isa1, content |-> content, form |-> Unix]
Set(ref, verdicts) == [ref |-> ref, verdicts |-> verdicts]
OneGroup(sets) == <<[ackable |-> TRUE, sets |-> sets]>>

MCContents ==
    [c \in {Pair, Twin, Rival} |->
        CASE c = Pair ->
               OneGroup(<<Set("850/0001", {"conforms"}),
                          Set("850/0002", {"conforms", "fails"})>>)
          [] c = Twin ->
               OneGroup(<<Set("850/0001", {"conforms"})>>) \o
               OneGroup(<<Set("850/0001", {"conforms", "fails"})>>)
          [] c = Rival ->
               OneGroup(<<Set("850/0001", {"conforms", "fails"})>>)]

GroupsOfThese == [c \in {p.content : p \in Payloads} |-> MCContents[c]]

Conflicting == {Doc(Pair), Doc(Rival)}
OnlyRival == {Doc(Rival)}
OnlyTwin == {Doc(Twin)}

HandlerSymmetry == Permutations(Handlers)
===============================================================================
