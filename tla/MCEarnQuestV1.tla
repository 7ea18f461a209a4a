---------------------------- MODULE MCEarnQuestV1 ----------------------------
(* EarnQuestV1 with interchangeable quests.                                *)
EXTENDS EarnQuestV1, TLC

Symmetry == Permutations(Quests)

=============================================================================
