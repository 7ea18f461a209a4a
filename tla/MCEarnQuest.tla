---------------------------- MODULE MCEarnQuest ----------------------------
(***************************************************************************)
(* Small instances of EarnQuest for TLC.                                   *)
(***************************************************************************)
EXTENDS EarnQuestProperties, TLC

\* The submitters of the instances play the same role.
SubmitterSymmetry == Permutations(Submitters)

QuestSymmetry == Permutations(Quests)

Symmetry == SubmitterSymmetry \cup QuestSymmetry
=============================================================================
