---------------------------- MODULE MCQuestCache ----------------------------
(* QuestCache with interchangeable calls.                                  *)
EXTENDS QuestCache, TLC

Symmetry == Permutations(Readers) \cup Permutations(Writers)

=============================================================================
