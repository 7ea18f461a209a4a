----------------------------- MODULE MCMultiSig -----------------------------
(* MultiSig with interchangeable signers and calls.                        *)
EXTENDS MultiSig, TLC

Symmetry == Permutations(Signers) \cup Permutations(Voters)

=============================================================================
