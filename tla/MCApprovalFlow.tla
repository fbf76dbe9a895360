--------------------------- MODULE MCApprovalFlow ---------------------------
(***************************************************************************)
(* Lists of proposals: an action that may run by itself, one that needs    *)
(* approval, or both (the cause then decides which of them is selected).   *)
(***************************************************************************)
EXTENDS ApprovalFlow, TLC

SingleLists == {<<RESET>>, <<RESTART>>}
MixedLists == {<<RESTART>>, <<RESET, RESTART>>}

\* Safety only: threads are alike, and so are operators.
Symmetry == Permutations(Threads) \union Permutations(Operators)

=============================================================================
