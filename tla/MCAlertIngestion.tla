-------------------------- MODULE MCAlertIngestion --------------------------
(* AlertIngestion for TLC: requests are alike. *)
EXTENDS AlertIngestion, TLC

Symmetry == Permutations(Requests)

=============================================================================
