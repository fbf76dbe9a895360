----------------------------- MODULE MCJobQueue -----------------------------
(* JobQueue as TLC checks it. *)
EXTENDS JobQueue
=============================================================================
