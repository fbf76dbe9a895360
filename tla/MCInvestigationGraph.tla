----------------------- MODULE MCInvestigationGraph -----------------------
(* InvestigationGraph for TLC: the constants are in the .cfg files. *)
EXTENDS InvestigationGraph

\* The LLM may propose any list.
AnyList == UNION {[1 .. n -> ActionTypes] : n \in 1 .. MaxProposals}

===========================================================================
