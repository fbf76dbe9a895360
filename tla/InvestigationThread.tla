------------------------ MODULE InvestigationThread ------------------------
(***************************************************************************)
(* An investigation thread as its callers see it: invocations, one after   *)
(* the other, each of which takes the thread from where it stands to one   *)
(* of the outcomes it may have, or dies on the way.  With the outcomes     *)
(* that Invocation lists this is all that ApprovalFlow assumes of the      *)
(* graph, and InvestigationGraph implements it.                            *)
(***************************************************************************)
EXTENDS Naturals

CONSTANTS
    NULL,
    Answers,             \* what an operator may answer
    Unstarted,           \* a thread without any checkpoint
    FromStart(_, _),     \* [raised, graph]: the outcomes of a first invocation,
    FromResume(_, _, _)  \* ... and of one that brings an answer

VARIABLES
    settings,   \* what the policy is configured with
    thread,     \* the thread as the last invocation left it
    call,       \* the invocation under way: START, an answer, or NULL
    returned    \* the last invocation returned to its caller

vars == <<settings, thread, call, returned>>

Init ==
    /\ settings.enabled \in BOOLEAN /\ settings.auto_execute_max_safety_level \in 0 .. 2
    /\ thread.prior \in [attempts : Nat, auto_executions : Nat]
    /\ thread = [Unstarted EXCEPT !.prior = thread.prior]
    /\ call = "START"
    /\ returned = FALSE

Resume(answer) ==
    /\ call = NULL
    /\ call' = answer
    /\ returned' = FALSE
    /\ UNCHANGED <<settings, thread>>

Outcomes ==
    IF call = "START" THEN FromStart(thread, settings)
    ELSE FromResume(thread, call, settings)

\* An error or a crash may still strike when all is done.
Finish ==
    /\ call # NULL
    /\ \E x \in Outcomes :
        /\ thread' = x.graph
        /\ returned' \in {~x.raised, FALSE}
    /\ call' = NULL
    /\ UNCHANGED settings

Next == Finish \/ \E answer \in Answers : Resume(answer)

Spec == Init /\ [][Next]_vars

=============================================================================
