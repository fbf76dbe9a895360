----------------------------- MODULE Invocation -----------------------------
(***************************************************************************)
(* What one invocation of the investigation graph makes of a thread: the   *)
(* graph reduced to what its callers can tell, namely where the thread     *)
(* stands afterwards, what it decided and what it did.  The operators are  *)
(* pure.  ApprovalFlow is built on them, and InvestigationGraph, node by   *)
(* node, implements them (InvestigationThread).                            *)
(*                                                                         *)
(* A thread is [node, proposals, policy_result, result, validation, acted, *)
(* prior].  Its node is none before the first one, gather up to the policy *)
(* node, await, execute (until the validation is done) or end.  acted says *)
(* that the executor was called: the target may have been changed.         *)
(***************************************************************************)
EXTENDS RemediationPolicy

CONSTANTS
    MaxProposals,   \* bound: proposals in a list
    TypeLists       \* bound: the action types of the proposals in a list

ASSUME InvocationAssumption ==
    /\ MaxProposals \in Nat \ {0}
    /\ TypeLists \subseteq UNION {[1 .. n -> ActionTypes] : n \in 1 .. MaxProposals}

Answers == {"APPROVE", "REJECT"}

\* Ids are drawn at random; the position serves as the id.
ProposalOf(i, type) == [id |-> i, action_type |-> type, target |-> "demo-service"]

ProposalLists ==
    {[i \in DOMAIN types |-> ProposalOf(i, types[i])] : types \in TypeLists}

Graphs ==
    [node : {"none", "gather", "await", "execute", "end"},
     proposals : Seq([id : 1 .. MaxProposals, action_type : ActionTypes,
                      target : {"demo-service"}]),
     policy_result : {NoResult} \union
        [decision : Decisions, proposal_id : 1 .. MaxProposals, action_type : ActionTypes],
     result : {"none", "success", "failure"},
     validation : {"none", "passed", "failed"},
     acted : BOOLEAN,
     prior : [attempts : Nat, auto_executions : Nat]]

Unstarted ==
    [node |-> "none", proposals |-> <<>>, policy_result |-> NoResult,
     result |-> "none", validation |-> "none", acted |-> FALSE,
     prior |-> [attempts |-> 0, auto_executions |-> 0]]

(***************************************************************************)
(* Sets of [raised, graph].                                                *)
(***************************************************************************)
Returned(g) == [raised |-> FALSE, graph |-> g]
Raised(g) == [raised |-> TRUE, graph |-> g]

\* Execution and validation.  An error may strike before or after the target
\* was changed, and leaves the thread at the execution node.
FromExecute(g) ==
    {Raised([g EXCEPT !.node = "execute", !.acted = a]) : a \in {g.acted, TRUE}}
    \union
    {Returned([g EXCEPT !.node = "end", !.acted = TRUE, !.result = r[1], !.validation = r[2]]) :
        r \in {<<"success", "passed">>, <<"success", "failed">>, <<"failure", "none">>}}

FromPolicy(g) ==
    CASE g.policy_result.decision = "ALLOWED" -> FromExecute(g)
      [] g.policy_result.decision = "APPROVAL_REQUIRED" -> {Returned([g EXCEPT !.node = "await"])}
      [] OTHER -> {Returned([g EXCEPT !.node = "end"])}

\* An error leaves the thread at g, before anything of `later`.  So does a
\* process that dies with its newest checkpoints, but what it did is done.
OrBroken(g, later) ==
    {Raised([g EXCEPT !.acted = a]) : a \in {g.acted} \union {x.graph.acted : x \in later}}
    \union later

\* From the first node: an ineligible root cause, or a decision.
FromStart(g, settings) ==
    OrBroken([g EXCEPT !.node = "gather"],
        UNION {
            LET proposed == [g EXCEPT !.proposals = ps]
            IN  {Returned([proposed EXCEPT !.node = "end"])}
                \union UNION {FromPolicy([proposed EXCEPT !.policy_result =
                                  Decide(ps, settings, cause, g.prior)]) :
                              cause \in {"fault", "other"}} :
            ps \in ProposalLists})

FromAwait(g, answer) ==
    OrBroken(g, IF answer = "APPROVE" THEN FromExecute(g)
                ELSE {Returned([g EXCEPT !.node = "end"])})

\* An invocation with Command(resume=answer): a thread past the approval node
\* goes on whatever the answer, a finished one has nothing to do, and one
\* without any checkpoint cannot be resumed.
FromResume(g, answer, settings) ==
    CASE g.node = "none" -> {Raised(g)}
      [] g.node = "gather" -> FromStart(g, settings)
      [] g.node = "await" -> FromAwait(g, answer)
      [] g.node = "execute" -> FromExecute(g)
      [] OTHER -> {Returned(g)}

=============================================================================
