------------------------ MODULE InvestigationGraph ------------------------
(***************************************************************************)
(* One thread of the LangGraph investigation workflow (graph/builder.py    *)
(* and graph/nodes): the nodes, the routing between them, the pause for an *)
(* operator's approval, and what a later invocation finds after the        *)
(* invocation that ran the thread raised or died with its process.         *)
(*                                                                         *)
(* `node` is the pending node of the thread.  An invocation runs nodes one *)
(* after the other; LangGraph checkpoints the state after each of them,    *)
(* asynchronously, so that a process that dies may lose the newest         *)
(* checkpoints, while an invocation that returns or raises has written     *)
(* all of them.  An investigation that dies before its first pause is      *)
(* not taken up again here: run_investigation uses a new thread id each    *)
(* time.  (A request that a later investigation's thread id misdirects to  *)
(* such a thread is part of ApprovalFlow.)                                 *)
(*                                                                         *)
(* Data.  A hypothesis is [confidence, grounded]: grounded says that it    *)
(* names at least one item of the evidence collected so far, which only    *)
(* grows, and which classify_incident makes non-empty.  Confidences are    *)
(* small numbers.  The operator's answers are the two the service sends.   *)
(***************************************************************************)
EXTENDS Invocation, FiniteSets

CONSTANTS
    NULL,
    MaxIterations,           \* investigation.max_iterations
    ConfidenceThreshold,     \* investigation.confidence_threshold
    MinRootCauseConfidence,  \* remediation.min_root_cause_confidence
    MaxConfidence,           \* bound: the scale of confidences
    MaxAttempts,             \* remediation.max_remediation_attempts_per_incident
    MaxAuto,                 \* remediation.max_auto_remediations_per_incident
    MaxFaults                \* bound: invocations that raise or die

ASSUME GraphAssumption ==
    /\ MaxIterations \in Nat \ {0}
    /\ MaxConfidence \in Nat
    /\ ConfidenceThreshold \in 0 .. MaxConfidence
    /\ MinRootCauseConfidence \in 0 .. MaxConfidence
    /\ MaxAttempts \in Nat /\ MaxAuto \in Nat
    /\ MaxFaults \in Nat
    /\ \A c \in 0 .. MaxConfidence, g \in BOOLEAN, s \in {"VERIFIED", "TESTING", "INCONCLUSIVE"} :
         NULL # [confidence |-> c, grounded |-> g, status |-> s]
    /\ NULL \notin Answers \union {"START"}

VARIABLES
    settings,           \* enabled and auto_execute_max_safety_level, for this run
    prior,              \* remediation_prior_attempt_count / _auto_execution_count
    node,               \* the pending node, or END
    phase,              \* running, paused, ended, stopped (resumable), abandoned
    hypotheses,         \* the state's fields of the same names ...
    selected,
    root_cause,
    iteration_count,
    proposals,
    policy_result,
    decision,           \* remediation_approval_decision
    result,             \* remediation_result: none, success, failure
    validation,         \* remediation_validation_passed: none, passed, failed
    acting,             \* the executor was called and has not returned
    answer,             \* the operator's last answer, or NULL
    trail,              \* checkpoints since the pause that a crash may go back to
    faults              \* invocations that raised or died

\* History variables: no action's guard reads them.
VARIABLES
    given,              \* the answers the operators gave so far
    executions,         \* the calls of the executor
    left                \* what the last invocation left behind, as its callers see it

run == <<settings, prior>>
reasoning == <<hypotheses, selected, root_cause, iteration_count, proposals, policy_result>>
outcome == <<decision, result, validation>>
history == <<given, executions, left>>
vars == <<run, node, phase, reasoning, outcome, acting, answer, trail, faults, history>>

Pipeline == <<"classify_incident", "collect_initial_metrics", "collect_initial_logs",
              "retrieve_incident_memory", "collect_recent_changes", "correlate_evidence",
              "generate_hypotheses">>

Nodes == {Pipeline[i] : i \in 1 .. 7} \union
    {"verify_hypothesis", "collect_additional_telemetry", "propose_remediation",
     "evaluate_remediation_policy", "await_remediation_approval",
     "execute_remediation", "validate_remediation", "finalize_investigation", "END"}

Confidences == 0 .. MaxConfidence
Hypothesis == [confidence : Confidences, grounded : BOOLEAN]

\* The policy's view of the settings.
PolicySettings ==
    [enabled |-> settings.enabled,
     auto_execute_max_safety_level |-> settings.level,
     max_remediation_attempts_per_incident |-> MaxAttempts,
     max_auto_remediations_per_incident |-> MaxAuto]

Init ==
    /\ settings \in [enabled : BOOLEAN, level : 0 .. 2]
    /\ prior \in {p \in [attempts : 0 .. MaxAttempts + 1, auto_executions : 0 .. MaxAuto + 1] :
                    p.auto_executions <= p.attempts}
    /\ node = Pipeline[1]
    /\ phase = "running"
    /\ hypotheses = {}
    /\ selected = NULL
    /\ root_cause = NULL
    /\ iteration_count = 1
    /\ proposals = <<>>
    /\ policy_result = NoResult
    /\ decision = NULL
    /\ result = "none"
    /\ validation = "none"
    /\ acting = FALSE
    /\ answer = NULL
    /\ trail = <<>>
    /\ faults = 0
    /\ given = {}
    /\ executions = <<>>
    /\ left = [Unstarted EXCEPT !.prior = prior]

(***************************************************************************)
(* What the callers see of a thread                                        *)
(***************************************************************************)
Stage(n) ==
    CASE n = "await_remediation_approval" -> "await"
      [] n \in {"execute_remediation", "validate_remediation"} -> "execute"
      [] n \in {"finalize_investigation", "END"} -> "end"
      [] OTHER -> "gather"

\* The outcome shows when nothing but the report is left to be done.
SeenAt(n, r, v) ==
    [node |-> Stage(n),
     proposals |-> IF Stage(n) = "gather" THEN <<>> ELSE proposals,
     policy_result |-> policy_result,
     result |-> IF Stage(n) = "end" THEN r ELSE "none",
     validation |-> IF Stage(n) = "end" THEN v ELSE "none",
     acted |-> executions # <<>>,
     prior |-> prior]

Seen == SeenAt(node, result, validation)

(***************************************************************************)
(* Nodes                                                                   *)
(***************************************************************************)
Snapshot(n, d, r, v) == [node |-> n, decision |-> d, result |-> r, validation |-> v]

At(n) == phase = "running" /\ node = n

\* The node is done and n is next; since the pause its checkpoint is recorded.
GoTo(n) ==
    /\ node' = n
    /\ trail' = IF trail = <<>> THEN <<>>
                ELSE Append(trail, Snapshot(n, decision', result', validation'))

\* The linear part of the graph.  These nodes collect evidence and context,
\* whose contents the later nodes' choices stand for.
Gather ==
    /\ \E i \in 1 .. 6 : At(Pipeline[i]) /\ GoTo(Pipeline[i + 1])
    /\ UNCHANGED <<run, phase, reasoning, outcome, acting, answer, faults, history>>

\* The LLM's hypotheses, or the fallback when it fails or returns none: never
\* an empty list.  (Bound: two hypotheses.)
GenerateHypotheses ==
    /\ At("generate_hypotheses")
    /\ \E h1, h2 \in Hypothesis : hypotheses' = {h1, h2}
    /\ UNCHANGED outcome
    /\ GoTo("verify_hypothesis")
    /\ UNCHANGED <<run, phase, selected, root_cause, iteration_count, proposals,
                   policy_result, acting, answer, faults, history>>

Verified(candidate, confident, confidence) ==
    /\ confident
    /\ confidence >= ConfidenceThreshold
    /\ candidate.grounded

Promoted(candidate, confident, confidence) ==
    [confidence |-> confidence, grounded |-> candidate.grounded, status |->
       IF Verified(candidate, confident, confidence) THEN "VERIFIED"
       ELSE IF iteration_count >= MaxIterations THEN "INCONCLUSIVE" ELSE "TESTING"]

\* MUTANT of Continue: the iteration bound is off by one.
ContinueOnceMore(cause) == cause = NULL /\ iteration_count <= MaxIterations

\* should_continue_investigation.  verify_hypothesis leaves missing queries
\* behind, its own default if need be, unless the root cause is verified or
\* the last iteration is reached: the third test of the code never decides.
Continue(cause) == cause = NULL /\ iteration_count < MaxIterations

VerifyWith(candidate, confident, confidence) ==
    LET hypothesis == Promoted(candidate, confident, confidence)
        cause == IF hypothesis.status = "VERIFIED"
                 THEN [confidence |-> confidence, grounded |-> candidate.grounded]
                 ELSE NULL
    IN  /\ selected' = hypothesis
        /\ root_cause' = cause
        /\ UNCHANGED outcome
        /\ GoTo(IF Continue(cause) THEN "collect_additional_telemetry"
                ELSE "propose_remediation")

\* The best candidate is judged by the LLM, which sees it as it likes, or,
\* when the call fails, by its own confidence.
VerifyHypothesis ==
    /\ At("verify_hypothesis")
    /\ \E candidate \in hypotheses :
        /\ \A h \in hypotheses : h.confidence <= candidate.confidence
        /\ \/ \E confident \in BOOLEAN, confidence \in Confidences :
                VerifyWith(candidate, confident, confidence)
           \/ VerifyWith(candidate, candidate.confidence >= ConfidenceThreshold,
                         candidate.confidence)
    /\ UNCHANGED <<run, phase, hypotheses, iteration_count, proposals, policy_result,
                   acting, answer, faults, history>>

\* MUTANT of NextIteration: the counter is not advanced.
NextIterationForgotten == iteration_count

NextIteration == iteration_count + 1

CollectAdditionalTelemetry ==
    /\ At("collect_additional_telemetry")
    /\ iteration_count' = NextIteration
    /\ UNCHANGED outcome
    /\ GoTo("generate_hypotheses")
    /\ UNCHANGED <<run, phase, hypotheses, selected, root_cause, proposals, policy_result,
                   acting, answer, faults, history>>

\* The LLM's valid proposals, or the fallback <<RESET, RESTART>>.
ProposeRemediation ==
    /\ At("propose_remediation")
    /\ proposals' \in ProposalLists
    /\ UNCHANGED outcome
    /\ GoTo("evaluate_remediation_policy")
    /\ UNCHANGED <<run, phase, hypotheses, selected, root_cause, iteration_count,
                   policy_result, acting, answer, faults, history>>

\* MUTANT of Eligible: the gate is left open.
EligibleAlways == TRUE

Eligible == CheckEligibility(root_cause, selected, TRUE, MinRootCauseConfidence, NULL)

\* MUTANT of PolicyRoute: whatever is not allowed is put to the operator.
PolicyRouteAsking(res) ==
    IF res.decision = "ALLOWED" THEN "execute_remediation" ELSE "await_remediation_approval"

\* route_remediation_policy_result
PolicyRoute(res) ==
    CASE res.decision = "ALLOWED" -> "execute_remediation"
      [] res.decision = "APPROVAL_REQUIRED" -> "await_remediation_approval"
      [] OTHER -> "finalize_investigation"

\* Whether the text of the cause has a fault keyword is not modelled further.
EvaluateRemediationPolicy ==
    /\ At("evaluate_remediation_policy")
    /\ \E cause \in {"fault", "other"} :
         LET res == IF Eligible THEN Decide(proposals, PolicySettings, cause, prior)
                    ELSE NoResult
         IN  /\ policy_result' = res
             /\ UNCHANGED outcome
             /\ GoTo(PolicyRoute(res))
    /\ UNCHANGED <<run, phase, hypotheses, selected, root_cause, iteration_count, proposals,
                   acting, answer, faults, history>>

\* interrupt() without an answer: the invocation returns with the pause.
InterruptForApproval ==
    /\ At("await_remediation_approval")
    /\ answer = NULL
    /\ policy_result.decision = "APPROVAL_REQUIRED"
    /\ phase' = "paused"
    /\ trail' = <<Snapshot(node, decision, result, validation)>>
    /\ UNCHANGED <<run, node, reasoning, outcome, acting, answer, faults, given, executions>>
    /\ left' = Seen'

\* MUTANT of ApprovalRoute: the test is the wrong way round.
ApprovalRouteInverted(d) ==
    IF d = "REJECT" THEN "execute_remediation" ELSE "finalize_investigation"

\* route_approval_decision
ApprovalRoute(d) == IF d = "APPROVE" THEN "execute_remediation" ELSE "finalize_investigation"

\* interrupt() with an answer returns it; the node runs from its start.
AwaitRemediationApproval ==
    /\ At("await_remediation_approval")
    /\ answer # NULL
    /\ policy_result.decision = "APPROVAL_REQUIRED"
    /\ decision' = answer
    /\ UNCHANGED <<result, validation>>
    /\ GoTo(ApprovalRoute(answer))
    /\ UNCHANGED <<run, phase, reasoning, acting, answer, faults, history>>

\* The executor is called: from here on the target may be changed.
ExecuteRemediation ==
    /\ At("execute_remediation")
    /\ ~acting
    /\ policy_result.decision \in {"ALLOWED", "APPROVAL_REQUIRED"}
    /\ acting' = TRUE
    /\ executions' = Append(executions,
         [proposal_id |-> policy_result.proposal_id, answer |-> answer,
          approved |-> "APPROVE" \in given])
    /\ UNCHANGED <<run, node, phase, reasoning, outcome, answer, trail, faults, given, left>>

\* MUTANT of AfterExecution: a failed execution is tried again.
AfterExecutionRetrying(res) ==
    IF res = "failure" THEN "execute_remediation" ELSE "validate_remediation"

\* The edge out of execute_remediation.
AfterExecution(res) == "validate_remediation"

\* ... and answers with a result.
ExecutorReturns ==
    /\ acting
    /\ acting' = FALSE
    /\ result' \in {"success", "failure"}
    /\ UNCHANGED <<decision, validation>>
    /\ GoTo(AfterExecution(result'))
    /\ UNCHANGED <<run, phase, reasoning, answer, faults, history>>

\* MUTANT of Validation: what failed is validated, too.
ValidationAlways == {"passed", "failed"}

\* An error of the validator counts as a failed validation.
Validation == IF result = "success" THEN {"passed", "failed"} ELSE {"none"}

ValidateRemediation ==
    /\ At("validate_remediation")
    /\ validation' \in Validation
    /\ UNCHANGED <<decision, result>>
    /\ GoTo("finalize_investigation")
    /\ UNCHANGED <<run, phase, reasoning, acting, answer, faults, history>>

FinalizeInvestigation ==
    /\ At("finalize_investigation")
    /\ phase' = "ended"
    /\ UNCHANGED outcome
    /\ GoTo("END")
    /\ UNCHANGED <<run, reasoning, acting, answer, faults, given, executions>>
    /\ left' = Seen'

NodeStep ==
    \/ Gather \/ GenerateHypotheses \/ VerifyHypothesis \/ CollectAdditionalTelemetry
    \/ ProposeRemediation \/ EvaluateRemediationPolicy
    \/ InterruptForApproval \/ AwaitRemediationApproval
    \/ ExecuteRemediation \/ ExecutorReturns \/ ValidateRemediation
    \/ FinalizeInvestigation

(***************************************************************************)
(* Invocations                                                             *)
(***************************************************************************)
\* resume_remediation_approval hands an operator's answer to the thread.  A
\* thread that an error or a crash left beyond the approval node goes on from
\* there: the new answer is not looked at.
Resume(a) ==
    /\ phase \in {"paused", "stopped"}
    /\ phase' = "running"
    /\ answer' = a
    /\ given' = given \union {a}
    /\ UNCHANGED <<run, node, reasoning, outcome, acting, trail, faults, executions, left>>

Broken == IF trail = <<>> THEN "abandoned" ELSE "stopped"

\* A node raises (a provider, the executor, the checkpointer): its step is not
\* recorded, all earlier ones are.
Raise ==
    /\ phase = "running" /\ faults < MaxFaults
    /\ phase' = Broken
    /\ acting' = FALSE
    /\ trail' = IF trail = <<>> THEN <<>>
                ELSE <<Snapshot(node, decision, result, validation)>>
    /\ faults' = faults + 1
    /\ UNCHANGED <<run, node, reasoning, outcome, answer, given, executions>>
    /\ left' = Seen'

\* The process dies: some checkpoint since the pause is the last one written.
Restore(s) ==
    /\ node' = s.node
    /\ decision' = s.decision
    /\ result' = s.result
    /\ validation' = s.validation
    /\ trail' = <<s>>

Crash ==
    /\ phase = "running" /\ faults < MaxFaults
    /\ phase' = Broken
    /\ acting' = FALSE
    /\ IF trail = <<>>
       THEN UNCHANGED <<node, outcome, trail>>
       ELSE \E i \in DOMAIN trail : Restore(trail[i])
    /\ faults' = faults + 1
    /\ UNCHANGED <<run, reasoning, answer, given, executions>>
    /\ left' = Seen'

Next == NodeStep \/ (\E a \in Answers : Resume(a)) \/ Raise \/ Crash

Spec == Init /\ [][Next]_vars

\* A running invocation goes on running nodes: every call in a node has a
\* timeout.  No operator has to answer.
Fairness == WF_vars(NodeStep)

FairSpec == Spec /\ Fairness

-----------------------------------------------------------------------------
(***************************************************************************)
(* Properties                                                              *)
(***************************************************************************)
\* Types, and the bound on the investigation loop.
TypeOK ==
    /\ settings \in [enabled : BOOLEAN, level : 0 .. 2]
    /\ prior \in [attempts : Nat, auto_executions : Nat]
    /\ node \in Nodes
    /\ phase \in {"running", "paused", "ended", "stopped", "abandoned"}
    /\ hypotheses \subseteq Hypothesis
    /\ selected = NULL \/ selected \in
         [confidence : Confidences, grounded : BOOLEAN,
          status : {"VERIFIED", "TESTING", "INCONCLUSIVE"}]
    /\ root_cause \in Hypothesis \union {NULL}
    /\ iteration_count \in 1 .. MaxIterations
    /\ proposals \in Seq([id : 1 .. MaxProposals, action_type : ActionTypes,
                          target : {"demo-service"}])
    /\ policy_result = NoResult \/ policy_result \in
         [decision : Decisions, proposal_id : 1 .. MaxProposals, action_type : ActionTypes]
    /\ decision \in Answers \union {NULL}
    /\ result \in {"none", "success", "failure"}
    /\ validation \in {"none", "passed", "failed"}
    /\ acting \in BOOLEAN
    /\ answer \in Answers \union {NULL}
    /\ faults \in 0 .. MaxFaults
    /\ given \subseteq Answers

\* The executor runs only for a root cause that was verified with evidence,
\* at both confidence thresholds.
ExecutionGrounded ==
    executions # <<>> =>
        /\ selected # NULL /\ selected.status = "VERIFIED"
        /\ root_cause # NULL /\ root_cause.grounded
        /\ root_cause.confidence >= ConfidenceThreshold
        /\ root_cause.confidence >= MinRootCauseConfidence

\* The executor runs without an operator's approval only below the automatic
\* level, with the pipeline enabled and below both ceilings; whatever the
\* resumes, errors and crashes, any other execution follows an approval.
ExecutionAuthorised ==
    \A i \in DOMAIN executions :
        /\ settings.enabled /\ prior.attempts < MaxAttempts
        /\ \/ executions[i].approved
           \/ /\ PolicyLevel[policy_result.action_type] <= settings.level
              /\ prior.auto_executions < MaxAuto

\* A thread executes one action, again only after an error or a crash, and
\* never after its end was recorded.
OneActionPerThread ==
    /\ Len(executions) <= 1 + faults
    /\ \A i \in DOMAIN executions : executions[i].proposal_id = executions[1].proposal_id

\* The nodes' "Routing invariant violation" errors cannot occur, wherever a
\* resume takes the thread up.
RoutingInvariant ==
    /\ node = "await_remediation_approval" => policy_result.decision = "APPROVAL_REQUIRED"
    /\ node \in {"execute_remediation", "validate_remediation"} =>
         policy_result.decision \in {"ALLOWED", "APPROVAL_REQUIRED"}

Thread ==
    INSTANCE InvestigationThread WITH
        settings <- PolicySettings,
        thread <- left,
        call <- IF phase # "running" THEN NULL ELSE IF answer = NULL THEN "START" ELSE answer,
        returned <- phase \in {"paused", "ended"}

\* Node by node, with errors at each of them and crashes that take checkpoints
\* away, the graph does what ApprovalFlow takes an invocation to do: it leaves
\* its thread in one of the states that Invocation lists.
ImplementsThread == Thread!Spec

\* Every invocation comes to an end: the loop over hypotheses terminates.
InvocationReturns == phase = "running" ~> phase # "running"

\* What the reject endpoint says: a rejected remediation is never executed.
\* An execution never happens while the last answer is a rejection.
RejectNeverExecutes ==
    \A i \in DOMAIN executions : executions[i].answer # "REJECT"

=============================================================================
