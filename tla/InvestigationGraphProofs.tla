---------------------- MODULE InvestigationGraphProofs ----------------------
(***************************************************************************)
(* What the graph promises for any scale of confidences, number of         *)
(* iterations, proposals, errors and crashes: its types, the nodes'        *)
(* routing invariants, and that what is executed is grounded, authorised   *)
(* and one action per thread.                                              *)
(*                                                                         *)
(* All of it must survive a crash that takes the thread back to any        *)
(* checkpoint since its pause, while the operators' answers and the calls  *)
(* of the executor stay.  So what holds of the pending node must hold of   *)
(* the node of every such checkpoint (Routed), and what the policy looked  *)
(* at must not change once it has decided (Judged).                        *)
(*                                                                         *)
(* The second half proves that the graph implements what its callers take  *)
(* an invocation to do (InvestigationThread).  For that it is not enough   *)
(* to know where a thread stands: its invariant (Tracked) relates each     *)
(* place to what the invocation found when it began.                       *)
(***************************************************************************)
EXTENDS InvestigationGraph, RemediationPolicyProofs, SequenceTheorems

\* The nodes after the policy.
Posts == {"await_remediation_approval", "execute_remediation", "validate_remediation",
          "finalize_investigation", "END"}

Granted == policy_result.decision \in {"ALLOWED", "APPROVAL_REQUIRED"}

Snapshots ==
    [node : Posts, decision : Answers \union {NULL}, result : {"none", "success", "failure"},
     validation : {"none", "passed", "failed"}]

Calls == [proposal_id : Nat, answer : Answers \union {NULL}, approved : BOOLEAN]

\* The part of the types that concerns what is kept for crashes and properties.
Kept == trail \in Seq(Snapshots) /\ executions \in Seq(Calls)

\* What a thread that stands at n relies on.
Reached(n) ==
    /\ n = "await_remediation_approval" => policy_result.decision = "APPROVAL_REQUIRED"
    /\ n \in {"execute_remediation", "validate_remediation"} => Granted
    /\ n = "execute_remediation" => policy_result.decision = "ALLOWED" \/ "APPROVE" \in given

Routed ==
    /\ Reached(node)
    /\ \A i \in DOMAIN trail : Reached(trail[i].node)
    /\ trail # <<>> => node \in Posts
    /\ acting => node = "execute_remediation"
    /\ answer # NULL => answer \in given

\* The policy decides once, by what it sees.
Judged ==
    /\ node \notin Posts => policy_result = NoResult
    /\ Granted =>
        /\ root_cause # NULL /\ root_cause.confidence >= MinRootCauseConfidence
        /\ settings.enabled /\ prior.attempts < MaxAttempts
    /\ policy_result.decision = "ALLOWED" =>
        /\ PolicyLevel[policy_result.action_type] <= settings.level
        /\ prior.auto_executions < MaxAuto

\* A root cause is a verified hypothesis.
Earned ==
    root_cause # NULL =>
        /\ selected # NULL /\ selected.status = "VERIFIED"
        /\ root_cause.grounded /\ root_cause.confidence >= ConfidenceThreshold

\* The thread may still get to the executor without another error or crash.
MayExecute ==
    ~acting /\ node \notin {"validate_remediation", "finalize_investigation", "END"}

Executed ==
    /\ executions # <<>> => Granted
    /\ \A i \in DOMAIN executions :
        /\ executions[i].proposal_id = policy_result.proposal_id
        /\ executions[i].approved \/ policy_result.decision = "ALLOWED"
    /\ Len(executions) + (IF MayExecute THEN 1 ELSE 0) <= 1 + faults

\* The loop is entered again only below its bound.
Looped == node = "collect_additional_telemetry" => iteration_count < MaxIterations

IInv == TypeOK /\ Kept /\ Routed /\ Judged /\ Earned /\ Executed /\ Looped

(***************************************************************************)
(* The policy node                                                         *)
(***************************************************************************)
Listable == [id : 1 .. MaxProposals, action_type : ActionTypes, target : {"demo-service"}]

LEMMA ListsOfProposals ==
    ASSUME NEW ps \in ProposalLists
    PROVE  ps \in Seq(Listable)
<1>1. PICK types \in TypeLists : ps = [i \in DOMAIN types |-> ProposalOf(i, types[i])]
  BY DEF ProposalLists
<1>2. PICK n \in 1 .. MaxProposals : types \in [1 .. n -> ActionTypes]
  BY <1>1, InvocationAssumption
<1>3. n \in Nat /\ \A i \in 1 .. n : i \in 1 .. MaxProposals
  BY InvocationAssumption
<1>4. \A i \in 1 .. n : ProposalOf(i, types[i]) \in Listable
  BY <1>2, <1>3 DEF ProposalOf, Listable
<1>5. ps \in [1 .. n -> Listable]
  BY <1>1, <1>2, <1>4
<1> QED
  BY <1>3, <1>5, SeqDef

\* What the node may decide, from what the policy promises.
LEMMA NodeDecision ==
    ASSUME TypeOK, NEW cause, NEW r,
           r = IF Eligible THEN Decide(proposals, PolicySettings, cause, prior) ELSE NoResult
    PROVE  /\ \/ r = NoResult
              \/ r \in [decision : Decisions, proposal_id : 1 .. MaxProposals,
                        action_type : ActionTypes]
           /\ r.decision \in {"ALLOWED", "APPROVAL_REQUIRED"} =>
                /\ root_cause # NULL /\ root_cause.confidence >= MinRootCauseConfidence
                /\ settings.enabled /\ prior.attempts < MaxAttempts
           /\ r.decision = "ALLOWED" =>
                /\ PolicyLevel[r.action_type] <= settings.level
                /\ prior.auto_executions < MaxAuto
<1>1. CASE r = NoResult
  BY <1>1 DEF NoResult
<1>2. CASE r # NoResult
  <2>1. Eligible /\ r = Decide(proposals, PolicySettings, cause, prior)
    BY <1>2
  <2>2. root_cause # NULL /\ root_cause.confidence >= MinRootCauseConfidence
    BY <2>1 DEF Eligible, CheckEligibility
  <2>3. proposals \in Seq(Proposals)
    <3>1. [id : 1 .. MaxProposals, action_type : ActionTypes, target : {"demo-service"}]
            \subseteq Proposals
      <4>1. 1 .. MaxProposals \subseteq Nat /\ {"demo-service"} \subseteq {"demo-service", "other"}
        BY GraphAssumption
      <4> QED
        BY <4>1 DEF Proposals
    <3>2. proposals \in Seq([id : 1 .. MaxProposals, action_type : ActionTypes,
                             target : {"demo-service"}])
      BY DEF TypeOK
    <3> QED
      BY <3>1, <3>2, SeqMonotonic
  <2>4. PolicySettings \in Settings /\ prior \in Histories
    BY GraphAssumption DEF PolicySettings, Settings, Histories, TypeOK
  <2>5. /\ \E i \in DOMAIN proposals :
             r \in [decision : Decisions, proposal_id : {proposals[i].id},
                    action_type : {proposals[i].action_type}]
        /\ r.decision # "REJECTED" =>
             PolicySettings.enabled
             /\ prior.attempts < PolicySettings.max_remediation_attempts_per_incident
        /\ r.decision = "ALLOWED" =>
             /\ PolicyLevel[r.action_type] <= PolicySettings.auto_execute_max_safety_level
             /\ prior.auto_executions < PolicySettings.max_auto_remediations_per_incident
    BY <1>2, <2>1, <2>3, <2>4, DecisionIsLimited
  <2>6. r \in [decision : Decisions, proposal_id : 1 .. MaxProposals, action_type : ActionTypes]
    <3>1. PICK i \in DOMAIN proposals :
            r \in [decision : Decisions, proposal_id : {proposals[i].id},
                  action_type : {proposals[i].action_type}]
      BY <2>5
    <3>2. proposals[i].id \in 1 .. MaxProposals /\ proposals[i].action_type \in ActionTypes
      <4>1. i \in 1 .. Len(proposals)
        BY LenProperties DEF TypeOK
      <4>2. proposals[i] \in [id : 1 .. MaxProposals, action_type : ActionTypes,
                              target : {"demo-service"}]
        BY <4>1, ElementOfSeq DEF TypeOK
      <4> QED
        BY <4>2
    <3> QED
      BY <3>1, <3>2
  <2> QED
    BY <2>2, <2>5, <2>6 DEF PolicySettings
<1> QED
  BY <1>1, <1>2

(***************************************************************************)
(* Steps from node to node                                                 *)
(***************************************************************************)
LEMMA PipelineNodes ==
    \A i \in 1 .. 7 : Pipeline[i] \in Nodes /\ Pipeline[i] \notin Posts
                      /\ Pipeline[i] # "collect_additional_telemetry"
<1>1. ASSUME NEW i \in 1 .. 7
      PROVE  Pipeline[i] \notin Posts /\ Pipeline[i] # "collect_additional_telemetry"
  <2>1. i = 1 \/ i = 2 \/ i = 3 \/ i = 4 \/ i = 5 \/ i = 6 \/ i = 7
    OBVIOUS
  <2> QED
    BY <2>1 DEF Pipeline, Posts
<1> QED
  BY <1>1 DEF Nodes

\* What going to n adds to the checkpoints.
LEMMA Recorded ==
    ASSUME Kept, NEW n \in Posts, GoTo(n),
           decision' \in Answers \union {NULL},
           result' \in {"none", "success", "failure"},
           validation' \in {"none", "passed", "failed"}
    PROVE  /\ node' = n
           /\ trail' \in Seq(Snapshots)
           /\ trail = <<>> <=> trail' = <<>>
           /\ \A i \in DOMAIN trail' :
                \/ /\ trail'[i].node = n
                   /\ trail'[i].result = result' /\ trail'[i].validation = validation'
                \/ i \in DOMAIN trail /\ trail'[i] = trail[i]
<1> DEFINE snapshot == Snapshot(n, decision', result', validation')
<1>1. /\ snapshot \in Snapshots /\ snapshot.node = n
      /\ snapshot.result = result' /\ snapshot.validation = validation'
  BY DEF Snapshot, Snapshots
<1>2. node' = n
  BY DEF GoTo
<1>3. CASE trail = <<>>
  <2>1. trail' = <<>>
    BY <1>3 DEF GoTo
  <2> QED
    BY <1>2, <1>3, <2>1
<1>4. CASE trail # <<>>
  <2>1. trail' = Append(trail, snapshot)
    BY <1>4 DEF GoTo
  <2> HIDE DEF snapshot
  <2>2. trail \in Seq(Snapshots)
    BY DEF Kept
  <2>3. /\ trail' \in Seq(Snapshots)
        /\ Len(trail') = Len(trail) + 1
        /\ \A i \in 1 .. Len(trail) : trail'[i] = trail[i]
        /\ trail'[Len(trail) + 1] = snapshot
    BY <1>1, <2>1, <2>2, AppendProperties
  <2>4. DOMAIN trail = 1 .. Len(trail) /\ DOMAIN trail' = 1 .. Len(trail')
        /\ Len(trail) \in Nat
    BY <2>2, <2>3, LenProperties
  <2>5. trail' # <<>>
    BY <2>3, <2>4
  <2> QED
    BY <1>1, <1>2, <1>4, <2>3, <2>4, <2>5
<1> QED
  BY <1>3, <1>4

\* Nothing is at stake before the policy has decided.
LEMMA BeforePolicy ==
    ASSUME IInv, node \notin Posts, node' \notin Posts, NEW n, GoTo(n),
           UNCHANGED <<settings, prior, policy_result, acting, answer, faults, given, executions>>
    PROVE  Kept' /\ Routed' /\ Judged' /\ Executed'
<1>1. policy_result = NoResult /\ trail = <<>> /\ ~ acting /\ faults \in Nat
  BY GraphAssumption DEF IInv, Judged, Routed, Posts, TypeOK
<1>2. ~ Granted
  BY <1>1 DEF Granted, NoResult
<1>3. executions = <<>>
  BY <1>2 DEF IInv, Executed
<1>4. trail' = <<>>
  BY <1>1 DEF GoTo
<1>5. Kept'
  BY <1>3, <1>4 DEF Kept
<1>6. Routed'
  BY <1>1, <1>4 DEF IInv, Routed, Reached, Posts
<1>7. Judged'
  BY <1>1 DEF Judged, Granted, NoResult
<1>8. Executed'
  BY <1>1, <1>3 DEF Executed
<1> QED
  BY <1>5, <1>6, <1>7, <1>8

\* After the policy a step goes to a node whose presuppositions hold, and never
\* back to before the executor.
LEMMA AfterPolicy ==
    ASSUME IInv, node \in Posts, NEW n \in Posts, GoTo(n), Reached(n),
           UNCHANGED <<settings, prior, selected, root_cause, policy_result, answer, faults,
                       given, executions>>,
           acting' => n = "execute_remediation",
           MayExecute' => MayExecute,
           decision' \in Answers \union {NULL},
           result' \in {"none", "success", "failure"},
           validation' \in {"none", "passed", "failed"}
    PROVE  Kept' /\ Routed' /\ Judged' /\ Earned' /\ Executed'
<1>1. /\ node' = n
      /\ trail' \in Seq(Snapshots)
      /\ \A i \in DOMAIN trail' :
           trail'[i].node = n \/ (i \in DOMAIN trail /\ trail'[i] = trail[i])
  BY Recorded DEF IInv
<1>2. Kept'
  BY <1>1 DEF IInv, Kept
<1>3. \A m : Reached(m) => Reached(m)'
  BY DEF Reached, Granted
<1>4. Routed'
  <2>1. Reached(node)'
    BY <1>1, <1>3
  <2>2. ASSUME NEW i \in DOMAIN trail' PROVE Reached(trail[i].node)'
    BY <1>1, <1>3 DEF IInv, Routed
  <2> QED
    BY <1>1, <2>1, <2>2 DEF IInv, Routed
<1>5. Judged' /\ Earned'
  BY <1>1 DEF IInv, Judged, Earned, Granted
<1>6. Executed'
  <2>1. (IF MayExecute' THEN 1 ELSE 0) <= (IF MayExecute THEN 1 ELSE 0)
    OBVIOUS
  <2>2. Len(executions) \in Nat /\ faults \in Nat
    BY GraphAssumption, LenProperties DEF IInv, Kept, TypeOK
  <2> QED
    BY <2>1, <2>2 DEF IInv, Executed, Granted
<1> QED
  BY <1>2, <1>4, <1>5, <1>6

(***************************************************************************)
(* Types                                                                   *)
(***************************************************************************)
LEMMA TypeStep == TypeOK /\ Kept /\ Routed /\ Looped /\ [Next]_vars => TypeOK'
<1> SUFFICES ASSUME TypeOK, Kept, Routed, Looped, [Next]_vars PROVE TypeOK'
  OBVIOUS
<1> USE DEF run, reasoning, outcome, history
<1>1. CASE Gather
  <2>1. node' \in Nodes
    <3>1. PICK i \in 1 .. 6 : GoTo(Pipeline[i + 1])
      BY <1>1 DEF Gather
    <3>2. i + 1 \in 1 .. 7
      OBVIOUS
    <3> QED
      BY <3>1, <3>2, PipelineNodes DEF GoTo
  <2> QED
    BY <1>1, <2>1 DEF Gather, TypeOK
<1>2. CASE GenerateHypotheses
  <2>1. node' \in Nodes
    BY <1>2 DEF GenerateHypotheses, GoTo, Nodes
  <2> QED
    BY <1>2, <2>1 DEF GenerateHypotheses, TypeOK
<1>3. CASE VerifyHypothesis
  <2>1. PICK candidate \in hypotheses, confident \in BOOLEAN, confidence \in Confidences :
          VerifyWith(candidate, confident, confidence)
    <3>1. \A h \in hypotheses : /\ h.confidence \in Confidences
                               /\ (h.confidence >= ConfidenceThreshold) \in BOOLEAN
      BY DEF TypeOK, Hypothesis
    <3> QED
      BY <1>3, <3>1 DEF VerifyHypothesis
  <2>2. candidate.grounded \in BOOLEAN
    BY DEF TypeOK, Hypothesis
  <2>3. node' \in Nodes
    BY <2>1 DEF VerifyWith, GoTo, Nodes
  <2>4. selected' \in [confidence : Confidences, grounded : BOOLEAN,
                      status : {"VERIFIED", "TESTING", "INCONCLUSIVE"}]
    BY <2>1, <2>2 DEF VerifyWith, Promoted
  <2>5. root_cause' \in Hypothesis \union {NULL}
    BY <2>1, <2>2 DEF VerifyWith, Hypothesis
  <2>6. UNCHANGED outcome
    BY <2>1 DEF VerifyWith
  <2> QED
    BY <1>3, <2>3, <2>4, <2>5, <2>6 DEF VerifyHypothesis, TypeOK
<1>4. CASE CollectAdditionalTelemetry
  <2>1. node' \in Nodes
    <3>1. Pipeline[7] = "generate_hypotheses"
      BY DEF Pipeline
    <3> QED
      BY <1>4, <3>1, PipelineNodes DEF CollectAdditionalTelemetry, GoTo
  <2>2. iteration_count < MaxIterations
    BY <1>4 DEF CollectAdditionalTelemetry, At, Looped
  <2>3. iteration_count' \in 1 .. MaxIterations
    BY <1>4, <2>2, GraphAssumption DEF CollectAdditionalTelemetry, NextIteration, TypeOK
  <2> QED
    BY <1>4, <2>1, <2>3 DEF CollectAdditionalTelemetry, TypeOK
<1>5. CASE ProposeRemediation
  <2>1. node' \in Nodes
    BY <1>5 DEF ProposeRemediation, GoTo, Nodes
  <2>2. proposals' \in Seq(Listable)
    BY <1>5, ListsOfProposals DEF ProposeRemediation
  <2> QED
    BY <1>5, <2>1, <2>2 DEF ProposeRemediation, TypeOK, Listable
<1>6. CASE EvaluateRemediationPolicy
  <2>1. PICK cause \in {"fault", "other"} :
          /\ policy_result' = IF Eligible THEN Decide(proposals, PolicySettings, cause, prior)
                              ELSE NoResult
          /\ GoTo(PolicyRoute(policy_result'))
    BY <1>6 DEF EvaluateRemediationPolicy
  <2>2. \/ policy_result' = NoResult
        \/ policy_result' \in [decision : Decisions, proposal_id : 1 .. MaxProposals,
                               action_type : ActionTypes]
    BY <2>1, NodeDecision
  <2>3. node' \in Nodes
    BY <2>1 DEF GoTo, PolicyRoute, Nodes
  <2> QED
    BY <1>6, <2>2, <2>3 DEF EvaluateRemediationPolicy, TypeOK
<1>7. CASE InterruptForApproval
  BY <1>7 DEF InterruptForApproval, TypeOK
<1>8. CASE AwaitRemediationApproval
  <2>1. node' \in Nodes
    BY <1>8 DEF AwaitRemediationApproval, GoTo, ApprovalRoute, Nodes
  <2> QED
    BY <1>8, <2>1 DEF AwaitRemediationApproval, TypeOK
<1>9. CASE ExecuteRemediation
  BY <1>9 DEF ExecuteRemediation, TypeOK
<1>10. CASE ExecutorReturns
  <2>1. node' \in Nodes
    BY <1>10 DEF ExecutorReturns, GoTo, AfterExecution, Nodes
  <2>2. /\ result' \in {"none", "success", "failure"} /\ acting' \in BOOLEAN
        /\ UNCHANGED <<decision, validation>>
        /\ UNCHANGED <<run, phase, reasoning, answer, faults, history>>
    BY <1>10 DEF ExecutorReturns
  <2> QED
    BY <2>1, <2>2 DEF TypeOK
<1>11. CASE ValidateRemediation
  <2>1. node' \in Nodes
    BY <1>11 DEF ValidateRemediation, GoTo, Nodes
  <2> QED
    BY <1>11, <2>1 DEF ValidateRemediation, Validation, TypeOK
<1>12. CASE FinalizeInvestigation
  <2>1. node' \in Nodes
    BY <1>12 DEF FinalizeInvestigation, GoTo, Nodes
  <2> QED
    BY <1>12, <2>1 DEF FinalizeInvestigation, TypeOK
<1>13. ASSUME NEW a \in Answers, Resume(a) PROVE TypeOK'
  BY <1>13 DEF Resume, TypeOK
<1>14. CASE Raise
  <2>1. faults' \in 0 .. MaxFaults
    BY <1>14, GraphAssumption DEF Raise, TypeOK
  <2>2. Broken \in {"running", "paused", "ended", "stopped", "abandoned"}
    BY DEF Broken
  <2>3. phase' \in {"running", "paused", "ended", "stopped", "abandoned"} /\ acting' \in BOOLEAN
    BY <1>14, <2>2 DEF Raise
  <2>4. UNCHANGED <<run, node, reasoning, outcome, answer, given>>
    BY <1>14 DEF Raise
  <2> QED
    BY <2>1, <2>3, <2>4 DEF TypeOK
<1>15. CASE Crash
  <2>1. faults' \in 0 .. MaxFaults
    BY <1>15, GraphAssumption DEF Crash, TypeOK
  <2>2. \A i \in DOMAIN trail : trail[i] \in Snapshots
    <3>1. \A i \in 1 .. Len(trail) : trail[i] \in Snapshots
      BY ElementOfSeq DEF Kept
    <3> QED
      BY <3>1, LenProperties DEF Kept
  <2>3. /\ node' \in Nodes
        /\ decision' \in Answers \union {NULL}
        /\ result' \in {"none", "success", "failure"}
        /\ validation' \in {"none", "passed", "failed"}
    <3>1. CASE trail = <<>>
      BY <1>15, <3>1 DEF Crash, TypeOK
    <3>2. CASE trail # <<>>
      <4>1. PICK i \in DOMAIN trail : Restore(trail[i])
        BY <1>15, <3>2 DEF Crash
      <4>2. trail[i] \in Snapshots
        BY <2>2, <4>1
      <4> QED
        BY <4>1, <4>2 DEF Restore, Snapshots, Posts, Nodes
    <3> QED
      BY <3>1, <3>2
  <2> QED
    BY <1>15, <2>1, <2>3 DEF Crash, Broken, TypeOK
<1>16. CASE UNCHANGED vars
  BY <1>16 DEF vars, TypeOK
<1> QED
  BY <1>1, <1>2, <1>3, <1>4, <1>5, <1>6, <1>7, <1>8, <1>9, <1>10, <1>11, <1>12, <1>13,
     <1>14, <1>15, <1>16 DEF Next, NodeStep

(***************************************************************************)
(* Everything else                                                         *)
(***************************************************************************)
Rest == Kept /\ Routed /\ Judged /\ Earned /\ Executed /\ Looped

LEMMA RestStep == IInv /\ [Next]_vars => Rest'
<1> SUFFICES ASSUME IInv, [Next]_vars PROVE Rest'
  OBVIOUS
<1> USE DEF run, reasoning, outcome, history
<1>0. TypeOK'
  BY TypeStep DEF IInv
<1>1. CASE Gather
  <2>1. PICK i \in 1 .. 6 : At(Pipeline[i]) /\ GoTo(Pipeline[i + 1])
    BY <1>1 DEF Gather
  <2>2. i \in 1 .. 7 /\ i + 1 \in 1 .. 7
    OBVIOUS
  <2>3. node \notin Posts /\ node' \notin Posts /\ node' # "collect_additional_telemetry"
    BY <2>1, <2>2, PipelineNodes DEF At, GoTo
  <2>4. Kept' /\ Routed' /\ Judged' /\ Executed'
    BY <1>1, <2>1, <2>3, BeforePolicy DEF Gather
  <2>5. Earned' /\ Looped'
    BY <1>1, <2>3 DEF Gather, IInv, Earned, Looped
  <2> QED
    BY <2>4, <2>5 DEF Rest
<1>2. CASE GenerateHypotheses
  <2>1. /\ node = "generate_hypotheses" /\ node' = "verify_hypothesis"
        /\ GoTo("verify_hypothesis")
    BY <1>2 DEF GenerateHypotheses, At, GoTo
  <2>2. Kept' /\ Routed' /\ Judged' /\ Executed'
    BY <1>2, <2>1, BeforePolicy DEF GenerateHypotheses, Posts
  <2>3. Earned' /\ Looped'
    BY <1>2, <2>1 DEF GenerateHypotheses, IInv, Earned, Looped
  <2> QED
    BY <2>2, <2>3 DEF Rest
<1>3. CASE VerifyHypothesis
  <2>1. PICK candidate \in hypotheses, confident \in BOOLEAN, confidence \in Confidences :
          VerifyWith(candidate, confident, confidence)
    <3>1. \A h \in hypotheses : /\ h.confidence \in Confidences
                               /\ (h.confidence >= ConfidenceThreshold) \in BOOLEAN
      BY DEF IInv, TypeOK, Hypothesis
    <3> QED
      BY <1>3, <3>1 DEF VerifyHypothesis
  <2> DEFINE hypothesis == Promoted(candidate, confident, confidence)
             n == IF Continue(root_cause') THEN "collect_additional_telemetry"
                  ELSE "propose_remediation"
  <2>2. /\ selected' = hypothesis
        /\ root_cause' = IF hypothesis.status = "VERIFIED"
                         THEN [confidence |-> confidence, grounded |-> candidate.grounded]
                         ELSE NULL
        /\ GoTo(n)
    BY <2>1 DEF VerifyWith
  <2>3. node' = n /\ node = "verify_hypothesis"
    BY <1>3, <2>2 DEF GoTo, VerifyHypothesis, At
  <2>4. Kept' /\ Routed' /\ Judged' /\ Executed'
    BY <1>3, <2>2, <2>3, BeforePolicy DEF VerifyHypothesis, Posts
  <2>5. Looped'
    BY <1>3, <2>3 DEF VerifyHypothesis, Looped, Continue
  <2>6. Earned'
    <3>1. CASE hypothesis.status = "VERIFIED"
      <4>1. candidate.grounded \in BOOLEAN /\ confidence \in 0 .. MaxConfidence
        BY DEF IInv, TypeOK, Hypothesis, Confidences
      <4>2. Verified(candidate, confident, confidence)
        BY <3>1 DEF Promoted
      <4>3. hypothesis = [confidence |-> confidence, grounded |-> candidate.grounded,
                          status |-> "VERIFIED"]
        BY <4>2 DEF Promoted
      <4>4. hypothesis # NULL
        BY <4>1, <4>3, GraphAssumption
      <4> QED
        BY <2>2, <3>1, <4>2, <4>4 DEF Earned, Verified
    <3>2. CASE hypothesis.status # "VERIFIED"
      BY <2>2, <3>2 DEF Earned
    <3> QED
      BY <3>1, <3>2
  <2> QED
    BY <2>4, <2>5, <2>6 DEF Rest
<1>4. CASE CollectAdditionalTelemetry
  <2>1. /\ node = "collect_additional_telemetry" /\ node' = "generate_hypotheses"
        /\ GoTo("generate_hypotheses")
    BY <1>4 DEF CollectAdditionalTelemetry, At, GoTo
  <2>2. Kept' /\ Routed' /\ Judged' /\ Executed'
    BY <1>4, <2>1, BeforePolicy DEF CollectAdditionalTelemetry, Posts
  <2>3. Earned' /\ Looped'
    BY <1>4, <2>1 DEF CollectAdditionalTelemetry, IInv, Earned, Looped
  <2> QED
    BY <2>2, <2>3 DEF Rest
<1>5. CASE ProposeRemediation
  <2>1. /\ node = "propose_remediation" /\ node' = "evaluate_remediation_policy"
        /\ GoTo("evaluate_remediation_policy")
    BY <1>5 DEF ProposeRemediation, At, GoTo
  <2>2. Kept' /\ Routed' /\ Judged' /\ Executed'
    BY <1>5, <2>1, BeforePolicy DEF ProposeRemediation, Posts
  <2>3. Earned' /\ Looped'
    BY <1>5, <2>1 DEF ProposeRemediation, IInv, Earned, Looped
  <2> QED
    BY <2>2, <2>3 DEF Rest
<1>6. CASE EvaluateRemediationPolicy
  <2>1. PICK cause \in {"fault", "other"} :
          /\ policy_result' = IF Eligible THEN Decide(proposals, PolicySettings, cause, prior)
                              ELSE NoResult
          /\ GoTo(PolicyRoute(policy_result'))
    BY <1>6 DEF EvaluateRemediationPolicy
  <2>2. /\ node = "evaluate_remediation_policy" /\ node \notin Posts
        /\ node' = PolicyRoute(policy_result') /\ node' \in Posts
    BY <1>6, <2>1 DEF EvaluateRemediationPolicy, At, GoTo, PolicyRoute, Posts
  <2>3. /\ policy_result = NoResult /\ trail = <<>> /\ ~ acting /\ executions = <<>>
        /\ faults \in Nat
    BY <2>2, GraphAssumption
      DEF IInv, Judged, Routed, Executed, Granted, NoResult, Posts, TypeOK
  <2>4. trail' = <<>> /\ executions' = <<>> /\ ~ acting' /\ faults' = faults
    BY <1>6, <2>1, <2>3 DEF EvaluateRemediationPolicy, GoTo
  <2>5. Routed'
    BY <1>6, <2>2, <2>4
      DEF EvaluateRemediationPolicy, IInv, Routed, Reached, PolicyRoute, Granted
  <2>6. Judged'
    BY <1>6, <2>1, <2>2, NodeDecision DEF EvaluateRemediationPolicy, IInv, Judged, Granted
  <2>7. Kept' /\ Executed'
    BY <2>3, <2>4 DEF Kept, Executed
  <2>8. Earned' /\ Looped'
    BY <1>6, <2>2 DEF EvaluateRemediationPolicy, IInv, Earned, Looped, Posts
  <2> QED
    BY <2>5, <2>6, <2>7, <2>8 DEF Rest
<1>7. CASE InterruptForApproval
  <2>1. Snapshot(node, decision, result, validation) \in Snapshots
    BY <1>7 DEF InterruptForApproval, At, IInv, TypeOK, Snapshot, Snapshots, Posts
  <2>2. trail' = <<Snapshot(node, decision, result, validation)>>
    BY <1>7 DEF InterruptForApproval
  <2>3. Kept'
    BY <1>7, <2>1, <2>2 DEF InterruptForApproval, IInv, Kept
  <2>4. Routed'
    BY <1>7, <2>2 DEF InterruptForApproval, At, IInv, Routed, Reached, Granted, Snapshot, Posts
  <2>5. Judged' /\ Earned' /\ Looped'
    BY <1>7 DEF InterruptForApproval, IInv, Judged, Earned, Looped, Granted
  <2>6. Executed'
    BY <1>7 DEF InterruptForApproval, IInv, Executed, Granted, MayExecute
  <2> QED
    BY <2>3, <2>4, <2>5, <2>6 DEF Rest
<1>8. CASE AwaitRemediationApproval
  <2> DEFINE n == ApprovalRoute(answer)
  <2>1. /\ node = "await_remediation_approval" /\ GoTo(n) /\ answer # NULL
        /\ policy_result.decision = "APPROVAL_REQUIRED"
        /\ UNCHANGED <<run, reasoning, acting, answer, faults, given, executions>>
    BY <1>8 DEF AwaitRemediationApproval, At
  <2>2. n \in {"execute_remediation", "finalize_investigation"} /\ n \in Posts /\ node \in Posts
    BY <2>1 DEF ApprovalRoute, Posts
  <2>3. Reached(n)
    BY <2>1 DEF Reached, ApprovalRoute, Granted, IInv, Routed
  <2>4. ~ acting
    BY <2>1 DEF IInv, Routed
  <2>5. MayExecute
    BY <2>1, <2>4 DEF MayExecute
  <2>6. /\ decision' \in Answers \union {NULL}
        /\ result' \in {"none", "success", "failure"}
        /\ validation' \in {"none", "passed", "failed"}
    BY <1>0 DEF TypeOK
  <2> HIDE DEF n
  <2>7. Kept' /\ Routed' /\ Judged' /\ Earned' /\ Executed'
    BY <2>1, <2>2, <2>3, <2>4, <2>5, <2>6, AfterPolicy
  <2>8. Looped'
    BY <2>1, <2>2 DEF GoTo, Looped
  <2> QED
    BY <2>7, <2>8 DEF Rest
<1>9. CASE ExecuteRemediation
  <2> DEFINE call == [proposal_id |-> policy_result.proposal_id, answer |-> answer,
                      approved |-> "APPROVE" \in given]
  <2>1. /\ node = "execute_remediation" /\ ~ acting /\ acting' = TRUE /\ Granted
        /\ executions' = Append(executions, call)
        /\ UNCHANGED <<run, node, reasoning, outcome, answer, trail, faults, given>>
    BY <1>9 DEF ExecuteRemediation, At, Granted
  <2>2. call \in Calls
    <3>1. policy_result.proposal_id \in Nat
      BY GraphAssumption DEF IInv, TypeOK, NoResult
    <3> QED
      BY <3>1 DEF IInv, TypeOK, Calls
  <2>3. call.approved \/ policy_result.decision = "ALLOWED"
    BY <2>1 DEF IInv, Routed, Reached
  <2>4. call.proposal_id = policy_result.proposal_id
    OBVIOUS
  <2> HIDE DEF call
  <2>5. executions \in Seq(Calls) /\ Len(executions) \in Nat
        /\ DOMAIN executions = 1 .. Len(executions)
    BY LenProperties DEF IInv, Kept
  <2>6. /\ executions' \in Seq(Calls)
        /\ Len(executions') = Len(executions) + 1
        /\ \A i \in 1 .. Len(executions) : executions'[i] = executions[i]
        /\ executions'[Len(executions) + 1] = call
    BY <2>1, <2>2, <2>5, AppendProperties
  <2>7. DOMAIN executions' = 1 .. Len(executions) + 1
    BY <2>6, LenProperties
  <2>8. Kept'
    BY <2>1, <2>6 DEF IInv, Kept
  <2>9. Routed' /\ Judged' /\ Earned' /\ Looped'
    BY <2>1 DEF IInv, Routed, Reached, Judged, Earned, Looped, Granted
  <2>10. Executed'
    <3>1. Granted'
      BY <2>1 DEF Granted
    <3>2. \A i \in DOMAIN executions' :
            /\ executions'[i].proposal_id = policy_result'.proposal_id
            /\ executions'[i].approved \/ policy_result'.decision = "ALLOWED"
      BY <2>1, <2>3, <2>4, <2>5, <2>6, <2>7 DEF IInv, Executed
    <3>3. MayExecute /\ ~ MayExecute'
      BY <2>1 DEF MayExecute
    <3>4. faults \in Nat
      BY GraphAssumption DEF IInv, TypeOK
    <3>5. Len(executions') + (IF MayExecute' THEN 1 ELSE 0) <= 1 + faults'
      BY <2>1, <2>5, <2>6, <3>3, <3>4 DEF IInv, Executed
    <3> QED
      BY <3>1, <3>2, <3>5 DEF Executed
  <2> QED
    BY <2>8, <2>9, <2>10 DEF Rest
<1>10. CASE ExecutorReturns
  <2>1. /\ acting /\ acting' = FALSE /\ GoTo("validate_remediation")
        /\ UNCHANGED <<run, reasoning, answer, faults, given, executions>>
    BY <1>10 DEF ExecutorReturns, AfterExecution
  <2>2. node = "execute_remediation" /\ node' = "validate_remediation"
    BY <2>1 DEF IInv, Routed, GoTo
  <2>3. node \in Posts /\ "validate_remediation" \in Posts
    BY <2>2 DEF Posts
  <2>4. Reached("validate_remediation") /\ ~ MayExecute'
    BY <2>2 DEF IInv, Routed, Reached, MayExecute
  <2>5. /\ decision' \in Answers \union {NULL}
        /\ result' \in {"none", "success", "failure"}
        /\ validation' \in {"none", "passed", "failed"}
    BY <1>0 DEF TypeOK
  <2>6. Kept' /\ Routed' /\ Judged' /\ Earned' /\ Executed'
    BY <2>1, <2>3, <2>4, <2>5, AfterPolicy
  <2>7. Looped'
    BY <2>2 DEF Looped
  <2> QED
    BY <2>6, <2>7 DEF Rest
<1>11. CASE ValidateRemediation \/ FinalizeInvestigation
  <2>1. PICK n \in {"finalize_investigation", "END"} : GoTo(n)
    BY <1>11 DEF ValidateRemediation, FinalizeInvestigation
  <2>2. /\ node \in {"validate_remediation", "finalize_investigation"} /\ node' = n
        /\ UNCHANGED <<run, reasoning, acting, answer, faults, given, executions>>
    BY <1>11, <2>1 DEF ValidateRemediation, FinalizeInvestigation, At, GoTo
  <2>3. node \in Posts /\ n \in Posts
    BY <2>2 DEF Posts
  <2>4. Reached(n) /\ ~ MayExecute' /\ ~ acting
    BY <2>2 DEF IInv, Routed, Reached, MayExecute
  <2>5. /\ decision' \in Answers \union {NULL}
        /\ result' \in {"none", "success", "failure"}
        /\ validation' \in {"none", "passed", "failed"}
    BY <1>0 DEF TypeOK
  <2>6. Kept' /\ Routed' /\ Judged' /\ Earned' /\ Executed'
    BY <2>1, <2>2, <2>3, <2>4, <2>5, AfterPolicy
  <2>7. Looped'
    BY <2>2 DEF Looped
  <2> QED
    BY <2>6, <2>7 DEF Rest
<1>12. ASSUME NEW a \in Answers, Resume(a) PROVE Rest'
  <2>1. /\ answer' = a /\ given' = given \union {a}
        /\ UNCHANGED <<run, node, reasoning, outcome, acting, trail, faults, executions>>
    BY <1>12 DEF Resume
  <2>2. Routed'
    BY <2>1 DEF IInv, Routed, Reached, Granted
  <2>3. Kept' /\ Judged' /\ Earned' /\ Looped'
    BY <2>1 DEF IInv, Kept, Judged, Earned, Looped, Granted
  <2>4. Executed'
    BY <2>1 DEF IInv, Executed, Granted, MayExecute
  <2> QED
    BY <2>2, <2>3, <2>4 DEF Rest
<1>13. CASE Raise
  <2>1. /\ acting' = FALSE /\ faults' = faults + 1
        /\ trail' = IF trail = <<>> THEN <<>>
                    ELSE <<Snapshot(node, decision, result, validation)>>
        /\ UNCHANGED <<run, node, reasoning, outcome, answer, given, executions>>
    BY <1>13 DEF Raise
  <2>2. trail # <<>> => Snapshot(node, decision, result, validation) \in Snapshots
    BY DEF IInv, Routed, TypeOK, Snapshot, Snapshots
  <2>3. Kept'
    BY <2>1, <2>2 DEF IInv, Kept
  <2>4. Routed'
    BY <2>1 DEF IInv, Routed, Reached, Granted, Snapshot
  <2>5. Judged' /\ Earned' /\ Looped'
    BY <2>1 DEF IInv, Judged, Earned, Looped, Granted
  <2>6. Executed'
    <3>1. Len(executions) \in Nat /\ faults \in Nat
      BY GraphAssumption, LenProperties DEF IInv, Kept, TypeOK
    <3>2. Len(executions) <= 1 + faults
      BY <3>1 DEF IInv, Executed
    <3> QED
      BY <2>1, <3>1, <3>2 DEF IInv, Executed, Granted
  <2> QED
    BY <2>3, <2>4, <2>5, <2>6 DEF Rest
<1>14. CASE Crash
  <2>1. /\ acting' = FALSE /\ faults' = faults + 1
        /\ UNCHANGED <<run, reasoning, answer, given, executions>>
    BY <1>14 DEF Crash
  <2>2. \A i \in DOMAIN trail : trail[i] \in Snapshots
    <3>1. \A i \in 1 .. Len(trail) : trail[i] \in Snapshots
      BY ElementOfSeq DEF IInv, Kept
    <3> QED
      BY <3>1, LenProperties DEF IInv, Kept
  <2>3. \/ UNCHANGED <<node, trail>>
        \/ \E i \in DOMAIN trail : node' = trail[i].node /\ trail' = <<trail[i]>> /\ trail # <<>>
    BY <1>14 DEF Crash, Restore
  <2>4. Executed'
    <3>1. Len(executions) \in Nat /\ faults \in Nat
      BY GraphAssumption, LenProperties DEF IInv, Kept, TypeOK
    <3>2. Len(executions) <= 1 + faults
      BY <3>1 DEF IInv, Executed
    <3> QED
      BY <2>1, <3>1, <3>2 DEF IInv, Executed, Granted
  <2>5. CASE UNCHANGED <<node, trail>>
    <3>1. Kept' /\ Judged' /\ Earned' /\ Looped'
      BY <2>1, <2>5 DEF IInv, Kept, Judged, Earned, Looped, Granted
    <3>2. Routed'
      BY <2>1, <2>5 DEF IInv, Routed, Reached, Granted
    <3> QED
      BY <2>4, <3>1, <3>2 DEF Rest
  <2>6. ASSUME NEW i \in DOMAIN trail, node' = trail[i].node, trail' = <<trail[i]>>, trail # <<>>
        PROVE  Rest'
    <3>1. trail[i] \in Snapshots /\ node' \in Posts /\ node \in Posts
      BY <2>2, <2>6 DEF Snapshots, IInv, Routed
    <3>2. Kept'
      BY <2>1, <2>6, <3>1 DEF IInv, Kept
    <3>3. Routed'
      BY <2>1, <2>6, <3>1 DEF IInv, Routed, Reached, Granted
    <3>4. Judged' /\ Earned'
      BY <2>1, <3>1 DEF IInv, Judged, Earned, Granted
    <3>5. Looped'
      BY <3>1 DEF Posts, Looped
    <3> QED
      BY <2>4, <3>2, <3>3, <3>4, <3>5 DEF Rest
  <2> QED
    BY <2>3, <2>5, <2>6
<1>15. CASE UNCHANGED vars
  <2>1. Kept' /\ Routed' /\ Judged'
    BY <1>15 DEF vars, IInv, Kept, Routed, Reached, Judged, Granted
  <2>2. Earned' /\ Executed' /\ Looped'
    BY <1>15 DEF vars, IInv, Earned, Executed, Looped, MayExecute, Granted
  <2> QED
    BY <2>1, <2>2 DEF Rest
<1> QED
  BY <1>1, <1>2, <1>3, <1>4, <1>5, <1>6, <1>7, <1>8, <1>9, <1>10, <1>11, <1>12, <1>13,
     <1>14, <1>15 DEF Next, NodeStep

(***************************************************************************)
(* The theorems                                                            *)
(***************************************************************************)
LEMMA Initially == Init => IInv
<1> SUFFICES ASSUME Init PROVE IInv
  OBVIOUS
<1>1. node \in Nodes /\ node \notin Posts /\ node # "collect_additional_telemetry"
  BY PipelineNodes DEF Init
<1>2. policy_result = NoResult /\ ~ Granted
  BY DEF Init, NoResult, Granted
<1>3. prior \in [attempts : Nat, auto_executions : Nat]
  BY GraphAssumption DEF Init
<1>4. proposals \in Seq([id : 1 .. MaxProposals, action_type : ActionTypes,
                       target : {"demo-service"}])
  BY DEF Init
<1>5. faults \in 0 .. MaxFaults /\ iteration_count \in 1 .. MaxIterations
  BY GraphAssumption DEF Init
<1>6. TypeOK
  BY <1>1, <1>2, <1>3, <1>4, <1>5 DEF Init, TypeOK
<1>7. trail = <<>> /\ executions = <<>> /\ Len(executions) = 0 /\ faults = 0
  BY DEF Init
<1>8. Kept
  BY <1>7 DEF Kept
<1>9. Routed
  BY <1>1, <1>7 DEF Init, Routed, Reached, Posts
<1>10. Judged /\ Earned /\ Looped
  BY <1>1, <1>2 DEF Init, Judged, Earned, Looped, NoResult
<1>11. Executed
  BY <1>7 DEF Executed
<1> QED
  BY <1>6, <1>8, <1>9, <1>10, <1>11 DEF IInv

LEMMA Preserved == IInv /\ [Next]_vars => IInv'
  BY TypeStep, RestStep DEF IInv, Rest

\* Every state of a thread, whatever it went through, satisfies the invariant.
THEOREM GraphInductive == Spec => []IInv
<1> QED
  BY Initially, Preserved, PTL DEF Spec

\* The fields of the graph's state stay in their types, and the loop of
\* should_continue_investigation within max_iterations.
THEOREM GraphTypes == Spec => []TypeOK
<1>1. IInv => TypeOK
  BY DEF IInv
<1> QED
  BY <1>1, GraphInductive, PTL

\* The "Routing invariant violation" errors of await_remediation_approval and
\* execute_remediation are dead code, for resumed and restored threads too.
THEOREM RoutingHolds == Spec => []RoutingInvariant
<1>1. IInv => RoutingInvariant
  BY DEF IInv, Routed, Reached, Granted, RoutingInvariant
<1> QED
  BY <1>1, GraphInductive, PTL

\* execute_remediation calls the executor only for a root cause verified with
\* evidence, above the thresholds of verify_hypothesis and of the policy node.
THEOREM GroundedAlways == Spec => []ExecutionGrounded
<1>1. IInv => ExecutionGrounded
  BY DEF IInv, Executed, Judged, Earned, ExecutionGrounded
<1> QED
  BY <1>1, GraphInductive, PTL

\* Without an approval the executor is called only for what the policy node
\* allows: the automatic level, the pipeline enabled, both ceilings open.
THEOREM AuthorisedAlways == Spec => []ExecutionAuthorised
<1>1. ASSUME IInv PROVE ExecutionAuthorised
  <2>1. ASSUME NEW i \in DOMAIN executions
        PROVE  /\ settings.enabled /\ prior.attempts < MaxAttempts
               /\ \/ executions[i].approved
                  \/ /\ PolicyLevel[policy_result.action_type] <= settings.level
                     /\ prior.auto_executions < MaxAuto
    <3>1. executions # <<>>
      BY <2>1
    <3> QED
      BY <1>1, <2>1, <3>1 DEF IInv, Executed, Judged
  <2> QED
    BY <2>1 DEF ExecutionAuthorised
<1> QED
  BY <1>1, GraphInductive, PTL

\* A thread executes the one proposal its policy node chose, once more only for
\* an error or a crash in between.
THEOREM OneActionAlways == Spec => []OneActionPerThread
<1>1. ASSUME IInv PROVE OneActionPerThread
  <2>1. executions \in Seq(Calls) /\ Len(executions) \in Nat /\ faults \in Nat
        /\ DOMAIN executions = 1 .. Len(executions)
    BY <1>1, GraphAssumption, LenProperties DEF IInv, Kept, TypeOK
  <2>2. Len(executions) <= 1 + faults
    BY <1>1, <2>1 DEF IInv, Executed
  <2>3. ASSUME NEW i \in DOMAIN executions
        PROVE  executions[i].proposal_id = executions[1].proposal_id
    <3>1. 1 \in DOMAIN executions
      BY <2>1
    <3> QED
      BY <1>1, <3>1 DEF IInv, Executed
  <2> QED
    BY <2>2, <2>3 DEF OneActionPerThread
<1> QED
  BY <1>1, GraphInductive, PTL

(***************************************************************************)
(* The graph implements the thread its callers see                         *)
(***************************************************************************)
\* The invocation may call the executor.
Entitled ==
    \/ left.node = "none" /\ policy_result.decision = "ALLOWED"
    \/ left.node = "await" /\ answer = "APPROVE"
    \/ left.node = "execute"

\* The invocation has not called it.
Untouched == left.acted <=> executions # <<>>

Ends == {<<"success", "passed">>, <<"success", "failed">>, <<"failure", "none">>}

\* How an invocation that began with `left` comes to stand at node n with the
\* outcome r, v.
Stands(n, r, v) ==
    /\ n \notin Posts => left.node = "none" /\ r = "none" /\ v = "none" /\ executions = <<>>
    /\ n = "await_remediation_approval" => left.node \in {"none", "await"}
    /\ n \in {"execute_remediation", "validate_remediation"} => Entitled
    /\ n \in {"finalize_investigation", "END"} =>
        \/ Entitled /\ executions # <<>> /\ <<r, v>> \in Ends
        \/ /\ Untouched /\ r = "none" /\ v = "none"
           /\ \/ left.node = "none" /\ ~ Granted
              \/ left.node = "await" /\ answer = "REJECT"
        \/ left.node = "end" /\ Untouched /\ r = left.result /\ v = left.validation

\* There is no outcome before the executor returned, and one from then on.
Clean(n, r, v) ==
    /\ n \in {"await_remediation_approval", "execute_remediation"} => r = "none" /\ v = "none"
    /\ n = "validate_remediation" =>
         r \in {"success", "failure"} /\ v = "none" /\ executions # <<>>

\* The policy result is one that the policy may give for the proposals.
Chosen ==
    /\ node \in Posts \union {"evaluate_remediation_policy"} => proposals \in ProposalLists
    /\ \/ policy_result = NoResult
       \/ \E cause \in {"fault", "other"} :
            policy_result = Decide(proposals, PolicySettings, cause, prior)

Form(n, p, res, r, v, a, q) ==
    [node |-> n, proposals |-> p, policy_result |-> res,
     result |-> r, validation |-> v, acted |-> a, prior |-> q]

Stood(n, r, v, a) == Form(n, proposals, policy_result, r, v, a, prior)

\* What the invocation found.
Begun ==
    IF trail = <<>>
    THEN answer = NULL /\ left = [Unstarted EXCEPT !.prior = prior]
    ELSE /\ answer \in Answers
         /\ left.node \in {"await", "execute", "end"} /\ left.acted \in BOOLEAN
         /\ left = Stood(left.node, left.result, left.validation, left.acted)
         /\ left.node # "end" => left.result = "none" /\ left.validation = "none"

\* A crash may take the invocation back to any checkpoint since the pause, but
\* none of what the executor did: all that is said of the present node is said
\* of theirs.
Tracked ==
    /\ Chosen
    /\ acting => phase = "running" /\ executions # <<>>
    /\ Clean(node, result, validation)
    /\ \A i \in DOMAIN trail : Clean(trail[i].node, trail[i].result, trail[i].validation)
    /\ phase # "running" => left = Seen
    /\ phase \in {"paused", "stopped"} =>
         trail = <<Snapshot(node, decision, result, validation)>>
    /\ phase = "running" =>
        /\ Begun
        /\ left.acted => executions # <<>>
        /\ executions # <<>> => left.acted \/ Entitled
        /\ Stands(node, result, validation)
        /\ \A i \in DOMAIN trail : Stands(trail[i].node, trail[i].result, trail[i].validation)

LEMMA Stages ==
    ASSUME NEW n, NEW r, NEW v
    PROVE  /\ Stage(n) = "gather" <=> n \notin Posts
           /\ Stage(n) = "await" <=> n = "await_remediation_approval"
           /\ Stage(n) = "execute" <=> n \in {"execute_remediation", "validate_remediation"}
           /\ Stage(n) = "end" <=> n \in {"finalize_investigation", "END"}
           /\ n \in Posts => SeenAt(n, r, v) =
                Stood(Stage(n), IF Stage(n) = "end" THEN r ELSE "none",
                      IF Stage(n) = "end" THEN v ELSE "none", executions # <<>>)
BY DEF Stage, Posts, SeenAt, Stood, Form

\* Before the policy has decided nothing is at stake.
LEMMA TrackedGather ==
    ASSUME IInv, Tracked, phase = "running", node \notin Posts, node' \notin Posts,
           NEW n, GoTo(n),
           UNCHANGED <<settings, prior, phase, policy_result, result, validation, acting, answer,
                       executions, left>>,
           node' = "evaluate_remediation_policy" => proposals' \in ProposalLists
    PROVE  Tracked'
<1>1. policy_result = NoResult /\ trail = <<>>
  BY DEF IInv, Judged, Routed
<1>2. trail' = <<>>
  BY <1>1 DEF GoTo
<1>3. Chosen'
  BY <1>1 DEF Chosen
<1>4. Clean(node, result, validation)'
  BY DEF Clean, Posts
<1>5. Begun'
  BY <1>1, <1>2 DEF Tracked, Begun, Unstarted
<1>6. Stands(node, result, validation)'
  BY DEF Tracked, Stands, Posts
<1>7. Entitled' <=> Entitled
  BY DEF Entitled
<1> QED
  BY <1>2, <1>3, <1>4, <1>5, <1>6, <1>7 DEF Tracked

\* Beyond it, a step leaves what the earlier checkpoints say as it is.
LEMMA TrackedOnward ==
    ASSUME IInv, Tracked, phase = "running", node \in Posts, NEW n \in Posts, GoTo(n),
           UNCHANGED <<settings, prior, phase, proposals, policy_result, answer, executions, left>>,
           acting' => acting,
           decision' \in Answers \union {NULL},
           result' \in {"none", "success", "failure"},
           validation' \in {"none", "passed", "failed"},
           Clean(n, result', validation'), Stands(n, result', validation')
    PROVE  Tracked'
<1>1. /\ node' = n
      /\ trail = <<>> <=> trail' = <<>>
      /\ \A i \in DOMAIN trail' :
           \/ /\ trail'[i].node = n
              /\ trail'[i].result = result' /\ trail'[i].validation = validation'
           \/ i \in DOMAIN trail /\ trail'[i] = trail[i]
  BY Recorded DEF IInv
<1>3. Clean(node, result, validation)' /\ Stands(node, result, validation)'
  BY <1>1 DEF Clean, Stands, Entitled, Untouched, Granted
<1>4. Chosen'
  BY <1>1 DEF Tracked, Chosen, PolicySettings
<1>5. Begun'
  BY <1>1 DEF Tracked, Begun, Stood
<1>6. Entitled' <=> Entitled
  BY DEF Entitled
<1>7. \A i \in DOMAIN trail' :
        /\ Clean(trail[i].node, trail[i].result, trail[i].validation)'
        /\ Stands(trail[i].node, trail[i].result, trail[i].validation)'
  <2> TAKE i \in DOMAIN trail'
  <2>1. CASE i \in DOMAIN trail /\ trail'[i] = trail[i]
    BY <2>1 DEF Tracked, Clean, Stands, Entitled, Untouched, Granted
  <2>2. CASE /\ trail'[i].node = n
             /\ trail'[i].result = result' /\ trail'[i].validation = validation'
    BY <1>1, <1>3, <2>2 DEF Clean, Stands
  <2> QED
    BY <1>1, <2>1, <2>2
<1> QED
  BY <1>1, <1>3, <1>4, <1>5, <1>6, <1>7 DEF Tracked

LEMMA TrailSnapshots ==
    ASSUME Kept
    PROVE  \A i \in DOMAIN trail : trail[i] \in Snapshots
<1>1. \A i \in 1 .. Len(trail) : trail[i] \in Snapshots
  BY ElementOfSeq DEF Kept
<1> QED
  BY <1>1, LenProperties DEF Kept

LEMMA TrackedStep == IInv /\ Tracked /\ [Next]_vars => Tracked'
<1> SUFFICES ASSUME IInv, Tracked, [Next]_vars PROVE Tracked'
  OBVIOUS
<1> USE DEF run, reasoning, outcome, history
<1>0. TypeOK' /\ TypeOK
  BY TypeStep DEF IInv
<1>1. CASE Gather
  <2>1. PICK i \in 1 .. 6 : At(Pipeline[i]) /\ GoTo(Pipeline[i + 1])
    BY <1>1 DEF Gather
  <2>2. i \in 1 .. 7 /\ i + 1 \in 1 .. 7
    OBVIOUS
  <2>3. node \notin Posts /\ node' \notin Posts /\ phase = "running"
    BY <2>1, <2>2, PipelineNodes DEF At, GoTo
  <2>4. node' # "evaluate_remediation_policy"
    <3>1. i + 1 \in {2, 3, 4, 5, 6, 7}
      OBVIOUS
    <3> QED
      BY <2>1, <3>1 DEF GoTo, Pipeline
  <2> QED
    BY <1>1, <2>1, <2>3, <2>4, TrackedGather DEF Gather
<1>2. CASE GenerateHypotheses \/ CollectAdditionalTelemetry
  <2>1. /\ phase = "running" /\ node \notin Posts
        /\ \E n \in {"verify_hypothesis", "generate_hypotheses"} : GoTo(n) /\ node' = n
    BY <1>2 DEF GenerateHypotheses, CollectAdditionalTelemetry, At, GoTo, Posts
  <2> QED
    BY <1>2, <2>1, TrackedGather DEF GenerateHypotheses, CollectAdditionalTelemetry, Posts
<1>3. CASE VerifyHypothesis
  <2>1. /\ phase = "running" /\ node \notin Posts
        /\ \E n \in {"collect_additional_telemetry", "propose_remediation"} : GoTo(n) /\ node' = n
    BY <1>3 DEF VerifyHypothesis, VerifyWith, At, GoTo, Posts
  <2> QED
    BY <1>3, <2>1, TrackedGather DEF VerifyHypothesis, VerifyWith, Posts
<1>4. CASE ProposeRemediation
  <2>1. /\ phase = "running" /\ node \notin Posts /\ GoTo("evaluate_remediation_policy")
        /\ node' \notin Posts /\ proposals' \in ProposalLists
    BY <1>4 DEF ProposeRemediation, At, GoTo, Posts
  <2> QED
    BY <1>4, <2>1, TrackedGather DEF ProposeRemediation
<1>5. CASE EvaluateRemediationPolicy
  <2>1. PICK cause \in {"fault", "other"} :
          /\ policy_result' = IF Eligible THEN Decide(proposals, PolicySettings, cause, prior)
                              ELSE NoResult
          /\ GoTo(PolicyRoute(policy_result'))
    BY <1>5 DEF EvaluateRemediationPolicy
  <2>2. /\ node = "evaluate_remediation_policy" /\ node \notin Posts /\ phase = "running"
        /\ node' = PolicyRoute(policy_result')
        /\ node' \in {"execute_remediation", "await_remediation_approval",
                      "finalize_investigation"}
        /\ UNCHANGED <<settings, prior, phase, proposals, result, validation, acting, answer,
                       executions, left>>
    BY <1>5, <2>1 DEF EvaluateRemediationPolicy, At, GoTo, PolicyRoute, Posts
  <2>3. /\ trail = <<>> /\ ~ acting /\ executions = <<>>
        /\ left.node = "none" /\ result = "none" /\ validation = "none"
        /\ answer = NULL /\ left = [Unstarted EXCEPT !.prior = prior]
    BY <2>2 DEF IInv, Routed, Tracked, Stands, Begun, Posts
  <2>4. trail' = <<>> /\ left.acted = FALSE
    BY <2>1, <2>3 DEF GoTo, Unstarted
  <2>5. Chosen'
    <3>1. proposals' \in ProposalLists
      BY <2>2 DEF Tracked, Chosen
    <3>2. PolicySettings' = PolicySettings
      BY <2>2 DEF PolicySettings
    <3> QED
      BY <2>1, <2>2, <3>1, <3>2 DEF Chosen
  <2>6. Begun'
    BY <2>2, <2>3, <2>4 DEF Begun
  <2>7. Clean(node, result, validation)'
    BY <2>2, <2>3 DEF Clean
  <2>8. Stands(node, result, validation)'
    <3>1. node' = "execute_remediation" => Entitled'
      BY <2>2, <2>3 DEF PolicyRoute, Entitled
    <3>2. node' = "finalize_investigation" => ~ Granted'
      BY <2>2 DEF PolicyRoute, Granted
    <3> QED
      BY <2>2, <2>3, <2>4, <3>1, <3>2 DEF Stands, Untouched, Posts
  <2> QED
    BY <2>2, <2>3, <2>4, <2>5, <2>6, <2>7, <2>8 DEF Tracked
<1>6. CASE InterruptForApproval
  <2>1. /\ phase' = "paused" /\ left' = Seen'
        /\ trail' = <<Snapshot(node, decision, result, validation)>> /\ ~ acting
        /\ UNCHANGED <<run, node, reasoning, outcome, acting, answer, faults, given, executions>>
    BY <1>6 DEF InterruptForApproval, At, IInv, Routed
  <2>2. Chosen' /\ Clean(node, result, validation)'
    BY <2>1 DEF Tracked, Chosen, Clean, PolicySettings
  <2>3. \A i \in DOMAIN trail' : Clean(trail[i].node, trail[i].result, trail[i].validation)'
    BY <2>1, <2>2 DEF Snapshot, Clean
  <2> QED
    BY <2>1, <2>2, <2>3 DEF Tracked
<1>7. CASE AwaitRemediationApproval
  <2> DEFINE n == ApprovalRoute(answer)
  <2>1. /\ node = "await_remediation_approval" /\ phase = "running" /\ GoTo(n) /\ answer # NULL
        /\ UNCHANGED <<run, phase, reasoning, acting, answer, executions, left, result,
                       validation>>
    BY <1>7 DEF AwaitRemediationApproval, At
  <2>2. n \in {"execute_remediation", "finalize_investigation"} /\ n \in Posts /\ node \in Posts
    BY <2>1 DEF ApprovalRoute, Posts
  <2>3. /\ result = "none" /\ validation = "none" /\ left.node = "await"
        /\ answer \in Answers
    BY <2>1 DEF Tracked, Clean, Stands, Begun, Unstarted
  <2>4. Clean(n, result', validation')
    BY <2>1, <2>2, <2>3 DEF Clean
  <2>5. Stands(n, result', validation')
    <3>1. CASE answer = "APPROVE"
      BY <2>3, <3>1 DEF Stands, ApprovalRoute, Entitled, Posts
    <3>2. CASE answer = "REJECT"
      <4>1. ~ Entitled /\ Untouched
        BY <2>1, <2>3, <3>2 DEF Entitled, Untouched, Tracked
      <4> QED
        BY <2>1, <2>3, <3>2, <4>1 DEF Stands, ApprovalRoute, Posts
    <3> QED
      BY <2>3, <3>1, <3>2 DEF Answers
  <2>6. /\ decision' \in Answers \union {NULL}
        /\ result' \in {"none", "success", "failure"}
        /\ validation' \in {"none", "passed", "failed"}
    BY <1>0 DEF TypeOK
  <2> HIDE DEF n
  <2> QED
    BY <2>1, <2>2, <2>4, <2>5, <2>6, TrackedOnward
<1>8. CASE ExecuteRemediation
  <2>1. /\ node = "execute_remediation" /\ phase = "running"
        /\ \E call : executions' = Append(executions, call)
        /\ UNCHANGED <<run, node, phase, reasoning, outcome, answer, trail, left>>
    BY <1>8 DEF ExecuteRemediation, At
  <2>2. executions' # <<>>
    <3>1. executions \in Seq(Calls)
      BY DEF IInv, Kept
    <3> QED
      BY <2>1, <3>1
  <2>3. Entitled
    BY <2>1 DEF Tracked, Stands
  <2>4. Entitled'
    BY <2>1, <2>3 DEF Entitled
  <2>5. ASSUME NEW m, NEW r, NEW v, m \in Posts
        PROVE  /\ Clean(m, r, v) => Clean(m, r, v)'
               /\ Stands(m, r, v) => Stands(m, r, v)'
    <3>1. Clean(m, r, v) => Clean(m, r, v)'
      BY <2>2 DEF Clean
    <3>2. Stands(m, r, v) => Entitled' /\ executions' # <<>>
            /\ (m \in {"finalize_investigation", "END"} => <<r, v>> \in Ends)
            /\ (m = "await_remediation_approval" => left.node \in {"none", "await"})
      BY <2>2, <2>3, <2>4 DEF Stands, Entitled, Granted
    <3> QED
      BY <2>1, <2>5, <3>1, <3>2 DEF Stands
  <2>6. node \in Posts /\ \A i \in DOMAIN trail : trail[i].node \in Posts
    <3>1. \A i \in DOMAIN trail : trail[i] \in Snapshots
      BY TrailSnapshots DEF IInv
    <3> QED
      BY <2>1, <3>1 DEF Snapshots, Posts
  <2>7. Clean(node, result, validation)' /\ Stands(node, result, validation)'
    BY <2>1, <2>5, <2>6 DEF Tracked
  <2>8. \A i \in DOMAIN trail' :
          /\ Clean(trail[i].node, trail[i].result, trail[i].validation)'
          /\ Stands(trail[i].node, trail[i].result, trail[i].validation)'
    BY <2>1, <2>5, <2>6 DEF Tracked
  <2>9. Chosen' /\ Begun'
    BY <2>1 DEF Tracked, Chosen, Begun, Stood, PolicySettings
  <2> QED
    BY <2>1, <2>2, <2>4, <2>7, <2>8, <2>9 DEF Tracked
<1>9. CASE ExecutorReturns
  <2>1. /\ acting /\ acting' = FALSE /\ GoTo("validate_remediation")
        /\ result' \in {"success", "failure"}
        /\ UNCHANGED <<run, phase, reasoning, answer, executions, left, decision, validation>>
    BY <1>9 DEF ExecutorReturns, AfterExecution
  <2>2. node = "execute_remediation" /\ executions # <<>>
    BY <2>1 DEF IInv, Routed, Tracked
  <2>3. node \in Posts /\ "validate_remediation" \in Posts
    BY <2>2 DEF Posts
  <2>4. phase = "running"
    BY <2>1 DEF Tracked
  <2>5. validation = "none" /\ Entitled
    BY <2>2, <2>4 DEF Tracked, Clean, Stands
  <2>6. Clean("validate_remediation", result', validation')
    BY <2>1, <2>2, <2>5 DEF Clean
  <2>7. Stands("validate_remediation", result', validation')
    BY <2>5 DEF Stands, Posts
  <2>8. /\ decision' \in Answers \union {NULL}
        /\ result' \in {"none", "success", "failure"}
        /\ validation' \in {"none", "passed", "failed"}
    BY <1>0 DEF TypeOK
  <2> QED
    BY <2>1, <2>3, <2>4, <2>6, <2>7, <2>8, TrackedOnward
<1>10. CASE ValidateRemediation
  <2>1. /\ node = "validate_remediation" /\ phase = "running" /\ GoTo("finalize_investigation")
        /\ validation' \in Validation
        /\ UNCHANGED <<run, phase, reasoning, acting, answer, executions, left, decision, result>>
    BY <1>10 DEF ValidateRemediation, At
  <2>2. node \in Posts /\ "finalize_investigation" \in Posts
    BY <2>1 DEF Posts
  <2>3. Entitled /\ executions # <<>> /\ result \in {"success", "failure"}
    BY <2>1 DEF Tracked, Clean, Stands
  <2>4. <<result', validation'>> \in Ends
    BY <2>1, <2>3 DEF Validation, Ends
  <2>5. Clean("finalize_investigation", result', validation')
    BY DEF Clean
  <2>6. Stands("finalize_investigation", result', validation')
    BY <2>3, <2>4 DEF Stands, Posts
  <2>7. /\ decision' \in Answers \union {NULL}
        /\ result' \in {"none", "success", "failure"}
        /\ validation' \in {"none", "passed", "failed"}
    BY <1>0 DEF TypeOK
  <2> QED
    BY <2>1, <2>2, <2>5, <2>6, <2>7, TrackedOnward
<1>11. CASE FinalizeInvestigation
  <2>1. /\ node = "finalize_investigation" /\ GoTo("END") /\ phase' = "ended" /\ left' = Seen'
        /\ ~ acting /\ UNCHANGED <<run, reasoning, acting, answer, executions, outcome>>
    BY <1>11 DEF FinalizeInvestigation, At, IInv, Routed
  <2>2. decision' \in Answers \union {NULL}
        /\ result' \in {"none", "success", "failure"}
        /\ validation' \in {"none", "passed", "failed"}
    BY <1>0 DEF TypeOK
  <2>3. /\ node' = "END"
        /\ \A i \in DOMAIN trail' :
             \/ trail'[i].node = "END"
             \/ i \in DOMAIN trail /\ trail'[i] = trail[i]
    BY <2>1, <2>2, Recorded DEF IInv, Posts
  <2>4. Chosen' /\ Clean(node, result, validation)'
    BY <2>1, <2>3 DEF Tracked, Chosen, Clean, PolicySettings, Posts
  <2>5. \A i \in DOMAIN trail' : Clean(trail[i].node, trail[i].result, trail[i].validation)'
    BY <2>1, <2>3 DEF Tracked, Clean
  <2> QED
    BY <2>1, <2>4, <2>5 DEF Tracked
<1>12. ASSUME NEW a \in Answers, Resume(a) PROVE Tracked'
  <2>1. /\ answer' = a /\ phase \in {"paused", "stopped"} /\ phase' = "running"
        /\ UNCHANGED <<run, node, reasoning, outcome, acting, trail, executions, left>>
    BY <1>12 DEF Resume
  <2>2. /\ left = Seen /\ trail = <<Snapshot(node, decision, result, validation)>>
    BY <2>1 DEF Tracked
  <2>3. trail # <<>> /\ node \in Posts
    BY <2>2 DEF IInv, Routed
  <2>4. left = Stood(Stage(node), IF Stage(node) = "end" THEN result ELSE "none",
                     IF Stage(node) = "end" THEN validation ELSE "none", executions # <<>>)
    BY <2>2, <2>3, Stages DEF Seen
  <2>5. /\ left.node = Stage(node) /\ left.acted = (executions # <<>>)
        /\ left.result = (IF Stage(node) = "end" THEN result ELSE "none")
        /\ left.validation = (IF Stage(node) = "end" THEN validation ELSE "none")
    BY <2>4 DEF Stood, Form
  <2>6. Stage(node) \in {"await", "execute", "end"}
    BY <2>3, Stages DEF Posts
  <2>7. Begun'
    <3>1. left = Stood(left.node, left.result, left.validation, left.acted)
      BY <2>4, <2>5
    <3> QED
      BY <2>1, <2>3, <2>5, <2>6, <3>1 DEF Begun, Stood
  <2>8. Chosen' /\ Clean(node, result, validation)'
    BY <2>1 DEF Tracked, Chosen, Clean, PolicySettings
  <2>9. Stands(node, result, validation)'
    <3>1. Untouched'
      BY <2>1, <2>5 DEF Untouched
    <3>2. node \in {"execute_remediation", "validate_remediation"} => Entitled'
      BY <2>1, <2>5, Stages DEF Entitled
    <3>3. node = "await_remediation_approval" => left.node = "await"
      BY <2>5, Stages
    <3>4. node \in {"finalize_investigation", "END"} =>
            left.node = "end" /\ result = left.result /\ validation = left.validation
      BY <2>5, Stages
    <3> QED
      BY <2>1, <2>3, <3>1, <3>2, <3>3, <3>4 DEF Stands
  <2>10. \A i \in DOMAIN trail' :
           /\ Clean(trail[i].node, trail[i].result, trail[i].validation)'
           /\ Stands(trail[i].node, trail[i].result, trail[i].validation)'
    <3>1. \A i \in DOMAIN trail' : trail'[i] = Snapshot(node', decision', result', validation')
      BY <2>1, <2>2
    <3> QED
      BY <2>8, <2>9, <3>1 DEF Snapshot
  <2> QED
    BY <2>1, <2>5, <2>7, <2>8, <2>9, <2>10 DEF Tracked
<1>13. CASE Raise
  <2>1. /\ acting' = FALSE /\ phase' = Broken /\ left' = Seen'
        /\ trail' = IF trail = <<>> THEN <<>>
                    ELSE <<Snapshot(node, decision, result, validation)>>
        /\ UNCHANGED <<run, node, reasoning, outcome, answer, executions>>
    BY <1>13 DEF Raise
  <2>2. Chosen' /\ Clean(node, result, validation)'
    BY <2>1 DEF Tracked, Chosen, Clean, PolicySettings
  <2>3. \A i \in DOMAIN trail' : Clean(trail[i].node, trail[i].result, trail[i].validation)'
    BY <2>1, <2>2 DEF Snapshot, Clean
  <2> QED
    BY <2>1, <2>2, <2>3 DEF Tracked, Broken
<1>14. CASE Crash
  <2>1. /\ acting' = FALSE /\ phase' = Broken /\ left' = Seen'
        /\ UNCHANGED <<run, reasoning, answer, executions>>
    BY <1>14 DEF Crash
  <2>2. CASE trail = <<>>
    <3>1. UNCHANGED <<node, outcome, trail>> /\ phase' = "abandoned"
      BY <1>14, <2>1, <2>2 DEF Crash, Broken
    <3>2. Chosen' /\ Clean(node, result, validation)'
      BY <2>1, <3>1 DEF Tracked, Chosen, Clean, PolicySettings
    <3> QED
      BY <2>1, <2>2, <3>1, <3>2 DEF Tracked
  <2>3. CASE trail # <<>>
    <3>1. PICK i \in DOMAIN trail : Restore(trail[i])
      BY <1>14, <2>3 DEF Crash
    <3>2. /\ trail[i] \in Snapshots
          /\ trail[i] = Snapshot(trail[i].node, trail[i].decision, trail[i].result,
                                 trail[i].validation)
      BY <3>1, TrailSnapshots DEF IInv, Snapshots, Snapshot
    <3>3. /\ phase' = "stopped" /\ node' = trail[i].node /\ result' = trail[i].result
          /\ validation' = trail[i].validation
          /\ trail' = <<Snapshot(node', decision', result', validation')>>
      BY <2>1, <2>3, <3>1, <3>2 DEF Broken, Restore
    <3>4. Chosen'
      <4>1. proposals \in ProposalLists
        BY <2>3 DEF Tracked, Chosen, IInv, Routed
      <4> QED
        BY <2>1, <4>1 DEF Tracked, Chosen, PolicySettings
    <3>5. Clean(node, result, validation)'
      BY <2>1, <3>3 DEF Tracked, Clean
    <3>6. \A j \in DOMAIN trail' : Clean(trail[j].node, trail[j].result, trail[j].validation)'
      <4>1. \A j \in DOMAIN trail' : trail'[j] = Snapshot(node', decision', result', validation')
        BY <3>3
      <4> QED
        BY <3>5, <4>1 DEF Snapshot, Clean
    <3> QED
      BY <2>1, <3>3, <3>4, <3>5, <3>6 DEF Tracked
  <2> QED
    BY <2>2, <2>3
<1>15. CASE UNCHANGED vars
  <2>1. UNCHANGED <<settings, prior, node, phase, proposals, policy_result, decision, result,
                    validation, acting, answer, trail, executions, left>>
    BY <1>15 DEF vars
  <2>2. Chosen' /\ (Begun' <=> Begun) /\ (Entitled' <=> Entitled) /\ Seen' = Seen
    BY <2>1 DEF Tracked, Chosen, Begun, Stood, PolicySettings, Entitled, Seen, SeenAt
  <2> QED
    BY <2>1, <2>2 DEF Tracked, Clean, Stands, Untouched, Granted
<1> QED
  BY <1>1, <1>2, <1>3, <1>4, <1>5, <1>6, <1>7, <1>8, <1>9, <1>10, <1>11, <1>12, <1>13,
     <1>14, <1>15 DEF Next, NodeStep

\* What the running invocation may come to.
Ahead == IF answer = NULL THEN FromStart(left, PolicySettings)
         ELSE FromResume(left, answer, PolicySettings)

\* The records that Form describes: EXCEPT is easier to follow from set to set.
Exactly(n, p, res, r, v, a, q) ==
    [node : {n}, proposals : {p}, policy_result : {res},
     result : {r}, validation : {v}, acted : {a}, prior : {q}]

LEMMA Forms ==
    ASSUME NEW n, NEW p, NEW res, NEW r, NEW v, NEW a, NEW q
    PROVE  /\ Form(n, p, res, r, v, a, q) \in Exactly(n, p, res, r, v, a, q)
           /\ \A g \in Exactly(n, p, res, r, v, a, q) : g = Form(n, p, res, r, v, a, q)
BY DEF Form, Exactly

LEMMA ExecutionOutcomes ==
    ASSUME NEW n, NEW p, NEW res, NEW a, NEW q,
           NEW g, g = Form(n, p, res, "none", "none", a, q)
    PROVE  /\ \A b \in {a, TRUE} :
                Raised(Form("execute", p, res, "none", "none", b, q)) \in FromExecute(g)
           /\ \A r, v : <<r, v>> \in Ends =>
                Returned(Form("end", p, res, r, v, TRUE, q)) \in FromExecute(g)
<1>1. g \in Exactly(n, p, res, "none", "none", a, q)
  BY Forms
<1>2. ASSUME NEW b \in {a, TRUE}
      PROVE  Raised(Form("execute", p, res, "none", "none", b, q)) \in FromExecute(g)
  <2> DEFINE h == [g EXCEPT !.node = "execute", !.acted = b]
  <2>1. b \in {g.acted, TRUE}
    BY <1>1 DEF Exactly
  <2>2. h \in Exactly("execute", p, res, "none", "none", b, q)
    BY <1>1 DEF Exactly
  <2>3. Raised(h) \in FromExecute(g)
    BY <2>1 DEF FromExecute
  <2> HIDE DEF h
  <2> QED
    BY <2>2, <2>3, Forms
<1>3. ASSUME NEW r, NEW v, <<r, v>> \in Ends
      PROVE  Returned(Form("end", p, res, r, v, TRUE, q)) \in FromExecute(g)
  <2> DEFINE h(pair) == [g EXCEPT !.node = "end", !.acted = TRUE, !.result = pair[1],
                                  !.validation = pair[2]]
  <2>1. h(<<r, v>>) \in Exactly("end", p, res, r, v, TRUE, q)
    BY <1>1 DEF Exactly
  <2>2. \A pair \in Ends : Returned(h(pair)) \in FromExecute(g)
    BY DEF FromExecute, Ends
  <2> HIDE DEF h
  <2> QED
    BY <1>3, <2>1, <2>2, Forms
<1> QED
  BY <1>2, <1>3

\* Where a thread that has just begun may stand once its policy has decided.
LEMMA DecisionOutcomes ==
    ASSUME NEW q, NEW s, NEW ps \in ProposalLists, NEW cause \in {"fault", "other"},
           NEW g, g = Form("none", <<>>, NoResult, "none", "none", FALSE, q)
    PROVE  /\ FromPolicy(Form("none", ps, Decide(ps, s, cause, q), "none", "none", FALSE, q))
                \subseteq FromStart(g, s)
           /\ Returned(Form("end", ps, NoResult, "none", "none", FALSE, q)) \in FromStart(g, s)
<1> DEFINE proposed == [g EXCEPT !.proposals = ps]
           decided == [proposed EXCEPT !.policy_result = Decide(ps, s, cause, g.prior)]
           refused == [proposed EXCEPT !.node = "end"]
<1>1. /\ Returned(refused) \in FromStart(g, s)
      /\ FromPolicy(decided) \subseteq FromStart(g, s)
  <2> DEFINE next(list) ==
                {Returned([[g EXCEPT !.proposals = list] EXCEPT !.node = "end"])}
                \union UNION {FromPolicy([[g EXCEPT !.proposals = list]
                                  EXCEPT !.policy_result = Decide(list, s, reason, g.prior)]) :
                              reason \in {"fault", "other"}}
  <2>1. /\ Returned(refused) \in next(ps)
        /\ FromPolicy(decided) \subseteq next(ps)
    OBVIOUS
  <2>2. UNION {next(list) : list \in ProposalLists} \subseteq FromStart(g, s)
    BY DEF FromStart, OrBroken
  <2> HIDE DEF next
  <2> QED
    BY <2>1, <2>2
<1>2. g \in Exactly("none", <<>>, NoResult, "none", "none", FALSE, q)
  BY Forms
<1>3. g.prior = q /\ proposed \in Exactly("none", ps, NoResult, "none", "none", FALSE, q)
  BY <1>2 DEF Exactly
<1> HIDE DEF proposed
<1>4. refused \in Exactly("end", ps, NoResult, "none", "none", FALSE, q)
  BY <1>3 DEF Exactly
<1>5. decided \in Exactly("none", ps, Decide(ps, s, cause, q), "none", "none", FALSE, q)
  BY <1>3 DEF Exactly
<1> HIDE DEF refused, decided
<1> QED
  BY <1>1, <1>4, <1>5, Forms

LEMMA BrokenOutcomes ==
    ASSUME NEW p, NEW res, NEW a, NEW q, NEW g
    PROVE  /\ g = Form("none", p, res, "none", "none", a, q) =>
                \A s : Raised(Form("gather", p, res, "none", "none", a, q)) \in FromStart(g, s)
           /\ g = Form("await", p, res, "none", "none", a, q) =>
                /\ Raised(g) \in FromAwait(g, "APPROVE") \intersect FromAwait(g, "REJECT")
                /\ Raised(Form("await", p, res, "none", "none", TRUE, q)) \in FromAwait(g, "APPROVE")
                /\ Returned(Form("end", p, res, "none", "none", a, q)) \in FromAwait(g, "REJECT")
<1>1. ASSUME g = Form("none", p, res, "none", "none", a, q), NEW s
      PROVE  Raised(Form("gather", p, res, "none", "none", a, q)) \in FromStart(g, s)
  <2> DEFINE first == [g EXCEPT !.node = "gather"]
             broken == [first EXCEPT !.acted = first.acted]
  <2>1. g \in Exactly("none", p, res, "none", "none", a, q)
    BY <1>1, Forms
  <2>2. Raised(broken) \in FromStart(g, s)
    BY DEF FromStart, OrBroken
  <2>3. first \in Exactly("gather", p, res, "none", "none", a, q)
    BY <2>1 DEF Exactly
  <2> HIDE DEF first
  <2>4. broken \in Exactly("gather", p, res, "none", "none", a, q)
    BY <2>3 DEF Exactly
  <2> HIDE DEF broken
  <2> QED
    BY <2>2, <2>4, Forms
<1>2. ASSUME g = Form("await", p, res, "none", "none", a, q)
      PROVE  /\ Raised(g) \in FromAwait(g, "APPROVE") \intersect FromAwait(g, "REJECT")
             /\ Raised(Form("await", p, res, "none", "none", TRUE, q)) \in FromAwait(g, "APPROVE")
             /\ Returned(Form("end", p, res, "none", "none", a, q)) \in FromAwait(g, "REJECT")
  <2> DEFINE broken(b) == [g EXCEPT !.acted = b]
             ended == [g EXCEPT !.node = "end"]
  <2>1. g \in Exactly("await", p, res, "none", "none", a, q) /\ g.acted = a
    BY <1>2, Forms DEF Exactly
  <2>2. /\ broken(a) \in Exactly("await", p, res, "none", "none", a, q)
        /\ broken(TRUE) \in Exactly("await", p, res, "none", "none", TRUE, q)
        /\ ended \in Exactly("end", p, res, "none", "none", a, q)
    BY <2>1 DEF Exactly
  <2>3. /\ Raised(broken(a)) \in FromAwait(g, "APPROVE")
        /\ Raised(broken(a)) \in FromAwait(g, "REJECT")
        /\ Returned(ended) \in FromAwait(g, "REJECT")
    BY <2>1 DEF FromAwait, OrBroken
  <2>4. Raised(broken(TRUE)) \in FromAwait(g, "APPROVE")
    <3>1. Raised(Form("execute", p, res, "none", "none", TRUE, q)) \in FromExecute(g)
      BY <1>2, ExecutionOutcomes
    <3>2. Raised(Form("execute", p, res, "none", "none", TRUE, q)).graph.acted = TRUE
      BY DEF Raised, Form
    <3>3. TRUE \in {x.graph.acted : x \in FromExecute(g)}
      BY <3>1, <3>2
    <3> QED
      BY <3>3 DEF FromAwait, OrBroken
  <2> HIDE DEF broken, ended
  <2> QED
    BY <1>2, <2>2, <2>3, <2>4, Forms
<1> QED
  BY <1>1, <1>2

\* What a fresh thread is.
LEMMA Fresh ==
    ASSUME NEW q
    PROVE  [Unstarted EXCEPT !.prior = q] = Form("none", <<>>, NoResult, "none", "none", FALSE, q)
<1>1. [Unstarted EXCEPT !.prior = q] \in Exactly("none", <<>>, NoResult, "none", "none", FALSE, q)
  BY DEF Unstarted, Exactly
<1> QED
  BY <1>1, Forms

\* An invocation that may call the executor may come to all that this may lead to.
LEMMA EntitledOutcomes ==
    ASSUME Tracked, phase = "running", node \in Posts, Entitled
    PROVE  /\ \A b \in {left.acted, TRUE} : Raised(Stood("execute", "none", "none", b)) \in Ahead
           /\ \A r, v : <<r, v>> \in Ends => Returned(Stood("end", r, v, TRUE)) \in Ahead
<1>1. PICK g, n : /\ g = Stood(n, "none", "none", left.acted)
                  /\ FromExecute(g) \subseteq Ahead
  <2>1. CASE trail = <<>>
    <3>1. answer = NULL /\ left = Form("none", <<>>, NoResult, "none", "none", FALSE, prior)
      BY <2>1, Fresh DEF Tracked, Begun
    <3>2. left.node = "none" /\ left.acted = FALSE
      BY <3>1 DEF Form
    <3>3. policy_result.decision = "ALLOWED"
      BY <3>2 DEF Entitled
    <3>4. PICK cause \in {"fault", "other"} :
            policy_result = Decide(proposals, PolicySettings, cause, prior)
      BY <3>3 DEF Tracked, Chosen, NoResult
    <3>5. proposals \in ProposalLists
      BY DEF Tracked, Chosen
    <3> DEFINE g == Form("none", proposals, policy_result, "none", "none", FALSE, prior)
    <3>6. FromPolicy(g) \subseteq FromStart(left, PolicySettings)
      BY <3>1, <3>4, <3>5, DecisionOutcomes
    <3>7. g.policy_result = policy_result
      BY DEF Form
    <3>8. FromPolicy(g) = FromExecute(g)
      <4> HIDE DEF g
      <4> QED
        BY <3>3, <3>7 DEF FromPolicy
    <3>9. g = Stood("none", "none", "none", left.acted)
      BY <3>2 DEF Stood
    <3> QED
      BY <3>1, <3>6, <3>8, <3>9 DEF Ahead
  <2>2. CASE trail # <<>>
    <3>1. /\ answer \in Answers /\ answer # NULL
          /\ left.node = "execute" \/ (left.node = "await" /\ answer = "APPROVE")
      <4>1. answer \in Answers /\ left.node \in {"await", "execute", "end"}
        BY <2>2 DEF Tracked, Begun
      <4> QED
        BY <4>1, GraphAssumption DEF Entitled
    <3>2. left = Stood(left.node, "none", "none", left.acted)
      <4>1. /\ left = Stood(left.node, left.result, left.validation, left.acted)
            /\ left.result = "none" /\ left.validation = "none"
        BY <2>2, <3>1 DEF Tracked, Begun
      <4> QED
        BY <4>1
    <3>3. FromExecute(left) \subseteq Ahead
      BY <3>1 DEF Ahead, FromResume, FromAwait, OrBroken
    <3> QED
      BY <3>2, <3>3
  <2> QED
    BY <2>1, <2>2
<1>2. g = Form(n, proposals, policy_result, "none", "none", left.acted, prior)
  BY <1>1 DEF Stood
<1>3. /\ \A b \in {left.acted, TRUE} :
             Raised(Form("execute", proposals, policy_result, "none", "none", b, prior))
               \in FromExecute(g)
      /\ \A r, v : <<r, v>> \in Ends =>
             Returned(Form("end", proposals, policy_result, r, v, TRUE, prior)) \in FromExecute(g)
  BY <1>2, ExecutionOutcomes
<1> QED
  BY <1>1, <1>3 DEF Stood

\* Wherever the invocation stands, or a crash may take it, is what one of its
\* outcomes shows, and it may return where it does.
LEMMA Shown ==
    ASSUME IInv, Tracked, phase = "running", NEW n, NEW r, NEW v,
           Clean(n, r, v), Stands(n, r, v), n \notin Posts => n = node,
           n \in Posts => node \in Posts, Reached(n)
    PROVE  \E x \in Ahead :
             /\ x.graph = SeenAt(n, r, v)
             /\ \/ n \in {"finalize_investigation", "END"}
                \/ n = "await_remediation_approval" /\ answer = NULL
                => ~ x.raised
<1>0. \A h : /\ Raised(h).graph = h /\ Returned(h).graph = h
             /\ Raised(h).raised = TRUE /\ Returned(h).raised = FALSE
  BY DEF Raised, Returned
<1>1. CASE n \notin Posts
  <2>1. /\ left.node = "none" /\ executions = <<>> /\ policy_result = NoResult
        /\ answer = NULL /\ left = [Unstarted EXCEPT !.prior = prior]
    BY <1>1 DEF Tracked, Begun, Stands, IInv, Judged
  <2>2. left = Form("none", <<>>, NoResult, "none", "none", FALSE, prior)
    BY <2>1, Fresh
  <2>3. Raised(Form("gather", <<>>, NoResult, "none", "none", FALSE, prior)) \in Ahead
    BY <2>1, <2>2, BrokenOutcomes DEF Ahead
  <2>4. SeenAt(n, r, v) = Form("gather", <<>>, NoResult, "none", "none", FALSE, prior)
    BY <1>1, <2>1, Stages DEF SeenAt, Form
  <2>5. n \notin {"finalize_investigation", "END", "await_remediation_approval"}
    BY <1>1 DEF Posts
  <2> QED
    BY <1>0, <2>3, <2>4, <2>5
<1>2. CASE n \in Posts
  <2> DEFINE e == executions # <<>>
  <2>1. SeenAt(n, r, v) = Stood(Stage(n), IF Stage(n) = "end" THEN r ELSE "none",
                                IF Stage(n) = "end" THEN v ELSE "none", e)
    BY <1>2, Stages
  <2>2. e \in BOOLEAN /\ left.acted \in BOOLEAN /\ (left.acted => e)
        /\ (e => left.acted \/ Entitled)
    <3>1. left.acted \in BOOLEAN
      <4>1. CASE trail = <<>>
        BY <4>1 DEF Tracked, Begun, Unstarted
      <4>2. CASE trail # <<>>
        BY <4>2 DEF Tracked, Begun
      <4> QED
        BY <4>1, <4>2
    <3> QED
      BY <3>1 DEF Tracked
  <2> HIDE DEF e
  <2>3. ASSUME Entitled
        PROVE  /\ \A b \in {left.acted, TRUE} :
                     Raised(Stood("execute", "none", "none", b)) \in Ahead
               /\ \A s, w : <<s, w>> \in Ends => Returned(Stood("end", s, w, TRUE)) \in Ahead
    BY <1>2, <2>3, EntitledOutcomes
  <2>4. CASE n \in {"execute_remediation", "validate_remediation"}
    <3>1. Entitled /\ Stage(n) = "execute"
      BY <2>4, Stages DEF Stands
    <3>2. Raised(Stood("execute", "none", "none", e)) \in Ahead
      BY <2>2, <2>3, <3>1
    <3>3. SeenAt(n, r, v) = Stood("execute", "none", "none", e)
      BY <2>1, <3>1
    <3> QED
      BY <1>0, <2>4, <3>2, <3>3
  <2>5. CASE n = "await_remediation_approval"
    <3>1. SeenAt(n, r, v) = Stood("await", "none", "none", e)
      BY <2>1, <2>5, Stages
    <3>2. policy_result.decision = "APPROVAL_REQUIRED"
      BY <2>5 DEF Reached
    <3>3. CASE trail = <<>>
      <4>1. answer = NULL /\ left = Form("none", <<>>, NoResult, "none", "none", FALSE, prior)
        BY <3>3, Fresh DEF Tracked, Begun
      <4>2. left.acted = FALSE /\ left.node = "none"
        BY <4>1 DEF Form
      <4>3. e = FALSE
        BY <2>2, <3>2, <4>2 DEF Entitled
      <4>4. PICK cause \in {"fault", "other"} :
              policy_result = Decide(proposals, PolicySettings, cause, prior)
        BY <3>2 DEF Tracked, Chosen, NoResult
      <4>5. proposals \in ProposalLists
        BY <1>2 DEF Tracked, Chosen
      <4> DEFINE h == Form("none", proposals, policy_result, "none", "none", FALSE, prior)
      <4>6. FromPolicy(h) \subseteq Ahead
        BY <4>1, <4>4, <4>5, DecisionOutcomes DEF Ahead
      <4>7. h \in Exactly("none", proposals, policy_result, "none", "none", FALSE, prior)
        BY Forms
      <4> HIDE DEF h
      <4> DEFINE k == [h EXCEPT !.node = "await"]
      <4>8. h.policy_result = policy_result
            /\ k \in Exactly("await", proposals, policy_result, "none", "none", FALSE, prior)
        BY <4>7 DEF Exactly
      <4>9. Returned(k) \in FromPolicy(h)
        BY <3>2, <4>8 DEF FromPolicy
      <4> HIDE DEF k
      <4>10. k = SeenAt(n, r, v)
        BY <3>1, <4>3, <4>8, Forms DEF Stood
      <4> QED
        BY <1>0, <4>6, <4>9, <4>10
    <3>4. CASE trail # <<>>
      <4>1. answer \in Answers /\ answer # NULL
        BY <3>4, GraphAssumption DEF Tracked, Begun
      <4>2. left.node = "await"
        BY <2>5, <3>4 DEF Tracked, Begun, Stands
      <4>3. /\ left = Stood("await", left.result, left.validation, left.acted)
            /\ left.result = "none" /\ left.validation = "none"
        BY <3>4, <4>2 DEF Tracked, Begun
      <4>4. left = Form("await", proposals, policy_result, "none", "none", left.acted, prior)
        BY <4>3 DEF Stood
      <4>5. Ahead = FromAwait(left, answer)
        BY <4>1, <4>2 DEF Ahead, FromResume
      <4>6. /\ Raised(left) \in Ahead
            /\ answer = "APPROVE" =>
                 Raised(Form("await", proposals, policy_result, "none", "none", TRUE, prior)) \in Ahead
        BY <4>1, <4>4, <4>5, BrokenOutcomes DEF Answers
      <4>7. CASE e = left.acted
        BY <1>0, <2>5, <3>1, <4>1, <4>4, <4>6, <4>7 DEF Stood
      <4>8. CASE e = TRUE /\ left.acted = FALSE
        <5>1. answer = "APPROVE"
          BY <2>2, <4>2, <4>8 DEF Entitled
        <5>2. SeenAt(n, r, v) = Form("await", proposals, policy_result, "none", "none", TRUE, prior)
          BY <3>1, <4>8 DEF Stood
        <5> QED
          BY <1>0, <2>5, <4>1, <4>6, <5>1, <5>2
      <4> QED
        BY <2>2, <4>7, <4>8
    <3> QED
      BY <3>3, <3>4
  <2>6. CASE n \in {"finalize_investigation", "END"}
    <3>1. SeenAt(n, r, v) = Stood("end", r, v, e)
      BY <2>1, <2>6, Stages
    <3>2. SUFFICES Returned(Stood("end", r, v, e)) \in Ahead
      BY <1>0, <3>1
    <3>3. CASE Entitled /\ e /\ <<r, v>> \in Ends
      BY <2>2, <2>3, <3>3
    <3>4. CASE Untouched /\ r = "none" /\ v = "none" /\ left.node = "none" /\ ~ Granted
      <4>1. trail = <<>>
        BY <3>4 DEF Tracked, Begun
      <4>2. answer = NULL /\ left = Form("none", <<>>, NoResult, "none", "none", FALSE, prior)
        BY <4>1, Fresh DEF Tracked, Begun
      <4>3. left.acted = FALSE
        BY <4>2 DEF Form
      <4>4. e = FALSE
        BY <2>2, <3>4, <4>3 DEF Untouched, e
      <4>5. proposals \in ProposalLists
        BY <1>2 DEF Tracked, Chosen
      <4>6. CASE policy_result = NoResult
        <5>1. Returned(Form("end", proposals, NoResult, "none", "none", FALSE, prior)) \in Ahead
          <6>1. "fault" \in {"fault", "other"}
            OBVIOUS
          <6> QED
            BY <4>2, <4>5, <6>1, DecisionOutcomes DEF Ahead
        <5> QED
          BY <3>4, <4>4, <4>6, <5>1 DEF Stood
      <4>7. CASE policy_result # NoResult
        <5>1. PICK cause \in {"fault", "other"} :
                policy_result = Decide(proposals, PolicySettings, cause, prior)
          BY <4>7 DEF Tracked, Chosen
        <5> DEFINE h == Form("none", proposals, policy_result, "none", "none", FALSE, prior)
        <5>2. FromPolicy(h) \subseteq Ahead
          BY <4>2, <4>5, <5>1, DecisionOutcomes DEF Ahead
        <5>3. h \in Exactly("none", proposals, policy_result, "none", "none", FALSE, prior)
          BY Forms
        <5> HIDE DEF h
        <5> DEFINE k == [h EXCEPT !.node = "end"]
        <5>4. h.policy_result = policy_result
              /\ k \in Exactly("end", proposals, policy_result, "none", "none", FALSE, prior)
          BY <5>3 DEF Exactly
        <5>5. Returned(k) \in FromPolicy(h)
          BY <3>4, <5>4 DEF FromPolicy, Granted
        <5> HIDE DEF k
        <5>6. k = Stood("end", r, v, e)
          BY <3>4, <4>4, <5>4, Forms DEF Stood
        <5> QED
          BY <5>2, <5>5, <5>6
      <4> QED
        BY <4>6, <4>7
    <3>5. CASE /\ Untouched /\ r = "none" /\ v = "none"
               /\ left.node = "await" /\ answer = "REJECT"
      <4>1. trail # <<>>
        BY <3>5 DEF Tracked, Begun, Unstarted
      <4>2. /\ left = Stood("await", left.result, left.validation, left.acted)
            /\ left.result = "none" /\ left.validation = "none" /\ answer # NULL
        BY <3>5, <4>1, GraphAssumption DEF Tracked, Begun
      <4>3. left = Form("await", proposals, policy_result, "none", "none", left.acted, prior)
        BY <4>2 DEF Stood
      <4>4. Ahead = FromAwait(left, "REJECT")
        BY <3>5, <4>2 DEF Ahead, FromResume
      <4>5. Returned(Form("end", proposals, policy_result, "none", "none", left.acted, prior)) \in Ahead
        BY <4>3, <4>4, BrokenOutcomes
      <4>6. e = left.acted
        BY <2>2, <3>5 DEF Untouched, e
      <4> QED
        BY <3>5, <4>5, <4>6 DEF Stood
    <3>6. CASE left.node = "end" /\ Untouched /\ r = left.result /\ v = left.validation
      <4>1. trail # <<>>
        BY <3>6 DEF Tracked, Begun, Unstarted
      <4>2. /\ left = Stood("end", left.result, left.validation, left.acted) /\ answer # NULL
        BY <3>6, <4>1, GraphAssumption DEF Tracked, Begun
      <4>3. Ahead = {Returned(left)}
        BY <3>6, <4>2 DEF Ahead, FromResume
      <4>4. e = left.acted
        BY <2>2, <3>6 DEF Untouched, e
      <4> QED
        BY <3>6, <4>2, <4>3, <4>4
    <3> QED
      BY <2>6, <3>3, <3>4, <3>5, <3>6 DEF Stands, e
  <2> QED
    BY <1>2, <2>4, <2>5, <2>6 DEF Posts
<1> QED
  BY <1>1, <1>2

\* A new thread.
LEMMA TrackedInit == Init => Tracked
<1> SUFFICES ASSUME Init PROVE Tracked
  OBVIOUS
<1>1. node \notin Posts /\ node # "evaluate_remediation_policy"
  BY DEF Init, Pipeline, Posts
<1>2. trail = <<>> /\ executions = <<>> /\ phase = "running" /\ policy_result = NoResult
  BY DEF Init
<1>3. Chosen /\ Clean(node, result, validation) /\ ~ acting
  BY <1>1, <1>2 DEF Init, Chosen, Clean, Posts
<1>4. left.node = "none" /\ ~ left.acted
  BY DEF Init, Unstarted
<1>5. Begun /\ Stands(node, result, validation)
  BY <1>1, <1>2, <1>4 DEF Init, Begun, Stands, Posts
<1> QED
  BY <1>2, <1>3, <1>4, <1>5 DEF Tracked

\* The initial states map to initial states ...
LEMMA RefinementInit == Init => Thread!Init
<1> SUFFICES ASSUME Init PROVE Thread!Init
  OBVIOUS
<1>1. prior \in [attempts : Nat, auto_executions : Nat]
  BY Initially DEF IInv, TypeOK
<1>2. left.prior = prior
  BY DEF Init, Unstarted
<1> QED
  BY <1>1, <1>2 DEF Init, Thread!Init, PolicySettings

\* An invocation that leaves the thread as one of its outcomes shows it.
LEMMA Finished ==
    ASSUME Tracked, phase = "running", phase' # "running", settings' = settings,
           NEW x \in Ahead, left' = x.graph, phase' \in {"paused", "ended"} => ~ x.raised
    PROVE  Thread!Finish
<1>1. answer \in Answers \union {NULL}
  BY DEF Tracked, Begun
<1>2. Thread!Outcomes = Ahead
  BY <1>1, GraphAssumption DEF Thread!Outcomes, Ahead, Answers
<1>3. PolicySettings' = PolicySettings
  BY DEF PolicySettings
<1>4. (IF phase # "running" THEN NULL ELSE IF answer = NULL THEN "START" ELSE answer) # NULL
  BY <1>1, GraphAssumption
<1>5. (phase \in {"paused", "ended"})' \in {~ x.raised, FALSE}
  <2>1. CASE phase' \in {"paused", "ended"}
    <3>1. (phase' \in {"paused", "ended"}) = (~ x.raised)
      BY <2>1
    <3> QED
      BY <3>1
  <2>2. CASE phase' \notin {"paused", "ended"}
    <3>1. (phase' \in {"paused", "ended"}) = FALSE
      BY <2>2
    <3> QED
      BY <3>1
  <2> QED
    BY <2>1, <2>2
<1> QED
  BY <1>2, <1>3, <1>4, <1>5 DEF Thread!Finish

\* ... and every step to a step or a stutter: the nodes' steps are inside an
\* invocation, and what ends one is one of its outcomes.
LEMMA RefinementStep == IInv /\ Tracked /\ [Next]_vars => [Thread!Next]_(Thread!vars)
<1> SUFFICES ASSUME IInv, Tracked, [Next]_vars
             PROVE  Thread!Next \/ UNCHANGED Thread!vars
  OBVIOUS
<1> USE DEF run, reasoning, outcome, history
<1>1. CASE UNCHANGED <<left, phase, answer, settings>>
  BY <1>1 DEF Thread!vars, PolicySettings
<1>2. CASE \/ Gather \/ GenerateHypotheses \/ VerifyHypothesis \/ CollectAdditionalTelemetry
           \/ ProposeRemediation \/ EvaluateRemediationPolicy \/ AwaitRemediationApproval
           \/ ExecuteRemediation \/ ExecutorReturns \/ ValidateRemediation \/ UNCHANGED vars
  <2>1. UNCHANGED <<left, phase, answer, settings>>
    BY <1>2 DEF Gather, GenerateHypotheses, VerifyHypothesis, VerifyWith,
       CollectAdditionalTelemetry, ProposeRemediation, EvaluateRemediationPolicy,
       AwaitRemediationApproval, ExecuteRemediation, ExecutorReturns, ValidateRemediation, vars
  <2> QED
    BY <1>1, <2>1
<1>3. ASSUME NEW a \in Answers, Resume(a) PROVE Thread!Next
  <2>1. a # NULL
    BY GraphAssumption
  <2>2. Thread!Resume(a)
    BY <1>3, <2>1 DEF Resume, Thread!Resume, PolicySettings
  <2> QED
    BY <2>2 DEF Thread!Next
<1> DEFINE Present(n, r, v) ==
             /\ Clean(n, r, v) /\ Stands(n, r, v) /\ Reached(n)
             /\ n \notin Posts => n = node
             /\ n \in Posts => node \in Posts
<1>4. phase = "running" => Present(node, result, validation)
  BY DEF Tracked, IInv, Routed
<1>5. CASE InterruptForApproval
  <2>1. /\ phase = "running" /\ phase' = "paused" /\ settings' = settings
        /\ node = "await_remediation_approval" /\ answer = NULL
        /\ left' = SeenAt(node, result, validation)
    BY <1>5 DEF InterruptForApproval, At, Seen, SeenAt
  <2>2. PICK x \in Ahead : x.graph = SeenAt(node, result, validation) /\ ~ x.raised
    BY <1>4, <2>1, Shown
  <2> QED
    BY <2>1, <2>2, Finished DEF Thread!Next
<1>6. CASE FinalizeInvestigation
  <2>1. /\ phase = "running" /\ phase' = "ended" /\ settings' = settings
        /\ node = "finalize_investigation" /\ node' = "END"
        /\ UNCHANGED <<proposals, policy_result, result, validation, executions, prior>>
        /\ left' = Seen'
    BY <1>6 DEF FinalizeInvestigation, At, GoTo
  <2>2. left' = SeenAt(node, result, validation)
    BY <2>1 DEF Seen, SeenAt, Stage
  <2>3. PICK x \in Ahead : x.graph = SeenAt(node, result, validation) /\ ~ x.raised
    BY <1>4, <2>1, Shown
  <2> QED
    BY <2>1, <2>2, <2>3, Finished DEF Thread!Next
<1>7. CASE Raise
  <2>1. /\ phase = "running" /\ phase' \in {"abandoned", "stopped"} /\ settings' = settings
        /\ left' = SeenAt(node, result, validation)
    BY <1>7 DEF Raise, Broken, Seen, SeenAt
  <2>2. PICK x \in Ahead : x.graph = SeenAt(node, result, validation)
    BY <1>4, <2>1, Shown
  <2> QED
    BY <2>1, <2>2, Finished DEF Thread!Next
<1>8. CASE Crash
  <2>1. /\ phase = "running" /\ phase' \in {"abandoned", "stopped"} /\ settings' = settings
        /\ UNCHANGED <<proposals, policy_result, executions, prior>> /\ left' = Seen'
    BY <1>8 DEF Crash, Broken
  <2>2. PICK n, r, v : node' = n /\ result' = r /\ validation' = v /\ Present(n, r, v)
    <3>1. CASE UNCHANGED <<node, outcome, trail>>
      BY <1>4, <2>1, <3>1
    <3>2. ASSUME NEW i \in DOMAIN trail, Restore(trail[i])
          PROVE  /\ node' = trail[i].node /\ result' = trail[i].result
                 /\ validation' = trail[i].validation
                 /\ Present(trail[i].node, trail[i].result, trail[i].validation)
      <4>1. trail[i].node \in Posts /\ node \in Posts
        <5>1. trail[i] \in Snapshots
          BY TrailSnapshots DEF IInv
        <5>2. trail # <<>>
          BY <3>2
        <5> QED
          BY <5>1, <5>2 DEF Snapshots, IInv, Routed
      <4> QED
        BY <2>1, <3>2, <4>1 DEF Restore, Tracked, IInv, Routed
    <3> HIDE DEF Present
    <3> QED
      BY <1>8, <3>1, <3>2 DEF Crash
  <2>3. left' = SeenAt(n, r, v)
    BY <2>1, <2>2 DEF Seen, SeenAt
  <2>4. PICK x \in Ahead : x.graph = SeenAt(n, r, v)
    BY <2>1, <2>2, Shown
  <2> QED
    BY <2>1, <2>3, <2>4, Finished DEF Thread!Next
<1> QED
  BY <1>2, <1>3, <1>5, <1>6, <1>7, <1>8 DEF Next, NodeStep

\* In every state an invocation stands where it may come to from what it found,
\* and so does every checkpoint that a crash may take it back to.
THEOREM TrackedAlways == Spec => [](IInv /\ Tracked)
<1> QED
  BY Initially, Preserved, TrackedInit, TrackedStep, PTL DEF Spec

\* Whatever nodes an invocation runs, wherever it raises or its process dies,
\* and whichever checkpoints a crash takes away, the callers find the thread in
\* one of the states that Invocation lists: what ApprovalFlow assumes of
\* resume_remediation_approval and run_investigation_graph.
THEOREM ThreadRefinement == Spec => ImplementsThread
<1> QED
  BY TrackedAlways, RefinementInit, RefinementStep, PTL DEF Spec, ImplementsThread, Thread!Spec

=============================================================================
