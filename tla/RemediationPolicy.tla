------------------------- MODULE RemediationPolicy -------------------------
(***************************************************************************)
(* The deterministic remediation policy (core/policy.py) and the limits    *)
(* layered on it by the policy node (graph/nodes/remediation_policy.py).   *)
(* Both are pure, so this module has no variables.                         *)
(*                                                                         *)
(* A proposal is [id, action_type, target].  The ids are numbers: the code *)
(* only compares them as strings to break ties.  The cause is what the     *)
(* keyword search of _calculate_action_suitability makes of root cause and *)
(* classification: no text, a text with a fault keyword, another text.     *)
(* A policy result is [decision, proposal_id, action_type].  The level and *)
(* the executor of an action follow from its type.                         *)
(***************************************************************************)
EXTENDS Integers, Sequences

RESET == "RESET_DEMO_FAILURE"
RESTART == "RESTART_REGISTERED_SERVICE"
ActionTypes == {RESET, RESTART}
Decisions == {"ALLOWED", "APPROVAL_REQUIRED", "REJECTED"}
Causes == {"none", "fault", "other"}

\* POLICY_REGISTRY
PolicyLevel == [t \in ActionTypes |-> IF t = RESET THEN 1 ELSE 2]
AllowedTargets == [t \in ActionTypes |-> {"demo-service"}]

\* No result at all (None in the code).
NoResult == [decision |-> "NONE", proposal_id |-> 0, action_type |-> "NONE"]

Result(decision, p) ==
    [decision |-> decision, proposal_id |-> p.id, action_type |-> p.action_type]

NeedsApproval(p, settings) ==
    PolicyLevel[p.action_type] > settings.auto_execute_max_safety_level

\* evaluate_policy.  The LLM's own proposed_risk and requires_approval do not
\* occur in it.
EvaluatePolicy(p, settings) ==
    IF ~settings.enabled \/ p.target \notin AllowedTargets[p.action_type]
    THEN Result("REJECTED", p)
    ELSE IF NeedsApproval(p, settings) THEN Result("APPROVAL_REQUIRED", p)
    ELSE Result("ALLOWED", p)

\* _calculate_action_suitability: lower is more suitable.
ActionSuitability(type, cause) ==
    IF cause = "none" \/ (type = RESET <=> cause = "fault") THEN 0 ELSE 1

\* _ranking_key: suitability, level, name of the action type, proposal id.
\* "RESET..." is less than "RESTART...".
RankingKey(p, cause) ==
    <<ActionSuitability(p.action_type, cause),
      PolicyLevel[p.action_type],
      IF p.action_type = RESET THEN 0 ELSE 1,
      p.id>>

\* Python's comparison of two tuples.
KeyLess(k, l) ==
    \E i \in 1 .. 4 : k[i] < l[i] /\ \A h \in 1 .. i - 1 : k[h] = l[h]

AllResults(proposals, settings) ==
    [i \in DOMAIN proposals |-> EvaluatePolicy(proposals[i], settings)]

Candidates(proposals, settings) ==
    {i \in DOMAIN proposals : EvaluatePolicy(proposals[i], settings).decision # "REJECTED"}

\* i is where the stable sort puts the head of the candidates.
IsFirst(i, candidates, proposals, cause) ==
    /\ i \in candidates
    /\ \A k \in candidates \ {i} :
        LET ki == RankingKey(proposals[i], cause)
            kk == RankingKey(proposals[k], cause)
        IN  KeyLess(ki, kk) \/ (ki = kk /\ i < k)

\* MUTANT of EvaluateAndRank: the candidates are not sorted.
EvaluateAndRankUnsorted(proposals, settings, cause) ==
    LET candidates == Candidates(proposals, settings)
        results == AllResults(proposals, settings)
    IN  IF proposals = <<>> THEN NoResult
        ELSE IF candidates = {} THEN results[1]
        ELSE results[CHOOSE i \in candidates : \A k \in candidates : i <= k]

\* evaluate_and_rank_proposals: the selected result.
EvaluateAndRank(proposals, settings, cause) ==
    LET candidates == Candidates(proposals, settings)
        results == AllResults(proposals, settings)
    IN  IF proposals = <<>> THEN NoResult
        ELSE IF candidates = {} THEN results[1]
        ELSE results[CHOOSE i \in candidates : IsFirst(i, candidates, proposals, cause)]

\* check_remediation_eligibility on a root cause and a selected hypothesis
\* (records, or NULL) and whether any evidence was collected.
CheckEligibility(root_cause, selected, has_evidence, min_confidence, NULL) ==
    /\ root_cause # NULL
    /\ selected = NULL \/ selected.status = "VERIFIED"
    /\ root_cause.confidence >= min_confidence
    /\ root_cause.grounded \/ has_evidence

\* MUTANT of OverLimit: the ceiling for automatic runs is looked at alone.
OverLimitAutoOnly(result, prior, settings) ==
    /\ result.decision = "ALLOWED"
    /\ prior.auto_executions = settings.max_auto_remediations_per_incident

OverLimit(result, prior, settings) ==
    \/ prior.attempts >= settings.max_remediation_attempts_per_incident
    \/ /\ result.decision = "ALLOWED"
       /\ prior.auto_executions >= settings.max_auto_remediations_per_incident

\* _enforce_remediation_limits
EnforceLimits(result, prior, settings) ==
    IF OverLimit(result, prior, settings)
    THEN [result EXCEPT !.decision = "REJECTED"]
    ELSE result

\* The policy node after its eligibility gate.
Decide(proposals, settings, cause, prior) ==
    LET selected == EvaluateAndRank(proposals, settings, cause)
    IN  IF selected.decision \in {"NONE", "REJECTED"} THEN selected
        ELSE EnforceLimits(selected, prior, settings)

\* What the graph may do with a result: nothing, ask for approval, execute it.
Authority(result) ==
    IF result.decision = "ALLOWED" THEN 2
    ELSE IF result.decision = "APPROVAL_REQUIRED" THEN 1 ELSE 0

=============================================================================
