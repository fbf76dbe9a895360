---------------------- MODULE RemediationPolicyProofs ----------------------
(***************************************************************************)
(* What the remediation policy promises for lists of any length: the       *)
(* ranking always has a head, so that the result is one of those           *)
(* evaluated; the limits bound what a result may allow; and neither more   *)
(* history nor a lower automatic level adds authority.                     *)
(***************************************************************************)
EXTENDS RemediationPolicy, WellFoundedInduction, TLAPS

Proposals == [id : Nat, action_type : ActionTypes, target : {"demo-service", "other"}]

(***************************************************************************)
(* The ranking                                                             *)
(***************************************************************************)
LEMMA Least ==
    ASSUME NEW S, S \subseteq Nat, S # {}
    PROVE  \E m \in S : \A k \in S : m <= k
<1>1. PICK m \in S : \A k \in S : <<k, m>> \notin OpToRel(<, Nat)
  BY WFMin, NatLessThanWellFounded
<1>2. ASSUME NEW k \in S PROVE m <= k
  <2>1. ~ (k < m)
    BY <1>1 DEF OpToRel
  <2> QED
    BY <2>1
<1> QED
  BY <1>2

\* The first three components of a key, as one number.
Weight(p, cause) ==
    4 * ActionSuitability(p.action_type, cause)
    + 2 * PolicyLevel[p.action_type] + (IF p.action_type = RESET THEN 0 ELSE 1)

LEMMA WeightType ==
    ASSUME NEW p \in Proposals, NEW cause
    PROVE  Weight(p, cause) \in Nat
BY DEF Proposals, Weight, ActionSuitability, PolicyLevel, ActionTypes, RESET, RESTART

\* Less weight, or as much and a lesser id, is a lesser key.
LEMMA KeyOrder ==
    ASSUME NEW p \in Proposals, NEW q \in Proposals, NEW cause
    PROVE  /\ Weight(p, cause) < Weight(q, cause) =>
                KeyLess(RankingKey(p, cause), RankingKey(q, cause))
           /\ Weight(p, cause) = Weight(q, cause) /\ p.id < q.id =>
                KeyLess(RankingKey(p, cause), RankingKey(q, cause))
           /\ Weight(p, cause) = Weight(q, cause) /\ p.id = q.id =>
                RankingKey(p, cause) = RankingKey(q, cause)
<1> DEFINE k == RankingKey(p, cause)
           l == RankingKey(q, cause)
<1>1. /\ k[1] \in 0 .. 1 /\ k[2] \in 1 .. 2 /\ k[3] \in 0 .. 1 /\ k[4] = p.id
      /\ l[1] \in 0 .. 1 /\ l[2] \in 1 .. 2 /\ l[3] \in 0 .. 1 /\ l[4] = q.id
      /\ k[2] = k[3] + 1 /\ l[2] = l[3] + 1
  BY DEF RankingKey, ActionSuitability, PolicyLevel, ActionTypes, RESET, RESTART, Proposals
<1>2. /\ Weight(p, cause) = 4 * k[1] + 2 * k[2] + k[3]
      /\ Weight(q, cause) = 4 * l[1] + 2 * l[2] + l[3]
  BY DEF RankingKey, Weight
<1>3. ASSUME NEW i \in 1 .. 4, k[i] < l[i], \A h \in 1 .. i - 1 : k[h] = l[h]
      PROVE  KeyLess(k, l)
  BY <1>3 DEF KeyLess
<1>4. Weight(p, cause) < Weight(q, cause) => KeyLess(k, l)
  <2> SUFFICES ASSUME Weight(p, cause) < Weight(q, cause) PROVE KeyLess(k, l)
    OBVIOUS
  <2>1. k[1] < l[1] \/ (k[1] = l[1] /\ k[2] < l[2])
    BY <1>1, <1>2
  <2>2. CASE k[1] < l[1]
    BY <1>3, <2>2
  <2>3. CASE k[1] = l[1] /\ k[2] < l[2]
    BY <1>3, <2>3
  <2> QED
    BY <2>1, <2>2, <2>3
<1>5. ASSUME Weight(p, cause) = Weight(q, cause)
      PROVE  k[1] = l[1] /\ k[2] = l[2] /\ k[3] = l[3]
  BY <1>1, <1>2, <1>5
<1>6. Weight(p, cause) = Weight(q, cause) /\ p.id < q.id => KeyLess(k, l)
  <2> SUFFICES ASSUME Weight(p, cause) = Weight(q, cause), p.id < q.id PROVE KeyLess(k, l)
    OBVIOUS
  <2>1. \A h \in 1 .. 3 : k[h] = l[h]
    BY <1>5
  <2> QED
    BY <1>1, <1>3, <2>1
<1>7. Weight(p, cause) = Weight(q, cause) /\ p.id = q.id => k = l
  BY <1>5 DEF RankingKey
<1> HIDE DEF k, l
<1> QED
  BY <1>4, <1>6, <1>7 DEF k, l

\* The candidates always have a head, however many they are and whatever ties
\* there are: the CHOOSE of EvaluateAndRank finds one.
THEOREM RankingHasHead ==
    ASSUME NEW proposals \in Seq(Proposals), NEW settings, NEW cause,
           Candidates(proposals, settings) # {}
    PROVE  \E i \in Candidates(proposals, settings) :
              IsFirst(i, Candidates(proposals, settings), proposals, cause)
<1> DEFINE C == Candidates(proposals, settings)
           W(i) == Weight(proposals[i], cause)
<1>1. C \subseteq DOMAIN proposals /\ DOMAIN proposals \subseteq Nat
  BY DEF Candidates
<1>2. \A i \in C : i \in Nat /\ proposals[i] \in Proposals /\ W(i) \in Nat
  BY <1>1, WeightType
<1> HIDE DEF C, W
<1>3. PICK w \in {W(i) : i \in C} : \A v \in {W(i) : i \in C} : w <= v
  <2>1. {W(i) : i \in C} \subseteq Nat /\ {W(i) : i \in C} # {}
    BY <1>2 DEF C
  <2> QED
    BY <2>1, Least
<1> DEFINE D == {i \in C : W(i) = w}
<1>4. PICK d \in {proposals[i].id : i \in D} : \A e \in {proposals[i].id : i \in D} : d <= e
  <2>1. {proposals[i].id : i \in D} \subseteq Nat /\ {proposals[i].id : i \in D} # {}
    BY <1>2, <1>3 DEF Proposals
  <2> QED
    BY <2>1, Least
<1> DEFINE E == {i \in D : proposals[i].id = d}
<1>5. PICK m \in E : \A k \in E : m <= k
  <2>1. E \subseteq Nat /\ E # {}
    BY <1>2, <1>4
  <2> QED
    BY <2>1, Least
<1>6. ASSUME NEW k \in C, k # m
      PROVE  \/ KeyLess(RankingKey(proposals[m], cause), RankingKey(proposals[k], cause))
             \/ /\ RankingKey(proposals[m], cause) = RankingKey(proposals[k], cause)
                /\ m < k
  <2>1. m \in C /\ W(m) = w /\ proposals[m].id = d
    BY <1>5
  <2>2. /\ W(m) < W(k) => KeyLess(RankingKey(proposals[m], cause), RankingKey(proposals[k], cause))
        /\ W(m) = W(k) /\ proposals[m].id < proposals[k].id =>
             KeyLess(RankingKey(proposals[m], cause), RankingKey(proposals[k], cause))
        /\ W(m) = W(k) /\ proposals[m].id = proposals[k].id =>
             RankingKey(proposals[m], cause) = RankingKey(proposals[k], cause)
    BY <1>2, <2>1, KeyOrder DEF W
  <2>3. W(m) < W(k) \/ W(m) = W(k)
    <3>1. W(m) <= W(k) /\ W(m) \in Nat /\ W(k) \in Nat
      BY <1>2, <1>3, <2>1
    <3> QED
      BY <3>1
  <2>4. W(m) = W(k) => proposals[m].id < proposals[k].id \/ proposals[m].id = proposals[k].id
    <3>1. ASSUME W(m) = W(k) PROVE proposals[m].id <= proposals[k].id
      BY <1>4, <2>1, <3>1
    <3>2. proposals[m].id \in Nat /\ proposals[k].id \in Nat
      BY <1>2, <2>1 DEF Proposals
    <3> QED
      BY <3>1, <3>2
  <2>5. W(m) = W(k) /\ proposals[m].id = proposals[k].id => m < k
    BY <1>2, <1>5, <1>6, <2>1
  <2> QED
    BY <2>2, <2>3, <2>4, <2>5
<1>7. m \in C
  BY <1>5
<1> QED
  BY <1>6, <1>7 DEF IsFirst, C

(***************************************************************************)
(* The result                                                              *)
(***************************************************************************)
Settings == [enabled : BOOLEAN, auto_execute_max_safety_level : Nat,
             max_remediation_attempts_per_incident : Nat,
             max_auto_remediations_per_incident : Nat]

Histories == [attempts : Nat, auto_executions : Nat]

\* The head of the candidates, if there are any.
LEMMA HeadIsCandidate ==
    ASSUME NEW proposals \in Seq(Proposals), NEW settings, NEW cause,
           Candidates(proposals, settings) # {}
    PROVE  (CHOOSE i \in Candidates(proposals, settings) :
               IsFirst(i, Candidates(proposals, settings), proposals, cause))
             \in Candidates(proposals, settings)
<1> DEFINE C == Candidates(proposals, settings)
           First(i) == IsFirst(i, C, proposals, cause)
<1>1. \E i \in C : First(i)
  BY RankingHasHead
<1> HIDE DEF C, First
<1>2. (CHOOSE i \in C : First(i)) \in C
  BY <1>1
<1> QED
  BY <1>2 DEF C, First

\* The selected result is that of a proposal; only if all are rejected, or none
\* was made, it allows nothing.
LEMMA SelectedIsEvaluated ==
    ASSUME NEW proposals \in Seq(Proposals), NEW settings, NEW cause
    PROVE  LET r == EvaluateAndRank(proposals, settings, cause)
           IN  \/ r = NoResult
               \/ \E i \in DOMAIN proposals : r = EvaluatePolicy(proposals[i], settings)
<1> DEFINE C == Candidates(proposals, settings)
           head == CHOOSE i \in C : IsFirst(i, C, proposals, cause)
           results == AllResults(proposals, settings)
<1>1. CASE proposals = <<>>
  BY <1>1 DEF EvaluateAndRank
<1>2. CASE proposals # <<>> /\ C = {}
  <2>1. 1 \in DOMAIN proposals
    BY <1>2
  <2>2. EvaluateAndRank(proposals, settings, cause) = results[1]
    BY <1>2 DEF EvaluateAndRank
  <2> QED
    BY <2>1, <2>2 DEF AllResults
<1>3. CASE proposals # <<>> /\ C # {}
  <2>1. head \in C
    BY <1>3, HeadIsCandidate
  <2>2. head \in DOMAIN proposals
    BY <2>1 DEF Candidates
  <2>3. EvaluateAndRank(proposals, settings, cause) = results[head]
    BY <1>3 DEF EvaluateAndRank
  <2> HIDE DEF head
  <2>4. results[head] = EvaluatePolicy(proposals[head], settings)
    BY <2>2 DEF AllResults
  <2> QED
    BY <2>2, <2>3, <2>4
<1> QED
  BY <1>1, <1>2, <1>3

\* The limits only take away: a decision is REJECTED, or what the policy says of
\* the proposal it names.
LEMMA DecisionIsEvaluated ==
    ASSUME NEW proposals \in Seq(Proposals), NEW settings, NEW cause, NEW prior, NEW r,
           r = Decide(proposals, settings, cause, prior), r # NoResult
    PROVE  \E i \in DOMAIN proposals :
              /\ r.proposal_id = proposals[i].id /\ r.action_type = proposals[i].action_type
              /\ r.decision \in {"REJECTED", EvaluatePolicy(proposals[i], settings).decision}
<1> DEFINE s == EvaluateAndRank(proposals, settings, cause)
<1>1. s # NoResult
  BY DEF Decide, NoResult
<1>2. PICK i \in DOMAIN proposals : s = EvaluatePolicy(proposals[i], settings)
  BY <1>1, SelectedIsEvaluated
<1>3. r = IF s.decision \in {"NONE", "REJECTED"} THEN s ELSE EnforceLimits(s, prior, settings)
  BY DEF Decide
<1> HIDE DEF s
<1>4. PICK d \in Decisions : s = Result(d, proposals[i])
  BY <1>2 DEF EvaluatePolicy, Decisions
<1>5. /\ s.decision = d /\ s.proposal_id = proposals[i].id
      /\ s.action_type = proposals[i].action_type
      /\ [s EXCEPT !.decision = "REJECTED"] = Result("REJECTED", proposals[i])
  BY <1>4 DEF Result
<1>6. r \in {s, Result("REJECTED", proposals[i])}
  BY <1>3, <1>5 DEF EnforceLimits
<1>7. CASE r = s
  BY <1>2, <1>5, <1>7
<1>8. CASE r = Result("REJECTED", proposals[i])
  BY <1>8 DEF Result
<1> QED
  BY <1>6, <1>7, <1>8

\* What a decision presupposes, for lists of any length: it is about one of the
\* proposals; it grants nothing with the pipeline disabled, outside the
\* allowlist or at the ceiling of attempts, and nothing automatic above the
\* automatic level or at the ceiling of automatic executions (core/policy.py,
\* graph/nodes/remediation_policy.py).
THEOREM DecisionIsLimited ==
    ASSUME NEW proposals \in Seq(Proposals), NEW settings \in Settings, NEW cause,
           NEW prior \in Histories, NEW r, r = Decide(proposals, settings, cause, prior)
    PROVE  \/ r = NoResult
           \/ /\ \E i \in DOMAIN proposals :
                    /\ r \in [decision : Decisions, proposal_id : {proposals[i].id},
                             action_type : {proposals[i].action_type}]
                    /\ r.decision # "REJECTED" => proposals[i].target = "demo-service"
              /\ r.decision # "REJECTED" =>
                    /\ settings.enabled
                    /\ prior.attempts < settings.max_remediation_attempts_per_incident
              /\ r.decision = "ALLOWED" =>
                    /\ PolicyLevel[r.action_type] <= settings.auto_execute_max_safety_level
                    /\ prior.auto_executions < settings.max_auto_remediations_per_incident
<1> DEFINE s == EvaluateAndRank(proposals, settings, cause)
<1> SUFFICES ASSUME r # NoResult
             PROVE  /\ \E i \in DOMAIN proposals :
                          /\ r \in [decision : Decisions, proposal_id : {proposals[i].id},
                                   action_type : {proposals[i].action_type}]
                          /\ r.decision # "REJECTED" => proposals[i].target = "demo-service"
                    /\ r.decision # "REJECTED" =>
                          /\ settings.enabled
                          /\ prior.attempts < settings.max_remediation_attempts_per_incident
                    /\ r.decision = "ALLOWED" =>
                          /\ PolicyLevel[r.action_type] <= settings.auto_execute_max_safety_level
                          /\ prior.auto_executions < settings.max_auto_remediations_per_incident
  OBVIOUS
<1>1. s # NoResult
  BY DEF Decide, NoResult
<1>2. PICK i \in DOMAIN proposals : s = EvaluatePolicy(proposals[i], settings)
  BY <1>1, SelectedIsEvaluated
<1> HIDE DEF s
<1> DEFINE p == proposals[i]
<1>3. p \in Proposals
  BY <1>2
<1>4. /\ s \in [decision : Decisions, proposal_id : {p.id}, action_type : {p.action_type}]
      /\ s.decision # "REJECTED" => settings.enabled /\ p.target = "demo-service"
      /\ s.decision = "ALLOWED" =>
            PolicyLevel[p.action_type] <= settings.auto_execute_max_safety_level
  <2>1. PolicyLevel[p.action_type] \in Nat /\ AllowedTargets[p.action_type] = {"demo-service"}
    BY <1>3 DEF Proposals, PolicyLevel, AllowedTargets
  <2>2. settings.auto_execute_max_safety_level \in Nat
    BY DEF Settings
  <2>3. NeedsApproval(p, settings) \/ PolicyLevel[p.action_type] <= settings.auto_execute_max_safety_level
    BY <2>1, <2>2 DEF NeedsApproval
  <2>4. CASE ~ settings.enabled \/ p.target \notin AllowedTargets[p.action_type]
    <3>1. s = Result("REJECTED", p)
      BY <1>2, <2>4 DEF EvaluatePolicy
    <3> QED
      BY <3>1 DEF Result, Decisions
  <2>5. CASE settings.enabled /\ p.target \in AllowedTargets[p.action_type]
    <3>1. s = IF NeedsApproval(p, settings) THEN Result("APPROVAL_REQUIRED", p)
              ELSE Result("ALLOWED", p)
      BY <1>2, <2>5 DEF EvaluatePolicy
    <3>2. p.target = "demo-service"
      BY <2>1, <2>5
    <3> QED
      BY <2>3, <2>5, <3>1, <3>2 DEF Result, Decisions
  <2> QED
    BY <2>4, <2>5
<1>5. r = IF s.decision \in {"NONE", "REJECTED"} THEN s ELSE EnforceLimits(s, prior, settings)
  BY DEF Decide, s
<1>6. r.proposal_id = p.id /\ r.action_type = p.action_type
      /\ r \in [decision : Decisions, proposal_id : {p.id}, action_type : {p.action_type}]
  BY <1>4, <1>5 DEF EnforceLimits, Decisions
<1>7. r.decision # "REJECTED" => r = s /\ ~ OverLimit(s, prior, settings)
  BY <1>4, <1>5 DEF EnforceLimits, Decisions
<1>8. ~ OverLimit(s, prior, settings) =>
        /\ prior.attempts < settings.max_remediation_attempts_per_incident
        /\ s.decision = "ALLOWED" =>
             prior.auto_executions < settings.max_auto_remediations_per_incident
  BY DEF OverLimit, Histories, Settings
<1> QED
  BY <1>4, <1>6, <1>7, <1>8

(***************************************************************************)
(* Authority                                                               *)
(***************************************************************************)
\* What is rejected does not depend on the automatic level.
LEMMA SameCandidates ==
    ASSUME NEW proposals \in Seq(Proposals), NEW s \in Settings, NEW t \in Settings,
           s.enabled = t.enabled
    PROVE  Candidates(proposals, s) = Candidates(proposals, t)
<1>1. ASSUME NEW i \in DOMAIN proposals
      PROVE  EvaluatePolicy(proposals[i], s).decision # "REJECTED"
               <=> EvaluatePolicy(proposals[i], t).decision # "REJECTED"
  BY DEF EvaluatePolicy, Result
<1> QED
  BY <1>1 DEF Candidates

\* More history never adds authority, and a lower automatic level none to execute
\* without asking, over lists of any length: the limits and the level are looked
\* at after the ranking, which they do not influence (evaluate_and_rank_proposals,
\* _enforce_remediation_limits).
THEOREM AuthorityNeverGrows ==
    ASSUME NEW proposals \in Seq(Proposals), NEW cause,
           NEW s \in Settings, NEW t \in Settings,
           NEW prior \in Histories, NEW more \in Histories,
           t.enabled = s.enabled,
           t.auto_execute_max_safety_level <= s.auto_execute_max_safety_level,
           t.max_remediation_attempts_per_incident = s.max_remediation_attempts_per_incident,
           t.max_auto_remediations_per_incident = s.max_auto_remediations_per_incident,
           more.attempts >= prior.attempts,
           more.auto_executions >= prior.auto_executions
    PROVE  LET less == Authority(Decide(proposals, t, cause, more))
               first == Authority(Decide(proposals, s, cause, prior))
           IN  /\ t.auto_execute_max_safety_level = s.auto_execute_max_safety_level
                     => less <= first
               /\ less = 2 => first = 2
<1> DEFINE C == Candidates(proposals, s)
           head == CHOOSE i \in C : IsFirst(i, C, proposals, cause)
           selected(x) == EvaluateAndRank(proposals, x, cause)
<1>1. Candidates(proposals, t) = C
  BY SameCandidates
<1>2. Authority(Decide(proposals, s, cause, prior)) \in 0 .. 2
  BY DEF Authority
<1>3. CASE proposals = <<>> \/ C = {}
  <2>1. selected(t).decision \in {"NONE", "REJECTED"}
    <3>1. CASE proposals = <<>>
      BY <3>1 DEF EvaluateAndRank, NoResult
    <3>2. CASE proposals # <<>>
      <4>1. 1 \in DOMAIN proposals /\ C = {}
        BY <1>3, <3>2
      <4>2. selected(t) = EvaluatePolicy(proposals[1], t)
        BY <1>1, <3>2, <4>1 DEF EvaluateAndRank, AllResults
      <4> QED
        BY <1>1, <4>1, <4>2 DEF Candidates
    <3> QED
      BY <3>1, <3>2
  <2>2. Authority(Decide(proposals, t, cause, more)) = 0
    BY <2>1 DEF Decide, Authority
  <2> QED
    BY <1>2, <2>2
<1>4. CASE proposals # <<>> /\ C # {}
  <2>1. head \in C
    BY <1>4, HeadIsCandidate
  <2>2. head \in DOMAIN proposals
    BY <2>1 DEF Candidates
  <2>3. /\ selected(s) = AllResults(proposals, s)[head]
        /\ selected(t) = AllResults(proposals, t)[head]
    BY <1>1, <1>4 DEF EvaluateAndRank
  <2> DEFINE p == proposals[head]
  <2>4. p \in Proposals
    BY <2>2
  <2> HIDE DEF head
  <2>5. /\ selected(s) = EvaluatePolicy(p, s)
        /\ selected(t) = EvaluatePolicy(p, t)
    BY <2>2, <2>3 DEF AllResults
  <2>6. EvaluatePolicy(p, s).decision # "REJECTED"
    BY <2>1 DEF Candidates
  <2>7. PolicyLevel[p.action_type] \in Nat
    BY <2>4 DEF Proposals, PolicyLevel
  <2>8. /\ EvaluatePolicy(p, s).decision \in {"ALLOWED", "APPROVAL_REQUIRED"}
        /\ EvaluatePolicy(p, t).decision \in {"ALLOWED", "APPROVAL_REQUIRED"}
        /\ EvaluatePolicy(p, t).decision = "ALLOWED" => EvaluatePolicy(p, s).decision = "ALLOWED"
    BY <2>6, <2>7 DEF EvaluatePolicy, Result, NeedsApproval, Settings
  <2> DEFINE e == EvaluatePolicy(p, s)
             f == EvaluatePolicy(p, t)
  <2>9. /\ Decide(proposals, s, cause, prior) = EnforceLimits(e, prior, s)
        /\ Decide(proposals, t, cause, more) = EnforceLimits(f, more, t)
    BY <2>5, <2>8 DEF Decide
  <2>10. /\ Authority(EnforceLimits(e, prior, s)) =
               IF OverLimit(e, prior, s) THEN 0 ELSE Authority(e)
         /\ Authority(EnforceLimits(f, more, t)) =
               IF OverLimit(f, more, t) THEN 0 ELSE Authority(f)
    <3>1. \A r \in {e, f} : [r EXCEPT !.decision = "REJECTED"].decision = "REJECTED"
      BY DEF EvaluatePolicy, Result
    <3> QED
      BY <3>1 DEF EnforceLimits, Authority
  <2> HIDE DEF e, f
  <2>11. /\ e.decision \in {"ALLOWED", "APPROVAL_REQUIRED"}
         /\ f.decision \in {"ALLOWED", "APPROVAL_REQUIRED"}
         /\ f.decision = "ALLOWED" => e.decision = "ALLOWED"
    BY <2>8 DEF e, f
  <2>12. t.auto_execute_max_safety_level = s.auto_execute_max_safety_level => e.decision = f.decision
    BY <2>7, <2>8 DEF e, f, EvaluatePolicy, Result, NeedsApproval, Settings
  <2>13. /\ OverLimit(e, prior, s) /\ f.decision = e.decision => OverLimit(f, more, t)
         /\ f.decision = "ALLOWED" /\ OverLimit(e, prior, s) => OverLimit(f, more, t)
    BY <2>11 DEF OverLimit, Histories, Settings
  <2>14. /\ Authority(f) = IF f.decision = "ALLOWED" THEN 2 ELSE 1
         /\ Authority(e) = IF e.decision = "ALLOWED" THEN 2 ELSE 1
    BY <2>11 DEF Authority
  <2>15. /\ t.auto_execute_max_safety_level = s.auto_execute_max_safety_level =>
               (IF OverLimit(f, more, t) THEN 0 ELSE Authority(f))
                 <= (IF OverLimit(e, prior, s) THEN 0 ELSE Authority(e))
         /\ (IF OverLimit(f, more, t) THEN 0 ELSE Authority(f)) = 2 =>
               (IF OverLimit(e, prior, s) THEN 0 ELSE Authority(e)) = 2
    BY <2>11, <2>12, <2>13, <2>14
  <2> QED
    BY <2>9, <2>10, <2>15 DEF e, f
<1> QED
  BY <1>3, <1>4

=============================================================================
