---------------------------- MODULE MCDecisions ----------------------------
(***************************************************************************)
(* The pure decisions of an investigation on every input of bounded        *)
(* spaces: an input is chosen, the nodes decide, the properties relate     *)
(* output and input.                                                       *)
(*                                                                         *)
(*   - policy: the policy node on proposals, settings and history;         *)
(*   - collect: the collection of recent changes from registry and log;    *)
(*   - judge: correlation and promotion of collected changes.              *)
(***************************************************************************)
EXTENDS RemediationPolicy, ChangeCausality

CONSTANTS
    MaxProposals,   \* bound: proposals in a list
    MaxCount        \* bound: the ceiling on attempts, which the counts exceed by one

ASSUME BoundsAssumption == MaxProposals \in Nat /\ MaxCount \in Nat

VARIABLES kind, input, output

vars == <<kind, input, output>>

Undecided == [decision |-> "UNDECIDED"]

(***************************************************************************)
(* Inputs                                                                  *)
(***************************************************************************)
\* "other" is a target that only the allowlist stops: tests hand such proposals
\* to evaluate_policy past the schema.
Proposal(i) ==
    [id : {i}, action_type : ActionTypes, target : {"demo-service", "other"}]

\* Lists of proposals with distinct ids, in every order.
ProposalLists ==
    UNION {{s \in [1 .. n -> UNION {Proposal(i) : i \in 1 .. n}] :
                IsInjective([k \in 1 .. n |-> s[k].id])} : n \in 0 .. MaxProposals}

SettingsSpace ==
    [enabled : BOOLEAN, auto_execute_max_safety_level : 0 .. 2,
     max_remediation_attempts_per_incident : {MaxCount},
     max_auto_remediations_per_incident : {1}]

Priors == {p \in [attempts : 0 .. MaxCount + 1, auto_executions : 0 .. MaxCount + 1] :
              p.auto_executions <= p.attempts}

PolicyInputs ==
    [proposals : ProposalLists, settings : SettingsSpace, cause : Causes, prior : Priors]

\* Deployments before, in and after the window, with or without time zone, of
\* the service or not, some with one id; commits whose author's and committer's
\* dates differ.
Deployments ==
    {d \in [id : {1, 2, 3}, service : {"svc", "other"}, time : {-301, 0, 3600},
            aware : BOOLEAN, valid : BOOLEAN, clusters : {{}}] :
        \/ d.id # 3 /\ d.service = "svc" /\ d.valid
        \/ d.id = 3 /\ d.service = "svc" /\ d.time = 0 /\ ~d.valid
        \/ d.id = 3 /\ d.service = "other" /\ d.time = 0 /\ ~d.aware /\ d.valid}

Commits ==
    {[id |-> id, time |-> t, committed |-> c, clusters |-> {}] :
        id \in {4, 5}, t \in {60, 5000}, c \in {-60, 3601}}

CollectInputs ==
    [registry : UNION {[1 .. n -> Deployments] : n \in 0 .. 3},
     log : {l \in UNION {[1 .. n -> Commits] : n \in 0 .. 2} :
                IsInjective([k \in DOMAIN l |-> l[k].id])},
     limit : 1 .. 2]

\* Two changes on either side of every boundary of the score, two items of
\* evidence, and what a hypothesis may say of them.
Times == {-300, -60, 0, 300, 301, 1800, 1801, 5849, 5850, 7201}

Changes(id) ==
    [id : {id}, service : {"svc", "other"}, time : Times, aware : {TRUE},
     clusters : {{}, {"db_pool"}, {"memory"}}]

JudgeInputs ==
    [changes : {<<c, d>> : c \in Changes(1), d \in Changes(2)},
     evidence : {{[id |-> "e1", clusters |-> {"db_pool"}],
                  [id |-> "e2", clusters |-> s]} :
                    s \in {{}, {"memory", "db_pool"}}},
     hypothesis : [component : {"svc", "other"},
                   related : {<<>>, <<2>>, <<1, 2>>, <<2, 1>>}],
     threshold : {60, 90}]

Init ==
    /\ \/ kind = "policy" /\ input \in PolicyInputs
       \/ kind = "collect" /\ input \in CollectInputs
       \/ kind = "judge" /\ input \in JudgeInputs
    /\ output = Undecided

(***************************************************************************)
(* Decisions                                                               *)
(***************************************************************************)
DecideOn(in) == Decide(in.proposals, in.settings, in.cause, in.prior)

PolicyNode ==
    /\ kind = "policy" /\ output = Undecided
    /\ output' = DecideOn(input)
    /\ UNCHANGED <<kind, input>>

CollectOn(in) ==
    [decision |-> "COLLECTED",
     changes |-> RecentChanges(GitChanges(in.log, "svc", in.limit),
                               DeploymentChanges(in.registry, "svc", in.limit), in.limit)]

CollectNode ==
    /\ kind = "collect" /\ output = Undecided
    /\ output' = CollectOn(input)
    /\ UNCHANGED <<kind, input>>

\* The correlations are made of the evidence at hand and kept; the promotion
\* looks at the evidence that has come since, too.
Correlations(in) ==
    [i \in 1 .. 2 |-> Correlate(in.changes[i], "svc", in.evidence, in.threshold)]

JudgeOn(in) ==
    [decision |-> "JUDGED",
     correlations |-> Correlations(in),
     causal |-> CausalChanges(in.hypothesis, in.changes, Correlations(in),
                    {e.id : e \in in.evidence} \union {"later"}, in.threshold)]

JudgeNodes ==
    /\ kind = "judge" /\ output = Undecided
    /\ output' = JudgeOn(input)
    /\ UNCHANGED <<kind, input>>

Next == PolicyNode \/ CollectNode \/ JudgeNodes

Spec == Init /\ [][Next]_vars

-----------------------------------------------------------------------------
Decided(k) == kind = k /\ output # Undecided

\* Selected(in, out) is the proposal the decision is about.
Selected(in, out) ==
    CHOOSE p \in Range(in.proposals) : p.id = out.proposal_id

Evaluated(in, p) == EvaluatePolicy(p, in.settings).decision

Acceptable(in) == {p \in Range(in.proposals) : Evaluated(in, p) # "REJECTED"}

\* Keep those of S that are least under f.
LeastBy(S, f(_)) == {x \in S : \A y \in S : f(x) <= f(y)}

\* The reference for the ranking, one criterion after the other as the
\* docstring of evaluate_and_rank_proposals numbers them, without any sort.
Best(in) ==
    LET suitable == LeastBy(Acceptable(in),
                            LAMBDA p : ActionSuitability(p.action_type, in.cause))
        safest == LeastBy(suitable, LAMBDA p : PolicyLevel[p.action_type])
    IN  LeastBy(safest, LAMBDA p : p.id)

\* Sorting by the composite key and taking the head selects what filtering
\* criterion by criterion leaves over, which does not depend on the order in
\* which the LLM lists its proposals.
SelectionIsBest ==
    Decided("policy") /\ Acceptable(input) # {} =>
        Best(input) = {Selected(input, output)}

\* More history never yields more authority over the same proposals, and a lower
\* automatic level none to execute without asking.  (It may yield an approval
\* to ask for: of what the higher level would allow, were it not at the ceiling.)
AuthorityMonotone ==
    Decided("policy") =>
        \A more \in Priors, level \in 0 .. 2 :
            /\ more.attempts >= input.prior.attempts
            /\ more.auto_executions >= input.prior.auto_executions
            /\ level <= input.settings.auto_execute_max_safety_level
            => LET less == DecideOn([input EXCEPT
                             !.prior = more,
                             !.settings.auto_execute_max_safety_level = level])
               IN  /\ level = input.settings.auto_execute_max_safety_level
                         => Authority(less) <= Authority(output)
                   /\ Authority(less) = 2 => Authority(output) = 2

\* What the providers are asked for.
AskedDeployments(in) ==
    {i \in DOMAIN in.registry : in.registry[i].service = "svc" /\ InWindow(in.registry[i].time)}

AskedCommits(in) == {i \in DOMAIN in.log : InWindow(in.log[i].committed)}

Before(S, i) == {k \in S : k < i}

\* What the registry takes for the answer: it looks at the window only if each
\* timestamp has a time zone.
Offered(in) ==
    LET made == {i \in DOMAIN in.registry : in.registry[i].service = "svc"}
    IN  IF \E i \in made : ~in.registry[i].aware THEN made ELSE AskedDeployments(in)

Answered(in, i) == i \in Offered(in) /\ Cardinality(Before(Offered(in), i)) < in.limit

\* Why the deployment at position i of the registry may be missing: an earlier
\* record stands for its id, the registry's own cut leaves it out, or a record
\* of its answer that does not validate discarded all of it.
DeploymentLost(in, i) ==
    \/ \E k \in Before(AskedDeployments(in), i) : in.registry[k].id = in.registry[i].id
    \/ ~Answered(in, i)
    \/ \E k \in DOMAIN in.registry : Answered(in, k) /\ ~in.registry[k].valid

\* A commit may be missing when its provider's own cut leaves it out.
CommitLost(in, i) == Cardinality(Before(AskedCommits(in), i)) >= CommitLimit(in.limit)

\* Timestamps with and without a time zone discard all changes together.
AllLost(in, kept) ==
    kept = <<>> /\ \E k \in AskedDeployments(in) : Answered(in, k) /\ ~in.registry[k].aware

Collected(in, kept, change) ==
    \/ \E k \in DOMAIN kept : kept[k].id = change.id
    \/ /\ Len(kept) = in.limit
       /\ \A k \in DOMAIN kept : kept[k].time <= change.time

Complete(in, kept) ==
    /\ \A i \in AskedDeployments(in) :
          Collected(in, kept, in.registry[i]) \/ DeploymentLost(in, i) \/ AllLost(in, kept)
    /\ \A i \in AskedCommits(in) :
          Collected(in, kept, in.log[i]) \/ CommitLost(in, i) \/ AllLost(in, kept)

\* A change of the window reaches the investigation unless as many no older
\* ones do as the limit allows; what else can keep it out is named above, and
\* the failure of one provider does not cost the other one's changes.
ChangesAreCollected == Decided("collect") => Complete(input, output.changes)

\* The reference for the promotion, without scores: the service is the
\* incident's and the hypothesis's, the change precedes the onset by less than
\* 5850 seconds, it shares a cluster with the evidence, and it is close enough
\* for a threshold above the 0.755 that these already earn.
Causal(c) ==
    /\ c.service = "svc" /\ input.hypothesis.component = "svc"
    /\ 0 <= c.time /\ c.time < 5850
    /\ \E e \in input.evidence : e.clusters \intersect c.clusters # {}
    /\ input.threshold = 60 \/ c.time <= 1300

\* The hypothesis's changes are promoted in its order if and only if they are
\* causal: never for their time, their service or the LLM's word alone.
PromotionIsEarned ==
    Decided("judge") =>
        output.causal = InOrderOf(input.hypothesis.related,
            {id \in ToSet(input.hypothesis.related) : Causal(input.changes[id])})

=============================================================================
