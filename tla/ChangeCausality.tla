-------------------------- MODULE ChangeCausality --------------------------
(***************************************************************************)
(* How a recent change becomes a verified cause: the providers' answers    *)
(* and their merge (integrations/change), the correlation with the         *)
(* evidence (graph/nodes/correlate.py) and the promotion of the changes a  *)
(* verified hypothesis names (graph/nodes/verify.py, core/causality.py).   *)
(* All of it is pure, so this module has no variables.                     *)
(*                                                                         *)
(* Times are seconds before the onset of the incident; a change after it   *)
(* has a negative one.  A change is [id, service, time, aware, clusters]:  *)
(* aware says that its timestamp has a time zone, and clusters is the set  *)
(* of symptom clusters of which its title, description, config keys and    *)
(* files have a keyword.  Evidence is [id, clusters], likewise.  Texts and *)
(* the causal category, which only labels the result, are left out.        *)
(*                                                                         *)
(* Scores are exact: a temporal score s stands for s / 135000, the common  *)
(* denominator of its four pieces, and a relevance for hundredths, to      *)
(* which the code rounds it.                                               *)
(***************************************************************************)
EXTENDS Integers, Sequences, SequencesExt, FiniteSets

\* Settings: ChangeSettings.lookback_minutes and lookahead_minutes, in seconds.
Lookback == 3600
Lookahead == 300
MaxCommits == 20        \* git.py: MAX_COMMITS_DEFAULT

One == 135000
MinTemporal == 40500    \* 0.3

(***************************************************************************)
(* Collection                                                              *)
(*                                                                         *)
(* Lists are filtered, sorted and cut by their positions: an order is a    *)
(* set of pairs of positions, and a position's rank the number of those    *)
(* that come before it.                                                    *)
(***************************************************************************)
Rank(k, S, order) == Cardinality({m \in S : <<m, k>> \in order})

\* The first n of S.
FirstOf(S, order, n) == {k \in S : Rank(k, S, order) < n}

\* The position of rank r - 1, and the elements of list at the positions S.
Ranked(r, S, order) == CHOOSE k \in S : Rank(k, S, order) = r - 1
Arranged(list, S, order) == [r \in 1 .. Cardinality(S) |-> list[Ranked(r, S, order)]]

\* As they stand.
Listed(list) == {p \in (DOMAIN list) \X (DOMAIN list) : p[1] < p[2]}

InWindow(time) == -Lookahead <= time /\ time <= Lookback

\* The registry (GET /deployments as the demo service answers it): the records
\* of the service in the window, in the order they were made, cut off after
\* limit.  A timestamp without a time zone cannot be compared with the window,
\* and the filters that raise are passed over.
ListDeployments(registry, service, limit) ==
    LET made == {i \in DOMAIN registry : registry[i].service = service}
        filtered == \A i \in made : registry[i].aware
    IN  FirstOf({i \in made : filtered => InWindow(registry[i].time)}, Listed(registry), limit)

\* DeploymentChangeProvider.list_changes: one record that does not validate
\* empties the whole answer, and so does any error.  The window is looked at
\* again, now with UTC for want of a time zone.
DeploymentChanges(registry, service, limit) ==
    LET listed == ListDeployments(registry, service, limit)
    IN  IF \E i \in listed : ~registry[i].valid THEN <<>>
        ELSE Arranged([i \in DOMAIN registry |->
                         [id |-> registry[i].id, service |-> registry[i].service,
                          time |-> registry[i].time, aware |-> registry[i].aware,
                          clusters |-> registry[i].clusters]],
                      {i \in listed : InWindow(registry[i].time)}, Listed(registry))

CommitLimit(limit) == IF limit < MaxCommits THEN limit ELSE MaxCommits

\* GitChangeProvider.list_changes, on the log, newest first: --since and
\* --until look at the committer's date, the change gets the author's.  The
\* repository is taken to be the service's.
GitChanges(log, service, limit) ==
    LET listed == FirstOf({i \in DOMAIN log : InWindow(log[i].committed)},
                          Listed(log), CommitLimit(limit))
    IN  Arranged([i \in DOMAIN log |->
                    [id |-> log[i].id, service |-> service, time |-> log[i].time,
                     aware |-> TRUE, clusters |-> log[i].clusters]],
                 listed, Listed(log))

\* The first of several changes with one id is kept.
DistinctIds(changes) ==
    {i \in DOMAIN changes : \A k \in DOMAIN changes : k < i => changes[k].id # changes[i].id}

\* MUTANT of NewestFirst: the list is not turned round.
NewestFirstReversed(changes) ==
    {p \in (DOMAIN changes) \X (DOMAIN changes) :
        \/ changes[p[1]].time > changes[p[2]].time
        \/ changes[p[1]].time = changes[p[2]].time /\ p[1] < p[2]}

\* Most recent first; the sort is stable.
NewestFirst(changes) ==
    {p \in (DOMAIN changes) \X (DOMAIN changes) :
        \/ changes[p[1]].time < changes[p[2]].time
        \/ changes[p[1]].time = changes[p[2]].time /\ p[1] < p[2]}

\* Python does not compare timestamps with and without time zone.
Comparable(changes, S) == \A i, k \in S : changes[i].aware = changes[k].aware

\* CompositeChangeProvider.list_changes on the two providers' answers.  When
\* the sort raises, collect_recent_changes_node goes on with no changes at all.
RecentChanges(commits, deployments, limit) ==
    LET combined == commits \o deployments
        distinct == DistinctIds(combined)
        newest == NewestFirst(combined)
    IN  IF ~Comparable(combined, distinct) THEN <<>>
        ELSE Arranged(combined, FirstOf(distinct, newest, limit), newest)

(***************************************************************************)
(* Correlation                                                             *)
(***************************************************************************)
\* MUTANT of TemporalScore: the distance counts, not the order.
TemporalScoreSymmetric(time) ==
    LET distance == IF time < 0 THEN -time ELSE time
    IN  IF distance <= 300 THEN One - 45 * distance
        ELSE IF distance <= 1800 THEN 121500 - 27 * (distance - 300)
        ELSE IF distance <= 7200 THEN 81000 - 10 * (distance - 1800) ELSE 13500

\* _calculate_temporal_score
TemporalScore(time) ==
    CASE time < 0 -> IF time >= -60 THEN 27000 ELSE 0
      [] 0 <= time /\ time <= 300 -> One - 45 * time
      [] 300 < time /\ time <= 1800 -> 121500 - 27 * (time - 300)
      [] 1800 < time /\ time <= 7200 -> 81000 - 10 * (time - 1800)
      [] time > 7200 -> 13500

\* Above 0.3.  The one score that equals 0.3, that of 5850 s, is a little less
\* in binary floating point.
TemporallyClose(time) == TemporalScore(time) > MinTemporal

\* Halves are rounded up; binary floating point rounds the one at 3150 s down.
Hundredths(score) == (200 * score + One) \div (2 * One)

\* _assess_symptom_match: the ids of the evidence that shares a cluster.
EvidenceLinks(change, evidence) ==
    {e.id : e \in {x \in evidence : x.clusters \intersect change.clusters # {}}}

\* base_score: 0.35 temporal + 0.45 symptom + 0.20 links.  Symptoms match just
\* when there are links; without them the cap of 0.35 is what is left anyway
\* (and is not rounded, which decides nothing).
Relevance(time, links) ==
    (70 * TemporalScore(time) + One) \div (2 * One) + IF links = {} THEN 0 ELSE 65

Candidate(component, links, relevance, time, threshold) ==
    component /\ links # {} /\ relevance >= threshold /\ TemporallyClose(time)

\* correlate_change_with_incident
Correlate(change, service, evidence, threshold) ==
    LET component == change.service = service
        links == EvidenceLinks(change, evidence)
        relevance == IF component THEN Relevance(change.time, links) ELSE 0
    IN  [change_id |-> change.id,
         component_match |-> component,
         evidence_links |-> links,
         relevance_score |-> relevance,
         temporal_score |-> Hundredths(TemporalScore(change.time)),
         is_causal_candidate |->
            Candidate(component, links, relevance, change.time, threshold)]

(***************************************************************************)
(* Promotion                                                               *)
(***************************************************************************)
\* verify_causal_change_association.  Symptoms match just when there are links.
VerifyAssociation(hypothesis, change, correlation, current, threshold) ==
    /\ correlation.change_id = change.id
    /\ correlation.is_causal_candidate
    /\ correlation.component_match
    /\ change.service = hypothesis.component
    /\ correlation.relevance_score >= threshold
    /\ correlation.evidence_links \intersect current # {}
    /\ correlation.temporal_score >= 30
    /\ change.id \in ToSet(hypothesis.related)

InOrderOf(list, S) == SelectSeq(list, LAMBDA x : x \in S)

\* The loop of verify_hypothesis_node over related_change_ids; the first one
\* promoted is the selected_causal_change.
CausalChanges(hypothesis, changes, correlations, current, threshold) ==
    LET Verified(i) ==
          VerifyAssociation(hypothesis, changes[i], correlations[i], current, threshold)
    IN  InOrderOf(hypothesis.related, {changes[i].id : i \in {k \in DOMAIN changes : Verified(k)}})

=============================================================================
