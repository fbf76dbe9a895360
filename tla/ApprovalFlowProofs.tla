------------------------- MODULE ApprovalFlowProofs -------------------------
(***************************************************************************)
(* What the audit trail and the incident promise for any number of         *)
(* investigations and requests: an approval-bound outcome has a committed  *)
(* approval, an outcome is what the thread did and is final, RESOLVED is   *)
(* validated, INVESTIGATING tells of the run whose thread the incident     *)
(* carries, automatic executions stay below the ceiling, whoever waits has *)
(* an action to decide about, and a row changes only by an answer to it or *)
(* by the outcome of an action that waits no more.                         *)
(*                                                                         *)
(* The difficulty is that sessions write what they saw.  Two ways to write *)
(* rows exist, PersistRun with the rows as they are and CommitDecision     *)
(* with the session's view of them; Written says what both have in common, *)
(* and each part of the invariant is shown to survive Written once.        *)
(***************************************************************************)
EXTENDS ApprovalFlow, RemediationPolicyProofs, SequenceTheorems, FiniteSetTheorems

\* The nodes at which a thread has a decision of its policy behind it.
Late == {"await", "execute", "end"}

\* A thread's state is one that the graph can leave behind.
Coherent(g) ==
    /\ \A i \in DOMAIN g.proposals : g.proposals[i].id = i
    /\ g.policy_result # NoResult => g.policy_result.proposal_id \in DOMAIN g.proposals
    /\ g.node \in {"none", "gather"} => g.policy_result = NoResult
    /\ g.result # "none" \/ g.node \in {"await", "execute"} => g.policy_result # NoResult
    /\ g.node = "await" => g.policy_result.decision = "APPROVAL_REQUIRED"
    /\ g.result # "none" => g.node = "end" /\ g.acted
    /\ g.validation # "none" => g.result # "none"

\* A thread whose invocation returned is late, and stands still at its end.
Left(t, g) ==
    /\ Coherent(g) /\ g.node \in {"await", "end"}
    /\ graph[t].node \in Late
    /\ g.node = "end" => graph[t] = g

Thread(t) ==
    /\ Coherent(graph[t]) /\ Coherent(run[t].final)
    /\ run[t].phase \in {"new", "counted", "running"} => graph[t].node = "none"
    /\ run[t].phase = "returned" => Left(t, run[t].final)
    /\ run[t].phase \in {"running", "returned"} => incident_thread # NULL

Incident ==
    /\ incident_thread # NULL => run[incident_thread].phase \notin {"new", "counted"}
    /\ incident_status = "AWAITING_APPROVAL" => incident_thread # NULL

\* A row that shows an action bound to approval as executable.
Claims(row) ==
    /\ row # NULL /\ row.decision = "APPROVAL_REQUIRED"
    /\ row.status \in {"APPROVED", "SUCCEEDED", "FAILED"}

\* A row with an outcome.
Finished(row) == row # NULL /\ row.status \in {"SUCCEEDED", "FAILED"}

\* What a request relies on: its thread was started; the rows it saw exist,
\* with the decisions it saw, and with the approvals they claim; its own action
\* it has decided itself.
Request(o) ==
    /\ op[o].phase # "idle" => op[o].action \in Actions /\ audit[op[o].action] # NULL
    /\ op[o].phase \notin {"idle", "opened"} =>
        /\ op[o].thread \in Threads
        /\ run[op[o].thread].phase \notin {"new", "counted"}
    /\ op[o].phase \in {"checked", "recorded", "resumed"} =>
        /\ op[o].seen \in [Actions -> Row \union {NULL}] /\ op[o].seen[op[o].action] # NULL
        /\ \A a \in Actions : op[o].seen[a] # NULL =>
            /\ audit[a] # NULL /\ audit[a].decision = op[o].seen[a].decision
            /\ a # op[o].action /\ Claims(op[o].seen[a]) => a \in approved
            /\ Finished(op[o].seen[a]) => a \in results
    /\ op[o].phase \in {"recorded", "resumed"} =>
        /\ op[o].answer \in Answers
        /\ op[o].seen[op[o].action].status = Decided(op[o].answer)
    /\ op[o].phase = "resumed" =>
        /\ Left(op[o].thread, op[o].final)
        /\ run[op[o].thread].phase # "running"
        /\ op[o].thread = op[o].action[1] => op[o].final.node = "end"

Approvals ==
    /\ \A a \in Actions : Claims(audit[a]) => a \in approved
    /\ OutcomeNeedsApproval

\* A thread with rows is late; a recorded outcome is the one of its thread,
\* which is at its end.
Outcomes ==
    /\ \A a \in Actions :
        /\ audit[a] # NULL => graph[a[1]].node \in Late
        /\ Finished(audit[a]) => a \in results
    /\ \A a \in results :
        /\ audit[a] # NULL
        /\ graph[a[1]].result # "none" /\ Selected(a[1], graph[a[1]]) = a
        /\ audit[a].status = "SUCCEEDED" => graph[a[1]].result = "success"
        /\ audit[a].status = "FAILED" => graph[a[1]].result = "failure"

\* The run whose thread id the incident carries will overwrite INVESTIGATING,
\* because it has seen it, or it ended without any record.
Working(r) ==
    \/ r.phase \in {"running", "returned"} /\ r.seen = "INVESTIGATING"
    \/ r.phase \in {"failing", "expired", "lost"}

Worked ==
    incident_status = "INVESTIGATING" =>
        incident_thread \in Threads /\ Working(run[incident_thread])

IInv ==
    /\ TypeOK
    /\ \A t \in Threads : Thread(t)
    /\ Incident
    /\ \A o \in Operators : Request(o)
    /\ Approvals /\ Outcomes /\ ResolvedIsValidated /\ Worked

(***************************************************************************)
(* What an invocation of the graph leaves behind                           *)
(***************************************************************************)
GraphProposals == [id : 1 .. MaxProposals, action_type : ActionTypes, target : {"demo-service"}]

GraphResults ==
    [decision : Decisions, proposal_id : 1 .. MaxProposals, action_type : ActionTypes]

\* The position of a proposal is its id.
LEMMA ListsOfProposals ==
    ASSUME NEW ps \in ProposalLists
    PROVE  /\ ps \in Seq(GraphProposals) /\ ps \in Seq(Proposals)
           /\ \A i \in DOMAIN ps : ps[i] \in GraphProposals /\ ps[i].id = i
<1>1. PICK types \in TypeLists : ps = [i \in DOMAIN types |-> ProposalOf(i, types[i])]
  BY DEF ProposalLists
<1>2. PICK n \in 1 .. MaxProposals : types \in [1 .. n -> ActionTypes]
  BY <1>1, InvocationAssumption
<1>3. n \in Nat /\ \A i \in 1 .. n : i \in 1 .. MaxProposals
  BY InvocationAssumption
<1>4. \A i \in 1 .. n : ProposalOf(i, types[i]) \in GraphProposals /\ ProposalOf(i, types[i]).id = i
  BY <1>2, <1>3 DEF ProposalOf, GraphProposals
<1>5. DOMAIN ps = 1 .. n /\ ps \in [1 .. n -> GraphProposals]
  BY <1>1, <1>2, <1>4
<1>6. ps \in Seq(GraphProposals)
  BY <1>3, <1>5, SeqDef
<1>7. GraphProposals \subseteq Proposals
  <2>1. 1 .. MaxProposals \subseteq Nat /\ {"demo-service"} \subseteq {"demo-service", "other"}
    BY InvocationAssumption
  <2> QED
    BY <2>1 DEF GraphProposals, Proposals
<1>8. ps \in Seq(Proposals)
  BY <1>6, <1>7, SeqMonotonic
<1> QED
  BY <1>1, <1>2, <1>4, <1>5, <1>6, <1>8

\* The policy names one of the proposals, or none.
LEMMA PolicyShapes ==
    ASSUME level \in Levels, NEW ps \in ProposalLists, NEW cause,
           NEW prior \in [attempts : Nat, auto_executions : Nat],
           NEW r, r = Decide(ps, PolicySettings, cause, prior), r # NoResult
    PROVE  r \in GraphResults /\ r.proposal_id \in DOMAIN ps
<1>1. /\ ps \in Seq(Proposals)
      /\ \A i \in DOMAIN ps : ps[i] \in GraphProposals /\ ps[i].id = i
  BY ListsOfProposals
<1>2. PolicySettings \in Settings /\ prior \in Histories
  BY ApprovalAssumption DEF PolicySettings, Settings, Histories
<1>3. PICK i \in DOMAIN ps :
        r \in [decision : Decisions, proposal_id : {ps[i].id}, action_type : {ps[i].action_type}]
  BY <1>1, <1>2, DecisionIsLimited
<1>4. ps[i].id = i /\ ps[i].id \in 1 .. MaxProposals /\ ps[i].action_type \in ActionTypes
  BY <1>1 DEF GraphProposals
<1> QED
  BY <1>3, <1>4 DEF GraphResults

\* An execution ends, or raises at its node.
LEMMA ExecuteShapes ==
    ASSUME NEW g \in Graphs, g.policy_result # NoResult,
           \A i \in DOMAIN g.proposals : g.proposals[i].id = i,
           g.policy_result.proposal_id \in DOMAIN g.proposals,
           g.result = "none", g.validation = "none",
           NEW x \in FromExecute(g)
    PROVE  /\ x.raised \in BOOLEAN /\ x.graph \in Graphs /\ Coherent(x.graph)
           /\ x.graph.proposals = g.proposals /\ x.graph.policy_result = g.policy_result
           /\ x.graph.node = IF x.raised THEN "execute" ELSE "end"
<1>1. CASE \E a \in {g.acted, TRUE} : x = Raised([g EXCEPT !.node = "execute", !.acted = a])
  <2>1. PICK a \in BOOLEAN : x = Raised([g EXCEPT !.node = "execute", !.acted = a])
    BY <1>1 DEF Graphs
  <2> DEFINE h == [g EXCEPT !.node = "execute", !.acted = a]
  <2>2. /\ h \in Graphs /\ h.node = "execute" /\ h.result = g.result
        /\ h.validation = g.validation /\ h.proposals = g.proposals
        /\ h.policy_result = g.policy_result
    BY DEF Graphs
  <2> HIDE DEF h
  <2>3. Coherent(h)
    BY <2>2 DEF Coherent
  <2>4. x.raised = TRUE /\ x.graph = h
    BY <2>1 DEF Raised, h
  <2> QED
    BY <2>2, <2>3, <2>4
<1>2. CASE \E r \in {<<"success", "passed">>, <<"success", "failed">>, <<"failure", "none">>} :
             x = Returned([g EXCEPT !.node = "end", !.acted = TRUE,
                                    !.result = r[1], !.validation = r[2]])
  <2>1. PICK res \in {"success", "failure"}, val \in {"none", "passed", "failed"} :
          x = Returned([g EXCEPT !.node = "end", !.acted = TRUE,
                                 !.result = res, !.validation = val])
    <3>1. PICK r \in {<<"success", "passed">>, <<"success", "failed">>, <<"failure", "none">>} :
            x = Returned([g EXCEPT !.node = "end", !.acted = TRUE,
                                   !.result = r[1], !.validation = r[2]])
      BY <1>2
    <3>2. r[1] \in {"success", "failure"} /\ r[2] \in {"none", "passed", "failed"}
      OBVIOUS
    <3> QED
      BY <3>1, <3>2
  <2> DEFINE h == [g EXCEPT !.node = "end", !.acted = TRUE, !.result = res, !.validation = val]
  <2>2. /\ h \in Graphs /\ h.node = "end" /\ h.result = res /\ h.acted = TRUE
        /\ h.validation = val /\ h.proposals = g.proposals
        /\ h.policy_result = g.policy_result
    BY DEF Graphs
  <2> HIDE DEF h
  <2>3. Coherent(h)
    BY <2>2 DEF Coherent
  <2>4. x.raised = FALSE /\ x.graph = h
    BY <2>1 DEF Returned, h
  <2> QED
    BY <2>2, <2>3, <2>4
<1> QED
  BY <1>1, <1>2 DEF FromExecute

\* The decision about a list of proposals, with what follows from it.
LEMMA DecisionShapes ==
    ASSUME level \in Levels, NEW g \in Graphs, Coherent(g), g.node \in {"none", "gather"},
           NEW ps \in ProposalLists, NEW x,
           \/ x = Returned([[g EXCEPT !.proposals = ps] EXCEPT !.node = "end"])
           \/ \E cause \in {"fault", "other"} :
                x \in FromPolicy([[g EXCEPT !.proposals = ps] EXCEPT !.policy_result =
                                  Decide(ps, PolicySettings, cause, g.prior)])
    PROVE  /\ x.raised \in BOOLEAN /\ x.graph \in Graphs /\ Coherent(x.graph)
           /\ x.graph.node \in IF x.raised THEN {"gather", "execute"} ELSE {"await", "end"}
<1>0. g.policy_result = NoResult /\ g.result = "none" /\ g.validation = "none"
  BY DEF Coherent, Graphs
<1> DEFINE proposed == [g EXCEPT !.proposals = ps]
<1>1. /\ ps \in Seq(GraphProposals)
      /\ \A i \in DOMAIN ps : ps[i].id = i
  BY ListsOfProposals
<1>2. /\ proposed \in Graphs /\ proposed.node = g.node /\ proposed.result = g.result
      /\ proposed.acted = g.acted /\ proposed.validation = g.validation
      /\ proposed.proposals = ps /\ proposed.policy_result = g.policy_result
      /\ proposed.prior = g.prior
  BY <1>1 DEF Graphs, GraphProposals
<1> HIDE DEF proposed
<1>3. CASE x = Returned([proposed EXCEPT !.node = "end"])
  <2> DEFINE h == [proposed EXCEPT !.node = "end"]
  <2>1. /\ h \in Graphs /\ h.node = "end" /\ h.result = proposed.result
        /\ h.acted = proposed.acted /\ h.validation = proposed.validation
        /\ h.proposals = proposed.proposals /\ h.policy_result = proposed.policy_result
    BY <1>2 DEF Graphs
  <2> HIDE DEF h
  <2>2. Coherent(h)
    BY <2>1, <1>1, <1>2, <1>0 DEF Coherent
  <2>3. x.raised = FALSE /\ x.graph = h
    BY <1>3 DEF Returned, h
  <2> QED
    BY <2>1, <2>2, <2>3
<1>4. ASSUME NEW cause \in {"fault", "other"}, NEW res,
             res = Decide(ps, PolicySettings, cause, g.prior),
             x \in FromPolicy([proposed EXCEPT !.policy_result = res])
      PROVE  /\ x.raised \in BOOLEAN /\ x.graph \in Graphs /\ Coherent(x.graph)
             /\ x.graph.node \in IF x.raised THEN {"gather", "execute"} ELSE {"await", "end"}
  <2> DEFINE h == [proposed EXCEPT !.policy_result = res]
  <2>1. res = NoResult \/ (res \in GraphResults /\ res.proposal_id \in DOMAIN ps)
    <3>1. g.prior \in [attempts : Nat, auto_executions : Nat]
      BY DEF Graphs
    <3> QED
      BY <1>4, <3>1, PolicyShapes
  <2>2. /\ h \in Graphs /\ h.node = proposed.node /\ h.result = proposed.result
        /\ h.acted = proposed.acted /\ h.validation = proposed.validation
        /\ h.proposals = proposed.proposals /\ h.policy_result = res
    BY <1>2, <2>1 DEF Graphs, GraphResults
  <2>3. x \in FromPolicy(h)
    BY <1>4
  <2> HIDE DEF h
  <2>4. CASE h.policy_result.decision = "ALLOWED"
    <3>1. h.policy_result # NoResult
      BY <2>4 DEF NoResult
    <3>2. x \in FromExecute(h)
      BY <2>3, <2>4 DEF FromPolicy
    <3>3. h.result = "none"
      BY <2>2, <1>2, <1>0
    <3>4. h.validation = "none" /\ \A i \in DOMAIN h.proposals : h.proposals[i].id = i
      BY <2>2, <1>1, <1>2, <1>0
    <3>5. h.policy_result.proposal_id \in DOMAIN h.proposals
      BY <1>2, <2>1, <2>2, <3>1
    <3>6. h \in Graphs
      BY <2>2
    <3>7. /\ x.raised \in BOOLEAN /\ x.graph \in Graphs /\ Coherent(x.graph)
          /\ x.graph.node = IF x.raised THEN "execute" ELSE "end"
      BY <3>1, <3>2, <3>3, <3>4, <3>5, <3>6, ExecuteShapes
    <3> QED
      BY <3>7
  <2>5. ASSUME NEW n \in {"await", "end"}, x = Returned([h EXCEPT !.node = n]),
               n = "await" => res.decision = "APPROVAL_REQUIRED"
        PROVE  /\ x.raised \in BOOLEAN /\ x.graph \in Graphs /\ Coherent(x.graph)
               /\ x.graph.node \in IF x.raised THEN {"gather", "execute"} ELSE {"await", "end"}
    <3> DEFINE k == [h EXCEPT !.node = n]
    <3>1. /\ k \in Graphs /\ k.result = h.result /\ k.acted = h.acted /\ k.node = n
          /\ k.validation = h.validation /\ k.proposals = h.proposals
          /\ k.policy_result = h.policy_result
      BY <2>2 DEF Graphs
    <3> HIDE DEF k
    <3>2. Coherent(k)
      <4>1. n = "await" => res # NoResult
        BY <2>5 DEF NoResult
      <4> QED
        BY <2>5, <3>1, <4>1, <2>1, <2>2, <1>1, <1>2, <1>0 DEF Coherent
    <3>3. x.raised = FALSE /\ x.graph = k
      BY <2>5 DEF Returned, k
    <3> QED
      BY <3>1, <3>2, <3>3
  <2>6. CASE h.policy_result.decision # "ALLOWED"
    <3>1. CASE h.policy_result.decision = "APPROVAL_REQUIRED"
      <4>1. x = Returned([h EXCEPT !.node = "await"])
        BY <2>3, <3>1 DEF FromPolicy
      <4> QED
        BY <4>1, <3>1, <2>2, <2>5 DEF NoResult
    <3>2. CASE h.policy_result.decision # "APPROVAL_REQUIRED"
      <4>1. x = Returned([h EXCEPT !.node = "end"])
        BY <2>3, <2>6, <3>2 DEF FromPolicy
      <4> QED
        BY <4>1, <2>5
    <3> QED
      BY <3>1, <3>2
  <2> QED
    BY <2>4, <2>6
<1> QED
  BY <1>3, <1>4 DEF proposed

\* What is left of a thread whose invocation broke off: where it was, and the
\* mark of what had been done.
LEMMA BrokenShapes ==
    ASSUME NEW g \in Graphs, Coherent(g), g.result = "none",
           NEW later, \A y \in later : y.graph \in Graphs,
           NEW x \in OrBroken(g, later), x \notin later
    PROVE  /\ x.raised = TRUE /\ x.graph \in Graphs /\ Coherent(x.graph)
           /\ x.graph.node = g.node /\ x.graph.proposals = g.proposals
           /\ x.graph.policy_result = g.policy_result /\ x.graph.prior = g.prior
<1>1. PICK a \in BOOLEAN : x = Raised([g EXCEPT !.acted = a])
  <2>1. PICK a \in {g.acted} \union {y.graph.acted : y \in later} :
           x = Raised([g EXCEPT !.acted = a])
    BY DEF OrBroken
  <2>2. \A h \in Graphs : h.acted \in BOOLEAN
    BY DEF Graphs
  <2>3. a \in BOOLEAN
    BY <2>2
  <2> QED
    BY <2>1, <2>3
<1> DEFINE h == [g EXCEPT !.acted = a]
<1>2. /\ h \in Graphs /\ h.node = g.node /\ h.result = g.result /\ h.validation = g.validation
      /\ h.proposals = g.proposals /\ h.policy_result = g.policy_result /\ h.prior = g.prior
  BY DEF Graphs
<1>3. x.raised = TRUE /\ x.graph = h
  BY <1>1 DEF Raised
<1> HIDE DEF h
<1>4. Coherent(h)
  BY <1>2 DEF Coherent
<1> QED
  BY <1>2, <1>3, <1>4

\* An invocation from the start: nothing of it counts unless it got beyond the
\* policy node.
LEMMA StartShapes ==
    ASSUME level \in Levels, NEW g \in Graphs, Coherent(g), g.node \in {"none", "gather"},
           NEW x \in FromStart(g, PolicySettings)
    PROVE  /\ x.raised \in BOOLEAN /\ x.graph \in Graphs /\ Coherent(x.graph)
           /\ x.graph.node \in IF x.raised THEN {"gather", "execute"} ELSE {"await", "end"}
<1> DEFINE first == [g EXCEPT !.node = "gather"]
           later == UNION {
               LET proposed == [g EXCEPT !.proposals = ps]
               IN  {Returned([proposed EXCEPT !.node = "end"])}
                   \union UNION {FromPolicy([proposed EXCEPT !.policy_result =
                                     Decide(ps, PolicySettings, cause, g.prior)]) :
                                 cause \in {"fault", "other"}} :
               ps \in ProposalLists}
<1>1. ASSUME NEW y \in later
      PROVE  /\ y.raised \in BOOLEAN /\ y.graph \in Graphs /\ Coherent(y.graph)
             /\ y.graph.node \in IF y.raised THEN {"gather", "execute"} ELSE {"await", "end"}
  <2>1. PICK ps \in ProposalLists :
          \/ y = Returned([[g EXCEPT !.proposals = ps] EXCEPT !.node = "end"])
          \/ \E cause \in {"fault", "other"} :
               y \in FromPolicy([[g EXCEPT !.proposals = ps] EXCEPT !.policy_result =
                                 Decide(ps, PolicySettings, cause, g.prior)])
    OBVIOUS
  <2> QED
    BY <2>1, DecisionShapes
<1>2. /\ first \in Graphs /\ first.node = "gather" /\ first.result = "none" /\ Coherent(first)
  BY DEF Graphs, Coherent
<1>3. x \in OrBroken(first, later)
  BY DEF FromStart
<1> HIDE DEF first, later
<1>4. CASE x \in later
  BY <1>1, <1>4
<1>5. CASE x \notin later
  BY <1>1, <1>2, <1>3, <1>5, BrokenShapes
<1> QED
  BY <1>4, <1>5

\* Resuming does not undo anything: a late thread stays late with the decision
\* it has, and one at its end stands still.
LEMMA ResumeShapes ==
    ASSUME level \in Levels, NEW g \in Graphs, Coherent(g), NEW answer \in Answers,
           NEW x \in FromResume(g, answer, PolicySettings)
    PROVE  /\ x.raised \in BOOLEAN /\ x.graph \in Graphs /\ Coherent(x.graph)
           /\ ~ x.raised => x.graph.node \in {"await", "end"}
           /\ g.node \in Late =>
                /\ x.graph.node \in Late /\ x.graph.proposals = g.proposals
                /\ x.graph.policy_result = g.policy_result
                /\ ~ x.raised => x.graph.node = "end"
           /\ g.node = "end" => x.graph = g
<1>0. g.node \in {"none", "gather", "await", "execute", "end"}
  BY DEF Graphs
<1>1. CASE g.node = "none"
  <2>1. x = Raised(g)
    BY <1>1 DEF FromResume
  <2> QED
    BY <1>1, <2>1 DEF Raised, Late
<1>2. CASE g.node = "gather"
  <2>1. x \in FromStart(g, PolicySettings)
    BY <1>2 DEF FromResume
  <2> QED
    BY <1>2, <2>1, StartShapes DEF Late
<1>3. CASE g.node \in {"await", "execute"} /\ x \in FromExecute(g)
  <2>1. g.result = "none" /\ g.validation = "none"
    BY <1>3 DEF Coherent, Graphs
  <2>2. /\ g.policy_result # NoResult
        /\ \A i \in DOMAIN g.proposals : g.proposals[i].id = i
        /\ g.policy_result.proposal_id \in DOMAIN g.proposals
    BY <1>3 DEF Coherent
  <2>3. /\ x.raised \in BOOLEAN /\ x.graph \in Graphs /\ Coherent(x.graph)
        /\ x.graph.proposals = g.proposals /\ x.graph.policy_result = g.policy_result
        /\ x.graph.node = IF x.raised THEN "execute" ELSE "end"
    BY <1>3, <2>1, <2>2, ExecuteShapes
  <2> QED
    BY <1>3, <2>3 DEF Late
<1>4. CASE g.node = "await" /\ x = Returned([g EXCEPT !.node = "end"])
  <2> DEFINE h == [g EXCEPT !.node = "end"]
  <2>1. /\ h \in Graphs /\ h.result = g.result /\ h.acted = g.acted /\ h.node = "end"
        /\ h.validation = g.validation /\ h.proposals = g.proposals
        /\ h.policy_result = g.policy_result
    BY DEF Graphs
  <2> HIDE DEF h
  <2>2. Coherent(h)
    BY <1>4, <2>1 DEF Coherent
  <2>3. x.raised = FALSE /\ x.graph = h
    BY <1>4 DEF Returned, h
  <2> QED
    BY <1>4, <2>1, <2>2, <2>3 DEF Late
<1>5. CASE g.node = "await"
  <2>1. PICK later :
          /\ x \in OrBroken(g, later)
          /\ later \subseteq FromExecute(g) \union {Returned([g EXCEPT !.node = "end"])}
    <3>1. x \in FromAwait(g, answer)
      BY <1>5 DEF FromResume
    <3> QED
      BY <3>1 DEF FromAwait
  <2>2. CASE x \in later
    BY <1>3, <1>4, <1>5, <2>1, <2>2
  <2>3. CASE x \notin later
    <3>1. \A y \in later : y.graph \in Graphs
      <4> TAKE y \in later
      <4>1. CASE y \in FromExecute(g)
        BY <1>5, <4>1, ExecuteShapes DEF Coherent, Graphs
      <4>2. CASE y = Returned([g EXCEPT !.node = "end"])
        BY <4>2 DEF Returned, Graphs
      <4> QED
        BY <2>1, <4>1, <4>2
    <3>2. g.result = "none"
      BY <1>5 DEF Coherent
    <3>3. /\ x.raised = TRUE /\ x.graph \in Graphs /\ Coherent(x.graph)
          /\ x.graph.node = g.node /\ x.graph.proposals = g.proposals
          /\ x.graph.policy_result = g.policy_result
      BY <2>1, <2>3, <3>1, <3>2, BrokenShapes
    <3> QED
      BY <1>5, <3>3 DEF Late
  <2> QED
    BY <2>2, <2>3
<1>6. CASE g.node = "execute"
  <2>1. x \in FromExecute(g)
    BY <1>6 DEF FromResume
  <2> QED
    BY <1>3, <1>6, <2>1
<1>7. CASE g.node = "end"
  <2>1. x = Returned(g)
    BY <1>7 DEF FromResume
  <2> QED
    BY <1>7, <2>1 DEF Returned, Late
<1> QED
  BY <1>0, <1>1, <1>2, <1>5, <1>6, <1>7

(***************************************************************************)
(* What a session writes                                                   *)
(***************************************************************************)
\* New rows come from the thread's policy; none of them claims an approval.
LEMMA DecidedRows ==
    ASSUME NEW rows \in [Actions -> Row \union {NULL}], NEW t \in Threads,
           NEW g \in Graphs, Coherent(g)
    PROVE  LET all == WithDecisions(rows, t, g)
           IN  /\ all \in [Actions -> Row \union {NULL}]
               /\ \A a \in Actions :
                    /\ rows[a] # NULL => all[a] = rows[a]
                    /\ all[a] # rows[a] =>
                        /\ a[1] = t /\ g.policy_result # NoResult
                        /\ all[a].decision = "APPROVAL_REQUIRED" => all[a].status = "AWAITING_APPROVAL"
                        /\ ~ Finished(all[a])
               /\ g.policy_result # NoResult =>
                    Selected(t, g) \in Actions /\ all[Selected(t, g)] # NULL
<1> DEFINE all == WithDecisions(rows, t, g)
           new(a) == NewRow(AllPolicyResults(g)[a[2]])
           created(a) == rows[a] = NULL /\ a[1] = t /\ a[2] \in DOMAIN AllPolicyResults(g)
<1>1. \A a \in Actions : all[a] = IF created(a) THEN new(a) ELSE rows[a]
  BY DEF WithDecisions
<1>2. all = [a \in Actions |-> IF created(a) THEN new(a) ELSE rows[a]]
  BY DEF WithDecisions
<1>3. ASSUME NEW a \in Actions, created(a)
      PROVE  /\ new(a) \in Row /\ g.policy_result # NoResult
             /\ new(a).decision = "APPROVAL_REQUIRED" => new(a).status = "AWAITING_APPROVAL"
             /\ ~ Finished(new(a))
  <2>1. g.policy_result # NoResult
    BY <1>3 DEF AllPolicyResults
  <2>2. AllPolicyResults(g) = AllResults(g.proposals, PolicySettings)
    BY <2>1 DEF AllPolicyResults
  <2>3. AllPolicyResults(g)[a[2]] = EvaluatePolicy(g.proposals[a[2]], PolicySettings)
    BY <1>3, <2>2 DEF AllResults
  <2>4. AllPolicyResults(g)[a[2]].decision \in Decisions
    BY <2>3 DEF EvaluatePolicy, Result, Decisions
  <2> QED
    BY <2>1, <2>4 DEF NewRow, Row, Statuses, Decisions, Finished
<1>4. ASSUME g.policy_result # NoResult
      PROVE  Selected(t, g) \in Actions /\ all[Selected(t, g)] # NULL
  <2> DEFINE s == <<t, g.policy_result.proposal_id>>
  <2>1. g.policy_result.proposal_id \in 1 .. MaxProposals
    BY <1>4 DEF Graphs
  <2>2. s \in Actions /\ s[1] = t /\ s[2] = g.policy_result.proposal_id
    BY <2>1 DEF Actions
  <2>3. s[2] \in DOMAIN AllPolicyResults(g)
    BY <1>4, <2>2 DEF AllPolicyResults, AllResults, Coherent
  <2> HIDE DEF s, created, new, all
  <2>4. all[s] # NULL
    <3>1. CASE rows[s] = NULL
      <4>1. created(s)
        BY <2>2, <2>3, <3>1 DEF created
      <4> QED
        BY <1>1, <1>3, <2>2, <4>1, ApprovalAssumption
    <3>2. CASE rows[s] # NULL
      BY <1>1, <2>2, <3>2 DEF created
    <3> QED
      BY <3>1, <3>2
  <2> QED
    BY <2>2, <2>4 DEF s, Selected
<1> HIDE DEF new
<1>5. all \in [Actions -> Row \union {NULL}]
  BY <1>2, <1>3
<1>6. ASSUME NEW a \in Actions
      PROVE  /\ rows[a] # NULL => all[a] = rows[a]
             /\ all[a] # rows[a] =>
                  /\ a[1] = t /\ g.policy_result # NoResult
                  /\ all[a].decision = "APPROVAL_REQUIRED" => all[a].status = "AWAITING_APPROVAL"
                  /\ ~ Finished(all[a])
  BY <1>1, <1>3
<1> QED
  BY <1>4, <1>5, <1>6

\* What is recorded on top concerns the selected action, which has no result
\* yet and was executable.
LEMMA PersistedRows ==
    ASSUME NEW rows \in [Actions -> Row \union {NULL}], NEW t \in Threads,
           NEW g \in Graphs, Coherent(g), Persisted(rows, t, g) # NULL
    PROVE  LET new == Persisted(rows, t, g)
               s == Selected(t, g)
           IN  /\ new \in [Actions -> Row \union {NULL}]
               /\ \A a \in Actions :
                    /\ rows[a] # NULL => new[a] # NULL /\ new[a].decision = rows[a].decision
                    /\ new[a] # rows[a] => a[1] = t /\ (rows[a] = NULL \/ a \notin results)
                    /\ Claims(new[a]) => Claims(rows[a])
                    /\ Finished(new[a]) => Finished(rows[a]) \/ (g.result # "none" /\ a = s)
               /\ g.result # "none" =>
                    s \in Actions /\ s \notin results /\ new[s] # NULL /\ new[s].status = Outcome(g)
<1> DEFINE all == WithDecisions(rows, t, g)
           s == Selected(t, g)
           new == Persisted(rows, t, g)
<1>1. /\ all \in [Actions -> Row \union {NULL}]
      /\ \A a \in Actions :
           /\ rows[a] # NULL => all[a] = rows[a]
           /\ all[a] # rows[a] =>
                /\ a[1] = t /\ g.policy_result # NoResult
                /\ all[a].decision = "APPROVAL_REQUIRED" => all[a].status = "AWAITING_APPROVAL"
                /\ ~ Finished(all[a])
      /\ g.policy_result # NoResult => s \in Actions /\ all[s] # NULL
  BY DecidedRows
<1>2. s[1] = t
  BY DEF Selected
<1>3. CASE g.result = "none"
  <2>1. new = all
    BY <1>3 DEF Persisted
  <2> HIDE DEF all, s, new
  <2> QED
    BY <1>1, <1>3, <2>1, ApprovalAssumption DEF Claims, s, new
<1>4. CASE g.result # "none"
  <2>1. /\ new = [all EXCEPT ![s].status = Outcome(g)]
        /\ all[s].status \in {"APPROVED", Outcome(g)} /\ s \notin results
    BY <1>4 DEF Persisted, MayRecord
  <2>2. g.policy_result # NoResult
    BY <1>4 DEF Coherent
  <2>3. Outcome(g) \in {"SUCCEEDED", "FAILED"}
    BY DEF Outcome
  <2> HIDE DEF all, s, new
  <2>4. s \in Actions /\ all[s] \in Row
    BY <1>1, <2>2
  <2>5. /\ new \in [Actions -> Row \union {NULL}]
        /\ \A a \in Actions : a # s => new[a] = all[a]
        /\ new[s] \in Row /\ new[s].status = Outcome(g) /\ new[s].decision = all[s].decision
    BY <1>1, <2>1, <2>3, <2>4 DEF Row, Statuses
  <2>6. new[s] # NULL
    BY <2>5, ApprovalAssumption
  <2>7. ASSUME NEW a \in Actions
        PROVE  /\ rows[a] # NULL => new[a] # NULL /\ new[a].decision = rows[a].decision
               /\ new[a] # rows[a] => a[1] = t /\ (rows[a] = NULL \/ a \notin results)
               /\ Claims(new[a]) => Claims(rows[a])
               /\ Finished(new[a]) => Finished(rows[a]) \/ (g.result # "none" /\ a = s)
    <3>1. CASE a # s
      BY <1>1, <2>5, <3>1 DEF Claims
    <3>2. CASE a = s
      <4>1. Claims(new[a]) => Claims(rows[a])
        <5> SUFFICES ASSUME Claims(new[a]) PROVE Claims(rows[a])
          OBVIOUS
        <5>1. all[a].decision = "APPROVAL_REQUIRED"
          BY <2>5, <3>2 DEF Claims
        <5>2. all[a].status # "AWAITING_APPROVAL"
          BY <2>1, <2>3, <3>2
        <5>3. all[a] = rows[a]
          BY <1>1, <5>1, <5>2
        <5>4. all[a] # NULL
          BY <2>4, <3>2, ApprovalAssumption
        <5> QED
          BY <2>1, <2>3, <3>2, <5>1, <5>3, <5>4 DEF Claims
      <4>2. rows[a] # NULL => new[a] # NULL /\ new[a].decision = rows[a].decision
        BY <1>1, <2>5, <2>6, <3>2
      <4> QED
        BY <1>2, <1>4, <2>1, <3>2, <4>1, <4>2
    <3> QED
      BY <3>1, <3>2
  <2> QED
    BY <1>4, <2>1, <2>4, <2>5, <2>6, <2>7 DEF s, new
<1> QED
  BY <1>3, <1>4

(***************************************************************************)
(* What every step keeps                                                   *)
(***************************************************************************)
\* No step takes back a row, a decision, an approval, the start of a run or
\* what a late thread has done.
Ahead ==
    /\ \A a \in Actions : audit[a] # NULL =>
         audit'[a] # NULL /\ audit'[a].decision = audit[a].decision
    /\ approved \subseteq approved' /\ results \subseteq results'
    /\ \A t \in Threads :
        /\ run[t].phase \notin {"new", "counted"} => run'[t].phase \notin {"new", "counted"}
        /\ run[t].phase \notin {"new", "counted", "running"} =>
             run'[t].phase \notin {"new", "counted", "running"}
        /\ graph[t].node \in Late => graph'[t].node \in Late
        /\ graph[t].node = "end" => graph'[t] = graph[t]

\* A request may still rely on all it relied on.
LEMMA RequestKept ==
    ASSUME TypeOK, Ahead, NEW o \in Operators, Request(o), op'[o] = op[o]
    PROVE  Request(o)'
<1>1. op[o].phase \in {"idle", "opened", "read", "checked", "recorded", "resumed"}
  BY DEF TypeOK
<1>2. op[o].phase # "idle" => op[o].action \in Actions /\ audit'[op[o].action] # NULL
  BY DEF Request, Ahead
<1>3. op[o].phase \notin {"idle", "opened"} =>
        /\ op[o].thread \in Threads
        /\ run'[op[o].thread].phase \notin {"new", "counted"}
  BY DEF Request, Ahead
<1>4. op[o].phase \in {"checked", "recorded", "resumed"} =>
        /\ op[o].seen \in [Actions -> Row \union {NULL}] /\ op[o].seen[op[o].action] # NULL
        /\ \A a \in Actions : op[o].seen[a] # NULL =>
            /\ audit'[a] # NULL /\ audit'[a].decision = op[o].seen[a].decision
            /\ a # op[o].action /\ Claims(op[o].seen[a]) => a \in approved'
            /\ Finished(op[o].seen[a]) => a \in results'
  BY DEF Request, Ahead
<1>5. op[o].phase = "resumed" =>
        /\ Left(op[o].thread, op[o].final)'
        /\ run'[op[o].thread].phase # "running"
        /\ op[o].thread = op[o].action[1] => op[o].final.node = "end"
  <2> SUFFICES ASSUME op[o].phase = "resumed"
               PROVE  /\ Left(op[o].thread, op[o].final)'
                      /\ run'[op[o].thread].phase # "running"
                      /\ op[o].thread = op[o].action[1] => op[o].final.node = "end"
    OBVIOUS
  <2>1. /\ op[o].thread \in Threads /\ Left(op[o].thread, op[o].final)
        /\ run[op[o].thread].phase \notin {"new", "counted", "running"}
        /\ op[o].thread = op[o].action[1] => op[o].final.node = "end"
    BY DEF Request
  <2>2. run'[op[o].thread].phase # "running"
    BY <2>1 DEF Ahead
  <2>3. Left(op[o].thread, op[o].final)'
    BY <2>1 DEF Ahead, Left, Coherent
  <2> QED
    BY <2>1, <2>2, <2>3
<1> QED
  BY <1>2, <1>3, <1>4, <1>5 DEF Request, Claims, Finished

\* A run that this step leaves alone keeps its part.
LEMMA ThreadKept ==
    ASSUME Ahead, NEW t \in Threads, Thread(t), run'[t] = run[t], graph'[t] = graph[t],
           incident_thread # NULL => incident_thread' # NULL
    PROVE  Thread(t)'
BY DEF Ahead, Thread, Left, Coherent

\* A recorded outcome is safe with its thread at the end.
LEMMA EndStands ==
    ASSUME \A t \in Threads : Thread(t), Outcomes, TypeOK, Ahead
    PROVE  /\ \A a \in results : graph'[a[1]] = graph[a[1]]
           /\ \A a \in Actions : audit[a] # NULL => graph'[a[1]].node \in Late
           /\ \A t \in Threads : graph[t].validation = "passed" => graph'[t] = graph[t]
<1>1. \A a \in Actions : a[1] \in Threads
  BY DEF Actions
<1>2. results \subseteq Actions
  BY DEF TypeOK
<1>3. \A t \in Threads : graph[t].result # "none" => graph[t].node = "end"
  BY DEF Thread, Coherent
<1>4. \A t \in Threads : graph[t].validation = "passed" => graph[t].result # "none"
  BY DEF Thread, Coherent
<1> QED
  BY <1>1, <1>2, <1>3, <1>4 DEF Ahead, Outcomes

\* Steps that write no rows keep what is recorded.
LEMMA TrailKept ==
    ASSUME IInv, Ahead, UNCHANGED <<audit, results, approved>>,
           incident_status' \in {incident_status, "INVESTIGATING", "FAILED"}
    PROVE  Approvals' /\ Outcomes' /\ ResolvedIsValidated'
<1>1. /\ \A a \in results : graph'[a[1]] = graph[a[1]]
      /\ \A a \in Actions : audit[a] # NULL => graph'[a[1]].node \in Late
      /\ \A t \in Threads : graph[t].validation = "passed" => graph'[t] = graph[t]
  BY EndStands DEF IInv
<1>2. Approvals'
  BY DEF IInv, Approvals, OutcomeNeedsApproval, Claims
<1>3. Outcomes'
  BY <1>1 DEF IInv, Outcomes, Selected, Finished
<1>4. ResolvedIsValidated'
  BY <1>1 DEF IInv, ResolvedIsValidated
<1> QED
  BY <1>2, <1>3, <1>4

\* What a session writes of thread t, whose state it has as g; mine is the
\* action that it has decided, if any.
Written(t, g, mine) ==
    /\ t \in Threads /\ g \in Graphs /\ Left(t, g)
    /\ audit' \in [Actions -> Row \union {NULL}]
    /\ results' = WithResult(t, g)
    /\ incident_status' \in {incident_status, NextStatus(g)}
    /\ \A a \in Actions :
        /\ audit[a] = NULL /\ audit'[a] # NULL => a[1] = t
        /\ Claims(audit'[a]) => a \in approved'
        /\ Finished(audit'[a]) => a \in results'
    /\ \A a \in results :
        \/ audit'[a] = audit[a]
        \/ a \in mine /\ audit'[a].status \notin {"SUCCEEDED", "FAILED"}
    /\ LET s == Selected(t, g)
       IN  g.result # "none" => s \in Actions /\ audit'[s] # NULL /\ audit'[s].status = Outcome(g)
    /\ UNCHANGED graph

LEMMA TrailWritten ==
    ASSUME IInv, Ahead, NEW t, NEW g, NEW mine, Written(t, g, mine)
    PROVE  Approvals' /\ Outcomes' /\ ResolvedIsValidated' /\ results' \subseteq Actions
<1> DEFINE s == Selected(t, g)
<1>1. g.result # "none" => /\ g.node = "end" /\ graph[t] = g /\ s \in Actions
                           /\ audit'[s] # NULL /\ audit'[s].status = Outcome(g)
  BY DEF Written, Left, Coherent
<1>2. results' = IF g.result = "none" THEN results ELSE results \union {s}
  BY DEF Written, WithResult
<1>3. s[1] = t /\ graph' = graph
  BY DEF Selected, Written
<1>4. results \subseteq Actions /\ \A a \in Actions : a[1] \in Threads
  BY DEF IInv, TypeOK, Actions
<1>5. Outcome(g) \in {"SUCCEEDED", "FAILED"}
      /\ (Outcome(g) = "SUCCEEDED" <=> g.result = "success")
  BY DEF Outcome
<1>6. g.result \in {"none", "success", "failure"}
  BY DEF Written, Graphs
<1> HIDE DEF s
<1>7. Approvals'
  <2>1. \A a \in Actions : Claims(audit'[a]) => a \in approved'
    BY DEF Written
  <2>2. ASSUME NEW a \in results', audit'[a].decision = "APPROVAL_REQUIRED"
        PROVE  a \in approved'
    <3>1. CASE a \in results
      BY <1>4, <2>2, <3>1 DEF IInv, Approvals, Outcomes, OutcomeNeedsApproval, Ahead
    <3>2. CASE a \notin results
      <4>1. a = s /\ a \in Actions /\ audit'[a] # NULL /\ audit'[a].status \in {"SUCCEEDED", "FAILED"}
        BY <1>1, <1>2, <1>5, <2>2, <3>2
      <4> QED
        BY <2>1, <2>2, <4>1 DEF Claims
    <3> QED
      BY <3>1, <3>2
  <2> QED
    BY <2>1, <2>2 DEF Approvals, OutcomeNeedsApproval, Claims
<1>8. Outcomes'
  <2>1. ASSUME NEW a \in Actions
        PROVE  /\ audit'[a] # NULL => graph'[a[1]].node \in Late
               /\ Finished(audit'[a]) => a \in results'
    BY <1>3 DEF Written, Left, IInv, Outcomes
  <2>2. ASSUME NEW a \in results'
        PROVE  /\ audit'[a] # NULL
               /\ graph'[a[1]].result # "none" /\ Selected(a[1], graph'[a[1]]) = a
               /\ audit'[a].status = "SUCCEEDED" => graph'[a[1]].result = "success"
               /\ audit'[a].status = "FAILED" => graph'[a[1]].result = "failure"
    <3>1. CASE a \in results
      <4>1. audit'[a] # NULL
        BY <1>4, <3>1 DEF IInv, Outcomes, Ahead
      <4>2. audit'[a] = audit[a] \/ audit'[a].status \notin {"SUCCEEDED", "FAILED"}
        BY <3>1 DEF Written
      <4> QED
        BY <1>3, <3>1, <4>1, <4>2 DEF IInv, Outcomes
    <3>2. CASE a \notin results
      <4>1. a = s /\ g.result # "none"
        BY <1>2, <2>2, <3>2
      <4>2. a[1] = t /\ graph'[t] = g
        BY <1>1, <1>3, <4>1
      <4>3. Selected(a[1], graph'[a[1]]) = a
        BY <4>1, <4>2 DEF s
      <4> QED
        BY <1>1, <1>5, <1>6, <4>1, <4>2, <4>3
    <3> QED
      BY <3>1, <3>2
  <2> QED
    BY <2>1, <2>2 DEF Outcomes, Selected, Finished
<1>9. ResolvedIsValidated'
  <2> SUFFICES ASSUME incident_status' = "RESOLVED"
               PROVE  \E a \in results' : graph'[a[1]].validation = "passed"
    BY DEF ResolvedIsValidated
  <2>1. CASE incident_status = "RESOLVED"
    BY <1>2, <1>3, <2>1 DEF IInv, ResolvedIsValidated
  <2>2. CASE incident_status # "RESOLVED"
    <3>1. g.validation = "passed"
      BY <2>2 DEF Written, NextStatus
    <3>2. g.result # "none"
      BY <3>1 DEF Written, Left, Coherent
    <3> QED
      BY <1>1, <1>2, <1>3, <3>1, <3>2
  <2> QED
    BY <2>1, <2>2
<1>10. results' \subseteq Actions
  BY <1>1, <1>2, <1>4
<1> QED
  BY <1>7, <1>8, <1>9, <1>10

(***************************************************************************)
(* Steps of run_investigation                                              *)
(***************************************************************************)
LEMMA PriorsAreCounts ==
    ASSUME TypeOK
    PROVE  CountPrior \in [attempts : Nat, auto_executions : Nat]
<1>1. IsFiniteSet(Actions)
  <2>1. IsFiniteSet(1 .. MaxProposals)
    BY FS_Interval, InvocationAssumption
  <2> QED
    BY <2>1, FS_Product, ApprovalAssumption DEF Actions
<1>2. \A S : S \subseteq Actions => Cardinality(S) \in Nat
  BY <1>1, FS_Subset, FS_CardinalityType
<1>3. Existing \subseteq Actions
      /\ {a \in Existing : audit[a].decision = "ALLOWED"} \subseteq Actions
  BY DEF Existing
<1> QED
  BY <1>2, <1>3 DEF CountPrior

RunRecords ==
    [phase : {"new", "counted", "running", "returned", "failing", "done", "expired", "lost"},
     seen : IncidentStatuses \union {NULL}, final : Graphs]

LEMMA RunTyped ==
    ASSUME run \in [Threads -> RunRecords], NEW t \in Threads,
           NEW p \in {"new", "counted", "running", "returned", "failing", "done", "expired", "lost"}
    PROVE  /\ \A s \in IncidentStatuses \union {NULL} :
                [run EXCEPT ![t].phase = p, ![t].seen = s] \in [Threads -> RunRecords]
           /\ \A f \in Graphs :
                [run EXCEPT ![t].phase = p, ![t].final = f] \in [Threads -> RunRecords]
<1> DEFINE r == [run[t] EXCEPT !.phase = p]
<1>1. run[t] \in RunRecords
  OBVIOUS
<1>2. r \in RunRecords
  BY <1>1 DEF RunRecords
<1>3. /\ \A s \in IncidentStatuses \union {NULL} : [r EXCEPT !.seen = s] \in RunRecords
      /\ \A f \in Graphs : [r EXCEPT !.final = f] \in RunRecords
  BY <1>2 DEF RunRecords
<1>4. ASSUME NEW s \in IncidentStatuses \union {NULL}
      PROVE  [run EXCEPT ![t].phase = p, ![t].seen = s] \in [Threads -> RunRecords]
  <2>1. [run EXCEPT ![t].phase = p, ![t].seen = s] = [run EXCEPT ![t] = [r EXCEPT !.seen = s]]
    OBVIOUS
  <2> HIDE DEF r
  <2> QED
    BY <1>3, <2>1
<1>5. ASSUME NEW f \in Graphs
      PROVE  [run EXCEPT ![t].phase = p, ![t].final = f] \in [Threads -> RunRecords]
  <2>1. [run EXCEPT ![t].phase = p, ![t].final = f] = [run EXCEPT ![t] = [r EXCEPT !.final = f]]
    OBVIOUS
  <2> HIDE DEF r
  <2> QED
    BY <1>3, <2>1
<1> QED
  BY <1>4, <1>5

\* A step of a run that writes no rows keeps the invariant if it keeps the
\* run's own part of it.
LEMMA RunConclusion ==
    ASSUME IInv, NEW t \in Threads, TypeOK', Ahead, Thread(t)', Incident', Worked',
           UNCHANGED <<op, audit, results, approved>>,
           incident_status' \in {incident_status, "INVESTIGATING", "FAILED"},
           \A u \in Threads \ {t} : run'[u] = run[u] /\ graph'[u] = graph[u],
           incident_thread # NULL => incident_thread' # NULL
    PROVE  IInv'
<1>1. \A u \in Threads : Thread(u)'
  <2>1. ASSUME NEW u \in Threads, u # t PROVE Thread(u)'
    BY <2>1, ThreadKept DEF IInv
  <2> QED
    BY <2>1
<1>2. \A o \in Operators : Request(o)'
  BY RequestKept DEF IInv
<1>3. Approvals' /\ Outcomes' /\ ResolvedIsValidated'
  BY TrailKept
<1> QED
  BY <1>1, <1>2, <1>3 DEF IInv

LEMMA BeginStep ==
    ASSUME IInv, NEW t \in Threads, BeginRun(t)
    PROVE  IInv'
<1> DEFINE g == [graph[t] EXCEPT !.prior = CountPrior]
<1>1. /\ run[t].phase = "new" /\ graph[t].node = "none" /\ graph[t] \in Graphs
      /\ Coherent(graph[t]) /\ Coherent(run[t].final) /\ run[t].final \in Graphs
  BY DEF BeginRun, IInv, Thread, TypeOK
<1>2. /\ run' = [run EXCEPT ![t].phase = "counted", ![t].seen = incident_status]
      /\ graph' = [graph EXCEPT ![t] = g]
      /\ UNCHANGED <<level, db, op, approved>>
  BY DEF BeginRun
<1>3. g \in Graphs /\ Coherent(g) /\ g.node = "none"
  <2>1. CountPrior \in [attempts : Nat, auto_executions : Nat]
    BY PriorsAreCounts DEF IInv
  <2>2. /\ g \in Graphs /\ g.node = graph[t].node /\ g.proposals = graph[t].proposals
        /\ g.policy_result = graph[t].policy_result /\ g.result = graph[t].result
        /\ g.acted = graph[t].acted /\ g.validation = graph[t].validation
    BY <1>1, <2>1 DEF Graphs
  <2> HIDE DEF g
  <2> QED
    BY <1>1, <2>2 DEF Coherent
<1> HIDE DEF g
<1>4. /\ run'[t].phase = "counted" /\ run'[t].final = run[t].final /\ graph'[t] = g
      /\ \A u \in Threads \ {t} : run'[u] = run[u] /\ graph'[u] = graph[u]
  BY <1>2 DEF IInv, TypeOK
<1>5. TypeOK'
  <2>1. graph' \in [Threads -> Graphs]
    BY <1>2, <1>3 DEF IInv, TypeOK
  <2>2. run' \in [Threads -> RunRecords]
    <3>1. run \in [Threads -> RunRecords] /\ incident_status \in IncidentStatuses
      BY DEF IInv, TypeOK, RunRecords
    <3> QED
      BY <1>1, <1>2, <3>1, RunTyped
  <2>3. known' \in [Threads -> SUBSET Threads]
    <3>1. {a[1] : a \in Existing} \subseteq Threads
      BY DEF Existing, Actions
    <3> QED
      BY <3>1 DEF BeginRun, IInv, TypeOK
  <2> QED
    BY <1>2, <2>1, <2>2, <2>3 DEF IInv, TypeOK, db, RunRecords
<1>6. Ahead
  BY <1>1, <1>2, <1>4 DEF Ahead, db, Late
<1>7. Thread(t)' /\ Incident'
  BY <1>1, <1>2, <1>3, <1>4 DEF IInv, Thread, Incident, Coherent, Left, db, TypeOK
<1>8. Worked'
  <2> SUFFICES ASSUME incident_status = "INVESTIGATING"
               PROVE  incident_thread \in Threads /\ Working(run'[incident_thread])
    BY <1>2 DEF Worked, db, Working
  <2>1. incident_thread \in Threads /\ Working(run[incident_thread])
    BY DEF IInv, Worked
  <2>2. incident_thread # t
    BY <1>1, <2>1 DEF Working
  <2> QED
    BY <1>4, <2>1, <2>2
<1> QED
  BY <1>2, <1>4, <1>5, <1>6, <1>7, <1>8, RunConclusion DEF db

LEMMA StartStep ==
    ASSUME IInv, NEW t \in Threads, StartRun(t)
    PROVE  IInv'
<1>1. /\ run[t].phase = "counted" /\ graph[t].node = "none"
      /\ Coherent(graph[t]) /\ Coherent(run[t].final)
  BY DEF StartRun, IInv, Thread
<1>2. /\ incident_status' = StatusWritten(run[t].seen, "INVESTIGATING")
      /\ incident_thread' = t /\ t # NULL
      /\ run' = [run EXCEPT ![t].phase = "running", ![t].seen = incident_status']
      /\ UNCHANGED <<level, audit, results, graph, op, history>>
  BY ApprovalAssumption DEF StartRun
<1>3. incident_status' \in {incident_status, "INVESTIGATING"}
  BY <1>2 DEF StatusWritten
<1>4. /\ run'[t].phase = "running" /\ run'[t].final = run[t].final
      /\ run'[t].seen = incident_status'
      /\ \A u \in Threads \ {t} : run'[u] = run[u]
  BY <1>2 DEF IInv, TypeOK
<1>5. TypeOK'
  <2>1. incident_status' \in IncidentStatuses
    BY <1>3 DEF IInv, TypeOK, IncidentStatuses
  <2>2. run' \in [Threads -> RunRecords]
    <3>1. run \in [Threads -> RunRecords]
      BY DEF IInv, TypeOK, RunRecords
    <3> QED
      BY <1>1, <1>2, <2>1, <3>1, RunTyped
  <2> QED
    BY <1>2, <2>1, <2>2 DEF IInv, TypeOK, history, RunRecords
<1>6. Ahead
  BY <1>1, <1>2, <1>4 DEF Ahead, history, Late
<1>7. Thread(t)' /\ Incident'
  BY <1>1, <1>2, <1>4 DEF Thread, Incident, Coherent, Left
<1>8. Worked'
  BY <1>2, <1>4 DEF Worked, Working
<1> QED
  BY <1>2, <1>3, <1>4, <1>5, <1>6, <1>7, <1>8, RunConclusion DEF history

LEMMA GraphStep ==
    ASSUME IInv, NEW t \in Threads, RunGraph(t)
    PROVE  IInv'
<1>1. /\ run[t].phase = "running" /\ graph[t].node = "none" /\ graph[t] \in Graphs
      /\ Coherent(graph[t]) /\ incident_thread # NULL /\ level \in Levels
  BY DEF RunGraph, IInv, Thread, TypeOK
<1>2. PICK x \in FromStart(graph[t], PolicySettings), failure \in Failures :
        /\ graph' = [graph EXCEPT ![t] = x.graph]
        /\ run' = [run EXCEPT ![t].phase = IF x.raised THEN failure ELSE "returned",
                              ![t].final = x.graph]
  BY DEF RunGraph
<1>3. /\ x.raised \in BOOLEAN /\ x.graph \in Graphs /\ Coherent(x.graph)
      /\ x.graph.node \in IF x.raised THEN {"gather", "execute"} ELSE {"await", "end"}
  BY <1>1, StartShapes
<1>4. UNCHANGED <<level, db, op, history>>
  BY DEF RunGraph
<1>5. /\ run'[t].phase = (IF x.raised THEN failure ELSE "returned")
      /\ run'[t].final = x.graph /\ run'[t].seen = run[t].seen /\ graph'[t] = x.graph
      /\ \A u \in Threads \ {t} : run'[u] = run[u] /\ graph'[u] = graph[u]
  BY <1>2 DEF IInv, TypeOK
<1>a. /\ run'[t].phase \in {"failing", "expired", "returned"}
      /\ x.raised => run'[t].phase \in {"failing", "expired"}
      /\ ~ x.raised => run'[t].phase = "returned"
  BY <1>5 DEF Failures
<1>6. TypeOK'
  <2>1. graph' \in [Threads -> Graphs]
    BY <1>2, <1>3 DEF IInv, TypeOK
  <2>2. run' \in [Threads -> RunRecords]
    <3>1. run \in [Threads -> RunRecords]
      BY DEF IInv, TypeOK, RunRecords
    <3> QED
      <4>1. PICK p \in {"new", "counted", "running", "returned", "failing", "done", "expired", "lost"},
                 g \in Graphs :
              run' = [run EXCEPT ![t].phase = p, ![t].final = g]
        BY <1>2, <1>3 DEF Failures
      <4>2. [run EXCEPT ![t].phase = p, ![t].final = g] \in [Threads -> RunRecords]
        BY <3>1, RunTyped
      <4> QED
        BY <4>1, <4>2
  <2> QED
    BY <1>4, <2>1, <2>2 DEF IInv, TypeOK, db, history, RunRecords
<1>7. Ahead
  BY <1>1, <1>4, <1>5, <1>a DEF Ahead, db, history, Late
<1>8. Thread(t)' /\ Incident'
  <2>1. Thread(t)'
    BY <1>1, <1>3, <1>4, <1>5, <1>a DEF Thread, Coherent, Left, Late, db
  <2>2. Incident'
    BY <1>1, <1>4, <1>5, <1>a DEF IInv, Incident, TypeOK, db
  <2> QED
    BY <2>1, <2>2
<1>9. Worked'
  <2> SUFFICES ASSUME incident_status = "INVESTIGATING"
               PROVE  incident_thread \in Threads /\ Working(run'[incident_thread])
    BY <1>4 DEF Worked, db, Working
  <2>1. incident_thread \in Threads /\ Working(run[incident_thread])
    BY DEF IInv, Worked
  <2>2. CASE incident_thread # t
    BY <1>5, <2>1, <2>2
  <2>3. CASE incident_thread = t
    BY <1>1, <1>5, <1>a, <2>1, <2>3 DEF Working
  <2> QED
    BY <2>2, <2>3
<1> QED
  BY <1>4, <1>5, <1>6, <1>7, <1>8, <1>9, RunConclusion DEF db, history

\* RunRaises, FailRun and LoseRun.
LEMMA TroubleStep ==
    ASSUME IInv, NEW t \in Threads, RunRaises(t) \/ FailRun(t) \/ LoseRun(t)
    PROVE  IInv'
<1>1. /\ UNCHANGED <<level, incident_thread, audit, results, graph, op, known, approved>>
      /\ run[t].phase # "new"
      /\ incident_status' \in {incident_status, "FAILED"}
  BY DEF RunRaises, FailRun, LoseRun, db, history, FailureStatus
<1>2. /\ run'[t].phase \in {"failing", "done", "expired", "lost"} /\ Coherent(run'[t].final)
      /\ run' \in [Threads ->
          [phase : {"new", "counted", "running", "returned", "failing", "done", "expired", "lost"},
           seen : IncidentStatuses \union {NULL}, final : Graphs]]
      /\ \A u \in Threads \ {t} : run'[u] = run[u]
  <2>1. CASE RunRaises(t)
    <3>1. PICK failure \in {"failing", "expired"} : run' = [run EXCEPT ![t].phase = failure]
      BY <2>1 DEF RunRaises, Failures
    <3>2. /\ run \in [Threads -> RunRecords] /\ run[t] \in RunRecords
          /\ [run[t] EXCEPT !.phase = failure] \in RunRecords
      BY DEF IInv, TypeOK, RunRecords
    <3>3. run' = [run EXCEPT ![t] = [run[t] EXCEPT !.phase = failure]]
      BY <3>1
    <3>4. /\ run' \in [Threads -> RunRecords] /\ run'[t] = [run[t] EXCEPT !.phase = failure]
          /\ \A u \in Threads \ {t} : run'[u] = run[u]
      BY <3>2, <3>3
    <3>5. run'[t].phase = failure /\ run'[t].final = run[t].final /\ Coherent(run[t].final)
      BY <3>2, <3>4 DEF RunRecords, IInv, Thread
    <3> QED
      BY <3>4, <3>5 DEF RunRecords
  <2>2. ASSUME NEW p \in {"done", "lost"}, run' = [run EXCEPT ![t] = Ended(p)]
        PROVE  /\ run'[t].phase \in {"failing", "done", "expired", "lost"} /\ Coherent(run'[t].final)
               /\ run' \in [Threads ->
                   [phase : {"new", "counted", "running", "returned", "failing", "done", "expired", "lost"},
                    seen : IncidentStatuses \union {NULL}, final : Graphs]]
               /\ \A u \in Threads \ {t} : run'[u] = run[u]
    <3>1. Unstarted \in Graphs /\ Coherent(Unstarted)
      <4>1. <<>> \in Seq([id : 1 .. MaxProposals, action_type : ActionTypes,
                          target : {"demo-service"}])
        OBVIOUS
      <4> QED
        BY <4>1 DEF Unstarted, Graphs, Coherent
    <3>2. /\ Ended(p).phase = p /\ Ended(p).final = Unstarted
          /\ Ended(p) \in [phase : {"new", "counted", "running", "returned", "failing", "done", "expired", "lost"},
                       seen : IncidentStatuses \union {NULL}, final : Graphs]
      BY <3>1 DEF Ended, NoRun
    <3> QED
      BY <2>2, <3>1, <3>2 DEF IInv, TypeOK
  <2> QED
    BY <2>1, <2>2 DEF FailRun, LoseRun
<1>3. TypeOK'
  <2>1. incident_status' \in IncidentStatuses
    BY <1>1 DEF IInv, TypeOK, IncidentStatuses
  <2> QED
    BY <1>1, <1>2, <2>1 DEF IInv, TypeOK
<1>4. Ahead
  BY <1>1, <1>2 DEF Ahead, IInv, TypeOK
<1>5. Thread(t)' /\ Incident'
  <2>1. Thread(t)'
    BY <1>1, <1>2 DEF IInv, Thread, Coherent, Left
  <2>2. Incident'
    BY <1>1, <1>2 DEF IInv, Incident, TypeOK
  <2> QED
    BY <2>1, <2>2
<1>6. Worked'
  <2>1. CASE FailRun(t)
    BY <2>1 DEF FailRun, FailureStatus, Worked
  <2>2. CASE RunRaises(t) \/ LoseRun(t)
    <3>1. incident_status' = incident_status /\ run'[t].phase \in {"failing", "expired", "lost"}
      <4>1. CASE RunRaises(t)
        <5>1. PICK failure \in {"failing", "expired"} : run' = [run EXCEPT ![t].phase = failure]
          BY <4>1 DEF RunRaises, Failures
        <5> QED
          BY <4>1, <5>1 DEF RunRaises, db, IInv, TypeOK
      <4>2. CASE LoseRun(t)
        BY <4>2 DEF LoseRun, db, IInv, TypeOK, Ended, NoRun
      <4> QED
        BY <2>2, <4>1, <4>2
    <3> SUFFICES ASSUME incident_status = "INVESTIGATING"
                 PROVE  incident_thread \in Threads /\ Working(run'[incident_thread])
      BY <1>1, <3>1 DEF Worked, Working
    <3>2. incident_thread \in Threads /\ Working(run[incident_thread])
      BY DEF IInv, Worked
    <3>3. CASE incident_thread = t
      BY <3>1, <3>2, <3>3 DEF Working
    <3>4. CASE incident_thread # t
      BY <1>2, <3>2, <3>4
    <3> QED
      BY <3>3, <3>4
  <2> QED
    BY <2>1, <2>2
<1> QED
  BY <1>1, <1>2, <1>3, <1>4, <1>5, <1>6, RunConclusion

LEMMA PersistStep ==
    ASSUME IInv, NEW t \in Threads, PersistRun(t)
    PROVE  IInv'
<1> DEFINE g == run[t].final
           rows == Persisted(audit, t, g)
<1>1. /\ run[t].phase = "returned" /\ Left(t, g) /\ g \in Graphs /\ incident_thread # NULL
      /\ audit \in [Actions -> Row \union {NULL}] /\ Coherent(graph[t]) /\ Coherent(g)
  BY DEF PersistRun, IInv, Thread, TypeOK
<1>2. UNCHANGED <<level, incident_thread, graph, op, known, approved>>
  BY DEF PersistRun, history
<1>3. CASE rows = NULL
  <2>1. /\ run' = [run EXCEPT ![t].phase = "expired"]
        /\ UNCHANGED <<audit, results, incident_status>>
    BY <1>3 DEF PersistRun
  <2>2. /\ run'[t].phase = "expired" /\ run'[t].final = g
        /\ \A u \in Threads \ {t} : run'[u] = run[u]
    BY <2>1 DEF IInv, TypeOK
  <2>3. TypeOK'
    BY <1>2, <2>1 DEF IInv, TypeOK
  <2>4. Ahead
    BY <1>1, <1>2, <2>1, <2>2 DEF Ahead
  <2>5. Thread(t)' /\ Incident'
    <3>1. Thread(t)'
      BY <1>1, <1>2, <2>2 DEF Thread, Coherent, Left
    <3>2. Incident'
      BY <1>2, <2>1, <2>2 DEF IInv, Incident, TypeOK
    <3> QED
      BY <3>1, <3>2
  <2>6. Worked'
    <3> SUFFICES ASSUME incident_status = "INVESTIGATING"
                 PROVE  incident_thread \in Threads /\ Working(run'[incident_thread])
      BY <1>2, <2>1 DEF Worked, Working
    <3>1. incident_thread \in Threads /\ Working(run[incident_thread])
      BY DEF IInv, Worked
    <3> QED
      BY <2>2, <3>1 DEF Working
  <2> HIDE DEF g, rows
  <2> QED
    BY <1>2, <2>1, <2>2, <2>3, <2>4, <2>5, <2>6, RunConclusion
<1>4. CASE rows # NULL
  <2>1. /\ audit' = rows /\ results' = WithResult(t, g)
        /\ incident_status' = StatusWritten(run[t].seen, NextStatus(g))
        /\ run' = [run EXCEPT ![t] = Ended("done")]
    BY <1>4 DEF PersistRun
  <2>2. LET s == Selected(t, g)
        IN  /\ rows \in [Actions -> Row \union {NULL}]
            /\ \A a \in Actions :
                 /\ audit[a] # NULL => rows[a] # NULL /\ rows[a].decision = audit[a].decision
                 /\ rows[a] # audit[a] => a[1] = t /\ (audit[a] = NULL \/ a \notin results)
                 /\ Claims(rows[a]) => Claims(audit[a])
                 /\ Finished(rows[a]) => Finished(audit[a]) \/ (g.result # "none" /\ a = s)
            /\ g.result # "none" =>
                 s \in Actions /\ s \notin results /\ rows[s] # NULL /\ rows[s].status = Outcome(g)
    BY <1>1, <1>4, PersistedRows
  <2>3. incident_status' \in {incident_status, NextStatus(g)}
        /\ NextStatus(g) \in {"AWAITING_APPROVAL", "RESOLVED", "REMEDIATION_PROPOSED"}
    BY <2>1 DEF StatusWritten, NextStatus
  <2>4. /\ run'[t].phase = "done" /\ run'[t].final = Unstarted /\ Coherent(Unstarted)
        /\ Unstarted \in Graphs /\ \A u \in Threads \ {t} : run'[u] = run[u]
    <3>1. run'[t] = Ended("done") /\ \A u \in Threads \ {t} : run'[u] = run[u]
      BY <2>1 DEF IInv, TypeOK
    <3>2. Ended("done").phase = "done" /\ Ended("done").final = Unstarted
      BY DEF Ended, NoRun
    <3>3. Unstarted \in Graphs /\ Coherent(Unstarted)
      <4>1. <<>> \in Seq([id : 1 .. MaxProposals, action_type : ActionTypes,
                          target : {"demo-service"}])
        OBVIOUS
      <4> QED
        BY <4>1 DEF Unstarted, Graphs, Coherent
    <3> QED
      BY <3>1, <3>2, <3>3
  <2> HIDE DEF g, rows
  <2>5. results \subseteq results' /\ (g.result # "none" => Selected(t, g) \in results')
    BY <2>1 DEF WithResult
  <2>6. Ahead
    BY <1>1, <1>2, <2>1, <2>2, <2>4, <2>5 DEF Ahead
  <2>7. Written(t, g, {})
    <3>1. ASSUME NEW a \in Actions
          PROVE  /\ audit[a] = NULL /\ audit'[a] # NULL => a[1] = t
                 /\ Claims(audit'[a]) => a \in approved'
                 /\ Finished(audit'[a]) => a \in results'
      BY <1>2, <2>1, <2>2, <2>5 DEF IInv, Approvals, Outcomes
    <3>2. ASSUME NEW a \in results PROVE audit'[a] = audit[a]
      <4>1. a \in Actions /\ audit[a] # NULL
        BY DEF IInv, TypeOK, Outcomes
      <4> QED
        BY <2>1, <2>2, <4>1
    <3> QED
      BY <1>1, <1>2, <2>1, <2>2, <2>3, <3>1, <3>2 DEF Written
  <2>8. Approvals' /\ Outcomes' /\ ResolvedIsValidated' /\ results' \subseteq Actions
    BY <2>6, <2>7, TrailWritten
  <2>9. TypeOK'
    <3>1. incident_status' \in IncidentStatuses
      BY <2>3 DEF IInv, TypeOK, IncidentStatuses
    <3>2. run' \in [Threads ->
            [phase : {"new", "counted", "running", "returned", "failing", "done", "expired", "lost"},
             seen : IncidentStatuses \union {NULL}, final : Graphs]]
      BY <2>1, <2>4 DEF IInv, TypeOK, Ended, NoRun
    <3> QED
      BY <1>2, <2>1, <2>2, <2>8, <3>1, <3>2 DEF IInv, TypeOK
  <2>10. \A u \in Threads : Thread(u)'
    <3>1. Thread(t)'
      BY <1>1, <1>2, <2>4 DEF Thread, Coherent, Left
    <3>2. ASSUME NEW u \in Threads, u # t PROVE Thread(u)'
      BY <1>2, <2>4, <2>6, <3>2, ThreadKept DEF IInv
    <3> QED
      BY <3>1, <3>2
  <2>11. Incident'
    BY <1>1, <1>2, <2>4 DEF IInv, Incident, TypeOK
  <2>12. \A o \in Operators : Request(o)'
    BY <1>2, <2>6, RequestKept DEF IInv
  <2>13. Worked'
    <3> SUFFICES ASSUME incident_status' = "INVESTIGATING"
                 PROVE  incident_thread \in Threads /\ Working(run'[incident_thread])
      BY <1>2 DEF Worked, Working
    <3>1. incident_status = "INVESTIGATING" /\ run[t].seen # "INVESTIGATING"
      BY <2>1, <2>3 DEF StatusWritten
    <3>2. incident_thread \in Threads /\ Working(run[incident_thread])
      BY <3>1 DEF IInv, Worked
    <3>3. incident_thread # t
      BY <1>1, <3>1, <3>2 DEF Working
    <3> QED
      BY <2>4, <3>2, <3>3
  <2> QED
    BY <2>8, <2>9, <2>10, <2>11, <2>12, <2>13 DEF IInv
<1> QED
  BY <1>3, <1>4

(***************************************************************************)
(* Steps of a request                                                      *)
(***************************************************************************)
OpRecords ==
    [phase : {"idle", "opened", "read", "checked", "recorded", "resumed"},
     action : Actions \union {NULL}, answer : Answers \union {NULL},
     thread : Threads \union {NULL},
     seen : [Actions -> Row \union {NULL}] \union {NULL}, final : Graphs]

LEMMA IdleTyped == Idle \in OpRecords /\ Idle.phase = "idle" /\ Unstarted \in Graphs
<1>1. <<>> \in Seq([id : 1 .. MaxProposals, action_type : ActionTypes, target : {"demo-service"}])
  OBVIOUS
<1>2. Unstarted \in Graphs
  BY <1>1 DEF Unstarted, Graphs
<1> QED
  BY <1>2 DEF Idle, OpRecords

\* A step that changes a request alone keeps the invariant if it keeps the
\* request's part of it.
LEMMA RequestConclusion ==
    ASSUME IInv, NEW o \in Operators, NEW r \in OpRecords, op' = [op EXCEPT ![o] = r],
           Request(o)', UNCHANGED <<level, db, graph, run, history>>
    PROVE  IInv'
<1> USE DEF db, history
<1>1. \A p \in Operators \ {o} : op'[p] = op[p]
  BY DEF IInv, TypeOK
<1>2. TypeOK'
  <2>1. op' \in [Operators -> OpRecords]
    BY DEF IInv, TypeOK, OpRecords
  <2> QED
    BY <2>1 DEF IInv, TypeOK, OpRecords
<1>3. Ahead
  BY DEF Ahead
<1>4. \A t \in Threads : Thread(t)'
  BY <1>3, ThreadKept DEF IInv
<1>5. \A p \in Operators : Request(p)'
  <2>1. ASSUME NEW p \in Operators, p # o PROVE Request(p)'
    BY <1>1, <1>3, <2>1, RequestKept DEF IInv
  <2> QED
    BY <2>1
<1>6. Approvals' /\ Outcomes' /\ ResolvedIsValidated'
  BY <1>3, TrailKept
<1>7. Incident' /\ Worked'
  BY DEF IInv, Incident, Worked, Working
<1> QED
  BY <1>2, <1>4, <1>5, <1>6, <1>7 DEF IInv

\* The steps up to the decision, and the end of a failed request.
LEMMA RequestStep ==
    ASSUME IInv, NEW o \in Operators,
           \/ OpenAction(o) \/ ReadIncident(o) \/ CheckAwaiting(o)
           \/ RecordDecision(o) \/ RequestFails(o)
    PROVE  IInv'
<1>0. /\ UNCHANGED <<level, db, graph, run, history>> /\ op \in [Operators -> OpRecords]
      /\ op[o] \in OpRecords /\ Request(o)
      /\ audit \in [Actions -> Row \union {NULL}] /\ NULL \notin Row
  BY ApprovalAssumption
    DEF OpenAction, ReadIncident, CheckAwaiting, RecordDecision, RequestFails, IInv, TypeOK, OpRecords
<1>1. CASE RequestFails(o)
  <2>1. op' = [op EXCEPT ![o] = Idle]
    BY <1>1 DEF RequestFails
  <2>2. op'[o] = Idle
    BY <1>0, <2>1
  <2>3. Request(o)'
    BY <2>2, IdleTyped DEF Request
  <2> QED
    BY <1>0, <2>1, <2>3, IdleTyped, RequestConclusion
<1>2. CASE OpenAction(o)
  <2>1. PICK a \in Awaiting(audit) :
          op' = [op EXCEPT ![o] = [Idle EXCEPT !.phase = "opened", !.action = a]]
    BY <1>2 DEF OpenAction
  <2> DEFINE r == [Idle EXCEPT !.phase = "opened", !.action = a]
  <2>2. a \in Actions /\ audit[a] # NULL
    BY DEF Awaiting
  <2>3. r \in OpRecords /\ r.phase = "opened" /\ r.action = a
    BY <2>2, IdleTyped DEF Idle, OpRecords
  <2> HIDE DEF r
  <2>4. op' = [op EXCEPT ![o] = r] /\ op'[o] = r
    BY <1>0, <2>1 DEF r
  <2>5. Request(o)'
    BY <1>0, <2>2, <2>3, <2>4 DEF Request, db
  <2> QED
    BY <1>0, <2>3, <2>4, <2>5, RequestConclusion
<1>3. CASE ReadIncident(o)
  <2> DEFINE r == [op[o] EXCEPT !.phase = "read", !.thread = incident_thread]
  <2>1. /\ op' = [op EXCEPT ![o] = r] /\ op[o].phase = "opened"
        /\ incident_status = "AWAITING_APPROVAL"
    BY <1>3 DEF ReadIncident
  <2>2. incident_thread \in Threads /\ run[incident_thread].phase \notin {"new", "counted"}
    BY <2>1 DEF IInv, Incident, TypeOK
  <2>3. r \in OpRecords /\ r.phase = "read" /\ r.action = op[o].action /\ r.thread = incident_thread
    BY <1>0, <2>2 DEF OpRecords
  <2> HIDE DEF r
  <2>4. op'[o] = r
    BY <1>0, <2>1
  <2>5. Request(o)'
    BY <1>0, <2>1, <2>2, <2>3, <2>4 DEF Request, db
  <2> QED
    BY <1>0, <2>1, <2>3, <2>5, RequestConclusion
<1>4. CASE CheckAwaiting(o)
  <2> DEFINE b == op[o].action
             r == [op[o] EXCEPT !.phase = "checked", !.seen = Listed(o)]
  <2>1. op' = [op EXCEPT ![o] = r] /\ op[o].phase = "read"
    BY <1>4 DEF CheckAwaiting
  <2>2. /\ b \in Actions /\ audit[b] # NULL /\ op[o].thread \in Threads
        /\ run[op[o].thread].phase \notin {"new", "counted"}
    BY <1>0, <2>1 DEF Request
  <2>3. /\ Listed(o) \in [Actions -> Row \union {NULL}]
        /\ Listed(o)[b] \in Row /\ Listed(o)[b].status = "AWAITING_APPROVAL"
        /\ Listed(o)[b].decision = audit[b].decision
        /\ \A a \in Actions : a # b => Listed(o)[a] = audit[a]
    <3>1. audit[b] \in Row
      BY <1>0, <2>2
    <3>2. [audit[b] EXCEPT !.status = "AWAITING_APPROVAL"] \in Row
          /\ [audit[b] EXCEPT !.status = "AWAITING_APPROVAL"].status = "AWAITING_APPROVAL"
          /\ [audit[b] EXCEPT !.status = "AWAITING_APPROVAL"].decision = audit[b].decision
      BY <3>1 DEF Row, Statuses
    <3>3. Listed(o) = [audit EXCEPT ![b] = [audit[b] EXCEPT !.status = "AWAITING_APPROVAL"]]
      BY DEF Listed
    <3> QED
      BY <1>0, <2>2, <3>2, <3>3
  <2>4. /\ r \in OpRecords /\ r.phase = "checked" /\ r.action = b /\ r.thread = op[o].thread
        /\ r.seen = Listed(o)
    BY <1>0, <2>3 DEF OpRecords
  <2> HIDE DEF r, b
  <2>5. op'[o] = r
    BY <1>0, <2>1
  <2>6. ASSUME NEW a \in Actions, Listed(o)[a] # NULL
        PROVE  /\ audit[a] # NULL /\ audit[a].decision = Listed(o)[a].decision
               /\ a # b /\ Claims(Listed(o)[a]) => a \in approved
               /\ Finished(Listed(o)[a]) => a \in results
    BY <2>2, <2>3, <2>6 DEF IInv, Approvals, Outcomes, Finished
  <2>7. Request(o)'
    BY <1>0, <2>2, <2>3, <2>4, <2>5, <2>6 DEF Request, Claims, Finished, db, history
  <2> QED
    BY <1>0, <2>1, <2>4, <2>7, RequestConclusion
<1>5. CASE RecordDecision(o)
  <2>1. PICK answer \in Answers :
          op' = [op EXCEPT ![o].phase = "recorded", ![o].answer = answer,
                           ![o].seen[op[o].action].status = Decided(answer)]
    BY <1>5 DEF RecordDecision
  <2> DEFINE b == op[o].action
             seen == [op[o].seen EXCEPT ![b].status = Decided(answer)]
             r == [op[o] EXCEPT !.phase = "recorded", !.answer = answer, !.seen = seen]
  <2>2. /\ op[o].phase = "checked" /\ b \in Actions /\ audit[b] # NULL /\ op[o].thread \in Threads
        /\ run[op[o].thread].phase \notin {"new", "counted"}
        /\ op[o].seen \in [Actions -> Row \union {NULL}] /\ op[o].seen[b] # NULL
        /\ \A a \in Actions : op[o].seen[a] # NULL =>
             /\ audit[a] # NULL /\ audit[a].decision = op[o].seen[a].decision
             /\ a # b /\ Claims(op[o].seen[a]) => a \in approved
             /\ Finished(op[o].seen[a]) => a \in results
    BY <1>0, <1>5 DEF RecordDecision, Request
  <2>3. op' = [op EXCEPT ![o] = r]
    BY <1>0, <2>1
  <2>4. /\ seen \in [Actions -> Row \union {NULL}]
        /\ seen[b] \in Row /\ seen[b].status = Decided(answer)
        /\ seen[b].decision = op[o].seen[b].decision
        /\ \A a \in Actions : a # b => seen[a] = op[o].seen[a]
    <3>1. op[o].seen[b] \in Row
      BY <2>2
    <3>2. Decided(answer) \in Statuses
      BY DEF Decided, Statuses
    <3> QED
      BY <2>2, <3>1, <3>2 DEF Row
  <2> HIDE DEF seen
  <2>5. /\ r \in OpRecords /\ r.phase = "recorded" /\ r.action = b /\ r.thread = op[o].thread
        /\ r.seen = seen /\ r.answer = answer
    BY <1>0, <2>4 DEF OpRecords
  <2> HIDE DEF r, b
  <2>6. op'[o] = r
    BY <1>0, <2>3
  <2>7. ASSUME NEW a \in Actions, seen[a] # NULL
        PROVE  /\ audit[a] # NULL /\ audit[a].decision = seen[a].decision
               /\ a # b /\ Claims(seen[a]) => a \in approved
               /\ Finished(seen[a]) => a \in results
    BY <2>2, <2>4, <2>7 DEF Finished, Decided
  <2>8. Request(o)'
    BY <1>0, <2>2, <2>4, <2>5, <2>6, <2>7 DEF Request, Claims, Finished, db, history
  <2> QED
    BY <1>0, <2>3, <2>5, <2>8, RequestConclusion
<1> QED
  BY <1>1, <1>2, <1>3, <1>4, <1>5

\* Whatever thread the request resumes, the run that left it is over.
LEMMA ResumeStep ==
    ASSUME IInv, NEW o \in Operators, ResumeThread(o)
    PROVE  IInv'
<1>0. PICK th \in Threads : th = op[o].thread
  BY DEF ResumeThread, IInv, Request
<1>1. /\ op[o].phase = "recorded" /\ op[o].action \in Actions /\ audit[op[o].action] # NULL
      /\ th = op[o].thread /\ op[o].answer \in Answers
      /\ run[th].phase \notin {"new", "counted", "running"}
      /\ graph[th] \in Graphs /\ Coherent(graph[th]) /\ Thread(th) /\ level \in Levels
      /\ op \in [Operators -> OpRecords] /\ Request(o)
  BY <1>0 DEF ResumeThread, IInv, Request, Thread, TypeOK, OpRecords
<1>2. PICK x \in FromResume(graph[th], op[o].answer, PolicySettings) :
        /\ graph' = [graph EXCEPT ![th] = x.graph]
        /\ op' = [op EXCEPT ![o] = IF x.raised THEN Idle
                                   ELSE [@ EXCEPT !.phase = "resumed", !.final = x.graph]]
  BY <1>0 DEF ResumeThread
<1>3. UNCHANGED <<level, db, run, history>>
  BY DEF ResumeThread
<1>4. /\ x.raised \in BOOLEAN /\ x.graph \in Graphs /\ Coherent(x.graph)
      /\ ~ x.raised => x.graph.node \in {"await", "end"}
      /\ graph[th].node \in Late =>
           x.graph.node \in Late /\ (~ x.raised => x.graph.node = "end")
      /\ graph[th].node = "end" => x.graph = graph[th]
  BY <1>1, <1>2, ResumeShapes
<1> DEFINE r == IF x.raised THEN Idle ELSE [op[o] EXCEPT !.phase = "resumed", !.final = x.graph]
<1>5. /\ r \in OpRecords
      /\ x.raised => r = Idle
      /\ ~ x.raised => /\ r.phase = "resumed" /\ r.final = x.graph /\ r.thread = th
                       /\ r.action = op[o].action /\ r.seen = op[o].seen
                       /\ r.answer = op[o].answer
  BY <1>0, <1>1, <1>4, IdleTyped DEF OpRecords
<1>6. op' = [op EXCEPT ![o] = r]
  BY <1>2
<1> HIDE DEF r
<1>7. /\ graph'[th] = x.graph /\ \A u \in Threads \ {th} : graph'[u] = graph[u]
      /\ op'[o] = r /\ \A p \in Operators \ {o} : op'[p] = op[p]
  BY <1>1, <1>2, <1>6 DEF IInv, TypeOK
<1>8. TypeOK'
  <2>1. op' \in [Operators -> OpRecords] /\ graph' \in [Threads -> Graphs]
    BY <1>1, <1>2, <1>4, <1>5, <1>6 DEF IInv, TypeOK
  <2>2. TypeOK /\ UNCHANGED <<level, incident_status, incident_thread, audit, results, run,
                             known, approved>>
    BY <1>3 DEF IInv, db, history
  <2>3. op' \in [Operators ->
                  [phase : {"idle", "opened", "read", "checked", "recorded", "resumed"},
                   action : Actions \union {NULL}, answer : Answers \union {NULL},
                   thread : Threads \union {NULL},
                   seen : [Actions -> Row \union {NULL}] \union {NULL}, final : Graphs]]
    BY <2>1 DEF OpRecords
  <2> QED
    BY <2>1, <2>2, <2>3 DEF TypeOK
<1>9. Ahead
  BY <1>3, <1>4, <1>7 DEF Ahead, db, history
<1>10. \A u \in Threads : Thread(u)'
  <2>1. Thread(th)'
    <3>1. run' = run /\ incident_thread' = incident_thread
      BY <1>3 DEF db
    <3>2. graph[th].node \in Late => graph'[th].node \in Late
      BY <1>4, <1>7
    <3>3. graph[th].node = "end" => graph'[th] = graph[th]
      BY <1>4, <1>7
    <3>4. Left(th, run[th].final) => Left(th, run[th].final)'
      BY <3>1, <3>2, <3>3 DEF Left
    <3>5. Coherent(graph[th])' /\ Coherent(run[th].final)'
      BY <1>1, <1>4, <1>7, <3>1 DEF Thread
    <3> QED
      BY <1>1, <3>1, <3>4, <3>5 DEF Thread
  <2>2. ASSUME NEW u \in Threads, u # th PROVE Thread(u)'
    BY <1>3, <1>7, <1>9, <2>2, ThreadKept DEF IInv, db
  <2> QED
    BY <2>1, <2>2
<1>11. \A p \in Operators : Request(p)'
  <2>1. Request(o)'
    <3>1. CASE x.raised
      BY <1>5, <1>7, <3>1, IdleTyped DEF Request
    <3>2. CASE ~ x.raised
      <4>1. Left(th, x.graph)'
        BY <1>4, <1>7, <3>2 DEF Left, Coherent, Late
      <4>2. th = op[o].action[1] => x.graph.node = "end"
        BY <1>1, <1>4, <3>2 DEF IInv, Outcomes
      <4> QED
        BY <1>1, <1>3, <1>5, <1>7, <3>2, <4>1, <4>2 DEF Request, Claims, Finished, db, history
    <3> QED
      BY <1>4, <3>1, <3>2
  <2>2. ASSUME NEW p \in Operators, p # o PROVE Request(p)'
    BY <1>7, <1>9, <2>2, RequestKept DEF IInv
  <2> QED
    BY <2>1, <2>2
<1>12. Approvals' /\ Outcomes' /\ ResolvedIsValidated'
  BY <1>3, <1>9, TrailKept DEF db, history
<1>13. Incident' /\ Worked'
  BY <1>3 DEF IInv, Incident, Worked, Working, db, history
<1> QED
  BY <1>8, <1>10, <1>11, <1>12, <1>13 DEF IInv

\* What the session of a decision knows of the rows, stale as it may be, agrees
\* with what is recorded.
LEMMA ViewIsSound ==
    ASSUME IInv, NEW o \in Operators, op[o].phase = "resumed"
    PROVE  /\ View(o) \in [Actions -> Row \union {NULL}]
           /\ \A a \in Actions :
                /\ View(o)[a] # NULL <=> audit[a] # NULL
                /\ View(o)[a] # NULL => View(o)[a].decision = audit[a].decision
                /\ a # op[o].action /\ Claims(View(o)[a]) => a \in approved
                /\ Finished(View(o)[a]) => a \in results
           /\ View(o)[op[o].action] # NULL
           /\ View(o)[op[o].action].status = Decided(op[o].answer)
<1>1. /\ op[o].seen \in [Actions -> Row \union {NULL}] /\ op[o].seen[op[o].action] # NULL
      /\ \A a \in Actions : op[o].seen[a] # NULL =>
           /\ audit[a] # NULL /\ audit[a].decision = op[o].seen[a].decision
           /\ a # op[o].action /\ Claims(op[o].seen[a]) => a \in approved
           /\ Finished(op[o].seen[a]) => a \in results
      /\ op[o].seen[op[o].action].status = Decided(op[o].answer) /\ op[o].action \in Actions
  BY DEF IInv, Request
<1>2. /\ audit \in [Actions -> Row \union {NULL}]
      /\ \A a \in Actions : (Claims(audit[a]) => a \in approved) /\ (Finished(audit[a]) => a \in results)
  BY DEF IInv, TypeOK, Approvals, Outcomes
<1>3. \A a \in Actions : View(o)[a] = IF op[o].seen[a] = NULL THEN audit[a] ELSE op[o].seen[a]
  BY DEF View
<1>4. View(o) \in [Actions -> Row \union {NULL}]
  BY <1>1, <1>2 DEF View
<1>5. View(o)[op[o].action] = op[o].seen[op[o].action]
  BY <1>1, <1>3
<1>6. ASSUME NEW a \in Actions
      PROVE  /\ View(o)[a] # NULL <=> audit[a] # NULL
             /\ View(o)[a] # NULL => View(o)[a].decision = audit[a].decision
             /\ a # op[o].action /\ Claims(View(o)[a]) => a \in approved
             /\ Finished(View(o)[a]) => a \in results
  <2>1. CASE op[o].seen[a] = NULL
    BY <1>2, <1>3, <2>1
  <2>2. CASE op[o].seen[a] # NULL
    BY <1>1, <1>3, <2>2
  <2> QED
    BY <2>1, <2>2
<1> QED
  BY <1>1, <1>4, <1>5, <1>6

\* The commit of a decision.  Of the outcomes on record it can only touch that
\* of its own action, and only if it was for another thread.
LEMMA CommitWrites ==
    ASSUME IInv, NEW o \in Operators, CommitDecision(o),
           Persisted(View(o), op[o].thread, op[o].final) # NULL
    PROVE  /\ Written(op[o].thread, op[o].final, {op[o].action}) /\ Ahead
           /\ \A a \in results : audit'[a] = audit[a] \/ (op[o].action = a /\ Misdirected(o))
<1> DEFINE t == op[o].thread
           g == op[o].final
           b == op[o].action
           seen == View(o)
           rows == Persisted(seen, t, g)
           s == Selected(t, g)
<1>1. /\ op[o].phase = "resumed" /\ b \in Actions /\ audit[b] # NULL /\ t \in Threads
      /\ g \in Graphs /\ Left(t, g) /\ Coherent(g) /\ op[o].answer \in Answers
      /\ t = b[1] => g.node = "end"
  BY DEF CommitDecision, IInv, Request, Left, TypeOK
<1>2. /\ rows # NULL /\ audit' = Committed(o, rows) /\ results' = WithResult(t, g)
      /\ incident_status' = StatusWritten("AWAITING_APPROVAL", NextStatus(g))
      /\ approved' = IF op[o].answer = "APPROVE" THEN approved \union {b} ELSE approved
      /\ UNCHANGED <<graph, run>>
  BY DEF CommitDecision
<1>3. /\ seen \in [Actions -> Row \union {NULL}]
      /\ \A a \in Actions :
           /\ seen[a] # NULL <=> audit[a] # NULL
           /\ seen[a] # NULL => seen[a].decision = audit[a].decision
           /\ a # b /\ Claims(seen[a]) => a \in approved
           /\ Finished(seen[a]) => a \in results
      /\ seen[b] # NULL /\ seen[b].status = Decided(op[o].answer)
  BY <1>1, ViewIsSound
<1> HIDE DEF seen
<1>4. /\ rows \in [Actions -> Row \union {NULL}]
      /\ \A a \in Actions :
           /\ seen[a] # NULL => rows[a] # NULL /\ rows[a].decision = seen[a].decision
           /\ rows[a] # seen[a] => a[1] = t /\ (seen[a] = NULL \/ a \notin results)
           /\ Claims(rows[a]) => Claims(seen[a])
           /\ Finished(rows[a]) => Finished(seen[a]) \/ (g.result # "none" /\ a = s)
      /\ g.result # "none" =>
           s \in Actions /\ s \notin results /\ rows[s] # NULL /\ rows[s].status = Outcome(g)
  BY <1>1, <1>2, <1>3, PersistedRows
<1> HIDE DEF rows
<1>5. /\ audit' = [a \in Actions |-> IF rows[a] = seen[a] /\ a # b THEN audit[a] ELSE rows[a]]
      /\ results' = IF g.result = "none" THEN results ELSE results \union {s}
  BY <1>2 DEF Committed, WithResult, seen
<1>6. /\ audit \in [Actions -> Row \union {NULL}] /\ results \subseteq Actions
      /\ \A a \in Actions : (Claims(audit[a]) => a \in approved) /\ (Finished(audit[a]) => a \in results)
      /\ \A a \in results : /\ audit[a] # NULL
                            /\ graph[a[1]].result # "none" /\ Selected(a[1], graph[a[1]]) = a
  BY DEF IInv, TypeOK, Approvals, Outcomes
<1> HIDE DEF t, g, b, s
<1>7. ASSUME NEW a \in Actions
      PROVE  /\ audit[a] = NULL /\ audit'[a] # NULL => a[1] = t
             /\ audit[a] # NULL => audit'[a] # NULL /\ audit'[a].decision = audit[a].decision
             /\ Finished(audit'[a]) => a \in results'
  BY <1>1, <1>3, <1>4, <1>5, <1>6
<1>8. ASSUME NEW a \in Actions, Claims(audit'[a]) PROVE a \in approved'
  <2>1. CASE audit'[a] = audit[a]
    BY <1>2, <1>6, <1>8, <2>1
  <2>2. CASE audit'[a] = rows[a]
    <3>1. Claims(seen[a])
      BY <1>4, <1>8, <2>2
    <3>2. CASE a = b
      <4>1. op[o].answer = "APPROVE"
        BY <1>3, <3>1, <3>2 DEF Claims, Decided
      <4> QED
        BY <1>2, <3>2, <4>1
    <3> QED
      BY <1>2, <1>3, <3>1, <3>2
  <2> QED
    BY <1>5, <2>1, <2>2
<1>9. ASSUME NEW a \in results
      PROVE  audit'[a] = audit[a] \/ (a = b /\ audit'[a] = seen[b])
  BY <1>1, <1>3, <1>4, <1>5, <1>6
<1>10. seen[b].status \notin {"SUCCEEDED", "FAILED"}
  BY <1>3 DEF Decided
<1>11. g.result # "none" => s \in Actions /\ audit'[s] # NULL /\ audit'[s].status = Outcome(g)
  <2> SUFFICES ASSUME g.result # "none" PROVE audit'[s] = rows[s] /\ s \in Actions
    BY <1>4
  <2>1. /\ s \in Actions /\ s \notin results /\ rows[s] # NULL /\ rows[s].status = Outcome(g)
    BY <1>4
  <2>2. rows[s] # seen[s]
    <3>1. Outcome(g) \in {"SUCCEEDED", "FAILED"}
      BY DEF Outcome
    <3> QED
      BY <1>3, <2>1, <3>1 DEF Finished
  <2> QED
    BY <1>5, <2>1, <2>2
<1>12. incident_status' \in {incident_status, NextStatus(g)}
  BY <1>2 DEF StatusWritten
<1>13. audit' \in [Actions -> Row \union {NULL}]
  BY <1>4, <1>5, <1>6
<1>14. Written(t, g, {b})
  BY <1>1, <1>2, <1>7, <1>8, <1>9, <1>10, <1>11, <1>12, <1>13 DEF Written, s
<1>15. Ahead
  BY <1>2, <1>5, <1>7 DEF Ahead
<1>16. ASSUME NEW a \in results, audit'[a] # audit[a] PROVE b = a /\ Misdirected(o)
  <2>1. a = b
    BY <1>9, <1>16
  <2>2. ASSUME t = a[1] PROVE FALSE
    <3>1. graph[t] = g
      BY <1>1, <2>1, <2>2 DEF Left
    <3>2. g.result # "none" /\ s = a
      BY <1>6, <2>2, <3>1 DEF s
    <3> QED
      BY <1>4, <3>2
  <2> QED
    BY <2>1, <2>2 DEF Misdirected, t, b
<1> QED
  BY <1>14, <1>15, <1>16 DEF t, g, b

LEMMA CommitStep ==
    ASSUME IInv, NEW o \in Operators, CommitDecision(o)
    PROVE  IInv'
<1>1. /\ op' = [op EXCEPT ![o] = Idle] /\ op[o].phase = "resumed"
      /\ UNCHANGED <<level, incident_thread, graph, run, known>>
      /\ op \in [Operators -> OpRecords]
  BY DEF CommitDecision, IInv, TypeOK, OpRecords
<1>2. op'[o] = Idle /\ \A p \in Operators \ {o} : op'[p] = op[p]
  BY <1>1
<1>3. Request(o)'
  BY <1>2, IdleTyped DEF Request
<1>4. CASE UNCHANGED <<audit, results, incident_status, approved>>
  BY <1>1, <1>3, <1>4, IdleTyped, RequestConclusion DEF db, history
<1>5. CASE Persisted(View(o), op[o].thread, op[o].final) # NULL
  <2>1. PICK t \in Threads, g \in Graphs : t = op[o].thread /\ g = op[o].final
    BY <1>1 DEF IInv, Request, TypeOK
  <2>2. Written(t, g, {op[o].action}) /\ Ahead
    BY <1>5, <2>1, CommitWrites
  <2>3. PICK mine : Written(t, g, mine)
    BY <2>2
  <2>4. Approvals' /\ Outcomes' /\ ResolvedIsValidated' /\ results' \subseteq Actions
    BY <2>2, <2>3, TrailWritten
  <2>5. incident_status' \in {incident_status, NextStatus(g)}
        /\ NextStatus(g) \in {"AWAITING_APPROVAL", "RESOLVED", "REMEDIATION_PROPOSED"}
    BY <2>2 DEF Written, NextStatus
  <2>6. incident_status' = "AWAITING_APPROVAL" => incident_status = "AWAITING_APPROVAL"
    BY <1>5, <2>1 DEF CommitDecision, StatusWritten
  <2>7. TypeOK'
    <3>1. incident_status' \in IncidentStatuses
      BY <2>5 DEF IInv, TypeOK, IncidentStatuses
    <3>2. op' \in [Operators -> OpRecords]
      BY <1>1, IdleTyped
    <3>3. approved' \subseteq Actions
      BY <1>1, <1>5 DEF CommitDecision, IInv, TypeOK, Request
    <3>4. audit' \in [Actions -> Row \union {NULL}]
      BY <2>2 DEF Written
    <3> QED
      BY <1>1, <2>4, <3>1, <3>2, <3>3, <3>4 DEF IInv, TypeOK, OpRecords
  <2>8. \A u \in Threads : Thread(u)'
    BY <1>1, <2>2, ThreadKept DEF IInv
  <2>9. \A p \in Operators : Request(p)'
    <3>1. ASSUME NEW p \in Operators, p # o PROVE Request(p)'
      BY <1>2, <2>2, <3>1, RequestKept DEF IInv
    <3> QED
      BY <1>3, <3>1
  <2>10. Incident' /\ Worked'
    BY <1>1, <2>5, <2>6 DEF IInv, Incident, Worked, Working
  <2> QED
    BY <2>4, <2>7, <2>8, <2>9, <2>10 DEF IInv
<1> QED
  BY <1>1, <1>4, <1>5 DEF CommitDecision

\* The end of a run leaves every outcome on record alone.
LEMMA PersistKeepsOutcomes ==
    ASSUME IInv, NEW t \in Threads, PersistRun(t)
    PROVE  \A a \in results : audit'[a] = audit[a]
<1> DEFINE g == run[t].final
           rows == Persisted(audit, t, g)
<1>1. /\ g \in Graphs /\ Coherent(g) /\ audit \in [Actions -> Row \union {NULL}]
      /\ \A a \in results : a \in Actions /\ audit[a] # NULL
  BY DEF IInv, Thread, TypeOK, Outcomes
<1>2. rows = NULL => audit' = audit
  BY DEF PersistRun
<1>3. rows # NULL => audit' = rows
  BY DEF PersistRun
<1>4. rows # NULL => \A a \in Actions :
        rows[a] # audit[a] => audit[a] = NULL \/ a \notin results
  BY <1>1, PersistedRows
<1> HIDE DEF rows, g
<1> QED
  BY <1>1, <1>2, <1>3, <1>4

(***************************************************************************)
(* The invariant, and what follows from it                                 *)
(***************************************************************************)
LEMMA ApprovalInit == Init => IInv
<1> SUFFICES ASSUME Init PROVE IInv
  OBVIOUS
<1>1. /\ Idle \in OpRecords /\ Idle.phase = "idle" /\ Unstarted \in Graphs
  BY IdleTyped
<1>2. NoRun \in RunRecords /\ NoRun.phase = "new" /\ NoRun.final = Unstarted
  BY <1>1 DEF NoRun, RunRecords
<1>3. TypeOK
  BY <1>1, <1>2 DEF Init, TypeOK, IncidentStatuses, OpRecords, RunRecords
<1>4. Coherent(Unstarted) /\ Unstarted.node = "none"
  BY DEF Coherent, Unstarted
<1>5. \A t \in Threads : Thread(t)
  BY <1>2, <1>4 DEF Init, Thread
<1>6. \A o \in Operators : Request(o)
  BY <1>1 DEF Init, Request
<1>7. Incident /\ Worked /\ ResolvedIsValidated
  BY DEF Init, Incident, Worked, ResolvedIsValidated
<1>8. Approvals /\ Outcomes
  BY DEF Init, Approvals, Outcomes, OutcomeNeedsApproval, Claims, Finished
<1> QED
  BY <1>3, <1>5, <1>6, <1>7, <1>8 DEF IInv

LEMMA ApprovalPreserved == IInv /\ [Next]_vars => IInv'
<1> SUFFICES ASSUME IInv, [Next]_vars PROVE IInv'
  OBVIOUS
<1>1. ASSUME NEW t \in Threads,
             \/ BeginRun(t) \/ StartRun(t) \/ RunGraph(t) \/ PersistRun(t)
             \/ RunRaises(t) \/ FailRun(t) \/ LoseRun(t)
      PROVE  IInv'
  BY <1>1, BeginStep, StartStep, GraphStep, PersistStep, TroubleStep
<1>2. ASSUME NEW o \in Operators,
             \/ OpenAction(o) \/ ReadIncident(o) \/ CheckAwaiting(o) \/ RecordDecision(o)
             \/ ResumeThread(o) \/ CommitDecision(o) \/ RequestFails(o)
      PROVE  IInv'
  BY <1>2, RequestStep, ResumeStep, CommitStep
<1>3. CASE UNCHANGED vars
  <2> USE <1>3 DEF vars, db, history
  <2>1. TypeOK'
    BY DEF IInv, TypeOK
  <2>2. Ahead
    BY DEF Ahead
  <2>3. Approvals' /\ Outcomes' /\ ResolvedIsValidated'
    BY <2>2, TrailKept
  <2>4. \A t \in Threads : Thread(t)'
    BY <2>2, ThreadKept DEF IInv
  <2>5. \A o \in Operators : Request(o)'
    BY <2>2, RequestKept DEF IInv
  <2>6. Incident' /\ Worked'
    BY DEF IInv, Incident, Worked, Working
  <2> QED
    BY <2>1, <2>3, <2>4, <2>5, <2>6 DEF IInv
<1> QED
  BY <1>1, <1>2, <1>3 DEF Next

\* However investigations, requests, failures and lost processes interleave,
\* the stores stay consistent with each other and with what every session has
\* seen of them.
THEOREM ApprovalInductive == Spec => []IInv
<1>1. Init => IInv
  BY ApprovalInit
<1>2. IInv /\ [Next]_vars => IInv'
  BY ApprovalPreserved
<1> QED
  BY <1>1, <1>2, PTL DEF Spec

\* The variables keep their types: the rows, threads, runs and requests of
\* investigation_service and remediation_audit_service.
THEOREM ApprovalTypes == Spec => []TypeOK
<1>1. IInv => TypeOK
  BY DEF IInv
<1> QED
  BY <1>1, ApprovalInductive, PTL

\* The audit trail shows an action bound to approval as executed only together
\* with a committed approval of that very action: a session that writes rows it
\* read long ago claims no approval that is not there (_persist_remediation,
\* record_approval_decision).
THEOREM OutcomesApproved == Spec => []OutcomeNeedsApproval
<1>1. IInv => OutcomeNeedsApproval
  BY DEF IInv, Approvals
<1> QED
  BY <1>1, ApprovalInductive, PTL

\* The recorded outcome is what the thread of that action did, to the action
\* its policy selected (record_execution_result).
THEOREM OutcomesTrue == Spec => []OutcomeIsTrue
<1>1. IInv => OutcomeIsTrue
  <2> SUFFICES ASSUME IInv, NEW a \in results
               PROVE  /\ graph[a[1]].acted /\ Selected(a[1], graph[a[1]]) = a
                      /\ audit[a].status = "SUCCEEDED" => graph[a[1]].result = "success"
                      /\ audit[a].status = "FAILED" => graph[a[1]].result = "failure"
    BY DEF OutcomeIsTrue
  <2>1. a[1] \in Threads
    BY DEF IInv, TypeOK, Actions
  <2>2. /\ graph[a[1]].result # "none" /\ Selected(a[1], graph[a[1]]) = a
        /\ audit[a].status = "SUCCEEDED" => graph[a[1]].result = "success"
        /\ audit[a].status = "FAILED" => graph[a[1]].result = "failure"
    BY DEF IInv, Outcomes
  <2>3. graph[a[1]].acted
    BY <2>1, <2>2 DEF IInv, Thread, Coherent
  <2> QED
    BY <2>2, <2>3
<1> QED
  BY <1>1, ApprovalInductive, PTL

\* A RESOLVED incident has an executed, recorded and validated remediation
\* (_decide_terminal_status).
THEOREM ResolvedValidated == Spec => []ResolvedIsValidated
<1>1. IInv => ResolvedIsValidated
  BY DEF IInv
<1> QED
  BY <1>1, ApprovalInductive, PTL

\* What INVESTIGATING tells of the run whose thread id the incident carries: it
\* is at work, or it ended in one of the two ways that run_investigation does
\* not record (an error after which the incident is expired, a lost process).
THEOREM InvestigatingIsWorked == Spec => []InvestigatingHasRun
<1>1. IInv => InvestigatingHasRun
  BY ApprovalAssumption DEF IInv, Worked, Working, InvestigatingHasRun
<1> QED
  BY <1>1, ApprovalInductive, PTL

\* An outcome on record is final: no run that ends late and no request that
\* read the row earlier overwrites it, except a request for that action which
\* resumed another investigation's thread (resume_remediation_approval).
THEOREM OutcomesFinal == Spec => OutcomesAreFinal
<1> DEFINE Kept == \A a \in results :
             audit'[a] = audit[a] \/ \E o \in Operators : op[o].action = a /\ Misdirected(o)
<1>1. IInv /\ [Next]_vars => [Kept]_vars
  <2> SUFFICES ASSUME IInv, Next PROVE Kept
    OBVIOUS
  <2>1. CASE audit' = audit
    BY <2>1
  <2>2. ASSUME NEW t \in Threads, PersistRun(t) PROVE Kept
    BY <2>2, PersistKeepsOutcomes
  <2>3. ASSUME NEW o \in Operators, CommitDecision(o), audit' # audit PROVE Kept
    <3>1. Persisted(View(o), op[o].thread, op[o].final) # NULL
      BY <2>3 DEF CommitDecision
    <3> QED
      BY <2>3, <3>1, CommitWrites
  <2> QED
    BY <2>1, <2>2, <2>3
      DEF Next, BeginRun, StartRun, RunGraph, RunRaises, FailRun, LoseRun, OpenAction, ReadIncident,
          CheckAwaiting, RecordDecision, ResumeThread, RequestFails, db
<1> QED
  BY <1>1, ApprovalInductive, PTL DEF Spec, OutcomesAreFinal

(***************************************************************************)
(* The ceiling on automatic executions                                     *)
(*                                                                         *)
(* The policy compares max_auto_remediations_per_incident with a number    *)
(* that the run counted before it began; the property speaks of what the   *)
(* investigations it had counted have executed, perhaps long after that.   *)
(* The link is that a thread with rows has its decision behind it: an      *)
(* automatic execution that comes to light later was a row with decision   *)
(* ALLOWED when it was counted.                                            *)
(***************************************************************************)
\* The row of a selected action that is not rejected will say what was decided,
\* and an automatic execution was below the ceiling of its own count.
Granted(g) ==
    /\ g.policy_result.decision \in {"ALLOWED", "APPROVAL_REQUIRED"} =>
         AllPolicyResults(g)[g.policy_result.proposal_id].decision = g.policy_result.decision
    /\ g.policy_result.decision = "ALLOWED" => g.prior.auto_executions < MaxAuto

\* What a session will write rows from is what the thread has decided.
Same(t, g) ==
    g.policy_result = graph[t].policy_result /\ g.proposals = graph[t].proposals

\* A thread with rows has one for the selected action, and it says ALLOWED if
\* the thread may execute by itself.
Shown(t) ==
    \A a \in Actions :
        a[1] = t /\ audit[a] # NULL /\ graph[t].policy_result.decision = "ALLOWED" =>
            LET s == Selected(t, graph[t])
            IN  audit[s] # NULL /\ audit[s].decision = "ALLOWED"

Automatic(S) == {u \in S : graph[u].policy_result.decision = "ALLOWED"}

\* Whatever the counted investigations may still execute by themselves was
\* counted.
Counted(t) ==
    /\ \A u \in known[t] : graph[u].node \in Late
    /\ Cardinality(Automatic(known[t])) <= graph[t].prior.auto_executions

CapInv ==
    /\ \A t \in Threads : Granted(graph[t]) /\ Shown(t) /\ Counted(t)
    /\ \A t \in Threads : run[t].phase = "returned" => Same(t, run[t].final)
    /\ \A o \in Operators : op[o].phase = "resumed" => Same(op[o].thread, op[o].final)

(***************************************************************************)
(* What an invocation of the graph leaves behind                           *)
(***************************************************************************)
\* A decision of the policy is granted: the limits only ever take away.
LEMMA DecisionGranted ==
    ASSUME level \in Levels, NEW ps \in ProposalLists, NEW cause, NEW h \in Graphs,
           h.proposals = ps, h.policy_result = Decide(ps, PolicySettings, cause, h.prior)
    PROVE  Granted(h)
<1> SUFFICES ASSUME h.policy_result.decision \in {"ALLOWED", "APPROVAL_REQUIRED"}
             PROVE  /\ AllPolicyResults(h)[h.policy_result.proposal_id].decision
                         = h.policy_result.decision
                    /\ h.policy_result.decision = "ALLOWED" => h.prior.auto_executions < MaxAuto
  BY DEF Granted
<1>1. /\ ps \in Seq(Proposals)
      /\ \A i \in DOMAIN ps : ps[i].id = i
  BY ListsOfProposals
<1>2. PolicySettings \in Settings /\ h.prior \in Histories
  BY ApprovalAssumption DEF PolicySettings, Settings, Histories, Graphs
<1>3. h.policy_result # NoResult
  BY DEF NoResult
<1>4. h.policy_result.decision = "ALLOWED" => h.prior.auto_executions < MaxAuto
  BY <1>1, <1>2, <1>3, DecisionIsLimited DEF PolicySettings
<1>5. PICK i \in DOMAIN ps :
        /\ h.policy_result.proposal_id = ps[i].id
        /\ h.policy_result.decision = EvaluatePolicy(ps[i], PolicySettings).decision
  BY <1>1, <1>3, DecisionIsEvaluated
<1>6. AllPolicyResults(h) = AllResults(ps, PolicySettings) /\ h.policy_result.proposal_id = i
  BY <1>1, <1>3, <1>5 DEF AllPolicyResults
<1> QED
  BY <1>4, <1>5, <1>6 DEF AllResults

\* Granted looks at the decision, the proposals and the count alone.
LEMMA GrantedFollows ==
    ASSUME NEW g, NEW h, Granted(g), h.policy_result = g.policy_result,
           h.proposals = g.proposals, h.prior = g.prior
    PROVE  Granted(h)
BY DEF Granted, AllPolicyResults

LEMMA ExecuteGranted ==
    ASSUME NEW g \in Graphs, Granted(g), NEW x \in FromExecute(g)
    PROVE  x.graph.prior = g.prior /\ Granted(x.graph)
<1>1. x.graph.policy_result = g.policy_result /\ x.graph.proposals = g.proposals
      /\ x.graph.prior = g.prior
  <2>1. CASE \E a \in {g.acted, TRUE} : x = Raised([g EXCEPT !.node = "execute", !.acted = a])
    <3>1. PICK a \in {g.acted, TRUE} : x = Raised([g EXCEPT !.node = "execute", !.acted = a])
      BY <2>1
    <3>2. x.graph = [g EXCEPT !.node = "execute", !.acted = a]
      BY <3>1 DEF Raised
    <3> QED
      BY <3>2 DEF Graphs
  <2>2. CASE \E r \in {<<"success", "passed">>, <<"success", "failed">>, <<"failure", "none">>} :
               x = Returned([g EXCEPT !.node = "end", !.acted = TRUE,
                                      !.result = r[1], !.validation = r[2]])
    <3>1. PICK r : x = Returned([g EXCEPT !.node = "end", !.acted = TRUE,
                                        !.result = r[1], !.validation = r[2]])
      BY <2>2
    <3>2. x.graph = [g EXCEPT !.node = "end", !.acted = TRUE,
                              !.result = r[1], !.validation = r[2]]
      BY <3>1 DEF Returned
    <3> QED
      BY <3>2 DEF Graphs
  <2> QED
    BY <2>1, <2>2 DEF FromExecute
<1> QED
  BY <1>1, GrantedFollows

LEMMA DecidedGranted ==
    ASSUME level \in Levels, NEW g \in Graphs, Coherent(g), g.node \in {"none", "gather"},
           NEW ps \in ProposalLists, NEW x,
           \/ x = Returned([[g EXCEPT !.proposals = ps] EXCEPT !.node = "end"])
           \/ \E cause \in {"fault", "other"} :
                x \in FromPolicy([[g EXCEPT !.proposals = ps] EXCEPT !.policy_result =
                                  Decide(ps, PolicySettings, cause, g.prior)])
    PROVE  x.graph.prior = g.prior /\ Granted(x.graph)
<1>1. g.policy_result = NoResult
  BY DEF Coherent
<1>2. \A h : h.policy_result = NoResult => Granted(h)
  BY DEF Granted, NoResult
<1> DEFINE proposed == [g EXCEPT !.proposals = ps]
<1>3. ps \in Seq(GraphProposals)
  BY ListsOfProposals
<1>4. /\ proposed \in Graphs /\ proposed.proposals = ps /\ proposed.prior = g.prior
      /\ proposed.policy_result = NoResult
  BY <1>1, <1>3 DEF Graphs, GraphProposals
<1> HIDE DEF proposed
<1>5. CASE x = Returned([proposed EXCEPT !.node = "end"])
  <2>1. x.graph.prior = g.prior /\ x.graph.policy_result = NoResult
    BY <1>4, <1>5 DEF Returned, Graphs
  <2> QED
    BY <1>2, <2>1
<1>6. ASSUME NEW cause \in {"fault", "other"}, NEW res,
             res = Decide(ps, PolicySettings, cause, g.prior),
             x \in FromPolicy([proposed EXCEPT !.policy_result = res])
      PROVE  x.graph.prior = g.prior /\ Granted(x.graph)
  <2> DEFINE h == [proposed EXCEPT !.policy_result = res]
  <2>1. res = NoResult \/ res \in GraphResults
    <3>1. g.prior \in [attempts : Nat, auto_executions : Nat]
      BY DEF Graphs
    <3> QED
      BY <1>6, <3>1, PolicyShapes
  <2>2. /\ h \in Graphs /\ h.proposals = ps /\ h.prior = g.prior /\ h.policy_result = res
    BY <1>4, <2>1 DEF Graphs, GraphResults
  <2>3. x \in FromPolicy(h)
    BY <1>6
  <2> HIDE DEF h
  <2>4. Granted(h)
    BY <1>6, <2>2, DecisionGranted
  <2>5. CASE x \in FromExecute(h)
    BY <2>2, <2>4, <2>5, ExecuteGranted
  <2>6. ASSUME NEW n \in {"await", "end"}, x = Returned([h EXCEPT !.node = n])
        PROVE  x.graph.prior = g.prior /\ Granted(x.graph)
    <3>1. /\ x.graph.prior = h.prior /\ x.graph.policy_result = h.policy_result
          /\ x.graph.proposals = h.proposals
      BY <2>2, <2>6 DEF Returned, Graphs
    <3> QED
      BY <2>2, <2>4, <3>1, GrantedFollows
  <2>7. \/ x \in FromExecute(h)
        \/ \E n \in {"await", "end"} : x = Returned([h EXCEPT !.node = n])
    BY <2>3 DEF FromPolicy
  <2> QED
    BY <2>5, <2>6, <2>7
<1> QED
  BY <1>5, <1>6 DEF proposed

LEMMA BrokenGranted ==
    ASSUME NEW g \in Graphs, Granted(g), NEW later, NEW x \in OrBroken(g, later), x \notin later
    PROVE  x.graph.prior = g.prior /\ Granted(x.graph)
<1>1. PICK a : x = Raised([g EXCEPT !.acted = a])
  BY DEF OrBroken
<1>2. /\ x.graph.prior = g.prior /\ x.graph.policy_result = g.policy_result
      /\ x.graph.proposals = g.proposals
  BY <1>1 DEF Raised, Graphs
<1> QED
  BY <1>2, GrantedFollows

LEMMA StartGranted ==
    ASSUME level \in Levels, NEW g \in Graphs, Coherent(g), g.node \in {"none", "gather"},
           NEW x \in FromStart(g, PolicySettings)
    PROVE  x.graph.prior = g.prior /\ Granted(x.graph)
<1> DEFINE first == [g EXCEPT !.node = "gather"]
           later == UNION {
               LET proposed == [g EXCEPT !.proposals = ps]
               IN  {Returned([proposed EXCEPT !.node = "end"])}
                   \union UNION {FromPolicy([proposed EXCEPT !.policy_result =
                                     Decide(ps, PolicySettings, cause, g.prior)]) :
                                 cause \in {"fault", "other"}} :
               ps \in ProposalLists}
<1>1. CASE x \in later
  <2>1. PICK ps \in ProposalLists :
          \/ x = Returned([[g EXCEPT !.proposals = ps] EXCEPT !.node = "end"])
          \/ \E cause \in {"fault", "other"} :
               x \in FromPolicy([[g EXCEPT !.proposals = ps] EXCEPT !.policy_result =
                                 Decide(ps, PolicySettings, cause, g.prior)])
    BY <1>1
  <2> QED
    BY <2>1, DecidedGranted
<1>2. CASE x \notin later
  <2>1. /\ first \in Graphs /\ first.prior = g.prior
        /\ first.policy_result = g.policy_result
    BY DEF Graphs
  <2>2. x \in OrBroken(first, later)
    BY DEF FromStart
  <2> HIDE DEF first, later
  <2>3. Granted(first)
    BY <2>1 DEF Coherent, Granted, NoResult
  <2> QED
    BY <1>2, <2>1, <2>2, <2>3, BrokenGranted
<1> QED
  BY <1>1, <1>2

LEMMA ResumeGranted ==
    ASSUME level \in Levels, NEW g \in Graphs, Coherent(g), Granted(g), NEW answer \in Answers,
           NEW x \in FromResume(g, answer, PolicySettings)
    PROVE  x.graph.prior = g.prior /\ Granted(x.graph)
<1>0. g.node \in {"none", "gather", "await", "execute", "end"}
  BY DEF Graphs
<1>1. CASE x \in {Raised(g), Returned(g)}
  BY <1>1 DEF Raised, Returned
<1>2. CASE g.node = "gather"
  <2>1. x \in FromStart(g, PolicySettings)
    BY <1>2 DEF FromResume
  <2> QED
    BY <1>2, <2>1, StartGranted
<1>3. CASE x \in FromExecute(g)
  BY <1>3, ExecuteGranted
<1>4. CASE x = Returned([g EXCEPT !.node = "end"])
  <2>1. /\ x.graph.prior = g.prior /\ x.graph.policy_result = g.policy_result
        /\ x.graph.proposals = g.proposals
    BY <1>4 DEF Returned, Graphs
  <2> QED
    BY <2>1, GrantedFollows
<1>5. CASE g.node = "await"
  <2>1. PICK later :
          /\ x \in OrBroken(g, later)
          /\ later \subseteq FromExecute(g) \union {Returned([g EXCEPT !.node = "end"])}
    <3>1. x \in FromAwait(g, answer)
      BY <1>5 DEF FromResume
    <3> QED
      BY <3>1 DEF FromAwait
  <2>2. CASE x \in later
    BY <1>3, <1>4, <2>1, <2>2
  <2>3. CASE x \notin later
    BY <2>1, <2>3, BrokenGranted
  <2> QED
    BY <2>2, <2>3
<1> QED
  BY <1>0, <1>1, <1>2, <1>3, <1>5 DEF FromResume

(***************************************************************************)
(* What every step keeps                                                   *)
(***************************************************************************)
\* Steps that write no rows and end no invocation.
LEMMA CapQuiet ==
    ASSUME CapInv, UNCHANGED <<level, audit, graph, known>>,
           \A t \in Threads : run'[t].phase = "returned" => run'[t] = run[t],
           \A o \in Operators : op'[o].phase = "resumed" => op'[o] = op[o]
    PROVE  CapInv'
<1>1. \A t \in Threads : (Granted(graph[t]) /\ Shown(t) /\ Counted(t))'
  BY DEF CapInv, Granted, AllPolicyResults, PolicySettings, Shown, Selected, Counted, Automatic
<1>2. \A t \in Threads : run'[t].phase = "returned" => Same(t, run[t].final)'
  BY DEF CapInv, Same
<1>3. \A o \in Operators : op'[o].phase = "resumed" => Same(op[o].thread, op[o].final)'
  BY DEF CapInv, Same
<1> QED
  BY <1>1, <1>2, <1>3 DEF CapInv

\* An invocation of thread t moves it from one state to another.
LEMMA GraphMoves ==
    ASSUME IInv, CapInv, NEW t \in Threads, NEW h \in Graphs,
           graph' = [graph EXCEPT ![t] = h], h.prior = graph[t].prior, Granted(h),
           graph[t].node \in Late =>
             /\ h.node \in Late
             /\ h.policy_result = graph[t].policy_result /\ h.proposals = graph[t].proposals,
           UNCHANGED <<level, audit, known>>
    PROVE  /\ \A u \in Threads : (Granted(graph[u]) /\ Shown(u) /\ Counted(u))'
           /\ graph'[t] = h
           /\ \A u \in Threads : graph[u].node \in Late =>
                /\ graph'[u].policy_result = graph[u].policy_result
                /\ graph'[u].proposals = graph[u].proposals
<1>1. graph'[t] = h /\ \A u \in Threads \ {t} : graph'[u] = graph[u]
  BY DEF IInv, TypeOK
<1>2. \A u \in Threads :
        /\ graph'[u].prior = graph[u].prior
        /\ graph[u].node \in Late =>
             /\ graph'[u].node \in Late
             /\ graph'[u].policy_result = graph[u].policy_result
             /\ graph'[u].proposals = graph[u].proposals
  BY <1>1
<1>3. ASSUME NEW u \in Threads PROVE Granted(graph[u])'
  <2>1. Granted(graph'[u])
    BY <1>1 DEF CapInv
  <2> QED
    BY <2>1 DEF Granted, AllPolicyResults, PolicySettings
<1>4. ASSUME NEW u \in Threads PROVE Shown(u)'
  <2>1. \A a \in Actions : a[1] = u /\ audit[a] # NULL => graph[u].node \in Late
    BY DEF IInv, Outcomes
  <2> QED
    BY <1>2, <2>1 DEF CapInv, Shown, Selected
<1>5. ASSUME NEW u \in Threads PROVE Counted(u)'
  <2>1. known[u] \subseteq Threads /\ \A v \in known[u] : graph[v].node \in Late
    BY DEF CapInv, Counted, IInv, TypeOK
  <2>2. {v \in known[u] : graph'[v].policy_result.decision = "ALLOWED"} = Automatic(known[u])
    BY <1>2, <2>1 DEF Automatic
  <2>3. Cardinality(Automatic(known[u])) <= graph'[u].prior.auto_executions
    BY <1>2 DEF CapInv, Counted
  <2> QED
    BY <1>2, <2>1, <2>2, <2>3 DEF Counted, Automatic
<1> QED
  BY <1>1, <1>2, <1>3, <1>4, <1>5

\* The row of the selected action, when the session creates it.
LEMMA SelectedRow ==
    ASSUME NEW rows \in [Actions -> Row \union {NULL}], NEW t \in Threads,
           NEW g \in Graphs, Coherent(g), g.policy_result # NoResult,
           Persisted(rows, t, g) # NULL, rows[Selected(t, g)] = NULL
    PROVE  LET s == Selected(t, g)
               res == AllPolicyResults(g)[g.policy_result.proposal_id]
           IN  /\ s \in Actions /\ s[1] = t
               /\ Persisted(rows, t, g)[s] # NULL
               /\ Persisted(rows, t, g)[s].decision = res.decision
               /\ res.decision = "APPROVAL_REQUIRED" =>
                    /\ g.result = "none"
                    /\ Persisted(rows, t, g)[s].status = "AWAITING_APPROVAL"
<1> DEFINE all == WithDecisions(rows, t, g)
           s == Selected(t, g)
           new == Persisted(rows, t, g)
           res == AllPolicyResults(g)[g.policy_result.proposal_id]
<1>1. /\ all \in [Actions -> Row \union {NULL}] /\ s \in Actions /\ all[s] # NULL
  BY DecidedRows
<1>2. s[1] = t /\ s[2] = g.policy_result.proposal_id /\ s[2] \in DOMAIN AllPolicyResults(g)
  BY DEF Selected, AllPolicyResults, AllResults, Coherent
<1>3. all[s] = NewRow(res)
  BY <1>1, <1>2 DEF WithDecisions
<1>4. /\ all[s].decision = res.decision
      /\ res.decision = "APPROVAL_REQUIRED" => all[s].status = "AWAITING_APPROVAL"
  BY <1>3 DEF NewRow
<1>5. /\ new = all \/ new = [all EXCEPT ![s].status = Outcome(g)]
      /\ g.result # "none" => MayRecord(all[s].status, Outcome(g), s)
      /\ g.result = "none" => new = all
  BY DEF Persisted
<1>6. res.decision = "APPROVAL_REQUIRED" => g.result = "none"
  BY <1>4, <1>5 DEF MayRecord, Outcome
<1>7. new[s] # NULL /\ new[s].decision = all[s].decision
  <2>1. all[s] \in Row /\ Outcome(g) \in Statuses
    BY <1>1 DEF Outcome, Statuses
  <2> HIDE DEF all, s, new
  <2>2. new[s] \in Row /\ new[s].decision = all[s].decision
    BY <1>1, <1>5, <2>1 DEF Row
  <2> QED
    BY <2>2, ApprovalAssumption
<1> QED
  BY <1>1, <1>2, <1>4, <1>5, <1>6, <1>7

\* Rows are written of a thread whose decision the session knows.
LEMMA WrittenShown ==
    ASSUME IInv, CapInv, NEW t \in Threads, NEW g \in Graphs, Coherent(g), Same(t, g),
           NEW rows \in [Actions -> Row \union {NULL}], Persisted(rows, t, g) # NULL,
           \A a \in Actions : rows[a] # NULL <=> audit[a] # NULL,
           \A a \in Actions : audit[a] # NULL =>
             audit'[a] # NULL /\ audit'[a].decision = audit[a].decision,
           \A a \in Actions : audit[a] = NULL /\ audit'[a] # NULL => a[1] = t,
           LET s == Selected(t, g)
           IN  s \in Actions /\ audit[s] = NULL /\ Persisted(rows, t, g)[s] # NULL =>
                 audit'[s] = Persisted(rows, t, g)[s],
           UNCHANGED graph
    PROVE  \A u \in Threads : Shown(u)'
<1> SUFFICES ASSUME NEW u \in Threads, NEW a \in Actions, a[1] = u, audit'[a] # NULL,
                    graph[u].policy_result.decision = "ALLOWED"
             PROVE  LET s == Selected(u, graph[u])
                    IN  audit'[s] # NULL /\ audit'[s].decision = "ALLOWED"
  BY DEF Shown, Selected
<1> DEFINE s == Selected(u, graph[u])
<1>1. graph[u].policy_result # NoResult /\ Coherent(graph[u]) /\ graph[u] \in Graphs
  BY DEF NoResult, IInv, TypeOK, Thread
<1>2. s \in Actions /\ s[1] = u
  <2>1. graph[u].policy_result.proposal_id \in 1 .. MaxProposals
    BY <1>1 DEF Graphs
  <2> QED
    BY <2>1 DEF Selected, Actions
<1>3. CASE audit[a] # NULL
  <2>1. audit[s] # NULL /\ audit[s].decision = "ALLOWED"
    BY <1>3 DEF CapInv, Shown
  <2> QED
    BY <1>2, <2>1
<1>4. CASE audit[a] = NULL
  <2>1. u = t /\ s = Selected(t, g) /\ g.policy_result = graph[u].policy_result
        /\ g.proposals = graph[u].proposals
    BY <1>4 DEF Selected, Same
  <2>2. CASE audit[s] # NULL
    <3>1. audit[s].decision = "ALLOWED"
      BY <1>2, <2>2 DEF CapInv, Shown
    <3> QED
      BY <1>2, <2>2, <3>1
  <2>3. CASE audit[s] = NULL
    <3>1. AllPolicyResults(g)[g.policy_result.proposal_id].decision = "ALLOWED"
      <4>1. AllPolicyResults(g) = AllPolicyResults(graph[u])
        BY <2>1 DEF AllPolicyResults
      <4> QED
        BY <2>1, <4>1 DEF CapInv, Granted
    <3>2. rows[s] = NULL
      BY <1>2, <2>3
    <3>3. Persisted(rows, t, g)[s] # NULL /\ Persisted(rows, t, g)[s].decision = "ALLOWED"
      BY <1>1, <2>1, <3>1, <3>2, SelectedRow
    <3> QED
      BY <1>2, <2>1, <2>3, <3>3
  <2> QED
    BY <2>2, <2>3
<1> QED
  BY <1>3, <1>4

(***************************************************************************)
(* Steps                                                                   *)
(***************************************************************************)
\* The count: every automatic execution of a counted investigation is one of a
\* row that says ALLOWED.
LEMMA CapBegin ==
    ASSUME IInv, CapInv, NEW t \in Threads, BeginRun(t)
    PROVE  CapInv'
<1> DEFINE counted == {a[1] : a \in Existing}
           allowed == {a \in Existing : audit[a].decision = "ALLOWED"}
<1>1. /\ graph' = [graph EXCEPT ![t].prior = CountPrior]
      /\ run' = [run EXCEPT ![t].phase = "counted", ![t].seen = incident_status]
      /\ known' = [known EXCEPT ![t] = counted]
      /\ UNCHANGED <<level, audit, op>>
      /\ graph[t].node = "none" /\ graph[t].policy_result = NoResult
      /\ known \in [Threads -> SUBSET Threads] /\ graph \in [Threads -> Graphs]
  BY DEF BeginRun, db, IInv, Thread, Coherent, TypeOK
<1>2. /\ \A u \in Threads :
           /\ graph'[u].node = graph[u].node /\ graph'[u].policy_result = graph[u].policy_result
           /\ graph'[u].proposals = graph[u].proposals
      /\ \A u \in Threads \ {t} : graph'[u] = graph[u] /\ known'[u] = known[u]
      /\ graph'[t].prior = CountPrior /\ known'[t] = counted
  <2>1. graph[t] \in Graphs
    BY <1>1
  <2> QED
    BY <1>1, <2>1 DEF Graphs
<1>3. ASSUME NEW u \in Threads PROVE Granted(graph[u])'
  <2>1. CASE u = t
    BY <1>1, <1>2, <2>1 DEF Granted, NoResult
  <2>2. CASE u # t
    BY <1>1, <1>2, <2>2 DEF CapInv, Granted, AllPolicyResults, PolicySettings
  <2> QED
    BY <2>1, <2>2
<1>4. ASSUME NEW u \in Threads PROVE Shown(u)'
  BY <1>1, <1>2 DEF CapInv, Shown, Selected
<1>5. counted \subseteq Threads /\ \A u \in counted : graph[u].node \in Late
  BY DEF Existing, Actions, IInv, Outcomes
<1>6. Cardinality(Automatic(counted)) <= CountPrior.auto_executions
  <2> DEFINE f == [u \in Automatic(counted) |-> Selected(u, graph[u])]
  <2>1. \A u \in Automatic(counted) : Selected(u, graph[u]) \in allowed /\ Selected(u, graph[u])[1] = u
    <3> SUFFICES ASSUME NEW u \in Automatic(counted)
                 PROVE  Selected(u, graph[u]) \in allowed /\ Selected(u, graph[u])[1] = u
      OBVIOUS
    <3>1. u \in counted /\ u \in Threads /\ graph[u].policy_result.decision = "ALLOWED"
      BY <1>5 DEF Automatic
    <3>2. PICK a \in Existing : a[1] = u
      BY <3>1
    <3>3. /\ audit[Selected(u, graph[u])] # NULL
          /\ audit[Selected(u, graph[u])].decision = "ALLOWED"
      BY <3>1, <3>2 DEF CapInv, Shown, Existing
    <3>4. Selected(u, graph[u]) \in Actions
      <4>1. graph[u].policy_result # NoResult /\ graph[u] \in Graphs
        BY <1>1, <3>1 DEF NoResult
      <4>2. graph[u].policy_result.proposal_id \in 1 .. MaxProposals
        BY <4>1 DEF Graphs
      <4> QED
        BY <3>1, <4>2 DEF Selected, Actions
    <3> QED
      BY <3>3, <3>4 DEF Existing, Selected
  <2>2. f \in Injection(Automatic(counted), allowed)
    BY <2>1 DEF Injection, IsInjective
  <2>3. IsFiniteSet(allowed)
    <3>1. IsFiniteSet(1 .. MaxProposals)
      BY FS_Interval, InvocationAssumption
    <3>2. IsFiniteSet(Actions)
      BY <3>1, FS_Product, ApprovalAssumption DEF Actions
    <3> QED
      BY <3>2, FS_Subset DEF Existing
  <2>4. Cardinality(Automatic(counted)) <= Cardinality(allowed)
    BY <2>2, <2>3, FS_Injection
  <2> QED
    BY <2>4 DEF CountPrior
<1> HIDE DEF counted, allowed
<1>7. ASSUME NEW u \in Threads PROVE Counted(u)'
  <2>1. known'[u] \subseteq Threads /\ \A v \in known'[u] : graph[v].node \in Late
    BY <1>1, <1>2, <1>5 DEF CapInv, Counted
  <2>2. {v \in known'[u] : graph'[v].policy_result.decision = "ALLOWED"} = Automatic(known'[u])
    BY <1>2, <2>1 DEF Automatic
  <2>3. Cardinality(Automatic(known'[u])) <= graph'[u].prior.auto_executions
    <3>1. CASE u = t
      BY <1>2, <1>6, <3>1
    <3>2. CASE u # t
      BY <1>2, <3>2 DEF CapInv, Counted
    <3> QED
      BY <3>1, <3>2
  <2> QED
    BY <1>2, <2>1, <2>2, <2>3 DEF Counted, Automatic
<1>8. \A u \in Threads : run'[u].phase = "returned" => Same(u, run[u].final)'
  <2>1. \A u \in Threads : run'[u].phase = "returned" => run'[u] = run[u]
    BY <1>1 DEF IInv, TypeOK
  <2> QED
    BY <1>2, <2>1 DEF CapInv, Same
<1>9. \A o \in Operators : op'[o].phase = "resumed" => Same(op[o].thread, op[o].final)'
  <2>1. \A o \in Operators : op[o].phase = "resumed" => op[o].thread \in Threads
    BY DEF IInv, Request
  <2> QED
    BY <1>1, <1>2, <2>1 DEF CapInv, Same
<1> QED
  BY <1>3, <1>4, <1>7, <1>8, <1>9 DEF CapInv

LEMMA CapGraph ==
    ASSUME IInv, CapInv, NEW t \in Threads, RunGraph(t)
    PROVE  CapInv'
<1>1. /\ graph[t].node = "none" /\ graph[t] \in Graphs /\ Coherent(graph[t]) /\ level \in Levels
  BY DEF RunGraph, IInv, Thread, TypeOK
<1>2. PICK x \in FromStart(graph[t], PolicySettings), failure \in Failures :
        /\ graph' = [graph EXCEPT ![t] = x.graph]
        /\ run' = [run EXCEPT ![t].phase = IF x.raised THEN failure ELSE "returned",
                              ![t].final = x.graph]
  BY DEF RunGraph
<1>3. x.graph \in Graphs /\ x.graph.prior = graph[t].prior /\ Granted(x.graph)
  BY <1>1, StartShapes, StartGranted
<1>4. UNCHANGED <<level, audit, known, op>>
  BY DEF RunGraph, db, history
<1>5. graph[t].node \notin Late
  BY <1>1 DEF Late
<1>6. /\ \A u \in Threads : (Granted(graph[u]) /\ Shown(u) /\ Counted(u))'
      /\ graph'[t] = x.graph
      /\ \A u \in Threads : graph[u].node \in Late =>
           /\ graph'[u].policy_result = graph[u].policy_result
           /\ graph'[u].proposals = graph[u].proposals
  BY <1>2, <1>3, <1>4, <1>5, GraphMoves
<1>7. ASSUME NEW u \in Threads, run'[u].phase = "returned" PROVE Same(u, run[u].final)'
  <2>1. CASE u = t
    <3>1. run'[t].final = x.graph
      BY <1>2 DEF IInv, TypeOK
    <3> QED
      BY <1>6, <2>1, <3>1 DEF Same
  <2>2. CASE u # t
    <3>1. run'[u] = run[u]
      BY <1>2, <2>2 DEF IInv, TypeOK
    <3>2. graph[u].node \in Late /\ Same(u, run[u].final)
      BY <1>7, <3>1 DEF IInv, Thread, Left, CapInv
    <3> QED
      BY <1>6, <3>1, <3>2 DEF Same
  <2> QED
    BY <2>1, <2>2
<1>8. ASSUME NEW o \in Operators, op'[o].phase = "resumed"
      PROVE  Same(op[o].thread, op[o].final)'
  <2>1. op[o].thread \in Threads /\ graph[op[o].thread].node \in Late
    BY <1>4, <1>8 DEF IInv, Request, Left
  <2> QED
    BY <1>4, <1>6, <1>8, <2>1 DEF Same, CapInv
<1> QED
  BY <1>6, <1>7, <1>8 DEF CapInv

LEMMA CapResume ==
    ASSUME IInv, CapInv, NEW o \in Operators, ResumeThread(o)
    PROVE  CapInv'
<1>0. PICK t \in Threads : t = op[o].thread
  BY DEF ResumeThread, IInv, Request
<1>1. /\ graph[t] \in Graphs /\ Coherent(graph[t]) /\ Granted(graph[t]) /\ level \in Levels
      /\ op[o].answer \in Answers /\ op \in [Operators -> OpRecords]
  BY DEF ResumeThread, IInv, Thread, Request, TypeOK, CapInv, OpRecords
<1>2. PICK x \in FromResume(graph[t], op[o].answer, PolicySettings) :
        /\ graph' = [graph EXCEPT ![t] = x.graph]
        /\ op' = [op EXCEPT ![o] = IF x.raised THEN Idle
                                   ELSE [@ EXCEPT !.phase = "resumed", !.final = x.graph]]
  BY <1>0 DEF ResumeThread
<1>3. x.graph \in Graphs /\ x.graph.prior = graph[t].prior /\ Granted(x.graph)
  BY <1>1, ResumeShapes, ResumeGranted
<1>4. UNCHANGED <<level, audit, known, run>>
  BY DEF ResumeThread, db, history
<1>5. graph[t].node \in Late =>
        /\ x.graph.node \in Late
        /\ x.graph.policy_result = graph[t].policy_result
        /\ x.graph.proposals = graph[t].proposals
  BY <1>1, ResumeShapes
<1>6. /\ \A u \in Threads : (Granted(graph[u]) /\ Shown(u) /\ Counted(u))'
      /\ graph'[t] = x.graph
      /\ \A u \in Threads : graph[u].node \in Late =>
           /\ graph'[u].policy_result = graph[u].policy_result
           /\ graph'[u].proposals = graph[u].proposals
  BY <1>2, <1>3, <1>4, <1>5, GraphMoves
<1>7. ASSUME NEW u \in Threads, run'[u].phase = "returned" PROVE Same(u, run[u].final)'
  <2>1. graph[u].node \in Late /\ Same(u, run[u].final)
    BY <1>4, <1>7 DEF IInv, Thread, Left, CapInv
  <2> QED
    BY <1>4, <1>6, <2>1 DEF Same
<1>8. ASSUME NEW p \in Operators, op'[p].phase = "resumed"
      PROVE  Same(op[p].thread, op[p].final)'
  <2>1. CASE p = o
    <3>1. ~ x.raised
      BY <1>1, <1>2, <1>8, <2>1 DEF Idle
    <3>2. op'[o] = [op[o] EXCEPT !.phase = "resumed", !.final = x.graph]
      BY <1>1, <1>2, <3>1
    <3>3. op'[o].thread = t /\ op'[o].final = x.graph
      BY <1>0, <1>1, <3>2 DEF OpRecords
    <3> QED
      BY <1>6, <2>1, <3>3 DEF Same
  <2>2. CASE p # o
    <3>1. op'[p] = op[p]
      BY <1>1, <1>2, <2>2
    <3>2. op[p].thread \in Threads /\ graph[op[p].thread].node \in Late
      BY <1>8, <3>1 DEF IInv, Request, Left
    <3> QED
      BY <1>6, <1>8, <3>1, <3>2 DEF Same, CapInv
  <2> QED
    BY <2>1, <2>2
<1> QED
  BY <1>6, <1>7, <1>8 DEF CapInv

\* Granted, Counted and Same do not look at the rows.
LEMMA RowsMove ==
    ASSUME CapInv, \A t \in Threads : Shown(t)', UNCHANGED <<level, graph, known>>,
           \A t \in Threads : run'[t].phase = "returned" => run'[t] = run[t],
           \A o \in Operators : op'[o].phase = "resumed" => op'[o] = op[o]
    PROVE  CapInv'
<1>1. \A t \in Threads : (Granted(graph[t]) /\ Counted(t))'
  BY DEF CapInv, Granted, AllPolicyResults, PolicySettings, Counted, Automatic
<1>2. \A t \in Threads : run'[t].phase = "returned" => Same(t, run[t].final)'
  BY DEF CapInv, Same
<1>3. \A o \in Operators : op'[o].phase = "resumed" => Same(op[o].thread, op[o].final)'
  BY DEF CapInv, Same
<1> QED
  BY <1>1, <1>2, <1>3 DEF CapInv

LEMMA CapPersist ==
    ASSUME IInv, CapInv, NEW t \in Threads, PersistRun(t)
    PROVE  CapInv'
<1>1. /\ run[t].phase = "returned" /\ UNCHANGED <<level, graph, known, op>>
      /\ Coherent(run[t].final) /\ run[t].final \in Graphs /\ Same(t, run[t].final)
      /\ audit \in [Actions -> Row \union {NULL}]
  BY DEF PersistRun, history, IInv, Thread, TypeOK, CapInv
<1>2. \A u \in Threads : run'[u].phase = "returned" => run'[u] = run[u]
  <2>1. Ended("done").phase = "done"
    BY DEF Ended, NoRun
  <2> QED
    BY <2>1 DEF PersistRun, IInv, TypeOK
<1>3. CASE Persisted(audit, t, run[t].final) = NULL
  BY <1>1, <1>2, <1>3, CapQuiet DEF PersistRun
<1>4. CASE Persisted(audit, t, run[t].final) # NULL
  <2>1. audit' = Persisted(audit, t, run[t].final)
    BY <1>4 DEF PersistRun
  <2>2. \A a \in Actions :
          /\ audit[a] # NULL => audit'[a] # NULL /\ audit'[a].decision = audit[a].decision
          /\ audit'[a] # audit[a] => a[1] = t
    BY <1>1, <1>4, <2>1, PersistedRows
  <2>3. \A u \in Threads : Shown(u)'
    BY <1>1, <1>4, <2>1, <2>2, WrittenShown
  <2> QED
    BY <1>1, <1>2, <2>3, RowsMove
<1> QED
  BY <1>3, <1>4

LEMMA CapCommit ==
    ASSUME IInv, CapInv, NEW o \in Operators, CommitDecision(o)
    PROVE  CapInv'
<1>0. PICK t \in Threads, g \in Graphs : t = op[o].thread /\ g = op[o].final
  BY DEF CommitDecision, IInv, Request, TypeOK
<1>1. /\ op[o].phase = "resumed" /\ UNCHANGED <<level, graph, known, run>>
      /\ Coherent(g) /\ Same(t, g)
  BY <1>0 DEF CommitDecision, IInv, Request, Left, CapInv
<1>2. \A p \in Operators : op'[p].phase = "resumed" => op'[p] = op[p]
  BY DEF CommitDecision, IInv, TypeOK, Idle
<1>3. CASE Persisted(View(o), t, g) = NULL
  BY <1>0, <1>1, <1>2, <1>3, CapQuiet DEF CommitDecision
<1>4. CASE Persisted(View(o), t, g) # NULL
  <2>1. audit' = Committed(o, Persisted(View(o), t, g))
    BY <1>0, <1>4 DEF CommitDecision
  <2>2. Written(t, g, {op[o].action}) /\ Ahead
    BY <1>0, <1>4, CommitWrites
  <2>3. \A a \in Actions :
          /\ audit[a] # NULL => audit'[a] # NULL /\ audit'[a].decision = audit[a].decision
          /\ audit[a] = NULL /\ audit'[a] # NULL => a[1] = t
    BY <2>2 DEF Ahead, Written
  <2>4. View(o) \in [Actions -> Row \union {NULL}]
        /\ \A a \in Actions : View(o)[a] # NULL <=> audit[a] # NULL
    BY <1>1, ViewIsSound
  <2>5. \A a \in Actions : audit[a] = NULL /\ Persisted(View(o), t, g)[a] # NULL =>
          audit'[a] = Persisted(View(o), t, g)[a]
    BY <2>1, <2>4 DEF Committed
  <2>6. PICK rows \in [Actions -> Row \union {NULL}] : rows = View(o)
    BY <2>4
  <2>7. \A u \in Threads : Shown(u)'
    BY <1>1, <1>4, <2>3, <2>4, <2>5, <2>6, WrittenShown
  <2> QED
    BY <1>1, <1>2, <2>7, RowsMove
<1> QED
  BY <1>3, <1>4

\* All the others.
LEMMA CapOthers ==
    ASSUME IInv, CapInv,
           \/ \E t \in Threads : StartRun(t) \/ RunRaises(t) \/ FailRun(t) \/ LoseRun(t)
           \/ \E o \in Operators : \/ OpenAction(o) \/ ReadIncident(o) \/ CheckAwaiting(o)
                                   \/ RecordDecision(o) \/ RequestFails(o)
    PROVE  CapInv'
<1>1. UNCHANGED <<level, audit, graph, known>>
  BY DEF StartRun, RunRaises, FailRun, LoseRun, OpenAction, ReadIncident, CheckAwaiting,
         RecordDecision, RequestFails, db, history
<1>2. \A t \in Threads : run'[t].phase = "returned" => run'[t] = run[t]
  <2>1. /\ Ended("done").phase = "done" /\ Ended("lost").phase = "lost"
        /\ run \in [Threads -> RunRecords]
    BY DEF Ended, NoRun, IInv, TypeOK, RunRecords
  <2>2. CASE run' = run
    BY <2>2
  <2>3. ASSUME NEW t \in Threads,
               StartRun(t) \/ RunRaises(t) \/ FailRun(t) \/ LoseRun(t)
        PROVE  /\ run'[t].phase \in {"running", "failing", "done", "expired", "lost"}
               /\ \A u \in Threads \ {t} : run'[u] = run[u]
    <3>1. CASE StartRun(t)
      BY <2>1, <3>1 DEF StartRun, RunRecords
    <3>2. CASE RunRaises(t)
      <4>1. PICK failure \in {"failing", "expired"} : run' = [run EXCEPT ![t].phase = failure]
        BY <3>2 DEF RunRaises, Failures
      <4> QED
        BY <2>1, <4>1 DEF RunRecords
    <3>3. CASE FailRun(t) \/ LoseRun(t)
      BY <2>1, <3>3 DEF FailRun, LoseRun
    <3> QED
      BY <2>3, <3>1, <3>2, <3>3
  <2> QED
    BY <2>2, <2>3 DEF OpenAction, ReadIncident, CheckAwaiting, RecordDecision, RequestFails
<1>3. \A o \in Operators : op'[o].phase = "resumed" => op'[o] = op[o]
  <2>1. op \in [Operators -> OpRecords] /\ Idle.phase = "idle"
    BY DEF IInv, TypeOK, OpRecords, Idle
  <2>2. CASE op' = op
    BY <2>2
  <2>3. ASSUME NEW p \in Operators, OpenAction(p) \/ RequestFails(p)
        PROVE  \A o \in Operators : op'[o].phase = "resumed" => op'[o] = op[o]
    BY <2>1, <2>3 DEF OpenAction, RequestFails, Idle
  <2>4. ASSUME NEW p \in Operators, ReadIncident(p) \/ CheckAwaiting(p) \/ RecordDecision(p)
        PROVE  \A o \in Operators : op'[o].phase = "resumed" => op'[o] = op[o]
    <3>1. op[p] \in OpRecords
      BY <2>1
    <3>2. /\ op'[p].phase \in {"read", "checked", "recorded"}
          /\ \A o \in Operators \ {p} : op'[o] = op[o]
      <4>1. CASE ReadIncident(p)
        BY <2>1, <3>1, <4>1 DEF ReadIncident, OpRecords
      <4>2. CASE CheckAwaiting(p)
        BY <2>1, <3>1, <4>2 DEF CheckAwaiting, OpRecords
      <4>3. CASE RecordDecision(p)
        <5>1. PICK r \in [Operators -> OpRecords], answer \in Answers :
                /\ r = [op EXCEPT ![p].phase = "recorded"]
                /\ op' = [r EXCEPT ![p].answer = answer,
                                   ![p].seen[op[p].action].status = Decided(answer)]
          BY <2>1, <3>1, <4>3 DEF RecordDecision, OpRecords
        <5>2. r[p].phase = "recorded" /\ r[p] \in OpRecords
          BY <2>1, <3>1, <5>1 DEF OpRecords
        <5> QED
          BY <5>1, <5>2 DEF OpRecords
      <4> QED
        BY <2>4, <4>1, <4>2, <4>3
    <3> QED
      BY <3>2
  <2> QED
    BY <2>2, <2>3, <2>4 DEF StartRun, RunRaises, FailRun, LoseRun
<1> QED
  BY <1>1, <1>2, <1>3, CapQuiet

(***************************************************************************)
(* The ceiling                                                             *)
(***************************************************************************)
LEMMA CapInit == Init => CapInv
<1> SUFFICES ASSUME Init PROVE CapInv
  OBVIOUS
<1>1. /\ Unstarted.policy_result = NoResult /\ Unstarted.prior.auto_executions = 0
      /\ NoRun.phase = "new" /\ Idle.phase = "idle"
  BY DEF Unstarted, NoRun, Idle
<1>2. \A t \in Threads : Granted(graph[t]) /\ Shown(t)
  BY <1>1 DEF Init, Granted, Shown, NoResult
<1>3. ASSUME NEW t \in Threads PROVE Counted(t)
  <2>1. Automatic(known[t]) = {}
    BY DEF Init, Automatic
  <2>2. Cardinality({}) = 0
    BY FS_EmptySet
  <2> QED
    BY <1>1, <2>1, <2>2 DEF Init, Counted
<1> QED
  BY <1>1, <1>2, <1>3 DEF Init, CapInv

LEMMA CapPreserved == IInv /\ CapInv /\ [Next]_vars => CapInv'
<1> SUFFICES ASSUME IInv, CapInv, [Next]_vars PROVE CapInv'
  OBVIOUS
<1>1. CASE UNCHANGED vars
  BY <1>1, CapQuiet DEF vars, db, history
<1>2. CASE Next
  BY <1>2, CapBegin, CapGraph, CapResume, CapPersist, CapCommit, CapOthers DEF Next
<1> QED
  BY <1>1, <1>2

\* An investigation acts by itself only if fewer than
\* max_auto_remediations_per_incident of the investigations whose rows it had
\* counted did so, however late they did (_count_prior_remediations and
\* _enforce_remediation_limits).
THEOREM CeilingHolds == Spec => []CapOnKnownExecutions
<1>1. IInv /\ CapInv => CapOnKnownExecutions
  <2> SUFFICES ASSUME IInv, CapInv, NEW t \in AutoExecuted
               PROVE  Cardinality(known[t] \intersect AutoExecuted) < MaxAuto
    BY DEF CapOnKnownExecutions
  <2>1. t \in Threads /\ graph[t].policy_result.decision = "ALLOWED"
    BY DEF AutoExecuted
  <2>2. /\ graph[t].prior.auto_executions < MaxAuto /\ graph[t].prior.auto_executions \in Nat
        /\ Cardinality(Automatic(known[t])) <= graph[t].prior.auto_executions
        /\ known[t] \subseteq Threads
    <3>1. graph[t] \in Graphs
      BY <2>1 DEF IInv, TypeOK
    <3> QED
      BY <2>1, <3>1 DEF CapInv, Granted, Counted, IInv, TypeOK, Graphs
  <2>3. IsFiniteSet(Automatic(known[t]))
    BY <2>2, FS_Subset, ApprovalAssumption DEF Automatic
  <2>4. known[t] \intersect AutoExecuted \subseteq Automatic(known[t])
    BY DEF AutoExecuted, Automatic
  <2>5. Cardinality(known[t] \intersect AutoExecuted) <= Cardinality(Automatic(known[t]))
        /\ Cardinality(known[t] \intersect AutoExecuted) \in Nat
        /\ Cardinality(Automatic(known[t])) \in Nat
    BY <2>3, <2>4, FS_Subset, FS_CardinalityType
  <2> QED
    BY <2>2, <2>5, ApprovalAssumption
<1>2. Init => CapInv
  BY CapInit
<1>3. IInv /\ CapInv /\ [Next]_vars => CapInv'
  BY CapPreserved
<1> QED
  BY <1>1, <1>2, <1>3, ApprovalInductive, PTL DEF Spec

(***************************************************************************)
(* Whoever waits has something to decide                                   *)
(*                                                                         *)
(* The incident waits because a run wrote that its thread had paused.  The *)
(* difficulty is a request that was misdirected to the thread meanwhile:   *)
(* it may have written the thread's rows and have ended it, before the run *)
(* writes.  The row of the thread's question is then AWAITING_APPROVAL,    *)
(* and nobody can decide it before the run writes: either the incident     *)
(* does not wait, or there are two such rows, and then nobody can decide   *)
(* anything.                                                               *)
(***************************************************************************)
\* The request has resumed t from its first node, and t has paused.
Pauses(o, t) == op[o].phase = "resumed" /\ op[o].thread = t /\ op[o].final.node = "await"

\* Thread t has paused in an invocation whose caller has not written it yet.
Pausing(t) ==
    \/ run[t].phase = "returned" /\ run[t].final.node = "await"
    \/ \E o \in Operators : Pauses(o, t)

\* What the operators are, or will be, asked by t.
Question(t) == Selected(t, graph[t])

\* Somebody else has written the rows of t.
Exposed(t) == Pausing(t) /\ Question(t) \in Actions /\ audit[Question(t)] # NULL

Deciding(o) == op[o].phase \in {"checked", "recorded", "resumed"}

\* Two rows that wait, and no decision about them under way.
Stuck == \E a, b \in Awaiting(audit) : a # b /\ ~ Taken(a) /\ ~ Taken(b)

OnePause ==
    /\ \A t \in Threads, o \in Operators : run[t].phase = "returned" => ~ Pauses(o, t)
    /\ \A t \in Threads, o, p \in Operators : Pauses(o, t) /\ Pauses(p, t) => o = p

Undecided(t) ==
    Exposed(t) =>
        /\ audit[Question(t)].status = "AWAITING_APPROVAL"
        /\ ~ Taken(Question(t))
        /\ incident_status = "AWAITING_APPROVAL" => Stuck
        /\ \A o \in Operators : op[o].phase = "read" /\ op[o].action = Question(t) => Stuck

\* No row waits again that a session saw decided.
Remembers(o) ==
    Deciding(o) =>
        \A a \in Actions :
            op[o].seen[a] # NULL /\ a # op[o].action /\ audit[a].status = "AWAITING_APPROVAL"
            => op[o].seen[a].status = "AWAITING_APPROVAL"

AwaitInv ==
    /\ OnePause
    /\ \A t \in Threads : Undecided(t)
    /\ \A o \in Operators : Remembers(o)
    /\ AwaitingHasAction

\* The question of a thread that paused was decided to need approval.
LEMMA QuestionAsked ==
    ASSUME IInv, CapInv, NEW t \in Threads, Pausing(t)
    PROVE  /\ Question(t) \in Actions /\ Question(t)[1] = t
           /\ graph[t].policy_result # NoResult
           /\ AllPolicyResults(graph[t])[graph[t].policy_result.proposal_id].decision
                = "APPROVAL_REQUIRED"
<1>1. PICK g \in Graphs : Coherent(g) /\ g.node = "await" /\ Same(t, g)
  <2>1. CASE run[t].phase = "returned" /\ run[t].final.node = "await"
    BY <2>1 DEF IInv, TypeOK, Thread, CapInv
  <2>2. ASSUME NEW o \in Operators, Pauses(o, t)
        PROVE  \E g \in Graphs : Coherent(g) /\ g.node = "await" /\ Same(t, g)
    BY <2>2 DEF Pauses, IInv, TypeOK, Request, Left, CapInv
  <2> QED
    BY <2>1, <2>2 DEF Pausing
<1>2. /\ graph[t].policy_result = g.policy_result
      /\ g.policy_result.decision = "APPROVAL_REQUIRED" /\ g.policy_result # NoResult
  BY <1>1 DEF Coherent, Same
<1>3. g.policy_result.proposal_id \in 1 .. MaxProposals
  BY <1>1, <1>2 DEF Graphs
<1>4. Question(t) \in Actions /\ Question(t)[1] = t
  BY <1>2, <1>3 DEF Question, Selected, Actions
<1> QED
  BY <1>2, <1>4 DEF CapInv, Granted

(***************************************************************************)
(* Steps that write no rows                                                *)
(***************************************************************************)
LEMMA AwaitKept ==
    ASSUME IInv, AwaitInv, OnePause', UNCHANGED audit,
           incident_status' = "AWAITING_APPROVAL" => incident_status = "AWAITING_APPROVAL",
           \A t \in Threads : Exposed(t)' => Exposed(t) /\ Question(t)' = Question(t),
           \A o \in Operators : op'[o].phase = "read" => op'[o] = op[o],
           \A o \in Operators : Deciding(o)' =>
             /\ Deciding(o) /\ op'[o].action = op[o].action
             /\ \A a \in Actions : a # op[o].action => op'[o].seen[a] = op[o].seen[a]
    PROVE  AwaitInv'
<1>1. \A a : Taken(a)' => Taken(a)
  BY DEF Taken, Deciding
<1>2. Awaiting(audit)' = Awaiting(audit)
  BY DEF Awaiting
<1>3. Stuck => Stuck'
  BY <1>1, <1>2 DEF Stuck
<1>4. ASSUME NEW t \in Threads, Exposed(t)'
      PROVE  /\ audit'[Question(t)'].status = "AWAITING_APPROVAL"
             /\ ~ Taken(Question(t))'
             /\ incident_status' = "AWAITING_APPROVAL" => Stuck'
             /\ \A o \in Operators : op'[o].phase = "read" /\ op'[o].action = Question(t)' => Stuck'
  <2>1. Exposed(t) /\ Question(t)' = Question(t) /\ Undecided(t)
    BY <1>4 DEF AwaitInv
  <2>2. ~ Taken(Question(t))'
    BY <2>1 DEF Undecided, Taken, Deciding
  <2> QED
    BY <1>3, <2>1, <2>2 DEF Undecided
<1>5. \A o \in Operators : Remembers(o)'
  BY DEF AwaitInv, Remembers
<1>6. AwaitingHasAction'
  BY <1>2 DEF AwaitInv, AwaitingHasAction
<1> QED
  BY <1>4, <1>5, <1>6 DEF AwaitInv, Undecided

\* Steps that end no invocation, either.
LEMMA AwaitQuiet ==
    ASSUME IInv, AwaitInv, UNCHANGED audit,
           incident_status' = "AWAITING_APPROVAL" => incident_status = "AWAITING_APPROVAL",
           \A t \in Threads : run'[t].phase = "returned" => run'[t] = run[t],
           \A t \in Threads : graph'[t].policy_result = graph[t].policy_result,
           \A o \in Operators : op'[o].phase = "read" => op'[o] = op[o],
           \A o \in Operators : op'[o].phase = "resumed" => op'[o] = op[o],
           \A o \in Operators : Deciding(o)' =>
             /\ Deciding(o) /\ op'[o].action = op[o].action
             /\ \A a \in Actions : a # op[o].action => op'[o].seen[a] = op[o].seen[a]
    PROVE  AwaitInv'
<1>1. \A o \in Operators, t \in Threads : Pauses(o, t)' => Pauses(o, t)
  BY DEF Pauses
<1>2. OnePause'
  BY <1>1 DEF AwaitInv, OnePause
<1>3. \A t \in Threads : Question(t)' = Question(t) /\ (Pausing(t)' => Pausing(t))
  BY <1>1 DEF Question, Selected, Pausing
<1>4. \A t \in Threads : Exposed(t)' => Exposed(t)
  BY <1>3 DEF Exposed
<1> QED
  BY <1>2, <1>3, <1>4, AwaitKept

\* A thread that pauses now has no rows yet.
LEMMA AwaitMoves ==
    ASSUME IInv, AwaitInv, OnePause', NEW t \in Threads,
           UNCHANGED <<audit, incident_status>>,
           \A u \in Threads \ {t} : Pausing(u)' => Pausing(u),
           \A u \in Threads \ {t} : graph'[u] = graph[u],
           graph[t].node \in Late =>
             (Pausing(t)' => Pausing(t)) /\ graph'[t].policy_result = graph[t].policy_result,
           \A o \in Operators : op'[o].phase = "read" => op'[o] = op[o],
           \A o \in Operators : Deciding(o)' =>
             /\ Deciding(o) /\ op'[o].action = op[o].action
             /\ \A a \in Actions : a # op[o].action => op'[o].seen[a] = op[o].seen[a]
    PROVE  AwaitInv'
<1>1. \A a \in Actions : audit[a] # NULL => graph[a[1]].node \in Late
  BY DEF IInv, Outcomes
<1>2. ASSUME NEW u \in Threads, Exposed(u)' PROVE Exposed(u) /\ Question(u)' = Question(u)
  <2>1. CASE u = t
    <3>1. Question(t)'[1] = t
      BY DEF Question, Selected
    <3>2. graph[t].node \in Late
      BY <1>1, <1>2, <2>1, <3>1 DEF Exposed
    <3>3. Question(t)' = Question(t)
      BY <3>2 DEF Question, Selected
    <3> QED
      BY <1>2, <2>1, <3>2, <3>3 DEF Exposed
  <2>2. CASE u # t
    <3>1. Question(u)' = Question(u)
      BY <2>2 DEF Question, Selected
    <3> QED
      BY <1>2, <2>2, <3>1 DEF Exposed
  <2> QED
    BY <2>1, <2>2
<1> QED
  BY <1>2, AwaitKept

LEMMA AwaitGraph ==
    ASSUME IInv, AwaitInv, NEW t \in Threads, RunGraph(t)
    PROVE  AwaitInv'
<1>1. /\ UNCHANGED <<audit, incident_status, op>>
      /\ \A u \in Threads \ {t} : run'[u] = run[u] /\ graph'[u] = graph[u]
  BY DEF RunGraph, db, IInv, TypeOK
<1>2. graph[t].node = "none" /\ graph[t].node \notin Late
  BY DEF RunGraph, IInv, Thread, Late
<1>3. \A o \in Operators : ~ Pauses(o, t)
  BY <1>2 DEF Pauses, IInv, Request, Left
<1>4. \A o \in Operators, u \in Threads : Pauses(o, u)' <=> Pauses(o, u)
  BY <1>1 DEF Pauses
<1>5. OnePause'
  BY <1>1, <1>3, <1>4 DEF AwaitInv, OnePause
<1>6. \A u \in Threads \ {t} : Pausing(u)' => Pausing(u)
  BY <1>1, <1>4 DEF Pausing
<1> QED
  BY <1>1, <1>2, <1>5, <1>6, AwaitMoves DEF Deciding

LEMMA AwaitResume ==
    ASSUME IInv, AwaitInv, NEW o \in Operators, ResumeThread(o)
    PROVE  AwaitInv'
<1>0. PICK t \in Threads : t = op[o].thread
  BY DEF ResumeThread, IInv, Request
<1>1. /\ graph[t] \in Graphs /\ Coherent(graph[t]) /\ level \in Levels
      /\ op[o].answer \in Answers /\ op \in [Operators -> OpRecords] /\ op[o].phase = "recorded"
  BY DEF ResumeThread, IInv, Thread, Request, TypeOK, OpRecords
<1>2. PICK x \in FromResume(graph[t], op[o].answer, PolicySettings) :
        /\ graph' = [graph EXCEPT ![t] = x.graph]
        /\ op' = [op EXCEPT ![o] = IF x.raised THEN Idle
                                   ELSE [@ EXCEPT !.phase = "resumed", !.final = x.graph]]
  BY <1>0 DEF ResumeThread
<1>3. UNCHANGED <<audit, incident_status, run>> /\ \A u \in Threads \ {t} : graph'[u] = graph[u]
  BY <1>2 DEF ResumeThread, db, IInv, TypeOK
<1>4. graph[t].node \in Late =>
        /\ ~ x.raised => x.graph.node = "end"
        /\ graph'[t].policy_result = graph[t].policy_result
  <2>1. graph'[t] = x.graph
    BY <1>2 DEF IInv, TypeOK
  <2> QED
    BY <1>1, <2>1, ResumeShapes
<1>5. /\ \A p \in Operators \ {o} : op'[p] = op[p]
      /\ x.raised => op'[o].phase = "idle"
      /\ ~ x.raised => /\ op'[o].phase = "resumed" /\ op'[o].final = x.graph
                       /\ op'[o].thread = t /\ op'[o].action = op[o].action
                       /\ op'[o].seen = op[o].seen
  <2>1. CASE x.raised
    BY <1>1, <1>2, <2>1 DEF Idle
  <2>2. CASE ~ x.raised
    <3>1. op' = [op EXCEPT ![o] = [op[o] EXCEPT !.phase = "resumed", !.final = x.graph]]
      BY <1>1, <1>2, <2>2
    <3> QED
      BY <1>0, <1>1, <2>2, <3>1 DEF OpRecords
  <2> QED
    BY <2>1, <2>2
<1>6. \A p \in Operators, u \in Threads : Pauses(p, u)' => Pauses(p, u) \/ (p = o /\ u = t)
  BY <1>5 DEF Pauses
<1>7. graph[t].node \in Late => ~ Pauses(o, t)'
  BY <1>4, <1>5 DEF Pauses
<1>8. graph[t].node \notin Late =>
        run[t].phase # "returned" /\ \A p \in Operators : ~ Pauses(p, t)
  BY DEF Pauses, IInv, Thread, Request, Left
<1>9. OnePause'
  BY <1>3, <1>6, <1>7, <1>8 DEF AwaitInv, OnePause
<1>10. /\ \A u \in Threads \ {t} : Pausing(u)' => Pausing(u)
       /\ graph[t].node \in Late => (Pausing(t)' => Pausing(t))
  BY <1>3, <1>6, <1>7 DEF Pausing
<1>11. \A p \in Operators : op'[p].phase = "read" => op'[p] = op[p]
  BY <1>5
<1>12. \A p \in Operators : Deciding(p)' =>
         /\ Deciding(p) /\ op'[p].action = op[p].action
         /\ op'[p].seen = op[p].seen
  BY <1>1, <1>5 DEF Deciding
<1> QED
  BY <1>3, <1>4, <1>9, <1>10, <1>11, <1>12, AwaitMoves

LEMMA AwaitRead ==
    ASSUME IInv, AwaitInv, NEW o \in Operators, ReadIncident(o)
    PROVE  AwaitInv'
<1>1. /\ UNCHANGED <<audit, incident_status, run, graph>> /\ incident_status = "AWAITING_APPROVAL"
      /\ op[o].phase = "opened" /\ op[o] \in OpRecords
      /\ op'[o] = [op[o] EXCEPT !.phase = "read", !.thread = incident_thread]
      /\ \A p \in Operators \ {o} : op'[p] = op[p]
  BY DEF ReadIncident, db, IInv, TypeOK, OpRecords
<1>2. op'[o].phase = "read"
  BY <1>1 DEF OpRecords
<1>3. /\ \A p \in Operators : Deciding(p)' => op'[p] = op[p]
      /\ \A p \in Operators : Deciding(p) => op'[p] = op[p]
  BY <1>1, <1>2 DEF Deciding
<1>4. /\ \A p \in Operators : Deciding(p)' <=> Deciding(p)
      /\ \A a : Taken(a)' <=> Taken(a)
      /\ \A p \in Operators, t \in Threads : Pauses(p, t)' <=> Pauses(p, t)
  <2>1. \A p \in Operators : Deciding(p)' <=> Deciding(p)
    BY <1>3 DEF Deciding
  <2> QED
    BY <1>1, <1>2, <1>3, <2>1 DEF Taken, Pauses, Deciding
<1>5. Awaiting(audit)' = Awaiting(audit) /\ (Stuck' <=> Stuck)
  BY <1>1, <1>4 DEF Stuck, Awaiting
<1>6. OnePause'
  BY <1>1, <1>4 DEF AwaitInv, OnePause
<1>7. \A t \in Threads : Question(t)' = Question(t) /\ (Exposed(t)' <=> Exposed(t))
  BY <1>1, <1>4 DEF Question, Selected, Exposed, Pausing
<1>8. ASSUME NEW t \in Threads PROVE Undecided(t)'
  BY <1>1, <1>4, <1>5, <1>7 DEF AwaitInv, Undecided
<1>9. \A p \in Operators : Remembers(p)'
  BY <1>1, <1>3, <1>4 DEF AwaitInv, Remembers
<1>10. AwaitingHasAction'
  BY <1>1, <1>5 DEF AwaitInv, AwaitingHasAction
<1> QED
  BY <1>6, <1>8, <1>9, <1>10 DEF AwaitInv

\* The check finds no other row that waits.
LEMMA AwaitCheck ==
    ASSUME IInv, AwaitInv, NEW o \in Operators, CheckAwaiting(o)
    PROVE  AwaitInv' /\ \A a, b \in Awaiting(audit) : a = b
<1>1. /\ UNCHANGED <<audit, incident_status, run, graph>>
      /\ op[o].phase = "read" /\ op[o] \in OpRecords
      /\ Awaiting(Listed(o)) = {op[o].action}
      /\ op'[o] = [op[o] EXCEPT !.phase = "checked", !.seen = Listed(o)]
      /\ \A p \in Operators \ {o} : op'[p] = op[p]
  BY DEF CheckAwaiting, db, IInv, TypeOK, OpRecords
<1>2. /\ op'[o].phase = "checked" /\ op'[o].seen = Listed(o)
      /\ op'[o].action = op[o].action
  BY <1>1 DEF OpRecords
<1>3. /\ op[o].action \in Actions /\ audit[op[o].action] \in Row
      /\ audit \in [Actions -> Row \union {NULL}]
  BY <1>1 DEF IInv, Request, TypeOK
<1>4. /\ \A a \in Actions : a # op[o].action => Listed(o)[a] = audit[a]
      /\ Listed(o)[op[o].action] \in Row
      /\ Listed(o)[op[o].action].status = "AWAITING_APPROVAL"
  BY <1>3 DEF Listed, Row, Statuses
<1>5. Awaiting(audit) \subseteq {op[o].action}
  <2>1. \A a \in Awaiting(audit) : a \in Awaiting(Listed(o))
    BY <1>4, ApprovalAssumption DEF Awaiting
  <2> QED
    BY <1>1, <2>1
<1>6. ~ Stuck /\ Awaiting(audit)' = Awaiting(audit)
  BY <1>1, <1>5 DEF Stuck, Awaiting
<1>7. /\ \A p \in Operators, t \in Threads : Pauses(p, t)' <=> Pauses(p, t)
      /\ \A a : Taken(a)' => Taken(a) \/ a = op[o].action
  BY <1>1, <1>2 DEF Pauses, Taken, Deciding
<1>8. OnePause'
  BY <1>1, <1>7 DEF AwaitInv, OnePause
<1>9. \A t \in Threads : Question(t)' = Question(t) /\ (Exposed(t)' <=> Exposed(t))
  BY <1>1, <1>7 DEF Question, Selected, Exposed, Pausing
<1>10. ASSUME NEW t \in Threads PROVE Undecided(t)'
  <2> SUFFICES ASSUME Exposed(t)
               PROVE  /\ audit[Question(t)].status = "AWAITING_APPROVAL"
                      /\ ~ Taken(Question(t))'
                      /\ incident_status # "AWAITING_APPROVAL"
                      /\ \A p \in Operators : op'[p].phase = "read" => op'[p].action # Question(t)
    BY <1>1, <1>9 DEF Undecided, Taken
  <2>1. /\ audit[Question(t)].status = "AWAITING_APPROVAL" /\ ~ Taken(Question(t))
        /\ incident_status # "AWAITING_APPROVAL"
        /\ \A p \in Operators : op[p].phase = "read" => op[p].action # Question(t)
    BY <1>6 DEF AwaitInv, Undecided
  <2>2. op[o].action # Question(t)
    BY <1>1, <2>1
  <2>3. ~ Taken(Question(t))'
    BY <1>7, <1>9, <2>1, <2>2
  <2> QED
    BY <1>1, <1>2, <2>1, <2>3
<1>11. ASSUME NEW p \in Operators PROVE Remembers(p)'
  <2>1. CASE p = o
    BY <1>1, <1>2, <1>4, <2>1 DEF Remembers
  <2>2. CASE p # o
    BY <1>1, <2>2 DEF AwaitInv, Remembers, Deciding
  <2> QED
    BY <2>1, <2>2
<1>12. AwaitingHasAction'
  BY <1>1, <1>6 DEF AwaitInv, AwaitingHasAction
<1> QED
  BY <1>5, <1>8, <1>10, <1>11, <1>12 DEF AwaitInv

(***************************************************************************)
(* Steps that write rows                                                   *)
(***************************************************************************)
\* Writing the rows of a thread leaves those that wait as they are, and lets
\* none wait again.
LEMMA WaitingRows ==
    ASSUME NEW rows \in [Actions -> Row \union {NULL}], NEW t \in Threads,
           NEW g \in Graphs, Coherent(g), Persisted(rows, t, g) # NULL
    PROVE  \A a \in Actions : rows[a] # NULL =>
             /\ rows[a].status = "AWAITING_APPROVAL" => Persisted(rows, t, g)[a] = rows[a]
             /\ Persisted(rows, t, g)[a].status = "AWAITING_APPROVAL" =>
                  Persisted(rows, t, g)[a] = rows[a]
<1> DEFINE all == WithDecisions(rows, t, g)
           s == Selected(t, g)
           new == Persisted(rows, t, g)
<1>1. /\ all \in [Actions -> Row \union {NULL}]
      /\ \A a \in Actions : rows[a] # NULL => all[a] = rows[a]
  BY DecidedRows
<1>2. \/ new = all
      \/ /\ new = [all EXCEPT ![s].status = Outcome(g)]
         /\ all[s].status \in {"APPROVED", Outcome(g)}
  BY DEF Persisted, MayRecord
<1>3. Outcome(g) # "AWAITING_APPROVAL"
  BY DEF Outcome
<1> HIDE DEF all, new, s
<1>4. ASSUME NEW a \in Actions, rows[a] # NULL
      PROVE  /\ rows[a].status = "AWAITING_APPROVAL" => new[a] = rows[a]
             /\ new[a].status = "AWAITING_APPROVAL" => new[a] = rows[a]
  <2>1. all[a] = rows[a] /\ all[a] \in Row
    BY <1>1, <1>4
  <2> QED
    BY <1>1, <1>2, <1>3, <2>1 DEF Row
<1> QED
  BY <1>4 DEF new

LEMMA AwaitRows ==
    ASSUME IInv, CapInv, AwaitInv, NEW t \in Threads, UNCHANGED graph,
           \A a \in Awaiting(audit) : ~ Taken(a) => audit'[a] = audit[a],
           \A a \in Actions :
             audit[a] # NULL /\ audit'[a].status = "AWAITING_APPROVAL"
             => audit[a].status = "AWAITING_APPROVAL",
           \A a \in Actions : audit[a] = NULL /\ audit'[a] # NULL => a[1] = t,
           \A u \in Threads : run'[u].phase = "returned" => run'[u] = run[u],
           \A o \in Operators : op'[o].phase # "idle" => op'[o] = op[o],
           \* a row of the question that is written for another session
           Pausing(t)' /\ audit[Question(t)] = NULL /\ audit'[Question(t)] # NULL =>
             /\ incident_status' # "AWAITING_APPROVAL"
             /\ audit'[Question(t)].status = "AWAITING_APPROVAL",
           \/ incident_status' # "AWAITING_APPROVAL"
           \/ /\ Question(t) \in Awaiting(audit') /\ ~ Taken(Question(t)) /\ ~ Pausing(t)'
           \/ incident_status = "AWAITING_APPROVAL" /\ Awaiting(audit) \subseteq Awaiting(audit')
    PROVE  AwaitInv'
<1>1. /\ \A o \in Operators, u \in Threads : Pauses(o, u)' => Pauses(o, u)
      /\ \A a : Taken(a)' => Taken(a)
      /\ \A o \in Operators : Deciding(o)' => op'[o] = op[o] /\ Deciding(o)
      /\ \A o \in Operators : op'[o].phase = "read" => op'[o] = op[o]
  BY DEF Pauses, Taken, Deciding
<1>2. OnePause'
  BY <1>1 DEF AwaitInv, OnePause
<1>3. \A u \in Threads : Question(u)' = Question(u) /\ (Pausing(u)' => Pausing(u))
  BY <1>1 DEF Question, Selected, Pausing
<1>4. \A a \in Awaiting(audit) : ~ Taken(a) => a \in Awaiting(audit')
  BY DEF Awaiting
<1>5. Awaiting(audit)' = Awaiting(audit')
  BY DEF Awaiting
<1>6. Stuck => Stuck'
  BY <1>1, <1>4, <1>5 DEF Stuck
<1>7. \A o \in Operators : op[o].phase # "idle" => audit[op[o].action] # NULL
  BY DEF IInv, Request
<1>8. ASSUME NEW u \in Threads, NEW q \in Actions, q = Question(u), Exposed(u)'
      PROVE  /\ audit'[q].status = "AWAITING_APPROVAL" /\ ~ Taken(q)'
             /\ incident_status' = "AWAITING_APPROVAL" => Stuck'
             /\ \A o \in Operators : op'[o].phase = "read" /\ op'[o].action = q => Stuck'
  <2>1. /\ Pausing(u)' /\ Pausing(u) /\ audit'[q] # NULL /\ q[1] = u
    BY <1>3, <1>8 DEF Exposed, Question, Selected
  <2>2. CASE audit[q] # NULL
    <3>1. /\ audit[q].status = "AWAITING_APPROVAL" /\ ~ Taken(q)
          /\ incident_status = "AWAITING_APPROVAL" => Stuck
          /\ \A o \in Operators : op[o].phase = "read" /\ op[o].action = q => Stuck
      BY <1>8, <2>1, <2>2 DEF AwaitInv, Undecided, Exposed
    <3>2. q \in Awaiting(audit) /\ q \in Awaiting(audit') /\ audit'[q] = audit[q]
      BY <1>4, <2>2, <3>1 DEF Awaiting
    <3>3. CASE Question(t) \in Awaiting(audit') /\ ~ Taken(Question(t)) /\ ~ Pausing(t)'
      <4>1. u # t
        BY <2>1, <3>3
      <4>2. Question(t) # q
        BY <2>1, <4>1 DEF Question, Selected
      <4>3. Stuck'
        <5>1. PICK p \in Awaiting(audit') : p # q /\ ~ Taken(p)
          BY <3>3, <4>2
        <5> QED
          BY <1>1, <1>5, <3>1, <3>2, <5>1 DEF Stuck
      <4> QED
        BY <1>1, <3>1, <3>2, <4>3
    <3>4. CASE incident_status' # "AWAITING_APPROVAL" \/ incident_status = "AWAITING_APPROVAL"
      BY <1>1, <1>6, <3>1, <3>2, <3>4
    <3> QED
      BY <3>3, <3>4
  <2>3. CASE audit[q] = NULL
    <3>1. u = t
      BY <2>1, <2>3
    <3>2. ~ Taken(q) /\ \A o \in Operators : op[o].phase = "read" => op[o].action # q
      BY <1>7, <2>3 DEF Taken, Deciding
    <3> QED
      BY <1>1, <1>8, <2>1, <2>3, <3>1, <3>2
  <2> QED
    BY <2>2, <2>3
<1>9. ASSUME NEW u \in Threads PROVE Undecided(u)'
  BY <1>3, <1>8 DEF Undecided, Exposed, Taken
<1>10. ASSUME NEW o \in Operators PROVE Remembers(o)'
  <2> SUFFICES ASSUME Deciding(o), op'[o] = op[o], NEW a \in Actions, op[o].seen[a] # NULL,
                      a # op[o].action, audit'[a].status = "AWAITING_APPROVAL"
               PROVE  op[o].seen[a].status = "AWAITING_APPROVAL"
    BY <1>1 DEF Remembers
  <2>1. audit[a] # NULL
    BY DEF Deciding, IInv, Request
  <2> QED
    BY <2>1 DEF AwaitInv, Remembers
<1>11. AwaitingHasAction'
  <2> SUFFICES ASSUME incident_status' = "AWAITING_APPROVAL" PROVE Awaiting(audit') # {}
    BY <1>5 DEF AwaitingHasAction
  <2> QED
    BY DEF AwaitInv, AwaitingHasAction
<1> QED
  BY <1>2, <1>9, <1>10, <1>11 DEF AwaitInv

LEMMA AwaitPersist ==
    ASSUME IInv, CapInv, AwaitInv, NEW t \in Threads, PersistRun(t)
    PROVE  AwaitInv' /\ \A a \in Awaiting(audit) : audit'[a] = audit[a]
<1>0. PICK g \in Graphs : g = run[t].final
  BY DEF IInv, TypeOK
<1>1. /\ run[t].phase = "returned" /\ UNCHANGED <<level, graph, op>>
      /\ Coherent(g) /\ Same(t, g) /\ g.node \in {"await", "end"}
      /\ audit \in [Actions -> Row \union {NULL}]
  BY <1>0 DEF PersistRun, IInv, Thread, Left, TypeOK, CapInv
<1>2. /\ \A u \in Threads : run'[u].phase = "returned" => run'[u] = run[u]
      /\ run'[t].phase # "returned"
  <2>1. Ended("done").phase = "done"
    BY DEF Ended, NoRun
  <2> QED
    BY <2>1 DEF PersistRun, IInv, TypeOK
<1>3. CASE Persisted(audit, t, g) = NULL
  <2>1. UNCHANGED <<audit, incident_status>>
    BY <1>0, <1>3 DEF PersistRun
  <2> QED
    BY <1>1, <1>2, <2>1, AwaitQuiet DEF Deciding
<1>4. CASE Persisted(audit, t, g) # NULL
  <2>1. /\ audit' = Persisted(audit, t, g)
        /\ incident_status' = StatusWritten(run[t].seen, NextStatus(g))
    BY <1>0, <1>4 DEF PersistRun
  <2>2. \A a \in Actions : audit[a] # NULL =>
          /\ audit[a].status = "AWAITING_APPROVAL" => audit'[a] = audit[a]
          /\ audit'[a].status = "AWAITING_APPROVAL" => audit[a].status = "AWAITING_APPROVAL"
    BY <1>1, <1>4, <2>1, WaitingRows
  <2>3. \A a \in Awaiting(audit) : audit'[a] = audit[a]
    BY <2>2 DEF Awaiting
  <2>4. \A a \in Actions : audit[a] = NULL /\ audit'[a] # NULL => a[1] = t
    BY <1>1, <1>4, <2>1, PersistedRows
  <2>5. ~ Pausing(t)'
    <3>1. \A o \in Operators : ~ Pauses(o, t)
      BY <1>1 DEF AwaitInv, OnePause
    <3> QED
      BY <1>1, <1>2, <3>1 DEF Pausing, Pauses
  <2>6. \/ incident_status' # "AWAITING_APPROVAL"
        \/ Question(t) \in Awaiting(audit') /\ ~ Taken(Question(t))
        \/ incident_status = "AWAITING_APPROVAL" /\ Awaiting(audit) \subseteq Awaiting(audit')
    <3>1. CASE g.node = "await"
      <4>1. Pausing(t)
        BY <1>0, <1>1, <3>1 DEF Pausing
      <4>2. /\ Question(t) \in Actions /\ graph[t].policy_result # NoResult
            /\ AllPolicyResults(graph[t])[graph[t].policy_result.proposal_id].decision
                 = "APPROVAL_REQUIRED"
        BY <4>1, QuestionAsked
      <4>3. Question(t) = Selected(t, g) /\ AllPolicyResults(graph[t]) = AllPolicyResults(g)
        BY <1>1 DEF Question, Selected, Same, AllPolicyResults
      <4>4. CASE audit[Question(t)] = NULL
        <5>1. /\ audit'[Question(t)] # NULL
              /\ audit'[Question(t)].status = "AWAITING_APPROVAL"
          BY <1>1, <1>4, <2>1, <4>2, <4>3, <4>4, SelectedRow DEF Same
        <5>2. ~ Taken(Question(t))
          BY <4>4 DEF Taken, Deciding, IInv, Request
        <5> QED
          BY <4>2, <5>1, <5>2 DEF Awaiting
      <4>5. CASE audit[Question(t)] # NULL
        <5>1. audit[Question(t)].status = "AWAITING_APPROVAL" /\ ~ Taken(Question(t))
          BY <4>1, <4>2, <4>5 DEF AwaitInv, Undecided, Exposed
        <5> QED
          BY <2>2, <4>2, <4>5, <5>1 DEF Awaiting
      <4> QED
        BY <4>4, <4>5
    <3>2. CASE g.node = "end"
      <4>1. NextStatus(g) # "AWAITING_APPROVAL"
        BY <3>2 DEF NextStatus
      <4>2. incident_status' = "AWAITING_APPROVAL" => incident_status = "AWAITING_APPROVAL"
        BY <2>1, <4>1 DEF StatusWritten
      <4>3. Awaiting(audit) \subseteq Awaiting(audit')
        BY <2>3 DEF Awaiting
      <4> QED
        BY <4>2, <4>3
    <3> QED
      BY <1>1, <3>1, <3>2
  <2>7. AwaitInv'
    BY <1>1, <1>2, <2>2, <2>3, <2>4, <2>5, <2>6, AwaitRows
  <2> QED
    BY <2>3, <2>7
<1>5. Persisted(audit, t, g) = NULL => UNCHANGED audit
  BY <1>0 DEF PersistRun
<1> QED
  BY <1>3, <1>4, <1>5

LEMMA AwaitCommit ==
    ASSUME IInv, CapInv, AwaitInv, NEW o \in Operators, CommitDecision(o)
    PROVE  AwaitInv' /\ \A a \in Awaiting(audit) : ~ Taken(a) => audit'[a] = audit[a]
<1>0. PICK t \in Threads, g \in Graphs : t = op[o].thread /\ g = op[o].final
  BY DEF CommitDecision, IInv, Request, TypeOK
<1>1. /\ op[o].phase = "resumed" /\ UNCHANGED <<level, graph, run>>
      /\ Coherent(g) /\ Same(t, g) /\ g.node \in {"await", "end"}
  BY <1>0 DEF CommitDecision, IInv, Request, Left, CapInv
<1>2. \A p \in Operators : op'[p].phase # "idle" => op'[p] = op[p] /\ p # o
  BY DEF CommitDecision, IInv, TypeOK, Idle
<1>3. CASE Persisted(View(o), t, g) = NULL
  <2>1. UNCHANGED <<audit, incident_status>>
    BY <1>0, <1>3 DEF CommitDecision
  <2>2. /\ \A p \in Operators : Deciding(p)' => op'[p] = op[p] /\ Deciding(p)
        /\ \A p \in Operators : op'[p].phase \in {"read", "resumed"} => op'[p] = op[p]
    BY <1>2 DEF Deciding
  <2> QED
    BY <1>1, <2>1, <2>2, AwaitQuiet
<1>4. CASE Persisted(View(o), t, g) # NULL
  <2>0. PICK rows \in [Actions -> Row \union {NULL}] : rows = View(o)
    BY <1>1, ViewIsSound
  <2> DEFINE new == Persisted(rows, t, g)
             mine == op[o].action
  <2>1. /\ audit' = [a \in Actions |-> IF new[a] = rows[a] /\ a # mine THEN audit[a] ELSE new[a]]
        /\ incident_status' = StatusWritten("AWAITING_APPROVAL", NextStatus(g))
    BY <1>0, <1>4, <2>0 DEF CommitDecision, Committed
  <2>2. Written(t, g, {op[o].action}) /\ Ahead
    BY <1>0, <1>4, <2>0, CommitWrites
  <2>3. \A a \in Actions : audit[a] = NULL /\ audit'[a] # NULL => a[1] = t
    BY <2>2 DEF Written
  <2>4. /\ \A a \in Actions : rows[a] # NULL <=> audit[a] # NULL
        /\ mine \in Actions /\ rows[mine] # NULL
        /\ rows[mine].status # "AWAITING_APPROVAL" /\ Taken(mine)
    BY <1>1, <2>0, ViewIsSound DEF Decided, IInv, Request, Taken, Deciding
  <2>5. \A a \in Actions : rows[a] # NULL =>
          /\ rows[a].status = "AWAITING_APPROVAL" => new[a] = rows[a]
          /\ new[a].status = "AWAITING_APPROVAL" => new[a] = rows[a]
    BY <1>1, <1>4, <2>0, WaitingRows
  <2>6. \A a \in Awaiting(audit) : a # mine => rows[a] # NULL /\ rows[a].status = "AWAITING_APPROVAL"
    <3>1. Remembers(o) /\ Deciding(o)
      BY <1>1 DEF AwaitInv, Deciding
    <3> QED
      BY <2>0, <2>4, <3>1 DEF Remembers, View, Awaiting
  <2>7. \A a \in Awaiting(audit) : ~ Taken(a) => audit'[a] = audit[a]
    BY <2>1, <2>4, <2>5, <2>6 DEF Awaiting
  <2>8. \A a \in Actions :
          audit[a] # NULL /\ audit'[a].status = "AWAITING_APPROVAL"
          => audit[a].status = "AWAITING_APPROVAL"
    BY <2>1, <2>4, <2>5
  <2>9. ASSUME g.node = "await" PROVE Pauses(o, t)
    BY <1>0, <1>1, <2>9 DEF Pauses
  <2>10. ASSUME Pausing(t)'
         PROVE  g.node = "end" /\ Pausing(t)
    <3>1. CASE run'[t].phase = "returned" /\ run'[t].final.node = "await"
      BY <1>1, <2>9, <3>1 DEF AwaitInv, OnePause, Pausing
    <3>2. ASSUME NEW p \in Operators, Pauses(p, t)' PROVE g.node = "end" /\ Pausing(t)
      <4>1. p # o /\ Pauses(p, t)
        BY <1>2, <3>2 DEF Pauses
      <4> QED
        BY <1>1, <2>9, <4>1 DEF AwaitInv, OnePause, Pausing
    <3> QED
      BY <2>10, <3>1, <3>2 DEF Pausing
  <2>11. g.node = "end" => incident_status' # "AWAITING_APPROVAL"
    BY <2>1 DEF StatusWritten, NextStatus
  <2>12. ASSUME Pausing(t), audit[Question(t)] = NULL
         PROVE  /\ Question(t) \in Actions
                /\ audit'[Question(t)] # NULL /\ audit'[Question(t)].status = "AWAITING_APPROVAL"
    <3>1. /\ Question(t) \in Actions /\ graph[t].policy_result # NoResult
          /\ AllPolicyResults(graph[t])[graph[t].policy_result.proposal_id].decision
               = "APPROVAL_REQUIRED"
      BY <2>12, QuestionAsked
    <3>2. Question(t) = Selected(t, g) /\ AllPolicyResults(graph[t]) = AllPolicyResults(g)
      BY <1>1 DEF Question, Selected, Same, AllPolicyResults
    <3>3. rows[Question(t)] = NULL
      BY <2>4, <2>12, <3>1
    <3>4. new[Question(t)] # NULL /\ new[Question(t)].status = "AWAITING_APPROVAL"
      BY <1>1, <1>4, <2>0, <3>1, <3>2, <3>3, SelectedRow DEF Same
    <3> HIDE DEF new
    <3> QED
      BY <2>1, <3>1, <3>3, <3>4
  <2>13. \/ incident_status' # "AWAITING_APPROVAL"
         \/ Question(t) \in Awaiting(audit') /\ ~ Taken(Question(t)) /\ ~ Pausing(t)'
    <3> SUFFICES ASSUME g.node = "await"
                 PROVE  Question(t) \in Awaiting(audit') /\ ~ Taken(Question(t)) /\ ~ Pausing(t)'
      BY <1>1, <2>11
    <3>1. Pausing(t) /\ ~ Pausing(t)'
      BY <2>9, <2>10 DEF Pausing
    <3>2. Question(t) \in Actions
      BY <3>1, QuestionAsked
    <3>3. CASE audit[Question(t)] = NULL
      <4>1. ~ Taken(Question(t))
        BY <3>3 DEF Taken, Deciding, IInv, Request
      <4> QED
        BY <2>12, <3>1, <3>3, <4>1 DEF Awaiting
    <3>4. CASE audit[Question(t)] # NULL
      <4>1. audit[Question(t)].status = "AWAITING_APPROVAL" /\ ~ Taken(Question(t))
        BY <3>1, <3>2, <3>4 DEF AwaitInv, Undecided, Exposed
      <4>2. Question(t) \in Awaiting(audit)
        BY <3>2, <3>4, <4>1 DEF Awaiting
      <4> QED
        BY <2>7, <3>1, <4>1, <4>2 DEF Awaiting
    <3> QED
      BY <3>3, <3>4
  <2>14. Pausing(t)' /\ audit[Question(t)] = NULL /\ audit'[Question(t)] # NULL =>
           /\ incident_status' # "AWAITING_APPROVAL"
           /\ audit'[Question(t)].status = "AWAITING_APPROVAL"
    BY <2>10, <2>11, <2>12
  <2> HIDE DEF new, mine
  <2>15. AwaitInv'
    BY <1>1, <1>2, <2>3, <2>7, <2>8, <2>13, <2>14, AwaitRows
  <2> QED
    BY <2>7, <2>15
<1>5. Persisted(View(o), t, g) = NULL => UNCHANGED audit
  BY <1>0 DEF CommitDecision
<1> QED
  BY <1>3, <1>4, <1>5

(***************************************************************************)
(* All the others                                                          *)
(***************************************************************************)
LEMMA AwaitRuns ==
    ASSUME IInv, AwaitInv, NEW t \in Threads,
           BeginRun(t) \/ StartRun(t) \/ RunRaises(t) \/ FailRun(t) \/ LoseRun(t)
    PROVE  AwaitInv' /\ UNCHANGED <<audit, op>>
<1>1. UNCHANGED <<audit, op>>
  BY DEF BeginRun, StartRun, RunRaises, FailRun, LoseRun, db
<1>2. incident_status' = "AWAITING_APPROVAL" => incident_status = "AWAITING_APPROVAL"
  BY DEF BeginRun, StartRun, RunRaises, FailRun, LoseRun, db, StatusWritten, FailureStatus
<1>3. \A u \in Threads : graph'[u].policy_result = graph[u].policy_result
  <2>1. CASE BeginRun(t)
    <3>1. graph' = [graph EXCEPT ![t].prior = CountPrior] /\ graph[t] \in Graphs
          /\ graph \in [Threads -> Graphs]
      BY <2>1 DEF BeginRun, IInv, TypeOK
    <3> QED
      BY <3>1 DEF Graphs
  <2>2. CASE graph' = graph
    BY <2>2
  <2> QED
    BY <2>1, <2>2 DEF StartRun, RunRaises, FailRun, LoseRun
<1>4. \A u \in Threads : run'[u].phase = "returned" => run'[u] = run[u]
  <2>1. Ended("done").phase = "done" /\ Ended("lost").phase = "lost"
    BY DEF Ended, NoRun
  <2>2. CASE RunRaises(t)
    <3>1. PICK failure \in {"failing", "expired"} : run' = [run EXCEPT ![t].phase = failure]
      BY <2>2 DEF RunRaises, Failures
    <3> QED
      BY <3>1 DEF IInv, TypeOK
  <2> QED
    BY <2>1, <2>2 DEF BeginRun, StartRun, FailRun, LoseRun, IInv, TypeOK
<1>5. AwaitInv'
  BY <1>1, <1>2, <1>3, <1>4, AwaitQuiet DEF Deciding
<1> QED
  BY <1>1, <1>5

LEMMA AwaitRequests ==
    ASSUME IInv, AwaitInv, NEW o \in Operators,
           OpenAction(o) \/ RecordDecision(o) \/ RequestFails(o)
    PROVE  /\ AwaitInv' /\ UNCHANGED audit
           /\ \A p \in Operators : Deciding(p)' => Deciding(p) /\ op'[p].action = op[p].action
<1>1. UNCHANGED <<audit, incident_status, run, graph>> /\ op \in [Operators -> OpRecords]
  BY DEF OpenAction, RecordDecision, RequestFails, db, IInv, TypeOK, OpRecords
<1>2. /\ \A p \in Operators : op'[p].phase \in {"read", "resumed"} => op'[p] = op[p]
      /\ \A p \in Operators : Deciding(p)' =>
           /\ Deciding(p) /\ op'[p].action = op[p].action
           /\ \A a \in Actions : a # op[p].action => op'[p].seen[a] = op[p].seen[a]
  <2>1. CASE OpenAction(o) \/ RequestFails(o)
    <3>1. op'[o].phase \in {"idle", "opened"} /\ \A p \in Operators \ {o} : op'[p] = op[p]
      <4>1. CASE OpenAction(o)
        <5>1. PICK a \in Actions : op' = [op EXCEPT ![o] = [Idle EXCEPT !.phase = "opened",
                                                                      !.action = a]]
          BY <4>1 DEF OpenAction, Awaiting
        <5>2. [Idle EXCEPT !.phase = "opened", !.action = a].phase = "opened"
          BY DEF Idle
        <5> QED
          BY <1>1, <5>1, <5>2
      <4>2. CASE RequestFails(o)
        BY <1>1, <4>2 DEF RequestFails, Idle
      <4> QED
        BY <2>1, <4>1, <4>2
    <3> QED
      BY <3>1 DEF Deciding
  <2>2. CASE RecordDecision(o)
    <3>0. op[o] \in OpRecords
      BY <1>1
    <3>1. PICK r \in [Operators -> OpRecords], answer \in Answers :
            /\ r = [op EXCEPT ![o].phase = "recorded"]
            /\ op' = [r EXCEPT ![o].answer = answer,
                               ![o].seen[op[o].action].status = Decided(answer)]
      BY <1>1, <2>2, <3>0 DEF RecordDecision, OpRecords
    <3>2. /\ r[o].phase = "recorded" /\ r[o] \in OpRecords
          /\ r[o].action = op[o].action /\ r[o].seen = op[o].seen
      BY <1>1, <3>1 DEF OpRecords
    <3>3. op[o].phase = "checked" /\ op[o].seen \in [Actions -> Row \union {NULL}]
      BY <2>2 DEF RecordDecision, IInv, Request
    <3>4. /\ op'[o].phase = "recorded" /\ op'[o].action = op[o].action
          /\ op'[o].seen = [op[o].seen EXCEPT ![op[o].action].status = Decided(answer)]
          /\ \A p \in Operators \ {o} : op'[p] = op[p]
      BY <3>1, <3>2 DEF OpRecords
    <3> QED
      BY <3>3, <3>4 DEF Deciding
  <2> QED
    BY <2>1, <2>2
<1>3. AwaitInv'
  BY <1>1, <1>2, AwaitQuiet
<1> QED
  BY <1>1, <1>2, <1>3

LEMMA AwaitInit == Init => AwaitInv
<1> SUFFICES ASSUME Init PROVE AwaitInv
  OBVIOUS
<1>1. NoRun.phase = "new" /\ Idle.phase = "idle"
  BY DEF NoRun, Idle
<1> QED
  BY <1>1 DEF Init, AwaitInv, OnePause, Undecided, Exposed, Pausing, Pauses, Remembers,
              Deciding, AwaitingHasAction

\* The invariant is preserved; and a step that touches a row that waits, or takes
\* up a decision about it, finds no other one that waits undecided.
LEMMA AwaitPreserved ==
    ASSUME IInv, CapInv, AwaitInv, [Next]_vars
    PROVE  /\ AwaitInv'
           /\ \A a, b \in Awaiting(audit) : a # b /\ ~ Taken(a) =>
                audit'[a] = audit[a] /\ ~ Taken(a)'
<1>1. ASSUME NEW t \in Threads,
             BeginRun(t) \/ StartRun(t) \/ RunRaises(t) \/ FailRun(t) \/ LoseRun(t)
      PROVE  AwaitInv' /\ UNCHANGED <<audit, op>>
  BY <1>1, AwaitRuns
<1>2. ASSUME NEW t \in Threads, RunGraph(t) PROVE AwaitInv' /\ UNCHANGED <<audit, op>>
  BY <1>2, AwaitGraph DEF RunGraph, db
<1>3. ASSUME NEW t \in Threads, PersistRun(t)
      PROVE  AwaitInv' /\ UNCHANGED op /\ \A a \in Awaiting(audit) : audit'[a] = audit[a]
  BY <1>3, AwaitPersist DEF PersistRun
<1>4. ASSUME NEW o \in Operators, OpenAction(o) \/ RecordDecision(o) \/ RequestFails(o)
      PROVE  /\ AwaitInv' /\ UNCHANGED audit /\ \A a : Taken(a)' => Taken(a)
  BY <1>4, AwaitRequests DEF Taken, Deciding
<1>5. ASSUME NEW o \in Operators, ReadIncident(o)
      PROVE  /\ AwaitInv' /\ UNCHANGED audit /\ \A a : Taken(a)' => Taken(a)
  <2>1. \A p \in Operators : Deciding(p)' => op'[p] = op[p]
    BY <1>5 DEF ReadIncident, Deciding, IInv, TypeOK
  <2> QED
    BY <1>5, <2>1, AwaitRead DEF ReadIncident, db, Taken, Deciding
<1>6. ASSUME NEW o \in Operators, CheckAwaiting(o)
      PROVE  AwaitInv' /\ \A a, b \in Awaiting(audit) : a = b
  BY <1>6, AwaitCheck
<1>7. ASSUME NEW o \in Operators, ResumeThread(o)
      PROVE  /\ AwaitInv' /\ UNCHANGED audit /\ \A a : Taken(a)' => Taken(a)
  <2>1. \A p \in Operators \ {o} : op'[p] = op[p]
    BY <1>7 DEF ResumeThread, IInv, TypeOK
  <2>2. op[o].phase = "recorded" /\ (op'[o].phase = "idle" \/ op'[o].action = op[o].action)
    BY <1>7 DEF ResumeThread, IInv, TypeOK, Idle
  <2> QED
    BY <1>7, <2>1, <2>2, AwaitResume DEF ResumeThread, db, Taken, Deciding
<1>8. ASSUME NEW o \in Operators, CommitDecision(o)
      PROVE  /\ AwaitInv' /\ \A a \in Awaiting(audit) : ~ Taken(a) => audit'[a] = audit[a]
             /\ \A a : Taken(a)' => Taken(a)
  <2>1. \A p \in Operators : op'[p].phase # "idle" => op'[p] = op[p]
    BY <1>8 DEF CommitDecision, IInv, TypeOK, Idle
  <2> QED
    BY <1>8, <2>1, AwaitCommit DEF Taken, Deciding
<1>9. CASE UNCHANGED vars
  <2>1. UNCHANGED <<audit, op, run, graph, incident_status>>
    BY <1>9 DEF vars, db
  <2> QED
    BY <2>1, AwaitQuiet DEF Deciding, Taken
<1>10. UNCHANGED op => \A a : Taken(a)' => Taken(a)
  BY DEF Taken, Deciding
<1> QED
  BY <1>1, <1>2, <1>3, <1>4, <1>5, <1>6, <1>7, <1>8, <1>9, <1>10 DEF Next

LEMMA AwaitInductive == Spec => [](IInv /\ CapInv /\ AwaitInv)
<1>1. Init => AwaitInv
  BY AwaitInit
<1>2. IInv /\ CapInv /\ AwaitInv /\ [Next]_vars => AwaitInv'
  BY AwaitPreserved
<1>3. IInv /\ CapInv /\ [Next]_vars => CapInv'
  BY CapPreserved
<1>4. Init => CapInv
  BY CapInit
<1> QED
  BY <1>1, <1>2, <1>3, <1>4, ApprovalInductive, PTL DEF Spec

\* An incident is AWAITING_APPROVAL only while some row is, whatever requests
\* end up in which thread (run_investigation, resume_remediation_approval).
THEOREM WaitingHasAction == Spec => []AwaitingHasAction
<1>1. AwaitInv => AwaitingHasAction
  BY DEF AwaitInv
<1> QED
  BY <1>1, AwaitInductive, PTL

\* Two actions that wait at the same time, with no decision about them under
\* way, wait for ever: resume_remediation_approval insists on exactly one.
THEOREM AmbiguityStays == Spec => TwoWaitForEver
<1> DEFINE Stays == \A a, b \in Awaiting(audit) : a # b /\ ~ Taken(a) /\ ~ Taken(b) =>
                      {a, b} \subseteq Awaiting(audit') /\ ~ Taken(a)' /\ ~ Taken(b)'
<1>1. IInv /\ CapInv /\ AwaitInv /\ [Next]_vars => [Stays]_vars
  BY AwaitPreserved DEF Awaiting
<1> HIDE DEF Stays
<1>2. Spec => [][Stays]_vars
  BY <1>1, AwaitInductive, PTL DEF Spec
<1> QED
  BY <1>2 DEF Stays, TwoWaitForEver

(***************************************************************************)
(* Rows follow the answers                                                 *)
(***************************************************************************)
\* Of the rows there are, writing a thread's changes only that of an outcome.
LEMMA OutcomeRows ==
    ASSUME NEW rows \in [Actions -> Row \union {NULL}], NEW t \in Threads,
           NEW g \in Graphs, Coherent(g), Persisted(rows, t, g) # NULL,
           NEW a \in Actions, rows[a] # NULL, Persisted(rows, t, g)[a] # rows[a]
    PROVE  /\ g.result # "none" /\ a = Selected(t, g) /\ a \notin results
           /\ rows[a].status \in {"APPROVED", Outcome(g)}
           /\ Persisted(rows, t, g)[a].status = Outcome(g)
<1> DEFINE all == WithDecisions(rows, t, g)
           s == Selected(t, g)
           new == Persisted(rows, t, g)
<1>1. all \in [Actions -> Row \union {NULL}] /\ all[a] = rows[a]
  BY DecidedRows
<1>2. \/ new = all
      \/ /\ new = [all EXCEPT ![s].status = Outcome(g)] /\ g.result # "none"
         /\ all[s].status \in {"APPROVED", Outcome(g)} /\ s \notin results
  BY DEF Persisted, MayRecord
<1> HIDE DEF all, new, s
<1>3. g.result # "none" /\ new = [all EXCEPT ![s].status = Outcome(g)]
      /\ all[s].status \in {"APPROVED", Outcome(g)} /\ s \notin results
  BY <1>1, <1>2 DEF new
<1>4. a = s
  BY <1>1, <1>3 DEF new
<1>5. new[a].status = Outcome(g)
  BY <1>1, <1>3, <1>4 DEF Row
<1> QED
  BY <1>1, <1>3, <1>4, <1>5 DEF new, s

\* What may become of row a.
Follows(a) ==
    \/ audit'[a] = audit[a]
    \/ \E o \in Operators : Answered(o, a)
    \/ /\ audit[a].status # "AWAITING_APPROVAL" /\ a \in results' \ results
       /\ audit'[a].status \in {"SUCCEEDED", "FAILED"}

LEMMA PersistFollows ==
    ASSUME IInv, NEW t \in Threads, PersistRun(t), NEW a \in Existing
    PROVE  Follows(a)
<1> SUFFICES ASSUME audit'[a] # audit[a] PROVE Follows(a)
  BY DEF Follows
<1>1. PICK g \in Graphs : g = run[t].final /\ Coherent(g)
  BY DEF IInv, TypeOK, Thread
<1>2. /\ Persisted(audit, t, g) # NULL /\ audit' = Persisted(audit, t, g)
      /\ results' = WithResult(t, g)
  BY <1>1 DEF PersistRun
<1>3. audit \in [Actions -> Row \union {NULL}] /\ a \in Actions /\ audit[a] # NULL
  BY DEF IInv, TypeOK, Existing
<1>4. /\ g.result # "none" /\ a = Selected(t, g) /\ a \notin results
      /\ audit[a].status \in {"APPROVED", Outcome(g)}
      /\ audit'[a].status = Outcome(g)
  BY <1>1, <1>2, <1>3, OutcomeRows
<1>5. a \in results'
  BY <1>2, <1>4 DEF WithResult
<1>6. Outcome(g) \in {"SUCCEEDED", "FAILED"}
  BY DEF Outcome
<1> QED
  BY <1>4, <1>5, <1>6 DEF Follows

LEMMA CommitFollows ==
    ASSUME IInv, NEW o \in Operators, Remembers(o), CommitDecision(o), NEW a \in Existing
    PROVE  Follows(a)
<1> SUFFICES ASSUME audit'[a] # audit[a] PROVE Follows(a)
  BY DEF Follows
<1>1. PICK t \in Threads, g \in Graphs : t = op[o].thread /\ g = op[o].final /\ Coherent(g)
  BY DEF CommitDecision, IInv, Request, Left, TypeOK
<1>2. op[o].phase = "resumed"
  BY DEF CommitDecision
<1>3. PICK rows \in [Actions -> Row \union {NULL}] : rows = View(o)
  BY <1>2, ViewIsSound
<1> DEFINE new == Persisted(rows, t, g)
           mine == op[o].action
<1>4. /\ new # NULL /\ results' = WithResult(t, g)
      /\ audit' = [b \in Actions |-> IF new[b] = rows[b] /\ b # mine THEN audit[b] ELSE new[b]]
  BY <1>1, <1>3 DEF CommitDecision, Committed
<1>5. a \in Actions /\ audit[a] # NULL /\ rows[a] # NULL
  BY <1>2, <1>3, ViewIsSound DEF Existing
<1>6. new[a] # rows[a] =>
        /\ g.result # "none" /\ a = Selected(t, g) /\ a \notin results
        /\ rows[a].status \in {"APPROVED", Outcome(g)}
        /\ new[a].status = Outcome(g)
  BY <1>1, <1>3, <1>4, <1>5, OutcomeRows
<1>7. Outcome(g) \in {"SUCCEEDED", "FAILED"}
  BY DEF Outcome
<1> HIDE DEF new
<1>8. CASE a = mine
  <2>1. rows[a].status = Decided(op[o].answer) /\ op[o].answer \in Answers
    BY <1>2, <1>3, <1>8, ViewIsSound DEF IInv, Request
  <2>2. audit'[a] = new[a]
    BY <1>4, <1>5, <1>8
  <2>3. new[a].status \in IF op[o].answer = "REJECT" THEN {"REJECTED"}
                          ELSE {"APPROVED", "SUCCEEDED", "FAILED"}
    <3>1. CASE new[a] = rows[a]
      BY <2>1, <3>1 DEF Decided, Answers
    <3>2. CASE new[a] # rows[a]
      BY <1>6, <1>7, <2>1, <3>2 DEF Decided, Answers
    <3> QED
      BY <3>1, <3>2
  <2>4. Answered(o, a)
    BY <1>2, <1>8, <2>2, <2>3 DEF Answered
  <2> QED
    BY <2>4 DEF Follows
<1>9. CASE a # mine
  <2>1. new[a] # rows[a] /\ audit'[a] = new[a]
    BY <1>4, <1>5, <1>9
  <2>2. rows[a].status # "AWAITING_APPROVAL"
    BY <1>6, <1>7, <2>1
  <2>3. audit[a].status # "AWAITING_APPROVAL"
    BY <1>2, <1>3, <1>5, <1>9, <2>2 DEF Remembers, Deciding, View
  <2>4. a \in results' /\ a \notin results
    BY <1>4, <1>6, <2>1 DEF WithResult
  <2> QED
    BY <1>6, <1>7, <2>1, <2>3, <2>4 DEF Follows
<1> QED
  BY <1>8, <1>9

\* A row changes only by an answer to it, or by the outcome of an action that
\* waits no more: no session brings back the row it once read, and no answer
\* decides another action than its own (resume_remediation_approval).
THEOREM AnswersFollowed == Spec => RowsFollowAnswers
<1>1. IInv /\ AwaitInv /\ [Next]_vars => [\A a \in Existing : Follows(a)]_vars
  <2> SUFFICES ASSUME IInv, AwaitInv, Next, NEW a \in Existing PROVE Follows(a)
    OBVIOUS
  <2>1. CASE audit' = audit
    BY <2>1 DEF Follows
  <2>2. ASSUME NEW t \in Threads, PersistRun(t) PROVE Follows(a)
    BY <2>2, PersistFollows
  <2>3. ASSUME NEW o \in Operators, CommitDecision(o) PROVE Follows(a)
    BY <2>3, CommitFollows DEF AwaitInv
  <2> QED
    BY <2>1, <2>2, <2>3
      DEF Next, BeginRun, StartRun, RunGraph, RunRaises, FailRun, LoseRun, OpenAction, ReadIncident,
          CheckAwaiting, RecordDecision, ResumeThread, RequestFails, db
<1>2. Spec => [][\A a \in Existing : Follows(a)]_vars
  BY <1>1, AwaitInductive, PTL DEF Spec
<1> QED
  BY <1>2 DEF Follows, RowsFollowAnswers

=============================================================================
