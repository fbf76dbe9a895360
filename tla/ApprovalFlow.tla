---------------------------- MODULE ApprovalFlow ----------------------------
(***************************************************************************)
(* One incident, the investigations that run for it, and the operators who *)
(* approve or reject what they propose: investigation_service together     *)
(* with remediation_audit_service and the routes of api/routes.            *)
(*                                                                         *)
(* Four stores are shared by all of them: the incident's row, the audit    *)
(* rows of remediation actions (remediation_actions), their results        *)
(* (remediation_results, unique per action) and the checkpointed graph     *)
(* threads.  Of the graph only what an invocation leaves behind matters    *)
(* here: Invocation, which InvestigationGraph implements.                  *)
(*                                                                         *)
(* Sessions run at READ COMMITTED with an identity map: an entity keeps    *)
(* the values of its first read, and an UPDATE names only the columns that *)
(* differ from them.  So every session below remembers what it has seen.   *)
(* A flushed UPDATE locks its row until commit or rollback.                *)
(*                                                                         *)
(* Bounds.  An investigation is named by its thread and runs once.         *)
(* Remediation is enabled and all targets are allowlisted, so the policy   *)
(* itself rejects nothing (RemediationPolicy has the other cases).  An     *)
(* operator's request does not resume a thread in the middle of a run.     *)
(***************************************************************************)
EXTENDS Invocation, FiniteSets

CONSTANTS
    NULL,
    Threads,        \* investigations of the incident, each with its thread id
    Operators,      \* concurrent requests to the approve and reject endpoints
    Levels,         \* the values of auto_execute_max_safety_level to look at
    MaxAttempts,    \* remediation.max_remediation_attempts_per_incident
    MaxAuto         \* remediation.max_auto_remediations_per_incident

Statuses == {"AWAITING_APPROVAL", "APPROVED", "REJECTED", "SUCCEEDED", "FAILED"}
Row == [decision : Decisions, status : Statuses]

ASSUME ApprovalAssumption ==
    /\ NULL \notin Threads /\ NULL \notin Row
    /\ IsFiniteSet(Threads)
    /\ Levels \subseteq 0 .. 2
    /\ MaxAttempts \in Nat /\ MaxAuto \in Nat

VARIABLES
    level,            \* auto_execute_max_safety_level
    incident_status,  \* IncidentModel.status
    incident_thread,  \* IncidentModel.langgraph_thread_id
    audit,            \* the rows of remediation_actions, NULL where none exists
    results,          \* the actions with a row in remediation_results
    graph,            \* per thread: its checkpointed state
    run,              \* per thread: where run_investigation is
    op                \* per operator: where the request is

\* History variables: no action's guard reads them.
VARIABLES
    known,            \* per thread: the threads whose rows its run had counted
    approved          \* actions whose approval was committed

db == <<incident_status, incident_thread, audit, results>>
history == <<known, approved>>
vars == <<level, db, graph, run, op, history>>

\* An action is named by its thread and the position of its proposal.
Actions == Threads \X (1 .. MaxProposals)

PolicySettings ==
    [enabled |-> TRUE, auto_execute_max_safety_level |-> level,
     max_remediation_attempts_per_incident |-> MaxAttempts,
     max_auto_remediations_per_incident |-> MaxAuto]

NoRun == [phase |-> "new", seen |-> NULL, final |-> Unstarted]

\* A run whose session is gone: done, or lost.
Ended(phase) == [NoRun EXCEPT !.phase = phase]

Idle ==
    [phase |-> "idle", action |-> NULL, answer |-> NULL, thread |-> NULL,
     seen |-> NULL, final |-> Unstarted]

Init ==
    /\ level \in Levels
    /\ incident_status = "DETECTED"
    /\ incident_thread = NULL
    /\ audit = [a \in Actions |-> NULL]
    /\ results = {}
    /\ graph = [t \in Threads |-> Unstarted]
    /\ run = [t \in Threads |-> NoRun]
    /\ op = [o \in Operators |-> Idle]
    /\ known = [t \in Threads |-> {}]
    /\ approved = {}

(***************************************************************************)
(* _persist_remediation on the rows as a session sees them.                *)
(***************************************************************************)
\* remediation_all_policy_results: before the limits, empty when ineligible.
AllPolicyResults(g) ==
    IF g.policy_result = NoResult THEN <<>> ELSE AllResults(g.proposals, PolicySettings)

\* create_action_decision
NewRow(res) ==
    [decision |-> res.decision,
     status |-> CASE res.decision = "ALLOWED" -> "APPROVED"
                  [] res.decision = "APPROVAL_REQUIRED" -> "AWAITING_APPROVAL"
                  [] OTHER -> "REJECTED"]

\* MUTANT of WithDecisions: rows that exist are written again.
WithDecisionsRewritten(rows, t, g) ==
    [a \in Actions |->
       IF a[1] = t /\ a[2] \in DOMAIN AllPolicyResults(g)
       THEN NewRow(AllPolicyResults(g)[a[2]]) ELSE rows[a]]

\* Rows that exist are returned as they are.
WithDecisions(rows, t, g) ==
    [a \in Actions |->
       IF rows[a] = NULL /\ a[1] = t /\ a[2] \in DOMAIN AllPolicyResults(g)
       THEN NewRow(AllPolicyResults(g)[a[2]]) ELSE rows[a]]

Selected(t, g) == <<t, g.policy_result.proposal_id>>

\* MUTANT of Outcome: a result that was returned counts as success.
OutcomeReturned(g) == IF g.result # "none" THEN "SUCCEEDED" ELSE "FAILED"

Outcome(g) == IF g.result = "success" THEN "SUCCEEDED" ELSE "FAILED"

\* MUTANT of MayRecord: the lifecycle is not consulted.
MayRecordAnyStatus(status, target, a) == a \notin results

\* transition_action_status, from APPROVED by way of EXECUTING, and the unique
\* index of remediation_results.
MayRecord(status, target, a) ==
    /\ status \in {"APPROVED", target}
    /\ a \notin results

\* MUTANT of Persisted: an existing result is taken for the one to record.
PersistedIfNew(rows, t, g) ==
    LET all == WithDecisions(rows, t, g)
        a == Selected(t, g)
    IN  IF g.result = "none" \/ a \in results THEN all
        ELSE IF MayRecord(all[a].status, Outcome(g), a)
        THEN [all EXCEPT ![a].status = Outcome(g)]
        ELSE NULL

\* The rows afterwards; NULL when record_execution_result raises.
Persisted(rows, t, g) ==
    LET all == WithDecisions(rows, t, g)
        a == Selected(t, g)
    IN  IF g.result = "none" THEN all
        ELSE IF MayRecord(all[a].status, Outcome(g), a)
        THEN [all EXCEPT ![a].status = Outcome(g)]
        ELSE NULL

WithResult(t, g) == IF g.result = "none" THEN results ELSE results \union {Selected(t, g)}

\* MUTANT of NextStatus: an execution that succeeded resolves the incident.
NextStatusByResult(g) ==
    IF g.node = "await" THEN "AWAITING_APPROVAL"
    ELSE IF g.result = "success" THEN "RESOLVED" ELSE "REMEDIATION_PROPOSED"

\* MUTANT of NextStatus: the incident waits although the thread has ended.
NextStatusWaiting(g) ==
    IF g.policy_result.decision = "APPROVAL_REQUIRED" /\ g.result = "none"
    THEN "AWAITING_APPROVAL"
    ELSE IF g.validation = "passed" THEN "RESOLVED" ELSE "REMEDIATION_PROPOSED"

\* The pause, and _decide_terminal_status: there always are proposals.
NextStatus(g) ==
    IF g.node = "await" THEN "AWAITING_APPROVAL"
    ELSE IF g.validation = "passed" THEN "RESOLVED" ELSE "REMEDIATION_PROPOSED"

\* The UPDATE of a session that had seen `seen`.
StatusWritten(seen, status) == IF status = seen THEN incident_status ELSE status

(***************************************************************************)
(* run_investigation                                                       *)
(***************************************************************************)
Existing == {a \in Actions : audit[a] # NULL}

\* MUTANT of CountPrior: only automatic executions that succeeded count.
CountPriorSucceeded ==
    [attempts |-> Cardinality(Existing),
     auto_executions |-> Cardinality({a \in Existing : audit[a].decision = "ALLOWED"
                                                       /\ audit[a].status = "SUCCEEDED"})]

\* _count_prior_remediations
CountPrior ==
    [attempts |-> Cardinality(Existing),
     auto_executions |-> Cardinality({a \in Existing : audit[a].decision = "ALLOWED"})]

\* get_incident and the counts ...
BeginRun(t) ==
    /\ run[t].phase = "new"
    /\ run' = [run EXCEPT ![t].phase = "counted", ![t].seen = incident_status]
    /\ graph' = [graph EXCEPT ![t].prior = CountPrior]
    /\ known' = [known EXCEPT ![t] = {a[1] : a \in Existing}]
    /\ UNCHANGED <<level, db, op, approved>>

\* ... then the commit of INVESTIGATING and of the thread id, re-read after it.
StartRun(t) ==
    /\ run[t].phase = "counted"
    /\ incident_status' = StatusWritten(run[t].seen, "INVESTIGATING")
    /\ incident_thread' = t
    /\ run' = [run EXCEPT ![t].phase = "running", ![t].seen = incident_status']
    /\ UNCHANGED <<level, audit, results, graph, op, history>>

\* What an error makes of a run.  The failure record needs incident.id, and the
\* rollback before it expires the incident if a transaction is open: then the
\* read raises.  After the first commit the session has none until the graph
\* searches the memory on it, or the audit rows are read.
Failures == {"failing", "expired"}

RunGraph(t) ==
    /\ run[t].phase = "running"
    /\ \E outcome \in FromStart(graph[t], PolicySettings), failure \in Failures :
        /\ graph' = [graph EXCEPT ![t] = outcome.graph]
        /\ run' = [run EXCEPT ![t].phase = IF outcome.raised THEN failure ELSE "returned",
                              ![t].final = outcome.graph]
    /\ UNCHANGED <<level, db, op, history>>

\* Audit rows, result and incident in one commit; an error there has read rows.
PersistRun(t) ==
    /\ run[t].phase = "returned"
    /\ LET final == run[t].final
           rows == Persisted(audit, t, final)
       IN  IF rows # NULL
           THEN /\ audit' = rows
                /\ results' = WithResult(t, final)
                /\ incident_status' = StatusWritten(run[t].seen, NextStatus(final))
                /\ run' = [run EXCEPT ![t] = Ended("done")]
           ELSE /\ run' = [run EXCEPT ![t].phase = "expired"]
                /\ UNCHANGED <<audit, results, incident_status>>
    /\ UNCHANGED <<level, incident_thread, graph, op, history>>

\* Any other error inside the try block, before or after the graph; before it
\* the transaction of get_incident is open.
RunRaises(t) ==
    /\ run[t].phase \in {"counted", "returned"}
    /\ \E failure \in Failures :
        /\ run[t].phase = "counted" => failure = "expired"
        /\ run' = [run EXCEPT ![t].phase = failure]
    /\ UNCHANGED <<level, db, graph, op, history>>

\* MUTANT of FailureStatus: the status of the failed run is rolled back with it.
FailureStatusRolledBack == incident_status

\* The failure record, through a session of its own, of an incident that the
\* rollback did not expire.
FailureStatus == "FAILED"

FailRun(t) ==
    /\ run[t].phase = "failing"
    /\ incident_status' = FailureStatus
    /\ run' = [run EXCEPT ![t] = Ended("done")]
    /\ UNCHANGED <<level, incident_thread, audit, results, graph, op, history>>

\* The process dies (of the checkpoints of a running graph, the choice between
\* RunGraph's outcomes says which are left), or the database refuses the
\* failure record.
LoseRun(t) ==
    /\ run[t].phase \in {"counted", "running", "returned", "failing"}
    /\ run' = [run EXCEPT ![t] = Ended("lost")]
    /\ UNCHANGED <<level, db, graph, op, history>>

(***************************************************************************)
(* approve_incident_remediation, reject_incident_remediation and           *)
(* resume_remediation_approval: one session per request.                   *)
(***************************************************************************)
Awaiting(rows) ==
    {a \in Actions : rows[a] # NULL /\ rows[a].status = "AWAITING_APPROVAL"}

\* The route reads the action.
OpenAction(o) ==
    /\ op[o].phase = "idle"
    /\ \E a \in Awaiting(audit) :
         op' = [op EXCEPT ![o] = [Idle EXCEPT !.phase = "opened", !.action = a]]
    /\ UNCHANGED <<level, db, graph, run, history>>

\* get_incident
ReadIncident(o) ==
    /\ op[o].phase = "opened"
    /\ incident_status = "AWAITING_APPROVAL"
    /\ op' = [op EXCEPT ![o].phase = "read", ![o].thread = incident_thread]
    /\ UNCHANGED <<level, db, graph, run, history>>

\* What the session sees of the rows: its own action as it first read it.
Listed(o) == [audit EXCEPT ![op[o].action] = [@ EXCEPT !.status = "AWAITING_APPROVAL"]]

\* MUTANT of CheckAwaiting: one of them is the action of the request.
CheckAwaitingAny(o) ==
    /\ op[o].phase = "read"
    /\ op[o].action \in Awaiting(Listed(o))
    /\ op' = [op EXCEPT ![o].phase = "checked", ![o].seen = Listed(o)]
    /\ UNCHANGED <<level, db, graph, run, history>>

\* list_actions_for_incident: exactly one of them is waiting.
CheckAwaiting(o) ==
    /\ op[o].phase = "read"
    /\ Awaiting(Listed(o)) = {op[o].action}
    /\ op' = [op EXCEPT ![o].phase = "checked", ![o].seen = Listed(o)]
    /\ UNCHANGED <<level, db, graph, run, history>>

Locked(a) == \E o \in Operators : op[o].phase \in {"recorded", "resumed"} /\ op[o].action = a

Decided(answer) == IF answer = "APPROVE" THEN "APPROVED" ELSE "REJECTED"

\* record_approval_decision: the flush takes the row's lock.  (The answer came
\* with the request, but nothing depends on it before.)
RecordDecision(o) ==
    /\ op[o].phase = "checked"
    /\ ~Locked(op[o].action)
    /\ \E answer \in Answers :
         op' = [op EXCEPT ![o].phase = "recorded", ![o].answer = answer,
                          ![o].seen[op[o].action].status = Decided(answer)]
    /\ UNCHANGED <<level, db, graph, run, history>>

\* The graph is resumed; when it raises, the session is rolled back.
ResumeThread(o) ==
    /\ op[o].phase = "recorded"
    /\ run[op[o].thread].phase # "running"
    /\ \E outcome \in FromResume(graph[op[o].thread], op[o].answer, PolicySettings) :
        /\ graph' = [graph EXCEPT ![op[o].thread] = outcome.graph]
        /\ op' = [op EXCEPT ![o] = IF outcome.raised THEN Idle
                                   ELSE [@ EXCEPT !.phase = "resumed", !.final = outcome.graph]]
    /\ UNCHANGED <<level, db, run, history>>

\* The rows of the session: rows it has not seen yet are read afresh.
View(o) == [a \in Actions |-> IF op[o].seen[a] = NULL THEN audit[a] ELSE op[o].seen[a]]

\* Only what the session changed reaches the database.
Committed(o, rows) ==
    [a \in Actions |-> IF rows[a] = View(o)[a] /\ a # op[o].action THEN audit[a] ELSE rows[a]]

\* _persist_remediation, the incident's status and the commit; an error rolls
\* all of it back.
CommitDecision(o) ==
    /\ op[o].phase = "resumed"
    /\ LET t == op[o].thread
           final == op[o].final
           rows == Persisted(View(o), t, final)
       IN  IF rows # NULL
           THEN /\ audit' = Committed(o, rows)
                /\ results' = WithResult(t, final)
                /\ incident_status' = StatusWritten("AWAITING_APPROVAL", NextStatus(final))
                /\ approved' = IF op[o].answer = "APPROVE"
                               THEN approved \union {op[o].action} ELSE approved
           ELSE UNCHANGED <<audit, results, incident_status, approved>>
    /\ op' = [op EXCEPT ![o] = Idle]
    /\ UNCHANGED <<level, incident_thread, graph, run, known>>

\* A failed check (incident not waiting, not exactly one action, approval
\* overdue), a database error or a crash ends the request: rollback.
RequestFails(o) ==
    /\ op[o].phase # "idle"
    /\ op' = [op EXCEPT ![o] = Idle]
    /\ UNCHANGED <<level, db, graph, run, history>>

Next ==
    \/ \E t \in Threads :
        \/ BeginRun(t) \/ StartRun(t) \/ RunGraph(t) \/ PersistRun(t)
        \/ RunRaises(t) \/ FailRun(t) \/ LoseRun(t)
    \/ \E o \in Operators :
        \/ OpenAction(o) \/ ReadIncident(o) \/ CheckAwaiting(o) \/ RecordDecision(o)
        \/ ResumeThread(o) \/ CommitDecision(o) \/ RequestFails(o)

Spec == Init /\ [][Next]_vars

-----------------------------------------------------------------------------
(***************************************************************************)
(* Properties                                                              *)
(***************************************************************************)
IncidentStatuses ==
    {"DETECTED", "INVESTIGATING", "AWAITING_APPROVAL", "REMEDIATION_PROPOSED", "RESOLVED", "FAILED"}

\* Types.
TypeOK ==
    /\ level \in Levels
    /\ incident_status \in IncidentStatuses
    /\ incident_thread \in Threads \union {NULL}
    /\ audit \in [Actions -> Row \union {NULL}]
    /\ results \subseteq Actions
    /\ graph \in [Threads -> Graphs]
    /\ run \in [Threads ->
         [phase : {"new", "counted", "running", "returned", "failing", "done", "expired", "lost"},
          seen : IncidentStatuses \union {NULL}, final : Graphs]]
    /\ op \in [Operators ->
         [phase : {"idle", "opened", "read", "checked", "recorded", "resumed"},
          action : Actions \union {NULL}, answer : Answers \union {NULL},
          thread : Threads \union {NULL},
          seen : [Actions -> Row \union {NULL}] \union {NULL}, final : Graphs]]
    /\ known \in [Threads -> SUBSET Threads]
    /\ approved \subseteq Actions

\* The request resumed the thread of another investigation, whose start had
\* replaced the thread id of the incident.
Misdirected(o) == op[o].thread # op[o].action[1]

\* An outcome in the audit trail is final: no request that read the row earlier
\* and no run that ends late overwrites SUCCEEDED or FAILED; only a request for
\* the action that resumed another thread than the action's may do so.
OutcomesAreFinal ==
    [][\A a \in results :
        audit'[a] = audit[a] \/ \E o \in Operators : op[o].action = a /\ Misdirected(o)]_vars

\* An answer to a: a request for it that has resumed a thread, and what it
\* leaves the row as.
Answered(o, a) ==
    /\ op[o].phase = "resumed" /\ op[o].action = a
    /\ audit'[a].status \in IF op[o].answer = "REJECT" THEN {"REJECTED"}
                           ELSE {"APPROVED", "SUCCEEDED", "FAILED"}

\* Rows follow the answers: whatever a session saw of a row, the row changes
\* only by an answer to it, or by the outcome of an action that waits no more.
\* Nothing puts it back to AWAITING_APPROVAL, and no answer to another action,
\* stale or misdirected, decides it.
RowsFollowAnswers ==
    [][\A a \in Existing :
        \/ audit'[a] = audit[a]
        \/ \E o \in Operators : Answered(o, a)
        \/ /\ audit[a].status # "AWAITING_APPROVAL" /\ a \in results' \ results
           /\ audit'[a].status \in {"SUCCEEDED", "FAILED"}]_vars

\* The audit trail shows an approval-bound action as executed only together
\* with a committed approval of that very action.
OutcomeNeedsApproval ==
    \A a \in results : audit[a].decision = "APPROVAL_REQUIRED" => a \in approved

\* The audit trail does not invent outcomes: the recorded one is what the
\* thread of that action did, to the action its policy selected.
OutcomeIsTrue ==
    \A a \in results :
        /\ graph[a[1]].acted
        /\ Selected(a[1], graph[a[1]]) = a
        /\ audit[a].status = "SUCCEEDED" => graph[a[1]].result = "success"
        /\ audit[a].status = "FAILED" => graph[a[1]].result = "failure"

\* A resolved incident has an executed, recorded and validated remediation.
ResolvedIsValidated ==
    incident_status = "RESOLVED" =>
        \E a \in results : graph[a[1]].validation = "passed"

\* An incident that waits for an operator has an action to decide about.
AwaitingHasAction ==
    incident_status = "AWAITING_APPROVAL" => Awaiting(audit) # {}

\* Some request has found the action to be the only one that waits.
Taken(a) ==
    \E o \in Operators :
        op[o].phase \in {"checked", "recorded", "resumed"} /\ op[o].action = a

\* No answer is ever applied while it is unclear which action it is about: two
\* actions that wait, with no decision about them under way, are not decided by
\* any request, run or crash that follows (and so wait for ever).
TwoWaitForEver ==
    [][\A a, b \in Awaiting(audit) :
        a # b /\ ~Taken(a) /\ ~Taken(b) =>
            {a, b} \subseteq Awaiting(audit') /\ ~Taken(a)' /\ ~Taken(b)']_vars

\* What the threads' states show: an execution whose checkpoints a crash took
\* away is in no such state, and in no row that a later investigation counts.
AutoExecuted == {t \in Threads : graph[t].acted /\ graph[t].policy_result.decision = "ALLOWED"}

\* The ceiling on automatic executions holds for everything an investigation
\* could know: it acts by itself only if fewer than the allowed number of the
\* investigations recorded before it began did so.
CapOnKnownExecutions ==
    \A t \in AutoExecuted : Cardinality(known[t] \intersect AutoExecuted) < MaxAuto

\* An incident that is INVESTIGATING has the run whose thread id it carries at
\* work, or that very run ended in one of two ways that nothing records: by an
\* error after which the incident was expired, or with its process.  Whatever
\* else fails, whichever run or request writes last, the end of that run shows.
InvestigatingHasRun ==
    incident_status = "INVESTIGATING" =>
        /\ incident_thread # NULL
        /\ run[incident_thread].phase \in {"running", "returned", "failing", "expired", "lost"}

\* What the comment on the failure record says: it survives however the
\* caller's session ends.  No incident stays INVESTIGATING after an error.
FailureIsRecorded ==
    incident_status = "INVESTIGATING" => run[incident_thread].phase # "expired"

\* What the comment on the lifecycle says: no jump from REJECTED to APPROVED.
RejectedStaysRejected ==
    [][\A a \in Actions :
        audit[a] # NULL /\ audit[a].status = "REJECTED" => audit'[a].status = "REJECTED"]_vars

\* What the setting's description says: a hard cap on automatic executions per
\* incident.
AutoCap == Cardinality(AutoExecuted) <= MaxAuto

=============================================================================
