# FaultWarden in TLA+

FaultWarden receives Prometheus alerts, opens incidents, investigates them with
an LLM-driven LangGraph workflow, and remediates what a deterministic policy
allows, with or without an operator's approval. This directory holds TLA+
modules of the parts whose behaviour depends on order, concurrency and failure,
TLC configurations that check them on small instances, and TLAPS proofs about
them. Paths below are relative to the Python package
`src/src/faultwarden/` unless they begin with `docs/`.

## 1. The system

| Part | State it keeps | Operations | Interacts with | What is hard |
| --- | --- | --- | --- | --- |
| Alert ingestion (`services/alert_service.py`, `POST /incidents` of `api/routes/incidents.py`) | incident per alert fingerprint | firing, resolved, posted by a client | incident service, job table, background tasks | two deliveries at once; resolved after the incident left the active states; a posted incident that no webhook looked up |
| Job queue (`services/job_worker.py`, `db/models/job.py`) | `investigation_jobs`: status, attempts, `available_at`, lease | claim, process, settle, retry | every durable worker, the background task, the manual trigger | leases that run out under a slow worker, crashes, several writers without a common lock |
| Background task (`run_background_investigation`) | the same row | run, complete, fail | job queue, investigation service | reads the row without a lock or lease; dies with the API process |
| Investigation service (`services/investigation_service.py`) | incident status, thread id | `run_investigation`, `resume_remediation_approval` | graph, audit trail, incident row | minutes between reading and writing; failure record through another session, after a rollback that expires what it reads |
| Investigation graph (`graph/builder.py`, `graph/nodes/`) | checkpointed thread | 15 nodes, pause, resume | providers, policy, executors | the LLM may answer anything; errors and crashes between two checkpoints |
| Remediation policy (`core/policy.py`, `graph/nodes/remediation_policy.py`) | none (pure) | eligibility, evaluation, ranking, limits | graph | order independence, boundaries |
| Audit trail (`services/remediation_audit_service.py`) | `remediation_actions`, `remediation_results` | decision, approval, result, validation | investigation service, API | status checked on a value read earlier |
| Executors, recovery validation (`integrations/executors/`, `services/recovery_validator.py`) | none of their own | reset, restart, verify, with retries | graph, target, Prometheus | acted, but the answer is lost; processed after the timeout; repeated after a crash |
| Demo target (`demo_service/app/main.py`, beside the package) | error mode, pool size, idempotency keys, counters, all in memory | inject, reset, deploy | executors, validators, operators | several callers; a restart forgets the keys |
| Change providers (`integrations/change/`) | git's and the registry's | list, merge, sort, cut | graph | one bad record or timestamp loses them all |
| Change correlation (`core/causality.py`, `graph/nodes/correlate.py`, `verify.py`) | none (pure) | scoring, promotion gate | graph | boundaries |
| Memory and postmortems (`services/memory_service.py`, `postmortem_service.py`) | memories, postmortems | index, generate | investigation service | idempotence under concurrent indexing |
| HTTP API, providers, configuration, telemetry | | input and output | | |

What makes each part correct, in one line: the queue hands a job to one worker
per lease, bounds its retries and settles it; the graph executes only what is
grounded in evidence and authorised, once, and comes to an end; the policy
selects what its criteria say, and neither history nor order adds authority; the
audit trail and the incident say only what really happened; an investigation
does not leave its incident in an intermediate state; a reset takes effect once
per key and is reported and validated truly; a change is promoted to a cause
only if it really preceded the incident and shares its symptoms.

`PROJECT.json` lists the components with their files, and under `hazards` each
of the places where these properties could be lost.

## 2. The modules

```
RemediationPolicy          ChangeCausality    pure operators
   |             \            |
Invocation        \---- MCDecisions           what an invocation may leave; every input of bounded spaces
   |        \
   |         \
InvestigationGraph   ApprovalFlow             one thread / an incident with its runs and operators
   |     \              |
   |      \           MCApprovalFlow
   |       InvestigationThread                (implemented by InvestigationGraph)
MCInvestigationGraph

RemediationPolicy -- RemediationPolicyProofs -- InvestigationGraphProofs -- InvestigationGraph
                              |          \
                        DecisionProofs   ApprovalFlowProofs -- ApprovalFlow
                              |
                         MCDecisions

JobQueue -- MCJobQueue                    Recovery -- MCRecovery
   |                                         |     \
JobQueueProofs                      RecoveryProofs  ResetService   (implemented by Recovery)
AlertIngestion -- MCAlertIngestion        MemoryIndex -- MCMemoryIndex
   |                                         |
AlertIngestionProofs                      MemoryIndexProofs
```

### JobQueue

State: one row per job (`status`, `attempt_count`, `due` = `available_at` − now,
`lease` = `lease_expires_at` − now); where each worker is in
`run_once`/`process_job`; where the background task of each alert is; whether a
manual investigation runs. Counting time down keeps the state finite without a
clock.

`ClaimNextJob` is one step because `FOR UPDATE SKIP LOCKED` holds the row from
the query to the commit. Settling is two (`ReadJob`, `SettleJob`): the code
reads the row in a new transaction without a lock, and its UPDATE names only the
columns that differ from what it read. The background task is split at every
statement whose effect another process can see, its failure handler included,
which also runs when the commit of COMPLETED fails (`BackgroundCommitFails`).
`WorkerCrash` and `ServerCrash` may strike anywhere. `ServiceWired` tells the
two ways a `JobWorker` is used apart: with an investigation service handed in
(tests), or as `run_once` calls it, building one without an incident service.

### RemediationPolicy

`EvaluatePolicy`, `EvaluateAndRank`, `EnforceLimits`, `Decide` and
`CheckEligibility` are the functions of the same names. Proposals keep their id,
action type and target; the cause is reduced to what the keyword search makes of
it. The LLM's `proposed_risk` and `requires_approval` do not occur because the
code never reads them here.

### ChangeCausality

From the providers' answers to a verified cause, as pure operators:
`GitChanges`, `DeploymentChanges` and `RecentChanges` (what is asked, merged,
sorted and cut, and what one invalid record or one timestamp without a time
zone does to the rest). A list is filtered, sorted and cut by its positions: an
order is a set of pairs of them (`Listed`, `NewestFirst`), the first n are those
of rank below n, and `Arranged` puts the list together again; what these do can
be proved for lists of any length. The registry is the demo service's
`GET /deployments`; that its records may be invalid or without a time zone comes
from the configurable endpoint, behind which another service may answer. Then
`Correlate` (the four pieces of the temporal score, the
weights, the candidate flag), and `CausalChanges` (the gate of
`verify_hypothesis_node`). Scores are exact integers over the common denominator
135000 of the pieces; texts are reduced to the symptom clusters they have
keywords of. `MCDecisions` chooses an input of the policy, of the collection or
of the judgement, and applies the operators to it in one step (`DecideOn`,
`CollectOn`, `JudgeOn`).

### InvestigationGraph

One thread: the pending node, the fields of the state that routing and policy
depend on, and `trail`, the checkpoints written since the pause. An invocation
that raises keeps them all (`Raise`); a process that dies may lose the newest
(`Crash` with `Restore`), since checkpoints are written asynchronously. `Resume`
hands an operator's answer to a thread, at whatever node it stands. Before the
first pause a broken thread is abandoned, because a new investigation draws a new
thread id. Execution is two steps (`ExecuteRemediation`, `ExecutorReturns`), so
that an error or a crash can fall between the change of the target and the
record of it.

`left` is the thread as its callers see it (`Seen`): what the last invocation
left behind. For `executions` it keeps that the executor was called, even if the
checkpoints that say so are lost.

### Invocation and InvestigationThread

`Invocation` is the graph reduced to what its callers can tell of it:
`FromStart` and `FromResume` give, as sets of `[raised, graph]`, every way in
which an invocation may leave a thread that it found in a given state. An error
leaves the thread at the node it struck (`Raised`), a death of the process at
some earlier one, but what the executor did is done (`OrBroken`).
`InvestigationThread` makes a specification of it: invocations, one after the
other, each taking the thread from where it stands to one of those outcomes.
InvestigationGraph implements it (`ImplementsThread`), so that ApprovalFlow,
which is built on the same operators, is about the graph that InvestigationGraph
describes node by node, and not about a second idea of it.

### ApprovalFlow

One incident with several investigations (each named by its thread) and operators'
requests. Four stores are shared: the incident row, the audit rows, the result
rows and the threads. `run_investigation` is `BeginRun` (incident and history are
read), `StartRun` (the commit of INVESTIGATING and of the thread id), `RunGraph`,
`PersistRun` (audit rows, result and status in one commit), with
`RunRaises`/`FailRun`/`LoseRun` for errors, the failure record and a process that
dies (or a record that the database refuses). An error leads to one of two phases,
`Failures`: the handler rolls the session back, and if a transaction was open the
incident is `expired` by that, so that the handler itself raises before it records
anything; only from `failing` does `FailRun` follow. No transaction is open when
the graph raises before it reads memories; one is open when `PersistRun` raises,
which has read rows. A request is `OpenAction`, `ReadIncident`, `CheckAwaiting`,
`RecordDecision` (the flush that locks the row), `ResumeThread`, `CommitDecision`,
and `RequestFails` anywhere. Every session remembers what it has read, as the
ORM's identity map does, and writes only what differs from it; that is where stale
decisions come from. What a graph invocation may leave behind is said by
Invocation.

### Recovery and ResetService

Runs (threads of any incidents, one action each) that share the target. The
target is modelled from its source: `error_mode`, `small_pool`, its table `keys`
and its 5xx counter; Prometheus as the answer (`rate`) of the one query that the
validator asks, with scrapes, the first increment of a series that `rate()` does
not see, and the window that passes. `RestartTarget` loses all that. A run is
`Execute`, `Inspect`, then for a reset the POST: `ResetProcessed`, or
`ResetUnprocessed`, which may leave the request on its way (`in_flight`) when the
client gives up on it, so that `ResetProcessedLate` may follow at any time.
`RetryOrGiveUp` is the bounded loop of `_request_with_retry`. `Stop` is an error
that no executor catches or the end of the process, with or without the
checkpoint of a result; `Resume` continues at the node that has none, with the
same key. `Delay` and `Check` are the validation, one request per check. Which
validator is used is part of the initial state (`Setups`): the service always
configures `check_remediation_recovered`; `RecoveryValidator` is what the node
takes when nobody configured one. A restart action is a simulation that ends
with a good `/health`; that is what the code does.

`ResetService` is what all this is for, without requests: a caller's reset takes
effect at most once in a life of the service, and a caller is told of success
only if it did. The refinement maps `effects` to the number of times that a
run's reset was applied, and `answer` to the results of the runs that reset.

### AlertIngestion

The incidents of one fingerprint (different ones share no row) and the requests
that are processed at the same time: webhooks, and clients that post an incident
with this fingerprint (`PostIncident`: inserted without a lookup and without a
job, with whatever status the client gives). A webhook is a lookup (`Lookup`, the two
`find_..._by_fingerprint` queries) and a later write (`CreateIncident` with the
job in the same commit, or `UpdateIncident`), or fails in between. Incidents are
numbered in the order of `created_at`, the start of the inserting transaction,
because the queries order by it. `Investigation` stands for all status writes of
ApprovalFlow, including those that reopen a terminal incident; `CreateIncident`
is where JobQueue's `Enqueue` comes from. `auto_investigate` has its default,
TRUE: the only route that calls `process_alertmanager_webhook` passes nothing else.

### MemoryIndex

The postmortem and the memory of one incident, and the runs (of
`run_investigation` or `resume_remediation_approval`) that execute an action on
it. `Execute`, `Validate` and `CommitRun` stand for what ApprovalFlow has in
detail. The rest is the second transaction of a run that resolved the incident,
`_generate_postmortem_and_memory`, split at its awaits: the idempotency guard
(`FindPostmortem`), the audit rows and the LLM's prose (`DraftPostmortem`), the
flush (`InsertPostmortem`), the gate and the query of the memory
(`DraftMemory`), the embedding (`EmbedFails`), its flush (`InsertMemory`) and
the commit (`CommitRecords`). Both tables have a unique index on the incident:
an INSERT waits while another session's row is pending (`new_postmortem`,
`new_memory`) and raises if that row is committed. Queries see committed rows
only. `started` and `validated` give the order of the two `started_at` columns,
by which the documents choose the rows they quote. Not every validation has a
row: the validator that the service configures answers TRUE or FALSE, and only
one that reports its signals leaves a row (`Validate`); without any row the
documents say a fixed sentence (NULL). A document keeps which runs it is about
and which it quotes. `generate_postmortem_for_incident` and
`index_memory_for_incident` are called by nothing and left out.

The state also has history variables (`saw`, `posted`, `revived`; `ran`,
`investigated`, `overran`, `crashed`; `given`, `executions`, `left`; `known`,
`approved`; `lost` of MemoryIndex; `applied`, `ever_applied`, `reinjected`,
`failed` of Recovery), which no guard reads.

## 3. The runs

| Run | Shows |
| --- | --- |
| `job_queue` | Claims are exclusive and retries bounded as long as no lease runs out under a worker; no interleaving leaves a RUNNING row to nobody without a crash; COMPLETED means a graph run succeeded; a PENDING job is settled, or a crash took its lease or last attempt. |
| `decisions` | The composite sort key selects what the documented criteria select one after the other, whatever the order of the LLM's list; more history never adds authority, and a lower automatic level none to execute without asking; a change in the window reaches the investigation or is kept out in one of the ways that the property names; the promoted changes are exactly those that a definition without scores calls causal. |
| `investigation_graph` | With three iterations, any answers and two errors or crashes: execution needs a verified, grounded cause and an authority; each extra execution costs an error or a crash; no "Routing invariant violation" is reachable; each invocation leaves the thread in a state that Invocation lists; every invocation returns. |
| `approval_flow` | Two investigations and two operators: a recorded execution of an approval-bound action has a committed approval, recorded outcomes are true and final, a RESOLVED incident has a validated remediation, an incident that waits has something to decide, two actions that wait undecided are never decided (no answer is applied while it is unclear which action it is about), a row changes only by an answer to it or by the outcome of an action that waits no more, an incident is INVESTIGATING only by the run whose thread it carries, which is at work, about to record its failure, or ended with its process or by an error that expired the incident, and an investigation never exceeds the automatic ceiling by its own knowledge. |
| `recovery` | Two runs on one target, each combination of lost, late, repeated and stored answers, a restart, new injections and a stop: the resets implement ResetService; a passed validation of a reset is true of the target unless somebody injected errors after the check; RecoveryValidator passes nothing without data; every execution with its validation ends. |
| `alert_ingestion` | Two incidents of one condition take firing alerts together only if the requests that inserted them overlapped, one was reopened, or a client posted one on top of the other; a resolved alert is never marked firing again, although firing webhooks write that column; a resolved webhook leaves nothing firing that it could have found, but twins, reopened incidents and those over which the one it found was posted; whatever takes firing alerts has a job or was posted by a client. |
| `memory_index` | However runs overlap and fail: a memory tells of a validated recovery and never stands without its postmortem; a postmortem's history has the run it is about, and it quotes no later remediation, nor a later or failed validation if that run's left a row; what a memory names as the action did not fail; the first record stands; a resolution is recorded unless its run fails, even if the embedding fails or another run's INSERT wins. |
| `job_queue_unwired`, `reject_never_executes`, `rejected_stays_rejected`, `auto_cap`, `failure_record_lost` | Each refutes a sentence of the documentation or of a comment; see section 5. |

**Bounds, and why they are enough.** *Queue*: one job and two workers suffice for
every race about a row, since jobs share nothing but the order of claims; a lease
of 2 is long enough to be renewed, to expire under a worker and to expire without
one; three attempts are the default; one crash, with restarts at will. `AgeBound`
is 0: with one job the age of a due job orders nothing. The proofs remove these
bounds for the safety properties. *Decisions*: lists of up to three proposals
contain every pair and every tie; counts and ceilings go from below to above each
other; up to three deployments and two commits with a limit of one or two exceed
it in each provider and in the merge, with times before, at the end of and after
the window, with records that are invalid, lack a time zone or are another
service's; two changes stand on either side of every boundary of the score, and
the two thresholds below and above what the symptoms alone earn. *Recovery*: two
runs are the least in which a reset meets another one's injection, answer or late
request; one retry gives a first, a repeated and a last attempt; one stop gives a
repeated execution; two resets, or a reset and a restart. The proofs remove these
bounds for the safety properties and the refinement. *Graph*: confidences 0..2
with thresholds 1 and 2 have values below, between and at them; three iterations
give a first, a middle and a last one; two faults allow a fault during the
recovery from a fault; the ceilings are two attempts, one of them automatic, so
that each can be reached without the other. The proofs remove these bounds for the
safety properties. *Approval flow*: two investigations and two requests are the
least in which a stale read meets a commit of either kind; lists hold an action
bound to approval alone, or next to one that may be automatic; all threads and all
operators are alike (symmetry, safety only). The proofs remove these bounds for
all properties. A request does not resume a thread that a run is executing at that
moment. *Ingestion*: two requests and three incidents give every pair of
overlapping lookups and writes, before and after a third row; the proofs remove
the bound. *Memory*: with two runs either may resolve the incident before, after
or while the other does, or leave an earlier or later result, and each may lose
its row to the other's; the proofs remove the bound for the safety properties.

**Fairness.** A worker that runs keeps polling and finishes what it claimed,
background tasks finish, and time passes (`run_loop` polls for as long as the
process lives; all calls in it have timeouts). Graph nodes go on for the same
reason. So does the writing of the records after a resolution: the clients of
the LLM and of the embeddings have timeouts, and a blocked INSERT resumes when
the other transaction ends. A run on the target goes on (`RunStep`), since each
of its requests ends with its timeout and its delay with the sleep; the target
and Prometheus owe it nothing. ApprovalFlow assumes no fairness: instead of
saying that an INVESTIGATING incident is settled, it says who should do it
(`InvestigatingHasRun`). No operator is obliged to answer,
no alert to arrive, nobody to crash. A crash is always allowed, and the liveness
properties name it as the only excuse.

Deadlock is not checked: all of these systems may rightly come to rest (all jobs
settled, a thread ended, an incident decided).

## 4. What is proved

`JobQueueProofs` proves for every set of jobs and workers, every lease length,
retry limit and number of crashes, from `JobQueueAssumption` alone:

- `TypeCorrect`: `TypeOK` (which no run has to check any more);
- `Inductive`: the inductive invariant `IInv`;
- `ClaimsExclusive`, `RetryBudget`, `NoAbandonedJob`, `CompletionIsEarned`: the
  properties `OneClaimPerLease`, `AttemptsBounded`, `RunningHasProcessor` and
  `CompletedMeansInvestigated`.

`AlertIngestionProofs` proves, for any number of requests and incidents, from
`IngestionAssumption`: `TypeCorrect`, `Inductive`, and with `DuplicatesOverlapped`,
`FiringHasInvestigation`, `NoRefiring` and `ClearingIsComplete` the properties
`DuplicatesAreTwins`, `FiringIsInvestigated`, `ResolvedAlertStaysResolved` and
`ResolvedClearsFiring`. The core of its invariant is that a row a lookup passed
over is `Quiet` (terminal, reopened or with its alert resolved) and stays so:
the rows an inserting webhook saw therefore never take firing alerts again
(`SawQuiet`), and two that do cannot have seen each other. Of a row that a client
posted nothing of this holds, since no lookup came before it: `SawQuiet` and
`FiringHasJob` leave those out, and the theorems name them. `Numbered` and
`Distinct` say that `created_at` orders the rows as the lookups do, `Handled`
what a request may still rely on when it writes, and `FiringHasJob` is
`FiringIsInvestigated` without the status, since statuses may come back.

None of the queue's properties is inductive by itself. A claim is exclusive because a
job in a worker's hands is neither PENDING nor under an expired lease, which
must be kept against every other writer of the status: `HeldUnderLease`. The
retry budget needs that the `attempt_count` a worker read is still the current
one when it commits (the same conjunct) and that a PENDING row has an attempt
left (`AttemptsLeft`), because the claim query does not test `max_attempts` for
PENDING rows. A RUNNING row has a processor only if one of them will really
write the status, and an ORM that omits unchanged columns may not:
`RunningHasWriter` says that the one committing has read RUNNING. `WorkerLocals`
ties the workers' and background tasks' local success flags to what was
investigated. The preservation proof has one step per action and one below it
per conjunct; all but the type invariant assume that no lease overran.

`MemoryIndexProofs` proves for any finite set of runs, from `RunsAssumption`:
`TypeCorrect`, `Inductive`, and with `OnlyRecoveriesRemembered`,
`PostmortemsAreComplete`, `FirstStands` and `ActionsAreNamed` the properties
`MemoryIsEarned`, `PostmortemIsComplete`, `FirstRecordStands` and
`MemoryNamesItsAction`. That a memory has its postmortem
does not follow from itself: a session carries `postmortem.id` over an await and
several reads before it writes it. `Linked` says that the row with this id is
committed or pending in the same transaction, `Pending` that a pending row
excludes a committed one, so that the commit overwrites nothing; `Recovered` that
only committed, validated recoveries get there. The quotations need a second
invariant, `Tells`: what a row says of the order of the runs (`Told`) stays true
because committed runs execute and validate no more (`ToldStays`). `Names` is of
the same kind: from its draft on, a memory's run is one that passed, its action
one that succeeded and its failures did fail, which stays so because the outcomes
of committed runs are settled (`NamedStays`).

`RecoveryProofs` proves for any set of runs, any number of retries and stops, and
both validators, from `RecoveryAssumption`: `TypeCorrect`, `Inductive`, with
`RealRecovery` and `DataBackedVerdict` the properties `RecoveryIsReal` and
`VerdictNeedsData`, and with `Refinement` that Recovery implements ResetService
(`ResetsOnce`). Its invariant has three parts that do not depend on each other.
`Keyed`: the target's table has a key just when that run's reset was applied once
in this life; this makes a stored answer, a repetition and a late request
harmless, and is what the refinement rests on (`ResetKeyed`, `Effect`,
`Telling`). `Settled`: between the check of the target and the verdict a run
that is still `healthy` has a target without errors, or somebody is to blame
(`reinjected`), which no step of another run undoes. `Counted`: what Prometheus
answers comes from a failed request. The lemmas on `Answered` say once what an
executor's answer, or its lack, does to a run; each preservation proof has a step
per action. Apart from the induction, the theorem about the refinement has one
step per action: injection and restart map to their own, what answers or
processes a reset to `Reset`, the rest to a stutter.

`RemediationPolicyProofs` proves of the policy, for proposal lists of any length
and any ceilings: `RankingHasHead`, that the sort key has a least candidate
(taken from the well-foundedness of the natural numbers, since a list cannot be
inducted over here), without which a CHOOSE would be empty talk;
`DecisionIsLimited`, that a decision names one of the proposals, is never more
than REJECTED for a pipeline that is disabled, a foreign target or an exhausted
ceiling, and ALLOWED only up to the automatic level and ceiling; and
`AuthorityNeverGrows`, the general form of `AuthorityMonotone`. (The lemma
`DecisionIsEvaluated` says that the limits only take away.) The last theorem was
first stated too strongly: bounds too small for the two ceilings to differ had
let it pass, and the proof failed on a lower automatic level (section 5).

`DecisionProofs` proves the four properties of `MCDecisions`, each from a theorem
about inputs without bounds. `HeadIsBest` (for `SelectionIsBest`): over lists of
any length the head of the sorted candidates is what filtering by suitability,
level and id leaves over, and nothing else; distinct ids make the order of the
list irrelevant. `AuthorityNeverGrows` gives `AuthorityIsMonotone`.
`PromotedIffCausal` (for `PromotionEarned`): for every integer time, any evidence
and threshold, and whatever evidence arrived since the correlation, the gate of
`verify_causal_change_association` after `correlate_change_with_incident` lets a
change through if and only if `IsCause`, which mentions a score only for
thresholds above 75 hundredths; `RelevanceOfTime` does the arithmetic of the five
pieces of the score once. `CollectionIsComplete` (for `ChangesCollected`): for any
registry, any log and any limit, a change in the window is collected, or as many
no older ones fill the limit, or it is lost in a way that `DeploymentLost`,
`CommitLost` or `AllLost` names, provided only that commits and deployments have
ids of their own (`Collectable`). The lemmas below it are about ranks in any
strict total order: `RanksFollow` and `RanksFill` make them a bijection with an
interval, from which `FirstAreAsMany` and `ArrangedInOrder` follow. (Operators
that filter and sort sequences recursively would be out of the prover's reach.)
The invariant of the specification (`Follows`) only says that the output is what
the nodes make of the input.

`InvestigationGraphProofs` proves for any scale and thresholds of confidence, any
number of iterations, proposals, errors and crashes, from `GraphAssumption`:
`GraphInductive`, `GraphTypes` (`TypeOK`), and with `RoutingHolds`,
`GroundedAlways`, `AuthorisedAlways` and `OneActionAlways` the properties
`RoutingInvariant`, `ExecutionGrounded`, `ExecutionAuthorised` and
`OneActionPerThread`. Since a crash may put the thread back to any checkpoint
since its pause while answers and executions stay, what the pending node
presupposes must be invariant for the nodes of all those checkpoints (`Routed`).
`Judged` says that the policy decides once, with what the decision rests on
(`DecisionIsLimited` is used here), which no later node or restored checkpoint
changes; `Earned` that a root cause is a verified hypothesis. `Executed` counts: a
thread that may still execute without another fault (`MayExecute`) has an execution
to spare. `Looped` is the bound of the loop at the one node that advances it.
`BeforePolicy` and `AfterPolicy` treat all nodes before the decision, and all
steps after it, alike.

Its theorem `ThreadRefinement` says that InvestigationGraph implements
InvestigationThread (`ImplementsThread`), from the same assumptions. A step of a
node is inside an invocation and maps to a stutter; a resume to a resume; what ends
an invocation (a pause, the end, an error, a crash) to `Finish`, and must be shown
to be one of the outcomes that the operators list for the state that this
invocation *found*. So the invariant has to remember the beginning: `Tracked`
relates each place a thread may stand at to `left` (`Stands`: who stands at the
execution node was `Entitled` to get there, by the policy in a first invocation, by
an approval, or by having been left there; who stands at the end executed, or found
the target as it is now, `Untouched`). As in `Routed`, all of this is said of the
checkpoints a crash may go back to as well, which is why it does not mention what
is done since. Three lemmas carry the theorem: `TrackedStep` (it is inductive),
`EntitledOutcomes` and `Shown` (what stands is what some outcome shows).
`Exactly` restates what the operators do with EXCEPT as membership in sets of
records, a form that the provers follow.

This refinement was false when it was first stated. ApprovalFlow used to let an
invocation that broke off leave the thread at the approval node, or before it, only
with the target unchanged; but a crash may lose the checkpoint of the approval *and*
that of the execution, while the target is reset. Since `OrBroken` has these
outcomes, all theorems about ApprovalFlow hold with them. What the model is not asked:
the thread of a first invocation that dies is `abandoned` in InvestigationGraph, as
its own incident never resumes it; a misdirected request may, and that is covered by
ApprovalFlow alone (`FromResume` at gather).

`ApprovalFlowProofs` proves for any number of investigations, requests and
proposals, any automatic levels and ceilings, from `ApprovalAssumption`:
`ApprovalInductive`, `ApprovalTypes` (`TypeOK`, which no run has to check any
more), and with `OutcomesApproved`, `OutcomesTrue`, `ResolvedValidated`,
`InvestigatingIsWorked` and `OutcomesFinal` the properties `OutcomeNeedsApproval`,
`OutcomeIsTrue`, `ResolvedIsValidated`, `InvestigatingHasRun` and
`OutcomesAreFinal`. The difficulty is that sessions write what they saw. `Request`
says what survives in a session that read long ago: rows do not disappear or
change their decision, an approval they claim is committed, an outcome they show
is recorded (`ViewIsSound`). `Left` says the same of the state with which an
invocation returned: a thread at its end stands still, but one that paused may
have been resumed by somebody else meanwhile. Both hold because no step goes back
behind what `Ahead` lists. `Written` is what the two ways to write rows have in
common, so that each property is shown once to survive a write (`TrailWritten`).
An outcome is true because only a thread at its end has one (`Coherent`), and
final because recording another needs that its action has none (`CommitWrites`),
where a misdirected request shows as the one exception. `Worked` strengthens
`InvestigatingHasRun`: the run whose thread the incident carries will overwrite
the status since it has *seen* INVESTIGATING (an ORM that omits unchanged columns
would otherwise leave it), or it has failed. That it may fail without a record
(`expired`) is part of the statement, and run `failure_record_lost` shows that it
happens.

For `CeilingHolds` (`CapOnKnownExecutions`) the invariant `CapInv` is added. The
policy compares a number that was counted before the run; the property speaks of
what the counted investigations execute, perhaps long after. `Shown` links them:
a thread with rows has its decision behind it, and if this lets it execute by
itself, the row of the selected action says ALLOWED already (`Granted`: that row
says what was decided, since the limits only take away). So those executions map
injectively to rows that were counted (`CapBegin`).

`WaitingHasAction` (`AwaitingHasAction`) needs a third part, `AwaitInv`. An
incident waits because a run, or a request, wrote that a thread had paused; the
row of that thread's question should then be AWAITING_APPROVAL. What is in the
way is a misdirected request: it may have resumed this thread, written its rows
and ended it before the caller of the first invocation writes (`Exposed`). The
row of the question is then written by somebody else, and must be shown still
undecided when the incident is set to wait. It is, because nobody can decide it
before (`Undecided`): either the incident does not wait, so that no request gets
past `ReadIncident`, or another action waits as well, and then `CheckAwaiting`
fails for both (`Stuck`). Being stuck lasts, which is the action property
`TwoWaitForEver` (`AmbiguityStays`): no run and no request, misdirected, failing
or late, decides one of two actions that wait undecided, since `Remembers` keeps
every session that has passed the check from bringing back an old row. `OnePause`
says that a pause has one caller who may write it.

`AnswersFollowed` (`RowsFollowAnswers`) is the other side of `Remembers`: a session
writes no row back that it only read. `PersistFollows` and `CommitFollows` treat the
two ways to write rows. Rows that exist are returned as they are, so the one row a
thread changes is that of its outcome, which `MayRecord` lets through only if it
waits no more and has none (`OutcomeRows`); that its row does not wait in the
session's view means, by `Remembers`, that it does not wait in the store either.
An answer may record an outcome for another action than its own in this way, that
of the thread it was misdirected to. Two investigations are too few for that (the
run meets the other two ways only); the theorem covers it for any number.

**Only model-checked.** Liveness (`QueuedJobIsSettled`, `InvocationReturns`,
`ExecutionSettles`, `ResolutionIsRecorded`): fairness is about ENABLED, which the
prover does not treat.

## 5. Where code and documentation disagree

Each of these is a run whose property TLC refutes.

1. `job_queue_unwired`. `process_job` builds an `InvestigationService` without an
   incident service, and `run_investigation` raises before it reaches the graph
   (`job_worker.py:132`, `investigation_service.py:245-248`). A job taken by
   `run_once` spends all attempts without an investigation.
2. `reject_never_executes`. An approval whose execution raised leaves the thread
   at the execution node; the decision is rolled back, so that the action still
   waits. A rejection now resumes the thread, which executes it.
3. `rejected_stays_rejected`. Two requests read AWAITING_APPROVAL; the rejection
   commits; the approval's UPDATE, held up by the row lock, then writes APPROVED.
4. `auto_cap`. Overlapping investigations both count the history before either
   records its execution: the "hard cap" on automatic executions is exceeded.
5. `failure_record_lost`. The failure record is to survive "regardless of how the
   caller's own session/transaction resolves" (`investigation_service.py:427-428`).
   The rollback at line 420 expires the incident if a transaction was open, as it
   is after `retrieve_memory_node` has searched and whenever `_persist_remediation`
   raises; line 435 then reads `incident.id`, which needs I/O that an
   `AsyncSession` does not do implicitly. The exception is swallowed at line 441:
   the incident stays INVESTIGATING, and no process was lost.

The models show more, some of it also contrary to what is written:

- Two deliveries of one firing alert that overlap both find nothing, and open two
  incidents with a job each; no unique index prevents it. `alert_service.py:45`
  calls the conversion idempotent, and the comment at line 109 says that the
  lookup prevents duplicate incidents. `DuplicatesAreTwins` excepts exactly such
  twins, besides what reopening and clients do. A resolved webhook clears the
  newer of them; repeated, it finds the newer one again. The older one keeps
  firing, and a later occurrence is added to it instead of being investigated.
- `RecoveryValidator` says that validation must not pass without data from
  Prometheus (`services/recovery_validator.py:28`), but `_build_run_config`
  configures `check_remediation_recovered` (`investigation_service.py:106`),
  which asks the target alone, as section 6 of
  `docs/design/remediation_safety.md` describes. `VerdictNeedsData` is therefore
  about a service with the other validator.
- An incident that a client posts with a fingerprint (`POST /incidents`) is firing
  by default and has no job. Later firing alerts are added to it, so that nothing
  investigates the condition unless an operator asks for it; `FiringIsInvestigated`
  excepts exactly these. Posted over an incident that fires already, it is the
  one that a resolved webhook finds, and the older one keeps firing.
- A firing webhook that looked up an incident before a resolved one was committed
  is added to that incident, whose alert then is resolved.
- Ingestion inserts a job and schedules the background task as well
  (`alert_service.py:156-170`): a worker and the task may process one job at the
  same time.
- After a lease overrun, a late worker may put a job back to PENDING after its
  last attempt, and it is claimed once more (`job_worker.py:59-66, 158-183`).
- A row that a background task marked RUNNING has no lease, so that after a crash
  of the API process no worker recovers it; nor one whose worker died in its last
  attempt. `Orphaned` names both.
- With two actions of an incident awaiting approval, every approve and reject
  request fails (`investigation_service.py:486`), and nothing resolves one of
  them: the theorem `AmbiguityStays` says so for any number of investigations.
- A request resumes the thread that the incident names, which a later
  investigation replaces: approving an action of the first resumes the thread of
  the second. With a second request, a recorded SUCCEEDED can then go back to
  APPROVED; `OutcomesAreFinal` excepts exactly such misdirected requests.
- The rows written are the policy's results before the limits, for all
  proposals. A rejection by a limit is not recorded (although
  `docs/design/remediation_safety.md` says all are), and proposals that were
  ALLOWED but not selected stand as APPROVED; both count as prior attempts.
- A run that pauses or fails late overwrites the status of an incident resolved
  meanwhile.
- An automatic execution whose run fails before its commit has no audit row and
  is not counted by later investigations.
- The postmortem quotes the first successful result of the incident and the
  memory any one of them (`postmortem_service.py:353`, `memory_service.py:225`),
  although its validation may have failed and another action resolved the
  incident. The memory quotes the latest validation, passed or not. The validator
  that the service configures leaves no validation row at all, so that a
  postmortem may quote a failed validation of another run, left by another
  validator, or a fixed sentence.
- If the flush of a postmortem or memory fails, the except clause that calls it
  non-fatal (`investigation_service.py:666`) does not roll back: the session is
  unusable, and the caller's next commit raises for an incident that is resolved:
  a request answers 500, and the background task records its job as FAILED
  (`BackgroundCommitFails` of JobQueue). A vector of another length than the
  column's 384 has this effect, and takes the postmortem with it.
- A process that ends between the commit of RESOLVED and that of the postmortem
  leaves none, and nothing generates it later. A second resolution never
  changes the first one's records, and its memory may refer to the first one's
  postmortem.
- A restart is only simulated, and its validation passes although nothing
  changed; after a reset, a pool that is too small, or a target without traffic,
  is not noticed by `check_remediation_recovered`.
- `RecoveryValidator` could never pass for a target that has not failed since it
  started: the query has no series to answer with. Its window of one minute is
  longer than the delay of five seconds, so that right after a real reset the
  errors are still counted; `validation_window_seconds` is used by nothing, and
  its check of alerts repeats the rate query.
- A reset that was reported as TIMED_OUT or FAILED may be applied later, after
  the incident was closed as unresolved. A stored answer reports success although
  errors were injected since; only the validation notices.
- The executors retry and report some errors of httpx, but not a connection that
  breaks while it is read, contrary to "All external HTTP/I/O outcomes" of their
  docstring; the graph then raises (`Stop`).
- Git selects commits by the committer's date but reports the author's: a commit
  that was rebased or merged after the onset can be promoted as its cause
  (contrary to `docs/design/change_intelligence.md:45`), and an old one that
  landed in time counts as far away.
- One invalid deployment record discards all deployments; timestamps with and
  without a time zone together make the sort raise, which discards all changes;
  the registry's own limit keeps its oldest entries. A record without a time
  zone makes its window filters raise, which are then passed over
  (`demo_service/app/main.py:289-301`), so that the limit is spent on records
  from before the window, which the provider drops.
- The default relevance threshold of 0.6 never decides anything: what has a
  symptom in common and is temporally close scores more. The gate checks again
  all that the candidate flag says. The correlation is computed once, from the
  first evidence.
- With the ceiling on automatic executions reached, lowering the automatic level
  turns a rejection into a request for approval, since the limits are looked at
  after the level and the automatic one for ALLOWED only
  (`graph/nodes/remediation_policy.py`).
- The quality gate is never false where it is called (`IsEligible`).
- `claim_action_for_execution` is called by no code, and `worker_enabled` is read
  by none.

## 6. Not modelled

The similarity search over memories (`search_similar`) reads only, and its
ranking is done by the database. `claim_action_for_execution`,
`generate_postmortem_for_incident` and `index_memory_for_incident` are called by
nothing. The protocol clients (Prometheus apart from the validator's query, Loki,
LLM, embeddings) are input and output, as are configuration, logging, telemetry,
start-up and the routes that only read: what they answer is a nondeterministic
choice of the modules that call them. Of the nodes that collect metrics, logs and
memories only their place in the graph is modelled. Texts, the contents of
evidence and, but for changes, timestamps are left out. Groups of alerts with
several fingerprints are among the hazards but are no part of a model.

Three pieces of arithmetic are exact where the code's is binary floating point:
at a change 5850 s and one 3150 s before the onset the float deviates from the
decimal, and `ChangeCausality` takes the float's side of the first, which
matters, and says so at both.

## 7. Plan

What is left, in this order:

1. The lifecycle of an audit row as an abstract specification, implemented by
   ApprovalFlow up to the misdirected requests that break it.
2. A queue of jobs each processed by one worker at a time, implemented by
   JobQueue as long as no lease runs out under a worker.
3. Groups of alerts in AlertIngestion (the first alert of a group names it).

## 8. Running it

    tlc -workers 2 -config ApprovalFlow.cfg MCApprovalFlow
    tlapm JobQueueProofs.tla
    tlapm AlertIngestionProofs.tla
    tlapm MemoryIndexProofs.tla
    tlapm RecoveryProofs.tla
    tlapm RemediationPolicyProofs.tla
    tlapm InvestigationGraphProofs.tla
    tlapm ApprovalFlowProofs.tla
    tlapm DecisionProofs.tla

Every run ends within about two minutes on two cores. Next to many definitions
stands a variant of it marked MUTANT: a plausible mistake in the code.
`PROJECT.json` pairs each property with one that it detects.
