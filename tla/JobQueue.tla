------------------------------ MODULE JobQueue ------------------------------
(***************************************************************************)
(* The durable investigation-job queue of FaultWarden: the table           *)
(* investigation_jobs and everybody who reads or writes it.                *)
(*                                                                         *)
(*   - ingesting a new firing alert inserts a PENDING job and, in the same *)
(*     request, schedules an in-process background task (alert_service);   *)
(*   - durable workers claim jobs under a lease, run the investigation and *)
(*     settle the job with bounded retries (job_worker);                   *)
(*   - the background task runs the same investigation and settles the     *)
(*     same row without a lease (investigation_service);                   *)
(*   - an operator may trigger an investigation by hand unless a live      *)
(*     lease is found (api/routes/incidents).                              *)
(*                                                                         *)
(* There is one job per incident, as alert_service creates them, so a job  *)
(* also names its incident.  The graph run itself is InvestigationGraph;   *)
(* here it is a step that ends in success or failure.                      *)
(*                                                                         *)
(* A session reads a row in one statement and writes it back in a later    *)
(* one, at READ COMMITTED, and the ORM's UPDATE names only the columns     *)
(* whose value differs from the one it read.  So reading and writing are   *)
(* two steps, and what was read is kept (seen, bg_seen).                   *)
(*                                                                         *)
(* Time is a countdown: due[j] is available_at - now and lease[j] is       *)
(* lease_expires_at - now, so that Tick decrements both and the state      *)
(* space is finite without a bound on the clock.  claimed_at, claimed_by,  *)
(* completed_at and last_error are written by the code but no code reads   *)
(* them to decide anything; they are left out.                             *)
(***************************************************************************)
EXTENDS Integers, FiniteSets

CONSTANTS
    Jobs,           \* jobs (one per incident)
    Workers,        \* durable workers (JobWorker instances)
    NULL,           \* SQL NULL, and "no job" for an idle worker
    LeaseSeconds,   \* RemediationSettings.job_lease_seconds
    MaxAttempts,    \* InvestigationJobModel.max_attempts
    ServiceWired,   \* TRUE: process_job got an investigation_service that can
                    \* run; FALSE: it builds one itself, as run_once makes it do
    AgeBound,       \* bound: a job older than this no longer ages
    MaxCrashes      \* bound: process crashes in a behaviour

ASSUME JobQueueAssumption ==
    /\ LeaseSeconds \in Nat \ {0}
    /\ MaxAttempts \in Nat \ {0}
    /\ AgeBound \in Nat
    /\ MaxCrashes \in Nat
    /\ ServiceWired \in BOOLEAN
    /\ NULL \notin Jobs
    /\ NULL \notin Int

VARIABLES
    status,         \* InvestigationJobModel.status, or ABSENT before the insert
    attempt_count,  \* InvestigationJobModel.attempt_count
    due,            \* available_at - now
    lease,          \* lease_expires_at - now, or NULL
    phase,          \* per worker: where run_once / process_job is
    claimed,        \* per worker: the job being processed
    succeeded,      \* per worker: process_job's local `success`
    seen,           \* per worker: the row as read before settling it
    background,     \* per job: where its background task is
    bg_seen,        \* per job: the status its background task read, or NULL
    bg_ok,          \* per job: the background task has raised nothing since
                    \* its investigation returned
    manual,         \* per job: an operator's POST /investigate is running
    crashes         \* crashes so far

\* History variables: no action's guard reads them.
VARIABLES
    ran,            \* jobs for whose incident a graph run was started
    investigated,   \* jobs for whose incident a graph run succeeded
    overran,        \* jobs whose lease ran out under a busy worker
    crashed         \* jobs whose processor died while it held them

row == <<status, attempt_count, due, lease>>
worker == <<phase, claimed, succeeded, seen>>
server == <<background, bg_seen, bg_ok, manual>>
history == <<ran, investigated, overran, crashed>>
vars == <<row, worker, server, crashes, history>>

Status == {"ABSENT", "PENDING", "RUNNING", "COMPLETED", "FAILED"}
Terminal == {"COMPLETED", "FAILED"}

Unread == [status |-> "ABSENT", attempt_count |-> 0]

Init ==
    /\ status = [j \in Jobs |-> "ABSENT"]
    /\ attempt_count = [j \in Jobs |-> 0]
    /\ due = [j \in Jobs |-> 0]
    /\ lease = [j \in Jobs |-> NULL]
    /\ phase = [w \in Workers |-> "idle"]
    /\ claimed = [w \in Workers |-> NULL]
    /\ succeeded = [w \in Workers |-> FALSE]
    /\ seen = [w \in Workers |-> Unread]
    /\ background = [j \in Jobs |-> "none"]
    /\ bg_seen = [j \in Jobs |-> NULL]
    /\ bg_ok = [j \in Jobs |-> FALSE]
    /\ manual = [j \in Jobs |-> FALSE]
    /\ crashes = 0
    /\ ran = {}
    /\ investigated = {}
    /\ overran = {}
    /\ crashed = {}

(***************************************************************************)
(* Alert ingestion: the job row is committed, then the background task is  *)
(* handed to FastAPI.                                                      *)
(***************************************************************************)
Enqueue(j) ==
    /\ status[j] = "ABSENT"
    /\ status' = [status EXCEPT ![j] = "PENDING"]
    /\ due' = [due EXCEPT ![j] = 0]
    /\ background' = [background EXCEPT ![j] = "scheduled"]
    /\ UNCHANGED <<attempt_count, lease, worker, bg_seen, bg_ok, manual, crashes, history>>

(***************************************************************************)
(* The durable worker.                                                     *)
(***************************************************************************)
LeaseExpired(j) == lease[j] # NULL /\ lease[j] < 0

\* MUTANT of Claimable: the query forgets lease_expires_at < now.
ClaimableIgnoringLease(j) ==
    \/ status[j] = "PENDING" /\ due[j] <= 0
    \/ status[j] = "RUNNING" /\ attempt_count[j] < MaxAttempts

\* MUTANT of Claimable: the query forgets expired leases.
ClaimablePendingOnly(j) == status[j] = "PENDING" /\ due[j] <= 0

Claimable(j) ==
    \/ status[j] = "PENDING" /\ due[j] <= 0
    \/ status[j] = "RUNNING" /\ LeaseExpired(j) /\ attempt_count[j] < MaxAttempts

\* ORDER BY available_at LIMIT 1.
NextClaimable(j) ==
    /\ Claimable(j)
    /\ \A k \in Jobs : Claimable(k) => due[j] <= due[k]

\* FOR UPDATE SKIP LOCKED holds the row from the SELECT to the commit, so
\* selecting and claiming is one step.
ClaimNextJob(w) ==
    /\ phase[w] = "idle"
    /\ \E j \in Jobs :
        /\ NextClaimable(j)
        /\ status' = [status EXCEPT ![j] = "RUNNING"]
        /\ lease' = [lease EXCEPT ![j] = LeaseSeconds]
        /\ attempt_count' = [attempt_count EXCEPT ![j] = @ + 1]
        /\ claimed' = [claimed EXCEPT ![w] = j]
    /\ phase' = [phase EXCEPT ![w] = "investigating"]
    /\ UNCHANGED <<due, succeeded, seen, server, crashes, history>>

\* The graph run for j's incident returns (the graph is another module).
GraphReturns(j, ok) ==
    investigated' = IF ok THEN investigated \union {j} ELSE investigated

\* process_job up to the end of its try block.  The service it builds itself
\* has no incident_service, and run_investigation then raises before the graph.
Investigate(w) ==
    /\ phase[w] = "investigating"
    /\ IF ServiceWired
       THEN \E ok \in BOOLEAN :
            /\ succeeded' = [succeeded EXCEPT ![w] = ok]
            /\ ran' = ran \union {claimed[w]}
            /\ GraphReturns(claimed[w], ok)
       ELSE UNCHANGED <<succeeded, ran, investigated>>
    /\ phase' = [phase EXCEPT ![w] = "settling"]
    /\ UNCHANGED <<row, claimed, seen, server, crashes, overran, crashed>>

Backoff(n) == 2 ^ n

\* The new transaction of process_job reads the row ...
ReadJob(w) ==
    /\ phase[w] = "settling"
    /\ seen' = [seen EXCEPT ![w] =
         [status |-> status[claimed[w]], attempt_count |-> attempt_count[claimed[w]]]]
    /\ phase' = [phase EXCEPT ![w] = "committing"]
    /\ UNCHANGED <<row, claimed, succeeded, server, crashes, history>>

\* MUTANT of Settled: one attempt too many.
SettledOffByOne(w) ==
    IF succeeded[w] THEN "COMPLETED"
    ELSE IF seen[w].attempt_count <= MaxAttempts THEN "PENDING" ELSE "FAILED"

\* MUTANT of Settled: success is taken for granted.
SettledBlindly(w) == "COMPLETED"

\* ... chooses its status from what it read, without a look at claimed_by or
\* the lease ...
Settled(w) ==
    IF succeeded[w] THEN "COMPLETED"
    ELSE IF seen[w].attempt_count < MaxAttempts THEN "PENDING" ELSE "FAILED"

\* run_once returns (or dies with its process) and run_loop starts afresh.
Release(w) ==
    /\ phase' = [phase EXCEPT ![w] = "idle"]
    /\ claimed' = [claimed EXCEPT ![w] = NULL]
    /\ succeeded' = [succeeded EXCEPT ![w] = FALSE]
    /\ seen' = [seen EXCEPT ![w] = Unread]

\* ... and commits.  A status equal to the one read is not written.
SettleJob(w) ==
    /\ phase[w] = "committing"
    /\ LET j == claimed[w] IN
        /\ status' = [status EXCEPT ![j] =
                        IF Settled(w) = seen[w].status THEN @ ELSE Settled(w)]
        /\ due' = [due EXCEPT ![j] =
                     IF Settled(w) = "PENDING" THEN Backoff(seen[w].attempt_count) ELSE @]
    /\ Release(w)
    /\ UNCHANGED <<attempt_count, lease, server, crashes, history>>

\* The worker's process dies, or an error outside the try block ends run_once
\* (run_loop then goes on polling); either way the job is not settled.
WorkerCrash(w) ==
    /\ phase[w] # "idle"
    /\ crashes < MaxCrashes
    /\ crashes' = crashes + 1
    /\ crashed' = crashed \union {claimed[w]}
    /\ Release(w)
    /\ UNCHANGED <<row, server, ran, investigated, overran>>

(***************************************************************************)
(* The FastAPI background task, in the API server's process.               *)
(***************************************************************************)
\* `job is not None`: the task found an active row, and settles it.
Owns(j) == bg_seen[j] \in {"PENDING", "RUNNING"}

\* The task has the row marked RUNNING and will settle it.
BackgroundHolds(j) ==
    background[j] \in {"investigating", "settling", "failing"} /\ Owns(j)

BackgroundRead(j) ==
    /\ background[j] = "scheduled"
    /\ bg_seen' = [bg_seen EXCEPT ![j] = status[j]]
    /\ background' = [background EXCEPT ![j] = "starting"]
    /\ UNCHANGED <<row, worker, bg_ok, manual, crashes, history>>

\* The flush locks the row until run_investigation's first commit.  No lease
\* is taken and no attempt is counted.  Without an active row it runs anyway.
BackgroundStart(j) ==
    /\ background[j] = "starting"
    /\ status' = [status EXCEPT ![j] = IF bg_seen[j] = "PENDING" THEN "RUNNING" ELSE @]
    /\ background' = [background EXCEPT ![j] = "investigating"]
    /\ ran' = ran \union {j}
    /\ UNCHANGED <<attempt_count, due, lease, worker, bg_seen, bg_ok, manual, crashes>>
    /\ UNCHANGED <<investigated, overran, crashed>>

\* An error before that commit: the flush is rolled back.
BackgroundAbort(j) ==
    /\ background[j] = "starting"
    /\ background' = [background EXCEPT ![j] = "settling"]
    /\ UNCHANGED <<row, worker, bg_seen, bg_ok, manual, crashes, history>>

BackgroundInvestigate(j) ==
    /\ background[j] = "investigating"
    /\ \E ok \in BOOLEAN :
        /\ bg_ok' = [bg_ok EXCEPT ![j] = ok]
        /\ GraphReturns(j, ok)
    /\ background' = [background EXCEPT ![j] = "settling"]
    /\ UNCHANGED <<row, worker, bg_seen, manual, crashes, ran, overran, crashed>>

\* On success the row found at the start becomes COMPLETED, whatever it is now.
BackgroundComplete(j) ==
    /\ background[j] = "settling" /\ bg_ok[j]
    /\ status' = [status EXCEPT ![j] = IF Owns(j) THEN "COMPLETED" ELSE @]
    /\ background' = [background EXCEPT ![j] = "done"]
    /\ UNCHANGED <<attempt_count, due, lease, worker, bg_seen, bg_ok, manual, crashes, history>>

\* The commit of COMPLETED fails: what follows is the handler of a failed run.
BackgroundCommitFails(j) ==
    /\ background[j] = "settling" /\ bg_ok[j] /\ Owns(j)
    /\ bg_ok' = [bg_ok EXCEPT ![j] = FALSE]
    /\ UNCHANGED <<row, worker, background, bg_seen, manual, crashes, history>>

\* MUTANT of RowToFail: the handler looks for a job that is not started.
RowToFailPending(j) == status[j] = "PENDING"

\* On failure the handler looks for the incident's RUNNING row, whoever runs it.
RowToFail(j) == status[j] = "RUNNING"

BackgroundReadFailed(j) ==
    /\ background[j] = "settling" /\ ~bg_ok[j]
    /\ background' = [background EXCEPT ![j] = IF RowToFail(j) THEN "failing" ELSE "done"]
    /\ UNCHANGED <<row, worker, bg_seen, bg_ok, manual, crashes, history>>

BackgroundFail(j) ==
    /\ background[j] = "failing"
    /\ status' = [status EXCEPT ![j] = "FAILED"]
    /\ background' = [background EXCEPT ![j] = "done"]
    /\ UNCHANGED <<attempt_count, due, lease, worker, bg_seen, bg_ok, manual, crashes, history>>

(***************************************************************************)
(* POST /incidents/{id}/investigate.                                       *)
(***************************************************************************)
LiveLease(j) == status[j] = "RUNNING" /\ lease[j] # NULL /\ lease[j] > 0

ManualStart(j) ==
    /\ status[j] # "ABSENT"
    /\ ~manual[j]
    /\ ~LiveLease(j)
    /\ manual' = [manual EXCEPT ![j] = TRUE]
    /\ ran' = ran \union {j}
    /\ UNCHANGED <<row, worker, background, bg_seen, bg_ok, crashes>>
    /\ UNCHANGED <<investigated, overran, crashed>>

ManualFinish(j) ==
    /\ manual[j]
    /\ manual' = [manual EXCEPT ![j] = FALSE]
    /\ \E ok \in BOOLEAN : GraphReturns(j, ok)
    /\ UNCHANGED <<row, worker, background, bg_seen, bg_ok, crashes, ran, overran, crashed>>

\* The API server dies: background tasks and requests are lost with it.  (An
\* error inside the failure handler is swallowed there and has the same effect
\* on its job.)
ServerCrash ==
    /\ crashes < MaxCrashes
    /\ \E j \in Jobs : background[j] \notin {"none", "done", "lost"} \/ manual[j]
    /\ crashes' = crashes + 1
    /\ crashed' = crashed \union {j \in Jobs : BackgroundHolds(j)}
    /\ background' = [j \in Jobs |->
         IF background[j] \in {"none", "done"} THEN background[j] ELSE "lost"]
    /\ manual' = [j \in Jobs |-> FALSE]
    /\ UNCHANGED <<row, worker, bg_seen, bg_ok, ran, investigated, overran>>

(***************************************************************************)
(* One unit of time passes.  A lease stays at -1 once expired, due at      *)
(* -AgeBound once old.                                                     *)
(***************************************************************************)
Elapsed(remaining, floor) == IF remaining > floor THEN remaining - 1 ELSE remaining

Busy(j) == \E w \in Workers : claimed[w] = j

Tick ==
    /\ due' = [j \in Jobs |->
         IF status[j] = "ABSENT" THEN due[j] ELSE Elapsed(due[j], -AgeBound)]
    /\ lease' = [j \in Jobs |->
         IF lease[j] = NULL THEN NULL ELSE Elapsed(lease[j], -1)]
    /\ overran' = overran \union {j \in Jobs : lease[j] = 0 /\ Busy(j)}
    /\ UNCHANGED <<status, attempt_count, worker, server, crashes, ran, investigated, crashed>>

WorkerStep(w) == ClaimNextJob(w) \/ Investigate(w) \/ ReadJob(w) \/ SettleJob(w)

BackgroundStep(j) ==
    \/ BackgroundRead(j) \/ BackgroundStart(j) \/ BackgroundAbort(j)
    \/ BackgroundInvestigate(j)
    \/ BackgroundComplete(j) \/ BackgroundCommitFails(j)
    \/ BackgroundReadFailed(j) \/ BackgroundFail(j)

Next ==
    \/ \E w \in Workers :
        \/ ClaimNextJob(w) \/ Investigate(w) \/ ReadJob(w) \/ SettleJob(w)
        \/ WorkerCrash(w)
    \/ \E j \in Jobs :
        \/ Enqueue(j)
        \/ BackgroundRead(j) \/ BackgroundStart(j) \/ BackgroundAbort(j)
        \/ BackgroundInvestigate(j)
        \/ BackgroundComplete(j) \/ BackgroundCommitFails(j)
        \/ BackgroundReadFailed(j) \/ BackgroundFail(j)
        \/ ManualStart(j) \/ ManualFinish(j)
    \/ ServerCrash
    \/ Tick

Spec == Init /\ [][Next]_vars

\* A running worker keeps polling and finishes what it claimed, a running
\* server finishes its background tasks, time passes.  Nobody is obliged to
\* crash, to send an alert or to press "investigate".
Fairness ==
    /\ \A w \in Workers : WF_vars(WorkerStep(w))
    /\ \A j \in Jobs : WF_vars(BackgroundStep(j))
    /\ WF_vars(Tick)

FairSpec == Spec /\ Fairness

-----------------------------------------------------------------------------
(***************************************************************************)
(* Properties                                                              *)
(***************************************************************************)

\* Types.  A worker is idle exactly when it holds no job.
TypeOK ==
    /\ status \in [Jobs -> Status]
    /\ attempt_count \in [Jobs -> Nat]
    /\ due \in [Jobs -> Int]
    /\ lease \in [Jobs -> Int \union {NULL}]
    /\ phase \in [Workers -> {"idle", "investigating", "settling", "committing"}]
    /\ claimed \in [Workers -> Jobs \union {NULL}]
    /\ \A w \in Workers : phase[w] = "idle" <=> claimed[w] = NULL
    /\ succeeded \in [Workers -> BOOLEAN]
    /\ seen \in [Workers -> [status : Status, attempt_count : Nat]]
    /\ background \in
         [Jobs -> {"none", "scheduled", "starting", "investigating", "settling",
                   "failing", "done", "lost"}]
    /\ bg_seen \in [Jobs -> Status \union {NULL}]
    /\ bg_ok \in [Jobs -> BOOLEAN]
    /\ manual \in [Jobs -> BOOLEAN]
    /\ crashes \in 0 .. MaxCrashes
    /\ ran \subseteq Jobs
    /\ investigated \subseteq Jobs
    /\ overran \subseteq Jobs
    /\ crashed \subseteq Jobs

\* The retry budget is never exceeded unless a lease ran out under a worker:
\* claim_next_job does not look at max_attempts for a PENDING row, so this
\* rests on every writer of the status, each working from a row read earlier.
AttemptsBounded ==
    \A j \in Jobs : attempt_count[j] > MaxAttempts => j \in overran

\* Two workers process the same job only if a lease on it ran out under one
\* of them: the claim protocol itself never hands a job out twice.
OneClaimPerLease ==
    \A j \in Jobs, v, w \in Workers :
        v # w /\ claimed[v] = j /\ claimed[w] = j => j \in overran

\* A RUNNING row always has somebody who will settle it, unless the process
\* that ran it crashed: no interleaving of workers, background task and
\* operator leaves a row RUNNING with nobody behind it.
RunningHasProcessor ==
    \A j \in Jobs :
        status[j] = "RUNNING" => Busy(j) \/ BackgroundHolds(j) \/ j \in crashed

\* A COMPLETED job is one whose incident was really investigated, whichever
\* of the processors wrote the status last.
CompletedMeansInvestigated ==
    \A j \in Jobs : status[j] = "COMPLETED" => j \in investigated

\* A crash leaves this row to nobody: no lease that could expire, or no
\* attempt left to claim it with.
Orphaned(j) ==
    /\ status[j] = "RUNNING"
    /\ j \in crashed
    /\ lease[j] = NULL \/ attempt_count[j] >= MaxAttempts

\* A queued job is eventually settled; a crash that took away its lease or
\* its last attempt is the only excuse.
QueuedJobIsSettled ==
    \A j \in Jobs : status[j] = "PENDING" ~> (status[j] \in Terminal \/ Orphaned(j))

\* What process_job's docstring says: it executes the investigation graph for
\* a claimed job.  A job that ran out of retries had its graph run.
FailedMeansGraphRan ==
    \A j \in Jobs : status[j] = "FAILED" => j \in ran

=============================================================================
