------------------------------ MODULE Recovery ------------------------------
(***************************************************************************)
(* Executing a remediation and validating it, against the target and the   *)
(* monitoring as they really behave:                                       *)
(*                                                                         *)
(*   - the target, demo_service/app/main.py: error injection, the size of  *)
(*     its connection pool, its table of idempotency keys, its 5xx counter;*)
(*   - Prometheus, by the one query the validator asks;                    *)
(*   - the executors: inspection and reset over HTTP with bounded retries  *)
(*     under one idempotency key, or the simulated restart;                *)
(*   - validate_remediation_node: a delay, and the validator, which is the *)
(*     one InvestigationService puts into the graph's configuration,       *)
(*     check_remediation_recovered, or the one the node itself takes       *)
(*     without it, RecoveryValidator: four checks one after the other,     *)
(*     each a request of its own.                                          *)
(*                                                                         *)
(* A run is one thread of the graph that executes one action.  Its action  *)
(* keeps its key, rem-exec-<proposal id>, when an error or a crash makes   *)
(* the thread execute it again, so the run also names the key.  Runs of    *)
(* several incidents share the target.                                     *)
(*                                                                         *)
(* A request that is not answered may have been lost, processed, or may    *)
(* still be processed later: the client's timeout does not recall it.  It  *)
(* is lost for good when the target's process ends.                        *)
(***************************************************************************)
EXTENDS Integers, Sequences

CONSTANTS
    Runs,           \* graph threads that execute an action on the target
    NULL,           \* a request without X-Idempotency-Key
    Setups,         \* the validator and the runs' actions: what to look at
    MaxRetries,     \* the executors' _max_retries
    MaxStops        \* bound: errors and crashes of runs

ActionTypes == {"RESET_DEMO_FAILURE", "RESTART_REGISTERED_SERVICE"}
AllValidators == {"check_remediation_recovered", "RecoveryValidator"}

ASSUME RecoveryAssumption ==
    /\ Setups \subseteq AllValidators \X [Runs -> ActionTypes]
    /\ MaxRetries \in Nat
    /\ MaxStops \in Nat
    /\ NULL \notin Runs

VARIABLES
    error_mode,     \* _ERROR_MODE_ENABLED
    small_pool,     \* _DB_POOL_SIZE <= 5
    keys,           \* _PROCESSED_IDEMPOTENCY_KEYS
    errors,         \* the target's 5xx counters: none, new (not scraped), old
    rate,           \* the query's answer: none (empty), low, high (threshold)
    validator,      \* what validates the runs
    action,         \* per run: its action's type
    phase,          \* per run: the step it is in
    attempt,        \* per run: the retry loop's counter
    in_flight,      \* runs with an unanswered reset that may yet be processed
    result,         \* per run: RemediationResult.status, or none
    healthy,        \* per run: all checks so far have passed
    verdict,        \* per run: remediation_validation_passed
    stops           \* errors and crashes of runs so far

\* History variables: no action's guard reads them.
VARIABLES
    applied,        \* per run: how often its reset was applied in this life of
                    \* the target
    ever_applied,   \* runs whose reset was applied at all
    reinjected,     \* runs after whose target check errors were injected
    failed          \* some request to the target was answered with a 5xx

target == <<error_mode, small_pool, keys>>
monitoring == <<errors, rate>>
setup == <<validator, action>>
execution == <<attempt, result>>
validation == <<healthy, verdict>>
history == <<applied, ever_applied, reinjected, failed>>
vars == <<target, monitoring, setup, phase, execution, in_flight, validation, stops, history>>

Executing == {"inspect", "reset"}
Validating == {"delay", "target", "health", "rate", "alert"}
Running == Executing \union Validating
Phases == Running \union {"ready", "stopped", "done"}
Results == {"none", "SUCCEEDED", "FAILED", "TIMED_OUT"}

Init ==
    /\ error_mode \in BOOLEAN
    /\ small_pool \in BOOLEAN
    /\ keys = {}
    /\ errors = "none"
    /\ rate = "none"
    /\ \E s \in Setups : validator = s[1] /\ action = s[2]
    /\ phase = [r \in Runs |-> "ready"]
    /\ attempt = [r \in Runs |-> 0]
    /\ in_flight = {}
    /\ result = [r \in Runs |-> "none"]
    /\ healthy = [r \in Runs |-> TRUE]
    /\ verdict = [r \in Runs |-> "none"]
    /\ stops = 0
    /\ applied = [r \in Runs |-> 0]
    /\ ever_applied = {}
    /\ reinjected = {}
    /\ failed = FALSE

(***************************************************************************)
(* The target and its monitoring                                           *)
(***************************************************************************)
TargetChecked(r) == phase[r] \in {"health", "rate", "alert"} \/ verdict[r] = "passed"

\* POST /debug/error-mode/{enabled} by an operator, who sends no key.
OperatorSetsErrorMode(enabled) ==
    /\ error_mode' = enabled
    /\ reinjected' = IF enabled THEN reinjected \union {r \in Runs : TargetChecked(r)}
                     ELSE reinjected
    /\ UNCHANGED <<small_pool, keys, monitoring, setup, phase, execution, in_flight,
                   validation, stops, applied, ever_applied, failed>>

\* POST /deployments or /config with another DB_POOL_SIZE.
ChangePool ==
    /\ small_pool' = ~small_pool
    /\ UNCHANGED <<error_mode, keys, monitoring, setup, phase, execution, in_flight,
                   validation, stops, history>>

Failing == error_mode \/ small_pool

\* GET / : the one request that fails; the middleware counts its answer.
\* (Requests that are answered with 200 change nothing the checks look at.)
ServeFailure ==
    /\ Failing
    /\ errors' = "new"
    /\ failed' = TRUE
    /\ UNCHANGED <<target, rate, setup, phase, execution, in_flight, validation, stops,
                   applied, ever_applied, reinjected>>

\* The target's process is replaced: all of its state was in memory.
RestartTarget ==
    /\ error_mode' = FALSE
    /\ small_pool' = FALSE
    /\ keys' = {}
    /\ errors' = "none"
    /\ in_flight' = {}
    /\ applied' = [r \in Runs |-> 0]
    /\ UNCHANGED <<rate, setup, phase, execution, validation, stops,
                   ever_applied, reinjected, failed>>

\* Prometheus scrapes.  rate() needs two samples, and does not see the first
\* increment of a new series.  (The two first scrapes are one step.)
Scrape ==
    /\ errors # "none"
    /\ errors' = "old"
    /\ rate' = IF rate = "none" THEN "low" ELSE IF errors = "new" THEN "high" ELSE rate
    /\ UNCHANGED <<target, setup, phase, execution, in_flight, validation, stops, history>>

\* One minute without new errors: they leave the window of the query, and the
\* samples of a counter that is gone do, too.
WindowPasses ==
    /\ errors # "new"
    /\ rate # "none"
    /\ rate' = IF errors = "none" THEN "none" ELSE "low"
    /\ UNCHANGED <<target, errors, setup, phase, execution, in_flight, validation, stops,
                   history>>

\* MUTANT of Remembered: the target does not store the key.
RememberedNever(key) == keys

\* A request that carries a key is remembered by it.
Remembered(key) == IF key = NULL THEN keys ELSE keys \union {key}

\* set_error_mode(False) for a request of run r under key: a key that was
\* processed gets the stored answer, which says error_mode = False, too.
ResetErrorMode(r, key) ==
    IF key \in keys
    THEN UNCHANGED <<target, applied, ever_applied>>
    ELSE /\ error_mode' = FALSE
         /\ keys' = Remembered(key)
         /\ applied' = [applied EXCEPT ![r] = @ + 1]
         /\ ever_applied' = ever_applied \union {r}
         /\ UNCHANGED small_pool

(***************************************************************************)
(* The executors                                                           *)
(***************************************************************************)
\* The key in the header: policy.py derives it from the proposal.
RequestKey(r) == r

\* execute_remediation_node calls the executor of the action.
Execute(r) ==
    /\ phase[r] = "ready"
    /\ phase' = [phase EXCEPT ![r] = "inspect"]
    /\ UNCHANGED <<target, monitoring, setup, execution, in_flight, validation, stops, history>>

\* The executor returns; only a success is validated.
Return(r, status) ==
    /\ result' = [result EXCEPT ![r] = status]
    /\ attempt' = [attempt EXCEPT ![r] = 0]
    /\ phase' = [phase EXCEPT ![r] = IF status = "SUCCEEDED" THEN "delay" ELSE "done"]

\* MUTANT of NextAttempt: the loop does not count.
NextAttemptUncounted(n) == n

NextAttempt(n) == n + 1

\* MUTANT of RetryOrGiveUp: one attempt too many.
RetryOrGiveUpLate(r) ==
    IF attempt[r] <= MaxRetries
    THEN /\ attempt' = [attempt EXCEPT ![r] = NextAttempt(@)]
         /\ UNCHANGED <<phase, result>>
    ELSE Return(r, "TIMED_OUT")

\* The loop of _request_with_retry: 1 + MaxRetries attempts.
RetryOrGiveUp(r) ==
    IF attempt[r] < MaxRetries
    THEN /\ attempt' = [attempt EXCEPT ![r] = NextAttempt(@)]
         /\ UNCHANGED <<phase, result>>
    ELSE Return(r, "TIMED_OUT")

\* A reset goes on to its POST, whatever the inspection saw; the restart is a
\* simulation that ends with a good answer of /health.
AfterInspection(r) ==
    IF action[r] = "RESET_DEMO_FAILURE"
    THEN /\ phase' = [phase EXCEPT ![r] = "reset"]
         /\ attempt' = [attempt EXCEPT ![r] = 0]
         /\ UNCHANGED result
    ELSE Return(r, "SUCCEEDED")

\* GET /debug/error-mode, or GET /health: answered, answered by something that
\* is not the expected 200 (a proxy, a bad body), or not answered.
Inspect(r) ==
    /\ phase[r] = "inspect"
    /\ \/ AfterInspection(r)
       \/ Return(r, "FAILED")
       \/ RetryOrGiveUp(r)
    /\ UNCHANGED <<target, monitoring, setup, in_flight, validation, stops, history>>

\* POST /debug/error-mode/false is processed, and the answer is read, unusable,
\* or comes too late.
ResetProcessed(r) ==
    /\ phase[r] = "reset"
    /\ ResetErrorMode(r, RequestKey(r))
    /\ \/ Return(r, "SUCCEEDED")
       \/ Return(r, "FAILED")
       \/ RetryOrGiveUp(r)
    /\ UNCHANGED <<monitoring, setup, in_flight, validation, stops, reinjected, failed>>

\* MUTANT of Unprocessed: no answer is taken for a success.
UnprocessedAssumed(r) == RetryOrGiveUp(r) \/ Return(r, "SUCCEEDED")

\* What the executor makes of a reset that no answer confirms.
Unprocessed(r) == RetryOrGiveUp(r) \/ Return(r, "FAILED")

\* It is not processed, or not yet: refused, lost, answered by a proxy, or
\* still on its way when the client's timeout ends the attempt.
ResetUnprocessed(r) ==
    /\ phase[r] = "reset"
    /\ UNCHANGED <<target, applied, ever_applied>>
    /\ Unprocessed(r)
    /\ in_flight' \in {in_flight, in_flight \union {r}}
    /\ UNCHANGED <<monitoring, setup, validation, stops, reinjected, failed>>

\* The target gets to a request whose sender has given up on it.
ResetProcessedLate(r) ==
    /\ r \in in_flight
    /\ in_flight' = in_flight \ {r}
    /\ ResetErrorMode(r, RequestKey(r))
    /\ UNCHANGED <<monitoring, setup, phase, execution, validation, stops, reinjected, failed>>

(***************************************************************************)
(* Validation                                                              *)
(***************************************************************************)
\* check_recovered makes the first check alone (and repeats an unanswered
\* request like the executors, which changes nothing meanwhile).
Checks == IF validator = "RecoveryValidator" THEN <<"target", "health", "rate", "alert">>
          ELSE <<"target">>

\* validation_delay_seconds are over; the checks start from nothing.
Delay(r) ==
    /\ phase[r] = "delay"
    /\ phase' = [phase EXCEPT ![r] = "target"]
    /\ healthy' = [healthy EXCEPT ![r] = TRUE]
    /\ UNCHANGED <<target, monitoring, setup, execution, in_flight, verdict, stops, history>>

\* MUTANT of RateIsLow: an empty answer counts as zero.
RateIsLowOrEmpty == rate # "high"

RateIsLow == rate = "low"

\* What an answered check finds.  The fourth asks the third one's question.
Passes(r, check) ==
    CASE check = "target" -> action[r] = "RESET_DEMO_FAILURE" => ~error_mode
      [] check = "health" -> TRUE
      [] check \in {"rate", "alert"} -> RateIsLow

\* MUTANT of Conclude: the last check decides.
ConcludeByLast(earlier, last) == last

\* all(c.passed for c in checks)
Conclude(earlier, last) == earlier /\ last

\* A check without an answer, or with any error, fails.  The list of checks is gone
\* when the last one has decided.
Check(r) == \E i \in DOMAIN Checks, answered \in BOOLEAN :
    LET good == Conclude(healthy[r], answered /\ Passes(r, Checks[i]))
    IN  /\ phase[r] = Checks[i]
        /\ IF i < Len(Checks)
           THEN /\ phase' = [phase EXCEPT ![r] = Checks[i + 1]]
                /\ healthy' = [healthy EXCEPT ![r] = good]
                /\ UNCHANGED verdict
           ELSE /\ phase' = [phase EXCEPT ![r] = "done"]
                /\ healthy' = [healthy EXCEPT ![r] = TRUE]
                /\ verdict' = [verdict EXCEPT ![r] = IF good THEN "passed" ELSE "failed"]
        /\ UNCHANGED <<target, monitoring, setup, execution, in_flight, stops,
                       applied, ever_applied, reinjected, failed>>

(***************************************************************************)
(* Errors and crashes of a run                                             *)
(***************************************************************************)
\* A request ends in an error of another kind than the retried ones (the
\* connection breaks), which the executor does not catch, or the process dies.
\* A result whose checkpoint was not written yet is lost.
Stop(r) ==
    /\ phase[r] \in Running
    /\ stops < MaxStops
    /\ stops' = stops + 1
    /\ phase' = [phase EXCEPT ![r] = "stopped"]
    /\ attempt' = [attempt EXCEPT ![r] = 0]
    /\ \E kept \in {"none", result[r]} : result' = [result EXCEPT ![r] = kept]
    /\ healthy' = [healthy EXCEPT ![r] = TRUE]
    /\ UNCHANGED <<target, monitoring, setup, verdict, history>>
    /\ in_flight' \in {in_flight, IF phase[r] = "reset" THEN in_flight \union {r} ELSE in_flight}

\* The thread is resumed at the node that has no checkpoint yet.
Resume(r) ==
    /\ phase[r] = "stopped"
    /\ phase' = [phase EXCEPT ![r] = IF result[r] = "none" THEN "inspect" ELSE "delay"]
    /\ reinjected' = reinjected \ {r}
    /\ UNCHANGED <<target, monitoring, setup, execution, in_flight, validation, stops,
                   applied, ever_applied, failed>>

RunStep(r) ==
    \/ Inspect(r) \/ ResetProcessed(r) \/ ResetUnprocessed(r) \/ Delay(r) \/ Check(r)

Environment ==
    \/ \E enabled \in BOOLEAN : OperatorSetsErrorMode(enabled)
    \/ ChangePool \/ ServeFailure \/ RestartTarget
    \/ Scrape \/ WindowPasses

Next ==
    \/ Environment
    \/ \E r \in Runs : Execute(r) \/ RunStep(r) \/ ResetProcessedLate(r) \/ Stop(r) \/ Resume(r)

Spec == Init /\ [][Next]_vars

\* A run goes on: each request ends with its timeout, each pause with its
\* sleep.  Nobody need start or resume a run, and the environment owes nothing.
Fairness == \A r \in Runs : WF_vars(RunStep(r))

FairSpec == Spec /\ Fairness

-----------------------------------------------------------------------------
(***************************************************************************)
(* Properties                                                              *)
(***************************************************************************)
TypeOK ==
    /\ error_mode \in BOOLEAN /\ small_pool \in BOOLEAN
    /\ keys \subseteq Runs
    /\ errors \in {"none", "new", "old"}
    /\ rate \in {"none", "low", "high"}
    /\ validator \in AllValidators
    /\ action \in [Runs -> ActionTypes]
    /\ phase \in [Runs -> Phases]
    /\ attempt \in [Runs -> 0 .. MaxRetries]
    /\ in_flight \subseteq Runs
    /\ result \in [Runs -> Results]
    /\ healthy \in [Runs -> BOOLEAN]
    /\ verdict \in [Runs -> {"none", "passed", "failed"}]
    /\ stops \in 0 .. MaxStops
    /\ applied \in [Runs -> Nat]
    /\ ever_applied \subseteq Runs
    /\ reinjected \subseteq Runs
    /\ failed \in BOOLEAN

\* What a caller of the reset sees of a run.
Told == [r \in Runs |-> IF action[r] = "RESET_DEMO_FAILURE" THEN result[r] ELSE "none"]

Service == INSTANCE ResetService
    WITH Callers <- Runs, effects <- applied, settled <- ever_applied, answer <- Told

\* Retries, executions repeated after an error or a crash, stored answers and
\* requests that are processed late together are a reset that takes effect at
\* most once in a life of the target, and whose reported success is true.
ResetsOnce == Service!Spec

\* A stored answer may report the success of a reset that an injection has
\* undone since.  Validation finds that out: when a reset is validated, errors
\* are only injected again by somebody who did so after its target was checked.
RecoveryIsReal ==
    \A r \in Runs :
        /\ action[r] = "RESET_DEMO_FAILURE"
        /\ verdict[r] = "passed"
        /\ error_mode
        => r \in reinjected

\* The four checks pass on data only, and these exist only if a request has
\* failed: no answer of Prometheus, or an empty one, never counts as recovery.
VerdictNeedsData ==
    validator = "RecoveryValidator" /\ (\E r \in Runs : verdict[r] = "passed") => failed

\* An execution with its validation ends, unless an error or a crash stops it.
ExecutionSettles ==
    \A r \in Runs : phase[r] \in Running ~> phase[r] \in {"done", "stopped"}

=============================================================================
