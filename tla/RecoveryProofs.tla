--------------------------- MODULE RecoveryProofs ---------------------------
(***************************************************************************)
(* What Recovery promises for any number of runs, retries and errors: the  *)
(* type invariant, that its resets implement ResetService, and that the    *)
(* verdicts of validation are true.                                        *)
(*                                                                         *)
(* Three independent invariants carry this.  Keyed ties the table of keys, *)
(* which decides what a request does, to the effects it had.  Settled says *)
(* what a run may rely on between the first check of its target and its    *)
(* verdict, and Counted that whatever Prometheus answers comes from a      *)
(* failed request.                                                         *)
(***************************************************************************)
EXTENDS Recovery, TLAPS

\* The target remembers exactly the keys it has acted on since it started.
Keyed ==
    /\ \A r \in Runs : applied[r] = IF r \in keys THEN 1 ELSE 0
    /\ keys \subseteq ever_applied
    /\ \A r \in Runs :
         action[r] = "RESET_DEMO_FAILURE" /\ result[r] = "SUCCEEDED" => r \in ever_applied

\* A run that has found its target clear, and everything in order since.
Clear(r) ==
    \/ phase[r] \in {"health", "rate", "alert"} /\ healthy[r]
    \/ verdict[r] = "passed"

Settled ==
    \A r \in Runs :
        /\ verdict[r] # "none" => phase[r] = "done"
        /\ action[r] = "RESET_DEMO_FAILURE" /\ Clear(r) /\ error_mode => r \in reinjected

Counted ==
    /\ errors # "none" => failed
    /\ rate # "none" => failed
    /\ VerdictNeedsData

IInv == TypeOK /\ Keyed /\ Settled /\ Counted

(***************************************************************************)
(* Lemmas about the steps of a run                                         *)
(***************************************************************************)
\* A check, without the sequence it is an element of.
LEMMA CheckCases ==
    ASSUME TypeOK, NEW r \in Runs, Check(r)
    PROVE  /\ phase[r] \in {"target", "health", "rate", "alert"}
           /\ \E good \in BOOLEAN :
                /\ good => healthy[r] /\ Passes(r, phase[r])
                /\ \/ /\ \E next \in {"health", "rate", "alert"} :
                            phase' = [phase EXCEPT ![r] = next]
                      /\ healthy' = [healthy EXCEPT ![r] = good]
                      /\ UNCHANGED verdict
                   \/ /\ phase' = [phase EXCEPT ![r] = "done"]
                      /\ healthy' = [healthy EXCEPT ![r] = TRUE]
                      /\ verdict' = [verdict EXCEPT ![r] = IF good THEN "passed" ELSE "failed"]
                      /\ validator = "RecoveryValidator" => phase[r] = "alert"
           /\ UNCHANGED <<target, monitoring, setup, execution, in_flight, stops,
                          applied, ever_applied, reinjected, failed>>
<1>1. PICK i \in DOMAIN Checks, answered \in BOOLEAN :
        LET good == Conclude(healthy[r], answered /\ Passes(r, Checks[i]))
        IN  /\ phase[r] = Checks[i]
            /\ IF i < Len(Checks)
               THEN /\ phase' = [phase EXCEPT ![r] = Checks[i + 1]]
                    /\ healthy' = [healthy EXCEPT ![r] = good]
                    /\ UNCHANGED verdict
               ELSE /\ phase' = [phase EXCEPT ![r] = "done"]
                    /\ healthy' = [healthy EXCEPT ![r] = TRUE]
                    /\ verdict' = [verdict EXCEPT ![r] = IF good THEN "passed" ELSE "failed"]
            /\ UNCHANGED <<target, monitoring, setup, execution, in_flight, stops,
                           applied, ever_applied, reinjected, failed>>
  BY DEF Check
<1> DEFINE good == Conclude(healthy[r], answered /\ Passes(r, Checks[i]))
<1>2. /\ good \in BOOLEAN
      /\ good => healthy[r] /\ Passes(r, Checks[i])
  BY DEF Conclude, TypeOK
<1>3. CASE validator = "RecoveryValidator"
  <2>1. Checks = <<"target", "health", "rate", "alert">>
    BY <1>3 DEF Checks
  <2>2. i \in 1 .. 4 /\ Len(Checks) = 4
    BY <2>1
  <2>3. i < 4 => Checks[i + 1] \in {"health", "rate", "alert"}
    BY <2>1, <2>2
  <2>4. Checks[i] \in {"target", "health", "rate", "alert"} /\ (i = 4 => Checks[i] = "alert")
    BY <2>1, <2>2
  <2>5. CASE i < 4
    BY <1>1, <1>2, <2>2, <2>3, <2>4, <2>5
  <2>6. CASE i = 4
    BY <1>1, <1>2, <2>2, <2>4, <2>6
  <2> QED
    BY <2>2, <2>5, <2>6
<1>4. CASE validator # "RecoveryValidator"
  <2>1. Checks = <<"target">> /\ i = 1 /\ Len(Checks) = 1 /\ Checks[i] = "target"
    BY <1>4 DEF Checks
  <2> QED
    BY <1>1, <1>2, <1>4, <2>1
<1> QED
  BY <1>3, <1>4

\* What the executor's answer, or its lack of one, does to a run.
Answered(r) ==
    /\ \E n \in 0 .. MaxRetries : attempt' = [attempt EXCEPT ![r] = n]
    /\ \/ /\ phase' = [phase EXCEPT ![r] = "reset"] \/ phase' = phase
          /\ result' = result
       \/ \E status \in Results \ {"none"} :
            /\ result' = [result EXCEPT ![r] = status]
            /\ phase' = [phase EXCEPT ![r] = IF status = "SUCCEEDED" THEN "delay" ELSE "done"]

LEMMA ReturnAnswers ==
    ASSUME NEW r \in Runs, NEW status \in Results \ {"none"}, Return(r, status)
    PROVE  Answered(r)
<1>1. 0 \in 0 .. MaxRetries /\ attempt' = [attempt EXCEPT ![r] = 0]
  BY RecoveryAssumption DEF Return
<1>2. /\ result' = [result EXCEPT ![r] = status]
      /\ phase' = [phase EXCEPT ![r] = IF status = "SUCCEEDED" THEN "delay" ELSE "done"]
  BY DEF Return
<1> QED
  BY <1>1, <1>2 DEF Answered

LEMMA RetryAnswers ==
    ASSUME TypeOK, NEW r \in Runs, RetryOrGiveUp(r)
    PROVE  /\ Answered(r)
           /\ result' = result \/ result' = [result EXCEPT ![r] = "TIMED_OUT"]
<1>1. CASE attempt[r] < MaxRetries
  <2>1. attempt[r] + 1 \in 0 .. MaxRetries
    BY <1>1, RecoveryAssumption DEF TypeOK
  <2>2. /\ attempt' = [attempt EXCEPT ![r] = attempt[r] + 1]
        /\ phase' = phase /\ result' = result
    BY <1>1 DEF RetryOrGiveUp, NextAttempt
  <2> QED
    BY <2>1, <2>2 DEF Answered
<1>2. CASE ~(attempt[r] < MaxRetries)
  <2>1. Return(r, "TIMED_OUT") /\ "TIMED_OUT" \in Results \ {"none"}
    BY <1>2 DEF RetryOrGiveUp, Results
  <2> QED
    BY <2>1, ReturnAnswers DEF Return
<1> QED
  BY <1>1, <1>2

\* Inspecting answers, and reports a success only of a restart.
LEMMA InspectAnswers ==
    ASSUME TypeOK, NEW r \in Runs, Inspect(r)
    PROVE  /\ Answered(r)
           /\ \/ result' = result
              \/ \E status \in Results \ {"none"} :
                   /\ result' = [result EXCEPT ![r] = status]
                   /\ action[r] = "RESET_DEMO_FAILURE" => status # "SUCCEEDED"
<1>1. CASE AfterInspection(r) /\ action[r] = "RESET_DEMO_FAILURE"
  <2>1. 0 \in 0 .. MaxRetries
    BY RecoveryAssumption
  <2> QED
    BY <1>1, <2>1 DEF AfterInspection, Answered
<1>2. CASE AfterInspection(r) /\ action[r] # "RESET_DEMO_FAILURE"
  <2>1. Return(r, "SUCCEEDED") /\ "SUCCEEDED" \in Results \ {"none"}
    BY <1>2 DEF AfterInspection, Results
  <2> QED
    BY <1>2, <2>1, ReturnAnswers DEF Return
<1>3. CASE Return(r, "FAILED")
  <2>1. "FAILED" \in Results \ {"none"}
    BY DEF Results
  <2> QED
    BY <1>3, <2>1, ReturnAnswers DEF Return
<1>4. CASE RetryOrGiveUp(r)
  <2>1. "TIMED_OUT" \in Results \ {"none"}
    BY DEF Results
  <2> QED
    BY <1>4, <2>1, RetryAnswers
<1> QED
  BY <1>1, <1>2, <1>3, <1>4 DEF Inspect

\* A processed reset answers; an unprocessed one does not succeed.
LEMMA ProcessedAnswers ==
    ASSUME TypeOK, NEW r \in Runs, ResetProcessed(r)
    PROVE  /\ Answered(r)
           /\ result' = result \/ \E status \in Results \ {"none"} :
                result' = [result EXCEPT ![r] = status]
<1>1. {"SUCCEEDED", "FAILED", "TIMED_OUT"} \subseteq Results \ {"none"}
  BY DEF Results
<1> QED
  BY <1>1, ReturnAnswers, RetryAnswers DEF ResetProcessed, Return

LEMMA UnprocessedAnswers ==
    ASSUME TypeOK, NEW r \in Runs, ResetUnprocessed(r)
    PROVE  /\ Answered(r)
           /\ result' = result \/ \E status \in {"FAILED", "TIMED_OUT"} :
                result' = [result EXCEPT ![r] = status]
<1>1. {"FAILED", "TIMED_OUT"} \subseteq Results \ {"none"}
  BY DEF Results
<1> QED
  BY <1>1, ReturnAnswers, RetryAnswers DEF ResetUnprocessed, Unprocessed, Return

(***************************************************************************)
(* The type invariant                                                      *)
(***************************************************************************)
\* What Answered leaves of the types of a run's variables.
LEMMA AnsweredTypes ==
    ASSUME TypeOK, NEW r \in Runs, Answered(r)
    PROVE  /\ attempt' \in [Runs -> 0 .. MaxRetries]
           /\ phase' \in [Runs -> Phases]
           /\ result' \in [Runs -> Results]
<1>1. {"reset", "delay", "done"} \subseteq Phases
  BY DEF Phases, Running, Executing, Validating
<1>2. attempt' \in [Runs -> 0 .. MaxRetries]
  BY DEF Answered, TypeOK
<1>3. phase' \in [Runs -> Phases] /\ result' \in [Runs -> Results]
  BY <1>1 DEF Answered, TypeOK
<1> QED
  BY <1>2, <1>3

\* A reset adds at most the run's own key and effect.
LEMMA ResetTypes ==
    ASSUME TypeOK, NEW r \in Runs, ResetErrorMode(r, RequestKey(r))
    PROVE  /\ error_mode' \in BOOLEAN /\ small_pool' = small_pool
           /\ keys' \subseteq Runs
           /\ applied' \in [Runs -> Nat]
           /\ ever_applied' \subseteq Runs
<1>1. CASE r \in keys
  BY <1>1 DEF ResetErrorMode, RequestKey, target, TypeOK
<1>2. CASE r \notin keys
  <2>1. /\ error_mode' = FALSE /\ small_pool' = small_pool
        /\ keys' = keys \union {r}
        /\ applied' = [applied EXCEPT ![r] = applied[r] + 1]
        /\ ever_applied' = ever_applied \union {r}
    BY <1>2, RecoveryAssumption DEF ResetErrorMode, RequestKey, Remembered
  <2>2. applied[r] + 1 \in Nat
    BY DEF TypeOK
  <2>3. applied' \in [Runs -> Nat]
    BY <2>1, <2>2 DEF TypeOK
  <2> QED
    BY <2>1, <2>3 DEF TypeOK
<1> QED
  BY <1>1, <1>2

LEMMA TypeInit == Init => TypeOK
<1> SUFFICES ASSUME Init PROVE TypeOK
  OBVIOUS
<1>1. PICK s \in Setups : validator = s[1] /\ action = s[2]
  BY DEF Init
<1>2. validator \in AllValidators /\ action \in [Runs -> ActionTypes]
  <2>1. s \in AllValidators \X [Runs -> ActionTypes]
    BY RecoveryAssumption
  <2> QED
    BY <1>1, <2>1
<1>3. 0 \in 0 .. MaxRetries /\ 0 \in 0 .. MaxStops
  BY RecoveryAssumption
<1> QED
  <2>1. "ready" \in Phases /\ "none" \in Results
    BY DEF Phases, Results
  <2> QED
    BY <1>2, <1>3, <2>1 DEF Init, TypeOK

LEMMA TypeStep == TypeOK /\ [Next]_vars => TypeOK'
<1> SUFFICES ASSUME TypeOK, [Next]_vars PROVE TypeOK'
  OBVIOUS
<1> USE DEF target, monitoring, setup, execution, validation, history
<1>1. CASE Environment
  <2>1. CASE \E enabled \in BOOLEAN : OperatorSetsErrorMode(enabled)
    BY <2>1 DEF OperatorSetsErrorMode, TypeOK
  <2>2. CASE ChangePool \/ ServeFailure
    BY <2>2 DEF ChangePool, ServeFailure, TypeOK
  <2>3. CASE RestartTarget
    BY <2>3 DEF RestartTarget, TypeOK
  <2>4. CASE Scrape \/ WindowPasses
    BY <2>4 DEF Scrape, WindowPasses, TypeOK
  <2> QED
    BY <1>1, <2>1, <2>2, <2>3, <2>4 DEF Environment
<1>2. ASSUME NEW r \in Runs, Execute(r) PROVE TypeOK'
  <2>1. "inspect" \in Phases
    BY DEF Phases, Running, Executing
  <2> QED
    BY <1>2, <2>1 DEF Execute, TypeOK
<1>3. ASSUME NEW r \in Runs, Inspect(r) PROVE TypeOK'
  <2>1. Answered(r)
    BY <1>3, InspectAnswers
  <2> QED
    BY <1>3, <2>1, AnsweredTypes DEF Inspect, TypeOK
<1>4. ASSUME NEW r \in Runs, ResetProcessed(r) PROVE TypeOK'
  <2>1. Answered(r) /\ ResetErrorMode(r, RequestKey(r))
    BY <1>4, ProcessedAnswers DEF ResetProcessed
  <2> QED
    BY <1>4, <2>1, AnsweredTypes, ResetTypes DEF ResetProcessed, TypeOK
<1>5. ASSUME NEW r \in Runs, ResetUnprocessed(r) PROVE TypeOK'
  <2>1. Answered(r)
    BY <1>5, UnprocessedAnswers
  <2> QED
    BY <1>5, <2>1, AnsweredTypes DEF ResetUnprocessed, TypeOK
<1>6. ASSUME NEW r \in Runs, Delay(r) PROVE TypeOK'
  <2>1. "target" \in Phases
    BY DEF Phases, Running, Validating
  <2> QED
    BY <1>6, <2>1 DEF Delay, TypeOK
<1>7. ASSUME NEW r \in Runs, Check(r) PROVE TypeOK'
  <2>1. {"health", "rate", "alert", "done"} \subseteq Phases
    BY DEF Phases, Running, Validating
  <2>2. UNCHANGED <<target, monitoring, setup, execution, in_flight, stops,
                    applied, ever_applied, reinjected, failed>>
    BY <1>7, CheckCases
  <2>3. /\ phase' \in [Runs -> Phases]
        /\ healthy' \in [Runs -> BOOLEAN]
        /\ verdict' \in [Runs -> {"none", "passed", "failed"}]
    <3>1. CASE \E good \in BOOLEAN, next \in {"health", "rate", "alert"} :
                 /\ phase' = [phase EXCEPT ![r] = next]
                 /\ healthy' = [healthy EXCEPT ![r] = good]
                 /\ UNCHANGED verdict
      BY <2>1, <3>1 DEF TypeOK
    <3>2. CASE \E good \in BOOLEAN :
                 /\ phase' = [phase EXCEPT ![r] = "done"]
                 /\ healthy' = [healthy EXCEPT ![r] = TRUE]
                 /\ verdict' = [verdict EXCEPT ![r] = IF good THEN "passed" ELSE "failed"]
      BY <2>1, <3>2 DEF TypeOK
    <3> QED
      BY <1>7, <3>1, <3>2, CheckCases
  <2> QED
    BY <2>2, <2>3 DEF TypeOK
<1>8. ASSUME NEW r \in Runs, ResetProcessedLate(r) PROVE TypeOK'
  <2>1. ResetErrorMode(r, RequestKey(r))
    BY <1>8 DEF ResetProcessedLate
  <2> QED
    BY <1>8, <2>1, ResetTypes DEF ResetProcessedLate, TypeOK
<1>9. ASSUME NEW r \in Runs, Stop(r) PROVE TypeOK'
  <2>1. "stopped" \in Phases /\ "none" \in Results
    BY DEF Phases, Results
  <2>2. stops' \in 0 .. MaxStops /\ 0 \in 0 .. MaxRetries
    BY <1>9, RecoveryAssumption DEF Stop, TypeOK
  <2>3. result' \in [Runs -> Results]
    BY <1>9, <2>1 DEF Stop, TypeOK
  <2>4. in_flight' \subseteq Runs
    BY <1>9 DEF Stop, TypeOK
  <2> QED
    BY <1>9, <2>1, <2>2, <2>3, <2>4 DEF Stop, TypeOK
<1>10. ASSUME NEW r \in Runs, Resume(r) PROVE TypeOK'
  <2>1. {"inspect", "delay"} \subseteq Phases
    BY DEF Phases, Running, Executing, Validating
  <2> QED
    BY <1>10, <2>1 DEF Resume, TypeOK
<1>11. CASE UNCHANGED vars
  BY <1>11 DEF vars, TypeOK
<1> QED
  BY <1>1, <1>2, <1>3, <1>4, <1>5, <1>6, <1>7, <1>8, <1>9, <1>10, <1>11 DEF Next, RunStep

(***************************************************************************)
(* The table of keys                                                       *)
(***************************************************************************)
\* Whatever the table says of a request, its effect is there afterwards, once.
LEMMA ResetKeyed ==
    ASSUME TypeOK, Keyed, NEW r \in Runs, ResetErrorMode(r, RequestKey(r))
    PROVE  /\ \A q \in Runs : applied'[q] = IF q \in keys' THEN 1 ELSE 0
           /\ keys' \subseteq ever_applied'
           /\ ever_applied' = ever_applied \union {r}
           /\ error_mode' => error_mode
           /\ \/ UNCHANGED <<error_mode, applied, ever_applied>>
              \/ /\ applied[r] = 0 /\ applied' = [applied EXCEPT ![r] = 1]
                 /\ error_mode' = FALSE
<1>1. CASE r \in keys
  BY <1>1 DEF ResetErrorMode, RequestKey, target, Keyed
<1>2. CASE r \notin keys
  <2>1. /\ error_mode' = FALSE
        /\ keys' = keys \union {r}
        /\ applied' = [applied EXCEPT ![r] = applied[r] + 1]
        /\ ever_applied' = ever_applied \union {r}
    BY <1>2, RecoveryAssumption DEF ResetErrorMode, RequestKey, Remembered
  <2>2. applied[r] = 0
    BY <1>2 DEF Keyed
  <2>3. applied' = [applied EXCEPT ![r] = 1]
    BY <2>1, <2>2
  <2>4. \A q \in Runs : applied'[q] = IF q \in keys' THEN 1 ELSE 0
    BY <2>1, <2>3 DEF Keyed, TypeOK
  <2> QED
    BY <2>1, <2>2, <2>3, <2>4 DEF Keyed
<1> QED
  BY <1>1, <1>2

LEMMA KeyedStep == TypeOK /\ Keyed /\ [Next]_vars => Keyed'
<1> SUFFICES ASSUME TypeOK, Keyed, [Next]_vars PROVE Keyed'
  OBVIOUS
<1> USE DEF target, monitoring, setup, execution, validation, history
<1>1. CASE RestartTarget
  <2>1. keys' = {} /\ applied' = [r \in Runs |-> 0] /\ UNCHANGED <<ever_applied, action, result>>
    BY <1>1 DEF RestartTarget
  <2> QED
    BY <2>1 DEF Keyed
<1>2. CASE UNCHANGED <<keys, applied, ever_applied, action, result>>
  BY <1>2 DEF Keyed
<1>3. CASE Environment
  <2>1. CASE \E enabled \in BOOLEAN : OperatorSetsErrorMode(enabled)
    BY <1>2, <2>1 DEF OperatorSetsErrorMode
  <2>2. CASE ChangePool \/ ServeFailure \/ Scrape \/ WindowPasses
    BY <1>2, <2>2 DEF ChangePool, ServeFailure, Scrape, WindowPasses
  <2> QED
    BY <1>1, <1>3, <2>1, <2>2 DEF Environment
<1>4. ASSUME NEW r \in Runs, Execute(r) \/ Delay(r) \/ Resume(r) PROVE Keyed'
  BY <1>2, <1>4 DEF Execute, Delay, Resume
<1>5. ASSUME NEW r \in Runs, Check(r) PROVE Keyed'
  <2>1. UNCHANGED <<target, setup, execution, applied, ever_applied>>
    BY <1>5, CheckCases
  <2> QED
    BY <1>2, <2>1
<1>6. ASSUME NEW r \in Runs, Inspect(r) PROVE Keyed'
  <2>1. UNCHANGED <<keys, applied, ever_applied, action>>
    BY <1>6 DEF Inspect
  <2>2. \/ result' = result
        \/ \E status \in Results \ {"none"} :
             /\ result' = [result EXCEPT ![r] = status]
             /\ action[r] = "RESET_DEMO_FAILURE" => status # "SUCCEEDED"
    BY <1>6, InspectAnswers
  <2> QED
    BY <2>1, <2>2 DEF Keyed, TypeOK
<1>7. ASSUME NEW r \in Runs, ResetProcessed(r) PROVE Keyed'
  <2>1. ResetErrorMode(r, RequestKey(r)) /\ action' = action
    BY <1>7 DEF ResetProcessed
  <2>2. result' = result \/ \E status \in Results \ {"none"} : result' = [result EXCEPT ![r] = status]
    BY <1>7, ProcessedAnswers
  <2>3. \A q \in Runs \ {r} : result'[q] = result[q]
    BY <2>2 DEF TypeOK
  <2> QED
    BY <2>1, <2>3, ResetKeyed DEF Keyed
<1>8. ASSUME NEW r \in Runs, ResetUnprocessed(r) PROVE Keyed'
  <2>1. UNCHANGED <<keys, applied, ever_applied, action>>
    BY <1>8 DEF ResetUnprocessed
  <2>2. result' = result \/ \E status \in {"FAILED", "TIMED_OUT"} :
             result' = [result EXCEPT ![r] = status]
    BY <1>8, UnprocessedAnswers
  <2> QED
    BY <2>1, <2>2 DEF Keyed, TypeOK
<1>9. ASSUME NEW r \in Runs, ResetProcessedLate(r) PROVE Keyed'
  <2>1. ResetErrorMode(r, RequestKey(r)) /\ UNCHANGED <<action, result>>
    BY <1>9 DEF ResetProcessedLate
  <2> QED
    BY <2>1, ResetKeyed DEF Keyed
<1>10. ASSUME NEW r \in Runs, Stop(r) PROVE Keyed'
  <2>1. UNCHANGED <<keys, applied, ever_applied, action>>
    BY <1>10 DEF Stop
  <2>2. PICK kept \in {"none", result[r]} : result' = [result EXCEPT ![r] = kept]
    BY <1>10 DEF Stop
  <2> QED
    BY <2>1, <2>2 DEF Keyed, TypeOK
<1>11. CASE UNCHANGED vars
  BY <1>2, <1>11 DEF vars
<1> QED
  BY <1>3, <1>4, <1>5, <1>6, <1>7, <1>8, <1>9, <1>10, <1>11 DEF Next, RunStep

(***************************************************************************)
(* What the data stand for                                                 *)
(***************************************************************************)
LEMMA CountedStep == TypeOK /\ Counted /\ [Next]_vars => Counted'
<1> SUFFICES ASSUME TypeOK, Counted, [Next]_vars PROVE Counted'
  OBVIOUS
<1> USE DEF target, monitoring, setup, execution, validation, history
<1>1. CASE UNCHANGED <<monitoring, validator, verdict, failed>>
  BY <1>1 DEF Counted, VerdictNeedsData
<1>2. CASE Environment
  <2>1. CASE \E enabled \in BOOLEAN : OperatorSetsErrorMode(enabled)
    BY <1>1, <2>1 DEF OperatorSetsErrorMode
  <2>2. CASE ChangePool
    BY <1>1, <2>2 DEF ChangePool
  <2>3. CASE ServeFailure
    BY <2>3 DEF ServeFailure, Counted, VerdictNeedsData
  <2>4. CASE RestartTarget
    BY <2>4 DEF RestartTarget, Counted, VerdictNeedsData
  <2>5. CASE Scrape
    BY <2>5 DEF Scrape, Counted, VerdictNeedsData
  <2>6. CASE WindowPasses
    BY <2>6 DEF WindowPasses, Counted, VerdictNeedsData
  <2> QED
    BY <1>2, <2>1, <2>2, <2>3, <2>4, <2>5, <2>6 DEF Environment
<1>3. ASSUME NEW r \in Runs,
             Execute(r) \/ Inspect(r) \/ ResetProcessed(r) \/ ResetUnprocessed(r) \/ Delay(r)
      PROVE  Counted'
  BY <1>1, <1>3 DEF Execute, Inspect, ResetProcessed, ResetUnprocessed, Delay
<1>4. ASSUME NEW r \in Runs, ResetProcessedLate(r) \/ Stop(r) \/ Resume(r) PROVE Counted'
  BY <1>1, <1>4 DEF ResetProcessedLate, Stop, Resume
<1>5. ASSUME NEW r \in Runs, Check(r) PROVE Counted'
  <2>1. UNCHANGED <<monitoring, setup, failed>>
    BY <1>5, CheckCases
  <2>2. PICK good \in BOOLEAN :
          /\ good => healthy[r] /\ Passes(r, phase[r])
          /\ \/ verdict' = verdict
             \/ /\ verdict' = [verdict EXCEPT ![r] = IF good THEN "passed" ELSE "failed"]
                /\ validator = "RecoveryValidator" => phase[r] = "alert"
    BY <1>5, CheckCases
  <2>3. CASE verdict' = verdict
    BY <1>1, <2>1, <2>3
  <2>4. CASE verdict' # verdict /\ validator = "RecoveryValidator" /\ good
    <3>1. rate = "low"
      BY <2>2, <2>4 DEF Passes, RateIsLow
    <3>2. failed
      BY <3>1 DEF Counted
    <3> QED
      BY <2>1, <3>2 DEF Counted, VerdictNeedsData
  <2>5. CASE verdict' # verdict /\ ~ good
    <3>1. \A q \in Runs : verdict'[q] = "passed" => verdict[q] = "passed"
      BY <2>2, <2>5 DEF TypeOK
    <3> QED
      BY <2>1, <3>1 DEF Counted, VerdictNeedsData
  <2>6. CASE validator # "RecoveryValidator"
    BY <2>1, <2>6 DEF Counted, VerdictNeedsData
  <2> QED
    BY <2>3, <2>4, <2>5, <2>6
<1>6. CASE UNCHANGED vars
  BY <1>1, <1>6 DEF vars
<1> QED
  BY <1>2, <1>3, <1>4, <1>5, <1>6 DEF Next, RunStep

(***************************************************************************)
(* From the check of the target to the verdict                             *)
(***************************************************************************)
\* A step of a run that has no verdict yet, and does not go on past the check of
\* its target, disturbs nothing, as long as nothing injects errors.
LEMMA SettledElsewhere ==
    ASSUME TypeOK, Settled, NEW r \in Runs,
           phase[r] # "done",
           phase'[r] \notin {"health", "rate", "alert"},
           \A q \in Runs \ {r} : /\ phase'[q] = phase[q]
                                  /\ healthy'[q] = healthy[q]
                                  /\ (q \in reinjected => q \in reinjected'),
           UNCHANGED <<verdict, action>>,
           error_mode' => error_mode
    PROVE  Settled'
<1>1. verdict[r] = "none"
  BY DEF Settled
<1>2. /\ verdict'[r] = "none" /\ ~ Clear(r)'
      /\ action' = action
  BY <1>1 DEF Clear
<1> SUFFICES ASSUME NEW q \in Runs
             PROVE  /\ verdict'[q] # "none" => phase'[q] = "done"
                    /\ action'[q] = "RESET_DEMO_FAILURE" /\ Clear(q)' /\ error_mode'
                         => q \in reinjected'
  BY DEF Settled
<1>3. CASE q = r
  BY <1>2, <1>3
<1>4. CASE q # r
  <2>1. phase'[q] = phase[q] /\ healthy'[q] = healthy[q] /\ (q \in reinjected => q \in reinjected')
    BY <1>4
  <2>2. verdict'[q] = verdict[q] /\ (Clear(q)' => Clear(q))
    BY <2>1 DEF Clear
  <2> QED
    BY <1>2, <2>1, <2>2 DEF Settled
<1> QED
  BY <1>3, <1>4

\* What a step that answers leaves of a run's phase.
LEMMA AnsweredPhase ==
    ASSUME TypeOK, NEW r \in Runs, Answered(r), phase[r] \in Executing
    PROVE  /\ phase[r] # "done"
           /\ phase'[r] \notin {"health", "rate", "alert"}
           /\ \A q \in Runs \ {r} : phase'[q] = phase[q]
BY DEF Answered, Executing, TypeOK

LEMMA SettledStep == TypeOK /\ Keyed /\ Settled /\ [Next]_vars => Settled'
<1> SUFFICES ASSUME TypeOK, Keyed, Settled, [Next]_vars PROVE Settled'
  OBVIOUS
<1> USE DEF target, monitoring, setup, execution, validation, history
<1>1. CASE /\ UNCHANGED <<action, phase, healthy, verdict, reinjected>>
           /\ error_mode' => error_mode
  BY <1>1 DEF Settled, Clear
<1>2. CASE Environment
  <2>1. ASSUME NEW enabled \in BOOLEAN, OperatorSetsErrorMode(enabled) PROVE Settled'
    <3>1. UNCHANGED <<action, phase, healthy, verdict>>
      BY <2>1 DEF OperatorSetsErrorMode
    <3>2. CASE enabled
      <4>1. \A r \in Runs : Clear(r) => r \in reinjected'
        BY <2>1, <3>2 DEF OperatorSetsErrorMode, TargetChecked, Clear
      <4> QED
        BY <3>1, <4>1 DEF Settled, Clear
    <3>3. CASE ~ enabled
      BY <1>1, <2>1, <3>1, <3>3 DEF OperatorSetsErrorMode
    <3> QED
      BY <3>2, <3>3
  <2>2. CASE ChangePool \/ ServeFailure \/ RestartTarget \/ Scrape \/ WindowPasses
    BY <1>1, <2>2 DEF ChangePool, ServeFailure, RestartTarget, Scrape, WindowPasses
  <2> QED
    BY <1>2, <2>1, <2>2 DEF Environment
<1>3. ASSUME NEW r \in Runs, Execute(r) PROVE Settled'
  <2>1. /\ phase[r] # "done" /\ phase'[r] \notin {"health", "rate", "alert"}
        /\ \A q \in Runs \ {r} : phase'[q] = phase[q]
        /\ UNCHANGED <<healthy, verdict, action, reinjected, error_mode>>
    BY <1>3 DEF Execute, TypeOK
  <2> QED
    BY <2>1, SettledElsewhere
<1>4. ASSUME NEW r \in Runs, Inspect(r) PROVE Settled'
  <2>1. phase[r] \in Executing /\ Answered(r)
    BY <1>4, InspectAnswers DEF Inspect, Executing
  <2>2. UNCHANGED <<healthy, verdict, action, reinjected, error_mode>>
    BY <1>4 DEF Inspect
  <2> QED
    BY <2>1, <2>2, AnsweredPhase, SettledElsewhere
<1>5. ASSUME NEW r \in Runs, ResetProcessed(r) PROVE Settled'
  <2>1. phase[r] \in Executing /\ Answered(r) /\ (error_mode' => error_mode)
    BY <1>5, ProcessedAnswers, ResetKeyed DEF ResetProcessed, Executing
  <2>2. UNCHANGED <<healthy, verdict, action, reinjected>>
    BY <1>5 DEF ResetProcessed
  <2> QED
    BY <2>1, <2>2, AnsweredPhase, SettledElsewhere
<1>6. ASSUME NEW r \in Runs, ResetUnprocessed(r) PROVE Settled'
  <2>1. phase[r] \in Executing /\ Answered(r)
    BY <1>6, UnprocessedAnswers DEF ResetUnprocessed, Executing
  <2>2. UNCHANGED <<healthy, verdict, action, reinjected, error_mode>>
    BY <1>6 DEF ResetUnprocessed
  <2> QED
    BY <2>1, <2>2, AnsweredPhase, SettledElsewhere
<1>7. ASSUME NEW r \in Runs, Delay(r) PROVE Settled'
  <2>1. /\ phase[r] # "done" /\ phase'[r] \notin {"health", "rate", "alert"}
        /\ \A q \in Runs \ {r} : phase'[q] = phase[q] /\ healthy'[q] = healthy[q]
        /\ UNCHANGED <<verdict, action, reinjected, error_mode>>
    BY <1>7 DEF Delay, TypeOK
  <2> QED
    BY <2>1, SettledElsewhere
<1>8. ASSUME NEW r \in Runs, Check(r) PROVE Settled'
  <2>1. /\ phase[r] \in {"target", "health", "rate", "alert"}
        /\ UNCHANGED <<error_mode, action, reinjected>>
    BY <1>8, CheckCases
  <2>2. verdict[r] = "none"
    BY <2>1 DEF Settled
  <2>3. PICK good \in BOOLEAN :
          /\ good => healthy[r] /\ Passes(r, phase[r])
          /\ \/ /\ \E next \in {"health", "rate", "alert"} : phase' = [phase EXCEPT ![r] = next]
                /\ healthy' = [healthy EXCEPT ![r] = good]
                /\ verdict' = verdict
             \/ /\ phase' = [phase EXCEPT ![r] = "done"]
                /\ healthy' = [healthy EXCEPT ![r] = TRUE]
                /\ verdict' = [verdict EXCEPT ![r] = IF good THEN "passed" ELSE "failed"]
    BY <1>8, CheckCases
  <2>4. good /\ action[r] = "RESET_DEMO_FAILURE" /\ error_mode => r \in reinjected
    BY <2>1, <2>3 DEF Passes, Settled, Clear
  <2>5. \A q \in Runs \ {r} : /\ phase'[q] = phase[q] /\ healthy'[q] = healthy[q]
                               /\ verdict'[q] = verdict[q]
    BY <2>3 DEF TypeOK
  <2>6. /\ verdict'[r] # "none" => phase'[r] = "done"
        /\ Clear(r)' => good
    BY <2>2, <2>3 DEF TypeOK, Clear
  <2> QED
    BY <2>1, <2>4, <2>5, <2>6 DEF Settled, Clear
<1>9. ASSUME NEW r \in Runs, ResetProcessedLate(r) PROVE Settled'
  <2>1. error_mode' => error_mode
    BY <1>9, ResetKeyed DEF ResetProcessedLate
  <2> QED
    BY <1>1, <1>9, <2>1 DEF ResetProcessedLate
<1>10. ASSUME NEW r \in Runs, Stop(r) PROVE Settled'
  <2>1. /\ phase[r] # "done" /\ phase'[r] \notin {"health", "rate", "alert"}
        /\ \A q \in Runs \ {r} : phase'[q] = phase[q] /\ healthy'[q] = healthy[q]
        /\ UNCHANGED <<verdict, action, reinjected, error_mode>>
    BY <1>10 DEF Stop, TypeOK, Running, Executing, Validating
  <2> QED
    BY <2>1, SettledElsewhere
<1>11. ASSUME NEW r \in Runs, Resume(r) PROVE Settled'
  <2>1. /\ phase[r] # "done" /\ phase'[r] \notin {"health", "rate", "alert"}
        /\ \A q \in Runs \ {r} : phase'[q] = phase[q] /\ (q \in reinjected => q \in reinjected')
        /\ UNCHANGED <<healthy, verdict, action, error_mode>>
    BY <1>11 DEF Resume, TypeOK
  <2> QED
    BY <2>1, SettledElsewhere
<1>12. CASE UNCHANGED vars
  BY <1>1, <1>12 DEF vars
<1> QED
  BY <1>2, <1>3, <1>4, <1>5, <1>6, <1>7, <1>8, <1>9, <1>10, <1>11, <1>12 DEF Next, RunStep

(***************************************************************************)
(* The invariants                                                          *)
(***************************************************************************)
LEMMA Initially == Init => IInv
<1> SUFFICES ASSUME Init PROVE IInv
  OBVIOUS
<1>1. TypeOK
  BY TypeInit
<1>2. Keyed
  BY DEF Init, Keyed
<1>3. Settled
  BY DEF Init, Settled, Clear
<1>4. Counted
  BY DEF Init, Counted, VerdictNeedsData
<1> QED
  BY <1>1, <1>2, <1>3, <1>4 DEF IInv

LEMMA Preserved == IInv /\ [Next]_vars => IInv'
BY TypeStep, KeyedStep, SettledStep, CountedStep DEF IInv

\* The inductive invariant: the target's table agrees with its effects, and the
\* runs' checks with what they saw (demo_service/app/main.py, the executors and
\* the validators).
THEOREM Inductive == Spec => []IInv
<1> QED
  BY Initially, Preserved, PTL DEF Spec

\* The state is well-typed for any number of runs, retries and errors.
THEOREM TypeCorrect == Spec => []TypeOK
<1>1. IInv => TypeOK
  BY DEF IInv
<1> QED
  BY <1>1, Inductive, PTL

\* When the reset of a run was validated, whether or not its executor reported
\* the answer of an earlier one, errors are injected only by somebody who did so
\* after the run's target check (check_remediation_recovered, RecoveryValidator).
THEOREM RealRecovery == Spec => []RecoveryIsReal
<1>1. IInv => RecoveryIsReal
  BY DEF IInv, Settled, Clear, RecoveryIsReal
<1> QED
  BY <1>1, Inductive, PTL

\* RecoveryValidator passes nothing without data (recovery_validator.py).
THEOREM DataBackedVerdict == Spec => []VerdictNeedsData
<1>1. IInv => VerdictNeedsData
  BY DEF IInv, Counted
<1> QED
  BY <1>1, Inductive, PTL

(***************************************************************************)
(* The refinement                                                          *)
(***************************************************************************)
\* A new result of a reset is what its caller is told; one of a restart is not.
LEMMA Telling ==
    ASSUME TypeOK, NEW r \in Runs, NEW x \in Results,
           action' = action, result' = [result EXCEPT ![r] = x],
           action[r] = "RESET_DEMO_FAILURE" /\ x = "SUCCEEDED" => r \in ever_applied'
    PROVE  Service!Tell(r) \/ Told' = Told
<1>1. CASE action[r] = "RESET_DEMO_FAILURE"
  <2>1. Told' = [Told EXCEPT ![r] = x]
    BY <1>1 DEF Told, TypeOK
  <2>2. x \in Service!Answers
    BY DEF Results, Service!Answers
  <2> QED
    BY <1>1, <2>1, <2>2 DEF Service!Tell
<1>2. CASE action[r] # "RESET_DEMO_FAILURE"
  BY <1>2 DEF Told, TypeOK
<1> QED
  BY <1>1, <1>2

\* A processed request takes effect, or has done so before.
LEMMA Effect ==
    ASSUME TypeOK, Keyed, NEW r \in Runs, ResetErrorMode(r, RequestKey(r))
    PROVE  Service!TakeEffect(r) \/ UNCHANGED <<error_mode, applied, ever_applied>>
BY ResetKeyed DEF Service!TakeEffect

LEMMA RefinementInit == Init => Service!Init
BY DEF Init, Service!Init, Told

LEMMA RefinementStep == IInv /\ [Next]_vars => [Service!Next]_(Service!vars)
<1> SUFFICES ASSUME TypeOK, Keyed, Keyed', [Next]_vars
             PROVE  Service!Next \/ UNCHANGED <<error_mode, applied, ever_applied, Told>>
  BY KeyedStep DEF IInv, Service!vars
<1> USE DEF target, monitoring, setup, execution, validation, history
<1>1. CASE UNCHANGED <<error_mode, applied, ever_applied, action, result>>
  BY <1>1 DEF Told
<1>2. CASE Environment
  <2>1. ASSUME NEW enabled \in BOOLEAN, OperatorSetsErrorMode(enabled) PROVE Service!Next
    <3>1. Service!Set(enabled)
      BY <2>1 DEF OperatorSetsErrorMode, Service!Set, Told
    <3> QED
      BY <3>1 DEF Service!Next
  <2>2. CASE RestartTarget
    <3>1. Service!Restart
      BY <2>2 DEF RestartTarget, Service!Restart, Told
    <3> QED
      BY <3>1 DEF Service!Next
  <2>3. CASE ChangePool \/ ServeFailure \/ Scrape \/ WindowPasses
    BY <1>1, <2>3 DEF ChangePool, ServeFailure, Scrape, WindowPasses
  <2> QED
    BY <1>2, <2>1, <2>2, <2>3 DEF Environment
<1>3. ASSUME NEW r \in Runs, Execute(r) \/ Delay(r) \/ Resume(r)
      PROVE  UNCHANGED <<error_mode, applied, ever_applied, Told>>
  BY <1>1, <1>3 DEF Execute, Delay, Resume, Told
<1>4. ASSUME NEW r \in Runs, Check(r)
      PROVE  UNCHANGED <<error_mode, applied, ever_applied, Told>>
  BY <1>4, CheckCases DEF Told
<1>5. ASSUME NEW r \in Runs,
             Service!TakeEffect(r) \/ UNCHANGED <<error_mode, applied, ever_applied>>,
             Service!Tell(r) \/ Told' = Told
      PROVE  Service!Next
  <2>1. Service!Reset(r)
    BY <1>5 DEF Service!Reset
  <2> QED
    BY <2>1 DEF Service!Next
<1>6. ASSUME NEW r \in Runs, action' = action,
             result' = result \/ \E x \in Results : result' = [result EXCEPT ![r] = x]
      PROVE  Service!Tell(r) \/ Told' = Told
  <2>1. CASE result' = result
    BY <1>6, <2>1 DEF Told
  <2>2. ASSUME NEW x \in Results, result' = [result EXCEPT ![r] = x]
        PROVE  Service!Tell(r) \/ Told' = Told
    <3>1. result'[r] = x
      BY <2>2 DEF TypeOK
    <3>2. action[r] = "RESET_DEMO_FAILURE" /\ x = "SUCCEEDED" => r \in ever_applied'
      BY <1>6, <3>1 DEF Keyed
    <3> QED
      BY <1>6, <2>2, <3>2, Telling
  <2> QED
    BY <1>6, <2>1, <2>2
<1>7. ASSUME NEW r \in Runs, Inspect(r) PROVE Service!Next
  <2>1. UNCHANGED <<error_mode, applied, ever_applied, action>>
    BY <1>7 DEF Inspect
  <2>2. result' = result \/ \E x \in Results : result' = [result EXCEPT ![r] = x]
    BY <1>7, InspectAnswers
  <2> QED
    BY <1>5, <1>6, <2>1, <2>2
<1>8. ASSUME NEW r \in Runs, ResetProcessed(r) PROVE Service!Next
  <2>1. ResetErrorMode(r, RequestKey(r)) /\ action' = action
    BY <1>8 DEF ResetProcessed
  <2>2. result' = result \/ \E x \in Results : result' = [result EXCEPT ![r] = x]
    BY <1>8, ProcessedAnswers
  <2> QED
    BY <1>5, <1>6, <2>1, <2>2, Effect
<1>9. ASSUME NEW r \in Runs, ResetUnprocessed(r) PROVE Service!Next
  <2>1. UNCHANGED <<error_mode, applied, ever_applied, action>>
    BY <1>9 DEF ResetUnprocessed
  <2>2. result' = result \/ \E x \in Results : result' = [result EXCEPT ![r] = x]
    BY <1>9, UnprocessedAnswers DEF Results
  <2> QED
    BY <1>5, <1>6, <2>1, <2>2
<1>10. ASSUME NEW r \in Runs, ResetProcessedLate(r) PROVE Service!Next
  <2>1. ResetErrorMode(r, RequestKey(r)) /\ UNCHANGED <<action, result>>
    BY <1>10 DEF ResetProcessedLate
  <2>2. Told' = Told
    BY <2>1 DEF Told
  <2> QED
    BY <1>5, <2>1, <2>2, Effect
<1>11. ASSUME NEW r \in Runs, Stop(r) PROVE Service!Next
  <2>1. UNCHANGED <<error_mode, applied, ever_applied, action>>
    BY <1>11 DEF Stop
  <2>2. \E kept \in {"none", result[r]} : result' = [result EXCEPT ![r] = kept]
    BY <1>11 DEF Stop
  <2>3. \E x \in Results : result' = [result EXCEPT ![r] = x]
    BY <2>2 DEF TypeOK, Results
  <2> QED
    BY <1>5, <1>6, <2>1, <2>3
<1>12. CASE UNCHANGED vars
  BY <1>1, <1>12 DEF vars
<1> QED
  BY <1>2, <1>3, <1>4, <1>7, <1>8, <1>9, <1>10, <1>11, <1>12 DEF Next, RunStep

\* Retries, repeated executions and late requests under one key are a service
\* that resets at most once per life and caller and reports no success that is
\* not one: the executors with the target's idempotency table implement it.
THEOREM Refinement == Spec => ResetsOnce
<1> QED
  BY Inductive, RefinementInit, RefinementStep, PTL DEF Spec, ResetsOnce, Service!Spec

=============================================================================
