--------------------------- MODULE JobQueueProofs ---------------------------
(***************************************************************************)
(* Theorems about JobQueue, for every set of jobs and workers, every lease *)
(* length and retry budget.  TypeInv comes first; Inv is the inductive     *)
(* invariant from which the safety properties follow.                      *)
(***************************************************************************)
EXTENDS JobQueue, TLAPS

\* 2 ** attempt_count is an integer.
LEMMA BackoffInt == ASSUME NEW n \in Nat PROVE Backoff(n) \in Int
  BY DEF Backoff

\* No action takes a variable out of its type.
THEOREM TypeCorrect == Spec => []TypeOK
<1>1. Init => TypeOK
  BY JobQueueAssumption DEF Init, TypeOK, Status, Unread
<1>2. TypeOK /\ [Next]_vars => TypeOK'
  <2> SUFFICES ASSUME TypeOK, [Next]_vars PROVE TypeOK'
    OBVIOUS
  <2> USE JobQueueAssumption
      DEF TypeOK, Status, Unread, row, worker, server, history
  <2>1. ASSUME NEW w \in Workers, ClaimNextJob(w) PROVE TypeOK'
    BY <2>1 DEF ClaimNextJob
  <2>2. ASSUME NEW w \in Workers, Investigate(w) PROVE TypeOK'
    BY <2>2 DEF Investigate, GraphReturns
  <2>3. ASSUME NEW w \in Workers, ReadJob(w) PROVE TypeOK'
    BY <2>3 DEF ReadJob
  <2>4. ASSUME NEW w \in Workers, SettleJob(w) PROVE TypeOK'
    BY <2>4, BackoffInt DEF SettleJob, Settled, Release
  <2>5. ASSUME NEW w \in Workers, WorkerCrash(w) PROVE TypeOK'
    BY <2>5 DEF WorkerCrash, Release
  <2>6. ASSUME NEW j \in Jobs, Enqueue(j) PROVE TypeOK'
    BY <2>6 DEF Enqueue
  <2>7. ASSUME NEW j \in Jobs, BackgroundRead(j) PROVE TypeOK'
    BY <2>7 DEF BackgroundRead
  <2>8. ASSUME NEW j \in Jobs, BackgroundStart(j) PROVE TypeOK'
    BY <2>8 DEF BackgroundStart
  <2>9. ASSUME NEW j \in Jobs, BackgroundAbort(j) PROVE TypeOK'
    BY <2>9 DEF BackgroundAbort
  <2>10. ASSUME NEW j \in Jobs, BackgroundInvestigate(j) PROVE TypeOK'
    BY <2>10 DEF BackgroundInvestigate, GraphReturns
  <2>11. ASSUME NEW j \in Jobs, BackgroundComplete(j) PROVE TypeOK'
    BY <2>11 DEF BackgroundComplete
  <2>11a. ASSUME NEW j \in Jobs, BackgroundCommitFails(j) PROVE TypeOK'
    BY <2>11a DEF BackgroundCommitFails
  <2>12. ASSUME NEW j \in Jobs, BackgroundReadFailed(j) PROVE TypeOK'
    BY <2>12 DEF BackgroundReadFailed
  <2>13. ASSUME NEW j \in Jobs, BackgroundFail(j) PROVE TypeOK'
    BY <2>13 DEF BackgroundFail
  <2>14. ASSUME NEW j \in Jobs, ManualStart(j) PROVE TypeOK'
    BY <2>14 DEF ManualStart
  <2>15. ASSUME NEW j \in Jobs, ManualFinish(j) PROVE TypeOK'
    BY <2>15 DEF ManualFinish, GraphReturns
  <2>16. CASE ServerCrash
    BY <2>16 DEF ServerCrash
  <2>17. CASE Tick
    BY <2>17 DEF Tick, Elapsed
  <2>18. CASE UNCHANGED vars
    BY <2>18 DEF vars
  <2> QED
    BY <2>1, <2>2, <2>3, <2>4, <2>5, <2>6, <2>7, <2>8, <2>9, <2>10, <2>11,
       <2>11a, <2>12, <2>13, <2>14, <2>15, <2>16, <2>17, <2>18 DEF Next
<1> QED
  BY <1>1, <1>2, PTL DEF Spec

-----------------------------------------------------------------------------
(***************************************************************************)
(* The inductive invariant.  While no lease on j ran out under a worker,   *)
(* whoever holds j holds it alone, under a live lease, and has read the    *)
(* current attempt_count; a RUNNING row has a processor that will write    *)
(* it, so not one whose UPDATE leaves the status out.                      *)
(***************************************************************************)
WorkerLocals ==
    /\ \A w \in Workers : phase[w] = "idle" => ~succeeded[w]
    /\ \A w \in Workers : succeeded[w] => claimed[w] \in investigated
    /\ \A j \in Jobs : bg_ok[j] => j \in investigated

HeldUnderLease ==
    \A w \in Workers, j \in Jobs :
        claimed[w] = j /\ j \notin overran =>
            /\ status[j] \notin {"ABSENT", "PENDING"}
            /\ lease[j] \in Nat
            /\ phase[w] = "committing" => seen[w].attempt_count = attempt_count[j]

AttemptsLeft ==
    \A j \in Jobs :
        /\ status[j] = "ABSENT" => attempt_count[j] = 0
        /\ j \notin overran => attempt_count[j] <= MaxAttempts
        /\ j \notin overran /\ status[j] = "PENDING" => attempt_count[j] < MaxAttempts

Writer(w, j) ==
    claimed[w] = j /\ (phase[w] = "committing" => seen[w].status = "RUNNING")

RunningHasWriter ==
    \A j \in Jobs :
        status[j] = "RUNNING" =>
            (\E w \in Workers : Writer(w, j)) \/ BackgroundHolds(j) \/ j \in crashed

IInv ==
    /\ TypeOK
    /\ WorkerLocals
    /\ HeldUnderLease
    /\ OneClaimPerLease
    /\ AttemptsLeft
    /\ RunningHasWriter
    /\ CompletedMeansInvestigated

\* Every step of JobQueue preserves the inductive invariant.
LEMMA InductiveStep == ASSUME IInv, TypeOK', [Next]_vars PROVE IInv'
<1> USE JobQueueAssumption DEF TypeOK, Status, Unread, row, worker, server, history
<1>1. ASSUME NEW w \in Workers, ClaimNextJob(w) PROVE IInv'
  <2>1. WorkerLocals'
    BY <1>1
    DEF IInv, ClaimNextJob, NextClaimable, Claimable, LeaseExpired,
        WorkerLocals
  <2>2. HeldUnderLease'
    BY <1>1
    DEF IInv, ClaimNextJob, NextClaimable, Claimable, LeaseExpired,
        HeldUnderLease, OneClaimPerLease
  <2>3. OneClaimPerLease'
    BY <1>1
    DEF IInv, ClaimNextJob, NextClaimable, Claimable, LeaseExpired,
        OneClaimPerLease, HeldUnderLease
  <2>4. AttemptsLeft'
    BY <1>1
    DEF IInv, ClaimNextJob, NextClaimable, Claimable, LeaseExpired,
        AttemptsLeft, HeldUnderLease
  <2>5. RunningHasWriter'
    BY <1>1
    DEF IInv, ClaimNextJob, NextClaimable, Claimable, LeaseExpired,
        RunningHasWriter, Writer, BackgroundHolds, Owns
  <2>6. CompletedMeansInvestigated'
    BY <1>1
    DEF IInv, ClaimNextJob, NextClaimable, Claimable, LeaseExpired,
        CompletedMeansInvestigated, WorkerLocals
  <2> QED
    BY <2>1, <2>2, <2>3, <2>4, <2>5, <2>6 DEF IInv
<1>2. ASSUME NEW w \in Workers, Investigate(w) PROVE IInv'
  <2>1. WorkerLocals'
    BY <1>2 DEF IInv, Investigate, GraphReturns, WorkerLocals
  <2>2. HeldUnderLease'
    BY <1>2
    DEF IInv, Investigate, GraphReturns, HeldUnderLease, OneClaimPerLease
  <2>3. OneClaimPerLease'
    BY <1>2
    DEF IInv, Investigate, GraphReturns, OneClaimPerLease, HeldUnderLease
  <2>4. AttemptsLeft'
    BY <1>2 DEF IInv, Investigate, GraphReturns, AttemptsLeft, HeldUnderLease
  <2>5. RunningHasWriter'
    BY <1>2
    DEF IInv, Investigate, GraphReturns, RunningHasWriter, Writer,
        BackgroundHolds, Owns
  <2>6. CompletedMeansInvestigated'
    BY <1>2
    DEF IInv, Investigate, GraphReturns, CompletedMeansInvestigated,
        WorkerLocals
  <2> QED
    BY <2>1, <2>2, <2>3, <2>4, <2>5, <2>6 DEF IInv
<1>3. ASSUME NEW w \in Workers, ReadJob(w) PROVE IInv'
  <2>1. WorkerLocals'
    BY <1>3 DEF IInv, ReadJob, WorkerLocals
  <2>2. HeldUnderLease'
    BY <1>3 DEF IInv, ReadJob, HeldUnderLease, OneClaimPerLease
  <2>3. OneClaimPerLease'
    BY <1>3 DEF IInv, ReadJob, OneClaimPerLease, HeldUnderLease
  <2>4. AttemptsLeft'
    BY <1>3 DEF IInv, ReadJob, AttemptsLeft, HeldUnderLease
  <2>5. RunningHasWriter'
    BY <1>3 DEF IInv, ReadJob, RunningHasWriter, Writer, BackgroundHolds, Owns
  <2>6. CompletedMeansInvestigated'
    BY <1>3 DEF IInv, ReadJob, CompletedMeansInvestigated, WorkerLocals
  <2> QED
    BY <2>1, <2>2, <2>3, <2>4, <2>5, <2>6 DEF IInv
<1>4. ASSUME NEW w \in Workers, SettleJob(w) PROVE IInv'
  <2>1. WorkerLocals'
    BY <1>4 DEF IInv, SettleJob, Settled, Release, WorkerLocals
  <2>2. HeldUnderLease'
    BY <1>4
    DEF IInv, SettleJob, Settled, Release, HeldUnderLease, OneClaimPerLease
  <2>3. OneClaimPerLease'
    BY <1>4
    DEF IInv, SettleJob, Settled, Release, OneClaimPerLease, HeldUnderLease
  <2>4. AttemptsLeft'
    BY <1>4 DEF IInv, SettleJob, Settled, Release, AttemptsLeft, HeldUnderLease
  <2>5. RunningHasWriter'
    BY <1>4
    DEF IInv, SettleJob, Settled, Release, RunningHasWriter, Writer,
        BackgroundHolds, Owns
  <2>6. CompletedMeansInvestigated'
    BY <1>4
    DEF IInv, SettleJob, Settled, Release, CompletedMeansInvestigated,
        WorkerLocals
  <2> QED
    BY <2>1, <2>2, <2>3, <2>4, <2>5, <2>6 DEF IInv
<1>5. ASSUME NEW w \in Workers, WorkerCrash(w) PROVE IInv'
  <2>1. WorkerLocals'
    BY <1>5 DEF IInv, WorkerCrash, Release, WorkerLocals
  <2>2. HeldUnderLease'
    BY <1>5 DEF IInv, WorkerCrash, Release, HeldUnderLease, OneClaimPerLease
  <2>3. OneClaimPerLease'
    BY <1>5 DEF IInv, WorkerCrash, Release, OneClaimPerLease, HeldUnderLease
  <2>4. AttemptsLeft'
    BY <1>5 DEF IInv, WorkerCrash, Release, AttemptsLeft, HeldUnderLease
  <2>5. RunningHasWriter'
    BY <1>5
    DEF IInv, WorkerCrash, Release, RunningHasWriter, Writer, BackgroundHolds,
        Owns
  <2>6. CompletedMeansInvestigated'
    BY <1>5
    DEF IInv, WorkerCrash, Release, CompletedMeansInvestigated, WorkerLocals
  <2> QED
    BY <2>1, <2>2, <2>3, <2>4, <2>5, <2>6 DEF IInv
<1>6. ASSUME NEW j \in Jobs, Enqueue(j) PROVE IInv'
  BY <1>6
  DEF IInv, Enqueue, WorkerLocals, HeldUnderLease, OneClaimPerLease,
      AttemptsLeft, RunningHasWriter, Writer, BackgroundHolds, Owns,
      CompletedMeansInvestigated
<1>7. ASSUME NEW j \in Jobs, BackgroundRead(j) PROVE IInv'
  BY <1>7
  DEF IInv, BackgroundRead, WorkerLocals, HeldUnderLease, OneClaimPerLease,
      AttemptsLeft, RunningHasWriter, Writer, BackgroundHolds, Owns,
      CompletedMeansInvestigated
<1>8. ASSUME NEW j \in Jobs, BackgroundStart(j) PROVE IInv'
  <2>1. WorkerLocals'
    BY <1>8 DEF IInv, BackgroundStart, WorkerLocals
  <2>2. HeldUnderLease'
    BY <1>8 DEF IInv, BackgroundStart, HeldUnderLease, OneClaimPerLease
  <2>3. OneClaimPerLease'
    BY <1>8 DEF IInv, BackgroundStart, OneClaimPerLease, HeldUnderLease
  <2>4. AttemptsLeft'
    BY <1>8 DEF IInv, BackgroundStart, AttemptsLeft, HeldUnderLease
  <2>5. RunningHasWriter'
    BY <1>8
    DEF IInv, BackgroundStart, RunningHasWriter, Writer, BackgroundHolds, Owns
  <2>6. CompletedMeansInvestigated'
    BY <1>8 DEF IInv, BackgroundStart, CompletedMeansInvestigated, WorkerLocals
  <2> QED
    BY <2>1, <2>2, <2>3, <2>4, <2>5, <2>6 DEF IInv
<1>9. ASSUME NEW j \in Jobs, BackgroundAbort(j) PROVE IInv'
  BY <1>9
  DEF IInv, BackgroundAbort, WorkerLocals, HeldUnderLease, OneClaimPerLease,
      AttemptsLeft, RunningHasWriter, Writer, BackgroundHolds, Owns,
      CompletedMeansInvestigated
<1>10. ASSUME NEW j \in Jobs, BackgroundInvestigate(j) PROVE IInv'
  <2>1. WorkerLocals'
    BY <1>10 DEF IInv, BackgroundInvestigate, GraphReturns, WorkerLocals
  <2>2. HeldUnderLease'
    BY <1>10
    DEF IInv, BackgroundInvestigate, GraphReturns, HeldUnderLease,
        OneClaimPerLease
  <2>3. OneClaimPerLease'
    BY <1>10
    DEF IInv, BackgroundInvestigate, GraphReturns, OneClaimPerLease,
        HeldUnderLease
  <2>4. AttemptsLeft'
    BY <1>10
    DEF IInv, BackgroundInvestigate, GraphReturns, AttemptsLeft,
        HeldUnderLease
  <2>5. RunningHasWriter'
    BY <1>10
    DEF IInv, BackgroundInvestigate, GraphReturns, RunningHasWriter, Writer,
        BackgroundHolds, Owns
  <2>6. CompletedMeansInvestigated'
    BY <1>10
    DEF IInv, BackgroundInvestigate, GraphReturns, CompletedMeansInvestigated,
        WorkerLocals
  <2> QED
    BY <2>1, <2>2, <2>3, <2>4, <2>5, <2>6 DEF IInv
<1>11. ASSUME NEW j \in Jobs, BackgroundComplete(j) PROVE IInv'
  BY <1>11
  DEF IInv, BackgroundComplete, WorkerLocals, HeldUnderLease,
      OneClaimPerLease, AttemptsLeft, RunningHasWriter, Writer,
      BackgroundHolds, Owns, CompletedMeansInvestigated
<1>11a. ASSUME NEW j \in Jobs, BackgroundCommitFails(j) PROVE IInv'
  BY <1>11a
  DEF IInv, BackgroundCommitFails, WorkerLocals, HeldUnderLease,
      OneClaimPerLease, AttemptsLeft, RunningHasWriter, Writer,
      BackgroundHolds, Owns, CompletedMeansInvestigated
<1>12. ASSUME NEW j \in Jobs, BackgroundReadFailed(j) PROVE IInv'
  BY <1>12
  DEF IInv, BackgroundReadFailed, RowToFail, WorkerLocals, HeldUnderLease,
      OneClaimPerLease, AttemptsLeft, RunningHasWriter, Writer,
      BackgroundHolds, Owns, CompletedMeansInvestigated
<1>13. ASSUME NEW j \in Jobs, BackgroundFail(j) PROVE IInv'
  BY <1>13
  DEF IInv, BackgroundFail, WorkerLocals, HeldUnderLease, OneClaimPerLease,
      AttemptsLeft, RunningHasWriter, Writer, BackgroundHolds, Owns,
      CompletedMeansInvestigated
<1>14. ASSUME NEW j \in Jobs, ManualStart(j) PROVE IInv'
  BY <1>14
  DEF IInv, ManualStart, WorkerLocals, HeldUnderLease, OneClaimPerLease,
      AttemptsLeft, RunningHasWriter, Writer, BackgroundHolds, Owns,
      CompletedMeansInvestigated
<1>15. ASSUME NEW j \in Jobs, ManualFinish(j) PROVE IInv'
  BY <1>15
  DEF IInv, ManualFinish, GraphReturns, WorkerLocals, HeldUnderLease,
      OneClaimPerLease, AttemptsLeft, RunningHasWriter, Writer,
      BackgroundHolds, Owns, CompletedMeansInvestigated
<1>16. CASE ServerCrash
  <2>1. WorkerLocals'
    BY <1>16 DEF IInv, ServerCrash, WorkerLocals
  <2>2. HeldUnderLease'
    BY <1>16 DEF IInv, ServerCrash, HeldUnderLease, OneClaimPerLease
  <2>3. OneClaimPerLease'
    BY <1>16 DEF IInv, ServerCrash, OneClaimPerLease, HeldUnderLease
  <2>4. AttemptsLeft'
    BY <1>16 DEF IInv, ServerCrash, AttemptsLeft, HeldUnderLease
  <2>5. RunningHasWriter'
    BY <1>16
    DEF IInv, ServerCrash, RunningHasWriter, Writer, BackgroundHolds, Owns
  <2>6. CompletedMeansInvestigated'
    BY <1>16 DEF IInv, ServerCrash, CompletedMeansInvestigated, WorkerLocals
  <2> QED
    BY <2>1, <2>2, <2>3, <2>4, <2>5, <2>6 DEF IInv
<1>17. CASE Tick
  <2>1. WorkerLocals'
    BY <1>17 DEF IInv, Tick, Elapsed, Busy, WorkerLocals
  <2>2. HeldUnderLease'
    BY <1>17 DEF IInv, Tick, Elapsed, Busy, HeldUnderLease, OneClaimPerLease
  <2>3. OneClaimPerLease'
    BY <1>17 DEF IInv, Tick, Elapsed, Busy, OneClaimPerLease, HeldUnderLease
  <2>4. AttemptsLeft'
    BY <1>17 DEF IInv, Tick, Elapsed, Busy, AttemptsLeft, HeldUnderLease
  <2>5. RunningHasWriter'
    BY <1>17
    DEF IInv, Tick, Elapsed, Busy, RunningHasWriter, Writer, BackgroundHolds,
        Owns
  <2>6. CompletedMeansInvestigated'
    BY <1>17
    DEF IInv, Tick, Elapsed, Busy, CompletedMeansInvestigated, WorkerLocals
  <2> QED
    BY <2>1, <2>2, <2>3, <2>4, <2>5, <2>6 DEF IInv
<1>18. CASE UNCHANGED vars
  BY <1>18
  DEF IInv, vars, WorkerLocals, HeldUnderLease, OneClaimPerLease,
      AttemptsLeft, RunningHasWriter, Writer, BackgroundHolds, Owns,
      CompletedMeansInvestigated
<1> QED
  BY <1>1, <1>2, <1>3, <1>4, <1>5, <1>6, <1>7, <1>8, <1>9, <1>10, <1>11, <1>11a,
     <1>12, <1>13, <1>14, <1>15, <1>16, <1>17, <1>18
  DEF Next

\* The inductive invariant holds in every behaviour.
THEOREM Inductive == Spec => []IInv
<1>1. Init => IInv
  <2> SUFFICES ASSUME Init PROVE IInv
    OBVIOUS
  <2>1. TypeOK
    BY JobQueueAssumption DEF Init, TypeOK, Status, Unread
  <2> QED
    BY <2>1, JobQueueAssumption
    DEF Init, IInv, WorkerLocals, HeldUnderLease, OneClaimPerLease, AttemptsLeft,
        RunningHasWriter, CompletedMeansInvestigated
<1>2. IInv /\ TypeOK' /\ [Next]_vars => IInv'
  BY InductiveStep
<1> QED
  BY <1>1, <1>2, TypeCorrect, PTL DEF Spec

\* No interleaving of workers, background task, operator and crashes hands a
\* job to two workers unless a lease on it ran out under one of them.
THEOREM ClaimsExclusive == Spec => []OneClaimPerLease
<1>1. IInv => OneClaimPerLease
  BY DEF IInv
<1> QED
  BY <1>1, Inductive, PTL

\* The retry budget holds for every job whose lease never ran out under a
\* worker.
THEOREM RetryBudget == Spec => []AttemptsBounded
<1>1. IInv => AttemptsBounded
  BY JobQueueAssumption DEF IInv, AttemptsLeft, AttemptsBounded, TypeOK
<1> QED
  BY <1>1, Inductive, PTL

\* A RUNNING job is always in somebody's hands, or its processor crashed.
THEOREM NoAbandonedJob == Spec => []RunningHasProcessor
<1>1. IInv => RunningHasProcessor
  BY DEF IInv, RunningHasWriter, RunningHasProcessor, Writer, Busy
<1> QED
  BY <1>1, Inductive, PTL

\* A COMPLETED job was investigated, whoever wrote its status last.
THEOREM CompletionIsEarned == Spec => []CompletedMeansInvestigated
<1>1. IInv => CompletedMeansInvestigated
  BY DEF IInv
<1> QED
  BY <1>1, Inductive, PTL

=============================================================================
