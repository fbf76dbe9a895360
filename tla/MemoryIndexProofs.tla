-------------------------- MODULE MemoryIndexProofs --------------------------
(***************************************************************************)
(* Theorems about MemoryIndex, for any set of runs.                        *)
(*                                                                         *)
(* A transaction that goes on to the memory either found the postmortem    *)
(* that is committed or has inserted its own, and then no other session    *)
(* can have done so (Linked, Pending): hence a memory never outlives the   *)
(* postmortem it refers to.                                                *)
(***************************************************************************)
EXTENDS MemoryIndex, FiniteSetTheorems, TLAPS

Drafted ==
    \A r \in Runs :
        /\ At(r, "insert") => run[r].draft \in PostmortemRows /\ run[r].draft.run = r
        /\ At(r, "embed") => /\ run[r].draft \in MemoryRows
                             /\ run[r].draft.run = r
                             /\ run[r].draft.postmortem = run[r].link

\* Whoever has something to remember has committed a validated recovery, and a
\* committed run executes nothing any more.
Recovered ==
    /\ \A r \in Runs : run[r].phase \notin {"investigating", "done"} => r \in Passed(committed)
    /\ \A r \in committed : started[r] # 0 /\ outcome[r] # "executed"

Linked ==
    \A r \in Runs :
        run[r].phase \in {"index", "embed", "commit"} =>
            \/ postmortem # NULL /\ postmortem.run = run[r].link
            \/ Mine(new_postmortem, r) /\ run[r].link = r

Pending ==
    /\ new_postmortem # NULL =>
         postmortem = NULL /\ new_postmortem.run \in Passed(committed)
    /\ new_memory # NULL =>
         /\ memory = NULL
         /\ new_memory.run \in Passed(committed)
         /\ new_memory.postmortem = run[new_memory.run].link

Earned ==
    /\ postmortem # NULL => postmortem.run \in Passed(committed)
    /\ MemoryIsEarned

IInv ==
    /\ TypeOK
    /\ Drafted
    /\ Recovered
    /\ Linked
    /\ Pending
    /\ Earned

USE RunsAssumption

LEMMA NowType ==
    ASSUME NEW at
    PROVE  Now(at) \in Nat \ {0}
  BY FS_Subset, FS_CardinalityType DEF Now

LEMMA InitIInv == Init => IInv
  BY DEF Init, IInv, TypeOK, Drafted, Recovered, Linked, Pending, Earned, MemoryIsEarned,
         Session, Sessions, Outcomes, Phases, At, Mine

\* A recovery that is committed stays so.
LEMMA PassedStays ==
    ASSUME IInv, [Next]_vars
    PROVE  Passed(committed) \subseteq Passed(committed)'
<1> USE DEF IInv, Recovered, Passed
<1>1. ASSUME NEW r \in Runs, Execute(r) \/ Validate(r)
      PROVE  Passed(committed) \subseteq Passed(committed)'
  BY <1>1 DEF Execute, Validate, TypeOK
<1>2. ASSUME NEW r \in Runs, CommitRun(r) PROVE Passed(committed) \subseteq Passed(committed)'
  BY <1>2 DEF CommitRun
<1>3. ASSUME NEW r \in Runs, Tail(r) \/ Fails(r)
      PROVE  Passed(committed) \subseteq Passed(committed)'
  BY <1>3 DEF Tail, FindPostmortem, DraftPostmortem, InsertPostmortem, DraftMemory,
              EmbedFails, InsertMemory, CommitRecords, Fails, audit
<1>4. CASE UNCHANGED vars
  BY <1>4 DEF vars, audit
<1> QED
  BY <1>1, <1>2, <1>3, <1>4 DEF Next

LEMMA NextIInv == IInv /\ [Next]_vars => IInv'
<1> SUFFICES ASSUME IInv, [Next]_vars PROVE IInv'
  OBVIOUS
<1>0. Passed(committed) \subseteq Passed(committed)'
  BY PassedStays
<1> USE DEF IInv, TypeOK, Drafted, Recovered, Linked, Pending, Earned, MemoryIsEarned,
            Outcomes, Phases, At, Mine, vars, rows, audit
<1>1. ASSUME NEW r \in Runs, Execute(r) \/ Validate(r) PROVE IInv'
  BY <1>0, <1>1, NowType DEF Execute, Validate, Passed
<1>2. ASSUME NEW r \in Runs, CommitRun(r) PROVE IInv'
  <2> USE DEF CommitRun, Resolves, Goto, End, Passed
  <2>1. Session("resolved", NULL, NULL) \in Sessions /\ Session("done", NULL, NULL) \in Sessions
    BY DEF Session, Sessions
  <2> USE DEF Session
  <2>10. TypeOK'
    BY <1>0, <1>2, <2>1
  <2>20. Drafted'
    BY <1>0, <1>2, <2>1
  <2>30. Recovered'
    BY <1>0, <1>2, <2>1
  <2>40. Linked'
    BY <1>0, <1>2, <2>1
  <2>50. Pending'
    BY <1>0, <1>2, <2>1
  <2>60. Earned'
    BY <1>0, <1>2, <2>1
  <2> QED
    BY <2>10, <2>20, <2>30, <2>40, <2>50, <2>60
<1>3. ASSUME NEW r \in Runs, FindPostmortem(r) PROVE IInv'
  <2> USE DEF FindPostmortem, Goto, Passed
  <2>1. /\ Session("history", NULL, NULL) \in Sessions
        /\ postmortem # NULL => Session("index", NULL, postmortem.run) \in Sessions
    BY DEF Session, Sessions, PostmortemRows
  <2> USE DEF Session
  <2>10. TypeOK'
    BY <1>0, <1>3, <2>1
  <2>20. Drafted'
    BY <1>0, <1>3, <2>1
  <2>30. Recovered'
    BY <1>0, <1>3, <2>1
  <2>40. Linked'
    BY <1>0, <1>3, <2>1
  <2>50. Pending'
    BY <1>0, <1>3, <2>1
  <2>60. Earned'
    BY <1>0, <1>3, <2>1
  <2> QED
    BY <2>10, <2>20, <2>30, <2>40, <2>50, <2>60
<1>4. ASSUME NEW r \in Runs, DraftPostmortem(r) PROVE IInv'
  <2>1. UNCHANGED <<audit, rows, lost>> /\ At(r, "history")
    BY <1>4 DEF DraftPostmortem
  <2>2. PICK row \in PostmortemRows : row.run = r /\ Goto(r, "insert", row, NULL)
    <3>1. PICK remediation \in Earliest(Succeeded(committed), started),
               validation \in PostmortemValidation(committed) :
            Goto(r, "insert", [run |-> r, seen |-> committed, remediation |-> remediation,
                               validation |-> validation], NULL)
      BY <1>4 DEF DraftPostmortem, Timeline
    <3>2. remediation \in Runs
      BY DEF Earliest, Succeeded
    <3>3. validation \in Runs \union {NULL}
      BY DEF PostmortemValidation, Earliest, Passed, Validated
    <3>4. [run |-> r, seen |-> committed, remediation |-> remediation,
           validation |-> validation] \in PostmortemRows
      BY <3>2, <3>3 DEF PostmortemRows
    <3> QED
      BY <3>1, <3>4
  <2>3. Session("insert", row, NULL) \in Sessions
    BY DEF Session, Sessions
  <2> USE DEF Goto, Session, Passed
  <2>10. TypeOK'
    BY <1>0, <2>1, <2>2, <2>3
  <2>20. Drafted'
    BY <1>0, <2>1, <2>2, <2>3
  <2>30. Recovered'
    BY <1>0, <2>1, <2>2, <2>3
  <2>40. Linked'
    BY <1>0, <2>1, <2>2, <2>3
  <2>50. Pending'
    BY <1>0, <2>1, <2>2, <2>3
  <2>60. Earned'
    BY <1>0, <2>1, <2>2, <2>3
  <2> QED
    BY <2>10, <2>20, <2>30, <2>40, <2>50, <2>60
<1>5. ASSUME NEW r \in Runs, InsertPostmortem(r) PROVE IInv'
  <2> USE DEF InsertPostmortem, Insertable, Rollback, Goto, End, Passed
  <2>1. Session("index", NULL, r) \in Sessions /\ Session("done", NULL, NULL) \in Sessions
    BY DEF Session, Sessions
  <2> USE DEF Session
  <2>10. TypeOK'
    BY <1>0, <1>5, <2>1
  <2>20. Drafted'
    BY <1>0, <1>5, <2>1
  <2>30. Recovered'
    BY <1>0, <1>5, <2>1
  <2>40. Linked'
    BY <1>0, <1>5, <2>1
  <2>50. Pending'
    BY <1>0, <1>5, <2>1
  <2>60. Earned'
    BY <1>0, <1>5, <2>1
  <2> QED
    BY <2>10, <2>20, <2>30, <2>40, <2>50, <2>60
<1>6. ASSUME NEW r \in Runs, DraftMemory(r) PROVE IInv'
  <2>1. UNCHANGED <<audit, rows, lost>> /\ At(r, "index")
    BY <1>6 DEF DraftMemory
  <2>2. run[r].link \in Runs
    BY <2>1 DEF PostmortemRows
  <2>3. CASE Goto(r, "commit", NULL, run[r].link)
    <3>1. Session("commit", NULL, run[r].link) \in Sessions
      BY <2>2 DEF Session, Sessions
    <3> USE DEF Goto, Session, Passed
    <3>10. TypeOK'
      BY <1>0, <2>1, <2>3, <3>1
    <3>20. Drafted'
      BY <1>0, <2>1, <2>3, <3>1
    <3>30. Recovered'
      BY <1>0, <2>1, <2>3, <3>1
    <3>40. Linked'
      BY <1>0, <2>1, <2>3, <3>1
    <3>50. Pending'
      BY <1>0, <2>1, <2>3, <3>1
    <3>60. Earned'
      BY <1>0, <2>1, <2>3, <3>1
    <3> QED
      BY <3>10, <3>20, <3>30, <3>40, <3>50, <3>60
  <2>4. ASSUME NEW row \in MemoryRows, row.run = r, row.postmortem = run[r].link,
               Goto(r, "embed", row, run[r].link)
        PROVE  IInv'
    <3>1. Session("embed", row, run[r].link) \in Sessions
      BY <2>2 DEF Session, Sessions
    <3> USE DEF Goto, Session, Passed
    <3>10. TypeOK'
      BY <1>0, <2>1, <2>4, <3>1
    <3>20. Drafted'
      BY <1>0, <2>1, <2>4, <3>1
    <3>30. Recovered'
      BY <1>0, <2>1, <2>4, <3>1
    <3>40. Linked'
      BY <1>0, <2>1, <2>4, <3>1
    <3>50. Pending'
      BY <1>0, <2>1, <2>4, <3>1
    <3>60. Earned'
      BY <1>0, <2>1, <2>4, <3>1
    <3> QED
      BY <3>10, <3>20, <3>30, <3>40, <3>50, <3>60
  <2>5. Goto(r, "commit", NULL, run[r].link)
        \/ \E row \in MemoryRows : /\ row.run = r /\ row.postmortem = run[r].link
                                   /\ Goto(r, "embed", row, run[r].link)
    <3>1. CASE ~IsEligible(r) \/ memory # NULL
      BY <1>6, <3>1 DEF DraftMemory
    <3>2. CASE ~(~IsEligible(r) \/ memory # NULL)
      <4>1. PICK action \in Runs, validation \in Runs \union {NULL} :
              Goto(r, "embed", [run |-> r, postmortem |-> run[r].link, action |-> action,
                                failures |-> Failed(committed), validation |-> validation],
                   run[r].link)
        BY <1>6, <3>2 DEF DraftMemory, Succeeded, MemoryValidation, Latest, Validated
      <4>2. [run |-> r, postmortem |-> run[r].link, action |-> action,
             failures |-> Failed(committed), validation |-> validation] \in MemoryRows
        BY <2>2 DEF MemoryRows, Failed
      <4> QED
        BY <4>1, <4>2
    <3> QED
      BY <3>1, <3>2
  <2> QED
    BY <2>3, <2>4, <2>5
<1>7. ASSUME NEW r \in Runs, EmbedFails(r) PROVE IInv'
  <2> USE DEF EmbedFails, Goto, Passed
  <2>1. Session("commit", NULL, run[r].link) \in Sessions
    BY <1>7 DEF Session, Sessions
  <2> USE DEF Session
  <2>10. TypeOK'
    BY <1>0, <1>7, <2>1
  <2>20. Drafted'
    BY <1>0, <1>7, <2>1
  <2>30. Recovered'
    BY <1>0, <1>7, <2>1
  <2>40. Linked'
    BY <1>0, <1>7, <2>1
  <2>50. Pending'
    BY <1>0, <1>7, <2>1
  <2>60. Earned'
    BY <1>0, <1>7, <2>1
  <2> QED
    BY <2>10, <2>20, <2>30, <2>40, <2>50, <2>60
<1>8. ASSUME NEW r \in Runs, InsertMemory(r) PROVE IInv'
  <2> USE DEF InsertMemory, Insertable, Rollback, Goto, End, Passed
  <2>1. /\ Session("commit", NULL, run[r].link) \in Sessions
        /\ Session("done", NULL, NULL) \in Sessions
    BY <1>8 DEF Session, Sessions
  <2> USE DEF Session
  <2>10. TypeOK'
    BY <1>0, <1>8, <2>1
  <2>20. Drafted'
    BY <1>0, <1>8, <2>1
  <2>30. Recovered'
    BY <1>0, <1>8, <2>1
  <2>40. Linked'
    BY <1>0, <1>8, <2>1
  <2>50. Pending'
    BY <1>0, <1>8, <2>1
  <2>60. Earned'
    BY <1>0, <1>8, <2>1
  <2> QED
    BY <2>10, <2>20, <2>30, <2>40, <2>50, <2>60
<1>9. ASSUME NEW r \in Runs, CommitRecords(r) PROVE IInv'
  <2> USE DEF CommitRecords, Rest, Goto, End, Passed
  <2>1. Session("done", NULL, NULL) \in Sessions
    BY <1>9 DEF Session, Sessions
  <2> USE DEF Session
  <2>10. TypeOK'
    BY <1>0, <1>9, <2>1
  <2>20. Drafted'
    BY <1>0, <1>9, <2>1
  <2>30. Recovered'
    BY <1>0, <1>9, <2>1
  <2>40. Linked'
    BY <1>0, <1>9, <2>1
  <2>50. Pending'
    BY <1>0, <1>9, <2>1
  <2>60. Earned'
    BY <1>0, <1>9, <2>1
  <2> QED
    BY <2>10, <2>20, <2>30, <2>40, <2>50, <2>60
<1>10. ASSUME NEW r \in Runs, Fails(r) PROVE IInv'
  <2> USE DEF Fails, Rollback, Goto, End, Passed
  <2>1. Session("done", NULL, NULL) \in Sessions
    BY <1>10 DEF Session, Sessions
  <2> USE DEF Session
  <2>10. TypeOK'
    BY <1>0, <1>10, <2>1
  <2>20. Drafted'
    BY <1>0, <1>10, <2>1
  <2>30. Recovered'
    BY <1>0, <1>10, <2>1
  <2>40. Linked'
    BY <1>0, <1>10, <2>1
  <2>50. Pending'
    BY <1>0, <1>10, <2>1
  <2>60. Earned'
    BY <1>0, <1>10, <2>1
  <2> QED
    BY <2>10, <2>20, <2>30, <2>40, <2>50, <2>60
<1>11. CASE UNCHANGED vars
  BY <1>11, <1>0 DEF Passed
<1> QED
  BY <1>1, <1>2, <1>3, <1>4, <1>5, <1>6, <1>7, <1>8, <1>9, <1>10, <1>11 DEF Next, Tail

LEMMA Inductive == Spec => []IInv
  BY InitIInv, NextIInv, PTL DEF Spec

\* No action takes a variable out of its type, and a row that is pending
\* belongs to an open transaction.
THEOREM TypeCorrect == Spec => []TypeOK
<1>1. IInv => TypeOK
  BY DEF IInv
<1> QED
  BY <1>1, Inductive, PTL

\* Whatever overlaps or fails, a memory tells of a validated recovery and has
\* its postmortem.
THEOREM OnlyRecoveriesRemembered == Spec => []MemoryIsEarned
<1>1. IInv => MemoryIsEarned
  BY DEF IInv, Earned
<1> QED
  BY <1>1, Inductive, PTL

\* What is remembered first is never rewritten.
THEOREM FirstStands == Spec => FirstRecordStands
<1> DEFINE Stands == /\ postmortem # NULL => postmortem' = postmortem
                     /\ memory # NULL => memory' = memory
<1>1. IInv /\ [Next]_vars => [Stands]_vars
  <2> SUFFICES ASSUME IInv, [Next]_vars PROVE Stands
    OBVIOUS
  <2>1. ASSUME NEW r \in Runs, CommitRecords(r) PROVE Stands
    BY <2>1 DEF CommitRecords, IInv, Pending, Mine
  <2>2. CASE UNCHANGED <<postmortem, memory>>
    BY <2>2
  <2> QED
    BY <2>1, <2>2
    DEF Next, Tail, Execute, Validate, CommitRun, FindPostmortem, DraftPostmortem, InsertPostmortem,
        DraftMemory, EmbedFails, InsertMemory, Fails, vars, rows
<1> QED
  BY <1>1, Inductive, PTL DEF Spec, FirstRecordStands

(***************************************************************************)
(* What a postmortem tells of the audit trail.  The runs it quotes are     *)
(* committed, hence executed: their order does not change any more.        *)
(***************************************************************************)
Told(row) ==
    /\ row.run \in row.seen
    /\ {row.run, row.remediation} \subseteq committed
    /\ started[row.remediation] <= started[row.run]
    /\ validated[row.run] # 0 =>
         /\ row.validation \in Passed(committed)
         /\ validated[row.validation] \in 1 .. validated[row.run]

Tells ==
    /\ \A r \in Runs : At(r, "insert") => Told(run[r].draft)
    /\ new_postmortem # NULL => Told(new_postmortem)
    /\ postmortem # NULL => Told(postmortem)

LEMMA ToldStays ==
    ASSUME IInv, [Next]_vars, NEW row, Told(row)
    PROVE  Told(row)'
<1> USE DEF IInv, Recovered, Told, Passed
<1>1. ASSUME NEW r \in Runs, Execute(r) \/ Validate(r) PROVE Told(row)'
  BY <1>1 DEF Execute, Validate, TypeOK
<1>2. ASSUME NEW r \in Runs, CommitRun(r) PROVE Told(row)'
  BY <1>2 DEF CommitRun
<1>3. ASSUME NEW r \in Runs, Tail(r) \/ Fails(r) PROVE Told(row)'
  BY <1>3 DEF Tail, FindPostmortem, DraftPostmortem, InsertPostmortem, DraftMemory,
              EmbedFails, InsertMemory, CommitRecords, Fails, audit
<1>4. CASE UNCHANGED vars
  BY <1>4 DEF vars, audit
<1> QED
  BY <1>1, <1>2, <1>3, <1>4 DEF Next

LEMMA NextTells == IInv /\ Tells /\ [Next]_vars => Tells'
<1> SUFFICES ASSUME IInv, Tells, [Next]_vars PROVE Tells'
  OBVIOUS
<1>0. \A row : Told(row) => Told(row)'
  BY ToldStays
<1> USE DEF Tells, At, Goto, End, Session, rows
<1>1. ASSUME NEW r \in Runs, DraftPostmortem(r) PROVE Tells'
  <2>1. r \in Passed(committed)
    BY <1>1 DEF DraftPostmortem, IInv, Recovered
  <2>2. PICK row : Told(row) /\ Goto(r, "insert", row, NULL)
    <3>1. PICK remediation \in Earliest(Succeeded(committed), started),
               validation \in PostmortemValidation(committed) :
            Goto(r, "insert", [run |-> r, seen |-> committed, remediation |-> remediation,
                               validation |-> validation], NULL)
      BY <1>1 DEF DraftPostmortem, Timeline
    <3>2. r \in Succeeded(committed) /\ r \in committed
      BY <2>1 DEF Succeeded, Passed
    <3>3. remediation \in committed /\ started[remediation] <= started[r]
      BY <3>2 DEF Earliest, Succeeded
    <3>4. ASSUME validated[r] # 0
          PROVE  /\ validation \in Passed(committed)
                 /\ validated[validation] \in 1 .. validated[r]
      <4> DEFINE passed == Passed(committed) \intersect Validated(committed)
      <4>1. r \in passed
        BY <2>1, <3>2, <3>4 DEF Validated
      <4>2. validation \in Earliest(passed, validated)
        BY <4>1 DEF PostmortemValidation
      <4>3. /\ validation \in passed
            /\ validated[validation] <= validated[r]
        BY <4>1, <4>2 DEF Earliest
      <4>4. validated[validation] \in Nat \ {0} /\ validated[r] \in Nat
        BY <4>3, <3>2 DEF IInv, TypeOK, Validated
      <4> QED
        BY <4>3, <4>4
    <3> QED
      BY <3>1, <3>2, <3>3, <3>4 DEF Told
  <2> HIDE DEF Told
  <2> QED
    BY <1>0, <1>1, <2>2 DEF DraftPostmortem, IInv, TypeOK
<1>2. ASSUME NEW r \in Runs, InsertPostmortem(r) PROVE Tells'
  BY <1>0, <1>2 DEF InsertPostmortem, Rollback, IInv, TypeOK
<1>3. ASSUME NEW r \in Runs, CommitRecords(r) PROVE Tells'
  BY <1>0, <1>3 DEF CommitRecords, Rest, IInv, TypeOK
<1>4. ASSUME NEW r \in Runs,
             Execute(r) \/ Validate(r) \/ CommitRun(r) \/ FindPostmortem(r) \/ DraftMemory(r) \/ EmbedFails(r)
             \/ InsertMemory(r) \/ Fails(r)
      PROVE  Tells'
  BY <1>0, <1>4 DEF Execute, Validate, CommitRun, FindPostmortem, DraftMemory, EmbedFails,
                    InsertMemory, Fails, Rollback, IInv, TypeOK
<1>5. CASE UNCHANGED vars
  BY <1>0, <1>5 DEF vars
<1> QED
  BY <1>1, <1>2, <1>3, <1>4, <1>5 DEF Next, Tail

\* A postmortem tells of a validated recovery that its history contains, and
\* quotes no later remediation; if that recovery left a validation row, it
\* quotes a validation that passed and is not later, either.
THEOREM PostmortemsAreComplete == Spec => []PostmortemIsComplete
<1>1. Init => Tells
  BY DEF Init, Tells, At, Session
<1>2. IInv /\ Tells => PostmortemIsComplete
  BY DEF IInv, Earned, Tells, Told, PostmortemIsComplete
<1> QED
  BY <1>1, <1>2, NextTells, Inductive, PTL DEF Spec

(***************************************************************************)
(* What a memory names, from its draft on: the outcomes of committed runs  *)
(* are settled.                                                            *)
(***************************************************************************)
Named(row) ==
    /\ row.run \in Passed(committed)
    /\ row.action \in Succeeded(committed)
    /\ row.failures \subseteq Failed(committed)

Names ==
    /\ \A r \in Runs : At(r, "embed") => Named(run[r].draft)
    /\ new_memory # NULL => Named(new_memory)
    /\ memory # NULL => Named(memory)

LEMMA NamedStays ==
    ASSUME IInv, [Next]_vars, NEW row, Named(row)
    PROVE  Named(row)'
<1> USE DEF IInv, Recovered, Named, Passed, Succeeded, Failed
<1>1. ASSUME NEW r \in Runs, Execute(r) \/ Validate(r) PROVE Named(row)'
  BY <1>1 DEF Execute, Validate, TypeOK
<1>2. ASSUME NEW r \in Runs, CommitRun(r) PROVE Named(row)'
  BY <1>2 DEF CommitRun
<1>3. ASSUME NEW r \in Runs, Tail(r) \/ Fails(r) PROVE Named(row)'
  BY <1>3 DEF Tail, FindPostmortem, DraftPostmortem, InsertPostmortem, DraftMemory,
              EmbedFails, InsertMemory, CommitRecords, Fails, audit
<1>4. CASE UNCHANGED vars
  BY <1>4 DEF vars, audit
<1> QED
  BY <1>1, <1>2, <1>3, <1>4 DEF Next

LEMMA NextNames == IInv /\ Names /\ [Next]_vars => Names'
<1> SUFFICES ASSUME IInv, Names, [Next]_vars PROVE Names'
  OBVIOUS
<1>0. \A row : Named(row) => Named(row)'
  BY NamedStays
<1> USE DEF Names, At, Goto, End, Session, rows
<1>1. ASSUME NEW r \in Runs, DraftMemory(r) PROVE Names'
  <2>1. CASE Goto(r, "commit", NULL, run[r].link)
    BY <1>0, <1>1, <2>1 DEF DraftMemory, IInv, TypeOK
  <2>2. ASSUME NEW row, Named(row), Goto(r, "embed", row, run[r].link) PROVE Names'
    BY <1>0, <1>1, <2>2 DEF DraftMemory, IInv, TypeOK
  <2>3. CASE ~(~IsEligible(r) \/ memory # NULL)
    <3>1. PICK action \in Succeeded(committed), validation \in MemoryValidation(committed) :
            Goto(r, "embed", [run |-> r, postmortem |-> run[r].link, action |-> action,
                              failures |-> Failed(committed), validation |-> validation],
                 run[r].link)
      BY <1>1, <2>3 DEF DraftMemory
    <3>2. r \in Passed(committed)
      BY <1>1 DEF DraftMemory, IInv, Recovered
    <3> DEFINE row == [run |-> r, postmortem |-> run[r].link, action |-> action,
                       failures |-> Failed(committed), validation |-> validation]
    <3>3. Named(row)
      BY <3>2 DEF Named
    <3>4. Goto(r, "embed", row, run[r].link)
      BY <3>1
    <3> HIDE DEF row, Goto
    <3> QED
      BY <2>2, <3>3, <3>4
  <2> QED
    BY <1>1, <2>1, <2>3 DEF DraftMemory
<1>2. ASSUME NEW r \in Runs, InsertMemory(r) PROVE Names'
  BY <1>0, <1>2 DEF InsertMemory, Rollback, IInv, TypeOK
<1>3. ASSUME NEW r \in Runs, CommitRecords(r) PROVE Names'
  BY <1>0, <1>3 DEF CommitRecords, Rest, IInv, TypeOK
<1>4. ASSUME NEW r \in Runs,
             Execute(r) \/ Validate(r) \/ CommitRun(r) \/ FindPostmortem(r) \/ DraftPostmortem(r)
             \/ InsertPostmortem(r) \/ EmbedFails(r) \/ Fails(r)
      PROVE  Names'
  BY <1>0, <1>4 DEF Execute, Validate, CommitRun, FindPostmortem, DraftPostmortem,
                    InsertPostmortem, EmbedFails, Fails, Rollback, IInv, TypeOK
<1>5. CASE UNCHANGED vars
  BY <1>0, <1>5 DEF vars
<1> QED
  BY <1>1, <1>2, <1>3, <1>4, <1>5 DEF Next, Tail

\* The action that a memory names did not fail, and is the one that resolved
\* the incident unless another one succeeded, too.
THEOREM ActionsAreNamed == Spec => []MemoryNamesItsAction
<1>1. Init => Names
  BY DEF Init, Names, At, Session
<1>2. ASSUME IInv, Names PROVE MemoryNamesItsAction
  <2> SUFFICES ASSUME memory # NULL, memory.action # memory.run
               PROVE  Cardinality(committed \ memory.failures) > 1
    BY <1>2 DEF Names, Named, Succeeded, Failed, Passed, MemoryNamesItsAction
  <2> DEFINE both == {memory.action, memory.run}
  <2>1. both \subseteq committed \ memory.failures
    BY <1>2 DEF Names, Named, Succeeded, Failed, Passed
  <2>2. IsFiniteSet(committed \ memory.failures)
    BY <1>2, FS_Subset DEF IInv, TypeOK
  <2>3. Cardinality(both) = 2
    <3>1. both = {memory.action} \union {memory.run}
      OBVIOUS
    <3>2. IsFiniteSet({memory.action}) /\ Cardinality({memory.action}) = 1
      BY FS_Singleton
    <3>3. memory.run \notin {memory.action}
      OBVIOUS
    <3>4. Cardinality({memory.action} \union {memory.run}) = Cardinality({memory.action}) + 1
      BY <3>2, <3>3, FS_AddElement
    <3> QED
      BY <3>1, <3>2, <3>4
  <2>4. /\ Cardinality(both) <= Cardinality(committed \ memory.failures)
        /\ Cardinality(committed \ memory.failures) \in Nat
    BY <2>1, <2>2, FS_Subset, FS_CardinalityType
  <2> QED
    BY <2>3, <2>4
<1> QED
  BY <1>1, <1>2, NextNames, Inductive, PTL DEF Spec

=============================================================================
