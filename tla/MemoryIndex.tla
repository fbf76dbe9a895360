----------------------------- MODULE MemoryIndex -----------------------------
(***************************************************************************)
(* What is remembered of one resolved incident: its postmortem             *)
(* (postmortem_service) and its memory (memory_service), written after the *)
(* commit of RESOLVED by _generate_postmortem_and_memory.                  *)
(*                                                                         *)
(* A run is an invocation of run_investigation or of                       *)
(* resume_remediation_approval that executed an action; several may        *)
(* overlap or follow one another (ApprovalFlow).  Each has one session:    *)
(* its first transaction commits the incident and the audit rows, its      *)
(* second one inserts the postmortem, awaits the embedding and inserts the *)
(* memory.  Both tables are unique per incident: an INSERT waits for       *)
(* another one that is not committed yet, and raises if that one commits.  *)
(*                                                                         *)
(* A session keeps the incident as it wrote it, so the documents a run     *)
(* writes are about its own root cause and resolution; .run stands for     *)
(* these.  The audit rows they quote are read from the tables; not every   *)
(* validation has one.                                                     *)
(*                                                                         *)
(* Left out: runs that execute nothing (they leave no rows that are quoted *)
(* here), all wording, and failures of the LLM (a fallback text is used).  *)
(***************************************************************************)
EXTENDS Integers, FiniteSets

CONSTANTS
    NULL,
    Runs          \* runs of the incident that execute an action

\* What is kept of the rows: the run they are about, the runs whose results
\* were read, and the runs whose summaries are quoted (NULL: a fixed sentence).
PostmortemRows ==
    [run : Runs, seen : SUBSET Runs, remediation : Runs, validation : Runs \union {NULL}]

MemoryRows ==
    [run : Runs, postmortem : Runs, action : Runs, failures : SUBSET Runs,
     validation : Runs \union {NULL}]

ASSUME RunsAssumption ==
    /\ IsFiniteSet(Runs)
    /\ NULL \notin Runs \union PostmortemRows \union MemoryRows

VARIABLES
    started,      \* per run: started_at of its result, 0 before it
    validated,    \* per run: started_at of its validation's row, 0 without one
    outcome,      \* per run: what execution and validation gave
    committed,    \* runs whose incident update and audit rows are committed
    run,          \* per run: where its handler is
    postmortem,   \* the row of incident_postmortems, or NULL
    memory,       \* the row of incident_memories, or NULL
    new_postmortem, \* the row inserted by a transaction still open, or NULL
    new_memory    \* the same of incident_memories

\* History variable: no action's guard reads it.
VARIABLE lost     \* runs that ended in an error or with their process

rows == <<postmortem, memory, new_postmortem, new_memory>>
audit == <<started, validated, outcome, committed>>
vars == <<audit, run, rows, lost>>

Outcomes == {"failed", "executed", "recovered", "unconfirmed"}

\* Where a handler is: a draft is a row not inserted yet, link is postmortem.id.
Session(p, draft, link) == [phase |-> p, draft |-> draft, link |-> link]

At(r, p) == run[r].phase = p

Goto(r, p, draft, link) == run' = [run EXCEPT ![r] = Session(p, draft, link)]

End(r) == Goto(r, "done", NULL, NULL)

Init ==
    /\ started = [r \in Runs |-> 0]
    /\ validated = [r \in Runs |-> 0]
    /\ outcome = [r \in Runs |-> "failed"]
    /\ committed = {}
    /\ run = [r \in Runs |-> Session("investigating", NULL, NULL)]
    /\ postmortem = NULL /\ memory = NULL
    /\ new_postmortem = NULL /\ new_memory = NULL
    /\ lost = {}

(***************************************************************************)
(* The audit rows of a set of runs.                                        *)
(***************************************************************************)
\* MUTANT of Succeeded: the results are not filtered.
SucceededAll(S) == S

\* Results with success, whether or not the validation then passed.
Succeeded(S) == {r \in S : outcome[r] \in {"recovered", "unconfirmed"}}

Failed(S) == {r \in S : outcome[r] = "failed"}

\* Runs with a row in remediation_validations.
Validated(S) == {r \in S : validated[r] # 0}

\* Runs whose recovery was confirmed, with or without such a row.
Passed(S) == {r \in S : outcome[r] = "recovered"}

\* MUTANT of Earliest: descending, as validations are read for the memory.
EarliestDescending(S, at) == {r \in S : \A o \in S : at[o] <= at[r]}

\* ORDER BY started_at ASC, [0], of results (started) or validations (validated).
Earliest(S, at) == {r \in S : \A o \in S : at[r] <= at[o]}

\* ORDER BY started_at DESC, [0].
Latest(S, at) == {r \in S : \A o \in S : at[o] <= at[r]}

\* The validation a postmortem quotes: the first that passed, or the first.
PostmortemValidation(S) ==
    LET passed == Passed(S) \intersect Validated(S)
    IN  IF Validated(S) = {} THEN {NULL}
        ELSE Earliest(IF passed # {} THEN passed ELSE Validated(S), validated)

\* The one a memory quotes: the last.
MemoryValidation(S) ==
    IF Validated(S) = {} THEN {NULL} ELSE Latest(Validated(S), validated)

(***************************************************************************)
(* The run up to its first commit (ApprovalFlow).                          *)
(***************************************************************************)
\* A time later than those taken so far; only their order is read.
Now(at) == Cardinality({o \in Runs : at[o] # 0}) + 1

Execute(r) ==
    /\ At(r, "investigating")
    /\ started[r] = 0
    /\ started' = [started EXCEPT ![r] = Now(started)]
    /\ \E o \in {"failed", "executed"} : outcome' = [outcome EXCEPT ![r] = o]
    /\ UNCHANGED <<validated, committed, run, rows, lost>>

\* Only an execution that succeeded is validated.  A validator that reports on
\* the signals it read leaves a row; the wired check_remediation_recovered gives
\* a plain BOOLEAN, and leaves none, like a validator that raises.
Validate(r) ==
    /\ At(r, "investigating")
    /\ outcome[r] = "executed"
    /\ \E reported \in BOOLEAN :
         validated' = IF reported THEN [validated EXCEPT ![r] = Now(validated)] ELSE validated
    /\ \E o \in {"recovered", "unconfirmed"} : outcome' = [outcome EXCEPT ![r] = o]
    /\ UNCHANGED <<started, committed, run, rows, lost>>

\* MUTANT of Resolves: an execution that succeeded resolves the incident.
ResolvesExecuted(r) == outcome[r] # "failed"

\* _decide_terminal_status
Resolves(r) == outcome[r] = "recovered"

CommitRun(r) ==
    /\ At(r, "investigating")
    /\ started[r] # 0
    /\ outcome[r] # "executed"
    /\ committed' = committed \union {r}
    /\ IF Resolves(r) THEN Goto(r, "resolved", NULL, NULL) ELSE End(r)
    /\ UNCHANGED <<started, validated, outcome, rows, lost>>

(***************************************************************************)
(* generate_and_persist_postmortem                                         *)
(***************************************************************************)
\* The idempotency guard: an existing postmortem is returned.
FindPostmortem(r) ==
    /\ At(r, "resolved")
    /\ IF postmortem = NULL THEN Goto(r, "history", NULL, NULL)
       ELSE Goto(r, "index", NULL, postmortem.run)
    /\ UNCHANGED <<audit, rows, lost>>

\* The runs whose results and validations the timeline lists: all there are.
Timeline == committed

\* _fetch_remediation_history, the timeline, and the prose of the LLM.
DraftPostmortem(r) ==
    /\ At(r, "history")
    /\ \E remediation \in Earliest(Succeeded(committed), started),
          validation \in PostmortemValidation(committed) :
        Goto(r, "insert", [run |-> r, seen |-> Timeline, remediation |-> remediation,
                           validation |-> validation], NULL)
    /\ UNCHANGED <<audit, rows, lost>>

\* MUTANT of Insertable: no unique index on the table.
InsertableAlways(row) == TRUE

Insertable(row) == row = NULL

Mine(row, r) == row # NULL /\ row.run = r

\* The rollback of r's open transaction.
Rollback(r) ==
    /\ new_postmortem' = IF Mine(new_postmortem, r) THEN NULL ELSE new_postmortem
    /\ new_memory' = IF Mine(new_memory, r) THEN NULL ELSE new_memory

\* The flush of the INSERT; a violation ends the tail in its except clause,
\* and leaves the session with nothing but a rollback.
InsertPostmortem(r) ==
    /\ At(r, "insert")
    /\ new_postmortem = NULL
    /\ IF Insertable(postmortem)
       THEN /\ new_postmortem' = run[r].draft
            /\ Goto(r, "index", NULL, r)
            /\ UNCHANGED new_memory
       ELSE /\ Rollback(r)
            /\ End(r)
    /\ UNCHANGED <<audit, postmortem, memory, lost>>

(***************************************************************************)
(* index_incident_memory                                                   *)
(***************************************************************************)
\* is_eligible_for_memory: the status is the one the session wrote, and the
\* resolution of a run that resolves never speaks of a failed validation.
IsEligible(r) == Resolves(r)

\* The action named is that of any successful result: there is no ORDER BY.
DraftMemory(r) ==
    /\ At(r, "index")
    /\ IF ~IsEligible(r) \/ memory # NULL
       THEN Goto(r, "commit", NULL, run[r].link)
       ELSE \E action \in Succeeded(committed),
               validation \in MemoryValidation(committed) :
              Goto(r, "embed", [run |-> r, postmortem |-> run[r].link, action |-> action,
                                failures |-> Failed(committed), validation |-> validation],
                   run[r].link)
    /\ UNCHANGED <<audit, rows, lost>>

\* MUTANT of EmbedFails: the exception is not caught in index_incident_memory.
EmbedFailsRaising(r) ==
    /\ At(r, "embed")
    /\ End(r)
    /\ Rollback(r)
    /\ UNCHANGED <<audit, postmortem, memory, lost>>

\* No memory without an embedding; the postmortem is kept.
EmbedFails(r) ==
    /\ At(r, "embed")
    /\ Goto(r, "commit", NULL, run[r].link)
    /\ UNCHANGED <<audit, rows, lost>>

InsertMemory(r) ==
    /\ At(r, "embed")
    /\ new_memory = NULL
    /\ IF Insertable(memory)
       THEN /\ new_memory' = run[r].draft
            /\ Goto(r, "commit", NULL, run[r].link)
            /\ UNCHANGED new_postmortem
       ELSE /\ Rollback(r)
            /\ End(r)
    /\ UNCHANGED <<audit, postmortem, memory, lost>>

\* MUTANT of Rest: the committed row is thought to be pending still.
RestKept(row, r) == row

\* What is pending after r's commit.
Rest(row, r) == IF Mine(row, r) THEN NULL ELSE row

\* The commit at the end of _generate_postmortem_and_memory.
CommitRecords(r) ==
    /\ At(r, "commit")
    /\ postmortem' = IF Mine(new_postmortem, r) THEN new_postmortem ELSE postmortem
    /\ memory' = IF Mine(new_memory, r) THEN new_memory ELSE memory
    /\ new_postmortem' = Rest(new_postmortem, r)
    /\ new_memory' = Rest(new_memory, r)
    /\ End(r)
    /\ UNCHANGED <<audit, lost>>

\* A database error or a crash: whatever was not committed is rolled back, and
\* nothing tries again.  (A run that fails before its first commit leaves no
\* trace: it is one that stays where it is.)
Fails(r) ==
    /\ run[r].phase \notin {"investigating", "done"}
    /\ End(r)
    /\ Rollback(r)
    /\ lost' = lost \union {r}
    /\ UNCHANGED <<audit, postmortem, memory>>

Tail(r) ==
    \/ FindPostmortem(r) \/ DraftPostmortem(r) \/ InsertPostmortem(r)
    \/ DraftMemory(r) \/ EmbedFails(r) \/ InsertMemory(r) \/ CommitRecords(r)

Next == \E r \in Runs : Execute(r) \/ Validate(r) \/ CommitRun(r) \/ Tail(r) \/ Fails(r)

\* The awaits of the tail return: the clients of the LLM and of the embeddings
\* have timeouts, and a blocked INSERT goes on when the other session ends.
Spec == Init /\ [][Next]_vars /\ \A r \in Runs : WF_vars(Tail(r))

-----------------------------------------------------------------------------
(***************************************************************************)
(* Properties                                                              *)
(***************************************************************************)
Phases == {"investigating", "resolved", "history", "insert", "index", "embed", "commit", "done"}

Sessions ==
    [phase : Phases, link : Runs \union {NULL},
     draft : PostmortemRows \union MemoryRows \union {NULL}]

\* Types; a row that is pending belongs to a transaction that is open.
TypeOK ==
    /\ started \in [Runs -> Nat] /\ validated \in [Runs -> Nat]
    /\ outcome \in [Runs -> Outcomes]
    /\ committed \subseteq Runs /\ lost \subseteq Runs
    /\ run \in [Runs -> Sessions]
    /\ postmortem \in PostmortemRows \union {NULL}
    /\ memory \in MemoryRows \union {NULL}
    /\ new_postmortem \in PostmortemRows \union {NULL}
    /\ new_memory \in MemoryRows \union {NULL}
    /\ new_postmortem # NULL => run[new_postmortem.run].phase \in {"index", "embed", "commit"}
    /\ new_memory # NULL => run[new_memory.run].phase = "commit"

\* Whatever overlaps or fails, a memory tells of a run whose recovery was
\* validated, and is never there without the postmortem it refers to.
MemoryIsEarned ==
    memory # NULL =>
        /\ memory.run \in Passed(committed)
        /\ postmortem # NULL /\ memory.postmortem = postmortem.run

\* A postmortem tells of a run whose recovery was validated, and its history
\* has that run in it; the remediation it names is never later than the one
\* that resolved the incident.  If the validation of the run left a row, then
\* the one quoted passed and is not later, either; else it may be any other
\* run's, or a fixed sentence.
PostmortemIsComplete ==
    postmortem # NULL =>
        LET resolver == postmortem.run
            quoted == postmortem.validation
        IN  /\ resolver \in Passed(committed)
            /\ resolver \in postmortem.seen
            /\ started[postmortem.remediation] <= started[resolver]
            /\ validated[resolver] # 0 =>
                 /\ quoted \in Passed(committed)
                 /\ validated[quoted] \in 1 .. validated[resolver]

\* The action a memory names did not fail, nor is it listed with the failures;
\* it is the one that resolved the incident unless the audit trail has another
\* action that succeeded, whose validation may have failed.
MemoryNamesItsAction ==
    memory # NULL =>
        /\ outcome[memory.action] # "failed"
        /\ memory.action \notin memory.failures
        /\ \/ memory.action = memory.run
           \/ memory.action \in committed /\ Cardinality(committed \ memory.failures) > 1

\* What is remembered first stands: no later resolution rewrites it.
FirstRecordStands ==
    [][ /\ postmortem # NULL => postmortem' = postmortem
        /\ memory # NULL => memory' = memory ]_vars

\* Every resolution leads to a postmortem, the run's own or another's, unless
\* the run fails: not even when its INSERT loses against another run's.
ResolutionIsRecorded ==
    \A r \in Runs : At(r, "resolved") ~> (postmortem # NULL \/ r \in lost)

=============================================================================
