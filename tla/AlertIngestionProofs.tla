------------------------ MODULE AlertIngestionProofs ------------------------
(***************************************************************************)
(* Theorems about AlertIngestion, for any number of requests at the same   *)
(* time and any bound on incidents.                                        *)
(*                                                                         *)
(* Why duplicates are twins: a row that a lookup passed over was terminal  *)
(* or had its alert resolved.  It stays so unless it is reopened (Quiet,   *)
(* QuietStays), hence no row that the inserting lookup could see is found  *)
(* by a firing alert later (SawQuiet).  Nothing of this holds of a row     *)
(* that a client posts, which is there without a lookup.                   *)
(***************************************************************************)
EXTENDS AlertIngestion, TLAPS

Closed(i) == status[i] \in Terminal \/ i \in revived

Quiet(i) == Closed(i) \/ alert_status[i] = "resolved"

Numbered ==
    /\ Rows \subseteq 1 .. created
    /\ \A i \in Rows : saw[i] \subseteq Rows
    /\ \A i \in Rows : \A k \in saw[i] : k < i

\* What a handler knows: its number is its own, and of the rows it saw those
\* it passed over are quiet.
Knows(h) ==
    /\ request[h].saw \subseteq Rows
    /\ request[h].insert =>
         /\ request[h].incident \in 1 .. created
         /\ request[h].incident \notin Rows
         /\ \A i \in request[h].saw :
              /\ i < request[h].incident
              /\ ~request[h].posts => Quiet(i)
              /\ ~request[h].posts /\ request[h].kind = "resolved" => Closed(i)
    /\ ~request[h].insert =>
         /\ request[h].incident \in Rows
         /\ request[h].kind = "resolved" =>
              \A i \in request[h].saw : i <= request[h].incident \/ Closed(i)

Handled == \A h \in Requests : request[h].phase = "found" => Knows(h)

Distinct ==
    \A g, h \in Requests :
        /\ g # h
        /\ request[g].phase = "found" /\ request[g].insert
        /\ request[h].phase = "found" /\ request[h].insert
        => request[g].incident # request[h].incident

SawQuiet == \A k \in Rows \ posted : \A i \in saw[k] : Quiet(i)

FiringHasJob == \A i \in Rows \ posted : alert_status[i] = "firing" => i \in jobs

IInv ==
    /\ TypeOK
    /\ Numbered
    /\ Handled
    /\ Distinct
    /\ SawQuiet
    /\ FiringHasJob

\* No action takes a variable out of its type.
THEOREM TypeCorrect == Spec => []TypeOK
<1> USE IngestionAssumption DEF TypeOK, Statuses, Terminal, Kinds, Incidents
<1>1. Init => TypeOK
  BY DEF Init, Waiting
<1>2. TypeOK /\ [Next]_vars => TypeOK'
  <2> SUFFICES ASSUME TypeOK, [Next]_vars PROVE TypeOK'
    OBVIOUS
  <2>1. ASSUME NEW h \in Requests, Lookup(h) PROVE TypeOK'
    <3>1. Rows \in SUBSET Incidents
      BY DEF Rows
    <3>2. PICK r \in [phase : {"found"}, kind : Kinds, incident : Incidents,
                      insert : BOOLEAN, posts : BOOLEAN, saw : SUBSET Incidents] :
            request' = [request EXCEPT ![h] = r]
      <4>1. ASSUME NEW kind \in Kinds, created < MaxIncidents,
                   request' = [request EXCEPT ![h] =
                     [phase |-> "found", kind |-> kind, incident |-> created + 1,
                      insert |-> TRUE, posts |-> FALSE, saw |-> Rows]]
            PROVE  \E r \in [phase : {"found"}, kind : Kinds, incident : Incidents,
                              insert : BOOLEAN, posts : BOOLEAN, saw : SUBSET Incidents] :
                     request' = [request EXCEPT ![h] = r]
        <5> DEFINE r == [phase |-> "found", kind |-> kind, incident |-> created + 1,
                         insert |-> TRUE, posts |-> FALSE, saw |-> Rows]
        <5>1. created + 1 \in Incidents
          BY <4>1
        <5>2. r \in [phase : {"found"}, kind : Kinds, incident : Incidents,
                     insert : BOOLEAN, posts : BOOLEAN, saw : SUBSET Incidents]
          BY <3>1, <5>1
        <5> QED
          BY <4>1, <5>2
      <4>2. ASSUME NEW kind \in Kinds, NEW i \in Incidents,
                   request' = [request EXCEPT ![h] =
                     [phase |-> "found", kind |-> kind, incident |-> i,
                      insert |-> FALSE, posts |-> FALSE, saw |-> Rows]]
            PROVE  \E r \in [phase : {"found"}, kind : Kinds, incident : Incidents,
                              insert : BOOLEAN, posts : BOOLEAN, saw : SUBSET Incidents] :
                     request' = [request EXCEPT ![h] = r]
        BY <3>1, <4>2
      <4> QED
        BY <2>1, <4>1, <4>2 DEF Lookup
    <3>3. created' \in 0 .. MaxIncidents
      BY <2>1 DEF Lookup
    <3> QED
      BY <2>1, <3>2, <3>3 DEF Lookup, history
  <2>1a. ASSUME NEW h \in Requests, PostIncident(h) PROVE TypeOK'
    <3>1. Rows \in SUBSET Incidents /\ created + 1 \in Incidents
      BY <2>1a DEF Rows, PostIncident
    <3>2. PICK kind \in Kinds :
            request' = [request EXCEPT ![h] =
              [phase |-> "found", kind |-> kind, incident |-> created + 1,
               insert |-> TRUE, posts |-> TRUE, saw |-> Rows]]
      BY <2>1a DEF PostIncident
    <3>3. created' \in 0 .. MaxIncidents
      BY <2>1a DEF PostIncident
    <3> QED
      BY <2>1a, <3>1, <3>2, <3>3 DEF PostIncident, history
  <2>2. ASSUME NEW h \in Requests, CreateIncident(h) PROVE TypeOK'
    <3>1. PICK s \in Statuses : status' = [status EXCEPT ![request[h].incident] = s]
      BY <2>2 DEF CreateIncident, NewStatus
    <3>2. request[h].incident \in Incidents /\ request[h].kind \in Kinds
      BY <2>2 DEF CreateIncident
    <3>3. request[h].saw \in SUBSET Incidents
      BY <2>2
    <3> QED
      BY <2>2, <3>1, <3>2, <3>3 DEF CreateIncident, NewAlertStatus, Waiting
  <2>3. ASSUME NEW h \in Requests, UpdateIncident(h) PROVE TypeOK'
    BY <2>3 DEF UpdateIncident, Written, Waiting, history
  <2>4. ASSUME NEW h \in Requests, RequestFails(h) PROVE TypeOK'
    BY <2>4 DEF RequestFails, Waiting, history
  <2>5. ASSUME NEW i \in Incidents, Investigation(i) PROVE TypeOK'
    BY <2>5 DEF Investigation
  <2>6. CASE UNCHANGED vars
    BY <2>6 DEF vars, history
  <2> QED
    BY <2>1, <2>1a, <2>2, <2>3, <2>4, <2>5, <2>6 DEF Next
<1> QED
  BY <1>1, <1>2, PTL DEF Spec

\* A quiet row stays quiet, and a closed one closed.
LEMMA QuietStays ==
    ASSUME IInv, [Next]_vars, NEW i \in Rows
    PROVE  /\ i \in Rows'
           /\ Closed(i) => Closed(i)'
           /\ Quiet(i) => Quiet(i)'
<1> DEFINE Goal == /\ i \in Rows'
                   /\ Closed(i) => Closed(i)'
                   /\ Quiet(i) => Quiet(i)'
<1> USE DEF IInv, TypeOK, Statuses, Terminal, Incidents, Rows, Quiet, Closed
<1>1. ASSUME NEW h \in Requests, Lookup(h) PROVE Goal
  BY <1>1 DEF Lookup, history
<1>1a. ASSUME NEW h \in Requests, PostIncident(h) PROVE Goal
  BY <1>1a DEF PostIncident, history
<1>2. ASSUME NEW h \in Requests, CreateIncident(h) PROVE Goal
  <2>1. request[h].incident # i
    BY <1>2 DEF CreateIncident, Handled, Knows
  <2> QED
    BY <1>2, <2>1 DEF CreateIncident
<1>3. ASSUME NEW h \in Requests, UpdateIncident(h) PROVE Goal
  BY <1>3 DEF UpdateIncident, Written, Kinds, history
<1>4. ASSUME NEW h \in Requests, RequestFails(h) PROVE Goal
  BY <1>4 DEF RequestFails, history
<1>5. ASSUME NEW k \in Incidents, Investigation(k) PROVE Goal
  BY <1>5 DEF Investigation
<1>6. CASE UNCHANGED vars
  BY <1>6 DEF vars, history
<1> QED
  BY <1>1, <1>1a, <1>2, <1>3, <1>4, <1>5, <1>6 DEF Next

\* What a lookup that inserts passed over is quiet.
LEMMA LookupPassesQuiet ==
    ASSUME TypeOK, NEW kind \in Kinds, Matching(kind) = {}, NEW i \in Rows
    PROVE  Quiet(i) /\ (kind = "resolved" => Closed(i))
  BY DEF TypeOK, Matching, Firing, Active, Quiet, Closed, Kinds, Rows, Incidents

\* Every step of AlertIngestion preserves the inductive invariant.
LEMMA InductiveStep == ASSUME IInv, TypeOK', [Next]_vars PROVE IInv'
<1> USE IngestionAssumption
<1>0. \A i \in Rows : i \in Rows' /\ (Closed(i) => Closed(i)') /\ (Quiet(i) => Quiet(i)')
  BY QuietStays
<1>1. ASSUME NEW h \in Requests, Lookup(h) PROVE IInv'
  <2> USE DEF IInv, TypeOK
  <2>a. Rows' = Rows /\ UNCHANGED <<status, alert_status, jobs, saw, posted, revived>>
    BY <1>1 DEF Lookup, Rows, history
  <2>b. /\ \A i : Closed(i)' <=> Closed(i)
        /\ \A i : Quiet(i)' <=> Quiet(i)
    BY <2>a DEF Closed, Quiet
  <2>c. created' \in Nat /\ created' >= created
    BY <1>1 DEF Lookup, Incidents
  <2>1. Numbered'
    BY <2>a, <2>c DEF Numbered, Rows, Incidents
  <2>2. Handled'
    <3>1. PICK kind \in Kinds :
            \/ /\ Matching(kind) = {}
               /\ created' = created + 1
               /\ request' = [request EXCEPT ![h] =
                    [phase |-> "found", kind |-> kind, incident |-> created', insert |-> TRUE,
                     posts |-> FALSE, saw |-> Rows]]
            \/ \E i \in Incidents :
                /\ Latest(Matching(kind), i)
                /\ request' = [request EXCEPT ![h] =
                     [phase |-> "found", kind |-> kind, incident |-> i, insert |-> FALSE,
                      posts |-> FALSE, saw |-> Rows]]
                /\ UNCHANGED created
      BY <1>1 DEF Lookup
    <3>2. CASE /\ Matching(kind) = {}
               /\ created' = created + 1
               /\ request' = [request EXCEPT ![h] =
                    [phase |-> "found", kind |-> kind, incident |-> created', insert |-> TRUE,
                     posts |-> FALSE, saw |-> Rows]]
      <4>1. \A i \in Rows : Quiet(i) /\ (kind = "resolved" => Closed(i))
        BY <3>2, LookupPassesQuiet
      <4>2. created \in Nat /\ Rows \subseteq 1 .. created
        BY DEF Numbered
      <4>3. (\A i \in Rows : i < created + 1) /\ created + 1 \notin Rows
        BY <4>2
      <4>4. ASSUME NEW g \in Requests, request'[g].phase = "found" PROVE Knows(g)'
        <5>1. CASE g = h
          <6>1. /\ request'[h].kind = kind
                /\ request'[h].incident = created + 1
                /\ request'[h].insert
                /\ request'[h].saw = Rows
            BY <3>2
          <6>2. created + 1 \in 1 .. created'
            BY <3>2, <4>2
          <6> QED
            BY <2>a, <2>b, <4>1, <4>3, <5>1, <6>1, <6>2 DEF Knows
        <5>2. CASE g # h
          BY <2>a, <2>b, <3>2, <4>2, <4>4, <5>2 DEF Handled, Knows
        <5> QED
          BY <5>1, <5>2
      <4> QED
        BY <4>4 DEF Handled
    <3>3. ASSUME NEW k \in Incidents,
                 Latest(Matching(kind), k),
                 request' = [request EXCEPT ![h] =
                     [phase |-> "found", kind |-> kind, incident |-> k, insert |-> FALSE,
                      posts |-> FALSE, saw |-> Rows]],
                 UNCHANGED created
          PROVE  Handled'
      <4>1. k \in Rows
        BY <3>3 DEF Latest, Matching, Firing, Active
      <4>2. kind = "resolved" => \A i \in Rows : i <= k \/ Closed(i)
        BY <3>3 DEF Latest, Matching, Active, Closed
      <4> QED
        BY <2>a, <2>b, <3>3, <4>1, <4>2 DEF Handled, Knows
    <3> QED
      BY <3>1, <3>2, <3>3
  <2>3. Distinct'
    <3>1. created \in Nat
      OBVIOUS
    <3>2. \A g \in Requests \ {h} : request'[g] = request[g]
      BY <1>1 DEF Lookup
    <3>3. request'[h].insert => request'[h].incident = created + 1
      BY <1>1 DEF Lookup
    <3>4. \A g \in Requests :
            request[g].phase = "found" /\ request[g].insert => request[g].incident # created + 1
      BY <3>1 DEF Handled, Knows
    <3> QED
      BY <3>2, <3>3, <3>4 DEF Distinct
  <2>4. SawQuiet'
    BY <2>a, <2>b DEF SawQuiet
  <2>5. FiringHasJob'
    BY <2>a DEF FiringHasJob
  <2> QED
    BY <2>1, <2>2, <2>3, <2>4, <2>5
<1>1a. ASSUME NEW h \in Requests, PostIncident(h) PROVE IInv'
  <2> USE DEF IInv, TypeOK
  <2>a. Rows' = Rows /\ UNCHANGED <<status, alert_status, jobs, saw, posted, revived>>
    BY <1>1a DEF PostIncident, Rows, history
  <2>b. /\ \A i : Closed(i)' <=> Closed(i)
        /\ \A i : Quiet(i)' <=> Quiet(i)
    BY <2>a DEF Closed, Quiet
  <2>c. /\ created \in Nat /\ created' = created + 1
        /\ Rows \subseteq 1 .. created
    BY <1>1a DEF PostIncident, Numbered
  <2>d. /\ request'[h].phase = "found" /\ request'[h].insert /\ request'[h].posts
        /\ request'[h].incident = created + 1
        /\ request'[h].saw = Rows
        /\ \A g \in Requests \ {h} : request'[g] = request[g]
    BY <1>1a DEF PostIncident
  <2>1. Numbered'
    BY <2>a, <2>c DEF Numbered, Rows, Incidents
  <2>2. Handled'
    <3>1. (\A i \in Rows : i < created + 1) /\ created + 1 \notin Rows
      BY <2>c
    <3>2. Knows(h)'
      <4>1. created + 1 \in 1 .. created'
        BY <2>c
      <4> QED
        BY <2>a, <2>d, <3>1, <4>1 DEF Knows
    <3>3. ASSUME NEW g \in Requests \ {h}, request'[g].phase = "found" PROVE Knows(g)'
      <4>1. request'[g] = request[g] /\ Knows(g)
        BY <2>d, <3>3 DEF Handled
      <4> QED
        BY <2>a, <2>b, <2>c, <4>1 DEF Knows
    <3> QED
      BY <3>2, <3>3 DEF Handled
  <2>3. Distinct'
    <3>1. \A g \in Requests :
            request[g].phase = "found" /\ request[g].insert => request[g].incident # created + 1
      BY <2>c DEF Handled, Knows
    <3> QED
      BY <2>d, <3>1 DEF Distinct
  <2>4. SawQuiet'
    BY <2>a, <2>b DEF SawQuiet
  <2>5. FiringHasJob'
    BY <2>a DEF FiringHasJob
  <2> QED
    BY <2>1, <2>2, <2>3, <2>4, <2>5
<1>2. ASSUME NEW h \in Requests, CreateIncident(h) PROVE IInv'
  <2> USE DEF IInv, TypeOK
  <2> DEFINE n == request[h].incident
  <2>a. /\ request[h].phase = "found" /\ request[h].insert
        /\ n \in 1 .. created /\ n \notin Rows
        /\ request[h].saw \subseteq Rows
        /\ request[h].kind \in Kinds
    BY <1>2 DEF CreateIncident, Handled, Knows
  <2>b. Rows' = Rows \union {n}
    <3>1. PICK s \in Statuses : status' = [status EXCEPT ![n] = s]
      BY <1>2, <2>a DEF CreateIncident, NewStatus, Statuses, Terminal
    <3> QED
      BY <2>a, <3>1 DEF Rows, Incidents, Statuses, Terminal
  <2>c. /\ saw'[n] = request[h].saw
        /\ \A i \in Rows : saw'[i] = saw[i] /\ alert_status'[i] = alert_status[i]
        /\ alert_status'[n] = request[h].kind
        /\ created' = created
        /\ posted' = IF request[h].posts THEN posted \union {n} ELSE posted
    BY <1>2, <2>a DEF CreateIncident, Rows, NewAlertStatus, Incidents
  <2>d. \A g \in Requests \ {h} : request'[g] = request[g]
    BY <1>2 DEF CreateIncident
  <2>e. request'[h].phase = "idle"
    BY <1>2 DEF CreateIncident, Waiting
  <2>1. Numbered'
    <3>1. \A i \in request[h].saw : i < n
      BY <2>a DEF Handled, Knows
    <3>2. Rows' \subseteq 1 .. created'
      BY <2>a, <2>b, <2>c DEF Numbered
    <3>3. ASSUME NEW i \in Rows'
          PROVE  saw'[i] \subseteq Rows' /\ \A k \in saw'[i] : k < i
      BY <2>a, <2>b, <2>c, <3>1, <3>3 DEF Numbered
    <3> QED
      BY <3>2, <3>3 DEF Numbered
  <2>2. Handled'
    <3> SUFFICES ASSUME NEW g \in Requests, request'[g].phase = "found"
                 PROVE  Knows(g)'
      BY DEF Handled
    <3>1. g # h /\ request'[g] = request[g] /\ Knows(g)
      BY <2>d, <2>e DEF Handled
    <3>2. request[g].insert => request[g].incident # n
      BY <2>a, <3>1, <2>d DEF Distinct
    <3> QED
      BY <1>0, <2>b, <2>c, <3>1, <3>2 DEF Knows
  <2>3. Distinct'
    BY <2>d, <2>e DEF Distinct
  <2>4. SawQuiet'
    <3> SUFFICES ASSUME NEW k \in Rows' \ posted', NEW i \in saw'[k] PROVE Quiet(i)'
      BY DEF SawQuiet
    <3>1. CASE k = n
      <4>1. ~request[h].posts /\ i \in request[h].saw /\ i \in Rows
        BY <2>a, <2>c, <3>1
      <4>2. Quiet(i)
        BY <2>a, <4>1 DEF Handled, Knows
      <4> QED
        BY <1>0, <4>1, <4>2
    <3>2. CASE k # n
      <4>1. k \in Rows \ posted /\ i \in saw[k] /\ i \in Rows
        BY <2>b, <2>c, <3>2 DEF Numbered
      <4> QED
        BY <1>0, <4>1 DEF SawQuiet
    <3> QED
      BY <3>1, <3>2
  <2>5. FiringHasJob'
    BY <1>2, <2>a, <2>b, <2>c DEF FiringHasJob, CreateIncident
  <2> QED
    BY <2>1, <2>2, <2>3, <2>4, <2>5
<1>3. ASSUME NEW h \in Requests, UpdateIncident(h) \/ RequestFails(h) PROVE IInv'
  <2> USE DEF IInv, TypeOK
  <2>a. /\ Rows' = Rows
        /\ UNCHANGED <<jobs, created, saw, posted>>
        /\ \A g \in Requests \ {h} : request'[g] = request[g]
        /\ request'[h].phase = "idle"
    BY <1>3 DEF UpdateIncident, RequestFails, Waiting, Rows, history
  <2>1. Numbered'
    BY <2>a DEF Numbered
  <2>2. Handled'
    <3> SUFFICES ASSUME NEW g \in Requests, request'[g].phase = "found"
                 PROVE  Knows(g)'
      BY DEF Handled
    <3>1. request'[g] = request[g] /\ Knows(g)
      BY <2>a DEF Handled
    <3> QED
      BY <1>0, <2>a, <3>1 DEF Knows
  <2>3. Distinct'
    <3>1. \A g \in Requests : request'[g].phase = "found" => request'[g] = request[g]
      BY <2>a
    <3> QED
      BY <3>1 DEF Distinct
  <2>4. SawQuiet'
    BY <1>0, <2>a DEF SawQuiet, Numbered
  <2>5. FiringHasJob'
    <3>1. \A i \in Rows : alert_status'[i] = "firing" => alert_status[i] = "firing"
      BY <1>3 DEF UpdateIncident, RequestFails, Written, Rows, Kinds
    <3> QED
      BY <2>a, <3>1 DEF FiringHasJob
  <2> QED
    BY <2>1, <2>2, <2>3, <2>4, <2>5
<1>4. ASSUME NEW k \in Incidents, Investigation(k) PROVE IInv'
  <2> USE DEF IInv, TypeOK
  <2>a. Rows' = Rows /\ UNCHANGED <<alert_status, jobs, request, created, saw, posted>>
    BY <1>4 DEF Investigation, Rows, Statuses, Terminal
  <2>1. Numbered'
    BY <2>a DEF Numbered
  <2>2. Handled'
    BY <1>0, <2>a DEF Handled, Knows
  <2>3. Distinct'
    BY <2>a DEF Distinct
  <2>4. SawQuiet'
    BY <1>0, <2>a DEF SawQuiet, Numbered
  <2>5. FiringHasJob'
    BY <2>a DEF FiringHasJob
  <2> QED
    BY <2>1, <2>2, <2>3, <2>4, <2>5
<1>5. CASE UNCHANGED vars
  BY <1>5
  DEF vars, history, IInv, TypeOK, Numbered, Handled, Knows, Distinct, SawQuiet, FiringHasJob,
      Rows, Quiet, Closed
<1> QED
  BY <1>1, <1>1a, <1>2, <1>3, <1>4, <1>5 DEF Next

\* The inductive invariant holds in every reachable state.
THEOREM Inductive == Spec => []IInv
<1>1. Init => IInv
  BY IngestionAssumption
  DEF Init, IInv, TypeOK, Numbered, Handled, Distinct, SawQuiet, FiringHasJob, Rows,
      Waiting, Incidents, Statuses, Kinds, Terminal
<1>2. IInv /\ TypeOK' /\ [Next]_vars => IInv'
  BY InductiveStep
<1> QED
  BY <1>1, <1>2, TypeCorrect, PTL DEF Spec

\* Two incidents take firing alerts at once only if the requests that inserted
\* them overlapped, one of them was reopened, or one posted on top of the other.
THEOREM DuplicatesOverlapped == Spec => []DuplicatesAreTwins
<1>1. IInv => DuplicatesAreTwins
  BY DEF IInv, SawQuiet, DuplicatesAreTwins, Twins, PostedOver, Firing, Active, Quiet, Closed
<1> QED
  BY <1>1, Inductive, PTL

\* Whatever takes firing alerts has a job of its own, or was posted by a client.
THEOREM FiringHasInvestigation == Spec => []FiringIsInvestigated
<1>1. IInv => FiringIsInvestigated
  BY DEF IInv, FiringHasJob, FiringIsInvestigated, Firing, Active
<1> QED
  BY <1>1, Inductive, PTL

\* No step marks a resolved alert firing again.
THEOREM NoRefiring == Spec => ResolvedAlertStaysResolved
<1>1. IInv /\ [Next]_vars =>
        [\A i \in Rows : alert_status[i] = "resolved" => alert_status'[i] = "resolved"]_vars
  <2> SUFFICES ASSUME IInv, Next, NEW i \in Rows, alert_status[i] = "resolved"
               PROVE  alert_status'[i] = "resolved"
    OBVIOUS
  <2> USE DEF IInv, TypeOK, Rows
  <2>1. ASSUME NEW h \in Requests, Lookup(h) PROVE alert_status'[i] = "resolved"
    BY <2>1 DEF Lookup
  <2>1a. ASSUME NEW h \in Requests, PostIncident(h) PROVE alert_status'[i] = "resolved"
    BY <2>1a DEF PostIncident
  <2>2. ASSUME NEW h \in Requests, CreateIncident(h) PROVE alert_status'[i] = "resolved"
    BY <2>2 DEF CreateIncident, Handled, Knows
  <2>3. ASSUME NEW h \in Requests, UpdateIncident(h) PROVE alert_status'[i] = "resolved"
    BY <2>3 DEF UpdateIncident, Written, Kinds
  <2>4. ASSUME NEW h \in Requests, RequestFails(h) PROVE alert_status'[i] = "resolved"
    BY <2>4 DEF RequestFails
  <2>5. ASSUME NEW k \in Incidents, Investigation(k) PROVE alert_status'[i] = "resolved"
    BY <2>5 DEF Investigation
  <2> QED
    BY <2>1, <2>1a, <2>2, <2>3, <2>4, <2>5 DEF Next
<1> QED
  BY <1>1, Inductive, PTL DEF Spec, ResolvedAlertStaysResolved

\* A resolved webhook leaves no incident that it could have found and that
\* still takes firing alerts, except twins of the one it found, reopened ones and
\* those over which a client posted the one it found.
THEOREM ClearingIsComplete == Spec => ResolvedClearsFiring
<1>1. ASSUME IInv, NEW h \in Requests, CreateIncident(h) \/ UpdateIncident(h),
             request[h].kind = "resolved", ~request[h].posts,
             NEW i \in Firing' \intersect request[h].saw
      PROVE  \/ i \in revived
             \/ /\ ~request[h].insert
                /\ Twins(i, request[h].incident) \/ PostedOver(i, request[h].incident)
  <2> SUFFICES ASSUME i \notin revived
               PROVE  /\ ~request[h].insert
                      /\ Twins(i, request[h].incident) \/ PostedOver(i, request[h].incident)
    OBVIOUS
  <2> DEFINE k == request[h].incident
  <2> USE <1>1 DEF IInv, TypeOK
  <2>1. request[h].phase = "found" /\ Knows(h) /\ i \in Rows
    BY DEF CreateIncident, UpdateIncident, Handled, Knows
  <2>2. status[i] \notin Terminal /\ (i # k => alert_status[i] = "firing")
    BY <2>1 DEF Firing, Active, CreateIncident, UpdateIncident, Knows, Rows
  <2>3. ~request[h].insert
    BY <2>1, <2>2 DEF Knows, Closed
  <2>4. k \in Rows /\ UpdateIncident(h)
    BY <2>1, <2>3 DEF Knows, CreateIncident
  <2>5. i # k
    BY <2>1, <2>4 DEF UpdateIncident, Written, Firing, Rows
  <2>6. i < k
    BY <2>1, <2>2, <2>3, <2>4, <2>5 DEF Knows, Closed, Rows, Incidents
  <2>7. i \notin saw[k] \/ k \in posted
    BY <2>1, <2>2, <2>4, <2>5 DEF SawQuiet, Quiet, Closed
  <2>8. k \notin saw[i]
    BY <2>1, <2>4, <2>6 DEF Numbered, Rows, Incidents
  <2> QED
    BY <2>3, <2>7, <2>8 DEF Twins, PostedOver
<1>2. IInv /\ [Next]_vars =>
        [\A h \in Requests :
           /\ CreateIncident(h) \/ UpdateIncident(h)
           /\ request[h].kind = "resolved" /\ ~request[h].posts
           => \A i \in Firing' \intersect request[h].saw :
                 \/ i \in revived
                 \/ /\ ~request[h].insert
                    /\ \/ Twins(i, request[h].incident)
                       \/ PostedOver(i, request[h].incident)]_vars
  BY <1>1
<1> QED
  BY <1>2, Inductive, PTL DEF Spec, ResolvedClearsFiring

=============================================================================
