--------------------------- MODULE AlertIngestion ---------------------------
(***************************************************************************)
(* Alertmanager's webhooks and the incidents they open, update and mark as *)
(* resolved (alert_service, incident_service), next to clients that post   *)
(* incidents themselves (POST /incidents of api/routes/incidents).         *)
(*                                                                         *)
(* Requests with different fingerprints touch different rows, so there is  *)
(* one fingerprint here.  An incident is a number: the order of created_at *)
(* which is the start of the transaction that inserts the row: for a       *)
(* webhook, of the lookup before it.  Each request is one session: a       *)
(* webhook looks for an incident, and later inserts one or updates the one *)
(* found; the UPDATE leaves out columns that have the value they were read *)
(* with.  A client's incident is inserted without any lookup, with the     *)
(* status and alert_status the client gives, and gets no job.              *)
(*                                                                         *)
(* auto_investigate is TRUE: the route of the webhooks leaves the default. *)
(*                                                                         *)
(* Investigations (ApprovalFlow, JobQueue) write the status meanwhile;     *)
(* INVESTIGATING stands for all states of an incident that is neither new  *)
(* nor RESOLVED nor FAILED, RESOLVED for FAILED, too (no lookup selects    *)
(* either), and resolved for any alert_status other than firing.  A run    *)
(* that ends late may also write a status over RESOLVED or FAILED, and an  *)
(* operator may have any incident investigated again.                      *)
(***************************************************************************)
EXTENDS Integers, FiniteSets

CONSTANTS
    NULL,
    Requests,      \* requests that are processed at the same time
    MaxIncidents   \* bound: incidents inserted or about to be

ASSUME IngestionAssumption ==
    /\ MaxIncidents \in Nat
    /\ NULL \notin Nat

VARIABLES
    status,         \* per incident: IncidentModel.status, ABSENT before its commit
    alert_status,   \* per incident: firing or resolved
    jobs,           \* incidents with a row in investigation_jobs
    request,        \* per request: where its handler is
    created         \* numbers given out so far

\* History variables: no action's guard reads them.
VARIABLES
    saw,            \* per incident: the rows visible when its transaction began
    posted,         \* incidents inserted by clients
    revived         \* incidents whose terminal status was overwritten

history == <<saw, posted, revived>>
vars == <<status, alert_status, jobs, request, created, history>>

Incidents == 1 .. MaxIncidents
Kinds == {"firing", "resolved"}
Terminal == {"RESOLVED"}
Statuses == {"DETECTED", "INVESTIGATING"} \union Terminal

\* posts: the request is a client's, not a webhook.
Waiting == [phase |-> "idle", kind |-> "firing", incident |-> NULL, insert |-> FALSE,
            posts |-> FALSE, saw |-> {}]

Init ==
    /\ status = [i \in Incidents |-> "ABSENT"]
    /\ alert_status = [i \in Incidents |-> "firing"]
    /\ jobs = {}
    /\ request = [h \in Requests |-> Waiting]
    /\ created = 0
    /\ saw = [i \in Incidents |-> {}]
    /\ posted = {}
    /\ revived = {}

Rows == {i \in Incidents : status[i] # "ABSENT"}

\* What find_active_by_fingerprint selects from.
Active == {i \in Rows : status[i] \notin Terminal}

\* What find_firing_by_fingerprint selects from.
Firing == {i \in Active : alert_status[i] = "firing"}

\* MUTANT of Matching: a firing alert is only added to a new incident.
MatchingNew(kind) ==
    IF kind = "firing" THEN {i \in Firing : status[i] = "DETECTED"} ELSE Active

Matching(kind) == IF kind = "firing" THEN Firing ELSE Active

\* MUTANT of Latest: ascending order.
LatestAscending(S, i) == i \in S /\ \A k \in S : i <= k

\* ORDER BY created_at DESC LIMIT 1.
Latest(S, i) == i \in S /\ \A k \in S : k <= i

\* The lookup of _handle_firing_alert and _handle_resolved_alert.
Lookup(h) ==
    /\ request[h].phase = "idle"
    /\ \E kind \in Kinds :
        \/ /\ Matching(kind) = {}
           /\ created < MaxIncidents
           /\ created' = created + 1
           /\ request' = [request EXCEPT ![h] =
                [phase |-> "found", kind |-> kind, incident |-> created', insert |-> TRUE,
                 posts |-> FALSE, saw |-> Rows]]
        \/ \E i \in Incidents :
            /\ Latest(Matching(kind), i)
            /\ request' = [request EXCEPT ![h] =
                 [phase |-> "found", kind |-> kind, incident |-> i, insert |-> FALSE,
                  posts |-> FALSE, saw |-> Rows]]
            /\ UNCHANGED created
    /\ UNCHANGED <<status, alert_status, jobs, history>>

\* POST /incidents: no lookup.  kind is the alert_status of the payload (which
\* came with a status, but nothing depends on it before the row is inserted).
PostIncident(h) ==
    /\ request[h].phase = "idle"
    /\ created < MaxIncidents
    /\ created' = created + 1
    /\ \E kind \in Kinds :
         request' = [request EXCEPT ![h] =
              [phase |-> "found", kind |-> kind, incident |-> created', insert |-> TRUE,
               posts |-> TRUE, saw |-> Rows]]
    /\ UNCHANGED <<status, alert_status, jobs, history>>

NewStatus(kind) == IF kind = "firing" THEN "DETECTED" ELSE "RESOLVED"

\* MUTANT of NewAlertStatus: left to the default of create_incident.
NewAlertStatusDefault(kind) == "firing"

NewAlertStatus(kind) == kind

\* create_incident and, for a firing alert of a webhook, the job, in one commit.
CreateIncident(h) ==
    /\ request[h].phase = "found"
    /\ request[h].insert
    /\ LET i == request[h].incident
           kind == request[h].kind
       IN  /\ \E s \in IF request[h].posts THEN Statuses ELSE {NewStatus(kind)} :
                status' = [status EXCEPT ![i] = s]
           /\ alert_status' = [alert_status EXCEPT ![i] = NewAlertStatus(kind)]
           /\ jobs' = IF kind = "firing" /\ ~request[h].posts THEN jobs \union {i} ELSE jobs
           /\ saw' = [saw EXCEPT ![i] = request[h].saw]
           /\ posted' = IF request[h].posts THEN posted \union {i} ELSE posted
    /\ request' = [request EXCEPT ![h] = Waiting]
    /\ UNCHANGED <<created, revived>>

\* MUTANT of Written: the UPDATE names every column.
WrittenAlways(kind, i) == kind

\* A firing alert found alert_status firing, and so does not write it.
Written(kind, i) == IF kind = "firing" THEN alert_status[i] ELSE kind

\* update_incident and the commit at the end of the request.
UpdateIncident(h) ==
    /\ request[h].phase = "found"
    /\ ~request[h].insert
    /\ LET i == request[h].incident IN
        alert_status' = [alert_status EXCEPT ![i] = Written(request[h].kind, i)]
    /\ request' = [request EXCEPT ![h] = Waiting]
    /\ UNCHANGED <<status, jobs, created, history>>

\* A database error or a crash: rollback.  Alertmanager sends its own again.
RequestFails(h) ==
    /\ request[h].phase = "found"
    /\ request' = [request EXCEPT ![h] = Waiting]
    /\ UNCHANGED <<status, alert_status, jobs, created, history>>

\* An investigation of i writes a status.
Investigation(i) ==
    /\ status[i] # "ABSENT"
    /\ \E s \in Statuses \ {"DETECTED"} :
        /\ status' = [status EXCEPT ![i] = s]
        /\ revived' = IF status[i] \in Terminal /\ s \notin Terminal
                      THEN revived \union {i} ELSE revived
    /\ UNCHANGED <<alert_status, jobs, request, created, saw, posted>>

Next ==
    \/ \E h \in Requests :
        \/ Lookup(h) \/ PostIncident(h)
        \/ CreateIncident(h) \/ UpdateIncident(h) \/ RequestFails(h)
    \/ \E i \in Incidents : Investigation(i)

Spec == Init /\ [][Next]_vars

-----------------------------------------------------------------------------
(***************************************************************************)
(* Properties                                                              *)
(***************************************************************************)
\* Types; a number is given out once, and to a row that is inserted later.
TypeOK ==
    /\ status \in [Incidents -> Statuses \union {"ABSENT"}]
    /\ alert_status \in [Incidents -> Kinds]
    /\ jobs \subseteq Incidents
    /\ request \in [Requests ->
         [phase : {"idle", "found"}, kind : Kinds, incident : Incidents \union {NULL},
          insert : BOOLEAN, posts : BOOLEAN, saw : SUBSET Incidents]]
    /\ \A h \in Requests : request[h].phase = "found" => request[h].incident \in Incidents
    /\ created \in 0 .. MaxIncidents
    /\ saw \in [Incidents -> SUBSET Incidents]
    /\ posted \subseteq Incidents
    /\ revived \subseteq Incidents

\* The requests that inserted i and k overlapped: neither could see the other's
\* row.
Twins(i, k) == i \notin saw[k] /\ k \notin saw[i]

\* A client posted k although i was there.
PostedOver(i, k) == i \in saw[k] /\ k \in posted

\* A notification storm makes two incidents of one condition only out of
\* webhooks that overlapped; besides, an investigation may reopen one, or a
\* client post one on top of another.
DuplicatesAreTwins ==
    \A i, k \in Firing :
        \/ i = k \/ Twins(i, k)
        \/ i \in revived \/ k \in revived
        \/ PostedOver(i, k) \/ PostedOver(k, i)

\* An alert that was marked resolved is never marked firing again, so that a
\* firing alert that comes later is a fresh occurrence; in particular a firing
\* webhook that started before the resolved one and ends after it does not.
ResolvedAlertStaysResolved ==
    [][\A i \in Rows : alert_status[i] = "resolved" => alert_status'[i] = "resolved"]_vars

\* Of the incidents that later firing alerts are added to, every one that a
\* webhook opened has been given to an investigation: only an incident that a
\* client posted keeps a condition from being investigated.
FiringIsInvestigated == Firing \ posted \subseteq jobs

\* When a resolved webhook is done, no incident it could have found still takes
\* firing alerts, except twins of the one it found, reopened ones, and those
\* over which a client posted the one it found.
ResolvedClearsFiring ==
    [][\A h \in Requests :
         /\ CreateIncident(h) \/ UpdateIncident(h)
         /\ request[h].kind = "resolved" /\ ~request[h].posts
         => \A i \in Firing' \intersect request[h].saw :
               \/ i \in revived
               \/ /\ ~request[h].insert
                  /\ \/ Twins(i, request[h].incident)
                     \/ PostedOver(i, request[h].incident)]_vars

=============================================================================
