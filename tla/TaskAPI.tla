------------------------------ MODULE TaskAPI ------------------------------
(***************************************************************************)
(* The task endpoints of the orchestrator (cmd/control-orchestrator/main.go) *)
(* behind the tenancy middleware (internal/middleware/tenancy.go): tasks   *)
(* are started as Temporal workflows, whose lives TaskLives describes, *)
(* asked for their status and result, and signalled.                       *)
(*                                                                         *)
(* Handlers run concurrently.  POST /run makes its task id from the clock  *)
(* and calls Temporal later; /result asks the workflow first and then      *)
(* waits for it to end, at most for the 10 s of its context.  The last     *)
(* execution of an id is the one that empty run ids mean.  A tenant's slug *)
(* is what sanitizeTenantID makes of its name; names that hold "-task-"    *)
(* are left out.                                                           *)
(***************************************************************************)
EXTENDS TaskLives, Sequences

CONSTANTS
    Tenants,      \* names of tenants, not blank
    NoTenant,     \* the blank name
    sanitizeTenantID,  \* function from names to slugs
    Credentials,  \* what requests may carry
    Tenancies,    \* the configurations of tenancy
    Types,        \* the task types they ask for
    MaxTime,      \* bound: milliseconds
    MaxRequests,  \* bound: requests to /run
    MaxRuns       \* bound: runs of one execution

Names == Tenants \cup {NoTenant}

TaskTypes == {"incident_triage", "incident_triage_iterative",
              "incident_triage_agentic", "runbook_automation"}

(* good stands for the signature, issuer and audience of a JWT or the      *)
(* table of API keys; a JWT without nbf or exp has 0 or MaxTime + 1.       *)
Credential == [ kind : {"none", "jwt", "api_key"}, good : BOOLEAN, tenant : Tenants,
                nbf : Nat, exp : Nat ]

ASSUME APIAssumption ==
    /\ {NoTenant, ""} \cap Tenants = {}
    /\ sanitizeTenantID \in [Names -> STRING]
    /\ sanitizeTenantID[NoTenant] = ""
    /\ Credentials \subseteq Credential /\ Types \subseteq TaskTypes
    /\ Tenancies \subseteq {"disabled", "optional", "required"}
    /\ MaxTime \in Nat /\ MaxRequests \in Nat /\ MaxRuns \in Nat

VARIABLES
    tenancy,   \* cfg.Tenancy: "disabled", or whether auth is "optional" or "required"
    now,       \* the clock, in milliseconds
    requests,  \* history: the accepted requests to /run
    starting,  \* those that have not called Temporal
    executions,  \* of each task id: the executions of its workflow
    ran,       \* history: requests to /run answered with 200
    results    \* history: bodies /result answered with 200

vars == <<tenancy, now, requests, starting, executions, ran, results>>

-----------------------------------------------------------------------------
(* TenantAuthMiddleware. *)

verifyJWT(c) == c.good /\ c.nbf <= now /\ now < c.exp

authenticateTenant(c) ==
    CASE c.kind = "none"    -> [ ok |-> TRUE, tenant |-> NoTenant ]
      [] c.kind = "jwt"     -> [ ok |-> verifyJWT(c), tenant |-> c.tenant ]
      [] c.kind = "api_key" -> [ ok |-> c.good, tenant |-> c.tenant ]

(* A request without tenancy carries no tenant. *)
Caller(c) == IF tenancy # "disabled" THEN authenticateTenant(c).tenant ELSE NoTenant

Unauthorized(c) ==
    /\ tenancy # "disabled"
    /\ ~authenticateTenant(c).ok \/ (c.kind = "none" /\ tenancy = "required")

(* Faulty: an endpoint of the mux is missing in the list of prefixes. *)
extractsTaskIDButStop(op) ==
    op \in {"status", "result", "approve", "feedback", "refine", "events"}

(* extractTaskIDFromPath knows the endpoint. *)
extractsTaskID(op) ==
    op \in {"status", "result", "approve", "feedback", "refine", "stop", "events"}

(* An id without a tenant is "task-...". *)
tenantFromTaskID(id) == id.tenant

Forbidden(c, op, id) ==
    /\ Caller(c) # NoTenant
    /\ extractsTaskID(op)
    /\ tenantFromTaskID(id) # ""
    /\ tenantFromTaskID(id) # Caller(c)

-----------------------------------------------------------------------------
(* Faulty: the resolution of the ids is coarser than the clock's. *)
makeTaskIDSeconds(tenant) == [ tenant |-> sanitizeTenantID[tenant], ts |-> now \div 2 ]

makeTaskID(tenant) == [ tenant |-> sanitizeTenantID[tenant], ts |-> now ]

TaskIDs == [ tenant : { sanitizeTenantID[t] : t \in Names }, ts : 0..MaxTime ]

Init ==
    /\ tenancy \in Tenancies
    /\ now = 0
    /\ requests = <<>> /\ starting = {}
    /\ executions = [ id \in TaskIDs |-> <<>> ]
    /\ ran = {} /\ results = {}

-----------------------------------------------------------------------------
(* POST /run, up to its call of Temporal.  A refused request leaves        *)
(* nothing behind; tenant and type are those of the body.                  *)
RunTenant(c, tenant) == IF Caller(c) # NoTenant THEN Caller(c) ELSE tenant

Run(c, tenant, type) ==
    LET n == Len(requests) + 1 IN
    /\ n <= MaxRequests
    /\ ~Unauthorized(c)
    /\ Caller(c) # NoTenant => tenant \in {NoTenant, Caller(c)}
    /\ type \in Types
    /\ requests' = Append(requests,
           [ tenant |-> RunTenant(c, tenant), at |-> now, type |-> type,
             id |-> makeTaskID(RunTenant(c, tenant)) ])
    /\ starting' = starting \cup {n}
    /\ UNCHANGED <<tenancy, now, executions, ran, results>>

(* ExecuteWorkflow: Temporal joins an execution of that id that is open    *)
(* and starts one otherwise.                                               *)
LastOf(id) == executions[id][Len(executions[id])]

IsOpen(id) == executions[id] # <<>> /\ LastOf(id).life.outcome = "open"

StartOrJoin(n) ==
    LET id == requests[n].id IN
    executions' =
        IF IsOpen(id) THEN executions
        ELSE [ executions EXCEPT ![id] =
                   Append(@, [ task |-> n, type |-> requests[n].type, life |-> Fresh(1) ]) ]

Started(n) ==
    /\ n \in starting
    /\ starting' = starting \ {n}
    /\ StartOrJoin(n)
    /\ ran' = ran \cup {n}
    /\ UNCHANGED <<tenancy, now, requests, results>>

(* The call fails: 500, but the workflow may have been started. *)
StartFailed(n) ==
    /\ n \in starting
    /\ starting' = starting \ {n}
    /\ StartOrJoin(n) \/ UNCHANGED executions
    /\ UNCHANGED <<tenancy, now, requests, ran, results>>

-----------------------------------------------------------------------------
(* The endpoints with a task id: one of the ids that were given. *)

Known == { requests[n].id : n \in DOMAIN requests }

(* The runbook workflow registers no query handlers. *)
HasHandlers(e) == e.type # "runbook_automation"

(* Faulty: art.TaskID is not looked at. *)
HasResultAlways(e) == HasHandlers(e)

(* The query's artifact is one: art.TaskID != "". *)
HasResult(e) == HasHandlers(e) /\ e.life.result # "empty"

(* The incident workflows return a contracts.Artifact, the runbook workflow *)
(* a RunbookAutomationResult.                                               *)
ReturnsArtifact(e) == e.type # "runbook_automation"

(* we.Get(ctx, &art) decodes what the workflow returned into an Artifact.  *)
(* The JSON of a RunbookAutomationResult has none of an Artifact's keys:   *)
(* no error, and every field empty.                                        *)
Decoded(e) == IF ReturnsArtifact(e) THEN e.life.outcome ELSE "empty"

Serves(op, c, id) == ~Unauthorized(c) /\ ~Forbidden(c, op, id)

(* GET /result: the query's answer, ... *)
ResultByQuery(c, id) ==
    /\ Serves("result", c, id)
    /\ executions[id] # <<>> /\ HasResult(LastOf(id))
    /\ results' = results \cup
           {[ id |-> id, index |-> Len(executions[id]), body |-> LastOf(id).life.result ]}
    /\ UNCHANGED <<tenancy, now, requests, starting, executions, ran>>

(* ... or, if there is none or the query fails, the outcome of the         *)
(* execution that was the last one when the handler began to wait for it.  *)
(* A failed workflow, a lost connection or the 10 s end in an error.       *)
ResultByWaiting(c, id, k) ==
    /\ Serves("result", c, id)
    /\ k \in DOMAIN executions[id]
    /\ executions[id][k].life.outcome \notin {"open", "error"}
    /\ results' = results \cup
           {[ id |-> id, index |-> k, body |-> Decoded(executions[id][k]) ]}
    /\ UNCHANGED <<tenancy, now, requests, starting, executions, ran>>

(* The other endpoints change nothing here: what a signal does is in the   *)
(* workflows.  Temporal takes it if the execution is open; any call may    *)
(* fail; and the middlewares hide the writer's Flush from /events.         *)
Signals   == {"approve", "feedback", "refine", "stop"}
Endpoints == Signals \cup {"status", "result", "events"}

Handled(op, id) ==
    CASE op \in Signals  -> IsOpen(id)
      [] op = "status"   -> executions[id] # <<>> /\ HasHandlers(LastOf(id))
      [] op = "result"   -> executions[id] # <<>>
      [] op = "events"   -> FALSE

Codes(op, c, id) ==
    IF Unauthorized(c) THEN {401}
    ELSE IF Forbidden(c, op, id) THEN {403}
    ELSE {500} \cup (IF Handled(op, id) THEN {200} ELSE {})

-----------------------------------------------------------------------------
(* A workflow makes a step. *)
Proceed(id) ==
    LET k == Len(executions[id]) IN
    /\ IsOpen(id)
    /\ \E l \in Successors(LastOf(id).life) :
          /\ l.run <= MaxRuns
          /\ executions' = [ executions EXCEPT ![id][k].life = l ]
    /\ UNCHANGED <<tenancy, now, requests, starting, ran, results>>

Tick ==
    /\ now < MaxTime
    /\ now' = now + 1
    /\ UNCHANGED <<tenancy, requests, starting, executions, ran, results>>

Next ==
    \/ \E c \in Credentials, t \in Names, type \in Types : Run(c, t, type)
    \/ \E n \in starting : Started(n) \/ StartFailed(n)
    \/ \E c \in Credentials, id \in Known :
          \/ ResultByQuery(c, id)
          \/ \E k \in 1..MaxRequests : ResultByWaiting(c, id, k)
    \/ \E id \in Known : Proceed(id)
    \/ Tick

Spec == Init /\ [][Next]_vars

-----------------------------------------------------------------------------
(* Properties. *)

Twins(m, n) ==
    /\ m # n
    /\ sanitizeTenantID[requests[m].tenant] = sanitizeTenantID[requests[n].tenant]
    /\ requests[m].at = requests[n].at

(* A caller whose /run was answered with 200 has its own task run: it is   *)
(* the input of an execution of its id, in the type it asked for.  Only a  *)
(* second request for the same tenant in the same millisecond joins the    *)
(* first one's execution, and its own input is dropped (makeTaskID).       *)
OwnTaskRuns ==
    \A n \in ran :
        LET es == executions[requests[n].id] IN
        \/ \E e \in DOMAIN es : es[e].task = n
        \/ \E m \in DOMAIN requests : Twins(m, n)

(* The result of an incident workflow's execution is told once and for all: *)
(* whichever way /result got it, from the query of a workflow still at work *)
(* or from its outcome, it is an artifact, and the one the workflow returned *)
(* if it has closed, also when ContinueAsNew or other handlers came in      *)
(* between.  About a runbook task it answers 200 only after its end, and    *)
(* then with an empty artifact whatever the runbook did.                    *)
ResultIsFinal ==
    \A r \in results :
        LET e == executions[r.id][r.index] IN
        IF ReturnsArtifact(e)
        THEN /\ r.body \in UNION { Artifacts[s] : s \in DOMAIN Artifacts }
             /\ e.life.result \in {"empty", r.body}
             /\ e.life.outcome \in {"open", r.body}
        ELSE r.body = "empty" /\ e.life.outcome \notin {"open", "error"}

(* With tenancy, the endpoints serve a task to its tenant and not to       *)
(* others, for tenants whose name is its own slug: nobody is refused on a  *)
(* task of its own, and an answer about another tenant's task is a         *)
(* refusal.  A tenant with another name is refused on its own tasks.       *)
OwnersAreServed ==
    \A c \in Credentials, op \in Endpoints, n \in DOMAIN requests :
        LET owner == requests[n].tenant IN
        /\ Caller(c) # NoTenant /\ owner # NoTenant
        /\ \A t \in {owner, Caller(c)} : sanitizeTenantID[t] = t
        => /\ Caller(c) = owner => 403 \notin Codes(op, c, requests[n].id)
           /\ Caller(c) # owner => Codes(op, c, requests[n].id) \subseteq {401, 403}

=============================================================================
