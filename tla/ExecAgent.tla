------------------------------ MODULE ExecAgent ------------------------------
(***************************************************************************)
(* The Kubernetes exec agent (cmd/data-exec-agent/main.go): POST /task     *)
(* scales or restarts a deployment on behalf of a runbook step.            *)
(*                                                                         *)
(* Each handler runs on a goroutine of its own and is a Get followed by an *)
(* Update.  Kubernetes refuses an Update whose resourceVersion is not the  *)
(* current one, so versions[d] keeps the specs a deployment went through   *)
(* and resourceVersion is its length.  Between the two calls other         *)
(* handlers run: retries of the same step, whose first request may still   *)
(* be alive, and requests of other tasks for the same deployment.          *)
(*                                                                         *)
(* The restartedAt annotation, which differs with every restart, is left   *)
(* out: what tells a repeated restart is the forgeiq.io/idempotency-key.   *)
(***************************************************************************)
EXTENDS ExecContracts, Naturals, Sequences

CONSTANTS
    Keys,      \* idempotency keys: workflow id and step id, never empty
    Requests,  \* the requests clients may send
    NoKey      \* a pod template without the annotation

(* contracts.A2ATaskRequest: attempt tells the requests of one key apart. *)
Request == [ key : Keys, attempt : Nat, input : ExecInput ]

(* What an update of the agent may change in a deployment. *)
DeploymentSpec == [ replicas : Replicas, key : Keys \cup {NoKey} ]

ASSUME ExecAssumption ==
    /\ Requests \subseteq Request
    /\ NoKey \notin Keys

VARIABLES
    versions,  \* specs each deployment went through; the last is current
    issued,    \* requests sent by clients
    arrived,   \* requests whose handler has not called Get
    loaded,    \* requests past their Get, with the resourceVersion read
    answers    \* responses: status "ok" and ExecOutput.Success

execVars == <<versions, issued, arrived, loaded, answers>>

Answer == [ req : Request, ok : BOOLEAN, Success : BOOLEAN ]

ExecTypeOK ==
    /\ versions \in [Deployments -> Seq(DeploymentSpec) \ {<<>>}]
    /\ issued \subseteq Request
    /\ arrived \subseteq issued
    /\ loaded \subseteq [req : issued, resourceVersion : Nat \ {0}]
    /\ answers \subseteq Answer

ExecInit ==
    /\ versions \in [Deployments -> { <<[replicas |-> n, key |-> NoKey]>> : n \in Replicas }]
    /\ issued = {} /\ arrived = {} /\ loaded = {} /\ answers = {}

-----------------------------------------------------------------------------
resourceVersion(d) == Len(versions[d])

Current(d) == versions[d][resourceVersion(d)]

Answered(q, ok, success) ==
    answers' = answers \cup {[req |-> q, ok |-> ok, Success |-> success]}

(* The spec already is what the request asks for: replicas match, or the   *)
(* pod template carries the request's idempotency key.                     *)
AlreadyApplied(q, spec) ==
    CASE q.input.action_type = "k8s_scale"   -> spec.replicas = q.input.replicas
      [] q.input.action_type = "k8s_restart" -> spec.key = q.key
      [] OTHER -> FALSE

(* The deep copy the handler writes back. *)
Desired(q, spec) ==
    IF q.input.action_type = "k8s_scale"
    THEN [spec EXCEPT !.replicas = q.input.replicas]
    ELSE [spec EXCEPT !.key = q.key]

(* A client sends a request. *)
Submit(q) ==
    /\ q \notin issued
    /\ issued' = issued \cup {q}
    /\ arrived' = arrived \cup {q}
    /\ UNCHANGED <<versions, loaded, answers>>

(* handleUnknown: no error, but Success is false. *)
HandleUnknown(q) ==
    /\ q \in arrived
    /\ q.input.action_type = "unknown"
    /\ arrived' = arrived \ {q}
    /\ Answered(q, TRUE, FALSE)
    /\ UNCHANGED <<versions, issued, loaded>>

(* Faulty: another attempt being at work counts as applied. *)
GetNoopInFlight(q) ==
    /\ q \in arrived
    /\ \/ AlreadyApplied(q, Current(q.input.deployment))
       \/ \E h \in loaded : h.req.key = q.key
    /\ arrived' = arrived \ {q}
    /\ Answered(q, TRUE, TRUE)
    /\ UNCHANGED <<versions, issued, loaded>>

(* Get, and the already-applied check returns a noop. *)
GetNoop(q) ==
    /\ q \in arrived
    /\ AlreadyApplied(q, Current(q.input.deployment))
    /\ arrived' = arrived \ {q}
    /\ Answered(q, TRUE, TRUE)
    /\ UNCHANGED <<versions, issued, loaded>>

(* Faulty: restarts do not look at the annotation. *)
GetUnchecked(q) ==
    /\ q \in arrived
    /\ q.input.action_type # "unknown"
    /\ arrived' = arrived \ {q}
    /\ loaded' = loaded \cup
           {[req |-> q, resourceVersion |-> resourceVersion(q.input.deployment)]}
    /\ UNCHANGED <<versions, issued, answers>>

(* Get, and there is something to do. *)
Get(q) ==
    /\ q \in arrived
    /\ q.input.action_type # "unknown"
    /\ ~AlreadyApplied(q, Current(q.input.deployment))
    /\ arrived' = arrived \ {q}
    /\ loaded' = loaded \cup
           {[req |-> q, resourceVersion |-> resourceVersion(q.input.deployment)]}
    /\ UNCHANGED <<versions, issued, answers>>

(* Faulty: the Update is not conditional on the resourceVersion. *)
UpdateUnconditional(h) ==
    LET d == h.req.input.deployment IN
    /\ h \in loaded
    /\ versions' = [versions EXCEPT ![d] =
                       Append(@, Desired(h.req, @[h.resourceVersion]))]
    /\ loaded' = loaded \ {h}
    /\ Answered(h.req, TRUE, TRUE)
    /\ UNCHANGED <<issued, arrived>>

(* Update succeeds: the resourceVersion is still the one that was read. *)
Update(h) ==
    LET d == h.req.input.deployment IN
    /\ h \in loaded
    /\ h.resourceVersion = resourceVersion(d)
    /\ versions' = [versions EXCEPT ![d] =
                       Append(@, Desired(h.req, @[h.resourceVersion]))]
    /\ loaded' = loaded \ {h}
    /\ Answered(h.req, TRUE, TRUE)
    /\ UNCHANGED <<issued, arrived>>

(* Update fails with a conflict: somebody else wrote in between. *)
Conflict(h) ==
    /\ h \in loaded
    /\ h.resourceVersion # resourceVersion(h.req.input.deployment)
    /\ loaded' = loaded \ {h}
    /\ Answered(h.req, FALSE, FALSE)
    /\ UNCHANGED <<versions, issued, arrived>>

(* The request is lost on the way, its context is cancelled, the agent     *)
(* crashes or the API server fails: no effect and no useful answer.        *)
LoseRequest(q) ==
    /\ arrived' = arrived \ {q}
    /\ loaded' = { h \in loaded : h.req # q }
    /\ <<arrived', loaded'>> # <<arrived, loaded>>
    /\ UNCHANGED <<versions, issued, answers>>

Agent ==
    \/ \E q \in arrived : HandleUnknown(q) \/ GetNoop(q) \/ Get(q)
    \/ \E h \in loaded : Update(h) \/ Conflict(h)

ExecNext ==
    \/ \E q \in Requests : Submit(q)
    \/ Agent
    \/ \E q \in issued : LoseRequest(q)

ExecSpec == ExecInit /\ [][ExecNext]_execVars

-----------------------------------------------------------------------------
(* Properties. *)

(* No update repeats what the deployment already is: a restart is not      *)
(* applied twice in a row for one key and a scale always changes the count, *)
(* however many retries of a step are at work at once (the checks after    *)
(* Get together with the optimistic Update).                               *)
NoRepeatedUpdate ==
    \A d \in Deployments : \A i \in 1..(Len(versions[d]) - 1) :
        versions[d][i] # versions[d][i + 1]

(* What the agent reports as a success really was the state of the         *)
(* deployment: a noop too is only answered for a change that was made.     *)
SuccessMeansApplied ==
    \A a \in answers : a.ok /\ a.Success =>
        \E i \in DOMAIN versions[a.req.input.deployment] :
            AlreadyApplied(a.req, versions[a.req.input.deployment][i])

(* An update changes only what its request names: neighbouring versions    *)
(* differ in the replicas or in the key, never in both, so a handler's     *)
(* stale copy never undoes another handler's change.                       *)
NoLostUpdate ==
    \A d \in Deployments : \A i \in 1..(Len(versions[d]) - 1) :
        \/ versions[d][i].replicas = versions[d][i + 1].replicas
        \/ versions[d][i].key = versions[d][i + 1].key

(* A handler past its Get holds a version that existed, at which its       *)
(* change was not applied.                                                 *)
LoadedInv ==
    \A h \in loaded :
        LET d == h.req.input.deployment IN
        /\ h.resourceVersion \in 1..Len(versions[d])
        /\ h.req.input.action_type # "unknown"
        /\ ~AlreadyApplied(h.req, versions[d][h.resourceVersion])

ExecInv ==
    ExecTypeOK /\ LoadedInv /\ NoRepeatedUpdate /\ NoLostUpdate /\ SuccessMeansApplied

=============================================================================
