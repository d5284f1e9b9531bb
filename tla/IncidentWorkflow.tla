-------------------------- MODULE IncidentWorkflow --------------------------
(***************************************************************************)
(* IncidentWorkflow (internal/controlplane/temporal/workflow.go) together  *)
(* with the activities it runs (activies.go), the tool call on the MCP     *)
(* server, and the eval_runs row the activities keep (internal/eval).      *)
(*                                                                         *)
(* The workflow function is sequential; what makes it hard is around it:   *)
(*  - Temporal runs each activity AT LEAST once.  The options set only     *)
(*    StartToCloseTimeout, so the server retries without limit.  An        *)
(*    attempt can do its work and still be lost (worker crash, timeout,    *)
(*    MCP client timeout of 20 s), and is then repeated.                   *)
(*  - The MCP server's handler does not see the caller's deadline: a       *)
(*    request whose attempt was given up may still execute later, even     *)
(*    after the workflow has moved on or closed.                           *)
(*  - Approval signals are buffered and may arrive before, during and      *)
(*    after the gate; those a run did not consume die with ContinueAsNew.  *)
(*  - The worker may restart at any time with another tool catalog.        *)
(* Every attempt of every activity may fail, also each of them for ever.   *)
(* An activity's error reaches the workflow only when the server stops     *)
(* retrying (cancellation, a failure Temporal itself marks as final); the  *)
(* ...Error actions are that case.                                         *)
(***************************************************************************)
EXTENDS Agents, EvalStore, FiniteSets

CONSTANTS
    Policies,     \* the policy decisions the routed rule agent may return
    Plans,        \* the plans the routed decision agent may return
    Catalogs,     \* what the worker's tool catalog may accept after a start
    MaxRuns,      \* bound: runs in the ContinueAsNew chain
    MaxAttempts,  \* bound: requests one step sends, each of which may fail
    MaxSignals    \* bound: approval signals sent to the task

ASSUME IncidentAssumption ==
    /\ Policies \subseteq PolicyDecision
    /\ Plans \subseteq Plan
    /\ Catalogs \subseteq SUBSET Tools
    /\ MaxRuns \in Nat \ {0}
    /\ MaxAttempts \in Nat \ {0}
    /\ MaxSignals \in Nat

VARIABLES
    pc,         \* where the workflow function is
    run,        \* number of the current run of the ContinueAsNew chain
    pd,         \* the workflow's own, mutable copy of the policy decision
    plan,       \* the plan of this run
    toolCalls,  \* toolCalls = index of the current step
    state,      \* status.State
    blocked,    \* status.BlockedStep as a step index, 0 when empty
    outs,       \* steps with status.Evidence["step_out_..."]
    errs,       \* steps with status.Evidence["step_error_..."]
    result,     \* finalResult's status
    act,        \* the activity the function awaits, on the Temporal server
    attempt,    \* requests sent so far for the pending CallTool activity
    inflight,   \* tool requests the MCP server has yet to execute
    effects,    \* tool requests the MCP server has executed
    signals,    \* buffered values of the "approval" signal
    nsignals,   \* approval signals sent so far
    catalog,    \* tools the worker's catalog accepts
    eval,       \* the task's row of eval_runs
    rulings,    \* history: the policy decision of each run
    approved    \* history: runs in which an approval was consumed

taskVars   == <<pd, plan, toolCalls, state, blocked, outs, errs, result>>
actVars    == <<act, attempt>>
mcpVars    == <<inflight, effects>>
signalVars == <<signals, nsignals>>
history    == <<rulings, approved>>
vars == <<pc, run, taskVars, actVars, mcpVars, signalVars, catalog, eval, history>>

NoPolicy == [ Allowed |-> FALSE, AllowWrites |-> FALSE, Scopes |-> {},
              ToolTagAllow |-> {}, MaxToolCalls |-> 0 ]

PC == {"policy", "plan", "loop", "gate", "record", "call", "complete", "renew", "closed"}

(* Where the function awaits an activity. *)
Awaiting == {"policy", "plan", "record", "call", "complete"}

(* A tool request: which attempt of which step sent it, with the arguments *)
(* of the CallTool activity (step, policy).                                *)
Request == [ run : 1..MaxRuns, idx : Nat \ {0}, attempt : 1..MaxAttempts,
             step : PlanStep, policy : PolicyDecision ]

TypeOK ==
    /\ pc \in PC
    /\ run \in 1..MaxRuns
    /\ pd \in PolicyDecision
    /\ plan \in Plan
    /\ toolCalls \in 0..Len(plan)
    /\ pc \in {"policy", "plan"} => toolCalls = 0
    /\ pc \in {"gate", "record", "call"} => toolCalls > 0
    /\ state \in States
    /\ blocked \in Nat
    /\ outs \subseteq Nat /\ errs \subseteq Nat
    /\ result \in {"empty", "denied", "rejected", "completed"}
    /\ act \in {"idle", "scheduled", "sent", "backoff"}
    /\ act = "idle" <=> pc \notin Awaiting
    /\ act = "sent" => pc = "call"
    /\ attempt \in 0..MaxAttempts
    /\ inflight \subseteq Request /\ effects \subseteq Request
    /\ signals \in Seq(BOOLEAN)
    /\ nsignals \in 0..MaxSignals
    /\ catalog \subseteq Tools
    /\ eval \in EvalRow
    /\ rulings \in Seq(PolicyDecision)
    /\ approved \subseteq 1..MaxRuns

Init ==
    /\ pc = "policy"
    /\ run = 1
    /\ pd = NoPolicy
    /\ plan = <<>>
    /\ toolCalls = 0
    /\ state = "running"
    /\ blocked = 0
    /\ outs = {} /\ errs = {}
    /\ result = "empty"
    /\ act = "scheduled"
    /\ attempt = 0
    /\ inflight = {} /\ effects = {}
    /\ signals = <<>>
    /\ nsignals = 0
    /\ catalog \in Catalogs
    /\ eval = NoRow
    /\ rulings = <<>>
    /\ approved = {}

-----------------------------------------------------------------------------
(* Guards of the workflow and of the CallTool activity. *)

Step == plan[toolCalls]

(* Catalog.ValidateToolCall: the worker's catalog knows the tool and its   *)
(* schema accepts the arguments.                                           *)
ValidateToolCall(step) == step.Tool \in catalog

ValidatePlan(p) == \A i \in DOMAIN p : ValidateToolCall(p[i])

(* Faulty: compares before counting the step. *)
OverBudgetOffByOne(n) == pd.MaxToolCalls > 0 /\ n - 1 > pd.MaxToolCalls

(* if pd.Budgets.MaxToolCalls > 0 && toolCalls > pd.Budgets.MaxToolCalls *)
OverBudget(n) == pd.MaxToolCalls > 0 /\ n > pd.MaxToolCalls

(* if has(step.Tags, "write") && !pd.AllowWrites *)
NeedsApproval(step) == "write" \in step.Tags /\ ~pd.AllowWrites

(* Faulty: trusts the workflow's gate and skips the tag checks. *)
CallAllowedNoTags(step, policy) ==
    /\ ValidateToolCall(step)
    /\ step.Scopes \subseteq policy.Scopes

(* The checks of the CallTool activity before it calls the MCP server. *)
CallAllowed(step, policy) ==
    ValidateToolCall(step) /\ PolicyAllows(step, policy)

-----------------------------------------------------------------------------
(* The function schedules an activity and awaits it, or goes on without. *)
Await(place)  == pc' = place /\ act' = "scheduled" /\ attempt' = 0
Resume(place) == pc' = place /\ act' = "idle" /\ attempt' = 0

(* Ending the workflow function: status.State and finalResult are set and  *)
(* the CompleteEval activity is awaited before the function returns.       *)
Finish(st, res) ==
    /\ state' = st
    /\ result' = res
    /\ Await("complete")

(* 1) EvalPolicy.  Every attempt first upserts the eval row (best effort). *)
EvalPolicy(ruling) ==
    /\ pc = "policy" /\ act = "scheduled"
    /\ eval' \in {eval, UpsertStart(eval)}
    /\ pd' = ruling
    /\ rulings' = Append(rulings, ruling)
    /\ IF ruling.Allowed
       THEN Await("plan") /\ UNCHANGED <<state, result>>
       ELSE Finish("denied", "denied")
    /\ UNCHANGED <<run, plan, toolCalls, blocked, outs, errs, mcpVars,
                   signalVars, catalog, approved>>

(* The server gives EvalPolicy or GetPlan up: if err != nil { failed }. *)
PlanningError ==
    /\ pc \in {"policy", "plan"}
    /\ Finish("failed", "empty")
    /\ UNCHANGED <<run, pd, plan, toolCalls, blocked, outs, errs, mcpVars,
                   signalVars, catalog, eval, history>>

(* 2) GetPlan: an attempt whose plan the catalog rejects fails. *)
GetPlan(p) ==
    /\ pc = "plan" /\ act = "scheduled"
    /\ ValidatePlan(p)
    /\ plan' = p
    /\ Resume("loop")
    /\ UNCHANGED <<run, pd, toolCalls, state, blocked, outs, errs, result,
                   mcpVars, signalVars, catalog, eval, history>>

-----------------------------------------------------------------------------
(* 3) The step loop, from one iteration's head to its wait or exit. *)

(* No step is left: completed. *)
LoopEnd ==
    /\ pc = "loop"
    /\ toolCalls = Len(plan)
    /\ Finish("completed", "completed")
    /\ UNCHANGED <<run, pd, plan, toolCalls, blocked, outs, errs, mcpVars,
                   signalVars, catalog, eval, history>>

(* toolCalls++ exceeds the budget: the status is failed, which queries of   *)
(* this run tell, and the function returns NewContinueAsNewError.           *)
BudgetExceeded ==
    /\ pc = "loop"
    /\ toolCalls < Len(plan)
    /\ OverBudget(toolCalls + 1)
    /\ toolCalls' = toolCalls + 1
    /\ state' = "failed"
    /\ pc' = "renew"
    /\ UNCHANGED <<run, pd, plan, blocked, outs, errs, result, actVars, mcpVars,
                   signalVars, catalog, eval, history>>

(* The server starts IncidentWorkflow again with the same task.  Everything *)
(* local is new, buffered signals are gone, CompleteEval was not called.    *)
ContinueAsNew ==
    /\ pc = "renew"
    /\ run < MaxRuns
    /\ run' = run + 1
    /\ Await("policy")
    /\ pd' = NoPolicy
    /\ plan' = <<>>
    /\ toolCalls' = 0
    /\ state' = "running"
    /\ blocked' = 0
    /\ outs' = {} /\ errs' = {}
    /\ result' = "empty"
    /\ signals' = <<>>
    /\ UNCHANGED <<mcpVars, nsignals, catalog, eval, history>>

(* The write gate: wait for the approval signal. *)
EnterGate ==
    /\ pc = "loop"
    /\ toolCalls < Len(plan)
    /\ ~OverBudget(toolCalls + 1)
    /\ NeedsApproval(plan[toolCalls + 1])
    /\ toolCalls' = toolCalls + 1
    /\ state' = "needs_approval"
    /\ blocked' = toolCalls + 1
    /\ pc' = "gate"
    /\ UNCHANGED <<run, pd, plan, outs, errs, result, actVars, mcpVars, signalVars,
                   catalog, eval, history>>

(* The step needs no approval: schedule CallTool(step, pd). *)
EnterCall ==
    /\ pc = "loop"
    /\ toolCalls < Len(plan)
    /\ ~OverBudget(toolCalls + 1)
    /\ ~NeedsApproval(plan[toolCalls + 1])
    /\ toolCalls' = toolCalls + 1
    /\ Await("call")
    /\ UNCHANGED <<run, pd, plan, state, blocked, outs, errs, result, mcpVars,
                   signalVars, catalog, eval, history>>

(* Receive returned true: writes are allowed for the rest of this run. *)
ReceiveApproval ==
    /\ pc = "gate"
    /\ signals # <<>> /\ Head(signals)
    /\ signals' = Tail(signals)
    /\ pd' = [pd EXCEPT !.AllowWrites = TRUE]
    /\ approved' = approved \cup {run}
    /\ Await("record")
    /\ UNCHANGED <<run, plan, toolCalls, state, blocked, outs, errs, result,
                   mcpVars, nsignals, catalog, eval, rulings>>

(* Faulty: the rejection is recorded but the branch does not return. *)
ReceiveRejectionFallsThrough ==
    /\ pc = "gate"
    /\ signals # <<>> /\ ~Head(signals)
    /\ signals' = Tail(signals)
    /\ state' = "denied"
    /\ pd' = [pd EXCEPT !.AllowWrites = TRUE]
    /\ Await("call")
    /\ UNCHANGED <<run, plan, toolCalls, blocked, outs, errs, result, mcpVars,
                   nsignals, catalog, eval, history>>

(* Receive returned false: denied, with BlockedStep left set. *)
ReceiveRejection ==
    /\ pc = "gate"
    /\ signals # <<>> /\ ~Head(signals)
    /\ signals' = Tail(signals)
    /\ Finish("denied", "rejected")
    /\ UNCHANGED <<run, pd, plan, toolCalls, blocked, outs, errs, mcpVars,
                   nsignals, catalog, eval, history>>

(* RecordApproval returned or was given up (its error is ignored): the     *)
(* gate fields are cleared and CallTool is scheduled.                      *)
RecordApproval ==
    /\ pc = "record" /\ act = "scheduled"
    /\ eval' \in {eval, IncApprovals(eval)}
    /\ state' = "running"
    /\ blocked' = 0
    /\ Await("call")
    /\ UNCHANGED <<run, pd, plan, toolCalls, outs, errs, result, mcpVars, signalVars,
                   catalog, history>>

-----------------------------------------------------------------------------
(* The attempts of the activities on the worker. *)

(* What a failing attempt may have written to the row all the same: the    *)
(* upsert, the approval counted (within the bound) or the final status.    *)
LeftBehind ==
    CASE pc = "policy"   -> {eval, UpsertStart(eval)}
      [] pc = "record" /\ eval.approvals < MaxAttempts -> {eval, IncApprovals(eval)}
      [] pc = "complete" -> {eval, Complete(eval, state)}
      [] OTHER           -> {eval}

(* An attempt fails before it sends a request: an agent, the catalog, the  *)
(* policy checks or the database answer with an error, the result is lost, *)
(* the StartToCloseTimeout ends it or the worker crashes.                  *)
AttemptFails ==
    /\ act = "scheduled"
    /\ act' = "backoff"
    /\ eval' \in LeftBehind
    /\ UNCHANGED <<pc, run, taskVars, attempt, mcpVars, signalVars, catalog, history>>

(* CallTool, all checks passed: count the call and send the request. *)
CallTool ==
    /\ pc = "call" /\ act = "scheduled"
    /\ CallAllowed(Step, pd)
    /\ attempt < MaxAttempts
    /\ eval' = IncToolCalls(eval)
    /\ attempt' = attempt + 1
    /\ inflight' = inflight \cup
           {[run |-> run, idx |-> toolCalls, attempt |-> attempt + 1,
             step |-> Step, policy |-> pd]}
    /\ act' = "sent"
    /\ UNCHANGED <<pc, run, taskVars, effects, signalVars, catalog, history>>

(* The current attempt's request was executed and its response read. *)
Answered ==
    \E q \in effects : q.run = run /\ q.idx = toolCalls /\ q.attempt = attempt

(* Faulty: neither the client nor the activity has a timeout: only the     *)
(* answer of the tool, here an error, ends an attempt.                     *)
AttemptLostOnAnswer ==
    /\ pc = "call" /\ act = "sent"
    /\ Answered
    /\ act' = "backoff"
    /\ UNCHANGED <<pc, run, taskVars, attempt, mcpVars, signalVars, catalog, eval, history>>

(* The attempt fails after it sent the request: tool error, MCP client     *)
(* timeout, StartToCloseTimeout or worker crash.  The request may or may   *)
(* not have executed, or may still execute.                                *)
AttemptLost ==
    /\ pc = "call" /\ act = "sent"
    /\ act' = "backoff"
    /\ UNCHANGED <<pc, run, taskVars, attempt, mcpVars, signalVars, catalog, eval, history>>

(* The retry timer of the default retry policy: another attempt, however   *)
(* many there were.                                                        *)
RetryAttempt ==
    /\ act = "backoff"
    /\ attempt < MaxAttempts
    /\ act' = "scheduled"
    /\ UNCHANGED <<pc, run, taskVars, attempt, mcpVars, signalVars, catalog, eval, history>>

(* The current attempt's answer arrives: Evidence["step_out_"+StepID]. *)
StepOutput ==
    /\ pc = "call" /\ act = "sent"
    /\ Answered
    /\ outs' = outs \cup {toolCalls}
    /\ Resume("loop")
    /\ UNCHANGED <<run, pd, plan, toolCalls, state, blocked, errs, result,
                   mcpVars, signalVars, catalog, eval, history>>

(* Faulty: StopOnErr is not looked at. *)
NeverStopsWorkflow(step) == FALSE

StopsWorkflow(step) == step.StopOnErr

(* Faulty: the status is set to failed but the loop does not return. *)
StepErrorUnreturned ==
    /\ pc = "call"
    /\ errs' = errs \cup {toolCalls}
    /\ Resume("loop")
    /\ state' = IF StopsWorkflow(Step) THEN "failed" ELSE state
    /\ UNCHANGED <<run, pd, plan, toolCalls, blocked, outs, result, mcpVars,
                   signalVars, catalog, eval, history>>

(* The server gives the activity up: StopOnErr fails the workflow, other   *)
(* steps record Evidence["step_error_"+StepID] and the loop continues.     *)
StepError ==
    /\ pc = "call"
    /\ IF StopsWorkflow(Step)
       THEN Finish("failed", "empty") /\ UNCHANGED errs
       ELSE /\ errs' = errs \cup {toolCalls}
            /\ Resume("loop")
            /\ UNCHANGED <<state, result>>
    /\ UNCHANGED <<run, pd, plan, toolCalls, blocked, outs, mcpVars,
                   signalVars, catalog, eval, history>>

-----------------------------------------------------------------------------
(* CompleteEval returned or was given up (its error is ignored): the       *)
(* workflow function returns.                                              *)
CompleteEval ==
    /\ pc = "complete" /\ act = "scheduled"
    /\ eval' \in {eval, Complete(eval, state)}
    /\ Resume("closed")
    /\ UNCHANGED <<run, taskVars, mcpVars, signalVars, catalog, history>>

-----------------------------------------------------------------------------
(* The MCP server, the humans and the worker process. *)

(* Server.callTool runs the handler of a request, whenever it gets to it. *)
ExecuteTool(q) ==
    /\ q \in inflight
    /\ inflight' = inflight \ {q}
    /\ effects' = effects \cup {q}
    /\ UNCHANGED <<pc, run, taskVars, actVars, signalVars, catalog, eval, history>>

(* A request is lost on the way or its handler fails without effect. *)
DropRequest(q) ==
    /\ q \in inflight
    /\ inflight' = inflight \ {q}
    /\ UNCHANGED <<pc, run, taskVars, actVars, effects, signalVars, catalog, eval, history>>

(* POST /approve/{taskID}: SignalWorkflow("approval", approved).  Temporal *)
(* refuses signals to a closed workflow.                                   *)
SendApproval(value) ==
    /\ pc # "closed"
    /\ nsignals < MaxSignals
    /\ signals' = Append(signals, value)
    /\ nsignals' = nsignals + 1
    /\ UNCHANGED <<pc, run, taskVars, actVars, mcpVars, catalog, eval, history>>

(* The worker process restarts and loads its catalog from the MCP server   *)
(* again; the attempt it was running is lost.                              *)
WorkerRestart ==
    /\ catalog' \in Catalogs
    /\ act' = IF act = "sent" THEN "backoff" ELSE act
    /\ UNCHANGED <<pc, run, taskVars, attempt, mcpVars, signalVars, eval, history>>

-----------------------------------------------------------------------------
Workflow ==
    \/ \E ruling \in Policies : EvalPolicy(ruling)
    \/ \E p \in Plans : GetPlan(p)
    \/ LoopEnd \/ BudgetExceeded \/ ContinueAsNew \/ EnterGate \/ EnterCall
    \/ ReceiveApproval \/ ReceiveRejection
    \/ RecordApproval \/ CompleteEval
    \/ AttemptFails \/ CallTool \/ AttemptLost \/ RetryAttempt \/ StepOutput

Environment ==
    \/ PlanningError \/ StepError
    \/ \E q \in inflight : DropRequest(q)
    \/ \E value \in BOOLEAN : SendApproval(value)
    \/ WorkerRestart

Next ==
    \/ Workflow
    \/ \E q \in inflight : ExecuteTool(q)
    \/ Environment

Spec == Init /\ [][Next]_vars

(* Temporal schedules every ready workflow task and activity task and ends *)
(* an attempt at its StartToCloseTimeout; the MCP server runs every request *)
(* it holds.  No attempt has to succeed, nobody has to send a signal, and   *)
(* nothing in Environment has to happen.                                    *)
Fairness ==
    /\ WF_vars(Workflow)
    /\ WF_vars(\E q \in inflight : ExecuteTool(q))

FairSpec == Spec /\ Fairness

-----------------------------------------------------------------------------
(* Properties. *)

(* Requests that have reached, or will reach, a tool. *)
Issued == inflight \cup effects

Write(q) == "write" \in q.step.Tags

(* No tool request is issued that the rule agent's decision for that very  *)
(* run does not cover: a write needs that decision's AllowWrites or an     *)
(* approval consumed in the same run, its read/write tags and scopes must  *)
(* be granted by the decision.  About the write gate, CallTool's checks,   *)
(* late requests of earlier runs and the approval lost by ContinueAsNew.   *)
CallsAuthorised ==
    \A q \in Issued :
        /\ Write(q) => rulings[q.run].AllowWrites \/ q.run \in approved
        /\ (q.step.Tags \cap {"read", "write"}) \subseteq rulings[q.run].ToolTagAllow
        /\ q.step.Scopes \subseteq rulings[q.run].Scopes

(* No run issues a call for a step beyond its decision's MaxToolCalls      *)
(* (0 means no limit), however often steps fail or are retried.            *)
BudgetRespected ==
    \A q \in Issued :
        rulings[q.run].MaxToolCalls > 0 => q.idx <= rulings[q.run].MaxToolCalls

(* A task reported as denied (by policy or by a human) has issued no write *)
(* in that run: not even a late or repeated request can produce one.       *)
DeniedMeansNoWrite ==
    state = "denied" => \A q \in Issued : q.run = run => ~Write(q)

(* A task reported as completed has, for every StopOnErr step of its plan, *)
(* really executed the tool in this run; other steps executed it or have   *)
(* their error recorded in the evidence.                                   *)
CompletedMeansExecuted ==
    state = "completed" =>
        \A i \in 1..Len(plan) :
            \/ \E q \in effects : q.run = run /\ q.idx = i
            \/ ~plan[i].StopOnErr /\ i \in errs

(* The eval_runs row never announces an outcome the workflow does not have: *)
(* once its status leaves 'running' it is the status of a task that is      *)
(* completing or closed, through retries, lost results and new runs.        *)
EvalRowTruthful ==
    eval.status # "running" => eval.status = state /\ pc \in {"complete", "closed"}

-----------------------------------------------------------------------------
(* The inductive strengthening of the invariants above. *)

(* The places of the function that come after the run's policy decision. *)
Body == {"plan", "loop", "gate", "record", "call", "renew"}

(* The history has one decision per run that got that far. *)
RulingsInv ==
    /\ Len(rulings) \in {run - 1, run}
    /\ pc = "policy" => Len(rulings) = run - 1
    /\ pc \in Body => Len(rulings) = run

(* The workflow's copy differs from the decision only by an approval. *)
PolicyInv ==
    pc \in Body =>
        /\ pd.Scopes = rulings[run].Scopes
        /\ pd.ToolTagAllow = rulings[run].ToolTagAllow
        /\ pd.MaxToolCalls = rulings[run].MaxToolCalls
        /\ pd.AllowWrites => rulings[run].AllowWrites \/ run \in approved

(* Requests belong to runs with a decision; without the right to write the *)
(* current run has issued no write.                                        *)
RequestInv ==
    /\ \A q \in Issued : q.run \in 1..Len(rulings)
    /\ pc \in Body /\ ~pd.AllowWrites =>
          \A q \in Issued : q.run = run => ~Write(q)
    /\ pc = "gate" => ~pd.AllowWrites

(* status.State says where the function is. *)
StateInv ==
    /\ pc \in {"policy", "plan", "loop", "call"} => state = "running"
    /\ pc \in {"gate", "record"} => state = "needs_approval"
    /\ pc \in {"complete", "closed"} => state \in {"completed", "failed", "denied"}
    /\ pc = "renew" => state = "failed"

(* A step is only begun within the budget. *)
BudgetInv ==
    pc \in {"gate", "record", "call"} => ~OverBudget(toolCalls)

(* Steps before the current one were executed or have their error recorded. *)
Dealt(i) ==
    \/ \E q \in effects : q.run = run /\ q.idx = i
    \/ ~plan[i].StopOnErr /\ i \in errs

ProgressInv ==
    /\ pc = "loop" => \A i \in 1..toolCalls : Dealt(i)
    /\ pc \in {"gate", "record", "call"} =>
          \A i \in 1..toolCalls : i < toolCalls => Dealt(i)

(* finalResult goes with status.State: unset while the function works and  *)
(* when it failed.                                                         *)
ResultInv ==
    /\ state = "completed" => result = "completed"
    /\ state = "denied" => result \in {"denied", "rejected"}
    /\ state \notin {"completed", "denied"} => result = "empty"

IInv ==
    /\ TypeOK /\ RulingsInv /\ PolicyInv /\ RequestInv /\ StateInv /\ BudgetInv
    /\ ProgressInv
    /\ CallsAuthorised /\ BudgetRespected /\ DeniedMeansNoWrite
    /\ CompletedMeansExecuted /\ EvalRowTruthful

-----------------------------------------------------------------------------
(* What the task's clients see of the function: its two query handlers and *)
(* the outcome Temporal keeps of it.  Local state is gone at its return.   *)

(* The workflow's error is all that is left of a task that failed. *)
Outcome ==
    IF pc # "closed" THEN "open" ELSE IF result = "empty" THEN "error" ELSE result

Life == INSTANCE TaskLifecycle WITH
    life <- [ run |-> run, status |-> state, result |-> result, outcome |-> Outcome ],
    Open <- {"running", "needs_approval", "waiting_for_feedback"},
    Artifacts <- [ completed |-> {"completed", "completed_with_retries"},
                   denied |-> {"denied", "rejected"} ]

(* IncidentWorkflow lives as TaskLifecycle promises the clients: completed *)
(* and denied are never taken back or traded for another status and no new *)
(* run follows them; failed is followed by the task's error or, over the   *)
(* budget, by a new run and by nothing else; the result told by the query  *)
(* is the one the function returns, through approvals, given-up activities *)
(* and ContinueAsNew.                                                      *)
ImplementsLifecycle == Life!Spec

-----------------------------------------------------------------------------
(* An attempt has failed and waits for the next one.  Activities have no   *)
(* RetryPolicy, so that this may happen for ever: with an agent, a tool or *)
(* a database that always fails and a step that the checks refuse each     *)
(* time, the task neither ends nor tells why.  (The bound on requests ends *)
(* the model's retries here too.)                                          *)
Retrying == act = "backoff"

(* The workflow never hangs: it always gets back to a closed task, to a    *)
(* gate with no signal left to read, to an attempt that just failed, or to *)
(* the model's bound on runs.  So a lost request or answer holds nothing   *)
(* up, a read signal always moves on, and the only ways not to end are a   *)
(* human who is silent and an activity whose attempts keep failing.        *)
AlwaysSettles ==
    []<>( \/ pc = "closed"
          \/ pc = "gate" /\ signals = <<>>
          \/ Retrying
          \/ pc = "renew" /\ run = MaxRuns )

-----------------------------------------------------------------------------
(* What the documentation says and the code does not do. *)

(* CallTool's own checks refuse the pending step. *)
Refused == pc = "call" /\ ~CallAllowed(Step, pd)

(* "POST /approve/{taskID} - Approve write operations" (README.md): after  *)
(* an approval was consumed at the write gate, a write tool runs, unless   *)
(* the task closes first or an attempt fails for another reason than the   *)
(* checks of CallTool itself.                                              *)
ApprovedWriteRuns ==
    (pc = "record") ~>
        \/ pc = "closed"
        \/ \E q \in effects : Write(q)
        \/ Retrying /\ ~Refused

=============================================================================
