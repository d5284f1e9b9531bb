----------------------------- MODULE AgenticLoop -----------------------------
(***************************************************************************)
(* IncidentWorkflowWithAgenticLoop (workflow_agentic.go) around AgenticLoop *)
(* (agentic_loop.go): a plan is executed up to MaxIterations times, and    *)
(* replaced between iterations after an error, on a "refine" signal or     *)
(* when the evidence mentions an error.                                    *)
(*                                                                         *)
(* Three signal channels are read at different places: "feedback" by a     *)
(* blocking Receive after an iteration that could not be recovered, "stop" *)
(* and "refine" by a selector polled during two 100 ms windows.  A window  *)
(* polls at least once and once more at each wake-up, so it takes at least *)
(* one buffered signal and may leave others for the next iteration.        *)
(*                                                                         *)
(* The activities are retried without limit as in IncidentWorkflow: every  *)
(* attempt of EvalPolicy, GetPlan and CallTool may fail, also each of them *)
(* for ever.  An attempt of CallTool executes its tool or not when it is   *)
(* made, whether or not its answer arrives.  A plan the worker's catalog   *)
(* refuses fails its attempt.  A step index stands for its StepID, and     *)
(* evidence keys for their kind (a StepID containing "error" would count   *)
(* as an error key, which no plan of the repository has).  AutoRefine and  *)
(* EnableFeedback are on, as the only caller sets them, and its            *)
(* IterationTimeout is read nowhere.                                       *)
(***************************************************************************)
EXTENDS Agents, EvalStore

CONSTANTS
    Policies,        \* the policy decisions the routed rule agent may return
    Plans,           \* the plans the routed decision agent may return
    MaxIterations,   \* AgenticLoopConfig.MaxIterations
    MaxAttempts,     \* bound: attempts of one activity that fail
    MaxSignals       \* bound: signals sent to the task

ASSUME AgenticAssumption ==
    /\ Policies \subseteq PolicyDecision
    /\ Plans \subseteq Plan
    /\ MaxIterations \in Nat
    /\ MaxAttempts \in Nat \ {0}
    /\ MaxSignals \in Nat

VARIABLES
    pc,         \* where the workflow function is
    pd,         \* the policy decision
    plan,       \* state.CurrentPlan
    iteration,  \* state.Iteration
    idx,        \* step of the running plan iteration
    attempt,    \* attempts of the pending activity that have failed
    answered,   \* the pending CallTool activity has its answer
    results,    \* executePlanIteration's results: "step_result_s", "step_error_s"
    evidence,   \* kinds of keys in state.Evidence other than the next
    recorded,   \* its keys "iteration_i_step_result_s", "iteration_i_step_error_s"
    polled,     \* the open window has taken a signal
    state,      \* status.State
    needsInput, \* status.NeedsHumanInput (and Prompt, WaitingOnSignal, ...)
    result,     \* the returned artifact's payload status
    feedback,   \* buffered "feedback" signals (their Action)
    refines,    \* buffered "refine" signals
    stops,      \* buffered "stop" signals
    sent,       \* signals sent so far
    effects,    \* tools executed: iteration, idx, step
    eval,       \* the task's row of eval_runs
    failedIn,   \* history: iterations whose execution returned an error
    stopSeen    \* history: iteration that took the first stop signal, or 0

actVars    == <<attempt, answered>>
stepVars   == <<idx, results>>
callVars   == <<stepVars, actVars>>
statusVars == <<state, needsInput, result>>
signalVars == <<feedback, refines, stops, sent>>
history    == <<failedIn, stopSeen>>
vars == <<pc, pd, plan, iteration, callVars, evidence, recorded, polled, statusVars,
          signalVars, effects, eval, history>>

(* FeedbackEntry.Action as docs/API.md lists them. *)
FeedbackActions == {"continue", "stop", "modify", "approve", "reject"}

EvidenceKeys == {"initial_plan", "iteration_error", "waiting", "stopped_by_user",
                 "status", "goal_achieved"}

StepKey == [ idx : Nat, kind : {"step_result", "step_error"} ]
IterationKey == [ iteration : Nat, key : StepKey ]

PC == {"policy", "plan", "head", "stopwin", "exec", "call", "failed", "feedback",
       "merge", "refinewin", "refine", "auto", "closed"}

Effect == [ iteration : Nat, idx : Nat, step : PlanStep ]

TypeOK ==
    /\ pc \in PC
    /\ pd \in PolicyDecision
    /\ plan \in Plan
    /\ iteration \in 0..MaxIterations
    /\ idx \in Nat
    /\ pc \in {"exec", "call"} => idx \in 0..Len(plan)
    /\ pc = "call" => idx > 0
    /\ attempt \in 0..MaxAttempts
    /\ answered \in BOOLEAN
    /\ results \subseteq StepKey
    /\ evidence \subseteq EvidenceKeys
    /\ recorded \subseteq IterationKey
    /\ polled \in BOOLEAN
    /\ state \in {"running", "waiting_for_feedback", "completed", "failed", "denied"}
    /\ needsInput \in BOOLEAN
    /\ result \in {"empty", "denied", "failed", "completed", "max_iterations_reached"}
    /\ feedback \in Seq(FeedbackActions)
    /\ refines \in Nat /\ stops \in Nat /\ sent \in Nat
    /\ effects \subseteq Effect
    /\ eval \in EvalRow
    /\ failedIn \subseteq 0..MaxIterations
    /\ stopSeen \in 0..MaxIterations

Init ==
    /\ pc = "policy"
    /\ pd = [ Allowed |-> FALSE, AllowWrites |-> FALSE, Scopes |-> {},
              ToolTagAllow |-> {}, MaxToolCalls |-> 0 ]
    /\ plan = <<>>
    /\ iteration = 0
    /\ idx = 0 /\ attempt = 0 /\ answered = FALSE /\ results = {}
    /\ evidence = {} /\ recorded = {}
    /\ polled = FALSE
    /\ state = "running" /\ needsInput = FALSE /\ result = "empty"
    /\ feedback = <<>> /\ refines = 0 /\ stops = 0 /\ sent = 0
    /\ effects = {}
    /\ eval = NoRow
    /\ failedIn = {} /\ stopSeen = 0

-----------------------------------------------------------------------------
(* Activities. *)

(* A key contains "error" (or "unexpected"). *)
shouldRefinePlan ==
    "iteration_error" \in evidence \/ \E r \in recorded : r.key.kind = "step_error"

(* config.AutoRefine && state.Iteration < config.MaxIterations *)
AutoRefine == iteration < MaxIterations

(* The function waits for EvalPolicy, GetPlan or CallTool. *)
Pending ==
    \/ pc \in {"policy", "plan", "call", "refine"}
    \/ pc = "failed" /\ AutoRefine
    \/ pc = "auto" /\ AutoRefine /\ shouldRefinePlan

(* Its attempts failed, as many as are modelled; the server makes another. *)
Retrying == Pending /\ ~answered /\ attempt = MaxAttempts

(* The pending activity may make an attempt. *)
Attempts == Pending /\ ~answered /\ attempt < MaxAttempts

(* It has returned to the function. *)
ActivityEnds == attempt' = 0 /\ answered' = FALSE

(* An attempt of EvalPolicy or GetPlan fails: no agent answers, its answer *)
(* does not decode, the catalog refuses its plan, or the attempt is lost.  *)
AttemptFails ==
    /\ Attempts /\ pc # "call"
    /\ attempt' = attempt + 1
    /\ eval' \in {eval} \cup IF pc = "policy" THEN {UpsertStart(eval)} ELSE {}
    /\ UNCHANGED <<pc, pd, plan, iteration, stepVars, answered, evidence, recorded,
                   polled, statusVars, signalVars, effects, history>>

-----------------------------------------------------------------------------
(* IncidentWorkflowWithAgenticLoop: policy, then the loop, then the status. *)

EvalPolicy(ruling) ==
    /\ pc = "policy"
    /\ Attempts
    /\ ActivityEnds
    /\ eval' \in {eval, UpsertStart(eval)}
    /\ pd' = ruling
    /\ IF ruling.Allowed
       THEN pc' = "plan" /\ UNCHANGED <<state, result>>
       ELSE pc' = "closed" /\ state' = "denied" /\ result' = "denied"
    /\ UNCHANGED <<plan, iteration, stepVars, evidence, recorded, polled, needsInput,
                   signalVars, effects, history>>

(* Faulty: the error is noted in the status, but not returned. *)
PlanningErrorUnreturned ==
    /\ pc \in {"policy", "plan"}
    /\ pc' = "head"
    /\ state' = "failed"
    /\ ActivityEnds
    /\ UNCHANGED <<pd, plan, iteration, stepVars, evidence, recorded, polled, needsInput,
                   result, signalVars, effects, eval, history>>

(* The server gives EvalPolicy or the initial GetPlan up. *)
PlanningError ==
    /\ pc \in {"policy", "plan"}
    /\ pc' = "closed"
    /\ state' = "failed"
    /\ ActivityEnds
    /\ UNCHANGED <<pd, plan, iteration, stepVars, evidence, recorded, polled, needsInput,
                   result, signalVars, effects, eval, history>>

(* AgenticLoop returned an artifact and no error: the outer workflow calls *)
(* every such outcome completed, whatever the payload's status.            *)
Return(payload) ==
    /\ pc' = "closed"
    /\ result' = payload
    /\ state' = "completed"

(* The initial plan. *)
GetPlan(p) ==
    /\ pc = "plan"
    /\ Attempts
    /\ ActivityEnds
    /\ plan' = p
    /\ evidence' = evidence \cup {"initial_plan"}
    /\ pc' = "head"
    /\ UNCHANGED <<pd, iteration, stepVars, recorded, polled, statusVars, signalVars,
                   effects, eval, history>>

-----------------------------------------------------------------------------
(* One iteration: poll for stop, then executePlanIteration. *)

BeginIteration ==
    /\ pc = "head"
    /\ iteration < MaxIterations
    /\ iteration' = iteration + 1
    /\ polled' = FALSE
    /\ pc' = "stopwin"
    /\ UNCHANGED <<pd, plan, callVars, evidence, recorded, statusVars, signalVars,
                   effects, eval, history>>

LoopExit ==
    /\ pc = "head"
    /\ iteration >= MaxIterations
    /\ Return("max_iterations_reached")
    /\ UNCHANGED <<pd, plan, iteration, callVars, evidence, recorded, polled, needsInput,
                   signalVars, effects, eval, history>>

(* The stop signal only leaves its mark in the evidence. *)
ReceiveStop ==
    /\ pc = "stopwin"
    /\ stops > 0
    /\ stops' = stops - 1
    /\ evidence' = evidence \cup {"stopped_by_user"}
    /\ polled' = TRUE
    /\ stopSeen' = IF stopSeen = 0 THEN iteration ELSE stopSeen
    /\ UNCHANGED <<pc, pd, plan, iteration, callVars, recorded, statusVars, feedback,
                   refines, sent, effects, eval, failedIn>>

EndStopWindow ==
    /\ pc = "stopwin"
    /\ stops = 0 \/ polled
    /\ pc' = "exec"
    /\ idx' = 0
    /\ results' = {}
    /\ UNCHANGED <<pd, plan, iteration, actVars, evidence, recorded, polled,
                   statusVars, signalVars, effects, eval, history>>

(* has(step.Tags, "write") && !policy.AllowWrites *)
Blocked(step) == "write" \in step.Tags /\ ~pd.AllowWrites

(* err != nil: LastError and Evidence["iteration_error"]. *)
IterationFails ==
    /\ pc' = "failed"
    /\ evidence' = evidence \cup {"iteration_error"}
    /\ failedIn' = failedIn \cup {iteration}

(* Faulty: a blocked write is skipped and the rest of the plan runs. *)
StepBlockedSkips ==
    /\ pc = "exec"
    /\ idx < Len(plan)
    /\ Blocked(plan[idx + 1])
    /\ idx' = idx + 1
    /\ UNCHANGED <<pc, pd, plan, iteration, actVars, results, evidence, recorded, polled,
                   statusVars, signalVars, effects, eval, history>>

(* "write operation requires approval": the whole iteration fails. *)
StepBlocked ==
    /\ pc = "exec"
    /\ idx < Len(plan)
    /\ Blocked(plan[idx + 1])
    /\ IterationFails
    /\ UNCHANGED <<pd, plan, iteration, callVars, recorded, polled, statusVars,
                   signalVars, effects, eval, stopSeen>>

StartCall ==
    /\ pc = "exec"
    /\ idx < Len(plan)
    /\ ~Blocked(plan[idx + 1])
    /\ idx' = idx + 1
    /\ pc' = "call"
    /\ UNCHANGED <<pd, plan, iteration, actVars, results, evidence, recorded, polled, statusVars,
                   signalVars, effects, eval, history>>

(* The tool of the pending step executes. *)
Executed ==
    effects \cup {[iteration |-> iteration, idx |-> idx, step |-> plan[idx]]}

(* An attempt that passes CallTool's checks is counted.  Its tool executes *)
(* and answers, or fails, or is cut off before or after it executed.       *)
CallTool ==
    /\ pc = "call"
    /\ PolicyAllows(plan[idx], pd)
    /\ Attempts
    /\ eval' = IncToolCalls(eval)
    /\ \/ answered' = TRUE /\ effects' = Executed /\ UNCHANGED attempt
       \/ attempt' = attempt + 1 /\ effects' \in {effects, Executed} /\ UNCHANGED answered
    /\ UNCHANGED <<pc, pd, plan, iteration, stepVars, evidence, recorded, polled,
                   statusVars, signalVars, history>>

StepResult ==
    /\ pc = "call"
    /\ answered
    /\ ActivityEnds
    /\ results' = results \cup {[idx |-> idx, kind |-> "step_result"]}
    /\ pc' = "exec"
    /\ UNCHANGED <<pd, plan, iteration, idx, evidence, recorded, polled, statusVars,
                   signalVars, effects, eval, history>>

(* The server gives the activity up.  The tool may have executed. *)
StepError ==
    /\ pc = "call"
    /\ ActivityEnds
    /\ IF plan[idx].StopOnErr
       THEN IterationFails /\ UNCHANGED results
       ELSE /\ results' = results \cup {[idx |-> idx, kind |-> "step_error"]}
            /\ pc' = "exec"
            /\ UNCHANGED <<evidence, failedIn>>
    /\ UNCHANGED <<pd, plan, iteration, idx, recorded, polled, statusVars, signalVars,
                   effects, eval, stopSeen>>

IterationDone ==
    /\ pc = "exec"
    /\ idx = Len(plan)
    /\ pc' = "merge"
    /\ UNCHANGED <<pd, plan, iteration, callVars, evidence, recorded, polled, statusVars,
                   signalVars, effects, eval, history>>

-----------------------------------------------------------------------------
(* After a failed iteration. *)

(* if refineErr == nil && len(refinedPlan.Steps) > 0 { ...; continue } *)
RecoverByRefining(p) ==
    /\ pc = "failed"
    /\ Attempts
    /\ p # <<>>
    /\ ActivityEnds
    /\ plan' = p
    /\ pc' = "head"
    /\ UNCHANGED <<pd, iteration, stepVars, evidence, recorded, polled, statusVars,
                   signalVars, effects, eval, history>>

(* The iteration is not recovered: show that the task waits, and wait. *)
AskForFeedback ==
    /\ pc = "failed"
    /\ ActivityEnds
    /\ state' = "waiting_for_feedback"
    /\ needsInput' = TRUE
    /\ evidence' = evidence \cup {"waiting"}
    /\ pc' = "feedback"
    /\ UNCHANGED <<pd, plan, iteration, stepVars, recorded, polled, result, signalVars,
                   effects, eval, history>>

(* No refinement is due, or its plan is empty. *)
NoRecovery ==
    /\ ~AutoRefine \/ (Attempts /\ <<>> \in Plans)
    /\ AskForFeedback

(* The server gives the GetPlan of the refinement up. *)
RecoveryGivenUp ==
    /\ AutoRefine
    /\ AskForFeedback

(* Faulty: the status keeps asking for input. *)
TakeFeedbackKeepsPrompt ==
    /\ pc = "feedback"
    /\ feedback # <<>>
    /\ feedback' = Tail(feedback)
    /\ UNCHANGED needsInput

(* Receive returned an entry and the status is running again. *)
TakeFeedback ==
    /\ pc = "feedback"
    /\ feedback # <<>>
    /\ feedback' = Tail(feedback)
    /\ needsInput' = FALSE

(* "stop" breaks out of the loop, to the max_iterations_reached artifact. *)
FeedbackStop ==
    /\ TakeFeedback
    /\ Head(feedback) = "stop"
    /\ Return("max_iterations_reached")
    /\ UNCHANGED <<pd, plan, iteration, callVars, evidence, recorded, polled, refines,
                   stops, sent, effects, eval, history>>

FeedbackContinue ==
    /\ TakeFeedback
    /\ Head(feedback) \in {"continue", "modify"}
    /\ state' = "running"
    /\ pc' = "head"
    /\ UNCHANGED <<pd, plan, iteration, callVars, evidence, recorded, polled, result,
                   refines, stops, sent, effects, eval, history>>

(* No recovery is left in the last iteration; otherwise the failed         *)
(* iteration goes on as if it had produced no results.                     *)
Unrecovered ==
    /\ results' = {}
    /\ IF iteration >= MaxIterations
       THEN Return("failed")
       ELSE pc' = "merge" /\ state' = "running" /\ UNCHANGED result

(* Any other action ("approve" and "reject" included) changes nothing. *)
FeedbackOther ==
    /\ TakeFeedback
    /\ Head(feedback) \notin {"stop", "continue", "modify"}
    /\ Unrecovered
    /\ UNCHANGED <<pd, plan, iteration, idx, actVars, evidence, recorded, polled, refines,
                   stops, sent, effects, eval, history>>

-----------------------------------------------------------------------------
(* After an iteration that went through: merge, goal, refinement. *)

(* Evidence["status"] == "completed" or Evidence["goal_achieved"] == true. *)
isGoalAchieved(ev) == ev \cap {"status", "goal_achieved"} # {}

(* Faulty: the keys carry no iteration number, a later one overwrites. *)
IterationKeysPlain(keys) == { [iteration |-> 1, key |-> k] : k \in keys }

IterationKeys(keys) == { [iteration |-> iteration, key |-> k] : k \in keys }

Merge ==
    /\ pc = "merge"
    /\ recorded' = recorded \cup IterationKeys(results)
    /\ polled' = FALSE
    /\ IF isGoalAchieved(evidence)
       THEN Return("completed")
       ELSE pc' = "refinewin" /\ UNCHANGED <<state, result>>
    /\ UNCHANGED <<pd, plan, iteration, callVars, evidence, needsInput, signalVars,
                   effects, eval, history>>

(* The refine signal asks for a plan inside the window. *)
ReceiveRefine ==
    /\ pc = "refinewin"
    /\ refines > 0
    /\ refines' = refines - 1
    /\ polled' = TRUE
    /\ pc' = "refine"
    /\ UNCHANGED <<pd, plan, iteration, callVars, evidence, recorded, statusVars, feedback,
                   stops, sent, effects, eval, history>>

(* GetPlan's plan is taken, even an empty one. *)
RefineAsAsked(p) ==
    /\ pc = "refine"
    /\ Attempts
    /\ ActivityEnds
    /\ plan' = p
    /\ pc' = "refinewin"
    /\ UNCHANGED <<pd, iteration, stepVars, evidence, recorded, polled, statusVars,
                   signalVars, effects, eval, history>>

(* Faulty: waits for a refine signal instead of giving up after 100 ms. *)
EndRefineWindowBlocks ==
    /\ pc = "refinewin"
    /\ polled
    /\ pc' = "auto"
    /\ UNCHANGED <<pd, plan, iteration, callVars, evidence, recorded, polled, statusVars,
                   signalVars, effects, eval, history>>

EndRefineWindow ==
    /\ pc = "refinewin"
    /\ refines = 0 \/ polled
    /\ pc' = "auto"
    /\ UNCHANGED <<pd, plan, iteration, callVars, evidence, recorded, polled, statusVars,
                   signalVars, effects, eval, history>>

(* Auto-refinement takes a non-empty plan; then the pause of one second. *)
RefineByEvidence(p) ==
    /\ pc = "auto"
    /\ Attempts
    /\ ActivityEnds
    /\ plan' = IF p = <<>> THEN plan ELSE p
    /\ pc' = "head"
    /\ UNCHANGED <<pd, iteration, stepVars, evidence, recorded, polled, statusVars,
                   signalVars, effects, eval, history>>

NoRefinement ==
    /\ pc = "auto"
    /\ ~Pending
    /\ pc' = "head"
    /\ UNCHANGED <<pd, plan, iteration, callVars, evidence, recorded, polled, statusVars,
                   signalVars, effects, eval, history>>

(* The server gives the GetPlan of a refinement up: the plan stays. *)
RefinementGivenUp ==
    /\ pc \in {"refine", "auto"} /\ Pending
    /\ ActivityEnds
    /\ pc' = IF pc = "refine" THEN "refinewin" ELSE "head"
    /\ UNCHANGED <<pd, plan, iteration, stepVars, evidence, recorded, polled, statusVars,
                   signalVars, effects, eval, history>>

-----------------------------------------------------------------------------
(* POST /feedback, /refine and /stop; a closed workflow takes no signal. *)

CanSignal == pc # "closed" /\ sent < MaxSignals /\ sent' = sent + 1

SendFeedback(a) ==
    /\ CanSignal
    /\ feedback' = Append(feedback, a)
    /\ UNCHANGED <<pc, pd, plan, iteration, callVars, evidence, recorded, polled,
                   statusVars, refines, stops, effects, eval, history>>

SendRefine ==
    /\ CanSignal
    /\ refines' = refines + 1
    /\ UNCHANGED <<pc, pd, plan, iteration, callVars, evidence, recorded, polled,
                   statusVars, feedback, stops, effects, eval, history>>

SendStop ==
    /\ CanSignal
    /\ stops' = stops + 1
    /\ UNCHANGED <<pc, pd, plan, iteration, callVars, evidence, recorded, polled,
                   statusVars, feedback, refines, effects, eval, history>>

-----------------------------------------------------------------------------
Workflow ==
    \/ \E ruling \in Policies : EvalPolicy(ruling)
    \/ \E p \in Plans : GetPlan(p)
    \/ BeginIteration \/ LoopExit \/ ReceiveStop \/ EndStopWindow
    \/ StepBlocked \/ StartCall \/ CallTool \/ StepResult \/ IterationDone
    \/ \E p \in Plans : RecoverByRefining(p)
    \/ NoRecovery \/ FeedbackStop \/ FeedbackContinue \/ FeedbackOther
    \/ Merge \/ ReceiveRefine \/ EndRefineWindow \/ NoRefinement
    \/ \E p \in Plans : RefineAsAsked(p) \/ RefineByEvidence(p)

Environment ==
    \/ AttemptFails
    \/ PlanningError \/ StepError \/ RecoveryGivenUp \/ RefinementGivenUp
    \/ \E a \in FeedbackActions : SendFeedback(a)
    \/ SendRefine \/ SendStop

Next == Workflow \/ Environment

Spec == Init /\ [][Next]_vars

(* Temporal runs every ready workflow and activity task and repeats an     *)
(* attempt that failed; nobody has to send a signal, no attempt has to     *)
(* succeed and no activity has to be given up.                             *)
FairSpec == Spec /\ WF_vars(Workflow)

-----------------------------------------------------------------------------
(* Properties. *)

(* Without AllowWrites a write step ends its iteration: nothing at or      *)
(* after it in the plan is executed in that iteration, whatever feedback,  *)
(* refinement or retries came before (executePlanIteration's write check). *)
BlockedWriteEndsIteration ==
    pc \in {"exec", "call", "failed"} /\ ~pd.AllowWrites =>
        \A e \in effects : e.iteration = iteration =>
            \A i \in 1..e.idx : "write" \notin plan[i].Tags

(* Every executed tool leaves a trace: once its iteration is over, the     *)
(* evidence has an entry for that step and iteration, unless the iteration *)
(* failed, whose results executePlanIteration throws away.                 *)
EffectsAccounted ==
    \A e \in effects :
        \/ e.iteration \in failedIn
        \/ e.iteration = iteration /\ pc \in {"exec", "call", "merge"}
        \/ \E r \in recorded : r.iteration = e.iteration /\ r.key.idx = e.idx

(* /status asks for human input exactly while the workflow is blocked on   *)
(* the feedback signal, so that no operator is asked in vain or overlooked. *)
WaitingIsVisible ==
    /\ needsInput <=> pc = "feedback"
    /\ needsInput <=> state = "waiting_for_feedback"

(* CallTool refuses the pending step on every attempt. *)
Refused == pc = "call" /\ ~PolicyAllows(plan[idx], pd)

(* The loop never hangs: it gets back to a closed task, to a wait for      *)
(* feedback nobody has sent, or to an activity that the server retries     *)
(* because its attempts fail or are refused.                               *)
LoopSettles ==
    []<>( \/ pc = "closed"
          \/ pc = "feedback" /\ feedback = <<>>
          \/ Retrying
          \/ Refused )

-----------------------------------------------------------------------------
(* What the task's clients see of it, as in IncidentWorkflow. *)

Outcome ==
    IF pc # "closed" THEN "open" ELSE IF result = "empty" THEN "error" ELSE result

Life == INSTANCE TaskLifecycle WITH
    life <- [ run |-> 1, status |-> state, result |-> result, outcome |-> Outcome ],
    Open <- {"running", "waiting_for_feedback"},
    Artifacts <- [ completed |-> {"completed", "max_iterations_reached", "failed"},
                   denied |-> {"denied"} ]

(* The loop lives as TaskLifecycle promises the clients: whatever ended it, *)
(* errors in the middle of an iteration or a human's word, its status,     *)
(* result and outcome agree, and once told they stay.                      *)
ImplementsLifecycle == Life!Spec

-----------------------------------------------------------------------------
(* The inductive strengthening. *)

(* The effects of an iteration that is over are accounted for. *)
Accounted(e) ==
    \/ e.iteration \in failedIn
    \/ \E r \in recorded : r.iteration = e.iteration /\ r.key.idx = e.idx

(* A step of the running iteration has an entry in its results. *)
HasResult(i) == \E k \in results : k.idx = i

EffectsInv ==
    /\ \A e \in effects : e.iteration \in 1..iteration /\ e.idx > 0
    /\ \A e \in effects : e.iteration < iteration => Accounted(e)
    /\ pc \in {"head", "refinewin", "refine", "auto", "closed"} => \A e \in effects : Accounted(e)
    /\ pc = "stopwin" => \A e \in effects : e.iteration < iteration
    /\ pc \in {"exec", "call"} =>
          \A e \in effects : e.iteration = iteration =>
              e.idx <= idx /\ (HasResult(e.idx) \/ (pc = "call" /\ e.idx = idx))
    /\ pc = "merge" =>
          \A e \in effects : e.iteration = iteration =>
              HasResult(e.idx) \/ iteration \in failedIn
    /\ pc \in {"failed", "feedback"} => iteration \in failedIn

(* Before any tool ran, or once the iteration is over. *)
PlanPrefixInv ==
    /\ pc \in {"policy", "plan"} => iteration = 0 /\ effects = {}
    /\ pc \notin {"policy", "plan", "head", "closed"} => iteration > 0
    /\ pc = "call" => ~Blocked(plan[idx])
    /\ pc \in {"exec", "call"} /\ ~pd.AllowWrites =>
          \A i \in 1..idx : "write" \notin plan[i].Tags

(* What the status says about where the function is. *)
StatusInv ==
    /\ evidence \cap {"status", "goal_achieved"} = {}
    /\ pc \notin {"feedback", "closed"} => state = "running"
    /\ pc # "closed" => result = "empty"

IInv ==
    /\ TypeOK /\ EffectsInv /\ PlanPrefixInv /\ StatusInv
    /\ BlockedWriteEndsIteration /\ EffectsAccounted /\ WaitingIsVisible

-----------------------------------------------------------------------------
(* The loop goes on "until goal is met or max iterations reached"          *)
(* (agentic_loop.go), and POST /stop is to "stop the agentic loop"         *)
(* (docs/API.md): by either, no iteration begins after one that took the   *)
(* stop signal and left nothing to do, all the steps of its plan done.     *)
NothingLeft(i) ==
    /\ i \notin failedIn
    /\ \E r \in recorded : r.iteration = i
    /\ \A r \in recorded : r.iteration = i => r.key.kind # "step_error"

LoopEndsWhenDone ==
    stopSeen > 0 /\ NothingLeft(stopSeen) => iteration = stopSeen

=============================================================================
