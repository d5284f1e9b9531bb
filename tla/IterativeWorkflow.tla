-------------------------- MODULE IterativeWorkflow --------------------------
(***************************************************************************)
(* IncidentWorkflowIterative (workflow_agentic.go): up to MaxIterations     *)
(* times a plan is asked for and executed from its first step, until one   *)
(* execution goes through without a failing step.                          *)
(*                                                                         *)
(* It shares the policy, the write gate and the CallTool activity with     *)
(* IncidentWorkflow and differs in what it keeps: one mutable policy copy  *)
(* for all iterations, evidence per iteration, no budget, and no           *)
(* CompleteEval, so that its row of eval_runs stays running.  Activities   *)
(* are modelled as in AgenticLoop: each is retried without limit, every    *)
(* attempt may fail, an attempt of CallTool executes its tool or not       *)
(* whether or not its answer arrives, and a plan the catalog refuses fails *)
(* its attempt.  GetPlan drops the evidence it is given (activies.go): an  *)
(* iteration's plan does not depend on what the earlier ones found.  The   *)
(* "refine" channel is looked at between iterations but not read, and the  *)
(* window lasts 10 seconds whatever it holds: the signal changes nothing   *)
(* and is left out.                                                        *)
(***************************************************************************)
EXTENDS Agents, EvalStore

CONSTANTS
    Policies,       \* the policy decisions the routed rule agent may return
    Plans,          \* the plans the routed decision agent may return
    MaxIterations,  \* maxIterations
    MaxAttempts,    \* bound: attempts of one activity that fail
    MaxSignals      \* bound: approval signals sent to the task

ASSUME IterativeAssumption ==
    /\ Policies \subseteq PolicyDecision
    /\ Plans \subseteq Plan
    /\ MaxIterations \in Nat \ {0}
    /\ MaxAttempts \in Nat \ {0}
    /\ MaxSignals \in Nat

VARIABLES
    pc,         \* where the workflow function is
    pd,         \* the workflow's own, mutable copy of the policy decision
    iteration,  \* iteration
    plan,       \* the plan of this iteration
    idx,        \* index of the current step
    succeeded,  \* allStepsSucceeded
    attempt,    \* attempts of the pending activity that have failed
    answered,   \* the pending CallTool activity has its answer
    evidence,   \* keys "step_result_s_iter_i" and "step_error_s_iter_i"
    state,      \* status.State
    result,     \* the returned artifact's payload status
    signals,    \* buffered values of the "approval" signal
    nsignals,   \* approval signals sent so far
    effects,    \* tools executed: iteration, idx, step
    eval,       \* the task's row of eval_runs
    ruling,     \* history: the policy decision as the rule agent gave it
    approvals   \* history: steps at whose gate an approval was consumed

actVars    == <<attempt, answered>>
signalVars == <<signals, nsignals>>
outcome    == <<state, result>>
history    == <<ruling, approvals>>
vars == <<pc, pd, iteration, plan, idx, succeeded, actVars, evidence, outcome,
          signalVars, effects, eval, history>>

NoPolicy == [ Allowed |-> FALSE, AllowWrites |-> FALSE, Scopes |-> {},
              ToolTagAllow |-> {}, MaxToolCalls |-> 0 ]

PC == {"policy", "plan", "loop", "gate", "call", "between", "closed"}

Place == [ iteration : 1..MaxIterations, idx : Nat \ {0} ]

Effect == [ iteration : 1..MaxIterations, idx : Nat \ {0}, step : PlanStep ]

EvidenceKey ==
    [ iteration : 1..MaxIterations, idx : Nat \ {0}, kind : {"step_result", "step_error"} ]

TypeOK ==
    /\ pc \in PC
    /\ pd \in PolicyDecision /\ ruling \in PolicyDecision
    /\ iteration \in 0..MaxIterations
    /\ pc \in {"plan", "loop", "gate", "call", "between"} => iteration > 0
    /\ plan \in Plan
    /\ idx \in 0..Len(plan)
    /\ pc \in {"gate", "call"} => idx > 0
    /\ succeeded \in BOOLEAN
    /\ attempt \in 0..MaxAttempts
    /\ answered \in BOOLEAN
    /\ evidence \subseteq EvidenceKey
    /\ state \in States
    /\ result \in {"empty", "denied", "rejected", "completed", "completed_with_retries"}
    /\ signals \in Seq(BOOLEAN)
    /\ nsignals \in 0..MaxSignals
    /\ effects \subseteq Effect
    /\ eval \in EvalRow
    /\ approvals \subseteq Place

Init ==
    /\ pc = "policy"
    /\ pd = NoPolicy /\ ruling = NoPolicy
    /\ iteration = 0
    /\ plan = <<>> /\ idx = 0 /\ succeeded = TRUE
    /\ attempt = 0 /\ answered = FALSE
    /\ evidence = {} /\ effects = {}
    /\ state = "running" /\ result = "empty"
    /\ signals = <<>> /\ nsignals = 0
    /\ eval = NoRow
    /\ approvals = {}

-----------------------------------------------------------------------------
Return(st, res) ==
    /\ pc' = "closed"
    /\ state' = st
    /\ result' = res

(* The function waits for EvalPolicy, GetPlan or CallTool. *)
Pending == pc \in {"policy", "plan", "call"}

(* Its attempts failed, as many as are modelled; the server makes another. *)
Retrying == Pending /\ ~answered /\ attempt = MaxAttempts

(* The pending activity may make an attempt. *)
Attempts == Pending /\ ~answered /\ attempt < MaxAttempts

(* It has returned to the function. *)
ActivityEnds == attempt' = 0 /\ answered' = FALSE

(* An attempt of EvalPolicy or GetPlan fails: no agent answers, its answer *)
(* does not decode, the catalog refuses its plan, or the attempt is lost.  *)
AttemptFails ==
    /\ Attempts /\ pc # "call"
    /\ attempt' = attempt + 1
    /\ eval' \in {eval} \cup IF pc = "policy" THEN {UpsertStart(eval)} ELSE {}
    /\ UNCHANGED <<pc, pd, iteration, plan, idx, succeeded, answered, evidence, outcome,
                   signalVars, effects, history>>

EvalPolicy(decision) ==
    /\ pc = "policy"
    /\ Attempts
    /\ ActivityEnds
    /\ eval' \in {eval, UpsertStart(eval)}
    /\ pd' = decision
    /\ ruling' = decision
    /\ IF decision.Allowed
       THEN pc' = "plan" /\ iteration' = 1 /\ UNCHANGED outcome
       ELSE Return("denied", "denied") /\ UNCHANGED iteration
    /\ UNCHANGED <<plan, idx, succeeded, evidence, signalVars, effects, approvals>>

(* The server gives EvalPolicy or an iteration's GetPlan up. *)
PlanningError ==
    /\ pc \in {"policy", "plan"}
    /\ ActivityEnds
    /\ Return("failed", "empty")
    /\ UNCHANGED <<pd, iteration, plan, idx, succeeded, evidence, signalVars, effects,
                   eval, history>>

(* Faulty: the policy is evaluated afresh and forgets the approval. *)
GetPlanForgetsApproval(p) ==
    /\ pc = "plan"
    /\ Attempts
    /\ ActivityEnds
    /\ plan' = p
    /\ pd' = ruling
    /\ idx' = 0
    /\ succeeded' = TRUE
    /\ pc' = "loop"
    /\ UNCHANGED <<iteration, evidence, outcome, signalVars, effects, eval, history>>

(* Each iteration asks for a plan and starts it from its first step. *)
GetPlan(p) ==
    /\ pc = "plan"
    /\ Attempts
    /\ ActivityEnds
    /\ plan' = p
    /\ idx' = 0
    /\ succeeded' = TRUE
    /\ pc' = "loop"
    /\ UNCHANGED <<pd, iteration, evidence, outcome, signalVars, effects, eval, history>>

-----------------------------------------------------------------------------
(* The steps of an iteration. *)

NeedsApproval(step) == "write" \in step.Tags /\ ~pd.AllowWrites

EnterGate ==
    /\ pc = "loop"
    /\ idx < Len(plan)
    /\ NeedsApproval(plan[idx + 1])
    /\ idx' = idx + 1
    /\ state' = "needs_approval"
    /\ pc' = "gate"
    /\ UNCHANGED <<pd, iteration, plan, succeeded, actVars, evidence, result, signalVars,
                   effects, eval, history>>

EnterCall ==
    /\ pc = "loop"
    /\ idx < Len(plan)
    /\ ~NeedsApproval(plan[idx + 1])
    /\ idx' = idx + 1
    /\ pc' = "call"
    /\ UNCHANGED <<pd, iteration, plan, succeeded, actVars, evidence, outcome, signalVars,
                   effects, eval, history>>

(* Faulty: the value of the signal is not looked at. *)
ReceiveAnySignal ==
    /\ pc = "gate"
    /\ signals # <<>>
    /\ signals' = Tail(signals)
    /\ pd' = [pd EXCEPT !.AllowWrites = TRUE]
    /\ approvals' = IF Head(signals)
                    THEN approvals \cup {[iteration |-> iteration, idx |-> idx]}
                    ELSE approvals
    /\ pc' = "call"
    /\ UNCHANGED <<iteration, plan, idx, succeeded, actVars, evidence, outcome, nsignals,
                   effects, eval, ruling>>

(* The approval holds for the rest of the task, later iterations and their *)
(* plans included; status.State stays needs_approval.                      *)
ReceiveApproval ==
    /\ pc = "gate"
    /\ signals # <<>>
    /\ Head(signals)
    /\ signals' = Tail(signals)
    /\ pd' = [pd EXCEPT !.AllowWrites = TRUE]
    /\ approvals' = approvals \cup {[iteration |-> iteration, idx |-> idx]}
    /\ pc' = "call"
    /\ UNCHANGED <<iteration, plan, idx, succeeded, actVars, evidence, outcome, nsignals,
                   effects, eval, ruling>>

(* Faulty: the rejection is told, but the function does not return. *)
ReceiveRejectionUnreturned ==
    /\ pc = "gate"
    /\ signals # <<>>
    /\ ~Head(signals)
    /\ signals' = Tail(signals)
    /\ pc' = "loop" /\ state' = "denied" /\ result' = "rejected"
    /\ UNCHANGED <<pd, iteration, plan, idx, succeeded, actVars, evidence, nsignals,
                   effects, eval, history>>

ReceiveRejection ==
    /\ pc = "gate"
    /\ signals # <<>>
    /\ ~Head(signals)
    /\ signals' = Tail(signals)
    /\ Return("denied", "rejected")
    /\ UNCHANGED <<pd, iteration, plan, idx, succeeded, actVars, evidence, nsignals,
                   effects, eval, history>>

(* The tool of the pending step executes. *)
Executed ==
    effects \cup {[iteration |-> iteration, idx |-> idx, step |-> plan[idx]]}

(* An attempt that passes CallTool's checks is counted.  Its tool executes *)
(* and answers, or fails, or is cut off before or after it executed.       *)
CallTool ==
    /\ pc = "call"
    /\ PolicyAllows(plan[idx], pd)
    /\ Attempts
    /\ eval' = IncToolCalls(eval)
    /\ \/ answered' = TRUE /\ effects' = Executed /\ UNCHANGED attempt
       \/ attempt' = attempt + 1 /\ effects' \in {effects, Executed} /\ UNCHANGED answered
    /\ UNCHANGED <<pc, pd, iteration, plan, idx, succeeded, evidence, outcome, signalVars,
                   history>>

(* Faulty: the key leaves the iteration out. *)
NotePlain(kind) ==
    evidence' = evidence \cup {[iteration |-> 1, idx |-> idx, kind |-> kind]}

Note(kind) ==
    evidence' = evidence \cup {[iteration |-> iteration, idx |-> idx, kind |-> kind]}

(* Faulty: only the first attempt's answer is accepted. *)
StepResultOfFirst ==
    /\ pc = "call"
    /\ answered /\ attempt = 0
    /\ ActivityEnds
    /\ Note("step_result")
    /\ pc' = "loop"
    /\ UNCHANGED <<pd, iteration, plan, idx, succeeded, outcome, signalVars, effects, eval,
                   history>>

StepResult ==
    /\ pc = "call"
    /\ answered
    /\ ActivityEnds
    /\ Note("step_result")
    /\ pc' = "loop"
    /\ UNCHANGED <<pd, iteration, plan, idx, succeeded, outcome, signalVars, effects, eval,
                   history>>

(* Faulty: a failed step does not clear allStepsSucceeded. *)
StepErrorIgnored ==
    /\ pc = "call"
    /\ ActivityEnds
    /\ IF plan[idx].StopOnErr
       THEN Return("failed", "empty") /\ UNCHANGED evidence
       ELSE Note("step_error") /\ pc' = "loop" /\ UNCHANGED outcome
    /\ UNCHANGED <<pd, iteration, plan, idx, succeeded, signalVars, effects, eval, history>>

(* The server gives the activity up.  The tool may have executed. *)
StepError ==
    /\ pc = "call"
    /\ ActivityEnds
    /\ IF plan[idx].StopOnErr
       THEN Return("failed", "empty") /\ UNCHANGED <<evidence, succeeded>>
       ELSE /\ Note("step_error")
            /\ succeeded' = FALSE
            /\ pc' = "loop"
            /\ UNCHANGED outcome
    /\ UNCHANGED <<pd, iteration, plan, idx, signalVars, effects, eval, history>>

-----------------------------------------------------------------------------
(* The end of an iteration. *)

AllStepsSucceeded ==
    /\ pc = "loop"
    /\ idx = Len(plan)
    /\ succeeded
    /\ Return("completed", "completed")
    /\ UNCHANGED <<pd, iteration, plan, idx, succeeded, actVars, evidence, signalVars,
                   effects, eval, history>>

(* The 10 second window between iterations. *)
AwaitRefinement ==
    /\ pc = "loop"
    /\ idx = Len(plan)
    /\ ~succeeded
    /\ iteration < MaxIterations
    /\ pc' = "between"
    /\ UNCHANGED <<pd, iteration, plan, idx, succeeded, actVars, evidence, outcome,
                   signalVars, effects, eval, history>>

NextIteration ==
    /\ pc = "between"
    /\ iteration' = iteration + 1
    /\ pc' = "plan"
    /\ UNCHANGED <<pd, plan, idx, succeeded, actVars, evidence, outcome, signalVars,
                   effects, eval, history>>

MaxIterationsReached ==
    /\ pc = "loop"
    /\ idx = Len(plan)
    /\ ~succeeded
    /\ iteration = MaxIterations
    /\ Return("completed", "completed_with_retries")
    /\ UNCHANGED <<pd, iteration, plan, idx, succeeded, actVars, evidence, signalVars,
                   effects, eval, history>>

-----------------------------------------------------------------------------
(* POST /approve/{taskID} *)
SendApproval(value) ==
    /\ pc # "closed"
    /\ nsignals < MaxSignals
    /\ signals' = Append(signals, value)
    /\ nsignals' = nsignals + 1
    /\ UNCHANGED <<pc, pd, iteration, plan, idx, succeeded, actVars, evidence, outcome,
                   effects, eval, history>>

Workflow ==
    \/ \E decision \in Policies : EvalPolicy(decision)
    \/ \E p \in Plans : GetPlan(p)
    \/ EnterGate \/ EnterCall \/ ReceiveApproval \/ ReceiveRejection
    \/ CallTool \/ StepResult
    \/ AllStepsSucceeded \/ AwaitRefinement \/ NextIteration \/ MaxIterationsReached

Environment ==
    AttemptFails \/ PlanningError \/ StepError \/ \E value \in BOOLEAN : SendApproval(value)

Next == Workflow \/ Environment

Spec == Init /\ [][Next]_vars

(* Temporal runs every ready workflow and activity task and repeats an     *)
(* attempt that failed; nobody has to send a signal, no attempt has to     *)
(* succeed and no activity has to be given up.                             *)
FairSpec == Spec /\ WF_vars(Workflow)

-----------------------------------------------------------------------------
(* Properties. *)

Before(a, e) ==
    a.iteration < e.iteration \/ (a.iteration = e.iteration /\ a.idx <= e.idx)

(* A write is executed only if the rule agent allowed writes or a human's  *)
(* approval was consumed at a gate not after that step, in this iteration  *)
(* or an earlier one, however plans differ between iterations.             *)
WritesApproved ==
    \A e \in effects : "write" \in e.step.Tags =>
        ruling.AllowWrites \/ \E a \in approvals : Before(a, e)

(* A task reported as denied has executed no write in any iteration.       *)
DeniedMeansNoWrite ==
    state = "denied" => \A e \in effects : "write" \notin e.step.Tags

(* The two successes are told apart truthfully: "completed" only when the  *)
(* last iteration executed its whole plan, "completed_with_retries" only   *)
(* when every iteration has a failed step in the evidence.                 *)
OutcomeIsTrue ==
    /\ result = "completed" =>
          \A i \in DOMAIN plan :
              [iteration |-> iteration, idx |-> i, step |-> plan[i]] \in effects
    /\ result = "completed_with_retries" =>
          \A i \in 1..MaxIterations : \E k \in evidence :
              k.iteration = i /\ k.kind = "step_error"

(* A plan is executed again only after a failure: every iteration before   *)
(* the current one has a failed step in the evidence.                      *)
RepeatsHaveReasons ==
    \A i \in 1..(iteration - 1) : \E k \in evidence :
        k.iteration = i /\ k.kind = "step_error"

(* The evidence that goes into the final artifact leaves no executed tool  *)
(* out, whatever iteration, attempt or failure it was: each has a result   *)
(* or an error under its iteration, except the step that is at work or     *)
(* that ended the task.                                                    *)
EvidenceCoversEffects ==
    \A e \in effects :
        \/ \E k \in evidence : k.iteration = e.iteration /\ k.idx = e.idx
        \/ /\ e.iteration = iteration /\ e.idx = idx
           /\ pc = "call" \/ state = "failed"

(* What the task's clients see of it.  A denial is returned, but never put *)
(* into the finalResult that the result query tells.                       *)
Outcome ==
    IF pc # "closed" THEN "open" ELSE IF result = "empty" THEN "error" ELSE result

FinalResult == IF state = "denied" THEN "empty" ELSE result

Life == INSTANCE TaskLifecycle WITH
    life <- [ run |-> 1, status |-> state, result |-> FinalResult, outcome |-> Outcome ],
    Open <- {"running", "needs_approval", "waiting_for_feedback"},
    Artifacts <- [ completed |-> {"completed", "completed_with_retries"},
                   denied |-> {"denied", "rejected"} ]

(* The workflow lives as TaskLifecycle promises the clients: nothing is    *)
(* told as a result before the last iteration, and a task told as ended,   *)
(* by a rejection in any iteration or by a failing step, has ended.        *)
ImplementsLifecycle == Life!Spec

(* CallTool refuses the pending step on every attempt. *)
Refused == pc = "call" /\ ~PolicyAllows(plan[idx], pd)

(* The task never hangs: it gets back to a closed task, to a gate nobody   *)
(* has signalled, or to an activity that the server retries because its    *)
(* attempts fail or are refused.                                           *)
IterativeSettles ==
    []<>( \/ pc = "closed"
          \/ pc = "gate" /\ signals = <<>>
          \/ Retrying
          \/ Refused )

=============================================================================
