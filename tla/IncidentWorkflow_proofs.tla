----------------------- MODULE IncidentWorkflow_proofs -----------------------
(***************************************************************************)
(* Proofs that IncidentWorkflow keeps its safety invariants for all sets   *)
(* of policies, plans and catalogs and for every bound on runs, attempts   *)
(* and signals.                                                            *)
(***************************************************************************)
EXTENDS IncidentWorkflow, SequenceTheorems, TLAPS

(* The updates of the eval_runs row keep its type. *)
LEMMA EvalRowUpdates ==
    ASSUME NEW row \in EvalRow, NEW st \in States
    PROVE  /\ UpsertStart(row) \in EvalRow
           /\ IncToolCalls(row) \in EvalRow
           /\ IncApprovals(row) \in EvalRow
           /\ Complete(row, st) \in EvalRow
<1>1. UpsertStart(row) \in EvalRow
  BY DEF EvalRow, NoRow, States, UpsertStart
<1>2. IncToolCalls(row) \in EvalRow
  BY DEF EvalRow, IncToolCalls
<1>3. IncApprovals(row) \in EvalRow
  BY DEF EvalRow, IncApprovals
<1>4. Complete(row, st) \in EvalRow
  BY DEF EvalRow, Complete
<1> QED
  BY <1>1, <1>2, <1>3, <1>4

(* What the initial states satisfy. *)
LEMMA TypeInit == Init => TypeOK
  BY IncidentAssumption
  DEF Init, TypeOK, PC, Awaiting, States, NoPolicy, PolicyDecision, Plan, EvalRow, NoRow

(* Reading a signal leaves a queue of signals. *)
LEMMA TailOfSignals ==
    ASSUME signals \in Seq(BOOLEAN), signals # <<>>
    PROVE  Tail(signals) \in Seq(BOOLEAN)
  BY HeadTailProperties

(* Approving a policy decision leaves a policy decision. *)
LEMMA ApprovedPolicy ==
    ASSUME NEW p \in PolicyDecision
    PROVE  /\ [p EXCEPT !.AllowWrites = TRUE] \in PolicyDecision
           /\ [p EXCEPT !.AllowWrites = TRUE].AllowWrites
           /\ [p EXCEPT !.AllowWrites = TRUE].Scopes = p.Scopes
           /\ [p EXCEPT !.AllowWrites = TRUE].ToolTagAllow = p.ToolTagAllow
           /\ [p EXCEPT !.AllowWrites = TRUE].MaxToolCalls = p.MaxToolCalls
  BY DEF PolicyDecision

(* The pending CallTool activity is for a step of the plan. *)
LEMMA StepOfPlan ==
    ASSUME TypeOK, pc = "call"
    PROVE  toolCalls \in Nat \ {0} /\ Step \in PlanStep
  BY DEF TypeOK, Step, Plan

(* What a failing attempt leaves behind is a row. *)
LEMMA LeftBehindIsRow == TypeOK => LeftBehind \subseteq EvalRow
  BY EvalRowUpdates DEF TypeOK, LeftBehind

(* Every step keeps the types: one case per action. *)
LEMMA TypeNext == TypeOK /\ [Next]_vars => TypeOK'
<1> SUFFICES ASSUME TypeOK, [Next]_vars PROVE TypeOK'
  OBVIOUS
<1> USE IncidentAssumption
<1>1. CASE \E ruling \in Policies : EvalPolicy(ruling)
  BY <1>1, EvalRowUpdates
  DEF TypeOK, EvalPolicy, Finish, Await, Resume, Awaiting, PC, States, taskVars, actVars, mcpVars, signalVars, history
<1>2. CASE AttemptFails
  BY <1>2, LeftBehindIsRow
  DEF TypeOK, AttemptFails, Await, Resume, Awaiting, PC, States, taskVars, actVars, mcpVars, signalVars, history
<1>3. CASE PlanningError
  BY <1>3
  DEF TypeOK, PlanningError, Finish, Await, Resume, Awaiting, PC, States, taskVars, actVars, mcpVars, signalVars, history
<1>4. CASE \E p \in Plans : GetPlan(p)
  BY <1>4
  DEF TypeOK, GetPlan, Plan, Await, Resume, Awaiting, PC, States, taskVars, actVars, mcpVars, signalVars, history
<1>5. CASE LoopEnd
  BY <1>5
  DEF TypeOK, LoopEnd, Finish, Await, Resume, Awaiting, PC, States, taskVars, actVars, mcpVars, signalVars, history
<1>6. CASE ContinueAsNew
  BY <1>6
  DEF TypeOK, ContinueAsNew, NoPolicy, PolicyDecision, Plan, Await, Resume, Awaiting, PC, States, taskVars, actVars, mcpVars, signalVars, history
<1>7. CASE EnterGate
  BY <1>7
  DEF TypeOK, EnterGate, Await, Resume, Awaiting, PC, States, taskVars, actVars, mcpVars, signalVars, history
<1>8. CASE EnterCall
  BY <1>8
  DEF TypeOK, EnterCall, Await, Resume, Awaiting, PC, States, taskVars, actVars, mcpVars, signalVars, history
<1>9. CASE ReceiveApproval
  <2>1. signals' \in Seq(BOOLEAN)
    BY <1>9, TailOfSignals DEF TypeOK, ReceiveApproval
  <2>2. pd' \in PolicyDecision
    BY <1>9, ApprovedPolicy DEF TypeOK, ReceiveApproval
  <2>3. pc' = "record" /\ act' = "scheduled" /\ attempt' = 0
    BY <1>9 DEF ReceiveApproval, Await
  <2>4. UNCHANGED <<run, plan, toolCalls, state, blocked, outs, errs, result,
                    inflight, effects, nsignals, catalog, eval, rulings>>
    BY <1>9 DEF ReceiveApproval, mcpVars
  <2>5. approved' \subseteq 1..MaxRuns /\ pc = "gate"
    BY <1>9 DEF TypeOK, ReceiveApproval
  <2> QED
    BY <2>1, <2>2, <2>3, <2>4, <2>5 DEF TypeOK, PC, Awaiting
<1>10. CASE ReceiveRejection
  <2>1. signals' \in Seq(BOOLEAN)
    BY <1>10, TailOfSignals DEF TypeOK, ReceiveRejection
  <2>2. /\ pc' = "complete" /\ act' = "scheduled" /\ attempt' = 0
        /\ state' = "denied" /\ result' = "rejected"
    BY <1>10 DEF ReceiveRejection, Finish, Await
  <2>3. UNCHANGED <<run, pd, plan, toolCalls, blocked, outs, errs, inflight, effects,
                    nsignals, catalog, eval, rulings, approved>>
    BY <1>10 DEF ReceiveRejection, mcpVars, history
  <2> QED
    BY <2>1, <2>2, <2>3 DEF TypeOK, PC, Awaiting, States
<1>11. CASE RecordApproval
  BY <1>11, EvalRowUpdates
  DEF TypeOK, RecordApproval, Await, Resume, Awaiting, PC, States, taskVars, actVars, mcpVars, signalVars, history
<1>12. CASE BudgetExceeded
  BY <1>12
  DEF TypeOK, BudgetExceeded, Await, Resume, Awaiting, PC, States, taskVars, actVars, mcpVars, signalVars, history
<1>13. CASE CallTool
  <2>1. /\ run \in 1..MaxRuns /\ toolCalls \in Nat \ {0} /\ Step \in PlanStep
        /\ attempt + 1 \in 1..MaxAttempts /\ pd \in PolicyDecision
    BY <1>13, StepOfPlan DEF TypeOK, CallTool
  <2>2. [run |-> run, idx |-> toolCalls, attempt |-> attempt + 1,
         step |-> Step, policy |-> pd] \in Request
    BY <2>1 DEF Request
  <2>3. inflight' \subseteq Request
    BY <1>13, <2>2 DEF TypeOK, CallTool
  <2> QED
    BY <1>13, <2>1, <2>3, EvalRowUpdates
    DEF TypeOK, CallTool, taskVars, signalVars, history
<1>14. CASE AttemptLost
  BY <1>14
  DEF TypeOK, AttemptLost, Await, Resume, Awaiting, PC, States, taskVars, actVars, mcpVars, signalVars, history
<1>15. CASE RetryAttempt
  BY <1>15
  DEF TypeOK, RetryAttempt, Await, Resume, Awaiting, PC, States, taskVars, actVars, mcpVars, signalVars, history
<1>16. CASE StepOutput
  BY <1>16
  DEF TypeOK, StepOutput, Plan, Await, Resume, Awaiting, PC, States, taskVars, actVars, mcpVars, signalVars, history
<1>17. CASE StepError
  <2>0. UNCHANGED <<run, pd, plan, toolCalls, blocked, outs, inflight, effects,
                    signals, nsignals, catalog, eval, rulings, approved>>
    BY <1>17 DEF StepError, mcpVars, signalVars, history
  <2>1. CASE StopsWorkflow(Step)
    <3>1. /\ pc' = "complete" /\ act' = "scheduled" /\ attempt' = 0
          /\ state' = "failed" /\ result' = "empty" /\ errs' = errs
      BY <1>17, <2>1 DEF StepError, Finish, Await
    <3> QED
      BY <2>0, <3>1 DEF TypeOK, PC, Awaiting, States
  <2>2. CASE ~StopsWorkflow(Step)
    <3>1. errs' = errs \cup {toolCalls} /\ toolCalls \in Nat
      BY <1>17, <2>2 DEF StepError, TypeOK, Plan
    <3>2. pc' = "loop" /\ act' = "idle" /\ attempt' = 0 /\ UNCHANGED <<state, result>>
      BY <1>17, <2>2 DEF StepError, Resume
    <3> QED
      BY <2>0, <3>1, <3>2 DEF TypeOK, PC, Awaiting
  <2> QED
    BY <2>1, <2>2
<1>18. CASE CompleteEval
  BY <1>18, EvalRowUpdates
  DEF TypeOK, CompleteEval, Await, Resume, Awaiting, PC, States, taskVars, actVars, mcpVars, signalVars, history
<1>19. CASE \E q \in inflight : ExecuteTool(q)
  BY <1>19
  DEF TypeOK, ExecuteTool, Await, Resume, Awaiting, PC, States, taskVars, actVars, mcpVars, signalVars, history
<1>20. CASE \E q \in inflight : DropRequest(q)
  BY <1>20
  DEF TypeOK, DropRequest, Await, Resume, Awaiting, PC, States, taskVars, actVars, mcpVars, signalVars, history
<1>21. CASE \E value \in BOOLEAN : SendApproval(value)
  BY <1>21
  DEF TypeOK, SendApproval, Await, Resume, Awaiting, PC, States, taskVars, actVars, mcpVars, signalVars, history
<1>22. CASE WorkerRestart
  BY <1>22
  DEF TypeOK, WorkerRestart, Await, Resume, Awaiting, PC, States, taskVars, actVars, mcpVars, signalVars, history
<1>23. CASE UNCHANGED vars
  BY <1>23 DEF TypeOK, vars, taskVars, actVars, mcpVars, signalVars, history
<1> QED
  BY <1>1, <1>2, <1>3, <1>4, <1>5, <1>6, <1>7, <1>8, <1>9, <1>10, <1>11,
     <1>12, <1>13, <1>14, <1>15, <1>16, <1>17, <1>18, <1>19, <1>20,
     <1>21, <1>22, <1>23
  DEF Next, Workflow, Environment

(* IncidentWorkflow is type correct. *)
THEOREM TypeCorrect == Spec => []TypeOK
  BY TypeInit, TypeNext, PTL DEF Spec

-----------------------------------------------------------------------------
(* The parts of the inductive invariant, each from the parts before it. *)

(* status.State follows the function's position. *)
LEMMA StateNext == StateInv /\ [Next]_vars => StateInv'
  BY DEF StateInv, Next, Workflow, Environment, Finish, Await, Resume, vars, taskVars,
         EvalPolicy, GetPlan, LoopEnd, BudgetExceeded, ContinueAsNew, EnterGate, EnterCall,
         ReceiveApproval, ReceiveRejection, RecordApproval, CompleteEval,
         AttemptFails, CallTool, AttemptLost, RetryAttempt, StepOutput,
         PlanningError, StepError, ExecuteTool, DropRequest, SendApproval, WorkerRestart

(* Steps that neither decide on the policy, nor start a run, nor read an   *)
(* approval leave the policy alone and do not enter the function's body.   *)
Deciding ==
    \/ \E ruling \in Policies : EvalPolicy(ruling)
    \/ ContinueAsNew
    \/ ReceiveApproval

LEMMA PolicyFrame ==
    ASSUME [Next]_vars, ~Deciding
    PROVE  /\ UNCHANGED <<run, pd, rulings, approved>>
           /\ pc' \in Body => pc \in Body
           /\ pc' = "policy" => pc = "policy"
  BY DEF Deciding, Body, Next, Workflow, Environment, Finish, Await, Resume, vars, taskVars, history,
         GetPlan, LoopEnd, BudgetExceeded, EnterGate, EnterCall, ReceiveRejection,
         RecordApproval, CompleteEval, AttemptFails, CallTool, AttemptLost,
         RetryAttempt, StepOutput, PlanningError, StepError,
         ExecuteTool, DropRequest, SendApproval, WorkerRestart

(* One policy decision per run. *)
LEMMA RulingsNext == TypeOK /\ RulingsInv /\ [Next]_vars => RulingsInv'
<1> SUFFICES ASSUME TypeOK, RulingsInv, [Next]_vars PROVE RulingsInv'
  OBVIOUS
<1> USE DEF TypeOK, RulingsInv, Body
<1>1. CASE \E ruling \in Policies : EvalPolicy(ruling)
  BY <1>1, IncidentAssumption DEF EvalPolicy, Finish, Await, Resume
<1>2. CASE ContinueAsNew
  BY <1>2 DEF Await, Resume, ContinueAsNew, history
<1>3. CASE ReceiveApproval
  BY <1>3 DEF Await, Resume, ReceiveApproval
<1>4. CASE ~Deciding
  BY <1>4, PolicyFrame
<1> QED
  BY <1>1, <1>2, <1>3, <1>4 DEF Deciding

(* The decision in hand is the run's, up to an approval. *)
LEMMA PolicyNext ==
    TypeOK /\ RulingsInv /\ PolicyInv /\ [Next]_vars => PolicyInv'
<1> SUFFICES ASSUME TypeOK, RulingsInv, PolicyInv, [Next]_vars PROVE PolicyInv'
  OBVIOUS
<1>1. CASE \E ruling \in Policies : EvalPolicy(ruling)
  BY <1>1, IncidentAssumption DEF TypeOK, RulingsInv, PolicyInv, Body, EvalPolicy, Finish, Await, Resume
<1>2. CASE ContinueAsNew
  BY <1>2 DEF Await, Resume, ContinueAsNew, PolicyInv, Body
<1>3. CASE ReceiveApproval
  BY <1>3, ApprovedPolicy DEF Await, Resume, TypeOK, PolicyInv, Body, ReceiveApproval
<1>4. CASE ~Deciding
  BY <1>4, PolicyFrame DEF PolicyInv
<1> QED
  BY <1>1, <1>2, <1>3, <1>4 DEF Deciding

(* A step is begun within the budget, and the budget stays. *)
LEMMA BudgetNext == TypeOK /\ BudgetInv /\ [Next]_vars => BudgetInv'
<1> SUFFICES ASSUME TypeOK, BudgetInv, [Next]_vars PROVE BudgetInv'
  OBVIOUS
<1>1. CASE ReceiveApproval
  BY <1>1, ApprovedPolicy DEF Await, Resume, TypeOK, BudgetInv, OverBudget, ReceiveApproval
<1>2. CASE EnterGate \/ EnterCall
  BY <1>2 DEF Await, Resume, BudgetInv, OverBudget, EnterGate, EnterCall
<1>3. CASE ~ReceiveApproval /\ ~EnterGate /\ ~EnterCall
  BY <1>3 DEF BudgetInv, OverBudget, Next, Workflow, Environment, Finish, Await, Resume, vars, taskVars,
         EvalPolicy, ContinueAsNew, GetPlan, LoopEnd, BudgetExceeded, ReceiveRejection,
         RecordApproval, CompleteEval, AttemptFails, CallTool, AttemptLost,
         RetryAttempt, StepOutput, PlanningError, StepError,
         ExecuteTool, DropRequest, SendApproval, WorkerRestart
<1> QED
  BY <1>1, <1>2, <1>3

(* Only CallTool issues requests. *)
LEMMA IssuedFrame ==
    ASSUME [Next]_vars, ~CallTool
    PROVE  Issued' \subseteq Issued
  BY DEF Issued, Next, Workflow, Environment, Finish, Await, Resume, vars, mcpVars,
         EvalPolicy, ContinueAsNew, GetPlan, LoopEnd, BudgetExceeded, EnterGate, EnterCall,
         ReceiveApproval, ReceiveRejection, RecordApproval, CompleteEval,
         AttemptFails, AttemptLost, RetryAttempt, StepOutput,
         PlanningError, StepError,
         ExecuteTool, DropRequest, SendApproval, WorkerRestart

(* The history only grows. *)
LEMMA HistoryFrame ==
    ASSUME TypeOK, [Next]_vars
    PROVE  /\ Len(rulings) <= Len(rulings')
           /\ \A r \in 1..Len(rulings) : rulings'[r] = rulings[r]
           /\ approved \subseteq approved'
<1>1. ASSUME NEW ruling \in Policies, EvalPolicy(ruling)
      PROVE  /\ Len(rulings) <= Len(rulings')
             /\ \A r \in 1..Len(rulings) : rulings'[r] = rulings[r]
             /\ approved \subseteq approved'
  <2>1. /\ rulings \in Seq(PolicyDecision) /\ ruling \in PolicyDecision
        /\ rulings' = Append(rulings, ruling) /\ approved' = approved
    BY <1>1, IncidentAssumption DEF Await, Resume, TypeOK, EvalPolicy
  <2> QED
    BY <2>1
<1>2. CASE ContinueAsNew
  BY <1>2 DEF Await, Resume, TypeOK, ContinueAsNew, history
<1>3. CASE ReceiveApproval
  <2>1. rulings' = rulings /\ approved' = approved \cup {run}
    BY <1>3 DEF Await, Resume, ReceiveApproval
  <2>2. Len(rulings) \in Nat
    BY DEF TypeOK
  <2> QED
    BY <2>1, <2>2
<1>4. CASE ~Deciding
  BY <1>4, PolicyFrame DEF TypeOK
<1> QED
  BY <1>1, <1>2, <1>3, <1>4 DEF Deciding

(* What CallTool issues: the step in hand, after the checks, for this run. *)
LEMMA CallToolIssues ==
    ASSUME TypeOK, CallTool
    PROVE  \E n : Issued' = Issued \cup
              {[run |-> run, idx |-> toolCalls, attempt |-> n,
                step |-> Step, policy |-> pd]}
  BY DEF CallTool, Issued

(* Requests stay within what their run's decision and approvals grant. *)
LEMMA RequestsNext ==
    ASSUME TypeOK, RulingsInv, PolicyInv, RequestInv, BudgetInv,
           CallsAuthorised, BudgetRespected, [Next]_vars
    PROVE  RequestInv' /\ CallsAuthorised' /\ BudgetRespected'
<1>1. CASE CallTool
  <2>1. PICK n : Issued' = Issued \cup
              {[run |-> run, idx |-> toolCalls, attempt |-> n,
                step |-> Step, policy |-> pd]}
    BY <1>1, CallToolIssues
  <2>2. /\ UNCHANGED <<pc, run, pd, toolCalls, rulings, approved>>
        /\ pc = "call" /\ CallAllowed(Step, pd)
        /\ pc \in Body /\ Len(rulings) = run /\ run \in 1..Len(rulings)
    BY <1>1 DEF CallTool, taskVars, history, Body, RulingsInv, TypeOK
  <2>3. RequestInv'
    BY <2>1, <2>2 DEF RequestInv, Write, CallAllowed, PolicyAllows
  <2>4. CallsAuthorised'
    BY <2>1, <2>2 DEF CallsAuthorised, PolicyInv, Write, CallAllowed, PolicyAllows
  <2>5. BudgetRespected'
    BY <2>1, <2>2 DEF BudgetRespected, BudgetInv, OverBudget, PolicyInv, TypeOK, PolicyDecision
  <2> QED
    BY <2>3, <2>4, <2>5
<1>2. CASE ~CallTool
  <2>1. Issued' \subseteq Issued
    BY <1>2, IssuedFrame
  <2>2. \A q \in Issued' : q.run \in 1..Len(rulings) /\ rulings'[q.run] = rulings[q.run]
    BY <2>1, HistoryFrame DEF RequestInv
  <2>3. CallsAuthorised'
    BY <2>1, <2>2, HistoryFrame DEF CallsAuthorised, Write
  <2>4. BudgetRespected'
    BY <2>1, <2>2 DEF BudgetRespected
  <2>5. \A q \in Issued' : q.run \in 1..Len(rulings')
    BY <2>2, HistoryFrame DEF TypeOK
  <2>6. pc' \in Body /\ ~pd'.AllowWrites => \A q \in Issued' : q.run = run' => ~Write(q)
    <3>1. CASE \E ruling \in Policies : EvalPolicy(ruling)
      BY <3>1, <2>2 DEF Await, Resume, EvalPolicy, RulingsInv, TypeOK
    <3>2. CASE ContinueAsNew
      BY <3>2 DEF Await, Resume, ContinueAsNew, Body
    <3>3. CASE ReceiveApproval
      BY <3>3, ApprovedPolicy DEF Await, Resume, ReceiveApproval, TypeOK
    <3>4. CASE ~Deciding
      BY <3>4, <2>1, PolicyFrame DEF RequestInv
    <3> QED
      BY <3>1, <3>2, <3>3, <3>4 DEF Deciding
  <2>7. pc' = "gate" => ~pd'.AllowWrites
    <3>1. CASE EnterGate
      BY <3>1 DEF EnterGate, NeedsApproval
    <3>2. CASE ~EnterGate
      BY <3>2 DEF RequestInv, Next, Workflow, Environment, Finish, Await, Resume, vars, taskVars,
         EvalPolicy, ContinueAsNew, GetPlan, LoopEnd, BudgetExceeded, EnterCall,
         ReceiveApproval, ReceiveRejection, RecordApproval, CompleteEval,
         AttemptFails, CallTool, AttemptLost, RetryAttempt, StepOutput,
         PlanningError, StepError,
         ExecuteTool, DropRequest, SendApproval, WorkerRestart
    <3> QED
      BY <3>1, <3>2
  <2> QED
    BY <2>3, <2>4, <2>5, <2>6, <2>7 DEF RequestInv, Write
<1> QED
  BY <1>1, <1>2

(* A denied task has written nothing in its run. *)
LEMMA DeniedNext ==
    ASSUME TypeOK, RulingsInv, RequestInv, StateInv, DeniedMeansNoWrite, [Next]_vars
    PROVE  DeniedMeansNoWrite'
<1>1. CASE CallTool
  BY <1>1 DEF CallTool, taskVars, StateInv, DeniedMeansNoWrite
<1>2. CASE \E ruling \in Policies : EvalPolicy(ruling)
  BY <1>2 DEF Await, Resume, EvalPolicy, mcpVars, Issued, RequestInv, RulingsInv, TypeOK, DeniedMeansNoWrite
<1>3. CASE ReceiveRejection
  BY <1>3 DEF ReceiveRejection, Finish, Await, Resume, mcpVars, Issued, Write, RequestInv, Body,
              DeniedMeansNoWrite
<1>4. CASE ~CallTool /\ ~(\E ruling \in Policies : EvalPolicy(ruling)) /\ ~ReceiveRejection
  <2>1. Issued' \subseteq Issued
    BY <1>4, IssuedFrame
  <2>2. state' = "denied" => state = "denied" /\ run' = run
    BY <1>4 DEF Next, Workflow, Environment, Finish, Await, Resume, vars, taskVars,
         ContinueAsNew, GetPlan, LoopEnd, BudgetExceeded, EnterGate, EnterCall,
         ReceiveApproval, RecordApproval, CompleteEval,
         AttemptFails, AttemptLost, RetryAttempt, StepOutput,
         PlanningError, StepError,
         ExecuteTool, DropRequest, SendApproval, WorkerRestart
  <2> QED
    BY <2>1, <2>2 DEF DeniedMeansNoWrite, Write
<1> QED
  BY <1>1, <1>2, <1>3, <1>4

(* The eval_runs row repeats the status of a finished task. *)
LEMMA EvalNext ==
    ASSUME TypeOK, StateInv, EvalRowTruthful, [Next]_vars
    PROVE  EvalRowTruthful'
<1> USE DEF TypeOK, EvalRow, NoRow, StateInv, EvalRowTruthful
<1>1. CASE \E ruling \in Policies : EvalPolicy(ruling)
  BY <1>1 DEF Await, Resume, EvalPolicy, UpsertStart, taskVars
<1>2. CASE RecordApproval \/ CallTool
  BY <1>2 DEF RecordApproval, CallTool, IncApprovals, IncToolCalls, Await, taskVars
<1>3. CASE CompleteEval
  BY <1>3 DEF Await, Resume, CompleteEval, Complete, Resume, taskVars
<1>4. CASE AttemptFails
  <2>1. \/ eval' = eval
        \/ eval'.status = eval.status
        \/ pc = "complete" /\ eval'.status \in {eval.status, state}
    BY <1>4 DEF AttemptFails, LeftBehind, UpsertStart, IncApprovals, Complete
  <2> QED
    BY <1>4, <2>1 DEF AttemptFails, taskVars
<1>5. CASE /\ ~(\E ruling \in Policies : EvalPolicy(ruling)) /\ ~AttemptFails
           /\ ~RecordApproval /\ ~CallTool /\ ~CompleteEval
  BY <1>5 DEF Next, Workflow, Environment, Finish, Await, Resume, vars, taskVars,
         ContinueAsNew, GetPlan, LoopEnd, BudgetExceeded, EnterGate, EnterCall,
         ReceiveApproval, ReceiveRejection, AttemptLost,
         RetryAttempt, StepOutput, PlanningError, StepError,
         ExecuteTool, DropRequest, SendApproval, WorkerRestart
<1> QED
  BY <1>1, <1>2, <1>3, <1>4, <1>5

(* What was dealt with stays so while the run and its plan last. *)
LEMMA DealtFrame ==
    ASSUME [Next]_vars, ~ContinueAsNew, ~(\E p \in Plans : GetPlan(p)),
           NEW i, Dealt(i)
    PROVE  Dealt(i)' /\ plan' = plan
<1>1. UNCHANGED <<run, plan>> /\ effects \subseteq effects' /\ errs \subseteq errs'
  BY DEF Next, Workflow, Environment, Finish, Await, Resume, vars, taskVars, mcpVars,
         EvalPolicy, LoopEnd, BudgetExceeded, EnterGate, EnterCall, ReceiveApproval, ReceiveRejection,
         RecordApproval, CompleteEval, AttemptFails, CallTool, AttemptLost,
         RetryAttempt, StepOutput, PlanningError, StepError,
         ExecuteTool, DropRequest, SendApproval, WorkerRestart
<1> QED
  BY <1>1 DEF Dealt

(* Steps are dealt with in order, and all of them before completion. *)
LEMMA ProgressNext ==
    ASSUME TypeOK, StateInv, ProgressInv, CompletedMeansExecuted, [Next]_vars
    PROVE  ProgressInv' /\ CompletedMeansExecuted'
<1> DEFINE AllDealt == state = "completed" => \A i \in 1..Len(plan) : Dealt(i)
<1>0. AllDealt /\ (AllDealt' => CompletedMeansExecuted') /\ Len(plan) \in Nat
  BY DEF CompletedMeansExecuted, Dealt, TypeOK, Plan
<1> SUFFICES ProgressInv' /\ AllDealt'
  BY <1>0
<1> USE DEF ProgressInv, TypeOK
<1>1. CASE \E p \in Plans : GetPlan(p)
  BY <1>1 DEF Await, Resume, GetPlan, StateInv
<1>2. CASE ContinueAsNew
  BY <1>2 DEF Await, Resume, ContinueAsNew
<1>3. CASE ~(\E p \in Plans : GetPlan(p)) /\ ~ContinueAsNew
  <2>0. \A i : Dealt(i) => Dealt(i)' /\ plan' = plan
    BY <1>3, DealtFrame
  <2>1. CASE LoopEnd
    BY <2>0, <2>1 DEF LoopEnd, Finish, Await, Resume
  <2>2. CASE EnterGate \/ EnterCall
    <3>1. pc = "loop" /\ toolCalls' = toolCalls + 1 /\ pc' \in {"gate", "call"}
          /\ toolCalls \in Nat /\ state' # "completed"
      BY <2>2, <1>0 DEF Await, Resume, EnterGate, EnterCall, StateInv
    <3>2. \A i \in 1..toolCalls' : i < toolCalls' => i \in 1..toolCalls
      BY <3>1
    <3> QED
      BY <2>0, <3>1, <3>2
  <2>3. CASE StepOutput
    <3>1. /\ pc = "call" /\ pc' = "loop" /\ state' # "completed"
          /\ UNCHANGED <<run, toolCalls, effects>> /\ Answered /\ toolCalls \in Nat
      BY <2>3, <1>0 DEF Await, Resume, StepOutput, mcpVars, StateInv
    <3>2. Dealt(toolCalls)'
      BY <3>1 DEF Answered, Dealt
    <3>3. \A i \in 1..toolCalls : i < toolCalls \/ i = toolCalls
      BY <3>1
    <3> QED
      BY <2>0, <3>1, <3>2, <3>3
  <2>4. CASE StepError
    <3>1. CASE StopsWorkflow(Step)
      BY <2>4, <3>1 DEF StepError, Finish, Await, Resume
    <3>2. CASE ~StopsWorkflow(Step)
      <4>1. /\ pc = "call" /\ pc' = "loop" /\ state' # "completed"
            /\ UNCHANGED <<run, plan, toolCalls>> /\ toolCalls \in Nat
            /\ errs' = errs \cup {toolCalls}
        BY <2>4, <3>2, <1>0 DEF Await, Resume, StepError, StateInv
      <4>2. Dealt(toolCalls)'
        BY <4>1, <3>2 DEF Dealt, StopsWorkflow, Step
      <4>3. \A i \in 1..toolCalls : i < toolCalls \/ i = toolCalls
        BY <4>1
      <4> QED
        BY <2>0, <4>1, <4>2, <4>3
    <3> QED
      BY <3>1, <3>2
  <2>5. CASE BudgetExceeded
    BY <2>5 DEF BudgetExceeded
  <2>6. CASE /\ ~LoopEnd /\ ~EnterGate /\ ~EnterCall /\ ~StepOutput /\ ~StepError
             /\ ~BudgetExceeded
    <3>1. /\ UNCHANGED <<plan, toolCalls>>
          /\ pc' = "loop" => pc = "loop"
          /\ pc' \in {"gate", "record", "call"} => pc \in {"gate", "record", "call"}
          /\ state' = "completed" => state = "completed"
      BY <1>3, <2>6 DEF Next, Workflow, Environment, Finish, Await, Resume, vars, taskVars,
         EvalPolicy, ReceiveApproval, ReceiveRejection,
         RecordApproval, CompleteEval, AttemptFails, CallTool, AttemptLost,
         RetryAttempt, PlanningError,
         ExecuteTool, DropRequest, SendApproval, WorkerRestart
    <3> QED
      BY <1>0, <2>0, <3>1
  <2> QED
    BY <2>1, <2>2, <2>3, <2>4, <2>5, <2>6
<1> QED
  BY <1>1, <1>2, <1>3

-----------------------------------------------------------------------------
(* IInv is inductive. *)
LEMMA IInvInit == Init => IInv
  BY TypeInit
  DEF Init, IInv, RulingsInv, PolicyInv, RequestInv, StateInv, BudgetInv, ProgressInv,
      CallsAuthorised, BudgetRespected, DeniedMeansNoWrite, CompletedMeansExecuted,
      EvalRowTruthful, Issued, Body, NoRow

LEMMA IInvNext == IInv /\ [Next]_vars => IInv'
  BY TypeNext, StateNext, RulingsNext, PolicyNext, BudgetNext, RequestsNext,
     DeniedNext, EvalNext, ProgressNext
  DEF IInv

(* IncidentWorkflow with its activities, retries, late requests, approvals *)
(* and new runs keeps the inductive invariant, whatever the policies, the  *)
(* plans, the catalogs and the bounds.                                     *)
THEOREM Inductive == Spec => []IInv
  BY IInvInit, IInvNext, PTL DEF Spec

(* Every tool request is covered by its own run's policy decision or by an *)
(* approval consumed in that run (CallTool's checks and the write gate).   *)
THEOREM CallsAreAuthorised == Spec => []CallsAuthorised
<1>1. IInv => CallsAuthorised
  BY DEF IInv
<1> QED
  BY <1>1, Inductive, PTL

(* No run calls tools for steps beyond its MaxToolCalls. *)
THEOREM BudgetIsRespected == Spec => []BudgetRespected
<1>1. IInv => BudgetRespected
  BY DEF IInv
<1> QED
  BY <1>1, Inductive, PTL

(* A denied or rejected task has issued no write in its run. *)
THEOREM DeniedTasksDoNotWrite == Spec => []DeniedMeansNoWrite
<1>1. IInv => DeniedMeansNoWrite
  BY DEF IInv
<1> QED
  BY <1>1, Inductive, PTL

(* A completed task executed every StopOnErr step. *)
THEOREM CompletedTasksExecuted == Spec => []CompletedMeansExecuted
<1>1. IInv => CompletedMeansExecuted
  BY DEF IInv
<1> QED
  BY <1>1, Inductive, PTL

(* The eval_runs row never shows an outcome the task does not have. *)
THEOREM EvalRowIsTruthful == Spec => []EvalRowTruthful
<1>1. IInv => EvalRowTruthful
  BY DEF IInv
<1> QED
  BY <1>1, Inductive, PTL

-----------------------------------------------------------------------------
(* The workflow implements the lifecycle its clients rely on. *)

(* finalResult is set together with the final status, and only then. *)
LEMMA ResultNext == StateInv /\ ResultInv /\ [Next]_vars => ResultInv'
<1> SUFFICES ASSUME StateInv, ResultInv, [Next]_vars PROVE ResultInv'
  OBVIOUS
<1>1. CASE UNCHANGED <<state, result>>
  BY <1>1 DEF ResultInv
<1>2. CASE \/ \E ruling \in Policies : EvalPolicy(ruling)
           \/ PlanningError \/ LoopEnd \/ BudgetExceeded \/ ContinueAsNew \/ EnterGate
           \/ ReceiveRejection \/ RecordApproval \/ StepError
  BY <1>2 DEF StateInv, ResultInv, EvalPolicy, PlanningError, LoopEnd, BudgetExceeded, ContinueAsNew,
     EnterGate, ReceiveRejection, RecordApproval, StepError, Finish, Await, Resume
<1> QED
  BY <1>1, <1>2 DEF Next, Workflow, Environment, vars, taskVars, GetPlan, EnterCall, ReceiveApproval, CompleteEval, AttemptFails, CallTool,
     AttemptLost, RetryAttempt, StepOutput, ExecuteTool,
     DropRequest, SendApproval, WorkerRestart

LifeInv == TypeOK /\ StateInv /\ ResultInv

LEMMA LifeInvariant == Spec => []LifeInv
<1>1. Init => LifeInv
  BY TypeInit DEF Init, LifeInv, StateInv, ResultInv
<1>2. LifeInv /\ [Next]_vars => LifeInv'
  BY TypeNext, StateNext, ResultNext DEF LifeInv
<1> QED
  BY <1>1, <1>2, PTL DEF Spec

(* What the clients see of the task, as TaskLives puts it. *)
Now == [ run |-> run, status |-> state, result |-> result, outcome |-> Outcome ]

(* The steps of a task whose function is at work. *)
LEMMA WorkingSteps ==
    ASSUME Outcome = "open", state \in {"running", "needs_approval"}, result = "empty",
           Outcome' = "open",
           \/ /\ run' = run /\ state' \in {"running", "needs_approval"}
              /\ result' = result
           \/ /\ run' = run /\ state' = "failed" /\ result' = result
           \/ /\ run' = run /\ state' = "completed" /\ result' = "completed"
           \/ /\ run' = run /\ state' = "denied" /\ result' \in {"denied", "rejected"}
    PROVE  Life!Next
<1>1. Life!Moved(Now) \cup Life!Ended(Now) \subseteq Life!Successors(Now)
  <2>1. Now.outcome = "open" /\ Now.status \notin Life!Final /\ Now.status # "failed"
    BY DEF Now, Life!Final
  <2> QED
    BY <2>1 DEF Life!Successors
<1>7. Now' \in Life!Successors(Now) => Life!Next
  BY DEF Life!Next, Now
<1>2. CASE run' = run /\ state' \in {"running", "needs_approval"} /\ result' = result
  <2>1. Now' \in Life!Moved(Now)
    BY <1>2 DEF Now, Life!Moved
  <2> QED
    BY <2>1, <1>1, <1>7
<1>3. CASE run' = run /\ state' = "failed" /\ result' = result
  <2>1. Now' = Life!Ending(Now, "failed", result)
    BY <1>3 DEF Now, Life!Ending
  <2>2. Now' \in Life!Ended(Now)
    BY <1>3, <2>1 DEF Life!Ended, Now
  <2> QED
    BY <2>2, <1>1, <1>7
<1>4. CASE run' = run /\ state' = "completed" /\ result' = "completed"
  <2>1. Now' = Life!Ending(Now, "completed", "completed")
    BY <1>4 DEF Now, Life!Ending
  <2>2. Now' \in Life!Ended(Now)
    BY <1>4, <2>1 DEF Life!Ended, Now
  <2> QED
    BY <2>2, <1>1, <1>7
<1>5. CASE run' = run /\ state' = "denied" /\ result' \in {"denied", "rejected"}
  <2>1. Now' = Life!Ending(Now, "denied", result')
    BY <1>5 DEF Now, Life!Ending
  <2>2. Now' \in Life!Ended(Now)
    BY <1>5, <2>1 DEF Life!Ended, Now
  <2> QED
    BY <2>2, <1>1, <1>7
<1> QED
  BY <1>2, <1>3, <1>4, <1>5

(* A task that failed over its budget is tried again in a fresh run. *)
LEMMA RenewalStep == LifeInv /\ ContinueAsNew => Life!Next
<1> SUFFICES ASSUME LifeInv, ContinueAsNew PROVE Life!Next
  OBVIOUS
<1>1. /\ pc = "renew" /\ pc' = "policy" /\ run' = run + 1
      /\ state' = "running" /\ result' = "empty"
  BY DEF ContinueAsNew, Await
<1>2. state = "failed" /\ Outcome = "open" /\ Outcome' = "open"
  BY <1>1 DEF LifeInv, StateInv, Outcome
<1>3. Now' \in Life!Renewed(Now)
  BY <1>1, <1>2 DEF Now, Life!Renewed, Life!Fresh
<1> QED
  BY <1>2, <1>3 DEF Life!Next, Life!Successors, Now

(* CompleteEval's return is the workflow's: with the result it told. *)
LEMMA ReturnStep == LifeInv /\ CompleteEval => Life!Next
<1> SUFFICES ASSUME LifeInv, CompleteEval PROVE Life!Next
  OBVIOUS
<1>1. /\ pc = "complete" /\ pc' = "closed"
      /\ UNCHANGED <<run, state, result>>
  BY DEF Await, Resume, CompleteEval, taskVars
<1>2. state \in Life!Final /\ Outcome = "open"
  BY <1>1 DEF LifeInv, StateInv, Life!Final, Outcome
<1>3. Outcome' = IF result = "empty" THEN "error" ELSE result
  BY <1>1 DEF Outcome
<1>4. Outcome' \in Life!Outcomes(Now)
  BY <1>2, <1>3 DEF LifeInv, ResultInv, Life!Outcomes, Life!Final, Now
<1>5. Now' \in Life!Closed(Now)
  BY <1>1, <1>4 DEF Now, Life!Closed
<1> QED
  BY <1>2, <1>5 DEF Life!Next, Life!Successors, Now

(* Each step of the workflow is a step of the lifecycle or none. *)
LEMMA LifeStep == LifeInv /\ [Next]_vars => [Life!Next]_Now
<1> SUFFICES ASSUME LifeInv, [Next]_vars PROVE Life!Next \/ Now' = Now
  BY DEF Now
<1>1. CASE UNCHANGED <<run, state, result>> /\ (pc' = "closed" <=> pc = "closed")
  BY <1>1 DEF Now, Outcome
<1>2. CASE CompleteEval
  BY <1>2, ReturnStep
<1>3. CASE \/ \E ruling \in Policies : EvalPolicy(ruling)
           \/ PlanningError \/ LoopEnd \/ BudgetExceeded \/ EnterGate
           \/ ReceiveRejection \/ RecordApproval \/ StepError
  <2>1. pc # "closed" /\ pc' # "closed"
    BY <1>3 DEF EvalPolicy, PlanningError, LoopEnd, BudgetExceeded,
       EnterGate, ReceiveRejection, RecordApproval, StepError, Finish, Await, Resume
  <2>2. Outcome = "open" /\ Outcome' = "open"
    BY <2>1 DEF Outcome
  <2>3. pc \notin {"complete", "renew"}
    BY <1>3 DEF Await, Resume, EvalPolicy, PlanningError, LoopEnd, BudgetExceeded,
       EnterGate, ReceiveRejection, RecordApproval, StepError
  <2>4. state \in {"running", "needs_approval"} /\ result = "empty"
    BY <2>1, <2>3 DEF LifeInv, TypeOK, PC, StateInv, ResultInv
  <2>5. \/ /\ run' = run /\ state' \in {"running", "needs_approval"}
           /\ result' = result
        \/ /\ run' = run /\ state' = "failed" /\ result' = "empty"
        \/ /\ run' = run /\ state' = "completed" /\ result' = "completed"
        \/ /\ run' = run /\ state' = "denied" /\ result' \in {"denied", "rejected"}
    BY <1>3, <2>4 DEF EvalPolicy, PlanningError, LoopEnd, BudgetExceeded,
       EnterGate, ReceiveRejection, RecordApproval, StepError, Finish, Await, Resume
  <2> QED
    BY <2>2, <2>4, <2>5, WorkingSteps
<1>4. CASE ContinueAsNew
  BY <1>4, RenewalStep
<1> QED
  BY <1>1, <1>2, <1>3, <1>4 DEF Await, Resume, Next, Workflow, Environment, vars, taskVars,
     GetPlan, EnterCall, ReceiveApproval, AttemptFails, CallTool,
     AttemptLost, RetryAttempt, StepOutput, ExecuteTool,
     DropRequest, SendApproval, WorkerRestart

(* IncidentWorkflow implements TaskLifecycle: what the query handlers and  *)
(* the outcome tell a client moves as the lifecycle says, whatever the     *)
(* agents answer and however often activities are repeated or given up.    *)
THEOREM LifecycleIsImplemented == Spec => ImplementsLifecycle
<1>1. Init => Life!Init
  BY DEF Init, Life!Init, Life!Fresh, Outcome
<1>2. LifeInv /\ [Next]_vars => [Life!Next]_Now
  BY LifeStep
<1> QED
  BY LifeInvariant, <1>1, <1>2, PTL DEF Spec, ImplementsLifecycle, Life!Spec, Now

=============================================================================
