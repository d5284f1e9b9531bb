---------------------- MODULE IterativeWorkflow_proofs ----------------------
(***************************************************************************)
(* Proofs that IterativeWorkflow keeps its safety invariants for all sets  *)
(* of policies and plans and every number of iterations, attempts and      *)
(* approval signals.                                                       *)
(***************************************************************************)
EXTENDS IterativeWorkflow, SequenceTheorems, TLAPS

(* The state and the result of a task that has not ended say nothing, and  *)
(* only a failed plan is followed by another iteration.                    *)
StateInv ==
    /\ state \in {"denied", "failed"} => pc = "closed"
    /\ result # "empty" => pc = "closed"
    /\ pc = "between" => ~succeeded /\ iteration < MaxIterations
    /\ answered => pc = "call"

(* Effects and approvals lie at places the workflow has passed. *)
PlacesInv ==
    /\ pc = "policy" => effects = {} /\ approvals = {}
    /\ \A e \in effects :
          /\ e.iteration <= iteration
          /\ e.iteration = iteration => pc # "plan" /\ e.idx <= idx
    /\ \A a \in approvals :
          /\ a.iteration <= iteration
          /\ a.iteration = iteration => pc # "plan" /\ a.idx <= idx

(* The workflow's policy allows writes only as the rule agent's did or     *)
(* after an approval, and nothing is written before.                       *)
PolicyInv ==
    /\ pd.AllowWrites => ruling.AllowWrites \/ approvals # {}
    /\ pc = "call" /\ "write" \in plan[idx].Tags => pd.AllowWrites
    /\ pc = "gate" => ~pd.AllowWrites
    /\ ~pd.AllowWrites => \A e \in effects : "write" \notin e.step.Tags

Did(i) == [iteration |-> iteration, idx |-> i, step |-> plan[i]] \in effects

Failed(i) == \E k \in evidence : k.iteration = i /\ k.kind = "step_error"

(* As long as no step has failed, the steps up to the current one are      *)
(* executed; a failed step is in the evidence.                             *)
ProgressInv ==
    /\ pc = "loop" /\ succeeded => \A i \in 1..idx : Did(i)
    /\ pc \in {"gate", "call"} /\ succeeded => \A i \in 1..(idx - 1) : Did(i)
    /\ pc = "call" /\ answered => Did(idx)
    /\ pc \in {"loop", "gate", "call", "between"} /\ ~succeeded => Failed(iteration)

(* The inductive invariant. *)
IInv ==
    /\ TypeOK
    /\ StateInv
    /\ PlacesInv
    /\ PolicyInv
    /\ ProgressInv
    /\ WritesApproved
    /\ DeniedMeansNoWrite
    /\ OutcomeIsTrue
    /\ RepeatsHaveReasons
    /\ EvidenceCoversEffects

-----------------------------------------------------------------------------
(* The updates of the eval_runs row keep its type. *)
LEMMA EvalRowUpdates ==
    ASSUME NEW row \in EvalRow
    PROVE  UpsertStart(row) \in EvalRow /\ IncToolCalls(row) \in EvalRow
<1>1. UpsertStart(row) \in EvalRow
  BY DEF EvalRow, NoRow, States, UpsertStart
<1>2. IncToolCalls(row) \in EvalRow
  BY DEF EvalRow, IncToolCalls
<1> QED
  BY <1>1, <1>2

(* Reading an approval signal leaves a queue of approval signals. *)
LEMMA TailOfSignals ==
    ASSUME signals \in Seq(BOOLEAN), signals # <<>>
    PROVE  Tail(signals) \in Seq(BOOLEAN)
  BY HeadTailProperties

(* An approval changes the write permission and nothing else. *)
LEMMA Approving ==
    ASSUME NEW p \in PolicyDecision
    PROVE  /\ [p EXCEPT !.AllowWrites = TRUE] \in PolicyDecision
           /\ [p EXCEPT !.AllowWrites = TRUE].AllowWrites
  BY DEF PolicyDecision

(* An activity that ends leaves no attempts behind. *)
LEMMA EndTypes ==
    ASSUME ActivityEnds
    PROVE  attempt' \in 0..MaxAttempts /\ answered' \in BOOLEAN
<1>1. attempt' \in 0..MaxAttempts
  BY IterativeAssumption DEF ActivityEnds
<1>2. answered' \in BOOLEAN
  BY DEF ActivityEnds
<1> QED
  BY <1>1, <1>2

(* What the initial states satisfy. *)
LEMMA TypeInit == Init => TypeOK
<1> SUFFICES ASSUME Init PROVE TypeOK
  OBVIOUS
<1>1. 0 \in 0..MaxIterations /\ 0 \in 0..MaxAttempts /\ 0 \in 0..MaxSignals
  BY IterativeAssumption
<1>2. succeeded \in BOOLEAN /\ answered \in BOOLEAN
  BY DEF Init
<1>3. pd \in PolicyDecision /\ ruling \in PolicyDecision
  BY DEF Init, PolicyDecision, NoPolicy
<1>4. eval \in EvalRow /\ state \in States
  BY DEF Init, EvalRow, NoRow, States
<1>5. signals \in Seq(BOOLEAN)
  BY DEF Init
<1>6. plan \in Plan /\ idx \in 0..Len(plan)
  BY DEF Init, Plan
<1> QED
  BY <1>1, <1>2, <1>3, <1>4, <1>5, <1>6 DEF Init, TypeOK, PC

(* Every step keeps the types: one case per action. *)
LEMMA TypeNext ==
    ASSUME TypeOK, StateInv, [Next]_vars
    PROVE  TypeOK'
<1> USE IterativeAssumption DEF PC, Plan, States, actVars, signalVars, outcome, history
<1>1. CASE \E decision \in Policies : EvalPolicy(decision)
  <2>1. PICK decision \in Policies : EvalPolicy(decision)
    BY <1>1
  <2>2. decision \in PolicyDecision /\ eval' \in EvalRow
    BY <2>1, EvalRowUpdates DEF TypeOK, EvalPolicy
  <2>3. iteration' \in 0..MaxIterations /\ pc' \in PC /\ (pc' = "plan" => iteration' > 0)
    BY <2>1 DEF TypeOK, EvalPolicy, Return
  <2>4. pc' \in {"plan", "closed"} /\ state' \in States
    BY <2>1 DEF TypeOK, EvalPolicy, Return
  <2>5. result' \in {"empty", "denied", "rejected", "completed", "completed_with_retries"}
    BY <2>1 DEF TypeOK, EvalPolicy, Return
  <2>6. attempt' \in 0..MaxAttempts /\ answered' \in BOOLEAN
    BY <2>1, EndTypes DEF EvalPolicy
  <2> QED
    BY <2>1, <2>2, <2>3, <2>4, <2>5, <2>6 DEF TypeOK, EvalPolicy
<1>2. CASE \E p \in Plans : GetPlan(p)
  <2>1. succeeded' \in BOOLEAN
    BY <1>2 DEF GetPlan
  <2>2. attempt' \in 0..MaxAttempts /\ answered' \in BOOLEAN
    BY <1>2, EndTypes DEF GetPlan
  <2> QED
    BY <1>2, <2>1, <2>2 DEF TypeOK, GetPlan
<1>3. CASE EnterGate
  BY <1>3 DEF TypeOK, EnterGate
<1>4. CASE EnterCall
  <2>1. idx' \in 0..Len(plan) /\ idx' > 0
    BY <1>4 DEF TypeOK, EnterCall
  <2>2. answered' \in BOOLEAN
    BY <1>4 DEF TypeOK, EnterCall
  <2> QED
    BY <1>4, <2>1, <2>2 DEF TypeOK, EnterCall
<1>5. CASE ReceiveApproval
  <2>1. /\ pc = "gate" /\ signals # <<>>
        /\ pc' = "call"
        /\ UNCHANGED <<attempt, answered, iteration, plan, idx, succeeded, evidence, state, result, nsignals,
                       effects, eval, ruling>>
    BY <1>5 DEF ReceiveApproval
  <2>2. pd' \in PolicyDecision /\ signals' \in Seq(BOOLEAN)
    BY <1>5, Approving, TailOfSignals DEF TypeOK, ReceiveApproval
  <2>3. iteration \in 1..MaxIterations /\ idx \in Nat \ {0}
    BY <2>1 DEF TypeOK
  <2>4. approvals' = approvals \cup {[iteration |-> iteration, idx |-> idx]}
    BY <1>5 DEF ReceiveApproval
  <2>5. approvals' \subseteq Place
    BY <2>3, <2>4 DEF TypeOK, Place
  <2>6. answered' \in BOOLEAN
    BY <2>1 DEF TypeOK
  <2> QED
    BY <2>1, <2>2, <2>5, <2>6 DEF TypeOK
<1>6. CASE ReceiveRejection
  BY <1>6, TailOfSignals DEF TypeOK, ReceiveRejection, Return
<1>7. CASE CallTool
  <2>1. [iteration |-> iteration, idx |-> idx, step |-> plan[idx]] \in Effect
    BY <1>7 DEF TypeOK, CallTool, Effect
  <2>2. attempt' \in 0..MaxAttempts
    BY <1>7 DEF TypeOK, CallTool, Attempts
  <2>3. answered' \in BOOLEAN
    BY <1>7 DEF TypeOK, CallTool
  <2>4. effects' \subseteq Effect /\ eval' \in EvalRow
    BY <1>7, <2>1, EvalRowUpdates DEF TypeOK, CallTool, Executed
  <2> QED
    BY <1>7, <2>2, <2>3, <2>4 DEF TypeOK, CallTool
<1>8. CASE StepResult
  <2>1. evidence' \subseteq EvidenceKey
    BY <1>8 DEF TypeOK, StepResult, Note, EvidenceKey
  <2>2. attempt' \in 0..MaxAttempts /\ answered' \in BOOLEAN
    BY <1>8, EndTypes DEF StepResult
  <2> QED
    BY <1>8, <2>1, <2>2 DEF TypeOK, StepResult
<1>9. CASE AllStepsSucceeded
  BY <1>9 DEF TypeOK, AllStepsSucceeded, Return
<1>10. CASE AwaitRefinement
  BY <1>10 DEF TypeOK, AwaitRefinement
<1>11. CASE NextIteration
  <2>1. iteration < MaxIterations
    BY <1>11 DEF StateInv, NextIteration
  <2> QED
    BY <1>11, <2>1 DEF TypeOK, NextIteration
<1>12. CASE MaxIterationsReached
  BY <1>12 DEF TypeOK, MaxIterationsReached, Return
<1>13. CASE PlanningError
  <2>1. attempt' \in 0..MaxAttempts /\ answered' \in BOOLEAN
    BY <1>13, EndTypes DEF PlanningError
  <2> QED
    BY <1>13, <2>1 DEF TypeOK, PlanningError, Return
<1>14. CASE StepError
  <2>1. evidence' \subseteq EvidenceKey
    BY <1>14 DEF TypeOK, StepError, Note, Return, EvidenceKey
  <2>2. succeeded' \in BOOLEAN
    BY <1>14 DEF TypeOK, StepError
  <2>3. attempt' \in 0..MaxAttempts /\ answered' \in BOOLEAN
    BY <1>14, EndTypes DEF StepError
  <2> QED
    BY <1>14, <2>1, <2>2, <2>3 DEF TypeOK, StepError, Return
<1>15. CASE \E value \in BOOLEAN : SendApproval(value)
  BY <1>15 DEF TypeOK, SendApproval
<1>16. CASE UNCHANGED vars
  BY <1>16 DEF TypeOK, vars
<1>17. CASE AttemptFails
  <2>1. attempt' \in 0..MaxAttempts
    BY <1>17 DEF TypeOK, AttemptFails, Attempts
  <2>2. answered' \in BOOLEAN
    BY <1>17 DEF TypeOK, AttemptFails
  <2>3. eval' \in EvalRow
    BY <1>17, EvalRowUpdates DEF TypeOK, AttemptFails
  <2> QED
    BY <1>17, <2>1, <2>2, <2>3 DEF TypeOK, AttemptFails
<1> QED
  BY <1>1, <1>2, <1>3, <1>4, <1>5, <1>6, <1>7, <1>8,
     <1>9, <1>10, <1>11, <1>12, <1>13, <1>14, <1>15, <1>16, <1>17
  DEF Next, Workflow, Environment

(* Effects and approvals stay behind the workflow. *)
LEMMA PlacesNext ==
    ASSUME TypeOK, StateInv, PlacesInv, [Next]_vars
    PROVE  (StateInv /\ PlacesInv)'
<1> USE DEF TypeOK, StateInv, PlacesInv, Effect, Place, actVars, signalVars, outcome, history, ActivityEnds
<1>1. CASE \E decision \in Policies : EvalPolicy(decision)
  BY <1>1 DEF EvalPolicy, Return
<1>2. CASE \E p \in Plans : GetPlan(p)
  BY <1>2 DEF GetPlan
<1>3. CASE EnterGate
  BY <1>3 DEF EnterGate
<1>4. CASE EnterCall
  BY <1>4 DEF EnterCall
<1>5. CASE ReceiveApproval
  <2>1. /\ pc = "gate" /\ pc' = "call"
        /\ approvals' = approvals \cup {[iteration |-> iteration, idx |-> idx]}
        /\ UNCHANGED <<iteration, plan, idx, succeeded, state, result, effects>>
    BY <1>5 DEF ReceiveApproval
  <2> QED
    BY <2>1
<1>6. CASE ReceiveRejection
  BY <1>6 DEF ReceiveRejection, Return
<1>7. CASE CallTool
  BY <1>7 DEF CallTool, Executed, Attempts
<1>8. CASE StepResult
  BY <1>8 DEF StepResult, Note
<1>9. CASE AllStepsSucceeded
  BY <1>9 DEF AllStepsSucceeded, Return
<1>10. CASE AwaitRefinement
  BY <1>10 DEF AwaitRefinement
<1>11. CASE NextIteration
  BY <1>11 DEF NextIteration
<1>12. CASE MaxIterationsReached
  BY <1>12 DEF MaxIterationsReached, Return
<1>13. CASE PlanningError
  BY <1>13 DEF PlanningError, Return
<1>14. CASE StepError
  BY <1>14 DEF StepError, Note, Return
<1>15. CASE \E value \in BOOLEAN : SendApproval(value)
  BY <1>15 DEF SendApproval
<1>16. CASE UNCHANGED vars
  BY <1>16 DEF vars
<1>17. CASE AttemptFails
  BY <1>17 DEF AttemptFails
<1> QED
  BY <1>1, <1>2, <1>3, <1>4, <1>5, <1>6, <1>7, <1>8,
     <1>9, <1>10, <1>11, <1>12, <1>13, <1>14, <1>15, <1>16, <1>17
  DEF Next, Workflow, Environment

(* Writes follow the ruling or an approval. *)
LEMMA PolicyNext ==
    ASSUME TypeOK, PlacesInv, PolicyInv, [Next]_vars
    PROVE  PolicyInv'
<1> USE DEF TypeOK, PlacesInv, PolicyInv, NeedsApproval, actVars, signalVars, outcome, history, ActivityEnds
<1>1. CASE \E decision \in Policies : EvalPolicy(decision)
  BY <1>1 DEF EvalPolicy, Return
<1>2. CASE \E p \in Plans : GetPlan(p)
  BY <1>2 DEF GetPlan
<1>3. CASE EnterGate
  BY <1>3 DEF EnterGate
<1>4. CASE EnterCall
  BY <1>4 DEF EnterCall
<1>5. CASE ReceiveApproval
  <2>1. pd'.AllowWrites /\ [iteration |-> iteration, idx |-> idx] \in approvals'
    BY <1>5, Approving DEF ReceiveApproval
  <2>2. approvals' # {} /\ pc' = "call"
    BY <1>5, <2>1 DEF ReceiveApproval
  <2> QED
    BY <2>1, <2>2
<1>6. CASE ReceiveRejection
  BY <1>6 DEF ReceiveRejection, Return
<1>7. CASE CallTool
  <2>1. effects' = effects \/
        effects' = effects \cup {[iteration |-> iteration, idx |-> idx, step |-> plan[idx]]}
    BY <1>7 DEF CallTool, Executed
  <2>2. ~pd.AllowWrites => "write" \notin plan[idx].Tags
    BY <1>7 DEF CallTool, Executed
  <2>3. ~pd.AllowWrites => \A e \in effects' : "write" \notin e.step.Tags
    BY <2>1, <2>2
  <2> QED
    BY <1>7, <2>3 DEF CallTool
<1>8. CASE StepResult
  BY <1>8 DEF StepResult, Note
<1>9. CASE AllStepsSucceeded
  BY <1>9 DEF AllStepsSucceeded, Return
<1>10. CASE AwaitRefinement
  BY <1>10 DEF AwaitRefinement
<1>11. CASE NextIteration
  BY <1>11 DEF NextIteration
<1>12. CASE MaxIterationsReached
  BY <1>12 DEF MaxIterationsReached, Return
<1>13. CASE PlanningError
  BY <1>13 DEF PlanningError, Return
<1>14. CASE StepError
  BY <1>14 DEF StepError, Note, Return
<1>15. CASE \E value \in BOOLEAN : SendApproval(value)
  BY <1>15 DEF SendApproval
<1>16. CASE UNCHANGED vars
  BY <1>16 DEF vars
<1>17. CASE AttemptFails
  BY <1>17 DEF AttemptFails
<1> QED
  BY <1>1, <1>2, <1>3, <1>4, <1>5, <1>6, <1>7, <1>8,
     <1>9, <1>10, <1>11, <1>12, <1>13, <1>14, <1>15, <1>16, <1>17
  DEF Next, Workflow, Environment

(* Every write has its permission. *)
LEMMA WritesNext ==
    ASSUME TypeOK, StateInv, PlacesInv, PolicyInv, WritesApproved, DeniedMeansNoWrite,
           [Next]_vars
    PROVE  (WritesApproved /\ DeniedMeansNoWrite)'
<1> USE DEF TypeOK, StateInv, PlacesInv, PolicyInv, WritesApproved, DeniedMeansNoWrite, Before,
            actVars, signalVars, outcome, history, ActivityEnds
<1>1. CASE \E decision \in Policies : EvalPolicy(decision)
  BY <1>1 DEF EvalPolicy, Return
<1>2. CASE \E p \in Plans : GetPlan(p)
  BY <1>2 DEF GetPlan
<1>3. CASE EnterGate
  BY <1>3 DEF EnterGate
<1>4. CASE EnterCall
  BY <1>4 DEF EnterCall
<1>5. CASE ReceiveApproval
  <2>1. approvals \subseteq approvals' /\ UNCHANGED <<effects, ruling, state>>
    BY <1>5 DEF ReceiveApproval
  <2> QED
    BY <2>1, <1>5 DEF ReceiveApproval
<1>6. CASE ReceiveRejection
  BY <1>6 DEF ReceiveRejection, Return
<1>7. CASE CallTool
  <2>1. effects' = effects \/
        effects' = effects \cup {[iteration |-> iteration, idx |-> idx, step |-> plan[idx]]}
    BY <1>7 DEF CallTool, Executed
  <2>2. pc = "call" /\ UNCHANGED <<pc, state, ruling, approvals>>
    BY <1>7 DEF CallTool, Executed
  <2> DEFINE new == [iteration |-> iteration, idx |-> idx, step |-> plan[idx]]
  <2>3. ASSUME "write" \in new.step.Tags, ~ruling.AllowWrites
        PROVE  \E a \in approvals' : Before(a, new)
    <3>1. approvals # {}
      BY <2>2, <2>3
    <3>2. PICK a \in approvals : TRUE
      BY <3>1
    <3>3. a.iteration \in Nat /\ a.idx \in Nat /\ iteration \in Nat /\ idx \in Nat
      BY <3>2 DEF Place
    <3>4. a.iteration < iteration \/ (a.iteration = iteration /\ a.idx <= idx)
      BY <3>2, <3>3
    <3> QED
      BY <2>2, <3>2, <3>4
  <2> HIDE DEF new, Before
  <2>4. WritesApproved'
    BY <2>1, <2>2, <2>3 DEF new
  <2>5. DeniedMeansNoWrite'
    BY <2>2
  <2> QED
    BY <2>4, <2>5
<1>8. CASE StepResult
  BY <1>8 DEF StepResult, Note
<1>9. CASE AllStepsSucceeded
  BY <1>9 DEF AllStepsSucceeded, Return
<1>10. CASE AwaitRefinement
  BY <1>10 DEF AwaitRefinement
<1>11. CASE NextIteration
  BY <1>11 DEF NextIteration
<1>12. CASE MaxIterationsReached
  BY <1>12 DEF MaxIterationsReached, Return
<1>13. CASE PlanningError
  BY <1>13 DEF PlanningError, Return
<1>14. CASE StepError
  BY <1>14 DEF StepError, Note, Return
<1>15. CASE \E value \in BOOLEAN : SendApproval(value)
  BY <1>15 DEF SendApproval
<1>16. CASE UNCHANGED vars
  BY <1>16 DEF vars
<1>17. CASE AttemptFails
  BY <1>17 DEF AttemptFails
<1> QED
  BY <1>1, <1>2, <1>3, <1>4, <1>5, <1>6, <1>7, <1>8,
     <1>9, <1>10, <1>11, <1>12, <1>13, <1>14, <1>15, <1>16, <1>17
  DEF Next, Workflow, Environment

(* What is executed and what has failed is known. *)
LEMMA ProgressNext ==
    ASSUME TypeOK, StateInv, ProgressInv, [Next]_vars
    PROVE  ProgressInv'
<1> USE DEF TypeOK, ProgressInv, Did, Failed, actVars, signalVars, outcome, history, ActivityEnds
<1>1. CASE \E decision \in Policies : EvalPolicy(decision)
  BY <1>1 DEF EvalPolicy, Return
<1>2. CASE \E p \in Plans : GetPlan(p)
  BY <1>2 DEF GetPlan
<1>3. CASE EnterGate
  BY <1>3 DEF EnterGate
<1>4. CASE EnterCall
  BY <1>4 DEF StateInv, EnterCall
<1>5. CASE ReceiveApproval
  BY <1>5 DEF StateInv, ReceiveApproval
<1>6. CASE ReceiveRejection
  BY <1>6 DEF ReceiveRejection, Return
<1>7. CASE CallTool
  <2>1. /\ pc = "call" /\ effects \subseteq effects'
        /\ UNCHANGED <<pc, iteration, plan, idx, succeeded, evidence>>
    BY <1>7 DEF CallTool, Executed
  <2>2. answered' => Did(idx)'
    BY <1>7, <2>1 DEF CallTool, Executed, Attempts
  <2> QED
    BY <2>1, <2>2
<1>8. CASE StepResult
  <2>1. /\ pc = "call" /\ answered /\ pc' = "loop" /\ ~answered'
        /\ UNCHANGED <<iteration, plan, idx, succeeded, effects>>
        /\ evidence \subseteq evidence'
    BY <1>8 DEF StepResult, Note
  <2>2. succeeded => \A i \in 1..(idx - 1) : Did(i)
    BY <2>1
  <2>3. Did(idx)
    BY <2>1
  <2>4. succeeded => \A i \in 1..idx : Did(i)
    BY <2>2, <2>3
  <2>5. ~succeeded => Failed(iteration)
    BY <2>1
  <2> QED
    BY <2>1, <2>4, <2>5
<1>9. CASE AllStepsSucceeded
  BY <1>9 DEF AllStepsSucceeded, Return
<1>10. CASE AwaitRefinement
  BY <1>10 DEF AwaitRefinement
<1>11. CASE NextIteration
  BY <1>11 DEF NextIteration
<1>12. CASE MaxIterationsReached
  BY <1>12 DEF MaxIterationsReached, Return
<1>13. CASE PlanningError
  BY <1>13 DEF PlanningError, Return
<1>14. CASE StepError
  <2>1. CASE plan[idx].StopOnErr
    BY <1>14, <2>1 DEF StepError, Return
  <2>2. CASE ~plan[idx].StopOnErr
    <3>1. /\ pc' = "loop" /\ succeeded' = FALSE /\ iteration' = iteration
          /\ evidence' = evidence \cup
                 {[iteration |-> iteration, idx |-> idx, kind |-> "step_error"]}
      BY <1>14, <2>2 DEF StepError, Note
    <3>2. [iteration |-> iteration, idx |-> idx, kind |-> "step_error"] \in evidence'
      BY <3>1
    <3>3. Failed(iteration)'
      BY <3>1, <3>2
    <3> QED
      BY <3>1, <3>3
  <2> QED
    BY <2>1, <2>2
<1>15. CASE \E value \in BOOLEAN : SendApproval(value)
  BY <1>15 DEF SendApproval
<1>16. CASE UNCHANGED vars
  BY <1>16 DEF vars
<1>17. CASE AttemptFails
  BY <1>17 DEF AttemptFails
<1> QED
  BY <1>1, <1>2, <1>3, <1>4, <1>5, <1>6, <1>7, <1>8,
     <1>9, <1>10, <1>11, <1>12, <1>13, <1>14, <1>15, <1>16, <1>17
  DEF Next, Workflow, Environment

(* The result tells the truth, and iterations have reasons. *)
LEMMA OutcomeNext ==
    ASSUME TypeOK, StateInv, ProgressInv, OutcomeIsTrue, RepeatsHaveReasons, [Next]_vars
    PROVE  (OutcomeIsTrue /\ RepeatsHaveReasons)'
<1> USE DEF TypeOK, StateInv, ProgressInv, Did, Failed, OutcomeIsTrue, RepeatsHaveReasons,
            actVars, signalVars, outcome, history, ActivityEnds
<1>1. CASE \E decision \in Policies : EvalPolicy(decision)
  BY <1>1 DEF EvalPolicy, Return
<1>2. CASE \E p \in Plans : GetPlan(p)
  BY <1>2 DEF GetPlan
<1>3. CASE EnterGate
  BY <1>3 DEF EnterGate
<1>4. CASE EnterCall
  BY <1>4 DEF EnterCall
<1>5. CASE ReceiveApproval
  BY <1>5 DEF ReceiveApproval
<1>6. CASE ReceiveRejection
  BY <1>6 DEF ReceiveRejection, Return
<1>7. CASE CallTool
  BY <1>7 DEF CallTool, Executed, Attempts
<1>8. CASE StepResult
  BY <1>8 DEF StepResult, Note
<1>9. CASE AllStepsSucceeded
  BY <1>9 DEF AllStepsSucceeded, Return
<1>10. CASE AwaitRefinement
  BY <1>10 DEF AwaitRefinement
<1>11. CASE NextIteration
  BY <1>11 DEF NextIteration
<1>12. CASE MaxIterationsReached
  BY <1>12 DEF MaxIterationsReached, Return
<1>13. CASE PlanningError
  BY <1>13 DEF PlanningError, Return
<1>14. CASE StepError
  BY <1>14 DEF StepError, Note, Return
<1>15. CASE \E value \in BOOLEAN : SendApproval(value)
  BY <1>15 DEF SendApproval
<1>16. CASE UNCHANGED vars
  BY <1>16 DEF vars
<1>17. CASE AttemptFails
  BY <1>17 DEF AttemptFails
<1> QED
  BY <1>1, <1>2, <1>3, <1>4, <1>5, <1>6, <1>7, <1>8,
     <1>9, <1>10, <1>11, <1>12, <1>13, <1>14, <1>15, <1>16, <1>17
  DEF Next, Workflow, Environment

(* The evidence keeps up with the effects. *)
LEMMA EvidenceNext ==
    ASSUME TypeOK, StateInv, PlacesInv, EvidenceCoversEffects, [Next]_vars
    PROVE  EvidenceCoversEffects'
<1> USE DEF TypeOK, StateInv, PlacesInv, EvidenceCoversEffects, actVars, signalVars, outcome,
            history, ActivityEnds
<1>1. CASE \E decision \in Policies : EvalPolicy(decision)
  BY <1>1 DEF EvalPolicy, Return
<1>2. CASE \E p \in Plans : GetPlan(p)
  BY <1>2 DEF GetPlan
<1>3. CASE EnterGate
  BY <1>3 DEF EnterGate
<1>4. CASE EnterCall
  BY <1>4 DEF EnterCall
<1>5. CASE ReceiveApproval
  BY <1>5 DEF ReceiveApproval
<1>6. CASE ReceiveRejection
  BY <1>6 DEF ReceiveRejection, Return
<1>7. CASE CallTool
  BY <1>7 DEF CallTool, Executed, Attempts
<1>8. CASE StepResult
  BY <1>8 DEF StepResult, Note
<1>9. CASE AllStepsSucceeded
  BY <1>9 DEF AllStepsSucceeded, Return
<1>10. CASE AwaitRefinement
  BY <1>10 DEF AwaitRefinement
<1>11. CASE NextIteration
  BY <1>11 DEF NextIteration
<1>12. CASE MaxIterationsReached
  BY <1>12 DEF MaxIterationsReached, Return
<1>13. CASE PlanningError
  BY <1>13 DEF PlanningError, Return
<1>14. CASE StepError
  BY <1>14 DEF StepError, Note, Return
<1>15. CASE \E value \in BOOLEAN : SendApproval(value)
  BY <1>15 DEF SendApproval
<1>16. CASE UNCHANGED vars
  BY <1>16 DEF vars
<1>17. CASE AttemptFails
  BY <1>17 DEF AttemptFails
<1> QED
  BY <1>1, <1>2, <1>3, <1>4, <1>5, <1>6, <1>7, <1>8,
     <1>9, <1>10, <1>11, <1>12, <1>13, <1>14, <1>15, <1>16, <1>17
  DEF Next, Workflow, Environment

-----------------------------------------------------------------------------
(* The initial states satisfy the inductive invariant. *)
LEMMA InvInit == Init => IInv
<1> SUFFICES ASSUME Init PROVE IInv
  OBVIOUS
<1>1. TypeOK
  BY TypeInit
<1>2. StateInv /\ PlacesInv
  BY DEF Init, StateInv, PlacesInv
<1>3. PolicyInv /\ ProgressInv
  BY DEF Init, PolicyInv, ProgressInv, NoPolicy
<1>4. WritesApproved /\ DeniedMeansNoWrite /\ OutcomeIsTrue
  BY DEF Init, WritesApproved, DeniedMeansNoWrite, OutcomeIsTrue
<1>5. RepeatsHaveReasons /\ EvidenceCoversEffects
  BY DEF Init, RepeatsHaveReasons, EvidenceCoversEffects
<1> QED
  BY <1>1, <1>2, <1>3, <1>4, <1>5 DEF IInv

(* Every step preserves it. *)
LEMMA InvNext == IInv /\ [Next]_vars => IInv'
<1> SUFFICES ASSUME IInv, [Next]_vars PROVE IInv'
  OBVIOUS
<1> USE DEF IInv
<1>1. TypeOK'
  BY TypeNext
<1>2. StateInv' /\ PlacesInv'
  BY PlacesNext
<1>3. PolicyInv' /\ WritesApproved' /\ DeniedMeansNoWrite'
  BY PolicyNext, WritesNext
<1>4. ProgressInv' /\ OutcomeIsTrue' /\ RepeatsHaveReasons'
  BY ProgressNext, OutcomeNext
<1>5. EvidenceCoversEffects'
  BY EvidenceNext
<1> QED
  BY <1>1, <1>2, <1>3, <1>4, <1>5

(* The strengthening is an invariant of every execution. *)
THEOREM Inductive == Spec => []IInv
  BY InvInit, InvNext, PTL DEF Spec

(* Every variable keeps its type; in particular no more than MaxIterations *)
(* plans are executed.                                                     *)
THEOREM TypeCorrect == Spec => []TypeOK
<1>1. IInv => TypeOK
  BY DEF IInv
<1> QED
  BY <1>1, Inductive, PTL

(* No iteration writes without the rule agent's or a human's permission. *)
THEOREM WritesAreApproved == Spec => []WritesApproved
<1>1. IInv => WritesApproved
  BY DEF IInv
<1> QED
  BY <1>1, Inductive, PTL

(* A denied task has written nothing. *)
THEOREM DenialIsClean == Spec => []DeniedMeansNoWrite
<1>1. IInv => DeniedMeansNoWrite
  BY DEF IInv
<1> QED
  BY <1>1, Inductive, PTL

(* The two successes are told apart truthfully. *)
THEOREM OutcomesAreTrue == Spec => []OutcomeIsTrue
<1>1. IInv => OutcomeIsTrue
  BY DEF IInv
<1> QED
  BY <1>1, Inductive, PTL

(* Nothing is executed again unless something failed. *)
THEOREM RepeatsAreReasoned == Spec => []RepeatsHaveReasons
<1>1. IInv => RepeatsHaveReasons
  BY DEF IInv
<1> QED
  BY <1>1, Inductive, PTL

(* Every executed tool is in the evidence, the last one excepted. *)
THEOREM EvidenceIsComplete == Spec => []EvidenceCoversEffects
<1>1. IInv => EvidenceCoversEffects
  BY DEF IInv
<1> QED
  BY <1>1, Inductive, PTL

-----------------------------------------------------------------------------
(* The life of the task: each step is a step of TaskLifecycle or none. *)

Now == [ run |-> 1, status |-> state, result |-> FinalResult, outcome |-> Outcome ]

(* The function goes on, in a state it may be in. *)
LEMMA MovingStep ==
    ASSUME Outcome = "open", Outcome' = "open", state \in {"running", "needs_approval", "waiting_for_feedback"},
           state' \in {"running", "needs_approval", "waiting_for_feedback"},
           FinalResult' = FinalResult
    PROVE  Life!Next
<1>1. Now' \in Life!Moved(Now)
  BY DEF Now, Life!Moved
<1>2. Now.outcome = "open" /\ Now.status \notin Life!Final
  BY DEF Now, Life!Final
<1> QED
  BY <1>1, <1>2 DEF Life!Next, Life!Successors, Now

(* It returns in the step that tells how it ended. *)
LEMMA ReturnStep ==
    ASSUME Outcome = "open", state \in {"running", "needs_approval", "waiting_for_feedback"}, FinalResult = "empty",
           \/ state' = "failed" /\ FinalResult' = "empty" /\ Outcome' = "error"
           \/ /\ state' = "completed"
              /\ FinalResult' \in {"completed", "completed_with_retries"}
              /\ Outcome' = FinalResult'
           \/ /\ state' = "denied"
              /\ FinalResult' = "empty"
              /\ Outcome' \in {"denied", "rejected"}
    PROVE  Life!Next
<1> DEFINE e == Life!Ending(Now, state', FinalResult')
<1>1. /\ e.run = 1 /\ e.status = state' /\ e.result = FinalResult' /\ e.outcome = "open"
      /\ e = [ run |-> 1, status |-> state', result |-> FinalResult', outcome |-> "open" ]
  BY DEF Life!Ending, Now
<1>2. e \in Life!Ended(Now)
  <2>1. CASE state' = "failed"
    <3>1. e = Life!Ending(Now, "failed", Now.result)
      BY <2>1 DEF Now
    <3> QED
      BY <3>1 DEF Life!Ended
  <2>2. CASE state' = "completed"
    <3>1. FinalResult' \in {"completed", "completed_with_retries"}
      BY <2>2
    <3>2. e = Life!Ending(Now, "completed", FinalResult')
      BY <2>2
    <3> QED
      BY <3>1, <3>2 DEF Life!Ended
  <2>3. CASE state' = "denied"
    <3>1. FinalResult' = "empty"
      BY <2>3
    <3>2. e = Life!Ending(Now, "denied", FinalResult')
      BY <2>3
    <3> QED
      BY <3>1, <3>2 DEF Life!Ended
  <2> QED
    BY <2>1, <2>2, <2>3
<1>3. Outcome' \in Life!Outcomes(e)
  BY <1>1 DEF Life!Outcomes
<1>4. Now' = [ e EXCEPT !.outcome = Outcome' ]
  BY <1>1 DEF Now
<1>5. Now' \in Life!Closed(e)
  BY <1>3, <1>4 DEF Life!Closed
<1>6. Now.outcome = "open" /\ Now.status \notin Life!Final /\ Now.status # "failed"
  BY DEF Now, Life!Final
<1>7. Now' \in UNION { Life!Closed(f) : f \in Life!Ended(Now) }
  BY <1>2, <1>5
<1>8. Now' \in Life!Successors(Now)
  BY <1>6, <1>7 DEF Life!Successors
<1> QED
  BY <1>8 DEF Life!Next, Now

(* A function at work has not told how it ends. *)
LifeInv ==
    pc # "closed" => result = "empty" /\ state \in {"running", "needs_approval"}

(* It returns only in the step that tells it. *)
LEMMA LifeNext == LifeInv /\ [Next]_vars => LifeInv'
<1> SUFFICES ASSUME LifeInv, [Next]_vars PROVE LifeInv'
  OBVIOUS
<1> QED
  BY DEF LifeInv, Next, Workflow, Environment, vars, actVars, signalVars, outcome, history, ActivityEnds,
     AttemptFails, Attempts, Executed,
     EvalPolicy, GetPlan, EnterGate, EnterCall, ReceiveApproval, ReceiveRejection,
     CallTool, StepResult, Note, AllStepsSucceeded, AwaitRefinement,
     NextIteration, MaxIterationsReached, PlanningError, StepError, SendApproval, Return

(* Every step of the workflow is a step of TaskLifecycle, or none. *)
LEMMA LifeStep == IInv /\ LifeInv /\ [Next]_vars => [Life!Next]_Now
<1> SUFFICES ASSUME IInv, LifeInv, [Next]_vars PROVE Life!Next \/ Now' = Now
  BY DEF Now
<1> USE DEF actVars, signalVars, outcome, history, ActivityEnds
<1>1. CASE UNCHANGED <<state, result>> /\ (pc' = "closed" <=> pc = "closed")
  BY <1>1 DEF Now, Outcome, FinalResult
<1>2. ASSUME pc # "closed"
      PROVE  /\ Outcome = "open" /\ result = "empty" /\ FinalResult = "empty"
             /\ state \in {"running", "needs_approval", "waiting_for_feedback"}
  BY <1>2 DEF LifeInv, Outcome, FinalResult
<1>3. CASE EnterGate
  <2>1. pc # "closed" /\ pc' # "closed" /\ FinalResult' = FinalResult /\ state' = "needs_approval"
    BY <1>2, <1>3 DEF EnterGate, FinalResult
  <2>2. Outcome' = "open"
    BY <2>1 DEF Outcome
  <2> QED
    BY <1>2, <2>1, <2>2, MovingStep
<1>4. CASE \/ \E decision \in Policies : EvalPolicy(decision) /\ pc' = "closed"
           \/ PlanningError \/ ReceiveRejection \/ (StepError /\ pc' = "closed")
           \/ AllStepsSucceeded \/ MaxIterationsReached
  <2>1. pc # "closed" /\ pc' = "closed"
    BY <1>4 DEF EvalPolicy, PlanningError, ReceiveRejection, StepError,
       AllStepsSucceeded, MaxIterationsReached, Return
  <2>2. \/ state' = "failed" /\ result' = "empty"
        \/ state' = "completed" /\ result' \in {"completed", "completed_with_retries"}
        \/ state' = "denied" /\ result' \in {"denied", "rejected"}
    BY <1>4 DEF EvalPolicy, PlanningError, ReceiveRejection, StepError,
       AllStepsSucceeded, MaxIterationsReached, Return
  <2>3. /\ Outcome' = IF result' = "empty" THEN "error" ELSE result'
        /\ FinalResult' = IF state' = "denied" THEN "empty" ELSE result'
    BY <2>1 DEF Outcome, FinalResult
  <2> QED
    BY <1>2, <2>1, <2>2, <2>3, ReturnStep
<1>5. CASE \E decision \in Policies : EvalPolicy(decision)
  <2>1. CASE pc' = "closed"
    BY <1>4, <1>5, <2>1
  <2>2. CASE pc' # "closed"
    <3>1. UNCHANGED <<state, result>> /\ pc # "closed"
      BY <1>5, <2>2 DEF EvalPolicy, Return
    <3> QED
      BY <1>1, <2>2, <3>1
  <2> QED
    BY <2>1, <2>2
<1>6. CASE StepError
  <2>1. CASE pc' = "closed"
    BY <1>4, <1>6, <2>1
  <2>2. CASE pc' # "closed"
    <3>1. UNCHANGED <<state, result>> /\ pc # "closed"
      BY <1>6, <2>2 DEF StepError, Return
    <3> QED
      BY <1>1, <2>2, <3>1
  <2> QED
    BY <2>1, <2>2
<1>q1. CASE EnterCall
  BY <1>1, <1>q1 DEF EnterCall
<1>q2. CASE ReceiveApproval
  BY <1>1, <1>q2 DEF ReceiveApproval
<1>q3. CASE CallTool
  BY <1>1, <1>q3 DEF CallTool
<1>q4. CASE StepResult
  BY <1>1, <1>q4 DEF StepResult, Note
<1>q5. CASE AwaitRefinement
  BY <1>1, <1>q5 DEF AwaitRefinement
<1>q6. CASE NextIteration
  BY <1>1, <1>q6 DEF NextIteration
<1>q7. CASE \E p \in Plans : GetPlan(p)
  BY <1>1, <1>q7 DEF GetPlan
<1>q8. CASE \E value \in BOOLEAN : SendApproval(value)
  BY <1>1, <1>q8 DEF SendApproval
<1>q9. CASE UNCHANGED vars
  BY <1>1, <1>q9 DEF vars
<1>q10. CASE AttemptFails
  BY <1>1, <1>q10 DEF AttemptFails, Attempts
<1> HIDE DEF actVars, signalVars, outcome, history, ActivityEnds
<1> QED
  BY <1>4, <1>3, <1>5, <1>6, <1>q1, <1>q2, <1>q3, <1>q4, <1>q5, <1>q6, <1>q7, <1>q8,
     <1>q9, <1>q10
     DEF Next, Workflow, Environment

(* The workflow implements TaskLifecycle: whatever iteration it ends in,   *)
(* its status, its result and its outcome agree.                           *)
THEOREM LifecycleIsImplemented == Spec => ImplementsLifecycle
<1>1. Init => Life!Init /\ LifeInv
  BY DEF Init, Life!Init, Life!Fresh, Outcome, FinalResult, LifeInv
<1>2. IInv /\ LifeInv /\ [Next]_vars => [Life!Next]_Now
  BY LifeStep
<1> QED
  BY Inductive, LifeNext, <1>1, <1>2, PTL DEF Spec, ImplementsLifecycle, Life!Spec, Now

=============================================================================
