------------------------- MODULE AgenticLoop_proofs -------------------------
(***************************************************************************)
(* Proofs that AgenticLoop keeps its safety invariants for all sets of     *)
(* policies and plans and every number of iterations, attempts and signals. *)
(***************************************************************************)
EXTENDS AgenticLoop, SequenceTheorems, TLAPS

(* The updates of the eval_runs row keep its type. *)
LEMMA EvalRowUpdates ==
    ASSUME NEW row \in EvalRow
    PROVE  UpsertStart(row) \in EvalRow /\ IncToolCalls(row) \in EvalRow
<1>1. UpsertStart(row) \in EvalRow
  BY DEF EvalRow, NoRow, States, UpsertStart
<1>2. IncToolCalls(row) \in EvalRow
  BY DEF EvalRow, IncToolCalls
<1> QED
  BY <1>1, <1>2

(* Reading a feedback signal leaves a queue of feedback signals. *)
LEMMA TailOfFeedback ==
    ASSUME feedback \in Seq(FeedbackActions), feedback # <<>>
    PROVE  Tail(feedback) \in Seq(FeedbackActions)
  BY HeadTailProperties

(* An activity that ends leaves no attempts behind. *)
LEMMA EndTypes ==
    ASSUME ActivityEnds
    PROVE  attempt' \in 0..MaxAttempts /\ answered' \in BOOLEAN
<1>1. attempt' \in 0..MaxAttempts
  BY AgenticAssumption DEF ActivityEnds
<1>2. answered' \in BOOLEAN
  BY DEF ActivityEnds
<1> QED
  BY <1>1, <1>2

(* What the initial states satisfy. *)
LEMMA TypeInit == Init => TypeOK
<1> SUFFICES ASSUME Init PROVE TypeOK
  OBVIOUS
<1>1. 0 \in 0..MaxIterations /\ 0 \in 0..MaxAttempts
  BY AgenticAssumption
<1>2. answered \in BOOLEAN /\ polled \in BOOLEAN /\ needsInput \in BOOLEAN
  BY DEF Init
<1>3. pd \in PolicyDecision /\ eval \in EvalRow
  BY DEF Init, PolicyDecision, EvalRow, NoRow, States
<1> QED
  BY <1>1, <1>2, <1>3 DEF Init, TypeOK, PC, Plan

(* Every step keeps the types: one case per action. *)
LEMMA TypeNext == TypeOK /\ [Next]_vars => TypeOK'
<1> SUFFICES ASSUME TypeOK, [Next]_vars PROVE TypeOK'
  OBVIOUS
<1> USE AgenticAssumption DEF PC, Plan, EvidenceKeys, callVars, stepVars, actVars, statusVars, signalVars, history
<1>1. CASE \E ruling \in Policies : EvalPolicy(ruling)
  <2>1. attempt' \in 0..MaxAttempts /\ answered' \in BOOLEAN
    BY <1>1, EndTypes DEF EvalPolicy
  <2> QED
    BY <1>1, <2>1, EvalRowUpdates DEF TypeOK, EvalPolicy
<1>2. CASE \E p \in Plans : GetPlan(p)
  <2>1. attempt' \in 0..MaxAttempts /\ answered' \in BOOLEAN
    BY <1>2, EndTypes DEF GetPlan
  <2> QED
    BY <1>2, <2>1 DEF TypeOK, GetPlan
<1>3. CASE BeginIteration
  <2>1. iteration' \in 0..MaxIterations
    BY <1>3 DEF TypeOK, BeginIteration
  <2>2. polled' \in BOOLEAN
    BY <1>3 DEF BeginIteration
  <2> QED
    BY <1>3, <2>1, <2>2 DEF TypeOK, BeginIteration
<1>4. CASE LoopExit
  BY <1>4 DEF TypeOK, LoopExit, Return
<1>5. CASE ReceiveStop
  BY <1>5 DEF TypeOK, ReceiveStop
<1>6. CASE EndStopWindow
  BY <1>6 DEF TypeOK, EndStopWindow
<1>7. CASE StepBlocked
  BY <1>7 DEF TypeOK, StepBlocked, IterationFails
<1>8. CASE StartCall
  <2>1. idx' \in 0..Len(plan) /\ idx' \in Nat /\ idx' > 0
    BY <1>8 DEF TypeOK, StartCall
  <2>2. answered' \in BOOLEAN
    BY <1>8 DEF TypeOK, StartCall
  <2> QED
    BY <1>8, <2>1, <2>2 DEF TypeOK, StartCall
<1>9. CASE CallTool
  <2>1. [iteration |-> iteration, idx |-> idx, step |-> plan[idx]] \in Effect
    BY <1>9 DEF TypeOK, CallTool, Effect, Plan
  <2>2. attempt' \in 0..MaxAttempts
    BY <1>9 DEF TypeOK, CallTool, Attempts
  <2>3. answered' \in BOOLEAN
    BY <1>9 DEF TypeOK, CallTool
  <2>4. effects' \subseteq Effect /\ eval' \in EvalRow
    BY <1>9, <2>1, EvalRowUpdates DEF TypeOK, CallTool, Executed
  <2> QED
    BY <1>9, <2>2, <2>3, <2>4 DEF TypeOK, CallTool
<1>10. CASE StepResult
  <2>1. attempt' \in 0..MaxAttempts /\ answered' \in BOOLEAN
    BY <1>10, EndTypes DEF StepResult
  <2> QED
    BY <1>10, <2>1 DEF TypeOK, StepResult, StepKey
<1>11. CASE IterationDone
  BY <1>11 DEF TypeOK, IterationDone
<1>12. CASE \E p \in Plans : RecoverByRefining(p)
  <2>1. attempt' \in 0..MaxAttempts /\ answered' \in BOOLEAN
    BY <1>12, EndTypes DEF RecoverByRefining
  <2> QED
    BY <1>12, <2>1 DEF TypeOK, RecoverByRefining
<1>13. CASE NoRecovery \/ RecoveryGivenUp
  <2>1. attempt' \in 0..MaxAttempts /\ answered' \in BOOLEAN
    BY <1>13, EndTypes DEF NoRecovery, RecoveryGivenUp, AskForFeedback
  <2> QED
    BY <1>13, <2>1 DEF TypeOK, NoRecovery, RecoveryGivenUp, AskForFeedback
<1>14. CASE FeedbackStop
  BY <1>14, TailOfFeedback DEF TypeOK, FeedbackStop, TakeFeedback, Return
<1>15. CASE FeedbackContinue
  BY <1>15, TailOfFeedback DEF TypeOK, FeedbackContinue, TakeFeedback
<1>16. CASE FeedbackOther
  BY <1>16, TailOfFeedback DEF TypeOK, FeedbackOther, TakeFeedback, Unrecovered, Return
<1>17. CASE Merge
  <2>1. recorded' \subseteq IterationKey
    BY <1>17 DEF TypeOK, Merge, IterationKeys, IterationKey
  <2>2. polled' \in BOOLEAN
    BY <1>17 DEF Merge
  <2> QED
    BY <1>17, <2>1, <2>2 DEF TypeOK, Merge, Return
<1>18. CASE EndRefineWindow
  BY <1>18 DEF TypeOK, EndRefineWindow
<1>19. CASE NoRefinement
  BY <1>19 DEF TypeOK, NoRefinement
<1>20. CASE ReceiveRefine
  BY <1>20 DEF TypeOK, ReceiveRefine
<1>21. CASE PlanningError
  <2>1. attempt' \in 0..MaxAttempts /\ answered' \in BOOLEAN
    BY <1>21, EndTypes DEF PlanningError
  <2> QED
    BY <1>21, <2>1 DEF TypeOK, PlanningError
<1>22. CASE StepError
  <2>1. results' \subseteq StepKey
    BY <1>22 DEF TypeOK, StepError, StepKey
  <2>2. attempt' \in 0..MaxAttempts /\ answered' \in BOOLEAN
    BY <1>22, EndTypes DEF StepError
  <2> QED
    BY <1>22, <2>1, <2>2 DEF TypeOK, StepError, IterationFails
<1>23. CASE \E a \in FeedbackActions : SendFeedback(a)
  BY <1>23 DEF TypeOK, SendFeedback, CanSignal
<1>24. CASE SendRefine
  BY <1>24 DEF TypeOK, SendRefine, CanSignal
<1>25. CASE SendStop
  BY <1>25 DEF TypeOK, SendStop, CanSignal
<1>26. CASE UNCHANGED vars
  BY <1>26 DEF TypeOK, vars
<1>27. CASE \E p \in Plans : RefineAsAsked(p) \/ RefineByEvidence(p)
  <2>1. attempt' \in 0..MaxAttempts /\ answered' \in BOOLEAN
    BY <1>27, EndTypes DEF RefineAsAsked, RefineByEvidence
  <2> QED
    BY <1>27, <2>1 DEF TypeOK, RefineAsAsked, RefineByEvidence
<1>28. CASE RefinementGivenUp
  <2>1. attempt' \in 0..MaxAttempts /\ answered' \in BOOLEAN
    BY <1>28, EndTypes DEF RefinementGivenUp
  <2> QED
    BY <1>28, <2>1 DEF TypeOK, RefinementGivenUp
<1>29. CASE AttemptFails
  <2>1. attempt' \in 0..MaxAttempts
    BY <1>29 DEF TypeOK, AttemptFails, Attempts
  <2>2. answered' \in BOOLEAN
    BY <1>29 DEF TypeOK, AttemptFails
  <2>3. eval' \in EvalRow
    BY <1>29, EvalRowUpdates DEF TypeOK, AttemptFails
  <2> QED
    BY <1>29, <2>1, <2>2, <2>3 DEF TypeOK, AttemptFails
<1> QED
  BY <1>1, <1>2, <1>3, <1>4, <1>5, <1>6, <1>7, <1>8, <1>9, <1>10, <1>11, <1>12, <1>13,
     <1>14, <1>15, <1>16, <1>17, <1>18, <1>19, <1>20, <1>21, <1>22, <1>23, <1>24, <1>25, <1>26,
     <1>27, <1>28, <1>29
  DEF Next, Workflow, Environment

(* Executed tools are recorded or belong to a failed iteration. *)
LEMMA EffectsNext ==
    ASSUME TypeOK, EffectsInv, PlanPrefixInv, [Next]_vars
    PROVE  EffectsInv'
<1> USE DEF TypeOK, EffectsInv, PlanPrefixInv, Accounted, HasResult, callVars, stepVars, actVars, statusVars, signalVars, history, ActivityEnds
<1>1. CASE \E ruling \in Policies : EvalPolicy(ruling)
  BY <1>1 DEF EvalPolicy
<1>2. CASE \E p \in Plans : GetPlan(p)
  BY <1>2 DEF GetPlan
<1>3. CASE BeginIteration
  BY <1>3 DEF BeginIteration
<1>4. CASE LoopExit
  BY <1>4 DEF LoopExit, Return
<1>5. CASE ReceiveStop
  BY <1>5 DEF ReceiveStop
<1>6. CASE EndStopWindow
  BY <1>6 DEF EndStopWindow
<1>7. CASE StepBlocked
  BY <1>7 DEF StepBlocked, IterationFails
<1>8. CASE StartCall
  <2>1. /\ pc = "exec" /\ pc' = "call" /\ idx' = idx + 1
        /\ UNCHANGED <<iteration, results, recorded, effects, failedIn>>
    BY <1>8 DEF StartCall
  <2> QED
    BY <2>1 DEF Effect
<1>9. CASE CallTool
  <2>1. /\ pc = "call" /\ UNCHANGED <<pc, iteration, idx, results, recorded, failedIn>>
        /\ effects' \subseteq effects \cup
               {[iteration |-> iteration, idx |-> idx, step |-> plan[idx]]}
    BY <1>9 DEF CallTool, Executed
  <2>2. iteration > 0
    BY <2>1
  <2>3. \A e \in effects' : e \in effects \/ (e.iteration = iteration /\ e.idx = idx)
    BY <2>1
  <2> QED
    BY <2>1, <2>2, <2>3
<1>10. CASE StepResult
  <2>1. /\ pc = "call" /\ pc' = "exec"
        /\ results' = results \cup {[idx |-> idx, kind |-> "step_result"]}
        /\ UNCHANGED <<iteration, idx, recorded, effects, failedIn>>
    BY <1>10 DEF StepResult
  <2>2. HasResult(idx)' /\ \A i : HasResult(i) => HasResult(i)'
    <3>1. [idx |-> idx, kind |-> "step_result"] \in results' /\ results \subseteq results' /\ idx' = idx
      BY <2>1
    <3>2. \E k \in results' : k.idx = idx
      BY <3>1
    <3> QED
      BY <3>1, <3>2
  <2> QED
    BY <2>1, <2>2
<1>11. CASE IterationDone
  BY <1>11 DEF IterationDone
<1>12. CASE \E p \in Plans : RecoverByRefining(p)
  BY <1>12 DEF RecoverByRefining
<1>13. CASE NoRecovery \/ RecoveryGivenUp
  BY <1>13 DEF NoRecovery, RecoveryGivenUp, AskForFeedback
<1>14. CASE FeedbackStop
  BY <1>14 DEF FeedbackStop, TakeFeedback, Return
<1>15. CASE FeedbackContinue
  BY <1>15 DEF FeedbackContinue, TakeFeedback
<1>16. CASE FeedbackOther
  BY <1>16 DEF FeedbackOther, TakeFeedback, Unrecovered, Return
<1>17. CASE Merge
  <2>1. /\ pc = "merge" /\ pc' \in {"closed", "refinewin"}
        /\ UNCHANGED <<iteration, effects, failedIn>>
        /\ recorded' = recorded \cup { [iteration |-> iteration, key |-> k] : k \in results }
    BY <1>17 DEF Merge, Return, IterationKeys
  <2>2. ASSUME NEW i, HasResult(i)
        PROVE  \E r \in recorded' : r.iteration = iteration /\ r.key.idx = i
    <3>1. PICK k \in results : k.idx = i
      BY <2>2
    <3>2. [iteration |-> iteration, key |-> k] \in recorded'
      BY <2>1, <3>1
    <3> QED
      BY <3>1, <3>2
  <2>3. \A e \in effects : Accounted(e) => Accounted(e)'
    BY <2>1
  <2>4. \A e \in effects : e.iteration = iteration => Accounted(e)'
    <3>1. SUFFICES ASSUME NEW e \in effects, e.iteration = iteration PROVE Accounted(e)'
      OBVIOUS
    <3>2. CASE iteration \in failedIn
      BY <2>1, <3>1, <3>2
    <3>3. CASE HasResult(e.idx)
      BY <2>2, <3>1, <3>3
    <3> QED
      BY <2>1, <3>1, <3>2, <3>3
  <2> QED
    BY <2>1, <2>3, <2>4
<1>18. CASE EndRefineWindow
  BY <1>18 DEF EndRefineWindow
<1>19. CASE NoRefinement
  BY <1>19 DEF NoRefinement
<1>20. CASE ReceiveRefine
  BY <1>20 DEF ReceiveRefine
<1>21. CASE PlanningError
  BY <1>21 DEF PlanningError
<1>22. CASE StepError
  <2>1. pc = "call" /\ UNCHANGED <<iteration, idx, recorded, effects>>
    BY <1>22 DEF StepError
  <2>2. CASE plan[idx].StopOnErr
    <3>1. pc' = "failed" /\ failedIn' = failedIn \cup {iteration}
      BY <1>22, <2>2 DEF StepError, IterationFails
    <3> QED
      BY <2>1, <3>1
  <2>3. CASE ~plan[idx].StopOnErr
    <3>1. /\ pc' = "exec" /\ UNCHANGED failedIn
          /\ results' = results \cup {[idx |-> idx, kind |-> "step_error"]}
      BY <1>22, <2>3 DEF StepError
    <3>2. HasResult(idx)' /\ \A i : HasResult(i) => HasResult(i)'
      <4>1. [idx |-> idx, kind |-> "step_error"] \in results' /\ results \subseteq results' /\ idx' = idx
        BY <2>1, <3>1
      <4>2. \E k \in results' : k.idx = idx
        BY <4>1
      <4> QED
        BY <4>1, <4>2
    <3> QED
      BY <2>1, <3>1, <3>2
  <2> QED
    BY <2>2, <2>3
<1>23. CASE \E a \in FeedbackActions : SendFeedback(a)
  BY <1>23 DEF SendFeedback, CanSignal
<1>24. CASE SendRefine
  BY <1>24 DEF SendRefine, CanSignal
<1>25. CASE SendStop
  BY <1>25 DEF SendStop, CanSignal
<1>26. CASE UNCHANGED vars
  BY <1>26 DEF vars
<1>27. CASE \E p \in Plans : RefineAsAsked(p) \/ RefineByEvidence(p)
  BY <1>27 DEF RefineAsAsked, RefineByEvidence
<1>28. CASE RefinementGivenUp
  BY <1>28 DEF RefinementGivenUp
<1>29. CASE AttemptFails
  BY <1>29 DEF AttemptFails, Attempts
<1> QED
  BY <1>1, <1>2, <1>3, <1>4, <1>5, <1>6, <1>7, <1>8, <1>9, <1>10, <1>11, <1>12, <1>13,
     <1>14, <1>15, <1>16, <1>17, <1>18, <1>19, <1>20, <1>21, <1>22, <1>23, <1>24, <1>25, <1>26,
     <1>27, <1>28, <1>29
  DEF Next, Workflow, Environment

(* Steps before the current one are no blocked writes. *)
LEMMA PlanPrefixNext ==
    ASSUME TypeOK, EffectsInv, PlanPrefixInv, [Next]_vars
    PROVE  PlanPrefixInv'
<1> USE DEF TypeOK, EffectsInv, PlanPrefixInv, Blocked, Plan, callVars, stepVars, actVars, statusVars, signalVars, history, ActivityEnds
<1>1. CASE \E ruling \in Policies : EvalPolicy(ruling)
  BY <1>1 DEF EvalPolicy
<1>2. CASE \E p \in Plans : GetPlan(p)
  BY <1>2 DEF GetPlan
<1>3. CASE BeginIteration
  BY <1>3 DEF BeginIteration
<1>4. CASE LoopExit
  BY <1>4 DEF LoopExit, Return
<1>5. CASE ReceiveStop
  BY <1>5 DEF ReceiveStop
<1>6. CASE EndStopWindow
  BY <1>6 DEF EndStopWindow
<1>7. CASE StepBlocked
  BY <1>7 DEF StepBlocked, IterationFails
<1>8. CASE StartCall
  BY <1>8 DEF StartCall
<1>9. CASE CallTool
  BY <1>9 DEF CallTool
<1>10. CASE StepResult
  BY <1>10 DEF StepResult
<1>11. CASE IterationDone
  BY <1>11 DEF IterationDone
<1>12. CASE \E p \in Plans : RecoverByRefining(p)
  BY <1>12 DEF RecoverByRefining
<1>13. CASE NoRecovery \/ RecoveryGivenUp
  BY <1>13 DEF NoRecovery, RecoveryGivenUp, AskForFeedback
<1>14. CASE FeedbackStop
  BY <1>14 DEF FeedbackStop, TakeFeedback, Return
<1>15. CASE FeedbackContinue
  BY <1>15 DEF FeedbackContinue, TakeFeedback
<1>16. CASE FeedbackOther
  BY <1>16 DEF FeedbackOther, TakeFeedback, Unrecovered, Return
<1>17. CASE Merge
  BY <1>17 DEF Merge, Return, IterationKeys
<1>18. CASE EndRefineWindow
  BY <1>18 DEF EndRefineWindow
<1>19. CASE NoRefinement
  BY <1>19 DEF NoRefinement
<1>20. CASE ReceiveRefine
  BY <1>20 DEF ReceiveRefine
<1>21. CASE PlanningError
  BY <1>21 DEF PlanningError
<1>22. CASE StepError
  BY <1>22 DEF StepError, IterationFails
<1>23. CASE \E a \in FeedbackActions : SendFeedback(a)
  BY <1>23 DEF SendFeedback, CanSignal
<1>24. CASE SendRefine
  BY <1>24 DEF SendRefine, CanSignal
<1>25. CASE SendStop
  BY <1>25 DEF SendStop, CanSignal
<1>26. CASE UNCHANGED vars
  BY <1>26 DEF vars
<1>27. CASE \E p \in Plans : RefineAsAsked(p) \/ RefineByEvidence(p)
  BY <1>27 DEF RefineAsAsked, RefineByEvidence
<1>28. CASE RefinementGivenUp
  BY <1>28 DEF RefinementGivenUp
<1>29. CASE AttemptFails
  BY <1>29 DEF AttemptFails, Attempts
<1> QED
  BY <1>1, <1>2, <1>3, <1>4, <1>5, <1>6, <1>7, <1>8, <1>9, <1>10, <1>11, <1>12, <1>13,
     <1>14, <1>15, <1>16, <1>17, <1>18, <1>19, <1>20, <1>21, <1>22, <1>23, <1>24, <1>25, <1>26,
     <1>27, <1>28, <1>29
  DEF Next, Workflow, Environment

(* The status follows the function. *)
LEMMA StatusNext ==
    ASSUME TypeOK, StatusInv, WaitingIsVisible, [Next]_vars
    PROVE  (StatusInv /\ WaitingIsVisible)'
<1> USE DEF TypeOK, StatusInv, WaitingIsVisible, callVars, stepVars, actVars, statusVars, signalVars, history, ActivityEnds
<1>1. CASE \E ruling \in Policies : EvalPolicy(ruling)
  BY <1>1 DEF EvalPolicy
<1>2. CASE \E p \in Plans : GetPlan(p)
  BY <1>2 DEF GetPlan
<1>3. CASE BeginIteration
  BY <1>3 DEF BeginIteration
<1>4. CASE LoopExit
  BY <1>4 DEF LoopExit, Return
<1>5. CASE ReceiveStop
  BY <1>5 DEF ReceiveStop
<1>6. CASE EndStopWindow
  BY <1>6 DEF EndStopWindow
<1>7. CASE StepBlocked
  BY <1>7 DEF StepBlocked, IterationFails
<1>8. CASE StartCall
  BY <1>8 DEF StartCall
<1>9. CASE CallTool
  BY <1>9 DEF CallTool
<1>10. CASE StepResult
  BY <1>10 DEF StepResult
<1>11. CASE IterationDone
  BY <1>11 DEF IterationDone
<1>12. CASE \E p \in Plans : RecoverByRefining(p)
  BY <1>12 DEF RecoverByRefining
<1>13. CASE NoRecovery \/ RecoveryGivenUp
  BY <1>13 DEF NoRecovery, RecoveryGivenUp, AskForFeedback
<1>14. CASE FeedbackStop
  BY <1>14 DEF FeedbackStop, TakeFeedback, Return
<1>15. CASE FeedbackContinue
  BY <1>15 DEF FeedbackContinue, TakeFeedback
<1>16. CASE FeedbackOther
  BY <1>16 DEF FeedbackOther, TakeFeedback, Unrecovered, Return
<1>17. CASE Merge
  BY <1>17 DEF Merge, Return, IterationKeys
<1>18. CASE EndRefineWindow
  BY <1>18 DEF EndRefineWindow
<1>19. CASE NoRefinement
  BY <1>19 DEF NoRefinement
<1>20. CASE ReceiveRefine
  BY <1>20 DEF ReceiveRefine
<1>21. CASE PlanningError
  BY <1>21 DEF PlanningError
<1>22. CASE StepError
  BY <1>22 DEF StepError, IterationFails
<1>23. CASE \E a \in FeedbackActions : SendFeedback(a)
  BY <1>23 DEF SendFeedback, CanSignal
<1>24. CASE SendRefine
  BY <1>24 DEF SendRefine, CanSignal
<1>25. CASE SendStop
  BY <1>25 DEF SendStop, CanSignal
<1>26. CASE UNCHANGED vars
  BY <1>26 DEF vars
<1>27. CASE \E p \in Plans : RefineAsAsked(p) \/ RefineByEvidence(p)
  BY <1>27 DEF RefineAsAsked, RefineByEvidence
<1>28. CASE RefinementGivenUp
  BY <1>28 DEF RefinementGivenUp
<1>29. CASE AttemptFails
  BY <1>29 DEF AttemptFails, Attempts
<1> QED
  BY <1>1, <1>2, <1>3, <1>4, <1>5, <1>6, <1>7, <1>8, <1>9, <1>10, <1>11, <1>12, <1>13,
     <1>14, <1>15, <1>16, <1>17, <1>18, <1>19, <1>20, <1>21, <1>22, <1>23, <1>24, <1>25, <1>26,
     <1>27, <1>28, <1>29
  DEF Next, Workflow, Environment

(* A blocked write ends its iteration. *)
LEMMA BlockedNext ==
    ASSUME TypeOK, EffectsInv, PlanPrefixInv, BlockedWriteEndsIteration, [Next]_vars
    PROVE  BlockedWriteEndsIteration'
<1> USE DEF TypeOK, EffectsInv, PlanPrefixInv, BlockedWriteEndsIteration, Blocked, Plan, callVars, stepVars, actVars, statusVars, signalVars, history, ActivityEnds
<1>1. CASE \E ruling \in Policies : EvalPolicy(ruling)
  BY <1>1 DEF EvalPolicy
<1>2. CASE \E p \in Plans : GetPlan(p)
  BY <1>2 DEF GetPlan
<1>3. CASE BeginIteration
  BY <1>3 DEF BeginIteration
<1>4. CASE LoopExit
  BY <1>4 DEF LoopExit, Return
<1>5. CASE ReceiveStop
  BY <1>5 DEF ReceiveStop
<1>6. CASE EndStopWindow
  BY <1>6 DEF EndStopWindow
<1>7. CASE StepBlocked
  BY <1>7 DEF StepBlocked, IterationFails
<1>8. CASE StartCall
  BY <1>8 DEF StartCall
<1>9. CASE CallTool
  BY <1>9 DEF CallTool, Executed
<1>10. CASE StepResult
  BY <1>10 DEF StepResult
<1>11. CASE IterationDone
  BY <1>11 DEF IterationDone
<1>12. CASE \E p \in Plans : RecoverByRefining(p)
  BY <1>12 DEF RecoverByRefining
<1>13. CASE NoRecovery \/ RecoveryGivenUp
  BY <1>13 DEF NoRecovery, RecoveryGivenUp, AskForFeedback
<1>14. CASE FeedbackStop
  BY <1>14 DEF FeedbackStop, TakeFeedback, Return
<1>15. CASE FeedbackContinue
  BY <1>15 DEF FeedbackContinue, TakeFeedback
<1>16. CASE FeedbackOther
  BY <1>16 DEF FeedbackOther, TakeFeedback, Unrecovered, Return
<1>17. CASE Merge
  BY <1>17 DEF Merge, Return, IterationKeys
<1>18. CASE EndRefineWindow
  BY <1>18 DEF EndRefineWindow
<1>19. CASE NoRefinement
  BY <1>19 DEF NoRefinement
<1>20. CASE ReceiveRefine
  BY <1>20 DEF ReceiveRefine
<1>21. CASE PlanningError
  BY <1>21 DEF PlanningError
<1>22. CASE StepError
  BY <1>22 DEF StepError, IterationFails
<1>23. CASE \E a \in FeedbackActions : SendFeedback(a)
  BY <1>23 DEF SendFeedback, CanSignal
<1>24. CASE SendRefine
  BY <1>24 DEF SendRefine, CanSignal
<1>25. CASE SendStop
  BY <1>25 DEF SendStop, CanSignal
<1>26. CASE UNCHANGED vars
  BY <1>26 DEF vars
<1>27. CASE \E p \in Plans : RefineAsAsked(p) \/ RefineByEvidence(p)
  BY <1>27 DEF RefineAsAsked, RefineByEvidence
<1>28. CASE RefinementGivenUp
  BY <1>28 DEF RefinementGivenUp
<1>29. CASE AttemptFails
  BY <1>29 DEF AttemptFails, Attempts
<1> QED
  BY <1>1, <1>2, <1>3, <1>4, <1>5, <1>6, <1>7, <1>8, <1>9, <1>10, <1>11, <1>12, <1>13,
     <1>14, <1>15, <1>16, <1>17, <1>18, <1>19, <1>20, <1>21, <1>22, <1>23, <1>24, <1>25, <1>26,
     <1>27, <1>28, <1>29
  DEF Next, Workflow, Environment

(* The inductive part says where every executed tool is accounted for. *)
LEMMA EffectsInvSuffices == TypeOK /\ EffectsInv /\ PlanPrefixInv => EffectsAccounted
<1> SUFFICES ASSUME TypeOK, EffectsInv, PlanPrefixInv, NEW e \in effects
             PROVE  \/ e.iteration \in failedIn
                    \/ e.iteration = iteration /\ pc \in {"exec", "call", "merge"}
                    \/ \E r \in recorded : r.iteration = e.iteration /\ r.key.idx = e.idx
  BY DEF EffectsAccounted
<1>1. CASE e.iteration < iteration
  BY <1>1 DEF EffectsInv, Accounted
<1>2. CASE ~(e.iteration < iteration)
  <2>1. e.iteration = iteration
    BY <1>2 DEF EffectsInv, TypeOK
  <2> QED
    BY <2>1 DEF EffectsInv, PlanPrefixInv, Accounted, TypeOK, PC
<1> QED
  BY <1>1, <1>2

(* The initial states satisfy the inductive invariant. *)
LEMMA InvInit == Init => IInv
<1> SUFFICES ASSUME Init PROVE IInv
  OBVIOUS
<1>1. TypeOK
  BY TypeInit
<1>2. EffectsInv /\ PlanPrefixInv
  BY DEF Init, EffectsInv, PlanPrefixInv
<1>3. StatusInv /\ WaitingIsVisible /\ BlockedWriteEndsIteration
  BY DEF Init, StatusInv, WaitingIsVisible, BlockedWriteEndsIteration
<1> QED
  BY <1>1, <1>2, <1>3, EffectsInvSuffices DEF IInv

(* Every step preserves it. *)
LEMMA InvNext == IInv /\ [Next]_vars => IInv'
<1> SUFFICES ASSUME IInv, [Next]_vars PROVE IInv'
  OBVIOUS
<1> USE DEF IInv
<1>1. TypeOK'
  BY TypeNext
<1>2. EffectsInv' /\ PlanPrefixInv'
  BY EffectsNext, PlanPrefixNext
<1>3. StatusInv' /\ WaitingIsVisible'
  BY StatusNext
<1>4. BlockedWriteEndsIteration'
  BY BlockedNext
<1>5. EffectsAccounted'
  BY <1>1, <1>2, EffectsInvSuffices, PTL
<1> QED
  BY <1>1, <1>2, <1>3, <1>4, <1>5

(* The strengthening is an invariant of every execution. *)
THEOREM Inductive == Spec => []IInv
  BY InvInit, InvNext, PTL DEF Spec

(* Every variable keeps its type; in particular the loop makes no more     *)
(* than MaxIterations iterations.                                          *)
THEOREM TypeCorrect == Spec => []TypeOK
<1>1. IInv => TypeOK
  BY DEF IInv
<1> QED
  BY <1>1, Inductive, PTL

(* Without AllowWrites an iteration executes nothing from its first write  *)
(* step on.                                                                *)
THEOREM BlockedWritesEndIterations == Spec => []BlockedWriteEndsIteration
<1>1. IInv => BlockedWriteEndsIteration
  BY DEF IInv
<1> QED
  BY <1>1, Inductive, PTL

(* Every executed tool is in the evidence or in a failed iteration. *)
THEOREM EffectsAreAccounted == Spec => []EffectsAccounted
<1>1. IInv => EffectsAccounted
  BY DEF IInv
<1> QED
  BY <1>1, Inductive, PTL

(* The status asks for input exactly while the workflow waits for it. *)
THEOREM WaitsAreVisible == Spec => []WaitingIsVisible
<1>1. IInv => WaitingIsVisible
  BY DEF IInv
<1> QED
  BY <1>1, Inductive, PTL

-----------------------------------------------------------------------------
(* The life of the task: each step is a step of TaskLifecycle or none. *)

Now == [ run |-> 1, status |-> state, result |-> result, outcome |-> Outcome ]

(* The function goes on, in a state it may be in. *)
LEMMA MovingStep ==
    ASSUME Outcome = "open", Outcome' = "open", state \in {"running", "waiting_for_feedback"},
           state' \in {"running", "waiting_for_feedback"}, result' = result
    PROVE  Life!Next
<1>1. Now' \in Life!Moved(Now)
  BY DEF Now, Life!Moved
<1>2. Now.outcome = "open" /\ Now.status \notin Life!Final
  BY DEF Now, Life!Final
<1> QED
  BY <1>1, <1>2 DEF Life!Next, Life!Successors, Now

(* It returns in the step that tells how it ended. *)
LEMMA ReturnStep ==
    ASSUME Outcome = "open", state \in {"running", "waiting_for_feedback"}, result = "empty",
           \/ state' = "failed" /\ result' = "empty" /\ Outcome' = "error"
           \/ /\ state' = "completed"
              /\ result' \in {"completed", "max_iterations_reached", "failed"}
              /\ Outcome' = result'
           \/ /\ state' = "denied"
              /\ result' \in {"denied"}
              /\ Outcome' = result'
    PROVE  Life!Next
<1> DEFINE e == Life!Ending(Now, state', result')
<1>1. /\ e.run = 1 /\ e.status = state' /\ e.result = result' /\ e.outcome = "open"
      /\ e = [ run |-> 1, status |-> state', result |-> result', outcome |-> "open" ]
  BY DEF Life!Ending, Now
<1>2. e \in Life!Ended(Now)
  <2>1. CASE state' = "failed"
    <3>1. e = Life!Ending(Now, "failed", Now.result)
      BY <2>1 DEF Now
    <3> QED
      BY <3>1 DEF Life!Ended
  <2>2. CASE state' = "completed"
    <3>1. result' \in {"completed", "max_iterations_reached", "failed"}
      BY <2>2
    <3>2. e = Life!Ending(Now, "completed", result')
      BY <2>2
    <3> QED
      BY <3>1, <3>2 DEF Life!Ended
  <2>3. CASE state' = "denied"
    <3>1. result' \in {"denied"}
      BY <2>3
    <3>2. e = Life!Ending(Now, "denied", result')
      BY <2>3
    <3> QED
      BY <3>1, <3>2 DEF Life!Ended
  <2> QED
    BY <2>1, <2>2, <2>3
<1>3. Outcome' \in Life!Outcomes(e)
  BY <1>1 DEF Life!Outcomes
<1>4. Now' = [ e EXCEPT !.outcome = Outcome' ]
  BY <1>1 DEF Now
<1>5. Now' \in Life!Closed(e)
  BY <1>3, <1>4 DEF Life!Closed
<1>6. Now.outcome = "open" /\ Now.status \notin Life!Final /\ Now.status # "failed"
  BY DEF Now, Life!Final
<1>7. Now' \in UNION { Life!Closed(f) : f \in Life!Ended(Now) }
  BY <1>2, <1>5
<1>8. Now' \in Life!Successors(Now)
  BY <1>6, <1>7 DEF Life!Successors
<1> QED
  BY <1>8 DEF Life!Next, Now

(* Every step of the loop is a step of TaskLifecycle, or none. *)
LEMMA LifeStep == IInv /\ [Next]_vars => [Life!Next]_Now
<1> SUFFICES ASSUME IInv, [Next]_vars PROVE Life!Next \/ Now' = Now
  BY DEF Now
<1> USE DEF callVars, stepVars, actVars, statusVars, signalVars, history, ActivityEnds
<1>1. CASE UNCHANGED <<state, result>> /\ (pc' = "closed" <=> pc = "closed")
  BY <1>1 DEF Now, Outcome
<1>2. ASSUME pc # "closed"
      PROVE  Outcome = "open" /\ state \in {"running", "waiting_for_feedback"} /\ result = "empty"
  BY <1>2 DEF IInv, TypeOK, PC, StatusInv, WaitingIsVisible, Outcome
<1>3. CASE NoRecovery \/ RecoveryGivenUp \/ FeedbackContinue \/ (FeedbackOther /\ pc' # "closed")
  <2>1. pc # "closed" /\ pc' # "closed" /\ result' = result
        /\ state' \in {"running", "waiting_for_feedback"}
    BY <1>3 DEF NoRecovery, RecoveryGivenUp, AskForFeedback, FeedbackContinue, FeedbackOther, TakeFeedback, Unrecovered, Return
  <2>2. Outcome' = "open"
    BY <2>1 DEF Outcome
  <2> QED
    BY <1>2, <2>1, <2>2, MovingStep
<1>4. CASE \/ \E ruling \in Policies : EvalPolicy(ruling) /\ pc' = "closed"
           \/ PlanningError \/ LoopExit \/ FeedbackStop
           \/ (FeedbackOther /\ pc' = "closed") \/ (Merge /\ pc' = "closed")
  <2>1. pc # "closed" /\ pc' = "closed"
    BY <1>4 DEF EvalPolicy, PlanningError, LoopExit, FeedbackStop, FeedbackOther,
       TakeFeedback, Merge, Return
  <2>2. result = "empty" /\ state \in {"running", "waiting_for_feedback"}
    BY <1>2, <2>1
  <2>3. \/ state' = "failed" /\ result' = "empty"
        \/ state' = "completed" /\ result' \in {"completed", "max_iterations_reached", "failed"}
        \/ state' = "denied" /\ result' = "denied"
    BY <1>4, <2>2 DEF EvalPolicy, PlanningError, LoopExit, FeedbackStop, FeedbackOther,
       TakeFeedback, Unrecovered, Merge, Return
  <2>4. Outcome' = IF result' = "empty" THEN "error" ELSE result'
    BY <2>1 DEF Outcome
  <2> QED
    BY <1>2, <2>1, <2>3, <2>4, ReturnStep
<1>5. CASE \E ruling \in Policies : EvalPolicy(ruling)
  <2>1. CASE pc' = "closed"
    BY <1>4, <1>5, <2>1
  <2>2. CASE pc' # "closed"
    <3>1. UNCHANGED <<state, result>> /\ pc # "closed"
      BY <1>5, <2>2 DEF EvalPolicy, Return
    <3> QED
      BY <1>1, <2>2, <3>1
  <2> QED
    BY <2>1, <2>2
<1>6. CASE FeedbackOther
  BY <1>3, <1>4, <1>6
<1>7. CASE Merge
  <2>1. CASE pc' = "closed"
    BY <1>4, <1>7, <2>1
  <2>2. CASE pc' # "closed"
    <3>1. UNCHANGED <<state, result>> /\ pc # "closed"
      BY <1>7, <2>2 DEF Merge, Return
    <3> QED
      BY <1>1, <2>2, <3>1
  <2> QED
    BY <2>1, <2>2
<1>q1. CASE BeginIteration
  BY <1>1, <1>q1 DEF BeginIteration
<1>q2. CASE ReceiveStop
  BY <1>1, <1>q2 DEF ReceiveStop
<1>q3. CASE EndStopWindow
  BY <1>1, <1>q3 DEF EndStopWindow
<1>q4. CASE StartCall
  BY <1>1, <1>q4 DEF StartCall
<1>q5. CASE CallTool
  BY <1>1, <1>q5 DEF CallTool
<1>q6. CASE StepResult
  BY <1>1, <1>q6 DEF StepResult
<1>q7. CASE IterationDone
  BY <1>1, <1>q7 DEF IterationDone
<1>q8. CASE EndRefineWindow
  BY <1>1, <1>q8 DEF EndRefineWindow
<1>q9. CASE NoRefinement
  BY <1>1, <1>q9 DEF NoRefinement
<1>q10. CASE StepBlocked
  BY <1>1, <1>q10 DEF StepBlocked, IterationFails
<1>q11. CASE StepError
  BY <1>1, <1>q11 DEF StepError, IterationFails
<1>q12. CASE \E p \in Plans : GetPlan(p)
  BY <1>1, <1>q12 DEF GetPlan
<1>q13. CASE \E p \in Plans : RecoverByRefining(p)
  BY <1>1, <1>q13 DEF RecoverByRefining
<1>q14. CASE ReceiveRefine
  BY <1>1, <1>q14 DEF ReceiveRefine
<1>q15. CASE (\E a \in FeedbackActions : SendFeedback(a)) \/ SendRefine \/ SendStop
  BY <1>1, <1>q15 DEF SendFeedback, SendRefine, SendStop, CanSignal
<1>q16. CASE UNCHANGED vars
  BY <1>1, <1>q16 DEF vars
<1>q17. CASE \E p \in Plans : RefineAsAsked(p) \/ RefineByEvidence(p)
  BY <1>1, <1>q17 DEF RefineAsAsked, RefineByEvidence
<1>q18. CASE RefinementGivenUp
  BY <1>1, <1>q18 DEF RefinementGivenUp
<1>q19. CASE AttemptFails
  BY <1>1, <1>q19 DEF AttemptFails, Attempts
<1> HIDE DEF callVars, stepVars, actVars, statusVars, signalVars, history, ActivityEnds
<1> QED
  BY <1>4, <1>3, <1>5, <1>6, <1>7, <1>q1, <1>q2, <1>q3, <1>q4, <1>q5, <1>q6, <1>q7,
     <1>q8, <1>q9, <1>q10, <1>q11, <1>q12, <1>q13, <1>q14, <1>q15, <1>q16, <1>q17, <1>q18, <1>q19
     DEF Next, Workflow, Environment

(* The loop implements TaskLifecycle: its status, its result and its       *)
(* outcome agree however an iteration, a recovery or a wait ends it.       *)
THEOREM LifecycleIsImplemented == Spec => ImplementsLifecycle
<1>1. Init => Life!Init
  BY DEF Init, Life!Init, Life!Fresh, Outcome
<1>2. IInv /\ [Next]_vars => [Life!Next]_Now
  BY LifeStep
<1> QED
  BY Inductive, <1>1, <1>2, PTL DEF Spec, ImplementsLifecycle, Life!Spec, Now

=============================================================================
