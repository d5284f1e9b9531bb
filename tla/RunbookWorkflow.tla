-------------------------- MODULE RunbookWorkflow --------------------------
(***************************************************************************)
(* RunbookAutomationWorkflow (internal/controlplane/temporal/              *)
(* runbook_workflow.go) composed with the exec agent it calls: the rule    *)
(* agent picks a runbook, diagnostics gate it, and its actions are run one *)
(* by one, each after a human's approval where one is required.            *)
(*                                                                         *)
(* Activities have a retry policy with MaximumAttempts.  Those that only   *)
(* read (rule, runbook and observability agent) are one step with their    *)
(* final answer or error.  CallExecAgentActivity sends one request per     *)
(* attempt to ExecAgent; an attempt is given up at its timeout, at a lost  *)
(* response or at an error answer, while its request may still be at work. *)
(* A lost request is one the agent never gets to, so that ExecAgent's      *)
(* LoseRequest adds no behaviour here and is left out.                     *)
(*                                                                         *)
(* The workflow id is a key prefix of its own, so the idempotency key of a *)
(* step is its id, and the remaining Keys are those of other tasks.        *)
(***************************************************************************)
EXTENDS RunbookMemory, DiagnosticGate, ExecAgent, SequencesExt

CONSTANTS
    Runbooks,         \* what the runbook agent may answer
    Observations,     \* what the observability agent may answer
    MaximumAttempts,  \* the RetryPolicy's MaximumAttempts
    Signals,          \* the approval signals humans may send
    NoStep,           \* the step id of a signal that carries none
    MaxSignals        \* bound: approval signals sent to the task

(* A signal on the "approval" channel.  POST /approve sends a bare bool,   *)
(* which has no StepID; ApprovalSignal comes from other Temporal clients.  *)
Signal == [ StepID : StepIDs \cup {NoStep}, Approved : BOOLEAN ]

(* The requests of CallExecAgentActivity: one per action and attempt. *)
ExecRequest(rb, i, n) ==
    [ key |-> rb.Actions[i].ID, attempt |-> (i - 1) * MaximumAttempts + n,
      input |-> rb.Actions[i].Input ]

OwnRequests ==
    UNION { { ExecRequest(rb, i, n) : i \in DOMAIN rb.Actions, n \in 1..MaximumAttempts } :
            rb \in Runbooks }

ASSUME RunbookAssumption ==
    /\ StepIDs \subseteq Keys
    /\ NoStep \notin StepIDs
    /\ Runbooks \subseteq Runbook
    /\ Observations \subseteq ObservabilityOutput
    /\ Signals \subseteq Signal
    /\ MaximumAttempts \in Nat \ {0}
    /\ MaxSignals \in Nat
    /\ OwnRequests \subseteq Requests

VARIABLES
    pc,        \* where the workflow function is
    mem,       \* the RunbookMemory
    idx,       \* loop index of the running diagnostic or action
    attempt,   \* attempts of the pending CallExecAgentActivity
    signals,   \* buffered approval signals
    nsignals,  \* approval signals sent so far
    result,    \* RunbookAutomationResult: Failed and Actions
    observed   \* history: diagnostics with what they observed

runVars == <<pc, mem, idx, attempt, result>>
vars == <<runVars, signals, nsignals, observed, execVars>>

PC == {"rule", "runbook", "diag", "obs", "act", "approval", "exec", "closed"}

NoActions == [id \in StepIDs |-> {}]

RunInit ==
    /\ pc = "rule"
    /\ mem = NewRunbookMemory
    /\ idx = 0 /\ attempt = 0
    /\ signals = <<>> /\ nsignals = 0
    /\ result = [Failed |-> FALSE, Actions |-> NoActions]
    /\ observed = {}

Init == RunInit /\ ExecInit

(* Several deltas, one after the other. *)
Apply2(m, d1, d2)     == Apply(Apply(m, d1), d2)
Apply3(m, d1, d2, d3) == Apply(Apply2(m, d1, d2), d3)

-----------------------------------------------------------------------------
(* 1. and 2.: rule agent and runbook agent. *)

RuleAgentAnswers(requires) ==
    /\ pc = "rule"
    /\ mem' = Apply3(mem, RequireApproval(requires), SelectRunbook, SetSeverity)
    /\ pc' = "runbook"
    /\ UNCHANGED <<idx, attempt, result, signals, nsignals, observed, execVars>>

RunbookAgentAnswers(rb) ==
    /\ pc = "runbook"
    /\ mem' = Apply(mem, SetRunbook(rb))
    /\ pc' = "diag"
    /\ UNCHANGED <<idx, attempt, result, signals, nsignals, observed, execVars>>

(* Either agent's activity fails: the workflow fails with its error. *)
AgentError ==
    /\ pc \in {"rule", "runbook"}
    /\ mem' = Apply(mem, MarkFailed)
    /\ result' = [result EXCEPT !.Failed = TRUE]
    /\ pc' = "closed"
    /\ UNCHANGED <<idx, attempt, signals, nsignals, observed, execVars>>

-----------------------------------------------------------------------------
(* 3. Diagnostics. *)

Diagnostics == mem.Runbook.Diagnostics
Actions     == mem.Runbook.Actions

BeginDiagnostic ==
    /\ pc = "diag"
    /\ idx < Len(Diagnostics)
    /\ idx' = idx + 1
    /\ mem' = Apply(mem, SetCursor("diagnostics", idx + 1))
    /\ pc' = "obs"
    /\ UNCHANGED <<attempt, result, signals, nsignals, observed, execVars>>

(* The observation is recorded; a failing gate closes the workflow without *)
(* an error and without copying the evidence into the result.              *)
DiagnosticAnswers(out) ==
    LET step == Diagnostics[idx]
        seen == Apply2(mem, RecordDiagnostic(step.ID, out), MarkCompleted(step.ID))
    IN
    /\ pc = "obs"
    /\ observed' = observed \cup {[step |-> step, out |-> out]}
    /\ IF evalDiagnosticGate(step, out)
       THEN /\ mem' = seen
            /\ pc' = "diag"
            /\ UNCHANGED result
       ELSE /\ mem' = Apply(seen, MarkFailed)
            /\ result' = [result EXCEPT !.Failed = TRUE]
            /\ pc' = "closed"
    /\ UNCHANGED <<idx, attempt, signals, nsignals, execVars>>

(* The activity failed: its gate is skipped. *)
DiagnosticError ==
    /\ pc = "obs"
    /\ pc' = "diag"
    /\ UNCHANGED <<mem, idx, attempt, result, signals, nsignals, observed, execVars>>

DiagnosticsDone ==
    /\ pc = "diag"
    /\ idx = Len(Diagnostics)
    /\ idx' = 0
    /\ pc' = "act"
    /\ UNCHANGED <<mem, attempt, result, signals, nsignals, observed, execVars>>

-----------------------------------------------------------------------------
(* 4. Actions. *)

(* Faulty: the rule agent's verdict is not looked at. *)
NeedsApprovalByStep(step) == step.RequiresApproval

NeedsApproval(step) == step.RequiresApproval \/ mem.RequiresHumanApproval

BeginAction ==
    /\ pc = "act"
    /\ idx < Len(Actions)
    /\ idx' = idx + 1
    /\ mem' = Apply(mem, SetCursor("actions", idx + 1))
    /\ attempt' = 0
    /\ pc' = IF NeedsApproval(Actions[idx + 1]) THEN "approval" ELSE "exec"
    /\ UNCHANGED <<result, signals, nsignals, observed, execVars>>

(* Faulty: a bare bool is left in the channel. *)
ReceiveOtherStep ==
    /\ pc = "approval"
    /\ signals # <<>>
    /\ Head(signals).StepID \notin {NoStep, Actions[idx].ID}
    /\ signals' = Tail(signals)
    /\ UNCHANGED <<runVars, nsignals, observed, execVars>>

(* The next signal does not decode into an ApprovalSignal (the SDK drops   *)
(* it) or is for another step (the workflow ignores it).                   *)
ReceiveOther ==
    /\ pc = "approval"
    /\ signals # <<>>
    /\ Head(signals).StepID # Actions[idx].ID
    /\ signals' = Tail(signals)
    /\ UNCHANGED <<runVars, nsignals, observed, execVars>>

(* Faulty: any signal that says approved is taken for the step's. *)
ReceiveApprovalAnyStep ==
    /\ pc = "approval"
    /\ signals # <<>>
    /\ Head(signals).StepID # NoStep
    /\ Head(signals).Approved
    /\ mem' = Apply(mem, AppendApproval(Head(signals)))
    /\ signals' = Tail(signals)
    /\ pc' = "exec"
    /\ UNCHANGED <<idx, attempt, result, nsignals, observed, execVars>>

ReceiveApproval ==
    /\ pc = "approval"
    /\ signals # <<>>
    /\ Head(signals).StepID = Actions[idx].ID
    /\ Head(signals).Approved
    /\ mem' = Apply(mem, AppendApproval(Head(signals)))
    /\ signals' = Tail(signals)
    /\ pc' = "exec"
    /\ UNCHANGED <<idx, attempt, result, nsignals, observed, execVars>>

(* The step is skipped and the workflow goes on. *)
ReceiveRejection ==
    /\ pc = "approval"
    /\ signals # <<>>
    /\ Head(signals).StepID = Actions[idx].ID
    /\ ~Head(signals).Approved
    /\ mem' = Apply(mem, AppendApproval(Head(signals)))
    /\ signals' = Tail(signals)
    /\ pc' = "act"
    /\ UNCHANGED <<idx, attempt, result, nsignals, observed, execVars>>

(* Faulty: a retry delivers the first attempt's request once more. *)
CallExecResends ==
    LET q == ExecRequest(mem.Runbook, idx, 1) IN
    /\ pc = "exec"
    /\ attempt < MaximumAttempts
    /\ attempt' = attempt + 1
    /\ issued' = issued \cup {q}
    /\ arrived' = arrived \cup {q}
    /\ UNCHANGED <<versions, loaded, answers>>
    /\ UNCHANGED <<pc, mem, idx, result, signals, nsignals, observed>>

(* An attempt of CallExecAgentActivity sends its request. *)
CallExec ==
    /\ pc = "exec"
    /\ attempt < MaximumAttempts
    /\ attempt' = attempt + 1
    /\ Submit(ExecRequest(mem.Runbook, idx, attempt + 1))
    /\ UNCHANGED <<pc, mem, idx, result, signals, nsignals, observed>>

(* The current attempt is answered without an error: the output is recorded *)
(* and the step completed, whatever its Success.                           *)
ExecAnswers ==
    LET id == Actions[idx].ID IN
    /\ pc = "exec" /\ attempt > 0
    /\ \E a \in answers :
          /\ a.req = ExecRequest(mem.Runbook, idx, attempt)
          /\ a.ok
          /\ mem' = Apply2(mem, RecordAction(id, a.Success), MarkCompleted(id))
    /\ pc' = "act"
    /\ UNCHANGED <<idx, attempt, result, signals, nsignals, observed, execVars>>

(* Faulty: a failed action leaves no record. *)
ExecErrorUnrecorded ==
    /\ pc = "exec"
    /\ attempt = MaximumAttempts
    /\ pc' = "act"
    /\ UNCHANGED <<mem, idx, attempt, result, signals, nsignals, observed, execVars>>

(* The last attempt failed: recorded, not completed, and on to the next. *)
ExecError ==
    /\ pc = "exec"
    /\ attempt = MaximumAttempts
    /\ mem' = Apply(mem, RecordAction(Actions[idx].ID, FALSE))
    /\ pc' = "act"
    /\ UNCHANGED <<idx, attempt, result, signals, nsignals, observed, execVars>>

(* The final outputs are taken from memory. *)
Close ==
    /\ pc = "act"
    /\ idx = Len(Actions)
    /\ result' = [result EXCEPT !.Actions = mem.Actions]
    /\ pc' = "closed"
    /\ UNCHANGED <<mem, idx, attempt, signals, nsignals, observed, execVars>>

-----------------------------------------------------------------------------
(* Around the workflow: signals, other tasks, the agent and the network. *)

SendSignal(s) ==
    /\ pc # "closed"
    /\ nsignals < MaxSignals
    /\ signals' = Append(signals, s)
    /\ nsignals' = nsignals + 1
    /\ UNCHANGED <<runVars, observed, execVars>>

OtherTask == \E q \in Requests \ OwnRequests : Submit(q)

Workflow ==
    \/ \E requires \in BOOLEAN : RuleAgentAnswers(requires)
    \/ \E rb \in Runbooks : RunbookAgentAnswers(rb)
    \/ BeginDiagnostic \/ DiagnosticsDone
    \/ \E out \in Observations : DiagnosticAnswers(out)
    \/ BeginAction \/ ReceiveOther \/ ReceiveApproval \/ ReceiveRejection
    \/ CallExec \/ ExecAnswers \/ ExecError \/ Close

Next ==
    \/ Workflow
    \/ AgentError \/ DiagnosticError
    \/ \E s \in Signals : SendSignal(s)
    \/ (Agent \/ OtherTask) /\ UNCHANGED <<runVars, signals, nsignals, observed>>

Spec == Init /\ [][Next]_vars

(* Temporal runs every ready task and gives a hung attempt up at its       *)
(* StartToCloseTimeout.  Nobody has to approve, and the exec agent needs   *)
(* no fairness: an attempt without an answer is an error.                  *)
FairSpec == Spec /\ WF_vars(Workflow)

-----------------------------------------------------------------------------
(* Properties. *)

RunTypeOK ==
    /\ pc \in PC
    /\ mem.RequiresHumanApproval \in BOOLEAN
    /\ mem.Approvals \in Seq(ApprovalSignal)
    /\ mem.Runbook \in Runbook
    /\ mem.Diagnostics \in [StepIDs -> SUBSET ObservabilityOutput]
    /\ mem.Actions \in [StepIDs -> SUBSET BOOLEAN]
    /\ mem.CompletedSteps \in Seq(StepIDs)
    /\ mem.Failed \in BOOLEAN
    /\ mem.Versions \in [Buckets -> Nat]
    /\ idx \in Nat
    /\ pc \in {"diag", "obs"} => idx <= Len(Diagnostics)
    /\ pc \in {"act", "approval", "exec"} => idx <= Len(Actions)
    /\ pc \in {"obs", "approval", "exec"} => idx > 0
    /\ attempt \in 0..MaximumAttempts
    /\ signals \in Seq(Signal)
    /\ nsignals \in 0..MaxSignals
    /\ result \in [Failed : BOOLEAN, Actions : [StepIDs -> SUBSET BOOLEAN]]
    /\ observed \subseteq [step : Diagnostic, out : ObservabilityOutput]

(* Requests of this run that have reached, or may reach, the exec agent. *)
OwnIssued == issued \cap OwnRequests

(* No request for an action that needs approval reaches the exec agent     *)
(* unless a human approved that very action before, whatever signals for   *)
(* other steps, early, late or undecodable ones were sent (approval loop). *)
ApprovedBeforeExec ==
    \A i \in DOMAIN Actions, n \in 1..MaximumAttempts :
        /\ ExecRequest(mem.Runbook, i, n) \in issued
        /\ Actions[i].RequiresApproval \/ mem.RequiresHumanApproval
        => \E k \in DOMAIN mem.Approvals :
               mem.Approvals[k] = [StepID |-> Actions[i].ID, Approved |-> TRUE]

(* A run only executes anything when each gated diagnostic that answered   *)
(* gave sound data that holds the comparison: degraded data, a missing     *)
(* signal and a missing threshold all keep every action from running.      *)
GateStopsActions ==
    OwnIssued # {} =>
        \A o \in observed : o.step.gate_op # "" =>
            /\ ~o.out.Degraded
            /\ \E v \in o.out.Signal, thr \in o.step.gate_threshold :
                   compareFloat(v, o.step.gate_op, thr)

(* A run that ends without failure accounts for each of its actions: the   *)
(* result has its output, or a human rejected it.                          *)
NoActionForgotten ==
    pc = "closed" /\ ~result.Failed =>
        \A i \in DOMAIN Actions :
            \/ result.Actions[Actions[i].ID] # {}
            \/ \E k \in DOMAIN mem.Approvals :
                   mem.Approvals[k] = [StepID |-> Actions[i].ID, Approved |-> FALSE]

(* A step in CompletedSteps really was completed: as a diagnostic that     *)
(* answered, or as an action whose request the exec agent answered ok.     *)
CompletedWasAnswered ==
    \A k \in DOMAIN mem.CompletedSteps :
        \/ \E o \in observed : o.step.ID = mem.CompletedSteps[k]
        \/ \E a \in answers : a.ok /\ a.req \in OwnRequests /\ a.req.key = mem.CompletedSteps[k]

(* A success recorded in memory was true of the cluster: some version of   *)
(* the deployment is what the action asked for, although the agent may     *)
(* have answered one of several attempts with a noop.                      *)
RecordedSuccessApplied ==
    \A i \in DOMAIN Actions :
        TRUE \in mem.Actions[Actions[i].ID] =>
            \E q \in OwnIssued : q.key = Actions[i].ID /\
                \E v \in DOMAIN versions[q.input.deployment] :
                    AlreadyApplied(q, versions[q.input.deployment][v])

(* What a run leaves behind in memory and result leaves no action out,     *)
(* claims no step that was not answered and no success that the cluster    *)
(* did not have, through failed attempts, answers of a repeated attempt,   *)
(* gates that stop the run and rejections (diagnostic and action loops).   *)
RecordsAreTrue == NoActionForgotten /\ CompletedWasAnswered /\ RecordedSuccessApplied

(* The delta log is an audit trail: replaying it on a fresh memory gives   *)
(* the memory, versions included ("Delta log for audit/debug/replay").     *)
ReplayRebuilds == FoldLeft(Apply, NewRunbookMemory, mem.Deltas) = mem

(* The audit trail shows the approval of every recorded action that needed *)
(* one between the cursor's move to that action and its record.            *)
AuditShowsApproval ==
    \A j \in DOMAIN mem.Deltas :
        LET d == mem.Deltas[j] IN
        d.Action = "record_action" /\ mem.RequiresHumanApproval =>
            \E i \in 1..(j - 1) :
                /\ mem.Deltas[i].Action = "append_approval"
                /\ mem.Deltas[i].Patch = [StepID |-> d.Patch.step_id, Approved |-> TRUE]
                /\ \A k \in i..j : mem.Deltas[k].Action # "set_cursor"

(* The run never hangs: it gets back to a closed workflow or to an approval *)
(* nobody has signalled.                                                   *)
RunbookSettles == []<>(pc = "closed" \/ (pc = "approval" /\ signals = <<>>))

=============================================================================
