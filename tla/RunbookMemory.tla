--------------------------- MODULE RunbookMemory ---------------------------
(***************************************************************************)
(* The memory of a runbook run (internal/controlplane/temporal/            *)
(* runbook_memory.go) as a value, with the deltas its workflow applies.    *)
(*                                                                         *)
(* Facts, reasons, the selected runbook id and the cursor are written and  *)
(* logged but no branch reads them, so a delta to them only bumps its      *)
(* bucket's version and leaves its entry.  Maps with optional values are   *)
(* functions to sets of at most one element.                               *)
(***************************************************************************)
EXTENDS ExecContracts, Integers, Sequences

CONSTANT StepIDs  \* ids of runbook steps, after NormalizeIDs; never empty

(* contracts.RunbookStep.  gate_op "" is a step without a gate; a missing  *)
(* or unparsable gate_threshold is {}.                                     *)
GateOps == {"", "<", "<=", ">", ">=", "==", "!=", "~"}
Diagnostic == [ ID : StepIDs, gate_op : GateOps, gate_threshold : SUBSET Int ]
Action == [ ID : StepIDs, RequiresApproval : BOOLEAN, Input : ExecInput ]
Runbook == [ Diagnostics : Seq(Diagnostic), Actions : Seq(Action) ]

(* contracts.ObservabilityOutput: Signal is Signals[gate_signal] or {}. *)
ObservabilityOutput == [ Degraded : BOOLEAN, Signal : SUBSET Int ]

(* The payload of an approval signal. *)
ApprovalSignal == [ StepID : StepIDs, Approved : BOOLEAN ]

Buckets == {"IntentState", "PlanState", "EvidenceState", "PolicyRiskState",
            "ProgressState", "PointersState"}

(* NewRunbookMemory *)
NewRunbookMemory ==
    [ RequiresHumanApproval |-> FALSE,
      Approvals      |-> <<>>,
      Runbook        |-> [Diagnostics |-> <<>>, Actions |-> <<>>],
      Diagnostics    |-> [id \in StepIDs |-> {}],
      Actions        |-> [id \in StepIDs |-> {}],
      CompletedSteps |-> <<>>,
      Failed         |-> FALSE,
      Versions       |-> [b \in Buckets |-> IF b = "IntentState" THEN 1 ELSE 0],
      Deltas         |-> <<>> ]

(* The deltas of the workflow: their bucket, action and patch. *)
RequireApproval(b)      == [ Bucket |-> "PolicyRiskState",
                             Action |-> "set_requires_human_approval", Patch |-> b ]
SelectRunbook           == [ Bucket |-> "PointersState",
                             Action |-> "set_selected_runbook_id", Patch |-> "id" ]
SetSeverity             == [ Bucket |-> "EvidenceState", Action |-> "set_fact",
                             Patch |-> "severity" ]
SetRunbook(rb)          == [ Bucket |-> "PlanState", Action |-> "set_runbook", Patch |-> rb ]
SetCursor(phase, i)     == [ Bucket |-> "PlanState", Action |-> "set_cursor",
                             Patch |-> <<phase, i>> ]
RecordDiagnostic(id, o) == [ Bucket |-> "EvidenceState", Action |-> "record_diagnostic",
                             Patch |-> [step_id |-> id, output |-> o] ]
RecordAction(id, o)     == [ Bucket |-> "EvidenceState", Action |-> "record_action",
                             Patch |-> [step_id |-> id, output |-> o] ]
AppendApproval(sig)     == [ Bucket |-> "PolicyRiskState", Action |-> "append_approval",
                             Patch |-> sig ]
MarkCompleted(id)       == [ Bucket |-> "ProgressState", Action |-> "mark_step_completed",
                             Patch |-> id ]
MarkFailed              == [ Bucket |-> "ProgressState", Action |-> "mark_failed",
                             Patch |-> "reason" ]

(* The mutation of each action. *)
Patched(m, d) ==
    CASE d.Action = "set_requires_human_approval" -> [m EXCEPT !.RequiresHumanApproval = d.Patch]
      [] d.Action = "append_approval"     -> [m EXCEPT !.Approvals = Append(@, d.Patch)]
      [] d.Action = "set_runbook"         -> [m EXCEPT !.Runbook = d.Patch]
      [] d.Action = "record_diagnostic"   ->
             [m EXCEPT !.Diagnostics[d.Patch.step_id] = {d.Patch.output}]
      [] d.Action = "record_action"       ->
             [m EXCEPT !.Actions[d.Patch.step_id] = {d.Patch.output}]
      [] d.Action = "mark_step_completed" -> [m EXCEPT !.CompletedSteps = Append(@, d.Patch)]
      [] d.Action = "mark_failed"         -> [m EXCEPT !.Failed = TRUE]
      [] OTHER -> m

(* The entry of the log. *)
Entry(m, d) ==
    [Bucket |-> d.Bucket, Action |-> d.Action, Patch |-> d.Patch,
     PrevVer |-> m.Versions[d.Bucket], NextVer |-> m.Versions[d.Bucket] + 1]

Bumped(m, b) == [m EXCEPT !.Versions[b] = @ + 1]
Logged(m, e) == [m EXCEPT !.Deltas = Append(@, e)]

(* Faulty: cursor moves bump the version without an entry in the log. *)
ApplyCursorUnlogged(m, d) ==
    IF d.Action = "set_cursor" THEN Bumped(Patched(m, d), d.Bucket)
    ELSE Logged(Bumped(Patched(m, d), d.Bucket), Entry(m, d))

(* Apply, for a delta that is accepted: every delta above names a bucket,  *)
(* an action that the bucket supports, no ExpectedVer and a well-typed     *)
(* patch.  The version is bumped and the delta logged.                     *)
Apply(m, d) == Logged(Bumped(Patched(m, d), d.Bucket), Entry(m, d))

=============================================================================
