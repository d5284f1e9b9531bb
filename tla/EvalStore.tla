------------------------------ MODULE EvalStore ------------------------------
(***************************************************************************)
(* The row of eval_runs that the activities keep for one task              *)
(* (internal/eval/store.go), as a value and the operations on it.          *)
(*                                                                         *)
(* Every UPDATE leaves a missing row missing.  The row is missing when the *)
(* store is not configured or its first INSERT failed; a later single      *)
(* failed UPDATE is not distinguished.  The agent, plan and latency        *)
(* columns are only reported and left out.                                 *)
(***************************************************************************)
EXTENDS Naturals

(* status.State of IncidentWorkflow, which CompleteEval stores. *)
States == {"running", "needs_approval", "completed", "failed", "denied"}

NoRow   == [ exists |-> FALSE, status |-> "running", tool_calls |-> 0, approvals |-> 0 ]
EvalRow == [ exists : BOOLEAN, status : States, tool_calls : Nat, approvals : Nat ]

(* INSERT ... ON CONFLICT: an existing row keeps its status and counters. *)
UpsertStart(row) ==
    IF row.exists THEN row ELSE [NoRow EXCEPT !.exists = TRUE]

IncToolCalls(row) ==
    IF row.exists THEN [row EXCEPT !.tool_calls = @ + 1] ELSE row

IncApprovals(row) ==
    IF row.exists THEN [row EXCEPT !.approvals = @ + 1] ELSE row

(* Faulty: every closed task is stored as completed. *)
CompleteAsCompleted(row, status) ==
    IF row.exists THEN [row EXCEPT !.status = "completed"] ELSE row

Complete(row, status) ==
    IF row.exists THEN [row EXCEPT !.status = status] ELSE row

=============================================================================
