--------------------------- MODULE DiagnosticGate ---------------------------
(***************************************************************************)
(* evalDiagnosticGate (internal/controlplane/temporal/runbook_workflow.go): *)
(* whether a diagnostic's observation lets a runbook go on.  A step without *)
(* a gate has gate_op "", a missing or unparsable threshold is {}, and     *)
(* out.Signal is {Signals[gate_signal]}, or {} if there is no such signal. *)
(***************************************************************************)
EXTENDS Integers

compareFloat(v, op, thr) ==
    CASE op = "<"  -> v < thr
      [] op = "<=" -> v <= thr
      [] op = ">"  -> v > thr
      [] op = ">=" -> v >= thr
      [] op = "==" -> v = thr
      [] op = "!=" -> v # thr
      [] OTHER     -> FALSE

(* Faulty: a degraded observation is compared all the same. *)
evalDiagnosticGateDegraded(step, out) ==
    step.gate_op # "" =>
        \E v \in out.Signal, thr \in step.gate_threshold : compareFloat(v, step.gate_op, thr)

(* A step without a gate passes; a gate fails closed. *)
evalDiagnosticGate(step, out) ==
    step.gate_op # "" =>
        /\ ~out.Degraded
        /\ \E v \in out.Signal, thr \in step.gate_threshold :
               compareFloat(v, step.gate_op, thr)

=============================================================================
