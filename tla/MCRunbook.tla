----------------------------- MODULE MCRunbook -----------------------------
(* Small instances of RunbookWorkflow for TLC. *)
EXTENDS RunbookWorkflow

Restart == [ action_type |-> "k8s_restart", deployment |-> "payments", replicas |-> 1 ]
Scale   == [ action_type |-> "k8s_scale", deployment |-> "payments", replicas |-> 2 ]
Unknown == [ action_type |-> "unknown", deployment |-> "payments", replicas |-> 1 ]

MCReplicas == {1, 2}
MCStepIDs  == {"d1", "a1", "a2"}
MCKeys     == MCStepIDs \cup {"other"}

Gated(id, op, thr) == [ ID |-> id, gate_op |-> op, gate_threshold |-> thr ]
Do(id, approval, input) ==
    [ ID |-> id, RequiresApproval |-> approval, Input |-> input ]

(* A gated restart and a scale, two restarts that NormalizeIDs gave one    *)
(* id, and an action of a type that the exec agent does not know.          *)
MCRunbooks ==
    { [ Diagnostics |-> <<Gated("d1", "<", {5})>>,
        Actions |-> <<Do("a1", TRUE, Restart), Do("a2", FALSE, Scale)>> ],
      [ Diagnostics |-> <<>>,
        Actions |-> <<Do("a1", FALSE, Restart), Do("a1", FALSE, Restart)>> ],
      [ Diagnostics |-> <<>>, Actions |-> <<Do("a2", FALSE, Unknown)>> ] }

(* Below and above the threshold, and below it but degraded. *)
MCObservations ==
    { [ Degraded |-> FALSE, Signal |-> {3} ], [ Degraded |-> FALSE, Signal |-> {7} ],
      [ Degraded |-> TRUE, Signal |-> {3} ] }

(* For either action, a rejection, and what POST /approve sends. *)
MCSignals ==
    { [ StepID |-> "a1", Approved |-> TRUE ], [ StepID |-> "a2", Approved |-> TRUE ],
      [ StepID |-> "a1", Approved |-> FALSE ], [ StepID |-> NoStep, Approved |-> TRUE ] }

(* Another task scales the same deployment. *)
MCRequests == OwnRequests \cup { [ key |-> "other", attempt |-> 1, input |-> Scale ] }

=============================================================================
