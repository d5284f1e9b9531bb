------------------------------ MODULE MCRouting ------------------------------
(* A small instance of Routing for TLC. *)
EXTENDS Routing

CONSTANTS t1, t2

MCTaskType == [ t \in Tasks |-> "incident_triage" ]

MCLoopChoices == {{}, {t2}}

A(id, type, types, weight) ==
    [ ID |-> id, Type |-> type, TaskTypes |-> types, Tags |-> {}, Weight |-> weight,
      Named |-> TRUE ]

(* Three decision agents in the order 3, 2, 4: one task's outcome can swap *)
(* the first two, and the last two, but never lift the last above the      *)
(* first, which is a little more than twice the maximum away.              *)
MCAgents ==
    << A(1, "rule", {}, 0),
       A(2, "decision", {"incident_triage"}, 0),
       A(3, "decision", {"incident_triage"}, 30),
       A(4, "decision", {"incident_triage"}, -75) >>

=============================================================================
