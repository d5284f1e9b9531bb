--------------------------- MODULE TaskLifecycle ---------------------------
(***************************************************************************)
(* What the clients of the orchestrator may rely on about one workflow of  *)
(* a task.  The three incident workflows implement it; TaskAPI is what the *)
(* HTTP handlers make of it.                                               *)
(***************************************************************************)
EXTENDS TaskLives

VARIABLE life

Init == life = Fresh(1)

Next == life' \in Successors(life)

Spec == Init /\ [][Next]_life

=============================================================================
