----------------------------- MODULE TaskLives -----------------------------
(***************************************************************************)
(* How the workflow of a task may live, whichever of the task types it is: *)
(* the status and the result that its query handlers tell, the runs that   *)
(* ContinueAsNew chains, and the outcome Temporal keeps.                   *)
(***************************************************************************)
EXTENDS Naturals

CONSTANTS
    Open,       \* status.State of a function at work
    Artifacts   \* what the artifact of a completed or denied task may say

Final == {"completed", "failed", "denied"}

ASSUME LivesAssumption ==
    /\ "running" \in Open /\ Open \cap Final = {}
    /\ DOMAIN Artifacts = {"completed", "denied"}
    /\ \A s \in DOMAIN Artifacts : Artifacts[s] \cap {"empty", "open", "error"} = {}

Fresh(n) == [ run |-> n, status |-> "running", result |-> "empty", outcome |-> "open" ]

(* The function goes on: its status moves between the open states. *)
Moved(l) == { [ l EXCEPT !.status = s ] : s \in Open }

Ending(l, status, result) ==
    [ run |-> l.run, status |-> status, result |-> result, outcome |-> l.outcome ]

(* It decides how it ends.  A failure has no result; another end may leave *)
(* the result to what the function returns.                                *)
Ended(l) ==
    { Ending(l, "failed", l.result) }
    \cup (UNION { { Ending(l, s, r) : r \in Artifacts[s] \cup {"empty"} } :
                    s \in {"completed", "denied"} })

(* It returns: what it told as its result is what it returns. *)
Outcomes(l) ==
    IF l.status = "failed" THEN {"error"}
    ELSE IF l.result = "empty" THEN Artifacts[l.status] ELSE {l.result}

Closed(l) == { [ l EXCEPT !.outcome = o ] : o \in Outcomes(l) }

(* ContinueAsNew: another run, which knows nothing of this one.  The       *)
(* status was set to failed before.                                        *)
Renewed(l) == { Fresh(l.run + 1) }

(* A task that is completed or denied can only return so; one that failed  *)
(* ends in an error or is tried again.                                     *)
Successors(l) ==
    IF l.outcome # "open" THEN {}
    ELSE IF l.status = "failed" THEN Closed(l) \cup Renewed(l)
    ELSE IF l.status \in Final THEN Closed(l)
    ELSE Moved(l) \cup Ended(l) \cup (UNION { Closed(e) : e \in Ended(l) })

=============================================================================
