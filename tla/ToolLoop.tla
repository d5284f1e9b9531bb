------------------------------ MODULE ToolLoop ------------------------------
(***************************************************************************)
(* What an agent loop promises to its caller: it asks for a bounded number *)
(* of tool calls, one request each, nothing is executed that it did not    *)
(* ask for, and it ends with one outcome.  An outcome that is not an error *)
(* accounts for every call the loop asked for, whether the tool answered   *)
(* or not.  A tool server that was slow may execute a call after the end.  *)
(***************************************************************************)
EXTENDS Naturals

VARIABLES
    limit,      \* tool calls this loop may ask for
    requested,  \* calls asked for so far, numbered from 1
    executed,   \* calls the tool server has executed
    outcome,    \* "running", or how the loop ended
    accounted   \* the calls the outcome tells the caller about

loopVars == <<limit, requested, executed, outcome, accounted>>

Init ==
    /\ limit \in Nat
    /\ requested = 0
    /\ executed = {}
    /\ outcome = "running"
    /\ accounted = {}

Request ==
    /\ outcome = "running"
    /\ requested < limit
    /\ requested' = requested + 1
    /\ UNCHANGED <<limit, executed, outcome, accounted>>

Execute(n) ==
    /\ n \in 1..requested
    /\ n \notin executed
    /\ executed' = executed \cup {n}
    /\ UNCHANGED <<limit, requested, outcome, accounted>>

Answer ==
    /\ outcome = "running"
    /\ outcome' = "answered"
    /\ accounted' = 1..requested
    /\ UNCHANGED <<limit, requested, executed>>

(* An error need not say what was done before it. *)
Fail ==
    /\ outcome = "running"
    /\ outcome' = "failed"
    /\ accounted' \subseteq 1..requested
    /\ UNCHANGED <<limit, requested, executed>>

Next ==
    \/ Request \/ Answer \/ Fail
    \/ \E n \in 1..requested : Execute(n)

Spec == Init /\ [][Next]_loopVars

(* Every loop ends, whatever the model and the tools do. *)
FairSpec == Spec /\ WF_loopVars(Request \/ Answer \/ Fail)

=============================================================================
