----------------------------- MODULE Diagnosis -----------------------------
(***************************************************************************)
(* What a runbook run sees of its read-only agents: the runbook agent      *)
(* loads its directory and serves a runbook; then each of the runbook's    *)
(* diagnostics goes to the observability agent, whose answer its gate      *)
(* judges.  RunbookWorkflow takes both agents' answers as constants; here  *)
(* they are computed from the files and from what the backends answer.     *)
(***************************************************************************)
EXTENDS RunbookLibrary, ObservabilityAgent, DiagnosticGate

CONSTANTS
    Dirs,         \* contents of RUNBOOKS_DIR
    Envs,         \* values of RUNBOOK_DEFAULT_ID
    Asked,        \* runbook ids the rule agent may name
    Services,     \* services of tasks
    Answers,      \* what Prometheus and Loki may answer
    Configured    \* the backends the observability agent may know

(* contracts.Runbook, as far as it is looked at. *)
Query == [ type : STRING, text : STRING,
           params : [ mode : STRING, start : SUBSET ({Bad} \cup Int), end : SUBSET ({Bad} \cup Int),
                      step : SUBSET ({Bad} \cup Int), range : SUBSET ({Bad} \cup Int),
                      range_seconds : SUBSET ({Bad} \cup Int) ] ]

RunbookStep == [ ID : ID, complete : BOOLEAN, Agent : STRING, gate_signal : STRING,
                 gate_op : STRING, gate_threshold : SUBSET Int, query : Query ]

Runbook == [ ID : ID, Version : ID, Diagnostics : Seq(RunbookStep), Actions : Seq(RunbookStep) ]

ASSUME DiagnosisAssumption ==
    /\ \A dir \in Dirs : \A f \in dir : f.kind = "runbook" => f.rb \in Runbook
    /\ Services \subseteq STRING
    /\ \A answer \in Answers : answer.type = "matrix" => answer.result \in Matrix

VARIABLES
    pc,          \* "load", "ask", "diagnose", "act" or "closed"
    dir, env,    \* what the runbook agent finds when it starts
    configured,  \* backends of the observability agent
    rbs,         \* RunbookAgent.Runbooks
    default,     \* RunbookAgent.DefaultID
    served,      \* the runbook of the task
    seen         \* one entry per diagnostic: what came of it

vars == <<pc, dir, env, configured, rbs, default, served, seen>>

NoAnswer  == Answer("unreachable", "", <<>>)
NoRunbook == [ Diagnostics |-> <<>>, Actions |-> <<>> ]

Init ==
    /\ pc = "load"
    /\ dir \in Dirs /\ env \in Envs /\ configured \in Configured
    /\ rbs = {} /\ default = Plain(<<>>)
    /\ served = NoRunbook /\ seen = <<>>

(* The agent starts; log.Fatalf without a loadable library. *)
Load ==
    /\ pc = "load"
    /\ IF Loads(dir)
       THEN /\ rbs' = LoadDir(dir)
            /\ default' = DefaultID(env, LoadDir(dir))
            /\ pc' = "ask"
       ELSE pc' = "closed" /\ UNCHANGED <<rbs, default>>
    /\ UNCHANGED <<dir, env, configured, served, seen>>

(* CallRunbookAgentActivity. *)
Ask(asked, service) ==
    LET found == Serve(rbs, default, asked, [ x \in {"{{service}}"} |-> service ]) IN
    /\ pc = "ask"
    /\ IF found = {} THEN pc' = "closed" /\ UNCHANGED served
       ELSE served' \in found /\ pc' = "diagnose"
    /\ UNCHANGED <<dir, env, configured, rbs, default, seen>>

(* The workflow's view of an output: the signal its gate looks at. *)
Judged(step, out) ==
    [ Degraded |-> out.Degraded,
      Signal |-> IF step.gate_signal \in DOMAIN out.Signals
                 THEN {out.Signals[step.gate_signal]} ELSE {} ]

(* CallObservabilityAgentActivity on the next diagnostic and its gate.  An *)
(* output that cannot be encoded is an error of the activity, and an error *)
(* skips the gate.                                                         *)
Diagnose(answer) ==
    LET step == served.Diagnostics[Len(seen) + 1]
        out  == execute(configured, step.query, answer)
        entry(verdict) == [ step |-> step, answer |-> answer, out |-> out, verdict |-> verdict ]
    IN
    /\ pc = "diagnose"
    /\ Len(seen) < Len(served.Diagnostics)
    /\ IF ~Encodable(out)
       THEN seen' = Append(seen, entry("error")) /\ UNCHANGED pc
       ELSE IF evalDiagnosticGate(step, Judged(step, out))
       THEN seen' = Append(seen, entry("passed")) /\ UNCHANGED pc
       ELSE seen' = Append(seen, entry("failed")) /\ pc' = "closed"
    /\ UNCHANGED <<dir, env, configured, rbs, default, served>>

(* The agent is not reached: an error as well. *)
Unreached ==
    /\ pc = "diagnose"
    /\ Len(seen) < Len(served.Diagnostics)
    /\ seen' = Append(seen, [ step |-> served.Diagnostics[Len(seen) + 1],
                              answer |-> NoAnswer, out |-> Degraded, verdict |-> "error" ])
    /\ UNCHANGED <<pc, dir, env, configured, rbs, default, served>>

Act ==
    /\ pc = "diagnose"
    /\ Len(seen) = Len(served.Diagnostics)
    /\ pc' = "act"
    /\ UNCHANGED <<dir, env, configured, rbs, default, served, seen>>

Next ==
    \/ Load
    \/ \E asked \in Asked, service \in Services : Ask(asked, service)
    \/ \E answer \in Answers : Diagnose(answer)
    \/ Unreached
    \/ Act

Spec == Init /\ [][Next]_vars

-----------------------------------------------------------------------------
(* Properties. *)

(* A file's ids say what they mean: no blanks around them, and none that   *)
(* starts with the runbook's own namespace.                                *)
WellNamed(rb) ==
    \A i \in DOMAIN Steps(rb) :
        ~Steps(rb)[i].ID.pad /\ ~Within(Steps(rb)[i].ID.names, Namespace(rb))

Source == CHOOSE f \in RunbookFiles(dir) : f.rb.ID = served.ID

(* Every step of a served runbook has an id of its own in the namespace of *)
(* its runbook, so that approvals, records and idempotency keys of two     *)
(* steps cannot be mixed up, if the file's ids are well named.  Otherwise  *)
(* two steps may end up with one id (NormalizeIDs after ValidateRunbook).  *)
StepsKeepTheirNames ==
    pc \in {"diagnose", "act"} =>
        /\ \A i \in DOMAIN Steps(served) : Within(Steps(served)[i].ID.names, Namespace(served))
        /\ WellNamed(Source.rb) => DistinctIDs(Steps(served))

(* The reference for a gate on "value": the numbers of a vector, or each   *)
(* series' own last number, added up; lines for streams.                   *)
LastOf(series) ==
    LET ps == NumericPoints(series) IN
    (CHOOSE p \in ps : \A q \in ps : q.t <= p.t).v

TrueTotal(answer) ==
    CASE answer.type = "matrix" ->
             Total([ k \in Readable(answer.result) |-> LastOf(answer.result[k]) ],
                   Readable(answer.result))
      [] OTHER -> Total(answer.result, Readable(answer.result))

(* All series of a matrix end with a sample at one timestamp.  Without it  *)
(* the last sum leaves out the series that ended earlier.                  *)
Aligned(answer) ==
    answer.type = "matrix" =>
        LET times == UNION { { p.t : p \in NumericPoints(answer.result[k]) } :
                                 k \in Readable(answer.result) }
        IN
        \E t \in times : \A k \in Readable(answer.result) :
            /\ \E p \in NumericPoints(answer.result[k]) : p.t = t
            /\ \A p \in NumericPoints(answer.result[k]) : p.t <= t

(* A gate that passes has seen sound data: a configured backend answered   *)
(* with success to a query that was not blank, and, for aligned series,    *)
(* the true total of its numbers holds the comparison of the runbook.      *)
GatesPassOnTruth ==
    \A n \in DOMAIN seen :
        LET e == seen[n] IN
        e.verdict = "passed" /\ e.step.gate_op # "" =>
            /\ e.answer.kind = "ok"
            /\ e.step.query.text # ""
            /\ Engine(e.step.query) \in configured
            /\ e.step.gate_signal = "value" /\ Aligned(e.answer) =>
                   \E thr \in e.step.gate_threshold :
                       compareFloat(TrueTotal(e.answer), e.step.gate_op, thr)

(* "workflow will fail closed if observability is degraded or signal       *)
(* missing", says the default runbook of its gate: the actions are reached *)
(* only if every gate was judged, and passed.                              *)
GateFailsClosed ==
    pc = "act" =>
        \A n \in DOMAIN served.Diagnostics :
            served.Diagnostics[n].gate_op # "" => seen[n].verdict = "passed"

=============================================================================
