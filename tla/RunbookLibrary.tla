--------------------------- MODULE RunbookLibrary ---------------------------
(***************************************************************************)
(* internal/runbooks and the runbook agent that serves it                  *)
(* (cmd/control-runbook-agent/main.go): files are validated and loaded     *)
(* once, and a request gets one of them rendered and with step ids in the  *)
(* runbook's namespace.                                                    *)
(*                                                                         *)
(* An id or version is its names between colons and whether blanks         *)
(* surround it; one with no names is blank.  Names hold no colon.          *)
(***************************************************************************)
EXTENDS Integers, SequencesExt

CONSTANTS
    Names,        \* what stands between the colons of an id
    DefaultName   \* "rb-default-k8s", which the demo rule agent returns

ID == [ pad : BOOLEAN, names : Seq(Names) ]

Plain(names)  == [ pad |-> FALSE, names |-> names ]
Padded(names) == [ pad |-> TRUE, names |-> names ]
TrimSpace(id) == Plain(id.names)
Blank(id)     == id.names = <<>>

(* contracts.RunbookStep: complete says that name, task_type and the input *)
(* keys its agent needs are there; a gate is its signal, its op and the    *)
(* threshold, {} if it is missing or no number.                            *)
Ops == {"<", "<=", ">", ">=", "==", "!="}

-----------------------------------------------------------------------------
(* ValidateRunbook. *)

Steps(rb) == rb.Diagnostics \o rb.Actions

ValidGate(s) ==
    \/ s.gate_signal = "" /\ s.gate_op = ""
    \/ s.gate_signal # "" /\ s.gate_op \in Ops /\ s.gate_threshold # {}

ValidStep(s) ==
    /\ ~Blank(s.ID)
    /\ s.complete
    /\ s.Agent \in {"observability", "exec"}
    /\ ValidGate(s)

(* Ids are compared as they stand in the file. *)
DistinctIDs(steps) == \A i, j \in DOMAIN steps : steps[i].ID = steps[j].ID => i = j

(* Faulty: diagnostics and actions are checked for duplicates apart. *)
ValidateRunbookApart(rb) ==
    /\ ~Blank(rb.ID) /\ ~Blank(rb.Version)
    /\ Steps(rb) # <<>>
    /\ \A i \in DOMAIN Steps(rb) : ValidStep(Steps(rb)[i])
    /\ DistinctIDs(rb.Diagnostics) /\ DistinctIDs(rb.Actions)

ValidateRunbook(rb) ==
    /\ ~Blank(rb.ID) /\ ~Blank(rb.Version)
    /\ Steps(rb) # <<>>
    /\ \A i \in DOMAIN Steps(rb) : ValidStep(Steps(rb)[i])
    /\ DistinctIDs(Steps(rb))

-----------------------------------------------------------------------------
(* LoadDir: all runbooks of the directory, keyed by their id as it stands, *)
(* or an error if a file is broken or invalid, or if there is none.  Other *)
(* entries are passed over; a runbook without a name counts as broken.     *)
RunbookFiles(dir) == { f \in dir : f.kind # "other" }

Loads(dir) ==
    /\ RunbookFiles(dir) # {}
    /\ \A f \in RunbookFiles(dir) : f.kind = "runbook" /\ ValidateRunbook(f.rb)
    /\ \A f, g \in RunbookFiles(dir) : f.rb.ID = g.rb.ID => f = g

LoadDir(dir) == { f.rb : f \in RunbookFiles(dir) }

-----------------------------------------------------------------------------
(* Render, on the strings that the other definitions look at.  vars maps   *)
(* placeholders to their values.                                           *)
Replace(text, vars) == IF text \in DOMAIN vars THEN vars[text] ELSE text

renderStep(s, vars) == [ s EXCEPT !.query.text = Replace(@, vars) ]

Render(rb, vars) ==
    [ rb EXCEPT !.Diagnostics = [ i \in DOMAIN @ |-> renderStep(@[i], vars) ],
                !.Actions     = [ i \in DOMAIN @ |-> renderStep(@[i], vars) ] ]

-----------------------------------------------------------------------------
(* NormalizeIDs.  A step id that starts with "id:version:" is left as it   *)
(* is, blanks included.                                                    *)
Namespace(rb) == rb.ID.names \o rb.Version.names

Within(names, prefix) == IsPrefix(prefix, names) /\ names # prefix

normalizeStepID(prefix, s) ==
    IF Within(s.ID.names, prefix) THEN s ELSE [ s EXCEPT !.ID = Plain(prefix \o @.names) ]

NormalizeIDs(rb) ==
    [ rb EXCEPT
        !.Diagnostics = [ i \in DOMAIN @ |-> normalizeStepID(Namespace(rb), @[i]) ],
        !.Actions     = [ i \in DOMAIN @ |-> normalizeStepID(Namespace(rb), @[i]) ] ]

-----------------------------------------------------------------------------
(* The runbook agent: its default, chosen when it starts, and its answer,  *)
(* {} for an unknown runbook.                                              *)

(* StableFirstID is the smallest id: some id, always the same one. *)
StableFirstID(ids) == CHOOSE id \in ids : TRUE

DefaultID(env, rbs) ==
    LET ids == { rb.ID : rb \in rbs } IN
    IF ~Blank(env) THEN TrimSpace(env)
    ELSE IF Plain(<<DefaultName>>) \in ids THEN Plain(<<DefaultName>>)
    ELSE StableFirstID(ids)

Serve(rbs, default, asked, vars) ==
    LET id == IF Blank(asked) THEN default ELSE TrimSpace(asked) IN
    { NormalizeIDs(Render(rb, vars)) : rb \in { r \in rbs : r.ID = id } }

=============================================================================
