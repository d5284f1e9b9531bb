---------------------------- MODULE MCDiagnosis ----------------------------
(* Instance of Diagnosis for TLC. *)
EXTENDS Diagnosis

CONSTANTS rb1, v1, d1, a1   \* names

MCNames == {rb1, v1, d1, a1, DefaultName}
Params(start, end, step, range) ==
    [ NoParams EXCEPT !.start = start, !.end = end, !.step = step, !.range = range ]

Instant == NoParams
Window  == Params({}, {}, {}, {5})
NoStep  == Params({1}, {2}, {}, {})
Backwards == Params({2}, {1}, {1}, {})

Step(id, agent, type, text, params, signal, op, thr) ==
    [ ID |-> id, complete |-> TRUE, Agent |-> agent,
      gate_signal |-> signal, gate_op |-> op, gate_threshold |-> thr,
      query |-> [ type |-> type, text |-> text, params |-> params ] ]

Action(id) == Step(id, "exec", "", "", NoParams, "", "", {})

Diag(id, type, text, params, op) ==
    Step(id, "observability", type, text, params, "value", op, {2})

RB(id, diagnostics, actions) ==
    [ ID |-> id, Version |-> Plain(<<v1>>), Diagnostics |-> diagnostics, Actions |-> actions ]

File(rb) == [ kind |-> "runbook", rb |-> rb ]
Broken   == [ kind |-> "broken", rb |-> NoRunbook ]
Readme   == [ kind |-> "other", rb |-> NoRunbook ]

D(params, op) == Diag(Plain(<<d1>>), "promql", "q", params, op)

(* Two diagnostics, the second without a gate; ids in the namespace, with  *)
(* blanks and with a colon; one id used twice.                             *)
Gated == {
    RB(Plain(<<DefaultName>>), << D(p, op) >>, << Action(Plain(<<a1>>)) >>) :
        p \in {Instant, Window, NoStep, Backwards}, op \in {"<=", ">"} }

Named == {
    RB(Plain(<<rb1>>), << Diag(i, "loki", "{{service}}", Window, "<=") >>, << Action(j) >>) :
        i, j \in { Plain(<<a1>>), Padded(<<a1>>), Plain(<<rb1, v1, a1>>), Plain(<<v1, a1>>) } }

Others == {
    RB(Padded(<<rb1>>), << D(Instant, "<=") >>, << Action(Plain(<<a1>>)) >>),
    RB(Plain(<<rb1>>), << D(Instant, "<="),
                          Step(Plain(<<v1>>), "observability", "sql", "q", NoParams, "", "", {}) >>, <<>>),
    RB(Plain(<<>>), <<>>, << Action(Plain(<<a1>>)) >>),
    RB(Plain(<<rb1>>), <<>>, <<>>) }

MCDirs ==
    { {File(rb)} : rb \in Gated \cup Named \cup Others }
    \cup { {File(r), File(n), Readme} : r \in { CHOOSE g \in Gated : TRUE }, n \in Named }
    \cup { {}, {Readme}, {Broken, File(CHOOSE g \in Gated : TRUE)} }

MCEnvs  == { Plain(<<>>), Padded(<<rb1>>), Plain(<<a1>>) }
MCAsked == { Plain(<<>>), Plain(<<DefaultName>>), Padded(<<rb1>>) }
MCServices == { "", "svc" }
MCConfigured == SUBSET {"prometheus", "loki"}

At(t, v) == [ t |-> t, v |-> v ]

Vectors == { <<>>, <<1>>, <<2, 1>>, <<Bad, 1>>, <<Bad>>, <<NaN, 1>> }
Matrices == { <<>>, << {At(1, 3), At(2, 1)} >>,
              << {At(1, 1), At(2, 1)}, {At(2, 2)} >>,      \* aligned
              << {At(1, 3)}, {At(1, 1), At(2, 1)} >>,      \* one ends earlier
              << {At(1, NaN), At(2, 1)} >>,
              << {At(1, 1), At(2, Bad)}, Bad >> }

MCAnswers ==
    { NoAnswer, Answer("undecodable", "", <<>>), Answer("http_error", "", <<>>),
      Answer("http_error", "vector", <<1>>), Answer("ok", "scalar", <<>>) }
    \cup { Answer("ok", "vector", v) : v \in Vectors }
    \cup { Answer("ok", "matrix", m) : m \in Matrices }
    \cup { Answer("ok", "streams", s) : s \in { <<>>, <<2, Bad, 1>> } }

=============================================================================
