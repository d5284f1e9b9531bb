---------------------------- MODULE MCStrategies ----------------------------
(* Small instances of Strategies for TLC.  A unit of time is 5 s. *)
EXTENDS Strategies, TLC

MCToolCalls == "function_calling" :> 2 @@ "react" :> 1

Body(strategy, iterations, calls, wall, prov, user, hint) ==
    [ Strategy |-> strategy, MaxIterations |-> iterations, MaxToolCalls |-> calls,
      MaxWallTime |-> wall, Provider |-> prov, HasUser |-> user, Hint |-> hint ]

(* Default and explicit budgets of either kind for both strategies, a      *)
(* short wall time, and one body for each way to be refused.               *)
MCRequests ==
    { Body(s, 0, c, w, "", TRUE, h) :
          s \in {"", "react"}, c \in {0, 1}, w \in {0, 1}, h \in {"logs.search", NoTool} }
    \cup { Body("react", 2, 2, 0, p, TRUE, "logs.search") : p \in {"dspy", "mcp"} }
    \cup { Body("function_calling", 2, 2, 0, "dspy", TRUE, NoTool) }
    \cup { Body("unknown", 0, 0, 0, "", TRUE, NoTool), Body("", -1, 0, 0, "", TRUE, NoTool),
           Body("", 0, 0, 0, "openai", TRUE, NoTool), Body("", 0, 0, 0, "", FALSE, NoTool) }

=============================================================================
