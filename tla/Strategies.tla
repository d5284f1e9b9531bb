----------------------------- MODULE Strategies -----------------------------
(***************************************************************************)
(* POST /strategy/run (cmd/control-orchestrator/main.go) and the loops it  *)
(* runs (internal/agent/strategy): a model decides between an answer and a *)
(* tool call, the tool's result goes into the conversation, and so on      *)
(* until an answer or a budget.  Model and tools are asked over HTTP under *)
(* one context deadline; a request that was given up may still be executed.*)
(*                                                                         *)
(* Tool calls are numbered in the order in which the loop makes them.      *)
(***************************************************************************)
EXTENDS Naturals, Integers, Sequences, FiniteSets

CONSTANTS
    Tools,              \* names in the catalog, other than llm.chat
    NoTool,             \* ToolCall = nil
    Unnamed,            \* a ToolCall whose Name is ""
    Requests,           \* the bodies clients send
    ConfigProvider,     \* cfg.Reasoning.Provider
    DefaultIterations,  \* 8 in the code
    DefaultToolCalls,   \* 8 for function calling, 6 for ReAct
    DefaultWallTime,    \* 20 s, as is the context's
    ContextTimeout,
    WriteTimeout,       \* the HTTP server's, 15 s
    MaxClock            \* bound: how far time is followed

Modes == {"function_calling", "react"}

(* A body: strategy, budget, provider, whether its messages hold a         *)
(* non-empty one of the user, and the tool its last one hints at.          *)
Request == [ Strategy : Modes \cup {"", "unknown"},
             MaxIterations : Int, MaxToolCalls : Int, MaxWallTime : Int,
             Provider : {"", "mcp", "dspy", "openai"},
             HasUser : BOOLEAN, Hint : Tools \cup {NoTool} ]

ASSUME StrategiesAssumption ==
    /\ NoTool \notin Tools /\ Unnamed \notin Tools /\ NoTool # Unnamed
    /\ Requests \subseteq Request
    /\ DefaultIterations \in Nat \ {0}
    /\ DefaultToolCalls \in [Modes -> Nat \ {0}]
    /\ DefaultWallTime \in Nat /\ ContextTimeout \in Nat
    /\ WriteTimeout \in Nat /\ MaxClock \in Nat

VARIABLES
    req,        \* the request's body
    pc,         \* where the handler is
    tools,      \* the catalog of this request
    clock,      \* time since the request came
    start,      \* when Run started
    iter,       \* loop variable
    toolCalls,  \* tool calls made
    messages,   \* tool messages appended to the conversation
    outputs,    \* toolOutputs
    trace,      \* trace.Iterations
    reported,   \* ToolOutputs of the Result that is returned
    response,   \* what the handler answers: "none", an HTTP error, ...
    delivered,  \* whether the answer was written before the WriteTimeout
    inflight,   \* tool requests the MCP server has not dealt with
    executed    \* calls whose tool has run

server == <<inflight, executed>>
history == <<messages, outputs, trace>>
answer == <<reported, response, delivered>>
vars == <<req, pc, tools, clock, start, iter, toolCalls, history, answer, server>>

PC == {"request", "list", "head", "decide", "tool", "done"}
Responses == {"none", "rejected", "final", "partial", "error"}

(* An IterationTrace: the call made in it, 0 if none, and its StopReason. *)
TraceEntry == [ call : Nat, stop : {"", "final", "error", "max_wall_time", "max_tool_calls"} ]

(* A ToolCallOut, and as well the tool message for the model. *)
ToolOut == [ call : Nat, err : BOOLEAN ]

Init ==
    /\ req \in Requests
    /\ pc = "request"
    /\ tools = {}
    /\ clock = 0 /\ start = 0 /\ iter = 1 /\ toolCalls = 0
    /\ messages = <<>> /\ outputs = <<>> /\ trace = <<>>
    /\ reported = <<>> /\ response = "none" /\ delivered = FALSE
    /\ inflight = {} /\ executed = {}

-----------------------------------------------------------------------------
(* Defaults. *)

mode     == IF req.Strategy = "" THEN "function_calling" ELSE req.Strategy
provider == CASE req.Provider # ""   -> req.Provider
              [] ConfigProvider # "" -> ConfigProvider
              [] OTHER               -> "mcp"

OrDefault(n, default) == IF n <= 0 THEN default ELSE n

MaxIterations == OrDefault(req.MaxIterations, DefaultIterations)
MaxToolCalls  == OrDefault(req.MaxToolCalls, DefaultToolCalls[mode])
MaxWallTime   == OrDefault(req.MaxWallTime, DefaultWallTime)

Expired == clock >= ContextTimeout

-----------------------------------------------------------------------------
(* The end of the handler: what it returns and whether the client, whose   *)
(* connection the server drops at the WriteTimeout, receives it.           *)
Respond(kind, outs) ==
    /\ pc' = "done"
    /\ response' = kind
    /\ reported' = outs
    /\ delivered' = (clock < WriteTimeout)

validateStrategyRunRequest ==
    /\ req.Strategy # "unknown"
    /\ req.MaxIterations >= 0 /\ req.MaxToolCalls >= 0 /\ req.MaxWallTime >= 0
    /\ req.Provider # "openai"
    /\ req.HasUser

Validate ==
    /\ pc = "request"
    /\ IF validateStrategyRunRequest
       THEN pc' = "list" /\ UNCHANGED answer
       ELSE Respond("rejected", <<>>)
    /\ UNCHANGED <<req, tools, clock, start, iter, toolCalls, history, server>>

(* The llm.chat tool is wanted only by the provider that calls it; a       *)
(* provider of the configuration is checked after the tools were listed.   *)
ListTools(listed, hasChat) ==
    /\ pc = "list"
    /\ ~Expired
    /\ IF (provider = "mcp" /\ hasChat) \/ provider = "dspy"
       THEN /\ pc' = "head"
            /\ tools' = listed
            /\ start' = clock
            /\ UNCHANGED answer
       ELSE /\ Respond("rejected", <<>>)
            /\ UNCHANGED <<tools, start>>
    /\ UNCHANGED <<req, clock, iter, toolCalls, history, server>>

ListToolsError ==
    /\ pc = "list"
    /\ Respond("rejected", <<>>)
    /\ UNCHANGED <<req, tools, clock, start, iter, toolCalls, history, server>>

-----------------------------------------------------------------------------
(* The head of the loop: the budgets.                                      *)

TooLong   == clock - start > MaxWallTime

(* Faulty: the budget is off by one. *)
TooManyCallsLate == mode = "function_calling" /\ toolCalls > MaxToolCalls

(* Only function calling looks at its tool calls here. *)
TooManyCalls == mode = "function_calling" /\ toolCalls >= MaxToolCalls

LoopHead ==
    /\ pc = "head"
    /\ iter <= MaxIterations
    /\ ~TooLong /\ ~TooManyCalls
    /\ pc' = "decide"
    /\ UNCHANGED <<req, tools, clock, start, iter, toolCalls, history, answer, server>>

(* A budget ends the loop with an entry in the trace, ... *)
BudgetHit ==
    /\ pc = "head"
    /\ iter <= MaxIterations
    /\ TooLong \/ TooManyCalls
    /\ trace' = Append(trace, [ call |-> 0,
                    stop |-> IF TooLong THEN "max_wall_time" ELSE "max_tool_calls" ])
    /\ Respond("partial", outputs)
    /\ UNCHANGED <<req, tools, clock, start, iter, toolCalls, messages, outputs, server>>

(* ... and the last iteration without one. *)
LoopEnd ==
    /\ pc = "head"
    /\ iter > MaxIterations
    /\ Respond("partial", outputs)
    /\ UNCHANGED <<req, tools, clock, start, iter, toolCalls, history, server>>

-----------------------------------------------------------------------------
(* Decide.  A ModelDecision: has a FinalAnswer, and its ToolCall.          *)

ModelDecision == [ final : BOOLEAN, tool : Tools \cup {NoTool, Unnamed} ]

(* llm.chat's answer: a tool call without a name is no tool call. *)
MCPDecisions == [ final : BOOLEAN, tool : Tools \cup {NoTool} ]

(* The reasoning service's: an empty decision is an error. *)
DSPyDecisions == ModelDecision \ { [ final |-> FALSE, tool |-> NoTool ] }

Decisions == IF provider = "mcp" THEN MCPDecisions ELSE DSPyDecisions

DecideError ==
    /\ pc = "decide"
    /\ trace' = Append(trace, [ call |-> 0, stop |-> "error" ])
    /\ Respond("error", <<>>)
    /\ UNCHANGED <<req, tools, clock, start, iter, toolCalls, messages, outputs, server>>

DecideFinal(dec) ==
    /\ pc = "decide"
    /\ ~Expired
    /\ dec.final /\ dec.tool = NoTool
    /\ trace' = Append(trace, [ call |-> 0, stop |-> "final" ])
    /\ Respond("final", outputs)
    /\ UNCHANGED <<req, tools, clock, start, iter, toolCalls, messages, outputs, server>>

(* The request of a tool call goes to the MCP server. *)
CallTool ==
    /\ toolCalls' = toolCalls + 1
    /\ inflight' = inflight \cup {toolCalls + 1}
    /\ pc' = "tool"
    /\ UNCHANGED <<req, tools, clock, start, iter, history, answer, executed>>

(* A tool call goes before an answer that came with it. *)
DecideTool(dec) ==
    /\ pc = "decide"
    /\ ~Expired
    /\ dec.tool \in Tools
    /\ CallTool

Undecided(dec) == dec.tool = Unnamed \/ (dec.tool = NoTool /\ ~dec.final)

(* Neither an answer nor a tool: an error in function calling. *)
DecideNeither(dec) ==
    /\ pc = "decide"
    /\ ~Expired
    /\ mode = "function_calling" /\ Undecided(dec)
    /\ trace' = Append(trace, [ call |-> 0, stop |-> "error" ])
    /\ Respond("error", <<>>)
    /\ UNCHANGED <<req, tools, clock, start, iter, toolCalls, messages, outputs, server>>

(* pickToolHeuristic on latestUserText: the tool the text hints at, if the *)
(* catalog has it.                                                         *)
pickToolHeuristic == IF req.Hint \in tools THEN req.Hint ELSE NoTool

(* ReAct then picks a tool itself, within the budget, ... *)
PickTool(dec) ==
    /\ pc = "decide"
    /\ ~Expired
    /\ mode = "react" /\ Undecided(dec)
    /\ toolCalls < MaxToolCalls
    /\ pickToolHeuristic # NoTool
    /\ CallTool

(* ... or ends: at the budget without an answer, without a tool with the   *)
(* user's own text as the answer.                                          *)
PickNone(dec) ==
    /\ pc = "decide"
    /\ ~Expired
    /\ mode = "react" /\ Undecided(dec)
    /\ \/ /\ toolCalls >= MaxToolCalls
          /\ trace' = Append(trace, [ call |-> 0, stop |-> "max_tool_calls" ])
          /\ Respond("partial", outputs)
       \/ /\ toolCalls < MaxToolCalls /\ pickToolHeuristic = NoTool
          /\ trace' = Append(trace, [ call |-> 0, stop |-> "final" ])
          /\ Respond("final", outputs)
    /\ UNCHANGED <<req, tools, clock, start, iter, toolCalls, messages, outputs, server>>

-----------------------------------------------------------------------------
(* Faulty: an error is left out of the trace. *)
ToolEndsUntraced(err) ==
    LET out == [ call |-> toolCalls, err |-> err ] IN
    /\ outputs' = Append(outputs, out)
    /\ messages' = Append(messages, out)
    /\ trace' = IF err THEN trace ELSE Append(trace, [ call |-> toolCalls, stop |-> "" ])
    /\ iter' = iter + 1
    /\ pc' = "head"
    /\ UNCHANGED <<req, tools, clock, start, toolCalls, answer, server>>

(* The result of a tool call, or its error, goes to the outputs, to the    *)
(* conversation and to the trace.                                          *)

ToolEnds(err) ==
    LET out == [ call |-> toolCalls, err |-> err ] IN
    /\ outputs' = Append(outputs, out)
    /\ messages' = Append(messages, out)
    /\ trace' = Append(trace, [ call |-> toolCalls, stop |-> "" ])
    /\ iter' = iter + 1
    /\ pc' = "head"
    /\ UNCHANGED <<req, tools, clock, start, toolCalls, answer, server>>

ToolResult ==
    /\ pc = "tool"
    /\ ~Expired
    /\ toolCalls \in executed
    /\ ToolEnds(FALSE)

(* The server refused it, its answer was lost, or the context expired. *)
ToolError ==
    /\ pc = "tool"
    /\ ToolEnds(TRUE)

-----------------------------------------------------------------------------
(* The MCP server and time.                                                *)

ServerExecutes(n) ==
    /\ n \in inflight
    /\ inflight' = inflight \ {n}
    /\ executed' = executed \cup {n}
    /\ UNCHANGED <<req, pc, tools, clock, start, iter, toolCalls, history, answer>>

(* A request that never arrives, or for a tool the server does not have. *)
ServerRefuses(n) ==
    /\ n \in inflight
    /\ inflight' = inflight \ {n}
    /\ UNCHANGED <<req, pc, tools, clock, start, iter, toolCalls, history, answer, executed>>

Tick ==
    /\ pc \in {"list", "decide", "tool"}
    /\ clock < MaxClock
    /\ clock' = clock + 1
    /\ UNCHANGED <<req, pc, tools, start, iter, toolCalls, history, answer, server>>

Handler ==
    \/ Validate
    \/ ListToolsError \/ \E listed \in SUBSET Tools, hasChat \in BOOLEAN : ListTools(listed, hasChat)
    \/ LoopHead \/ BudgetHit \/ LoopEnd
    \/ DecideError
    \/ \E dec \in Decisions :
          \/ DecideFinal(dec) \/ DecideTool(dec) \/ DecideNeither(dec)
          \/ PickTool(dec) \/ PickNone(dec)
    \/ ToolResult \/ ToolError

Next ==
    \/ Handler
    \/ \E n \in inflight : ServerExecutes(n) \/ ServerRefuses(n)
    \/ Tick

Spec == Init /\ [][Next]_vars

(* Every wait of the handler ends: an HTTP client gives up at its timeout. *)
FairSpec == Spec /\ WF_vars(Handler)

-----------------------------------------------------------------------------
(* Properties. *)

TypeOK ==
    /\ req \in Requests
    /\ pc \in PC
    /\ tools \subseteq Tools
    /\ clock \in Nat /\ start \in Nat
    /\ iter \in Nat \ {0} /\ toolCalls \in Nat
    /\ messages \in Seq(ToolOut) /\ outputs \in Seq(ToolOut) /\ reported \in Seq(ToolOut)
    /\ trace \in Seq(TraceEntry)
    /\ response \in Responses /\ delivered \in BOOLEAN
    /\ inflight \subseteq Nat /\ executed \subseteq Nat

(* The number of tool calls that the loops keep to: one in each iteration, *)
(* and in function calling MaxToolCalls, which its head checks.  ReAct     *)
(* compares MaxToolCalls only with the calls it picks itself; those that   *)
(* its model asks for have no other limit than the iterations, although    *)
(* the budget is documented for them too (ToolBudgetKept).                 *)
CallLimit ==
    IF mode = "function_calling" /\ MaxToolCalls < MaxIterations
    THEN MaxToolCalls ELSE MaxIterations

(* The calls that a list of outputs tells of. *)
CallsIn(outs) == { outs[k].call : k \in DOMAIN outs }

LoopOutcome ==
    IF response = "none" THEN "running"
    ELSE IF response \in {"final", "partial"} THEN "answered" ELSE "failed"

(* A strategy run keeps the promise of ToolLoop: it makes a bounded number *)
(* of calls (CallLimit, which is not always the MaxToolCalls asked for),   *)
(* answers once, completely unless it failed, and it ends (Run of either   *)
(* strategy).                                                              *)
Loop == INSTANCE ToolLoop WITH
            limit     <- CallLimit,
            requested <- toolCalls,
            executed  <- executed,
            outcome   <- LoopOutcome,
            accounted <- CallsIn(reported)

KeepsLoopPromise == Loop!FairSpec

(* The trace has an entry for call n. *)
Traced(tr, n) == \E k \in DOMAIN tr : tr[k].call = n

(* What a tool did is never unaccounted for: each executed call is the one *)
(* being waited for or has its entry in the trace, which every outcome     *)
(* carries, errors included ("Trace is structured only" and complete).     *)
CallsAreTraced ==
    \A n \in executed :
        \/ pc = "tool" /\ n = toolCalls
        \/ Traced(trace, n)

(* Whenever the model is asked, the conversation shows it every call made  *)
(* so far once, in order, and those that the caller would be told of.      *)
ModelSeesResults ==
    pc = "decide" =>
        /\ Len(messages) = toolCalls
        /\ \A k \in DOMAIN messages : messages[k].call = k
        /\ messages = outputs

(* No call is hidden: not from the caller, whose trace shows each one that *)
(* had an effect, nor from the model, which decides only after it was told *)
(* what came of all calls before, errors and time-outs included.           *)
CallsAreKnown == CallsAreTraced /\ ModelSeesResults

(* "Respect strategy budgets: MaxWallTime, MaxToolCalls, MaxIterations"    *)
(* (docs/TOOL_EXECUTION_POLICY.md): a run makes no more tool calls than    *)
(* its budget has, whoever asked for them.                                 *)
ToolBudgetKept == mode \in Modes => toolCalls <= MaxToolCalls

=============================================================================
