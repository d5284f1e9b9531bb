------------------------- MODULE Strategies_proofs -------------------------
(***************************************************************************)
(* Proofs that a strategy run keeps its safety invariants and the safety   *)
(* part of the promise of ToolLoop, for all requests, budgets and catalogs.*)
(***************************************************************************)
EXTENDS Strategies, TLAPS

(* Calls that have ended: all but the one being waited for. *)
Ended == IF pc = "tool" THEN toolCalls - 1 ELSE toolCalls

(* Each ended call has its place in the outputs, in the conversation and,  *)
(* somewhere, in the trace.                                                *)
RecordsInv ==
    /\ Len(outputs) = Ended
    /\ \A k \in DOMAIN outputs : outputs[k].call = k
    /\ messages = outputs
    /\ \A n \in 1..Ended : Traced(trace, n)

(* The server deals with calls that were made, each of them once. *)
ServerInv ==
    /\ inflight \subseteq 1..toolCalls
    /\ executed \subseteq 1..toolCalls
    /\ inflight \cap executed = {}

(* One call per iteration, and no more than the budget in function calling.*)
BudgetInv ==
    /\ pc \in {"request", "list"} => toolCalls = 0 /\ iter = 1
    /\ pc \notin {"request", "done"} => mode \in Modes
    /\ pc \in {"head", "decide"} => toolCalls = iter - 1
    /\ pc = "tool" => toolCalls = iter
    /\ pc \in {"decide", "tool"} => iter <= MaxIterations
    /\ pc = "decide" /\ mode = "function_calling" => toolCalls < MaxToolCalls

(* What has been returned so far. *)
ResponseInv ==
    /\ response = "none" <=> pc # "done"
    /\ response = "none" => reported = <<>>

IInv == TypeOK /\ RecordsInv /\ ServerInv /\ BudgetInv /\ ResponseInv

-----------------------------------------------------------------------------
(* The budgets are positive numbers. *)
LEMMA Budgets ==
    ASSUME req \in Requests, mode \in Modes
    PROVE  MaxIterations \in Nat \ {0} /\ MaxToolCalls \in Nat \ {0} /\ CallLimit \in Nat
<1>1. req \in Request
  BY StrategiesAssumption
<1>2. req.MaxIterations \in Int /\ req.MaxToolCalls \in Int
  BY <1>1, Zenon DEF Request
<1>3. DefaultIterations \in Nat \ {0} /\ DefaultToolCalls[mode] \in Nat \ {0}
  BY StrategiesAssumption
<1>4. \A n \in Int, default \in Nat \ {0} : OrDefault(n, default) \in Nat \ {0}
  BY DEF OrDefault
<1>5. MaxIterations \in Nat \ {0}
  BY <1>2, <1>3, <1>4 DEF MaxIterations
<1>6. MaxToolCalls \in Nat \ {0}
  BY <1>2, <1>3, <1>4 DEF MaxToolCalls
<1> QED
  BY <1>5, <1>6 DEF CallLimit

(* The fields of a request do not change. *)
LEMMA SameRequest ==
    ASSUME req' = req
    PROVE  /\ mode' = mode /\ MaxIterations' = MaxIterations
           /\ MaxToolCalls' = MaxToolCalls
  BY DEF mode, MaxIterations, MaxToolCalls

(* Appending to a list of outputs keeps the earlier ones. *)
LEMMA AppendOutput ==
    ASSUME NEW outs \in Seq(ToolOut), NEW out \in ToolOut, Len(outs) + 1 = out.call,
           \A k \in DOMAIN outs : outs[k].call = k
    PROVE  /\ Append(outs, out) \in Seq(ToolOut)
           /\ Len(Append(outs, out)) = out.call
           /\ \A k \in DOMAIN Append(outs, out) : Append(outs, out)[k].call = k
<1>1. DOMAIN Append(outs, out) = 1..(Len(outs) + 1)
  OBVIOUS
<1>2. \A k \in 1..Len(outs) : Append(outs, out)[k] = outs[k]
  OBVIOUS
<1>3. Append(outs, out)[Len(outs) + 1] = out
  OBVIOUS
<1> QED
  BY <1>1, <1>2, <1>3

(* The trace only grows. *)
LEMMA AppendTrace ==
    ASSUME NEW tr \in Seq(TraceEntry), NEW e \in TraceEntry
    PROVE  /\ Append(tr, e) \in Seq(TraceEntry)
           /\ \A n \in Nat : Traced(tr, n) => Traced(Append(tr, e), n)
           /\ Traced(Append(tr, e), e.call)
<1>1. DOMAIN Append(tr, e) = 1..(Len(tr) + 1) /\ DOMAIN tr = 1..Len(tr) /\ Len(tr) \in Nat
  OBVIOUS
<1>2. \A k \in 1..Len(tr) : Append(tr, e)[k] = tr[k]
  OBVIOUS
<1>3. Append(tr, e)[Len(tr) + 1] = e
  OBVIOUS
<1> QED
  BY <1>1, <1>2, <1>3 DEF Traced

(* A list that has each call in its place tells of all of them. *)
LEMMA CallsOfOutputs ==
    ASSUME NEW outs \in Seq(ToolOut), \A k \in DOMAIN outs : outs[k].call = k
    PROVE  CallsIn(outs) = 1..Len(outs)
<1>1. DOMAIN outs = 1..Len(outs)
  OBVIOUS
<1> QED
  BY <1>1 DEF CallsIn

-----------------------------------------------------------------------------
LEMMA InitInv == Init => IInv
<1> SUFFICES ASSUME Init PROVE IInv
  OBVIOUS
<1>1. TypeOK
  <2>1. delivered \in BOOLEAN
    BY DEF Init
  <2> QED
    BY <2>1 DEF Init, TypeOK, PC, Responses
<1>2. RecordsInv
  BY DEF Init, RecordsInv, Ended
<1>3. ServerInv /\ BudgetInv /\ ResponseInv
  BY DEF Init, ServerInv, BudgetInv, ResponseInv
<1> QED
  BY <1>1, <1>2, <1>3 DEF IInv

(* An end of the handler at a state that has its records in order, with    *)
(* or without a last entry in the trace.                                   *)
LEMMA EndStep ==
    ASSUME IInv, pc # "tool", pc # "done", NEW kind \in Responses \ {"none"}, NEW outs \in Seq(ToolOut),
           Respond(kind, outs), NEW e \in TraceEntry, trace' \in {trace, Append(trace, e)},
           UNCHANGED <<req, clock, iter, toolCalls, messages, outputs, server>>,
           tools' \subseteq Tools, start' \in Nat
    PROVE  IInv'
<1> USE DEF server
<1>1. trace' \in Seq(TraceEntry)
  BY AppendTrace DEF IInv, TypeOK
<1>2. delivered' \in BOOLEAN
  BY DEF Respond
<1>3. TypeOK'
  BY <1>1, <1>2 DEF IInv, TypeOK, Respond, PC, Responses
<1>4. Ended' = Ended /\ Ended \in Nat
  BY DEF Ended, Respond, IInv, TypeOK
<1>5. \A n \in 1..Ended : Traced(trace', n)
  <2>1. trace \in Seq(TraceEntry) /\ \A n \in 1..Ended : Traced(trace, n)
    BY DEF IInv, TypeOK, RecordsInv
  <2>2. \A n \in Nat : Traced(trace, n) => Traced(Append(trace, e), n)
    BY <2>1, AppendTrace
  <2>3. \A n \in 1..Ended : n \in Nat
    BY <1>4
  <2>4. CASE trace' = trace
    BY <2>1, <2>4
  <2>5. CASE trace' = Append(trace, e)
    BY <2>1, <2>2, <2>3, <2>5
  <2> QED
    BY <2>4, <2>5
<1>6. RecordsInv'
  BY <1>4, <1>5 DEF IInv, RecordsInv
<1>7. ServerInv' /\ BudgetInv' /\ ResponseInv'
  BY DEF IInv, ServerInv, BudgetInv, ResponseInv, Respond
<1> QED
  BY <1>3, <1>6, <1>7 DEF IInv

(* A tool call is sent. *)
LEMMA CallStep ==
    ASSUME IInv, pc = "decide", CallTool
    PROVE  IInv'
<1> USE DEF history, answer
<1>1. TypeOK'
  <2>1. delivered' \in BOOLEAN
    BY DEF IInv, TypeOK, CallTool
  <2> QED
    BY <2>1 DEF IInv, TypeOK, CallTool, PC
<1>2. Ended' = Ended
  BY DEF Ended, CallTool, IInv, TypeOK
<1>3. RecordsInv'
  BY <1>2 DEF IInv, RecordsInv, CallTool
<1>4. ServerInv'
  BY DEF IInv, TypeOK, ServerInv, CallTool
<1>5. BudgetInv'
  BY SameRequest DEF IInv, TypeOK, BudgetInv, CallTool
<1>6. ResponseInv'
  BY DEF IInv, ResponseInv, CallTool
<1> QED
  BY <1>1, <1>3, <1>4, <1>5, <1>6 DEF IInv

(* A tool call ends with a result or an error. *)
LEMMA ToolStep ==
    ASSUME IInv, pc = "tool", NEW err \in BOOLEAN, ToolEnds(err)
    PROVE  IInv'
<1> DEFINE out == [ call |-> toolCalls, err |-> err ]
           e   == [ call |-> toolCalls, stop |-> "" ]
<1> USE DEF server, answer
<1>1. out \in ToolOut
  BY Zenon DEF ToolOut, IInv, TypeOK
<1>2. e \in TraceEntry
  BY DEF TraceEntry, IInv, TypeOK
<1>3. outputs' = Append(outputs, out) /\ messages' = outputs' /\ trace' = Append(trace, e)
  BY DEF ToolEnds, IInv, RecordsInv
<1>4. Len(outputs) + 1 = out.call
  BY DEF IInv, TypeOK, RecordsInv, Ended
<1>5. Ended' = toolCalls /\ toolCalls' = toolCalls /\ toolCalls \in Nat
  BY DEF Ended, ToolEnds, IInv, TypeOK
<1>6. /\ outputs' \in Seq(ToolOut) /\ Len(outputs') = toolCalls
      /\ \A k \in DOMAIN outputs' : outputs'[k].call = k
  <2> HIDE DEF out
  <2>1. out.call = toolCalls
    BY DEF out
  <2> QED
    BY <1>1, <1>3, <1>4, <2>1, AppendOutput DEF IInv, TypeOK, RecordsInv
<1>7. /\ trace' \in Seq(TraceEntry)
      /\ \A n \in 1..toolCalls : Traced(trace', n)
  <2> HIDE DEF e
  <2>1. e.call = toolCalls
    BY DEF e
  <2>2. \A n \in 1..toolCalls : n \in Nat /\ (n = toolCalls \/ n \in 1..Ended)
    BY DEF Ended, IInv, TypeOK
  <2>3. trace \in Seq(TraceEntry) /\ \A n \in 1..Ended : Traced(trace, n)
    BY DEF IInv, TypeOK, RecordsInv
  <2>4. /\ trace' \in Seq(TraceEntry)
        /\ \A n \in Nat : Traced(trace, n) => Traced(trace', n)
        /\ Traced(trace', toolCalls)
    BY <1>2, <1>3, <2>1, <2>3, AppendTrace
  <2> QED
    BY <2>2, <2>3, <2>4
<1>8. TypeOK'
  <2>1. delivered' \in BOOLEAN
    BY DEF IInv, TypeOK, ToolEnds
  <2>2. pc' \in PC /\ iter' \in Nat \ {0} /\ toolCalls' \in Nat
    <3>1. pc' = "head" /\ iter' = iter + 1 /\ toolCalls' = toolCalls
      BY DEF ToolEnds
    <3> QED
      BY <3>1 DEF IInv, TypeOK, PC
  <2>3. messages' \in Seq(ToolOut)
    BY <1>3, <1>6
  <2>4. UNCHANGED <<req, tools, clock, start, inflight, executed, reported, response>>
    BY DEF ToolEnds
  <2> QED
    BY <1>6, <1>7, <2>1, <2>2, <2>3, <2>4 DEF IInv, TypeOK
<1>9. RecordsInv'
  BY <1>3, <1>5, <1>6, <1>7 DEF RecordsInv
<1>10. ServerInv' /\ ResponseInv'
  BY DEF IInv, ServerInv, ResponseInv, ToolEnds
<1>11. BudgetInv'
  <2>1. pc' = "head" /\ iter' = iter + 1 /\ toolCalls' = toolCalls /\ mode' = mode
    BY SameRequest DEF ToolEnds
  <2>2. mode \in Modes /\ toolCalls = iter
    BY DEF IInv, BudgetInv
  <2> QED
    BY <2>1, <2>2 DEF IInv, TypeOK, BudgetInv
<1> QED
  BY <1>8, <1>9, <1>10, <1>11 DEF IInv

(* A step that leaves records, server and response alone. *)
LEMMA QuietStep ==
    ASSUME IInv, UNCHANGED <<req, toolCalls, iter, history, answer, server>>,
           pc # "done", pc' \in PC \ {"done"}, pc' = "tool" <=> pc = "tool",
           tools' \subseteq Tools, clock' \in Nat, start' \in Nat, BudgetInv'
    PROVE  IInv'
<1> USE DEF history, answer, server
<1>1. TypeOK'
  <2>1. delivered' \in BOOLEAN
    BY DEF IInv, TypeOK
  <2> QED
    BY <2>1 DEF IInv, TypeOK
<1>2. RecordsInv'
  BY DEF IInv, RecordsInv, Ended
<1>3. ServerInv' /\ ResponseInv'
  BY DEF IInv, ServerInv, ResponseInv
<1> QED
  BY <1>1, <1>2, <1>3 DEF IInv

(* A step of the tool server. *)
LEMMA ServerStep ==
    ASSUME IInv, NEW n \in inflight, ServerExecutes(n) \/ ServerRefuses(n)
    PROVE  IInv'
<1> USE DEF history, answer
<1>1. /\ UNCHANGED <<req, pc, tools, clock, start, iter, toolCalls, history, answer>>
      /\ inflight' = inflight \ {n}
      /\ executed' = executed \/ executed' = executed \cup {n}
  BY DEF ServerExecutes, ServerRefuses
<1>2. TypeOK'
  <2>1. delivered' \in BOOLEAN
    BY <1>1 DEF IInv, TypeOK
  <2> QED
    BY <1>1, <2>1 DEF IInv, TypeOK
<1>3. RecordsInv' /\ BudgetInv' /\ ResponseInv'
  BY <1>1, SameRequest DEF IInv, RecordsInv, Ended, BudgetInv, ResponseInv
<1>4. ServerInv'
  BY <1>1 DEF IInv, ServerInv
<1> QED
  BY <1>2, <1>3, <1>4 DEF IInv

-----------------------------------------------------------------------------
(* Every step keeps the invariant: one case per action. *)
LEMMA StepInv == IInv /\ [Next]_vars => IInv'
<1> SUFFICES ASSUME IInv, [Next]_vars PROVE IInv'
  OBVIOUS
<1> USE DEF history
<1>t. /\ tools \subseteq Tools /\ clock \in Nat /\ start \in Nat /\ iter \in Nat \ {0}
      /\ outputs \in Seq(ToolOut) /\ <<>> \in Seq(ToolOut)
  BY DEF IInv, TypeOK
<1>e. \A stop \in {"final", "error", "max_wall_time", "max_tool_calls"} :
          [ call |-> 0, stop |-> stop ] \in TraceEntry
  BY DEF TraceEntry
<1>1. CASE Validate
  <2>1. CASE ~validateStrategyRunRequest
    BY <1>1, <1>t, <1>e, <2>1, EndStep DEF Validate, Responses
  <2>2. CASE validateStrategyRunRequest
    <3>1. pc = "request" /\ pc' = "list" /\ toolCalls' = toolCalls /\ iter' = iter /\ mode' = mode
      BY <1>1, <2>2, SameRequest DEF Validate
    <3>2. mode \in Modes
      <4>1. req.Strategy \in Modes \cup {"", "unknown"}
        <5>1. req \in Request
          BY StrategiesAssumption DEF IInv, TypeOK
        <5> QED
          BY <5>1, Zenon DEF Request
      <4> QED
        BY <2>2, <4>1 DEF validateStrategyRunRequest, mode, Modes
    <3>3. BudgetInv'
      BY <3>1, <3>2 DEF IInv, BudgetInv
    <3> QED
      BY <1>1, <1>t, <2>2, <3>1, <3>3, QuietStep DEF Validate, PC
  <2> QED
    BY <2>1, <2>2
<1>2. CASE \E listed \in SUBSET Tools, hasChat \in BOOLEAN : ListTools(listed, hasChat)
  <2> PICK listed \in SUBSET Tools, hasChat \in BOOLEAN : ListTools(listed, hasChat)
    BY <1>2
  <2> DEFINE go == (provider = "mcp" /\ hasChat) \/ provider = "dspy"
  <2>1. CASE ~go
    BY <1>t, <1>e, <2>1, EndStep DEF ListTools, Responses
  <2>2. CASE go
    <3>1. pc = "list" /\ pc' = "head" /\ toolCalls' = toolCalls /\ iter' = iter /\ mode' = mode
      BY <2>2, SameRequest DEF ListTools
    <3>2. BudgetInv'
      BY <3>1 DEF IInv, BudgetInv
    <3>3. clock' \in Nat /\ start' \in Nat /\ tools' \subseteq Tools
      BY <1>t, <2>2 DEF ListTools
    <3> QED
      BY <2>2, <3>1, <3>2, <3>3, QuietStep DEF ListTools, PC
  <2> QED
    BY <2>1, <2>2
<1>3. CASE ListToolsError
  BY <1>3, <1>t, <1>e, EndStep DEF ListToolsError, Responses
<1>4. CASE LoopHead
  <2>1. pc = "head" /\ pc' = "decide" /\ UNCHANGED <<req, toolCalls, iter>> /\ iter <= MaxIterations
    BY <1>4 DEF LoopHead
  <2>2. mode' = mode /\ MaxIterations' = MaxIterations /\ MaxToolCalls' = MaxToolCalls
    BY <2>1, SameRequest
  <2>3. mode = "function_calling" => toolCalls < MaxToolCalls
    <3>1. mode \in Modes /\ req \in Requests
      BY <2>1 DEF IInv, BudgetInv, TypeOK
    <3>2. MaxToolCalls \in Nat /\ toolCalls \in Nat
      BY <3>1, Budgets DEF IInv, TypeOK
    <3> QED
      BY <1>4, <3>2 DEF LoopHead, TooManyCalls
  <2>4. BudgetInv'
    BY <2>1, <2>2, <2>3 DEF IInv, BudgetInv
  <2> QED
    BY <1>4, <1>t, <2>1, <2>4, QuietStep DEF LoopHead, PC
<1>5. CASE BudgetHit
  <2> DEFINE e == [ call |-> 0, stop |-> IF TooLong THEN "max_wall_time" ELSE "max_tool_calls" ]
  <2>1. e \in TraceEntry
    BY <1>e
  <2>2. trace' = Append(trace, e) /\ Respond("partial", outputs)
    BY <1>5 DEF BudgetHit
  <2> HIDE DEF e
  <2> QED
    BY <1>5, <1>t, <2>1, <2>2, EndStep DEF BudgetHit, Responses
<1>6. CASE LoopEnd
  BY <1>6, <1>t, <1>e, EndStep DEF LoopEnd, Responses
<1>7. CASE DecideError
  BY <1>7, <1>t, <1>e, EndStep DEF DecideError, Responses
<1>8. CASE \E dec \in Decisions : DecideFinal(dec)
  BY <1>8, <1>t, <1>e, EndStep DEF DecideFinal, Responses
<1>9. CASE \E dec \in Decisions : DecideTool(dec) \/ PickTool(dec)
  BY <1>9, CallStep DEF DecideTool, PickTool
<1>10. CASE \E dec \in Decisions : DecideNeither(dec)
  BY <1>10, <1>t, <1>e, EndStep DEF DecideNeither, Responses
<1>11. CASE \E dec \in Decisions : PickNone(dec)
  BY <1>11, <1>t, <1>e, EndStep DEF PickNone, Responses
<1>12. CASE ToolResult
  BY <1>12, ToolStep DEF ToolResult
<1>13. CASE ToolError
  BY <1>13, ToolStep DEF ToolError
<1>14. CASE \E n \in inflight : ServerExecutes(n) \/ ServerRefuses(n)
  BY <1>14, ServerStep
<1>15. CASE Tick
  <2>1. UNCHANGED <<req, pc, toolCalls, iter>> /\ pc \in PC \ {"done"}
    BY <1>15 DEF Tick, PC
  <2>2. BudgetInv'
    BY <2>1, SameRequest DEF IInv, BudgetInv
  <2>3. clock' \in Nat
    BY <1>15, <1>t DEF Tick
  <2> QED
    BY <1>15, <1>t, <2>1, <2>2, <2>3, QuietStep DEF Tick
<1>16. CASE UNCHANGED vars
  <2>1. UNCHANGED <<req, pc, tools, clock, start, iter, toolCalls, messages, outputs, trace,
                    reported, response, delivered, inflight, executed>>
    BY <1>16 DEF vars, answer, server
  <2>2. delivered' \in BOOLEAN
    BY <2>1 DEF IInv, TypeOK
  <2>3. TypeOK'
    BY <2>1, <2>2 DEF IInv, TypeOK
  <2>4. RecordsInv' /\ ServerInv' /\ BudgetInv' /\ ResponseInv'
    BY <2>1, SameRequest DEF IInv, RecordsInv, Ended, ServerInv, BudgetInv, ResponseInv
  <2> QED
    BY <2>3, <2>4 DEF IInv
<1> QED
  BY <1>1, <1>2, <1>3, <1>4, <1>5, <1>6, <1>7, <1>8, <1>9, <1>10, <1>11, <1>12, <1>13,
     <1>14, <1>15, <1>16 DEF Next, Handler

-----------------------------------------------------------------------------
(* The refinement mapping.  Steps of the detailed handler, seen abstractly. *)

LEMMA SameLimit ==
    ASSUME req' = req
    PROVE  CallLimit' = CallLimit
  BY SameRequest DEF CallLimit

(* An end with all outputs is an answer that accounts for every call. *)
LEMMA AnswerMaps ==
    ASSUME IInv, pc # "tool", pc # "done", Respond("final", outputs) \/ Respond("partial", outputs),
           UNCHANGED <<req, toolCalls, executed>>
    PROVE  Loop!Answer
<1>1. response = "none" /\ LoopOutcome = "running"
  BY DEF IInv, ResponseInv, LoopOutcome
<1>2. LoopOutcome' = "answered" /\ reported' = outputs
  BY DEF Respond, LoopOutcome
<1>3. CallsIn(outputs) = 1..Len(outputs)
  BY CallsOfOutputs DEF IInv, TypeOK, RecordsInv
<1>4. Len(outputs) = toolCalls
  BY DEF IInv, RecordsInv, Ended
<1>5. CallsIn(reported)' = 1..toolCalls
  BY <1>2, <1>3, <1>4 DEF CallsIn
<1> QED
  BY <1>1, <1>2, <1>5, SameLimit DEF Loop!Answer

(* An end without outputs is a failure. *)
LEMMA FailMaps ==
    ASSUME IInv, pc # "done", Respond("error", <<>>) \/ Respond("rejected", <<>>),
           UNCHANGED <<req, toolCalls, executed>>
    PROVE  Loop!Fail
<1>1. LoopOutcome = "running"
  BY DEF IInv, ResponseInv, LoopOutcome
<1>2. LoopOutcome' = "failed" /\ reported' = <<>>
  BY DEF Respond, LoopOutcome
<1>3. CallsIn(reported)' = {}
  BY <1>2 DEF CallsIn
<1> QED
  BY <1>1, <1>2, <1>3, SameLimit DEF Loop!Fail

(* A tool call is a request within the limit. *)
LEMMA CallMaps ==
    ASSUME IInv, pc = "decide", CallTool
    PROVE  Loop!Request
<1>1. LoopOutcome = "running" /\ LoopOutcome' = LoopOutcome /\ CallsIn(reported)' = CallsIn(reported)
  BY DEF IInv, ResponseInv, LoopOutcome, CallTool, answer, CallsIn
<1>2. toolCalls < CallLimit
  <2>1. mode \in Modes /\ req \in Requests
    BY DEF IInv, BudgetInv, TypeOK
  <2>2. toolCalls = iter - 1 /\ iter \in Nat \ {0} /\ iter <= MaxIterations
    BY DEF IInv, BudgetInv, TypeOK
  <2>3. mode = "function_calling" => toolCalls < MaxToolCalls
    BY DEF IInv, BudgetInv
  <2>4. MaxIterations \in Nat /\ MaxToolCalls \in Nat
    BY <2>1, Budgets
  <2>5. toolCalls < MaxIterations
    BY <2>2, <2>4
  <2> QED
    BY <2>3, <2>5 DEF CallLimit
<1>3. toolCalls' = toolCalls + 1 /\ UNCHANGED <<req, executed>>
  BY DEF CallTool
<1> QED
  BY <1>1, <1>2, <1>3, SameLimit DEF Loop!Request

(* A step that neither calls, executes nor ends is invisible. *)
LEMMA QuietMaps ==
    ASSUME UNCHANGED <<req, toolCalls, executed, reported, response>>
    PROVE  UNCHANGED Loop!loopVars
  BY SameLimit DEF Loop!loopVars, LoopOutcome, CallsIn

LEMMA InitMaps == Init => Loop!Init
<1> SUFFICES ASSUME Init PROVE Loop!Init
  OBVIOUS
<1>1. CallLimit \in Nat
  <2>1. req \in Request
    BY StrategiesAssumption DEF Init
  <2>2. req.Strategy \in Modes \cup {"", "unknown"} /\ req.MaxIterations \in Int
    BY <2>1, Zenon DEF Request
  <2>3. CASE mode \in Modes
    BY <2>3, Budgets DEF Init
  <2>4. CASE mode \notin Modes
    <3>1. CallLimit = MaxIterations
      BY <2>4 DEF CallLimit, Modes
    <3>2. DefaultIterations \in Nat
      BY StrategiesAssumption
    <3>3. \A n \in Int, default \in Nat : OrDefault(n, default) \in Nat
      BY DEF OrDefault
    <3>4. MaxIterations \in Nat
      BY <2>2, <3>2, <3>3 DEF MaxIterations
    <3> QED
      BY <3>1, <3>4
  <2> QED
    BY <2>3, <2>4
<1>2. LoopOutcome = "running" /\ CallsIn(reported) = {}
  BY DEF Init, LoopOutcome, CallsIn
<1> QED
  BY <1>1, <1>2 DEF Init, Loop!Init

LEMMA StepMaps == IInv /\ [Next]_vars => [Loop!Next]_(Loop!loopVars)
<1> SUFFICES ASSUME IInv, [Next]_vars PROVE Loop!Next \/ UNCHANGED Loop!loopVars
  OBVIOUS
<1> USE DEF history, answer, server
<1>1. CASE Validate
  <2>1. CASE ~validateStrategyRunRequest
    BY <1>1, <2>1, FailMaps DEF Validate, Loop!Next
  <2>2. CASE validateStrategyRunRequest
    BY <1>1, <2>2, QuietMaps DEF Validate
  <2> QED
    BY <2>1, <2>2
<1>2. CASE \E listed \in SUBSET Tools, hasChat \in BOOLEAN : ListTools(listed, hasChat)
  <2> PICK listed \in SUBSET Tools, hasChat \in BOOLEAN : ListTools(listed, hasChat)
    BY <1>2
  <2>1. CASE (provider = "mcp" /\ hasChat) \/ provider = "dspy"
    BY <2>1, QuietMaps DEF ListTools
  <2>2. CASE ~((provider = "mcp" /\ hasChat) \/ provider = "dspy")
    BY <2>2, FailMaps DEF ListTools, Loop!Next
  <2> QED
    BY <2>1, <2>2
<1>3. CASE ListToolsError
  BY <1>3, FailMaps DEF ListToolsError, Loop!Next
<1>4. CASE LoopHead
  BY <1>4, QuietMaps DEF LoopHead
<1>5. CASE BudgetHit
  BY <1>5, AnswerMaps DEF BudgetHit, Loop!Next
<1>6. CASE LoopEnd
  BY <1>6, AnswerMaps DEF LoopEnd, Loop!Next
<1>7. CASE DecideError
  BY <1>7, FailMaps DEF DecideError, Loop!Next
<1>8. CASE \E dec \in Decisions : DecideFinal(dec)
  BY <1>8, AnswerMaps DEF DecideFinal, Loop!Next
<1>9. CASE \E dec \in Decisions : DecideTool(dec) \/ PickTool(dec)
  BY <1>9, CallMaps DEF DecideTool, PickTool, Loop!Next
<1>10. CASE \E dec \in Decisions : DecideNeither(dec)
  BY <1>10, FailMaps DEF DecideNeither, Loop!Next
<1>11. CASE \E dec \in Decisions : PickNone(dec)
  BY <1>11, AnswerMaps DEF PickNone, Loop!Next
<1>12. CASE ToolResult \/ ToolError
  BY <1>12, QuietMaps DEF ToolResult, ToolError, ToolEnds
<1>13. CASE \E n \in inflight : ServerExecutes(n)
  <2> PICK n \in inflight : ServerExecutes(n)
    BY <1>13
  <2>1. n \in 1..toolCalls /\ n \notin executed
    BY DEF IInv, ServerInv
  <2>2. LoopOutcome' = LoopOutcome /\ CallsIn(reported)' = CallsIn(reported) /\ CallLimit' = CallLimit
    BY SameLimit DEF ServerExecutes, LoopOutcome, CallsIn
  <2>3. executed' = executed \cup {n} /\ toolCalls' = toolCalls
    BY DEF ServerExecutes
  <2>4. Loop!Execute(n)
    BY <2>1, <2>2, <2>3 DEF Loop!Execute
  <2> QED
    BY <2>1, <2>4 DEF Loop!Next
<1>14. CASE \E n \in inflight : ServerRefuses(n)
  BY <1>14, QuietMaps DEF ServerRefuses
<1>15. CASE Tick
  BY <1>15, QuietMaps DEF Tick
<1>16. CASE UNCHANGED vars
  BY <1>16, QuietMaps DEF vars
<1> QED
  BY <1>1, <1>2, <1>3, <1>4, <1>5, <1>6, <1>7, <1>8, <1>9, <1>10, <1>11, <1>12, <1>13,
     <1>14, <1>15, <1>16 DEF Next, Handler

-----------------------------------------------------------------------------
(* IInv is an invariant of the strategies. *)
THEOREM Inductive == Spec => []IInv
  BY InitInv, StepInv, PTL DEF Spec

(* Type correctness. *)
THEOREM TypeCorrect == Spec => []TypeOK
  <1>1. IInv => TypeOK
    BY DEF IInv
  <1> QED
    BY Inductive, <1>1, PTL

(* Whatever fails, times out or is cut short: a tool that ran is the one   *)
(* being waited for or is in the trace.                                    *)
THEOREM ExecutedCallsAreTraced == Spec => []CallsAreTraced
  <1>1. ASSUME IInv PROVE CallsAreTraced
    <2> SUFFICES ASSUME NEW n \in executed PROVE (pc = "tool" /\ n = toolCalls) \/ Traced(trace, n)
      BY DEF CallsAreTraced
    <2>1. n \in 1..toolCalls /\ toolCalls \in Nat
      BY <1>1 DEF IInv, TypeOK, ServerInv
    <2>2. (pc = "tool" /\ n = toolCalls) \/ n \in 1..Ended
      BY <2>1 DEF Ended
    <2> QED
      BY <1>1, <2>2 DEF IInv, RecordsInv
  <1> QED
    BY Inductive, <1>1, PTL

(* The model decides with the results of all earlier calls before it. *)
THEOREM ResultsAreShown == Spec => []ModelSeesResults
  <1>1. IInv => ModelSeesResults
    BY DEF IInv, RecordsInv, Ended, ModelSeesResults
  <1> QED
    BY Inductive, <1>1, PTL

(* Hence no call is hidden from the caller or from the model. *)
THEOREM NoCallIsHidden == Spec => []CallsAreKnown
  BY ExecutedCallsAreTraced, ResultsAreShown, PTL DEF CallsAreKnown

(* Both strategies implement the abstract loop: bounded requests, nothing  *)
(* executed that was not requested, and complete answers.                  *)
THEOREM LoopIsImplemented == Spec => Loop!Spec
  <1>1. Init => Loop!Init
    BY InitMaps
  <1>2. IInv /\ [Next]_vars => [Loop!Next]_(Loop!loopVars)
    BY StepMaps
  <1> QED
    BY Inductive, <1>1, <1>2, PTL DEF Spec, Loop!Spec

=============================================================================
