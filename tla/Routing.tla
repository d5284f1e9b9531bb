------------------------------- MODULE Routing -------------------------------
(***************************************************************************)
(* How the activities EvalPolicy and GetPlan find the agent they ask, and  *)
(* how what became of the tasks comes back as runtime weights:             *)
(*                                                                         *)
(*   - the worker's router (AgentRouter, or HybridRouter with an LLM and   *)
(*     an AgentRouter as its fallback), which scores the agents of the     *)
(*     requested type one after the other;                                 *)
(*   - the rows of eval_runs, as far as they credit agents;                *)
(*   - the worker's refresh goroutine, which turns finished rows into      *)
(*     weights and stores them in the router's options, with no lock       *)
(*     between it and the routing activities.                              *)
(*                                                                         *)
(* Scores are in tenths, and an average that is no whole tenth is rounded  *)
(* down.  The random choices of the router (tie break, softmax) are        *)
(* choices among the agents that can win; its tie epsilon, a millionth by  *)
(* default, is less than a tenth.  The activities' context ends with their *)
(* timeout, so that an abandoned attempt updates no row.                   *)
(***************************************************************************)
EXTENDS Integers, Sequences, FiniteSets

CONSTANTS
    Agents,             \* the agents the worker loaded, in their order
    Tasks,              \* the tasks
    TaskType,           \* task.Type of each task
    LoopChoices,        \* the sets of tasks that may be started as loops
    Hybrid,             \* AGENT_ROUTER_MODE is "hybrid" and an LLM is configured
    Softmax,            \* AGENT_ROUTER_SELECTION is "softmax"
    TieBreakRandom,     \* AGENT_ROUTER_TIEBREAK_RANDOM
    SoftmaxTopN,        \* AGENT_ROUTER_SOFTMAX_TOP_N
    MaxCandidates,      \* AGENT_ROUTER_LLM_MAX_CANDIDATES
    RuntimeWeightsMax,  \* AGENT_ROUTER_RUNTIME_WEIGHTS_MAX, in tenths
    MinRuns             \* AGENT_ROUTER_RUNTIME_WEIGHTS_MIN_RUNS

AgentTypes == {"rule", "decision"}

(* The task types that occur; none is blank. *)
TaskTypes == { TaskType[t] : t \in Tasks }

(* What the router looks at.  EvalPolicy and GetPlan hand it a task without *)
(* tenant and metadata, so that the request's only tag is the agent type.  *)
Agent == [ ID : Nat, Type : AgentTypes, TaskTypes : SUBSET TaskTypes,
           Tags : SUBSET AgentTypes, Weight : Int, Named : BOOLEAN ]

ASSUME RoutingAssumption ==
    /\ Agents \in Seq(Agent)
    /\ \A type \in AgentTypes : \E i \in DOMAIN Agents : Agents[i].Type = type
    /\ IsFiniteSet(Tasks) /\ LoopChoices \subseteq SUBSET Tasks
    /\ \A i, j \in DOMAIN Agents : Agents[i].ID = Agents[j].ID => i = j
    /\ {Hybrid, Softmax, TieBreakRandom} \subseteq BOOLEAN
    /\ {SoftmaxTopN, MaxCandidates, RuntimeWeightsMax, MinRuns} \subseteq Nat \ {0}

VARIABLES
    loops,      \* the tasks started as an iterative or agentic workflow
    stage,      \* what each task is at
    phase,      \* how far the attempt of its activity has come
    scores,     \* scores of the candidates, in their order, as far as known
    routed,     \* index of the routed agent and the router's Reason
    rows,       \* eval_runs
    weights,    \* the router's Options.RuntimeWeights
    refresher,  \* where the refresh goroutine is
    fresh,      \* the weights it has computed
    working,    \* the worker has made its first refresh and runs activities
    planner,    \* history: the agent whose plan the task executes
    unrecorded  \* history: tasks whose planner's RecordAgent was lost

taskVars   == <<stage, phase, scores, routed>>
workerVars == <<weights, refresher, fresh, working>>
history    == <<planner, unrecorded>>
vars       == <<loops, taskVars, rows, workerVars, history>>

NoAgent == 0

Row == [ exists    : BOOLEAN,
         status    : {"running", "completed", "failed", "denied"},
         agent     : [AgentTypes -> {NoAgent} \cup DOMAIN Agents],
         task_type : BOOLEAN,   \* meta has the task type
         recent    : BOOLEAN ]  \* started within the window

NoRow == [ exists |-> FALSE, status |-> "running", task_type |-> FALSE, recent |-> TRUE,
           agent |-> [type \in AgentTypes |-> NoAgent] ]

Weights   == [ DOMAIN Agents -> [TaskTypes -> Int] ]
NoWeights == [ i \in DOMAIN Agents |-> [tt \in TaskTypes |-> 0] ]

Route == [ agent : {NoAgent} \cup DOMAIN Agents, reason : {"", "simple", "llm", "fallback"} ]

NoRoute == [ agent |-> NoAgent, reason |-> "" ]

TypeOK ==
    /\ loops \subseteq Tasks
    /\ stage \in [Tasks -> {"rule", "decision", "execution", "ended"}]
    /\ phase \in [Tasks -> {"idle", "scoring", "routed", "asked"}]
    /\ scores \in [Tasks -> Seq(Int)]
    /\ routed \in [Tasks -> Route]
    /\ \A t \in Tasks :
          /\ phase[t] # "idle" => stage[t] \in AgentTypes
          /\ phase[t] # "scoring" => scores[t] = <<>>
          /\ routed[t] # NoRoute <=> phase[t] \in {"routed", "asked"}
    /\ rows \in [Tasks -> Row]
    /\ weights \in Weights
    /\ refresher \in {"idle", "computed", "stopped"}
    /\ fresh \in Weights
    /\ working \in BOOLEAN
    /\ planner \in [Tasks -> {NoAgent} \cup DOMAIN Agents]
    /\ unrecorded \subseteq Tasks

(* The worker starts before any task does. *)
Init ==
    /\ loops \in LoopChoices
    /\ stage = [t \in Tasks |-> "rule"]
    /\ phase = [t \in Tasks |-> "idle"]
    /\ scores = [t \in Tasks |-> <<>>]
    /\ routed = [t \in Tasks |-> NoRoute]
    /\ rows = [t \in Tasks |-> NoRow]
    /\ weights = NoWeights /\ fresh = NoWeights
    /\ refresher = "idle" /\ working = FALSE
    /\ planner = [t \in Tasks |-> NoAgent]
    /\ unrecorded = {}

-----------------------------------------------------------------------------
(* Scoring (router.go). *)

(* The agents of a type, in their order. *)
Candidates(type) == { i \in DOMAIN Agents : Agents[i].Type = type }

scoreAgent(i, type, tt) ==
      (IF tt \in Agents[i].TaskTypes THEN 500 ELSE 0)
    + (IF type \in Agents[i].Tags THEN 100 ELSE 0)
    + Agents[i].Weight
    + (IF Agents[i].Named THEN 1 ELSE 0)

Clamp(w) ==
    IF w > RuntimeWeightsMax THEN RuntimeWeightsMax
    ELSE IF w < -RuntimeWeightsMax THEN -RuntimeWeightsMax ELSE w

scoreAgentWithOptions(i, type, tt) == scoreAgent(i, type, tt) + Clamp(weights[i][tt])

(* Faulty: the fallback shares the options that get the weights. *)
WeightedScores(type, tt) ==
    [ i \in Candidates(type) |-> scoreAgentWithOptions(i, type, tt) ]

(* The scores an AgentRouter without runtime weights gives. *)
BaseScores(type, tt) == [ i \in Candidates(type) |-> scoreAgent(i, type, tt) ]

(* score maps the candidates to their scores: higher first, then lower ID. *)
Before(score, i, j) ==
    score[i] > score[j] \/ (score[i] = score[j] /\ Agents[i].ID < Agents[j].ID)

Rank(score, i) == Cardinality({ j \in DOMAIN score : Before(score, j, i) })

(* The agents AgentRouter.Route may select. *)
Winners(score) ==
    LET C == DOMAIN score IN
    IF Softmax THEN { i \in C : Rank(score, i) < SoftmaxTopN }
    ELSE IF TieBreakRandom THEN { i \in C : \A j \in C : score[i] >= score[j] }
    ELSE { i \in C : Rank(score, i) = 0 }

(* The candidates the LLM is offered: sort.Slice leaves the order of equal *)
(* scores open, so that any of them may be cut off.                        *)
topCandidates(score) ==
    LET C == DOMAIN score
    IN  { K \in SUBSET C :
            /\ Cardinality(K) = IF Cardinality(C) > MaxCandidates THEN MaxCandidates
                                ELSE Cardinality(C)
            /\ \A i \in K, j \in C \ K : score[i] >= score[j] }

(* What Route may answer.  The LLM fails or names any agents; the first    *)
(* that is a candidate is taken.  The fallback router's own options never  *)
(* get runtime weights.                                                    *)
Routes(score, type, tt) ==
    IF ~Hybrid
    THEN { [agent |-> i, reason |-> "simple"] : i \in Winners(score) }
    ELSE { [agent |-> i, reason |-> "llm"] : i \in UNION topCandidates(score) }
         \cup { [agent |-> i, reason |-> "fallback"] : i \in Winners(BaseScores(type, tt)) }

-----------------------------------------------------------------------------
(* The activities.  EvalPolicy asks a "rule" agent, GetPlan a "decision"   *)
(* agent.  The errors of evalStart and RecordAgent are dropped: an update  *)
(* may be lost.  (A lost RecordPlan only keeps a row from counting, as a   *)
(* lost evalStart does.)                                                   *)

Routing(t) == working /\ stage[t] \in AgentTypes

(* An attempt of the activity begins; EvalPolicy begins with evalStart. *)
Begin(t) ==
    /\ Routing(t)
    /\ phase[t] = "idle"
    /\ phase' = [phase EXCEPT ![t] = "scoring"]
    /\ scores' = [scores EXCEPT ![t] = <<>>]
    /\ \/ stage[t] = "rule" /\ rows' = [rows EXCEPT ![t].exists = TRUE]
       \/ UNCHANGED rows
    /\ UNCHANGED <<stage, routed, workerVars, history, loops>>

(* Agents are ordered by their index: the n-th candidate. *)
Position(C, i) == Cardinality({ j \in C : j <= i })

Nth(C, n) == CHOOSE i \in C : Position(C, i) = n

(* The next candidate is scored, with the options as they are now; after   *)
(* the last one Route selects, from what it has read.                      *)
ScoreNext(t) ==
    LET C     == Candidates(stage[t])
        n     == Len(scores[t]) + 1
        known == Append(scores[t],
                        scoreAgentWithOptions(Nth(C, n), stage[t], TaskType[t]))
        score == [ i \in C |-> known[Position(C, i)] ]
    IN  /\ Routing(t)
        /\ phase[t] = "scoring"
        /\ \/ /\ n < Cardinality(C)
              /\ scores' = [scores EXCEPT ![t] = known]
              /\ UNCHANGED <<phase, routed>>
           \/ /\ n = Cardinality(C)
              /\ \E r \in Routes(score, stage[t], TaskType[t]) :
                    routed' = [routed EXCEPT ![t] = r]
              /\ scores' = [scores EXCEPT ![t] = <<>>]
              /\ phase' = [phase EXCEPT ![t] = "routed"]
        /\ UNCHANGED <<stage, rows, workerVars, history, loops>>

(* ComputeRuntimeWeights reads the row. *)
Finished(row) == row.exists /\ row.status # "running" /\ row.task_type

(* Faulty: the first agent of a task keeps the credit. *)
RecordFirst(row, type, i) ==
    IF row.exists /\ row.agent[type] = NoAgent THEN [row EXCEPT !.agent[type] = i] ELSE row

RecordAgent(row, type, i) ==
    IF row.exists THEN [row EXCEPT !.agent[type] = i] ELSE row

(* evalAgent, before the agent is asked. *)
EvalAgent(t) ==
    /\ Routing(t)
    /\ phase[t] = "routed"
    /\ phase' = [phase EXCEPT ![t] = "asked"]
    /\ \/ /\ rows' = [rows EXCEPT ![t] = RecordAgent(@, stage[t], routed[t].agent)]
          /\ UNCHANGED unrecorded
       \/ /\ unrecorded' = IF stage[t] = "decision" THEN unrecorded \cup {t} ELSE unrecorded
          /\ UNCHANGED rows
    /\ UNCHANGED <<stage, scores, routed, workerVars, planner, loops>>

RecordPlan(row) == IF row.exists THEN [row EXCEPT !.task_type = TRUE] ELSE row

Complete(row, status) == IF row.exists THEN [row EXCEPT !.status = status] ELSE row

(* The activity ends, and the task goes on to next. *)
Leave(t, next) ==
    /\ stage' = [stage EXCEPT ![t] = next]
    /\ phase' = [phase EXCEPT ![t] = "idle"]
    /\ scores' = [scores EXCEPT ![t] = <<>>]
    /\ routed' = [routed EXCEPT ![t] = NoRoute]

(* The rule agent allows the task, or denies it; only IncidentWorkflow     *)
(* completes the row.                                                      *)
PolicyAnswer(t) ==
    /\ Routing(t)
    /\ stage[t] = "rule" /\ phase[t] = "asked"
    /\ \/ Leave(t, "decision") /\ UNCHANGED rows
       \/ /\ Leave(t, "ended")
          /\ rows' = IF t \in loops THEN rows
                     ELSE [rows EXCEPT ![t] = Complete(@, "denied")]
    /\ UNCHANGED <<workerVars, history, loops>>

(* The decision agent's plan is accepted. *)
PlanAnswer(t) ==
    /\ Routing(t)
    /\ stage[t] = "decision" /\ phase[t] = "asked"
    /\ Leave(t, "execution")
    /\ planner' = [planner EXCEPT ![t] = routed[t].agent]
    /\ rows' = [rows EXCEPT ![t] = RecordPlan(@)]
    /\ UNCHANGED <<workerVars, unrecorded, loops>>

(* The attempt ends with an error or its timeout and will be repeated. *)
AttemptFails(t) ==
    /\ Routing(t)
    /\ phase[t] # "idle"
    /\ Leave(t, stage[t])
    /\ unrecorded' = unrecorded \ {t}
    /\ UNCHANGED <<rows, workerVars, planner, loops>>

(* The server gives the activity up: the workflow fails, and its row stays *)
(* running.                                                                *)
GiveUp(t) ==
    /\ stage[t] \in AgentTypes
    /\ Leave(t, "ended")
    /\ unrecorded' = unrecorded \ {t}
    /\ UNCHANGED <<rows, workerVars, planner, loops>>

(* A loop asks for the plan of its next iteration; IncidentWorkflow, out   *)
(* of budget, continues as new with the same row.                          *)
AskAgain(t) ==
    /\ working
    /\ stage[t] = "execution"
    /\ Leave(t, IF t \in loops THEN "decision" ELSE "rule")
    /\ planner' = [planner EXCEPT ![t] = NoAgent]
    /\ unrecorded' = unrecorded \ {t}
    /\ UNCHANGED <<rows, workerVars, loops>>

(* The task ends: IncidentWorkflow completes its row. *)
Finish(t) ==
    /\ working
    /\ stage[t] = "execution"
    /\ Leave(t, "ended")
    /\ IF t \in loops THEN UNCHANGED rows
       ELSE \E status \in {"completed", "failed", "denied"} :
                rows' = [rows EXCEPT ![t] = Complete(@, status)]
    /\ UNCHANGED <<workerVars, history, loops>>

(* The window of ComputeRuntimeWeights leaves the row behind; before it is *)
(* finished that makes no difference yet.                                  *)
Age(t) ==
    /\ Finished(rows[t])
    /\ rows[t].recent
    /\ rows' = [rows EXCEPT ![t].recent = FALSE]
    /\ UNCHANGED <<taskVars, workerVars, history, loops>>

-----------------------------------------------------------------------------
(* The refresh goroutine (eval/runtime_weights.go, a2a/runtime_weights.go). *)

(* Faulty: the rows are grouped by the task type alone. *)
CountedOfType(i, tt) ==
    { t \in Tasks : /\ Finished(rows[t]) /\ rows[t].recent
                    /\ TaskType[t] = tt
                    /\ rows[t].agent[Agents[i].Type] # NoAgent }

(* The rows that count for an agent and a task type. *)
Counted(i, tt) ==
    { t \in Tasks : /\ Finished(rows[t]) /\ rows[t].recent
                    /\ TaskType[t] = tt
                    /\ rows[t].agent[Agents[i].Type] = i }

(* The sum of the rewards: 1 for a completed task, -1 for a failed one. *)
Reward(R) ==
    Cardinality({ t \in R : rows[t].status = "completed" })
    - Cardinality({ t \in R : rows[t].status = "failed" })

ComputeRuntimeWeights(i, tt) ==
    LET R == Counted(i, tt) IN
    IF Cardinality(R) < MinRuns THEN 0
    ELSE Clamp((Reward(R) * RuntimeWeightsMax) \div Cardinality(R))

(* RefreshRuntimeWeights: its two queries, one per agent type, are one     *)
(* step, as weights of one type never meet those of the other.             *)
RefreshRuntimeWeights ==
    /\ refresher = "idle"
    /\ fresh' = [i \in DOMAIN Agents |->
                    [tt \in TaskTypes |-> ComputeRuntimeWeights(i, tt)]]
    /\ refresher' = "computed"
    /\ UNCHANGED <<taskVars, rows, weights, working, history, loops>>

(* The first refresh is made before the worker runs. *)
ApplyRuntimeWeights ==
    /\ refresher = "computed"
    /\ weights' = fresh
    /\ fresh' = NoWeights
    /\ refresher' = "idle"
    /\ working' = TRUE
    /\ UNCHANGED <<taskVars, rows, history, loops>>

(* Faulty: the goroutine ends with the first error. *)
RefreshFailsForGood ==
    /\ refresher = "idle"
    /\ refresher' = "stopped"
    /\ working' = TRUE
    /\ UNCHANGED <<taskVars, rows, weights, fresh, history, loops>>

(* A query fails: the old weights stay until the next tick. *)
RefreshFails ==
    /\ refresher = "idle"
    /\ refresher' = "idle"
    /\ working' = TRUE
    /\ fresh' = NoWeights
    /\ UNCHANGED <<taskVars, rows, weights, history, loops>>

(* The worker starts anew: a new router, and its attempts are repeated. *)
Restart ==
    /\ weights' = NoWeights /\ fresh' = NoWeights
    /\ refresher' = "idle" /\ working' = FALSE
    /\ phase' = [t \in Tasks |-> "idle"]
    /\ scores' = [t \in Tasks |-> <<>>]
    /\ routed' = [t \in Tasks |-> NoRoute]
    /\ unrecorded' = { t \in unrecorded : planner[t] # NoAgent }
    /\ UNCHANGED <<stage, rows, planner, loops>>

Refresh == RefreshRuntimeWeights \/ ApplyRuntimeWeights \/ RefreshFails

Activity(t) ==
    \/ Begin(t) \/ ScoreNext(t) \/ EvalAgent(t)
    \/ PolicyAnswer(t) \/ PlanAnswer(t) \/ AttemptFails(t) \/ GiveUp(t)
    \/ AskAgain(t) \/ Finish(t) \/ Age(t)

Next == (\E t \in Tasks : Activity(t)) \/ Refresh \/ Restart

Spec == Init /\ [][Next]_vars

(* The ticker keeps the goroutine going, and the database does not fail    *)
(* every time.                                                             *)
FairSpec ==
    Spec /\ SF_vars(RefreshRuntimeWeights) /\ SF_vars(ApplyRuntimeWeights)

-----------------------------------------------------------------------------
(* Properties. *)

(* The agents of the routed agent's type that the configured scores place  *)
(* more than margin above it.                                              *)
Above(t, margin) ==
    LET r == routed[t].agent
    IN  { i \in Candidates(Agents[r].Type) :
            scoreAgent(i, Agents[r].Type, TaskType[t])
              > scoreAgent(r, Agents[r].Type, TaskType[t]) + margin }

(* Runtime weights, although they may change while agents are being        *)
(* scored, only reorder agents whose configured scores are no further      *)
(* apart than twice their maximum; the LLM picks no agent below the        *)
(* MaxCandidates best, and the fallback follows the configured scores.     *)
WeightsAreBounded ==
    \A t \in Tasks : routed[t].agent # NoAgent =>
        Cardinality(Above(t, IF routed[t].reason = "fallback" THEN 0
                             ELSE 2 * RuntimeWeightsMax))
          < IF routed[t].reason = "llm" THEN MaxCandidates
            ELSE IF Softmax THEN SoftmaxTopN ELSE 1

(* Whatever attempts were repeated, the row credits the agent whose plan   *)
(* is executed, unless the database lost that very update.                 *)
CreditWhereDue ==
    \A t \in Tasks :
        rows[t].exists /\ planner[t] # NoAgent /\ t \notin unrecorded =>
            rows[t].agent["decision"] = planner[t]

(* A weight in the router stands on at least MinRuns finished tasks that   *)
(* are credited to the agent, however old they have become.                *)
WeightsAreEarned ==
    \A i \in DOMAIN Agents, tt \in TaskTypes : weights[i][tt] # 0 =>
        Cardinality({ t \in Tasks : /\ stage[t] = "ended" /\ Finished(rows[t])
                                    /\ TaskType[t] = tt
                                    /\ rows[t].agent[Agents[i].Type] = i }) >= MinRuns

(* However many refreshes fail and workers restart, the router gets back   *)
(* to the weights that the finished rows stand for.                        *)
WeightsConverge ==
    []<>(\A i \in DOMAIN Agents, tt \in TaskTypes :
            weights[i][tt] = ComputeRuntimeWeights(i, tt))

=============================================================================
