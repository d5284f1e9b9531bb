# ForgeIQ in TLA+

ForgeIQ runs operational tasks ("triage this incident", "run this runbook") as Temporal
workflows. A rule agent decides what a task may do, a decision agent plans it, tools are
called through an MCP server, humans approve or steer by signals, and an exec agent changes
deployments. This directory models the workflows, the agents and the HTTP endpoints with the
failures that surround them, checks them with TLC, and proves the main properties with TLAPS
for every value of the constants.

Paths below are relative to `src/`; `T/` is `internal/controlplane/temporal/`.

## 1. The system

### Parts, their state, operations and what makes them correct

| Part | State | Operations | Correct when |
|---|---|---|---|
| Incident workflow `T/workflow.go`, activities `T/activies.go` | status, policy copy, plan, step counter, evidence; pending activity on the Temporal server; buffered approvals | EvalPolicy, GetPlan, step loop, write gate, CallTool, ContinueAsNew, CompleteEval | no tool request beyond the decision of its run; budget and denial respected; reported outcome true; hangs nowhere but at a human or in retries |
| Agentic loop `T/agentic_loop.go`, `T/workflow_agentic.go:1-86` | plan, iteration, evidence, prompt for input; feedback, refine and stop channels | execute, recover, wait for feedback, merge, refine | blocked writes end an iteration; effects accounted for; waits visible; hangs nowhere else |
| Iterative workflow `T/workflow_agentic.go:88-236` | policy copy shared by all iterations, evidence per iteration | plan, gate, execute, repeat after a failure | writes approved; outcome true; evidence complete |
| Runbook workflow `T/runbook_workflow.go`, `T/runbook_activities.go` | memory, loop cursor, result | rule and runbook agent, diagnostics with gates, approval loop, exec calls | nothing runs past a failed gate or without its approval; records true |
| Runbook memory `T/runbook_memory.go` | buckets with versions, delta log | Apply | the log replays to the memory |
| Runbook library `internal/runbooks/`, runbook agent `cmd/control-runbook-agent/` | runbooks loaded at the start, default id | load, validate, render, normalize, serve | step ids unique |
| Observability agent `cmd/data-observability-agent/main.go` | none | POST /task: PromQL and LogQL to signals | a gate passes only on what the numbers say |
| Exec agent `cmd/data-exec-agent/main.go` | none of its own: deployments in Kubernetes | POST /task: scale, restart | no update lost or repeated; success true |
| Strategies `internal/agent/strategy/`, POST /strategy/run | conversation, counters, trace | Run in two modes | bounded, answers once, every call known |
| Evaluation store `internal/eval/` | row per task; derived weights | start, count, complete, aggregate | rows tell the truth; weights bounded |
| Routers `internal/transport/a2a/` | agents, options, runtime weights | Route, ApplyRuntimeWeights | an agent of the asked type, best score, fallback |
| Catalog `internal/catalog/` | tools | refresh, validate | refuses what the server does not have |
| MCP server `internal/dataplane/` | tools, plugins | tools/list, tools/call | one execution per request |
| Orchestrator API `cmd/control-orchestrator/main.go`, tenancy `internal/middleware/tenancy.go` | requests at work; API keys | /run, /status, /result, signals, /events | a caller's own task runs; results final; tasks served to their tenant |
| Worker `cmd/control-temporal-worker/main.go` | catalog, router, refresh goroutine | start, refresh | returns to the weights the rows stand for |
| In-process orchestrator, exec stub, registry, storage, rate limiter, RAG, clients, config, telemetry | rows, maps, windows | CRUD, queries | see section 6 and `components` in `PROJECT.json` |

### How they interact

The API makes a task id from the tenant and the clock, starts a workflow under it, and later
signals or queries it by that id. A workflow is a sequential function that Temporal replays;
everything that touches the world is an activity that Temporal runs **at least once** and,
under the default retry policy the incident workflows use, without limit: an attempt that
returns an error is repeated, and if every attempt does, the task runs for ever. Activities call
agents (A2A over HTTP) and tools (MCP over HTTP). Requests outlive the attempts that sent
them: the server's handler does not see the caller's deadline. Signals are buffered per
channel and consumed by whatever Receive comes next. The activities also keep one row of
`eval_runs` per task, best effort; the worker turns rows into weights of its router. Exec
requests of retries and of different tasks meet at Kubernetes, where an Update is refused
unless its resourceVersion is current. Strategies run inside an HTTP handler of the API,
without Temporal.

### What is hard here

Late tool requests after a timeout; repeated writes; approvals that come early, twice or for
another step; approvals and budgets across ContinueAsNew; workers that restart with another
catalog; iterations that repeat a plan; results thrown away with an error; gates skipped by
failing diagnostics; numbers that are not numbers; idempotency keys that are overwritten; two
tasks with one id; a result that is read while it comes into being; ids that become equal
after they were checked. `PROJECT.json` lists each hazard at its line with the properties that
would catch it, or the reason why none does.

## 2. The modules

| Module | Models | Built on |
|---|---|---|
| `Agents` | contracts of policies and plans, CallTool's policy checks, the answers of the stock rule and decision agents | |
| `EvalStore` | the `eval_runs` row of a task as a value and its updates | |
| `TaskLives`, `TaskLifecycle` | **abstract**: what clients may rely on about one workflow of a task: status, result told by the query, runs, outcome; `TaskLifecycle` is the specification, `TaskLives` its steps as operators on values | |
| `IncidentWorkflow` | `IncidentWorkflow`, its activities, the MCP server's handler, approval signals, worker restart | `Agents`, `EvalStore`; implements `TaskLifecycle` |
| `AgenticLoop` | `IncidentWorkflowWithAgenticLoop` and `AgenticLoop` | `Agents`, `EvalStore`; implements `TaskLifecycle` |
| `IterativeWorkflow` | `IncidentWorkflowIterative` | `Agents`, `EvalStore`; implements `TaskLifecycle` |
| `TaskAPI` | the task endpoints behind the tenancy middleware, with concurrent handlers, over workflows that live as `TaskLives` says | `TaskLives` |
| `ExecContracts` | `ExecInput` | |
| `ExecAgent` | concurrent handlers of the exec agent over versioned deployments | `ExecContracts` |
| `RunbookMemory` | the memory as a value, `Apply` and the workflow's deltas | `ExecContracts` |
| `DiagnosticGate` | `evalDiagnosticGate` | |
| `RunbookWorkflow` | the runbook workflow composed with `ExecAgent`; uses it as its `ExecSpec` says | `RunbookMemory`, `DiagnosticGate`, `ExecAgent` |
| `RunbookLibrary` | the loader, validation, rendering, id normalization, the runbook agent's answer | |
| `ObservabilityAgent` | from a query and a backend's answer to signals | |
| `Diagnosis` | files to served runbook to judged diagnostics: the composition of the three | `RunbookLibrary`, `ObservabilityAgent`, `DiagnosticGate` |
| `ToolLoop` | **abstract**: what a loop of model and tools promises its caller | |
| `Strategies` | POST /strategy/run, function calling and ReAct, the two model clients | implements `ToolLoop` |
| `Routing` | the routers, the activities that ask them, the rows of all tasks and the refresh of runtime weights | |
| `MC*` | small instances | |
| `*_proofs` | theorems | |

Reading `IncidentWorkflow` next to the code: `pc` is the place of the workflow function
(`policy`, `plan`, the loop head, the `gate`'s Receive, `record`ing the approval, the tool
`call`, `complete` for CompleteEval, `renew` when the budget is exceeded). `pd` is the local that an approval mutates; `rulings`
keeps what the rule agent really answered in each run, so that properties can compare the
two. `act` and `attempt` are the pending activity as the Temporal server sees it, `inflight`
and `effects` the requests the MCP server has yet to run and has run. Any attempt of any
activity may fail (`AttemptFails`, and for a tool whose request was sent `AttemptLost`), none
has to succeed; what a failed attempt wrote to the evaluation row stays (`LeftBehind`). An
error the function sees (`PlanningError`, `StepError`) is an activity the Temporal server gave
up. `run` counts the ContinueAsNew chain: `BudgetExceeded` sets the status to failed, which a
query of that run tells, and returns; `ContinueAsNew` is the server's start of the next run, in
which every local is new, while requests of the earlier run stay in flight. One action is one
stretch of the function between two waits, with all status writes in it.

In `AgenticLoop` a window of 100 ms that polls a signal is two actions, one that takes a
signal and one that ends the window; it cannot end untouched while a signal is buffered,
because the selector prefers a ready channel to its default. `Pending` says where the function
awaits an activity, `attempt` counts its attempts that failed. An attempt of CallTool executes
its tool or not, whether it fails or is answered; late requests are the subject of
`IncidentWorkflow`. GetPlan may answer with any plan, since the activity tells the decision
agent neither the policy nor the evidence. `IterativeWorkflow` does the same.

A life in `TaskLives` is `[run, status, result, outcome]`: status and result are what the two
query handlers answer, outcome is what Temporal keeps. A life that failed ends in an error or
is renewed; one that completed or was denied only ends. The three workflows are mapped to it by
`Life` in each module, with `outcome` derived from `pc` and the result. A denial of the
iterative workflow sets no artifact its query would tell, so its mapping (`FinalResult`) tells
none. `TaskAPI` keeps, per task id, the sequence of executions Temporal has of it; a handler is
split where it calls Temporal (`Run` makes the id, `Started` or `StartFailed` is the call), and
/result is two actions, the query's answer and the outcome waited for, since the workflow may
move in between. What is waited for is decoded into an `Artifact` (`Decoded`): the artifact of
an incident workflow, and an empty one for what the runbook workflow returns. `Codes` gives every status code an endpoint may answer.

In `ExecAgent` a handler is a Get followed by an Update. `versions[d]` is the list of specs a
deployment went through, so that resourceVersion is its length. `RunbookWorkflow` adds the
workflow on top: `CallExec` is the agent's `Submit` of one attempt's request, with key
`workflow id : step id`, and the run ends an attempt at any time (timeout) while its handler
goes on.

`RunbookWorkflow` takes the answers of the read-only agents as constants; `Diagnosis` computes
them. There an id is the list of names between its colons and whether blanks surround it, which
is what prefixing, trimming and comparing tell apart; a query is a type, a text and its window;
an answer of Prometheus or Loki is a list of series of integers, `NaN` or `Bad` (no number).

In `Strategies` tool calls are numbered in the order the loop makes them, so that outputs,
conversation, trace and the server's executions can be compared; `ServerExecutes` may happen
after the loop gave the call up or has ended. `CallLimit`, the bound
with which the loops implement `ToolLoop`, is the limit the code keeps; that it is not the
budget a caller of ReAct asked for is the finding `react_budget` (section 5).

In `Routing` an attempt of EvalPolicy or GetPlan is begin, score one candidate after the
other, record the agent, ask it; the refresh goroutine computes weights from the rows and
stores them at any point in between, which is what the missing lock allows (a Go map header
read in two halves is below this model). The activities give the router a task with id and
type only, so a request's tags are its agent type. The random choices of the router are
choices, the LLM is any choice or an error, and `recent` says whether the row is within the
window of the aggregation.

Definitions whose comment starts with "Faulty:" are single deviations from the code next to
them (a dropped guard, an off-by-one, a missing reset). No specification uses them; putting
one in the place of its neighbour must violate the property named in `mutants` of
`PROJECT.json`, which shows that the property depends on the code being as it is.

## 3. What is checked

| Run | Shows | Bounds, and why they are enough |
|---|---|---|
| `incident` | `CallsAuthorised`, `BudgetRespected`, `DeniedMeansNoWrite`, `CompletedMeansExecuted`, `EvalRowTruthful`; `AlwaysSettles`; `ImplementsLifecycle` | 2 runs (a late request of one meets the other's decision), 2 requests per step (one lost, one answered), failing attempts without bound, 2 approvals (early and late, or yes and no), 5 decisions (budgets of none, 1 and 2), 2 plans (a lone write that stops the task when it fails; a read before a write that does not), 2 catalogs. 0.7 M states |
| `agentic` | `BlockedWriteEndsIteration`, `EffectsAccounted`, `WaitingIsVisible`; `LoopSettles`; `ImplementsLifecycle` | 2 iterations (one that can recover and a last one), 2 failing attempts of each activity, 2 signals of any of 3 channels, 4 decisions, 3 plans with the empty one. 0.4 M states |
| `iterative` | `WritesApproved`, `DeniedMeansNoWrite`, `OutcomeIsTrue`, `EvidenceCoversEffects`; `IterativeSettles`; `ImplementsLifecycle` | the code's 3 iterations, 2 failing attempts of each activity, 2 approvals, 4 decisions, 2 plans (a gated write before a read; a read before a write that ends the task) chosen anew in each iteration. 0.9 M states |
| `runbook` | of the exec agent `NoRepeatedUpdate`, `NoLostUpdate`, `SuccessMeansApplied`; of the run `ApprovedBeforeExec`, `GateStopsActions`, `RecordsAreTrue`, `ReplayRebuilds`, `AuditShowsApproval`; `RunbookSettles`; `ExecSpec` | 3 runbooks (gated diagnostic with a restart and a scale; two actions with one id; an action of an unknown type), 2 attempts per action, whose handlers stay when the run gives them up, 2 signals out of 4, one request of another task: up to 5 handlers of 3 keys are at work on one deployment (deployments do not interact). The theorems of section 4 cover any number. 0.4 M states |
| `diagnosis` | `StepsKeepTheirNames`, `GatesPassOnTruth` | 8 gated runbooks (instant, range, without step, backwards; two comparisons), 16 with every pair of plain, padded, pre-namespaced and colliding ids, other invalid ones; directories of one and of several files; 19 answers with missing, unaligned, non-numeric and NaN samples; each set of configured backends. 22 k states |
| `strategies` | `CallsAreKnown`; `KeepsLoopPromise`, the refinement to `ToolLoop` with its liveness | a unit of time is 5 s (write timeout 3, wall time and context 4 units); the default budgets are 3 iterations and 2 or 1 calls instead of 8 and 8 or 6, so that each can be the one that is hit; 2 tools; 23 bodies, among them each way to be refused. 151 k states |
| `api` | `OwnTaskRuns`, `ResultIsFinal`, `OwnersAreServed` | 2 requests to /run in the same or the next millisecond, 3 tenants of which two share a slug, two with it as their name, 2 runs of an execution, a task type with and one without query handlers, 5 credentials (one expires meanwhile), tenancy required, which is the setting in which a request carries a tenant or is refused. 0.5 M states |
| `routing` | `WeightsAreBounded`, `CreditWhereDue`, `WeightsAreEarned`; `WeightsConverge` | 2 tasks of one type, both incident workflows or one of them a loop; hybrid router, 1 rule agent, 3 decision agents, of which one task's reward can swap neighbours, so that another is offered to the LLM, while the first and the last are a little too far apart. One row earns a weight: while the second task is routed, the first has ended and weights come, change and go between two scores. The settings without an LLM, with softmax and with random tie breaks, more candidates for the LLM and weights that need more rows are constants this run does not vary; the theorems hold for all of them. 0.2 M states |
| `approved_write`, `agentic_end`, `gate_skipped`, `react_budget` | violations: the disagreements of section 5 | an instance that shows them |

The type invariants are proved instead of run (section 4).

Deadlock is not checked: a closed workflow, a wait for a human and an exhausted bound are
states in which these systems may stop; that they stop in no other is what the `...Settles`
properties and the liveness of `ToolLoop` say.

Bounds are named (`MaxRuns`, `MaxAttempts`, `MaxSignals`, `MaxRequests`, `MaxTime`,
`MaxClock`) and appear in guards. The bounds on attempts spare none of them from failing: in
the incident, the agentic and the iterative workflow every attempt of every activity may fail,
and a step whose attempts are used up stands for one that the server goes on retrying
(`Retrying`), as it does for ever in the code.

### Fairness

Each workflow has weak fairness of the steps that are its own: Temporal schedules every ready
workflow task and activity task, ends an attempt at its StartToCloseTimeout, and fires retry
and window timers. `IncidentWorkflow` adds that the MCP server runs each request it holds
(net/http starts a goroutine per request). `Strategies` has weak fairness of its `Handler`:
the goroutine of a request runs, and each of its waits is an HTTP request under the context's
deadline, hence ends at least in an error. `Routing` has strong fairness of the two steps of
the refresh: its ticker never stops, and the database does not fail every time. No fairness
is assumed of humans, of lost messages, of restarts, of activities being given up, of the tool
server of a strategy, or of the exec agent, and no attempt of an activity has to succeed: a
run whose human never answers stays at its gate, one whose tool or agent always fails stays in
its retries, and the `...Settles` properties name these states as the only ones in which a task
may stay.

## 4. What is proved

`tlapm` checks every leaf. The proofs use only the named assumptions of the modules:
the sets given as constants have the contracts' types; bounds are naturals. Those that say
more are `NumberAssumption` (`NaN` and `Bad` are no integers) and `DiagnosisAssumption` (files
that parse have the fields `contracts.Runbook` looks at, and a matrix, as Prometheus and Loki
send it, has series with one point at a time).

* `IncidentWorkflow_proofs`: `TypeCorrect`, and from `Inductive` the theorems
  `CallsAreAuthorised`, `BudgetIsRespected`, `DeniedTasksDoNotWrite`,
  `CompletedTasksExecuted`, `EvalRowIsTruthful`. None of the properties is inductive alone.
  `IInv` adds: the history has one decision per run that got that far (`RulingsInv`), the
  workflow's copy differs from it only by an approval consumed in the same run (`PolicyInv`),
  requests belong to runs with a decision and a run without the right to write has issued no
  write (`RequestInv`), status.State says where the function is (`StateInv`), a step is begun
  only within the budget (`BudgetInv`), and earlier steps were dealt with (`ProgressInv`).
* `AgenticLoop_proofs`: `IInv` with where effects of the running iteration may be
  (`EffectsInv`), that without AllowWrites no step so far is a write (`PlanPrefixInv`) and what
  the status says (`StatusInv`); hence `BlockedWritesEndIterations`, `EffectsAreAccounted`,
  `WaitsAreVisible`, `TypeCorrect`.
* `IterativeWorkflow_proofs`: `IInv` with where effects and approvals may lie (`PlacesInv`),
  that the workflow's policy allows writes only as the rule agent's did or after an approval
  (`PolicyInv`), and that the running iteration has either executed all steps so far or has a
  failed one in the evidence (`ProgressInv`); hence `WritesAreApproved`, `DenialIsClean`,
  `OutcomesAreTrue`, `RepeatsAreReasoned`, `EvidenceIsComplete`, `TypeCorrect`.
* **The task's life.** Each of the three modules proves `LifecycleIsImplemented`: its `Spec`
  implies `Life!Spec`, the life of a task that `TaskLifecycle` states. The argument: an
  invariant (`LifeInv`) says which status and result go with which place of the function, so
  that a step starts from an open life; then each action is a `Moved`, `Ended`, `Closed`,
  `Renewed` or a stutter. In `IncidentWorkflow` exceeding the budget is an `Ended` in failed,
  and the new run a `Renewed` after it: what a client was told as failed may be tried again,
  what it was told as completed or denied may not. `TaskAPI` composes these lives with the handlers by the same
  operators of `TaskLives`, so the `api` run speaks of whatever workflow implements them.
* `RunbookWorkflow_proofs`, first part, about `ExecAgent` alone: `ExecInv` with `LoadedInv`: a
  handler past its Get holds a version that existed and at which its change was not applied.
  Since an Update succeeds only at the current version, it changes the deployment
  (`UpdatesAreNotRepeated`) and only in the field its request names (`UpdatesAreNotLost`), for
  any number of deployments and requests; `SuccessIsTrue` follows for updates and noops alike
  (`AgentInductive`, `AgentTypeCorrect`).
* `RunbookWorkflow_proofs`, the composition: `AgentIsUsedAsSpecified` shows `Spec => ExecSpec`: each step is
  one of the agent's or leaves it alone. So `ExecInv` holds in every run and is part of `Base`,
  with the types (`LoopType`, hence `RunTypeCorrect`) and with `PlaceInv`, which says for each
  place how far the loops are and what requests exist: those of earlier actions or earlier
  attempts of the current one, so that a new attempt is a new request. On `Base` stand one
  invariant per property: `ApprovalInv` (`NothingUnapproved`: what passed the approval loop was
  approved by name, although ids may repeat), `GateInv` (`FailedGatesStopActions`), `RecordInv`
  and `AnswerInv` (`RecordsTellTheTruth`: every action left behind has its record; a recorded
  success was answered by the agent, hence true of the cluster by `ExecInv`), `AuditInv`
  (`AuditTrailIsComplete`: no delta removes an approval from the log).
  `ReplayIsFaithful`: the fold of the log over an empty memory is the memory. Every delta of
  the workflow keeps `Replayed`; the fold is read as a chain of memories, one per entry
  (`Replays`), which exists for every log (`ReplayExists`) and grows at its end (`ReplayLast`).
* `Diagnosis_proofs`: `IInv` says that an agent that runs has a valid library (`Library`), that
  the served runbook is one of its files, rendered and normalized (`Served`), and that the
  entries so far belong to the first diagnostics, those that passed with a judgement of their
  own output (`Seen`). `NamesKept` then is a fact about sequences: what is put behind the
  namespace is within it and keeps its identity (`Prefixed`), so ids that were distinct and not
  yet in the namespace stay distinct. `TruthJudged` is one about sums: the agent adds up
  all points of one timestamp and takes the last sum, the property adds up each series' last
  number. They are one total under two names (`TotalRenamed`) if all series end at that
  timestamp, because NaN-aware addition takes its numbers in any order (`TotalAny`).
  `ActionsJudged` is what `gate_skipped` (section 5) leaves of the gate that fails closed: an
  error skips it, and nothing else does.
* `Strategies_proofs`: `Inductive` relates the loop counter, the budgets, the conversation,
  the outputs, the trace and the server's requests. `NoCallIsHidden` follows, and
  `LoopIsImplemented`: `Spec => Loop!Spec`, for all budgets, tools and requests.

* `TaskAPI_proofs`: `IInv` says of every execution that its life is one `TaskLives` allows
  (`LifeInv`), of every request that its id is its slug and its millisecond (`IdInv`), whose
  execution it may have started (`ExecutionInv`) and what its handler holds (`ResultInv`). The
  lemma `SuccessorLife` is the interface to the workflows: a step of a life keeps a result once
  told and a life once closed. `ResultsAreFinal` says of incident tasks that what /result served
  is what the workflow ends with, and of runbook tasks that it is an empty artifact, served only
  after the task closed with a result. Hence `CallersOwnTasksRun`, `ResultsAreFinal`,
  `OwnersAreAlwaysServed` and `TypeCorrect`, for every workflow that implements these lives.
* `Routing_proofs`: scores are taken one by one while the weights may change, so the invariant
  speaks of each score alone: it is `Near` the configured one by the bound of the weights,
  whichever weights it was taken with (`ScoreInv`). When the last is taken, an agent configured
  further than twice the bound above the chosen one has a higher score, and `RoutesAreBounded`
  counts these, for a single winner, a softmax of the best, the LLM's candidates and the
  fallback; hence `ConfiguredOrderRules`. `CreditInv` adds to `CreditWhereDue` that the agent
  being asked has the credit already (`PlannersAreCredited`). `EarnedInv` speaks also of the
  weights the goroutine has computed and not yet applied; it is kept because a finished row
  changes neither its agents nor its status (`KeepsMerit`; `WeightsComeFromTasks`).

Each proof has one step per action; facts about sequences, records and cardinalities used in
several places are lemmas. The folds of the community modules are expanded to the function
they choose, and shown to have one. Where that needs an induction, it is over the set of the
numbers for which the fact holds, by the least number missing from it (`Induction`), since
the library's induction theorems cannot be instantiated.

Only model-checked: the liveness properties (out of the prover's reach with fairness), among
them that of `ToolLoop` and the convergence of the weights. Every other property of a run that
passes is a theorem.

## 5. Where the code and the documents disagree

Each is shown by a run that must end in a violation of one property (`findings` in
`PROJECT.json` quote the lines). `LoopEndsWhenDone` follows from either of the two promises of the
agentic loop's end, so that its violation contradicts both.

| Run | Documented | What happens |
|---|---|---|
| `approved_write` | POST /approve approves a write operation | the approval sets AllowWrites only; CallTool also wants the write tag, which the stock rule agent did not grant, and is retried for ever |
| `agentic_end` | POST /stop stops the loop | the signal is only noted in the evidence |
| `agentic_end` | the loop goes on "until goal is met or max iterations reached", and "stops when goal is achieved" | the keys of the evidence that `isGoalAchieved` reads are never set: an iteration whose steps all succeeded is followed by the next, which runs the plan again, its writes included |
| `react_budget` | the loops respect `MaxToolCalls` and stop when a budget is hit | ReAct compares it only with the calls it picks itself; a model that asks for a tool each time makes `MaxIterations` calls |
| `gate_skipped` | the gate fails closed if observability is degraded or the signal missing | an agent that is not reached, or whose answer holds a NaN it cannot encode, is an error of the activity, and an error skips the gate |

Met while reading, without a run of their own:

- Retries: non-idempotent writes get "no automatic retries"
  (`docs/TOOL_EXECUTION_POLICY.md:104-105`), while the default retry policy of the incident
  workflows repeats them, as it repeats the policy errors that lines 86-91 call final. A budget
  that is hit should stop the task with a partial output (lines 54-56); the incident workflow
  starts it again by ContinueAsNew.
- Plans may be "refined based on previous evidence" (`docs/AGENTIC_LOOP.md:41`): GetPlan drops
  the policy and the evidence it is given and sends the decision agent the task alone
  (`T/activies.go:64-72`), so a later iteration learns nothing from an earlier one.
- "`GET /result/{taskID}` – fetches final result (already present)" for a runbook task
  (`examples/runbook-automation.md:26`): the workflow's `RunbookAutomationResult`
  (`T/runbook_workflow.go:29-40,55`) shares no key with the `Artifact` it is decoded into
  (`cmd/control-orchestrator/main.go:576-589`), so the answer is 200 with an artifact of empty
  fields. `ResultIsFinal` says so.
- The budget branch sets `state` to failed before it continues as new (`T/workflow.go:208-211`):
  a client that looks in that moment sees a task fail which then runs again.
- The default retry policy has no limit (`T/workflow.go:150-154`): an agent or a tool that fails
  each time keeps the task running, with nothing about it in the status.
- The stop reason `max_iterations` that `internal/agent/strategy/types.go:54` lists is never
  produced. Strategies call tools without the policy checks of CallTool. The default wall time
  of 20 s is not below the context's, so it ends in an error rather than in a partial answer,
  and the server's write timeout of 15 s is shorter than both.
- The idempotency key "allows the caller to safely retry"
  (`internal/controlplane/contracts/run-book-a2a.go:21`): the exec agent keeps the last restart's
  key only, and a restart by another task in between makes a late retry restart again.
- "Operators approve specific steps via /approve" (`examples/runbook-automation.md:12`): the
  endpoint signals a bool, the runbook workflow expects a struct and goes on waiting. It also
  registers no query handlers, so /status answers 500 for its tasks.
- NormalizeIDs means "to avoid collisions" (`internal/runbooks/normalize.go:9`): ids that are
  padded or already in the namespace may become equal to others after validation. The loader
  keys runbooks by the id as it stands, the agent looks them up trimmed.
- A start and end without a step makes the observability agent ask an instant query.
- A tenant whose slug differs from its name gets 403 on its own tasks; two requests to /run of
  one slug in one millisecond share a workflow, and the second input is dropped; the logging
  middleware hides `http.Flusher`, so that `/events` answers 500.
- The feedback actions `approve` and `reject` of `docs/API.md` change nothing; the loop's
  callers report `completed` for a payload that says `failed`; the agentic and iterative
  workflows never complete their evaluation row; the iterative workflow keeps the state
  `needs_approval` after the approval, its refine signal neither shortens the wait nor changes
  the plan, and its denial leaves the result query empty.
- The stock rule agent's answer is not what the runbook workflow decodes; the routing hints
  `planner_tags` that `docs/API.md:31` and `docs/GETTING_STARTED.md:74` offer never reach a
  router, since the activities pass it a task without metadata.

## 6. Not modelled, and the plan

Not modelled, with the reason:

- the exec agent's stub executes nothing and answers a fixed text;
- the rate limiter, the in-process orchestrator and the storage package are constructed by no
  command of the repository, so no behaviour of the program goes through them;
- the body of the /events stream, which no request reaches (see above);
- the registry's rows, retrieval, discovery and the listing endpoints: single statements or
  stateless I/O whose results are inputs of what is modelled;
- what a tool returns, how plugins are loaded, configuration, telemetry, validation of
  settings, wording.

Where the project can grow, in this order: `Routing` with its other settings, the registry's
rows and discovery as the source of the routers' agents.
