--------------------------- MODULE Routing_proofs ---------------------------
(***************************************************************************)
(* Proofs about Routing, for all agents, tasks, modes of selection and     *)
(* bounds of the weights.                                                  *)
(***************************************************************************)
EXTENDS Routing, FiniteSetTheorems, SequenceTheorems, TLAPS

(* A score lies within the bound of the weights around the configured one. *)
Near(x, i, type, tt) ==
    /\ x \in Int
    /\ x <= scoreAgent(i, type, tt) + RuntimeWeightsMax
    /\ scoreAgent(i, type, tt) <= x + RuntimeWeightsMax

(* The agents of r's type that are configured more than margin above it. *)
Higher(r, tt, margin) ==
    { i \in Candidates(Agents[r.agent].Type) :
        scoreAgent(i, Agents[r.agent].Type, tt)
          > scoreAgent(r.agent, Agents[r.agent].Type, tt) + margin }

Bounded(r, tt) ==
    Cardinality(Higher(r, tt, IF r.reason = "fallback" THEN 0 ELSE 2 * RuntimeWeightsMax))
      < IF r.reason = "llm" THEN MaxCandidates
        ELSE IF Softmax THEN SoftmaxTopN ELSE 1

-----------------------------------------------------------------------------
(* Candidates and their positions. *)

(* What the proofs use of the constants. *)
LEMMA Constants ==
    /\ RuntimeWeightsMax \in Nat \ {0} /\ MinRuns \in Nat \ {0}
    /\ SoftmaxTopN \in Nat \ {0} /\ MaxCandidates \in Nat \ {0}
    /\ IsFiniteSet(Tasks)
  BY RoutingAssumption

(* Agents are indexed by finitely many naturals from 1 on. *)
LEMMA AgentFacts ==
    /\ DOMAIN Agents \subseteq Nat \ {0}
    /\ IsFiniteSet(DOMAIN Agents)
    /\ \A i \in DOMAIN Agents : Agents[i] \in Agent
<1>1. Agents \in Seq(Agent)
  BY RoutingAssumption
<1>2. DOMAIN Agents = 1..Len(Agents) /\ Len(Agents) \in Nat
  BY <1>1, LenProperties
<1>3. IsFiniteSet(1..Len(Agents))
  BY <1>2, FS_Interval
<1>4. \A i \in DOMAIN Agents : Agents[i] \in Agent
  BY <1>1, ElementOfSeq, LenProperties
<1> QED
  BY <1>2, <1>3, <1>4

(* The candidates of a type, as indices. *)
LEMMA CandidateFacts ==
    ASSUME NEW type
    PROVE  /\ Candidates(type) \subseteq DOMAIN Agents
           /\ Candidates(type) \subseteq Nat \ {0}
           /\ IsFiniteSet(Candidates(type))
           /\ Cardinality(Candidates(type)) \in Nat
           /\ \A i \in Candidates(type) : Agents[i].Type = type
<1>1. Candidates(type) \subseteq DOMAIN Agents
  BY DEF Candidates
<1>2. IsFiniteSet(Candidates(type))
  BY <1>1, AgentFacts, FS_Subset
<1> QED
  BY <1>1, <1>2, AgentFacts, FS_CardinalityType DEF Candidates

(* Positions number a finite set of indices from 1 on, each once. *)
LEMMA Positions ==
    ASSUME NEW C \in SUBSET Nat, IsFiniteSet(C)
    PROVE  /\ \A i \in C : Position(C, i) \in 1..Cardinality(C)
           /\ \A i, j \in C : Position(C, i) = Position(C, j) => i = j
<1> DEFINE Upto(i) == { j \in C : j <= i }
<1>1. \A i \in C : /\ IsFiniteSet(Upto(i)) /\ Cardinality(Upto(i)) \in Nat
                   /\ Cardinality(Upto(i)) <= Cardinality(C)
                   /\ Cardinality(Upto(i)) # 0
  <2> SUFFICES ASSUME NEW i \in C
               PROVE  /\ IsFiniteSet(Upto(i)) /\ Cardinality(Upto(i)) \in Nat
                      /\ Cardinality(Upto(i)) <= Cardinality(C)
                      /\ Cardinality(Upto(i)) # 0
    OBVIOUS
  <2>1. Upto(i) \in SUBSET C /\ i \in Upto(i)
    OBVIOUS
  <2> HIDE DEF Upto
  <2>2. IsFiniteSet(Upto(i)) /\ Cardinality(Upto(i)) <= Cardinality(C)
    BY <2>1, FS_Subset
  <2>3. Cardinality(Upto(i)) \in Nat
    BY <2>2, FS_CardinalityType
  <2>4. Cardinality(Upto(i)) # 0
    BY <2>1, <2>2, FS_EmptySet
  <2> QED
    BY <2>2, <2>3, <2>4
<1>2. Cardinality(C) \in Nat
  BY FS_CardinalityType
<1>3. \A i \in C : Position(C, i) = Cardinality(Upto(i))
  BY DEF Position
<1>4. \A i, j \in C : i < j => Cardinality(Upto(i)) # Cardinality(Upto(j))
  <2> SUFFICES ASSUME NEW i \in C, NEW j \in C, i < j,
                      Cardinality(Upto(i)) = Cardinality(Upto(j))
               PROVE  FALSE
    OBVIOUS
  <2>1. Upto(i) \in SUBSET Upto(j) /\ j \in Upto(j) /\ j \notin Upto(i)
    <3>1. i \in Nat /\ j \in Nat /\ \A k \in C : k \in Nat
      OBVIOUS
    <3>2. \A k \in C : k <= i => k <= j
      BY <3>1
    <3>3. j <= j /\ ~(j <= i)
      BY <3>1
    <3> QED
      BY <3>2, <3>3
  <2>2. IsFiniteSet(Upto(j))
    BY <1>1
  <2> HIDE DEF Upto
  <2>3. Upto(i) = Upto(j)
    BY <2>1, <2>2, FS_Subset
  <2> QED
    BY <2>1, <2>3
<1>5. \A i, j \in C : i = j \/ i < j \/ j < i
  OBVIOUS
<1> HIDE DEF Upto
<1>6. \A i \in C : Position(C, i) \in 1..Cardinality(C)
  BY <1>1, <1>2, <1>3
<1>7. \A i, j \in C : Position(C, i) = Position(C, j) => i = j
  BY <1>3, <1>4, <1>5
<1> QED
  BY <1>6, <1>7

(* Nth is the inverse of Position. *)
LEMMA NthFacts ==
    ASSUME NEW C \in SUBSET Nat, IsFiniteSet(C)
    PROVE  /\ \A i \in C : Nth(C, Position(C, i)) = i
           /\ \A n \in 1..Cardinality(C) : Nth(C, n) \in C
<1> DEFINE P == [ i \in C |-> Position(C, i) ]
           N == 1..Cardinality(C)
<1>1. Cardinality(C) \in Nat
  BY FS_CardinalityType
<1>2. IsFiniteSet(N) /\ Cardinality(N) = Cardinality(C)
  <2>1. /\ IsFiniteSet(1..Cardinality(C))
        /\ Cardinality(1..Cardinality(C)) =
               IF 1 > Cardinality(C) THEN 0 ELSE Cardinality(C) - 1 + 1
    BY <1>1, FS_Interval
  <2> QED
    BY <1>1, <2>1
<1>3. P \in Injection(C, N)
  BY Positions DEF Injection, IsInjective
<1>4. P \in Surjection(C, N)
  <2> HIDE DEF P, N
  <2> QED
    BY <1>2, <1>3, FS_Injection
<1>5. \A n \in N : \E i \in C : Position(C, i) = n
  BY <1>4 DEF Surjection
<1>6. \A i \in C : Nth(C, Position(C, i)) = i
  <2> SUFFICES ASSUME NEW i \in C PROVE Nth(C, Position(C, i)) = i
    OBVIOUS
  <2>1. \E j \in C : Position(C, j) = Position(C, i)
    OBVIOUS
  <2>2. Nth(C, Position(C, i)) \in C /\ Position(C, Nth(C, Position(C, i))) = Position(C, i)
    BY <2>1 DEF Nth
  <2>3. \A a, b \in C : Position(C, a) = Position(C, b) => a = b
    BY Positions
  <2> QED
    BY <2>2, <2>3
<1>7. \A n \in N : Nth(C, n) \in C
  BY <1>5 DEF Nth
<1> QED
  BY <1>6, <1>7

-----------------------------------------------------------------------------
(* Scores. *)

(* A clamped weight lies within the bound. *)
LEMMA ClampBounds ==
    ASSUME NEW w \in Int
    PROVE  /\ Clamp(w) \in Int
           /\ -RuntimeWeightsMax <= Clamp(w) /\ Clamp(w) <= RuntimeWeightsMax
  BY Constants DEF Clamp

(* The configured score is a number. *)
LEMMA ScoreType ==
    ASSUME NEW i \in DOMAIN Agents, NEW type, NEW tt
    PROVE  scoreAgent(i, type, tt) \in Int
<1>1. Agents[i].Weight \in Int
  BY AgentFacts DEF Agent
<1> QED
  BY <1>1 DEF scoreAgent

(* Whatever the weights are now, a score is near the configured one. *)
LEMMA ScoreIsNear ==
    ASSUME weights \in Weights, NEW i \in DOMAIN Agents, NEW type, NEW tt \in TaskTypes
    PROVE  Near(scoreAgentWithOptions(i, type, tt), i, type, tt)
<1>1. weights[i][tt] \in Int
  BY DEF Weights
<1> DEFINE c == Clamp(weights[i][tt])
           s == scoreAgent(i, type, tt)
<1>2. /\ c \in Int
      /\ -RuntimeWeightsMax <= c /\ c <= RuntimeWeightsMax
  BY <1>1, ClampBounds
<1>3. s \in Int
  BY ScoreType
<1>4. scoreAgentWithOptions(i, type, tt) = s + c
  BY DEF scoreAgentWithOptions
<1> HIDE DEF s, c
<1>5. /\ s + c \in Int /\ s + c <= s + RuntimeWeightsMax
      /\ s <= s + c + RuntimeWeightsMax
  BY <1>2, <1>3, Constants
<1> QED
  BY <1>4, <1>5 DEF Near, s

(* What is far above an agent is before it. *)
LEMMA HigherIsBefore ==
    ASSUME NEW type, NEW tt, NEW r \in Candidates(type), NEW i \in Candidates(type),
           NEW x, NEW y, Near(x, r, type, tt), Near(y, i, type, tt),
           scoreAgent(i, type, tt) > scoreAgent(r, type, tt) + 2 * RuntimeWeightsMax
    PROVE  y > x /\ i # r
<1> DEFINE a == scoreAgent(i, type, tt)
           b == scoreAgent(r, type, tt)
           m == RuntimeWeightsMax
<1>1. a \in Int /\ b \in Int /\ m \in Nat
  BY ScoreType, CandidateFacts, Constants
<1>2. x \in Int /\ y \in Int /\ x <= b + m /\ a <= y + m /\ a > b + 2 * m
  BY DEF Near
<1>3. i = r => a = b
  OBVIOUS
<1> HIDE DEF a, b, m
<1> QED
  BY <1>1, <1>2, <1>3

(* A set of agents that are all before a winner is smaller than its rank   *)
(* allows.                                                                 *)
LEMMA WinnersAreHigh ==
    ASSUME NEW C, IsFiniteSet(C), NEW score, DOMAIN score = C,
           \A i, j \in C : score[i] \in Int /\ score[j] \in Int,
           NEW w \in Winners(score), NEW A \in SUBSET C,
           \A i \in A : score[i] > score[w]
    PROVE  /\ w \in C
           /\ Cardinality(A) < IF Softmax THEN SoftmaxTopN ELSE 1
<1> DEFINE B == { j \in C : Before(score, j, w) }
<1>1. w \in C
  BY DEF Winners
<1>2. A \subseteq B /\ B \subseteq C
  BY DEF Before
<1>3. Rank(score, w) = Cardinality(B)
  BY DEF Rank
<1> HIDE DEF B
<1>4. IsFiniteSet(B)
  BY <1>2, FS_Subset
<1>5. Cardinality(A) <= Cardinality(B) /\ Cardinality(A) \in Nat /\ Cardinality(B) \in Nat
  BY <1>2, <1>4, FS_Subset, FS_CardinalityType
<1>6. CASE Softmax
  <2>1. Cardinality(B) < SoftmaxTopN
    BY <1>3, <1>6 DEF Winners
  <2> QED
    BY <1>1, <1>5, <1>6, <2>1, Constants
<1>7. CASE ~Softmax /\ TieBreakRandom
  <2>1. A = {}
    BY <1>1, <1>7 DEF Winners
  <2>2. Cardinality(A) = 0
    BY <2>1, FS_EmptySet
  <2> QED
    BY <1>1, <1>7, <2>2
<1>8. CASE ~Softmax /\ ~TieBreakRandom
  <2>1. Cardinality(B) = 0
    BY <1>3, <1>8 DEF Winners
  <2> QED
    BY <1>1, <1>5, <1>8, <2>1
<1> QED
  BY <1>6, <1>7, <1>8

(* Whatever Route answers is an agent of the asked type, with few others   *)
(* configured far above it.                                                *)
LEMMA RoutesAreBounded ==
    ASSUME NEW type \in AgentTypes, NEW tt \in TaskTypes, NEW score,
           DOMAIN score = Candidates(type),
           \A i \in Candidates(type) : Near(score[i], i, type, tt),
           NEW r \in Routes(score, type, tt)
    PROVE  /\ r \in Route /\ r # NoRoute
           /\ r.agent \in Candidates(type)
           /\ Bounded(r, tt)
<1> DEFINE C == Candidates(type)
           far == 2 * RuntimeWeightsMax
<1>1. /\ C \subseteq DOMAIN Agents /\ C \subseteq Nat \ {0} /\ IsFiniteSet(C)
      /\ \A i \in C : Agents[i].Type = type
      /\ Cardinality(C) \in Nat
  BY CandidateFacts
<1>2. \A i \in C : score[i] \in Int
  BY DEF Near
<1>3. \A a \in C, i \in C :
          scoreAgent(i, type, tt) > scoreAgent(a, type, tt) + far =>
              score[i] > score[a] /\ i # a
  BY HigherIsBefore
<1>4. \A a \in C : \A m, reason :
          Higher([agent |-> a, reason |-> reason], tt, m) =
              { i \in C : scoreAgent(i, type, tt) > scoreAgent(a, type, tt) + m }
  BY <1>1 DEF Higher
<1>5. \A a \in C : \A reason \in {"simple", "llm", "fallback"} :
          /\ [agent |-> a, reason |-> reason] \in Route
          /\ [agent |-> a, reason |-> reason] # NoRoute
  <2> SUFFICES ASSUME NEW a \in C, NEW reason \in {"simple", "llm", "fallback"}
               PROVE  /\ [agent |-> a, reason |-> reason] \in Route
                      /\ [agent |-> a, reason |-> reason] # NoRoute
    OBVIOUS
  <2>1. a \in DOMAIN Agents /\ a # 0
    BY <1>1
  <2>2. [agent |-> a, reason |-> reason] \in Route
    BY <2>1 DEF Route
  <2>3. [agent |-> a, reason |-> reason].agent # NoRoute.agent
    BY <2>1 DEF NoRoute, NoAgent
  <2> QED
    BY <2>2, <2>3
<1>6. CASE ~Hybrid
  <2>1. PICK a \in Winners(score) : r = [agent |-> a, reason |-> "simple"]
    BY <1>6 DEF Routes
  <2> DEFINE A == { i \in C : scoreAgent(i, type, tt) > scoreAgent(a, type, tt) + far }
  <2>2. a \in C
    BY DEF Winners
  <2>3. \A i \in A : score[i] > score[a]
    BY <1>3, <2>2
  <2>4. A \in SUBSET C
    OBVIOUS
  <2>5. Cardinality(A) < IF Softmax THEN SoftmaxTopN ELSE 1
    <3> HIDE DEF A
    <3> QED
      BY <1>1, <1>2, <2>3, <2>4, WinnersAreHigh
  <2>6. Higher(r, tt, far) = A
    BY <1>4, <2>1, <2>2
  <2>7. r.agent = a /\ r.reason = "simple"
    BY <2>1
  <2>8. Bounded(r, tt)
    BY <2>5, <2>6, <2>7 DEF Bounded
  <2> QED
    BY <1>5, <2>1, <2>2, <2>7, <2>8
<1>7. CASE Hybrid /\ \E a \in UNION topCandidates(score) : r = [agent |-> a, reason |-> "llm"]
  <2>1. PICK a \in UNION topCandidates(score) : r = [agent |-> a, reason |-> "llm"]
    BY <1>7
  <2>2. PICK K \in topCandidates(score) : a \in K
    OBVIOUS
  <2>3. /\ K \in SUBSET C
        /\ Cardinality(K) = IF Cardinality(C) > MaxCandidates THEN MaxCandidates
                            ELSE Cardinality(C)
        /\ \A i \in K, j \in C \ K : score[i] >= score[j]
    BY <2>2 DEF topCandidates
  <2> DEFINE A == { i \in C : scoreAgent(i, type, tt) > scoreAgent(a, type, tt) + far }
  <2>4. a \in C
    BY <2>2, <2>3
  <2>5. A \subseteq K \ {a}
    <3> SUFFICES ASSUME NEW i \in A PROVE i \in K \ {a}
      OBVIOUS
    <3>1. i \in C /\ score[i] > score[a] /\ i # a
      BY <1>3, <2>4
    <3>2. i \notin K => score[a] >= score[i]
      BY <2>2, <2>3, <3>1
    <3>3. score[i] \in Int /\ score[a] \in Int
      BY <1>2, <2>4, <3>1
    <3> QED
      BY <3>1, <3>2, <3>3
  <2>6. Cardinality(A) < MaxCandidates
    <3> HIDE DEF A
    <3>1. IsFiniteSet(K)
      BY <1>1, <2>3, FS_Subset
    <3>2. IsFiniteSet(K \ {a}) /\ Cardinality(K \ {a}) = Cardinality(K) - 1
      BY <2>2, <3>1, FS_RemoveElement
    <3>3. IsFiniteSet(A) /\ Cardinality(A) <= Cardinality(K \ {a})
      BY <2>5, <3>2, FS_Subset
    <3>4. Cardinality(A) \in Nat /\ Cardinality(K) \in Nat
      BY <3>1, <3>3, FS_CardinalityType
    <3>5. Cardinality(K) <= MaxCandidates
      BY <1>1, <2>3, Constants
    <3> QED
      BY <3>2, <3>3, <3>4, <3>5, Constants
  <2>7. Higher(r, tt, far) = A
    BY <1>4, <2>1, <2>4
  <2>8. r.agent = a /\ r.reason = "llm"
    BY <2>1
  <2>9. Bounded(r, tt)
    BY <2>6, <2>7, <2>8 DEF Bounded
  <2> QED
    BY <1>5, <2>1, <2>4, <2>8, <2>9
<1>8. CASE Hybrid /\ \E a \in Winners(BaseScores(type, tt)) :
                        r = [agent |-> a, reason |-> "fallback"]
  <2> DEFINE base == BaseScores(type, tt)
  <2>1. PICK a \in Winners(base) : r = [agent |-> a, reason |-> "fallback"]
    BY <1>8
  <2>2. DOMAIN base = C /\ \A i \in C : base[i] = scoreAgent(i, type, tt)
    BY DEF BaseScores
  <2>3. \A i \in C : base[i] \in Int
    BY <1>1, <2>2, ScoreType
  <2> HIDE DEF base
  <2>4. a \in C
    BY <2>1, <2>2 DEF Winners
  <2> DEFINE A == { i \in C : scoreAgent(i, type, tt) > scoreAgent(a, type, tt) + 0 }
  <2>5. \A i \in A : base[i] > base[a]
    <3> SUFFICES ASSUME NEW i \in A PROVE base[i] > base[a]
      OBVIOUS
    <3>1. /\ base[i] = scoreAgent(i, type, tt) /\ base[a] = scoreAgent(a, type, tt)
          /\ base[i] \in Int /\ base[a] \in Int
      BY <2>2, <2>3, <2>4
    <3>2. base[i] > base[a] + 0
      BY <3>1
    <3> QED
      BY <3>1, <3>2
  <2>6. A \in SUBSET C
    OBVIOUS
  <2>7. Cardinality(A) < IF Softmax THEN SoftmaxTopN ELSE 1
    <3> HIDE DEF A
    <3> QED
      BY <1>1, <2>1, <2>2, <2>3, <2>5, <2>6, WinnersAreHigh
  <2>8. Higher(r, tt, 0) = A
    BY <1>4, <2>1, <2>4
  <2>9. r.agent = a /\ r.reason = "fallback"
    BY <2>1
  <2>10. Bounded(r, tt)
    BY <2>7, <2>8, <2>9 DEF Bounded
  <2> QED
    BY <1>5, <2>1, <2>4, <2>9, <2>10
<1> QED
  BY <1>6, <1>7, <1>8 DEF Routes

-----------------------------------------------------------------------------
(* The invariants. *)

Stages == {"rule", "decision", "execution", "ended"}

(* A routed agent is of the type its activity asks for. *)
RouteInv ==
    \A t \in Tasks : phase[t] \in {"routed", "asked"} =>
        routed[t].agent \in Candidates(stage[t])

(* What an attempt has scored is near what is configured, with whatever    *)
(* weights it was scored.                                                  *)
ScoredNear(t) ==
    phase[t] = "scoring" =>
        \A i \in Candidates(stage[t]) :
            Position(Candidates(stage[t]), i) <= Len(scores[t]) =>
                Near(scores[t][Position(Candidates(stage[t]), i)], i, stage[t], TaskType[t])

ScoreInv == \A t \in Tasks : ScoredNear(t)

(* Plans come with the execution of a task, and rows are finished with it; *)
(* a decision agent that is asked has the credit already.                  *)
Credited(t) ==
    /\ planner[t] # NoAgent => stage[t] \in {"execution", "ended"}
    /\ rows[t].status # "running" => stage[t] = "ended"
    /\ /\ phase[t] = "asked" /\ stage[t] = "decision"
       /\ rows[t].exists /\ t \notin unrecorded
       => rows[t].agent["decision"] = routed[t].agent
    /\ rows[t].exists /\ planner[t] # NoAgent /\ t \notin unrecorded =>
           rows[t].agent["decision"] = planner[t]

CreditInv == \A t \in Tasks : Credited(t)

(* The finished tasks credited to an agent. *)
Merits(i, tt) ==
    { t \in Tasks : /\ stage[t] = "ended" /\ Finished(rows[t])
                    /\ TaskType[t] = tt
                    /\ rows[t].agent[Agents[i].Type] = i }

Earned(w) ==
    \A i \in DOMAIN Agents, tt \in TaskTypes :
        w[i][tt] # 0 => Cardinality(Merits(i, tt)) >= MinRuns

EarnedInv == Earned(weights) /\ Earned(fresh)

IInv == TypeOK /\ RouteInv /\ ScoreInv /\ CreditInv /\ EarnedInv /\ WeightsAreBounded

(* A step that leaves a task as it is. *)
Same(t) ==
    /\ stage'[t] = stage[t] /\ phase'[t] = phase[t] /\ scores'[t] = scores[t]
    /\ routed'[t] = routed[t] /\ rows'[t] = rows[t] /\ planner'[t] = planner[t]
    /\ (t \in unrecorded' <=> t \in unrecorded)

(* A step that keeps what a finished task is worth. *)
KeepsMerit(t) ==
    stage[t] = "ended" /\ Finished(rows[t]) =>
        /\ stage'[t] = "ended" /\ Finished(rows'[t])
        /\ rows'[t].agent = rows[t].agent

(* What a task's own step leaves behind. *)
TaskTyped(t) ==
    /\ stage[t] \in Stages
    /\ phase[t] \in {"idle", "scoring", "routed", "asked"}
    /\ scores[t] \in Seq(Int)
    /\ routed[t] \in Route
    /\ phase[t] # "idle" => stage[t] \in AgentTypes
    /\ phase[t] # "scoring" => scores[t] = <<>>
    /\ routed[t] # NoRoute <=> phase[t] \in {"routed", "asked"}
    /\ rows[t] \in Row
    /\ planner[t] \in {NoAgent} \cup DOMAIN Agents

Routed(t) ==
    /\ phase[t] \in {"routed", "asked"} => routed[t].agent \in Candidates(stage[t])
    /\ routed[t].agent # NoAgent => Bounded(routed[t], TaskType[t])

(* All that is said of one task. *)
TaskInv(t) == TaskTyped(t) /\ Routed(t) /\ ScoredNear(t) /\ Credited(t)

Functions ==
    /\ stage = [ t \in Tasks |-> stage[t] ] /\ phase = [ t \in Tasks |-> phase[t] ]
    /\ scores = [ t \in Tasks |-> scores[t] ] /\ routed = [ t \in Tasks |-> routed[t] ]
    /\ rows = [ t \in Tasks |-> rows[t] ] /\ planner = [ t \in Tasks |-> planner[t] ]
    /\ unrecorded \subseteq Tasks

WorkerInv ==
    /\ loops \subseteq Tasks
    /\ weights \in Weights /\ fresh \in Weights
    /\ refresher \in {"idle", "computed", "stopped"}
    /\ working \in BOOLEAN

(* The invariant, task by task. *)
LEMMA ByTask ==
    IInv <=> Functions /\ WorkerInv /\ (\A t \in Tasks : TaskInv(t)) /\ EarnedInv
<1>1. \A t \in Tasks : \A m : Above(t, m) = Higher(routed[t], TaskType[t], m)
  BY DEF Above, Higher
<1>2. WeightsAreBounded <=>
          \A t \in Tasks : routed[t].agent # NoAgent => Bounded(routed[t], TaskType[t])
  BY <1>1 DEF WeightsAreBounded, Bounded
<1>3. TypeOK <=> Functions /\ WorkerInv /\ \A t \in Tasks : TaskTyped(t)
  <2>1. TypeOK => Functions /\ WorkerInv /\ \A t \in Tasks : TaskTyped(t)
    BY DEF TypeOK, Functions, WorkerInv, TaskTyped, Stages
  <2>2. ASSUME Functions, WorkerInv, \A t \in Tasks : TaskTyped(t)
        PROVE  TypeOK
    <3>1. stage \in [Tasks -> Stages]
      BY <2>2 DEF Functions, TaskTyped
    <3>2. phase \in [Tasks -> {"idle", "scoring", "routed", "asked"}]
      BY <2>2 DEF Functions, TaskTyped
    <3>3. scores \in [Tasks -> Seq(Int)]
      BY <2>2 DEF Functions, TaskTyped
    <3>4. routed \in [Tasks -> Route]
      BY <2>2 DEF Functions, TaskTyped
    <3>5. rows \in [Tasks -> Row]
      BY <2>2 DEF Functions, TaskTyped
    <3>6. planner \in [Tasks -> {NoAgent} \cup DOMAIN Agents]
      BY <2>2 DEF Functions, TaskTyped
    <3>7. \A t \in Tasks :
              /\ phase[t] # "idle" => stage[t] \in AgentTypes
              /\ phase[t] # "scoring" => scores[t] = <<>>
              /\ routed[t] # NoRoute <=> phase[t] \in {"routed", "asked"}
      BY <2>2 DEF TaskTyped
    <3> QED
      BY <2>2, <3>1, <3>2, <3>3, <3>4, <3>5, <3>6, <3>7
      DEF TypeOK, Functions, WorkerInv, Stages
  <2> QED
    BY <2>1, <2>2
<1> QED
  BY <1>2, <1>3 DEF IInv, RouteInv, ScoreInv, CreditInv, TaskInv, Routed

(* The same of the next state. *)
LEMMA ByTaskNext ==
    (IInv <=> Functions /\ WorkerInv /\ (\A t \in Tasks : TaskInv(t)) /\ EarnedInv)'
  BY ByTask, PTL

(* More merit never takes back what was earned. *)
LEMMA EarnedStays ==
    ASSUME NEW w, Earned(w), \A t \in Tasks : KeepsMerit(t)
    PROVE  \A i \in DOMAIN Agents, tt \in TaskTypes :
               w[i][tt] # 0 => Cardinality(Merits(i, tt)') >= MinRuns
<1> SUFFICES ASSUME NEW i \in DOMAIN Agents, NEW tt \in TaskTypes, w[i][tt] # 0
             PROVE  Cardinality(Merits(i, tt)') >= MinRuns
  OBVIOUS
<1>1. Merits(i, tt) \subseteq Merits(i, tt)'
  BY DEF Merits, KeepsMerit
<1>2. Merits(i, tt)' \subseteq Tasks
  BY DEF Merits
<1>3. Cardinality(Merits(i, tt)) >= MinRuns
  BY DEF Earned
<1> DEFINE A == Merits(i, tt)
           B == Merits(i, tt)'
<1>4. A \subseteq B /\ B \subseteq Tasks /\ Cardinality(A) >= MinRuns
  BY <1>1, <1>2, <1>3
<1> SUFFICES Cardinality(B) >= MinRuns
  OBVIOUS
<1> HIDE DEF A, B
<1>5. IsFiniteSet(B)
  BY <1>4, Constants, FS_Subset
<1>6. Cardinality(A) <= Cardinality(B) /\ Cardinality(A) \in Nat /\ Cardinality(B) \in Nat
  BY <1>4, <1>5, FS_Subset, FS_CardinalityType
<1> QED
  BY <1>4, <1>6, Constants

(* A step of one task. *)
LEMMA TaskStep ==
    ASSUME IInv, NEW t \in Tasks, UNCHANGED <<workerVars, loops>>,
           Functions', TaskInv(t)', KeepsMerit(t), \A u \in Tasks \ {t} : Same(u)
    PROVE  IInv'
<1>1. Functions /\ WorkerInv /\ (\A u \in Tasks : TaskInv(u)) /\ EarnedInv
  BY ByTask
<1>2. WorkerInv'
  BY <1>1 DEF WorkerInv, workerVars
<1>3. \A u \in Tasks : TaskInv(u)'
  <2> SUFFICES ASSUME NEW u \in Tasks, u # t PROVE TaskInv(u)'
    OBVIOUS
  <2>1. Same(u) /\ TaskInv(u)
    BY <1>1
  <2>2. TaskTyped(u)' /\ Routed(u)'
    BY <2>1 DEF Same, TaskInv, TaskTyped, Routed
  <2>3. ScoredNear(u)'
    BY <2>1 DEF Same, TaskInv, ScoredNear
  <2>4. Credited(u)'
    BY <2>1 DEF Same, TaskInv, Credited
  <2> QED
    BY <2>2, <2>3, <2>4 DEF TaskInv
<1>4. \A u \in Tasks : KeepsMerit(u)
  BY DEF Same, KeepsMerit
<1>5. EarnedInv'
  BY <1>1, <1>4, EarnedStays DEF EarnedInv, Earned, workerVars
<1>6. (Functions /\ WorkerInv /\ (\A u \in Tasks : TaskInv(u)) /\ EarnedInv)' => IInv'
  BY ByTaskNext
<1> QED
  BY <1>2, <1>3, <1>5, <1>6

-----------------------------------------------------------------------------
(* The actions. *)

(* The invariant, as it is used of one task. *)
LEMMA OneTask ==
    ASSUME IInv, NEW t \in Tasks
    PROVE  TaskTyped(t) /\ Routed(t) /\ ScoredNear(t) /\ Credited(t)
  BY ByTask DEF TaskInv

(* The updates of a row keep its type, and what they do not name. *)
LEMMA RowFacts ==
    ASSUME NEW row \in Row
    PROVE  /\ RecordPlan(row) \in Row
           /\ RecordPlan(row).exists = row.exists
           /\ RecordPlan(row).status = row.status
           /\ RecordPlan(row).agent = row.agent
           /\ \A status \in {"running", "completed", "failed", "denied"} :
                 /\ Complete(row, status) \in Row
                 /\ Complete(row, status).exists = row.exists
                 /\ Complete(row, status).agent = row.agent
<1>1. /\ RecordPlan(row) \in Row /\ RecordPlan(row).exists = row.exists
      /\ RecordPlan(row).status = row.status /\ RecordPlan(row).agent = row.agent
  BY DEF Row, RecordPlan
<1>2. \A status \in {"running", "completed", "failed", "denied"} :
          /\ Complete(row, status) \in Row
          /\ Complete(row, status).exists = row.exists
          /\ Complete(row, status).agent = row.agent
  BY DEF Row, Complete
<1> QED
  BY <1>1, <1>2

(* RecordAgent keeps the type and the status, and gives the credit. *)
LEMMA RecordAgentFacts ==
    ASSUME NEW row \in Row, NEW type \in AgentTypes, NEW i \in DOMAIN Agents
    PROVE  /\ RecordAgent(row, type, i) \in Row
           /\ RecordAgent(row, type, i).exists = row.exists
           /\ RecordAgent(row, type, i).status = row.status
           /\ row.exists => RecordAgent(row, type, i).agent[type] = i
  BY DEF Row, RecordAgent, AgentTypes

(* The initial states. *)
LEMMA InitInv == ASSUME Init PROVE IInv
<1>1. Functions
  BY DEF Init, Functions
<1>2. WorkerInv
  <2>1. loops \subseteq Tasks
    BY RoutingAssumption DEF Init
  <2>2. NoWeights \in Weights
    BY DEF Weights, NoWeights
  <2> QED
    BY <2>1, <2>2 DEF Init, WorkerInv
<1>3. ASSUME NEW t \in Tasks PROVE TaskInv(t)
  <2>1. /\ stage[t] = "rule" /\ phase[t] = "idle" /\ scores[t] = <<>>
        /\ routed[t] = NoRoute /\ rows[t] = NoRow /\ planner[t] = NoAgent
    BY DEF Init
  <2>2. NoRow \in Row /\ ~NoRow.exists /\ NoRow.status = "running"
    BY DEF NoRow, Row
  <2>3. NoRoute \in Route /\ NoRoute.agent = NoAgent
    BY DEF NoRoute, Route
  <2>4. <<>> \in Seq(Int)
    OBVIOUS
  <2>5. TaskTyped(t)
    BY <2>1, <2>2, <2>3, <2>4 DEF TaskTyped, Stages
  <2>6. Routed(t) /\ ScoredNear(t)
    BY <2>1, <2>3 DEF Routed, ScoredNear
  <2>7. Credited(t)
    BY <2>1, <2>2 DEF Credited
  <2> QED
    BY <2>5, <2>6, <2>7 DEF TaskInv
<1>4. EarnedInv
  BY DEF Init, NoWeights, EarnedInv, Earned
<1> QED
  BY <1>1, <1>2, <1>3, <1>4, ByTask

(* A step that leaves the activity, with what it makes of the row and of   *)
(* the plan.                                                               *)
LEMMA LeaveStep ==
    ASSUME IInv, NEW t \in Tasks, NEW next \in Stages, Leave(t, next),
           UNCHANGED <<workerVars, loops>>,
           stage[t] # "ended",
           NEW row \in Row, rows' = [rows EXCEPT ![t] = row],
           NEW p \in {NoAgent} \cup DOMAIN Agents, planner' = [planner EXCEPT ![t] = p],
           unrecorded' \subseteq Tasks,
           \A u \in Tasks \ {t} : u \in unrecorded' <=> u \in unrecorded,
           p # NoAgent => next \in {"execution", "ended"},
           row.status # "running" => next = "ended",
           row.exists /\ p # NoAgent /\ t \notin unrecorded' => row.agent["decision"] = p
    PROVE  IInv'
<1>1. Functions
  BY ByTask
<1>2. /\ stage'[t] = next /\ phase'[t] = "idle" /\ scores'[t] = <<>>
      /\ routed'[t] = NoRoute /\ rows'[t] = row /\ planner'[t] = p
  BY <1>1 DEF Functions, Leave
<1>3. \A u \in Tasks \ {t} : Same(u)
  BY <1>1 DEF Functions, Leave, Same
<1>4. Functions'
  BY <1>1 DEF Functions, Leave
<1>5. NoRoute \in Route /\ NoRoute.agent = NoAgent
  BY DEF NoRoute, Route
<1>6. <<>> \in Seq(Int)
  OBVIOUS
<1>7. TaskTyped(t)'
  BY <1>2, <1>5, <1>6 DEF TaskTyped
<1>8. Routed(t)' /\ ScoredNear(t)'
  BY <1>2, <1>5 DEF Routed, ScoredNear
<1>9. Credited(t)'
  BY <1>2 DEF Credited
<1>10. TaskInv(t)'
  BY <1>7, <1>8, <1>9 DEF TaskInv
<1>11. KeepsMerit(t)
  BY DEF KeepsMerit
<1> QED
  BY <1>3, <1>4, <1>10, <1>11, TaskStep

(* An attempt begins: nothing is scored yet. *)
LEMMA BeginInv ==
    ASSUME IInv, NEW t \in Tasks, Begin(t) PROVE IInv'
<1>1. Functions /\ TaskTyped(t) /\ Routed(t) /\ Credited(t)
  BY ByTask, OneTask
<1>2. /\ stage[t] \in AgentTypes /\ phase[t] = "idle"
      /\ UNCHANGED <<stage, routed, workerVars, history, loops>>
  BY DEF Begin, Routing
<1>3. /\ phase'[t] = "scoring" /\ scores'[t] = <<>>
      /\ stage'[t] = stage[t] /\ routed'[t] = routed[t] /\ planner'[t] = planner[t]
      /\ unrecorded' = unrecorded
  BY <1>1, <1>2 DEF Begin, Functions, history
<1>4. PICK b \in BOOLEAN : rows' = [rows EXCEPT ![t].exists = b]
  <2>1. rows[t] \in Row
    BY <1>1 DEF TaskTyped
  <2>2. CASE UNCHANGED rows
    <3>1. rows[t].exists \in BOOLEAN
      BY <2>1 DEF Row
    <3>2. rows[t] = [rows[t] EXCEPT !.exists = rows[t].exists]
      BY <2>1 DEF Row
    <3>3. rows = [rows EXCEPT ![t] = rows[t]]
      BY <1>1 DEF Functions
    <3>4. rows = [rows EXCEPT ![t].exists = rows[t].exists]
      BY <3>2, <3>3
    <3> QED
      BY <2>2, <3>1, <3>4
  <2>3. CASE rows' = [rows EXCEPT ![t].exists = TRUE]
    BY <2>3
  <2> QED
    BY <2>2, <2>3 DEF Begin
<1>5. /\ rows'[t] \in Row
      /\ rows'[t].status = rows[t].status /\ rows'[t].agent = rows[t].agent
  <2>1. rows[t] \in Row
    BY <1>1 DEF TaskTyped
  <2>2. rows'[t] = [rows[t] EXCEPT !.exists = b]
    BY <1>1, <1>4 DEF Functions
  <2> QED
    BY <2>1, <2>2 DEF Row
<1>6. \A u \in Tasks \ {t} : Same(u)
  BY <1>1, <1>2, <1>4 DEF Functions, Begin, Same, history
<1>7. Functions'
  <2>1. /\ stage' = stage /\ routed' = routed /\ planner' = planner
        /\ unrecorded' = unrecorded
    BY <1>2 DEF history
  <2> QED
    BY <1>1, <1>4, <2>1 DEF Functions, Begin
<1>8. TaskTyped(t)'
  <2>1. <<>> \in Seq(Int)
    OBVIOUS
  <2> QED
    BY <1>1, <1>2, <1>3, <1>5, <2>1 DEF TaskTyped
<1>9. Routed(t)'
  BY <1>1, <1>3 DEF Routed
<1>10. ScoredNear(t)'
  <2>1. \A i \in Candidates(stage[t]) : ~(Position(Candidates(stage[t]), i) <= 0)
    <3>1. Candidates(stage[t]) \in SUBSET Nat /\ IsFiniteSet(Candidates(stage[t]))
      BY CandidateFacts
    <3>2. \A i \in Candidates(stage[t]) :
              Position(Candidates(stage[t]), i) \in 1..Cardinality(Candidates(stage[t]))
      BY <3>1, Positions
    <3>3. Cardinality(Candidates(stage[t])) \in Nat
      BY <3>1, FS_CardinalityType
    <3> QED
      BY <3>2, <3>3
  <2>2. Len(scores'[t]) = 0
    BY <1>3
  <2>3. /\ Candidates(stage[t])' = Candidates(stage[t])
        /\ \A i : Position(Candidates(stage[t]), i)' = Position(Candidates(stage[t]), i)
    BY <1>3 DEF Candidates, Position
  <2> QED
    BY <2>1, <2>2, <2>3, <1>3 DEF ScoredNear
<1>11. Credited(t)'
  BY <1>1, <1>2, <1>3, <1>5 DEF Credited, AgentTypes
<1>12. KeepsMerit(t)
  BY <1>2 DEF KeepsMerit, AgentTypes
<1>13. TaskInv(t)'
  BY <1>8, <1>9, <1>10, <1>11 DEF TaskInv
<1> QED
  BY <1>2, <1>6, <1>7, <1>12, <1>13, TaskStep

(* The next score: each is near what is configured, and so is the choice   *)
(* that is made from all of them.                                          *)
LEMMA ScoreNextInv ==
    ASSUME IInv, NEW t \in Tasks, ScoreNext(t) PROVE IInv'
<1> DEFINE type  == stage[t]
           tt    == TaskType[t]
           C     == Candidates(type)
           n     == Len(scores[t]) + 1
           known == Append(scores[t], scoreAgentWithOptions(Nth(C, n), type, tt))
           score == [ i \in C |-> known[Position(C, i)] ]
<1>1. Functions /\ TaskTyped(t) /\ Routed(t) /\ ScoredNear(t) /\ Credited(t)
  BY ByTask, OneTask
<1>2. /\ type \in AgentTypes /\ phase[t] = "scoring"
      /\ UNCHANGED <<stage, rows, workerVars, history, loops>>
  BY DEF ScoreNext, Routing
<1>3. \/ /\ n < Cardinality(C)
         /\ scores' = [scores EXCEPT ![t] = known]
         /\ UNCHANGED <<phase, routed>>
      \/ /\ n = Cardinality(C)
         /\ \E r \in Routes(score, type, tt) : routed' = [routed EXCEPT ![t] = r]
         /\ scores' = [scores EXCEPT ![t] = <<>>]
         /\ phase' = [phase EXCEPT ![t] = "routed"]
  BY DEF ScoreNext
<1>4. /\ C \in SUBSET Nat /\ C \subseteq DOMAIN Agents /\ IsFiniteSet(C)
      /\ Cardinality(C) \in Nat
  BY CandidateFacts
<1>5. scores[t] \in Seq(Int) /\ Len(scores[t]) \in Nat /\ n \in Nat \ {0} /\ tt \in TaskTypes
  <2>1. scores[t] \in Seq(Int)
    BY <1>1 DEF TaskTyped
  <2>2. Len(scores[t]) \in Nat
    BY <2>1, LenProperties
  <2>3. tt \in TaskTypes
    BY DEF TaskTypes
  <2> QED
    BY <2>1, <2>2, <2>3
<1>6. n \in 1..Cardinality(C)
  BY <1>3, <1>4, <1>5
<1>7. /\ \A i \in C : Position(C, i) \in 1..Cardinality(C) /\ Nth(C, Position(C, i)) = i
      /\ Nth(C, n) \in C
  <2>1. \A i \in C : Position(C, i) \in 1..Cardinality(C)
    BY <1>4, Positions
  <2>2. \A i \in C : Nth(C, Position(C, i)) = i
    BY <1>4, NthFacts
  <2>3. \A k \in 1..Cardinality(C) : Nth(C, k) \in C
    BY <1>4, NthFacts
  <2> QED
    BY <1>6, <2>1, <2>2, <2>3
<1>8. weights \in Weights
  BY DEF IInv, TypeOK
<1>9. \A i \in C : Near(scoreAgentWithOptions(i, type, tt), i, type, tt)
  BY <1>4, <1>5, <1>8, ScoreIsNear
<1>10. /\ known \in Seq(Int) /\ Len(known) = n /\ known[n] = scoreAgentWithOptions(Nth(C, n), type, tt)
       /\ \A k \in 1..Len(scores[t]) : known[k] = scores[t][k]
  <2>1. scoreAgentWithOptions(Nth(C, n), type, tt) \in Int
    BY <1>7, <1>9 DEF Near
  <2> DEFINE s == scoreAgentWithOptions(Nth(C, n), type, tt)
             q == scores[t]
  <2>2. q \in Seq(Int) /\ s \in Int
    BY <1>5, <2>1
  <2> HIDE DEF s, q
  <2>3. /\ Append(q, s) \in Seq(Int) /\ Len(Append(q, s)) = Len(q) + 1
        /\ Append(q, s)[Len(q) + 1] = s
        /\ \A k \in 1..Len(q) : Append(q, s)[k] = q[k]
    BY <2>2, AppendProperties
  <2> QED
    BY <2>3 DEF s, q
<1>11. \A i \in C : Position(C, i) <= n => Near(known[Position(C, i)], i, type, tt)
  <2> SUFFICES ASSUME NEW i \in C, Position(C, i) <= n
               PROVE  Near(known[Position(C, i)], i, type, tt)
    OBVIOUS
  <2>1. Position(C, i) \in 1..Cardinality(C) /\ Nth(C, Position(C, i)) = i
    BY <1>7
  <2>2. CASE Position(C, i) = n
    BY <1>9, <1>10, <2>1, <2>2
  <2>3. CASE Position(C, i) # n
    <3>1. Position(C, i) \in 1..Len(scores[t])
      BY <1>4, <1>5, <2>1, <2>3
    <3>2. Position(C, i) <= Len(scores[t])
      BY <1>5, <3>1
    <3>3. Near(scores[t][Position(C, i)], i, type, tt)
      BY <1>1, <1>2, <3>2 DEF ScoredNear
    <3> QED
      BY <1>10, <3>1, <3>3
  <2> QED
    BY <2>2, <2>3
<1>12. /\ stage' = stage /\ rows' = rows /\ planner' = planner /\ unrecorded' = unrecorded
       /\ UNCHANGED <<workerVars, loops>>
  BY <1>2 DEF history
<1>13. \A c, i : Candidates(c)' = Candidates(c) /\ Position(Candidates(c), i)' = Position(Candidates(c), i)
  BY DEF Candidates, Position
<1>14. KeepsMerit(t)
  BY <1>12 DEF KeepsMerit
<1> HIDE DEF known, score, n
<1>15. \A u \in Tasks \ {t} : Same(u)
  BY <1>1, <1>3, <1>12 DEF Functions, Same
<1>16. Functions'
  BY <1>1, <1>3, <1>12 DEF Functions
<1>17. CASE scores' = [scores EXCEPT ![t] = known] /\ UNCHANGED <<phase, routed>>
  <2>1. /\ scores'[t] = known /\ phase' = phase /\ routed' = routed
    BY <1>1, <1>17 DEF Functions
  <2>2. TaskTyped(t)'
    BY <1>1, <1>2, <1>10, <1>12, <2>1 DEF TaskTyped
  <2>3. Routed(t)'
    BY <1>1, <1>12, <2>1 DEF Routed
  <2>4. ScoredNear(t)'
    BY <1>10, <1>11, <1>12, <2>1 DEF ScoredNear
  <2>5. Credited(t)'
    BY <1>1, <1>12, <2>1 DEF Credited
  <2>6. TaskInv(t)'
    BY <2>2, <2>3, <2>4, <2>5 DEF TaskInv
  <2> QED
    BY <1>12, <1>14, <1>15, <1>16, <2>6, TaskStep
<1>18. CASE /\ n = Cardinality(C)
            /\ \E r \in Routes(score, type, tt) : routed' = [routed EXCEPT ![t] = r]
            /\ scores' = [scores EXCEPT ![t] = <<>>]
            /\ phase' = [phase EXCEPT ![t] = "routed"]
  <2>1. PICK r \in Routes(score, type, tt) : routed' = [routed EXCEPT ![t] = r]
    BY <1>18
  <2>2. /\ scores'[t] = <<>> /\ phase'[t] = "routed" /\ routed'[t] = r
    BY <1>1, <1>18, <2>1 DEF Functions
  <2>3. DOMAIN score = C /\ \A i \in C : score[i] = known[Position(C, i)]
    BY DEF score
  <2>4. \A i \in C : Near(score[i], i, type, tt)
    <3>1. \A i \in C : Position(C, i) <= n
      BY <1>4, <1>7, <1>18
    <3> QED
      BY <1>11, <2>3, <3>1
  <2>5. r \in Route /\ r # NoRoute /\ r.agent \in C /\ Bounded(r, tt)
    <3> HIDE DEF type, tt
    <3>1. type \in AgentTypes /\ tt \in TaskTypes
      BY <1>2, <1>5
    <3> QED
      BY <2>1, <2>3, <2>4, <3>1, RoutesAreBounded
  <2>6. TaskTyped(t)'
    <3>1. <<>> \in Seq(Int)
      OBVIOUS
    <3> QED
      BY <1>1, <1>2, <1>12, <2>2, <2>5, <3>1 DEF TaskTyped
  <2>7. Routed(t)'
    <3>1. Bounded(routed[t], TaskType[t])' = Bounded(r, tt)
      BY <2>2 DEF Bounded, Higher, Candidates, scoreAgent
    <3>2. (routed[t].agent \in Candidates(stage[t]))' = (r.agent \in C)
      BY <1>12, <2>2 DEF Candidates
    <3> QED
      BY <2>5, <3>1, <3>2 DEF Routed
  <2>8. ScoredNear(t)'
    BY <2>2 DEF ScoredNear
  <2>9. Credited(t)'
    BY <1>1, <1>12, <2>2 DEF Credited
  <2>10. TaskInv(t)'
    BY <2>6, <2>7, <2>8, <2>9 DEF TaskInv
  <2> QED
    BY <1>12, <1>14, <1>15, <1>16, <2>10, TaskStep
<1> QED
  BY <1>3, <1>17, <1>18

(* The agent is asked: it has the credit, or the update was lost. *)
LEMMA EvalAgentInv ==
    ASSUME IInv, NEW t \in Tasks, EvalAgent(t) PROVE IInv'
<1>1. Functions /\ TaskTyped(t) /\ Routed(t) /\ Credited(t)
  BY ByTask, OneTask
<1>2. /\ stage[t] \in AgentTypes /\ phase[t] = "routed"
      /\ stage' = stage /\ scores' = scores /\ routed' = routed /\ planner' = planner
      /\ UNCHANGED <<workerVars, loops>>
      /\ phase'[t] = "asked"
  BY <1>1 DEF EvalAgent, Routing, Functions
<1> DEFINE a == routed[t].agent
           row == RecordAgent(rows[t], stage[t], a)
<1>3. a \in Candidates(stage[t]) /\ a \in DOMAIN Agents
  BY <1>1, <1>2 DEF Routed, Candidates
<1>4. rows[t] \in Row
  BY <1>1 DEF TaskTyped
<1>5. /\ row \in Row /\ row.exists = rows[t].exists /\ row.status = rows[t].status
      /\ rows[t].exists => row.agent[stage[t]] = a
  BY <1>2, <1>3, <1>4, RecordAgentFacts
<1>6. planner[t] = NoAgent
  BY <1>1, <1>2 DEF Credited, AgentTypes
<1>7. KeepsMerit(t)
  BY <1>2 DEF KeepsMerit, AgentTypes
<1>8. ASSUME NEW r \in Row, rows' = [rows EXCEPT ![t] = r],
             r.status = rows[t].status, r.exists = rows[t].exists,
             unrecorded' \subseteq Tasks,
             \A u \in Tasks \ {t} : u \in unrecorded' <=> u \in unrecorded,
             stage[t] = "decision" /\ r.exists /\ t \notin unrecorded' =>
                 r.agent["decision"] = a
      PROVE  IInv'
  <2>1. rows'[t] = r
    BY <1>1, <1>8 DEF Functions
  <2>2. Functions'
    BY <1>1, <1>2, <1>8 DEF Functions, EvalAgent
  <2>3. \A u \in Tasks \ {t} : Same(u)
    BY <1>1, <1>2, <1>8 DEF Functions, EvalAgent, Same
  <2>4. TaskTyped(t)'
    BY <1>1, <1>2, <2>1 DEF TaskTyped
  <2>5. Routed(t)'
    <3>1. Bounded(routed[t], TaskType[t])' = Bounded(routed[t], TaskType[t])
      BY <1>2 DEF Bounded, Higher, Candidates, scoreAgent
    <3>2. (routed[t].agent \in Candidates(stage[t]))' = (a \in Candidates(stage[t]))
      BY <1>2 DEF Candidates
    <3>3. (routed[t].agent)' = routed[t].agent
      BY <1>2
    <3> QED
      BY <1>1, <1>3, <3>1, <3>2, <3>3 DEF Routed
  <2>6. ScoredNear(t)'
    BY <1>2 DEF ScoredNear
  <2>7. Credited(t)'
    <3>1. /\ stage'[t] = stage[t] /\ routed'[t].agent = a /\ planner'[t] = NoAgent
      BY <1>2, <1>6
    <3> HIDE DEF a
    <3> QED
      BY <1>1, <1>2, <1>8, <2>1, <3>1 DEF Credited
  <2>8. TaskInv(t)'
    BY <2>4, <2>5, <2>6, <2>7 DEF TaskInv
  <2> QED
    BY <1>2, <1>7, <2>2, <2>3, <2>8, TaskStep
<1>9. CASE rows' = [rows EXCEPT ![t] = row] /\ unrecorded' = unrecorded
  <2>1. unrecorded' \subseteq Tasks
    BY <1>1, <1>9 DEF Functions
  <2>2. stage[t] = "decision" /\ row.exists => row.agent["decision"] = a
    BY <1>5
  <2> HIDE DEF row, a
  <2> QED
    BY <1>5, <1>8, <1>9, <2>1, <2>2
<1>10. CASE /\ unrecorded' = IF stage[t] = "decision" THEN unrecorded \cup {t} ELSE unrecorded
            /\ rows' = rows
  <2>1. unrecorded' \subseteq Tasks
    BY <1>1, <1>10 DEF Functions
  <2>2. \A u \in Tasks \ {t} : u \in unrecorded' <=> u \in unrecorded
    BY <1>10
  <2>3. stage[t] = "decision" => t \in unrecorded'
    BY <1>10
  <2>4. rows' = [rows EXCEPT ![t] = rows[t]]
    BY <1>1, <1>10 DEF Functions
  <2> HIDE DEF a
  <2> QED
    BY <1>4, <1>8, <2>1, <2>2, <2>3, <2>4
<1> QED
  BY <1>1, <1>9, <1>10 DEF EvalAgent, Functions

(* A step that leaves the activity, with or without its plan, and touches  *)
(* no row.                                                                 *)
LEMMA LeaveRows ==
    ASSUME IInv, NEW t \in Tasks, NEW next \in Stages, Leave(t, next), UNCHANGED rows,
           UNCHANGED <<workerVars, loops>>, stage[t] # "ended",
           planner' = planner \/ planner' = [planner EXCEPT ![t] = NoAgent],
           stage[t] \in AgentTypes \/ planner'[t] = NoAgent \/ next = "ended",
           unrecorded' = unrecorded \/ (planner'[t] = NoAgent /\ unrecorded' = unrecorded \ {t})
    PROVE  IInv'
<1>1. Functions /\ TaskTyped(t) /\ Credited(t)
  BY ByTask, OneTask
<1>2. rows' = [rows EXCEPT ![t] = rows[t]] /\ rows[t] \in Row
  BY <1>1 DEF Functions, TaskTyped
<1>3. PICK p \in {NoAgent} \cup DOMAIN Agents :
          /\ planner' = [planner EXCEPT ![t] = p]
          /\ p = NoAgent \/ (p = planner[t] /\ planner' = planner)
  <2>1. planner = [planner EXCEPT ![t] = planner[t]]
    BY <1>1 DEF Functions
  <2>2. planner[t] \in {NoAgent} \cup DOMAIN Agents
    BY <1>1 DEF TaskTyped
  <2> QED
    BY <2>1, <2>2
<1>4. /\ unrecorded' \subseteq Tasks
      /\ \A u \in Tasks \ {t} : u \in unrecorded' <=> u \in unrecorded
  BY <1>1 DEF Functions
<1>5. p # NoAgent => next \in {"execution", "ended"}
  <2>1. p # NoAgent => p = planner[t] /\ planner'[t] = p
    BY <1>3
  <2>2. stage[t] \in AgentTypes => planner[t] = NoAgent
    BY <1>1 DEF Credited, AgentTypes
  <2> QED
    BY <2>1, <2>2
<1>6. rows[t].status = "running"
  BY <1>1 DEF Credited
<1>7. rows[t].exists /\ p # NoAgent /\ t \notin unrecorded' => rows[t].agent["decision"] = p
  <2>1. p # NoAgent => p = planner[t] /\ planner'[t] = p
    BY <1>3
  <2> QED
    BY <1>1, <2>1 DEF Credited
<1> QED
  BY <1>2, <1>3, <1>4, <1>5, <1>6, <1>7, LeaveStep

(* The rule agent's answer. *)
LEMMA PolicyAnswerInv ==
    ASSUME IInv, NEW t \in Tasks, PolicyAnswer(t) PROVE IInv'
<1>1. Functions /\ TaskTyped(t) /\ Credited(t)
  BY ByTask, OneTask
<1>2. /\ stage[t] = "rule" /\ stage[t] \in AgentTypes /\ stage[t] # "ended"
      /\ UNCHANGED <<workerVars, loops>>
      /\ planner' = planner /\ unrecorded' = unrecorded
  BY DEF PolicyAnswer, AgentTypes, history
<1>3. CASE Leave(t, "decision") /\ UNCHANGED rows
  BY <1>2, <1>3, LeaveRows DEF Stages
<1>4. CASE Leave(t, "ended") /\ t \in loops /\ UNCHANGED rows
  BY <1>2, <1>4, LeaveRows DEF Stages
<1>5. CASE Leave(t, "ended") /\ rows' = [rows EXCEPT ![t] = Complete(@, "denied")]
  <2> DEFINE row == Complete(rows[t], "denied")
  <2>1. rows[t] \in Row
    BY <1>1 DEF TaskTyped
  <2>2. row \in Row /\ rows' = [rows EXCEPT ![t] = row]
    BY <1>5, <2>1, RowFacts
  <2>3. planner[t] = NoAgent /\ NoAgent \in {NoAgent} \cup DOMAIN Agents
    BY <1>1, <1>2 DEF Credited
  <2>4. planner' = [planner EXCEPT ![t] = NoAgent]
    BY <1>1, <1>2, <2>3 DEF Functions
  <2>5. unrecorded' \subseteq Tasks /\ \A u \in Tasks \ {t} : u \in unrecorded' <=> u \in unrecorded
    BY <1>1, <1>2 DEF Functions
  <2> HIDE DEF row
  <2> QED
    BY <1>2, <1>5, <2>2, <2>3, <2>4, <2>5, LeaveStep DEF Stages
<1> QED
  BY <1>3, <1>4, <1>5 DEF PolicyAnswer

(* The decision agent's plan is recorded and executed. *)
LEMMA PlanAnswerInv ==
    ASSUME IInv, NEW t \in Tasks, PlanAnswer(t) PROVE IInv'
<1>1. Functions /\ TaskTyped(t) /\ Routed(t) /\ Credited(t)
  BY ByTask, OneTask
<1> DEFINE row == RecordPlan(rows[t])
           p   == routed[t].agent
<1>2. /\ stage[t] = "decision" /\ phase[t] = "asked" /\ stage[t] # "ended"
      /\ Leave(t, "execution") /\ UNCHANGED <<workerVars, loops>>
      /\ planner' = [planner EXCEPT ![t] = p]
      /\ rows' = [rows EXCEPT ![t] = row]
      /\ unrecorded' = unrecorded
  BY DEF PlanAnswer
<1>3. rows[t] \in Row
  BY <1>1 DEF TaskTyped
<1>4. /\ row \in Row /\ row.exists = rows[t].exists /\ row.status = rows[t].status
      /\ row.agent = rows[t].agent
  BY <1>3, RowFacts
<1>5. p \in {NoAgent} \cup DOMAIN Agents
  BY <1>1, <1>2 DEF Routed, Candidates
<1>6. rows[t].status = "running"
  BY <1>1, <1>2 DEF Credited
<1>7. row.exists /\ t \notin unrecorded' => row.agent["decision"] = p
  <2> HIDE DEF row
  <2>1. rows[t].exists /\ t \notin unrecorded => rows[t].agent["decision"] = routed[t].agent
    BY <1>1, <1>2 DEF Credited
  <2> QED
    BY <1>2, <1>4, <2>1
<1>8. unrecorded' \subseteq Tasks /\ \A u \in Tasks \ {t} : u \in unrecorded' <=> u \in unrecorded
  BY <1>1, <1>2 DEF Functions
<1> HIDE DEF row, p
<1> QED
  BY <1>2, <1>4, <1>5, <1>6, <1>7, <1>8, LeaveStep DEF Stages

(* An attempt is repeated or given up; a loop asks again. *)
LEMMA LeavingInv ==
    ASSUME IInv, NEW t \in Tasks, AttemptFails(t) \/ GiveUp(t) \/ AskAgain(t) PROVE IInv'
<1>1. Functions /\ TaskTyped(t) /\ Credited(t)
  BY ByTask, OneTask
<1>2. CASE AttemptFails(t)
  <2>1. /\ stage[t] \in AgentTypes /\ stage[t] \in Stages /\ stage[t] # "ended"
        /\ Leave(t, stage[t]) /\ UNCHANGED rows
        /\ UNCHANGED <<workerVars, loops>> /\ planner' = planner
        /\ unrecorded' = unrecorded \ {t}
    BY <1>2 DEF AttemptFails, Routing, AgentTypes, Stages
  <2>2. planner[t] = NoAgent
    BY <1>1, <2>1 DEF Credited, AgentTypes
  <2> QED
    BY <2>1, <2>2, LeaveRows
<1>3. CASE GiveUp(t)
  <2>1. /\ stage[t] \in AgentTypes /\ stage[t] # "ended"
        /\ Leave(t, "ended") /\ UNCHANGED rows
        /\ UNCHANGED <<workerVars, loops>> /\ planner' = planner
        /\ unrecorded' = unrecorded \ {t}
    BY <1>3 DEF GiveUp, AgentTypes
  <2>2. planner[t] = NoAgent
    BY <1>1, <2>1 DEF Credited, AgentTypes
  <2> QED
    BY <2>1, <2>2, LeaveRows DEF Stages
<1>4. CASE AskAgain(t)
  <2>1. /\ stage[t] = "execution" /\ stage[t] # "ended"
        /\ Leave(t, "decision") \/ Leave(t, "rule")
        /\ UNCHANGED rows /\ UNCHANGED <<workerVars, loops>>
        /\ planner' = [planner EXCEPT ![t] = NoAgent]
        /\ unrecorded' = unrecorded \ {t}
    BY <1>4 DEF AskAgain
  <2>2. planner'[t] = NoAgent
    BY <1>1, <2>1 DEF Functions
  <2> QED
    BY <2>1, <2>2, LeaveRows DEF Stages
<1> QED
  BY <1>2, <1>3, <1>4

(* The task ends, and IncidentWorkflow completes its row. *)
LEMMA FinishInv ==
    ASSUME IInv, NEW t \in Tasks, Finish(t) PROVE IInv'
<1>1. Functions /\ TaskTyped(t) /\ Credited(t)
  BY ByTask, OneTask
<1>2. /\ stage[t] = "execution" /\ stage[t] # "ended" /\ Leave(t, "ended")
      /\ UNCHANGED <<workerVars, loops>>
      /\ planner' = planner /\ unrecorded' = unrecorded
  BY DEF Finish, history
<1>3. CASE UNCHANGED rows
  BY <1>2, <1>3, LeaveRows DEF Stages
<1>4. CASE \E status \in {"completed", "failed", "denied"} :
               rows' = [rows EXCEPT ![t] = Complete(@, status)]
  <2>1. PICK status \in {"completed", "failed", "denied"} :
            rows' = [rows EXCEPT ![t] = Complete(@, status)]
    BY <1>4
  <2> DEFINE row == Complete(rows[t], status)
  <2>2. rows[t] \in Row
    BY <1>1 DEF TaskTyped
  <2>3. status \in {"running", "completed", "failed", "denied"}
    OBVIOUS
  <2>4. /\ row \in Row /\ row.exists = rows[t].exists /\ row.agent = rows[t].agent
        /\ rows' = [rows EXCEPT ![t] = row]
    BY <2>1, <2>2, <2>3, RowFacts
  <2>5. planner[t] \in {NoAgent} \cup DOMAIN Agents /\ planner' = [planner EXCEPT ![t] = planner[t]]
    BY <1>1, <1>2 DEF Functions, TaskTyped
  <2>6. unrecorded' \subseteq Tasks /\ \A u \in Tasks \ {t} : u \in unrecorded' <=> u \in unrecorded
    BY <1>1, <1>2 DEF Functions
  <2>7. row.exists /\ planner[t] # NoAgent /\ t \notin unrecorded' => row.agent["decision"] = planner[t]
    <3> HIDE DEF row
    <3> QED
      BY <1>1, <1>2, <2>4 DEF Credited
  <2> HIDE DEF row
  <2> QED
    BY <1>2, <2>4, <2>5, <2>6, <2>7, LeaveStep DEF Stages
<1> QED
  BY <1>3, <1>4 DEF Finish

(* A finished row leaves the window; its merit stays. *)
LEMMA AgeInv ==
    ASSUME IInv, NEW t \in Tasks, Age(t) PROVE IInv'
<1>1. Functions /\ TaskTyped(t) /\ Routed(t) /\ ScoredNear(t) /\ Credited(t)
  BY ByTask, OneTask
<1>2. /\ stage' = stage /\ phase' = phase /\ scores' = scores /\ routed' = routed
      /\ planner' = planner /\ unrecorded' = unrecorded
      /\ UNCHANGED <<workerVars, loops>>
      /\ rows' = [rows EXCEPT ![t].recent = FALSE]
  BY DEF Age, taskVars, history
<1>3. /\ rows'[t] \in Row
      /\ rows'[t].exists = rows[t].exists /\ rows'[t].status = rows[t].status
      /\ rows'[t].agent = rows[t].agent /\ rows'[t].task_type = rows[t].task_type
  <2>1. rows[t] \in Row
    BY <1>1 DEF TaskTyped
  <2>2. rows'[t] = [rows[t] EXCEPT !.recent = FALSE]
    BY <1>1, <1>2 DEF Functions
  <2> QED
    BY <2>1, <2>2 DEF Row
<1>4. Functions' /\ \A u \in Tasks \ {t} : Same(u)
  BY <1>1, <1>2 DEF Functions, Same
<1>5. TaskTyped(t)'
  BY <1>1, <1>2, <1>3 DEF TaskTyped
<1>6. Routed(t)' /\ ScoredNear(t)'
  BY <1>1, <1>2 DEF Routed, ScoredNear
<1>7. Credited(t)'
  BY <1>1, <1>2, <1>3 DEF Credited
<1>8. KeepsMerit(t)
  BY <1>2, <1>3 DEF KeepsMerit, Finished
<1>9. TaskInv(t)'
  BY <1>5, <1>6, <1>7 DEF TaskInv
<1> QED
  BY <1>2, <1>4, <1>8, <1>9, TaskStep

-----------------------------------------------------------------------------
(* The refresh goroutine. *)

(* What counts is merit: a finished row belongs to a task that has ended. *)
LEMMA CountedIsMerit ==
    ASSUME IInv, NEW i \in DOMAIN Agents, NEW tt \in TaskTypes
    PROVE  /\ Counted(i, tt) \subseteq Merits(i, tt)
           /\ IsFiniteSet(Counted(i, tt)) /\ IsFiniteSet(Merits(i, tt))
<1>1. \A t \in Tasks : Credited(t)
  BY OneTask
<1>2. Counted(i, tt) \subseteq Merits(i, tt)
  BY <1>1 DEF Counted, Merits, Credited, Finished
<1>3. Counted(i, tt) \subseteq Tasks /\ Merits(i, tt) \subseteq Tasks
  BY DEF Counted, Merits
<1> QED
  BY <1>2, <1>3, Constants, FS_Subset

(* A computed weight is a number, and it is earned if it is not zero. *)
LEMMA ComputedIsEarned ==
    ASSUME IInv, NEW i \in DOMAIN Agents, NEW tt \in TaskTypes
    PROVE  /\ ComputeRuntimeWeights(i, tt) \in Int
           /\ ComputeRuntimeWeights(i, tt) # 0 => Cardinality(Merits(i, tt)) >= MinRuns
<1> DEFINE R == Counted(i, tt)
           n == Cardinality(R)
           x == (Reward(R) * RuntimeWeightsMax) \div n
<1>1. IsFiniteSet(R) /\ n \in Nat
  BY CountedIsMerit, FS_CardinalityType
<1>2. Reward(R) \in Int
  <2> DEFINE Good == { t \in R : rows[t].status = "completed" }
             Bad  == { t \in R : rows[t].status = "failed" }
  <2>1. Good \subseteq R /\ Bad \subseteq R
    OBVIOUS
  <2>2. Reward(R) = Cardinality(Good) - Cardinality(Bad)
    BY DEF Reward
  <2> HIDE DEF Good, Bad, R
  <2>3. Cardinality(Good) \in Nat /\ Cardinality(Bad) \in Nat
    BY <1>1, <2>1, FS_Subset, FS_CardinalityType
  <2> QED
    BY <2>2, <2>3
<1>3. CASE n < MinRuns
  BY <1>3 DEF ComputeRuntimeWeights
<1>4. CASE ~(n < MinRuns)
  <2>1. n \in Nat \ {0} /\ n >= MinRuns
    BY <1>1, <1>4, Constants
  <2>2. x \in Int
    <3>1. \A a \in Int, m \in Nat \ {0} : a \div m \in Int
      OBVIOUS
    <3>2. \A a, b \in Int : a * b \in Int
      OBVIOUS
    <3>3. Reward(R) * RuntimeWeightsMax \in Int
      BY <1>2, <3>2, Constants
    <3> HIDE DEF n, R
    <3> QED
      BY <2>1, <3>1, <3>3
  <2>3. ComputeRuntimeWeights(i, tt) = Clamp(x)
    BY <1>4 DEF ComputeRuntimeWeights
  <2>4. Cardinality(Merits(i, tt)) >= n
    <3> DEFINE M == Merits(i, tt)
    <3>1. R \subseteq M /\ IsFiniteSet(M)
      BY CountedIsMerit
    <3> HIDE DEF R, M
    <3>2. Cardinality(R) <= Cardinality(M) /\ Cardinality(R) \in Nat /\ Cardinality(M) \in Nat
      BY <1>1, <3>1, FS_Subset, FS_CardinalityType
    <3> QED
      BY <3>2 DEF M
  <2>5. Cardinality(Merits(i, tt)) \in Nat
    BY CountedIsMerit, FS_CardinalityType
  <2> HIDE DEF n, x
  <2>6. Clamp(x) \in Int
    BY <2>2, ClampBounds
  <2> QED
    BY <2>1, <2>3, <2>4, <2>5, <2>6, Constants
<1> QED
  BY <1>3, <1>4

(* A step of the goroutine leaves all tasks as they are. *)
LEMMA WorkerStep ==
    ASSUME IInv, UNCHANGED <<taskVars, rows, planner, unrecorded, loops>>,
           weights' \in Weights, fresh' \in Weights, working' \in BOOLEAN,
           refresher' \in {"idle", "computed", "stopped"},
           Earned(weights'), Earned(fresh')
    PROVE  IInv'
<1>1. Functions /\ WorkerInv /\ \A t \in Tasks : TaskInv(t)
  BY ByTask
<1>2. /\ stage' = stage /\ phase' = phase /\ scores' = scores /\ routed' = routed
      /\ rows' = rows /\ planner' = planner /\ unrecorded' = unrecorded /\ loops' = loops
  BY DEF taskVars
<1>3. Functions' /\ WorkerInv'
  BY <1>1, <1>2 DEF Functions, WorkerInv
<1>4. \A t \in Tasks : TaskInv(t)'
  <2> SUFFICES ASSUME NEW t \in Tasks PROVE TaskInv(t)'
    OBVIOUS
  <2>1. TaskTyped(t)' /\ Routed(t)'
    BY <1>1, <1>2 DEF TaskInv, TaskTyped, Routed
  <2>2. ScoredNear(t)' /\ Credited(t)'
    BY <1>1, <1>2 DEF TaskInv, ScoredNear, Credited
  <2> QED
    BY <2>1, <2>2 DEF TaskInv
<1>5. EarnedInv'
  <2>1. \A i, tt : Merits(i, tt)' = Merits(i, tt)
    BY <1>2 DEF Merits
  <2> QED
    BY <2>1 DEF EarnedInv, Earned
<1> QED
  BY <1>3, <1>4, <1>5, ByTaskNext

(* A router without weights owes nothing. *)
LEMMA NoWeightsFacts == NoWeights \in Weights /\ Earned(NoWeights)
  BY DEF NoWeights, Weights, Earned

(* The steps of a refresh. *)
LEMMA RefreshInv ==
    ASSUME IInv, Refresh PROVE IInv'
<1>1. WorkerInv /\ EarnedInv
  BY ByTask
<1>2. CASE RefreshRuntimeWeights
  <2>1. fresh' \in Weights
    BY <1>2, ComputedIsEarned DEF RefreshRuntimeWeights, Weights
  <2>2. Earned(fresh')
    BY <1>2, ComputedIsEarned DEF RefreshRuntimeWeights, Earned
  <2>3. /\ UNCHANGED <<taskVars, rows, planner, unrecorded, loops>>
        /\ weights' = weights /\ working' = working /\ refresher' = "computed"
    BY <1>2 DEF RefreshRuntimeWeights, history
  <2> QED
    BY <1>1, <2>1, <2>2, <2>3, WorkerStep DEF WorkerInv, EarnedInv
<1>3. CASE ApplyRuntimeWeights
  <2>1. /\ UNCHANGED <<taskVars, rows, planner, unrecorded, loops>>
        /\ weights' = fresh /\ fresh' = NoWeights /\ working' = TRUE /\ refresher' = "idle"
    BY <1>3 DEF ApplyRuntimeWeights, history
  <2> QED
    BY <1>1, <2>1, NoWeightsFacts, WorkerStep DEF WorkerInv, EarnedInv
<1>4. CASE RefreshFails
  <2>1. /\ UNCHANGED <<taskVars, rows, planner, unrecorded, loops>>
        /\ weights' = weights /\ fresh' = NoWeights /\ working' = TRUE /\ refresher' = "idle"
    BY <1>4 DEF RefreshFails, history
  <2> QED
    BY <1>1, <2>1, NoWeightsFacts, WorkerStep DEF WorkerInv, EarnedInv
<1> QED
  BY <1>2, <1>3, <1>4 DEF Refresh

(* The worker starts anew: the attempts are lost, the rows stay. *)
LEMMA RestartInv ==
    ASSUME IInv, Restart PROVE IInv'
<1>1. Functions /\ WorkerInv /\ (\A t \in Tasks : TaskInv(t)) /\ EarnedInv
  BY ByTask
<1>2. /\ stage' = stage /\ rows' = rows /\ planner' = planner /\ loops' = loops
      /\ weights' = NoWeights /\ fresh' = NoWeights /\ refresher' = "idle" /\ working' = FALSE
      /\ unrecorded' = { t \in unrecorded : planner[t] # NoAgent }
      /\ \A t \in Tasks : phase'[t] = "idle" /\ scores'[t] = <<>> /\ routed'[t] = NoRoute
  BY DEF Restart
<1>3. Functions'
  BY <1>1 DEF Functions, Restart
<1>4. WorkerInv' /\ EarnedInv'
  BY <1>1, <1>2, NoWeightsFacts DEF WorkerInv, EarnedInv, Earned, NoWeights
<1>5. \A t \in Tasks : TaskInv(t)'
  <2> SUFFICES ASSUME NEW t \in Tasks PROVE TaskInv(t)'
    OBVIOUS
  <2>1. TaskTyped(t) /\ Credited(t)
    BY <1>1 DEF TaskInv
  <2>2. NoRoute \in Route /\ NoRoute.agent = NoAgent /\ <<>> \in Seq(Int)
    BY DEF NoRoute, Route
  <2>3. TaskTyped(t)'
    BY <1>2, <2>1, <2>2 DEF TaskTyped
  <2>4. Routed(t)' /\ ScoredNear(t)'
    BY <1>2, <2>2 DEF Routed, ScoredNear
  <2>5. Credited(t)'
    BY <1>2, <2>1 DEF Credited
  <2> QED
    BY <2>3, <2>4, <2>5 DEF TaskInv
<1> QED
  BY <1>3, <1>4, <1>5, ByTaskNext

-----------------------------------------------------------------------------
(* The theorems. *)

(* Every step keeps the invariant. *)
LEMMA NextInv ==
    ASSUME IInv, [Next]_vars PROVE IInv'
<1>1. ASSUME NEW t \in Tasks, Activity(t) PROVE IInv'
  BY <1>1, BeginInv, ScoreNextInv, EvalAgentInv, PolicyAnswerInv, PlanAnswerInv,
     LeavingInv, FinishInv, AgeInv DEF Activity
<1>2. CASE UNCHANGED vars
  <2>1. /\ UNCHANGED <<taskVars, rows, planner, unrecorded, loops>>
        /\ weights' = weights /\ fresh' = fresh /\ working' = working /\ refresher' = refresher
    BY <1>2 DEF vars, history, workerVars
  <2>2. WorkerInv /\ EarnedInv
    BY ByTask
  <2> QED
    BY <2>1, <2>2, WorkerStep DEF WorkerInv, EarnedInv
<1> QED
  BY <1>1, <1>2, RefreshInv, RestartInv DEF Next

(* The invariant is inductive. *)
THEOREM Inductive == Spec => []IInv
<1>1. Init => IInv
  BY InitInv
<1>2. IInv /\ [Next]_vars => IInv'
  BY NextInv
<1> QED
  BY <1>1, <1>2, PTL DEF Spec

(* The state of routing, of the evaluation rows and of the refresh keeps   *)
(* its type.                                                               *)
THEOREM TypeCorrect == Spec => []TypeOK
<1>1. IInv => TypeOK
  BY DEF IInv
<1> QED
  BY <1>1, Inductive, PTL

(* Whatever weights come and go while agents are being scored, the routed  *)
(* agent is among the best configured ones, up to twice the bound.         *)
THEOREM ConfiguredOrderRules == Spec => []WeightsAreBounded
<1>1. IInv => WeightsAreBounded
  BY DEF IInv
<1> QED
  BY <1>1, Inductive, PTL

(* Through repeated attempts, restarts and lost updates, a row credits the *)
(* agent whose plan was executed, unless its own update was lost.          *)
THEOREM PlannersAreCredited == Spec => []CreditWhereDue
<1>1. IInv => CreditWhereDue
  BY DEF IInv, CreditInv, Credited, CreditWhereDue
<1> QED
  BY <1>1, Inductive, PTL

(* No agent carries a weight in the router that finished tasks of its own  *)
(* have not earned.                                                        *)
THEOREM WeightsComeFromTasks == Spec => []WeightsAreEarned
<1>1. IInv => WeightsAreEarned
  BY DEF IInv, EarnedInv, Earned, Merits, WeightsAreEarned
<1> QED
  BY <1>1, Inductive, PTL

=============================================================================
