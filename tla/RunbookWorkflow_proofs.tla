----------------------- MODULE RunbookWorkflow_proofs -----------------------
(***************************************************************************)
(* Proofs about the exec agent and the runbook workflow that uses it.      *)
(*                                                                         *)
(* The agent: for every set of deployments, keys, replica counts and       *)
(* requests, however many handlers and retries are at work, its Get, check *)
(* and optimistic Update keep ExecInv.                                     *)
(*                                                                         *)
(* The workflow: it uses the agent as ExecAgent says, runs nothing past a  *)
(* failed gate or without an approval, what it records is true, and its    *)
(* log replays to its memory.                                              *)
(***************************************************************************)
EXTENDS RunbookWorkflow, SequenceTheorems, WellFoundedInduction, TLAPS

-----------------------------------------------------------------------------
(* The exec agent. *)

(* An update appends what the request asks for and keeps the rest. *)
LEMMA DesiredSpec ==
    ASSUME NEW q \in Request, NEW spec \in DeploymentSpec,
           q.input.action_type # "unknown"
    PROVE  /\ Desired(q, spec) \in DeploymentSpec
           /\ AlreadyApplied(q, Desired(q, spec))
           /\ \/ Desired(q, spec).replicas = spec.replicas
              \/ Desired(q, spec).key = spec.key
           /\ ~AlreadyApplied(q, spec) => Desired(q, spec) # spec
  BY DEF Request, ExecInput, ActionTypes, DeploymentSpec, Desired, AlreadyApplied

(* Appending keeps the earlier versions and puts the new one last. *)
LEMMA AppendVersion ==
    ASSUME NEW S, NEW s \in Seq(S), NEW x \in S
    PROVE  /\ Append(s, x) \in Seq(S)
           /\ Append(s, x) # <<>>
           /\ Len(Append(s, x)) = Len(s) + 1
           /\ \A i \in 1..Len(s) : Append(s, x)[i] = s[i]
           /\ Append(s, x)[Len(s) + 1] = x
           /\ Len(s) \in Nat
           /\ DOMAIN s = 1..Len(s)
           /\ DOMAIN Append(s, x) = 1..(Len(s) + 1)
  OBVIOUS

(* The versions of a deployment are never empty. *)
LEMMA NonemptySeq ==
    ASSUME NEW S, NEW s \in Seq(S), s # <<>>
    PROVE  /\ Len(s) \in Nat \ {0}
           /\ DOMAIN s = 1..Len(s)
           /\ s[Len(s)] \in S
  <1>1. Len(s) \in Nat /\ DOMAIN s = 1..Len(s)
    BY LenProperties
  <1>2. Len(s) # 0
    BY EmptySeq
  <1>3. Len(s) \in 1..Len(s)
    BY <1>1, <1>2
  <1> QED
    BY <1>1, <1>2, <1>3, ElementOfSeq

(* A deployment starts with one version. *)
LEMMA OneVersion ==
    ASSUME NEW S, NEW x \in S
    PROVE  <<x>> \in Seq(S) \ {<<>>} /\ Len(<<x>>) = 1
  OBVIOUS

(* Init establishes the invariant: one version per deployment. *)
LEMMA InitInv == ExecInit => ExecInv
  <1> SUFFICES ASSUME ExecInit PROVE ExecInv
    OBVIOUS
  <1> DEFINE Start(n) == [replicas |-> n, key |-> NoKey]
             First == { <<Start(n)>> : n \in Replicas }
  <1>1. \A n \in Replicas : Start(n) \in DeploymentSpec
    BY DEF DeploymentSpec
  <1> HIDE DEF Start
  <1>2. \A n \in Replicas : <<Start(n)>> \in Seq(DeploymentSpec) \ {<<>>} /\ Len(<<Start(n)>>) = 1
    BY <1>1, OneVersion
  <1>3. \A s \in First : s \in Seq(DeploymentSpec) \ {<<>>} /\ Len(s) = 1
    BY <1>2
  <1>4. versions \in [Deployments -> First]
    BY DEF ExecInit, Start
  <1> HIDE DEF First
  <1>5. versions \in [Deployments -> Seq(DeploymentSpec) \ {<<>>}]
    BY <1>3, <1>4
  <1>6. \A d \in Deployments : Len(versions[d]) = 1
    BY <1>3, <1>4
  <1> QED
    BY <1>5, <1>6 DEF ExecInit, ExecInv, ExecTypeOK, LoadedInv, NoRepeatedUpdate,
                      NoLostUpdate, SuccessMeansApplied

(* Requests come with the types the agent knows. *)
LEMMA RequestTypes ==
    ASSUME ExecTypeOK
    PROVE  /\ \A q \in issued : q \in Request /\ q.input.deployment \in Deployments
           /\ \A q \in arrived : q \in Request
           /\ \A h \in loaded : h.req \in Request
           /\ \A a \in answers : a.req \in Request
           /\ \A d \in Deployments :
                 /\ versions[d] \in Seq(DeploymentSpec)
                 /\ Len(versions[d]) \in Nat \ {0}
                 /\ Current(d) \in DeploymentSpec
                 /\ DOMAIN versions[d] = 1..Len(versions[d])
  <1>1. \A d \in Deployments : versions[d] \in Seq(DeploymentSpec) /\ versions[d] # <<>>
    BY DEF ExecTypeOK
  <1>2. \A d \in Deployments : Len(versions[d]) \in Nat \ {0}
                              /\ DOMAIN versions[d] = 1..Len(versions[d])
                              /\ versions[d][Len(versions[d])] \in DeploymentSpec
    BY <1>1, NonemptySeq
  <1>3. \A d \in Deployments : Current(d) \in DeploymentSpec
    BY <1>2 DEF Current, resourceVersion
  <1>4. /\ issued \subseteq Request /\ arrived \subseteq issued
        /\ \A h \in loaded : h.req \in issued
        /\ \A a \in answers : a.req \in Request
    BY DEF ExecTypeOK, Answer
  <1>5. \A q \in Request : q.input.deployment \in Deployments
    BY DEF Request, ExecInput
  <1> QED
    BY <1>1, <1>2, <1>3, <1>4, <1>5

(* Answers to issued requests are well typed. *)
LEMMA AnswerType ==
    ASSUME ExecTypeOK, NEW q \in issued, NEW ok \in BOOLEAN, NEW success \in BOOLEAN,
           Answered(q, ok, success)
    PROVE  answers' \subseteq Answer
  <1> DEFINE r == [req |-> q, ok |-> ok, Success |-> success]
  <1>1. q \in Request /\ answers \subseteq Answer
    BY DEF ExecTypeOK
  <1>2. r \in Answer
    BY <1>1, Zenon DEF Answer
  <1>3. answers' = answers \cup {r}
    BY DEF Answered
  <1> HIDE DEF r
  <1> QED
    BY <1>1, <1>2, <1>3

(* Every step that leaves the versions alone keeps the invariant when the  *)
(* new answers and loaded handlers are true of the versions.               *)
LEMMA QuietStep ==
    ASSUME ExecInv, ExecTypeOK', UNCHANGED versions,
           \A h \in loaded' : h \in loaded \/
               LET d == h.req.input.deployment IN
               /\ h.resourceVersion = resourceVersion(d)
               /\ resourceVersion(d) \in Nat \ {0}
               /\ h.req.input.action_type # "unknown"
               /\ ~AlreadyApplied(h.req, Current(d)),
           \A a \in answers' : a \in answers \/ ~a.Success \/
               LET d == a.req.input.deployment IN
               /\ resourceVersion(d) \in Nat \ {0}
               /\ DOMAIN versions[d] = 1..Len(versions[d])
               /\ AlreadyApplied(a.req, Current(d))
    PROVE  ExecInv'
  <1>1. LoadedInv'
    BY DEF ExecInv, LoadedInv, Current, resourceVersion
  <1>2. SuccessMeansApplied'
    BY DEF ExecInv, SuccessMeansApplied, Current, resourceVersion
  <1>3. NoRepeatedUpdate' /\ NoLostUpdate'
    BY DEF ExecInv, NoRepeatedUpdate, NoLostUpdate
  <1> QED
    BY <1>1, <1>2, <1>3 DEF ExecInv

(* A successful Update of handler h. *)
LEMMA UpdateStep ==
    ASSUME ExecInv, NEW h \in loaded, Update(h)
    PROVE  ExecInv'
  <1> DEFINE d == h.req.input.deployment
             n == Len(versions[d])
             new == Desired(h.req, versions[d][n])
  <1>1. /\ ExecTypeOK /\ LoadedInv /\ NoRepeatedUpdate /\ NoLostUpdate
        /\ SuccessMeansApplied
    BY DEF ExecInv
  <1>2. /\ h.req \in Request /\ h.req \in issued /\ d \in Deployments
        /\ versions[d] \in Seq(DeploymentSpec) /\ n \in Nat \ {0}
        /\ versions[d][n] \in DeploymentSpec
    BY <1>1, RequestTypes DEF ExecTypeOK, Current, resourceVersion
  <1>3. /\ h.resourceVersion = n
        /\ h.req.input.action_type # "unknown"
        /\ ~AlreadyApplied(h.req, versions[d][n])
    BY <1>1 DEF Update, LoadedInv, resourceVersion
  <1>4. /\ new \in DeploymentSpec /\ AlreadyApplied(h.req, new) /\ new # versions[d][n]
        /\ new.replicas = versions[d][n].replicas \/ new.key = versions[d][n].key
    BY <1>2, <1>3, DesiredSpec
  <1>5. /\ versions' = [versions EXCEPT ![d] = Append(versions[d], new)]
        /\ loaded' = loaded \ {h}
        /\ answers' = answers \cup {[req |-> h.req, ok |-> TRUE, Success |-> TRUE]}
        /\ UNCHANGED <<issued, arrived>>
    BY <1>3 DEF Update, Answered
  <1>6. versions \in [Deployments -> Seq(DeploymentSpec) \ {<<>>}]
    BY <1>1 DEF ExecTypeOK
  <1>7. /\ versions'[d] = Append(versions[d], new)
        /\ \A e \in Deployments : e # d => versions'[e] = versions[e]
    BY <1>2, <1>5, <1>6
  <1> HIDE DEF new
  <1>8. /\ versions'[d] \in Seq(DeploymentSpec) /\ versions'[d] # <<>>
        /\ Len(versions'[d]) = n + 1
        /\ \A i \in 1..n : versions'[d][i] = versions[d][i]
        /\ versions'[d][n + 1] = new
        /\ DOMAIN versions'[d] = 1..(n + 1)
    <2> DEFINE s == versions[d]
    <2>1. s \in Seq(DeploymentSpec) /\ new \in DeploymentSpec /\ n = Len(s)
          /\ versions'[d] = Append(s, new)
      BY <1>2, <1>4, <1>7
    <2> HIDE DEF s, n
    <2>2. /\ Append(s, new) \in Seq(DeploymentSpec) /\ Append(s, new) # <<>>
          /\ Len(Append(s, new)) = Len(s) + 1
          /\ \A i \in 1..Len(s) : Append(s, new)[i] = s[i]
          /\ Append(s, new)[Len(s) + 1] = new
          /\ DOMAIN Append(s, new) = 1..(Len(s) + 1)
      BY <2>1, AppendVersion
    <2> QED
      BY <2>1, <2>2 DEF s
  <1> HIDE DEF d, n
  <1>n. n = Len(versions[d]) /\ d = h.req.input.deployment
    BY DEF d, n
  <1>9. versions' \in [Deployments -> Seq(DeploymentSpec) \ {<<>>}]
    BY <1>5, <1>6, <1>7, <1>8
  (* Old versions stay where they were. *)
  <1>10. \A e \in Deployments :
            /\ Len(versions[e]) <= Len(versions'[e])
            /\ Len(versions[e]) \in Nat /\ Len(versions'[e]) \in Nat
            /\ DOMAIN versions[e] = 1..Len(versions[e])
            /\ DOMAIN versions'[e] = 1..Len(versions'[e])
            /\ \A i \in 1..Len(versions[e]) : versions'[e][i] = versions[e][i]
    <2> SUFFICES ASSUME NEW e \in Deployments
                 PROVE  /\ Len(versions[e]) <= Len(versions'[e])
                        /\ Len(versions[e]) \in Nat /\ Len(versions'[e]) \in Nat
                        /\ DOMAIN versions[e] = 1..Len(versions[e])
                        /\ DOMAIN versions'[e] = 1..Len(versions'[e])
                        /\ \A i \in 1..Len(versions[e]) : versions'[e][i] = versions[e][i]
      OBVIOUS
    <2>1. DOMAIN versions[e] = 1..Len(versions[e]) /\ Len(versions[e]) \in Nat
      BY <1>1, RequestTypes
    <2>2. CASE e = d
      <3>1. /\ Len(versions'[d]) = n + 1
            /\ DOMAIN versions'[d] = 1..(n + 1)
            /\ \A i \in 1..n : versions'[d][i] = versions[d][i]
        BY <1>8
      <3>2. n = Len(versions[d]) /\ n \in Nat
        BY <1>2, <1>n
      <3>3. /\ Len(versions[d]) <= Len(versions'[d]) /\ Len(versions'[d]) \in Nat
            /\ DOMAIN versions'[d] = 1..Len(versions'[d])
        <4>1. n <= n + 1 /\ n + 1 \in Nat
          BY <3>2
        <4> QED
          BY <3>1, <3>2, <4>1
      <3> QED
        BY <2>1, <2>2, <3>1, <3>2, <3>3
    <2>3. CASE e # d
      BY <2>1, <2>3, <1>7
    <2> QED
      BY <2>2, <2>3
  <1>11. ExecTypeOK'
    <2>1. answers' \subseteq Answer
      BY <1>1, <1>2, AnswerType DEF Update
    <2>2. loaded' \subseteq [req : issued', resourceVersion : Nat \ {0}]
      BY <1>1, <1>5 DEF ExecTypeOK
    <2> QED
      BY <1>1, <1>5, <1>9, <2>1, <2>2 DEF ExecTypeOK
  <1>12. LoadedInv'
    <2> SUFFICES ASSUME NEW g \in loaded'
                 PROVE  /\ g.resourceVersion \in 1..Len(versions'[g.req.input.deployment])
                        /\ g.req.input.action_type # "unknown"
                        /\ ~AlreadyApplied(g.req,
                              versions'[g.req.input.deployment][g.resourceVersion])
      BY DEF LoadedInv, AlreadyApplied
    <2> DEFINE e == g.req.input.deployment
    <2>1. g \in loaded
      BY <1>5
    <2>2. e \in Deployments
      BY <2>1, <1>1, RequestTypes DEF ExecTypeOK
    <2>3. /\ g.resourceVersion \in 1..Len(versions[e])
          /\ g.req.input.action_type # "unknown"
          /\ ~AlreadyApplied(g.req, versions[e][g.resourceVersion])
      BY <2>1, <1>1 DEF LoadedInv
    <2> QED
      BY <2>2, <2>3, <1>10
  <1>13. NoRepeatedUpdate'
    <2> SUFFICES ASSUME NEW e \in Deployments, NEW i \in 1..(Len(versions'[e]) - 1)
                 PROVE  versions'[e][i] # versions'[e][i + 1]
      BY DEF NoRepeatedUpdate
    <2>1. CASE e = d /\ i = n
      BY <2>1, <1>2, <1>4, <1>8
    <2>2. CASE ~(e = d /\ i = n)
      <3>1. i \in 1..(Len(versions[e]) - 1)
        BY <2>2, <1>2, <1>7, <1>8, <1>10, <1>n
      <3>2. versions'[e][i] = versions[e][i] /\ versions'[e][i + 1] = versions[e][i + 1]
        BY <3>1, <1>10
      <3> QED
        BY <3>1, <3>2, <1>1 DEF NoRepeatedUpdate
    <2> QED
      BY <2>1, <2>2
  <1>14. NoLostUpdate'
    <2> SUFFICES ASSUME NEW e \in Deployments, NEW i \in 1..(Len(versions'[e]) - 1)
                 PROVE  \/ versions'[e][i].replicas = versions'[e][i + 1].replicas
                        \/ versions'[e][i].key = versions'[e][i + 1].key
      BY DEF NoLostUpdate
    <2>1. CASE e = d /\ i = n
      <3>1. versions'[e][i] = versions[d][n] /\ versions'[e][i + 1] = new
        BY <2>1, <1>2, <1>8
      <3> QED
        BY <3>1, <1>4
    <2>2. CASE ~(e = d /\ i = n)
      <3>1. i \in 1..(Len(versions[e]) - 1)
        BY <2>2, <1>2, <1>7, <1>8, <1>10, <1>n
      <3>2. versions'[e][i] = versions[e][i] /\ versions'[e][i + 1] = versions[e][i + 1]
        BY <3>1, <1>10
      <3> QED
        BY <3>1, <3>2, <1>1 DEF NoLostUpdate
    <2> QED
      BY <2>1, <2>2
  <1>15. SuccessMeansApplied'
    <2> SUFFICES ASSUME NEW a \in answers', a.ok, a.Success
                 PROVE  \E i \in DOMAIN versions'[a.req.input.deployment] :
                            AlreadyApplied(a.req, versions'[a.req.input.deployment][i])
      BY DEF SuccessMeansApplied, AlreadyApplied
    <2>1. CASE a \in answers
      <3>1. a.req.input.deployment \in Deployments
        BY <2>1, <1>1, RequestTypes DEF Request, ExecInput
      <3>2. PICK i \in DOMAIN versions[a.req.input.deployment] :
                AlreadyApplied(a.req, versions[a.req.input.deployment][i])
        BY <2>1, <1>1 DEF SuccessMeansApplied
      <3> QED
        BY <3>1, <3>2, <1>10
    <2>2. CASE a \notin answers
      <3>1. a.req = h.req
        BY <2>2, <1>5
      <3>2. n + 1 \in DOMAIN versions'[d] /\ AlreadyApplied(h.req, versions'[d][n + 1])
        BY <1>2, <1>4, <1>8
      <3> QED
        BY <3>1, <3>2, <1>n
    <2> QED
      BY <2>1, <2>2
  <1> QED
    BY <1>11, <1>12, <1>13, <1>14, <1>15 DEF ExecInv

(* Every step keeps the invariant. *)
LEMMA StepInv == ExecInv /\ [ExecNext]_execVars => ExecInv'
  <1> SUFFICES ASSUME ExecInv, [ExecNext]_execVars PROVE ExecInv'
    OBVIOUS
  <1> USE ExecAssumption
  <1>1. ExecTypeOK
    BY DEF ExecInv
  <1>2. ASSUME NEW q \in Requests, Submit(q) PROVE ExecInv'
    <2>1. ExecTypeOK'
      BY <1>1, <1>2 DEF Submit, ExecTypeOK
    <2> QED
      BY <1>2, <2>1, QuietStep DEF Submit
  <1>3. ASSUME NEW q \in arrived, HandleUnknown(q) PROVE ExecInv'
    <2>1. ExecTypeOK'
      <3>1. q \in issued /\ Answered(q, TRUE, FALSE)
        BY <1>1, <1>3 DEF HandleUnknown, ExecTypeOK
      <3>2. answers' \subseteq Answer
        BY <1>1, <3>1, AnswerType
      <3> QED
        BY <1>1, <1>3, <3>2 DEF HandleUnknown, ExecTypeOK
    <2> QED
      BY <1>3, <2>1, QuietStep DEF HandleUnknown, Answered
  <1>4. ASSUME NEW q \in arrived, GetNoop(q) PROVE ExecInv'
    <2>1. ExecTypeOK'
      <3>1. q \in issued /\ Answered(q, TRUE, TRUE)
        BY <1>1, <1>4 DEF GetNoop, ExecTypeOK
      <3>2. answers' \subseteq Answer
        BY <1>1, <3>1, AnswerType
      <3> QED
        BY <1>1, <1>4, <3>2 DEF GetNoop, ExecTypeOK
    <2>2. /\ resourceVersion(q.input.deployment) \in Nat \ {0}
          /\ DOMAIN versions[q.input.deployment] = 1..Len(versions[q.input.deployment])
      BY <1>1, RequestTypes DEF ExecTypeOK, resourceVersion
    <2> QED
      BY <1>4, <2>1, <2>2, QuietStep DEF GetNoop, Answered
  <1>5. ASSUME NEW q \in arrived, Get(q) PROVE ExecInv'
    <2>1. resourceVersion(q.input.deployment) \in Nat \ {0}
      BY <1>1, RequestTypes DEF ExecTypeOK, resourceVersion
    <2>2. ExecTypeOK'
      BY <1>1, <1>5, <2>1 DEF Get, ExecTypeOK
    <2> QED
      BY <1>5, <2>1, <2>2, QuietStep DEF Get
  <1>6. ASSUME NEW h \in loaded, Update(h) PROVE ExecInv'
    BY <1>6, UpdateStep
  <1>7. ASSUME NEW h \in loaded, Conflict(h) PROVE ExecInv'
    <2>1. ExecTypeOK'
      <3>1. h.req \in issued /\ Answered(h.req, FALSE, FALSE)
        BY <1>1, <1>7 DEF Conflict, ExecTypeOK
      <3>2. answers' \subseteq Answer
        BY <1>1, <3>1, AnswerType
      <3> QED
        BY <1>1, <1>7, <3>2 DEF Conflict, ExecTypeOK
    <2> QED
      BY <1>7, <2>1, QuietStep DEF Conflict, Answered
  <1>8. ASSUME NEW q \in issued, LoseRequest(q) PROVE ExecInv'
    <2>1. ExecTypeOK'
      BY <1>1, <1>8 DEF LoseRequest, ExecTypeOK
    <2> QED
      BY <1>8, <2>1, QuietStep DEF LoseRequest
  <1>9. CASE UNCHANGED execVars
    <2>1. ExecTypeOK'
      BY <1>1, <1>9 DEF execVars, ExecTypeOK
    <2> QED
      BY <1>9, <2>1, QuietStep DEF execVars
  <1> QED
    BY <1>2, <1>3, <1>4, <1>5, <1>6, <1>7, <1>8, <1>9 DEF ExecNext, Agent

-----------------------------------------------------------------------------
(* ExecInv is an invariant of the agent. *)
THEOREM AgentInductive == ExecSpec => []ExecInv
  BY InitInv, StepInv, PTL DEF ExecSpec

(* Type correctness, with the facts that a loaded handler belongs to a     *)
(* request and carries a version that the API server has issued.           *)
THEOREM AgentTypeCorrect == ExecSpec => []ExecTypeOK
  <1>1. ExecInv => ExecTypeOK
    BY DEF ExecInv
  <1> QED
    BY AgentInductive, <1>1, PTL

(* No interleaving of handlers and retries writes a deployment's spec a    *)
(* second time in a row.                                                   *)
THEOREM UpdatesAreNotRepeated == ExecSpec => []NoRepeatedUpdate
  <1>1. ExecInv => NoRepeatedUpdate
    BY DEF ExecInv
  <1> QED
    BY AgentInductive, <1>1, PTL

(* A handler's stale copy never undoes what another handler wrote. *)
THEOREM UpdatesAreNotLost == ExecSpec => []NoLostUpdate
  <1>1. ExecInv => NoLostUpdate
    BY DEF ExecInv
  <1> QED
    BY AgentInductive, <1>1, PTL

(* A response with Success was true of the deployment at some time. *)
THEOREM SuccessIsTrue == ExecSpec => []SuccessMeansApplied
  <1>1. ExecInv => SuccessMeansApplied
    BY DEF ExecInv
  <1> QED
    BY AgentInductive, <1>1, PTL

-----------------------------------------------------------------------------
(* The replay of a log. *)

(* A set with 0 that is closed under successors has all numbers: otherwise *)
(* take the least one that is missing.                                     *)
LEMMA Induction ==
    ASSUME NEW S, 0 \in S, \A n \in Nat : n \in S => n + 1 \in S
    PROVE  Nat \subseteq S
<1> DEFINE T == Nat \ S
<1> SUFFICES ASSUME T # {} PROVE FALSE
  OBVIOUS
<1>1. PICK x \in T : \A y \in T : ~(<<y, x>> \in OpToRel(<, Nat))
  <2>1. T \subseteq Nat
    OBVIOUS
  <2> HIDE DEF T
  <2> QED
    BY <2>1, WFMin, NatLessThanWellFounded, Zenon
<1>2. \A y \in T : ~(y < x)
  BY <1>1 DEF OpToRel
<1>3. x # 0 /\ x \in Nat
  OBVIOUS
<1>4. x - 1 \in Nat /\ x - 1 < x
  BY <1>3
<1>5. x - 1 \in S
  BY <1>2, <1>4
<1> QED
  BY <1>3, <1>4, <1>5

(* The function that FoldLeft takes the replay of a log from: the replay of *)
(* the entries with these indices.                                         *)
Replays(it, log, n) ==
    it = [ T \in SUBSET (1..n) |->
             IF T = {} THEN NewRunbookMemory ELSE Apply(it[T \ {Max(T)}], log[Max(T)]) ]

(* The replay of a log is that of all its indices. *)
LEMMA ReplayIs ==
    ASSUME NEW log, NEW n, DOMAIN log = 1..n, \E g : Replays(g, log, n)
    PROVE  \E it : Replays(it, log, n) /\ FoldLeft(Apply, NewRunbookMemory, log) = it[1..n]
<1> DEFINE it == CHOOSE it : Replays(it, log, n)
<1>1. Replays(it, log, n)
  OBVIOUS
<1>2. FoldLeft(Apply, NewRunbookMemory, log) = it[1..n]
  BY DEF FoldLeft, MapThenFoldSet, Replays
<1> QED
  BY <1>1, <1>2

(* The greatest of the first n numbers, and of sets of them with n. *)
LEMMA MaxOf ==
    ASSUME NEW n \in Nat, NEW T \in SUBSET (1..(n + 1)), n + 1 \in T
    PROVE  Max(T) = n + 1
<1>1. n + 1 \in T /\ \A y \in T : n + 1 >= y
  OBVIOUS
<1>2. \A x \in T : (\A y \in T : x >= y) => x = n + 1
  BY <1>1
<1> QED
  BY <1>1, <1>2 DEF Max

(* There is such a function. *)
LEMMA ReplayExists ==
    ASSUME NEW log, NEW n \in Nat
    PROVE  \E it : Replays(it, log, n)
<1> DEFINE S == { k \in Nat : \E it : Replays(it, log, k) }
<1>1. 0 \in S
  <2> DEFINE it == [ T \in SUBSET (1..0) |-> NewRunbookMemory ]
  <2>1. SUBSET (1..0) = {{}}
    OBVIOUS
  <2>2. Replays(it, log, 0)
    BY <2>1 DEF Replays
  <2> QED
    BY <2>2
<1>2. ASSUME NEW k \in Nat, k \in S
      PROVE  k + 1 \in S
  <2>1. PICK f : Replays(f, log, k)
    BY <1>2
  <2> DEFINE P == SUBSET (1..(k + 1))
             Value(g, T) == IF T = {} THEN NewRunbookMemory
                           ELSE Apply(g[T \ {Max(T)}], log[Max(T)])
             g == [ T \in P |-> IF k + 1 \in T THEN Apply(f[T \ {k + 1}], log[k + 1]) ELSE f[T] ]
  <2>2. ASSUME NEW T \in P, k + 1 \in T
        PROVE  g[T] = Value(g, T)
    <3>1. Max(T) = k + 1 /\ T # {}
      BY <2>2, MaxOf
    <3>2. T \ {k + 1} \in P /\ k + 1 \notin T \ {k + 1}
      OBVIOUS
    <3>3. g[T \ {k + 1}] = f[T \ {k + 1}]
      BY <3>2
    <3> QED
      BY <2>2, <3>1, <3>3
  <2>3. ASSUME NEW T \in P, k + 1 \notin T
        PROVE  g[T] = Value(g, T)
    <3>1. T \in SUBSET (1..k)
      BY <2>3
    <3>2. g[T] = f[T] /\ f[T] = Value(f, T)
      BY <2>1, <2>3, <3>1 DEF Replays
    <3>3. T \ {Max(T)} \in P /\ k + 1 \notin T \ {Max(T)}
      BY <2>3
    <3>4. g[T \ {Max(T)}] = f[T \ {Max(T)}]
      BY <3>3
    <3> QED
      BY <3>2, <3>4
  <2>4. \A T \in P : g[T] = Value(g, T)
    BY <2>2, <2>3
  <2>5. g = [ T \in P |-> Value(g, T) ]
    <3>1. g = [ T \in P |-> g[T] ]
      OBVIOUS
    <3> HIDE DEF g, Value
    <3> QED
      BY <2>4, <3>1
  <2>6. Replays(g, log, k + 1)
    BY <2>5 DEF Replays
  <2> QED
    BY <2>6
<1> HIDE DEF S
<1>3. Nat \subseteq S
  BY <1>1, <1>2, Induction
<1> QED
  BY <1>3 DEF S

(* Logs that begin alike are replayed alike so far. *)
LEMMA ReplayPrefix ==
    ASSUME NEW log, NEW more, NEW n \in Nat, NEW k \in Nat, k >= n,
           \A i \in 1..n : more[i] = log[i],
           NEW f, Replays(f, log, n), NEW g, Replays(g, more, k)
    PROVE  g[1..n] = f[1..n]
<1> DEFINE S == { j \in Nat : j <= n => g[1..j] = f[1..j] }
<1>1. 0 \in S
  <2>1. 1..0 = {}
    OBVIOUS
  <2>2. f[{}] = NewRunbookMemory /\ g[{}] = NewRunbookMemory
    BY DEF Replays
  <2> QED
    BY <2>1, <2>2
<1>2. ASSUME NEW j \in Nat, j \in S
      PROVE  j + 1 \in S
  <2> SUFFICES ASSUME j + 1 <= n
               PROVE  g[1..(j + 1)] = f[1..(j + 1)]
    OBVIOUS
  <2> DEFINE T == 1..(j + 1)
  <2>1. T \in SUBSET (1..n) /\ T \in SUBSET (1..k) /\ T # {} /\ j + 1 \in 1..n
    OBVIOUS
  <2>2. Max(T) = j + 1 /\ T \ {Max(T)} = 1..j
    <3>1. Max(T) = j + 1
      BY MaxOf
    <3> QED
      BY <3>1
  <2> HIDE DEF T
  <2>3. f[T] = Apply(f[1..j], log[j + 1])
    BY <2>1, <2>2 DEF Replays
  <2>4. g[T] = Apply(g[1..j], more[j + 1])
    BY <2>1, <2>2 DEF Replays
  <2>5. g[1..j] = f[1..j] /\ more[j + 1] = log[j + 1]
    BY <1>2, <2>1
  <2> QED
    BY <2>3, <2>4, <2>5 DEF T
<1> HIDE DEF S
<1>3. Nat \subseteq S
  BY <1>1, <1>2, Induction
<1> QED
  BY <1>3 DEF S

(* The last entry of a log is replayed last. *)
LEMMA ReplayLast ==
    ASSUME NEW log, NEW n \in Nat, DOMAIN log = 1..n,
           NEW more, DOMAIN more = 1..(n + 1), \A i \in 1..n : more[i] = log[i]
    PROVE  FoldLeft(Apply, NewRunbookMemory, more)
             = Apply(FoldLeft(Apply, NewRunbookMemory, log), more[n + 1])
<1>1. PICK f : Replays(f, log, n) /\ FoldLeft(Apply, NewRunbookMemory, log) = f[1..n]
  BY ReplayExists, ReplayIs
<1>2. PICK g : Replays(g, more, n + 1) /\ FoldLeft(Apply, NewRunbookMemory, more) = g[1..(n + 1)]
  <2>1. n + 1 \in Nat
    OBVIOUS
  <2> QED
    BY <2>1, ReplayExists, ReplayIs
<1>3. g[1..n] = f[1..n]
  BY <1>1, <1>2, ReplayPrefix
<1> DEFINE T == 1..(n + 1)
<1>4. T # {} /\ Max(T) = n + 1 /\ T \ {n + 1} = 1..n
  <2>1. Max(T) = n + 1
    BY MaxOf
  <2> QED
    BY <2>1
<1>5. g[T] = Apply(g[T \ {Max(T)}], more[Max(T)])
  BY <1>2, <1>4 DEF Replays
<1> QED
  BY <1>1, <1>2, <1>3, <1>4, <1>5

-----------------------------------------------------------------------------
(* Sequences. *)

(* A sequence, whatever its elements. *)
IsList(s) == s \in Seq({ s[i] : i \in DOMAIN s })

(* Append keeps the elements and adds one. *)
LEMMA AppendIsSeq ==
    ASSUME NEW s, IsList(s), NEW e
    PROVE  /\ IsList(Append(s, e))
           /\ Len(s) \in Nat
           /\ Len(Append(s, e)) = Len(s) + 1
           /\ \A i \in 1..Len(s) : Append(s, e)[i] = s[i]
           /\ Append(s, e)[Len(s) + 1] = e
<1> DEFINE R == { s[i] : i \in DOMAIN s }
           t == Append(s, e)
<1>1. s \in Seq(R \cup {e})
  BY DEF IsList
<1>2. t \in Seq(R \cup {e}) /\ Len(t) = Len(s) + 1 /\ Len(s) \in Nat
      /\ (\A i \in 1..Len(s) : t[i] = s[i]) /\ t[Len(s) + 1] = e
  BY <1>1
<1>3. DOMAIN t = 1..(Len(s) + 1)
  BY <1>2
<1>4. \A i \in 1..Len(t) : t[i] \in { t[j] : j \in DOMAIN t }
  BY <1>2, <1>3
<1>5. t \in Seq({ t[j] : j \in DOMAIN t })
  <2> DEFINE T == { t[j] : j \in DOMAIN t }
             n == Len(s) + 1
  <2>1. t = [i \in 1..n |-> t[i]]
    <3> HIDE DEF t, R
    <3>1. PICK k \in Nat : t \in [1..k -> R \cup {e}]
      BY <1>2, SeqDef
    <3>2. 1..k = 1..n
      BY <1>3, <3>1
    <3> QED
      BY <3>1, <3>2
  <2>2. n \in Nat /\ \A i \in 1..n : t[i] \in T
    BY <1>2, <1>4
  <2> HIDE DEF T, n, t
  <2>3. t \in [1..n -> T]
    BY <2>1, <2>2
  <2>4. t \in Seq(T)
    BY <2>2, <2>3, SeqDef
  <2> QED
    BY <2>4 DEF T
<1> QED
  BY <1>2, <1>5 DEF IsList

-----------------------------------------------------------------------------
(* The memory. *)

IsMemory(m) ==
    /\ m \in [ RequiresHumanApproval : BOOLEAN,
               Approvals      : Seq(ApprovalSignal),
               Runbook        : Runbook,
               Diagnostics    : [StepIDs -> SUBSET ObservabilityOutput],
               Actions        : [StepIDs -> SUBSET BOOLEAN],
               CompletedSteps : Seq(StepIDs),
               Failed         : BOOLEAN,
               Versions       : [Buckets -> Nat],
               Deltas         : {m.Deltas} ]
    /\ IsList(m.Deltas)

(* The log says all that happened to the memory. *)
Replayed(m) == FoldLeft(Apply, NewRunbookMemory, m.Deltas) = m

(* m2 has one more entry in its log than m, that of d. *)
Logs(m, m2, d) ==
    /\ Len(m.Deltas) \in Nat
    /\ Len(m2.Deltas) = Len(m.Deltas) + 1
    /\ \A i \in 1..Len(m.Deltas) : m2.Deltas[i] = m.Deltas[i]
    /\ m2.Deltas[Len(m.Deltas) + 1].Action = d.Action
    /\ m2.Deltas[Len(m.Deltas) + 1].Patch = d.Patch
    /\ Replayed(m) => Replayed(m2)

(* The fields other than the log and the versions. *)
SameData(m2, m) ==
    /\ m2.RequiresHumanApproval = m.RequiresHumanApproval
    /\ m2.Approvals = m.Approvals
    /\ m2.Runbook = m.Runbook
    /\ m2.Diagnostics = m.Diagnostics
    /\ m2.Actions = m.Actions
    /\ m2.CompletedSteps = m.CompletedSteps
    /\ m2.Failed = m.Failed

(* Bumping a version changes nothing else. *)
LEMMA BumpedMemory ==
    ASSUME NEW m, IsMemory(m), NEW b \in Buckets
    PROVE  IsMemory(Bumped(m, b)) /\ SameData(Bumped(m, b), m) /\ Bumped(m, b).Deltas = m.Deltas
<1>1. [m.Versions EXCEPT ![b] = @ + 1] \in [Buckets -> Nat]
  BY DEF IsMemory
<1> QED
  BY <1>1 DEF IsMemory, SameData, Bumped

(* Nor does logging, but for the log. *)
LEMMA LoggedMemory ==
    ASSUME NEW m, IsMemory(m), NEW e
    PROVE  /\ IsMemory(Logged(m, e)) /\ SameData(Logged(m, e), m)
           /\ Logged(m, e).Deltas = Append(m.Deltas, e)
<1>1. IsList(Append(m.Deltas, e))
  BY AppendIsSeq DEF IsMemory
<1>2. Logged(m, e).Deltas = Append(m.Deltas, e) /\ SameData(Logged(m, e), m)
  BY DEF IsMemory, SameData, Logged
<1> QED
  BY <1>1, <1>2 DEF IsMemory, Logged

(* The entry of a delta does what the delta did. *)
LEMMA EntryApplies ==
    ASSUME NEW m, NEW d
    PROVE  Apply(m, Entry(m, d)) = Apply(m, d)
<1> DEFINE e == Entry(m, d)
<1>1. e.Bucket = d.Bucket /\ e.Action = d.Action /\ e.Patch = d.Patch
  BY DEF Entry
<1>2. Entry(m, e) = e
  BY <1>1 DEF Entry
<1> HIDE DEF e
<1>3. Patched(m, e) = Patched(m, d)
  BY <1>1 DEF Patched
<1> QED
  BY <1>1, <1>2, <1>3 DEF Apply, e

(* Apply patches, bumps and logs. *)
LEMMA ApplyMemory ==
    ASSUME NEW m, NEW d, d.Bucket \in Buckets,
           IsMemory(m), IsMemory(Patched(m, d)), Patched(m, d).Deltas = m.Deltas
    PROVE  /\ IsMemory(Apply(m, d))
           /\ SameData(Apply(m, d), Patched(m, d))
           /\ Logs(m, Apply(m, d), d)
<1> DEFINE p == Patched(m, d)
           b == Bumped(p, d.Bucket)
           e == Entry(m, d)
<1>1. IsMemory(b) /\ SameData(b, p) /\ b.Deltas = m.Deltas
  BY BumpedMemory
<1>2. IsMemory(Logged(b, e)) /\ SameData(Logged(b, e), b) /\ Logged(b, e).Deltas = Append(m.Deltas, e)
  BY <1>1, LoggedMemory
<1>3. e.Action = d.Action /\ e.Patch = d.Patch
  BY DEF Entry
<1>r. Replayed(m) => Replayed(Apply(m, d))
  <2> SUFFICES ASSUME Replayed(m) PROVE Replayed(Apply(m, d))
    OBVIOUS
  <2> DEFINE log == m.Deltas
             n == Len(log)
             more == Append(log, e)
  <2>1. /\ n \in Nat /\ DOMAIN log = 1..n /\ DOMAIN more = 1..(n + 1)
        /\ (\A i \in 1..n : more[i] = log[i]) /\ more[n + 1] = e
    <3>1. IsList(log) /\ IsList(more) /\ n \in Nat /\ Len(more) = n + 1
      BY AppendIsSeq DEF IsMemory
    <3>2. DOMAIN log = 1..n /\ DOMAIN more = 1..Len(more)
      BY <3>1, LenProperties DEF IsList
    <3> QED
      BY <3>1, <3>2, AppendIsSeq
  <2>2. Apply(m, d).Deltas = more
    BY <1>2 DEF Apply
  <2>3. FoldLeft(Apply, NewRunbookMemory, log) = m
    BY DEF Replayed
  <2> HIDE DEF e, log, n, more
  <2>4. FoldLeft(Apply, NewRunbookMemory, more) = Apply(m, e)
    BY <2>1, <2>3, ReplayLast
  <2>5. Apply(m, e) = Apply(m, d)
    BY EntryApplies DEF e
  <2> QED
    BY <2>2, <2>4, <2>5 DEF Replayed
<1>4. Logs(m, Logged(b, e), d)
  <2>1. Replayed(m) => Replayed(Logged(b, e))
    BY <1>r DEF Apply
  <2> QED
    BY <1>2, <1>3, <2>1, AppendIsSeq DEF Logs, IsMemory
<1>5. SameData(Logged(b, e), p)
  BY <1>1, <1>2 DEF SameData
<1> QED
  BY <1>2, <1>4, <1>5 DEF Apply

(* m2 has the fields of m, but for f, the versions and the log. *)
Keeps(m2, m, f) ==
    /\ f # "RequiresHumanApproval" => m2.RequiresHumanApproval = m.RequiresHumanApproval
    /\ f # "Approvals" => m2.Approvals = m.Approvals
    /\ f # "Runbook" => m2.Runbook = m.Runbook
    /\ f # "Diagnostics" => m2.Diagnostics = m.Diagnostics
    /\ f # "Actions" => m2.Actions = m.Actions
    /\ f # "CompletedSteps" => m2.CompletedSteps = m.CompletedSteps
    /\ f # "Failed" => m2.Failed = m.Failed

(* set_requires_human_approval. *)
LEMMA RequireApprovalDelta ==
    ASSUME NEW m, IsMemory(m), NEW b \in BOOLEAN
    PROVE  LET a == Apply(m, RequireApproval(b))
           IN  /\ IsMemory(a) /\ Keeps(a, m, "RequiresHumanApproval") /\ Logs(m, a, RequireApproval(b))
               /\ a.RequiresHumanApproval = b
<1> DEFINE d == RequireApproval(b)
           p == Patched(m, d)
<1>1. d.Bucket \in Buckets
  BY DEF RequireApproval, Buckets
<1>2. p = [m EXCEPT !.RequiresHumanApproval = b]
  BY DEF IsMemory, Patched, RequireApproval
<1>3. b \in BOOLEAN
  BY DEF IsMemory
<1>4. /\ IsMemory(p) /\ Keeps(p, m, "RequiresHumanApproval") /\ p.Deltas = m.Deltas
      /\ p.RequiresHumanApproval = b
  BY <1>2, <1>3 DEF IsMemory, Keeps
<1>5. IsMemory(Apply(m, d)) /\ SameData(Apply(m, d), p) /\ Logs(m, Apply(m, d), d)
  BY <1>1, <1>4, ApplyMemory
<1> HIDE DEF p, d
<1>6. Keeps(Apply(m, d), m, "RequiresHumanApproval") /\ Apply(m, d).RequiresHumanApproval = b
  BY <1>4, <1>5 DEF Keeps, SameData
<1> QED
  BY <1>5, <1>6 DEF d

(* append_approval. *)
LEMMA AppendApprovalDelta ==
    ASSUME NEW m, IsMemory(m), NEW sig \in ApprovalSignal
    PROVE  LET a == Apply(m, AppendApproval(sig))
           IN  /\ IsMemory(a) /\ Keeps(a, m, "Approvals") /\ Logs(m, a, AppendApproval(sig))
               /\ a.Approvals = Append(m.Approvals, sig)
<1> DEFINE d == AppendApproval(sig)
           p == Patched(m, d)
<1>1. d.Bucket \in Buckets
  BY DEF AppendApproval, Buckets
<1>2. p = [m EXCEPT !.Approvals = Append(m.Approvals, sig)]
  BY DEF IsMemory, Patched, AppendApproval
<1>3. Append(m.Approvals, sig) \in Seq(ApprovalSignal)
  BY DEF IsMemory
<1>4. /\ IsMemory(p) /\ Keeps(p, m, "Approvals") /\ p.Deltas = m.Deltas
      /\ p.Approvals = Append(m.Approvals, sig)
  BY <1>2, <1>3 DEF IsMemory, Keeps
<1>5. IsMemory(Apply(m, d)) /\ SameData(Apply(m, d), p) /\ Logs(m, Apply(m, d), d)
  BY <1>1, <1>4, ApplyMemory
<1> HIDE DEF p, d
<1>6. Keeps(Apply(m, d), m, "Approvals") /\ Apply(m, d).Approvals = Append(m.Approvals, sig)
  BY <1>4, <1>5 DEF Keeps, SameData
<1> QED
  BY <1>5, <1>6 DEF d

(* set_runbook. *)
LEMMA SetRunbookDelta ==
    ASSUME NEW m, IsMemory(m), NEW rb \in Runbook
    PROVE  LET a == Apply(m, SetRunbook(rb))
           IN  /\ IsMemory(a) /\ Keeps(a, m, "Runbook") /\ Logs(m, a, SetRunbook(rb))
               /\ a.Runbook = rb
<1> DEFINE d == SetRunbook(rb)
           p == Patched(m, d)
<1>1. d.Bucket \in Buckets
  BY DEF SetRunbook, Buckets
<1>2. p = [m EXCEPT !.Runbook = rb]
  BY DEF IsMemory, Patched, SetRunbook
<1>3. rb \in Runbook
  BY DEF IsMemory
<1>4. /\ IsMemory(p) /\ Keeps(p, m, "Runbook") /\ p.Deltas = m.Deltas
      /\ p.Runbook = rb
  BY <1>2, <1>3 DEF IsMemory, Keeps
<1>5. IsMemory(Apply(m, d)) /\ SameData(Apply(m, d), p) /\ Logs(m, Apply(m, d), d)
  BY <1>1, <1>4, ApplyMemory
<1> HIDE DEF p, d
<1>6. Keeps(Apply(m, d), m, "Runbook") /\ Apply(m, d).Runbook = rb
  BY <1>4, <1>5 DEF Keeps, SameData
<1> QED
  BY <1>5, <1>6 DEF d

(* record_diagnostic. *)
LEMMA RecordDiagnosticDelta ==
    ASSUME NEW m, IsMemory(m), NEW id \in StepIDs, NEW o \in ObservabilityOutput
    PROVE  LET a == Apply(m, RecordDiagnostic(id, o))
           IN  /\ IsMemory(a) /\ Keeps(a, m, "Diagnostics") /\ Logs(m, a, RecordDiagnostic(id, o))
<1> DEFINE d == RecordDiagnostic(id, o)
           p == Patched(m, d)
<1>1. d.Bucket \in Buckets
  BY DEF RecordDiagnostic, Buckets
<1>2. p = [m EXCEPT !.Diagnostics = [m.Diagnostics EXCEPT ![id] = {o}]]
  BY DEF IsMemory, Patched, RecordDiagnostic
<1>3. [m.Diagnostics EXCEPT ![id] = {o}] \in [StepIDs -> SUBSET ObservabilityOutput]
  BY DEF IsMemory
<1>4. /\ IsMemory(p) /\ Keeps(p, m, "Diagnostics") /\ p.Deltas = m.Deltas
      /\ p.Diagnostics = [m.Diagnostics EXCEPT ![id] = {o}]
  BY <1>2, <1>3 DEF IsMemory, Keeps
<1>5. IsMemory(Apply(m, d)) /\ SameData(Apply(m, d), p) /\ Logs(m, Apply(m, d), d)
  BY <1>1, <1>4, ApplyMemory
<1> HIDE DEF p, d
<1>6. Keeps(Apply(m, d), m, "Diagnostics") /\ Apply(m, d).Diagnostics = [m.Diagnostics EXCEPT ![id] = {o}]
  BY <1>4, <1>5 DEF Keeps, SameData
<1> QED
  BY <1>5, <1>6 DEF d

(* record_action. *)
LEMMA RecordActionDelta ==
    ASSUME NEW m, IsMemory(m), NEW id \in StepIDs, NEW o \in BOOLEAN
    PROVE  LET a == Apply(m, RecordAction(id, o))
           IN  /\ IsMemory(a) /\ Keeps(a, m, "Actions") /\ Logs(m, a, RecordAction(id, o))
               /\ a.Actions = [m.Actions EXCEPT ![id] = {o}]
<1> DEFINE d == RecordAction(id, o)
           p == Patched(m, d)
<1>1. d.Bucket \in Buckets
  BY DEF RecordAction, Buckets
<1>2. p = [m EXCEPT !.Actions = [m.Actions EXCEPT ![id] = {o}]]
  BY DEF IsMemory, Patched, RecordAction
<1>3. [m.Actions EXCEPT ![id] = {o}] \in [StepIDs -> SUBSET BOOLEAN]
  BY DEF IsMemory
<1>4. /\ IsMemory(p) /\ Keeps(p, m, "Actions") /\ p.Deltas = m.Deltas
      /\ p.Actions = [m.Actions EXCEPT ![id] = {o}]
  BY <1>2, <1>3 DEF IsMemory, Keeps
<1>5. IsMemory(Apply(m, d)) /\ SameData(Apply(m, d), p) /\ Logs(m, Apply(m, d), d)
  BY <1>1, <1>4, ApplyMemory
<1> HIDE DEF p, d
<1>6. Keeps(Apply(m, d), m, "Actions") /\ Apply(m, d).Actions = [m.Actions EXCEPT ![id] = {o}]
  BY <1>4, <1>5 DEF Keeps, SameData
<1> QED
  BY <1>5, <1>6 DEF d

(* mark_step_completed. *)
LEMMA MarkCompletedDelta ==
    ASSUME NEW m, IsMemory(m), NEW id \in StepIDs
    PROVE  LET a == Apply(m, MarkCompleted(id))
           IN  /\ IsMemory(a) /\ Keeps(a, m, "CompletedSteps") /\ Logs(m, a, MarkCompleted(id))
               /\ a.CompletedSteps = Append(m.CompletedSteps, id)
<1> DEFINE d == MarkCompleted(id)
           p == Patched(m, d)
<1>1. d.Bucket \in Buckets
  BY DEF MarkCompleted, Buckets
<1>2. p = [m EXCEPT !.CompletedSteps = Append(m.CompletedSteps, id)]
  BY DEF IsMemory, Patched, MarkCompleted
<1>3. Append(m.CompletedSteps, id) \in Seq(StepIDs)
  BY DEF IsMemory
<1>4. /\ IsMemory(p) /\ Keeps(p, m, "CompletedSteps") /\ p.Deltas = m.Deltas
      /\ p.CompletedSteps = Append(m.CompletedSteps, id)
  BY <1>2, <1>3 DEF IsMemory, Keeps
<1>5. IsMemory(Apply(m, d)) /\ SameData(Apply(m, d), p) /\ Logs(m, Apply(m, d), d)
  BY <1>1, <1>4, ApplyMemory
<1> HIDE DEF p, d
<1>6. Keeps(Apply(m, d), m, "CompletedSteps") /\ Apply(m, d).CompletedSteps = Append(m.CompletedSteps, id)
  BY <1>4, <1>5 DEF Keeps, SameData
<1> QED
  BY <1>5, <1>6 DEF d

(* mark_failed. *)
LEMMA MarkFailedDelta ==
    ASSUME NEW m, IsMemory(m)
    PROVE  LET a == Apply(m, MarkFailed)
           IN  /\ IsMemory(a) /\ Keeps(a, m, "Failed") /\ Logs(m, a, MarkFailed)
               /\ a.Failed = TRUE
<1> DEFINE d == MarkFailed
           p == Patched(m, d)
<1>1. d.Bucket \in Buckets
  BY DEF MarkFailed, Buckets
<1>2. p = [m EXCEPT !.Failed = TRUE]
  BY DEF IsMemory, Patched, MarkFailed
<1>3. TRUE \in BOOLEAN
  BY DEF IsMemory
<1>4. /\ IsMemory(p) /\ Keeps(p, m, "Failed") /\ p.Deltas = m.Deltas
      /\ p.Failed = TRUE
  BY <1>2, <1>3 DEF IsMemory, Keeps
<1>5. IsMemory(Apply(m, d)) /\ SameData(Apply(m, d), p) /\ Logs(m, Apply(m, d), d)
  BY <1>1, <1>4, ApplyMemory
<1> HIDE DEF p, d
<1>6. Keeps(Apply(m, d), m, "Failed") /\ Apply(m, d).Failed = TRUE
  BY <1>4, <1>5 DEF Keeps, SameData
<1> QED
  BY <1>5, <1>6 DEF d

(* set_selected_runbook_id. *)
LEMMA SelectRunbookDelta ==
    ASSUME NEW m, IsMemory(m)
    PROVE  LET a == Apply(m, SelectRunbook)
           IN  /\ IsMemory(a) /\ Keeps(a, m, "none") /\ Logs(m, a, SelectRunbook)
<1> DEFINE d == SelectRunbook
           p == Patched(m, d)
<1>1. d.Bucket \in Buckets
  BY DEF SelectRunbook, Buckets
<1>2. p = m
  BY DEF Patched, SelectRunbook
<1>4. IsMemory(p) /\ Keeps(p, m, "none") /\ p.Deltas = m.Deltas
  BY <1>2 DEF Keeps
<1>5. IsMemory(Apply(m, d)) /\ SameData(Apply(m, d), p) /\ Logs(m, Apply(m, d), d)
  BY <1>1, <1>4, ApplyMemory
<1> HIDE DEF p, d
<1>6. Keeps(Apply(m, d), m, "none")
  BY <1>4, <1>5 DEF Keeps, SameData
<1> QED
  BY <1>5, <1>6 DEF d

(* set_fact. *)
LEMMA SetSeverityDelta ==
    ASSUME NEW m, IsMemory(m)
    PROVE  LET a == Apply(m, SetSeverity)
           IN  /\ IsMemory(a) /\ Keeps(a, m, "none") /\ Logs(m, a, SetSeverity)
<1> DEFINE d == SetSeverity
           p == Patched(m, d)
<1>1. d.Bucket \in Buckets
  BY DEF SetSeverity, Buckets
<1>2. p = m
  BY DEF Patched, SetSeverity
<1>4. IsMemory(p) /\ Keeps(p, m, "none") /\ p.Deltas = m.Deltas
  BY <1>2 DEF Keeps
<1>5. IsMemory(Apply(m, d)) /\ SameData(Apply(m, d), p) /\ Logs(m, Apply(m, d), d)
  BY <1>1, <1>4, ApplyMemory
<1> HIDE DEF p, d
<1>6. Keeps(Apply(m, d), m, "none")
  BY <1>4, <1>5 DEF Keeps, SameData
<1> QED
  BY <1>5, <1>6 DEF d

(* set_cursor. *)
LEMMA SetCursorDelta ==
    ASSUME NEW m, IsMemory(m), NEW phase, NEW i
    PROVE  LET a == Apply(m, SetCursor(phase, i))
           IN  /\ IsMemory(a) /\ Keeps(a, m, "none") /\ Logs(m, a, SetCursor(phase, i))
<1> DEFINE d == SetCursor(phase, i)
           p == Patched(m, d)
<1>1. d.Bucket \in Buckets
  BY DEF SetCursor, Buckets
<1>2. p = m
  BY DEF Patched, SetCursor
<1>4. IsMemory(p) /\ Keeps(p, m, "none") /\ p.Deltas = m.Deltas
  BY <1>2 DEF Keeps
<1>5. IsMemory(Apply(m, d)) /\ SameData(Apply(m, d), p) /\ Logs(m, Apply(m, d), d)
  BY <1>1, <1>4, ApplyMemory
<1> HIDE DEF p, d
<1>6. Keeps(Apply(m, d), m, "none")
  BY <1>4, <1>5 DEF Keeps, SameData
<1> QED
  BY <1>5, <1>6 DEF d

-----------------------------------------------------------------------------
(* What the steps of the workflow do to the memory. *)

(* The memory only gets new entries of the log, with these actions, and    *)
(* nothing that they do not tell.                                          *)
Grows(acts) ==
    /\ IsMemory(mem')
    /\ Len(mem.Deltas) \in Nat /\ Len(mem'.Deltas) \in Nat
    /\ Len(mem.Deltas) < Len(mem'.Deltas)
    /\ \A i \in 1..Len(mem.Deltas) : mem'.Deltas[i] = mem.Deltas[i]
    /\ \A i \in (Len(mem.Deltas) + 1)..Len(mem'.Deltas) : mem'.Deltas[i].Action \in acts
    /\ Replayed(mem) => Replayed(mem')

(* The steps of the runbook have ids of steps. *)
LEMMA ActionsTyped ==
    IsMemory(mem) =>
        /\ DOMAIN Actions = 1..Len(Actions) /\ Len(Actions) \in Nat
        /\ \A i \in 1..Len(Actions) :
              Actions[i] \in Action /\ Actions[i].ID \in StepIDs
              /\ Actions[i].RequiresApproval \in BOOLEAN
<1> SUFFICES ASSUME IsMemory(mem)
             PROVE  /\ DOMAIN Actions = 1..Len(Actions) /\ Len(Actions) \in Nat
                    /\ \A i \in 1..Len(Actions) :
                          Actions[i] \in Action /\ Actions[i].ID \in StepIDs
                          /\ Actions[i].RequiresApproval \in BOOLEAN
  OBVIOUS
<1>1. Actions \in Seq(Action)
  BY DEF IsMemory, Runbook, Actions
<1>2. DOMAIN Actions = 1..Len(Actions) /\ Len(Actions) \in Nat
  BY <1>1
<1>3. \A i \in 1..Len(Actions) : Actions[i] \in Action
  BY <1>1, ElementOfSeq
<1> QED
  BY <1>2, <1>3 DEF Action

(* So do its diagnostics. *)
LEMMA DiagnosticsTyped ==
    IsMemory(mem) =>
        /\ Len(Diagnostics) \in Nat
        /\ \A i \in 1..Len(Diagnostics) :
              Diagnostics[i] \in Diagnostic /\ Diagnostics[i].ID \in StepIDs
<1> SUFFICES ASSUME IsMemory(mem)
             PROVE  /\ Len(Diagnostics) \in Nat
                    /\ \A i \in 1..Len(Diagnostics) :
                          Diagnostics[i] \in Diagnostic /\ Diagnostics[i].ID \in StepIDs
  OBVIOUS
<1>1. Diagnostics \in Seq(Diagnostic)
  BY DEF IsMemory, Runbook, Diagnostics
<1>2. \A i \in 1..Len(Diagnostics) : Diagnostics[i] \in Diagnostic
  BY <1>1, ElementOfSeq
<1> QED
  BY <1>1, <1>2 DEF Diagnostic

(* One delta is one new entry. *)
LEMMA OneDelta ==
    ASSUME IsMemory(mem), NEW d, IsMemory(mem'), Logs(mem, mem', d)
    PROVE  Grows({d.Action})
BY DEF Grows, Logs

(* Two deltas are two. *)
LEMMA TwoDeltas ==
    ASSUME NEW m, NEW m1, NEW m2, NEW d1, NEW d2, Logs(m, m1, d1), Logs(m1, m2, d2)
    PROVE  LET n == Len(m.Deltas)
           IN  /\ n \in Nat /\ Len(m2.Deltas) = n + 2
               /\ \A i \in 1..n : m2.Deltas[i] = m.Deltas[i]
               /\ m2.Deltas[n + 1].Action = d1.Action /\ m2.Deltas[n + 1].Patch = d1.Patch
               /\ m2.Deltas[n + 2].Action = d2.Action /\ m2.Deltas[n + 2].Patch = d2.Patch
<1> DEFINE n == Len(m.Deltas)
<1>1. n \in Nat /\ Len(m1.Deltas) = n + 1 /\ \A i \in 1..n : m1.Deltas[i] = m.Deltas[i]
  BY DEF Logs
<1>2. Len(m2.Deltas) = Len(m1.Deltas) + 1 /\ \A i \in 1..Len(m1.Deltas) : m2.Deltas[i] = m1.Deltas[i]
  BY DEF Logs
<1>3. m1.Deltas[n + 1].Action = d1.Action /\ m1.Deltas[n + 1].Patch = d1.Patch
  BY DEF Logs
<1>4. /\ m2.Deltas[Len(m1.Deltas) + 1].Action = d2.Action
      /\ m2.Deltas[Len(m1.Deltas) + 1].Patch = d2.Patch
  BY DEF Logs
<1> HIDE DEF n
<1>5. Len(m2.Deltas) = n + 2 /\ Len(m1.Deltas) + 1 = n + 2
  BY <1>1, <1>2
<1>6. m2.Deltas[n + 1] = m1.Deltas[n + 1]
  BY <1>1, <1>2
<1>7. \A i \in 1..n : m2.Deltas[i] = m.Deltas[i]
  BY <1>1, <1>2
<1>8. m2.Deltas[n + 1].Action = d1.Action /\ m2.Deltas[n + 1].Patch = d1.Patch
  BY <1>3, <1>6
<1>9. m2.Deltas[n + 2].Action = d2.Action /\ m2.Deltas[n + 2].Patch = d2.Patch
  BY <1>4, <1>5
<1> QED
  BY <1>1, <1>5, <1>7, <1>8, <1>9 DEF n

(* The rule agent's answer: the verdict, the choice and the severity. *)
LEMMA RuleMemory ==
    ASSUME IsMemory(mem), NEW requires \in BOOLEAN, RuleAgentAnswers(requires)
    PROVE  /\ Grows({"set_requires_human_approval", "set_selected_runbook_id", "set_fact"})
           /\ Keeps(mem', mem, "RequiresHumanApproval")
<1> DEFINE m1 == Apply(mem, RequireApproval(requires))
           m2 == Apply(m1, SelectRunbook)
           m3 == Apply(m2, SetSeverity)
<1>1. mem' = m3
  BY DEF RuleAgentAnswers, Apply3, Apply2
<1>2. IsMemory(m1) /\ Keeps(m1, mem, "RequiresHumanApproval") /\ Logs(mem, m1, RequireApproval(requires))
  BY RequireApprovalDelta
<1> HIDE DEF m1
<1>3. IsMemory(m2) /\ Keeps(m2, m1, "none") /\ Logs(m1, m2, SelectRunbook)
  BY <1>2, SelectRunbookDelta
<1> HIDE DEF m2
<1>4. IsMemory(m3) /\ Keeps(m3, m2, "none") /\ Logs(m2, m3, SetSeverity)
  BY <1>3, SetSeverityDelta
<1> HIDE DEF m3
<1>5. Keeps(m3, mem, "RequiresHumanApproval")
  BY <1>2, <1>3, <1>4 DEF Keeps
<1>6. /\ RequireApproval(requires).Action = "set_requires_human_approval"
      /\ SelectRunbook.Action = "set_selected_runbook_id" /\ SetSeverity.Action = "set_fact"
  BY DEF RequireApproval, SelectRunbook, SetSeverity
<1> DEFINE n == Len(mem.Deltas)
<1>7. /\ n \in Nat /\ Len(m3.Deltas) = n + 3
      /\ \A i \in 1..n : m3.Deltas[i] = mem.Deltas[i]
      /\ m3.Deltas[n + 1].Action = "set_requires_human_approval"
      /\ m3.Deltas[n + 2].Action = "set_selected_runbook_id"
      /\ m3.Deltas[n + 3].Action = "set_fact"
  <2>1. /\ n \in Nat /\ Len(m2.Deltas) = n + 2
        /\ \A i \in 1..n : m2.Deltas[i] = mem.Deltas[i]
        /\ m2.Deltas[n + 1].Action = "set_requires_human_approval"
        /\ m2.Deltas[n + 2].Action = "set_selected_runbook_id"
    BY <1>2, <1>3, <1>6, TwoDeltas
  <2>2. /\ Len(m3.Deltas) = Len(m2.Deltas) + 1
        /\ \A i \in 1..Len(m2.Deltas) : m3.Deltas[i] = m2.Deltas[i]
        /\ m3.Deltas[Len(m2.Deltas) + 1].Action = "set_fact"
    BY <1>4, <1>6 DEF Logs
  <2> HIDE DEF n
  <2>3. Len(m3.Deltas) = n + 3 /\ Len(m2.Deltas) + 1 = n + 3
    BY <2>1, <2>2
  <2>4. m3.Deltas[n + 1] = m2.Deltas[n + 1] /\ m3.Deltas[n + 2] = m2.Deltas[n + 2]
    BY <2>1, <2>2
  <2>5. \A i \in 1..n : m3.Deltas[i] = mem.Deltas[i]
    BY <2>1, <2>2
  <2> QED
    BY <2>1, <2>2, <2>3, <2>4, <2>5
<1>8. \A i \in (n + 1)..Len(m3.Deltas) : i \in {n + 1, n + 2, n + 3}
  BY <1>7
<1>9. \A i \in (n + 1)..Len(m3.Deltas) : m3.Deltas[i].Action
         \in {"set_requires_human_approval", "set_selected_runbook_id", "set_fact"}
  BY <1>7, <1>8
<1>10. n < Len(m3.Deltas) /\ Len(m3.Deltas) \in Nat
  BY <1>7
<1>11. Replayed(mem) => Replayed(m3)
  BY <1>2, <1>3, <1>4 DEF Logs
<1> QED
  BY <1>1, <1>4, <1>5, <1>7, <1>9, <1>10, <1>11 DEF Grows

(* The runbook agent's answer: the runbook. *)
LEMMA ChosenMemory ==
    ASSUME IsMemory(mem), NEW rb \in Runbooks, RunbookAgentAnswers(rb)
    PROVE  Grows({"set_runbook"}) /\ Keeps(mem', mem, "Runbook") /\ mem'.Runbook = rb
<1>1. rb \in Runbook
  BY RunbookAssumption
<1>2. mem' = Apply(mem, SetRunbook(rb)) /\ SetRunbook(rb).Action = "set_runbook"
  BY DEF RunbookAgentAnswers, SetRunbook
<1> QED
  BY <1>1, <1>2, SetRunbookDelta, OneDelta

(* An agent's error: the failure. *)
LEMMA ErrorMemory ==
    ASSUME IsMemory(mem), AgentError
    PROVE  Grows({"mark_failed"}) /\ Keeps(mem', mem, "Failed")
<1>1. mem' = Apply(mem, MarkFailed) /\ MarkFailed.Action = "mark_failed"
  BY DEF AgentError, MarkFailed
<1> QED
  BY <1>1, MarkFailedDelta, OneDelta

(* The next turn of a loop: the cursor. *)
LEMMA CursorMemory ==
    ASSUME IsMemory(mem), BeginDiagnostic \/ BeginAction
    PROVE  Grows({"set_cursor"}) /\ Keeps(mem', mem, "none")
<1>1. PICK phase : mem' = Apply(mem, SetCursor(phase, idx + 1))
  BY DEF BeginDiagnostic, BeginAction
<1>2. SetCursor(phase, idx + 1).Action = "set_cursor"
  BY DEF SetCursor
<1> QED
  BY <1>1, <1>2, SetCursorDelta, OneDelta

(* The fields that a diagnostic leaves alone, and the step it completes. *)
LEMMA DiagnosticMemory ==
    ASSUME IsMemory(mem), NEW out \in ObservabilityOutput, DiagnosticAnswers(out),
           idx \in 1..Len(Diagnostics)
    PROVE  /\ Grows({"record_diagnostic", "mark_step_completed", "mark_failed"})
           /\ mem'.RequiresHumanApproval = mem.RequiresHumanApproval
           /\ mem'.Approvals = mem.Approvals /\ mem'.Runbook = mem.Runbook
           /\ mem'.Actions = mem.Actions
           /\ mem'.CompletedSteps = Append(mem.CompletedSteps, Diagnostics[idx].ID)
<1> DEFINE id == Diagnostics[idx].ID
           m1 == Apply(mem, RecordDiagnostic(id, out))
           m2 == Apply(m1, MarkCompleted(id))
           m3 == Apply(m2, MarkFailed)
           n == Len(mem.Deltas)
<1>1. id \in StepIDs
  BY DiagnosticsTyped
<1>2. mem' = m2 \/ mem' = m3
  BY DEF DiagnosticAnswers, Apply2
<1> HIDE DEF id
<1>3. IsMemory(m1) /\ Keeps(m1, mem, "Diagnostics") /\ Logs(mem, m1, RecordDiagnostic(id, out))
  BY <1>1, RecordDiagnosticDelta
<1> HIDE DEF m1
<1>4. /\ IsMemory(m2) /\ Keeps(m2, m1, "CompletedSteps") /\ Logs(m1, m2, MarkCompleted(id))
      /\ m2.CompletedSteps = Append(m1.CompletedSteps, id)
  BY <1>1, <1>3, MarkCompletedDelta
<1> HIDE DEF m2
<1>5. IsMemory(m3) /\ Keeps(m3, m2, "Failed") /\ Logs(m2, m3, MarkFailed)
  BY <1>4, MarkFailedDelta
<1> HIDE DEF m3
<1>6. /\ RecordDiagnostic(id, out).Action = "record_diagnostic"
      /\ MarkCompleted(id).Action = "mark_step_completed" /\ MarkFailed.Action = "mark_failed"
  BY DEF RecordDiagnostic, MarkCompleted, MarkFailed
<1>7. /\ n \in Nat /\ Len(m2.Deltas) = n + 2
      /\ \A i \in 1..n : m2.Deltas[i] = mem.Deltas[i]
      /\ m2.Deltas[n + 1].Action = "record_diagnostic"
      /\ m2.Deltas[n + 2].Action = "mark_step_completed"
  BY <1>3, <1>4, <1>6, TwoDeltas
<1>8. /\ Len(m3.Deltas) = n + 3
      /\ \A i \in 1..(n + 2) : m3.Deltas[i] = m2.Deltas[i]
      /\ m3.Deltas[n + 3].Action = "mark_failed"
  BY <1>5, <1>6, <1>7 DEF Logs
<1>r. (Replayed(mem) => Replayed(m2)) /\ (Replayed(mem) => Replayed(m3))
  BY <1>3, <1>4, <1>5 DEF Logs
<1> HIDE DEF n
<1>9. /\ \A i \in (n + 1)..Len(m2.Deltas) : i \in {n + 1, n + 2}
      /\ \A i \in (n + 1)..Len(m3.Deltas) : i \in {n + 1, n + 2, n + 3}
  <2>1. n \in Nat /\ Len(m2.Deltas) = n + 2 /\ Len(m3.Deltas) = n + 3
    BY <1>7, <1>8
  <2>2. (n + 1)..(n + 2) = {n + 1, n + 2} /\ (n + 1)..(n + 3) = {n + 1, n + 2, n + 3}
    BY <2>1
  <2> QED
    BY <2>1, <2>2
<1>10. Grows({"record_diagnostic", "mark_step_completed", "mark_failed"})
  <2>1. CASE mem' = m2
    <3>1. \A i \in (n + 1)..Len(m2.Deltas) : m2.Deltas[i].Action
             \in {"record_diagnostic", "mark_step_completed", "mark_failed"}
      BY <1>7, <1>9
    <3>2. n < Len(m2.Deltas) /\ Len(m2.Deltas) \in Nat
      BY <1>7
    <3>3. /\ IsMemory(mem') /\ Len(mem'.Deltas) \in Nat /\ n < Len(mem'.Deltas)
          /\ \A i \in 1..n : mem'.Deltas[i] = mem.Deltas[i]
      BY <1>4, <1>7, <2>1, <3>2
    <3>4. \A i \in (n + 1)..Len(mem'.Deltas) : mem'.Deltas[i].Action
             \in {"record_diagnostic", "mark_step_completed", "mark_failed"}
      BY <2>1, <3>1
    <3>n. n \in Nat
      BY <1>7
    <3> QED
      BY <1>r, <2>1, <3>n, <3>3, <3>4 DEF Grows, n
  <2>2. CASE mem' = m3
    <3>1. m3.Deltas[n + 1] = m2.Deltas[n + 1] /\ m3.Deltas[n + 2] = m2.Deltas[n + 2]
          /\ \A i \in 1..n : m3.Deltas[i] = mem.Deltas[i]
      BY <1>7, <1>8
    <3>2. \A i \in (n + 1)..Len(m3.Deltas) : m3.Deltas[i].Action
             \in {"record_diagnostic", "mark_step_completed", "mark_failed"}
      BY <1>7, <1>8, <1>9, <3>1
    <3>3. n < Len(m3.Deltas) /\ Len(m3.Deltas) \in Nat
      BY <1>7, <1>8
    <3>4. /\ IsMemory(mem') /\ Len(mem'.Deltas) \in Nat /\ n < Len(mem'.Deltas)
          /\ \A i \in 1..n : mem'.Deltas[i] = mem.Deltas[i]
      BY <1>5, <1>7, <2>2, <3>1, <3>3
    <3>5. \A i \in (n + 1)..Len(mem'.Deltas) : mem'.Deltas[i].Action
             \in {"record_diagnostic", "mark_step_completed", "mark_failed"}
      BY <2>2, <3>2
    <3>n. n \in Nat
      BY <1>7
    <3> QED
      BY <1>r, <2>2, <3>n, <3>4, <3>5 DEF Grows, n
  <2> QED
    BY <1>2, <2>1, <2>2
<1> QED
  BY <1>2, <1>3, <1>4, <1>5, <1>10 DEF Keeps, id

(* Consuming a decision about the step adds it. *)
LEMMA SignalMemory ==
    ASSUME IsMemory(mem), ReceiveApproval \/ ReceiveRejection, idx \in 1..Len(Actions),
           signals \in Seq(Signal)
    PROVE  /\ Head(signals) \in ApprovalSignal
           /\ Grows({"append_approval"}) /\ Keeps(mem', mem, "Approvals")
           /\ mem'.Approvals = Append(mem.Approvals, Head(signals))
           /\ Len(mem'.Deltas) = Len(mem.Deltas) + 1
           /\ mem'.Deltas[Len(mem'.Deltas)].Patch = Head(signals)
<1>1. signals # <<>> /\ Head(signals).StepID = Actions[idx].ID
      /\ mem' = Apply(mem, AppendApproval(Head(signals)))
  BY DEF ReceiveApproval, ReceiveRejection
<1>2. Head(signals) \in Signal
  BY <1>1
<1>3. Head(signals) \in ApprovalSignal
  BY <1>1, <1>2, ActionsTyped DEF Signal, ApprovalSignal
<1>4. /\ AppendApproval(Head(signals)).Action = "append_approval"
      /\ AppendApproval(Head(signals)).Patch = Head(signals)
  BY DEF AppendApproval
<1>5. /\ IsMemory(mem') /\ Keeps(mem', mem, "Approvals")
      /\ Logs(mem, mem', AppendApproval(Head(signals)))
      /\ mem'.Approvals = Append(mem.Approvals, Head(signals))
  BY <1>1, <1>3, AppendApprovalDelta
<1>6. Grows({"append_approval"})
  BY <1>4, <1>5, OneDelta
<1> QED
  BY <1>3, <1>4, <1>5, <1>6 DEF Logs

(* The answer that ended the call is recorded and completes the step. *)
LEMMA AnswerMemory ==
    ASSUME IsMemory(mem), ExecAnswers, idx \in 1..Len(Actions), answers \subseteq Answer
    PROVE  /\ Grows({"record_action", "mark_step_completed"})
           /\ Len(mem'.Deltas) = Len(mem.Deltas) + 2
           /\ mem'.Deltas[Len(mem.Deltas) + 1].Patch.step_id = Actions[idx].ID
           /\ mem'.Deltas[Len(mem.Deltas) + 2].Action = "mark_step_completed"
           /\ mem'.RequiresHumanApproval = mem.RequiresHumanApproval
           /\ mem'.Approvals = mem.Approvals /\ mem'.Runbook = mem.Runbook
           /\ mem'.CompletedSteps = Append(mem.CompletedSteps, Actions[idx].ID)
           /\ \E a \in answers : /\ a.req = ExecRequest(mem.Runbook, idx, attempt) /\ a.ok
                                 /\ mem'.Actions = [mem.Actions EXCEPT ![Actions[idx].ID] = {a.Success}]
<1> DEFINE id == Actions[idx].ID
<1>1. PICK a \in answers : /\ a.req = ExecRequest(mem.Runbook, idx, attempt) /\ a.ok
                           /\ mem' = Apply2(mem, RecordAction(id, a.Success), MarkCompleted(id))
  BY DEF ExecAnswers
<1> DEFINE m1 == Apply(mem, RecordAction(id, a.Success))
           m2 == Apply(m1, MarkCompleted(id))
           n == Len(mem.Deltas)
<1>2. id \in StepIDs /\ a.Success \in BOOLEAN
  BY ActionsTyped DEF Answer
<1>3. mem' = m2
  BY <1>1 DEF Apply2
<1> HIDE DEF id
<1>4. /\ IsMemory(m1) /\ Keeps(m1, mem, "Actions") /\ Logs(mem, m1, RecordAction(id, a.Success))
      /\ m1.Actions = [mem.Actions EXCEPT ![id] = {a.Success}]
  BY <1>2, RecordActionDelta
<1> HIDE DEF m1
<1>5. /\ IsMemory(m2) /\ Keeps(m2, m1, "CompletedSteps") /\ Logs(m1, m2, MarkCompleted(id))
      /\ m2.CompletedSteps = Append(m1.CompletedSteps, id)
  BY <1>2, <1>4, MarkCompletedDelta
<1> HIDE DEF m2
<1>6. /\ RecordAction(id, a.Success).Action = "record_action"
      /\ RecordAction(id, a.Success).Patch.step_id = id
      /\ MarkCompleted(id).Action = "mark_step_completed"
  BY DEF RecordAction, MarkCompleted
<1>7. /\ n \in Nat /\ Len(m2.Deltas) = n + 2
      /\ \A i \in 1..n : m2.Deltas[i] = mem.Deltas[i]
      /\ m2.Deltas[n + 1].Action = "record_action" /\ m2.Deltas[n + 1].Patch.step_id = id
      /\ m2.Deltas[n + 2].Action = "mark_step_completed"
  BY <1>4, <1>5, <1>6, TwoDeltas
<1>8. \A i \in (n + 1)..Len(m2.Deltas) : i \in {n + 1, n + 2}
  BY <1>7
<1>9. Grows({"record_action", "mark_step_completed"})
  <2>1. \A i \in (n + 1)..Len(m2.Deltas) :
           m2.Deltas[i].Action \in {"record_action", "mark_step_completed"}
    BY <1>7, <1>8
  <2>2. n < Len(m2.Deltas) /\ Len(m2.Deltas) \in Nat
    BY <1>7
  <2>3. Replayed(mem) => Replayed(m2)
    BY <1>4, <1>5 DEF Logs
  <2> QED
    BY <1>3, <1>5, <1>7, <2>1, <2>2, <2>3 DEF Grows
<1>10. /\ m2.RequiresHumanApproval = mem.RequiresHumanApproval
       /\ m2.Approvals = mem.Approvals /\ m2.Runbook = mem.Runbook
       /\ m2.CompletedSteps = Append(mem.CompletedSteps, id)
       /\ m2.Actions = [mem.Actions EXCEPT ![id] = {a.Success}]
  BY <1>4, <1>5 DEF Keeps
<1> QED
  BY <1>1, <1>3, <1>7, <1>9, <1>10 DEF id

(* An error is recorded. *)
LEMMA ExecErrorMemory ==
    ASSUME IsMemory(mem), ExecError, idx \in 1..Len(Actions)
    PROVE  /\ Grows({"record_action"}) /\ Keeps(mem', mem, "Actions")
           /\ Len(mem'.Deltas) = Len(mem.Deltas) + 1
           /\ mem'.Deltas[Len(mem.Deltas) + 1].Patch.step_id = Actions[idx].ID
           /\ mem'.Actions = [mem.Actions EXCEPT ![Actions[idx].ID] = {FALSE}]
<1> DEFINE id == Actions[idx].ID
<1>1. mem' = Apply(mem, RecordAction(id, FALSE)) /\ id \in StepIDs
  BY ActionsTyped DEF ExecError
<1> HIDE DEF id
<1>2. RecordAction(id, FALSE).Action = "record_action" /\ RecordAction(id, FALSE).Patch.step_id = id
  BY DEF RecordAction
<1>3. /\ IsMemory(mem') /\ Keeps(mem', mem, "Actions") /\ Logs(mem, mem', RecordAction(id, FALSE))
      /\ mem'.Actions = [mem.Actions EXCEPT ![id] = {FALSE}]
  BY <1>1, RecordActionDelta
<1>4. Grows({"record_action"})
  BY <1>2, <1>3, OneDelta
<1> QED
  BY <1>2, <1>3, <1>4 DEF Logs, id

-----------------------------------------------------------------------------
(* The invariants. *)

(* Where the function is, and what it has of the runbook. *)
PlaceInv ==
    /\ IsMemory(mem)
    /\ pc \in {"rule", "runbook"} => idx = 0 /\ mem.Runbook.Actions = <<>>
    /\ pc = "rule" => mem.Deltas = <<>>
    /\ mem.Runbook \in Runbooks \/ mem.Runbook.Actions = <<>>
    /\ pc \in {"diag", "obs", "act", "approval", "exec"} => mem.Runbook \in Runbooks
    /\ pc \in {"rule", "runbook", "diag", "obs"} => OwnIssued = {}

Decided(id, b) ==
    \E k \in DOMAIN mem.Approvals : mem.Approvals[k] = [StepID |-> id, Approved |-> b]

(* A step at work that needs an approval has it. *)
ApprovalInv ==
    pc = "exec" /\ NeedsApproval(Actions[idx]) => Decided(Actions[idx].ID, TRUE)

(* A run that goes on, or has sent a request, has passed its gates. *)
GateInv ==
    /\ pc \in {"rule", "runbook"} => observed = {}
    /\ pc \in {"diag", "obs", "act", "approval", "exec"} \/ OwnIssued # {} =>
          \A o \in observed : evalDiagnosticGate(o.step, o.out)

(* The actions so far have a record or were rejected. *)
Accounted(i) == mem.Actions[Actions[i].ID] # {} \/ Decided(Actions[i].ID, FALSE)

RecordInv ==
    /\ pc = "act" => \A i \in 1..idx : Accounted(i)
    /\ pc \in {"approval", "exec"} => \A i \in 1..(idx - 1) : Accounted(i)

(* A success in memory is one that the exec agent answered. *)
AnswerInv ==
    /\ \A a \in answers : a.req \in issued
    /\ \A id \in StepIDs : TRUE \in mem.Actions[id] =>
          \E a \in answers : a.ok /\ a.Success /\ a.req \in OwnRequests /\ a.req.key = id

(* The log shows the approval of the step at work after the last move. *)
ApprovalLogged(id) ==
    \E i \in 1..Len(mem.Deltas) :
        /\ mem.Deltas[i].Action = "append_approval"
        /\ mem.Deltas[i].Patch = [StepID |-> id, Approved |-> TRUE]
        /\ \A k \in i..Len(mem.Deltas) : mem.Deltas[k].Action # "set_cursor"

AuditInv ==
    pc = "exec" /\ mem.RequiresHumanApproval => ApprovalLogged(Actions[idx].ID)

(* The new memory has the types of RunTypeOK. *)
LEMMA MemoryTyped ==
    ASSUME IsMemory(mem)
    PROVE  /\ mem.RequiresHumanApproval \in BOOLEAN
           /\ mem.Approvals \in Seq(ApprovalSignal)
           /\ mem.Runbook \in Runbook
           /\ mem.Diagnostics \in [StepIDs -> SUBSET ObservabilityOutput]
           /\ mem.Actions \in [StepIDs -> SUBSET BOOLEAN]
           /\ mem.CompletedSteps \in Seq(StepIDs)
           /\ mem.Failed \in BOOLEAN
           /\ mem.Versions \in [Buckets -> Nat]
BY DEF IsMemory

(* What RunTypeOK says of the rest. *)
LoopType ==
    /\ pc \in PC
    /\ idx \in Nat
    /\ pc \in {"diag", "obs"} => idx <= Len(Diagnostics)
    /\ pc \in {"act", "approval", "exec"} => idx <= Len(Actions)
    /\ pc \in {"obs", "approval", "exec"} => idx > 0
    /\ attempt \in 0..MaximumAttempts
    /\ signals \in Seq(Signal)
    /\ nsignals \in 0..MaxSignals
    /\ result \in [Failed : BOOLEAN, Actions : [StepIDs -> SUBSET BOOLEAN]]
    /\ observed \subseteq [step : Diagnostic, out : ObservabilityOutput]

(* Both together are RunTypeOK and more. *)
LEMMA TypeParts == PlaceInv /\ LoopType => RunTypeOK
<1> SUFFICES ASSUME PlaceInv, LoopType PROVE RunTypeOK
  OBVIOUS
<1>1. IsMemory(mem)
  BY DEF PlaceInv
<1> QED
  BY <1>1, MemoryTyped DEF LoopType, RunTypeOK

(* The start. *)
LEMMA TypeInit == Init => PlaceInv /\ LoopType
<1> SUFFICES ASSUME RunInit, ExecInit PROVE PlaceInv /\ LoopType
  BY DEF Init
<1> USE RunbookAssumption
<1>1. mem.Deltas = <<>> /\ mem.Runbook.Actions = <<>> /\ mem.Runbook.Diagnostics = <<>>
  BY DEF RunInit, NewRunbookMemory
<1>2. IsList(mem.Deltas)
  BY <1>1 DEF IsList
<1>3. mem.Runbook \in Runbook
  BY <1>1 DEF RunInit, NewRunbookMemory, Runbook
<1>4. IsMemory(mem)
  <2>1. /\ mem.Approvals \in Seq(ApprovalSignal) /\ mem.CompletedSteps \in Seq(StepIDs)
        /\ mem.Diagnostics \in [StepIDs -> SUBSET ObservabilityOutput]
        /\ mem.Actions \in [StepIDs -> SUBSET BOOLEAN]
        /\ mem.Versions \in [Buckets -> Nat]
    BY DEF RunInit, NewRunbookMemory
  <2> QED
    BY <1>2, <1>3, <2>1 DEF RunInit, NewRunbookMemory, IsMemory
<1>5. OwnIssued = {}
  BY DEF ExecInit, OwnIssued
<1>6. PlaceInv
  BY <1>1, <1>4, <1>5 DEF PlaceInv, RunInit
<1>7. NoActions \in [StepIDs -> SUBSET BOOLEAN]
  BY DEF NoActions
<1>8. LoopType
  BY <1>7 DEF LoopType, RunInit, PC
<1> QED
  BY <1>6, <1>8

(* Requests of other tasks are not of this run. *)
LEMMA OtherRequests ==
    ASSUME (Agent \/ OtherTask) /\ UNCHANGED <<runVars, signals, nsignals, observed>>
    PROVE  OwnIssued' = OwnIssued /\ issued \subseteq issued' /\ answers \subseteq answers'
<1>1. CASE Agent
  <2>1. issued' = issued /\ answers \subseteq answers'
    BY <1>1 DEF Agent, HandleUnknown, GetNoop, Get, Update, Conflict, Answered
  <2> QED
    BY <2>1 DEF OwnIssued
<1>2. CASE OtherTask
  <2>1. PICK q \in Requests \ OwnRequests : issued' = issued \cup {q} /\ answers' = answers
    BY <1>2 DEF OtherTask, Submit
  <2> QED
    BY <2>1 DEF OwnIssued
<1> QED
  BY <1>1, <1>2

(* No step of the run, its agents or others breaks them. *)
LEMMA TypeNext ==
    PlaceInv /\ LoopType /\ ExecTypeOK /\ [Next]_vars => PlaceInv' /\ LoopType'
<1> SUFFICES ASSUME PlaceInv, LoopType, ExecTypeOK, [Next]_vars
             PROVE  PlaceInv' /\ LoopType'
  OBVIOUS
<1> USE RunbookAssumption DEF PC
<1>m. IsMemory(mem)
  BY DEF PlaceInv
<1>o. UNCHANGED execVars => OwnIssued' = OwnIssued
  BY DEF execVars, OwnIssued
<1>1. ASSUME NEW requires \in BOOLEAN, RuleAgentAnswers(requires)
      PROVE  PlaceInv' /\ LoopType'
  <2>1. IsMemory(mem') /\ Keeps(mem', mem, "RequiresHumanApproval")
    BY <1>m, <1>1, RuleMemory DEF Grows
  <2> QED
    BY <1>o, <1>1, <2>1 DEF RuleAgentAnswers, PlaceInv, LoopType, Keeps
<1>2. ASSUME NEW rb \in Runbooks, RunbookAgentAnswers(rb)
      PROVE  PlaceInv' /\ LoopType'
  <2>1. IsMemory(mem') /\ mem'.Runbook = rb
    BY <1>m, <1>2, ChosenMemory DEF Grows
  <2>2. idx' = 0 /\ pc' = "diag"
    BY <1>2 DEF RunbookAgentAnswers, PlaceInv
  <2>3. Len(Diagnostics') \in Nat
    <3>1. rb.Diagnostics \in Seq(Diagnostic)
      BY DEF Runbook
    <3> QED
      BY <2>1, <3>1 DEF Diagnostics
  <2>4. PlaceInv'
    BY <1>o, <1>2, <2>1, <2>2 DEF RunbookAgentAnswers, PlaceInv
  <2> QED
    BY <1>2, <2>2, <2>3, <2>4 DEF RunbookAgentAnswers, LoopType
<1>3. CASE AgentError
  <2>1. IsMemory(mem') /\ Keeps(mem', mem, "Failed")
    BY <1>m, <1>3, ErrorMemory DEF Grows
  <2>2. PlaceInv'
    BY <1>o, <1>3, <2>1 DEF AgentError, PlaceInv, Keeps
  <2> QED
    BY <1>3, <2>2 DEF AgentError, LoopType
<1>4. CASE BeginDiagnostic
  <2>1. IsMemory(mem') /\ mem'.Runbook = mem.Runbook
    BY <1>m, <1>4, CursorMemory DEF Grows, Keeps
  <2>2. PlaceInv'
    BY <1>o, <1>4, <2>1 DEF BeginDiagnostic, PlaceInv
  <2>3. Len(Diagnostics) \in Nat /\ Diagnostics' = Diagnostics
    BY <1>m, <2>1, DiagnosticsTyped DEF Diagnostics
  <2> QED
    BY <1>4, <2>2, <2>3 DEF BeginDiagnostic, LoopType
<1>5. CASE DiagnosticsDone
  <2>1. PlaceInv'
    BY <1>o, <1>m, <1>5 DEF DiagnosticsDone, PlaceInv
  <2>2. Len(Actions) \in Nat /\ Actions' = Actions
    BY <1>m, <1>5, ActionsTyped DEF Actions, DiagnosticsDone
  <2> QED
    BY <1>5, <2>1, <2>2 DEF DiagnosticsDone, LoopType
<1>6. ASSUME NEW out \in Observations, DiagnosticAnswers(out)
      PROVE  PlaceInv' /\ LoopType'
  <2>1. idx \in 1..Len(Diagnostics) /\ out \in ObservabilityOutput
    BY <1>m, <1>6, DiagnosticsTyped DEF DiagnosticAnswers, LoopType
  <2>2. IsMemory(mem') /\ mem'.Runbook = mem.Runbook
    BY <1>m, <1>6, <2>1, DiagnosticMemory DEF Grows
  <2>3. PlaceInv'
    BY <1>o, <1>6, <2>2 DEF DiagnosticAnswers, PlaceInv
  <2>4. Diagnostics[idx] \in Diagnostic
    BY <1>m, <2>1, DiagnosticsTyped
  <2>5. observed' \subseteq [step : Diagnostic, out : ObservabilityOutput]
    BY <1>6, <2>1, <2>4 DEF DiagnosticAnswers, LoopType
  <2>6. Diagnostics' = Diagnostics
    BY <2>2 DEF Diagnostics
  <2>7. idx' = idx /\ attempt' = attempt /\ signals' = signals /\ nsignals' = nsignals
        /\ pc' \in {"diag", "closed"}
        /\ result' \in [Failed : BOOLEAN, Actions : [StepIDs -> SUBSET BOOLEAN]]
    BY <1>6 DEF DiagnosticAnswers, LoopType
  <2> QED
    BY <2>1, <2>3, <2>5, <2>6, <2>7 DEF LoopType
<1>7. CASE DiagnosticError
  <2>1. PlaceInv'
    BY <1>o, <1>m, <1>7 DEF DiagnosticError, PlaceInv
  <2>2. Diagnostics' = Diagnostics
    BY <1>7 DEF Diagnostics, DiagnosticError
  <2> QED
    BY <1>7, <2>1, <2>2 DEF DiagnosticError, LoopType
<1>8. CASE BeginAction
  <2>1. IsMemory(mem') /\ mem'.Runbook = mem.Runbook
    BY <1>m, <1>8, CursorMemory DEF Grows, Keeps
  <2>2. PlaceInv'
    BY <1>o, <1>8, <2>1 DEF BeginAction, PlaceInv
  <2>3. Len(Actions) \in Nat /\ Actions' = Actions
    BY <1>m, <2>1, ActionsTyped DEF Actions
  <2> QED
    BY <1>8, <2>2, <2>3 DEF BeginAction, LoopType
<1>9. CASE ReceiveOther
  <2>1. PlaceInv'
    BY <1>o, <1>m, <1>9 DEF ReceiveOther, PlaceInv, runVars
  <2>2. Actions' = Actions
    BY <1>9 DEF Actions, ReceiveOther, runVars
  <2> QED
    BY <1>9, <2>1, <2>2 DEF ReceiveOther, LoopType, runVars
<1>10. CASE ReceiveApproval \/ ReceiveRejection
  <2>1. idx \in 1..Len(Actions) /\ signals \in Seq(Signal) /\ signals # <<>>
    BY <1>m, <1>10, ActionsTyped DEF ReceiveApproval, ReceiveRejection, LoopType
  <2>2. IsMemory(mem') /\ mem'.Runbook = mem.Runbook
    BY <1>m, <1>10, <2>1, SignalMemory DEF Grows, Keeps
  <2>3. PlaceInv'
    BY <1>o, <1>10, <2>2 DEF ReceiveApproval, ReceiveRejection, PlaceInv
  <2>4. Actions' = Actions
    BY <2>2 DEF Actions
  <2>5. signals' = Tail(signals)
    BY <1>10 DEF ReceiveApproval, ReceiveRejection
  <2>6. signals' \in Seq(Signal)
    BY <2>1, <2>5, HeadTailProperties
  <2> QED
    BY <1>10, <2>3, <2>4, <2>6 DEF ReceiveApproval, ReceiveRejection, LoopType
<1>11. CASE CallExec
  <2>1. mem' = mem /\ idx' = idx /\ pc' = pc /\ pc = "exec"
    BY <1>11 DEF CallExec
  <2>2. PlaceInv'
    BY <1>m, <2>1 DEF PlaceInv
  <2>3. Actions' = Actions
    BY <2>1 DEF Actions
  <2> QED
    BY <1>11, <2>2, <2>3 DEF CallExec, LoopType
<1>12. CASE ExecAnswers
  <2>1. idx \in 1..Len(Actions)
    BY <1>m, <1>12, ActionsTyped DEF ExecAnswers, LoopType
  <2>2. IsMemory(mem') /\ mem'.Runbook = mem.Runbook
    BY <1>m, <1>12, <2>1, AnswerMemory DEF Grows, ExecTypeOK
  <2>3. PlaceInv'
    BY <1>o, <1>12, <2>2 DEF ExecAnswers, PlaceInv
  <2>4. Actions' = Actions
    BY <2>2 DEF Actions
  <2> QED
    BY <1>12, <2>3, <2>4 DEF ExecAnswers, LoopType
<1>13. CASE ExecError
  <2>1. idx \in 1..Len(Actions)
    BY <1>m, <1>13, ActionsTyped DEF ExecError, LoopType
  <2>2. IsMemory(mem') /\ mem'.Runbook = mem.Runbook
    BY <1>m, <1>13, <2>1, ExecErrorMemory DEF Grows, Keeps
  <2>3. PlaceInv'
    BY <1>o, <1>13, <2>2 DEF ExecError, PlaceInv
  <2>4. Actions' = Actions
    BY <2>2 DEF Actions
  <2> QED
    BY <1>13, <2>3, <2>4 DEF ExecError, LoopType
<1>14. CASE Close
  <2>1. PlaceInv'
    BY <1>o, <1>m, <1>14 DEF Close, PlaceInv
  <2>2. mem.Actions \in [StepIDs -> SUBSET BOOLEAN]
    BY <1>m, MemoryTyped
  <2> QED
    BY <1>14, <2>1, <2>2 DEF Close, LoopType
<1>15. ASSUME NEW s \in Signals, SendSignal(s) PROVE PlaceInv' /\ LoopType'
  <2>1. mem' = mem /\ idx' = idx /\ pc' = pc /\ attempt' = attempt /\ result' = result
    BY <1>15 DEF SendSignal, runVars
  <2>2. PlaceInv'
    BY <1>o, <1>m, <1>15, <2>1 DEF PlaceInv, SendSignal
  <2>3. signals' \in Seq(Signal) /\ nsignals' \in 0..MaxSignals
    BY <1>15 DEF SendSignal, LoopType
  <2>4. Actions' = Actions /\ Diagnostics' = Diagnostics
    BY <2>1 DEF Actions, Diagnostics
  <2> QED
    BY <1>15, <2>1, <2>2, <2>3, <2>4 DEF SendSignal, LoopType
<1>16. CASE (Agent \/ OtherTask) /\ UNCHANGED <<runVars, signals, nsignals, observed>>
  <2>1. OwnIssued' = OwnIssued
    BY <1>16, OtherRequests
  <2>2. PlaceInv'
    BY <1>m, <1>16, <2>1 DEF PlaceInv, runVars
  <2>3. Actions' = Actions /\ Diagnostics' = Diagnostics
    BY <1>16 DEF Actions, Diagnostics, runVars
  <2> QED
    BY <1>16, <2>2, <2>3 DEF LoopType, runVars
<1>17. CASE UNCHANGED vars
  <2>1. PlaceInv'
    BY <1>o, <1>m, <1>17 DEF PlaceInv, vars, runVars
  <2>2. Actions' = Actions /\ Diagnostics' = Diagnostics
    BY <1>17 DEF Actions, Diagnostics, vars, runVars
  <2> QED
    BY <1>17, <2>1, <2>2 DEF LoopType, vars, runVars
<1> QED
  BY <1>1, <1>2, <1>3, <1>4, <1>5, <1>6, <1>7, <1>8, <1>9, <1>10, <1>11, <1>12, <1>13,
     <1>14, <1>15, <1>16, <1>17 DEF Next, Workflow

-----------------------------------------------------------------------------
(* The run as a client of the exec agent. *)

(* An action of the runbook and an attempt make a request of the run. *)
LEMMA OwnRequest ==
    PlaceInv => \A i \in 1..Len(Actions), n \in 1..MaximumAttempts :
        /\ mem.Runbook \in Runbooks
        /\ ExecRequest(mem.Runbook, i, n) \in OwnRequests
        /\ ExecRequest(mem.Runbook, i, n).key = Actions[i].ID
<1> SUFFICES ASSUME PlaceInv, NEW i \in 1..Len(Actions), NEW n \in 1..MaximumAttempts
             PROVE  /\ mem.Runbook \in Runbooks
                    /\ ExecRequest(mem.Runbook, i, n) \in OwnRequests
                    /\ ExecRequest(mem.Runbook, i, n).key = Actions[i].ID
  OBVIOUS
<1>1. mem.Runbook \in Runbooks
  <2>1. Len(<<>>) = 0
    OBVIOUS
  <2>2. Actions # <<>>
    BY <2>1
  <2> QED
    BY <2>2 DEF PlaceInv, Actions
<1>2. i \in DOMAIN mem.Runbook.Actions
  BY ActionsTyped DEF PlaceInv, Actions
<1>3. ExecRequest(mem.Runbook, i, n) \in OwnRequests
  BY <1>1, <1>2 DEF OwnRequests
<1> QED
  BY <1>1, <1>3 DEF ExecRequest, Actions

(* The request that CallExec sends next is one of the run. *)
LEMMA NextRequest ==
    PlaceInv /\ LoopType /\ CallExec =>
        /\ idx \in 1..Len(Actions) /\ attempt + 1 \in 1..MaximumAttempts
        /\ ExecRequest(mem.Runbook, idx, attempt + 1) \in OwnRequests
<1> SUFFICES ASSUME PlaceInv, LoopType, CallExec
             PROVE  /\ idx \in 1..Len(Actions) /\ attempt + 1 \in 1..MaximumAttempts
                    /\ ExecRequest(mem.Runbook, idx, attempt + 1) \in OwnRequests
  OBVIOUS
<1>1. Len(Actions) \in Nat
  BY ActionsTyped DEF PlaceInv
<1>2. idx \in 1..Len(Actions) /\ attempt + 1 \in 1..MaximumAttempts
  BY <1>1, RunbookAssumption DEF LoopType, CallExec
<1> QED
  BY <1>2, OwnRequest

(* Each step of the run is a step of the agent's clients, of the agent, or *)
(* none that the agent sees.                                               *)
LEMMA AgentStep == PlaceInv /\ LoopType /\ [Next]_vars => [ExecNext]_execVars
<1> SUFFICES ASSUME PlaceInv, LoopType, [Next]_vars PROVE [ExecNext]_execVars
  OBVIOUS
<1>1. CASE CallExec
  <2>1. ExecRequest(mem.Runbook, idx, attempt + 1) \in Requests
    BY <1>1, NextRequest, RunbookAssumption
  <2> QED
    BY <1>1, <2>1 DEF CallExec, ExecNext
<1>2. CASE Agent \/ OtherTask
  BY <1>2 DEF OtherTask, ExecNext
<1>3. CASE UNCHANGED execVars
  BY <1>3
<1>4. CallExec \/ Agent \/ OtherTask \/ UNCHANGED execVars
  BY DEF Next, Workflow, RuleAgentAnswers, RunbookAgentAnswers, BeginDiagnostic,
     DiagnosticsDone, DiagnosticAnswers, BeginAction, ReceiveOther, ReceiveApproval,
     ReceiveRejection, ExecAnswers, ExecError, Close, AgentError, DiagnosticError,
     SendSignal, vars
<1> QED
  BY <1>1, <1>2, <1>3, <1>4

(* The invariant that the others build on. *)
Base == PlaceInv /\ LoopType /\ ExecInv

(* It holds throughout. *)
LEMMA BaseInductive == Spec => []Base
<1>1. Init => Base
  BY TypeInit, InitInv DEF Base, Init
<1>2. Base /\ [Next]_vars => Base'
  <2> SUFFICES ASSUME Base, [Next]_vars PROVE Base'
    OBVIOUS
  <2>1. PlaceInv /\ LoopType /\ ExecInv /\ ExecTypeOK
    BY DEF Base, ExecInv
  <2>2. PlaceInv' /\ LoopType'
    BY <2>1, TypeNext
  <2>3. ExecInv'
    BY <2>1, AgentStep, StepInv
  <2> QED
    BY <2>2, <2>3 DEF Base
<1> QED
  BY <1>1, <1>2, PTL DEF Spec

(* The runbook run, other tasks included, uses the exec agent as its own   *)
(* specification says: what is proved of ExecAgent holds in every run.     *)
THEOREM AgentIsUsedAsSpecified == Spec => ExecSpec
<1>1. Init => ExecInit
  BY DEF Init
<1>2. Base /\ [Next]_vars => [ExecNext]_execVars
  BY AgentStep DEF Base
<1> QED
  BY <1>1, <1>2, BaseInductive, PTL DEF Spec, ExecSpec

(* The run's variables keep their types, and the loop index stays within   *)
(* the runbook's diagnostics or actions while a loop is at work.           *)
THEOREM RunTypeCorrect == Spec => []RunTypeOK
<1>1. Base => RunTypeOK
  BY TypeParts DEF Base
<1> QED
  BY <1>1, BaseInductive, PTL

-----------------------------------------------------------------------------
(* What a step keeps. *)

EarlyPC == {"rule", "runbook"}

(* Before the runbook is known, nothing is sent, observed or recorded. *)
LEMMA EarlyStep ==
    Base /\ [Next]_vars /\ pc \in EarlyPC =>
        /\ OwnIssued' = {}
        /\ mem'.Approvals = mem.Approvals /\ mem'.Actions = mem.Actions
        /\ mem'.CompletedSteps = mem.CompletedSteps
        /\ observed' = observed /\ answers \subseteq answers' /\ idx' = 0
        /\ pc' \in {"rule", "runbook", "diag", "closed"}
        /\ pc' = "closed" => result'.Failed
<1> SUFFICES ASSUME Base, [Next]_vars, pc \in EarlyPC
             PROVE  /\ OwnIssued' = {}
                    /\ mem'.Approvals = mem.Approvals /\ mem'.Actions = mem.Actions
                    /\ mem'.CompletedSteps = mem.CompletedSteps
                    /\ observed' = observed /\ answers \subseteq answers' /\ idx' = 0
                    /\ pc' \in {"rule", "runbook", "diag", "closed"}
                    /\ pc' = "closed" => result'.Failed
  OBVIOUS
<1>m. IsMemory(mem) /\ OwnIssued = {} /\ idx = 0 /\ pc # "closed"
  BY DEF Base, PlaceInv, EarlyPC
<1>o. UNCHANGED execVars => OwnIssued' = {} /\ answers' = answers
  BY <1>m DEF execVars, OwnIssued
<1>1. ASSUME NEW requires \in BOOLEAN, RuleAgentAnswers(requires)
      PROVE  /\ Keeps(mem', mem, "RequiresHumanApproval") /\ UNCHANGED execVars
             /\ observed' = observed /\ idx' = idx /\ pc' = "runbook"
  BY <1>m, <1>1, RuleMemory DEF RuleAgentAnswers
<1>2. ASSUME NEW rb \in Runbooks, RunbookAgentAnswers(rb)
      PROVE  /\ Keeps(mem', mem, "Runbook") /\ UNCHANGED execVars
             /\ observed' = observed /\ idx' = idx /\ pc' = "diag"
  BY <1>m, <1>2, ChosenMemory DEF RunbookAgentAnswers
<1>3. CASE AgentError
  <2>1. Keeps(mem', mem, "Failed")
    BY <1>m, <1>3, ErrorMemory
  <2>2. result' = [result EXCEPT !.Failed = TRUE] /\ result.Failed \in BOOLEAN
    BY <1>3 DEF AgentError, Base, LoopType
  <2>3. result'.Failed
    BY <2>2 DEF Base, LoopType
  <2> QED
    BY <1>m, <1>o, <1>3, <2>1, <2>3 DEF AgentError, Keeps
<1>4. ASSUME NEW s \in Signals, SendSignal(s)
      PROVE  mem' = mem /\ UNCHANGED execVars /\ observed' = observed /\ idx' = idx /\ pc' = pc
  BY <1>4 DEF SendSignal, runVars
<1>5. CASE (Agent \/ OtherTask) /\ UNCHANGED <<runVars, signals, nsignals, observed>>
  <2>1. OwnIssued' = {} /\ answers \subseteq answers'
    BY <1>m, <1>5, OtherRequests
  <2> QED
    BY <1>m, <1>5, <2>1 DEF runVars, EarlyPC
<1>6. CASE UNCHANGED vars
  BY <1>m, <1>o, <1>6 DEF vars, runVars, EarlyPC
<1>7. \/ \E requires \in BOOLEAN : RuleAgentAnswers(requires)
      \/ \E rb \in Runbooks : RunbookAgentAnswers(rb)
      \/ AgentError \/ \E s \in Signals : SendSignal(s)
      \/ (Agent \/ OtherTask) /\ UNCHANGED <<runVars, signals, nsignals, observed>>
      \/ UNCHANGED vars
  BY DEF Next, Workflow, EarlyPC, BeginDiagnostic, DiagnosticsDone, DiagnosticAnswers,
     BeginAction, ReceiveOther, ReceiveApproval, ReceiveRejection, CallExec, ExecAnswers,
     ExecError, Close, DiagnosticError
<1> QED
  BY <1>m, <1>o, <1>1, <1>2, <1>3, <1>4, <1>5, <1>6, <1>7 DEF Keeps, EarlyPC

(* Later steps, other than those that change the memory. *)
OtherStep ==
    /\ mem' = mem
    /\ OwnIssued' = OwnIssued \/ CallExec
    /\ answers \subseteq answers'
    /\ observed' = observed

(* Once the runbook is known, a step is one of these. *)
LEMMA LaterStep ==
    Base /\ [Next]_vars /\ pc \notin EarlyPC =>
        \/ BeginDiagnostic \/ BeginAction
        \/ \E out \in Observations : DiagnosticAnswers(out)
        \/ ReceiveApproval \/ ReceiveRejection \/ ExecAnswers \/ ExecError
        \/ OtherStep
<1> SUFFICES ASSUME [Next]_vars, pc \notin EarlyPC
             PROVE  \/ BeginDiagnostic \/ BeginAction
                    \/ \E out \in Observations : DiagnosticAnswers(out)
                    \/ ReceiveApproval \/ ReceiveRejection \/ ExecAnswers \/ ExecError
                    \/ OtherStep
  OBVIOUS
<1>o. UNCHANGED execVars => OwnIssued' = OwnIssued /\ answers' = answers
  BY DEF execVars, OwnIssued
<1>1. CASE DiagnosticError \/ DiagnosticsDone \/ ReceiveOther \/ Close
  BY <1>o, <1>1 DEF DiagnosticError, DiagnosticsDone, ReceiveOther, Close, OtherStep, runVars
<1>2. CASE CallExec
  BY <1>2 DEF CallExec, Submit, OtherStep
<1>3. CASE \E s \in Signals : SendSignal(s)
  BY <1>o, <1>3 DEF SendSignal, OtherStep, runVars
<1>4. CASE (Agent \/ OtherTask) /\ UNCHANGED <<runVars, signals, nsignals, observed>>
  BY <1>4, OtherRequests DEF OtherStep, runVars
<1>5. CASE UNCHANGED vars
  BY <1>o, <1>5 DEF vars, runVars, OtherStep
<1> QED
  BY <1>1, <1>2, <1>3, <1>4, <1>5
  DEF Next, Workflow, EarlyPC, RuleAgentAnswers, RunbookAgentAnswers, AgentError

(* A new approval decides its step and leaves the earlier decisions. *)
LEMMA NewDecision ==
    ASSUME mem.Approvals \in Seq(ApprovalSignal), NEW sig \in ApprovalSignal,
           mem'.Approvals = Append(mem.Approvals, sig)
    PROVE  /\ \A id, b : Decided(id, b) => Decided(id, b)'
           /\ \A id, b : sig = [StepID |-> id, Approved |-> b] => Decided(id, b)'
<1>1. /\ DOMAIN mem.Approvals = 1..Len(mem.Approvals) /\ Len(mem.Approvals) \in Nat
      /\ DOMAIN mem'.Approvals = 1..(Len(mem.Approvals) + 1)
      /\ \A k \in 1..Len(mem.Approvals) : mem'.Approvals[k] = mem.Approvals[k]
      /\ mem'.Approvals[Len(mem.Approvals) + 1] = sig
  BY AppendVersion
<1>2. \A k \in DOMAIN mem.Approvals :
          k \in DOMAIN mem'.Approvals /\ mem'.Approvals[k] = mem.Approvals[k]
  BY <1>1
<1>3. Len(mem.Approvals) + 1 \in DOMAIN mem'.Approvals
  BY <1>1
<1> QED
  BY <1>1, <1>2, <1>3 DEF Decided

(* Decisions and records are never taken back. *)
LEMMA Kept ==
    Base /\ [Next]_vars /\ pc \notin EarlyPC =>
        /\ mem'.RequiresHumanApproval = mem.RequiresHumanApproval
        /\ mem'.Runbook = mem.Runbook /\ Actions' = Actions
        /\ \A id, b : Decided(id, b) => Decided(id, b)'
        /\ \A id \in StepIDs : mem.Actions[id] # {} => mem'.Actions[id] # {}
        /\ OwnIssued' = OwnIssued \/ CallExec
        /\ answers \subseteq answers' /\ observed \subseteq observed'
<1> SUFFICES ASSUME Base, [Next]_vars, pc \notin EarlyPC
             PROVE  /\ mem'.RequiresHumanApproval = mem.RequiresHumanApproval
                    /\ mem'.Runbook = mem.Runbook
                    /\ \A id, b : Decided(id, b) => Decided(id, b)'
                    /\ \A id \in StepIDs : mem.Actions[id] # {} => mem'.Actions[id] # {}
                    /\ OwnIssued' = OwnIssued \/ CallExec
                    /\ answers \subseteq answers' /\ observed \subseteq observed'
  BY DEF Actions
<1> USE RunbookAssumption
<1>m. IsMemory(mem) /\ ExecTypeOK /\ LoopType
  BY DEF Base, PlaceInv, ExecInv
<1>n. Len(Actions) \in Nat /\ Len(Diagnostics) \in Nat
  BY <1>m, ActionsTyped, DiagnosticsTyped
<1>t. mem.Actions \in [StepIDs -> SUBSET BOOLEAN] /\ mem.Approvals \in Seq(ApprovalSignal)
  BY <1>m, MemoryTyped
<1>o. UNCHANGED execVars => OwnIssued' = OwnIssued /\ answers' = answers
  BY DEF execVars, OwnIssued
<1>1. CASE BeginDiagnostic \/ BeginAction
  <2>1. Keeps(mem', mem, "none")
    BY <1>m, <1>1, CursorMemory
  <2> QED
    BY <1>o, <1>1, <2>1 DEF BeginDiagnostic, BeginAction, Keeps, Decided
<1>2. ASSUME NEW out \in Observations, DiagnosticAnswers(out)
      PROVE  /\ mem'.RequiresHumanApproval = mem.RequiresHumanApproval
             /\ mem'.Approvals = mem.Approvals /\ mem'.Runbook = mem.Runbook
             /\ mem'.Actions = mem.Actions /\ UNCHANGED execVars
             /\ observed \subseteq observed'
  <2>1. idx \in 1..Len(Diagnostics) /\ UNCHANGED execVars /\ observed \subseteq observed'
    BY <1>m, <1>n, <1>2 DEF DiagnosticAnswers, LoopType
  <2> QED
    BY <1>m, <1>2, <2>1, DiagnosticMemory
<1>3. CASE ReceiveApproval \/ ReceiveRejection
  <2>1. idx \in 1..Len(Actions) /\ signals \in Seq(Signal)
    BY <1>m, <1>n, <1>3 DEF ReceiveApproval, ReceiveRejection, LoopType
  <2>2. /\ Head(signals) \in ApprovalSignal /\ Keeps(mem', mem, "Approvals")
        /\ mem'.Approvals = Append(mem.Approvals, Head(signals))
    BY <1>m, <1>3, <2>1, SignalMemory
  <2>3. \A id, b : Decided(id, b) => Decided(id, b)'
    BY <1>t, <2>2, NewDecision
  <2> QED
    BY <1>o, <1>3, <2>2, <2>3 DEF ReceiveApproval, ReceiveRejection, Keeps
<1>4. CASE ExecAnswers
  <2>1. idx \in 1..Len(Actions) /\ answers \subseteq Answer
    BY <1>m, <1>n, <1>4 DEF ExecAnswers, LoopType, ExecTypeOK
  <2>2. /\ mem'.RequiresHumanApproval = mem.RequiresHumanApproval
        /\ mem'.Approvals = mem.Approvals /\ mem'.Runbook = mem.Runbook
        /\ \E b : mem'.Actions = [mem.Actions EXCEPT ![Actions[idx].ID] = {b}]
    BY <1>m, <1>4, <2>1, AnswerMemory
  <2>3. \A id \in StepIDs : mem.Actions[id] # {} => mem'.Actions[id] # {}
    BY <1>t, <2>2
  <2> QED
    BY <1>o, <1>4, <2>2, <2>3 DEF ExecAnswers, Decided
<1>5. CASE ExecError
  <2>1. idx \in 1..Len(Actions)
    BY <1>m, <1>n, <1>5 DEF ExecError, LoopType
  <2>2. /\ Keeps(mem', mem, "Actions")
        /\ mem'.Actions = [mem.Actions EXCEPT ![Actions[idx].ID] = {FALSE}]
    BY <1>m, <1>5, <2>1, ExecErrorMemory
  <2>3. \A id \in StepIDs : mem.Actions[id] # {} => mem'.Actions[id] # {}
    BY <1>t, <2>2
  <2> QED
    BY <1>o, <1>5, <2>2, <2>3 DEF ExecError, Decided, Keeps
<1>6. CASE OtherStep
  BY <1>6 DEF OtherStep, Decided
<1>7. CASE \E out \in Observations : DiagnosticAnswers(out)
  BY <1>o, <1>2, <1>7 DEF Decided
<1> QED
  BY <1>1, <1>3, <1>4, <1>5, <1>6, <1>7, LaterStep

(* Where a later step leads: it stays, or it is one of those that move. *)
LEMMA Moves ==
    [Next]_vars /\ pc \notin EarlyPC =>
        \/ pc' = pc /\ idx' = idx /\ result' = result
        \/ BeginDiagnostic \/ DiagnosticsDone \/ DiagnosticError
        \/ \E out \in Observations : DiagnosticAnswers(out)
        \/ BeginAction \/ ReceiveApproval \/ ReceiveRejection
        \/ ExecAnswers \/ ExecError \/ Close
BY DEF Next, Workflow, EarlyPC, RuleAgentAnswers, RunbookAgentAnswers, AgentError,
   ReceiveOther, CallExec, SendSignal, runVars, vars

-----------------------------------------------------------------------------
(* Approvals. *)

(* Attempts of different actions have different numbers. *)
LEMMA AttemptsApart ==
    ASSUME NEW M \in Nat \ {0}, NEW i \in Nat, NEW j \in Nat, NEW n \in 1..M, NEW m \in 1..M,
           (i - 1) * M + n = (j - 1) * M + m
    PROVE  i = j
<1>1. ASSUME NEW a \in Nat, NEW b \in Nat, a < b PROVE (b - 1) * M >= (a - 1) * M + M
  <2>1. PICK c \in Nat : b = a + 1 + c
    <3>1. b - a - 1 \in Nat /\ b = a + 1 + (b - a - 1)
      BY <1>1
    <3> QED
      BY <3>1
  <2>2. (b - 1) * M = (a - 1) * M + M + c * M
    BY <2>1
  <2>3. c * M \in Nat /\ (a - 1) * M \in Int
    OBVIOUS
  <2> QED
    BY <2>2, <2>3
<1>2. (i - 1) * M \in Int /\ (j - 1) * M \in Int
  OBVIOUS
<1>3. ~(i < j)
  BY <1>1, <1>2
<1>4. ~(j < i)
  BY <1>1, <1>2
<1> QED
  BY <1>3, <1>4

(* ApprovalInv and ApprovedBeforeExec are kept together. *)
LEMMA ApprovalNext ==
    Base /\ Base' /\ ApprovalInv /\ ApprovedBeforeExec /\ [Next]_vars =>
        ApprovalInv' /\ ApprovedBeforeExec'
<1> SUFFICES ASSUME Base, Base', ApprovalInv, ApprovedBeforeExec, [Next]_vars
             PROVE  ApprovalInv' /\ ApprovedBeforeExec'
  OBVIOUS
<1>m. IsMemory(mem) /\ PlaceInv /\ LoopType /\ IsMemory(mem') /\ PlaceInv'
  BY DEF Base, PlaceInv
<1>d. DOMAIN Actions = 1..Len(Actions) /\ Len(Actions) \in Nat
  BY <1>m, ActionsTyped
<1>1. CASE pc \in EarlyPC
  <2>1. OwnIssued' = {} /\ pc' # "exec"
    BY <1>1, EarlyStep
  <2>2. \A i \in DOMAIN Actions', n \in 1..MaximumAttempts :
            ExecRequest(mem'.Runbook, i, n) \notin issued'
    <3> SUFFICES ASSUME NEW i \in DOMAIN Actions', NEW n \in 1..MaximumAttempts,
                        ExecRequest(mem'.Runbook, i, n) \in issued'
                 PROVE  FALSE
      OBVIOUS
    <3>1. mem'.Runbook \in Runbooks \/ mem'.Runbook.Actions = <<>>
      BY <1>m DEF PlaceInv
    <3>2. mem'.Runbook \in Runbooks /\ i \in DOMAIN mem'.Runbook.Actions
      <4>1. DOMAIN <<>> = {}
        OBVIOUS
      <4> QED
        BY <3>1, <4>1 DEF Actions
    <3>3. ExecRequest(mem'.Runbook, i, n) \in OwnRequests
      BY <3>2 DEF OwnRequests
    <3> QED
      BY <2>1, <3>3 DEF OwnIssued
  <2> QED
    BY <2>1, <2>2 DEF ApprovalInv, ApprovedBeforeExec
<1>2. CASE pc \notin EarlyPC
  <2>k. /\ mem'.RequiresHumanApproval = mem.RequiresHumanApproval
        /\ mem'.Runbook = mem.Runbook /\ Actions' = Actions
        /\ \A id, b : Decided(id, b) => Decided(id, b)'
        /\ OwnIssued' = OwnIssued \/ CallExec
    BY <1>2, Kept
  <2>1. ApprovalInv'
    <3>1. CASE pc' # "exec"
      BY <3>1 DEF ApprovalInv
    <3>2. CASE pc' = pc /\ idx' = idx /\ pc' = "exec"
      BY <2>k, <3>2 DEF ApprovalInv, NeedsApproval
    <3>3. CASE BeginAction /\ pc' = "exec"
      BY <2>k, <3>3 DEF ApprovalInv, BeginAction, NeedsApproval
    <3>4. CASE ReceiveApproval
      <4>1. idx \in 1..Len(Actions) /\ signals \in Seq(Signal) /\ signals # <<>>
        BY <1>m, <1>d, <3>4 DEF ReceiveApproval, LoopType
      <4>2. /\ Head(signals) \in ApprovalSignal
            /\ mem'.Approvals = Append(mem.Approvals, Head(signals))
        BY <1>m, <3>4, <4>1, SignalMemory
      <4>3. Head(signals) = [StepID |-> Actions[idx].ID, Approved |-> TRUE]
        BY <3>4, <4>2 DEF ReceiveApproval, ApprovalSignal
      <4>4. mem.Approvals \in Seq(ApprovalSignal)
        BY <1>m, MemoryTyped
      <4>5. Decided(Actions[idx].ID, TRUE)'
        <5>1. Actions[idx].ID = Actions'[idx'].ID
          BY <2>k, <3>4 DEF ReceiveApproval
        <5>2. \A id, b : Head(signals) = [StepID |-> id, Approved |-> b] => Decided(id, b)'
          BY <4>2, <4>4, NewDecision
        <5>3. \E k \in DOMAIN mem'.Approvals :
                  mem'.Approvals[k] = [StepID |-> Actions[idx].ID, Approved |-> TRUE]
          BY <4>3, <5>2 DEF Decided
        <5> QED
          BY <5>1, <5>3 DEF Decided
      <4> QED
        BY <4>5 DEF ApprovalInv
    <3> QED
      BY <1>2, <3>1, <3>2, <3>3, <3>4, Moves
      DEF BeginDiagnostic, DiagnosticsDone, DiagnosticError, DiagnosticAnswers,
          ReceiveRejection, ExecAnswers, ExecError, Close
  <2>2. ApprovedBeforeExec'
    <3> SUFFICES ASSUME NEW i \in 1..Len(Actions), NEW n \in 1..MaximumAttempts,
                        ExecRequest(mem.Runbook, i, n) \in issued',
                        NeedsApproval(Actions[i])
                 PROVE  Decided(Actions[i].ID, TRUE)'
      BY <1>d, <2>k DEF ApprovedBeforeExec, NeedsApproval, Decided
    <3>1. ExecRequest(mem.Runbook, i, n) \in OwnRequests
      BY <1>m, OwnRequest
    <3>2. CASE ExecRequest(mem.Runbook, i, n) \in issued
      <4>1. Decided(Actions[i].ID, TRUE)
        BY <1>d, <3>2 DEF ApprovedBeforeExec, NeedsApproval, Decided
      <4> QED
        BY <2>k, <4>1
    <3>3. CASE ExecRequest(mem.Runbook, i, n) \notin issued
      <4>1. CallExec
        BY <2>k, <3>1, <3>3 DEF OwnIssued
      <4>2. ExecRequest(mem.Runbook, i, n) = ExecRequest(mem.Runbook, idx, attempt + 1)
        BY <3>3, <4>1 DEF CallExec, Submit
      <4>3. (i - 1) * MaximumAttempts + n = (idx - 1) * MaximumAttempts + (attempt + 1)
        BY <4>2 DEF ExecRequest
      <4>4. idx \in 1..Len(Actions) /\ attempt + 1 \in 1..MaximumAttempts
        BY <1>m, <4>1, NextRequest
      <4>5. i \in Nat /\ idx \in Nat
        BY <1>d, <4>4
      <4>6. i = idx
        BY <4>3, <4>4, <4>5, AttemptsApart, RunbookAssumption
      <4>7. Decided(Actions[i].ID, TRUE)
        BY <4>1, <4>6 DEF ApprovalInv, CallExec
      <4> QED
        BY <2>k, <4>7
    <3> QED
      BY <3>2, <3>3
  <2> QED
    BY <2>1, <2>2
<1> QED
  BY <1>1, <1>2

(* No signal for another step, early, late or undecodable, makes the run   *)
(* execute an action that needs an approval of its own.                    *)
THEOREM NothingUnapproved == Spec => []ApprovedBeforeExec
<1>1. Init => ApprovalInv /\ ApprovedBeforeExec
  <2> SUFFICES ASSUME RunInit, issued = {} PROVE ApprovalInv /\ ApprovedBeforeExec
    BY DEF Init, ExecInit
  <2> QED
    BY DEF RunInit, ApprovalInv, ApprovedBeforeExec
<1> QED
  BY <1>1, ApprovalNext, BaseInductive, PTL DEF Spec

-----------------------------------------------------------------------------
(* Gates. *)

(* Only an observation that passes its gate lets the run go on. *)
LEMMA GateNext == Base /\ GateInv /\ [Next]_vars => GateInv'
<1> SUFFICES ASSUME Base, GateInv, [Next]_vars PROVE GateInv'
  OBVIOUS
<1>m. IsMemory(mem) /\ PlaceInv /\ LoopType
  BY DEF Base, PlaceInv
<1>1. CASE pc \in EarlyPC
  <2>1. OwnIssued' = {} /\ observed' = {}
    BY <1>1, EarlyStep DEF GateInv, EarlyPC
  <2> QED
    BY <2>1 DEF GateInv
<1>2. ASSUME pc \notin EarlyPC, NEW out \in Observations, DiagnosticAnswers(out)
      PROVE  GateInv'
  <2>1. /\ OwnIssued' = {}
        /\ \A o \in observed : evalDiagnosticGate(o.step, o.out)
    BY <1>m, <1>2 DEF DiagnosticAnswers, PlaceInv, GateInv, execVars, OwnIssued
  <2>2. \/ pc' = "closed"
        \/ pc' = "diag" /\ evalDiagnosticGate(Diagnostics[idx], out)
    BY <1>2 DEF DiagnosticAnswers
  <2>3. observed' = observed \cup {[step |-> Diagnostics[idx], out |-> out]}
    BY <1>2 DEF DiagnosticAnswers
  <2>4. CASE pc' = "closed"
    BY <2>1, <2>4 DEF GateInv
  <2>5. CASE pc' = "diag" /\ evalDiagnosticGate(Diagnostics[idx], out)
    BY <2>1, <2>3, <2>5 DEF GateInv
  <2> QED
    BY <2>2, <2>4, <2>5
<1>3. CASE pc \notin EarlyPC /\ ~\E out \in Observations : DiagnosticAnswers(out)
  <2>1. observed' = observed
    BY <1>3, LaterStep DEF OtherStep, BeginDiagnostic, BeginAction, ReceiveApproval,
       ReceiveRejection, ExecAnswers, ExecError
  <2>2. \/ OwnIssued' = OwnIssued
        \/ pc = "exec"
    BY <1>3, Kept DEF CallExec
  <2>3. pc' \in {"diag", "obs", "act", "approval", "exec"} =>
            pc \in {"diag", "obs", "act", "approval", "exec"}
    BY <1>3, Moves DEF BeginDiagnostic, DiagnosticsDone, DiagnosticError, BeginAction,
       ReceiveApproval, ReceiveRejection, ExecAnswers, ExecError, Close
  <2>4. pc' \notin EarlyPC
    BY <1>3, Moves DEF BeginDiagnostic, DiagnosticsDone, DiagnosticError, BeginAction,
       ReceiveApproval, ReceiveRejection, ExecAnswers, ExecError, Close, EarlyPC
  <2> QED
    BY <1>3, <2>1, <2>2, <2>3, <2>4 DEF GateInv, EarlyPC
<1> QED
  BY <1>1, <1>2, <1>3

(* A gate that failed on degraded data, a missing signal or threshold, or  *)
(* the comparison itself keeps the run from sending any request.           *)
THEOREM FailedGatesStopActions == Spec => []GateStopsActions
<1>1. Init => GateInv
  BY DEF Init, RunInit, ExecInit, GateInv, OwnIssued
<1>2. GateInv => GateStopsActions
  BY DEF GateInv, GateStopsActions, evalDiagnosticGate
<1> QED
  BY <1>1, <1>2, GateNext, BaseInductive, PTL DEF Spec

-----------------------------------------------------------------------------
(* Records. *)

(* The actions that the loop has passed stay accounted for. *)
LEMMA RecordNext ==
    Base /\ RecordInv /\ NoActionForgotten /\ [Next]_vars =>
        RecordInv' /\ NoActionForgotten'
<1> SUFFICES ASSUME Base, RecordInv, NoActionForgotten, [Next]_vars
             PROVE  RecordInv' /\ NoActionForgotten'
  OBVIOUS
<1> DEFINE Sum(i) == mem'.Actions[Actions[i].ID] # {} \/ Decided(Actions[i].ID, FALSE)'
<1>m. IsMemory(mem) /\ PlaceInv /\ LoopType /\ ExecTypeOK
  BY DEF Base, PlaceInv, ExecInv
<1>d. /\ DOMAIN Actions = 1..Len(Actions) /\ Len(Actions) \in Nat
      /\ \A i \in 1..Len(Actions) : Actions[i].ID \in StepIDs
  BY <1>m, ActionsTyped
<1>t. mem.Actions \in [StepIDs -> SUBSET BOOLEAN] /\ mem.Approvals \in Seq(ApprovalSignal)
  BY <1>m, MemoryTyped
<1>1. CASE pc \in EarlyPC
  BY <1>1, EarlyStep DEF RecordInv, NoActionForgotten
<1>2. CASE pc \notin EarlyPC
  <2>k. /\ Actions' = Actions
        /\ \A i \in 1..Len(Actions) : Accounted(i) => Sum(i)
    BY <1>2, <1>d, Kept DEF Accounted
  <2>a. \A i : Accounted(i)' <=> Sum(i)
    BY <2>k DEF Accounted, Decided
  <2> HIDE DEF Sum
  <2>1. CASE pc' = pc /\ idx' = idx /\ result' = result
    <3>1. RecordInv'
      <4>1. pc \in {"act", "approval", "exec"} => idx \in 0..Len(Actions)
        BY <1>m, <1>d DEF LoopType
      <4>2. pc = "act" => \A i \in 1..idx : Sum(i)
        BY <1>d, <2>k, <4>1 DEF RecordInv
      <4>3. pc \in {"approval", "exec"} => \A i \in 1..(idx - 1) : Sum(i)
        BY <1>d, <2>k, <4>1 DEF RecordInv
      <4> QED
        BY <2>1, <2>a, <4>2, <4>3 DEF RecordInv
    <3>2. NoActionForgotten'
      <4> SUFFICES ASSUME pc = "closed", ~result.Failed, NEW i \in 1..Len(Actions)
                   PROVE  \/ result.Actions[Actions[i].ID] # {}
                          \/ Decided(Actions[i].ID, FALSE)'
        BY <1>d, <2>1, <2>k DEF NoActionForgotten, Decided
      <4>1. result.Actions[Actions[i].ID] # {} \/ Decided(Actions[i].ID, FALSE)
        BY <1>d, <2>1 DEF NoActionForgotten, Decided
      <4> QED
        BY <1>2, <4>1, Kept
    <3> QED
      BY <3>1, <3>2
  <2>2. CASE \/ BeginDiagnostic \/ DiagnosticError
             \/ \E out \in Observations : DiagnosticAnswers(out)
    <3>1. pc' \notin {"act", "approval", "exec"}
      BY <2>2 DEF BeginDiagnostic, DiagnosticError, DiagnosticAnswers
    <3>2. pc' = "closed" => result' = [result EXCEPT !.Failed = TRUE]
      BY <2>2 DEF BeginDiagnostic, DiagnosticError, DiagnosticAnswers
    <3>3. pc' = "closed" => result'.Failed
      BY <1>m, <3>2 DEF LoopType
    <3> QED
      BY <3>1, <3>3 DEF RecordInv, NoActionForgotten
  <2>3. CASE DiagnosticsDone
    BY <2>3 DEF DiagnosticsDone, RecordInv, NoActionForgotten
  <2>4. CASE BeginAction
    <3>1. \A i \in 1..idx : Sum(i)
      BY <1>d, <1>m, <2>k, <2>4 DEF BeginAction, RecordInv, LoopType
    <3>2. idx' - 1 = idx /\ pc' \in {"approval", "exec"}
      BY <1>m, <2>4 DEF BeginAction, LoopType
    <3>3. \A i \in 1..(idx' - 1) : Sum(i)
      BY <3>1, <3>2
    <3> QED
      BY <2>a, <3>2, <3>3 DEF RecordInv, NoActionForgotten
  <2>5. CASE ReceiveApproval
    <3>0. pc = "approval"
      BY <2>5 DEF ReceiveApproval
    <3>p. idx \in 1..Len(Actions)
      BY <1>d, <1>m, <3>0 DEF LoopType
    <3>1. \A i \in 1..(idx - 1) : Sum(i)
      BY <1>d, <2>k, <3>0, <3>p DEF RecordInv
    <3> QED
      BY <2>5, <2>a, <3>1 DEF ReceiveApproval, RecordInv, NoActionForgotten
  <2>6. ASSUME pc \in {"approval", "exec"}, pc' = "act", idx' = idx, Sum(idx)
        PROVE  RecordInv' /\ NoActionForgotten'
    <3>1. \A i \in 1..(idx - 1) : Sum(i)
      BY <1>d, <1>m, <2>k, <2>6 DEF RecordInv, LoopType
    <3>2. \A i \in 1..idx : Sum(i)
      BY <1>m, <2>6, <3>1 DEF LoopType
    <3> QED
      BY <2>6, <2>a, <3>2 DEF RecordInv, NoActionForgotten
  <2>7. CASE ReceiveRejection
    <3>1. idx \in 1..Len(Actions) /\ signals \in Seq(Signal) /\ signals # <<>>
      BY <1>m, <1>d, <2>7 DEF ReceiveRejection, LoopType
    <3>2. /\ Head(signals) \in ApprovalSignal
          /\ mem'.Approvals = Append(mem.Approvals, Head(signals))
      BY <1>m, <2>7, <3>1, SignalMemory
    <3>3. Head(signals) = [StepID |-> Actions[idx].ID, Approved |-> FALSE]
      BY <2>7, <3>2 DEF ReceiveRejection, ApprovalSignal
    <3>4. Decided(Actions[idx].ID, FALSE)'
      <4>1. \A id, b : Head(signals) = [StepID |-> id, Approved |-> b] => Decided(id, b)'
        BY <1>t, <3>2, NewDecision
      <4>2. \E k \in DOMAIN mem'.Approvals :
                mem'.Approvals[k] = [StepID |-> Actions[idx].ID, Approved |-> FALSE]
        BY <3>3, <4>1 DEF Decided
      <4>3. Actions[idx].ID = Actions'[idx'].ID
        BY <2>7, <2>k DEF ReceiveRejection
      <4> QED
        BY <4>2, <4>3 DEF Decided
    <3>5. pc \in {"approval", "exec"} /\ pc' = "act" /\ idx' = idx
      BY <2>7 DEF ReceiveRejection
    <3>6. Sum(idx)
      BY <3>4 DEF Sum
    <3> QED
      BY <2>6, <3>5, <3>6
  <2>8. CASE ExecAnswers \/ ExecError
    <3>0. pc = "exec"
      BY <2>8 DEF ExecAnswers, ExecError
    <3>1. idx \in 1..Len(Actions) /\ answers \subseteq Answer
      BY <1>m, <1>d, <3>0 DEF LoopType, ExecTypeOK
    <3>2. \E b : mem'.Actions = [mem.Actions EXCEPT ![Actions[idx].ID] = {b}]
      BY <1>m, <2>8, <3>1, AnswerMemory, ExecErrorMemory
    <3>3. mem'.Actions[Actions[idx].ID] # {}
      BY <1>d, <1>t, <3>1, <3>2
    <3> QED
      BY <2>6, <2>8, <3>3 DEF ExecAnswers, ExecError, Sum
  <2>9. CASE Close
    <3>1. \A i \in 1..Len(Actions) : Accounted(i)
      BY <2>9 DEF Close, RecordInv
    <3>2. result' = [result EXCEPT !.Actions = mem.Actions] /\ mem' = mem /\ pc' = "closed"
      BY <2>9 DEF Close
    <3>3. result'.Actions = mem.Actions
      BY <1>m, <3>2 DEF LoopType
    <3> QED
      BY <1>d, <2>k, <3>1, <3>2, <3>3 DEF RecordInv, NoActionForgotten, Accounted, Decided
  <2> QED
    BY <1>2, <2>1, <2>2, <2>3, <2>4, <2>5, <2>7, <2>8, <2>9, Moves
<1> QED
  BY <1>1, <1>2

(* The exec agent answers what was sent. *)
LEMMA AnsweredWasSent ==
    ASSUME ExecTypeOK, \A a \in answers : a.req \in issued, [ExecNext]_execVars
    PROVE  (\A a \in answers : a.req \in issued)'
<1>1. ASSUME NEW q \in issued, NEW ok, NEW success, Answered(q, ok, success), issued' = issued
      PROVE  \A a \in answers' : a.req \in issued'
  BY <1>1 DEF Answered
<1>2. ASSUME answers' = answers, issued \subseteq issued'
      PROVE  \A a \in answers' : a.req \in issued'
  BY <1>2
<1>3. CASE \E q \in arrived : HandleUnknown(q) \/ GetNoop(q)
  BY <1>1, <1>3 DEF HandleUnknown, GetNoop, ExecTypeOK
<1>4. CASE \E h \in loaded : Update(h) \/ Conflict(h)
  <2>1. PICK h \in loaded : Update(h) \/ Conflict(h)
    BY <1>4
  <2>2. h.req \in issued /\ issued' = issued
    BY <2>1 DEF ExecTypeOK, Update, Conflict
  <2>3. Answered(h.req, TRUE, TRUE) \/ Answered(h.req, FALSE, FALSE)
    BY <2>1 DEF Update, Conflict
  <2> QED
    BY <1>1, <2>2, <2>3
<1>5. CASE \/ \E q \in arrived : Get(q)
           \/ \E q \in Requests : Submit(q)
           \/ \E q \in issued : LoseRequest(q)
           \/ UNCHANGED execVars
  BY <1>2, <1>5 DEF Get, Submit, LoseRequest, execVars
<1> QED
  BY <1>3, <1>4, <1>5 DEF ExecNext, Agent

(* What the run completes and records as a success was answered. *)
LEMMA AnswerNext ==
    Base /\ AnswerInv /\ CompletedWasAnswered /\ [Next]_vars =>
        AnswerInv' /\ CompletedWasAnswered'
<1> SUFFICES ASSUME Base, AnswerInv, CompletedWasAnswered, [Next]_vars
             PROVE  AnswerInv' /\ CompletedWasAnswered'
  OBVIOUS
<1> DEFINE Answer2(id) ==
              \E a \in answers' : a.ok /\ a.Success /\ a.req \in OwnRequests /\ a.req.key = id
           Done(id) ==
              \/ \E o \in observed' : o.step.ID = id
              \/ \E a \in answers' : a.ok /\ a.req \in OwnRequests /\ a.req.key = id
<1> USE RunbookAssumption
<1>m. IsMemory(mem) /\ PlaceInv /\ LoopType /\ ExecTypeOK
  BY DEF Base, PlaceInv, ExecInv
<1>d. /\ Len(Actions) \in Nat /\ Len(Diagnostics) \in Nat
      /\ \A i \in 1..Len(Actions) : Actions[i].ID \in StepIDs
  BY <1>m, ActionsTyped, DiagnosticsTyped
<1>t. mem.Actions \in [StepIDs -> SUBSET BOOLEAN] /\ mem.CompletedSteps \in Seq(StepIDs)
  BY <1>m, MemoryTyped
<1>g. answers \subseteq answers' /\ observed \subseteq observed'
  <2>1. CASE pc \in EarlyPC
    BY <2>1, EarlyStep
  <2>2. CASE pc \notin EarlyPC
    BY <2>2, Kept
  <2> QED
    BY <2>1, <2>2
<1>s. \A a \in answers' : a.req \in issued'
  BY <1>m, AnsweredWasSent, AgentStep DEF AnswerInv
<1>o. \A id \in StepIDs : TRUE \in mem.Actions[id] => Answer2(id)
  BY <1>g DEF AnswerInv
<1>c. \A k \in DOMAIN mem.CompletedSteps : Done(mem.CompletedSteps[k])
  BY <1>g DEF CompletedWasAnswered
<1>p. ASSUME NEW id \in StepIDs, Done(id), mem'.CompletedSteps = Append(mem.CompletedSteps, id)
      PROVE  \A k \in DOMAIN mem'.CompletedSteps : Done(mem'.CompletedSteps[k])
  <2> HIDE DEF Done
  <2>1. /\ DOMAIN mem.CompletedSteps = 1..Len(mem.CompletedSteps) /\ Len(mem.CompletedSteps) \in Nat
        /\ DOMAIN mem'.CompletedSteps = 1..(Len(mem.CompletedSteps) + 1)
        /\ \A k \in 1..Len(mem.CompletedSteps) : mem'.CompletedSteps[k] = mem.CompletedSteps[k]
        /\ mem'.CompletedSteps[Len(mem.CompletedSteps) + 1] = id
    BY <1>p, <1>t, AppendVersion
  <2> QED
    BY <1>c, <1>p, <2>1
<1> HIDE DEF Answer2, Done
<1>1. CASE mem'.Actions = mem.Actions /\ mem'.CompletedSteps = mem.CompletedSteps
  <2>1. \A id \in StepIDs : TRUE \in mem'.Actions[id] => Answer2(id)
    BY <1>o, <1>1
  <2>2. \A k \in DOMAIN mem'.CompletedSteps : Done(mem'.CompletedSteps[k])
    BY <1>c, <1>1
  <2> QED
    BY <1>s, <2>1, <2>2 DEF AnswerInv, CompletedWasAnswered, Answer2, Done
<1>2. ASSUME NEW out \in Observations, DiagnosticAnswers(out)
      PROVE  AnswerInv' /\ CompletedWasAnswered'
  <2>0. pc = "obs"
    BY <1>2 DEF DiagnosticAnswers
  <2>1. idx \in 1..Len(Diagnostics)
    BY <1>m, <1>d, <2>0 DEF LoopType
  <2>2. /\ mem'.Actions = mem.Actions
        /\ mem'.CompletedSteps = Append(mem.CompletedSteps, Diagnostics[idx].ID)
    BY <1>m, <1>2, <2>1, DiagnosticMemory
  <2>3. [step |-> Diagnostics[idx], out |-> out] \in observed'
    BY <1>2 DEF DiagnosticAnswers
  <2>4. Diagnostics[idx].ID \in StepIDs /\ Done(Diagnostics[idx].ID)
    BY <1>m, <2>1, <2>3, DiagnosticsTyped DEF Done
  <2>5. \A k \in DOMAIN mem'.CompletedSteps : Done(mem'.CompletedSteps[k])
    BY <1>p, <2>2, <2>4
  <2> QED
    BY <1>s, <1>o, <2>2, <2>5 DEF AnswerInv, CompletedWasAnswered, Answer2, Done
<1>3. CASE ExecAnswers
  <2>0. pc = "exec" /\ attempt > 0
    BY <1>3 DEF ExecAnswers
  <2>1. idx \in 1..Len(Actions) /\ answers \subseteq Answer /\ attempt \in 1..MaximumAttempts
    BY <1>m, <1>d, <2>0 DEF LoopType, ExecTypeOK
  <2>2. PICK a \in answers :
            /\ a.req = ExecRequest(mem.Runbook, idx, attempt) /\ a.ok
            /\ mem'.Actions = [mem.Actions EXCEPT ![Actions[idx].ID] = {a.Success}]
    BY <1>m, <1>3, <2>1, AnswerMemory
  <2>3. mem'.CompletedSteps = Append(mem.CompletedSteps, Actions[idx].ID)
    BY <1>m, <1>3, <2>1, AnswerMemory
  <2>4. a \in answers' /\ a.req \in OwnRequests /\ a.req.key = Actions[idx].ID
    BY <1>g, <1>m, <2>1, <2>2, OwnRequest
  <2>5. Done(Actions[idx].ID) /\ Actions[idx].ID \in StepIDs
    BY <1>d, <2>1, <2>2, <2>4 DEF Done
  <2>6. \A k \in DOMAIN mem'.CompletedSteps : Done(mem'.CompletedSteps[k])
    BY <1>p, <2>3, <2>5
  <2>7. \A id \in StepIDs : TRUE \in mem'.Actions[id] => Answer2(id)
    <3> SUFFICES ASSUME NEW id \in StepIDs, TRUE \in mem'.Actions[id] PROVE Answer2(id)
      OBVIOUS
    <3>1. CASE id = Actions[idx].ID
      <4>1. mem'.Actions[id] = {a.Success}
        BY <1>t, <2>2, <3>1
      <4> QED
        BY <2>2, <2>4, <3>1, <4>1 DEF Answer2
    <3>2. CASE id # Actions[idx].ID
      BY <1>o, <1>t, <2>2, <3>2
    <3> QED
      BY <3>1, <3>2
  <2> QED
    BY <1>s, <2>6, <2>7 DEF AnswerInv, CompletedWasAnswered, Answer2, Done
<1>4. CASE ExecError
  <2>0. pc = "exec"
    BY <1>4 DEF ExecError
  <2>1. idx \in 1..Len(Actions)
    BY <1>m, <1>d, <2>0 DEF LoopType
  <2>2. /\ Keeps(mem', mem, "Actions")
        /\ mem'.Actions = [mem.Actions EXCEPT ![Actions[idx].ID] = {FALSE}]
    BY <1>m, <1>4, <2>1, ExecErrorMemory
  <2>3. \A id \in StepIDs : TRUE \in mem'.Actions[id] => TRUE \in mem.Actions[id]
    BY <1>t, <2>2
  <2>4. mem'.CompletedSteps = mem.CompletedSteps
    BY <2>2 DEF Keeps
  <2>5. \A id \in StepIDs : TRUE \in mem'.Actions[id] => Answer2(id)
    BY <1>o, <2>3
  <2>6. \A k \in DOMAIN mem'.CompletedSteps : Done(mem'.CompletedSteps[k])
    BY <1>c, <2>4
  <2> QED
    BY <1>s, <2>5, <2>6 DEF AnswerInv, CompletedWasAnswered, Answer2, Done
<1>5. CASE ReceiveApproval \/ ReceiveRejection
  <2>0. pc = "approval"
    BY <1>5 DEF ReceiveApproval, ReceiveRejection
  <2>1. idx \in 1..Len(Actions) /\ signals \in Seq(Signal)
    BY <1>m, <1>d, <2>0 DEF LoopType
  <2>2. Keeps(mem', mem, "Approvals")
    BY <1>m, <1>5, <2>1, SignalMemory
  <2> QED
    BY <1>1, <2>2 DEF Keeps
<1>6. CASE BeginDiagnostic \/ BeginAction
  <2>1. Keeps(mem', mem, "none")
    BY <1>m, <1>6, CursorMemory
  <2> QED
    BY <1>1, <2>1 DEF Keeps
<1>7. CASE OtherStep
  BY <1>1, <1>7 DEF OtherStep
<1>8. CASE pc \in EarlyPC
  BY <1>1, <1>8, EarlyStep
<1> QED
  BY <1>2, <1>3, <1>4, <1>5, <1>6, <1>7, <1>8, LaterStep

(* Memory and result leave no action out, and claim no step and no success *)
(* that the agents did not answer and the cluster did not have.            *)
THEOREM RecordsTellTheTruth == Spec => []RecordsAreTrue
<1>1. Init => RecordInv /\ NoActionForgotten /\ AnswerInv /\ CompletedWasAnswered
  <2> SUFFICES ASSUME RunInit, ExecInit
               PROVE  RecordInv /\ NoActionForgotten /\ AnswerInv /\ CompletedWasAnswered
    BY DEF Init
  <2>1. RecordInv /\ NoActionForgotten
    BY DEF RunInit, RecordInv, NoActionForgotten
  <2>2. \A id \in StepIDs : mem.Actions[id] = {}
    BY DEF RunInit, NewRunbookMemory
  <2>3. AnswerInv
    BY <2>2 DEF ExecInit, AnswerInv
  <2>4. DOMAIN mem.CompletedSteps = {}
    BY DEF RunInit, NewRunbookMemory
  <2> QED
    BY <2>1, <2>3, <2>4 DEF CompletedWasAnswered
<1>2. Base /\ AnswerInv => RecordedSuccessApplied
  <2> SUFFICES ASSUME Base, AnswerInv, NEW i \in DOMAIN Actions,
                      TRUE \in mem.Actions[Actions[i].ID]
               PROVE  \E q \in OwnIssued : q.key = Actions[i].ID /\
                          \E v \in DOMAIN versions[q.input.deployment] :
                              AlreadyApplied(q, versions[q.input.deployment][v])
    BY DEF RecordedSuccessApplied
  <2>1. Actions[i].ID \in StepIDs
    BY ActionsTyped DEF Base, PlaceInv
  <2>2. PICK a \in answers : a.ok /\ a.Success /\ a.req \in OwnRequests
                             /\ a.req.key = Actions[i].ID
    BY <2>1 DEF AnswerInv
  <2>3. a.req \in OwnIssued
    BY <2>2 DEF AnswerInv, OwnIssued
  <2>4. \E v \in DOMAIN versions[a.req.input.deployment] :
            AlreadyApplied(a.req, versions[a.req.input.deployment][v])
    BY <2>2 DEF Base, ExecInv, SuccessMeansApplied
  <2> QED
    BY <2>2, <2>3, <2>4
<1>3. Base /\ AnswerInv /\ NoActionForgotten /\ CompletedWasAnswered => RecordsAreTrue
  BY <1>2 DEF RecordsAreTrue
<1> QED
  BY <1>1, <1>3, RecordNext, AnswerNext, BaseInductive, PTL DEF Spec

-----------------------------------------------------------------------------
(* The audit trail. *)

(* Entries that record no action leave what the log shows of approvals. *)
LEMMA AuditKept ==
    ASSUME IsMemory(mem), NEW acts, Grows(acts), "record_action" \notin acts,
           mem'.RequiresHumanApproval = mem.RequiresHumanApproval, AuditShowsApproval
    PROVE  AuditShowsApproval'
<1> SUFFICES ASSUME NEW j \in DOMAIN mem'.Deltas, mem'.Deltas[j].Action = "record_action",
                    mem.RequiresHumanApproval
             PROVE  \E i \in 1..(j - 1) :
                        /\ mem'.Deltas[i].Action = "append_approval"
                        /\ mem'.Deltas[i].Patch =
                               [StepID |-> mem'.Deltas[j].Patch.step_id, Approved |-> TRUE]
                        /\ \A k \in i..j : mem'.Deltas[k].Action # "set_cursor"
  BY DEF AuditShowsApproval
<1>1. DOMAIN mem.Deltas = 1..Len(mem.Deltas) /\ DOMAIN mem'.Deltas = 1..Len(mem'.Deltas)
  BY LenProperties DEF Grows, IsMemory, IsList
<1>2. j \in DOMAIN mem.Deltas
  BY <1>1 DEF Grows
<1>3. PICK i \in 1..(j - 1) :
          /\ mem.Deltas[i].Action = "append_approval"
          /\ mem.Deltas[i].Patch = [StepID |-> mem.Deltas[j].Patch.step_id, Approved |-> TRUE]
          /\ \A k \in i..j : mem.Deltas[k].Action # "set_cursor"
  <2>1. mem.Deltas[j].Action = "record_action"
    BY <1>1, <1>2 DEF Grows
  <2> QED
    BY <1>2, <2>1 DEF AuditShowsApproval
<1>4. \A k \in 1..j : mem'.Deltas[k] = mem.Deltas[k]
  BY <1>1, <1>2 DEF Grows
<1>5. i \in 1..j /\ j \in 1..j /\ \A k \in i..j : k \in 1..j
  BY <1>1, <1>2 DEF Grows
<1> QED
  BY <1>3, <1>4, <1>5

(* A record that follows a logged approval within the step shows it. *)
LEMMA AuditRecord ==
    ASSUME IsMemory(mem), Grows({"record_action", "mark_step_completed"}),
           mem'.RequiresHumanApproval = mem.RequiresHumanApproval, AuditShowsApproval,
           mem'.Deltas[Len(mem.Deltas) + 1].Patch.step_id = Actions[idx].ID,
           \A j \in (Len(mem.Deltas) + 2)..Len(mem'.Deltas) :
               mem'.Deltas[j].Action = "mark_step_completed",
           mem.RequiresHumanApproval => ApprovalLogged(Actions[idx].ID)
    PROVE  AuditShowsApproval'
<1> DEFINE n == Len(mem.Deltas)
<1> SUFFICES ASSUME NEW j \in DOMAIN mem'.Deltas, mem'.Deltas[j].Action = "record_action",
                    mem.RequiresHumanApproval
             PROVE  \E i \in 1..(j - 1) :
                        /\ mem'.Deltas[i].Action = "append_approval"
                        /\ mem'.Deltas[i].Patch =
                               [StepID |-> mem'.Deltas[j].Patch.step_id, Approved |-> TRUE]
                        /\ \A k \in i..j : mem'.Deltas[k].Action # "set_cursor"
  BY DEF AuditShowsApproval
<1>1. /\ DOMAIN mem.Deltas = 1..n /\ DOMAIN mem'.Deltas = 1..Len(mem'.Deltas)
      /\ n \in Nat /\ Len(mem'.Deltas) \in Nat
      /\ \A i \in 1..n : mem'.Deltas[i] = mem.Deltas[i]
  BY LenProperties DEF Grows, IsMemory, IsList
<1>p. /\ mem'.Deltas[n + 1].Patch.step_id = Actions[idx].ID
      /\ \A k \in (n + 2)..Len(mem'.Deltas) : mem'.Deltas[k].Action # "record_action"
  OBVIOUS
<1>a. PICK i \in 1..n :
          /\ mem.Deltas[i].Action = "append_approval"
          /\ mem.Deltas[i].Patch = [StepID |-> Actions[idx].ID, Approved |-> TRUE]
          /\ \A k \in i..n : mem.Deltas[k].Action # "set_cursor"
  BY DEF ApprovalLogged
<1> HIDE DEF n
<1>2. CASE j \in 1..n
  <2>1. PICK i1 \in 1..(j - 1) :
            /\ mem.Deltas[i1].Action = "append_approval"
            /\ mem.Deltas[i1].Patch = [StepID |-> mem.Deltas[j].Patch.step_id, Approved |-> TRUE]
            /\ \A k \in i1..j : mem.Deltas[k].Action # "set_cursor"
    <3>1. j \in DOMAIN mem.Deltas /\ mem.Deltas[j].Action = "record_action"
      BY <1>1, <1>2
    <3> QED
      BY <3>1 DEF AuditShowsApproval
  <2>2. /\ i1 \in 1..n /\ mem'.Deltas[i1] = mem.Deltas[i1]
        /\ mem'.Deltas[j] = mem.Deltas[j]
        /\ \A k \in i1..j : k \in 1..n
    BY <1>1, <1>2
  <2>3. \A k \in i1..j : mem'.Deltas[k].Action # "set_cursor"
    BY <1>1, <2>1, <2>2
  <2>4. /\ mem'.Deltas[i1].Action = "append_approval"
        /\ mem'.Deltas[i1].Patch = [StepID |-> mem'.Deltas[j].Patch.step_id, Approved |-> TRUE]
    BY <2>1, <2>2
  <2> WITNESS i1 \in 1..(j - 1)
  <2> QED
    BY <2>3, <2>4
<1>3. CASE j = n + 1
  <2>1. /\ mem'.Deltas[i] = mem.Deltas[i] /\ i \in 1..(j - 1)
        /\ \A k \in i..j : k \in i..n \/ k = j
        /\ \A k \in i..n : mem'.Deltas[k] = mem.Deltas[k]
    BY <1>1, <1>3
  <2>2. \A k \in i..j : mem'.Deltas[k].Action # "set_cursor"
    BY <1>a, <2>1
  <2>3. /\ mem'.Deltas[i].Action = "append_approval"
        /\ mem'.Deltas[i].Patch = [StepID |-> mem'.Deltas[j].Patch.step_id, Approved |-> TRUE]
    BY <1>a, <1>p, <1>3, <2>1
  <2> QED
    BY <2>1, <2>2, <2>3
<1>4. j \in 1..n \/ j = n + 1 \/ j \in (n + 2)..Len(mem'.Deltas)
  BY <1>1
<1> QED
  BY <1>p, <1>2, <1>3, <1>4

(* AuditInv and AuditShowsApproval are kept together. *)
LEMMA AuditNext ==
    Base /\ AuditInv /\ AuditShowsApproval /\ [Next]_vars =>
        AuditInv' /\ AuditShowsApproval'
<1> SUFFICES ASSUME Base, AuditInv, AuditShowsApproval, [Next]_vars
             PROVE  AuditInv' /\ AuditShowsApproval'
  OBVIOUS
<1> USE RunbookAssumption
<1>m. IsMemory(mem) /\ PlaceInv /\ LoopType /\ ExecTypeOK
  BY DEF Base, PlaceInv, ExecInv
<1>d. Len(Actions) \in Nat /\ Len(Diagnostics) \in Nat
  BY <1>m, ActionsTyped, DiagnosticsTyped
<1>1. ASSUME NEW requires \in BOOLEAN, RuleAgentAnswers(requires)
      PROVE  AuditInv' /\ AuditShowsApproval'
  <2>1. Grows({"set_requires_human_approval", "set_selected_runbook_id", "set_fact"})
    BY <1>m, <1>1, RuleMemory
  <2>2. mem.Deltas = <<>> /\ pc' # "exec"
    BY <1>m, <1>1 DEF RuleAgentAnswers, PlaceInv
  <2>3. Len(mem.Deltas) = 0
    BY <2>2
  <2>4. DOMAIN mem'.Deltas = 1..Len(mem'.Deltas)
    BY <2>1, LenProperties DEF Grows, IsMemory, IsList
  <2>5. \A j \in DOMAIN mem'.Deltas : mem'.Deltas[j].Action # "record_action"
    BY <2>1, <2>3, <2>4 DEF Grows
  <2> QED
    BY <2>2, <2>5 DEF AuditInv, AuditShowsApproval
<1>2. ASSUME NEW rb \in Runbooks, RunbookAgentAnswers(rb)
      PROVE  AuditInv' /\ AuditShowsApproval'
  <2>1. Grows({"set_runbook"}) /\ Keeps(mem', mem, "Runbook") /\ pc' # "exec"
    BY <1>m, <1>2, ChosenMemory DEF RunbookAgentAnswers
  <2> QED
    BY <1>m, <2>1, AuditKept DEF AuditInv, Keeps
<1>3. CASE AgentError
  <2>1. Grows({"mark_failed"}) /\ Keeps(mem', mem, "Failed") /\ pc' # "exec"
    BY <1>m, <1>3, ErrorMemory DEF AgentError
  <2> QED
    BY <1>m, <2>1, AuditKept DEF AuditInv, Keeps
<1>4. CASE BeginDiagnostic \/ BeginAction
  <2>1. Grows({"set_cursor"}) /\ Keeps(mem', mem, "none")
    BY <1>m, <1>4, CursorMemory
  <2>2. pc' = "exec" => ~mem'.RequiresHumanApproval
    BY <1>4, <2>1 DEF BeginDiagnostic, BeginAction, NeedsApproval, Keeps
  <2> QED
    BY <1>m, <2>1, <2>2, AuditKept DEF AuditInv, Keeps
<1>5. ASSUME NEW out \in Observations, DiagnosticAnswers(out)
      PROVE  AuditInv' /\ AuditShowsApproval'
  <2>0. pc = "obs" /\ pc' # "exec"
    BY <1>5 DEF DiagnosticAnswers
  <2>1. idx \in 1..Len(Diagnostics)
    BY <1>m, <1>d, <2>0 DEF LoopType
  <2>2. /\ Grows({"record_diagnostic", "mark_step_completed", "mark_failed"})
        /\ mem'.RequiresHumanApproval = mem.RequiresHumanApproval
    BY <1>m, <1>5, <2>1, DiagnosticMemory
  <2> QED
    BY <1>m, <2>0, <2>2, AuditKept DEF AuditInv
<1>6. CASE ReceiveApproval \/ ReceiveRejection
  <2>0. pc = "approval"
    BY <1>6 DEF ReceiveApproval, ReceiveRejection
  <2>1. idx \in 1..Len(Actions) /\ signals \in Seq(Signal)
    BY <1>m, <1>d, <2>0 DEF LoopType
  <2>2. /\ Grows({"append_approval"}) /\ Keeps(mem', mem, "Approvals")
        /\ Head(signals) \in ApprovalSignal
        /\ Len(mem'.Deltas) = Len(mem.Deltas) + 1
        /\ mem'.Deltas[Len(mem'.Deltas)].Patch = Head(signals)
    BY <1>m, <1>6, <2>1, SignalMemory
  <2>3. ReceiveApproval => ApprovalLogged(Actions[idx].ID)'
    <3> SUFFICES ASSUME ReceiveApproval PROVE ApprovalLogged(Actions[idx].ID)'
      OBVIOUS
    <3> DEFINE n == Len(mem'.Deltas)
    <3>1. n \in Nat /\ n \in 1..n /\ n \in (Len(mem.Deltas) + 1)..n /\ n..n = {n}
      BY <2>2 DEF Grows
    <3>2. mem'.Deltas[n].Action = "append_approval"
      BY <2>2, <3>1 DEF Grows
    <3>3. mem'.Deltas[n].Patch = [StepID |-> Actions[idx].ID, Approved |-> TRUE]
      BY <2>2 DEF ReceiveApproval, ApprovalSignal
    <3>4. Actions'[idx'].ID = Actions[idx].ID
      BY <2>2 DEF ReceiveApproval, Actions, Keeps
    <3> HIDE DEF n
    <3>5. \E i \in 1..n :
              /\ mem'.Deltas[i].Action = "append_approval"
              /\ mem'.Deltas[i].Patch = [StepID |-> Actions'[idx'].ID, Approved |-> TRUE]
              /\ \A k \in i..n : mem'.Deltas[k].Action # "set_cursor"
      BY <3>1, <3>2, <3>3, <3>4
    <3> QED
      BY <3>5 DEF ApprovalLogged, n
  <2>4. AuditShowsApproval'
    BY <1>m, <2>2, AuditKept DEF Keeps
  <2>5. pc' = "exec" => ReceiveApproval
    BY <1>6 DEF ReceiveRejection
  <2> QED
    BY <2>3, <2>4, <2>5 DEF AuditInv
<1>7. CASE ExecAnswers \/ ExecError
  <2>0. pc = "exec" /\ pc' # "exec"
    BY <1>7 DEF ExecAnswers, ExecError
  <2>1. idx \in 1..Len(Actions) /\ answers \subseteq Answer
    BY <1>m, <1>d, <2>0 DEF LoopType, ExecTypeOK
  <2>2. mem.RequiresHumanApproval => ApprovalLogged(Actions[idx].ID)
    BY <2>0 DEF AuditInv
  <2>3. CASE ExecAnswers
    <3>1. /\ Grows({"record_action", "mark_step_completed"})
          /\ Len(mem'.Deltas) = Len(mem.Deltas) + 2
          /\ mem'.Deltas[Len(mem.Deltas) + 1].Patch.step_id = Actions[idx].ID
          /\ mem'.Deltas[Len(mem.Deltas) + 2].Action = "mark_step_completed"
          /\ mem'.RequiresHumanApproval = mem.RequiresHumanApproval
      BY <1>m, <2>1, <2>3, AnswerMemory
    <3>2. \A j \in (Len(mem.Deltas) + 2)..Len(mem'.Deltas) :
              mem'.Deltas[j].Action = "mark_step_completed"
      BY <3>1 DEF Grows
    <3> QED
      BY <1>m, <2>0, <2>2, <3>1, <3>2, AuditRecord DEF AuditInv
  <2>4. CASE ExecError
    <3>1. /\ Grows({"record_action"}) /\ Keeps(mem', mem, "Actions")
          /\ Len(mem'.Deltas) = Len(mem.Deltas) + 1
          /\ mem'.Deltas[Len(mem.Deltas) + 1].Patch.step_id = Actions[idx].ID
      BY <1>m, <2>1, <2>4, ExecErrorMemory
    <3>2. Grows({"record_action", "mark_step_completed"})
      BY <3>1 DEF Grows
    <3>3. \A j \in (Len(mem.Deltas) + 2)..Len(mem'.Deltas) :
              mem'.Deltas[j].Action = "mark_step_completed"
      BY <3>1 DEF Grows
    <3> QED
      BY <1>m, <2>0, <2>2, <3>1, <3>2, <3>3, AuditRecord DEF AuditInv, Keeps
  <2> QED
    BY <1>7, <2>3, <2>4
<1>8. CASE /\ mem' = mem
           /\ \/ pc' # "exec"
              \/ pc' = pc /\ idx' = idx
  <2>1. AuditShowsApproval'
    BY <1>8 DEF AuditShowsApproval
  <2>2. CASE pc' # "exec"
    BY <2>1, <2>2 DEF AuditInv
  <2>3. CASE pc' = pc /\ idx' = idx
    BY <1>8, <2>1, <2>3 DEF AuditInv, ApprovalLogged, Actions
  <2> QED
    BY <1>8, <2>2, <2>3
<1>9. ASSUME pc \in EarlyPC, mem' = mem PROVE AuditInv' /\ AuditShowsApproval'
  <2>1. pc' # "exec"
    BY <1>9, EarlyStep
  <2> QED
    BY <1>8, <1>9, <2>1
<1>10. ASSUME pc \notin EarlyPC, OtherStep PROVE AuditInv' /\ AuditShowsApproval'
  <2>1. pc' = "exec" => \/ pc' = pc /\ idx' = idx
                        \/ BeginAction \/ ReceiveApproval
    BY <1>10, Moves DEF BeginDiagnostic, DiagnosticsDone, DiagnosticError, DiagnosticAnswers,
       ReceiveRejection, ExecAnswers, ExecError, Close
  <2> QED
    BY <1>4, <1>6, <1>8, <1>10, <2>1 DEF OtherStep
<1>11. CASE pc \in EarlyPC
  <2>1. \/ \E requires \in BOOLEAN : RuleAgentAnswers(requires)
        \/ \E rb \in Runbooks : RunbookAgentAnswers(rb)
        \/ AgentError \/ mem' = mem
    BY <1>11 DEF Next, Workflow, EarlyPC, BeginDiagnostic, DiagnosticsDone, DiagnosticAnswers,
       BeginAction, ReceiveOther, ReceiveApproval, ReceiveRejection, CallExec, ExecAnswers,
       ExecError, Close, DiagnosticError, SendSignal, runVars, vars
  <2> QED
    BY <1>1, <1>2, <1>3, <1>9, <1>11, <2>1
<1>12. CASE pc \notin EarlyPC
  BY <1>4, <1>5, <1>6, <1>7, <1>10, <1>12, LaterStep
<1> QED
  BY <1>11, <1>12

(* Whoever reads the log of a run that requires human approval finds, with *)
(* each recorded action, the approval that was given for it.               *)
THEOREM AuditTrailIsComplete == Spec => []AuditShowsApproval
<1>1. Init => AuditInv /\ AuditShowsApproval
  <2> SUFFICES ASSUME RunInit PROVE AuditInv /\ AuditShowsApproval
    BY DEF Init
  <2>1. DOMAIN mem.Deltas = {}
    BY DEF RunInit, NewRunbookMemory
  <2> QED
    BY <2>1 DEF RunInit, AuditInv, AuditShowsApproval
<1> QED
  BY <1>1, AuditNext, BaseInductive, PTL DEF Spec

(* Every step that changes the memory goes through deltas. *)
LEMMA ReplayNext == Base /\ Replayed(mem) /\ [Next]_vars => Replayed(mem')
<1> SUFFICES ASSUME Base, Replayed(mem), [Next]_vars
             PROVE  Replayed(mem')
  OBVIOUS
<1> USE RunbookAssumption
<1>m. IsMemory(mem) /\ PlaceInv /\ LoopType /\ ExecTypeOK
  BY DEF Base, PlaceInv, ExecInv
<1>d. Len(Actions) \in Nat /\ Len(Diagnostics) \in Nat
  BY <1>m, ActionsTyped, DiagnosticsTyped
<1>1. ASSUME NEW requires \in BOOLEAN, RuleAgentAnswers(requires)
      PROVE  Replayed(mem')
  BY <1>m, <1>1, RuleMemory DEF Grows
<1>2. ASSUME NEW rb \in Runbooks, RunbookAgentAnswers(rb)
      PROVE  Replayed(mem')
  BY <1>m, <1>2, ChosenMemory DEF Grows
<1>3. CASE AgentError
  BY <1>m, <1>3, ErrorMemory DEF Grows
<1>4. CASE BeginDiagnostic \/ BeginAction
  BY <1>m, <1>4, CursorMemory DEF Grows
<1>5. ASSUME NEW out \in Observations, DiagnosticAnswers(out)
      PROVE  Replayed(mem')
  <2>1. idx \in 1..Len(Diagnostics)
    BY <1>m, <1>d, <1>5 DEF LoopType, DiagnosticAnswers
  <2> QED
    BY <1>m, <1>5, <2>1, DiagnosticMemory DEF Grows
<1>6. CASE ReceiveApproval \/ ReceiveRejection
  <2>1. idx \in 1..Len(Actions) /\ signals \in Seq(Signal)
    BY <1>m, <1>d, <1>6 DEF LoopType, ReceiveApproval, ReceiveRejection
  <2> QED
    BY <1>m, <1>6, <2>1, SignalMemory DEF Grows
<1>7. CASE ExecAnswers
  <2>1. idx \in 1..Len(Actions) /\ answers \subseteq Answer
    BY <1>m, <1>d, <1>7 DEF LoopType, ExecTypeOK, ExecAnswers
  <2> QED
    BY <1>m, <1>7, <2>1, AnswerMemory DEF Grows
<1>8. CASE ExecError
  <2>1. idx \in 1..Len(Actions)
    BY <1>m, <1>d, <1>8 DEF LoopType, ExecError
  <2> QED
    BY <1>m, <1>8, <2>1, ExecErrorMemory DEF Grows
<1>9. CASE mem' = mem
  BY <1>9
<1>10. CASE pc \in EarlyPC
  <2>1. \/ \E requires \in BOOLEAN : RuleAgentAnswers(requires)
        \/ \E rb \in Runbooks : RunbookAgentAnswers(rb)
        \/ AgentError \/ mem' = mem
    BY <1>10 DEF Next, Workflow, EarlyPC, BeginDiagnostic, DiagnosticsDone, DiagnosticAnswers,
       BeginAction, ReceiveOther, ReceiveApproval, ReceiveRejection, CallExec, ExecAnswers,
       ExecError, Close, DiagnosticError, SendSignal, runVars, vars
  <2> QED
    BY <1>1, <1>2, <1>3, <1>9, <2>1
<1>11. CASE pc \notin EarlyPC
  BY <1>4, <1>5, <1>6, <1>7, <1>8, <1>9, <1>11, LaterStep DEF OtherStep
<1> QED
  BY <1>10, <1>11

(* Whoever replays the log on a fresh memory gets the memory of the run,   *)
(* versions included, however its deltas, failures and answers came.       *)
THEOREM ReplayIsFaithful == Spec => []ReplayRebuilds
<1>1. Init => Replayed(mem)
  <2> SUFFICES ASSUME RunInit PROVE Replayed(mem)
    BY DEF Init
  <2>1. mem = NewRunbookMemory /\ mem.Deltas = <<>> /\ DOMAIN mem.Deltas = 1..0
    BY DEF RunInit, NewRunbookMemory
  <2>2. PICK f : /\ Replays(f, mem.Deltas, 0)
                 /\ FoldLeft(Apply, NewRunbookMemory, mem.Deltas) = f[1..0]
    BY <2>1, ReplayExists, ReplayIs
  <2>3. f[1..0] = NewRunbookMemory
    BY <2>2 DEF Replays
  <2> QED
    BY <2>1, <2>2, <2>3 DEF Replayed
<1>2. Replayed(mem) => ReplayRebuilds
  BY DEF Replayed, ReplayRebuilds
<1>3. Base /\ Replayed(mem) /\ [Next]_vars => Replayed(mem)'
  BY ReplayNext
<1> QED
  BY <1>1, <1>2, <1>3, BaseInductive, PTL DEF Spec

=============================================================================
