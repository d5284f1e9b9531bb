--------------------------- MODULE TaskAPI_proofs ---------------------------
(***************************************************************************)
(* Proofs about TaskAPI, for all tenants, credentials, task types, numbers *)
(* of requests and lives of workflows.                                     *)
(***************************************************************************)
EXTENDS TaskAPI, SequenceTheorems, TLAPS

(* The artifacts a workflow may return. *)
Bodies == UNION { Artifacts[s] : s \in DOMAIN Artifacts }

Life == [ run : Nat, status : Open \cup Final, result : Bodies \cup {"empty"},
          outcome : Bodies \cup {"open", "error"} ]

(* What a workflow told as its result and what it returned agree with the  *)
(* status it ends in.                                                      *)
LifeInv(l) ==
    /\ l \in Life
    /\ l.status \in Open => l.result = "empty" /\ l.outcome = "open"
    /\ l.status = "failed" => l.result = "empty" /\ l.outcome \in {"open", "error"}
    /\ l.status \in {"completed", "denied"} =>
          /\ l.result \in Artifacts[l.status] \cup {"empty"}
          /\ l.outcome # "open" => l.outcome \in Artifacts[l.status]
          /\ l.outcome # "open" /\ l.result # "empty" => l.outcome = l.result

(* A closed life stays as it is; a result, once told, stays. *)
Kept(l, m) ==
    /\ l.outcome = "open" \/ m = l
    /\ l.result = "empty" \/ m.result = l.result

TaskRequest == [ tenant : Names, at : 0..MaxTime, type : Types, id : TaskIDs ]

Execution == [ task : Nat, type : Types, life : Life ]

(* Bodies are neither of the marks for their absence. *)
LEMMA BodiesAreBodies ==
    /\ {"empty", "open", "error"} \cap Bodies = {}
    /\ Artifacts["completed"] \subseteq Bodies /\ Artifacts["denied"] \subseteq Bodies
    /\ "running" \in Open
    /\ Open \cap {"completed", "failed", "denied"} = {}
<1>1. DOMAIN Artifacts = {"completed", "denied"}
  BY LivesAssumption
<1>2. \A s \in DOMAIN Artifacts : Artifacts[s] \cap {"empty", "open", "error"} = {}
  BY LivesAssumption
<1> QED
  BY <1>1, <1>2, LivesAssumption DEF Bodies, Final

(* A workflow that starts has an allowed life. *)
LEMMA FreshLife == ASSUME NEW n \in Nat PROVE LifeInv(Fresh(n))
  BY BodiesAreBodies DEF Fresh, LifeInv, Life, Final

(* Each way to go on keeps the invariant. *)
LEMMA MovedLife ==
    ASSUME NEW l, LifeInv(l), l.outcome = "open", l.status \notin Final, NEW m \in Moved(l)
    PROVE  LifeInv(m) /\ Kept(l, m)
<1>1. PICK s \in Open : m = [ l EXCEPT !.status = s ]
  BY DEF Moved
<1>2. l.status \in Open /\ l.result = "empty"
  BY DEF LifeInv, Life
<1> QED
  BY <1>1, <1>2, BodiesAreBodies DEF LifeInv, Life, Final, Kept

(* A life whose status becomes final, with its result, is allowed. *)
LEMMA EndedLife ==
    ASSUME NEW l, LifeInv(l), l.outcome = "open", l.status \notin Final, NEW m \in Ended(l)
    PROVE  LifeInv(m) /\ Kept(l, m) /\ m.outcome = "open" /\ m.status \in Final
<1>1. l \in Life /\ l.status \in Open /\ l.result = "empty"
  BY DEF LifeInv, Life
<1>2. \/ m = Ending(l, "failed", "empty")
      \/ \E s \in {"completed", "denied"} : \E r \in Artifacts[s] \cup {"empty"} :
             m = Ending(l, s, r)
  BY <1>1, LivesAssumption DEF Ended
<1>3. CASE m = Ending(l, "failed", "empty")
  BY <1>1, <1>3, BodiesAreBodies DEF Ending, LifeInv, Life, Final, Kept
<1>4. CASE \E s \in {"completed", "denied"} : \E r \in Artifacts[s] \cup {"empty"} :
             m = Ending(l, s, r)
  <2>0. PICK s \in {"completed", "denied"} :
            \E r \in Artifacts[s] \cup {"empty"} : m = Ending(l, s, r)
    BY <1>4
  <2>1. PICK r \in Artifacts[s] \cup {"empty"} : m = Ending(l, s, r)
    BY <2>0
  <2>2. m = [ run |-> l.run, status |-> s, result |-> r, outcome |-> "open" ]
    BY <2>1 DEF Ending
  <2>3. r \in Bodies \cup {"empty"}
    BY <2>1, BodiesAreBodies
  <2> QED
    BY <1>1, <2>1, <2>2, <2>3, BodiesAreBodies DEF LifeInv, Life, Final, Kept
<1> QED
  BY <1>2, <1>3, <1>4

(* The outcome that closes a life is one it may have, and keeps what was told. *)
LEMMA ClosedLife ==
    ASSUME NEW l, LifeInv(l), l.outcome = "open", l.status \in Final, NEW m \in Closed(l)
    PROVE  LifeInv(m) /\ Kept(l, m)
<1>1. PICK o \in Outcomes(l) : m = [ l EXCEPT !.outcome = o ]
  BY DEF Closed
<1>2. l \in Life
  BY DEF LifeInv
<1>3. CASE l.status = "failed"
  BY <1>1, <1>2, <1>3, BodiesAreBodies DEF Outcomes, LifeInv, Life, Final, Kept
<1>4. CASE l.status \in {"completed", "denied"}
  <2>1. o \in Artifacts[l.status]
    BY <1>1, <1>4 DEF Outcomes, LifeInv
  <2>2. l.result # "empty" => o = l.result
    BY <1>1, <1>4 DEF Outcomes
  <2>3. o \in Bodies
    BY <1>4, <2>1, BodiesAreBodies
  <2> QED
    BY <1>1, <1>2, <1>4, <2>1, <2>2, <2>3, BodiesAreBodies DEF LifeInv, Life, Final, Kept
<1> QED
  BY <1>3, <1>4 DEF Final

(* The life of a task keeps its invariant, and a result that was told. *)
LEMMA SuccessorLife ==
    ASSUME NEW l, LifeInv(l), NEW m \in Successors(l)
    PROVE  LifeInv(m) /\ Kept(l, m) /\ l.outcome = "open"
<1>1. l.outcome = "open"
  BY DEF Successors
<1>2. CASE l.status \in Final
  <2>1. m \in Closed(l) \/ (l.status = "failed" /\ m \in Renewed(l))
    <3>1. CASE l.status = "failed"
      BY <1>1, <3>1 DEF Successors
    <3>2. CASE l.status # "failed"
      BY <1>1, <1>2, <3>2 DEF Successors
    <3> QED
      BY <3>1, <3>2
  <2>2. CASE m \in Closed(l)
    BY <1>1, <1>2, <2>2, ClosedLife
  <2>3. CASE l.status = "failed" /\ m \in Renewed(l)
    <3>1. m = Fresh(l.run + 1) /\ l.run + 1 \in Nat
      BY <2>3 DEF Renewed, LifeInv, Life
    <3>2. l.result = "empty"
      BY <2>3 DEF LifeInv
    <3> QED
      BY <1>1, <3>1, <3>2, FreshLife DEF Kept
  <2> QED
    BY <2>1, <2>2, <2>3
<1>3. CASE l.status \notin Final
  <2>1. \/ m \in Moved(l) \/ m \in Ended(l)
        \/ \E e \in Ended(l) : m \in Closed(e)
    BY <1>1, <1>3 DEF Successors, Final
  <2>2. CASE m \in Moved(l)
    BY <1>1, <1>3, <2>2, MovedLife
  <2>3. CASE m \in Ended(l)
    BY <1>1, <1>3, <2>3, EndedLife
  <2>4. CASE \E e \in Ended(l) : m \in Closed(e)
    <3>1. PICK e \in Ended(l) : m \in Closed(e)
      BY <2>4
    <3>2. LifeInv(e) /\ e.outcome = "open" /\ e.status \in Final
      BY <1>1, <1>3, EndedLife
    <3>3. LifeInv(m)
      BY <3>1, <3>2, ClosedLife
    <3>4. l.result = "empty"
      BY <1>3 DEF LifeInv, Life
    <3> QED
      BY <1>1, <3>3, <3>4 DEF Kept
  <2> QED
    BY <2>1, <2>2, <2>3, <2>4
<1> QED
  BY <1>1, <1>2, <1>3

-----------------------------------------------------------------------------
(* The state of the endpoints. *)

TypeInv ==
    /\ tenancy \in Tenancies
    /\ now \in 0..MaxTime
    /\ requests \in Seq(TaskRequest)
    /\ starting \subseteq DOMAIN requests
    /\ executions \in [TaskIDs -> Seq(Execution)]
    /\ ran \subseteq DOMAIN requests
    /\ results \subseteq [ id : TaskIDs, index : Nat, body : Bodies \cup {"empty"} ]

(* An id is the slug of the tenant and the time of its request. *)
IdInv ==
    \A n \in DOMAIN requests :
        requests[n].id = [ tenant |-> sanitizeTenantID[requests[n].tenant],
                           ts |-> requests[n].at ]

(* An execution runs the task of a request that was given its id. *)
ExecutionInv ==
    \A id \in TaskIDs : \A k \in DOMAIN executions[id] :
        /\ LifeInv(executions[id][k].life)
        /\ executions[id][k].task \in DOMAIN requests
        /\ requests[executions[id][k].task].id = id

(* A body that /result may answer about an execution. *)
Told(e, b) ==
    IF ReturnsArtifact(e)
    THEN b \in Bodies /\ b \in {e.life.result, e.life.outcome}
    ELSE b = "empty" /\ e.life.outcome \notin {"open", "error"}

(* What was told as a result is told by the execution it is of. *)
ResultInv ==
    \A r \in results :
        /\ r.index \in DOMAIN executions[r.id]
        /\ Told(executions[r.id][r.index], r.body)

IInv == TypeInv /\ IdInv /\ ExecutionInv /\ ResultInv /\ OwnTaskRuns

(* Executions are added and go on; none is dropped or changed in its task. *)
Grown ==
    \A id \in TaskIDs : \A k \in DOMAIN executions[id] :
        /\ k \in DOMAIN executions'[id]
        /\ executions'[id][k].task = executions[id][k].task
        /\ executions'[id][k].type = executions[id][k].type
        /\ Kept(executions[id][k].life, executions'[id][k].life)

-----------------------------------------------------------------------------
(* The initial states. *)
LEMMA InitInv == Init => IInv
<1> SUFFICES ASSUME Init PROVE IInv
  OBVIOUS
<1>1. TypeInv
  <2>1. 0 \in 0..MaxTime
    <3>1. MaxTime \in Nat
      BY APIAssumption
    <3> QED
      BY <3>1
  <2>2. <<>> \in Seq(Execution) /\ <<>> \in Seq(TaskRequest)
    OBVIOUS
  <2> QED
    BY <2>1, <2>2 DEF Init, TypeInv
<1>2. \A id \in TaskIDs : executions[id] = <<>>
  BY DEF Init
<1>3. IdInv /\ ExecutionInv /\ ResultInv /\ OwnTaskRuns
  BY <1>2 DEF Init, IdInv, ExecutionInv, ResultInv, OwnTaskRuns
<1> QED
  BY <1>1, <1>3 DEF IInv

(* Facts about sequences. *)
LEMMA AppendFacts ==
    ASSUME NEW S, NEW s \in Seq(S), NEW x \in S
    PROVE  /\ Append(s, x) \in Seq(S)
           /\ DOMAIN s = 1..Len(s) /\ Len(s) \in Nat
           /\ DOMAIN Append(s, x) = 1..(Len(s) + 1)
           /\ \A i \in DOMAIN s : i \in DOMAIN Append(s, x) /\ Append(s, x)[i] = s[i]
           /\ Len(s) + 1 \in DOMAIN Append(s, x)
           /\ Append(s, x)[Len(s) + 1] = x
  OBVIOUS

(* The last execution of a sequence. *)
LEMMA LastIndex ==
    ASSUME NEW S, NEW s \in Seq(S), s # <<>>
    PROVE  Len(s) \in DOMAIN s /\ s[Len(s)] \in S
<1>1. Len(s) \in Nat /\ Len(s) # 0 /\ DOMAIN s = 1..Len(s)
  BY EmptySeq, LenProperties
<1>2. Len(s) \in 1..Len(s)
  BY <1>1
<1> QED
  BY <1>1, <1>2, ElementOfSeq

-----------------------------------------------------------------------------
(* The steps that touch executions. *)

(* Starting or joining lets every execution be and leaves one that is the  *)
(* request's own or was open for another request of its id.                *)
LEMMA StartGrows ==
    ASSUME IInv, NEW n \in DOMAIN requests, StartOrJoin(n)
    PROVE  /\ executions' \in [TaskIDs -> Seq(Execution)]
           /\ Grown
           /\ \A id \in TaskIDs : \A k \in DOMAIN executions'[id] :
                 /\ LifeInv(executions'[id][k].life)
                 /\ executions'[id][k].task \in DOMAIN requests
                 /\ requests[executions'[id][k].task].id = id
           /\ \E k \in DOMAIN executions'[requests[n].id] :
                 requests[executions'[requests[n].id][k].task].id = requests[n].id
           /\ \/ \E k \in DOMAIN executions'[requests[n].id] :
                    executions'[requests[n].id][k].task = n
              \/ \E m \in DOMAIN requests : m # n /\ requests[m].id = requests[n].id
<1> DEFINE id0 == requests[n].id
           new == [ task |-> n, type |-> requests[n].type, life |-> Fresh(1) ]
<1>1. requests[n] \in TaskRequest /\ n \in Nat
  <2>1. requests \in Seq(TaskRequest)
    BY DEF IInv, TypeInv
  <2> QED
    BY <2>1, ElementOfSeq, LenProperties
<1>2. id0 \in TaskIDs /\ requests[n].type \in Types
  BY <1>1 DEF TaskRequest
<1>3. LifeInv(Fresh(1)) /\ Fresh(1) \in Life
  BY FreshLife DEF LifeInv
<1>4. new \in Execution
  BY <1>1, <1>2, <1>3 DEF Execution
<1>5. executions \in [TaskIDs -> Seq(Execution)]
  BY DEF IInv, TypeInv
<1>6. CASE IsOpen(id0)
  <2>1. executions' = executions
    BY <1>6 DEF StartOrJoin
  <2>2. executions[id0] # <<>>
    BY <1>6 DEF IsOpen
  <2>3. Len(executions[id0]) \in DOMAIN executions[id0]
    BY <1>2, <1>5, <2>2, LastIndex
  <2>4. Grown
    BY <2>1 DEF Grown, Kept
  <2>5. \A id \in TaskIDs : \A k \in DOMAIN executions[id] :
            /\ LifeInv(executions[id][k].life)
            /\ executions[id][k].task \in DOMAIN requests
            /\ requests[executions[id][k].task].id = id
    BY DEF IInv, ExecutionInv
  <2> QED
    BY <1>2, <1>5, <2>1, <2>3, <2>4, <2>5
<1>7. CASE ~IsOpen(id0)
  <2>1. executions' = [ executions EXCEPT ![id0] = Append(@, new) ]
    BY <1>7 DEF StartOrJoin
  <2>2. /\ executions'[id0] = Append(executions[id0], new)
        /\ \A id \in TaskIDs \ {id0} : executions'[id] = executions[id]
    BY <1>2, <1>5, <2>1
  <2> DEFINE s == executions[id0]
  <2>3. s \in Seq(Execution)
    BY <1>2, <1>5
  <2>4. /\ Append(s, new) \in Seq(Execution)
        /\ \A i \in DOMAIN s : i \in DOMAIN Append(s, new) /\ Append(s, new)[i] = s[i]
        /\ Len(s) + 1 \in DOMAIN Append(s, new)
        /\ Append(s, new)[Len(s) + 1] = new
        /\ \A i \in DOMAIN Append(s, new) : i \in DOMAIN s \/ i = Len(s) + 1
    <3>1. /\ Append(s, new) \in Seq(Execution)
          /\ DOMAIN s = 1..Len(s) /\ Len(s) \in Nat
          /\ DOMAIN Append(s, new) = 1..(Len(s) + 1)
          /\ \A i \in DOMAIN s : i \in DOMAIN Append(s, new) /\ Append(s, new)[i] = s[i]
          /\ Len(s) + 1 \in DOMAIN Append(s, new)
          /\ Append(s, new)[Len(s) + 1] = new
      BY <1>4, <2>3, AppendFacts
    <3>2. \A i \in 1..(Len(s) + 1) : i \in 1..Len(s) \/ i = Len(s) + 1
      BY <3>1
    <3> QED
      BY <3>1, <3>2
  <2>5. executions' \in [TaskIDs -> Seq(Execution)]
    BY <1>2, <1>5, <2>1, <2>4
  <2>6. Grown
    BY <2>2, <2>4 DEF Grown, Kept
  <2>7. \A id \in TaskIDs : \A k \in DOMAIN executions'[id] :
            /\ LifeInv(executions'[id][k].life)
            /\ executions'[id][k].task \in DOMAIN requests
            /\ requests[executions'[id][k].task].id = id
    <3>1. ExecutionInv
      BY DEF IInv
    <3> SUFFICES ASSUME NEW id \in TaskIDs, NEW k \in DOMAIN executions'[id]
                 PROVE  /\ LifeInv(executions'[id][k].life)
                        /\ executions'[id][k].task \in DOMAIN requests
                        /\ requests[executions'[id][k].task].id = id
      OBVIOUS
    <3>2. CASE id # id0
      BY <2>2, <3>1, <3>2 DEF ExecutionInv
    <3>3. CASE id = id0 /\ k \in DOMAIN s
      BY <2>2, <2>4, <3>1, <3>3 DEF ExecutionInv
    <3>4. CASE id = id0 /\ k = Len(s) + 1
      BY <1>3, <2>2, <2>4, <3>4
    <3> QED
      BY <2>2, <2>4, <3>2, <3>3, <3>4
  <2>8. \E k \in DOMAIN executions'[id0] : executions'[id0][k].task = n
    BY <2>2, <2>4
  <2> QED
    BY <1>2, <2>5, <2>6, <2>7, <2>8
<1> QED
  BY <1>6, <1>7

(* A step of a workflow goes on with the last execution of its id. *)
LEMMA ProceedGrows ==
    ASSUME IInv, NEW id0 \in TaskIDs, Proceed(id0)
    PROVE  /\ executions' \in [TaskIDs -> Seq(Execution)]
           /\ Grown
           /\ ExecutionInv'
<1> DEFINE s == executions[id0]
           k0 == Len(s)
<1>1. executions \in [TaskIDs -> Seq(Execution)] /\ s # <<>>
  BY DEF IInv, TypeInv, Proceed, IsOpen
<1>2. k0 \in DOMAIN s /\ s[k0] \in Execution
  BY <1>1, LastIndex
<1>3. PICK l \in Successors(s[k0].life) :
          executions' = [ executions EXCEPT ![id0][k0].life = l ]
  BY DEF Proceed, LastOf
<1>4. LifeInv(s[k0].life)
  BY <1>2 DEF IInv, ExecutionInv
<1>5. LifeInv(l) /\ Kept(s[k0].life, l) /\ l \in Life
  BY <1>3, <1>4, SuccessorLife DEF LifeInv
<1> DEFINE e == [ s[k0] EXCEPT !.life = l ]
<1>6. e \in Execution /\ e.life = l /\ e.task = s[k0].task /\ e.type = s[k0].type
  BY <1>2, <1>5 DEF Execution
<1>7. executions' = [ executions EXCEPT ![id0] = [ s EXCEPT ![k0] = e ] ]
  BY <1>3
<1>8. [ s EXCEPT ![k0] = e ] \in Seq(Execution)
  BY <1>1, <1>2, <1>6, ExceptSeq
<1>9. executions' \in [TaskIDs -> Seq(Execution)]
  BY <1>1, <1>7, <1>8
<1>10. /\ executions'[id0] = [ s EXCEPT ![k0] = e ]
       /\ \A id \in TaskIDs \ {id0} : executions'[id] = executions[id]
  BY <1>1, <1>7
<1>11. /\ DOMAIN executions'[id0] = DOMAIN s
       /\ executions'[id0][k0] = e
       /\ \A k \in DOMAIN s \ {k0} : executions'[id0][k] = s[k]
  BY <1>2, <1>10
<1>12. Grown
  <2> SUFFICES ASSUME NEW id \in TaskIDs, NEW k \in DOMAIN executions[id]
               PROVE  /\ k \in DOMAIN executions'[id]
                      /\ executions'[id][k].task = executions[id][k].task
                      /\ executions'[id][k].type = executions[id][k].type
                      /\ Kept(executions[id][k].life, executions'[id][k].life)
    BY DEF Grown
  <2>1. CASE id # id0
    BY <1>10, <2>1 DEF Kept
  <2>2. CASE id = id0 /\ k # k0
    BY <1>11, <2>2 DEF Kept
  <2>3. CASE id = id0 /\ k = k0
    BY <1>5, <1>6, <1>11, <2>3
  <2> QED
    BY <2>1, <2>2, <2>3
<1>13. ExecutionInv'
  <2>1. requests' = requests
    BY DEF Proceed
  <2>2. ExecutionInv
    BY DEF IInv
  <2> SUFFICES ASSUME NEW id \in TaskIDs, NEW k \in DOMAIN executions'[id]
               PROVE  /\ LifeInv(executions'[id][k].life)
                      /\ executions'[id][k].task \in DOMAIN requests
                      /\ requests[executions'[id][k].task].id = id
    BY <2>1 DEF ExecutionInv
  <2>3. CASE id # id0
    BY <1>10, <2>2, <2>3 DEF ExecutionInv
  <2>4. CASE id = id0 /\ k # k0
    BY <1>11, <2>2, <2>4 DEF ExecutionInv
  <2>5. CASE id = id0 /\ k = k0
    <3>1. executions'[id][k].life = l /\ executions'[id][k].task = s[k0].task
      BY <1>6, <1>11, <2>5
    <3>2. s[k0].task \in DOMAIN requests /\ requests[s[k0].task].id = id
      BY <1>2, <2>2, <2>5 DEF ExecutionInv
    <3> QED
      BY <1>5, <3>1, <3>2
  <2> QED
    BY <2>3, <2>4, <2>5
<1> QED
  BY <1>9, <1>12, <1>13

(* What grows keeps the results that were told, for they were the last.    *)
LEMMA ResultsKept ==
    ASSUME IInv, Grown, ExecutionInv', results' = results,
           executions' \in [TaskIDs -> Seq(Execution)]
    PROVE  ResultInv'
<1> SUFFICES ASSUME NEW r \in results
             PROVE  /\ r.index \in DOMAIN executions'[r.id]
                    /\ Told(executions'[r.id][r.index], r.body)
  BY DEF ResultInv
<1>1. r.id \in TaskIDs
  BY DEF IInv, TypeInv
<1> DEFINE e == executions[r.id][r.index]
           f == executions'[r.id][r.index]
<1>2. r.index \in DOMAIN executions[r.id] /\ Told(e, r.body)
  BY DEF IInv, ResultInv
<1>3. r.index \in DOMAIN executions'[r.id] /\ f.type = e.type /\ Kept(e.life, f.life)
  BY <1>1, <1>2 DEF Grown
<1> HIDE DEF e, f
<1>4. Told(f, r.body)
  BY <1>2, <1>3, BodiesAreBodies DEF Told, Kept, ReturnsArtifact
<1> QED
  BY <1>3, <1>4 DEF f

(* So do the tasks that run. *)
LEMMA TasksKept ==
    ASSUME IInv, Grown, requests' = requests, ran' = ran
    PROVE  OwnTaskRuns'
<1> SUFFICES ASSUME NEW n \in ran
             PROVE  \/ \E e \in DOMAIN executions'[requests[n].id] :
                          executions'[requests[n].id][e].task = n
                    \/ \E m \in DOMAIN requests : Twins(m, n)
  BY DEF OwnTaskRuns, Twins
<1>1. n \in DOMAIN requests /\ requests \in Seq(TaskRequest)
  BY DEF IInv, TypeInv
<1>2. requests[n].id \in TaskIDs
  <2>1. requests[n] \in TaskRequest
    BY <1>1, ElementOfSeq, LenProperties
  <2> QED
    BY <2>1 DEF TaskRequest
<1>3. \/ \E e \in DOMAIN executions[requests[n].id] : executions[requests[n].id][e].task = n
      \/ \E m \in DOMAIN requests : Twins(m, n)
  BY DEF IInv, OwnTaskRuns
<1> QED
  BY <1>2, <1>3 DEF Grown

(* What an id is made of. *)
LEMMA IdParts ==
    ASSUME IInv, NEW n \in DOMAIN requests
    PROVE  /\ requests[n].id.tenant = sanitizeTenantID[requests[n].tenant]
           /\ requests[n].id.ts = requests[n].at
<1>1. requests[n].id = [ tenant |-> sanitizeTenantID[requests[n].tenant],
                         ts |-> requests[n].at ]
  BY DEF IInv, IdInv
<1> QED
  BY <1>1

(* Two requests with one id are of one slug and one millisecond. *)
LEMMA OneIdIsTwins ==
    ASSUME IInv, NEW m \in DOMAIN requests, NEW n \in DOMAIN requests, m # n,
           requests[m].id = requests[n].id
    PROVE  Twins(m, n)
  BY IdParts DEF Twins

-----------------------------------------------------------------------------
(* The actions. *)

(* Whoever calls is a tenant or carries none. *)
LEMMA CallerIsName == ASSUME NEW c \in Credentials PROVE Caller(c) \in Names
<1>1. c \in Credential
  BY APIAssumption
<1>2. c.kind \in {"none", "jwt", "api_key"} /\ c.tenant \in Tenants
  BY <1>1 DEF Credential
<1>3. authenticateTenant(c).tenant \in Names
  BY <1>2 DEF authenticateTenant, Names
<1> QED
  BY <1>3 DEF Caller, Names

(* A request to /run arrives and gets its id. *)
LEMMA RunNext ==
    ASSUME IInv, NEW c \in Credentials, NEW t \in Names, NEW type \in Types,
           Run(c, t, type)
    PROVE  IInv'
<1> DEFINE tenant == RunTenant(c, t)
           q == [ tenant |-> tenant, at |-> now, type |-> type, id |-> makeTaskID(tenant) ]
<1>1. tenant \in Names
  BY CallerIsName DEF RunTenant
<1>2. makeTaskID(tenant) \in TaskIDs
  BY <1>1 DEF makeTaskID, TaskIDs, IInv, TypeInv
<1>3. q \in TaskRequest
  BY <1>1, <1>2 DEF TaskRequest, IInv, TypeInv
<1>4. /\ requests' = Append(requests, q)
      /\ starting' = starting \cup {Len(requests) + 1}
      /\ UNCHANGED <<tenancy, now, executions, ran, results>>
  BY DEF Run
<1> DEFINE n == Len(requests) + 1
<1>5. requests \in Seq(TaskRequest)
  BY DEF IInv, TypeInv
<1>6. /\ requests' \in Seq(TaskRequest)
      /\ \A i \in DOMAIN requests : i \in DOMAIN requests' /\ requests'[i] = requests[i]
      /\ n \in DOMAIN requests'
      /\ requests'[n] = q
      /\ \A i \in DOMAIN requests' : i \in DOMAIN requests \/ i = n
  <2>1. /\ Append(requests, q) \in Seq(TaskRequest)
        /\ DOMAIN requests = 1..Len(requests) /\ Len(requests) \in Nat
        /\ DOMAIN Append(requests, q) = 1..(Len(requests) + 1)
        /\ \A i \in DOMAIN requests : i \in DOMAIN Append(requests, q)
                                      /\ Append(requests, q)[i] = requests[i]
        /\ Len(requests) + 1 \in DOMAIN Append(requests, q)
        /\ Append(requests, q)[Len(requests) + 1] = q
    BY <1>3, <1>5, AppendFacts
  <2>2. \A i \in 1..(Len(requests) + 1) : i \in 1..Len(requests) \/ i = Len(requests) + 1
    BY <2>1
  <2> QED
    BY <1>4, <2>1, <2>2
<1> HIDE DEF n, q
<1>7. TypeInv'
  BY <1>4, <1>6 DEF IInv, TypeInv, n
<1>8. IdInv'
  <2>1. q.id = [ tenant |-> sanitizeTenantID[q.tenant], ts |-> q.at ]
    BY DEF q, makeTaskID
  <2> QED
    BY <1>6, <2>1 DEF IInv, IdInv
<1>9. ExecutionInv'
  BY <1>4, <1>6 DEF IInv, ExecutionInv
<1>10. ResultInv'
  BY <1>4 DEF IInv, ResultInv
<1>11. OwnTaskRuns'
  <2>1. ran \subseteq DOMAIN requests
    BY DEF IInv, TypeInv
  <2> SUFFICES ASSUME NEW k \in ran
               PROVE  \/ \E e \in DOMAIN executions[requests[k].id] :
                            executions[requests[k].id][e].task = k
                      \/ \E m \in DOMAIN requests' : Twins(m, k)'
    BY <1>4, <1>6, <2>1 DEF OwnTaskRuns
  <2>2. \/ \E e \in DOMAIN executions[requests[k].id] : executions[requests[k].id][e].task = k
        \/ \E m \in DOMAIN requests : Twins(m, k)
    BY DEF IInv, OwnTaskRuns
  <2>3. \A m \in DOMAIN requests : Twins(m, k) => Twins(m, k)'
    BY <1>6, <2>1 DEF Twins
  <2> QED
    BY <1>6, <2>2, <2>3
<1> QED
  BY <1>7, <1>8, <1>9, <1>10, <1>11 DEF IInv

(* Temporal starts the workflow of a request, or joins the one that runs. *)
LEMMA StartedNext ==
    ASSUME IInv, NEW n \in starting, Started(n)
    PROVE  IInv'
<1>1. n \in DOMAIN requests
  BY DEF IInv, TypeInv
<1>2. StartOrJoin(n) /\ UNCHANGED <<tenancy, now, requests, results>>
      /\ starting' = starting \ {n} /\ ran' = ran \cup {n}
  BY DEF Started
<1>3. /\ executions' \in [TaskIDs -> Seq(Execution)]
      /\ Grown
      /\ ExecutionInv'
      /\ \/ \E k \in DOMAIN executions'[requests[n].id] :
              executions'[requests[n].id][k].task = n
         \/ \E m \in DOMAIN requests : m # n /\ requests[m].id = requests[n].id
  BY <1>1, <1>2, StartGrows DEF ExecutionInv
<1>4. TypeInv'
  BY <1>1, <1>2, <1>3 DEF IInv, TypeInv
<1>5. IdInv'
  BY <1>2 DEF IInv, IdInv
<1>6. ResultInv'
  BY <1>2, <1>3, ResultsKept
<1>7. OwnTaskRuns'
  <2> SUFFICES ASSUME NEW k \in ran'
               PROVE  \/ \E e \in DOMAIN executions'[requests[k].id] :
                            executions'[requests[k].id][e].task = k
                      \/ \E m \in DOMAIN requests : Twins(m, k)
    BY <1>2 DEF OwnTaskRuns, Twins
  <2>1. CASE k = n
    BY <1>1, <1>3, <2>1, OneIdIsTwins
  <2>2. CASE k \in ran
    <3>1. k \in DOMAIN requests /\ requests \in Seq(TaskRequest)
      BY <2>2 DEF IInv, TypeInv
    <3>2. requests[k] \in TaskRequest
      BY <3>1, ElementOfSeq, LenProperties
    <3>3. \/ \E e \in DOMAIN executions[requests[k].id] :
                executions[requests[k].id][e].task = k
          \/ \E m \in DOMAIN requests : Twins(m, k)
      BY <2>2 DEF IInv, OwnTaskRuns
    <3> QED
      BY <1>3, <3>2, <3>3 DEF Grown, TaskRequest
  <2> QED
    BY <1>2, <2>1, <2>2
<1> QED
  BY <1>3, <1>4, <1>5, <1>6, <1>7 DEF IInv

(* The call fails, whether or not Temporal has started the workflow. *)
LEMMA StartFailedNext ==
    ASSUME IInv, NEW n \in starting, StartFailed(n)
    PROVE  IInv'
<1>1. n \in DOMAIN requests
  BY DEF IInv, TypeInv
<1>2. UNCHANGED <<tenancy, now, requests, ran, results>> /\ starting' = starting \ {n}
  BY DEF StartFailed
<1>3. /\ executions' \in [TaskIDs -> Seq(Execution)]
      /\ Grown
      /\ ExecutionInv'
  <2>1. CASE StartOrJoin(n)
    BY <1>1, <1>2, <2>1, StartGrows DEF ExecutionInv
  <2>2. CASE UNCHANGED executions
    BY <1>2, <2>2 DEF IInv, TypeInv, ExecutionInv, Grown, Kept
  <2> QED
    BY <2>1, <2>2 DEF StartFailed
<1>4. TypeInv'
  BY <1>2, <1>3 DEF IInv, TypeInv
<1>5. IdInv'
  BY <1>2 DEF IInv, IdInv
<1>6. ResultInv' /\ OwnTaskRuns'
  BY <1>2, <1>3, ResultsKept, TasksKept
<1> QED
  BY <1>3, <1>4, <1>5, <1>6 DEF IInv

(* A workflow goes on with its life. *)
LEMMA ProceedNext ==
    ASSUME IInv, NEW id \in Known, Proceed(id)
    PROVE  IInv'
<1>1. id \in TaskIDs
  <2>1. requests \in Seq(TaskRequest)
    BY DEF IInv, TypeInv
  <2>2. \A k \in DOMAIN requests : requests[k] \in TaskRequest
    BY <2>1, ElementOfSeq, LenProperties
  <2> QED
    BY <2>2 DEF Known, TaskRequest
<1>2. UNCHANGED <<tenancy, now, requests, starting, ran, results>>
  BY DEF Proceed
<1>3. /\ executions' \in [TaskIDs -> Seq(Execution)]
      /\ Grown
      /\ ExecutionInv'
  BY <1>1, ProceedGrows
<1>4. TypeInv'
  BY <1>2, <1>3 DEF IInv, TypeInv
<1>5. IdInv'
  BY <1>2 DEF IInv, IdInv
<1>6. ResultInv' /\ OwnTaskRuns'
  BY <1>2, <1>3, ResultsKept, TasksKept
<1> QED
  BY <1>3, <1>4, <1>5, <1>6 DEF IInv

(* An answer of /result adds what its execution tells. *)
LEMMA ResultNext ==
    ASSUME IInv, NEW id \in Known, NEW k \in DOMAIN executions[id], NEW b,
           Told(executions[id][k], b),
           results' = results \cup {[ id |-> id, index |-> k, body |-> b ]},
           UNCHANGED <<tenancy, now, requests, starting, executions, ran>>
    PROVE  IInv'
<1>1. id \in TaskIDs
  <2>1. requests \in Seq(TaskRequest)
    BY DEF IInv, TypeInv
  <2>2. \A i \in DOMAIN requests : requests[i] \in TaskRequest
    BY <2>1, ElementOfSeq, LenProperties
  <2> QED
    BY <2>2 DEF Known, TaskRequest
<1>2. k \in Nat
  <2>1. executions[id] \in Seq(Execution)
    BY <1>1 DEF IInv, TypeInv
  <2>2. DOMAIN executions[id] = 1..Len(executions[id]) /\ Len(executions[id]) \in Nat
    BY <2>1, LenProperties
  <2> QED
    BY <2>2
<1>3. TypeInv'
  <2>1. b \in Bodies \cup {"empty"}
    BY DEF Told
  <2> QED
    BY <1>1, <1>2, <2>1 DEF IInv, TypeInv
<1>4. IdInv' /\ ExecutionInv'
  BY DEF IInv, IdInv, ExecutionInv
<1>5. ResultInv'
  BY DEF IInv, ResultInv, Told, ReturnsArtifact
<1>6. OwnTaskRuns'
  BY DEF IInv, OwnTaskRuns, Twins
<1> QED
  BY <1>3, <1>4, <1>5, <1>6 DEF IInv

(* /result is answered by the query. *)
LEMMA ResultByQueryNext ==
    ASSUME IInv, NEW c \in Credentials, NEW id \in Known, ResultByQuery(c, id)
    PROVE  IInv'
<1> DEFINE k == Len(executions[id])
           b == LastOf(id).life.result
<1>1. id \in TaskIDs
  <2>1. requests \in Seq(TaskRequest)
    BY DEF IInv, TypeInv
  <2>2. \A i \in DOMAIN requests : requests[i] \in TaskRequest
    BY <2>1, ElementOfSeq, LenProperties
  <2> QED
    BY <2>2 DEF Known, TaskRequest
<1>2. executions[id] \in Seq(Execution) /\ executions[id] # <<>>
  BY <1>1 DEF IInv, TypeInv, ResultByQuery
<1>3. k \in DOMAIN executions[id] /\ executions[id][k] \in Execution
  BY <1>2, LastIndex
<1>4. b = executions[id][k].life.result
  BY DEF LastOf
<1>5. Told(executions[id][k], b)
  <2>1. b # "empty" /\ ReturnsArtifact(executions[id][k])
    BY DEF ResultByQuery, HasResult, HasHandlers, ReturnsArtifact, LastOf
  <2>2. b \in Bodies
    BY <1>3, <1>4, <2>1 DEF Execution, Life
  <2> QED
    BY <1>4, <2>1, <2>2 DEF Told
<1>6. /\ results' = results \cup {[ id |-> id, index |-> k, body |-> b ]}
      /\ UNCHANGED <<tenancy, now, requests, starting, executions, ran>>
  BY DEF ResultByQuery
<1> HIDE DEF k, b
<1> QED
  BY <1>3, <1>4, <1>5, <1>6, ResultNext

(* /result is answered by waiting for the end. *)
LEMMA ResultByWaitingNext ==
    ASSUME IInv, NEW c \in Credentials, NEW id \in Known, NEW k, ResultByWaiting(c, id, k)
    PROVE  IInv'
<1> DEFINE b == Decoded(executions[id][k])
<1>1. id \in TaskIDs
  <2>1. requests \in Seq(TaskRequest)
    BY DEF IInv, TypeInv
  <2>2. \A i \in DOMAIN requests : requests[i] \in TaskRequest
    BY <2>1, ElementOfSeq, LenProperties
  <2> QED
    BY <2>2 DEF Known, TaskRequest
<1>2. /\ k \in DOMAIN executions[id]
      /\ executions[id][k].life.outcome \notin {"open", "error"}
  BY DEF ResultByWaiting
<1>3. Told(executions[id][k], b)
  <2>1. executions[id][k].life \in Life
    BY <1>1, <1>2 DEF IInv, ExecutionInv, LifeInv
  <2>2. executions[id][k].life.outcome \in Bodies
    BY <1>2, <2>1 DEF Life
  <2> QED
    BY <1>2, <2>2 DEF Told, Decoded
<1>4. /\ results' = results \cup {[ id |-> id, index |-> k, body |-> b ]}
      /\ UNCHANGED <<tenancy, now, requests, starting, executions, ran>>
  BY DEF ResultByWaiting
<1> HIDE DEF b
<1> QED
  BY <1>2, <1>3, <1>4, ResultNext

(* The clock goes on. *)
LEMMA TickNext == ASSUME IInv, Tick PROVE IInv'
<1>1. UNCHANGED <<tenancy, requests, starting, executions, ran, results>>
  BY DEF Tick
<1>2. now' \in 0..MaxTime
  <2>1. MaxTime \in Nat
    BY APIAssumption
  <2> QED
    BY <2>1 DEF Tick, IInv, TypeInv
<1>3. TypeInv'
  BY <1>1, <1>2 DEF IInv, TypeInv
<1> QED
  BY <1>1, <1>3 DEF IInv, IdInv, ExecutionInv, ResultInv, OwnTaskRuns, Twins

(* IInv is inductive: it holds at the start and every request, every       *)
(* answer of Temporal, every step of a workflow and the clock keep it.     *)
THEOREM Inductive == Spec => []IInv
<1>1. IInv /\ [Next]_vars => IInv'
  <2> SUFFICES ASSUME IInv, [Next]_vars PROVE IInv'
    OBVIOUS
  <2>1. CASE UNCHANGED vars
    BY <2>1 DEF vars, IInv, TypeInv, IdInv, ExecutionInv, ResultInv, OwnTaskRuns, Twins
  <2>2. CASE \E c \in Credentials, t \in Names, type \in Types : Run(c, t, type)
    BY <2>2, RunNext
  <2>3. CASE \E n \in starting : Started(n) \/ StartFailed(n)
    BY <2>3, StartedNext, StartFailedNext
  <2>4. CASE \E c \in Credentials, id \in Known : ResultByQuery(c, id)
    BY <2>4, ResultByQueryNext
  <2>5. CASE \E c \in Credentials, id \in Known :
                 \E k \in 1..MaxRequests : ResultByWaiting(c, id, k)
    BY <2>5, ResultByWaitingNext
  <2>6. CASE \E id \in Known : Proceed(id)
    BY <2>6, ProceedNext
  <2>7. CASE Tick
    BY <2>7, TickNext
  <2> QED
    BY <2>1, <2>2, <2>3, <2>4, <2>5, <2>6, <2>7 DEF Next
<1> QED
  BY InitInv, <1>1, PTL DEF Spec

(* The endpoints keep their types: requests are for known tenants, results *)
(* are artifacts, and what is started was requested.                       *)
THEOREM TypeCorrect == Spec => []TypeInv
<1>1. IInv => TypeInv
  BY DEF IInv
<1> QED
  BY Inductive, <1>1, PTL

(* A caller of /run that was answered with 200 has its own task run, or    *)
(* shares its slug and its millisecond with another request (makeTaskID).  *)
THEOREM CallersOwnTasksRun == Spec => []OwnTaskRuns
<1>1. IInv => OwnTaskRuns
  BY DEF IInv
<1> QED
  BY Inductive, <1>1, PTL

(* Whichever way /result got the artifact of an incident task, it is the   *)
(* one the workflow told and returns, for all lives that TaskLives allows; *)
(* about a runbook task it tells an empty one, and only after its end.     *)
THEOREM ResultsAreFinal == Spec => []ResultIsFinal
<1>1. IInv => ResultIsFinal
  <2> SUFFICES ASSUME IInv, NEW r \in results
               PROVE  LET e == executions[r.id][r.index] IN
                      IF ReturnsArtifact(e)
                      THEN /\ r.body \in UNION { Artifacts[s] : s \in DOMAIN Artifacts }
                           /\ e.life.result \in {"empty", r.body}
                           /\ e.life.outcome \in {"open", r.body}
                      ELSE r.body = "empty" /\ e.life.outcome \notin {"open", "error"}
    BY DEF ResultIsFinal
  <2> DEFINE e == executions[r.id][r.index]
             l == e.life
  <2>1. r.id \in TaskIDs
    BY DEF IInv, TypeInv
  <2>2. r.index \in DOMAIN executions[r.id] /\ Told(e, r.body)
    BY DEF IInv, ResultInv
  <2>3. LifeInv(l)
    BY <2>1, <2>2 DEF IInv, ExecutionInv
  <2>4. CASE ReturnsArtifact(e)
    <3>1. r.body \in Bodies /\ r.body \in {l.result, l.outcome}
      BY <2>2, <2>4 DEF Told
    <3>2. r.body \notin {"empty", "open", "error"}
      BY <3>1, BodiesAreBodies
    <3> HIDE DEF l
    <3>3. l.status \in {"completed", "denied"}
      BY <2>3, <3>1, <3>2 DEF LifeInv, Life, Final
    <3>4. l.result \in {"empty", r.body} /\ l.outcome \in {"open", r.body}
      BY <2>3, <3>1, <3>2, <3>3 DEF LifeInv, Life, Final
    <3> QED
      BY <2>4, <3>1, <3>4 DEF Bodies, l
  <2>5. CASE ~ReturnsArtifact(e)
    BY <2>2, <2>5 DEF Told
  <2> QED
    BY <2>4, <2>5
<1> QED
  BY Inductive, <1>1, PTL

(* Every endpoint serves a task to its tenant and refuses it to others, if *)
(* both have their slug as their name.                                     *)
THEOREM OwnersAreAlwaysServed == Spec => []OwnersAreServed
<1>1. IInv => OwnersAreServed
  <2> SUFFICES ASSUME IInv, NEW c \in Credentials, NEW op \in Endpoints,
                      NEW n \in DOMAIN requests,
                      Caller(c) # NoTenant, requests[n].tenant # NoTenant,
                      sanitizeTenantID[requests[n].tenant] = requests[n].tenant
               PROVE  /\ Caller(c) = requests[n].tenant =>
                             403 \notin Codes(op, c, requests[n].id)
                      /\ Caller(c) # requests[n].tenant =>
                             Codes(op, c, requests[n].id) \subseteq {401, 403}
    BY DEF OwnersAreServed
  <2> DEFINE owner == requests[n].tenant
  <2>1. owner \in Tenants
    <3>1. requests \in Seq(TaskRequest)
      BY DEF IInv, TypeInv
    <3>2. requests[n] \in TaskRequest
      BY <3>1, ElementOfSeq, LenProperties
    <3> QED
      BY <3>2 DEF TaskRequest, Names
  <2>2. tenantFromTaskID(requests[n].id) = owner /\ owner # ""
    <3>1. requests[n].id.tenant = owner
      BY IdParts
    <3> QED
      BY <2>1, <3>1, APIAssumption DEF tenantFromTaskID
  <2>3. extractsTaskID(op)
    BY DEF Endpoints, Signals, extractsTaskID
  <2>4. Forbidden(c, op, requests[n].id) <=> Caller(c) # owner
    BY <2>2, <2>3 DEF Forbidden
  <2> HIDE DEF owner
  <2>5. CASE Caller(c) = owner
    <3>1. ~Forbidden(c, op, requests[n].id)
      BY <2>4, <2>5
    <3>2. 403 \notin Codes(op, c, requests[n].id)
      BY <3>1 DEF Codes
    <3> QED
      BY <2>5, <3>2 DEF owner
  <2>6. CASE Caller(c) # owner
    <3>1. Codes(op, c, requests[n].id) \subseteq {401, 403}
      BY <2>4, <2>6 DEF Codes
    <3> QED
      BY <2>6, <3>1 DEF owner
  <2> QED
    BY <2>5, <2>6
<1> QED
  BY Inductive, <1>1, PTL

=============================================================================
