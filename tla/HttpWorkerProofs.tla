--------------------------- MODULE HttpWorkerProofs ---------------------------
(***************************************************************************)
(* Theorems about HttpWorker, for every set of requests, every size of the *)
(* pool, every timeout and every number of promotions and restarts.        *)
(***************************************************************************)
EXTENDS HttpWorker, QueueLemmas, FiniteSetTheorems, TLAPS

------------------------------------------------------------------------------
(* The steps of the worker as steps of its adapter. *)

LEMMA InitLoads == Init => Adapter!Init
  BY DEF Init

LEMMA NextLoads == [Next]_vars => [Adapter!Next]_(Adapter!vars)
  <1> SUFFICES ASSUME [Next]_vars, ~ UNCHANGED Adapter!vars PROVE Adapter!Next
    OBVIOUS
  <1> USE DEF adapterVars, Adapter!vars, Adapter!process
  <1>1. ASSUME NEW r \in Requests, Send(r) PROVE FALSE
    BY <1>1 DEF Send
  <1>2. ASSUME NEW r \in Requests, WorkerStep(r) PROVE Adapter!Next
    <2>1. ASSUME Dispatch(r) \/ Live(r) \/ Ready(r) \/ Answer(r)
                 \/ FinishInvocation(r)
          PROVE  FALSE
      BY <2>1 DEF Dispatch, Live, Ready, Answer, FinishInvocation
    <2>2. CASE CheckReady(r) \/ Invoke(r)
      BY <2>2 DEF CheckReady, Invoke, Adapter!Next
    <2>3. CASE EnsureStep(r)
      BY <2>3 DEF EnsureStep, Adapter!Next, Adapter!Step
    <2>4. QED
      BY <1>2, <2>1, <2>2, <2>3 DEF WorkerStep
  <1>3. ASSUME NEW r \in Requests, LoadStep(r) PROVE Adapter!Next
    BY <1>3 DEF LoadStep, Adapter!Next, Adapter!Step
  <1>4. CASE Promote
    BY <1>4 DEF Promote, Adapter!Next
  <1>5. CASE Kill
    BY <1>5 DEF Kill, Adapter!Next
  <1>6. ASSUME Tick \/ Notify \/ AllDone \/ UNCHANGED vars PROVE FALSE
    BY <1>6 DEF Tick, Notify, AllDone, vars
  <1>7. QED
    BY <1>1, <1>2, <1>3, <1>4, <1>5, <1>6 DEF Next

(* The loop, the pool and the watchdog use the adapter as AdapterLoading   *)
(* says: whatever it proves of its callers holds for the requests of the   *)
(* worker.                                                                 *)
THEOREM LoadsAsSpecified == Spec => ImplementsLoading
  <1>1. Init => Adapter!Init
    BY InitLoads
  <1>2. [Next]_vars => [Adapter!Next]_(Adapter!vars)
    BY NextLoads
  <1>3. QED
    BY <1>1, <1>2, PTL DEF Spec, ImplementsLoading, Adapter!Spec

------------------------------------------------------------------------------
(* Who may be where.                                                       *)

(* The heartbeat gets old only while an invocation holds the loop. *)
HeartbeatOK == age <= NotifyEvery + 1 + busy

(* The probes in line wait for a thread, each of them once. *)
QueueOK ==
    /\ Distinct(queue)
    /\ \A i \in DOMAIN queue : phase[queue[i]] = "queued"

(* Whoever calls _ensure_adapter_loaded is an invocation on the loop or a  *)
(* probe in its thread.                                                    *)
CallersOK ==
    \A r \in Requests :
        /\ phase[r] \in {"queued", "thread", "checking", "answering"} => r \in Probes
        /\ at[r] # "out" => phase[r] = "checking" \/ loop = r

(* Dispatch never takes more threads than there are. *)
PoolOK == Cardinality(Taken) <= PoolSize

IInv ==
    /\ TypeOK
    /\ HeartbeatOK
    /\ QueueOK
    /\ CallersOK
    /\ PoolOK

LEMMA LoopNotTaken == \A r \in Requests : r # Free
  BY RequestsAssumption

LEMMA NotifyType == NotifyEvery \in Nat /\ NotifyEvery <= Timeout
  BY TimeoutAssumption DEF NotifyEvery

LEMMA TakenFinite == IsFiniteSet(Taken)
  <1>1. Taken \in SUBSET Requests
    BY DEF Taken, Requests
  <1>2. QED
    BY <1>1, RequestsAssumption, FS_Subset

(* Whoever joins a finite set makes it larger by one at most. *)
LEMMA AddOne ==
    ASSUME NEW S, NEW x, IsFiniteSet(S)
    PROVE  Cardinality(S \cup {x}) <= Cardinality(S) + 1
  <1>1. Cardinality(S) \in Nat
    BY FS_CardinalityType
  <1>2. Cardinality(S \cup {x}) = Cardinality(S) \/ Cardinality(S \cup {x}) = Cardinality(S) + 1
    BY FS_AddElement, Zenon
  <1>3. QED
    BY <1>1, <1>2

(* What an adapter's step keeps. *)
LEMMA AdapterType == Adapter!TypeOK /\ [Adapter!Next]_(Adapter!vars) => Adapter!TypeOK'
  <1> SUFFICES ASSUME Adapter!TypeOK, [Adapter!Next]_(Adapter!vars)
               PROVE  Adapter!TypeOK'
    OBVIOUS
  <1> USE DEF Adapter!TypeOK, Adapter!process, Adapter!Places
  <1>1. CASE UNCHANGED Adapter!vars
    BY <1>1 DEF Adapter!vars
  <1>2. CASE Adapter!Promote
    BY <1>2, VersionsAssumption DEF Adapter!Promote, Adapter!Versions
  <1>3. CASE Adapter!Restart
    BY <1>3, StartsAssumption DEF Adapter!Restart
  <1>4. ASSUME NEW r \in Requests, Adapter!Enter(r) PROVE Adapter!TypeOK'
    BY <1>4 DEF Adapter!Enter
  <1>5. ASSUME NEW r \in Requests, Adapter!Step(r) PROVE Adapter!TypeOK'
    <2>1. CASE Adapter!Test(r)
      BY <2>1 DEF Adapter!Test
    <2>2. CASE Adapter!Resolve(r)
      BY <2>2 DEF Adapter!Resolve
    <2>3. CASE Adapter!LoadFails(r)
      BY <2>3 DEF Adapter!LoadFails
    <2>4. CASE Adapter!Install(r)
      BY <2>4 DEF Adapter!Install
    <2>5. CASE Adapter!Read(r)
      BY <2>5 DEF Adapter!Read
    <2>6. QED
      BY <1>5, <2>1, <2>2, <2>3, <2>4, <2>5 DEF Adapter!Step
  <1>6. QED
    BY <1>1, <1>2, <1>3, <1>4, <1>5 DEF Adapter!Next

LEMMA InitIInv == Init => IInv
  <1> SUFFICES ASSUME Init PROVE IInv
    OBVIOUS
  <1>1. Adapter!TypeOK
    BY VersionsAssumption, StartsAssumption
       DEF Init, Adapter!Init, Adapter!TypeOK, Adapter!Places, Adapter!Versions,
           Adapter!NoAdapter
  <1>2. TypeOK
    BY <1>1, TimeoutAssumption DEF Init, TypeOK, Phases
  <1>3. HeartbeatOK
    BY NotifyType DEF Init, HeartbeatOK
  <1>4. QueueOK /\ CallersOK
    BY DEF Init, QueueOK, CallersOK, Distinct, Adapter!Init
  <1>5. Taken = {}
    BY DEF Init, Taken, Requests
  <1>6. QED
    BY <1>2, <1>3, <1>4, <1>5, FS_EmptySet, PoolAssumption DEF IInv, PoolOK

------------------------------------------------------------------------------
(* Each part of the invariant from step to step.                           *)

LEMMA NextTypes == TypeOK /\ [Next]_vars => TypeOK'
  <1> SUFFICES ASSUME TypeOK, [Next]_vars PROVE TypeOK'
    OBVIOUS
  <1>1. Adapter!TypeOK'
    BY NextLoads, AdapterType DEF TypeOK
  <1>2. (age \in 0 .. Timeout + 1 /\ busy \in 0 .. age)'
    BY TimeoutAssumption DEF TypeOK, Next, Send, WorkerStep, Dispatch, Live,
       CheckReady, Ready, Answer, Invoke, FinishInvocation, EnsureStep, LoadStep,
       Promote, Tick, Notify, Kill, AllDone, vars, watchdog
  <1>3. loop' \in Invocations \cup {Free}
    BY DEF TypeOK, Next, Send, WorkerStep, Dispatch, Live, CheckReady, Ready,
       Answer, Invoke, FinishInvocation, EnsureStep, LoadStep, Promote, Tick,
       Notify, Kill, AllDone, vars
  <1>4. phase' \in [Requests -> Phases] /\ queue' \in Seq(Probes)
    <2>1. ASSUME phase' = phase, queue' = queue
          PROVE  phase' \in [Requests -> Phases] /\ queue' \in Seq(Probes)
      BY <2>1 DEF TypeOK
    <2>2. ASSUME NEW r \in Requests, NEW p \in Phases, queue' = queue,
                 phase' = [phase EXCEPT ![r] = p]
          PROVE  phase' \in [Requests -> Phases] /\ queue' \in Seq(Probes)
      BY <2>2 DEF TypeOK
    <2>3. ASSUME NEW r \in Requests, Dispatch(r)
          PROVE  phase' \in [Requests -> Phases] /\ queue' \in Seq(Probes)
      <3>1. /\ r \in Probes
            /\ phase' \in {[phase EXCEPT ![r] = "thread"], [phase EXCEPT ![r] = "queued"]}
            /\ queue' \in {queue, Append(queue, r)}
        BY <2>3 DEF Dispatch
      <3>2. QED
        BY <3>1 DEF TypeOK, Phases
    <2>4. ASSUME NEW r \in Requests, Answer(r)
          PROVE  phase' \in [Requests -> Phases] /\ queue' \in Seq(Probes)
      BY <2>4 DEF TypeOK, Answer, Phases
    <2>5. CASE Kill
      BY <2>5 DEF Kill, TypeOK, Phases
    <2>6. /\ "sent" \in Phases /\ "answering" \in Phases /\ "checking" \in Phases
          /\ "onLoop" \in Phases /\ "done" \in Phases
      BY DEF Phases
    <2>7. ASSUME NEW r \in Requests,
                 Send(r) \/ Live(r) \/ CheckReady(r) \/ Ready(r) \/ Invoke(r)
                         \/ FinishInvocation(r)
          PROVE  phase' \in [Requests -> Phases] /\ queue' \in Seq(Probes)
      BY <2>2, <2>6, <2>7 DEF Send, Live, CheckReady, Ready, Invoke, FinishInvocation
    <2>8. ASSUME NEW r \in Requests, EnsureStep(r) \/ LoadStep(r)
          PROVE  phase' = phase /\ queue' = queue
      BY <2>8 DEF EnsureStep, LoadStep
    <2>9. ASSUME Promote \/ Tick \/ Notify \/ AllDone \/ UNCHANGED vars
          PROVE  phase' = phase /\ queue' = queue
      BY <2>9 DEF Promote, Tick, Notify, AllDone, vars
    <2>10. QED
      BY <2>1, <2>3, <2>4, <2>5, <2>7, <2>8, <2>9 DEF Next, WorkerStep
  <1>5. QED
    BY <1>1, <1>2, <1>3, <1>4 DEF TypeOK

LEMMA NextHeartbeat == TypeOK /\ HeartbeatOK /\ [Next]_vars => HeartbeatOK'
  <1> SUFFICES ASSUME TypeOK, HeartbeatOK, [Next]_vars PROVE HeartbeatOK'
    OBVIOUS
  <1> USE NotifyType DEF HeartbeatOK
  <1>1. NotifyEvery' = NotifyEvery
    BY DEF NotifyEvery
  <1>2. CASE Tick
    <2>1. CASE loop = Free
      BY <1>1, <1>2, <2>1 DEF Tick, TypeOK
    <2>2. CASE loop \in Invocations
      BY <1>1, <1>2, <2>2 DEF Tick, TypeOK
    <2>3. QED
      BY <2>1, <2>2 DEF TypeOK
  <1>3. CASE Notify \/ Kill
    BY <1>1, <1>3 DEF Notify, Kill
  <1>4. CASE ~ (Tick \/ Notify \/ Kill)
    <2>1. age' = age /\ busy' = busy
      BY <1>4 DEF Next, Send, WorkerStep, Dispatch, Live, CheckReady, Ready,
         Answer, Invoke, FinishInvocation, EnsureStep, LoadStep, Promote,
         AllDone, vars, watchdog
    <2>2. QED
      BY <1>1, <2>1
  <1>5. QED
    BY <1>2, <1>3, <1>4

LEMMA NextQueue == IInv /\ [Next]_vars => QueueOK'
  <1> SUFFICES ASSUME IInv, [Next]_vars PROVE QueueOK'
    OBVIOUS
  <1> USE DEF IInv, TypeOK, QueueOK
  <1>1. \A i \in DOMAIN queue : queue[i] \in Probes /\ queue[i] \in Requests
    BY DEF Requests
  <1>2. ASSUME NEW r \in Requests, NEW p \in Phases, queue' = queue,
               phase' = [phase EXCEPT ![r] = p], phase[r] # "queued"
        PROVE  QueueOK'
    BY <1>1, <1>2 DEF Distinct
  <1>3. ASSUME NEW r \in Requests, Dispatch(r) PROVE QueueOK'
    <2>1. CASE queue' = queue
      BY <1>1, <1>3, <2>1 DEF Dispatch, Distinct
    <2>2. CASE queue' = Append(queue, r) /\ phase' = [phase EXCEPT ![r] = "queued"]
      <3>1. r \in Probes /\ phase[r] = "sent"
        BY <1>3 DEF Dispatch
      <3>2. \A i \in DOMAIN queue : queue[i] # r
        BY <3>1
      <3>3. Distinct(queue')
        BY <2>2, <3>1, <3>2, AppendDistinct DEF ToSet
      <3>4. \A i \in DOMAIN queue' : queue'[i] = r \/ \E j \in DOMAIN queue : queue'[i] = queue[j]
        BY <2>2, <3>1
      <3>5. QED
        BY <1>1, <2>2, <3>3, <3>4
    <2>3. QED
      BY <1>3, <2>1, <2>2 DEF Dispatch
  <1>4. ASSUME NEW r \in Requests, Answer(r) PROVE QueueOK'
    <2>1. CASE queue = <<>>
      BY <1>4, <2>1 DEF Answer, Distinct
    <2>2. CASE queue # <<>>
      <3>1. /\ phase[r] = "answering"
            /\ queue' = Tail(queue)
            /\ phase' = [phase EXCEPT ![r] = "done", ![Head(queue)] = "thread"]
        BY <1>4, <2>2 DEF Answer
      <3>2. /\ Distinct(queue')
            /\ ToSet(queue') = ToSet(queue) \ {Head(queue)}
        BY <2>2, <3>1, TailDistinct
      <3>3. \A i \in DOMAIN queue' :
                queue'[i] # Head(queue) /\ \E j \in DOMAIN queue : queue'[i] = queue[j]
        BY <3>2 DEF ToSet
      <3>4. QED
        BY <1>1, <3>1, <3>2, <3>3
    <2>3. QED
      BY <2>1, <2>2
  <1>5. CASE Kill
    BY <1>5 DEF Kill, Distinct
  <1>6. /\ "sent" \in Phases /\ "answering" \in Phases /\ "checking" \in Phases
        /\ "onLoop" \in Phases /\ "done" \in Phases
    BY DEF Phases
  <1>7. ASSUME NEW r \in Requests,
               Send(r) \/ Live(r) \/ CheckReady(r) \/ Ready(r) \/ Invoke(r)
        PROVE  QueueOK'
    BY <1>2, <1>6, <1>7 DEF Send, Live, CheckReady, Ready, Invoke
  <1>8. ASSUME NEW r \in Requests, FinishInvocation(r) PROVE QueueOK'
    <2>1. r \in Invocations /\ r \notin Probes
      BY <1>8, LoopNotTaken, RequestsAssumption DEF FinishInvocation
    <2>2. QED
      BY <1>1, <1>8, <2>1 DEF FinishInvocation
  <1>9. ASSUME phase' = phase, queue' = queue PROVE QueueOK'
    BY <1>9
  <1>10. ASSUME NEW r \in Requests, EnsureStep(r) \/ LoadStep(r)
        PROVE  phase' = phase /\ queue' = queue
    BY <1>10 DEF EnsureStep, LoadStep
  <1>11. ASSUME Promote \/ Tick \/ Notify \/ AllDone \/ UNCHANGED vars
        PROVE  phase' = phase /\ queue' = queue
    BY <1>11 DEF Promote, Tick, Notify, AllDone, vars
  <1>12. QED
    BY <1>3, <1>4, <1>5, <1>7, <1>8, <1>9, <1>10, <1>11 DEF Next, WorkerStep

LEMMA NextCallers == IInv /\ [Next]_vars => CallersOK'
  <1> SUFFICES ASSUME IInv, [Next]_vars PROVE CallersOK'
    OBVIOUS
  <1> USE LoopNotTaken DEF IInv, TypeOK, CallersOK
  <1> DEFINE InPool == {"queued", "thread", "checking", "answering"}
  <1>1. at \in [Requests -> Adapter!Places]
    BY DEF Adapter!TypeOK
  <1>2. ASSUME NEW r \in Requests, Send(r) \/ Live(r) \/ Ready(r) PROVE CallersOK'
    BY <1>1, <1>2 DEF Send, Live, Ready, adapterVars, Probes
  <1>3. ASSUME NEW r \in Requests, Dispatch(r) PROVE CallersOK'
    <2>1. /\ r \in Probes
          /\ phase[r] = "sent"
          /\ phase' \in {[phase EXCEPT ![r] = "thread"], [phase EXCEPT ![r] = "queued"]}
          /\ at' = at /\ loop' = loop
      BY <1>3 DEF Dispatch, adapterVars
    <2>2. QED
      BY <1>1, <2>1
  <1>4. ASSUME NEW r \in Requests, CheckReady(r) PROVE CallersOK'
    BY <1>1, <1>4 DEF CheckReady, Adapter!Enter, Probes
  <1>5. ASSUME NEW r \in Requests, Answer(r) PROVE CallersOK'
    <2>1. loop = Free /\ loop' = loop /\ at' = at /\ phase[r] = "answering"
      BY <1>5 DEF Answer, adapterVars
    <2>2. CASE queue = <<>>
      BY <1>1, <1>5, <2>1, <2>2 DEF Answer
    <2>3. CASE queue # <<>>
      <3>1. /\ Head(queue) \in Probes /\ Head(queue) \in Requests
            /\ phase[Head(queue)] = "queued"
            /\ phase' = [phase EXCEPT ![r] = "done", ![Head(queue)] = "thread"]
        BY <1>5, <2>3 DEF Answer, QueueOK, Requests
      <3>2. QED
        BY <1>1, <2>1, <3>1
    <2>4. QED
      BY <2>2, <2>3
  <1>6. ASSUME NEW r \in Requests, Invoke(r) PROVE CallersOK'
    BY <1>1, <1>6 DEF Invoke, Adapter!Enter
  <1>7. ASSUME NEW r \in Requests, FinishInvocation(r) PROVE CallersOK'
    BY <1>1, <1>7 DEF FinishInvocation, adapterVars
  <1>8. ASSUME NEW r \in Requests, EnsureStep(r) \/ LoadStep(r) PROVE CallersOK'
    <2>1. /\ phase' = phase /\ loop' = loop
          /\ at[r] # "out"
          /\ \E place \in Adapter!Places : at' = [at EXCEPT ![r] = place]
      BY <1>8 DEF EnsureStep, LoadStep, Adapter!Test, Adapter!Read, Adapter!Resolve,
         Adapter!LoadFails, Adapter!Install, Adapter!Places
    <2>2. QED
      BY <1>1, <2>1
  <1>9. CASE Kill
    <2>1. \A r \in Requests : at'[r] = "out" /\ phase'[r] \notin InPool
      BY <1>9 DEF Kill, Adapter!Restart, InProcess
    <2>2. QED
      BY <2>1
  <1>10. ASSUME Promote \/ Tick \/ Notify \/ AllDone \/ UNCHANGED vars
         PROVE  phase' = phase /\ at' = at /\ loop' = loop
    BY <1>10 DEF Promote, Tick, Notify, AllDone, vars, Adapter!Promote, adapterVars
  <1>11. QED
    BY <1>2, <1>3, <1>4, <1>5, <1>6, <1>7, <1>8, <1>9, <1>10 DEF Next, WorkerStep

LEMMA NextPool == IInv /\ [Next]_vars => PoolOK'
  <1> SUFFICES ASSUME IInv, [Next]_vars PROVE PoolOK'
    OBVIOUS
  <1> USE DEF IInv, TypeOK, PoolOK
  <1> DEFINE Busy == {"thread", "checking", "answering"}
  <1>1. Cardinality(Taken) \in Nat /\ IsFiniteSet(Taken)
    BY TakenFinite, FS_CardinalityType
  <1>2. ASSUME Taken' \subseteq Taken PROVE PoolOK'
    <2>1. Cardinality(Taken') <= Cardinality(Taken) /\ Cardinality(Taken') \in Nat
      BY <1>1, <1>2, FS_Subset, FS_CardinalityType
    <2>2. QED
      BY <1>1, <2>1, PoolAssumption
  <1>3. Probes \subseteq Requests
    BY DEF Requests
  <1>4. ASSUME NEW r \in Requests, Dispatch(r) PROVE PoolOK'
    <2>1. CASE Cardinality(Taken) < PoolSize /\ phase' = [phase EXCEPT ![r] = "thread"]
      <3>1. r \in Probes /\ phase[r] = "sent"
        BY <1>4 DEF Dispatch
      <3>2. Taken' = Taken \cup {r} /\ r \notin Taken
        BY <1>3, <2>1, <3>1 DEF Taken
      <3>3. QED
        <4>1. Cardinality(Taken \cup {r}) = Cardinality(Taken) + 1
          BY <1>1, <3>2, FS_AddElement
        <4>2. Cardinality(Taken') = Cardinality(Taken) + 1
          BY <3>2, <4>1, Zenon
        <4>3. QED
          BY <1>1, <2>1, <4>2, PoolAssumption
    <2>2. CASE phase' = [phase EXCEPT ![r] = "queued"]
      BY <1>2, <1>3, <2>2 DEF Taken
    <2>3. QED
      BY <1>4, <2>1, <2>2 DEF Dispatch
  <1>5. ASSUME NEW r \in Requests, Answer(r) PROVE PoolOK'
    <2>1. r \in Taken
      BY <1>5 DEF Answer, Taken, CallersOK
    <2>2. CASE queue = <<>>
      <3>1. phase' = [phase EXCEPT ![r] = "done"]
        BY <1>5, <2>2 DEF Answer
      <3>2. QED
        BY <1>2, <1>3, <3>1 DEF Taken
    <2>3. CASE queue # <<>>
      <3>1. /\ phase[r] = "answering"
            /\ Head(queue) \in Probes
            /\ phase[Head(queue)] = "queued"
            /\ phase' = [phase EXCEPT ![r] = "done", ![Head(queue)] = "thread"]
        BY <1>5, <2>3 DEF Answer, QueueOK
      <3>2. Taken' = (Taken \ {r}) \cup {Head(queue)}
        BY <1>3, <3>1 DEF Taken
      <3>3. IsFiniteSet(Taken \ {r}) /\ Cardinality(Taken \ {r}) = Cardinality(Taken) - 1
        BY <1>1, <2>1, FS_RemoveElement
      <3>4. Cardinality(Taken') <= Cardinality(Taken \ {r}) + 1
        BY <3>2, <3>3, AddOne, Zenon
      <3>5. Cardinality(Taken') \in Nat
        BY <3>2, <3>3, FS_AddElement, FS_CardinalityType
      <3>6. QED
        BY <1>1, <3>3, <3>4, <3>5, PoolAssumption
    <2>4. QED
      BY <2>2, <2>3
  <1>6. ASSUME NEW r \in Requests,
               Send(r) \/ Live(r) \/ CheckReady(r) \/ Ready(r) \/ Invoke(r)
                       \/ FinishInvocation(r)
        PROVE  PoolOK'
    <2>1. /\ phase' \in {[phase EXCEPT ![r] = p] : p \in Phases}
          /\ phase'[r] \in Busy => phase[r] \in Busy
      BY <1>6 DEF Phases, Send, Live, CheckReady, Ready, Invoke, FinishInvocation
    <2>2. Taken' \subseteq Taken
      BY <1>3, <2>1 DEF Taken
    <2>3. QED
      BY <1>2, <2>2
  <1>7. CASE Kill
    BY <1>2, <1>3, <1>7 DEF Taken, Kill, InProcess
  <1>8. ASSUME NEW r \in Requests, EnsureStep(r) \/ LoadStep(r) PROVE phase' = phase
    BY <1>8 DEF EnsureStep, LoadStep
  <1>9. ASSUME Promote \/ Tick \/ Notify \/ AllDone \/ UNCHANGED vars
        PROVE  phase' = phase
    BY <1>9 DEF Promote, Tick, Notify, AllDone, vars
  <1>10. ASSUME phase' = phase PROVE PoolOK'
    BY <1>2, <1>10 DEF Taken
  <1>11. QED
    BY <1>4, <1>5, <1>6, <1>7, <1>8, <1>9, <1>10 DEF Next, WorkerStep

LEMMA NextIInv == IInv /\ [Next]_vars => IInv'
  BY NextTypes, NextHeartbeat, NextQueue, NextCallers, NextPool DEF IInv

THEOREM WorkerInvariant == Spec => []IInv
  BY InitIInv, NextIInv, PTL DEF Spec

------------------------------------------------------------------------------
(* The properties.                                                         *)

(* Every variable keeps its type, for any number of requests and threads.  *)
THEOREM TypeCorrect == Spec => []TypeOK
  <1>1. IInv => TypeOK
    BY DEF IInv
  <1>2. QED
    BY WorkerInvariant, <1>1, PTL

LEMMA LoadersInPool == IInv => ConcurrentLoadsBounded
  <1> SUFFICES ASSUME IInv PROVE Cardinality(Adapter!Loaders) <= PoolSize + 1
    BY DEF ConcurrentLoadsBounded
  <1>1. IsFiniteSet(Taken) /\ Cardinality(Taken) \in Nat /\ Cardinality(Taken) <= PoolSize
    BY TakenFinite, FS_CardinalityType DEF IInv, PoolOK
  <1>2. Adapter!Loaders \subseteq Taken \cup {loop}
    BY DEF IInv, CallersOK, Adapter!Loaders, Taken
  <1>3. /\ IsFiniteSet(Taken \cup {loop})
        /\ Cardinality(Taken \cup {loop}) <= Cardinality(Taken) + 1
        /\ Cardinality(Taken \cup {loop}) \in Nat
    BY <1>1, FS_AddElement, FS_CardinalityType
  <1>4. /\ Cardinality(Adapter!Loaders) <= Cardinality(Taken \cup {loop})
        /\ Cardinality(Adapter!Loaders) \in Nat
    BY <1>2, <1>3, FS_Subset, FS_CardinalityType
  <1>5. QED
    BY <1>1, <1>3, <1>4, PoolAssumption

(* However many probes and invocations arrive, the loads that run at the   *)
(* same time are at most one for each thread of the pool, and one on the   *)
(* loop: the queue of the pool holds the others back.                      *)
THEOREM LoadsBounded == Spec => []ConcurrentLoadsBounded
  BY WorkerInvariant, LoadersInPool, PTL

LEMMA KillStep ==
  IInv /\ [Next]_vars => (starts' # starts => busy >= Timeout - NotifyEvery)
  <1> SUFFICES ASSUME IInv, [Next]_vars, starts' # starts
               PROVE  busy >= Timeout - NotifyEvery
    OBVIOUS
  <1>1. Kill
    BY DEF Next, Send, WorkerStep, Dispatch, Live, CheckReady, Ready, Answer,
       Invoke, FinishInvocation, EnsureStep, LoadStep, Promote, Tick, Notify,
       AllDone, vars, adapterVars, Adapter!Enter, Adapter!Test, Adapter!Read,
       Adapter!Resolve, Adapter!LoadFails, Adapter!Install, Adapter!Promote,
       Adapter!process
  <1>2. age > Timeout /\ age \in 0 .. Timeout + 1 /\ busy \in 0 .. age
    BY <1>1 DEF Kill, IInv, TypeOK
  <1>3. age <= NotifyEvery + 1 + busy
    BY DEF IInv, HeartbeatOK
  <1>4. QED
    BY <1>2, <1>3, NotifyType, TimeoutAssumption

(* Whatever probes do, and however long the loads of their threads take,   *)
(* Gunicorn's watchdog kills the worker only after invocations have held   *)
(* the loop for half of the timeout.                                       *)
THEOREM ProbesNeverKill == Spec => KilledOnlyByInvocations
  <1>1. IInv /\ [Next]_vars =>
          [starts' # starts => busy >= Timeout - NotifyEvery]_vars
    BY KillStep
  <1>2. QED
    BY WorkerInvariant, <1>1, PTL DEF Spec, KilledOnlyByInvocations
==============================================================================
