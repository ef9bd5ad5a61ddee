-------------------------- MODULE GrpcServiceProofs --------------------------
(***************************************************************************)
(* Theorems about GrpcService, for every finite set of RPCs, every         *)
(* max_concurrent_rpcs and every number of threads.                        *)
(***************************************************************************)
EXTENDS GrpcService, QueueLemmas

(* A job is in one place: queued once, running, or done; whoever has one   *)
(* queued or running waits for it or has ended, and whoever waits without  *)
(* a result has one.                                                       *)
JobsOK ==
    /\ Distinct(queue)
    /\ \A r \in ToSet(queue) :
          /\ state[r] \in {"waiting"} \cup Statuses
          /\ result[r] = "none"
          /\ r \notin running
    /\ \A r \in running :
          state[r] \in {"waiting"} \cup Statuses /\ result[r] = "none"
    /\ \A r \in Rpcs : state[r] = "waiting" =>
          r \in Jobs /\ (result[r] = "none" => r \in ToSet(queue) \cup running)

LimitOK == Cardinality(Active) <= MaxRpcs

IInv == TypeOK /\ JobsOK /\ LimitOK

LEMMA ActiveFinite ==
    /\ Active \subseteq Rpcs
    /\ IsFiniteSet(Active)
    /\ Cardinality(Active) \in Nat
  BY RpcsAssumption, FS_Subset, FS_CardinalityType DEF Active

(* Statuses are final. *)
LEMMA FinalStatuses == ActiveStates \cap Statuses = {} /\ "unsent" \notin Statuses
  BY DEF ActiveStates, Statuses

(* A step that makes nobody active keeps the limit. *)
LEMMA LimitKept ==
    ASSUME IInv, Active' \subseteq Active
    PROVE  LimitOK'
  <1>1. Cardinality(Active') <= Cardinality(Active)
    BY ActiveFinite, FS_Subset
  <1>2. Cardinality(Active') \in Nat
    BY ActiveFinite, FS_Subset, FS_CardinalityType
  <1>3. QED
    BY <1>1, <1>2, ActiveFinite, LimitsAssumption DEF IInv, LimitOK

LEMMA InitIInv == Init => IInv
  <1> SUFFICES ASSUME Init PROVE IInv
    OBVIOUS
  <1>1. TypeOK
    BY DEF Init, TypeOK, Stages, Results
  <1>2. ToSet(queue) = {} /\ JobsOK
    BY DEF Init, ToSet, JobsOK, Distinct
  <1>3. Active = {}
    BY DEF Init, Active, ActiveStates
  <1>4. LimitOK
    BY <1>3, FS_EmptySet, LimitsAssumption DEF LimitOK
  <1>5. QED
    BY <1>1, <1>2, <1>4 DEF IInv

(* Accept never takes the active RPCs beyond the limit. *)
LEMMA AcceptStep ==
    ASSUME IInv, NEW r \in Rpcs, Accept(r)
    PROVE  IInv'
  <1>1. TypeOK' /\ JobsOK'
    BY DEF IInv, TypeOK, JobsOK, Accept, ActiveStates, Statuses, Jobs, Distinct
  <1>2. CASE Cardinality(Active) < MaxRpcs
    <2>1. Active' = Active \cup {r} /\ r \notin Active
      BY <1>2 DEF IInv, TypeOK, Accept, Active, ActiveStates
    <2>2. Cardinality(Active') = Cardinality(Active) + 1
      BY <2>1, ActiveFinite, FS_AddElement
    <2>3. QED
      BY <1>1, <1>2, <2>2, ActiveFinite, LimitsAssumption DEF IInv, LimitOK
  <1>3. CASE ~(Cardinality(Active) < MaxRpcs)
    <2>1. Active' = Active
      BY <1>3 DEF IInv, TypeOK, Accept, Active, ActiveStates
    <2>2. QED
      BY <1>1, <2>1, LimitKept DEF IInv
  <1>4. QED
    BY <1>2, <1>3

(* A job is submitted by an active RPC that has none. *)
LEMMA SubmitStep ==
    ASSUME IInv, NEW r \in Jobs, NEW s \in Stages \ {"none"}, r \in Active,
           r \notin ToSet(queue), r \notin running, Submit(r, s)
    PROVE  IInv'
  <1>1. r \in Rpcs
    BY DEF Rpcs, Jobs
  <1>2. queue \in Seq(Jobs) /\ queue' = Append(queue, r)
    BY DEF IInv, TypeOK, Submit
  <1>3. Distinct(queue') /\ ToSet(queue') = ToSet(queue) \cup {r}
    BY <1>2, AppendDistinct, AppendSet DEF IInv, JobsOK
  <1>4. queue' \in Seq(Jobs)
    BY <1>2
  <1>5. TypeOK'
    BY <1>1, <1>4 DEF IInv, TypeOK, Submit, ActiveStates, Results
  <1>6. JobsOK'
    <2>1. \A q \in ToSet(queue') :
              /\ state'[q] \in {"waiting"} \cup Statuses
              /\ result'[q] = "none"
              /\ q \notin running'
      <3>1. ToSet(queue) \subseteq Rpcs
        BY <1>2 DEF ToSet, Jobs, Rpcs
      <3>2. QED
        BY <1>1, <1>3, <3>1 DEF IInv, TypeOK, JobsOK, Submit
    <2>2. \A q \in running' :
              state'[q] \in {"waiting"} \cup Statuses /\ result'[q] = "none"
      BY <1>1 DEF IInv, TypeOK, JobsOK, Submit, Jobs, Rpcs
    <2>3. \A q \in Rpcs : state'[q] = "waiting" =>
              q \in Jobs /\ (result'[q] = "none" => q \in ToSet(queue') \cup running')
      BY <1>1, <1>3 DEF IInv, TypeOK, JobsOK, Submit
    <2>4. QED
      BY <1>3, <2>1, <2>2, <2>3 DEF JobsOK
  <1>7. Active' \subseteq Active
    BY <1>1 DEF IInv, TypeOK, Submit, Active
  <1>8. QED
    BY <1>5, <1>6, <1>7, LimitKept DEF IInv

(* The RPCs whose job is queued or running, whatever the queue becomes. *)
LEMMA QueuedRpcs ==
    ASSUME IInv
    PROVE  ToSet(queue) \subseteq Jobs /\ running \subseteq Jobs /\ Jobs \subseteq Rpcs
  BY DEF IInv, TypeOK, ToSet, Jobs, Rpcs

(* An RPC that ends leaves its job where it is. *)
LEMMA EndStep ==
    ASSUME IInv, NEW r \in Rpcs, NEW status \in Statuses, r \in Active,
           End(r, status), UNCHANGED <<queue, running>>
    PROVE  IInv'
  <1>1. TypeOK'
    BY FinalStatuses DEF IInv, TypeOK, End, Statuses, Stages, Results
  <1>2. JobsOK'
    <2>1. \A q \in ToSet(queue) \cup running :
              state'[q] \in {"waiting"} \cup Statuses /\ result'[q] = "none"
      BY QueuedRpcs DEF IInv, TypeOK, JobsOK, End
    <2>2. \A q \in Rpcs : state'[q] = "waiting" =>
              q \in Jobs /\ (result'[q] = "none" => q \in ToSet(queue) \cup running)
      BY DEF IInv, TypeOK, JobsOK, End, Statuses
    <2>3. ToSet(queue') = ToSet(queue) /\ queue' = queue /\ running' = running
      OBVIOUS
    <2>4. QED
      BY <2>1, <2>2, <2>3 DEF IInv, JobsOK, Distinct
  <1>3. Active' \subseteq Active
    BY FinalStatuses DEF IInv, TypeOK, End, Active
  <1>4. QED
    BY <1>1, <1>2, <1>3, LimitKept DEF IInv

(* The steps of the loop. *)
LEMMA LoopStepKeeps ==
    ASSUME IInv, NEW r \in Rpcs, LoopStep(r)
    PROVE  IInv'
  <1>1. CASE Live(r)
    <2>1. CASE state[r] = "called"
      <3>1. state' = [state EXCEPT ![r] = "yielded"]
            /\ UNCHANGED <<stage, queue, running, result>>
        BY <1>1, <2>1 DEF Live
      <3>2. TypeOK' /\ JobsOK'
        BY <2>1, <3>1, QueuedRpcs
           DEF IInv, TypeOK, JobsOK, ActiveStates, Statuses, Distinct, ToSet
      <3>3. Active' \subseteq Active
        BY <2>1, <3>1 DEF IInv, TypeOK, Active, ActiveStates
      <3>4. QED
        BY <3>2, <3>3, LimitKept DEF IInv
    <2>2. CASE state[r] = "yielded"
      <3>1. End(r, "OK") /\ UNCHANGED <<queue, running>>
        BY <1>1, <2>2 DEF Live
      <3>2. r \in Active /\ "OK" \in Statuses
        BY <2>2 DEF Active, ActiveStates, Statuses
      <3>3. QED
        BY <3>1, <3>2, EndStep
    <2>3. QED
      BY <1>1, <2>1, <2>2 DEF Live
  <1>2. CASE Ready(r) \/ Predict(r)
    <2>1. r \in Jobs /\ state[r] = "called"
      BY <1>2 DEF Ready, Predict, Jobs
    <2>2. r \in Active /\ r \notin ToSet(queue) /\ r \notin running
      BY <2>1 DEF IInv, JobsOK, Active, ActiveStates, Statuses
    <2>3. \E s \in Stages \ {"none"} : Submit(r, s)
      BY <1>2 DEF Ready, Predict, Stages
    <2>4. QED
      BY <2>1, <2>2, <2>3, SubmitStep
  <1>3. CASE NextStage(r)
    <2>1. /\ r \in Jobs /\ r \in Active
          /\ r \notin ToSet(queue) /\ r \notin running
      BY <1>3 DEF IInv, JobsOK, NextStage, Active, ActiveStates
    <2>2. stage[r] \in {"parse_payload", "predict"}
      BY <1>3 DEF IInv, TypeOK, NextStage, Stages, LastStages
    <2>3. NextOf[stage[r]] \in Stages \ {"none"}
      BY <2>2 DEF NextOf, Stages
    <2>4. QED
      BY <1>3, <2>1, <2>3, SubmitStep DEF NextStage
  <1>4. CASE Reply(r) \/ ReplyError(r)
    <2>1. state[r] = "waiting" /\ UNCHANGED <<queue, running>>
      BY <1>4 DEF Reply, ReplyError
    <2>2. r \in Active
      BY <2>1 DEF Active, ActiveStates
    <2>3. \E status \in Statuses : End(r, status)
      BY <1>4 DEF Reply, ReplyError, Statuses
    <2>4. QED
      BY <2>1, <2>2, <2>3, EndStep
  <1>5. QED
    BY <1>1, <1>2, <1>3, <1>4 DEF LoopStep

LEMMA CancelStep ==
    ASSUME IInv, NEW r \in Rpcs, Cancel(r)
    PROVE  IInv'
  <1>1. r \in Active /\ End(r, "CANCELLED") /\ UNCHANGED <<queue, running>>
    BY DEF Cancel
  <1>2. "CANCELLED" \in Statuses
    BY DEF Statuses
  <1>3. QED
    BY <1>1, <1>2, EndStep

(* The steps of the threads. *)
LEMMA ThreadStep ==
    ASSUME IInv, Start \/ \E r \in Rpcs : Finish(r)
    PROVE  IInv'
  <1>1. state' = state /\ stage' = stage
    BY DEF Start, Finish
  <1>2. LimitOK'
    BY <1>1, LimitKept DEF Active
  <1>3. CASE Start
    <2> DEFINE h == Head(queue)
    <2>1. /\ queue # <<>> /\ queue \in Seq(Jobs) /\ Distinct(queue)
          /\ queue' = Tail(queue) /\ result' = result
          /\ \/ h \in Active /\ running' = running \cup {h}
             \/ h \notin Active /\ running' = running
      BY <1>3 DEF IInv, TypeOK, JobsOK, Start
    <2>2. queue' \in Seq(Jobs) /\ h \in ToSet(queue) /\ h \in Rpcs
      BY <2>1, QueuedRpcs DEF ToSet
    <2>3. Distinct(queue') /\ ToSet(queue') = ToSet(queue) \ {h}
      BY <2>1, TailDistinct
    <2>4. state[h] = "waiting" => h \in Active
      BY <2>2 DEF Active, ActiveStates
    <2> HIDE DEF h
    <2>5. TypeOK'
      BY <1>1, <2>1, <2>2, QueuedRpcs DEF IInv, TypeOK
    <2>6. JobsOK'
      BY <1>1, <2>1, <2>2, <2>3, <2>4 DEF IInv, JobsOK
    <2>7. QED
      BY <1>2, <2>5, <2>6 DEF IInv
  <1>4. ASSUME NEW r \in Rpcs, Finish(r)
        PROVE  IInv'
    <2>1. r \in running /\ running' = running \ {r} /\ queue' = queue
      BY <1>4 DEF Finish
    <2>2. /\ r \notin ToSet(queue)
          /\ ToSet(queue') = ToSet(queue) /\ Distinct(queue')
      BY <2>1 DEF IInv, JobsOK
    <2>3. CASE r \in Active
      <3>1. state[r] = "waiting"
        BY <2>1, <2>3, FinalStatuses DEF IInv, JobsOK, Active
      <3>2. PICK value \in ResultsOf(stage[r]) : result' = [result EXCEPT ![r] = value]
        BY <1>4, <2>3 DEF Finish
      <3>3. value \in Results \ {"none"}
        BY DEF ResultsOf, Results
      <3>4. TypeOK'
        BY <1>1, <2>1, <3>1, <3>2, <3>3 DEF IInv, TypeOK
      <3>5. JobsOK'
        BY <1>1, <2>1, <2>2, <3>2, <3>3, QueuedRpcs DEF IInv, TypeOK, JobsOK
      <3>6. QED
        BY <1>2, <3>4, <3>5 DEF IInv
    <2>4. CASE r \notin Active
      <3>1. result' = result
        BY <1>4, <2>4 DEF Finish
      <3>2. state[r] # "waiting"
        BY <2>1, <2>4, QueuedRpcs DEF Active, ActiveStates
      <3>3. TypeOK'
        BY <1>1, <2>1, <3>1 DEF IInv, TypeOK
      <3>4. JobsOK'
        BY <1>1, <2>1, <2>2, <3>1, <3>2 DEF IInv, JobsOK
      <3>5. QED
        BY <1>2, <3>3, <3>4 DEF IInv
    <2>5. QED
      BY <2>3, <2>4
  <1>5. QED
    BY <1>3, <1>4

LEMMA NextIInv == IInv /\ [Next]_vars => IInv'
  <1> SUFFICES ASSUME IInv, [Next]_vars PROVE IInv'
    OBVIOUS
  <1>1. CASE AllDone \/ UNCHANGED vars
    <2>1. UNCHANGED <<state, stage, queue, running, result>>
      BY <1>1 DEF AllDone, vars
    <2>2. TypeOK' /\ JobsOK'
      BY <2>1 DEF IInv, TypeOK, JobsOK, Distinct, ToSet
    <2>3. Active' = Active
      BY <2>1 DEF Active
    <2>4. QED
      BY <2>2, <2>3, LimitKept DEF IInv
  <1>2. QED
    BY <1>1, AcceptStep, LoopStepKeeps, CancelStep, ThreadStep DEF Next

------------------------------------------------------------------------------
(* The variables of the gRPC service keep their types, for any RPCs. *)
THEOREM TypeCorrect == Spec => []TypeOK
  BY InitIInv, NextIInv, PTL DEF Spec, IInv

(* Whatever clients cancel, each RPC that waits is owed one result, and    *)
(* the jobs somebody waits for, queued and running, are at most            *)
(* max_concurrent_rpcs: they are jobs of different active RPCs.            *)
THEOREM BoundedAwaitedJobs == Spec => []AwaitedJobsBounded
  <1>1. IInv => AwaitedJobsBounded
    <2> SUFFICES ASSUME IInv PROVE AwaitedJobsBounded
      OBVIOUS
    <2> DEFINE P == AwaitedPositions
               Q == {queue[k] : k \in P}
               R == AwaitedRunning
    <2>1. /\ queue \in Seq(Jobs) /\ Distinct(queue)
          /\ IsFiniteSet(DOMAIN queue) /\ DOMAIN queue \subseteq Nat
      <3>1. queue \in Seq(Jobs) /\ Distinct(queue)
        BY DEF IInv, TypeOK, JobsOK
      <3>2. Len(queue) \in Nat /\ DOMAIN queue = 1 .. Len(queue)
        BY <3>1
      <3>3. QED
        BY <3>1, <3>2, FS_Interval
    <2>2. \A r \in Rpcs : state[r] = "waiting" =>
              \/ result[r] # "none" /\ r \notin running /\ Queued(r) = {}
              \/ result[r] = "none" /\ r \in running /\ Queued(r) = {}
              \/ result[r] = "none" /\ r \notin running /\ Cardinality(Queued(r)) = 1
      <3> SUFFICES ASSUME NEW r \in Rpcs, state[r] = "waiting"
                   PROVE  \/ result[r] # "none" /\ r \notin running /\ Queued(r) = {}
                          \/ result[r] = "none" /\ r \in running /\ Queued(r) = {}
                          \/ /\ result[r] = "none" /\ r \notin running
                             /\ Cardinality(Queued(r)) = 1
        OBVIOUS
      <3>1. CASE r \in ToSet(queue)
        <4>1. PICK k \in DOMAIN queue : queue[k] = r
          BY <3>1 DEF ToSet
        <4>2. Queued(r) = {k}
          BY <2>1, <4>1 DEF Queued, Distinct
        <4>3. Cardinality(Queued(r)) = 1
          BY <4>2, FS_Singleton
        <4>4. QED
          BY <3>1, <4>3 DEF IInv, JobsOK
      <3>2. CASE r \notin ToSet(queue)
        <4>1. Queued(r) = {}
          BY <3>2 DEF Queued, ToSet
        <4>2. QED
          BY <3>2, <4>1 DEF IInv, JobsOK
      <3>3. QED
        BY <3>1, <3>2
    <2>3. /\ Q \subseteq ToSet(queue) /\ Q \subseteq Active
          /\ R \subseteq running /\ R \subseteq Active
      BY QueuedRpcs DEF AwaitedPositions, AwaitedRunning, ToSet, Active, ActiveStates
    <2>4. IsFiniteSet(P) /\ IsFiniteSet(Q) /\ IsFiniteSet(R)
      <3>1. P \subseteq DOMAIN queue
        BY DEF AwaitedPositions
      <3>2. QED
        BY <2>1, <2>3, <3>1, ActiveFinite, FS_Subset
    <2>5. Cardinality(P) <= Cardinality(Q)
      <3> DEFINE f == [k \in P |-> queue[k]]
      <3>1. f \in [P -> Q] /\ \A k, l \in P : f[k] = f[l] => k = l
        BY <2>1 DEF AwaitedPositions, Distinct
      <3>2. f \in Injection(P, Q)
        BY <3>1 DEF Injection, IsInjective
      <3>3. QED
        BY <2>4, <3>2, FS_Injection
    <2>6. Cardinality(Q) + Cardinality(R) = Cardinality(Q \cup R)
      <3>1. Q \cap R = {}
        BY <2>3 DEF IInv, JobsOK
      <3>2. Cardinality(Q \cup R) =
                Cardinality(Q) + Cardinality(R) - Cardinality(Q \cap R)
        BY <2>4, FS_Union
      <3>3. Cardinality(Q \cap R) = 0
        BY <3>1, FS_EmptySet
      <3>4. Cardinality(Q) \in Nat /\ Cardinality(R) \in Nat
        BY <2>4, FS_CardinalityType
      <3> HIDE DEF Q, R
      <3>5. QED
        BY <3>2, <3>3, <3>4
    <2>7. Cardinality(Q \cup R) <= Cardinality(Active)
      BY <2>3, ActiveFinite, FS_Subset
    <2>8. /\ Cardinality(P) \in Nat /\ Cardinality(Q) \in Nat
          /\ Cardinality(R) \in Nat /\ Cardinality(Q \cup R) \in Nat
      BY <2>3, <2>4, <2>6, FS_CardinalityType
    <2> HIDE DEF P, Q, R
    <2>9. Cardinality(P) + Cardinality(R) <= MaxRpcs
      BY <2>5, <2>6, <2>7, <2>8, ActiveFinite, LimitsAssumption DEF IInv, LimitOK
    <2>10. QED
      BY <2>2, <2>9 DEF AwaitedJobsBounded, P, R
  <1>2. QED
    BY InitIInv, NextIInv, <1>1, PTL DEF Spec
==============================================================================
