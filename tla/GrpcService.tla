----------------------------- MODULE GrpcService -----------------------------
(***************************************************************************)
(* The gRPC server: the event loop accepts RPCs while fewer than MaxRpcs   *)
(* are active, answers Live itself, and passes the work of Ready (one      *)
(* stage) and of Predict (parse, predict, format) to the threads of the    *)
(* loop's default executor with asyncio.to_thread.  A client may cancel    *)
(* its RPC at any time: a job that has begun runs to its end all the same, *)
(* and one that has not stays in the executor's queue, where the thread    *)
(* that takes it finds it cancelled and drops it.                          *)
(*                                                                         *)
(* The adapter is loaded before the server starts and never changes, so    *)
(* that it needs no variable: is_ready is always true here.  Every RPC of  *)
(* the model is sent once.                                                 *)
(***************************************************************************)
EXTENDS Naturals, Sequences, FiniteSets

CONSTANTS Lives, Readies, Predicts,   (* the RPCs, by method                  *)
          MaxRpcs,                    (* max_concurrent_rpcs                  *)
          Threads                     (* the threads of the default executor  *)

Rpcs == Lives \cup Readies \cup Predicts
Jobs == Readies \cup Predicts

ASSUME LimitsAssumption == MaxRpcs \in Nat \ {0} /\ Threads \in Nat \ {0}
ASSUME RpcsAssumption ==
    IsFiniteSet(Rpcs) /\ Lives \cap Jobs = {} /\ Readies \cap Predicts = {}

VARIABLES state,     (* where each RPC is, or the status it ended with        *)
          stage,     (* the stage of its handler                              *)
          queue,     (* RPCs whose job waits for a thread, oldest first       *)
          running,   (* RPCs whose job occupies a thread                      *)
          result     (* what the job of a waiting RPC has returned            *)

vars == <<state, stage, queue, running, result>>

Statuses == {"OK", "INVALID_ARGUMENT", "INTERNAL", "RESOURCE_EXHAUSTED",
             "CANCELLED"}
ActiveStates == {"called", "yielded", "waiting"}
Stages == {"none", "is_ready", "parse_payload", "predict", "format_output"}
Results == {"none", "value", "too_many_records", "ValueError", "Exception"}

NextOf == [parse_payload |-> "predict", predict |-> "format_output"]
LastStages == {"is_ready", "format_output"}

(* What the function of a stage returns or raises. *)
ResultsOf(s) ==
    CASE s = "is_ready"      -> {"value"}
      [] s = "parse_payload" -> Results \ {"none"}
      [] OTHER               -> {"value", "ValueError", "Exception"}

Active == {r \in Rpcs : state[r] \in ActiveStates}

Init ==
    /\ state = [r \in Rpcs |-> "unsent"]
    /\ stage = [r \in Rpcs |-> "none"]
    /\ queue = <<>>
    /\ running = {}
    /\ result = [r \in Rpcs |-> "none"]

------------------------------------------------------------------------------
(* The event loop. *)

(* grpc.aio creates a task for the handler, or refuses the RPC. *)
Accept(r) ==
    /\ state[r] = "unsent"
    /\ state' = [state EXCEPT ![r] =
                    IF Cardinality(Active) < MaxRpcs
                    THEN "called" ELSE "RESOURCE_EXHAUSTED"]
    /\ UNCHANGED <<stage, queue, running, result>>

(* asyncio.to_thread: the job goes to the end of the executor's queue. *)
Submit(r, s) ==
    /\ state' = [state EXCEPT ![r] = "waiting"]
    /\ stage' = [stage EXCEPT ![r] = s]
    /\ queue' = Append(queue, r)
    /\ result' = [result EXCEPT ![r] = "none"]
    /\ UNCHANGED running

End(r, status) ==
    /\ state' = [state EXCEPT ![r] = status]
    /\ stage' = [stage EXCEPT ![r] = "none"]
    /\ result' = [result EXCEPT ![r] = "none"]

(* Mutant: Live goes through a thread, as Ready does. *)
LiveInThread(r) ==
    /\ r \in Lives
    /\ state[r] = "called"
    /\ Submit(r, "is_ready")

(* live yields to the loop once and answers. *)
Live(r) ==
    /\ r \in Lives
    /\ \/ /\ state[r] = "called"
          /\ state' = [state EXCEPT ![r] = "yielded"]
          /\ UNCHANGED <<stage, result>>
       \/ /\ state[r] = "yielded"
          /\ End(r, "OK")
    /\ UNCHANGED <<queue, running>>

Ready(r) ==
    /\ r \in Readies
    /\ state[r] = "called"
    /\ Submit(r, "is_ready")

Predict(r) ==
    /\ r \in Predicts
    /\ state[r] = "called"
    /\ Submit(r, "parse_payload")

(* Mutant: the value of the stage before is not awaited. *)
NextStageUnawaited(r) ==
    /\ state[r] = "waiting"
    /\ stage[r] \notin LastStages
    /\ Submit(r, NextOf[stage[r]])

(* The handler resumes with the value of a stage: the batch is compared    *)
(* with max_records between the first and the second.                      *)
NextStage(r) ==
    /\ state[r] = "waiting"
    /\ result[r] = "value"
    /\ stage[r] \notin LastStages
    /\ Submit(r, NextOf[stage[r]])

Reply(r) ==
    /\ state[r] = "waiting"
    /\ result[r] = "value"
    /\ stage[r] \in LastStages
    /\ End(r, "OK")
    /\ UNCHANGED <<queue, running>>

(* except ValueError, and except Exception *)
ReplyError(r) ==
    /\ state[r] = "waiting"
    /\ \/ /\ result[r] \in {"too_many_records", "ValueError"}
          /\ End(r, "INVALID_ARGUMENT")
       \/ /\ result[r] = "Exception"
          /\ End(r, "INTERNAL")
    /\ UNCHANGED <<queue, running>>

(* The client cancels: the task ends with CancelledError, which no except  *)
(* clause of predict catches, and the future of its job is marked as       *)
(* cancelled.  Marking does not touch the executor's queue, and it does    *)
(* nothing to a job that runs.                                             *)
Cancel(r) ==
    /\ r \in Active
    /\ End(r, "CANCELLED")
    /\ UNCHANGED <<queue, running>>

------------------------------------------------------------------------------
(* The threads. *)

(* Mutant: a cancelled job is never taken out of the queue. *)
StartLiveOnly ==
    /\ queue # <<>>
    /\ Cardinality(running) < Threads
    /\ Head(queue) \in Active
    /\ running' = running \cup {Head(queue)}
    /\ queue' = Tail(queue)
    /\ UNCHANGED <<state, stage, result>>

(* An idle thread takes the oldest job: it runs the job, or drops it if it *)
(* has been cancelled in the queue.                                        *)
Start ==
    /\ queue # <<>>
    /\ Cardinality(running) < Threads
    /\ queue' = Tail(queue)
    /\ \/ /\ Head(queue) \in Active
          /\ running' = running \cup {Head(queue)}
       \/ /\ Head(queue) \notin Active
          /\ UNCHANGED running
    /\ UNCHANGED <<state, stage, result>>

(* Mutant: the result of a cancelled RPC is kept. *)
FinishRegardless(r) ==
    /\ r \in running
    /\ running' = running \ {r}
    /\ \E value \in Results \ {"none"} : result' = [result EXCEPT ![r] = value]
    /\ UNCHANGED <<state, stage, queue>>

(* A job ends; nobody looks at the result if its RPC has been cancelled. *)
Finish(r) ==
    /\ r \in running
    /\ running' = running \ {r}
    /\ IF r \in Active
       THEN \E value \in ResultsOf(stage[r]) :
                result' = [result EXCEPT ![r] = value]
       ELSE UNCHANGED result
    /\ UNCHANGED <<state, stage, queue>>

------------------------------------------------------------------------------
LoopStep(r) ==
    Live(r) \/ Ready(r) \/ Predict(r) \/ NextStage(r) \/ Reply(r) \/ ReplyError(r)

AllDone ==
    /\ running = {}
    /\ \A r \in Rpcs : state[r] \in Statuses
    /\ UNCHANGED vars

Next ==
    \/ \E r \in Rpcs : Accept(r) \/ LoopStep(r) \/ Cancel(r) \/ Finish(r)
    \/ Start
    \/ AllDone

Spec == Init /\ [][Next]_vars

(* The loop and idle threads are scheduled; nothing is said of how long a  *)
(* job takes.                                                              *)
FairSpec == Spec /\ WF_vars(Start) /\ \A r \in Rpcs : WF_vars(LoopStep(r))

------------------------------------------------------------------------------
(* Properties *)

(* Every variable keeps its type, and only RPCs that wait have a stage and *)
(* a result.                                                               *)
TypeOK ==
    /\ state \in [Rpcs -> {"unsent"} \cup ActiveStates \cup Statuses]
    /\ stage \in [Rpcs -> Stages]
    /\ queue \in Seq(Jobs)
    /\ running \subseteq Jobs
    /\ result \in [Rpcs -> Results]
    /\ \A r \in Rpcs : /\ stage[r] # "none" <=> state[r] = "waiting"
                       /\ result[r] # "none" => state[r] = "waiting"

(* Whoever waits for a thread is owed exactly one result, by one job that  *)
(* is queued or runs, or has it already; and the jobs somebody waits for   *)
(* number at most max_concurrent_rpcs.  The executor's queue has no such   *)
(* limit: it also holds the jobs of clients that have cancelled, whose     *)
(* places the server has given to others.                                  *)
Queued(r) == {k \in DOMAIN queue : queue[k] = r}
AwaitedPositions == {k \in DOMAIN queue : state[queue[k]] = "waiting"}
AwaitedRunning == {r \in running : state[r] = "waiting"}
AwaitedJobsBounded ==
    /\ \A r \in Rpcs : state[r] = "waiting" =>
          \/ result[r] # "none" /\ r \notin running /\ Queued(r) = {}
          \/ result[r] = "none" /\ r \in running /\ Queued(r) = {}
          \/ result[r] = "none" /\ r \notin running /\ Cardinality(Queued(r)) = 1
    /\ Cardinality(AwaitedPositions) + Cardinality(AwaitedRunning) <= MaxRpcs

(* Live is answered even if no job ever ends and every thread is taken.    *)
LiveAnswered ==
    \A r \in Lives : state[r] = "called" ~> state[r] \in Statuses

(* If jobs end, those of cancelled RPCs included, every RPC that has been  *)
(* accepted is answered.                                                   *)
JobsEnd == \A r \in Jobs : []<>(r \notin running)
EveryRpcAnswered ==
    JobsEnd => \A r \in Rpcs : state[r] = "called" ~> state[r] \in Statuses
==============================================================================
