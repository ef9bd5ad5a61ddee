------------------------------ MODULE HttpWorker ------------------------------
(***************************************************************************)
(* One worker process of the HTTP service: the event loop, the thread pool *)
(* that runs the synchronous routes (/live, /healthz, /ready, /readyz and  *)
(* /ping), and the adapter of AdapterLoading that both use.  An invocation *)
(* loads and predicts on the event loop itself, which serves nobody else   *)
(* meanwhile, and does not tell Gunicorn that the process is alive either: *)
(* the worker of Uvicorn renews its heartbeat from the loop, Gunicorn      *)
(* kills a worker whose heartbeat is too old and starts another.           *)
(*                                                                         *)
(* Every request of the model is sent once.  The semaphore of RequestSlots *)
(* and the bodies are left out: an invocation is the part that runs on the *)
(* loop between two suspension points.                                     *)
(***************************************************************************)
EXTENDS Naturals, Sequences, FiniteSets

CONSTANTS LiveProbes,    (* requests to /live and /healthz                    *)
          ReadyProbes,   (* requests to /ready, /readyz and /ping             *)
          Invocations,   (* requests to /invocations                          *)
          PoolSize,      (* the threads of the pool (40 in anyio)             *)
          MaxVersion,    (* as in AdapterLoading                              *)
          MaxStarts,     (* as in AdapterLoading                              *)
          Timeout,       (* GUNICORN_TIMEOUT, in ticks of the clock           *)
          Free           (* the event loop is between two callbacks           *)

Probes == LiveProbes \cup ReadyProbes
Requests == Probes \cup Invocations

ASSUME PoolAssumption == PoolSize \in Nat \ {0}
ASSUME TimeoutAssumption == Timeout \in Nat \ {0}
ASSUME VersionsAssumption == MaxVersion \in Nat \ {0}
ASSUME StartsAssumption == MaxStarts \in Nat \ {0}
ASSUME RequestsAssumption ==
    /\ IsFiniteSet(Requests)
    /\ LiveProbes \cap ReadyProbes = {}
    /\ Probes \cap Invocations = {}
    /\ Free \notin Requests

VARIABLES loop,          (* the invocation that occupies the loop, or Free    *)
          phase,         (* where each request is                             *)
          queue,         (* the probes waiting for a thread, oldest first     *)
          age,           (* ticks since the last heartbeat                    *)
          busy,          (* how many of them an invocation held the loop      *)
          adapter, production, at, loading, installs, starts, floor
                         (* of AdapterLoading                                 *)

adapterVars == <<adapter, production, at, loading, installs, starts, floor>>
watchdog == <<age, busy>>
vars == <<loop, phase, queue, watchdog, adapterVars>>

(* Gunicorn passes half of the timeout to the worker, which renews its     *)
(* heartbeat that often.                                                   *)
NotifyEvery == Timeout \div 2

Adapter == INSTANCE AdapterLoading WITH Callers <- Requests

Phases == {"unsent", "sent", "queued", "thread", "checking", "answering",
           "onLoop", "done", "lost"}
InProcess == {"queued", "thread", "checking", "answering", "onLoop"}

Init ==
    /\ loop = Free
    /\ phase = [r \in Requests |-> "unsent"]
    /\ queue = <<>>
    /\ age = 0
    /\ busy = 0
    /\ Adapter!Init

(* A thread of the pool counts as taken until the loop has resumed the     *)
(* route's coroutine.                                                      *)
Taken == {r \in Probes : phase[r] \in {"thread", "checking", "answering"}}

Send(r) ==
    /\ phase[r] = "unsent"
    /\ phase' = [phase EXCEPT ![r] = "sent"]
    /\ UNCHANGED <<loop, queue, watchdog, adapterVars>>

(* The loop passes a probe to a thread, or queues it for one. *)
Dispatch(r) ==
    /\ loop = Free
    /\ r \in Probes
    /\ phase[r] = "sent"
    /\ \/ /\ Cardinality(Taken) < PoolSize
          /\ phase' = [phase EXCEPT ![r] = "thread"]
          /\ UNCHANGED queue
       \/ /\ Cardinality(Taken) >= PoolSize
          /\ phase' = [phase EXCEPT ![r] = "queued"]
          /\ queue' = Append(queue, r)
    /\ UNCHANGED <<loop, watchdog, adapterVars>>

(* _build_liveness_response *)
Live(r) ==
    /\ r \in LiveProbes
    /\ phase[r] = "thread"
    /\ phase' = [phase EXCEPT ![r] = "answering"]
    /\ UNCHANGED <<loop, queue, watchdog, adapterVars>>

(* _build_readiness_response calls _ensure_adapter_loaded, and answers *)
(* with what it finds. *)
CheckReady(r) ==
    /\ r \in ReadyProbes
    /\ phase[r] = "thread"
    /\ phase' = [phase EXCEPT ![r] = "checking"]
    /\ Adapter!Enter(r)
    /\ UNCHANGED <<loop, queue, watchdog>>

(* Mutant: the readiness check waits until there is an adapter. *)
ReadyOnceLoaded(r) ==
    /\ phase[r] = "checking"
    /\ at[r] = "out"
    /\ adapter # Adapter!NoAdapter
    /\ phase' = [phase EXCEPT ![r] = "answering"]
    /\ UNCHANGED <<loop, queue, watchdog, adapterVars>>

Ready(r) ==
    /\ phase[r] = "checking"
    /\ at[r] = "out"
    /\ phase' = [phase EXCEPT ![r] = "answering"]
    /\ UNCHANGED <<loop, queue, watchdog, adapterVars>>

(* The loop sends a probe's response; its thread serves the oldest of the  *)
(* queue.                                                                  *)
Answer(r) ==
    /\ loop = Free
    /\ phase[r] = "answering"
    /\ \/ /\ queue = <<>>
          /\ phase' = [phase EXCEPT ![r] = "done"]
          /\ UNCHANGED queue
       \/ /\ queue # <<>>
          /\ phase' = [phase EXCEPT ![r] = "done", ![Head(queue)] = "thread"]
          /\ queue' = Tail(queue)
    /\ UNCHANGED <<loop, watchdog, adapterVars>>

(* Mutants: every invocation loads, without testing for None; invocations  *)
(* leave the loop free; every route is a coroutine.                        *)
InvokeLoading(r) ==
    /\ loop = Free
    /\ r \in Invocations
    /\ phase[r] = "sent"
    /\ loop' = r
    /\ phase' = [phase EXCEPT ![r] = "onLoop"]
    /\ at' = [at EXCEPT ![r] = "loading"]
    /\ UNCHANGED <<queue, watchdog, adapter, production, loading, installs,
                   starts, floor>>

InvokeAside(r) ==
    /\ loop = Free
    /\ r \in Invocations
    /\ phase[r] = "sent"
    /\ phase' = [phase EXCEPT ![r] = "onLoop"]
    /\ Adapter!Enter(r)
    /\ UNCHANGED <<loop, queue, watchdog>>

InvokeAny(r) ==
    /\ loop = Free
    /\ phase[r] = "sent"
    /\ loop' = r
    /\ phase' = [phase EXCEPT ![r] = "onLoop"]
    /\ Adapter!Enter(r)
    /\ UNCHANGED <<queue, watchdog>>

(* _run_inference takes the loop for the load and the prediction. *)
Invoke(r) ==
    /\ loop = Free
    /\ r \in Invocations
    /\ phase[r] = "sent"
    /\ loop' = r
    /\ phase' = [phase EXCEPT ![r] = "onLoop"]
    /\ Adapter!Enter(r)
    /\ UNCHANGED <<queue, watchdog>>

FinishInvocation(r) ==
    /\ loop = r
    /\ at[r] = "out"
    /\ loop' = Free
    /\ phase' = [phase EXCEPT ![r] = "done"]
    /\ UNCHANGED <<queue, watchdog, adapterVars>>

(* What load_adapter does, and what the code around it does. *)
LoadStep(r) ==
    /\ Adapter!Resolve(r) \/ Adapter!LoadFails(r) \/ Adapter!Install(r)
    /\ UNCHANGED <<loop, phase, queue, watchdog>>

EnsureStep(r) ==
    /\ Adapter!Test(r) \/ Adapter!Read(r)
    /\ UNCHANGED <<loop, phase, queue, watchdog>>

Promote ==
    /\ Adapter!Promote
    /\ UNCHANGED <<loop, phase, queue, watchdog>>

(* Time passes.  While the loop is free, its timers keep the heartbeat     *)
(* young; the bound on age is for TLC.                                     *)
Tick ==
    /\ age <= Timeout
    /\ loop = Free => age <= NotifyEvery
    /\ age' = age + 1
    /\ busy' = IF loop \in Invocations THEN busy + 1 ELSE busy
    /\ UNCHANGED <<loop, phase, queue, adapterVars>>

(* The free loop renews the heartbeat when it is due. *)
Notify ==
    /\ loop = Free
    /\ age > NotifyEvery
    /\ age' = 0
    /\ busy' = 0
    /\ UNCHANGED <<loop, phase, queue, adapterVars>>

(* Gunicorn kills the worker and starts another.  Whoever was being served *)
(* loses the connection; of the requests that were only sent, those whose  *)
(* connection was not accepted yet are left to the new worker.             *)
Kill ==
    /\ age > Timeout
    /\ Adapter!Restart
    /\ \E accepted \in SUBSET {r \in Requests : phase[r] = "sent"} :
           LET lost == {r \in Requests : phase[r] \in InProcess} \cup accepted
           IN  phase' = [r \in Requests |-> IF r \in lost THEN "lost" ELSE phase[r]]
    /\ loop' = Free
    /\ queue' = <<>>
    /\ age' = 0
    /\ busy' = 0

WorkerStep(r) ==
    \/ Dispatch(r) \/ Live(r) \/ CheckReady(r) \/ Ready(r) \/ Answer(r)
    \/ Invoke(r) \/ FinishInvocation(r) \/ EnsureStep(r)

AllDone ==
    /\ \A r \in Requests : phase[r] \in {"done", "lost"}
    /\ UNCHANGED vars

Next ==
    \/ \E r \in Requests : Send(r) \/ WorkerStep(r) \/ LoadStep(r)
    \/ Promote
    \/ Tick \/ Notify \/ Kill
    \/ AllDone

Spec == Init /\ [][Next]_vars

(* The loop and the threads of the pool are scheduled, and every           *)
(* load_adapter returns or raises, unless the process is killed.           *)
FairSpec ==
    Spec /\ \A r \in Requests : WF_vars(WorkerStep(r)) /\ WF_vars(LoadStep(r))

------------------------------------------------------------------------------
(* Properties *)

(* Every variable keeps its type. *)
TypeOK ==
    /\ loop \in Invocations \cup {Free}
    /\ phase \in [Requests -> Phases]
    /\ queue \in Seq(Probes)
    /\ age \in 0..(Timeout + 1)
    /\ busy \in 0..age
    /\ Adapter!TypeOK

(* Loads that run at the same time are bounded by the pool and the loop.   *)
ConcurrentLoadsBounded == Cardinality(Adapter!Loaders) <= PoolSize + 1

(* The loop and the pool together use the adapter as AdapterLoading says,  *)
(* so that everything that holds there holds for the composed worker.      *)
ImplementsLoading == Adapter!Spec

(* Probes never cost a worker its life, however many there are and however *)
(* long the loads take that they start: a heartbeat gets too old only if   *)
(* invocations have held the loop for half of the timeout.                 *)
KilledOnlyByInvocations ==
    [][starts' # starts => busy >= Timeout - NotifyEvery]_vars

(* Every request is answered, if every load ends, or loses its connection  *)
(* to a worker that is killed.                                             *)
EveryRequestAnswered ==
    \A r \in Requests : phase[r] = "sent" ~> phase[r] \in {"done", "lost"}
==============================================================================
