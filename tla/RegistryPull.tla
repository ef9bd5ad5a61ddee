----------------------------- MODULE RegistryPull -----------------------------
(***************************************************************************)
(* pull_model_from_registry: the caller checks the settings, hands the     *)
(* pull to the one thread of a fresh ThreadPoolExecutor and waits for its  *)
(* future for MODEL_REGISTRY_TIMEOUT seconds, inside a `with` statement    *)
(* whose exit joins that thread.  A process pulls again whenever loading   *)
(* failed before and another request or probe arrives, so the module       *)
(* follows MaxPulls successive calls of one caller.                        *)
(*                                                                         *)
(* The registry (the ml_registry package) and the file system are          *)
(* external: opening, resolving and copying may succeed, fail, or take for *)
(* ever.                                                                   *)
(***************************************************************************)
EXTENDS Naturals

CONSTANT MaxPulls      \* how many successive calls are followed

ASSUME MaxPullsAssumption == MaxPulls \in Nat \ {0}

VARIABLES settings,    (* which of the registry settings are non-empty        *)
          call,        (* the call in progress, or the last one               *)
          caller,      (* where the caller is                                 *)
          worker,      (* where the executor's thread is                      *)
          inner,       (* what _pull_model_inner is about to return or raise  *)
          future,      (* the state of the call's future                      *)
          registry,    (* is the call's registry connection open              *)
          dir,         (* the temp directory of each call                     *)
          expired,     (* has MODEL_REGISTRY_TIMEOUT passed in this call      *)
          outcome      (* what each finished call gave its caller             *)

callerVars == <<settings, call, caller, expired, outcome>>
workerVars == <<worker, inner, future, registry, dir>>
vars == <<callerVars, workerVars>>

Settings == [backend : BOOLEAN, uri : BOOLEAN, name : BOOLEAN, package : BOOLEAN]

CallerStates == {"between",    \* no call is in progress
                 "waiting",    \* in future.result(timeout)
                 "joining"}    \* in the exit of the with statement

WorkerStates == {"none", "opening", "resolving", "making", "copying",
                 "closing", "finished"}

\* An "os_timeout" is a TimeoutError raised by the pull itself.
FutureStates == {"pending", "result", "error", "os_timeout"}

DirStates == {"none", "empty", "complete"}

Outcomes == {"none", "no_registry", "settings_error", "timed_out",
             "pull_error", "directory"}

Calls == 1 .. MaxPulls

Init ==
    /\ settings \in Settings
    /\ call = 0
    /\ caller = "between"
    /\ worker = "none"
    /\ inner = "pending"
    /\ future = "pending"
    /\ registry = "closed"
    /\ dir = [n \in Calls |-> "none"]
    /\ expired = FALSE
    /\ outcome = [n \in Calls |-> "none"]

------------------------------------------------------------------------------
(* The caller *)

NoRegistry == ~settings.backend /\ ~settings.uri

SettingsError ==
    \/ settings.backend # settings.uri
    \/ ~NoRegistry /\ (~settings.name \/ ~settings.package)

(* Calls end at once when no registry is configured or a setting is wrong. *)
RefuseOrSkip ==
    /\ caller = "between"
    /\ call < MaxPulls
    /\ call' = call + 1
    /\ \/ /\ NoRegistry
          /\ outcome' = [outcome EXCEPT ![call'] = "no_registry"]
       \/ /\ SettingsError
          /\ outcome' = [outcome EXCEPT ![call'] = "settings_error"]
    /\ UNCHANGED <<settings, caller, expired, workerVars>>

Submit ==
    /\ caller = "between"
    /\ call < MaxPulls
    /\ ~NoRegistry /\ ~SettingsError
    /\ call' = call + 1
    /\ caller' = "waiting"
    /\ worker' = "opening"
    /\ inner' = "pending"
    /\ future' = "pending"
    /\ expired' = FALSE
    /\ UNCHANGED <<settings, registry, dir, outcome>>

TimePasses ==
    /\ caller = "waiting"
    /\ ~expired
    /\ expired' = TRUE
    /\ UNCHANGED <<settings, call, caller, outcome, workerVars>>

(* Mutants: the caller waits for a success only; it passes on the future.  *)
TakeResultIfAny ==
    /\ caller = "waiting"
    /\ future = "result"
    /\ outcome' = [outcome EXCEPT ![call] = "directory"]
    /\ caller' = "joining"
    /\ UNCHANGED <<settings, call, expired, workerVars>>

TakeResultAsItIs ==
    /\ caller = "waiting"
    /\ future # "pending"
    /\ outcome' = [outcome EXCEPT ![call] = future]
    /\ caller' = "joining"
    /\ UNCHANGED <<settings, call, expired, workerVars>>

(* The future is done in time, or at least before the caller looks.  A     *)
(* TimeoutError of the pull is caught by the handler of the wait.          *)
TakeResult ==
    /\ caller = "waiting"
    /\ future # "pending"
    /\ outcome' = [outcome EXCEPT ![call] =
                     CASE future = "result" -> "directory"
                       [] future = "error" -> "pull_error"
                       [] future = "os_timeout" -> "timed_out"]
    /\ caller' = "joining"
    /\ UNCHANGED <<settings, call, expired, workerVars>>

GiveUpWaiting ==
    /\ caller = "waiting"
    /\ future = "pending"
    /\ expired
    /\ outcome' = [outcome EXCEPT ![call] = "timed_out"]
    /\ caller' = "joining"
    /\ UNCHANGED <<settings, call, expired, workerVars>>

(* Mutant: shutdown(wait=False), the executor's thread is left behind. *)
LeaveAtOnce ==
    /\ caller = "joining"
    /\ caller' = "between"
    /\ UNCHANGED <<settings, call, expired, outcome, workerVars>>

(* The exit of `with ThreadPoolExecutor` is shutdown(wait=True). *)
LeaveExecutor ==
    /\ caller = "joining"
    /\ worker = "finished"
    /\ caller' = "between"
    /\ UNCHANGED <<settings, call, expired, outcome, workerVars>>

------------------------------------------------------------------------------
(* The executor's thread: _pull_model_inner *)

Raised == {"error", "os_timeout"}

OpenRegistry ==
    /\ worker = "opening"
    /\ \/ /\ registry' = "open"
          /\ worker' = "resolving"
          /\ UNCHANGED future
       \/ /\ future' \in Raised
          /\ worker' = "finished"
          /\ UNCHANGED registry
    /\ UNCHANGED <<callerVars, inner, dir>>

(* The stage is unknown, no version is at it, or it has no onnx_uri; or    *)
(* mkdtemp fails; or the artifact is missing, of a scheme that is not      *)
(* supported, or cannot be copied.  The finally clause runs.               *)
Fail(step) ==
    /\ worker = step
    /\ inner' \in Raised
    /\ worker' = "closing"
    /\ UNCHANGED <<callerVars, future, registry, dir>>

Resolve ==
    /\ worker = "resolving"
    /\ worker' = "making"
    /\ UNCHANGED <<callerVars, inner, future, registry, dir>>

MakeDirectory ==
    /\ worker = "making"
    /\ dir' = [dir EXCEPT ![call] = "empty"]
    /\ worker' = "copying"
    /\ UNCHANGED <<callerVars, inner, future, registry>>

(* Mutant: a missing artifact is not noticed. *)
MaterializeUnchecked ==
    /\ worker = "copying"
    /\ \E state \in {"empty", "complete"} : dir' = [dir EXCEPT ![call] = state]
    /\ inner' = "result"
    /\ worker' = "closing"
    /\ UNCHANGED <<callerVars, future, registry>>

Materialize ==
    /\ worker = "copying"
    /\ dir' = [dir EXCEPT ![call] = "complete"]
    /\ inner' = "result"
    /\ worker' = "closing"
    /\ UNCHANGED <<callerVars, future, registry>>

(* registry.close(); what it raises replaces the outcome.  Only then is    *)
(* the future done.                                                        *)
CloseRegistry ==
    /\ worker = "closing"
    /\ registry' = "closed"
    /\ future' \in {inner} \cup Raised
    /\ worker' = "finished"
    /\ UNCHANGED <<callerVars, inner, dir>>

------------------------------------------------------------------------------

CallerStep ==
    \/ RefuseOrSkip \/ Submit
    \/ TakeResult \/ GiveUpWaiting \/ LeaveExecutor

WorkerStep ==
    \/ OpenRegistry \/ Resolve \/ MakeDirectory \/ Materialize \/ CloseRegistry
    \/ \E step \in {"resolving", "making", "copying"} : Fail(step)

(* The caller has made all the calls that are followed. *)
Stopped ==
    /\ caller = "between"
    /\ call = MaxPulls
    /\ UNCHANGED vars

Next == CallerStep \/ TimePasses \/ WorkerStep \/ Stopped

Spec == Init /\ [][Next]_vars

(* The caller's thread is scheduled and time passes. *)
CallerFairSpec == Spec /\ WF_vars(CallerStep) /\ WF_vars(TimePasses)

(* The registry and the file system, too, always answer in the end. *)
FairSpec == CallerFairSpec /\ WF_vars(WorkerStep)

------------------------------------------------------------------------------
(* Properties *)

(* Every variable keeps its type. *)
TypeOK ==
    /\ settings \in Settings
    /\ call \in 0 .. MaxPulls
    /\ caller \in CallerStates
    /\ worker \in WorkerStates
    /\ inner \in FutureStates
    /\ future \in FutureStates
    /\ registry \in {"open", "closed"}
    /\ dir \in [Calls -> DirStates]
    /\ expired \in BOOLEAN
    /\ outcome \in [Calls -> Outcomes]

(* A directory handed to load_adapter holds the whole artifact, whatever   *)
(* failed or timed out on the way.                                         *)
DirectoryIsComplete ==
    \A n \in Calls : outcome[n] = "directory" => dir[n] = "complete"

(* No pull outlives its call: when pull_model_from_registry has returned   *)
(* or raised, its thread has ended and its connection is closed, so that   *)
(* the pull of a later call never runs beside it.                          *)
NothingOutlivesACall ==
    caller = "between" => worker \in {"none", "finished"} /\ registry = "closed"

(* Every call ends, if the registry and the file system answer. *)
PullEnds == caller = "waiting" ~> caller = "between"

(* registry_pull.py:307 promises that the whole pull is bounded by the     *)
(* timeout "rather than hanging indefinitely".                             *)
PullBounded == caller = "waiting" ~> caller = "between"
==============================================================================
