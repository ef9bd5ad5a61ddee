---------------------------- MODULE AdapterLoading ----------------------------
(***************************************************************************)
(* The adapter of one worker process: InferenceApplicationBuilder._adapter *)
(* and _ensure_adapter_loaded, called without a lock by the event loop     *)
(* (invocations) and by the threads of the pool (ready, readyz, ping).     *)
(*                                                                         *)
(* A load reads the version that the registry has in MODEL_STAGE and ends, *)
(* later, with an adapter of that version or with an exception.  Adapters  *)
(* differ in their version only; without a registry there is one version.  *)
(* Gunicorn may kill the process at any time and start another in its      *)
(* place, which shares nothing with the first but the registry.            *)
(***************************************************************************)
EXTENDS Naturals

CONSTANTS Callers,     (* the threads that may call _ensure_adapter_loaded    *)
          MaxVersion,  (* how often the registry is promoted, plus one        *)
          MaxStarts    (* how often the process is started                    *)

ASSUME CallersAssumption == Callers # {}
ASSUME MaxVersionAssumption == MaxVersion \in Nat \ {0}
ASSUME MaxStartsAssumption == MaxStarts \in Nat \ {0}

Versions == 1 .. MaxVersion
NoAdapter == 0

VARIABLES adapter,     (* the version in self._adapter, or NoAdapter          *)
          production,  (* the version the registry has in MODEL_STAGE         *)
          at,          (* where each caller is                                *)
          loading,     (* the version a caller's load has resolved            *)
          installs,    (* how often each caller has set self._adapter         *)
          starts,      (* how often the process has been started              *)
          floor        (* production when it was started                      *)

process == <<starts, floor>>
vars == <<adapter, production, at, loading, installs, process>>

Places == {"out",       \* not in a request, or answered
           "entered",   \* about to test self._adapter
           "loading",   \* in load_adapter, before the version is resolved
           "building",  \* in load_adapter, with the version resolved
           "ensured"}   \* past _ensure_adapter_loaded

Init ==
    /\ adapter = NoAdapter
    /\ production = 1
    /\ at = [c \in Callers |-> "out"]
    /\ loading = [c \in Callers |-> NoAdapter]
    /\ installs = [c \in Callers |-> 0]
    /\ starts = 1
    /\ floor = 1

(* A request or a probe arrives. *)
Enter(c) ==
    /\ at[c] = "out"
    /\ at' = [at EXCEPT ![c] = "entered"]
    /\ UNCHANGED <<adapter, production, loading, installs, process>>

(* Mutant: the adapter is loaded again for every caller. *)
TestNothing(c) ==
    /\ at[c] = "entered"
    /\ at' = [at EXCEPT ![c] = "loading"]
    /\ UNCHANGED <<adapter, production, loading, installs, process>>

(* if self._adapter is None *)
Test(c) ==
    /\ at[c] = "entered"
    /\ at' = [at EXCEPT ![c] =
                IF adapter = NoAdapter THEN "loading" ELSE "ensured"]
    /\ UNCHANGED <<adapter, production, loading, installs, process>>

(* Mutant: the load asks for the version after the one in the stage. *)
ResolveNext(c) ==
    /\ at[c] = "loading"
    /\ loading' = [loading EXCEPT ![c] = production + 1]
    /\ at' = [at EXCEPT ![c] = "building"]
    /\ UNCHANGED <<adapter, production, installs, process>>

(* load_adapter resolves the version of the stage. *)
Resolve(c) ==
    /\ at[c] = "loading"
    /\ loading' = [loading EXCEPT ![c] = production]
    /\ at' = [at EXCEPT ![c] = "building"]
    /\ UNCHANGED <<adapter, production, installs, process>>

(* Mutant: a failed load resets what is installed. *)
LoadFailsAndResets(c) ==
    /\ at[c] \in {"loading", "building"}
    /\ adapter' = NoAdapter
    /\ loading' = [loading EXCEPT ![c] = NoAdapter]
    /\ at' = [at EXCEPT ![c] = "out"]
    /\ UNCHANGED <<production, installs, process>>

(* load_adapter raises: the caller answers 500, or 400 to a ValueError. *)
LoadFails(c) ==
    /\ at[c] \in {"loading", "building"}
    /\ loading' = [loading EXCEPT ![c] = NoAdapter]
    /\ at' = [at EXCEPT ![c] = "out"]
    /\ UNCHANGED <<adapter, production, installs, process>>

(* self._adapter = ...: whoever is last wins. *)
Install(c) ==
    /\ at[c] = "building"
    /\ adapter' = loading[c]
    /\ installs' = [installs EXCEPT ![c] = @ + 1]
    /\ loading' = [loading EXCEPT ![c] = NoAdapter]
    /\ at' = [at EXCEPT ![c] = "ensured"]
    /\ UNCHANGED <<production, process>>

(* adapter = self._adapter, None ends the request with 500; the request    *)
(* then keeps its own reference to the adapter it has read.                *)
Read(c) ==
    /\ at[c] = "ensured"
    /\ at' = [at EXCEPT ![c] = "out"]
    /\ UNCHANGED <<adapter, production, loading, installs, process>>

(* Somebody promotes the next version in the registry. *)
Promote ==
    /\ production < MaxVersion
    /\ production' = production + 1
    /\ UNCHANGED <<adapter, at, loading, installs, process>>

(* Mutant: workers are forked from a process that has loaded the model. *)
RestartPreloaded ==
    /\ starts < MaxStarts
    /\ starts' = starts + 1
    /\ floor' = production
    /\ at' = [c \in Callers |-> "out"]
    /\ loading' = [c \in Callers |-> NoAdapter]
    /\ installs' = [c \in Callers |-> 0]
    /\ UNCHANGED <<adapter, production>>

(* The process is killed, with whatever is loading in it, and the new one  *)
(* builds its application anew, without an adapter.                        *)
Restart ==
    /\ starts < MaxStarts
    /\ starts' = starts + 1
    /\ floor' = production
    /\ adapter' = NoAdapter
    /\ at' = [c \in Callers |-> "out"]
    /\ loading' = [c \in Callers |-> NoAdapter]
    /\ installs' = [c \in Callers |-> 0]
    /\ UNCHANGED production

Step(c) ==
    Test(c) \/ Resolve(c) \/ LoadFails(c) \/ Install(c) \/ Read(c)

Next == Promote \/ Restart \/ \E c \in Callers : Enter(c) \/ Step(c)

Spec == Init /\ [][Next]_vars

(* Every caller's thread is scheduled until it has answered. *)
FairSpec == Spec /\ \A c \in Callers : WF_vars(Step(c))

------------------------------------------------------------------------------
(* Properties *)

(* Every variable keeps its type. *)
TypeOK ==
    /\ adapter \in Versions \cup {NoAdapter}
    /\ production \in Versions
    /\ at \in [Callers -> Places]
    /\ loading \in [Callers -> Versions \cup {NoAdapter}]
    /\ installs \in [Callers -> Nat]
    /\ starts \in 1..MaxStarts
    /\ floor \in Versions

Loaders == {c \in Callers : at[c] \in {"loading", "building"}}

(* The check-then-act race is bounded: a thread sets self._adapter at most *)
(* once in the life of the process, however often it calls and however     *)
(* many loads fail, so there are never more adapters than threads.         *)
OneInstallPerCaller == \A c \in Callers : installs[c] <= 1

(* Past _ensure_adapter_loaded there is an adapter: the tests for None     *)
(* that follow it never end a request.                                     *)
EnsuredIsLoaded == \A c \in Callers : at[c] = "ensured" => adapter # NoAdapter

(* The race is confined to the start: once an adapter is installed and no  *)
(* load is under way, no load ever starts again in this process and every  *)
(* later request works with that adapter, whatever is promoted.            *)
Settled == adapter # NoAdapter /\ Loaders = {}

StaysSettled ==
    [][Settled /\ starts' = starts => Settled' /\ adapter' = adapter]_vars

(* Once one load has succeeded, the loads that raced with it die out: the  *)
(* version that is served stops changing until the process is restarted.   *)
EventuallySettled ==
    \A n \in 1..MaxStarts :
        starts = n /\ adapter # NoAdapter ~> [](starts = n => Settled)

(* A restart heals: the racing loads may leave an old version in service,  *)
(* but never one from before the process was started.                      *)
NoRollback == adapter # NoAdapter => adapter >= floor
==============================================================================
