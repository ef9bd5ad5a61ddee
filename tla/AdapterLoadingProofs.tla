------------------------- MODULE AdapterLoadingProofs -------------------------
(***************************************************************************)
(* Theorems about AdapterLoading, for every set of threads and every       *)
(* number of promotions and of restarts.                                   *)
(***************************************************************************)
EXTENDS AdapterLoading, TLAPS

(* A thread that has installed an adapter has left the loading path for    *)
(* good, because what it installed is only reset with the whole process.   *)
(* Versions are resolved after the process has started.                    *)
IInv ==
    /\ TypeOK
    /\ OneInstallPerCaller
    /\ EnsuredIsLoaded
    /\ NoRollback
    /\ floor <= production
    /\ \A c \in Callers : at[c] = "building" => loading[c] >= floor
    /\ \A c \in Callers : installs[c] > 0 => adapter # NoAdapter
    /\ \A c \in Callers : at[c] \in {"loading", "building"} => installs[c] = 0
    /\ \A c \in Callers : at[c] = "building" => loading[c] \in Versions

LEMMA InitIInv == Init => IInv
  BY MaxVersionAssumption, MaxStartsAssumption
     DEF Init, IInv, TypeOK, OneInstallPerCaller, EnsuredIsLoaded, NoRollback,
         Places, Versions, NoAdapter

LEMMA NextIInv == IInv /\ [Next]_vars => IInv'
  <1> SUFFICES ASSUME IInv, [Next]_vars PROVE IInv'
    OBVIOUS
  <1> USE DEF IInv, TypeOK, OneInstallPerCaller, EnsuredIsLoaded, NoRollback,
              process
  <1>1. NoAdapter \notin Versions
    BY DEF NoAdapter, Versions
  <1>2. ASSUME NEW c \in Callers, Enter(c) PROVE IInv'
    BY <1>2 DEF Enter, Places
  <1>3. ASSUME NEW c \in Callers, Test(c) PROVE IInv'
    BY <1>3 DEF Test, Places
  <1>4. ASSUME NEW c \in Callers, Resolve(c) PROVE IInv'
    BY <1>4 DEF Resolve, Places, Versions
  <1>5. ASSUME NEW c \in Callers, LoadFails(c) PROVE IInv'
    BY <1>5 DEF LoadFails, Places
  <1>6. ASSUME NEW c \in Callers, Install(c) PROVE IInv'
    BY <1>1, <1>6 DEF Install, Places
  <1>7. ASSUME NEW c \in Callers, Read(c) PROVE IInv'
    BY <1>7 DEF Read, Places
  <1>8. CASE Promote
    BY <1>8, MaxVersionAssumption DEF Promote, Versions
  <1>9. CASE Restart
    <2>1. /\ starts' = starts + 1 /\ starts < MaxStarts
          /\ floor' = production /\ production' = production
          /\ adapter' = NoAdapter
          /\ at' = [c \in Callers |-> "out"]
          /\ loading' = [c \in Callers |-> NoAdapter]
          /\ installs' = [c \in Callers |-> 0]
      BY <1>9 DEF Restart
    <2>2. TypeOK'
      BY <2>1, MaxStartsAssumption DEF Places
    <2>3. \A c \in Callers : at'[c] = "out" /\ installs'[c] = 0
      BY <2>1
    <2>4. floor' <= production'
      BY <2>1 DEF Versions
    <2>5. QED
      BY <2>1, <2>2, <2>3, <2>4
  <1>10. CASE UNCHANGED vars
    BY <1>10 DEF vars
  <1>11. QED
    BY <1>2, <1>3, <1>4, <1>5, <1>6, <1>7, <1>8, <1>9, <1>10 DEF Next, Step

THEOREM LoadingInvariant == Spec => []IInv
  BY InitIInv, NextIInv, PTL DEF Spec

(* Every variable keeps its type: a version that exists, a place of the    *)
(* code, a count.                                                          *)
THEOREM TypeCorrect == Spec => []TypeOK
  <1>1. IInv => TypeOK
    BY DEF IInv
  <1>2. QED
    BY LoadingInvariant, <1>1, PTL

(* No process serves a version that was replaced before it was started:    *)
(* restarting a worker always gets rid of an old model.                    *)
THEOREM NeverRolledBack == Spec => []NoRollback
  <1>1. IInv => NoRollback
    BY DEF IInv
  <1>2. QED
    BY LoadingInvariant, <1>1, PTL

(* However the threads race, none of them sets self._adapter twice. *)
THEOREM BoundedRace == Spec => []OneInstallPerCaller
  <1>1. IInv => OneInstallPerCaller
    BY DEF IInv
  <1>2. QED
    BY LoadingInvariant, <1>1, PTL

(* The tests for None after _ensure_adapter_loaded never fire. *)
THEOREM EnsuredLoaded == Spec => []EnsuredIsLoaded
  <1>1. IInv => EnsuredIsLoaded
    BY DEF IInv
  <1>2. QED
    BY LoadingInvariant, <1>1, PTL

LEMMA SettledStep ==
  IInv /\ [Next]_vars =>
    (Settled /\ starts' = starts => Settled' /\ adapter' = adapter)
  <1> SUFFICES ASSUME IInv, [Next]_vars, Settled, starts' = starts
               PROVE  Settled' /\ adapter' = adapter
    OBVIOUS
  <1>1. \A c \in Callers : at[c] \notin {"loading", "building"}
    BY DEF Settled, Loaders
  <1>2. ~Restart
    BY DEF Restart, IInv, TypeOK
  <1>3. adapter' = adapter
    BY <1>1, <1>2 DEF Next, Step, Promote, Enter, Test, Resolve, LoadFails,
                      Install, Read, vars
  <1>4. \A c \in Callers : at'[c] \notin {"loading", "building"}
    BY <1>1, <1>2 DEF IInv, TypeOK, Settled, Next, Step, Promote, Enter, Test,
                      Resolve, LoadFails, Install, Read, vars
  <1>5. QED
    BY <1>3, <1>4 DEF Settled, Loaders

(* Once the race at the start of a process is over, its adapter never      *)
(* changes again.                                                          *)
THEOREM SettledForGood == Spec => StaysSettled
  <1>1. IInv /\ [Next]_vars =>
          [Settled /\ starts' = starts => Settled' /\ adapter' = adapter]_vars
    BY SettledStep
  <1>2. QED
    BY LoadingInvariant, <1>1, PTL DEF Spec, StaysSettled
==============================================================================
