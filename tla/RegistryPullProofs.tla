-------------------------- MODULE RegistryPullProofs --------------------------
(***************************************************************************)
(* Theorems about RegistryPull, for any number of successive calls.        *)
(***************************************************************************)
EXTENDS RegistryPull, TLAPS

(* The thread lives inside its call; its connection is open only between   *)
(* opening and closing. *)
ThreadInCall ==
    /\ worker \notin {"none", "finished"} => caller # "between"
    /\ worker \in {"none", "opening", "finished"} => registry = "closed"
    /\ caller # "between" => call \in Calls

(* What the call is going to return, and what earlier calls have returned. *)
ResultIsComplete ==
    /\ worker = "closing" /\ inner = "result" => dir[call] = "complete"
    /\ caller # "between" /\ worker # "finished" => future = "pending"
    /\ caller # "between" /\ future = "result" => dir[call] = "complete"
    /\ caller = "waiting" => outcome[call] = "none"
    /\ worker \notin {"none", "finished"} => outcome[call] # "directory"
    /\ \A n \in Calls : n > call => outcome[n] = "none"

IInv == TypeOK /\ ThreadInCall /\ ResultIsComplete /\ DirectoryIsComplete

LEMMA InitIInv == Init => IInv
  <1> SUFFICES ASSUME Init PROVE IInv
    OBVIOUS
  <1>1. TypeOK
    <2>1. /\ dir \in [Calls -> DirStates]
          /\ outcome \in [Calls -> Outcomes]
      BY DEF Init, DirStates, Outcomes
    <2>2. call \in 0 .. MaxPulls
      BY MaxPullsAssumption DEF Init
    <2>3. /\ caller \in CallerStates
          /\ worker \in WorkerStates
          /\ inner \in FutureStates
          /\ future \in FutureStates
          /\ registry \in {"open", "closed"}
      BY DEF Init, CallerStates, WorkerStates, FutureStates
    <2>4. settings \in Settings /\ expired \in BOOLEAN
      BY DEF Init
    <2>5. QED
      BY <2>1, <2>2, <2>3, <2>4 DEF TypeOK
  <1>2. ThreadInCall
    BY DEF Init, ThreadInCall
  <1>3. ResultIsComplete /\ DirectoryIsComplete
    BY DEF Init, ResultIsComplete, DirectoryIsComplete
  <1>4. QED
    BY <1>1, <1>2, <1>3 DEF IInv

LEMMA CallNumbers ==
    ASSUME TypeOK
    PROVE  /\ call \in Nat
           /\ call < MaxPulls => call + 1 \in Calls
           /\ \A n \in Calls : n \in Nat
  BY MaxPullsAssumption DEF TypeOK, Calls

LEMMA CallerStepIInv == IInv /\ (CallerStep \/ TimePasses) => IInv'
  <1> SUFFICES ASSUME IInv, CallerStep \/ TimePasses PROVE IInv'
    OBVIOUS
  <1> USE DEF IInv, TypeOK, ThreadInCall, ResultIsComplete, DirectoryIsComplete
  <1>0. /\ call \in Nat
        /\ call < MaxPulls => call + 1 \in Calls /\ call + 1 \in 0 .. MaxPulls
        /\ \A n \in Calls : n \in Nat
    BY CallNumbers, MaxPullsAssumption DEF Calls
  <1>1. CASE RefuseOrSkip
    BY <1>0, <1>1 DEF RefuseOrSkip, workerVars, Outcomes
  <1>2. CASE Submit
    <2>1. call' = call + 1 /\ call + 1 \in Calls /\ call < call + 1
      BY <1>0, <1>2 DEF Submit
    <2>2. TypeOK'
      BY <1>0, <1>2 DEF Submit, CallerStates, WorkerStates, FutureStates
    <2>3. ThreadInCall'
      BY <1>2, <2>1 DEF Submit
    <2>4. ResultIsComplete'
      BY <1>0, <1>2, <2>1 DEF Submit
    <2>5. DirectoryIsComplete'
      BY <1>2 DEF Submit
    <2>6. QED
      BY <2>2, <2>3, <2>4, <2>5
  <1>3. CASE TakeResult
    <2>1. PICK o \in {"directory", "pull_error", "timed_out"} :
            /\ outcome' = [outcome EXCEPT ![call] = o]
            /\ o = "directory" => future = "result"
      BY <1>3 DEF TakeResult, FutureStates
    <2>2. worker = "finished"
      BY <1>3 DEF TakeResult
    <2>3. call \in Calls
      BY <1>3 DEF TakeResult
    <2>4. TypeOK'
      BY <1>3, <2>1, <2>3 DEF TakeResult, workerVars, Outcomes, CallerStates
    <2>5. ThreadInCall'
      BY <1>3, <2>2, <2>3 DEF TakeResult, workerVars
    <2>6. ResultIsComplete'
      BY <1>0, <1>3, <2>1, <2>2, <2>3 DEF TakeResult, workerVars
    <2>7. DirectoryIsComplete'
      BY <1>3, <2>1, <2>3 DEF TakeResult, workerVars
    <2>8. QED
      BY <2>4, <2>5, <2>6, <2>7
  <1>4. CASE GiveUpWaiting
    BY <1>0, <1>4 DEF GiveUpWaiting, workerVars, Outcomes, CallerStates
  <1>5. CASE LeaveExecutor
    BY <1>0, <1>5 DEF LeaveExecutor, workerVars, CallerStates
  <1>6. CASE TimePasses
    BY <1>0, <1>6 DEF TimePasses, workerVars
  <1>7. QED
    BY <1>1, <1>2, <1>3, <1>4, <1>5, <1>6 DEF CallerStep

LEMMA WorkerStepIInv == IInv /\ WorkerStep => IInv'
  <1> SUFFICES ASSUME IInv, WorkerStep PROVE IInv'
    OBVIOUS
  <1> USE DEF IInv, TypeOK, ThreadInCall, ResultIsComplete, DirectoryIsComplete,
              WorkerStates, FutureStates, DirStates
  <1>1. CASE OpenRegistry
    BY <1>1 DEF OpenRegistry, callerVars, Raised
  <1>2. CASE Resolve
    BY <1>2 DEF Resolve, callerVars
  <1>3. CASE MakeDirectory
    BY <1>3 DEF MakeDirectory, callerVars
  <1>4. CASE Materialize
    BY <1>4 DEF Materialize, callerVars
  <1>5. CASE CloseRegistry
    BY <1>5 DEF CloseRegistry, callerVars, Raised
  <1>6. ASSUME NEW step \in {"resolving", "making", "copying"}, Fail(step)
        PROVE  IInv'
    BY <1>6 DEF Fail, callerVars, Raised
  <1>7. QED
    BY <1>1, <1>2, <1>3, <1>4, <1>5, <1>6 DEF WorkerStep

LEMMA NextIInv == IInv /\ [Next]_vars => IInv'
  <1> SUFFICES ASSUME IInv, [Next]_vars PROVE IInv'
    OBVIOUS
  <1>1. CASE UNCHANGED vars
    BY <1>1 DEF IInv, TypeOK, ThreadInCall, ResultIsComplete, DirectoryIsComplete,
                vars, callerVars, workerVars
  <1>2. QED
    BY <1>1, CallerStepIInv, WorkerStepIInv DEF Next, Stopped

THEOREM PullInvariant == Spec => []IInv
  BY InitIInv, NextIInv, PTL DEF Spec

(* Every variable keeps its type, however many calls there are. *)
THEOREM TypeCorrect == Spec => []TypeOK
  <1>1. IInv => TypeOK
    BY DEF IInv
  <1>2. QED
    BY PullInvariant, <1>1, PTL

(* A directory that a call returns holds the whole artifact, whatever      *)
(* failed, timed out or was late in this call and in those before.         *)
THEOREM CompleteDirectories == Spec => []DirectoryIsComplete
  <1>1. IInv => DirectoryIsComplete
    BY DEF IInv
  <1>2. QED
    BY PullInvariant, <1>1, PTL

(* No pull outlives its call, so that pulls never overlap. *)
THEOREM PullsAreContained == Spec => []NothingOutlivesACall
  <1>1. IInv => NothingOutlivesACall
    BY DEF IInv, TypeOK, ThreadInCall, WorkerStates, NothingOutlivesACall
  <1>2. QED
    BY PullInvariant, <1>1, PTL
==============================================================================
