-------------------------- MODULE RequestSlotsProofs --------------------------
(***************************************************************************)
(* Theorems about RequestSlots, for every finite set of requests and every *)
(* max_inflight: types, conservation of slots, no lost wake-up, exclusion  *)
(* of payloads, first come first served, when a timeout may cancel,        *)
(* that each step is a step of the abstract limit, that no request is      *)
(* forgotten and that the loop never sticks.                               *)
(***************************************************************************)
EXTENDS RequestSlots, QueueLemmas, FiniteSetTheorems, SequenceTheorems, TLAPS

(* A future is in the deque exactly while its task waits for it. *)
FuturesOK == \A r \in Requests : fut[r] # "none" <=> phase[r] = "waiting"

(* The task on the loop, and no other, is between two suspension points. *)
LoopOK == \A r \in Requests : phase[r] \in OnLoop <=> running = r

(* Between the increment in release and the wake-up a slot is free. *)
ReleaseOK == \A r \in Requests : phase[r] = "releasing" => value > 0

IInv == TypeOK /\ FuturesOK /\ LoopOK /\ ReleaseOK /\ SlotsConserved

LEMMA OwnersFinite == IsFiniteSet(Owners) /\ Cardinality(Owners) \in Nat
  <1>1. Owners \subseteq Requests
    BY DEF Owners
  <1>2. QED
    BY <1>1, RequestsAssumption, FS_Subset, FS_CardinalityType

LEMMA InitIInv == Init => IInv
  <1> SUFFICES ASSUME Init PROVE IInv
    OBVIOUS
  <1>1. TypeOK
    BY SettingsAssumption DEF Init, TypeOK, Phases, Futures, Answers
  <1>2. FuturesOK /\ LoopOK /\ ReleaseOK
    BY RequestsAssumption DEF Init, FuturesOK, LoopOK, ReleaseOK, OnLoop
  <1>3. Owners = {}
    BY DEF Init, Owners, Owns
  <1>4. SlotsConserved
    BY <1>3, FS_EmptySet, SettingsAssumption DEF Init, SlotsConserved
  <1>5. QED
    BY <1>1, <1>2, <1>4 DEF IInv
------------------------------------------------------------------------------
(* What a step may do to the slots: nothing, take one, give one back. *)

LEMMA SlotsKept ==
    ASSUME IInv, Owners' = Owners, value' = value
    PROVE  SlotsConserved'
  BY DEF IInv, SlotsConserved

LEMMA SlotTaken ==
    ASSUME IInv, value > 0, value' = value - 1,
           NEW r \in Requests, r \notin Owners, Owners' = Owners \cup {r}
    PROVE  SlotsConserved' /\ value' \in 0 .. MaxInflight
  <1>1. Cardinality(Owners') = Cardinality(Owners) + 1
    BY OwnersFinite, FS_AddElement
  <1>2. QED
    BY <1>1, OwnersFinite, SettingsAssumption DEF IInv, TypeOK, SlotsConserved

LEMMA SlotReturned ==
    ASSUME IInv, value' = value + 1,
           NEW r \in Requests, r \in Owners, Owners' = Owners \ {r}
    PROVE  SlotsConserved' /\ value' \in 0 .. MaxInflight /\ value' > 0
  <1>1. /\ Cardinality(Owners') = Cardinality(Owners) - 1
        /\ IsFiniteSet(Owners')
    BY OwnersFinite, FS_RemoveElement
  <1>2. Cardinality(Owners') \in Nat
    BY <1>1, FS_CardinalityType
  <1>3. QED
    BY <1>1, <1>2, OwnersFinite, SettingsAssumption
       DEF IInv, TypeOK, SlotsConserved

------------------------------------------------------------------------------
(* Taking the head callback and scheduling one keep the type of `ready`. *)
LEMMA ReadyType ==
    ASSUME TypeOK, NEW r \in Requests
    PROVE  /\ Append(ready, Step(r)) \in Seq(Callback)
           /\ Append(ready, Timeout(r)) \in Seq(Callback)
           /\ \A c : Runs(c) =>
                /\ Tail(ready) \in Seq(Callback)
                /\ Append(Tail(ready), Step(r)) \in Seq(Callback)
                /\ todo' \in Nat
  <1>1. Step(r) \in Callback /\ Timeout(r) \in Callback
    BY DEF Step, Timeout, Callback
  <1>2. ready \in Seq(Callback) /\ todo \in Nat
    BY DEF TypeOK
  <1>3. ready # <<>> => Tail(ready) \in Seq(Callback)
    BY <1>2
  <1>4. \A q \in Seq(Callback), c \in Callback : Append(q, c) \in Seq(Callback)
    OBVIOUS
  <1>5. QED
    BY <1>1, <1>2, <1>3, <1>4 DEF Runs

(* The steps outside the handler, and those of the loop that own nothing. *)

LEMMA QueueStep ==
    ASSUME IInv, NEW r \in Requests,
           \/ LimitBody(r) \/ Disconnect(r) \/ TimerRunsOut(r)
           \/ BodyReadAgain(r) \/ ShedAtOnce(r) \/ AcquireWait(r)
           \/ TimeoutFires(r)
    PROVE  IInv'
  <1> USE DEF IInv, TypeOK
  <1>1. TypeOK
    OBVIOUS
  <1>2. ready' \in Seq(Callback)
    <2>1. CASE LimitBody(r)
      <3>1. ready' = ready \/ ready' = Append(ready, Step(r))
        BY <2>1 DEF LimitBody, Schedule
      <3>2. QED
        BY <3>1, <1>1, ReadyType
    <2>2. CASE Disconnect(r)
      BY <2>2 DEF Disconnect, loopVars
    <2>3. CASE TimerRunsOut(r) \/ BodyReadAgain(r)
      <3>1. ready' = Append(ready, Timeout(r)) \/ ready' = Append(ready, Step(r))
        BY <2>3 DEF TimerRunsOut, BodyReadAgain, Schedule
      <3>2. QED
        BY <3>1, <1>1, ReadyType
    <2>4. CASE ShedAtOnce(r) \/ AcquireWait(r)
      <3>1. Runs(Step(r)) /\ ready' = Tail(ready)
        BY <2>4 DEF ShedAtOnce, AcquireWait
      <3>2. QED
        BY <3>1, <1>1, ReadyType
    <2>5. CASE TimeoutFires(r)
      <3>1. /\ Runs(Timeout(r))
            /\ ready' = Tail(ready) \/ ready' = Append(Tail(ready), Step(r))
        BY <2>5 DEF TimeoutFires
      <3>2. QED
        BY <3>1, <1>1, ReadyType
    <2>6. QED
      BY <2>1, <2>2, <2>3, <2>4, <2>5
  <1>3. todo' \in Nat
    <2>1. todo' = todo \/ \E c : Runs(c)
      BY DEF LimitBody, Disconnect, TimerRunsOut, BodyReadAgain,
             ShedAtOnce, AcquireWait, TimeoutFires, loopVars
    <2>2. QED
      BY <2>1, <1>1, ReadyType
  <1>4. value' = value /\ running' = running
    BY DEF LimitBody, Disconnect, TimerRunsOut, BodyReadAgain,
           ShedAtOnce, AcquireWait, TimeoutFires, slotVars, loopVars
  <1>5. CASE LimitBody(r)
    <2>1. TypeOK'
      <3>1. body' \in [Requests -> Bodies \cup {"unread"}]
        BY <1>5 DEF LimitBody
      <3>2. phase' \in [Requests -> Phases] /\ answer' \in [Requests -> Answers]
        <4>1. \/ /\ phase' = [phase EXCEPT ![r] = "done"]
                 /\ answer' = [answer EXCEPT ![r] = 413]
              \/ phase' = [phase EXCEPT ![r] = "called"] /\ answer' = answer
          BY <1>5 DEF LimitBody
        <4>2. "done" \in Phases /\ "called" \in Phases /\ 413 \in Answers
          BY DEF Phases, Answers
        <4>3. phase' \in [Requests -> Phases]
          BY <4>1, <4>2
        <4>4. answer' \in [Requests -> Answers]
          BY <4>1, <4>2
        <4>5. QED
          BY <4>3, <4>4
      <3>3. UNCHANGED <<patient, waiters, fut>>
        BY <1>5 DEF LimitBody, slotVars
      <3>4. QED
        BY <3>1, <3>2, <3>3, <1>2, <1>3, <1>4
    <2>2. FuturesOK' /\ LoopOK' /\ ReleaseOK'
      BY <1>5, <1>4 DEF LimitBody, slotVars, FuturesOK, LoopOK, ReleaseOK, OnLoop
    <2>3. Owners' = Owners
      BY <1>5 DEF LimitBody, slotVars, Owners, Owns
    <2>4. QED
      BY <2>1, <2>2, <2>3, <1>4, SlotsKept
  <1>6. CASE Disconnect(r)
    <2>1. TypeOK'
      BY <1>2, <1>3, <1>4, <1>6 DEF Disconnect, slotVars, Phases
    <2>2. FuturesOK' /\ LoopOK' /\ ReleaseOK'
      BY <1>6, <1>4 DEF Disconnect, slotVars, FuturesOK, LoopOK, ReleaseOK, OnLoop
    <2>3. Owners' = Owners
      BY <1>6 DEF Disconnect, slotVars, Owners, Owns
    <2>4. QED
      BY <2>1, <2>2, <2>3, <1>4, SlotsKept
  <1>7. CASE TimerRunsOut(r) \/ BodyReadAgain(r)
    <2>1. UNCHANGED <<patient, phase, body, answer, waiters, fut, value, running>>
      BY <1>7 DEF TimerRunsOut, BodyReadAgain, slotVars
    <2>2. FuturesOK' /\ LoopOK' /\ ReleaseOK' /\ Owners' = Owners
      BY <2>1 DEF FuturesOK, LoopOK, ReleaseOK, Owners, Owns
    <2>3. QED
      BY <2>1, <2>2, <1>2, <1>3, SlotsKept
  <1>8. CASE ShedAtOnce(r)
    <2>1. TypeOK'
      BY <1>2, <1>3, <1>4, <1>8 DEF ShedAtOnce, slotVars, Phases, Answers
    <2>2. FuturesOK' /\ LoopOK' /\ ReleaseOK'
      BY <1>8, <1>4 DEF ShedAtOnce, slotVars, FuturesOK, LoopOK, ReleaseOK, OnLoop
    <2>3. Owners' = Owners
      BY <1>8 DEF ShedAtOnce, slotVars, Owners, Owns
    <2>4. QED
      BY <2>1, <2>2, <2>3, <1>4, SlotsKept
  <1>9. CASE AcquireWait(r)
    <2>1. TypeOK'
      BY <1>2, <1>3, <1>4, <1>9 DEF AcquireWait, Phases, Futures
    <2>2. FuturesOK' /\ LoopOK' /\ ReleaseOK'
      BY <1>9, <1>4 DEF AcquireWait, FuturesOK, LoopOK, ReleaseOK, OnLoop
    <2>3. Owners' = Owners
      BY <1>9 DEF AcquireWait, Owners, Owns, FuturesOK
    <2>4. QED
      BY <2>1, <2>2, <2>3, <1>4, SlotsKept
  <1>10. CASE TimeoutFires(r)
    <2>1. TypeOK'
      BY <1>2, <1>3, <1>4, <1>10 DEF TimeoutFires, Futures
    <2>2. FuturesOK' /\ LoopOK' /\ ReleaseOK'
      BY <1>10, <1>4
         DEF TimeoutFires, FuturesOK, LoopOK, ReleaseOK, OnLoop, Pending
    <2>3. Owners' = Owners
      BY <1>10 DEF TimeoutFires, Owners, Owns, Pending, FuturesOK
    <2>4. QED
      BY <2>1, <2>2, <2>3, <1>4, SlotsKept
  <1>11. QED
    BY <1>5, <1>6, <1>7, <1>8, <1>9, <1>10

------------------------------------------------------------------------------
(* The steps that take a slot, hand one on or give one back. *)

LEMMA AcquireFreeStep ==
    ASSUME IInv, NEW r \in Requests, AcquireFree(r)
    PROVE  IInv'
  <1>1. TypeOK /\ value \in Nat /\ value > 0
    BY SettingsAssumption DEF IInv, TypeOK, AcquireFree, Locked
  <1>2. r \notin Owners /\ Owners' = Owners \cup {r}
    BY DEF IInv, TypeOK, FuturesOK, AcquireFree, Owners, Owns
  <1>3. SlotsConserved' /\ value' \in 0 .. MaxInflight
    BY <1>1, <1>2, SlotTaken DEF AcquireFree
  <1>4. ready' \in Seq(Callback) /\ todo' \in Nat
    BY <1>1, ReadyType DEF AcquireFree
  <1>5. TypeOK'
    BY <1>3, <1>4 DEF IInv, TypeOK, AcquireFree, Phases
  <1>6. FuturesOK' /\ LoopOK' /\ ReleaseOK'
    BY RequestsAssumption
       DEF IInv, TypeOK, FuturesOK, LoopOK, ReleaseOK, OnLoop, AcquireFree, Runs
  <1>7. QED
    BY <1>3, <1>5, <1>6 DEF IInv

LEMMA ResumeStep ==
    ASSUME IInv, NEW r \in Requests, Resume(r)
    PROVE  IInv'
  <1>1. TypeOK
    BY DEF IInv
  <1>2. ready' \in Seq(Callback) /\ todo' \in Nat
    BY <1>1, ReadyType DEF Resume
  <1>3. waiters' \in Seq(Requests)
    BY <1>1, RemoveAtType DEF TypeOK, Resume, LeaveDeque
  <1>4. /\ fut' = [fut EXCEPT ![r] = "none"]
        /\ phase[r] = "waiting"
        /\ running' = r /\ running = NoTask
        /\ UNCHANGED <<patient, body, answer>>
    BY DEF Resume, LeaveDeque, Runs
  <1>5. CASE fut[r] = "granted" \/ fut[r] = "cancelled"
    <2>1. /\ value' = value
          /\ phase' = [phase EXCEPT ![r] =
                          IF fut[r] = "granted" THEN "entering" ELSE "leaving"]
      BY <1>5 DEF Resume
    <2>2. Owners' = Owners
      BY <2>1, <1>1, <1>4, <1>5 DEF TypeOK, Owners, Owns
    <2>3. TypeOK'
      BY <2>1, <1>1, <1>2, <1>3, <1>4 DEF TypeOK, Phases, Futures
    <2>4. FuturesOK' /\ LoopOK' /\ ReleaseOK'
      BY <2>1, <1>1, <1>4, RequestsAssumption
         DEF IInv, TypeOK, FuturesOK, LoopOK, ReleaseOK, OnLoop
    <2>5. QED
      BY <2>1, <2>2, <2>3, <2>4, SlotsKept DEF IInv
  <1>6. CASE fut[r] = "revoked"
    <2>1. value' = value + 1 /\ phase' = [phase EXCEPT ![r] = "leaving"]
      BY <1>6 DEF Resume
    <2>2. r \in Owners /\ Owners' = Owners \ {r}
      BY <2>1, <1>1, <1>4, <1>6 DEF TypeOK, Owners, Owns
    <2>3. SlotsConserved' /\ value' \in 0 .. MaxInflight
      BY <2>1, <2>2, SlotReturned
    <2>4. TypeOK'
      BY <2>1, <2>3, <1>1, <1>2, <1>3, <1>4 DEF TypeOK, Phases, Futures
    <2>5. FuturesOK' /\ LoopOK' /\ ReleaseOK'
      BY <2>1, <1>1, <1>4, RequestsAssumption, SettingsAssumption
         DEF IInv, TypeOK, FuturesOK, LoopOK, ReleaseOK, OnLoop
    <2>6. QED
      BY <2>3, <2>4, <2>5 DEF IInv
  <1>7. QED
    BY <1>5, <1>6 DEF Resume

(* A wake-up takes a slot for the oldest pending request. *)
LEMMA WakeUpStep ==
    ASSUME IInv, value > 0, NEW q \in Requests, WakeUpNext(q)
    PROVE  /\ value' \in 0 .. MaxInflight
           /\ fut' \in [Requests -> Futures]
           /\ ready' \in Seq(Callback)
           /\ q \notin Owners
           /\ phase[q] = "waiting"
           /\ fut' = [fut EXCEPT ![q] = "granted"]
           /\ value' = value - 1
  <1>1. TypeOK /\ FirstPending(q)
    BY DEF IInv, WakeUpNext
  <1>2. fut[q] = "pending" /\ phase[q] = "waiting"
    BY <1>1 DEF IInv, FuturesOK, FirstPending, Pending
  <1>3. q \notin Owners
    BY <1>2 DEF Owners, Owns
  <1>4. ready' \in Seq(Callback)
    BY <1>1, ReadyType DEF WakeUpNext, Schedule
  <1>5. fut' = [fut EXCEPT ![q] = "granted"] /\ value' = value - 1
    BY DEF WakeUpNext
  <1>6. fut' \in [Requests -> Futures]
    BY <1>1, <1>5 DEF TypeOK, Futures
  <1>7. value' \in 0 .. MaxInflight
    BY <1>1, <1>5, SettingsAssumption DEF TypeOK
  <1>8. QED
    BY <1>2, <1>3, <1>4, <1>5, <1>6, <1>7

LEMMA HandOnStep ==
    ASSUME IInv, NEW r \in Requests, HandOn(r)
    PROVE  IInv'
  <1>1. TypeOK /\ value > 0 /\ running = r /\ phase[r] # "releasing"
    BY DEF IInv, HandOn
  <1>2. PICK q \in Requests : WakeUpNext(q)
    BY DEF HandOn
  <1>3. /\ value' \in 0 .. MaxInflight
        /\ fut' \in [Requests -> Futures]
        /\ ready' \in Seq(Callback)
        /\ q \notin Owners
        /\ phase[q] = "waiting"
        /\ fut' = [fut EXCEPT ![q] = "granted"]
        /\ value' = value - 1
    BY <1>1, <1>2, WakeUpStep
  <1>4. UNCHANGED <<patient, phase, body, answer, waiters, todo, running>>
    BY DEF HandOn
  <1>5. Owners' = Owners \cup {q}
    BY <1>1, <1>3, <1>4 DEF TypeOK, Owners, Owns
  <1>6. SlotsConserved'
    BY <1>1, <1>3, <1>5, SlotTaken
  <1>7. TypeOK'
    BY <1>1, <1>3, <1>4 DEF TypeOK
  <1>8. FuturesOK' /\ LoopOK' /\ ReleaseOK'
    BY <1>1, <1>3, <1>4
       DEF IInv, TypeOK, FuturesOK, LoopOK, ReleaseOK, OnLoop
  <1>9. QED
    BY <1>6, <1>7, <1>8 DEF IInv

LEMMA ReturnStep ==
    ASSUME IInv, NEW r \in Requests, Return(r)
    PROVE  IInv'
  <1>1. /\ TypeOK /\ value > 0 /\ running = r /\ phase[r] = "releasing"
        /\ phase' = [phase EXCEPT ![r] = "done"]
        /\ running' = NoTask
        /\ UNCHANGED <<patient, body, answer, waiters, todo>>
        /\ r \notin Owners
    BY DEF IInv, ReleaseOK, FuturesOK, Return, Owners, Owns
  <1>2. CASE \E q \in Requests : WakeUpNext(q)
    <2>1. PICK q \in Requests : WakeUpNext(q)
      BY <1>2
    <2>2. /\ value' \in 0 .. MaxInflight
          /\ fut' \in [Requests -> Futures]
          /\ ready' \in Seq(Callback)
          /\ q \notin Owners
          /\ phase[q] = "waiting"
          /\ fut' = [fut EXCEPT ![q] = "granted"]
          /\ value' = value - 1
      BY <1>1, <2>1, WakeUpStep
    <2>3. Owners' = Owners \cup {q}
      BY <1>1, <2>2 DEF TypeOK, Owners, Owns
    <2>4. SlotsConserved'
      BY <1>1, <2>2, <2>3, SlotTaken
    <2>5. TypeOK'
      BY <1>1, <2>2 DEF TypeOK, Phases
    <2>6. FuturesOK' /\ LoopOK' /\ ReleaseOK'
      BY <1>1, <2>2, RequestsAssumption
         DEF IInv, TypeOK, FuturesOK, LoopOK, ReleaseOK, OnLoop
    <2>7. QED
      BY <2>4, <2>5, <2>6 DEF IInv
  <1>3. CASE UNCHANGED <<value, fut, ready>>
    <2>1. Owners' = Owners
      BY <1>1, <1>3 DEF TypeOK, Owners, Owns
    <2>2. TypeOK'
      BY <1>1, <1>3 DEF TypeOK, Phases
    <2>3. FuturesOK' /\ LoopOK' /\ ReleaseOK'
      BY <1>1, <1>3, RequestsAssumption
         DEF IInv, TypeOK, FuturesOK, LoopOK, ReleaseOK, OnLoop
    <2>4. QED
      BY <1>3, <2>1, <2>2, <2>3, SlotsKept DEF IInv
  <1>4. QED
    BY <1>2, <1>3 DEF Return

(* The four steps that only move the running task along. *)
LEMMA RunningStep ==
    ASSUME IInv, NEW r \in Requests,
           Enter(r) \/ Shed(r) \/ AwaitBodyAgain(r) \/ ResumeWithBody(r)
    PROVE  IInv'
  <1>1. TypeOK
    BY DEF IInv
  <1>2. /\ UNCHANGED <<patient, body, value, waiters, fut>>
        /\ ready' \in Seq(Callback) /\ todo' \in Nat
    BY <1>1, ReadyType
       DEF Enter, Shed, AwaitBodyAgain, ResumeWithBody, slotVars, loopVars, TypeOK
  <1>3. /\ answer' \in [Requests -> Answers]
        /\ phase' \in [Requests -> Phases]
        /\ running' \in Requests \cup {NoTask}
    BY <1>1 DEF Enter, Shed, AwaitBodyAgain, ResumeWithBody, loopVars, TypeOK,
                Answers, Phases
  <1>4. TypeOK'
    BY <1>1, <1>2, <1>3 DEF TypeOK
  <1>5. FuturesOK' /\ LoopOK' /\ ReleaseOK'
    BY <1>1, <1>2, RequestsAssumption
       DEF IInv, TypeOK, FuturesOK, LoopOK, ReleaseOK, OnLoop, Runs,
           Enter, Shed, AwaitBodyAgain, ResumeWithBody, loopVars
  <1>6. Owners' = Owners
    BY <1>1, <1>2
       DEF IInv, TypeOK, FuturesOK, Owners, Owns,
           Enter, Shed, AwaitBodyAgain, ResumeWithBody
  <1>7. QED
    BY <1>2, <1>4, <1>5, <1>6, SlotsKept DEF IInv

(* The steps that end an inference give the slot back. *)
LEMMA FinishStep ==
    ASSUME IInv, NEW r \in Requests,
           LoadFails(r) \/ UseCachedBody(r) \/ Predict(r)
    PROVE  IInv'
  <1>1. TypeOK
    BY DEF IInv
  <1>2. /\ running = r
        /\ phase[r] \in {"inferring", "predicting"}
        /\ phase' = [phase EXCEPT ![r] = "releasing"]
        /\ value' = value + 1
        /\ UNCHANGED <<patient, body, waiters, fut, ready, todo, running>>
    BY DEF LoadFails, UseCachedBody, Predict, Finish, Release, loopVars
  <1>3. \E status \in Answers : answer' = [answer EXCEPT ![r] = status]
    BY DEF LoadFails, UseCachedBody, Predict, Finish, Answers, Outcomes
  <1>4. r \in Owners /\ Owners' = Owners \ {r}
    BY <1>1, <1>2 DEF IInv, TypeOK, FuturesOK, Owners, Owns
  <1>5. SlotsConserved' /\ value' \in 0 .. MaxInflight /\ value' > 0
    BY <1>2, <1>4, SlotReturned
  <1>6. TypeOK'
    <2>1. answer' \in [Requests -> Answers]
      BY <1>1, <1>3 DEF TypeOK
    <2>2. phase' \in [Requests -> Phases]
      BY <1>1, <1>2 DEF TypeOK, Phases
    <2>3. QED
      BY <1>1, <1>2, <1>5, <2>1, <2>2 DEF TypeOK
  <1>7. FuturesOK' /\ LoopOK' /\ ReleaseOK'
    BY <1>1, <1>2, <1>5
       DEF IInv, TypeOK, FuturesOK, LoopOK, ReleaseOK, OnLoop
  <1>8. QED
    BY <1>5, <1>6, <1>7 DEF IInv

------------------------------------------------------------------------------
(* The invariant and the theorems. *)

LEMMA NextIInv == IInv /\ [Next]_vars => IInv'
  <1> SUFFICES ASSUME IInv, [Next]_vars PROVE IInv'
    OBVIOUS
  <1>1. CASE BeginIteration \/ UNCHANGED vars
    <2>1. /\ UNCHANGED <<patient, phase, body, answer, value, waiters, fut, ready,
                         running>>
          /\ todo' \in Nat
      BY <1>1 DEF BeginIteration, vars, slotVars, loopVars, IInv, TypeOK
    <2>2. TypeOK' /\ FuturesOK' /\ LoopOK' /\ ReleaseOK' /\ Owners' = Owners
      BY <2>1 DEF IInv, TypeOK, FuturesOK, LoopOK, ReleaseOK, Owners, Owns
    <2>3. QED
      BY <2>1, <2>2, SlotsKept DEF IInv
  <1>2. ASSUME NEW r \in Requests,
               \/ LimitBody(r) \/ Disconnect(r)
               \/ TimerRunsOut(r) \/ BodyReadAgain(r)
               \/ RunLoop(r)
        PROVE  IInv'
    BY <1>2, QueueStep, AcquireFreeStep, ResumeStep, HandOnStep, ReturnStep,
       RunningStep, FinishStep DEF RunLoop
  <1>3. QED
    BY <1>1, <1>2 DEF Next, Finished

(* Type correctness, for any number of requests and any max_inflight. *)
THEOREM TypeCorrect == Spec => []TypeOK
  <1>1. IInv => TypeOK
    BY DEF IInv
  <1>2. QED
    BY InitIInv, NextIInv, <1>1, PTL DEF Spec

(* No interleaving of grants, timeouts, failures and releases loses or     *)
(* makes up a slot of the semaphore.                                       *)
THEOREM SlotConservation == Spec => []SlotsConserved
  <1>1. IInv => SlotsConserved
    BY DEF IInv
  <1>2. QED
    BY InitIInv, NextIInv, <1>1, PTL DEF Spec

(* At most max_inflight requests own a slot at a time. *)
THEOREM InflightBounded == Spec => [](Cardinality(Owners) <= MaxInflight)
  <1>1. IInv => Cardinality(Owners) <= MaxInflight
    BY OwnersFinite, SettingsAssumption DEF IInv, TypeOK, SlotsConserved
  <1>2. QED
    BY InitIInv, NextIInv, <1>1, PTL DEF Spec

------------------------------------------------------------------------------
(* The deque and the callbacks behind it. *)

(* The deque holds each request whose future exists, once. *)
DequeOK ==
    /\ \A i, j \in DOMAIN waiters : waiters[i] = waiters[j] => i = j
    /\ \A r \in Requests : fut[r] # "none" <=> r \in ToSet(waiters)

(* A task whose future is no longer pending is scheduled. *)
ScheduledOK ==
    \A r \in Requests : fut[r] \notin {"none", "pending"} => Step(r) \in ToSet(ready)

(* The steps that leave the deque and the futures alone. *)
Quiet(r) ==
    \/ LimitBody(r) \/ Disconnect(r) \/ TimerRunsOut(r) \/ BodyReadAgain(r)
    \/ ShedAtOnce(r) \/ AcquireFree(r) \/ Enter(r) \/ Shed(r)
    \/ LoadFails(r) \/ AwaitBodyAgain(r) \/ UseCachedBody(r)
    \/ ResumeWithBody(r) \/ Predict(r)

LEMMA QuietStep ==
    ASSUME NEW r \in Requests, Quiet(r)
    PROVE  waiters' = waiters /\ fut' = fut
  BY DEF Quiet, LimitBody, Disconnect, TimerRunsOut, BodyReadAgain, ShedAtOnce,
         AcquireFree, Enter, Shed, LoadFails, AwaitBodyAgain, UseCachedBody,
         ResumeWithBody, Predict, Finish, slotVars

LEMMA DequeStep == IInv /\ DequeOK /\ [Next]_vars => DequeOK'
  <1> SUFFICES ASSUME IInv, DequeOK, [Next]_vars PROVE DequeOK'
    OBVIOUS
  <1>1. TypeOK
    BY DEF IInv
  <1>2. CASE UNCHANGED <<waiters, fut>>
    BY <1>2 DEF DequeOK
  <1>3. ASSUME NEW r \in Requests, AcquireWait(r) PROVE DequeOK'
    <2>1. waiters' = Append(waiters, r) /\ fut' = [fut EXCEPT ![r] = "pending"]
      BY <1>3 DEF AcquireWait
    <2>2. r \notin ToSet(waiters)
      BY <1>3 DEF IInv, FuturesOK, DequeOK, AcquireWait
    <2>3. ToSet(waiters') = ToSet(waiters) \cup {r}
      BY <1>1, <2>1, AppendSet DEF TypeOK
    <2>4. \A i, j \in DOMAIN waiters' : waiters'[i] = waiters'[j] => i = j
      BY <1>1, <2>1, <2>2 DEF TypeOK, DequeOK, ToSet
    <2>5. QED
      BY <1>1, <2>1, <2>2, <2>3, <2>4 DEF TypeOK, DequeOK
  <1>4. ASSUME NEW r \in Requests, Resume(r) PROVE DequeOK'
    <2>1. PICK i \in DOMAIN waiters :
            waiters[i] = r /\ waiters' = RemoveAt(waiters, i)
      BY <1>4 DEF Resume, LeaveDeque
    <2>2. /\ ToSet(waiters') = ToSet(waiters) \ {r}
          /\ \A k, l \in DOMAIN waiters' : waiters'[k] = waiters'[l] => k = l
      BY <1>1, <2>1, RemoveAtDistinct DEF TypeOK, DequeOK
    <2>3. fut' = [fut EXCEPT ![r] = "none"]
      BY <1>4 DEF Resume, LeaveDeque
    <2>4. QED
      BY <1>1, <2>2, <2>3 DEF TypeOK, DequeOK
  <1>5. ASSUME NEW r \in Requests, TimeoutFires(r) PROVE DequeOK'
    BY <1>1, <1>5 DEF TypeOK, DequeOK, TimeoutFires, Pending
  <1>6. ASSUME NEW q \in Requests, WakeUpNext(q), waiters' = waiters
        PROVE  DequeOK'
    BY <1>1, <1>6 DEF TypeOK, DequeOK, WakeUpNext, FirstPending, Pending
  <1>7. ASSUME NEW r \in Requests, HandOn(r) \/ Return(r) PROVE DequeOK'
    BY <1>2, <1>6, <1>7 DEF HandOn, Return
  <1>8. ASSUME NEW r \in Requests, Quiet(r) PROVE DequeOK'
    BY <1>2, <1>8, QuietStep
  <1>9. CASE BeginIteration \/ UNCHANGED vars
    BY <1>2, <1>9 DEF BeginIteration, vars, slotVars
  <1>10. QED
    BY <1>3, <1>4, <1>5, <1>7, <1>8, <1>9 DEF Next, RunLoop, Finished, Quiet

LEMMA CallbackKinds ==
    /\ \A r, q \in Requests : Step(r) = Step(q) <=> r = q
    /\ \A r, q \in Requests : Step(r) # Timeout(q)
    /\ \A r \in Requests : Step(r) \in Callback /\ Timeout(r) \in Callback
  BY DEF Step, Timeout, Callback

(* Scheduling a callback keeps the others; running one keeps all but it. *)
LEMMA ReadyKeeps ==
    ASSUME TypeOK
    PROVE  /\ \A c \in Callback : ToSet(Append(ready, c)) = ToSet(ready) \cup {c}
           /\ \A c : Runs(c) => \A x \in ToSet(ready) : x # c => x \in ToSet(Tail(ready))
           /\ \A c : Runs(c) => Tail(ready) \in Seq(Callback)
  <1>1. ready \in Seq(Callback)
    BY DEF TypeOK
  <1>2. \A c \in Callback : ToSet(Append(ready, c)) = ToSet(ready) \cup {c}
    BY <1>1, AppendSet
  <1>3. ready # <<>> =>
          /\ \A x \in ToSet(ready) : x = Head(ready) \/ x \in ToSet(Tail(ready))
          /\ Tail(ready) \in Seq(Callback)
    BY <1>1, TailSet
  <1>4. QED
    BY <1>2, <1>3 DEF Runs

LEMMA ScheduledStep == IInv /\ ScheduledOK /\ [Next]_vars => ScheduledOK'
  <1> SUFFICES ASSUME IInv, ScheduledOK, [Next]_vars PROVE ScheduledOK'
    OBVIOUS
  <1>1. TypeOK
    BY DEF IInv
  <1>2. CASE UNCHANGED <<ready, fut>>
    BY <1>2 DEF ScheduledOK
  <1>3. ASSUME NEW c \in Callback, ready' = Append(ready, c), fut' = fut
        PROVE  ScheduledOK'
    BY <1>1, <1>3, ReadyKeeps DEF ScheduledOK
  <1>4. ASSUME NEW r \in Requests, Runs(Step(r)), ready' = Tail(ready),
               fut'[r] \in {"none", "pending"},
               \A q \in Requests \ {r} : fut'[q] = fut[q]
        PROVE  ScheduledOK'
    BY <1>1, <1>4, ReadyKeeps, CallbackKinds DEF ScheduledOK
  <1>5. ASSUME NEW r \in Requests,
               LimitBody(r) \/ TimerRunsOut(r) \/ BodyReadAgain(r)
        PROVE  ScheduledOK'
    <2>1. fut' = fut
      BY <1>5 DEF LimitBody, TimerRunsOut, BodyReadAgain, slotVars
    <2>2. ready' = ready \/ \E c \in Callback : ready' = Append(ready, c)
      BY <1>5, CallbackKinds DEF LimitBody, TimerRunsOut, BodyReadAgain, Schedule
    <2>3. QED
      BY <2>1, <2>2, <1>2, <1>3
  <1>6. ASSUME NEW r \in Requests,
               \/ Disconnect(r) \/ Enter(r) \/ Shed(r) \/ LoadFails(r)
               \/ AwaitBodyAgain(r) \/ UseCachedBody(r) \/ Predict(r)
        PROVE  ScheduledOK'
    BY <1>2, <1>6
       DEF Disconnect, Enter, Shed, LoadFails, AwaitBodyAgain, UseCachedBody,
           Predict, Finish, slotVars, loopVars
  <1>7. ASSUME NEW r \in Requests,
               ShedAtOnce(r) \/ AcquireFree(r) \/ ResumeWithBody(r)
        PROVE  ScheduledOK'
    <2>1. /\ Runs(Step(r)) /\ ready' = Tail(ready) /\ fut' = fut
          /\ phase[r] # "waiting"
      BY <1>7 DEF ShedAtOnce, AcquireFree, ResumeWithBody, slotVars
    <2>2. fut[r] = "none"
      BY <2>1 DEF IInv, FuturesOK
    <2>3. QED
      BY <2>1, <2>2, <1>4
  <1>8. ASSUME NEW r \in Requests, AcquireWait(r) \/ Resume(r) PROVE ScheduledOK'
    <2>1. /\ Runs(Step(r)) /\ ready' = Tail(ready)
          /\ \/ fut' = [fut EXCEPT ![r] = "pending"]
             \/ fut' = [fut EXCEPT ![r] = "none"]
      BY <1>8 DEF AcquireWait, Resume, LeaveDeque
    <2>2. fut'[r] \in {"none", "pending"} /\ \A q \in Requests \ {r} : fut'[q] = fut[q]
      BY <1>1, <2>1 DEF TypeOK
    <2>3. QED
      BY <2>1, <2>2, <1>4
  <1>9. ASSUME NEW r \in Requests, TimeoutFires(r) PROVE ScheduledOK'
    <2>1. Runs(Timeout(r))
      BY <1>9 DEF TimeoutFires
    <2>2. \A q \in Requests : Step(q) \in ToSet(ready) => Step(q) \in ToSet(Tail(ready))
      BY <1>1, <2>1, ReadyKeeps, CallbackKinds
    <2>3. CASE Pending(r)
      <3>1. /\ ready' = Append(Tail(ready), Step(r))
            /\ fut' = [fut EXCEPT ![r] = "cancelled"]
        BY <1>9, <2>3 DEF TimeoutFires, Pending
      <3>2. ToSet(ready') = ToSet(Tail(ready)) \cup {Step(r)}
        <4>1. Tail(ready) \in Seq(Callback) /\ Step(r) \in Callback
          BY <1>1, <2>1, ReadyKeeps, CallbackKinds
        <4>2. \A q \in Seq(Callback), c \in Callback :
                ToSet(Append(q, c)) = ToSet(q) \cup {c}
          BY AppendSet
        <4>3. QED
          BY <3>1, <4>1, <4>2
      <3>3. QED
        BY <1>1, <2>2, <3>1, <3>2 DEF TypeOK, ScheduledOK
    <2>4. CASE ~Pending(r)
      <3>1. /\ ready' = Tail(ready)
            /\ \/ fut[r] = "granted" /\ fut' = [fut EXCEPT ![r] = "revoked"]
               \/ fut' = fut
        BY <1>9, <2>4 DEF TimeoutFires, Pending
      <3>2. QED
        BY <1>1, <2>2, <3>1 DEF TypeOK, ScheduledOK
    <2>5. QED
      BY <2>3, <2>4
  <1>10. ASSUME NEW q \in Requests, WakeUpNext(q) PROVE ScheduledOK'
    <2>1. ToSet(ready') = ToSet(ready) \cup {Step(q)}
      BY <1>1, <1>10, ReadyKeeps, CallbackKinds DEF WakeUpNext, Schedule
    <2>2. QED
      BY <1>1, <1>10, <2>1 DEF TypeOK, ScheduledOK, WakeUpNext
  <1>11. ASSUME NEW r \in Requests, HandOn(r) \/ Return(r) PROVE ScheduledOK'
    BY <1>2, <1>10, <1>11 DEF HandOn, Return
  <1>12. CASE BeginIteration \/ UNCHANGED vars
    BY <1>2, <1>12 DEF BeginIteration, vars, slotVars, loopVars
  <1>13. QED
    BY <1>5, <1>6, <1>7, <1>8, <1>9, <1>11, <1>12 DEF Next, RunLoop, Finished

------------------------------------------------------------------------------
(* No lost wake-up *)

(* Somebody is about to hand on what is free. *)
HandOnDue ==
    \E r \in Requests :
        \/ phase[r] \in {"entering", "leaving", "releasing"}
        \/ fut[r] \in {"granted", "revoked"}

WakeOK == value > 0 /\ (\E q \in Requests : Pending(q)) => HandOnDue

LEMMA WakeStep == IInv /\ DequeOK /\ WakeOK /\ [Next]_vars => WakeOK'
  <1> SUFFICES ASSUME IInv, DequeOK, WakeOK, [Next]_vars PROVE WakeOK'
    OBVIOUS
  <1>1. TypeOK
    BY DEF IInv
  <1>2. ASSUME value' = value, fut' = fut,
               \A r \in Requests :
                  phase[r] \in {"entering", "leaving", "releasing"} => phase'[r] = phase[r]
        PROVE  WakeOK'
    BY <1>2 DEF WakeOK, HandOnDue, Pending
  <1>3. ASSUME NEW r \in Requests,
               \/ LimitBody(r) \/ Disconnect(r) \/ TimerRunsOut(r)
               \/ BodyReadAgain(r) \/ ShedAtOnce(r) \/ AwaitBodyAgain(r)
               \/ ResumeWithBody(r)
        PROVE  WakeOK'
    <2>1. value' = value /\ fut' = fut
      BY <1>3 DEF LimitBody, Disconnect, TimerRunsOut, BodyReadAgain,
                  ShedAtOnce, AwaitBodyAgain, ResumeWithBody, slotVars
    <2>2. /\ phase[r] \notin {"entering", "leaving", "releasing"} \/ phase' = phase
          /\ \A q \in Requests \ {r} : phase'[q] = phase[q]
      BY <1>1, <1>3
         DEF TypeOK, LimitBody, Disconnect, TimerRunsOut, BodyReadAgain,
             ShedAtOnce, AwaitBodyAgain, ResumeWithBody
    <2>3. QED
      BY <2>1, <2>2, <1>2
  <1>4. ASSUME NEW r \in Requests, AcquireFree(r) PROVE WakeOK'
    <2>1. fut' = fut /\ \A q \in ToSet(waiters) : ~Pending(q)
      BY <1>4 DEF AcquireFree, Locked, Pending
    <2>2. \A q \in Requests : Pending(q) => q \in ToSet(waiters)
      BY DEF DequeOK, Pending
    <2>3. QED
      BY <2>1, <2>2 DEF WakeOK, Pending
  <1>5. ASSUME NEW r \in Requests, AcquireWait(r) PROVE WakeOK'
    <2>1. /\ value' = value /\ fut[r] = "none"
          /\ fut' = [fut EXCEPT ![r] = "pending"]
          /\ phase' = [phase EXCEPT ![r] = "waiting"]
          /\ phase[r] = "called"
          /\ Locked
      BY <1>5 DEF AcquireWait, IInv, FuturesOK
    <2>2. ASSUME value > 0 PROVE HandOnDue
      <3>1. PICK q \in ToSet(waiters) : fut[q] # "cancelled"
        BY <1>1, <2>1, <2>2 DEF Locked, TypeOK
      <3>2. q \in Requests /\ fut[q] # "none"
        BY <1>1, <3>1 DEF TypeOK, DequeOK, ToSet
      <3>3. fut[q] \in {"pending", "granted", "revoked"}
        BY <1>1, <3>1, <3>2 DEF TypeOK, Futures
      <3>4. QED
        BY <2>2, <3>2, <3>3 DEF WakeOK, HandOnDue, Pending
    <2>3. HandOnDue => HandOnDue'
      BY <1>1, <2>1 DEF TypeOK, HandOnDue
    <2>4. QED
      BY <2>1, <2>2, <2>3 DEF WakeOK
  <1>6. ASSUME NEW r \in Requests, TimeoutFires(r) PROVE WakeOK'
    <2>1. value' = value /\ phase' = phase
      BY <1>6 DEF TimeoutFires
    <2>2. \A q \in Requests : fut'[q] = "pending" => fut[q] = "pending"
      BY <1>1, <1>6 DEF TypeOK, TimeoutFires, Pending
    <2>3. HandOnDue => HandOnDue'
      BY <1>1, <1>6, <2>1 DEF TypeOK, TimeoutFires, HandOnDue, Pending
    <2>4. QED
      BY <2>1, <2>2, <2>3 DEF WakeOK, Pending
  <1>7. ASSUME NEW r \in Requests, Resume(r) PROVE WakeOK'
    <2>1. phase'[r] \in {"entering", "leaving"}
      BY <1>1, <1>7 DEF TypeOK, Resume
    <2>2. QED
      BY <2>1 DEF WakeOK, HandOnDue
  <1>8. ASSUME NEW q \in Requests, WakeUpNext(q) PROVE WakeOK'
    <2>1. fut'[q] = "granted"
      BY <1>1, <1>8 DEF TypeOK, WakeUpNext
    <2>2. QED
      BY <2>1 DEF WakeOK, HandOnDue
  <1>9. ASSUME NobodyToWake, fut' = fut PROVE WakeOK'
    BY <1>9 DEF NobodyToWake, DequeOK, WakeOK, Pending
  <1>10. ASSUME NEW r \in Requests, HandOn(r) \/ Return(r) PROVE WakeOK'
    BY <1>8, <1>9, <1>10 DEF HandOn, Return
  <1>11. ASSUME NEW r \in Requests, Enter(r) \/ Shed(r) PROVE WakeOK'
    <2>1. value' = value /\ fut' = fut /\ HandedOn
      BY <1>11 DEF Enter, Shed, slotVars
    <2>2. CASE value = 0
      BY <2>1, <2>2 DEF WakeOK
    <2>3. QED
      BY <1>9, <2>1, <2>2 DEF HandedOn
  <1>12. ASSUME NEW r \in Requests,
                LoadFails(r) \/ UseCachedBody(r) \/ Predict(r)
         PROVE  WakeOK'
    <2>1. phase'[r] = "releasing"
      BY <1>1, <1>12 DEF TypeOK, LoadFails, UseCachedBody, Predict, Finish, Release
    <2>2. QED
      BY <2>1 DEF WakeOK, HandOnDue
  <1>13. CASE BeginIteration \/ UNCHANGED vars
    BY <1>2, <1>13 DEF BeginIteration, vars, slotVars, loopVars
  <1>14. QED
    BY <1>3, <1>4, <1>5, <1>6, <1>7, <1>10, <1>11, <1>12, <1>13
       DEF Next, RunLoop, Finished

------------------------------------------------------------------------------
(* The body of whoever holds a slot off the loop *)

PayloadOK ==
    \A r \in Requests : phase[r] = "rereading" => body[r] = "empty"

LEMMA PayloadStep == IInv /\ PayloadOK /\ [Next]_vars => PayloadOK'
  <1> SUFFICES ASSUME IInv, PayloadOK, [Next]_vars PROVE PayloadOK'
    OBVIOUS
  <1>1. TypeOK
    BY DEF IInv
  <1>2. ASSUME NEW r \in Requests, LimitBody(r) PROVE PayloadOK'
    <2>1. \A q \in Requests \ {r} : phase'[q] = phase[q] /\ body'[q] = body[q]
      BY <1>1, <1>2 DEF TypeOK, LimitBody
    <2>2. phase'[r] \in {"called", "done"}
      BY <1>1, <1>2 DEF TypeOK, LimitBody
    <2>3. QED
      BY <2>1, <2>2 DEF PayloadOK
  <1>3. ASSUME NEW r \in Requests, AwaitBodyAgain(r) PROVE PayloadOK'
    BY <1>1, <1>3 DEF TypeOK, PayloadOK, AwaitBodyAgain
  <1>4. ASSUME NEW r \in Requests, body' = body,
               \/ phase' = phase
               \/ phase'[r] # "rereading" /\ \A q \in Requests \ {r} : phase'[q] = phase[q]
        PROVE  PayloadOK'
    BY <1>4 DEF PayloadOK
  <1>5. ASSUME NEW r \in Requests, Disconnect(r) \/ (RunLoop(r) /\ ~AwaitBodyAgain(r))
        PROVE  PayloadOK'
    <2>1. body' = body
      BY <1>5 DEF RunLoop, Disconnect, ShedAtOnce, AcquireFree,
         AcquireWait, TimeoutFires, Resume, HandOn, Enter, Shed, LoadFails,
         UseCachedBody, ResumeWithBody, Predict, Return, Finish
    <2>2. \/ phase' = phase
          \/ \E p \in Phases \ {"rereading"} : phase' = [phase EXCEPT ![r] = p]
      BY <1>5 DEF RunLoop, Disconnect, ShedAtOnce, AcquireFree, Phases,
         AcquireWait, TimeoutFires, Resume, HandOn, Enter, Shed, LoadFails,
         UseCachedBody, ResumeWithBody, Predict, Return, Finish, Release
    <2>3. \/ phase' = phase
          \/ phase'[r] # "rereading" /\ \A q \in Requests \ {r} : phase'[q] = phase[q]
      BY <1>1, <2>2 DEF TypeOK
    <2>4. QED
      BY <2>1, <2>3, <1>4
  <1>6. ASSUME NEW r \in Requests, TimerRunsOut(r) \/ BodyReadAgain(r)
        PROVE  PayloadOK'
    BY <1>6 DEF TimerRunsOut, BodyReadAgain, PayloadOK
  <1>7. CASE BeginIteration \/ UNCHANGED vars
    BY <1>7 DEF BeginIteration, vars, PayloadOK
  <1>8. QED
    BY <1>2, <1>3, <1>5, <1>6, <1>7 DEF Next, Finished, RunLoop

------------------------------------------------------------------------------
(* The full invariant *)

FullInv == IInv /\ DequeOK /\ ScheduledOK /\ WakeOK /\ PayloadOK

LEMMA InitFullInv == Init => FullInv
  <1> SUFFICES ASSUME Init PROVE FullInv
    OBVIOUS
  <1>1. ToSet(waiters) = {} /\ DOMAIN waiters = {}
    BY DEF Init, ToSet
  <1>2. DequeOK /\ ScheduledOK /\ WakeOK /\ PayloadOK
    BY <1>1 DEF Init, DequeOK, ScheduledOK, WakeOK, PayloadOK, Pending
  <1>3. QED
    BY <1>2, InitIInv DEF FullInv

LEMMA NextFullInv == FullInv /\ [Next]_vars => FullInv'
  BY NextIInv, DequeStep, ScheduledStep, WakeStep, PayloadStep DEF FullInv

(* The strengthening that everything below rests on. *)
THEOREM FullInvariant == Spec => []FullInv
  BY InitFullInv, NextFullInv, PTL DEF Spec

(* While a slot is free and a request waits for one, a task that will hand *)
(* free slots on is running or scheduled: no wake-up is ever lost.         *)
THEOREM NoLostWakeUp == Spec => []NoStrandedWaiter
  <1>1. FullInv => NoStrandedWaiter
    BY DEF FullInv, WakeOK, HandOnDue, ScheduledOK, NoStrandedWaiter
  <1>2. QED
    BY FullInvariant, <1>1, PTL

(* Only an empty body lets a request own a slot while another one runs.    *)
THEOREM PayloadExclusion == Spec => []PayloadsNeverOverlap
  <1>1. FullInv => PayloadsNeverOverlap
    BY DEF FullInv, IInv, LoopOK, OnLoop, PayloadOK, PayloadsNeverOverlap
  <1>2. QED
    BY FullInvariant, <1>1, PTL

(* One step of NoOvertaking. *)
NoOvertake ==
    \A r \in Requests \ Owners : r \in Owners' =>
        \A q \in Requests \ {r} :
            Pending(q) =>
                \E i, j \in DOMAIN waiters :
                    waiters[i] = r /\ waiters[j] = q /\ i < j

LEMMA NoOvertakeStep == FullInv /\ [Next]_vars => NoOvertake
  <1> SUFFICES ASSUME FullInv, [Next]_vars PROVE NoOvertake
    OBVIOUS
  <1>1. TypeOK /\ DequeOK /\ FuturesOK
    BY DEF FullInv, IInv
  <1>2. ASSUME Owners' \subseteq Owners PROVE NoOvertake
    BY <1>2 DEF NoOvertake
  <1>3. ASSUME NEW s \in Requests, WakeUpNext(s), Owners' \subseteq Owners \cup {s}
        PROVE  NoOvertake
    <2> SUFFICES ASSUME NEW q \in Requests \ {s}, Pending(q)
                 PROVE  \E i, j \in DOMAIN waiters :
                            waiters[i] = s /\ waiters[j] = q /\ i < j
      BY <1>3 DEF NoOvertake
    <2>1. PICK i \in DOMAIN waiters :
            waiters[i] = s /\ \A j \in 1 .. i - 1 : ~Pending(waiters[j])
      BY <1>3 DEF WakeUpNext, FirstPending
    <2>2. PICK j \in DOMAIN waiters : waiters[j] = q
      BY <1>1 DEF DequeOK, Pending, ToSet
    <2>3. j \notin 1 .. i - 1 /\ j # i
      BY <2>1, <2>2
    <2>4. DOMAIN waiters \subseteq Nat \ {0}
      BY <1>1 DEF TypeOK
    <2>5. i < j
      BY <2>3, <2>4
    <2>6. QED
      BY <2>1, <2>2, <2>5
  <1>4. ASSUME NEW r \in Requests, AcquireFree(r) PROVE NoOvertake
    BY <1>1, <1>4 DEF NoOvertake, DequeOK, AcquireFree, Locked, Pending
  <1>5. ASSUME fut' = fut,
               NEW r \in Requests, Owns(r) \/ ~Owns(r)',
               \A q \in Requests \ {r} : phase'[q] = phase[q]
        PROVE  NoOvertake
    <2>1. Owners' \subseteq Owners
      BY <1>5 DEF Owners, Owns
    <2>2. QED
      BY <2>1, <1>2
  <1>6. ASSUME NEW r \in Requests, Quiet(r), ~AcquireFree(r) PROVE NoOvertake
    <2>1. fut' = fut
      BY <1>6, QuietStep
    <2>2. \A q \in Requests \ {r} : phase'[q] = phase[q]
      BY <1>1, <1>6
         DEF TypeOK, Quiet, LimitBody, Disconnect, TimerRunsOut, BodyReadAgain,
             ShedAtOnce, Enter, Shed, LoadFails, AwaitBodyAgain,
             UseCachedBody, ResumeWithBody, Predict, Finish, Release
    <2>3. Owns(r) \/ ~Owns(r)'
      BY <1>1, <1>6, <2>1
         DEF TypeOK, Quiet, LimitBody, Disconnect, TimerRunsOut, BodyReadAgain,
             ShedAtOnce, Enter, Shed, LoadFails, AwaitBodyAgain, Owns,
             UseCachedBody, ResumeWithBody, Predict, Finish, Release
    <2>4. QED
      BY <2>1, <2>2, <2>3, <1>5
  <1>7. ASSUME NEW r \in Requests, AcquireWait(r) PROVE NoOvertake
    <2>1. Owners' \subseteq Owners
      BY <1>1, <1>7 DEF TypeOK, AcquireWait, Owners, Owns
    <2>2. QED
      BY <2>1, <1>2
  <1>8. ASSUME NEW r \in Requests, TimeoutFires(r) PROVE NoOvertake
    <2>1. Owners' \subseteq Owners
      BY <1>1, <1>8 DEF TypeOK, TimeoutFires, Owners, Owns, Pending
    <2>2. QED
      BY <2>1, <1>2
  <1>9. ASSUME NEW r \in Requests, Resume(r) PROVE NoOvertake
    <2>1. Owners' \subseteq Owners
      BY <1>1, <1>9 DEF TypeOK, Resume, LeaveDeque, Owners, Owns
    <2>2. QED
      BY <2>1, <1>2
  <1>10. ASSUME NEW r \in Requests, HandOn(r) \/ Return(r) PROVE NoOvertake
    <2>1. CASE \E q \in Requests : WakeUpNext(q)
      <3>1. PICK q \in Requests : WakeUpNext(q)
        BY <2>1
      <3>2. /\ fut' = [fut EXCEPT ![q] = "granted"]
            /\ phase' = phase \/ phase' = [phase EXCEPT ![r] = "done"]
        BY <1>10, <3>1 DEF HandOn, Return, WakeUpNext
      <3>3. Owners' \subseteq Owners \cup {q}
        BY <1>1, <3>2 DEF TypeOK, Owners, Owns
      <3>4. QED
        BY <1>3, <3>1, <3>3
    <2>2. CASE fut' = fut /\ phase' = [phase EXCEPT ![r] = "done"]
      <3>1. Owners' \subseteq Owners
        BY <1>1, <2>2 DEF TypeOK, Owners, Owns
      <3>2. QED
        BY <3>1, <1>2
    <2>3. QED
      BY <1>10, <2>1, <2>2 DEF HandOn, Return
  <1>11. CASE BeginIteration \/ UNCHANGED vars
    <2>1. fut' = fut /\ phase' = phase
      BY <1>11 DEF BeginIteration, vars, slotVars
    <2>2. Owners' \subseteq Owners
      BY <2>1 DEF Owners, Owns
    <2>3. QED
      BY <2>2, <1>2
  <1>12. QED
    BY <1>4, <1>6, <1>7, <1>8, <1>9, <1>10, <1>11
       DEF Next, RunLoop, Finished, Quiet

(* A slot never goes to a request while an older one is in line: neither   *)
(* to a newcomer nor to a later waiter.                                    *)
THEOREM Fifo == Spec => NoOvertaking
  <1>1. FullInv /\ [Next]_vars => [NoOvertake]_vars
    BY NoOvertakeStep
  <1>2. QED
    BY FullInvariant, <1>1, PTL DEF Spec, NoOvertaking, NoOvertake

------------------------------------------------------------------------------
(* The timeout and the free slot *)

(* No timer runs before its request is in the deque. *)
NoEarlyTimer ==
    \A r \in Requests :
        phase[r] \in {"reading", "called"} => Timeout(r) \notin ToSet(ready)

(* A slot is free beyond the one that a release is about to hand on. *)
Releasing == \E x \in Requests : phase[x] = "releasing"
Surplus == IF Releasing THEN value > 1 ELSE value > 0

Granted(q) == fut[q] \in {"granted", "revoked"}
HandsOn == \E x \in Requests : phase[x] \in {"entering", "leaving"}

(* Before a callback that would cancel a request in line comes the step of *)
(* a task that hands the free slot on.                                     *)
AheadOK ==
    \A r \in Requests, k \in DOMAIN ready :
        Pending(r) /\ ready[k] = Timeout(r) /\ Surplus =>
            \/ HandsOn
            \/ \E q \in Requests, j \in DOMAIN ready :
                  Granted(q) /\ j < k /\ ready[j] = Step(q)

LEMMA EarlyTimerStep == IInv /\ NoEarlyTimer /\ [Next]_vars => NoEarlyTimer'
  <1> SUFFICES ASSUME IInv, NoEarlyTimer, [Next]_vars PROVE NoEarlyTimer'
    OBVIOUS
  <1>1. TypeOK
    BY DEF IInv
  <1> DEFINE Early(q) == phase[q] \in {"reading", "called"}
  <1>2. ASSUME \A q \in Requests : Early(q)' => Early(q),
               \A q \in Requests : Early(q)' =>
                  (Timeout(q) \in ToSet(ready') => Timeout(q) \in ToSet(ready))
        PROVE  NoEarlyTimer'
    BY <1>2 DEF NoEarlyTimer
  <1> HIDE DEF Early
  <1>3. ASSUME NEW r \in Requests,
               LimitBody(r) \/ Disconnect(r) \/ RunLoop(r)
        PROVE  \A q \in Requests : Early(q)' => Early(q)
    <2>1. \/ phase' = phase
          \/ Early(r) /\ phase' = [phase EXCEPT ![r] = "called"]
          \/ \E p \in Phases \ {"reading", "called"} : phase' = [phase EXCEPT ![r] = p]
      BY <1>3 DEF LimitBody, Disconnect, RunLoop, ShedAtOnce, AcquireFree, Phases,
         AcquireWait, TimeoutFires, Resume, HandOn, Enter, Shed, LoadFails, Early,
         AwaitBodyAgain, UseCachedBody, ResumeWithBody, Predict, Return, Finish, Release
    <2>2. QED
      BY <1>1, <2>1 DEF TypeOK, Early
  <1>4. ASSUME NEW r \in Requests,
               LimitBody(r) \/ Disconnect(r) \/ BodyReadAgain(r) \/ RunLoop(r)
        PROVE  \A q \in Requests :
                  Timeout(q) \in ToSet(ready') => Timeout(q) \in ToSet(ready)
    <2>1. \/ ready' = ready
          \/ \E q \in Requests : ready' = Append(ready, Step(q))
          \/ /\ \E c : Runs(c)
             /\ ready' = Tail(ready) \/ ready' = Append(Tail(ready), Step(r))
      <3>1. ASSUME NEW q \in Requests, WakeUpNext(q)
            PROVE  ready' = Append(ready, Step(q))
        BY <3>1 DEF WakeUpNext, Schedule
      <3>2. CASE HandOn(r) \/ Return(r)
        BY <3>1, <3>2 DEF HandOn, Return
      <3>3. CASE LimitBody(r) \/ BodyReadAgain(r)
        BY <3>3 DEF LimitBody, BodyReadAgain, Schedule
      <3>4. CASE \/ Disconnect(r) \/ Enter(r) \/ Shed(r) \/ LoadFails(r)
                 \/ AwaitBodyAgain(r) \/ UseCachedBody(r) \/ Predict(r)
        BY <3>4 DEF Disconnect, Enter, Shed, LoadFails, AwaitBodyAgain,
                    UseCachedBody, Predict, Finish, loopVars
      <3>5. CASE \/ ShedAtOnce(r) \/ AcquireFree(r) \/ AcquireWait(r)
                 \/ Resume(r) \/ ResumeWithBody(r) \/ TimeoutFires(r)
        BY <3>5 DEF ShedAtOnce, AcquireFree, AcquireWait, Resume,
                    ResumeWithBody, TimeoutFires
      <3>6. QED
        BY <1>4, <3>2, <3>3, <3>4, <3>5 DEF RunLoop
    <2>2. \A q \in Requests : ToSet(Append(ready, Step(q))) = ToSet(ready) \cup {Step(q)}
      BY <1>1, ReadyKeeps, CallbackKinds
    <2>3. ASSUME NEW c, Runs(c)
          PROVE  /\ ToSet(Tail(ready)) \subseteq ToSet(ready)
                 /\ ToSet(Append(Tail(ready), Step(r))) = ToSet(Tail(ready)) \cup {Step(r)}
      <3>1. ready \in Seq(Callback) /\ ready # <<>>
        BY <1>1, <2>3 DEF TypeOK, Runs
      <3>2. Tail(ready) \in Seq(Callback) /\ Step(r) \in Callback
        BY <3>1, CallbackKinds
      <3>3. \A i \in DOMAIN Tail(ready) : i + 1 \in DOMAIN ready /\ Tail(ready)[i] = ready[i + 1]
        BY <3>1
      <3>4. ToSet(Tail(ready)) \subseteq ToSet(ready)
        BY <3>3 DEF ToSet
      <3>5. \A s \in Seq(Callback), e \in Callback :
              ToSet(Append(s, e)) = ToSet(s) \cup {e}
        BY AppendSet
      <3>6. QED
        BY <3>2, <3>4, <3>5
    <2>4. ASSUME NEW q \in Requests, ready' = Append(ready, Step(q))
          PROVE  ToSet(ready') \subseteq ToSet(ready) \cup {Step(q)}
      BY <2>2, <2>4
    <2>5. ASSUME NEW c, Runs(c),
                 ready' = Tail(ready) \/ ready' = Append(Tail(ready), Step(r))
          PROVE  ToSet(ready') \subseteq ToSet(ready) \cup {Step(r)}
      BY <2>3, <2>5
    <2>6. QED
      BY <2>1, <2>4, <2>5, CallbackKinds
  <1>5. ASSUME NEW r \in Requests, TimerRunsOut(r) PROVE NoEarlyTimer'
    <2>1. fut[r] \in {"pending", "granted"} /\ phase' = phase
          /\ ready' = Append(ready, Timeout(r))
      BY <1>5 DEF TimerRunsOut, TimerArmed, Schedule
    <2>2. ToSet(ready') = ToSet(ready) \cup {Timeout(r)}
      BY <1>1, <2>1, ReadyKeeps, CallbackKinds
    <2>3. ~Early(r)
      BY <2>1 DEF IInv, FuturesOK, Early
    <2>4. \A q \in Requests \ {r} : Timeout(q) # Timeout(r)
      BY DEF Timeout
    <2>5. QED
      BY <2>1, <2>2, <2>3, <2>4, <1>2 DEF Early
  <1>6. ASSUME NEW r \in Requests, BodyReadAgain(r) PROVE phase' = phase
    BY <1>6 DEF BodyReadAgain
  <1>7. CASE BeginIteration \/ UNCHANGED vars
    BY <1>7 DEF BeginIteration, vars, NoEarlyTimer, loopVars
  <1>8. QED
    BY <1>2, <1>3, <1>4, <1>5, <1>6, <1>7 DEF Next, Finished, Early

------------------------------------------------------------------------------
(* The steps that only add a callback behind the others. *)
LEMMA AheadAppended ==
    ASSUME TypeOK, AheadOK, Surplus' => Surplus, HandsOn => HandsOn',
           \A q \in Requests : Pending(q)' => Pending(q),
           \A q \in Requests : Granted(q) => Granted(q)',
           \/ ready' = ready
           \/ \E q \in Requests : ready' = Append(ready, Step(q))
    PROVE  AheadOK'
  <1>1. ready \in Seq(Callback)
    BY DEF TypeOK
  <1>2. /\ \A k \in DOMAIN ready' :
              k \notin DOMAIN ready => \E q \in Requests : ready'[k] = Step(q)
        /\ \A k \in DOMAIN ready : k \in DOMAIN ready' /\ ready'[k] = ready[k]
    <2>1. ASSUME NEW q \in Requests, ready' = Append(ready, Step(q))
          PROVE  /\ \A k \in DOMAIN ready' :
                       k \notin DOMAIN ready => ready'[k] = Step(q)
                 /\ \A k \in DOMAIN ready : k \in DOMAIN ready' /\ ready'[k] = ready[k]
      BY <1>1, <2>1
    <2>2. QED
      BY <2>1
  <1> SUFFICES ASSUME NEW r \in Requests, NEW k \in DOMAIN ready',
                      Pending(r)', ready'[k] = Timeout(r), Surplus', ~HandsOn'
               PROVE  \E q \in Requests, j \in DOMAIN ready' :
                          Granted(q)' /\ j < k /\ ready'[j] = Step(q)
    BY DEF AheadOK
  <1>3. k \in DOMAIN ready /\ ready[k] = Timeout(r)
    BY <1>2, CallbackKinds
  <1>4. PICK q \in Requests, j \in DOMAIN ready :
          Granted(q) /\ j < k /\ ready[j] = Step(q)
    BY <1>3 DEF AheadOK
  <1>5. QED
    BY <1>2, <1>4

(* The steps that take the head callback, which grants nothing on. *)
LEMMA AheadTaken ==
    ASSUME TypeOK, AheadOK, Surplus' => Surplus, HandsOn => HandsOn',
           \A q \in Requests :
              Pending(q)' => Pending(q) \/ Timeout(q) \notin ToSet(ready),
           \A q \in Requests : Granted(q) => Granted(q)',
           NEW c, Runs(c), \A q \in Requests : c = Step(q) => ~Granted(q),
           \/ ready' = Tail(ready)
           \/ \E q \in Requests : ready' = Append(Tail(ready), Step(q))
    PROVE  AheadOK'
  <1>1. /\ ready \in Seq(Callback) /\ ready # <<>> /\ ready[1] = c
        /\ DOMAIN ready \subseteq Nat
    BY DEF TypeOK, Runs
  <1>2. /\ \A k \in DOMAIN ready' :
              \/ k + 1 \in DOMAIN ready /\ ready'[k] = ready[k + 1]
              \/ \E q \in Requests : ready'[k] = Step(q)
        /\ \A k \in DOMAIN ready :
              k # 1 => k - 1 \in DOMAIN ready' /\ ready'[k - 1] = ready[k]
        /\ DOMAIN ready' \subseteq Nat
    <2>1. CASE ready' = Tail(ready)
      <3>1. /\ ready' \in Seq(Callback)
            /\ \A k \in DOMAIN ready' : k + 1 \in DOMAIN ready /\ ready'[k] = ready[k + 1]
            /\ \A k \in DOMAIN ready :
                 k # 1 => k - 1 \in DOMAIN ready' /\ ready'[k - 1] = ready[k]
        BY <1>1, <2>1, TailShape
      <3>2. DOMAIN ready' \subseteq Nat
        BY <3>1
      <3>3. QED
        BY <3>1, <3>2
    <2>2. ASSUME NEW q \in Requests, ready' = Append(Tail(ready), Step(q))
          PROVE  /\ \A k \in DOMAIN ready' :
                       \/ k + 1 \in DOMAIN ready /\ ready'[k] = ready[k + 1]
                       \/ ready'[k] = Step(q)
                 /\ \A k \in DOMAIN ready :
                       k # 1 => k - 1 \in DOMAIN ready' /\ ready'[k - 1] = ready[k]
                 /\ DOMAIN ready' \subseteq Nat
      <3>1. Step(q) \in Callback
        BY CallbackKinds
      <3>2. /\ \A k \in DOMAIN ready' :
                 \/ k + 1 \in DOMAIN ready /\ ready'[k] = ready[k + 1]
                 \/ ready'[k] = Step(q)
            /\ \A k \in DOMAIN ready :
                 k # 1 => k - 1 \in DOMAIN ready' /\ ready'[k - 1] = ready[k]
        BY <1>1, <2>2, <3>1, TailAppendShape
      <3>3. ready' \in Seq(Callback)
        BY <1>1, <2>2, <3>1
      <3>4. DOMAIN ready' \subseteq Nat
        BY <3>3
      <3>5. QED
        BY <3>2, <3>4
    <2>3. QED
      BY <2>1, <2>2
  <1> SUFFICES ASSUME NEW r \in Requests, NEW k \in DOMAIN ready',
                      Pending(r)', ready'[k] = Timeout(r), Surplus', ~HandsOn'
               PROVE  \E q \in Requests, j \in DOMAIN ready' :
                          Granted(q)' /\ j < k /\ ready'[j] = Step(q)
    BY DEF AheadOK
  <1>3. k + 1 \in DOMAIN ready /\ ready[k + 1] = Timeout(r)
    BY <1>2, CallbackKinds
  <1>4. Pending(r)
    BY <1>3 DEF ToSet
  <1>5. PICK q \in Requests, j \in DOMAIN ready :
          Granted(q) /\ j < k + 1 /\ ready[j] = Step(q)
    BY <1>3, <1>4 DEF AheadOK
  <1>6. j # 1
    BY <1>1, <1>5
  <1>7. j - 1 \in DOMAIN ready' /\ j - 1 < k /\ ready'[j - 1] = Step(q)
    BY <1>1, <1>2, <1>5, <1>6
  <1>8. QED
    BY <1>5, <1>7

LEMMA AheadStep ==
    FullInv /\ NoEarlyTimer /\ AheadOK /\ [Next]_vars => AheadOK'
  <1> SUFFICES ASSUME FullInv, NoEarlyTimer, AheadOK, [Next]_vars PROVE AheadOK'
    OBVIOUS
  <1>1. TypeOK /\ value \in Nat
    BY SettingsAssumption DEF FullInv, IInv, TypeOK
  <1>2. ASSUME \A q \in Requests : ~Pending(q)' PROVE AheadOK'
    BY <1>2 DEF AheadOK
  <1>3. ASSUME HandsOn' PROVE AheadOK'
    BY <1>3 DEF AheadOK
  <1>4. ASSUME NobodyToWake, fut' = fut PROVE AheadOK'
    BY <1>2, <1>4 DEF NobodyToWake, FullInv, DequeOK, Pending
  <1>5. ASSUME NEW r \in Requests,
               \/ LimitBody(r) \/ Disconnect(r) \/ BodyReadAgain(r)
               \/ AwaitBodyAgain(r)
        PROVE  AheadOK'
    <2>1. UNCHANGED <<value, fut>>
      BY <1>5 DEF LimitBody, Disconnect, BodyReadAgain, AwaitBodyAgain, slotVars
    <2>2. \/ phase' = phase
          \/ /\ phase[r] \in {"reading", "inferring"}
             /\ \E p \in {"called", "done", "rereading"} :
                  phase' = [phase EXCEPT ![r] = p]
      BY <1>5 DEF LimitBody, Disconnect, BodyReadAgain, AwaitBodyAgain
    <2>3. HandsOn' = HandsOn /\ Releasing' = Releasing
      BY <1>1, <2>2 DEF TypeOK, HandsOn, Releasing
    <2>4. ready' = ready \/ ready' = Append(ready, Step(r))
      BY <1>5 DEF LimitBody, Disconnect, BodyReadAgain, AwaitBodyAgain, Schedule, loopVars
    <2>5. QED
      BY <1>1, <2>1, <2>3, <2>4, AheadAppended DEF Surplus, Pending, Granted
  <1>6. ASSUME NEW r \in Requests, TimerRunsOut(r) PROVE AheadOK'
    <2>1. /\ UNCHANGED <<value, fut, phase>> /\ running = NoTask
          /\ ready' = Append(ready, Timeout(r))
      BY <1>6 DEF TimerRunsOut, Poll, Schedule, slotVars
    <2>2. /\ DOMAIN ready = 1 .. Len(ready) /\ Len(ready) \in Nat
          /\ DOMAIN ready' = 1 .. Len(ready) + 1
          /\ \A i \in 1 .. Len(ready) : ready'[i] = ready[i]
      BY <1>1, <2>1 DEF TypeOK
    <2>3. SUFFICES ASSUME NEW s \in Requests, NEW k \in DOMAIN ready',
                          Pending(s), ready'[k] = Timeout(s), Surplus, ~HandsOn
                   PROVE  \E q \in Requests, j \in DOMAIN ready' :
                              Granted(q) /\ j < k /\ ready'[j] = Step(q)
      BY <2>1 DEF AheadOK, Pending, Surplus, Releasing, HandsOn, Granted
    <2>4. CASE k \in DOMAIN ready
      <3>1. PICK q \in Requests, j \in DOMAIN ready :
              Granted(q) /\ j < k /\ ready[j] = Step(q)
        BY <2>2, <2>3, <2>4 DEF AheadOK
      <3>2. QED
        BY <2>2, <3>1
    <2>5. CASE k = Len(ready) + 1
      <3>1. value > 0
        BY <1>1, <2>3 DEF Surplus
      <3>2. \A x \in Requests : phase[x] \notin {"entering", "leaving", "releasing"}
        BY <2>1, RequestsAssumption DEF FullInv, IInv, LoopOK, OnLoop
      <3>3. PICK q \in Requests : Granted(q)
        BY <2>3, <3>1, <3>2 DEF FullInv, WakeOK, HandOnDue, Granted
      <3>4. Step(q) \in ToSet(ready)
        BY <3>3 DEF FullInv, ScheduledOK, Granted
      <3>5. PICK j \in DOMAIN ready : ready[j] = Step(q)
        BY <3>4 DEF ToSet
      <3>6. QED
        BY <2>2, <2>5, <3>3, <3>5
    <2>6. QED
      BY <2>2, <2>4, <2>5
  <1>7. ASSUME NEW r \in Requests, AcquireFree(r) PROVE AheadOK'
    <2>1. fut' = fut /\ NobodyToWake
      BY <1>7 DEF AcquireFree, Locked, NobodyToWake, Pending
    <2>2. QED
      BY <2>1, <1>4
  <1>8. ASSUME NEW r \in Requests,
               ShedAtOnce(r) \/ ResumeWithBody(r) \/ AcquireWait(r)
        PROVE  AheadOK'
    <2>1. /\ value' = value /\ Runs(Step(r)) /\ ready' = Tail(ready)
          /\ phase[r] \in {"called", "rereading"}
          /\ \E p \in {"done", "predicting", "waiting"} :
               phase' = [phase EXCEPT ![r] = p]
          /\ \/ fut' = fut
             \/ phase[r] = "called" /\ fut' = [fut EXCEPT ![r] = "pending"]
      BY <1>8 DEF ShedAtOnce, ResumeWithBody, AcquireWait, slotVars
    <2>2. HandsOn' = HandsOn /\ Releasing' = Releasing
      BY <1>1, <2>1 DEF TypeOK, HandsOn, Releasing
    <2>3. ~Granted(r)
      BY <2>1 DEF FullInv, IInv, FuturesOK, Granted
    <2>4. \A q \in Requests : Granted(q) => Granted(q)'
      BY <1>1, <2>1, <2>3 DEF TypeOK, Granted
    <2>5. \A q \in Requests :
            Pending(q)' => Pending(q) \/ Timeout(q) \notin ToSet(ready)
      BY <1>1, <2>1 DEF TypeOK, Pending, NoEarlyTimer
    <2>6. Surplus' => Surplus
      BY <2>1, <2>2 DEF Surplus
    <2>7. \A q \in Requests : Step(r) = Step(q) => ~Granted(q)
      BY <2>3, CallbackKinds
    <2>8. QED
      BY <1>1, <2>1, <2>2, <2>4, <2>5, <2>6, <2>7, AheadTaken
  <1>9. ASSUME NEW r \in Requests, TimeoutFires(r) PROVE AheadOK'
    <2>1. /\ UNCHANGED <<value, phase>> /\ Runs(Timeout(r))
          /\ ready' = Tail(ready) \/ ready' = Append(Tail(ready), Step(r))
      BY <1>9 DEF TimeoutFires
    <2>2. \A q \in Requests :
            (Granted(q) => Granted(q)') /\ (Pending(q)' => Pending(q))
      BY <1>1, <1>9 DEF TypeOK, TimeoutFires, Granted, Pending
    <2>3. \A q \in Requests : Timeout(r) = Step(q) => ~Granted(q)
      BY CallbackKinds
    <2>4. (Surplus' => Surplus) /\ (HandsOn => HandsOn')
      BY <2>1 DEF Surplus, Releasing, HandsOn
    <2>5. QED
      BY <1>1, <2>1, <2>2, <2>3, <2>4, AheadTaken
  <1>10. ASSUME NEW r \in Requests, Resume(r) PROVE AheadOK'
    <2>1. phase'[r] \in {"entering", "leaving"}
      BY <1>1, <1>10 DEF TypeOK, Resume
    <2>2. QED
      BY <2>1, <1>3 DEF HandsOn
  <1>11. ASSUME NEW r \in Requests, HandOn(r) PROVE AheadOK'
    BY <1>3, <1>11 DEF HandOn, HandsOn
  <1>12. ASSUME NEW r \in Requests, Enter(r) \/ Shed(r) PROVE AheadOK'
    <2>1. value' = value /\ fut' = fut /\ HandedOn
      BY <1>12 DEF Enter, Shed, slotVars
    <2>2. CASE value = 0
      BY <2>1, <2>2 DEF AheadOK, Surplus
    <2>3. QED
      BY <1>4, <2>1, <2>2 DEF HandedOn
  <1>13. ASSUME NEW r \in Requests,
                LoadFails(r) \/ UseCachedBody(r) \/ Predict(r)
         PROVE  AheadOK'
    <2>1. /\ UNCHANGED <<fut, ready>> /\ running = r
          /\ value' = value + 1 /\ phase[r] \in {"inferring", "predicting"}
          /\ phase' = [phase EXCEPT ![r] = "releasing"]
      BY <1>13 DEF LoadFails, UseCachedBody, Predict, Finish, Release, loopVars
    <2>2. ~Releasing
      BY <2>1 DEF FullInv, IInv, LoopOK, OnLoop, Releasing
    <2>3. Releasing' /\ (HandsOn => HandsOn')
      BY <1>1, <2>1 DEF TypeOK, Releasing, HandsOn
    <2>4. Surplus' => Surplus
      BY <1>1, <2>1, <2>2, <2>3 DEF Surplus
    <2>5. QED
      BY <1>1, <2>1, <2>3, <2>4, AheadAppended DEF Pending, Granted
  <1>14. ASSUME NEW r \in Requests, Return(r) PROVE AheadOK'
    <2>1. CASE NobodyToWake /\ fut' = fut
      BY <2>1, <1>4
    <2>2. ASSUME NEW q \in Requests, WakeUpNext(q) PROVE AheadOK'
      <3>1. /\ value' = value - 1 /\ fut[q] = "pending" /\ running = r
            /\ fut' = [fut EXCEPT ![q] = "granted"]
            /\ phase[r] = "releasing" /\ phase' = [phase EXCEPT ![r] = "done"]
            /\ ready' = Append(ready, Step(q))
        BY <1>14, <2>2 DEF Return, WakeUpNext, FirstPending, Pending, Schedule
      <3>2. Releasing /\ ~Releasing' /\ (HandsOn => HandsOn')
        BY <1>1, <3>1
           DEF FullInv, IInv, TypeOK, LoopOK, OnLoop, Releasing, HandsOn
      <3>3. Surplus' => Surplus
        BY <1>1, <3>1, <3>2 DEF Surplus
      <3>4. \A s \in Requests :
              (Granted(s) => Granted(s)') /\ (Pending(s)' => Pending(s))
        BY <1>1, <3>1 DEF TypeOK, Granted, Pending
      <3>5. QED
        BY <1>1, <3>1, <3>2, <3>3, <3>4, AheadAppended
    <2>3. QED
      BY <1>14, <2>1, <2>2 DEF Return
  <1>15. CASE BeginIteration \/ UNCHANGED vars
    <2>1. UNCHANGED <<value, fut, phase, ready>>
      BY <1>15 DEF BeginIteration, vars, slotVars, loopVars
    <2>2. QED
      BY <2>1 DEF AheadOK, Pending, Surplus, Releasing, HandsOn, Granted
  <1>16. QED
    BY <1>5, <1>6, <1>7, <1>8, <1>9, <1>10, <1>11, <1>12, <1>13, <1>14, <1>15
       DEF Next, RunLoop, Finished

LEMMA AheadInvariant == Spec => [](NoEarlyTimer /\ AheadOK)
  <1>1. Init => NoEarlyTimer /\ AheadOK
    BY DEF Init, NoEarlyTimer, AheadOK, ToSet
  <1>2. FullInv => IInv
    BY DEF FullInv
  <1>3. QED
    BY FullInvariant, EarlyTimerStep, AheadStep, <1>1, <1>2, PTL DEF Spec

(* One step of TimesOutOnlyWhenSaturated. *)
Saturated ==
    \A r \in Requests : fut[r] = "pending" /\ fut'[r] = "cancelled" => value = 0

LEMMA SaturatedStep == FullInv /\ AheadOK /\ [Next]_vars => Saturated
  <1> SUFFICES ASSUME FullInv, AheadOK, [Next]_vars,
                      NEW r \in Requests, fut[r] = "pending", fut'[r] = "cancelled"
               PROVE  value = 0
    BY DEF Saturated
  <1>1. TypeOK /\ value \in Nat
    BY SettingsAssumption DEF FullInv, IInv, TypeOK
  <1>2. TimeoutFires(r)
    <2>1. ASSUME NEW q \in Requests, RunLoop(q), ~TimeoutFires(q)
          PROVE  \A s \in Requests : fut'[s] = "cancelled" => fut[s] = "cancelled"
      <3>1. ASSUME NEW s \in Requests, WakeUpNext(s)
            PROVE  fut' = [fut EXCEPT ![s] = "granted"]
        BY <3>1 DEF WakeUpNext
      <3>2. \/ fut' = fut
            \/ \E s \in Requests, f \in {"none", "pending", "granted"} :
                  fut' = [fut EXCEPT ![s] = f]
        <4>1. CASE HandOn(q) \/ Return(q)
          BY <3>1, <4>1 DEF HandOn, Return
        <4>2. CASE AcquireWait(q) \/ Resume(q)
          BY <4>2 DEF AcquireWait, Resume, LeaveDeque
        <4>3. CASE Quiet(q)
          BY <4>3, QuietStep
        <4>4. QED
          BY <2>1, <4>1, <4>2, <4>3 DEF RunLoop, Quiet
      <3>3. QED
        BY <1>1, <3>2 DEF TypeOK
    <2>2. ASSUME NEW q \in Requests, TimeoutFires(q) PROVE q = r
      BY <1>1, <2>2 DEF TypeOK, TimeoutFires
    <2>3. ASSUME NEW q \in Requests,
                 \/ LimitBody(q) \/ Disconnect(q)
                 \/ TimerRunsOut(q) \/ BodyReadAgain(q)
          PROVE  fut' = fut
      BY <2>3, QuietStep DEF Quiet
    <2>4. ~BeginIteration /\ ~UNCHANGED vars
      BY DEF BeginIteration, vars, slotVars
    <2>5. QED
      BY <2>1, <2>2, <2>3, <2>4 DEF Next, Finished
  <1>3. /\ ready \in Seq(Callback) /\ ready # <<>> /\ ready[1] = Timeout(r)
        /\ 1 \in DOMAIN ready /\ running = NoTask
    BY <1>1, <1>2 DEF TimeoutFires, Runs, TypeOK
  <1>4. ~HandsOn /\ ~Releasing
    BY <1>3, RequestsAssumption DEF FullInv, IInv, LoopOK, OnLoop, HandsOn, Releasing
  <1>5. ~ \E j \in DOMAIN ready : j < 1
    BY <1>3
  <1>6. ~Surplus
    BY <1>3, <1>4, <1>5 DEF AheadOK, Pending
  <1>7. QED
    BY <1>1, <1>4, <1>6 DEF Surplus

(* The timeout cancels a request in line only when every slot is owned.    *)
THEOREM TimeoutsOnlyUnderSaturation == Spec => TimesOutOnlyWhenSaturated
  <1>1. FullInv /\ AheadOK /\ [Next]_vars => [Saturated]_vars
    BY SaturatedStep
  <1>2. QED
    BY FullInvariant, AheadInvariant, <1>1, PTL
       DEF Spec, TimesOutOnlyWhenSaturated, Saturated

------------------------------------------------------------------------------
(* When nobody sends an empty body, nobody waits and nobody is shed. *)

Calm == patient /\ MaxInflight > 0 /\ \A r \in Requests : body[r] # "empty"

CalmOK ==
    /\ \A r \in Requests : phase[r] = "reading" => body[r] = "unread"
    /\ Calm =>
         /\ waiters = <<>>
         /\ \A r \in Requests : answer[r] # 429 /\ phase[r] # "leaving"

(* Between two callbacks every slot is free then. *)
LEMMA CalmSlots ==
    ASSUME FullInv, Calm, waiters = <<>>
    PROVE  /\ \A r \in Requests : fut[r] = "none" /\ phase[r] # "waiting"
           /\ running = NoTask => ~Locked
  <1>1. ToSet(waiters) = {}
    BY DEF ToSet
  <1>2. \A r \in Requests : fut[r] = "none" /\ phase[r] # "waiting"
    BY <1>1 DEF FullInv, IInv, DequeOK, FuturesOK
  <1>3. ASSUME running = NoTask PROVE ~Locked
    <2>1. Owners = {}
      BY <1>2, <1>3, RequestsAssumption
         DEF FullInv, IInv, LoopOK, OnLoop, PayloadOK, Calm, Owners, Owns
    <2>2. value + 0 = MaxInflight
      BY <2>1, FS_EmptySet DEF FullInv, IInv, SlotsConserved
    <2>3. value # 0
      BY <2>2, SettingsAssumption DEF FullInv, IInv, TypeOK, Calm
    <2>4. QED
      BY <1>1, <2>3 DEF Locked
  <1>4. QED
    BY <1>2, <1>3

LEMMA CalmStep == FullInv /\ CalmOK /\ [Next]_vars => CalmOK'
  <1> SUFFICES ASSUME FullInv, CalmOK, [Next]_vars PROVE CalmOK'
    OBVIOUS
  <1>1. TypeOK
    BY DEF FullInv, IInv
  <1>2. ASSUME NEW r \in Requests, LimitBody(r) PROVE CalmOK'
    <2>1. body[r] = "unread" /\ UNCHANGED <<patient, waiters>>
      BY <1>2 DEF CalmOK, LimitBody, slotVars
    <2>2. \A q \in Requests \ {r} :
            phase'[q] = phase[q] /\ body'[q] = body[q] /\ answer'[q] = answer[q]
      BY <1>1, <1>2 DEF TypeOK, LimitBody
    <2>3. /\ phase'[r] \in {"done", "called"}
          /\ answer'[r] = answer[r] \/ answer'[r] = 413
      BY <1>1, <1>2 DEF TypeOK, LimitBody
    <2>4. Calm' => Calm
      BY <2>1, <2>2 DEF Calm
    <2>5. QED
      BY <2>1, <2>2, <2>3, <2>4 DEF CalmOK
  <1>3. ASSUME UNCHANGED <<patient, body, waiters, answer>>,
               \A r \in Requests : phase'[r] \in {phase[r]} \cup (Phases \ {"reading", "leaving"})
        PROVE  CalmOK'
    BY <1>3 DEF CalmOK, Calm
  <1>4. ASSUME UNCHANGED <<patient, body>>, ~Calm,
               \A r \in Requests : phase'[r] # "reading" \/ phase'[r] = phase[r]
        PROVE  CalmOK'
    BY <1>4 DEF CalmOK, Calm
  <1>5. ASSUME NEW r \in Requests, AcquireWait(r) \/ Resume(r) \/ Shed(r) \/ ShedAtOnce(r)
        PROVE  CalmOK'
    <2>1. UNCHANGED <<patient, body>>
      BY <1>5 DEF AcquireWait, Resume, Shed, ShedAtOnce
    <2>2. \A q \in Requests : phase'[q] # "reading" \/ phase'[q] = phase[q]
      BY <1>1, <1>5 DEF TypeOK, AcquireWait, Resume, Shed, ShedAtOnce
    <2>3. ASSUME Calm PROVE FALSE
      <3>1. waiters = <<>> /\ phase[r] # "leaving" /\ patient
        BY <2>3 DEF CalmOK, Calm
      <3>2. phase[r] # "waiting" /\ (running = NoTask => ~Locked)
        BY <2>3, <3>1, CalmSlots
      <3>3. QED
        BY <1>5, <3>1, <3>2 DEF AcquireWait, Resume, Shed, ShedAtOnce, Runs
    <2>4. QED
      BY <2>1, <2>2, <2>3, <1>4
  <1>6. ASSUME NEW r \in Requests, LoadFails(r) \/ UseCachedBody(r) \/ Predict(r)
        PROVE  CalmOK'
    <2>1. UNCHANGED <<patient, body, waiters>>
      BY <1>6 DEF LoadFails, UseCachedBody, Predict, Finish
    <2>2. phase' = [phase EXCEPT ![r] = "releasing"]
      BY <1>6 DEF LoadFails, UseCachedBody, Predict, Finish, Release
    <2>3. \E status \in Outcomes : answer' = [answer EXCEPT ![r] = status]
      BY <1>6 DEF LoadFails, UseCachedBody, Predict, Finish, Outcomes
    <2>4. \A q \in Requests : answer'[q] = answer[q] \/ answer'[q] # 429
      BY <1>1, <2>3 DEF TypeOK, Outcomes
    <2>5. \A q \in Requests : phase'[q] = phase[q] \/ phase'[q] = "releasing"
      BY <1>1, <2>2 DEF TypeOK
    <2>6. QED
      BY <2>1, <2>4, <2>5 DEF CalmOK, Calm
  <1>7. ASSUME NEW r \in Requests,
               \/ Disconnect(r) \/ TimerRunsOut(r) \/ BodyReadAgain(r)
               \/ AcquireFree(r) \/ TimeoutFires(r) \/ HandOn(r) \/ Enter(r)
               \/ AwaitBodyAgain(r) \/ ResumeWithBody(r) \/ Return(r)
        PROVE  CalmOK'
    <2>1. UNCHANGED <<patient, body, waiters, answer>>
      BY <1>7 DEF Disconnect, TimerRunsOut, BodyReadAgain, AcquireFree,
                  TimeoutFires, HandOn, Enter, AwaitBodyAgain, ResumeWithBody,
                  Return, slotVars
    <2>2. \/ phase' = phase
          \/ \E p \in Phases \ {"reading", "leaving"} : phase' = [phase EXCEPT ![r] = p]
      BY <1>7 DEF Disconnect, TimerRunsOut, BodyReadAgain, AcquireFree, Phases,
                  TimeoutFires, HandOn, Enter, AwaitBodyAgain, ResumeWithBody,
                  Return
    <2>3. \A q \in Requests :
            phase'[q] \in {phase[q]} \cup (Phases \ {"reading", "leaving"})
      BY <1>1, <2>2 DEF TypeOK
    <2>4. QED
      BY <2>1, <2>3, <1>3
  <1>8. CASE BeginIteration \/ UNCHANGED vars
    BY <1>3, <1>8 DEF BeginIteration, vars, slotVars
  <1>9. QED
    BY <1>2, <1>5, <1>6, <1>7, <1>8 DEF Next, RunLoop, Finished

(* With a slot configured and a positive timeout, requests that all carry  *)
(* a payload never queue and are never shed, however many arrive at once.  *)
THEOREM PayloadsAdmitted == Spec => []PayloadsNeverShed
  <1>1. Init => CalmOK
    BY DEF Init, CalmOK
  <1>2. CalmOK => PayloadsNeverShed
    BY DEF CalmOK, Calm, PayloadsNeverShed
  <1>3. QED
    BY FullInvariant, CalmStep, <1>1, <1>2, PTL DEF Spec

------------------------------------------------------------------------------
(* The abstract limit *)

InLine == {r \in Requests : Pending(r)}

(* Line lists the pending requests in the order of the deque. *)
LineOK == IsListOf(Line, InLine, waiters)

LEMMA LineOf ==
    ASSUME NEW S, NEW s \in Seq(S), Distinct(s), NEW P, IsFiniteSet(P),
           NEW t, IsListOf(t, P, s)
    PROVE  InOrderOf(s, P) = t
  <1> DEFINE Is(x) ==
          /\ ToSet(x) = P
          /\ \A i, j \in DOMAIN x : i < j =>
                \E k, l \in DOMAIN s : k < l /\ s[k] = x[i] /\ s[l] = x[j]
  <1>1. \A x : IsListOf(x, P, s) <=> x \in [1 .. Cardinality(P) -> P] /\ Is(x)
    BY DEF IsListOf, InOrder
  <1>2. InOrderOf(s, P) = CHOOSE x \in [1 .. Cardinality(P) -> P] : Is(x)
    BY DEF InOrderOf
  <1> HIDE DEF Is
  <1>3. IsListOf(InOrderOf(s, P), P, s)
    BY <1>1, <1>2
  <1>4. QED
    BY <1>3, ListUnique

LEMMA LineNext ==
    ASSUME FullInv', NEW t, IsListOf(t, InLine', waiters')
    PROVE  Line' = t /\ LineOK'
  <1>1. waiters' \in Seq(Requests) /\ Distinct(waiters')
    BY DEF FullInv, IInv, TypeOK, DequeOK, Distinct
  <1>2. IsFiniteSet(InLine')
    BY RequestsAssumption, FS_Subset DEF InLine
  <1>3. Line' = t
    BY <1>1, <1>2, LineOf DEF Line, InLine
  <1>4. QED
    BY <1>3 DEF LineOK

(* The operators the instance brings along are the library's. *)
LEMMA LimitOps ==
    /\ \A s : Limit!ToSet(s) = ToSet(s)
    /\ \A S : Limit!Cardinality(S) = Cardinality(S)
    /\ \A s, i : Limit!RemoveAt(s, i) = RemoveAt(s, i)
  BY DEF Limit!ToSet, ToSet, Limit!Cardinality, Cardinality, Limit!RemoveAt, RemoveAt

(* What FullInv and LineOK say of the abstract state. *)
LEMMA LimitState ==
    ASSUME FullInv, LineOK
    PROVE  /\ waiters \in Seq(Requests) /\ Distinct(waiters)
           /\ IsFiniteSet(InLine) /\ InLine \subseteq ToSet(waiters)
           /\ ToSet(Line) = InLine
           /\ value > 0 => Limit!HasRoom
           /\ \A r \in Requests : fut[r] = "none" /\ r \notin Owners => r \in Limit!Outside
  <1>1. waiters \in Seq(Requests) /\ Distinct(waiters) /\ InLine \subseteq ToSet(waiters)
    BY DEF FullInv, IInv, TypeOK, DequeOK, Distinct, InLine, Pending
  <1>2. IsFiniteSet(InLine)
    BY RequestsAssumption, FS_Subset DEF InLine
  <1>3. ToSet(Line) = InLine
    BY DEF LineOK, IsListOf
  <1>4. ASSUME value > 0 PROVE Limit!HasRoom
    <2>1. Cardinality(Owners) < MaxInflight
      BY <1>4, OwnersFinite, SettingsAssumption DEF FullInv, IInv, TypeOK, SlotsConserved
    <2>2. QED
      BY <2>1, LimitOps DEF Limit!HasRoom
  <1>5. ASSUME NEW r \in Requests, fut[r] = "none", r \notin Owners
        PROVE  r \in Limit!Outside
    <2>1. r \notin ToSet(Line)
      BY <1>3, <1>5 DEF InLine, Pending
    <2>2. QED
      BY <1>5, <2>1, LimitOps DEF Limit!Outside
  <1>6. QED
    BY <1>1, <1>2, <1>3, <1>4, <1>5

LEMMA LimitStep ==
    FullInv /\ FullInv' /\ LineOK /\ [Next]_vars =>
        LineOK' /\ [Limit!Next]_(Limit!limitVars)
  <1> SUFFICES ASSUME FullInv, FullInv', LineOK, [Next]_vars
               PROVE  LineOK' /\ [Limit!Next]_(Limit!limitVars)
    OBVIOUS
  <1>1. TypeOK /\ FuturesOK
    BY DEF FullInv, IInv
  <1>2. ASSUME waiters' = waiters, InLine' = InLine
        PROVE  LineOK' /\ Line' = Line
    BY <1>2, LineNext DEF LineOK
  <1>3. ASSUME Line' = Line, NEW r \in Requests, r \in Owners, Owners' = Owners \ {r}
        PROVE  Limit!Next
    BY <1>3 DEF Limit!Next, Limit!Leave
  <1>4. ASSUME Line' = Line, Owners' = Owners
        PROVE  [Limit!Next]_(Limit!limitVars)
    BY <1>4 DEF Limit!limitVars
  <1>5. ASSUME NEW r \in Requests, AcquireFree(r)
        PROVE  LineOK' /\ Limit!Next
    <2>1. /\ UNCHANGED <<waiters, fut>> /\ value > 0 /\ fut[r] = "none"
          /\ phase[r] = "called" /\ phase' = [phase EXCEPT ![r] = "inferring"]
      BY <1>1, <1>5, SettingsAssumption DEF AcquireFree, Locked, TypeOK, FuturesOK
    <2>2. InLine = {}
      BY <1>5 DEF AcquireFree, Locked, InLine, Pending, FullInv, DequeOK
    <2>3. LineOK' /\ Line' = Line
      BY <2>1, <1>2 DEF InLine, Pending
    <2>4. Line = <<>>
      <3>1. Line \in [1 .. 0 -> {}]
        BY <2>2, FS_EmptySet DEF LineOK, IsListOf
      <3>2. QED
        BY <3>1
    <2>5. r \notin Owners /\ Owners' = Owners \cup {r}
      BY <1>1, <2>1 DEF TypeOK, Owners, Owns
    <2>6. r \in Limit!Outside /\ Limit!HasRoom
      BY <2>1, <2>5, LimitState
    <2>7. Limit!AdmitDirectly(r)
      BY <2>3, <2>4, <2>5, <2>6 DEF Limit!AdmitDirectly
    <2>8. QED
      BY <2>3, <2>7 DEF Limit!Next
  <1>6. ASSUME NEW r \in Requests, AcquireWait(r)
        PROVE  LineOK' /\ Limit!Next
    <2>1. /\ waiters' = Append(waiters, r) /\ fut' = [fut EXCEPT ![r] = "pending"]
          /\ phase[r] = "called" /\ phase' = [phase EXCEPT ![r] = "waiting"]
          /\ fut[r] = "none"
      BY <1>1, <1>6 DEF AcquireWait, FuturesOK
    <2>2. InLine' = InLine \cup {r} /\ r \notin ToSet(waiters)
      BY <1>1, <2>1 DEF TypeOK, InLine, Pending, FullInv, DequeOK
    <2>3. IsListOf(Append(Line, r), InLine', waiters')
      BY <2>1, <2>2, LimitState, ListAppend DEF LineOK
    <2>4. LineOK' /\ Line' = Append(Line, r)
      BY <2>3, LineNext
    <2>5. r \notin Owners /\ Owners' = Owners
      BY <1>1, <2>1 DEF TypeOK, Owners, Owns
    <2>6. r \in Limit!Outside
      BY <2>1, <2>5, LimitState
    <2>7. Limit!JoinLine(r)
      BY <2>4, <2>5, <2>6 DEF Limit!JoinLine
    <2>8. QED
      BY <2>4, <2>7 DEF Limit!Next
  <1>7. ASSUME NEW r \in Requests, TimeoutFires(r)
        PROVE  LineOK' /\ [Limit!Next]_(Limit!limitVars)
    <2>1. waiters' = waiters /\ phase' = phase
      BY <1>7 DEF TimeoutFires
    <2>2. Owners' = Owners
      BY <1>1, <1>7, <2>1 DEF TypeOK, TimeoutFires, Owners, Owns, Pending
    <2>3. CASE Pending(r)
      <3>1. fut' = [fut EXCEPT ![r] = "cancelled"]
        BY <1>7, <2>3 DEF TimeoutFires, Pending
      <3>2. InLine' = InLine \ {r} /\ r \in InLine
        BY <1>1, <2>3, <3>1 DEF TypeOK, InLine, Pending
      <3>3. PICK m \in DOMAIN Line : Line[m] = r
        BY <3>2, LimitState DEF ToSet
      <3>4. IsListOf(RemoveAt(Line, m), InLine \ {Line[m]}, waiters)
        BY LimitState, ListRemove DEF LineOK
      <3>5. LineOK' /\ Line' = RemoveAt(Line, m)
        BY <2>1, <3>2, <3>3, <3>4, LineNext
      <3>6. Limit!GiveUp(m)
        BY <2>2, <3>5, LimitOps DEF Limit!GiveUp
      <3>7. QED
        BY <3>3, <3>5, <3>6 DEF Limit!Next
    <2>4. CASE ~Pending(r)
      <3>1. InLine' = InLine
        BY <1>1, <1>7, <2>4 DEF TypeOK, TimeoutFires, InLine, Pending
      <3>2. QED
        BY <2>1, <2>2, <3>1, <1>2, <1>4
    <2>5. QED
      BY <2>3, <2>4
  <1>8. ASSUME NEW r \in Requests, Resume(r)
        PROVE  LineOK' /\ [Limit!Next]_(Limit!limitVars)
    <2>1. /\ phase[r] = "waiting" /\ fut[r] \in {"granted", "cancelled", "revoked"}
          /\ fut' = [fut EXCEPT ![r] = "none"]
          /\ phase' = [phase EXCEPT ![r] =
                          IF fut[r] = "granted" THEN "entering" ELSE "leaving"]
      BY <1>8 DEF Resume, LeaveDeque
    <2>2. PICK i \in DOMAIN waiters : waiters[i] = r /\ waiters' = RemoveAt(waiters, i)
      BY <1>8 DEF Resume, LeaveDeque
    <2>3. InLine' = InLine /\ r \notin InLine
      BY <1>1, <2>1 DEF TypeOK, InLine, Pending
    <2>4. IsListOf(Line, InLine', waiters')
      BY <2>2, <2>3, LimitState, ListKept DEF LineOK
    <2>5. LineOK' /\ Line' = Line
      BY <2>4, LineNext
    <2>6. CASE fut[r] # "revoked"
      <3>1. Owners' = Owners
        BY <1>1, <2>1, <2>6 DEF TypeOK, Owners, Owns
      <3>2. QED
        BY <2>5, <3>1, <1>4
    <2>7. CASE fut[r] = "revoked"
      <3>1. r \in Owners /\ Owners' = Owners \ {r}
        BY <1>1, <2>1, <2>7 DEF TypeOK, Owners, Owns
      <3>2. QED
        BY <2>5, <3>1, <1>3
    <2>8. QED
      BY <2>6, <2>7
  <1>9. ASSUME NEW q \in Requests, WakeUpNext(q), value > 0, waiters' = waiters,
               NEW r \in Requests, phase[r] \in {"entering", "leaving", "releasing"},
               \/ phase' = phase
               \/ phase[r] = "releasing" /\ phase' = [phase EXCEPT ![r] = "done"]
        PROVE  LineOK' /\ Limit!Next
    <2>1. /\ fut' = [fut EXCEPT ![q] = "granted"] /\ q \in InLine
          /\ \E i \in DOMAIN waiters :
                waiters[i] = q /\ \A j \in 1 .. i - 1 : waiters[j] \notin InLine
      BY <1>9 DEF WakeUpNext, FirstPending, InLine
    <2>2. InLine' = InLine \ {q}
      BY <1>1, <2>1 DEF TypeOK, InLine, Pending
    <2>3. Line # <<>> /\ Head(Line) = q /\ IsListOf(Tail(Line), InLine \ {q}, waiters)
      BY <2>1, LimitState, ListTail DEF LineOK
    <2>4. LineOK' /\ Line' = Tail(Line)
      BY <1>9, <2>2, <2>3, LineNext
    <2>5. Owners' = Owners \cup {q}
      BY <1>1, <1>9, <2>1 DEF TypeOK, FuturesOK, Owners, Owns, InLine, Pending
    <2>6. Limit!AdmitHead
      BY <1>9, <2>3, <2>4, <2>5, LimitState DEF Limit!AdmitHead
    <2>7. QED
      BY <2>4, <2>6 DEF Limit!Next
  <1>10. ASSUME NEW r \in Requests, HandOn(r) \/ Return(r)
         PROVE  LineOK' /\ [Limit!Next]_(Limit!limitVars)
    <2>1. /\ value > 0 /\ waiters' = waiters
          /\ phase[r] \in {"entering", "leaving", "releasing"}
          /\ \/ phase' = phase
             \/ phase[r] = "releasing" /\ phase' = [phase EXCEPT ![r] = "done"]
      BY <1>10 DEF HandOn, Return, FullInv, IInv, ReleaseOK
    <2>2. CASE \E q \in Requests : WakeUpNext(q)
      BY <1>9, <2>1, <2>2
    <2>3. CASE fut' = fut /\ Return(r)
      <3>1. phase[r] = "releasing" /\ phase' = [phase EXCEPT ![r] = "done"]
        BY <2>3 DEF Return
      <3>2. InLine' = InLine /\ Owners' = Owners
        BY <1>1, <2>3, <3>1 DEF TypeOK, InLine, Pending, Owners, Owns
      <3>3. QED
        BY <2>1, <3>2, <1>2, <1>4
    <2>4. QED
      BY <1>10, <2>2, <2>3 DEF HandOn, Return
  <1>11. ASSUME NEW r \in Requests, LoadFails(r) \/ UseCachedBody(r) \/ Predict(r)
         PROVE  LineOK' /\ Limit!Next
    <2>1. /\ UNCHANGED <<waiters, fut>>
          /\ phase[r] \in {"inferring", "predicting"}
          /\ phase' = [phase EXCEPT ![r] = "releasing"]
      BY <1>11 DEF LoadFails, UseCachedBody, Predict, Finish, Release
    <2>2. InLine' = InLine
      BY <2>1 DEF InLine, Pending
    <2>3. r \in Owners /\ Owners' = Owners \ {r}
      BY <1>1, <2>1 DEF TypeOK, FuturesOK, Owners, Owns
    <2>4. QED
      BY <2>1, <2>2, <2>3, <1>2, <1>3
  <1>12. ASSUME NEW r \in Requests,
                \/ LimitBody(r) \/ Disconnect(r) \/ TimerRunsOut(r)
                \/ BodyReadAgain(r) \/ ShedAtOnce(r) \/ Enter(r) \/ Shed(r)
                \/ AwaitBodyAgain(r) \/ ResumeWithBody(r)
         PROVE  LineOK' /\ [Limit!Next]_(Limit!limitVars)
    <2>1. UNCHANGED <<waiters, fut>>
      BY <1>12, QuietStep DEF Quiet
    <2>2. InLine' = InLine
      BY <2>1 DEF InLine, Pending
    <2>3. Owners' = Owners
      BY <1>1, <1>12, <2>1
         DEF TypeOK, Owners, Owns, LimitBody, Disconnect, TimerRunsOut,
             BodyReadAgain, ShedAtOnce, Enter, Shed, AwaitBodyAgain, ResumeWithBody
    <2>4. QED
      BY <2>1, <2>2, <2>3, <1>2, <1>4
  <1>13. CASE BeginIteration \/ UNCHANGED vars
    <2>1. UNCHANGED <<waiters, fut, phase>>
      BY <1>13 DEF BeginIteration, vars, slotVars
    <2>2. InLine' = InLine /\ Owners' = Owners
      BY <2>1 DEF InLine, Pending, Owners, Owns
    <2>3. QED
      BY <2>1, <2>2, <1>2, <1>4
  <1>14. QED
    BY <1>5, <1>6, <1>7, <1>8, <1>10, <1>11, <1>12, <1>13
       DEF Next, RunLoop, Finished

LEMMA LimitInit == Init => LineOK /\ Limit!Init
  <1> SUFFICES ASSUME Init PROVE LineOK /\ Limit!Init
    OBVIOUS
  <1>1. waiters = <<>> /\ InLine = {} /\ Owners = {}
    BY DEF Init, InLine, Pending, Owners, Owns
  <1>2. IsListOf(<<>>, {}, <<>>)
    BY FS_EmptySet DEF IsListOf, InOrder, ToSet
  <1>3. InOrderOf(<<>>, {}) = <<>>
    <2>1. <<>> \in Seq(Requests) /\ Distinct(<<>>) /\ IsFiniteSet({})
      BY FS_EmptySet DEF Distinct
    <2>2. QED
      BY <1>2, <2>1, LineOf
  <1>4. Line = <<>>
    BY <1>1, <1>3 DEF Line, InLine
  <1>5. QED
    BY <1>1, <1>2, <1>4 DEF LineOK, Limit!Init

(* With the pending requests as its line and the owners of a slot as its   *)
(* inflight set, the semaphore starts as the abstract limit does, and each *)
(* step of it admits from the head of the line or past an empty one where  *)
(* there is room, lines somebody up, lets somebody give up or leave, or    *)
(* changes nothing: the safety part of ImplementsLimit.                    *)
THEOREM StepsOfLimit == Spec => Limit!Init /\ [][Limit!Next]_(Limit!limitVars)
  BY FullInvariant, NextFullInv, LimitInit, LimitStep, PTL DEF Spec
------------------------------------------------------------------------------
(* What keeps the loop going *)

(* A step of r is due: its task has to begin, or its await is over. *)
Due(r) ==
    \/ phase[r] \in {"called", "rereading"}
    \/ fut[r] \in {"granted", "cancelled", "revoked"}

(* No callback is scheduled twice, and the iteration counts no more than   *)
(* there are.                                                              *)
QueueOK == Distinct(ready) /\ todo <= Len(ready)

(* Only a due step is scheduled, and a handler's first step always is. *)
DueOK ==
    \A r \in Requests :
        /\ Step(r) \in ToSet(ready) => Due(r)
        /\ phase[r] = "called" => Step(r) \in ToSet(ready)

(* What scheduling, running and both do to the callbacks. *)
LEMMA CallScheduled ==
    ASSUME TypeOK, QueueOK, NEW c \in Callback, c \notin ToSet(ready),
           ready' = Append(ready, c), todo' = todo
    PROVE  QueueOK' /\ ToSet(ready') = ToSet(ready) \cup {c}
  <1>1. ready \in Seq(Callback) /\ todo \in Nat
    BY DEF TypeOK
  <1>2. Distinct(ready') /\ ToSet(ready') = ToSet(ready) \cup {c}
    BY <1>1, AppendDistinct, AppendSet DEF QueueOK
  <1>3. Len(ready') = Len(ready) + 1
    BY <1>1
  <1>4. QED
    BY <1>1, <1>2, <1>3 DEF QueueOK

LEMMA CallRun ==
    ASSUME TypeOK, QueueOK, NEW c, Runs(c), ready' = Tail(ready)
    PROVE  QueueOK' /\ ToSet(ready') = ToSet(ready) \ {c}
  <1>1. /\ ready \in Seq(Callback) /\ ready # <<>> /\ c = Head(ready)
        /\ todo \in Nat /\ todo' = todo - 1
    BY DEF TypeOK, Runs
  <1>2. Distinct(ready') /\ ToSet(ready') = ToSet(ready) \ {c}
    BY <1>1, TailDistinct DEF QueueOK
  <1>3. Len(ready') = Len(ready) - 1
    BY <1>1
  <1>4. QED
    BY <1>1, <1>2, <1>3 DEF QueueOK

LEMMA CallReplaced ==
    ASSUME TypeOK, QueueOK, NEW c, Runs(c), NEW d \in Callback,
           d \notin ToSet(ready), ready' = Append(Tail(ready), d)
    PROVE  QueueOK' /\ ToSet(ready') = (ToSet(ready) \ {c}) \cup {d}
  <1> DEFINE rest == Tail(ready)
  <1>1. /\ ready \in Seq(Callback) /\ ready # <<>> /\ c = Head(ready)
        /\ todo \in Nat /\ todo' = todo - 1
    BY DEF TypeOK, Runs
  <1>2. Distinct(rest) /\ ToSet(rest) = ToSet(ready) \ {c} /\ rest \in Seq(Callback)
    BY <1>1, TailDistinct DEF QueueOK
  <1>3. Len(rest) = Len(ready) - 1
    BY <1>1
  <1> HIDE DEF rest
  <1>4. ready' = Append(rest, d)
    BY DEF rest
  <1>5. Distinct(ready') /\ ToSet(ready') = ToSet(rest) \cup {d}
    <2>1. d \notin ToSet(rest)
      BY <1>2
    <2>2. Distinct(Append(rest, d))
      BY <1>2, <2>1, AppendDistinct
    <2>3. ToSet(Append(rest, d)) = ToSet(rest) \cup {d}
      BY <1>2, AppendSet
    <2>4. QED
      BY <1>4, <2>2, <2>3
  <1>6. Len(ready') = Len(rest) + 1
    BY <1>2, <1>4
  <1>7. QED
    BY <1>1, <1>2, <1>3, <1>5, <1>6 DEF QueueOK

(* A step is scheduled when it becomes due, and is due until it is run. *)
LEMMA CallsStep ==
    IInv /\ QueueOK /\ DueOK /\ [Next]_vars => QueueOK' /\ DueOK'
  <1> SUFFICES ASSUME IInv, QueueOK, DueOK, [Next]_vars PROVE QueueOK' /\ DueOK'
    OBVIOUS
  <1>1. TypeOK
    BY DEF IInv
  <1>2. \A q \in Requests :
          Pending(q) \/ phase[q] = "reading" => ~Due(q)
    BY DEF IInv, FuturesOK, Pending, Due
  <1>3. ASSUME UNCHANGED <<ready, todo>>,
               \A q \in Requests : /\ Due(q) => Due(q)'
                                   /\ phase'[q] = "called" => phase[q] = "called"
        PROVE  QueueOK' /\ DueOK'
    BY <1>3 DEF QueueOK, DueOK
  <1>4. ASSUME NEW r \in Requests, LimitBody(r) PROVE QueueOK' /\ DueOK'
    <2>1. /\ phase[r] = "reading" /\ fut' = fut /\ todo' = todo
          /\ \/ phase' = [phase EXCEPT ![r] = "done"] /\ ready' = ready
             \/ /\ phase' = [phase EXCEPT ![r] = "called"]
                /\ ready' = Append(ready, Step(r))
      BY <1>4 DEF LimitBody, Schedule, slotVars
    <2>2. Step(r) \notin ToSet(ready)
      BY <2>1, <1>2 DEF DueOK
    <2>3. CASE ready' = ready /\ phase' = [phase EXCEPT ![r] = "done"]
      BY <1>1, <1>2, <1>3, <2>1, <2>3 DEF TypeOK, Due
    <2>4. CASE /\ phase' = [phase EXCEPT ![r] = "called"]
               /\ ready' = Append(ready, Step(r))
      <3>1. QueueOK' /\ ToSet(ready') = ToSet(ready) \cup {Step(r)}
        BY <1>1, <2>1, <2>2, <2>4, CallScheduled, CallbackKinds
      <3>2. DueOK'
        BY <1>1, <2>1, <2>4, <3>1, CallbackKinds DEF TypeOK, DueOK, Due
      <3>3. QED
        BY <3>1, <3>2
    <2>5. QED
      BY <2>1, <2>3, <2>4
  <1>5. ASSUME NEW r \in Requests, TimerRunsOut(r) \/ BodyReadAgain(r)
        PROVE  QueueOK' /\ DueOK'
    <2>1. /\ fut' = fut /\ phase' = phase /\ todo' = todo
          /\ \/ ready' = Append(ready, Timeout(r)) /\ Timeout(r) \notin ToSet(ready)
             \/ /\ ready' = Append(ready, Step(r)) /\ Step(r) \notin ToSet(ready)
                /\ phase[r] = "rereading"
      BY <1>5 DEF TimerRunsOut, TimerArmed, BodyReadAgain, Schedule, slotVars
    <2>2. QueueOK' /\ \/ ToSet(ready') = ToSet(ready) \cup {Timeout(r)}
                      \/ /\ ToSet(ready') = ToSet(ready) \cup {Step(r)}
                         /\ phase[r] = "rereading"
      BY <1>1, <2>1, CallScheduled, CallbackKinds
    <2>3. DueOK'
      BY <2>1, <2>2, CallbackKinds DEF DueOK, Due
    <2>4. QED
      BY <2>2, <2>3
  <1>6. ASSUME NEW r \in Requests,
               \/ Disconnect(r) \/ Enter(r) \/ Shed(r) \/ LoadFails(r)
               \/ AwaitBodyAgain(r) \/ UseCachedBody(r) \/ Predict(r)
        PROVE  QueueOK' /\ DueOK'
    <2>1. /\ UNCHANGED <<ready, todo, fut>>
          /\ phase[r] \notin {"called", "rereading"}
          /\ \E p \in Phases \ {"called"} : phase' = [phase EXCEPT ![r] = p]
      BY <1>6 DEF Disconnect, Enter, Shed, LoadFails, AwaitBodyAgain, Phases,
           UseCachedBody, Predict, Finish, Release, slotVars, loopVars
    <2>2. \A q \in Requests : /\ Due(q) => Due(q)'
                              /\ phase'[q] = "called" => phase[q] = "called"
      BY <1>1, <2>1 DEF TypeOK, Due
    <2>3. QED
      BY <2>1, <2>2, <1>3
  <1>7. ASSUME NEW r \in Requests,
               \/ ShedAtOnce(r) \/ AcquireFree(r) \/ AcquireWait(r)
               \/ Resume(r) \/ ResumeWithBody(r)
        PROVE  QueueOK' /\ DueOK'
    <2>1. /\ Runs(Step(r)) /\ ready' = Tail(ready)
          /\ \E p \in Phases \ {"called"} : phase' = [phase EXCEPT ![r] = p]
          /\ fut' = fut \/ \E f \in Futures : fut' = [fut EXCEPT ![r] = f]
      BY <1>7 DEF ShedAtOnce, AcquireFree, AcquireWait, Resume, LeaveDeque,
           ResumeWithBody, slotVars, Phases, Futures
    <2>2. QueueOK' /\ ToSet(ready') = ToSet(ready) \ {Step(r)}
      BY <1>1, <2>1, CallRun
    <2>3. \A q \in Requests \ {r} : phase'[q] = phase[q] /\ fut'[q] = fut[q]
      BY <1>1, <2>1 DEF TypeOK
    <2>4. phase'[r] # "called"
      BY <1>1, <2>1 DEF TypeOK
    <2>5. DueOK'
      BY <2>2, <2>3, <2>4, CallbackKinds DEF DueOK, Due
    <2>6. QED
      BY <2>2, <2>5
  <1>8. ASSUME NEW r \in Requests, TimeoutFires(r) PROVE QueueOK' /\ DueOK'
    <2>1. Runs(Timeout(r)) /\ phase' = phase
      BY <1>8 DEF TimeoutFires
    <2>2. CASE Pending(r)
      <3>1. /\ ready' = Append(Tail(ready), Step(r))
            /\ fut' = [fut EXCEPT ![r] = "cancelled"]
        BY <1>8, <2>2 DEF TimeoutFires, Pending
      <3>2. Step(r) \notin ToSet(ready)
        BY <1>2, <2>2 DEF DueOK
      <3>3. /\ QueueOK'
            /\ ToSet(ready') = (ToSet(ready) \ {Timeout(r)}) \cup {Step(r)}
        BY <1>1, <2>1, <3>1, <3>2, CallReplaced, CallbackKinds
      <3>4. DueOK'
        BY <1>1, <2>1, <3>1, <3>3, CallbackKinds DEF TypeOK, DueOK, Due
      <3>5. QED
        BY <3>3, <3>4
    <2>3. CASE ~Pending(r)
      <3>1. /\ ready' = Tail(ready)
            /\ \/ fut[r] = "granted" /\ fut' = [fut EXCEPT ![r] = "revoked"]
               \/ fut' = fut
        BY <1>8, <2>3 DEF TimeoutFires, Pending
      <3>2. QueueOK' /\ ToSet(ready') = ToSet(ready) \ {Timeout(r)}
        BY <1>1, <2>1, <3>1, CallRun
      <3>3. DueOK'
        BY <1>1, <2>1, <3>1, <3>2, CallbackKinds DEF TypeOK, DueOK, Due
      <3>4. QED
        BY <3>2, <3>3
    <2>4. QED
      BY <2>2, <2>3
  <1>9. ASSUME NEW q \in Requests, WakeUpNext(q), todo' = todo,
               NEW r \in Requests, phase[r] \in OnLoop,
               phase' = phase \/ phase' = [phase EXCEPT ![r] = "done"]
        PROVE  QueueOK' /\ DueOK'
    <2>1. /\ Pending(q) /\ fut' = [fut EXCEPT ![q] = "granted"]
          /\ ready' = Append(ready, Step(q))
      BY <1>9 DEF WakeUpNext, FirstPending, Schedule
    <2>2. Step(q) \notin ToSet(ready)
      BY <1>2, <2>1 DEF DueOK
    <2>3. QueueOK' /\ ToSet(ready') = ToSet(ready) \cup {Step(q)}
      BY <1>1, <1>9, <2>1, <2>2, CallScheduled, CallbackKinds
    <2>4. \A x \in Requests : /\ Due(x) => Due(x)'
                              /\ phase'[x] = "called" => phase[x] = "called"
      BY <1>1, <1>9, <2>1 DEF TypeOK, Due, OnLoop
    <2>5. Due(q)'
      BY <1>1, <2>1 DEF TypeOK, Due
    <2>6. DueOK'
      BY <2>3, <2>4, <2>5, CallbackKinds DEF DueOK
    <2>7. QED
      BY <2>3, <2>6
  <1>10. ASSUME NEW r \in Requests, HandOn(r) PROVE QueueOK' /\ DueOK'
    BY <1>9, <1>10 DEF HandOn, OnLoop
  <1>11. ASSUME NEW r \in Requests, Return(r) PROVE QueueOK' /\ DueOK'
    <2>1. /\ phase[r] = "releasing" /\ phase' = [phase EXCEPT ![r] = "done"]
          /\ todo' = todo
          /\ \/ \E q \in Requests : WakeUpNext(q)
             \/ fut' = fut /\ ready' = ready
      BY <1>11 DEF Return
    <2>2. CASE \E q \in Requests : WakeUpNext(q)
      BY <1>9, <2>1, <2>2 DEF OnLoop
    <2>3. CASE fut' = fut /\ ready' = ready
      BY <1>1, <1>3, <2>1, <2>3 DEF TypeOK, Due
    <2>4. QED
      BY <2>1, <2>2, <2>3
  <1>12. CASE BeginIteration
    <2>1. /\ todo' = Len(ready) /\ Len(ready) \in Nat
          /\ UNCHANGED <<ready, phase, fut>>
      BY <1>1, <1>12 DEF TypeOK, BeginIteration, slotVars
    <2>2. QED
      BY <2>1 DEF QueueOK, DueOK, Due
  <1>13. CASE UNCHANGED vars
    BY <1>3, <1>13 DEF vars, slotVars, loopVars, Due
  <1>14. QED
    BY <1>4, <1>5, <1>6, <1>7, <1>8, <1>10, <1>11, <1>12, <1>13
       DEF Next, RunLoop, Finished

(* So the callbacks are in order in every state that is reached. *)
LEMMA CallsInvariant == Spec => [](QueueOK /\ DueOK)
  <1>1. Init => QueueOK /\ DueOK
    <2> SUFFICES ASSUME Init PROVE QueueOK /\ DueOK
      OBVIOUS
    <2>1. ready = <<>> /\ todo = 0 /\ \A r \in Requests : phase[r] = "reading"
      BY DEF Init
    <2>2. ToSet(ready) = {} /\ DOMAIN ready = {} /\ Len(ready) = 0
      BY <2>1 DEF ToSet
    <2>3. QED
      BY <2>1, <2>2 DEF QueueOK, DueOK, Distinct
  <1>2. QED
    BY FullInvariant, CallsStep, <1>1, PTL DEF Spec, FullInv
------------------------------------------------------------------------------
(* An answer is sent before the slot is given back, and a request whose    *)
(* body has arrived ends with one.                                         *)
AnsweredOK ==
    \A r \in Requests :
        /\ phase[r] = "reading" => body[r] = "unread"
        /\ phase[r] = "releasing" => answer[r] # 0
        /\ phase[r] = "done" /\ body[r] # "unread" => answer[r] # 0

(* Whoever ends, or is about to, has been given its status. *)
LEMMA AnsweredStep == IInv /\ AnsweredOK /\ [Next]_vars => AnsweredOK'
  <1> SUFFICES ASSUME IInv, AnsweredOK, [Next]_vars PROVE AnsweredOK'
    OBVIOUS
  <1>1. TypeOK
    BY DEF IInv
  <1>2. ASSUME NEW r \in Requests, LimitBody(r) PROVE AnsweredOK'
    <2>1. /\ \A q \in Requests \ {r} :
               phase'[q] = phase[q] /\ body'[q] = body[q] /\ answer'[q] = answer[q]
          /\ phase'[r] = "called" \/ (phase'[r] = "done" /\ answer'[r] = 413)
      <3>1. /\ \E b \in Bodies : body' = [body EXCEPT ![r] = b]
            /\ \/ phase' = [phase EXCEPT ![r] = "called"] /\ answer' = answer
               \/ /\ phase' = [phase EXCEPT ![r] = "done"]
                  /\ answer' = [answer EXCEPT ![r] = 413]
        BY <1>2 DEF LimitBody
      <3>2. QED
        BY <1>1, <3>1 DEF TypeOK
    <2>2. QED
      BY <2>1 DEF AnsweredOK
  <1>3. ASSUME NEW r \in Requests, Disconnect(r) PROVE AnsweredOK'
    <2>1. /\ phase' = [phase EXCEPT ![r] = "done"] /\ body[r] = "unread"
          /\ UNCHANGED <<body, answer>>
      BY <1>3 DEF Disconnect, AnsweredOK
    <2>2. QED
      BY <1>1, <2>1 DEF TypeOK, AnsweredOK
  <1>4. ASSUME NEW r \in Requests, body' = body, answer' = answer,
               \/ phase' = phase
               \/ \E p \in Phases \ {"reading", "releasing", "done"} :
                     phase' = [phase EXCEPT ![r] = p]
        PROVE  AnsweredOK'
    BY <1>1, <1>4 DEF TypeOK, AnsweredOK
  <1>5. ASSUME NEW r \in Requests,
               \/ TimerRunsOut(r) \/ BodyReadAgain(r) \/ AcquireFree(r)
               \/ AcquireWait(r) \/ TimeoutFires(r) \/ Resume(r) \/ HandOn(r)
               \/ Enter(r) \/ AwaitBodyAgain(r) \/ ResumeWithBody(r)
        PROVE  AnsweredOK'
    <2>1. /\ body' = body /\ answer' = answer
          /\ \/ phase' = phase
             \/ \E p \in Phases \ {"reading", "releasing", "done"} :
                   phase' = [phase EXCEPT ![r] = p]
      BY <1>5 DEF TimerRunsOut, BodyReadAgain, AcquireFree, AcquireWait, Phases,
           TimeoutFires, Resume, HandOn, Enter, AwaitBodyAgain, ResumeWithBody
    <2>2. QED
      BY <2>1, <1>4
  <1>6. ASSUME NEW r \in Requests,
               \/ ShedAtOnce(r) \/ Shed(r) \/ LoadFails(r)
               \/ UseCachedBody(r) \/ Predict(r)
        PROVE  AnsweredOK'
    <2>1. /\ body' = body
          /\ \E p \in {"done", "releasing"} : phase' = [phase EXCEPT ![r] = p]
          /\ \E a \in {200, 400, 429, 500} : answer' = [answer EXCEPT ![r] = a]
      BY <1>6 DEF ShedAtOnce, Shed, LoadFails, UseCachedBody, Predict, Finish,
           Release, Outcomes
    <2>2. QED
      BY <1>1, <2>1 DEF TypeOK, AnsweredOK
  <1>7. ASSUME NEW r \in Requests, Return(r) PROVE AnsweredOK'
    <2>1. /\ phase[r] = "releasing" /\ phase' = [phase EXCEPT ![r] = "done"]
          /\ UNCHANGED <<body, answer>>
      BY <1>7 DEF Return
    <2>2. QED
      BY <1>1, <2>1 DEF TypeOK, AnsweredOK
  <1>8. CASE BeginIteration \/ UNCHANGED vars
    BY <1>8 DEF BeginIteration, vars, AnsweredOK
  <1>9. QED
    BY <1>2, <1>3, <1>5, <1>6, <1>7, <1>8 DEF Next, RunLoop, Finished

(* A request has ended, with an answer unless its client went away, or     *)
(* somebody still owes it a step: its client the body, the loop the step   *)
(* that it is in or that is scheduled, and the semaphore a slot, or the    *)
(* timer a timeout, to the future it waits for.                            *)
InGoodHands ==
    \A r \in Requests :
        \/ phase[r] \in {"reading", "rereading"}
        \/ running = r
        \/ Step(r) \in ToSet(ready)
        \/ phase[r] = "waiting" /\ Pending(r)
        \/ phase[r] = "done" /\ (body[r] # "unread" => answer[r] # 0)

(* No request is forgotten: what EveryRequestAnswered needs besides the    *)
(* fairness of the loop, the timers and the bodies.                        *)
THEOREM NobodyForgotten == Spec => []InGoodHands
  <1>1. Init => AnsweredOK
    BY DEF Init, AnsweredOK
  <1>2. IInv /\ ScheduledOK /\ DueOK /\ AnsweredOK => InGoodHands
    <2> SUFFICES ASSUME IInv, ScheduledOK, DueOK, AnsweredOK,
                        NEW r \in Requests, phase[r] \notin {"reading", "rereading"},
                        running # r, Step(r) \notin ToSet(ready)
                 PROVE  \/ phase[r] = "waiting" /\ Pending(r)
                        \/ phase[r] = "done" /\ (body[r] # "unread" => answer[r] # 0)
      BY DEF InGoodHands
    <2>1. phase[r] \in {"waiting", "done"}
      BY DEF IInv, TypeOK, Phases, LoopOK, OnLoop, DueOK
    <2>2. phase[r] = "waiting" => Pending(r)
      BY DEF IInv, FuturesOK, ScheduledOK, Pending
    <2>3. QED
      BY <2>1, <2>2 DEF AnsweredOK
  <1>3. QED
    BY FullInvariant, CallsInvariant, AnsweredStep, <1>1, <1>2, PTL
       DEF Spec, FullInv

(* The callback at the head is a timeout, or a step of a task that has to  *)
(* begin, has its body, or has its future's result and is in the deque.    *)
HeadIsDue ==
    \E r \in Requests :
        \/ Head(ready) = Timeout(r)
        \/ /\ Head(ready) = Step(r)
           /\ \/ phase[r] \in {"called", "rereading"}
              \/ /\ phase[r] = "waiting"
                 /\ r \in ToSet(waiters)
                 /\ fut[r] \in {"granted", "cancelled", "revoked"}

(* In an iteration the loop finds a callback that the code provides for,   *)
(* and the task on the loop is in a state from which it goes on, with a    *)
(* request to wake if any waits.                                           *)
LoopGoesOn ==
    /\ running = NoTask /\ todo > 0 => ready # <<>> /\ HeadIsDue
    /\ running # NoTask =>
          /\ running \in Requests /\ phase[running] \in OnLoop
          /\ NobodyToWake \/ \E q \in Requests : FirstPending(q)

(* If anybody in the deque is pending, somebody is the first who is. *)
LEMMA SomebodyFirst ==
    ASSUME TypeOK
    PROVE  NobodyToWake \/ \E q \in Requests : FirstPending(q)
  <1> SUFFICES ASSUME ~NobodyToWake
               PROVE  \E q \in Requests : FirstPending(q)
    OBVIOUS
  <1> DEFINE T == {i \in DOMAIN waiters : Pending(waiters[i])}
  <1>1. /\ DOMAIN waiters = 1 .. Len(waiters) /\ Len(waiters) \in Nat
        /\ \A i \in DOMAIN waiters : waiters[i] \in Requests
    BY DEF TypeOK
  <1>2. T \subseteq Nat /\ T # {}
    BY <1>1 DEF NobodyToWake, ToSet
  <1>3. PICK n \in T : \A m \in T : n <= m
    BY <1>2, LeastNat
  <1>4. \A j \in 1 .. n - 1 : ~Pending(waiters[j])
    BY <1>1, <1>3
  <1>5. FirstPending(waiters[n]) /\ waiters[n] \in Requests
    BY <1>1, <1>3, <1>4 DEF FirstPending
  <1>6. QED
    BY <1>5

(* The loop is never stuck within an iteration, nor in a task: no callback *)
(* outlives what it was scheduled for, and release and the final loop of   *)
(* acquire always find whom to wake.  The premise of the loop's fairness.  *)
THEOREM LoopNeverStuck == Spec => []LoopGoesOn
  <1>1. FullInv /\ QueueOK /\ DueOK => LoopGoesOn
    <2> SUFFICES ASSUME FullInv, QueueOK, DueOK PROVE LoopGoesOn
      OBVIOUS
    <2>1. TypeOK /\ FuturesOK /\ LoopOK /\ DequeOK
      BY DEF FullInv, IInv
    <2>2. ASSUME todo > 0
          PROVE  ready # <<>> /\ HeadIsDue
      <3>1. ready \in Seq(Callback) /\ ready # <<>>
        BY <2>1, <2>2 DEF TypeOK, QueueOK
      <3>2. Head(ready) \in Callback /\ Head(ready) \in ToSet(ready)
        BY <3>1 DEF ToSet
      <3>3. PICK r \in Requests : Head(ready) = Step(r) \/ Head(ready) = Timeout(r)
        BY <3>2 DEF Callback, Step, Timeout
      <3>4. CASE Head(ready) = Step(r)
        <4>1. Due(r)
          BY <3>2, <3>4 DEF DueOK
        <4>2. fut[r] # "none" => phase[r] = "waiting" /\ r \in ToSet(waiters)
          BY <2>1 DEF FuturesOK, DequeOK
        <4>3. QED
          BY <3>1, <3>4, <4>1, <4>2 DEF HeadIsDue, Due
      <3>5. QED
        BY <3>1, <3>3, <3>4 DEF HeadIsDue
    <2>3. running # NoTask => running \in Requests /\ phase[running] \in OnLoop
      BY <2>1 DEF TypeOK, LoopOK
    <2>4. QED
      BY <2>1, <2>2, <2>3, SomebodyFirst DEF LoopGoesOn
  <1>2. QED
    BY FullInvariant, CallsInvariant, <1>1, PTL
==============================================================================
