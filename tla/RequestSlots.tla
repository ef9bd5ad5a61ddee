----------------------------- MODULE RequestSlots -----------------------------
(***************************************************************************)
(* POST /invocations of InferenceApplicationBuilder on one event loop: the *)
(* body-limit middleware, the semaphore of max_inflight slots, the acquire *)
(* timeout and the inference that runs while a slot is held.               *)
(*                                                                         *)
(* The event loop is explicit, because the order in which it runs its      *)
(* callbacks decides who gets a slot: `ready` is its FIFO of callbacks,    *)
(* `todo` how many of them the current iteration still has to run, and     *)
(* `running` the task that is between two suspension points.  I/O and      *)
(* timers enter `ready` only between two iterations.  The semaphore is     *)
(* asyncio.Semaphore: a value and a deque of futures.                      *)
(*                                                                         *)
(* Abstracted: a body is empty, a payload within the limit, or over the    *)
(* limit; an inference ends with 200, 400 or 500 whatever it computed.     *)
(***************************************************************************)
EXTENDS Naturals, Sequences, FiniteSets, SequencesExt

CONSTANTS Requests,       (* the requests clients may send                    *)
          Bodies,         (* the kinds of body they send                      *)
          MaxInflight,    (* Settings.max_inflight                            *)
          NoTask          (* no task is between two suspension points         *)

ASSUME RequestsAssumption ==
    /\ IsFiniteSet(Requests)
    /\ NoTask \notin Requests
ASSUME SettingsAssumption == MaxInflight \in Nat
ASSUME BodiesAssumption == Bodies \subseteq {"empty", "payload", "over"}

VARIABLES patient,  (* is Settings.acquire_timeout_s positive                *)
          phase,    (* where the request's task is                            *)
          body,     (* what the middleware read; "unread" before              *)
          answer,   (* the status sent; 0 before                              *)
          value,    (* Semaphore._value                                       *)
          waiters,  (* Semaphore._waiters                                     *)
          fut,      (* the state of the request's future in that deque        *)
          ready,    (* the event loop's ready callbacks                       *)
          todo,     (* callbacks left in this iteration of the loop           *)
          running   (* the task the loop is executing, or NoTask              *)

slotVars == <<value, waiters, fut>>
loopVars == <<ready, todo, running>>
vars == <<patient, phase, body, answer, slotVars, loopVars>>

Phases == {"reading",    \* the middleware awaits the body
           "called",     \* the handler's task is scheduled
           "waiting",    \* awaits its future in Semaphore.acquire
           "entering",   \* granted; in the final loop of acquire
           "leaving",    \* cancelled; in the final loop of acquire
           "inferring",  \* holds a slot; before the payload is known
           "rereading",  \* holds a slot; awaits request.body() again
           "predicting", \* holds a slot; parses, predicts and formats
           "releasing",  \* has incremented the value in Semaphore.release
           "done"}       \* answered, or the client went away

\* A future is "revoked" when its task was cancelled after it got a result.
Futures == {"none", "pending", "granted", "cancelled", "revoked"}

Outcomes == {200, 400, 500}
Answers == {0, 413, 429} \cup Outcomes

Callback == [kind : {"step", "timeout"}, request : Requests]
Step(r) == [kind |-> "step", request |-> r]
Timeout(r) == [kind |-> "timeout", request |-> r]

OnLoop == {"entering", "leaving", "inferring", "predicting", "releasing"}

Init ==
    /\ patient \in BOOLEAN
    /\ phase = [r \in Requests |-> "reading"]
    /\ body = [r \in Requests |-> "unread"]
    /\ answer = [r \in Requests |-> 0]
    /\ value = MaxInflight
    /\ waiters = <<>>
    /\ fut = [r \in Requests |-> "none"]
    /\ ready = <<>>
    /\ todo = 0
    /\ running = NoTask

------------------------------------------------------------------------------
(* The event loop *)

Poll == running = NoTask /\ todo = 0

Schedule(c) == ready' = Append(ready, c)

(* An iteration runs exactly the callbacks that are ready when it begins. *)
BeginIteration ==
    /\ Poll
    /\ ready # <<>>
    /\ todo' = Len(ready)
    /\ UNCHANGED <<patient, phase, body, answer, slotVars, ready, running>>

(* The loop takes callback c from the head of `ready`. *)
Runs(c) ==
    /\ running = NoTask
    /\ todo > 0
    /\ ready # <<>>
    /\ Head(ready) = c
    /\ todo' = todo - 1

------------------------------------------------------------------------------
(* limit_body *)

(* The body has arrived: 413 when over the limit, else the handler's task. *)
LimitBody(r) ==
    /\ Poll
    /\ phase[r] = "reading"
    /\ \E b \in Bodies :
         /\ body' = [body EXCEPT ![r] = b]
         /\ \/ /\ b = "over"
               /\ phase' = [phase EXCEPT ![r] = "done"]
               /\ answer' = [answer EXCEPT ![r] = 413]
               /\ UNCHANGED ready
            \/ /\ b # "over"
               /\ phase' = [phase EXCEPT ![r] = "called"]
               /\ Schedule(Step(r))
               /\ UNCHANGED answer
    /\ UNCHANGED <<patient, slotVars, todo, running>>

(* The client goes away while the middleware awaits the body. *)
Disconnect(r) ==
    /\ Poll
    /\ phase[r] = "reading"
    /\ phase' = [phase EXCEPT ![r] = "done"]
    /\ UNCHANGED <<patient, body, answer, slotVars, loopVars>>

------------------------------------------------------------------------------
(* _try_acquire_request_slot *)

Pending(r) == fut[r] = "pending"

(* Semaphore.locked: no value, or somebody in the deque is not cancelled. *)
Locked == value = 0 \/ \E r \in ToSet(waiters) : fut[r] # "cancelled"

(* A timeout of zero or less cancels acquire before it starts: 429. *)
ShedAtOnce(r) ==
    /\ Runs(Step(r))
    /\ phase[r] = "called"
    /\ ~patient
    /\ phase' = [phase EXCEPT ![r] = "done"]
    /\ answer' = [answer EXCEPT ![r] = 429]
    /\ ready' = Tail(ready)
    /\ UNCHANGED <<patient, body, slotVars, running>>

(* Mutant: a free slot is taken past those in line. *)
AcquireBarging(r) ==
    /\ Runs(Step(r))
    /\ phase[r] = "called"
    /\ patient
    /\ value > 0
    /\ value' = value - 1
    /\ phase' = [phase EXCEPT ![r] = "inferring"]
    /\ running' = r
    /\ ready' = Tail(ready)
    /\ UNCHANGED <<patient, body, answer, waiters, fut>>

(* A slot is free and nobody is in line: acquired without suspending. *)
AcquireFree(r) ==
    /\ Runs(Step(r))
    /\ phase[r] = "called"
    /\ patient
    /\ ~Locked
    /\ value' = value - 1
    /\ phase' = [phase EXCEPT ![r] = "inferring"]
    /\ running' = r
    /\ ready' = Tail(ready)
    /\ UNCHANGED <<patient, body, answer, waiters, fut>>

(* Otherwise the task awaits a future at the end of the deque. *)
AcquireWait(r) ==
    /\ Runs(Step(r))
    /\ phase[r] = "called"
    /\ patient
    /\ Locked
    /\ waiters' = Append(waiters, r)
    /\ fut' = [fut EXCEPT ![r] = "pending"]
    /\ phase' = [phase EXCEPT ![r] = "waiting"]
    /\ ready' = Tail(ready)
    /\ UNCHANGED <<patient, body, answer, value, running>>

TimerArmed(r) ==
    /\ fut[r] \in {"pending", "granted"}
    /\ Timeout(r) \notin ToSet(ready)

(* Every timer has the same length, so they run out in the order in which  *)
(* the requests entered the deque.                                         *)
TimerRunsOut(r) ==
    /\ Poll
    /\ \E i \in DOMAIN waiters :
         /\ waiters[i] = r
         /\ TimerArmed(r)
         /\ \A j \in 1 .. i - 1 : ~TimerArmed(waiters[j])
    /\ Schedule(Timeout(r))
    /\ UNCHANGED <<patient, phase, body, answer, slotVars, todo, running>>

(* The timeout callback cancels the task.  A pending future is cancelled   *)
(* and the task scheduled; a future that already has a result is left      *)
(* alone and the task, scheduled before, will find itself cancelled.  The  *)
(* handle of a timer whose task has gone on does nothing.                  *)
TimeoutFires(r) ==
    /\ Runs(Timeout(r))
    /\ \/ /\ Pending(r)
          /\ fut' = [fut EXCEPT ![r] = "cancelled"]
          /\ ready' = Append(Tail(ready), Step(r))
       \/ /\ fut[r] = "granted"
          /\ fut' = [fut EXCEPT ![r] = "revoked"]
          /\ ready' = Tail(ready)
       \/ /\ fut[r] \notin {"pending", "granted"}
          /\ ready' = Tail(ready)
          /\ UNCHANGED fut
    /\ UNCHANGED <<patient, phase, body, answer, value, waiters, running>>

LeaveDeque(r) ==
    /\ \E i \in DOMAIN waiters :
         /\ waiters[i] = r
         /\ waiters' = RemoveAt(waiters, i)
    /\ fut' = [fut EXCEPT ![r] = "none"]

(* A waiting task resumes: with its slot; cancelled before it had one; or  *)
(* cancelled after, and then it puts the slot back.                        *)
Resume(r) ==
    /\ Runs(Step(r))
    /\ phase[r] = "waiting"
    /\ LeaveDeque(r)
    /\ \/ /\ fut[r] = "granted"
          /\ phase' = [phase EXCEPT ![r] = "entering"]
          /\ UNCHANGED value
       \/ /\ fut[r] = "cancelled"
          /\ phase' = [phase EXCEPT ![r] = "leaving"]
          /\ UNCHANGED value
       \/ /\ fut[r] = "revoked"
          /\ phase' = [phase EXCEPT ![r] = "leaving"]
          /\ value' = value + 1
    /\ running' = r
    /\ ready' = Tail(ready)
    /\ UNCHANGED <<patient, body, answer>>

(* Mutant: the newest pending future is woken. *)
LastPending(q) ==
    \E i \in DOMAIN waiters :
        /\ waiters[i] = q
        /\ Pending(q)
        /\ \A j \in i + 1 .. Len(waiters) : ~Pending(waiters[j])

FirstPending(q) ==
    \E i \in DOMAIN waiters :
        /\ waiters[i] = q
        /\ Pending(q)
        /\ \A j \in 1 .. i - 1 : ~Pending(waiters[j])

(* Semaphore._wake_up_next: the oldest pending future gets the slot. *)
WakeUpNext(q) ==
    /\ FirstPending(q)
    /\ value' = value - 1
    /\ fut' = [fut EXCEPT ![q] = "granted"]
    /\ Schedule(Step(q))

NobodyToWake == \A q \in ToSet(waiters) : ~Pending(q)

(* One round of the final loop of acquire, which hands on what is free. *)
HandOn(r) ==
    /\ running = r
    /\ phase[r] \in {"entering", "leaving"}
    /\ value > 0
    /\ \E q \in Requests : WakeUpNext(q)
    /\ UNCHANGED <<patient, phase, body, answer, waiters, todo, running>>

HandedOn == value = 0 \/ NobodyToWake

(* The end of acquire: on to the inference, or TimeoutError and 429. *)
Enter(r) ==
    /\ running = r
    /\ phase[r] = "entering"
    /\ HandedOn
    /\ phase' = [phase EXCEPT ![r] = "inferring"]
    /\ UNCHANGED <<patient, body, answer, slotVars, loopVars>>

(* Mutants: the finally releases what was never acquired; the TimeoutError *)
(* escapes.                                                                *)
ShedAndRelease(r) ==
    /\ running = r
    /\ phase[r] = "leaving"
    /\ HandedOn
    /\ answer' = [answer EXCEPT ![r] = 429]
    /\ value' = value + 1
    /\ phase' = [phase EXCEPT ![r] = "releasing"]
    /\ UNCHANGED <<patient, body, waiters, fut, loopVars>>

ShedUnanswered(r) ==
    /\ running = r
    /\ phase[r] = "leaving"
    /\ HandedOn
    /\ phase' = [phase EXCEPT ![r] = "done"]
    /\ running' = NoTask
    /\ UNCHANGED <<patient, body, answer, slotVars, ready, todo>>

Shed(r) ==
    /\ running = r
    /\ phase[r] = "leaving"
    /\ HandedOn
    /\ phase' = [phase EXCEPT ![r] = "done"]
    /\ answer' = [answer EXCEPT ![r] = 429]
    /\ running' = NoTask
    /\ UNCHANGED <<patient, body, slotVars, ready, todo>>

------------------------------------------------------------------------------
(* _run_inference, and the handlers and the finally of _handle_invocation *)

(* Semaphore.release adds to the value before it wakes anybody. *)
Release(r) ==
    /\ value' = value + 1
    /\ phase' = [phase EXCEPT ![r] = "releasing"]

Finish(r) ==
    /\ \E status \in Outcomes : answer' = [answer EXCEPT ![r] = status]
    /\ Release(r)
    /\ UNCHANGED <<patient, body, waiters, fut, loopVars>>

(* Mutant: the adapter is loaded before the try. *)
LoadFailsUnreleased(r) ==
    /\ running = r
    /\ phase[r] = "inferring"
    /\ answer' = [answer EXCEPT ![r] = 500]
    /\ phase' = [phase EXCEPT ![r] = "done"]
    /\ running' = NoTask
    /\ UNCHANGED <<patient, body, slotVars, ready, todo>>

(* The adapter is missing or fails to load, before the payload is read. *)
LoadFails(r) ==
    /\ running = r
    /\ phase[r] = "inferring"
    /\ \E status \in {400, 500} : answer' = [answer EXCEPT ![r] = status]
    /\ Release(r)
    /\ UNCHANGED <<patient, body, waiters, fut, loopVars>>

(* Mutant: the handler always awaits the body again. *)
AlwaysAwaitBodyAgain(r) ==
    /\ running = r
    /\ phase[r] = "inferring"
    /\ phase' = [phase EXCEPT ![r] = "rereading"]
    /\ running' = NoTask
    /\ UNCHANGED <<patient, body, answer, slotVars, ready, todo>>

(* cached_body is falsy when the body is empty: the handler awaits again,  *)
(* the only suspension point while it holds a slot.                        *)
AwaitBodyAgain(r) ==
    /\ running = r
    /\ phase[r] = "inferring"
    /\ body[r] = "empty"
    /\ phase' = [phase EXCEPT ![r] = "rereading"]
    /\ running' = NoTask
    /\ UNCHANGED <<patient, body, answer, slotVars, ready, todo>>

UseCachedBody(r) ==
    /\ running = r
    /\ phase[r] = "inferring"
    /\ body[r] # "empty"
    /\ Finish(r)

BodyReadAgain(r) ==
    /\ Poll
    /\ phase[r] = "rereading"
    /\ Step(r) \notin ToSet(ready)
    /\ Schedule(Step(r))
    /\ UNCHANGED <<patient, phase, body, answer, slotVars, todo, running>>

ResumeWithBody(r) ==
    /\ Runs(Step(r))
    /\ phase[r] = "rereading"
    /\ phase' = [phase EXCEPT ![r] = "predicting"]
    /\ running' = r
    /\ ready' = Tail(ready)
    /\ UNCHANGED <<patient, body, answer, slotVars>>

Predict(r) ==
    /\ running = r
    /\ phase[r] = "predicting"
    /\ Finish(r)

(* Mutant: release wakes nobody. *)
ReturnWithoutWakeUp(r) ==
    /\ running = r
    /\ phase[r] = "releasing"
    /\ phase' = [phase EXCEPT ![r] = "done"]
    /\ running' = NoTask
    /\ UNCHANGED <<patient, body, answer, slotVars, ready, todo>>

(* release wakes at most one waiter; the handler then returns. *)
Return(r) ==
    /\ running = r
    /\ phase[r] = "releasing"
    /\ \/ \E q \in Requests : WakeUpNext(q)
       \/ NobodyToWake /\ UNCHANGED <<value, fut, ready>>
    /\ phase' = [phase EXCEPT ![r] = "done"]
    /\ running' = NoTask
    /\ UNCHANGED <<patient, body, answer, waiters, todo>>

------------------------------------------------------------------------------

(* What the loop itself does for request r. *)
RunLoop(r) ==
    \/ ShedAtOnce(r) \/ AcquireFree(r) \/ AcquireWait(r)
    \/ TimeoutFires(r) \/ Resume(r) \/ HandOn(r) \/ Enter(r) \/ Shed(r)
    \/ LoadFails(r) \/ AwaitBodyAgain(r) \/ UseCachedBody(r)
    \/ ResumeWithBody(r) \/ Predict(r) \/ Return(r)

(* Every request has been answered or abandoned, and nothing is left to do. *)
Finished ==
    /\ \A r \in Requests : phase[r] = "done"
    /\ ready = <<>>
    /\ todo = 0
    /\ UNCHANGED vars

Next ==
    \/ BeginIteration
    \/ \E r \in Requests :
         \/ LimitBody(r) \/ Disconnect(r)
         \/ TimerRunsOut(r) \/ BodyReadAgain(r)
         \/ RunLoop(r)
    \/ Finished

Spec == Init /\ [][Next]_vars

(* The loop keeps running, time passes, and a body that is already in the  *)
(* process is delivered.  Clients owe nothing.                             *)
Fairness ==
    /\ WF_vars(BeginIteration)
    /\ WF_vars(\E r \in Requests : RunLoop(r))
    /\ \A r \in Requests : WF_vars(TimerRunsOut(r)) /\ WF_vars(BodyReadAgain(r))

FairSpec == Spec /\ Fairness
------------------------------------------------------------------------------
(* Properties *)

(* A request owns a slot from its grant, or its free acquisition, to the   *)
(* increment in release.                                                   *)
Owns(r) ==
    \/ fut[r] \in {"granted", "revoked"}
    \/ phase[r] \in {"entering", "inferring", "rereading", "predicting"}

Owners == {r \in Requests : Owns(r)}

(* Every variable keeps its type; in particular the semaphore never counts *)
(* below zero nor above max_inflight.                                      *)
TypeOK ==
    /\ patient \in BOOLEAN
    /\ phase \in [Requests -> Phases]
    /\ body \in [Requests -> Bodies \cup {"unread"}]
    /\ answer \in [Requests -> Answers]
    /\ value \in 0 .. MaxInflight
    /\ waiters \in Seq(Requests)
    /\ fut \in [Requests -> Futures]
    /\ ready \in Seq(Callback)
    /\ todo \in Nat
    /\ running \in Requests \cup {NoTask}

(* No slot is lost and none is made up, whatever the order of grants,      *)
(* timeouts, failures and releases: what the semaphore counts as free and  *)
(* what requests own add up to max_inflight.                               *)
SlotsConserved == value + Cardinality(Owners) = MaxInflight

(* No lost wake-up: while a slot is free and somebody waits for one, a     *)
(* task is about to run the loop that hands free slots on.                 *)
NoStrandedWaiter ==
    value > 0 /\ (\E q \in Requests : Pending(q)) =>
        \E r \in Requests :
            \/ phase[r] \in {"entering", "leaving", "releasing"}
            \/ fut[r] \in {"granted", "revoked"} /\ Step(r) \in ToSet(ready)

(* Only a request whose body is empty can own a slot while the loop does   *)
(* something else: the inferences of all others exclude each other, so     *)
(* they alone can never use more than one slot.                            *)
PayloadsNeverOverlap ==
    \A r \in Requests :
        phase[r] \in {"inferring", "rereading", "predicting"} =>
            running = r \/ body[r] = "empty"

(* The timeout cancels a request still in line only when every slot is     *)
(* owned: a slot freed in time is handed on before the timeout runs.       *)
TimesOutOnlyWhenSaturated ==
    [][\A r \in Requests :
         fut[r] = "pending" /\ fut'[r] = "cancelled" => value = 0]_vars

(* A slot never goes to a request while an older one is still in line.     *)
NoOvertaking ==
    [][\A r \in Requests \ Owners : r \in Owners' =>
         \A q \in Requests \ {r} :
            Pending(q) =>
                \E i, j \in DOMAIN waiters :
                    waiters[i] = r /\ waiters[j] = q /\ i < j]_vars

(* The elements of P in the order in which s has them.                     *)
InOrderOf(s, P) ==
    CHOOSE t \in [1 .. Cardinality(P) -> P] :
        /\ ToSet(t) = P
        /\ \A i, j \in DOMAIN t : i < j =>
              \E k, l \in DOMAIN s : k < l /\ s[k] = t[i] /\ s[l] = t[j]

(* The semaphore, its deque and the timeouts together implement the        *)
(* abstract limit: the pending futures are its line, the owners of a slot  *)
(* its inflight set, and a free slot never stays unused while the line is  *)
(* not empty.                                                              *)
Line == InOrderOf(waiters, {r \in Requests : Pending(r)})
Limit == INSTANCE InflightLimit WITH line <- Line, inflight <- Owners
ImplementsLimit == Limit!Spec

(* Every request whose body has arrived gets an answer.                    *)
EveryRequestAnswered ==
    \A r \in Requests : phase[r] = "called" ~> phase[r] = "done" /\ answer[r] # 0

(* With a slot configured and a positive timeout, requests that all carry  *)
(* a payload never queue and are never shed, however many arrive at once.  *)
PayloadsNeverShed ==
    patient /\ MaxInflight > 0 /\ (\A r \in Requests : body[r] # "empty") =>
        waiters = <<>> /\ \A r \in Requests : answer[r] # 429
==============================================================================
