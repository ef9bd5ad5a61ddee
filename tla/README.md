# A verification development of the BYOC model server

TLA+ specifications of `ffreis-python-model-serving`, a service that loads one
model artifact and serves predictions over HTTP (FastAPI on gunicorn/uvicorn) and
gRPC. The modules are written from the code under `src/src`; line numbers below
are those of that code. TLC checks the modules on small instances, TLAPS proves
the theorems for every value of the constants.

    tlc  -config RequestSlots_safety.cfg MCRequestSlots     # any row of "Runs"
    tlapm RequestSlotsProofs.tla                            # any *Proofs module

`PROJECT.json` lists the runs, the lines every definition stands for, the mutants
that show that each property can fail, the hazards and the theorems.

## 1. The system

| Component | State it keeps | Operations | What is hard about it |
|---|---|---|---|
| **HTTP invocations**, `application.py` | the semaphore of `MAX_INFLIGHT` slots, the cached body of each request | `limit_body`, `_handle_invocation`, `_try_acquire_request_slot`, `_run_inference` | grants, timeouts and releases meet in one iteration of the event loop; every failure path must give the slot back |
| **Adapter loading**, `application.py:296` | `self._adapter` | `_ensure_adapter_loaded` | check-then-act without a lock, by the loop and by pool threads, while the registry is promoted |
| **Probes and thread pool**, `application.py:195-305` | the threads and the queue of the pool | `/live`, `/healthz`, `/ready`, `/readyz`, `/ping` | probes and loads share threads; invocations block the loop |
| **Registry pull**, `registry_pull.py` | a temp directory, a connection, a one-thread executor | `pull_model_from_registry` | a timeout races a late result; the thread of an expired pull goes on |
| **Adapter selection**, `base_adapter.py`, constructors in `*_adapter.py` | none (reads settings and the directory) | `load_adapter`, the constructors | the type is inferred from one look at the directory, the file is opened in another |
| **Input parsing**, `input_output.py`, `parsed_types.py` | none | `parse_payload`, `batch_size` | headers, shapes and column indexes at their edges; which exception reaches which status |
| **gRPC service**, `onnx_model_serving/grpc/server.py` | the active RPCs, the queue and threads of the default executor | `live`, `ready`, `predict` | three jobs per RPC in an unbounded queue; clients cancel between and during jobs |
| **Inference**, `*_adapter.py` | none (the constructed model) | `predict`, `_build_feed`, `_coerce`, output selection | outputs are matched with their names by position; shapes and dtypes reach each framework differently |
| **Output formatting**, `input_output.py:380-442` | none | `format_output` | one list item or CSV line per record; which header decides |
| **Gunicorn fleet**, `gunicorn_configuration.py`, `serving.py` | worker processes | start, watchdog, restart | workers load at different times; a slow load meets the watchdog |
| **Settings**, `config.py` | read once | environment variables | zero, negative and contradictory values |
| **Telemetry**, `telemetry.py` | set up once | spans, metrics | nothing in the life of a request |
| **OpenAPI contract**, `openapi_contract.py`, `lib.py` | a cached file | read | nothing |
| **Examples and scripts** | none | training, stub generation | outside the running service |

How they interact. A client's request reaches a gunicorn worker; the middleware
reads the body on the event loop; the handler acquires a slot (a suspension point),
then calls `_ensure_adapter_loaded`, parses, predicts and formats *on the loop*,
and releases. Probes run in a pool thread and call `_ensure_adapter_loaded` there.
`_ensure_adapter_loaded` calls `load_adapter`, which pulls from the registry when
one is configured, chooses a type and constructs the adapter. The gRPC server is
another process with the same parser, adapters and formatter; it loads before it
serves and passes every stage to a thread.

What makes each part correct:

* *slots*: conserved on every path, never leaked on a timeout that meets a grant,
  handed on without a lost wake-up, in the order of the line; every request answered;
* *loading*: the race is bounded and dies out, nobody passes `_ensure_adapter_loaded`
  without an adapter, what is served stops changing, a restart never brings back a
  version older than the one it finds;
* *worker*: loads that run at once are bounded by the pool, probes never cost the worker
  its life, whoever is not lost with a killed worker is answered;
* *pull*: only complete directories are returned, nothing of a pull outlives its call;
* *selection*: explicit settings are obeyed, an artifact of another name is never
  served, a late deployment is picked up;
* *parsing*: one row per record, in order, identifiers apart from features, limits
  that count records, 400 for what the client did wrong;
* *inference and formatting*: one answer per record, made from that record alone; no
  output passed off as another;
* *gRPC*: who waits is owed one result, the jobs somebody waits for are bounded although
  the executor's queue is not, liveness does not depend on threads, an accepted RPC ends.

## 2. The modules

| Module | Models | Uses |
|---|---|---|
| `InflightLimit` | what an in-flight limit promises: at most `MaxInflight` inside, a FIFO line, only its head admitted, anyone may give up | |
| `RequestSlots` | the middleware, the handler, `asyncio.Semaphore`, `wait_for` and the loop's callback queue | implements `InflightLimit` |
| `MCRequestSlots` | symmetry for the safety run | extends `RequestSlots` |
| `AdapterLoading` | `_ensure_adapter_loaded`, the promotions of the registry, the restarts of the process | |
| `HttpWorker` | loop, pool, probes and invocations of one worker, its heartbeat and Gunicorn's watchdog | composes with and implements `AdapterLoading` |
| `RegistryPull` | `pull_model_from_registry`, its executor, the registry | |
| `AdapterSelection` | `load_adapter`'s choice, the adapters' constructors, the directory | |
| `InputParsing` | `parse_payload`, the batch limit, numpy's shapes and exceptions | |
| `MCInputParsing` | the bodies and settings TLC tries | extends `InputParsing` |
| `Inference` | construction, `predict` of the four adapters, `format_output`: a request from body to response | extends `InputParsing`, its stages are steps of it |
| `MCInference` | the deployments, bodies and headers TLC tries | extends `Inference` and `MCInputParsing` |
| `GrpcService` | `live`, `ready`, `predict`, `to_thread`, the executor's queue, cancellation | |
| `QueueLemmas` | what `Append`, `Tail` and `RemoveAt` do to a queue's type, set, distinctness and the list of its elements in a set; that a set of naturals has a least member | cited by the proof modules |
| `RequestSlotsProofs`, `RegistryPullProofs`, `AdapterLoadingProofs`, `HttpWorkerProofs`, `AdapterSelectionProofs`, `GrpcServiceProofs`, `InferenceProofs` | theorems | extend their component and TLAPS |

### RequestSlots

The order of callbacks decides who gets a slot, so the loop is explicit: `ready` is
its FIFO, `todo` how much of it the current iteration still runs, `running` the task
between two suspension points. Timers and I/O enter `ready` between iterations only
(`Poll`). The semaphore is CPython's (3.13 and 3.14, as the repository requires):
`value`, the deque `waiters` and one future per waiter, whose state is `fut`
(`"revoked"` when the timeout cancels a task that already has its grant, in which
case the code path through `acquire` puts the slot back). The handler's suspension
points are the phases; everything between two of them is one task step, cut only
where `release` and `acquire` loop over wake-ups (`HandOn`). A body is empty, a
payload or over the limit: an empty cached body is falsy, so `_run_inference`
awaits `request.body()` again while it holds the slot, and that is the one
suspension with a slot in hand. `patient` is `ACQUIRE_TIMEOUT_S > 0`; without it
`wait_for` never starts `acquire`.

### AdapterLoading and HttpWorker

`at[c]` is where a thread is in `_ensure_adapter_loaded`; a load resolves the version
in `MODEL_STAGE` (`Resolve`), later installs it or raises. `Promote` moves the stage
on. `Restart` is a killed process and its successor: all that the process knew is gone,
loads in progress included; `starts` counts the processes, `floor` is what the registry
had in the stage when the present one was started.

`HttpWorker` adds who those threads are: an invocation takes the loop for load
and prediction, a probe takes a pool thread from dispatch until the loop has resumed
its coroutine, and further probes queue. It adds the clock of the watchdog too.
`worker_class` is Uvicorn's, whose heartbeat is renewed by a timer of the event loop,
every half of `GUNICORN_TIMEOUT` (`NotifyEvery`), and Gunicorn's arbiter kills a worker
whose heartbeat is older than the timeout: both are external and modelled by what they
do to the worker. `Tick` lets time pass, `Notify` renews, and a free loop lets no tick
pass beyond the one in which its timer is due; `busy` counts the ticks since the last
heartbeat in which an invocation held the loop. `Kill` restarts the adapter, loses
every request that is in the process, and of those whose connection may still wait in
the shared socket any subset.

### RegistryPull

The caller and the executor's thread are separate processes. `expired` says that the
timeout has passed; the caller then has raised but leaves the `with` only when the
thread has finished (`LeaveExecutor`). The thread opens, resolves, makes the
directory, copies and closes, each with its failures, a foreign `TimeoutError`
among them. `MaxPulls` successive calls share the module, as a process retries.

### AdapterSelection

Settings, installed frameworks and files are chosen in `Init`; `Deploy` adds files at
any time, between the choice of the type and the opening of the file in particular.
A probe or invocation tries again after every failure. The constructors fail in their
own order (`OnnxFailure`, `FileFirstFailure`): ONNX imports its
runtime before it looks for the file, the others look for the file first.

### InputParsing

One action per stage: load (CSV, JSON, JSON Lines, unsupported, multi-input), cast,
split, feature count, batch limit. numpy is modelled by what the code relies on:
the shape of `asarray`, `ValueError` for ragged lists, `astype` failing with
`ValueError` on words and `TypeError` on objects, `IndexError` on columns out of
range, negative columns counted from the end. A number is its place in the body.
Selections (the columns that are no identifiers, the lines that are not blank) are
listed by `Ascending`, the increasing enumeration of a set of places, rather than by a
fold. `InputsAssumption` says which bodies and settings are modelled: cells that know
their place, records of cells, vectors or fields of both, any number of them, and
selectors of every form; TLC evaluates it for the bodies it tries. Left out:
`INPUT_MODE` other than `tabular` (refuses everything), the names of dtypes, JSON
`null` (a NaN for float types), lists nested deeper than two.

### Inference

The stages after `InputParsing`, which `Parse` takes over step by step: `LoadAdapter`,
one action for each adapter's `predict`, `FormatOutput`. A model is its artifact's
business: `settings.model` has the names and shapes of its outputs, the width and dtype
it accepts and what a call returns (a tensor, a tuple, a dict). A prediction stands for
itself: it knows its output, its place in the row and the cells it was made from, so
that the properties can tell where each value of a response comes from. What a framework
raises on arrays that do not fit is taken from how the adapters use it and marked
external (`RunSession`, `Call`, `Fits`, `OfDtype`, `OutputOf`). `ServedAssumption` is
what deployments have in common: a model has outputs, and the keys of a JSON object differ.

What the code does is translated: which tensors are fed under which names (`BuildFeed`),
the dtypes that are inferred (`InferredDtype`; JSON booleans are left out) and that
`_coerce` and `astype` leave, the first tensor and the row made of a vector for the
other adapters (`Features`), the output that is asked for and its clamped index
(`Requested`), the `zip` of an output map (`Mapped`), the lines of a CSV answer
(`TableLines`) and the header that decides (`AcceptHeader`). Left out: predictions with
more than two dimensions and ONNX session options, which are passed through to the
runtime.

### GrpcService

An RPC is `called`, then `waiting` while its stage's job is in the executor's `queue`
or `running`; `result` is what the job left for the loop. `Cancel` ends the handler's
task and marks the future of its job, no more: a running job goes on, and a queued one
stays in `ThreadPoolExecutor`'s queue until an idle thread takes it and drops it (`Start`,
second case). So the queue may be longer than `max_concurrent_rpcs`. The adapter is loaded
in `__init__` and never changes, so `is_ready` is true.

## 3. The runs

| Run | Instance | Properties | Shows |
|---|---|---|---|
| `RequestSlots_safety` | 5 requests, 2 slots, all bodies, both signs of the timeout, symmetric | `TypeOK` `SlotsConserved` `NoStrandedWaiter` `PayloadsNeverOverlap` `PayloadsNeverShed` `TimesOutOnlyWhenSaturated` `NoOvertaking` | no order of arrivals, grants, timeouts, failures and releases loses a slot or a wake-up, or lets a request pass an older one |
| `RequestSlots_live` | 3 requests, 1 slot, no symmetry | `EveryRequestAnswered` `ImplementsLimit` | every request is answered; the semaphore implements `InflightLimit`, its order and fairness included |
| `AdapterLoading_race` | 4 threads, 3 versions, 2 starts | `TypeOK` `OneInstallPerCaller` `EnsuredIsLoaded` `NoRollback` `StaysSettled` `EventuallySettled` | the unlocked race is bounded and confined to the start of a process; restarts heal |
| `HttpWorker_probes` | 1 live, 1 ready, 2 invocations, pool of 1, 2 versions, 2 starts, a timeout of 2 ticks | `TypeOK` `ConcurrentLoadsBounded` `ImplementsLoading` `KilledOnlyByInvocations` `EveryRequestAnswered` | the composed worker is an instance of `AdapterLoading`; the watchdog kills for invocations only; if loads end, everybody is answered or lost with a killed worker |
| `RegistryPull_calls` | 3 calls | `TypeOK` `DirectoryIsComplete` `NothingOutlivesACall` `PullEnds` | late results and failures never yield a partial directory or overlapping pulls |
| `RegistryPull_hang` | 1 call, a registry that may not answer | `PullBounded` **violated** | the timeout does not bound the call |
| `AdapterSelection_names` | 7 files, 11 names, all types | `TypeOK` `NeverAnotherName` `ExplicitTypeObeyed` `DeployHeals` | settings win over what lies around; late deployments are served |
| `AdapterSelection_defaults` | the documented default names | `KnownDefaultServes` **violated** | `model.pkl` and `saved_model/` are recognised and then not found |
| `Inference_bodies` | bodies of up to 2 records of up to 2 values (CSV: 3 lines) with one model; 7 bodies with every adapter, model and choice of outputs; 4 of them with every header | `InferenceTypeOK` `OneRowPerRecord` `IdsSplitFromFeatures` `RecordsBounded` `TensorsAligned` `AnswerPerRecord` `OutputsKeepTheirNames` | the model is given the client's records, and the client the model's answers, each under its own name |
| `Inference_accept` | the same | `AcceptHonoured` **violated** | `text/csv` with a parameter is answered with JSON |
| `InputParsing_answers` | the bodies of `MCInputParsing` | `BadInputIs400` **violated** | some bad bodies end with 500 |
| `GrpcService_rpcs` | 1 Live, 2 Ready, 2 Predict, room for 2, 1 thread | `TypeOK` `AwaitedJobsBounded` `LiveAnswered` `EveryRpcAnswered` | cancelled jobs may pile up in the queue, but never those somebody waits for, and they hold nobody up for good |

Deadlock is checked in every run; where a system may come to rest (every request
answered), a stuttering action says so.

### Bounds, and why they are enough

* *Requests = 5, MaxInflight = 2.* A wrong wake-up needs a slot that is free while a
  line exists: two owners, one of them leaving, a waiter with a grant that is about
  to be revoked, a waiter behind it and a newcomer. With three requests the wake-up
  loops never hand on more than one slot.
* *Requests = 3, MaxInflight = 1* for liveness and refinement: one owner and a line of two,
  so that who is admitted next is a choice (waking the newest breaks `ImplementsLimit`) and
  the head may give up while the other is woken. A fourth request multiplies the states by
  thirty, and does not fit beside temporal properties. `MAX_INFLIGHT=0` has no run: the
  theorems, `NobodyForgotten` among them, hold for it.
* *Callers = 4, MaxVersion = 3, MaxStarts = 2.* Two racing loads, one late caller and
  one that comes after the race; two promotions, so that a loser may install an older
  and a newer version; a restart before, during and after all of that.
* *MaxPulls = 3.* A call beside a former one that expired, and one after both.
* *PoolSize = 1, Timeout = 2.* The smallest pool that can be exhausted while the loop
  loads too, and the shortest timeout with a heartbeat of its own period: one tick is
  the timer's, two more on the loop are fatal. The first invocation may be killed, the
  second meets the new worker.
* *MaxRows = MaxCols = 2.* Raggedness, order and alignment show between two rows;
  identifiers beside features need two columns; the id and feature selectors reach
  one column beyond them, and one before the first.
* *The families of `MCInference`.* A full product of bodies and deployments would repeat
  the parser's cases for every adapter. The adapters see shapes and dtypes only, so one
  body of each shape meets every model (one or two inputs, any width or two, float or
  integer, a value, a row or one value for the batch; tensors of integers, of floats, of both) and every choice of outputs; the
  formatter sees predictions and headers only, so four bodies meet all of them.
* *MaxRpcs = 2, Threads = 1.* A running job of a cancelled RPC, jobs of cancelled RPCs
  behind it, and two accepted RPCs behind those: the queue reaches three jobs and more,
  beyond `max_concurrent_rpcs`, while at most two of them are awaited.

### Fairness

* `RequestSlots`: the loop runs, an acquire timeout that is armed passes, a body that
  is already in the process is delivered. Clients owe nothing: a body may never come.
* `AdapterLoading`, `HttpWorker`: threads are scheduled and `load_adapter` returns or
  raises, unless the process is killed. No caller has to come, no promotion and no
  restart has to happen. Time is not fair: it may stand still while a load goes on.
* `RegistryPull_calls`: caller and thread are scheduled and the registry answers;
  `RegistryPull_hang` drops the registry's part, which nothing in the code enforces.
* `AdapterSelection`: attempts go on, as orchestrators repeat their readiness probe.
* `GrpcService`: the loop and idle threads only. `EveryRpcAnswered` states what else it
  needs, that jobs end, as its premise; `LiveAnswered` needs nothing else.

## 4. What is proved

Each proof module EXTENDS its component. Assumptions: the named ASSUMEs of the
component (finitely many requests, `MaxInflight \in Nat`, a positive number of pulls,
versions and callers; the shape of bodies, settings and models), no bound on how many.
Every safety property that a passing run checks, as an invariant or of a step, is the
conclusion of a theorem, and of the refinements every step.

* `RequestSlotsProofs`. `TypeCorrect`, `SlotConservation`, `InflightBounded`,
  `NoLostWakeUp`, `PayloadExclusion`, `Fifo`, `PayloadsAdmitted`. `SlotsConserved` is not inductive alone:
  whether a step takes a slot depends on how phase and future fit (`FuturesOK`), on
  who may be between two suspension points (`LoopOK`: only `running`), and a wake-up
  in `release` must find a value to take (`ReleaseOK`). `IInv` is their conjunction
  with `TypeOK`; one lemma per group of actions says whether a step keeps, takes or
  returns a slot. `NoStrandedWaiter` and `NoOvertaking` need more: the deque holds
  exactly the requests with a future, once each (`DequeOK`), whoever's future is done
  is scheduled (`ScheduledOK`), and while a slot is free with somebody pending, a
  hand-over is due (`WakeOK`); `PayloadOK` says whose body is empty. `FullInv` is all
  of it. `PayloadsAdmitted` adds `CalmOK`: without empty bodies nobody owns a slot
  between two callbacks, so by `SlotsConserved` every newcomer finds one free.
  `TimeoutsOnlyUnderSaturation` is about the order within `ready`: while a slot is free
  beyond the one that a release is handing on (`Surplus`), a task that hands slots on is
  on the loop, or the step of a granted task stands before every timer that would cancel
  a request in line (`AheadOK`). Timers enter `ready` at its end, and only for requests
  that have reached the semaphore (`NoEarlyTimer`), so that no step puts one in front.
  `StepsOfLimit` is the safety part of `ImplementsLimit`: `Line` lists the pending
  requests in the order of the deque (`LineOK`); only one list does (`LineOf`, by the
  first place where two would differ), so that what a step does to deque and futures
  can be read off as `JoinLine`, `AdmitHead`, `AdmitDirectly`, `GiveUp`, `Leave` or a
  stutter.
  `NobodyForgotten` and `LoopNeverStuck` are what `EveryRequestAnswered` rests on besides
  fairness. No callback is scheduled twice (`QueueOK`), a step is scheduled only while it
  is due and a handler's first step always is (`DueOK`), a status is sent before the
  slot is given back (`AnsweredOK`). So a request that has not ended waits for its
  client, is on the loop, is scheduled, or is pending in the deque, where its timer is
  armed or run out; and the callback at the head always finds its task where the code
  expects it. That a step is possible is said by its guards, `ENABLED` being out of reach.
* `RegistryPullProofs`. `TypeCorrect`, `CompleteDirectories` and `PullsAreContained`, from an
  invariant that ties the future, the thread, the directory and the caller of the
  current call to each other.
* `AdapterLoadingProofs`. `TypeCorrect`, `BoundedRace`, `EnsuredLoaded`, `SettledForGood`
  and `NeverRolledBack`: a caller that has installed finds an adapter from then on, for
  `self._adapter` is only reset with the whole process, and a version that a load has
  resolved was in the stage after its process was started.
* `HttpWorkerProofs`. `LoadsAsSpecified`: every step of the worker is a step of
  `AdapterLoading` or leaves it alone, so the theorems above hold in the composed worker.
  `LoadsBounded` needs to know who may call `_ensure_adapter_loaded` (`CallersOK`: a
  probe in its thread or the invocation on the loop), that the threads taken are at most
  `PoolSize` (`PoolOK`) and, because an answer hands its thread to the head of the line,
  that the line holds waiting probes only, each once (`QueueOK`). `ProbesNeverKill` rests
  on `HeartbeatOK`: the heartbeat is never older than its period, one tick and the ticks
  that invocations have held the loop. `TypeCorrect` for the rest.
* `AdapterSelectionProofs`. `TypeCorrect`, `ConfiguredNameServed` and
  `ConfiguredTypeServed`: once the type is chosen it agrees with `MODEL_TYPE`, and the
  file that a constructor opens with its directory is the configured one.
* `GrpcServiceProofs`. `TypeCorrect` and `BoundedAwaitedJobs`. That somebody who waits is
  owed one result follows from where jobs may be (`JobsOK`): the queue has no repetitions,
  nothing in it runs, its owners wait or have ended, and who waits without a result has a
  job in it or running. The jobs that are awaited, in the queue and running, then belong to
  different active RPCs, and these are at most `MaxRpcs` (`LimitOK`). Of the length of the
  whole queue nothing can be proved.
* `InferenceProofs`, for `InputParsing` and `Inference`. `RowsAreRecords`, `IdsAreSplit`,
  `RecordsAreBounded`, `TensorsAreAligned`, `AnswersAreRecords`, `OutputsKeepNames` and
  `InferenceTypeCorrect`, for bodies of any size, any settings, selectors and models.
  No fold and no recursion is left in what is proved, so that the one induction needed,
  that every set of places has an increasing enumeration and only one
  (`AscendingExists`, `AscendingUnique`), goes through with the least counterexample.
  From it the CSV lines that are kept, stripped first or not, are the lines that are
  not blank (`NonBlankOfStripped`, `KeptShape`), and the feature columns those that
  are no identifiers (`IdsAndFeatures`, which also needs that no two cells of a row are
  the same, `Apart`). `ParsingInv` is what each stage may rely on. The loaders need not
  yield the client's records: JSON lines that are words or objects become one row, which
  only the cast refuses. So between load and cast the table is `Faithful`: *if* it has
  only numbers, its rows are the records. Past the split rows
  and records correspond (`RowPerRecord`, `IdsApart`); tensors are `Aligned`, one by one,
  whether or not their sizes are compared. `InferenceInv` adds that the arrays the model
  is given go by records (`Fed`), that what it returns does so too and is of one output
  (`FromOutput`, for each key and each way of selecting), and that a response is a
  refusal or the formatted predictions (`IsResponse`); `ListsRead` says that CSV and
  JSON show the same lists. TLC has checked `ParsingInv` and `InferenceInv` on the
  states of `Inference_bodies`.

  What these theorems leave out is what the properties leave out. `Clear`: a CSV body whose
  header cannot be told from its records (a numeric header, or a first record with a word
  in it, under `auto`; a header that `CSV_HAS_HEADER` contradicts), CSV without records, and
  JSON Lines of bare numbers. `IdsAreSplit`: negative indexes, and settings with
  `TABULAR_FEATURE_COLUMNS`. `PerRecord`: models with an output for the whole batch, models
  that return a tuple, and, outside ONNX, named tensors with one scalar for each record.
  What the code does with those is in section 5.

  The proof found two things that TLC's bodies do not contain: a line of JSON Lines
  that is an object with a number for its features merges with the other lines as a
  bare number does, which `Clear` now excludes by name; and the guards of the cases of
  `OutputsKeepTheirNames` overlapped, so that it was left open which of them applied.

Model-checked only: everything under fairness (`EveryRequestAnswered`, `PullEnds`,
`EventuallySettled`, `DeployHeals`, `LiveAnswered`, `EveryRpcAnswered`) and the fairness
of the refinements, `WF(AdmitHead)` in `ImplementsLimit` among them, for liveness and
ENABLED are out of the prover's reach.

## 5. Findings

Each is a run whose property states what the documentation says.

1. `MODEL_REGISTRY_TIMEOUT` does not bound the pull (`registry_pull.py:307`): the error
   is raised inside `with ThreadPoolExecutor`, whose exit joins the thread.
2. Known default names are recognised and then not opened (`README.md:19`):
   `model.pkl`, `saved_model/`.
3. Bad input is answered 500 (`README.md:48`): an object where values belong raises
   `TypeError`, too few columns raise `IndexError`; only `ValueError` becomes 400.
4. `Accept` is honoured only without parameters (`README.md:28`): `text/csv; charset=utf-8`
   gets JSON (`input_output.py:407`), while `Content-Type` loses its parameters.

Seen while modelling, without a run of their own:

* The adapter is not loaded once per process: concurrent first callers all pull and load,
  and the last one to finish wins, which may be the one with the older version.
* `_coerce` turns every floating point array into float32 and every integer into int64
  (`onnx_adapter.py`), so that a configured `float64` or `int32` never reaches an ONNX model.
* A wrong `ONNX_INPUT_NAME`, or an output map with a broken JSON text, is a mistake of
  whoever deploys; the first is answered with 400, for onnxruntime reports the missing
  input with `ValueError`, and the second as well, at every request's attempt to load.
* An `ONNX_OUTPUT_INDEX` out of range silently selects the first or the last output.
* scikit-learn, PyTorch and TensorFlow use the first tensor only, and take a tensor with
  one scalar for each record as one row: one prediction for the whole batch.
* An `Accept` header of `*/*` gets JSON, whatever `DEFAULT_ACCEPT` says; predictions by
  name are JSON whatever is asked. NaN among the predictions makes invalid JSON.
* A load on the loop that takes longer than `GUNICORN_TIMEOUT` gets the worker killed and
  starts again in the next one: nothing bounds how often.

* `ACQUIRE_TIMEOUT_S <= 0` sheds every request although slots are free.
* With payloads and a positive timeout no request is ever shed (`PayloadsNeverShed`):
  predictions run on the loop, so the limit binds only requests with an empty body.
* Readiness loads that hang take the pool's threads, and then `/live` waits for one: the
  liveness of `HttpWorker` assumes that loads end.
* A `TimeoutError` raised by the registry itself is reported as an expired
  `MODEL_REGISTRY_TIMEOUT` (`registry_pull.py:367`).
* A negative `TABULAR_ID_COLUMNS` index selects the identifier and leaves it among the
  features (`input_output.py:109`); `IdsSplitFromFeatures` excludes it by name.
* JSON Lines with a bare number per line, or an object whose `features` is one, become one
  record; `CSV_HAS_HEADER=auto` drops a first record with a bad cell as if it were a
  header. `Clear` excludes them by name.
* The checks for mismatched batch sizes (`input_output.py:323`) cannot fail: every tensor
  has one entry per record (`TensorsAligned` holds with the setting off).
* Cancelled gRPC predictions keep their thread to the end, beside `max_concurrent_rpcs`
  others, and those that have not begun keep their place in the executor's queue until a
  thread comes to it: with the threads busy, clients that cancel and send again make the
  queue longer than `max_concurrent_rpcs`.

## 6. Not modelled

* Graceful shutdown of workers (`graceful_timeout`): Gunicorn's and Uvicorn's own code;
  the repository hands over a number. Several workers side by side share nothing but the
  registry, so that one worker with its restarts (`HttpWorker`) stands for each of them.
* Values: what a model computes, the text of numbers, the names of dtypes.
* Telemetry (`telemetry.py`): exporters, meters and the propagator are set up once before
  the first request, spans and counters leave requests alone.
* Settings (`config.py`) are read once; what they steer is a constant or a choice in
  `Init` of the module that uses it. How an environment variable is parsed is not modelled.
* The OpenAPI file (`openapi_contract.py`), the library scaffold (`lib.py`), the examples
  and scripts: no state that a request or another component depends on.
* Temp directories that are left behind: kept in `RegistryPull` (`dir`), but nothing is
  promised of them, so no property mentions them.

## 7. Plan

Done, in this order: `InflightLimit`, `RequestSlots`, `RegistryPull`, `AdapterLoading`,
`HttpWorker`, `AdapterSelection`, `GrpcService`, `InputParsing`, then `Inference`, restarts
and the watchdog; proofs for all of them.

Next:

1. The premises of the other liveness properties that are invariants, as `NobodyForgotten`
   and `LoopNeverStuck` are for `RequestSlots`: what is due when in `GrpcService`,
   `HttpWorker` and `RegistryPull`.
2. What `Clear` and `PerRecord` exclude, as theorems: which records the parser makes of
   such bodies.
3. As a model: `RegistryPull` inside a load of `AdapterLoading`, in place of `Resolve`,
   `LoadFails` and `Install`.
