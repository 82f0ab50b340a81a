# Formal model of laya-go

laya-go runs a small ONNX language model in a Go process: an application opens
a `Runtime`, opens a `Model` from a verified bundle of files, and asks it
questions about a `State`. This directory holds TLA+ modules for the parts of
that library whose correctness depends on order, failure or boundaries, TLC
configurations that check them on small instances, and TLAPS proofs of the
central properties for every instance. `PROJECT.json` records which lines of `src/`
each definition stands for, which mutation of the code each property catches,
the hazards the properties are for, and the findings.

## 1. Inventory of the system

| Component | Source | State | Operations |
|---|---|---|---|
| Model | `model.go` | `state`, `active`, FIFO `waiters`, `idle`, `closeDone`, `closeInProgress` | `Predict`/`Choice`/`Score`/`Noul` through `acquire`, `cancelWaiter`, `release`; `Close` |
| Runtime | `runtime.go` | `state`, `models`, `opening`, `closeInProgress`, `closeDone` | `NewRuntime`, `OpenModelDir`/`OpenModelFS` (`beginOpen`, `finishOpen`), `unregister`, `Close` |
| Native environment coordinator | `native_lifecycle.go` | `key`, `leases`, `cleanupPending`; the process-wide ONNX environment | `acquire`, `nativeLease.close` |
| Native model engine | `native_lifecycle.go`, `native_run.go`, `native_backend_enabled.go` | source, tokenizer and session handles, `closed` | `openVerified`, `Predict` over `executeCancelableNativeCall`, `Close` |
| Materialization | `internal/source/materialize.go`, `stage.go`, `lock_linux.go` | the `.laya-go` namespace of a WorkDir: marker, lock, `staging/`, `bundles/` | `Materialize`: `ensureNamespace`, lock, `recoverStages`, staging, `renameNoReplace`, unwinding |
| Preprocessing | `preprocess.go`, `state.go` | none | `prepareInferenceBatch`, `normalizeQuestion`, `prepareItem`, `collatePrepared` |
| Directory and snapshot sources | `internal/source/source.go`, `snapshot.go` | open root, snapshots of files | `OpenDirectory`, `Verify`, `ReadFile`, `ResolveFile`, `Close` |
| Bundle verification | `internal/bundle/*` | none | `Verify`: `readManifest`, `Parse`, `validateLayout`, `verifyFiles` |
| ADK adapter | `adklaya/*` | the captured questions of a node | `NewChoiceRouting`; `NewChoiceNode`, `NewScoreNode`, `NewNoulNode`, `NewPredictionNode` |
| Postprocessing, calibration | `postprocess.go`, `calibration.go` | the temperatures of an open model | `parseCalibrationConfig`, `selectValue`, softmax, entropy, rounding |
| Python reference | `tools/export/src/laya_export/reference.py` | none | `build_sequence`, `collate`, `clamp_temperature`, `select_temperature`, ... |
| Questions, results, states, errors | `question.go`, `result.go`, `state.go`, `errors.go`, `options.go` | immutable values | constructors, validation |
| Tokenizer binding | `internal/native/tokenizer` | one native handle | encode, close |
| Parity corpus, exporter, commands, examples | `internal/parity`, `tools`, `cmd`, `examples` | - | offline tools and callers |

### How the parts interact

- A goroutine that calls `Model.Predict` waits for the Model's single slot and
  then calls the engine; the engine holds `e.mu` for the whole call and runs the
  native session in another goroutine so that a context can end the wait.
- `Model.Close` stops admission, waits for `idle`, calls `engine.Close` and then
  `Runtime.unregister`. `Runtime.Close` refuses (`ErrModelsOpen`) while a model is
  registered or being opened, and otherwise closes its engine, which gives back
  its lease of the process-wide environment. The last lease destroys it.
- A bundle is a directory with a `manifest.json`; `Verify` parses it, compares the
  tree with it, and `openVerified` then reads the agent configuration, whose
  temperatures scale every output of the model.
- `OpenModelFS` materializes the bundle below a WorkDir that several processes may
  share; they meet only on the file system, under an advisory lock.
- `prepareInferenceBatch` turns questions into tensors, under the limits of the
  bundle's manifest and the policy of `ModelOptions`; `formatInferencePrediction`
  turns the outputs into rounded results, which `NewPrediction` and the Model
  check against the questions.
- What the Go code feeds to the model and how it scales the outputs has to be what
  the Python of the exporter does (`docs/upstream-parity-v1.md`).
- An ADK workflow asks a Model through a data node, or through the node of a
  `ChoiceRouting`, and follows the edges that carry the route that node has put
  into its event.

### What is hard

Concurrency: grants racing cancellations and timers, several `Close` calls, a
`Runtime.Close` during an open. Failure: every cleanup may fail and must be
retryable, without a double release or a lost resource. Persistence: processes
die and power fails between the steps of a materialization. Boundaries: queue
capacity 0, budgets of tokens one above or below a fixed part. The list, with
lines and properties, is `hazards` in `PROJECT.json`.

### What makes each part correct

- **Model**: one owner of the slot; first come, first served; nobody admitted
  after `Close` begins; `idle` exactly when drained; one cleanup at a time; the
  Runtime keeps the Model until its engine is released; calls and closes end.
- **Runtime and coordinator**: the environment outlives every session a model or an
  open owns; leases are counted exactly; a failed destruction stays retryable by someone.
- **Engine**: no native call on freed memory and no value left behind, however far
  a call came; what `Predict` reports is what happened; teardown in reverse
  order and resumed after failure; a failed open unwinds.
- **Materialization**: a publication is complete or absent, is never changed or
  removed; nobody's live stage is removed; abandoned ones are, if they can be read; a
  retry succeeds.
- **Preprocessing**: each option is read at its own mask token; rows keep to the
  limit; what is cut is reported; rows and batches are those of the reference.
- **Bundle verification**: what is used of a manifest is what it says, to every
  reader; the declared files are exactly the artifacts.
- **Calibration**: every question gets the temperature Python would take.
- **Directory sources**: what was verified was there together at one moment;
  the roots are closed once, never under a reader.
- **Answers**: finite outputs always give a valid prediction, whose answers agree
  with the probabilities the caller sees.
- **Routing**: a run leads to exactly one target, and to a branch only when the
  prediction is certain.
- **Data nodes**: a run answers the questions the node was made of.

## 2. Modules

### `Admission` and `Model`

`Admission` is the abstract promise: a slot with at most one holder, a bounded
FIFO queue, a switch that turns admission off, and a resource that is released
only when all have left.

`Model` is `model.go`. Its first six variables are the fields of the same name;
`call` and `close` say where each goroutine stands. One action is one critical
section of `m.mu`, one receive of a `select`, or one return of an engine call:
`AcquireRefused`, `AcquireFree`, `AcquireQueued` are the outcomes of `acquire`;
`CancelWaiter` has those of `cancelWaiter`, which must notice a grant that came
between the end of the context and the lock; the `Close...` actions are the
iterations of the loop in `Close`. `idle` is a flag (a channel closed once);
`closeDone` is one flag per waiting Close (`doneClosed`), set by the Close that
finishes, because each cleanup makes a new channel. `ImplementsAdmission` maps
the holder to the caller that runs or has been granted the slot.

### `NativeCoordinator` and `Runtime`

`NativeCoordinator` holds `acquire` and `close` as operators from a coordinator
to the set of its possible outcomes: they run under one mutex to the end, with
`Initialize`, `DisableTelemetry`, the version check and `Destroy` each free to
fail. `ort` is what the library really holds, which the code cannot see, and
`orphaned` says that an `Initialize` that failed has left it behind.
`resolveNativeEnvironmentKey` is what `NewRuntime` does before `acquire`.
`Runtime` composes it with any number of Runtimes: openers (a goroutine that
opens a model and later closes it) and closers. What `Model.Close` does in detail
is `Model`'s; here it is `ModelEngineClosed` and then `unregister`.
An open that is cancelled after `OpenSession` closes its session; when that fails
the session stays in the library and nothing refers to it (`abandoned`). The
Runtime cannot know of it, and its Close destroys the environment over it:
`SessionsHaveEnvironment` promises it an environment only while its Runtime is open.

### `NativeModelEngine`

The stages of `openVerified` with `nativeOpenFailure`; `Predict` from its checks to
its return; `Close` with its resumable stages. `real` is each resource in the
library, `held` the engine's reference to it. A call allocates its five input
tensors one by one (`NewORTInput`), the run options, and, when the run succeeds,
its two outputs; `memory` is the state of each, and `AllocationFails` may come at
any of them. The actions `ExecuteStarts`, `ReceiveResult`, `TerminateCall` and
`DrainResult` are `executeCancelableNativeCall`: the goroutine around `Execute`, the
select of result and context, `Terminate` and the wait that follows. `outcome` is
what `Predict` returns, with the classification of `runError`. `RunStarts` may also find
the batch not rectangular, although `MarkersAreTheMasks` of `Preprocess` says that it is. A `Destroy` may fail,
at most one in a call (`Failures`). What comes after the run (formatting) is in
`Inference`.

### `Materialize`

One call per process at a time, many calls in a behaviour. The disk is
`namespace`, `lock`, `stages`, `published`; each step of the code between two
system calls whose order matters is an action. `StepFails` is an I/O error or a
context that has ended, at any step; `Crash` kills a process and frees its
flock; `PowerLoss` kills all and keeps what was synchronised, with any part of the
rest; `SourceChanged` is a source directory that is edited during the copy.
`InitializeFails` removes the namespace as `initializeNamespace` does, and `stale`
marks the processes left with a directory that is gone.
A `RemoveAll` is one step; when it fails it leaves any part of its tree. Of a namespace
that may be a marker without its directories (`broken`), directories without the
marker (`bare`), stages that others are filling and publications of which parts are
gone; calls that miss something then fail (`HasStage`, `PartsMissing`). `recoverStages`
goes on without an error past a stage it cannot open, read or close: that is a fault
like the others, and the history variable `unread` holds the stages it has passed over
so. They stay until a later recovery, and `RecoveryIsComplete` excepts these alone.
The WorkDir
itself is never synchronised by the code, so that a power loss may take a
namespace away with everything in it (state `synced`, not `durable`); and a
call that finds a publication returns success although its entry in `bundles/` may
not be synchronised yet by the call that made it, if that one died.

### `Preprocess` and `Reference`

`Preprocess` is `prepareInferenceBatch`, from a State (`TextState`, `JSONState`, the
zero State) and questions of each kind. Texts are sequences of words, and a word is
a token; `normalizeChoice`, `normalizeScore` and `normalizeNoul` render the options,
`encodedOptions`, `budgetedOptions`, `budgetedHead`, `markersOf` and `rowOf` are the
stages of `prepareItem`; `collatePrepared` pads the rows. `Vocabulary` are the words of
texts; the names the model has for the special tokens are not among them. The tokenizer
is external: it turns a spelled special token into the token itself (`tokenOf`). The code
takes the mask token alone out of the texts, so that a text may well give separators;
`RowsKeepTheirBudgets` finds those of the layout by their places and not by their look.

`Reference` holds the operators of `reference.py`, translated from the Python:
`build_sequence`, `collate`, `render_options`, `clamp_temperature`,
`temperature_bucket`, `select_temperature`. It has no state; `Preprocess` and
`Workflow` instantiate it and compare.

### `DirectorySource`

`openDirectory` with `Verify`, then `Bundle.ReadFile` and `Close`, over a flat
directory of files and links to blobs. Every look at the file system is a step,
and between any two somebody may change an entry or a blob (`ChangeEntry`,
`ChangeBlob`, at most `MaxChanges` in all): first the list of entries and the
identity of each (`ListBefore`, `InfoBefore`), then the links and their blobs, the
manifest and each file it declares, opened and read in separate steps, and
then the second look (`StableTarget`, `StableBlob`, `ListAfter`, `InfoAfter`).
The links a listing finds during `Verify` are looked at one by one; the model lets that
look succeed whatever they are (`ListFiles`), since each is looked at again when it is
opened, and any open may fail.
Each change gives what it makes a new identity: inode, size and modification time
together do not come back (an old blob that is renamed back is taken for a new one). Changes stop when the open has succeeded, because
callers must keep the directory as it is from then on. `existed` is a history
variable: when the last file had been verified, the directory held exactly the
bundle that was verified, all of it at that moment.

### `JsonTypes`, `Json`, `Calibration` and `Bundle`

`JsonTypes` has documents (null, leaves, arrays, objects with their members in order) and
Go types. `Json` has what walks a document: the two checks of `parse.go` (`rejectDuplicateFields`,
`validateExactFields`), and what `encoding/json` makes of a document and a type, as
the code uses it: names in any case, the last of repeated members, null leaving what
was there. `Bundle` reads a manifest (`ReadManifest`), parses and validates it
(`Verify`: `parses`, `validateManifest`, `validateCompatibility`, `validateLayout`)
and reads the agent configuration (`parseCalibrationConfig`). The manifest keeps the
fields that are compared with one another, paths and roles; the many scalars that
are pinned one by one are the field `profile`, supported, well-formed or malformed.
`Bundle` takes the operators that walk documents as constants, which `MCWorkflow.cfg`
gives the definitions of `Json`: those are recursive, and so out of the prover's reach.
All `Bundle` assumes of them is that what is decoded is a `Manifest`
(`DecodedAssumption`), which Go's types guarantee and TLC evaluates.
`Calibration` is how one value becomes a temperature, and which one a question gets.

### `Answers`, `Inference`, `Routing`, `DataNodes`, `Nodes` and `Workflow`

`Answers` holds the operators from a row of outputs to a result (`maximumIndex`,
`expectedScore`, `roundFour`, `resultFromDerivation`) and the checks of questions,
results and predictions. Probabilities are counted in `Whole` steps before
rounding and `One` after, so that halves, ties made by rounding and both ends of
the range occur; softmax and entropy are any distribution with any confidence.
`Inference` is one `Predict` around them: the questions are checked, the session
gives a row for each (a wrong one too), temperatures are selected, the results are
made and checked. `Routing` is `adklaya/routing.go`: `NewChoiceRouting` validates a
configuration and builds the edges; `RunNode`, `RunNodeFails` and `NodeRoutes` are
the function of the node around the prediction. `DataNodes` is `adklaya/data.go`:
`NewDataNode` captures questions, `WriteSlice` is the application writing to the
slice it had passed, `RunDataNode` and `DataNodeOutputs` are a run.

`Nodes` composes these: an application (`PredictAlone`), a data node or a routing
node asks a model, given by its calibration. `Workflow` puts `Bundle` before it: a
model is opened (`OpenModel`) or its bundle refused, and then asked (`AskModel`). Each
step of a `Workflow` is one of `Bundle`, which leaves the variables of `Nodes` alone,
or a step of `Nodes` with a calibration in `Served`, so that what holds of `NodesSpec`
holds of `Workflow` (theorem `WorkflowIsNodes`). The workflow engine, which is not in the repository, is seen as what
follows every edge that carries the node's route.

## 3. Runs

| Run | Checks | Instance |
|---|---|---|
| `model_safety` | exact admission (one owner, exact queue), the `idle` signal, shared cleanup (one at a time, the others woken), ownership | 4 callers, 2 closers, capacity 2, with timers |
| `model_liveness` | nobody admitted after Close; queued calls leave, Close returns; refinement of `Admission` | 3 callers, 2 closers, no timer |
| `runtime` | environment under sessions (those left by a failed open as long as their Runtime is open), exact lease count, no model in a stopped Runtime and exact count of opens, pending cleanup has an owner and an orphaned environment no lease, one cleanup at a time; Close returns if cleanups do not keep failing | 2 Runtimes, 2 openers, 2 closers, 3 libraries, one of a wrong version (160 000 states) |
| `engine_lifecycle` | no use after free and nothing left allocated, truthful outcomes, complete reverse-order teardown and unwinding, cancelled calls return | 2 callers, 2 closers, 8 values per call (192 000 states) |
| `materialize_safety` | complete publications, stages of live calls, recovery, namespace and publications are kept | 2 processes, 2 bundles, 3 faults, fresh WorkDir (471 000 states) |
| `materialize_liveness` | the lock is given back; retries succeed | 2 processes, 2 faults, namespace present |
| `materialize_sync_failure` | *violated*: finding 1 | 2 processes, 1 fault |
| `materialize_interrupted_init` | *violated*: finding 2 | 1 process, 1 fault |
| `preprocess` | markers through to the padded tensors, budgets, reported truncation, parity with the Python reference | 1-2 questions of each kind, texts on both sides of every budget, with and without spelled special tokens, 5 limits (326 000 states) |
| `preprocess_opt_in` | *violated*: finding 3 | 1 question |
| `directory_source` | what was verified existed at one moment; roots have one owner | 3 names, one of them the manifest, 1 blob, 2 manifests, 2 changes, 1 reader |
| `workflow` | manifests decode as written, declared files are the artifacts, temperatures are Python's; finite outputs are answered, answers agree with their distributions; a routing node reaches one target, and a branch only if the prediction is certain; a data node answers its questions | manifests with edits in two sections, configurations with one; requests of up to 2 of 9 questions; routings of up to 3 branches over 5 target nodes; probabilities in eighths, rounded to quarters (2.1 million states) |

**Why the bounds are enough.** The admission code treats all callers alike and
looks at the queue only by its length, its head and one position: four callers
give an owner, a full queue of two (so that a middle and a head differ) and one
refused. Two closers give one that cleans and one that waits; after a failure
they change places. Two Runtimes give a shared environment and a last lease; two
openers give an open that races a Close beside a model, or one for each Runtime, and a
session left behind beside a model; two closers give one that cleans and one that waits, or one for each Runtime.
Materialization is symmetric in processes, and two are a holder and a rival; three
faults let one fault follow the recovery from another and a third hit the
retry. `namespaceRetries` (200 in the code) is 2 or 3: a round changes nothing, so
more rounds only delay the end. The lengths in `MCPreprocess` lie below, at and
above each of OptionMaxLen, the option share, HeadMaxLen and the limits, and every
special token is spelled in the options, in the State or in both. Two
changes of a directory are the fewest that could deceive a reader who looks twice
(one before the first file is read and one after the second, so that a mixture of
two states looks like one). With `Unit = 2` every odd count is a half that
`roundFour` rounds up, and `Signals` lie below a threshold, within its rounding and
above. Thresholds are multiples of the rounding step: rounded values are, so that any
other threshold admits the same ones as the next multiple above it (for a minimum) or
below it (for a maximum). The documents of `MCWorkflow` are a supported manifest with edits: a member
repeated, missing, renamed in another case, null or of another type, at the top and
inside a section; files added, left out, out of order, with another role, or equal
but for case. Two edits meet where one could hide the other. `Served` limits which
calibrations predictions are followed for: formatting only asks whether a positive
temperature is there.

**Deadlock** is checked in the models of `Model`, `Runtime` and `Materialize`.
The other runs end: an engine is opened and closed once, a batch is built once, a
directory is opened once, a bundle is opened and a prediction made once.

**Fairness.** Weak fairness of the steps a goroutine takes by itself: the Go
scheduler runs what is runnable. In `Model`, engine calls return (the engine
model shows when: a call whose context ends does, provided ONNX Runtime honours
its terminate flag, which `NativeModelEngine` states as fairness of
`ExecuteReturns` once `terminated` is `"yes"` and nowhere else). Nothing is assumed
of the arrival of calls, of contexts that end or of timers, except where a
property says so. `CloseReturns` of Model and Runtime assumes that cleanups do
not fail for ever. In `Materialize` a call
under way takes its next step (a process that polls `flock` gets a lock that
stays free), and while nobody has a bundle open the applications call again;
faults are finitely many because of `MaxFaults`.

## 4. Proofs

Each component's proofs are in a module of their own, which extends the component's
and TLAPS. They hold for all sets of goroutines, processes, files and names, and
for every value of the bounds, under the assumptions the component's module names.
Each proof has an inductive invariant `IInv`, checked by TLC on the instances of
section 3 before it was proved (that of `WorkflowProofs` over rows of at most four
options, since `AnyRow` is infinite), a lemma for each action or group of actions, and a
theorem `Invariance` that `Spec` keeps it; the other theorems follow from that.

| Module | Theorems | Assumptions |
|---|---|---|
| `ModelProofs` | `TypeCorrect`, `MutualExclusion`, `IdleSignal`, `ExclusiveCleanup`, `Ownership`, `AdmissionStops`, `Refinement` | capacity and wait are naturals, as `ModelOptions.validate` demands; no caller is the marker of a free slot |
| `RuntimeProofs` | `ExactLeases`, `SessionSafety`, `StoppedRuntime`, `CleanupOwner`, `ExclusiveCleanup` | no library and no Runtime is the marker of none |
| `NativeModelEngineProofs` | `MemorySafety`, `CompleteTeardown`, `TruthfulOutcome` | callers and closers are different goroutines |
| `MaterializeProofs` | `CompletePublication`, `StageOwnership`, `CompleteRecovery`, `KeptNamespace`, `KeptPublications` | bounds are naturals; no process or stage is the marker of none |
| `DirectorySourceProofs` | `VerifiedState`, `RootOwnership` | the manifest is one of the names; a manifest is a content and declares at least one file, itself not among them; no blob is the marker of none |
| `WorkflowProofs` | `FiniteAnswered`, `AnswersAgree`, `OwnQuestions`, `UncertainFallsBack`, `OneTarget`; `DeclaredFiles`; `WorkflowIsNodes`, `WorkflowKeepsNodes` | `Unit` is even, so that halves exist; questions, branches and data nodes are what the types of `question.go`, `routing.go` and `data.go` allow, valid or not; a signal is a probability; a model that serves has three temperatures within the bounds of `parseCalibrationValue` (`ClampedTemperature`); a decoded manifest has its Go type |
| `PreprocessProofs` | `TypeCorrect`, `MarkersCorrect`, `BudgetsKept`, `TruncationReported`, `ReferenceMatched` | the budgets are positive, HeadMaxLen within MaxLen and HeadReserve at least 8 (`parse.go`, `compatibility.go`); questions have two options or more, a noul exactly two; texts are made of words, and no word is a special token |

### Model

`IInv` is the conjunction of the named invariants and `CleanupProgress`, which ties
the place of the Close that cleans up to `state`, `engineClosed` and `registered`.
None is inductive alone: that the slot has one owner needs that the queue holds
exactly the callers in `wait` that are not granted (else a grant might go to someone
who has left); that cleanup never runs over an admitted call needs that `idle` is
given only when drained, and this in turn that nobody joins once the state is
Closing. `AdmissionStops` is the action property `NoAdmissionAfterClose`;
`Refinement` is `Spec => A!Safety`, the safety half of `ImplementsAdmission`. It uses
that the holder, defined as the owner by choice, is unique by `SlotHasOneOwner`, the
first half of `AdmissionIsExact`.

### Runtime and coordinator

`CoordinatorOK` is about the coordinator alone: an environment that is leased, or
waits for its destruction, is the one the key names, and any other one is orphaned.
Lemmas over `acquire` and `closeLease` show that every outcome, the failing ones
included, keeps it and moves the count by exactly what the caller is told. That the
count is the number of holders (`LeasesAreCounted`) then needs that a Runtime gives
its lease back once, which is `CleanupIsExclusive` with `CleanupFlag` (the flag is set
exactly while one Close is at its cleanup), and `PendingIsClosing` (a pending cleanup that has its lease
belongs to a Runtime that is closing).
`SessionSafety` follows: a session belongs to a model, whose Runtime has not begun to
close (`NoModelInStoppedRuntime`), so has its lease, so has the environment. A session
that a failed open has left belongs to no model, and only a Runtime that is open
has the lease for certain, which is why the claim about it ends there. No set
is assumed finite; that only finitely many opens and leases exist at a time
(`Finiteness`) is part of the invariant, since counts are cardinalities.

### Native model engine

`MutexOK` says who holds `e.mu`, `PhaseOK` what an open of each stage has opened,
`CallOK` where the run is when its caller is at each step, `MemoryOK` which values are
allocated there: the inputs from the first on, then the options, and the outputs
exactly when the run has given a result. `NoUseAfterFree` is not inductive: at the
return it needs that the goroutine around `Execute` has ended, which holds because a
cancelled call drains its result before it frees anything. `TruthfulOutcome` is an
action property, proved from the invariant before the step.

### Materialization

The argument is who may change what. Only the holder of the lock changes a stage or a
publication (`LockOK`: the flock is held exactly by the call under it, unless its
namespace has been removed), a marked stage that is not the holder's belongs to
nobody (`OwnerOf`, `StageOf`, `RecoveredBy`), and only the call that made the
namespace, before anyone has validated it, removes it (`NamespaceOK`, `NamespaceIsKept`). A
power loss at any step leaves any part of what was not synchronised, so `PublishedOK`
carries that what is published was complete and durable as a stage before its rename.
All five theorems have the hypothesis `~NamespaceSyncFails`: that the last sync of
`initializeNamespace` does not fail. `KeptNamespace` and `KeptPublications` are false
without it, which is finding 1. So are `CompletePublication` and `StageOwnership`: the
`RemoveAll` after that sync may itself fail half-way, and leave part of a publication
and a live call without its stage. `CompleteRecovery` has it because it is drawn from
the same inductive invariant.

### Directory sources

The argument is about time: an identity is given once and never comes back (`TimeOK`),
so that what still has the identity of the first look has not changed since
(`SeenOK`, `LinksOK`). `VerifiedOK` and `ResultOK` say for each phase that what was
read is there, or that a trace of the change is left (the identity of the directory,
of an entry or of a blob) among those the remaining checks look at. Each step of the
second look takes one place away from where a trace could be, and finds it if it is
there; when no place is left, the bundle existed.

### Predictions and nodes

The state is simple here and the data is not. `IInv` says what each part relies on:
the rows so far are distributions over the options of their questions, or bad
(`InferenceOK`), an answer is what formatting makes of them, and a node that runs has
asked its own questions (`RoutingOK`, `DataOK`). That formatting refuses bad rows only
is part of the invariant, and is the lemma `ValidPrediction`: every check a result has
to pass is shown to hold of what `resultFromDerivation` makes of any distribution, the
one on the expected level of a score by `ExpectedLevel` (a sum of levels times
probabilities is at most the highest level). `RoundingError` is the one fact about
`roundFour` (off by half a step at most, halves up); that rounding keeps the order, keeps
values apart that are a step apart, and moves a threshold by half a step follow from it,
and `ScoreError` adds these errors over the levels. For routing, `AcceptedRoute` states
the decision of `acceptedRoute` in terms of the row before rounding, `EdgesOfConfig` what
the edges of a configuration are, and the two theorems put them together.

### Bundles

`BundleOK` says that the manifest of a verified bundle has passed all the checks
(`Accepted`). The rest is counting. `RoleIsRequired`: a role may have as many files as it
has required paths; every required path is among its files; so, by `ImageIsCounted`, it
has no others. `DeclaredIsRequired` goes through the roles; that the external data are as
many paths as entries needs that no two are equal, which the check without case gives.
Notices are required nowhere, and only their number is known; they are counted by
`InjectiveImage`. Dropping the counts of roles, or comparing paths with their case,
breaks the theorem, as the mutants show. `WorkflowIsNodes` then joins the two halves.

### Preprocessing

The specification keeps little state: `IInv` says that the items are what `prepareItem`
makes of the questions asked, none of which it rejects, and that a batch that is ready is
their collation. Everything else is about the operators, for sequences of any
length, and the lemmas follow the code from the options to the batch:

- `Kept` and the folds of `Reference` are folds over sequences. `LeftFoldExists` turns one
  into a chain of steps, and the lemmas `KeptSteps`, `LaidSteps`, `RetainedSteps`
  and `LongestSteps` say for each what a step does.
- `FlattenBeginnings` says where each option starts in the flattened options. So the
  markers are the places of the first tokens of the options, which are mask tokens; no
  other token is one, because `sanitize` has removed them from every text, and
  none is cut, because a row whose fixed part does not fit is rejected. Other
  special tokens a text may give (`TextTokens`), so that nothing is said of where
  separators are not.
- The fixed part keeps within HeadMaxLen because each option keeps to its share,
  or the minimum of four tokens is reached, and the head gets the rest, or eight.
- The sums of a batch differ exactly when a row has lost a token (`SumsDiffer`).
- `ReferenceMatched` compares operation by operation: the rendering of each kind
  (`RenderingAgrees`), the cut options and head (`FittedOptionsAgree`,
  `FittedHeadAgrees`), the row with the markers found while it is laid out
  (`SequenceAgrees`), then padding and masks (`BatchAgrees`). What Go rejects and Python cuts
  is excluded by `~rejects`, which `IInv` carries for every item.

### Inductions

`DataLemmas` has the inductions these rest on. The library's induction theorems take an
operator as a parameter, which no prover here can instantiate; `SetInduction` states
induction with a set instead of a predicate, from the well-foundedness of the naturals
(`WFMin`). With it, `FlattenElements`, `FlattenSteps` and `FlattenBeginnings` say what
`FlattenSeq` computes, `SumsCompare` and `SumsDiffer` what sums of compared terms do, and
`LeftFoldExists` what a fold from the left is.

### Only model-checked

- Liveness and everything under fairness: beyond the prover.
- `DecodedAsWritten`: it is about what `Json` computes, by recursion over documents.
- `CalibrationMatchesReference`: it compares the decoded configuration with its document,
  for the same reason.

Every invariant that a run checks is also a theorem.

## 5. Findings

1. `initializeNamespace` removes the whole namespace when its last
   `syncDirectory` fails, after its marker has been published: a publication
   another process has made meanwhile is lost (`materialize_sync_failure`).
   "Published bundles are immutable and retained after the returned handle is
   closed" (`internal/source/materialize.go:47`).
2. A process that dies between `Mkdir(.laya-go)` and the rename of the marker
   leaves a namespace that no later open uses or repairs
   (`materialize_interrupted_init`). "Interrupted materialization: retry the same
   open" (`docs/source-operations.md:161`).
3. Options and instructions are cut to their budgets under every policy and
   before anything is counted, so `RejectOverflow` can succeed on a shortened
   question with `Truncated = false` (`preprocess_opt_in`). "Truncation is opt-in
   through `ModelOptions`" (`README.md:95`).

One more thing the model of the coordinator shows contradicts nothing the
repository says, and so is no finding: when `DisableTelemetry` and the
`DestroyEnvironment` after it both fail (`native_backend_enabled.go:128`),
the environment stays and the coordinator does not know of it, so that every
later acquire fails. `PendingCleanupHasOwner` says that this is the only environment
without an owner, and that nobody gets a lease on it.

Where the two languages differ, which no document of the repository denies, or only
in words that can be read either way:

- `encoding/json` accepts names of the agent configuration in another case (there is
  no `validateExactFields` for it), and Go's `ParseFloat` hexadecimal numerals; Python
  accepts blanks around a numeral. `CalibrationMatchesReference` leaves out exactly
  these (`ReadByBoth`, `ReadByOne`).
- A null in the manifest is let through by `validateExactFields` and decodes to the
  zero value, which is accepted where zero is valid (`special_tokens`).
- The paths of notices are free: one for each license, anywhere.
- Python cuts a sequence that is too long for its options; Go rejects it.
  `RowsMatchReference` compares what Go does not reject.
- Exact halves are rounded away from zero in Go and to even in Python, so that a
  rounded value may differ in its last digit where the unrounded one is an exact half.

The passing runs exclude exactly these findings: `NamespaceSyncFails = FALSE` in
`materialize_safety`, a namespace that exists in `materialize_liveness`.

## 6. Not modelled

- Digests, and floating-point arithmetic (softmax, entropy): data without control, or
  outside TLC. The upper bounds of the manifest on counts and lengths (16 licenses,
  256 files, 255 bytes of a path, depth 64) are single comparisons.
- Path, name and file-type checks of materialization and of snapshots (symbolic
  links that leave their root, modes, nested directories), and the copy of a bundle
  file by file (`stage.go`): `Materialize` has its beginning and its end.
- The tokenizer binding (cgo), the platform stubs, the parity corpus (a loader of test
  data), the Python exporter (offline, sequential), commands and examples (callers).

## 7. Plan

1. (done) `Admission`, `Model`, `ModelProofs`; `NativeCoordinator`, `Runtime`;
   `NativeModelEngine`; `Materialize`; `Preprocess`; `DirectorySource`; `Answers`,
   `Inference`, `Routing`.
2. (done) Native calls value by value; rendering of questions and parity with
   `Reference`; `Json`, `Bundle` and `Calibration`; `DataNodes`; `Workflow`.
3. (done) Proofs about `Runtime`, `NativeModelEngine`, `Materialize` and
   `DirectorySource`.
4. (done) The part of `Workflow` without `Bundle` as a module of its own, `Nodes`, with
   proofs of its five invariants; the inductions over sequences and sums they need, in
   `DataLemmas`.
5. (done) Proofs of the invariants of `Preprocess`, parity with the reference
   included; the checks of a manifest apart from the documents they read, with a proof of
   `DeclaredFilesAreTheArtifacts`; `Workflow` as one of the behaviours of `Nodes`.
6. Nested directories and snapshot layout in `DirectorySource`; the staging of one
   bundle in `Materialize` file by file; `Model` and `Runtime` closing together over
   one `NativeModelEngine`.
