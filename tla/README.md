# CheckScam in TLA+

CheckScam is an Android app that listens to phone calls on the device,
transcribes them with whisper.cpp, classifies the conversation with a llama
model and raises a local alert when it looks like a scam. This directory holds
TLA+ modules for its concurrent core, down to the decoder's cache and the threads
that compute its graphs, the TLC configurations that check them and the proofs
that hold for every size of the system.

Paths below are relative to `src/`; `CallAudioCoordinator.kt` and its neighbours
are in `app/src/main/java/com/checkscam/app/`.

## 1. The system

| Component | State it keeps | Operations | What is hard |
|---|---|---|---|
| `CallAudioCoordinator` | started, capturing, two collecting flags, two classifier flags, verdict flag, throttle, status | start, stop, onModelsImported, reaction to the call state, analysis, final verdict, notification analysis | coroutines on two dispatchers, a scope that is cancelled and replaced, a native call that cannot be interrupted |
| `CallStateManager` | call state | onStateReported, reset | three reporters, no common order |
| call detection (`CallDetectionService`, `CallStateWire`, three detectors) | wire, references, current window state, active notifications | start, stop, binds, telephony, window and notification callbacks | the system binds and calls back whenever it likes |
| `LlamaEngineImpl` + `llama-jni.cpp` | volatile flag, native model and context | initialize, classify, release | flag and model change in different critical sections |
| `TranscriptionCoordinator` + `WhisperEngineImpl` + `whisper-jni.cpp` | scope, accumulator, engineReady, native context | start, stop, init retry, chunk loop | sessions overlap, release blocks on a running transcription |
| `AudioCaptureService` / `AudioRecorderManager` | recorder, capture job, published state | start, stop, capture loop | early returns that still publish CAPTURING |
| llama.cpp decode and KV cache (`llama-context.cpp`, `llama-kv-cache-unified.cpp`, `llama-kv-cells.h`) | cells, used set, counts per sequence, head, tensors | llama_decode, seq_rm, seq_cp, seq_keep, clear | a tentative placement to undo, defragmentation, failures in the middle of a batch |
| ggml thread pool (`ggml-cpu.c`) | graph counter, barrier counters, chunk counter, flags | graph_compute, new, free, pause, resume | lock-free barrier and work claims, sleeping workers |
| `DiarizationPipeline` | accumulated text, last speaker | process, snapshot, reset | bounded flow, one object for all calls |
| `AlertManager` / `AlertHistoryStore` | last alert, history rows | showAlert, cancelActive, record | three unsynchronized callers |
| `ModelImporter` / `AssetModelCopier` | files in internal storage | import, copy | two writers of one file, crash in the middle |
| prompt builder, output parser, accumulator, log buffer | little or none | pure functions | bounds |

How they interact: the detectors call `CallStateManager.onStateReported` on the
main thread; the coordinator collects its state flow there and starts and stops
the audio service and the transcription; transcripts come back over a
`SharedFlow`, are appended to the diarization pipeline, which emits snapshots
over another `SharedFlow`; snapshots, the final verdict and message
notifications are classified on `Dispatchers.Default`; results write the status,
show alerts and insert rows. A classification tokenizes its prompt and drives
`llama_decode` one batch at a time; a decode fills cells of the KV cache and
computes a graph per micro-batch, for which ggml starts a pool of threads. The UI
starts and stops the detection service and the coordinator together.

What makes each part correct:

- coordinator: capture follows the call and is consumed; one verdict at a time,
  one per call; late results do not corrupt the status or raise alerts after a
  disable; disabling stops the microphone; the engine is there when it is used.
- detection: whatever the order of binds, a running service hears its detectors;
  a call under way is monitored and a finished one is not.
- engine: no use after free, no leak, one model, every call returns, the flag
  tells the truth.
- transcription: whatever starts, stops and imports do, a transcription has its
  model, old sessions end and a session that lasts gets its engine.
- decode and cache: a token attends to exactly its sequence's past, a failed
  batch leaves no trace, and a batch that fits finds room.
- thread pool: a graph reported as computed is complete, and every call returns.

The hazards behind these properties are listed, each at its line, in
`PROJECT.json`.

## 2. Modules

| Module | Models |
|---|---|
| `CallStateManager` | `CallState`, `validateTransition`: the constant part shared by the next two |
| `CallAudioCoordinator` | `CallAudioCoordinator.kt`, with the parts of the diarization pipeline, the state manager and the importer it touches |
| `MCCallAudioCoordinator` | two small instances of it |
| `CallAudioCoordinator_proofs` | theorems about it |
| `CallDetection` | the call-detection module of the app |
| `MCCallDetection` | a small instance of it |
| `CallDetection_proofs` | theorems about it |
| `ModelLifetime` | abstract specification: a model that is loaded, used and freed |
| `LlamaEngine` | `LlamaEngineImpl.kt` and `llama-jni.cpp` |
| `LlamaEngine_proofs` | theorems about it, and that it implements `ModelLifetime` |
| `Transcription` | `TranscriptionCoordinator.kt`, `PcmWindowAccumulator.kt`, `WhisperEngineImpl.kt`, `whisper-jni.cpp`, the whisper model file |
| `Transcription_proofs` | theorems about it, and that it implements `ModelLifetime` |
| `TokenCache` | abstract specification: a cache of decoded tokens by sequence and position |
| `KvCache` | the cells of the KV cache, as operators on a record |
| `KvCache_proofs` | theorems about those operators |
| `KvCacheInputs` | its two searches against their definitions, on every occupancy of six cells |
| `LlamaDecode` | `llama_context::decode` over `KvCache`, driven by `nativeClassify` or by any client |
| `MCLlamaDecode` | a small instance of it |
| `LlamaDecode_proofs` | theorems about it, and that it implements `TokenCache` |
| `NodeByNode` | abstract specification: a team computes a graph node by node |
| `GgmlThreadpool` | `ggml_graph_compute` and the secondary threads of `ggml-cpu.c` |
| `MCGgmlThreadpool` | a small instance of it |
| `GgmlThreadpool_proofs` | theorems about the team and its barrier, and that it implements `NodeByNode` |
| `GgmlThreadpoolWork_proofs` | theorems about what the team computes |

Names starting with `Mut` are deliberately wrong variants of the definition that
follows them. Nothing uses them; a property that still held with one in place of
the original would say nothing about the code.

### CallAudioCoordinator

- **Main thread.** The scope runs on `Dispatchers.Main.immediate`, so a turn of
  the main thread runs to its next suspension and is one action: `Enable`,
  `Disable`, `ReportState` (which includes the collector's reaction, resumed
  inline by the state flow), `TextProcessed`, `SnapshotTaken` (up to
  `withContext`), `AnalysisReturns` (after it).
- **Jobs.** Each `launch(Dispatchers.Default)` becomes a record in `jobs` with a
  kind, a program counter and the scope it belongs to; one step per access to
  shared state. The verdict's `finally` is three steps: it clears the flag,
  checks `capturing` and writes the status.
- **Scopes.** `stop()` cancels the current scope: a job that was not dispatched
  disappears, one that runs goes on (classify blocks and is not interrupted), a
  collector inside classify comes back to a cancelled coroutine. `start()`
  replaces the scope without cancelling it, which turns what `stop()` launched
  (the release of the model) into an orphan.
- **Collectors.** `transcribers` and `analyzers` are the subscriptions of the two
  shared flows, with their buffers. A stop of capture clears the flags but not
  the collectors, as in the code.
- **Data.** The conversation and the snapshots are counted in texts. `HeaderLen`,
  `MinNewChars` (60 characters in the code) and `SnapshotCap` (16) are
  parameters. The clock is `analysisDue`: the interval has elapsed or not.
- **Process death.** `AnalysisCrashes`: `classify` throws on a released engine
  and `maybeAnalyze` does not catch it; the process restarts with the model file
  and nothing else.
- `mic` is the last command sent to the audio service; `alertActive` is set by
  any result and cleared by `cancelActive`.

### CallDetection

All callbacks run on the main thread, so each is an action; what interleaves is
their order. Telephony callbacks are posted, hence `phoneQueue`. `phone` and
`posted` are the real call and the real notifications, `tracked` is
`activeNotifications`, `a11y.seen` is `currentState`. Keywords are abstracted to
what a text announces: a `CallKeys` notification announces a call, a `ChatKeys`
one does not; a window shows an incoming keyword, an active one (which may occur
without a call, for instance "dialer") or neither. A call waiting during a call
rings. A listener that is destroyed comes back as a new object that has tracked
nothing. `reporter` is a history
variable used by properties only.

### LlamaEngine and ModelLifetime

An operation reads `nativeInitialized`, enters JNI, takes `g_mutex`, works and
writes the flag after the mutex is released; each is a step. Every failing path
of the native code (model already loaded, load failure, context failure) is an
alternative. `nativeClassify`'s prompt and generation loop is one step inside the
mutex, whatever its early return. `copies` counts models allocated and not freed.
`ModelLifetime` knows only whether a model is loaded and who uses it; the mapping
is `loaded <- context` and `users <-` the threads in the generation loop.

### Transcription

- Each session is two coroutines, `initEngine[s]` and `collect[s]`, with one step
  per access to shared state; the main thread runs `stop()` against them in five
  steps. `start()` is one step: between its cancel and its launches nothing else
  can tell the difference.
- A native call under `g_mutex` is one step, except the transcription, whose
  beginning and end are two: the release and the load wait for it (`MutexFree`).
- `Cancelled(s)` is what a coroutine sees at its next cancellation point; they
  are where the code has them (`withContext`, `isActive`, a suspended receive),
  so that a stale collector takes chunks of a later session, and a stale
  initialization finishes and only then notices.
- The accumulator is an unsynchronized list. `list` is "racing" from when a
  collector or the reset of `stop()` meets another thread inside it until the last
  of them has left: an access then may leave any size, a stale one that a
  `clear()` had undone included, or throw. What a race has left is "damaged", and
  may throw later, until a reset by a thread that is alone. Audio is counted in
  chunks; `MaxBuffer` bounds the sizes a race may leave.
- The model file is absent at first: one that an earlier process installed is one
  imported before the first `start()`.
- The audio service is the environment: once it exists, its channel may get a
  chunk at any time, which covers a recorder that fails or sends one chunk late.
- `ImportModel` installs a file, valid or not, while the copier's failure path may
  delete it (`InitDeletes`).
- Texts and their emission are not modelled.
- `crossed` is a history variable used by properties only. `ModelLifetime` is
  reused: `loaded <- context`, `users <-` the sessions inside whisper.

### KvCache, LlamaDecode and TokenCache

- A cell has a position and a set of sequences. `used`, the counts `seq_pos` and
  `head` are kept beside the cells as in the code, and changed by the difference
  each operation makes, so that they could drift (`IndexesAgree`).
- `tensors[i]` is the token whose keys and values cell `i` holds: `Unwritten`
  until computed, `Lost` where a failed defragmentation graph, which is computed
  node by node, had not yet copied.
- `decode` is split where others could see the difference or where it can fail:
  `Start` (the checks of the batch and the assertion on `n_batch`), `Prepare`
  (slots for all micro-batches, tentative placement and restoration; the output
  buffer may then be refused), `Optimize`
  (defragmentation, then one more attempt), `Apply` and `Compute` or
  `ComputeFails` for each micro-batch. `Results` names the return codes;
  `aborted` is a failed `GGML_ASSERT`.
- Two clients, chosen in `Init`. The app clears the memory, sends a prompt in one
  batch and generates token by token (`Classify`, `Generate`, `StepDone`). A
  library client sends batches of several sequences, right and wrong, and edits
  the cache between decodes; it copies a sequence only into an empty one, which
  the note of `seq_add` in `llama-kv-cells.h` requires, and gives each token one
  sequence, in ascending positions. The check of `llama-batch.cpp` (l. 351) that
  would refuse descending ones never does, so `IndexesAgree` and what rests on it
  speak of clients that keep to this, as the app does.
- What the app's context does not have is left out: several streams, sliding
  windows, position shifts, `set_rows`, a defragmentation threshold, embeddings.
- `TokenCache` knows sequences, positions and the token decoded at each. The
  mapping takes the cells of the micro-batch being computed out (`Uncommitted`)
  and maps `pending` to what is left of the batch.

### GgmlThreadpool and NodeByNode

- One step per atomic operation; a section under the mutex is one step, except the
  kickoff, whose two stores polling threads can see between. Atomics are
  sequentially consistent in the model; the relaxed orders of the code are not
  explored. The build is the app's: no OpenMP (`scam-classifier`'s
  `CMakeLists.txt`, l. 18), no NUMA, no llamafile kernels.
- `persistent` chooses between the app's way (no pool is passed, so each call
  makes one and frees it) and a pool of the caller's, which can be paused. The
  number of threads a plan asks for does not change over the graphs of a pool.
- A matrix product has the chunk arithmetic of
  `ggml_compute_forward_mul_mat`; `Partition` is evaluated once for every product
  and team. `rms_norm` stands for the operations shared out by rows.
- A cond_wait may wake unasked (`SpuriousWake`); thread 0's abort callback may
  answer yes after any node.
- `NodeByNode` knows the team, how many nodes each has done and the limit an abort
  sets; the mapping reads `node`, and treats a worker that has not seen the new
  graph as one that has done nothing.

## 3. Runs

| Run | Checks | Shows |
|---|---|---|
| `coordinator_calls` | `TypeOK`, `VerdictExclusive`, `FirstSessionHasEngine`, `LateResultDropped` | two calls in one session, and its end |
| `coordinator_restart` | `CaptureFollowsCall`, `CaptureIsConsumed`, `StatusSettles`, `VerdictCompletes` | enable, disable, enable around two calls |
| `llama_engine` | `TypeOK`, `NoUseAfterFree`, `OneCopy`, `FlagTracksModel`, `CallsReturn`, `ImplementsLifetime` | three threads, six operations |
| `call_detection` | `TypeOK`, `LinkLands`, `NativeCallMonitored`, `HangUpEnds`, `AppCallKept` | native and app calls, restarts and rebinds |
| `speech` | `TypeOK`, `ImplementsLifetime`, `LoopsEnd`, `EngineComesUp` | two sessions, two stops, two chunks, one import |
| `llama_decode` | `TypeOK`, `IndexesAgree`, `AttendsToItsPast`, `AppBatchesFit`, `PrepareRestores`, `DecodeFindsRoom`, `CallsReturn`, `ImplementsTokenCache` | app and library client over five cells |
| `graph_compute` | `TypeOK`, `BarrierCounts`, `NoStrayWorker`, `PoolOutlivesThreads`, `ChunksReadQuantized`, `EveryElementOnce`, `SuccessIsComplete`, `CallsReturn`, `ImplementsNodeByNode` | up to three threads, two calls, two graphs |
| `coordinator_mic_off` | `MicOffWhenDisabled` (violated) | a disable during a call leaves the microphone on |
| `coordinator_single_collector` | `SingleCollector` (violated) | the second call has two collectors |
| `coordinator_every_call_judged` | `EveryCallJudged` (violated) | a call that ends during a verdict is not judged |
| `call_detection_native_call` | `NativeCallStaysActive` (violated) | a chat notification ends a native call |
| `llama_decode_long_prompt` | `ClassifyNeverAborts` (violated) | a prompt longer than `n_batch` aborts the process |

A violated property states what a comment or the repository's README says; the
findings in `PROJECT.json` quote the sentence and explain the counterexample.

### Bounds

- `Limit` bounds each kind of environment event. Calls: two toggles, four reported
  states (two calls with their ends), two texts, one message notification, no
  import, two collectors of each flow. Restart: three toggles, four reported
  states, two texts, one import, no message, one collector of each flow, so that a
  session has one call. Two instances rather than a larger one, because the
  interesting cases are a verdict of one call against the next call of the session,
  and a disable against everything in flight, with a call of the next session
  after it. Both have four jobs. In Restart a disable finds a verdict queued, or
  inside classify, and the release makes it throw; a verdict lost in the first
  session can leave the second on ANALYZING (without that exception TLC violates
  `StatusSettles`).
- `SnapshotCap = 1`, `HeaderLen = 1`, `MinNewChars = 2`: the first snapshot is
  worth analysing; the second is not, until it has grown. One snapshot can wait
  in a buffer for a collector inside classify.
- A launch needs a free slot. Slots are never the reason a property holds: the
  theorems of section 5 are proved for any number of them.
- Detection: three phone changes, toggles and binds, two windows, two posted
  notifications; one app with a call key and a chat key. Two notifications are
  enough for one call announced and one message. Unbinds and removals are
  bounded by the binds and posts before them.
- Transcription: two sessions are what can be stale and current; two stops let one
  hit each of them, or the same one twice (a call's end, then a disable). A chunk
  is a window (`Window = 1`, `Overlap = 0`; the code has 7 s and 1 s), so that two
  chunks give a transcription to each session or two to one. One import is enough
  to race one deletion. `MaxBuffer = 1`: a race leaves a window in the list or none.
- KV cache: five cells, micro-batches of two and batches of three tokens leave
  room for a batch of two micro-batches, holes and a full cache. The library
  client sends the empty batch, one of one sequence in one micro-batch, and ones of
  two micro-batches, of one sequence and of two interleaved (`MCOwners`); its
  positions stop at 2, generation after two tokens. `max_moves` is 1: with five cells
  two holes can need two moves, so a plan is cut short and the second attempt can
  fail with room left (without its second case TLC violates `DecodeFindsRoom`).
  `KvCacheInputs` evaluates `SlotSearch` and `Compaction` on every occupancy of six
  cells, with limits 1 and 6.
- Thread pool: three threads are needed for one that resets the barrier while one
  leaves it and one has not arrived. `MCGraphs` has a product with enough chunks to
  be claimed one by one, thin ones that leave threads without work, and a row-wise
  operation between two products; two calls let the second meet stragglers of the
  first.
- Engine: six operations among three threads. A lifecycle call racing another
  lifecycle call and a classification needs three; six let each thread come back.

Deadlock is not checked: users, callers and the system may stop at any time, and
the budgets run out.

### Fairness

- Coordinator: weak fairness of "some job takes a step" and of "some collector
  takes a step": the default dispatcher keeps running its coroutines and the main
  looper drains its queue. `classify` returns because its generation loop is
  bounded (`N_GEN_TOKENS_MAX`). Weak fairness of the disjunction promises no
  single job a turn; `VerdictCompletes` holds because the number of jobs is
  finite.
- Engine: weak fairness of each thread inside an operation. `std::mutex` promises
  no order among its waiters, so acquiring it is only weakly fair, and
  `CallsReturn` relies on the bound on operations: with an unbounded stream of
  callers a waiter may starve.
- Transcription: weak fairness of the steps of `stop()` and of each collector,
  strong fairness of each retry loop: a failed attempt sleeps a second without the
  lock of the lazy path, so that another coroutine gets it in the meantime.
- Decode: the calling thread runs; nobody has to call.
- Thread pool: weak fairness of every thread, of the caller inside a call and of
  the release of a disposable pool. A spurious wake-up is not fair.
- Detection: weak fairness of the delivery of telephony callbacks. The properties
  checked are safety properties and do not use it.
- Nothing is assumed of users, callers, detectors or the importer.

## 4. What the properties say

- `VerdictExclusive`, `VerdictCompletes`: `finalVerdictRunning` is a lock taken on
  the main thread and released on a worker. It excludes, and a verdict that was
  dispatched always releases it, also when detection is disabled under it and when
  classify throws on the released engine. (One that is cancelled before dispatch does not:
  `EveryCallJudged`.)
- `CaptureFollowsCall`, `CaptureIsConsumed`: the coordinator's flags and the state
  manager never disagree, across enabling in the middle of a call, crashes and
  restarts; and a capture always has somebody to read it.
- `StatusSettles`: three writers (stop of capture, analysis, verdict) in any order
  leave the dashboard on IDLE when no capture, analysis or verdict, queued or
  running, is left. It has one exception: `stop()` resets everything but
  `finalVerdictRunning`, so when it cancels a verdict before its dispatch the flag
  stays set in the sessions that follow; an analysis of theirs that begins after
  the end of a call then leaves ANALYZING for a verdict that does not exist
  (`VerdictLost`). It never happens in a first session or while disabled.
- `LateResultDropped`: an analysis that was in classify when detection was
  disabled does not alert. Verdict and notification jobs are not covered: they
  have no suspension point before the alert.
- `FirstSessionHasEngine`: until detection is first disabled, an analysis has its
  model. After a restart it need not: the orphaned release of the old session can
  run after the new session's initialization.
- `LinkLands`: the promise of `CallStateWire.kt`, l. 10-11.
- `NativeCallMonitored`, `HangUpEnds`, `AppCallKept`: what can and cannot start and
  end the monitoring of a call when three detectors speak. Each names the
  exceptions the code has.
- `FlagTracksModel`: with no overlap of lifecycle calls the flag is true exactly
  when a model is loaded. With an overlap it need not be: initialize loads and
  unlocks, release sees the flag of an earlier model, frees and clears, and the
  flag is then set by initialize over no model.
- `ImplementsLifetime` of `Transcription`: `stop()` waits for a running
  transcription before it frees the context. The flag read before the mutex is
  stale by then, and `TranscribeBegins` looks again.
- `LoopsEnd`: each loop, wherever the stop finds it, ends. It is the reason
  overlapping sessions do not accumulate. Collectors that keep racing inside the
  accumulator are excepted: a size written back may give them one more window.
- `EngineComesUp`: the comment at `WhisperEngineImpl.kt`, l. 33-35, says that
  however two initializations race, at most one loads the model. They do, and a
  session that lasts gets a true `engineReady`, with the exception the property
  names: a release that meets an initialization past its flag check can clear the
  flag over the new context, and each later attempt then fails because a context
  is there.
- `AttendsToItsPast`: the mask, the window and the moves of cells together: every
  token sees all of its own past and nothing else, computed from the tokens that
  were at those positions.
- `PrepareRestores`: two micro-batches may move the head from different places,
  and only the reverse order restores it.
- `DecodeFindsRoom`: a batch of one micro-batch is turned away only when fewer cells
  are free than it has tokens, or when the defragmentation made for it was cut
  short at `max_moves` and left the cells in pieces. The second case is real: the
  app's context has 4096 cells and some 14 moves (about 8/6 of the tensors of a
  layer), a scattered cache can need more, and `decode` tries only once. (`nativeClassify` never has to make room:
  `AppBatchesFit`.) It says nothing of larger batches, where it is false: slots are
  taken one after another from the head, which can leave the free cells in two
  pieces with no hole among the used ones for a defragmentation to fill.
- `AppBatchesFit`, `CallsReturn`: the app's decodes fail only if a computation
  does, and the loop ends. `ClassifyNeverAborts` is the exception found: `n_batch`.
- `ImplementsTokenCache`: rollback, defragmentation and edits never mix sequences.
- `BarrierCounts`, `NoStrayWorker`, `ChunksReadQuantized`, `EveryElementOnce`: the
  barrier's counters speak of the threads inside it, the parameters of a call are
  not touched while a worker can read them (the comment in `ggml_graph_compute`),
  and a product is neither read too early nor computed twice.
- `SuccessIsComplete`, `ImplementsNodeByNode`, `CallsReturn`, `PoolOutlivesThreads`:
  what the caller relies on.

## 5. Proofs

All theorems hold for every value of the constants allowed by
`CoordinatorAssumption`, `DetectionAssumption`, `EngineAssumption`,
`WindowAssumption`, `PoolAssumption`, `SizesAssumption` and `BatchAssumption`: any
number of threads, coroutines, calls, sessions, keys, graphs, cells and sequences,
and any sizes of matrices and batches. `PROJECT.json` lists which theorem
states which property of the runs. Each invariant was checked by TLC before it
was proved.

`LlamaEngine_proofs`. The invariant `IInv` has three parts. `Typed` is `TypeOK`
without the natural-number range of `copies`. `Memory` says what each program
counter implies about the mutex, the model and the context, and that `copies` is
1 or 0 with the model. `FlagKept` describes, for each step of a lifecycle call that
has not overlapped another, how the flag and the model differ. `NoUseAfterFree`,
`OneCopy` and `TypeOK` follow from the first two and `FlagTracksModel` from the
third. None of them is inductive alone: that a decoding thread has a context
depends on the mutex, and that nobody else holds the mutex depends on every
program counter. `StepRefines` maps each step to a step of `ModelLifetime` or a
stutter, and `EngineRefinesLifetime` concludes `Spec => ImplementsLifetime`.

`CallAudioCoordinator_proofs`. `TypeCorrect` goes action by action, with lemmas for
the slots (`FreeJobIsFree`, `FreeAfterCancelIsFree`, `FreeCollectorIsFree`).
`CaptureFollowsCall` is inductive given the types; so is
`VerdictExclusive`, restated over a job table (`Exclusive`) so that a step is
judged by who owns the flag before and after. `CaptureIsConsumed` is not:
`startCapturing` launches no collector when a flag says there is one. `ConsumerInv`
adds that the flags are set exactly while capturing. `StatusSettles` has two
halves. `WorkSettles`: the status is IDLE unless something is at work that will set
it, where a set flag counts as a verdict. `LossInv`: a set flag without a verdict
is found only after a disable, and with the coordinator disabled and on IDLE until
the next enable; and LISTENING is never shown without a capture.
`LateResultDropped` needs
`DisabledIsQuiet`: a disabled coordinator has no live collector, so a result that
reaches one belongs to a cancelled coroutine. `FirstSessionHasEngine` needs to
know who relies on the engine besides a collector inside classify (the ready flag,
an initialization past its load) and that the first session launched no release:
`FirstSessionInv`.

`CallDetection_proofs`. Three strengthenings, one per question. The wire is filled
exactly while the service runs (`WireFollowsService`), which with `LinkLands` is
inductive. The state machine lags behind the telephony queue, so
`NativeCallMonitored` and `HangUpEnds` need that the youngest queued callback is
the present state of the phone (`QueueEndsAtPhone`). What announces a call is
never tracked as a message (`AnnouncementsTracked`); with it each step keeps
`AppCallKept`.

`Transcription_proofs`. Nothing bounds the accumulator once threads have raced in
it. What can be said is that its size never becomes negative: `InsideAlone` says
that unless there is a race at most one collector is inside, and the one about to
cut a window has seen a whole one, which nobody has taken since. `TypedInv` adds it
to the types, and that sessions not started have no coroutines. The refinement of
`ModelLifetime` rests on the same invariant and the mutex.

`GgmlThreadpool_proofs`. The barrier is where everything is decided, and an
invariant of it alone is not inductive: a thread must not meet a barrier of
another node. `Lockstep` says that all threads of a team meet next at the same
barrier of the same node, where `Meeting(t)` is computed from a thread's place,
its node and, inside a barrier, from where it will continue; a worker that has not
seen the new graph is on its way to the first node. `Rounds` counts: the counter is
the number of threads waiting in the current round, and a thread closes a round
only when all the others wait in it. `Roles`, `Sizes`, `Workers`, `Places` and
`Aborts` say who may be where, that the size of a team changes only before its
first graph, and that an abort is seen by all at the node where they meet. The
conjunction is `TeamInv`; `TeamInductive` goes through the actions. `BarrierCounts`
and `NoStrayWorker` follow, `PoolOutlivesThreads` from `Roles` and `Sizes`.
`RefinesNodeByNode` maps each step to one of `NodeByNode` or a stutter: a thread
has done its share of a node when it moves on to the next, and `Lockstep` shows that
nobody is behind it then. `ReturnsBack`: a thread returns only from a barrier
that sends it there.

`GgmlThreadpoolWork_proofs`. `ChunksPartition` is about arithmetic: whatever the
sizes, number of threads and chunk sizes, each element of a product belongs to
exactly one chunk, the one `ChunkOf` computes by division, and no chunk reaches
outside the product. `WorkInv` says for the node the
team is at what is written: all of the nodes before it, nothing of those after it
(`Progress`); while `src1` is being converted, which threads have done their part
and hold their first chunk (`Filled`); during the product, that the chunks below the
shared counter are computed but those in a thread's hands, each in one thread's
(`Claimed`); the rows of those that are past (`Normed`). `EveryElementOnce`,
`ChunksReadQuantized` and `SuccessIsComplete` follow. It rests on `TeamInv`: that
the counter is not reset under a thread still claiming is the barrier's doing.

`KvCache_proofs`. `Sound` says that the indexes beside the cells agree with them
and that a sequence has at most one cell for a position; it is kept by each
operation under what its caller must guarantee: `SeqRm`, `SeqCp` into an empty
sequence, `SeqKeep`, `ApplyUbatch` into free cells and with tokens in no cell yet
(`Fresh`), `Mv` to an empty cell. Without `Fresh` the counts would exceed one, which
is why the checks of the batch matter to the cells. `FindSlotFinds` specifies the
circular search by its result: a slot it returns is a run of free cells, it returns
none only when there is no such run, and it takes the one at the head when there is
one there and the search starts at the head. `PlacingIsUndone` is the
argument of `prepare`: `PlaceInv` keeps, for each micro-batch placed, the cells that
taking it out again must reach, so that the restoration unwinds them newest first.
`DefragmentingMovesCells` first shows that the plan is one (`PlanOK`: used cells to
distinct empty ones), then that its moves do not disturb one another.
`DefragmentingPacks` adds what the moves achieve: when the plan is not cut short at
`max_moves`, the used cells end up in one piece from the first on. Its invariant over
the visits of the plan, `Packing`, says that moves are planned for the highest used
cells, one for each hole passed, so that at the end the holes among the first |used|
cells are exactly filled by the used cells behind them (`HolesCount`). `NothingToMove`
needs no such condition: whatever `max_moves`, a plan without a move means that the
used cells are in one piece, since the first hole gets a move and no later visit
takes it back (`FirstHoleMoves`, `HoleAddsMoves`, `VisitIdles`).

`LlamaDecode_proofs`. `Inv` is `TypeOK` and `Sound` with what a decode knows at each
of its phases: while it looks for slots its tokens are in no cell (`Searching`,
which follows from the checks of the batch), and once it has them they are disjoint
runs that stay free until they are used (`Placing`). Neither is needed by
`IndexesAgree` itself, but without them filling the slots would not keep `Sound`.
`PrepareRestores` follows from `Inv` and `PlacingIsUndone`.

Three more invariants rest on it. `AppCalls` says that the app's sequence fills
the cells from the first on, as far as the app has got, and that its batch continues
there; the cells after it are then one free run, which the search cannot
miss (`AppBatchesFit`). `Computed` says that a used cell outside the micro-batch under way was
computed for the position it has, or lost, and that the cells of that micro-batch
are filled from its tokens; `NKvCovers` shows that no used cell lies past the padded
window, and `AttendsToItsPast` follows. `Ahead` says that the tokens not taken in
yet come after everything the cells have of their sequences, in order. The
refinement needs it where a micro-batch fails: the roll-back cuts each of its
sequences from its first token there, and only `Ahead` tells that this is the
micro-batch and nothing before it. `StepRefines` takes the steps one by one and
`Refines` concludes `Spec => ImplementsTokenCache`.

`FindsRoom` is `DecodeFindsRoom`, for any number of cells and moves. `Room` says that
a decode tries to make room only after the search failed, and has not returned
while it is at work. By `NothingToMove` a decode that gives up before its second
attempt has its cells in one piece, and then, as after a defragmentation that
succeeded, a search that fails has too few free cells. `UncutPacks` says when a
defragmentation succeeds: the holes among the first cells are no more than
`max_moves`, or the used cells are one block.

What stays with TLC. Liveness under fairness is beyond this prover:
`VerdictCompletes`, `CallsReturn` of three modules, `LoopsEnd`, `EngineComesUp`. So
are the library's induction theorems, which take an operator as a parameter. The
recursive functions of the KV cache (placing, restoring, planning, moving, cutting)
are reasoned about by a lemma on functions over an interval in their stead, with a
set of states for each step (`CountUp` and `Recursion` in `KvCache_proofs`).
No module with a theorem
uses a RECURSIVE operator.

## 6. Not modelled

- llama.cpp, ggml and whisper.cpp beyond decode, cache and thread pool: model
  formats, graph builders, kernels, quantization, tokenizers, sampling. They are
  by far most of the repository's lines, and they are numbers and tables; a model
  of them would be a copy of them. `whisper_full` is one step.
- Of the cache: saving and loading state, several streams, sliding windows and
  position shifts, which the app's context does not use.
- The recorder (`AudioRecorderManager` start, stop, read errors) and the published
  capture state: `AudioRecord` decides them, and composed with the sessions they
  are beyond what TLC explores in minutes. `Transcription` allows every order of
  chunks instead.
- The order in which transcripts are emitted, each by a coroutine of its own, and
  which call a text belongs to: the coordinator counts texts.
- Alerts and the history row written after one, prompts, results and their
  parsing, copy loops and magic numbers, logging, Compose screens, the Android
  framework, the Python training scripts.

## 7. Plan

Every safety property of the passing runs is stated by a theorem. Left for later: the
order in which transcripts are emitted and the call a text belongs to, and the
recorder's start and stop, in models small enough to be composed with the sessions.
