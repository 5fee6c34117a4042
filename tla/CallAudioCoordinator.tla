------------------------- MODULE CallAudioCoordinator -------------------------
(***************************************************************************)
(* CallAudioCoordinator.kt: the object that turns the call state into      *)
(* capturing, feeds transcripts to the diarization pipeline, classifies    *)
(* the growing conversation during the call and once more at its end.      *)
(*                                                                         *)
(* Two kinds of actors take steps:                                         *)
(*  - the main thread: the UI (Enable, Disable, OnModelsImported), the     *)
(*    call state collector, the transcript and analysis collectors and the *)
(*    notification hook.  A main-thread turn runs to its next suspension,  *)
(*    so it is one action;                                                 *)
(*  - jobs on Dispatchers.Default: classifier initialisation, its release, *)
(*    the end-of-call verdict, the analysis of a notification.  A job is a *)
(*    record with a program counter and takes one step per shared access.  *)
(*                                                                         *)
(* A job or collector belongs to the coroutine scope it was launched in.   *)
(* stop() cancels the current scope: a job not yet dispatched never runs,  *)
(* a running one is not interrupted (classify blocks) but sees the         *)
(* cancellation at its next suspension point.                              *)
(***************************************************************************)
EXTENDS Naturals, Sequences, FiniteSets, CallStateManager

CONSTANTS
    JobIds,         \* slots for background jobs
    CollectorIds,   \* slots for SharedFlow collectors
    SnapshotCap,    \* extraBufferCapacity of DiarizationPipeline.output
    HeaderLen,      \* length of the snapshot header, in texts
    MinNewChars,    \* MIN_NEW_CHARS, in texts
    Limit           \* bound on each kind of environment event

Events == {"report", "toggle", "import", "text", "notification"}

ASSUME CoordinatorAssumption ==
    /\ SnapshotCap \in Nat \ {0}
    /\ HeaderLen \in Nat
    /\ MinNewChars \in Nat \ {0}
    /\ Limit \in [Events -> Nat]

VARIABLES
    callState,              \* CallDetectionService.stateFlow
    started,                \* detection enabled
    capturing,
    collectingTranscripts,
    collectingAnalysis,
    classifierInitStarted,
    classifierReady,
    finalVerdictRunning,
    analysisDue,            \* MIN_ANALYSIS_INTERVAL_MS elapsed since lastAnalysisAtMs
    lastAnalyzed,           \* length of lastAnalyzedSnapshot
    status,                 \* PipelineStatus shown on the dashboard
    mic,                    \* last command given to AudioCaptureService
    sttRunning,             \* TranscriptionCoordinator between start() and stop()
    conversation,           \* texts accumulated in the diarization pipeline
    transcribers,           \* collectors of TranscriptionCoordinator.transcriptions
    analyzers,              \* collectors of DiarizationPipeline.output
    jobs,                   \* coroutines on Dispatchers.Default
    engineLoaded,           \* the llama model is in memory
    modelFile,              \* the .gguf file is in internal storage
    alertActive,            \* an alert notification is on screen
    spent                   \* environment events so far, bounded by Limit

captureVars == <<capturing, mic, sttRunning>>
collectorVars == <<collectingTranscripts, collectingAnalysis, transcribers>>
analysisVars == <<analysisDue, lastAnalyzed, analyzers>>
classifierVars == <<classifierInitStarted, classifierReady>>
worldVars == <<engineLoaded, modelFile, alertActive>>

vars == <<callState, started, captureVars, collectorVars, analysisVars,
          classifierVars, finalVerdictRunning, status, conversation, jobs,
          worldVars, spent>>

NoJob == [kind |-> "none", pc |-> "done", scope |-> "orphan"]
NoTranscriber == [on |-> FALSE, inbox |-> 0]
NoAnalyzer == [pc |-> "off", inbox |-> <<>>]

Job == [kind : {"none", "init", "release", "verdict", "notification"},
        pc : {"queued", "absent", "loading", "loaded", "failed", "classifying",
              "finally", "checking", "settling", "done"},
        scope : {"current", "cancelled", "orphan"}]
Transcriber == [on : BOOLEAN, inbox : Nat]
Analyzer == [pc : {"off", "idle", "classifying", "cancelled"},
             inbox : Seq(Nat)]
Statuses == {"IDLE", "LISTENING", "ANALYZING"}

TypeOK ==
    /\ callState \in CallStates
    /\ started \in BOOLEAN
    /\ capturing \in BOOLEAN
    /\ collectingTranscripts \in BOOLEAN
    /\ collectingAnalysis \in BOOLEAN
    /\ classifierInitStarted \in BOOLEAN
    /\ classifierReady \in BOOLEAN
    /\ finalVerdictRunning \in BOOLEAN
    /\ analysisDue \in BOOLEAN
    /\ sttRunning \in BOOLEAN
    /\ engineLoaded \in BOOLEAN
    /\ modelFile \in BOOLEAN
    /\ alertActive \in BOOLEAN
    /\ lastAnalyzed \in Nat
    /\ conversation \in Nat
    /\ status \in Statuses
    /\ mic \in {"START", "STOP"}
    /\ transcribers \in [CollectorIds -> Transcriber]
    /\ analyzers \in [CollectorIds -> Analyzer]
    /\ jobs \in [JobIds -> Job]
    /\ spent \in [Events -> Nat]

-------------------------------------------------------------------------------
Init ==
    /\ callState = "IDLE"
    /\ started = FALSE
    /\ capturing = FALSE
    /\ collectingTranscripts = FALSE
    /\ collectingAnalysis = FALSE
    /\ classifierInitStarted = FALSE
    /\ classifierReady = FALSE
    /\ finalVerdictRunning = FALSE
    /\ analysisDue = TRUE
    /\ lastAnalyzed = 0
    /\ status = "IDLE"
    /\ mic = "STOP"
    /\ sttRunning = FALSE
    /\ conversation = 0
    /\ transcribers = [c \in CollectorIds |-> NoTranscriber]
    /\ analyzers = [c \in CollectorIds |-> NoAnalyzer]
    /\ jobs = [j \in JobIds |-> NoJob]
    /\ engineLoaded = FALSE
    /\ alertActive = FALSE
    /\ modelFile \in BOOLEAN
    /\ spent = [e \in Events |-> 0]

Spend(e) ==
    /\ spent[e] < Limit[e]
    /\ spent' = [spent EXCEPT ![e] = @ + 1]

IsFreeJob(j) == jobs[j] = NoJob
FreeJob == CHOOSE j \in JobIds : IsFreeJob(j)
JobSlotLeft == \E j \in JobIds : IsFreeJob(j)

\* scope.launch(Dispatchers.Default) { ... }
Launched(kind) == [kind |-> kind, pc |-> "queued", scope |-> "current"]

FreeTranscriber == CHOOSE c \in CollectorIds : ~transcribers[c].on
FreeAnalyzer == CHOOSE c \in CollectorIds : analyzers[c].pc = "off"
CollectorSlotsLeft ==
    /\ \E c \in CollectorIds : ~transcribers[c].on
    /\ \E c \in CollectorIds : analyzers[c].pc = "off"

IsLive(c) == analyzers[c].pc \in {"idle", "classifying"}

-------------------------------------------------------------------------------
(***************************************************************************)
(* Capture follows the call state.                                         *)
(***************************************************************************)

StartCapturing ==
    /\ ~capturing
    /\ CollectorSlotsLeft
    /\ capturing' = TRUE
    /\ mic' = "START"
    /\ sttRunning' = TRUE
    /\ status' = "LISTENING"
    /\ collectingTranscripts' = TRUE
    /\ transcribers' = IF collectingTranscripts THEN transcribers
                       ELSE [transcribers EXCEPT ![FreeTranscriber] =
                                [on |-> TRUE, inbox |-> 0]]
    /\ collectingAnalysis' = TRUE
    /\ IF collectingAnalysis
       THEN UNCHANGED analysisVars
       ELSE /\ analysisDue' = TRUE
            /\ lastAnalyzed' = 0
            /\ analyzers' = [analyzers EXCEPT ![FreeAnalyzer] =
                                [pc |-> "idle", inbox |-> <<>>]]

MutCollectingCleared_Forgotten ==
    UNCHANGED <<collectingTranscripts, collectingAnalysis>>

CollectingCleared ==
    /\ collectingTranscripts' = FALSE
    /\ collectingAnalysis' = FALSE

MutVerdictDue_NoExclusion ==
    /\ conversation > 0
    /\ classifierReady

\* analyzeFinalVerdict's early returns.
VerdictDue ==
    /\ ~finalVerdictRunning
    /\ conversation > 0
    /\ classifierReady

StopCapturing ==
    /\ capturing
    /\ capturing' = FALSE
    /\ mic' = "STOP"
    /\ sttRunning' = FALSE
    /\ CollectingCleared
    /\ conversation' = 0
    /\ UNCHANGED <<transcribers, analysisVars>>
    /\ IF VerdictDue
       THEN /\ JobSlotLeft
            /\ finalVerdictRunning' = TRUE
            /\ status' = "ANALYZING"
            /\ jobs' = [jobs EXCEPT ![FreeJob] = Launched("verdict")]
       ELSE /\ status' = "IDLE"
            /\ UNCHANGED <<finalVerdictRunning, jobs>>

\* The state collector's reaction to a value of the call state.  It runs
\* inline in the turn that set the value (Dispatchers.Main.immediate).
CollectorReacts(s) ==
    \/ /\ s \in ActiveStates
       /\ StartCapturing
       /\ UNCHANGED <<conversation, finalVerdictRunning, jobs>>
    \/ /\ s \notin ActiveStates
       /\ StopCapturing
    \/ /\ (s \in ActiveStates) <=> capturing
       /\ UNCHANGED <<captureVars, collectorVars, analysisVars, conversation,
                      finalVerdictRunning, status, jobs>>

\* A detector reports a state.  Also possible while disabled: the bound
\* services keep their reference to the state manager.
ReportState(s) ==
    /\ ValidTransition(callState, s)
    /\ Spend("report")
    /\ callState' = s
    /\ IF started
       THEN CollectorReacts(s)
       ELSE UNCHANGED <<captureVars, collectorVars, analysisVars, conversation,
                        finalVerdictRunning, status, jobs>>
    /\ UNCHANGED <<started, classifierVars, worldVars>>

-------------------------------------------------------------------------------
(***************************************************************************)
(* Enabling and disabling detection (MainActivity calls the detection      *)
(* service and the coordinator together).                                  *)
(***************************************************************************)

\* start() replaces the scope without cancelling it: what stop() launched in
\* the old one (the release of the model) goes on as an orphan.
Orphaned(job) == IF job.scope = "current" THEN [job EXCEPT !.scope = "orphan"]
                 ELSE job

MutCaptureOnEnable_WaitsForChange ==
    UNCHANGED <<captureVars, collectorVars, analysisVars, status>>

\* The state flow replays its current value to the new collector.
CaptureOnEnable ==
    IF callState \in ActiveStates
    THEN StartCapturing
    ELSE UNCHANGED <<captureVars, collectorVars, analysisVars, status>>

Enable ==
    /\ ~started
    /\ Spend("toggle")
    /\ started' = TRUE
    /\ IF classifierInitStarted
       THEN /\ jobs' = [j \in JobIds |-> Orphaned(jobs[j])]
            /\ UNCHANGED classifierInitStarted
       ELSE /\ JobSlotLeft
            /\ jobs' = [[j \in JobIds |-> Orphaned(jobs[j])]
                            EXCEPT ![FreeJob] = Launched("init")]
            /\ classifierInitStarted' = TRUE
    /\ CaptureOnEnable
    /\ UNCHANGED <<callState, classifierReady, finalVerdictRunning,
                   conversation, worldVars>>

\* scope.cancel(): a job not yet dispatched is gone, a running one goes on.
Cancelled(job) ==
    IF job.scope # "current" THEN job
    ELSE IF job.pc = "queued" THEN NoJob
    ELSE [job EXCEPT !.scope = "cancelled"]

MutCancelledAnalyzer_StillLive(a) == a

\* A collector suspended on its flow is gone.  One inside classify comes back
\* to a cancelled coroutine.
CancelledAnalyzer(a) ==
    IF a.pc \in {"classifying", "cancelled"}
    THEN [pc |-> "cancelled", inbox |-> <<>>]
    ELSE NoAnalyzer

\* A slot that is free once the scope is cancelled, for the release job.
CancelledJobs == [j \in JobIds |-> Cancelled(jobs[j])]
FreeAfterCancel == CHOOSE j \in JobIds : CancelledJobs[j] = NoJob

\* onDisable: CallAudioCoordinator.stop(), then CallDetectionService.stop(),
\* which resets the call state.  The audio service gets no command and the
\* diarization pipeline is not reset.
Disable ==
    /\ started
    /\ \E j \in JobIds : CancelledJobs[j] = NoJob
    /\ Spend("toggle")
    /\ started' = FALSE
    /\ capturing' = FALSE
    /\ CollectingCleared
    /\ transcribers' = [c \in CollectorIds |-> NoTranscriber]
    /\ analyzers' = [c \in CollectorIds |-> CancelledAnalyzer(analyzers[c])]
    /\ sttRunning' = FALSE
    /\ alertActive' = FALSE
    /\ jobs' = [CancelledJobs EXCEPT ![FreeAfterCancel] = Launched("release")]
    /\ classifierInitStarted' = FALSE
    /\ classifierReady' = FALSE
    /\ status' = "IDLE"
    /\ callState' = "IDLE"
    /\ UNCHANGED <<mic, analysisDue, lastAnalyzed, finalVerdictRunning,
                   conversation, engineLoaded, modelFile>>

-------------------------------------------------------------------------------
(***************************************************************************)
(* Loading and releasing the classifier.                                   *)
(***************************************************************************)

\* ModelImporter has put the .gguf in place (on Dispatchers.IO) ...
ModelFileAppears ==
    /\ ~modelFile
    /\ modelFile' = TRUE
    /\ UNCHANGED <<callState, started, captureVars, collectorVars, analysisVars,
                   classifierVars, finalVerdictRunning, status, conversation,
                   jobs, engineLoaded, alertActive, spent>>

\* ... and the UI tells the coordinator, on the main thread.
OnModelsImported ==
    /\ modelFile
    /\ Spend("import")
    /\ IF ~started \/ classifierReady \/ classifierInitStarted
       THEN UNCHANGED <<jobs, classifierInitStarted>>
       ELSE /\ JobSlotLeft
            /\ jobs' = [jobs EXCEPT ![FreeJob] = Launched("init")]
            /\ classifierInitStarted' = TRUE
    /\ UNCHANGED <<callState, started, captureVars, collectorVars, analysisVars,
                   classifierReady, finalVerdictRunning, status, conversation,
                   worldVars>>

At(j, kind, pc) == jobs[j].kind = kind /\ jobs[j].pc = pc
Goto(j, pc) == jobs' = [jobs EXCEPT ![j].pc = pc]
Finish(j) == jobs' = [jobs EXCEPT ![j] = NoJob]

\* What a job step that only loads, releases or reports leaves alone.
pipelineVars == <<callState, started, captureVars, collectorVars, analysisVars,
                  status, conversation, spent>>

InitChecksModel(j) ==
    /\ At(j, "init", "queued")
    /\ Goto(j, IF modelFile THEN "loading" ELSE "absent")
    /\ UNCHANGED <<pipelineVars, classifierVars, finalVerdictRunning, worldVars>>

InitGivesUp(j) ==
    /\ At(j, "init", "absent")
    /\ classifierInitStarted' = FALSE
    /\ Finish(j)
    /\ UNCHANGED <<pipelineVars, classifierReady, finalVerdictRunning, worldVars>>

\* LlamaEngineImpl.initialize throws on an engine already initialized; it may
\* also fail on its own (copy error, bad file).
InitLoads(j) ==
    /\ At(j, "init", "loading")
    /\ \/ /\ ~engineLoaded
          /\ engineLoaded' = TRUE
          /\ Goto(j, "loaded")
       \/ /\ UNCHANGED engineLoaded
          /\ Goto(j, "failed")
    /\ UNCHANGED <<pipelineVars, classifierVars, finalVerdictRunning, modelFile,
                   alertActive>>

MutLoadSucceeded_Assumed(j) == TRUE

LoadSucceeded(j) == jobs[j].pc = "loaded"

InitReports(j) ==
    /\ At(j, "init", "loaded") \/ At(j, "init", "failed")
    /\ classifierReady' = LoadSucceeded(j)
    /\ classifierInitStarted' = FALSE
    /\ Finish(j)
    /\ UNCHANGED <<pipelineVars, finalVerdictRunning, worldVars>>

ReleaseRuns(j) ==
    /\ At(j, "release", "queued")
    /\ engineLoaded' = FALSE
    /\ Finish(j)
    /\ UNCHANGED <<pipelineVars, classifierVars, finalVerdictRunning, modelFile,
                   alertActive>>

-------------------------------------------------------------------------------
(***************************************************************************)
(* The text path: transcripts, the conversation, throttled analysis.       *)
(***************************************************************************)

\* A transcribed window is emitted to every collector of the shared flow.
TextTranscribed ==
    /\ sttRunning
    /\ Spend("text")
    /\ transcribers' = [c \in CollectorIds |->
            IF transcribers[c].on THEN [transcribers[c] EXCEPT !.inbox = @ + 1]
            ELSE transcribers[c]]
    /\ UNCHANGED <<callState, started, captureVars, collectingTranscripts,
                   collectingAnalysis, analysisVars, classifierVars,
                   finalVerdictRunning, status, conversation, jobs, worldVars>>

\* tryEmit: nobody gets the snapshot when the slowest collector's buffer is full.
SnapshotFits ==
    \A c \in CollectorIds : IsLive(c) => Len(analyzers[c].inbox) < SnapshotCap

Offered(c, snapshot) ==
    IF IsLive(c) /\ SnapshotFits
    THEN [analyzers[c] EXCEPT !.inbox = Append(@, snapshot)]
    ELSE analyzers[c]

MutHasText_Unchecked(c) == transcribers[c].on

HasText(c) == transcribers[c].on /\ transcribers[c].inbox > 0

\* DiarizationPipeline.process, called by one transcript collector.
TextProcessed(c) ==
    /\ HasText(c)
    /\ transcribers' = [transcribers EXCEPT ![c].inbox = @ - 1]
    /\ conversation' = conversation + 1
    /\ analyzers' = [d \in CollectorIds |-> Offered(d, conversation + 1)]
    /\ UNCHANGED <<callState, started, captureVars, collectingTranscripts,
                   collectingAnalysis, analysisDue, lastAnalyzed, classifierVars,
                   finalVerdictRunning, status, jobs, worldVars, spent>>

SnapshotLength(snapshot) == HeaderLen + snapshot

WorthAnalyzing(snapshot) ==
    /\ classifierReady
    /\ analysisDue
    /\ SnapshotLength(snapshot) >= lastAnalyzed + MinNewChars

HasSnapshot(c) == analyzers[c].pc = "idle" /\ analyzers[c].inbox # <<>>

\* maybeAnalyze up to withContext.
SnapshotTaken(c) ==
    /\ HasSnapshot(c)
    /\ LET snapshot == Head(analyzers[c].inbox)
           rest == Tail(analyzers[c].inbox)
       IN \/ /\ ~WorthAnalyzing(snapshot)
             /\ analyzers' = [analyzers EXCEPT ![c].inbox = rest]
             /\ UNCHANGED <<analysisDue, lastAnalyzed, status>>
          \/ /\ WorthAnalyzing(snapshot)
             /\ analyzers' = [analyzers EXCEPT ![c] =
                                 [pc |-> "classifying", inbox |-> rest]]
             /\ analysisDue' = FALSE
             /\ lastAnalyzed' = SnapshotLength(snapshot)
             /\ status' = "ANALYZING"
    /\ UNCHANGED <<callState, started, captureVars, collectorVars, classifierVars,
                   finalVerdictRunning, conversation, jobs, worldVars, spent>>

IntervalElapses ==
    /\ ~analysisDue
    /\ analysisDue' = TRUE
    /\ UNCHANGED <<callState, started, captureVars, collectorVars, lastAnalyzed,
                   analyzers, classifierVars, finalVerdictRunning, status,
                   conversation, jobs, worldVars, spent>>

MutStatusAfterAnalysis_IgnoresVerdict(old) ==
    IF capturing THEN "LISTENING" ELSE old

StatusAfterAnalysis(old) ==
    IF capturing THEN "LISTENING"
    ELSE IF finalVerdictRunning THEN old ELSE "IDLE"

\* withContext returns: the rest of maybeAnalyze.  alertActive' may become TRUE
\* (a dangerous result); the history record that follows is not modelled here.
AnalysisReturns(c) ==
    /\ analyzers[c].pc = "classifying"
    /\ engineLoaded
    /\ status' = StatusAfterAnalysis(status)
    /\ analyzers' = [analyzers EXCEPT ![c].pc = "idle"]
    /\ alertActive' \in {alertActive, TRUE}
    /\ UNCHANGED <<callState, started, captureVars, collectorVars, analysisDue,
                   lastAnalyzed, classifierVars, finalVerdictRunning,
                   conversation, jobs, engineLoaded, modelFile, spent>>

\* withContext returns to a cancelled coroutine: CancellationException, even
\* when classify threw.
CancelledAnalysisReturns(c) ==
    /\ analyzers[c].pc = "cancelled"
    /\ analyzers' = [analyzers EXCEPT ![c] = NoAnalyzer]
    /\ UNCHANGED <<callState, started, captureVars, collectorVars, analysisDue,
                   lastAnalyzed, classifierVars, finalVerdictRunning, status,
                   conversation, jobs, worldVars, spent>>

\* classify finds the engine released and throws; maybeAnalyze does not catch,
\* so the exception reaches the main thread's handler and the process dies.
AnalysisCrashes(c) ==
    /\ analyzers[c].pc = "classifying"
    /\ ~engineLoaded
    /\ callState' = "IDLE" /\ status' = "IDLE" /\ mic' = "STOP"
    /\ started' = FALSE /\ capturing' = FALSE /\ sttRunning' = FALSE
    /\ collectingTranscripts' = FALSE /\ collectingAnalysis' = FALSE
    /\ classifierInitStarted' = FALSE /\ classifierReady' = FALSE
    /\ finalVerdictRunning' = FALSE /\ analysisDue' = TRUE
    /\ lastAnalyzed' = 0 /\ conversation' = 0
    /\ transcribers' = [d \in CollectorIds |-> NoTranscriber]
    /\ analyzers' = [d \in CollectorIds |-> NoAnalyzer]
    /\ jobs' = [j \in JobIds |-> NoJob]
    /\ engineLoaded' = FALSE /\ alertActive' = FALSE
    /\ UNCHANGED <<modelFile, spent>>

-------------------------------------------------------------------------------
(***************************************************************************)
(* The end-of-call verdict and the analysis of message notifications.      *)
(***************************************************************************)

\* analyzeNotificationText, on the main thread, also when disabled.
NotificationArrives ==
    /\ classifierReady
    /\ JobSlotLeft
    /\ Spend("notification")
    /\ jobs' = [jobs EXCEPT ![FreeJob] = Launched("notification")]
    /\ UNCHANGED <<callState, started, captureVars, collectorVars, analysisVars,
                   classifierVars, finalVerdictRunning, status, conversation,
                   worldVars>>

IsClassification(j) == jobs[j].kind \in {"verdict", "notification"}

JobBegins(j) ==
    /\ IsClassification(j)
    /\ jobs[j].pc = "queued"
    /\ Goto(j, "classifying")
    /\ UNCHANGED <<pipelineVars, classifierVars, finalVerdictRunning, worldVars>>

MutAfterClassify_NoFinally(j) == Finish(j)

AfterClassify(j) ==
    IF jobs[j].kind = "verdict" THEN Goto(j, "finally") ELSE Finish(j)

\* classify throws on a released engine (caught), finds nothing, or finds a scam
\* and the alert is shown.  The notification job ends here.
JobClassifies(j) ==
    /\ IsClassification(j)
    /\ jobs[j].pc = "classifying"
    /\ alertActive' \in {alertActive, alertActive \/ engineLoaded}
    /\ AfterClassify(j)
    /\ UNCHANGED <<pipelineVars, classifierVars, finalVerdictRunning,
                   engineLoaded, modelFile>>

\* finally { finalVerdictRunning = false ...
VerdictClearsFlag(j) ==
    /\ At(j, "verdict", "finally")
    /\ finalVerdictRunning' = FALSE
    /\ Goto(j, "checking")
    /\ UNCHANGED <<pipelineVars, classifierVars, worldVars>>

\* ... if (!capturing) ...
VerdictChecksCapture(j) ==
    /\ At(j, "verdict", "checking")
    /\ IF capturing THEN Finish(j) ELSE Goto(j, "settling")
    /\ UNCHANGED <<pipelineVars, classifierVars, finalVerdictRunning, worldVars>>

\* ... _status.value = IDLE }
VerdictSetsIdle(j) ==
    /\ At(j, "verdict", "settling")
    /\ status' = "IDLE"
    /\ Finish(j)
    /\ UNCHANGED <<callState, started, captureVars, collectorVars, analysisVars,
                   classifierVars, finalVerdictRunning, conversation, worldVars,
                   spent>>

-------------------------------------------------------------------------------
UserStep == Enable \/ Disable \/ OnModelsImported \/ ModelFileAppears

InitStep(j) ==
    InitChecksModel(j) \/ InitGivesUp(j) \/ InitLoads(j) \/ InitReports(j)

ClassificationStep(j) ==
    \/ JobBegins(j) \/ JobClassifies(j)
    \/ VerdictClearsFlag(j) \/ VerdictChecksCapture(j) \/ VerdictSetsIdle(j)

JobStep(j) == InitStep(j) \/ ReleaseRuns(j) \/ ClassificationStep(j)

AnalyzerStep(c) ==
    \/ SnapshotTaken(c) \/ AnalysisReturns(c)
    \/ CancelledAnalysisReturns(c) \/ AnalysisCrashes(c)

Next ==
    \/ UserStep
    \/ \E s \in CallStates : ReportState(s)
    \/ TextTranscribed
    \/ IntervalElapses
    \/ NotificationArrives
    \/ \E c \in CollectorIds : TextProcessed(c) \/ AnalyzerStep(c)
    \/ \E j \in JobIds : JobStep(j)

\* The dispatcher keeps running jobs (classify returns: the generation loop is
\* bounded) and the main looper drains its queue; users, callers and detectors
\* owe nothing.
Fairness ==
    /\ WF_vars(\E j \in JobIds : JobStep(j))
    /\ WF_vars(\E c \in CollectorIds : TextProcessed(c) \/ AnalyzerStep(c))

Spec == Init /\ [][Next]_vars /\ Fairness

-------------------------------------------------------------------------------
(***************************************************************************)
(* Properties.                                                             *)
(***************************************************************************)

\* A verdict whose finally has not yet cleared the flag.
OwnsFlag(j) ==
    jobs[j].kind = "verdict" /\ jobs[j].pc \notin {"checking", "settling"}

\* finalVerdictRunning (l. 322) keeps end-of-call classifications apart: two
\* verdict coroutines never coexist, and the flag covers one until its finally.
VerdictExclusive ==
    /\ \A i, j \in JobIds : OwnsFlag(i) /\ OwnsFlag(j) => i = j
    /\ \A j \in JobIds : OwnsFlag(j) => finalVerdictRunning

\* While detection is enabled the microphone follows the call: capturing holds
\* exactly in an active call state; while disabled nothing captures (l. 94-116,
\* 171-174, 298-301, 369-374).
CaptureFollowsCall ==
    IF started THEN capturing <=> callState \in ActiveStates ELSE ~capturing

\* A capturing coordinator has the whole chain behind it: the audio service was
\* told to start, transcription runs, and both flows have a live collector.
CaptureIsConsumed ==
    IF capturing
    THEN /\ mic = "START"
         /\ sttRunning
         /\ \E c \in CollectorIds : transcribers[c].on
         /\ \E c \in CollectorIds : IsLive(c)
    ELSE ~sttRunning

\* Nothing captures, analyses or judges: no collector is inside classify and no
\* end-of-call verdict is queued, classifying or on its way out.
Quiet ==
    /\ ~capturing
    /\ \A c \in CollectorIds : analyzers[c].pc # "classifying"
    /\ \A j \in JobIds : jobs[j].kind # "verdict"

\* In a session after the first, finalVerdictRunning is set and no verdict will
\* clear it: stop() cancelled one before it was dispatched (l. 375), and neither
\* stop() nor start() resets the flag.
VerdictLost ==
    /\ spent["toggle"] > 2
    /\ finalVerdictRunning
    /\ \A j \in JobIds : jobs[j].kind # "verdict"

\* Once nothing captures, analyses or judges, the dashboard shows IDLE, whatever
\* the order of the late results (l. 226-230, 360-365), in the first session and
\* until it is over without exception.  In a later one that inherited a lost
\* verdict it may stay on ANALYZING: l. 228 then trusts a flag nobody clears.
StatusSettles ==
    Quiet => \/ status = "IDLE"
             \/ VerdictLost /\ status = "ANALYZING"

\* A mid-call result that comes back after detection was disabled is dropped:
\* while disabled only a background job can still raise an alert.
LateResultDropped ==
    [][~started /\ jobs' = jobs /\ alertActive' => alertActive]_vars

\* A verdict whose coroutine was dispatched runs to its finally, also when
\* detection is disabled under it, so the flag that blocks the next verdict clears.
VerdictCompletes ==
    (\E j \in JobIds : OwnsFlag(j) /\ jobs[j].pc # "queued")
        ~> ~finalVerdictRunning

\* In the first session of a process an analysis never loses its engine, so the
\* process never dies in classify (l. 220-221).  After a restart it may: the
\* release of the old session can run after the initialization of the new one.
FirstSessionHasEngine ==
    spent["toggle"] <= 1 =>
        \A c \in CollectorIds : analyzers[c].pc = "classifying" => engineLoaded

\* Violated.  README l. 22: "a visible way to disable it at any time".  stop()
\* never sends the audio service its stop command.
MicOffWhenDisabled == ~started => mic = "STOP"

\* Violated.  Comment l. 180: "(single collector)".  stopCapturing clears the
\* flag but leaves the collector running, so each call adds one.
SingleCollector ==
    \A c, d \in CollectorIds : transcribers[c].on /\ transcribers[d].on => c = d

\* Violated.  Comment l. 317: "Runs once, unthrottled, so a scam hiding in the
\* last seconds of a call still gets a judgment".  A call that ends while the
\* previous verdict is running, or after one was cancelled undispatched, gets none.
EveryCallJudged ==
    [][started' /\ capturing /\ ~capturing' /\ conversation > 0 /\ classifierReady
          => \E j \in JobIds : IsFreeJob(j) /\ jobs'[j].kind = "verdict"]_vars

===============================================================================
