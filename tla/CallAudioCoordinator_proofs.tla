---------------------- MODULE CallAudioCoordinator_proofs ----------------------
(***************************************************************************)
(* For any number of jobs, collectors and environment events: type         *)
(* correctness of the coordinator, the exclusion of end-of-call verdicts,  *)
(* capture that follows the call and has consumers, late results that are  *)
(* dropped, and the engine of the first session.                           *)
(***************************************************************************)
EXTENDS CallAudioCoordinator, TLAPS

(***************************************************************************)
(* Slots.  A launch picks a free slot, and the picked slot is free.        *)
(***************************************************************************)

\* scope.launch finds a free job slot when there is one.
LEMMA FreeJobIsFree ==
    JobSlotLeft => FreeJob \in JobIds /\ jobs[FreeJob] = NoJob
BY DEF JobSlotLeft, FreeJob, IsFreeJob

\* stop() finds a slot for the release job among those its cancellation frees.
LEMMA FreeAfterCancelIsFree ==
    (\E j \in JobIds : CancelledJobs[j] = NoJob)
        => FreeAfterCancel \in JobIds /\ CancelledJobs[FreeAfterCancel] = NoJob
BY DEF FreeAfterCancel

\* A new collector takes a slot no collector uses.
LEMMA FreeCollectorIsFree ==
    CollectorSlotsLeft =>
        /\ FreeTranscriber \in CollectorIds /\ ~transcribers[FreeTranscriber].on
        /\ FreeAnalyzer \in CollectorIds /\ analyzers[FreeAnalyzer].pc = "off"
BY DEF CollectorSlotsLeft, FreeTranscriber, FreeAnalyzer

(***************************************************************************)
(* Types.                                                                  *)
(***************************************************************************)

\* A launched job, an orphaned one and a cancelled one are jobs.
LEMMA JobTypes ==
    /\ NoJob \in Job
    /\ \A k \in {"init", "release", "verdict", "notification"} : Launched(k) \in Job
    /\ \A job \in Job : Orphaned(job) \in Job /\ Cancelled(job) \in Job
BY DEF Job, NoJob, Launched, Orphaned, Cancelled

\* A function updated at one argument keeps its type.
LEMMA UpdateType ==
    ASSUME NEW S, NEW T, NEW f \in [S -> T], NEW i, NEW x \in T
    PROVE  [f EXCEPT ![i] = x] \in [S -> T]
OBVIOUS

\* An event spends one unit of its budget.
LEMMA SpendType ==
    ASSUME NEW e \in Events, spent \in [Events -> Nat], Spend(e)
    PROVE  spent' \in [Events -> Nat]
BY DEF Spend

\* Starting to capture keeps the types of what it writes.
LEMMA StartCapturingType ==
    ASSUME TypeOK, StartCapturing
    PROVE  /\ capturing' \in BOOLEAN /\ mic' \in {"START", "STOP"}
           /\ sttRunning' \in BOOLEAN /\ status' \in Statuses
           /\ collectingTranscripts' \in BOOLEAN /\ collectingAnalysis' \in BOOLEAN
           /\ analysisDue' \in BOOLEAN /\ lastAnalyzed' \in Nat
           /\ transcribers' \in [CollectorIds -> Transcriber]
           /\ analyzers' \in [CollectorIds -> Analyzer]
<1>1. /\ [on |-> TRUE, inbox |-> 0] \in Transcriber
      /\ [pc |-> "idle", inbox |-> <<>>] \in Analyzer
  BY DEF Transcriber, Analyzer
<1>2. transcribers' \in [CollectorIds -> Transcriber]
  BY <1>1, UpdateType DEF StartCapturing, TypeOK
<1>3. analyzers' \in [CollectorIds -> Analyzer]
  BY <1>1, UpdateType DEF StartCapturing, TypeOK, analysisVars
<1>4. analysisDue' \in BOOLEAN /\ lastAnalyzed' \in Nat
  <2>1. CASE collectingAnalysis
    BY <2>1 DEF StartCapturing, TypeOK, analysisVars
  <2>2. CASE ~collectingAnalysis
    BY <2>2 DEF StartCapturing, TypeOK
  <2> QED
    BY <2>1, <2>2
<1> QED
  BY <1>2, <1>3, <1>4 DEF StartCapturing, TypeOK, Statuses

\* So does the end of a capture, verdict job included.
LEMMA StopCapturingType ==
    ASSUME TypeOK, StopCapturing
    PROVE  /\ capturing' \in BOOLEAN /\ mic' \in {"START", "STOP"}
           /\ sttRunning' \in BOOLEAN /\ status' \in Statuses
           /\ collectingTranscripts' \in BOOLEAN /\ collectingAnalysis' \in BOOLEAN
           /\ analysisDue' \in BOOLEAN /\ lastAnalyzed' \in Nat
           /\ conversation' \in Nat /\ finalVerdictRunning' \in BOOLEAN
           /\ transcribers' \in [CollectorIds -> Transcriber]
           /\ analyzers' \in [CollectorIds -> Analyzer]
           /\ jobs' \in [JobIds -> Job]
<1>1. jobs' \in [JobIds -> Job]
  BY FreeJobIsFree, JobTypes DEF StopCapturing, TypeOK
<1> QED
  BY <1>1 DEF StopCapturing, CollectingCleared, TypeOK, Statuses, analysisVars

JobPcs == {"queued", "absent", "loading", "loaded", "failed", "classifying",
           "finally", "checking", "settling", "done"}

\* A job that moves or ends leaves a well-typed table behind.
LEMMA JobStepType ==
    ASSUME TypeOK, NEW j \in JobIds,
           Finish(j) \/ \E pc \in JobPcs : Goto(j, pc)
    PROVE  jobs' \in [JobIds -> Job]
<1>1. CASE Finish(j)
  BY <1>1, JobTypes DEF Finish, TypeOK
<1>2. ASSUME NEW pc \in JobPcs, Goto(j, pc)
      PROVE  jobs' \in [JobIds -> Job]
  <2>1. [jobs[j] EXCEPT !.pc = pc] \in Job
    BY <1>2 DEF TypeOK, Job, JobPcs
  <2>2. jobs' = [jobs EXCEPT ![j] = [jobs[j] EXCEPT !.pc = pc]]
    BY <1>2 DEF Goto
  <2> QED
    BY <2>1, <2>2 DEF TypeOK
<1> QED
  BY <1>1, <1>2

\* A step of a background job keeps the types.
LEMMA JobStepTypes ==
    ASSUME TypeOK, NEW j \in JobIds, JobStep(j)
    PROVE  TypeOK'
<1> USE DEF pipelineVars, classifierVars, worldVars, captureVars, collectorVars,
            analysisVars, Statuses
<1>1. CASE InitChecksModel(j)
  <2>1. jobs' \in [JobIds -> Job]
    BY <1>1, JobStepType DEF InitChecksModel, JobPcs
  <2> QED
    BY <1>1, <2>1 DEF InitChecksModel, TypeOK
<1>2. CASE InitGivesUp(j)
  <2>1. jobs' \in [JobIds -> Job]
    BY <1>2, JobStepType DEF InitGivesUp
  <2>2. classifierInitStarted' \in BOOLEAN
    BY <1>2 DEF InitGivesUp
  <2>3. UNCHANGED <<pipelineVars, classifierReady, finalVerdictRunning, worldVars>>
    BY <1>2 DEF InitGivesUp
  <2> QED
    BY <2>1, <2>2, <2>3 DEF TypeOK
<1>3. CASE InitLoads(j)
  <2>1. jobs' \in [JobIds -> Job]
    BY <1>3, JobStepType DEF InitLoads, JobPcs
  <2>2. engineLoaded' \in BOOLEAN
    BY <1>3 DEF InitLoads, TypeOK
  <2> QED
    BY <1>3, <2>1, <2>2 DEF InitLoads, TypeOK
<1>4. CASE InitReports(j)
  <2>1. jobs' \in [JobIds -> Job]
    BY <1>4, JobStepType DEF InitReports
  <2>2. classifierReady' \in BOOLEAN /\ classifierInitStarted' \in BOOLEAN
    BY <1>4 DEF InitReports, LoadSucceeded
  <2>3. UNCHANGED <<pipelineVars, finalVerdictRunning, worldVars>>
    BY <1>4 DEF InitReports
  <2> QED
    BY <2>1, <2>2, <2>3 DEF TypeOK
<1>5. CASE ReleaseRuns(j)
  <2>1. jobs' \in [JobIds -> Job]
    BY <1>5, JobStepType DEF ReleaseRuns
  <2>2. engineLoaded' \in BOOLEAN
    BY <1>5 DEF ReleaseRuns
  <2>3. UNCHANGED <<pipelineVars, classifierVars, finalVerdictRunning, modelFile,
                    alertActive>>
    BY <1>5 DEF ReleaseRuns
  <2> QED
    BY <2>1, <2>2, <2>3 DEF TypeOK
<1>6. CASE JobBegins(j)
  <2>1. jobs' \in [JobIds -> Job]
    BY <1>6, JobStepType DEF JobBegins, JobPcs
  <2> QED
    BY <1>6, <2>1 DEF JobBegins, TypeOK
<1>7. CASE JobClassifies(j)
  <2>1. jobs' \in [JobIds -> Job]
    BY <1>7, JobStepType DEF JobClassifies, AfterClassify, JobPcs
  <2>2. alertActive' \in BOOLEAN
    BY <1>7 DEF JobClassifies, TypeOK
  <2> QED
    BY <1>7, <2>1, <2>2 DEF JobClassifies, TypeOK
<1>8. CASE VerdictClearsFlag(j)
  <2>1. jobs' \in [JobIds -> Job]
    BY <1>8, JobStepType DEF VerdictClearsFlag, JobPcs
  <2>2. finalVerdictRunning' \in BOOLEAN
    BY <1>8 DEF VerdictClearsFlag
  <2>3. UNCHANGED <<pipelineVars, classifierVars, worldVars>>
    BY <1>8 DEF VerdictClearsFlag
  <2> QED
    BY <2>1, <2>2, <2>3 DEF TypeOK
<1>9. CASE VerdictSetsIdle(j)
  <2>1. jobs' \in [JobIds -> Job]
    BY <1>9, JobStepType DEF VerdictSetsIdle
  <2> QED
    BY <1>9, <2>1 DEF VerdictSetsIdle, TypeOK
<1>10. CASE VerdictChecksCapture(j)
  <2>1. jobs' \in [JobIds -> Job]
    BY <1>10, JobStepType DEF VerdictChecksCapture, JobPcs
  <2> QED
    BY <1>10, <2>1 DEF VerdictChecksCapture, TypeOK
<1> QED
  BY <1>1, <1>2, <1>3, <1>4, <1>5, <1>6, <1>7, <1>8, <1>9, <1>10
     DEF JobStep, InitStep, ClassificationStep

\* A step of a collector keeps the types.
LEMMA CollectorStepTypes ==
    ASSUME TypeOK, NEW c \in CollectorIds, TextProcessed(c) \/ AnalyzerStep(c)
    PROVE  TypeOK'
<1> USE DEF classifierVars, worldVars, captureVars, collectorVars, Statuses
<1>1. CASE TextProcessed(c)
  <2>1. transcribers' \in [CollectorIds -> Transcriber]
    <3>1. [transcribers[c] EXCEPT !.inbox = @ - 1] \in Transcriber
      <4>1. transcribers[c] \in Transcriber /\ transcribers[c].inbox > 0
        BY <1>1 DEF TextProcessed, HasText, TypeOK
      <4>2. transcribers[c].inbox - 1 \in Nat
        BY <4>1 DEF Transcriber
      <4> QED
        BY <4>1, <4>2 DEF Transcriber
    <3> QED
      BY <1>1, <3>1 DEF TextProcessed, TypeOK
  <2>2. analyzers' \in [CollectorIds -> Analyzer]
    <3>1. ASSUME NEW d \in CollectorIds
          PROVE  Offered(d, conversation + 1) \in Analyzer
      <4>1. analyzers[d] \in Analyzer /\ conversation + 1 \in Nat
        BY DEF TypeOK
      <4>2. Append(analyzers[d].inbox, conversation + 1) \in Seq(Nat)
        BY <4>1 DEF Analyzer
      <4>3. [analyzers[d] EXCEPT !.inbox = Append(@, conversation + 1)] \in Analyzer
        BY <4>1, <4>2 DEF Analyzer
      <4> QED
        BY <4>1, <4>3 DEF Offered
    <3> QED
      BY <1>1, <3>1 DEF TextProcessed
  <2> QED
    BY <1>1, <2>1, <2>2 DEF TextProcessed, TypeOK
<1>2. CASE SnapshotTaken(c)
  <2> DEFINE snapshot == Head(analyzers[c].inbox)
             rest == Tail(analyzers[c].inbox)
  <2>1. snapshot \in Nat /\ rest \in Seq(Nat)
    BY <1>2 DEF SnapshotTaken, HasSnapshot, TypeOK, Analyzer
  <2>2. SnapshotLength(snapshot) \in Nat
    BY <2>1, CoordinatorAssumption DEF CoordinatorAssumption, SnapshotLength
  <2>3. /\ [analyzers[c] EXCEPT !.inbox = rest] \in Analyzer
        /\ [pc |-> "classifying", inbox |-> rest] \in Analyzer
    BY <2>1 DEF TypeOK, Analyzer
  <2>4. analyzers' \in [CollectorIds -> Analyzer]
    BY <1>2, <2>3 DEF SnapshotTaken, TypeOK
  <2>5. /\ analysisDue' \in BOOLEAN
        /\ lastAnalyzed' \in Nat
        /\ status' \in Statuses
    BY <1>2, <2>2 DEF SnapshotTaken, TypeOK
  <2> QED
    BY <1>2, <2>4, <2>5 DEF SnapshotTaken, TypeOK
<1>3. CASE AnalysisReturns(c)
  <2>1. [analyzers[c] EXCEPT !.pc = "idle"] \in Analyzer
    BY DEF TypeOK, Analyzer
  <2>2. analyzers' \in [CollectorIds -> Analyzer]
    BY <1>3, <2>1 DEF AnalysisReturns, TypeOK
  <2>3. status' \in Statuses /\ alertActive' \in BOOLEAN
    BY <1>3 DEF AnalysisReturns, StatusAfterAnalysis, TypeOK
  <2> QED
    BY <1>3, <2>2, <2>3 DEF AnalysisReturns, TypeOK
<1>4. CASE CancelledAnalysisReturns(c)
  <2>1. analyzers' \in [CollectorIds -> Analyzer]
    BY <1>4 DEF CancelledAnalysisReturns, TypeOK, NoAnalyzer, Analyzer
  <2> QED
    BY <1>4, <2>1 DEF CancelledAnalysisReturns, TypeOK
<1>5. CASE AnalysisCrashes(c)
  <2>1. /\ jobs' \in [JobIds -> Job]
        /\ transcribers' \in [CollectorIds -> Transcriber]
        /\ analyzers' \in [CollectorIds -> Analyzer]
    BY <1>5, JobTypes DEF AnalysisCrashes, NoTranscriber, NoAnalyzer,
                          Transcriber, Analyzer
  <2> QED
    BY <1>5, <2>1 DEF AnalysisCrashes, TypeOK, CallStates
<1> QED
  BY <1>1, <1>2, <1>3, <1>4, <1>5 DEF AnalyzerStep

\* A change of the call state keeps the types of what its collector writes.
LEMMA CollectorReactsType ==
    ASSUME TypeOK, NEW s \in CallStates, ReportState(s)
    PROVE  TypeOK'
<1> USE DEF classifierVars, worldVars
<1> DEFINE Written ==
        /\ capturing' \in BOOLEAN /\ mic' \in {"START", "STOP"}
        /\ sttRunning' \in BOOLEAN /\ status' \in Statuses
        /\ collectingTranscripts' \in BOOLEAN /\ collectingAnalysis' \in BOOLEAN
        /\ analysisDue' \in BOOLEAN /\ lastAnalyzed' \in Nat
        /\ conversation' \in Nat /\ finalVerdictRunning' \in BOOLEAN
        /\ transcribers' \in [CollectorIds -> Transcriber]
        /\ analyzers' \in [CollectorIds -> Analyzer]
        /\ jobs' \in [JobIds -> Job]
<1>1. ASSUME UNCHANGED <<captureVars, collectorVars, analysisVars, conversation,
                         finalVerdictRunning, status, jobs>>
      PROVE  Written
  BY <1>1 DEF captureVars, collectorVars, analysisVars, TypeOK
<1>2. ASSUME CollectorReacts(s)
      PROVE  Written
  <2>1. CASE StartCapturing /\ UNCHANGED <<conversation, finalVerdictRunning, jobs>>
    BY <2>1, StartCapturingType DEF TypeOK
  <2>2. CASE StopCapturing
    BY <2>2, StopCapturingType
  <2> QED
    BY <1>1, <1>2, <2>1, <2>2 DEF CollectorReacts
<1>3. Written
  BY <1>1, <1>2 DEF ReportState
<1>4. spent' \in [Events -> Nat]
  BY SpendType DEF ReportState, Events, TypeOK
<1>5. callState' \in CallStates
  BY DEF ReportState
<1>6. UNCHANGED <<started, classifierVars, worldVars>>
  BY DEF ReportState
<1> QED
  BY <1>3, <1>4, <1>5, <1>6 DEF TypeOK

\* Enabling detection keeps the types.
LEMMA EnableType ==
    ASSUME TypeOK, Enable
    PROVE  TypeOK'
<1> USE DEF worldVars
<1>1. jobs' \in [JobIds -> Job]
  <2>1. [j \in JobIds |-> Orphaned(jobs[j])] \in [JobIds -> Job]
    BY JobTypes DEF TypeOK
  <2>2. Launched("init") \in Job
    BY JobTypes
  <2> QED
    BY <2>1, <2>2, UpdateType DEF Enable
<1>2. classifierInitStarted' \in BOOLEAN
  <2>1. CASE classifierInitStarted
    BY <2>1 DEF Enable, TypeOK
  <2>2. CASE ~classifierInitStarted
    BY <2>2 DEF Enable
  <2> QED
    BY <2>1, <2>2
<1>3. /\ capturing' \in BOOLEAN /\ mic' \in {"START", "STOP"}
      /\ sttRunning' \in BOOLEAN /\ status' \in Statuses
      /\ collectingTranscripts' \in BOOLEAN /\ collectingAnalysis' \in BOOLEAN
      /\ analysisDue' \in BOOLEAN /\ lastAnalyzed' \in Nat
      /\ transcribers' \in [CollectorIds -> Transcriber]
      /\ analyzers' \in [CollectorIds -> Analyzer]
  <2>1. CASE StartCapturing
    BY <2>1, StartCapturingType
  <2>2. CASE UNCHANGED <<captureVars, collectorVars, analysisVars, status>>
    BY <2>2 DEF captureVars, collectorVars, analysisVars, TypeOK
  <2> QED
    BY <2>1, <2>2 DEF Enable, CaptureOnEnable
<1>4. spent' \in [Events -> Nat]
  BY SpendType DEF Enable, Events, TypeOK
<1>5. started' \in BOOLEAN
  BY DEF Enable
<1>6. UNCHANGED <<callState, classifierReady, finalVerdictRunning, conversation,
                  worldVars>>
  BY DEF Enable
<1> QED
  BY <1>1, <1>2, <1>3, <1>4, <1>5, <1>6 DEF TypeOK

\* Disabling detection keeps the types.
LEMMA DisableType ==
    ASSUME TypeOK, Disable
    PROVE  TypeOK'
<1>1. jobs' \in [JobIds -> Job]
  <2>1. CancelledJobs \in [JobIds -> Job]
    BY JobTypes DEF CancelledJobs, TypeOK
  <2>2. Launched("release") \in Job
    BY JobTypes
  <2> QED
    BY <2>1, <2>2, UpdateType DEF Disable
<1>2. transcribers' \in [CollectorIds -> Transcriber]
  BY DEF Disable, NoTranscriber, Transcriber
<1>3. analyzers' \in [CollectorIds -> Analyzer]
  <2>1. ASSUME NEW c \in CollectorIds
        PROVE  CancelledAnalyzer(analyzers[c]) \in Analyzer
    BY DEF CancelledAnalyzer, NoAnalyzer, Analyzer
  <2> QED
    BY <2>1 DEF Disable
<1>4. spent' \in [Events -> Nat]
  BY SpendType DEF Disable, Events, TypeOK
<1>5. /\ started' \in BOOLEAN /\ capturing' \in BOOLEAN
      /\ collectingTranscripts' \in BOOLEAN /\ collectingAnalysis' \in BOOLEAN
      /\ sttRunning' \in BOOLEAN /\ alertActive' \in BOOLEAN
      /\ classifierInitStarted' \in BOOLEAN /\ classifierReady' \in BOOLEAN
  BY DEF Disable, CollectingCleared
<1>6. status' \in Statuses /\ callState' \in CallStates
  BY DEF Disable, Statuses, CallStates
<1>7. UNCHANGED <<mic, analysisDue, lastAnalyzed, finalVerdictRunning,
                  conversation, engineLoaded, modelFile>>
  BY DEF Disable
<1> QED
  BY <1>1, <1>2, <1>3, <1>4, <1>5, <1>6, <1>7 DEF TypeOK

\* So do the import of a model, a transcribed window, the analysis interval and
\* a notification.
LEMMA EnvironmentTypes ==
    ASSUME TypeOK,
           \/ ModelFileAppears \/ OnModelsImported \/ TextTranscribed
           \/ IntervalElapses \/ NotificationArrives
    PROVE  TypeOK'
<1> USE DEF captureVars, collectorVars, analysisVars, classifierVars, worldVars
<1>1. CASE ModelFileAppears
  <2>1. modelFile' \in BOOLEAN
    BY <1>1 DEF ModelFileAppears
  <2>2. UNCHANGED <<callState, started, captureVars, collectorVars, analysisVars,
                    classifierVars, finalVerdictRunning, status, conversation,
                    jobs, engineLoaded, alertActive, spent>>
    BY <1>1 DEF ModelFileAppears
  <2> QED
    BY <2>1, <2>2 DEF TypeOK
<1>2. CASE OnModelsImported
  <2>1. jobs' \in [JobIds -> Job]
    BY <1>2, FreeJobIsFree, JobTypes DEF OnModelsImported, TypeOK
  <2>2. classifierInitStarted' \in BOOLEAN
    <3>1. CASE UNCHANGED <<jobs, classifierInitStarted>>
      BY <3>1 DEF TypeOK
    <3>2. CASE classifierInitStarted' = TRUE
      BY <3>2
    <3> QED
      BY <1>2, <3>1, <3>2 DEF OnModelsImported
  <2>3. spent' \in [Events -> Nat]
    BY <1>2, SpendType DEF OnModelsImported, Events, TypeOK
  <2>4. UNCHANGED <<callState, started, captureVars, collectorVars, analysisVars,
                    classifierReady, finalVerdictRunning, status, conversation,
                    worldVars>>
    BY <1>2 DEF OnModelsImported
  <2> QED
    BY <2>1, <2>2, <2>3, <2>4 DEF TypeOK
<1>3. CASE TextTranscribed
  <2>1. transcribers' \in [CollectorIds -> Transcriber]
    <3>1. ASSUME NEW c \in CollectorIds
          PROVE  [transcribers[c] EXCEPT !.inbox = @ + 1] \in Transcriber
      BY DEF TypeOK, Transcriber
    <3> QED
      BY <1>3, <3>1 DEF TextTranscribed, TypeOK
  <2>2. spent' \in [Events -> Nat]
    BY <1>3, SpendType DEF TextTranscribed, Events, TypeOK
  <2> QED
    BY <1>3, <2>1, <2>2 DEF TextTranscribed, TypeOK
<1>4. CASE IntervalElapses
  <2>1. analysisDue' \in BOOLEAN
    BY <1>4 DEF IntervalElapses
  <2>2. UNCHANGED <<callState, started, captureVars, collectorVars, lastAnalyzed,
                    analyzers, classifierVars, finalVerdictRunning, status,
                    conversation, jobs, worldVars, spent>>
    BY <1>4 DEF IntervalElapses
  <2> QED
    BY <2>1, <2>2 DEF TypeOK
<1>5. CASE NotificationArrives
  <2>1. jobs' \in [JobIds -> Job]
    BY <1>5, FreeJobIsFree, JobTypes DEF NotificationArrives, TypeOK
  <2>2. spent' \in [Events -> Nat]
    BY <1>5, SpendType DEF NotificationArrives, Events, TypeOK
  <2> QED
    BY <1>5, <2>1, <2>2 DEF NotificationArrives, TypeOK
<1> QED
  BY <1>1, <1>2, <1>3, <1>4, <1>5

\* The coordinator starts well-typed: every slot is free.
LEMMA InitTypes == Init => TypeOK
<1> SUFFICES ASSUME Init PROVE TypeOK
  OBVIOUS
<1>1. jobs \in [JobIds -> Job]
  BY JobTypes DEF Init
<1>2. /\ transcribers \in [CollectorIds -> Transcriber]
      /\ analyzers \in [CollectorIds -> Analyzer]
  BY DEF Init, NoTranscriber, NoAnalyzer, Transcriber, Analyzer
<1>3. spent \in [Events -> Nat]
  BY DEF Init
<1> QED
  BY <1>1, <1>2, <1>3 DEF Init, TypeOK, Statuses, CallStates

\* Every step keeps the types.
LEMMA NextTypes == TypeOK /\ [Next]_vars => TypeOK'
<1> SUFFICES ASSUME TypeOK, [Next]_vars
             PROVE  TypeOK'
  OBVIOUS
<1>1. CASE UserStep
  BY <1>1, EnableType, DisableType, EnvironmentTypes DEF UserStep
<1>2. CASE \E s \in CallStates : ReportState(s)
  BY <1>2, CollectorReactsType
<1>3. CASE TextTranscribed \/ IntervalElapses \/ NotificationArrives
  BY <1>3, EnvironmentTypes
<1>4. CASE \E c \in CollectorIds : TextProcessed(c) \/ AnalyzerStep(c)
  BY <1>4, CollectorStepTypes
<1>5. CASE \E j \in JobIds : JobStep(j)
  BY <1>5, JobStepTypes
<1>6. CASE UNCHANGED vars
  BY <1>6 DEF vars, captureVars, collectorVars, analysisVars, classifierVars,
              worldVars, TypeOK
<1> QED
  BY <1>1, <1>2, <1>3, <1>4, <1>5, <1>6 DEF Next

\* Type correctness of the coordinator, for any number of jobs and collectors.
THEOREM TypeCorrect == Spec => []TypeOK
BY InitTypes, NextTypes, PTL DEF Spec

(***************************************************************************)
(* Capture follows the call.                                               *)
(***************************************************************************)

\* Disabled, nothing captures; enabled, the replayed and reported call states
\* keep capturing equal to "a call is active".
LEMMA CaptureFollowsInductive ==
    TypeOK /\ CaptureFollowsCall /\ [Next]_vars => CaptureFollowsCall'
<1> SUFFICES ASSUME TypeOK, CaptureFollowsCall, [Next]_vars
             PROVE  CaptureFollowsCall'
  OBVIOUS
<1> USE DEF captureVars, pipelineVars
<1>1. CASE Enable
  BY <1>1 DEF Enable, CaptureOnEnable, StartCapturing, CaptureFollowsCall, TypeOK
<1>2. CASE Disable
  BY <1>2 DEF Disable, CaptureFollowsCall
<1>3. ASSUME NEW s \in CallStates, ReportState(s)
      PROVE  CaptureFollowsCall'
  <2>1. CASE ~started
    BY <1>3, <2>1 DEF ReportState, CaptureFollowsCall
  <2>2. CASE started
    <3>1. callState' = s /\ started'
      BY <1>3, <2>2 DEF ReportState
    <3>2. CollectorReacts(s)
      BY <1>3, <2>2 DEF ReportState
    <3>3. capturing' <=> s \in ActiveStates
      BY <3>2 DEF CollectorReacts, StartCapturing, StopCapturing
    <3> QED
      BY <3>1, <3>3 DEF CaptureFollowsCall
  <2> QED
    BY <2>1, <2>2
<1>4. ASSUME NEW c \in CollectorIds, AnalysisCrashes(c)
      PROVE  CaptureFollowsCall'
  BY <1>4 DEF AnalysisCrashes, CaptureFollowsCall
<1>5. CASE UNCHANGED <<started, callState, capturing>>
  BY <1>5 DEF CaptureFollowsCall
<1>6. ASSUME NEW c \in CollectorIds,
             \/ TextProcessed(c) \/ SnapshotTaken(c) \/ AnalysisReturns(c)
             \/ CancelledAnalysisReturns(c)
      PROVE  UNCHANGED <<started, callState, capturing>>
  BY <1>6 DEF TextProcessed, SnapshotTaken, AnalysisReturns,
              CancelledAnalysisReturns
<1>7. ASSUME NEW j \in JobIds, JobStep(j)
      PROVE  UNCHANGED <<started, callState, capturing>>
  <2>1. CASE InitStep(j)
    BY <2>1 DEF InitStep, InitChecksModel, InitGivesUp, InitLoads, InitReports
  <2>2. CASE ReleaseRuns(j)
    BY <2>2 DEF ReleaseRuns
  <2>3. CASE ClassificationStep(j)
    BY <2>3 DEF ClassificationStep, JobBegins, JobClassifies, VerdictClearsFlag,
                VerdictChecksCapture, VerdictSetsIdle
  <2> QED
    BY <1>7, <2>1, <2>2, <2>3 DEF JobStep
<1>8. CASE \/ ModelFileAppears \/ OnModelsImported \/ TextTranscribed
           \/ IntervalElapses \/ NotificationArrives
  <2>1. UNCHANGED <<started, callState, capturing>>
    BY <1>8 DEF ModelFileAppears, OnModelsImported, TextTranscribed,
                IntervalElapses, NotificationArrives
  <2> QED
    BY <1>5, <2>1
<1>9. CASE UNCHANGED vars
  BY <1>5, <1>9 DEF vars
<1> QED
  BY <1>1, <1>2, <1>3, <1>4, <1>5, <1>6, <1>7, <1>8, <1>9
     DEF Next, UserStep, AnalyzerStep

\* In every behaviour, capturing holds exactly during an active call of an
\* enabled detector.
THEOREM CaptureFollowsCallHolds == Spec => []CaptureFollowsCall
<1>1. Init => CaptureFollowsCall
  BY DEF Init, CaptureFollowsCall
<1> QED
  BY <1>1, InitTypes, NextTypes, CaptureFollowsInductive, PTL DEF Spec

(***************************************************************************)
(* End-of-call verdicts exclude each other.                                *)
(***************************************************************************)

\* A verdict that still owns finalVerdictRunning.
Owns(table, j) == table[j].kind = "verdict" /\ table[j].pc \notin {"checking", "settling"}

\* VerdictExclusive of a job table and a flag.
Exclusive(table, running) ==
    /\ \A i, j \in JobIds : Owns(table, i) /\ Owns(table, j) => i = j
    /\ \A j \in JobIds : Owns(table, j) => running

\* The restatement over a job table says of the present jobs what VerdictExclusive says.
LEMMA ExclusiveIsVerdictExclusive ==
    /\ VerdictExclusive <=> Exclusive(jobs, finalVerdictRunning)
    /\ VerdictExclusive' <=> Exclusive(jobs', finalVerdictRunning')
BY DEF VerdictExclusive, Exclusive, Owns, OwnsFlag

\* A step that gives no job the ownership and keeps the flag keeps the exclusion.
LEMMA NoNewOwner ==
    ASSUME VerdictExclusive, finalVerdictRunning' = finalVerdictRunning,
           \A j \in JobIds : Owns(jobs', j) => Owns(jobs, j)
    PROVE  VerdictExclusive'
BY ExclusiveIsVerdictExclusive DEF Exclusive

\* Launching a job that is not a verdict, moving one or ending one gives no job
\* the ownership.
LEMMA LaunchOwnsNothing ==
    ASSUME jobs \in [JobIds -> Job], NEW kind \in {"init", "release", "notification"},
           NEW i \in JobIds, jobs' = [jobs EXCEPT ![i] = Launched(kind)]
    PROVE  \A j \in JobIds : Owns(jobs', j) => Owns(jobs, j)
BY DEF Owns, Launched

\* Starting to capture has no job.  Stopping launches a verdict only when no
\* other one owns the flag.
LEMMA StopCapturingExclusive ==
    ASSUME TypeOK, VerdictExclusive, StopCapturing
    PROVE  VerdictExclusive'
<1>1. CASE VerdictDue
  <2>1. /\ finalVerdictRunning' = TRUE
        /\ FreeJob \in JobIds
        /\ jobs' = [jobs EXCEPT ![FreeJob] = Launched("verdict")]
    BY <1>1, FreeJobIsFree DEF StopCapturing
  <2>2. \A j \in JobIds : ~Owns(jobs, j)
    BY <1>1, ExclusiveIsVerdictExclusive DEF VerdictDue, Exclusive
  <2>3. \A j \in JobIds : Owns(jobs', j) => j = FreeJob
    BY <2>1, <2>2 DEF Owns, TypeOK
  <2> QED
    BY <2>1, <2>3, ExclusiveIsVerdictExclusive DEF Exclusive
<1>2. CASE ~VerdictDue
  BY <1>2, ExclusiveIsVerdictExclusive DEF StopCapturing
<1> QED
  BY <1>1, <1>2

\* A step of a background job keeps the exclusion.
LEMMA JobStepExclusive ==
    ASSUME TypeOK, VerdictExclusive, NEW i \in JobIds, JobStep(i)
    PROVE  VerdictExclusive'
<1>1. ASSUME Finish(i) PROVE \A j \in JobIds : Owns(jobs', j) => Owns(jobs, j)
  BY <1>1 DEF Finish, Owns, NoJob, TypeOK
<1>2. ASSUME NEW pc, Owns(jobs, i) \/ jobs[i].kind # "verdict" \/ pc = "settling",
             Goto(i, pc)
      PROVE  \A j \in JobIds : Owns(jobs', j) => Owns(jobs, j)
  BY <1>2 DEF Goto, Owns, TypeOK, Job
<1>3. CASE InitStep(i)
  <2>1. jobs[i].kind = "init" /\ finalVerdictRunning' = finalVerdictRunning
    BY <1>3 DEF InitStep, InitChecksModel, InitGivesUp, InitLoads, InitReports, At
  <2>2. Finish(i) \/ \E pc \in JobPcs : Goto(i, pc)
    BY <1>3 DEF InitStep, InitChecksModel, InitGivesUp, InitLoads, InitReports,
                JobPcs
  <2> QED
    BY <1>1, <1>2, <2>1, <2>2, NoNewOwner
<1>4. CASE ReleaseRuns(i)
  BY <1>1, <1>4, NoNewOwner DEF ReleaseRuns
<1>5. CASE JobBegins(i)
  BY <1>2, <1>5, NoNewOwner DEF JobBegins, Owns
<1>6. CASE JobClassifies(i)
  BY <1>1, <1>2, <1>6, NoNewOwner DEF JobClassifies, AfterClassify, Owns
<1>7. CASE VerdictClearsFlag(i)
  <2>1. Owns(jobs, i)
    BY <1>7 DEF VerdictClearsFlag, At, Owns
  <2>2. ~Owns(jobs', i) /\ \A j \in JobIds \ {i} : jobs'[j] = jobs[j]
    BY <1>7 DEF VerdictClearsFlag, Finish, Goto, Owns, NoJob, TypeOK, Job
  <2>3. \A j \in JobIds : ~Owns(jobs', j)
    BY <2>1, <2>2, ExclusiveIsVerdictExclusive DEF Exclusive, Owns
  <2> QED
    BY <2>3, ExclusiveIsVerdictExclusive DEF Exclusive
<1>8. CASE VerdictSetsIdle(i)
  BY <1>1, <1>8, NoNewOwner DEF VerdictSetsIdle
<1>9. CASE VerdictChecksCapture(i)
  BY <1>1, <1>2, <1>9, NoNewOwner DEF VerdictChecksCapture
<1> QED
  BY <1>3, <1>4, <1>5, <1>6, <1>7, <1>8, <1>9 DEF JobStep, ClassificationStep

\* VerdictExclusive is inductive, given the types.
LEMMA VerdictExclusiveInductive ==
    TypeOK /\ VerdictExclusive /\ [Next]_vars => VerdictExclusive'
<1> SUFFICES ASSUME TypeOK, VerdictExclusive, [Next]_vars
             PROVE  VerdictExclusive'
  OBVIOUS
<1>1. CASE UNCHANGED <<finalVerdictRunning, jobs>>
  BY <1>1, ExclusiveIsVerdictExclusive
<1>2. CASE Enable
  <2> DEFINE orphans == [j \in JobIds |-> Orphaned(jobs[j])]
  <2>1. \A j \in JobIds : orphans[j].kind = jobs[j].kind /\ orphans[j].pc = jobs[j].pc
    BY DEF Orphaned, TypeOK, Job
  <2>2. jobs' = orphans \/ \E i \in JobIds : jobs' = [orphans EXCEPT ![i] = Launched("init")]
    BY <1>2, FreeJobIsFree DEF Enable
  <2>3. \A j \in JobIds : Owns(jobs', j) => Owns(jobs, j)
    <3>1. CASE jobs' = orphans
      BY <2>1, <3>1 DEF Owns
    <3>2. ASSUME NEW i \in JobIds, jobs' = [orphans EXCEPT ![i] = Launched("init")]
          PROVE  \A j \in JobIds : Owns(jobs', j) => Owns(jobs, j)
      <4>1. jobs'[i].kind = "init" /\ \A j \in JobIds \ {i} : jobs'[j] = orphans[j]
        BY <3>2 DEF Launched
      <4> QED
        BY <2>1, <4>1 DEF Owns
    <3> QED
      BY <2>2, <3>1, <3>2
  <2> QED
    BY <1>2, <2>3, NoNewOwner DEF Enable
<1>3. CASE Disable
  <2>1. \A j \in JobIds : CancelledJobs[j].kind = "verdict"
                            => CancelledJobs[j].kind = jobs[j].kind
                               /\ CancelledJobs[j].pc = jobs[j].pc
    BY DEF CancelledJobs, Cancelled, NoJob, TypeOK, Job
  <2>2. \E i \in JobIds : jobs' = [CancelledJobs EXCEPT ![i] = Launched("release")]
    BY <1>3, FreeAfterCancelIsFree DEF Disable
  <2>3. \A j \in JobIds : Owns(jobs', j) => Owns(jobs, j)
    BY <2>1, <2>2 DEF Owns, Launched, CancelledJobs
  <2> QED
    BY <1>3, <2>3, NoNewOwner DEF Disable
<1>4. CASE OnModelsImported
  <2>1. CASE UNCHANGED jobs
    BY <1>1, <1>4, <2>1 DEF OnModelsImported
  <2>2. CASE JobSlotLeft /\ jobs' = [jobs EXCEPT ![FreeJob] = Launched("init")]
    BY <1>4, <2>2, FreeJobIsFree, LaunchOwnsNothing, NoNewOwner
       DEF OnModelsImported, TypeOK
  <2> QED
    BY <1>4, <2>1, <2>2 DEF OnModelsImported
<1>5. CASE NotificationArrives
  BY <1>5, FreeJobIsFree, LaunchOwnsNothing, NoNewOwner
     DEF NotificationArrives, TypeOK
<1>6. ASSUME NEW s \in CallStates, ReportState(s)
      PROVE  VerdictExclusive'
  BY <1>1, <1>6, StopCapturingExclusive DEF ReportState, CollectorReacts
<1>7. ASSUME NEW c \in CollectorIds, AnalysisCrashes(c)
      PROVE  VerdictExclusive'
  <2>1. \A j \in JobIds : ~Owns(jobs', j)
    BY <1>7 DEF AnalysisCrashes, Owns, NoJob
  <2> QED
    BY <2>1, ExclusiveIsVerdictExclusive DEF Exclusive
<1>8. ASSUME NEW c \in CollectorIds,
             \/ TextProcessed(c) \/ SnapshotTaken(c) \/ AnalysisReturns(c)
             \/ CancelledAnalysisReturns(c)
      PROVE  VerdictExclusive'
  BY <1>1, <1>8 DEF TextProcessed, SnapshotTaken, AnalysisReturns,
                    CancelledAnalysisReturns
<1>9. CASE ModelFileAppears \/ TextTranscribed \/ IntervalElapses \/ UNCHANGED vars
  BY <1>1, <1>9 DEF ModelFileAppears, TextTranscribed, IntervalElapses, vars
<1> QED
  BY <1>2, <1>3, <1>4, <1>5, <1>6, <1>7, <1>8, <1>9, JobStepExclusive
     DEF Next, UserStep, AnalyzerStep

\* Two end-of-call verdicts never run together, whatever the number of jobs.
THEOREM VerdictExclusiveHolds == Spec => []VerdictExclusive
<1>1. Init => VerdictExclusive
  BY DEF Init, VerdictExclusive, OwnsFlag, NoJob
<1> QED
  BY <1>1, InitTypes, NextTypes, VerdictExclusiveInductive, PTL DEF Spec

(***************************************************************************)
(* Capture has consumers.                                                  *)
(***************************************************************************)

\* CaptureIsConsumed is not inductive: startCapturing launches no collector when
\* the collecting flags say one runs.  The flags are set exactly while capturing.
ConsumerInv ==
    /\ collectingTranscripts = capturing
    /\ collectingAnalysis = capturing
    /\ CaptureIsConsumed

\* The collectors left alone, a capture stays consumed.
LEMMA ConsumersKept ==
    ASSUME ConsumerInv, UNCHANGED captureVars,
           UNCHANGED <<collectingTranscripts, collectingAnalysis>>,
           \A c \in CollectorIds : transcribers[c].on => transcribers'[c].on,
           \A c \in CollectorIds : IsLive(c) => IsLive(c)'
    PROVE  ConsumerInv'
BY DEF ConsumerInv, CaptureIsConsumed, captureVars

\* From a coordinator that does not capture, startCapturing gives both flows a
\* collector.
LEMMA StartCapturingConsumed ==
    ASSUME TypeOK, ConsumerInv, StartCapturing
    PROVE  ConsumerInv'
<1>1. ~collectingTranscripts /\ ~collectingAnalysis
  BY DEF StartCapturing, ConsumerInv
<1>2. FreeTranscriber \in CollectorIds /\ FreeAnalyzer \in CollectorIds
  BY FreeCollectorIsFree DEF StartCapturing
<1>3. transcribers'[FreeTranscriber].on
  BY <1>1, <1>2 DEF StartCapturing, TypeOK
<1>4. \E d \in CollectorIds : analyzers'[d].pc = "idle"
  BY <1>1, <1>2 DEF StartCapturing, TypeOK
<1>5. /\ capturing' = TRUE /\ collectingTranscripts' = TRUE
      /\ collectingAnalysis' = TRUE /\ mic' = "START" /\ sttRunning' = TRUE
  BY DEF StartCapturing
<1> QED
  BY <1>2, <1>3, <1>4, <1>5 DEF ConsumerInv, CaptureIsConsumed, IsLive

\* The end of a capture closes the consumers' side with it.
LEMMA StopCapturingConsumed ==
    ASSUME StopCapturing
    PROVE  ConsumerInv'
BY DEF StopCapturing, CollectingCleared, ConsumerInv, CaptureIsConsumed

\* Taking a snapshot moves one idle collector: to classifying, or, with the
\* status unchanged, back to idle.
LEMMA SnapshotTakenMoves ==
    ASSUME TypeOK, NEW c \in CollectorIds, SnapshotTaken(c)
    PROVE  /\ analyzers[c].pc = "idle"
           /\ \A d \in CollectorIds \ {c} : analyzers'[d] = analyzers[d]
           /\ \/ analyzers'[c].pc = "classifying"
              \/ analyzers'[c].pc = "idle" /\ status' = status
<1> DEFINE rest == Tail(analyzers[c].inbox)
<1>1. analyzers[c].pc = "idle" /\ analyzers[c] \in Analyzer
  BY DEF SnapshotTaken, HasSnapshot, TypeOK
<1>2. CASE analyzers' = [analyzers EXCEPT ![c].inbox = rest] /\ status' = status
  <2>1. [analyzers[c] EXCEPT !.inbox = rest].pc = "idle"
    BY <1>1 DEF Analyzer
  <2>2. analyzers' = [analyzers EXCEPT ![c] = [analyzers[c] EXCEPT !.inbox = rest]]
    BY <1>2
  <2> HIDE DEF rest
  <2>3. analyzers'[c] = [analyzers[c] EXCEPT !.inbox = rest]
    BY <2>2 DEF TypeOK
  <2>4. \A d \in CollectorIds \ {c} : analyzers'[d] = analyzers[d]
    BY <2>2 DEF TypeOK
  <2> QED
    BY <1>1, <1>2, <2>1, <2>3, <2>4
<1>3. CASE analyzers' = [analyzers EXCEPT ![c] = [pc |-> "classifying", inbox |-> rest]]
  BY <1>1, <1>3 DEF TypeOK
<1> QED
  BY <1>2, <1>3 DEF SnapshotTaken

\* A step of a collector leaves it, and every other, collecting.
LEMMA CollectorStepConsumed ==
    ASSUME TypeOK, ConsumerInv, NEW c \in CollectorIds,
           TextProcessed(c) \/ AnalyzerStep(c)
    PROVE  ConsumerInv'
<1> USE DEF collectorVars
<1>1. CASE TextProcessed(c)
  <2>1. \A d \in CollectorIds : transcribers[d].on => transcribers'[d].on
    <3>1. \A d \in CollectorIds : transcribers'[d].on = transcribers[d].on
      BY <1>1 DEF TextProcessed, TypeOK, Transcriber
    <3> QED
      BY <3>1
  <2>2. \A d \in CollectorIds : analyzers'[d].pc = analyzers[d].pc
    <3>1. ASSUME NEW d \in CollectorIds
          PROVE  Offered(d, conversation + 1).pc = analyzers[d].pc
      <4>1. analyzers[d] \in Analyzer
        BY DEF TypeOK
      <4> QED
        BY <4>1 DEF Offered, Analyzer
    <3> QED
      BY <1>1, <3>1 DEF TextProcessed
  <2>3. \A d \in CollectorIds : IsLive(d) => IsLive(d)'
    BY <2>2 DEF IsLive
  <2> QED
    BY <1>1, <2>1, <2>3, ConsumersKept DEF TextProcessed
<1>2. CASE SnapshotTaken(c)
  <2>1. \A d \in CollectorIds : IsLive(d) => analyzers'[d].pc \in {"idle", "classifying"}
    BY <1>2, SnapshotTakenMoves DEF IsLive
  <2>2. \A d \in CollectorIds : IsLive(d) => IsLive(d)'
    BY <2>1 DEF IsLive
  <2> QED
    BY <1>2, <2>2, ConsumersKept DEF SnapshotTaken
<1>3. CASE AnalysisReturns(c)
  <2>1. \A d \in CollectorIds : IsLive(d) => analyzers'[d].pc \in {"idle", "classifying"}
    BY <1>3 DEF AnalysisReturns, IsLive, TypeOK, Analyzer
  <2>2. \A d \in CollectorIds : IsLive(d) => IsLive(d)'
    BY <2>1 DEF IsLive
  <2> QED
    BY <1>3, <2>2, ConsumersKept DEF AnalysisReturns
<1>4. CASE CancelledAnalysisReturns(c)
  <2>1. \A d \in CollectorIds : IsLive(d) => analyzers'[d].pc \in {"idle", "classifying"}
    BY <1>4 DEF CancelledAnalysisReturns, IsLive, TypeOK, Analyzer
  <2>2. \A d \in CollectorIds : IsLive(d) => IsLive(d)'
    BY <2>1 DEF IsLive
  <2> QED
    BY <1>4, <2>2, ConsumersKept DEF CancelledAnalysisReturns
<1>5. CASE AnalysisCrashes(c)
  BY <1>5 DEF AnalysisCrashes, ConsumerInv, CaptureIsConsumed
<1> QED
  BY <1>1, <1>2, <1>3, <1>4, <1>5 DEF AnalyzerStep

\* ConsumerInv is inductive, given the types.
LEMMA ConsumerInvInductive ==
    TypeOK /\ ConsumerInv /\ [Next]_vars => ConsumerInv'
<1> SUFFICES ASSUME TypeOK, ConsumerInv, [Next]_vars
             PROVE  ConsumerInv'
  OBVIOUS
<1>1. CASE UNCHANGED <<captureVars, collectorVars, analysisVars>>
  BY <1>1, ConsumersKept DEF collectorVars, analysisVars, IsLive
<1>2. CASE Enable
  BY <1>1, <1>2, StartCapturingConsumed DEF Enable, CaptureOnEnable
<1>3. CASE Disable
  BY <1>3 DEF Disable, CollectingCleared, ConsumerInv, CaptureIsConsumed
<1>4. ASSUME NEW s \in CallStates, ReportState(s)
      PROVE  ConsumerInv'
  BY <1>1, <1>4, StartCapturingConsumed, StopCapturingConsumed
     DEF ReportState, CollectorReacts
<1>5. CASE TextTranscribed
  <2>1. \A d \in CollectorIds : transcribers[d].on => transcribers'[d].on
    BY <1>5 DEF TextTranscribed, TypeOK, Transcriber
  <2>2. \A d \in CollectorIds : IsLive(d) => IsLive(d)'
    BY <1>5 DEF TextTranscribed, analysisVars, IsLive
  <2> QED
    BY <1>5, <2>1, <2>2, ConsumersKept DEF TextTranscribed
<1>6. CASE IntervalElapses
  <2>1. \A d \in CollectorIds : IsLive(d) => IsLive(d)'
    BY <1>6 DEF IntervalElapses, IsLive
  <2> QED
    BY <1>6, <2>1, ConsumersKept DEF IntervalElapses, collectorVars
<1>7. CASE ModelFileAppears \/ OnModelsImported \/ NotificationArrives \/ UNCHANGED vars
  BY <1>1, <1>7 DEF ModelFileAppears, OnModelsImported, NotificationArrives, vars
<1>8. ASSUME NEW j \in JobIds, JobStep(j)
      PROVE  UNCHANGED <<captureVars, collectorVars, analysisVars>>
  <2> USE DEF pipelineVars
  <2>1. CASE InitStep(j)
    BY <2>1 DEF InitStep, InitChecksModel, InitGivesUp, InitLoads, InitReports
  <2>2. CASE ReleaseRuns(j)
    BY <2>2 DEF ReleaseRuns
  <2>3. CASE ClassificationStep(j)
    BY <2>3 DEF ClassificationStep, JobBegins, JobClassifies, VerdictClearsFlag,
                VerdictChecksCapture, VerdictSetsIdle
  <2> QED
    BY <1>8, <2>1, <2>2, <2>3 DEF JobStep
<1> QED
  BY <1>1, <1>2, <1>3, <1>4, <1>5, <1>6, <1>7, <1>8, CollectorStepConsumed
     DEF Next, UserStep

\* Whatever the history of calls and toggles, a capture has consumers for its
\* transcripts and its snapshots.
THEOREM CaptureIsConsumedHolds == Spec => []CaptureIsConsumed
<1>1. Init => ConsumerInv
  BY DEF Init, ConsumerInv, CaptureIsConsumed
<1>2. ConsumerInv => CaptureIsConsumed
  BY DEF ConsumerInv
<1> QED
  BY <1>1, <1>2, InitTypes, NextTypes, ConsumerInvInductive, PTL DEF Spec

(***************************************************************************)
(* Whoever is at work sets the status when it is done.                     *)
(***************************************************************************)

\* Work in progress of a given state of the coordinator.
Settling(table, j) == table[j].kind = "verdict" /\ table[j].pc \in {"checking", "settling"}
Classifying(collectors) == \E c \in CollectorIds : collectors[c].pc = "classifying"

\* The status is IDLE unless something is still to set it: the capture, an
\* analysis, a verdict past its finally, or one that has, or should have, the flag.
WorkSettles ==
    \/ capturing
    \/ finalVerdictRunning
    \/ Classifying(analyzers)
    \/ \E j \in JobIds : Settling(jobs, j)
    \/ status = "IDLE"

\* The same of the next state.
LEMMA SettlesForm ==
    WorkSettles' <=>
        \/ capturing'
        \/ finalVerdictRunning'
        \/ Classifying(analyzers')
        \/ \E j \in JobIds : Settling(jobs', j)
        \/ status' = "IDLE"
BY DEF WorkSettles, Settling, Classifying

\* A step that keeps every piece of work in progress and the status keeps it.
LEMMA WorkKept ==
    ASSUME WorkSettles, status' = status, capturing => capturing',
           finalVerdictRunning => finalVerdictRunning',
           Classifying(analyzers) => Classifying(analyzers'),
           \A j \in JobIds : Settling(jobs, j) => Settling(jobs', j)
    PROVE  WorkSettles'
BY SettlesForm DEF WorkSettles

\* A step of a job ends work only by handing it on or by showing IDLE.
LEMMA JobStepSettles ==
    ASSUME TypeOK, WorkSettles, NEW i \in JobIds, JobStep(i)
    PROVE  WorkSettles'
<1> USE DEF pipelineVars, captureVars, analysisVars
<1>1. CASE VerdictSetsIdle(i)
  BY <1>1, SettlesForm DEF VerdictSetsIdle
<1>2. CASE VerdictClearsFlag(i)
  <2>1. Settling(jobs', i)
    BY <1>2 DEF VerdictClearsFlag, At, Goto, Settling, TypeOK, Job
  <2> QED
    BY <2>1, SettlesForm
<1>8. CASE VerdictChecksCapture(i)
  <2>1. CASE capturing
    BY <1>8, <2>1, SettlesForm DEF VerdictChecksCapture
  <2>2. CASE ~capturing
    <3>1. Settling(jobs', i)
      BY <1>8, <2>2 DEF VerdictChecksCapture, At, Goto, Settling, TypeOK, Job
    <3> QED
      BY <3>1, SettlesForm
  <2> QED
    BY <2>1, <2>2
<1>3. ASSUME ~Settling(jobs, i), UNCHANGED <<pipelineVars, finalVerdictRunning>>,
             Finish(i) \/ \E pc \in JobPcs : Goto(i, pc)
      PROVE  WorkSettles'
  <2>1. \A j \in JobIds : Settling(jobs, j) => Settling(jobs', j)
    BY <1>3 DEF Finish, Goto, Settling, TypeOK
  <2> QED
    BY <1>3, <2>1, WorkKept
<1>4. CASE InitStep(i)
  <2>1. ~Settling(jobs, i) /\ UNCHANGED <<pipelineVars, finalVerdictRunning>>
    BY <1>4 DEF InitStep, InitChecksModel, InitGivesUp, InitLoads, InitReports, At,
                Settling
  <2>2. Finish(i) \/ \E pc \in JobPcs : Goto(i, pc)
    BY <1>4 DEF InitStep, InitChecksModel, InitGivesUp, InitLoads, InitReports,
                JobPcs
  <2> QED
    BY <1>3, <2>1, <2>2
<1>5. CASE ReleaseRuns(i)
  BY <1>3, <1>5 DEF ReleaseRuns, At, Settling
<1>6. CASE JobBegins(i)
  BY <1>3, <1>6 DEF JobBegins, Settling, JobPcs
<1>7. CASE JobClassifies(i)
  BY <1>3, <1>7 DEF JobClassifies, AfterClassify, Settling, JobPcs
<1> QED
  BY <1>1, <1>2, <1>4, <1>5, <1>6, <1>7, <1>8 DEF JobStep, ClassificationStep

\* WorkSettles is inductive, given the types.
LEMMA WorkSettlesInductive ==
    TypeOK /\ WorkSettles /\ [Next]_vars => WorkSettles'
<1> SUFFICES ASSUME TypeOK, WorkSettles, [Next]_vars
             PROVE  WorkSettles'
  OBVIOUS
<1> USE DEF captureVars, analysisVars
<1>1. CASE UNCHANGED <<capturing, finalVerdictRunning, analyzers, jobs, status>>
  BY <1>1, WorkKept
<1>2. CASE status' = "IDLE" \/ capturing' \/ finalVerdictRunning'
  BY <1>2, SettlesForm
<1>3. CASE Enable
  <2>1. CASE StartCapturing
    BY <1>2, <2>1 DEF StartCapturing
  <2>2. CASE UNCHANGED <<captureVars, collectorVars, analysisVars, status>>
    <3> DEFINE orphans == [j \in JobIds |-> Orphaned(jobs[j])]
    <3>1. \A j \in JobIds : orphans[j].kind = jobs[j].kind /\ orphans[j].pc = jobs[j].pc
      BY DEF Orphaned, TypeOK, Job
    <3>2. \/ jobs' = orphans
          \/ /\ jobs' = [orphans EXCEPT ![FreeJob] = Launched("init")]
             /\ FreeJob \in JobIds /\ jobs[FreeJob] = NoJob
      BY <1>3, FreeJobIsFree DEF Enable
    <3>3. \A j \in JobIds : Settling(jobs, j) => jobs'[j] = orphans[j]
      <4>1. ASSUME NEW j \in JobIds, Settling(jobs, j)
            PROVE  jobs'[j] = orphans[j]
        <5>1. jobs[j] # NoJob
          BY <4>1 DEF Settling, NoJob
        <5> QED
          BY <3>2, <5>1
      <4> QED
        BY <4>1
    <3>4. \A j \in JobIds : Settling(jobs, j) => Settling(jobs', j)
      BY <3>1, <3>3 DEF Settling
    <3> QED
      BY <1>3, <2>2, <3>4, WorkKept DEF Enable
  <2> QED
    BY <1>3, <2>1, <2>2 DEF Enable, CaptureOnEnable
<1>4. CASE Disable
  BY <1>2, <1>4 DEF Disable
<1>5. ASSUME NEW s \in CallStates, ReportState(s)
      PROVE  WorkSettles'
  <2>1. CASE StartCapturing \/ StopCapturing
    BY <1>2, <2>1 DEF StartCapturing, StopCapturing
  <2>2. CASE UNCHANGED <<captureVars, collectorVars, analysisVars, conversation,
                         finalVerdictRunning, status, jobs>>
    BY <1>1, <2>2
  <2> QED
    BY <1>5, <2>1, <2>2 DEF ReportState, CollectorReacts
<1>6. ASSUME NEW kind \in {"init", "notification"}, JobSlotLeft,
             jobs' = [jobs EXCEPT ![FreeJob] = Launched(kind)],
             UNCHANGED <<capturing, finalVerdictRunning, analyzers, status>>
      PROVE  WorkSettles'
  <2>1. \A j \in JobIds : Settling(jobs, j) => jobs'[j] = jobs[j]
    BY <1>6, FreeJobIsFree DEF Settling, NoJob, TypeOK
  <2> QED
    BY <1>6, <2>1, WorkKept DEF Settling
<1>7. CASE OnModelsImported
  BY <1>1, <1>6, <1>7 DEF OnModelsImported
<1>8. CASE NotificationArrives
  BY <1>6, <1>8 DEF NotificationArrives
<1>9. CASE ModelFileAppears \/ TextTranscribed \/ IntervalElapses \/ UNCHANGED vars
  BY <1>1, <1>9 DEF ModelFileAppears, TextTranscribed, IntervalElapses, vars
<1>10. ASSUME NEW c \in CollectorIds, TextProcessed(c) \/ AnalyzerStep(c)
       PROVE  WorkSettles'
  <2>1. CASE TextProcessed(c)
    <3>1. \A d \in CollectorIds : Offered(d, conversation + 1).pc = analyzers[d].pc
      <4>1. \A d \in CollectorIds : analyzers[d] \in Analyzer
        BY DEF TypeOK
      <4> QED
        BY <4>1 DEF Offered, Analyzer
    <3>2. Classifying(analyzers) => Classifying(analyzers')
      BY <2>1, <3>1 DEF TextProcessed, Classifying
    <3> QED
      BY <2>1, <3>2, WorkKept DEF TextProcessed
  <2>2. CASE SnapshotTaken(c)
    <3>1. CASE Classifying(analyzers')
      BY <3>1, SettlesForm
    <3>2. CASE ~Classifying(analyzers')
      <4>1. status' = status
        BY <2>2, <3>2, SnapshotTakenMoves DEF Classifying
      <4>2. \A d \in CollectorIds : analyzers[d].pc = "classifying"
                                     => analyzers'[d] = analyzers[d]
        BY <2>2, SnapshotTakenMoves
      <4>3. ~Classifying(analyzers)
        BY <3>2, <4>2 DEF Classifying
      <4> QED
        BY <2>2, <4>1, <4>3, WorkKept DEF SnapshotTaken
    <3> QED
      BY <3>1, <3>2
  <2>3. CASE AnalysisReturns(c)
    BY <2>3, SettlesForm DEF AnalysisReturns, StatusAfterAnalysis
  <2>4. CASE CancelledAnalysisReturns(c)
    <3>1. Classifying(analyzers) => Classifying(analyzers')
      BY <2>4 DEF CancelledAnalysisReturns, Classifying, TypeOK
    <3> QED
      BY <2>4, <3>1, WorkKept DEF CancelledAnalysisReturns
  <2>5. CASE AnalysisCrashes(c)
    BY <1>2, <2>5 DEF AnalysisCrashes
  <2> QED
    BY <1>10, <2>1, <2>2, <2>3, <2>4, <2>5 DEF AnalyzerStep
<1> QED
  BY <1>3, <1>4, <1>5, <1>7, <1>8, <1>9, <1>10, JobStepSettles
     DEF Next, UserStep

(***************************************************************************)
(* Late results.                                                           *)
(***************************************************************************)

\* A disabled coordinator has no live collector: disabling cancels them all, and
\* only an enabled one starts new ones.
DisabledIsQuiet == ~started => \A c \in CollectorIds : ~IsLive(c)

\* A step that makes no collector live in a disabled coordinator.
LEMMA QuietKept ==
    ASSUME DisabledIsQuiet, started' = started \/ started',
           \A c \in CollectorIds : IsLive(c)' => IsLive(c)
    PROVE  DisabledIsQuiet'
BY DEF DisabledIsQuiet

\* Every step keeps a disabled coordinator without a live collector.
LEMMA DisabledIsQuietInductive ==
    TypeOK /\ DisabledIsQuiet /\ [Next]_vars => DisabledIsQuiet'
<1> SUFFICES ASSUME TypeOK, DisabledIsQuiet, [Next]_vars
             PROVE  DisabledIsQuiet'
  OBVIOUS
<1> USE DEF analysisVars
<1>1. CASE UNCHANGED <<started, analyzers>>
  BY <1>1, QuietKept DEF IsLive
<1>2. CASE started'
  BY <1>2 DEF DisabledIsQuiet
<1>3. CASE Disable
  <2>1. \A c \in CollectorIds : analyzers'[c].pc \in {"cancelled", "off"}
    BY <1>3 DEF Disable, CancelledAnalyzer, NoAnalyzer
  <2> QED
    BY <2>1 DEF DisabledIsQuiet, IsLive
<1>4. ASSUME NEW s \in CallStates, ReportState(s)
      PROVE  DisabledIsQuiet'
  <2>1. CASE started
    BY <1>2, <1>4, <2>1 DEF ReportState
  <2>2. CASE ~started
    BY <1>1, <1>4, <2>2 DEF ReportState
  <2> QED
    BY <2>1, <2>2
<1>5. ASSUME NEW c \in CollectorIds, TextProcessed(c)
      PROVE  DisabledIsQuiet'
  <2>1. ASSUME NEW d \in CollectorIds
        PROVE  Offered(d, conversation + 1).pc = analyzers[d].pc
    <3>1. analyzers[d] \in Analyzer
      BY DEF TypeOK
    <3> QED
      BY <3>1 DEF Offered, Analyzer
  <2>2. \A d \in CollectorIds : analyzers'[d].pc = analyzers[d].pc
    BY <1>5, <2>1 DEF TextProcessed
  <2> QED
    BY <1>5, <2>2, QuietKept DEF TextProcessed, IsLive
<1>6. ASSUME NEW c \in CollectorIds, AnalyzerStep(c)
      PROVE  DisabledIsQuiet'
  <2>1. CASE SnapshotTaken(c)
    <3>1. IsLive(c) /\ started' = started
      BY <2>1, SnapshotTakenMoves DEF IsLive, SnapshotTaken
    <3> QED
      BY <1>6, <3>1 DEF DisabledIsQuiet
  <2>2. CASE AnalysisReturns(c)
    <3>1. IsLive(c) /\ started' = started
      BY <2>2 DEF IsLive, AnalysisReturns
    <3> QED
      BY <1>6, <3>1 DEF DisabledIsQuiet
  <2>3. CASE CancelledAnalysisReturns(c)
    <3>1. \A d \in CollectorIds : analyzers'[d] \in {analyzers[d], NoAnalyzer}
      BY <2>3 DEF CancelledAnalysisReturns, TypeOK
    <3> QED
      BY <2>3, <3>1, QuietKept DEF CancelledAnalysisReturns, IsLive, NoAnalyzer
  <2>4. CASE AnalysisCrashes(c)
    BY <2>4 DEF AnalysisCrashes, DisabledIsQuiet, IsLive, NoAnalyzer
  <2> QED
    BY <1>6, <2>1, <2>2, <2>3, <2>4 DEF AnalyzerStep
<1>7. ASSUME NEW j \in JobIds, JobStep(j)
      PROVE  UNCHANGED <<started, analyzers>>
  <2> USE DEF pipelineVars
  <2>1. CASE InitStep(j) \/ ReleaseRuns(j)
    BY <2>1 DEF InitStep, InitChecksModel, InitGivesUp, InitLoads, InitReports, ReleaseRuns
  <2>2. CASE ClassificationStep(j)
    BY <2>2 DEF ClassificationStep, JobBegins, JobClassifies, VerdictClearsFlag,
                VerdictChecksCapture, VerdictSetsIdle
  <2> QED
    BY <1>7, <2>1, <2>2 DEF JobStep
<1>8. CASE Enable
  BY <1>2, <1>8 DEF Enable
<1>9. CASE \/ ModelFileAppears \/ OnModelsImported \/ TextTranscribed
           \/ IntervalElapses \/ NotificationArrives \/ UNCHANGED vars
  BY <1>1, <1>9 DEF ModelFileAppears, OnModelsImported, TextTranscribed, IntervalElapses,
                    NotificationArrives, vars
<1> QED
  BY <1>1, <1>3, <1>4, <1>5, <1>6, <1>7, <1>8, <1>9 DEF Next, UserStep

\* A step that raises an alert while detection is disabled is a step of a job.
LEMMA StepDropsLateResult ==
    ASSUME TypeOK, DisabledIsQuiet, [Next]_vars, ~started, jobs' = jobs, alertActive'
    PROVE  alertActive
<1>1. CASE UNCHANGED alertActive
  BY <1>1
<1>2. CASE UserStep
  BY <1>2 DEF UserStep, Enable, Disable, OnModelsImported, ModelFileAppears, worldVars
<1>3. ASSUME NEW c \in CollectorIds, TextProcessed(c) \/ AnalyzerStep(c)
      PROVE  alertActive
  <2>1. ~AnalysisReturns(c)
    BY DEF AnalysisReturns, DisabledIsQuiet, IsLive
  <2> QED
    BY <1>3, <2>1 DEF TextProcessed, AnalyzerStep, SnapshotTaken,
       CancelledAnalysisReturns, AnalysisCrashes, worldVars
<1>4. ASSUME NEW j \in JobIds, JobStep(j)
      PROVE  alertActive
  <2>1. CASE JobClassifies(j)
    <3>1. jobs[j] \in Job /\ jobs[j].pc = "classifying"
      BY <2>1 DEF JobClassifies, TypeOK
    <3>2. jobs'[j].pc \in {"finally", "done"}
      BY <2>1, <3>1 DEF JobClassifies, AfterClassify, Goto, Finish, NoJob, TypeOK, Job
    <3> QED
      BY <3>1, <3>2
  <2>2. CASE InitStep(j) \/ ReleaseRuns(j)
    BY <2>2 DEF InitStep, InitChecksModel, InitGivesUp, InitLoads, InitReports, ReleaseRuns,
                worldVars
  <2>3. CASE \/ JobBegins(j) \/ VerdictClearsFlag(j) \/ VerdictChecksCapture(j)
             \/ VerdictSetsIdle(j)
    BY <2>3 DEF JobBegins, VerdictClearsFlag, VerdictChecksCapture, VerdictSetsIdle,
                worldVars
  <2> QED
    BY <1>4, <2>1, <2>2, <2>3 DEF JobStep, ClassificationStep
<1> QED
  BY <1>1, <1>2, <1>3, <1>4 DEF Next, ReportState, TextTranscribed, IntervalElapses,
     NotificationArrives, vars, worldVars

\* A mid-call result that comes back after detection was disabled is dropped.
THEOREM LateResultDroppedHolds == Spec => LateResultDropped
<1>1. Init => DisabledIsQuiet
  BY DEF Init, DisabledIsQuiet, IsLive, NoAnalyzer
<1>2. Spec => []DisabledIsQuiet
  BY <1>1, InitTypes, NextTypes, DisabledIsQuietInductive, PTL DEF Spec
<1>3. TypeOK /\ DisabledIsQuiet /\ [Next]_vars
        => [~started /\ jobs' = jobs /\ alertActive' => alertActive]_vars
  BY StepDropsLateResult
<1> QED
  BY <1>2, <1>3, TypeCorrect, PTL DEF Spec, LateResultDropped

(***************************************************************************)
(* The dashboard settles.                                                  *)
(***************************************************************************)

\* No verdict is left to clear finalVerdictRunning.
Abandoned(table) == \A j \in JobIds : ~Owns(table, j)

\* WorkSettles takes the flag for a verdict.  What that costs: only disabling
\* abandons a set flag, so until detection is enabled again the coordinator is
\* disabled and shows IDLE.  And LISTENING is never shown without a capture.
LossInv ==
    /\ started => spent["toggle"] >= 1
    /\ status = "LISTENING" => capturing
    /\ finalVerdictRunning /\ Abandoned(jobs) =>
          \/ spent["toggle"] > 2
          \/ spent["toggle"] = 2 /\ ~started /\ status = "IDLE"

\* The same of the next state.
LEMMA LossForm ==
    LossInv' <=>
        /\ started' => spent'["toggle"] >= 1
        /\ status' = "LISTENING" => capturing'
        /\ finalVerdictRunning' /\ Abandoned(jobs') =>
              \/ spent'["toggle"] > 2
              \/ spent'["toggle"] = 2 /\ ~started' /\ status' = "IDLE"
BY DEF LossInv, Abandoned, Owns

\* A step that neither toggles nor abandons a flag, and that changes the status of
\* a disabled coordinator to nothing but IDLE.
LEMMA LossKept ==
    ASSUME LossInv, spent'["toggle"] = spent["toggle"], started' = started,
           status' \in {status, "IDLE"} \/ started,
           status' = "LISTENING" => capturing',
           finalVerdictRunning' /\ Abandoned(jobs') => finalVerdictRunning /\ Abandoned(jobs)
    PROVE  LossInv'
BY LossForm DEF LossInv

\* Its job table left alone or a job launched into a free slot, nothing is abandoned.
LEMMA LaunchAbandonsNothing ==
    ASSUME TypeOK, JobSlotLeft, NEW kind,
           jobs' = [jobs EXCEPT ![FreeJob] = Launched(kind)]
    PROVE  Abandoned(jobs') => Abandoned(jobs)
<1>1. FreeJob \in JobIds /\ jobs[FreeJob] = NoJob
  BY FreeJobIsFree
<1>2. ~Owns(jobs, FreeJob)
  BY <1>1 DEF Owns, NoJob
<1>3. \A j \in JobIds : j # FreeJob => jobs'[j] = jobs[j]
  BY DEF TypeOK
<1> QED
  BY <1>2, <1>3 DEF Abandoned, Owns

\* A step of a job abandons no flag: the verdict that ends its ownership clears it.
LEMMA JobStepLoss ==
    ASSUME TypeOK, LossInv, NEW i \in JobIds, JobStep(i)
    PROVE  LossInv'
<1> USE DEF pipelineVars, captureVars
<1>1. ASSUME UNCHANGED <<spent, started, capturing>>, status' \in {status, "IDLE"},
             finalVerdictRunning' /\ Abandoned(jobs')
                 => finalVerdictRunning /\ Abandoned(jobs)
      PROVE  LossInv'
  <2>1. status' = "LISTENING" => capturing'
    BY <1>1 DEF LossInv
  <2> QED
    BY <1>1, <2>1, LossKept
<1>2. ASSUME ~Owns(jobs, i), Finish(i) \/ \E pc \in JobPcs : Goto(i, pc)
      PROVE  Abandoned(jobs') => Abandoned(jobs)
  <2>1. \A j \in JobIds : j # i => jobs'[j] = jobs[j]
    BY <1>2 DEF Finish, Goto, TypeOK
  <2> QED
    BY <1>2, <2>1 DEF Abandoned, Owns
<1>3. ASSUME NEW pc \in JobPcs \ {"checking", "settling"}, Goto(i, pc)
      PROVE  Abandoned(jobs') => Abandoned(jobs)
  <2>1. \A j \in JobIds : Owns(jobs, j) => Owns(jobs', j)
    BY <1>3 DEF Goto, Owns, TypeOK, Job
  <2> QED
    BY <2>1 DEF Abandoned
<1>4. CASE InitStep(i)
  <2>1. jobs[i].kind = "init" /\ UNCHANGED <<pipelineVars, finalVerdictRunning>>
    BY <1>4 DEF InitStep, InitChecksModel, InitGivesUp, InitLoads, InitReports, At
  <2>2. Finish(i) \/ \E pc \in JobPcs : Goto(i, pc)
    BY <1>4 DEF InitStep, InitChecksModel, InitGivesUp, InitLoads, InitReports,
                JobPcs
  <2>3. ~Owns(jobs, i)
    BY <2>1 DEF Owns
  <2> QED
    BY <1>1, <1>2, <2>1, <2>2, <2>3
<1>5. CASE ReleaseRuns(i)
  <2>1. ~Owns(jobs, i)
    BY <1>5 DEF ReleaseRuns, At, Owns
  <2> QED
    BY <1>1, <1>2, <1>5, <2>1 DEF ReleaseRuns
<1>6. CASE JobBegins(i)
  BY <1>1, <1>3, <1>6 DEF JobBegins, JobPcs
<1>7. CASE JobClassifies(i)
  <2>1. Abandoned(jobs') => Abandoned(jobs)
    <3>1. CASE jobs[i].kind = "verdict"
      BY <1>3, <1>7, <3>1 DEF JobClassifies, AfterClassify, JobPcs
    <3>2. CASE jobs[i].kind # "verdict"
      <4>1. Finish(i) /\ ~Owns(jobs, i)
        BY <1>7, <3>2 DEF JobClassifies, AfterClassify, Owns
      <4> QED
        BY <1>2, <4>1
    <3> QED
      BY <3>1, <3>2
  <2> QED
    BY <1>1, <1>7, <2>1 DEF JobClassifies
<1>8. CASE VerdictClearsFlag(i)
  BY <1>1, <1>8 DEF VerdictClearsFlag
<1>9. CASE VerdictChecksCapture(i)
  <2>1. ~Owns(jobs, i)
    BY <1>9 DEF VerdictChecksCapture, At, Owns
  <2>2. Finish(i) \/ \E pc \in JobPcs : Goto(i, pc)
    BY <1>9 DEF VerdictChecksCapture, JobPcs
  <2> QED
    BY <1>1, <1>2, <1>9, <2>1, <2>2 DEF VerdictChecksCapture
<1>10. CASE VerdictSetsIdle(i)
  <2>1. ~Owns(jobs, i)
    BY <1>10 DEF VerdictSetsIdle, At, Owns
  <2> QED
    BY <1>1, <1>2, <1>10, <2>1 DEF VerdictSetsIdle
<1> QED
  BY <1>4, <1>5, <1>6, <1>7, <1>8, <1>9, <1>10 DEF JobStep, ClassificationStep

\* The step of disabling may abandon a flag; it is the second toggle at the least.
LEMMA DisableLoss ==
    ASSUME TypeOK, LossInv, Disable
    PROVE  LossInv'
<1>1. spent'["toggle"] = spent["toggle"] + 1 /\ spent["toggle"] \in Nat
  BY DEF Disable, Spend, TypeOK, Events
<1>2. spent["toggle"] >= 1
  BY DEF Disable, LossInv
<1>3. ~started' /\ status' = "IDLE"
  BY DEF Disable
<1> QED
  BY <1>1, <1>2, <1>3, LossForm

\* Enabling abandons nothing; a flag abandoned before is now of a later session.
LEMMA EnableLoss ==
    ASSUME TypeOK, LossInv, Enable
    PROVE  LossInv'
<1> DEFINE orphans == [j \in JobIds |-> Orphaned(jobs[j])]
<1>1. spent'["toggle"] = spent["toggle"] + 1 /\ spent["toggle"] \in Nat
  BY DEF Enable, Spend, TypeOK, Events
<1>2. started' /\ finalVerdictRunning' = finalVerdictRunning
  BY DEF Enable
<1>3. status' = "LISTENING" => capturing'
  BY DEF Enable, CaptureOnEnable, StartCapturing, captureVars, LossInv
<1>4. \A j \in JobIds : orphans[j].kind = jobs[j].kind /\ orphans[j].pc = jobs[j].pc
  BY DEF Orphaned, TypeOK, Job
<1>5. \/ jobs' = orphans
      \/ /\ jobs' = [orphans EXCEPT ![FreeJob] = Launched("init")]
         /\ FreeJob \in JobIds /\ jobs[FreeJob] = NoJob
  BY FreeJobIsFree DEF Enable
<1>6. \A j \in JobIds : Owns(jobs, j) => jobs'[j] = orphans[j]
  <2>1. ASSUME NEW j \in JobIds, Owns(jobs, j)
        PROVE  jobs'[j] = orphans[j]
    <3>1. jobs[j] # NoJob
      BY <2>1 DEF Owns, NoJob
    <3> QED
      BY <1>5, <3>1
  <2> QED
    BY <2>1
<1>7. Abandoned(jobs') => Abandoned(jobs)
  BY <1>4, <1>6 DEF Abandoned, Owns
<1> HIDE DEF orphans
<1>8. finalVerdictRunning' /\ Abandoned(jobs') => spent["toggle"] >= 2
  BY <1>1, <1>2, <1>7 DEF LossInv
<1> QED
  BY <1>1, <1>2, <1>3, <1>8, LossForm

\* LossInv is inductive, given the types and that a disabled coordinator has no
\* live collector.
LEMMA LossInductive ==
    TypeOK /\ DisabledIsQuiet /\ LossInv /\ [Next]_vars => LossInv'
<1> SUFFICES ASSUME TypeOK, DisabledIsQuiet, LossInv, [Next]_vars
             PROVE  LossInv'
  OBVIOUS
<1> USE DEF captureVars, analysisVars
<1>1. status = "LISTENING" => capturing
  BY DEF LossInv
<1>2. ASSUME UNCHANGED <<started, capturing, status, finalVerdictRunning, jobs>>,
             spent'["toggle"] = spent["toggle"]
      PROVE  LossInv'
  BY <1>1, <1>2, LossKept
<1>3. ASSUME NEW e \in Events \ {"toggle"}, Spend(e)
      PROVE  spent'["toggle"] = spent["toggle"]
  BY <1>3 DEF Spend, TypeOK, Events
<1>4. ASSUME NEW s \in CallStates, ReportState(s)
      PROVE  LossInv'
  <2>1. spent'["toggle"] = spent["toggle"] /\ started' = started
    BY <1>3, <1>4 DEF ReportState, Events
  <2>2. CASE UNCHANGED <<capturing, finalVerdictRunning, status, jobs>>
    BY <1>2, <2>1, <2>2
  <2>3. CASE started /\ StartCapturing /\ UNCHANGED <<conversation, finalVerdictRunning, jobs>>
    BY <2>1, <2>3, LossKept DEF StartCapturing
  <2>4. CASE started /\ StopCapturing
    <3>1. status' # "LISTENING"
      BY <2>4 DEF StopCapturing
    <3>2. CASE VerdictDue
      <4>1. JobSlotLeft /\ jobs' = [jobs EXCEPT ![FreeJob] = Launched("verdict")]
        BY <2>4, <3>2 DEF StopCapturing
      <4>2. FreeJob \in JobIds
        BY <4>1, FreeJobIsFree
      <4>3. Owns(jobs', FreeJob)
        BY <4>1, <4>2 DEF Owns, Launched, TypeOK
      <4>4. ~Abandoned(jobs')
        BY <4>2, <4>3 DEF Abandoned
      <4> QED
        BY <2>1, <2>4, <3>1, <4>4, LossKept
    <3>3. CASE ~VerdictDue
      <4>1. UNCHANGED <<finalVerdictRunning, jobs>>
        BY <2>4, <3>3 DEF StopCapturing
      <4> QED
        BY <2>1, <2>4, <3>1, <4>1, LossKept
    <3> QED
      BY <3>2, <3>3
  <2> QED
    BY <1>4, <2>2, <2>3, <2>4 DEF ReportState, CollectorReacts
<1>5. ASSUME NEW kind, NEW e \in Events \ {"toggle"}, Spend(e), JobSlotLeft,
             jobs' = [jobs EXCEPT ![FreeJob] = Launched(kind)],
             UNCHANGED <<started, capturing, status, finalVerdictRunning>>
      PROVE  LossInv'
  BY <1>1, <1>3, <1>5, LaunchAbandonsNothing, LossKept
<1>6. CASE OnModelsImported
  BY <1>2, <1>3, <1>5, <1>6 DEF OnModelsImported, Events
<1>7. CASE NotificationArrives
  BY <1>5, <1>7 DEF NotificationArrives, Events
<1>8. CASE TextTranscribed
  BY <1>2, <1>3, <1>8 DEF TextTranscribed, Events
<1>9. CASE ModelFileAppears \/ IntervalElapses \/ UNCHANGED vars
  BY <1>2, <1>9 DEF ModelFileAppears, IntervalElapses, vars
<1>10. ASSUME NEW c \in CollectorIds, TextProcessed(c) \/ AnalyzerStep(c)
       PROVE  LossInv'
  <2>1. CASE TextProcessed(c) \/ CancelledAnalysisReturns(c)
    BY <1>2, <2>1 DEF TextProcessed, CancelledAnalysisReturns
  <2>2. CASE SnapshotTaken(c)
    <3>1. started
      BY <2>2, SnapshotTakenMoves DEF IsLive, DisabledIsQuiet
    <3>2. status' \in {status, "ANALYZING"}
      BY <2>2 DEF SnapshotTaken
    <3>3. UNCHANGED <<spent, started, capturing, finalVerdictRunning, jobs>>
      BY <2>2 DEF SnapshotTaken
    <3> QED
      BY <1>1, <3>1, <3>2, <3>3, LossKept
  <2>3. CASE AnalysisReturns(c)
    <3>1. started
      BY <2>3 DEF AnalysisReturns, IsLive, DisabledIsQuiet
    <3>2. status' = "LISTENING" => capturing
      BY <1>1, <2>3 DEF AnalysisReturns, StatusAfterAnalysis
    <3>3. UNCHANGED <<spent, started, capturing, finalVerdictRunning, jobs>>
      BY <2>3 DEF AnalysisReturns
    <3> QED
      BY <3>1, <3>2, <3>3, LossKept
  <2>4. CASE AnalysisCrashes(c)
    <3>1. ~started' /\ ~finalVerdictRunning' /\ status' = "IDLE"
      BY <2>4 DEF AnalysisCrashes
    <3> QED
      BY <3>1, LossForm
  <2> QED
    BY <1>10, <2>1, <2>2, <2>3, <2>4 DEF AnalyzerStep
<1> QED
  BY <1>4, <1>6, <1>7, <1>8, <1>9, <1>10, DisableLoss, EnableLoss, JobStepLoss
     DEF Next, UserStep

\* Together the two say what StatusSettles says.
LEMMA SettledUnlessLost ==
    TypeOK /\ WorkSettles /\ LossInv => StatusSettles
<1> SUFFICES ASSUME TypeOK, WorkSettles, LossInv, Quiet, status # "IDLE"
             PROVE  VerdictLost /\ status = "ANALYZING"
  BY DEF StatusSettles
<1>1. ~capturing /\ ~Classifying(analyzers) /\ \A j \in JobIds : ~Settling(jobs, j)
  BY DEF Quiet, Classifying, Settling
<1>2. finalVerdictRunning
  BY <1>1 DEF WorkSettles
<1>3. Abandoned(jobs)
  BY DEF Quiet, Abandoned, Owns
<1>4. spent["toggle"] > 2
  BY <1>2, <1>3 DEF LossInv
<1>5. status = "ANALYZING"
  BY <1>1 DEF LossInv, TypeOK, Statuses
<1> QED
  BY <1>2, <1>4, <1>5 DEF VerdictLost, Quiet

\* Once nothing captures, analyses or judges the dashboard shows IDLE, except on
\* ANALYZING in a session that inherited the flag of a cancelled verdict.
THEOREM StatusSettlesHolds == Spec => []StatusSettles
<1>1. Init => WorkSettles /\ DisabledIsQuiet /\ LossInv
  BY DEF Init, WorkSettles, DisabledIsQuiet, IsLive, NoAnalyzer, LossInv
<1>2. Spec => [](TypeOK /\ WorkSettles /\ LossInv)
  BY <1>1, InitTypes, NextTypes, WorkSettlesInductive, DisabledIsQuietInductive,
     LossInductive, PTL DEF Spec
<1> QED
  BY <1>2, SettledUnlessLost, PTL

(***************************************************************************)
(* The first session keeps its engine.                                     *)
(***************************************************************************)

\* In the first session no release job exists, because disabling, which launches
\* one, is at least the second toggle; so the engine, once a load has succeeded,
\* stays loaded, and whoever knows of the load may rely on it.
FirstSession == spent["toggle"] <= 1
EngineRelied ==
    \/ classifierReady
    \/ \E c \in CollectorIds : analyzers[c].pc = "classifying"
    \/ \E j \in JobIds : At(j, "init", "loaded")
ReleasePending == \E j \in JobIds : jobs[j].kind = "release"

FirstSessionInv ==
    /\ started => spent["toggle"] >= 1
    /\ FirstSession => ~ReleasePending /\ (EngineRelied => engineLoaded)

\* A step that toggles nothing, unloads nothing, and whose new reliance on the
\* engine rests on an older one.
LEMMA FirstSessionKept ==
    ASSUME FirstSessionInv,
           spent'["toggle"] = spent["toggle"], started' => started,
           ReleasePending' => ReleasePending,
           engineLoaded => engineLoaded',
           EngineRelied' => EngineRelied \/ engineLoaded'
    PROVE  FirstSessionInv'
BY DEF FirstSessionInv, FirstSession

\* Launching a job that releases nothing.
LEMMA LaunchReliesOnNothing ==
    ASSUME TypeOK, JobSlotLeft, NEW kind \in {"init", "verdict", "notification"},
           jobs' = [jobs EXCEPT ![FreeJob] = Launched(kind)]
    PROVE  /\ ReleasePending' => ReleasePending
           /\ \A j \in JobIds : At(j, "init", "loaded")' => At(j, "init", "loaded")
BY FreeJobIsFree DEF ReleasePending, At, Launched, TypeOK

\* Starting and stopping the capture never makes a collector classify.
LEMMA CaptureReliesOnNothing ==
    ASSUME TypeOK, NEW s \in CallStates, CollectorReacts(s), UNCHANGED classifierReady
    PROVE  /\ ReleasePending' => ReleasePending
           /\ EngineRelied' => EngineRelied
<1> USE DEF analysisVars
<1>1. CASE StartCapturing /\ UNCHANGED jobs
  <2>1. \A c \in CollectorIds : analyzers'[c].pc \in {analyzers[c].pc, "idle"}
    BY <1>1 DEF StartCapturing, TypeOK
  <2> QED
    BY <1>1, <2>1 DEF ReleasePending, EngineRelied, At
<1>2. CASE StopCapturing
  <2>1. UNCHANGED analyzers
    BY <1>2 DEF StopCapturing
  <2>2. /\ ReleasePending' => ReleasePending
        /\ \A j \in JobIds : At(j, "init", "loaded")' => At(j, "init", "loaded")
    BY <1>2, LaunchReliesOnNothing DEF StopCapturing, ReleasePending, At
  <2> QED
    BY <2>1, <2>2 DEF EngineRelied
<1>3. CASE UNCHANGED <<analyzers, jobs>>
  BY <1>3 DEF ReleasePending, EngineRelied, At
<1> QED
  BY <1>1, <1>2, <1>3 DEF CollectorReacts

\* A step of a background job.
LEMMA JobStepFirstSession ==
    ASSUME TypeOK, FirstSessionInv, NEW i \in JobIds, JobStep(i)
    PROVE  FirstSessionInv'
<1> USE DEF pipelineVars, captureVars, collectorVars, analysisVars, classifierVars, worldVars
<1>1. ASSUME Finish(i) \/ (\E pc \in JobPcs \ {"loaded"} : Goto(i, pc))
      PROVE  /\ ReleasePending' => ReleasePending
             /\ \A j \in JobIds : At(j, "init", "loaded")' => At(j, "init", "loaded")
  BY <1>1 DEF Finish, Goto, ReleasePending, At, TypeOK, Job, NoJob
<1>2. CASE InitChecksModel(i) \/ InitGivesUp(i)
  <2>1. Finish(i) \/ (\E pc \in JobPcs \ {"loaded"} : Goto(i, pc))
    BY <1>2 DEF InitChecksModel, InitGivesUp, JobPcs
  <2> QED
    BY <1>1, <1>2, <2>1, FirstSessionKept DEF InitChecksModel, InitGivesUp, EngineRelied
<1>3. CASE InitLoads(i)
  <2>1. CASE engineLoaded' = TRUE /\ Goto(i, "loaded")
    <3>1. ReleasePending' => ReleasePending
      BY <2>1 DEF Goto, ReleasePending, TypeOK, Job
    <3> QED
      BY <1>3, <2>1, <3>1, FirstSessionKept DEF InitLoads
  <2>2. CASE UNCHANGED engineLoaded /\ Goto(i, "failed")
    BY <1>1, <1>3, <2>2, FirstSessionKept DEF InitLoads, JobPcs, EngineRelied
  <2> QED
    BY <1>3, <2>1, <2>2 DEF InitLoads
<1>4. CASE InitReports(i)
  <2>1. EngineRelied' => EngineRelied
    BY <1>1, <1>4 DEF InitReports, LoadSucceeded, EngineRelied, At
  <2> QED
    BY <1>1, <1>4, <2>1, FirstSessionKept DEF InitReports
<1>5. CASE ReleaseRuns(i)
  BY <1>5 DEF ReleaseRuns, FirstSessionInv, FirstSession, ReleasePending, At
<1>6. CASE ClassificationStep(i)
  <2>1. Finish(i) \/ (\E pc \in JobPcs \ {"loaded"} : Goto(i, pc))
    BY <1>6 DEF ClassificationStep, JobBegins, JobClassifies, AfterClassify,
                VerdictClearsFlag, VerdictChecksCapture, VerdictSetsIdle, JobPcs
  <2>2. UNCHANGED <<spent, started, engineLoaded, classifierReady, analyzers>>
    BY <1>6 DEF ClassificationStep, JobBegins, JobClassifies, VerdictClearsFlag,
                VerdictChecksCapture, VerdictSetsIdle
  <2> QED
    BY <1>1, <2>1, <2>2, FirstSessionKept DEF EngineRelied
<1> QED
  BY <1>2, <1>3, <1>4, <1>5, <1>6 DEF JobStep, InitStep

\* A step of a collector: only one that finds the classifier ready begins to
\* classify, and none crashes.
LEMMA CollectorStepFirstSession ==
    ASSUME TypeOK, FirstSessionInv, NEW c \in CollectorIds,
           TextProcessed(c) \/ AnalyzerStep(c)
    PROVE  FirstSessionInv'
<1> USE DEF collectorVars, classifierVars, worldVars, analysisVars
<1>1. ASSUME UNCHANGED <<spent, started, jobs, engineLoaded, classifierReady>>,
             \A d \in CollectorIds : analyzers'[d].pc = "classifying" =>
                 analyzers[d].pc = "classifying" \/ classifierReady
      PROVE  FirstSessionInv'
  BY <1>1, FirstSessionKept DEF ReleasePending, EngineRelied, At
<1>2. CASE TextProcessed(c)
  <2>1. ASSUME NEW d \in CollectorIds
        PROVE  Offered(d, conversation + 1).pc = analyzers[d].pc
    <3>1. analyzers[d] \in Analyzer
      BY DEF TypeOK
    <3> QED
      BY <3>1 DEF Offered, Analyzer
  <2>2. \A d \in CollectorIds : analyzers'[d].pc = analyzers[d].pc
    BY <1>2, <2>1 DEF TextProcessed
  <2> QED
    BY <1>1, <1>2, <2>2 DEF TextProcessed
<1>3. CASE SnapshotTaken(c)
  <2>1. classifierReady \/ analyzers'[c].pc = "idle"
    <3>1. CASE WorthAnalyzing(Head(analyzers[c].inbox))
      BY <3>1 DEF WorthAnalyzing
    <3>2. CASE ~WorthAnalyzing(Head(analyzers[c].inbox))
      <4>1. analyzers' = [analyzers EXCEPT ![c] =
                             [analyzers[c] EXCEPT !.inbox = Tail(analyzers[c].inbox)]]
        BY <1>3, <3>2 DEF SnapshotTaken
      <4>2. analyzers[c].pc = "idle" /\ analyzers[c] \in Analyzer
        BY <1>3 DEF SnapshotTaken, HasSnapshot, TypeOK
      <4>3. [analyzers[c] EXCEPT !.inbox = Tail(analyzers[c].inbox)].pc = "idle"
        BY <4>2 DEF Analyzer
      <4> QED
        BY <4>1, <4>3 DEF TypeOK
    <3> QED
      BY <3>1, <3>2
  <2> QED
    BY <1>1, <1>3, <2>1, SnapshotTakenMoves DEF SnapshotTaken
<1>4. CASE AnalysisReturns(c) \/ CancelledAnalysisReturns(c)
  <2>1. analyzers'[c].pc \in {"idle", "off"}
    <3>1. CASE AnalysisReturns(c)
      BY <3>1 DEF AnalysisReturns, TypeOK, Analyzer
    <3>2. CASE CancelledAnalysisReturns(c)
      BY <3>2 DEF CancelledAnalysisReturns, TypeOK, NoAnalyzer
    <3> QED
      BY <1>4, <3>1, <3>2
  <2>2. \A d \in CollectorIds \ {c} : analyzers'[d] = analyzers[d]
    BY <1>4 DEF AnalysisReturns, CancelledAnalysisReturns, TypeOK
  <2> QED
    BY <1>1, <1>4, <2>1, <2>2 DEF AnalysisReturns, CancelledAnalysisReturns
<1>5. CASE AnalysisCrashes(c)
  <2>1. ~FirstSession
    BY <1>5 DEF AnalysisCrashes, FirstSessionInv, EngineRelied
  <2> QED
    BY <1>5, <2>1 DEF AnalysisCrashes, FirstSessionInv, FirstSession
<1> QED
  BY <1>2, <1>3, <1>4, <1>5 DEF AnalyzerStep

\* Every step of the first session leaves what relies on the engine with one, and
\* no release under way.
LEMMA FirstSessionInductive ==
    TypeOK /\ FirstSessionInv /\ [Next]_vars => FirstSessionInv'
<1> SUFFICES ASSUME TypeOK, FirstSessionInv, [Next]_vars
             PROVE  FirstSessionInv'
  OBVIOUS
<1> USE DEF collectorVars, classifierVars, worldVars, analysisVars
<1>0. spent \in [Events -> Nat] /\ "toggle" \in Events
  BY DEF TypeOK, Events
<1>1. CASE Enable
  <2>1. spent'["toggle"] = spent["toggle"] + 1 /\ started' = TRUE
    BY <1>0, <1>1 DEF Enable, Spend
  <2>2. CASE spent["toggle"] = 0
    <3>1. \A j \in JobIds : Orphaned(jobs[j]).kind = jobs[j].kind
                            /\ Orphaned(jobs[j]).pc = jobs[j].pc
      BY DEF Orphaned, TypeOK, Job
    <3>2. \A j \in JobIds : \/ jobs'[j] = Orphaned(jobs[j])
                            \/ jobs'[j] = Launched("init")
      BY <1>1 DEF Enable
    <3>3. (ReleasePending' => ReleasePending)
          /\ \A j \in JobIds : At(j, "init", "loaded")' => At(j, "init", "loaded")
      BY <3>1, <3>2 DEF ReleasePending, At, Launched
    <3>4. \A c \in CollectorIds : analyzers'[c].pc \in {analyzers[c].pc, "idle"}
      BY <1>1 DEF Enable, CaptureOnEnable, StartCapturing, TypeOK
    <3>5. UNCHANGED <<engineLoaded, classifierReady>>
      BY <1>1 DEF Enable
    <3>6. EngineRelied' => EngineRelied
      BY <3>3, <3>4, <3>5 DEF EngineRelied
    <3> QED
      BY <1>0, <2>1, <2>2, <3>3, <3>5, <3>6 DEF FirstSessionInv, FirstSession
  <2>3. CASE spent["toggle"] # 0
    BY <1>0, <2>1, <2>3 DEF FirstSessionInv, FirstSession
  <2> QED
    BY <2>2, <2>3
<1>2. CASE Disable
  <2>1. started /\ spent'["toggle"] = spent["toggle"] + 1
    BY <1>0, <1>2 DEF Disable, Spend
  <2> QED
    BY <1>0, <2>1 DEF FirstSessionInv, FirstSession
<1>3. ASSUME UNCHANGED <<spent["toggle"], started, engineLoaded, classifierReady>>,
             ReleasePending' => ReleasePending, EngineRelied' => EngineRelied
      PROVE  FirstSessionInv'
  BY <1>3, FirstSessionKept
<1>4. ASSUME NEW e \in Events \ {"toggle"}, Spend(e)
      PROVE  spent'["toggle"] = spent["toggle"]
  BY <1>0, <1>4 DEF Spend
<1>5. ASSUME UNCHANGED <<spent["toggle"], started, engineLoaded, classifierReady, analyzers>>,
             \/ UNCHANGED jobs
             \/ JobSlotLeft /\ \E kind \in {"init", "notification"} :
                    jobs' = [jobs EXCEPT ![FreeJob] = Launched(kind)]
      PROVE  FirstSessionInv'
  <2>1. /\ ReleasePending' => ReleasePending
        /\ \A j \in JobIds : At(j, "init", "loaded")' => At(j, "init", "loaded")
    BY <1>5, LaunchReliesOnNothing DEF ReleasePending, At
  <2> QED
    BY <1>3, <1>5, <2>1 DEF EngineRelied
<1>6. ASSUME NEW s \in CallStates, ReportState(s)
      PROVE  FirstSessionInv'
  <2>1. UNCHANGED <<spent["toggle"], started, engineLoaded, classifierReady>>
    BY <1>4, <1>6 DEF ReportState, Events
  <2>2. CASE started
    BY <1>3, <1>6, <2>1, <2>2, CaptureReliesOnNothing DEF ReportState
  <2>3. CASE ~started
    BY <1>5, <1>6, <2>1, <2>3 DEF ReportState
  <2> QED
    BY <2>2, <2>3
<1>7. CASE OnModelsImported \/ NotificationArrives
  <2>1. UNCHANGED <<spent["toggle"], started, engineLoaded, classifierReady, analyzers>>
    BY <1>4, <1>7 DEF OnModelsImported, NotificationArrives, Events
  <2> QED
    BY <1>5, <1>7, <2>1 DEF OnModelsImported, NotificationArrives
<1>8. CASE ModelFileAppears \/ TextTranscribed \/ IntervalElapses \/ UNCHANGED vars
  <2>1. UNCHANGED <<spent["toggle"], started, engineLoaded, classifierReady, analyzers>>
    BY <1>4, <1>8 DEF ModelFileAppears, TextTranscribed, IntervalElapses, Events, vars
  <2> QED
    BY <1>5, <1>8, <2>1 DEF ModelFileAppears, TextTranscribed, IntervalElapses, vars
<1> QED
  BY <1>1, <1>2, <1>6, <1>7, <1>8, JobStepFirstSession, CollectorStepFirstSession
     DEF Next, UserStep

\* In the first session of a process no analysis loses its engine (l. 220-221).
THEOREM FirstSessionHasEngineHolds == Spec => []FirstSessionHasEngine
<1>1. Init => FirstSessionInv
  BY DEF Init, FirstSessionInv, FirstSession, ReleasePending, EngineRelied, At, NoAnalyzer,
         NoJob, Events
<1>2. FirstSessionInv => FirstSessionHasEngine
  BY DEF FirstSessionInv, FirstSession, EngineRelied, FirstSessionHasEngine
<1> QED
  BY <1>1, <1>2, InitTypes, NextTypes, FirstSessionInductive, PTL DEF Spec

===============================================================================
