---------------------------- MODULE Transcription -----------------------------
(***************************************************************************)
(* TranscriptionCoordinator.kt over PcmWindowAccumulator.kt,               *)
(* WhisperEngineImpl.kt with whisper-jni.cpp, and the whisper model file.  *)
(* Each start() launches two coroutines, one that retries the              *)
(* initialization of the engine and one that consumes audio chunks; stop() *)
(* runs on the main thread against both, and the coroutines of earlier     *)
(* sessions go on until they meet a cancellation point.  A native section  *)
(* that only g_mutex's holder can see is one step; the one that            *)
(* transcribes is two, since whoever wants the model waits for it.  The    *)
(* recorder is outside: its channel, which no session owns, may be given a *)
(* chunk at any time after the service exists.                             *)
(***************************************************************************)
EXTENDS Integers

CONSTANTS
    MaxSessions,    \* bound on the calls of start()
    MaxChunks,      \* bound on the chunks recorded
    Window,         \* chunks in a window
    Overlap,        \* chunks a window leaves to the next
    MaxStops,       \* bound on the calls of stop()
    MaxImports,     \* bound on the imports that install a file
    MaxBuffer       \* bound on the sizes a race may leave the accumulator with

ASSUME WindowAssumption ==
    /\ MaxSessions \in Nat
    /\ MaxChunks \in Nat
    /\ Window \in Nat \ {0}
    /\ Overlap \in Nat
    /\ 2 * Overlap < Window
    /\ MaxStops \in Nat
    /\ MaxImports \in Nat
    /\ MaxBuffer \in Nat

Sessions == 1 .. MaxSessions

VARIABLES
    instance,           \* AudioCaptureService exists: there is a provider
    recorded,           \* chunks put into the channel
    audioChunks,        \* chunks in the channel
    capturing,          \* CallAudioCoordinator.capturing
    main,               \* where the main thread is
    stops,              \* calls of stop()
    session,            \* sessions started; the last owns the current scope
    scopeActive,        \* the current scope is not cancelled
    engineReady,        \* the volatile flag of the coordinator
    nativeInitialized,  \* the volatile flag of the engine
    context,            \* g_context # nullptr
    modelCopyPath,      \* the lazy path has been computed
    file,               \* the model file in internal storage
    imports,            \* imports that installed a file
    initEngine,         \* where the initEngineRetrying of each session is
    collect,            \* where the collectChunks of each session is
    buffer,             \* chunks in the accumulator
    list,               \* what overlapping accesses have made of its ArrayList
    crossed,            \* history: a release met an initialize past its flag check
    crashed             \* an exception nothing catches has ended the process

channelVars == <<instance, recorded, audioChunks>>
mainVars == <<capturing, main, stops, session, scopeActive>>
engineVars == <<nativeInitialized, context>>
modelVars == <<modelCopyPath, file, imports>>
windowVars == <<buffer, list>>

vars == <<channelVars, mainVars, engineReady, engineVars, modelVars, initEngine,
          collect, windowVars, crossed, crashed>>

PastCheckPcs == {"copying", "deleting", "loading", "flagging"}
InitPcs == PastCheckPcs \cup
    {"none", "attempting", "checking", "returning", "announcing", "ended"}
InsidePcs == {"adding", "framing", "taking"}
CollectPcs == InsidePcs \cup
    {"none", "polling", "receiving", "asking", "checking", "waiting", "whisper", "ended"}
MainPcs == {"idle", "resetting", "releasing", "freeing", "clearing", "cancelling"}

TypeOK ==
    /\ instance \in BOOLEAN
    /\ recorded \in 0 .. MaxChunks
    /\ audioChunks \in 0 .. recorded
    /\ capturing \in BOOLEAN
    /\ main \in MainPcs
    /\ stops \in 0 .. MaxStops
    /\ session \in 0 .. MaxSessions
    /\ {scopeActive, engineReady, nativeInitialized, context, modelCopyPath,
        crossed, crashed} \subseteq BOOLEAN
    /\ file \in {"absent", "valid", "corrupt"}
    /\ imports \in 0 .. MaxImports
    /\ initEngine \in [Sessions -> InitPcs]
    /\ collect \in [Sessions -> CollectPcs]
    /\ buffer \in Nat
    /\ list \in {"sound", "racing", "damaged"}

\* A file that an earlier process installed is one imported before any start().
Init ==
    /\ instance = FALSE
    /\ recorded = 0
    /\ audioChunks = 0
    /\ capturing = FALSE
    /\ main = "idle"
    /\ stops = 0
    /\ session = 0
    /\ scopeActive = TRUE
    /\ engineReady = FALSE
    /\ nativeInitialized = FALSE
    /\ context = FALSE
    /\ modelCopyPath = FALSE
    /\ file = "absent"
    /\ imports = 0
    /\ initEngine = [s \in Sessions |-> "none"]
    /\ collect = [s \in Sessions |-> "none"]
    /\ buffer = 0
    /\ list = "sound"
    /\ crossed = FALSE
    /\ crashed = FALSE

-------------------------------------------------------------------------------
Cancelled(s) == s < session \/ ~scopeActive

InitGoto(s, there) == initEngine' = [initEngine EXCEPT ![s] = there]

CollectGoto(s, there) == collect' = [collect EXCEPT ![s] = there]

MutMutexFree_NoGuard == TRUE

\* g_mutex: only a transcription holds it from one step to another.
MutexFree == \A s \in Sessions : collect[s] # "whisper"

-------------------------------------------------------------------------------
(* The main thread: what CallAudioCoordinator asks for. *)

\* startCapturing, with TranscriptionCoordinator.start: the previous scope is
\* cancelled and the two loops are launched in a new one.
StartCapturing ==
    /\ main = "idle"
    /\ ~capturing
    /\ session < MaxSessions
    /\ capturing' = TRUE
    /\ session' = session + 1
    /\ scopeActive' = TRUE
    /\ InitGoto(session + 1, "attempting")
    /\ CollectGoto(session + 1, "polling")
    /\ UNCHANGED <<channelVars, main, stops, engineReady, engineVars, modelVars,
                   windowVars, crossed>>

\* The first statement of TranscriptionCoordinator.stop, called when the call
\* ends or when detection is disabled, during a call or between calls.
StopCalled ==
    /\ main = "idle"
    /\ stops < MaxStops
    /\ stops' = stops + 1
    /\ capturing' = FALSE
    /\ engineReady' = FALSE
    /\ main' = "resetting"
    /\ UNCHANGED <<channelVars, session, scopeActive, engineVars, modelVars,
                   initEngine, collect, windowVars, crossed>>

Inside == {s \in Sessions : collect[s] \in InsidePcs}

\* accumulator.reset(), on the main thread: it makes the list sound again, or
\* races with the collectors inside, whose stale size may be written back.
StopResets ==
    /\ main = "resetting"
    /\ IF Inside = {}
       THEN list' = "sound" /\ buffer' = 0
       ELSE list' = "racing" /\ buffer' \in 0 .. MaxBuffer
    /\ main' = "releasing"
    /\ UNCHANGED <<engineVars, scopeActive, crossed>>

ReleaseChecksFlag ==
    /\ main = "releasing"
    /\ main' = IF nativeInitialized THEN "freeing" ELSE "cancelling"
    /\ UNCHANGED <<engineVars, scopeActive, windowVars, crossed>>

\* nativeRelease
ReleaseFrees ==
    /\ main = "freeing"
    /\ MutexFree
    /\ context' = FALSE
    /\ crossed' = (crossed \/ \E s \in Sessions : initEngine[s] \in PastCheckPcs)
    /\ main' = "clearing"
    /\ UNCHANGED <<nativeInitialized, scopeActive, windowVars>>

ReleaseClearsFlag ==
    /\ main = "clearing"
    /\ nativeInitialized' = FALSE
    /\ main' = "cancelling"
    /\ UNCHANGED <<context, scopeActive, windowVars, crossed>>

MutCancelScope_Forgotten == UNCHANGED scopeActive

CancelScope == scopeActive' = FALSE

StopCancels ==
    /\ main = "cancelling"
    /\ CancelScope
    /\ main' = "idle"
    /\ UNCHANGED <<engineVars, windowVars, crossed>>

StopStep ==
    /\ StopResets \/ ReleaseChecksFlag \/ ReleaseFrees \/ ReleaseClearsFlag \/ StopCancels
    /\ UNCHANGED <<channelVars, capturing, stops, session, engineReady, modelVars,
                   initEngine, collect>>

-------------------------------------------------------------------------------
(* initEngineRetrying of session s.  A cancellation is noticed where withContext *)
(* is entered or left, never inside initialize(); a failed attempt sleeps        *)
(* between two such points.                                                      *)

InitAttempts(s) ==
    /\ initEngine[s] = "attempting"
    /\ InitGoto(s, IF Cancelled(s) THEN "ended" ELSE "checking")
    /\ UNCHANGED <<engineReady, engineVars, modelVars>>

MutIfInitialized_Throws == "attempting"

\* if (nativeInitialized) return true
IfInitialized == "returning"

InitChecksFlag(s) ==
    /\ initEngine[s] = "checking"
    /\ InitGoto(s, IF nativeInitialized THEN IfInitialized ELSE "copying")
    /\ UNCHANGED <<engineReady, engineVars, modelVars>>

\* The lazy modelCopyPath, computed by one coroutine at a time: a file that is
\* there is taken, otherwise the asset is opened, which the APK does not have.
InitCopies(s) ==
    /\ initEngine[s] = "copying"
    /\ \A t \in Sessions : initEngine[t] # "deleting"
    /\ IF modelCopyPath \/ file # "absent"
       THEN modelCopyPath' = TRUE /\ InitGoto(s, "loading")
       ELSE UNCHANGED modelCopyPath /\ InitGoto(s, "deleting")
    /\ UNCHANGED <<engineReady, engineVars, file, imports>>

\* The failed copy deletes its target, whatever has become of it meanwhile.
InitDeletes(s) ==
    /\ initEngine[s] = "deleting"
    /\ file' = "absent"
    /\ InitGoto(s, "attempting")
    /\ UNCHANGED <<engineReady, engineVars, modelCopyPath, imports>>

\* nativeInitialize: 0 when a context is there or the file does not load.
InitLoads(s) ==
    /\ initEngine[s] = "loading"
    /\ MutexFree
    /\ IF ~context /\ file = "valid"
       THEN context' = TRUE /\ InitGoto(s, "flagging")
       ELSE UNCHANGED context /\ InitGoto(s, "attempting")
    /\ UNCHANGED <<engineReady, nativeInitialized, modelVars>>

InitSetsFlag(s) ==
    /\ initEngine[s] = "flagging"
    /\ nativeInitialized' = TRUE
    /\ InitGoto(s, "returning")
    /\ UNCHANGED <<engineReady, context, modelVars>>

InitReturns(s) ==
    /\ initEngine[s] = "returning"
    /\ InitGoto(s, IF Cancelled(s) THEN "ended" ELSE "announcing")
    /\ UNCHANGED <<engineReady, engineVars, modelVars>>

InitAnnounces(s) ==
    /\ initEngine[s] = "announcing"
    /\ engineReady' = TRUE
    /\ InitGoto(s, "ended")
    /\ UNCHANGED <<engineVars, modelVars>>

InitEngineRetrying(s) ==
    /\ \/ InitAttempts(s) \/ InitChecksFlag(s) \/ InitCopies(s) \/ InitDeletes(s)
       \/ InitLoads(s) \/ InitSetsFlag(s) \/ InitReturns(s) \/ InitAnnounces(s)
    /\ UNCHANGED <<channelVars, mainVars, collect, windowVars, crossed>>

-------------------------------------------------------------------------------
(* collectChunks of session s. *)

\* No provider: sleep and ask again.
CollectPolls(s) ==
    /\ collect[s] = "polling"
    /\ \/ Cancelled(s) /\ CollectGoto(s, "ended")
       \/ ~Cancelled(s) /\ instance /\ CollectGoto(s, "receiving")
    /\ UNCHANGED <<audioChunks, windowVars, crashed>>

\* Several threads may be inside the accumulator; nothing protects it.
Enter(s, there) ==
    /\ list' = IF Inside \ {s} # {} THEN "racing" ELSE list
    /\ CollectGoto(s, there)

\* What a race has written stays when the last thread of it has left.
Leave(s, there) ==
    /\ list' = IF list = "racing" /\ Inside \ {s} = {} THEN "damaged" ELSE list
    /\ CollectGoto(s, there)

\* receive looks for a cancellation only when it suspends.
CollectReceives(s) ==
    /\ collect[s] = "receiving"
    /\ \/ /\ audioChunks > 0
          /\ audioChunks' = audioChunks - 1
          /\ Enter(s, "adding")
       \/ /\ Cancelled(s)
          /\ CollectGoto(s, "ended")
          /\ UNCHANGED <<audioChunks, list>>
    /\ UNCHANGED <<buffer, crashed>>

MutFramed_OffByOne == buffer + 1 >= Window

Framed == buffer >= Window

\* The tail of Overlap chunks, and whatever lies behind the window.
Slid == buffer - (Window - Overlap)

\* An access to the ArrayList ends with the size it should, unless threads race:
\* they lose elements, take some twice or write back a size that is no longer
\* true.  An element missing or beyond the array throws, then or later.
Resized(size) ==
    \/ list # "racing" /\ buffer' = size /\ UNCHANGED crashed
    \/ list = "racing" /\ buffer' \in 0 .. MaxBuffer /\ UNCHANGED crashed
    \/ list # "sound" /\ crashed' = TRUE /\ UNCHANGED buffer

AddsChunk(s) ==
    /\ collect[s] = "adding"
    /\ Resized(buffer + 1)
    /\ CollectGoto(s, "framing")
    /\ UNCHANGED <<audioChunks, list>>

ChecksFramed(s) ==
    /\ collect[s] = "framing"
    /\ IF Framed
       THEN CollectGoto(s, "taking") /\ UNCHANGED list
       ELSE Leave(s, "receiving")
    /\ UNCHANGED <<audioChunks, buffer, crashed>>

TakesWindow(s) ==
    /\ collect[s] = "taking"
    /\ Resized(Slid)
    /\ Leave(s, "asking")
    /\ UNCHANGED audioChunks

\* if (engineReady) engine.transcribeChunk(window) else ""
CollectAsks(s) ==
    /\ collect[s] = "asking"
    /\ IF engineReady
       THEN CollectGoto(s, "checking") /\ UNCHANGED list
       ELSE Enter(s, "framing")
    /\ UNCHANGED <<audioChunks, buffer, crashed>>

\* check(nativeInitialized) throws out of the coroutine; nothing handles it.
TranscribeChecksFlag(s) ==
    /\ collect[s] = "checking"
    /\ IF nativeInitialized
       THEN CollectGoto(s, "waiting") /\ UNCHANGED crashed
       ELSE UNCHANGED collect /\ crashed' = TRUE
    /\ UNCHANGED <<audioChunks, windowVars>>

\* nativeTranscribe up to whisper_full; the text goes to a coroutine of its own.
TranscribeBegins(s) ==
    /\ collect[s] = "waiting"
    /\ MutexFree
    /\ IF context
       THEN CollectGoto(s, "whisper") /\ UNCHANGED list
       ELSE Enter(s, "framing")
    /\ UNCHANGED <<audioChunks, buffer, crashed>>

TranscribeEnds(s) ==
    /\ collect[s] = "whisper"
    /\ Enter(s, "framing")
    /\ UNCHANGED <<audioChunks, buffer, crashed>>

CollectChunks(s) ==
    /\ \/ CollectPolls(s) \/ CollectReceives(s) \/ AddsChunk(s) \/ ChecksFramed(s)
       \/ TakesWindow(s) \/ CollectAsks(s) \/ TranscribeChecksFlag(s) \/ TranscribeBegins(s)
       \/ TranscribeEnds(s)
    /\ UNCHANGED <<instance, recorded, mainVars, engineReady, engineVars, modelVars, initEngine,
                   crossed>>

-------------------------------------------------------------------------------
\* ModelImporter.copyIfValid for the whisper model: the finished copy is renamed
\* over the target; a header with the magic does not make the rest loadable.
\* A target with the magic is left as it is.
ImportModel ==
    /\ file = "absent"
    /\ imports < MaxImports
    /\ imports' = imports + 1
    /\ file' \in {"valid", "corrupt"}
    /\ UNCHANGED <<channelVars, mainVars, engineReady, engineVars, modelCopyPath,
                   initEngine, collect, windowVars, crossed>>

\* onCreate of the service, after the first start intent; nothing ends it.
ServiceCreated ==
    /\ session > 0
    /\ ~instance
    /\ instance' = TRUE
    /\ UNCHANGED <<recorded, audioChunks>>

\* _audioChunks.send: the channel is created with the service and survives
\* every recording, whose loop may send once more after it was stopped.
ChunkRecorded ==
    /\ instance
    /\ recorded < MaxChunks
    /\ recorded' = recorded + 1
    /\ audioChunks' = audioChunks + 1
    /\ UNCHANGED instance

Recorder ==
    /\ ServiceCreated \/ ChunkRecorded
    /\ UNCHANGED <<mainVars, engineReady, engineVars, modelVars, initEngine, collect,
                   windowVars, crossed>>

Main == StartCapturing \/ StopCalled \/ StopStep

\* reset() runs into what a race does, or has done, to the list: the main thread
\* dies of it, and the process.
StopResetCrashes ==
    /\ main = "resetting"
    /\ Inside # {} \/ list # "sound"
    /\ crashed' = TRUE
    /\ UNCHANGED <<channelVars, mainVars, engineReady, engineVars, modelVars, initEngine,
                   collect, windowVars, crossed>>

\* Everything but the accumulator's users leaves the process running.
Others ==
    /\ \/ Main
       \/ Recorder
       \/ ImportModel
       \/ \E s \in Sessions : InitEngineRetrying(s)
    /\ UNCHANGED crashed

Next ==
    /\ ~crashed
    /\ Others \/ StopResetCrashes \/ \E s \in Sessions : CollectChunks(s)

\* The dispatchers run every coroutine that can go on and stop() runs to its
\* end; nobody has to call, to speak or to import anything.  An attempt that
\* fails sleeps for a second without the lock of modelCopyPath, so another
\* coroutine gets it: strong fairness of the retry loops.
Alive(A) == ~crashed /\ A /\ UNCHANGED crashed

Fairness ==
    /\ WF_vars(Alive(StopStep))
    /\ \A s \in Sessions :
        /\ SF_vars(Alive(InitEngineRetrying(s)))
        /\ WF_vars(~crashed /\ CollectChunks(s))

Spec == Init /\ [][Next]_vars /\ Fairness

-------------------------------------------------------------------------------
\* A transcription always runs on a context that stays until it is over, and
\* one context is loaded at a time, although stop() releases the engine while
\* collectors and initializations of any session are under way
\* (WhisperEngineImpl.kt l. 45-62, whisper-jni.cpp l. 31-135).
Lifetime == INSTANCE ModelLifetime WITH
    Threads <- Sessions,
    loaded <- context,
    users <- {s \in Sessions : collect[s] = "whisper"}

ImplementsLifetime == Lifetime!Spec

Over(s) ==
    \/ s < session
    \/ s = session /\ ~capturing /\ main = "idle"

\* No start or stop leaves a loop behind: however they interleave, a state comes
\* again in which the retry loop and the collector of every session that is over
\* have ended, wherever they were.  The exceptions are a process that dies, and
\* collectors that keep racing inside the accumulator: a size they write back
\* may give them one more window each time
\* (TranscriptionCoordinator.kt l. 43-51, 123-128).
LoopsEnd ==
    []<>(\/ crashed
         \/ list = "racing"
         \/ \A s \in Sessions :
                Over(s) => initEngine[s] = "ended" /\ collect[s] = "ended")

\* Initializations of different sessions may race with each other in any order,
\* and fail, retry or find the engine already loaded: if a session lasts and
\* the model is there, it gets an engine whose flags are true of the context.
\* A release that meets an initialize past its flag check is the exception:
\* the flag it clears may be the one of the new context.  A collector or a reset
\* may crash the process, but only once stop() has been called
\* (WhisperEngineImpl.kt l. 31-43 and 57-62, TranscriptionCoordinator.kt l. 57-80).
EngineComesUp ==
    <>[](/\ capturing /\ main = "idle" /\ file = "valid" /\ ~crossed
         /\ crashed => stops = 0)
        => <>[](engineReady /\ nativeInitialized /\ context)
===============================================================================
