-------------------------- MODULE Transcription_proofs --------------------------
(***************************************************************************)
(* For any number of sessions, chunks, stops and imports and any window:   *)
(* type correctness of the transcription, its accumulator included, which  *)
(* nothing protects, and the lifetime of the whisper context.              *)
(***************************************************************************)
EXTENDS Transcription, TLAPS

(***************************************************************************)
(* Types.                                                                  *)
(***************************************************************************)

Flags ==
    /\ instance \in BOOLEAN /\ capturing \in BOOLEAN /\ scopeActive \in BOOLEAN
    /\ engineReady \in BOOLEAN /\ nativeInitialized \in BOOLEAN /\ context \in BOOLEAN
    /\ modelCopyPath \in BOOLEAN /\ crossed \in BOOLEAN /\ crashed \in BOOLEAN

Counters ==
    /\ recorded \in 0 .. MaxChunks
    /\ audioChunks \in 0 .. recorded
    /\ stops \in 0 .. MaxStops
    /\ session \in 0 .. MaxSessions
    /\ imports \in 0 .. MaxImports
    /\ buffer \in Nat

Places ==
    /\ main \in MainPcs
    /\ file \in {"absent", "valid", "corrupt"}
    /\ initEngine \in [Sessions -> InitPcs]
    /\ collect \in [Sessions -> CollectPcs]
    /\ list \in {"sound", "racing", "damaged"}

\* TypeOK, flag by flag.
Typed == Flags /\ Counters /\ Places

\* The loops of a session that has not started do not exist.
Unstarted ==
    \A s \in Sessions : s > session => initEngine[s] = "none" /\ collect[s] = "none"

(***************************************************************************)
(* The accumulator.  Nothing bounds it once threads have raced, but a      *)
(* window is never cut from fewer chunks than it takes unless they do:     *)
(* between the check and the cut nobody else is inside.                    *)
(***************************************************************************)

InsideAlone ==
    list # "racing" => /\ \A s, t \in Inside : s = t
                       /\ \A s \in Sessions : collect[s] = "taking" => buffer >= Window

TypedInv == Typed /\ Unstarted /\ InsideAlone

(***************************************************************************)
(* Moves.                                                                  *)
(***************************************************************************)

\* A collector that moves changes no other collector.
LEMMA CollectMoves ==
    ASSUME Places, NEW s \in Sessions, NEW there \in CollectPcs, CollectGoto(s, there)
    PROVE  /\ collect' \in [Sessions -> CollectPcs]
           /\ collect'[s] = there
           /\ \A t \in Sessions \ {s} : collect'[t] = collect[t]
BY DEF CollectGoto, Places

\* It enters or leaves the accumulator by itself.
LEMMA MoveInside ==
    ASSUME Places, NEW s \in Sessions, NEW there \in CollectPcs, CollectGoto(s, there)
    PROVE  Inside' = IF there \in InsidePcs THEN Inside \cup {s} ELSE Inside \ {s}
<1>1. /\ collect'[s] = there
      /\ \A t \in Sessions \ {s} : collect'[t] = collect[t]
  BY CollectMoves
<1> QED
  BY <1>1 DEF Inside

\* A retry loop that moves changes no other.
LEMMA InitMoves ==
    ASSUME Places, NEW s \in Sessions, NEW there \in InitPcs, InitGoto(s, there)
    PROVE  /\ initEngine' \in [Sessions -> InitPcs]
           /\ \A t \in Sessions \ {s} : initEngine'[t] = initEngine[t]
BY DEF InitGoto, Places

(***************************************************************************)
(* Everything but the collectors.                                          *)
(***************************************************************************)

\* The accumulator and the collectors left alone.
LEMMA AccumulatorKept ==
    ASSUME TypedInv, UNCHANGED <<collect, windowVars>>
    PROVE  InsideAlone'
BY DEF TypedInv, InsideAlone, Inside, windowVars

\* startTranscription, in each of its steps, keeps the types.
LEMMA StartKeepsTyped ==
    ASSUME TypedInv, StartCapturing, UNCHANGED crashed
    PROVE  TypedInv'
<1> USE WindowAssumption DEF TypedInv, Typed, StartCapturing, channelVars, engineVars,
        modelVars, windowVars
<1>1. session + 1 \in Sessions /\ session + 1 > session
  BY DEF Counters, Sessions
<1>2. "attempting" \in InitPcs /\ "polling" \in CollectPcs
  BY DEF InitPcs, CollectPcs
<1>3. /\ initEngine' \in [Sessions -> InitPcs]
      /\ \A t \in Sessions \ {session + 1} : initEngine'[t] = initEngine[t]
  BY <1>1, <1>2, InitMoves
<1>4. /\ collect' \in [Sessions -> CollectPcs]
      /\ collect'[session + 1] = "polling"
      /\ \A t \in Sessions \ {session + 1} : collect'[t] = collect[t]
  BY <1>1, <1>2, CollectMoves
<1>5. Flags' /\ Counters'
  BY <1>1 DEF Flags, Counters, Sessions
<1>6. Places'
  BY <1>3, <1>4 DEF Places
<1>7. Unstarted'
  BY <1>3, <1>4 DEF Unstarted, Sessions, Counters
<1>8. collect[session + 1] = "none"
  BY <1>1 DEF Unstarted
<1>9. Inside' = Inside
  BY <1>1, <1>4, <1>8 DEF Inside, InsidePcs
<1>10. InsideAlone'
  BY <1>1, <1>4, <1>9 DEF InsideAlone
<1> QED
  BY <1>5, <1>6, <1>7, <1>10

\* stopTranscription and its release of the engine keep the types.
LEMMA StopKeepsTyped ==
    ASSUME TypedInv, StopCalled \/ StopStep, UNCHANGED crashed
    PROVE  TypedInv'
<1> USE WindowAssumption DEF TypedInv, Typed, channelVars, engineVars, modelVars
<1>1. UNCHANGED <<initEngine, collect, session>>
  BY DEF StopCalled, StopStep
<1>2. Flags'
  <2>1. CASE StopCalled
    BY <2>1 DEF StopCalled, Flags, windowVars
  <2>2. CASE StopStep
    <3>1. CASE StopResets
      BY <2>2, <3>1 DEF StopStep, StopResets, Flags
    <3>2. CASE ReleaseFrees
      BY <2>2, <3>2 DEF StopStep, ReleaseFrees, Flags, windowVars
    <3>3. CASE ReleaseChecksFlag \/ ReleaseClearsFlag \/ StopCancels
      BY <2>2, <3>3 DEF StopStep, ReleaseChecksFlag, ReleaseClearsFlag, StopCancels,
                        CancelScope, Flags, windowVars
    <3> QED
      BY <2>2, <3>1, <3>2, <3>3 DEF StopStep
  <2> QED
    BY <2>1, <2>2
<1>3. Counters'
  BY DEF StopCalled, StopStep, StopResets, ReleaseChecksFlag, ReleaseFrees,
         ReleaseClearsFlag, StopCancels, Counters, windowVars
<1>4. Places'
  BY <1>1 DEF StopCalled, StopStep, StopResets, ReleaseChecksFlag, ReleaseFrees,
         ReleaseClearsFlag, StopCancels, Places, MainPcs, windowVars
<1>5. Unstarted'
  BY <1>1 DEF Unstarted
<1>6. CASE ~(StopStep /\ StopResets)
  <2>1. UNCHANGED windowVars
    BY <1>6 DEF StopCalled, StopStep, ReleaseChecksFlag, ReleaseFrees, ReleaseClearsFlag,
       StopCancels, windowVars
  <2> QED
    BY <1>1, <1>2, <1>3, <1>4, <1>5, <2>1, AccumulatorKept
<1>7. CASE StopResets
  <2>1. Inside' = Inside
    BY <1>1 DEF Inside
  <2>2. list' # "racing" => \A s \in Sessions : collect[s] \notin InsidePcs
    BY <1>7 DEF StopResets, Inside
  <2>3. InsideAlone'
    BY <1>1, <2>1, <2>2 DEF InsideAlone, Inside, InsidePcs
  <2> QED
    BY <1>2, <1>3, <1>4, <1>5, <2>3
<1> QED
  BY <1>6, <1>7

\* The init job, which retries with a fresh copy of the file, keeps the types.
LEMMA RetryKeepsTyped ==
    ASSUME TypedInv, NEW s \in Sessions, InitEngineRetrying(s), UNCHANGED crashed
    PROVE  TypedInv'
<1> USE DEF TypedInv, Typed, channelVars, mainVars, engineVars, modelVars
<1>1. \E there \in InitPcs : InitGoto(s, there)
  BY DEF InitEngineRetrying, InitAttempts, InitChecksFlag, InitCopies, InitDeletes, InitLoads,
         InitSetsFlag, InitReturns, InitAnnounces, IfInitialized, InitPcs, PastCheckPcs
<1>2. /\ initEngine' \in [Sessions -> InitPcs]
      /\ \A t \in Sessions \ {s} : initEngine'[t] = initEngine[t]
  BY <1>1, InitMoves
<1>3. initEngine[s] # "none"
  BY DEF InitEngineRetrying, InitAttempts, InitChecksFlag, InitCopies, InitDeletes, InitLoads,
         InitSetsFlag, InitReturns, InitAnnounces
<1>4. UNCHANGED <<channelVars, mainVars, collect, windowVars, crossed, imports>>
  BY DEF InitEngineRetrying, InitAttempts, InitChecksFlag, InitCopies, InitDeletes, InitLoads,
         InitSetsFlag, InitReturns, InitAnnounces
<1>5. Unstarted'
  BY <1>2, <1>3, <1>4 DEF Unstarted
<1>6. /\ modelCopyPath' \in BOOLEAN /\ engineReady' \in BOOLEAN
      /\ nativeInitialized' \in BOOLEAN /\ context' \in BOOLEAN
      /\ file' \in {"absent", "valid", "corrupt"}
  BY DEF InitEngineRetrying, InitAttempts, InitChecksFlag, InitCopies, InitDeletes, InitLoads,
         InitSetsFlag, InitReturns, InitAnnounces, Flags, Places
<1>7. Flags' /\ Counters'
  BY <1>4, <1>6 DEF Flags, Counters, windowVars
<1>8. Places'
  BY <1>2, <1>4, <1>6 DEF Places, windowVars
<1> QED
  BY <1>4, <1>5, <1>7, <1>8, AccumulatorKept

\* A recorded chunk and an imported file keep the types.
LEMMA RecorderKeepsTyped ==
    ASSUME TypedInv, Recorder \/ ImportModel, UNCHANGED crashed
    PROVE  TypedInv'
<1> USE WindowAssumption DEF TypedInv, Typed, channelVars, mainVars, engineVars, modelVars
<1>1. UNCHANGED <<mainVars, engineReady, engineVars, modelCopyPath, initEngine, collect,
                  windowVars, crossed>>
  BY DEF Recorder, ImportModel
<1>2. instance' \in BOOLEAN
  BY DEF Recorder, ServiceCreated, ChunkRecorded, ImportModel, Flags
<1>3. file' \in {"absent", "valid", "corrupt"}
  BY DEF Recorder, ImportModel, Places
<1>4. Flags' /\ Places'
  BY <1>1, <1>2, <1>3 DEF Flags, Places, windowVars
<1>5. Counters'
  BY <1>1 DEF Recorder, ServiceCreated, ChunkRecorded, ImportModel, Counters, windowVars
<1>6. Unstarted'
  BY <1>1 DEF Unstarted
<1> QED
  BY <1>1, <1>4, <1>5, <1>6, AccumulatorKept

(***************************************************************************)
(* The collectors.                                                         *)
(***************************************************************************)

\* A collector enters: it is alone, or there is a race.
LEMMA EnterKeepsAlone ==
    ASSUME TypedInv, NEW s \in Sessions, NEW there \in {"adding", "framing"},
           Enter(s, there), UNCHANGED buffer
    PROVE  InsideAlone'
<1> USE DEF TypedInv, Typed
<1>1. there \in InsidePcs /\ there \in CollectPcs /\ CollectGoto(s, there)
  BY DEF Enter, InsidePcs, CollectPcs
<1>2. Inside' = Inside \cup {s}
  BY <1>1, MoveInside
<1>3. collect'[s] # "taking" /\ \A t \in Sessions \ {s} : collect'[t] = collect[t]
  BY <1>1, CollectMoves
<1> QED
  BY <1>2, <1>3 DEF InsideAlone, Enter, Flags

\* A collector leaves: if it was alone nobody is inside, and if it was not the race
\* goes on until the last one leaves.
LEMMA LeaveKeepsAlone ==
    ASSUME TypedInv, NEW s \in Sessions, NEW there \in {"receiving", "asking"},
           Leave(s, there), s \in Inside
    PROVE  InsideAlone'
<1> USE DEF TypedInv, Typed
<1>1. there \notin InsidePcs /\ there \in CollectPcs /\ CollectGoto(s, there)
  BY DEF Leave, InsidePcs, CollectPcs
<1>2. Inside' = Inside \ {s}
  BY <1>1, MoveInside
<1>3. list' # "racing" => Inside' = {}
  BY <1>2 DEF Leave, InsideAlone
<1> QED
  BY <1>3 DEF InsideAlone, Inside, InsidePcs

\* The collector's step does not touch what the other coroutines own.
LEMMA CollectTypes ==
    ASSUME TypedInv, NEW s \in Sessions, CollectChunks(s)
    PROVE  /\ Typed' /\ Unstarted'
           /\ \E there \in CollectPcs : CollectGoto(s, there) \/ UNCHANGED collect
<1> USE WindowAssumption DEF TypedInv, Typed, mainVars, engineVars, modelVars, windowVars
<1>1. /\ UNCHANGED <<instance, recorded, mainVars, engineReady, engineVars, modelVars,
                     initEngine, crossed>>
      /\ collect[s] # "none"
  BY DEF CollectChunks, CollectPolls, CollectReceives, AddsChunk, ChecksFramed, TakesWindow,
         CollectAsks, TranscribeChecksFlag, TranscribeBegins, TranscribeEnds
<1>2. (\E there \in CollectPcs : CollectGoto(s, there)) \/ UNCHANGED collect
  BY DEF CollectChunks, CollectPolls, CollectReceives, AddsChunk, ChecksFramed, TakesWindow,
         CollectAsks, TranscribeChecksFlag, TranscribeBegins, TranscribeEnds, Enter, Leave,
         CollectPcs, InsidePcs
<1>3. /\ collect' \in [Sessions -> CollectPcs]
      /\ \A t \in Sessions \ {s} : collect'[t] = collect[t]
  BY <1>2, CollectMoves DEF Places
<1>4. list' \in {"sound", "racing", "damaged"}
  BY DEF CollectChunks, CollectPolls, CollectReceives, AddsChunk, ChecksFramed, TakesWindow,
         CollectAsks, TranscribeChecksFlag, TranscribeBegins, TranscribeEnds, Enter, Leave, Places
<1>5. crashed' \in BOOLEAN
  BY DEF CollectChunks, CollectPolls, CollectReceives, AddsChunk, ChecksFramed, TakesWindow,
         CollectAsks, TranscribeChecksFlag, TranscribeBegins, TranscribeEnds, Resized, Flags
<1>6. audioChunks' \in 0 .. recorded
  BY DEF CollectChunks, CollectPolls, CollectReceives, AddsChunk, ChecksFramed, TakesWindow,
         CollectAsks, TranscribeChecksFlag, TranscribeBegins, TranscribeEnds, Counters
<1>7. buffer' \in Nat
  <2>1. CASE AddsChunk(s)
    BY <2>1 DEF AddsChunk, Resized, Counters
  <2>2. CASE TakesWindow(s)
    <3>1. list # "racing" => buffer >= Window
      BY <2>2 DEF TakesWindow, InsideAlone
    <3> QED
      BY <2>2, <3>1 DEF TakesWindow, Resized, Slid, Counters
  <2>3. CASE UNCHANGED buffer
    BY <2>3 DEF Counters
  <2> QED
    BY <2>1, <2>2, <2>3 DEF CollectChunks, CollectPolls, CollectReceives, ChecksFramed,
       CollectAsks, TranscribeChecksFlag, TranscribeBegins, TranscribeEnds
<1>8. Flags'
  BY <1>1, <1>5 DEF Flags
<1>9. Counters'
  BY <1>1, <1>6, <1>7 DEF Counters
<1>10. Places'
  BY <1>1, <1>3, <1>4 DEF Places
<1>11. Unstarted'
  BY <1>1, <1>3 DEF Unstarted
<1> QED
  BY <1>2, <1>8, <1>9, <1>10, <1>11 DEF CollectPcs

\* A step of a collector outside the accumulator, and its way in.
LEMMA OutsideStepKeepsAlone ==
    ASSUME TypedInv, NEW s \in Sessions, s \notin Inside,
           UNCHANGED <<collect, list>>
               \/ (UNCHANGED list /\ \E there \in CollectPcs \ InsidePcs : CollectGoto(s, there))
               \/ \E there \in {"adding", "framing"} : Enter(s, there),
           UNCHANGED buffer
    PROVE  InsideAlone'
<1> USE DEF TypedInv, Typed
<1>1. CASE UNCHANGED <<collect, list>>
  BY <1>1 DEF InsideAlone, Inside
<1>2. ASSUME NEW there \in CollectPcs \ InsidePcs, CollectGoto(s, there), UNCHANGED list
      PROVE  InsideAlone'
  <2>1. Inside' = Inside \ {s}
    BY <1>2, MoveInside
  <2>2. collect'[s] = there /\ \A t \in Sessions \ {s} : collect'[t] = collect[t]
    BY <1>2, CollectMoves
  <2> QED
    BY <1>2, <2>1, <2>2 DEF InsideAlone, InsidePcs
<1>3. ASSUME NEW there \in {"adding", "framing"}, Enter(s, there)
      PROVE  InsideAlone'
  BY <1>3, EnterKeepsAlone
<1> QED
  BY <1>1, <1>2, <1>3

\* Inside, a collector that is alone takes a window it has just seen.
LEMMA InsideStepKeepsAlone ==
    ASSUME TypedInv, NEW s \in Sessions, AddsChunk(s) \/ ChecksFramed(s) \/ TakesWindow(s)
    PROVE  InsideAlone'
<1> USE DEF TypedInv, Typed
<1>1. CASE AddsChunk(s)
  <2>1. /\ Inside' = Inside
        /\ collect'[s] # "taking" /\ \A t \in Sessions \ {s} : collect'[t] = collect[t]
    BY <1>1, MoveInside, CollectMoves DEF AddsChunk, CollectPcs, InsidePcs, Inside
  <2>2. s \in Inside /\ UNCHANGED list
    BY <1>1 DEF AddsChunk, Inside, InsidePcs
  <2> QED
    BY <2>1, <2>2 DEF InsideAlone, Inside, InsidePcs
<1>2. CASE ChecksFramed(s) /\ Framed
  <2>1. CollectGoto(s, "taking") /\ UNCHANGED <<list, buffer>> /\ collect[s] = "framing"
    BY <1>2 DEF ChecksFramed
  <2>2. /\ Inside' = Inside /\ s \in Inside
    BY <2>1, MoveInside DEF CollectPcs, InsidePcs, Inside
  <2>3. \A t \in Sessions \ {s} : collect'[t] = collect[t]
    BY <2>1, CollectMoves DEF CollectPcs, InsidePcs
  <2> QED
    BY <1>2, <2>1, <2>2, <2>3 DEF InsideAlone, Framed
<1>3. CASE ChecksFramed(s) /\ ~Framed
  BY <1>3, LeaveKeepsAlone DEF ChecksFramed, Inside, InsidePcs
<1>4. CASE TakesWindow(s)
  BY <1>4, LeaveKeepsAlone DEF TakesWindow, Inside, InsidePcs
<1> QED
  BY <1>1, <1>2, <1>3, <1>4

\* The collectors, which share the unprotected accumulator, keep the types.
LEMMA CollectKeepsTyped ==
    ASSUME TypedInv, NEW s \in Sessions, CollectChunks(s)
    PROVE  TypedInv'
<1>1. Typed' /\ Unstarted'
  BY CollectTypes
<1>2. CASE AddsChunk(s) \/ ChecksFramed(s) \/ TakesWindow(s)
  BY <1>1, <1>2, InsideStepKeepsAlone DEF TypedInv
<1>3. CASE \/ CollectPolls(s) \/ CollectReceives(s) \/ CollectAsks(s)
           \/ TranscribeChecksFlag(s) \/ TranscribeBegins(s) \/ TranscribeEnds(s)
  <2>1. s \notin Inside /\ UNCHANGED buffer
    BY <1>3 DEF Inside, InsidePcs, CollectPolls, CollectReceives, CollectAsks,
       TranscribeChecksFlag, TranscribeBegins, TranscribeEnds, windowVars
  <2>2. \/ UNCHANGED <<collect, list>>
        \/ UNCHANGED list /\ \E there \in CollectPcs \ InsidePcs : CollectGoto(s, there)
        \/ \E there \in {"adding", "framing"} : Enter(s, there)
    BY <1>3 DEF CollectPcs, InsidePcs, CollectPolls, CollectReceives, CollectAsks,
       TranscribeChecksFlag, TranscribeBegins, TranscribeEnds, windowVars
  <2> QED
    BY <1>1, <2>1, <2>2, OutsideStepKeepsAlone DEF TypedInv
<1> QED
  BY <1>2, <1>3 DEF CollectChunks

\* A reset that throws leaves everything else as it was.
LEMMA ResetCrashKeepsTyped ==
    ASSUME TypedInv, StopResetCrashes
    PROVE  TypedInv'
<1> USE DEF TypedInv, Typed, StopResetCrashes, channelVars, mainVars, engineVars, modelVars,
        windowVars
<1>1. Flags' /\ Counters' /\ Places'
  BY DEF Flags, Counters, Places
<1>2. Unstarted'
  BY DEF Unstarted
<1> QED
  BY <1>1, <1>2, AccumulatorKept

\* Every step of the transcription keeps the strengthened types.
LEMMA TypedInvInductive == TypedInv /\ [Next]_vars => TypedInv'
<1> SUFFICES ASSUME TypedInv, [Next]_vars PROVE TypedInv'
  OBVIOUS
<1>1. CASE UNCHANGED vars
  BY <1>1 DEF vars, channelVars, mainVars, engineVars, modelVars, windowVars, TypedInv, Typed,
     Flags, Counters, Places, Unstarted, InsideAlone, Inside
<1>2. CASE ~crashed /\ Others
  BY <1>2, StartKeepsTyped, StopKeepsTyped, RecorderKeepsTyped, RetryKeepsTyped
     DEF Others, Main
<1>3. ASSUME NEW s \in Sessions, CollectChunks(s) PROVE TypedInv'
  BY <1>3, CollectKeepsTyped
<1>4. CASE StopResetCrashes
  BY <1>4, ResetCrashKeepsTyped
<1> QED
  BY <1>1, <1>2, <1>3, <1>4 DEF Next

\* The transcription starts with no session and an empty buffer.
LEMMA TypedInvInit == Init => TypedInv
<1> SUFFICES ASSUME Init PROVE TypedInv
  OBVIOUS
<1> USE WindowAssumption DEF Init
<1>1. Flags
  BY DEF Flags
<1>2. Counters
  BY DEF Counters
<1>3. Places
  BY DEF Places, MainPcs, InitPcs, CollectPcs
<1>4. Unstarted
  BY DEF Unstarted
<1>5. Inside = {}
  BY DEF Inside, InsidePcs
<1>6. InsideAlone
  BY <1>5 DEF InsideAlone
<1> QED
  BY <1>1, <1>2, <1>3, <1>4, <1>6 DEF TypedInv, Typed

\* The strengthened types hold throughout.
LEMMA TypedInvariant == Spec => []TypedInv
BY TypedInvInit, TypedInvInductive, PTL DEF Spec

\* Type correctness.  The accumulator, which the collectors of several sessions and
\* stop() may corrupt together, has some size or other, but never loses more than
\* it has: a window is cut only where one was seen, or in a race
\* (PcmWindowAccumulator.kt l. 27-40).
THEOREM TypeCorrect == Spec => []TypeOK
<1>1. TypedInv => TypeOK
  <2> SUFFICES ASSUME TypedInv PROVE TypeOK
    OBVIOUS
  <2>1. {scopeActive, engineReady, nativeInitialized, context, modelCopyPath, crossed,
         crashed} \subseteq BOOLEAN
    BY DEF TypedInv, Typed, Flags
  <2> QED
    BY <2>1 DEF TypedInv, Typed, Flags, Counters, Places, TypeOK
<1> QED
  BY <1>1, TypedInvariant, PTL

(***************************************************************************)
(* The context.                                                            *)
(***************************************************************************)

\* The collectors inside whisper_full: the users of ModelLifetime.
Transcribing == {s \in Sessions : collect[s] = "whisper"}

\* A step that leaves the context and whoever transcribes alone.
Elsewhere == context' = context /\ Transcribing' = Transcribing

\* A retry loop touches the context only to load one, when nobody transcribes.
LEMMA RetryRefines ==
    ASSUME NEW s \in Sessions, InitEngineRetrying(s)
    PROVE  Elsewhere \/ Lifetime!Load
<1>1. Transcribing' = Transcribing
  BY DEF InitEngineRetrying, Transcribing
<1>2. CASE InitLoads(s)
  BY <1>1, <1>2 DEF InitLoads, MutexFree, Lifetime!Load, Transcribing, Elsewhere
<1>3. CASE UNCHANGED context
  BY <1>1, <1>3 DEF Elsewhere
<1> QED
  BY <1>2, <1>3 DEF InitEngineRetrying, InitAttempts, InitChecksFlag, InitCopies, InitDeletes,
     InitSetsFlag, InitReturns, InitAnnounces, engineVars

\* The main thread touches it only to free it, when nobody transcribes.
LEMMA MainRefines ==
    ASSUME TypedInv, Main
    PROVE  Elsewhere \/ Lifetime!Free
<1>1. CASE StartCapturing
  <2>1. session + 1 \in Sessions /\ collect[session + 1] = "none"
    BY <1>1, WindowAssumption
       DEF StartCapturing, TypedInv, Typed, Counters, Unstarted, Sessions
  <2>2. /\ collect'[session + 1] = "polling"
        /\ \A t \in Sessions \ {session + 1} : collect'[t] = collect[t]
    BY <1>1, <2>1, CollectMoves DEF StartCapturing, TypedInv, Typed, CollectPcs
  <2> QED
    BY <1>1, <2>1, <2>2 DEF StartCapturing, engineVars, Transcribing, Elsewhere
<1>2. CASE StopCalled
  BY <1>2 DEF StopCalled, engineVars, Transcribing, Elsewhere
<1>3. CASE StopStep
  <2>1. Transcribing' = Transcribing
    BY <1>3 DEF StopStep, Transcribing
  <2>2. CASE ReleaseFrees
    <3>1. Transcribing = {} /\ context' = FALSE
      BY <2>2 DEF ReleaseFrees, MutexFree, Transcribing
    <3>2. CASE context
      BY <2>1, <3>1, <3>2 DEF Lifetime!Free, Transcribing
    <3>3. CASE ~context
      BY <2>1, <3>1, <3>3 DEF Elsewhere, TypedInv, Typed, Flags
    <3> QED
      BY <3>2, <3>3
  <2>3. CASE UNCHANGED context
    BY <2>1, <2>3 DEF Elsewhere
  <2> QED
    BY <1>3, <2>2, <2>3 DEF StopStep, StopResets, ReleaseChecksFlag, ReleaseClearsFlag,
       StopCancels, engineVars
<1> QED
  BY <1>1, <1>2, <1>3 DEF Main

\* A collector begins to transcribe alone and on a context, or ends.
LEMMA CollectRefines ==
    ASSUME TypedInv, NEW s \in Sessions, CollectChunks(s)
    PROVE  Elsewhere \/ Lifetime!Begin(s) \/ Lifetime!End(s)
<1> USE DEF TypedInv, Typed
<1>1. UNCHANGED context
  BY DEF CollectChunks, engineVars
<1>2. ASSUME NEW there \in CollectPcs, CollectGoto(s, there)
      PROVE  Transcribing' = IF there = "whisper" THEN Transcribing \cup {s}
                             ELSE Transcribing \ {s}
  <2>1. /\ collect'[s] = there
        /\ \A t \in Sessions \ {s} : collect'[t] = collect[t]
    BY <1>2, CollectMoves
  <2> QED
    BY <2>1 DEF Transcribing
<1>3. CASE TranscribeBegins(s)
  <2>1. Transcribing = {}
    BY <1>3 DEF TranscribeBegins, MutexFree, Transcribing
  <2>2. CASE context
    <3>1. Transcribing' = {s}
      BY <1>2, <1>3, <2>1, <2>2 DEF TranscribeBegins, CollectPcs
    <3> QED
      BY <1>1, <2>1, <2>2, <3>1 DEF Lifetime!Begin, Transcribing
  <2>3. CASE ~context
    <3>1. Transcribing' = {}
      BY <1>2, <1>3, <2>1, <2>3 DEF TranscribeBegins, Enter, CollectPcs, InsidePcs
    <3> QED
      BY <1>1, <2>1, <3>1 DEF Elsewhere
  <2> QED
    BY <2>2, <2>3
<1>4. CASE TranscribeEnds(s)
  <2>1. s \in Transcribing /\ Transcribing' = Transcribing \ {s}
    BY <1>2, <1>4 DEF TranscribeEnds, Enter, Transcribing, CollectPcs, InsidePcs
  <2> QED
    BY <1>1, <2>1 DEF Lifetime!End, Transcribing
<1>5. CASE \/ CollectPolls(s) \/ CollectReceives(s) \/ AddsChunk(s) \/ ChecksFramed(s)
           \/ TakesWindow(s) \/ CollectAsks(s) \/ TranscribeChecksFlag(s)
  <2>1. s \notin Transcribing
    BY <1>5 DEF Transcribing, CollectPolls, CollectReceives, AddsChunk, ChecksFramed,
       TakesWindow, CollectAsks, TranscribeChecksFlag
  <2>2. \/ UNCHANGED collect
        \/ \E there \in CollectPcs \ {"whisper"} : CollectGoto(s, there)
    BY <1>5 DEF CollectPolls, CollectReceives, AddsChunk, ChecksFramed, TakesWindow,
       CollectAsks, TranscribeChecksFlag, Enter, Leave, CollectPcs, InsidePcs
  <2>3. UNCHANGED collect => Transcribing' = Transcribing
    BY DEF Transcribing
  <2> QED
    BY <1>1, <1>2, <2>1, <2>2, <2>3 DEF Elsewhere
<1> QED
  BY <1>3, <1>4, <1>5 DEF CollectChunks

\* Every step is a load, a free, the begin or the end of a transcription, or
\* leaves the context alone.
LEMMA StepRefines ==
    ASSUME TypedInv, [Next]_vars
    PROVE  [Lifetime!Next]_(Lifetime!vars)
<1>1. CASE Elsewhere
  BY <1>1 DEF Elsewhere, Transcribing, Lifetime!vars
<1>2. CASE UNCHANGED vars \/ Recorder \/ ImportModel \/ StopResetCrashes
  BY <1>1, <1>2 DEF vars, engineVars, Recorder, ImportModel, StopResetCrashes, Elsewhere,
     Transcribing
<1> QED
  BY <1>1, <1>2, RetryRefines, MainRefines, CollectRefines DEF Next, Others, Lifetime!Next

\* For any number of sessions whose coroutines outlive their stop(), the whisper
\* context implements ModelLifetime: never freed or replaced under a
\* transcription, and one at a time (whisper-jni.cpp l. 31-135).
THEOREM TranscriptionRefinesLifetime == Spec => ImplementsLifetime
<1>1. Init => Lifetime!Init
  BY DEF Init, Lifetime!Init
<1>2. TypedInv /\ [Next]_vars => [Lifetime!Next]_(Lifetime!vars)
  BY StepRefines
<1> QED
  BY TypedInvariant, <1>1, <1>2, PTL DEF Spec, ImplementsLifetime, Lifetime!Spec
===============================================================================
