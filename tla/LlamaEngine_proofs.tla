-------------------------- MODULE LlamaEngine_proofs --------------------------
(***************************************************************************)
(* For any set of threads and any number of calls: the mutex discipline,   *)
(* the absence of leaks and of use after free, the truth of the Kotlin     *)
(* flag, and the refinement of ModelLifetime.                              *)
(***************************************************************************)
EXTENDS LlamaEngine, TLAPS

(***************************************************************************)
(* Types.                                                                  *)
(***************************************************************************)

\* The state space of the engine, all variables but the counter of copies,
\* which needs the memory invariant below to stay non-negative.
Typed ==
    /\ nativeInitialized \in BOOLEAN
    /\ model \in BOOLEAN
    /\ context \in BOOLEAN
    /\ mutex \in Threads \cup {NoThread}
    /\ pc \in [Threads -> {"idle"} \cup LifecyclePcs \cup ClassifyPcs]
    /\ overlapped \in BOOLEAN
    /\ calls \in 0 .. MaxCalls

\* Where the holder of the mutex stands says what the two pointers hold.
PointersAt(p) ==
    CASE p = "loading" -> ~model /\ ~context
      [] p = "building_context" -> model /\ ~context
      [] p = "decoding" -> model /\ context
      [] p = "freeing_model" -> ~context
      [] p \in {"init_checks", "classify_checks", "freeing_context"} ->
            model <=> context
      [] OTHER -> TRUE

\* The inductive invariant of the native layer.
Memory ==
    /\ \A t \in Threads : pc[t] \in LockedPcs <=> mutex = t
    /\ \A t \in Threads : PointersAt(pc[t])
    /\ mutex = NoThread => (model <=> context)
    /\ copies = IF model THEN 1 ELSE 0

\* Variables of every state start in their type, and every operation of every
\* thread keeps them there.
LEMMA TypedInductive ==
    ASSUME Typed, [Next]_vars
    PROVE  Typed'
<1> USE EngineAssumption DEF Typed, LifecyclePcs, InitPcs, ReleasePcs, ClassifyPcs
<1>1. CASE UNCHANGED vars
  BY <1>1 DEF vars
<1>2. ASSUME NEW t \in Threads, Calls(t)
      PROVE  Typed'
  <2>1. overlapped' \in BOOLEAN
    <3> HIDE DEF LifecycleBusy
    <3> QED
      BY <1>2 DEF Calls, CallInitialize, CallClassify, CallRelease
  <2>2. calls' \in 0 .. MaxCalls
    BY <1>2 DEF Calls, CallInitialize, CallClassify, CallRelease, Call
  <2>3. pc' \in [Threads -> {"idle"} \cup LifecyclePcs \cup ClassifyPcs]
    BY <1>2 DEF Calls, CallInitialize, CallClassify, CallRelease, Call, Goto
  <2> QED
    BY <1>2, <2>1, <2>2, <2>3
       DEF Calls, CallInitialize, CallClassify, CallRelease, Call, nativeVars
<1>3. ASSUME NEW t \in Threads, InitStep(t)
      PROVE  Typed'
  BY <1>3 DEF InitStep, InitLocks, InitChecksModel, LoadsModel, BuildsContext,
              InitSetsFlag, Locks, Unlocks, Goto, ModelFreed, nativeVars
<1>4. ASSUME NEW t \in Threads, ClassifyStep(t)
      PROVE  Typed'
  BY <1>4 DEF ClassifyStep, ClassifyLocks, ClassifyChecks, ClassifyReturns,
              Locks, Unlocks, Goto, nativeVars
<1>5. ASSUME NEW t \in Threads, ReleaseStep(t)
      PROVE  Typed'
  BY <1>5 DEF ReleaseStep, ReleaseLocks, FreesContext, FreesModel,
              ReleaseClearsFlag, FlagCleared, Locks, Unlocks, Goto, ModelFreed,
              nativeVars
<1> QED
  BY <1>1, <1>2, <1>3, <1>4, <1>5 DEF Next, Running

\* Only the holder of the mutex touches the pointers, and it leaves them paired:
\* the memory invariant is inductive.
LEMMA MemoryInductive ==
    ASSUME Typed, Memory, [Next]_vars
    PROVE  Memory'
<1> USE EngineAssumption DEF Typed, Memory, PointersAt, LockedPcs,
        LifecyclePcs, InitPcs, ReleasePcs, ClassifyPcs
<1>1. CASE UNCHANGED vars
  BY <1>1 DEF vars
<1>2. ASSUME NEW t \in Threads, Calls(t)
      PROVE  Memory'
  BY <1>2 DEF Calls, CallInitialize, CallClassify, CallRelease, Call, Goto,
              nativeVars
<1>3. ASSUME NEW t \in Threads, NEW from, NEW to,
             <<from, to>> \in {<<"init_waits", "init_checks">>,
                               <<"classify_waits", "classify_checks">>,
                               <<"release_waits", "freeing_context">>},
             Locks(t, from, to)
      PROVE  Memory'
  BY <1>3 DEF Locks, MutexFree, Goto, nativeVars
<1>4. ASSUME NEW t \in Threads, InitChecksModel(t)
      PROVE  Memory'
  BY <1>4 DEF InitChecksModel, ModelPresent, Unlocks, Goto, nativeVars
<1>5. ASSUME NEW t \in Threads, LoadsModel(t)
      PROVE  Memory'
  BY <1>5 DEF LoadsModel, Unlocks, Goto
<1>6. ASSUME NEW t \in Threads, BuildsContext(t)
      PROVE  Memory'
  BY <1>6 DEF BuildsContext, ModelFreed, Unlocks, Goto
<1>7. ASSUME NEW t \in Threads, ClassifyChecks(t) \/ ClassifyReturns(t)
      PROVE  Memory'
  BY <1>7 DEF ClassifyChecks, ClassifyReturns, Usable, Unlocks, Goto, nativeVars
<1>8. ASSUME NEW t \in Threads, FreesContext(t)
      PROVE  Memory'
  BY <1>8 DEF FreesContext, Goto
<1>9. ASSUME NEW t \in Threads, FreesModel(t)
      PROVE  Memory'
  BY <1>9 DEF FreesModel, ModelFreed, Unlocks, Goto
<1>10. ASSUME NEW t \in Threads, InitSetsFlag(t) \/ ReleaseClearsFlag(t)
       PROVE  Memory'
  BY <1>10 DEF InitSetsFlag, ReleaseClearsFlag, Goto, nativeVars
<1> QED
  BY <1>1, <1>2, <1>3, <1>4, <1>5, <1>6, <1>7, <1>8, <1>9, <1>10
     DEF Next, Running, InitStep, ClassifyStep, ReleaseStep, InitLocks,
         ClassifyLocks, ReleaseLocks

\* What each stage of a lifecycle call may assume of the flag and the model when
\* no other lifecycle call ever ran beside it.
FlagAt(p) ==
    CASE p \in {"init_waits", "init_checks"} -> ~nativeInitialized /\ ~model
      [] p \in {"loading", "building_context"} -> ~nativeInitialized
      [] p = "init_returns" -> ~nativeInitialized /\ model
      [] p \in {"release_waits", "freeing_context"} -> nativeInitialized /\ model
      [] p = "freeing_model" -> nativeInitialized
      [] p = "release_returns" -> nativeInitialized /\ ~model
      [] OTHER -> TRUE

FlagKept ==
    ~overlapped =>
        /\ \A t, u \in Threads :
              pc[t] \in LifecyclePcs /\ pc[u] \in LifecyclePcs => t = u
        /\ \A t \in Threads : FlagAt(pc[t])
        /\ (\A t \in Threads : pc[t] \notin LifecyclePcs)
              => (nativeInitialized <=> model)

IInv == Typed /\ Memory /\ FlagKept

\* A lifecycle call that starts while none is running keeps the flag honest
\* until it ends; one that starts beside another sets overlapped.
LEMMA FlagInductive ==
    ASSUME IInv, [Next]_vars
    PROVE  FlagKept'
<1> USE EngineAssumption DEF IInv, Typed, FlagKept, FlagAt, LifecyclePcs,
        InitPcs, ReleasePcs, ClassifyPcs
<1>1. CASE UNCHANGED vars
  BY <1>1 DEF vars
<1>2. ASSUME NEW t \in Threads, CallInitialize(t)
      PROVE  FlagKept'
  <2>1. CASE nativeInitialized
    BY <1>2, <2>1 DEF CallInitialize, Call, Goto, nativeVars
  <2>2. CASE ~nativeInitialized /\ LifecycleBusy(t)
    BY <1>2, <2>2 DEF CallInitialize
  <2>3. CASE ~nativeInitialized /\ ~LifecycleBusy(t)
    BY <1>2, <2>3 DEF CallInitialize, Call, Goto, nativeVars, LifecycleBusy
  <2> QED
    BY <2>1, <2>2, <2>3
<1>3. ASSUME NEW t \in Threads, CallRelease(t)
      PROVE  FlagKept'
  <2>1. CASE ~nativeInitialized
    BY <1>3, <2>1 DEF CallRelease, Call, Goto, nativeVars
  <2>2. CASE nativeInitialized /\ LifecycleBusy(t)
    BY <1>3, <2>2 DEF CallRelease
  <2>3. CASE nativeInitialized /\ ~LifecycleBusy(t)
    BY <1>3, <2>3 DEF CallRelease, Call, Goto, nativeVars, LifecycleBusy
  <2> QED
    BY <2>1, <2>2, <2>3
<1>4. ASSUME NEW t \in Threads, CallClassify(t) \/ ClassifyStep(t)
      PROVE  FlagKept'
  BY <1>4 DEF CallClassify, Call, ClassifyStep, ClassifyLocks, ClassifyChecks,
              ClassifyReturns, Locks, Unlocks, Goto, nativeVars
<1>5. ASSUME NEW t \in Threads,
             InitLocks(t) \/ InitChecksModel(t) \/ LoadsModel(t)
      PROVE  FlagKept'
  BY <1>5 DEF InitLocks, InitChecksModel, LoadsModel, ModelPresent, Locks,
              Unlocks, Goto, nativeVars, Memory, PointersAt
<1>6. ASSUME NEW t \in Threads, BuildsContext(t) \/ InitSetsFlag(t)
      PROVE  FlagKept'
  BY <1>6 DEF BuildsContext, InitSetsFlag, ModelFreed, Unlocks, Goto,
              nativeVars, Memory, PointersAt
<1>7. ASSUME NEW t \in Threads, ReleaseLocks(t) \/ FreesContext(t)
      PROVE  FlagKept'
  BY <1>7 DEF ReleaseLocks, FreesContext, Locks, Goto, nativeVars
<1>8. ASSUME NEW t \in Threads, FreesModel(t) \/ ReleaseClearsFlag(t)
      PROVE  FlagKept'
  BY <1>8 DEF FreesModel, ReleaseClearsFlag, FlagCleared, ModelFreed, Unlocks,
              Goto, nativeVars
<1> QED
  BY <1>1, <1>2, <1>3, <1>4, <1>5, <1>6, <1>7, <1>8
     DEF Next, Calls, Running, InitStep, ClassifyStep, ReleaseStep

\* The invariant holds of a fresh process.
LEMMA IInvInit == Init => IInv
<1> USE EngineAssumption
        DEF EngineAssumption, Init, LockedPcs, LifecyclePcs, InitPcs, ReleasePcs, ClassifyPcs
<1>1. Init => Typed
  <2> SUFFICES ASSUME Init PROVE Typed
    OBVIOUS
  <2>1. calls \in 0 .. MaxCalls
    OBVIOUS
  <2>2. pc \in [Threads -> {"idle"} \cup LifecyclePcs \cup ClassifyPcs]
    OBVIOUS
  <2>3. /\ nativeInitialized \in BOOLEAN
        /\ model \in BOOLEAN
        /\ context \in BOOLEAN
        /\ overlapped \in BOOLEAN
        /\ mutex \in Threads \cup {NoThread}
    OBVIOUS
  <2> QED
    BY <2>1, <2>2, <2>3 DEF Typed
<1>2. Init => Memory
  BY DEF Memory, PointersAt
<1>3. Init => FlagKept
  BY DEF FlagKept, FlagAt
<1> QED
  BY <1>1, <1>2, <1>3 DEF IInv

\* The invariant holds in every reachable state of the engine.
THEOREM EngineInvariant == Spec => []IInv
<1>1. IInv /\ [Next]_vars => IInv'
  BY TypedInductive, MemoryInductive, FlagInductive DEF IInv
<1> QED
  BY IInvInit, <1>1, PTL DEF Spec

\* Type correctness of the engine.
THEOREM TypeCorrect == Spec => []TypeOK
<1>1. IInv => TypeOK
  BY DEF IInv, Typed, Memory, TypeOK
<1> QED
  BY EngineInvariant, <1>1, PTL

\* The mutex covers every native section, and no thread ever decodes with a
\* model or context that another thread has freed (llama-jni.cpp l. 147-302).
THEOREM NoUseAfterFreeHolds == Spec => []NoUseAfterFree
<1>1. IInv => NoUseAfterFree
  BY DEF IInv, Memory, PointersAt, NoUseAfterFree
<1> QED
  BY EngineInvariant, <1>1, PTL

\* At most one model is ever allocated, none is leaked by a failure path, and
\* outside the native sections model and context exist together (l. 52-145).
THEOREM OneCopyHolds == Spec => []OneCopy
<1>1. IInv => OneCopy
  BY DEF IInv, Memory, OneCopy
<1> QED
  BY EngineInvariant, <1>1, PTL

\* nativeInitialized tells the truth between lifecycle calls as long as no two
\* lifecycle calls have overlapped (LlamaEngineImpl.kt l. 27-34, 61-66).
THEOREM FlagTracksModelHolds == Spec => []FlagTracksModel
<1>1. IInv => FlagTracksModel
  BY DEF IInv, FlagKept, FlagTracksModel
<1> QED
  BY EngineInvariant, <1>1, PTL

\* The threads in the generation loop: the users of ModelLifetime.
Decoding == {t \in Threads : pc[t] = "decoding"}

\* Every step of the engine is a load, a free, the begin or the end of a use of
\* the abstract model, or leaves the abstract model alone.
LEMMA StepRefines ==
    ASSUME Typed, Memory, [Next]_vars
    PROVE  [Lifetime!Next]_(Lifetime!vars)
<1> DEFINE Same == context' = context /\ Decoding' = Decoding
<1> USE DEF Typed, Memory, PointersAt, LockedPcs, LifecyclePcs, InitPcs,
            ReleasePcs, ClassifyPcs
<1>0. Same => UNCHANGED Lifetime!vars
  BY DEF Lifetime!vars, Decoding
<1>1. CASE UNCHANGED vars
  BY <1>1, <1>0 DEF vars, Decoding
<1>2. ASSUME NEW t \in Threads, Calls(t)
      PROVE  Same
  BY <1>2 DEF Calls, CallInitialize, CallClassify, CallRelease, Call, Goto,
              nativeVars, Decoding
<1>3. ASSUME NEW t \in Threads,
             InitLocks(t) \/ ClassifyLocks(t) \/ ReleaseLocks(t)
      PROVE  Same
  BY <1>3 DEF InitLocks, ClassifyLocks, ReleaseLocks, Locks, Goto, nativeVars,
              Decoding
<1>4. ASSUME NEW t \in Threads,
             InitChecksModel(t) \/ LoadsModel(t) \/ InitSetsFlag(t)
               \/ FreesModel(t) \/ ReleaseClearsFlag(t)
      PROVE  Same
  BY <1>4 DEF InitChecksModel, LoadsModel, InitSetsFlag, FreesModel,
              ReleaseClearsFlag, Unlocks, Goto, nativeVars, Decoding
<1>5. ASSUME NEW t \in Threads, BuildsContext(t)
      PROVE  Same \/ Lifetime!Load
  <2>1. Decoding = {} /\ Decoding' = {}
    BY <1>5 DEF BuildsContext, Unlocks, Goto, Decoding
  <2> QED
    BY <1>5, <2>1 DEF BuildsContext, Lifetime!Load, Decoding
<1>6. ASSUME NEW t \in Threads, FreesContext(t)
      PROVE  Same \/ Lifetime!Free
  <2>1. Decoding = {} /\ Decoding' = {}
    BY <1>6 DEF FreesContext, Goto, Decoding
  <2> QED
    BY <1>6, <2>1 DEF FreesContext, Lifetime!Free, Decoding
<1>7. ASSUME NEW t \in Threads, ClassifyChecks(t)
      PROVE  Same \/ Lifetime!Begin(t)
  <2>1. Decoding = {} /\ Decoding' = IF Usable THEN {t} ELSE {}
    BY <1>7 DEF ClassifyChecks, Unlocks, Goto, Decoding
  <2> QED
    BY <1>7, <2>1 DEF ClassifyChecks, Usable, nativeVars, Lifetime!Begin, Decoding
<1>8. ASSUME NEW t \in Threads, ClassifyReturns(t)
      PROVE  Lifetime!End(t)
  <2>1. t \in Decoding /\ Decoding' = Decoding \ {t}
    BY <1>8 DEF ClassifyReturns, Unlocks, Goto, Decoding
  <2> QED
    BY <1>8, <2>1 DEF ClassifyReturns, nativeVars, Lifetime!End, Decoding
<1> QED
  BY <1>0, <1>1, <1>2, <1>3, <1>4, <1>5, <1>6, <1>7, <1>8
     DEF Next, Running, InitStep, ClassifyStep, ReleaseStep, Lifetime!Next

\* The engine implements ModelLifetime: one model at a time, used by one thread
\* at a time, never freed or replaced under a running classification.
THEOREM EngineRefinesLifetime == Spec => ImplementsLifetime
<1>1. Init => Lifetime!Init
  BY DEF Init, Lifetime!Init
<1>2. IInv /\ [Next]_vars => [Lifetime!Next]_(Lifetime!vars)
  BY StepRefines DEF IInv
<1> QED
  BY EngineInvariant, <1>1, <1>2, PTL DEF Spec, ImplementsLifetime, Lifetime!Spec

===============================================================================
