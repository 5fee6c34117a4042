------------------------------ MODULE LlamaEngine ------------------------------
(***************************************************************************)
(* LlamaEngineImpl.kt and llama-jni.cpp: one llama model shared by every   *)
(* thread.  Each Kotlin operation reads the volatile nativeInitialized,    *)
(* calls into JNI, where a mutex covers the whole native function, and     *)
(* writes nativeInitialized afterwards, outside the mutex.  Every access   *)
(* to shared state is a step of its own.                                   *)
(***************************************************************************)
EXTENDS Naturals, FiniteSets

CONSTANTS
    Threads,    \* callers: coroutines on Dispatchers.Default
    NoThread,   \* g_mutex is free
    MaxCalls    \* bound on the operations started

ASSUME EngineAssumption ==
    /\ NoThread \notin Threads
    /\ MaxCalls \in Nat

VARIABLES
    nativeInitialized,  \* the volatile Kotlin flag
    model,              \* g_model # nullptr
    context,            \* g_ctx # nullptr
    mutex,              \* holder of g_mutex
    pc,                 \* where each thread is
    copies,             \* models allocated and not freed
    overlapped,         \* history: two lifecycle calls have run at the same time
    calls               \* operations started

vars == <<nativeInitialized, model, context, mutex, pc, copies, overlapped, calls>>

InitPcs == {"init_waits", "init_checks", "loading", "building_context", "init_returns"}
ReleasePcs == {"release_waits", "freeing_context", "freeing_model", "release_returns"}
LifecyclePcs == InitPcs \cup ReleasePcs
ClassifyPcs == {"classify_waits", "classify_checks", "decoding"}
LockedPcs == {"init_checks", "loading", "building_context", "classify_checks",
              "decoding", "freeing_context", "freeing_model"}

TypeOK ==
    /\ nativeInitialized \in BOOLEAN
    /\ model \in BOOLEAN
    /\ context \in BOOLEAN
    /\ mutex \in Threads \cup {NoThread}
    /\ pc \in [Threads -> {"idle"} \cup LifecyclePcs \cup ClassifyPcs]
    /\ copies \in Nat
    /\ overlapped \in BOOLEAN
    /\ calls \in 0 .. MaxCalls

Init ==
    /\ nativeInitialized = FALSE
    /\ model = FALSE
    /\ context = FALSE
    /\ mutex = NoThread
    /\ pc = [t \in Threads |-> "idle"]
    /\ copies = 0
    /\ overlapped = FALSE
    /\ calls = 0

-------------------------------------------------------------------------------
Goto(t, there) == pc' = [pc EXCEPT ![t] = there]

nativeVars == <<model, context, copies>>

\* The Kotlin half of an operation: read the flag, go native or come back
\* (initialize throws when set, classify throws and release returns when not).
Call(t, guard, there) ==
    /\ pc[t] = "idle"
    /\ calls < MaxCalls
    /\ calls' = calls + 1
    /\ Goto(t, IF guard THEN there ELSE "idle")
    /\ UNCHANGED <<nativeInitialized, nativeVars, mutex>>

LifecycleBusy(t) == \E u \in Threads \ {t} : pc[u] \in LifecyclePcs

CallInitialize(t) ==
    /\ Call(t, ~nativeInitialized, "init_waits")
    /\ overlapped' = (overlapped \/ (~nativeInitialized /\ LifecycleBusy(t)))

CallClassify(t) ==
    /\ Call(t, nativeInitialized, "classify_waits")
    /\ UNCHANGED overlapped

CallRelease(t) ==
    /\ Call(t, nativeInitialized, "release_waits")
    /\ overlapped' = (overlapped \/ (nativeInitialized /\ LifecycleBusy(t)))

MutMutexFree_NoGuard == TRUE

MutexFree == mutex = NoThread

\* std::lock_guard at the top of each native function, and its destructor.
Locks(t, from, to) ==
    /\ pc[t] = from
    /\ MutexFree
    /\ mutex' = t
    /\ Goto(t, to)
    /\ UNCHANGED <<nativeInitialized, nativeVars, overlapped, calls>>

MutUnlocks_KeepsHolding(t, to) == Goto(t, to) /\ UNCHANGED mutex

Unlocks(t, to) ==
    /\ mutex' = NoThread
    /\ Goto(t, to)

InitLocks(t) == Locks(t, "init_waits", "init_checks")
ClassifyLocks(t) == Locks(t, "classify_waits", "classify_checks")
ReleaseLocks(t) == Locks(t, "release_waits", "freeing_context")

MutModelPresent_NotChecked == FALSE

\* if (g_model != nullptr) return 0
ModelPresent == model

InitChecksModel(t) ==
    /\ pc[t] = "init_checks"
    /\ IF ModelPresent
       THEN Unlocks(t, "idle")
       ELSE Goto(t, "loading") /\ UNCHANGED mutex
    /\ UNCHANGED <<nativeInitialized, nativeVars, overlapped, calls>>

\* llama_model_load_from_file: a model, or nullptr and nativeInitialize returns 0.
LoadsModel(t) ==
    /\ pc[t] = "loading"
    /\ \/ /\ model' = TRUE
          /\ copies' = copies + 1
          /\ Goto(t, "building_context")
          /\ UNCHANGED mutex
       \/ /\ Unlocks(t, "idle")
          /\ UNCHANGED <<model, copies>>
    /\ UNCHANGED <<nativeInitialized, context, overlapped, calls>>

MutModelFreed_Unchecked == model' = FALSE /\ copies' = copies - 1

\* llama_model_free(g_model); g_model = nullptr;
ModelFreed ==
    /\ model' = FALSE
    /\ copies' = IF model THEN copies - 1 ELSE copies

\* llama_init_from_model: a context, or nullptr and the model is freed again.
BuildsContext(t) ==
    /\ pc[t] = "building_context"
    /\ \/ /\ context' = TRUE
          /\ Unlocks(t, "init_returns")
          /\ UNCHANGED <<model, copies>>
       \/ /\ ModelFreed
          /\ Unlocks(t, "idle")
          /\ UNCHANGED context
    /\ UNCHANGED <<nativeInitialized, overlapped, calls>>

InitSetsFlag(t) ==
    /\ pc[t] = "init_returns"
    /\ nativeInitialized' = TRUE
    /\ Goto(t, "idle")
    /\ UNCHANGED <<nativeVars, mutex, overlapped, calls>>

MutUsable_NotChecked == TRUE

\* if (g_model == nullptr || g_ctx == nullptr) return ""
Usable == model /\ context

ClassifyChecks(t) ==
    /\ pc[t] = "classify_checks"
    /\ IF Usable
       THEN Goto(t, "decoding") /\ UNCHANGED mutex
       ELSE Unlocks(t, "idle")
    /\ UNCHANGED <<nativeInitialized, nativeVars, overlapped, calls>>

\* Prompt and generation loop, with every early return, end in the unlock.
ClassifyReturns(t) ==
    /\ pc[t] = "decoding"
    /\ Unlocks(t, "idle")
    /\ UNCHANGED <<nativeInitialized, nativeVars, overlapped, calls>>

FreesContext(t) ==
    /\ pc[t] = "freeing_context"
    /\ context' = FALSE
    /\ Goto(t, "freeing_model")
    /\ UNCHANGED <<nativeInitialized, model, copies, mutex, overlapped, calls>>

FreesModel(t) ==
    /\ pc[t] = "freeing_model"
    /\ ModelFreed
    /\ Unlocks(t, "release_returns")
    /\ UNCHANGED <<nativeInitialized, context, overlapped, calls>>

MutFlagCleared_Forgotten == UNCHANGED nativeInitialized

FlagCleared == nativeInitialized' = FALSE

ReleaseClearsFlag(t) ==
    /\ pc[t] = "release_returns"
    /\ FlagCleared
    /\ Goto(t, "idle")
    /\ UNCHANGED <<nativeVars, mutex, overlapped, calls>>

-------------------------------------------------------------------------------
Calls(t) == CallInitialize(t) \/ CallClassify(t) \/ CallRelease(t)

InitStep(t) ==
    InitLocks(t) \/ InitChecksModel(t) \/ LoadsModel(t) \/ BuildsContext(t)
        \/ InitSetsFlag(t)

ClassifyStep(t) == ClassifyLocks(t) \/ ClassifyChecks(t) \/ ClassifyReturns(t)

ReleaseStep(t) ==
    ReleaseLocks(t) \/ FreesContext(t) \/ FreesModel(t) \/ ReleaseClearsFlag(t)

Running(t) == InitStep(t) \/ ClassifyStep(t) \/ ReleaseStep(t)

Next == \E t \in Threads : Calls(t) \/ Running(t)

\* A thread inside an operation is scheduled again; std::mutex promises no
\* order among the waiters, so acquiring it is only weakly fair.
Fairness == \A t \in Threads : WF_vars(Running(t))

Spec == Init /\ [][Next]_vars /\ Fairness

-------------------------------------------------------------------------------
\* The mutex covers every native section, and a thread in the generation loop
\* has a model and a context under it until it leaves (llama-jni.cpp l. 150-302).
NoUseAfterFree ==
    /\ \A t \in Threads : pc[t] \in LockedPcs <=> mutex = t
    /\ \A t \in Threads : pc[t] = "decoding" => model /\ context

\* No failure path and no race leaks a model or frees one twice: outside the
\* native sections memory holds exactly the model g_model points to, and the
\* pointer and the context come and go together (l. 57-60, 105-112, 317-332).
OneCopy ==
    /\ copies = IF model THEN 1 ELSE 0
    /\ mutex = NoThread => (model <=> context)

\* The flag written after the native call tells the truth about the model when
\* no lifecycle call is running, provided none has ever overlapped another.
\* (When they overlap it need not: see the README.)
FlagTracksModel ==
    ~overlapped /\ (\A t \in Threads : pc[t] \notin LifecyclePcs)
        => (nativeInitialized <=> model)

\* Every operation returns: no order of callers wedges the mutex.
CallsReturn == \A t \in Threads : pc[t] # "idle" ~> pc[t] = "idle"

\* The engine keeps the promise of ModelLifetime: the model is usable while its
\* context exists, and its users are the threads in the generation loop.
Lifetime == INSTANCE ModelLifetime WITH
    loaded <- context,
    users <- {t \in Threads : pc[t] = "decoding"}

ImplementsLifetime == Lifetime!Spec
===============================================================================
