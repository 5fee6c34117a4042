------------------------------- MODULE LlamaDecode -------------------------------
(***************************************************************************)
(* llama_context::decode over the KV cache (llama-context.cpp,             *)
(* llama-batch.cpp, llama-kv-cache-unified.cpp) and the loop of            *)
(* nativeClassify that drives it (llama-jni.cpp).  A decode checks its     *)
(* batch, splits it, finds slots for all micro-batches ahead, makes room   *)
(* once if it cannot, then places and computes them one at a time; the     *)
(* computation of one may fail.  The client is either the app, with one    *)
(* sequence, or any user of llama.h with several.                          *)
(***************************************************************************)
EXTENDS KvCache

CONSTANTS
    NBatch,         \* n_batch: most tokens of one decode
    NUbatch,        \* n_ubatch: most tokens of a micro-batch
    MaxGen,         \* N_GEN_TOKENS_MAX
    Owners,         \* bound: the sequences of a library client's batch, in order
    MaxPosition     \* bound: last position that client uses

ASSUME BatchAssumption ==
    /\ NBatch \in Nat \ {0} /\ NUbatch \in Nat \ {0}
    /\ MaxGen \in Nat /\ MaxPosition \in Positions
    /\ \A owners \in Owners : owners \in Seq(Seqs) /\ Len(owners) <= NBatch

VARIABLES
    cache,          \* the cells (see KvCache)
    tensors,        \* cell -> what its keys and values were computed from
    phase,          \* where the decode under way is
    job,            \* its batch, slots, micro-batch and did_optimize
    result,         \* what the last decode returned
    app             \* nativeClassify's place, or "library"

vars == <<cache, tensors, phase, job, result, app>>

\* Not computed since the cell was filled; not copied when it was moved.
Unwritten == [owner |-> -1, pos |-> -1]
Lost == [owner |-> -2, pos |-> -2]

\* Results of llama_decode: 0; 1, no slot; 2 stands for 2, -2 and -3, the
\* outputs or the computation failed; -1, the batch was refused.
Results == {0, 1, 2, -1}

Phases == {"idle", "prepare", "optimize", "apply", "compute", "aborted"}
Working == Phases \ {"idle", "aborted"}

NoJob == [batch |-> <<>>, slots |-> <<>>, i_cur |-> 1, did_optimize |-> FALSE]

\* split_simple: micro-batch k of the batch.
Ubatch(batch, k) ==
    LET last == k * NUbatch
    IN  SubSeq(batch, (k - 1) * NUbatch + 1, IF last < Len(batch) THEN last ELSE Len(batch))
NUbatches(batch) == (Len(batch) + NUbatch - 1) \div NUbatch
Ubatches(batch) == [k \in 1 .. NUbatches(batch) |-> Ubatch(batch, k)]

CurrentUbatch == Ubatch(job.batch, job.i_cur)
CurrentSlot == Slot(job.slots[job.i_cur], CurrentUbatch)

\* What is in an empty cell is never read: forget it.
Readable(c, t) == [i \in Cells |-> IF IsEmpty(c, i) THEN Unwritten ELSE t[i]]
-------------------------------------------------------------------------------

Init ==
    /\ cache = EmptyCache
    /\ tensors = [i \in Cells |-> Unwritten]
    /\ phase = "idle" /\ job = NoJob
    /\ result = 0
    /\ app \in {[at |-> "idle", i |-> 0, cur_pos |-> 0],
                [at |-> "library", i |-> 0, cur_pos |-> 0]}

PositionsIn(batch, s) ==
    {batch[k].pos : k \in {j \in DOMAIN batch : batch[j].owner = s}}

\* The checks of llama_batch_allocr::init and the empty batch of decode.
Accepts(c, batch) ==
    /\ batch # <<>>
    /\ \A s \in {batch[k].owner : k \in DOMAIN batch} :
        LET new == PositionsIn(batch, s)
        IN  /\ SeqPosMax(c, s) >= 0 => MinOf(new) = SeqPosMax(c, s) + 1
            /\ MaxOf(new) - MinOf(new) + 1 <= Cardinality(new)

\* decode up to the search for slots.  (kv_self_update(false) has nothing to
\* do: no shift is pending and no defragmentation threshold is set.)
Start(c, batch) ==
    IF Accepts(c, batch)
    THEN /\ phase' = IF Len(batch) <= NBatch THEN "prepare" ELSE "aborted"
         /\ job' = [NoJob EXCEPT !.batch = batch]
         /\ result' = 0
    ELSE result' = -1 /\ UNCHANGED <<phase, job>>

Goto(to) == phase' = to /\ UNCHANGED result
Return(code) == phase' = "idle" /\ job' = NoJob /\ result' = code

\* init_batch: slots for every micro-batch, the cells left as they were.
Prepare ==
    /\ phase = "prepare"
    /\ LET placed == Placed(cache, Ubatches(job.batch))
       IN  /\ cache' = Restored(placed.cache, placed.saved)
           /\ IF placed.success
              THEN \/ /\ Goto("apply")
                      /\ job' = [job EXCEPT !.slots = [k \in DOMAIN placed.saved |->
                                        MinOf(placed.saved[k].cells)]]
                   \/ Return(2)        \* no memory for the outputs
              ELSE IF ~job.did_optimize
              THEN Goto("optimize") /\ UNCHANGED job
              ELSE Return(1)
    /\ UNCHANGED <<tensors, app>>

MutRetry_GivesUp == Return(1)

\* The batch is tried once more.
Retry == Goto("prepare") /\ job' = [job EXCEPT !.did_optimize = TRUE]

\* The graph of a defragmentation: it is computed node by node, and one that fails
\* has copied some of the cells that move and not the others.
Copied(plan, copied) ==
    LET Origin(i) == {k \in Moving(plan) : plan.ids[k] = i}
    IN  [i \in Cells |->
            IF Origin(i) # {}
            THEN LET k == CHOOSE k \in Origin(i) : TRUE
                 IN  IF k \in copied THEN tensors[k - 1] ELSE Lost
            ELSE IF i + 1 \in Moving(plan) THEN Unwritten ELSE tensors[i]]

\* kv_self_update(true): the cells move, then a graph copies the tensors, and
\* the batch is tried again whether or not the graph got to the end.
Optimize ==
    /\ phase = "optimize"
    /\ LET plan == DefragPlan(cache)
       IN  IF plan.n_moves = 0
           THEN Return(1) /\ UNCHANGED <<cache, tensors>>
           ELSE /\ cache' = Defragged(cache, plan)
                /\ \E copied \in SUBSET Moving(plan) : tensors' = Copied(plan, copied)
                /\ Retry
    /\ UNCHANGED app

\* The micro-batch's cells are filled in and the graph's inputs set.
Apply ==
    /\ phase = "apply"
    /\ cache' = ApplyUbatch(cache, job.slots[job.i_cur], CurrentUbatch)
    /\ Goto("compute")
    /\ UNCHANGED <<tensors, job, app>>

Compute ==
    /\ phase = "compute"
    /\ tensors' = [i \in Cells |->
            IF i \in CurrentSlot THEN CurrentUbatch[i - job.slots[job.i_cur] + 1]
                                 ELSE tensors[i]]
    /\ IF job.i_cur < Len(job.slots)
       THEN Goto("apply") /\ job' = [job EXCEPT !.i_cur = @ + 1]
       ELSE Return(0)
    /\ UNCHANGED <<cache, app>>

MutRolledBack_LastPosition(c, ubatch) ==
    LET Cut[n \in 0 .. NSeqs] ==
            IF n = 0 THEN c
            ELSE IF PositionsIn(ubatch, n - 1) = {} THEN Cut[n - 1]
            ELSE SeqRm(Cut[n - 1], n - 1, MaxOf(PositionsIn(ubatch, n - 1)), -1)
    IN  Cut[NSeqs]

\* Each sequence of a failed micro-batch is cut from its first token there.
RolledBack(c, ubatch) ==
    LET Cut[n \in 0 .. NSeqs] ==
            IF n = 0 THEN c
            ELSE IF PositionsIn(ubatch, n - 1) = {} THEN Cut[n - 1]
            ELSE SeqRm(Cut[n - 1], n - 1, MinOf(PositionsIn(ubatch, n - 1)), -1)
    IN  Cut[NSeqs]

ComputeFails ==
    /\ phase = "compute"
    /\ LET cut == RolledBack(cache, CurrentUbatch)
       IN  cache' = cut /\ tensors' = Readable(cut, tensors)
    /\ Return(2)
    /\ UNCHANGED app

DecodeStep == Prepare \/ Optimize \/ Apply \/ Compute \/ ComputeFails
-------------------------------------------------------------------------------
(***************************************************************************)
(* The app: one sequence, its memory cleared before every prompt.          *)
(***************************************************************************)

Leave == app' = [app EXCEPT !.at = "idle"]

MutClearMemory_DataOnly == cache' = cache /\ tensors' = [i \in Cells |-> Unwritten]

ClearMemory == cache' = EmptyCache /\ tensors' = [i \in Cells |-> Unwritten]

Available == NCells - 1

\* A prompt of n tokens.  One that does not fit is not cut: the second
\* tokenization, into the smaller buffer, fails and the answer is empty.
Classify(n) ==
    /\ app.at = "idle" /\ phase = "idle"
    /\ n \in 1 .. Available
    /\ ClearMemory
    /\ Start(cache', [k \in 1 .. n |-> [owner |-> 0, pos |-> k - 1]])
    /\ app' = [at |-> "prompt", i |-> 0, cur_pos |-> n]

PromptDone ==
    /\ app.at = "prompt" /\ phase = "idle"
    /\ IF result = 0 THEN app' = [app EXCEPT !.at = "generate"] ELSE Leave
    /\ UNCHANGED <<cache, tensors, phase, job, result>>

\* A token is sampled; the model may end its answer.
Generate ==
    /\ app.at = "generate"
    /\ \/ Leave /\ UNCHANGED <<phase, job, result>>
       \/ /\ app.i < MaxGen /\ app.cur_pos < Available
          /\ Start(cache, <<[owner |-> 0, pos |-> app.cur_pos]>>)
          /\ app' = [app EXCEPT !.at = "step"]
    /\ UNCHANGED <<cache, tensors>>

MutStepDone_TriesAgain ==
    /\ app.at = "step" /\ phase = "idle"
    /\ IF result = 0
       THEN app' = [at |-> "generate", i |-> app.i + 1, cur_pos |-> app.cur_pos + 1]
       ELSE app' = [app EXCEPT !.at = "generate"]
    /\ UNCHANGED <<cache, tensors, phase, job, result>>

StepDone ==
    /\ app.at = "step" /\ phase = "idle"
    /\ IF result = 0
       THEN app' = [at |-> "generate", i |-> app.i + 1, cur_pos |-> app.cur_pos + 1]
       ELSE Leave
    /\ UNCHANGED <<cache, tensors, phase, job, result>>

\* nativeReset
Reset ==
    /\ app.at = "idle"
    /\ ClearMemory
    /\ UNCHANGED <<phase, job, result, app>>

AppStep == PromptDone \/ Generate \/ StepDone
-------------------------------------------------------------------------------
(***************************************************************************)
(* Any other user of llama.h, between decodes.                             *)
(***************************************************************************)

\* Tokens of the sequences named, in their order, from offset `off` past the
\* sequence's end and `stride` apart: right for <<0, 1>>, refused otherwise.
BatchOf(owners, off, stride) ==
    [k \in DOMAIN owners |->
        [owner |-> owners[k],
         pos |-> SeqPosMax(cache, owners[k]) + 1 + off
                    + stride * Cardinality({j \in 1 .. k - 1 : owners[j] = owners[k]})]]

LibraryIdle == app.at = "library" /\ phase = "idle"

LibraryDecode ==
    /\ LibraryIdle
    /\ \E owners \in Owners, shape \in {<<0, 1>>, <<-1, 1>>, <<1, 1>>, <<0, 2>>} :
        LET batch == BatchOf(owners, shape[1], shape[2])
        IN  /\ \A k \in DOMAIN batch : batch[k].pos \in 0 .. MaxPosition
            /\ Start(cache, batch)
    /\ UNCHANGED <<cache, tensors, app>>

Edits(c) ==
    /\ cache' = c
    /\ tensors' = Readable(c, tensors)
    /\ result' = 0
    /\ UNCHANGED <<phase, job, app>>

\* A range that starts where the sequence has no token is one that starts later.
LibraryRm ==
    /\ LibraryIdle
    /\ \E s \in Seqs : \E p0 \in Occurrences(cache, s) : \E p1 \in {-1, p0 + 1} :
            Edits(SeqRm(cache, s, p0, p1))

\* Into a sequence that is empty, as the note of seq_add requires.
LibraryCp ==
    /\ LibraryIdle
    /\ \E s, d \in Seqs : \E p0 \in Occurrences(cache, s) : \E p1 \in {-1, p0 + 1} :
        /\ Occurrences(cache, d) = {}
        /\ Edits(SeqCp(cache, s, d, p0, p1))

LibraryKeep == LibraryIdle /\ \E s \in Seqs : Edits(SeqKeep(cache, s))

LibraryClear == LibraryIdle /\ Edits(EmptyCache)

LibraryStep == LibraryDecode \/ LibraryRm \/ LibraryCp \/ LibraryKeep \/ LibraryClear
-------------------------------------------------------------------------------

Next ==
    \/ DecodeStep \/ AppStep \/ LibraryStep \/ Reset
    \/ \E n \in 1 .. NCells : Classify(n)

\* A DecodeStep, seen from its phase: while a decode is working, every
\* DecodeStep changes the phase and no other step does.
DecodeMoves == phase \in Working /\ phase' \in Phases \ {phase}

\* The calling thread runs; nobody has to make another call.
Spec == Init /\ [][Next]_vars /\ WF_phase(DecodeMoves) /\ WF_vars(AppStep)
-------------------------------------------------------------------------------

TypeOK ==
    /\ cache \in CacheType
    /\ tensors \in [Cells -> Token \cup {Unwritten, Lost}]
    /\ phase \in Phases
    /\ job.batch \in Seq(Token) /\ job.slots \in Seq(Cells)
    /\ job.i_cur \in Nat \ {0} /\ job.did_optimize \in BOOLEAN
    /\ result \in Results
    /\ app \in [at : {"idle", "prompt", "generate", "step", "library"},
                i : 0 .. MaxGen, cur_pos : 0 .. NCells]

\* The indexes kept beside the cells say what the cells say, and a sequence
\* has at most one cell for a position.  (used and seq_pos are updated
\* incrementally by every operation on the cells.)
IndexesAgree ==
    /\ cache.used = {i \in Cells : cache.pos[i] # NoPos}
    /\ \A i \in Cells : cache.pos[i] = NoPos <=> cache.members[i] = {}
    /\ \A s \in Seqs, p \in Positions :
        LET holding == {i \in Cells : s \in cache.members[i] /\ cache.pos[i] = p}
        IN  cache.seq_pos[s, p] = Cardinality(holding) /\ Cardinality(holding) <= 1

\* While a micro-batch is computed, every token of it attends to each cell of
\* its sequence up to its own position, and each of those has been computed
\* from a token of that position, in this micro-batch or before, or was lost.
AttendsToItsPast ==
    phase = "compute" =>
        \A k \in DOMAIN CurrentUbatch :
            LET t == CurrentUbatch[k]
                attended == Attended(cache, t)
            IN  /\ attended = {i \in Cells : t.owner \in cache.members[i]
                                                /\ cache.pos[i] \in 0 .. t.pos}
                /\ \A i \in attended :
                    \/ i \in CurrentSlot
                    \/ tensors[i] = Lost
                    \/ tensors[i].pos = cache.pos[i]

\* Looking for slots leaves no mark on the cache: micro-batches are placed to
\* find the slots and taken out again, newest first.
PrepareRestores == [][phase = "prepare" => cache' = cache]_vars

\* The used cells are the first ones: no free cell is between them.
InOnePiece(c) == c.used = 0 .. Cardinality(c.used) - 1

\* A batch of one micro-batch is turned away for want of room only when fewer
\* cells are free than it has tokens, or when a defragmentation, made for it in
\* between, was cut short at max_moves and left the free cells scattered.  It is
\* never turned away over a run of cells that is there to be found, nor before
\* its second attempt if a move can help (llama-kv-cache-unified.cpp l. 817-900
\* and 1686-1788, llama-context.cpp l. 1005-1040).
DecodeFindsRoom ==
    [][(phase \in Working) /\ result' = 1 /\ NUbatches(job.batch) = 1 =>
        \/ Cardinality({i \in Cells : cache.pos[i] = NoPos}) < Len(job.batch)
        \/ job.did_optimize /\ ~InOnePiece(cache)]_vars

\* The app's batches are never refused and always find room: the memory was
\* cleared before the prompt and generation stops before n_ctx.
AppBatchesFit == app.at # "library" => result \in {0, 2}

\* Every decode returns, and so does nativeClassify, unless the process aborts.
CallsReturn ==
    /\ phase \in Working ~> (phase = "idle" \/ phase = "aborted")
    /\ app.at \in {"prompt", "generate", "step"} ~> (app.at = "idle" \/ phase = "aborted")

\* nativeClassify never brings the process down, whatever the prompt.
ClassifyNeverAborts == app.at # "library" => phase # "aborted"

Uncommitted == IF phase = "compute" THEN CurrentSlot ELSE {}

\* Cells implement a cache of tokens.
Abstract == INSTANCE TokenCache WITH
    content <- [s \in Seqs |-> {<<cache.pos[i], tensors[i]>> :
                    i \in {j \in Cells \ Uncommitted : s \in cache.members[j]}}],
    pending <- IF phase \in {"idle", "aborted"} THEN <<>>
               ELSE SubSeq(job.batch, (job.i_cur - 1) * NUbatch + 1, Len(job.batch))
ImplementsTokenCache == Abstract!Spec
===============================================================================
