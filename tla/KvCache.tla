--------------------------------- MODULE KvCache ---------------------------------
(***************************************************************************)
(* The cells of llama.cpp's unified KV cache, as pure operators on a cache *)
(* record (llama-kv-cells.h, llama-kv-cache-unified.cpp): which position   *)
(* and which sequences each cell holds, the set of used cells and the      *)
(* count of each sequence's positions that are kept beside them, and the   *)
(* head where the search for free cells starts.  One stream, no sliding    *)
(* window, no position shifts: the cache the app's context creates.        *)
(***************************************************************************)
EXTENDS Integers, Sequences, FiniteSets

CONSTANTS
    NCells,         \* cells of the cache (n_ctx)
    NPad,           \* the attention window is a multiple of this many cells
    MaxMoves,       \* blocks of cells one defragmentation may move
    NSeqs           \* sequence ids are less than this (LLAMA_MAX_SEQ)

ASSUME SizesAssumption ==
    /\ NCells \in Nat \ {0} /\ NPad \in Nat \ {0} /\ MaxMoves \in Nat \ {0}
    /\ NSeqs \in Nat \ {0}

Cells == 0 .. NCells - 1
Seqs == 0 .. NSeqs - 1
Positions == 0 .. NCells - 2        \* bound: where the app stops
NoPos == -1
NoSlot == -1

MinOf(S) == CHOOSE x \in S : \A y \in S : x <= y
MaxOf(S) == CHOOSE x \in S : \A y \in S : y <= x

Token == [owner : Seqs, pos : Positions]

CacheType ==
    [pos : [Cells -> Positions \cup {NoPos}],
     members : [Cells -> SUBSET Seqs],
     used : SUBSET Cells,
     seq_pos : [Seqs \X Positions -> Nat],
     head : 0 .. NCells]

\* clear
EmptyCache ==
    [pos |-> [i \in Cells |-> NoPos],
     members |-> [i \in Cells |-> {}],
     used |-> {},
     seq_pos |-> [sp \in Seqs \X Positions |-> 0],
     head |-> 0]

IsEmpty(c, i) == c.pos[i] = NoPos

Occurrences(c, s) == {p \in Positions : c.seq_pos[s, p] > 0}
SeqPosMin(c, s) == IF Occurrences(c, s) = {} THEN NoPos ELSE MinOf(Occurrences(c, s))
SeqPosMax(c, s) == IF Occurrences(c, s) = {} THEN NoPos ELSE MaxOf(Occurrences(c, s))

\* How many of the cells I hold position p for sequence s: what seq_pos_dec,
\* seq_pos_inc, seq_pos_rm and seq_pos_add of those cells change a count by.
Held(c, I, s, p) == Cardinality({i \in I : s \in c.members[i] /\ c.pos[i] = p})
-------------------------------------------------------------------------------

InRange(c, i, p0, p1) == c.pos[i] >= p0 /\ (p1 < 0 \/ c.pos[i] < p1)

\* If cells became free below the head, the search starts at the first one.
HeadAfterFreeing(c, freed) ==
    IF freed # {} /\ MinOf(freed) < c.head THEN MinOf(freed) ELSE c.head

\* The sequence leaves the cells of the range; a cell it leaves last is freed.
SeqRm(c, s, p0, p1) ==
    LET hit == {i \in Cells : InRange(c, i, p0, p1) /\ s \in c.members[i]}
        freed == {i \in hit : c.members[i] = {s}}
    IN  [c EXCEPT !.pos = [i \in Cells |-> IF i \in freed THEN NoPos ELSE @[i]],
                  !.members = [i \in Cells |-> IF i \in hit THEN @[i] \ {s} ELSE @[i]],
                  !.used = @ \ freed,
                  !.seq_pos = [sp \in Seqs \X Positions |->
                        @[sp] - IF sp[1] = s THEN Held(c, hit, s, sp[2]) ELSE 0],
                  !.head = HeadAfterFreeing(c, freed)]

\* Within a stream no data is copied: the cells of src also belong to dst.
SeqCp(c, src, dst, p0, p1) ==
    LET hit == {i \in Cells : InRange(c, i, p0, p1) /\ src \in c.members[i]}
    IN  IF src = dst THEN c
        ELSE [c EXCEPT !.members = [i \in Cells |->
                            IF i \in hit THEN @[i] \cup {dst} ELSE @[i]],
                       !.seq_pos = [sp \in Seqs \X Positions |->
                            @[sp] + IF sp[1] = dst THEN Held(c, hit, src, sp[2]) ELSE 0]]

MutSeqKeep_KeepsCounts(c, s) ==
    LET freed == {i \in Cells : c.members[i] # {} /\ s \notin c.members[i]}
    IN  [c EXCEPT !.pos = [i \in Cells |-> IF i \in freed THEN NoPos ELSE @[i]],
                  !.members = [i \in Cells |-> @[i] \cap {s}],
                  !.used = @ \ freed,
                  !.head = HeadAfterFreeing(c, freed)]

\* Every other sequence leaves its cells.
SeqKeep(c, s) ==
    LET freed == {i \in Cells : c.members[i] # {} /\ s \notin c.members[i]}
    IN  [c EXCEPT !.pos = [i \in Cells |-> IF i \in freed THEN NoPos ELSE @[i]],
                  !.members = [i \in Cells |-> @[i] \cap {s}],
                  !.used = @ \ freed,
                  !.seq_pos = [sp \in Seqs \X Positions |->
                        IF sp[1] = s THEN @[sp] ELSE @[sp] - Held(c, Cells, sp[1], sp[2])],
                  !.head = HeadAfterFreeing(c, freed)]
-------------------------------------------------------------------------------
(***************************************************************************)
(* Slots: a run of empty cells for one micro-batch.                        *)
(***************************************************************************)

\* The scan starts at the head, or at 0 when there seems to be room below it,
\* goes on after the first taken cell of a run that does not fit, wraps at the
\* end and gives up at a taken cell once it has passed over NCells cells
\* (set_rows is off, so a slot is contiguous).  Only a wrap counts past NCells.
FindSlot(c, n) ==
    LET start == IF c.head > Cardinality(c.used) + 2 * n THEN 0 ELSE c.head
        Tested == {m \in 0 .. 2 * NCells : m < NCells \/ (start + m) % NCells = 0}
        Scan[tested \in Tested] ==
            LET h == (start + tested) % NCells
                taken == {i \in h .. h + n - 1 : ~IsEmpty(c, i)}
                passed == tested + MinOf(taken) + 1 - h
            IN  IF h + n > NCells THEN Scan[tested + NCells - h]
                ELSE IF taken = {} THEN h
                ELSE IF passed >= NCells THEN NoSlot
                ELSE Scan[passed]
    IN  IF n > NCells THEN NoSlot ELSE Scan[0]

Slot(start, ubatch) == start .. start + Len(ubatch) - 1

MutApplyUbatch_HeadAtSlot(c, start, ubatch) ==
    LET slot == Slot(start, ubatch)
        t(i) == ubatch[i - start + 1]
    IN  [c EXCEPT !.pos = [i \in Cells |-> IF i \in slot THEN t(i).pos ELSE @[i]],
                  !.members = [i \in Cells |-> IF i \in slot THEN {t(i).owner} ELSE @[i]],
                  !.used = @ \cup slot,
                  !.seq_pos = [sp \in Seqs \X Positions |-> @[sp]
                        + Cardinality({i \in slot : <<t(i).owner, t(i).pos>> = sp})],
                  !.head = start + Len(ubatch) + 1]

\* pos_set and seq_add for each token; the head moves to the end of the slot.
\* (The cells of a slot are empty: only a sliding window reuses taken ones.)
ApplyUbatch(c, start, ubatch) ==
    LET slot == Slot(start, ubatch)
        t(i) == ubatch[i - start + 1]
    IN  [c EXCEPT !.pos = [i \in Cells |-> IF i \in slot THEN t(i).pos ELSE @[i]],
                  !.members = [i \in Cells |-> IF i \in slot THEN {t(i).owner} ELSE @[i]],
                  !.used = @ \cup slot,
                  !.seq_pos = [sp \in Seqs \X Positions |-> @[sp]
                        + Cardinality({i \in slot : <<t(i).owner, t(i).pos>> = sp})],
                  !.head = start + Len(ubatch)]

\* set: the cells I get the positions and sequences they have in old.
SetCells(c, I, old) ==
    [c EXCEPT !.pos = [i \in Cells |-> IF i \in I THEN old.pos[i] ELSE @[i]],
              !.members = [i \in Cells |-> IF i \in I THEN old.members[i] ELSE @[i]],
              !.used = (@ \cup {i \in I : IsEmpty(c, i) /\ ~IsEmpty(old, i)})
                            \ {i \in I : ~IsEmpty(c, i) /\ IsEmpty(old, i)},
              !.seq_pos = [sp \in Seqs \X Positions |->
                    @[sp] - Held(c, I, sp[1], sp[2]) + Held(old, I, sp[1], sp[2])]]

\* A micro-batch is placed, and what it takes to undo that pushed.
Place(st, ubatch) ==
    LET start == FindSlot(st.cache, Len(ubatch))
    IN  IF ~st.success \/ start = NoSlot THEN [st EXCEPT !.success = FALSE]
        ELSE [cache |-> ApplyUbatch(st.cache, start, ubatch),
              success |-> TRUE,
              saved |-> Append(st.saved, [cells |-> Slot(start, ubatch), old |-> st.cache])]

\* The recovery stack of prepare: the slots found, and for each the cells and
\* the head before the micro-batch was placed.
Placed(c, ubatches) ==
    LET After[k \in 0 .. Len(ubatches)] ==
            IF k = 0 THEN [cache |-> c, success |-> TRUE, saved |-> <<>>]
                     ELSE Place(After[k - 1], ubatches[k])
    IN  After[Len(ubatches)]

RestoreOne(c, st) == [SetCells(c, st.cells, st.old) EXCEPT !.head = st.old.head]

MutRestored_InOrder(c, saved) ==
    LET Back[k \in 0 .. Len(saved)] ==
            IF k = 0 THEN c ELSE RestoreOne(Back[k - 1], saved[k])
    IN  Back[Len(saved)]

\* The cells are put back, the last micro-batch's first.
Restored(c, saved) ==
    LET Back[k \in 0 .. Len(saved)] ==
            IF k = 0 THEN c ELSE RestoreOne(Back[k - 1], saved[Len(saved) + 1 - k])
    IN  Back[Len(saved)]

MutNKv_UsedCount(c) ==
    LET padded == ((Cardinality(c.used) + NPad - 1) \div NPad) * NPad
        least == IF padded < NPad THEN NPad ELSE padded
    IN  IF least < NCells THEN least ELSE NCells

\* get_n_kv: the attention looks at the first n_kv cells.
NKv(c) ==
    LET used_max_p1 == IF c.used = {} THEN 0 ELSE MaxOf(c.used) + 1
        padded == ((used_max_p1 + NPad - 1) \div NPad) * NPad
        least == IF padded < NPad THEN NPad ELSE padded
    IN  IF least < NCells THEN least ELSE NCells

\* set_input_kq_mask: the cells token t attends to.
Attended(c, t) ==
    {j \in 0 .. NKv(c) - 1 :
        ~IsEmpty(c, j) /\ t.owner \in c.members[j] /\ c.pos[j] <= t.pos}
-------------------------------------------------------------------------------
(***************************************************************************)
(* Defragmentation: holes among the first |used| cells are filled with     *)
(* cells from the end, a bounded number of contiguous blocks at a time.    *)
(***************************************************************************)

Highest(S, n) == {i \in S : Cardinality({j \in S : j > i}) < n}

\* The hole at i0, filled from the last cells not moved yet.
FillHole(c, plan, i0) ==
    LET n_used == Cardinality(c.used)
        n_kv == Len(plan.ids)
        hole == {i \in i0 .. n_used - 1 : \A j \in i0 .. i : IsEmpty(c, j)}
        source == Highest({i \in i0 + 1 .. n_kv - 1 :
                                ~IsEmpty(c, i) /\ plan.ids[i + 1] = n_kv},
                          Cardinality(hole))
        blockOf(i) == Cardinality({j \in source : j <= i /\ j - 1 \notin source})
        moved == {i \in source : plan.n_moves + blockOf(i) <= MaxMoves}
        moves == plan.n_moves + blockOf(MaxOf(source))
    IN  [ids |-> [k \in 1 .. n_kv |->
                    IF k - 1 \in moved
                    THEN i0 + Cardinality({j \in source : j < k - 1})
                    ELSE plan.ids[k]],
         n_moves |-> IF moves < MaxMoves THEN moves ELSE MaxMoves,
         next |-> i0 + Cardinality(hole)]

Visit(c, plan, i0) ==
    IF plan.n_moves = MaxMoves \/ i0 < plan.next THEN plan
    ELSE IF ~IsEmpty(c, i0)
         THEN [plan EXCEPT !.ids[i0 + 1] = i0, !.next = i0 + 1]
         ELSE FillHole(c, plan, i0)

\* defrag_prepare: ids[i + 1] is where cell i goes, n_kv if it does not move.
DefragPlan(c) ==
    LET n_used == Cardinality(c.used)
        n_kv == IF c.used = {} THEN 0 ELSE MaxOf(c.used) + 1
        Visited[k \in 0 .. n_used] ==
            IF k = 0 THEN [ids |-> [i \in 1 .. n_kv |-> n_kv], n_moves |-> 0, next |-> 0]
                     ELSE Visit(c, Visited[k - 1], k - 1)
    IN  Visited[n_used]

Moving(plan) == {k \in DOMAIN plan.ids : plan.ids[k] \notin {Len(plan.ids), k - 1}}

\* mv
Mv(c, src, dst) ==
    [c EXCEPT !.pos = [@ EXCEPT ![dst] = c.pos[src], ![src] = NoPos],
              !.members = [@ EXCEPT ![dst] = c.members[src], ![src] = {}],
              !.used = (@ \ {src}) \cup {dst}]

\* The moves of update, which leaves the head at 0.
Defragged(c, plan) ==
    LET Moved[k \in 0 .. Len(plan.ids)] ==
            IF k = 0 THEN c
            ELSE IF k \in Moving(plan) THEN Mv(Moved[k - 1], k - 1, plan.ids[k])
            ELSE Moved[k - 1]
    IN  [Moved[Len(plan.ids)] EXCEPT !.head = 0]
===============================================================================
