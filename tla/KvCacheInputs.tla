------------------------------ MODULE KvCacheInputs ------------------------------
(***************************************************************************)
(* The two searches of the KV cache against their definitions, on every    *)
(* occupancy of a cache of six cells: more cells than the state machine    *)
(* can afford, enough for holes of several sizes and for a plan that       *)
(* reaches its limit of moves.  TLC evaluates the assumptions.             *)
(***************************************************************************)
LOCAL INSTANCE Integers
LOCAL INSTANCE Sequences
LOCAL INSTANCE FiniteSets

OneMove == INSTANCE KvCache WITH NCells <- 6, NPad <- 2, MaxMoves <- 1, NSeqs <- 1
Moves == INSTANCE KvCache WITH NCells <- 6, NPad <- 2, MaxMoves <- 6, NSeqs <- 1

\* One sequence in the cells `used`, a position in each.
Occupied(used, head) ==
    [pos |-> [i \in 0 .. 5 |-> IF i \in used THEN i ELSE -1],
     members |-> [i \in 0 .. 5 |-> IF i \in used THEN {0} ELSE {}],
     used |-> used,
     seq_pos |-> [sp \in {0} \X (0 .. 4) |-> IF sp[2] \in used THEN 1 ELSE 0],
     head |-> head]

\* find_slot returns a run of empty cells, and one whenever there is one.
ASSUME SlotSearch ==
    \A used \in SUBSET (0 .. 5), head \in 0 .. 6, n \in 1 .. 7 :
        LET slot == Moves!FindSlot(Occupied(used, head), n)
            Runs == {h \in 0 .. 6 - n : (h .. h + n - 1) \cap used = {}}
        IN  IF Runs = {} THEN slot = -1 ELSE slot \in Runs

\* A defragmentation keeps every position, one cell each.
Keeps(c, d) ==
    /\ d.used = {i \in 0 .. 5 : d.pos[i] # -1}
    /\ Cardinality(d.used) = Cardinality(c.used)
    /\ {d.pos[i] : i \in d.used} = {c.pos[i] : i \in c.used}

\* Whatever the limit; and without one the used cells become a prefix.
ASSUME Compaction ==
    \A used \in SUBSET (0 .. 5) :
        LET c == Occupied(used, 6)
            one == OneMove!Defragged(c, OneMove!DefragPlan(c))
            all == Moves!Defragged(c, Moves!DefragPlan(c))
        IN  /\ Keeps(c, one) /\ Keeps(c, all)
            /\ all.used = 0 .. Cardinality(used) - 1
===============================================================================
