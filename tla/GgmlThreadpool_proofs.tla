------------------------- MODULE GgmlThreadpool_proofs -------------------------
(***************************************************************************)
(* For any pool of threads, any graphs and any number of calls: type       *)
(* correctness of the thread pool, the counters of its barrier, the end of *)
(* its threads, and the walk of the team through the nodes.                *)
(***************************************************************************)
EXTENDS GgmlThreadpool, TLAPS, FiniteSetTheorems

(***************************************************************************)
(* Types.                                                                  *)
(***************************************************************************)

GraphNode == [nr0 : Nat \ {0}, nr1 : Nat \ {0}, op : {"mul_mat", "rms_norm"}]

Pcs == CallerPcs \cup WaitingPcs \cup NodePcs \cup BarrierPcs

Pools == [n_graph : Nat, n_barrier : Nat, n_barrier_passed : Nat,
          current_chunk : Nat, stop : BOOLEAN, pause : BOOLEAN,
          abort : Int, aborted : BOOLEAN, locked : BOOLEAN,
          n_threads_max : 1 .. MaxThreads, n_threads_cur : 1 .. MaxThreads]

Flags == persistent \in BOOLEAN /\ pool \in BOOLEAN /\ doubled \in BOOLEAN
CallTypes ==
    /\ plan_threads \in 1 .. MaxThreads
    /\ graph \in Graphs \cup {<<>>}
    /\ computes \in 0 .. MaxComputes
PoolTypes == tp \in Pools /\ tp.n_threads_cur <= tp.n_threads_max
LocalTypes ==
    /\ back \in [Threads -> {"node", "chunk", "return"}]
    /\ node \in [Threads -> Nat]
    /\ last_graph \in [Threads -> Nat]
    /\ n_passed \in [Threads -> Nat]
    /\ chunk \in [Threads -> Nat]
DataTypes ==
    /\ quantized \in [Threads -> Nat \cup {NoNode}]
    /\ DOMAIN written = 0 .. Len(graph) - 1

\* The type invariant, group by group of the variables.
LEMMA TypeParts ==
    TypeOK <=> /\ Flags /\ CallTypes /\ PoolTypes /\ pc \in [Threads -> Pcs]
               /\ LocalTypes /\ DataTypes
BY DEF TypeOK, Flags, CallTypes, PoolTypes, LocalTypes, DataTypes, Pools, Pcs

\* A graph is a sequence of nodes.
LEMMA GraphType == CallTypes => graph \in Seq(GraphNode) /\ Len(graph) \in Nat
<1>1. Graphs \subseteq Seq(GraphNode) /\ <<>> \in Seq(GraphNode)
  BY PoolAssumption DEF GraphNode
<1>2. CallTypes => graph \in Seq(GraphNode)
  BY <1>1 DEF CallTypes
<1> QED
  BY <1>2

\* A new pool is a pool, with a team that fits it.
LEMMA NewPoolType ==
    ASSUME NEW n \in 1 .. MaxThreads, NEW paused \in BOOLEAN
    PROVE  /\ NewPool(n, paused) \in Pools
           /\ NewPool(n, paused).n_threads_cur = n
           /\ NewPool(n, paused).n_threads_max = n
BY PoolAssumption DEF NewPool, Pools

\* A pool stays one when one of its fields is stored to.
LEMMA FieldType ==
    ASSUME NEW p \in Pools
    PROVE  /\ \A n \in Nat : /\ [p EXCEPT !.n_graph = n] \in Pools
                            /\ [p EXCEPT !.current_chunk = n] \in Pools
           /\ \A n \in Int : [p EXCEPT !.abort = n] \in Pools
           /\ \A b \in BOOLEAN : /\ [p EXCEPT !.stop = b] \in Pools
                                /\ [p EXCEPT !.pause = b] \in Pools
                                /\ [p EXCEPT !.aborted = b] \in Pools
                                /\ [p EXCEPT !.locked = b] \in Pools
BY DEF Pools

\* The threads of a new pool are at a place.
LEMMA SpawnedType ==
    ASSUME NEW n \in 1 .. MaxThreads, NEW caller \in CallerPcs
    PROVE  Spawned(n, caller) \in [Threads -> Pcs]
BY DEF Spawned, Pcs, WaitingPcs

\* Threads that are woken, or of which one moves, are each at a place.
LEMMA MovedType ==
    ASSUME pc \in [Threads -> Pcs]
    PROVE  /\ Woken(pc) \in [Threads -> Pcs]
           /\ \A t \in Threads : \A there \in Pcs :
                  [Woken(pc) EXCEPT ![t] = there] \in [Threads -> Pcs]
           /\ \A t \in Threads : \A there \in Pcs :
                  Goto(t, there) => pc' \in [Threads -> Pcs]
BY DEF Woken, Goto, Pcs, WaitingPcs

\* The pool starts with no graph and no thread but the caller.
LEMMA InitTypeOK == Init => TypeOK
<1> SUFFICES ASSUME Init PROVE TypeOK
  OBVIOUS
<1>1. 1 \in 1 .. MaxThreads
  BY PoolAssumption
<1>2. PoolTypes
  BY <1>1, PoolAssumption DEF Init, NewPool, PoolTypes, Pools
<1>3. pc \in [Threads -> Pcs]
  BY <1>1, SpawnedType DEF Init, CallerPcs
<1>4. DataTypes
  <2>1. DOMAIN written = {} /\ Len(graph) = 0
    BY DEF Init
  <2> QED
    BY <2>1 DEF Init, DataTypes
<1>5. CallTypes
  BY PoolAssumption DEF Init, CallTypes
<1>7. Flags
  BY DEF Init, Flags
<1>6. LocalTypes
  BY DEF Init, LocalTypes
<1> QED
  BY <1>2, <1>3, <1>4, <1>5, <1>6, <1>7, TypeParts

\* Every thread that computes keeps the types.
LEMMA ComputeKeepsTypes ==
    ASSUME TypeOK, NEW t \in Threads, ComputeThread(t)
    PROVE  TypeOK'
<1> USE DEF callVars, localVars, dataVars
<1>1. /\ Flags /\ CallTypes /\ PoolTypes /\ pc \in [Threads -> Pcs]
      /\ LocalTypes /\ DataTypes
  BY TypeParts
<1>2. CallTypes' /\ UNCHANGED <<last_graph, callVars>>
  BY <1>1 DEF CallTypes, ComputeThread, NextNode, Quantize, Chunk, Claim, Compute, Finish, Return,
     Barrier, BarRead, BarAdd, BarReset, BarPass, BarWait, Reads
<1>3. PoolTypes'
  <2>1. CASE UNCHANGED tp
    BY <1>1, <2>1 DEF PoolTypes
  <2>2. CASE Quantize(t) \/ Claim(t)
    <3>1. tp.n_threads_cur \in Nat /\ tp.current_chunk + 1 \in Nat
      BY <1>1 DEF PoolTypes, Pools
    <3>2. CASE Quantize(t)
      BY <1>1, <2>2, <3>1, <3>2 DEF Quantize, Nth, PoolTypes, Pools
    <3>3. CASE Claim(t)
      BY <1>1, <2>2, <3>1, <3>3 DEF Claim, PoolTypes, Pools
    <3> QED
      BY <2>2, <3>2, <3>3
  <2>3. CASE Finish(t)
    <3>1. tp' = tp \/ tp' = [tp EXCEPT !.abort = node[t] + 1, !.aborted = TRUE]
      BY <2>3 DEF Finish
    <3>2. node[t] + 1 \in Int
      BY <1>1 DEF LocalTypes
    <3> QED
      BY <1>1, <3>1, <3>2 DEF PoolTypes, Pools
  <2>4. CASE BarAdd(t) \/ BarReset(t) \/ BarPass(t)
    BY <1>1, <2>4 DEF BarAdd, BarReset, BarPass, PoolTypes, Pools
  <2> QED
    BY <2>1, <2>2, <2>3, <2>4 DEF ComputeThread, NextNode, Chunk, Compute, Return, Barrier,
       BarRead, BarWait, Reads
<1>4. back[t] \in Pcs
  BY <1>1 DEF LocalTypes, Pcs, NodePcs
<1>5. \E there \in Pcs : Goto(t, there)
  <2> USE DEF Pcs, NodePcs, BarrierPcs, CallerPcs, WaitingPcs, MeetThen, Reads
  <2>1. CASE NextNode(t) \/ Quantize(t) \/ Finish(t)
    BY <2>1 DEF NextNode, Quantize, Finish
  <2>2. CASE Chunk(t)
    BY <2>2 DEF Chunk
  <2>3. CASE Claim(t) \/ Compute(t) \/ Return(t)
    BY <2>3 DEF Claim, Compute, Return
  <2>4. CASE Barrier(t)
    BY <1>4, <2>4 DEF Barrier, BarRead, BarAdd, BarReset, BarPass, BarWait
  <2> QED
    BY <2>1, <2>2, <2>3, <2>4 DEF ComputeThread
<1>6. pc' \in [Threads -> Pcs]
  BY <1>1, <1>5, MovedType
<1>7. LocalTypes'
  <2>1. CASE UNCHANGED <<back, node, n_passed, chunk>>
    BY <1>1, <1>2, <2>1 DEF LocalTypes
  <2>2. CASE NextNode(t)
    BY <1>1, <2>2 DEF LocalTypes, NextNode, MeetThen
  <2>6. CASE Finish(t)
    <3>1. \/ back' = back
          \/ \E b \in {"node", "return"} : back' = [back EXCEPT ![t] = b]
      BY <2>6 DEF Finish, MeetThen
    <3>2. node' \in [Threads -> Nat]
      BY <1>1, <2>6 DEF LocalTypes, Finish
    <3> QED
      BY <1>1, <1>2, <2>6, <3>1, <3>2 DEF LocalTypes, Finish
  <2>3. CASE Quantize(t)
    BY <1>1, <2>3 DEF LocalTypes, Quantize, MeetThen, Threads
  <2>4. CASE Claim(t)
    BY <1>1, <2>4 DEF LocalTypes, Claim, PoolTypes, Pools
  <2>5. CASE BarRead(t)
    BY <1>1, <2>5 DEF LocalTypes, BarRead, PoolTypes, Pools
  <2> QED
    BY <2>1, <2>2, <2>3, <2>4, <2>5, <2>6 DEF ComputeThread, Chunk, Compute, Return, Barrier, BarAdd,
       BarReset, BarPass, BarWait, Reads
<1>8. DataTypes'
  <2>1. CASE UNCHANGED dataVars
    BY <1>1, <1>2, <2>1 DEF DataTypes
  <2>2. CASE Quantize(t)
    BY <1>1, <1>2, <2>2 DEF DataTypes, Quantize, LocalTypes
  <2>3. ASSUME NEW elements, Writes(t, elements) PROVE DataTypes'
    BY <1>1, <1>2, <2>3 DEF DataTypes, Writes
  <2> QED
    BY <2>1, <2>2, <2>3 DEF ComputeThread, NextNode, Chunk, Claim, Compute, Finish, Return,
       Barrier, BarRead, BarAdd, BarReset, BarPass, BarWait, Reads
<1>9. Flags'
  <2>1. doubled' = doubled \/ \E elements : Writes(t, elements)
    BY DEF ComputeThread, NextNode, Quantize, Chunk, Claim, Compute, Finish, Return,
       Barrier, BarRead, BarAdd, BarReset, BarPass, BarWait, Reads
  <2> QED
    BY <1>1, <1>2, <2>1 DEF Flags, Writes
<1> QED
  BY <1>2, <1>3, <1>6, <1>7, <1>8, <1>9
     DEF TypeOK, Flags, CallTypes, PoolTypes, LocalTypes, DataTypes, Pools, Pcs

\* Every secondary thread outside a graph keeps the types.
LEMMA SecondaryKeepsTypes ==
    ASSUME TypeOK, NEW t \in Threads, SecondaryThread(t) \/ SpuriousWake(t)
    PROVE  TypeOK'
<1> USE DEF callVars, localVars, dataVars
<1>1. /\ Flags /\ CallTypes /\ PoolTypes /\ pc \in [Threads -> Pcs]
      /\ LocalTypes /\ DataTypes
  BY TypeParts
<1>2. UNCHANGED <<callVars, tp, back, n_passed, chunk, dataVars>>
  BY DEF SecondaryThread, PauseLoop, PauseLock, StopCheck, PollStart, Poll, PollSeen,
     SleepOrWork, SpuriousWake, Reads
<1>3. pc' \in [Threads -> Pcs]
  <2>1. \E there \in Pcs : Goto(t, there)
    <3>1. CASE SpuriousWake(t)
      BY <1>1, <3>1, MovedType DEF SpuriousWake
    <3>2. CASE SecondaryThread(t)
      BY <3>2 DEF SecondaryThread, PauseLoop, PauseLock, StopCheck, PollStart, Poll, PollSeen,
         SleepOrWork, Reads, Pcs, NodePcs, WaitingPcs
    <3> QED
      BY <3>1, <3>2
  <2> QED
    BY <1>1, <2>1, MovedType
<1>4. node' \in [Threads -> Nat]
  <2>1. node' = node \/ node' = [node EXCEPT ![t] = 0]
    BY DEF SecondaryThread, PauseLoop, PauseLock, StopCheck, PollStart, Poll, PollSeen,
       SleepOrWork, SpuriousWake, Reads
  <2> QED
    BY <1>1, <2>1 DEF LocalTypes
<1>5. last_graph' \in [Threads -> Nat]
  <2>1. last_graph' = last_graph \/ last_graph' = [last_graph EXCEPT ![t] = tp.n_graph]
    BY DEF SecondaryThread, PauseLoop, PauseLock, StopCheck, PollStart, Poll, PollSeen,
       SleepOrWork, SpuriousWake, Reads
  <2> QED
    BY <1>1, <2>1 DEF LocalTypes, PoolTypes, Pools
<1> QED
  BY <1>1, <1>2, <1>3, <1>4, <1>5
     DEF TypeOK, Flags, CallTypes, PoolTypes, LocalTypes, DataTypes, Pools, Pcs

\* Every step of the caller outside a graph keeps the types.
LEMMA CallerKeepsTypes ==
    ASSUME TypeOK, Caller
    PROVE  TypeOK'
<1> USE DEF callVars, localVars, dataVars
<1>1. /\ Flags /\ CallTypes /\ PoolTypes /\ pc \in [Threads -> Pcs]
      /\ LocalTypes /\ DataTypes
  BY TypeParts
<1>2. 0 \in Threads
  BY PoolAssumption DEF Threads
<1>3. /\ "idle" \in CallerPcs /\ "kick_threads" \in CallerPcs
      /\ {"idle", "kick_threads", "kick_graph", "joining", "node", "none"} \subseteq Pcs
  BY DEF Pcs, CallerPcs, NodePcs, WaitingPcs
<1>10. \A n \in 1 .. MaxThreads : \A paused \in BOOLEAN :
           tp' = NewPool(n, paused) => PoolTypes'
  <2> SUFFICES ASSUME NEW n \in 1 .. MaxThreads, NEW paused \in BOOLEAN,
                      tp' = NewPool(n, paused)
               PROVE  PoolTypes'
    OBVIOUS
  <2>1. n <= n
    OBVIOUS
  <2> QED
    BY <2>1, NewPoolType DEF PoolTypes
<1>4. Flags'
  BY <1>1 DEF Flags, Caller, Call, New, SetPause, KickThreads, KickGraph, ReturnKept, Reads,
     Free, Join
<1>5. CallTypes'
  <2>1. ASSUME NEW g \in Graphs, Call(g) PROVE CallTypes'
    BY <1>1, <2>1, PoolAssumption DEF CallTypes, Call
  <2>2. CASE UNCHANGED <<plan_threads, graph, computes>>
    BY <1>1, <2>2 DEF CallTypes
  <2> QED
    BY <2>1, <2>2 DEF Caller, New, SetPause, KickThreads, KickGraph, ReturnKept, Reads, Free, Join
<1>6. PoolTypes'
  <2>1. ASSUME NEW g \in Graphs, Call(g) PROVE PoolTypes'
    <3>1. CASE tp' = [tp EXCEPT !.current_chunk = 0, !.abort = -1, !.aborted = FALSE]
      <4> DEFINE none == -1
      <4>1. none \in Int
        OBVIOUS
      <4>2. tp' = [tp EXCEPT !.current_chunk = 0, !.abort = none, !.aborted = FALSE]
        BY <3>1
      <4> HIDE DEF none
      <4>3. [tp EXCEPT !.current_chunk = 0, !.abort = none] \in Pools
        BY <1>1, <4>1, FieldType DEF PoolTypes
      <4>4. tp' \in Pools
        BY <4>2, <4>3, FieldType
      <4>5. tp'.n_threads_cur = tp.n_threads_cur /\ tp'.n_threads_max = tp.n_threads_max
        BY <1>1, <4>2 DEF PoolTypes, Pools
      <4> QED
        BY <1>1, <4>4, <4>5 DEF PoolTypes
    <3>2. CASE tp' = NewPool(plan_threads, FALSE)
      BY <1>1, <1>10, <3>2 DEF CallTypes
    <3> QED
      BY <2>1, <3>1, <3>2 DEF Call
  <2>2. CASE New
    <3>1. PICK n_threads \in 1 .. MaxThreads, paused \in BOOLEAN :
              tp' = NewPool(n_threads, paused)
      BY <2>2 DEF New
    <3> QED
      BY <1>10, <3>1
  <2>3. CASE KickThreads
    <3> DEFINE team == Minimum(plan_threads, tp.n_threads_max)
    <3>1. team \in 1 .. MaxThreads /\ team <= tp.n_threads_max
      BY <1>1 DEF PoolTypes, Pools, CallTypes, Minimum
    <3>2. tp' = [tp EXCEPT !.locked = TRUE, !.n_threads_cur = team]
      BY <2>3 DEF KickThreads
    <3> HIDE DEF team
    <3> QED
      BY <1>1, <3>1, <3>2 DEF PoolTypes, Pools
  <2>4. CASE KickGraph
    <3>1. tp' = [tp EXCEPT !.n_graph = tp.n_graph + 1, !.pause = FALSE, !.locked = FALSE]
      BY <2>4 DEF KickGraph
    <3>2. tp.n_graph + 1 \in Nat
      BY <1>1 DEF PoolTypes, Pools
    <3>3. [tp EXCEPT !.n_graph = tp.n_graph + 1, !.pause = FALSE] \in Pools
      BY <1>1, <3>2, FieldType DEF PoolTypes
    <3>4. tp' \in Pools
      BY <3>1, <3>3, FieldType
    <3>5. tp'.n_threads_cur = tp.n_threads_cur /\ tp'.n_threads_max = tp.n_threads_max
      BY <1>1, <3>1 DEF PoolTypes, Pools
    <3> QED
      BY <1>1, <3>4, <3>5 DEF PoolTypes
  <2>5. CASE Free
    <3>1. tp' = [tp EXCEPT !.stop = TRUE, !.pause = FALSE]
      BY <2>5 DEF Free
    <3> QED
      BY <1>1, <3>1 DEF PoolTypes, Pools
  <2>6. CASE SetPause(TRUE) \/ SetPause(FALSE)
    BY <1>1, <2>6 DEF SetPause, PoolTypes, Pools
  <2>7. CASE UNCHANGED tp
    BY <1>1, <2>7 DEF PoolTypes
  <2> QED
    BY <2>1, <2>2, <2>3, <2>4, <2>5, <2>6, <2>7 DEF Caller, ReturnKept, Reads, Join
<1>7. pc' \in [Threads -> Pcs]
  <2>1. ASSUME NEW g \in Graphs, Call(g) PROVE pc' \in [Threads -> Pcs]
    <3>1. Goto(0, "kick_threads") \/ pc' = Spawned(plan_threads, "kick_threads")
      BY <2>1 DEF Call
    <3> QED
      BY <1>1, <1>2, <1>3, <3>1, SpawnedType, MovedType DEF CallTypes
  <2>2. CASE New
    BY <1>3, <2>2, SpawnedType DEF New
  <2>3. CASE KickThreads \/ ReturnKept
    BY <1>1, <1>2, <1>3, <2>3, MovedType DEF KickThreads, ReturnKept, Reads
  <2>4. CASE KickGraph \/ Free
    BY <1>1, <1>2, <1>3, <2>4, MovedType DEF KickGraph, Free
  <2>5. CASE SetPause(TRUE) \/ SetPause(FALSE)
    BY <1>1, <2>5, MovedType DEF SetPause
  <2>6. CASE Join
    BY <1>1, <1>3, <2>6 DEF Join
  <2> QED
    BY <2>1, <2>2, <2>3, <2>4, <2>5, <2>6 DEF Caller
<1>8. LocalTypes'
  <2>1. UNCHANGED <<back, n_passed, chunk>>
    BY DEF Caller, Call, New, SetPause, KickThreads, KickGraph, ReturnKept, Reads, Free, Join
  <2>2. last_graph' = last_graph \/ last_graph' = [t \in Threads |-> 0]
    BY DEF Caller, Call, New, SetPause, KickThreads, KickGraph, ReturnKept, Reads, Free, Join
  <2>3. node' = node \/ node' = [node EXCEPT ![0] = 0]
    BY DEF Caller, Call, New, SetPause, KickThreads, KickGraph, ReturnKept, Reads, Free, Join
  <2> QED
    BY <1>1, <2>1, <2>2, <2>3 DEF LocalTypes
<1>9. DataTypes'
  <2>1. ASSUME NEW g \in Graphs, Call(g) PROVE DataTypes'
    BY <2>1 DEF Call, DataTypes
  <2>2. CASE UNCHANGED <<dataVars, graph>>
    BY <1>1, <2>2 DEF DataTypes
  <2> QED
    BY <2>1, <2>2 DEF Caller, New, SetPause, KickThreads, KickGraph, ReturnKept, Reads, Free, Join
<1> QED
  BY <1>4, <1>5, <1>6, <1>7, <1>8, <1>9
     DEF TypeOK, Flags, CallTypes, PoolTypes, LocalTypes, DataTypes, Pools, Pcs

\* Every step of the pool keeps the types.
LEMMA TypeInductive == TypeOK /\ [Next]_vars => TypeOK'
<1>1. TypeOK /\ UNCHANGED vars => TypeOK'
  BY DEF TypeOK, vars, callVars, localVars, dataVars
<1> QED
  BY <1>1, ComputeKeepsTypes, SecondaryKeepsTypes, CallerKeepsTypes DEF Next

\* The pool, its counters and the locals of its threads keep their types through
\* any number of calls and pools.
THEOREM TypeCorrect == Spec => []TypeOK
BY InitTypeOK, TypeInductive, PTL DEF Spec

(***************************************************************************)
(* Where the threads are.  A thread is in lockstep with the caller when    *)
(* the next barrier it will enter is the one the caller will enter next.   *)
(* A thread in bar_wait of a round that is over has not noticed yet: it is *)
(* as good as out.  A worker that has not taken the current graph up is as *)
(* good as at its first node, even if it is still leaving the last one.    *)
(***************************************************************************)

Outside == pc[0] \in CallerPcs
Released(t) == pc[t] = "bar_wait" /\ n_passed[t] # tp.n_barrier_passed
Started(t) == t = 0 \/ (last_graph[t] = tp.n_graph /\ pc[t] # "poll_seen")
Place(t) == IF Released(t) THEN back[t] ELSE pc[t]

IsProduct(n) == graph[n + 1].op = "mul_mat"

\* Where the next barrier leads from the end of node n, from its start, and from
\* any place; "done" for a thread that meets nobody in this graph any more.
AfterNode(n) == IF n + 1 < Len(graph) THEN <<"node", n + 1>> ELSE <<"return", n + 1>>
AtNode(n) ==
    IF n < Len(graph) /\ tp.abort # n
    THEN IF IsProduct(n) THEN <<"chunk", n>> ELSE AfterNode(n)
    ELSE <<"return", n>>
Done(n) == <<"done", IF Outside THEN 0 ELSE n>>
From(place, n) ==
    CASE place = "node" -> AtNode(n)
      [] place = "quantize" -> <<"chunk", n>>
      [] place \in {"chunk", "claim", "compute", "finish"} -> AfterNode(n)
      [] OTHER -> Done(n)
Meeting(t) ==
    IF ~Started(t) THEN AtNode(0)
    ELSE IF Place(t) \in BarrierPcs THEN <<back[t], node[t]>>
    ELSE From(Place(t), node[t])

TeamThreads == 0 .. Nth - 1
Lockstep == \A t \in TeamThreads : Meeting(t) = Meeting(0)

\* Thread 0 alone is the caller; a worker outside a graph waits for one.
Roles ==
    /\ pc[0] \notin WaitingPcs
    /\ \A t \in Threads \ {0} : pc[t] \notin CallerPcs

\* The size of the team changes only before the first graph of a pool.
Sizes ==
    /\ ~pool => pc[0] = "idle" /\ \A t \in Threads \ {0} : pc[t] = "none"
    /\ pc[0] = "idle" /\ ~persistent => ~pool
    /\ \A t \in Threads : t >= tp.n_threads_max => pc[t] = "none"
    /\ pool => Nth \in {tp.n_threads_max, Minimum(plan_threads, tp.n_threads_max)}
    /\ (pool /\ tp.n_graph > 0) \/ pc[0] = "kick_graph"
           => Nth = Minimum(plan_threads, tp.n_threads_max)
    /\ ~Outside => tp.n_graph > 0

\* Only the team touches a graph, and a worker that has not taken the current
\* graph up waits, or is leaving the one before.
Workers ==
    \A t \in Threads \ {0} :
        /\ last_graph[t] <= tp.n_graph
        /\ pc[t] \notin WaitingPcs => t < Nth /\ tp.n_graph > 0
        /\ ~Started(t) => Place(t) \in WaitingPcs \cup {"return"}
        /\ pc[t] = "poll_seen" /\ t < Nth => last_graph[t] = tp.n_graph

\* A thread is at a place its node allows.
WellPlaced(t) ==
    /\ Place(t) \in {"quantize", "chunk", "claim", "compute", "finish"} => node[t] < Len(graph)
    /\ Place(t) \in {"quantize", "chunk", "claim"} => IsProduct(node[t])
    /\ Place(t) = "compute" => ~IsProduct(node[t])
    /\ Place(t) = "node" => node[t] <= Len(graph)
    /\ Place(t) \in BarrierPcs =>
           /\ back[t] = "chunk" => node[t] < Len(graph) /\ IsProduct(node[t])
           /\ back[t] = "node" => node[t] > 0 /\ node[t] < Len(graph)
           /\ back[t] = "return" => node[t] = Len(graph) \/ tp.abort = node[t]
    /\ Place(t) = "return" /\ ~Outside => node[t] = Len(graph) \/ tp.abort = node[t]
Places == \A t \in Threads : Started(t) => WellPlaced(t)

\* An abort is seen at the node where the team meets next.
Aborts ==
    /\ tp.abort # -1 /\ ~Outside =>
           \E b \in {"node", "return", "done"} : Meeting(0) = <<b, tp.abort>>
    /\ pc[0] \in {"kick_threads", "kick_graph"} => tp.abort = -1
    /\ ~tp.aborted => tp.abort = -1

\* The barrier: who is waiting in the current round, and who closes it.
Inside == {t \in Threads : pc[t] = "bar_wait" /\ n_passed[t] = tp.n_barrier_passed}
Closing == {t \in Threads : pc[t] \in {"bar_reset", "bar_pass"}}
Rounds ==
    /\ \A t \in Threads : pc[t] = "bar_add" => n_passed[t] = tp.n_barrier_passed
    /\ \A t \in Threads : pc[t] = "bar_wait" => n_passed[t] <= tp.n_barrier_passed
    /\ \A t \in Closing :
           /\ Inside = TeamThreads \ {t}
           /\ tp.n_barrier = IF pc[t] = "bar_reset" THEN Nth ELSE 0
    /\ Closing = {} => tp.n_barrier = Cardinality(Inside) /\ tp.n_barrier < Nth

TeamInv ==
    Roles /\ Sizes /\ Workers /\ Lockstep /\ Places /\ Aborts /\ Rounds

\* The facts about types the proofs below use, field by field.
LEMMA Typing ==
    ASSUME TypeOK
    PROVE  /\ 0 \in Threads /\ Nth \in 1 .. MaxThreads /\ Nth <= tp.n_threads_max
           /\ tp.n_threads_max \in 1 .. MaxThreads /\ plan_threads \in 1 .. MaxThreads
           /\ TeamThreads \subseteq Threads /\ 0 \in TeamThreads
           /\ tp.n_graph \in Nat /\ tp.n_barrier \in Nat /\ tp.n_barrier_passed \in Nat
           /\ tp.current_chunk \in Nat /\ tp.abort \in Int
           /\ Len(graph) \in Nat
           /\ \A t \in Threads : /\ t \in Nat /\ pc[t] \in Pcs /\ node[t] \in Nat
                                 /\ back[t] \in {"node", "chunk", "return"}
                                 /\ last_graph[t] \in Nat /\ n_passed[t] \in Nat
                                 /\ chunk[t] \in Nat
<1>1. CallTypes /\ PoolTypes /\ pc \in [Threads -> Pcs] /\ LocalTypes
  BY TypeParts
<1>2. Len(graph) \in Nat
  BY <1>1, GraphType
<1>3. /\ Nth \in 1 .. MaxThreads /\ Nth <= tp.n_threads_max
      /\ tp.n_threads_max \in 1 .. MaxThreads
      /\ tp.n_graph \in Nat /\ tp.n_barrier \in Nat /\ tp.n_barrier_passed \in Nat
      /\ tp.current_chunk \in Nat /\ tp.abort \in Int
  BY <1>1 DEF PoolTypes, Pools, Nth
<1>4. 0 \in Threads /\ TeamThreads \subseteq Threads /\ 0 \in TeamThreads
  BY <1>3, PoolAssumption DEF Threads, TeamThreads
<1>5. \A t \in Threads : t \in Nat
  BY PoolAssumption DEF Threads
<1>6. plan_threads \in 1 .. MaxThreads
  BY <1>1 DEF CallTypes
<1>7. \A t \in Threads : /\ node[t] \in Nat /\ back[t] \in {"node", "chunk", "return"}
                          /\ last_graph[t] \in Nat /\ n_passed[t] \in Nat
                          /\ chunk[t] \in Nat
  BY <1>1 DEF LocalTypes
<1> QED
  BY <1>1, <1>2, <1>3, <1>4, <1>5, <1>6, <1>7

\* The destinations of the walk are distinct: a thread that is done meets nobody.
LEMMA Destinations ==
    ASSUME NEW n
    PROVE  /\ AtNode(n)[1] # "done" /\ AfterNode(n)[1] \notin {"done", "chunk"}
           /\ Outside => Meeting(0) = <<"done", 0>>
<1>1. Outside => pc[0] \notin BarrierPcs \cup NodePcs /\ ~Released(0)
  BY DEF Outside, Released, CallerPcs, BarrierPcs, NodePcs
<1> QED
  BY <1>1 DEF AtNode, AfterNode, Meeting, Started, Place, From, Done, NodePcs

\* A thread whose next meeting is none has started and waits, or is returning.
LEMMA DoneMeans ==
    ASSUME TypeOK, NEW t \in Threads, Meeting(t)[1] = "done"
    PROVE  /\ Started(t) /\ Place(t) \in WaitingPcs \cup CallerPcs \cup {"return"}
           /\ Meeting(t) = Done(node[t])
<1>1. Started(t)
  BY Destinations DEF Meeting
<1>2. Place(t) \in Pcs
  BY Typing DEF Place, Pcs, NodePcs
<1>3. Place(t) \notin BarrierPcs
  BY <1>1, Typing DEF Meeting
<1>4. Place(t) \notin NodePcs \ {"return"}
  BY <1>1, <1>3, Destinations DEF Meeting, From, NodePcs
<1> QED
  BY <1>1, <1>2, <1>3, <1>4 DEF Meeting, From, Pcs, NodePcs, BarrierPcs, WaitingPcs, CallerPcs

\* When the caller is outside a graph, the team is done with it.
LEMMA OutsideDone ==
    ASSUME TypeOK, TeamInv, Outside, NEW t \in TeamThreads
    PROVE  Started(t) /\ Place(t) \in WaitingPcs \cup CallerPcs \cup {"return"}
<1>1. Meeting(t) = <<"done", 0>>
  BY Destinations DEF TeamInv, Lockstep
<1> QED
  BY <1>1, DoneMeans, Typing

\* A thread that computes has started, and belongs to the team.
LEMMA ComputingStarted ==
    ASSUME TypeOK, TeamInv, NEW t \in Threads, Place(t) \in NodePcs \cup BarrierPcs
    PROVE  /\ t \in TeamThreads
           /\ Place(t) # "return" => Started(t)
<1>1. pc[t] \in NodePcs \cup BarrierPcs
  BY DEF Place, Released, BarrierPcs
<1>2. t \in TeamThreads
  <2>1. CASE t = 0
    BY <2>1, Typing
  <2>2. CASE t # 0
    <3>1. t < Nth
      BY <1>1, <2>2 DEF TeamInv, Workers, NodePcs, BarrierPcs, WaitingPcs
    <3> QED
      BY <3>1, Typing DEF TeamThreads
  <2> QED
    BY <2>1, <2>2
<1>3. CASE t = 0
  BY <1>2, <1>3 DEF Started
<1>4. CASE t # 0 /\ Place(t) # "return"
  <2>1. Place(t) \notin WaitingPcs
    BY DEF NodePcs, BarrierPcs, WaitingPcs
  <2> QED
    BY <1>2, <1>4, <2>1 DEF TeamInv, Workers
<1> QED
  BY <1>2, <1>3, <1>4

(***************************************************************************)
(* A step of one thread inside a graph.                                    *)
(***************************************************************************)

Locals(u) == <<pc[u], back[u], node[u], n_passed[u], last_graph[u]>>

\* What a step of another thread leaves to a thread: its place, and where it is
\* going as long as nobody aborts.
LEMMA ThreadKept ==
    ASSUME NEW u, UNCHANGED <<Locals(u), tp.n_graph, tp.n_barrier_passed>>
    PROVE  /\ Place(u)' = Place(u)
           /\ Started(u)' <=> Started(u)
           /\ /\ UNCHANGED <<graph, tp.abort>>
              /\ Outside' <=> Outside
              => /\ Meeting(u)' = Meeting(u)
                 /\ WellPlaced(u)' <=> WellPlaced(u)
BY DEF Locals, Place, Released, Started, Meeting, AtNode, AfterNode, From, Done, IsProduct,
   WellPlaced

\* One thread moves, alone, and the pool keeps its size and its graph.
MovesAlone(t) ==
    /\ \A u \in Threads \ {t} : UNCHANGED Locals(u)
    /\ UNCHANGED <<tp.n_graph, tp.n_barrier_passed, tp.n_threads_cur, tp.n_threads_max>>
    /\ UNCHANGED callVars
    /\ Outside' <=> Outside

\* What a worker may do outside a graph.
WorkerMoves(t) ==
    /\ pc[t] # "none" /\ pc'[t] \notin CallerPcs
    /\ last_graph'[t] <= tp.n_graph
    /\ pc'[t] \notin WaitingPcs => t < Nth /\ tp.n_graph > 0
    /\ ~Started(t)' => Place(t)' \in WaitingPcs \cup {"return"}
    /\ pc'[t] = "poll_seen" /\ t < Nth => last_graph'[t] = tp.n_graph

\* A thread that moves alone keeps the team together when everybody keeps their
\* appointment.
LEMMA AppointmentsKeepTeam ==
    ASSUME TypeOK, TeamInv, NEW t \in Threads, MovesAlone(t),
           t = 0 => pc[0] \notin CallerPcs /\ pc'[0] \notin CallerPcs \cup WaitingPcs,
           t # 0 => WorkerMoves(t),
           \A u \in TeamThreads : Meeting(u)' = Meeting(u),
           \A u \in Threads : Started(u)' => WellPlaced(u)'
    PROVE  Roles' /\ Sizes' /\ Workers' /\ Lockstep' /\ Places'
<1> USE DEF MovesAlone, callVars, WorkerMoves
<1>1. \A u \in Threads \ {t} :
          /\ Place(u)' = Place(u)
          /\ Started(u)' <=> Started(u)
  BY ThreadKept
<1>2. \A u \in Threads \ {t} : pc'[u] = pc[u] /\ last_graph'[u] = last_graph[u]
  BY DEF Locals
<1>3. 0 \in Threads /\ TeamThreads \subseteq Threads /\ 0 \in TeamThreads
      /\ TeamThreads' = TeamThreads
  BY Typing DEF TeamThreads, Nth
<1>4. Lockstep'
  BY <1>3 DEF TeamInv, Lockstep
<1>5. Places'
  BY DEF Places
<1>6. Roles'
  BY <1>2, <1>3 DEF TeamInv, Roles
<1>7. Workers'
  BY <1>1, <1>2 DEF TeamInv, Workers, Nth
<1>8. Sizes'
  <2>1. t = 0 => pool
    BY DEF TeamInv, Sizes, CallerPcs
  <2>2. CASE t = 0
    BY <1>2, <2>1, <2>2, Typing DEF TeamInv, Sizes, Nth, CallerPcs, WaitingPcs, Outside
  <2>3. CASE t # 0
    BY <1>2, <1>3, <2>3 DEF TeamInv, Sizes, Nth
  <2> QED
    BY <2>2, <2>3
<1> QED
  BY <1>4, <1>5, <1>6, <1>7, <1>8

\* It is enough that it keeps its own, unless the graph is aborted.
LEMMA MoveKeepsTeam ==
    ASSUME TypeOK, TeamInv, NEW t \in Threads, MovesAlone(t), UNCHANGED <<tp.abort, tp.aborted>>,
           t = 0 => pc[0] \notin CallerPcs /\ pc'[0] \notin CallerPcs \cup WaitingPcs,
           t # 0 => WorkerMoves(t),
           t \in TeamThreads => Meeting(t)' = Meeting(t),
           Started(t)' => WellPlaced(t)'
    PROVE  Roles' /\ Sizes' /\ Workers' /\ Lockstep' /\ Places' /\ Aborts'
<1>1. \A u \in Threads \ {t} :
          /\ Started(u)' <=> Started(u)
          /\ Meeting(u)' = Meeting(u)
          /\ WellPlaced(u)' <=> WellPlaced(u)
  BY ThreadKept DEF MovesAlone, callVars
<1>2. 0 \in Threads /\ TeamThreads \subseteq Threads /\ 0 \in TeamThreads
  BY Typing
<1>3. \A u \in TeamThreads : Meeting(u)' = Meeting(u)
  BY <1>1, <1>2
<1>4. \A u \in Threads : Started(u)' => WellPlaced(u)'
  BY <1>1 DEF TeamInv, Places
<1>5. Aborts'
  <2>1. t # 0 => pc'[0] = pc[0]
    BY <1>2 DEF MovesAlone, Locals
  <2> QED
    BY <1>2, <1>3, <2>1 DEF TeamInv, Aborts, CallerPcs, MovesAlone
<1> QED
  BY <1>3, <1>4, <1>5, AppointmentsKeepTeam

\* A thread that neither waits in the current round nor closes it, before and
\* after its move, leaves the round alone.
LEMMA MoveKeepsRounds ==
    ASSUME TypeOK, Rounds, NEW t \in Threads, MovesAlone(t), UNCHANGED tp.n_barrier,
           t \notin Inside \cup Closing, t \notin Inside' \cup Closing',
           pc'[t] = "bar_add" => n_passed'[t] = tp.n_barrier_passed,
           pc'[t] # "bar_wait"
    PROVE  Rounds'
<1>1. \A u \in Threads \ {t} : pc'[u] = pc[u] /\ n_passed'[u] = n_passed[u]
  BY DEF MovesAlone, Locals
<1>2. tp'.n_barrier_passed = tp.n_barrier_passed /\ TeamThreads' = TeamThreads /\ Nth' = Nth
  BY DEF MovesAlone, TeamThreads, Nth
<1>3. Inside' = Inside /\ Closing' = Closing
  BY <1>1, <1>2 DEF Inside, Closing
<1> QED
  BY <1>1, <1>2, <1>3 DEF Rounds, Closing

\* The steps of a node: each leads to the barrier its place has promised.
LEMMA NodeStepMoves ==
    ASSUME TypeOK, TeamInv, NEW t \in Threads,
           NextNode(t) \/ Quantize(t) \/ Chunk(t) \/ Claim(t) \/ Compute(t)
    PROVE  /\ MovesAlone(t) /\ UNCHANGED <<tp.abort, tp.aborted, tp.n_barrier, node, last_graph>>
           /\ pc[t] \in NodePcs \ {"return"} /\ pc'[t] \in NodePcs \cup {"bar_read"}
           /\ pc'[t] # "return"
           /\ Meeting(t)' = Meeting(t)
           /\ WellPlaced(t)'
<1> USE DEF callVars, localVars, dataVars
<1>1. /\ pc[t] \in {"node", "quantize", "chunk", "claim", "compute"}
      /\ pc'[t] \in {"quantize", "compute", "chunk", "claim", "finish", "bar_read"}
      /\ \A u \in Threads \ {t} : pc'[u] = pc[u] /\ back'[u] = back[u]
      /\ UNCHANGED <<node, n_passed, last_graph, callVars>>
  <2>1. pc \in [Threads -> Pcs] /\ back \in [Threads -> {"node", "chunk", "return"}]
    BY TypeParts DEF LocalTypes
  <2> QED
    BY <2>1 DEF NextNode, Quantize, Chunk, Claim, Compute, Goto, MeetThen
<1>2. UNCHANGED <<tp.n_graph, tp.n_barrier_passed, tp.n_threads_cur, tp.n_threads_max,
                  tp.abort, tp.aborted, tp.n_barrier>>
  BY TypeParts DEF NextNode, Quantize, Chunk, Claim, Compute, PoolTypes, Pools
<1>3. Outside' <=> Outside
  BY <1>1, Typing DEF Outside, CallerPcs
<1>4. MovesAlone(t)
  BY <1>1, <1>2, <1>3 DEF MovesAlone, Locals
<1>5. Place(t) = pc[t] /\ Place(t)' = pc'[t]
  BY <1>1 DEF Place, Released
<1>6. Started(t) /\ Started(t)'
  <2>1. Started(t)
    BY <1>1, <1>5, ComputingStarted DEF NodePcs
  <2> QED
    BY <1>1, <1>2, <2>1 DEF Started
<1>7. WellPlaced(t)
  BY <1>6 DEF TeamInv, Places
<1>8. node[t] \in Nat /\ Len(graph) \in Nat
  BY Typing
<1>9. AtNode(node[t])' = AtNode(node[t]) /\ AfterNode(node[t])' = AfterNode(node[t])
  BY <1>1, <1>2 DEF AtNode, AfterNode, IsProduct
<1>10. Meeting(t) = From(pc[t], node[t])
  BY <1>1, <1>5, <1>6 DEF Meeting, BarrierPcs
<1>11. pc'[t] # "bar_read" => Meeting(t)' = From(Place(t), node[t])'
  BY <1>1, <1>5, <1>6 DEF Meeting, BarrierPcs
<1>12. pc'[t] = "bar_read" => Meeting(t)' = <<back'[t], node[t]>>
  BY <1>1, <1>5, <1>6 DEF Meeting, BarrierPcs
<1>13. Meeting(t)' = Meeting(t) /\ WellPlaced(t)'
  <2>1. CASE NextNode(t) /\ MoreNodes(t)
    <3>1. /\ pc[t] = "node" /\ node[t] < Len(graph) /\ tp.abort # node[t]
          /\ pc'[t] = IF IsProduct(node[t]) THEN "quantize" ELSE "compute"
      BY <2>1, TypeParts DEF NextNode, MoreNodes, Goto, Node, IsProduct
    <3>2. Meeting(t)' = Meeting(t)
      BY <1>1, <1>5, <1>8, <1>9, <1>10, <1>11, <3>1 DEF From, AtNode
    <3>3. WellPlaced(t)'
      BY <1>1, <1>5, <3>1 DEF WellPlaced, IsProduct, BarrierPcs
    <3> QED
      BY <3>2, <3>3
  <2>2. CASE NextNode(t) /\ ~MoreNodes(t)
    <3>1. /\ pc[t] = "node" /\ ~(node[t] < Len(graph) /\ tp.abort # node[t])
          /\ pc'[t] = "bar_read" /\ back'[t] = "return"
      BY <2>2, TypeParts DEF NextNode, MoreNodes, Goto, MeetThen, LocalTypes
    <3>2. Meeting(t)' = Meeting(t)
      BY <1>10, <1>12, <3>1 DEF From, AtNode
    <3>3. node[t] = Len(graph) \/ tp.abort = node[t]
      BY <1>5, <1>7, <1>8, <3>1 DEF WellPlaced
    <3>4. WellPlaced(t)'
      BY <1>1, <1>2, <1>5, <3>1, <3>3 DEF WellPlaced, BarrierPcs
    <3> QED
      BY <3>2, <3>4
  <2>3. CASE Quantize(t)
    <3>1. pc[t] = "quantize" /\ pc'[t] = "bar_read" /\ back'[t] = "chunk"
      BY <2>3, TypeParts DEF Quantize, Goto, MeetThen, LocalTypes
    <3>2. Meeting(t)' = Meeting(t)
      BY <1>10, <1>12, <3>1 DEF From
    <3>3. WellPlaced(t)'
      BY <1>1, <1>2, <1>5, <1>7, <3>1 DEF WellPlaced, BarrierPcs, IsProduct
    <3> QED
      BY <3>2, <3>3
  <2>4. CASE Chunk(t) \/ Claim(t) \/ Compute(t)
    <3>1. /\ \/ pc[t] \in {"chunk", "claim"} /\ pc'[t] \in {"chunk", "claim", "finish"}
             \/ pc[t] = "compute" /\ pc'[t] = "finish"
      BY <2>4, TypeParts DEF Chunk, Claim, Compute, Goto
    <3>2. Meeting(t)' = Meeting(t)
      BY <1>1, <1>5, <1>9, <1>10, <1>11, <3>1 DEF From
    <3>3. WellPlaced(t)'
      BY <1>1, <1>2, <1>5, <1>7, <3>1 DEF WellPlaced, BarrierPcs, IsProduct
    <3> QED
      BY <3>2, <3>3
  <2> QED
    BY <2>1, <2>2, <2>3, <2>4
<1> QED
  BY <1>1, <1>2, <1>4, <1>13 DEF NodePcs

\* The steps of a node keep the team together.
LEMMA NodeStepKeepsTeam ==
    ASSUME TypeOK, TeamInv, NEW t \in Threads,
           NextNode(t) \/ Quantize(t) \/ Chunk(t) \/ Claim(t) \/ Compute(t)
    PROVE  TeamInv'
<1>1. /\ MovesAlone(t)
      /\ UNCHANGED <<tp.abort, tp.aborted, tp.n_barrier, node, last_graph, tp.n_graph>>
      /\ pc[t] \in NodePcs \ {"return"} /\ pc'[t] \in NodePcs \cup {"bar_read"}
      /\ pc'[t] # "return"
      /\ Meeting(t)' = Meeting(t)
      /\ WellPlaced(t)'
  BY NodeStepMoves DEF MovesAlone
<1>2. Place(t) = pc[t] /\ Place(t)' = pc'[t]
  BY <1>1 DEF Place, Released, NodePcs
<1>3. t \in TeamThreads /\ Started(t)
  BY <1>1, <1>2, ComputingStarted
<1>4. Started(t)'
  BY <1>1, <1>3 DEF Started, NodePcs
<1>5. t # 0 => t < Nth /\ tp.n_graph > 0 /\ last_graph'[t] <= tp.n_graph
  BY <1>1 DEF TeamInv, Workers, NodePcs, WaitingPcs
<1>6. /\ pc[t] \notin CallerPcs \cup WaitingPcs /\ pc'[t] \notin CallerPcs \cup WaitingPcs
      /\ pc[t] # "none" /\ pc'[t] # "poll_seen"
  BY <1>1 DEF NodePcs, CallerPcs, WaitingPcs
<1>7. Roles' /\ Sizes' /\ Workers' /\ Lockstep' /\ Places' /\ Aborts'
  BY <1>1, <1>4, <1>5, <1>6, MoveKeepsTeam DEF WorkerMoves
<1>8. Rounds'
  BY <1>1, MoveKeepsRounds DEF TeamInv, Inside, Closing, NodePcs
<1> QED
  BY <1>7, <1>8 DEF TeamInv

\* The end of a node without an abort: the thread goes to the barrier its place
\* has promised, or past the last node without one.
LEMMA FinishMoves ==
    ASSUME TypeOK, TeamInv, NEW t \in Threads, Finish(t)
    PROVE  /\ MovesAlone(t) /\ UNCHANGED <<tp.n_barrier, last_graph, n_passed>>
           /\ pc[t] = "finish" /\ pc'[t] \in {"node", "bar_read"}
           /\ node[t] < Len(graph) /\ node'[t] = node[t] + 1
           /\ Meeting(t) = AfterNode(node[t])
           /\ Meeting(t)' = Meeting(t)
           /\ WellPlaced(t)'
           /\ \/ UNCHANGED <<tp.abort, tp.aborted>>
              \/ t = 0 /\ tp'.abort = node[t] + 1 /\ tp'.aborted
<1> USE DEF callVars, localVars, dataVars
<1>1. /\ pc[t] = "finish" /\ node'[t] = node[t] + 1
      /\ IF node[t] + 1 < Len(graph) THEN pc'[t] = "bar_read" /\ back'[t] = "node"
         ELSE pc'[t] = "node"
      /\ \A u \in Threads \ {t} : pc'[u] = pc[u] /\ back'[u] = back[u] /\ node'[u] = node[u]
      /\ UNCHANGED <<n_passed, last_graph, callVars>>
  <2>1. /\ pc \in [Threads -> Pcs] /\ back \in [Threads -> {"node", "chunk", "return"}]
        /\ node \in [Threads -> Nat]
    BY TypeParts DEF LocalTypes
  <2> QED
    BY <2>1 DEF Finish, Goto, MeetThen
<1>2. /\ UNCHANGED <<tp.n_graph, tp.n_barrier_passed, tp.n_threads_cur, tp.n_threads_max,
                     tp.n_barrier>>
      /\ \/ UNCHANGED <<tp.abort, tp.aborted>>
         \/ t = 0 /\ tp'.abort = node[t] + 1 /\ tp'.aborted
  <2>1. tp' = tp \/ (t = 0 /\ tp' = [tp EXCEPT !.abort = node[t] + 1, !.aborted = TRUE])
    BY DEF Finish
  <2>2. tp \in Pools
    BY TypeParts DEF PoolTypes
  <2> QED
    BY <2>1, <2>2 DEF Pools
<1>3. Outside' <=> Outside
  BY <1>1, Typing DEF Outside, CallerPcs
<1>4. MovesAlone(t)
  BY <1>1, <1>2, <1>3 DEF MovesAlone, Locals
<1>5. Place(t) = pc[t] /\ Place(t)' = pc'[t]
  BY <1>1 DEF Place, Released
<1>6. Started(t) /\ Started(t)'
  <2>1. Started(t)
    BY <1>1, <1>5, ComputingStarted DEF NodePcs
  <2> QED
    BY <1>1, <1>2, <2>1 DEF Started
<1>7. node[t] \in Nat /\ Len(graph) \in Nat /\ node[t] < Len(graph)
  BY <1>1, <1>5, <1>6, Typing DEF TeamInv, Places, WellPlaced
<1>8. Meeting(t) = AfterNode(node[t])
  BY <1>1, <1>5, <1>6 DEF Meeting, From, BarrierPcs
<1>9. Meeting(t)' = Meeting(t) /\ WellPlaced(t)'
  <2>1. CASE node[t] + 1 < Len(graph)
    <3>1. Meeting(t)' = <<"node", node[t] + 1>>
      BY <1>1, <1>5, <1>6, <2>1 DEF Meeting, BarrierPcs
    <3>2. WellPlaced(t)'
      BY <1>1, <1>5, <1>7, <2>1 DEF WellPlaced, BarrierPcs
    <3> QED
      BY <1>8, <2>1, <3>1, <3>2 DEF AfterNode
  <2>2. CASE ~(node[t] + 1 < Len(graph))
    <3>1. node'[t] = Len(graph)' /\ pc'[t] = "node"
      BY <1>1, <1>7, <2>2
    <3>2. Meeting(t)' = <<"return", node[t] + 1>>
      BY <1>1, <1>5, <1>6, <1>7, <3>1 DEF Meeting, From, AtNode, BarrierPcs
    <3>3. WellPlaced(t)'
      BY <1>1, <1>5, <1>7, <3>1 DEF WellPlaced, BarrierPcs
    <3> QED
      BY <1>8, <2>2, <3>2, <3>3 DEF AfterNode
  <2> QED
    BY <2>1, <2>2
<1> QED
  BY <1>1, <1>2, <1>4, <1>7, <1>8, <1>9

\* An abort found by the caller at the end of a node changes nobody's next
\* meeting: whoever is at the start of a node is at the one that just ended.
LEMMA AbortKeepsMeetings ==
    ASSUME TypeOK, TeamInv, Finish(0), NEW u \in Threads \ {0}
    PROVE  /\ u \in TeamThreads => Meeting(u)' = Meeting(u)
           /\ Started(u)' => WellPlaced(u)'
<1> DEFINE n == node[0]
<1>1. /\ MovesAlone(0) /\ pc[0] = "finish" /\ n < Len(graph)
      /\ Meeting(0) = AfterNode(n)
      /\ tp'.abort = tp.abort \/ tp'.abort = n + 1
  BY FinishMoves, Typing
<1>2. UNCHANGED <<Locals(u), tp.n_graph, tp.n_barrier_passed, graph>> /\ (Outside' <=> Outside)
  BY <1>1 DEF MovesAlone, callVars
<1>3. n \in Nat /\ node[u] \in Nat /\ tp.abort \in Int
  BY Typing
<1>4. CASE tp'.abort = tp.abort
  BY <1>2, <1>4, ThreadKept DEF TeamInv, Places
<1>5. CASE tp'.abort # tp.abort
  <2>1. tp'.abort = n + 1 /\ tp.abort = -1
    BY <1>1, <1>5 DEF TeamInv, Aborts, AfterNode, Outside, CallerPcs
  <2>2. Place(u)' = Place(u) /\ (Started(u)' <=> Started(u))
    BY <1>2, ThreadKept
  <2>3. ASSUME NEW k \in Nat, AtNode(k) = AfterNode(n)
        PROVE  AtNode(k)' = AtNode(k)
    BY <1>1, <1>2, <1>3, <2>1, <2>3, Typing, SMTT(30) DEF AtNode, AfterNode, IsProduct
  <2>4. u \in TeamThreads => Meeting(u) = AfterNode(n)
    BY <1>1 DEF TeamInv, Lockstep
  <2>5. node'[u] = node[u] /\ back'[u] = back[u]
    BY <1>2 DEF Locals
  <2>6. AfterNode(node[u])' = AfterNode(node[u]) /\ Done(node[u])' = Done(node[u])
    BY <1>2, <2>5 DEF AfterNode, Done
  <2>7. u \in TeamThreads => Meeting(u)' = Meeting(u)
    <3>1. CASE ~Started(u)
      BY <2>2, <2>3, <2>4, <3>1 DEF Meeting
    <3>2. CASE Started(u) /\ Place(u) = "node"
      BY <1>3, <2>2, <2>3, <2>4, <2>5, <3>2 DEF Meeting, From, BarrierPcs
    <3>3. CASE Started(u) /\ Place(u) # "node"
      BY <2>2, <2>5, <2>6, <3>3 DEF Meeting, From
    <3> QED
      BY <3>1, <3>2, <3>3
  <2>8. Started(u) => WellPlaced(u)
    BY DEF TeamInv, Places
  <2>9. Started(u)' => WellPlaced(u)'
    BY <1>2, <1>3, <2>1, <2>2, <2>5, <2>8 DEF WellPlaced, IsProduct
  <2> QED
    BY <2>7, <2>9
<1> QED
  BY <1>4, <1>5

\* The end of a node keeps the team together, aborted or not.
LEMMA FinishKeepsTeam ==
    ASSUME TypeOK, TeamInv, NEW t \in Threads, Finish(t)
    PROVE  TeamInv'
<1>1. /\ MovesAlone(t) /\ UNCHANGED <<tp.n_barrier, last_graph, tp.n_graph, n_passed>>
      /\ pc[t] = "finish" /\ pc'[t] \in {"node", "bar_read"}
      /\ Meeting(t) = AfterNode(node[t]) /\ Meeting(t)' = Meeting(t)
      /\ WellPlaced(t)'
      /\ \/ UNCHANGED <<tp.abort, tp.aborted>>
         \/ t = 0 /\ tp'.abort = node[t] + 1 /\ tp'.aborted
  BY FinishMoves DEF MovesAlone
<1>2. Place(t) = pc[t] /\ Place(t)' = pc'[t]
  BY <1>1 DEF Place, Released
<1>3. t \in TeamThreads /\ Started(t)
  BY <1>1, <1>2, ComputingStarted DEF NodePcs
<1>4. Started(t)'
  BY <1>1, <1>3 DEF Started
<1>5. t # 0 => t < Nth /\ tp.n_graph > 0 /\ last_graph'[t] <= tp.n_graph
  BY <1>1 DEF TeamInv, Workers, WaitingPcs
<1>6. /\ pc[t] \notin CallerPcs \cup WaitingPcs /\ pc'[t] \notin CallerPcs \cup WaitingPcs
      /\ pc[t] # "none" /\ pc'[t] # "poll_seen"
  BY <1>1 DEF CallerPcs, WaitingPcs
<1>7. t # 0 => WorkerMoves(t)
  BY <1>1, <1>4, <1>5, <1>6 DEF WorkerMoves
<1>8. Roles' /\ Sizes' /\ Workers' /\ Lockstep' /\ Places' /\ Aborts'
  <2>1. CASE UNCHANGED <<tp.abort, tp.aborted>>
    BY <1>1, <1>6, <1>7, <2>1, MoveKeepsTeam
  <2>2. CASE t = 0 /\ tp'.abort = node[0] + 1 /\ tp'.aborted
    <3>1. /\ \A u \in TeamThreads : Meeting(u)' = Meeting(u)
          /\ \A u \in Threads : Started(u)' => WellPlaced(u)'
      BY <1>1, <2>2, AbortKeepsMeetings, Typing
    <3>2. Aborts'
      <4>1. Meeting(0)' = AfterNode(node[0])
        BY <1>1, <2>2
      <4>2. Meeting(0)' \in {<<"node", tp'.abort>>, <<"return", tp'.abort>>}
        BY <2>2, <4>1 DEF AfterNode
      <4> QED
        BY <1>6, <2>2, <4>2 DEF Aborts, CallerPcs
    <3> QED
      BY <1>1, <1>6, <1>7, <2>2, <3>1, <3>2, AppointmentsKeepTeam
  <2> QED
    BY <1>1, <2>1, <2>2
<1>9. Rounds'
  BY <1>1, MoveKeepsRounds DEF TeamInv, Inside, Closing
<1> QED
  BY <1>8, <1>9 DEF TeamInv

(***************************************************************************)
(* The barrier.                                                            *)
(***************************************************************************)

\* A barrier step of one thread, as the other threads see it.
LEMMA BarrierMoves ==
    ASSUME TypeOK, TeamInv, NEW t \in Threads, Barrier(t)
    PROVE  /\ pc[t] \in BarrierPcs
           /\ pc'[t] \in BarrierPcs \cup {"node", "chunk", "return"}
           /\ \A u \in Threads \ {t} : UNCHANGED Locals(u)
           /\ UNCHANGED <<tp.n_graph, tp.n_threads_cur, tp.n_threads_max, tp.abort, tp.aborted>>
           /\ UNCHANGED <<callVars, back, node, last_graph>>
           /\ Outside' <=> Outside
           /\ t \in TeamThreads /\ (t # 0 => t < Nth /\ tp.n_graph > 0)
           /\ t # 0 => last_graph[t] <= tp.n_graph
           /\ Started(t)' <=> Started(t)
<1> USE DEF localVars, dataVars
<1>1. /\ pc \in [Threads -> Pcs] /\ back \in [Threads -> {"node", "chunk", "return"}]
      /\ n_passed \in [Threads -> Nat] /\ tp \in Pools
  BY TypeParts DEF LocalTypes, PoolTypes
<1>2. /\ pc[t] \in BarrierPcs
      /\ pc'[t] \in BarrierPcs \cup {"node", "chunk", "return"}
      /\ \A u \in Threads \ {t} : pc'[u] = pc[u] /\ n_passed'[u] = n_passed[u]
      /\ UNCHANGED <<callVars, back, node, last_graph>>
  BY <1>1 DEF Barrier, BarRead, BarAdd, BarReset, BarPass, BarWait, Reads, Goto, BarrierPcs
<1>3. UNCHANGED <<tp.n_graph, tp.n_threads_cur, tp.n_threads_max, tp.abort, tp.aborted>>
  BY <1>1 DEF Barrier, BarRead, BarAdd, BarReset, BarPass, BarWait, Reads, Pools
<1>4. \A u \in Threads \ {t} : UNCHANGED Locals(u)
  BY <1>2 DEF Locals
<1>5. Outside' <=> Outside
  BY <1>2, Typing DEF Outside, BarrierPcs, CallerPcs
<1>6. t # 0 => t < Nth /\ tp.n_graph > 0 /\ last_graph[t] <= tp.n_graph
  BY <1>2 DEF TeamInv, Workers, BarrierPcs, WaitingPcs
<1>7. t \in TeamThreads
  BY <1>6, Typing DEF TeamThreads
<1>8. Started(t)' <=> Started(t)
  BY <1>2, <1>3 DEF Started, BarrierPcs
<1> QED
  BY <1>2, <1>3, <1>4, <1>5, <1>6, <1>7, <1>8

\* A barrier step that stays in the round keeps the team together.
LEMMA InRoundKeepsTeam ==
    ASSUME TypeOK, TeamInv, NEW t \in Threads, Barrier(t), UNCHANGED tp.n_barrier_passed,
           Place(t)' = Place(t) \/ (Place(t) \in BarrierPcs /\ Place(t)' \in BarrierPcs)
    PROVE  Roles' /\ Sizes' /\ Workers' /\ Lockstep' /\ Places' /\ Aborts'
<1>1. /\ pc[t] \in BarrierPcs
      /\ pc'[t] \in BarrierPcs \cup {"node", "chunk", "return"}
      /\ \A u \in Threads \ {t} : UNCHANGED Locals(u)
      /\ UNCHANGED <<tp.n_graph, tp.n_threads_cur, tp.n_threads_max, tp.abort, tp.aborted>>
      /\ UNCHANGED <<callVars, back, node, last_graph>>
      /\ Outside' <=> Outside
      /\ t \in TeamThreads /\ (t # 0 => t < Nth /\ tp.n_graph > 0)
      /\ t # 0 => last_graph[t] <= tp.n_graph
      /\ Started(t)' <=> Started(t)
  BY BarrierMoves
<1>2. MovesAlone(t)
  BY <1>1 DEF MovesAlone
<1>3. /\ AtNode(0)' = AtNode(0) /\ From(Place(t), node[t])' = From(Place(t)', node[t])
      /\ graph' = graph
  BY <1>1 DEF AtNode, AfterNode, From, Done, IsProduct, callVars
<1>4. Meeting(t)' = Meeting(t)
  BY <1>1, <1>3 DEF Meeting
<1>5. Place(t) \in BarrierPcs => Started(t)
  BY ComputingStarted DEF BarrierPcs
<1>6. Started(t)' => WellPlaced(t)'
  BY <1>1, <1>3 DEF TeamInv, Places, WellPlaced, IsProduct, BarrierPcs
<1>7. ~Started(t)' => Place(t)' \in WaitingPcs \cup {"return"}
  BY <1>1, <1>5 DEF TeamInv, Workers, Started
<1>8. /\ pc[t] \notin CallerPcs \cup WaitingPcs /\ pc'[t] \notin CallerPcs \cup WaitingPcs
      /\ pc[t] # "none" /\ pc'[t] # "poll_seen"
  BY <1>1 DEF CallerPcs, WaitingPcs, BarrierPcs
<1>9. t # 0 => WorkerMoves(t)
  BY <1>1, <1>7, <1>8 DEF WorkerMoves
<1> QED
  BY <1>1, <1>2, <1>4, <1>6, <1>8, <1>9, MoveKeepsTeam

\* A thread let out of the barrier is where the barrier leads.
LEMMA LetOut ==
    ASSUME TypeOK, TeamInv, NEW u \in Threads, Started(u), Place(u) \in BarrierPcs,
           Started(u)', Place(u)' = back[u], UNCHANGED <<graph, tp.abort, back[u], node[u]>>,
           Outside' <=> Outside
    PROVE  /\ Meeting(u) = <<back[u], node[u]>>
           /\ Meeting(u)' = From(back[u], node[u])
           /\ WellPlaced(u)'
<1>1. Meeting(u) = <<back[u], node[u]>>
  BY DEF Meeting
<1>2. back[u] \in {"node", "chunk", "return"}
  BY Typing
<1>3. Meeting(u)' = From(back[u], node[u])
  BY <1>2 DEF Meeting, From, AtNode, AfterNode, Done, IsProduct, BarrierPcs
<1>4. WellPlaced(u)
  BY DEF TeamInv, Places
<1>5. WellPlaced(u)'
  BY <1>2, <1>4, Typing DEF WellPlaced, IsProduct, BarrierPcs
<1> QED
  BY <1>1, <1>3, <1>5

\* A lone thread reads the counter and walks on; one of several goes to add
\* itself to the round it read.
LEMMA BarReadKeepsTeam ==
    ASSUME TypeOK, TeamInv, NEW t \in Threads, BarRead(t)
    PROVE  TeamInv'
<1>1. /\ \A u \in Threads \ {t} : UNCHANGED Locals(u)
      /\ UNCHANGED <<tp.n_graph, tp.n_threads_cur, tp.n_threads_max, tp.abort, tp.aborted>>
      /\ UNCHANGED <<callVars, back, node, last_graph>>
      /\ Outside' <=> Outside
      /\ t \in TeamThreads
      /\ t # 0 => last_graph[t] <= tp.n_graph
      /\ Started(t)' <=> Started(t)
  BY BarrierMoves DEF Barrier
<1>2. /\ pc[t] = "bar_read" /\ UNCHANGED tp
      /\ n_passed'[t] = tp.n_barrier_passed
      /\ pc'[t] = IF Nth = 1 THEN back[t] ELSE "bar_add"
  BY TypeParts DEF BarRead, Goto, LocalTypes, Nth
<1>3. back[t] \in {"node", "chunk", "return"}
  BY Typing
<1>4. MovesAlone(t)
  BY <1>1, <1>2 DEF MovesAlone
<1>5. Rounds'
  BY <1>2, <1>3, <1>4, MoveKeepsRounds DEF TeamInv, Inside, Closing
<1>6. Place(t) = "bar_read" /\ Place(t)' = pc'[t]
  BY <1>2, <1>3 DEF Place, Released
<1>7. Roles' /\ Sizes' /\ Workers' /\ Lockstep' /\ Places' /\ Aborts'
  <2>1. CASE Nth # 1
    BY <1>2, <1>6, <2>1, InRoundKeepsTeam DEF Barrier, BarrierPcs
  <2>2. CASE Nth = 1
    <3>1. t = 0 /\ TeamThreads = {0}
      BY <1>1, <2>2 DEF TeamThreads
    <3>2. /\ Meeting(0) = <<back[0], node[0]>>
          /\ Meeting(0)' = From(back[0], node[0])
          /\ WellPlaced(0)'
      BY <1>1, <1>2, <1>6, <2>2, <3>1, LetOut DEF Started, BarrierPcs, callVars
    <3>3. pc[0] \notin CallerPcs /\ pc'[0] \notin CallerPcs \cup WaitingPcs
      BY <1>2, <1>3, <2>2, <3>1 DEF CallerPcs, WaitingPcs
    <3>4. \A u \in Threads \ {0} :
              /\ Started(u)' <=> Started(u)
              /\ WellPlaced(u)' <=> WellPlaced(u)
              /\ Place(u)' = Place(u)
              /\ pc'[u] = pc[u] /\ last_graph'[u] = last_graph[u]
      BY <1>1, <1>2, <3>1, ThreadKept DEF callVars, Locals
    <3>5. TeamThreads' = TeamThreads
      BY <1>2 DEF TeamThreads, Nth
    <3>6. Lockstep'
      BY <3>1, <3>5 DEF Lockstep
    <3>7. Places'
      BY <3>2, <3>4 DEF TeamInv, Places
    <3>8. Aborts'
      BY <1>1, <1>2, <1>3, <3>1, <3>2, <3>3
         DEF TeamInv, Aborts, From, AtNode, Done, Outside, CallerPcs
    <3>9. Roles' /\ Workers'
      BY <1>1, <1>2, <3>3, <3>4 DEF TeamInv, Roles, Workers, Nth
    <3>10. Sizes'
      BY <1>1, <1>2, <3>1, <3>3, <3>4, Typing
         DEF TeamInv, Sizes, Nth, callVars, CallerPcs, WaitingPcs
    <3> QED
      BY <3>6, <3>7, <3>8, <3>9, <3>10
  <2> QED
    BY <2>1, <2>2
<1> QED
  BY <1>5, <1>7 DEF TeamInv

\* A thread that notices that its round is over is where it already was.
LEMMA BarWaitKeepsTeam ==
    ASSUME TypeOK, TeamInv, NEW t \in Threads, BarWait(t)
    PROVE  TeamInv'
<1>1. /\ \A u \in Threads \ {t} : UNCHANGED Locals(u)
      /\ UNCHANGED callVars
      /\ Outside' <=> Outside
  BY BarrierMoves DEF Barrier
<1>2. /\ pc[t] = "bar_wait" /\ Released(t) /\ UNCHANGED <<tp, back>>
      /\ pc'[t] = back[t]
  BY TypeParts DEF BarWait, Reads, Goto, LocalTypes, Released, localVars
<1>3. back[t] \in {"node", "chunk", "return"}
  BY Typing
<1>4. Place(t)' = Place(t)
  BY <1>2, <1>3 DEF Place, Released
<1>5. MovesAlone(t)
  BY <1>1, <1>2 DEF MovesAlone
<1>6. Rounds'
  BY <1>2, <1>3, <1>5, MoveKeepsRounds DEF TeamInv, Inside, Closing, Released
<1>7. Roles' /\ Sizes' /\ Workers' /\ Lockstep' /\ Places' /\ Aborts'
  BY <1>2, <1>4, InRoundKeepsTeam DEF Barrier
<1> QED
  BY <1>6, <1>7 DEF TeamInv

\* The team is counted, and whoever closes a round is alone outside it.
LEMMA Counting ==
    ASSUME TypeOK, TeamInv, NEW t \in TeamThreads
    PROVE  /\ IsFiniteSet(TeamThreads \ {t}) /\ Cardinality(TeamThreads \ {t}) = Nth - 1
           /\ Inside \subseteq TeamThreads /\ Closing \subseteq TeamThreads
           /\ IsFiniteSet(Inside) /\ Cardinality(Inside) \in Nat
           /\ t \notin Inside => \A c \in Closing : c = t
<1>1. Nth \in Nat /\ 0 <= Nth
  BY Typing
<1>2. IsFiniteSet(TeamThreads) /\ Cardinality(TeamThreads) = Nth
  BY <1>1, FS_Interval DEF TeamThreads
<1>3. IsFiniteSet(TeamThreads \ {t}) /\ Cardinality(TeamThreads \ {t}) = Nth - 1
  BY <1>2, FS_RemoveElement
<1>4. Inside \subseteq TeamThreads /\ Closing \subseteq TeamThreads
  <2>1. ASSUME NEW u \in Inside \cup Closing PROVE u \in TeamThreads
    <3>1. u \in Threads /\ pc[u] \in BarrierPcs
      BY DEF Inside, Closing, BarrierPcs
    <3>2. u # 0 => u < Nth
      BY <3>1 DEF TeamInv, Workers, BarrierPcs, WaitingPcs
    <3> QED
      BY <3>1, <3>2, Typing DEF TeamThreads
  <2> QED
    BY <2>1
<1>5. IsFiniteSet(Inside) /\ Cardinality(Inside) \in Nat
  BY <1>2, <1>4, FS_Subset, FS_CardinalityType
<1>6. t \notin Inside => \A c \in Closing : c = t
  BY DEF TeamInv, Rounds
<1> QED
  BY <1>3, <1>4, <1>5, <1>6

\* A thread adds itself to the round; the last of the team closes it.
LEMMA BarAddKeepsTeam ==
    ASSUME TypeOK, TeamInv, NEW t \in Threads, BarAdd(t)
    PROVE  TeamInv'
<1>1. /\ \A u \in Threads \ {t} : pc'[u] = pc[u] /\ n_passed'[u] = n_passed[u]
      /\ t \in TeamThreads
  BY BarrierMoves DEF Barrier, Locals
<1>2. /\ pc[t] = "bar_add" /\ UNCHANGED <<n_passed, tp.n_barrier_passed, tp.n_threads_cur>>
      /\ tp'.n_barrier = tp.n_barrier + 1
      /\ pc'[t] = IF tp.n_barrier = Nth - 1 THEN "bar_reset" ELSE "bar_wait"
  BY TypeParts DEF BarAdd, Goto, localVars, PoolTypes, Pools, Nth
<1>3. n_passed[t] = tp.n_barrier_passed
  BY <1>2 DEF TeamInv, Rounds
<1>4. Place(t) \in BarrierPcs /\ Place(t)' \in BarrierPcs
  BY <1>2, <1>3 DEF Place, Released, BarrierPcs
<1>5. Roles' /\ Sizes' /\ Workers' /\ Lockstep' /\ Places' /\ Aborts'
  BY <1>2, <1>4, InRoundKeepsTeam DEF Barrier
<1>6. t \notin Inside /\ t \notin Closing
  BY <1>2 DEF Inside, Closing
<1>7. Closing = {}
  BY <1>1, <1>6, Counting
<1>8. tp.n_barrier = Cardinality(Inside) /\ tp.n_barrier < Nth
  BY <1>7 DEF TeamInv, Rounds
<1>9. Nth' = Nth /\ TeamThreads' = TeamThreads /\ Nth \in Nat /\ tp.n_barrier \in Nat
  BY <1>2, Typing DEF Nth, TeamThreads
<1>10. Rounds'
  <2>1. CASE tp.n_barrier = Nth - 1
    <3>1. Inside' = Inside /\ Closing' = {t}
      BY <1>1, <1>2, <1>7, <2>1 DEF Inside, Closing
    <3>2. Inside \subseteq TeamThreads \ {t}
      BY <1>1, <1>6, Counting
    <3>3. Cardinality(Inside) = Cardinality(TeamThreads \ {t})
      BY <1>1, <1>8, <2>1, Counting
    <3>4. Inside = TeamThreads \ {t}
      BY <1>1, <3>2, <3>3, Counting, FS_Subset
    <3>5. tp'.n_barrier = Nth
      BY <1>2, <1>9, <2>1
    <3> QED
      BY <1>1, <1>2, <1>9, <2>1, <3>1, <3>4, <3>5 DEF TeamInv, Rounds
  <2>2. CASE tp.n_barrier # Nth - 1
    <3>1. Inside' = Inside \cup {t} /\ Closing' = {}
      BY <1>1, <1>2, <1>3, <1>7, <2>2 DEF Inside, Closing
    <3>2. Cardinality(Inside \cup {t}) = Cardinality(Inside) + 1
      BY <1>1, <1>6, Counting, FS_AddElement
    <3>3. tp'.n_barrier = Cardinality(Inside)' /\ tp'.n_barrier < Nth'
      BY <1>2, <1>8, <1>9, <2>2, <3>1, <3>2
    <3>4. n_passed'[t] <= tp'.n_barrier_passed
      BY <1>2, <1>3, Typing
    <3> QED
      BY <1>1, <1>2, <2>2, <3>1, <3>3, <3>4 DEF TeamInv, Rounds
  <2> QED
    BY <2>1, <2>2
<1> QED
  BY <1>5, <1>10 DEF TeamInv

\* The thread that closes the round resets its counter.
LEMMA BarResetKeepsTeam ==
    ASSUME TypeOK, TeamInv, NEW t \in Threads, BarReset(t)
    PROVE  TeamInv'
<1>1. /\ \A u \in Threads \ {t} : pc'[u] = pc[u] /\ n_passed'[u] = n_passed[u]
      /\ t \in TeamThreads
  BY BarrierMoves DEF Barrier, Locals
<1>2. /\ pc[t] = "bar_reset" /\ UNCHANGED <<n_passed, tp.n_barrier_passed, tp.n_threads_cur>>
      /\ tp'.n_barrier = 0
      /\ pc'[t] = "bar_pass"
  BY TypeParts DEF BarReset, Goto, localVars, PoolTypes, Pools
<1>3. Place(t) \in BarrierPcs /\ Place(t)' \in BarrierPcs
  BY <1>2 DEF Place, Released, BarrierPcs
<1>4. Roles' /\ Sizes' /\ Workers' /\ Lockstep' /\ Places' /\ Aborts'
  BY <1>2, <1>3, InRoundKeepsTeam DEF Barrier
<1>5. t \notin Inside /\ t \in Closing
  BY <1>2 DEF Inside, Closing
<1>6. Closing = {t}
  BY <1>1, <1>5, Counting
<1>7. Inside' = Inside /\ Closing' = Closing /\ TeamThreads' = TeamThreads
  BY <1>1, <1>2 DEF Inside, Closing, TeamThreads, Nth
<1>8. Rounds'
  BY <1>1, <1>2, <1>6, <1>7 DEF TeamInv, Rounds
<1> QED
  BY <1>4, <1>8 DEF TeamInv

\* The thread that closes a round lets the others, who all wait, out.
LEMMA PassLetsOut ==
    ASSUME TypeOK, TeamInv, NEW t \in Threads, BarPass(t)
    PROVE  /\ Closing = {t} /\ Inside = TeamThreads \ {t} /\ tp.n_barrier = 0
           /\ \A u \in TeamThreads : /\ Place(u) \in BarrierPcs
                                     /\ Place(u)' = back[u]
                                     /\ Started(u) /\ Started(u)'
<1>1. /\ \A u \in Threads \ {t} : UNCHANGED Locals(u)
      /\ UNCHANGED <<tp.n_graph, tp.n_threads_cur, tp.n_threads_max, tp.abort, tp.aborted>>
      /\ UNCHANGED <<callVars, back, node, last_graph>>
      /\ Outside' <=> Outside
      /\ t \in TeamThreads
      /\ t # 0 => t < Nth /\ tp.n_graph > 0 /\ last_graph[t] <= tp.n_graph
  BY BarrierMoves DEF Barrier
<1>2. /\ pc[t] = "bar_pass" /\ pc'[t] = back[t]
      /\ tp'.n_barrier_passed = tp.n_barrier_passed + 1 /\ UNCHANGED <<n_passed, tp.n_barrier>>
  BY TypeParts DEF BarPass, Goto, localVars, PoolTypes, Pools
<1>3. \A u \in Threads : back[u] \in {"node", "chunk", "return"}
  BY Typing
<1>4. \A u \in Threads \ {t} : pc'[u] = pc[u] /\ n_passed'[u] = n_passed[u]
  BY <1>1 DEF Locals
<1>5. t \notin Inside /\ t \in Closing
  BY <1>2 DEF Inside, Closing
<1>6. Closing = {t} /\ Inside = TeamThreads \ {t} /\ tp.n_barrier = 0
  <2>1. Closing = {t}
    BY <1>1, <1>5, Counting
  <2> QED
    BY <1>2, <2>1 DEF TeamInv, Rounds
<1>7. TeamThreads' = TeamThreads /\ Nth' = Nth /\ TeamThreads \subseteq Threads /\ 0 \in TeamThreads
  BY <1>1, Typing DEF TeamThreads, Nth
<1>8. \A u \in TeamThreads : /\ Place(u) \in BarrierPcs
                             /\ Place(u)' = back[u]
                             /\ Started(u) /\ Started(u)'
  <2>1. ASSUME NEW u \in TeamThreads
        PROVE  Place(u) \in BarrierPcs /\ Place(u)' = back[u]
    <3>1. CASE u = t
      BY <1>2, <1>3, <3>1 DEF Place, Released, BarrierPcs
    <3>2. CASE u # t
      <4>1. u \in Inside
        BY <1>6, <3>2
      <4>2. pc[u] = "bar_wait" /\ n_passed[u] = tp.n_barrier_passed
        BY <4>1 DEF Inside
      <4>3. n_passed[u] # tp.n_barrier_passed + 1
        BY <1>7, <4>2, Typing
      <4> QED
        BY <1>1, <1>2, <1>4, <1>7, <3>2, <4>2, <4>3 DEF Place, Released, BarrierPcs
    <3> QED
      BY <3>1, <3>2
  <2>2. ASSUME NEW u \in TeamThreads PROVE Started(u)
    BY <1>7, <2>1, ComputingStarted DEF BarrierPcs
  <2>3. ASSUME NEW u \in TeamThreads PROVE pc'[u] # "poll_seen"
    <3>1. pc[u] \in {"bar_wait", "bar_pass"}
      BY <1>2, <1>6 DEF Inside
    <3> QED
      BY <1>2, <1>3, <1>4, <1>7, <3>1
  <2> QED
    BY <1>1, <2>1, <2>2, <2>3 DEF Started
<1> QED
  BY <1>6, <1>8

\* They all go to the same place.
LEMMA BarPassKeepsTeam ==
    ASSUME TypeOK, TeamInv, NEW t \in Threads, BarPass(t)
    PROVE  TeamInv'
<1>1. /\ \A u \in Threads \ {t} : UNCHANGED Locals(u)
      /\ UNCHANGED <<tp.n_graph, tp.n_threads_cur, tp.n_threads_max, tp.abort, tp.aborted>>
      /\ UNCHANGED <<callVars, back, node, last_graph>>
      /\ Outside' <=> Outside
      /\ t \in TeamThreads
      /\ t # 0 => t < Nth /\ tp.n_graph > 0 /\ last_graph[t] <= tp.n_graph
  BY BarrierMoves DEF Barrier
<1>2. /\ pc[t] = "bar_pass" /\ pc'[t] = back[t]
      /\ tp'.n_barrier_passed = tp.n_barrier_passed + 1 /\ UNCHANGED <<n_passed, tp.n_barrier>>
  BY TypeParts DEF BarPass, Goto, localVars, PoolTypes, Pools
<1>3. \A u \in Threads : back[u] \in {"node", "chunk", "return"}
  BY Typing
<1>4. \A u \in Threads \ {t} : pc'[u] = pc[u] /\ n_passed'[u] = n_passed[u]
  BY <1>1 DEF Locals
<1>6. Closing = {t} /\ Inside = TeamThreads \ {t} /\ tp.n_barrier = 0
  BY PassLetsOut
<1>7. TeamThreads' = TeamThreads /\ Nth' = Nth /\ TeamThreads \subseteq Threads /\ 0 \in TeamThreads
  BY <1>1, Typing DEF TeamThreads, Nth
<1>8. \A u \in TeamThreads : /\ Place(u) \in BarrierPcs
                             /\ Place(u)' = back[u]
                             /\ Started(u) /\ Started(u)'
  BY PassLetsOut
<1>9. \A u \in TeamThreads : /\ Meeting(u) = <<back[u], node[u]>>
                             /\ Meeting(u)' = From(back[u], node[u])
                             /\ WellPlaced(u)'
  BY <1>1, <1>7, <1>8, LetOut DEF callVars
<1>10. \A u \in TeamThreads : back[u] = back[0] /\ node[u] = node[0]
  BY <1>7, <1>9 DEF TeamInv, Lockstep
<1>11. Lockstep'
  BY <1>7, <1>9, <1>10 DEF Lockstep
<1>12. ASSUME NEW u \in Threads, u \notin TeamThreads
       PROVE  pc[u] \in WaitingPcs /\ u # t
  BY <1>1, <1>7, <1>12, Typing DEF TeamInv, Workers, TeamThreads
<1>13. ASSUME NEW u \in Threads, u \notin TeamThreads
       PROVE  WellPlaced(u)'
  BY <1>4, <1>12, <1>13 DEF WellPlaced, Place, Released, WaitingPcs, BarrierPcs
<1>14. Places'
  BY <1>9, <1>13 DEF Places
<1>15. Aborts'
  <2>1. pc[0] \notin CallerPcs /\ pc'[0] \notin CallerPcs
    <3>1. pc[0] \in {"bar_wait", "bar_pass"}
      BY <1>2, <1>6, <1>7 DEF Inside
    <3> QED
      BY <1>2, <1>3, <1>4, <1>7, <3>1 DEF CallerPcs
  <2> QED
    BY <1>1, <1>3, <1>7, <1>9, <2>1, Typing, SMTT(30)
       DEF TeamInv, Aborts, From, AtNode, Done, Outside, CallerPcs
<1>16. Roles'
  BY <1>2, <1>3, <1>4, <1>7 DEF TeamInv, Roles, WaitingPcs, CallerPcs
<1>17. Workers'
  <2>1. ASSUME NEW u \in Threads, u \notin TeamThreads
        PROVE  Place(u)' = Place(u) /\ (Started(u)' <=> Started(u))
    BY <1>1, <1>4, <1>12, <2>1 DEF Place, Released, Started, WaitingPcs
  <2>2. pc'[t] \notin WaitingPcs
    BY <1>2, <1>3 DEF WaitingPcs
  <2> QED
    BY <1>1, <1>2, <1>4, <1>7, <1>8, <2>1, <2>2 DEF TeamInv, Workers, WaitingPcs
<1>18. Sizes'
  <2>1. pool /\ pc[0] # "idle"
    <3>1. pc[0] \in {"bar_wait", "bar_pass"}
      BY <1>2, <1>6, <1>7 DEF Inside
    <3> QED
      BY <3>1 DEF TeamInv, Sizes
  <2>2. t < tp.n_threads_max
    BY <1>1, <1>7, Typing DEF TeamThreads
  <2>3. pc'[0] # "idle" /\ pc'[0] # "kick_graph"
    <3>1. pc[0] \in {"bar_wait", "bar_pass"}
      BY <1>2, <1>6, <1>7 DEF Inside
    <3> QED
      BY <1>2, <1>3, <1>4, <1>7, <3>1
  <2>4. \A u \in Threads : u >= tp.n_threads_max => pc'[u] = "none"
    BY <1>4, <2>2, Typing, SMTT(30) DEF TeamInv, Sizes
  <2> QED
    BY <1>1, <1>7, <2>1, <2>3, <2>4 DEF TeamInv, Sizes, callVars
<1>19. Rounds'
  <2>1. ASSUME NEW u \in Threads, pc'[u] = "bar_wait"
        PROVE  n_passed'[u] <= tp'.n_barrier_passed /\ n_passed'[u] # tp'.n_barrier_passed
    <3>1. u # t
      BY <1>2, <1>3, <2>1
    <3>2. n_passed[u] <= tp.n_barrier_passed
      BY <1>4, <2>1, <3>1 DEF TeamInv, Rounds
    <3>3. n_passed[u] \in Nat /\ tp.n_barrier_passed \in Nat
      BY Typing
    <3> QED
      BY <1>2, <3>2, <3>3
  <2>5. Closing' = {}
    BY <1>2, <1>3, <1>4, <1>6 DEF Closing
  <2>2. Inside' = {} /\ Closing' = {}
    BY <2>1, <2>5 DEF Inside
  <2>3. Cardinality({}) = 0
    BY FS_EmptySet
  <2>4. \A u \in Threads : pc'[u] # "bar_add"
    <3>1. \A u \in TeamThreads \ {t} : pc[u] = "bar_wait"
      BY <1>6 DEF Inside
    <3> QED
      BY <1>2, <1>3, <1>4, <1>12, <3>1 DEF WaitingPcs
  <2> QED
    BY <1>2, <1>6, <1>7, <2>1, <2>2, <2>3, <2>4, Typing DEF Rounds
<1> QED
  BY <1>11, <1>14, <1>15, <1>16, <1>17, <1>18, <1>19 DEF TeamInv

(***************************************************************************)
(* Outside a graph.                                                        *)
(***************************************************************************)

RestPlaces == WaitingPcs \cup CallerPcs \cup {"return"}

\* When the caller has no meeting left, nobody is in the barrier or at a node.
LEMMA TeamRests ==
    ASSUME TypeOK, TeamInv, Outside \/ Meeting(0)[1] = "done"
    PROVE  /\ \A u \in Threads : Place(u) \in RestPlaces
           /\ \A u \in TeamThreads : Started(u)
           /\ tp.n_barrier = 0
<1>1. Meeting(0)[1] = "done"
  BY Destinations
<1>2. \A u \in TeamThreads : Started(u) /\ Place(u) \in RestPlaces
  BY <1>1, DoneMeans, Typing DEF TeamInv, Lockstep, RestPlaces
<1>3. ASSUME NEW u \in Threads, u \notin TeamThreads PROVE Place(u) \in RestPlaces
  <2>1. ~(u < Nth) /\ u # 0
    BY <1>3, Typing DEF TeamThreads
  <2>2. pc[u] \in WaitingPcs
    BY <2>1 DEF TeamInv, Workers
  <2> QED
    BY <2>2 DEF Place, Released, RestPlaces, WaitingPcs
<1>4. \A u \in Threads : Place(u) \in RestPlaces
  BY <1>2, <1>3
<1>5. Inside = {} /\ Closing = {}
  BY <1>4 DEF Inside, Closing, Place, Released, RestPlaces, WaitingPcs, CallerPcs
<1>6. tp.n_barrier = 0
  BY <1>5, FS_EmptySet DEF TeamInv, Rounds
<1> QED
  BY <1>2, <1>4, <1>6

\* A team that rests outside a graph is together, and its barrier is empty.
LEMMA RestingTeam ==
    ASSUME Outside', \A u \in Threads : Place(u)' \in RestPlaces,
           (TeamThreads \subseteq Threads)', (0 \in TeamThreads)',
           \A u \in TeamThreads' : Started(u)',
           tp'.n_barrier = 0, (Nth \in Nat \ {0})',
           \A u \in Threads : pc'[u] = "bar_wait" => n_passed'[u] <= tp'.n_barrier_passed
    PROVE  Lockstep' /\ Places' /\ Rounds'
<1>1. \A u \in TeamThreads' : Meeting(u)' = <<"done", 0>>
  BY DEF Meeting, From, Done, RestPlaces, WaitingPcs, CallerPcs, BarrierPcs
<1>2. Places'
  BY DEF Places, WellPlaced, RestPlaces, WaitingPcs, CallerPcs, BarrierPcs
<1>3. Inside' = {} /\ Closing' = {}
  BY DEF Inside, Closing, Place, Released, RestPlaces, WaitingPcs, CallerPcs
<1>4. \A u \in Threads : pc'[u] # "bar_add"
  BY DEF Place, Released, RestPlaces, WaitingPcs, CallerPcs
<1>5. Cardinality(Inside)' = 0
  BY <1>3, FS_EmptySet
<1> QED
  BY <1>1, <1>2, <1>3, <1>4, <1>5 DEF Lockstep, Rounds

\* The workers of a resting team stay at rest: they sleep on or are woken, and
\* the team may shrink before its first graph.
LEMMA RestKeepsTeam ==
    ASSUME TypeOK, TypeOK', TeamInv, Outside \/ Meeting(0)[1] = "done", Outside',
           \A u \in Threads \ {0} :
               \/ pc'[u] = pc[u]
               \/ pc[u] \in WaitingPcs /\ pc'[u] \in WaitingPcs \ {"poll_seen"},
           UNCHANGED <<last_graph, n_passed, back, tp.n_graph, tp.n_barrier, tp.n_barrier_passed>>,
           Nth' = Nth \/ (Nth' <= Nth /\ tp.n_graph = 0)
    PROVE  Roles' /\ Workers' /\ Lockstep' /\ Places' /\ Rounds'
<1>1. /\ \A u \in Threads : Place(u) \in RestPlaces
      /\ \A u \in TeamThreads : Started(u)
      /\ tp.n_barrier = 0
  BY TeamRests
<1>2. /\ (TeamThreads \subseteq Threads)' /\ (0 \in TeamThreads)' /\ (Nth \in Nat \ {0})'
      /\ Nth' <= Nth /\ TeamThreads' \subseteq TeamThreads
      /\ TeamThreads \subseteq Threads /\ 0 \in Threads
  <2>1. Nth \in 1 .. MaxThreads /\ TeamThreads \subseteq Threads /\ 0 \in Threads
    BY Typing
  <2>2. (Nth \in 1 .. MaxThreads)'
    BY DEF TypeOK, Nth
  <2> QED
    BY <2>1, <2>2, PoolAssumption DEF TeamThreads, Threads
<1>3. pc'[0] \in CallerPcs
  BY DEF Outside
<1>4. Roles'
  BY <1>3 DEF TeamInv, Roles, WaitingPcs, CallerPcs
<1>5. \A u \in Threads \ {0} : /\ pc'[u] \in WaitingPcs <=> pc[u] \in WaitingPcs
                               /\ pc'[u] = "poll_seen" => pc[u] = "poll_seen"
                               /\ pc[u] \notin WaitingPcs => pc'[u] = pc[u]
  OBVIOUS
<1>6. \A u \in Threads \ {0} : Started(u) => Started(u)'
  BY <1>5 DEF Started
<1>7. ASSUME NEW u \in Threads \ {0}
      PROVE  /\ Place(u)' \in RestPlaces \ CallerPcs
             /\ pc'[u] \in WaitingPcs => Place(u)' = pc'[u]
  <2>1. CASE pc'[u] \in WaitingPcs
    BY <2>1 DEF Place, Released, RestPlaces, WaitingPcs, CallerPcs
  <2>2. CASE pc'[u] \notin WaitingPcs
    <3>1. Place(u)' = Place(u) /\ pc[u] \notin CallerPcs
      BY <1>5, <2>2 DEF Place, Released, TeamInv, Roles
    <3>2. back[u] \in {"node", "chunk", "return"}
      BY Typing
    <3> QED
      BY <1>1, <2>2, <3>1, <3>2 DEF Place, RestPlaces, WaitingPcs, CallerPcs
  <2> QED
    BY <2>1, <2>2
<1>8. \A u \in Threads : Place(u)' \in RestPlaces
  BY <1>3, <1>7 DEF Place, Released, RestPlaces, CallerPcs
<1>9. Workers'
  <2>1. ASSUME NEW u \in Threads \ {0}
        PROVE  /\ last_graph'[u] <= tp'.n_graph
               /\ pc'[u] \notin WaitingPcs => u < Nth' /\ tp'.n_graph > 0
               /\ pc'[u] = "poll_seen" /\ u < Nth' => last_graph'[u] = tp'.n_graph
    <3>1. u \in Nat /\ Nth \in Nat /\ Nth' \in Nat /\ tp.n_graph \in Nat
      BY <1>2, Typing
    <3> QED
      BY <1>2, <1>5, <3>1 DEF TeamInv, Workers
  <2>2. \A u \in Threads \ {0} : Place(u)' \in WaitingPcs \cup {"return"}
    BY <1>7 DEF RestPlaces, WaitingPcs, CallerPcs
  <2> QED
    BY <2>1, <2>2 DEF Workers
<1>10. \A u \in TeamThreads' : Started(u)'
  BY <1>1, <1>2, <1>6 DEF Started
<1>11. \A u \in Threads : pc'[u] = "bar_wait" => n_passed'[u] <= tp'.n_barrier_passed
  BY <1>2, <1>3, <1>5 DEF TeamInv, Rounds, WaitingPcs, CallerPcs
<1>12. tp'.n_barrier = 0
  BY <1>1
<1> QED
  BY <1>2, <1>4, <1>8, <1>9, <1>10, <1>11, <1>12, RestingTeam

\* A worker that waits, looks for work, takes a graph up or leaves one keeps its
\* appointment: what it has not taken up starts at the first node.
LEMMA WaitingMoves ==
    ASSUME TypeOK, TeamInv, NEW t \in Threads \ {0},
           SecondaryThread(t) \/ SpuriousWake(t) \/ Return(t)
    PROVE  /\ MovesAlone(t) /\ UNCHANGED tp
           /\ WorkerMoves(t)
           /\ t \in TeamThreads => Meeting(t)' = Meeting(t)
           /\ WellPlaced(t)'
           /\ pc[t] \in WaitingPcs \cup {"return"} /\ pc'[t] \in WaitingPcs \cup {"node"}
<1> USE DEF callVars, localVars, dataVars
<1>1. /\ UNCHANGED <<callVars, tp, back, n_passed>>
      /\ \E there \in WaitingPcs \cup {"node"} : Goto(t, there)
      /\ node' = node \/ node' = [node EXCEPT ![t] = 0]
      /\ last_graph' = last_graph \/ last_graph' = [last_graph EXCEPT ![t] = tp.n_graph]
  <2>1. CASE SpuriousWake(t)
    <3>1. Woken(pc)[t] \in WaitingPcs
      BY <2>1 DEF SpuriousWake, Woken, WaitingPcs
    <3> QED
      BY <2>1, <3>1 DEF SpuriousWake
  <2>2. CASE Return(t)
    BY <2>2 DEF Return, Reads, WaitingPcs
  <2>3. CASE SecondaryThread(t)
    BY <2>3 DEF SecondaryThread, PauseLoop, PauseLock, StopCheck, PollStart, Poll, PollSeen,
       SleepOrWork, Reads, WaitingPcs
  <2> QED
    BY <2>1, <2>2, <2>3
<1>2. pc \in [Threads -> Pcs] /\ node \in [Threads -> Nat] /\ last_graph \in [Threads -> Nat]
  BY TypeParts DEF LocalTypes
<1>3. MovesAlone(t) /\ pc'[t] \in WaitingPcs \cup {"node"}
  BY <1>1, <1>2 DEF MovesAlone, Goto, Locals, Outside, CallerPcs
<1>4. pc[t] \in WaitingPcs \cup {"return"}
  BY DEF SecondaryThread, PauseLoop, PauseLock, StopCheck, PollStart, Poll, PollSeen,
       SleepOrWork, Reads, SpuriousWake, Return, WaitingPcs
<1>5. Place(t) = pc[t] /\ Place(t)' = pc'[t]
  BY <1>3, <1>4 DEF Place, Released, WaitingPcs
<1>6. \/ /\ UNCHANGED last_graph
         /\ node'[t] = node[t]
         /\ pc[t] # "poll_seen" /\ pc'[t] \in WaitingPcs \ {"poll_seen"}
      \/ /\ pc'[t] = "poll_seen" /\ pc[t] = "poll"
         /\ last_graph[t] # tp.n_graph /\ last_graph'[t] = tp.n_graph
      \/ /\ ~(t < Nth) /\ pc'[t] \in {"poll", "work_sleep"}
         /\ last_graph'[t] \in {last_graph[t], tp.n_graph}
      \/ /\ t < Nth /\ pc'[t] = "node" /\ node'[t] = 0
         /\ ~Started(t) /\ last_graph'[t] = tp.n_graph
  <2>1. CASE PauseLoop(t) \/ PauseLock(t) \/ StopCheck(t) \/ PollStart(t) \/ Return(t)
    BY <1>2, <2>1 DEF PauseLoop, PauseLock, StopCheck, PollStart, Return, Reads, Goto, WaitingPcs
  <2>2. CASE SpuriousWake(t)
    BY <1>2, <2>2 DEF SpuriousWake, Goto, Woken, WaitingPcs
  <2>3. CASE Poll(t)
    BY <1>2, <2>3 DEF Poll, Goto, WaitingPcs
  <2>4. CASE PollSeen(t)
    <3>1. CASE t < Nth
      <4>1. last_graph[t] = tp.n_graph
        BY <2>4, <3>1 DEF PollSeen, TeamInv, Workers
      <4> QED
        BY <1>2, <2>4, <3>1, <4>1 DEF PollSeen, Goto, Started
    <3>2. CASE ~(t < Nth)
      BY <1>2, <2>4, <3>2 DEF PollSeen, Goto
    <3> QED
      BY <3>1, <3>2
  <2>5. CASE SleepOrWork(t)
    <3>1. CASE tp.stop \/ tp.pause
      BY <1>2, <2>5, <3>1 DEF SleepOrWork, Goto, WaitingPcs
    <3>2. CASE ~(tp.stop \/ tp.pause) /\ tp.n_graph # last_graph[t] /\ t < Nth
      BY <1>2, <2>5, <3>2 DEF SleepOrWork, Goto, Started
    <3>3. CASE ~(tp.stop \/ tp.pause) /\ tp.n_graph = last_graph[t]
      <4>1. last_graph' = last_graph
        BY <1>2, <2>5, <3>3 DEF SleepOrWork
      <4> QED
        BY <1>2, <2>5, <3>3, <4>1 DEF SleepOrWork, Goto, WaitingPcs
    <3>4. CASE ~(tp.stop \/ tp.pause) /\ tp.n_graph # last_graph[t] /\ ~(t < Nth)
      BY <1>2, <2>5, <3>4 DEF SleepOrWork, Goto
    <3> QED
      BY <3>1, <3>2, <3>3, <3>4
  <2> QED
    BY <2>1, <2>2, <2>3, <2>4, <2>5 DEF SecondaryThread
<1>7. AtNode(0)' = AtNode(0) /\ (Outside' <=> Outside)
  BY <1>1, <1>3 DEF AtNode, AfterNode, IsProduct, MovesAlone
<1>8. \A n : Done(n)' = Done(n)
  BY <1>7 DEF Done
<1>9. t \in TeamThreads <=> t < Nth
  BY Typing DEF TeamThreads
<1>10. last_graph[t] <= tp.n_graph /\ last_graph[t] \in Nat /\ tp.n_graph \in Nat
  BY Typing DEF TeamInv, Workers
<1>11. pc[t] # "none" /\ pc'[t] \notin CallerPcs
  BY <1>3, <1>4 DEF SecondaryThread, PauseLoop, PauseLock, StopCheck, PollStart, Poll, PollSeen,
       SleepOrWork, Reads, SpuriousWake, Return, WaitingPcs, CallerPcs
<1>12. CASE /\ UNCHANGED last_graph
            /\ node'[t] = node[t]
            /\ pc[t] # "poll_seen" /\ pc'[t] \in WaitingPcs \ {"poll_seen"}
  <2>1. Started(t)' <=> Started(t)
    BY <1>1, <1>12 DEF Started
  <2>2. From(Place(t), node[t]) = Done(node[t]) /\ From(Place(t), node[t])' = Done(node[t])
    BY <1>4, <1>5, <1>8, <1>12 DEF From, WaitingPcs
  <2>3. Place(t) \notin BarrierPcs /\ Place(t)' \notin BarrierPcs
    BY <1>4, <1>5, <1>12 DEF WaitingPcs, BarrierPcs
  <2>4. Meeting(t)' = Meeting(t)
    BY <1>7, <2>1, <2>2, <2>3 DEF Meeting
  <2>5. WellPlaced(t)'
    BY <1>5, <1>12 DEF WellPlaced, WaitingPcs, BarrierPcs
  <2>6. WorkerMoves(t)
    BY <1>5, <1>10, <1>11, <1>12 DEF WorkerMoves
  <2> QED
    BY <1>1, <1>3, <1>4, <2>4, <2>5, <2>6
<1>13. CASE /\ pc'[t] = "poll_seen" /\ pc[t] = "poll"
            /\ last_graph[t] # tp.n_graph /\ last_graph'[t] = tp.n_graph
  <2>1. ~Started(t) /\ ~Started(t)'
    BY <1>13 DEF Started
  <2>2. Meeting(t)' = Meeting(t)
    BY <1>7, <2>1 DEF Meeting
  <2>3. WellPlaced(t)'
    BY <1>5, <1>13 DEF WellPlaced, BarrierPcs
  <2>4. WorkerMoves(t)
    BY <1>5, <1>10, <1>11, <1>13 DEF WorkerMoves, WaitingPcs
  <2> QED
    BY <1>1, <1>3, <1>4, <2>2, <2>3, <2>4
<1>14. CASE /\ ~(t < Nth) /\ pc'[t] \in {"poll", "work_sleep"}
            /\ last_graph'[t] \in {last_graph[t], tp.n_graph}
  <2>1. WellPlaced(t)'
    BY <1>5, <1>14 DEF WellPlaced, BarrierPcs
  <2>2. WorkerMoves(t)
    BY <1>5, <1>10, <1>11, <1>14 DEF WorkerMoves, WaitingPcs
  <2> QED
    BY <1>1, <1>3, <1>4, <1>9, <1>14, <2>1, <2>2
<1>15. CASE /\ t < Nth /\ pc'[t] = "node" /\ node'[t] = 0
            /\ ~Started(t) /\ last_graph'[t] = tp.n_graph
  <2>1. tp.n_graph > 0
    <3>1. ~Outside
      BY <1>9, <1>15, OutsideDone
    <3> QED
      BY <3>1 DEF TeamInv, Sizes
  <2>2. Started(t)'
    BY <1>1, <1>15 DEF Started
  <2>3. Meeting(t) = AtNode(0)
    BY <1>15 DEF Meeting
  <2>4. Meeting(t)' = AtNode(0)
    BY <1>5, <1>7, <1>15, <2>2 DEF Meeting, From, BarrierPcs
  <2>5. WellPlaced(t)'
    BY <1>5, <1>15, <1>1, Typing DEF WellPlaced, BarrierPcs
  <2>6. WorkerMoves(t)
    BY <1>5, <1>10, <1>11, <1>15, <2>1, <2>2 DEF WorkerMoves, WaitingPcs
  <2> QED
    BY <1>1, <1>3, <1>4, <2>3, <2>4, <2>5, <2>6
<1> QED
  BY <1>6, <1>12, <1>13, <1>14, <1>15

\* A waiting worker keeps the team together.
LEMMA WaitingKeepsTeam ==
    ASSUME TypeOK, TeamInv, NEW t \in Threads \ {0},
           SecondaryThread(t) \/ SpuriousWake(t) \/ Return(t)
    PROVE  TeamInv'
<1>1. /\ MovesAlone(t) /\ UNCHANGED tp
      /\ WorkerMoves(t)
      /\ t \in TeamThreads => Meeting(t)' = Meeting(t)
      /\ WellPlaced(t)'
      /\ pc[t] \in WaitingPcs \cup {"return"} /\ pc'[t] \in WaitingPcs \cup {"node"}
  BY WaitingMoves
<1>2. t \notin Inside \cup Closing /\ t \notin Inside' \cup Closing'
  BY <1>1 DEF Inside, Closing, WaitingPcs
<1>3. pc'[t] \notin {"bar_add", "bar_wait"}
  BY <1>1 DEF WaitingPcs
<1>4. Rounds'
  BY <1>1, <1>2, <1>3, MoveKeepsRounds DEF TeamInv
<1>5. Roles' /\ Sizes' /\ Workers' /\ Lockstep' /\ Places' /\ Aborts'
  BY <1>1, MoveKeepsTeam DEF WorkerMoves
<1> QED
  BY <1>4, <1>5 DEF TeamInv

\* A broadcast moves sleeping workers only, from one waiting place to another.
LEMMA WokenWaits ==
    ASSUME NEW u \in Threads
    PROVE  /\ \/ Woken(pc)[u] = pc[u]
              \/ pc[u] \in WaitingPcs /\ Woken(pc)[u] \in WaitingPcs \ {"poll_seen"}
           /\ Woken(pc)[u] = "none" <=> pc[u] = "none"
           /\ pc[u] \notin WaitingPcs => Woken(pc)[u] = pc[u]
BY DEF Woken, WaitingPcs

\* A call that reuses the pool of its caller, and the steps of the caller outside
\* a graph that keep their pool.
LEMMA CallerRests ==
    ASSUME TypeOK, TypeOK', TeamInv,
           \/ Return(0) \/ ReturnKept \/ KickThreads \/ Free \/ Join
           \/ SetPause(TRUE) \/ SetPause(FALSE)
           \/ persistent /\ \E g \in Graphs : Call(g)
    PROVE  TeamInv'
<1> USE DEF callVars, localVars, dataVars
<1> DEFINE team == Minimum(plan_threads, tp.n_threads_max)
<1>1. /\ pc \in [Threads -> Pcs] /\ tp \in Pools /\ 0 \in Threads
      /\ Nth <= tp.n_threads_max /\ tp.n_threads_max \in Nat /\ Nth \in Nat
      /\ plan_threads \in Nat /\ tp.n_graph \in Nat
  BY TypeParts, Typing DEF PoolTypes
<1>2. UNCHANGED <<last_graph, n_passed, back, persistent, plan_threads>>
  BY DEF Return, ReturnKept, Reads, KickThreads, Free, Join, SetPause, Call
<1>3. /\ UNCHANGED <<tp.n_graph, tp.n_barrier, tp.n_barrier_passed, tp.n_threads_max>>
      /\ Nth' = Nth \/ (KickThreads /\ Nth' = team)
  <2>1. CASE UNCHANGED tp
    BY <2>1 DEF Nth
  <2>2. CASE KickThreads
    BY <1>1, <2>2 DEF KickThreads, Pools, Nth
  <2>3. CASE Free
    BY <1>1, <2>3 DEF Free, Pools, Nth
  <2>4. CASE SetPause(TRUE) \/ SetPause(FALSE)
    BY <1>1, <2>4 DEF SetPause, Pools, Nth
  <2>5. CASE persistent /\ \E g \in Graphs : Call(g)
    <3> DEFINE none == -1
    <3>1. tp' = [tp EXCEPT !.current_chunk = 0, !.abort = none, !.aborted = FALSE]
      BY <2>5 DEF Call
    <3> HIDE DEF none
    <3> QED
      BY <1>1, <3>1 DEF Pools, Nth
  <2> QED
    BY <2>1, <2>2, <2>3, <2>4, <2>5 DEF Return, ReturnKept, Reads, Join
<1>4. \A u \in Threads \ {0} :
          \/ pc'[u] = pc[u]
          \/ pc[u] \in WaitingPcs /\ pc'[u] \in WaitingPcs \ {"poll_seen"}
  <2>1. CASE Free \/ SetPause(TRUE) \/ SetPause(FALSE)
    <3>1. Woken(pc) \in [Threads -> Pcs]
      BY <1>1, MovedType
    <3>2. \A u \in Threads \ {0} : pc'[u] = Woken(pc)[u]
      BY <1>1, <2>1, <3>1 DEF Free, SetPause
    <3> QED
      BY <3>2, WokenWaits
  <2>2. CASE Join
    BY <1>1, <2>2 DEF Join, WaitingPcs
  <2>3. CASE \E there : Goto(0, there)
    BY <1>1, <2>3 DEF Goto
  <2> QED
    BY <2>1, <2>2, <2>3 DEF Return, ReturnKept, Reads, KickThreads, Call
<1>5. \A u \in Threads \ {0} : pc[u] = "none" => pc'[u] = "none"
  <2>1. CASE Free \/ SetPause(TRUE) \/ SetPause(FALSE)
    <3>1. Woken(pc) \in [Threads -> Pcs]
      BY <1>1, MovedType
    <3>2. \A u \in Threads \ {0} : pc'[u] = Woken(pc)[u]
      BY <1>1, <2>1, <3>1 DEF Free, SetPause
    <3> QED
      BY <3>2, WokenWaits
  <2>2. CASE Join
    BY <1>1, <2>2 DEF Join
  <2>3. CASE \E there : Goto(0, there)
    BY <1>1, <2>3 DEF Goto
  <2> QED
    BY <2>1, <2>2, <2>3 DEF Return, ReturnKept, Reads, KickThreads, Call
<1>6. /\ Return(0) => pc[0] = "return" /\ pc'[0] = "returned"
      /\ ReturnKept => pc[0] = "returned" /\ pc'[0] = "idle" /\ persistent
      /\ KickThreads => pc[0] = "kick_threads" /\ pc'[0] = "kick_graph"
      /\ Free => pool /\ pc[0] \in {"returned", "idle"} /\ pc'[0] = "joining"
      /\ Join => pc[0] = "joining" /\ pc'[0] = "idle"
      /\ SetPause(TRUE) \/ SetPause(FALSE) =>
             pc[0] = "idle" /\ pc'[0] = "idle" /\ persistent /\ pool
      /\ persistent /\ (\E g \in Graphs : Call(g)) =>
             pc[0] = "idle" /\ pc'[0] = "kick_threads" /\ pool
  <2>1. /\ Return(0) => pc[0] = "return" /\ pc'[0] = "returned"
        /\ ReturnKept => pc[0] = "returned" /\ pc'[0] = "idle" /\ persistent
        /\ KickThreads => pc[0] = "kick_threads" /\ pc'[0] = "kick_graph"
        /\ Join => pc[0] = "joining" /\ pc'[0] = "idle"
    BY <1>1 DEF Return, ReturnKept, KickThreads, Join, Reads, Goto
  <2>2. Free => pool /\ pc[0] \in {"returned", "idle"} /\ pc'[0] = "joining"
    BY <1>1, MovedType DEF Free, Pcs, CallerPcs, Woken
  <2>3. SetPause(TRUE) \/ SetPause(FALSE) =>
             pc[0] = "idle" /\ pc'[0] = "idle" /\ persistent /\ pool
    BY <1>1, WokenWaits DEF SetPause, WaitingPcs
  <2>4. persistent /\ (\E g \in Graphs : Call(g)) =>
             pc[0] = "idle" /\ pc'[0] = "kick_threads" /\ pool
    BY <1>1 DEF Call, Goto
  <2> QED
    BY <2>1, <2>2, <2>3, <2>4
<1>7. Outside' /\ (Outside \/ Meeting(0)[1] = "done")
  <2>1. CASE Return(0)
    <3>1. Place(0) = "return" /\ Started(0)
      BY <1>6, <2>1 DEF Place, Released, Started
    <3>2. Meeting(0) = Done(node[0])
      BY <3>1 DEF Meeting, From, BarrierPcs
    <3> QED
      BY <1>6, <2>1, <3>2 DEF Done, Outside, CallerPcs
  <2>2. CASE ~Return(0)
    BY <1>6, <2>2 DEF Outside, CallerPcs
  <2> QED
    BY <2>1, <2>2
<1>8. pc[0] # "idle" => pool
  BY DEF TeamInv, Sizes
<1>9. /\ team <= tp.n_threads_max /\ team \in Nat
      /\ Nth' = Nth \/ (Nth' <= Nth /\ tp.n_graph = 0)
      /\ Nth' \in {Nth, team}
  <2>1. team <= tp.n_threads_max /\ team \in Nat
    BY <1>1 DEF Minimum
  <2>2. KickThreads /\ tp.n_graph > 0 => Nth = team
    BY <1>6, <1>8 DEF TeamInv, Sizes
  <2>3. KickThreads => Nth \in {tp.n_threads_max, team}
    BY <1>6, <1>8 DEF TeamInv, Sizes
  <2> HIDE DEF team
  <2> QED
    BY <1>1, <1>3, <2>1, <2>2, <2>3
<1>10. Roles' /\ Workers' /\ Lockstep' /\ Places' /\ Rounds'
  BY <1>2, <1>3, <1>4, <1>7, <1>9, RestKeepsTeam
<1>11. Aborts'
  <2>1. CASE persistent /\ \E g \in Graphs : Call(g)
    <3> DEFINE none == -1
    <3>1. tp' = [tp EXCEPT !.current_chunk = 0, !.abort = none, !.aborted = FALSE]
      BY <2>1 DEF Call
    <3> HIDE DEF none
    <3>2. tp'.abort = none
      BY <1>1, <3>1 DEF Pools
    <3> QED
      BY <1>7, <3>2 DEF Aborts, none
  <2>2. CASE ~(persistent /\ \E g \in Graphs : Call(g))
    <3>1. UNCHANGED <<tp.abort, tp.aborted>>
      BY <1>1, <2>2 DEF Return, ReturnKept, Reads, KickThreads, Free, Join, SetPause, Pools
    <3>2. pc'[0] \in {"kick_threads", "kick_graph"} => pc[0] = "kick_threads"
      BY <1>6, <2>2
    <3>3. pc'[0] \in {"kick_threads", "kick_graph"} => tp.abort = -1
      BY <3>2 DEF TeamInv, Aborts
    <3>4. ~tp.aborted => tp.abort = -1
      BY DEF TeamInv, Aborts
    <3> QED
      BY <1>7, <3>1, <3>3, <3>4 DEF Aborts
  <2> QED
    BY <2>1, <2>2
<1>12. Sizes'
  <2>1. ~Join => pool' /\ pool
    <3>1. ~Join => pool
      BY <1>6, <1>8
    <3>2. CASE \E g \in Graphs : Call(g)
      BY <3>1, <3>2 DEF Call, Join
    <3>3. CASE Return(0) \/ ReturnKept
      BY <3>1, <3>3 DEF Return, ReturnKept, Reads
    <3>4. CASE KickThreads \/ Free \/ SetPause(TRUE) \/ SetPause(FALSE)
      BY <3>1, <3>4 DEF KickThreads, Free, SetPause
    <3> QED
      BY <3>1, <3>2, <3>3, <3>4
  <2>2. team' = team
    BY <1>2, <1>3 DEF Minimum
  <2>3. \A u \in Threads : u >= tp'.n_threads_max => pc'[u] = "none"
    <3>1. \A u \in Threads : u >= tp.n_threads_max => pc[u] = "none"
      BY DEF TeamInv, Sizes
    <3>2. tp.n_threads_max > 0
      BY Typing
    <3> QED
      BY <1>1, <1>3, <1>5, <3>1, <3>2
  <2>4. ~Join => Nth' \in {tp'.n_threads_max, team'}
    BY <1>3, <1>9, <2>1, <2>2 DEF TeamInv, Sizes
  <2>5. ~Join /\ ~KickThreads /\ tp.n_graph > 0 => Nth' = team'
    BY <1>3, <2>1, <2>2 DEF TeamInv, Sizes
  <2>6. pc'[0] = "kick_graph" => KickThreads
    BY <1>6
  <2>7. KickThreads => Nth' = team'
    <3>1. KickThreads => Nth' = team
      BY <1>1 DEF KickThreads, Pools, Nth
    <3> QED
      BY <2>2, <3>1
  <2>8. ~Join => ((pool' /\ tp'.n_graph > 0) \/ pc'[0] = "kick_graph" => Nth' = team')
    BY <1>3, <2>5, <2>6, <2>7
  <2>9. CASE ~Join
    <3>1. pc'[0] = "idle" => persistent
      BY <1>6, <2>9
    <3> HIDE DEF team
    <3>2. pc'[0] = "idle" /\ ~persistent' => ~pool'
      BY <1>2, <3>1
    <3> QED
      BY <1>7, <2>1, <2>3, <2>4, <2>8, <2>9, <3>2 DEF Sizes, team
  <2>10. CASE Join
    <3>1. ~pool'
      BY <2>10 DEF Join
    <3>2. pc'[0] = "idle"
      BY <1>6, <2>10
    <3>3. \A u \in Threads \ {0} : pc'[u] = "none"
      <4> SUFFICES ASSUME NEW u \in Threads \ {0} PROVE pc'[u] = "none"
        OBVIOUS
      <4>1. u \in Joined \/ u >= tp.n_threads_max
        BY <1>1, Typing DEF Joined
      <4>2. u \in Joined => pc'[u] = "none"
        BY <2>10 DEF Join
      <4> QED
        BY <1>3, <2>3, <4>1, <4>2
    <3> QED
      BY <1>7, <2>3, <3>1, <3>2, <3>3 DEF Sizes
  <2> QED
    BY <2>9, <2>10
<1> QED
  BY <1>10, <1>11, <1>12 DEF TeamInv

\* A new pool has a team that waits for its first graph.
LEMMA NewPoolRests ==
    ASSUME TypeOK, TypeOK', NEW n \in 1 .. MaxThreads, NEW paused \in BOOLEAN,
           NEW caller \in {"idle", "kick_threads"},
           tp' = NewPool(n, paused), pc' = Spawned(n, caller),
           \A u \in Threads : last_graph'[u] = 0,
           caller = "idle" => persistent' /\ pool',
           caller = "kick_threads" => n = plan_threads' /\ pool'
    PROVE  TeamInv'
<1>1. /\ tp'.n_graph = 0 /\ tp'.n_barrier = 0 /\ tp'.n_barrier_passed = 0
      /\ tp'.abort = -1 /\ Nth' = n /\ tp'.n_threads_max = n
  BY DEF NewPool, Nth
<1>2. n \in Nat \ {0} /\ 0 \in Threads /\ Threads \subseteq Nat /\ \A u \in 0 .. n - 1 : u \in Threads
  BY PoolAssumption DEF Threads
<1>3. pc'[0] = caller /\ \A u \in Threads \ {0} : pc'[u] = IF u < n THEN "pause_loop" ELSE "none"
  BY <1>2 DEF Spawned
<1>4. Outside' /\ \A u \in Threads : pc'[u] \in {"pause_loop", "none", "idle", "kick_threads"}
  BY <1>2, <1>3 DEF Outside, CallerPcs
<1>5. \A u \in Threads : Place(u)' = pc'[u] /\ Started(u)'
  BY <1>1, <1>4 DEF Place, Released, Started
<1>6. (TeamThreads \subseteq Threads)' /\ (0 \in TeamThreads)'
  BY <1>1, <1>2 DEF TeamThreads, Threads
<1>7. Lockstep' /\ Places' /\ Rounds'
  <2>1. \A u \in Threads : Place(u)' \in RestPlaces
    BY <1>4, <1>5 DEF RestPlaces, WaitingPcs, CallerPcs
  <2>2. \A u \in TeamThreads' : Started(u)'
    BY <1>5, <1>6
  <2>3. \A u \in Threads : pc'[u] # "bar_wait"
    BY <1>4
  <2> QED
    BY <1>1, <1>2, <1>4, <1>6, <2>1, <2>2, <2>3, RestingTeam
<1>8. Roles'
  BY <1>3 DEF Roles, CallerPcs, WaitingPcs
<1>9. Workers'
  BY <1>1, <1>3, <1>5 DEF Workers, WaitingPcs
<1>10. Aborts'
  BY <1>1, <1>4 DEF Aborts
<1>11. Sizes'
  <2>1. n \in {n, Minimum(plan_threads', n)}
    OBVIOUS
  <2>2. \A u \in Threads : u >= n => pc'[u] = "none"
    BY <1>2, <1>3
  <2>3. pc'[0] # "kick_graph"
    BY <1>3
  <2>4. tp'.n_threads_cur = n
    BY <1>1 DEF Nth
  <2> QED
    BY <1>1, <1>3, <1>4, <2>1, <2>2, <2>3 DEF Sizes
<1> QED
  BY <1>7, <1>8, <1>9, <1>10, <1>11 DEF TeamInv

\* The kickoff sends the whole team to the first node, wherever it rests.
LEMMA KickGraphKeepsTeam ==
    ASSUME TypeOK, TypeOK', TeamInv, KickGraph
    PROVE  TeamInv'
<1> USE DEF callVars, localVars, dataVars
<1>1. /\ pc \in [Threads -> Pcs] /\ tp \in Pools /\ 0 \in Threads /\ node \in [Threads -> Nat]
      /\ tp.n_graph \in Nat /\ Nth \in Nat /\ Len(graph) \in Nat
      /\ \A u \in Threads : u \in Nat /\ last_graph[u] \in Nat
      /\ Threads \subseteq Nat /\ TeamThreads \subseteq Threads /\ 0 \in TeamThreads
  BY TypeParts, Typing DEF PoolTypes, LocalTypes
<1>2. pc[0] = "kick_graph" /\ Outside
  BY DEF KickGraph, Outside, CallerPcs
<1>3. /\ \A u \in Threads : Place(u) \in RestPlaces
      /\ \A u \in TeamThreads : Started(u)
      /\ tp.n_barrier = 0
  BY <1>2, TeamRests
<1>4. /\ tp'.n_graph = tp.n_graph + 1
      /\ UNCHANGED <<tp.n_barrier, tp.n_barrier_passed, tp.abort, tp.aborted, tp.n_threads_max>>
      /\ Nth' = Nth /\ TeamThreads' = TeamThreads
  <2>1. tp' = [tp EXCEPT !.n_graph = tp.n_graph + 1, !.pause = FALSE, !.locked = FALSE]
    BY DEF KickGraph
  <2> QED
    BY <1>1, <2>1 DEF Pools, Nth, TeamThreads
<1>5. /\ pc'[0] = "node" /\ node'[0] = 0
      /\ \A u \in Threads \ {0} : pc'[u] = Woken(pc)[u]
      /\ UNCHANGED <<persistent, plan_threads, pool, graph, back, last_graph, n_passed>>
  <2>1. Woken(pc) \in [Threads -> Pcs]
    BY <1>1, MovedType
  <2> QED
    BY <1>1, <2>1 DEF KickGraph
<1>6. \A u \in Threads \ {0} :
          /\ pc'[u] = pc[u] \/ (pc[u] \in WaitingPcs /\ pc'[u] \in WaitingPcs \ {"poll_seen"})
          /\ pc'[u] = "none" <=> pc[u] = "none"
  BY <1>5, WokenWaits
<1>7. \A u \in Threads \ {0} : ~Started(u)'
  BY <1>1, <1>4, <1>5 DEF TeamInv, Workers, Started
<1>8. ASSUME NEW u \in Threads \ {0} PROVE Place(u)' \in WaitingPcs \cup {"return"}
  <2>1. CASE pc[u] \in WaitingPcs
    BY <1>6, <2>1 DEF Place, Released, WaitingPcs
  <2>2. CASE pc[u] \notin WaitingPcs
    <3>1. pc'[u] = pc[u] /\ Place(u)' = Place(u)
      BY <1>4, <1>5, <1>6, <2>2 DEF Place, Released
    <3>2. Place(u) \notin CallerPcs
      <4>1. pc[u] \notin CallerPcs /\ back[u] \in {"node", "chunk", "return"}
        BY Typing DEF TeamInv, Roles
      <4> QED
        BY <4>1 DEF Place, CallerPcs
    <3> QED
      BY <1>3, <3>1, <3>2 DEF RestPlaces
  <2> QED
    BY <2>1, <2>2
<1>9. Lockstep'
  <2>1. Started(0)' /\ Place(0)' = "node"
    BY <1>5 DEF Started, Place, Released
  <2>2. Meeting(0)' = AtNode(0)'
    BY <1>5, <2>1 DEF Meeting, From, BarrierPcs
  <2>3. \A u \in Threads \ {0} : Meeting(u)' = AtNode(0)'
    BY <1>7 DEF Meeting
  <2> QED
    BY <1>1, <1>4, <2>2, <2>3 DEF Lockstep
<1>10. Places'
  <2>1. Place(0)' = "node"
    BY <1>5 DEF Place, Released
  <2>2. WellPlaced(0)'
    BY <1>1, <1>5, <2>1 DEF WellPlaced, BarrierPcs
  <2> QED
    BY <1>7, <2>2 DEF Places
<1>11. Workers'
  <2> SUFFICES ASSUME NEW u \in Threads \ {0}
               PROVE  /\ last_graph'[u] <= tp'.n_graph
                      /\ pc'[u] \notin WaitingPcs => u < Nth' /\ tp'.n_graph > 0
                      /\ pc'[u] = "poll_seen" /\ u < Nth' => last_graph'[u] = tp'.n_graph
    BY <1>8 DEF Workers
  <2>1. last_graph[u] <= tp.n_graph /\ (pc[u] \notin WaitingPcs => u < Nth)
    BY DEF TeamInv, Workers
  <2>2. u < Nth => u \in TeamThreads
    BY <1>1 DEF TeamThreads
  <2>3. u < Nth => pc[u] # "poll_seen"
    BY <1>3, <2>2 DEF Started
  <2> QED
    BY <1>1, <1>4, <1>5, <1>6, <2>1, <2>3
<1>12. Rounds'
  <2>1. \A u \in Threads : pc'[u] \notin {"bar_add", "bar_reset", "bar_pass"}
    BY <1>5, <1>8 DEF Place, Released, WaitingPcs
  <2>2. \A u \in Threads : pc'[u] = "bar_wait" => pc[u] = "bar_wait"
    BY <1>5, <1>6 DEF WaitingPcs
  <2>3. Inside' = {} /\ Closing' = {}
    <3>1. \A u \in Threads \ {0} : pc'[u] = "bar_wait" => n_passed'[u] # tp'.n_barrier_passed
      BY <1>8 DEF Place, Released, WaitingPcs
    <3> QED
      BY <1>5, <2>1, <3>1 DEF Inside, Closing
  <2>4. Cardinality(Inside)' = 0
    BY <2>3, FS_EmptySet
  <2>5. \A u \in Threads : pc'[u] = "bar_wait" => n_passed'[u] <= tp'.n_barrier_passed
    BY <1>4, <1>5, <2>2 DEF TeamInv, Rounds
  <2>6. Nth > 0
    BY Typing
  <2> QED
    BY <1>3, <1>4, <2>1, <2>3, <2>4, <2>5, <2>6 DEF Rounds
<1>13. Aborts'
  BY <1>2, <1>4, <1>5 DEF TeamInv, Aborts
<1>14. Roles'
  <2>1. \A u \in Threads \ {0} : pc'[u] \notin CallerPcs
    BY <1>6 DEF TeamInv, Roles, WaitingPcs, CallerPcs
  <2> QED
    BY <1>5, <2>1 DEF Roles, WaitingPcs
<1>15. Sizes'
  <2> DEFINE team == Minimum(plan_threads, tp.n_threads_max)
  <2>1. pool /\ Nth = team
    BY <1>2 DEF TeamInv, Sizes
  <2>2. team' = team
    BY <1>4, <1>5 DEF Minimum
  <2>3. \A u \in Threads : u >= tp'.n_threads_max => pc'[u] = "none"
    <3>1. \A u \in Threads : u >= tp.n_threads_max => pc[u] = "none"
      BY DEF TeamInv, Sizes
    <3>2. tp.n_threads_max \in Nat \ {0}
      BY Typing
    <3>3. \A u \in Threads \ {0} : u >= tp.n_threads_max => pc'[u] = "none"
      BY <1>6, <3>1
    <3> QED
      BY <1>4, <3>2, <3>3
  <2>4. tp'.n_graph > 0
    BY <1>1, <1>4
  <2> QED
    BY <1>4, <1>5, <2>1, <2>2, <2>3, <2>4 DEF Sizes
<1> QED
  BY <1>9, <1>10, <1>11, <1>12, <1>13, <1>14, <1>15 DEF TeamInv

\* There is no pool at first.
LEMMA InitTeamInv == Init => TeamInv
<1> SUFFICES ASSUME Init PROVE TeamInv
  OBVIOUS
<1>1. /\ tp.n_graph = 0 /\ tp.n_barrier = 0 /\ tp.n_barrier_passed = 0
      /\ tp.abort = -1 /\ Nth = 1 /\ tp.n_threads_max = 1
  BY DEF Init, NewPool, Nth
<1>2. 0 \in Threads /\ Threads \subseteq Nat /\ TeamThreads = {0}
  BY <1>1, PoolAssumption DEF Threads, TeamThreads
<1>3. pc[0] = "idle" /\ \A u \in Threads \ {0} : pc[u] = "none"
  BY <1>2, PoolAssumption DEF Init, Spawned, Threads
<1>4. \A u \in Threads : last_graph[u] = 0
  BY DEF Init
<1>5. Roles
  BY <1>3 DEF Roles, WaitingPcs, CallerPcs
<1>6. Sizes
  BY <1>1, <1>2, <1>3 DEF Init, Sizes, Outside, CallerPcs
<1>7. \A u \in Threads : Place(u) = pc[u] /\ Started(u)
  BY <1>1, <1>3, <1>4 DEF Place, Released, Started
<1>8. Workers
  BY <1>1, <1>3, <1>4, <1>7 DEF Workers, WaitingPcs
<1>9. Lockstep
  BY <1>2 DEF Lockstep
<1>10. Places
  BY <1>3, <1>7 DEF Places, WellPlaced, BarrierPcs
<1>11. Aborts
  BY <1>1, <1>3 DEF Aborts, Outside, CallerPcs
<1>12. Rounds
  <2>1. Inside = {} /\ Closing = {}
    BY <1>3 DEF Inside, Closing
  <2>2. Cardinality(Inside) = 0
    BY <2>1, FS_EmptySet
  <2> QED
    BY <1>1, <1>3, <2>1, <2>2 DEF Rounds
<1> QED
  BY <1>5, <1>6, <1>8, <1>9, <1>10, <1>11, <1>12 DEF TeamInv

\* Every step of the pool keeps the team together.
LEMMA TeamInductive == TypeOK /\ TypeOK' /\ TeamInv /\ [Next]_vars => TeamInv'
<1> SUFFICES ASSUME TypeOK, TypeOK', TeamInv, [Next]_vars PROVE TeamInv'
  OBVIOUS
<1>1. 0 \in Threads
  BY Typing
<1>2. ASSUME NEW t \in Threads, ComputeThread(t) PROVE TeamInv'
  <2>1. CASE Return(t)
    BY <2>1, CallerRests, WaitingKeepsTeam
  <2> QED
    BY <1>2, <2>1, NodeStepKeepsTeam, FinishKeepsTeam, BarReadKeepsTeam, BarAddKeepsTeam,
       BarResetKeepsTeam, BarPassKeepsTeam, BarWaitKeepsTeam DEF ComputeThread, Barrier
<1>3. ASSUME NEW t \in Threads, SecondaryThread(t) \/ SpuriousWake(t) PROVE TeamInv'
  <2>1. pc[t] \in WaitingPcs
    BY <1>3 DEF SecondaryThread, PauseLoop, PauseLock, StopCheck, PollStart, Poll, PollSeen,
       SleepOrWork, SpuriousWake, Reads, WaitingPcs
  <2>2. t # 0
    BY <2>1 DEF TeamInv, Roles
  <2> QED
    BY <1>3, <2>2, WaitingKeepsTeam
<1>4. ASSUME NEW g \in Graphs, Call(g) PROVE TeamInv'
  <2>1. CASE persistent
    BY <1>4, <2>1, CallerRests
  <2>2. CASE ~persistent
    <3>1. /\ tp' = NewPool(plan_threads, FALSE)
          /\ pc' = Spawned(plan_threads, "kick_threads")
          /\ \A u \in Threads : last_graph'[u] = 0
          /\ plan_threads' = plan_threads /\ pool'
      BY <1>4, <2>2 DEF Call
    <3>2. plan_threads \in 1 .. MaxThreads
      BY Typing
    <3> QED
      BY <3>1, <3>2, NewPoolRests
  <2> QED
    BY <2>1, <2>2
<1>5. CASE New
  <2>1. PICK n \in 1 .. MaxThreads, paused \in BOOLEAN :
            tp' = NewPool(n, paused) /\ pc' = Spawned(n, "idle")
    BY <1>5 DEF New
  <2>2. (\A u \in Threads : last_graph'[u] = 0) /\ persistent' /\ pool'
    BY <1>5 DEF New
  <2> QED
    BY <2>1, <2>2, NewPoolRests
<1>6. CASE UNCHANGED vars
  <2> USE <1>6 DEF vars, callVars, localVars, dataVars
  <2>1. Roles' /\ Sizes'
    BY DEF TeamInv, Roles, Sizes, Outside, Nth
  <2>2. \A u \in Threads : /\ Place(u)' = Place(u)
                           /\ Started(u)' <=> Started(u)
                           /\ Meeting(u)' = Meeting(u)
                           /\ WellPlaced(u)' <=> WellPlaced(u)
    <3>1. \A u \in Threads : UNCHANGED Locals(u)
      BY DEF Locals
    <3> QED
      BY <3>1, ThreadKept DEF Outside
  <2>3. TeamThreads' = TeamThreads /\ TeamThreads \subseteq Threads /\ Nth' = Nth
    BY Typing DEF TeamThreads, Nth
  <2>4. Workers'
    BY <2>2, <2>3 DEF TeamInv, Workers
  <2>5. Lockstep'
    BY <1>1, <2>2, <2>3 DEF TeamInv, Lockstep
  <2>6. Places' /\ Aborts'
    BY <1>1, <2>2 DEF TeamInv, Places, Aborts, Outside
  <2>7. Rounds'
    BY DEF TeamInv, Rounds, Inside, Closing, TeamThreads, Nth
  <2> QED
    BY <2>1, <2>4, <2>5, <2>6, <2>7 DEF TeamInv
<1> QED
  BY <1>2, <1>3, <1>4, <1>5, <1>6, CallerRests, KickGraphKeepsTeam DEF Next, Caller

\* The types and the team's control, in every state.
LEMMA AlwaysTeamInv == Spec => [](TypeOK /\ TeamInv)
<1>1. Init => TypeOK /\ TeamInv
  BY InitTypeOK, InitTeamInv
<1>2. (TypeOK /\ TeamInv) /\ [Next]_vars => (TypeOK /\ TeamInv)'
  BY TypeInductive, TeamInductive
<1> QED
  BY <1>1, <1>2, PTL DEF Spec

(***************************************************************************)
(* What the runs check of the team.                                        *)
(***************************************************************************)

\* A thread leaves the graph by its last barrier only.
ReturnsBack == \A t \in Threads : pc[t] = "return" => back[t] = "return"

\* Only a barrier leads to the end of the walk, and it leads where the thread
\* was told.
LEMMA ReturnsInductive == TypeOK /\ ReturnsBack /\ [Next]_vars => ReturnsBack'
<1> USE DEF callVars, localVars, dataVars
<1> SUFFICES ASSUME TypeOK, ReturnsBack, [Next]_vars, NEW u \in Threads, pc'[u] = "return"
             PROVE  back'[u] = "return"
  BY DEF ReturnsBack
<1>1. pc \in [Threads -> Pcs] /\ back \in [Threads -> {"node", "chunk", "return"}]
  BY TypeParts DEF LocalTypes
<1>2. ASSUME back'[u] = back[u], pc[u] = "return" PROVE back'[u] = "return"
  BY <1>2 DEF ReturnsBack
<1>3. ASSUME NEW t \in Threads, NEW there, Goto(t, there), there # "return", UNCHANGED back
      PROVE  back'[u] = "return"
  BY <1>1, <1>2, <1>3 DEF Goto
<1>4. ASSUME NEW t \in Threads, NEW there, MeetThen(t, there) PROVE back'[u] = "return"
  BY <1>1, <1>2, <1>4 DEF MeetThen, Goto
<1>5. ASSUME NEW t \in Threads, ComputeThread(t) PROVE back'[u] = "return"
  <2>1. CASE NextNode(t) \/ Quantize(t) \/ Finish(t)
    BY <1>3, <1>4, <2>1 DEF NextNode, Quantize, Finish
  <2>2. CASE Chunk(t) \/ Claim(t) \/ Compute(t) \/ Return(t)
    BY <1>3, <2>2 DEF Chunk, Claim, Compute, Return, Reads
  <2>3. CASE Barrier(t)
    <3>1. /\ UNCHANGED back
          /\ \E there \in {back[t], "bar_add", "bar_reset", "bar_wait", "bar_pass"} : Goto(t, there)
      BY <2>3 DEF Barrier, BarRead, BarAdd, BarReset, BarPass, BarWait, Reads
    <3> QED
      BY <1>1, <1>2, <1>3, <3>1 DEF Goto
  <2> QED
    BY <1>5, <2>1, <2>2, <2>3 DEF ComputeThread
<1>6. ASSUME NEW t \in Threads, SecondaryThread(t) PROVE back'[u] = "return"
  BY <1>3, <1>6 DEF SecondaryThread, PauseLoop, PauseLock, StopCheck, PollStart, Poll, PollSeen,
     SleepOrWork, Reads
<1>7. \A v \in Threads : Woken(pc)[v] = "return" => pc[v] = "return"
  BY DEF Woken
<1>8. ASSUME NEW t \in Threads, SpuriousWake(t) PROVE back'[u] = "return"
  BY <1>1, <1>2, <1>7, <1>8 DEF SpuriousWake, Goto
<1>9. CASE Caller
  <2>1. UNCHANGED back
    BY <1>9 DEF Caller, Call, New, SetPause, KickThreads, KickGraph, ReturnKept, Reads, Free, Join
  <2>2. \A n \in Nat : \A caller : caller # "return" => Spawned(n, caller)[u] # "return"
    BY DEF Spawned
  <2>3. Woken(pc) \in [Threads -> Pcs]
    BY <1>1, MovedType
  <2>4. pc[u] = "return"
    <3>1. CASE \E g \in Graphs : Call(g)
      <4>1. plan_threads \in Nat
        BY Typing
      <4> QED
        BY <1>1, <2>2, <3>1, <4>1 DEF Call, Goto
    <3>2. CASE New
      BY <2>2, <3>2 DEF New
    <3>3. CASE SetPause(TRUE) \/ SetPause(FALSE) \/ KickGraph \/ Free
      BY <1>7, <2>3, <3>3 DEF SetPause, KickGraph, Free
    <3>4. CASE KickThreads \/ ReturnKept \/ Join
      BY <1>1, <3>4 DEF KickThreads, ReturnKept, Reads, Join, Goto
    <3> QED
      BY <1>9, <3>1, <3>2, <3>3, <3>4 DEF Caller
  <2> QED
    BY <1>2, <2>1, <2>4
<1>10. CASE UNCHANGED vars
  BY <1>2, <1>10 DEF vars
<1> QED
  BY <1>5, <1>6, <1>8, <1>9, <1>10 DEF Next

\* The counters of the barrier agree with the threads inside it: a thread of the
\* team waits in the round under way until all have come, so nobody is left
\* behind by ggml_barrier and nobody is counted twice.
THEOREM BarrierIsCounted == Spec => []BarrierCounts
<1>1. TypeOK /\ TeamInv => BarrierCounts
  <2> SUFFICES ASSUME TypeOK, TeamInv PROVE BarrierCounts
    OBVIOUS
  <2>1. 0 \in TeamThreads /\ Nth \in Nat /\ tp.n_barrier \in Nat
    BY Typing
  <2>2. CASE Closing = {}
    <3>1. Cardinality(Closing) = 0
      BY <2>2, FS_EmptySet
    <3>2. Cardinality(Inside) \in Nat
      BY <2>1, Counting
    <3>3. tp.n_barrier = Cardinality(Inside)
      BY <2>2 DEF TeamInv, Rounds
    <3>4. \A t \in Threads : pc[t] # "bar_pass"
      BY <2>2 DEF Closing
    <3> QED
      BY <3>1, <3>2, <3>3, <3>4 DEF BarrierCounts, Inside, Closing
  <2>3. ASSUME NEW t \in Closing PROVE BarrierCounts
    <3>1. t \in TeamThreads
      BY <2>1, <2>3, Counting
    <3>2. Inside = TeamThreads \ {t} /\ t \notin Inside
      BY <2>3 DEF TeamInv, Rounds
    <3>3. Closing = {t}
      BY <3>1, <3>2, Counting
    <3>4. Cardinality(Closing) = 1
      BY <3>3, FS_Singleton
    <3>5. Cardinality(Inside) = Nth - 1
      BY <3>1, <3>2, Counting
    <3>6. tp.n_barrier = IF pc[t] = "bar_reset" THEN Nth ELSE 0
      BY DEF TeamInv, Rounds
    <3>7. pc[t] \in {"bar_reset", "bar_pass"} /\ t \in Threads
      BY DEF Closing
    <3>8. CASE pc[t] = "bar_reset"
      <4>1. \A u \in Threads : pc[u] # "bar_pass"
        BY <3>3, <3>8 DEF Closing
      <4> QED
        BY <2>1, <3>4, <3>5, <3>6, <3>8, <4>1 DEF BarrierCounts, Inside, Closing
    <3>9. CASE pc[t] = "bar_pass"
      <4>1. tp.n_barrier = 0
        BY <3>6, <3>9
      <4> QED
        BY <3>4, <3>7, <3>9, <4>1 DEF BarrierCounts, Inside, Closing
    <3> QED
      BY <3>7, <3>8, <3>9
  <2> QED
    BY <2>2, <2>3
<1> QED
  BY <1>1, AlwaysTeamInv, PTL

\* When the caller prepares a graph or has finished one, no worker touches what
\* the caller writes: it waits, or is on its way out of the last barrier.
THEOREM WorkersAreAway == Spec => []NoStrayWorker
<1>1. TypeOK /\ TeamInv /\ ReturnsBack => NoStrayWorker
  <2> SUFFICES ASSUME TypeOK, TeamInv, ReturnsBack, Outside, NEW t \in Threads \ {0}
               PROVE  \/ pc[t] \in WaitingPcs \ {"poll_seen"}
                      \/ (pc[t] = "poll_seen" /\ t >= Nth)
                      \/ (pc[t] \in BarrierPcs \cup {"return"} /\ back[t] = "return")
    BY DEF NoStrayWorker, Outside
  <2>1. Place(t) \in RestPlaces
    BY TeamRests
  <2>2. pc[t] \notin CallerPcs /\ back[t] \in {"node", "chunk", "return"}
    BY Typing DEF TeamInv, Roles
  <2>3. CASE Released(t)
    BY <2>1, <2>2, <2>3 DEF Place, Released, RestPlaces, WaitingPcs, CallerPcs, BarrierPcs
  <2>4. CASE ~Released(t) /\ pc[t] = "return"
    BY <2>4 DEF ReturnsBack
  <2>5. CASE ~Released(t) /\ pc[t] = "poll_seen"
    <3>1. t \notin TeamThreads
      BY <2>5, TeamRests DEF Started
    <3>2. t \in Nat /\ Nth \in Nat
      BY Typing
    <3> QED
      BY <2>5, <3>1, <3>2 DEF TeamThreads
  <2> QED
    BY <2>1, <2>2, <2>3, <2>4, <2>5 DEF Place, RestPlaces
<1>2. Init => ReturnsBack
  BY DEF Init, ReturnsBack
<1>3. Spec => []ReturnsBack
  BY <1>2, ReturnsInductive, TypeCorrect, PTL DEF Spec
<1> QED
  BY <1>1, <1>3, AlwaysTeamInv, PTL

\* ggml_threadpool_free joins every thread it started before it frees the pool,
\* and the caller of a disposable pool never returns with one.
THEOREM FreedAfterJoin == Spec => []PoolOutlivesThreads
<1>1. TeamInv => PoolOutlivesThreads
  BY DEF TeamInv, Sizes, PoolOutlivesThreads
<1> QED
  BY <1>1, AlwaysTeamInv, PTL

(***************************************************************************)
(* The walk implements NodeByNode.                                         *)
(***************************************************************************)

Limit == IF ~Running THEN 0 ELSE IF tp.abort = -1 THEN Len(graph) ELSE tp.abort
Share(t) == IF Begun(t) THEN node[t] ELSE 0
Shares == [t \in Team |-> Share(t)]
Kicking == pc[0] \in {"kick_threads", "kick_graph"}

\* The team of a call is made of threads the pool may have, the caller among them.
LEMMA TeamFits ==
    ASSUME TypeOK
    PROVE  Team \subseteq Threads /\ (Running => 0 \in Team)
<1> DEFINE team == Minimum(plan_threads, tp.n_threads_max)
<1>1. plan_threads \in 1 .. MaxThreads /\ tp.n_threads_max \in 1 .. MaxThreads
  BY Typing
<1>2. MaxThreads \in Nat
  BY PoolAssumption
<1>3. team \in 1 .. MaxThreads
  BY <1>1, <1>2 DEF Minimum
<1> HIDE DEF team
<1>4. 0 .. team - 1 \subseteq Threads /\ 0 \in 0 .. team - 1
  BY <1>2, <1>3 DEF Threads
<1> QED
  BY <1>4 DEF Team, team

\* Inside a graph, the team of the call is the team of the pool.
LEMMA RunningTeam ==
    ASSUME TypeOK, TeamInv
    PROVE  /\ ~Outside => Running /\ ~Kicking /\ Team = TeamThreads
           /\ Kicking => Running /\ Limit = Len(graph)
           /\ Running /\ ~Kicking => ~Outside
           /\ ~Running => Team = {} /\ Limit = 0 /\ Outside
           /\ \A t \in Threads : Begun(t) <=> ~Kicking /\ Started(t)
<1>1. ~Outside => Running /\ ~Kicking
  BY DEF Outside, Running, Kicking, CallerPcs
<1>2. ~Outside => Nth = Minimum(plan_threads, tp.n_threads_max)
  BY DEF TeamInv, Sizes, Outside, CallerPcs
<1>3. Kicking => Running /\ tp.abort = -1
  BY DEF Kicking, Running, TeamInv, Aborts
<1>4. Running /\ ~Kicking => ~Outside
  BY DEF Outside, Running, Kicking, CallerPcs
<1>5. ~Running => Outside
  BY DEF Outside, Running, CallerPcs
<1>6. \A t \in Threads : Begun(t) <=> ~Kicking /\ Started(t)
  BY DEF Begun, Kicking, Started
<1> QED
  BY <1>1, <1>2, <1>3, <1>4, <1>5, <1>6 DEF Team, TeamThreads, Limit

\* A thread's next meeting tells how far it has come, and the abort how far it
\* may go.
LEMMA MeetingShares ==
    ASSUME TypeOK, TeamInv, ~Outside, NEW t \in TeamThreads
    PROVE  /\ Meeting(0)[2] \in {Share(t), Share(t) + 1}
           /\ tp.abort # -1 => Limit = Meeting(0)[2]
<1>1. Meeting(0) = Meeting(t) /\ t \in Threads
  BY Typing DEF TeamInv, Lockstep
<1>2. Share(t) = IF Started(t) THEN node[t] ELSE 0
  BY <1>1, RunningTeam DEF Share
<1>3. \A n \in Nat : AtNode(n)[2] \in {n, n + 1} /\ AfterNode(n)[2] = n + 1
  BY DEF AtNode, AfterNode
<1>4. node[t] \in Nat
  BY <1>1, Typing
<1>5. Meeting(t)[2] \in {Share(t), Share(t) + 1}
  BY <1>2, <1>3, <1>4 DEF Meeting, From, Done
<1>6. tp.abort # -1 => Meeting(0)[2] = tp.abort
  BY DEF TeamInv, Aborts
<1> QED
  BY <1>1, <1>5, <1>6, RunningTeam DEF Limit

\* What the abstract walk sees of a step that leaves every share and the call.
LEMMA SharesKept ==
    ASSUME Team' = Team, Limit' = Limit, \A t \in Team : Share(t)' = Share(t)
    PROVE  UNCHANGED Abstract!vars
<1>1. Shares' = Shares
  BY DEF Shares
<1> QED
  BY <1>1 DEF Abstract!vars, Shares, Share, Limit

\* A step of a thread inside a graph that does not end its node leaves every share.
LEMMA ComputeShares ==
    ASSUME TypeOK, TypeOK', TeamInv, TeamInv', NEW t \in Threads,
           \/ NextNode(t) \/ Quantize(t) \/ Chunk(t) \/ Claim(t) \/ Compute(t) \/ Barrier(t)
           \/ t # 0 /\ Return(t)
    PROVE  UNCHANGED Abstract!vars
<1> USE DEF callVars, localVars, dataVars
<1>1. /\ UNCHANGED <<callVars, node, last_graph, tp.n_graph, tp.abort, tp.n_threads_max>>
      /\ \E there \in Pcs : Goto(t, there)
  <2>1. CASE Barrier(t)
    <3>1. UNCHANGED <<callVars, node, last_graph, tp.n_graph, tp.abort, tp.n_threads_max>>
      <4>1. tp \in Pools
        BY TypeParts DEF PoolTypes
      <4> QED
        BY <2>1, <4>1 DEF Barrier, BarRead, BarAdd, BarReset, BarPass, BarWait, Reads, Pools
    <3>2. \E there \in Pcs : Goto(t, there)
      <4>1. back[t] \in Pcs
        BY Typing DEF Pcs, NodePcs
      <4>2. {"bar_add", "bar_reset", "bar_wait", "bar_pass"} \subseteq Pcs
        BY DEF Pcs, BarrierPcs
      <4> QED
        BY <2>1, <4>1, <4>2 DEF Barrier, BarRead, BarAdd, BarReset, BarPass, BarWait, Reads
    <3> QED
      BY <3>1, <3>2
  <2>2. CASE Return(t)
    BY <2>2 DEF Return, Reads, Pcs, WaitingPcs, CallerPcs
  <2>3. CASE NextNode(t) \/ Quantize(t) \/ Chunk(t) \/ Claim(t) \/ Compute(t)
    <3>1. UNCHANGED <<callVars, node, last_graph, tp.n_graph, tp.abort, tp.n_threads_max>>
      BY <2>3, NodeStepMoves DEF MovesAlone
    <3>2. \E there \in Pcs : Goto(t, there)
      BY <2>3 DEF NextNode, Quantize, Chunk, Claim, Compute, MeetThen, Pcs, NodePcs, BarrierPcs
    <3> QED
      BY <3>1, <3>2
  <2> QED
    BY <2>1, <2>2, <2>3
<1>2. pc \in [Threads -> Pcs] /\ 0 \in Threads
  BY TypeParts, Typing
<1>3. /\ pc[t] \in NodePcs \cup BarrierPcs
      /\ pc'[t] \in NodePcs \cup BarrierPcs \cup {"pause_loop"}
      /\ t = 0 => pc'[t] # "pause_loop"
  <2>1. back[t] \in NodePcs
    BY Typing DEF NodePcs
  <2>2. CASE NextNode(t) \/ Quantize(t) \/ Chunk(t) \/ Claim(t) \/ Compute(t)
    BY <1>2, <2>2, NodeStepMoves DEF BarrierPcs, NodePcs
  <2>3. CASE t # 0 /\ Return(t)
    BY <1>2, <2>3 DEF Return, Reads, Goto, NodePcs
  <2>4. CASE Barrier(t)
    BY <1>2, <2>1, <2>4 DEF Barrier, BarRead, BarAdd, BarReset, BarPass, BarWait, Reads, Goto,
       BarrierPcs, NodePcs
  <2> QED
    BY <2>2, <2>3, <2>4
<1>4. /\ Running' <=> Running
      /\ pc'[0] \in {"kick_threads", "kick_graph"} <=> pc[0] \in {"kick_threads", "kick_graph"}
  <2>1. CASE t = 0
    BY <1>2, <1>3, <2>1 DEF Running, NodePcs, BarrierPcs
  <2>2. CASE t # 0
    BY <1>1, <1>2, <2>2 DEF Running, Goto
  <2> QED
    BY <2>1, <2>2
<1>5. Team' = Team /\ Limit' = Limit
  BY <1>1, <1>4 DEF Team, Limit
<1>6. \A u \in Threads : pc'[u] = "poll_seen" <=> pc[u] = "poll_seen"
  BY <1>1, <1>2, <1>3 DEF Goto, NodePcs, BarrierPcs
<1>7. \A u \in Threads : Share(u)' = Share(u)
  BY <1>1, <1>4, <1>6 DEF Share, Begun
<1>8. Team \subseteq Threads
  BY TeamFits
<1> QED
  BY <1>5, <1>7, <1>8, SharesKept

\* A worker outside a graph has no share yet, and begins with none.
LEMMA WaitingShares ==
    ASSUME TypeOK, TeamInv, NEW t \in Threads, SecondaryThread(t) \/ SpuriousWake(t)
    PROVE  UNCHANGED Abstract!vars
<1> USE DEF callVars, localVars, dataVars
<1>1. /\ UNCHANGED <<callVars, tp>>
      /\ \E there : Goto(t, there)
      /\ node' = node \/ node' = [node EXCEPT ![t] = 0]
      /\ last_graph' = last_graph \/ last_graph' = [last_graph EXCEPT ![t] = tp.n_graph]
      /\ pc[t] \in WaitingPcs
  BY DEF SecondaryThread, PauseLoop, PauseLock, StopCheck, PollStart, Poll, PollSeen,
     SleepOrWork, Reads, SpuriousWake, WaitingPcs
<1>2. /\ pc \in [Threads -> Pcs] /\ node \in [Threads -> Nat] /\ last_graph \in [Threads -> Nat]
      /\ 0 \in Threads
  BY TypeParts, Typing DEF LocalTypes
<1>3. t # 0 /\ pc'[0] = pc[0]
  BY <1>1, <1>2 DEF TeamInv, Roles, Goto
<1>4. Team' = Team /\ Limit' = Limit /\ (Kicking' <=> Kicking)
  BY <1>1, <1>3 DEF Team, Limit, Running, Kicking
<1>5. \A u \in Threads \ {t} : Share(u)' = Share(u)
  BY <1>1, <1>2, <1>3 DEF Share, Begun, Goto
<1>6. ASSUME t \in Team PROVE Share(t)' = Share(t)
  <2>1. CASE Kicking
    BY <1>4, <2>1 DEF Share, Begun, Kicking
  <2>2. CASE ~Kicking
    <3>1. t \in TeamThreads
      BY <1>6, <2>2, RunningTeam
    <3>2. WorkerMoves(t) /\ MovesAlone(t)
      BY <1>3, WaitingMoves
    <3>3. CASE node'[t] = node[t] /\ (Started(t)' <=> Started(t))
      BY <1>4, <2>2, <3>3 DEF Share, Begun, Kicking, Started
    <3>4. CASE ~Started(t) /\ node'[t] = 0
      BY <1>4, <2>2, <3>4 DEF Share, Begun, Kicking, Started
    <3>5. CASE ~Started(t) /\ ~Started(t)'
      BY <1>4, <2>2, <3>5 DEF Share, Begun, Kicking, Started
    <3>6. \/ node'[t] = node[t] /\ (Started(t)' <=> Started(t))
          \/ ~Started(t) /\ node'[t] = 0
          \/ ~Started(t) /\ ~Started(t)'
      <4>1. CASE SpuriousWake(t)
        <5>1. UNCHANGED <<node, last_graph>> /\ pc[t] # "poll_seen" /\ pc'[t] # "poll_seen"
          BY <1>2, <4>1 DEF SpuriousWake, Goto, Woken
        <5> QED
          BY <1>1, <5>1 DEF Started
      <4>2. CASE PauseLoop(t) \/ PauseLock(t) \/ StopCheck(t) \/ PollStart(t)
        <5>1. UNCHANGED <<node, last_graph>> /\ pc[t] # "poll_seen" /\ pc'[t] # "poll_seen"
          BY <1>2, <4>2 DEF PauseLoop, PauseLock, StopCheck, PollStart, Reads, Goto
        <5> QED
          BY <1>1, <5>1 DEF Started
      <4>3. CASE Poll(t)
        <5>1. CASE last_graph' = last_graph
          <6>1. UNCHANGED node /\ pc[t] = "poll"
                /\ (pc'[t] = "poll_seen" => last_graph[t] # tp.n_graph)
            BY <1>2, <4>3 DEF Poll, Goto
          <6> QED
            BY <1>1, <1>3, <5>1, <6>1 DEF Started
        <5>2. CASE last_graph' # last_graph
          <6>1. last_graph[t] # tp.n_graph /\ pc'[t] = "poll_seen"
            BY <1>2, <4>3, <5>2 DEF Poll, Goto
          <6> QED
            BY <1>3, <6>1 DEF Started
        <5> QED
          BY <5>1, <5>2
      <4>4. CASE PollSeen(t)
        BY <1>2, <1>3, <4>4 DEF PollSeen, Started
      <4>5. CASE SleepOrWork(t)
        <5>1. /\ pc[t] = "lock"
              /\ pc'[t] \in {"pause_loop", "node", "work_sleep"}
          BY <1>2, <4>5 DEF SleepOrWork, Goto
        <5>2. CASE last_graph[t] = tp.n_graph \/ tp.stop \/ tp.pause
          <6>1. last_graph' = last_graph /\ node' = node
            BY <1>2, <4>5, <5>2 DEF SleepOrWork
          <6> QED
            BY <1>1, <5>1, <6>1 DEF Started
        <5>3. CASE last_graph[t] # tp.n_graph /\ ~(tp.stop \/ tp.pause)
          <6>1. t < Nth
            BY <3>1, Typing DEF TeamThreads
          <6>2. node'[t] = 0 /\ ~Started(t)
            BY <1>2, <1>3, <4>5, <5>3, <6>1 DEF SleepOrWork, Started
          <6> QED
            BY <6>2
        <5> QED
          BY <5>2, <5>3
      <4> QED
        BY <4>1, <4>2, <4>3, <4>4, <4>5 DEF SecondaryThread
    <3> QED
      BY <3>3, <3>4, <3>5, <3>6
  <2> QED
    BY <2>1, <2>2
<1>7. Team \subseteq Threads
  BY TeamFits
<1> QED
  BY <1>4, <1>5, <1>6, <1>7, SharesKept

\* The end of a node is a share of the abstract walk: no thread of the team has
\* fewer, there is still one to do, and an abort makes it the last.
LEMMA FinishRefines ==
    ASSUME TypeOK, TeamInv, NEW t \in Threads, Finish(t)
    PROVE  t \in Team /\ Abstract!Share(t)
<1>1. /\ MovesAlone(t) /\ UNCHANGED last_graph
      /\ pc[t] = "finish" /\ pc'[t] \in {"node", "bar_read"}
      /\ node[t] < Len(graph) /\ node'[t] = node[t] + 1
      /\ Meeting(t) = AfterNode(node[t])
      /\ \/ UNCHANGED <<tp.abort, tp.aborted>>
         \/ t = 0 /\ tp'.abort = node[t] + 1
  BY FinishMoves
<1>2. Place(t) = "finish"
  BY <1>1 DEF Place, Released
<1>3. t \in TeamThreads /\ Started(t)
  BY <1>2, ComputingStarted DEF NodePcs
<1>4. ~Outside
  BY <1>2, TeamRests DEF RestPlaces, WaitingPcs, CallerPcs
<1>5. Running /\ ~Kicking /\ Team = TeamThreads
  BY <1>4, RunningTeam
<1>6. Running' /\ ~Kicking'
  BY <1>1, <1>4 DEF MovesAlone, Outside, Running, Kicking, CallerPcs
<1>7. /\ UNCHANGED <<plan_threads, graph, tp.n_threads_max, tp.n_graph>>
      /\ \A u \in Threads \ {t} : pc'[u] = pc[u] /\ node'[u] = node[u]
  BY <1>1 DEF MovesAlone, callVars, Locals
<1>8. Team' = Team /\ Team \subseteq Threads
  BY <1>5, <1>6, <1>7, TeamFits DEF Team
<1>9. /\ node[t] \in Nat /\ tp.abort \in Int /\ Len(graph) \in Nat
      /\ \A u \in Threads : node[u] \in Nat
  BY Typing
<1>10. \A u \in Threads : Share(u) \in Nat
  BY <1>9 DEF Share
<1>11. Share(t) = node[t] /\ Share(t)' = node[t] + 1
  <2>1. Begun(t)
    BY <1>3, <1>5, RunningTeam
  <2>2. Begun(t)'
    BY <1>1, <1>3, <1>6, <1>7 DEF Begun, Kicking, Started
  <2> QED
    BY <1>1, <2>1, <2>2 DEF Share
<1>12. \A u \in Threads \ {t} : Share(u)' = Share(u)
  BY <1>1, <1>5, <1>6, <1>7 DEF Share, Begun, Kicking
<1>13. Meeting(0)[2] = node[t] + 1
  BY <1>1, <1>3 DEF TeamInv, Lockstep, AfterNode
<1>14. Share(t) < Limit
  <2>1. tp.abort # -1 => Limit = node[t] + 1
    BY <1>3, <1>4, <1>13, MeetingShares
  <2>2. tp.abort = -1 => Limit = Len(graph)
    BY <1>5 DEF Limit
  <2> QED
    BY <1>1, <1>9, <1>11, <2>1, <2>2
<1>15. \A u \in Team : Share(u) >= Share(t)
  <2> SUFFICES ASSUME NEW u \in Team PROVE Share(u) >= Share(t)
    OBVIOUS
  <2>1. node[t] + 1 \in {Share(u), Share(u) + 1}
    BY <1>4, <1>5, <1>13, MeetingShares
  <2> QED
    BY <1>8, <1>9, <1>10, <1>11, <2>1
<1>16. Shares' = [Shares EXCEPT ![t] = @ + 1]
  BY <1>3, <1>5, <1>8, <1>11, <1>12 DEF Shares
<1>17. Limit' \in {Limit} \cup (IF t = 0 THEN {Shares[t] + 1} ELSE {})
  <2>1. CASE UNCHANGED tp.abort
    BY <1>5, <1>6, <1>7, <2>1 DEF Limit
  <2>2. CASE t = 0 /\ tp'.abort = node[t] + 1
    <3>1. Limit' = node[t] + 1
      BY <1>6, <1>9, <2>2 DEF Limit
    <3>2. Shares[t] = node[t]
      BY <1>3, <1>5, <1>11 DEF Shares
    <3> QED
      BY <2>2, <3>1, <3>2
  <2> QED
    BY <1>1, <2>1, <2>2
<1>18. Shares[t] < Limit /\ \A u \in Team : Shares[u] >= Shares[t]
  BY <1>3, <1>5, <1>14, <1>15 DEF Shares
<1>19. t \in Team
  BY <1>3, <1>5
<1> HIDE DEF Shares, Limit
<1> QED
  BY <1>8, <1>16, <1>17, <1>18, <1>19 DEF Abstract!Share, Shares, Share, Limit

\* The caller returns when the whole team has done the last share.
LEMMA ReturnRefines ==
    ASSUME TypeOK, TeamInv, Return(0)
    PROVE  Abstract!Finish
<1>1. pc[0] = "return" /\ pc'[0] = "returned"
  <2>1. pc \in [Threads -> Pcs] /\ 0 \in Threads
    BY TypeParts, Typing
  <2> QED
    BY <2>1 DEF Return, Reads, Goto
<1>2. ~Outside
  BY <1>1 DEF Outside, CallerPcs
<1>3. Running /\ ~Kicking /\ Team = TeamThreads
  BY <1>2, RunningTeam
<1>4. Place(0) = "return" /\ Started(0)
  BY <1>1 DEF Place, Released, Started
<1>5. Meeting(0) = <<"done", node[0]>>
  BY <1>2, <1>4 DEF Meeting, From, BarrierPcs, Done
<1>6. 0 \in Threads /\ TeamThreads \subseteq Threads /\ 0 \in TeamThreads /\ node[0] \in Nat
  BY Typing
<1>7. Limit = node[0]
  <2>1. tp.abort # -1 => Limit = node[0]
    BY <1>2, <1>5, <1>6, MeetingShares
  <2>2. node[0] = Len(graph) \/ tp.abort = node[0]
    BY <1>2, <1>4, <1>6 DEF TeamInv, Places, WellPlaced
  <2> QED
    BY <1>3, <1>6, <2>1, <2>2 DEF Limit
<1>8. ASSUME NEW u \in Team PROVE Share(u) = node[0]
  <2>1. Meeting(u) = <<"done", node[0]>>
    BY <1>3, <1>5, <1>8 DEF TeamInv, Lockstep
  <2>2. Started(u) /\ Meeting(u) = Done(node[u])
    BY <1>3, <1>6, <1>8, <2>1, DoneMeans
  <2>3. node[u] = node[0]
    BY <1>2, <2>1, <2>2 DEF Done
  <2> QED
    BY <1>3, <1>6, <1>8, <2>2, <2>3, RunningTeam DEF Share
<1>9. ~Running'
  BY <1>1 DEF Running
<1>10. Team' = {} /\ Limit' = 0 /\ Shares' = [u \in {} |-> 0]
  BY <1>9 DEF Team, Limit, Shares
<1>11. \A u \in Team : Shares[u] = Limit
  BY <1>7, <1>8 DEF Shares
<1>12. Team # {}
  BY <1>3, <1>6
<1> QED
  BY <1>10, <1>11, <1>12 DEF Abstract!Finish, Shares, Share, Limit

\* A call starts the walk; the other steps of the caller are outside it.
LEMMA CallerRefines ==
    ASSUME TypeOK, TypeOK', TeamInv, TeamInv', Caller
    PROVE  Abstract!Start \/ UNCHANGED Abstract!vars
<1> USE DEF callVars, localVars, dataVars
<1>1. pc \in [Threads -> Pcs] /\ tp \in Pools /\ 0 \in Threads /\ node \in [Threads -> Nat]
  BY TypeParts, Typing DEF PoolTypes, LocalTypes
<1>2. ASSUME NEW g \in Graphs, Call(g) PROVE Abstract!Start
  <2>1. pc[0] = "idle" /\ pc'[0] = "kick_threads" /\ graph' = g
    <3>1. plan_threads \in Nat
      BY Typing
    <3> QED
      BY <1>1, <1>2, <3>1 DEF Call, Goto, Spawned
  <2>2. ~Running /\ Running' /\ Kicking'
    BY <2>1 DEF Running, Kicking
  <2>3. Team = {}
    BY <2>2 DEF Team
  <2>4. Team' \subseteq Threads /\ 0 \in Team'
    <3> DEFINE team == Minimum(plan_threads, tp.n_threads_max)'
    <3>1. (plan_threads \in 1 .. MaxThreads /\ tp.n_threads_max \in 1 .. MaxThreads)'
      BY DEF TypeOK
    <3>2. MaxThreads \in Nat
      BY PoolAssumption
    <3>3. team \in 1 .. MaxThreads
      BY <3>1, <3>2 DEF Minimum
    <3>4. Team' = 0 .. team - 1
      BY <2>2 DEF Team
    <3> HIDE DEF team
    <3> QED
      BY <3>2, <3>3, <3>4 DEF Threads
  <2>5. Limit' = Len(g)
    <3>1. tp'.abort = -1
      BY <2>1 DEF TeamInv, Aborts
    <3> QED
      BY <2>1, <2>2, <3>1 DEF Limit
  <2>6. Shares' = [u \in Team' |-> 0]
    BY <2>2 DEF Shares, Share, Begun, Kicking
  <2>7. Len(g) \in {Len(h) : h \in Graphs}
    OBVIOUS
  <2>8. Team' \in (SUBSET Threads) \ {{}}
    BY <2>4
  <2> QED
    BY <2>3, <2>5, <2>6, <2>7, <2>8 DEF Abstract!Start, Shares, Share, Limit
<1>3. CASE KickThreads
  <2>1. pc[0] = "kick_threads" /\ pc'[0] = "kick_graph"
    BY <1>1, <1>3 DEF KickThreads, Goto
  <2>2. UNCHANGED <<plan_threads, graph, tp.n_threads_max, tp.abort>>
    BY <1>1, <1>3 DEF KickThreads, Pools
  <2>3. Team' = Team /\ Limit' = Limit
    BY <2>1, <2>2 DEF Team, Limit, Running
  <2>4. \A u \in Team : Share(u)' = Share(u)
    BY <2>1 DEF Share, Begun
  <2> QED
    BY <2>3, <2>4, SharesKept
<1>4. CASE KickGraph
  <2>1. Woken(pc) \in [Threads -> Pcs]
    BY <1>1, MovedType
  <2>2. pc[0] = "kick_graph" /\ pc'[0] = "node" /\ node'[0] = 0 /\ UNCHANGED last_graph
    BY <1>1, <1>4, <2>1 DEF KickGraph
  <2>3. UNCHANGED <<plan_threads, graph, tp.n_threads_max, tp.abort>>
        /\ tp'.n_graph = tp.n_graph + 1
    <3>1. tp' = [tp EXCEPT !.n_graph = tp.n_graph + 1, !.pause = FALSE, !.locked = FALSE]
      BY <1>4 DEF KickGraph
    <3> QED
      BY <1>1, <1>4, <3>1 DEF KickGraph, Pools
  <2>4. Team' = Team /\ Limit' = Limit
    BY <2>2, <2>3 DEF Team, Limit, Running
  <2>5. \A u \in Threads \ {0} : ~Begun(u)'
    <3>1. \A u \in Threads \ {0} : last_graph[u] <= tp.n_graph /\ last_graph[u] \in Nat
      BY Typing DEF TeamInv, Workers
    <3>2. tp.n_graph \in Nat
      BY Typing
    <3> QED
      BY <2>2, <2>3, <3>1, <3>2 DEF Begun
  <2>6. \A u \in Threads : Share(u) = 0 /\ Share(u)' = 0
    BY <2>2, <2>5 DEF Share, Begun
  <2> QED
    BY <2>4, <2>6, TeamFits, SharesKept
<1>5. CASE New \/ SetPause(TRUE) \/ SetPause(FALSE) \/ ReturnKept \/ Free \/ Join
  <2>1. Woken(pc) \in [Threads -> Pcs] /\ \A u \in Threads : pc[u] \notin WaitingPcs => Woken(pc)[u] = pc[u]
    BY <1>1, MovedType, WokenWaits
  <2>2. pc[0] \in {"idle", "returned", "joining"}
    BY <1>5 DEF New, SetPause, ReturnKept, Free, Join, Reads
  <2>3. pc'[0] \in {"idle", "returned", "joining"}
    <3>1. CASE New
      BY <1>1, <3>1 DEF New, Spawned
    <3>2. CASE SetPause(TRUE) \/ SetPause(FALSE) \/ Free
      BY <1>1, <2>1, <2>2, <3>2 DEF SetPause, Free, WaitingPcs
    <3>3. CASE ReturnKept \/ Join
      BY <1>1, <3>3 DEF ReturnKept, Join, Reads, Goto
    <3> QED
      BY <1>5, <3>1, <3>2, <3>3
  <2>4. ~Running /\ ~Running'
    BY <2>2, <2>3 DEF Running
  <2>5. Team = {} /\ Team' = {} /\ Limit = 0 /\ Limit' = 0
    BY <2>4 DEF Team, Limit
  <2> QED
    BY <2>5, SharesKept
<1> QED
  BY <1>2, <1>3, <1>4, <1>5 DEF Caller

\* Every step of the pool is a step of the abstract walk or none.
LEMMA StepRefines ==
    ASSUME TypeOK, TypeOK', TeamInv, TeamInv', [Next]_vars
    PROVE  [Abstract!Next]_(Abstract!vars)
<1>1. CASE UNCHANGED vars
  <2>1. Team' = Team /\ Limit' = Limit /\ \A u \in Team : Share(u)' = Share(u)
    BY <1>1 DEF vars, callVars, localVars, Team, Limit, Running, Share, Begun
  <2> QED
    BY <2>1, SharesKept
<1>2. ASSUME NEW t \in Threads, ComputeThread(t) PROVE [Abstract!Next]_(Abstract!vars)
  <2>1. CASE Finish(t)
    BY <2>1, FinishRefines DEF Abstract!Next
  <2>2. CASE Return(t) /\ t = 0
    BY <2>2, ReturnRefines DEF Abstract!Next
  <2>3. CASE ~Finish(t) /\ ~(Return(t) /\ t = 0)
    BY <1>2, <2>3, ComputeShares DEF ComputeThread
  <2> QED
    BY <2>1, <2>2, <2>3
<1>3. CASE Caller
  BY <1>3, CallerRefines DEF Abstract!Next
<1> QED
  BY <1>1, <1>2, <1>3, WaitingShares DEF Next

\* The spinning barrier implements the walk node by node: nobody starts a node
\* before the whole team has done the one before, an abort stops all after the
\* same node, and the call returns when all shares are done.
THEOREM RefinesNodeByNode == Spec => ImplementsNodeByNode
<1>1. Init => Abstract!Init
  <2> SUFFICES ASSUME Init PROVE Abstract!Init
    OBVIOUS
  <2>1. pc[0] = "idle"
    BY PoolAssumption DEF Init, Spawned, Threads
  <2>2. ~Running
    BY <2>1 DEF Running
  <2>3. Team = {}
    BY <2>2 DEF Team
  <2> QED
    BY <2>2, <2>3 DEF Abstract!Init
<1>2. (TypeOK /\ TeamInv) /\ (TypeOK /\ TeamInv)' /\ [Next]_vars => [Abstract!Next]_(Abstract!vars)
  BY StepRefines
<1> QED
  BY AlwaysTeamInv, <1>1, <1>2, PTL DEF Spec, ImplementsNodeByNode, Abstract!Spec
===============================================================================
