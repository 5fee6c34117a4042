----------------------------- MODULE GgmlThreadpool -----------------------------
(***************************************************************************)
(* ggml-cpu.c: the threads that compute a ggml graph for llama.cpp.  The   *)
(* caller is thread 0; secondary threads poll for a new graph, then sleep  *)
(* on a condition variable.  All walk the nodes of the graph together,     *)
(* meeting in a barrier made of two atomic counters; a matrix product is   *)
(* shared out chunk by chunk through a third.  The app passes no pool, so  *)
(* each graph creates one and frees it; a pool made by ggml_threadpool_new *)
(* lives across graphs and can be paused.                                  *)
(*                                                                         *)
(* Atomic operations are sequentially consistent here; a section under the *)
(* mutex is one step unless threads outside the mutex can see its middle.  *)
(***************************************************************************)
EXTENDS Integers, Sequences, FiniteSets

CONSTANTS
    MaxThreads,     \* bound on the threads of a pool
    Graphs,         \* graphs to compute: sequences of nodes
    MaxComputes,    \* bound on the calls of ggml_graph_compute
    ChunkSize,      \* rows and columns of a chunk of a matrix product (16)
    ThinChunkSize   \* the same when one dimension of the result is 1 (64)

ASSUME PoolAssumption ==
    /\ MaxThreads \in Nat \ {0}
    /\ MaxComputes \in Nat
    /\ ChunkSize \in Nat \ {0} /\ ThinChunkSize \in Nat \ {0}
    /\ Graphs \subseteq
           Seq([nr0 : Nat \ {0}, nr1 : Nat \ {0}, op : {"mul_mat", "rms_norm"}])

VARIABLES
    persistent,     \* the caller passes a pool of its own
    plan_threads,   \* cplan->n_threads
    pool,           \* a pool exists
    tp,             \* struct ggml_threadpool
    graph,          \* tp->cgraph
    pc,             \* where each thread is
    back,           \* where the barrier a thread is in returns to
    node,           \* node_n of each thread
    last_graph,     \* ggml_compute_state.last_graph
    n_passed,       \* local of ggml_barrier
    chunk,          \* current_chunk of each thread in a matrix product
    quantized,      \* the node whose src1 each thread last wrote to wdata
    written,        \* per node: the elements of its result computed so far
    doubled,        \* history: some element was computed twice
    computes        \* calls of ggml_graph_compute

callVars == <<persistent, plan_threads, pool, graph, computes>>
localVars == <<back, node, last_graph, n_passed, chunk>>
dataVars == <<quantized, written, doubled>>
vars == <<callVars, tp, pc, localVars, dataVars>>

Threads == 0 .. MaxThreads - 1
NoNode == -1

Minimum(a, b) == IF a <= b THEN a ELSE b
CeilDiv(a, b) == (a + b - 1) \div b

CallerPcs == {"idle", "kick_threads", "kick_graph", "returned", "joining"}
WaitingPcs == {"none", "pause_loop", "pause_lock", "pause_sleep", "stop_check",
               "poll_start", "poll", "poll_seen", "lock", "work_sleep", "exited"}
NodePcs == {"node", "quantize", "chunk", "claim", "compute", "finish", "return"}
BarrierPcs == {"bar_read", "bar_add", "bar_reset", "bar_pass", "bar_wait"}

TypeOK ==
    /\ persistent \in BOOLEAN /\ pool \in BOOLEAN /\ doubled \in BOOLEAN
    /\ plan_threads \in 1 .. MaxThreads
    /\ tp \in [n_graph : Nat, n_barrier : Nat, n_barrier_passed : Nat,
               current_chunk : Nat, stop : BOOLEAN, pause : BOOLEAN,
               abort : Int, aborted : BOOLEAN, locked : BOOLEAN,
               n_threads_max : 1 .. MaxThreads, n_threads_cur : 1 .. MaxThreads]
    /\ tp.n_threads_cur <= tp.n_threads_max
    /\ graph \in Graphs \cup {<<>>}
    /\ pc \in [Threads -> CallerPcs \cup WaitingPcs \cup NodePcs \cup BarrierPcs]
    /\ back \in [Threads -> {"node", "chunk", "return"}]
    /\ node \in [Threads -> Nat]
    /\ last_graph \in [Threads -> Nat]
    /\ n_passed \in [Threads -> Nat]
    /\ chunk \in [Threads -> Nat]
    /\ quantized \in [Threads -> Nat \cup {NoNode}]
    /\ DOMAIN written = 0 .. Len(graph) - 1
    /\ computes \in 0 .. MaxComputes

\* ggml_threadpool_new_impl: the struct, and one thread per worker but thread 0.
NewPool(n_threads, paused) ==
    [n_graph |-> 0, n_barrier |-> 0, n_barrier_passed |-> 0, current_chunk |-> 0,
     stop |-> FALSE, pause |-> paused, abort |-> -1, aborted |-> FALSE,
     locked |-> FALSE, n_threads_max |-> n_threads, n_threads_cur |-> n_threads]

Spawned(n_threads, caller) ==
    [t \in Threads |-> IF t = 0 THEN caller
                       ELSE IF t < n_threads THEN "pause_loop" ELSE "none"]

Init ==
    /\ persistent \in BOOLEAN
    /\ plan_threads \in 1 .. MaxThreads
    /\ pool = FALSE
    /\ tp = NewPool(1, FALSE)
    /\ graph = <<>>
    /\ pc = Spawned(1, "idle")
    /\ back = [t \in Threads |-> "return"]
    /\ node = [t \in Threads |-> 0]
    /\ last_graph = [t \in Threads |-> 0]
    /\ n_passed = [t \in Threads |-> 0]
    /\ chunk = [t \in Threads |-> 0]
    /\ quantized = [t \in Threads |-> NoNode]
    /\ written = [n \in {} |-> {}]
    /\ doubled = FALSE
    /\ computes = 0

-------------------------------------------------------------------------------
(* Steps of one thread, and waking the others. *)

Goto(t, there) == pc' = [pc EXCEPT ![t] = there]

MutWoken_SignalsOne(p) ==
    LET asleep == {t \in Threads : p[t] \in {"work_sleep", "pause_sleep"}} IN
    [t \in Threads |-> CASE \E u \in asleep : u < t -> p[t]
                         [] p[t] = "work_sleep" -> "lock"
                         [] p[t] = "pause_sleep" -> "pause_loop"
                         [] OTHER -> p[t]]

\* ggml_cond_broadcast: a thread asleep for work checks again, a paused one
\* goes round its loop.
Woken(p) ==
    [t \in Threads |-> CASE p[t] = "work_sleep" -> "lock"
                         [] p[t] = "pause_sleep" -> "pause_loop"
                         [] OTHER -> p[t]]

\* A step that only reads shared state and moves on.
Reads(t, from, there) ==
    /\ pc[t] = from
    /\ Goto(t, there)
    /\ UNCHANGED <<callVars, tp, localVars, dataVars>>

\* pthread_cond_wait may return unasked.
SpuriousWake(t) ==
    /\ pc[t] \in {"work_sleep", "pause_sleep"}
    /\ Goto(t, Woken(pc)[t])
    /\ UNCHANGED <<callVars, tp, localVars, dataVars>>

-------------------------------------------------------------------------------
(* ggml_barrier.  Alone, a thread walks through. *)

BarRead(t) ==
    /\ pc[t] = "bar_read"
    /\ n_passed' = [n_passed EXCEPT ![t] = tp.n_barrier_passed]
    /\ Goto(t, IF tp.n_threads_cur = 1 THEN back[t] ELSE "bar_add")
    /\ UNCHANGED <<callVars, tp, back, node, last_graph, chunk, dataVars>>

BarAdd(t) ==
    /\ pc[t] = "bar_add"
    /\ tp' = [tp EXCEPT !.n_barrier = @ + 1]
    /\ Goto(t, IF tp.n_barrier = tp.n_threads_cur - 1 THEN "bar_reset" ELSE "bar_wait")
    /\ UNCHANGED <<callVars, localVars, dataVars>>

MutBarReset_After(t) ==
    /\ pc[t] = "bar_reset"
    /\ tp' = [tp EXCEPT !.n_barrier_passed = @ + 1]
    /\ Goto(t, "bar_pass")
    /\ UNCHANGED <<callVars, localVars, dataVars>>

BarReset(t) ==
    /\ pc[t] = "bar_reset"
    /\ tp' = [tp EXCEPT !.n_barrier = 0]
    /\ Goto(t, "bar_pass")
    /\ UNCHANGED <<callVars, localVars, dataVars>>

BarPass(t) ==
    /\ pc[t] = "bar_pass"
    /\ tp' = [tp EXCEPT !.n_barrier_passed = @ + 1]
    /\ Goto(t, back[t])
    /\ UNCHANGED <<callVars, localVars, dataVars>>

BarWait(t) ==
    /\ tp.n_barrier_passed # n_passed[t]
    /\ Reads(t, "bar_wait", back[t])

Barrier(t) ==
    \/ BarRead(t) \/ BarAdd(t) \/ BarReset(t) \/ BarPass(t) \/ BarWait(t)

\* The step is followed by a barrier, and the barrier by there.
MeetThen(t, there) ==
    /\ Goto(t, "bar_read")
    /\ back' = [back EXCEPT ![t] = there]

-------------------------------------------------------------------------------
(* ggml_compute_forward: a matrix product or a row-wise operation. *)

Elements(n) == (0 .. n.nr0 - 1) \X (0 .. n.nr1 - 1)

\* Chunks along each dimension; too few for the team means one per thread.
ChunkGrid(n, nth) ==
    LET size == IF n.nr0 = 1 \/ n.nr1 = 1 THEN ThinChunkSize ELSE ChunkSize
        nchunk0 == CeilDiv(n.nr0, size)
        nchunk1 == CeilDiv(n.nr1, size)
    IN  IF nchunk0 * nchunk1 >= nth * 4 THEN <<nchunk0, nchunk1>>
        ELSE IF n.nr0 > n.nr1 THEN <<nth, 1>> ELSE <<1, nth>>

NChunks(n, nth) == ChunkGrid(n, nth)[1] * ChunkGrid(n, nth)[2]

MutChunkElements_FloorRows(n, nth, c) ==
    LET grid == ChunkGrid(n, nth)
        dr0 == n.nr0 \div grid[1]
        dr1 == n.nr1 \div grid[2]
        start0 == dr0 * (c % grid[1])
        start1 == dr1 * (c \div grid[1])
    IN  (start0 .. Minimum(start0 + dr0, n.nr0) - 1)
            \X (start1 .. Minimum(start1 + dr1, n.nr1) - 1)

ChunkElements(n, nth, c) ==
    LET grid == ChunkGrid(n, nth)
        dr0 == CeilDiv(n.nr0, grid[1])
        dr1 == CeilDiv(n.nr1, grid[2])
        start0 == dr0 * (c % grid[1])
        start1 == dr1 * (c \div grid[1])
    IN  (start0 .. Minimum(start0 + dr0, n.nr0) - 1)
            \X (start1 .. Minimum(start1 + dr1, n.nr1) - 1)

\* The elements of every chunk of every product, for every size of the team.
Nodes == UNION {{g[i] : i \in DOMAIN g} : g \in Graphs}
Partition ==
    [n \in Nodes |-> [nth \in 1 .. MaxThreads |->
        [c \in 0 .. NChunks(n, nth) - 1 |-> ChunkElements(n, nth, c)]]]

\* rms_norm: rows ith, ith + nth, ...
RowElements(n, nth, ith) == {e \in Elements(n) : e[2] % nth = ith}

Node(t) == graph[node[t] + 1]
Nth == tp.n_threads_cur

Writes(t, elements) ==
    /\ written' = [written EXCEPT ![node[t]] = @ \cup elements]
    /\ doubled' = (doubled \/ written[node[t]] \cap elements # {})
    /\ quantized' = quantized

MutQuantize_NoBarrier(t) ==
    /\ pc[t] = "quantize"
    /\ quantized' = [quantized EXCEPT ![t] = node[t]]
    /\ tp' = IF t = 0 THEN [tp EXCEPT !.current_chunk = Nth] ELSE tp
    /\ chunk' = [chunk EXCEPT ![t] = t]
    /\ Goto(t, "chunk")
    /\ UNCHANGED <<callVars, back, node, last_graph, n_passed, written, doubled>>

\* The thread's part of src1 goes to the work buffer; thread 0 also sets the
\* shared counter to the first chunk nobody starts with.
Quantize(t) ==
    /\ pc[t] = "quantize"
    /\ quantized' = [quantized EXCEPT ![t] = node[t]]
    /\ tp' = IF t = 0 THEN [tp EXCEPT !.current_chunk = Nth] ELSE tp
    /\ chunk' = [chunk EXCEPT ![t] = t]
    /\ MeetThen(t, "chunk")
    /\ UNCHANGED <<callVars, node, last_graph, n_passed, written, doubled>>

Chunk(t) ==
    /\ pc[t] = "chunk"
    /\ LET chunks == Partition[Node(t)][Nth] IN
       IF chunk[t] \in DOMAIN chunks
       THEN /\ Writes(t, chunks[chunk[t]])
            /\ Goto(t, IF Nth >= NChunks(Node(t), Nth) THEN "finish" ELSE "claim")
       ELSE Goto(t, "finish") /\ UNCHANGED dataVars
    /\ UNCHANGED <<callVars, tp, localVars>>

MutClaim_NotAtomic(t) ==
    /\ pc[t] = "claim"
    /\ chunk' = [chunk EXCEPT ![t] = tp.current_chunk]
    /\ tp' \in {tp, [tp EXCEPT !.current_chunk = @ + 1]}
    /\ Goto(t, "chunk")
    /\ UNCHANGED <<callVars, back, node, last_graph, n_passed, dataVars>>

Claim(t) ==
    /\ pc[t] = "claim"
    /\ chunk' = [chunk EXCEPT ![t] = tp.current_chunk]
    /\ tp' = [tp EXCEPT !.current_chunk = @ + 1]
    /\ Goto(t, "chunk")
    /\ UNCHANGED <<callVars, back, node, last_graph, n_passed, dataVars>>

Compute(t) ==
    /\ pc[t] = "compute"
    /\ Writes(t, RowElements(Node(t), Nth, t))
    /\ Goto(t, "finish")
    /\ UNCHANGED <<callVars, tp, localVars>>

-------------------------------------------------------------------------------
(* ggml_graph_compute_thread. *)

MoreNodes(t) == node[t] < Len(graph) /\ tp.abort # node[t]

NextNode(t) ==
    /\ pc[t] = "node"
    /\ IF MoreNodes(t)
       THEN /\ Goto(t, IF Node(t).op = "mul_mat" THEN "quantize" ELSE "compute")
            /\ UNCHANGED back
       ELSE MeetThen(t, "return")
    /\ UNCHANGED <<callVars, tp, node, last_graph, n_passed, chunk, dataVars>>

MutFinish_NoBarrier(t) ==
    /\ pc[t] = "finish"
    /\ tp' \in {tp} \cup IF t = 0
                         THEN {[tp EXCEPT !.abort = node[t] + 1, !.aborted = TRUE]}
                         ELSE {}
    /\ node' = [node EXCEPT ![t] = @ + 1]
    /\ Goto(t, "node") /\ UNCHANGED back
    /\ UNCHANGED <<callVars, last_graph, n_passed, chunk, dataVars>>

\* The abort callback, asked by thread 0 alone, then the barrier between nodes.
Finish(t) ==
    /\ pc[t] = "finish"
    /\ tp' \in {tp} \cup IF t = 0
                         THEN {[tp EXCEPT !.abort = node[t] + 1, !.aborted = TRUE]}
                         ELSE {}
    /\ node' = [node EXCEPT ![t] = @ + 1]
    /\ IF node[t] + 1 < Len(graph) THEN MeetThen(t, "node")
       ELSE Goto(t, "node") /\ UNCHANGED back
    /\ UNCHANGED <<callVars, last_graph, n_passed, chunk, dataVars>>

\* Back from the last barrier: a worker waits again, the caller returns.
Return(t) == Reads(t, "return", IF t = 0 THEN "returned" ELSE "pause_loop")

ComputeThread(t) ==
    \/ NextNode(t) \/ Quantize(t) \/ Chunk(t) \/ Claim(t)
    \/ Compute(t) \/ Finish(t) \/ Return(t) \/ Barrier(t)

-------------------------------------------------------------------------------
(* ggml_graph_compute_secondary_thread: pause, stop, poll, sleep, work. *)

PauseLoop(t) == Reads(t, "pause_loop", IF tp.pause THEN "pause_lock" ELSE "stop_check")

PauseLock(t) ==
    /\ ~tp.locked
    /\ Reads(t, "pause_lock", IF tp.pause THEN "pause_sleep" ELSE "pause_loop")

StopCheck(t) == Reads(t, "stop_check", IF tp.stop THEN "exited" ELSE "poll_start")

\* A thread the plan does not use does not poll.
PollStart(t) == Reads(t, "poll_start", IF t < Nth THEN "poll" ELSE "lock")

\* One look for work outside the mutex; n_graph is read before n_threads_cur.
\* Rounds without work end at any time.
Poll(t) ==
    /\ pc[t] = "poll"
    /\ IF ~tp.stop /\ ~tp.pause /\ tp.n_graph # last_graph[t]
       THEN /\ last_graph' = [last_graph EXCEPT ![t] = tp.n_graph]
            /\ Goto(t, "poll_seen")
       ELSE Goto(t, "lock") /\ UNCHANGED last_graph
    /\ UNCHANGED <<callVars, tp, back, node, n_passed, chunk, dataVars>>

PollSeen(t) ==
    /\ pc[t] = "poll_seen"
    /\ node' = [node EXCEPT ![t] = 0]
    /\ Goto(t, IF t < Nth THEN "node" ELSE "poll")
    /\ UNCHANGED <<callVars, tp, back, last_graph, n_passed, chunk, dataVars>>

MutSleepOrWork_ForgetsGraph(t) ==
    /\ pc[t] = "lock" /\ ~tp.locked
    /\ node' = [node EXCEPT ![t] = 0]
    /\ Goto(t, CASE tp.stop \/ tp.pause -> "pause_loop"
                 [] tp.n_graph # last_graph[t] /\ t < Nth -> "node"
                 [] OTHER -> "work_sleep")
    /\ UNCHANGED <<callVars, tp, back, last_graph, n_passed, chunk, dataVars>>

\* The same look under the mutex, then sleep.
SleepOrWork(t) ==
    /\ pc[t] = "lock" /\ ~tp.locked
    /\ IF tp.stop \/ tp.pause
       THEN Goto(t, "pause_loop") /\ UNCHANGED <<last_graph, node>>
       ELSE /\ last_graph' = [last_graph EXCEPT ![t] = tp.n_graph]
            /\ IF tp.n_graph # last_graph[t] /\ t < Nth
               THEN Goto(t, "node") /\ node' = [node EXCEPT ![t] = 0]
               ELSE Goto(t, "work_sleep") /\ UNCHANGED node
    /\ UNCHANGED <<callVars, tp, back, n_passed, chunk, dataVars>>

SecondaryThread(t) ==
    \/ PauseLoop(t) \/ PauseLock(t) \/ StopCheck(t) \/ PollStart(t)
    \/ Poll(t) \/ PollSeen(t) \/ SleepOrWork(t)

-------------------------------------------------------------------------------
(* The caller. *)

\* ggml_threadpool_new, with a pool of any size, paused or not.
New ==
    /\ persistent /\ ~pool /\ pc[0] = "idle" /\ computes = 0
    /\ pool' = TRUE
    /\ \E n_threads \in 1 .. MaxThreads, paused \in BOOLEAN :
           tp' = NewPool(n_threads, paused) /\ pc' = Spawned(n_threads, "idle")
    /\ last_graph' = [t \in Threads |-> 0]
    /\ UNCHANGED <<persistent, plan_threads, graph, computes, back, node, n_passed, chunk,
                   dataVars>>

SetPause(pause) ==
    /\ persistent /\ pool /\ pc[0] = "idle"
    /\ tp.pause # pause
    /\ tp' = [tp EXCEPT !.pause = pause]
    /\ pc' = Woken(pc)
    /\ UNCHANGED <<callVars, localVars, dataVars>>

\* ggml_graph_compute makes the pool it was not given, or resets the one it was.
Call(g) ==
    /\ pc[0] = "idle" /\ computes < MaxComputes
    /\ pool = persistent
    /\ IF persistent
       THEN /\ tp' = [tp EXCEPT !.current_chunk = 0, !.abort = -1, !.aborted = FALSE]
            /\ Goto(0, "kick_threads")
            /\ UNCHANGED last_graph
       ELSE /\ tp' = NewPool(plan_threads, FALSE)
            /\ pc' = Spawned(plan_threads, "kick_threads")
            /\ last_graph' = [t \in Threads |-> 0]
    /\ pool' = TRUE
    /\ graph' = g
    /\ computes' = computes + 1
    /\ quantized' = [t \in Threads |-> NoNode]
    /\ written' = [n \in 0 .. Len(g) - 1 |-> {}]
    /\ UNCHANGED <<persistent, plan_threads, back, node, n_passed, chunk, doubled>>

MutKickThreads_NoCap ==
    /\ pc[0] = "kick_threads"
    /\ tp' = [tp EXCEPT !.locked = TRUE, !.n_threads_cur = plan_threads]
    /\ Goto(0, "kick_graph")
    /\ UNCHANGED <<callVars, localVars, dataVars>>

\* ggml_graph_compute_kickoff, its two stores seen by threads that poll.
KickThreads ==
    /\ pc[0] = "kick_threads"
    /\ tp' = [tp EXCEPT !.locked = TRUE,
                        !.n_threads_cur = Minimum(plan_threads, tp.n_threads_max)]
    /\ Goto(0, "kick_graph")
    /\ UNCHANGED <<callVars, localVars, dataVars>>

KickGraph ==
    /\ pc[0] = "kick_graph"
    /\ tp' = [tp EXCEPT !.n_graph = @ + 1, !.pause = FALSE, !.locked = FALSE]
    /\ node' = [node EXCEPT ![0] = 0]
    /\ pc' = [Woken(pc) EXCEPT ![0] = "node"]
    /\ UNCHANGED <<callVars, back, last_graph, n_passed, chunk, dataVars>>

\* The status is returned; a pool made for the call is freed first (Free).
ReturnKept == persistent /\ Reads(0, "returned", "idle")

\* ggml_threadpool_free: of a disposable pool, or of its own by its owner.
Free ==
    /\ pool
    /\ \/ ~persistent /\ pc[0] = "returned"
       \/ persistent /\ pc[0] = "idle"
    /\ tp' = [tp EXCEPT !.stop = TRUE, !.pause = FALSE]
    /\ pc' = [Woken(pc) EXCEPT ![0] = "joining"]
    /\ UNCHANGED <<callVars, localVars, dataVars>>

MutJoined_TeamOnly == 1 .. Nth - 1

Joined == 1 .. tp.n_threads_max - 1

Join ==
    /\ pc[0] = "joining"
    /\ \A t \in Joined : pc[t] = "exited"
    /\ pool' = FALSE
    /\ pc' = [t \in Threads |-> IF t = 0 THEN "idle" ELSE IF t \in Joined THEN "none" ELSE pc[t]]
    /\ UNCHANGED <<persistent, plan_threads, graph, computes, tp, localVars, dataVars>>

Caller ==
    \/ \E g \in Graphs : Call(g)
    \/ New \/ SetPause(TRUE) \/ SetPause(FALSE)
    \/ KickThreads \/ KickGraph \/ ReturnKept \/ Free \/ Join

Next ==
    \/ Caller
    \/ \E t \in Threads : ComputeThread(t) \/ SecondaryThread(t) \/ SpuriousWake(t)

\* The system schedules every thread; the caller finishes what it began.
Fairness ==
    /\ \A t \in Threads : WF_vars(ComputeThread(t) \/ SecondaryThread(t))
    /\ WF_vars(KickThreads \/ KickGraph \/ ReturnKept \/ Join)
    /\ WF_vars(~persistent /\ Free)

Spec == Init /\ [][Next]_vars /\ Fairness

-------------------------------------------------------------------------------
(* Properties. *)

\* The two counters of ggml_barrier agree with the threads inside it: n_barrier
\* counts those that entered the current round, so nobody is left behind in a
\* round that is over and nobody is counted twice.
BarrierCounts ==
    LET inside == {t \in Threads : pc[t] = "bar_wait"
                                     /\ n_passed[t] = tp.n_barrier_passed}
        last == {t \in Threads : pc[t] \in {"bar_reset", "bar_pass"}}
    IN  /\ Cardinality(last) <= 1
        /\ (\A t \in Threads : pc[t] # "bar_pass") =>
               tp.n_barrier = Cardinality(inside) + Cardinality(last)
        /\ (\E t \in Threads : pc[t] = "bar_pass") => tp.n_barrier = 0

\* "No worker threads should be accessing the parameters below at this stage"
\* (ggml_graph_compute): when the caller is outside the graph, a worker is
\* waiting for work, or not in the team, or on its way out of the last barrier,
\* which reads only the counters of the barrier.
NoStrayWorker ==
    pc[0] \in CallerPcs =>
        \A t \in Threads \ {0} :
            \/ pc[t] \in WaitingPcs \ {"poll_seen"}
            \/ (pc[t] = "poll_seen" /\ t >= Nth)
            \/ (pc[t] \in BarrierPcs \cup {"return"} /\ back[t] = "return")

\* The pool's memory is freed only when no thread can touch it again.
PoolOutlivesThreads == ~pool => \A t \in Threads \ {0} : pc[t] = "none"

\* A chunk of a matrix product reads all of src1 from the shared work buffer:
\* every thread has written its part for this node, and none has started to
\* overwrite it for a later one.
ChunksReadQuantized ==
    \A t \in Threads : pc[t] = "chunk" =>
        \A u \in 0 .. Nth - 1 : quantized[u] = node[t]

\* However the chunks are claimed, each element of a result is computed once,
\* and all of them before anyone starts on the next node.
EveryElementOnce ==
    /\ ~doubled
    /\ \A t \in Threads : pc[t] \in NodePcs \ {"return"} =>
           \A n \in 0 .. Minimum(node[t], Len(graph)) - 1 :
               pc[t] # "node" => written[n] = Elements(graph[n + 1])

\* A call that reports success has computed every node completely.
SuccessIsComplete ==
    pc[0] = "returned" /\ ~tp.aborted =>
        \A n \in DOMAIN written : written[n] = Elements(graph[n + 1])

\* No wakeup is lost and no barrier waits for a thread that left: every call of
\* ggml_graph_compute and of ggml_threadpool_free returns.
CallsReturn == pc[0] # "idle" ~> pc[0] = "idle"

\* The threads walk the graph node by node (module NodeByNode).
Running == pc[0] \notin {"idle", "returned", "joining"}
Team == IF Running THEN 0 .. Minimum(plan_threads, tp.n_threads_max) - 1 ELSE {}
Begun(t) ==
    /\ pc[0] \notin {"kick_threads", "kick_graph"}
    /\ (t = 0 \/ (last_graph[t] = tp.n_graph /\ pc[t] # "poll_seen"))

Abstract == INSTANCE NodeByNode WITH
    AllThreads <- Threads,
    Lengths <- {Len(g) : g \in Graphs},
    team <- Team,
    limit <- IF ~Running THEN 0 ELSE IF tp.abort = -1 THEN Len(graph) ELSE tp.abort,
    done <- [t \in Team |-> IF Begun(t) THEN node[t] ELSE 0]

ImplementsNodeByNode == Abstract!Spec
===============================================================================
