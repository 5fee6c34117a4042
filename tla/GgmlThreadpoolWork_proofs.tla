----------------------- MODULE GgmlThreadpoolWork_proofs -----------------------
(***************************************************************************)
(* For any pool of threads, any graphs and any number of calls: what the   *)
(* threads compute.  The chunks of a matrix product are a partition of its *)
(* elements; the team computes each element of each node once, in the      *)
(* order of the graph, and reads the work buffer only when it is complete. *)
(***************************************************************************)
EXTENDS GgmlThreadpool_proofs

(***************************************************************************)
(* The chunks of a matrix product.                                         *)
(***************************************************************************)

\* Division with remainder.
LEMMA DivMod ==
    ASSUME NEW a \in Nat, NEW b \in Nat \ {0}
    PROVE  /\ a \div b \in Nat /\ a % b \in 0 .. b - 1
           /\ a = (b * (a \div b)) + (a % b)
OBVIOUS

\* Quotient and remainder are the only ones.
LEMMA DivModUnique ==
    ASSUME NEW q \in Nat, NEW b \in Nat \ {0}, NEW r \in 0 .. b - 1
    PROVE  /\ (b * q) + r \in Nat
           /\ ((b * q) + r) \div b = q /\ ((b * q) + r) % b = r
OBVIOUS

\* Parts of the rounded-up size cover the whole with as many parts.
LEMMA CeilCovers ==
    ASSUME NEW a \in Nat \ {0}, NEW b \in Nat \ {0}
    PROVE  /\ CeilDiv(a, b) \in Nat \ {0}
           /\ a <= b * CeilDiv(a, b)
<1> DEFINE s == a + b - 1
           d == CeilDiv(a, b)
<1>1. s \in Nat /\ d = s \div b
  BY DEF CeilDiv
<1>2. d \in Nat /\ s % b \in 0 .. b - 1 /\ s = (b * d) + (s % b)
  BY <1>1, DivMod
<1> DEFINE m == s % b
           x == b * d
<1>3. x \in Nat /\ m \in 0 .. b - 1 /\ a + b - 1 = x + m
  BY <1>2
<1>4. d = 0 => x = 0
  OBVIOUS
<1> HIDE DEF d, m, x
<1>5. a <= x /\ x # 0
  BY <1>3
<1> QED
  BY <1>2, <1>4, <1>5 DEF x, d

\* The part an index lies in is one of the parts.
LEMMA PartOf ==
    ASSUME NEW a \in Nat \ {0}, NEW b \in Nat \ {0}, NEW i \in 0 .. a - 1
    PROVE  i \div CeilDiv(a, b) \in 0 .. b - 1
<1> DEFINE d == CeilDiv(a, b)
<1>1. d \in Nat \ {0} /\ a <= b * d
  BY CeilCovers
<1> HIDE DEF d
<1>2. i \div d \in Nat /\ i % d \in Nat /\ i = (d * (i \div d)) + (i % d)
  BY <1>1, DivMod
<1>3. ASSUME i \div d >= b PROVE FALSE
  <2>1. d * (i \div d) >= d * b
    BY <1>1, <1>2, <1>3
  <2>2. d * (i \div d) \in Nat /\ d * b \in Nat /\ d * b = b * d
    BY <1>1, <1>2
  <2> QED
    BY <1>1, <1>2, <2>1, <2>2
<1> QED
  BY <1>2, <1>3 DEF d

\* The grid has at least a chunk.
LEMMA GridType ==
    ASSUME NEW n \in GraphNode, NEW nth \in Nat \ {0}
    PROVE  /\ ChunkGrid(n, nth)[1] \in Nat \ {0} /\ ChunkGrid(n, nth)[2] \in Nat \ {0}
           /\ NChunks(n, nth) \in Nat \ {0}
<1>1. n.nr0 \in Nat \ {0} /\ n.nr1 \in Nat \ {0}
  BY DEF GraphNode
<1>2. \A size \in {ChunkSize, ThinChunkSize} :
          CeilDiv(n.nr0, size) \in Nat \ {0} /\ CeilDiv(n.nr1, size) \in Nat \ {0}
  BY <1>1, CeilCovers, PoolAssumption
<1>3. ChunkGrid(n, nth)[1] \in Nat \ {0} /\ ChunkGrid(n, nth)[2] \in Nat \ {0}
  BY <1>2 DEF ChunkGrid
<1> QED
  BY <1>3 DEF NChunks

\* The chunk an element is computed in.
ChunkOf(n, nth, e) ==
    LET grid == ChunkGrid(n, nth)
    IN  (grid[1] * (e[2] \div CeilDiv(n.nr1, grid[2]))) + (e[1] \div CeilDiv(n.nr0, grid[1]))

\* ggml_compute_forward_mul_mat cuts a product of any size into chunks for any
\* number of threads so that each element of the product is in exactly one chunk
\* and no chunk reaches outside it, its last row and column of chunks cut short.
THEOREM ChunksPartition ==
    ASSUME NEW n \in GraphNode, NEW nth \in Nat \ {0}, NEW e
    PROVE  /\ e \in Elements(n) => /\ ChunkOf(n, nth, e) \in 0 .. NChunks(n, nth) - 1
                                   /\ e \in ChunkElements(n, nth, ChunkOf(n, nth, e))
           /\ \A c \in 0 .. NChunks(n, nth) - 1 :
                  e \in ChunkElements(n, nth, c) => e \in Elements(n) /\ c = ChunkOf(n, nth, e)
<1> DEFINE g0 == ChunkGrid(n, nth)[1]
           g1 == ChunkGrid(n, nth)[2]
           r0 == n.nr0
           r1 == n.nr1
           d0 == CeilDiv(r0, g0)
           d1 == CeilDiv(r1, g1)
<1>1. g0 \in Nat \ {0} /\ g1 \in Nat \ {0} /\ r0 \in Nat \ {0} /\ r1 \in Nat \ {0}
  BY GridType DEF GraphNode
<1>2. d0 \in Nat \ {0} /\ d1 \in Nat \ {0}
  BY <1>1, CeilCovers
<1>3. NChunks(n, nth) = g0 * g1
  BY DEF NChunks
<1>4. \A c : ChunkElements(n, nth, c) =
          (d0 * (c % g0) .. Minimum(d0 * (c % g0) + d0, r0) - 1)
              \X (d1 * (c \div g0) .. Minimum(d1 * (c \div g0) + d1, r1) - 1)
  BY DEF ChunkElements
<1>5. Elements(n) = (0 .. r0 - 1) \X (0 .. r1 - 1)
  BY DEF Elements
<1>6. ChunkOf(n, nth, e) = (g0 * (e[2] \div d1)) + (e[1] \div d0)
  BY DEF ChunkOf
<1>7. \A i \in 0 .. r0 - 1 : i \div d0 \in 0 .. g0 - 1
  BY <1>1, PartOf
<1>8. \A j \in 0 .. r1 - 1 : j \div d1 \in 0 .. g1 - 1
  BY <1>1, PartOf
<1> HIDE DEF g0, g1, r0, r1, d0, d1
<1>9. ASSUME e \in Elements(n)
      PROVE  /\ ChunkOf(n, nth, e) \in 0 .. NChunks(n, nth) - 1
             /\ e \in ChunkElements(n, nth, ChunkOf(n, nth, e))
  <2> DEFINE i == e[1]
             j == e[2]
             p == i \div d0
             q == j \div d1
             c == ChunkOf(n, nth, e)
  <2>1. i \in 0 .. r0 - 1 /\ j \in 0 .. r1 - 1 /\ e = <<i, j>>
    BY <1>5, <1>9
  <2>2. p \in 0 .. g0 - 1 /\ q \in 0 .. g1 - 1 /\ c = (g0 * q) + p
    BY <1>6, <1>7, <1>8, <2>1
  <2>3. c % g0 = p /\ c \div g0 = q /\ c \in Nat
    BY <1>1, <2>2, DivModUnique
  <2>4. /\ i % d0 \in 0 .. d0 - 1 /\ i = (d0 * p) + (i % d0)
        /\ j % d1 \in 0 .. d1 - 1 /\ j = (d1 * q) + (j % d1)
    <3>1. i \in Nat /\ j \in Nat
      BY <1>1, <2>1
    <3> HIDE DEF i, j
    <3>2. i % d0 \in 0 .. d0 - 1 /\ i = (d0 * (i \div d0)) + (i % d0)
      BY <1>2, <3>1, DivMod
    <3>3. j % d1 \in 0 .. d1 - 1 /\ j = (d1 * (j \div d1)) + (j % d1)
      BY <1>2, <3>1, DivMod
    <3> QED
      BY <3>2, <3>3
  <2> HIDE DEF i, j, p, q, c
  <2>5. d0 * p \in Nat /\ d1 * q \in Nat
    BY <1>1, <1>2, <2>2
  <2>6. i \in d0 * p .. Minimum(d0 * p + d0, r0) - 1
    BY <1>1, <1>2, <2>1, <2>4, <2>5 DEF Minimum
  <2>7. j \in d1 * q .. Minimum(d1 * q + d1, r1) - 1
    BY <1>1, <1>2, <2>1, <2>4, <2>5 DEF Minimum
  <2>8. e \in ChunkElements(n, nth, c)
    BY <1>4, <2>1, <2>3, <2>6, <2>7
  <2>9. c < g0 * g1
    <3>1. g0 * q + g0 <= g0 * g1
      <4>1. q + 1 <= g1 /\ g0 * (q + 1) = g0 * q + g0
        BY <1>1, <2>2
      <4> QED
        BY <1>1, <2>2, <4>1
    <3>2. g0 * q \in Nat /\ g0 * g1 \in Nat
      BY <1>1, <2>2
    <3> QED
      BY <1>1, <2>2, <3>1, <3>2
  <2>10. g0 * g1 \in Nat
    BY <1>1
  <2>11. c \in 0 .. NChunks(n, nth) - 1
    BY <1>3, <2>3, <2>9, <2>10
  <2> QED
    BY <2>8, <2>11 DEF c
<1>10. ASSUME NEW c \in 0 .. NChunks(n, nth) - 1, e \in ChunkElements(n, nth, c)
       PROVE  e \in Elements(n) /\ c = ChunkOf(n, nth, e)
  <2> DEFINE i == e[1]
             j == e[2]
             p == c % g0
             q == c \div g0
  <2>1. c \in Nat
    OBVIOUS
  <2>2. p \in 0 .. g0 - 1 /\ q \in Nat /\ c = (g0 * q) + p
    BY <1>1, <2>1, DivMod
  <2>3. /\ e = <<i, j>>
        /\ i \in d0 * p .. Minimum(d0 * p + d0, r0) - 1
        /\ j \in d1 * q .. Minimum(d1 * q + d1, r1) - 1
    BY <1>4, <1>10
  <2> HIDE DEF i, j, p, q
  <2>4. d0 * p \in Nat /\ d1 * q \in Nat
    BY <1>1, <1>2, <2>2
  <2>5. i \in Nat /\ i >= d0 * p /\ i < d0 * p + d0 /\ i < r0
    BY <1>1, <1>2, <2>3, <2>4 DEF Minimum
  <2>6. j \in Nat /\ j >= d1 * q /\ j < d1 * q + d1 /\ j < r1
    BY <1>1, <1>2, <2>3, <2>4 DEF Minimum
  <2>7. i \div d0 = p
    <3>1. i - d0 * p \in 0 .. d0 - 1 /\ i = (d0 * p) + (i - d0 * p)
      BY <1>2, <2>4, <2>5
    <3> QED
      BY <1>2, <2>2, <3>1, DivModUnique
  <2>8. j \div d1 = q
    <3>1. j - d1 * q \in 0 .. d1 - 1 /\ j = (d1 * q) + (j - d1 * q)
      BY <1>2, <2>4, <2>6
    <3> QED
      BY <1>2, <2>2, <3>1, DivModUnique
  <2>9. e \in Elements(n)
    BY <1>1, <1>5, <2>3, <2>5, <2>6
  <2> QED
    BY <1>6, <2>2, <2>7, <2>8, <2>9 DEF i, j
<1> QED
  BY <1>9, <1>10

(***************************************************************************)
(* How far the work has come.  The caller's next barrier tells which node  *)
(* the team is doing, and whether it still fills the work buffer or has    *)
(* begun to compute the result.                                            *)
(***************************************************************************)

Working ==
    \/ Meeting(0)[1] = "node"
    \/ Meeting(0)[1] = "return" /\ Meeting(0)[2] = Len(graph) /\ Len(graph) > 0
Doing == IF Working THEN Meeting(0)[2] - 1 ELSE Meeting(0)[2]
Filling == Meeting(0)[1] = "chunk"
Multiplying == Working /\ IsProduct(Doing)
Norming == Working /\ ~IsProduct(Doing)

\* A thread that has done its part before the next barrier.
Past(t) ==
    /\ Started(t)
    /\ \/ Place(t) \in BarrierPcs \cup {"finish"}
       \/ Place(t) = "node" /\ node[t] = Doing + 1

Complete(n) == written[n] = Elements(graph[n + 1])
InHand == {chunk[u] : u \in {v \in TeamThreads : Place(v) = "chunk"}}

\* The nodes before the one being done are complete, the ones after it untouched.
Progress ==
    \A n \in DOMAIN written :
        /\ n < Doing => Complete(n)
        /\ n > Doing => written[n] = {}
        /\ n = Doing /\ ~Working => written[n] = {}

\* Who is past the filling has written its part of src1 and has its first chunk;
\* thread 0 has set the shared counter.
Filled ==
    Filling =>
        \A u \in TeamThreads :
            Past(u) => /\ quantized[u] = Doing /\ chunk[u] = u
                       /\ u = 0 => tp.current_chunk = Nth

\* The buffer is complete; the chunks below the counter are computed but those in
\* hand, each in one hand; who is past found no chunk left.
Claimed ==
    Multiplying =>
        /\ Nth <= tp.current_chunk
        /\ \A u \in TeamThreads : /\ quantized[u] = Doing
                                  /\ Place(u) = "chunk" => chunk[u] < tp.current_chunk
                                  /\ Past(u) => NChunks(graph[Doing + 1], Nth) <= tp.current_chunk
        /\ \A u, v \in TeamThreads :
               Place(u) = "chunk" /\ Place(v) = "chunk" /\ chunk[u] = chunk[v] => u = v
        /\ written[Doing] = {e \in Elements(graph[Doing + 1]) :
                                 LET c == ChunkOf(graph[Doing + 1], Nth, e)
                                 IN  c < tp.current_chunk /\ c \notin InHand}

\* Who is past has computed its rows, and nobody else has.
Normed ==
    Norming => written[Doing] = {e \in Elements(graph[Doing + 1]) : Past(e[2] % Nth)}

WorkInv ==
    /\ ~doubled
    /\ ~Outside => Progress /\ Filled /\ Claimed /\ Normed
    /\ pc[0] \in {"kick_threads", "kick_graph"} => \A n \in DOMAIN written : written[n] = {}
    /\ pc[0] = "returned" /\ ~tp.aborted => \A n \in DOMAIN written : Complete(n)

\* A node of the graph is one of the nodes chunks are defined for.
LEMMA NodeType ==
    ASSUME TypeOK, NEW n \in Nat, n < Len(graph)
    PROVE  /\ graph[n + 1] \in GraphNode /\ graph[n + 1] \in Nodes
           /\ n \in DOMAIN written
<1>1. CallTypes /\ DataTypes
  BY TypeParts
<1>2. graph \in Seq(GraphNode) /\ Len(graph) \in Nat
  BY <1>1, GraphType
<1>3. n + 1 \in DOMAIN graph
  BY <1>2
<1>4. graph \in Graphs
  <2>1. graph # <<>>
    BY <1>2
  <2> QED
    BY <1>1, <2>1 DEF CallTypes
<1>5. graph[n + 1] \in Nodes
  BY <1>3, <1>4 DEF Nodes
<1>6. graph[n + 1] \in GraphNode
  BY <1>2, <1>3
<1>7. n \in DOMAIN written
  BY <1>1, <1>2 DEF DataTypes
<1> QED
  BY <1>5, <1>6, <1>7

\* The work is done inside a graph, on one of its nodes.
LEMMA DoingType ==
    ASSUME TypeOK, TeamInv
    PROVE  /\ ~Outside => Doing \in Nat
           /\ Working \/ Filling => ~Outside /\ Doing \in Nat /\ Doing < Len(graph)
           /\ ~(Working /\ Filling)
<1>1. Outside => Meeting(0)[1] = "done"
  BY Destinations
<1>2. 0 \in Threads /\ node[0] \in Nat /\ Len(graph) \in Nat
  BY Typing
<1>3. \A n \in Nat : /\ AtNode(n)[2] \in Nat
                     /\ AtNode(n)[1] = "node" => AtNode(n)[2] > 0 /\ AtNode(n)[2] < Len(graph)
                     /\ AtNode(n)[1] = "chunk" => AtNode(n)[2] < Len(graph)
  BY <1>2 DEF AtNode, AfterNode
<1>4. \A n \in Nat : /\ AfterNode(n)[2] \in Nat
                     /\ AfterNode(n)[1] = "node" => AfterNode(n)[2] > 0 /\ AfterNode(n)[2] < Len(graph)
                     /\ AfterNode(n)[1] # "chunk"
  BY <1>2 DEF AfterNode
<1>5. Started(0) /\ WellPlaced(0)
  BY <1>2 DEF Started, TeamInv, Places
<1>6. ASSUME ~Outside
      PROVE  /\ Meeting(0)[2] \in Nat
             /\ Meeting(0)[1] = "node" => Meeting(0)[2] > 0 /\ Meeting(0)[2] < Len(graph)
             /\ Meeting(0)[1] = "chunk" => Meeting(0)[2] < Len(graph)
  <2>1. CASE Place(0) \in BarrierPcs
    BY <1>2, <1>5, <2>1 DEF Meeting, WellPlaced
  <2>2. CASE Place(0) \notin BarrierPcs
    <3>1. Meeting(0) = From(Place(0), node[0])
      BY <1>5, <2>2 DEF Meeting
    <3>2. CASE Place(0) = "node" \/ Place(0) \in {"chunk", "claim", "compute", "finish"}
      BY <1>2, <1>3, <1>4, <3>1, <3>2 DEF From
    <3>3. CASE Place(0) = "quantize"
      BY <1>2, <1>5, <3>1, <3>3 DEF From, WellPlaced
    <3>4. CASE Place(0) \notin {"node", "quantize", "chunk", "claim", "compute", "finish"}
      BY <1>2, <1>6, <3>1, <3>4 DEF From, Done
    <3> QED
      BY <3>2, <3>3, <3>4
  <2> QED
    BY <2>1, <2>2
<1>7. ~Outside => Doing \in Nat
  BY <1>2, <1>6 DEF Doing, Working
<1>8. Working \/ Filling => ~Outside
  BY <1>1 DEF Working, Filling
<1>9. Working \/ Filling => Doing < Len(graph)
  BY <1>2, <1>6, <1>8 DEF Doing, Working, Filling
<1> QED
  BY <1>7, <1>8, <1>9 DEF Working, Filling

\* Where a thread is tells which node the team is doing, and how.
LEMMA PlaceTells ==
    ASSUME TypeOK, TeamInv, NEW t \in Threads,
           Place(t) \in {"quantize", "chunk", "claim", "compute", "finish"}
    PROVE  /\ t \in TeamThreads /\ Started(t) /\ ~Outside
           /\ node[t] \in Nat /\ node[t] < Len(graph) /\ Doing = node[t]
           /\ Place(t) = "quantize" => Filling
           /\ Place(t) \in {"chunk", "claim"} => Multiplying
           /\ Place(t) = "compute" => Norming
           /\ Place(t) = "finish" => Working
<1>1. t \in TeamThreads /\ Started(t)
  BY ComputingStarted DEF NodePcs
<1>2. ~Outside
  BY TeamRests DEF RestPlaces, WaitingPcs, CallerPcs
<1>3. node[t] \in Nat /\ Len(graph) \in Nat /\ WellPlaced(t)
  BY <1>1, Typing DEF TeamInv, Places
<1>4. node[t] < Len(graph)
  BY <1>3 DEF WellPlaced
<1>5. Meeting(0) = Meeting(t) /\ Meeting(t) = From(Place(t), node[t])
  BY <1>1 DEF TeamInv, Lockstep, Meeting, BarrierPcs
<1>6. CASE Place(t) = "quantize"
  <2>1. Meeting(0) = <<"chunk", node[t]>>
    BY <1>5, <1>6 DEF From
  <2> QED
    BY <1>1, <1>2, <1>3, <1>4, <1>6, <2>1 DEF Doing, Working, Filling
<1>7. CASE Place(t) # "quantize"
  <2>1. Meeting(0) = AfterNode(node[t])
    BY <1>5, <1>7 DEF From
  <2>2. Working /\ Meeting(0)[2] = node[t] + 1
    BY <1>3, <1>4, <2>1 DEF Working, AfterNode
  <2>3. Doing = node[t]
    BY <1>3, <2>2 DEF Doing
  <2>4. /\ Place(t) \in {"chunk", "claim"} => Multiplying
        /\ Place(t) = "compute" => Norming
    BY <1>3, <2>2, <2>3 DEF Multiplying, Norming, WellPlaced
  <2> QED
    BY <1>1, <1>2, <1>3, <1>4, <1>7, <2>2, <2>3, <2>4
<1> QED
  BY <1>6, <1>7

(***************************************************************************)
(* Steps that leave the team where it is heading.                          *)
(***************************************************************************)

\* While the caller's next barrier is the same, so is the node, and the others
\* are as far as they were.
LEMMA PhaseKept ==
    ASSUME TypeOK, NEW t \in Threads, MovesAlone(t), Meeting(0)' = Meeting(0)
    PROVE  /\ Working' <=> Working
           /\ Filling' <=> Filling
           /\ Doing' = Doing
           /\ Multiplying' <=> Multiplying
           /\ Norming' <=> Norming
           /\ Nth' = Nth /\ TeamThreads' = TeamThreads /\ graph' = graph
           /\ TeamThreads \subseteq Threads
           /\ \A u \in Threads \ {t} : /\ Place(u)' = Place(u)
                                       /\ Past(u)' <=> Past(u)
<1>1. graph' = graph /\ Nth' = Nth /\ TeamThreads' = TeamThreads
  BY DEF MovesAlone, callVars, Nth, TeamThreads
<1>2. (Working' <=> Working) /\ (Filling' <=> Filling)
  BY <1>1 DEF Working, Filling
<1>3. Doing' = Doing
  BY <1>2 DEF Doing
<1>4. (Multiplying' <=> Multiplying) /\ (Norming' <=> Norming)
  BY <1>1, <1>2, <1>3 DEF Multiplying, Norming, IsProduct
<1>5. \A u \in Threads \ {t} : /\ Place(u)' = Place(u) /\ (Started(u)' <=> Started(u))
                               /\ node'[u] = node[u]
  BY ThreadKept DEF MovesAlone, Locals
<1>6. \A u \in Threads \ {t} : Past(u)' <=> Past(u)
  BY <1>3, <1>5 DEF Past
<1> QED
  BY <1>1, <1>2, <1>3, <1>4, <1>5, <1>6, Typing

\* A row belongs to a thread of the team.
LEMMA RowOwner ==
    ASSUME TypeOK, NEW n \in GraphNode, NEW e \in Elements(n)
    PROVE  e[2] % Nth \in TeamThreads
<1>1. Nth \in Nat \ {0} /\ e[2] \in Nat
  <2>1. n.nr1 \in Nat
    BY DEF GraphNode
  <2> QED
    BY <2>1, Typing DEF Elements
<1> QED
  BY <1>1, DivMod DEF TeamThreads

\* A step that computes nothing, claims nothing and leaves its thread as far as it
\* was keeps the account of the work.
LEMMA QuietStep ==
    ASSUME TypeOK, TeamInv, WorkInv, NEW t \in Threads, MovesAlone(t),
           UNCHANGED <<dataVars, chunk, tp.current_chunk>>, Meeting(0)' = Meeting(0),
           t \in TeamThreads /\ (Working \/ Filling) =>
               /\ Past(t)' <=> Past(t)
               /\ Place(t)' = "chunk" <=> Place(t) = "chunk",
           Outside => pc'[0] = pc[0] /\ tp'.aborted = tp.aborted
    PROVE  WorkInv'
<1> USE DEF dataVars
<1>1. /\ Working' <=> Working
      /\ Filling' <=> Filling
      /\ Doing' = Doing
      /\ Multiplying' <=> Multiplying
      /\ Norming' <=> Norming
      /\ Nth' = Nth /\ TeamThreads' = TeamThreads /\ graph' = graph
      /\ TeamThreads \subseteq Threads
      /\ \A u \in Threads \ {t} : /\ Place(u)' = Place(u)
                                  /\ Past(u)' <=> Past(u)
  BY PhaseKept
<1>2. Working \/ Filling =>
          \A u \in TeamThreads : /\ Past(u)' <=> Past(u)
                                 /\ Place(u)' = "chunk" <=> Place(u) = "chunk"
  BY <1>1
<1>3. \A n : Complete(n)' <=> Complete(n)
  BY <1>1 DEF Complete
<1>4. Outside' <=> Outside
  BY DEF MovesAlone
<1>5. ASSUME ~Outside PROVE Progress' /\ Filled' /\ Claimed' /\ Normed'
  <2>1. Progress /\ Filled /\ Claimed /\ Normed
    BY <1>5 DEF WorkInv
  <2>2. Progress'
    BY <1>1, <1>3, <2>1 DEF Progress
  <2>3. Filled'
    BY <1>1, <1>2, <2>1 DEF Filled
  <2>4. Normed'
    <3> SUFFICES ASSUME Norming PROVE Normed'
      BY <1>1 DEF Normed
    <3>1. Working /\ graph[Doing + 1] \in GraphNode
      BY DoingType, NodeType DEF Norming
    <3>2. \A e \in Elements(graph[Doing + 1]) : Past(e[2] % Nth)' <=> Past(e[2] % Nth)
      <4> SUFFICES ASSUME NEW e \in Elements(graph[Doing + 1])
                   PROVE  Past(e[2] % Nth)' <=> Past(e[2] % Nth)
        OBVIOUS
      <4>1. e[2] % Nth \in TeamThreads
        BY <3>1, RowOwner
      <4>2. e'[2] % Nth' = e[2] % Nth
        BY <1>1
      <4> QED
        BY <1>2, <3>1, <4>1, <4>2
    <3> QED
      BY <1>1, <2>1, <3>2 DEF Normed
  <2>5. Claimed'
    <3> SUFFICES ASSUME Multiplying PROVE Claimed'
      BY <1>1 DEF Claimed
    <3>1. \A u \in TeamThreads : /\ Past(u)' <=> Past(u)
                                 /\ Place(u)' = "chunk" <=> Place(u) = "chunk"
      BY <1>2 DEF Multiplying
    <3>2. InHand' = InHand
      BY <1>1, <3>1 DEF InHand
    <3> QED
      BY <1>1, <2>1, <3>1, <3>2 DEF Claimed
  <2> QED
    BY <2>2, <2>3, <2>4, <2>5
<1>6. ASSUME ~Outside PROVE pc'[0] \notin CallerPcs
  BY <1>4, <1>6 DEF Outside
<1>7. ~doubled'
  BY DEF WorkInv
<1>8. CASE Outside
  BY <1>3, <1>4, <1>7, <1>8 DEF WorkInv
<1>9. CASE ~Outside
  BY <1>4, <1>5, <1>6, <1>7, <1>9 DEF WorkInv, CallerPcs
<1> QED
  BY <1>8, <1>9

\* Another thread's step does not move the caller's appointment, nor does its own
\* when it keeps it.
LEMMA AppointmentKept ==
    ASSUME TypeOK, NEW t \in Threads, MovesAlone(t),
           t = 0 => Meeting(0)' = Meeting(0),
           t # 0 => UNCHANGED tp.abort
    PROVE  Meeting(0)' = Meeting(0)
<1>1. 0 \in Threads
  BY Typing
<1>2. CASE t # 0
  BY <1>1, <1>2, ThreadKept DEF MovesAlone, callVars
<1> QED
  BY <1>2

\* A thread that takes up its next node computes nothing yet.
LEMMA NextNodeKeepsWork ==
    ASSUME TypeOK, TeamInv, WorkInv, NEW t \in Threads, NextNode(t)
    PROVE  WorkInv'
<1>1. /\ MovesAlone(t) /\ UNCHANGED <<tp.abort, node, last_graph>>
      /\ Meeting(t)' = Meeting(t)
  BY NodeStepMoves
<1>2. /\ pc[t] = "node" /\ UNCHANGED <<dataVars, chunk, tp>>
      /\ pc'[t] = IF MoreNodes(t) THEN IF IsProduct(node[t]) THEN "quantize" ELSE "compute"
                  ELSE "bar_read"
  BY TypeParts DEF NextNode, MeetThen, Goto, Node, IsProduct
<1>3. Place(t) = "node" /\ Place(t)' = pc'[t]
  BY <1>2 DEF Place, Released
<1>4. t \in TeamThreads /\ Started(t) /\ ~Outside
  BY <1>3, ComputingStarted, TeamRests DEF NodePcs, RestPlaces, WaitingPcs, CallerPcs
<1>5. Meeting(0)' = Meeting(0) /\ Doing' = Doing
  BY <1>1, AppointmentKept, PhaseKept
<1>6. Started(t)'
  BY <1>1, <1>2, <1>4 DEF Started
<1>7. node[t] \in Nat /\ Len(graph) \in Nat
  BY Typing
<1>8. Meeting(0) = AtNode(node[t])
  BY <1>3, <1>4 DEF TeamInv, Lockstep, Meeting, From, BarrierPcs
<1>9. ASSUME Working \/ Filling PROVE Past(t)' <=> Past(t)
  <2>1. CASE MoreNodes(t)
    <3>1. Doing = node[t]
      <4>1. CASE IsProduct(node[t])
        BY <1>8, <2>1, <4>1 DEF AtNode, MoreNodes, Doing, Working
      <4>2. CASE ~IsProduct(node[t])
        <5>1. Meeting(0)[2] = node[t] + 1
          BY <1>8, <2>1, <4>2 DEF AtNode, AfterNode, MoreNodes
        <5>2. Working
          <6>1. Meeting(0)[1] # "chunk"
            BY <1>8, <2>1, <4>2 DEF AtNode, AfterNode, MoreNodes
          <6> QED
            BY <1>9, <6>1 DEF Filling
        <5> QED
          BY <1>7, <5>1, <5>2 DEF Doing
      <4> QED
        BY <4>1, <4>2
    <3>2. ~Past(t)
      BY <1>3, <1>7, <3>1 DEF Past, BarrierPcs
    <3>3. ~Past(t)'
      BY <1>2, <1>3, <2>1 DEF Past, BarrierPcs
    <3> QED
      BY <3>2, <3>3
  <2>2. CASE ~MoreNodes(t)
    <3>1. Meeting(0) = <<"return", node[t]>>
      BY <1>8, <2>2 DEF AtNode, MoreNodes
    <3>2. Working /\ node[t] = Doing + 1
      BY <1>7, <1>9, <3>1 DEF Working, Filling, Doing
    <3>3. Past(t)
      BY <1>3, <1>4, <3>2 DEF Past
    <3>4. Past(t)'
      BY <1>2, <1>3, <1>6, <2>2 DEF Past, BarrierPcs
    <3> QED
      BY <3>3, <3>4
  <2> QED
    BY <2>1, <2>2
<1>10. Place(t)' # "chunk"
  BY <1>2, <1>3
<1>11. UNCHANGED <<dataVars, chunk, tp.current_chunk, tp.aborted>>
  BY <1>2
<1> QED
  BY <1>1, <1>3, <1>4, <1>5, <1>9, <1>10, <1>11, QuietStep

\* A thread that ends a node is past it already.
LEMMA FinishKeepsWork ==
    ASSUME TypeOK, TeamInv, WorkInv, NEW t \in Threads, Finish(t)
    PROVE  WorkInv'
<1>1. /\ MovesAlone(t) /\ UNCHANGED last_graph
      /\ pc[t] = "finish" /\ pc'[t] \in {"node", "bar_read"}
      /\ node'[t] = node[t] + 1
      /\ Meeting(t)' = Meeting(t)
      /\ UNCHANGED tp.abort \/ t = 0
  BY FinishMoves
<1>2. UNCHANGED <<dataVars, chunk, tp.current_chunk>>
  BY TypeParts DEF Finish, PoolTypes, Pools
<1>3. Place(t) = "finish" /\ Place(t)' = pc'[t]
  BY <1>1 DEF Place, Released
<1>4. t \in TeamThreads /\ Started(t) /\ ~Outside /\ Doing = node[t]
  BY <1>3, PlaceTells
<1>5. Meeting(0)' = Meeting(0) /\ Doing' = Doing
  BY <1>1, AppointmentKept, PhaseKept
<1>6. Started(t)'
  BY <1>1, <1>4 DEF Started, MovesAlone
<1>7. Past(t) /\ Past(t)'
  BY <1>1, <1>3, <1>4, <1>5, <1>6 DEF Past, BarrierPcs
<1> QED
  BY <1>1, <1>2, <1>3, <1>4, <1>5, <1>7, QuietStep

\* Nothing is computed in the barrier.
LEMMA InRoundKeepsWork ==
    ASSUME TypeOK, TeamInv, WorkInv, NEW t \in Threads, Barrier(t),
           UNCHANGED tp.n_barrier_passed,
           Place(t)' = Place(t) \/ (Place(t) \in BarrierPcs /\ Place(t)' \in BarrierPcs)
    PROVE  WorkInv'
<1>1. /\ pc[t] \in BarrierPcs
      /\ \A u \in Threads \ {t} : UNCHANGED Locals(u)
      /\ UNCHANGED <<tp.n_graph, tp.n_threads_cur, tp.n_threads_max, tp.abort, tp.aborted>>
      /\ UNCHANGED <<callVars, back, node, last_graph>>
      /\ Outside' <=> Outside
      /\ Started(t)' <=> Started(t)
  BY BarrierMoves
<1>2. MovesAlone(t)
  BY <1>1 DEF MovesAlone
<1>3. /\ AtNode(0)' = AtNode(0) /\ From(Place(t), node[t])' = From(Place(t)', node[t])
  BY <1>1 DEF AtNode, AfterNode, From, Done, IsProduct, callVars
<1>4. Meeting(t)' = Meeting(t)
  BY <1>1, <1>3 DEF Meeting
<1>5. Meeting(0)' = Meeting(0) /\ Doing' = Doing
  BY <1>1, <1>2, <1>4, AppointmentKept, PhaseKept
<1>6. Past(t)' <=> Past(t)
  BY <1>1, <1>5 DEF Past
<1>7. UNCHANGED <<dataVars, chunk, tp.current_chunk>>
  BY TypeParts DEF Barrier, BarRead, BarAdd, BarReset, BarPass, BarWait, Reads, localVars,
     PoolTypes, Pools
<1>8. Outside => pc'[0] = pc[0]
  <2>1. Outside => t # 0
    BY <1>1 DEF Outside, CallerPcs, BarrierPcs
  <2> QED
    BY <1>1, <2>1, Typing DEF Locals
<1>9. Place(t)' = "chunk" <=> Place(t) = "chunk"
  BY DEF BarrierPcs
<1> QED
  BY <1>1, <1>2, <1>5, <1>6, <1>7, <1>8, <1>9, QuietStep

\* Nor outside the graph, where a worker that begins is at the first node.
LEMMA WaitingKeepsWork ==
    ASSUME TypeOK, TeamInv, WorkInv, NEW t \in Threads \ {0},
           SecondaryThread(t) \/ SpuriousWake(t) \/ Return(t)
    PROVE  WorkInv'
<1>1. /\ MovesAlone(t) /\ UNCHANGED tp
      /\ pc[t] \in WaitingPcs \cup {"return"} /\ pc'[t] \in WaitingPcs \cup {"node"}
  BY WaitingMoves
<1>2. /\ UNCHANGED <<dataVars, chunk>>
      /\ pc'[t] = "node" => node'[t] = 0
  <2>1. CASE SpuriousWake(t)
    BY <2>1, TypeParts DEF SpuriousWake, localVars, Goto, Woken
  <2>2. CASE Return(t)
    BY <2>2, TypeParts DEF Return, Reads, localVars, Goto
  <2>3. CASE SecondaryThread(t)
    BY <2>3, TypeParts DEF SecondaryThread, PauseLoop, PauseLock, StopCheck, PollStart, Poll,
       PollSeen, SleepOrWork, Reads, localVars, Goto, LocalTypes
  <2> QED
    BY <2>1, <2>2, <2>3
<1>3. Meeting(0)' = Meeting(0) /\ Doing' = Doing
  BY <1>1, AppointmentKept, PhaseKept
<1>4. Place(t) = pc[t] /\ Place(t)' = pc'[t]
  BY <1>1 DEF Place, Released, WaitingPcs
<1>5. ~Past(t) /\ Place(t) # "chunk" /\ Place(t)' # "chunk"
  BY <1>1, <1>4 DEF Past, WaitingPcs, BarrierPcs
<1>6. Working \/ Filling => ~Past(t)'
  <2>1. Working \/ Filling => 0 # Doing + 1
    BY DoingType
  <2> QED
    BY <1>1, <1>2, <1>3, <1>4, <2>1 DEF Past, WaitingPcs, BarrierPcs
<1>7. Outside => pc'[0] = pc[0]
  BY <1>1, Typing DEF MovesAlone, Locals
<1>8. UNCHANGED <<dataVars, chunk, tp.current_chunk, tp.aborted>>
  BY <1>1, <1>2
<1> QED
  BY <1>1, <1>3, <1>5, <1>6, <1>7, <1>8, QuietStep

(***************************************************************************)
(* Steps that compute.                                                     *)
(***************************************************************************)

\* What the steps of a node have in common: the thread is at the node the team is
\* doing, not past it yet, and the team stays there.
LEMMA NodeStepWorks ==
    ASSUME TypeOK, TeamInv, WorkInv, NEW t \in Threads,
           Quantize(t) \/ Chunk(t) \/ Claim(t) \/ Compute(t)
    PROVE  /\ MovesAlone(t) /\ Meeting(0)' = Meeting(0)
           /\ t \in TeamThreads /\ Doing = node[t] /\ Doing \in Nat
           /\ Node(t) = graph[Doing + 1] /\ Doing \in DOMAIN written
           /\ graph[Doing + 1] \in GraphNode /\ graph[Doing + 1] \in Nodes
           /\ Place(t) = pc[t] /\ Place(t)' = pc'[t]
           /\ ~Past(t) /\ (Past(t)' <=> pc'[t] \in {"finish", "bar_read"})
           /\ ~doubled /\ Progress /\ Filled /\ Claimed /\ Normed
           /\ ~doubled' /\ Progress' /\ Filled' /\ Claimed' /\ Normed' => WorkInv'
<1>1. /\ MovesAlone(t) /\ UNCHANGED <<tp.abort, node, last_graph>>
      /\ Meeting(t)' = Meeting(t)
  BY NodeStepMoves
<1>2. /\ pc[t] \in {"quantize", "chunk", "claim", "compute"}
      /\ pc'[t] \in {"bar_read", "chunk", "claim", "finish"}
  BY TypeParts DEF Quantize, Chunk, Claim, Compute, MeetThen, Goto
<1>3. Place(t) = pc[t] /\ Place(t)' = pc'[t]
  BY <1>2 DEF Place, Released
<1>4. /\ t \in TeamThreads /\ Started(t) /\ ~Outside
      /\ node[t] \in Nat /\ node[t] < Len(graph) /\ Doing = node[t]
  BY <1>2, <1>3, PlaceTells
<1>5. Meeting(0)' = Meeting(0)
  BY <1>1, AppointmentKept
<1>6. Doing' = Doing
  BY <1>1, <1>5, PhaseKept
<1>7. Started(t)'
  BY <1>1, <1>2, <1>4 DEF Started, MovesAlone
<1>8. ~Past(t)
  BY <1>2, <1>3 DEF Past, BarrierPcs
<1>9. Past(t)' <=> pc'[t] \in {"finish", "bar_read"}
  <2>1. pc'[t] # "node"
    BY <1>2
  <2> QED
    BY <1>2, <1>3, <1>7, <2>1 DEF Past, BarrierPcs
<1>10. ~doubled /\ Progress /\ Filled /\ Claimed /\ Normed
  BY <1>4 DEF WorkInv
<1>11. pc'[0] \notin CallerPcs
  BY <1>1, <1>4 DEF MovesAlone, Outside
<1>12. ~doubled' /\ Progress' /\ Filled' /\ Claimed' /\ Normed' => WorkInv'
  BY <1>11 DEF WorkInv, CallerPcs
<1>13. Node(t) = graph[Doing + 1]
  BY <1>4 DEF Node
<1>14. /\ graph[Doing + 1] \in GraphNode /\ graph[Doing + 1] \in Nodes
       /\ Doing \in DOMAIN written
  BY <1>4, NodeType
<1> QED
  BY <1>1, <1>3, <1>4, <1>5, <1>8, <1>9, <1>10, <1>12, <1>13, <1>14

\* A thread that has written its part of src1 is past the filling.
LEMMA QuantizeKeepsWork ==
    ASSUME TypeOK, TeamInv, WorkInv, NEW t \in Threads, Quantize(t)
    PROVE  WorkInv'
<1>1. /\ MovesAlone(t) /\ Meeting(0)' = Meeting(0)
      /\ t \in TeamThreads /\ Doing = node[t]
      /\ Place(t) = pc[t] /\ Place(t)' = pc'[t]
      /\ ~doubled /\ Progress /\ Filled /\ Claimed /\ Normed
      /\ ~doubled' /\ Progress' /\ Filled' /\ Claimed' /\ Normed' => WorkInv'
  BY NodeStepWorks
<1>2. /\ Working' <=> Working
      /\ Filling' <=> Filling
      /\ Doing' = Doing
      /\ Multiplying' <=> Multiplying
      /\ Norming' <=> Norming
      /\ Nth' = Nth /\ TeamThreads' = TeamThreads /\ graph' = graph
      /\ TeamThreads \subseteq Threads
      /\ \A u \in Threads \ {t} : Past(u)' <=> Past(u)
  BY <1>1, PhaseKept
<1>3. /\ pc[t] = "quantize" /\ UNCHANGED <<written, doubled>>
      /\ quantized' = [quantized EXCEPT ![t] = node[t]]
      /\ chunk' = [chunk EXCEPT ![t] = t]
      /\ t = 0 => tp'.current_chunk = Nth
      /\ t # 0 => tp'.current_chunk = tp.current_chunk
  BY TypeParts DEF Quantize, PoolTypes, Pools
<1>4. Filling /\ ~Working
  BY <1>1, <1>3, PlaceTells DEF Working, Filling
<1>5. /\ quantized'[t] = Doing /\ chunk'[t] = t
      /\ \A u \in Threads \ {t} : quantized'[u] = quantized[u] /\ chunk'[u] = chunk[u]
  <2>1. quantized \in [Threads -> Nat \cup {NoNode}] /\ chunk \in [Threads -> Nat]
    BY TypeParts DEF DataTypes, LocalTypes
  <2> QED
    BY <1>1, <1>3, <2>1
<1>6. Filled'
  <2> SUFFICES ASSUME NEW u \in TeamThreads, Past(u)'
               PROVE  /\ quantized'[u] = Doing /\ chunk'[u] = u
                      /\ u = 0 => tp'.current_chunk = Nth
    BY <1>2 DEF Filled
  <2>1. CASE u = t
    BY <1>3, <1>5, <2>1
  <2>2. CASE u # t
    <3>1. u \in Threads \ {t} /\ Past(u)
      BY <1>2, <2>2
    <3>2. quantized[u] = Doing /\ chunk[u] = u /\ (u = 0 => tp.current_chunk = Nth)
      BY <1>1, <1>4, <3>1 DEF Filled
    <3> QED
      BY <1>3, <1>5, <3>1, <3>2
  <2> QED
    BY <2>1, <2>2
<1>7. Progress'
  BY <1>1, <1>2, <1>3 DEF Progress, Complete
<1>8. Claimed' /\ Normed'
  BY <1>2, <1>4 DEF Claimed, Normed, Multiplying, Norming
<1> QED
  BY <1>1, <1>3, <1>6, <1>7, <1>8

\* A thread that computes its rows computes them for the first time, and is past
\* the node.
LEMMA ComputeKeepsWork ==
    ASSUME TypeOK, TeamInv, WorkInv, NEW t \in Threads, Compute(t)
    PROVE  WorkInv'
<1>1. /\ MovesAlone(t) /\ Meeting(0)' = Meeting(0)
      /\ t \in TeamThreads /\ Doing = node[t] /\ Doing \in Nat
      /\ Node(t) = graph[Doing + 1] /\ Doing \in DOMAIN written
      /\ graph[Doing + 1] \in GraphNode
      /\ Place(t) = pc[t] /\ Place(t)' = pc'[t]
      /\ ~Past(t) /\ (Past(t)' <=> pc'[t] \in {"finish", "bar_read"})
      /\ ~doubled /\ Progress /\ Filled /\ Claimed /\ Normed
      /\ ~doubled' /\ Progress' /\ Filled' /\ Claimed' /\ Normed' => WorkInv'
  BY NodeStepWorks
<1>2. /\ Working' <=> Working
      /\ Filling' <=> Filling
      /\ Doing' = Doing
      /\ Multiplying' <=> Multiplying
      /\ Norming' <=> Norming
      /\ Nth' = Nth /\ TeamThreads' = TeamThreads /\ graph' = graph
      /\ TeamThreads \subseteq Threads
      /\ \A u \in Threads \ {t} : Past(u)' <=> Past(u)
  BY <1>1, PhaseKept
<1> DEFINE node_n == graph[Doing + 1]
           rows == RowElements(node_n, Nth, t)
<1>3. /\ pc[t] = "compute" /\ pc'[t] = "finish"
      /\ written' = [written EXCEPT ![Doing] = @ \cup rows]
      /\ doubled' = (doubled \/ written[Doing] \cap rows # {})
  BY <1>1, TypeParts DEF Compute, Writes, Goto
<1>4. Norming /\ Working /\ Past(t)'
  BY <1>1, <1>3, PlaceTells DEF Norming
<1>5. rows = {e \in Elements(node_n) : e[2] % Nth = t}
  BY DEF RowElements
<1>6. written[Doing] = {e \in Elements(node_n) : Past(e[2] % Nth)}
  BY <1>1, <1>4 DEF Normed
<1>7. ~doubled'
  <2>1. written[Doing] \cap rows = {}
    BY <1>1, <1>5, <1>6
  <2> QED
    BY <1>1, <1>3, <2>1
<1>8. /\ written'[Doing] = written[Doing] \cup rows
      /\ DOMAIN written' = DOMAIN written
      /\ \A n \in DOMAIN written \ {Doing} : written'[n] = written[n]
  BY <1>1, <1>3
<1>9. Normed'
  <2>1. \A e \in Elements(node_n) : Past(e[2] % Nth)' <=> Past(e[2] % Nth) \/ e[2] % Nth = t
    <3> SUFFICES ASSUME NEW e \in Elements(node_n)
                 PROVE  Past(e[2] % Nth)' <=> Past(e[2] % Nth) \/ e[2] % Nth = t
      OBVIOUS
    <3>1. e[2] % Nth \in TeamThreads
      BY <1>1, RowOwner
    <3>2. e'[2] % Nth' = e[2] % Nth
      BY <1>2
    <3> QED
      BY <1>2, <1>4, <3>1, <3>2
  <2>2. written'[Doing] = {e \in Elements(node_n) : Past(e[2] % Nth)'}
    BY <1>5, <1>6, <1>8, <2>1
  <2> QED
    BY <1>2, <2>2 DEF Normed
<1>10. Progress'
  BY <1>1, <1>2, <1>4, <1>8 DEF Progress, Complete
<1>11. Filled' /\ Claimed'
  BY <1>2, <1>4, DoingType DEF Claimed, Filled, Multiplying, Norming
<1> QED
  BY <1>1, <1>7, <1>9, <1>10, <1>11

\* A chunk of a product of the graph, as the team computes it: a part of the
\* result of its own.
LEMMA ChunkParts ==
    ASSUME TypeOK, NEW n \in GraphNode, n \in Nodes
    PROVE  /\ NChunks(n, Nth) \in Nat
           /\ DOMAIN Partition[n][Nth] = 0 .. NChunks(n, Nth) - 1
           /\ \A c \in 0 .. NChunks(n, Nth) - 1 :
                  Partition[n][Nth][c] = {e \in Elements(n) : ChunkOf(n, Nth, e) = c}
           /\ \A e \in Elements(n) : ChunkOf(n, Nth, e) \in 0 .. NChunks(n, Nth) - 1
<1>1. Nth \in 1 .. MaxThreads /\ Nth \in Nat \ {0}
  <2>1. Nth \in 1 .. MaxThreads
    BY Typing
  <2> QED
    BY <2>1, PoolAssumption
<1> DEFINE nth == Nth
           chunks == [c \in 0 .. NChunks(n, nth) - 1 |-> ChunkElements(n, nth, c)]
<1> HIDE DEF nth
<1>2. nth \in 1 .. MaxThreads /\ nth \in Nat \ {0}
  BY <1>1 DEF nth
<1>3. Partition[n][nth] = chunks
  BY <1>2 DEF Partition
<1>4. NChunks(n, nth) \in Nat
  BY <1>2, GridType
<1>5. \A e \in Elements(n) : ChunkOf(n, nth, e) \in 0 .. NChunks(n, nth) - 1
  BY <1>2, ChunksPartition
<1>6. ASSUME NEW c \in 0 .. NChunks(n, nth) - 1
      PROVE  ChunkElements(n, nth, c) = {e \in Elements(n) : ChunkOf(n, nth, e) = c}
  <2>1. \A e \in ChunkElements(n, nth, c) : e \in Elements(n) /\ c = ChunkOf(n, nth, e)
    BY <1>2, <1>6, ChunksPartition
  <2>2. \A e \in Elements(n) : e \in ChunkElements(n, nth, ChunkOf(n, nth, e))
    BY <1>2, ChunksPartition
  <2> QED
    BY <2>1, <2>2
<1> QED
  BY <1>3, <1>4, <1>5, <1>6 DEF nth

\* A thread that claims the chunk at the counter is the only one to hold it.
LEMMA ClaimKeepsWork ==
    ASSUME TypeOK, TeamInv, WorkInv, NEW t \in Threads, Claim(t)
    PROVE  WorkInv'
<1>1. /\ MovesAlone(t) /\ Meeting(0)' = Meeting(0)
      /\ t \in TeamThreads /\ Doing = node[t] /\ Doing \in Nat
      /\ graph[Doing + 1] \in GraphNode /\ graph[Doing + 1] \in Nodes
      /\ Place(t) = pc[t] /\ Place(t)' = pc'[t]
      /\ ~Past(t) /\ (Past(t)' <=> pc'[t] \in {"finish", "bar_read"})
      /\ ~doubled /\ Progress /\ Filled /\ Claimed /\ Normed
      /\ ~doubled' /\ Progress' /\ Filled' /\ Claimed' /\ Normed' => WorkInv'
  BY NodeStepWorks
<1>2. /\ Working' <=> Working
      /\ Filling' <=> Filling
      /\ Doing' = Doing
      /\ Multiplying' <=> Multiplying
      /\ Norming' <=> Norming
      /\ Nth' = Nth /\ TeamThreads' = TeamThreads /\ graph' = graph
      /\ TeamThreads \subseteq Threads
      /\ \A u \in Threads \ {t} : Place(u)' = Place(u) /\ (Past(u)' <=> Past(u))
  BY <1>1, PhaseKept
<1> DEFINE cur == tp.current_chunk
           n == graph[Doing + 1]
           nth == Nth
           of(e) == ChunkOf(n, nth, e)
<1>3. /\ pc[t] = "claim" /\ pc'[t] = "chunk" /\ UNCHANGED dataVars
      /\ chunk' = [chunk EXCEPT ![t] = cur]
      /\ tp'.current_chunk = cur + 1
  BY TypeParts DEF Claim, Goto, PoolTypes, Pools
<1>4. Multiplying /\ Working
  BY <1>1, <1>3, PlaceTells DEF Multiplying
<1>5. /\ cur \in Nat /\ nth \in Nat /\ NChunks(n, nth) \in Nat
      /\ \A u \in Threads : chunk[u] \in Nat
      /\ \A e \in Elements(n) : of(e) \in Nat
  BY <1>1, Typing, ChunkParts, SMTT(30)
<1>6. chunk'[t] = cur /\ \A u \in Threads \ {t} : chunk'[u] = chunk[u]
  BY <1>3, TypeParts DEF LocalTypes
<1>7. ~Past(t)' /\ Place(t)' = "chunk" /\ Place(t) # "chunk"
  BY <1>1, <1>3
<1>8. InHand' = InHand \cup {cur}
  <2>1. {v \in TeamThreads : Place(v) = "chunk"}' = {v \in TeamThreads : Place(v) = "chunk"} \cup {t}
    BY <1>1, <1>2, <1>7
  <2>2. \A u \in {v \in TeamThreads : Place(v) = "chunk"} : chunk'[u] = chunk[u]
    BY <1>2, <1>6, <1>7
  <2> QED
    BY <1>6, <2>1, <2>2 DEF InHand
<1>9. /\ nth <= cur
      /\ \A u \in TeamThreads : /\ quantized[u] = Doing
                                /\ Place(u) = "chunk" => chunk[u] < cur
                                /\ Past(u) => NChunks(n, nth) <= cur
      /\ \A u, v \in TeamThreads :
             Place(u) = "chunk" /\ Place(v) = "chunk" /\ chunk[u] = chunk[v] => u = v
      /\ written[Doing] = {e \in Elements(n) : of(e) < cur /\ of(e) \notin InHand}
  BY <1>1, <1>4 DEF Claimed
<1> HIDE DEF cur, n, nth, of
<1>10. written[Doing] = {e \in Elements(n) : of(e) < cur + 1 /\ of(e) \notin InHand'}
  BY <1>5, <1>8, <1>9
<1>11. \A u \in TeamThreads : /\ Place(u)' = "chunk" => chunk'[u] < cur + 1
                              /\ Past(u)' => NChunks(n, nth) <= cur + 1
  <2> SUFFICES ASSUME NEW u \in TeamThreads
               PROVE  /\ Place(u)' = "chunk" => chunk'[u] < cur + 1
                      /\ Past(u)' => NChunks(n, nth) <= cur + 1
    OBVIOUS
  <2>1. CASE u = t
    BY <1>5, <1>6, <1>7, <2>1
  <2>2. CASE u # t
    <3>1. /\ u \in Threads /\ Place(u)' = Place(u) /\ (Past(u)' <=> Past(u))
          /\ chunk'[u] = chunk[u]
      BY <1>2, <1>6, <2>2
    <3> QED
      BY <1>5, <1>9, <3>1
  <2> QED
    BY <2>1, <2>2
<1>12. ASSUME NEW u \in TeamThreads, NEW v \in TeamThreads,
              Place(u)' = "chunk", Place(v)' = "chunk", chunk'[u] = chunk'[v]
       PROVE  u = v
  <2>1. \A w \in TeamThreads \ {t} : /\ w \in Threads /\ Place(w)' = Place(w)
                                     /\ chunk'[w] = chunk[w]
    BY <1>2, <1>6
  <2>2. \A w \in TeamThreads : Place(w) = "chunk" => chunk[w] # cur
    BY <1>2, <1>5, <1>9
  <2> QED
    BY <1>6, <1>9, <1>12, <2>1, <2>2
<1>13. nth <= cur + 1 /\ \A u \in TeamThreads : quantized'[u] = Doing
  BY <1>3, <1>5, <1>9 DEF dataVars
<1>14. Claimed'
  <2>1. written'[Doing] = {e \in Elements(n) : of(e) < cur + 1 /\ of(e) \notin InHand'}
    BY <1>3, <1>10 DEF dataVars
  <2> QED
    BY <1>2, <1>3, <1>11, <1>12, <1>13, <2>1 DEF Claimed, n, nth, of
<1>15. Progress'
  BY <1>1, <1>2, <1>3 DEF Progress, Complete, dataVars
<1>16. Filled' /\ Normed' /\ ~doubled'
  BY <1>1, <1>2, <1>3, <1>4, DoingType DEF Normed, Filled, Multiplying, Norming, dataVars
<1> QED
  BY <1>1, <1>14, <1>15, <1>16

\* A thread that computes the chunk it holds computes it for the first time; one
\* that holds a chunk the product does not have, or that needs no other, is past
\* the node, and no chunk is left below the counter.
LEMMA ChunkKeepsWork ==
    ASSUME TypeOK, TeamInv, WorkInv, NEW t \in Threads, Chunk(t)
    PROVE  WorkInv'
<1>1. /\ MovesAlone(t) /\ Meeting(0)' = Meeting(0)
      /\ t \in TeamThreads /\ Doing = node[t] /\ Doing \in Nat
      /\ Node(t) = graph[Doing + 1] /\ Doing \in DOMAIN written
      /\ graph[Doing + 1] \in GraphNode /\ graph[Doing + 1] \in Nodes
      /\ Place(t) = pc[t] /\ Place(t)' = pc'[t]
      /\ ~Past(t) /\ (Past(t)' <=> pc'[t] \in {"finish", "bar_read"})
      /\ ~doubled /\ Progress /\ Filled /\ Claimed /\ Normed
      /\ ~doubled' /\ Progress' /\ Filled' /\ Claimed' /\ Normed' => WorkInv'
  BY NodeStepWorks
<1>2. /\ Working' <=> Working
      /\ Filling' <=> Filling
      /\ Doing' = Doing
      /\ Multiplying' <=> Multiplying
      /\ Norming' <=> Norming
      /\ Nth' = Nth /\ TeamThreads' = TeamThreads /\ graph' = graph
      /\ TeamThreads \subseteq Threads
      /\ \A u \in Threads \ {t} : Place(u)' = Place(u) /\ (Past(u)' <=> Past(u))
  BY <1>1, PhaseKept
<1> DEFINE cur == tp.current_chunk
           n == graph[Doing + 1]
           nth == Nth
           of(e) == ChunkOf(n, nth, e)
           c == chunk[t]
           count == NChunks(n, nth)
           mine == {e \in Elements(n) : of(e) = c}
<1>3. pc[t] = "chunk" /\ tp' = tp /\ UNCHANGED chunk
  BY DEF Chunk, localVars
<1>4. Multiplying /\ Working
  BY <1>1, <1>3, PlaceTells DEF Multiplying
<1>5. /\ cur \in Nat /\ nth \in Nat /\ count \in Nat /\ c \in Nat
      /\ DOMAIN Partition[n][nth] = 0 .. count - 1
      /\ \A x \in 0 .. count - 1 : Partition[n][nth][x] = {e \in Elements(n) : of(e) = x}
      /\ \A e \in Elements(n) : of(e) \in 0 .. count - 1
  <2>1. cur \in Nat /\ nth \in Nat /\ c \in Nat
    BY Typing
  <2>2. /\ NChunks(n, Nth) \in Nat
        /\ DOMAIN Partition[n][Nth] = 0 .. NChunks(n, Nth) - 1
        /\ \A x \in 0 .. NChunks(n, Nth) - 1 :
               Partition[n][Nth][x] = {e \in Elements(n) : ChunkOf(n, Nth, e) = x}
        /\ \A e \in Elements(n) : ChunkOf(n, Nth, e) \in 0 .. NChunks(n, Nth) - 1
    <3> HIDE DEF n
    <3> QED
      BY <1>1, ChunkParts DEF n
  <2> HIDE DEF n, nth
  <2> QED
    BY <2>1, <2>2 DEF nth
<1>6. /\ nth <= cur
      /\ \A u \in TeamThreads : /\ quantized[u] = Doing
                                /\ Place(u) = "chunk" => chunk[u] < cur
                                /\ Past(u) => count <= cur
      /\ \A u, v \in TeamThreads :
             Place(u) = "chunk" /\ Place(v) = "chunk" /\ chunk[u] = chunk[v] => u = v
      /\ written[Doing] = {e \in Elements(n) : of(e) < cur /\ of(e) \notin InHand}
  BY <1>1, <1>4 DEF Claimed
<1>7. Place(t) = "chunk" /\ c < cur /\ c \in InHand
  BY <1>1, <1>3, <1>6 DEF InHand
<1>8. pc'[t] \in {"claim", "finish"}
  BY TypeParts DEF Chunk, Goto
<1>9. InHand' = InHand \ {c}
  <2>1. {v \in TeamThreads : Place(v) = "chunk"}' = {v \in TeamThreads : Place(v) = "chunk"} \ {t}
    BY <1>1, <1>2, <1>8
  <2>2. \A u \in {v \in TeamThreads : Place(v) = "chunk"} \ {t} : chunk[u] # c
    BY <1>1, <1>6, <1>7
  <2> QED
    BY <1>3, <1>7, <2>1, <2>2 DEF InHand
<1>10. DOMAIN written' = DOMAIN written /\ UNCHANGED quantized
       /\ \A m \in DOMAIN written \ {Doing} : written'[m] = written[m]
  BY <1>1 DEF Chunk, Writes, dataVars
<1> HIDE DEF cur, n, nth, of, c, count
<1>11. /\ ~doubled' /\ written'[Doing] = written[Doing] \cup mine
       /\ pc'[t] = "finish" => count <= cur
  <2>1. CASE c \in 0 .. count - 1
    <3>1. /\ written' = [written EXCEPT ![Doing] = @ \cup mine]
          /\ doubled' = (doubled \/ written[Doing] \cap mine # {})
          /\ pc'[t] = IF nth >= count THEN "finish" ELSE "claim"
      <4>1. /\ Writes(t, Partition[n][nth][c])
            /\ Goto(t, IF nth >= count THEN "finish" ELSE "claim")
        BY <1>1, <1>5, <2>1 DEF Chunk, n, nth, c, count
      <4>2. Partition[n][nth][c] = mine
        BY <1>5, <2>1
      <4> QED
        BY <1>1, <4>1, <4>2, TypeParts DEF Writes, Goto
    <3>2. written[Doing] \cap mine = {}
      BY <1>6, <1>7
    <3> HIDE DEF mine
    <3>3. ~doubled'
      BY <1>1, <3>1, <3>2
    <3>4. written'[Doing] = written[Doing] \cup mine
      BY <1>1, <3>1
    <3>5. pc'[t] = "finish" => count <= cur
      BY <1>5, <1>6, <3>1
    <3> QED
      BY <3>3, <3>4, <3>5
  <2>2. CASE c \notin 0 .. count - 1
    <3>1. UNCHANGED dataVars
      BY <1>1, <1>5, <2>2 DEF Chunk, n, nth, c
    <3>2. mine = {}
      BY <1>5, <2>2
    <3>3. count <= cur
      BY <1>5, <1>7, <2>2
    <3> QED
      BY <1>1, <3>1, <3>2, <3>3 DEF dataVars
  <2> QED
    BY <2>1, <2>2
<1>12. written'[Doing] = {e \in Elements(n) : of(e) < cur /\ of(e) \notin InHand'}
  BY <1>6, <1>7, <1>9, <1>11
<1>13. \A u \in TeamThreads : /\ Place(u)' = "chunk" => chunk'[u] < cur
                              /\ Past(u)' => count <= cur
  <2> SUFFICES ASSUME NEW u \in TeamThreads
               PROVE  /\ Place(u)' = "chunk" => chunk'[u] < cur
                      /\ Past(u)' => count <= cur
    OBVIOUS
  <2>1. CASE u = t
    BY <1>1, <1>8, <1>11, <2>1
  <2>2. CASE u # t
    BY <1>2, <1>3, <1>6, <2>2
  <2> QED
    BY <2>1, <2>2
<1>14. \A u, v \in TeamThreads :
           Place(u)' = "chunk" /\ Place(v)' = "chunk" /\ chunk'[u] = chunk'[v] => u = v
  BY <1>1, <1>2, <1>3, <1>6, <1>8
<1>15. Claimed'
  BY <1>2, <1>3, <1>6, <1>10, <1>12, <1>13, <1>14 DEF Claimed, n, nth, cur, count, of
<1>16. Progress'
  BY <1>1, <1>2, <1>4, <1>10 DEF Progress, Complete
<1>17. Filled' /\ Normed'
  BY <1>2, <1>4, DoingType DEF Normed, Filled, Multiplying, Norming
<1> QED
  BY <1>1, <1>11, <1>15, <1>16, <1>17

(***************************************************************************)
(* The team meets.                                                         *)
(***************************************************************************)

\* When all have come to the barrier at the end of a node, nothing of the node is
\* left to compute.
LEMMA AllPastComplete ==
    ASSUME TypeOK, TeamInv, WorkInv, Working,
           \A u \in TeamThreads : Started(u) /\ Place(u) \in BarrierPcs
    PROVE  Complete(Doing)
<1>1. ~Outside /\ Doing \in Nat /\ Doing < Len(graph)
  BY DoingType
<1>2. Claimed /\ Normed
  BY <1>1 DEF WorkInv
<1> DEFINE n == graph[Doing + 1]
<1>3. n \in GraphNode /\ n \in Nodes
  BY <1>1, NodeType
<1>4. \A u \in TeamThreads : Past(u) /\ Place(u) # "chunk"
  BY DEF Past, BarrierPcs
<1>5. CASE IsProduct(Doing)
  <2>1. InHand = {}
    BY <1>4 DEF InHand
  <2>2. /\ NChunks(n, Nth) <= tp.current_chunk
        /\ written[Doing] = {e \in Elements(n) : ChunkOf(n, Nth, e) < tp.current_chunk}
    BY <1>2, <1>4, <1>5, <2>1, Typing DEF Claimed, Multiplying
  <2>3. /\ NChunks(n, Nth) \in Nat /\ tp.current_chunk \in Nat
        /\ \A e \in Elements(n) : ChunkOf(n, Nth, e) \in 0 .. NChunks(n, Nth) - 1
    BY <1>3, ChunkParts, Typing
  <2> HIDE DEF n
  <2>4. \A e \in Elements(n) : ChunkOf(n, Nth, e) < tp.current_chunk
    BY <2>2, <2>3
  <2>5. written[Doing] = Elements(n)
    BY <2>2, <2>4
  <2> QED
    BY <2>5 DEF Complete, n
<1>6. CASE ~IsProduct(Doing)
  <2>1. written[Doing] = {e \in Elements(n) : Past(e[2] % Nth)}
    BY <1>2, <1>6 DEF Normed, Norming
  <2>2. \A e \in Elements(n) : Past(e[2] % Nth)
    BY <1>3, <1>4, RowOwner
  <2>3. written[Doing] = Elements(n)
    BY <2>1, <2>2
  <2> QED
    BY <2>3 DEF Complete
<1> QED
  BY <1>5, <1>6

\* When the barrier lets the team out, it starts to compute on a buffer that is
\* complete, or takes up the next node, or leaves the graph with every node
\* before complete and none after begun.
LEMMA CrossingKeepsWork ==
    ASSUME TypeOK, TeamInv, WorkInv, NEW t \in Threads, Barrier(t),
           \A u \in TeamThreads : /\ Place(u) \in BarrierPcs
                                  /\ Place(u)' = back[u]
                                  /\ Started(u) /\ Started(u)'
    PROVE  WorkInv'
<1> DEFINE k == node[0]
           b == back[0]
<1>1. /\ UNCHANGED <<tp.n_threads_cur, tp.abort, tp.aborted, callVars, back, node>>
      /\ Outside' <=> Outside
  BY BarrierMoves
<1>2. UNCHANGED <<dataVars, chunk, tp.current_chunk>>
  BY TypeParts DEF Barrier, BarRead, BarAdd, BarReset, BarPass, BarWait, Reads, localVars,
     PoolTypes, Pools
<1>3. /\ 0 \in Threads /\ 0 \in TeamThreads /\ k \in Nat /\ Len(graph) \in Nat
      /\ Nth \in Nat \ {0} /\ TeamThreads \subseteq Threads
      /\ b \in {"node", "chunk", "return"}
  BY Typing
<1>4. /\ graph' = graph /\ Nth' = Nth /\ TeamThreads' = TeamThreads
      /\ \A n : Complete(n)' <=> Complete(n)
  BY <1>1, <1>2 DEF callVars, Nth, TeamThreads, Complete, dataVars
<1>5. ~Outside
  BY <1>3, TeamRests DEF RestPlaces, WaitingPcs, CallerPcs, BarrierPcs
<1>6. Meeting(0) = <<b, k>>
  BY <1>3 DEF Meeting
<1>7. \A u \in TeamThreads : back[u] = b /\ node[u] = k
  <2>1. \A u \in TeamThreads : Meeting(u) = Meeting(0)
    BY DEF TeamInv, Lockstep
  <2>2. \A u \in TeamThreads : Meeting(u) = <<back[u], node[u]>>
    BY DEF Meeting
  <2> HIDE DEF k, b
  <2> QED
    BY <1>6, <2>1, <2>2
<1>8. \A u \in TeamThreads : /\ Place(u)' = b /\ node'[u] = k
                             /\ Started(u)'
  BY <1>1, <1>7
<1>9. Meeting(0)' = From(b, k)
  BY <1>1, <1>3, <1>4, LetOut
<1>10. /\ b = "chunk" => k < Len(graph) /\ IsProduct(k)
       /\ b = "node" => k > 0 /\ k < Len(graph)
       /\ b = "return" => k = Len(graph) \/ tp.abort = k
  BY <1>3 DEF TeamInv, Places, WellPlaced
<1>11. ~doubled /\ Progress /\ Filled /\ Claimed /\ Normed
  BY <1>5 DEF WorkInv
<1>12. DOMAIN written = 0 .. Len(graph) - 1
  BY TypeParts DEF DataTypes
<1>13. ASSUME Progress', Filled', Claimed', Normed' PROVE WorkInv'
  <2>1. pc'[0] \notin CallerPcs
    BY <1>1, <1>5 DEF Outside
  <2> QED
    BY <1>2, <1>11, <1>13, <2>1 DEF WorkInv, CallerPcs, dataVars
<1>14. CASE b = "chunk"
  <2>1. Filling /\ ~Working /\ Doing = k
    BY <1>6, <1>14 DEF Filling, Working, Doing
  <2>2. \A u \in TeamThreads : Past(u)
    BY DEF Past
  <2>3. tp.current_chunk = Nth /\ \A u \in TeamThreads : quantized[u] = k /\ chunk[u] = u
    BY <1>3, <1>11, <2>1, <2>2 DEF Filled
  <2>4. Meeting(0)' = AfterNode(k)
    BY <1>9, <1>14 DEF From
  <2>5. /\ Meeting(0)'[1] # "chunk" /\ Meeting(0)'[2] = k + 1
        /\ Meeting(0)'[1] = "node" \/ (Meeting(0)'[1] = "return" /\ k + 1 = Len(graph))
    BY <1>3, <1>10, <1>14, <2>4 DEF AfterNode
  <2>6. Working' /\ ~Filling'
    BY <1>3, <1>4, <2>5 DEF Working, Filling
  <2>7. Doing' = k
    BY <1>3, <2>5, <2>6 DEF Doing
  <2>8. ~Norming'
    BY <1>4, <1>10, <1>14, <2>7 DEF Norming, IsProduct
  <2>9. Progress'
    BY <1>2, <1>4, <1>11, <2>1, <2>6, <2>7 DEF Progress, dataVars
  <2>10. \A u \in TeamThreads : ~Past(u)'
    BY <1>8, <1>14 DEF Past, BarrierPcs
  <2>11. InHand' = TeamThreads
    <3>1. {v \in TeamThreads : Place(v) = "chunk"}' = TeamThreads
      BY <1>4, <1>8, <1>14
    <3>2. \A u \in TeamThreads : chunk'[u] = u
      BY <1>2, <2>3
    <3> QED
      BY <3>1, <3>2 DEF InHand
  <2> DEFINE n == graph[k + 1]
  <2>12. n \in GraphNode /\ n \in Nodes /\ k \in DOMAIN written
    BY <1>3, <1>10, <1>14, NodeType
  <2>13. written'[k] = {}
    BY <1>2, <1>11, <2>1, <2>12 DEF Progress, dataVars
  <2>14. \A e \in Elements(n) : ~(ChunkOf(n, Nth, e) < Nth /\ ChunkOf(n, Nth, e) \notin TeamThreads)
    <3>1. \A e \in Elements(n) : ChunkOf(n, Nth, e) \in Nat
      BY <2>12, ChunkParts
    <3> QED
      BY <1>3, <3>1 DEF TeamThreads
  <2>15. Claimed'
    <3>1. \A u \in TeamThreads : /\ quantized'[u] = k /\ chunk'[u] = u
                                 /\ u < Nth
      BY <1>2, <1>3, <2>3 DEF dataVars, TeamThreads
    <3>2. written'[k] = {e \in Elements(n) : ChunkOf(n, Nth, e) < Nth
                                             /\ ChunkOf(n, Nth, e) \notin TeamThreads}
      BY <2>13, <2>14
    <3>3. tp'.current_chunk = Nth
      BY <1>2, <2>3
    <3> HIDE DEF k
    <3> QED
      BY <1>3, <1>4, <2>7, <2>10, <2>11, <3>1, <3>2, <3>3 DEF Claimed
  <2> QED
    BY <1>13, <2>6, <2>8, <2>9, <2>15 DEF Filled, Normed
<1>15. CASE b # "chunk"
  <2>1. ~Filling
    BY <1>6, <1>15 DEF Filling
  <2>2. \A m \in DOMAIN written : /\ m < k => Complete(m)
                                  /\ m >= k => written[m] = {}
    <3>1. CASE Working
      <4>1. Doing = k - 1
        BY <1>6, <3>1 DEF Doing
      <4>2. Complete(Doing)
        BY <3>1, AllPastComplete
      <4> QED
        BY <1>3, <1>11, <1>12, <4>1, <4>2 DEF Progress
    <3>2. CASE ~Working
      <4>1. Doing = k
        BY <1>6, <3>2 DEF Doing
      <4> QED
        BY <1>3, <1>11, <1>12, <3>2, <4>1 DEF Progress
    <3> QED
      BY <3>1, <3>2
  <2>3. Meeting(0)' = IF b = "node" THEN AtNode(k) ELSE Done(k)
    BY <1>3, <1>9, <1>15 DEF From
  <2>4. Doing' = k
    <3>1. CASE b = "return"
      BY <1>5, <2>3, <3>1 DEF Doing, Working, Done
    <3>2. CASE b = "node"
      <4>1. Meeting(0)' = AtNode(k) /\ k < Len(graph)
        BY <1>10, <2>3, <3>2
      <4>2. CASE tp.abort = k \/ IsProduct(k)
        <5>1. /\ Meeting(0)'[1] \in {"chunk", "return"} /\ Meeting(0)'[2] = k
              /\ Meeting(0)'[2] # Len(graph)
          BY <1>3, <4>1, <4>2 DEF AtNode
        <5> QED
          BY <1>4, <5>1 DEF Doing, Working
      <4>3. CASE tp.abort # k /\ ~IsProduct(k)
        <5>1. Meeting(0)' = AfterNode(k)
          BY <4>1, <4>3 DEF AtNode
        <5>2. /\ Meeting(0)'[2] = k + 1
              /\ Meeting(0)'[1] = "node" \/ (Meeting(0)'[1] = "return" /\ k + 1 = Len(graph))
          BY <1>3, <4>1, <5>1 DEF AfterNode
        <5> QED
          BY <1>3, <1>4, <5>2 DEF Doing, Working
      <4> QED
        BY <4>2, <4>3
    <3> QED
      BY <1>3, <1>15, <3>1, <3>2
  <2>5. Working' => ~IsProduct(k) /\ k < Len(graph)
    <3>1. CASE b = "return"
      BY <1>5, <2>3, <3>1 DEF Working, Done
    <3>2. CASE b = "node"
      <4>1. Meeting(0)' = AtNode(k) /\ k < Len(graph)
        BY <1>10, <2>3, <3>2
      <4> QED
        BY <1>3, <1>4, <4>1 DEF Working, AtNode
    <3> QED
      BY <1>3, <1>15, <3>1, <3>2
  <2>6. Progress'
    BY <1>2, <1>3, <1>4, <1>12, <2>2, <2>4 DEF Progress, dataVars
  <2>7. \A u \in TeamThreads : ~Past(u)'
    <3>1. k # k + 1
      BY <1>3
    <3> QED
      BY <1>3, <1>8, <1>15, <2>4, <3>1 DEF Past, BarrierPcs
  <2>8. Filled'
    BY <1>4, <2>7 DEF Filled
  <2>9. Claimed'
    BY <1>4, <2>4, <2>5 DEF Claimed, Multiplying, IsProduct
  <2>10. Normed'
    <3> SUFFICES ASSUME Norming' PROVE Normed'
      BY DEF Normed
    <3> DEFINE n == graph[k + 1]
    <3>1. k < Len(graph)
      BY <2>5 DEF Norming
    <3>2. n \in GraphNode /\ k \in DOMAIN written
      BY <1>3, <3>1, NodeType
    <3>3. written'[k] = {}
      BY <1>2, <1>3, <2>2, <3>2 DEF dataVars
    <3>4. \A e \in Elements(n) : ~Past(e[2] % Nth)'
      <4> SUFFICES ASSUME NEW e \in Elements(n)
                   PROVE  ~Past(e[2] % Nth)'
        OBVIOUS
      <4>1. e[2] % Nth \in TeamThreads
        BY <3>2, RowOwner
      <4>2. e'[2] % Nth' = e[2] % Nth
        BY <1>4
      <4> QED
        BY <2>7, <4>1, <4>2
    <3>5. written'[k] = {e \in Elements(n) : Past(e[2] % Nth)'}
      BY <3>3, <3>4
    <3> HIDE DEF k
    <3> QED
      BY <1>4, <2>4, <3>5 DEF Normed
  <2> QED
    BY <1>13, <2>6, <2>8, <2>9, <2>10
<1> QED
  BY <1>14, <1>15

\* A step in the barrier stays in the round or opens it.
LEMMA BarrierKeepsWork ==
    ASSUME TypeOK, TeamInv, WorkInv, NEW t \in Threads, Barrier(t)
    PROVE  WorkInv'
<1>1. CASE BarRead(t)
  <2>1. /\ pc[t] = "bar_read" /\ UNCHANGED tp
        /\ pc'[t] = IF Nth = 1 THEN back[t] ELSE "bar_add"
    BY <1>1, TypeParts DEF BarRead, Goto, Nth
  <2>2. back[t] \in {"node", "chunk", "return"}
    BY Typing
  <2>3. Place(t) = "bar_read" /\ Place(t)' = pc'[t]
    BY <2>1, <2>2 DEF Place, Released
  <2>4. CASE Nth # 1
    BY <2>1, <2>3, <2>4, InRoundKeepsWork DEF BarrierPcs
  <2>5. CASE Nth = 1
    <3>1. t = 0 /\ TeamThreads = {0}
      <4>1. t \in TeamThreads
        BY BarrierMoves
      <4> QED
        BY <2>5, <4>1 DEF TeamThreads
    <3> QED
      BY <2>1, <2>3, <2>5, <3>1, CrossingKeepsWork DEF Started, BarrierPcs
  <2> QED
    BY <2>4, <2>5
<1>2. CASE BarAdd(t)
  <2>1. /\ pc[t] = "bar_add" /\ UNCHANGED <<n_passed, tp.n_barrier_passed>>
        /\ pc'[t] \in {"bar_reset", "bar_wait"}
    BY <1>2, TypeParts DEF BarAdd, Goto, localVars, PoolTypes, Pools
  <2>2. n_passed[t] = tp.n_barrier_passed
    BY <2>1 DEF TeamInv, Rounds
  <2>3. Place(t) \in BarrierPcs /\ Place(t)' \in BarrierPcs
    BY <2>1, <2>2 DEF Place, Released, BarrierPcs
  <2> QED
    BY <2>1, <2>3, InRoundKeepsWork
<1>3. CASE BarReset(t)
  <2>1. pc[t] = "bar_reset" /\ UNCHANGED tp.n_barrier_passed /\ pc'[t] = "bar_pass"
    BY <1>3, TypeParts DEF BarReset, Goto, PoolTypes, Pools
  <2>2. Place(t) \in BarrierPcs /\ Place(t)' \in BarrierPcs
    BY <2>1 DEF Place, Released, BarrierPcs
  <2> QED
    BY <2>1, <2>2, InRoundKeepsWork
<1>4. CASE BarPass(t)
  BY <1>4, PassLetsOut, CrossingKeepsWork
<1>5. CASE BarWait(t)
  <2>1. /\ pc[t] = "bar_wait" /\ Released(t) /\ UNCHANGED <<tp, back>>
        /\ pc'[t] = back[t]
    BY <1>5, TypeParts DEF BarWait, Reads, Goto, Released, localVars
  <2>2. back[t] \in {"node", "chunk", "return"}
    BY Typing
  <2>3. Place(t)' = Place(t)
    BY <2>1, <2>2 DEF Place, Released
  <2> QED
    BY <2>1, <2>3, InRoundKeepsWork
<1> QED
  BY <1>1, <1>2, <1>3, <1>4, <1>5 DEF Barrier

(***************************************************************************)
(* Outside a graph.                                                        *)
(***************************************************************************)

\* The caller of a graph that nobody aborted returns when it is computed.
LEMMA ReturnKeepsWork ==
    ASSUME TypeOK, TeamInv, WorkInv, Return(0)
    PROVE  WorkInv'
<1>1. /\ pc[0] = "return" /\ pc'[0] = "returned"
      /\ UNCHANGED <<tp, graph, dataVars>>
  BY Typing, TypeParts DEF Return, Reads, Goto, callVars
<1>2. ~Outside /\ Outside'
  BY <1>1 DEF Outside, CallerPcs
<1>3. /\ 0 \in Threads /\ node[0] \in Nat /\ Len(graph) \in Nat
      /\ DOMAIN written = 0 .. Len(graph) - 1
  BY Typing, TypeParts DEF DataTypes
<1>4. Started(0) /\ Place(0) = "return"
  BY <1>1 DEF Started, Place, Released
<1>5. Meeting(0) = <<"done", node[0]>>
  BY <1>2, <1>4 DEF Meeting, From, Done, BarrierPcs
<1>6. Doing = node[0] /\ Progress /\ ~doubled
  BY <1>2, <1>5 DEF Doing, Working, WorkInv
<1>7. ASSUME ~tp.aborted PROVE \A n \in DOMAIN written : Complete(n)
  <2>1. tp.abort = -1
    BY <1>7 DEF TeamInv, Aborts
  <2>2. node[0] = Len(graph)
    BY <1>2, <1>3, <1>4, <2>1 DEF TeamInv, Places, WellPlaced
  <2> QED
    BY <1>3, <1>6, <2>2 DEF Progress
<1> QED
  BY <1>1, <1>2, <1>6, <1>7 DEF WorkInv, Complete, dataVars

\* A call begins with nothing computed, and the caller touches no result.
LEMMA CallerKeepsWork ==
    ASSUME TypeOK, WorkInv, Caller, ~KickGraph
    PROVE  WorkInv'
<1>1. pc \in [Threads -> Pcs] /\ 0 \in Threads
  BY TypeParts, Typing
<1>2. CASE \E g \in Graphs : Call(g)
  <2>1. PICK g \in Graphs : Call(g)
    BY <1>2
  <2>2. pc'[0] = "kick_threads"
    BY <1>1, <2>1, PoolAssumption DEF Call, Goto, Spawned
  <2>3. doubled' = doubled /\ \A n \in DOMAIN written' : written'[n] = {}
    BY <2>1 DEF Call
  <2> QED
    BY <2>2, <2>3 DEF WorkInv, Outside, CallerPcs
<1>3. CASE New \/ SetPause(TRUE) \/ SetPause(FALSE) \/ ReturnKept \/ Free \/ Join
  <2>1. pc'[0] \in {"idle", "joining"} /\ UNCHANGED doubled
    <3>1. CASE New
      BY <1>1, <3>1 DEF New, Spawned, dataVars
    <3>2. CASE SetPause(TRUE) \/ SetPause(FALSE)
      BY <1>1, <3>2, WokenWaits DEF SetPause, WaitingPcs, dataVars
    <3>3. CASE ReturnKept \/ Join
      BY <1>1, <3>3 DEF ReturnKept, Reads, Goto, Join, dataVars
    <3>4. CASE Free
      BY <1>1, <3>4, MovedType DEF Free, dataVars
    <3> QED
      BY <1>3, <3>1, <3>2, <3>3, <3>4
  <2> QED
    BY <2>1 DEF WorkInv, Outside, CallerPcs
<1>4. CASE KickThreads
  <2>1. /\ pc[0] = "kick_threads" /\ pc'[0] = "kick_graph" /\ UNCHANGED dataVars
    BY <1>1, <1>4 DEF KickThreads, Goto
  <2> QED
    BY <2>1 DEF WorkInv, Outside, CallerPcs, dataVars
<1> QED
  BY <1>2, <1>3, <1>4 DEF Caller

\* The team takes the first node up with nothing computed.
LEMMA KickGraphKeepsWork ==
    ASSUME TypeOK, TeamInv, WorkInv, KickGraph
    PROVE  WorkInv'
<1>1. /\ pc \in [Threads -> Pcs] /\ tp \in Pools /\ 0 \in Threads /\ node \in [Threads -> Nat]
      /\ tp.n_graph \in Nat /\ Nth \in Nat \ {0} /\ Len(graph) \in Nat
      /\ \A u \in Threads : last_graph[u] \in Nat
      /\ TeamThreads \subseteq Threads /\ DOMAIN written = 0 .. Len(graph) - 1
  BY TypeParts, Typing, SMTT(30) DEF PoolTypes, LocalTypes, DataTypes
<1>2. /\ pc[0] = "kick_graph" /\ UNCHANGED <<graph, last_graph, dataVars>>
      /\ pc'[0] = "node" /\ node'[0] = 0
  <2>1. Woken(pc) \in [Threads -> Pcs]
    BY <1>1, MovedType
  <2> QED
    BY <1>1, <2>1 DEF KickGraph, callVars
<1>3. ~doubled /\ tp.abort = -1 /\ \A n \in DOMAIN written : written[n] = {}
  BY <1>2 DEF WorkInv, TeamInv, Aborts
<1>4. tp'.n_graph = tp.n_graph + 1 /\ tp'.abort = tp.abort /\ Nth' = Nth
  <2>1. tp' = [tp EXCEPT !.n_graph = tp.n_graph + 1, !.pause = FALSE, !.locked = FALSE]
    BY DEF KickGraph
  <2> QED
    BY <1>1, <2>1 DEF Pools, Nth
<1>5. TeamThreads' = TeamThreads
  BY <1>4 DEF TeamThreads
<1>6. Started(0)' /\ Place(0)' = "node"
  BY <1>2 DEF Started, Place, Released
<1>7. Meeting(0)' = IF 0 < Len(graph)
                    THEN IF IsProduct(0) THEN <<"chunk", 0>> ELSE AfterNode(0)
                    ELSE <<"return", 0>>
  <2>1. Meeting(0)' = AtNode(0)'
    BY <1>2, <1>6 DEF Meeting, From, BarrierPcs
  <2>2. tp'.abort # 0
    BY <1>3, <1>4
  <2> QED
    BY <1>2, <2>1, <2>2 DEF AtNode, AfterNode, IsProduct
<1>8. Doing' = 0 /\ (Working' => 0 < Len(graph) /\ ~IsProduct(0))
  BY <1>1, <1>2, <1>7 DEF Doing, Working, AfterNode
<1>9. \A u \in TeamThreads : ~Past(u)'
  <2>1. \A u \in Threads \ {0} : ~Started(u)'
    BY <1>1, <1>2, <1>4 DEF TeamInv, Workers, Started
  <2>2. ~Past(0)'
    BY <1>2, <1>6, <1>8 DEF Past, BarrierPcs
  <2> QED
    BY <1>1, <2>1, <2>2 DEF Past
<1>10. Progress'
  BY <1>1, <1>2, <1>3, <1>8 DEF Progress, dataVars
<1>11. Filled'
  BY <1>5, <1>9 DEF Filled
<1>12. Claimed'
  BY <1>2, <1>8 DEF Claimed, Multiplying, IsProduct
<1>13. Normed'
  <2> SUFFICES ASSUME Norming' PROVE Normed'
    BY DEF Normed
  <2> DEFINE n == graph[0 + 1]
  <2>1. n \in GraphNode /\ 0 \in DOMAIN written
    BY <1>8, NodeType DEF Norming
  <2>2. written'[0] = {}
    BY <1>2, <1>3, <2>1 DEF dataVars
  <2>3. \A e \in Elements(n) : ~Past(e[2] % Nth)'
    <3> SUFFICES ASSUME NEW e \in Elements(n)
                 PROVE  ~Past(e[2] % Nth)'
      OBVIOUS
    <3>1. e[2] % Nth \in TeamThreads
      BY <2>1, RowOwner
    <3>2. e'[2] % Nth' = e[2] % Nth
      BY <1>4
    <3> QED
      BY <1>9, <3>1, <3>2
  <2>4. written'[0] = {e \in Elements(n) : Past(e[2] % Nth)'}
    BY <2>2, <2>3
  <2> QED
    BY <1>2, <1>4, <1>8, <2>4 DEF Normed
<1> QED
  BY <1>2, <1>3, <1>10, <1>11, <1>12, <1>13 DEF WorkInv, CallerPcs, dataVars

\* Nothing is computed at first.
LEMMA InitWorkInv == Init => WorkInv
<1> SUFFICES ASSUME Init PROVE WorkInv
  OBVIOUS
<1>1. 0 \in Threads
  BY PoolAssumption DEF Threads
<1>2. pc[0] = "idle" /\ ~doubled
  BY <1>1 DEF Init, Spawned
<1> QED
  BY <1>2 DEF WorkInv, Outside, CallerPcs

\* Every step of the pool keeps the account of the work.
LEMMA WorkInductive == TypeOK /\ TeamInv /\ WorkInv /\ [Next]_vars => WorkInv'
<1> SUFFICES ASSUME TypeOK, TeamInv, WorkInv, [Next]_vars PROVE WorkInv'
  OBVIOUS
<1>1. ASSUME NEW t \in Threads, ComputeThread(t) PROVE WorkInv'
  <2>1. CASE Return(t)
    BY <2>1, ReturnKeepsWork, WaitingKeepsWork
  <2> QED
    BY <1>1, <2>1, NextNodeKeepsWork, QuantizeKeepsWork, ChunkKeepsWork, ClaimKeepsWork,
       ComputeKeepsWork, FinishKeepsWork, BarrierKeepsWork DEF ComputeThread
<1>2. ASSUME NEW t \in Threads, SecondaryThread(t) \/ SpuriousWake(t) PROVE WorkInv'
  <2>1. pc[t] \in WaitingPcs
    BY <1>2 DEF SecondaryThread, PauseLoop, PauseLock, StopCheck, PollStart, Poll, PollSeen,
       SleepOrWork, SpuriousWake, Reads, WaitingPcs
  <2>2. t # 0
    BY <2>1 DEF TeamInv, Roles
  <2> QED
    BY <1>2, <2>2, WaitingKeepsWork
<1>3. CASE Caller
  BY <1>3, CallerKeepsWork, KickGraphKeepsWork
<1>4. CASE UNCHANGED vars
  <2> USE <1>4 DEF vars, callVars, localVars, dataVars
  <2>1. \A u \in Threads : UNCHANGED Locals(u)
    BY DEF Locals
  <2>2. 0 \in Threads /\ MovesAlone(0)
    BY <2>1, Typing DEF MovesAlone, Outside
  <2>3. Meeting(0)' = Meeting(0) /\ Place(0)' = Place(0) /\ (Started(0)' <=> Started(0))
    BY <2>1, <2>2, ThreadKept DEF Outside
  <2>4. Doing' = Doing
    BY <2>2, <2>3, PhaseKept
  <2>5. Past(0)' <=> Past(0)
    BY <2>3, <2>4 DEF Past
  <2> QED
    BY <2>2, <2>3, <2>5, QuietStep
<1> QED
  BY <1>1, <1>2, <1>3, <1>4 DEF Next

\* The account of the work, in every state.
LEMMA AlwaysWorkInv == Spec => [](TypeOK /\ TeamInv /\ WorkInv)
<1>1. Spec => [](TypeOK /\ TeamInv)
  BY AlwaysTeamInv
<1>2. Init => WorkInv
  BY InitWorkInv
<1>3. (TypeOK /\ TeamInv) /\ WorkInv /\ [Next]_vars => WorkInv'
  BY WorkInductive
<1> QED
  BY <1>1, <1>2, <1>3, PTL DEF Spec

(***************************************************************************)
(* What the runs check of the work.                                        *)
(***************************************************************************)

\* The barrier of ggml_compute_forward_mul_mat does its work: a thread that takes
\* dot products reads a buffer to which every thread of the team has written its
\* part of src1 for this node.
THEOREM ChunksReadABuffer == Spec => []ChunksReadQuantized
<1>1. TypeOK /\ TeamInv /\ WorkInv => ChunksReadQuantized
  <2> SUFFICES ASSUME TypeOK, TeamInv, WorkInv, NEW t \in Threads, pc[t] = "chunk",
                      NEW u \in 0 .. Nth - 1
               PROVE  quantized[u] = node[t]
    BY DEF ChunksReadQuantized
  <2>1. Place(t) = "chunk"
    BY DEF Place, Released
  <2>2. ~Outside /\ Doing = node[t] /\ Multiplying
    BY <2>1, PlaceTells
  <2>3. Claimed /\ u \in TeamThreads
    BY <2>2 DEF WorkInv, TeamThreads
  <2> QED
    BY <2>2, <2>3 DEF Claimed
<1> QED
  BY <1>1, AlwaysWorkInv, PTL

\* The chunks handed out by the shared counter and the rows dealt out by thread
\* number cover each result exactly once, whatever the dimensions and the number
\* of threads, and a node is complete before anyone computes the next.
THEOREM ElementsOnce == Spec => []EveryElementOnce
<1>1. TypeOK /\ TeamInv /\ WorkInv => EveryElementOnce
  <2> SUFFICES ASSUME TypeOK, TeamInv, WorkInv, NEW t \in Threads,
                      pc[t] \in NodePcs \ {"return"}, pc[t] # "node",
                      NEW n \in 0 .. Minimum(node[t], Len(graph)) - 1
               PROVE  written[n] = Elements(graph[n + 1])
    BY DEF EveryElementOnce, WorkInv
  <2>1. Place(t) = pc[t] /\ pc[t] \in {"quantize", "chunk", "claim", "compute", "finish"}
    BY DEF Place, Released, NodePcs
  <2>2. /\ ~Outside /\ Doing = node[t]
        /\ node[t] \in Nat /\ node[t] < Len(graph)
    BY <2>1, PlaceTells
  <2>3. Len(graph) \in Nat /\ DOMAIN written = 0 .. Len(graph) - 1
    BY Typing, TypeParts DEF DataTypes
  <2>4. n \in DOMAIN written /\ n < Doing
    BY <2>2, <2>3 DEF Minimum
  <2>5. Progress
    BY <2>2 DEF WorkInv
  <2> QED
    BY <2>4, <2>5 DEF Progress, Complete
<1> QED
  BY <1>1, AlwaysWorkInv, PTL

\* A ggml_graph_compute that returns without an abort has computed every element
\* of every node of its graph.
THEOREM SuccessMeansComplete == Spec => []SuccessIsComplete
<1>1. WorkInv => SuccessIsComplete
  BY DEF WorkInv, SuccessIsComplete, Complete
<1> QED
  BY <1>1, AlwaysWorkInv, PTL
===============================================================================
