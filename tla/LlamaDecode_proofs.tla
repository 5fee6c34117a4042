---------------------------- MODULE LlamaDecode_proofs ----------------------------
(***************************************************************************)
(* For every size of the cache and of the batches, any sequences and any   *)
(* client: a decode finds slots for tokens that are in no cell yet, leaves *)
(* the cache as it was while it looks for them, and keeps the indexes in   *)
(* agreement with the cells through every outcome; the app's own batches   *)
(* are never turned away; a token attends to the cells of its own past and *)
(* to no others; and the cells implement a cache of tokens.                *)
(***************************************************************************)
EXTENDS LlamaDecode, KvCache_proofs, SequenceTheorems

(***************************************************************************)
(* split_simple: the micro-batches of a batch.                             *)
(***************************************************************************)

\* Tokens of the batch before micro-batch k.
Before(k) == (k - 1) * NUbatch

\* Each micro-batch starts where the one before it ends, were that one full.
LEMMA BeforeGrows ==
    /\ Before(1) = 0
    /\ \A k \in Nat \ {0} : Before(k) \in Nat /\ Before(k + 1) = Before(k) + NUbatch
    /\ \A k, l \in Nat \ {0} : k < l => Before(k) + NUbatch <= Before(l)
<1>1. NUbatch \in Nat \ {0}
  BY BatchAssumption
<1>2. \A k \in Nat \ {0} : Before(k) \in Nat /\ Before(k + 1) = Before(k) + NUbatch
  <2> SUFFICES ASSUME NEW k \in Nat \ {0}
               PROVE  Before(k) \in Nat /\ Before(k + 1) = Before(k) + NUbatch
    OBVIOUS
  <2> DEFINE a == k - 1
  <2>1. a \in Nat /\ Before(k) = a * NUbatch /\ Before(k + 1) = (a + 1) * NUbatch
    BY DEF Before
  <2> HIDE DEF a
  <2>2. a * NUbatch \in Nat /\ (a + 1) * NUbatch = a * NUbatch + NUbatch
    BY <1>1, <2>1
  <2> QED
    BY <2>1, <2>2
<1>3. ASSUME NEW k \in Nat \ {0}, NEW l \in Nat \ {0}, k < l
      PROVE  Before(k) + NUbatch <= Before(l)
  <2> DEFINE e == l - 1 - k
             x == k * NUbatch
             y == e * NUbatch
  <2>1. e \in Nat /\ l - 1 = k + e
    BY <1>3
  <2>2. Before(l) = (k + e) * NUbatch
    BY <2>1 DEF Before
  <2>3. Before(k) + NUbatch = x
    <3>1. Before(k + 1) = x
      BY DEF Before
    <3> QED
      BY <1>2, <3>1
  <2> HIDE DEF e
  <2>4. (k + e) * NUbatch = x + y /\ x \in Nat /\ y \in Nat
    BY <1>1, <2>1
  <2> HIDE DEF x, y
  <2> QED
    BY <2>2, <2>3, <2>4
<1>4. Before(1) = 0
  BY <1>1 DEF Before
<1> QED
  BY <1>2, <1>3, <1>4

\* The micro-batches of a batch are not empty and make it up.
LEMMA Split ==
    ASSUME NEW b \in Seq(Token), b # <<>>
    PROVE  /\ NUbatches(b) \in Nat \ {0}
           /\ Before(NUbatches(b)) < Len(b) /\ Len(b) <= Before(NUbatches(b) + 1)
           /\ \A k \in 1 .. NUbatches(b) :
                /\ Ubatch(b, k) \in Seq(Token) \ {<<>>}
                /\ Before(k) + Len(Ubatch(b, k)) =
                        IF k < NUbatches(b) THEN Before(k + 1) ELSE Len(b)
                /\ Before(k) + Len(Ubatch(b, k)) <= Before(k + 1)
                /\ \A j \in 1 .. Len(Ubatch(b, k)) :
                        Before(k) + j \in 1 .. Len(b) /\ Ubatch(b, k)[j] = b[Before(k) + j]
<1> DEFINE n == NUbatches(b)
           a == Len(b) + NUbatch - 1
<1>1. NUbatch \in Nat \ {0} /\ Len(b) \in Nat \ {0} /\ a \in Nat
  BY BatchAssumption
<1>2. n = a \div NUbatch
  BY DEF NUbatches
<1>3. n \in Nat /\ a % NUbatch \in 0 .. NUbatch - 1 /\ a = (n * NUbatch) + (a % NUbatch)
  <2> HIDE DEF a, n
  <2> DEFINE q == a \div NUbatch
             r == a % NUbatch
  <2>1. q \in Nat /\ r \in 0 .. NUbatch - 1 /\ a = (NUbatch * q) + r
    BY <1>1
  <2> HIDE DEF q, r
  <2>2. NUbatch * q = q * NUbatch
    BY <1>1, <2>1
  <2> QED
    BY <1>2, <2>1, <2>2 DEF q, r
<1> HIDE DEF n
<1>4. n \in Nat \ {0} /\ Before(n) < Len(b) /\ Len(b) <= Before(n + 1)
  <2> DEFINE x == n * NUbatch
             r == a % NUbatch
  <2>1. x \in Nat /\ r \in 0 .. NUbatch - 1 /\ Len(b) + NUbatch - 1 = x + r
    BY <1>1, <1>3
  <2>2. n = 0 => x = 0
    BY <1>1
  <2>3. Before(n + 1) = x
    BY <1>3 DEF Before
  <2> HIDE DEF x, r
  <2>4. n # 0
    BY <1>1, <2>1, <2>2
  <2>5. Before(n + 1) = Before(n) + NUbatch /\ Before(n) \in Nat
    BY <1>3, <2>4, BeforeGrows
  <2> QED
    BY <1>1, <1>3, <2>1, <2>3, <2>4, <2>5, SMTT(30)
<1>5. ASSUME NEW k \in 1 .. n
      PROVE  /\ Ubatch(b, k) \in Seq(Token) \ {<<>>}
             /\ Before(k) + Len(Ubatch(b, k)) = IF k < n THEN Before(k + 1) ELSE Len(b)
             /\ Before(k) + Len(Ubatch(b, k)) <= Before(k + 1)
             /\ \A j \in 1 .. Len(Ubatch(b, k)) :
                    Before(k) + j \in 1 .. Len(b) /\ Ubatch(b, k)[j] = b[Before(k) + j]
  <2> DEFINE from == Before(k)
             to == IF Before(k + 1) < Len(b) THEN Before(k + 1) ELSE Len(b)
             u == Ubatch(b, k)
  <2>1. /\ from \in Nat /\ Before(k + 1) = from + NUbatch
        /\ k < n => Before(k + 1) + NUbatch <= Before(n + 1) /\ Before(k + 1) <= Before(n)
                    /\ Before(k + 1) \in Nat
        /\ k = n \/ k < n
    <3>1. k \in Nat \ {0} /\ k + 1 \in Nat \ {0} /\ n + 1 \in Nat \ {0}
      BY <1>4
    <3>2. k < n => k + 1 = n \/ k + 1 < n
      BY <1>4
    <3>3. k < n => Before(k + 1) <= Before(n)
      <4>1. CASE k + 1 = n
        BY <3>1, <4>1, BeforeGrows
      <4>2. CASE k < n /\ k + 1 < n
        <5>1. Before(k + 1) + NUbatch <= Before(n) /\ Before(k + 1) \in Nat /\ Before(n) \in Nat
          BY <1>4, <3>1, <4>2, BeforeGrows
        <5> QED
          BY <1>1, <5>1
      <4> QED
        BY <3>2, <4>1, <4>2
    <3>4. /\ Before(k) \in Nat /\ Before(k + 1) = Before(k) + NUbatch /\ Before(k + 1) \in Nat
          /\ Before(n + 1) = Before(n) + NUbatch /\ Before(n) \in Nat
      BY <1>4, <3>1, BeforeGrows
    <3> QED
      BY <1>1, <1>4, <3>1, <3>3, <3>4
  <2> HIDE DEF from
  <2>2. /\ to \in Nat /\ from + 1 <= to /\ to <= Len(b) /\ to <= Before(k + 1)
        /\ to = IF k < n THEN Before(k + 1) ELSE Len(b)
    <3>1. CASE k < n
      <4>1. Before(k + 1) < Len(b)
        BY <1>1, <1>4, <2>1, <3>1, BeforeGrows, SMTT(30)
      <4> QED
        BY <1>1, <2>1, <3>1, <4>1
    <3>2. CASE k = n
      <4>1. ~(Before(k + 1) < Len(b)) /\ from < Len(b)
        BY <1>1, <1>4, <2>1, <3>2 DEF from
      <4> QED
        BY <1>1, <1>4, <2>1, <3>2, <4>1
    <3> QED
      BY <2>1, <3>1, <3>2
  <2>3. u = SubSeq(b, from + 1, to)
    <3>1. Before(k + 1) = k * NUbatch
      <4>1. (k + 1) - 1 = k
        BY <1>4
      <4> QED
        BY <4>1 DEF Before
    <3>2. from = (k - 1) * NUbatch
      BY DEF from, Before
    <3> QED
      BY <3>1, <3>2 DEF Ubatch, u, to
  <2> HIDE DEF u, to
  <2> DEFINE m == from + 1
  <2>4. m \in Int /\ to \in Int /\ \A i \in m .. to : b[i] \in Token
    BY <2>1, <2>2
  <2>5. m <= to /\ to - m + 1 = to - from
    BY <2>1, <2>2
  <2> HIDE DEF m
  <2>6. /\ u \in Seq(Token) /\ Len(u) = to - m + 1
        /\ \A i \in 1 .. to - m + 1 : u[i] = b[m + i - 1]
    BY <2>3, <2>4, <2>5, SubSeqProperties DEF m
  <2>7. Len(u) = to - from /\ u # <<>>
    <3>1. Len(u) # 0
      BY <2>1, <2>2, <2>5, <2>6
    <3> QED
      BY <2>5, <2>6, <3>1
  <2>8. \A j \in 1 .. Len(u) : from + j \in 1 .. Len(b) /\ u[j] = b[from + j]
    <3> SUFFICES ASSUME NEW j \in 1 .. Len(u)
                 PROVE  from + j \in 1 .. Len(b) /\ u[j] = b[from + j]
      OBVIOUS
    <3>1. m + j - 1 = from + j /\ j \in 1 .. to - m + 1
      BY <2>1, <2>2, <2>6 DEF m
    <3>2. from + j \in 1 .. Len(b)
      BY <1>1, <2>1, <2>2, <2>7, SMTT(30)
    <3>3. u[j] = b[m + j - 1]
      BY <2>6, <3>1
    <3> QED
      BY <3>1, <3>2, <3>3
  <2> QED
    BY <2>1, <2>2, <2>6, <2>7, <2>8 DEF u, from
<1> QED
  BY <1>4, <1>5 DEF n

\* One of them, seen from its own places.
LEMMA UbatchIs ==
    ASSUME NEW b \in Seq(Token), b # <<>>, NEW k \in 1 .. NUbatches(b)
    PROVE  /\ k \in Nat \ {0} /\ Before(k) \in Nat /\ Before(k + 1) = Before(k) + NUbatch
           /\ Ubatch(b, k) \in Seq(Token) \ {<<>>} /\ Len(Ubatch(b, k)) \in Nat \ {0}
           /\ DOMAIN Ubatch(b, k) = 1 .. Len(Ubatch(b, k))
           /\ Before(k) + Len(Ubatch(b, k)) <= Before(k + 1)
           /\ \A j \in DOMAIN Ubatch(b, k) :
                /\ j \in Nat \ {0} /\ j <= Len(Ubatch(b, k))
                /\ Before(k) + j \in DOMAIN b
                /\ Ubatch(b, k)[j] = b[Before(k) + j]
<1> DEFINE u == Ubatch(b, k)
           n == NUbatches(b)
<1>1. n \in Nat \ {0} /\ k \in 1 .. n /\ DOMAIN b = 1 .. Len(b)
  BY Split
<1>2. /\ u \in Seq(Token) \ {<<>>}
      /\ Before(k) + Len(u) <= Before(k + 1)
      /\ \A j \in 1 .. Len(u) : Before(k) + j \in 1 .. Len(b) /\ u[j] = b[Before(k) + j]
  BY Split
<1> HIDE DEF u, n
<1>3. k \in Nat \ {0}
  BY <1>1
<1>4. Before(k) \in Nat /\ Before(k + 1) = Before(k) + NUbatch
  BY <1>3, BeforeGrows
<1>5. Len(u) \in Nat \ {0} /\ DOMAIN u = 1 .. Len(u)
  BY <1>2
<1> QED
  BY <1>1, <1>2, <1>3, <1>4, <1>5 DEF u

\* No token of a batch comes twice in it.
Distinct(b) == \A j, k \in DOMAIN b : b[j] = b[k] => j = k

\* The tokens of each sequence come in the order of their positions.
Ordered(b) ==
    \A j, k \in DOMAIN b : j < k /\ b[j].owner = b[k].owner => b[j].pos < b[k].pos

\* Tokens in order are different.
LEMMA OrderedIsDistinct == \A b \in Seq(Token) : Ordered(b) => Distinct(b)
<1> SUFFICES ASSUME NEW b \in Seq(Token), Ordered(b), NEW j \in DOMAIN b, NEW k \in DOMAIN b,
                    b[j] = b[k]
             PROVE  j = k
  BY DEF Distinct
<1>1. b[j].pos \in Nat /\ b[k].pos \in Nat /\ j \in Nat /\ k \in Nat
  BY TokenFields, PositionsAreNat
<1>2. ~(j < k) /\ ~(k < j)
  BY <1>1 DEF Ordered
<1> QED
  BY <1>1, <1>2

\* Different places of the micro-batches are different places of the batch.
LEMMA PlacesDiffer ==
    ASSUME NEW b \in Seq(Token), b # <<>>, Distinct(b),
           NEW k \in 1 .. NUbatches(b), NEW l \in 1 .. NUbatches(b), k # l,
           NEW i \in DOMAIN Ubatch(b, k), NEW j \in DOMAIN Ubatch(b, l)
    PROVE  Ubatch(b, k)[i] # Ubatch(b, l)[j]
<1> DEFINE u == Ubatch(b, k)
           v == Ubatch(b, l)
<1>1. /\ i \in Nat \ {0} /\ i <= Len(u) /\ j \in Nat \ {0} /\ j <= Len(v)
      /\ Len(u) \in Nat /\ Len(v) \in Nat
      /\ k \in Nat \ {0} /\ l \in Nat \ {0}
  BY UbatchIs
<1>2. /\ Before(k) + i \in DOMAIN b /\ u[i] = b[Before(k) + i]
      /\ Before(l) + j \in DOMAIN b /\ v[j] = b[Before(l) + j]
      /\ Before(k) + Len(u) <= Before(k + 1) /\ Before(l) + Len(v) <= Before(l + 1)
  BY UbatchIs
<1>3. /\ Before(k) \in Nat /\ Before(k + 1) = Before(k) + NUbatch
      /\ Before(l) \in Nat /\ Before(l + 1) = Before(l) + NUbatch
      /\ k < l => Before(k) + NUbatch <= Before(l)
      /\ l < k => Before(l) + NUbatch <= Before(k)
      /\ NUbatch \in Nat /\ (k < l \/ l < k)
  <2>1. k < l \/ l < k
    BY <1>1
  <2> QED
    BY <1>1, <2>1, BeforeGrows, BatchAssumption
<1> HIDE DEF u, v
<1>4. Before(k) + i # Before(l) + j
  <2> DEFINE x == Before(k)
             y == Before(l)
             m == Len(u)
             w == Len(v)
  <2>1. /\ x \in Nat /\ y \in Nat /\ m \in Nat /\ w \in Nat /\ NUbatch \in Nat
        /\ x + m <= x + NUbatch /\ y + w <= y + NUbatch
        /\ x + NUbatch <= y \/ y + NUbatch <= x
        /\ i \in Nat \ {0} /\ i <= m /\ j \in Nat \ {0} /\ j <= w
    <3>1. x \in Nat /\ y \in Nat /\ m \in Nat /\ w \in Nat /\ NUbatch \in Nat
      BY <1>1, <1>3
    <3>2. x + m <= x + NUbatch /\ y + w <= y + NUbatch
      BY <1>2, <1>3
    <3>3. x + NUbatch <= y \/ y + NUbatch <= x
      BY <1>3
    <3> QED
      BY <1>1, <3>1, <3>2, <3>3
  <2> HIDE DEF x, y, m, w
  <2>2. x + i # y + j
    BY <2>1
  <2> QED
    BY <2>2 DEF x, y
<1>5. u[i] # v[j]
  BY <1>2, <1>4 DEF Distinct
<1> QED
  BY <1>5 DEF u, v

\* The micro-batches of fresh tokens can be placed.
LEMMA SplitIsFresh ==
    ASSUME NEW c, NEW b \in Seq(Token), b # <<>>, Fresh(c, b)
    PROVE  /\ MicroBatches(c, Ubatches(b)) /\ Len(Ubatches(b)) = NUbatches(b)
           /\ \A k \in 1 .. NUbatches(b) : Ubatches(b)[k] = Ubatch(b, k)
<1> DEFINE n == NUbatches(b)
           us == Ubatches(b)
<1>1. n \in Nat /\ \A k \in 1 .. n : Ubatch(b, k) \in Seq(Token) \ {<<>>}
  BY Split
<1> HIDE DEF n
<1>2. us = [k \in 1 .. n |-> Ubatch(b, k)]
  BY DEF Ubatches, n
<1> HIDE DEF us
<1>3. /\ us \in Seq(Seq(Token) \ {<<>>}) /\ Len(us) = n /\ DOMAIN us = 1 .. n
      /\ \A k \in 1 .. n : us[k] = Ubatch(b, k)
  <2> DEFINE E == Seq(Token) \ {<<>>}
  <2>1. \A k \in 1 .. n : Ubatch(b, k) \in E
    BY <1>1
  <2> HIDE DEF E
  <2>2. us \in Seq(E) /\ Len(us) = n /\ DOMAIN us = 1 .. n
    BY <1>1, <1>2, <2>1
  <2> QED
    BY <1>2, <2>2 DEF E
<1>4. ASSUME NEW k \in 1 .. n PROVE Fresh(c, Ubatch(b, k))
  <2> DEFINE u == Ubatch(b, k)
  <2>1. /\ Before(k) \in Nat
        /\ \A j \in DOMAIN u : /\ Before(k) + j \in DOMAIN b /\ u[j] = b[Before(k) + j]
                                /\ j \in Nat
    BY UbatchIs DEF n
  <2> HIDE DEF u
  <2>2. \A i, j \in DOMAIN u : u[i] = u[j] => i = j
    <3> SUFFICES ASSUME NEW i \in DOMAIN u, NEW j \in DOMAIN u, u[i] = u[j] PROVE i = j
      OBVIOUS
    <3>1. Before(k) + i = Before(k) + j
      BY <2>1 DEF Fresh
    <3> QED
      BY <2>1, <3>1
  <2>3. \A j \in DOMAIN u, i \in Cells : ~Holds(c, i, u[j].owner, u[j].pos)
    BY <2>1 DEF Fresh
  <2> QED
    BY <2>2, <2>3 DEF Fresh, u
<1>5. \A k, l \in 1 .. n : k # l =>
        \A i \in DOMAIN us[k], j \in DOMAIN us[l] : us[k][i] # us[l][j]
  <2>1. Distinct(b)
    BY DEF Fresh, Distinct
  <2>2. \A k, l \in 1 .. n : k # l =>
            \A i \in DOMAIN Ubatch(b, k), j \in DOMAIN Ubatch(b, l) :
                Ubatch(b, k)[i] # Ubatch(b, l)[j]
    BY <2>1, PlacesDiffer DEF n
  <2> QED
    BY <1>3, <2>2
<1>6. \A k \in 1 .. n : Fresh(c, us[k])
  BY <1>3, <1>4
<1>7. MicroBatches(c, us)
  BY <1>3, <1>5, <1>6 DEF MicroBatches
<1> QED
  BY <1>3, <1>7 DEF n, us

\* The last position of a sequence in the cache.
LEMMA LastPosition ==
    ASSUME NEW c, NEW s
    PROVE  /\ SeqPosMax(c, s) \in Positions \cup {NoPos} /\ SeqPosMax(c, s) \in Int
           /\ Occurrences(c, s) # {} =>
                /\ SeqPosMax(c, s) \in Occurrences(c, s)
                /\ \A p \in Occurrences(c, s) : p <= SeqPosMax(c, s)
<1> DEFINE m == NCells - 1
           Occ == Occurrences(c, s)
<1>1. m \in Nat /\ Occ \in SUBSET (0 .. m) /\ Occ \subseteq Positions
  <2>1. Positions \subseteq 0 .. m
    BY SizesAssumption DEF Positions
  <2>2. Occ \subseteq Positions
    BY DEF Occurrences
  <2>3. m \in Nat
    BY SizesAssumption
  <2> HIDE DEF m, Occ
  <2> QED
    BY <2>1, <2>2, <2>3
<1>2. SeqPosMax(c, s) = IF Occ = {} THEN NoPos ELSE MaxOf(Occ)
  BY DEF SeqPosMax
<1> HIDE DEF m, Occ
<1>3. Occ # {} => MaxOf(Occ) \in Occ /\ \A p \in Occ : p <= MaxOf(Occ)
  BY <1>1, MaxIs
<1>4. SeqPosMax(c, s) \in Positions \cup {NoPos}
  BY <1>1, <1>2, <1>3
<1>5. SeqPosMax(c, s) \in Int
  <2>1. Positions \cup {NoPos} \subseteq Int
    BY PositionsAreNat
  <2> QED
    BY <1>4, <2>1
<1> QED
  BY <1>2, <1>3, <1>4, <1>5 DEF Occ

\* What llama_batch_allocr::init accepts goes on after the last position that its
\* sequences have in the cache.
LEMMA AcceptedIsAhead ==
    ASSUME NEW c, Sound(c), NEW b \in Seq(Token), Accepts(c, b),
           NEW k \in DOMAIN b, NEW i \in Cells, b[k].owner \in c.members[i]
    PROVE  c.pos[i] \in Nat /\ c.pos[i] < b[k].pos
<1> DEFINE s == b[k].owner
           p == b[k].pos
           q == c.pos[i]
           new == PositionsIn(b, s)
           Occ == Occurrences(c, s)
<1>1. s \in Seqs /\ p \in Positions
  <2>1. b[k] \in Token
    OBVIOUS
  <2> QED
    BY <2>1, TokenFields
<1>2. q \in Positions
  <2>1. c \in CacheType /\ \A j \in Cells : c.pos[j] = NoPos <=> c.members[j] = {}
    BY DEF Sound
  <2>2. c.pos \in [Cells -> Positions \cup {NoPos}]
    BY <2>1, CacheFields
  <2>3. c.pos[i] \in Positions \cup {NoPos} /\ c.pos[i] # NoPos
    BY <2>1, <2>2
  <2> QED
    BY <2>3
<1>3. p \in new
  BY DEF PositionsIn
<1>4. new \subseteq Positions
  <2>1. \A j \in DOMAIN b : b[j].pos \in Positions
    BY TokenFields
  <2> QED
    BY <2>1 DEF PositionsIn
<1>5. s \in {b[j].owner : j \in DOMAIN b}
  OBVIOUS
<1>6. SeqPosMax(c, s) >= 0 => MinOf(new) = SeqPosMax(c, s) + 1
  BY <1>5 DEF Accepts
<1> HIDE DEF p, new
<1>7. q \in Occ
  BY <1>1, <1>2, NoOccurrences DEF Holds
<1> HIDE DEF s, q
<1>8. /\ SeqPosMax(c, s) \in Int /\ SeqPosMax(c, s) \in Occ
      /\ q <= SeqPosMax(c, s)
  BY <1>7, LastPosition
<1>9. SeqPosMax(c, s) \in Positions
  BY <1>8 DEF Occurrences
<1>10. new \in SUBSET Nat /\ p \in Nat /\ q \in Nat /\ SeqPosMax(c, s) \in Nat
  BY <1>1, <1>2, <1>4, <1>9, PositionsAreNat
<1>11. MinOf(new) <= p
  BY <1>3, <1>10, MinIs
<1>12. q \in Nat /\ q < p
  BY <1>6, <1>8, <1>10, <1>11
<1> QED
  BY <1>12 DEF q, p

\* So it is in no cell yet.
LEMMA AcceptedIsFresh ==
    ASSUME NEW c, Sound(c), NEW b \in Seq(Token), Distinct(b), Accepts(c, b)
    PROVE  b # <<>> /\ Fresh(c, b)
<1>1. ASSUME NEW k \in DOMAIN b, NEW i \in Cells, Holds(c, i, b[k].owner, b[k].pos)
      PROVE  FALSE
  <2>1. c.pos[i] \in Nat /\ c.pos[i] < b[k].pos
    BY <1>1, AcceptedIsAhead DEF Holds
  <2> QED
    BY <1>1, <2>1 DEF Holds
<1> QED
  BY <1>1 DEF Fresh, Distinct, Accepts

(***************************************************************************)
(* A micro-batch that could not be computed is cut out.                    *)
(***************************************************************************)

\* Sequence t loses its tokens at p and beyond, when the first n sequences are cut.
CutOff(ubatch, n, t, p) ==
    /\ t \in 0 .. n - 1 /\ PositionsIn(ubatch, t) # {}
    /\ p >= MinOf(PositionsIn(ubatch, t))

\* What is left when the first n sequences are cut.
CutTo(c, ubatch, n, d) ==
    /\ Sound(d)
    /\ \A i \in Cells :
        /\ \A t : t \in d.members[i] <=>
                    t \in c.members[i] /\ ~CutOff(ubatch, n, t, c.pos[i])
        /\ d.pos[i] = IF d.members[i] = {} THEN NoPos ELSE c.pos[i]

\* The sequence after them is cut.
LEMMA CutOne ==
    ASSUME NEW c, Sound(c), NEW ubatch \in Seq(Token), NEW n \in 1 .. NSeqs,
           NEW d, CutTo(c, ubatch, n - 1, d)
    PROVE  CutTo(c, ubatch, n, IF PositionsIn(ubatch, n - 1) = {} THEN d
                               ELSE SeqRm(d, n - 1, MinOf(PositionsIn(ubatch, n - 1)), -1))
<1> DEFINE s == n - 1
           P == PositionsIn(ubatch, s)
<1>1. s \in Seqs /\ \A t : t \in 0 .. n - 1 <=> t = s \/ t \in 0 .. s - 1
  BY SizesAssumption DEF Seqs
<1>2. CASE P = {}
  <2>1. \A t, p : CutOff(ubatch, n, t, p) <=> CutOff(ubatch, n - 1, t, p)
    BY <1>1, <1>2 DEF CutOff
  <2>2. CutTo(c, ubatch, n, d)
    BY <2>1 DEF CutTo
  <2> QED
    BY <1>2, <2>2
<1>3. CASE P # {}
  <2> DEFINE m == MinOf(P)
             e == SeqRm(d, s, m, -1)
             hit == RmHit(d, s, m, -1)
             freed == RmFreed(d, s, m, -1)
  <2>1. m \in Nat
    <3>1. P \in SUBSET Nat
      <4>1. \A j \in DOMAIN ubatch : ubatch[j].pos \in Nat
        BY TokenFields, PositionsAreNat
      <4> QED
        BY <4>1 DEF PositionsIn
    <3> HIDE DEF P
    <3> QED
      BY <1>3, <3>1, MinIs
  <2>2. Sound(d)
    BY DEF CutTo
  <2> HIDE DEF m
  <2>3. Left(d, s, hit, freed, e) /\ Sound(e)
    <3>1. m \in Int /\ -1 \in Int
      BY <2>1
    <3> HIDE DEF s
    <3> QED
      BY <1>1, <2>2, <3>1, SeqRmFields, SeqRmSound
  <2>4. \A i : i \in hit <=> i \in Cells /\ d.pos[i] >= m /\ s \in d.members[i]
    BY DEF RmHit, InRange
  <2>5. \A i : i \in freed <=> i \in hit /\ d.members[i] = {s}
    BY DEF RmFreed
  <2> HIDE DEF e, hit, freed
  <2>6. \A t, p : CutOff(ubatch, n, t, p) <=>
                    CutOff(ubatch, n - 1, t, p) \/ (t = s /\ p >= m)
    BY <1>1, <1>3 DEF CutOff, m
  <2>7. ASSUME NEW i \in Cells
        PROVE  /\ \A t : t \in e.members[i] <=>
                            t \in c.members[i] /\ ~CutOff(ubatch, n, t, c.pos[i])
               /\ e.pos[i] = IF e.members[i] = {} THEN NoPos ELSE c.pos[i]
    <3>1. /\ \A t : t \in d.members[i] <=>
                        t \in c.members[i] /\ ~CutOff(ubatch, n - 1, t, c.pos[i])
          /\ d.pos[i] = IF d.members[i] = {} THEN NoPos ELSE c.pos[i]
      BY DEF CutTo
    <3>2. /\ e.pos[i] = IF i \in freed THEN NoPos ELSE d.pos[i]
          /\ e.members[i] = IF i \in hit THEN d.members[i] \ {s} ELSE d.members[i]
      BY <2>3 DEF Left
    <3>3. \A t : t \in e.members[i] <=> t \in d.members[i] /\ ~(t = s /\ i \in hit)
      BY <3>2
    <3>4. i \in hit <=> c.pos[i] >= m /\ s \in d.members[i]
      <4>1. s \in d.members[i] => d.pos[i] = c.pos[i]
        BY <3>1
      <4> QED
        BY <2>4, <4>1
    <3>5. \A t : t \in e.members[i] <=>
                    t \in c.members[i] /\ ~CutOff(ubatch, n, t, c.pos[i])
      BY <2>6, <3>1, <3>3, <3>4
    <3>6. CASE i \in freed
      <4>1. e.members[i] = {} /\ e.pos[i] = NoPos
        BY <2>5, <3>2, <3>6
      <4> QED
        BY <3>5, <4>1
    <3>7. CASE i \notin freed
      <4>1. e.pos[i] = d.pos[i] /\ (e.members[i] = {} <=> d.members[i] = {})
        <5>1. CASE i \in hit
          <6>1. s \in d.members[i] /\ d.members[i] # {s}
            BY <2>4, <2>5, <3>7, <5>1
          <6>2. \E t \in d.members[i] : t # s
            BY <6>1
          <6> QED
            BY <3>2, <3>3, <3>7, <6>2
        <5>2. CASE i \notin hit
          BY <3>2, <3>7, <5>2
        <5> QED
          BY <5>1, <5>2
      <4> QED
        BY <3>1, <3>5, <4>1
    <3> QED
      BY <3>6, <3>7
  <2>8. CutTo(c, ubatch, n, e)
    BY <2>3, <2>7 DEF CutTo
  <2> QED
    BY <1>3, <2>8 DEF e, m
<1> QED
  BY <1>2, <1>3

\* A failed micro-batch is cut out of every sequence it has tokens of, from its
\* first position there, and the indexes go on agreeing with the cells.
LEMMA RolledBackCuts ==
    ASSUME NEW c, Sound(c), NEW ubatch \in Seq(Token)
    PROVE  CutTo(c, ubatch, NSeqs, RolledBack(c, ubatch))
<1> DEFINE Go(d, n) == IF PositionsIn(ubatch, n - 1) = {} THEN d
                       ELSE SeqRm(d, n - 1, MinOf(PositionsIn(ubatch, n - 1)), -1)
           S == [n \in 0 .. NSeqs |-> {d \in CacheType : CutTo(c, ubatch, n, d)}]
           step == [n \in 1 .. NSeqs |-> [d \in CacheType |-> Go(d, n)]]
           Good(f) == f = [n \in 0 .. NSeqs |->
                IF n = 0 THEN c
                ELSE IF PositionsIn(ubatch, n - 1) = {} THEN f[n - 1]
                ELSE SeqRm(f[n - 1], n - 1, MinOf(PositionsIn(ubatch, n - 1)), -1)]
           Cut == CHOOSE f : Good(f)
<1>1. NSeqs \in Nat /\ c \in CacheType
  BY SizesAssumption DEF Sound
<1>2. c \in S[0]
  <2>1. \A t, p : ~CutOff(ubatch, 0, t, p)
    BY DEF CutOff
  <2>2. CutTo(c, ubatch, 0, c)
    BY <2>1 DEF CutTo, Sound
  <2> QED
    BY <1>1, <2>2
<1>3. \A n \in 1 .. NSeqs : \A x \in S[n - 1] : step[n][x] = Go(x, n) /\ Go(x, n) \in S[n]
  <2> SUFFICES ASSUME NEW n \in 1 .. NSeqs, NEW x \in S[n - 1]
               PROVE  step[n][x] = Go(x, n) /\ Go(x, n) \in S[n]
    OBVIOUS
  <2>1. n - 1 \in 0 .. NSeqs /\ n \in 0 .. NSeqs
    BY <1>1
  <2>2. x \in CacheType /\ CutTo(c, ubatch, n - 1, x)
    BY <2>1
  <2>3. CutTo(c, ubatch, n, Go(x, n))
    BY <2>2, CutOne
  <2> HIDE DEF Go
  <2>4. Go(x, n) \in CacheType
    BY <2>3 DEF CutTo, Sound
  <2> QED
    BY <2>1, <2>2, <2>3, <2>4
<1> HIDE DEF S, step
<1>4. PICK f : Solves(f, NSeqs, c, step) /\ \A n \in 0 .. NSeqs : f[n] \in S[n]
  <2>1. \A n \in 1 .. NSeqs : \A x \in S[n - 1] : step[n][x] \in S[n]
    BY <1>3
  <2> QED
    BY <1>1, <1>2, <2>1, Recursion
<1>5. \A n \in 1 .. NSeqs : step[n][f[n - 1]] = Go(f[n - 1], n)
  <2>1. \A n \in 1 .. NSeqs : n - 1 \in 0 .. NSeqs
    BY <1>1
  <2> HIDE DEF Go
  <2> QED
    BY <1>3, <1>4, <2>1
<1>6. Good(f)
  <2>1. \A n \in 0 .. NSeqs : n = 0 \/ n \in 1 .. NSeqs
    BY <1>1
  <2>2. \A n \in 0 .. NSeqs : f[n] = IF n = 0 THEN c ELSE Go(f[n - 1], n)
    <3> HIDE DEF Go
    <3> QED
      BY <1>4, <1>5, <2>1 DEF Solves
  <2>3. f = [n \in 0 .. NSeqs |-> f[n]]
    BY <1>4 DEF Solves
  <2> QED
    BY <2>2, <2>3
<1>7. Good(Cut)
  BY <1>6
<1> HIDE DEF Cut
<1>8. /\ Cut[0] = c
      /\ \A n \in 1 .. NSeqs : Cut[n] = Go(Cut[n - 1], n)
  <2>1. 0 \in 0 .. NSeqs /\ \A n \in 1 .. NSeqs : n \in 0 .. NSeqs /\ n # 0
    BY <1>1
  <2> QED
    BY <1>7, <2>1
<1>9. \A n \in 0 .. NSeqs : Cut[n] \in S[n]
  <2> HIDE DEF Go
  <2>1. \A n \in 1 .. NSeqs : Cut[n - 1] \in S[n - 1] => Cut[n] \in S[n]
    BY <1>3, <1>8
  <2> QED
    BY <1>1, <1>2, <1>8, <2>1, Stays
<1>10. RolledBack(c, ubatch) = Cut[NSeqs]
  BY DEF RolledBack, Cut
<1>11. NSeqs \in 0 .. NSeqs
  BY <1>1
<1> QED
  BY <1>9, <1>10, <1>11 DEF S

(***************************************************************************)
(* The invariant.                                                          *)
(***************************************************************************)

JobType == [batch : Seq(Token), slots : Seq(Cells), i_cur : Nat \ {0}, did_optimize : BOOLEAN]

\* Where nativeClassify can be.
AppPlace ==
    /\ app.at \in {"idle", "generate"} => phase = "idle"
    /\ app.at = "step" => app.i < MaxGen /\ app.cur_pos < Available

Typed == TypeOK /\ job \in JobType /\ AppPlace

\* While slots are looked for, the tokens are in no cell.
Searching ==
    phase \in {"prepare", "optimize"} =>
        job.batch # <<>> /\ Fresh(cache, job.batch) /\ job.i_cur = 1

\* The micro-batches that are not in the cache yet.
ToPlace ==
    {k \in 1 .. NUbatches(job.batch) : k > job.i_cur \/ (k = job.i_cur /\ phase = "apply")}

\* Once they are found, the slots are runs of their own, free until used.
Placing ==
    phase \in {"apply", "compute"} =>
        /\ job.batch # <<>> /\ Distinct(job.batch)
        /\ Len(job.slots) = NUbatches(job.batch)
        /\ job.i_cur \in 1 .. NUbatches(job.batch)
        /\ \A k \in 1 .. NUbatches(job.batch) :
                job.slots[k] + Len(Ubatch(job.batch, k)) <= NCells
        /\ \A k, l \in 1 .. NUbatches(job.batch) : k # l =>
                Slot(job.slots[k], Ubatch(job.batch, k))
                    \cap Slot(job.slots[l], Ubatch(job.batch, l)) = {}
        /\ \A k \in ToPlace :
                /\ FreeRun(cache, job.slots[k], Len(Ubatch(job.batch, k)))
                /\ Fresh(cache, Ubatch(job.batch, k))

Inv == Typed /\ Sound(cache) /\ Searching /\ Placing

\* Before the first call.
LEMMA InitHolds == Init => Inv
<1> SUFFICES ASSUME Init PROVE Inv
  OBVIOUS
<1>1. /\ 0 \in 0 .. MaxGen /\ 0 \in 0 .. NCells /\ 0 \in Results
      /\ <<>> \in Seq(Token) /\ <<>> \in Seq(Cells)
  BY SizesAssumption, BatchAssumption DEF Results
<1>2. job \in JobType /\ job.batch = <<>> /\ job.slots = <<>> /\ job.i_cur = 1
      /\ job.did_optimize = FALSE
  BY <1>1 DEF Init, NoJob, JobType
<1>3. Sound(cache) /\ cache \in CacheType
  BY EmptyIsSound DEF Init, Sound
<1>4. tensors \in [Cells -> Token \cup {Unwritten, Lost}]
  BY DEF Init
<1>5. app \in [at : {"idle", "prompt", "generate", "step", "library"},
               i : 0 .. MaxGen, cur_pos : 0 .. NCells]
      /\ app.at # "step" /\ phase = "idle"
  BY <1>1 DEF Init
<1>6. TypeOK
  <2>1. phase \in Phases /\ result \in Results /\ 1 \in Nat \ {0} /\ FALSE \in BOOLEAN
    BY <1>1 DEF Init, Phases
  <2> QED
    BY <1>1, <1>2, <1>3, <1>4, <1>5, <2>1 DEF TypeOK
<1> QED
  BY <1>2, <1>3, <1>5, <1>6 DEF Inv, Typed, AppPlace, Searching, Placing

\* The return of a decode leaves nothing of it.
LEMMA Returning ==
    ASSUME NEW code \in Results, Return(code)
    PROVE  /\ phase' = "idle" /\ phase' \in Phases /\ job' \in JobType /\ result' \in Results
           /\ Searching' /\ Placing'
<1>1. <<>> \in Seq(Token) /\ <<>> \in Seq(Cells) /\ NoJob \in JobType
  BY DEF NoJob, JobType
<1> QED
  BY <1>1 DEF Return, Phases, Searching, Placing

\* The start of a decode: a batch that is accepted is in no cell yet.
LEMMA Starting ==
    ASSUME Inv, phase = "idle", NEW c, Sound(c), cache' = c,
           NEW b \in Seq(Token), Distinct(b), Start(c, b)
    PROVE  /\ phase' \in Phases /\ job' \in JobType /\ result' \in Results
           /\ Searching' /\ Placing'
<1>1. CASE Accepts(c, b)
  <2>1. /\ phase' = IF Len(b) <= NBatch THEN "prepare" ELSE "aborted"
        /\ job' = [NoJob EXCEPT !.batch = b] /\ result' = 0
    BY <1>1 DEF Start
  <2>2. job' = [batch |-> b, slots |-> <<>>, i_cur |-> 1, did_optimize |-> FALSE]
    BY <2>1 DEF NoJob
  <2>3. /\ job'.batch = b /\ job'.i_cur = 1 /\ job' \in JobType
    <3>1. <<>> \in Seq(Cells)
      OBVIOUS
    <3> QED
      BY <2>2, <3>1 DEF JobType
  <2>4. b # <<>> /\ Fresh(c, b)
    BY <1>1, AcceptedIsFresh
  <2> QED
    BY <2>1, <2>3, <2>4 DEF Phases, Results, Searching, Placing
<1>2. CASE ~Accepts(c, b)
  <2>1. result' = -1 /\ phase' = phase /\ job' = job
    BY <1>2 DEF Start
  <2>2. job' \in JobType /\ result' \in Results
    BY <2>1 DEF Inv, Typed, Results
  <2> QED
    BY <2>1, <2>2 DEF Phases, Searching, Placing
<1> QED
  BY <1>1, <1>2

\* What a step that leaves the app's place alone has to show.
LEMMA AppStays ==
    ASSUME Typed, app' = app, cache' \in CacheType,
           tensors' \in [Cells -> Token \cup {Unwritten, Lost}],
           phase' \in Phases, job' \in JobType, result' \in Results,
           phase # "idle" \/ phase' = "idle"
             \/ app.at \notin {"idle", "generate"}
    PROVE  Typed'
<1>1. app' \in [at : {"idle", "prompt", "generate", "step", "library"},
                i : 0 .. MaxGen, cur_pos : 0 .. NCells]
  BY DEF Typed, TypeOK
<1>2. AppPlace'
  BY DEF Typed, AppPlace
<1>3. /\ job'.batch \in Seq(Token) /\ job'.slots \in Seq(Cells)
      /\ job'.i_cur \in Nat \ {0} /\ job'.did_optimize \in BOOLEAN
  BY DEF JobType
<1> QED
  BY <1>1, <1>2, <1>3 DEF Typed, TypeOK

\* init_batch: the search leaves the cells as they were, and the slots it finds
\* for the micro-batches are free runs with no cell in common.
LEMMA PrepareFinds ==
    ASSUME Inv, Prepare
    PROVE  /\ cache' = cache
           /\ LET placed == Placed(cache, Ubatches(job.batch))
              IN  placed.success =>
                    /\ Len(placed.saved) = NUbatches(job.batch)
                    /\ \A k \in 1 .. NUbatches(job.batch) :
                        /\ StartOf(placed.saved, k) \in Cells
                        /\ StartOf(placed.saved, k) + Len(Ubatch(job.batch, k)) <= NCells
                        /\ FreeRun(cache, StartOf(placed.saved, k), Len(Ubatch(job.batch, k)))
                        /\ Fresh(cache, Ubatch(job.batch, k))
                    /\ \A k, l \in 1 .. NUbatches(job.batch) : k # l =>
                        Slot(StartOf(placed.saved, k), Ubatch(job.batch, k))
                          \cap Slot(StartOf(placed.saved, l), Ubatch(job.batch, l)) = {}
<1> DEFINE b == job.batch
           us == Ubatches(b)
           placed == Placed(cache, us)
           n == NUbatches(b)
<1>1. b \in Seq(Token) /\ b # <<>> /\ Fresh(cache, b) /\ Sound(cache) /\ phase = "prepare"
  BY DEF Inv, Typed, JobType, Searching, Prepare
<1>2. cache' = Restored(placed.cache, placed.saved)
  BY DEF Prepare
<1> HIDE DEF b
<1>3. MicroBatches(cache, us) /\ Len(us) = n /\ \A k \in 1 .. n : us[k] = Ubatch(b, k)
  BY <1>1, SplitIsFresh
<1> HIDE DEF us
<1>4. /\ Restored(placed.cache, placed.saved) = cache
      /\ placed.success => Len(placed.saved) = n
      /\ Apart(cache, placed, us) /\ Undoable(placed, us)
  BY <1>1, <1>3, PlacingIsUndone, PlacedInv DEF PlaceInv
<1> HIDE DEF placed, n
<1>5. ASSUME placed.success, NEW k \in 1 .. n
      PROVE  /\ FreeRun(cache, StartOf(placed.saved, k), Len(Ubatch(b, k)))
             /\ Fresh(cache, Ubatch(b, k))
             /\ placed.saved[k].cells = Slot(StartOf(placed.saved, k), Ubatch(b, k))
  <2>1. k \in 1 .. Len(placed.saved) /\ k \in DOMAIN us
    BY <1>3, <1>4, <1>5 DEF MicroBatches
  <2> QED
    BY <1>3, <1>4, <2>1 DEF Apart, Undoable, MicroBatches
<1>6. ASSUME placed.success, NEW k \in 1 .. n
      PROVE  /\ StartOf(placed.saved, k) \in Cells
             /\ StartOf(placed.saved, k) + Len(Ubatch(b, k)) <= NCells
  <2> DEFINE s == StartOf(placed.saved, k)
             m == Len(Ubatch(b, k))
  <2>1. s \in Nat /\ s + m <= NCells
    BY <1>5, <1>6 DEF FreeRun
  <2>2. m \in Nat \ {0}
    BY <1>1, UbatchIs DEF n
  <2> HIDE DEF s, m
  <2>3. s \in 0 .. NCells - 1
    BY <2>1, <2>2, SizesAssumption
  <2> QED
    BY <2>1, <2>3 DEF Cells, s, m
<1>7. ASSUME placed.success, NEW k \in 1 .. n, NEW l \in 1 .. n, k # l
      PROVE  Slot(StartOf(placed.saved, k), Ubatch(b, k))
                \cap Slot(StartOf(placed.saved, l), Ubatch(b, l)) = {}
  <2>1. k \in 1 .. Len(placed.saved) /\ l \in 1 .. Len(placed.saved)
    BY <1>4, <1>7
  <2>2. placed.saved[k].cells \cap placed.saved[l].cells = {}
    BY <1>4, <1>7, <2>1 DEF Apart
  <2> QED
    BY <1>5, <1>7, <2>2
<1> QED
  BY <1>2, <1>4, <1>5, <1>6, <1>7 DEF placed, us, b, n

\* init_batch keeps the invariant, whether it finds slots or not.
LEMMA PrepareKeeps ==
    ASSUME Inv, Prepare
    PROVE  Inv'
<1> DEFINE placed == Placed(cache, Ubatches(job.batch))
           n == NUbatches(job.batch)
           slots == [k \in DOMAIN placed.saved |-> MinOf(placed.saved[k].cells)]
<1>1. /\ cache' = cache /\ tensors' = tensors /\ app' = app /\ phase = "prepare"
      /\ Sound(cache) /\ cache \in CacheType
      /\ tensors \in [Cells -> Token \cup {Unwritten, Lost}]
      /\ job \in JobType /\ result \in Results /\ Typed
      /\ job.batch # <<>> /\ Fresh(cache, job.batch) /\ job.i_cur = 1
  BY PrepareFinds DEF Prepare, Inv, Typed, TypeOK, Searching
<1>2. /\ Prepare
      /\ placed.success =>
            /\ Len(placed.saved) = n
            /\ \A k \in 1 .. n :
                /\ StartOf(placed.saved, k) \in Cells
                /\ StartOf(placed.saved, k) + Len(Ubatch(job.batch, k)) <= NCells
                /\ FreeRun(cache, StartOf(placed.saved, k), Len(Ubatch(job.batch, k)))
                /\ Fresh(cache, Ubatch(job.batch, k))
            /\ \A k, l \in 1 .. n : k # l =>
                Slot(StartOf(placed.saved, k), Ubatch(job.batch, k))
                  \cap Slot(StartOf(placed.saved, l), Ubatch(job.batch, l)) = {}
  BY PrepareFinds
<1>3. placed.saved \in Seq([cells : SUBSET Cells, old : CacheType]) /\ n \in Nat \ {0}
  <2>1. MicroBatches(cache, Ubatches(job.batch)) /\ n \in Nat \ {0}
    BY <1>1, SplitIsFresh, Split DEF JobType
  <2>2. placed \in PlaceState
    BY <1>1, <2>1, PlacedInv DEF PlaceInv
  <2> QED
    BY <2>1, <2>2 DEF PlaceState
<1>4. \/ /\ placed.success /\ Goto("apply")
         /\ job' = [job EXCEPT !.slots = slots]
      \/ Return(2)
      \/ Goto("optimize") /\ UNCHANGED job
      \/ Return(1)
  BY DEF Prepare
<1> HIDE DEF placed, n
<1>5. CASE placed.success /\ Goto("apply") /\ job' = [job EXCEPT !.slots = slots]
  <2>1. phase' = "apply" /\ result' = result
    BY <1>5 DEF Goto
  <2>2. /\ DOMAIN placed.saved = 1 .. n
        /\ \A k \in 1 .. n : slots[k] = StartOf(placed.saved, k)
    BY <1>2, <1>3, <1>5 DEF StartOf
  <2>3. slots \in Seq(Cells) /\ Len(slots) = n
    <3>1. slots = [k \in 1 .. n |-> slots[k]] /\ \A k \in 1 .. n : slots[k] \in Cells
      BY <1>2, <1>5, <2>2
    <3> HIDE DEF slots
    <3> QED
      BY <1>3, <3>1
  <2> HIDE DEF slots
  <2>4. /\ job' \in JobType /\ job'.batch = job.batch /\ job'.slots = slots
        /\ job'.i_cur = 1
    BY <1>1, <1>5, <2>3 DEF JobType
  <2>5. Typed'
    BY <1>1, <2>1, <2>4, AppStays DEF Phases
  <2>6. Placing'
    <3>1. \A k \in ToPlace' : k \in 1 .. n
      BY <2>4 DEF ToPlace, n
    <3>2. 1 \in 1 .. n
      BY <1>3
    <3>3. Distinct(job.batch)
      BY <1>1 DEF Fresh, Distinct
    <3> QED
      BY <1>1, <1>2, <1>5, <2>1, <2>2, <2>3, <2>4, <3>1, <3>2, <3>3 DEF Placing, n
  <2>7. Searching'
    BY <2>1 DEF Searching
  <2> QED
    BY <1>1, <2>5, <2>6, <2>7 DEF Inv
<1>6. CASE Return(2) \/ Return(1)
  <2>1. /\ phase' = "idle" /\ phase' \in Phases /\ job' \in JobType /\ result' \in Results
        /\ Searching' /\ Placing'
    BY <1>6, Returning DEF Results
  <2>2. Typed'
    BY <1>1, <2>1, AppStays
  <2> QED
    BY <1>1, <2>1, <2>2 DEF Inv
<1>7. CASE Goto("optimize") /\ UNCHANGED job
  <2>1. phase' = "optimize" /\ result' = result /\ job' = job
    BY <1>7 DEF Goto
  <2>2. Typed'
    BY <1>1, <2>1, AppStays DEF Phases
  <2> QED
    BY <1>1, <2>1, <2>2 DEF Inv, Searching, Placing
<1> QED
  BY <1>4, <1>5, <1>6, <1>7

\* A defragmentation moves tokens to other cells and no token into a cell.
LEMMA DefragKeepsFresh ==
    ASSUME NEW c, Sound(c), NEW d, Sound(d), d.seq_pos = c.seq_pos,
           NEW b \in Seq(Token), Fresh(c, b)
    PROVE  Fresh(d, b)
<1> SUFFICES ASSUME NEW k \in DOMAIN b, NEW i \in Cells, Holds(d, i, b[k].owner, b[k].pos)
             PROVE  FALSE
  BY DEF Fresh
<1> DEFINE s == b[k].owner
           p == b[k].pos
<1>1. s \in Seqs /\ p \in Positions
  BY TokenFields
<1>2. \A j \in Cells : ~Holds(c, j, s, p)
  BY DEF Fresh
<1> HIDE DEF s, p
<1>3. c.seq_pos[<<s, p>>] = 0
  BY <1>1, <1>2 DEF Sound, Counted
<1>4. Holds(d, i, s, p)
  BY DEF s, p
<1>5. d.seq_pos[<<s, p>>] = 1
  BY <1>1, <1>4 DEF Sound, Counted
<1> QED
  BY <1>3, <1>5

\* A defragmentation keeps it: what is looked for again is still in no cell.
LEMMA OptimizeKeeps ==
    ASSUME Inv, Optimize
    PROVE  Inv'
<1> DEFINE plan == DefragPlan(cache)
           d == Defragged(cache, plan)
<1>1. /\ phase = "optimize" /\ app' = app
      /\ Sound(cache) /\ cache \in CacheType
      /\ tensors \in [Cells -> Token \cup {Unwritten, Lost}]
      /\ job \in JobType /\ result \in Results /\ Typed
      /\ job.batch # <<>> /\ Fresh(cache, job.batch) /\ job.i_cur = 1
  BY DEF Optimize, Inv, Typed, TypeOK, Searching
<1>2. \/ Return(1) /\ cache' = cache /\ tensors' = tensors
      \/ /\ cache' = d /\ Retry
         /\ \E copied \in SUBSET Moving(plan) : tensors' = Copied(plan, copied)
  BY DEF Optimize
<1>3. PlanOK(cache, plan) /\ MovedTo(cache, plan, End(cache), d)
  BY <1>1, DefragmentingMovesCells
<1> HIDE DEF plan, d
<1>4. CASE Return(1) /\ cache' = cache /\ tensors' = tensors
  <2>1. /\ phase' = "idle" /\ phase' \in Phases /\ job' \in JobType /\ result' \in Results
        /\ Searching' /\ Placing'
    BY <1>4, Returning DEF Results
  <2>2. Typed'
    BY <1>1, <1>4, <2>1, AppStays
  <2> QED
    BY <1>1, <1>4, <2>1, <2>2 DEF Inv
<1>5. CASE /\ cache' = d /\ Retry
           /\ \E copied \in SUBSET Moving(plan) : tensors' = Copied(plan, copied)
  <2>1. /\ phase' = "prepare" /\ result' = result
        /\ job' = [job EXCEPT !.did_optimize = TRUE]
    BY <1>5 DEF Retry, Goto
  <2>2. /\ job' \in JobType /\ job'.batch = job.batch /\ job'.i_cur = 1
    BY <1>1, <2>1 DEF JobType
  <2>3. Sound(d) /\ d \in CacheType /\ Fresh(d, job.batch)
    BY <1>1, <1>3, DefragKeepsFresh DEF MovedTo, Sound, JobType
  <2>4. tensors' \in [Cells -> Token \cup {Unwritten, Lost}]
    <3>1. PICK copied \in SUBSET Moving(plan) : tensors' = Copied(plan, copied)
      BY <1>5
    <3>2. \A k \in Moving(plan) : k - 1 \in Cells
      <4>1. DOMAIN plan.ids = 1 .. End(cache)
        <5>1. plan.ids \in Seq(0 .. End(cache)) /\ Len(plan.ids) = End(cache)
          BY <1>3 DEF PlanOK
        <5> QED
          BY <5>1
      <4> QED
        BY <1>3, <4>1 DEF Moving, Moves, PlanOK
    <3>3. ASSUME NEW i \in Cells, {k \in Moving(plan) : plan.ids[k] = i} # {}
          PROVE  tensors[(CHOOSE k \in {k \in Moving(plan) : plan.ids[k] = i} : TRUE) - 1]
                    \in Token \cup {Unwritten, Lost}
      BY <1>1, <3>2, <3>3
    <3> QED
      BY <1>1, <3>1, <3>3 DEF Copied
  <2>5. Typed'
    BY <1>1, <1>5, <2>1, <2>2, <2>3, <2>4, AppStays DEF Phases
  <2>6. Searching' /\ Placing'
    BY <1>1, <1>5, <2>1, <2>2, <2>3 DEF Searching, Placing
  <2> QED
    BY <1>5, <2>3, <2>5, <2>6 DEF Inv
<1> QED
  BY <1>2, <1>4, <1>5

\* Filling a slot keeps it: the slots of later micro-batches stay free.
LEMMA ApplyKeeps ==
    ASSUME Inv, Apply
    PROVE  Inv'
<1> DEFINE b == job.batch
           n == NUbatches(b)
           m == job.i_cur
           ub == Ubatch(b, m)
           start == job.slots[m]
           d == ApplyUbatch(cache, start, ub)
<1>1. /\ phase = "apply" /\ phase' = "compute" /\ result' = result
      /\ tensors' = tensors /\ job' = job /\ app' = app /\ cache' = d
      /\ Sound(cache) /\ cache \in CacheType
      /\ tensors \in [Cells -> Token \cup {Unwritten, Lost}]
      /\ job \in JobType /\ result \in Results /\ Typed
  BY DEF Apply, Goto, CurrentUbatch, Inv, Typed, TypeOK
<1>2. /\ b # <<>> /\ Distinct(b) /\ b \in Seq(Token)
      /\ Len(job.slots) = n /\ m \in 1 .. n
      /\ \A k \in 1 .. n : job.slots[k] + Len(Ubatch(b, k)) <= NCells
      /\ \A k, l \in 1 .. n : k # l =>
            Slot(job.slots[k], Ubatch(b, k)) \cap Slot(job.slots[l], Ubatch(b, l)) = {}
      /\ \A k \in ToPlace : /\ FreeRun(cache, job.slots[k], Len(Ubatch(b, k)))
                            /\ Fresh(cache, Ubatch(b, k))
  BY <1>1 DEF Inv, Placing, JobType
<1>3. /\ n \in Nat \ {0}
      /\ \A k \in 1 .. n : Ubatch(b, k) \in Seq(Token) /\ Len(Ubatch(b, k)) \in Nat
  BY <1>2, Split, UbatchIs
<1>4. m \in ToPlace /\ \A k \in 1 .. n : k > m => k \in ToPlace
  BY <1>1, <1>2 DEF ToPlace
<1> HIDE DEF b, n, m, start, d
<1>5. ub \in Seq(Token) /\ FreeRun(cache, start, Len(ub)) /\ Fresh(cache, ub)
  BY <1>2, <1>3, <1>4 DEF start
<1>6. Sound(d) /\ d \in CacheType /\ Filled(cache, start, ub, d)
  <2> HIDE DEF ub
  <2> QED
    BY <1>1, <1>5, ApplySound, ApplyFills DEF d, Sound
<1>7. Typed'
  BY <1>1, <1>6, AppStays DEF Phases
<1>8. ASSUME NEW k \in 1 .. n, k > m
      PROVE  /\ FreeRun(d, job.slots[k], Len(Ubatch(b, k)))
             /\ Fresh(d, Ubatch(b, k))
  <2> DEFINE other == Ubatch(b, k)
             at == job.slots[k]
  <2>1. FreeRun(cache, at, Len(other)) /\ Fresh(cache, other) /\ k # m
        /\ other \in Seq(Token)
    BY <1>2, <1>3, <1>4, <1>8
  <2>2. \A i \in DOMAIN ub, j \in DOMAIN other : ub[i] # other[j]
    BY <1>2, <2>1, PlacesDiffer DEF n
  <2>3. Slot(at, other) \cap Slot(start, ub) = {}
    BY <1>2, <2>1 DEF start
  <2> HIDE DEF other, at, ub
  <2>4. Fresh(d, other)
    BY <1>1, <1>5, <2>1, <2>2, FreshStays DEF d
  <2>5. at \in Nat /\ at + Len(other) <= NCells /\ Slot(at, other) \in SUBSET Cells
        /\ \A i : i \in Slot(at, other) <=> i \in at .. at + Len(other) - 1
    BY <2>1, SlotCells DEF FreeRun
  <2>6. \A i \in Slot(at, other) : IsEmpty(d, i)
    <3>1. \A i \in Slot(at, other) : i \in Cells /\ i \notin Slot(start, ub) /\ IsEmpty(cache, i)
      BY <2>1, <2>3, <2>5 DEF FreeRun
    <3> QED
      BY <1>6, <3>1 DEF Filled, IsEmpty
  <2>7. FreeRun(d, at, Len(other))
    BY <2>5, <2>6 DEF FreeRun
  <2> QED
    BY <2>4, <2>7 DEF other, at
<1>9. \A k \in ToPlace' : k \in 1 .. n /\ k > m
  BY <1>1 DEF ToPlace, b, n, m
<1>10. Placing'
  BY <1>1, <1>2, <1>8, <1>9 DEF Placing, b, n, m
<1>11. Searching'
  BY <1>1 DEF Searching
<1> QED
  BY <1>1, <1>6, <1>7, <1>10, <1>11 DEF Inv

\* The cells of the micro-batch under way.
LEMMA SlotUnderWay ==
    ASSUME Inv, phase = "compute"
    PROVE  /\ job.batch # <<>> /\ job.batch \in Seq(Token)
           /\ NUbatches(job.batch) \in Nat \ {0} /\ job.i_cur \in 1 .. NUbatches(job.batch)
           /\ Len(job.slots) = NUbatches(job.batch)
           /\ CurrentUbatch \in Seq(Token) /\ Len(CurrentUbatch) \in Nat \ {0}
           /\ job.slots[job.i_cur] \in Nat
           /\ CurrentSlot \in SUBSET Cells
           /\ \A i \in CurrentSlot :
                /\ i - job.slots[job.i_cur] + 1 \in DOMAIN CurrentUbatch
                /\ CurrentUbatch[i - job.slots[job.i_cur] + 1] \in Token
<1> DEFINE b == job.batch
           n == NUbatches(b)
           m == job.i_cur
           ub == Ubatch(b, m)
           start == job.slots[m]
<1>1. /\ b # <<>> /\ b \in Seq(Token) /\ Len(job.slots) = n /\ m \in 1 .. n
      /\ job.slots \in Seq(Cells) /\ start + Len(ub) <= NCells
  BY DEF Inv, Typed, JobType, Placing
<1>2. n \in Nat \ {0} /\ ub \in Seq(Token) /\ Len(ub) \in Nat \ {0}
  BY <1>1, Split, UbatchIs
<1>3. start \in Nat
  <2>1. start \in Cells
    BY <1>1
  <2> HIDE DEF start
  <2> QED
    BY <2>1, SizesAssumption DEF Cells
<1> HIDE DEF ub, start
<1>4. /\ Slot(start, ub) \in SUBSET Cells
      /\ \A i \in Slot(start, ub) : i - start + 1 \in DOMAIN ub /\ ub[i - start + 1] \in Token
  BY <1>1, <1>2, <1>3, SlotCells
<1>5. CurrentUbatch = ub /\ CurrentSlot = Slot(start, ub)
  BY DEF CurrentUbatch, CurrentSlot, ub, start
<1> QED
  BY <1>1, <1>2, <1>3, <1>4, <1>5 DEF start

\* Computing a micro-batch keeps it.
LEMMA ComputeKeeps ==
    ASSUME Inv, Compute
    PROVE  Inv'
<1>1. /\ phase = "compute" /\ cache' = cache /\ app' = app
      /\ Sound(cache) /\ cache \in CacheType
      /\ tensors \in [Cells -> Token \cup {Unwritten, Lost}]
      /\ job \in JobType /\ result \in Results /\ Typed
      /\ tensors' = [i \in Cells |->
            IF i \in CurrentSlot THEN CurrentUbatch[i - job.slots[job.i_cur] + 1]
                                 ELSE tensors[i]]
      /\ IF job.i_cur < Len(job.slots)
         THEN Goto("apply") /\ job' = [job EXCEPT !.i_cur = @ + 1]
         ELSE Return(0)
  BY DEF Compute, Inv, Typed, TypeOK
<1>2. tensors' \in [Cells -> Token \cup {Unwritten, Lost}]
  BY <1>1, SlotUnderWay
<1>3. CASE job.i_cur < Len(job.slots)
  <2>1. /\ phase' = "apply" /\ result' = result
        /\ job' = [job EXCEPT !.i_cur = @ + 1]
    BY <1>1, <1>3 DEF Goto
  <2>2. /\ job.i_cur \in 1 .. NUbatches(job.batch) /\ NUbatches(job.batch) \in Nat
        /\ job.i_cur < NUbatches(job.batch) /\ job.i_cur \in Nat \ {0}
    BY <1>1, <1>3, SlotUnderWay DEF JobType
  <2>3. /\ job' \in JobType /\ job'.batch = job.batch /\ job'.slots = job.slots
        /\ job'.i_cur = job.i_cur + 1
    BY <1>1, <2>1, <2>2 DEF JobType
  <2>4. job'.i_cur \in 1 .. NUbatches(job.batch)
    BY <2>2, <2>3
  <2>5. \A k \in ToPlace' : k \in ToPlace
    <3>1. \A k \in 1 .. NUbatches(job.batch) :
            k > job.i_cur + 1 \/ k = job.i_cur + 1 => k > job.i_cur
      BY <2>2
    <3> QED
      BY <2>3, <3>1 DEF ToPlace
  <2>6. Placing'
    BY <1>1, <2>1, <2>3, <2>4, <2>5 DEF Inv, Placing
  <2>7. Typed' /\ Searching'
    BY <1>1, <1>2, <2>1, <2>3, AppStays DEF Phases, Searching
  <2> QED
    BY <1>1, <2>6, <2>7 DEF Inv
<1>4. CASE ~(job.i_cur < Len(job.slots))
  <2>1. /\ phase' = "idle" /\ phase' \in Phases /\ job' \in JobType /\ result' \in Results
        /\ Searching' /\ Placing'
    BY <1>1, <1>4, Returning DEF Results
  <2>2. Typed'
    BY <1>1, <1>2, <2>1, AppStays
  <2> QED
    BY <1>1, <2>1, <2>2 DEF Inv
<1> QED
  BY <1>3, <1>4

\* Forgetting what is in empty cells.
LEMMA ReadableType ==
    ASSUME TypeOK, NEW c
    PROVE  Readable(c, tensors) \in [Cells -> Token \cup {Unwritten, Lost}]
BY DEF TypeOK, Readable

\* A failed computation keeps it.
LEMMA ComputeFailsKeeps ==
    ASSUME Inv, ComputeFails
    PROVE  Inv'
<1> DEFINE cut == RolledBack(cache, CurrentUbatch)
<1>1. /\ phase = "compute" /\ cache' = cut /\ app' = app /\ Return(2)
      /\ tensors' = Readable(cut, tensors)
      /\ Sound(cache) /\ Typed /\ TypeOK
  BY DEF ComputeFails, Inv, Typed
<1>2. CurrentUbatch \in Seq(Token)
  BY <1>1, SlotUnderWay
<1>3. Sound(cut) /\ cut \in CacheType
  BY <1>1, <1>2, RolledBackCuts DEF CutTo, Sound
<1> HIDE DEF cut
<1>4. tensors' \in [Cells -> Token \cup {Unwritten, Lost}]
  BY <1>1, ReadableType
<1>5. /\ phase' = "idle" /\ phase' \in Phases /\ job' \in JobType /\ result' \in Results
      /\ Searching' /\ Placing'
  BY <1>1, Returning DEF Results
<1>6. Typed'
  BY <1>1, <1>3, <1>4, <1>5, AppStays
<1> QED
  BY <1>1, <1>3, <1>5, <1>6 DEF Inv

(***************************************************************************)
(* The calls.                                                              *)
(***************************************************************************)

\* Tokens of sequence 0 at consecutive positions.
Row(from, n) == [k \in 1 .. n |-> [owner |-> 0, pos |-> from + k - 1]]

\* The app's tokens make a batch.
LEMMA RowIs ==
    ASSUME NEW from \in Nat, NEW n \in Nat, from + n <= Available
    PROVE  /\ Row(from, n) \in Seq(Token) /\ Ordered(Row(from, n)) /\ Distinct(Row(from, n))
           /\ Len(Row(from, n)) = n
           /\ DOMAIN Row(from, n) = 1 .. n
<1>1. NCells \in Nat \ {0} /\ NSeqs \in Nat \ {0} /\ Available = NCells - 1
  BY SizesAssumption DEF Available
<1>2. ASSUME NEW k \in 1 .. n PROVE [owner |-> 0, pos |-> from + k - 1] \in Token
  <2>1. 0 \in Seqs /\ from + k - 1 \in Positions
    BY <1>1 DEF Seqs, Positions
  <2> QED
    BY <2>1 DEF Token
<1>3. Row(from, n) \in [1 .. n -> Token]
  BY <1>2 DEF Row
<1>4. \A k \in 1 .. n : Row(from, n)[k].pos = from + k - 1
  BY DEF Row
<1>5. Row(from, n) \in Seq(Token) /\ Len(Row(from, n)) = n /\ DOMAIN Row(from, n) = 1 .. n
  BY <1>3
<1>6. Ordered(Row(from, n))
  BY <1>4, <1>5 DEF Ordered
<1> QED
  BY <1>5, <1>6, OrderedIsDistinct

\* The prompt is a row.
LEMMA PromptIsRow ==
    ASSUME NEW n \in Nat
    PROVE  [k \in 1 .. n |-> [owner |-> 0, pos |-> k - 1]] = Row(0, n)
<1>1. \A k \in 1 .. n : k - 1 = 0 + k - 1
  OBVIOUS
<1> QED
  BY <1>1 DEF Row

\* A sampled token is a row of one.
LEMMA OneIsRow ==
    ASSUME NEW p \in Nat, p + 1 <= Available
    PROVE  <<[owner |-> 0, pos |-> p]>> = Row(p, 1)
<1>1. p + 1 - 1 = p
  OBVIOUS
<1>2. Row(p, 1)[1] = [owner |-> 0, pos |-> p]
  BY <1>1 DEF Row
<1>3. Row(p, 1) \in Seq(Token) /\ Len(Row(p, 1)) = 1
  BY RowIs
<1> QED
  BY <1>2, <1>3

\* The prompt, decoded into a cleared cache, keeps the invariant.
LEMMA ClassifyKeeps ==
    ASSUME Inv, NEW n \in 1 .. NCells, Classify(n)
    PROVE  Inv'
<1> DEFINE b == [k \in 1 .. n |-> [owner |-> 0, pos |-> k - 1]]
<1>1. /\ app.at = "idle" /\ phase = "idle" /\ n \in 1 .. Available
      /\ cache' = EmptyCache /\ tensors' = [i \in Cells |-> Unwritten]
      /\ app' = [at |-> "prompt", i |-> 0, cur_pos |-> n]
  BY DEF Classify, ClearMemory
<1>2. Start(cache', b)
  BY DEF Classify
<1>3. b \in Seq(Token) /\ Distinct(b)
  <2>1. b = Row(0, n)
    BY PromptIsRow
  <2>2. 0 + n <= Available /\ n \in Nat
    BY <1>1, SizesAssumption DEF Available
  <2> HIDE DEF b
  <2>3. Row(0, n) \in Seq(Token) /\ Distinct(Row(0, n))
    BY <2>2, RowIs
  <2> QED
    BY <2>1, <2>3
<1>4. PICK c : c = cache'
  OBVIOUS
<1>5. Start(c, b)
  BY <1>2, <1>4
<1>6. Sound(c) /\ c \in CacheType
  BY <1>1, <1>4, EmptyIsSound DEF Sound
<1> HIDE DEF b
<1>7. /\ phase' \in Phases /\ job' \in JobType /\ result' \in Results
      /\ Searching' /\ Placing'
  BY <1>1, <1>3, <1>4, <1>5, <1>6, Starting
<1>8. Typed'
  <2>1. /\ app' \in [at : {"idle", "prompt", "generate", "step", "library"},
                     i : 0 .. MaxGen, cur_pos : 0 .. NCells]
        /\ app'.at = "prompt"
    <3>1. 0 \in 0 .. MaxGen /\ n \in 0 .. NCells
      BY SizesAssumption, BatchAssumption
    <3> QED
      BY <1>1, <3>1
  <2>2. AppPlace'
    BY <2>1 DEF AppPlace
  <2>3. tensors' \in [Cells -> Token \cup {Unwritten, Lost}]
    BY <1>1
  <2>4. cache' \in CacheType
    BY <1>4, <1>6
  <2>5. /\ job'.batch \in Seq(Token) /\ job'.slots \in Seq(Cells)
        /\ job'.i_cur \in Nat \ {0} /\ job'.did_optimize \in BOOLEAN
    BY <1>7 DEF JobType
  <2> QED
    BY <1>7, <2>1, <2>2, <2>3, <2>4, <2>5 DEF Typed, TypeOK
<1> QED
  BY <1>4, <1>6, <1>7, <1>8 DEF Inv

\* A step of the app between its decodes.
LEMMA AppMoves ==
    ASSUME Inv, phase = "idle", UNCHANGED <<cache, tensors, phase, job, result>>,
           app' \in [at : {"idle", "prompt", "generate", "step", "library"},
                     i : 0 .. MaxGen, cur_pos : 0 .. NCells],
           app'.at # "step"
    PROVE  Inv'
<1>1. Typed'
  BY DEF Inv, Typed, TypeOK, AppPlace
<1>2. Searching' /\ Placing'
  BY DEF Searching, Placing
<1> QED
  BY <1>1, <1>2 DEF Inv

\* The return of the prompt's decode keeps it.
LEMMA PromptDoneKeeps ==
    ASSUME Inv, PromptDone
    PROVE  Inv'
<1>1. app \in [at : {"idle", "prompt", "generate", "step", "library"},
               i : 0 .. MaxGen, cur_pos : 0 .. NCells]
  BY DEF Inv, Typed, TypeOK
<1>2. /\ app' \in [at : {"idle", "prompt", "generate", "step", "library"},
                   i : 0 .. MaxGen, cur_pos : 0 .. NCells]
      /\ app'.at # "step"
  BY <1>1 DEF PromptDone, Leave
<1> QED
  BY <1>2, AppMoves DEF PromptDone

\* So does the return of a step's.
LEMMA StepDoneKeeps ==
    ASSUME Inv, StepDone
    PROVE  Inv'
<1>1. /\ app \in [at : {"idle", "prompt", "generate", "step", "library"},
                  i : 0 .. MaxGen, cur_pos : 0 .. NCells]
      /\ app.i < MaxGen /\ app.cur_pos < Available
  BY DEF Inv, Typed, TypeOK, AppPlace, StepDone
<1>2. app.i + 1 \in 0 .. MaxGen /\ app.cur_pos + 1 \in 0 .. NCells
  BY <1>1, SizesAssumption, BatchAssumption DEF Available
<1>3. /\ app' \in [at : {"idle", "prompt", "generate", "step", "library"},
                   i : 0 .. MaxGen, cur_pos : 0 .. NCells]
      /\ app'.at # "step"
  BY <1>1, <1>2 DEF StepDone, Leave
<1> QED
  BY <1>3, AppMoves DEF StepDone

\* Sampling a token and decoding it keeps it: generation stops before n_ctx.
LEMMA GenerateKeeps ==
    ASSUME Inv, Generate
    PROVE  Inv'
<1>1. /\ app \in [at : {"idle", "prompt", "generate", "step", "library"},
                  i : 0 .. MaxGen, cur_pos : 0 .. NCells]
      /\ phase = "idle" /\ app.at = "generate" /\ cache' = cache /\ tensors' = tensors
      /\ Sound(cache) /\ TypeOK
  BY DEF Inv, Typed, TypeOK, AppPlace, Generate
<1>2. CASE Leave /\ UNCHANGED <<phase, job, result>>
  <2>1. /\ app' \in [at : {"idle", "prompt", "generate", "step", "library"},
                     i : 0 .. MaxGen, cur_pos : 0 .. NCells]
        /\ app'.at # "step"
    BY <1>1, <1>2 DEF Leave
  <2> QED
    BY <1>1, <1>2, <2>1, AppMoves
<1>3. CASE /\ app.i < MaxGen /\ app.cur_pos < Available
           /\ Start(cache, <<[owner |-> 0, pos |-> app.cur_pos]>>)
           /\ app' = [app EXCEPT !.at = "step"]
  <2>1. PICK p : p = app.cur_pos
    OBVIOUS
  <2>2. PICK c : c = cache
    OBVIOUS
  <2> DEFINE b == <<[owner |-> 0, pos |-> p]>>
  <2>3. Start(c, b)
    BY <1>3, <2>1, <2>2
  <2>4. p \in Nat /\ p + 1 <= Available
    BY <1>1, <1>3, <2>1, SizesAssumption DEF Available
  <2>5. b \in Seq(Token) /\ Distinct(b)
    <3>1. b = Row(p, 1)
      BY <2>4, OneIsRow
    <3> QED
      BY <2>4, <3>1, RowIs
  <2> HIDE DEF b
  <2>6. /\ phase' \in Phases /\ job' \in JobType /\ result' \in Results
        /\ Searching' /\ Placing'
    BY <1>1, <2>2, <2>3, <2>5, Starting
  <2>7. /\ app' \in [at : {"idle", "prompt", "generate", "step", "library"},
                     i : 0 .. MaxGen, cur_pos : 0 .. NCells]
        /\ app'.at = "step" /\ app'.i = app.i /\ app'.cur_pos = app.cur_pos
    BY <1>1, <1>3
  <2>8. AppPlace'
    BY <1>3, <2>7 DEF AppPlace
  <2>9. /\ job'.batch \in Seq(Token) /\ job'.slots \in Seq(Cells)
        /\ job'.i_cur \in Nat \ {0} /\ job'.did_optimize \in BOOLEAN
    BY <2>6 DEF JobType
  <2>10. Typed'
    BY <1>1, <2>6, <2>7, <2>8, <2>9 DEF Typed, TypeOK
  <2> QED
    BY <1>1, <2>6, <2>10 DEF Inv
<1> QED
  BY <1>2, <1>3 DEF Generate

\* nativeReset keeps it.
LEMMA ResetKeeps ==
    ASSUME Inv, Reset
    PROVE  Inv'
<1>1. /\ phase = "idle" /\ app' = app /\ job' = job /\ result' = result /\ phase' = phase
      /\ cache' = EmptyCache /\ tensors' = [i \in Cells |-> Unwritten]
      /\ Typed /\ phase \in Phases /\ job \in JobType /\ result \in Results
  BY DEF Inv, Typed, TypeOK, AppPlace, Reset, ClearMemory
<1>2. Sound(EmptyCache) /\ EmptyCache \in CacheType
  BY EmptyIsSound DEF Sound
<1>3. tensors' \in [Cells -> Token \cup {Unwritten, Lost}]
  BY <1>1
<1>4. Typed'
  BY <1>1, <1>2, <1>3, AppStays
<1>5. Searching' /\ Placing'
  BY <1>1 DEF Searching, Placing
<1> QED
  BY <1>1, <1>2, <1>4, <1>5 DEF Inv

\* The edits of a library client.
LEMMA EditsKeep ==
    ASSUME Inv, LibraryIdle, NEW c, Sound(c), Edits(c)
    PROVE  Inv'
<1>1. /\ phase = "idle" /\ app' = app /\ job' = job /\ result' = 0 /\ phase' = phase
      /\ cache' = c /\ tensors' = Readable(c, tensors)
      /\ Typed /\ TypeOK /\ phase \in Phases /\ job \in JobType /\ c \in CacheType
  BY DEF Inv, Typed, TypeOK, LibraryIdle, Edits, Sound
<1>2. tensors' \in [Cells -> Token \cup {Unwritten, Lost}] /\ result' \in Results
  BY <1>1, ReadableType DEF Results
<1>3. Typed'
  BY <1>1, <1>2, AppStays
<1>4. Searching' /\ Placing'
  BY <1>1 DEF Searching, Placing
<1> QED
  BY <1>1, <1>3, <1>4 DEF Inv

\* seq_rm, seq_cp, seq_keep and clear keep it.
LEMMA LibraryEditsKeep ==
    ASSUME Inv, LibraryRm \/ LibraryCp \/ LibraryKeep \/ LibraryClear
    PROVE  Inv'
<1>1. Sound(cache)
  BY DEF Inv
<1>2. CASE LibraryRm
  <2>1. /\ LibraryIdle
        /\ \E s \in Seqs : \E p0 \in Occurrences(cache, s) : \E p1 \in {-1, p0 + 1} :
                Edits(SeqRm(cache, s, p0, p1))
    BY <1>2 DEF LibraryRm
  <2>2. PICK s \in Seqs : \E p0 \in Occurrences(cache, s) : \E p1 \in {-1, p0 + 1} :
                Edits(SeqRm(cache, s, p0, p1))
    BY <2>1
  <2>5. PICK p0 \in Occurrences(cache, s) : \E p1 \in {-1, p0 + 1} :
                Edits(SeqRm(cache, s, p0, p1))
    BY <2>2
  <2>6. PICK p1 \in {-1, p0 + 1} : Edits(SeqRm(cache, s, p0, p1))
    BY <2>5
  <2>7. p0 \in Int /\ p1 \in Int
    <3>1. p0 \in Positions
      BY DEF Occurrences
    <3>2. p0 \in Int
      BY <3>1, PositionsAreNat
    <3> QED
      BY <3>2
  <2>3. PICK c : c = SeqRm(cache, s, p0, p1)
    OBVIOUS
  <2>4. Sound(c)
    BY <1>1, <2>7, <2>3, SeqRmSound
  <2> QED
    BY <2>1, <2>6, <2>3, <2>4, EditsKeep
<1>3. CASE LibraryCp
  <2>1. /\ LibraryIdle
        /\ \E s, d \in Seqs : \E p0 \in Occurrences(cache, s) : \E p1 \in {-1, p0 + 1} :
                /\ Occurrences(cache, d) = {}
                /\ Edits(SeqCp(cache, s, d, p0, p1))
    BY <1>3 DEF LibraryCp
  <2>2. PICK s \in Seqs, d \in Seqs :
            \E p0 \in Occurrences(cache, s) : \E p1 \in {-1, p0 + 1} :
                /\ Occurrences(cache, d) = {}
                /\ Edits(SeqCp(cache, s, d, p0, p1))
    BY <2>1
  <2>5. PICK p0 \in Occurrences(cache, s) : \E p1 \in {-1, p0 + 1} :
                /\ Occurrences(cache, d) = {}
                /\ Edits(SeqCp(cache, s, d, p0, p1))
    BY <2>2
  <2>6. PICK p1 \in {-1, p0 + 1} : /\ Occurrences(cache, d) = {}
                                   /\ Edits(SeqCp(cache, s, d, p0, p1))
    BY <2>5
  <2>7. p0 \in Int /\ p1 \in Int
    <3>1. p0 \in Positions
      BY DEF Occurrences
    <3>2. p0 \in Int
      BY <3>1, PositionsAreNat
    <3> QED
      BY <3>2
  <2>3. PICK c : c = SeqCp(cache, s, d, p0, p1)
    OBVIOUS
  <2>4. Sound(c)
    BY <1>1, <2>6, <2>7, <2>3, SeqCpSound
  <2> QED
    BY <2>1, <2>6, <2>3, <2>4, EditsKeep
<1>4. CASE LibraryKeep
  <2>1. PICK s \in Seqs : Edits(SeqKeep(cache, s))
    BY <1>4 DEF LibraryKeep
  <2>2. PICK c : c = SeqKeep(cache, s)
    OBVIOUS
  <2>3. Sound(c)
    BY <1>1, <2>2, SeqKeepSound
  <2> QED
    BY <1>4, <2>1, <2>2, <2>3, EditsKeep DEF LibraryKeep
<1>5. CASE LibraryClear
  BY <1>5, EmptyIsSound, EditsKeep DEF LibraryClear
<1> QED
  BY <1>2, <1>3, <1>4, <1>5

\* A library client's batch has no token twice: in a sequence the positions grow.
LEMMA BatchIs ==
    ASSUME NEW owners \in Seq(Seqs), NEW off \in Int, NEW stride \in {1, 2},
           NEW b, b = BatchOf(owners, off, stride),
           \A k \in DOMAIN b : b[k].pos \in 0 .. MaxPosition
    PROVE  b \in Seq(Token) /\ Ordered(b)
<1> DEFINE n == Len(owners)
           rank(k) == Cardinality({j \in 1 .. k - 1 : owners[j] = owners[k]})
           from(s) == SeqPosMax(cache, s) + 1 + off
<1>1. n \in Nat /\ DOMAIN owners = 1 .. n /\ \A k \in 1 .. n : owners[k] \in Seqs
  OBVIOUS
<1>2. /\ DOMAIN b = 1 .. n /\ b = [k \in 1 .. n |-> b[k]]
      /\ \A k \in 1 .. n : b[k] = [owner |-> owners[k], pos |-> from(owners[k]) + stride * rank(k)]
  BY <1>1 DEF BatchOf
<1>3. \A s : from(s) \in Int
  BY LastPosition
<1>4. \A k \in 1 .. n : rank(k) \in Nat
  <2> SUFFICES ASSUME NEW k \in 1 .. n PROVE rank(k) \in Nat
    OBVIOUS
  <2> DEFINE I == 1 .. k - 1
             R == {j \in I : owners[j] = owners[k]}
  <2>1. IsFiniteSet(I)
    BY FS_Interval
  <2> HIDE DEF I
  <2>2. IsFiniteSet(R)
    BY <2>1, FS_Subset
  <2> HIDE DEF R
  <2>3. Cardinality(R) \in Nat
    BY <2>2, FS_CardinalityType
  <2> QED
    BY <2>3 DEF R, I
<1>5. \A j, k \in 1 .. n : j < k /\ owners[j] = owners[k] => rank(j) < rank(k)
  <2> SUFFICES ASSUME NEW j \in 1 .. n, NEW k \in 1 .. n, j < k, owners[j] = owners[k]
               PROVE  rank(j) < rank(k)
    OBVIOUS
  <2> DEFINE I == 1 .. k - 1
             J == {i \in 1 .. j - 1 : owners[i] = owners[j]}
             K == {i \in I : owners[i] = owners[k]}
  <2>1. k - 1 \in Int /\ 1 \in Int
    BY <1>1
  <2>2. IsFiniteSet(I)
    BY <2>1, FS_Interval
  <2>3. j \in I /\ \A i \in 1 .. j - 1 : i \in I /\ i # j
    BY <1>1
  <2>4. IsFiniteSet(I) /\ j \in I /\ \A i \in 1 .. j - 1 : i \in I /\ i # j
    BY <2>2, <2>3
  <2> HIDE DEF I
  <2>5. IsFiniteSet(K) /\ j \in K /\ J \subseteq K \ {j}
    <3>1. IsFiniteSet(K)
      BY <2>4, FS_Subset
    <3> QED
      BY <2>4, <3>1
  <2> HIDE DEF J, K
  <2>6. Cardinality(K \ {j}) = Cardinality(K) - 1 /\ IsFiniteSet(K \ {j})
    BY <2>5, FS_RemoveElement
  <2>7. Cardinality(J) <= Cardinality(K \ {j}) /\ IsFiniteSet(J)
    BY <2>5, <2>6, FS_Subset
  <2>8. Cardinality(J) \in Nat /\ Cardinality(K) \in Nat
    BY <2>5, <2>7, FS_CardinalityType
  <2>9. Cardinality(J) < Cardinality(K)
    BY <2>6, <2>7, <2>8
  <2> QED
    BY <2>9 DEF J, K, I
<1>6. \A k \in 1 .. n : b[k].owner = owners[k] /\ b[k].pos = from(owners[k]) + stride * rank(k)
  <2> SUFFICES ASSUME NEW k \in 1 .. n
               PROVE  /\ b[k].owner = owners[k]
                      /\ b[k].pos = from(owners[k]) + stride * rank(k)
    OBVIOUS
  <2> DEFINE p == from(owners[k]) + stride * rank(k)
  <2>1. b[k] = [owner |-> owners[k], pos |-> p]
    BY <1>2
  <2> HIDE DEF p
  <2>2. b[k].owner = owners[k] /\ b[k].pos = p
    BY <2>1
  <2> QED
    BY <2>2 DEF p
<1>7. b \in Seq(Token)
  <2>1. \A k \in 1 .. n : b[k].pos \in Positions
    <3>1. MaxPosition \in Positions
      BY BatchAssumption
    <3>2. \A p \in 0 .. MaxPosition : p \in Positions
      BY <3>1, SizesAssumption DEF Positions
    <3> HIDE DEF from, rank
    <3> QED
      BY <1>2, <3>2
  <2>2. \A k \in 1 .. n : b[k] \in Token
    <3> SUFFICES ASSUME NEW k \in 1 .. n PROVE b[k] \in Token
      OBVIOUS
    <3> DEFINE p == from(owners[k]) + stride * rank(k)
    <3>1. b[k] = [owner |-> owners[k], pos |-> p] /\ p \in Positions /\ owners[k] \in Seqs
      BY <1>1, <1>2, <1>6, <2>1
    <3> HIDE DEF p
    <3> QED
      BY <3>1 DEF Token
  <2> HIDE DEF from, rank, n
  <2> QED
    BY <1>1, <1>2, <2>2
<1> HIDE DEF from, rank
<1>8. ASSUME NEW j \in 1 .. n, NEW k \in 1 .. n, j < k, owners[j] = owners[k]
      PROVE  b[j].pos < b[k].pos
  <2> DEFINE f == from(owners[j])
             x == rank(j)
             y == rank(k)
  <2>1. f \in Int /\ x \in Nat /\ y \in Nat /\ x < y
    BY <1>3, <1>4, <1>5, <1>8
  <2>2. b[j].pos = f + stride * x /\ b[k].pos = f + stride * y
    BY <1>6, <1>8
  <2> HIDE DEF f, x, y
  <2>3. CASE stride = 1
    BY <2>1, <2>2, <2>3
  <2>4. CASE stride = 2
    BY <2>1, <2>2, <2>4
  <2> QED
    BY <2>3, <2>4
<1>9. Ordered(b)
  BY <1>2, <1>6, <1>8 DEF Ordered
<1> QED
  BY <1>7, <1>9

\* A library client's decode starts with such a batch.
LEMMA LibraryStarts ==
    ASSUME LibraryDecode
    PROVE  /\ phase = "idle" /\ app.at = "library"
           /\ cache' = cache /\ tensors' = tensors /\ app' = app
           /\ \E b \in Seq(Token) : Ordered(b) /\ Start(cache, b)
<1>1. PICK owners \in Owners, shape \in {<<0, 1>>, <<-1, 1>>, <<1, 1>>, <<0, 2>>} :
        LET batch == BatchOf(owners, shape[1], shape[2])
        IN  /\ \A k \in DOMAIN batch : batch[k].pos \in 0 .. MaxPosition
            /\ Start(cache, batch)
  BY DEF LibraryDecode
<1>2. PICK off \in Int, stride \in {1, 2} :
        LET batch == BatchOf(owners, off, stride)
        IN  /\ \A k \in DOMAIN batch : batch[k].pos \in 0 .. MaxPosition
            /\ Start(cache, batch)
  <2>1. shape[1] \in Int /\ shape[2] \in {1, 2}
    OBVIOUS
  <2> QED
    BY <1>1, <2>1
<1>3. PICK b : b = BatchOf(owners, off, stride)
  OBVIOUS
<1>4. (\A k \in DOMAIN b : b[k].pos \in 0 .. MaxPosition) /\ Start(cache, b)
  BY <1>2, <1>3
<1>5. owners \in Seq(Seqs)
  BY BatchAssumption
<1>6. b \in Seq(Token) /\ Ordered(b)
  BY <1>3, <1>4, <1>5, BatchIs
<1> QED
  BY <1>4, <1>6 DEF LibraryDecode, LibraryIdle

\* And it keeps the invariant.
LEMMA LibraryDecodeKeeps ==
    ASSUME Inv, LibraryDecode
    PROVE  Inv'
<1>1. /\ phase = "idle" /\ app.at = "library" /\ app' = app
      /\ cache' = cache /\ tensors' = tensors
      /\ tensors \in [Cells -> Token \cup {Unwritten, Lost}]
      /\ Typed /\ Sound(cache) /\ cache \in CacheType
  BY LibraryStarts DEF Inv, Typed, TypeOK
<1>2. PICK b \in Seq(Token) : Ordered(b) /\ Start(cache, b)
  BY LibraryStarts
<1>3. PICK c : c = cache
  OBVIOUS
<1>4. Start(c, b) /\ Sound(c) /\ cache' = c /\ Distinct(b)
  BY <1>1, <1>2, <1>3, OrderedIsDistinct
<1>5. /\ phase' \in Phases /\ job' \in JobType /\ result' \in Results
      /\ Searching' /\ Placing'
  BY <1>1, <1>4, Starting
<1>6. Typed'
  BY <1>1, <1>5, AppStays
<1> QED
  BY <1>1, <1>5, <1>6 DEF Inv

\* Every step keeps the invariant.
LEMMA StepKeeps == Inv /\ [Next]_vars => Inv'
<1> SUFFICES ASSUME Inv, [Next]_vars PROVE Inv'
  OBVIOUS
<1>1. CASE Prepare
  BY <1>1, PrepareKeeps
<1>2. CASE Optimize
  BY <1>2, OptimizeKeeps
<1>3. CASE Apply
  BY <1>3, ApplyKeeps
<1>4. CASE Compute
  BY <1>4, ComputeKeeps
<1>5. CASE ComputeFails
  BY <1>5, ComputeFailsKeeps
<1>6. CASE PromptDone
  BY <1>6, PromptDoneKeeps
<1>7. CASE Generate
  BY <1>7, GenerateKeeps
<1>8. CASE StepDone
  BY <1>8, StepDoneKeeps
<1>9. CASE LibraryDecode
  BY <1>9, LibraryDecodeKeeps
<1>10. CASE LibraryRm \/ LibraryCp \/ LibraryKeep \/ LibraryClear
  BY <1>10, LibraryEditsKeep
<1>11. CASE Reset
  BY <1>11, ResetKeeps
<1>12. ASSUME NEW n \in 1 .. NCells, Classify(n) PROVE Inv'
  BY <1>12, ClassifyKeeps
<1>13. CASE UNCHANGED vars
  BY <1>13 DEF vars, Inv, Typed, TypeOK, AppPlace, Searching, Placing, ToPlace
<1> QED
  BY <1>1, <1>2, <1>3, <1>4, <1>5, <1>6, <1>7, <1>8, <1>9, <1>10, <1>11, <1>12, <1>13
  DEF Next, DecodeStep, AppStep, LibraryStep

\* The invariant holds throughout every behaviour.
LEMMA Invariance == Spec => []Inv
<1> QED
  BY InitHolds, StepKeeps, PTL DEF Spec

(***************************************************************************)
(* The theorems.                                                           *)
(***************************************************************************)

\* Every cell, tensor, slot and micro-batch number stays in its range, through
\* every decode and every edit: no batch places a token outside the cells.
THEOREM TypeCorrect == Spec => []TypeOK
<1>1. Inv => TypeOK
  BY DEF Inv, Typed
<1> QED
  BY <1>1, Invariance, PTL

\* used and seq_pos, which pos_set, seq_add, seq_rm, mv, set and the others keep
\* up incrementally, always say what the cells say; no sequence ever has two
\* cells for one position.
THEOREM Indexes == Spec => []IndexesAgree
<1>1. Inv => IndexesAgree
  <2> SUFFICES ASSUME Inv PROVE IndexesAgree
    OBVIOUS
  <2>1. cache \in CacheType /\ Sound(cache)
    BY DEF Inv, Sound
  <2>2. Agree(cache)
    BY <2>1, SoundIsAgree
  <2> QED
    BY <2>2 DEF Agree, IndexesAgree
<1> QED
  BY <1>1, Invariance, PTL

\* init_batch places all micro-batches to find their slots and takes them out
\* again; the decode goes on, is retried or gives up with the cells as they were.
THEOREM Restores == Spec => PrepareRestores
<1>1. Inv /\ [Next]_vars => [phase = "prepare" => cache' = cache]_vars
  <2> SUFFICES ASSUME Inv, Next, phase = "prepare" PROVE cache' = cache
    OBVIOUS
  <2>1. app.at # "idle"
    BY DEF Inv, Typed, AppPlace
  <2>2. CASE Prepare
    BY <2>2, PrepareFinds
  <2>3. CASE Optimize \/ Apply \/ Compute \/ ComputeFails
    BY <2>3 DEF Optimize, Apply, Compute, ComputeFails
  <2>4. CASE AppStep
    BY <2>4 DEF AppStep, PromptDone, Generate, StepDone
  <2>5. CASE LibraryStep
    BY <2>5 DEF LibraryStep, LibraryDecode, LibraryRm, LibraryCp, LibraryKeep,
                LibraryClear, LibraryIdle
  <2>6. CASE Reset
    BY <2>1, <2>6 DEF Reset
  <2>7. ~\E n \in 1 .. NCells : Classify(n)
    BY DEF Classify
  <2> QED
    BY <2>2, <2>3, <2>4, <2>5, <2>6, <2>7 DEF Next, DecodeStep
<1> QED
  BY <1>1, Invariance, PTL DEF Spec, PrepareRestores

(***************************************************************************)
(* The app's own batches.                                                  *)
(***************************************************************************)

\* The first w cells hold sequence 0 at the positions of their own numbers.
FilledTo(c, w) ==
    /\ w \in 0 .. NCells /\ c.head = w
    /\ \A i \in Cells : IF i < w THEN c.pos[i] = i /\ c.members[i] = {0} ELSE c.pos[i] = NoPos

\* The ends of an interval.
LEMMA IntervalEnds ==
    ASSUME NEW a \in Nat, NEW b \in Nat, a <= b
    PROVE  MinOf(a .. b) = a /\ MaxOf(a .. b) = b
<1> DEFINE S == a .. b
<1>1. /\ S \in SUBSET Nat /\ S \in SUBSET (0 .. b) /\ a \in S /\ b \in S
      /\ \A x \in S : a <= x /\ x <= b
  OBVIOUS
<1> HIDE DEF S
<1>2. MinOf(S) \in S /\ MinOf(S) <= a
  BY <1>1, MinIs
<1>3. MaxOf(S) \in S /\ b <= MaxOf(S)
  BY <1>1, MaxIs
<1>4. a <= MinOf(S) /\ MaxOf(S) <= b /\ MinOf(S) \in Nat /\ MaxOf(S) \in Nat
  BY <1>1, <1>2, <1>3
<1>5. MinOf(S) = a /\ MaxOf(S) = b
  BY <1>2, <1>3, <1>4
<1> QED
  BY <1>5 DEF S

\* Such a cache has as many used cells, and its last position is the last cell.
LEMMA FilledIs ==
    ASSUME NEW c, Sound(c), NEW w, FilledTo(c, w), w <= Available
    PROVE  /\ w \in Nat /\ Cardinality(c.used) = w
           /\ SeqPosMax(c, 0) = w - 1
           /\ \A s \in Seqs, i \in Cells, p \in Positions : Holds(c, i, s, p) => p < w
<1>1. w \in Nat /\ w <= NCells - 1 /\ NCells \in Nat /\ 0 \in Seqs
  BY SizesAssumption DEF FilledTo, Available, Seqs
<1>2. \A i \in Cells : c.pos[i] # NoPos <=> i < w
  BY PositionsAreNat, SizesAssumption DEF FilledTo, NoPos, Cells
<1>3. c.used = 0 .. w - 1
  <2>1. c.used = {i \in Cells : c.pos[i] # NoPos}
    BY DEF Sound
  <2>2. \A i : i \in c.used <=> i \in 0 .. w - 1
    BY <1>1, <1>2, <2>1 DEF Cells
  <2> QED
    BY <2>2
<1>4. Cardinality(c.used) = w
  <2>1. 0 \in Int /\ w - 1 \in Int
    BY <1>1
  <2>2. Cardinality(0 .. w - 1) = IF 0 > w - 1 THEN 0 ELSE (w - 1) - 0 + 1
    BY <2>1, FS_Interval
  <2> QED
    BY <1>1, <1>3, <2>2
<1>5. \A s \in Seqs, i \in Cells, p \in Positions : Holds(c, i, s, p) => p = i /\ i < w
  <2> SUFFICES ASSUME NEW s \in Seqs, NEW i \in Cells, NEW p \in Positions, Holds(c, i, s, p)
               PROVE  p = i /\ i < w
    OBVIOUS
  <2>1. c.pos[i] = p /\ p # NoPos
    BY PositionsAreNat DEF Holds
  <2>2. i < w
    BY <1>2, <2>1
  <2> QED
    BY <2>1, <2>2 DEF FilledTo
<1>6. Occurrences(c, 0) = {p \in Positions : p < w}
  <2>1. Occurrences(c, 0) = {p \in Positions : \E i \in Cells : Holds(c, i, 0, p)}
    BY <1>1, NoOccurrences
  <2>2. ASSUME NEW p \in Positions
        PROVE  (\E i \in Cells : Holds(c, i, 0, p)) <=> p < w
    <3>1. ASSUME p < w PROVE Holds(c, p, 0, p) /\ p \in Cells
      <4>1. p \in Cells
        BY SizesAssumption DEF Positions, Cells
      <4> QED
        BY <3>1, <4>1 DEF FilledTo, Holds
    <3> QED
      BY <1>1, <1>5, <3>1
  <2> QED
    BY <2>1, <2>2
<1>7. SeqPosMax(c, 0) = w - 1
  <2>1. CASE w = 0
    <3>1. Occurrences(c, 0) = {}
      BY <1>6, <2>1 DEF Positions
    <3> QED
      BY <2>1, <3>1 DEF SeqPosMax, NoPos
  <2>2. CASE w # 0
    <3> DEFINE v == w - 1
    <3>1. v \in Nat /\ 0 <= v
      BY <1>1, <2>2
    <3>2. Occurrences(c, 0) = 0 .. v
      <4>1. \A p : p \in Occurrences(c, 0) <=> p \in 0 .. v
        BY <1>1, <1>6, <2>2 DEF Positions
      <4> QED
        BY <4>1
    <3> HIDE DEF v
    <3>3. SeqPosMax(c, 0) = MaxOf(0 .. v)
      BY <3>1, <3>2 DEF SeqPosMax
    <3>4. MaxOf(0 .. v) = v
      BY <3>1, IntervalEnds
    <3> QED
      BY <3>3, <3>4 DEF v
  <2> QED
    BY <2>1, <2>2
<1> QED
  BY <1>1, <1>4, <1>5, <1>7

\* The next tokens of sequence 0 are accepted.
LEMMA RowAccepted ==
    ASSUME NEW c, Sound(c), NEW w, FilledTo(c, w), NEW n \in Nat \ {0}, w + n <= Available
    PROVE  Accepts(c, Row(w, n))
<1> DEFINE b == Row(w, n)
           to == w + n - 1
           new == PositionsIn(b, 0)
<1>1. w \in Nat /\ w <= Available /\ to \in Nat /\ w <= to
  <2>1. w \in Nat
    BY SizesAssumption DEF FilledTo
  <2> QED
    BY <2>1, SizesAssumption DEF Available
<1>2. /\ b # <<>> /\ DOMAIN b = 1 .. n
      /\ \A k \in 1 .. n : b[k].owner = 0 /\ b[k].pos = w + k - 1
  <2>1. b \in Seq(Token) /\ Len(b) = n /\ DOMAIN b = 1 .. n
    BY <1>1, RowIs
  <2>2. b # <<>>
    BY <2>1
  <2>3. \A k \in 1 .. n : b[k].owner = 0 /\ b[k].pos = w + k - 1
    BY DEF Row
  <2> QED
    BY <2>1, <2>2, <2>3
<1> HIDE DEF b
<1>3. new = w .. to
  <2>1. \A p : p \in new <=> \E k \in 1 .. n : p = w + k - 1
    BY <1>2 DEF PositionsIn
  <2>2. ASSUME NEW p \in w .. to PROVE \E k \in 1 .. n : p = w + k - 1
    <3>1. p - w + 1 \in 1 .. n /\ p = w + (p - w + 1) - 1
      BY <1>1, <2>2
    <3> QED
      BY <3>1
  <2>3. \A k \in 1 .. n : w + k - 1 \in w .. to
    BY <1>1
  <2> HIDE DEF new, to
  <2>4. \A p : p \in new <=> p \in w .. to
    BY <2>1, <2>2, <2>3
  <2> QED
    BY <2>4
<1> HIDE DEF new
<1>4. MinOf(new) = w /\ MaxOf(new) = to /\ Cardinality(new) = n
  <2>1. MinOf(new) = w /\ MaxOf(new) = to
    BY <1>1, <1>3, IntervalEnds
  <2>2. Cardinality(w .. to) = to - w + 1
    <3> HIDE DEF to
    <3> QED
      BY <1>1, FS_Interval
  <2> QED
    BY <1>1, <1>3, <2>1, <2>2
<1>5. SeqPosMax(c, 0) = w - 1
  BY <1>1, FilledIs
<1>6. \A s \in {b[k].owner : k \in DOMAIN b} : s = 0
  BY <1>2
<1>7. MinOf(new) = SeqPosMax(c, 0) + 1 /\ MaxOf(new) - MinOf(new) + 1 <= Cardinality(new)
  BY <1>1, <1>4, <1>5
<1> QED
  BY <1>2, <1>6, <1>7 DEF Accepts, b, new

\* They find room at the head, and the cells are filled further.
LEMMA RowFills ==
    ASSUME NEW c, Sound(c), NEW w, FilledTo(c, w), NEW ub \in Seq(Token) \ {<<>>},
           w + Len(ub) <= Available,
           \A j \in DOMAIN ub : ub[j] = [owner |-> 0, pos |-> w + j - 1]
    PROVE  /\ w \in Nat /\ FreeRun(c, w, Len(ub)) /\ Fresh(c, ub)
           /\ FindSlot(c, Len(ub)) = w
           /\ FilledTo(ApplyUbatch(c, w, ub), w + Len(ub))
<1> DEFINE n == Len(ub)
           d == ApplyUbatch(c, w, ub)
<1>1. n \in Nat \ {0} /\ DOMAIN ub = 1 .. n /\ w \in Nat /\ NCells \in Nat
      /\ c \in CacheType
  BY SizesAssumption DEF FilledTo, Sound
<1> HIDE DEF n
<1>2. w + n <= NCells /\ w <= Available /\ w + n \in 0 .. NCells
  BY <1>1 DEF Available, n
<1>3. FreeRun(c, w, n)
  <2>1. \A i \in w .. w + n - 1 : i \in Cells /\ ~(i < w)
    BY <1>1, <1>2 DEF Cells
  <2> QED
    BY <1>1, <1>2, <2>1 DEF FreeRun, FilledTo, IsEmpty
<1>4. Fresh(c, ub)
  <2>1. \A j \in 1 .. n : ub[j].owner = 0 /\ ub[j].pos = w + j - 1
    <3> SUFFICES ASSUME NEW j \in 1 .. n PROVE ub[j].owner = 0 /\ ub[j].pos = w + j - 1
      OBVIOUS
    <3> DEFINE p == w + j - 1
    <3>1. ub[j] = [owner |-> 0, pos |-> p]
      BY <1>1
    <3> HIDE DEF p
    <3>2. ub[j].owner = 0 /\ ub[j].pos = p
      BY <3>1
    <3> QED
      BY <3>2 DEF p
  <2>2. \A j, k \in 1 .. n : ub[j] = ub[k] => j = k
    BY <1>1, <2>1
  <2>3. \A j \in 1 .. n : ub[j].pos \in Positions /\ ub[j].owner \in Seqs
    BY <1>1, TokenFields
  <2>4. \A j \in 1 .. n, i \in Cells : ~Holds(c, i, ub[j].owner, ub[j].pos)
    <3> SUFFICES ASSUME NEW j \in 1 .. n, NEW i \in Cells,
                        Holds(c, i, ub[j].owner, ub[j].pos)
                 PROVE  FALSE
      OBVIOUS
    <3>1. ub[j].pos < w
      BY <1>2, <2>3, FilledIs
    <3> QED
      BY <1>1, <2>1, <3>1
  <2> QED
    BY <1>1, <2>2, <2>4 DEF Fresh
<1>5. FindSlot(c, n) = w
  <2>1. c.head = w /\ Cardinality(c.used) = w
    BY <1>2, FilledIs DEF FilledTo
  <2>2. w <= w + 2 * n
    BY <1>1
  <2> QED
    BY <1>1, <1>3, <2>1, <2>2, FindSlotFinds
<1>6. Filled(c, w, ub, d)
  BY <1>3, <1>4, ApplyFills DEF n
<1> HIDE DEF d
<1>7. ASSUME NEW i \in Cells
      PROVE  IF i < w + n THEN d.pos[i] = i /\ d.members[i] = {0} ELSE d.pos[i] = NoPos
  <2>1. i \in Nat /\ (i \in Slot(w, ub) <=> w <= i /\ i < w + n)
    BY <1>1 DEF Cells, Slot, n
  <2>2. CASE i \in Slot(w, ub)
    <3>1. i - w + 1 \in DOMAIN ub /\ w + (i - w + 1) - 1 = i
      BY <1>1, <2>1, <2>2
    <3>2. TokenIn(w, ub, i) = [owner |-> 0, pos |-> i]
      BY <3>1 DEF TokenIn
    <3>3. TokenIn(w, ub, i).owner = 0 /\ TokenIn(w, ub, i).pos = i
      BY <3>2
    <3> QED
      BY <1>6, <2>1, <2>2, <3>3 DEF Filled
  <2>3. CASE i \notin Slot(w, ub)
    <3>1. d.pos[i] = c.pos[i] /\ d.members[i] = c.members[i]
      BY <1>6, <2>3 DEF Filled
    <3>2. i < w + n <=> i < w
      BY <1>1, <2>1, <2>3
    <3> QED
      BY <3>1, <3>2 DEF FilledTo
  <2> QED
    BY <2>2, <2>3
<1>8. d.head = w + n
  BY <1>6 DEF Filled, n
<1>9. FilledTo(d, w + n)
  BY <1>2, <1>7, <1>8 DEF FilledTo
<1> QED
  BY <1>1, <1>3, <1>4, <1>5, <1>9 DEF n, d

\* All their micro-batches find room, one behind the other from the head on.
LEMMA RowPlaces ==
    ASSUME NEW c, Sound(c), NEW w, FilledTo(c, w), NEW n \in Nat \ {0}, w + n <= Available,
           NEW b, b = Row(w, n)
    PROVE  LET placed == Placed(c, Ubatches(b))
           IN  /\ placed.success
               /\ \A k \in 1 .. NUbatches(b) : StartOf(placed.saved, k) = w + Before(k)
<1> DEFINE us == Ubatches(b)
           N == NUbatches(b)
           Mark(k) == IF k < N THEN Before(k + 1) ELSE n
           Good(k, st) ==
                /\ st.success /\ FilledTo(st.cache, w + Mark(k))
                /\ \A j \in 1 .. k : StartOf(st.saved, j) = w + Before(j)
           S == [k \in 0 .. N |-> {st \in PlaceState : Good(k, st)}]
<1>1. w \in Nat
  BY SizesAssumption DEF FilledTo
<1>2. /\ b \in Seq(Token) /\ b # <<>> /\ Len(b) = n /\ DOMAIN b = 1 .. n /\ Fresh(c, b)
      /\ \A k \in 1 .. n : b[k] = [owner |-> 0, pos |-> w + k - 1]
  <2>1. b \in Seq(Token) /\ Distinct(b) /\ Len(b) = n /\ DOMAIN b = 1 .. n
    BY <1>1, RowIs
  <2>2. b # <<>>
    BY <2>1
  <2>3. Accepts(c, b)
    BY RowAccepted
  <2>4. Fresh(c, b)
    BY <2>1, <2>3, AcceptedIsFresh
  <2>5. \A k \in 1 .. n : b[k] = [owner |-> 0, pos |-> w + k - 1]
    BY DEF Row
  <2> QED
    BY <2>1, <2>2, <2>4, <2>5
<1>3. /\ N \in Nat \ {0} /\ MicroBatches(c, us) /\ Len(us) = N
      /\ \A k \in 1 .. N : us[k] = Ubatch(b, k)
      /\ \A k \in 1 .. N : Before(k) + Len(Ubatch(b, k)) = Mark(k)
  <2>1. MicroBatches(c, us) /\ Len(us) = N /\ \A k \in 1 .. N : us[k] = Ubatch(b, k)
    BY <1>2, SplitIsFresh
  <2>2. N \in Nat \ {0} /\ \A k \in 1 .. N : Before(k) + Len(Ubatch(b, k)) = Mark(k)
    BY <1>2, Split
  <2> QED
    BY <2>1, <2>2
<1> HIDE DEF us, N
<1>4. PICK after :
        /\ after[0] = [cache |-> c, success |-> TRUE, saved |-> <<>>]
        /\ \A k \in 1 .. N : after[k] = Place(after[k - 1], us[k])
        /\ \A k \in 0 .. N : PlaceInv(c, us, k, after[k])
        /\ Placed(c, us) = after[N]
  BY <1>3, PlacedSteps
<1>5. after[0] \in S[0]
  <2>1. Mark(0) = 0 /\ 0 \in 0 .. N
    BY <1>3, BeforeGrows
  <2>2. after[0] \in PlaceState
    BY <1>4, <2>1 DEF PlaceInv
  <2>3. after[0].success /\ after[0].cache = c /\ w + 0 = w
    BY <1>1, <1>4
  <2> HIDE DEF Mark
  <2>4. Good(0, after[0])
    BY <2>1, <2>3
  <2> HIDE DEF Good
  <2> QED
    BY <2>1, <2>2, <2>4
<1>6. ASSUME NEW k \in 1 .. N, Good(k - 1, after[k - 1])
      PROVE  Good(k, after[k])
  <2> DEFINE st == after[k - 1]
             ub == Ubatch(b, k)
             at == w + Before(k)
  <2>1. /\ k - 1 \in 0 .. N /\ k \in 0 .. N /\ k - 1 < N /\ (k - 1) + 1 = k /\ k \in Nat \ {0}
    BY <1>3
  <2>2. /\ Sound(st.cache) /\ st.success /\ FilledTo(st.cache, at) /\ Len(st.saved) = k - 1
        /\ st \in PlaceState
        /\ \A j \in 1 .. k - 1 : StartOf(st.saved, j) = w + Before(j)
    <3>1. PlaceInv(c, us, k - 1, st)
      BY <1>4, <2>1
    <3>2. Mark(k - 1) = Before(k)
      BY <2>1
    <3> HIDE DEF st, Mark
    <3> QED
      BY <1>6, <3>1, <3>2 DEF PlaceInv, st
  <2>3. after[k] = Place(st, ub)
    BY <1>3, <1>4
  <2>4. /\ Before(k) \in Nat /\ ub \in Seq(Token) \ {<<>>} /\ Len(ub) \in Nat \ {0}
        /\ Before(k) + Len(ub) = Mark(k) /\ Mark(k) \in Nat /\ Mark(k) <= n
        /\ \A j \in DOMAIN ub : j \in Nat /\ Before(k) + j \in 1 .. n /\ ub[j] = b[Before(k) + j]
    <3>1. /\ Before(k) \in Nat /\ ub \in Seq(Token) \ {<<>>} /\ Len(ub) \in Nat \ {0}
          /\ \A j \in DOMAIN ub : j \in Nat /\ Before(k) + j \in DOMAIN b
                                    /\ ub[j] = b[Before(k) + j]
          /\ DOMAIN ub = 1 .. Len(ub)
      BY <1>2, UbatchIs DEF N
    <3>2. Before(k) + Len(ub) \in 1 .. n
      <4>1. Len(ub) \in DOMAIN ub
        BY <3>1
      <4> QED
        BY <1>2, <3>1, <4>1
    <3>3. Before(k) + Len(ub) = Mark(k)
      BY <1>3
    <3> HIDE DEF ub, Mark
    <3> QED
      BY <1>2, <3>1, <3>2, <3>3
  <2> HIDE DEF st, ub, Mark
  <2>5. at + Len(ub) = w + Mark(k) /\ at + Len(ub) <= Available
    <3>1. w + n <= Available /\ Available \in Int
      BY SizesAssumption DEF Available
    <3> QED
      BY <1>1, <2>4, <3>1
  <2>6. \A j \in DOMAIN ub : ub[j] = [owner |-> 0, pos |-> at + j - 1]
    <3> SUFFICES ASSUME NEW j \in DOMAIN ub PROVE ub[j] = [owner |-> 0, pos |-> at + j - 1]
      OBVIOUS
    <3>1. ub[j] = [owner |-> 0, pos |-> w + (Before(k) + j) - 1]
      BY <1>2, <2>4
    <3>2. w + (Before(k) + j) - 1 = at + j - 1
      <4>1. w \in Nat /\ Before(k) \in Nat /\ j \in Nat
        BY <1>1, <2>4
      <4> QED
        BY <4>1
    <3> QED
      BY <3>1, <3>2
  <2> HIDE DEF at
  <2>7. /\ at \in Nat /\ FindSlot(st.cache, Len(ub)) = at
        /\ FilledTo(ApplyUbatch(st.cache, at, ub), at + Len(ub))
    BY <2>2, <2>4, <2>5, <2>6, RowFills
  <2> DEFINE e == [cells |-> Slot(at, ub), old |-> st.cache]
  <2>8. /\ after[k].success /\ after[k].cache = ApplyUbatch(st.cache, at, ub)
        /\ after[k].saved = Append(st.saved, e)
    <3>1. at # NoSlot
      BY <2>7 DEF NoSlot
    <3> QED
      BY <2>2, <2>3, <2>7, <3>1 DEF Place
  <2>9. \A j \in 1 .. k : StartOf(after[k].saved, j) = w + Before(j)
    <3>1. /\ Append(st.saved, e)[k] = e
          /\ \A j \in 1 .. k - 1 : Append(st.saved, e)[j] = st.saved[j]
      <4>1. st.saved \in Seq([cells : SUBSET Cells, old : CacheType])
        BY <2>2 DEF PlaceState
      <4> HIDE DEF e
      <4> QED
        BY <2>1, <2>2, <4>1
    <3>2. StartOf(after[k].saved, k) = at
      <4>1. MinOf(e.cells) = at
        BY <2>4, <2>7, SlotStart
      <4> HIDE DEF e
      <4> QED
        BY <2>8, <3>1, <4>1 DEF StartOf
    <3>3. \A j \in 1 .. k - 1 : StartOf(after[k].saved, j) = StartOf(st.saved, j)
      <4> HIDE DEF e
      <4> QED
        BY <2>8, <3>1 DEF StartOf
    <3>4. \A j \in 1 .. k : j = k \/ j \in 1 .. k - 1
      BY <2>1
    <3> QED
      BY <2>2, <3>2, <3>3, <3>4 DEF at
  <2>10. FilledTo(after[k].cache, w + Mark(k))
    BY <2>5, <2>7, <2>8
  <2> QED
    BY <2>8, <2>9, <2>10
<1> HIDE DEF Good
<1>7. \A k \in 0 .. N : after[k] \in S[k]
  <2>1. \A k \in 1 .. N : after[k - 1] \in S[k - 1] => after[k] \in S[k]
    <3> SUFFICES ASSUME NEW k \in 1 .. N, after[k - 1] \in S[k - 1] PROVE after[k] \in S[k]
      OBVIOUS
    <3>1. k - 1 \in 0 .. N /\ k \in 0 .. N
      BY <1>3
    <3>2. Good(k - 1, after[k - 1])
      BY <3>1
    <3>3. Good(k, after[k]) /\ after[k] \in PlaceState
      BY <1>4, <1>6, <3>1, <3>2 DEF PlaceInv
    <3> QED
      BY <3>1, <3>3
  <2> HIDE DEF S
  <2> QED
    BY <1>3, <1>5, <2>1, Stays
<1>8. N \in 0 .. N
  BY <1>3
<1>9. Good(N, after[N])
  BY <1>7, <1>8
<1> QED
  BY <1>4, <1>9 DEF Good, us, N

\* The positions of nativeClassify's decode: the prompt's, or the last token's.
AppBase == IF app.at = "prompt" THEN 0 ELSE app.cur_pos
AppEnd == IF app.at = "prompt" THEN app.cur_pos ELSE app.cur_pos + 1

\* Where a decode of nativeClassify is.
AppDecode ==
    /\ AppBase \in Nat /\ AppEnd \in Nat /\ AppBase < AppEnd /\ AppEnd <= Available
    /\ phase # "optimize"
    /\ phase # "idle" => job.batch = Row(AppBase, AppEnd - AppBase)
    /\ phase = "prepare" => FilledTo(cache, AppBase)
    /\ phase \in {"apply", "compute"} =>
            \A k \in 1 .. NUbatches(job.batch) : job.slots[k] = AppBase + Before(k)
    /\ phase = "apply" => FilledTo(cache, AppBase + Before(job.i_cur))
    /\ phase = "compute" =>
            FilledTo(cache, AppBase + Before(job.i_cur) + Len(CurrentUbatch))
    /\ phase = "idle" /\ result = 0 => FilledTo(cache, AppEnd)

\* Sequence 0 fills the cells from the first on, as far as the app has got.
AppCalls ==
    /\ app.at \in {"prompt", "step"} => AppDecode
    /\ app.at = "generate" => FilledTo(cache, app.cur_pos) /\ app.cur_pos \in 0 .. Available
    /\ app.at # "library" => result \in {0, 2}

\* nativeClassify starts a decode of the tokens that follow what it has.
LEMMA AppStarts ==
    ASSUME NEW c, Sound(c), cache' = c, NEW w \in Nat, FilledTo(c, w),
           NEW n \in Nat \ {0}, w + n <= Available, NEW b, b = Row(w, n), Start(c, b),
           app'.at \in {"prompt", "step"}, AppBase' = w, AppEnd' = w + n
    PROVE  AppCalls'
<1>1. Accepts(c, b)
  BY RowAccepted
<1>2. /\ phase' = IF Len(b) <= NBatch THEN "prepare" ELSE "aborted"
      /\ job' = [NoJob EXCEPT !.batch = b] /\ result' = 0
  BY <1>1 DEF Start
<1>3. job'.batch = b
  BY <1>2 DEF NoJob
<1>4. AppEnd' - AppBase' = n /\ AppBase' \in Nat /\ AppEnd' \in Nat /\ AppBase' < AppEnd'
      /\ AppEnd' <= Available
  BY SizesAssumption DEF Available
<1>5. AppDecode'
  <2> PICK base : base = AppBase'
    OBVIOUS
  <2>1. FilledTo(cache', AppBase')
    OBVIOUS
  <2> QED
    BY <1>2, <1>3, <1>4, <2>1 DEF AppDecode
<1> QED
  BY <1>2, <1>5 DEF AppCalls

\* The decode steps of nativeClassify's call.
LEMMA AppDecodes ==
    ASSUME Inv, AppCalls, DecodeStep
    PROVE  AppCalls'
<1>1. app' = app /\ phase # "idle"
  BY DEF DecodeStep, Prepare, Optimize, Apply, Compute, ComputeFails
<1>2. SUFFICES ASSUME app.at \in {"prompt", "step"} PROVE AppCalls'
  <2>1. app.at \in {"idle", "prompt", "generate", "step", "library"}
    BY DEF Inv, Typed, TypeOK
  <2>2. app.at \notin {"idle", "generate"}
    BY <1>1 DEF Inv, Typed, AppPlace
  <2>3. CASE app.at = "library"
    BY <1>1, <2>3 DEF AppCalls
  <2> QED
    BY <1>2, <2>1, <2>2, <2>3
<1> DEFINE base == AppBase
           end == AppEnd
           b == job.batch
           n == end - base
<1>3. /\ AppDecode /\ Inv /\ result \in {0, 2}
      /\ base \in Nat /\ end \in Nat /\ base < end /\ end <= Available
      /\ b = Row(base, n) /\ phase # "optimize"
      /\ AppBase' = base /\ AppEnd' = end /\ app'.at = app.at
  BY <1>1, <1>2 DEF AppCalls, AppDecode, AppBase, AppEnd
<1>4. /\ n \in Nat \ {0} /\ base + n = end
      /\ b \in Seq(Token) /\ Len(b) = n /\ b # <<>> /\ DOMAIN b = 1 .. n
      /\ \A k \in 1 .. n : b[k] = [owner |-> 0, pos |-> base + k - 1]
  <2>1. n \in Nat \ {0} /\ base + n = end
    BY <1>3
  <2> HIDE DEF n
  <2>2. Row(base, n) \in Seq(Token) /\ Len(Row(base, n)) = n /\ DOMAIN Row(base, n) = 1 .. n
    BY <1>3, <2>1, RowIs
  <2>3. Row(base, n) # <<>>
    BY <2>1, <2>2
  <2>4. \A k \in 1 .. n : Row(base, n)[k] = [owner |-> 0, pos |-> base + k - 1]
    BY DEF Row
  <2> QED
    BY <1>3, <2>1, <2>2, <2>3, <2>4
<1> DEFINE N == NUbatches(b)
<1>5. N \in Nat \ {0}
  BY <1>4, Split
<1> HIDE DEF base, end, n, b, N
\* What every case has to show.
<1>6. ASSUME result' \in {0, 2}, phase' # "optimize",
             phase' # "idle" => job'.batch = b,
             phase' = "prepare" => FilledTo(cache', base),
             phase' \in {"apply", "compute"} => \A k \in 1 .. N : job'.slots[k] = base + Before(k),
             phase' = "apply" => FilledTo(cache', base + Before(job'.i_cur)),
             phase' = "compute" => FilledTo(cache', base + Before(job'.i_cur)
                                                        + Len(Ubatch(b, job'.i_cur))),
             phase' = "idle" /\ result' = 0 => FilledTo(cache', end)
      PROVE  AppCalls'
  <2>1. phase' # "idle" => job'.batch = Row(AppBase', AppEnd' - AppBase')
    BY <1>3, <1>6 DEF n
  <2>2. phase' \in {"apply", "compute"} =>
            NUbatches(job'.batch) = N /\ CurrentUbatch' = Ubatch(b, job'.i_cur)
    BY <1>6 DEF N, CurrentUbatch
  <2>3. AppDecode'
    BY <1>3, <1>6, <2>1, <2>2 DEF AppDecode
  <2> QED
    BY <1>2, <1>3, <1>6, <2>3 DEF AppCalls
<1>7. CASE Prepare
  <2> DEFINE placed == Placed(cache, Ubatches(b))
             slots == [k \in DOMAIN placed.saved |-> MinOf(placed.saved[k].cells)]
  <2>1. phase = "prepare" /\ cache' = cache /\ Sound(cache) /\ FilledTo(cache, base)
    BY <1>3, <1>7, PrepareFinds DEF Prepare, Inv, AppDecode, base
  <2>2. placed.success /\ \A k \in 1 .. N : StartOf(placed.saved, k) = base + Before(k)
    <3>1. base + n <= Available
      BY <1>3, <1>4
    <3> HIDE DEF placed
    <3> QED
      BY <1>3, <1>4, <2>1, <3>1, RowPlaces DEF N, placed
  <2>3. placed.success => Len(placed.saved) = N
    BY <1>7, PrepareFinds DEF b, N
  <2>4. DOMAIN placed.saved = 1 .. N
    <3>1. Fresh(cache, b)
      BY <2>1 DEF Inv, Searching, b
    <3>2. MicroBatches(cache, Ubatches(b))
      BY <1>4, <3>1, SplitIsFresh
    <3>3. placed \in PlaceState
      BY <2>1, <3>2, PlacedInv DEF PlaceInv
    <3>4. placed.saved \in Seq([cells : SUBSET Cells, old : CacheType])
      BY <3>3 DEF PlaceState
    <3> HIDE DEF placed
    <3> QED
      BY <2>2, <2>3, <3>4
  <2>5. \/ Goto("apply") /\ job' = [job EXCEPT !.slots = slots]
        \/ Return(2)
    BY <1>7, <2>2 DEF Prepare, b
  <2>6. job \in JobType /\ job.i_cur = 1
    BY <2>1 DEF Inv, Typed, Searching
  <2>7. \A k \in 1 .. N : slots[k] = base + Before(k)
    BY <2>2, <2>4 DEF StartOf
  <2> HIDE DEF placed, slots
  <2>8. CASE Return(2)
    BY <1>6, <2>8 DEF Return
  <2>9. CASE Goto("apply") /\ job' = [job EXCEPT !.slots = slots]
    <3>1. /\ job'.batch = b /\ job'.slots = slots /\ job'.i_cur = 1
          /\ phase' = "apply" /\ result' = result
      BY <2>6, <2>9 DEF JobType, Goto, b
    <3>2. base + Before(1) = base
      BY <1>3, BeforeGrows
    <3> QED
      BY <1>3, <1>6, <2>1, <2>7, <3>1, <3>2
  <2> QED
    BY <2>5, <2>8, <2>9
<1>8. CASE Optimize
  BY <1>3, <1>8 DEF Optimize
<1> DEFINE m == job.i_cur
           ub == Ubatch(b, m)
           at == base + Before(m)
<1>9. ASSUME phase \in {"apply", "compute"}
      PROVE  /\ m \in 1 .. N /\ m \in Nat \ {0} /\ job.slots[m] = at /\ CurrentUbatch = ub
             /\ Len(job.slots) = N /\ job \in JobType
             /\ \A k \in 1 .. N : job.slots[k] = base + Before(k)
             /\ Before(m) \in Nat /\ ub \in Seq(Token) \ {<<>>} /\ Len(ub) \in Nat
             /\ at \in Nat /\ at + Len(ub) <= Available
             /\ at + Len(ub) = IF m < N THEN base + Before(m + 1) ELSE end
             /\ \A j \in DOMAIN ub : ub[j] = [owner |-> 0, pos |-> at + j - 1]
  <2>1. /\ m \in 1 .. N /\ Len(job.slots) = N /\ job \in JobType
        /\ \A k \in 1 .. N : job.slots[k] = base + Before(k)
    BY <1>3, <1>9 DEF Inv, Typed, Placing, AppDecode, N, b, base
  <2>2. /\ Before(m) \in Nat /\ ub \in Seq(Token) \ {<<>>} /\ Len(ub) \in Nat \ {0}
        /\ DOMAIN ub = 1 .. Len(ub) /\ m \in Nat \ {0}
        /\ \A j \in DOMAIN ub : j \in Nat /\ Before(m) + j \in DOMAIN b
                                /\ ub[j] = b[Before(m) + j]
    BY <1>4, <2>1, UbatchIs, SMTT(30) DEF N
  <2>3. Before(m) + Len(ub) = IF m < N THEN Before(m + 1) ELSE n
    BY <1>4, <2>1, Split DEF N
  <2>4. CurrentUbatch = ub
    BY DEF CurrentUbatch, b
  <2> HIDE DEF ub, m
  <2>5. Before(m) + Len(ub) \in 1 .. n
    <3>1. Len(ub) \in DOMAIN ub
      BY <2>2
    <3> QED
      BY <1>4, <2>2, <3>1
  <2>6. /\ at \in Nat /\ at + Len(ub) <= end
        /\ at + Len(ub) = IF m < N THEN base + Before(m + 1) ELSE end
    <3>1. at \in Nat /\ at + Len(ub) = base + (Before(m) + Len(ub))
      BY <1>3, <2>2
    <3>2. at + Len(ub) <= end
      BY <1>3, <1>4, <2>5, <3>1
    <3>3. CASE m < N
      BY <2>3, <3>1, <3>2, <3>3
    <3>4. CASE ~(m < N)
      BY <1>4, <2>3, <3>1, <3>2, <3>4
    <3> QED
      BY <3>3, <3>4
  <2>7. at + Len(ub) <= Available
    BY <1>3, <2>2, <2>6, SizesAssumption DEF Available
  <2>8. ASSUME NEW j \in DOMAIN ub PROVE ub[j] = [owner |-> 0, pos |-> at + j - 1]
    <3>1. ub[j] = [owner |-> 0, pos |-> base + (Before(m) + j) - 1]
      BY <1>4, <2>2
    <3>2. base + (Before(m) + j) - 1 = at + j - 1
      BY <1>3, <2>2
    <3> QED
      BY <3>1, <3>2
  <2> QED
    BY <2>1, <2>2, <2>4, <2>6, <2>7, <2>8 DEF m
<1> HIDE DEF at, ub
<1>10. CASE Apply
  <2>1. /\ phase = "apply" /\ phase' = "compute" /\ job' = job /\ result' = result
        /\ cache' = ApplyUbatch(cache, job.slots[m], CurrentUbatch)
    BY <1>10 DEF Apply, Goto
  <2>2. FilledTo(cache, at) /\ Sound(cache)
    BY <1>3, <2>1 DEF AppDecode, Inv, at, base
  <2>3. FilledTo(cache', at + Len(ub))
    BY <1>9, <2>1, <2>2, RowFills
  <2> QED
    BY <1>3, <1>6, <1>9, <2>1, <2>3 DEF b, at, ub
<1>11. CASE Compute
  <2>1. /\ phase = "compute" /\ cache' = cache
        /\ IF m < N
           THEN Goto("apply") /\ job' = [job EXCEPT !.i_cur = @ + 1]
           ELSE Return(0)
    BY <1>9, <1>11 DEF Compute
  <2>2. FilledTo(cache, at + Len(ub))
    BY <1>3, <1>9, <2>1 DEF AppDecode, at, ub, base, b
  <2>3. CASE m < N
    <3>1. /\ phase' = "apply" /\ result' = result /\ job'.batch = b
          /\ job'.slots = job.slots /\ job'.i_cur = m + 1
      BY <1>9, <2>1, <2>3 DEF Goto, JobType, b
    <3>2. at + Len(ub) = base + Before(m + 1)
      BY <1>9, <2>1, <2>3
    <3> QED
      BY <1>3, <1>6, <1>9, <2>1, <2>2, <3>1, <3>2
  <2>4. CASE ~(m < N)
    <3>1. phase' = "idle" /\ result' = 0
      BY <2>1, <2>4 DEF Return
    <3>2. at + Len(ub) = end
      BY <1>9, <2>1, <2>4
    <3> QED
      BY <1>6, <2>1, <2>2, <3>1, <3>2
  <2> QED
    BY <2>3, <2>4
<1>12. CASE ComputeFails
  BY <1>6, <1>12 DEF ComputeFails, Return
<1> QED
  BY <1>7, <1>8, <1>10, <1>11, <1>12 DEF DecodeStep

\* The memory is cleared, and the prompt's tokens start from the first cell.
LEMMA ClassifyCalls ==
    ASSUME Inv, NEW n \in 1 .. NCells, Classify(n)
    PROVE  AppCalls'
<1> DEFINE b == [k \in 1 .. n |-> [owner |-> 0, pos |-> k - 1]]
<1>1. /\ n \in 1 .. Available /\ cache' = EmptyCache
      /\ app' = [at |-> "prompt", i |-> 0, cur_pos |-> n] /\ Start(cache', b)
  BY DEF Classify, ClearMemory
<1>2. n \in Nat \ {0} /\ 0 + n <= Available
  BY <1>1, SizesAssumption DEF Available
<1>3. b = Row(0, n)
  BY <1>2, PromptIsRow
<1> HIDE DEF b
<1>4. FilledTo(EmptyCache, 0)
  <2>1. 0 \in 0 .. NCells /\ \A i \in Cells : ~(i < 0)
    BY SizesAssumption DEF Cells
  <2> QED
    BY <2>1 DEF FilledTo, EmptyCache
<1>5. PICK c : c = EmptyCache
  OBVIOUS
<1>6. Sound(c) /\ cache' = c /\ FilledTo(c, 0) /\ Start(c, b)
  BY <1>1, <1>4, <1>5, EmptyIsSound
<1>7. app'.at = "prompt" /\ AppBase' = 0 /\ AppEnd' = 0 + n
  BY <1>1, <1>2 DEF AppBase, AppEnd
<1> QED
  BY <1>2, <1>3, <1>6, <1>7, AppStarts

\* A token is sampled and decoded behind the others, or the answer ends.
LEMMA GenerateCalls ==
    ASSUME Inv, AppCalls, Generate
    PROVE  AppCalls'
<1>1. /\ app \in [at : {"idle", "prompt", "generate", "step", "library"},
                  i : 0 .. MaxGen, cur_pos : 0 .. NCells]
      /\ app.at = "generate" /\ cache' = cache /\ Sound(cache)
      /\ FilledTo(cache, app.cur_pos) /\ result \in {0, 2}
  BY DEF Inv, Typed, TypeOK, AppCalls, Generate
<1>2. CASE Leave /\ UNCHANGED <<phase, job, result>>
  <2>1. app'.at = "idle"
    BY <1>1, <1>2 DEF Leave
  <2> QED
    BY <1>1, <1>2, <2>1 DEF AppCalls
<1>3. CASE /\ app.i < MaxGen /\ app.cur_pos < Available
           /\ Start(cache, <<[owner |-> 0, pos |-> app.cur_pos]>>)
           /\ app' = [app EXCEPT !.at = "step"]
  <2>1. PICK p : p = app.cur_pos
    OBVIOUS
  <2>2. PICK c : c = cache
    OBVIOUS
  <2> DEFINE b == <<[owner |-> 0, pos |-> p]>>
  <2>3. Start(c, b) /\ Sound(c) /\ cache' = c /\ FilledTo(c, p)
    BY <1>1, <1>3, <2>1, <2>2
  <2>4. p \in Nat /\ p + 1 <= Available
    BY <1>1, <1>3, <2>1, SizesAssumption DEF Available
  <2>5. b = Row(p, 1)
    BY <2>4, OneIsRow
  <2>6. app'.at = "step" /\ AppBase' = p /\ AppEnd' = p + 1
    BY <1>1, <1>3, <2>1 DEF AppBase, AppEnd
  <2> HIDE DEF b
  <2>7. 1 \in Nat \ {0}
    OBVIOUS
  <2> QED
    BY <2>3, <2>4, <2>5, <2>6, <2>7, AppStarts
<1> QED
  BY <1>2, <1>3 DEF Generate

\* Every step keeps it.
LEMMA AppCallsKept == Inv /\ AppCalls /\ [Next]_vars => AppCalls'
<1> SUFFICES ASSUME Inv, AppCalls, [Next]_vars PROVE AppCalls'
  OBVIOUS
<1>1. CASE DecodeStep
  BY <1>1, AppDecodes
<1>2. CASE PromptDone
  <2>1. /\ app.at = "prompt" /\ phase = "idle" /\ cache' = cache /\ result' = result
        /\ IF result = 0 THEN app' = [app EXCEPT !.at = "generate"] ELSE Leave
        /\ AppDecode /\ result \in {0, 2}
    BY <1>2 DEF PromptDone, AppCalls
  <2>2. app \in [at : {"idle", "prompt", "generate", "step", "library"},
                 i : 0 .. MaxGen, cur_pos : 0 .. NCells]
    BY DEF Inv, Typed, TypeOK
  <2>3. CASE result = 0
    <3>1. app'.at = "generate" /\ app'.cur_pos = app.cur_pos
      BY <2>1, <2>2, <2>3
    <3>2. FilledTo(cache, app.cur_pos) /\ app.cur_pos \in 0 .. Available
      BY <2>1, <2>2, <2>3, SizesAssumption DEF AppDecode, AppEnd, Available
    <3> QED
      BY <2>1, <3>1, <3>2 DEF AppCalls
  <2>4. CASE result # 0
    <3>1. app'.at = "idle"
      BY <2>1, <2>2, <2>4 DEF Leave
    <3> QED
      BY <2>1, <3>1 DEF AppCalls
  <2> QED
    BY <2>3, <2>4
<1>3. CASE Generate
  BY <1>3, GenerateCalls
<1>4. CASE StepDone
  <2>1. /\ app.at = "step" /\ phase = "idle" /\ cache' = cache /\ result' = result
        /\ IF result = 0
           THEN app' = [at |-> "generate", i |-> app.i + 1, cur_pos |-> app.cur_pos + 1]
           ELSE Leave
        /\ AppDecode /\ result \in {0, 2}
    BY <1>4 DEF StepDone, AppCalls
  <2>2. app \in [at : {"idle", "prompt", "generate", "step", "library"},
                 i : 0 .. MaxGen, cur_pos : 0 .. NCells]
    BY DEF Inv, Typed, TypeOK
  <2>3. CASE result = 0
    <3>1. app'.at = "generate" /\ app'.cur_pos = app.cur_pos + 1
      BY <2>1, <2>3
    <3>2. FilledTo(cache, app.cur_pos + 1) /\ app.cur_pos + 1 \in 0 .. Available
      BY <2>1, <2>2, <2>3, SizesAssumption DEF AppDecode, AppEnd, Available
    <3> QED
      BY <2>1, <3>1, <3>2 DEF AppCalls
  <2>4. CASE result # 0
    <3>1. app'.at = "idle"
      BY <2>1, <2>2, <2>4 DEF Leave
    <3> QED
      BY <2>1, <3>1 DEF AppCalls
  <2> QED
    BY <2>3, <2>4
<1>5. CASE LibraryStep
  <2>1. app.at = "library" /\ app' = app
    BY <1>5 DEF LibraryStep, LibraryDecode, LibraryRm, LibraryCp, LibraryKeep,
                LibraryClear, LibraryIdle, Edits
  <2> QED
    BY <2>1 DEF AppCalls
<1>6. CASE Reset
  BY <1>6 DEF Reset, AppCalls
<1>7. ASSUME NEW n \in 1 .. NCells, Classify(n) PROVE AppCalls'
  BY <1>7, ClassifyCalls
<1>8. CASE UNCHANGED vars
  BY <1>8 DEF vars, AppCalls, AppDecode, AppBase, AppEnd, CurrentUbatch
<1> QED
  BY <1>1, <1>2, <1>3, <1>4, <1>5, <1>6, <1>7, <1>8 DEF Next, AppStep

\* nativeClassify's decodes are never refused and never out of room, whatever the
\* sizes of the cache and of the batches: the cache was cleared before the prompt,
\* each batch goes on where the last ended, and the free cells are all behind it.
THEOREM AppFits == Spec => []AppBatchesFit
<1>1. Init => AppCalls
  BY DEF Init, AppCalls
<1>2. AppCalls => AppBatchesFit
  BY DEF AppCalls, AppBatchesFit
<1> QED
  BY <1>1, <1>2, Invariance, AppCallsKept, PTL DEF Spec

(***************************************************************************)
(* What is computed from what.                                             *)
(***************************************************************************)

\* The attention looks at every cell in use.
LEMMA NKvCovers ==
    ASSUME NEW c, Sound(c)
    PROVE  NKv(c) \in 0 .. NCells /\ \A i \in Cells : ~IsEmpty(c, i) => i < NKv(c)
<1> DEFINE u == IF c.used = {} THEN 0 ELSE MaxOf(c.used) + 1
           a == u + NPad - 1
           padded == (a \div NPad) * NPad
           least == IF padded < NPad THEN NPad ELSE padded
<1>1. NCells \in Nat \ {0} /\ NPad \in Nat \ {0}
  BY SizesAssumption
<1>2. u \in 0 .. NCells /\ \A i \in c.used : i < u
  <2>1. c \in CacheType /\ c.used \in SUBSET Cells
    BY CacheFields DEF Sound
  <2>2. u \in 0 .. NCells
    BY <2>1, EndBounds DEF End
  <2>3. ASSUME NEW i \in c.used PROVE i < u
    <3> DEFINE m == NCells - 1
               S == c.used
    <3>1. m \in Nat /\ S \in SUBSET (0 .. m) /\ S # {}
      BY <1>1, <2>1, <2>3 DEF Cells
    <3> HIDE DEF m, S
    <3>2. MaxOf(S) \in S /\ \A y \in S : y <= MaxOf(S)
      BY <3>1, MaxIs
    <3>3. i <= MaxOf(S) /\ MaxOf(S) \in Nat /\ i \in Nat /\ u = MaxOf(S) + 1
      BY <2>3, <3>1, <3>2 DEF S
    <3> HIDE DEF u
    <3> QED
      BY <3>3
  <2> QED
    BY <2>2, <2>3
<1> HIDE DEF u
<1>3. padded \in Nat /\ u <= padded
  <2>1. a \in Nat
    BY <1>1, <1>2
  <2> DEFINE q == a \div NPad
             r == a % NPad
  <2>2. q \in Nat /\ r \in 0 .. NPad - 1 /\ a = (NPad * q) + r
    <3> HIDE DEF a
    <3> QED
      BY <1>1, <2>1
  <2>3. padded = q * NPad
    OBVIOUS
  <2> HIDE DEF q, r, padded
  <2> DEFINE x == NPad * q
  <2>4. q * NPad = x /\ x \in Nat
    BY <1>1, <2>2
  <2> HIDE DEF x
  <2>5. u + NPad - 1 = x + r
    BY <2>2 DEF x
  <2> QED
    BY <1>1, <1>2, <2>2, <2>3, <2>4, <2>5
<1> HIDE DEF padded
<1>4. NKv(c) = IF least < NCells THEN least ELSE NCells
  BY DEF NKv, u, padded
<1>5. least \in Nat /\ u <= least
  BY <1>1, <1>2, <1>3
<1> HIDE DEF least
<1>6. NKv(c) \in 0 .. NCells /\ u <= NKv(c)
  BY <1>1, <1>2, <1>4, <1>5
<1>7. ASSUME NEW i \in Cells, ~IsEmpty(c, i) PROVE i < NKv(c)
  <2>1. i \in c.used
    BY <1>7 DEF Sound, IsEmpty
  <2>2. i \in Int /\ u \in Int /\ NKv(c) \in Int
    BY <1>1, <1>2, <1>6 DEF Cells
  <2> QED
    BY <1>2, <1>6, <2>1, <2>2
<1> QED
  BY <1>6, <1>7

\* A cell in use after a defragmentation has what one cell had before it: its
\* position, its sequences, and what was computed there, unless that was lost.
LEMMA DefragMoves ==
    ASSUME NEW c, Sound(c), NEW plan, plan = DefragPlan(c), NEW d, d = Defragged(c, plan),
           NEW copied \in SUBSET Moving(plan), NEW i \in Cells, ~IsEmpty(d, i)
    PROVE  \E j \in Cells :
                /\ ~IsEmpty(c, j) /\ d.pos[i] = c.pos[j] /\ d.members[i] = c.members[j]
                /\ Copied(plan, copied)[i] \in {tensors[j], Lost}
<1>1. PlanOK(c, plan) /\ MovedTo(c, plan, End(c), d)
  BY DefragmentingMovesCells
<1>2. /\ End(c) \in Nat /\ Len(plan.ids) = End(c) /\ DOMAIN plan.ids = 1 .. End(c)
      /\ \A k : k \in Moving(plan) <=> k \in 1 .. End(c) /\ Moves(plan, k)
  <2>1. plan.ids \in Seq(0 .. End(c)) /\ Len(plan.ids) = End(c)
    BY <1>1 DEF PlanOK
  <2>2. End(c) \in Nat /\ DOMAIN plan.ids = 1 .. End(c)
    BY <2>1
  <2> QED
    BY <2>1, <2>2 DEF Moving, Moves
<1> DEFINE Origin == {k \in Moving(plan) : plan.ids[k] = i}
           o == CHOOSE k \in Origin : TRUE
<1>3. Copied(plan, copied)[i] =
            IF Origin # {} THEN IF o \in copied THEN tensors[o - 1] ELSE Lost
            ELSE IF i + 1 \in Moving(plan) THEN Unwritten ELSE tensors[i]
  BY DEF Copied
<1>4. CASE Origin # {}
  <2>1. o \in 1 .. End(c) /\ Moves(plan, o) /\ plan.ids[o] = i
    BY <1>2, <1>4
  <2> HIDE DEF o, Origin
  <2>2. o - 1 \in Cells /\ ~IsEmpty(c, o - 1) /\ o <= End(c)
    BY <1>1, <1>2, <2>1 DEF PlanOK
  <2>3. d.pos[i] = c.pos[o - 1] /\ d.members[i] = c.members[o - 1]
    BY <1>1, <2>1, <2>2 DEF MovedTo
  <2>4. Copied(plan, copied)[i] \in {tensors[o - 1], Lost}
    BY <1>3, <1>4
  <2> QED
    BY <2>2, <2>3, <2>4
<1>5. CASE Origin = {}
  <2>1. \A j \in 1 .. End(c) : Moves(plan, j) => i # plan.ids[j]
    BY <1>2, <1>5
  <2>2. ASSUME NEW j \in 1 .. End(c), Moves(plan, j) PROVE i # j - 1
    <3>1. j <= End(c)
      BY <1>2
    <3>2. IsEmpty(d, j - 1)
      BY <1>1, <2>2, <3>1 DEF MovedTo
    <3> QED
      BY <3>2
  <2>3. i + 1 \notin Moving(plan)
    <3>1. i \in Int
      BY SizesAssumption DEF Cells
    <3>2. i = (i + 1) - 1
      BY <3>1
    <3> QED
      BY <1>2, <2>2, <3>2
  <2>4. d.pos[i] = c.pos[i] /\ d.members[i] = c.members[i]
    BY <1>1, <2>1, <2>2 DEF MovedTo
  <2>5. Copied(plan, copied)[i] = tensors[i]
    BY <1>3, <1>5, <2>3
  <2> QED
    BY <2>4, <2>5 DEF IsEmpty
<1> QED
  BY <1>4, <1>5

\* The cells a library client's edits leave in use keep their positions.
LEMMA RmLeaves ==
    ASSUME NEW c, Sound(c), NEW s \in Seqs, NEW p0 \in Int, NEW p1 \in Int, NEW i \in Cells,
           NEW d, d = SeqRm(c, s, p0, p1)
    PROVE  /\ \A t : t \in d.members[i] <=>
                        t \in c.members[i] /\ ~(t = s /\ InRange(c, i, p0, p1))
           /\ ~IsEmpty(d, i) => ~IsEmpty(c, i) /\ d.pos[i] = c.pos[i]
<1>1. Left(c, s, RmHit(c, s, p0, p1), RmFreed(c, s, p0, p1), d)
  BY SeqRmFields
<1>2. /\ d.pos[i] = IF i \in RmFreed(c, s, p0, p1) THEN NoPos ELSE c.pos[i]
      /\ d.members[i] = IF i \in RmHit(c, s, p0, p1) THEN c.members[i] \ {s} ELSE c.members[i]
  BY <1>1 DEF Left
<1>3. i \in RmHit(c, s, p0, p1) <=> InRange(c, i, p0, p1) /\ s \in c.members[i]
  BY DEF RmHit
<1> QED
  BY <1>2, <1>3 DEF IsEmpty

\* seq_cp adds the cells of the range to a sequence and moves none.
LEMMA CpLeaves ==
    ASSUME NEW c, Sound(c), NEW src \in Seqs, NEW dst \in Seqs, NEW p0 \in Int, NEW p1 \in Int,
           NEW i \in Cells, NEW d, d = SeqCp(c, src, dst, p0, p1)
    PROVE  /\ \A t : t \in d.members[i] <=>
                        \/ t \in c.members[i]
                        \/ t = dst /\ src \in c.members[i] /\ InRange(c, i, p0, p1)
           /\ d.pos[i] = c.pos[i]
<1> DEFINE hit == {j \in Cells : InRange(c, j, p0, p1) /\ src \in c.members[j]}
           members == [j \in Cells |-> IF j \in hit THEN c.members[j] \cup {dst} ELSE c.members[j]]
           seq_pos == [sp \in Seqs \X Positions |->
                        c.seq_pos[sp] + IF sp[1] = dst THEN Held(c, hit, src, sp[2]) ELSE 0]
<1>1. CASE src = dst
  BY <1>1 DEF SeqCp
<1>2. CASE src # dst
  <2>1. d = [c EXCEPT !.members = members, !.seq_pos = seq_pos]
    BY <1>2 DEF SeqCp
  <2>2. members[i] = IF i \in hit THEN c.members[i] \cup {dst} ELSE c.members[i]
    OBVIOUS
  <2>3. i \in hit <=> InRange(c, i, p0, p1) /\ src \in c.members[i]
    OBVIOUS
  <2>4. c \in CacheType
    BY DEF Sound
  <2> HIDE DEF members, seq_pos, hit
  <2>5. d.pos = c.pos /\ d.members = members
    BY <2>1, <2>4 DEF CacheType
  <2> QED
    BY <2>2, <2>3, <2>5
<1> QED
  BY <1>1, <1>2

\* seq_keep leaves the cells of one sequence.
LEMMA KeepLeaves ==
    ASSUME NEW c, Sound(c), NEW s \in Seqs, NEW i \in Cells, NEW d, d = SeqKeep(c, s)
    PROVE  /\ \A t : t \in d.members[i] <=> t \in c.members[i] /\ t = s
           /\ ~IsEmpty(d, i) => ~IsEmpty(c, i) /\ d.pos[i] = c.pos[i]
<1> DEFINE freed == {j \in Cells : c.members[j] # {} /\ s \notin c.members[j]}
           pos == [j \in Cells |-> IF j \in freed THEN NoPos ELSE c.pos[j]]
           members == [j \in Cells |-> c.members[j] \cap {s}]
           seq_pos == [sp \in Seqs \X Positions |->
                        IF sp[1] = s THEN c.seq_pos[sp]
                        ELSE c.seq_pos[sp] - Held(c, Cells, sp[1], sp[2])]
           used == c.used \ freed
           head == HeadAfterFreeing(c, freed)
<1>1. d = [c EXCEPT !.pos = pos, !.members = members, !.used = used,
                    !.seq_pos = seq_pos, !.head = head]
  BY DEF SeqKeep
<1>2. /\ pos[i] = IF i \in freed THEN NoPos ELSE c.pos[i]
      /\ members[i] = c.members[i] \cap {s}
  OBVIOUS
<1>3. c \in CacheType
  BY DEF Sound
<1> HIDE DEF pos, members, seq_pos, used, head, freed
<1>4. d.pos = pos /\ d.members = members
  BY <1>1, <1>3 DEF CacheType
<1> QED
  BY <1>2, <1>4 DEF IsEmpty

\* The cells hold what was computed there, or it was lost; those of the
\* micro-batch under way hold its tokens.
Computed ==
    /\ \A i \in Cells \ Uncommitted : ~IsEmpty(cache, i) =>
            tensors[i] = Lost \/ tensors[i].pos = cache.pos[i]
    /\ phase = "compute" => \A i \in CurrentSlot :
            /\ cache.pos[i] = TokenIn(job.slots[job.i_cur], CurrentUbatch, i).pos
            /\ cache.members[i] = {TokenIn(job.slots[job.i_cur], CurrentUbatch, i).owner}

\* When a micro-batch fails its cells are freed, and the others keep what they have.
LEMMA FailedIsCut ==
    ASSUME Inv, Computed, phase = "compute", NEW cut, cut = RolledBack(cache, CurrentUbatch),
           NEW i \in Cells
    PROVE  /\ i \in CurrentSlot => IsEmpty(cut, i)
           /\ ~IsEmpty(cut, i) => ~IsEmpty(cache, i) /\ cut.pos[i] = cache.pos[i]
<1> DEFINE ub == CurrentUbatch
<1>1. /\ Sound(cache) /\ ub \in Seq(Token) /\ CurrentSlot \in SUBSET Cells
      /\ \A j \in CurrentSlot :
            j - job.slots[job.i_cur] + 1 \in DOMAIN ub
  BY SlotUnderWay DEF Inv
<1>2. CutTo(cache, ub, NSeqs, cut)
  BY <1>1, RolledBackCuts
<1>3. /\ \A t : t \in cut.members[i] <=>
                    t \in cache.members[i] /\ ~CutOff(ub, NSeqs, t, cache.pos[i])
      /\ cut.pos[i] = IF cut.members[i] = {} THEN NoPos ELSE cache.pos[i]
  BY <1>2 DEF CutTo
<1>4. ASSUME i \in CurrentSlot PROVE IsEmpty(cut, i)
  <2> DEFINE k == i - job.slots[job.i_cur] + 1
             t == ub[k]
             P == PositionsIn(ub, t.owner)
  <2>1. k \in DOMAIN ub /\ t \in Token /\ t.owner \in 0 .. NSeqs - 1
    BY <1>1, <1>4, TokenFields DEF Seqs
  <2>2. cache.pos[i] = t.pos /\ cache.members[i] = {t.owner}
    BY <1>4 DEF Computed, TokenIn
  <2>3. t.pos \in P /\ P \in SUBSET Nat
    <3>1. \A j \in DOMAIN ub : ub[j].pos \in Nat
      BY <1>1, TokenFields, PositionsAreNat
    <3> QED
      BY <2>1, <3>1 DEF PositionsIn
  <2> HIDE DEF k, t, P
  <2>4. MinOf(P) <= t.pos /\ MinOf(P) \in Nat /\ t.pos \in Nat
    BY <2>3, MinIs
  <2>5. CutOff(ub, NSeqs, t.owner, t.pos)
    BY <2>1, <2>3, <2>4 DEF CutOff, P
  <2>6. cut.members[i] = {}
    BY <1>3, <2>2, <2>5
  <2> QED
    BY <1>3, <2>6 DEF IsEmpty
<1>5. ~IsEmpty(cut, i) => ~IsEmpty(cache, i) /\ cut.pos[i] = cache.pos[i]
  BY <1>3 DEF IsEmpty
<1> QED
  BY <1>4, <1>5

\* Steps that only empty cells.
LEMMA EmptyingKeeps ==
    ASSUME Computed, NEW c, cache' = c, tensors' = Readable(c, tensors), phase' # "compute",
           \A i \in Cells : ~IsEmpty(c, i) =>
                i \notin Uncommitted /\ ~IsEmpty(cache, i) /\ c.pos[i] = cache.pos[i]
    PROVE  Computed'
<1>1. \A i \in Cells : ~IsEmpty(c, i) => tensors'[i] = tensors[i]
  BY DEF Readable
<1> QED
  BY <1>1 DEF Computed

\* Steps outside the computation that leave the cells alone.
LEMMA StillComputed ==
    ASSUME Computed, cache' = cache, tensors' = tensors, phase # "compute", phase' # "compute"
    PROVE  Computed'
BY DEF Computed, Uncommitted

\* The memory is cleared.
LEMMA ClearedComputed ==
    ASSUME cache' = EmptyCache, phase' # "compute"
    PROVE  Computed'
BY DEF Computed, EmptyCache, IsEmpty

\* The micro-batch that Apply places has its slot free and is in no cell.
LEMMA ApplyFinds ==
    ASSUME Inv, Apply
    PROVE  /\ CurrentUbatch \in Seq(Token)
           /\ FreeRun(cache, job.slots[job.i_cur], Len(CurrentUbatch))
           /\ Fresh(cache, CurrentUbatch)
<1>1. phase = "apply" /\ Placing
  BY DEF Apply, Inv
<1>2. job.batch \in Seq(Token) /\ job.batch # <<>> /\ job.i_cur \in 1 .. NUbatches(job.batch)
      /\ job.i_cur \in ToPlace
  BY <1>1 DEF Inv, Typed, TypeOK, Placing, ToPlace
<1>3. CurrentUbatch \in Seq(Token)
  BY <1>2, UbatchIs DEF CurrentUbatch
<1> QED
  BY <1>1, <1>2, <1>3 DEF Placing, CurrentUbatch

\* The decode's steps.
LEMMA DecodeComputed ==
    ASSUME Inv, Computed, DecodeStep
    PROVE  Computed'
<1>1. CASE Prepare
  <2>1. cache' = cache /\ tensors' = tensors /\ phase = "prepare"
    BY <1>1, PrepareFinds DEF Prepare
  <2>2. phase' # "compute"
    BY <1>1 DEF Prepare, Goto, Return
  <2> QED
    BY <2>1, <2>2, StillComputed
<1>2. CASE Optimize
  <2> DEFINE plan == DefragPlan(cache)
             d == Defragged(cache, plan)
  <2>1. /\ phase = "optimize" /\ Sound(cache)
        /\ \/ Return(1) /\ cache' = cache /\ tensors' = tensors
           \/ /\ cache' = d /\ Retry
              /\ \E copied \in SUBSET Moving(plan) : tensors' = Copied(plan, copied)
    BY <1>2 DEF Optimize, Inv
  <2>2. CASE Return(1) /\ cache' = cache /\ tensors' = tensors
    <3>1. phase' # "compute"
      BY <2>2 DEF Return
    <3> QED
      BY <2>1, <2>2, <3>1, StillComputed
  <2>3. CASE /\ cache' = d /\ Retry
             /\ \E copied \in SUBSET Moving(plan) : tensors' = Copied(plan, copied)
    <3>1. phase' = "prepare"
      BY <2>3 DEF Retry, Goto
    <3>2. PICK copied \in SUBSET Moving(plan) : tensors' = Copied(plan, copied)
      BY <2>3
    <3> SUFFICES ASSUME NEW i \in Cells, ~IsEmpty(cache', i)
                 PROVE  tensors'[i] = Lost \/ tensors'[i].pos = cache'.pos[i]
      BY <3>1 DEF Computed
    <3>3. ~IsEmpty(d, i)
      BY <2>3
    <3>4. PICK j \in Cells :
                /\ ~IsEmpty(cache, j) /\ d.pos[i] = cache.pos[j]
                /\ Copied(plan, copied)[i] \in {tensors[j], Lost}
      <4> HIDE DEF d, plan
      <4> QED
        BY <2>1, <3>3, DefragMoves DEF d, plan
    <3>5. tensors[j] = Lost \/ tensors[j].pos = cache.pos[j]
      BY <2>1, <3>4 DEF Computed, Uncommitted
    <3> QED
      BY <2>3, <3>2, <3>4, <3>5
  <2> QED
    BY <2>1, <2>2, <2>3
<1>3. CASE Apply
  <2> DEFINE start == job.slots[job.i_cur]
             ub == CurrentUbatch
             d == ApplyUbatch(cache, start, ub)
  <2>1. /\ phase = "apply" /\ phase' = "compute" /\ tensors' = tensors /\ job' = job
        /\ cache' = d /\ Sound(cache)
        /\ CurrentUbatch' = ub /\ CurrentSlot' = Slot(start, ub)
    BY <1>3 DEF Apply, Goto, Inv, CurrentUbatch, CurrentSlot
  <2>2. ub \in Seq(Token) /\ FreeRun(cache, start, Len(ub)) /\ Fresh(cache, ub)
    BY <1>3, ApplyFinds
  <2> HIDE DEF start, ub, d
  <2>3. /\ Filled(cache, start, ub, d) /\ Slot(start, ub) \in SUBSET Cells
    BY <2>1, <2>2, ApplyFills, SlotCells DEF d, FreeRun
  <2>4. \A i \in Cells \ Slot(start, ub) : d.pos[i] = cache.pos[i]
    BY <2>3 DEF Filled
  <2>5. \A i \in Slot(start, ub) : d.pos[i] = TokenIn(start, ub, i).pos
                                    /\ d.members[i] = {TokenIn(start, ub, i).owner}
    BY <2>3 DEF Filled
  <2>6. Uncommitted' = Slot(start, ub) /\ Uncommitted = {}
    BY <2>1 DEF Uncommitted
  <2>7. \A i \in Cells \ Slot(start, ub) : ~IsEmpty(d, i) =>
            tensors[i] = Lost \/ tensors[i].pos = d.pos[i]
    BY <2>4, <2>6 DEF Computed, IsEmpty
  <2>8. job'.slots[job'.i_cur] = start
    BY <2>1 DEF start
  <2> QED
    BY <2>1, <2>5, <2>6, <2>7, <2>8 DEF Computed
<1>4. CASE Compute
  <2>1. /\ phase = "compute" /\ phase' \in {"apply", "idle"} /\ cache' = cache
        /\ tensors' = [i \in Cells |->
                IF i \in CurrentSlot THEN CurrentUbatch[i - job.slots[job.i_cur] + 1]
                                     ELSE tensors[i]]
    BY <1>4 DEF Compute, Goto, Return
  <2> SUFFICES ASSUME NEW i \in Cells, ~IsEmpty(cache, i)
               PROVE  tensors'[i] = Lost \/ tensors'[i].pos = cache.pos[i]
    BY <2>1 DEF Computed
  <2>2. CASE i \in CurrentSlot
    <3>1. tensors'[i] = TokenIn(job.slots[job.i_cur], CurrentUbatch, i)
      BY <2>1, <2>2 DEF TokenIn
    <3> QED
      BY <2>1, <2>2, <3>1 DEF Computed
  <2>3. CASE i \notin CurrentSlot
    BY <2>1, <2>3 DEF Computed, Uncommitted
  <2> QED
    BY <2>2, <2>3
<1>5. CASE ComputeFails
  <2>1. PICK cut : cut = RolledBack(cache, CurrentUbatch)
    OBVIOUS
  <2>2. /\ phase = "compute" /\ phase' = "idle" /\ cache' = cut
        /\ tensors' = Readable(cut, tensors)
    BY <1>5, <2>1 DEF ComputeFails, Return
  <2>3. \A i \in Cells : ~IsEmpty(cut, i) =>
            i \notin Uncommitted /\ ~IsEmpty(cache, i) /\ cut.pos[i] = cache.pos[i]
    BY <2>1, <2>2, FailedIsCut DEF Uncommitted
  <2> QED
    BY <2>2, <2>3, EmptyingKeeps
<1> QED
  BY <1>1, <1>2, <1>3, <1>4, <1>5 DEF DecodeStep

\* The four edits, by what they leave of the cells.
Removes(c, d) ==
    \E s \in Seqs, p0 \in Positions : \E p1 \in {-1, p0 + 1} : \A i \in Cells, t \in Seqs :
        t \in d.members[i] <=> t \in c.members[i] /\ ~(t = s /\ InRange(c, i, p0, p1))
Shares(c, d) ==
    \E s, r \in Seqs, p0 \in Positions : \E p1 \in {-1, p0 + 1} : \A i \in Cells, t \in Seqs :
        t \in d.members[i] <=> \/ t \in c.members[i]
                               \/ t = r /\ s \in c.members[i] /\ InRange(c, i, p0, p1)
Retains(c, d) ==
    \E s \in Seqs : \A i \in Cells, t \in Seqs : t \in d.members[i] <=> t \in c.members[i] /\ t = s
Clears(d) == \A i \in Cells : d.members[i] = {}

\* No edit moves a cell or fills one.
LEMMA EditIs ==
    ASSUME Inv, LibraryRm \/ LibraryCp \/ LibraryKeep \/ LibraryClear
    PROVE  /\ phase = "idle"
           /\ \E c : /\ Edits(c) /\ Sound(c)
                     /\ Removes(cache, c) \/ Shares(cache, c) \/ Retains(cache, c) \/ Clears(c)
                     /\ \A i \in Cells : ~IsEmpty(c, i) =>
                            ~IsEmpty(cache, i) /\ c.pos[i] = cache.pos[i]
<1>1. Sound(cache) /\ phase = "idle"
  BY DEF Inv, LibraryRm, LibraryCp, LibraryKeep, LibraryClear, LibraryIdle
<1>2. CASE LibraryRm
  <2>1. \E s \in Seqs : \E p0 \in Occurrences(cache, s) : \E p1 \in {-1, p0 + 1} :
                Edits(SeqRm(cache, s, p0, p1))
    BY <1>2 DEF LibraryRm
  <2>2. PICK s \in Seqs : \E p0 \in Occurrences(cache, s) : \E p1 \in {-1, p0 + 1} :
                Edits(SeqRm(cache, s, p0, p1))
    BY <2>1
  <2>3. PICK p0 \in Occurrences(cache, s) : \E p1 \in {-1, p0 + 1} :
                Edits(SeqRm(cache, s, p0, p1))
    BY <2>2
  <2>4. PICK p1 \in {-1, p0 + 1} : Edits(SeqRm(cache, s, p0, p1))
    BY <2>3
  <2>5. p0 \in Positions
    BY DEF Occurrences
  <2>6. p0 \in Int /\ p1 \in Int
    <3>1. p0 \in Int
      BY <2>5, PositionsAreNat
    <3> QED
      BY <3>1
  <2>7. PICK c : c = SeqRm(cache, s, p0, p1)
    OBVIOUS
  <2>8. Sound(c)
    BY <1>1, <2>6, <2>7, SeqRmSound
  <2>9. \A i \in Cells :
            /\ \A t : t \in c.members[i] <=>
                        t \in cache.members[i] /\ ~(t = s /\ InRange(cache, i, p0, p1))
            /\ ~IsEmpty(c, i) => ~IsEmpty(cache, i) /\ c.pos[i] = cache.pos[i]
    BY <1>1, <2>6, <2>7, RmLeaves
  <2>10. Removes(cache, c)
    BY <2>5, <2>9 DEF Removes
  <2> QED
    BY <1>1, <2>4, <2>7, <2>8, <2>9, <2>10
<1>3. CASE LibraryCp
  <2>1. \E s, d \in Seqs : \E p0 \in Occurrences(cache, s) : \E p1 \in {-1, p0 + 1} :
                Occurrences(cache, d) = {} /\ Edits(SeqCp(cache, s, d, p0, p1))
    BY <1>3 DEF LibraryCp
  <2>2. PICK s \in Seqs, r \in Seqs :
            \E p0 \in Occurrences(cache, s) : \E p1 \in {-1, p0 + 1} :
                Occurrences(cache, r) = {} /\ Edits(SeqCp(cache, s, r, p0, p1))
    BY <2>1
  <2>3. PICK p0 \in Occurrences(cache, s) : \E p1 \in {-1, p0 + 1} :
                Occurrences(cache, r) = {} /\ Edits(SeqCp(cache, s, r, p0, p1))
    BY <2>2
  <2>4. PICK p1 \in {-1, p0 + 1} :
                Occurrences(cache, r) = {} /\ Edits(SeqCp(cache, s, r, p0, p1))
    BY <2>3
  <2>5. p0 \in Positions
    BY DEF Occurrences
  <2>6. p0 \in Int /\ p1 \in Int
    <3>1. p0 \in Int
      BY <2>5, PositionsAreNat
    <3> QED
      BY <3>1
  <2>7. PICK c : c = SeqCp(cache, s, r, p0, p1)
    OBVIOUS
  <2>8. Sound(c)
    BY <1>1, <2>4, <2>6, <2>7, SeqCpSound
  <2>9. \A i \in Cells :
            /\ \A t : t \in c.members[i] <=>
                        \/ t \in cache.members[i]
                        \/ t = r /\ s \in cache.members[i] /\ InRange(cache, i, p0, p1)
            /\ c.pos[i] = cache.pos[i]
    BY <1>1, <2>6, <2>7, CpLeaves
  <2>10. Shares(cache, c)
    <3>1. \A i \in Cells, t \in Seqs :
              t \in c.members[i] <=> \/ t \in cache.members[i]
                                     \/ t = r /\ s \in cache.members[i] /\ InRange(cache, i, p0, p1)
      BY <2>9
    <3>2. \E q1 \in {-1, p0 + 1} : \A i \in Cells, t \in Seqs :
              t \in c.members[i] <=> \/ t \in cache.members[i]
                                     \/ t = r /\ s \in cache.members[i] /\ InRange(cache, i, p0, q1)
      BY <3>1
    <3>3. \E q0 \in Positions : \E q1 \in {-1, q0 + 1} : \A i \in Cells, t \in Seqs :
              t \in c.members[i] <=> \/ t \in cache.members[i]
                                     \/ t = r /\ s \in cache.members[i] /\ InRange(cache, i, q0, q1)
      BY <2>5, <3>2
    <3> QED
      BY <3>3 DEF Shares
  <2>11. \A i \in Cells : ~IsEmpty(c, i) => ~IsEmpty(cache, i) /\ c.pos[i] = cache.pos[i]
    BY <2>9 DEF IsEmpty
  <2> QED
    BY <1>1, <2>4, <2>7, <2>8, <2>10, <2>11
<1>4. CASE LibraryKeep
  <2>1. PICK s \in Seqs : Edits(SeqKeep(cache, s))
    BY <1>4 DEF LibraryKeep
  <2>2. PICK c : c = SeqKeep(cache, s)
    OBVIOUS
  <2>3. Sound(c)
    BY <1>1, <2>2, SeqKeepSound
  <2>4. \A i \in Cells :
            /\ \A t : t \in c.members[i] <=> t \in cache.members[i] /\ t = s
            /\ ~IsEmpty(c, i) => ~IsEmpty(cache, i) /\ c.pos[i] = cache.pos[i]
    BY <1>1, <2>2, KeepLeaves
  <2>5. Retains(cache, c)
    BY <2>4 DEF Retains
  <2> QED
    BY <1>1, <2>1, <2>2, <2>3, <2>4, <2>5
<1>5. CASE LibraryClear
  <2>1. Edits(EmptyCache) /\ Sound(EmptyCache)
    BY <1>5, EmptyIsSound DEF LibraryClear
  <2>2. Clears(EmptyCache) /\ \A i \in Cells : IsEmpty(EmptyCache, i)
    BY DEF Clears, EmptyCache, IsEmpty
  <2> QED
    BY <1>1, <2>1, <2>2
<1> QED
  BY <1>2, <1>3, <1>4, <1>5

\* Every step keeps the cells and what was computed together.
LEMMA ComputedKept == Inv /\ Computed /\ [Next]_vars => Computed'
<1> SUFFICES ASSUME Inv, Computed, [Next]_vars PROVE Computed'
  OBVIOUS
<1>1. CASE DecodeStep
  BY <1>1, DecodeComputed
<1>2. CASE AppStep \/ LibraryDecode
  <2>1. phase = "idle" /\ cache' = cache /\ tensors' = tensors
    BY <1>2 DEF AppStep, PromptDone, Generate, StepDone, LibraryDecode, LibraryIdle, Inv, Typed,
                AppPlace
  <2>2. phase' # "compute"
    BY <1>2, <2>1 DEF AppStep, PromptDone, Generate, StepDone, LibraryDecode, Start
  <2> QED
    BY <2>1, <2>2, StillComputed
<1>3. CASE LibraryRm \/ LibraryCp \/ LibraryKeep \/ LibraryClear
  <2>1. phase = "idle"
    BY <1>3, EditIs
  <2>2. PICK c : /\ Edits(c)
                 /\ \A i \in Cells : ~IsEmpty(c, i) =>
                        ~IsEmpty(cache, i) /\ c.pos[i] = cache.pos[i]
    BY <1>3, EditIs
  <2> QED
    BY <2>1, <2>2, EmptyingKeeps DEF Edits, Uncommitted
<1>4. CASE Reset
  <2>1. cache' = EmptyCache /\ phase' = "idle"
    BY <1>4 DEF Reset, ClearMemory, Inv, Typed, AppPlace
  <2> QED
    BY <2>1, ClearedComputed
<1>5. ASSUME NEW n \in 1 .. NCells, Classify(n) PROVE Computed'
  <2>1. cache' = EmptyCache /\ phase' # "compute"
    BY <1>5 DEF Classify, ClearMemory, Start
  <2> QED
    BY <2>1, ClearedComputed
<1>6. CASE UNCHANGED vars
  BY <1>6 DEF vars, Computed, Uncommitted, CurrentSlot, CurrentUbatch
<1> QED
  BY <1>1, <1>2, <1>3, <1>4, <1>5, <1>6 DEF Next, LibraryStep

\* A token attends to the cells of its sequence up to its own position, and to no
\* others: none is left out for lying past the padded window, and each was computed
\* from a token of the position it is taken for, whatever was removed, shared,
\* moved or cut before.
THEOREM Attends == Spec => []AttendsToItsPast
<1>1. Init => Computed
  BY DEF Init, Computed, EmptyCache, IsEmpty
<1>2. Inv /\ Computed => AttendsToItsPast
  <2> SUFFICES ASSUME Inv, Computed, phase = "compute", NEW k \in DOMAIN CurrentUbatch
               PROVE  LET t == CurrentUbatch[k]
                          attended == Attended(cache, t)
                      IN  /\ attended = {i \in Cells : t.owner \in cache.members[i]
                                                        /\ cache.pos[i] \in 0 .. t.pos}
                          /\ \A i \in attended :
                                \/ i \in CurrentSlot
                                \/ tensors[i] = Lost
                                \/ tensors[i].pos = cache.pos[i]
    BY DEF AttendsToItsPast
  <2> DEFINE t == CurrentUbatch[k]
             attended == Attended(cache, t)
             past == {i \in Cells : t.owner \in cache.members[i] /\ cache.pos[i] \in 0 .. t.pos}
  <2>1. Sound(cache) /\ cache \in CacheType /\ CurrentUbatch \in Seq(Token)
    BY SlotUnderWay DEF Inv, Sound
  <2>2. t.pos \in Nat
    BY <2>1, TokenFields, PositionsAreNat
  <2>3. NKv(cache) \in 0 .. NCells /\ \A i \in Cells : ~IsEmpty(cache, i) => i < NKv(cache)
    BY <2>1, NKvCovers
  <2>4. \A i : i \in attended <=> /\ i \in 0 .. NKv(cache) - 1 /\ ~IsEmpty(cache, i)
                                  /\ t.owner \in cache.members[i] /\ cache.pos[i] <= t.pos
    BY DEF Attended
  <2>5. \A i \in Cells : /\ IsEmpty(cache, i) <=> cache.members[i] = {}
                         /\ ~IsEmpty(cache, i) => cache.pos[i] \in Nat
    <3> SUFFICES ASSUME NEW i \in Cells
                 PROVE  /\ IsEmpty(cache, i) <=> cache.members[i] = {}
                        /\ ~IsEmpty(cache, i) => cache.pos[i] \in Nat
      OBVIOUS
    <3>1. \A j \in Cells : cache.pos[j] = NoPos <=> cache.members[j] = {}
      BY <2>1 DEF Sound
    <3>2. cache.pos \in [Cells -> Positions \cup {NoPos}]
      BY <2>1, CacheFields
    <3>3. cache.pos[i] \in Positions \cup {NoPos}
      BY <3>2
    <3> QED
      BY <3>1, <3>3, PositionsAreNat DEF IsEmpty
  <2> HIDE DEF t, attended
  <2>6. \A i \in attended : i \in Cells
    BY <2>3, <2>4, SizesAssumption DEF Cells
  <2>7. attended \subseteq past
    BY <2>2, <2>4, <2>5, <2>6
  <2>8. past \subseteq attended
    <3> SUFFICES ASSUME NEW i \in Cells, t.owner \in cache.members[i], cache.pos[i] \in 0 .. t.pos
                 PROVE  i \in attended
      OBVIOUS
    <3>1. ~IsEmpty(cache, i)
      BY <2>5
    <3>2. i \in 0 .. NKv(cache) - 1
      BY <2>3, <3>1, SizesAssumption DEF Cells
    <3> QED
      BY <2>2, <2>4, <3>1, <3>2
  <2>9. \A i \in attended : i \in CurrentSlot \/ tensors[i] = Lost \/ tensors[i].pos = cache.pos[i]
    BY <2>4, <2>6 DEF Computed, Uncommitted
  <2> QED
    BY <2>7, <2>8, <2>9 DEF t, attended
<1> QED
  BY <1>1, <1>2, Invariance, ComputedKept, PTL DEF Spec

(***************************************************************************)
(* The cells implement a cache of tokens.                                  *)
(***************************************************************************)

\* The tokens not taken in yet come after what the cells have of their sequences,
\* and in order: what a failure cuts off is this micro-batch and nothing before it.
Ahead ==
    phase \in Working =>
        /\ Ordered(job.batch)
        /\ \A k \in DOMAIN job.batch, i \in Cells \ Uncommitted :
                k > Before(job.i_cur) /\ job.batch[k].owner \in cache.members[i] =>
                    cache.pos[i] < job.batch[k].pos

\* A decode that starts has all its tokens ahead of the cells.
LEMMA StartsAhead ==
    ASSUME NEW c, Sound(c), cache' = c, phase = "idle", Ahead,
           NEW b \in Seq(Token), Ordered(b), Start(c, b)
    PROVE  Ahead'
<1>1. CASE Accepts(c, b)
  <2>1. /\ phase' \in {"prepare", "aborted"} /\ job'.batch = b
    BY <1>1 DEF Start, NoJob
  <2>2. \A k \in DOMAIN b, i \in Cells : b[k].owner \in c.members[i] => c.pos[i] < b[k].pos
    BY <1>1, AcceptedIsAhead
  <2> QED
    BY <2>1, <2>2 DEF Ahead
<1>2. CASE ~Accepts(c, b)
  BY <1>2 DEF Start, Ahead, Working
<1> QED
  BY <1>1, <1>2

\* A decode's steps leave ahead what they do not take in.
LEMMA DecodeAhead ==
    ASSUME Inv, Computed, Ahead, DecodeStep
    PROVE  Ahead'
<1> SUFFICES ASSUME phase' \in Working PROVE Ahead'
  BY DEF Ahead
<1>1. phase' # "idle"
  BY DEF Working
<1>2. CASE Prepare
  <2>1. /\ cache' = cache /\ phase = "prepare" /\ phase' # "compute"
        /\ job'.batch = job.batch /\ job'.i_cur = job.i_cur
    BY <1>1, <1>2, PrepareFinds DEF Prepare, Goto, Return, Inv, Typed, JobType
  <2> QED
    BY <2>1 DEF Ahead, Uncommitted, Working, Phases
<1>3. CASE Optimize
  <2> DEFINE plan == DefragPlan(cache)
             d == Defragged(cache, plan)
  <2>1. /\ phase = "optimize" /\ phase' = "prepare" /\ cache' = d /\ Sound(cache)
        /\ job'.batch = job.batch /\ job'.i_cur = job.i_cur
    BY <1>1, <1>3 DEF Optimize, Goto, Return, Retry, Inv, Typed, JobType
  <2> SUFFICES ASSUME NEW k \in DOMAIN job.batch, NEW i \in Cells,
                      k > Before(job.i_cur), job.batch[k].owner \in d.members[i]
               PROVE  d.pos[i] < job.batch[k].pos
    BY <2>1 DEF Ahead, Working, Phases
  <2> HIDE DEF d
  <2>2. Sound(d)
    BY <2>1, <1>3, OptimizeKeeps DEF Inv
  <2>3. ~IsEmpty(d, i)
    BY <2>2 DEF Sound, IsEmpty
  <2> HIDE DEF plan
  <2>4. plan = DefragPlan(cache) /\ d = Defragged(cache, plan)
    BY DEF d, plan
  <2>5. PICK j \in Cells : d.pos[i] = cache.pos[j] /\ d.members[i] = cache.members[j]
    <3>1. PICK copied \in SUBSET Moving(plan) : tensors' = Copied(plan, copied)
      BY <1>3, <2>1, <2>4 DEF Optimize, Return
    <3> QED
      BY <2>1, <2>3, <2>4, <3>1, DefragMoves
  <2> QED
    BY <2>1, <2>5 DEF Ahead, Uncommitted, Working, Phases
<1>4. CASE Apply
  <2> DEFINE start == job.slots[job.i_cur]
             ub == CurrentUbatch
             d == ApplyUbatch(cache, start, ub)
  <2>1. /\ phase = "apply" /\ phase' = "compute" /\ job' = job
        /\ cache' = d /\ Sound(cache) /\ CurrentSlot' = Slot(start, ub)
    BY <1>4 DEF Apply, Goto, Inv, CurrentUbatch, CurrentSlot
  <2>2. ub \in Seq(Token) /\ FreeRun(cache, start, Len(ub)) /\ Fresh(cache, ub)
    BY <1>4, ApplyFinds
  <2> HIDE DEF start, ub, d
  <2>3. Filled(cache, start, ub, d)
    BY <2>1, <2>2, ApplyFills DEF d
  <2>4. \A i \in Cells \ Slot(start, ub) :
            d.pos[i] = cache.pos[i] /\ d.members[i] = cache.members[i]
    BY <2>3 DEF Filled
  <2> QED
    BY <2>1, <2>4 DEF Ahead, Uncommitted, Working, Phases
<1>5. CASE Compute
  <2> DEFINE b == job.batch
             m == job.i_cur
             u == CurrentUbatch
  <2>1. /\ phase = "compute" /\ phase' = "apply" /\ cache' = cache
        /\ job'.batch = b /\ job'.i_cur = m + 1
    BY <1>1, <1>5 DEF Compute, Goto, Return, Inv, Typed, JobType
  <2>2. /\ b \in Seq(Token) /\ b # <<>> /\ m \in 1 .. NUbatches(b)
        /\ \A i \in CurrentSlot : i - job.slots[m] + 1 \in DOMAIN u
    BY <2>1, SlotUnderWay
  <2>3. /\ m \in Nat \ {0} /\ Before(m) \in Nat /\ Before(m + 1) = Before(m) + NUbatch
        /\ Before(m) + Len(u) <= Before(m + 1) /\ Len(u) \in Nat
        /\ \A j \in DOMAIN u : /\ j \in Nat \ {0} /\ j <= Len(u)
                                /\ Before(m) + j \in DOMAIN b /\ u[j] = b[Before(m) + j]
    BY <2>2, UbatchIs DEF CurrentUbatch
  <2> SUFFICES ASSUME NEW k \in DOMAIN b, NEW i \in Cells,
                      k > Before(m + 1), b[k].owner \in cache.members[i]
               PROVE  cache.pos[i] < b[k].pos
    BY <2>1 DEF Ahead, Working, Phases
  <2>4. k \in Nat /\ NUbatch \in Nat
    BY <2>2, BatchAssumption
  <2>5. CASE i \in CurrentSlot
    <3> DEFINE j == i - job.slots[m] + 1
    <3>1. j \in DOMAIN u
      BY <2>2, <2>5
    <3>2. cache.pos[i] = u[j].pos /\ cache.members[i] = {u[j].owner}
      BY <2>1, <2>5 DEF Computed, TokenIn
    <3> HIDE DEF j, u, b, m
    <3>3. Before(m) + j \in DOMAIN b /\ Before(m) + j < k /\ u[j] = b[Before(m) + j]
      BY <2>3, <2>4, <3>1
    <3>4. Ordered(b)
      BY <2>1 DEF Ahead, Working, Phases, b
    <3> QED
      BY <3>2, <3>3, <3>4 DEF Ordered
  <2>6. CASE i \notin CurrentSlot
    <3>1. k > Before(m)
      BY <2>3, <2>4
    <3> QED
      BY <2>1, <2>6, <3>1 DEF Ahead, Uncommitted, Working, Phases
  <2> QED
    BY <2>5, <2>6
<1>6. CASE ComputeFails
  BY <1>1, <1>6 DEF ComputeFails, Return
<1> QED
  BY <1>2, <1>3, <1>4, <1>5, <1>6 DEF DecodeStep

\* A decode starts with a batch whose tokens are in order: the app's go on one by
\* one, and a library client's do so within each sequence.
LEMMA StartsAre ==
    ASSUME Inv, (\E n \in 1 .. NCells : Classify(n)) \/ Generate \/ LibraryDecode
    PROVE  /\ phase = "idle"
           /\ \/ UNCHANGED <<cache, tensors>>
              \/ cache' = EmptyCache /\ tensors' = [i \in Cells |-> Unwritten]
           /\ \/ UNCHANGED <<cache, phase, job>>
              \/ \E c : /\ cache' = c /\ Sound(c)
                        /\ \E b \in Seq(Token) : Ordered(b) /\ Start(c, b)
<1>1. ASSUME NEW n \in 1 .. NCells, Classify(n)
      PROVE  /\ phase = "idle" /\ cache' = EmptyCache /\ tensors' = [i \in Cells |-> Unwritten]
             /\ \E c : /\ cache' = c /\ Sound(c)
                       /\ \E b \in Seq(Token) : Ordered(b) /\ Start(c, b)
  <2> DEFINE b == [k \in 1 .. n |-> [owner |-> 0, pos |-> k - 1]]
  <2>1. /\ phase = "idle" /\ n \in 1 .. Available
        /\ cache' = EmptyCache /\ tensors' = [i \in Cells |-> Unwritten]
    BY <1>1 DEF Classify, ClearMemory
  <2>2. Start(cache', b)
    BY <1>1 DEF Classify
  <2>3. 0 + n <= Available /\ n \in Nat
    BY <2>1, SizesAssumption DEF Available
  <2>4. b = Row(0, n)
    BY <2>3, PromptIsRow
  <2> HIDE DEF b
  <2>5. b \in Seq(Token) /\ Ordered(b)
    BY <2>3, <2>4, RowIs
  <2>6. PICK c : c = cache'
    OBVIOUS
  <2>7. Start(c, b) /\ Sound(c) /\ cache' = c
    BY <2>1, <2>2, <2>6, EmptyIsSound
  <2> QED
    BY <2>1, <2>5, <2>7
<1>2. PICK c : c = cache
  OBVIOUS
<1>3. Sound(c)
  BY <1>2 DEF Inv
<1>4. CASE Generate
  <2>1. /\ app \in [at : {"idle", "prompt", "generate", "step", "library"},
                    i : 0 .. MaxGen, cur_pos : 0 .. NCells]
        /\ phase = "idle" /\ cache' = cache /\ tensors' = tensors
    BY <1>4 DEF Inv, Typed, TypeOK, AppPlace, Generate
  <2>2. CASE UNCHANGED <<phase, job>>
    BY <2>1, <2>2
  <2>3. CASE app.cur_pos < Available /\ Start(cache, <<[owner |-> 0, pos |-> app.cur_pos]>>)
    <3>1. PICK p : p = app.cur_pos
      OBVIOUS
    <3> DEFINE b == <<[owner |-> 0, pos |-> p]>>
    <3>2. Start(c, b) /\ cache' = c
      BY <1>2, <2>1, <2>3, <3>1
    <3>3. p \in Nat /\ p + 1 <= Available
      BY <2>1, <2>3, <3>1, SizesAssumption DEF Available
    <3>4. b = Row(p, 1)
      BY <3>3, OneIsRow
    <3> HIDE DEF b
    <3>5. b \in Seq(Token) /\ Ordered(b)
      BY <3>3, <3>4, RowIs
    <3> QED
      BY <1>3, <2>1, <3>2, <3>5
  <2> QED
    BY <1>4, <2>2, <2>3 DEF Generate
<1>5. CASE LibraryDecode
  <2>1. /\ phase = "idle" /\ cache' = cache /\ tensors' = tensors
        /\ \E b \in Seq(Token) : Ordered(b) /\ Start(cache, b)
    BY <1>5, LibraryStarts
  <2> QED
    BY <1>2, <1>3, <2>1
<1> QED
  BY <1>1, <1>4, <1>5

\* Every step leaves ahead what is not taken in.
LEMMA AheadKept == Inv /\ Computed /\ Ahead /\ [Next]_vars => Ahead'
<1> SUFFICES ASSUME Inv, Computed, Ahead, [Next]_vars PROVE Ahead'
  OBVIOUS
<1>1. CASE DecodeStep
  BY <1>1, DecodeAhead
<1>2. CASE (\E n \in 1 .. NCells : Classify(n)) \/ Generate \/ LibraryDecode
  <2>1. phase = "idle"
    BY <1>2, StartsAre
  <2>2. CASE UNCHANGED <<cache, phase, job>>
    BY <2>1, <2>2 DEF Ahead, Working
  <2>3. CASE \E c : /\ cache' = c /\ Sound(c)
                    /\ \E b \in Seq(Token) : Ordered(b) /\ Start(c, b)
    BY <2>1, <2>3, StartsAhead
  <2> QED
    BY <1>2, <2>2, <2>3, StartsAre
<1>3. CASE LibraryRm \/ LibraryCp \/ LibraryKeep \/ LibraryClear
  BY <1>3, EditIs DEF Edits, Ahead, Working
<1>4. CASE Reset
  BY <1>4 DEF Reset, Inv, Typed, AppPlace, Ahead, Working
<1>5. CASE PromptDone \/ StepDone
  BY <1>5 DEF PromptDone, StepDone, Ahead, Working
<1>6. CASE UNCHANGED vars
  BY <1>6 DEF vars, Ahead, Uncommitted, CurrentSlot, CurrentUbatch
<1> QED
  BY <1>1, <1>2, <1>3, <1>4, <1>5, <1>6 DEF Next, AppStep, LibraryStep

\* What the cells I hold of a sequence, with what was computed for it.
Kept(c, t, I, s) == {<<c.pos[i], t[i]>> : i \in {j \in I : s \in c.members[j]}}
KeptPositions(c, t, I, s) == {e[1] : e \in Kept(c, t, I, s)}
Contents == [s \in Seqs |-> Kept(cache, tensors, Cells \ Uncommitted, s)]
PositionsKept(s) == {e[1] : e \in Contents[s]}
Pending ==
    IF phase \in {"idle", "aborted"} THEN <<>>
    ELSE SubSeq(job.batch, Before(job.i_cur) + 1, Len(job.batch))

\* Entry by entry, and position by position.
LEMMA KeptIs ==
    ASSUME NEW c, NEW t, NEW I, NEW s
    PROVE  /\ \A e : e \in Kept(c, t, I, s) <=>
                        \E i \in I : s \in c.members[i] /\ e = <<c.pos[i], t[i]>>
           /\ \A p : p \in KeptPositions(c, t, I, s) <=>
                        \E i \in I : s \in c.members[i] /\ p = c.pos[i]
<1> DEFINE K == Kept(c, t, I, s)
           P == KeptPositions(c, t, I, s)
<1>1. \A e : e \in K <=> \E i \in I : s \in c.members[i] /\ e = <<c.pos[i], t[i]>>
  BY DEF Kept
<1>2. P = {e[1] : e \in K}
  BY DEF KeptPositions
<1> HIDE DEF K, P
<1>3. \A i \in I : <<c.pos[i], t[i]>>[1] = c.pos[i]
  OBVIOUS
<1>4. ASSUME NEW i \in I, s \in c.members[i] PROVE c.pos[i] \in P
  <2>1. <<c.pos[i], t[i]>> \in K
    BY <1>1, <1>4
  <2> QED
    BY <1>2, <1>3, <2>1
<1>5. ASSUME NEW p \in P PROVE \E i \in I : s \in c.members[i] /\ p = c.pos[i]
  <2>1. PICK e \in K : p = e[1]
    BY <1>2
  <2> QED
    BY <1>1, <1>3, <2>1
<1> QED
  BY <1>1, <1>4, <1>5 DEF K, P

\* Two states in which the same cells of a sequence have the same.
LEMMA KeptAlike ==
    ASSUME NEW c, NEW t, NEW I, NEW d, NEW u, NEW J, NEW s,
           \A i : i \in I /\ s \in c.members[i] <=> i \in J /\ s \in d.members[i],
           \A i \in I : s \in c.members[i] => d.pos[i] = c.pos[i] /\ u[i] = t[i]
    PROVE  Kept(d, u, J, s) = Kept(c, t, I, s)
<1>1. \A e : e \in Kept(d, u, J, s) <=> e \in Kept(c, t, I, s)
  BY KeptIs
<1> QED
  BY <1>1

\* The steps of the cache of tokens, said of the cells.
LEMMA Maps ==
    /\ Init => Abstract!Init
    /\ UNCHANGED <<Contents, Pending>> => UNCHANGED Abstract!vars
    /\ Pending # <<>> /\ Pending' = <<>> /\ UNCHANGED Contents => Abstract!GiveUp
<1>1. Init => Abstract!Init
  BY DEF Init, Abstract!Init, EmptyCache, Uncommitted
<1>2. UNCHANGED <<Contents, Pending>> => UNCHANGED Abstract!vars
  BY DEF Contents, Kept, Pending, Before, Abstract!vars
<1>3. Pending # <<>> /\ Pending' = <<>> /\ UNCHANGED Contents => Abstract!GiveUp
  BY DEF Contents, Kept, Pending, Before, Abstract!GiveUp
<1> QED
  BY <1>1, <1>2, <1>3

\* A decode starts: its tokens continue what the cells hold, or the client's
\* memory was cleared in the same call.
LEMMA MapsSubmit ==
    ASSUME Pending = <<>>, Pending' \in Seq(Token) \ {<<>>},
           \/ /\ Abstract!Continues(Pending', [s \in Seqs |-> PositionsKept(s)])
              /\ UNCHANGED Contents
           \/ /\ Abstract!Continues(Pending', [s \in Seqs |-> {}])
              /\ Contents' = [s \in Seqs |-> {}]
    PROVE  Abstract!Submit
BY DEF Contents, Kept, Pending, PositionsKept, Before, Abstract!Submit, Abstract!PositionsOf

\* A micro-batch of n tokens is taken in.
LEMMA MapsTakeIn ==
    ASSUME NEW n \in DOMAIN Pending, Pending' = SubSeq(Pending, n + 1, Len(Pending)),
           Contents' = [s \in Seqs |-> Contents[s] \cup
                {<<Pending[k].pos, Pending[k]>> :
                    k \in {j \in 1 .. n : Pending[j].owner = s}}]
    PROVE  Abstract!TakeIn
BY DEF Contents, Kept, Pending, Before, Abstract!TakeIn

\* Room is made.
LEMMA MapsLose ==
    ASSUME Pending # <<>>, UNCHANGED Pending,
           \A s \in Seqs : /\ {e[1] : e \in Contents'[s]} = PositionsKept(s)
                           /\ \A e \in Contents'[s] : e \in Contents[s] \/ e[2] = Lost
    PROVE  Abstract!Lose
BY DEF Contents, Kept, Pending, PositionsKept, Before, Abstract!Lose, Abstract!PositionsOf

\* Sequences are edited between decodes.
LEMMA MapsEdit ==
    ASSUME Pending = <<>>, UNCHANGED Pending,
           \/ Contents' = [s \in Seqs |-> {}]
           \/ \E s \in Seqs : Contents' = Abstract!Keep(Contents, s)
           \/ \E s \in Seqs, p0 \in Positions, p1 \in {-1} \cup Positions :
                \/ Contents' = Abstract!Remove(Contents, s, p0, p1)
                \/ \E d \in Seqs : Contents' = Abstract!Share(Contents, s, d, p0, p1)
    PROVE  Abstract!Edit
BY DEF Contents, Kept, Pending, Before, Abstract!Edit

\* Positions that are as many as their ends are apart have no gap.
LEMMA NoGap ==
    ASSUME NEW n \in Nat, NEW S \in SUBSET (0 .. n), S # {},
           MaxOf(S) - MinOf(S) + 1 <= Cardinality(S)
    PROVE  \A p, q \in S : \A r \in p .. q : r \in S
<1> DEFINE a == MinOf(S)
           z == MaxOf(S)
           T == a .. z
<1>1. a \in S /\ z \in S /\ \A x \in S : a <= x /\ x <= z
  <2>1. S \in SUBSET Nat
    OBVIOUS
  <2> QED
    BY <2>1, MinIs, MaxIs
<1>2. z - a + 1 <= Cardinality(S)
  OBVIOUS
<1> HIDE DEF a, z
<1>3. a \in Int /\ z \in Int /\ a <= z
  BY <1>1
<1>4. IsFiniteSet(T) /\ Cardinality(T) = z - a + 1
  BY <1>3, FS_Interval
<1>5. S \subseteq T
  BY <1>1
<1> HIDE DEF T
<1>6. IsFiniteSet(S) /\ Cardinality(S) <= Cardinality(T) /\ (Cardinality(S) = Cardinality(T) => S = T)
  BY <1>4, <1>5, FS_Subset
<1>7. Cardinality(S) \in Nat /\ Cardinality(T) \in Nat
  BY <1>4, <1>6, FS_CardinalityType
<1>8. S = T
  BY <1>2, <1>4, <1>6, <1>7
<1>9. \A p, q \in T : \A r \in p .. q : r \in T
  BY <1>3 DEF T
<1> QED
  BY <1>8, <1>9

\* What llama_batch_allocr::init accepts continues its sequences without a gap.
LEMMA AcceptedContinues ==
    ASSUME NEW c, NEW b \in Seq(Token), Accepts(c, b),
           NEW from, \A s \in Seqs : from[s] = Occurrences(c, s)
    PROVE  Abstract!Continues(b, from)
<1> SUFFICES ASSUME NEW s \in Seqs
             PROVE  LET new == PositionsIn(b, s)
                    IN  /\ \A p, q \in new : \A r \in p .. q : r \in new
                        /\ from[s] # {} /\ new # {} =>
                             \E p \in from[s] : p + 1 \in new /\ \A q \in from[s] : q <= p
  BY DEF Abstract!Continues, PositionsIn
<1> DEFINE new == PositionsIn(b, s)
<1>1. CASE new = {}
  BY <1>1
<1>2. CASE new # {}
  <2> DEFINE m == NCells - 1
  <2>1. s \in {b[k].owner : k \in DOMAIN b}
    BY <1>2 DEF PositionsIn
  <2>2. /\ SeqPosMax(c, s) >= 0 => MinOf(new) = SeqPosMax(c, s) + 1
        /\ MaxOf(new) - MinOf(new) + 1 <= Cardinality(new)
    BY <2>1 DEF Accepts
  <2>3. new \subseteq Positions
    <3>1. \A j \in DOMAIN b : b[j].pos \in Positions
      BY TokenFields
    <3> QED
      BY <3>1 DEF PositionsIn
  <2>4. m \in Nat /\ Positions \subseteq 0 .. m /\ 0 .. m \subseteq Nat
    BY SizesAssumption DEF Positions
  <2> HIDE DEF new, m
  <2>5. \A p, q \in new : \A r \in p .. q : r \in new
    BY <1>2, <2>2, <2>3, <2>4, NoGap
  <2>6. MinOf(new) \in new
    BY <1>2, <2>3, <2>4, MinIs
  <2>7. ASSUME from[s] # {}
        PROVE  \E p \in from[s] : p + 1 \in new /\ \A q \in from[s] : q <= p
    <3>1. Occurrences(c, s) # {}
      BY <2>7
    <3>2. SeqPosMax(c, s) \in Occurrences(c, s)
          /\ \A q \in Occurrences(c, s) : q <= SeqPosMax(c, s)
      BY <3>1, LastPosition
    <3>3. SeqPosMax(c, s) \in Nat
      BY <3>2, PositionsAreNat DEF Occurrences
    <3>4. SeqPosMax(c, s) + 1 \in new
      BY <2>2, <2>6, <3>3
    <3> QED
      BY <3>2, <3>4
  <2> QED
    BY <2>5, <2>7 DEF new
<1> QED
  BY <1>1, <1>2

\* The positions of a sequence are those counted for it.
LEMMA KeptOccurs ==
    ASSUME NEW c, Sound(c), NEW t, NEW s \in Seqs
    PROVE  KeptPositions(c, t, Cells, s) = Occurrences(c, s)
<1>1. \A p : p \in KeptPositions(c, t, Cells, s) <=>
                \E i \in Cells : s \in c.members[i] /\ p = c.pos[i]
  BY KeptIs
<1>2. Occurrences(c, s) = {p \in Positions : \E i \in Cells : Holds(c, i, s, p)}
  BY NoOccurrences
<1>3. \A i \in Cells : s \in c.members[i] => c.pos[i] \in Positions
  <2>1. c \in CacheType /\ \A j \in Cells : c.pos[j] = NoPos <=> c.members[j] = {}
    BY DEF Sound
  <2>2. c.pos \in [Cells -> Positions \cup {NoPos}]
    BY <2>1, CacheFields
  <2> QED
    BY <2>1, <2>2
<1>4. KeptPositions(c, t, Cells, s) \subseteq Occurrences(c, s)
  BY <1>1, <1>2, <1>3 DEF Holds
<1>5. Occurrences(c, s) \subseteq KeptPositions(c, t, Cells, s)
  BY <1>1, <1>2 DEF Holds
<1> QED
  BY <1>4, <1>5

\* Between computations a sequence holds the positions its cells have.
LEMMA IdleHolds ==
    ASSUME Inv, phase # "compute", NEW s \in Seqs
    PROVE  PositionsKept(s) = Occurrences(cache, s)
<1>1. Contents[s] = Kept(cache, tensors, Cells, s)
  BY DEF Contents, Uncommitted
<1>2. PositionsKept(s) = KeptPositions(cache, tensors, Cells, s)
  BY <1>1 DEF PositionsKept, KeptPositions
<1>3. Sound(cache)
  BY DEF Inv
<1> QED
  BY <1>2, <1>3, KeptOccurs

\* Nothing is under way, and then a whole batch is: it was accepted.
LEMMA SubmitsAll ==
    ASSUME phase = "idle", Pending' # <<>>, NEW c, c = cache',
           \/ UNCHANGED <<cache, phase, job>>
           \/ \E d : /\ cache' = d /\ Sound(d)
                     /\ \E b \in Seq(Token) : Ordered(b) /\ Start(d, b)
    PROVE  \E b \in Seq(Token) : Accepts(c, b) /\ Pending' = b /\ b # <<>>
<1>1. phase' \notin {"idle", "aborted"}
  BY DEF Pending
<1>2. PICK b \in Seq(Token) : Start(c, b)
  BY <1>1
<1>3. Accepts(c, b)
  BY <1>1, <1>2 DEF Start
<1>4. job'.batch = b /\ job'.i_cur = 1
  BY <1>2, <1>3 DEF Start, NoJob
<1>5. Pending' = SubSeq(b, Before(1) + 1, Len(b))
  BY <1>1, <1>4 DEF Pending, Before
<1>6. SubSeq(b, 1, Len(b)) = b /\ 0 + 1 = 1
  OBVIOUS
<1>7. Pending' = b
  <2>1. Before(1) = 0
    BY BeforeGrows
  <2> QED
    BY <1>5, <1>6, <2>1
<1> QED
  BY <1>3, <1>7 DEF Accepts

\* A decode that starts, whoever starts it, is submitted to the cache of tokens;
\* one that is refused is not, and leaves what the sequences hold.
LEMMA StartsRefine ==
    ASSUME Inv, (\E n \in 1 .. NCells : Classify(n)) \/ Generate \/ LibraryDecode
    PROVE  Abstract!Next \/ UNCHANGED Abstract!vars
<1>1. /\ phase = "idle" /\ Pending = <<>>
      /\ \/ UNCHANGED <<cache, tensors>>
         \/ cache' = EmptyCache
      /\ \/ UNCHANGED <<cache, phase, job>>
         \/ \E c : /\ cache' = c /\ Sound(c)
                   /\ \E b \in Seq(Token) : Ordered(b) /\ Start(c, b)
  BY StartsAre DEF Pending
<1>2. PICK c : c = cache'
  OBVIOUS
<1>3. phase' # "compute"
  BY <1>1 DEF Start
<1>4. CASE UNCHANGED <<cache, tensors>>
  <2>1. UNCHANGED Contents
    BY <1>1, <1>3, <1>4 DEF Contents, Uncommitted
  <2>2. \A s \in Seqs : PositionsKept(s) = Occurrences(c, s)
    BY <1>1, <1>2, <1>4, IdleHolds
  <2>3. CASE Pending' = <<>>
    BY <1>1, <2>1, <2>3, Maps
  <2>4. CASE Pending' # <<>>
    <3>1. PICK b \in Seq(Token) : Accepts(c, b) /\ Pending' = b /\ b # <<>>
      BY <1>1, <1>2, <2>4, SubmitsAll DEF Pending
    <3>2. Abstract!Continues(b, [s \in Seqs |-> PositionsKept(s)])
      BY <2>2, <3>1, AcceptedContinues
    <3>3. Abstract!Submit
      BY <1>1, <2>1, <3>1, <3>2, MapsSubmit
    <3> QED
      BY <3>3 DEF Abstract!Next
  <2> QED
    BY <2>3, <2>4
<1>5. CASE cache' = EmptyCache
  <2>1. Contents' = [s \in Seqs |-> {}]
    BY <1>5 DEF Contents, Kept, EmptyCache
  <2>2. \A s \in Seqs : Occurrences(c, s) = {}
    <3>1. Sound(c) /\ \A i \in Cells : c.members[i] = {}
      BY <1>2, <1>5, EmptyIsSound DEF EmptyCache
    <3> QED
      BY <3>1, NoOccurrences DEF Holds
  <2>3. CASE Pending' = <<>>
    <3>1. Abstract!Edit
      BY <1>1, <2>1, <2>3, MapsEdit
    <3> QED
      BY <3>1 DEF Abstract!Next
  <2>4. CASE Pending' # <<>>
    <3>1. PICK b \in Seq(Token) : Accepts(c, b) /\ Pending' = b /\ b # <<>>
      BY <1>1, <1>2, <2>4, SubmitsAll
    <3>2. Abstract!Continues(b, [s \in Seqs |-> {}])
      <4>1. PICK from : from = [s \in Seqs |-> {}]
        OBVIOUS
      <4>2. \A s \in Seqs : from[s] = Occurrences(c, s)
        BY <2>2, <4>1
      <4> QED
        BY <3>1, <4>1, <4>2, AcceptedContinues
    <3>3. Abstract!Submit
      BY <1>1, <2>1, <3>1, <3>2, MapsSubmit
    <3> QED
      BY <3>3 DEF Abstract!Next
  <2> QED
    BY <2>3, <2>4
<1> QED
  BY <1>1, <1>4, <1>5

\* The end of a range lies among the positions, or past the last of them.
LEMMA RangeEnd ==
    ASSUME NEW c, NEW p0 \in Positions, NEW p1 \in {-1, p0 + 1}
    PROVE  \E q1 \in {-1} \cup Positions : \A i \in Cells : c.pos[i] \in Positions =>
                (InRange(c, i, p0, p1) <=> Abstract!In(c.pos[i], p0, q1))
<1>1. CASE p1 \in {-1} \cup Positions
  BY <1>1 DEF InRange, Abstract!In
<1>2. CASE p1 \notin {-1} \cup Positions
  <2>1. p0 \in 0 .. NCells - 2 /\ NCells \in Nat
    BY SizesAssumption DEF Positions
  <2>2. p1 = p0 + 1 /\ p1 \notin 0 .. NCells - 2
    BY <1>2 DEF Positions
  <2>3. p1 = NCells - 1
    BY <2>1, <2>2
  <2>4. \A i \in Cells : c.pos[i] \in Positions =>
            (InRange(c, i, p0, p1) <=> Abstract!In(c.pos[i], p0, -1))
    <3> SUFFICES ASSUME NEW i \in Cells, c.pos[i] \in Positions
                 PROVE  InRange(c, i, p0, p1) <=> Abstract!In(c.pos[i], p0, -1)
      OBVIOUS
    <3>1. c.pos[i] \in 0 .. NCells - 2
      BY DEF Positions
    <3>2. c.pos[i] < p1
      BY <2>1, <2>3, <3>1
    <3> QED
      BY <3>2 DEF InRange, Abstract!In
  <2> QED
    BY <2>4
<1> QED
  BY <1>1, <1>2

\* seq_rm, seq_cp, seq_keep and clear, and nativeReset, edit the sequences.
LEMMA EditsRefine ==
    ASSUME Inv, LibraryRm \/ LibraryCp \/ LibraryKeep \/ LibraryClear
    PROVE  Abstract!Edit
<1>1. phase = "idle"
  BY EditIs
<1>2. PICK c : /\ Edits(c) /\ Sound(c)
               /\ Removes(cache, c) \/ Shares(cache, c) \/ Retains(cache, c) \/ Clears(c)
               /\ \A i \in Cells : ~IsEmpty(c, i) => ~IsEmpty(cache, i) /\ c.pos[i] = cache.pos[i]
  BY EditIs
<1>3. /\ cache' = c /\ tensors' = Readable(c, tensors)
      /\ Pending = <<>> /\ UNCHANGED Pending
  BY <1>1, <1>2 DEF Edits, Pending
<1> DEFINE entry(i) == <<cache.pos[i], tensors[i]>>
<1>4. ASSUME NEW t \in Seqs
      PROVE  /\ \A e : e \in Contents[t] <=> \E i \in Cells : t \in cache.members[i] /\ e = entry(i)
             /\ \A e : e \in Contents'[t] <=> \E i \in Cells : t \in c.members[i] /\ e = entry(i)
  <2> DEFINE u == Readable(c, tensors)
  <2>1. Contents[t] = Kept(cache, tensors, Cells, t)
    BY <1>1 DEF Contents, Uncommitted
  <2>2. Contents'[t] = Kept(c, u, Cells, t)
    BY <1>1, <1>2, <1>3 DEF Contents, Uncommitted, Edits
  <2>3. \A i \in Cells : t \in c.members[i] => c.pos[i] = cache.pos[i] /\ u[i] = tensors[i]
    BY <1>2 DEF Readable, Sound, IsEmpty
  <2> HIDE DEF u
  <2> QED
    BY <2>1, <2>2, <2>3, KeptIs
<1>5. \A t \in Seqs : \A i \in Cells : t \in cache.members[i] => cache.pos[i] \in Positions
  <2>1. Sound(cache) /\ cache \in CacheType
    BY DEF Inv, Sound
  <2>2. cache.pos \in [Cells -> Positions \cup {NoPos}]
    BY <2>1, CacheFields
  <2>3. \A j \in Cells : cache.pos[j] = NoPos <=> cache.members[j] = {}
    BY <2>1 DEF Sound
  <2> QED
    BY <2>2, <2>3
<1>6. \A i \in Cells : entry(i)[1] = cache.pos[i]
  OBVIOUS
<1>7. Contents = [t \in Seqs |-> Contents[t]] /\ Contents' = [t \in Seqs |-> Contents'[t]]
  BY DEF Contents
<1> HIDE DEF entry
<1>8. CASE Removes(cache, c)
  <2>1. PICK s \in Seqs, p0 \in Positions : \E p1 \in {-1, p0 + 1} : \A i \in Cells, t \in Seqs :
            t \in c.members[i] <=> t \in cache.members[i] /\ ~(t = s /\ InRange(cache, i, p0, p1))
    BY <1>8 DEF Removes
  <2>2. PICK p1 \in {-1, p0 + 1} : \A i \in Cells, t \in Seqs :
            t \in c.members[i] <=> t \in cache.members[i] /\ ~(t = s /\ InRange(cache, i, p0, p1))
    BY <2>1
  <2>3. PICK q1 \in {-1} \cup Positions : \A i \in Cells : cache.pos[i] \in Positions =>
            (InRange(cache, i, p0, p1) <=> Abstract!In(cache.pos[i], p0, q1))
    BY RangeEnd
  <2>4. ASSUME NEW t \in Seqs
        PROVE  Contents'[t] = IF t = s THEN {e \in Contents[t] : ~Abstract!In(e[1], p0, q1)}
                              ELSE Contents[t]
    <3>1. CASE t = s
      <4>1. \A i \in Cells : s \in c.members[i] <=>
                s \in cache.members[i] /\ ~Abstract!In(entry(i)[1], p0, q1)
        BY <1>5, <1>6, <2>2, <2>3
      <4>2. \A e : e \in Contents'[s] <=> e \in Contents[s] /\ ~Abstract!In(e[1], p0, q1)
        BY <1>4, <4>1
      <4> QED
        BY <3>1, <4>2
    <3>2. CASE t # s
      <4>1. \A e : e \in Contents'[t] <=> e \in Contents[t]
        BY <1>4, <2>2, <3>2
      <4> QED
        BY <3>2, <4>1
    <3> QED
      BY <3>1, <3>2
  <2>5. Contents' = Abstract!Remove(Contents, s, p0, q1)
    BY <1>7, <2>4 DEF Abstract!Remove
  <2> QED
    BY <1>3, <2>5, MapsEdit
<1>9. CASE Shares(cache, c)
  <2>1. PICK s \in Seqs, r \in Seqs, p0 \in Positions :
            \E p1 \in {-1, p0 + 1} : \A i \in Cells, t \in Seqs :
                t \in c.members[i] <=> \/ t \in cache.members[i]
                                       \/ t = r /\ s \in cache.members[i] /\ InRange(cache, i, p0, p1)
    BY <1>9 DEF Shares
  <2>2. PICK p1 \in {-1, p0 + 1} : \A i \in Cells, t \in Seqs :
            t \in c.members[i] <=> \/ t \in cache.members[i]
                                   \/ t = r /\ s \in cache.members[i] /\ InRange(cache, i, p0, p1)
    BY <2>1
  <2>3. PICK q1 \in {-1} \cup Positions : \A i \in Cells : cache.pos[i] \in Positions =>
            (InRange(cache, i, p0, p1) <=> Abstract!In(cache.pos[i], p0, q1))
    BY RangeEnd
  <2>4. ASSUME NEW t \in Seqs
        PROVE  Contents'[t] = IF t = r
                              THEN Contents[t] \cup {e \in Contents[s] : Abstract!In(e[1], p0, q1)}
                              ELSE Contents[t]
    <3>1. CASE t = r
      <4>1. \A i \in Cells : r \in c.members[i] <=>
                \/ r \in cache.members[i]
                \/ s \in cache.members[i] /\ Abstract!In(entry(i)[1], p0, q1)
        BY <1>5, <1>6, <2>2, <2>3
      <4>2. \A e : e \in Contents'[r] <=>
                \/ e \in Contents[r]
                \/ e \in Contents[s] /\ Abstract!In(e[1], p0, q1)
        BY <1>4, <4>1
      <4> QED
        BY <3>1, <4>2
    <3>2. CASE t # r
      <4>1. \A e : e \in Contents'[t] <=> e \in Contents[t]
        BY <1>4, <2>2, <3>2
      <4> QED
        BY <3>2, <4>1
    <3> QED
      BY <3>1, <3>2
  <2>5. Contents' = Abstract!Share(Contents, s, r, p0, q1)
    BY <1>7, <2>4 DEF Abstract!Share
  <2> QED
    BY <1>3, <2>5, MapsEdit
<1>10. CASE Retains(cache, c)
  <2>1. PICK s \in Seqs : \A i \in Cells, t \in Seqs :
            t \in c.members[i] <=> t \in cache.members[i] /\ t = s
    BY <1>10 DEF Retains
  <2>2. ASSUME NEW t \in Seqs
        PROVE  Contents'[t] = IF t = s THEN Contents[t] ELSE {}
    <3>1. \A e : e \in Contents'[t] <=> e \in Contents[t] /\ t = s
      BY <1>4, <2>1
    <3> QED
      BY <3>1
  <2>3. Contents' = Abstract!Keep(Contents, s)
    BY <1>7, <2>2 DEF Abstract!Keep
  <2> QED
    BY <1>3, <2>3, MapsEdit
<1>11. CASE Clears(c)
  <2>1. \A t \in Seqs : Contents'[t] = {}
    BY <1>4, <1>11 DEF Clears
  <2>2. Contents' = [t \in Seqs |-> {}]
    BY <1>7, <2>1
  <2> QED
    BY <1>3, <2>2, MapsEdit
<1> QED
  BY <1>2, <1>8, <1>9, <1>10, <1>11

\* While a decode is working, its tokens are pending from the micro-batch on.
LEMMA PendingIs ==
    ASSUME Inv, phase \in {"prepare", "optimize", "apply", "compute"}
    PROVE  /\ job.batch \in Seq(Token) /\ job.batch # <<>>
           /\ job.i_cur \in 1 .. NUbatches(job.batch)
           /\ Before(job.i_cur) \in Nat /\ Before(job.i_cur) < Len(job.batch)
           /\ Pending = SubSeq(job.batch, Before(job.i_cur) + 1, Len(job.batch))
           /\ Len(Pending) = Len(job.batch) - Before(job.i_cur)
           /\ DOMAIN Pending = 1 .. Len(Pending) /\ Pending # <<>>
           /\ \A k \in 1 .. Len(Pending) : Pending[k] = job.batch[Before(job.i_cur) + k]
<1> DEFINE b == job.batch
           m == Before(job.i_cur)
<1>1. b \in Seq(Token) /\ b # <<>> /\ job.i_cur \in 1 .. NUbatches(b)
  <2>1. CASE phase \in {"prepare", "optimize"}
    <3>1. b \in Seq(Token) /\ b # <<>> /\ job.i_cur = 1
      BY <2>1 DEF Inv, Typed, TypeOK, Searching
    <3>2. NUbatches(b) \in Nat \ {0}
      BY <3>1, Split
    <3> QED
      BY <3>1, <3>2
  <2>2. CASE phase \in {"apply", "compute"}
    BY <2>2 DEF Inv, Typed, TypeOK, Placing
  <2> QED
    BY <2>1, <2>2
<1> HIDE DEF b
<1>2. /\ m \in Nat /\ Len(Ubatch(b, job.i_cur)) \in Nat \ {0}
      /\ \A j \in DOMAIN Ubatch(b, job.i_cur) : m + j \in DOMAIN b
      /\ DOMAIN Ubatch(b, job.i_cur) = 1 .. Len(Ubatch(b, job.i_cur))
  BY <1>1, UbatchIs
<1>3. Pending = SubSeq(b, m + 1, Len(b))
  BY DEF Pending, b
<1> HIDE DEF m
<1>4. m < Len(b) /\ Len(b) \in Nat
  <2>1. m + 1 \in DOMAIN b
    BY <1>2
  <2> QED
    BY <1>1, <1>2, <2>1
<1>5. /\ Len(Pending) = Len(b) - m /\ DOMAIN Pending = 1 .. Len(Pending)
      /\ \A k \in 1 .. Len(Pending) : Pending[k] = b[m + k]
  <2> DEFINE f == m + 1
             z == Len(b)
  <2>1. f \in Int /\ z \in Int /\ f <= z /\ z - f + 1 = z - m /\ \A i \in f .. z : b[i] \in Token
    BY <1>1, <1>2, <1>4
  <2>2. Pending = SubSeq(b, f, z)
    BY <1>3
  <2>3. \A k \in Int : f + k - 1 = m + k
    BY <1>2
  <2> HIDE DEF f, z
  <2>4. /\ Pending \in Seq(Token) /\ Len(Pending) = z - f + 1
        /\ \A i \in 1 .. z - f + 1 : Pending[i] = b[f + i - 1]
    BY <2>1, <2>2, SubSeqProperties
  <2>5. Len(Pending) = z - m /\ DOMAIN Pending = 1 .. Len(Pending)
    BY <2>1, <2>4
  <2>6. \A k \in 1 .. Len(Pending) : Pending[k] = b[m + k]
    <3> SUFFICES ASSUME NEW k \in 1 .. Len(Pending) PROVE Pending[k] = b[m + k]
      OBVIOUS
    <3>1. k \in 1 .. z - f + 1 /\ k \in Int
      BY <2>4
    <3>2. Pending[k] = b[f + k - 1] /\ f + k - 1 = m + k
      BY <2>3, <2>4, <3>1
    <3> QED
      BY <3>2
  <2> QED
    BY <2>5, <2>6 DEF z
<1>6. Pending # <<>>
  <2>1. Len(Pending) # 0
    BY <1>2, <1>4, <1>5
  <2> QED
    BY <2>1
<1> QED
  BY <1>1, <1>2, <1>3, <1>4, <1>5, <1>6 DEF b, m

\* A decode that returns without an answer gives up what is pending.
LEMMA ReturnGivesUp ==
    ASSUME Inv, phase \in {"prepare", "optimize", "apply", "compute"},
           phase' = "idle", UNCHANGED Contents
    PROVE  Abstract!GiveUp
<1>1. Pending # <<>> /\ Pending' = <<>>
  BY PendingIs DEF Pending
<1> QED
  BY <1>1, Maps

\* The search for slots changes nothing, whether it succeeds or not.
LEMMA PrepareRefines ==
    ASSUME Inv, Prepare
    PROVE  Abstract!Next \/ UNCHANGED Abstract!vars
<1>1. /\ phase = "prepare" /\ cache' = cache /\ tensors' = tensors
      /\ \/ phase' = "idle"
         \/ /\ phase' \in {"apply", "optimize"}
            /\ job'.batch = job.batch /\ job'.i_cur = job.i_cur
  BY PrepareFinds DEF Prepare, Goto, Return, Inv, Typed, JobType
<1>2. UNCHANGED Contents
  BY <1>1 DEF Contents, Uncommitted
<1>3. CASE phase' = "idle"
  BY <1>1, <1>2, <1>3, ReturnGivesUp DEF Abstract!Next
<1>4. CASE phase' # "idle"
  <2>1. UNCHANGED Pending
    BY <1>1, <1>4 DEF Pending, Before
  <2> QED
    BY <1>2, <2>1, Maps
<1> QED
  BY <1>3, <1>4

\* A defragmentation keeps every position of every sequence; what was computed is
\* kept, or lost if the copy failed.
LEMMA OptimizeRefines ==
    ASSUME Inv, Optimize
    PROVE  Abstract!Next
<1> DEFINE plan == DefragPlan(cache)
           d == Defragged(cache, plan)
<1>1. /\ phase = "optimize" /\ Sound(cache)
      /\ \/ Return(1) /\ cache' = cache /\ tensors' = tensors
         \/ /\ cache' = d /\ Retry
            /\ \E copied \in SUBSET Moving(plan) : tensors' = Copied(plan, copied)
  BY DEF Optimize, Inv
<1>2. CASE Return(1) /\ cache' = cache /\ tensors' = tensors
  <2>1. phase' = "idle" /\ UNCHANGED Contents
    BY <1>1, <1>2 DEF Return, Contents, Uncommitted
  <2> QED
    BY <1>1, <2>1, ReturnGivesUp DEF Abstract!Next
<1>3. CASE /\ cache' = d /\ Retry
           /\ \E copied \in SUBSET Moving(plan) : tensors' = Copied(plan, copied)
  <2>1. phase' = "prepare" /\ job'.batch = job.batch /\ job'.i_cur = job.i_cur
    BY <1>3 DEF Retry, Goto, Inv, Typed, JobType
  <2>2. PICK copied \in SUBSET Moving(plan) : tensors' = Copied(plan, copied)
    BY <1>3
  <2>3. PICK u : u = Copied(plan, copied)
    OBVIOUS
  <2>4. plan = DefragPlan(cache) /\ d = Defragged(cache, plan) /\ cache' = d /\ tensors' = u
    BY <1>3, <2>2, <2>3
  <2> HIDE DEF plan, d
  <2>5. Sound(d) /\ d.seq_pos = cache.seq_pos
    BY <1>1, <2>4, DefragmentingMovesCells DEF MovedTo
  <2>6. UNCHANGED Pending /\ Pending # <<>>
    BY <1>1, <2>1, PendingIs DEF Pending, Before
  <2>7. ASSUME NEW s \in Seqs
        PROVE  /\ {e[1] : e \in Contents'[s]} = PositionsKept(s)
               /\ \A e \in Contents'[s] : e \in Contents[s] \/ e[2] = Lost
    <3>1. Contents'[s] = Kept(d, u, Cells, s) /\ Contents[s] = Kept(cache, tensors, Cells, s)
      BY <1>1, <2>1, <2>4 DEF Contents, Uncommitted
    <3>2. Occurrences(d, s) = Occurrences(cache, s)
      BY <2>5 DEF Occurrences
    <3>3. {e[1] : e \in Contents'[s]} = PositionsKept(s)
      <4>1. {e[1] : e \in Contents'[s]} = Occurrences(d, s)
        BY <2>5, <3>1, KeptOccurs DEF KeptPositions
      <4>2. PositionsKept(s) = Occurrences(cache, s)
        BY <1>1, IdleHolds
      <4> QED
        BY <3>2, <4>1, <4>2
    <3>4. ASSUME NEW e \in Contents'[s] PROVE e \in Contents[s] \/ e[2] = Lost
      <4>1. PICK i \in Cells : s \in d.members[i] /\ e = <<d.pos[i], u[i]>>
        BY <3>1, KeptIs
      <4>2. ~IsEmpty(d, i)
        BY <2>5, <4>1 DEF Sound, IsEmpty
      <4>3. PICK j \in Cells :
                /\ ~IsEmpty(cache, j) /\ d.pos[i] = cache.pos[j] /\ d.members[i] = cache.members[j]
                /\ u[i] \in {tensors[j], Lost}
        BY <1>1, <2>3, <2>4, <4>2, DefragMoves
      <4>4. CASE u[i] = tensors[j]
        <5>1. e = <<cache.pos[j], tensors[j]>> /\ s \in cache.members[j]
          BY <4>1, <4>3, <4>4
        <5> QED
          BY <3>1, <5>1, KeptIs
      <4>5. CASE u[i] = Lost
        BY <4>1, <4>5
      <4> QED
        BY <4>3, <4>4, <4>5
    <3> QED
      BY <3>3, <3>4
  <2>8. Abstract!Lose
    BY <2>6, <2>7, MapsLose
  <2> QED
    BY <2>8 DEF Abstract!Next
<1> QED
  BY <1>1, <1>2, <1>3

\* A micro-batch whose cells are filled in is not there yet.
LEMMA ApplyRefines ==
    ASSUME Inv, Apply
    PROVE  UNCHANGED Abstract!vars
<1> DEFINE start == job.slots[job.i_cur]
           ub == CurrentUbatch
           d == ApplyUbatch(cache, start, ub)
           slot == Slot(start, ub)
<1>1. /\ phase = "apply" /\ phase' = "compute" /\ tensors' = tensors /\ job' = job
      /\ cache' = d /\ Sound(cache) /\ CurrentSlot' = slot
  BY DEF Apply, Goto, Inv, CurrentUbatch, CurrentSlot
<1>2. ub \in Seq(Token) /\ FreeRun(cache, start, Len(ub)) /\ Fresh(cache, ub)
  BY ApplyFinds
<1> HIDE DEF start, ub, d
<1>3. Filled(cache, start, ub, d)
  BY <1>1, <1>2, ApplyFills DEF d
<1>4. \A i \in Cells \ slot : d.pos[i] = cache.pos[i] /\ d.members[i] = cache.members[i]
  BY <1>3 DEF Filled
<1>5. \A i \in Cells : i \in slot => cache.members[i] = {}
  <2>1. \A i \in slot : IsEmpty(cache, i)
    BY <1>2 DEF FreeRun, Slot
  <2> QED
    BY <1>1, <2>1 DEF Sound, IsEmpty
<1> HIDE DEF slot
<1>6. ASSUME NEW s \in Seqs
      PROVE  Kept(d, tensors, Cells \ slot, s) = Kept(cache, tensors, Cells, s)
  <2>1. \A i : i \in Cells /\ s \in cache.members[i] <=> i \in Cells \ slot /\ s \in d.members[i]
    BY <1>4, <1>5
  <2>2. \A i \in Cells : s \in cache.members[i] => d.pos[i] = cache.pos[i] /\ tensors[i] = tensors[i]
    BY <1>4, <1>5
  <2> QED
    BY <2>1, <2>2, KeptAlike
<1>7. UNCHANGED Contents
  BY <1>1, <1>6 DEF Contents, Uncommitted
<1>8. UNCHANGED Pending
  BY <1>1 DEF Pending, Before
<1> QED
  BY <1>7, <1>8, Maps

\* What stays pending when the first micro-batch of it has been computed.
LEMMA RestPending ==
    ASSUME Inv, phase = "compute", NEW n \in DOMAIN Pending,
           n = Len(CurrentUbatch),
           IF job.i_cur < Len(job.slots)
           THEN phase' = "apply" /\ job'.batch = job.batch /\ job'.i_cur = job.i_cur + 1
           ELSE phase' = "idle"
    PROVE  Pending' = SubSeq(Pending, n + 1, Len(Pending))
<1> DEFINE b == job.batch
           m == job.i_cur
           w == Before(m)
           len == Len(b)
           rest == SubSeq(b, w + n + 1, len)
<1>1. /\ b \in Seq(Token) /\ b # <<>> /\ m \in 1 .. NUbatches(b) /\ Len(job.slots) = NUbatches(b)
  BY SlotUnderWay
<1>2. w + n = IF m < NUbatches(b) THEN Before(m + 1) ELSE len
  BY <1>1, Split DEF CurrentUbatch
<1>3. /\ w \in Nat /\ Len(Pending) = len - w /\ Pending = SubSeq(b, w + 1, len)
      /\ DOMAIN Pending = 1 .. Len(Pending)
      /\ \A k \in 1 .. Len(Pending) : Pending[k] = b[w + k]
  BY PendingIs
<1>4. len \in Nat /\ n \in Nat \ {0} /\ n <= len - w
  BY <1>1, <1>3
<1>5. Pending' = rest
  <2>1. CASE m < NUbatches(b)
    BY <1>1, <1>2, <2>1 DEF Pending
  <2>2. CASE ~(m < NUbatches(b))
    <3>1. Pending' = <<>>
      BY <1>1, <2>2 DEF Pending
    <3>2. w + n = len
      BY <1>2, <2>2
    <3> HIDE DEF len, w, b
    <3>3. SubSeq(b, len + 1, len) = <<>>
      BY <1>4
    <3> QED
      BY <3>1, <3>2, <3>3
  <2> QED
    BY <2>1, <2>2
<1> HIDE DEF b, m, w, len
<1>6. rest = SubSeq(Pending, n + 1, Len(Pending))
  <2> DEFINE l == len - w
             f == n + 1
             g == w + n + 1
  <2>1. \A k \in 1 .. l : Pending[k] \in Token
    <3>1. \A k \in 1 .. l : w + k \in 1 .. len
      BY <1>3, <1>4
    <3>2. DOMAIN b = 1 .. len
      BY <1>1 DEF len
    <3>3. \A k \in 1 .. l : Pending[k] = b[w + k] /\ w + k \in DOMAIN b
      BY <1>3, <3>1, <3>2
    <3>4. \A j \in DOMAIN b : b[j] \in Token
      BY <1>1
    <3> QED
      BY <3>3, <3>4
  <2>2. Len(Pending) = l /\ l \in Nat /\ f \in Int /\ g \in Int /\ len \in Int
    BY <1>3, <1>4
  <2>3. \A k \in 1 .. l - f + 1 : Pending[f + k - 1] = b[g + k - 1] /\ k + f - 1 \in 1 .. l
    BY <1>3, <1>4
  <2>4. l - f + 1 = len - g + 1
    BY <1>3, <1>4
  <2> HIDE DEF l, f, g
  <2> QED
    BY <1>3, <1>4, <2>1, <2>2, <2>3, <2>4 DEF f, g
<1> QED
  BY <1>3, <1>5, <1>6

\* A micro-batch that is computed is taken in.
LEMMA ComputeRefines ==
    ASSUME Inv, Computed, Compute
    PROVE  Abstract!Next
<1> DEFINE b == job.batch
           m == job.i_cur
           ub == CurrentUbatch
           start == job.slots[m]
           w == Before(m)
<1>1. /\ phase = "compute" /\ cache' = cache
      /\ tensors' = [i \in Cells |->
            IF i \in CurrentSlot THEN TokenIn(start, ub, i) ELSE tensors[i]]
      /\ IF m < Len(job.slots)
         THEN phase' = "apply" /\ job'.batch = b /\ job'.i_cur = m + 1
         ELSE phase' = "idle"
  BY DEF Compute, Goto, Return, TokenIn, Inv, Typed, JobType
<1>2. /\ b \in Seq(Token) /\ b # <<>> /\ m \in 1 .. NUbatches(b) /\ Len(job.slots) = NUbatches(b)
      /\ start \in Nat /\ CurrentSlot \in SUBSET Cells /\ Sound(cache)
      /\ start + Len(ub) <= NCells
  BY <1>1, SlotUnderWay DEF Inv, Placing, CurrentUbatch
<1>3. /\ w \in Nat /\ Len(ub) \in Nat \ {0} /\ DOMAIN ub = 1 .. Len(ub)
      /\ \A j \in 1 .. Len(ub) : w + j \in DOMAIN b /\ ub[j] = b[w + j]
  BY <1>2, UbatchIs DEF CurrentUbatch
<1>4. w + Len(ub) = IF m < NUbatches(b) THEN Before(m + 1) ELSE Len(b)
  BY <1>2, Split DEF CurrentUbatch
<1>5. /\ Len(Pending) = Len(b) - w /\ Pending = SubSeq(b, w + 1, Len(b))
      /\ DOMAIN Pending = 1 .. Len(Pending)
      /\ \A k \in 1 .. Len(Pending) : Pending[k] = b[w + k]
  BY <1>1, PendingIs
<1>6. \A i \in Cells : i \in CurrentSlot <=> i - start + 1 \in 1 .. Len(ub)
  <2>1. CurrentSlot = start .. start + Len(ub) - 1
    BY DEF CurrentSlot, Slot
  <2> HIDE DEF b, m, ub, start, w
  <2>2. \A i \in Cells : i \in Int
    BY SizesAssumption DEF Cells
  <2> QED
    BY <1>2, <1>3, <2>1, <2>2
<1>7. \A i \in CurrentSlot : cache.pos[i] = TokenIn(start, ub, i).pos
                              /\ cache.members[i] = {TokenIn(start, ub, i).owner}
  BY <1>1 DEF Computed
<1>8. PICK n : n = Len(ub)
  OBVIOUS
<1>9. PICK u : u = tensors'
  OBVIOUS
<1> HIDE DEF b, m, ub, start, w
<1>10. n \in DOMAIN Pending /\ \A k \in 1 .. n : Pending[k] = ub[k]
  <2>1. w + n \in 1 .. Len(b) /\ Len(b) \in Nat
    BY <1>2, <1>3, <1>8
  <2>2. n \in 1 .. Len(Pending)
    BY <1>3, <1>5, <1>8, <2>1
  <2>3. \A k \in 1 .. n : k \in 1 .. Len(Pending)
    BY <2>2
  <2> QED
    BY <1>3, <1>5, <1>8, <2>2, <2>3
<1>11. Pending' = SubSeq(Pending, n + 1, Len(Pending))
  BY <1>1, <1>8, <1>10, RestPending DEF b, m, ub
<1>12. ASSUME NEW s \in Seqs
       PROVE  Contents'[s] = Contents[s] \cup
                {<<Pending[k].pos, Pending[k]>> : k \in {j \in 1 .. n : Pending[j].owner = s}}
  <2> DEFINE new == {<<Pending[k].pos, Pending[k]>> : k \in {j \in 1 .. n : Pending[j].owner = s}}
  <2>1. /\ Contents'[s] = Kept(cache, u, Cells, s)
        /\ Contents[s] = Kept(cache, tensors, Cells \ CurrentSlot, s)
    <3>1. phase' # "compute"
      BY <1>1
    <3> QED
      BY <1>1, <1>9, <3>1 DEF Contents, Uncommitted
  <2>2. \A e : e \in new <=> \E k \in 1 .. n : ub[k].owner = s /\ e = <<ub[k].pos, ub[k]>>
    BY <1>10
  <2> HIDE DEF new
  <2>3. \A i \in CurrentSlot : /\ i - start + 1 \in 1 .. n
                                /\ cache.pos[i] = ub[i - start + 1].pos
                                /\ cache.members[i] = {ub[i - start + 1].owner}
                                /\ u[i] = ub[i - start + 1]
    BY <1>1, <1>2, <1>6, <1>7, <1>8, <1>9 DEF TokenIn
  <2>4. \A i \in Cells \ CurrentSlot : u[i] = tensors[i]
    BY <1>1, <1>9
  <2>5. ASSUME NEW e \in Contents'[s] PROVE e \in Contents[s] \cup new
    <3>1. PICK i \in Cells : s \in cache.members[i] /\ e = <<cache.pos[i], u[i]>>
      BY <2>1, KeptIs
    <3>2. CASE i \in CurrentSlot
      BY <2>2, <2>3, <3>1, <3>2
    <3>3. CASE i \notin CurrentSlot
      <4>1. i \in Cells \ CurrentSlot /\ e = <<cache.pos[i], tensors[i]>>
        BY <2>4, <3>1, <3>3
      <4> QED
        BY <2>1, <3>1, <4>1, KeptIs
    <3> QED
      BY <3>2, <3>3
  <2>6. ASSUME NEW e \in Contents[s] PROVE e \in Contents'[s]
    <3>1. PICK i \in Cells \ CurrentSlot : s \in cache.members[i] /\ e = <<cache.pos[i], tensors[i]>>
      BY <2>1, KeptIs
    <3> QED
      BY <2>1, <2>4, <3>1, KeptIs
  <2>7. ASSUME NEW e \in new PROVE e \in Contents'[s]
    <3>1. PICK k \in 1 .. n : ub[k].owner = s /\ e = <<ub[k].pos, ub[k]>>
      BY <2>2
    <3>2. PICK i : i = start + k - 1
      OBVIOUS
    <3>3. i \in Cells /\ i - start + 1 = k
      BY <1>2, <1>3, <1>8, <3>2, SizesAssumption DEF Cells
    <3>4. i \in CurrentSlot
      BY <1>6, <1>8, <3>3
    <3>5. s \in cache.members[i] /\ e = <<cache.pos[i], u[i]>>
      BY <2>3, <3>1, <3>3, <3>4
    <3> QED
      BY <2>1, <3>3, <3>5, KeptIs
  <2> QED
    BY <2>5, <2>6, <2>7 DEF new
<1>13. Contents' = [s \in Seqs |-> Contents[s] \cup
                {<<Pending[k].pos, Pending[k]>> : k \in {j \in 1 .. n : Pending[j].owner = s}}]
  <2>1. Contents' = [s \in Seqs |-> Contents'[s]]
    BY DEF Contents
  <2> QED
    BY <1>12, <2>1
<1>14. Abstract!TakeIn
  BY <1>10, <1>11, <1>13, MapsTakeIn
<1> QED
  BY <1>14 DEF Abstract!Next

\* When a micro-batch fails, those before it stay and it leaves no trace.
LEMMA ComputeFailsRefines ==
    ASSUME Inv, Computed, Ahead, ComputeFails
    PROVE  Abstract!Next
<1> DEFINE b == job.batch
           w == Before(job.i_cur)
           ub == CurrentUbatch
<1>1. PICK cut : cut = RolledBack(cache, ub)
  OBVIOUS
<1>2. /\ phase = "compute" /\ phase' = "idle" /\ cache' = cut
      /\ tensors' = Readable(cut, tensors)
  BY <1>1 DEF ComputeFails, Return
<1>3. Sound(cache) /\ ub \in Seq(Token) /\ CurrentSlot \in SUBSET Cells
  BY <1>2, SlotUnderWay DEF Inv
<1>4. CutTo(cache, ub, NSeqs, cut)
  BY <1>1, <1>3, RolledBackCuts
<1>5. /\ b \in Seq(Token) /\ w \in Nat
      /\ \A j \in DOMAIN ub : j \in Nat \ {0} /\ w + j \in DOMAIN b /\ ub[j] = b[w + j]
  <2>1. b \in Seq(Token) /\ b # <<>> /\ job.i_cur \in 1 .. NUbatches(b)
    BY <1>2, SlotUnderWay
  <2> QED
    BY <2>1, UbatchIs DEF CurrentUbatch
<1>6. \A k \in DOMAIN b, i \in Cells \ CurrentSlot :
        k > w /\ b[k].owner \in cache.members[i] => cache.pos[i] < b[k].pos
  BY <1>2 DEF Ahead, Uncommitted, Working, Phases
<1> HIDE DEF b, w, ub
<1>7. \A i \in Cells : /\ i \in CurrentSlot => IsEmpty(cut, i)
                       /\ ~IsEmpty(cut, i) => ~IsEmpty(cache, i) /\ cut.pos[i] = cache.pos[i]
  BY <1>1, <1>2, FailedIsCut DEF ub
<1>8. ASSUME NEW i \in Cells \ CurrentSlot, NEW s \in Seqs, s \in cache.members[i]
      PROVE  s \in cut.members[i]
  <2> SUFFICES ASSUME CutOff(ub, NSeqs, s, cache.pos[i]) PROVE FALSE
    BY <1>4, <1>8 DEF CutTo
  <2> DEFINE P == PositionsIn(ub, s)
  <2>1. P # {} /\ cache.pos[i] >= MinOf(P)
    BY DEF CutOff
  <2>2. P \in SUBSET Nat
    <3>1. \A j \in DOMAIN ub : ub[j].pos \in Nat
      BY <1>3, TokenFields, PositionsAreNat
    <3> QED
      BY <3>1 DEF PositionsIn
  <2>3. \A p \in P : \E j \in DOMAIN ub : ub[j].owner = s /\ ub[j].pos = p
    BY DEF PositionsIn
  <2> HIDE DEF P
  <2>4. MinOf(P) \in P
    BY <2>1, <2>2, MinIs
  <2>5. PICK j \in DOMAIN ub : ub[j].owner = s /\ ub[j].pos = MinOf(P)
    BY <2>3, <2>4
  <2>6. w + j \in DOMAIN b /\ w + j > w /\ ub[j] = b[w + j]
    BY <1>5
  <2>7. cache.pos[i] < MinOf(P)
    BY <1>6, <1>8, <2>5, <2>6
  <2>8. cache.pos[i] \in Int /\ MinOf(P) \in Int
    <3>1. cache \in CacheType /\ Positions \cup {NoPos} \subseteq Int
      BY <1>3, PositionsAreNat DEF Sound
    <3>2. cache.pos \in [Cells -> Positions \cup {NoPos}]
      BY <3>1, CacheFields
    <3>3. i \in Cells
      OBVIOUS
    <3>4. cache.pos[i] \in Int
      <4>1. cache.pos[i] \in Positions \cup {NoPos}
        BY <3>2, <3>3
      <4> QED
        BY <3>1, <4>1
    <3>5. MinOf(P) \in Int
      <4>1. \A m \in P : m \in Int
        BY <2>2
      <4> QED
        BY <2>4, <4>1, Zenon
    <3> QED
      BY <3>4, <3>5
  <2> QED
    BY <2>1, <2>7, <2>8
<1>9. ASSUME NEW s \in Seqs
      PROVE  Kept(cut, Readable(cut, tensors), Cells, s)
                = Kept(cache, tensors, Cells \ CurrentSlot, s)
  <2> DEFINE u == Readable(cut, tensors)
  <2>1. \A i \in Cells : s \in cut.members[i] => s \in cache.members[i] /\ ~IsEmpty(cut, i)
    BY <1>4 DEF CutTo, Sound, IsEmpty
  <2>2. \A i : i \in Cells \ CurrentSlot /\ s \in cache.members[i] <=>
                    i \in Cells /\ s \in cut.members[i]
    BY <1>7, <1>8, <2>1
  <2>3. \A i \in Cells : ~IsEmpty(cut, i) => u[i] = tensors[i]
    BY DEF Readable
  <2> HIDE DEF u
  <2>4. \A i \in Cells \ CurrentSlot : s \in cache.members[i] =>
                cut.pos[i] = cache.pos[i] /\ u[i] = tensors[i]
    BY <1>7, <2>1, <2>2, <2>3
  <2>5. Kept(cut, u, Cells, s) = Kept(cache, tensors, Cells \ CurrentSlot, s)
    BY <2>2, <2>4, KeptAlike
  <2> QED
    BY <2>5 DEF u
<1>10. UNCHANGED Contents
  BY <1>2, <1>9 DEF Contents, Uncommitted
<1>11. Abstract!GiveUp
  BY <1>2, <1>10, ReturnGivesUp
<1> QED
  BY <1>11 DEF Abstract!Next
\* nativeReset drops every sequence.
LEMMA ResetRefines ==
    ASSUME Inv, Reset
    PROVE  Abstract!Edit
<1>1. phase = "idle" /\ phase' = phase /\ cache' = EmptyCache
  BY DEF Reset, ClearMemory, Inv, Typed, AppPlace
<1>2. Pending = <<>> /\ UNCHANGED Pending
  BY <1>1 DEF Pending
<1>3. PICK c : c = EmptyCache
  OBVIOUS
<1>4. PICK t : t = tensors'
  OBVIOUS
<1>5. \A i \in Cells : c.members[i] = {}
  BY <1>3 DEF EmptyCache
<1>6. \A s \in Seqs : Kept(c, t, Cells, s) = {}
  BY <1>5, KeptIs
<1>7. Contents' = [s \in Seqs |-> Kept(c, t, Cells, s)]
  BY <1>1, <1>3, <1>4 DEF Contents, Uncommitted
<1>8. Contents' = [s \in Seqs |-> {}]
  BY <1>6, <1>7
<1> QED
  BY <1>2, <1>8, MapsEdit

\* Every step of the cells is a step of the cache of tokens, or changes nothing there.
LEMMA StepRefines ==
    Inv /\ Computed /\ Ahead /\ [Next]_vars => [Abstract!Next]_(Abstract!vars)
<1> SUFFICES ASSUME Inv, Computed, Ahead, [Next]_vars
             PROVE  Abstract!Next \/ UNCHANGED Abstract!vars
  OBVIOUS
<1>1. CASE Prepare
  BY <1>1, PrepareRefines
<1>2. CASE Optimize
  BY <1>2, OptimizeRefines
<1>3. CASE Apply
  BY <1>3, ApplyRefines
<1>4. CASE Compute
  BY <1>4, ComputeRefines
<1>5. CASE ComputeFails
  BY <1>5, ComputeFailsRefines
<1>6. CASE (\E n \in 1 .. NCells : Classify(n)) \/ Generate \/ LibraryDecode
  BY <1>6, StartsRefine
<1>7. CASE LibraryRm \/ LibraryCp \/ LibraryKeep \/ LibraryClear \/ Reset
  <2>1. Abstract!Edit
    BY <1>7, EditsRefine, ResetRefines
  <2> QED
    BY <2>1 DEF Abstract!Next
<1>8. CASE PromptDone \/ StepDone \/ UNCHANGED vars
  <2>1. UNCHANGED <<cache, tensors, phase, job>>
    BY <1>8 DEF PromptDone, StepDone, vars
  <2>2. UNCHANGED <<Contents, Pending>>
    BY <2>1 DEF Contents, Pending, Uncommitted, CurrentSlot, CurrentUbatch
  <2> QED
    BY <2>2, Maps
<1> QED
  BY <1>1, <1>2, <1>3, <1>4, <1>5, <1>6, <1>7, <1>8
     DEF Next, DecodeStep, AppStep, LibraryStep

\* Decoding over cells that are shared, cut, moved and reused is decoding over a
\* cache of tokens: nothing is taken in twice or forgotten, a failure leaves exactly
\* what was taken in before it, and making room drops no position.
THEOREM Refines == Spec => ImplementsTokenCache
<1>1. Init => Computed
  BY DEF Init, Computed, EmptyCache, IsEmpty
<1>2. Init => Ahead
  BY DEF Init, Ahead, Working
<1>3. Init => Abstract!Init
  BY Maps
<1> QED
  BY <1>1, <1>2, <1>3, Invariance, ComputedKept, AheadKept, StepRefines, PTL
     DEF Spec, ImplementsTokenCache, Abstract!Spec

(***************************************************************************)
(* Room for a batch.                                                       *)
(***************************************************************************)

\* The cells a decode can have are those not in use.
LEMMA FreeCount ==
    ASSUME NEW c, Sound(c)
    PROVE  /\ Cardinality({i \in Cells : c.pos[i] = NoPos}) = NCells - Count(c)
           /\ Count(c) \in Nat /\ Count(c) <= NCells /\ NCells \in Nat
<1> DEFINE F == {i \in Cells : c.pos[i] = NoPos}
<1>1. /\ Count(c) \in Nat /\ Count(c) <= NCells /\ NCells \in Nat
      /\ c.used = {i \in Cells : c.pos[i] # NoPos}
  <2>1. Count(c) \in Nat /\ Count(c) <= End(c) /\ End(c) \in Nat /\ End(c) <= NCells
        /\ NCells \in Nat
    BY UsedCells
  <2> QED
    BY <2>1 DEF Sound
<1>2. IsFiniteSet(Cells) /\ Cardinality(Cells) = NCells
  <2> DEFINE a == NCells - 1
  <2>1. a \in Int /\ 0 \in Int /\ a - 0 + 1 = NCells /\ (0 > a <=> NCells = 0)
    BY <1>1
  <2>2. IsFiniteSet(0 .. a) /\ Cardinality(0 .. a) = IF 0 > a THEN 0 ELSE a - 0 + 1
    <3> HIDE DEF a
    <3> QED
      BY <2>1, FS_Interval
  <2>3. Cells = 0 .. a
    BY DEF Cells
  <2> HIDE DEF a
  <2> QED
    BY <1>1, <2>1, <2>2, <2>3
<1>3. Parts(Cells, c.used, F)
  BY <1>1, <1>2 DEF Parts
<1> HIDE DEF F
<1>4. Cardinality(Cells) = Cardinality(c.used) + Cardinality(F) /\ Cardinality(F) \in Nat
  BY <1>3, DisjointCount
<1>5. Cardinality(c.used) = Count(c)
  BY DEF Count
<1>6. Cardinality(F) = NCells - Count(c)
  <2> HIDE DEF Count
  <2> QED
    BY <1>1, <1>2, <1>4, <1>5
<1> QED
  BY <1>1, <1>6 DEF F

\* In one piece, cell by cell.
LEMMA InOnePieceIs ==
    ASSUME NEW c
    PROVE  InOnePiece(c) <=> \A i : i \in c.used <=> i \in 0 .. Count(c) - 1
BY DEF InOnePiece, Count

\* A batch of one micro-batch finds room among cells in one piece if it fits.
LEMMA OnePieceFits ==
    ASSUME NEW c, Sound(c), InOnePiece(c), NEW b \in Seq(Token), b # <<>>, Fresh(c, b),
           NUbatches(b) = 1, ~Placed(c, Ubatches(b)).success
    PROVE  Cardinality({i \in Cells : c.pos[i] = NoPos}) < Len(b)
<1> DEFINE n == Count(c)
           m == Len(b)
           us == Ubatches(b)
           ub == Ubatch(b, 1)
<1>1. n \in Nat /\ n <= NCells /\ NCells \in Nat /\ m \in Nat \ {0}
  <2>1. n \in Nat /\ n <= NCells /\ NCells \in Nat
    BY FreeCount
  <2>2. m \in Nat \ {0}
    OBVIOUS
  <2> QED
    BY <2>1, <2>2
<1>2. MicroBatches(c, us) /\ Len(us) = 1 /\ us[1] = ub
  <2>1. MicroBatches(c, us) /\ Len(us) = NUbatches(b)
        /\ \A k \in 1 .. NUbatches(b) : us[k] = Ubatch(b, k)
    BY SplitIsFresh
  <2> QED
    BY <2>1
<1>3. Len(ub) = m
  <2>1. Before(1) + Len(Ubatch(b, 1)) = Len(b) /\ Ubatch(b, 1) \in Seq(Token)
    <3>1. 1 \in 1 .. NUbatches(b) /\ ~(1 < NUbatches(b))
      OBVIOUS
    <3> QED
      BY <3>1, Split
  <2> QED
    BY <2>1, BeforeGrows
<1> HIDE DEF us, ub, m, n
<1>4. PICK after :
        /\ after[0] = [cache |-> c, success |-> TRUE, saved |-> <<>>]
        /\ \A k \in 1 .. 1 : after[k] = Place(after[k - 1], us[k])
        /\ Placed(c, us) = after[1]
  BY <1>2, PlacedSteps
<1>5. after[1] = Place(after[0], ub)
  BY <1>2, <1>4
<1>6. FindSlot(c, m) = NoSlot
  <2> SUFFICES ASSUME FindSlot(c, m) # NoSlot PROVE FALSE
    OBVIOUS
  <2>1. after[0].cache = c /\ after[0].success
    BY <1>4
  <2>2. Place(after[0], ub).success
    BY <1>3, <2>1 DEF Place
  <2>3. ~Placed(c, us).success
    BY DEF us
  <2> QED
    BY <1>4, <1>5, <2>2, <2>3
<1>7. ~FreeRun(c, n, m)
  <2>1. c \in CacheType
    BY DEF Sound
  <2> QED
    BY <1>1, <1>6, <2>1, FindSlotFinds
<1>8. ~(n + m <= NCells)
  <2> SUFFICES ASSUME n + m <= NCells PROVE FALSE
    OBVIOUS
  <2>1. ASSUME NEW i \in n .. n + m - 1 PROVE IsEmpty(c, i)
    <3>1. i \in 0 .. NCells - 1 /\ i \notin 0 .. n - 1
      BY <1>1
    <3>2. i \in Cells /\ i \notin c.used
      BY <3>1, InOnePieceIs DEF Cells, n
    <3> QED
      BY <3>2, UsedCells
  <2> QED
    BY <1>1, <1>7, <2>1 DEF FreeRun
<1>9. Cardinality({i \in Cells : c.pos[i] = NoPos}) = NCells - n
  BY FreeCount DEF n
<1>10. NCells - n < m
  BY <1>1, <1>8
<1> QED
  BY <1>9, <1>10 DEF m

\* A defragmentation that is not cut short leaves the cells in one piece.
LEMMA DefragPacks ==
    ASSUME NEW c, Sound(c), Uncut(c)
    PROVE  InOnePiece(Defragged(c, DefragPlan(c)))
<1> DEFINE d == Defragged(c, DefragPlan(c))
           n == Count(c)
           a == n - 1
<1>1. /\ Sound(d) /\ \A i : i \in d.used <=> i \in 0 .. n - 1
  BY DefragmentingPacks
<1> HIDE DEF d
<1>2. n \in Nat
  BY UsedCells
<1> HIDE DEF n
<1>3. d.used = 0 .. a
  BY <1>1
<1>4. a \in Int /\ 0 \in Int /\ a - 0 + 1 = n /\ (0 > a <=> n = 0)
  BY <1>2
<1> HIDE DEF a
<1>5. Cardinality(0 .. a) = IF 0 > a THEN 0 ELSE a - 0 + 1
  BY <1>4, FS_Interval
<1>6. Count(d) = n
  BY <1>2, <1>3, <1>4, <1>5 DEF Count
<1>7. InOnePiece(d)
  BY <1>1, <1>6, InOnePieceIs
<1> QED
  BY <1>7 DEF d

\* Whatever max_moves, it has nothing to move only when they are.
LEMMA NoMovesInOnePiece ==
    ASSUME NEW c, Sound(c), DefragPlan(c).n_moves = 0
    PROVE  InOnePiece(c)
BY NothingToMove, InOnePieceIs

\* No decode under way has returned; the cells are defragmented only after the
\* search failed.
Room ==
    /\ phase \in Working => result = 0
    /\ phase = "optimize" => ~Placed(cache, Ubatches(job.batch)).success

Short == Cardinality({i \in Cells : cache.pos[i] = NoPos}) < Len(job.batch)

Scattered == job.did_optimize /\ ~InOnePiece(cache)

\* A decode that starts has not been tried before.
LEMMA StartingRoom ==
    ASSUME NEW c, NEW b, Start(c, b), phase = "idle"
    PROVE  Room'
<1>1. CASE Accepts(c, b)
  <2>1. /\ phase' \in {"prepare", "aborted"} /\ result' = 0
        /\ job' = [NoJob EXCEPT !.batch = b]
    BY <1>1 DEF Start
  <2>2. job'.did_optimize = FALSE
    BY <2>1 DEF NoJob
  <2> QED
    BY <2>1, <2>2 DEF Room
<1>2. CASE ~Accepts(c, b)
  BY <1>2 DEF Start, Room, Working
<1> QED
  BY <1>1, <1>2

\* The steps of a decode keep it, and a batch they turn away for want of room
\* does not fit, or was tried again with the free cells still scattered.
LEMMA DecodeRoom ==
    ASSUME Inv, Room, DecodeStep
    PROVE  /\ Room'
           /\ result' = 1 /\ NUbatches(job.batch) = 1 => Short \/ Scattered
<1> DEFINE b == job.batch
           placed == Placed(cache, Ubatches(b))
<1>1. Sound(cache) /\ b \in Seq(Token) /\ job \in JobType
  BY DEF Inv, Typed, JobType
<1>2. CASE Prepare
  <2>1. /\ phase = "prepare" /\ result = 0 /\ cache' = cache /\ b # <<>> /\ Fresh(cache, b)
    BY <1>2, PrepareFinds DEF Prepare, Room, Working, Phases, Inv, Searching
  <2>2. \/ Goto("apply")
        \/ Return(2)
        \/ ~placed.success /\ Goto("optimize") /\ UNCHANGED job
        \/ ~placed.success /\ job.did_optimize /\ Return(1)
    BY <1>2 DEF Prepare
  <2>3. CASE ~placed.success /\ job.did_optimize /\ Return(1)
    <3>1. NUbatches(b) = 1 => Short \/ Scattered
      BY <1>1, <2>1, <2>3, OnePieceFits DEF Short, Scattered
    <3> QED
      BY <2>3, <3>1 DEF Return, Room, Working
  <2>4. CASE Goto("apply") \/ Return(2)
    BY <2>1, <2>4 DEF Goto, Return, Room, Working
  <2>5. CASE ~placed.success /\ Goto("optimize") /\ UNCHANGED job
    BY <2>1, <2>5 DEF Goto, Room
  <2> QED
    BY <2>2, <2>3, <2>4, <2>5
<1>3. CASE Optimize
  <2>1. /\ phase = "optimize" /\ result = 0 /\ ~placed.success /\ b # <<>> /\ Fresh(cache, b)
    BY <1>3 DEF Optimize, Room, Working, Phases, Inv, Searching
  <2>2. \/ Return(1) /\ DefragPlan(cache).n_moves = 0
        \/ Retry /\ cache' = Defragged(cache, DefragPlan(cache))
    BY <1>3 DEF Optimize
  <2>3. CASE Return(1) /\ DefragPlan(cache).n_moves = 0
    <3>1. InOnePiece(cache)
      BY <1>1, <2>3, NoMovesInOnePiece
    <3>2. NUbatches(b) = 1 => Short
      BY <1>1, <2>1, <3>1, OnePieceFits DEF Short
    <3> QED
      BY <2>3, <3>2 DEF Return, Room, Working
  <2>4. CASE Retry /\ cache' = Defragged(cache, DefragPlan(cache))
    BY <2>1, <2>4 DEF Retry, Goto, Room
  <2> QED
    BY <2>2, <2>3, <2>4
<1>4. CASE Apply
  BY <1>4 DEF Apply, Goto, Room, Working, Phases
<1>5. CASE Compute
  <2>1. result = 0
    BY <1>5 DEF Compute, Room, Working, Phases
  <2>2. (phase' = "apply" /\ result' = 0) \/ (phase' = "idle" /\ result' = 0)
    BY <1>5, <2>1 DEF Compute, Goto, Return
  <2> QED
    BY <2>2 DEF Room, Working
<1>6. CASE ComputeFails
  BY <1>6 DEF ComputeFails, Return, Room, Working
<1> QED
  BY <1>2, <1>3, <1>4, <1>5, <1>6 DEF DecodeStep

\* Every other step starts a decode or leaves the one under way alone.
LEMMA RoomKept ==
    ASSUME Inv, Room, [Next]_vars
    PROVE  /\ Room'
           /\ phase \in Working /\ result' = 1 /\ NUbatches(job.batch) = 1 =>
                Short \/ Scattered
<1>1. CASE DecodeStep
  BY <1>1, DecodeRoom
<1>2. CASE PromptDone \/ StepDone
  <2>1. UNCHANGED <<cache, phase, job, result>> /\ phase = "idle"
    BY <1>2 DEF PromptDone, StepDone
  <2> QED
    BY <2>1 DEF Room, Working
<1>3. CASE Generate
  <2>1. phase = "idle"
    BY <1>3 DEF Generate, Inv, Typed, AppPlace
  <2>2. CASE UNCHANGED <<phase, job, result>>
    BY <2>1, <2>2 DEF Room, Working
  <2>3. CASE Start(cache, <<[owner |-> 0, pos |-> app.cur_pos]>>)
    BY <2>1, <2>3, StartingRoom DEF Working
  <2> QED
    BY <1>3, <2>2, <2>3 DEF Generate
<1>4. CASE LibraryDecode
  <2>1. phase = "idle" /\ \E batch : Start(cache, batch)
    BY <1>4 DEF LibraryDecode, LibraryIdle
  <2> QED
    BY <2>1, StartingRoom DEF Working
<1>5. CASE LibraryRm \/ LibraryCp \/ LibraryKeep \/ LibraryClear
  <2>1. phase = "idle" /\ phase' = phase
    BY <1>5 DEF LibraryRm, LibraryCp, LibraryKeep, LibraryClear, LibraryIdle, Edits
  <2> QED
    BY <2>1 DEF Room, Working
<1>6. CASE Reset
  <2>1. phase = "idle" /\ phase' = phase
    BY <1>6 DEF Reset, Inv, Typed, AppPlace
  <2> QED
    BY <2>1 DEF Room, Working
<1>7. ASSUME NEW n \in 1 .. NCells, Classify(n)
      PROVE  Room' /\ phase = "idle"
  <2>1. phase = "idle" /\ Start(EmptyCache, [k \in 1 .. n |-> [owner |-> 0, pos |-> k - 1]])
    BY <1>7 DEF Classify, ClearMemory
  <2> QED
    BY <2>1, StartingRoom
<1>8. CASE UNCHANGED vars
  <2>1. UNCHANGED <<cache, phase, job, result>>
    BY <1>8 DEF vars
  <2>2. Room'
    BY <2>1 DEF Room
  <2>3. phase \in Working => result' = 0
    BY <2>1 DEF Room
  <2> QED
    BY <2>2, <2>3
<1> QED
  BY <1>1, <1>2, <1>3, <1>4, <1>5, <1>6, <1>7, <1>8 DEF Next, AppStep, LibraryStep, Working

\* A batch of one micro-batch is turned away for want of room only when fewer
\* cells are free than it has tokens, or after a defragmentation that left the
\* free cells scattered: find_slot overlooks no run, and there is always a move
\* to try while the used cells are not in one piece.
THEOREM FindsRoom == Spec => DecodeFindsRoom
<1>1. Init => Room
  BY DEF Init, Room, Working
<1>2. Inv /\ Room /\ [Next]_vars => Room'
  BY RoomKept
<1>3. Inv /\ Room /\ [Next]_vars =>
        [(phase \in Working) /\ result' = 1 /\ NUbatches(job.batch) = 1 =>
            \/ Cardinality({i \in Cells : cache.pos[i] = NoPos}) < Len(job.batch)
            \/ job.did_optimize /\ ~InOnePiece(cache)]_vars
  BY RoomKept DEF Short, Scattered
<1> QED
  BY <1>1, <1>2, <1>3, Invariance, PTL DEF Spec, DecodeFindsRoom

\* Scattered only if it was cut short: a defragmentation whose holes are no more
\* than max_moves, or whose used cells are one block, leaves the free cells in one
\* piece.
THEOREM UncutPacks ==
    Spec => [][phase = "optimize" /\ phase' = "prepare" /\ Uncut(cache) =>
                    InOnePiece(cache')]_vars
<1>1. ASSUME Inv, Optimize, phase' = "prepare", Uncut(cache)
      PROVE  InOnePiece(cache')
  <2>1. cache' = Defragged(cache, DefragPlan(cache))
    BY <1>1 DEF Optimize, Return
  <2>2. InOnePiece(Defragged(cache, DefragPlan(cache)))
    BY <1>1, DefragPacks DEF Inv
  <2>3. PICK d : d = cache'
    OBVIOUS
  <2>4. InOnePiece(d)
    BY <2>1, <2>2, <2>3
  <2> QED
    BY <2>3, <2>4 DEF InOnePiece
<1>2. Inv /\ [Next]_vars =>
        [phase = "optimize" /\ phase' = "prepare" /\ Uncut(cache) =>
            InOnePiece(cache')]_vars
  <2> SUFFICES ASSUME Inv, Next, phase = "optimize", phase' = "prepare", Uncut(cache)
               PROVE  InOnePiece(cache')
    OBVIOUS
  <2>1. Optimize
    BY DEF Next, DecodeStep, AppStep, LibraryStep, Prepare, Apply, Compute, ComputeFails,
       PromptDone, Generate, StepDone, Reset, Classify, LibraryDecode, LibraryRm, LibraryCp,
       LibraryKeep, LibraryClear, LibraryIdle, Edits, Inv, Typed, AppPlace
  <2> QED
    BY <1>1, <2>1
<1> QED
  BY <1>2, Invariance, PTL DEF Spec
===================================================================================
