------------------------------ MODULE KvCache_proofs ------------------------------
(***************************************************************************)
(* What the operations on the cells of the KV cache do, for every number   *)
(* of cells and sequences: the indexes kept beside the cells go on saying  *)
(* what the cells say, the search returns a free run, placing micro-       *)
(* batches can be undone, and a defragmentation moves cells only into      *)
(* holes.  The recursive functions of KvCache are reasoned about with a    *)
(* least counterexample.                                                   *)
(***************************************************************************)
EXTENDS KvCache, FiniteSetTheorems, WellFoundedInduction, TLAPS

(***************************************************************************)
(* Induction and recursion over 0 .. n.                                    *)
(***************************************************************************)

\* A set that contains 0 and goes on up to n contains 0 .. n.
LEMMA CountUp ==
    ASSUME NEW n \in Nat, NEW T, 0 \in T, \A k \in 0 .. n - 1 : k \in T => k + 1 \in T
    PROVE  0 .. n \subseteq T
<1> DEFINE Missing == {k \in 0 .. n : k \notin T}
<1>1. SUFFICES ASSUME Missing # {} PROVE FALSE
  OBVIOUS
<1>2. Missing \subseteq Nat
  OBVIOUS
<1>3. PICK k \in Missing : \A j \in Missing : ~(<<j, k>> \in OpToRel(<, Nat))
  <2> HIDE DEF Missing
  <2> QED
    BY <1>1, <1>2, NatLessThanWellFounded, WFMin
<1>4. k \in 0 .. n /\ k \notin T /\ k # 0
  BY <1>3
<1>5. k - 1 \in 0 .. n - 1 /\ k - 1 \in Nat /\ k - 1 < k
  BY <1>4
<1>6. k - 1 \notin Missing
  <2>1. <<k - 1, k>> \in OpToRel(<, Nat)
    <3>1. k \in Nat
      BY <1>4
    <3> QED
      BY <1>5, <3>1 DEF OpToRel
  <2> HIDE DEF Missing
  <2> QED
    BY <1>3, <2>1
<1> QED
  BY <1>4, <1>5, <1>6

\* The function that starts at base and goes from its value at k - 1 to its
\* value at k by step[k].
Solves(f, n, base, step) ==
    f = [k \in 0 .. n |-> IF k = 0 THEN base ELSE step[k][f[k - 1]]]

\* There is one, when S[k] bounds its values at k.
LEMMA Recursion ==
    ASSUME NEW n \in Nat, NEW S, NEW base \in S[0], NEW step,
           \A k \in 1 .. n : \A x \in S[k - 1] : step[k][x] \in S[k]
    PROVE  \E f : Solves(f, n, base, step) /\ \A k \in 0 .. n : f[k] \in S[k]
<1> DEFINE Upto(m, f) ==
        /\ f = [k \in 0 .. m |-> IF k = 0 THEN base ELSE step[k][f[k - 1]]]
        /\ \A k \in 0 .. m : f[k] \in S[k]
    T == {m \in 0 .. n : \E f : Upto(m, f)}
<1>1. 0 \in T
  <2> DEFINE f == [k \in 0 .. 0 |-> base]
  <2>1. f = [k \in 0 .. 0 |-> IF k = 0 THEN base ELSE step[k][f[k - 1]]]
    <3>1. \A k \in 0 .. 0 : k = 0
      OBVIOUS
    <3> QED
      BY <3>1
  <2>2. \A k \in 0 .. 0 : f[k] \in S[k]
    OBVIOUS
  <2>3. Upto(0, f)
    <3> HIDE DEF f
    <3> QED
      BY <2>1, <2>2
  <2> QED
    <3> HIDE DEF f, Upto
    <3> QED
      BY <2>3
<1>2. ASSUME NEW m \in 0 .. n - 1, m \in T PROVE m + 1 \in T
  <2>1. PICK f : Upto(m, f)
    BY <1>2
  <2> DEFINE g == [k \in 0 .. m + 1 |-> IF k = m + 1 THEN step[k][f[m]] ELSE f[k]]
  <2>2. \A k \in 0 .. m : g[k] = f[k]
    OBVIOUS
  <2>3. g[m + 1] = step[m + 1][g[m]]
    BY <2>2
  <2>4. ASSUME NEW k \in 0 .. m + 1
        PROVE  /\ g[k] = IF k = 0 THEN base ELSE step[k][g[k - 1]]
               /\ g[k] \in S[k]
    <3>1. CASE k = m + 1
      <4>1. f[m] \in S[m] /\ m + 1 \in 1 .. n /\ m = (m + 1) - 1
        BY <2>1
      <4> HIDE DEF g
      <4> QED
        BY <2>2, <2>3, <3>1, <4>1
    <3>2. CASE k \in 1 .. m
      <4>1. f[k] = step[k][f[k - 1]] /\ f[k] \in S[k]
        BY <2>1, <3>2
      <4>2. k - 1 \in 0 .. m /\ k \in 0 .. m
        BY <3>2
      <4> HIDE DEF g
      <4> QED
        BY <2>2, <3>2, <4>1, <4>2
    <3>3. CASE k = 0
      <4>1. f[0] = base /\ f[0] \in S[0] /\ 0 \in 0 .. m
        BY <2>1
      <4> HIDE DEF g
      <4> QED
        BY <2>2, <3>3, <4>1
    <3> QED
      BY <3>1, <3>2, <3>3
  <2>5. g = [k \in 0 .. m + 1 |-> g[k]]
    OBVIOUS
  <2>6. Upto(m + 1, g)
    <3> HIDE DEF g
    <3> QED
      BY <2>4, <2>5
  <2> QED
    <3> HIDE DEF g, Upto
    <3> QED
      BY <2>6
<1>3. n \in T
  <2> HIDE DEF T
  <2> QED
    BY <1>1, <1>2, CountUp
<1> QED
  BY <1>3 DEF Solves

(***************************************************************************)
(* The indexes.  A cache is Sound when its cells are well-formed, a        *)
(* sequence has one cell at most for a position, and used and seq_pos say  *)
(* what the cells say.                                                     *)
(***************************************************************************)

Holds(c, i, s, p) == s \in c.members[i] /\ c.pos[i] = p

Single(c) ==
    \A s \in Seqs, p \in Positions : \A i, j \in Cells :
        Holds(c, i, s, p) /\ Holds(c, j, s, p) => i = j

Counted(c) ==
    \A s \in Seqs, p \in Positions :
        c.seq_pos[<<s, p>>] = IF \E i \in Cells : Holds(c, i, s, p) THEN 1 ELSE 0

Sound(c) ==
    /\ c \in CacheType
    /\ c.used = {i \in Cells : c.pos[i] # NoPos}
    /\ \A i \in Cells : c.pos[i] = NoPos <=> c.members[i] = {}
    /\ Single(c)
    /\ Counted(c)

\* Sets of cells are finite.
LEMMA CellsFinite ==
    /\ IsFiniteSet(Cells) /\ Cardinality(Cells) = NCells
    /\ \A I \in SUBSET Cells : IsFiniteSet(I) /\ Cardinality(I) \in 0 .. NCells
<1>1. NCells \in Nat /\ 0 \in Int /\ NCells - 1 \in Int
  BY SizesAssumption
<1>2. IsFiniteSet(Cells) /\ Cardinality(Cells) = NCells
  BY <1>1, SizesAssumption, FS_Interval DEF Cells
<1>3. ASSUME NEW I \in SUBSET Cells PROVE IsFiniteSet(I) /\ Cardinality(I) \in 0 .. NCells
  <2>1. IsFiniteSet(I) /\ Cardinality(I) <= NCells
    BY <1>2, FS_Subset
  <2>2. Cardinality(I) \in Nat
    BY <2>1, FS_CardinalityType
  <2> QED
    BY <1>1, <2>1, <2>2
<1> QED
  BY <1>2, <1>3

\* A finite set has one element at most when any two of its elements are the same.
LEMMA AtMostOne ==
    ASSUME NEW S
    PROVE  /\ (\A x, y \in S : x = y) =>
                  IsFiniteSet(S) /\ Cardinality(S) = IF S = {} THEN 0 ELSE 1
           /\ IsFiniteSet(S) /\ Cardinality(S) <= 1 => \A x, y \in S : x = y
<1>1. ASSUME \A x, y \in S : x = y
      PROVE  IsFiniteSet(S) /\ Cardinality(S) = IF S = {} THEN 0 ELSE 1
  <2>1. CASE S = {}
    BY <2>1, FS_EmptySet
  <2>2. CASE S # {}
    <3>1. PICK x \in S : S = {x}
      BY <1>1, <2>2
    <3> QED
      BY <2>2, <3>1, FS_Singleton
  <2> QED
    BY <2>1, <2>2
<1>2. ASSUME IsFiniteSet(S), Cardinality(S) <= 1 PROVE \A x, y \in S : x = y
  <2>1. Cardinality(S) \in Nat
    BY <1>2, FS_CardinalityType
  <2>2. CASE Cardinality(S) = 0
    BY <1>2, <2>2, FS_EmptySet
  <2>3. CASE Cardinality(S) = 1
    BY <1>2, <2>3, FS_Singleton
  <2> QED
    BY <1>2, <2>1, <2>2, <2>3
<1> QED
  BY <1>1, <1>2

\* What the counts of a sound cache's sequences are changed by is 0 or 1.
LEMMA HeldIs ==
    ASSUME NEW c, Single(c), NEW I \in SUBSET Cells, NEW s \in Seqs, NEW p \in Positions
    PROVE  Held(c, I, s, p) = IF \E i \in I : Holds(c, i, s, p) THEN 1 ELSE 0
<1> DEFINE H == {i \in I : s \in c.members[i] /\ c.pos[i] = p}
<1>1. \A x, y \in H : x = y
  BY DEF Single, Holds
<1>2. H = {} <=> ~\E i \in I : Holds(c, i, s, p)
  BY DEF Holds
<1>3. Cardinality(H) = IF H = {} THEN 0 ELSE 1
  <2> HIDE DEF H
  <2> QED
    BY <1>1, AtMostOne
<1> QED
  BY <1>2, <1>3 DEF Held

Agree(c) ==
    /\ c.used = {i \in Cells : c.pos[i] # NoPos}
    /\ \A i \in Cells : c.pos[i] = NoPos <=> c.members[i] = {}
    /\ \A s \in Seqs, p \in Positions :
        LET holding == {i \in Cells : s \in c.members[i] /\ c.pos[i] = p}
        IN  c.seq_pos[s, p] = Cardinality(holding) /\ Cardinality(holding) <= 1

\* The indexes agree with the cells, counted, exactly when the cache is sound.
LEMMA SoundIsAgree == \A c \in CacheType : Sound(c) <=> Agree(c)
<1> SUFFICES ASSUME NEW c \in CacheType PROVE Sound(c) <=> Agree(c)
  OBVIOUS
<1> DEFINE H(s, p) == {i \in Cells : s \in c.members[i] /\ c.pos[i] = p}
<1>1. ASSUME NEW s \in Seqs, NEW p \in Positions
      PROVE  /\ IsFiniteSet(H(s, p))
             /\ H(s, p) = {} <=> ~\E i \in Cells : Holds(c, i, s, p)
             /\ \A i, j \in Cells : Holds(c, i, s, p) /\ Holds(c, j, s, p)
                                        <=> i \in H(s, p) /\ j \in H(s, p)
  <2>1. H(s, p) \in SUBSET Cells
    OBVIOUS
  <2> QED
    BY <2>1, CellsFinite DEF Holds
<1>2. ASSUME Sound(c), NEW s \in Seqs, NEW p \in Positions
      PROVE  c.seq_pos[<<s, p>>] = Cardinality(H(s, p)) /\ Cardinality(H(s, p)) <= 1
  <2>1. \A x, y \in H(s, p) : x = y
    BY <1>1, <1>2 DEF Sound, Single
  <2>2. Cardinality(H(s, p)) = IF H(s, p) = {} THEN 0 ELSE 1
    <3> HIDE DEF H
    <3> QED
      BY <2>1, AtMostOne
  <2> HIDE DEF H
  <2> QED
    BY <1>1, <1>2, <2>2 DEF Sound, Counted
<1>3. ASSUME Agree(c), NEW s \in Seqs, NEW p \in Positions
      PROVE  /\ \A i, j \in Cells : Holds(c, i, s, p) /\ Holds(c, j, s, p) => i = j
             /\ c.seq_pos[<<s, p>>] = IF \E i \in Cells : Holds(c, i, s, p) THEN 1 ELSE 0
  <2>1. c.seq_pos[<<s, p>>] = Cardinality(H(s, p)) /\ Cardinality(H(s, p)) <= 1
    BY <1>3 DEF Agree
  <2>2. \A x, y \in H(s, p) : x = y
    <3> HIDE DEF H
    <3> QED
      BY <1>1, <2>1, AtMostOne
  <2>3. Cardinality(H(s, p)) = IF H(s, p) = {} THEN 0 ELSE 1
    <3> HIDE DEF H
    <3> QED
      BY <2>2, AtMostOne
  <2>4. \A i, j \in Cells : i \in H(s, p) /\ j \in H(s, p) => i = j
    BY <2>2
  <2> HIDE DEF H
  <2> QED
    BY <1>1, <2>1, <2>3, <2>4
<1>4. Sound(c) => Agree(c)
  BY <1>2 DEF Sound, Agree
<1>5. Agree(c) => Sound(c)
  BY <1>3 DEF Sound, Agree, Single, Counted
<1> QED
  BY <1>4, <1>5

\* MinOf and MaxOf are what they say on sets of natural numbers.
LEMMA MinIs ==
    ASSUME NEW S \in SUBSET Nat, S # {}
    PROVE  MinOf(S) \in S /\ \A y \in S : MinOf(S) <= y
<1>1. PICK x \in S : \A y \in S : ~(<<y, x>> \in OpToRel(<, Nat))
  BY NatLessThanWellFounded, WFMin
<1>2. \A y \in S : x <= y
  <2> SUFFICES ASSUME NEW y \in S PROVE x <= y
    OBVIOUS
  <2>1. x \in Nat /\ y \in Nat
    OBVIOUS
  <2>2. y < x => <<y, x>> \in OpToRel(<, Nat)
    BY <2>1 DEF OpToRel
  <2>3. <<y, x>> \notin OpToRel(<, Nat)
    BY <1>1
  <2>4. ~(y < x)
    BY <2>2, <2>3
  <2> QED
    BY <2>1, <2>4
<1> QED
  BY <1>1, <1>2 DEF MinOf

\* The greatest element of a set of cells or positions.
LEMMA MaxIs ==
    ASSUME NEW n \in Nat, NEW S \in SUBSET (0 .. n), S # {}
    PROVE  MaxOf(S) \in S /\ \A y \in S : y <= MaxOf(S)
<1> DEFINE M == {n - x : x \in S}
<1>1. M \in SUBSET Nat /\ M # {}
  <2>1. \A x \in S : n - x \in Nat
    OBVIOUS
  <2> QED
    BY <2>1
<1>2. MinOf(M) \in M /\ \A y \in M : MinOf(M) <= y
  BY <1>1, MinIs
<1>3. PICK x \in S : MinOf(M) = n - x
  BY <1>2
<1>4. \A y \in S : y <= x
  <2> SUFFICES ASSUME NEW y \in S PROVE y <= x
    OBVIOUS
  <2>1. n - x <= n - y
    BY <1>2, <1>3
  <2> QED
    BY <2>1
<1> QED
  BY <1>4 DEF MaxOf

(***************************************************************************)
(* Edits.                                                                  *)
(***************************************************************************)

\* The head stays in range when cells are freed.
LEMMA HeadInRange ==
    ASSUME NEW c, c.head \in 0 .. NCells, NEW freed \in SUBSET Cells
    PROVE  HeadAfterFreeing(c, freed) \in 0 .. NCells
<1>1. freed \in SUBSET Nat /\ NCells \in Nat
  BY SizesAssumption DEF Cells
<1>2. CASE freed = {}
  BY <1>2 DEF HeadAfterFreeing
<1>3. CASE freed # {}
  <2>1. MinOf(freed) \in freed
    BY <1>1, <1>3, MinIs
  <2>2. MinOf(freed) \in Cells
    BY <2>1
  <2>3. MinOf(freed) \in 0 .. NCells
    <3> HIDE DEF MinOf
    <3> QED
      BY <1>1, <2>2 DEF Cells
  <2> QED
    BY <2>3 DEF HeadAfterFreeing
<1> QED
  BY <1>2, <1>3

\* The fields of a cache.
LEMMA CacheFields ==
    ASSUME NEW c
    PROVE  c \in CacheType =>
             /\ c.pos \in [Cells -> Positions \cup {NoPos}]
             /\ c.members \in [Cells -> SUBSET Seqs]
             /\ c.used \in SUBSET Cells
             /\ c.seq_pos \in [Seqs \X Positions -> Nat]
             /\ c.head \in 0 .. NCells
BY DEF CacheType

\* No position is NoPos.
LEMMA PositionsAreNat == Positions \subseteq Nat /\ NoPos \notin Positions /\ NoPos \in Int
<1>1. NCells - 2 \in Int
  BY SizesAssumption
<1> QED
  BY <1>1 DEF Positions, NoPos

\* clear
LEMMA EmptyIsSound == Sound(EmptyCache)
<1> DEFINE c == EmptyCache
<1>1. /\ \A i \in Cells : c.pos[i] = NoPos /\ c.members[i] = {}
      /\ c.used = {} /\ c.head = 0
      /\ \A s \in Seqs, p \in Positions : c.seq_pos[<<s, p>>] = 0
  BY DEF EmptyCache
<1>2. c \in CacheType
  <2>1. 0 \in 0 .. NCells
    BY SizesAssumption
  <2> QED
    BY <2>1 DEF EmptyCache, CacheType
<1>3. Single(c) /\ Counted(c)
  <2> HIDE DEF c
  <2> QED
    BY <1>1 DEF Single, Counted, Holds
<1> QED
  BY <1>1, <1>2, <1>3 DEF Sound

RmHit(c, s, p0, p1) == {i \in Cells : InRange(c, i, p0, p1) /\ s \in c.members[i]}
RmFreed(c, s, p0, p1) == {i \in RmHit(c, s, p0, p1) : c.members[i] = {s}}

\* What is left of the cells and the indexes when s leaves the cells hit.
Left(c, s, hit, freed, d) ==
    /\ d \in CacheType
    /\ \A i \in Cells :
        /\ d.pos[i] = IF i \in freed THEN NoPos ELSE c.pos[i]
        /\ d.members[i] = IF i \in hit THEN c.members[i] \ {s} ELSE c.members[i]
    /\ d.used = c.used \ freed
    /\ \A t \in Seqs, p \in Positions :
        d.seq_pos[<<t, p>>] = IF t = s /\ \E i \in hit : Holds(c, i, s, p)
                              THEN 0 ELSE c.seq_pos[<<t, p>>]
    /\ d.head = HeadAfterFreeing(c, freed)
    /\ \A i \in hit : i \in Cells /\ s \in c.members[i]
    /\ \A i \in freed : i \in hit /\ c.members[i] = {s}
    /\ \A i \in hit : i \notin freed => \E t \in c.members[i] : t # s

\* SeqRm makes s leave the cells of the range.
LEMMA SeqRmFields ==
    ASSUME NEW c, Sound(c), NEW s \in Seqs, NEW p0 \in Int, NEW p1 \in Int
    PROVE  Left(c, s, RmHit(c, s, p0, p1), RmFreed(c, s, p0, p1), SeqRm(c, s, p0, p1))
<1> DEFINE hit == RmHit(c, s, p0, p1)
           freed == RmFreed(c, s, p0, p1)
           d == SeqRm(c, s, p0, p1)
<1>0. /\ \A i \in hit : i \in Cells /\ s \in c.members[i]
      /\ \A i \in freed : i \in hit /\ c.members[i] = {s}
      /\ \A i \in hit : i \notin freed => \E t \in c.members[i] : t # s
  BY DEF RmHit, RmFreed
<1> HIDE DEF hit, freed, d
<1> DEFINE pos == [i \in Cells |-> IF i \in freed THEN NoPos ELSE c.pos[i]]
           members == [i \in Cells |-> IF i \in hit THEN c.members[i] \ {s} ELSE c.members[i]]
           seq_pos == [sp \in Seqs \X Positions |->
                        c.seq_pos[sp] - IF sp[1] = s THEN Held(c, hit, s, sp[2]) ELSE 0]
           head == HeadAfterFreeing(c, freed)
           used == c.used \ freed
<1>1. c \in CacheType /\ Single(c) /\ Counted(c)
  BY DEF Sound
<1>2. hit \in SUBSET Cells /\ freed \in SUBSET Cells
  BY <1>0
<1>3. d = [c EXCEPT !.pos = pos, !.members = members, !.used = used,
                    !.seq_pos = seq_pos, !.head = head]
  BY DEF SeqRm, RmHit, RmFreed, hit, freed, d
<1>4. ASSUME NEW t \in Seqs, NEW p \in Positions
      PROVE  /\ seq_pos[<<t, p>>] = IF t = s /\ \E i \in hit : Holds(c, i, s, p)
                                    THEN 0 ELSE c.seq_pos[<<t, p>>]
             /\ seq_pos[<<t, p>>] \in Nat
  <2>1. seq_pos[<<t, p>>] = c.seq_pos[<<t, p>>] - IF t = s THEN Held(c, hit, s, p) ELSE 0
    OBVIOUS
  <2>2. Held(c, hit, s, p) = IF \E i \in hit : Holds(c, i, s, p) THEN 1 ELSE 0
    BY <1>1, <1>2, HeldIs
  <2>3. c.seq_pos[<<t, p>>] = IF \E i \in Cells : Holds(c, i, t, p) THEN 1 ELSE 0
    BY <1>1 DEF Counted
  <2> HIDE DEF seq_pos
  <2> QED
    BY <1>2, <2>1, <2>2, <2>3
<1>5. seq_pos \in [Seqs \X Positions -> Nat]
  <2>1. seq_pos = [sp \in Seqs \X Positions |-> seq_pos[sp]]
    OBVIOUS
  <2>2. ASSUME NEW sp \in Seqs \X Positions PROVE seq_pos[sp] \in Nat
    <3>1. sp = <<sp[1], sp[2]>> /\ sp[1] \in Seqs /\ sp[2] \in Positions
      OBVIOUS
    <3> HIDE DEF seq_pos
    <3> QED
      BY <1>4, <3>1
  <2> HIDE DEF seq_pos
  <2> QED
    BY <2>1, <2>2
<1>6. head \in 0 .. NCells
  BY <1>1, <1>2, CacheFields, HeadInRange
<1>7. pos \in [Cells -> Positions \cup {NoPos}] /\ members \in [Cells -> SUBSET Seqs]
      /\ used \in SUBSET Cells
  BY <1>1, CacheFields
<1>8. /\ d.pos = pos /\ d.members = members /\ d.used = used
      /\ d.seq_pos = seq_pos /\ d.head = head
      /\ d \in CacheType
  <2> HIDE DEF pos, members, seq_pos, head, used
  <2> QED
    BY <1>1, <1>3, <1>5, <1>6, <1>7 DEF CacheType
<1>9. ASSUME NEW i \in Cells
      PROVE  /\ pos[i] = IF i \in freed THEN NoPos ELSE c.pos[i]
             /\ members[i] = IF i \in hit THEN c.members[i] \ {s} ELSE c.members[i]
  BY <1>9
<1>10. /\ \A i \in Cells :
            /\ d.pos[i] = IF i \in freed THEN NoPos ELSE c.pos[i]
            /\ d.members[i] = IF i \in hit THEN c.members[i] \ {s} ELSE c.members[i]
       /\ \A t \in Seqs, p \in Positions :
            d.seq_pos[<<t, p>>] = IF t = s /\ \E i \in hit : Holds(c, i, s, p)
                                  THEN 0 ELSE c.seq_pos[<<t, p>>]
  <2> HIDE DEF pos, members, seq_pos
  <2> QED
    BY <1>4, <1>8, <1>9
<1>11. Left(c, s, hit, freed, d)
  <2> HIDE DEF pos, members, seq_pos
  <2> QED
    BY <1>0, <1>8, <1>10 DEF Left
<1> QED
  BY <1>11 DEF hit, freed, d

\* seq_rm keeps the indexes in agreement with the cells.
LEMMA SeqRmSound ==
    ASSUME NEW c, Sound(c), NEW s \in Seqs, NEW p0 \in Int, NEW p1 \in Int
    PROVE  Sound(SeqRm(c, s, p0, p1))
<1> DEFINE d == SeqRm(c, s, p0, p1)
           hit == RmHit(c, s, p0, p1)
           freed == RmFreed(c, s, p0, p1)
<1> HIDE DEF d, hit, freed
<1>1. Left(c, s, hit, freed, d)
  BY SeqRmFields DEF d, hit, freed
<1> USE DEF Left
<1>2. ASSUME NEW i \in Cells
      PROVE  /\ d.members[i] = {} <=> i \in freed \/ c.members[i] = {}
             /\ \A t : t \in d.members[i] <=> t \in c.members[i] /\ ~(t = s /\ i \in hit)
  <2>1. d.members[i] = IF i \in hit THEN c.members[i] \ {s} ELSE c.members[i]
    BY <1>1
  <2>2. CASE i \in freed
    BY <1>1, <2>1, <2>2
  <2>3. CASE i \notin freed
    BY <1>1, <2>1, <2>3
  <2> QED
    BY <2>2, <2>3
<1>5. \A i \in Cells : d.pos[i] = NoPos <=> d.members[i] = {}
  BY <1>1, <1>2 DEF Sound
<1>6. d.used = {i \in Cells : d.pos[i] # NoPos}
  <2>1. d.used = c.used \ freed
    BY <1>1
  <2>2. \A i \in Cells : d.pos[i] # NoPos <=> c.pos[i] # NoPos /\ i \notin freed
    BY <1>1
  <2>3. c.used = {i \in Cells : c.pos[i] # NoPos}
    BY DEF Sound
  <2> QED
    BY <2>1, <2>2, <2>3
<1>7. ASSUME NEW t \in Seqs, NEW p \in Positions, NEW i \in Cells
      PROVE  Holds(d, i, t, p) <=> Holds(c, i, t, p) /\ ~(t = s /\ i \in hit)
  <2>1. p # NoPos
    BY PositionsAreNat
  <2>2. CASE i \in freed
    <3>1. d.pos[i] # p /\ i \in hit /\ c.members[i] = {s}
      BY <1>1, <2>1, <2>2
    <3> QED
      BY <3>1 DEF Holds
  <2>3. CASE i \notin freed
    <3>1. d.pos[i] = c.pos[i]
      BY <1>1, <2>3
    <3> QED
      BY <1>2, <3>1 DEF Holds
  <2> QED
    BY <2>2, <2>3
<1>8. Single(d)
  BY <1>7 DEF Sound, Single
<1>9. Counted(d)
  <2> SUFFICES ASSUME NEW t \in Seqs, NEW p \in Positions
               PROVE  d.seq_pos[<<t, p>>] =
                        IF \E i \in Cells : Holds(d, i, t, p) THEN 1 ELSE 0
    BY DEF Counted
  <2>1. c.seq_pos[<<t, p>>] = IF \E i \in Cells : Holds(c, i, t, p) THEN 1 ELSE 0
    BY DEF Sound, Counted
  <2>2. \A i, j \in Cells : Holds(c, i, t, p) /\ Holds(c, j, t, p) => i = j
    BY DEF Sound, Single
  <2> QED
    BY <1>1, <1>7, <2>1, <2>2
<1> QED
  BY <1>1, <1>5, <1>6, <1>8, <1>9 DEF Sound, d

\* A sequence without occurrences is in no cell.
LEMMA NoOccurrences ==
    ASSUME NEW c, Sound(c), NEW s \in Seqs
    PROVE  /\ Occurrences(c, s) = {p \in Positions : \E i \in Cells : Holds(c, i, s, p)}
           /\ Occurrences(c, s) = {} => \A i \in Cells : s \notin c.members[i]
<1>1. \A p \in Positions : c.seq_pos[<<s, p>>] = IF \E i \in Cells : Holds(c, i, s, p) THEN 1 ELSE 0
  BY DEF Sound, Counted
<1>2. Occurrences(c, s) = {p \in Positions : \E i \in Cells : Holds(c, i, s, p)}
  <2>1. ASSUME NEW p \in Positions
        PROVE  c.seq_pos[<<s, p>>] > 0 <=> \E i \in Cells : Holds(c, i, s, p)
    BY <1>1
  <2> QED
    BY <2>1 DEF Occurrences
<1>3. ASSUME NEW i \in Cells, s \in c.members[i] PROVE Occurrences(c, s) # {}
  <2>1. c.pos[i] \in Positions
    BY <1>3, CacheFields DEF Sound
  <2>2. Holds(c, i, s, c.pos[i])
    BY <1>3 DEF Holds
  <2> QED
    BY <1>2, <2>1, <2>2
<1> QED
  BY <1>2, <1>3

\* seq_cp into a sequence without occurrences, as the note of seq_add asks, keeps
\* the indexes in agreement with the cells.
LEMMA SeqCpSound ==
    ASSUME NEW c, Sound(c), NEW src \in Seqs, NEW dst \in Seqs, Occurrences(c, dst) = {},
           NEW p0 \in Int, NEW p1 \in Int
    PROVE  Sound(SeqCp(c, src, dst, p0, p1))
<1> DEFINE hit == RmHit(c, src, p0, p1)
           d == SeqCp(c, src, dst, p0, p1)
           members == [i \in Cells |-> IF i \in hit THEN c.members[i] \cup {dst} ELSE c.members[i]]
           seq_pos == [sp \in Seqs \X Positions |->
                        c.seq_pos[sp] + IF sp[1] = dst THEN Held(c, hit, src, sp[2]) ELSE 0]
<1>1. CASE src = dst
  BY <1>1 DEF SeqCp
<1>2. CASE src # dst
  <2>1. c \in CacheType /\ Single(c) /\ Counted(c)
    BY DEF Sound
  <2>2. hit \in SUBSET Cells /\ \A i \in hit : src \in c.members[i]
    BY DEF RmHit
  <2> HIDE DEF hit
  <2>3. \A i \in Cells : dst \notin c.members[i]
    BY NoOccurrences
  <2>4. d = [c EXCEPT !.members = members, !.seq_pos = seq_pos]
    BY <1>2 DEF SeqCp, RmHit, hit
  <2>5. ASSUME NEW t \in Seqs, NEW p \in Positions
        PROVE  /\ seq_pos[<<t, p>>] = IF t = dst
                                      THEN IF \E i \in hit : Holds(c, i, src, p) THEN 1 ELSE 0
                                      ELSE c.seq_pos[<<t, p>>]
               /\ seq_pos[<<t, p>>] \in Nat
    <3>1. seq_pos[<<t, p>>] = c.seq_pos[<<t, p>>] + IF t = dst THEN Held(c, hit, src, p) ELSE 0
      OBVIOUS
    <3>2. Held(c, hit, src, p) = IF \E i \in hit : Holds(c, i, src, p) THEN 1 ELSE 0
      BY <2>1, <2>2, HeldIs
    <3>3. c.seq_pos[<<t, p>>] = IF \E i \in Cells : Holds(c, i, t, p) THEN 1 ELSE 0
      BY <2>1 DEF Counted
    <3>4. t = dst => ~\E i \in Cells : Holds(c, i, t, p)
      BY <2>3 DEF Holds
    <3> HIDE DEF seq_pos
    <3> QED
      BY <3>1, <3>2, <3>3, <3>4
  <2>6. seq_pos \in [Seqs \X Positions -> Nat]
    <3>1. seq_pos = [sp \in Seqs \X Positions |-> seq_pos[sp]]
      OBVIOUS
    <3>2. ASSUME NEW sp \in Seqs \X Positions PROVE seq_pos[sp] \in Nat
      <4>1. sp = <<sp[1], sp[2]>> /\ sp[1] \in Seqs /\ sp[2] \in Positions
        OBVIOUS
      <4> HIDE DEF seq_pos
      <4> QED
        BY <2>5, <4>1
    <3> HIDE DEF seq_pos
    <3> QED
      BY <3>1, <3>2
  <2>7. members \in [Cells -> SUBSET Seqs]
    BY <2>1, CacheFields
  <2>8. ASSUME NEW i \in Cells
        PROVE  /\ members[i] = {} <=> c.members[i] = {}
               /\ \A t : t \in members[i] <=> t \in c.members[i] \/ (t = dst /\ i \in hit)
    BY <2>2
  <2> HIDE DEF members, seq_pos, d
  <2>9. /\ d.pos = c.pos /\ d.members = members /\ d.used = c.used
        /\ d.seq_pos = seq_pos /\ d.head = c.head /\ d \in CacheType
    BY <2>1, <2>4, <2>6, <2>7 DEF CacheType
  <2>10. \A t \in Seqs, p \in Positions, i \in Cells :
            Holds(d, i, t, p) <=> IF t = dst THEN i \in hit /\ Holds(c, i, src, p)
                                             ELSE Holds(c, i, t, p)
    BY <2>2, <2>3, <2>8, <2>9 DEF Holds
  <2>11. Single(d)
    BY <2>1, <2>10 DEF Single
  <2>12. Counted(d)
    <3> SUFFICES ASSUME NEW t \in Seqs, NEW p \in Positions
                 PROVE  d.seq_pos[<<t, p>>] =
                            IF \E i \in Cells : Holds(d, i, t, p) THEN 1 ELSE 0
      BY DEF Counted
    <3>1. c.seq_pos[<<t, p>>] = IF \E i \in Cells : Holds(c, i, t, p) THEN 1 ELSE 0
      BY <2>1 DEF Counted
    <3> QED
      BY <2>2, <2>5, <2>9, <2>10, <3>1
  <2>13. Sound(d)
    BY <2>8, <2>9, <2>11, <2>12 DEF Sound
  <2> QED
    BY <2>13 DEF d
<1> QED
  BY <1>1, <1>2

\* seq_keep keeps the indexes in agreement with the cells.
LEMMA SeqKeepSound ==
    ASSUME NEW c, Sound(c), NEW s \in Seqs
    PROVE  Sound(SeqKeep(c, s))
<1> DEFINE freed == {i \in Cells : c.members[i] # {} /\ s \notin c.members[i]}
           d == SeqKeep(c, s)
           pos == [i \in Cells |-> IF i \in freed THEN NoPos ELSE c.pos[i]]
           members == [i \in Cells |-> c.members[i] \cap {s}]
           seq_pos == [sp \in Seqs \X Positions |->
                        IF sp[1] = s THEN c.seq_pos[sp]
                        ELSE c.seq_pos[sp] - Held(c, Cells, sp[1], sp[2])]
           used == c.used \ freed
           head == HeadAfterFreeing(c, freed)
<1>1. c \in CacheType /\ Single(c) /\ Counted(c)
  BY DEF Sound
<1>2. /\ freed \in SUBSET Cells
      /\ \A i \in Cells : i \in freed <=> c.members[i] # {} /\ s \notin c.members[i]
  OBVIOUS
<1>3. d = [c EXCEPT !.pos = pos, !.members = members, !.used = used,
                    !.seq_pos = seq_pos, !.head = head]
  BY DEF SeqKeep
<1> HIDE DEF freed, d
<1>4. ASSUME NEW t \in Seqs, NEW p \in Positions
      PROVE  /\ seq_pos[<<t, p>>] = IF t = s THEN c.seq_pos[<<t, p>>] ELSE 0
             /\ seq_pos[<<t, p>>] \in Nat
  <2>1. seq_pos[<<t, p>>] = IF t = s THEN c.seq_pos[<<t, p>>]
                            ELSE c.seq_pos[<<t, p>>] - Held(c, Cells, t, p)
    OBVIOUS
  <2>2. Held(c, Cells, t, p) = IF \E i \in Cells : Holds(c, i, t, p) THEN 1 ELSE 0
    BY <1>1, HeldIs
  <2>3. c.seq_pos[<<t, p>>] = IF \E i \in Cells : Holds(c, i, t, p) THEN 1 ELSE 0
    BY <1>1 DEF Counted
  <2> HIDE DEF seq_pos
  <2> QED
    BY <2>1, <2>2, <2>3
<1>5. seq_pos \in [Seqs \X Positions -> Nat]
  <2>1. seq_pos = [sp \in Seqs \X Positions |-> seq_pos[sp]]
    OBVIOUS
  <2>2. ASSUME NEW sp \in Seqs \X Positions PROVE seq_pos[sp] \in Nat
    <3>1. sp = <<sp[1], sp[2]>> /\ sp[1] \in Seqs /\ sp[2] \in Positions
      OBVIOUS
    <3> HIDE DEF seq_pos
    <3> QED
      BY <1>4, <3>1
  <2> HIDE DEF seq_pos
  <2> QED
    BY <2>1, <2>2
<1>6. head \in 0 .. NCells
  BY <1>1, <1>2, CacheFields, HeadInRange
<1>7. pos \in [Cells -> Positions \cup {NoPos}] /\ members \in [Cells -> SUBSET Seqs]
      /\ used \in SUBSET Cells
  BY <1>1, CacheFields
<1>8. ASSUME NEW i \in Cells
      PROVE  /\ members[i] = {} <=> i \in freed \/ c.members[i] = {}
             /\ \A t : t \in members[i] <=> t \in c.members[i] /\ t = s
             /\ pos[i] = IF i \in freed THEN NoPos ELSE c.pos[i]
  BY <1>2
<1> HIDE DEF pos, members, seq_pos, head, used
<1>9. /\ d.pos = pos /\ d.members = members /\ d.used = used
       /\ d.seq_pos = seq_pos /\ d.head = head
       /\ d \in CacheType
  BY <1>1, <1>3, <1>5, <1>6, <1>7 DEF CacheType
<1>10. ASSUME NEW t \in Seqs, NEW p \in Positions, NEW i \in Cells
       PROVE  Holds(d, i, t, p) <=> Holds(c, i, t, p) /\ t = s
  <2>1. p # NoPos
    BY PositionsAreNat
  <2> QED
    BY <1>2, <1>8, <1>9, <2>1 DEF Holds
<1>11. Single(d)
  BY <1>1, <1>10 DEF Single
<1>12. Counted(d)
  <2> SUFFICES ASSUME NEW t \in Seqs, NEW p \in Positions
               PROVE  d.seq_pos[<<t, p>>] =
                          IF \E i \in Cells : Holds(d, i, t, p) THEN 1 ELSE 0
    BY DEF Counted
  <2>1. c.seq_pos[<<t, p>>] = IF \E i \in Cells : Holds(c, i, t, p) THEN 1 ELSE 0
    BY <1>1 DEF Counted
  <2> QED
    BY <1>4, <1>9, <1>10, <2>1
<1>13. \A i \in Cells : d.pos[i] = NoPos <=> d.members[i] = {}
  BY <1>8, <1>9 DEF Sound
<1>14. d.used = {i \in Cells : d.pos[i] # NoPos}
  BY <1>8, <1>9 DEF Sound, used
<1> QED
  BY <1>9, <1>11, <1>12, <1>13, <1>14 DEF Sound, d

(***************************************************************************)
(* Micro-batches.                                                          *)
(***************************************************************************)

\* A run of n empty cells from start.
FreeRun(c, start, n) ==
    /\ start \in Nat /\ start + n <= NCells
    /\ \A i \in start .. start + n - 1 : IsEmpty(c, i)

\* Tokens that are different from each other and in no cell yet.
Fresh(c, ubatch) ==
    /\ \A j, k \in DOMAIN ubatch : ubatch[j] = ubatch[k] => j = k
    /\ \A k \in DOMAIN ubatch, i \in Cells : ~Holds(c, i, ubatch[k].owner, ubatch[k].pos)

TokenIn(start, ubatch, i) == ubatch[i - start + 1]

\* What a micro-batch makes of the cells.
Filled(c, start, ubatch, d) ==
    /\ \A i \in Cells :
        IF i \in Slot(start, ubatch)
        THEN /\ d.pos[i] = TokenIn(start, ubatch, i).pos
             /\ d.members[i] = {TokenIn(start, ubatch, i).owner}
        ELSE d.pos[i] = c.pos[i] /\ d.members[i] = c.members[i]
    /\ d.used = c.used \cup Slot(start, ubatch)
    /\ d.head = start + Len(ubatch)
    /\ \A s \in Seqs, p \in Positions :
        d.seq_pos[<<s, p>>] = c.seq_pos[<<s, p>>]
            + IF \E i \in Slot(start, ubatch) : TokenIn(start, ubatch, i) = [owner |-> s, pos |-> p]
              THEN 1 ELSE 0

\* The cells of a slot and the tokens in them.
LEMMA SlotCells ==
    ASSUME NEW ubatch \in Seq(Token), NEW start \in Nat, start + Len(ubatch) <= NCells
    PROVE  /\ Len(ubatch) \in Nat /\ start + Len(ubatch) \in 0 .. NCells
           /\ Slot(start, ubatch) \in SUBSET Cells
           /\ \A i \in Slot(start, ubatch) :
                /\ i - start + 1 \in DOMAIN ubatch
                /\ TokenIn(start, ubatch, i) \in Token
                /\ TokenIn(start, ubatch, i).owner \in Seqs
                /\ TokenIn(start, ubatch, i).pos \in Positions
           /\ \A i, j \in Slot(start, ubatch) : i - start + 1 = j - start + 1 => i = j
           /\ \A i : i \in Slot(start, ubatch) <=> i \in start .. start + Len(ubatch) - 1
<1> DEFINE n == Len(ubatch)
<1>1. n \in Nat /\ DOMAIN ubatch = 1 .. n /\ \A k \in 1 .. n : ubatch[k] \in Token
  OBVIOUS
<1>2. \A t \in Token : t.owner \in Seqs /\ t.pos \in Positions
  BY DEF Token
<1>3. NCells \in Nat
  BY SizesAssumption
<1>4. Slot(start, ubatch) = start .. start + n - 1
  BY DEF Slot
<1> HIDE DEF n
<1>5. \A i \in start .. start + n - 1 : i \in Cells /\ i - start + 1 \in 1 .. n /\ i \in Int
  BY <1>1, <1>3 DEF Cells, n
<1>6. \A i, j \in start .. start + n - 1 : i - start + 1 = j - start + 1 => i = j
  BY <1>5
<1>7. start + n \in 0 .. NCells
  BY <1>1, <1>3 DEF n
<1> QED
  BY <1>1, <1>2, <1>4, <1>5, <1>6, <1>7 DEF TokenIn, n

\* Placing a micro-batch of fresh tokens in a free run fills the run, and keeps
\* the indexes in agreement with the cells.
LEMMA ApplyFills ==
    ASSUME NEW c, Sound(c), NEW ubatch \in Seq(Token), NEW start,
           FreeRun(c, start, Len(ubatch)), Fresh(c, ubatch)
    PROVE  /\ Filled(c, start, ubatch, ApplyUbatch(c, start, ubatch))
           /\ ApplyUbatch(c, start, ubatch) \in CacheType
<1> DEFINE slot == Slot(start, ubatch)
           t(i) == TokenIn(start, ubatch, i)
           d == ApplyUbatch(c, start, ubatch)
           pos == [i \in Cells |-> IF i \in slot THEN t(i).pos ELSE c.pos[i]]
           members == [i \in Cells |-> IF i \in slot THEN {t(i).owner} ELSE c.members[i]]
           at(sp) == {i \in slot : <<t(i).owner, t(i).pos>> = sp}
           seq_pos == [sp \in Seqs \X Positions |-> c.seq_pos[sp] + Cardinality(at(sp))]
           used == c.used \cup slot
           head == start + Len(ubatch)
<1>1. c \in CacheType /\ start \in Nat /\ start + Len(ubatch) <= NCells
  BY DEF Sound, FreeRun
<1>2. /\ head \in 0 .. NCells /\ slot \in SUBSET Cells
      /\ \A i \in slot : /\ i - start + 1 \in DOMAIN ubatch /\ t(i) \in Token
                         /\ t(i).owner \in Seqs /\ t(i).pos \in Positions
      /\ \A i, j \in slot : i - start + 1 = j - start + 1 => i = j
  BY <1>1, SlotCells
<1>3. d = [c EXCEPT !.pos = pos, !.members = members, !.used = used,
                    !.seq_pos = seq_pos, !.head = head]
  BY DEF ApplyUbatch, TokenIn
<1> HIDE DEF slot, d
<1>4. \A i \in slot : t(i) = [owner |-> t(i).owner, pos |-> t(i).pos]
  BY <1>2 DEF Token
<1>5. \A i, j \in slot : t(i) = t(j) => i = j
  BY <1>2 DEF Fresh, TokenIn
<1>6. ASSUME NEW s \in Seqs, NEW p \in Positions
      PROVE  Cardinality(at(<<s, p>>)) =
                IF \E i \in slot : t(i) = [owner |-> s, pos |-> p] THEN 1 ELSE 0
  <2>1. \A i \in slot : i \in at(<<s, p>>) <=> t(i) = [owner |-> s, pos |-> p]
    <3>1. ASSUME NEW i \in slot PROVE <<t(i).owner, t(i).pos>> = <<s, p>> <=>
                                        t(i).owner = s /\ t(i).pos = p
      OBVIOUS
    <3>2. ASSUME NEW i \in slot PROVE t(i) = [owner |-> s, pos |-> p] <=>
                                        t(i).owner = s /\ t(i).pos = p
      BY <1>4
    <3> QED
      BY <3>1, <3>2
  <2>2. \A i, j \in at(<<s, p>>) : i = j
    BY <1>5, <2>1
  <2>3. at(<<s, p>>) = {} <=> ~\E i \in slot : t(i) = [owner |-> s, pos |-> p]
    BY <2>1
  <2>4. Cardinality(at(<<s, p>>)) = IF at(<<s, p>>) = {} THEN 0 ELSE 1
    <3> HIDE DEF at
    <3> QED
      BY <2>2, AtMostOne
  <2> HIDE DEF at, t
  <2> QED
    BY <2>3, <2>4
<1>7. ASSUME NEW s \in Seqs, NEW p \in Positions
      PROVE  /\ seq_pos[<<s, p>>] = c.seq_pos[<<s, p>>]
                    + IF \E i \in slot : t(i) = [owner |-> s, pos |-> p] THEN 1 ELSE 0
             /\ seq_pos[<<s, p>>] \in Nat
  <2>1. seq_pos[<<s, p>>] = c.seq_pos[<<s, p>>] + Cardinality(at(<<s, p>>))
    <3> HIDE DEF at
    <3> QED
      OBVIOUS
  <2>2. c.seq_pos[<<s, p>>] \in Nat
    BY <1>1, CacheFields
  <2> HIDE DEF seq_pos, at, t
  <2> QED
    BY <1>6, <2>1, <2>2
<1>8. seq_pos \in [Seqs \X Positions -> Nat]
  <2>1. seq_pos = [sp \in Seqs \X Positions |-> seq_pos[sp]]
    OBVIOUS
  <2>2. ASSUME NEW sp \in Seqs \X Positions PROVE seq_pos[sp] \in Nat
    <3>1. sp = <<sp[1], sp[2]>> /\ sp[1] \in Seqs /\ sp[2] \in Positions
      OBVIOUS
    <3> HIDE DEF seq_pos
    <3> QED
      BY <1>7, <3>1
  <2> HIDE DEF seq_pos
  <2> QED
    BY <2>1, <2>2
<1>9. pos \in [Cells -> Positions \cup {NoPos}] /\ members \in [Cells -> SUBSET Seqs]
      /\ used \in SUBSET Cells
  <2> HIDE DEF t
  <2>1. \A i \in Cells : c.pos[i] \in Positions \cup {NoPos} /\ c.members[i] \in SUBSET Seqs
    BY <1>1, CacheFields
  <2>2. c.used \in SUBSET Cells
    BY <1>1, CacheFields
  <2> QED
    BY <1>2, <2>1, <2>2 DEF t
<1>10. \A i \in Cells : IF i \in slot THEN pos[i] = t(i).pos /\ members[i] = {t(i).owner}
                                      ELSE pos[i] = c.pos[i] /\ members[i] = c.members[i]
  OBVIOUS
<1> HIDE DEF pos, members, seq_pos, t
<1>11. /\ d.pos = pos /\ d.members = members /\ d.used = used
       /\ d.seq_pos = seq_pos /\ d.head = head
       /\ d \in CacheType
  BY <1>1, <1>2, <1>3, <1>8, <1>9 DEF CacheType
<1>12. Filled(c, start, ubatch, d)
  BY <1>7, <1>10, <1>11 DEF Filled, slot, t
<1> QED
  BY <1>11, <1>12 DEF d

\* Who holds what after a micro-batch is placed.
LEMMA FilledHolds ==
    ASSUME NEW c, Sound(c), NEW ubatch \in Seq(Token), NEW start,
           FreeRun(c, start, Len(ubatch)), Fresh(c, ubatch),
           NEW d, Filled(c, start, ubatch, d),
           NEW s \in Seqs, NEW p \in Positions, NEW i \in Cells
    PROVE  /\ Holds(d, i, s, p) <=>
                \/ Holds(c, i, s, p)
                \/ /\ i \in Slot(start, ubatch)
                   /\ TokenIn(start, ubatch, i) = [owner |-> s, pos |-> p]
           /\ i \in Slot(start, ubatch) => ~Holds(c, i, s, p)
           /\ \A j \in Slot(start, ubatch) :
                TokenIn(start, ubatch, j) = [owner |-> s, pos |-> p] =>
                    /\ ~Holds(c, i, s, p)
                    /\ \A k \in Slot(start, ubatch) :
                            TokenIn(start, ubatch, k) = TokenIn(start, ubatch, j) => k = j
<1> DEFINE slot == Slot(start, ubatch)
           t(j) == TokenIn(start, ubatch, j)
<1>1. /\ slot \in SUBSET Cells
      /\ \A j \in slot : j - start + 1 \in DOMAIN ubatch /\ t(j) \in Token
      /\ \A j, k \in slot : j - start + 1 = k - start + 1 => j = k
      /\ \A j \in slot : IsEmpty(c, j)
  BY SlotCells DEF FreeRun, Slot
<1>2. \A j \in slot : t(j) = [owner |-> t(j).owner, pos |-> t(j).pos]
  BY <1>1 DEF Token
<1>3. p # NoPos
  BY PositionsAreNat
<1>4. i \in slot => ~Holds(c, i, s, p)
  BY <1>1, <1>3 DEF IsEmpty, Holds
<1>5. ASSUME NEW j \in slot, t(j) = [owner |-> s, pos |-> p]
      PROVE  /\ ~Holds(c, i, s, p)
             /\ \A k \in slot : t(k) = t(j) => k = j
  <2>1. t(j).owner = s /\ t(j).pos = p
    BY <1>5
  <2>2. ~Holds(c, i, s, p)
    BY <1>1, <2>1 DEF Fresh, TokenIn
  <2>3. \A k \in slot : t(k) = t(j) => k = j
    BY <1>1 DEF Fresh, TokenIn
  <2> QED
    BY <2>2, <2>3
<1>6. Holds(d, i, s, p) <=>
            Holds(c, i, s, p) \/ (i \in slot /\ t(i) = [owner |-> s, pos |-> p])
  <2>1. CASE i \in slot
    <3>1. Holds(d, i, s, p) <=> t(i).owner = s /\ t(i).pos = p
      <4> HIDE DEF slot
      <4> QED
        BY <2>1 DEF Filled, Holds, slot
    <3>2. t(i) = [owner |-> s, pos |-> p] <=> t(i).owner = s /\ t(i).pos = p
      BY <1>2, <2>1
    <3> QED
      BY <1>4, <2>1, <3>1, <3>2
  <2>2. CASE i \notin slot
    BY <2>2 DEF Filled, Holds
  <2> QED
    BY <2>1, <2>2
<1> QED
  BY <1>4, <1>5, <1>6

\* apply_ubatch keeps the indexes in agreement with the cells.
LEMMA ApplySound ==
    ASSUME NEW c, Sound(c), NEW ubatch \in Seq(Token), NEW start,
           FreeRun(c, start, Len(ubatch)), Fresh(c, ubatch)
    PROVE  Sound(ApplyUbatch(c, start, ubatch))
<1> DEFINE d == ApplyUbatch(c, start, ubatch)
           slot == Slot(start, ubatch)
           t(i) == TokenIn(start, ubatch, i)
<1>1. d \in CacheType /\ Filled(c, start, ubatch, d)
  BY ApplyFills
<1> HIDE DEF d
<1>2. /\ slot \in SUBSET Cells
      /\ \A i \in slot : t(i).owner \in Seqs /\ t(i).pos \in Positions /\ IsEmpty(c, i)
  BY SlotCells DEF FreeRun, Slot
<1>3. \A i \in slot : t(i).pos # NoPos
  BY <1>2, PositionsAreNat
<1> HIDE DEF slot, t
<1>4. \A i \in Cells : IF i \in slot THEN d.pos[i] = t(i).pos /\ d.members[i] = {t(i).owner}
                                     ELSE d.pos[i] = c.pos[i] /\ d.members[i] = c.members[i]
  BY <1>1 DEF Filled, slot, t
<1>5. \A i \in Cells : d.pos[i] = NoPos <=> d.members[i] = {}
  BY <1>3, <1>4 DEF Sound
<1>6. d.used = {i \in Cells : d.pos[i] # NoPos}
  <2>1. d.used = c.used \cup slot
    BY <1>1 DEF Filled, slot
  <2> QED
    BY <1>2, <1>3, <1>4, <2>1 DEF Sound
<1>7. ASSUME NEW s \in Seqs, NEW p \in Positions
      PROVE  /\ \A i, j \in Cells : Holds(d, i, s, p) /\ Holds(d, j, s, p) => i = j
             /\ d.seq_pos[<<s, p>>] = IF \E i \in Cells : Holds(d, i, s, p) THEN 1 ELSE 0
  <2>1. \A i \in Cells :
            /\ Holds(d, i, s, p) <=> Holds(c, i, s, p)
                                     \/ (i \in slot /\ t(i) = [owner |-> s, pos |-> p])
            /\ i \in slot => ~Holds(c, i, s, p)
            /\ \A j \in slot : t(j) = [owner |-> s, pos |-> p] =>
                    ~Holds(c, i, s, p) /\ \A k \in slot : t(k) = t(j) => k = j
    BY <1>1, FilledHolds DEF slot, t
  <2>2. \A i, j \in Cells : Holds(c, i, s, p) /\ Holds(c, j, s, p) => i = j
    BY DEF Sound, Single
  <2>3. c.seq_pos[<<s, p>>] = IF \E i \in Cells : Holds(c, i, s, p) THEN 1 ELSE 0
    BY DEF Sound, Counted
  <2>4. d.seq_pos[<<s, p>>] = c.seq_pos[<<s, p>>]
            + IF \E i \in slot : t(i) = [owner |-> s, pos |-> p] THEN 1 ELSE 0
    BY <1>1 DEF Filled, slot, t
  <2>5. \A i, j \in Cells : Holds(d, i, s, p) /\ Holds(d, j, s, p) => i = j
    BY <2>1, <2>2
  <2>6. CASE \E i \in slot : t(i) = [owner |-> s, pos |-> p]
    <3>1. ~\E i \in Cells : Holds(c, i, s, p)
      BY <2>1, <2>6
    <3>2. \E i \in Cells : Holds(d, i, s, p)
      BY <1>2, <2>1, <2>6
    <3> QED
      BY <2>3, <2>4, <2>5, <2>6, <3>1, <3>2
  <2>7. CASE ~\E i \in slot : t(i) = [owner |-> s, pos |-> p]
    <3>1. (\E i \in Cells : Holds(d, i, s, p)) <=> \E i \in Cells : Holds(c, i, s, p)
      BY <2>1, <2>7
    <3> QED
      BY <2>3, <2>4, <2>5, <2>7, <3>1
  <2> QED
    BY <2>6, <2>7
<1>8. Single(d) /\ Counted(d)
  BY <1>7 DEF Single, Counted
<1> QED
  BY <1>1, <1>5, <1>6, <1>8 DEF Sound, d

\* Putting the cells of a slot back undoes the micro-batch placed there.
LEMMA RestoreUndoesApply ==
    ASSUME NEW c, Sound(c), NEW ubatch \in Seq(Token), NEW start,
           FreeRun(c, start, Len(ubatch)), Fresh(c, ubatch)
    PROVE  RestoreOne(ApplyUbatch(c, start, ubatch),
                      [cells |-> Slot(start, ubatch), old |-> c]) = c
<1> DEFINE d == ApplyUbatch(c, start, ubatch)
           slot == Slot(start, ubatch)
           t(i) == TokenIn(start, ubatch, i)
           pos == [i \in Cells |-> IF i \in slot THEN c.pos[i] ELSE d.pos[i]]
           members == [i \in Cells |-> IF i \in slot THEN c.members[i] ELSE d.members[i]]
           used == (d.used \cup {i \in slot : IsEmpty(d, i) /\ ~IsEmpty(c, i)})
                        \ {i \in slot : ~IsEmpty(d, i) /\ IsEmpty(c, i)}
           seq_pos == [sp \in Seqs \X Positions |->
                d.seq_pos[sp] - Held(d, slot, sp[1], sp[2]) + Held(c, slot, sp[1], sp[2])]
           e == RestoreOne(d, [cells |-> slot, old |-> c])
<1>1. Sound(d) /\ Filled(c, start, ubatch, d)
  BY ApplyFills, ApplySound
<1> HIDE DEF d
<1>2. /\ slot \in SUBSET Cells
      /\ \A i \in slot : t(i).owner \in Seqs /\ t(i).pos \in Positions /\ IsEmpty(c, i)
  BY SlotCells DEF FreeRun, Slot
<1> HIDE DEF slot
<1>3. e = [d EXCEPT !.pos = pos, !.members = members, !.used = used,
                    !.seq_pos = seq_pos, !.head = c.head]
  <2>1. e = [[d EXCEPT !.pos = pos, !.members = members, !.used = used,
                       !.seq_pos = seq_pos] EXCEPT !.head = c.head]
    BY DEF RestoreOne, SetCells
  <2> HIDE DEF pos, members, used, seq_pos
  <2>2. d \in CacheType
    BY <1>1 DEF Sound
  <2> QED
    BY <2>1, <2>2 DEF CacheType
<1> HIDE DEF e
<1>4. ASSUME NEW i \in Cells PROVE pos[i] = c.pos[i] /\ members[i] = c.members[i]
  <2>1. i \notin slot => d.pos[i] = c.pos[i] /\ d.members[i] = c.members[i]
    BY <1>1 DEF Filled, slot
  <2> QED
    BY <2>1
<1>5. used = c.used
  <2>1. d.used = c.used \cup slot
    BY <1>1 DEF Filled, slot
  <2>2. \A i \in slot : i \notin c.used /\ IsEmpty(c, i)
    BY <1>2 DEF Sound, IsEmpty
  <2>3. \A i \in slot : ~IsEmpty(d, i)
    <3>1. d.used = {i \in Cells : d.pos[i] # NoPos}
      BY <1>1 DEF Sound
    <3> QED
      BY <1>2, <2>1, <3>1 DEF IsEmpty
  <2> QED
    BY <2>1, <2>2, <2>3
<1>6. ASSUME NEW s \in Seqs, NEW p \in Positions
      PROVE  seq_pos[<<s, p>>] = c.seq_pos[<<s, p>>]
  <2>1. Held(d, slot, s, p) = IF \E i \in slot : Holds(d, i, s, p) THEN 1 ELSE 0
    BY <1>1, <1>2, HeldIs DEF Sound
  <2>2. Held(c, slot, s, p) = IF \E i \in slot : Holds(c, i, s, p) THEN 1 ELSE 0
    BY <1>2, HeldIs DEF Sound
  <2>3. ~\E i \in slot : Holds(c, i, s, p)
    BY <1>2, PositionsAreNat DEF Holds, IsEmpty
  <2>4. \A i \in slot : Holds(d, i, s, p) <=> t(i) = [owner |-> s, pos |-> p]
    BY <1>1, <1>2, <2>3, FilledHolds DEF slot
  <2>5. d.seq_pos[<<s, p>>] = c.seq_pos[<<s, p>>]
            + IF \E i \in slot : t(i) = [owner |-> s, pos |-> p] THEN 1 ELSE 0
    BY <1>1 DEF Filled, slot
  <2>6. c.seq_pos[<<s, p>>] \in Nat
    BY CacheFields DEF Sound
  <2>7. seq_pos[<<s, p>>] = d.seq_pos[<<s, p>>] - Held(d, slot, s, p) + Held(c, slot, s, p)
    OBVIOUS
  <2> HIDE DEF seq_pos, t
  <2>8. Held(d, slot, s, p) = IF \E i \in slot : t(i) = [owner |-> s, pos |-> p] THEN 1 ELSE 0
    BY <2>1, <2>4
  <2>9. Held(c, slot, s, p) = 0
    BY <2>2, <2>3
  <2> QED
    BY <2>5, <2>6, <2>7, <2>8, <2>9
<1>7. pos = c.pos /\ members = c.members
  <2>1. /\ c.pos \in [Cells -> Positions \cup {NoPos}]
        /\ c.members \in [Cells -> SUBSET Seqs]
    BY CacheFields DEF Sound
  <2>2. pos = c.pos
    BY <1>4, <2>1
  <2>3. members = c.members
    BY <1>4, <2>1
  <2> QED
    BY <2>2, <2>3
<1>8. seq_pos = c.seq_pos
  <2>1. \A sp \in Seqs \X Positions : seq_pos[sp] = c.seq_pos[sp]
    <3> SUFFICES ASSUME NEW sp \in Seqs \X Positions PROVE seq_pos[sp] = c.seq_pos[sp]
      OBVIOUS
    <3>1. sp = <<sp[1], sp[2]>> /\ sp[1] \in Seqs /\ sp[2] \in Positions
      OBVIOUS
    <3> HIDE DEF seq_pos
    <3> QED
      BY <1>6, <3>1
  <2>2. c.seq_pos \in [Seqs \X Positions -> Nat]
    BY CacheFields DEF Sound
  <2>3. seq_pos = [sp \in Seqs \X Positions |-> seq_pos[sp]]
    OBVIOUS
  <2> HIDE DEF seq_pos
  <2> QED
    BY <2>1, <2>2, <2>3
<1> HIDE DEF pos, members, used, seq_pos
<1>9. e = c
  BY <1>1, <1>3, <1>5, <1>7, <1>8 DEF Sound, CacheType
<1> QED
  BY <1>9 DEF e, slot, d

(***************************************************************************)
(* The search for a slot.  What remains to be tested shrinks at every step *)
(* of the scan, so that it is defined; what it returns is a free run.      *)
(***************************************************************************)

\* Going on at the next multiple.
LEMMA NextMultiple ==
    ASSUME NEW a \in Nat, NEW n \in Nat \ {0}
    PROVE  a % n \in 0 .. n - 1 /\ (a + n - (a % n)) % n = 0
<1> DEFINE q == a \div n
           r == a % n
<1>1. q \in Nat /\ r \in 0 .. n - 1 /\ a = (n * q) + r
  OBVIOUS
<1>2. n * (q + 1) = (n * q) + n /\ n * (q + 1) \in Nat /\ n * q \in Nat
  BY <1>1
<1>3. (n * (q + 1)) % n = 0
  <2> HIDE DEF q
  <2>1. ((n * (q + 1)) + 0) % n = 0
    BY <1>1
  <2> QED
    BY <1>2, <2>1
<1> DEFINE x == n * q
           y == n * (q + 1)
<1>4. a + n - r = y
  <2>1. x \in Nat /\ y = x + n /\ a = x + r /\ r \in 0 .. n - 1
    BY <1>1, <1>2
  <2> HIDE DEF x, y, r
  <2> QED
    BY <2>1
<1> HIDE DEF q
<1> QED
  BY <1>1, <1>3, <1>4

\* find_slot returns a run of free cells, or none when there is none; it takes the
\* one at the head when there is one and the cells used are not too few to start over.
LEMMA FindSlotFinds ==
    ASSUME NEW c \in CacheType, NEW n \in Nat \ {0}
    PROVE  /\ FindSlot(c, n) = NoSlot \/ FreeRun(c, FindSlot(c, n), n)
           /\ FreeRun(c, c.head, n) /\ c.head <= Cardinality(c.used) + 2 * n =>
                    FindSlot(c, n) = c.head
           /\ \A r : FreeRun(c, r, n) => FindSlot(c, n) # NoSlot
<1> DEFINE start == IF c.head > Cardinality(c.used) + 2 * n THEN 0 ELSE c.head
           Tested == {m \in 0 .. 2 * NCells : m < NCells \/ (start + m) % NCells = 0}
           h(m) == (start + m) % NCells
           taken(m) == {i \in h(m) .. h(m) + n - 1 : ~IsEmpty(c, i)}
           passed(m) == m + MinOf(taken(m)) + 1 - h(m)
           Body(f, m) == IF h(m) + n > NCells THEN f[m + NCells - h(m)]
                         ELSE IF taken(m) = {} THEN h(m)
                         ELSE IF passed(m) >= NCells THEN NoSlot
                         ELSE f[passed(m)]
           Scan == CHOOSE f : f = [m \in Tested |-> Body(f, m)]
           Good(x) == x = NoSlot \/ FreeRun(c, x, n)
<1>1. NCells \in Nat \ {0} /\ c.head \in 0 .. NCells /\ Cardinality(c.used) \in Nat
  BY SizesAssumption, CacheFields, CellsFinite
<1>2. FindSlot(c, n) = IF n > NCells THEN NoSlot ELSE Scan[0]
  BY DEF FindSlot
<1>3. start \in 0 .. NCells
  BY <1>1
<1> HIDE DEF start
<1>4. ASSUME NEW m \in 0 .. 2 * NCells
      PROVE  h(m) \in 0 .. NCells - 1 /\ (start + m + NCells - h(m)) % NCells = 0
  <2> DEFINE a == start + m
  <2>1. a \in Nat
    BY <1>1, <1>3
  <2>2. a % NCells \in 0 .. NCells - 1 /\ (a + NCells - (a % NCells)) % NCells = 0
    <3> HIDE DEF a
    <3> QED
      BY <1>1, <2>1, NextMultiple
  <2> QED
    BY <2>2
<1>5. 0 \in Tested
  BY <1>1
<1>6. CASE n > NCells
  <2>1. \A r : ~FreeRun(c, r, n)
    BY <1>1, <1>6 DEF FreeRun
  <2> QED
    BY <1>2, <1>6, <2>1
<1>7. CASE n <= NCells
  <2>1. ASSUME NEW m \in Tested, h(m) + n > NCells
        PROVE  m + NCells - h(m) \in Tested /\ m + NCells - h(m) > m
    <3> DEFINE w == m + NCells - h(m)
               hm == h(m)
    <3>1. hm \in 0 .. NCells - 1 /\ (start + m + NCells - hm) % NCells = 0
      BY <1>4
    <3>2. m < NCells
      <4>1. hm + n > NCells
        BY <2>1
      <4>2. hm # 0
        <5> HIDE DEF hm
        <5> QED
          BY <1>1, <1>7, <4>1
      <4> QED
        BY <4>2
    <3>3. w \in 0 .. 2 * NCells /\ w > m /\ start + w = start + m + NCells - hm
      <4> HIDE DEF hm
      <4>1. w = m + NCells - hm
        BY DEF hm
      <4> HIDE DEF w
      <4> QED
        BY <1>1, <1>3, <3>1, <3>2, <4>1
    <3>4. (start + w) % NCells = 0
      BY <3>1, <3>3
    <3> HIDE DEF w
    <3>5. w \in Tested
      BY <3>3, <3>4
    <3> QED
      BY <3>3, <3>5 DEF w
  <2>2. ASSUME NEW m \in Tested, h(m) + n <= NCells, taken(m) # {}, ~(passed(m) >= NCells)
        PROVE  passed(m) \in Tested /\ passed(m) > m
    <3> DEFINE first == MinOf(taken(m))
               hm == h(m)
    <3>1. hm \in 0 .. NCells - 1 /\ taken(m) \in SUBSET (hm .. hm + n - 1)
      BY <1>4
    <3>2. first \in hm .. hm + n - 1
      <4>1. taken(m) \in SUBSET Nat
        BY <3>1
      <4>2. first \in taken(m)
        <5> HIDE DEF taken
        <5> QED
          BY <2>2, <4>1, MinIs
      <4> HIDE DEF taken, first
      <4> QED
        BY <3>1, <4>2
    <3> DEFINE p == m + first + 1 - hm
    <3>3. p \in 0 .. 2 * NCells /\ p > m /\ p < NCells
      <4>1. ~(p >= NCells)
        BY <2>2
      <4> HIDE DEF first, hm
      <4>2. p \in Nat /\ p > m
        BY <3>1, <3>2
      <4> HIDE DEF p
      <4> QED
        BY <1>1, <4>1, <4>2
    <3>4. p = passed(m)
      OBVIOUS
    <3> HIDE DEF p
    <3>5. p \in Tested
      BY <3>3
    <3> HIDE DEF passed
    <3> QED
      BY <3>3, <3>4, <3>5
  <2>3. ASSUME NEW m \in Tested, h(m) + n <= NCells, taken(m) = {}
        PROVE  FreeRun(c, h(m), n)
    <3>1. h(m) \in Nat
      BY <1>4
    <3>2. \A i \in h(m) .. h(m) + n - 1 : IsEmpty(c, i)
      BY <2>3
    <3> HIDE DEF h
    <3> QED
      BY <2>3, <3>1, <3>2 DEF FreeRun
  <2> DEFINE Late(k) == {m \in Tested : m >= 2 * NCells - k}
             Upto(k, f) == /\ f = [m \in Late(k) |-> Body(f, m)]
                           /\ \A m \in Late(k) : Good(f[m])
             T == {k \in 0 .. 2 * NCells : \E f : Upto(k, f)}
  <2> HIDE DEF h, taken, passed
  <2>4. ASSUME NEW m \in Tested, NEW f,
               \A j \in Tested : j > m => Good(f[j])
        PROVE  Good(Body(f, m))
    <3>1. h(m) \in Nat
      BY <1>4
    <3>2. h(m) + n <= NCells \/ h(m) + n > NCells
      BY <1>1, <3>1
    <3> HIDE DEF Good, Tested
    <3> QED
      BY <2>1, <2>2, <2>3, <2>4, <3>2 DEF Good
  <2>5. ASSUME NEW m \in Tested, NEW f, NEW g, \A j \in Tested : j > m => f[j] = g[j]
        PROVE  Body(f, m) = Body(g, m)
    <3>1. h(m) \in Nat
      BY <1>4
    <3>2. h(m) + n <= NCells \/ h(m) + n > NCells
      BY <1>1, <3>1
    <3> HIDE DEF Tested
    <3> QED
      BY <2>1, <2>2, <2>5, <3>2
  <2>6. \A m \in Tested : m \in 0 .. 2 * NCells
    OBVIOUS
  <2> HIDE DEF Good, Tested, Body
  <2>7. 0 \in T
    <3>1. \A j \in Tested : ~(j > 2 * NCells)
      BY <1>1, <2>6
    <3> DEFINE e == [m \in Tested |-> 0]
               f == [m \in Late(0) |-> Body(e, m)]
    <3>2. \A m \in Late(0) : m \in Tested /\ \A j \in Tested : ~(j > m)
      BY <1>1, <2>6
    <3>3. \A m \in Late(0) : Body(f, m) = Body(e, m) /\ Good(Body(e, m))
      <4> HIDE DEF f, e, Late
      <4> QED
        BY <2>4, <2>5, <3>2
    <3>4. Upto(0, f)
      <4>1. \A m \in Late(0) : f[m] = Body(e, m)
        OBVIOUS
      <4>2. f = [m \in Late(0) |-> Body(f, m)]
        BY <3>3
      <4> HIDE DEF f, e, Late
      <4> QED
        BY <3>3, <4>1, <4>2
    <3>5. 0 \in 0 .. 2 * NCells
      BY <1>1
    <3> HIDE DEF f, Upto
    <3> QED
      BY <3>4, <3>5
  <2>8. ASSUME NEW k \in 0 .. 2 * NCells - 1, k \in T PROVE k + 1 \in T
    <3>1. PICK f : Upto(k, f)
      BY <2>8
    <3> DEFINE g == [m \in Late(k + 1) |-> IF m \in Late(k) THEN f[m] ELSE Body(f, m)]
    <3>2. ASSUME NEW m \in Late(k + 1)
          PROVE  m \in Tested /\ \A j \in Tested : j > m => j \in Late(k) /\ j \in Late(k + 1)
      BY <1>1, <2>6
    <3>3. \A j \in Late(k) : j \in Late(k + 1)
      BY <1>1, <2>6
    <3>4. \A m \in Late(k + 1) : g[m] = IF m \in Late(k) THEN f[m] ELSE Body(f, m)
      OBVIOUS
    <3>5. g = [m \in Late(k + 1) |-> g[m]]
      OBVIOUS
    <3>6. \A m \in Late(k) : f[m] = Body(f, m) /\ Good(f[m])
      BY <3>1
    <3> HIDE DEF g, Late
    <3>7. \A m \in Late(k + 1) : g[m] = Body(f, m)
      BY <3>4, <3>6
    <3>8. ASSUME NEW m \in Late(k + 1) PROVE g[m] = Body(g, m) /\ Good(g[m])
      <4>1. \A j \in Tested : j > m => f[j] = g[j] /\ Good(f[j])
        BY <3>2, <3>4, <3>6
      <4> QED
        BY <2>4, <2>5, <3>2, <3>7, <4>1
    <3>9. Upto(k + 1, g)
      BY <3>5, <3>8
    <3>10. k + 1 \in 0 .. 2 * NCells
      BY <1>1
    <3> HIDE DEF Upto
    <3> QED
      BY <3>9, <3>10
  <2>9. 2 * NCells \in T
    <3>1. 2 * NCells \in Nat /\ 2 * NCells \in 0 .. 2 * NCells
      BY <1>1
    <3> HIDE DEF T
    <3>2. 0 .. 2 * NCells \subseteq T
      BY <2>7, <2>8, <3>1, CountUp
    <3> QED
      BY <3>1, <3>2
  <2>10. Late(2 * NCells) = Tested
    BY <1>1, <2>6
  <2>11. \E f : f = [m \in Tested |-> Body(f, m)]
    BY <2>9, <2>10
  <2>12. Scan = [m \in Tested |-> Body(Scan, m)]
    BY <2>11
  <2>13. \A m \in Tested : Scan[m] = Body(Scan, m)
    <3> HIDE DEF Scan
    <3> QED
      BY <2>12
  <2> DEFINE G == {k \in 0 .. 2 * NCells : \A m \in Late(k) : Good(Scan[m])}
  <2> HIDE DEF Scan
  <2>14. 0 \in G
    <3>1. \A m \in Late(0) : m \in Tested /\ \A j \in Tested : ~(j > m)
      BY <1>1, <2>6
    <3>2. \A m \in Late(0) : Good(Scan[m])
      <4> HIDE DEF Late
      <4> QED
        BY <2>4, <2>13, <3>1
    <3> QED
      BY <1>1, <3>2
  <2>15. ASSUME NEW k \in 0 .. 2 * NCells - 1, k \in G PROVE k + 1 \in G
    <3>1. ASSUME NEW m \in Late(k + 1)
          PROVE  m \in Tested /\ \A j \in Tested : j > m => j \in Late(k)
      BY <1>1, <2>6
    <3>2. \A m \in Late(k + 1) : Good(Scan[m])
      <4> HIDE DEF Late
      <4> QED
        BY <2>4, <2>13, <2>15, <3>1
    <3> QED
      BY <1>1, <3>2
  <2>16. Good(Scan[0])
    <3>1. 2 * NCells \in Nat /\ 2 * NCells \in 0 .. 2 * NCells
      BY <1>1
    <3>2. 0 .. 2 * NCells \subseteq G
      <4> HIDE DEF G
      <4> QED
        BY <2>14, <2>15, <3>1, CountUp
    <3>3. \A m \in Tested : Good(Scan[m])
      <4>1. 2 * NCells \in G
        BY <3>1, <3>2
      <4> QED
        BY <2>10, <4>1
    <3> QED
      BY <1>5, <3>3 DEF Tested
  <2>17. ASSUME FreeRun(c, c.head, n), c.head <= Cardinality(c.used) + 2 * n
         PROVE  Scan[0] = c.head
    <3>1. start = c.head
      BY <1>1, <2>17 DEF start
    <3>2. c.head < NCells /\ c.head + n <= NCells /\ \A i \in c.head .. c.head + n - 1 : IsEmpty(c, i)
      BY <1>1, <2>17 DEF FreeRun
    <3>3. h(0) = c.head
      <4>1. (c.head + 0) % NCells = c.head
        BY <1>1, <3>2
      <4> QED
        BY <3>1, <4>1 DEF h
    <3>4. taken(0) = {}
      BY <3>2, <3>3 DEF taken
    <3>5. ~(h(0) + n > NCells)
      BY <1>1, <3>2, <3>3
    <3>6. 0 \in Tested
      BY <1>5 DEF Tested
    <3> QED
      BY <2>13, <3>3, <3>4, <3>5, <3>6 DEF Body
  \* t is what has been tested when the scan comes to a run that is free.
  <2>18. ASSUME NEW r, FreeRun(c, r, n) PROVE Scan[0] # NoSlot
    <3> DEFINE t == IF r >= start THEN r - start ELSE r - start + NCells
               Missed == {m \in 0 .. t : Scan[m] = NoSlot}
    <3>1. /\ r \in Nat /\ r + n <= NCells /\ r < NCells
          /\ \A i \in r .. r + n - 1 : IsEmpty(c, i)
      BY <1>1, <2>18 DEF FreeRun
    <3>2. t \in 0 .. NCells - 1
      BY <1>1, <1>3, <3>1
    <3> SUFFICES ASSUME Missed # {} PROVE FALSE
      BY <3>2
    <3> DEFINE m == MaxOf(Missed)
    <3>3. m \in Missed /\ \A k \in Missed : k <= m
      <4>1. t \in Nat /\ Missed \in SUBSET (0 .. t)
        BY <3>2
      <4> HIDE DEF t, Missed
      <4> QED
        BY <4>1, MaxIs
    <3> HIDE DEF t, Missed
    <3>4. m \in 0 .. t /\ Scan[m] = NoSlot /\ \A k \in 0 .. t : k > m => Scan[k] # NoSlot
      BY <3>2, <3>3 DEF Missed
    <3> HIDE DEF m
    <3>5. \A k \in 0 .. t : k \in Tested
      BY <1>1, <3>2 DEF Tested
    <3>6. Scan[m] = Body(Scan, m)
      BY <2>13, <3>4, <3>5
    <3> DEFINE hm == h(m)
    <3>7. /\ hm \in 0 .. NCells - 1
          /\ hm = IF start + m < NCells THEN start + m ELSE start + m - NCells
      <4> DEFINE a == start + m
      <4>1. a \in Nat /\ a < 2 * NCells
        BY <1>1, <1>3, <3>2, <3>4
      <4>2. h(m) = a % NCells
        BY DEF h
      <4>3. a < NCells => a % NCells = a
        BY <1>1, <4>1
      <4>4. ~(a < NCells) => a % NCells = a - NCells
        <5> SUFFICES ASSUME ~(a < NCells) PROVE a % NCells = a - NCells
          OBVIOUS
        <5> DEFINE b == a - NCells
        <5>1. b \in 0 .. NCells - 1 /\ a = b + NCells
          BY <1>1, <4>1
        <5> HIDE DEF b, a
        <5>2. (b + NCells) % NCells = b
          BY <1>1, <5>1
        <5> QED
          BY <5>1, <5>2 DEF b
      <4> DEFINE b == a % NCells
      <4>5. hm = b /\ b = IF a < NCells THEN a ELSE a - NCells
        BY <4>2, <4>3, <4>4
      <4> HIDE DEF b, hm
      <4>6. start \in Int /\ m \in Int /\ NCells \in Int
        BY <1>1, <1>3, <3>2, <3>4
      <4>7. hm = IF start + m < NCells THEN start + m ELSE start + m - NCells
        BY <4>5, <4>6
      <4>8. hm \in 0 .. NCells - 1
        BY <4>1, <4>6, <4>7
      <4> QED
        BY <4>7, <4>8
    <3>8. \/ hm <= r /\ m + r - hm = t
          \/ hm > r /\ m + NCells - hm <= t
      <4> HIDE DEF hm
      <4>1. /\ NCells \in Nat /\ start \in Nat /\ start <= NCells /\ r \in Nat /\ r < NCells
            /\ m \in Nat /\ m <= t /\ hm \in Nat
        BY <1>1, <1>3, <3>1, <3>2, <3>4, <3>7
      <4>2. CASE r >= start
        <5>1. t = r - start
          BY <4>2 DEF t
        <5>2. hm = start + m
          BY <3>7, <4>1, <5>1
        <5> QED
          BY <4>1, <5>1, <5>2
      <4>3. CASE ~(r >= start)
        <5>1. t = r - start + NCells
          BY <4>3 DEF t
        <5>2. CASE hm = start + m
          BY <4>1, <4>3, <5>1, <5>2
        <5>3. CASE hm = start + m - NCells
          BY <4>1, <4>3, <5>1, <5>3
        <5> QED
          BY <3>7, <5>2, <5>3
      <4> QED
        BY <4>2, <4>3
    <3> HIDE DEF hm
    <3>9. CASE hm + n > NCells
      <4> DEFINE w == m + NCells - hm
      <4>1. Scan[m] = Scan[w]
        BY <3>6, <3>9 DEF Body, hm
      <4>2. w \in 0 .. t /\ w > m
        BY <1>1, <3>1, <3>2, <3>4, <3>7, <3>8, <3>9
      <4> HIDE DEF w
      <4> QED
        BY <3>4, <4>1, <4>2
    <3>10. CASE ~(hm + n > NCells) /\ taken(m) = {}
      <4>1. Scan[m] = hm
        BY <3>6, <3>10 DEF Body, hm
      <4> QED
        BY <3>4, <3>7, <4>1 DEF NoSlot
    <3>11. CASE ~(hm + n > NCells) /\ taken(m) # {}
      <4> DEFINE first == MinOf(taken(m))
                 p == m + first + 1 - hm
      <4>1. /\ taken(m) \in SUBSET (hm .. hm + n - 1)
            /\ \A i \in taken(m) : ~IsEmpty(c, i)
        BY DEF taken, hm
      <4>2. first \in taken(m)
        <5>1. taken(m) \in SUBSET Nat
          BY <3>7, <4>1
        <5> QED
          BY <3>11, <5>1, MinIs
      <4> HIDE DEF first
      <4>3. first \in hm .. hm + n - 1 /\ ~(first \in r .. r + n - 1)
        BY <3>1, <4>1, <4>2
      <4>4. p \in 0 .. t /\ p > m
        BY <1>1, <3>1, <3>2, <3>4, <3>7, <3>8, <3>11, <4>3
      <4>5. Scan[m] = IF p >= NCells THEN NoSlot ELSE Scan[p]
        BY <3>6, <3>11 DEF Body, passed, hm, first
      <4> HIDE DEF p
      <4> QED
        BY <1>1, <3>2, <3>4, <4>4, <4>5
    <3> QED
      BY <3>9, <3>10, <3>11
  <2> QED
    BY <1>2, <1>7, <2>16, <2>17, <2>18, <1>1 DEF Good
<1> QED
  BY <1>1, <1>6, <1>7

(***************************************************************************)
(* Placing micro-batches and taking them out again.                        *)
(***************************************************************************)

\* What holds at the start of a recursion and is kept by its steps always holds.
LEMMA Stays ==
    ASSUME NEW n \in Nat, NEW S, NEW g, g[0] \in S[0],
           \A k \in 1 .. n : g[k - 1] \in S[k - 1] => g[k] \in S[k]
    PROVE  \A k \in 0 .. n : g[k] \in S[k]
<1> DEFINE T == {k \in 0 .. n : g[k] \in S[k]}
<1>1. 0 \in T
  OBVIOUS
<1>2. ASSUME NEW k \in 0 .. n - 1, k \in T PROVE k + 1 \in T
  <2>1. k + 1 \in 1 .. n /\ (k + 1) - 1 = k
    OBVIOUS
  <2> QED
    BY <1>2, <2>1
<1> HIDE DEF T
<1>3. 0 .. n \subseteq T
  BY <1>1, <1>2, CountUp
<1> QED
  BY <1>3 DEF T

PlaceState ==
    [cache : CacheType, success : BOOLEAN,
     saved : Seq([cells : SUBSET Cells, old : CacheType])]

StartOf(saved, m) == MinOf(saved[m].cells)
CacheBefore(st, m) == IF m <= Len(st.saved) THEN st.saved[m].old ELSE st.cache

\* Every entry of the recovery stack tells how the next cache came about.
Undoable(st, ubatches) ==
    \A m \in 1 .. Len(st.saved) :
        /\ st.saved[m].cells = Slot(StartOf(st.saved, m), ubatches[m])
        /\ Sound(st.saved[m].old)
        /\ FreeRun(st.saved[m].old, StartOf(st.saved, m), Len(ubatches[m]))
        /\ Fresh(st.saved[m].old, ubatches[m])
        /\ CacheBefore(st, m + 1) =
                ApplyUbatch(st.saved[m].old, StartOf(st.saved, m), ubatches[m])

\* The slots found are free runs of the cache before all of them, and apart.
Apart(c, st, ubatches) ==
    /\ \A m \in 1 .. Len(st.saved) : FreeRun(c, StartOf(st.saved, m), Len(ubatches[m]))
    /\ \A m, l \in 1 .. Len(st.saved) :
            m # l => st.saved[m].cells \cap st.saved[l].cells = {}
    /\ \A i \in Cells : IsEmpty(st.cache, i) =>
            IsEmpty(c, i) /\ \A m \in 1 .. Len(st.saved) : i \notin st.saved[m].cells

\* Micro-batches to place in c.
MicroBatches(c, ubatches) ==
    /\ ubatches \in Seq(Seq(Token) \ {<<>>})
    /\ \A k \in DOMAIN ubatches : Fresh(c, ubatches[k])
    /\ \A j, k \in DOMAIN ubatches : j # k =>
            \A a \in DOMAIN ubatches[j], b \in DOMAIN ubatches[k] :
                ubatches[j][a] # ubatches[k][b]

PlaceInv(c, ubatches, k, st) ==
    /\ st \in PlaceState
    /\ Len(st.saved) <= k /\ (st.success => Len(st.saved) = k)
    /\ Sound(st.cache)
    /\ CacheBefore(st, 1) = c
    /\ Undoable(st, ubatches)
    /\ Apart(c, st, ubatches)
    /\ st.success => \A j \in k + 1 .. Len(ubatches) : Fresh(st.cache, ubatches[j])

\* A slot starts at its least cell.
LEMMA SlotStart ==
    ASSUME NEW ubatch \in Seq(Token) \ {<<>>}, NEW start \in Nat
    PROVE  MinOf(Slot(start, ubatch)) = start
<1>1. Len(ubatch) \in Nat \ {0}
  OBVIOUS
<1> DEFINE n == Len(ubatch)
           S == start .. start + n - 1
<1> HIDE DEF n
<1>2. start \in S /\ S \in SUBSET Nat /\ \A x \in S : start <= x
  BY <1>1 DEF n
<1>3. MinOf(S) \in S /\ MinOf(S) <= start
  <2> HIDE DEF S
  <2> QED
    BY <1>2, MinIs
<1>4. start <= MinOf(S) /\ MinOf(S) \in Nat
  <2> HIDE DEF S
  <2> QED
    BY <1>2, <1>3
<1> HIDE DEF S
<1>5. MinOf(S) = start
  BY <1>3, <1>4
<1> QED
  BY <1>5 DEF Slot, S, n

\* What a token is made of.
LEMMA TokenFields ==
  \A t \in Token : /\ t.owner \in Seqs /\ t.pos \in Positions
                   /\ t = [owner |-> t.owner, pos |-> t.pos]
  BY DEF Token


\* Placing a micro-batch leaves other tokens out of the cells.
LEMMA FreshStays ==
    ASSUME NEW c, Sound(c), NEW ubatch \in Seq(Token), NEW start,
           FreeRun(c, start, Len(ubatch)), Fresh(c, ubatch),
           NEW other \in Seq(Token), Fresh(c, other),
           \A m \in DOMAIN ubatch, a \in DOMAIN other : ubatch[m] # other[a]
    PROVE  Fresh(ApplyUbatch(c, start, ubatch), other)
<1> DEFINE d == ApplyUbatch(c, start, ubatch)
<1>1. Filled(c, start, ubatch, d)
  BY ApplyFills
<1> HIDE DEF d
<1> SUFFICES ASSUME NEW a \in DOMAIN other, NEW i \in Cells
             PROVE  ~Holds(d, i, other[a].owner, other[a].pos)
  BY DEF Fresh, d
<1> DEFINE t == other[a]
<1>2. t \in Token
  OBVIOUS
<1>3. ~Holds(c, i, t.owner, t.pos)
  BY DEF Fresh
<1>4. i \in Slot(start, ubatch) => TokenIn(start, ubatch, i) # t
  <2>1. i \in Slot(start, ubatch) => i - start + 1 \in DOMAIN ubatch
    BY SlotCells DEF FreeRun
  <2> QED
    BY <2>1 DEF TokenIn
<1> HIDE DEF t
<1>5. t.owner \in Seqs /\ t.pos \in Positions /\ t = [owner |-> t.owner, pos |-> t.pos]
  BY <1>2, TokenFields
<1>6. ~Holds(d, i, t.owner, t.pos)
  BY <1>1, <1>3, <1>4, <1>5, FilledHolds
<1> QED
  BY <1>6 DEF t

\* Placing one more micro-batch, or failing to.
LEMMA PlaceStep ==
    ASSUME NEW c, NEW ubatches, MicroBatches(c, ubatches), NEW k \in 1 .. Len(ubatches),
           NEW st, PlaceInv(c, ubatches, k - 1, st)
    PROVE  PlaceInv(c, ubatches, k, Place(st, ubatches[k]))
<1> DEFINE ub == ubatches[k]
           start == FindSlot(st.cache, Len(ub))
           e == [cells |-> Slot(start, ub), old |-> st.cache]
           next == Place(st, ub)
<1>1. /\ st \in PlaceState /\ st.cache \in CacheType /\ st.success \in BOOLEAN
      /\ st.saved \in Seq([cells : SUBSET Cells, old : CacheType])
      /\ Len(st.saved) \in Nat /\ k \in Nat /\ Len(ubatches) \in Nat
  BY DEF PlaceInv, PlaceState, MicroBatches
<1>2. ub \in Seq(Token) /\ ub # <<>> /\ Len(ub) \in Nat \ {0} /\ k \in DOMAIN ubatches
  <2>1. k \in DOMAIN ubatches /\ ub \in Seq(Token) \ {<<>>}
    BY DEF MicroBatches
  <2> QED
    BY <2>1
<1>3. start = NoSlot \/ FreeRun(st.cache, start, Len(ub))
  BY <1>1, <1>2, FindSlotFinds
<1> HIDE DEF start
<1>4. CASE ~st.success \/ start = NoSlot
  <2>1. next = [st EXCEPT !.success = FALSE]
    BY <1>4 DEF Place, start
  <2> HIDE DEF next
  <2>2. /\ next \in PlaceState /\ next.cache = st.cache /\ next.saved = st.saved
        /\ ~next.success
    BY <1>1, <2>1 DEF PlaceState
  <2>3. CacheBefore(next, 1) = c
    BY <2>2 DEF PlaceInv, CacheBefore
  <2>4. Undoable(next, ubatches)
    BY <2>2 DEF PlaceInv, CacheBefore, Undoable
  <2>5. Apart(c, next, ubatches)
    BY <2>2 DEF PlaceInv, Apart
  <2>6. Len(st.saved) <= k
    BY <1>1 DEF PlaceInv
  <2>7. PlaceInv(c, ubatches, k, next)
    BY <2>2, <2>3, <2>4, <2>5, <2>6 DEF PlaceInv
  <2> QED
    BY <2>7 DEF next
<1>5. CASE st.success /\ start # NoSlot
  <2> DEFINE d == ApplyUbatch(st.cache, start, ub)
             n == Len(st.saved)
  <2>1. next = [cache |-> d, success |-> TRUE, saved |-> Append(st.saved, e)]
    BY <1>5 DEF Place, start
  <2> HIDE DEF next, d
  <2>2. /\ n = k - 1 /\ Sound(st.cache)
        /\ \A j \in k .. Len(ubatches) : Fresh(st.cache, ubatches[j])
        /\ FreeRun(st.cache, start, Len(ub))
    <3>1. (k - 1) + 1 = k
      BY <1>1
    <3> QED
      BY <1>3, <1>5, <3>1 DEF PlaceInv
  <2>3. Fresh(st.cache, ub)
    BY <1>1, <2>2
  <2>4. /\ start \in Nat /\ start + Len(ub) <= NCells
        /\ Slot(start, ub) \in SUBSET Cells
        /\ MinOf(Slot(start, ub)) = start
    BY <1>2, <2>2, SlotCells, SlotStart DEF FreeRun
  <2>5. Filled(st.cache, start, ub, d) /\ Sound(d) /\ d \in CacheType
    BY <1>2, <2>2, <2>3, ApplyFills, ApplySound DEF d
  <2>6. e \in [cells : SUBSET Cells, old : CacheType]
    BY <1>1, <2>4
  <2> DEFINE saved == Append(st.saved, e)
  <2>7. /\ saved \in Seq([cells : SUBSET Cells, old : CacheType])
        /\ Len(saved) = k
        /\ saved[k] = e
        /\ \A m \in 1 .. k - 1 : saved[m] = st.saved[m]
    BY <1>1, <2>2, <2>6
  <2> HIDE DEF saved
  <2>8. /\ next \in PlaceState /\ next.cache = d /\ next.success /\ next.saved = saved
    BY <2>1, <2>5, <2>7 DEF PlaceState, saved
  <2>9. e.cells = Slot(start, ub) /\ e.old = st.cache
    OBVIOUS
  <2> HIDE DEF e
  <2>10. StartOf(saved, k) = start /\ \A m \in 1 .. k - 1 : StartOf(saved, m) = StartOf(st.saved, m)
    BY <2>4, <2>7, <2>9 DEF StartOf
  <2>11. /\ \A m \in 1 .. k - 1 : CacheBefore(next, m) = CacheBefore(st, m)
         /\ CacheBefore(next, k) = st.cache /\ CacheBefore(st, k) = st.cache
         /\ CacheBefore(next, k + 1) = d
    <3>1. ~(k <= n) /\ ~(k + 1 <= k) /\ k <= k /\ \A m \in 1 .. k - 1 : m <= n /\ m <= k
      BY <1>1, <2>2
    <3> QED
      BY <2>2, <2>7, <2>8, <2>9, <3>1 DEF CacheBefore
  <2>12. CacheBefore(next, 1) = c
    <3>1. CacheBefore(st, 1) = c
      BY DEF PlaceInv
    <3>2. k = 1 \/ 1 \in 1 .. k - 1
      BY <1>1
    <3> QED
      BY <2>11, <3>1, <3>2
  <2>13. Undoable(next, ubatches)
    <3> SUFFICES ASSUME NEW m \in 1 .. k
                 PROVE  /\ saved[m].cells = Slot(StartOf(saved, m), ubatches[m])
                        /\ Sound(saved[m].old)
                        /\ FreeRun(saved[m].old, StartOf(saved, m), Len(ubatches[m]))
                        /\ Fresh(saved[m].old, ubatches[m])
                        /\ CacheBefore(next, m + 1) =
                                ApplyUbatch(saved[m].old, StartOf(saved, m), ubatches[m])
      BY <2>7, <2>8 DEF Undoable
    <3>1. CASE m = k
      BY <2>2, <2>3, <2>7, <2>9, <2>10, <2>11, <3>1 DEF d
    <3>2. CASE m # k
      <4>1. m \in 1 .. k - 1 /\ m \in 1 .. n /\ (m + 1 = k \/ m + 1 \in 1 .. k - 1)
        BY <1>1, <2>2, <3>2
      <4>2. CacheBefore(next, m + 1) = CacheBefore(st, m + 1)
        BY <2>11, <4>1
      <4> QED
        BY <2>7, <2>10, <4>1, <4>2 DEF PlaceInv, Undoable
    <3> QED
      BY <3>1, <3>2
  <2>14. Apart(c, next, ubatches)
    <3>1. /\ \A m \in 1 .. k - 1 : FreeRun(c, StartOf(st.saved, m), Len(ubatches[m]))
          /\ \A m, l \in 1 .. k - 1 : m # l => st.saved[m].cells \cap st.saved[l].cells = {}
          /\ \A i \in Cells : IsEmpty(st.cache, i) =>
                IsEmpty(c, i) /\ \A m \in 1 .. k - 1 : i \notin st.saved[m].cells
      BY <2>2 DEF PlaceInv, Apart
    <3>2. \A m \in 1 .. k : m = k \/ m \in 1 .. k - 1
      BY <1>1
    <3>3. \A i \in Slot(start, ub) : i \in Cells /\ IsEmpty(st.cache, i)
      BY <2>2, <2>4 DEF FreeRun, Slot
    <3>4. FreeRun(c, start, Len(ub))
      BY <2>2, <3>1, <3>3 DEF FreeRun, Slot
    <3>5. \A m \in 1 .. k : FreeRun(c, StartOf(saved, m), Len(ubatches[m]))
      BY <2>10, <3>1, <3>2, <3>4
    <3>6. \A m \in 1 .. k - 1 : saved[m].cells = st.saved[m].cells
      BY <2>7
    <3>7. \A m \in 1 .. k - 1 : saved[m].cells \cap saved[k].cells = {}
      BY <2>7, <2>9, <3>1, <3>3, <3>6
    <3>8. \A m, l \in 1 .. k : m # l => saved[m].cells \cap saved[l].cells = {}
      BY <3>1, <3>2, <3>6, <3>7
    <3>9. ASSUME NEW i \in Cells, IsEmpty(d, i)
          PROVE  i \notin Slot(start, ub) /\ IsEmpty(st.cache, i)
      <4>1. i \notin Slot(start, ub)
        <5>1. i \in Slot(start, ub) => d.pos[i] \in Positions
          BY <1>2, <2>4, <2>5, SlotCells DEF Filled
        <5> QED
          BY <3>9, <5>1, PositionsAreNat DEF IsEmpty
      <4> QED
        BY <2>5, <3>9, <4>1 DEF Filled, IsEmpty
    <3>10. \A i \in Cells : IsEmpty(d, i) =>
                IsEmpty(c, i) /\ \A m \in 1 .. k : i \notin saved[m].cells
      BY <2>7, <2>9, <3>1, <3>2, <3>6, <3>9
    <3> QED
      BY <2>7, <2>8, <3>5, <3>8, <3>10 DEF Apart
  <2>15. ASSUME NEW j \in k + 1 .. Len(ubatches) PROVE Fresh(d, ubatches[j])
    <3> DEFINE other == ubatches[j]
    <3>1. j \in DOMAIN ubatches /\ j # k /\ j \in k .. Len(ubatches) /\ other \in Seq(Token)
      BY <1>1 DEF MicroBatches
    <3>2. Fresh(st.cache, other)
      BY <2>2, <3>1
    <3>3. \A m \in DOMAIN ub, a \in DOMAIN other : ub[m] # other[a]
      BY <1>1, <3>1 DEF MicroBatches
    <3> HIDE DEF other
    <3>4. Fresh(d, other)
      BY <1>2, <2>2, <2>3, <3>1, <3>2, <3>3, FreshStays DEF d
    <3> QED
      BY <3>4 DEF other
  <2>16. PlaceInv(c, ubatches, k, next)
    BY <1>1, <2>5, <2>7, <2>8, <2>12, <2>13, <2>14, <2>15 DEF PlaceInv
  <2> QED
    BY <2>16 DEF next
<1> QED
  BY <1>1, <1>4, <1>5

\* The search, one micro-batch after another.
LEMMA PlacedSteps ==
    ASSUME NEW c, Sound(c), NEW ubatches, MicroBatches(c, ubatches)
    PROVE  \E after :
            /\ after[0] = [cache |-> c, success |-> TRUE, saved |-> <<>>]
            /\ \A k \in 1 .. Len(ubatches) : after[k] = Place(after[k - 1], ubatches[k])
            /\ \A k \in 0 .. Len(ubatches) : PlaceInv(c, ubatches, k, after[k])
            /\ Placed(c, ubatches) = after[Len(ubatches)]
<1> DEFINE n == Len(ubatches)
           base == [cache |-> c, success |-> TRUE, saved |-> <<>>]
           S == [k \in 0 .. n |-> {st \in PlaceState : PlaceInv(c, ubatches, k, st)}]
           step == [k \in 1 .. n |-> [st \in PlaceState |-> Place(st, ubatches[k])]]
           Good(f) == f = [k \in 0 .. n |->
                        IF k = 0 THEN base ELSE Place(f[k - 1], ubatches[k])]
           After == CHOOSE f : Good(f)
<1>1. n \in Nat /\ c \in CacheType
  BY DEF MicroBatches, Sound
<1>2. base \in S[0]
  <2>1. /\ base.cache = c /\ base.success /\ base.saved = <<>> /\ Len(base.saved) = 0
        /\ base \in PlaceState
    BY <1>1 DEF PlaceState
  <2> HIDE DEF base
  <2>2. CacheBefore(base, 1) = c
    BY <2>1 DEF CacheBefore
  <2>3. Undoable(base, ubatches)
    BY <2>1 DEF Undoable
  <2>4. Apart(c, base, ubatches)
    BY <2>1 DEF Apart
  <2>5. \A j \in 0 + 1 .. Len(ubatches) : Fresh(base.cache, ubatches[j])
    BY <2>1 DEF MicroBatches
  <2>6. PlaceInv(c, ubatches, 0, base)
    BY <2>1, <2>2, <2>3, <2>4, <2>5 DEF PlaceInv
  <2> QED
    BY <1>1, <2>1, <2>6
<1>3. \A k \in 1 .. n : \A st \in S[k - 1] :
            st \in PlaceState /\ step[k][st] = Place(st, ubatches[k]) /\ Place(st, ubatches[k]) \in S[k]
  <2> SUFFICES ASSUME NEW k \in 1 .. n, NEW st \in S[k - 1]
               PROVE  st \in PlaceState /\ step[k][st] = Place(st, ubatches[k])
                      /\ Place(st, ubatches[k]) \in S[k]
    OBVIOUS
  <2>1. k - 1 \in 0 .. n /\ k \in 0 .. n
    BY <1>1
  <2>2. st \in PlaceState /\ PlaceInv(c, ubatches, k - 1, st)
    BY <2>1
  <2>3. PlaceInv(c, ubatches, k, Place(st, ubatches[k]))
    BY <2>2, PlaceStep
  <2>4. Place(st, ubatches[k]) \in PlaceState
    BY <2>3 DEF PlaceInv
  <2> QED
    BY <2>1, <2>2, <2>3, <2>4
<1> HIDE DEF S, step, base, n
<1>4. \A k \in 1 .. n : \A st \in S[k - 1] : step[k][st] \in S[k]
  BY <1>3
<1>5. PICK f : Solves(f, n, base, step) /\ \A k \in 0 .. n : f[k] \in S[k]
  BY <1>1, <1>2, <1>4, Recursion
<1>6. \A k \in 1 .. n : step[k][f[k - 1]] = Place(f[k - 1], ubatches[k])
  <2>1. \A k \in 1 .. n : k - 1 \in 0 .. n
    BY <1>1
  <2> QED
    BY <1>3, <1>5, <2>1
<1>7. Good(f)
  <2>1. \A k \in 0 .. n : k = 0 \/ k \in 1 .. n
    BY <1>1
  <2>2. \A k \in 0 .. n : f[k] = IF k = 0 THEN base ELSE Place(f[k - 1], ubatches[k])
    BY <1>5, <1>6, <2>1 DEF Solves
  <2>3. f = [k \in 0 .. n |-> f[k]]
    BY <1>5 DEF Solves
  <2> QED
    BY <2>2, <2>3
<1>8. Good(After)
  BY <1>7
<1> HIDE DEF After
<1>9. /\ After[0] = base
      /\ \A k \in 1 .. n : After[k] = Place(After[k - 1], ubatches[k])
  <2>1. 0 \in 0 .. n /\ \A k \in 1 .. n : k \in 0 .. n /\ k # 0
    BY <1>1
  <2> QED
    BY <1>8, <2>1
<1>10. \A k \in 0 .. n : After[k] \in S[k]
  <2>1. \A k \in 1 .. n : After[k - 1] \in S[k - 1] => After[k] \in S[k]
    BY <1>3, <1>9
  <2>2. After[0] \in S[0]
    BY <1>2, <1>9
  <2> QED
    BY <1>1, <2>1, <2>2, Stays
<1>11. Placed(c, ubatches) = After[n]
  BY DEF Placed, After, n, base
<1>12. \A k \in 0 .. n : PlaceInv(c, ubatches, k, After[k])
  BY <1>10 DEF S
<1> QED
  BY <1>9, <1>11, <1>12 DEF n, base

\* The recovery stack after all micro-batches.
LEMMA PlacedInv ==
    ASSUME NEW c, Sound(c), NEW ubatches, MicroBatches(c, ubatches)
    PROVE  PlaceInv(c, ubatches, Len(ubatches), Placed(c, ubatches))
<1>1. Len(ubatches) \in 0 .. Len(ubatches)
  BY DEF MicroBatches
<1> QED
  BY <1>1, PlacedSteps

\* prepare puts the cells back as they were: what it places it can take out
\* again, in the reverse order, whether or not all micro-batches found a slot.
\* When they all did, the slots are runs of cells free before the first of them,
\* with no cell in common.
THEOREM PlacingIsUndone ==
    ASSUME NEW c, Sound(c), NEW ubatches, MicroBatches(c, ubatches)
    PROVE  LET placed == Placed(c, ubatches)
           IN  /\ Restored(placed.cache, placed.saved) = c
               /\ placed.success => Len(placed.saved) = Len(ubatches)
               /\ Apart(c, placed, ubatches)
<1> DEFINE st == Placed(c, ubatches)
<1>1. PlaceInv(c, ubatches, Len(ubatches), st)
  BY PlacedInv
<1> HIDE DEF st
<1> DEFINE saved == st.saved
           n == Len(saved)
           S == [k \in 0 .. n |-> {CacheBefore(st, n + 1 - k)}]
           step == [k \in 1 .. n |-> [x \in S[k - 1] |-> RestoreOne(x, saved[n + 1 - k])]]
           Good(f) == f = [k \in 0 .. n |->
                        IF k = 0 THEN st.cache ELSE RestoreOne(f[k - 1], saved[n + 1 - k])]
           Back == CHOOSE f : Good(f)
<1>2. /\ st \in PlaceState /\ n \in Nat /\ n <= Len(ubatches)
      /\ saved \in Seq([cells : SUBSET Cells, old : CacheType])
  BY <1>1 DEF PlaceInv, PlaceState
<1>3. st.cache \in S[0]
  <2>1. ~(n + 1 <= n) /\ n + 1 - 0 = n + 1
    BY <1>2
  <2> QED
    BY <1>2, <2>1 DEF CacheBefore
<1>4. \A k \in 1 .. n : \A x \in S[k - 1] :
            /\ step[k][x] = RestoreOne(x, saved[n + 1 - k])
            /\ RestoreOne(x, saved[n + 1 - k]) \in S[k]
  <2> SUFFICES ASSUME NEW k \in 1 .. n, NEW x \in S[k - 1]
               PROVE  RestoreOne(x, saved[n + 1 - k]) \in S[k]
    OBVIOUS
  <2> DEFINE m == n + 1 - k
  <2>1. /\ m \in 1 .. n /\ m <= n /\ m + 1 = n + 1 - (k - 1)
        /\ k - 1 \in 0 .. n /\ k \in 0 .. n /\ m \in DOMAIN ubatches
        /\ ubatches \in Seq(Seq(Token) \ {<<>>})
    BY <1>2 DEF MicroBatches
  <2>2. x = CacheBefore(st, m + 1) /\ S[k] = {CacheBefore(st, m)}
    BY <2>1
  <2>3. CacheBefore(st, m) = saved[m].old
    BY <2>1 DEF CacheBefore
  <2> HIDE DEF m, S
  <2> DEFINE start == StartOf(saved, m)
  <2>4. /\ saved[m].cells = Slot(start, ubatches[m])
        /\ Sound(saved[m].old)
        /\ FreeRun(saved[m].old, start, Len(ubatches[m]))
        /\ Fresh(saved[m].old, ubatches[m])
        /\ x = ApplyUbatch(saved[m].old, start, ubatches[m])
    BY <1>1, <2>1, <2>2 DEF PlaceInv, Undoable
  <2>5. saved[m] = [cells |-> Slot(start, ubatches[m]), old |-> saved[m].old]
    <3>1. saved[m] \in [cells : SUBSET Cells, old : CacheType]
      <4> DEFINE E == [cells : SUBSET Cells, old : CacheType]
      <4>1. saved \in Seq(E) /\ m \in 1 .. Len(saved)
        BY <1>2, <2>1 DEF n
      <4> HIDE DEF E, saved
      <4>2. saved[m] \in E
        BY <4>1
      <4> QED
        BY <4>2 DEF E
    <3>2. \A e \in [cells : SUBSET Cells, old : CacheType] : e = [cells |-> e.cells, old |-> e.old]
      OBVIOUS
    <3>3. saved[m] = [cells |-> saved[m].cells, old |-> saved[m].old]
      BY <3>1, <3>2
    <3> QED
      BY <2>4, <3>3
  <2> HIDE DEF start
  <2>6. ubatches[m] \in Seq(Token)
    BY <2>1
  <2>7. RestoreOne(x, saved[m]) = saved[m].old
    BY <2>4, <2>5, <2>6, RestoreUndoesApply
  <2> QED
    BY <2>2, <2>3, <2>7 DEF m
<1> HIDE DEF S, step, n
<1>5. PICK f : Solves(f, n, st.cache, step) /\ \A k \in 0 .. n : f[k] \in S[k]
  <2>1. \A k \in 1 .. n : \A x \in S[k - 1] : step[k][x] \in S[k]
    BY <1>4
  <2> QED
    BY <1>2, <1>3, <2>1, Recursion
<1>6. \A k \in 1 .. n : step[k][f[k - 1]] = RestoreOne(f[k - 1], saved[n + 1 - k])
  <2>1. \A k \in 1 .. n : k - 1 \in 0 .. n
    BY <1>2
  <2> QED
    BY <1>4, <1>5, <2>1
<1>7. Good(f)
  <2>1. \A k \in 0 .. n : k = 0 \/ k \in 1 .. n
    BY <1>2
  <2>2. \A k \in 0 .. n :
            f[k] = IF k = 0 THEN st.cache ELSE RestoreOne(f[k - 1], saved[n + 1 - k])
    BY <1>5, <1>6, <2>1 DEF Solves
  <2>3. f = [k \in 0 .. n |-> f[k]]
    BY <1>5 DEF Solves
  <2> QED
    BY <2>2, <2>3
<1>8. Good(Back)
  BY <1>7
<1> HIDE DEF Back
<1>9. /\ Back[0] = st.cache
      /\ \A k \in 1 .. n : Back[k] = RestoreOne(Back[k - 1], saved[n + 1 - k])
  <2>1. 0 \in 0 .. n /\ \A k \in 1 .. n : k \in 0 .. n /\ k # 0
    BY <1>2
  <2> QED
    BY <1>8, <2>1
<1>10. \A k \in 0 .. n : Back[k] \in S[k]
  <2>1. \A k \in 1 .. n : Back[k - 1] \in S[k - 1] => Back[k] \in S[k]
    BY <1>4, <1>9
  <2>2. Back[0] \in S[0]
    BY <1>3, <1>9
  <2> QED
    BY <1>2, <2>1, <2>2, Stays
<1>11. Restored(st.cache, saved) = Back[n]
  BY DEF Restored, Back, n
<1>12. S[n] = {c}
  <2>1. n \in 0 .. n /\ n + 1 - n = 1
    BY <1>2
  <2> QED
    BY <1>1, <2>1 DEF S, PlaceInv
<1>13. Restored(st.cache, saved) = c
  <2>1. n \in 0 .. n
    BY <1>2
  <2> QED
    BY <1>10, <1>11, <1>12, <2>1
<1> QED
  BY <1>1, <1>13 DEF PlaceInv, st

(***************************************************************************)
(* Defragmentation.                                                        *)
(***************************************************************************)

\* What mv makes of the cells.
Shifted(c, src, dst, d) ==
    /\ \A i \in Cells :
        /\ d.pos[i] = IF i = src THEN NoPos ELSE IF i = dst THEN c.pos[src] ELSE c.pos[i]
        /\ d.members[i] = IF i = src THEN {} ELSE IF i = dst THEN c.members[src] ELSE c.members[i]
    /\ d.used = (c.used \ {src}) \cup {dst}
    /\ d.seq_pos = c.seq_pos /\ d.head = c.head

\* mv to an empty cell keeps the indexes in agreement with the cells: the
\* counts stay, the position has its one cell elsewhere.
LEMMA MvSound ==
    ASSUME NEW c, Sound(c), NEW src \in Cells, NEW dst \in Cells,
           ~IsEmpty(c, src), IsEmpty(c, dst)
    PROVE  Shifted(c, src, dst, Mv(c, src, dst)) /\ Sound(Mv(c, src, dst))
<1> DEFINE pos == [c.pos EXCEPT ![dst] = c.pos[src], ![src] = NoPos]
           members == [c.members EXCEPT ![dst] = c.members[src], ![src] = {}]
           used == (c.used \ {src}) \cup {dst}
           d == Mv(c, src, dst)
<1>1. /\ c \in CacheType /\ src # dst
      /\ c.pos \in [Cells -> Positions \cup {NoPos}]
      /\ c.members \in [Cells -> SUBSET Seqs]
      /\ c.used \in SUBSET Cells
  BY CacheFields DEF Sound, IsEmpty
<1>2. \A i \in Cells :
        /\ pos[i] = IF i = src THEN NoPos ELSE IF i = dst THEN c.pos[src] ELSE c.pos[i]
        /\ members[i] = IF i = src THEN {} ELSE IF i = dst THEN c.members[src] ELSE c.members[i]
  BY <1>1
<1>3. /\ pos \in [Cells -> Positions \cup {NoPos}]
      /\ members \in [Cells -> SUBSET Seqs]
      /\ used \in SUBSET Cells
  BY <1>1
<1>4. d = [c EXCEPT !.pos = pos, !.members = members, !.used = used]
  BY DEF Mv
<1> HIDE DEF d, pos, members, used
<1>5. /\ d.pos = pos /\ d.members = members /\ d.used = used
      /\ d.seq_pos = c.seq_pos /\ d.head = c.head
      /\ d \in CacheType
  BY <1>1, <1>3, <1>4 DEF CacheType
<1>6. Shifted(c, src, dst, d)
  BY <1>2, <1>5 DEF Shifted, used
<1>7. ASSUME NEW i \in Cells, NEW s \in Seqs, NEW p \in Positions
      PROVE  Holds(d, i, s, p) <=>
                \/ i # src /\ i # dst /\ Holds(c, i, s, p)
                \/ i = dst /\ Holds(c, src, s, p)
  BY <1>1, <1>2, <1>5, PositionsAreNat DEF Holds
<1>8. \A s \in Seqs, p \in Positions : ~Holds(c, dst, s, p)
  BY PositionsAreNat DEF Holds, IsEmpty
<1>9. Single(d)
  BY <1>7 DEF Sound, Single
<1>10. Counted(d)
  <2>0. Counted(c) /\ d.seq_pos = c.seq_pos
    BY <1>5 DEF Sound
  <2> SUFFICES ASSUME NEW s \in Seqs, NEW p \in Positions
               PROVE  (\E i \in Cells : Holds(d, i, s, p)) <=> \E i \in Cells : Holds(c, i, s, p)
    BY <2>0 DEF Counted
  <2>1. ASSUME NEW i \in Cells, Holds(d, i, s, p) PROVE \E j \in Cells : Holds(c, j, s, p)
    BY <1>7, <2>1
  <2>2. ASSUME NEW i \in Cells, Holds(c, i, s, p) PROVE \E j \in Cells : Holds(d, j, s, p)
    <3>1. i # dst
      BY <1>8, <2>2
    <3> QED
      BY <1>7, <2>2, <3>1
  <2> QED
    BY <2>1, <2>2
<1>11. \A i \in Cells : d.pos[i] = NoPos <=> d.members[i] = {}
  BY <1>2, <1>5 DEF Sound
<1>12. d.used = {i \in Cells : d.pos[i] # NoPos}
  <2>1. d.used = (c.used \ {src}) \cup {dst}
    BY <1>5 DEF used
  <2>2. c.used = {i \in Cells : c.pos[i] # NoPos} /\ c.pos[src] # NoPos
    BY DEF Sound, IsEmpty
  <2> QED
    BY <1>1, <1>2, <1>5, <2>1, <2>2
<1> QED
  BY <1>5, <1>6, <1>9, <1>10, <1>11, <1>12 DEF Sound, d

\* The highest n elements of a set are n at most.
LEMMA HighestAre ==
    ASSUME NEW S \in SUBSET Nat, IsFiniteSet(S), NEW n \in Nat
    PROVE  /\ Highest(S, n) \subseteq S /\ IsFiniteSet(Highest(S, n))
           /\ Cardinality(Highest(S, n)) \in 0 .. n
<1> DEFINE H == Highest(S, n)
<1>1. H \subseteq S /\ IsFiniteSet(H) /\ Cardinality(H) \in Nat
  <2>1. H \subseteq S
    BY DEF Highest
  <2> HIDE DEF H
  <2> QED
    BY <2>1, FS_Subset, FS_CardinalityType
<1>2. CASE H = {}
  BY <1>1, <1>2, FS_EmptySet
<1>3. CASE H # {}
  <2> DEFINE h == MinOf(H)
             above == {j \in S : j > h}
  <2>1. h \in H /\ \A x \in H : h <= x
    <3> HIDE DEF H
    <3> QED
      BY <1>1, <1>3, MinIs
  <2>2. Cardinality(above) < n
    <3> HIDE DEF h
    <3> QED
      BY <2>1 DEF Highest
  <2> HIDE DEF h, H
  <2>3. H \ {h} \subseteq above
    BY <1>1, <2>1
  <2>4. IsFiniteSet(above) /\ Cardinality(H \ {h}) <= Cardinality(above)
    <3>1. IsFiniteSet(above)
      BY FS_Subset
    <3> HIDE DEF above
    <3> QED
      BY <2>3, <3>1, FS_Subset
  <2>5. Cardinality(H \ {h}) = Cardinality(H) - 1
    BY <1>1, <2>1, FS_RemoveElement
  <2>6. Cardinality(above) \in Nat
    BY <2>4, FS_CardinalityType
  <2> HIDE DEF above
  <2> QED
    BY <1>1, <2>2, <2>4, <2>5, <2>6 DEF H
<1> QED
  BY <1>1, <1>2, <1>3

\* A set of numbers from a on with every number below one of its own is a run:
\* it has its first r numbers when it has more than r.
LEMMA RunHas ==
    ASSUME NEW a \in Nat, NEW b \in Int, NEW R \in SUBSET (a .. b),
           \A x \in R : \A y \in a .. x : y \in R,
           NEW r \in Nat, r < Cardinality(R)
    PROVE  a + r \in R
<1>1. SUFFICES ASSUME a + r \notin R PROVE FALSE
  OBVIOUS
<1>2. R \subseteq a .. a + r - 1
  <2> SUFFICES ASSUME NEW x \in R, ~(x < a + r) PROVE FALSE
    OBVIOUS
  <2>1. a + r \in a .. x
    OBVIOUS
  <2> QED
    BY <1>1, <2>1
<1>3. IsFiniteSet(a .. a + r - 1) /\ Cardinality(a .. a + r - 1) = r
  <2> DEFINE e == a + r - 1
  <2>1. a \in Int /\ e \in Int
    OBVIOUS
  <2>2. IsFiniteSet(a .. e) /\ Cardinality(a .. e) = IF a > e THEN 0 ELSE e - a + 1
    <3> HIDE DEF e
    <3> QED
      BY <2>1, FS_Interval
  <2> QED
    BY <2>2
<1>4. Cardinality(R) <= r /\ Cardinality(R) \in Nat
  <2>1. IsFiniteSet(R)
    BY <1>2, <1>3, FS_Subset
  <2> DEFINE I == a .. a + r - 1
  <2>2. R \subseteq I /\ IsFiniteSet(I) /\ Cardinality(I) = r
    BY <1>2, <1>3
  <2> HIDE DEF I
  <2> QED
    BY <2>1, <2>2, FS_Subset, FS_CardinalityType
<1> QED
  BY <1>4

\* How many elements of a set are below one of them.
Rank(S, a) == Cardinality({j \in S : j < a})

\* The elements of a set have different ranks, all less than how many there are.
LEMMA Ranks ==
    ASSUME NEW S \in SUBSET Nat, IsFiniteSet(S)
    PROVE  /\ \A a \in S : Rank(S, a) \in Nat /\ Rank(S, a) < Cardinality(S)
           /\ \A a, b \in S : Rank(S, a) = Rank(S, b) => a = b
<1> DEFINE Below(a) == {j \in S : j < a}
<1>1. ASSUME NEW a \in S, NEW T \in SUBSET S, Below(a) \subseteq T, a \in T
      PROVE  Rank(S, a) \in Nat /\ Rank(S, a) < Cardinality(T) /\ Cardinality(T) \in Nat
  <2> DEFINE B == Below(a)
             U == T \ {a}
  <2>1. IsFiniteSet(T) /\ IsFiniteSet(U) /\ Cardinality(U) = Cardinality(T) - 1
    <3>1. IsFiniteSet(T)
      BY FS_Subset
    <3> QED
      BY <1>1, <3>1, FS_RemoveElement
  <2>2. B \subseteq U
    BY <1>1
  <2>3. Rank(S, a) = Cardinality(B)
    BY DEF Rank
  <2> HIDE DEF B, U
  <2>4. IsFiniteSet(B) /\ Cardinality(B) <= Cardinality(U)
    BY <2>1, <2>2, FS_Subset
  <2>5. Cardinality(B) \in Nat /\ Cardinality(T) \in Nat
    BY <2>1, <2>4, FS_CardinalityType
  <2> QED
    BY <2>1, <2>3, <2>4, <2>5
<1>2. \A a \in S : Rank(S, a) \in Nat /\ Rank(S, a) < Cardinality(S)
  BY <1>1
<1>3. ASSUME NEW a \in S, NEW b \in S, a < b PROVE Rank(S, a) < Rank(S, b)
  <2> DEFINE T == Below(b)
  <2>1. Below(a) \subseteq T /\ a \in T /\ T \in SUBSET S
    <3>1. \A x \in S : x \in Nat
      OBVIOUS
    <3>2. \A x \in S : x < a => x < b
      BY <1>3, <3>1
    <3> QED
      BY <1>3, <3>2
  <2>2. Rank(S, b) = Cardinality(T)
    BY DEF Rank
  <2> HIDE DEF T
  <2>3. Rank(S, a) < Cardinality(T)
    BY <1>1, <2>1
  <2> QED
    BY <2>2, <2>3
<1>4. ASSUME NEW a \in S, NEW b \in S, Rank(S, a) = Rank(S, b) PROVE a = b
  <2>1. CASE a < b
    BY <1>2, <1>3, <1>4, <2>1
  <2>2. CASE b < a
    BY <1>2, <1>3, <1>4, <2>2
  <2> QED
    BY <2>1, <2>2
<1> QED
  BY <1>2, <1>4

\* One past the last used cell.
End(c) == IF c.used = {} THEN 0 ELSE MaxOf(c.used) + 1

Moves(plan, k) == plan.ids[k] \notin {Len(plan.ids), k - 1}

\* A plan moves used cells, each to an empty cell of its own below plan.next.
PlanOK(c, plan) ==
    /\ plan \in [ids : Seq(0 .. End(c)), n_moves : Nat, next : Nat]
    /\ Len(plan.ids) = End(c)
    /\ \A k \in 1 .. End(c) : Moves(plan, k) =>
            /\ k - 1 \in Cells /\ ~IsEmpty(c, k - 1)
            /\ plan.ids[k] \in Cells /\ IsEmpty(c, plan.ids[k])
            /\ plan.ids[k] < plan.next
    /\ \A j, k \in 1 .. End(c) :
            Moves(plan, j) /\ Moves(plan, k) /\ plan.ids[j] = plan.ids[k] => j = k

\* The used cells are below End, and no more of them than that.
LEMMA EndBounds ==
    ASSUME NEW c \in CacheType
    PROVE  /\ End(c) \in 0 .. NCells
           /\ Cardinality(c.used) \in 0 .. End(c)
<1>1. /\ c.used \in SUBSET Cells /\ c.used \in SUBSET Nat /\ NCells \in Nat
      /\ IsFiniteSet(c.used) /\ Cardinality(c.used) \in Nat
  BY CacheFields, CellsFinite, SizesAssumption DEF Cells
<1>2. CASE c.used = {}
  BY <1>1, <1>2, FS_EmptySet DEF End
<1>3. CASE c.used # {}
  <2>1. MaxOf(c.used) \in c.used /\ \A x \in c.used : x <= MaxOf(c.used)
    <3> DEFINE n == NCells - 1
    <3>1. n \in Nat /\ c.used \in SUBSET (0 .. n)
      BY <1>1, SizesAssumption DEF Cells
    <3> HIDE DEF n
    <3> QED
      BY <1>3, <3>1, MaxIs
  <2> DEFINE m == MaxOf(c.used)
  <2>2. m \in Cells /\ End(c) = m + 1
    BY <1>1, <1>3, <2>1 DEF End
  <2> HIDE DEF m
  <2>3. m \in 0 .. NCells - 1 /\ m \in Nat
    BY <1>1, <2>2 DEF Cells
  <2>4. c.used \subseteq 0 .. m
    BY <1>1, <2>1 DEF m
  <2>5. IsFiniteSet(0 .. m) /\ Cardinality(0 .. m) = m + 1
    BY <2>3, FS_Interval
  <2>6. Cardinality(c.used) <= m + 1
    BY <2>4, <2>5, FS_Subset
  <2> QED
    BY <1>1, <2>2, <2>3, <2>6
<1> QED
  BY <1>2, <1>3

\* Filling a hole keeps the plan in order: its cells get the last used cells
\* that no move is planned for, one each.
LEMMA FillHoleOK ==
    ASSUME NEW c \in CacheType, NEW plan, PlanOK(c, plan), NEW i0 \in Nat, plan.next <= i0
    PROVE  PlanOK(c, FillHole(c, plan, i0))
<1> DEFINE n_used == Cardinality(c.used)
           n_kv == Len(plan.ids)
           hole == {i \in i0 .. n_used - 1 : \A j \in i0 .. i : IsEmpty(c, j)}
           tail == {i \in i0 + 1 .. n_kv - 1 : ~IsEmpty(c, i) /\ plan.ids[i + 1] = n_kv}
           source == Highest(tail, Cardinality(hole))
           blockOf(i) == Cardinality({j \in source : j <= i /\ j - 1 \notin source})
           moved == {i \in source : plan.n_moves + blockOf(i) <= MaxMoves}
           moves == plan.n_moves + blockOf(MaxOf(source))
           ids == [k \in 1 .. n_kv |->
                    IF k - 1 \in moved THEN i0 + Cardinality({j \in source : j < k - 1})
                    ELSE plan.ids[k]]
           n_moves == IF moves < MaxMoves THEN moves ELSE MaxMoves
           new == FillHole(c, plan, i0)
<1>1. new = [ids |-> ids, n_moves |-> n_moves, next |-> i0 + Cardinality(hole)]
  BY DEF FillHole
<1>2. /\ n_kv = End(c) /\ n_kv \in 0 .. NCells /\ n_used \in 0 .. n_kv
      /\ NCells \in Nat /\ MaxMoves \in Nat
      /\ plan.ids \in Seq(0 .. n_kv) /\ plan.n_moves \in Nat /\ plan.next \in Nat
  BY EndBounds, SizesAssumption DEF PlanOK
<1> HIDE DEF new, n_used, n_kv
<1>3. IsFiniteSet(hole) /\ Cardinality(hole) \in Nat
  <2>1. IsFiniteSet(i0 .. n_used - 1)
    BY <1>2, FS_Interval
  <2> QED
    BY <2>1, FS_Subset, FS_CardinalityType
<1>4. \A r \in Nat : r < Cardinality(hole) => i0 + r \in hole
  <2>1. hole \in SUBSET (i0 .. n_used - 1) /\ n_used - 1 \in Int
    BY <1>2
  <2>2. \A x \in hole : \A y \in i0 .. x : y \in hole
    BY <1>2
  <2> HIDE DEF hole
  <2> QED
    BY <2>1, <2>2, RunHas
<1>5. tail \in SUBSET Nat /\ IsFiniteSet(tail)
  <2>1. tail \subseteq i0 + 1 .. n_kv - 1
    OBVIOUS
  <2>2. IsFiniteSet(i0 + 1 .. n_kv - 1)
    BY <1>2, FS_Interval
  <2>3. tail \in SUBSET Nat
    <3>1. \A x \in i0 + 1 .. n_kv - 1 : x \in Nat
      BY <1>2
    <3> QED
      BY <3>1
  <2> DEFINE I == i0 + 1 .. n_kv - 1
  <2>4. tail \subseteq I /\ IsFiniteSet(I)
    BY <2>1, <2>2
  <2> HIDE DEF tail, I
  <2> QED
    BY <2>3, <2>4, FS_Subset
<1>6. /\ source \subseteq tail /\ source \in SUBSET Nat /\ IsFiniteSet(source)
      /\ Cardinality(source) \in Nat /\ Cardinality(source) <= Cardinality(hole)
  <2> DEFINE n == Cardinality(hole)
             H == Highest(tail, n)
  <2>1. source = H /\ n \in Nat
    BY <1>3
  <2> HIDE DEF tail, n
  <2>2. H \subseteq tail /\ IsFiniteSet(H) /\ Cardinality(H) \in 0 .. n
    BY <1>5, <2>1, HighestAre
  <2> HIDE DEF H, source
  <2>3. source \subseteq tail /\ IsFiniteSet(source) /\ Cardinality(source) \in 0 .. n
    BY <2>1, <2>2
  <2> QED
    BY <1>5, <2>1, <2>3 DEF n
<1>7. \A a \in source : /\ a \in tail
                        /\ Rank(source, a) \in Nat
                        /\ i0 + Rank(source, a) \in hole
                        /\ i0 + Rank(source, a) < i0 + Cardinality(hole)
  <2> HIDE DEF source, tail, hole
  <2>1. \A a \in source : /\ Rank(source, a) \in Nat
                          /\ Rank(source, a) < Cardinality(source)
    BY <1>6, Ranks
  <2>2. \A a \in source : Rank(source, a) < Cardinality(hole)
    BY <1>3, <1>6, <2>1
  <2> QED
    BY <1>3, <1>4, <1>6, <2>1, <2>2
<1>8. \A a, b \in source : Rank(source, a) = Rank(source, b) => a = b
  <2> HIDE DEF source
  <2> QED
    BY <1>6, Ranks
<1>9. n_moves \in Nat
  <2> DEFINE B == {j \in source : j <= MaxOf(source) /\ j - 1 \notin source}
  <2>1. B \subseteq source
    OBVIOUS
  <2>2. moves = plan.n_moves + Cardinality(B)
    OBVIOUS
  <2> HIDE DEF B, source
  <2>3. Cardinality(B) \in Nat
    BY <1>6, <2>1, FS_Subset, FS_CardinalityType
  <2> HIDE DEF moves
  <2> QED
    BY <1>2, <2>2, <2>3
<1>10. \A i \in hole : i \in 0 .. n_used - 1 /\ i \in Nat /\ i >= i0 /\ IsEmpty(c, i)
  BY <1>2
<1>11. \A i \in tail : i + 1 \in 1 .. n_kv /\ ~IsEmpty(c, i) /\ plan.ids[i + 1] = n_kv
  BY <1>2
<1>12. \A i \in moved : i \in source
  OBVIOUS
<1> HIDE DEF source, tail, hole, moved, n_moves
<1>13. \A k \in 1 .. n_kv :
          ids[k] = IF k - 1 \in moved THEN i0 + Rank(source, k - 1) ELSE plan.ids[k]
  BY DEF Rank
<1>14. \A k \in 1 .. n_kv : k - 1 \in moved =>
          /\ ids[k] = i0 + Rank(source, k - 1) /\ ids[k] \in hole
          /\ ids[k] < i0 + Cardinality(hole)
          /\ k - 1 \in source /\ k - 1 \in tail
  BY <1>7, <1>12, <1>13
<1>15. ids \in Seq(0 .. n_kv) /\ Len(ids) = n_kv
  <2>1. \A k \in 1 .. n_kv : ids[k] \in 0 .. n_kv
    <3> SUFFICES ASSUME NEW k \in 1 .. n_kv PROVE ids[k] \in 0 .. n_kv
      OBVIOUS
    <3>1. CASE k - 1 \in moved
      <4>1. ids[k] \in 0 .. n_used - 1
        BY <1>10, <1>14, <3>1
      <4> HIDE DEF ids
      <4> QED
        BY <1>2, <4>1
    <3>2. CASE k - 1 \notin moved
      <4>1. ids[k] = plan.ids[k]
        BY <1>13, <3>2
      <4>2. plan.ids[k] \in 0 .. n_kv
        BY <1>2 DEF n_kv
      <4> QED
        BY <4>1, <4>2
    <3> QED
      BY <3>1, <3>2
  <2>2. ids = [k \in 1 .. n_kv |-> ids[k]]
    OBVIOUS
  <2> HIDE DEF ids
  <2> DEFINE m == n_kv
  <2>3. m \in Nat /\ ids \in [1 .. m -> 0 .. m]
    BY <1>2, <2>1, <2>2
  <2> HIDE DEF m
  <2>4. ids \in Seq(0 .. m) /\ Len(ids) = m
    BY <2>3
  <2> QED
    BY <2>4 DEF m
<1> HIDE DEF ids
<1>16. /\ new.ids = ids /\ new.next = i0 + Cardinality(hole)
       /\ new \in [ids : Seq(0 .. End(c)), n_moves : Nat, next : Nat]
  BY <1>1, <1>2, <1>3, <1>9, <1>15
<1>17. \A k \in 1 .. n_kv : k - 1 \notin moved /\ Moves(new, k) => ids[k] = plan.ids[k] /\ Moves(plan, k)
  BY <1>13, <1>15, <1>16 DEF Moves, n_kv
<1>18. ASSUME NEW k \in 1 .. n_kv, Moves(new, k)
       PROVE  /\ k - 1 \in Cells /\ ~IsEmpty(c, k - 1)
              /\ ids[k] \in Cells /\ IsEmpty(c, ids[k]) /\ ids[k] < new.next
  <2>1. CASE k - 1 \in moved
    <3>1. ids[k] \in 0 .. n_used - 1 /\ IsEmpty(c, ids[k]) /\ ids[k] < new.next
      BY <1>10, <1>14, <1>16, <2>1
    <3>2. ~IsEmpty(c, k - 1)
      BY <1>11, <1>14, <2>1
    <3>3. k - 1 \in 0 .. NCells - 1 /\ ids[k] \in 0 .. NCells - 1
      BY <1>2, <3>1
    <3> QED
      BY <3>1, <3>2, <3>3 DEF Cells
  <2>2. CASE k - 1 \notin moved
    <3>1. ids[k] = plan.ids[k] /\ Moves(plan, k) /\ k \in 1 .. End(c)
      BY <1>2, <1>17, <1>18, <2>2
    <3>2. /\ k - 1 \in Cells /\ ~IsEmpty(c, k - 1)
          /\ ids[k] \in Cells /\ IsEmpty(c, ids[k]) /\ ids[k] < plan.next
      BY <3>1 DEF PlanOK
    <3>3. ids[k] \in Int
      BY <1>2, <3>2 DEF Cells
    <3>4. plan.next \in Int /\ new.next \in Int /\ plan.next <= new.next
      BY <1>2, <1>3, <1>16
    <3>5. ids[k] < new.next
      BY <3>2, <3>3, <3>4
    <3> QED
      BY <3>2, <3>5
  <2> QED
    BY <2>1, <2>2
<1>19. ASSUME NEW j \in 1 .. n_kv, NEW k \in 1 .. n_kv,
              Moves(new, j), Moves(new, k), ids[j] = ids[k],
              j - 1 \in moved
       PROVE  j = k
  <2>1. CASE k - 1 \in moved
    <3>1. i0 + Rank(source, j - 1) = i0 + Rank(source, k - 1)
      BY <1>14, <1>19, <2>1
    <3>2. /\ Rank(source, j - 1) \in Nat /\ Rank(source, k - 1) \in Nat
          /\ j - 1 \in source /\ k - 1 \in source
      BY <1>7, <1>14, <1>19, <2>1
    <3>3. Rank(source, j - 1) = Rank(source, k - 1)
      BY <3>1, <3>2
    <3> QED
      BY <1>8, <3>2, <3>3
  <2>2. CASE k - 1 \notin moved
    <3>1. ids[k] = plan.ids[k] /\ Moves(plan, k) /\ k \in 1 .. End(c)
      BY <1>2, <1>17, <1>19, <2>2
    <3>2. ids[k] < plan.next
      BY <3>1 DEF PlanOK
    <3>3. ids[k] \in Nat /\ ids[k] >= i0
      BY <1>10, <1>14, <1>19
    <3> QED
      BY <1>2, <3>2, <3>3
  <2> QED
    BY <2>1, <2>2
<1>20. ASSUME NEW j \in 1 .. n_kv, NEW k \in 1 .. n_kv,
              Moves(new, j), Moves(new, k), ids[j] = ids[k]
       PROVE  j = k
  <2>1. CASE j - 1 \in moved
    BY <1>19, <1>20, <2>1
  <2>2. CASE k - 1 \in moved
    BY <1>19, <1>20, <2>2
  <2>3. CASE j - 1 \notin moved /\ k - 1 \notin moved
    <3>1. Moves(plan, j) /\ Moves(plan, k) /\ plan.ids[j] = plan.ids[k]
      BY <1>17, <1>20, <2>3
    <3> QED
      BY <1>2, <3>1 DEF PlanOK
  <2> QED
    BY <2>1, <2>2, <2>3
<1>21. PlanOK(c, new)
  BY <1>2, <1>15, <1>16, <1>18, <1>20 DEF PlanOK
<1> QED
  BY <1>21 DEF new

\* So does a visit of a cell.
LEMMA VisitOK ==
    ASSUME NEW c \in CacheType, NEW plan, PlanOK(c, plan), NEW i0 \in Nat
    PROVE  PlanOK(c, Visit(c, plan, i0))
<1>1. plan \in [ids : Seq(0 .. End(c)), n_moves : Nat, next : Nat] /\ End(c) \in Nat
  BY EndBounds, SizesAssumption DEF PlanOK
<1>2. CASE plan.n_moves = MaxMoves \/ i0 < plan.next
  BY <1>2 DEF Visit
<1>3. CASE ~(plan.n_moves = MaxMoves \/ i0 < plan.next) /\ IsEmpty(c, i0)
  <2>1. plan.next <= i0
    BY <1>1, <1>3
  <2> QED
    BY <1>3, <2>1, FillHoleOK DEF Visit
<1>4. CASE ~(plan.n_moves = MaxMoves \/ i0 < plan.next) /\ ~IsEmpty(c, i0)
  <2> DEFINE ids == [plan.ids EXCEPT ![i0 + 1] = i0]
             new == Visit(c, plan, i0)
  <2>1. new = [plan EXCEPT !.ids = ids, !.next = i0 + 1]
    BY <1>4 DEF Visit
  <2>2. \A k \in 1 .. End(c) : ids[k] = IF k = i0 + 1 THEN i0 ELSE plan.ids[k]
    BY <1>1 DEF PlanOK
  <2>3. ids \in Seq(0 .. End(c)) /\ Len(ids) = End(c)
    <3>1. plan.ids \in [1 .. End(c) -> 0 .. End(c)]
      BY <1>1 DEF PlanOK
    <3>2. i0 + 1 \in 1 .. End(c) => i0 \in 0 .. End(c)
      BY <1>1
    <3>3. ids \in [1 .. End(c) -> 0 .. End(c)]
      BY <3>1, <3>2
    <3> HIDE DEF ids
    <3> QED
      BY <1>1, <3>3
  <2> HIDE DEF ids, new
  <2>4. /\ new.ids = ids /\ new.next = i0 + 1
        /\ new \in [ids : Seq(0 .. End(c)), n_moves : Nat, next : Nat]
    <3> DEFINE E == Seq(0 .. End(c))
    <3>1. plan \in [ids : E, n_moves : Nat, next : Nat] /\ ids \in E /\ i0 + 1 \in Nat
      BY <1>1, <2>3
    <3> HIDE DEF E
    <3>2. new.ids = ids /\ new.next = i0 + 1 /\ new \in [ids : E, n_moves : Nat, next : Nat]
      BY <2>1, <3>1
    <3> QED
      BY <3>2 DEF E
  <2>5. \A k \in 1 .. End(c) : Moves(new, k) => Moves(plan, k) /\ ids[k] = plan.ids[k]
    BY <2>2, <2>3, <2>4, SMTT(30) DEF Moves, PlanOK
  <2>6. plan.next < i0 + 1
    BY <1>1, <1>4
  <2>7. \A k \in 1 .. End(c) : Moves(new, k) => ids[k] < i0 + 1
    <3> SUFFICES ASSUME NEW k \in 1 .. End(c), Moves(new, k) PROVE ids[k] < i0 + 1
      OBVIOUS
    <3>1. Moves(plan, k) /\ ids[k] = plan.ids[k]
      BY <2>5
    <3>2. ids[k] < plan.next
      BY <3>1 DEF PlanOK
    <3>3. ids[k] \in Int
      <4>1. ids[k] \in 0 .. End(c)
        BY <2>3
      <4> QED
        BY <4>1
    <3> QED
      BY <1>1, <2>6, <3>2, <3>3
  <2>8. PlanOK(c, new)
    BY <2>3, <2>4, <2>5, <2>7 DEF PlanOK
  <2> QED
    BY <2>8 DEF new
<1> QED
  BY <1>2, <1>3, <1>4

\* The plan before the first visit.
NoMoves(c) == [ids |-> [i \in 1 .. End(c) |-> End(c)], n_moves |-> 0, next |-> 0]

\* defrag_prepare plans moves of used cells to empty cells, one for each, while
\* it visits the first |used| cells.
LEMMA PlanVisits ==
    ASSUME NEW c \in CacheType
    PROVE  \E plans :
             /\ plans[0] = NoMoves(c)
             /\ \A k \in 1 .. Cardinality(c.used) : plans[k] = Visit(c, plans[k - 1], k - 1)
             /\ \A k \in 0 .. Cardinality(c.used) : PlanOK(c, plans[k])
             /\ plans[Cardinality(c.used)] = DefragPlan(c)
<1> DEFINE n == Cardinality(c.used)
           ids == [i \in 1 .. End(c) |-> End(c)]
           base == [ids |-> ids, n_moves |-> 0, next |-> 0]
           Plans == [ids : Seq(0 .. End(c)), n_moves : Nat, next : Nat]
           S == [k \in 0 .. n |-> {plan \in Plans : PlanOK(c, plan)}]
           step == [k \in 1 .. n |-> [plan \in Plans |-> Visit(c, plan, k - 1)]]
           Good(f) == f = [k \in 0 .. n |-> IF k = 0 THEN base ELSE Visit(c, f[k - 1], k - 1)]
           Visited == CHOOSE f : Good(f)
<1>1. n \in Nat /\ End(c) \in Nat
  BY EndBounds, SizesAssumption
<1>2. PlanOK(c, base) /\ base \in Plans
  <2> DEFINE m == End(c)
  <2>1. m \in Nat /\ ids \in [1 .. m -> 0 .. m] /\ \A k \in 1 .. m : ids[k] = m
    BY <1>1
  <2> HIDE DEF m, ids
  <2>2. ids \in Seq(0 .. m) /\ Len(ids) = m /\ \A k \in 1 .. m : ids[k] = m
    BY <2>1
  <2>3. ids \in Seq(0 .. End(c)) /\ Len(ids) = End(c) /\ \A k \in 1 .. End(c) : ids[k] = End(c)
    BY <2>2 DEF m
  <2>4. base \in Plans /\ base.ids = ids
    <3> DEFINE E == Seq(0 .. End(c))
    <3>1. ids \in E
      BY <2>3
    <3> HIDE DEF E
    <3>2. base \in [ids : E, n_moves : Nat, next : Nat] /\ base.ids = ids
      BY <3>1
    <3> QED
      BY <3>2 DEF E
  <2> HIDE DEF base
  <2>5. \A k \in 1 .. End(c) : ~Moves(base, k)
    BY <2>3, <2>4 DEF Moves
  <2> QED
    BY <2>3, <2>4, <2>5 DEF PlanOK
<1>3. base \in S[0]
  <2> HIDE DEF base
  <2> QED
    BY <1>1, <1>2
<1>4. \A k \in 1 .. n : \A x \in S[k - 1] :
            /\ step[k][x] = Visit(c, x, k - 1)
            /\ Visit(c, x, k - 1) \in S[k]
  <2> SUFFICES ASSUME NEW k \in 1 .. n, NEW x \in S[k - 1]
               PROVE  step[k][x] = Visit(c, x, k - 1) /\ Visit(c, x, k - 1) \in S[k]
    OBVIOUS
  <2>1. k - 1 \in 0 .. n /\ k \in 0 .. n /\ k - 1 \in Nat
    BY <1>1
  <2>2. x \in Plans /\ PlanOK(c, x)
    BY <2>1
  <2>3. PlanOK(c, Visit(c, x, k - 1))
    BY <2>1, <2>2, VisitOK
  <2>4. Visit(c, x, k - 1) \in Plans
    BY <2>3 DEF PlanOK
  <2> QED
    BY <2>1, <2>2, <2>3, <2>4
<1> HIDE DEF S, step, base, n
<1>5. PICK f : Solves(f, n, base, step) /\ \A k \in 0 .. n : f[k] \in S[k]
  <2>1. \A k \in 1 .. n : \A x \in S[k - 1] : step[k][x] \in S[k]
    BY <1>4
  <2> QED
    BY <1>1, <1>3, <2>1, Recursion
<1>6. \A k \in 1 .. n : step[k][f[k - 1]] = Visit(c, f[k - 1], k - 1)
  <2>1. \A k \in 1 .. n : k - 1 \in 0 .. n
    BY <1>1
  <2> QED
    BY <1>4, <1>5, <2>1
<1>7. Good(f)
  <2>1. \A k \in 0 .. n : k = 0 \/ k \in 1 .. n
    BY <1>1
  <2>2. \A k \in 0 .. n : f[k] = IF k = 0 THEN base ELSE Visit(c, f[k - 1], k - 1)
    BY <1>5, <1>6, <2>1 DEF Solves
  <2>3. f = [k \in 0 .. n |-> f[k]]
    BY <1>5 DEF Solves
  <2> QED
    BY <2>2, <2>3
<1>8. Good(Visited)
  BY <1>7
<1> HIDE DEF Visited
<1>9. /\ Visited[0] = base
      /\ \A k \in 1 .. n : Visited[k] = Visit(c, Visited[k - 1], k - 1)
  <2>1. 0 \in 0 .. n /\ \A k \in 1 .. n : k \in 0 .. n /\ k # 0
    BY <1>1
  <2> QED
    BY <1>8, <2>1
<1>10. \A k \in 0 .. n : Visited[k] \in S[k]
  <2>1. \A k \in 1 .. n : Visited[k - 1] \in S[k - 1] => Visited[k] \in S[k]
    BY <1>4, <1>9
  <2> QED
    BY <1>1, <1>3, <1>9, <2>1, Stays
<1>11. DefragPlan(c) = Visited[n]
  BY DEF DefragPlan, Visited, n, base, End
<1>12. \A k \in 0 .. n : PlanOK(c, Visited[k])
  BY <1>10 DEF S
<1>13. Visited[0] = NoMoves(c)
  BY <1>9 DEF base, NoMoves
<1>14. \A k \in 1 .. n : Visited[k] = Visit(c, Visited[k - 1], k - 1)
  BY <1>9
<1> QED
  BY <1>11, <1>12, <1>13, <1>14 DEF n

\* So the plan is one of such moves.
LEMMA DefragPlanOK ==
    ASSUME NEW c \in CacheType
    PROVE  PlanOK(c, DefragPlan(c))
<1>1. Cardinality(c.used) \in 0 .. Cardinality(c.used)
  BY EndBounds, SizesAssumption
<1> QED
  BY <1>1, PlanVisits

\* What the first k cells' moves make of the cells.
MovedTo(c, plan, k, d) ==
    /\ Sound(d) /\ d.seq_pos = c.seq_pos
    /\ \A j \in 1 .. End(c) : Moves(plan, j) =>
            IF j <= k
            THEN /\ d.pos[plan.ids[j]] = c.pos[j - 1]
                 /\ d.members[plan.ids[j]] = c.members[j - 1]
                 /\ IsEmpty(d, j - 1)
            ELSE /\ d.pos[j - 1] = c.pos[j - 1] /\ d.members[j - 1] = c.members[j - 1]
                 /\ IsEmpty(d, plan.ids[j])
    /\ \A i \in Cells :
            (\A j \in 1 .. End(c) : Moves(plan, j) => i # j - 1 /\ i # plan.ids[j])
            => d.pos[i] = c.pos[i] /\ d.members[i] = c.members[i]

\* One more move.
LEMMA MoveOne ==
    ASSUME NEW c, Sound(c), NEW plan, PlanOK(c, plan), NEW k \in 1 .. End(c),
           NEW d, MovedTo(c, plan, k - 1, d), Moves(plan, k)
    PROVE  MovedTo(c, plan, k, Mv(d, k - 1, plan.ids[k]))
<1> DEFINE src == k - 1
           dst == plan.ids[k]
           e == Mv(d, src, dst)
<1>1. /\ src \in Cells /\ ~IsEmpty(c, src) /\ dst \in Cells /\ IsEmpty(c, dst)
  BY DEF PlanOK
<1>2. ~(k <= k - 1) /\ k <= k
  OBVIOUS
<1>3. /\ d.pos[src] = c.pos[src] /\ d.members[src] = c.members[src] /\ IsEmpty(d, dst)
      /\ Sound(d) /\ d.seq_pos = c.seq_pos
  BY <1>2 DEF MovedTo
<1>4. ~IsEmpty(d, src)
  BY <1>1, <1>3 DEF IsEmpty
<1> HIDE DEF src, dst, e
<1>5. Shifted(d, src, dst, e) /\ Sound(e)
  BY <1>1, <1>3, <1>4, MvSound DEF e
<1>6. ASSUME NEW j \in 1 .. End(c), Moves(plan, j)
      PROVE  IF j <= k
             THEN /\ e.pos[plan.ids[j]] = c.pos[j - 1]
                  /\ e.members[plan.ids[j]] = c.members[j - 1]
                  /\ IsEmpty(e, j - 1)
             ELSE /\ e.pos[j - 1] = c.pos[j - 1] /\ e.members[j - 1] = c.members[j - 1]
                  /\ IsEmpty(e, plan.ids[j])
  <2>1. /\ j - 1 \in Cells /\ ~IsEmpty(c, j - 1)
        /\ plan.ids[j] \in Cells /\ IsEmpty(c, plan.ids[j])
    BY <1>6 DEF PlanOK
  <2>2. j - 1 # dst /\ plan.ids[j] # src
    BY <1>1, <2>1
  <2>3. CASE j = k
    BY <1>1, <1>3, <1>5, <2>3, <1>2 DEF Shifted, IsEmpty, src, dst
  <2>4. CASE j # k
    <3>1. plan.ids[j] # dst
      BY <1>6, <2>4 DEF PlanOK, dst
    <3>2. j - 1 # src /\ (j <= k <=> j <= k - 1)
      BY <2>4 DEF src
    <3>3. /\ e.pos[j - 1] = d.pos[j - 1] /\ e.members[j - 1] = d.members[j - 1]
          /\ e.pos[plan.ids[j]] = d.pos[plan.ids[j]]
          /\ e.members[plan.ids[j]] = d.members[plan.ids[j]]
      BY <1>5, <2>1, <2>2, <3>1, <3>2 DEF Shifted
    <3> QED
      BY <1>6, <3>2, <3>3 DEF MovedTo, IsEmpty
  <2> QED
    BY <2>3, <2>4
<1>7. ASSUME NEW i \in Cells,
             \A j \in 1 .. End(c) : Moves(plan, j) => i # j - 1 /\ i # plan.ids[j]
      PROVE  e.pos[i] = c.pos[i] /\ e.members[i] = c.members[i]
  <2>1. i # src /\ i # dst
    BY <1>7 DEF src, dst
  <2>2. e.pos[i] = d.pos[i] /\ e.members[i] = d.members[i]
    BY <1>5, <2>1 DEF Shifted
  <2>3. d.pos[i] = c.pos[i] /\ d.members[i] = c.members[i]
    BY <1>7 DEF MovedTo
  <2> QED
    BY <2>2, <2>3
<1>8. e.seq_pos = c.seq_pos
  BY <1>3, <1>5 DEF Shifted
<1>9. MovedTo(c, plan, k, e)
  BY <1>5, <1>6, <1>7, <1>8 DEF MovedTo
<1> QED
  BY <1>9 DEF e, src, dst

\* The head has no part in the agreement of the indexes.
LEMMA HeadMoved ==
    ASSUME NEW c, Sound(c), NEW h \in 0 .. NCells
    PROVE  Sound([c EXCEPT !.head = h])
<1> DEFINE d == [c EXCEPT !.head = h]
<1>1. /\ d.pos = c.pos /\ d.members = c.members /\ d.used = c.used /\ d.seq_pos = c.seq_pos
      /\ d \in CacheType
  BY DEF Sound, CacheType
<1> HIDE DEF d
<1>2. Single(d) /\ Counted(d)
  BY <1>1 DEF Sound, Single, Counted, Holds
<1>3. Sound(d)
  BY <1>1, <1>2 DEF Sound
<1> QED
  BY <1>3 DEF d

\* A defragmentation keeps the indexes in agreement with the cells: every move
\* it makes is of a used cell to a cell that is empty by then, and afterwards
\* the cells that moved are where the plan says, and the others where they were.
THEOREM DefragmentingMovesCells ==
    ASSUME NEW c, Sound(c)
    PROVE  LET plan == DefragPlan(c)
               d == Defragged(c, plan)
           IN  /\ PlanOK(c, plan)
               /\ MovedTo(c, plan, End(c), d)
               /\ d.head = 0
<1> DEFINE plan == DefragPlan(c)
           n == Len(plan.ids)
           S == [k \in 0 .. n |-> {d \in CacheType : MovedTo(c, plan, k, d)}]
           Go(d, k) == IF k \in Moving(plan) THEN Mv(d, k - 1, plan.ids[k]) ELSE d
           step == [k \in 1 .. n |-> [d \in CacheType |-> Go(d, k)]]
           Good(f) == f = [k \in 0 .. n |->
                        IF k = 0 THEN c
                        ELSE IF k \in Moving(plan) THEN Mv(f[k - 1], k - 1, plan.ids[k])
                        ELSE f[k - 1]]
           Moved == CHOOSE f : Good(f)
<1>1. PlanOK(c, plan) /\ c \in CacheType
  BY DefragPlanOK DEF Sound
<1>2. Defragged(c, plan) = [Moved[n] EXCEPT !.head = 0]
  BY DEF Defragged
<1> HIDE DEF plan
<1>3. n = End(c) /\ n \in Nat /\ DOMAIN plan.ids = 1 .. n
  <2>1. plan.ids \in Seq(0 .. End(c)) /\ n = End(c) /\ End(c) \in Nat
    BY <1>1, EndBounds, SizesAssumption DEF PlanOK
  <2> QED
    BY <2>1
<1>4. \A k \in 1 .. n : k \in Moving(plan) <=> Moves(plan, k)
  BY <1>3 DEF Moving, Moves
<1> HIDE DEF n
<1>5. MovedTo(c, plan, 0, c)
  <2>1. \A j \in 1 .. End(c) : ~(j <= 0)
    BY <1>3
  <2> QED
    BY <1>1, <2>1 DEF MovedTo, PlanOK
<1>6. c \in S[0]
  BY <1>1, <1>3, <1>5
<1>7. \A k \in 1 .. n : \A x \in S[k - 1] : step[k][x] = Go(x, k) /\ Go(x, k) \in S[k]
  <2> SUFFICES ASSUME NEW k \in 1 .. n, NEW x \in S[k - 1]
               PROVE  step[k][x] = Go(x, k) /\ Go(x, k) \in S[k]
    OBVIOUS
  <2>1. k - 1 \in 0 .. n /\ k \in 0 .. n /\ k \in 1 .. End(c)
    BY <1>3
  <2>2. x \in CacheType /\ MovedTo(c, plan, k - 1, x)
    BY <2>1
  <2>3. MovedTo(c, plan, k, Go(x, k))
    <3>1. CASE Moves(plan, k)
      BY <1>1, <1>4, <2>1, <2>2, <3>1, MoveOne
    <3>2. CASE ~Moves(plan, k)
      <4>1. Go(x, k) = x
        BY <1>4, <3>2
      <4>2. \A j \in 1 .. End(c) : Moves(plan, j) => (j <= k <=> j <= k - 1)
        BY <2>1, <3>2
      <4> HIDE DEF Go
      <4>3. MovedTo(c, plan, k, x)
        BY <2>2, <4>2 DEF MovedTo
      <4> QED
        BY <4>1, <4>3
    <3> QED
      BY <3>1, <3>2
  <2> HIDE DEF Go
  <2>4. Go(x, k) \in CacheType
    BY <2>3 DEF MovedTo, Sound
  <2> QED
    BY <2>1, <2>2, <2>3, <2>4
<1> HIDE DEF S, step
<1>8. PICK f : Solves(f, n, c, step) /\ \A k \in 0 .. n : f[k] \in S[k]
  <2>1. \A k \in 1 .. n : \A x \in S[k - 1] : step[k][x] \in S[k]
    BY <1>7
  <2> QED
    BY <1>3, <1>6, <2>1, Recursion
<1>9. \A k \in 1 .. n : step[k][f[k - 1]] = Go(f[k - 1], k)
  <2>1. \A k \in 1 .. n : k - 1 \in 0 .. n
    BY <1>3
  <2> HIDE DEF Go
  <2> QED
    BY <1>7, <1>8, <2>1
<1>10. Good(f)
  <2>1. \A k \in 0 .. n : k = 0 \/ k \in 1 .. n
    BY <1>3
  <2>2. \A k \in 0 .. n : f[k] = IF k = 0 THEN c ELSE Go(f[k - 1], k)
    <3> HIDE DEF Go
    <3> QED
      BY <1>8, <1>9, <2>1 DEF Solves
  <2>3. f = [k \in 0 .. n |-> f[k]]
    BY <1>8 DEF Solves
  <2> QED
    BY <2>2, <2>3
<1>11. Good(Moved)
  BY <1>10
<1> HIDE DEF Moved
<1>12. /\ Moved[0] = c
       /\ \A k \in 1 .. n : Moved[k] = Go(Moved[k - 1], k)
  <2>1. 0 \in 0 .. n /\ \A k \in 1 .. n : k \in 0 .. n /\ k # 0
    BY <1>3
  <2> QED
    BY <1>11, <2>1
<1>13. \A k \in 0 .. n : Moved[k] \in S[k]
  <2> HIDE DEF Go
  <2>1. \A k \in 1 .. n : Moved[k - 1] \in S[k - 1] => Moved[k] \in S[k]
    BY <1>7, <1>12
  <2> QED
    BY <1>3, <1>6, <1>12, <2>1, Stays
<1>14. MovedTo(c, plan, End(c), Moved[n])
  <2>1. n \in 0 .. n
    BY <1>3
  <2> QED
    BY <1>3, <1>13, <2>1 DEF S
<1> DEFINE d == [Moved[n] EXCEPT !.head = 0]
<1>15. /\ Sound(d) /\ d.head = 0 /\ d.pos = Moved[n].pos /\ d.members = Moved[n].members
       /\ d.seq_pos = Moved[n].seq_pos
  <2>1. Sound(Moved[n]) /\ 0 \in 0 .. NCells
    BY <1>14, SizesAssumption DEF MovedTo
  <2>2. Sound(d)
    BY <2>1, HeadMoved
  <2> QED
    BY <2>1, <2>2 DEF Sound, CacheType
<1> HIDE DEF d
<1>16. MovedTo(c, plan, End(c), d)
  BY <1>14, <1>15 DEF MovedTo, IsEmpty
<1> QED
  BY <1>1, <1>2, <1>15, <1>16 DEF d, plan

(***************************************************************************)
(* A plan that is not cut short leaves the used cells in one piece: it     *)
(* moves the highest of them, as many as there are holes among the first   *)
(* |used| cells.                                                           *)
(***************************************************************************)

Parts(S, A, B) == IsFiniteSet(S) /\ S = A \cup B /\ A \cap B = {}

\* The parts of a finite set are as many together as it has elements.
LEMMA DisjointCount ==
    ASSUME NEW S, NEW A, NEW B, Parts(S, A, B)
    PROVE  /\ IsFiniteSet(A) /\ IsFiniteSet(B)
           /\ Cardinality(A) \in Nat /\ Cardinality(B) \in Nat
           /\ Cardinality(S) = Cardinality(A) + Cardinality(B)
<1>1. IsFiniteSet(A) /\ IsFiniteSet(B)
  <2>1. A \in SUBSET S /\ B \in SUBSET S /\ IsFiniteSet(S)
    BY DEF Parts
  <2> QED
    BY <2>1, FS_Subset
<1>2. Cardinality(A) \in Nat /\ Cardinality(B) \in Nat
  BY <1>1, FS_CardinalityType
<1>3. Cardinality(A \cup B) = Cardinality(A) + Cardinality(B) - Cardinality(A \cap B)
  BY <1>1, FS_Union
<1>4. Cardinality(A \cap B) = 0
  BY FS_EmptySet DEF Parts
<1> QED
  BY <1>1, <1>2, <1>3, <1>4 DEF Parts

\* What is above one of the highest is one of them.
LEMMA HighestUp ==
    ASSUME NEW S \in SUBSET Nat, IsFiniteSet(S), NEW n \in Nat,
           NEW a \in Highest(S, n), NEW x \in S, x > a
    PROVE  x \in Highest(S, n)
<1> DEFINE A == {j \in S : j > a}
           X == {j \in S : j > x}
<1>1. a \in S /\ Cardinality(A) < n
  BY DEF Highest
<1>2. X \subseteq A
  <2> SUFFICES ASSUME NEW j \in S, j > x PROVE j > a
    OBVIOUS
  <2>1. j \in Nat /\ x \in Nat /\ a \in Nat
    BY <1>1
  <2> QED
    BY <2>1
<1>3. IsFiniteSet(A)
  BY FS_Subset
<1> HIDE DEF A, X
<1>4. IsFiniteSet(X) /\ Cardinality(X) <= Cardinality(A)
  BY <1>2, <1>3, FS_Subset
<1>5. Cardinality(X) \in Nat /\ Cardinality(A) \in Nat
  BY <1>3, <1>4, FS_CardinalityType
<1>6. Cardinality(X) < n
  BY <1>1, <1>4, <1>5
<1> QED
  BY <1>6 DEF Highest, X

\* The highest are the set of that many elements with nothing else above them.
LEMMA HighestIs ==
    ASSUME NEW S \in SUBSET Nat, IsFiniteSet(S), NEW A \in SUBSET S,
           \A a \in A : \A x \in S : x > a => x \in A
    PROVE  Highest(S, Cardinality(A)) = A
<1> DEFINE n == Cardinality(A)
<1>1. IsFiniteSet(A) /\ n \in Nat
  BY FS_Subset, FS_CardinalityType
<1> DEFINE Above(i) == {j \in S : j > i}
<1>2. \A i \in S : IsFiniteSet(Above(i)) /\ Cardinality(Above(i)) \in Nat
  <2> SUFFICES ASSUME NEW i \in S PROVE IsFiniteSet(Above(i)) /\ Cardinality(Above(i)) \in Nat
    OBVIOUS
  <2>1. Above(i) \in SUBSET S
    OBVIOUS
  <2> HIDE DEF Above
  <2> QED
    BY <2>1, FS_Subset, FS_CardinalityType
<1>3. ASSUME NEW a \in A PROVE Cardinality(Above(a)) < n
  <2> DEFINE R == A \ {a}
  <2>1. Above(a) \subseteq R
    <3> SUFFICES ASSUME NEW x \in S, x > a PROVE x \in A /\ x # a
      OBVIOUS
    <3>1. x \in Nat /\ a \in Nat
      OBVIOUS
    <3> QED
      BY <3>1
  <2>2. IsFiniteSet(R) /\ Cardinality(R) = n - 1
    BY <1>1, FS_RemoveElement
  <2> DEFINE Z == Above(a)
  <2>3. Cardinality(Z) \in Nat
    BY <1>2
  <2> HIDE DEF R, Z
  <2>4. Cardinality(Z) <= Cardinality(R)
    <3>1. Z \in SUBSET R
      BY <2>1 DEF Z
    <3> QED
      BY <2>2, <3>1, FS_Subset
  <2>5. Cardinality(Z) < n
    BY <1>1, <2>2, <2>3, <2>4
  <2> QED
    BY <2>5 DEF Z
<1>4. ASSUME NEW x \in S, x \notin A PROVE ~(Cardinality(Above(x)) < n)
  <2>1. A \subseteq Above(x)
    <3> SUFFICES ASSUME NEW a \in A PROVE a > x
      OBVIOUS
    <3>1. a \in Nat /\ x \in Nat /\ a # x /\ ~(x > a)
      BY <1>4
    <3> QED
      BY <3>1
  <2> DEFINE Z == Above(x)
  <2>2. IsFiniteSet(Z) /\ Cardinality(Z) \in Nat /\ A \in SUBSET Z
    BY <1>2, <2>1
  <2> HIDE DEF Z
  <2>3. n <= Cardinality(Z)
    <3> HIDE DEF Above
    <3> QED
      BY <2>2, FS_Subset
  <2> QED
    BY <1>1, <2>2, <2>3 DEF Z
<1>5. \A i : i \in Highest(S, n) <=> i \in S /\ Cardinality(Above(i)) < n
  BY DEF Highest
<1> HIDE DEF Above, n
<1>6. \A i : i \in Highest(S, n) <=> i \in A
  BY <1>3, <1>4, <1>5
<1> QED
  BY <1>6 DEF n

\* As many as there are, if that many.
LEMMA HighestHas ==
    ASSUME NEW b \in Nat, NEW S \in SUBSET (0 .. b), NEW n \in Nat, n <= Cardinality(S)
    PROVE  Cardinality(Highest(S, n)) = n
<1> DEFINE H == Highest(S, n)
           R == S \ H
<1>1. S \in SUBSET Nat /\ IsFiniteSet(S) /\ Cardinality(S) \in Nat
  <2>1. b \in Int /\ 0 \in Int
    OBVIOUS
  <2>2. IsFiniteSet(0 .. b)
    BY <2>1, FS_Interval
  <2> DEFINE T == 0 .. b
  <2>3. S \in SUBSET T /\ IsFiniteSet(T)
    BY <2>2
  <2>4. S \in SUBSET Nat
    OBVIOUS
  <2> HIDE DEF T
  <2>5. IsFiniteSet(S)
    BY <2>3, FS_Subset
  <2> QED
    BY <2>4, <2>5, FS_CardinalityType
<1>2. H \subseteq S /\ IsFiniteSet(H) /\ Cardinality(H) \in 0 .. n
  <2> HIDE DEF H
  <2> QED
    BY <1>1, HighestAre DEF H
<1>3. SUFFICES ASSUME Cardinality(H) < n PROVE FALSE
  BY <1>2
<1> HIDE DEF H
<1>4. R # {}
  <2> SUFFICES ASSUME R = {} PROVE FALSE
    OBVIOUS
  <2>1. S = H
    BY <1>2
  <2> QED
    BY <1>1, <1>2, <1>3, <2>1
<1> DEFINE m == MaxOf(R)
<1>5. m \in R /\ \A x \in R : x <= m
  <2>1. R \in SUBSET (0 .. b)
    OBVIOUS
  <2> HIDE DEF R
  <2> QED
    BY <1>4, <2>1, MaxIs
<1> HIDE DEF m
<1> DEFINE A == {j \in S : j > m}
<1>6. A \subseteq H
  <2> SUFFICES ASSUME NEW j \in S, j > m, j \notin H PROVE FALSE
    OBVIOUS
  <2>1. j \in Nat /\ m \in Nat /\ j <= m
    BY <1>1, <1>5
  <2> QED
    BY <2>1
<1> HIDE DEF A
<1>7. IsFiniteSet(A) /\ Cardinality(A) <= Cardinality(H) /\ Cardinality(A) \in Nat
  <2>1. IsFiniteSet(A) /\ Cardinality(A) <= Cardinality(H)
    BY <1>2, <1>6, FS_Subset
  <2> QED
    BY <2>1, FS_CardinalityType
<1>8. Cardinality(A) < n /\ m \in S
  BY <1>2, <1>3, <1>5, <1>7
<1>9. m \in H
  BY <1>8 DEF H, A, Highest
<1> QED
  BY <1>5, <1>9

\* Every rank is taken.
LEMMA RanksOnto ==
    ASSUME NEW S \in SUBSET Nat, IsFiniteSet(S), NEW r \in Nat, r < Cardinality(S)
    PROVE  \E a \in S : Rank(S, a) = r
<1> DEFINE n == Cardinality(S)
           T == 0 .. n - 1
           f == [a \in S |-> Rank(S, a)]
<1>1. n \in Nat
  BY FS_CardinalityType
<1>2. IsFiniteSet(T) /\ Cardinality(T) = n
  <2> DEFINE e == n - 1
  <2>1. e \in Int /\ 0 \in Int
    BY <1>1
  <2>2. IsFiniteSet(0 .. e) /\ Cardinality(0 .. e) = IF 0 > e THEN 0 ELSE e - 0 + 1
    <3> HIDE DEF e
    <3> QED
      BY <2>1, FS_Interval
  <2> QED
    BY <1>1, <2>2
<1>3. /\ \A a \in S : Rank(S, a) \in T
      /\ \A a, b \in S : Rank(S, a) = Rank(S, b) => a = b
  <2>1. /\ \A a \in S : Rank(S, a) \in Nat /\ Rank(S, a) < n
        /\ \A a, b \in S : Rank(S, a) = Rank(S, b) => a = b
    BY Ranks
  <2> QED
    BY <1>1, <2>1
<1>4. r \in T
  BY <1>1
<1> HIDE DEF T
<1>5. f \in Injection(S, T)
  BY <1>3 DEF Injection, IsInjective
<1>6. f \in Surjection(S, T)
  <2> HIDE DEF f, n
  <2>1. Cardinality(S) = Cardinality(T) /\ IsFiniteSet(T)
    BY <1>2 DEF n
  <2> QED
    BY <1>5, <2>1, FS_Injection
<1>7. PICK a \in S : f[a] = r
  BY <1>4, <1>6 DEF Surjection
<1> QED
  BY <1>7

\* The cells up to k that are empty, and the used ones from k on.
Holes(c, k) == {i \in 0 .. k - 1 : IsEmpty(c, i)}
UsedFrom(c, k) == {i \in c.used : i >= k}
Count(c) == Cardinality(c.used)

\* There are as many used cells from |used| on as there are holes before it,
\* and one more or less of them for every used cell before k or from k on.
LEMMA HolesCount ==
    ASSUME NEW c, Sound(c), NEW k \in 0 .. Count(c)
    PROVE  /\ IsFiniteSet(Holes(c, k)) /\ Cardinality(Holes(c, k)) \in 0 .. k
           /\ IsFiniteSet(UsedFrom(c, k)) /\ Cardinality(UsedFrom(c, k)) \in Nat
           /\ Count(c) \in 0 .. NCells /\ k \in Nat
           /\ Cardinality(UsedFrom(c, k)) + k = Count(c) + Cardinality(Holes(c, k))
<1> DEFINE I == 0 .. k - 1
           L == {i \in I : ~IsEmpty(c, i)}
<1>1. /\ c.used \in SUBSET Cells /\ IsFiniteSet(c.used) /\ Count(c) \in 0 .. NCells
      /\ NCells \in Nat /\ k \in Nat /\ k <= NCells
  <2>1. c.used \in SUBSET Cells
    BY DEF Sound, CacheType
  <2>2. IsFiniteSet(c.used) /\ Count(c) \in 0 .. NCells
    BY <2>1, CellsFinite DEF Count
  <2> QED
    BY <2>1, <2>2, SizesAssumption
<1>2. I \subseteq Cells
  BY <1>1 DEF Cells
<1>3. IsFiniteSet(I) /\ Cardinality(I) = k
  <2> DEFINE e == k - 1
  <2>1. e \in Int /\ 0 \in Int
    BY <1>1
  <2>2. IsFiniteSet(0 .. e) /\ Cardinality(0 .. e) = IF 0 > e THEN 0 ELSE e - 0 + 1
    <3> HIDE DEF e
    <3> QED
      BY <2>1, FS_Interval
  <2> QED
    BY <1>1, <2>2
<1>4. I = Holes(c, k) \cup L /\ Holes(c, k) \cap L = {}
  BY DEF Holes
<1>5. c.used = L \cup UsedFrom(c, k) /\ L \cap UsedFrom(c, k) = {}
  <2>1. \A i \in Cells : i \in c.used <=> ~IsEmpty(c, i)
    BY DEF Sound, IsEmpty
  <2>2. \A i \in Cells : i \in Int /\ 0 <= i
    BY <1>1 DEF Cells
  <2>3. \A i \in Cells : i \in I <=> ~(i >= k)
    BY <1>1, <2>2
  <2> HIDE DEF I
  <2> QED
    BY <1>1, <1>2, <2>1, <2>3 DEF UsedFrom
<1> HIDE DEF I, L
<1> DEFINE H == Holes(c, k)
           F == UsedFrom(c, k)
           U == c.used
<1>6. I = H \cup L /\ H \cap L = {} /\ U = L \cup F /\ L \cap F = {} /\ IsFiniteSet(U)
  BY <1>1, <1>4, <1>5
<1> HIDE DEF H, F, U
<1>7. /\ IsFiniteSet(H) /\ Cardinality(H) \in Nat /\ Cardinality(L) \in Nat
      /\ k = Cardinality(H) + Cardinality(L)
  <2>1. Parts(I, H, L)
    BY <1>3, <1>6 DEF Parts
  <2>2. /\ IsFiniteSet(H) /\ Cardinality(H) \in Nat /\ Cardinality(L) \in Nat
        /\ Cardinality(I) = Cardinality(H) + Cardinality(L)
    BY <2>1, DisjointCount
  <2> QED
    BY <1>3, <2>2
<1>8. /\ IsFiniteSet(F) /\ Cardinality(F) \in Nat
      /\ Count(c) = Cardinality(L) + Cardinality(F)
  <2>1. Parts(U, L, F)
    BY <1>6 DEF Parts
  <2>2. /\ IsFiniteSet(F) /\ Cardinality(F) \in Nat
        /\ Cardinality(U) = Cardinality(L) + Cardinality(F)
    BY <2>1, DisjointCount
  <2> QED
    BY <2>2 DEF Count, U
<1> QED
  BY <1>1, <1>7, <1>8 DEF H, F

\* The used cells before k are not among the highest, as many as there are
\* holes before k.
LEMMA LowStays ==
    ASSUME NEW c, Sound(c), NEW k \in 0 .. Count(c), NEW i \in c.used, i < k
    PROVE  i \notin Highest(c.used, Cardinality(Holes(c, k)))
<1> DEFINE A == {j \in c.used : j > i}
           F == UsedFrom(c, k)
           h == Cardinality(Holes(c, k))
<1>1. /\ IsFiniteSet(F) /\ Cardinality(F) \in Nat /\ h \in Nat /\ k \in Nat
      /\ Cardinality(F) + k = Count(c) + h /\ Count(c) \in Nat /\ k <= Count(c)
  <2>1. Count(c) \in 0 .. NCells /\ NCells \in Nat
    BY HolesCount, SizesAssumption
  <2> HIDE DEF h
  <2> QED
    BY <2>1, HolesCount DEF h
<1>2. c.used \in SUBSET Nat /\ IsFiniteSet(c.used)
  <2>1. c.used \in SUBSET Cells
    BY DEF Sound, CacheType
  <2> QED
    BY <2>1, CellsFinite, SizesAssumption DEF Cells
<1>3. F \subseteq A
  <2> SUFFICES ASSUME NEW j \in c.used, j >= k PROVE j > i
    BY DEF UsedFrom
  <2>1. j \in Nat /\ i \in Nat
    BY <1>2
  <2> QED
    BY <1>1, <2>1
<1>4. A \in SUBSET c.used
  OBVIOUS
<1> HIDE DEF A, F, h
<1>5. IsFiniteSet(A) /\ Cardinality(A) \in Nat /\ Cardinality(F) <= Cardinality(A)
  <2>1. IsFiniteSet(A)
    BY <1>2, <1>4, FS_Subset
  <2>2. Cardinality(A) \in Nat
    BY <2>1, FS_CardinalityType
  <2> QED
    BY <1>3, <2>1, <2>2, FS_Subset
<1>6. ~(Cardinality(A) < h)
  BY <1>1, <1>5
<1> QED
  BY <1>6 DEF Highest, A, h

\* T is what E, the highest of S, leaves from some element of S up.
Rest(S, E, T) ==
    T \in SUBSET (S \ E) /\ \A a \in T : \A x \in S : x > a => x \in T \/ x \in E

\* The highest of a set, then the highest of the rest: together the highest.
LEMMA HighestJoin ==
    ASSUME NEW S \in SUBSET Nat, IsFiniteSet(S), NEW e \in Nat, NEW h \in Nat,
           Cardinality(Highest(S, e)) = e,
           NEW T, Rest(S, Highest(S, e), T),
           Cardinality(Highest(T, h)) = h
    PROVE  Highest(S, e + h) = Highest(S, e) \cup Highest(T, h)
<1> DEFINE E == Highest(S, e)
           H == Highest(T, h)
           A == E \cup H
<1>1. E \subseteq S /\ H \subseteq T /\ T \in SUBSET S /\ T \in SUBSET Nat /\ E \cap H = {}
  BY DEF Highest, Rest
<1>2. IsFiniteSet(T) /\ IsFiniteSet(A)
  <2>1. A \in SUBSET S
    BY <1>1
  <2> HIDE DEF A, E, H
  <2> QED
    BY <1>1, <2>1, FS_Subset
<1>3. Cardinality(A) = e + h
  <2> HIDE DEF E, H
  <2>1. Parts(A, E, H)
    BY <1>1, <1>2 DEF Parts
  <2> HIDE DEF A
  <2>2. Cardinality(A) = Cardinality(E) + Cardinality(H)
    BY <2>1, DisjointCount
  <2> QED
    BY <2>2 DEF E, H
<1>4. \A a \in A : \A x \in S : x > a => x \in A
  <2> SUFFICES ASSUME NEW a \in A, NEW x \in S, x > a PROVE x \in A
    OBVIOUS
  <2>1. CASE a \in E
    <3>1. x \in E
      BY <2>1, HighestUp
    <3> QED
      BY <3>1
  <2>2. CASE a \in H
    <3>1. x \in T \/ x \in E
      BY <1>1, <2>2 DEF Rest
    <3>2. CASE x \in T
      <4>1. x \in H
        BY <1>1, <1>2, <2>2, <3>2, HighestUp
      <4> QED
        BY <4>1
    <3> QED
      BY <3>1, <3>2
  <2> QED
    BY <2>1, <2>2
<1>5. A \in SUBSET S
  BY <1>1
<1> HIDE DEF A, E, H
<1>6. Highest(S, Cardinality(A)) = A
  BY <1>4, <1>5, HighestIs
<1> QED
  BY <1>3, <1>6 DEF A, E, H

\* The used cells of a sound cache are those before its end that are not empty.
LEMMA UsedCells ==
    ASSUME NEW c, Sound(c)
    PROVE  /\ c.used \in SUBSET Cells /\ c.used \in SUBSET Nat /\ IsFiniteSet(c.used)
           /\ c.used \in SUBSET (0 .. NCells)
           /\ \A i \in Cells : i \in c.used <=> ~IsEmpty(c, i)
           /\ \A i \in c.used : i \in Nat /\ i < End(c) /\ i + 1 \in 1 .. End(c)
           /\ \A i \in Nat : i < End(c) => i \in Cells
           /\ Count(c) \in Nat /\ Count(c) <= End(c) /\ End(c) \in Nat /\ End(c) <= NCells
           /\ NCells \in Nat
<1>1. /\ c.used \in SUBSET Cells /\ c \in CacheType /\ NCells \in Nat
      /\ \A i \in Cells : i \in c.used <=> ~IsEmpty(c, i)
  BY SizesAssumption DEF Sound, CacheType, IsEmpty
<1>2. Count(c) \in Nat /\ Count(c) <= End(c) /\ End(c) \in Nat /\ End(c) <= NCells
  <2>1. End(c) \in 0 .. NCells /\ Count(c) \in 0 .. End(c)
    BY <1>1, EndBounds DEF Count
  <2> QED
    BY <1>1, <2>1
<1>3. c.used \in SUBSET (0 .. NCells) /\ c.used \in SUBSET Nat /\ IsFiniteSet(c.used)
  <2>1. IsFiniteSet(c.used)
    BY <1>1, CellsFinite
  <2> QED
    BY <1>1, <2>1 DEF Cells
<1>4. ASSUME NEW i \in c.used PROVE i \in Nat /\ i < End(c) /\ i + 1 \in 1 .. End(c)
  <2> DEFINE m == MaxOf(c.used)
  <2>1. m \in c.used /\ \A x \in c.used : x <= m
    BY <1>1, <1>3, <1>4, MaxIs
  <2>2. End(c) = m + 1
    BY <1>4 DEF End
  <2> HIDE DEF m
  <2>3. i \in Nat /\ m \in Nat /\ i <= m
    BY <1>3, <1>4, <2>1
  <2> QED
    BY <2>2, <2>3
<1>5. \A i \in Nat : i < End(c) => i \in Cells
  BY <1>1, <1>2 DEF Cells
<1> QED
  BY <1>1, <1>2, <1>3, <1>4, <1>5

\* FillHole's hole, the cells it may be filled from and those that fill it.
HoleAt(c, i0) == {i \in i0 .. Count(c) - 1 : \A j \in i0 .. i : IsEmpty(c, j)}
TailAt(c, plan, i0) ==
    {i \in i0 + 1 .. Len(plan.ids) - 1 : ~IsEmpty(c, i) /\ plan.ids[i + 1] = Len(plan.ids)}
SourceAt(c, plan, i0) == Highest(TailAt(c, plan, i0), Cardinality(HoleAt(c, i0)))

\* A hole is a run of empty cells, and adds its cells to the holes before it.
LEMMA HoleIs ==
    ASSUME NEW c, Sound(c), NEW i0 \in Nat, i0 < Count(c), IsEmpty(c, i0)
    PROVE  LET h == Cardinality(HoleAt(c, i0))
           IN  /\ h \in Nat /\ h > 0 /\ i0 + h <= Count(c)
               /\ \A i : i \in HoleAt(c, i0) <=> i \in i0 .. i0 + h - 1
               /\ Holes(c, i0 + h) = Holes(c, i0) \cup HoleAt(c, i0)
               /\ Cardinality(Holes(c, i0 + h)) = Cardinality(Holes(c, i0)) + h
<1> DEFINE R == HoleAt(c, i0)
           h == Cardinality(R)
           n == Count(c)
           b == n - 1
<1>1. n \in Nat /\ n <= NCells /\ NCells \in Nat /\ b \in Int
  BY UsedCells
<1>2. R \in SUBSET (i0 .. b) /\ (\A x \in R : \A y \in i0 .. x : y \in R) /\ i0 \in R
  BY <1>1 DEF HoleAt
<1> HIDE DEF n
<1>3. IsFiniteSet(R) /\ h \in Nat
  <2> DEFINE I == i0 .. b
  <2>1. IsFiniteSet(I) /\ R \in SUBSET I
    <3>1. i0 \in Int
      OBVIOUS
    <3> HIDE DEF b
    <3>2. IsFiniteSet(i0 .. b)
      BY <1>1, <3>1, FS_Interval
    <3> QED
      BY <1>2, <3>2
  <2> HIDE DEF I, R
  <2>2. IsFiniteSet(R)
    BY <2>1, FS_Subset
  <2> QED
    BY <2>2, FS_CardinalityType
<1>4. h > 0
  <2> HIDE DEF R
  <2>1. h # 0
    BY <1>2, <1>3, FS_EmptySet
  <2> QED
    BY <1>3, <2>1
<1>5. ASSUME NEW r \in Nat, r < h PROVE i0 + r \in R
  <2> HIDE DEF R, b
  <2> QED
    BY <1>1, <1>2, <1>5, RunHas
<1>6. ASSUME NEW x \in R PROVE x < i0 + h
  <2> SUFFICES ASSUME ~(x < i0 + h) PROVE FALSE
    OBVIOUS
  <2> DEFINE e == i0 + h
             J == i0 .. e
  <2>1. x \in Nat /\ e \in Nat /\ e <= x /\ i0 \in Int
    <3>1. x \in i0 .. b
      BY <1>2
    <3> HIDE DEF R
    <3> QED
      BY <1>3, <3>1
  <2> HIDE DEF e
  <2>2. J \subseteq R
    <3> SUFFICES ASSUME NEW y \in i0 .. e PROVE y \in R
      OBVIOUS
    <3>1. y \in i0 .. x
      BY <2>1
    <3> HIDE DEF R
    <3> QED
      BY <1>2, <3>1
  <2>3. Cardinality(J) = e - i0 + 1
    <3>1. e \in Int /\ ~(i0 > e)
      <4> HIDE DEF R
      <4> QED
        BY <1>3, <2>1 DEF e
    <3> QED
      BY <2>1, <3>1, FS_Interval
  <2> HIDE DEF J, R
  <2>4. Cardinality(J) <= h
    BY <1>3, <2>2, FS_Subset
  <2> QED
    BY <1>3, <2>1, <2>3, <2>4 DEF e
<1>7. i0 + h <= n
  <2> DEFINE r == h - 1
  <2>1. r \in Nat /\ r < h
    <3> HIDE DEF R
    <3> QED
      BY <1>3, <1>4
  <2>2. i0 + r \in R
    BY <1>5, <2>1
  <2>3. i0 + r \in i0 .. b
    BY <1>2, <2>2
  <2> HIDE DEF R
  <2> QED
    BY <1>1, <1>3, <2>1, <2>3
<1>8. \A i : i \in R <=> i \in i0 .. i0 + h - 1
  <2>1. ASSUME NEW i \in R PROVE i \in i0 .. i0 + h - 1
    <3>1. i < i0 + h /\ i \in i0 .. b
      BY <1>2, <1>6
    <3> HIDE DEF R
    <3> QED
      BY <1>3, <3>1
  <2>2. ASSUME NEW i \in i0 .. i0 + h - 1 PROVE i \in R
    <3> HIDE DEF R
    <3> DEFINE r == i - i0
    <3>1. r \in Nat /\ r < h /\ i0 + r = i
      BY <1>3
    <3> HIDE DEF r
    <3> QED
      BY <1>5, <3>1
  <2> QED
    BY <2>1, <2>2
<1> DEFINE e == i0 + h
           A == Holes(c, i0)
           B == Holes(c, e)
<1>9. B = A \cup R /\ A \cap R = {}
  <2>1. \A i \in R : IsEmpty(c, i)
    <3> SUFFICES ASSUME NEW i \in R PROVE IsEmpty(c, i)
      OBVIOUS
    <3>1. i \in i0 .. i
      BY <1>2
    <3> QED
      BY <3>1 DEF HoleAt
  <2>2. e \in Int /\ i0 <= e /\ \A i : i \in R <=> i \in i0 .. e - 1
    <3> HIDE DEF R
    <3> QED
      BY <1>3, <1>8
  <2> HIDE DEF R, e
  <2>3. \A i : i \in A <=> i \in 0 .. i0 - 1 /\ IsEmpty(c, i)
    BY DEF Holes
  <2>4. \A i : i \in B <=> i \in 0 .. e - 1 /\ IsEmpty(c, i)
    BY DEF Holes
  <2> HIDE DEF A, B
  <2>5. ASSUME NEW i PROVE (i \in B <=> i \in A \/ i \in R) /\ ~(i \in A /\ i \in R)
    <3>1. CASE i \in Int
      BY <2>1, <2>2, <2>3, <2>4, <3>1
    <3>2. CASE i \notin Int
      BY <2>2, <2>3, <2>4, <3>2
    <3> QED
      BY <3>1, <3>2
  <2> QED
    BY <2>5
<1>10. Cardinality(B) = Cardinality(A) + Cardinality(R)
  <2>1. IsFiniteSet(B)
    <3>1. e \in 0 .. Count(c)
      <4> HIDE DEF R
      <4> QED
        BY <1>1, <1>3, <1>7 DEF n
    <3> HIDE DEF e
    <3> QED
      BY <3>1, HolesCount
  <2>2. Parts(B, A, R)
    BY <1>9, <2>1 DEF Parts
  <2> HIDE DEF A, B, R
  <2> QED
    BY <2>2, DisjointCount
<1> QED
  BY <1>3, <1>4, <1>7, <1>8, <1>9, <1>10 DEF n

\* The used cells from i0 on that no move is planned for are enough to fill the
\* hole at i0, when moves are planned for the highest used cells, as many as
\* there are holes before it; and those that fill it are the next highest.
LEMMA SourceIs ==
    ASSUME NEW c, Sound(c), NEW plan, PlanOK(c, plan),
           NEW i0 \in Nat, i0 < Count(c), IsEmpty(c, i0), plan.next <= i0,
           NEW e, e = Cardinality(Holes(c, i0)),
           \A i \in c.used : Moves(plan, i + 1) <=> i \in Highest(c.used, e),
           \A i \in c.used :
                i >= plan.next /\ ~Moves(plan, i + 1) => plan.ids[i + 1] = End(c)
    PROVE  LET h == Cardinality(HoleAt(c, i0))
               S == SourceAt(c, plan, i0)
               E == Highest(c.used, e)
           IN  /\ S \in SUBSET c.used /\ IsFiniteSet(S) /\ Cardinality(S) = h
               /\ S \cap E = {} /\ Highest(c.used, e + h) = E \cup S
               /\ \A i \in S : i > i0 /\ plan.ids[i + 1] = End(c)
               /\ \A a \in S : \A x \in c.used : x > a => x \in S \/ x \in E
<1> DEFINE U == c.used
           R == HoleAt(c, i0)
           h == Cardinality(R)
           E == Highest(U, e)
           T == TailAt(c, plan, i0)
           S == SourceAt(c, plan, i0)
           F == UsedFrom(c, i0)
           n == Count(c)
<1>1. /\ U \in SUBSET Nat /\ U \in SUBSET (0 .. NCells) /\ IsFiniteSet(U) /\ NCells \in Nat
      /\ n \in Nat /\ n = Cardinality(U) /\ i0 \in 0 .. n /\ i0 < n
  BY UsedCells DEF Count
<1>2. /\ e \in Nat /\ e <= i0 /\ IsFiniteSet(F) /\ Cardinality(F) \in Nat
      /\ Cardinality(F) + i0 = n + e
  <2>1. /\ Cardinality(Holes(c, i0)) \in 0 .. i0 /\ IsFiniteSet(F) /\ Cardinality(F) \in Nat
        /\ Cardinality(F) + i0 = n + Cardinality(Holes(c, i0))
    BY <1>1, HolesCount
  <2> HIDE DEF F, n
  <2> QED
    BY <2>1
<1>3. h \in Nat /\ h > 0 /\ i0 + h <= n
  BY HoleIs
<1>4. /\ plan.next \in Nat /\ Len(plan.ids) = End(c) /\ End(c) \in Nat
      /\ \A i \in U : i + 1 \in 1 .. End(c) /\ i \in Nat /\ i < End(c) /\ ~IsEmpty(c, i)
      /\ \A i \in Nat : i < End(c) /\ ~IsEmpty(c, i) => i \in U
  BY UsedCells DEF PlanOK
<1>5. i0 \notin U
  BY <1>4
<1> HIDE DEF U, n, R, h
<1>6. E \subseteq F
  <2> SUFFICES ASSUME NEW i \in U, i \in E, ~(i >= i0) PROVE FALSE
    BY DEF Highest, UsedFrom, U
  <2>1. i \in Nat /\ i < i0
    BY <1>1
  <2>2. i \notin Highest(c.used, Cardinality(Holes(c, i0)))
    BY <1>1, <2>1, LowStays DEF U, n
  <2> QED
    BY <2>2 DEF U
<1>7. Cardinality(E) = e
  <2>1. e <= Cardinality(U)
    BY <1>1, <1>2
  <2> QED
    BY <1>1, <1>2, <2>1, HighestHas
<1>8. \A i : i \in T <=> i \in F /\ i \notin E
  <2>1. ASSUME NEW i \in T PROVE i \in F /\ i \notin E
    <3>1. /\ i \in i0 + 1 .. End(c) - 1 /\ ~IsEmpty(c, i) /\ plan.ids[i + 1] = End(c)
      BY <1>4 DEF TailAt
    <3>2. i \in Nat /\ i < End(c) /\ i >= i0
      BY <1>4, <3>1
    <3>3. i \in U /\ ~Moves(plan, i + 1)
      BY <1>4, <3>1, <3>2 DEF Moves
    <3> QED
      BY <3>2, <3>3 DEF UsedFrom, U
  <2>2. ASSUME NEW i \in F, i \notin E PROVE i \in T
    <3>1. i \in U /\ i >= i0 /\ ~Moves(plan, i + 1)
      BY <2>2 DEF UsedFrom, U
    <3>2. i \in Nat /\ i # i0 /\ i < End(c) /\ ~IsEmpty(c, i)
      BY <1>4, <1>5, <3>1
    <3>3. i >= plan.next
      BY <1>4, <3>1, <3>2
    <3>4. plan.ids[i + 1] = End(c)
      BY <3>1, <3>3 DEF U
    <3>5. i \in i0 + 1 .. End(c) - 1
      BY <1>4, <3>1, <3>2
    <3> QED
      BY <1>4, <3>2, <3>4, <3>5 DEF TailAt
  <2> QED
    BY <2>1, <2>2
<1>9. F \in SUBSET U /\ \A i \in U : i \in F <=> i >= i0
  BY DEF UsedFrom, U
<1>10. \A i \in T : i > i0 /\ plan.ids[i + 1] = End(c)
  <2> SUFFICES ASSUME NEW i \in T PROVE i > i0 /\ plan.ids[i + 1] = End(c)
    OBVIOUS
  <2>1. i \in i0 + 1 .. End(c) - 1 /\ plan.ids[i + 1] = End(c)
    BY <1>4 DEF TailAt
  <2> QED
    BY <1>4, <2>1
<1>11. S = Highest(T, h)
  BY DEF SourceAt, h, R
<1> HIDE DEF E, T, F, S
<1>12. T \in SUBSET U /\ T \in SUBSET (0 .. NCells) /\ IsFiniteSet(T) /\ h <= Cardinality(T)
  <2>1. T \in SUBSET U
    BY <1>8, <1>9
  <2>2. Parts(F, E, T)
    BY <1>2, <1>6, <1>8 DEF Parts
  <2>3. /\ IsFiniteSet(T) /\ Cardinality(T) \in Nat
        /\ Cardinality(F) = Cardinality(E) + Cardinality(T)
    BY <2>2, DisjointCount
  <2>4. Cardinality(T) = n - i0
    BY <1>1, <1>2, <1>7, <2>3
  <2> QED
    BY <1>1, <1>3, <2>1, <2>3, <2>4
<1>13. S \subseteq T /\ Cardinality(S) = h
  <2>1. S \subseteq T
    BY <1>11 DEF Highest
  <2> QED
    BY <1>1, <1>3, <1>11, <1>12, <2>1, HighestHas
<1>14. IsFiniteSet(S) /\ S \in SUBSET U /\ S \cap E = {}
  <2>1. IsFiniteSet(S)
    BY <1>12, <1>13, FS_Subset
  <2> QED
    BY <1>8, <1>12, <1>13, <2>1
<1>15. \A a \in T : \A x \in U : x > a => x \in T \/ x \in E
  <2> SUFFICES ASSUME NEW a \in T, NEW x \in U, x > a PROVE x \in T \/ x \in E
    OBVIOUS
  <2>1. a \in Nat /\ x \in Nat /\ a > i0
    BY <1>1, <1>10, <1>12
  <2>2. x >= i0
    BY <2>1
  <2> QED
    BY <1>8, <1>9, <2>2
<1>16. Highest(U, e + h) = E \cup S
  <2>1. Rest(U, Highest(U, e), T)
    BY <1>8, <1>12, <1>15 DEF Rest, E
  <2>2. Cardinality(Highest(U, e)) = e /\ Cardinality(Highest(T, h)) = h
    BY <1>7, <1>11, <1>13 DEF E
  <2>3. Highest(U, e + h) = Highest(U, e) \cup Highest(T, h)
    BY <1>1, <1>2, <1>3, <2>1, <2>2, HighestJoin
  <2> QED
    BY <1>11, <2>3 DEF E
<1>17. \A a \in S : \A x \in U : x > a => x \in S \/ x \in E
  <2> SUFFICES ASSUME NEW a \in S, NEW x \in U, x > a PROVE x \in S \/ x \in E
    OBVIOUS
  <2>1. a \in T /\ (x \in T \/ x \in E)
    BY <1>13, <1>15
  <2>2. CASE x \in T
    <3>1. T \in SUBSET Nat
      BY <1>1, <1>12
    <3>2. x \in S
      BY <1>3, <1>11, <1>12, <2>2, <3>1, HighestUp
    <3> QED
      BY <3>2
  <2> QED
    BY <2>1, <2>2
<1>18. \A i \in S : i > i0 /\ plan.ids[i + 1] = End(c)
  BY <1>10, <1>13
<1> QED
  BY <1>13, <1>14, <1>16, <1>17, <1>18 DEF U, R, h, E, S

\* The number of FillHole's block that cell i of S is in.
BlockOf(S, i) == Cardinality({j \in S : j <= i /\ j - 1 \notin S})

\* There is a block at least, and no more of them than cells; one when the cells
\* are a run.
LEMMA BlocksOf ==
    ASSUME NEW b \in Nat, NEW S \in SUBSET (0 .. b), NEW i \in S
    PROVE  /\ BlockOf(S, i) \in Nat /\ BlockOf(S, i) > 0 /\ BlockOf(S, i) <= Cardinality(S)
           /\ (\A x, y \in S : x < y => y - 1 \in S) => BlockOf(S, i) = 1
           /\ MaxOf(S) \in S /\ IsFiniteSet(S) /\ Cardinality(S) \in Nat
<1> DEFINE B == {j \in S : j <= i /\ j - 1 \notin S}
           m == MinOf(S)
<1>1. S \in SUBSET Nat /\ S # {} /\ IsFiniteSet(S) /\ Cardinality(S) \in Nat /\ MaxOf(S) \in S
  <2> DEFINE I == 0 .. b
  <2>1. 0 \in Int /\ b \in Int
    OBVIOUS
  <2>2. IsFiniteSet(I) /\ S \in SUBSET I
    BY <2>1, FS_Interval
  <2> HIDE DEF I
  <2>3. IsFiniteSet(S)
    BY <2>2, FS_Subset
  <2>4. Cardinality(S) \in Nat
    BY <2>3, FS_CardinalityType
  <2>5. MaxOf(S) \in S
    BY MaxIs
  <2> QED
    BY <2>3, <2>4, <2>5
<1>2. m \in S /\ \A x \in S : m <= x
  BY <1>1, MinIs
<1> HIDE DEF m
<1>3. m \in B
  <2>1. m \in Nat /\ i \in Nat /\ m <= i
    BY <1>1, <1>2
  <2>2. m - 1 \notin S
    <3> SUFFICES ASSUME m - 1 \in S PROVE FALSE
      OBVIOUS
    <3>1. m <= m - 1
      BY <1>2
    <3> QED
      BY <2>1, <3>1
  <2> QED
    BY <1>2, <2>1, <2>2
<1>4. ASSUME \A x, y \in S : x < y => y - 1 \in S
      PROVE  \A x, y \in B : x = y
  <2> SUFFICES ASSUME NEW x \in B, NEW y \in B PROVE x = y
    OBVIOUS
  <2>1. x \in Nat /\ y \in Nat /\ x \in S /\ y \in S /\ x - 1 \notin S /\ y - 1 \notin S
    BY <1>1
  <2>2. ~(x < y) /\ ~(y < x)
    BY <1>4, <2>1
  <2> QED
    BY <2>1, <2>2
<1>5. B \in SUBSET S
  OBVIOUS
<1> HIDE DEF B
<1>6. IsFiniteSet(B) /\ Cardinality(B) \in Nat /\ Cardinality(B) <= Cardinality(S)
  <2>1. IsFiniteSet(B) /\ Cardinality(B) <= Cardinality(S)
    BY <1>1, <1>5, FS_Subset
  <2> QED
    BY <2>1, FS_CardinalityType
<1>7. Cardinality(B) # 0
  BY <1>3, <1>6, FS_EmptySet
<1>8. (\A x, y \in S : x < y => y - 1 \in S) => Cardinality(B) = 1
  BY <1>3, <1>4, AtMostOne
<1>9. BlockOf(S, i) = Cardinality(B)
  BY DEF BlockOf, B
<1> QED
  BY <1>1, <1>6, <1>7, <1>8, <1>9

\* No cell is among the highest none.
LEMMA HighestNone ==
    ASSUME NEW c, Sound(c), NEW i \in c.used
    PROVE  i \notin Highest(c.used, 0)
<1> DEFINE A == {j \in c.used : j > i}
<1>1. A \in SUBSET c.used /\ IsFiniteSet(c.used)
  BY UsedCells
<1> HIDE DEF A
<1>2. Cardinality(A) \in Nat
  BY <1>1, FS_Subset, FS_CardinalityType
<1>3. ~(Cardinality(A) < 0)
  BY <1>2
<1> QED
  BY <1>3 DEF Highest, A

\* A plan without a move after k visits: the first k cells are all in use, and
\* the others are as they were.
Idle(c, plan, k) ==
    /\ plan.n_moves = 0 /\ plan.next <= k
    /\ \A i \in 0 .. k - 1 : ~IsEmpty(c, i)
    /\ \A i \in c.used : ~Moves(plan, i + 1)
    /\ \A i \in c.used : i >= plan.next => plan.ids[i + 1] = End(c)

\* The first hole is filled with a move at least, whatever max_moves.
LEMMA FirstHoleMoves ==
    ASSUME NEW c, Sound(c), NEW plan, PlanOK(c, plan), NEW k \in Nat, k < Count(c),
           Idle(c, plan, k), IsEmpty(c, k)
    PROVE  FillHole(c, plan, k).n_moves > 0
<1> DEFINE S == SourceAt(c, plan, k)
           b == BlockOf(S, MaxOf(S))
           m == plan.n_moves + b
           e == Cardinality(Holes(c, k))
           h == Cardinality(HoleAt(c, k))
<1>1. FillHole(c, plan, k).n_moves = IF m < MaxMoves THEN m ELSE MaxMoves
  BY DEF FillHole, SourceAt, TailAt, HoleAt, BlockOf, Count
<1>2. e = 0
  <2>1. Holes(c, k) = {}
    BY DEF Holes, Idle
  <2> QED
    BY <2>1, FS_EmptySet
<1>3. h \in Nat /\ h > 0
  BY HoleIs
<1>4. \A i \in c.used : Moves(plan, i + 1) <=> i \in Highest(c.used, e)
  BY <1>2, HighestNone DEF Idle
<1>5. \A i \in c.used : i >= plan.next /\ ~Moves(plan, i + 1) => plan.ids[i + 1] = End(c)
  BY DEF Idle
<1> HIDE DEF e
<1>6. S \in SUBSET c.used /\ IsFiniteSet(S) /\ Cardinality(S) = h
  <2>1. plan.next <= k /\ e = Cardinality(Holes(c, k))
    BY DEF Idle, e
  <2> QED
    BY <1>4, <1>5, <2>1, SourceIs
<1> HIDE DEF S, h
<1>7. PICK x : x \in S
  BY <1>3, <1>6, FS_EmptySet
<1>8. NCells \in Nat /\ S \in SUBSET (0 .. NCells)
  BY <1>6, UsedCells
<1>9. MaxOf(S) \in S
  BY <1>7, <1>8, BlocksOf
<1>10. b \in Nat /\ b > 0
  BY <1>8, <1>9, BlocksOf
<1> HIDE DEF b
<1> QED
  BY <1>1, <1>10, SizesAssumption DEF Idle

\* No hole takes back a move.
LEMMA HoleAddsMoves ==
    ASSUME NEW c, NEW plan, PlanOK(c, plan), NEW k \in Nat
    PROVE  LET new == FillHole(c, plan, k)
           IN  /\ new.n_moves \in Nat
               /\ new.n_moves >= plan.n_moves \/ new.n_moves = MaxMoves
<1> DEFINE S == SourceAt(c, plan, k)
           b == BlockOf(S, MaxOf(S))
           m == plan.n_moves + b
           I == k + 1 .. Len(plan.ids) - 1
           B == {j \in S : j <= MaxOf(S) /\ j - 1 \notin S}
<1>1. FillHole(c, plan, k).n_moves = IF m < MaxMoves THEN m ELSE MaxMoves
  BY DEF FillHole, SourceAt, TailAt, HoleAt, BlockOf, Count
<1>2. IsFiniteSet(I)
  <2> DEFINE l == Len(plan.ids) - 1
             f == k + 1
  <2>1. l \in Int /\ f \in Int
    <3>1. plan.ids \in Seq(0 .. End(c))
      BY DEF PlanOK
    <3>2. Len(plan.ids) \in Nat
      BY <3>1
    <3> QED
      BY <3>2
  <2> HIDE DEF l, f
  <2>2. IsFiniteSet(f .. l)
    BY <2>1, FS_Interval
  <2> QED
    BY <2>2 DEF f, l
<1>3. B \subseteq I
  BY DEF SourceAt, Highest, TailAt
<1> HIDE DEF I, B
<1>4. IsFiniteSet(B) /\ Cardinality(B) \in Nat
  BY <1>2, <1>3, FS_Subset, FS_CardinalityType
<1>5. b = Cardinality(B)
  BY DEF BlockOf, B
<1> HIDE DEF b
<1> QED
  BY <1>1, <1>4, <1>5, SizesAssumption DEF PlanOK

\* A visit plans a move, or finds one more cell in use.
LEMMA VisitIdles ==
    ASSUME NEW c, Sound(c), NEW plan, PlanOK(c, plan), NEW k \in Nat, k < Count(c),
           plan.n_moves > 0 \/ Idle(c, plan, k)
    PROVE  LET new == Visit(c, plan, k) IN new.n_moves > 0 \/ Idle(c, new, k + 1)
<1> DEFINE new == Visit(c, plan, k)
<1>1. /\ plan.n_moves \in Nat /\ plan.next \in Nat /\ MaxMoves \in Nat \ {0}
      /\ plan.ids \in [1 .. End(c) -> 0 .. End(c)] /\ Len(plan.ids) = End(c)
      /\ End(c) \in Nat /\ k < End(c) /\ k + 1 \in 1 .. End(c)
  <2>1. plan.ids \in Seq(0 .. End(c)) /\ Len(plan.ids) = End(c)
    BY DEF PlanOK
  <2>2. /\ Count(c) \in Nat /\ Count(c) <= End(c) /\ End(c) \in Nat
    BY UsedCells
  <2>3. plan.ids \in [1 .. End(c) -> 0 .. End(c)]
    BY <2>1
  <2>4. k < End(c) /\ k + 1 \in 1 .. End(c)
    BY <2>2
  <2> QED
    BY <2>1, <2>2, <2>3, <2>4, SizesAssumption DEF PlanOK
<1>2. CASE plan.n_moves > 0
  <2>1. CASE plan.n_moves = MaxMoves \/ k < plan.next
    BY <1>2, <2>1 DEF Visit
  <2>2. CASE ~(plan.n_moves = MaxMoves \/ k < plan.next) /\ ~IsEmpty(c, k)
    <3>1. new.n_moves = plan.n_moves
      BY <1>1, <2>2 DEF Visit
    <3> QED
      BY <1>2, <3>1
  <2>3. CASE ~(plan.n_moves = MaxMoves \/ k < plan.next) /\ IsEmpty(c, k)
    <3>1. new = FillHole(c, plan, k)
      BY <2>3 DEF Visit
    <3> HIDE DEF new
    <3>2. /\ new.n_moves \in Nat
          /\ new.n_moves >= plan.n_moves \/ new.n_moves = MaxMoves
      BY <3>1, HoleAddsMoves
    <3>3. new.n_moves > 0
      BY <1>1, <1>2, <3>2
    <3> QED
      BY <3>3 DEF new
  <2> QED
    BY <2>1, <2>2, <2>3
<1>3. CASE Idle(c, plan, k)
  <2>1. plan.n_moves # MaxMoves /\ ~(k < plan.next)
    BY <1>1, <1>3 DEF Idle
  <2>2. CASE IsEmpty(c, k)
    BY <1>3, <2>1, <2>2, FirstHoleMoves DEF Visit
  <2>3. CASE ~IsEmpty(c, k)
    <3> DEFINE ids == [plan.ids EXCEPT ![k + 1] = k]
    <3>1. new = [plan EXCEPT !.ids = ids, !.next = k + 1]
      BY <2>1, <2>3 DEF Visit
    <3>2. /\ ids \in [1 .. End(c) -> 0 .. End(c)] /\ Len(ids) = End(c)
          /\ \A i \in 1 .. End(c) : ids[i] = IF i = k + 1 THEN k ELSE plan.ids[i]
      BY <1>1
    <3> HIDE DEF ids
    <3>3. new.ids = ids /\ new.next = k + 1 /\ new.n_moves = plan.n_moves
      BY <3>1 DEF PlanOK
    <3> HIDE DEF new
    <3>4. \A i \in c.used : i \in Nat /\ i + 1 \in 1 .. End(c)
      BY UsedCells
    <3>5. \A i \in c.used : ~Moves(new, i + 1)
      BY <1>1, <1>3, <3>2, <3>3, <3>4 DEF Moves, Idle
    <3>6. \A i \in c.used : i >= new.next => new.ids[i + 1] = End(c)
      BY <1>1, <1>3, <3>2, <3>3, <3>4 DEF Idle
    <3>7. \A i \in 0 .. (k + 1) - 1 : ~IsEmpty(c, i)
      <4>1. \A i \in 0 .. (k + 1) - 1 : i = k \/ i \in 0 .. k - 1
        OBVIOUS
      <4> QED
        BY <1>3, <2>3, <4>1 DEF Idle
    <3>8. Idle(c, new, k + 1)
      BY <1>3, <3>3, <3>5, <3>6, <3>7 DEF Idle
    <3> QED
      BY <3>8 DEF new
  <2> QED
    BY <2>2, <2>3
<1> QED
  BY <1>2, <1>3

\* Whatever max_moves, a plan has no move only when the used cells are in one
\* piece from the first cell on.
THEOREM NothingToMove ==
    ASSUME NEW c, Sound(c), DefragPlan(c).n_moves = 0
    PROVE  \A i : i \in c.used <=> i \in 0 .. Count(c) - 1
<1> DEFINE n == Count(c)
           base == NoMoves(c)
<1>1. PICK plans :
        /\ plans[0] = base
        /\ \A k \in 1 .. n : plans[k] = Visit(c, plans[k - 1], k - 1)
        /\ \A k \in 0 .. n : PlanOK(c, plans[k])
        /\ plans[n] = DefragPlan(c)
  BY PlanVisits DEF Count, Sound
<1>2. n \in Nat /\ n <= End(c) /\ End(c) \in Nat
  BY UsedCells
<1> HIDE DEF n
<1>3. Idle(c, base, 0)
  <2>1. base.n_moves = 0 /\ base.next = 0 /\ Len(base.ids) = End(c)
        /\ \A k \in 1 .. End(c) : base.ids[k] = End(c)
    <3> DEFINE m == End(c)
               ids == [i \in 1 .. m |-> m]
    <3>1. base.n_moves = 0 /\ base.next = 0 /\ base.ids = ids
      BY DEF NoMoves
    <3>2. m \in Nat
      BY <1>2
    <3> HIDE DEF m
    <3>3. Len(ids) = m /\ \A k \in 1 .. m : ids[k] = m
      BY <3>2
    <3> HIDE DEF ids, base
    <3> QED
      BY <3>1, <3>3 DEF m
  <2> HIDE DEF base
  <2>2. \A i \in c.used : i + 1 \in 1 .. End(c)
    BY UsedCells
  <2> QED
    BY <2>1, <2>2 DEF Idle, Moves
<1> DEFINE T == {k \in 0 .. n : plans[k].n_moves > 0 \/ Idle(c, plans[k], k)}
<1>4. 0 \in T
  BY <1>1, <1>2, <1>3
<1>5. ASSUME NEW k \in 0 .. n - 1, k \in T PROVE k + 1 \in T
  <2>1. k \in Nat /\ k < n /\ k \in 0 .. n /\ k + 1 \in 1 .. n /\ k + 1 \in 0 .. n /\ (k + 1) - 1 = k
    BY <1>2
  <2>2. PlanOK(c, plans[k]) /\ (plans[k].n_moves > 0 \/ Idle(c, plans[k], k))
    BY <1>1, <1>5, <2>1
  <2>3. LET new == Visit(c, plans[k], k) IN new.n_moves > 0 \/ Idle(c, new, k + 1)
    BY <2>1, <2>2, VisitIdles DEF n
  <2>4. plans[k + 1] = Visit(c, plans[k], k)
    BY <1>1, <2>1
  <2> QED
    BY <2>1, <2>3, <2>4
<1> HIDE DEF T
<1>6. 0 .. n \subseteq T
  BY <1>2, <1>4, <1>5, CountUp
<1>7. Idle(c, plans[n], n)
  BY <1>1, <1>2, <1>6 DEF T
<1>8. Holes(c, n) = {}
  BY <1>7 DEF Holes, Idle
<1>9. UsedFrom(c, n) = {}
  <2>1. n \in 0 .. Count(c)
    BY <1>2 DEF n
  <2>2. /\ IsFiniteSet(UsedFrom(c, n)) /\ Cardinality(UsedFrom(c, n)) \in Nat
        /\ Cardinality(UsedFrom(c, n)) + n = Count(c) + Cardinality(Holes(c, n))
    BY <2>1, HolesCount
  <2>3. Cardinality(UsedFrom(c, n)) = 0
    <3>1. Cardinality(Holes(c, n)) = 0 /\ Count(c) = n
      BY <1>8, FS_EmptySet DEF n
    <3> QED
      BY <1>2, <2>2, <3>1
  <2> QED
    BY <2>2, <2>3, FS_EmptySet
<1>10. ASSUME NEW i \in c.used PROVE i \in 0 .. n - 1
  <2>1. i \in Nat /\ ~(i >= n)
    BY <1>9, <1>10, UsedCells DEF UsedFrom
  <2> QED
    BY <1>2, <2>1
<1>11. ASSUME NEW i \in 0 .. n - 1 PROVE i \in c.used
  <2>1. i \in Nat /\ i < End(c) /\ ~IsEmpty(c, i)
    BY <1>2, <1>7 DEF Idle
  <2> QED
    BY <2>1, UsedCells
<1> QED
  BY <1>10, <1>11 DEF n

\* The used cells are one block behind as many holes.
OneBlock(c) == \A i : i \in c.used <=> i \in Count(c) .. 2 * Count(c) - 1

\* No plan for c is cut short: its moves are no more than the holes they fill,
\* and one is enough for one block.
Uncut(c) == Cardinality(Holes(c, Count(c))) <= MaxMoves \/ OneBlock(c)

\* A plan after k visits: moves are planned for the highest used cells, one for
\* each hole before plan.next, and every hole before k is before plan.next.
Packing(c, plan, k) ==
    LET e == Cardinality(Holes(c, plan.next))
    IN  /\ plan.next <= Count(c)
        /\ \A i \in 0 .. k - 1 : IsEmpty(c, i) => i < plan.next
        /\ plan.n_moves <= e /\ (e > 0 => plan.n_moves > 0)
        /\ \A i \in c.used : Moves(plan, i + 1) <=> i \in Highest(c.used, e)
        /\ \A i \in c.used :
                i >= plan.next /\ ~Moves(plan, i + 1) => plan.ids[i + 1] = End(c)
        /\ \A i \in Holes(c, plan.next) :
                \E j \in 1 .. End(c) : Moves(plan, j) /\ plan.ids[j] = i
        /\ OneBlock(c) => plan.next \in {0, Count(c)}

\* The moves that fill a hole are not too many.
LEMMA MovesFit ==
    ASSUME NEW c, Sound(c), Uncut(c), NEW plan, PlanOK(c, plan),
           NEW i0 \in Nat, i0 < Count(c), IsEmpty(c, i0), plan.next <= i0,
           Packing(c, plan, i0),
           NEW e, e = Cardinality(Holes(c, plan.next)), e = Cardinality(Holes(c, i0)),
           NEW h, h = Cardinality(HoleAt(c, i0)),
           NEW S, S \in SUBSET c.used, Cardinality(S) = h,
           \A a \in S : \A x \in c.used : x > a => x \in S \/ x \in Highest(c.used, e)
    PROVE  /\ \A i \in S : plan.n_moves + BlockOf(S, i) <= MaxMoves
           /\ S # {} /\ MaxOf(S) \in S
           /\ \A i \in S : BlockOf(S, i) \in Nat /\ BlockOf(S, i) \in 1 .. h
<1>1. /\ c.used \in SUBSET (0 .. NCells) /\ c.used \in SUBSET Nat /\ NCells \in Nat
      /\ Count(c) \in Nat /\ plan.n_moves \in Nat /\ plan.next \in Nat /\ MaxMoves \in Nat \ {0}
  BY UsedCells, SizesAssumption DEF PlanOK
<1>2. /\ h \in Nat /\ h > 0 /\ i0 + h <= Count(c)
      /\ Cardinality(Holes(c, i0 + h)) = e + h
  BY HoleIs
<1>3. S \in SUBSET (0 .. NCells) /\ S # {}
  BY <1>1, <1>2, FS_EmptySet
<1>4. \A i \in S : BlockOf(S, i) \in Nat /\ BlockOf(S, i) \in 1 .. h
  <2> SUFFICES ASSUME NEW i \in S PROVE BlockOf(S, i) \in Nat /\ BlockOf(S, i) \in 1 .. h
    OBVIOUS
  <2>1. BlockOf(S, i) \in Nat /\ BlockOf(S, i) > 0 /\ BlockOf(S, i) <= h
    BY <1>1, <1>3, BlocksOf
  <2> QED
    BY <1>2, <2>1
<1>5. MaxOf(S) \in S
  BY <1>1, <1>3, BlocksOf
<1>6. plan.n_moves <= e /\ e \in Nat
  <2>1. e \in 0 .. i0
    BY <1>1, HolesCount
  <2> QED
    BY <2>1 DEF Packing
<1>7. ASSUME NEW i \in S PROVE plan.n_moves + BlockOf(S, i) <= MaxMoves
  <2>1. CASE OneBlock(c)
    <3>1. plan.next = 0 /\ i0 = 0
      <4>1. plan.next = 0
        BY <1>1, <2>1 DEF Packing
      <4>2. IsEmpty(c, 0)
        <5>1. 0 \notin c.used
          <6>1. 0 \notin Count(c) .. 2 * Count(c) - 1
            BY <1>1
          <6> QED
            BY <2>1, <6>1 DEF OneBlock
        <5>2. 0 \in Cells
          BY SizesAssumption DEF Cells
        <5> QED
          BY <5>1, <5>2, UsedCells
      <4>3. ~(0 \in 0 .. i0 - 1)
        BY <4>1, <4>2 DEF Packing
      <4> QED
        BY <4>1, <4>3
    <3>2. e = 0
      BY <1>6, <3>1, HolesCount, <1>1
    <3>3. Highest(c.used, e) = {}
      <4>1. \A j \in c.used : Cardinality({x \in c.used : x > j}) \in Nat
        <5> SUFFICES ASSUME NEW j \in c.used PROVE Cardinality({x \in c.used : x > j}) \in Nat
          OBVIOUS
        <5> DEFINE A == {x \in c.used : x > j}
        <5>1. A \in SUBSET c.used /\ IsFiniteSet(c.used)
          BY UsedCells
        <5> HIDE DEF A
        <5>2. Cardinality(A) \in Nat
          BY <5>1, FS_Subset, FS_CardinalityType
        <5> QED
          BY <5>2 DEF A
      <4> QED
        BY <3>2, <4>1 DEF Highest
    <3>4. \A x, y \in S : x < y => y - 1 \in S
      <4> SUFFICES ASSUME NEW x \in S, NEW y \in S, x < y PROVE y - 1 \in S
        OBVIOUS
      <4> DEFINE n == Count(c)
      <4>1. x \in n .. 2 * n - 1 /\ y \in n .. 2 * n - 1
        BY <2>1 DEF OneBlock
      <4>2. y - 1 \in n .. 2 * n - 1 /\ x <= y - 1 /\ y \in Nat /\ x \in Nat
        BY <1>1, <4>1
      <4>3. y - 1 \in c.used
        BY <2>1, <4>2 DEF OneBlock
      <4>4. CASE x = y - 1
        BY <4>4
      <4>5. CASE x # y - 1
        <5>1. y - 1 > x
          BY <4>2, <4>5
        <5> QED
          BY <3>3, <4>3, <5>1
      <4> QED
        BY <4>4, <4>5
    <3>5. BlockOf(S, i) = 1
      BY <1>1, <1>3, <3>4, BlocksOf
    <3> QED
      BY <1>1, <1>6, <3>2, <3>5
  <2>2. CASE Cardinality(Holes(c, Count(c))) <= MaxMoves
    <3> DEFINE k == i0 + h
               A == Holes(c, k)
               B == Holes(c, Count(c))
    <3>1. k \in Nat /\ k <= Count(c)
      BY <1>2
    <3>2. A \subseteq B
      <4> HIDE DEF k
      <4>1. \A x \in 0 .. k - 1 : x \in 0 .. Count(c) - 1
        BY <1>1, <3>1
      <4> QED
        BY <4>1 DEF Holes
    <3>3. IsFiniteSet(B) /\ Cardinality(B) \in Nat
      <4>1. IsFiniteSet(B)
        BY <1>1, HolesCount
      <4> QED
        BY <4>1, FS_CardinalityType
    <3> HIDE DEF A, B, k
    <3>4. Cardinality(A) <= Cardinality(B)
      BY <3>2, <3>3, FS_Subset
    <3>5. e + h <= MaxMoves
      BY <1>1, <1>2, <1>6, <2>2, <3>3, <3>4 DEF A, B, k
    <3> QED
      BY <1>1, <1>2, <1>4, <1>6, <1>7, <3>5
  <2> QED
    BY <2>1, <2>2 DEF Uncut
<1> QED
  BY <1>3, <1>4, <1>5, <1>7

\* Filling a hole keeps the plan a packing.
LEMMA HoleFills ==
    ASSUME NEW c, Sound(c), Uncut(c), NEW plan, PlanOK(c, plan),
           NEW i0 \in Nat, i0 < Count(c), IsEmpty(c, i0), plan.next <= i0,
           Packing(c, plan, i0)
    PROVE  Packing(c, FillHole(c, plan, i0), i0 + 1)
<1> DEFINE U == c.used
           R == HoleAt(c, i0)
           S == SourceAt(c, plan, i0)
           h == Cardinality(R)
           e == Cardinality(Holes(c, plan.next))
           E == Highest(U, e)
           n == Count(c)
           new == FillHole(c, plan, i0)
           next == i0 + h
           moves == plan.n_moves + BlockOf(S, MaxOf(S))
           moved == {i \in S : plan.n_moves + BlockOf(S, i) <= MaxMoves}
           ids == [k \in 1 .. Len(plan.ids) |->
                    IF k - 1 \in moved THEN i0 + Rank(S, k - 1) ELSE plan.ids[k]]
           n_moves == IF moves < MaxMoves THEN moves ELSE MaxMoves
<1>1. new = [ids |-> ids, n_moves |-> n_moves, next |-> next]
  BY DEF FillHole, SourceAt, TailAt, HoleAt, BlockOf, Rank, Count
<1>2. /\ plan.next \in Nat /\ plan.n_moves \in Nat /\ MaxMoves \in Nat \ {0}
      /\ Len(plan.ids) = End(c) /\ End(c) \in Nat /\ n \in Nat /\ n <= End(c)
      /\ U \in SUBSET Nat /\ IsFiniteSet(U)
      /\ \A i \in U : i + 1 \in 1 .. End(c) /\ i \in Nat /\ ~IsEmpty(c, i)
  BY UsedCells, SizesAssumption DEF PlanOK
<1>3. Holes(c, i0) = Holes(c, plan.next)
  <2>1. \A i : i \in 0 .. i0 - 1 /\ IsEmpty(c, i) <=> i \in 0 .. plan.next - 1 /\ IsEmpty(c, i)
    <3>1. \A i \in 0 .. i0 - 1 : IsEmpty(c, i) => i \in 0 .. plan.next - 1
      BY <1>2 DEF Packing
    <3>2. \A i \in 0 .. plan.next - 1 : i \in 0 .. i0 - 1
      BY <1>2
    <3> QED
      BY <3>1, <3>2
  <2> QED
    BY <2>1 DEF Holes
<1>4. /\ e = Cardinality(Holes(c, i0)) /\ e \in Nat /\ e <= i0
  <2>1. e = Cardinality(Holes(c, i0))
    BY <1>3
  <2> HIDE DEF e
  <2>2. e \in 0 .. i0
    BY <1>2, <2>1, HolesCount
  <2> QED
    BY <2>1, <2>2
<1>5. /\ plan.n_moves <= e /\ (e > 0 => plan.n_moves > 0)
      /\ \A i \in U : Moves(plan, i + 1) <=> i \in E
      /\ \A i \in U : i >= plan.next /\ ~Moves(plan, i + 1) => plan.ids[i + 1] = End(c)
      /\ \A i \in Holes(c, plan.next) : \E j \in 1 .. End(c) : Moves(plan, j) /\ plan.ids[j] = i
  BY DEF Packing
<1> HIDE DEF e
<1>6. /\ h \in Nat /\ h > 0 /\ next <= n
      /\ \A i : i \in R <=> i \in i0 .. next - 1
      /\ Holes(c, next) = Holes(c, i0) \cup R
      /\ Cardinality(Holes(c, next)) = e + h
  BY <1>4, HoleIs
<1>7. /\ S \in SUBSET U /\ IsFiniteSet(S) /\ Cardinality(S) = h
      /\ S \cap E = {} /\ Highest(U, e + h) = E \cup S
      /\ \A i \in S : i > i0 /\ plan.ids[i + 1] = End(c)
      /\ \A a \in S : \A x \in U : x > a => x \in S \/ x \in E
  BY <1>4, <1>5, SourceIs
<1> HIDE DEF S, R, h
<1>8. /\ \A i \in S : plan.n_moves + BlockOf(S, i) <= MaxMoves
      /\ S # {} /\ MaxOf(S) \in S
      /\ \A i \in S : BlockOf(S, i) \in Nat /\ BlockOf(S, i) \in 1 .. h
  BY <1>4, <1>7, MovesFit DEF e, h, R
<1>9. moved = S
  BY <1>8
<1>10. n_moves \in Nat /\ n_moves <= e + h /\ n_moves > 0
  <2> DEFINE b == BlockOf(S, MaxOf(S))
  <2>1. b \in Nat /\ b >= 1 /\ b <= h
    BY <1>6, <1>8
  <2> HIDE DEF b
  <2>2. moves \in Nat /\ moves <= e + h /\ moves > 0
    <3>1. moves = plan.n_moves + b
      BY DEF b
    <3> DEFINE m == plan.n_moves
    <3>2. m \in Nat /\ e \in Nat /\ h \in Nat /\ m <= e
      BY <1>2, <1>4, <1>5, <1>6
    <3> HIDE DEF moves, m
    <3>3. moves = m + b
      BY <3>1 DEF m
    <3> QED
      BY <2>1, <3>2, <3>3
  <2> HIDE DEF moves
  <2> QED
    BY <1>2, <1>4, <1>6, <2>2
<1> HIDE DEF moved, n_moves, ids
<1>11. new.ids = ids /\ new.n_moves = n_moves /\ new.next = next
  BY <1>1
<1>12. /\ PlanOK(c, new) /\ Len(ids) = End(c)
       /\ \A k \in 1 .. End(c) :
            ids[k] = IF k - 1 \in S THEN i0 + Rank(S, k - 1) ELSE plan.ids[k]
  <2>1. PlanOK(c, new)
    BY FillHoleOK DEF Sound
  <2> HIDE DEF new
  <2> QED
    BY <1>2, <1>9, <1>11, <2>1 DEF PlanOK, ids
<1> HIDE DEF new, U, E, n, next
<1>13. ASSUME NEW i \in S
       PROVE  /\ i \in U /\ i + 1 \in 1 .. End(c) /\ Rank(S, i) \in Nat /\ Rank(S, i) < h
              /\ ids[i + 1] = i0 + Rank(S, i) /\ i0 + Rank(S, i) \in R /\ Moves(new, i + 1)
  <2>1. i \in U /\ i \in Nat /\ i + 1 \in 1 .. End(c) /\ (i + 1) - 1 = i
    BY <1>2, <1>7
  <2>2. Rank(S, i) \in Nat /\ Rank(S, i) < h
    <3>1. S \in SUBSET Nat
      BY <1>2, <1>7
    <3> QED
      BY <1>7, <3>1, Ranks
  <2>3. ids[i + 1] = i0 + Rank(S, i)
    BY <1>12, <2>1
  <2>4. i0 + Rank(S, i) \in R /\ i0 + Rank(S, i) < n
    BY <1>2, <1>6, <2>2 DEF next
  <2>5. IsEmpty(c, i0 + Rank(S, i)) /\ ~IsEmpty(c, i)
    <3> DEFINE x == i0 + Rank(S, i)
    <3>1. x \in i0 .. x
      BY <2>2
    <3> HIDE DEF x
    <3>2. IsEmpty(c, x)
      BY <2>4, <3>1 DEF R, HoleAt, x
    <3> QED
      BY <1>2, <2>1, <3>2 DEF x
  <2>6. i0 + Rank(S, i) # i /\ i0 + Rank(S, i) # End(c)
    BY <1>2, <2>2, <2>4, <2>5
  <2>7. Moves(new, i + 1)
    BY <1>11, <1>12, <2>1, <2>3, <2>6 DEF Moves
  <2> QED
    BY <2>1, <2>2, <2>3, <2>4, <2>7
<1>14. ASSUME NEW i \in U, i \notin S
       PROVE  ids[i + 1] = plan.ids[i + 1] /\ (Moves(new, i + 1) <=> Moves(plan, i + 1))
  <2>1. i + 1 \in 1 .. End(c) /\ (i + 1) - 1 = i
    BY <1>2
  <2>2. ids[i + 1] = plan.ids[i + 1]
    BY <1>12, <1>14, <2>1
  <2> QED
    BY <1>2, <1>11, <1>12, <2>2 DEF Moves
<1>15. \A i \in U : Moves(new, i + 1) <=> i \in Highest(U, e + h)
  <2> SUFFICES ASSUME NEW i \in U PROVE Moves(new, i + 1) <=> i \in Highest(U, e + h)
    OBVIOUS
  <2>1. CASE i \in S
    BY <1>7, <1>13, <2>1
  <2>2. CASE i \notin S
    BY <1>5, <1>7, <1>14, <2>2
  <2> QED
    BY <2>1, <2>2
<1>16. \A i \in U : i >= new.next /\ ~Moves(new, i + 1) => new.ids[i + 1] = End(c)
  <2> SUFFICES ASSUME NEW i \in U, i >= next, ~Moves(new, i + 1)
               PROVE  ids[i + 1] = End(c)
    BY <1>11
  <2>1. i \notin S
    BY <1>13
  <2>2. i >= plan.next
    BY <1>2, <1>6 DEF next
  <2> QED
    BY <1>5, <1>14, <2>1, <2>2
<1>17. ASSUME NEW i \in Holes(c, next)
       PROVE  \E j \in 1 .. End(c) : Moves(new, j) /\ new.ids[j] = i
  <2>1. CASE i \in Holes(c, plan.next)
    <3>1. PICK j \in 1 .. End(c) : Moves(plan, j) /\ plan.ids[j] = i
      BY <1>5, <2>1
    <3>2. j - 1 \notin S
      <4>1. ASSUME j - 1 \in S PROVE FALSE
        <5>1. plan.ids[j] = End(c)
          <6>1. (j - 1) + 1 = j
            OBVIOUS
          <6> QED
            BY <1>7, <4>1, <6>1
        <5> QED
          BY <1>2, <3>1, <5>1 DEF Moves
      <4> QED
        BY <4>1
    <3>3. ids[j] = plan.ids[j] /\ Moves(new, j)
      BY <1>2, <1>11, <1>12, <3>1, <3>2 DEF Moves
    <3> QED
      BY <1>11, <3>1, <3>3
  <2>2. CASE i \in R
    <3> DEFINE r == i - i0
    <3>1. r \in Nat /\ r < h /\ i = i0 + r
      BY <1>6, <2>2 DEF next
    <3> HIDE DEF r
    <3>2. S \in SUBSET Nat
      BY <1>2, <1>7
    <3>3. PICK a \in S : Rank(S, a) = r
      BY <1>7, <3>1, <3>2, RanksOnto
    <3> QED
      BY <1>11, <1>13, <3>1, <3>3
  <2> QED
    BY <1>3, <1>6, <1>17, <2>1, <2>2
<1>18. \A i \in 0 .. (i0 + 1) - 1 : IsEmpty(c, i) => i < next
  BY <1>6 DEF next
<1>19. OneBlock(c) => next \in {0, n}
  <2> SUFFICES ASSUME OneBlock(c) PROVE next = n
    OBVIOUS
  <2>1. \A i \in 0 .. n - 1 : IsEmpty(c, i)
    <3> SUFFICES ASSUME NEW i \in 0 .. n - 1 PROVE IsEmpty(c, i)
      OBVIOUS
    <3>1. i \notin n .. 2 * n - 1 /\ i \in Nat /\ i < End(c)
      BY <1>2
    <3>2. i \notin c.used
      BY <3>1 DEF OneBlock, n
    <3> QED
      BY <3>1, <3>2, UsedCells
  <2>2. \A i \in i0 .. n - 1 : i \in R
    <3> SUFFICES ASSUME NEW i \in i0 .. n - 1 PROVE i \in R
      OBVIOUS
    <3>1. \A j \in i0 .. i : j \in 0 .. n - 1
      BY <1>2
    <3> QED
      BY <2>1, <3>1 DEF R, HoleAt, n
  <2>3. ASSUME next # n PROVE FALSE
    <3>1. next \in i0 .. n - 1
      BY <1>2, <1>6, <2>3 DEF next
    <3>2. next \in i0 .. next - 1
      BY <1>6, <2>2, <3>1
    <3> QED
      BY <1>6, <3>2 DEF next
  <2> QED
    BY <2>3
<1>20. Cardinality(Holes(c, new.next)) = e + h
  <2>1. Holes(c, new.next) = Holes(c, next)
    BY <1>11
  <2> QED
    BY <1>6, <2>1
<1>21. Packing(c, new, i0 + 1)
  <2> DEFINE g == Cardinality(Holes(c, new.next))
  <2>1. g = e + h
    BY <1>20
  <2> HIDE DEF g
  <2>2. /\ new.next <= Count(c)
        /\ new.n_moves <= g /\ new.n_moves > 0
        /\ \A i \in c.used : Moves(new, i + 1) <=> i \in Highest(c.used, g)
    BY <1>6, <1>10, <1>11, <1>15, <2>1 DEF U, n
  <2>3. /\ \A i \in 0 .. (i0 + 1) - 1 : IsEmpty(c, i) => i < new.next
        /\ OneBlock(c) => new.next \in {0, Count(c)}
        /\ \A i \in c.used : i >= new.next /\ ~Moves(new, i + 1) => new.ids[i + 1] = End(c)
        /\ \A i \in Holes(c, new.next) : \E j \in 1 .. End(c) : Moves(new, j) /\ new.ids[j] = i
    BY <1>11, <1>16, <1>17, <1>18, <1>19 DEF U, n
  <2> QED
    BY <2>2, <2>3 DEF Packing, g
<1> QED
  BY <1>21 DEF new

\* So does a visit of a cell.
LEMMA VisitPacks ==
    ASSUME NEW c, Sound(c), Uncut(c), NEW plan, PlanOK(c, plan),
           NEW i0 \in Nat, i0 < Count(c), Packing(c, plan, i0)
    PROVE  Packing(c, Visit(c, plan, i0), i0 + 1)
<1> DEFINE U == c.used
           n == Count(c)
           e == Cardinality(Holes(c, plan.next))
           new == Visit(c, plan, i0)
<1>1. /\ plan.next \in Nat /\ plan.n_moves \in Nat /\ MaxMoves \in Nat \ {0}
      /\ Len(plan.ids) = End(c) /\ End(c) \in Nat /\ n \in Nat /\ n <= End(c)
      /\ plan.next \in 0 .. n /\ plan.next <= n
  BY UsedCells, SizesAssumption DEF PlanOK, Packing
<1>2. /\ e \in Nat /\ e <= plan.next /\ IsFiniteSet(Holes(c, plan.next))
      /\ plan.n_moves <= e
  <2>1. e \in 0 .. plan.next /\ IsFiniteSet(Holes(c, plan.next))
    BY <1>1, HolesCount
  <2> HIDE DEF e
  <2> QED
    BY <1>1, <2>1 DEF Packing, e
<1>3. CASE plan.n_moves = MaxMoves \/ i0 < plan.next
  <2>1. ASSUME IsEmpty(c, i0), ~(i0 < plan.next), plan.n_moves = MaxMoves PROVE FALSE
    <3>1. e > 0
      BY <1>1, <1>2, <2>1
    <3>2. ~OneBlock(c)
      <4> SUFFICES ASSUME OneBlock(c) PROVE FALSE
        OBVIOUS
      <4>1. plan.next = 0
        BY <1>1, <2>1 DEF Packing
      <4> QED
        BY <1>2, <3>1, <4>1
    <3> DEFINE A == Holes(c, plan.next)
               B == Holes(c, n)
               D == A \cup {i0}
    <3>3. i0 \notin A /\ D \subseteq B
      <4>1. i0 \notin A
        BY <1>1, <2>1 DEF Holes
      <4>2. A \subseteq B
        <5>1. \A x \in 0 .. plan.next - 1 : x \in 0 .. n - 1
          BY <1>1
        <5> QED
          BY <5>1 DEF Holes
      <4>3. i0 \in B
        <5>1. i0 \in 0 .. n - 1
          BY <1>1
        <5> QED
          BY <2>1, <5>1 DEF Holes
      <4> QED
        BY <4>1, <4>2, <4>3
    <3>4. Cardinality(D) = e + 1 /\ IsFiniteSet(D)
      <4>1. IsFiniteSet(A) /\ Cardinality(A) = e
        BY <1>2
      <4> HIDE DEF A
      <4> QED
        BY <3>3, <4>1, FS_AddElement
    <3>5. IsFiniteSet(B) /\ Cardinality(B) \in Nat
      <4>1. IsFiniteSet(B)
        BY <1>1, HolesCount
      <4> QED
        BY <4>1, FS_CardinalityType
    <3> HIDE DEF B, D
    <3>6. Cardinality(D) <= Cardinality(B)
      BY <3>3, <3>5, FS_Subset
    <3>7. Cardinality(B) <= MaxMoves
      BY <3>2 DEF Uncut, B
    <3> HIDE DEF e
    <3> QED
      BY <1>1, <1>2, <2>1, <3>4, <3>5, <3>6, <3>7
  <2>2. \A i \in 0 .. (i0 + 1) - 1 : IsEmpty(c, i) => i < plan.next
    <3> SUFFICES ASSUME NEW i \in 0 .. (i0 + 1) - 1, IsEmpty(c, i) PROVE i < plan.next
      OBVIOUS
    <3>1. CASE i = i0
      BY <1>3, <2>1, <3>1
    <3>2. CASE i # i0
      <4>1. i \in 0 .. i0 - 1
        BY <3>2
      <4> QED
        BY <4>1 DEF Packing
    <3> QED
      BY <3>1, <3>2
  <2>3. Packing(c, plan, i0 + 1)
    BY <2>2 DEF Packing
  <2> QED
    BY <1>3, <2>3 DEF Visit
<1>4. CASE ~(plan.n_moves = MaxMoves \/ i0 < plan.next) /\ IsEmpty(c, i0)
  <2>1. plan.next <= i0
    BY <1>1, <1>4
  <2>2. new = FillHole(c, plan, i0)
    BY <1>4 DEF Visit
  <2> HIDE DEF new
  <2>3. Packing(c, new, i0 + 1)
    BY <1>4, <2>1, <2>2, HoleFills
  <2> QED
    BY <2>3 DEF new
<1>5. CASE ~(plan.n_moves = MaxMoves \/ i0 < plan.next) /\ ~IsEmpty(c, i0)
  <2> DEFINE ids == [plan.ids EXCEPT ![i0 + 1] = i0]
             f == Cardinality(Holes(c, i0 + 1))
             E == Highest(U, e)
  <2>1. new = [plan EXCEPT !.ids = ids, !.next = i0 + 1]
    BY <1>5 DEF Visit
  <2>2. /\ \A k \in 1 .. End(c) : ids[k] = IF k = i0 + 1 THEN i0 ELSE plan.ids[k]
        /\ plan.ids \in [1 .. End(c) -> 0 .. End(c)]
        /\ Len(ids) = End(c) /\ i0 + 1 \in 1 .. End(c)
    <3>1. plan.ids \in Seq(0 .. End(c)) /\ i0 + 1 \in 1 .. End(c)
      BY <1>1 DEF PlanOK
    <3>2. plan.ids \in [1 .. End(c) -> 0 .. End(c)]
      BY <1>1, <3>1, SMTT(30)
    <3>3. ids \in [1 .. End(c) -> 0 .. End(c)]
      BY <1>1, <3>2
    <3>4. \A k \in 1 .. End(c) : ids[k] = IF k = i0 + 1 THEN i0 ELSE plan.ids[k]
      BY <3>2
    <3> HIDE DEF ids
    <3>5. Len(ids) = End(c)
      BY <1>1, <3>3
    <3> QED
      BY <3>1, <3>2, <3>4, <3>5
  <2> HIDE DEF new, ids
  <2>3. new.ids = ids /\ new.next = i0 + 1 /\ new.n_moves = plan.n_moves
    <3>1. plan \in [ids : Seq(0 .. End(c)), n_moves : Nat, next : Nat]
      BY DEF PlanOK
    <3> QED
      BY <2>1, <3>1
  <2>4. Holes(c, i0 + 1) = Holes(c, plan.next)
    <3>1. \A i \in 0 .. (i0 + 1) - 1 : IsEmpty(c, i) => i \in 0 .. plan.next - 1
      <4> SUFFICES ASSUME NEW i \in 0 .. (i0 + 1) - 1, IsEmpty(c, i)
                   PROVE  i \in 0 .. plan.next - 1
        OBVIOUS
      <4>1. i \in 0 .. i0 - 1
        BY <1>5
      <4>2. i < plan.next
        BY <4>1 DEF Packing
      <4> QED
        BY <1>1, <4>1, <4>2
    <3>2. \A i \in 0 .. plan.next - 1 : i \in 0 .. (i0 + 1) - 1
      BY <1>1, <1>5
    <3> QED
      BY <3>1, <3>2 DEF Holes
  <2>5. f = e
    BY <2>4
  <2>6. i0 \in U
    <3>1. i0 \in Cells
      BY <1>1, UsedCells
    <3> QED
      BY <1>5, <3>1, UsedCells
  <2>7. i0 \notin E
    <3> HIDE DEF E
    <3>1. i0 + 1 \in 0 .. n /\ i0 < i0 + 1
      BY <1>1
    <3>2. i0 \notin Highest(c.used, f)
      BY <2>6, <3>1, LowStays
    <3> QED
      BY <2>5, <3>2 DEF E
  <2>8. ~OneBlock(c)
    <3>1. i0 \notin n .. 2 * n - 1
      BY <1>1
    <3> QED
      BY <2>6, <3>1 DEF OneBlock
  <2>9. /\ (e > 0 => plan.n_moves > 0)
        /\ \A i \in U : Moves(plan, i + 1) <=> i \in E
        /\ \A i \in U : i >= plan.next /\ ~Moves(plan, i + 1) => plan.ids[i + 1] = End(c)
        /\ \A i \in Holes(c, plan.next) :
                \E j \in 1 .. End(c) : Moves(plan, j) /\ plan.ids[j] = i
    BY DEF Packing
  <2> HIDE DEF E, f, e
  <2>10. \A k \in 1 .. End(c) :
            Moves(new, k) <=> (k # i0 + 1 /\ Moves(plan, k))
    <3> SUFFICES ASSUME NEW k \in 1 .. End(c)
                 PROVE  Moves(new, k) <=> (k # i0 + 1 /\ Moves(plan, k))
      OBVIOUS
    <3>1. CASE k = i0 + 1
      <4>1. ids[k] = k - 1
        BY <2>2, <3>1
      <4> QED
        BY <2>3, <3>1, <4>1 DEF Moves
    <3>2. CASE k # i0 + 1
      <4>1. ids[k] = plan.ids[k]
        BY <2>2, <3>2
      <4> QED
        BY <1>1, <2>2, <2>3, <3>2, <4>1 DEF Moves
    <3> QED
      BY <3>1, <3>2
  <2>11. \A i \in U : i + 1 \in 1 .. End(c) /\ i \in Nat
    BY UsedCells
  <2>12. \A i \in U : Moves(new, i + 1) <=> i \in E
    <3> SUFFICES ASSUME NEW i \in U PROVE Moves(new, i + 1) <=> i \in E
      OBVIOUS
    <3>1. CASE i = i0
      BY <2>7, <2>10, <2>11, <3>1
    <3>2. CASE i # i0
      <4>1. i + 1 # i0 + 1
        BY <2>11, <3>2
      <4> QED
        BY <2>9, <2>10, <2>11, <4>1
    <3> QED
      BY <3>1, <3>2
  <2>13. ASSUME NEW i \in U, i >= i0 + 1, ~Moves(new, i + 1) PROVE ids[i + 1] = End(c)
    <3>1. i \in Nat /\ i + 1 # i0 + 1 /\ i + 1 \in 1 .. End(c) /\ i >= plan.next
      BY <1>1, <1>5, <2>11, <2>13
    <3>2. ~Moves(plan, i + 1)
      BY <2>10, <2>13, <3>1
    <3>3. plan.ids[i + 1] = End(c)
      BY <2>9, <2>13, <3>1, <3>2
    <3> QED
      BY <2>2, <3>1, <3>3
  <2>14. ASSUME NEW i \in Holes(c, i0 + 1)
         PROVE  \E j \in 1 .. End(c) : Moves(new, j) /\ ids[j] = i
    <3>1. PICK j \in 1 .. End(c) : Moves(plan, j) /\ plan.ids[j] = i
      BY <2>4, <2>9, <2>14
    <3>2. j # i0 + 1
      BY <2>6, <2>7, <2>9, <3>1
    <3> QED
      BY <2>2, <2>10, <3>1, <3>2
  <2>15. \A i \in 0 .. (i0 + 1) - 1 : IsEmpty(c, i) => i < i0 + 1
    OBVIOUS
  <2>16. Packing(c, new, i0 + 1)
    <3> DEFINE g == Cardinality(Holes(c, new.next))
    <3>1. g = e
      BY <2>3, <2>5 DEF f
    <3> HIDE DEF g
    <3>2. /\ new.next <= Count(c) /\ new.n_moves <= g /\ (g > 0 => new.n_moves > 0)
          /\ \A i \in c.used : Moves(new, i + 1) <=> i \in Highest(c.used, g)
          /\ OneBlock(c) => new.next \in {0, Count(c)}
      BY <1>1, <1>2, <2>3, <2>8, <2>9, <2>12, <3>1 DEF E
    <3>3. /\ \A i \in 0 .. (i0 + 1) - 1 : IsEmpty(c, i) => i < new.next
          /\ \A i \in c.used : i >= new.next /\ ~Moves(new, i + 1) => new.ids[i + 1] = End(c)
          /\ \A i \in Holes(c, new.next) : \E j \in 1 .. End(c) : Moves(new, j) /\ new.ids[j] = i
      BY <2>3, <2>13, <2>14, <2>15
    <3> QED
      BY <3>2, <3>3 DEF Packing, g
  <2> QED
    BY <2>16 DEF new
<1> QED
  BY <1>3, <1>4, <1>5

\* The plan of a defragmentation that is not cut short is a packing of the first
\* |used| cells.
LEMMA PlanPacks ==
    ASSUME NEW c, Sound(c), Uncut(c)
    PROVE  Packing(c, DefragPlan(c), Count(c))
<1> DEFINE n == Count(c)
           base == NoMoves(c)
<1>1. PICK plans :
        /\ plans[0] = base
        /\ \A k \in 1 .. n : plans[k] = Visit(c, plans[k - 1], k - 1)
        /\ \A k \in 0 .. n : PlanOK(c, plans[k])
        /\ plans[n] = DefragPlan(c)
  BY PlanVisits DEF Count, Sound
<1>2. n \in Nat /\ End(c) \in Nat
  BY UsedCells
<1> HIDE DEF n
<1>3. Packing(c, base, 0)
  <2>1. base.n_moves = 0 /\ base.next = 0 /\ Len(base.ids) = End(c)
        /\ \A k \in 1 .. End(c) : base.ids[k] = End(c)
    <3> DEFINE m == End(c)
               ids == [i \in 1 .. m |-> m]
    <3>1. base.n_moves = 0 /\ base.next = 0 /\ base.ids = ids
      BY DEF NoMoves
    <3>2. m \in Nat
      BY <1>2
    <3> HIDE DEF m
    <3>3. Len(ids) = m /\ \A k \in 1 .. m : ids[k] = m
      BY <3>2
    <3> HIDE DEF ids, base
    <3> QED
      BY <3>1, <3>3 DEF m
  <2> HIDE DEF base
  <2>2. Holes(c, base.next) = {} /\ Cardinality(Holes(c, base.next)) = 0
    <3>1. Holes(c, base.next) = {}
      BY <2>1 DEF Holes
    <3> QED
      BY <3>1, FS_EmptySet
  <2>3. \A i \in c.used : i + 1 \in 1 .. End(c) /\ i \in Nat
    BY UsedCells
  <2>4. \A i \in c.used : ~Moves(base, i + 1) /\ base.ids[i + 1] = End(c)
    BY <2>1, <2>3 DEF Moves
  <2>5. \A i \in c.used : i \notin Highest(c.used, 0)
    BY HighestNone
  <2>6. \A i \in 0 .. 0 - 1 : IsEmpty(c, i) => i < base.next
    OBVIOUS
  <2>7. base.next <= Count(c)
    BY <1>2, <2>1 DEF n
  <2> QED
    BY <2>1, <2>2, <2>4, <2>5, <2>6, <2>7 DEF Packing
<1> DEFINE T == {k \in 0 .. n : Packing(c, plans[k], k)}
<1>4. 0 \in T
  BY <1>1, <1>2, <1>3
<1>5. ASSUME NEW k \in 0 .. n - 1, k \in T PROVE k + 1 \in T
  <2>1. k \in Nat /\ k < n /\ k \in 0 .. n /\ k + 1 \in 1 .. n /\ k + 1 \in 0 .. n /\ (k + 1) - 1 = k
    BY <1>2
  <2>2. PlanOK(c, plans[k]) /\ Packing(c, plans[k], k)
    BY <1>1, <1>5, <2>1
  <2>3. Packing(c, Visit(c, plans[k], k), k + 1)
    BY <2>1, <2>2, VisitPacks DEF n
  <2>4. plans[k + 1] = Visit(c, plans[k], k)
    BY <1>1, <2>1
  <2> QED
    BY <2>1, <2>3, <2>4
<1> HIDE DEF T
<1>6. 0 .. n \subseteq T
  BY <1>2, <1>4, <1>5, CountUp
<1>7. Packing(c, plans[n], n)
  BY <1>2, <1>6 DEF T
<1> QED
  BY <1>1, <1>7 DEF n

\* A defragmentation whose plan is not cut short leaves the used cells in one
\* piece from the first cell on, as many as they were.
THEOREM DefragmentingPacks ==
    ASSUME NEW c, Sound(c), Uncut(c)
    PROVE  LET plan == DefragPlan(c)
               d == Defragged(c, plan)
           IN  /\ Sound(d)
               /\ \A i : i \in d.used <=> i \in 0 .. Count(c) - 1
<1> DEFINE plan == DefragPlan(c)
           d == Defragged(c, plan)
           n == Count(c)
           U == c.used
           B == Holes(c, n)
           F == UsedFrom(c, n)
           e == Cardinality(B)
<1>1. PlanOK(c, plan) /\ MovedTo(c, plan, End(c), d) /\ Packing(c, plan, n)
  BY DefragmentingMovesCells, PlanPacks
<1> HIDE DEF plan, d
<1>2. /\ U \in SUBSET Nat /\ IsFiniteSet(U) /\ n \in Nat /\ n <= End(c) /\ End(c) \in Nat
      /\ End(c) <= NCells /\ NCells \in Nat /\ U \in SUBSET Cells
      /\ \A i \in Cells : i \in U <=> ~IsEmpty(c, i)
      /\ \A i \in U : i \in Nat /\ i < End(c) /\ i + 1 \in 1 .. End(c)
      /\ \A i \in Nat : i < End(c) => i \in Cells
      /\ Sound(d) /\ Len(plan.ids) = End(c) /\ plan.next \in Nat /\ plan.n_moves \in Nat
  BY <1>1, UsedCells DEF PlanOK, MovedTo
<1>3. IsFiniteSet(F) /\ Cardinality(F) = e /\ e \in Nat /\ IsFiniteSet(B)
  <2>1. /\ IsFiniteSet(B) /\ Cardinality(B) \in 0 .. n
        /\ IsFiniteSet(F) /\ Cardinality(F) \in Nat
        /\ Cardinality(F) + n = n + Cardinality(B)
    BY <1>2, HolesCount
  <2> HIDE DEF B, F, n
  <2> QED
    BY <1>2, <2>1
<1>4. Holes(c, plan.next) = B
  <2>1. \A i \in 0 .. n - 1 : IsEmpty(c, i) => i \in 0 .. plan.next - 1
    BY <1>1, <1>2 DEF Packing
  <2>2. \A i \in 0 .. plan.next - 1 : i \in 0 .. n - 1
    BY <1>1, <1>2 DEF Packing
  <2> QED
    BY <2>1, <2>2 DEF Holes
<1>5. Highest(U, e) = F
  <2>1. F \in SUBSET U
    BY DEF UsedFrom
  <2>2. \A a \in F : \A x \in U : x > a => x \in F
    <3> SUFFICES ASSUME NEW a \in U, a >= n, NEW x \in U, x > a PROVE x >= n
      BY DEF UsedFrom
    <3>1. a \in Nat /\ x \in Nat
      BY <1>2
    <3> HIDE DEF n
    <3> QED
      BY <1>2, <3>1
  <2> HIDE DEF F, U
  <2>3. Highest(U, Cardinality(F)) = F
    BY <1>2, <2>1, <2>2, HighestIs
  <2> QED
    BY <1>3, <2>3
<1>6. /\ \A i \in U : Moves(plan, i + 1) <=> i \in F
      /\ \A i \in B : \E j \in 1 .. End(c) : Moves(plan, j) /\ plan.ids[j] = i
      /\ e > 0 => plan.n_moves > 0
  <2> HIDE DEF F, B, U
  <2> QED
    BY <1>1, <1>4, <1>5 DEF Packing, U
<1>7. /\ \A i \in U : i \in F <=> i >= n
      /\ \A i : i \in B <=> i \in 0 .. n - 1 /\ IsEmpty(c, i)
  BY DEF UsedFrom, Holes
<1> HIDE DEF B, F, U, n, e
<1>8. \A j \in 1 .. End(c) : Moves(plan, j) =>
        /\ j - 1 \in U /\ j - 1 >= n /\ plan.ids[j] \in 0 .. n - 1 /\ IsEmpty(c, plan.ids[j])
        /\ d.pos[plan.ids[j]] = c.pos[j - 1] /\ IsEmpty(d, j - 1)
  <2> SUFFICES ASSUME NEW j \in 1 .. End(c), Moves(plan, j)
               PROVE  /\ j - 1 \in U /\ j - 1 >= n
                      /\ plan.ids[j] \in 0 .. n - 1 /\ IsEmpty(c, plan.ids[j])
                      /\ d.pos[plan.ids[j]] = c.pos[j - 1] /\ IsEmpty(d, j - 1)
    OBVIOUS
  <2>1. /\ j - 1 \in Cells /\ ~IsEmpty(c, j - 1) /\ plan.ids[j] \in Cells
        /\ IsEmpty(c, plan.ids[j]) /\ plan.ids[j] < plan.next
    BY <1>1 DEF PlanOK
  <2>2. j - 1 \in U /\ (j - 1) + 1 = j
    BY <1>2, <2>1
  <2>3. j - 1 >= n
    BY <1>6, <1>7, <2>2
  <2>4. plan.ids[j] \in 0 .. n - 1
    <3>1. plan.ids[j] \in Nat /\ plan.next <= n
      BY <1>1, <1>2, <2>1 DEF Packing, n, Cells
    <3> QED
      BY <1>2, <2>1, <3>1
  <2>5. d.pos[plan.ids[j]] = c.pos[j - 1] /\ IsEmpty(d, j - 1)
    <3>1. j <= End(c)
      BY <1>2
    <3> QED
      BY <1>1, <3>1 DEF MovedTo
  <2> QED
    BY <2>1, <2>2, <2>3, <2>4, <2>5
<1>9. ASSUME NEW i \in Cells PROVE ~IsEmpty(d, i) <=> i \in 0 .. n - 1
  <2>0. i \in Nat
    BY <1>2 DEF Cells
  <2>1. CASE i \in B
    <3>1. PICK j \in 1 .. End(c) : Moves(plan, j) /\ plan.ids[j] = i
      BY <1>6, <2>1
    <3>2. j - 1 \in U /\ d.pos[i] = c.pos[j - 1]
      BY <1>8, <3>1
    <3>3. ~IsEmpty(c, j - 1)
      BY <1>2, <3>2
    <3> QED
      BY <1>7, <2>1, <3>2, <3>3 DEF IsEmpty
  <2>2. CASE i \in F
    <3>1. i \in U
      BY <2>2 DEF F, UsedFrom, U
    <3>2. i >= n /\ Moves(plan, i + 1) /\ i + 1 \in 1 .. End(c) /\ (i + 1) - 1 = i
      BY <1>2, <1>6, <1>7, <2>2, <3>1
    <3>3. IsEmpty(d, i)
      BY <1>8, <3>2
    <3> QED
      BY <1>2, <2>0, <3>2, <3>3
  <2>3. CASE i \notin B /\ i \notin F
    <3>1. \A j \in 1 .. End(c) : Moves(plan, j) => i # j - 1 /\ i # plan.ids[j]
      <4> SUFFICES ASSUME NEW j \in 1 .. End(c), Moves(plan, j)
                   PROVE  i # j - 1 /\ i # plan.ids[j]
        OBVIOUS
      <4>1. j - 1 \in F /\ plan.ids[j] \in B
        BY <1>7, <1>8
      <4> QED
        BY <2>3, <4>1
    <3>2. d.pos[i] = c.pos[i]
      BY <1>1, <3>1 DEF MovedTo
    <3>3. ~IsEmpty(c, i) <=> i \in 0 .. n - 1
      <4>1. CASE IsEmpty(c, i)
        BY <1>7, <2>3, <4>1
      <4>2. CASE ~IsEmpty(c, i)
        <5>1. i \in U /\ ~(i >= n)
          BY <1>2, <1>7, <2>3, <4>2
        <5> QED
          BY <1>2, <2>0, <4>2, <5>1
      <4> QED
        BY <4>1, <4>2
    <3> QED
      BY <3>2, <3>3 DEF IsEmpty
  <2> QED
    BY <2>1, <2>2, <2>3
<1>10. \A i \in 0 .. n - 1 : i \in Cells
  <2> SUFFICES ASSUME NEW i \in 0 .. n - 1 PROVE i \in Cells
    OBVIOUS
  <2>1. i \in Nat /\ i < End(c)
    BY <1>2
  <2> QED
    BY <1>2, <2>1
<1>11. \A i : i \in d.used <=> i \in 0 .. n - 1
  <2>1. d.used \in SUBSET Cells /\ \A i \in Cells : i \in d.used <=> ~IsEmpty(d, i)
    BY <1>2, UsedCells
  <2> QED
    BY <1>9, <1>10, <2>1
<1> QED
  BY <1>2, <1>11 DEF plan, d, n
===================================================================================
