--------------------------- MODULE Enc28j60Proofs ---------------------------
(***************************************************************************)
(* Proofs about Enc28j60 and MemPool, for every size of the memory, of the *)
(* receive ring and of the pool, and every set of frames and writes.       *)
(***************************************************************************)
EXTENDS Enc28j60, FiniteSetTheorems, SequenceTheorems, TLAPS

-----------------------------------------------------------------------------
(***************************************************************************)
(* The list of descriptors                                                 *)
(***************************************************************************)
Descriptors == {POOLSTART} \cup Handles
Descriptor == [begin : Nat, size : Nat, nextblock : Descriptors]

\* s is the list that starts at the anchor, without a cycle.
Lists(bs, s) ==
    /\ s \in Seq(Descriptors) /\ Len(s) >= 1
    /\ s[1] = POOLSTART
    /\ \A i, j \in 1 .. Len(s) : s[i] = s[j] => i = j
    /\ \A i \in 1 .. Len(s) : bs[s[i]].nextblock = IF i = Len(s) THEN NOBLOCK ELSE s[i + 1]

\* It is in address order and has the descriptors in use.
InOrder(bs, s) ==
    /\ bs[POOLSTART].begin = MEMPOOL_STARTADDRESS /\ bs[POOLSTART].size = 0
    /\ \A i, j \in 1 .. Len(s) : i < j => End(bs[s[i]]) <= bs[s[j]].begin
    /\ \A i \in 1 .. Len(s) : End(bs[s[i]]) <= PoolEnd
    /\ \A h \in Handles : bs[h].size > 0 <=> \E i \in 1 .. Len(s) : s[i] = h

PoolOK(bs, s) == bs \in [Descriptors -> Descriptor] /\ Lists(bs, s) /\ InOrder(bs, s)

LEMMA Constants ==
    /\ MEMPOOL_NUM_MEMBLOCKS \in Nat /\ RXEND_INIT \in Nat /\ TXEND_INIT \in Nat
    /\ Descriptors = 0 .. MEMPOOL_NUM_MEMBLOCKS
    /\ Handles \subseteq Nat /\ POOLSTART \notin Handles /\ NOBLOCK \notin Handles
    /\ Handles \subseteq Descriptors /\ POOLSTART \in Descriptors
    /\ MEMPOOL_STARTADDRESS \in Nat /\ MEMPOOL_SIZE \in Nat /\ PoolEnd \in Nat
    /\ MEMPOOL_STARTADDRESS = RXEND_INIT + 2
    /\ PoolEnd = MEMPOOL_STARTADDRESS + MEMPOOL_SIZE
    /\ RXEND_INIT + 2 <= TXEND_INIT
  BY MemoryAssumption
  DEF Descriptors, Handles, POOLSTART, NOBLOCK, MEMPOOL_STARTADDRESS, MEMPOOL_SIZE, PoolEnd

\* A sequence without repetition is no longer than the set it is taken from.
LEMMA ListLength ==
    ASSUME NEW s \in Seq(Descriptors), \A i, j \in 1 .. Len(s) : s[i] = s[j] => i = j
    PROVE  Len(s) <= MEMPOOL_NUM_MEMBLOCKS + 1
<1> DEFINE m == MEMPOOL_NUM_MEMBLOCKS
<1>1. m \in Nat /\ Descriptors = 0 .. m
  BY Constants
<1>2. IsFiniteSet(0 .. m) /\ Cardinality(0 .. m) = m + 1
  BY <1>1, FS_Interval
<1>3. Len(s) \in Nat /\ s \in [1 .. Len(s) -> 0 .. m]
  BY <1>1
<1>4. IsFiniteSet(1 .. Len(s)) /\ Cardinality(1 .. Len(s)) = Len(s)
  <2>1. 1 \in Int /\ Len(s) \in Int
    BY <1>3
  <2>2. /\ IsFiniteSet(1 .. Len(s))
        /\ Cardinality(1 .. Len(s)) = IF 1 > Len(s) THEN 0 ELSE Len(s) - 1 + 1
    BY <2>1, FS_Interval, Zenon
  <2> QED
    BY <1>3, <2>2
<1>5. ~ (m + 1 < Len(s))
  <2> SUFFICES ASSUME m + 1 < Len(s) PROVE FALSE
    OBVIOUS
  <2>1. Cardinality(0 .. m) < Cardinality(1 .. Len(s))
    BY <1>2, <1>4
  <2>2. \E i, j \in 1 .. Len(s) : i # j /\ s[i] = s[j]
    BY <1>2, <1>3, <1>4, <2>1, FS_PigeonHole, Zenon
  <2> QED
    BY <2>2, Zenon
<1> QED
  BY <1>1, <1>3, <1>5

\* A set of numbers that is not empty has a least element.
LEMMA Least ==
    ASSUME NEW T, T \subseteq Nat, T # {}
    PROVE  \E x \in T : \A y \in T : x =< y
<1> DEFINE R == {p \in Nat \X Nat : p[1] < p[2]}
<1>1. IsWellFoundedOn(R, Nat)
  BY NatLessThanWellFounded, Zenon DEF OpToRel
<1> HIDE DEF R
<1>2. PICK x \in T : \A y \in T : ~ (<<y, x>> \in R)
  BY <1>1, WFMin
<1>3. ASSUME NEW y \in T
      PROVE  x =< y
  <2>1. x \in Nat /\ y \in Nat
    OBVIOUS
  <2>2. y < x => <<y, x>> \in R
    BY <2>1 DEF R
  <2> QED
    BY <1>2, <2>1, <2>2
<1> QED
  BY <1>3

LEMMA MinIn ==
    ASSUME NEW T, T \subseteq Nat, T # {}
    PROVE  Min(T) \in T
  BY Least DEF Min

\* What the walk has after n steps.
Prefix(s, n) == SubSeq(s, 1, IF n + 1 <= Len(s) THEN n + 1 ELSE Len(s))

LEMMA PrefixFacts ==
    ASSUME NEW s \in Seq(Descriptors), Len(s) >= 1, NEW n \in Nat
    PROVE  /\ Prefix(s, n) \in Seq(Descriptors)
           /\ Len(Prefix(s, n)) = IF n + 1 <= Len(s) THEN n + 1 ELSE Len(s)
           /\ \A i \in 1 .. Len(Prefix(s, n)) : Prefix(s, n)[i] = s[i]
  BY DEF Prefix

LEMMA PrefixStep ==
    ASSUME NEW bs, NEW s, Lists(bs, s), NEW n \in Nat
    PROVE  Followed(bs, Prefix(s, n)) = Prefix(s, n + 1)
<1> DEFINE p == Prefix(s, n)
           q == Prefix(s, n + 1)
<1>1. s \in Seq(Descriptors) /\ Len(s) >= 1 /\ Len(s) \in Nat
  BY DEF Lists
<1>2. /\ p \in Seq(Descriptors) /\ Len(p) = IF n + 1 <= Len(s) THEN n + 1 ELSE Len(s)
      /\ \A i \in 1 .. Len(p) : p[i] = s[i]
  BY <1>1, PrefixFacts
<1>3. /\ q \in Seq(Descriptors) /\ Len(q) = IF n + 2 <= Len(s) THEN n + 2 ELSE Len(s)
      /\ \A i \in 1 .. Len(q) : q[i] = s[i]
  <2>1. n + 1 \in Nat /\ (n + 1) + 1 = n + 2
    OBVIOUS
  <2> QED
    BY <1>1, <2>1, PrefixFacts
<1> HIDE DEF p, q
<1>4. Last(p) = s[Len(p)] /\ Len(p) \in 1 .. Len(s)
  BY <1>1, <1>2 DEF Last
<1>5. bs[Last(p)].nextblock = IF Len(p) = Len(s) THEN NOBLOCK ELSE s[Len(p) + 1]
  BY <1>4 DEF Lists
<1>6. CASE Len(p) = Len(s)
  <2>1. Followed(bs, p) = p
    BY <1>5, <1>6 DEF Followed
  <2>2. p = q
    BY <1>1, <1>2, <1>3, <1>6
  <2> QED
    BY <2>1, <2>2 DEF p, q
<1>7. CASE Len(p) # Len(s)
  <2>1. Len(p) = n + 1 /\ n + 2 \in 1 .. Len(s) /\ Len(q) = n + 2
    BY <1>1, <1>2, <1>3, <1>7
  <2>2. s[n + 2] # s[1]
    <3>1. 1 \in 1 .. Len(s) /\ n + 2 # 1
      BY <1>1
    <3> QED
      BY <2>1, <3>1 DEF Lists
  <2>3. bs[Last(p)].nextblock = s[n + 2] /\ s[n + 2] # NOBLOCK
    BY <1>5, <1>7, <2>1, <2>2 DEF Lists, NOBLOCK, POOLSTART
  <2>4. Followed(bs, p) = Append(p, s[n + 2])
    BY <2>3 DEF Followed
  <2>5. s[n + 2] \in Descriptors
    BY <1>1, <2>1
  <2>6. Append(p, s[n + 2]) = q
    BY <1>2, <1>3, <2>1, <2>5
  <2> QED
    BY <2>4, <2>6 DEF p, q
<1> QED
  BY <1>6, <1>7

\* The walk finds the list.
LEMMA ChainIs ==
    ASSUME NEW bs, NEW s, Lists(bs, s)
    PROVE  Chain(bs) = s
<1> DEFINE m == MEMPOOL_NUM_MEMBLOCKS
           IsWalk(w) == w = [n \in 0 .. m |-> IF n = 0 THEN <<POOLSTART>>
                                              ELSE Followed(bs, w[n - 1])]
           f == [n \in 0 .. m |-> Prefix(s, n)]
<1>1. s \in Seq(Descriptors) /\ Len(s) >= 1 /\ Len(s) \in Nat /\ m \in Nat
  BY Constants DEF Lists
<1>2. Prefix(s, 0) = <<POOLSTART>>
  <2>1. /\ Prefix(s, 0) \in Seq(Descriptors) /\ Len(Prefix(s, 0)) = 1
        /\ Prefix(s, 0)[1] = s[1]
    <3>1. 0 \in Nat
      OBVIOUS
    <3>2. /\ Prefix(s, 0) \in Seq(Descriptors)
          /\ Len(Prefix(s, 0)) = IF 0 + 1 <= Len(s) THEN 0 + 1 ELSE Len(s)
          /\ \A i \in 1 .. Len(Prefix(s, 0)) : Prefix(s, 0)[i] = s[i]
      BY <1>1, <3>1, PrefixFacts, Zenon
    <3> QED
      BY <1>1, <3>2
  <2> QED
    BY <2>1 DEF Lists
<1>3. \A n \in 1 .. m : Prefix(s, n) = Followed(bs, Prefix(s, n - 1))
  BY <1>1, PrefixStep
<1>4. IsWalk(f)
  <2>1. \A n \in 0 .. m : f[n] = IF n = 0 THEN <<POOLSTART>> ELSE Followed(bs, f[n - 1])
    <3> SUFFICES ASSUME NEW n \in 0 .. m
                 PROVE  f[n] = IF n = 0 THEN <<POOLSTART>> ELSE Followed(bs, f[n - 1])
      OBVIOUS
    <3>1. CASE n = 0
      BY <1>2, <3>1
    <3>2. CASE n # 0
      <4>1. n \in 1 .. m /\ n - 1 \in 0 .. m
        BY <1>1, <3>2
      <4>2. f[n] = Prefix(s, n) /\ f[n - 1] = Prefix(s, n - 1)
        BY <4>1, Zenon
      <4> QED
        BY <1>3, <3>2, <4>1, <4>2, Zenon
    <3> QED
      BY <3>1, <3>2
  <2> QED
    BY <2>1, Zenon
<1> DEFINE w == CHOOSE w : IsWalk(w)
<1>5. IsWalk(w)
  BY <1>4, Zenon
<1>6. Chain(bs) = w[m]
  BY Zenon DEF Chain
<1> HIDE DEF w
<1>7. /\ w[0] = <<POOLSTART>>
      /\ \A n \in 1 .. m : w[n] = Followed(bs, w[n - 1])
  <2>1. \A n \in 0 .. m : w[n] = IF n = 0 THEN <<POOLSTART>> ELSE Followed(bs, w[n - 1])
    BY <1>5, Zenon
  <2>2. 0 \in 0 .. m /\ \A n \in 1 .. m : n \in 0 .. m /\ n # 0
    BY <1>1
  <2> QED
    BY <2>1, <2>2, Zenon
<1> HIDE DEF m
<1>8. \A n \in 0 .. m : w[n] = Prefix(s, n)
  <2> DEFINE T == {n \in 0 .. m : w[n] # Prefix(s, n)}
  <2> SUFFICES ASSUME T # {} PROVE FALSE
    OBVIOUS
  <2>1. PICK n \in T : \A k \in T : n =< k
    <3>1. T \subseteq Nat
      BY <1>1
    <3> HIDE DEF T
    <3> QED
      BY <3>1, Least, Zenon
  <2>2. n # 0
    BY <1>2, <1>7
  <2>3. n \in 1 .. m /\ n - 1 \in 0 .. m /\ ~ (n =< n - 1)
    BY <1>1, <2>2
  <2>4. w[n - 1] = Prefix(s, n - 1)
    BY <2>1, <2>3, Zenon
  <2> QED
    BY <1>3, <1>7, <2>3, <2>4, Zenon
<1>9. Len(s) <= m + 1
  BY ListLength, <1>1 DEF Lists, m
<1>10. Prefix(s, m) = s
  <2>1. /\ Prefix(s, m) \in Seq(Descriptors) /\ Len(Prefix(s, m)) = Len(s)
        /\ \A i \in 1 .. Len(s) : Prefix(s, m)[i] = s[i]
    BY <1>1, <1>9, PrefixFacts
  <2> QED
    BY <1>1, <2>1
<1> QED
  BY <1>1, <1>6, <1>8, <1>10

-----------------------------------------------------------------------------
(***************************************************************************)
(* What the pool's operations make of a list in order                      *)
(***************************************************************************)
LEMMA ListFacts ==
    ASSUME NEW bs, NEW s, PoolOK(bs, s), NEW i \in 1 .. Len(s)
    PROVE  /\ Len(s) \in Nat /\ s[i] \in Descriptors
           /\ bs[s[i]].begin \in Nat /\ bs[s[i]].size \in Nat
           /\ bs[s[i]].nextblock \in Descriptors
           /\ End(bs[s[i]]) \in Nat
           /\ MEMPOOL_STARTADDRESS <= bs[s[i]].begin
           /\ i # 1 => s[i] \in Handles /\ bs[s[i]].size > 0
<1>1. s \in Seq(Descriptors) /\ Len(s) \in Nat /\ 1 \in 1 .. Len(s) /\ s[1] = POOLSTART
  BY DEF PoolOK, Lists
<1>2. s[i] \in Descriptors
  BY <1>1
<1>3. bs[s[i]] \in Descriptor
  BY <1>2 DEF PoolOK
<1>4. /\ bs[s[i]].begin \in Nat /\ bs[s[i]].size \in Nat /\ bs[s[i]].nextblock \in Descriptors
      /\ End(bs[s[i]]) \in Nat
  BY <1>3 DEF Descriptor, End
<1>5. bs[POOLSTART].begin = MEMPOOL_STARTADDRESS /\ bs[POOLSTART].size = 0
  BY DEF PoolOK, InOrder
<1>6. MEMPOOL_STARTADDRESS <= bs[s[i]].begin
  <2>1. CASE i = 1
    BY <1>1, <1>5, <2>1, Constants
  <2>2. CASE i # 1
    <3>1. 1 < i
      BY <2>2
    <3>2. End(bs[s[1]]) <= bs[s[i]].begin
      BY <1>1, <3>1 DEF PoolOK, InOrder
    <3> QED
      BY <1>1, <1>5, <3>2, Constants DEF End
  <2> QED
    BY <2>1, <2>2
<1>7. i # 1 => s[i] \in Handles /\ bs[s[i]].size > 0
  <2> SUFFICES ASSUME i # 1 PROVE s[i] \in Handles /\ bs[s[i]].size > 0
    OBVIOUS
  <2>1. s[i] # POOLSTART
    BY <1>1 DEF PoolOK, Lists
  <2>2. s[i] \in Handles
    BY <1>2, <2>1 DEF Descriptors
  <2> QED
    BY <2>2 DEF PoolOK, InOrder
<1> QED
  BY <1>1, <1>2, <1>4, <1>6, <1>7

Inserted(s, k, h) ==
    [i \in 1 .. Len(s) + 1 |-> IF i <= k THEN s[i] ELSE IF i = k + 1 THEN h ELSE s[i - 1]]

\* Where the k-th place of a list is, seen from its i-th.
GapAfter(bs, s, k) == (IF k = Len(s) THEN PoolEnd ELSE bs[s[k + 1]].begin) - End(bs[s[k]])

LEMMA GapIs ==
    ASSUME NEW bs, NEW s, PoolOK(bs, s), NEW k \in 1 .. Len(s)
    PROVE  FreeSize(bs, s[k]) = GapAfter(bs, s, k)
<1>1. bs[s[k]].nextblock = IF k = Len(s) THEN NOBLOCK ELSE s[k + 1]
  BY DEF PoolOK, Lists
<1>2. k # Len(s) => s[k + 1] # NOBLOCK
  <2> SUFFICES ASSUME k # Len(s) PROVE s[k + 1] # NOBLOCK
    OBVIOUS
  <2>1. Len(s) \in Nat
    BY ListFacts
  <2>2. k + 1 \in 1 .. Len(s) /\ k + 1 # 1
    BY <2>1
  <2>3. s[k + 1] \in Handles
    BY <2>2, ListFacts
  <2> QED
    BY <2>3, Constants
<1> QED
  BY <1>1, <1>2 DEF FreeSize, GapAfter

\* n is bs with cur, of this size, behind best.
IsLinked(bs, size, best, cur, n) ==
    /\ n \in [Descriptors -> Descriptor]
    /\ n[cur] = [begin |-> End(bs[best]), size |-> size, nextblock |-> bs[best].nextblock]
    /\ \A h \in Descriptors \ {cur} :
          /\ n[h].begin = bs[h].begin /\ n[h].size = bs[h].size
          /\ n[h].nextblock = IF h = best THEN cur ELSE bs[h].nextblock

LEMMA LinkedBlocks ==
    ASSUME NEW bs \in [Descriptors -> Descriptor], NEW m, NEW size \in Nat \ {0},
           NEW best \in Descriptors, NEW cur \in Handles, cur # best
    PROVE  /\ IsLinked(bs, size, best, cur, Linked(bs, m, size, best, cur).blocks)
           /\ Linked(bs, m, size, best, cur).mem = m
           /\ Linked(bs, m, size, best, cur).handle = cur
<1> DEFINE n == [begin |-> End(bs[best]), size |-> size, nextblock |-> bs[best].nextblock]
           r == Linked(bs, m, size, best, cur)
           b == [bs[best] EXCEPT !.nextblock = cur]
<1>1. cur \in Descriptors
  BY Constants
<1>2. bs[best] \in Descriptor /\ bs[best].nextblock \in Descriptors /\ End(bs[best]) \in Nat
  BY DEF Descriptor, End
<1>3. n \in Descriptor
  BY <1>2 DEF Descriptor
<1>4. b \in Descriptor /\ b.begin = bs[best].begin /\ b.size = bs[best].size /\ b.nextblock = cur
  BY <1>1, <1>2 DEF Descriptor
<1>5. r.blocks = [[bs EXCEPT ![cur] = n] EXCEPT ![best] = b]
  BY DEF Linked
<1>6. r.mem = m /\ r.handle = cur
  BY DEF Linked
<1> HIDE DEF r, n, b
<1>7. /\ r.blocks \in [Descriptors -> Descriptor] /\ r.blocks[cur] = n /\ r.blocks[best] = b
      /\ \A h \in Descriptors \ {cur, best} : r.blocks[h] = bs[h]
  BY <1>1, <1>3, <1>4, <1>5
<1>8. ASSUME NEW h \in Descriptors \ {cur}
      PROVE  /\ r.blocks[h].begin = bs[h].begin /\ r.blocks[h].size = bs[h].size
             /\ r.blocks[h].nextblock = IF h = best THEN cur ELSE bs[h].nextblock
  <2>1. CASE h = best
    BY <1>4, <1>7, <2>1
  <2>2. CASE h # best
    <3>1. r.blocks[h] = bs[h]
      BY <1>7, <2>2
    <3> QED
      BY <2>2, <3>1
  <2> QED
    BY <2>1, <2>2
<1> QED
  BY <1>6, <1>7, <1>8 DEF r, n, IsLinked

IsInserted(s, k, h, t) ==
    /\ t \in Seq(Descriptors) /\ Len(t) = Len(s) + 1
    /\ \A i \in 1 .. k : i \in 1 .. Len(s) /\ t[i] = s[i]
    /\ t[k + 1] = h
    /\ \A i \in k + 2 .. Len(s) + 1 : i - 1 \in 1 .. Len(s) /\ t[i] = s[i - 1]

LEMMA InsertedFacts ==
    ASSUME NEW s \in Seq(Descriptors), NEW k \in 1 .. Len(s), NEW h \in Descriptors
    PROVE  IsInserted(s, k, h, Inserted(s, k, h))
<1> DEFINE t == Inserted(s, k, h)
<1>1. Len(s) \in Nat /\ k \in 1 .. Len(s)
  OBVIOUS
<1>2. \A i \in 1 .. Len(s) : s[i] \in Descriptors
  OBVIOUS
<1>3. t \in [1 .. Len(s) + 1 -> Descriptors]
  BY <1>1, <1>2 DEF Inserted
<1>4. t \in Seq(Descriptors) /\ Len(t) = Len(s) + 1
  BY <1>1, <1>3
<1>5. \A i \in 1 .. Len(s) + 1 : t[i] = IF i <= k THEN s[i] ELSE IF i = k + 1 THEN h ELSE s[i - 1]
  BY Zenon DEF Inserted
<1> HIDE DEF t
<1>6. \A i \in 1 .. k : i \in 1 .. Len(s) /\ t[i] = s[i]
  BY <1>1, <1>5
<1>7. t[k + 1] = h
  BY <1>1, <1>5
<1>8. \A i \in k + 2 .. Len(s) + 1 : i - 1 \in 1 .. Len(s) /\ t[i] = s[i - 1]
  BY <1>1, <1>5
<1> QED
  BY <1>1, <1>4, <1>6, <1>7, <1>8 DEF t, IsInserted

\* A block placed in a gap it fits in leaves a list in order.
LEMMA LinkedOK ==
    ASSUME NEW bs, NEW s, PoolOK(bs, s), NEW k \in 1 .. Len(s), NEW m,
           NEW size \in Nat \ {0}, FreeSize(bs, s[k]) >= size,
           NEW cur \in Handles, bs[cur].size = 0
    PROVE  PoolOK(Linked(bs, m, size, s[k], cur).blocks, Inserted(s, k, cur))
<1> DEFINE n == Linked(bs, m, size, s[k], cur).blocks
           t == Inserted(s, k, cur)
<1>1. bs \in [Descriptors -> Descriptor] /\ s \in Seq(Descriptors) /\ Len(s) \in Nat /\ Len(s) >= 1
  BY DEF PoolOK, Lists
<1>2. cur \in Descriptors /\ cur # POOLSTART
  BY Constants
<1>3. \A i \in 1 .. Len(s) : s[i] # cur
  BY DEF PoolOK, InOrder
<1>4. s[k] \in Descriptors /\ s[k] # cur
  BY <1>1, <1>3
<1>5. /\ n \in [Descriptors -> Descriptor]
      /\ n[cur] = [begin |-> End(bs[s[k]]), size |-> size, nextblock |-> bs[s[k]].nextblock]
      /\ \A h \in Descriptors \ {cur} :
            /\ n[h].begin = bs[h].begin /\ n[h].size = bs[h].size
            /\ n[h].nextblock = IF h = s[k] THEN cur ELSE bs[h].nextblock
  <2>1. IsLinked(bs, size, s[k], cur, n)
    BY <1>1, <1>4, LinkedBlocks, Zenon
  <2> HIDE DEF n
  <2> QED
    BY <2>1 DEF IsLinked
<1>6. /\ t \in Seq(Descriptors) /\ Len(t) = Len(s) + 1
      /\ \A i \in 1 .. k : i \in 1 .. Len(s) /\ t[i] = s[i]
      /\ t[k + 1] = cur
      /\ \A i \in k + 2 .. Len(s) + 1 : i - 1 \in 1 .. Len(s) /\ t[i] = s[i - 1]
  <2>1. IsInserted(s, k, cur, t)
    BY <1>1, <1>2, InsertedFacts, Zenon
  <2> HIDE DEF t
  <2> QED
    BY <2>1 DEF IsInserted
<1> HIDE DEF n, t
<1>7. ASSUME NEW i \in 1 .. Len(s)
      PROVE  /\ n[s[i]].begin = bs[s[i]].begin /\ n[s[i]].size = bs[s[i]].size
             /\ n[s[i]].nextblock = IF i = k THEN cur ELSE bs[s[i]].nextblock
             /\ End(n[s[i]]) = End(bs[s[i]]) /\ End(bs[s[i]]) \in Nat
             /\ bs[s[i]].begin \in Nat /\ End(bs[s[i]]) <= PoolEnd
             /\ bs[s[i]].begin <= End(bs[s[i]])
  <2>1. s[i] \in Descriptors \ {cur}
    BY <1>1, <1>3
  <2>2. s[i] = s[k] <=> i = k
    BY DEF PoolOK, Lists
  <2>3. /\ n[s[i]].begin = bs[s[i]].begin /\ n[s[i]].size = bs[s[i]].size
        /\ n[s[i]].nextblock = IF i = k THEN cur ELSE bs[s[i]].nextblock
    BY <1>5, <2>1, <2>2
  <2>4. bs[s[i]].begin \in Nat /\ bs[s[i]].size \in Nat /\ End(bs[s[i]]) \in Nat
    BY ListFacts
  <2>5. End(n[s[i]]) = End(bs[s[i]]) /\ bs[s[i]].begin <= End(bs[s[i]])
    BY <2>3, <2>4 DEF End
  <2>6. End(bs[s[i]]) <= PoolEnd
    BY DEF PoolOK, InOrder
  <2> QED
    BY <2>3, <2>4, <2>5, <2>6
<1>8. \A i, j \in 1 .. Len(s) : i < j => End(bs[s[i]]) <= bs[s[j]].begin
  BY DEF PoolOK, InOrder
<1>9. /\ n[cur].begin = End(bs[s[k]]) /\ End(n[cur]) = End(bs[s[k]]) + size
      /\ n[cur].nextblock = IF k = Len(s) THEN NOBLOCK ELSE s[k + 1]
      /\ End(n[cur]) \in Nat
  <2>1. End(bs[s[k]]) \in Nat /\ bs[s[k]].nextblock = IF k = Len(s) THEN NOBLOCK ELSE s[k + 1]
    BY <1>7 DEF PoolOK, Lists
  <2> QED
    BY <1>5, <2>1 DEF End
<1>10. /\ End(n[cur]) <= PoolEnd
       /\ \A j \in k + 1 .. Len(s) : End(n[cur]) <= bs[s[j]].begin
  <2>1. GapAfter(bs, s, k) >= size
    BY GapIs
  <2>2. End(bs[s[k]]) \in Nat /\ PoolEnd \in Nat
    BY <1>7, Constants
  <2>3. CASE k = Len(s)
    <3>1. End(n[cur]) <= PoolEnd
      BY <1>9, <2>1, <2>2, <2>3 DEF GapAfter
    <3>2. k + 1 .. Len(s) = {}
      BY <1>1, <2>3
    <3> QED
      BY <3>1, <3>2
  <2>4. CASE k # Len(s)
    <3>1. k + 1 \in 1 .. Len(s)
      BY <1>1, <2>4
    <3>2. bs[s[k + 1]].begin \in Nat /\ bs[s[k + 1]].begin <= PoolEnd
      <4>1. /\ bs[s[k + 1]].begin \in Nat /\ End(bs[s[k + 1]]) \in Nat
            /\ End(bs[s[k + 1]]) <= PoolEnd /\ bs[s[k + 1]].begin <= End(bs[s[k + 1]])
        BY <1>7, <3>1
      <4> QED
        BY <2>2, <4>1
    <3>3. End(n[cur]) <= bs[s[k + 1]].begin
      BY <1>9, <2>1, <2>2, <2>4, <3>2 DEF GapAfter
    <3>4. ASSUME NEW j \in k + 1 .. Len(s)
          PROVE  End(n[cur]) <= bs[s[j]].begin
      <4>1. j \in 1 .. Len(s)
        BY <1>1
      <4>2. CASE j = k + 1
        BY <3>3, <4>2
      <4>3. CASE j # k + 1
        <5>1. k + 1 < j
          BY <4>3
        <5>2. End(bs[s[k + 1]]) <= bs[s[j]].begin
          BY <1>8, <3>1, <4>1, <5>1
        <5>3. /\ End(bs[s[k + 1]]) \in Nat /\ bs[s[j]].begin \in Nat
              /\ bs[s[k + 1]].begin <= End(bs[s[k + 1]])
          BY <1>7, <3>1, <4>1
        <5> QED
          BY <1>9, <3>2, <3>3, <5>2, <5>3
      <4> QED
        BY <4>2, <4>3
    <3>5. End(n[cur]) <= PoolEnd
      BY <1>9, <2>2, <3>2, <3>3
    <3> QED
      BY <3>4, <3>5
  <2> QED
    BY <2>3, <2>4
<1>11. Lists(n, t)
  <2>1. Len(t) >= 1 /\ t[1] = POOLSTART
    <3>1. 1 \in 1 .. k
      OBVIOUS
    <3>2. t[1] = s[1]
      BY <1>6, <3>1
    <3> QED
      BY <1>1, <1>6, <3>2 DEF PoolOK, Lists
  <2>2. ASSUME NEW i \in 1 .. Len(t), NEW j \in 1 .. Len(t), t[i] = t[j], i < j
        PROVE  FALSE
    <3>1. \A a, b \in 1 .. Len(s) : s[a] = s[b] => a = b
      BY DEF PoolOK, Lists
    <3>2. CASE j <= k
      <4>1. i \in 1 .. k /\ j \in 1 .. k
        BY <2>2, <3>2
      <4> QED
        BY <1>6, <2>2, <3>1, <4>1
    <3>3. CASE j = k + 1
      <4>1. i \in 1 .. k
        BY <2>2, <3>3
      <4> QED
        BY <1>3, <1>6, <2>2, <3>3, <4>1
    <3>4. CASE j > k + 1
      <4>1. j \in k + 2 .. Len(s) + 1
        BY <1>1, <1>6, <3>4
      <4>2. t[j] = s[j - 1] /\ j - 1 \in 1 .. Len(s)
        BY <1>6, <4>1
      <4>3. CASE i <= k
        <5>1. i \in 1 .. k /\ i # j - 1
          BY <3>4, <4>3
        <5> QED
          BY <1>6, <2>2, <3>1, <4>2, <5>1
      <4>4. CASE i = k + 1
        BY <1>3, <1>6, <2>2, <4>2, <4>4
      <4>5. CASE i > k + 1
        <5>1. i \in k + 2 .. Len(s) + 1 /\ i - 1 # j - 1
          BY <1>1, <1>6, <2>2, <4>5
        <5> QED
          BY <1>6, <2>2, <3>1, <4>2, <5>1
      <4> QED
        BY <4>3, <4>4, <4>5
    <3> QED
      BY <3>2, <3>3, <3>4
  <2>3. \A i, j \in 1 .. Len(t) : t[i] = t[j] => i = j
    <3> SUFFICES ASSUME NEW i \in 1 .. Len(t), NEW j \in 1 .. Len(t), t[i] = t[j], i # j
                 PROVE  FALSE
      OBVIOUS
    <3>1. i < j \/ j < i
      OBVIOUS
    <3> QED
      BY <2>2, <3>1
  <2>4. ASSUME NEW i \in 1 .. Len(t)
        PROVE  n[t[i]].nextblock = IF i = Len(t) THEN NOBLOCK ELSE t[i + 1]
    <3>1. \A a \in 1 .. Len(s) : bs[s[a]].nextblock = IF a = Len(s) THEN NOBLOCK ELSE s[a + 1]
      BY DEF PoolOK, Lists
    <3>2. CASE i < k
      <4>1. i \in 1 .. k /\ i + 1 \in 1 .. k /\ i # k /\ i # Len(t) /\ i # Len(s)
        BY <1>1, <1>6, <3>2
      <4>2. t[i] = s[i] /\ t[i + 1] = s[i + 1] /\ i \in 1 .. Len(s)
        BY <1>6, <4>1
      <4> QED
        BY <1>7, <3>1, <4>1, <4>2
    <3>3. CASE i = k
      <4>1. t[i] = s[k] /\ t[i + 1] = cur /\ i # Len(t)
        BY <1>1, <1>6, <3>3
      <4> QED
        BY <1>7, <4>1
    <3>4. CASE i = k + 1
      <4>1. CASE k = Len(s)
        BY <1>6, <1>9, <3>4, <4>1
      <4>2. CASE k # Len(s)
        <5>1. i + 1 \in k + 2 .. Len(s) + 1 /\ (i + 1) - 1 = k + 1 /\ i # Len(t)
          BY <1>1, <1>6, <3>4, <4>2
        <5>2. t[i + 1] = s[k + 1]
          BY <1>6, <5>1
        <5> QED
          BY <1>6, <1>9, <3>4, <4>2, <5>1, <5>2
      <4> QED
        BY <4>1, <4>2
    <3>5. CASE i > k + 1
      <4>1. i \in k + 2 .. Len(s) + 1 /\ i - 1 # k /\ (i = Len(t) <=> i - 1 = Len(s))
        BY <1>1, <1>6, <3>5
      <4>2. t[i] = s[i - 1] /\ i - 1 \in 1 .. Len(s)
        BY <1>6, <4>1
      <4>3. n[t[i]].nextblock = IF i - 1 = Len(s) THEN NOBLOCK ELSE s[(i - 1) + 1]
        BY <1>7, <3>1, <4>1, <4>2
      <4>4. i # Len(t) => t[i + 1] = s[(i - 1) + 1]
        <5> SUFFICES ASSUME i # Len(t) PROVE t[i + 1] = s[(i - 1) + 1]
          OBVIOUS
        <5>1. i + 1 \in k + 2 .. Len(s) + 1 /\ (i + 1) - 1 = (i - 1) + 1
          BY <1>1, <1>6, <3>5
        <5> QED
          BY <1>6, <5>1
      <4> QED
        BY <4>1, <4>3, <4>4
    <3> QED
      BY <3>2, <3>3, <3>4, <3>5
  <2> QED
    BY <1>6, <2>1, <2>3, <2>4 DEF Lists
<1>12. InOrder(n, t)
  <2>1. n[POOLSTART].begin = MEMPOOL_STARTADDRESS /\ n[POOLSTART].size = 0
    <3>1. 1 \in 1 .. Len(s) /\ s[1] = POOLSTART
      BY <1>1 DEF PoolOK, Lists
    <3> QED
      BY <1>7, <3>1 DEF PoolOK, InOrder
  <2>2. ASSUME NEW i \in 1 .. Len(t), NEW j \in 1 .. Len(t), i < j
        PROVE  End(n[t[i]]) <= n[t[j]].begin
    <3>1. CASE j <= k
      <4>1. i \in 1 .. k /\ j \in 1 .. k
        BY <2>2, <3>1
      <4>2. t[i] = s[i] /\ t[j] = s[j] /\ i \in 1 .. Len(s) /\ j \in 1 .. Len(s)
        BY <1>6, <4>1
      <4> QED
        BY <1>7, <1>8, <2>2, <4>2
    <3>2. CASE j = k + 1
      <4>1. i \in 1 .. k
        BY <2>2, <3>2
      <4>2. t[i] = s[i] /\ i \in 1 .. Len(s) /\ t[j] = cur
        BY <1>6, <3>2, <4>1
      <4>3. End(bs[s[i]]) <= End(bs[s[k]])
        <5>1. CASE i = k
          BY <1>7, <5>1
        <5>2. CASE i # k
          <6>1. i < k
            BY <4>1, <5>2
          <6>2. End(bs[s[i]]) <= bs[s[k]].begin
            BY <1>8, <4>2, <6>1
          <6>3. /\ End(bs[s[i]]) \in Nat /\ End(bs[s[k]]) \in Nat /\ bs[s[k]].begin \in Nat
                /\ bs[s[k]].begin <= End(bs[s[k]])
            BY <1>7, <4>2
          <6> QED
            BY <6>2, <6>3
        <5> QED
          BY <5>1, <5>2
      <4> QED
        BY <1>7, <1>9, <4>2, <4>3
    <3>3. CASE j > k + 1
      <4>1. j \in k + 2 .. Len(s) + 1 /\ j - 1 \in k + 1 .. Len(s)
        BY <1>1, <1>6, <3>3
      <4>2. t[j] = s[j - 1] /\ j - 1 \in 1 .. Len(s) /\ n[t[j]].begin = bs[s[j - 1]].begin
        BY <1>6, <1>7, <4>1
      <4>3. CASE i <= k
        <5>1. i \in 1 .. k /\ i < j - 1
          BY <3>3, <4>3
        <5>2. t[i] = s[i] /\ i \in 1 .. Len(s)
          BY <1>6, <5>1
        <5> QED
          BY <1>7, <1>8, <4>2, <5>1, <5>2
      <4>4. CASE i = k + 1
        BY <1>6, <1>10, <4>1, <4>2, <4>4
      <4>5. CASE i > k + 1
        <5>1. i \in k + 2 .. Len(s) + 1 /\ i - 1 < j - 1
          BY <1>1, <1>6, <2>2, <4>5
        <5>2. t[i] = s[i - 1] /\ i - 1 \in 1 .. Len(s)
          BY <1>6, <5>1
        <5> QED
          BY <1>7, <1>8, <4>2, <5>1, <5>2
      <4> QED
        BY <4>3, <4>4, <4>5
    <3> QED
      BY <3>1, <3>2, <3>3
  <2>3. ASSUME NEW i \in 1 .. Len(t)
        PROVE  End(n[t[i]]) <= PoolEnd
    <3>1. i \in 1 .. k \/ i = k + 1 \/ i \in k + 2 .. Len(s) + 1
      BY <1>1, <1>6
    <3>2. CASE i = k + 1
      BY <1>6, <1>10, <3>2
    <3>3. CASE i \in 1 .. k
      <4>1. t[i] = s[i] /\ i \in 1 .. Len(s)
        BY <1>6, <3>3
      <4> QED
        BY <1>7, <4>1
    <3>4. CASE i \in k + 2 .. Len(s) + 1
      <4>1. t[i] = s[i - 1] /\ i - 1 \in 1 .. Len(s)
        BY <1>6, <3>4
      <4> QED
        BY <1>7, <4>1
    <3> QED
      BY <3>1, <3>2, <3>3, <3>4
  <2>4. ASSUME NEW h \in Handles
        PROVE  n[h].size > 0 <=> \E i \in 1 .. Len(t) : t[i] = h
    <3>1. CASE h = cur
      <4>1. k + 1 \in 1 .. Len(t)
        BY <1>1, <1>6
      <4>2. n[h].size > 0
        BY <1>5, <3>1
      <4> QED
        BY <1>6, <3>1, <4>1, <4>2
    <3>2. CASE h # cur
      <4>1. n[h].size = bs[h].size
        BY <1>5, <3>2, Constants
      <4>2. bs[h].size > 0 <=> \E i \in 1 .. Len(s) : s[i] = h
        BY DEF PoolOK, InOrder
      <4>3. (\E i \in 1 .. Len(s) : s[i] = h) => \E i \in 1 .. Len(t) : t[i] = h
        <5> SUFFICES ASSUME NEW i \in 1 .. Len(s), s[i] = h
                     PROVE  \E j \in 1 .. Len(t) : t[j] = h
          OBVIOUS
        <5>1. CASE i <= k
          <6>1. i \in 1 .. k /\ i \in 1 .. Len(t)
            BY <1>1, <1>6, <5>1
          <6> QED
            BY <1>6, <6>1
        <5>2. CASE i > k
          <6>1. i + 1 \in k + 2 .. Len(s) + 1 /\ i + 1 \in 1 .. Len(t) /\ (i + 1) - 1 = i
            BY <1>1, <1>6, <5>2
          <6>2. t[i + 1] = h
            BY <1>6, <6>1
          <6> QED
            BY <6>1, <6>2
        <5> QED
          BY <5>1, <5>2
      <4>4. (\E i \in 1 .. Len(t) : t[i] = h) => \E i \in 1 .. Len(s) : s[i] = h
        <5> SUFFICES ASSUME NEW i \in 1 .. Len(t), t[i] = h
                     PROVE  \E j \in 1 .. Len(s) : s[j] = h
          OBVIOUS
        <5>1. i \in 1 .. k \/ i = k + 1 \/ i \in k + 2 .. Len(s) + 1
          BY <1>1, <1>6
        <5> QED
          BY <1>6, <3>2, <5>1
      <4> QED
        BY <4>1, <4>2, <4>3, <4>4
    <3> QED
      BY <3>1, <3>2
  <2> QED
    BY <2>1, <2>2, <2>3, <2>4 DEF InOrder
<1> QED
  BY <1>5, <1>11, <1>12 DEF PoolOK, n, t

Removed(s, k) == [i \in 1 .. Len(s) - 1 |-> IF i < k THEN s[i] ELSE s[i + 1]]

IsRemoved(s, k, t) ==
    /\ t \in Seq(Descriptors) /\ Len(t) = Len(s) - 1
    /\ \A i \in 1 .. k - 1 : i \in 1 .. Len(s) /\ t[i] = s[i]
    /\ \A i \in k .. Len(s) - 1 : i + 1 \in 1 .. Len(s) /\ t[i] = s[i + 1]

LEMMA RemovedFacts ==
    ASSUME NEW s \in Seq(Descriptors), NEW k \in 2 .. Len(s)
    PROVE  IsRemoved(s, k, Removed(s, k))
<1> DEFINE t == Removed(s, k)
<1>1. Len(s) \in Nat /\ Len(s) - 1 \in Nat /\ k \in 2 .. Len(s)
  OBVIOUS
<1>2. \A i \in 1 .. Len(s) : s[i] \in Descriptors
  OBVIOUS
<1>3. t \in [1 .. Len(s) - 1 -> Descriptors]
  BY <1>1, <1>2 DEF Removed
<1>4. t \in Seq(Descriptors) /\ Len(t) = Len(s) - 1
  BY <1>1, <1>3
<1>5. \A i \in 1 .. Len(s) - 1 : t[i] = IF i < k THEN s[i] ELSE s[i + 1]
  BY Zenon DEF Removed
<1> HIDE DEF t
<1>6. \A i \in 1 .. k - 1 : i \in 1 .. Len(s) /\ t[i] = s[i]
  BY <1>1, <1>5
<1>7. \A i \in k .. Len(s) - 1 : i + 1 \in 1 .. Len(s) /\ t[i] = s[i + 1]
  BY <1>1, <1>5
<1> QED
  BY <1>4, <1>6, <1>7 DEF t, IsRemoved

\* n is bs without h, whose place in the list was behind b.
IsUnlinked(bs, b, h, n) ==
    /\ n \in [Descriptors -> Descriptor]
    /\ n[h].size = 0
    /\ \A g \in Descriptors \ {h} :
          /\ n[g].begin = bs[g].begin /\ n[g].size = bs[g].size
          /\ n[g].nextblock = IF g = b THEN bs[h].nextblock ELSE bs[g].nextblock

LEMMA UnlinkedBlocks ==
    ASSUME NEW bs \in [Descriptors -> Descriptor], NEW h \in Handles,
           NEW b \in Descriptors, b # h
    PROVE  IsUnlinked(bs, b, h, Unlinked(bs, h, {b}))
<1> DEFINE n == Unlinked(bs, h, {b})
           d == [bs[b] EXCEPT !.nextblock = bs[h].nextblock]
<1>1. h \in Descriptors /\ h # NOBLOCK /\ NOBLOCK \in Descriptors
  BY Constants DEF NOBLOCK, POOLSTART
<1>2. bs[b] \in Descriptor /\ bs[h] \in Descriptor /\ bs[h].nextblock \in Descriptors
  BY <1>1 DEF Descriptor
<1>3. Free \in Descriptor /\ Free.size = 0
  BY <1>1 DEF Free, Descriptor
<1>4. d \in Descriptor /\ d.begin = bs[b].begin /\ d.size = bs[b].size
      /\ d.nextblock = bs[h].nextblock
  BY <1>2 DEF Descriptor
<1>5. (CHOOSE x \in {b} : TRUE) = b
  OBVIOUS
<1>6. n = [[bs EXCEPT ![b] = d] EXCEPT ![h] = Free]
  BY <1>1, <1>5 DEF Unlinked
<1> HIDE DEF n, d
<1>7. /\ n \in [Descriptors -> Descriptor] /\ n[h] = Free /\ n[b] = d
      /\ \A g \in Descriptors \ {h, b} : n[g] = bs[g]
  BY <1>1, <1>3, <1>4, <1>6
<1>8. ASSUME NEW g \in Descriptors \ {h}
      PROVE  /\ n[g].begin = bs[g].begin /\ n[g].size = bs[g].size
             /\ n[g].nextblock = IF g = b THEN bs[h].nextblock ELSE bs[g].nextblock
  <2>1. CASE g = b
    BY <1>4, <1>7, <2>1
  <2>2. CASE g # b
    <3>1. n[g] = bs[g]
      BY <1>7, <2>2
    <3> QED
      BY <2>2, <3>1
  <2> QED
    BY <2>1, <2>2
<1> QED
  BY <1>3, <1>7, <1>8 DEF n, IsUnlinked

LEMMA BeforeIs ==
    ASSUME NEW bs, NEW s, PoolOK(bs, s), NEW k \in 2 .. Len(s)
    PROVE  Before(bs, s[k]) = {s[k - 1]}
<1>1. Chain(bs) = s
  BY ChainIs DEF PoolOK
<1>2. s \in Seq(Descriptors) /\ Len(s) \in Nat
  BY DEF PoolOK, Lists
<1>3. k - 1 \in 1 .. Len(s) /\ k \in 1 .. Len(s) /\ (k - 1) + 1 = k /\ k - 1 # Len(s)
  BY <1>2
<1>4. DOMAIN s = 1 .. Len(s)
  BY <1>2
<1>5. \A i \in 1 .. Len(s) : bs[s[i]].nextblock = IF i = Len(s) THEN NOBLOCK ELSE s[i + 1]
  BY DEF PoolOK, Lists
<1>6. s[k] # NOBLOCK
  <2>1. s[k] \in Handles
    BY <1>3, ListFacts
  <2> QED
    BY <2>1, Constants
<1>7. ASSUME NEW i \in 1 .. Len(s), bs[s[i]].nextblock = s[k]
      PROVE  s[i] = s[k - 1]
  <2>1. i # Len(s)
    BY <1>5, <1>6, <1>7
  <2>2. i + 1 \in 1 .. Len(s)
    BY <1>2, <2>1
  <2>3. s[i + 1] = s[k]
    BY <1>5, <1>7, <2>1
  <2>4. i + 1 = k
    BY <1>3, <2>2, <2>3 DEF PoolOK, Lists
  <2>5. i = k - 1
    BY <2>4
  <2> QED
    BY <2>5
<1>8. bs[s[k - 1]].nextblock = s[k]
  BY <1>3, <1>5
<1>9. Range(s) = {s[i] : i \in 1 .. Len(s)}
  BY <1>4, Zenon DEF Range
<1> QED
  BY <1>1, <1>3, <1>7, <1>8, <1>9 DEF Before

\* A block taken out of the list leaves a list in order.
LEMMA FreedOK ==
    ASSUME NEW bs, NEW s, PoolOK(bs, s), NEW k \in 2 .. Len(s)
    PROVE  /\ IsUnlinked(bs, s[k - 1], s[k], freeBlock(bs, s[k]))
           /\ PoolOK(freeBlock(bs, s[k]), Removed(s, k))
<1> DEFINE n == freeBlock(bs, s[k])
           t == Removed(s, k)
           b == s[k - 1]
           h == s[k]
<1>1. bs \in [Descriptors -> Descriptor] /\ s \in Seq(Descriptors) /\ Len(s) \in Nat /\ Len(s) >= 1
  BY DEF PoolOK, Lists
<1>2. k - 1 \in 1 .. Len(s) /\ k \in 1 .. Len(s) /\ k # 1
  BY <1>1
<1>3. h \in Handles /\ b \in Descriptors /\ b # h
  <2>1. h \in Handles
    BY <1>2, ListFacts
  <2>2. b \in Descriptors
    BY <1>2, ListFacts
  <2>3. k - 1 # k
    OBVIOUS
  <2>4. b # h
    BY <1>2, <2>3 DEF PoolOK, Lists
  <2> QED
    BY <2>1, <2>2, <2>4
<1>4. IsUnlinked(bs, b, h, n)
  <2>1. n = Unlinked(bs, h, {b})
    BY BeforeIs DEF freeBlock
  <2> HIDE DEF n, b, h
  <2> QED
    BY <1>1, <1>3, <2>1, UnlinkedBlocks
<1>5. IsRemoved(s, k, t)
  BY <1>1, RemovedFacts
<1> HIDE DEF n, t
<1>6. /\ n \in [Descriptors -> Descriptor] /\ n[h].size = 0
      /\ \A g \in Descriptors \ {h} :
          /\ n[g].begin = bs[g].begin /\ n[g].size = bs[g].size
          /\ n[g].nextblock = IF g = b THEN bs[h].nextblock ELSE bs[g].nextblock
  BY <1>4 DEF IsUnlinked
<1>7. /\ t \in Seq(Descriptors) /\ Len(t) = Len(s) - 1
      /\ \A i \in 1 .. k - 1 : i \in 1 .. Len(s) /\ t[i] = s[i]
      /\ \A i \in k .. Len(s) - 1 : i + 1 \in 1 .. Len(s) /\ t[i] = s[i + 1]
  BY <1>5 DEF IsRemoved
<1> DEFINE at(i) == IF i < k THEN i ELSE i + 1
<1>8. ASSUME NEW i \in 1 .. Len(t)
      PROVE  /\ at(i) \in 1 .. Len(s) /\ at(i) # k /\ t[i] = s[at(i)]
             /\ i < k <=> at(i) < k
  <2>1. i \in 1 .. k - 1 \/ i \in k .. Len(s) - 1
    BY <1>1, <1>7
  <2>2. CASE i \in 1 .. k - 1
    BY <1>7, <2>2
  <2>3. CASE i \in k .. Len(s) - 1
    BY <1>7, <2>3
  <2> QED
    BY <2>1, <2>2, <2>3
<1>9. ASSUME NEW i \in 1 .. Len(s), i # k
      PROVE  /\ n[s[i]].begin = bs[s[i]].begin /\ n[s[i]].size = bs[s[i]].size
             /\ n[s[i]].nextblock = IF i = k - 1 THEN bs[h].nextblock ELSE bs[s[i]].nextblock
             /\ End(n[s[i]]) = End(bs[s[i]])
             /\ s[i] # h
  <2>1. s[i] \in Descriptors \ {h}
    BY <1>1, <1>2, <1>9 DEF PoolOK, Lists
  <2>2. s[i] = b <=> i = k - 1
    BY <1>2 DEF PoolOK, Lists
  <2> HIDE DEF b, h
  <2> QED
    BY <1>6, <2>1, <2>2 DEF End
<1> HIDE DEF b
<1>10. Lists(n, t)
  <2>1. Len(t) >= 1 /\ t[1] = POOLSTART
    <3>1. 1 \in 1 .. k - 1 /\ Len(t) >= 1
      BY <1>1, <1>7
    <3>2. t[1] = s[1]
      BY <1>7, <3>1
    <3> QED
      BY <3>1, <3>2 DEF PoolOK, Lists
  <2>2. \A i, j \in 1 .. Len(t) : t[i] = t[j] => i = j
    <3> SUFFICES ASSUME NEW i \in 1 .. Len(t), NEW j \in 1 .. Len(t), t[i] = t[j]
                 PROVE  i = j
      OBVIOUS
    <3>1. at(i) = at(j)
      <4>1. at(i) \in 1 .. Len(s) /\ at(j) \in 1 .. Len(s) /\ s[at(i)] = s[at(j)]
        BY <1>8
      <4> HIDE DEF at
      <4> QED
        BY <4>1 DEF PoolOK, Lists
    <3> QED
      BY <3>1
  <2>3. ASSUME NEW i \in 1 .. Len(t)
        PROVE  n[t[i]].nextblock = IF i = Len(t) THEN NOBLOCK ELSE t[i + 1]
    <3>1. \A a \in 1 .. Len(s) : bs[s[a]].nextblock = IF a = Len(s) THEN NOBLOCK ELSE s[a + 1]
      BY DEF PoolOK, Lists
    <3>2. CASE i = k - 1
      <4>1. t[i] = s[k - 1] /\ n[t[i]].nextblock = bs[h].nextblock
        <5>1. at(i) = k - 1
          BY <3>2
        <5>2. t[i] = s[k - 1] /\ k - 1 # k
          BY <1>8, <5>1
        <5> QED
          BY <1>2, <1>9, <5>2
      <4>2. n[t[i]].nextblock = IF k = Len(s) THEN NOBLOCK ELSE s[k + 1]
        BY <1>2, <3>1, <4>1
      <4>3. k = Len(s) <=> i = Len(t)
        BY <1>1, <1>7, <3>2
      <4>4. i # Len(t) => t[i + 1] = s[k + 1]
        <5> SUFFICES ASSUME i # Len(t) PROVE t[i + 1] = s[k + 1]
          OBVIOUS
        <5>1. i + 1 = k /\ k \in k .. Len(s) - 1
          BY <1>1, <1>7, <3>2
        <5> QED
          BY <1>7, <5>1
      <4> QED
        BY <4>2, <4>3, <4>4
    <3>3. CASE i # k - 1
      <4> DEFINE a == at(i)
      <4>1. a \in 1 .. Len(s) /\ a # k /\ a # k - 1 /\ t[i] = s[a]
        BY <1>8, <3>3
      <4>2. n[t[i]].nextblock = IF a = Len(s) THEN NOBLOCK ELSE s[a + 1]
        <5> HIDE DEF a
        <5> QED
          BY <1>9, <3>1, <4>1
      <4>3. a = Len(s) <=> i = Len(t)
        BY <1>1, <1>7, <3>3
      <4>4. i # Len(t) => t[i + 1] = s[a + 1]
        <5> SUFFICES ASSUME i # Len(t) PROVE t[i + 1] = s[a + 1]
          OBVIOUS
        <5>1. i + 1 \in 1 .. Len(t) /\ at(i + 1) = a + 1
          BY <1>1, <1>7, <3>3
        <5> HIDE DEF a, at
        <5> QED
          BY <1>8, <5>1
      <4> HIDE DEF a, at
      <4> QED
        BY <4>2, <4>3, <4>4
    <3> QED
      BY <3>2, <3>3
  <2> QED
    BY <1>7, <2>1, <2>2, <2>3 DEF Lists
<1>11. InOrder(n, t)
  <2>1. n[POOLSTART].begin = MEMPOOL_STARTADDRESS /\ n[POOLSTART].size = 0
    <3>1. 1 \in 1 .. Len(s) /\ s[1] = POOLSTART /\ 1 # k
      BY <1>1, <1>2 DEF PoolOK, Lists
    <3> QED
      BY <1>9, <3>1 DEF PoolOK, InOrder
  <2>2. ASSUME NEW i \in 1 .. Len(t), NEW j \in 1 .. Len(t), i < j
        PROVE  End(n[t[i]]) <= n[t[j]].begin
    <3>1. at(i) < at(j)
      BY <1>7, <2>2
    <3>2. /\ at(i) \in 1 .. Len(s) /\ at(i) # k /\ t[i] = s[at(i)]
          /\ at(j) \in 1 .. Len(s) /\ at(j) # k /\ t[j] = s[at(j)]
      BY <1>8
    <3> HIDE DEF at
    <3>3. End(bs[s[at(i)]]) <= bs[s[at(j)]].begin
      BY <3>1, <3>2 DEF PoolOK, InOrder
    <3> QED
      BY <1>9, <3>2, <3>3
  <2>3. ASSUME NEW i \in 1 .. Len(t)
        PROVE  End(n[t[i]]) <= PoolEnd
    <3>1. at(i) \in 1 .. Len(s) /\ at(i) # k /\ t[i] = s[at(i)]
      BY <1>8
    <3> HIDE DEF at
    <3>2. End(bs[s[at(i)]]) <= PoolEnd
      BY <3>1 DEF PoolOK, InOrder
    <3> QED
      BY <1>9, <3>1, <3>2
  <2>4. ASSUME NEW g \in Handles
        PROVE  n[g].size > 0 <=> \E i \in 1 .. Len(t) : t[i] = g
    <3>1. CASE g = h
      <4>1. ~ (n[g].size > 0)
        BY <1>6, <3>1
      <4>2. \A i \in 1 .. Len(t) : t[i] # g
        <5> TAKE i \in 1 .. Len(t)
        <5>1. at(i) \in 1 .. Len(s) /\ at(i) # k /\ t[i] = s[at(i)]
          BY <1>8
        <5> HIDE DEF at
        <5> QED
          BY <1>9, <3>1, <5>1
      <4> QED
        BY <4>1, <4>2
    <3>2. CASE g # h
      <4>1. n[g].size = bs[g].size
        <5>1. g \in Descriptors \ {h}
          BY <3>2, Constants
        <5> HIDE DEF h
        <5> QED
          BY <1>6, <5>1
      <4>2. bs[g].size > 0 <=> \E i \in 1 .. Len(s) : s[i] = g
        BY DEF PoolOK, InOrder
      <4>3. (\E i \in 1 .. Len(s) : s[i] = g) => \E i \in 1 .. Len(t) : t[i] = g
        <5> SUFFICES ASSUME NEW i \in 1 .. Len(s), s[i] = g
                     PROVE  \E j \in 1 .. Len(t) : t[j] = g
          OBVIOUS
        <5>1. i # k
          BY <3>2
        <5>2. CASE i < k
          <6>1. i \in 1 .. k - 1 /\ i \in 1 .. Len(t)
            BY <1>1, <1>7, <5>2
          <6> QED
            BY <1>7, <6>1
        <5>3. CASE i > k
          <6>1. i - 1 \in k .. Len(s) - 1 /\ i - 1 \in 1 .. Len(t) /\ (i - 1) + 1 = i
            BY <1>1, <1>7, <5>3
          <6>2. t[i - 1] = g
            BY <1>7, <6>1
          <6> QED
            BY <6>1, <6>2
        <5> QED
          BY <5>1, <5>2, <5>3
      <4>4. (\E i \in 1 .. Len(t) : t[i] = g) => \E i \in 1 .. Len(s) : s[i] = g
        BY <1>8
      <4> QED
        BY <4>1, <4>2, <4>3, <4>4
    <3> QED
      BY <3>1, <3>2
  <2> QED
    BY <2>1, <2>2, <2>3, <2>4 DEF InOrder
<1> QED
  BY <1>4, <1>6, <1>10, <1>11 DEF PoolOK, n, t, b, h

-----------------------------------------------------------------------------
(***************************************************************************)
(* The collection                                                          *)
(***************************************************************************)
\* f[i] is the length of the blocks before the i-th, up to n.
SumsTo(bs, s, n, f) ==
    /\ f \in [1 .. Len(s) + 1 -> Nat] /\ f[1] = 0
    /\ \A i \in 2 .. n : f[i] = f[i - 1] + bs[s[i - 1]].size

LEMMA SumsExist ==
    ASSUME NEW s, Len(s) \in Nat, NEW bs, \A i \in 1 .. Len(s) : bs[s[i]].size \in Nat
    PROVE  \A n \in 1 .. Len(s) + 1 : \E f : SumsTo(bs, s, n, f)
<1> DEFINE T == {n \in 1 .. Len(s) + 1 : ~ \E f : SumsTo(bs, s, n, f)}
<1> SUFFICES ASSUME T # {} PROVE FALSE
  OBVIOUS
<1>1. T \subseteq Nat
  OBVIOUS
<1>2. PICK n \in T : \A k \in T : n =< k
  <2> HIDE DEF T
  <2> QED
    BY <1>1, Least, Zenon
<1>3. n # 1
  <2>1. SumsTo(bs, s, 1, [i \in 1 .. Len(s) + 1 |-> 0])
    BY DEF SumsTo
  <2> QED
    BY <2>1
<1>4. n - 1 \in 1 .. Len(s) + 1 /\ ~ (n =< n - 1)
  BY <1>3
<1>5. PICK f : SumsTo(bs, s, n - 1, f)
  BY <1>2, <1>4
<1> DEFINE g == [f EXCEPT ![n] = f[n - 1] + bs[s[n - 1]].size]
<1>6. f \in [1 .. Len(s) + 1 -> Nat] /\ bs[s[n - 1]].size \in Nat /\ f[n - 1] \in Nat
  <2>1. n - 1 \in 1 .. Len(s)
    BY <1>3
  <2> QED
    BY <1>4, <1>5, <2>1 DEF SumsTo
<1> DEFINE v == f[n - 1] + bs[s[n - 1]].size
           I == 1 .. Len(s) + 1
<1>0. v \in Nat
  <2> DEFINE x == f[n - 1]
             y == bs[s[n - 1]].size
  <2>1. x \in Nat /\ y \in Nat
    BY <1>6
  <2> HIDE DEF x, y
  <2>2. x + y \in Nat
    BY <2>1
  <2> QED
    BY <2>2, Zenon DEF x, y
<1>7. g \in [1 .. Len(s) + 1 -> Nat] /\ \A i \in 1 .. Len(s) + 1 : i # n => g[i] = f[i]
  <2>1. f \in [I -> Nat] /\ g = [f EXCEPT ![n] = v]
    BY <1>6, Zenon
  <2> HIDE DEF v, I, g
  <2>2. g \in [I -> Nat]
    BY <1>0, <2>1, Zenon
  <2>3. \A i \in I : i # n => g[i] = f[i]
    BY <2>1, Zenon
  <2> QED
    BY <2>2, <2>3, Zenon DEF I
<1>8. g[n] = f[n - 1] + bs[s[n - 1]].size
  <2>1. f \in [I -> Nat] /\ g = [f EXCEPT ![n] = v] /\ n \in I
    BY <1>6, Zenon
  <2> HIDE DEF v, I, g
  <2>2. g[n] = v
    BY <2>1, Zenon
  <2> QED
    BY <2>2, Zenon DEF v
<1> HIDE DEF g, v, I
<1>9. SumsTo(bs, s, n, g)
  <2>1. g[1] = 0
    BY <1>3, <1>5, <1>7 DEF SumsTo
  <2>2. ASSUME NEW i \in 2 .. n
        PROVE  g[i] = g[i - 1] + bs[s[i - 1]].size
    <3>1. i - 1 \in 1 .. Len(s) + 1 /\ i - 1 # n /\ i \in 1 .. Len(s) + 1
      OBVIOUS
    <3>2. g[i - 1] = f[i - 1]
      BY <1>7, <3>1
    <3>3. CASE i = n
      BY <1>8, <3>2, <3>3
    <3>4. CASE i # n
      <4>1. i \in 2 .. n - 1
        BY <3>4
      <4>2. f[i] = f[i - 1] + bs[s[i - 1]].size
        BY <1>5, <4>1 DEF SumsTo
      <4> QED
        BY <1>7, <3>1, <3>2, <3>4, <4>2
    <3> QED
      BY <3>3, <3>4
  <2> QED
    BY <1>7, <2>1, <2>2 DEF SumsTo
<1> QED
  BY <1>9

LEMMA LengthsAre ==
    ASSUME NEW s, Len(s) \in Nat, NEW bs, \A i \in 1 .. Len(s) : bs[s[i]].size \in Nat
    PROVE  SumsTo(bs, s, Len(s) + 1, Lengths(bs, s))
<1> DEFINE D == 1 .. Len(s) + 1
           IsSum(f) == f = [i \in D |-> IF i = 1 THEN 0 ELSE f[i - 1] + bs[s[i - 1]].size]
           g == CHOOSE f : IsSum(f)
<1>1. PICK f : SumsTo(bs, s, Len(s) + 1, f)
  <2>1. Len(s) + 1 \in 1 .. Len(s) + 1
    OBVIOUS
  <2> QED
    BY <2>1, SumsExist
<1>2. IsSum(f)
  <2>1. \A i \in D : f[i] = IF i = 1 THEN 0 ELSE f[i - 1] + bs[s[i - 1]].size
    BY <1>1 DEF SumsTo
  <2>2. f = [i \in D |-> f[i]]
    BY <1>1, Zenon DEF SumsTo
  <2> QED
    BY <2>1, <2>2, Zenon
<1>3. IsSum(g)
  BY <1>2, Zenon
<1>4. Lengths(bs, s) = g
  BY Zenon DEF Lengths
<1> HIDE DEF g
<1>5. DOMAIN g = D /\ \A i \in D : g[i] = IF i = 1 THEN 0 ELSE g[i - 1] + bs[s[i - 1]].size
  BY <1>3, Zenon
<1>6. g = [i \in D |-> g[i]]
  BY <1>3, Zenon
<1>7. g[1] = 0 /\ \A i \in 2 .. Len(s) + 1 : g[i] = g[i - 1] + bs[s[i - 1]].size
  BY <1>5
<1>8. \A i \in D : g[i] \in Nat
  <2> DEFINE T == {i \in D : g[i] \notin Nat}
  <2> SUFFICES ASSUME T # {} PROVE FALSE
    OBVIOUS
  <2>1. T \subseteq Nat
    OBVIOUS
  <2>2. PICK i \in T : \A k \in T : i =< k
    <3> HIDE DEF T
    <3> QED
      BY <2>1, Least, Zenon
  <2>3. i # 1
    BY <1>7
  <2>4. i \in 2 .. Len(s) + 1 /\ i - 1 \in D /\ i - 1 \in 1 .. Len(s) /\ ~ (i =< i - 1)
    BY <2>3
  <2>5. g[i - 1] \in Nat
    BY <2>2, <2>4
  <2> QED
    BY <1>7, <2>4, <2>5
<1>9. g \in [D -> Nat]
  BY <1>6, <1>8, Zenon
<1> QED
  BY <1>4, <1>7, <1>9 DEF SumsTo

\* The sums grow, and no block is placed above where it was.
LEMMA LengthsBound ==
    ASSUME NEW bs, NEW s, PoolOK(bs, s), NEW f, SumsTo(bs, s, Len(s) + 1, f)
    PROVE  /\ \A i, j \in 1 .. Len(s) + 1 : i <= j => f[i] <= f[j]
           /\ \A i \in 1 .. Len(s) : MEMPOOL_STARTADDRESS + f[i] <= bs[s[i]].begin
<1>1. Len(s) \in Nat /\ Len(s) >= 1
  BY DEF PoolOK, Lists
<1>2. \A i \in 1 .. Len(s) + 1 : f[i] \in Nat
  BY DEF SumsTo
<1>3. ASSUME NEW i \in 1 .. Len(s) + 1
      PROVE  \A j \in 1 .. Len(s) + 1 : i <= j => f[i] <= f[j]
  <2> DEFINE T == {j \in 1 .. Len(s) + 1 : i <= j /\ ~ (f[i] <= f[j])}
  <2> SUFFICES ASSUME T # {} PROVE FALSE
    OBVIOUS
  <2>1. T \subseteq Nat
    OBVIOUS
  <2>2. PICK j \in T : \A k \in T : j =< k
    <3> HIDE DEF T
    <3> QED
      BY <2>1, Least, Zenon
  <2>3. j # i
    BY <1>2
  <2>4. j \in 2 .. Len(s) + 1 /\ j - 1 \in 1 .. Len(s) /\ i <= j - 1 /\ ~ (j =< j - 1)
        /\ j - 1 \in 1 .. Len(s) + 1
    BY <1>1, <2>3
  <2>5. f[i] <= f[j - 1]
    BY <2>2, <2>4
  <2>6. f[j] = f[j - 1] + bs[s[j - 1]].size /\ bs[s[j - 1]].size \in Nat
    BY <2>4, ListFacts DEF SumsTo
  <2> QED
    BY <1>2, <2>4, <2>5, <2>6
<1>4. \A i \in 1 .. Len(s) : MEMPOOL_STARTADDRESS + f[i] <= bs[s[i]].begin
  <2> DEFINE T == {i \in 1 .. Len(s) : ~ (MEMPOOL_STARTADDRESS + f[i] <= bs[s[i]].begin)}
  <2> SUFFICES ASSUME T # {} PROVE FALSE
    OBVIOUS
  <2>1. T \subseteq Nat
    OBVIOUS
  <2>2. PICK i \in T : \A k \in T : i =< k
    <3> HIDE DEF T
    <3> QED
      BY <2>1, Least, Zenon
  <2>3. MEMPOOL_STARTADDRESS \in Nat
    BY Constants
  <2>4. i # 1
    <3>1. f[1] = 0 /\ 1 \in 1 .. Len(s)
      BY <1>1 DEF SumsTo
    <3>2. MEMPOOL_STARTADDRESS <= bs[s[1]].begin
      BY <3>1, ListFacts
    <3> QED
      BY <2>3, <3>1, <3>2
  <2>5. i \in 2 .. Len(s) + 1 /\ i - 1 \in 1 .. Len(s) /\ ~ (i =< i - 1) /\ i - 1 < i
    BY <1>1, <2>4
  <2>6. MEMPOOL_STARTADDRESS + f[i - 1] <= bs[s[i - 1]].begin
    BY <2>2, <2>5
  <2>7. f[i] = f[i - 1] + bs[s[i - 1]].size /\ bs[s[i - 1]].size \in Nat
        /\ bs[s[i - 1]].begin \in Nat /\ bs[s[i]].begin \in Nat
    BY <2>5, ListFacts DEF SumsTo
  <2>8. End(bs[s[i - 1]]) <= bs[s[i]].begin
    BY <2>5 DEF PoolOK, InOrder
  <2>9. f[i - 1] \in Nat /\ End(bs[s[i - 1]]) = bs[s[i - 1]].begin + bs[s[i - 1]].size
    BY <1>1, <1>2, <2>5 DEF End
  <2>10. MEMPOOL_STARTADDRESS + f[i] <= bs[s[i]].begin
    <3> DEFINE x == f[i - 1]
               y == bs[s[i - 1]].size
               z == bs[s[i - 1]].begin
               u == bs[s[i]].begin
               e == End(bs[s[i - 1]])
               w == f[i]
    <3>1. /\ MEMPOOL_STARTADDRESS + x <= z /\ w = x + y /\ y \in Nat /\ z \in Nat /\ u \in Nat
          /\ e <= u /\ x \in Nat /\ e = z + y
      BY <2>6, <2>7, <2>8, <2>9, Zenon
    <3> HIDE DEF T, x, y, z, u, e, w
    <3>2. MEMPOOL_STARTADDRESS + w <= u
      BY <2>3, <3>1
    <3> QED
      BY <3>2, Zenon DEF w, u
  <2> QED
    BY <2>10
<1> QED
  BY <1>3, <1>4

IsPacked(bs, s, f, n) ==
    /\ n \in [Descriptors -> Descriptor]
    /\ \A h \in Descriptors : n[h].size = bs[h].size /\ n[h].nextblock = bs[h].nextblock
    /\ \A i \in 1 .. Len(s) : n[s[i]].begin = MEMPOOL_STARTADDRESS + f[i]

LEMMA CollectedBlocks ==
    ASSUME NEW bs, NEW s, PoolOK(bs, s)
    PROVE  /\ SumsTo(bs, s, Len(s) + 1, Lengths(bs, s))
           /\ IsPacked(bs, s, Lengths(bs, s), Collected(bs))
<1> DEFINE f == Lengths(bs, s)
           n == Collected(bs)
<1>1. s \in Seq(Descriptors) /\ Len(s) \in Nat /\ DOMAIN s = 1 .. Len(s)
      /\ bs \in [Descriptors -> Descriptor]
  BY DEF PoolOK, Lists
<1>2. SumsTo(bs, s, Len(s) + 1, f)
  <2>1. \A i \in 1 .. Len(s) : bs[s[i]].size \in Nat
    BY ListFacts
  <2> QED
    BY <1>1, <2>1, LengthsAre
<1>3. Chain(bs) = s
  BY ChainIs DEF PoolOK
<1> HIDE DEF f
<1>4. ASSUME NEW i \in 1 .. Len(s)
      PROVE  Place(s, s[i]) = i
  <2>1. \A j \in 1 .. Len(s) : s[j] = s[i] => j = i
    BY DEF PoolOK, Lists
  <2> QED
    BY <1>1, <2>1 DEF Place
<1>5. n = [h \in Descriptors |->
            IF h \notin Range(s) THEN bs[h]
            ELSE [bs[h] EXCEPT !.begin = MEMPOOL_STARTADDRESS + f[Place(s, h)]]]
  <2>1. DOMAIN bs = Descriptors
    BY <1>1
  <2> QED
    BY <1>3, <2>1, Zenon DEF Collected, Packed, f
<1>6. Range(s) = {s[i] : i \in 1 .. Len(s)}
  BY <1>1, Zenon DEF Range
<1> HIDE DEF n
<1>7. ASSUME NEW i \in 1 .. Len(s)
      PROVE  n[s[i]] = [bs[s[i]] EXCEPT !.begin = MEMPOOL_STARTADDRESS + f[i]]
  <2>1. s[i] \in Descriptors /\ s[i] \in Range(s)
    BY <1>1, <1>6
  <2> QED
    BY <1>4, <1>5, <2>1, Zenon
<1>8. \A h \in Descriptors : h \notin Range(s) => n[h] = bs[h]
  BY <1>5, Zenon
<1>9. \A i \in 1 .. Len(s) : f[i] \in Nat
  BY <1>1, <1>2 DEF SumsTo
<1>10. MEMPOOL_STARTADDRESS \in Nat
  BY Constants
<1>11. ASSUME NEW h \in Descriptors
       PROVE  n[h] \in Descriptor /\ n[h].size = bs[h].size /\ n[h].nextblock = bs[h].nextblock
  <2>1. bs[h] \in Descriptor
    BY <1>1
  <2>2. CASE h \notin Range(s)
    BY <1>8, <2>1, <2>2
  <2>3. CASE h \in Range(s)
    <3>1. PICK i \in 1 .. Len(s) : h = s[i]
      BY <1>6, <2>3
    <3>2. n[h] = [bs[h] EXCEPT !.begin = MEMPOOL_STARTADDRESS + f[i]] /\ f[i] \in Nat
      BY <1>7, <1>9, <3>1
    <3> QED
      BY <1>10, <2>1, <3>2 DEF Descriptor
  <2> QED
    BY <2>2, <2>3
<1>12. n \in [Descriptors -> Descriptor]
  <2>1. DOMAIN n = Descriptors /\ n = [h \in Descriptors |-> n[h]]
    BY <1>5, Zenon
  <2> QED
    BY <1>11, <2>1, Zenon
<1>13. ASSUME NEW i \in 1 .. Len(s)
       PROVE  n[s[i]].begin = MEMPOOL_STARTADDRESS + f[i]
  <2>1. bs[s[i]] \in Descriptor
    BY <1>1
  <2> QED
    BY <1>7, <2>1 DEF Descriptor
<1> QED
  BY <1>2, <1>11, <1>12, <1>13 DEF IsPacked, f, n

\* After the collection the list is the same one, still in order.
LEMMA CollectedOK ==
    ASSUME NEW bs, NEW s, PoolOK(bs, s)
    PROVE  PoolOK(Collected(bs), s)
<1> DEFINE f == Lengths(bs, s)
           n == Collected(bs)
           start == MEMPOOL_STARTADDRESS
<1>1. SumsTo(bs, s, Len(s) + 1, f) /\ IsPacked(bs, s, f, n)
  BY CollectedBlocks
<1>2. /\ \A i, j \in 1 .. Len(s) + 1 : i <= j => f[i] <= f[j]
      /\ \A i \in 1 .. Len(s) : start + f[i] <= bs[s[i]].begin
  <2> HIDE DEF f
  <2> QED
    BY <1>1, LengthsBound
<1> HIDE DEF f, n
<1>3. s \in Seq(Descriptors) /\ Len(s) \in Nat /\ Len(s) >= 1 /\ s[1] = POOLSTART
  BY DEF PoolOK, Lists
<1>4. start \in Nat
  BY Constants
<1> HIDE DEF start
<1>5. ASSUME NEW i \in 1 .. Len(s)
      PROVE  /\ n[s[i]].begin = start + f[i] /\ n[s[i]].size = bs[s[i]].size
             /\ n[s[i]].nextblock = bs[s[i]].nextblock
             /\ f[i] \in Nat /\ f[i + 1] \in Nat /\ f[i + 1] = f[i] + bs[s[i]].size
             /\ bs[s[i]].size \in Nat /\ bs[s[i]].begin \in Nat
             /\ End(n[s[i]]) = start + f[i + 1]
  <2>1. s[i] \in Descriptors /\ bs[s[i]].size \in Nat /\ bs[s[i]].begin \in Nat
    BY ListFacts
  <2>2. /\ n[s[i]].begin = start + f[i] /\ n[s[i]].size = bs[s[i]].size
        /\ n[s[i]].nextblock = bs[s[i]].nextblock
    BY <1>1, <2>1 DEF IsPacked, start
  <2>3. i + 1 \in 2 .. Len(s) + 1 /\ i \in 1 .. Len(s) + 1 /\ (i + 1) - 1 = i
        /\ i + 1 \in 1 .. Len(s) + 1
    BY <1>3
  <2>4. f[i] \in Nat /\ f[i + 1] \in Nat /\ f[i + 1] = f[i] + bs[s[i]].size
    BY <1>1, <2>3 DEF SumsTo
  <2> QED
    BY <1>4, <2>1, <2>2, <2>4 DEF End
<1>6. Lists(n, s)
  <2>1. \A i \in 1 .. Len(s) : n[s[i]].nextblock = IF i = Len(s) THEN NOBLOCK ELSE s[i + 1]
    BY <1>5 DEF PoolOK, Lists
  <2> QED
    BY <1>3, <2>1 DEF PoolOK, Lists
<1>7. InOrder(n, s)
  <2>1. n[POOLSTART].begin = MEMPOOL_STARTADDRESS /\ n[POOLSTART].size = 0
    <3>1. 1 \in 1 .. Len(s) /\ f[1] = 0
      BY <1>1, <1>3 DEF SumsTo
    <3>2. n[s[1]].begin = start + 0 /\ n[s[1]].size = bs[s[1]].size
      BY <1>5, <3>1
    <3> QED
      BY <1>3, <1>4, <3>2 DEF PoolOK, InOrder, start
  <2>2. ASSUME NEW i \in 1 .. Len(s), NEW j \in 1 .. Len(s), i < j
        PROVE  End(n[s[i]]) <= n[s[j]].begin
    <3>1. i + 1 \in 1 .. Len(s) + 1 /\ j \in 1 .. Len(s) + 1 /\ i + 1 <= j
      BY <1>3, <2>2
    <3>2. f[i + 1] <= f[j]
      BY <1>2, <3>1
    <3> QED
      BY <1>4, <1>5, <3>2
  <2>3. ASSUME NEW i \in 1 .. Len(s)
        PROVE  End(n[s[i]]) <= PoolEnd
    <3>1. End(bs[s[i]]) <= PoolEnd
      BY DEF PoolOK, InOrder
    <3>2. start + f[i] <= bs[s[i]].begin
      BY <1>2
    <3>3. PoolEnd \in Nat /\ End(bs[s[i]]) = bs[s[i]].begin + bs[s[i]].size
      BY Constants DEF End
    <3>4. /\ f[i] \in Nat /\ f[i + 1] = f[i] + bs[s[i]].size /\ bs[s[i]].size \in Nat
          /\ bs[s[i]].begin \in Nat /\ End(n[s[i]]) = start + f[i + 1]
      BY <1>5
    <3> QED
      BY <1>4, <3>1, <3>2, <3>3, <3>4
  <2>4. \A h \in Handles : n[h].size > 0 <=> \E i \in 1 .. Len(s) : s[i] = h
    <3>1. \A h \in Handles : n[h].size = bs[h].size
      BY <1>1, Constants DEF IsPacked
    <3> QED
      BY <3>1 DEF PoolOK, InOrder
  <2> QED
    BY <2>1, <2>2, <2>3, <2>4 DEF InOrder
<1> QED
  BY <1>1, <1>6, <1>7 DEF PoolOK, IsPacked, n

-----------------------------------------------------------------------------
(***************************************************************************)
(* Blocks and their bytes                                                  *)
(***************************************************************************)
Addresses == 0 .. TXEND_INIT
Kinds == {"zero", "next", "stat", "crc", "tcp", "udp", "udp0", "app", "header"}
Cellset == [kind : Kinds, tag : Int, len : Int, i : Int]
Memory == [Addresses -> Cellset]

\* No block in use is past the end of the memory.
InMemory(bs) == \A h \in Handles : bs[h].size > 0 => End(bs[h]) <= TXEND_INIT + 1

\* Block h still has its length and its bytes, and is not above where it was.
Carried(bs, m, nb, nm, h) ==
    /\ nb[h].size = bs[h].size
    /\ bs[h].size > 0 =>
          /\ nb[h].begin <= bs[h].begin
          /\ \A x \in 0 .. bs[h].size - 1 : nm[nb[h].begin + x] = m[bs[h].begin + x]

LEMMA BlockFacts ==
    ASSUME NEW bs, NEW s, PoolOK(bs, s), NEW h \in Handles
    PROVE  /\ bs[h].begin \in Nat /\ bs[h].size \in Nat /\ End(bs[h]) \in Nat
           /\ End(bs[h]) = bs[h].begin + bs[h].size
           /\ bs[h].size > 0 => /\ MEMPOOL_STARTADDRESS <= bs[h].begin
                                /\ End(bs[h]) <= PoolEnd
                                /\ \E k \in 2 .. Len(s) : s[k] = h
<1>1. bs[h] \in Descriptor
  BY Constants DEF PoolOK
<1>2. bs[h].begin \in Nat /\ bs[h].size \in Nat /\ End(bs[h]) \in Nat
      /\ End(bs[h]) = bs[h].begin + bs[h].size
  BY <1>1 DEF Descriptor, End
<1>3. ASSUME bs[h].size > 0
      PROVE  /\ MEMPOOL_STARTADDRESS <= bs[h].begin /\ End(bs[h]) <= PoolEnd
             /\ \E k \in 2 .. Len(s) : s[k] = h
  <2>1. PICK k \in 1 .. Len(s) : s[k] = h
    BY <1>3 DEF PoolOK, InOrder
  <2>2. MEMPOOL_STARTADDRESS <= bs[h].begin
    BY <2>1, ListFacts
  <2>3. End(bs[h]) <= PoolEnd
    BY <2>1 DEF PoolOK, InOrder
  <2>4. k # 1
    BY <2>1, Constants DEF PoolOK, Lists
  <2>5. k \in 2 .. Len(s)
    BY <2>4
  <2> QED
    BY <2>1, <2>2, <2>3, <2>5
<1> QED
  BY <1>2, <1>3

LEMMA Disjoint ==
    ASSUME NEW bs, NEW s, PoolOK(bs, s), NEW g \in Handles, NEW h \in Handles,
           g # h, bs[g].size > 0, bs[h].size > 0
    PROVE  End(bs[g]) <= bs[h].begin \/ End(bs[h]) <= bs[g].begin
<1>1. PICK i \in 1 .. Len(s) : s[i] = g
  BY DEF PoolOK, InOrder
<1>2. PICK j \in 1 .. Len(s) : s[j] = h
  BY DEF PoolOK, InOrder
<1>3. i < j \/ j < i
  BY <1>1, <1>2
<1> QED
  BY <1>1, <1>2, <1>3 DEF PoolOK, InOrder

LEMMA OwnerIs ==
    ASSUME NEW bs, NEW s, PoolOK(bs, s), NEW h \in Handles, NEW a \in Int,
           bs[h].begin <= a, a < End(bs[h])
    PROVE  Owners(bs, a) = {h}
<1>1. ASSUME NEW g \in Handles, bs[g].begin <= a, a < End(bs[g])
      PROVE  g = h
  <2>1. /\ bs[g].begin \in Nat /\ bs[g].size \in Nat /\ End(bs[g]) = bs[g].begin + bs[g].size
        /\ bs[h].begin \in Nat /\ bs[h].size \in Nat /\ End(bs[h]) = bs[h].begin + bs[h].size
    BY BlockFacts
  <2>2. bs[g].size > 0 /\ bs[h].size > 0
    BY <1>1, <2>1
  <2>3. g # h => End(bs[g]) <= bs[h].begin \/ End(bs[h]) <= bs[g].begin
    BY <2>2, Disjoint
  <2> QED
    BY <1>1, <2>1, <2>3
<1>2. h \in Owners(bs, a)
  BY DEF Owners
<1>3. \A g \in Owners(bs, a) : g = h
  BY <1>1 DEF Owners
<1> QED
  BY <1>2, <1>3

\* Only addresses of the pool are owned.
LEMMA OwnedAbove ==
    ASSUME NEW bs, NEW s, PoolOK(bs, s), NEW a \in Int, NEW h \in Owners(bs, a)
    PROVE  /\ h \in Handles /\ bs[h].begin <= a /\ a < End(bs[h])
           /\ bs[h].size > 0 /\ MEMPOOL_STARTADDRESS <= a
<1>1. h \in Handles /\ bs[h].begin <= a /\ a < End(bs[h])
  BY DEF Owners
<1>2. bs[h].begin \in Nat /\ bs[h].size \in Nat /\ End(bs[h]) = bs[h].begin + bs[h].size
  BY <1>1, BlockFacts
<1>3. bs[h].size > 0
  BY <1>1, <1>2
<1>4. MEMPOOL_STARTADDRESS <= bs[h].begin
  BY <1>1, <1>3, BlockFacts
<1> QED
  BY <1>1, <1>2, <1>3, <1>4, Constants

\* The collection carries every block along.
LEMMA MovedOK ==
    ASSUME NEW bs, NEW s, PoolOK(bs, s), InMemory(bs), NEW m \in Memory
    PROVE  /\ Moved(m, bs, Collected(bs)) \in Memory
           /\ \A a \in Addresses : a < MEMPOOL_STARTADDRESS =>
                 Moved(m, bs, Collected(bs))[a] = m[a]
           /\ \A h \in Handles :
                 Carried(bs, m, Collected(bs), Moved(m, bs, Collected(bs)), h)
<1> DEFINE n == Collected(bs)
           f == Lengths(bs, s)
           nm == Moved(m, bs, n)
           from(a) == CHOOSE h \in Owners(n, a) : TRUE
<1>1. SumsTo(bs, s, Len(s) + 1, f) /\ IsPacked(bs, s, f, n) /\ PoolOK(n, s)
  BY CollectedBlocks, CollectedOK
<1>2. \A i \in 1 .. Len(s) : MEMPOOL_STARTADDRESS + f[i] <= bs[s[i]].begin
  <2> HIDE DEF f
  <2> QED
    BY <1>1, LengthsBound
<1> HIDE DEF f
<1>3. nm = [a \in Addresses |-> IF Owners(n, a) = {} THEN m[a]
                                ELSE m[bs[from(a)].begin + a - n[from(a)].begin]]
  <2>1. DOMAIN m = Addresses
    BY DEF Memory
  <2> QED
    BY <2>1, Zenon DEF Moved
<1> HIDE DEF n, nm
<1>4. ASSUME NEW h \in Handles, bs[h].size > 0
      PROVE  n[h].begin <= bs[h].begin
  <2>1. PICK i \in 1 .. Len(s) : s[i] = h
    BY <1>4 DEF PoolOK, InOrder
  <2> QED
    BY <1>1, <1>2, <2>1 DEF IsPacked
<1>5. \A h \in Handles : n[h].size = bs[h].size
  BY <1>1, Constants DEF IsPacked
<1>6. ASSUME NEW h \in Handles, bs[h].size > 0, NEW x \in 0 .. bs[h].size - 1
      PROVE  /\ n[h].begin + x \in Addresses /\ bs[h].begin + x \in Addresses
             /\ nm[n[h].begin + x] = m[bs[h].begin + x]
  <2> DEFINE a == n[h].begin + x
  <2>1. /\ n[h].begin \in Nat /\ bs[h].begin \in Nat /\ bs[h].size \in Nat
        /\ End(n[h]) = n[h].begin + n[h].size /\ End(bs[h]) = bs[h].begin + bs[h].size
    BY <1>1, BlockFacts
  <2>2. n[h].begin <= bs[h].begin /\ n[h].size = bs[h].size
    BY <1>4, <1>5, <1>6
  <2>3. End(bs[h]) <= TXEND_INIT + 1
    BY <1>6 DEF InMemory
  <2>4. a \in Int /\ n[h].begin <= a /\ a < End(n[h]) /\ a \in Addresses
        /\ bs[h].begin + x \in Addresses
    <3>1. TXEND_INIT \in Nat /\ x \in Nat /\ x < bs[h].size
      BY <2>1, Constants
    <3>2. bs[h].begin + x <= TXEND_INIT
      BY <2>1, <2>3, <3>1
    <3> QED
      BY <2>1, <2>2, <3>1, <3>2 DEF Addresses
  <2>5. bs[h].begin + a - n[h].begin = bs[h].begin + x
    BY <2>1
  <2> HIDE DEF a
  <2>6. Owners(n, a) = {h}
    BY <1>1, <2>4, OwnerIs
  <2>7. from(a) = h
    BY <2>6
  <2>8. nm[a] = m[bs[h].begin + a - n[h].begin]
    <3>1. Owners(n, a) # {}
      BY <2>6
    <3> HIDE DEF from
    <3> QED
      BY <1>3, <2>4, <2>7, <3>1, Zenon
  <2> QED
    BY <2>4, <2>5, <2>8 DEF a
<1>7. ASSUME NEW h \in Handles
      PROVE  Carried(bs, m, n, nm, h)
  BY <1>4, <1>5, <1>6 DEF Carried
<1>8. ASSUME NEW a \in Addresses
      PROVE  nm[a] \in Cellset /\ (a < MEMPOOL_STARTADDRESS => nm[a] = m[a])
  <2>1. a \in Int
    BY Constants DEF Addresses
  <2>2. CASE Owners(n, a) = {}
    <3>1. nm[a] = m[a]
      BY <1>3, <2>2, Zenon
    <3> QED
      BY <3>1 DEF Memory
  <2>3. CASE Owners(n, a) # {}
    <3>1. PICK h : h \in Owners(n, a)
      BY <2>3
    <3>2. /\ h \in Handles /\ n[h].begin <= a /\ a < End(n[h]) /\ n[h].size > 0
          /\ MEMPOOL_STARTADDRESS <= a
      BY <1>1, <2>1, <3>1, OwnedAbove
    <3>3. /\ n[h].begin \in Nat /\ n[h].size \in Nat /\ End(n[h]) = n[h].begin + n[h].size
          /\ n[h].size = bs[h].size
      BY <1>1, <1>5, <3>2, BlockFacts
    <3> DEFINE x == a - n[h].begin
    <3>4. x \in 0 .. bs[h].size - 1 /\ n[h].begin + x = a /\ bs[h].size > 0
      BY <2>1, <3>2, <3>3
    <3> HIDE DEF x
    <3>5. nm[a] = m[bs[h].begin + x] /\ bs[h].begin + x \in Addresses
      BY <1>6, <3>2, <3>4
    <3>6. nm[a] \in Cellset
      BY <3>5 DEF Memory
    <3>7. ~ (a < MEMPOOL_STARTADDRESS)
      BY <2>1, <3>2, Constants
    <3> QED
      BY <3>6, <3>7
  <2> QED
    BY <2>2, <2>3
<1>9. nm \in Memory
  <2> DEFINE body(a) == IF Owners(n, a) = {} THEN m[a]
                        ELSE m[bs[from(a)].begin + a - n[from(a)].begin]
  <2>0. nm = [a \in Addresses |-> body(a)]
    BY <1>3
  <2> HIDE DEF body
  <2>1. nm = [a \in Addresses |-> nm[a]]
    BY <2>0, Zenon
  <2> QED
    BY <1>8, <2>1, Zenon DEF Memory
<1> QED
  BY <1>7, <1>8, <1>9 DEF n, nm

-----------------------------------------------------------------------------
(***************************************************************************)
(* allocBlock                                                              *)
(***************************************************************************)
\* A gap that the search may settle for.
Fitting(bs, s, size, found) ==
    found = {} \/ \E k \in 1 .. Len(s) : found = {s[k]} /\ FreeSize(bs, s[k]) >= size

LEMMA BestFitIs ==
    ASSUME NEW bs, NEW s, PoolOK(bs, s), NEW size \in Nat
    PROVE  Fitting(bs, s, size, BestFit(bs, s, size))
<1> DEFINE gaps == [i \in DOMAIN s |-> FreeSize(bs, s[i])]
           exact == {i \in DOMAIN gaps : gaps[i] = size}
           larger == {i \in DOMAIN gaps : gaps[i] > size}
<1>1. DOMAIN s = 1 .. Len(s) /\ Len(s) \in Nat
  BY DEF PoolOK, Lists
<1>2. DOMAIN gaps = 1 .. Len(s) /\ \A i \in 1 .. Len(s) : gaps[i] = FreeSize(bs, s[i])
  BY <1>1
<1>3. ASSUME NEW i \in 1 .. Len(s)
      PROVE  FreeSize(bs, s[i]) \in Int
  <2>1. FreeSize(bs, s[i]) = GapAfter(bs, s, i)
    BY GapIs
  <2>2. End(bs[s[i]]) \in Nat /\ PoolEnd \in Nat
    BY ListFacts, Constants
  <2>3. i # Len(s) => bs[s[i + 1]].begin \in Nat
    <3> SUFFICES ASSUME i # Len(s) PROVE bs[s[i + 1]].begin \in Nat
      OBVIOUS
    <3>1. i + 1 \in 1 .. Len(s)
      <4>1. Len(s) \in Nat
        BY <1>1
      <4> QED
        BY <4>1
    <3> QED
      BY <3>1, ListFacts
  <2> QED
    BY <2>1, <2>2, <2>3 DEF GapAfter
<1>4. ASSUME NEW fits, fits \subseteq 1 .. Len(s),
             \A i \in fits : FreeSize(bs, s[i]) >= size
      PROVE  Fitting(bs, s, size, FirstOf(s, fits))
  <2>1. CASE fits = {}
    BY <2>1 DEF FirstOf, Fitting
  <2>2. CASE fits # {}
    <3>1. fits \subseteq Nat
      BY <1>1, <1>4
    <3>2. Min(fits) \in fits
      BY <2>2, <3>1, MinIn
    <3>3. FirstOf(s, fits) = {s[Min(fits)]}
      BY <2>2 DEF FirstOf
    <3> QED
      BY <1>4, <3>2, <3>3 DEF Fitting
  <2> QED
    BY <2>1, <2>2
<1> HIDE DEF gaps
<1>5. exact \subseteq 1 .. Len(s) /\ \A i \in exact : FreeSize(bs, s[i]) >= size
  BY <1>2, <1>3
<1>6. larger \subseteq 1 .. Len(s) /\ \A i \in larger : FreeSize(bs, s[i]) >= size
  BY <1>2, <1>3
<1>7. Smallest(gaps, larger) \subseteq larger
  BY DEF Smallest
<1>8. BestFit(bs, s, size) = FirstOf(s, exact)
      \/ BestFit(bs, s, size) = FirstOf(s, Smallest(gaps, larger))
  BY DEF BestFit, FitOf, gaps
<1> HIDE DEF exact, larger
<1>9. Fitting(bs, s, size, FirstOf(s, exact))
  BY <1>4, <1>5
<1>10. Fitting(bs, s, size, FirstOf(s, Smallest(gaps, larger)))
  <2> DEFINE S == Smallest(gaps, larger)
  <2>1. S \subseteq 1 .. Len(s) /\ \A i \in S : FreeSize(bs, s[i]) >= size
    BY <1>6, <1>7
  <2> HIDE DEF S
  <2>2. Fitting(bs, s, size, FirstOf(s, S))
    BY <1>4, <2>1
  <2> QED
    BY <2>2 DEF S
<1> QED
  BY <1>8, <1>9, <1>10

\* What allocBlock may return.
IsAllocated(bs, m, size, r) ==
    /\ \E t : PoolOK(r.blocks, t)
    /\ r.mem \in Memory
    /\ \A a \in Addresses : a < MEMPOOL_STARTADDRESS => r.mem[a] = m[a]
    /\ r.handle \in {NOBLOCK} \cup Handles
    /\ r.handle # NOBLOCK => bs[r.handle].size = 0 /\ r.blocks[r.handle].size = size
    /\ \A h \in Handles \ {r.handle} : Carried(bs, m, r.blocks, r.mem, h)

LEMMA CarriedSame ==
    ASSUME NEW bs, NEW m, NEW nb, NEW h, nb[h].size = bs[h].size, nb[h].begin = bs[h].begin,
           bs[h].begin \in Nat
    PROVE  Carried(bs, m, nb, m, h)
  BY DEF Carried

LEMMA CarriedTwice ==
    ASSUME NEW bs, NEW m, NEW b1, NEW m1, NEW b2, NEW m2, NEW h,
           bs[h].begin \in Nat, b1[h].begin \in Nat, b2[h].begin \in Nat,
           Carried(bs, m, b1, m1, h), Carried(b1, m1, b2, m2, h)
    PROVE  Carried(bs, m, b2, m2, h)
<1> SUFFICES ASSUME bs[h].size > 0
             PROVE  /\ b2[h].begin <= bs[h].begin
                    /\ \A x \in 0 .. bs[h].size - 1 : m2[b2[h].begin + x] = m[bs[h].begin + x]
  BY DEF Carried
<1>1. b1[h].size = bs[h].size
  BY DEF Carried
<1>2. /\ b1[h].begin <= bs[h].begin
      /\ \A x \in 0 .. bs[h].size - 1 : m1[b1[h].begin + x] = m[bs[h].begin + x]
  BY DEF Carried
<1>3. /\ b2[h].begin <= b1[h].begin
      /\ \A x \in 0 .. bs[h].size - 1 : m2[b2[h].begin + x] = m1[b1[h].begin + x]
  BY <1>1 DEF Carried
<1> QED
  BY <1>2, <1>3

LEMMA PlacedOK ==
    ASSUME NEW bs, NEW s, PoolOK(bs, s), NEW m \in Memory, NEW size \in Nat \ {0},
           NEW found, Fitting(bs, s, size, found)
    PROVE  /\ IsAllocated(bs, m, size, Placed(bs, m, size, found))
           /\ found # {} /\ Unused(bs) # {} => Placed(bs, m, size, found).handle # NOBLOCK
<1> DEFINE r == Placed(bs, m, size, found)
<1>1. CASE found = {} \/ Unused(bs) = {}
  <2>1. r = [blocks |-> bs, mem |-> m, handle |-> NOBLOCK]
    BY <1>1 DEF Placed
  <2>2. \A h \in Handles : bs[h].begin \in Nat
    BY BlockFacts
  <2>3. \A h \in Handles : Carried(bs, m, bs, m, h)
    BY <2>2, CarriedSame
  <2>4. r.blocks = bs /\ r.mem = m /\ r.handle = NOBLOCK
    BY <2>1
  <2> HIDE DEF r
  <2>5. IsAllocated(bs, m, size, r)
    BY <2>3, <2>4 DEF IsAllocated
  <2> QED
    BY <1>1, <2>5 DEF r
<1>2. CASE found # {} /\ Unused(bs) # {}
  <2>1. PICK k \in 1 .. Len(s) : found = {s[k]} /\ FreeSize(bs, s[k]) >= size
    BY <1>2 DEF Fitting
  <2> DEFINE cur == Min(Unused(bs))
  <2>2. cur \in Unused(bs)
    <3>1. Unused(bs) \subseteq Nat
      BY Constants DEF Unused
    <3> QED
      BY <1>2, <3>1, MinIn
  <2>3. cur \in Handles /\ bs[cur].size = 0
    BY <2>2 DEF Unused
  <2>4. (CHOOSE b \in found : TRUE) = s[k]
    BY <2>1
  <2>5. r = Linked(bs, m, size, s[k], cur)
    BY <1>2, <2>4, Zenon DEF Placed
  <2> HIDE DEF cur, r
  <2>6. PoolOK(r.blocks, Inserted(s, k, cur))
    BY <2>1, <2>3, <2>5, LinkedOK
  <2>7. s[k] \in Descriptors /\ cur # s[k]
    <3>1. s[k] \in Descriptors
      BY ListFacts
    <3> QED
      BY <2>3, <3>1 DEF PoolOK, InOrder
  <2>8. IsLinked(bs, size, s[k], cur, r.blocks) /\ r.mem = m /\ r.handle = cur
    BY <2>3, <2>5, <2>7, LinkedBlocks DEF PoolOK
  <2>9. ASSUME NEW h \in Handles \ {cur}
        PROVE  Carried(bs, m, r.blocks, r.mem, h)
    <3>1. r.blocks[h].begin = bs[h].begin /\ r.blocks[h].size = bs[h].size
      BY <2>8, Constants DEF IsLinked
    <3>2. bs[h].begin \in Nat
      BY BlockFacts
    <3> QED
      BY <2>8, <3>1, <3>2, CarriedSame
  <2>10. r.blocks[cur].size = size
    BY <2>8 DEF IsLinked
  <2>11. IsAllocated(bs, m, size, r)
    BY <2>3, <2>6, <2>8, <2>9, <2>10 DEF IsAllocated
  <2> QED
    BY <2>3, <2>8, <2>11, Constants DEF r
<1> QED
  BY <1>1, <1>2

\* The one gap behind the last block, after a collection.
LEMMA TailFitIs ==
    ASSUME NEW bs, NEW s, PoolOK(bs, s), NEW size \in Nat
    PROVE  Fitting(bs, s, size, TailFit(bs, Last(s), size))
<1>1. s \in Seq(Descriptors) /\ Len(s) \in 1 .. Len(s)
  BY DEF PoolOK, Lists
<1>2. Last(s) = s[Len(s)]
  BY <1>1 DEF Last
<1> QED
  BY <1>1, <1>2 DEF TailFit, Fitting

LEMMA AllocOK ==
    ASSUME NEW bs, NEW s, PoolOK(bs, s), InMemory(bs), NEW m \in Memory, NEW size \in Nat \ {0}
    PROVE  IsAllocated(bs, m, size, allocBlock(bs, m, size))
<1> DEFINE found == BestFit(bs, s, size)
           n == Collected(bs)
           nm == Moved(m, bs, n)
<1>1. Chain(bs) = s
  BY ChainIs DEF PoolOK
<1>2. Fitting(bs, s, size, found)
  BY BestFitIs
<1>3. allocBlock(bs, m, size) = Allocated(bs, m, size, found)
  BY <1>1 DEF allocBlock
<1> HIDE DEF found
<1>4. CASE found # {}
  <2>1. allocBlock(bs, m, size) = Placed(bs, m, size, found)
    BY <1>3, <1>4 DEF Allocated
  <2> QED
    BY <1>2, <2>1, PlacedOK
<1>5. CASE found = {}
  <2> DEFINE tail == TailFit(n, Last(s), size)
             r == Placed(n, nm, size, tail)
  <2>1. PoolOK(n, s)
    BY CollectedOK
  <2>2. Chain(n) = s
    BY <2>1, ChainIs DEF PoolOK
  <2>3. allocBlock(bs, m, size) = r
    BY <1>3, <1>5, <2>2 DEF Allocated, InTail
  <2>4. /\ nm \in Memory /\ \A a \in Addresses : a < MEMPOOL_STARTADDRESS => nm[a] = m[a]
        /\ \A h \in Handles : Carried(bs, m, n, nm, h)
    BY MovedOK
  <2> HIDE DEF n, nm
  <2>5. Fitting(n, s, size, tail)
    BY <2>1, TailFitIs
  <2> HIDE DEF tail
  <2>6. IsAllocated(n, nm, size, r)
    BY <2>1, <2>4, <2>5, PlacedOK
  <2> HIDE DEF r
  <2>7. ASSUME NEW h \in Handles \ {r.handle}
        PROVE  Carried(bs, m, r.blocks, r.mem, h)
    <3>1. Carried(bs, m, n, nm, h) /\ Carried(n, nm, r.blocks, r.mem, h)
      BY <2>4, <2>6 DEF IsAllocated
    <3>2. PICK t : PoolOK(r.blocks, t)
      BY <2>6 DEF IsAllocated
    <3>3. bs[h].begin \in Nat /\ n[h].begin \in Nat /\ r.blocks[h].begin \in Nat
      BY <2>1, <3>2, BlockFacts
    <3> QED
      BY <3>1, <3>3, CarriedTwice
  <2>8. r.handle # NOBLOCK => bs[r.handle].size = 0
    <3>1. r.handle # NOBLOCK => r.handle \in Handles /\ n[r.handle].size = 0
      BY <2>6 DEF IsAllocated
    <3>2. \A h \in Handles : n[h].size = bs[h].size
      BY <2>4 DEF Carried
    <3> QED
      BY <3>1, <3>2
  <2>9. IsAllocated(bs, m, size, r)
    BY <2>4, <2>6, <2>7, <2>8 DEF IsAllocated
  <2> QED
    BY <2>3, <2>9
<1> QED
  BY <1>4, <1>5

\* Where there is a descriptor and enough room in all, there is a block.
LEMMA RoomLemma ==
    ASSUME NEW bs, NEW s, PoolOK(bs, s), InMemory(bs), NEW m \in Memory,
           NEW size \in Nat \ {0}, Unused(bs) # {},
           size <= MEMPOOL_SIZE - Lengths(bs, s)[Len(s) + 1]
    PROVE  allocBlock(bs, m, size).handle # NOBLOCK
<1> DEFINE found == BestFit(bs, s, size)
           n == Collected(bs)
           nm == Moved(m, bs, n)
           f == Lengths(bs, s)
<1>1. Chain(bs) = s
  BY ChainIs DEF PoolOK
<1>2. Fitting(bs, s, size, found)
  BY BestFitIs
<1>3. allocBlock(bs, m, size) = Allocated(bs, m, size, found)
  BY <1>1 DEF allocBlock
<1> HIDE DEF found
<1>4. CASE found # {}
  <2>1. allocBlock(bs, m, size) = Placed(bs, m, size, found)
    BY <1>3, <1>4 DEF Allocated
  <2> QED
    BY <1>2, <1>4, <2>1, PlacedOK
<1>5. CASE found = {}
  <2> DEFINE tail == TailFit(n, Last(s), size)
             r == Placed(n, nm, size, tail)
  <2>1. PoolOK(n, s) /\ SumsTo(bs, s, Len(s) + 1, f) /\ IsPacked(bs, s, f, n)
    BY CollectedOK, CollectedBlocks
  <2>2. Chain(n) = s
    BY <2>1, ChainIs DEF PoolOK
  <2>3. allocBlock(bs, m, size) = r
    BY <1>3, <1>5, <2>2 DEF Allocated, InTail
  <2>4. nm \in Memory
    BY MovedOK
  <2> HIDE DEF n, nm
  <2>5. Fitting(n, s, size, tail)
    BY <2>1, TailFitIs
  <2> DEFINE l == Len(s)
  <2>6. s \in Seq(Descriptors) /\ l \in Nat /\ l \in 1 .. Len(s)
    BY DEF PoolOK, Lists
  <2>7. Last(s) = s[l] /\ s[l] \in Descriptors
    BY <2>6 DEF Last
  <2>8. FreeSize(n, s[l]) = PoolEnd - End(n[s[l]])
    BY <2>1, <2>6, GapIs DEF GapAfter
  <2>9. /\ n[s[l]].begin = MEMPOOL_STARTADDRESS + f[l] /\ n[s[l]].size = bs[s[l]].size
        /\ f[l + 1] = f[l] + bs[s[l]].size /\ f[l] \in Nat /\ f[l + 1] \in Nat
        /\ bs[s[l]].size \in Nat
    <3>1. l + 1 \in 2 .. Len(s) + 1 /\ l \in 1 .. Len(s) + 1 /\ (l + 1) - 1 = l
          /\ l + 1 \in 1 .. Len(s) + 1
      BY <2>6
    <3>2. bs[s[l]].size \in Nat
      BY <2>6, ListFacts
    <3> HIDE DEF l, f
    <3> QED
      BY <2>1, <2>6, <2>7, <3>1, <3>2 DEF SumsTo, IsPacked
  <2>10. End(n[s[l]]) = MEMPOOL_STARTADDRESS + f[l + 1]
    <3> HIDE DEF l, f
    <3> QED
      BY <2>9, Constants DEF End
  <2>11. FreeSize(n, s[l]) >= size
    <3> HIDE DEF f
    <3>1. f[l + 1] \in Nat /\ size <= MEMPOOL_SIZE - f[l + 1]
      BY <2>9 DEF f
    <3> QED
      BY <2>8, <2>10, <3>1, Constants
  <2>12. tail # {}
    BY <2>7, <2>11 DEF TailFit
  <2>13. Unused(n) # {}
    <3>1. \A h \in Handles : n[h].size = bs[h].size
      BY <2>1, Constants DEF IsPacked
    <3> QED
      BY <3>1 DEF Unused
  <2> HIDE DEF tail
  <2>14. r.handle # NOBLOCK
    BY <2>1, <2>4, <2>5, <2>12, <2>13, PlacedOK
  <2> QED
    BY <2>3, <2>14
<1> QED
  BY <1>4, <1>5

-----------------------------------------------------------------------------
(***************************************************************************)
(* Writing to the memory                                                   *)
(***************************************************************************)
\* The memory below the pool is as it was.
Below(m, nm) == \A a \in Addresses : a < MEMPOOL_STARTADDRESS => nm[a] = m[a]

\* nm is m with every block as it was.
Keeps(bs, m, nm) == nm \in Memory /\ \A h \in Handles : Carried(bs, m, bs, nm, h)

LEMMA BlockAddresses ==
    ASSUME NEW bs, NEW s, PoolOK(bs, s), InMemory(bs), NEW h \in Handles,
           bs[h].size > 0, NEW x \in 0 .. bs[h].size - 1
    PROVE  /\ bs[h].begin + x \in Addresses /\ bs[h].begin + x \in Nat
           /\ RXEND_INIT + 2 <= bs[h].begin + x
           /\ bs[h].begin <= bs[h].begin + x /\ bs[h].begin + x < End(bs[h])
<1>1. /\ bs[h].begin \in Nat /\ bs[h].size \in Nat /\ End(bs[h]) = bs[h].begin + bs[h].size
      /\ MEMPOOL_STARTADDRESS <= bs[h].begin
  BY BlockFacts
<1>2. End(bs[h]) <= TXEND_INIT + 1
  BY DEF InMemory
<1>3. TXEND_INIT \in Nat /\ RXEND_INIT \in Nat /\ MEMPOOL_STARTADDRESS = RXEND_INIT + 2
  BY Constants
<1> QED
  BY <1>1, <1>2, <1>3 DEF Addresses

LEMMA ZeroIn == Zero \in Cellset
  BY DEF Zero, Cell, Cellset, Kinds

LEMMA PoolOnlyOK ==
    ASSUME NEW bs, NEW s, PoolOK(bs, s), InMemory(bs), NEW m \in Memory
    PROVE  /\ Keeps(bs, m, PoolOnly(m, bs))
           /\ \A a \in Addresses : a <= RXEND_INIT => PoolOnly(m, bs)[a] = m[a]
<1> DEFINE nm == PoolOnly(m, bs)
<1>1. nm = [a \in Addresses |-> IF a <= RXEND_INIT \/ Owners(bs, a) # {} THEN m[a] ELSE Zero]
  <2>1. DOMAIN m = Addresses
    BY DEF Memory
  <2> QED
    BY <2>1, Zenon DEF PoolOnly
<1> HIDE DEF nm
<1>2. \A a \in Addresses : m[a] \in Cellset
  BY DEF Memory
<1>3. nm \in Memory
  BY <1>1, <1>2, ZeroIn DEF Memory
<1>4. ASSUME NEW h \in Handles
      PROVE  Carried(bs, m, bs, nm, h)
  <2>1. bs[h].begin \in Nat
    BY BlockFacts
  <2>2. ASSUME bs[h].size > 0, NEW x \in 0 .. bs[h].size - 1
        PROVE  nm[bs[h].begin + x] = m[bs[h].begin + x]
    <3> DEFINE a == bs[h].begin + x
    <3>1. a \in Addresses /\ a \in Int /\ bs[h].begin <= a /\ a < End(bs[h])
      BY <2>2, BlockAddresses
    <3> HIDE DEF a
    <3>2. Owners(bs, a) # {}
      BY <3>1, OwnerIs
    <3>3. nm[a] = m[a]
      BY <1>1, <3>1, <3>2
    <3> QED
      BY <3>3 DEF a
  <2> QED
    BY <2>1, <2>2 DEF Carried
<1>5. \A a \in Addresses : a <= RXEND_INIT => nm[a] = m[a]
  BY <1>1
<1> QED
  BY <1>3, <1>4, <1>5 DEF nm, Keeps

\* A memory that differs only in the ring keeps every block.
LEMMA RingChange ==
    ASSUME NEW bs, NEW s, PoolOK(bs, s), InMemory(bs), NEW m \in Memory, NEW nm \in Memory,
           \A a \in Addresses : a > RXEND_INIT => nm[a] = m[a]
    PROVE  Keeps(bs, m, nm)
<1>1. ASSUME NEW h \in Handles
      PROVE  Carried(bs, m, bs, nm, h)
  <2>1. bs[h].begin \in Nat
    BY BlockFacts
  <2>2. ASSUME bs[h].size > 0, NEW x \in 0 .. bs[h].size - 1
        PROVE  nm[bs[h].begin + x] = m[bs[h].begin + x]
    <3> DEFINE a == bs[h].begin + x
    <3>1. a \in Addresses /\ a \in Nat /\ RXEND_INIT + 2 <= a
      BY <2>2, BlockAddresses
    <3> HIDE DEF a
    <3>2. nm[a] = m[a]
      BY <3>1, Constants
    <3> QED
      BY <3>2 DEF a
  <2> QED
    BY <2>1, <2>2 DEF Carried
<1> QED
  BY <1>1 DEF Keeps

LEMMA RingOnlyIn ==
    ASSUME NEW m \in Memory, NEW from, NEW to
    PROVE  /\ RingOnly(m, from, to) \in Memory
           /\ \A a \in Addresses : a > RXEND_INIT => RingOnly(m, from, to)[a] = m[a]
<1>1. RingOnly(m, from, to) = [a \in Addresses |->
        IF a > RXEND_INIT \/ Ring(a + RingSize - from) < Ring(to + RingSize - from)
        THEN m[a] ELSE Zero]
  <2>1. DOMAIN m = Addresses
    BY DEF Memory
  <2> QED
    BY <2>1, Zenon DEF RingOnly
<1>2. \A a \in Addresses : m[a] \in Cellset
  BY DEF Memory
<1> QED
  BY <1>1, <1>2, ZeroIn DEF Memory

LEMMA RingOnlyKeeps ==
    ASSUME NEW bs, NEW s, PoolOK(bs, s), InMemory(bs), NEW m \in Memory, NEW from, NEW to
    PROVE  Keeps(bs, m, RingOnly(m, from, to))
  BY RingOnlyIn, RingChange

\* nm is m with q written into block h, behind its first off bytes.
IsStored(bs, m, h, off, q, nm) ==
    /\ nm \in Memory /\ Below(m, nm)
    /\ \A g \in Handles \ {h} : Carried(bs, m, bs, nm, g)
    /\ \A x \in 1 .. Len(q) : nm[bs[h].begin + off + x - 1] = q[x]
    /\ \A x \in off + Len(q) .. bs[h].size - 1 : nm[bs[h].begin + x] = m[bs[h].begin + x]

LEMMA StoredOK ==
    ASSUME NEW bs, NEW s, PoolOK(bs, s), InMemory(bs), NEW m \in Memory,
           NEW h \in Handles, bs[h].size > 0, NEW q \in Seq(Cellset), NEW off \in Nat,
           off + Len(q) <= bs[h].size
    PROVE  IsStored(bs, m, h, off, q, Stored(m, bs[h].begin + off, q))
<1> DEFINE b == bs[h].begin + off
           nm == Stored(m, b, q)
<1>1. /\ bs[h].begin \in Nat /\ bs[h].size \in Nat /\ End(bs[h]) = bs[h].begin + bs[h].size
      /\ RXEND_INIT + 2 <= bs[h].begin
  BY BlockFacts, Constants
<1>2. Len(q) \in Nat /\ \A x \in 1 .. Len(q) : q[x] \in Cellset
  OBVIOUS
<1>3. \A a \in Addresses : m[a] \in Cellset /\ a \in Nat
  BY Constants DEF Memory, Addresses
<1>4. nm = [a \in Addresses |-> IF b <= a /\ a < b + Len(q) THEN q[a - b + 1] ELSE m[a]]
  <2>1. DOMAIN m = Addresses
    BY DEF Memory
  <2> QED
    BY <2>1, Zenon DEF Stored
<1> HIDE DEF nm
<1>5. b \in Nat
  BY <1>1
<1>6. \A a \in Addresses : nm[a] \in Cellset
  <2> TAKE a \in Addresses
  <2>1. CASE b <= a /\ a < b + Len(q)
    <3>1. a - b + 1 \in 1 .. Len(q)
      BY <1>2, <1>3, <1>5, <2>1
    <3>2. nm[a] = q[a - b + 1]
      BY <1>4, <2>1
    <3> QED
      BY <1>2, <3>1, <3>2
  <2>2. CASE ~ (b <= a /\ a < b + Len(q))
    <3>1. nm[a] = m[a]
      BY <1>4, <2>2
    <3> QED
      BY <1>3, <3>1
  <2> QED
    BY <2>1, <2>2
<1>7. nm \in Memory
  <2>1. nm = [a \in Addresses |-> nm[a]]
    BY <1>4, Zenon
  <2> QED
    BY <1>6, <2>1, Zenon DEF Memory
<1>8. ASSUME NEW a \in Addresses, ~ (b <= a /\ a < b + Len(q))
      PROVE  nm[a] = m[a]
  BY <1>4, <1>8
<1>9. Below(m, nm)
  <2> SUFFICES ASSUME NEW a \in Addresses, a < MEMPOOL_STARTADDRESS
               PROVE  nm[a] = m[a]
    BY DEF Below
  <2>1. ~ (b <= a)
    BY <1>1, <1>3, Constants
  <2> QED
    BY <1>8, <2>1
<1>10. ASSUME NEW g \in Handles \ {h}
       PROVE  Carried(bs, m, bs, nm, g)
  <2>1. bs[g].begin \in Nat /\ bs[g].size \in Nat /\ End(bs[g]) = bs[g].begin + bs[g].size
    BY BlockFacts
  <2>2. ASSUME bs[g].size > 0, NEW x \in 0 .. bs[g].size - 1
        PROVE  nm[bs[g].begin + x] = m[bs[g].begin + x]
    <3> DEFINE a == bs[g].begin + x
    <3>1. a \in Addresses /\ a \in Nat /\ bs[g].begin <= a /\ a < End(bs[g])
      BY <2>2, BlockAddresses
    <3> HIDE DEF a
    <3>2. End(bs[g]) <= bs[h].begin \/ End(bs[h]) <= bs[g].begin
      BY <2>2, Disjoint
    <3>3. ~ (b <= a /\ a < b + Len(q))
      <4>1. bs[h].begin <= b /\ b + Len(q) <= End(bs[h]) /\ b + Len(q) \in Nat
        <5> DEFINE c == bs[h].begin
                   e == End(bs[h])
                   z == bs[h].size
                   n == Len(q)
        <5>1. /\ c \in Nat /\ z \in Nat /\ e = c + z /\ n \in Nat /\ off + n <= z
              /\ b = c + off
          BY <1>1, <1>2, Zenon
        <5> HIDE DEF b, c, e, z, n
        <5>2. c <= b /\ b + n <= e /\ b + n \in Nat
          BY <5>1
        <5> QED
          BY <5>2, Zenon DEF c, e, n
      <4>2. End(bs[g]) \in Nat /\ End(bs[h]) \in Nat /\ bs[h].begin \in Nat /\ bs[g].begin \in Nat
        BY BlockFacts
      <4> HIDE DEF b
      <4> QED
        BY <1>5, <3>1, <3>2, <4>1, <4>2
    <3>4. nm[a] = m[a]
      BY <1>8, <3>1, <3>3
    <3> QED
      BY <3>4 DEF a
  <2> QED
    BY <2>1, <2>2 DEF Carried
<1>11. ASSUME NEW x \in 1 .. Len(q)
       PROVE  nm[b + x - 1] = q[x]
  <2>1. off + x - 1 \in 0 .. bs[h].size - 1
    BY <1>1, <1>2
  <2>2. bs[h].begin + (off + x - 1) \in Addresses
    BY <2>1, BlockAddresses
  <2>3. b + x - 1 \in Addresses /\ b <= b + x - 1 /\ b + x - 1 < b + Len(q)
        /\ (b + x - 1) - b + 1 = x
    <3> DEFINE c == bs[h].begin
               n == Len(q)
    <3>1. c \in Nat /\ n \in Nat /\ b = c + off /\ x \in 1 .. n /\ c + (off + x - 1) \in Addresses
      BY <1>1, <1>2, <2>2, Zenon
    <3> HIDE DEF b, c, n
    <3>2. c + (off + x - 1) = b + x - 1
      BY <3>1
    <3>3. b <= b + x - 1 /\ b + x - 1 < b + n /\ (b + x - 1) - b + 1 = x
      BY <1>5, <3>1
    <3>4. b + x - 1 \in Addresses
      BY <3>1, <3>2, Zenon
    <3> QED
      BY <3>3, <3>4, Zenon DEF n
  <2> HIDE DEF b
  <2> QED
    BY <1>4, <2>3
<1>12. ASSUME NEW x \in 0 .. bs[h].size - 1, off + Len(q) <= x
       PROVE  nm[bs[h].begin + x] = m[bs[h].begin + x]
  <2>1. bs[h].begin + x \in Addresses
    BY BlockAddresses
  <2>2. ~ (b <= bs[h].begin + x /\ bs[h].begin + x < b + Len(q))
    BY <1>1, <1>2, <1>12
  <2> QED
    BY <1>8, <2>1, <2>2
<1>13. \A x \in off + Len(q) .. bs[h].size - 1 : nm[bs[h].begin + x] = m[bs[h].begin + x]
  <2> TAKE x \in off + Len(q) .. bs[h].size - 1
  <2>1. x \in 0 .. bs[h].size - 1 /\ off + Len(q) <= x
    BY <1>1, <1>2
  <2> QED
    BY <1>12, <2>1
<1> QED
  BY <1>7, <1>9, <1>10, <1>11, <1>13 DEF nm, b, IsStored

-----------------------------------------------------------------------------
(***************************************************************************)
(* Sending                                                                 *)
(***************************************************************************)
LEMMA FrameConstants ==
    /\ VectorLen \in Nat /\ HeaderLen \in Nat /\ CrcLen \in Nat /\ UIP_SOCKET_DATALEN \in Nat
    /\ VectorLen >= 2 /\ HeaderLen >= 1 /\ UIP_SOCKET_DATALEN >= 1
    /\ \A f \in Frames : f.kind \in Kinds /\ f.tag \in Nat /\ f.len \in Nat \ {0}
    /\ \A w \in Writes : w.tag \in Nat /\ w.len \in 1 .. UIP_SOCKET_DATALEN
  BY FrameAssumption DEF Kinds

LEMMA OutHeaderIs ==
    OutHeader \in Seq(Cellset) /\ Len(OutHeader) = HeaderLen
<1>1. HeaderLen \in Nat
  BY FrameConstants
<1>2. \A i \in 1 .. HeaderLen : Cell("header", 0, 0, i) \in Cellset
  BY <1>1 DEF Cell, Cellset, Kinds
<1>3. OutHeader \in [1 .. HeaderLen -> Cellset]
  BY <1>2 DEF OutHeader
<1> QED
  BY <1>1, <1>3

\* q is the n bytes at a.
IsLinear(m, a, n, q) ==
    /\ q \in Seq(Cellset) /\ Len(q) = n
    /\ \A i \in 1 .. n : q[i] = m[a + i - 1]

LEMMA LinearIs ==
    ASSUME NEW m, NEW a, NEW n \in Nat, \A i \in 1 .. n : m[a + i - 1] \in Cellset
    PROVE  IsLinear(m, a, n, Linear(m, a, n))
<1>1. Linear(m, a, n) \in [1 .. n -> Cellset]
  BY DEF Linear
<1>2. \A i \in 1 .. n : Linear(m, a, n)[i] = m[a + i - 1]
  BY Zenon DEF Linear
<1> QED
  BY <1>1, <1>2 DEF IsLinear

LEMMA JoinIs ==
    ASSUME NEW s \in Seq(Cellset), NEW t \in Seq(Cellset), NEW u \in Seq(Cellset),
           Len(u) = Len(s) + Len(t),
           \A i \in 1 .. Len(u) : u[i] = IF i <= Len(s) THEN s[i] ELSE t[i - Len(s)]
    PROVE  u = s \o t
<1>1. s \o t \in Seq(Cellset) /\ Len(s \o t) = Len(s) + Len(t)
  OBVIOUS
<1>2. \A i \in 1 .. Len(s) + Len(t) : (s \o t)[i] = IF i <= Len(s) THEN s[i] ELSE t[i - Len(s)]
  OBVIOUS
<1> DEFINE v == s \o t
<1> HIDE DEF v
<1>3. v \in Seq(Cellset) /\ Len(v) = Len(u) /\ \A i \in 1 .. Len(u) : u[i] = v[i]
  BY <1>1, <1>2 DEF v
<1>4. u = v
  BY <1>3
<1> QED
  BY <1>4 DEF v

LEMMA AllocInMemory ==
    ASSUME NEW bs, NEW s, PoolOK(bs, s), InMemory(bs), NEW m, NEW size,
           NEW a, IsAllocated(bs, m, size, a), ~ Spills(a)
    PROVE  InMemory(a.blocks)
<1> SUFFICES ASSUME NEW h \in Handles, a.blocks[h].size > 0
             PROVE  End(a.blocks[h]) <= TXEND_INIT + 1
  BY DEF InMemory
<1>1. PICK t : PoolOK(a.blocks, t)
  BY DEF IsAllocated
<1>2. /\ End(a.blocks[h]) \in Nat /\ End(a.blocks[h]) = a.blocks[h].begin + a.blocks[h].size
      /\ a.blocks[h].begin \in Nat /\ a.blocks[h].size \in Nat /\ TXEND_INIT \in Nat
  BY <1>1, BlockFacts, Constants
<1>3. CASE h = a.handle
  <2>1. ~ (End(a.blocks[h]) - 1 > TXEND_INIT)
    BY <1>3, Constants DEF Spills
  <2> QED
    BY <1>2, <2>1
<1>4. CASE h # a.handle
  <2>1. Carried(bs, m, a.blocks, a.mem, h)
    BY <1>4 DEF IsAllocated
  <2>2. a.blocks[h].size = bs[h].size /\ bs[h].size > 0 /\ a.blocks[h].begin <= bs[h].begin
    BY <2>1 DEF Carried
  <2>3. End(bs[h]) <= TXEND_INIT + 1 /\ End(bs[h]) = bs[h].begin + bs[h].size
        /\ bs[h].begin \in Nat
    BY <2>2, BlockFacts DEF InMemory
  <2> QED
    BY <1>2, <2>2, <2>3
<1> QED
  BY <1>3, <1>4

LEMMA FreeOK ==
    ASSUME NEW bs, NEW s, PoolOK(bs, s), NEW h \in Handles, bs[h].size > 0
    PROVE  /\ \E t : PoolOK(freeBlock(bs, h), t)
           /\ freeBlock(bs, h)[h].size = 0
           /\ \A g \in Handles \ {h} : /\ freeBlock(bs, h)[g].begin = bs[g].begin
                                       /\ freeBlock(bs, h)[g].size = bs[g].size
<1>1. PICK k \in 2 .. Len(s) : s[k] = h
  BY BlockFacts
<1>2. IsUnlinked(bs, s[k - 1], s[k], freeBlock(bs, s[k])) /\ PoolOK(freeBlock(bs, s[k]), Removed(s, k))
  BY FreedOK
<1> QED
  BY <1>1, <1>2, Constants DEF IsUnlinked

IsSent(bs, m, data, r) ==
    /\ r.spills \in BOOLEAN /\ r.ok \in BOOLEAN
    /\ ~ r.spills => /\ \E t : PoolOK(r.blocks, t)
                     /\ InMemory(r.blocks) /\ r.mem \in Memory /\ Below(m, r.mem)
                     /\ \A h \in Handles : Carried(bs, m, r.blocks, r.mem, h)
    /\ r.ok /\ data # NOBLOCK =>
          r.frame = OutHeader \o Linear(m, bs[data].begin, bs[data].size)

\* The control byte is put back.
LEMMA SendPacketIs ==
    ASSUME NEW m \in Memory, NEW b, b.begin \in Nat, b.size \in Nat, b.begin > 0,
           b.begin + b.size <= TXEND_INIT + 1, b.size > 0
    PROVE  sendPacket(m, b).mem = m /\ sendPacket(m, b).frame = Linear(m, b.begin, b.size)
<1> DEFINE start == b.begin - 1
           z == [m EXCEPT ![start] = Zero]
<1>1. start \in Addresses
  BY Constants DEF Addresses
<1>2. m = [a \in Addresses |-> m[a]] /\ DOMAIN m = Addresses
  BY DEF Memory
<1>3. z = [a \in Addresses |-> IF a = start THEN Zero ELSE m[a]]
  BY <1>2
<1>4. DOMAIN z = Addresses /\ \A a \in Addresses : a # start => z[a] = m[a]
  BY <1>3
<1>5. sendPacket(m, b) = [mem |-> [z EXCEPT ![start] = m[start]],
                          frame |-> Linear(z, start + 1, b.size)]
  BY Zenon DEF sendPacket, Restored, Transmitted
<1>6. start + 1 = b.begin
  OBVIOUS
<1> HIDE DEF z
<1>7. [z EXCEPT ![start] = m[start]] = m
  <2>1. [z EXCEPT ![start] = m[start]] = [a \in Addresses |-> m[a]]
    BY <1>1, <1>3, <1>4
  <2> QED
    BY <1>2, <2>1, Zenon
<1>8. Linear(z, b.begin, b.size) = Linear(m, b.begin, b.size)
  <2>1. ASSUME NEW i \in 1 .. b.size
        PROVE  z[b.begin + i - 1] = m[b.begin + i - 1]
    <3>1. b.begin + i - 1 \in Addresses /\ b.begin + i - 1 # start
      BY Constants DEF Addresses
    <3> HIDE DEF start
    <3> QED
      BY <1>4, <3>1
  <2> QED
    BY <2>1, Zenon DEF Linear
<1> QED
  BY <1>5, <1>6, <1>7, <1>8

\* The block that network_send fills and frees again.
LEMMA FilledOK ==
    ASSUME NEW bs, NEW s, PoolOK(bs, s), InMemory(bs), NEW m \in Memory,
           NEW data \in {NOBLOCK} \cup Handles, data # NOBLOCK => bs[data].size > 0,
           NEW size, size = HeaderLen + (IF data = NOBLOCK THEN 0 ELSE bs[data].size),
           NEW a, IsAllocated(bs, m, size, a), a.handle # NOBLOCK, ~ Spills(a)
    PROVE  IsSent(bs, m, data, InBlock(a, data))
<1> DEFINE h == a.handle
           b == a.blocks[h]
           q == Linear(a.mem, a.blocks[data].begin, a.blocks[data].size)
           p == WithPayload(a, data)
           w == Stored(p, b.begin, OutHeader)
           sent == sendPacket(w, b)
           nb == freeBlock(a.blocks, h)
           r == InBlock(a, data)
<1>1. PICK t : PoolOK(a.blocks, t)
  BY DEF IsAllocated
<1>2. InMemory(a.blocks)
  BY AllocInMemory
<1>3. /\ h \in Handles /\ bs[h].size = 0 /\ b.size = size
      /\ a.mem \in Memory /\ Below(m, a.mem)
      /\ \A g \in Handles \ {h} : Carried(bs, m, a.blocks, a.mem, g)
  BY DEF IsAllocated, Below
<1>4. r = [blocks |-> nb, mem |-> sent.mem, frame |-> sent.frame, ok |-> TRUE, spills |-> FALSE]
  BY Zenon DEF InBlock, PacketSent
<1>5. HeaderLen \in Nat /\ HeaderLen >= 1 /\ OutHeader \in Seq(Cellset) /\ Len(OutHeader) = HeaderLen
  BY FrameConstants, OutHeaderIs
<1>6. data # NOBLOCK => /\ data \in Handles /\ data # h /\ bs[data].size > 0
                        /\ bs[data].size \in Nat /\ bs[data].begin \in Nat
                        /\ a.blocks[data].size = bs[data].size
                        /\ a.blocks[data].begin \in Nat
  <2> SUFFICES ASSUME data # NOBLOCK
               PROVE  /\ data \in Handles /\ data # h /\ bs[data].size > 0
                      /\ bs[data].size \in Nat /\ bs[data].begin \in Nat
                      /\ a.blocks[data].size = bs[data].size
                      /\ a.blocks[data].begin \in Nat
    OBVIOUS
  <2>1. data \in Handles /\ bs[data].size > 0
    OBVIOUS
  <2>2. bs[data].size \in Nat /\ bs[data].begin \in Nat /\ a.blocks[data].begin \in Nat
    BY <1>1, <2>1, BlockFacts
  <2>3. data # h
    BY <1>3, <2>1, <2>2
  <2>4. a.blocks[data].size = bs[data].size
    BY <1>3, <2>1, <2>3 DEF Carried
  <2> QED
    BY <2>1, <2>2, <2>3, <2>4
<1>7. size \in Nat /\ size >= 1 /\ b.size > 0
  <2>1. CASE data = NOBLOCK
    BY <1>3, <1>5, <2>1
  <2>2. CASE data # NOBLOCK
    BY <1>3, <1>5, <1>6, <2>2
  <2> QED
    BY <2>1, <2>2
<1>8. /\ b.begin \in Nat /\ b.size \in Nat /\ RXEND_INIT + 2 <= b.begin
      /\ b.begin + b.size <= TXEND_INIT + 1 /\ b.begin > 0
  <2>1. /\ b.begin \in Nat /\ b.size \in Nat /\ MEMPOOL_STARTADDRESS <= b.begin
        /\ End(b) = b.begin + b.size /\ End(b) <= TXEND_INIT + 1
    BY <1>1, <1>2, <1>3, <1>7, BlockFacts DEF InMemory
  <2> QED
    BY <2>1, Constants
<1>9. data # NOBLOCK =>
        /\ q \in Seq(Cellset) /\ Len(q) = bs[data].size
        /\ \A i \in 1 .. bs[data].size : q[i] = m[bs[data].begin + i - 1]
  <2> SUFFICES ASSUME data # NOBLOCK
               PROVE  /\ q \in Seq(Cellset) /\ Len(q) = bs[data].size
                      /\ \A i \in 1 .. bs[data].size : q[i] = m[bs[data].begin + i - 1]
    OBVIOUS
  <2> DEFINE n == bs[data].size
             c == a.blocks[data].begin
             d == bs[data].begin
  <2>1. n \in Nat /\ n > 0 /\ c \in Nat /\ d \in Nat /\ data \in Handles /\ data # h
        /\ a.blocks[data].size = n
    BY <1>6
  <2>2. \A x \in 0 .. n - 1 : a.mem[c + x] = m[d + x]
    BY <1>3, <2>1 DEF Carried
  <2>3. \A x \in 0 .. n - 1 : c + x \in Addresses
    BY <1>1, <1>2, <2>1, BlockAddresses
  <2> HIDE DEF n, c, d
  <2>4. \A i \in 1 .. n : i - 1 \in 0 .. n - 1 /\ c + (i - 1) = c + i - 1 /\ d + (i - 1) = d + i - 1
    BY <2>1
  <2>5. \A i \in 1 .. n : c + i - 1 \in Addresses /\ a.mem[c + i - 1] = m[d + i - 1]
    <3> TAKE i \in 1 .. n
    <3>1. c + (i - 1) \in Addresses /\ a.mem[c + (i - 1)] = m[d + (i - 1)]
      BY <2>2, <2>3, <2>4
    <3>2. c + (i - 1) = c + i - 1 /\ d + (i - 1) = d + i - 1
      BY <2>4
    <3> QED
      BY <3>1, <3>2
  <2>6. \A i \in 1 .. n : a.mem[c + i - 1] \in Cellset
    BY <1>3, <2>5 DEF Memory
  <2>7. q = Linear(a.mem, c, n)
    BY <2>1 DEF c
  <2> HIDE DEF q
  <2>8. q \in Seq(Cellset) /\ Len(q) = n /\ \A i \in 1 .. n : q[i] = a.mem[c + i - 1]
    <3>1. IsLinear(a.mem, c, n, q)
      BY <2>1, <2>6, <2>7, LinearIs
    <3> QED
      BY <3>1 DEF IsLinear
  <2>9. \A i \in 1 .. n : q[i] = m[d + i - 1]
    BY <2>5, <2>8
  <2> QED
    BY <2>8, <2>9 DEF n, d
<1> HIDE DEF q
<1>10. /\ p \in Memory /\ Below(a.mem, p)
       /\ \A g \in Handles \ {h} : Carried(a.blocks, a.mem, a.blocks, p, g)
       /\ data # NOBLOCK =>
             \A x \in 1 .. Len(q) : p[b.begin + HeaderLen + x - 1] = q[x]
  <2>1. CASE data = NOBLOCK
    <3>1. p = a.mem
      BY <2>1 DEF WithPayload
    <3>2. \A g \in Handles : a.blocks[g].begin \in Nat
      BY <1>1, BlockFacts
    <3>3. \A g \in Handles : Carried(a.blocks, a.mem, a.blocks, a.mem, g)
      BY <3>2, CarriedSame
    <3> QED
      BY <1>3, <2>1, <3>1, <3>3 DEF Below
  <2>2. CASE data # NOBLOCK
    <3>1. p = Stored(a.mem, a.blocks[h].begin + HeaderLen, q)
      BY <2>2 DEF WithPayload, q
    <3>2. HeaderLen + Len(q) <= a.blocks[h].size
      BY <1>3, <1>5, <1>6, <1>9, <2>2
    <3>3. a.blocks[h].size > 0 /\ q \in Seq(Cellset)
      BY <1>7, <1>9, <2>2
    <3> HIDE DEF p, b, h
    <3>4. /\ p \in Memory /\ Below(a.mem, p)
          /\ \A g \in Handles \ {h} : Carried(a.blocks, a.mem, a.blocks, p, g)
          /\ \A x \in 1 .. Len(q) : p[a.blocks[h].begin + HeaderLen + x - 1] = q[x]
      <4>1. IsStored(a.blocks, a.mem, h, HeaderLen, q, p)
        BY <1>1, <1>2, <1>3, <1>5, <3>1, <3>2, <3>3, StoredOK
      <4> QED
        BY <4>1 DEF IsStored
    <3> QED
      BY <3>4 DEF b
  <2> QED
    BY <2>1, <2>2
<1> HIDE DEF p
<1>11. /\ w \in Memory /\ Below(p, w)
       /\ \A g \in Handles \ {h} : Carried(a.blocks, p, a.blocks, w, g)
       /\ \A x \in 1 .. HeaderLen : w[b.begin + x - 1] = OutHeader[x]
       /\ \A x \in HeaderLen .. b.size - 1 : w[b.begin + x] = p[b.begin + x]
  <2>1. 0 \in Nat /\ 0 + Len(OutHeader) <= a.blocks[h].size /\ a.blocks[h].size > 0
        /\ a.blocks[h].begin + 0 = b.begin /\ 0 + Len(OutHeader) = HeaderLen
    <3>1. HeaderLen <= size
      <4>1. CASE data = NOBLOCK
        BY <1>5, <4>1
      <4>2. CASE data # NOBLOCK
        BY <1>5, <1>6, <4>2
      <4> QED
        BY <4>1, <4>2
    <3> QED
      BY <1>3, <1>5, <1>7, <1>8, <3>1
  <2>2. w = Stored(p, a.blocks[h].begin + 0, OutHeader)
    BY <2>1
  <2> HIDE DEF w, b, h
  <2>3. /\ w \in Memory /\ Below(p, w)
        /\ \A g \in Handles \ {h} : Carried(a.blocks, p, a.blocks, w, g)
        /\ \A x \in 1 .. Len(OutHeader) : w[a.blocks[h].begin + 0 + x - 1] = OutHeader[x]
        /\ \A x \in 0 + Len(OutHeader) .. a.blocks[h].size - 1 :
              w[a.blocks[h].begin + x] = p[a.blocks[h].begin + x]
    <3>1. IsStored(a.blocks, p, h, 0, OutHeader, w)
      BY <1>1, <1>2, <1>3, <1>5, <1>10, <2>1, <2>2, StoredOK
    <3> QED
      BY <3>1 DEF IsStored
  <2> QED
    BY <1>5, <2>1, <2>3 DEF b
<1> HIDE DEF w
<1>12. sent.mem = w /\ sent.frame = Linear(w, b.begin, b.size)
  <2> HIDE DEF b
  <2> QED
    BY <1>7, <1>8, <1>11, SendPacketIs
<1>13. /\ \E u : PoolOK(nb, u)
       /\ nb[h].size = 0
       /\ \A g \in Handles \ {h} : nb[g].begin = a.blocks[g].begin /\ nb[g].size = a.blocks[g].size
  <2> HIDE DEF nb
  <2>1. a.blocks[h].size > 0
    BY <1>7
  <2> HIDE DEF h
  <2> QED
    BY <1>1, <1>3, <2>1, FreeOK DEF nb
<1> HIDE DEF nb, sent
<1>14. ASSUME NEW g \in Handles
       PROVE  Carried(bs, m, nb, w, g)
  <2>1. CASE g = h
    BY <1>3, <1>13, <2>1 DEF Carried
  <2>2. CASE g # h
    <3>1. PICK u : PoolOK(nb, u)
      BY <1>13
    <3>2. bs[g].begin \in Nat /\ a.blocks[g].begin \in Nat /\ nb[g].begin \in Nat
      BY <1>1, <3>1, BlockFacts
    <3> HIDE DEF h, b
    <3>3. Carried(bs, m, a.blocks, a.mem, g) /\ Carried(a.blocks, a.mem, a.blocks, p, g)
          /\ Carried(a.blocks, p, a.blocks, w, g) /\ Carried(a.blocks, w, nb, w, g)
      <4>1. Carried(a.blocks, w, nb, w, g)
        BY <1>13, <2>2, <3>2, CarriedSame
      <4> QED
        BY <1>3, <1>10, <1>11, <2>2, <4>1
    <3>4. Carried(bs, m, a.blocks, p, g)
      BY <3>2, <3>3, CarriedTwice
    <3>5. Carried(bs, m, a.blocks, w, g)
      BY <3>2, <3>3, <3>4, CarriedTwice
    <3> QED
      BY <3>2, <3>3, <3>5, CarriedTwice
  <2> QED
    BY <2>1, <2>2
<1>15. InMemory(nb)
  <2> SUFFICES ASSUME NEW g \in Handles, nb[g].size > 0
               PROVE  End(nb[g]) <= TXEND_INIT + 1
    BY DEF InMemory
  <2>1. g # h
    BY <1>13
  <2>2. nb[g].begin = a.blocks[g].begin /\ nb[g].size = a.blocks[g].size
    BY <1>13, <2>1
  <2> QED
    BY <1>2, <2>2 DEF InMemory, End
<1>16. Below(m, w)
  BY <1>3, <1>10, <1>11 DEF Below
<1>17. data # NOBLOCK =>
          Linear(w, b.begin, b.size) = OutHeader \o Linear(m, bs[data].begin, bs[data].size)
  <2> SUFFICES ASSUME data # NOBLOCK
               PROVE  Linear(w, b.begin, b.size)
                        = OutHeader \o Linear(m, bs[data].begin, bs[data].size)
    OBVIOUS
  <2> DEFINE n == bs[data].size
             c == b.begin
             d == bs[data].begin
             lin == Linear(m, d, n)
             out == Linear(w, c, HeaderLen + n)
  <2>1. n \in Nat /\ d \in Nat /\ c \in Nat /\ b.size = HeaderLen + n /\ HeaderLen + n \in Nat
    BY <1>3, <1>5, <1>6, <1>8
  <2>2. q \in Seq(Cellset) /\ Len(q) = n /\ \A i \in 1 .. n : q[i] = m[d + i - 1]
    BY <1>9
  <2>3. \A x \in 1 .. n : p[c + HeaderLen + x - 1] = q[x]
    BY <1>10, <2>2
  <2>4. /\ \A x \in 1 .. HeaderLen : w[c + x - 1] = OutHeader[x]
        /\ \A x \in HeaderLen .. HeaderLen + n - 1 : w[c + x] = p[c + x]
    <3> HIDE DEF n, h, b
    <3>1. b.size - 1 = HeaderLen + n - 1
      BY <1>5, <2>1
    <3> QED
      BY <1>11, <3>1, Zenon
  <2> HIDE DEF n, c, d, b, h
  <2>5. \A i \in 1 .. n : m[d + i - 1] \in Cellset
    BY <2>2
  <2>6. lin \in Seq(Cellset) /\ Len(lin) = n /\ \A i \in 1 .. n : lin[i] = m[d + i - 1]
    <3>1. IsLinear(m, d, n, lin)
      BY <2>1, <2>5, LinearIs
    <3> HIDE DEF lin
    <3> QED
      BY <3>1 DEF IsLinear
  <2>7. ASSUME NEW i \in 1 .. HeaderLen + n
        PROVE  w[c + i - 1] = IF i <= HeaderLen THEN OutHeader[i] ELSE lin[i - HeaderLen]
    <3>1. CASE i <= HeaderLen
      <4>1. i \in 1 .. HeaderLen
        BY <1>5, <2>1, <3>1
      <4> QED
        BY <2>4, <3>1, <4>1
    <3>2. CASE ~ (i <= HeaderLen)
      <4> DEFINE x == i - HeaderLen
      <4>1. x \in 1 .. n /\ i - 1 \in HeaderLen .. HeaderLen + n - 1
            /\ c + (i - 1) = c + i - 1 /\ c + HeaderLen + x - 1 = c + (i - 1)
        BY <1>5, <2>1, <3>2
      <4>2. w[c + (i - 1)] = p[c + (i - 1)]
        BY <2>4, <4>1
      <4> HIDE DEF x
      <4>3. p[c + (i - 1)] = q[x]
        BY <2>3, <4>1
      <4>4. q[x] = lin[x]
        BY <2>2, <2>6, <4>1
      <4>5. w[c + i - 1] = lin[x]
        BY <4>1, <4>2, <4>3, <4>4
      <4> QED
        BY <3>2, <4>5 DEF x
    <3> QED
      BY <3>1, <3>2
  <2> HIDE DEF lin
  <2>8. \A i \in 1 .. HeaderLen + n : w[c + i - 1] \in Cellset
    <3> TAKE i \in 1 .. HeaderLen + n
    <3>1. i <= HeaderLen => OutHeader[i] \in Cellset
      BY <1>5
    <3>2. ~ (i <= HeaderLen) => lin[i - HeaderLen] \in Cellset
      BY <1>5, <2>1, <2>6
    <3> QED
      BY <2>7, <3>1, <3>2
  <2>9. out \in Seq(Cellset) /\ Len(out) = HeaderLen + n
        /\ \A i \in 1 .. HeaderLen + n : out[i] = w[c + i - 1]
    <3>1. IsLinear(w, c, HeaderLen + n, out)
      BY <2>1, <2>8, LinearIs
    <3> HIDE DEF out
    <3> QED
      BY <3>1 DEF IsLinear
  <2> HIDE DEF out
  <2>10. \A i \in 1 .. HeaderLen + n :
            out[i] = IF i <= HeaderLen THEN OutHeader[i] ELSE lin[i - HeaderLen]
    BY <2>7, <2>9
  <2>11. out = OutHeader \o lin
    <3>1. Len(out) = Len(OutHeader) + Len(lin)
      BY <1>5, <2>6, <2>9
    <3>2. \A i \in 1 .. Len(out) :
            out[i] = IF i <= Len(OutHeader) THEN OutHeader[i] ELSE lin[i - Len(OutHeader)]
      BY <1>5, <2>9, <2>10
    <3> QED
      BY <1>5, <2>6, <2>9, <3>1, <3>2, JoinIs
  <2> QED
    BY <2>1, <2>11 DEF out, lin, n, d, c
<1>18. /\ r.blocks = nb /\ r.mem = sent.mem /\ r.frame = sent.frame
       /\ r.ok = TRUE /\ r.spills = FALSE
  BY <1>4
<1> HIDE DEF r, h, b
<1> QED
  BY <1>11, <1>12, <1>13, <1>14, <1>15, <1>16, <1>17, <1>18 DEF IsSent, r

LEMMA SendOK ==
    ASSUME NEW bs, NEW s, PoolOK(bs, s), InMemory(bs), NEW m \in Memory,
           NEW data \in {NOBLOCK} \cup Handles, data # NOBLOCK => bs[data].size > 0
    PROVE  IsSent(bs, m, data, network_send(bs, m, data))
<1> DEFINE size == HeaderLen + (IF data = NOBLOCK THEN 0 ELSE bs[data].size)
           a == allocBlock(bs, m, size)
           r == network_send(bs, m, data)
<1>1. size \in Nat \ {0}
  <2>1. data # NOBLOCK => bs[data].size \in Nat
    BY BlockFacts
  <2> QED
    BY <2>1, FrameConstants
<1>2. r = InBlock(a, data)
  BY DEF network_send
<1>3. IsAllocated(bs, m, size, a)
  BY <1>1, AllocOK
<1> HIDE DEF a
<1>4. CASE a.handle # NOBLOCK /\ ~ Spills(a)
  <2>1. IsSent(bs, m, data, InBlock(a, data))
    BY <1>3, <1>4, FilledOK
  <2> QED
    BY <1>2, <2>1
<1>5. CASE a.handle = NOBLOCK \/ Spills(a)
  <2>1. r = [blocks |-> a.blocks, mem |-> a.mem, frame |-> <<>>, ok |-> FALSE,
             spills |-> Spills(a)]
    BY <1>2, <1>5 DEF InBlock
  <2>2. r.blocks = a.blocks /\ r.mem = a.mem /\ r.ok = FALSE /\ r.spills = Spills(a)
    BY <2>1
  <2>3. Spills(a) \in BOOLEAN
    BY DEF Spills
  <2>4. ~ Spills(a) => InMemory(a.blocks)
    BY <1>3, AllocInMemory
  <2>5. ~ Spills(a) => \A h \in Handles : Carried(bs, m, a.blocks, a.mem, h)
    BY <1>3, <1>5, Constants DEF IsAllocated
  <2> HIDE DEF r
  <2>6. IsSent(bs, m, data, r)
    BY <1>3, <2>2, <2>3, <2>4, <2>5 DEF IsSent, IsAllocated, Below
  <2> QED
    BY <2>6 DEF r
<1> QED
  BY <1>4, <1>5

-----------------------------------------------------------------------------
(***************************************************************************)
(* The pool, the memory and what the sockets hold                          *)
(***************************************************************************)
Holding == [owner : {"none", "in", "out"}, bytes : Seq(Cellset)]

\* Block b has what its owner put there.
HoldsAt(b, m, e) ==
    /\ e.owner = "none" <=> b.size = 0
    /\ e.owner = "in" => Len(e.bytes) = b.size
    /\ e.owner = "out" => Len(e.bytes) \in 1 .. b.size
    /\ e.owner # "none" => \A x \in 1 .. Len(e.bytes) : m[b.begin + x - 1] = e.bytes[x]

Sound(bs, m, hd) ==
    /\ \E s : PoolOK(bs, s)
    /\ InMemory(bs)
    /\ m \in Memory
    /\ hd \in [Handles -> Holding]
    /\ \A h \in Handles : HoldsAt(bs[h], m, hd[h])

LEMMA HoldsCarried ==
    ASSUME NEW bs, NEW m, NEW nb, NEW nm, NEW h, NEW e \in Holding,
           bs[h].begin \in Nat, bs[h].size \in Nat, nb[h].begin \in Nat,
           Carried(bs, m, nb, nm, h), HoldsAt(bs[h], m, e)
    PROVE  HoldsAt(nb[h], nm, e)
<1>1. nb[h].size = bs[h].size
  BY DEF Carried
<1>2. Len(e.bytes) \in Nat /\ e.owner \in {"none", "in", "out"}
  BY DEF Holding
<1>3. ASSUME e.owner # "none", NEW x \in 1 .. Len(e.bytes)
      PROVE  nm[nb[h].begin + x - 1] = e.bytes[x]
  <2>1. Len(e.bytes) <= bs[h].size /\ bs[h].size > 0
    BY <1>2, <1>3 DEF HoldsAt
  <2>2. x - 1 \in 0 .. bs[h].size - 1
    BY <1>2, <2>1
  <2>3. nm[nb[h].begin + (x - 1)] = m[bs[h].begin + (x - 1)]
    BY <2>1, <2>2 DEF Carried
  <2>4. nb[h].begin + (x - 1) = nb[h].begin + x - 1 /\ bs[h].begin + (x - 1) = bs[h].begin + x - 1
    BY <1>2
  <2>5. m[bs[h].begin + x - 1] = e.bytes[x]
    BY <1>3 DEF HoldsAt
  <2> QED
    BY <2>3, <2>4, <2>5
<1> QED
  BY <1>1, <1>3 DEF HoldsAt

\* A memory and a pool that carry every block along stay sound.
LEMMA SoundCarried ==
    ASSUME NEW bs, NEW m, NEW hd, Sound(bs, m, hd), NEW nb, NEW t, PoolOK(nb, t),
           InMemory(nb), NEW nm \in Memory, \A h \in Handles : Carried(bs, m, nb, nm, h)
    PROVE  Sound(nb, nm, hd)
<1>1. PICK s : PoolOK(bs, s)
  BY DEF Sound
<1>2. ASSUME NEW h \in Handles
      PROVE  HoldsAt(nb[h], nm, hd[h])
  <2>1. bs[h].begin \in Nat /\ bs[h].size \in Nat /\ nb[h].begin \in Nat
    BY <1>1, BlockFacts
  <2>2. hd[h] \in Holding /\ HoldsAt(bs[h], m, hd[h])
    BY DEF Sound
  <2> QED
    BY <2>1, <2>2, HoldsCarried
<1> QED
  BY <1>2 DEF Sound

LEMMA SoundKeeps ==
    ASSUME NEW bs, NEW m, NEW hd, Sound(bs, m, hd), NEW nm, Keeps(bs, m, nm)
    PROVE  Sound(bs, nm, hd)
<1>1. PICK s : PoolOK(bs, s)
  BY DEF Sound
<1> QED
  BY <1>1, SoundCarried DEF Sound, Keeps

LEMMA SoundPoolOnly ==
    ASSUME NEW bs, NEW m, NEW hd, Sound(bs, m, hd)
    PROVE  /\ Sound(bs, PoolOnly(m, bs), hd)
           /\ \A a \in Addresses : a <= RXEND_INIT => PoolOnly(m, bs)[a] = m[a]
<1>1. PICK s : PoolOK(bs, s)
  BY DEF Sound
<1>2. /\ Keeps(bs, m, PoolOnly(m, bs))
      /\ \A a \in Addresses : a <= RXEND_INIT => PoolOnly(m, bs)[a] = m[a]
  BY <1>1, PoolOnlyOK DEF Sound
<1> QED
  BY <1>2, SoundKeeps

LEMMA SoundRingOnly ==
    ASSUME NEW bs, NEW m, NEW hd, Sound(bs, m, hd), NEW from, NEW to
    PROVE  Sound(bs, RingOnly(m, from, to), hd)
<1>1. PICK s : PoolOK(bs, s)
  BY DEF Sound
<1>2. Keeps(bs, m, RingOnly(m, from, to))
  BY <1>1, RingOnlyKeeps DEF Sound
<1> QED
  BY <1>2, SoundKeeps

\* A socket has put bytes into a block that was free.
LEMMA SoundStored ==
    ASSUME NEW bs, NEW m, NEW hd, Sound(bs, m, hd), NEW size \in Nat \ {0},
           NEW a, IsAllocated(bs, m, size, a), ~ Spills(a), a.handle # NOBLOCK,
           NEW q \in Seq(Cellset), Len(q) \in 1 .. size, NEW owner \in {"in", "out"},
           owner = "in" => Len(q) = size
    PROVE  /\ Sound(a.blocks, InBlocks(a, q), [hd EXCEPT ![a.handle] = [owner |-> owner, bytes |-> q]])
           /\ Below(m, InBlocks(a, q))
<1> DEFINE h == a.handle
           nm == InBlocks(a, q)
           e == [owner |-> owner, bytes |-> q]
           nh == [hd EXCEPT ![h] = e]
<1>1. PICK s : PoolOK(bs, s)
  BY DEF Sound
<1>2. PICK t : PoolOK(a.blocks, t)
  BY DEF IsAllocated
<1>3. InMemory(a.blocks)
  BY <1>1, AllocInMemory DEF Sound
<1>4. /\ h \in Handles /\ a.blocks[h].size = size /\ a.mem \in Memory /\ Below(m, a.mem)
      /\ \A g \in Handles \ {h} : Carried(bs, m, a.blocks, a.mem, g)
  BY DEF IsAllocated, Below
<1>5. nm = Stored(a.mem, a.blocks[h].begin, q)
  BY DEF InBlocks
<1>6. e \in Holding /\ e.owner = owner /\ e.bytes = q
  BY DEF Holding
<1> HIDE DEF h, nm, e
<1>7. a.blocks[h].begin \in Nat /\ a.blocks[h].begin + 0 = a.blocks[h].begin
  <2>1. a.blocks[h].begin \in Nat
    BY <1>2, <1>4, BlockFacts
  <2> QED
    BY <2>1
<1>8. IsStored(a.blocks, a.mem, h, 0, q, nm)
  <2>1. 0 + Len(q) <= a.blocks[h].size /\ a.blocks[h].size > 0 /\ 0 \in Nat
    BY <1>4
  <2>2. nm = Stored(a.mem, a.blocks[h].begin + 0, q)
    BY <1>5, <1>7
  <2> QED
    BY <1>2, <1>3, <1>4, <2>1, <2>2, StoredOK
<1>9. nm \in Memory /\ Below(a.mem, nm)
      /\ \A g \in Handles \ {h} : Carried(a.blocks, a.mem, a.blocks, nm, g)
  BY <1>8 DEF IsStored
<1>10. \A x \in 1 .. Len(q) : nm[a.blocks[h].begin + x - 1] = q[x]
  <2>1. \A x \in 1 .. Len(q) : nm[a.blocks[h].begin + 0 + x - 1] = q[x]
    BY <1>8 DEF IsStored
  <2> QED
    BY <1>7, <2>1
<1>11. hd \in [Handles -> Holding]
  BY DEF Sound
<1>12. nh \in [Handles -> Holding] /\ nh[h] = e /\ \A g \in Handles \ {h} : nh[g] = hd[g]
  BY <1>4, <1>6, <1>11
<1> HIDE DEF nh
<1>13. ASSUME NEW g \in Handles
       PROVE  HoldsAt(a.blocks[g], nm, nh[g])
  <2>1. CASE g = h
    <3>1. a.blocks[g].size = size /\ nh[g] = e
      BY <1>4, <1>12, <2>1
    <3>2. e.owner # "none" /\ Len(e.bytes) \in 1 .. size /\ (e.owner = "in" => Len(e.bytes) = size)
      BY <1>6
    <3>3. \A x \in 1 .. Len(e.bytes) : nm[a.blocks[g].begin + x - 1] = e.bytes[x]
      BY <1>6, <1>10, <2>1
    <3> QED
      BY <3>1, <3>2, <3>3 DEF HoldsAt
  <2>2. CASE g # h
    <3>1. nh[g] = hd[g] /\ HoldsAt(bs[g], m, hd[g]) /\ hd[g] \in Holding
      BY <1>11, <1>12, <2>2 DEF Sound
    <3>2. bs[g].begin \in Nat /\ bs[g].size \in Nat /\ a.blocks[g].begin \in Nat
      BY <1>1, <1>2, BlockFacts
    <3>3. Carried(bs, m, a.blocks, a.mem, g) /\ Carried(a.blocks, a.mem, a.blocks, nm, g)
      BY <1>4, <1>9, <2>2
    <3>4. Carried(bs, m, a.blocks, nm, g)
      BY <3>2, <3>3, CarriedTwice
    <3> QED
      BY <3>1, <3>2, <3>4, HoldsCarried
  <2> QED
    BY <2>1, <2>2
<1>14. Below(m, nm)
  BY <1>4, <1>9 DEF Below
<1>15. Sound(a.blocks, nm, nh)
  BY <1>2, <1>3, <1>9, <1>12, <1>13 DEF Sound
<1> QED
  BY <1>14, <1>15 DEF nh, nm, h, e

\* Without a block, or where it would be past the end of the memory.
LEMMA SoundUnstored ==
    ASSUME NEW bs, NEW m, NEW hd, Sound(bs, m, hd), NEW size,
           NEW a, IsAllocated(bs, m, size, a), a.handle = NOBLOCK, NEW q
    PROVE  Sound(a.blocks, InBlocks(a, q), hd) /\ Below(m, InBlocks(a, q))
<1>1. PICK s : PoolOK(bs, s)
  BY DEF Sound
<1>2. PICK t : PoolOK(a.blocks, t)
  BY DEF IsAllocated
<1>3. ~ Spills(a) /\ InBlocks(a, q) = a.mem
  BY DEF Spills, InBlocks
<1>4. InMemory(a.blocks)
  BY <1>1, <1>3, AllocInMemory DEF Sound
<1>5. a.mem \in Memory /\ Below(m, a.mem) /\ \A h \in Handles : Carried(bs, m, a.blocks, a.mem, h)
  BY Constants DEF IsAllocated, Below
<1> QED
  BY <1>2, <1>3, <1>4, <1>5, SoundCarried

LEMMA SoundSent ==
    ASSUME NEW bs, NEW m, NEW hd, Sound(bs, m, hd), NEW data, NEW r, IsSent(bs, m, data, r),
           ~ r.spills
    PROVE  Sound(r.blocks, r.mem, hd) /\ Below(m, r.mem)
<1>1. PICK t : PoolOK(r.blocks, t)
  BY DEF IsSent
<1> QED
  BY <1>1, SoundCarried DEF IsSent

LEMMA EmptyOK == PoolOK(NoBlocks, <<POOLSTART>>)
<1> DEFINE n == NoBlocks
           s == <<POOLSTART>>
<1>1. n = [h \in Descriptors |->
            IF h = POOLSTART THEN [begin |-> MEMPOOL_STARTADDRESS, size |-> 0, nextblock |-> NOBLOCK]
            ELSE [begin |-> 0, size |-> 0, nextblock |-> NOBLOCK]]
  BY DEF NoBlocks, Free, Descriptors
<1>2. NOBLOCK \in Descriptors /\ NOBLOCK = POOLSTART
  BY Constants DEF NOBLOCK, POOLSTART
<1> HIDE DEF n
<1>3. n \in [Descriptors -> Descriptor]
  BY <1>1, <1>2, Constants DEF Descriptor
<1>4. s \in Seq(Descriptors) /\ Len(s) = 1 /\ s[1] = POOLSTART
  BY Constants
<1> HIDE DEF s
<1>5. Lists(n, s)
  BY <1>1, <1>4, Constants DEF Lists
<1>6. n[POOLSTART].begin = MEMPOOL_STARTADDRESS /\ n[POOLSTART].size = 0
  BY <1>1, Constants
<1>7. \A h \in Handles : n[h].size = 0
  BY <1>1, Constants
<1>8. InOrder(n, s)
  <2>1. End(n[POOLSTART]) <= PoolEnd
    BY <1>6, Constants DEF End
  <2>2. \A h \in Handles : ~ \E i \in 1 .. Len(s) : s[i] = h
    BY <1>4, Constants
  <2> QED
    BY <1>4, <1>6, <1>7, <2>1, <2>2 DEF InOrder
<1> QED
  BY <1>3, <1>5, <1>8 DEF PoolOK, n, s

LEMMA SoundEmpty ==
    ASSUME NEW m \in Memory
    PROVE  Sound(NoBlocks, m, [h \in Handles |-> NotHeld])
<1>1. \A h \in Handles : NoBlocks[h].size = 0
  BY Constants DEF NoBlocks, Free
<1>2. InMemory(NoBlocks)
  BY <1>1 DEF InMemory
<1>3. NotHeld \in Holding /\ NotHeld.owner = "none"
  BY DEF NotHeld, Holding
<1>4. \A h \in Handles : HoldsAt(NoBlocks[h], m, NotHeld)
  BY <1>1, <1>3 DEF HoldsAt
<1> QED
  BY <1>2, <1>3, <1>4, EmptyOK DEF Sound

\* nb is bs with block h made shorter, from either end.
IsShrunk(bs, h, nb) ==
    /\ nb \in [Descriptors -> Descriptor]
    /\ \A g \in Descriptors : nb[g].nextblock = bs[g].nextblock
    /\ \A g \in Descriptors \ {h} : nb[g].begin = bs[g].begin /\ nb[g].size = bs[g].size
    /\ bs[h].begin <= nb[h].begin /\ nb[h].size > 0
    /\ nb[h].begin + nb[h].size <= bs[h].begin + bs[h].size

LEMMA ShrunkOK ==
    ASSUME NEW bs, NEW s, PoolOK(bs, s), InMemory(bs), NEW h \in Handles, bs[h].size > 0,
           NEW nb, IsShrunk(bs, h, nb)
    PROVE  PoolOK(nb, s) /\ InMemory(nb)
<1>1. s \in Seq(Descriptors) /\ Len(s) \in Nat /\ bs \in [Descriptors -> Descriptor]
  BY DEF PoolOK, Lists
<1>2. h \in Descriptors /\ h # POOLSTART
  BY Constants
<1>3. \A g \in Descriptors :
        /\ bs[g].begin \in Nat /\ bs[g].size \in Nat /\ nb[g].begin \in Nat /\ nb[g].size \in Nat
        /\ End(bs[g]) = bs[g].begin + bs[g].size /\ End(nb[g]) = nb[g].begin + nb[g].size
        /\ End(bs[g]) \in Nat /\ End(nb[g]) \in Nat
  <2> TAKE g \in Descriptors
  <2>1. bs[g] \in Descriptor /\ nb[g] \in Descriptor
    BY <1>1 DEF IsShrunk
  <2> QED
    BY <2>1 DEF Descriptor, End
<1>4. \A g \in Descriptors : bs[g].begin <= nb[g].begin /\ End(nb[g]) <= End(bs[g])
  BY <1>2, <1>3 DEF IsShrunk
<1>5. \A g \in Descriptors : nb[g].size > 0 <=> bs[g].size > 0
  BY <1>2, <1>3 DEF IsShrunk
<1>6. \A i \in 1 .. Len(s) : s[i] \in Descriptors
  BY <1>1
<1>7. Lists(nb, s)
  <2>1. \A i \in 1 .. Len(s) : nb[s[i]].nextblock = bs[s[i]].nextblock
    BY <1>6 DEF IsShrunk
  <2> QED
    BY <2>1 DEF PoolOK, Lists
<1>8. InOrder(nb, s)
  <2>1. nb[POOLSTART].begin = MEMPOOL_STARTADDRESS /\ nb[POOLSTART].size = 0
    BY <1>2, Constants DEF PoolOK, InOrder, IsShrunk
  <2>2. ASSUME NEW i \in 1 .. Len(s), NEW j \in 1 .. Len(s), i < j
        PROVE  End(nb[s[i]]) <= nb[s[j]].begin
    <3>1. End(bs[s[i]]) <= bs[s[j]].begin
      BY <2>2 DEF PoolOK, InOrder
    <3>2. s[i] \in Descriptors /\ s[j] \in Descriptors
      BY <1>6
    <3>3. End(nb[s[i]]) <= End(bs[s[i]]) /\ bs[s[j]].begin <= nb[s[j]].begin
      BY <1>4, <3>2
    <3>4. End(nb[s[i]]) \in Nat /\ End(bs[s[i]]) \in Nat /\ bs[s[j]].begin \in Nat /\ nb[s[j]].begin \in Nat
      BY <1>3, <3>2
    <3> QED
      BY <3>1, <3>3, <3>4
  <2>3. ASSUME NEW i \in 1 .. Len(s)
        PROVE  End(nb[s[i]]) <= PoolEnd
    <3>1. End(bs[s[i]]) <= PoolEnd
      BY DEF PoolOK, InOrder
    <3>2. s[i] \in Descriptors
      BY <1>6
    <3>3. End(nb[s[i]]) <= End(bs[s[i]]) /\ End(nb[s[i]]) \in Nat /\ End(bs[s[i]]) \in Nat
      BY <1>3, <1>4, <3>2
    <3> QED
      BY <3>1, <3>3, Constants
  <2>4. \A g \in Handles : nb[g].size > 0 <=> \E i \in 1 .. Len(s) : s[i] = g
    BY <1>5, Constants DEF PoolOK, InOrder
  <2> QED
    BY <2>1, <2>2, <2>3, <2>4 DEF InOrder
<1>9. InMemory(nb)
  <2> SUFFICES ASSUME NEW g \in Handles, nb[g].size > 0
               PROVE  End(nb[g]) <= TXEND_INIT + 1
    BY DEF InMemory
  <2>1. g \in Descriptors
    BY Constants
  <2>2. End(bs[g]) <= TXEND_INIT + 1
    BY <1>5, <2>1 DEF InMemory
  <2>3. End(nb[g]) <= End(bs[g]) /\ End(nb[g]) \in Nat /\ End(bs[g]) \in Nat
    BY <1>3, <1>4, <2>1
  <2> QED
    BY <2>2, <2>3, Constants
<1> QED
  BY <1>7, <1>8, <1>9 DEF PoolOK, IsShrunk

LEMMA DescriptorUpdate ==
    ASSUME NEW r \in Descriptor, NEW b, NEW n
    PROVE  /\ [r EXCEPT !.begin = b, !.size = n] = [begin |-> b, size |-> n, nextblock |-> r.nextblock]
           /\ [r EXCEPT !.size = n] = [begin |-> r.begin, size |-> n, nextblock |-> r.nextblock]
<1> DEFINE u == [r EXCEPT !.begin = b]
<1>1. r = [begin |-> r.begin, size |-> r.size, nextblock |-> r.nextblock]
  BY DEF Descriptor
<1>2. u = [begin |-> b, size |-> r.size, nextblock |-> r.nextblock]
  BY <1>1
<1>3. [r EXCEPT !.begin = b, !.size = n] = [u EXCEPT !.size = n]
  BY Zenon
<1>4. [r EXCEPT !.size = n] = [begin |-> r.begin, size |-> n, nextblock |-> r.nextblock]
  BY <1>1
<1> HIDE DEF u
<1> QED
  BY <1>2, <1>3, <1>4

\* A socket has read the first n bytes of a block, and there are more.
LEMMA SoundRead ==
    ASSUME NEW bs, NEW m, NEW hd, Sound(bs, m, hd), NEW h \in Handles, hd[h].owner = "in",
           NEW n \in 1 .. Len(hd[h].bytes), n < Len(hd[h].bytes)
    PROVE  Sound(resizeBlock(bs, h, n), m,
                 [hd EXCEPT ![h] = [owner |-> "in",
                                    bytes |-> SubSeq(hd[h].bytes, n + 1, Len(hd[h].bytes))]])
<1> DEFINE nb == resizeBlock(bs, h, n)
           q == hd[h].bytes
           left == SubSeq(q, n + 1, Len(q))
           e == [owner |-> "in", bytes |-> left]
           nh == [hd EXCEPT ![h] = e]
<1>1. PICK s : PoolOK(bs, s)
  BY DEF Sound
<1>2. hd \in [Handles -> Holding] /\ InMemory(bs) /\ m \in Memory
  BY DEF Sound
<1>3. q \in Seq(Cellset) /\ Len(q) \in Nat
  BY <1>2 DEF Holding
<1>4. bs[h].size = Len(q) /\ \A x \in 1 .. Len(q) : m[bs[h].begin + x - 1] = q[x]
  BY DEF Sound, HoldsAt
<1>5. bs \in [Descriptors -> Descriptor] /\ h \in Descriptors
  BY <1>1, Constants DEF PoolOK
<1>6. bs[h] \in Descriptor /\ bs[h].begin \in Nat /\ bs[h].size \in Nat /\ bs[h].nextblock \in Descriptors
  BY <1>5 DEF Descriptor
<1>7. nb = [bs EXCEPT ![h] = [begin |-> bs[h].begin + n, size |-> bs[h].size - n,
                              nextblock |-> bs[h].nextblock]]
  <2>1. nb = [bs EXCEPT ![h] = [bs[h] EXCEPT !.begin = bs[h].begin + n, !.size = bs[h].size - n]]
    BY Zenon DEF resizeBlock
  <2>2. [bs[h] EXCEPT !.begin = bs[h].begin + n, !.size = bs[h].size - n]
          = [begin |-> bs[h].begin + n, size |-> bs[h].size - n, nextblock |-> bs[h].nextblock]
    <3> DEFINE r == bs[h]
               x == bs[h].begin + n
               y == bs[h].size - n
    <3> HIDE DEF r, x, y
    <3>1. [r EXCEPT !.begin = x, !.size = y] = [begin |-> x, size |-> y, nextblock |-> r.nextblock]
      BY <1>6, DescriptorUpdate, Zenon DEF r
    <3> QED
      BY <3>1, Zenon DEF r, x, y
  <2> QED
    BY <2>1, <2>2, Zenon
<1> HIDE DEF nb, q
<1>8. /\ nb[h].begin = bs[h].begin + n /\ nb[h].size = bs[h].size - n
      /\ nb[h].nextblock = bs[h].nextblock
      /\ \A g \in Descriptors \ {h} : nb[g] = bs[g]
  BY <1>5, <1>7
<1>9. n \in Nat /\ n >= 1 /\ n < Len(q)
  BY <1>3 DEF q
<1>10. nb \in [Descriptors -> Descriptor]
  <2>1. [begin |-> bs[h].begin + n, size |-> bs[h].size - n, nextblock |-> bs[h].nextblock] \in Descriptor
    BY <1>4, <1>6, <1>9 DEF Descriptor
  <2> QED
    BY <1>5, <1>7, <2>1
<1>11. IsShrunk(bs, h, nb)
  <2>1. /\ bs[h].begin <= nb[h].begin /\ nb[h].size > 0
        /\ nb[h].begin + nb[h].size <= bs[h].begin + bs[h].size
    BY <1>3, <1>4, <1>6, <1>8, <1>9
  <2>2. \A g \in Descriptors : nb[g].nextblock = bs[g].nextblock
    BY <1>8
  <2>3. \A g \in Descriptors \ {h} : nb[g].begin = bs[g].begin /\ nb[g].size = bs[g].size
    BY <1>8
  <2> QED
    BY <1>10, <2>1, <2>2, <2>3 DEF IsShrunk
<1>12. PoolOK(nb, s) /\ InMemory(nb)
  BY <1>1, <1>2, <1>4, <1>9, <1>11, ShrunkOK
<1>13. left \in Seq(Cellset) /\ Len(left) = Len(q) - n /\ \A x \in 1 .. Len(q) - n : left[x] = q[n + x]
  BY <1>3, <1>9
<1> HIDE DEF left
<1>14. e \in Holding /\ e.owner = "in" /\ e.bytes = left
  BY <1>13 DEF Holding
<1> HIDE DEF e
<1>15. nh \in [Handles -> Holding] /\ nh[h] = e /\ \A g \in Handles \ {h} : nh[g] = hd[g]
  BY <1>2, <1>14
<1> HIDE DEF nh
<1>16. ASSUME NEW g \in Handles
       PROVE  HoldsAt(nb[g], m, nh[g])
  <2>1. CASE g = h
    <3>1. ASSUME NEW x \in 1 .. Len(left)
          PROVE  m[nb[h].begin + x - 1] = left[x]
      <4>1. n + x \in 1 .. Len(q) /\ nb[h].begin + x - 1 = bs[h].begin + (n + x) - 1
        BY <1>3, <1>6, <1>8, <1>9, <1>13
      <4>2. m[bs[h].begin + (n + x) - 1] = q[n + x]
        BY <1>4, <4>1
      <4> QED
        BY <1>13, <4>1, <4>2
    <3>2. nb[h].size = Len(left) /\ nb[h].size # 0
      BY <1>3, <1>4, <1>8, <1>9, <1>13
    <3> QED
      BY <1>14, <1>15, <2>1, <3>1, <3>2 DEF HoldsAt
  <2>2. CASE g # h
    BY <1>8, <1>15, <2>2, Constants DEF Sound
  <2> QED
    BY <2>1, <2>2
<1>17. Sound(nb, m, nh)
  BY <1>2, <1>12, <1>15, <1>16 DEF Sound
<1> QED
  BY <1>17 DEF nh, e, left, q, nb

\* The block a socket has written is cut to what was written.
LEMMA SoundCut ==
    ASSUME NEW bs, NEW m, NEW hd, Sound(bs, m, hd), NEW h \in Handles, hd[h].owner = "out"
    PROVE  /\ Sound(cutBlock(bs, h, Len(hd[h].bytes)), m, hd)
           /\ cutBlock(bs, h, Len(hd[h].bytes))[h].size = Len(hd[h].bytes)
           /\ Len(hd[h].bytes) > 0
<1> DEFINE q == hd[h].bytes
           nb == cutBlock(bs, h, Len(q))
<1>1. PICK s : PoolOK(bs, s)
  BY DEF Sound
<1>2. hd \in [Handles -> Holding] /\ InMemory(bs) /\ m \in Memory
  BY DEF Sound
<1>3. q \in Seq(Cellset) /\ Len(q) \in Nat
  BY <1>2 DEF Holding
<1>4. Len(q) \in 1 .. bs[h].size
  BY DEF Sound, HoldsAt
<1>5. bs \in [Descriptors -> Descriptor] /\ h \in Descriptors
  BY <1>1, Constants DEF PoolOK
<1>6. bs[h] \in Descriptor /\ bs[h].begin \in Nat /\ bs[h].size \in Nat /\ bs[h].nextblock \in Descriptors
  BY <1>5 DEF Descriptor
<1>7. nb = [bs EXCEPT ![h] = [begin |-> bs[h].begin, size |-> Len(q),
                              nextblock |-> bs[h].nextblock]]
  <2>1. nb = [bs EXCEPT ![h] = [bs[h] EXCEPT !.size = Len(q)]]
    BY <1>5 DEF cutBlock
  <2> QED
    BY <1>6, <2>1, DescriptorUpdate
<1> HIDE DEF nb, q
<1>8. /\ nb[h].begin = bs[h].begin /\ nb[h].size = Len(q)
      /\ nb[h].nextblock = bs[h].nextblock
      /\ \A g \in Descriptors \ {h} : nb[g] = bs[g]
  BY <1>5, <1>7
<1>9. nb \in [Descriptors -> Descriptor]
  <2>1. [begin |-> bs[h].begin, size |-> Len(q), nextblock |-> bs[h].nextblock] \in Descriptor
    BY <1>3, <1>6 DEF Descriptor
  <2> QED
    BY <1>5, <1>7, <2>1
<1>10. IsShrunk(bs, h, nb)
  BY <1>3, <1>4, <1>6, <1>8, <1>9 DEF IsShrunk
<1>11. bs[h].size > 0
  BY <1>3, <1>4, <1>6
<1>12. PoolOK(nb, s) /\ InMemory(nb)
  BY <1>1, <1>2, <1>10, <1>11, ShrunkOK
<1>13. ASSUME NEW g \in Handles
       PROVE  HoldsAt(nb[g], m, hd[g])
  <2>1. CASE g = h
    <3>1. \A x \in 1 .. Len(q) : m[nb[h].begin + x - 1] = q[x]
      BY <1>8 DEF Sound, HoldsAt, q
    <3> QED
      BY <1>3, <1>4, <1>8, <2>1, <3>1 DEF HoldsAt, q
  <2>2. CASE g # h
    BY <1>8, <2>2, Constants DEF Sound
  <2> QED
    BY <2>1, <2>2
<1>14. Sound(nb, m, hd)
  BY <1>2, <1>12, <1>13 DEF Sound
<1> QED
  BY <1>3, <1>4, <1>8, <1>14 DEF nb, q

\* A block is given back.
LEMMA SoundFreed ==
    ASSUME NEW bs, NEW m, NEW hd, Sound(bs, m, hd), NEW h \in Handles, hd[h].owner # "none"
    PROVE  Sound(freeBlock(bs, h), m, [hd EXCEPT ![h] = NotHeld])
<1> DEFINE nb == freeBlock(bs, h)
           nh == [hd EXCEPT ![h] = NotHeld]
<1>1. PICK s : PoolOK(bs, s)
  BY DEF Sound
<1>2. hd \in [Handles -> Holding] /\ InMemory(bs) /\ m \in Memory
  BY DEF Sound
<1>3. bs[h].size > 0
  <2>1. bs[h].size \in Nat /\ bs[h].size # 0
    BY <1>1, BlockFacts DEF Sound, HoldsAt
  <2> QED
    BY <2>1
<1>4. PICK t : PoolOK(nb, t)
  BY <1>1, <1>3, FreeOK
<1>5. /\ nb[h].size = 0
      /\ \A g \in Handles \ {h} : nb[g].begin = bs[g].begin /\ nb[g].size = bs[g].size
  BY <1>1, <1>3, FreeOK
<1> HIDE DEF nb
<1>6. InMemory(nb)
  <2>1. \A g \in Handles \ {h} : End(nb[g]) = End(bs[g])
    BY <1>5 DEF End
  <2> QED
    BY <1>2, <1>5, <2>1 DEF InMemory
<1>7. NotHeld \in Holding /\ NotHeld.owner = "none"
  BY DEF NotHeld, Holding
<1>8. nh \in [Handles -> Holding] /\ nh[h] = NotHeld /\ \A g \in Handles \ {h} : nh[g] = hd[g]
  BY <1>2, <1>7
<1> HIDE DEF nh
<1>9. ASSUME NEW g \in Handles
      PROVE  HoldsAt(nb[g], m, nh[g])
  <2>1. CASE g = h
    BY <1>5, <1>7, <1>8, <2>1 DEF HoldsAt
  <2>2. CASE g # h
    <3>1. HoldsAt(bs[g], m, hd[g]) /\ nh[g] = hd[g] /\ nb[g].begin = bs[g].begin /\ nb[g].size = bs[g].size
      BY <1>5, <1>8, <2>2 DEF Sound
    <3> QED
      BY <3>1 DEF HoldsAt
  <2> QED
    BY <2>1, <2>2
<1>10. Sound(nb, m, nh)
  BY <1>2, <1>4, <1>6, <1>8, <1>9 DEF Sound
<1> QED
  BY <1>10 DEF nb, nh

-----------------------------------------------------------------------------
(***************************************************************************)
(* The bank registers                                                      *)
(***************************************************************************)
Selected(bank, chip) == [bank |-> bank, chip |-> chip, missed |-> FALSE]

\* The driver's copy is the chip's bank, or says that it knows of none.
RegsOK(r) == r = Selected(255, 0) \/ \E k \in 0 .. 3 : r = Selected(k, k)

LEMMA AccessIs ==
    ASSUME NEW bank, NEW chip, NEW k, bank = k => chip = k
    PROVE  Access(Selected(bank, chip), k) = Selected(k, k)
<1> DEFINE r == Selected(bank, chip)
           s == setBank(r, k)
<1>1. s = Selected(k, k)
  BY DEF setBank, Selected
<1>2. Access(r, k) = [s EXCEPT !.missed = s.missed \/ s.chip # k]
  BY Zenon DEF Access
<1> HIDE DEF s
<1>3. s.missed = FALSE /\ s.chip = k
  BY <1>1 DEF Selected
<1>4. (s.missed \/ s.chip # k) = FALSE
  BY <1>3
<1>5. Access(r, k) = [s EXCEPT !.missed = FALSE]
  BY <1>2, <1>4
<1> QED
  BY <1>1, <1>5 DEF Selected

LEMMA AccessesIs ==
    ASSUME NEW r, NEW banks \in Seq(0 .. 3), Len(banks) >= 1,
           Access(r, banks[1]) = Selected(banks[1], banks[1])
    PROVE  Accesses(r, banks) = Selected(banks[Len(banks)], banks[Len(banks)])
<1> DEFINE m == Len(banks)
           At(n) == Selected(banks[n], banks[n])
           IsWalk(w) == w = [n \in 0 .. m |-> IF n = 0 THEN r ELSE Access(w[n - 1], banks[n])]
           f == [n \in 0 .. m |-> IF n = 0 THEN r ELSE At(n)]
<1>1. m \in Nat /\ m >= 1 /\ \A n \in 1 .. m : banks[n] \in 0 .. 3
  OBVIOUS
<1>2. \A n \in 2 .. m : Access(At(n - 1), banks[n]) = At(n)
  BY AccessIs
<1> HIDE DEF At
<1>3. Access(r, banks[1]) = At(1)
  BY DEF At
<1>4. f[0] = r /\ \A n \in 1 .. m : f[n] = At(n)
  BY <1>1
<1> HIDE DEF m
<1>5. \A n \in 0 .. m : f[n] = IF n = 0 THEN r ELSE Access(f[n - 1], banks[n])
  <2> SUFFICES ASSUME NEW n \in 0 .. m
               PROVE  f[n] = IF n = 0 THEN r ELSE Access(f[n - 1], banks[n])
    OBVIOUS
  <2> HIDE DEF f
  <2>1. CASE n = 0
    BY <1>4, <2>1
  <2>2. CASE n = 1
    <3>1. n - 1 = 0 /\ n # 0 /\ n \in 1 .. m
      BY <1>1, <2>2
    <3> QED
      BY <1>3, <1>4, <2>2, <3>1
  <2>3. CASE n # 0 /\ n # 1
    <3>1. n - 1 \in 1 .. m /\ n \in 2 .. m /\ n \in 1 .. m
      BY <1>1, <2>3
    <3> QED
      BY <1>2, <1>4, <2>3, <3>1
  <2> QED
    BY <2>1, <2>2, <2>3
<1>6. IsWalk(f)
  BY <1>5, Zenon
<1> DEFINE w == CHOOSE w : IsWalk(w)
<1>7. IsWalk(w)
  BY <1>6, Zenon
<1>8. Accesses(r, banks) = w[m]
  BY Zenon DEF Accesses, m
<1> HIDE DEF w, f
<1>9. \A n \in 0 .. m : w[n] = IF n = 0 THEN r ELSE Access(w[n - 1], banks[n])
  BY <1>7, Zenon
<1>10. w[0] = r /\ \A n \in 1 .. m : w[n] = Access(w[n - 1], banks[n])
  <2>1. 0 \in 0 .. m /\ \A n \in 1 .. m : n \in 0 .. m /\ n # 0
    BY <1>1
  <2> QED
    BY <1>9, <2>1, Zenon
<1>11. \A n \in 1 .. m : w[n] = At(n)
  <2> DEFINE T == {n \in 1 .. m : w[n] # At(n)}
  <2> SUFFICES ASSUME T # {} PROVE FALSE
    OBVIOUS
  <2>1. PICK n \in T : \A k \in T : n =< k
    <3>1. T \subseteq Nat
      BY <1>1
    <3> HIDE DEF T
    <3> QED
      BY <3>1, Least, Zenon
  <2>2. n # 1
    <3>1. 1 - 1 = 0 /\ 1 \in 1 .. m
      BY <1>1
    <3>2. w[1] = Access(w[1 - 1], banks[1])
      BY <1>10, <3>1, Zenon
    <3> QED
      BY <1>3, <1>10, <3>1, <3>2
  <2>3. n \in 1 .. m /\ n \in 2 .. m /\ n - 1 \in 1 .. m /\ ~ (n =< n - 1)
    BY <1>1, <2>2
  <2>4. w[n - 1] = At(n - 1)
    BY <2>1, <2>3, Zenon
  <2>5. w[n] = At(n)
    BY <1>2, <1>10, <2>3, <2>4, Zenon
  <2> QED
    BY <2>5
<1>12. m \in 1 .. m
  BY <1>1
<1> QED
  BY <1>8, <1>11, <1>12 DEF At, m

LEMMA RegsSelected ==
    ASSUME NEW k \in 0 .. 3
    PROVE  RegsOK(Selected(k, k))
  BY Zenon DEF RegsOK

LEMMA RegsAre ==
    ASSUME NEW r, RegsOK(r)
    PROVE  \E bank \in {0, 1, 2, 3, 255}, chip \in 0 .. 3 :
                r = Selected(bank, chip) /\ (bank \in 0 .. 3 => bank = chip)
<1>1. CASE r = Selected(255, 0)
  <2>1. 255 \in {0, 1, 2, 3, 255} /\ 0 \in 0 .. 3 /\ 255 \notin 0 .. 3
    OBVIOUS
  <2> QED
    BY <1>1, <2>1, Zenon
<1>2. CASE \E k \in 0 .. 3 : r = Selected(k, k)
  <2>1. PICK k \in 0 .. 3 : r = Selected(k, k)
    BY <1>2
  <2>2. k \in {0, 1, 2, 3, 255}
    OBVIOUS
  <2> QED
    BY <2>1, <2>2
<1> QED
  BY <1>1, <1>2 DEF RegsOK

\* A sequence of register accesses ends in the bank of the last one.
LEMMA RegsAccesses ==
    ASSUME NEW r, RegsOK(r), NEW banks \in Seq(0 .. 3), Len(banks) >= 1
    PROVE  RegsOK(Accesses(r, banks)) /\ RegsOK(Access(r, banks[1]))
<1>1. PICK bank \in {0, 1, 2, 3, 255}, chip \in 0 .. 3 :
        r = Selected(bank, chip) /\ (bank \in 0 .. 3 => bank = chip)
  BY RegsAre
<1>2. banks[1] \in 0 .. 3 /\ banks[Len(banks)] \in 0 .. 3
  OBVIOUS
<1>3. Access(r, banks[1]) = Selected(banks[1], banks[1])
  BY <1>1, <1>2, AccessIs
<1> QED
  BY <1>2, <1>3, AccessesIs, RegsSelected

LEMMA RegsAccess ==
    ASSUME NEW r, RegsOK(r), NEW k \in 0 .. 3
    PROVE  RegsOK(Access(r, k))
<1>1. PICK bank \in {0, 1, 2, 3, 255}, chip \in 0 .. 3 :
        r = Selected(bank, chip) /\ (bank \in 0 .. 3 => bank = chip)
  BY RegsAre
<1>2. Access(r, k) = Selected(k, k)
  BY <1>1, AccessIs
<1> QED
  BY <1>2, RegsSelected

\* The soft reset, a register access without setBank, and setBank alone.
LEMMA SelectedReset ==
    ASSUME NEW bank, NEW chip, NEW s, s = Selected(bank, chip), NEW u, u = [s EXCEPT !.chip = 0]
    PROVE  u = Selected(bank, 0)
  BY DEF Selected

LEMMA SelectedRaw ==
    ASSUME NEW bank, NEW chip, NEW s, s = Selected(bank, chip), NEW u, u = [s EXCEPT !.missed = FALSE]
    PROVE  u = Selected(bank, chip)
  BY DEF Selected

LEMMA SelectedSet ==
    ASSUME NEW bank, NEW chip, NEW k, k # bank
    PROVE  setBank(Selected(bank, chip), k) = Selected(k, k)
  BY DEF setBank, Selected

\* Also after a reset of which the driver's copy knows nothing.
LEMMA RegsInit ==
    ASSUME NEW r, RegsOK(r)
    PROVE  RegsOK(InitRegisters(r))
<1>1. PICK bank \in {0, 1, 2, 3, 255}, chip \in 0 .. 3 :
        r = Selected(bank, chip) /\ (bank \in 0 .. 3 => bank = chip)
  BY RegsAre
<1> DEFINE a == <<0, 0, 0, 1, 1, 1, 2>>
           b == <<2, 2, 2, 3, 2, 2, 3>>
           c == <<2, 2, 3>>
           reset == [r EXCEPT !.chip = 0]
           mac == RawAccess(Accesses(reset, a), 2)
           phy == setBank(Accesses(mac, b), 0)
<1>2. /\ a \in Seq(0 .. 3) /\ Len(a) = 7 /\ a[1] = 0 /\ a[7] = 2
      /\ b \in Seq(0 .. 3) /\ Len(b) = 7 /\ b[1] = 2 /\ b[7] = 3
      /\ c \in Seq(0 .. 3) /\ Len(c) = 3 /\ c[1] = 2 /\ c[3] = 3
  OBVIOUS
<1>3. InitRegisters(r) = Accesses(phy, c)
  BY Zenon DEF InitRegisters
<1> HIDE DEF a, b, c
<1>4. reset = Selected(bank, 0)
  <2> HIDE DEF reset
  <2>1. reset = [r EXCEPT !.chip = 0]
    BY DEF reset
  <2>2. r = Selected(bank, chip)
    BY <1>1
  <2> QED
    BY <2>1, <2>2, SelectedReset, Zenon
<1> HIDE DEF reset
<1>5. Access(reset, 0) = Selected(0, 0)
  BY <1>4, AccessIs
<1>6. Accesses(reset, a) = Selected(2, 2)
  <2>2. a[Len(a)] = 2 /\ Len(a) >= 1 /\ a \in Seq(0 .. 3)
    BY <1>2
  <2>1. Access(reset, a[1]) = Selected(a[1], a[1])
    BY <1>2, <1>5
  <2> QED
    BY <2>1, <2>2, AccessesIs
<1>7. mac = Selected(2, 2)
  <2> DEFINE s == Accesses(reset, a)
  <2> HIDE DEF s
  <2>1. s.missed = FALSE /\ s.chip = 2
    BY <1>6 DEF Selected, s
  <2>2. (s.missed \/ s.chip # 2) = FALSE /\ 0 # 2
    BY <2>1
  <2>3. mac = [s EXCEPT !.missed = FALSE]
    BY <2>2 DEF RawAccess, s
  <2> HIDE DEF mac
  <2>4. s = Selected(2, 2)
    BY <1>6 DEF s
  <2> QED
    BY <2>3, <2>4, SelectedRaw
<1> HIDE DEF mac
<1>8. Access(mac, 2) = Selected(2, 2)
  BY <1>7, AccessIs
<1>9. Accesses(mac, b) = Selected(3, 3)
  <2>2. b[Len(b)] = 3 /\ Len(b) >= 1 /\ b \in Seq(0 .. 3)
    BY <1>2
  <2>1. Access(mac, b[1]) = Selected(b[1], b[1])
    BY <1>2, <1>8
  <2> QED
    BY <2>1, <2>2, AccessesIs
<1>10. phy = Selected(0, 0)
  <2>1. 0 # 3
    OBVIOUS
  <2> QED
    BY <1>9, <2>1, SelectedSet
<1> HIDE DEF phy
<1>11. Access(phy, 2) = Selected(2, 2)
  <2>1. 0 = 2 => 0 = 2
    OBVIOUS
  <2> QED
    BY <1>10, <2>1, AccessIs
<1>12. Accesses(phy, c) = Selected(3, 3)
  <2>2. c[Len(c)] = 3 /\ Len(c) >= 1 /\ c \in Seq(0 .. 3)
    BY <1>2
  <2>1. Access(phy, c[1]) = Selected(c[1], c[1])
    BY <1>2, <1>11
  <2> QED
    BY <2>1, <2>2, AccessesIs
<1>13. 3 \in 0 .. 3
  OBVIOUS
<1> QED
  BY <1>3, <1>12, <1>13, RegsSelected

-----------------------------------------------------------------------------
(***************************************************************************)
(* The receive ring                                                        *)
(***************************************************************************)
LEMMA RingSizeIs ==
    /\ RingSize \in Nat /\ RingSize = RXEND_INIT + 1 /\ RingSize >= 2 /\ RingSize % 2 = 0
    /\ RXEND_INIT \in Nat /\ RXSTART_INIT = 0
<1>1. RXEND_INIT \in Nat /\ RXEND_INIT % 2 = 1
  BY MemoryAssumption
<1>2. RingSize = RXEND_INIT + 1 /\ RXSTART_INIT = 0
  BY <1>1 DEF RingSize, RXSTART_INIT
<1> QED
  BY <1>1, <1>2

LEMMA RingIn ==
    ASSUME NEW x \in Nat
    PROVE  /\ Ring(x) \in 0 .. RXEND_INIT /\ Ring(x) \in Addresses
           /\ x < RingSize => Ring(x) = x
           /\ x >= RingSize /\ x < RingSize + RingSize => Ring(x) = x - RingSize
<1> DEFINE r == RingSize
<1>1. r \in Nat /\ r >= 2 /\ r = RXEND_INIT + 1 /\ RXEND_INIT \in Nat
  BY RingSizeIs
<1>2. Ring(x) = x % r
  BY DEF Ring
<1> HIDE DEF r
<1>3. x % r \in 0 .. r - 1
  BY <1>1
<1>4. x < r => x % r = x
  BY <1>1
<1>5. x >= r /\ x < r + r => x % r = x - r
  <2> SUFFICES ASSUME x >= r, x < r + r PROVE x % r = x - r
    OBVIOUS
  <2>1. x = r * 1 + (x - r) /\ x - r \in 0 .. r - 1
    BY <1>1
  <2> QED
    BY <1>1, <2>1
<1>6. x % r \in 0 .. RXEND_INIT
  BY <1>1, <1>3
<1>7. x % r \in Addresses
  BY <1>1, <1>6, Constants DEF Addresses
<1> QED
  BY <1>2, <1>4, <1>5, <1>6, <1>7 DEF r

\* x and y bytes behind p: from the one to the other.
LEMMA RingDistance ==
    ASSUME NEW p \in 0 .. RXEND_INIT, NEW x \in 0 .. RXEND_INIT, NEW y \in 0 .. RXEND_INIT
    PROVE  /\ Ring(p) = p
           /\ Ring(p + x) = IF p + x <= RXEND_INIT THEN p + x ELSE p + x - RingSize
           /\ Ring(Ring(p + x) + RingSize - Ring(p + y)) = IF x >= y THEN x - y ELSE RingSize + x - y
           /\ Ring(Ring(p + x) + RingSize - p) = x
<1> DEFINE r == RingSize
           a == Ring(p + x)
           b == Ring(p + y)
<1>1. r \in Nat /\ r >= 2 /\ r = RXEND_INIT + 1 /\ RXEND_INIT \in Nat
  BY RingSizeIs
<1>2. p \in Nat /\ x \in Nat /\ y \in Nat /\ p < r /\ x < r /\ y < r
  BY <1>1
<1>3. p + x \in Nat /\ p + y \in Nat
  BY <1>2
<1>4. a = IF p + x < r THEN p + x ELSE p + x - r
  BY <1>1, <1>2, <1>3, RingIn
<1>5. b = IF p + y < r THEN p + y ELSE p + y - r
  BY <1>1, <1>2, <1>3, RingIn
<1>6. Ring(p) = p
  BY <1>2, RingIn
<1> HIDE DEF a, b
<1>7. a \in 0 .. r - 1 /\ b \in 0 .. r - 1
  BY <1>1, <1>2, <1>4, <1>5
<1>8. ASSUME NEW u \in 0 .. r - 1, NEW v \in 0 .. r - 1
      PROVE  Ring(u + r - v) = IF u >= v THEN u - v ELSE u + r - v
  <2> DEFINE z == u + r - v
  <2>1. z \in Nat /\ z < r + r
    BY <1>1
  <2> HIDE DEF z
  <2>2. z < r => Ring(z) = z
    BY <2>1, RingIn
  <2>3. z >= r => Ring(z) = z - r
    BY <2>1, RingIn
  <2> HIDE DEF r
  <2> USE DEF z
  <2> QED
    BY <1>1, <2>1, <2>2, <2>3
<1>9. Ring(a + r - b) = IF a >= b THEN a - b ELSE a + r - b
  BY <1>7, <1>8
<1>10. Ring(a + r - p) = IF a >= p THEN a - p ELSE a + r - p
  <2>1. p \in 0 .. r - 1
    BY <1>1
  <2> QED
    BY <1>7, <1>8, <2>1
<1> HIDE DEF r
<1>11. Ring(a + r - b) = IF x >= y THEN x - y ELSE r + x - y
  BY <1>1, <1>2, <1>4, <1>5, <1>9
<1>12. Ring(a + r - p) = x
  BY <1>1, <1>2, <1>4, <1>10
<1>13. a = IF p + x <= RXEND_INIT THEN p + x ELSE p + x - r
  BY <1>1, <1>2, <1>4
<1> QED
  BY <1>6, <1>11, <1>12, <1>13 DEF a, b, r

\* A status vector at x that leads to the one at y.
Slot(m, x, y) ==
    /\ m[Ring(x)].kind = "next" /\ m[Ring(x)].i = Ring(y)
    /\ m[Ring(x + 1)].len - CrcLen \in Nat

\* The stored frames begin off[0], off[1] ... bytes behind the one that the
\* driver takes next, and the chip stores the next one off[cnt] bytes behind.
Offsets(off, cnt) ==
    /\ off \in [0 .. cnt -> Nat] /\ off[0] = 0
    /\ \A i \in 0 .. cnt : off[i] % 2 = 0
    /\ \A i, j \in 0 .. cnt : i < j => off[i] + VectorLen <= off[j]

\* ERXRDPT is lead bytes before the frame that the driver takes next.
RingAt(m, p, cnt, wr, rd, off, lead) ==
    /\ p \in 0 .. RXEND_INIT /\ cnt \in Nat /\ lead \in Nat
    /\ Offsets(off, cnt)
    /\ lead + off[cnt] <= RXEND_INIT
    /\ wr = Ring(p + off[cnt]) /\ rd = Ring(p + RingSize - lead)
    /\ \A n \in 0 .. cnt - 1 : Slot(m, p + off[n], p + off[n + 1])

RingOK(m, p, cnt, wr, rd) == \E off, lead : RingAt(m, p, cnt, wr, rd, off, lead)

LEMMA RingFacts ==
    ASSUME NEW m, NEW p, NEW cnt, NEW wr, NEW rd, NEW off, NEW lead,
           RingAt(m, p, cnt, wr, rd, off, lead)
    PROVE  /\ p \in Nat /\ p <= RXEND_INIT /\ cnt \in Nat /\ cnt \in 0 .. cnt /\ 0 \in 0 .. cnt
           /\ lead \in Nat /\ lead + off[cnt] <= RXEND_INIT
           /\ \A n \in 0 .. cnt : /\ off[n] \in Nat /\ off[n] <= off[cnt] /\ off[n] <= RXEND_INIT
                                  /\ off[n] \in 0 .. RXEND_INIT
                                  /\ n # cnt => /\ off[n] + VectorLen <= off[cnt]
                                                /\ off[n] + 1 \in 0 .. RXEND_INIT
                                                /\ off[n] + 1 < off[cnt]
           /\ wr \in 0 .. RXEND_INIT /\ rd \in 0 .. RXEND_INIT
<1>1. /\ p \in Nat /\ p <= RXEND_INIT /\ cnt \in Nat /\ lead \in Nat
      /\ RXEND_INIT \in Nat /\ VectorLen \in Nat /\ VectorLen >= 2
      /\ RingSize \in Nat /\ RingSize = RXEND_INIT + 1
  BY RingSizeIs, FrameConstants DEF RingAt
<1>2. cnt \in 0 .. cnt /\ 0 \in 0 .. cnt
  BY <1>1
<1>3. lead + off[cnt] <= RXEND_INIT /\ off \in [0 .. cnt -> Nat]
  BY DEF RingAt, Offsets
<1>4. off[cnt] \in Nat /\ off[cnt] <= RXEND_INIT
  BY <1>1, <1>2, <1>3
<1>5. ASSUME NEW n \in 0 .. cnt
      PROVE  /\ off[n] \in Nat /\ off[n] <= off[cnt] /\ off[n] <= RXEND_INIT
             /\ off[n] \in 0 .. RXEND_INIT
             /\ n # cnt => /\ off[n] + VectorLen <= off[cnt]
                           /\ off[n] + 1 \in 0 .. RXEND_INIT
                           /\ off[n] + 1 < off[cnt]
  <2>1. off[n] \in Nat
    BY <1>3
  <2>2. n < cnt => off[n] + VectorLen <= off[cnt]
    BY <1>2 DEF RingAt, Offsets
  <2>3. n = cnt \/ n < cnt
    BY <1>1
  <2> QED
    BY <1>1, <1>4, <2>1, <2>2, <2>3
<1>6. wr \in 0 .. RXEND_INIT
  <2>1. p + off[cnt] \in Nat
    BY <1>1, <1>4
  <2> QED
    BY <2>1, RingIn DEF RingAt
<1>7. rd \in 0 .. RXEND_INIT
  <2>1. p + RingSize - lead \in Nat
    BY <1>1, <1>3, <1>4
  <2> QED
    BY <2>1, RingIn DEF RingAt
<1> QED
  BY <1>1, <1>2, <1>3, <1>5, <1>6, <1>7

\* Nothing changes while the ring stays as it is.
LEMMA RingSame ==
    ASSUME NEW m, NEW p, NEW cnt, NEW wr, NEW rd, NEW off, NEW lead,
           RingAt(m, p, cnt, wr, rd, off, lead), NEW nm,
           \A n \in 0 .. cnt - 1 : /\ nm[Ring(p + off[n])] = m[Ring(p + off[n])]
                                   /\ nm[Ring(p + off[n] + 1)] = m[Ring(p + off[n] + 1)]
    PROVE  RingAt(nm, p, cnt, wr, rd, off, lead)
<1>1. \A n \in 0 .. cnt - 1 : Slot(nm, p + off[n], p + off[n + 1])
  BY DEF RingAt, Slot
<1> QED
  BY <1>1 DEF RingAt

LEMMA RingBelow ==
    ASSUME NEW m, NEW p, NEW cnt, NEW wr, NEW rd, RingOK(m, p, cnt, wr, rd), NEW nm,
           \A a \in Addresses : a <= RXEND_INIT => nm[a] = m[a]
    PROVE  RingOK(nm, p, cnt, wr, rd)
<1>1. PICK off, lead : RingAt(m, p, cnt, wr, rd, off, lead)
  BY DEF RingOK
<1>2. ASSUME NEW x \in Nat
      PROVE  nm[Ring(x)] = m[Ring(x)]
  <2>1. Ring(x) \in Addresses /\ Ring(x) <= RXEND_INIT
    BY RingIn, RingSizeIs
  <2> QED
    BY <2>1
<1>3. \A n \in 0 .. cnt - 1 : p + off[n] \in Nat /\ p + off[n] + 1 \in Nat
  <2> TAKE n \in 0 .. cnt - 1
  <2>1. cnt \in Nat /\ p \in Nat
    BY <1>1, RingFacts
  <2>2. n \in 0 .. cnt
    BY <2>1
  <2>3. off[n] \in Nat
    BY <1>1, <2>2, RingFacts
  <2> QED
    BY <2>1, <2>3
<1>4. RingAt(nm, p, cnt, wr, rd, off, lead)
  BY <1>1, <1>2, <1>3, RingSame
<1> QED
  BY <1>4 DEF RingOK

LEMMA RingEmpty ==
    ASSUME NEW m
    PROVE  RingOK(m, 0, 0, 0, 0)
<1> DEFINE off == [n \in 0 .. 0 |-> 0]
<1>1. off \in [0 .. 0 -> Nat] /\ off[0] = 0 /\ \A n \in 0 .. 0 : off[n] = 0
  OBVIOUS
<1> HIDE DEF off
<1>2. Offsets(off, 0)
  <2>1. \A i \in 0 .. 0 : off[i] % 2 = 0
    BY <1>1
  <2>2. \A i, j \in 0 .. 0 : ~ (i < j)
    OBVIOUS
  <2> QED
    BY <1>1, <2>1, <2>2 DEF Offsets
<1>3. RingSize \in Nat /\ RingSize >= 2 /\ RXEND_INIT \in Nat
  BY RingSizeIs
<1>4. Ring(0 + off[0]) = 0
  BY <1>1, <1>3, RingIn
<1>5. Ring(0 + RingSize - 0) = 0
  <2>1. RingSize >= RingSize /\ RingSize < RingSize + RingSize
    BY <1>3
  <2>2. Ring(RingSize) = RingSize - RingSize
    BY <1>3, <2>1, RingIn
  <2>3. 0 + RingSize - 0 = RingSize
    BY <1>3
  <2> QED
    BY <1>3, <2>2, <2>3
<1>6. RingAt(m, 0, 0, 0, 0, off, 0)
  <2>1. 0 + off[0] <= RXEND_INIT /\ 0 \in 0 .. RXEND_INIT /\ 0 \in Nat
    BY <1>1, <1>3
  <2>2. \A n \in 0 .. 0 - 1 : Slot(m, 0 + off[n], 0 + off[n + 1])
    OBVIOUS
  <2> QED
    BY <1>2, <1>4, <1>5, <2>1, <2>2 DEF RingAt
<1> QED
  BY <1>6 DEF RingOK

\* What the driver reads of the status vector.
LEMMA VectorIs ==
    ASSUME NEW m, NEW p, NEW cnt, NEW wr, NEW rd, NEW off, NEW lead,
           RingAt(m, p, cnt, wr, rd, off, lead), cnt > 0
    PROVE  /\ Cells(m, p, 2)[1].i = Ring(p + off[1])
           /\ Cells(m, p, 2)[2].len - CrcLen \in Nat
<1>1. p \in Nat /\ p <= RXEND_INIT /\ cnt \in Nat
  BY RingFacts
<1>2. off[0] = 0 /\ 0 \in 0 .. cnt - 1
  BY <1>1 DEF RingAt, Offsets
<1>3. Slot(m, p + off[0], p + off[0 + 1])
  BY <1>2 DEF RingAt
<1>4. p + off[0] = p /\ 0 + 1 = 1 /\ p + off[0] + 1 = p + 1
  BY <1>1, <1>2
<1>5. m[Ring(p)].i = Ring(p + off[1]) /\ m[Ring(p + 1)].len - CrcLen \in Nat
  BY <1>3, <1>4 DEF Slot
<1>6. Cells(m, p, 2) = [i \in 1 .. 2 |-> m[Ring(p + i - 1)]]
  BY <1>1, Zenon DEF Cells
<1>7. Cells(m, p, 2)[1] = m[Ring(p + 1 - 1)] /\ Cells(m, p, 2)[2] = m[Ring(p + 2 - 1)]
  BY <1>6
<1>8. p + 1 - 1 = p /\ p + 2 - 1 = p + 1
  BY <1>1
<1> QED
  BY <1>5, <1>7, <1>8

\* A frame is taken: ERXRDPT stays until its packet is freed.
LEMMA RingTaken ==
    ASSUME NEW m, NEW p, NEW cnt, NEW wr, NEW rd, NEW off, NEW lead,
           RingAt(m, p, cnt, wr, rd, off, lead), cnt > 0
    PROVE  RingAt(m, Ring(p + off[1]), cnt - 1, wr, rd,
                  [n \in 0 .. cnt - 1 |-> off[n + 1] - off[1]], lead + off[1])
<1> DEFINE d == off[1]
           q == Ring(p + d)
           g == [n \in 0 .. cnt - 1 |-> off[n + 1] - d]
           r == RingSize
<1>1. /\ p \in Nat /\ p <= RXEND_INIT /\ cnt \in Nat /\ lead \in Nat
      /\ lead + off[cnt] <= RXEND_INIT
  BY RingFacts
<1>2. 1 \in 0 .. cnt /\ cnt - 1 \in Nat /\ \A n \in 0 .. cnt - 1 : n + 1 \in 1 .. cnt /\ n + 1 \in 0 .. cnt
  BY <1>1
<1>3. d \in Nat /\ d \in 0 .. RXEND_INIT /\ d <= off[cnt]
  BY <1>2, RingFacts
<1>4. r \in Nat /\ r >= 2 /\ r = RXEND_INIT + 1 /\ RXEND_INIT \in Nat
  BY RingSizeIs
<1>5. off \in [0 .. cnt -> Nat] /\ \A i, j \in 0 .. cnt : i < j => off[i] + VectorLen <= off[j]
  BY DEF RingAt, Offsets
<1>6. VectorLen \in Nat /\ VectorLen >= 2
  BY FrameConstants
<1>7. \A n \in 0 .. cnt - 1 : off[n + 1] \in Nat /\ off[n + 1] >= d /\ off[n + 1] <= off[cnt]
  <2> TAKE n \in 0 .. cnt - 1
  <2>1. n + 1 \in 0 .. cnt /\ (n + 1 = 1 \/ 1 < n + 1)
    BY <1>1, <1>2
  <2>2. off[n + 1] \in Nat /\ off[n + 1] <= off[cnt]
    BY <2>1, RingFacts
  <2>3. 1 < n + 1 => d + VectorLen <= off[n + 1]
    BY <1>2, <1>5, <2>1
  <2> QED
    BY <1>3, <1>6, <2>1, <2>2, <2>3
<1> HIDE DEF d
<1>8. \A n \in 0 .. cnt - 1 : g[n] = off[n + 1] - d /\ g[n] \in Nat /\ d + g[n] = off[n + 1]
  BY <1>3, <1>7
<1>9. g \in [0 .. cnt - 1 -> Nat]
  BY <1>3, <1>7
<1> HIDE DEF g, q
<1>10. Offsets(g, cnt - 1)
  <2>1. g[0] = 0
    <3>1. 0 \in 0 .. cnt - 1 /\ 0 + 1 = 1
      BY <1>2
    <3>2. g[0] = off[1] - d
      BY <1>8, <3>1
    <3> QED
      BY <1>3, <3>2 DEF d
  <2>2. ASSUME NEW i \in 0 .. cnt - 1
        PROVE  g[i] % 2 = 0
    <3>1. off[i + 1] % 2 = 0 /\ d % 2 = 0
      BY <1>2 DEF RingAt, Offsets, d
    <3>2. off[i + 1] \in Nat /\ off[i + 1] >= d /\ g[i] = off[i + 1] - d
      BY <1>7, <1>8
    <3> QED
      BY <1>3, <3>1, <3>2
  <2>3. ASSUME NEW i \in 0 .. cnt - 1, NEW j \in 0 .. cnt - 1, i < j
        PROVE  g[i] + VectorLen <= g[j]
    <3>1. off[i + 1] + VectorLen <= off[j + 1]
      <4>1. i + 1 \in 0 .. cnt /\ j + 1 \in 0 .. cnt /\ i + 1 < j + 1
        BY <1>2, <2>3
      <4> QED
        BY <1>5, <4>1
    <3>2. g[i] = off[i + 1] - d /\ g[j] = off[j + 1] - d /\ off[i + 1] \in Nat /\ off[j + 1] \in Nat
      BY <1>7, <1>8
    <3> QED
      BY <1>3, <1>6, <3>1, <3>2
  <2> QED
    BY <1>9, <2>1, <2>2, <2>3 DEF Offsets
<1>11. q = (IF p + d <= RXEND_INIT THEN p + d ELSE p + d - r)
  <2>1. p \in 0 .. RXEND_INIT
    BY DEF RingAt
  <2> QED
    BY <1>3, <2>1, RingDistance DEF q
<1> HIDE DEF r
<1>12. q \in 0 .. RXEND_INIT /\ q \in Nat
  BY <1>1, <1>3, <1>4, <1>11
<1>13. ASSUME NEW x \in Nat, x <= RXEND_INIT - d
       PROVE  Ring(q + x) = Ring(p + (d + x))
  <2>1. q + x \in Nat /\ p + (d + x) \in Nat /\ p + (d + x) < r + r
    BY <1>1, <1>3, <1>4, <1>12, <1>13
  <2> DEFINE u == q + x
             v == p + (d + x)
  <2>2. u \in Nat /\ v \in Nat /\ u < r + r /\ v < r + r /\ (u = v \/ u = v - r)
    BY <1>1, <1>3, <1>4, <1>11, <1>12, <1>13, <2>1
  <2> HIDE DEF u, v
  <2>3. /\ u < r => Ring(u) = u
        /\ u >= r /\ u < r + r => Ring(u) = u - r
        /\ v < r => Ring(v) = v
        /\ v >= r /\ v < r + r => Ring(v) = v - r
    BY <2>2, RingIn DEF r
  <2>4. Ring(u) = Ring(v)
    BY <1>4, <2>2, <2>3
  <2> QED
    BY <2>4 DEF u, v
<1>14. cnt - 1 \in 0 .. cnt - 1 /\ cnt - 1 + 1 = cnt
  BY <1>1, <1>2
<1>15. lead + d \in Nat /\ lead + d + g[cnt - 1] <= RXEND_INIT
  <2>1. d + g[cnt - 1] = off[cnt] /\ g[cnt - 1] \in Nat
    BY <1>8, <1>14
  <2> QED
    BY <1>1, <1>3, <2>1
<1>16. wr = Ring(q + g[cnt - 1])
  <2>1. d + g[cnt - 1] = off[cnt] /\ g[cnt - 1] \in Nat
    BY <1>8, <1>14
  <2>2. g[cnt - 1] <= RXEND_INIT - d
    BY <1>1, <1>3, <1>4, <2>1
  <2>3. Ring(q + g[cnt - 1]) = Ring(p + off[cnt])
    BY <1>13, <2>1, <2>2
  <2> QED
    BY <2>3 DEF RingAt
<1>17. rd = Ring(q + r - (lead + d))
  <2>1. lead + d <= RXEND_INIT
    <3>1. g[cnt - 1] \in Nat
      BY <1>8, <1>14
    <3> QED
      BY <1>1, <1>3, <1>4, <1>15, <3>1
  <2> DEFINE u == q + r - (lead + d)
             v == p + r - lead
  <2>2. u \in Nat /\ v \in Nat /\ u < r + r /\ v < r + r
    BY <1>1, <1>3, <1>4, <1>12, <2>1
  <2>3. u = v \/ u = v - r
    BY <1>1, <1>3, <1>4, <1>11
  <2>5. Ring(v) = rd
    BY DEF RingAt, r
  <2> HIDE DEF u, v
  <2>4. /\ u < r => Ring(u) = u
        /\ u >= r /\ u < r + r => Ring(u) = u - r
        /\ v < r => Ring(v) = v
        /\ v >= r /\ v < r + r => Ring(v) = v - r
    BY <2>2, RingIn DEF r
  <2>6. Ring(u) = Ring(v)
    BY <1>4, <2>2, <2>3, <2>4
  <2> QED
    BY <2>5, <2>6 DEF u
<1>18. ASSUME NEW n \in 0 .. cnt - 1 - 1
       PROVE  Slot(m, q + g[n], q + g[n + 1])
  <2>1. n \in 0 .. cnt - 1 /\ n + 1 \in 0 .. cnt - 1 /\ n + 1 # cnt /\ n + 1 \in 0 .. cnt
        /\ n + 1 + 1 \in 0 .. cnt
    BY <1>1
  <2>2. /\ g[n] \in Nat /\ g[n + 1] \in Nat
        /\ d + g[n] = off[n + 1] /\ d + g[n + 1] = off[n + 1 + 1]
    BY <1>8, <2>1
  <2>3. /\ off[n + 1] + 1 <= RXEND_INIT /\ off[n + 1 + 1] <= RXEND_INIT
        /\ off[n + 1] \in Nat /\ off[n + 1 + 1] \in Nat
    <3>1. /\ off[n + 1] \in Nat /\ off[n + 1] + 1 \in 0 .. RXEND_INIT
          /\ off[n + 1 + 1] \in Nat /\ off[n + 1 + 1] <= RXEND_INIT
      BY <2>1, RingFacts
    <3> QED
      BY <1>4, <3>1
  <2>4. Ring(q + g[n]) = Ring(p + off[n + 1])
    <3>1. g[n] <= RXEND_INIT - d
      BY <1>3, <1>4, <2>2, <2>3
    <3> QED
      BY <1>13, <2>2, <3>1
  <2>5. Ring(q + g[n + 1]) = Ring(p + off[n + 1 + 1])
    <3>1. g[n + 1] <= RXEND_INIT - d
      BY <1>3, <1>4, <2>2, <2>3
    <3> QED
      BY <1>13, <2>2, <3>1
  <2>6. Ring(q + g[n] + 1) = Ring(p + off[n + 1] + 1)
    <3>1. g[n] + 1 \in Nat /\ g[n] + 1 <= RXEND_INIT - d
      BY <1>3, <1>4, <2>2, <2>3
    <3>2. Ring(q + (g[n] + 1)) = Ring(p + (d + (g[n] + 1)))
      BY <1>13, <3>1
    <3>3. q + (g[n] + 1) = q + g[n] + 1 /\ p + (d + (g[n] + 1)) = p + off[n + 1] + 1
      BY <1>1, <1>3, <1>12, <2>2, <2>3
    <3> QED
      BY <3>2, <3>3
  <2>7. Slot(m, p + off[n + 1], p + off[n + 1 + 1])
    BY <2>1 DEF RingAt
  <2> QED
    BY <2>4, <2>5, <2>6, <2>7 DEF Slot
<1>19. RingAt(m, q, cnt - 1, wr, rd, g, lead + d)
  BY <1>2, <1>10, <1>12, <1>15, <1>16, <1>17, <1>18 DEF RingAt, r
<1> QED
  BY <1>19 DEF g, q, d

\* A packet is freed: ERXRDPT is the byte before the next one.  Where it is at
\* the next one already, after a second init, an even number of bytes is in use.
LEMMA RingFreed ==
    ASSUME NEW m, NEW p, NEW cnt, NEW wr, NEW rd, NEW off, NEW lead,
           RingAt(m, p, cnt, wr, rd, off, lead)
    PROVE  RingAt(m, p, cnt, wr, setERXRDPT(p), off, 1)
<1>1. /\ p \in Nat /\ p <= RXEND_INIT /\ lead \in Nat /\ lead + off[cnt] <= RXEND_INIT
      /\ off[cnt] \in Nat
  BY RingFacts
<1>2. off[cnt] % 2 = 0
  BY RingFacts DEF RingAt, Offsets
<1>3. /\ RingSize \in Nat /\ RingSize = RXEND_INIT + 1 /\ RXEND_INIT \in Nat
      /\ RXEND_INIT % 2 = 1 /\ RXSTART_INIT = 0
  BY RingSizeIs, MemoryAssumption
<1>4. 1 + off[cnt] <= RXEND_INIT
  <2>1. off[cnt] # RXEND_INIT
    BY <1>2, <1>3
  <2> QED
    BY <1>1, <1>3, <2>1
<1>5. setERXRDPT(p) = Ring(p + RingSize - 1)
  <2> DEFINE u == p + RingSize - 1
  <2>1. u \in Nat /\ u = p + RXEND_INIT
    BY <1>1, <1>3
  <2> HIDE DEF u
  <2>2. /\ u < RingSize => Ring(u) = u
        /\ u >= RingSize /\ u < RingSize + RingSize => Ring(u) = u - RingSize
    BY <2>1, RingIn
  <2> QED
    BY <1>1, <1>3, <2>1, <2>2 DEF setERXRDPT, u
<1> QED
  BY <1>4, <1>5 DEF RingAt

\* What RingOnly keeps.
LEMMA RingKept ==
    ASSUME NEW m \in Memory, NEW p, NEW cnt, NEW wr, NEW rd, NEW off, NEW lead,
           RingAt(m, p, cnt, wr, rd, off, lead)
    PROVE  RingAt(RingOnly(m, p, wr), p, cnt, wr, rd, off, lead)
<1> DEFINE nm == RingOnly(m, p, wr)
<1>1. nm = [a \in Addresses |->
        IF a > RXEND_INIT \/ Ring(a + RingSize - p) < Ring(wr + RingSize - p)
        THEN m[a] ELSE Zero]
  <2>1. DOMAIN m = Addresses
    BY DEF Memory
  <2> QED
    BY <2>1, Zenon DEF RingOnly
<1> HIDE DEF nm
<1>2. p \in 0 .. RXEND_INIT /\ wr = Ring(p + off[cnt])
  BY DEF RingAt
<1>3. off[cnt] \in 0 .. RXEND_INIT /\ cnt \in Nat
  BY RingFacts
<1>4. Ring(wr + RingSize - p) = off[cnt]
  BY <1>2, <1>3, RingDistance
<1>5. ASSUME NEW x \in 0 .. RXEND_INIT, x < off[cnt]
      PROVE  nm[Ring(p + x)] = m[Ring(p + x)]
  <2>1. Ring(Ring(p + x) + RingSize - p) = x
    BY <1>2, RingDistance
  <2>2. Ring(p + x) \in Addresses
    <3>1. p + x \in Nat
      BY <1>2
    <3> QED
      BY <3>1, RingIn
  <2> QED
    BY <1>1, <1>4, <1>5, <2>1, <2>2
<1>6. ASSUME NEW n \in 0 .. cnt - 1
      PROVE  /\ nm[Ring(p + off[n])] = m[Ring(p + off[n])]
             /\ nm[Ring(p + off[n] + 1)] = m[Ring(p + off[n] + 1)]
  <2>1. n \in 0 .. cnt /\ n # cnt
    BY <1>3
  <2>2. /\ off[n] \in Nat /\ off[n] \in 0 .. RXEND_INIT /\ off[n] + 1 \in 0 .. RXEND_INIT
        /\ off[n] + 1 < off[cnt]
    BY <2>1, RingFacts
  <2>3. off[n] < off[cnt] /\ p + (off[n] + 1) = p + off[n] + 1
    BY <1>2, <1>3, <2>2
  <2>4. nm[Ring(p + off[n])] = m[Ring(p + off[n])]
    BY <1>5, <2>2, <2>3
  <2>5. nm[Ring(p + (off[n] + 1))] = m[Ring(p + (off[n] + 1))]
    BY <1>5, <2>2
  <2> QED
    BY <2>3, <2>4, <2>5
<1> QED
  BY <1>6, RingSame DEF nm

\* The room that the chip sees, between ERXWRPT and ERXRDPT.
LEMMA FreeInRingIs ==
    ASSUME NEW m, NEW off, NEW lead,
           RingAt(m, nextPacketPtr, epktcnt, erxwrpt, erxrdpt, off, lead)
    PROVE  FreeInRing = RXEND_INIT - (lead + off[epktcnt])
<1> DEFINE p == nextPacketPtr
           x == off[epktcnt]
           r == RingSize
<1>1. /\ p \in Nat /\ p <= RXEND_INIT /\ lead \in Nat /\ lead + x <= RXEND_INIT /\ x \in Nat
  BY RingFacts
<1>2. r \in Nat /\ r = RXEND_INIT + 1 /\ RXEND_INIT \in Nat /\ r >= 2
  BY RingSizeIs
<1>3. erxwrpt = Ring(p + x) /\ erxrdpt = Ring(p + r - lead)
  BY DEF RingAt
<1> DEFINE u == p + x
           v == p + r - lead
<1>4. u \in Nat /\ v \in Nat /\ u < r + r /\ v < r + r
  BY <1>1, <1>2
<1> HIDE DEF u, v
<1>5. /\ u < r => Ring(u) = u
      /\ u >= r /\ u < r + r => Ring(u) = u - r
      /\ v < r => Ring(v) = v
      /\ v >= r /\ v < r + r => Ring(v) = v - r
  BY <1>4, RingIn
<1>6. erxwrpt = Ring(u) /\ erxrdpt = Ring(v)
  BY <1>3 DEF u, v
<1>7. FreeInRing = IF erxwrpt > erxrdpt THEN r - 1 - (erxwrpt - erxrdpt)
                   ELSE IF erxwrpt = erxrdpt THEN r - 1
                   ELSE erxrdpt - erxwrpt - 1
  BY DEF FreeInRing
<1>8. v = p + r - lead /\ u = p + x
  BY DEF u, v
<1> HIDE DEF r, x, p
<1> QED
  BY <1>1, <1>2, <1>4, <1>5, <1>6, <1>7, <1>8 DEF x

LEMMA Joined ==
    ASSUME NEW s \in Seq(Cellset), NEW u \in Seq(Cellset)
    PROVE  /\ s \o u \in Seq(Cellset) /\ Len(s \o u) = Len(s) + Len(u)
           /\ \A i \in 1 .. Len(s) : (s \o u)[i] = s[i]
  OBVIOUS

\* A frame as the chip stores it.
IsFramed(f, ok, next, q) ==
    /\ q \in Seq(Cellset)
    /\ Len(q) = VectorLen + HeaderLen + f.len + CrcLen
    /\ q[1] = Cell("next", 0, 0, next)
    /\ q[2] = Cell("stat", ok, HeaderLen + f.len + CrcLen, 0)

LEMMA FramedIs ==
    ASSUME NEW f \in Frames, NEW ok \in Int, NEW next \in Int
    PROVE  IsFramed(f, ok, next, Framed(f, ok, next))
<1>1. /\ VectorLen \in Nat /\ VectorLen >= 2 /\ HeaderLen \in Nat /\ CrcLen \in Nat
      /\ f.kind \in Kinds /\ f.tag \in Nat /\ f.len \in Nat
  BY FrameConstants
<1> DEFINE h == HeaderOf(f)
           b == Payload(f)
           c == [i \in 1 .. CrcLen |-> Cell("crc", f.tag, 0, i)]
           z == [i \in 1 .. VectorLen - 2 |-> Zero]
           v == <<Cell("next", 0, 0, next), Cell("stat", ok, HeaderLen + f.len + CrcLen, 0)>>
<1>2. \A k \in Kinds, t \in Int, l \in Int, i \in Int : Cell(k, t, l, i) \in Cellset
  BY DEF Cell, Cellset
<1>3. "next" \in Kinds /\ "stat" \in Kinds /\ "crc" \in Kinds
  BY DEF Kinds
<1>4. h \in Seq(Cellset) /\ Len(h) = HeaderLen
  <2>1. h \in [1 .. HeaderLen -> Cellset]
    BY <1>1, <1>2 DEF HeaderOf, FrameCell
  <2> QED
    BY <1>1, <2>1
<1>5. b \in Seq(Cellset) /\ Len(b) = f.len
  <2>1. b \in [1 .. f.len -> Cellset]
    BY <1>1, <1>2 DEF Payload, FrameCell
  <2> QED
    BY <1>1, <2>1
<1>6. c \in Seq(Cellset) /\ Len(c) = CrcLen
  <2>1. c \in [1 .. CrcLen -> Cellset]
    BY <1>1, <1>2, <1>3
  <2> QED
    BY <1>1, <2>1
<1>7. z \in Seq(Cellset) /\ Len(z) = VectorLen - 2
  <2>1. z \in [1 .. VectorLen - 2 -> Cellset]
    BY <1>1, ZeroIn
  <2> QED
    BY <1>1, <2>1
<1>8. /\ v \in Seq(Cellset) /\ Len(v) = 2
      /\ v[1] = Cell("next", 0, 0, next) /\ v[2] = Cell("stat", ok, HeaderLen + f.len + CrcLen, 0)
  <2> DEFINE n == HeaderLen + f.len + CrcLen
  <2>1. n \in Int
    BY <1>1
  <2> HIDE DEF n
  <2> DEFINE c1 == Cell("next", 0, 0, next)
             c2 == Cell("stat", ok, n, 0)
  <2>2. c1 \in Cellset /\ c2 \in Cellset
    BY <1>2, <1>3, <2>1
  <2>3. v = <<c1, c2>>
    BY DEF n
  <2> HIDE DEF c1, c2, v
  <2>4. v \in Seq(Cellset) /\ Len(v) = 2 /\ v[1] = c1 /\ v[2] = c2
    BY <2>2, <2>3
  <2> QED
    BY <2>4 DEF c1, c2, n
<1>9. Framed(f, ok, next) = v \o (z \o h \o b \o c)
  BY Zenon DEF Framed
<1> HIDE DEF h, b, c, z, v
<1> DEFINE w == z \o h \o b \o c
<1>10. w \in Seq(Cellset) /\ Len(w) = VectorLen - 2 + HeaderLen + f.len + CrcLen
  <2>1. z \o h \in Seq(Cellset) /\ Len(z \o h) = VectorLen - 2 + HeaderLen
    BY <1>4, <1>7, Joined
  <2>2. (z \o h) \o b \in Seq(Cellset) /\ Len((z \o h) \o b) = VectorLen - 2 + HeaderLen + f.len
    BY <1>5, <2>1, Joined
  <2>3. /\ ((z \o h) \o b) \o c \in Seq(Cellset)
        /\ Len(((z \o h) \o b) \o c) = VectorLen - 2 + HeaderLen + f.len + CrcLen
    BY <1>6, <2>2, Joined
  <2> QED
    BY <2>3
<1> HIDE DEF w
<1>11. /\ v \o w \in Seq(Cellset) /\ Len(v \o w) = 2 + Len(w)
       /\ (v \o w)[1] = v[1] /\ (v \o w)[2] = v[2]
  <2>1. 1 \in 1 .. Len(v) /\ 2 \in 1 .. Len(v)
    BY <1>8
  <2>2. \A i \in 1 .. Len(v) : (v \o w)[i] = v[i]
    BY <1>8, <1>10, Joined
  <2>3. v \o w \in Seq(Cellset) /\ Len(v \o w) = Len(v) + Len(w)
    BY <1>8, <1>10, Joined
  <2> DEFINE u == v \o w
  <2> HIDE DEF u
  <2>4. u[1] = v[1] /\ u[2] = v[2]
    BY <2>1, <2>2, Zenon DEF u
  <2>5. Len(v) + Len(w) = 2 + Len(w)
    BY <1>8
  <2> QED
    BY <2>3, <2>4, <2>5, Zenon DEF u
<1>12. 2 + Len(w) = VectorLen + HeaderLen + f.len + CrcLen
  BY <1>1, <1>10
<1>13. Framed(f, ok, next) = v \o w
  BY <1>9 DEF w
<1> QED
  BY <1>8, <1>11, <1>12, <1>13 DEF IsFramed

\* The memory when the chip has stored q at ERXWRPT.
Arrived(m, wr, q) ==
    [a \in Addresses |->
        IF a <= RXEND_INIT /\ Ring(a + RingSize - wr) < Len(q)
        THEN q[Ring(a + RingSize - wr) + 1] ELSE m[a]]

\* A frame that fits into the room that the chip sees overwrites no frame that
\* the driver has not taken, and is the last one of the list.
LEMMA RingArrive ==
    ASSUME NEW m \in Memory, NEW p, NEW cnt, NEW wr, NEW rd, NEW off, NEW lead,
           RingAt(m, p, cnt, wr, rd, off, lead),
           NEW F \in Nat, F % 2 = 0, lead + off[cnt] + F <= RXEND_INIT,
           NEW q \in Seq(Cellset), Len(q) <= F, VectorLen <= Len(q),
           q[1].kind = "next", q[1].i = Ring(wr + F), q[2].len - CrcLen \in Nat
    PROVE  /\ Arrived(m, wr, q) \in Memory
           /\ \A a \in Addresses : a > RXEND_INIT => Arrived(m, wr, q)[a] = m[a]
           /\ RingOK(Arrived(m, wr, q), p, cnt + 1, Ring(wr + F), rd)
<1> DEFINE nm == Arrived(m, wr, q)
           x == off[cnt]
           g == [n \in 0 .. cnt + 1 |-> IF n <= cnt THEN off[n] ELSE x + F]
           r == RingSize
<1>1. /\ p \in Nat /\ p <= RXEND_INIT /\ cnt \in Nat /\ lead \in Nat /\ cnt \in 0 .. cnt
      /\ x \in Nat /\ x <= RXEND_INIT /\ x \in 0 .. RXEND_INIT
      /\ wr \in 0 .. RXEND_INIT /\ wr \in Nat
      /\ lead + x + F <= RXEND_INIT
  BY RingFacts, RingSizeIs
<1>2. r \in Nat /\ r >= 2 /\ r = RXEND_INIT + 1 /\ RXEND_INIT \in Nat
  BY RingSizeIs
<1>3. VectorLen \in Nat /\ VectorLen >= 2 /\ Len(q) \in Nat
  BY FrameConstants
<1>4. p \in 0 .. RXEND_INIT /\ wr = Ring(p + x) /\ Offsets(off, cnt)
  BY DEF RingAt
<1>5. \A a \in Addresses : a \in Nat
  BY Constants DEF Addresses
<1>6. \A a \in Addresses : m[a] \in Cellset
  BY DEF Memory
<1> HIDE DEF x, r
<1>7. ASSUME NEW a \in Addresses, a <= RXEND_INIT, Ring(a + r - wr) < Len(q)
      PROVE  q[Ring(a + r - wr) + 1] \in Cellset
  <2>1. a + r - wr \in Nat
    BY <1>1, <1>2, <1>5
  <2>2. Ring(a + r - wr) \in 0 .. RXEND_INIT
    BY <2>1, RingIn
  <2> DEFINE d == Ring(a + r - wr)
  <2>3. d \in 0 .. RXEND_INIT /\ d < Len(q)
    BY <1>7, <2>2
  <2> HIDE DEF d
  <2>4. d + 1 \in 1 .. Len(q)
    BY <1>2, <1>3, <2>3
  <2>5. q[d + 1] \in Cellset
    BY <2>4
  <2> QED
    BY <2>5 DEF d
<1>8. nm \in Memory
  BY <1>6, <1>7 DEF Memory, Arrived, r
<1>9. \A a \in Addresses : a > RXEND_INIT => nm[a] = m[a]
  BY <1>2, <1>5 DEF Arrived
<1>10. ASSUME NEW y \in 0 .. RXEND_INIT
       PROVE  /\ y < x => nm[Ring(p + y)] = m[Ring(p + y)]
              /\ y >= x /\ y - x < Len(q) => nm[Ring(p + y)] = q[y - x + 1]
  <2>1. Ring(Ring(p + y) + r - wr) = IF y >= x THEN y - x ELSE r + y - x
    <3>1. Ring(Ring(p + y) + RingSize - Ring(p + x)) = IF y >= x THEN y - x ELSE RingSize + y - x
      BY <1>1, <1>4, RingDistance
    <3> QED
      BY <1>4, <3>1 DEF r
  <2>2. Ring(p + y) \in Addresses /\ Ring(p + y) <= RXEND_INIT
    <3>1. p + y \in Nat
      BY <1>1, <1>2
    <3> QED
      BY <1>2, <3>1, RingIn
  <2> DEFINE a == Ring(p + y)
             d == Ring(a + r - wr)
  <2>3. nm[a] = IF d < Len(q) THEN q[d + 1] ELSE m[a]
    BY <2>2 DEF Arrived, r
  <2>4. d = IF y >= x THEN y - x ELSE r + y - x
    BY <2>1
  <2> HIDE DEF a, d, nm
  <2>5. y < x => ~ (d < Len(q))
    BY <1>1, <1>2, <1>3, <2>4
  <2>6. y < x => nm[a] = m[a]
    BY <2>3, <2>5
  <2>7. y >= x /\ y - x < Len(q) => nm[a] = q[y - x + 1]
    BY <2>3, <2>4
  <2> QED
    BY <2>6, <2>7 DEF a
<1> HIDE DEF nm
<1>11. x + F \in Nat /\ x + F <= RXEND_INIT /\ x + F \in 0 .. RXEND_INIT /\ lead + (x + F) <= RXEND_INIT
  BY <1>1, <1>2
<1>12. off \in [0 .. cnt -> Nat] /\ off[0] = 0
  BY <1>4 DEF Offsets
<1>13. g \in [0 .. cnt + 1 -> Nat] /\ g[0] = 0 /\ g[cnt + 1] = x + F
       /\ \A n \in 0 .. cnt : g[n] = off[n]
  <2>1. \A n \in 0 .. cnt + 1 : n <= cnt => n \in 0 .. cnt
    BY <1>1
  <2>2. cnt + 1 \in 0 .. cnt + 1 /\ ~ (cnt + 1 <= cnt) /\ 0 \in 0 .. cnt
    BY <1>1
  <2>3. \A n \in 0 .. cnt : n \in 0 .. cnt + 1 /\ n <= cnt
    BY <1>1
  <2> QED
    BY <1>11, <1>12, <2>1, <2>2, <2>3
<1> HIDE DEF g
<1>14. Offsets(g, cnt + 1)
  <2>1. ASSUME NEW i \in 0 .. cnt + 1
        PROVE  g[i] % 2 = 0
    <3>1. CASE i \in 0 .. cnt
      BY <1>4, <1>13, <3>1 DEF Offsets
    <3>2. CASE i = cnt + 1
      <4>1. x % 2 = 0
        BY <1>1, <1>4 DEF Offsets, x
      <4>2. g[i] = x + F
        BY <1>13, <3>2
      <4>3. (x + F) % 2 = 0
        BY <1>1, <4>1
      <4> QED
        BY <4>2, <4>3
    <3> QED
      BY <1>1, <3>1, <3>2
  <2>2. ASSUME NEW i \in 0 .. cnt + 1, NEW j \in 0 .. cnt + 1, i < j
        PROVE  g[i] + VectorLen <= g[j]
    <3>1. CASE j \in 0 .. cnt
      <4>1. i \in 0 .. cnt
        BY <1>1, <2>2, <3>1
      <4> QED
        BY <1>4, <1>13, <2>2, <3>1, <4>1 DEF Offsets
    <3>2. CASE j = cnt + 1
      <4>1. i \in 0 .. cnt
        BY <1>1, <2>2, <3>2
      <4>2. off[i] \in Nat /\ off[i] <= x
        BY <4>1, RingFacts DEF x
      <4>3. g[i] = off[i] /\ g[j] = x + F /\ F >= VectorLen
        BY <1>3, <1>13, <3>2, <4>1
      <4> QED
        BY <1>1, <1>3, <4>2, <4>3
    <3> QED
      BY <1>1, <3>1, <3>2
  <2> QED
    BY <1>1, <1>13, <2>1, <2>2 DEF Offsets
<1>15. Ring(wr + F) = Ring(p + (x + F))
  <2> DEFINE u == wr + F
             v == p + (x + F)
  <2>1. wr = IF p + x <= RXEND_INIT THEN p + x ELSE p + x - r
    BY <1>1, <1>4, RingDistance DEF r
  <2>2. u \in Nat /\ v \in Nat /\ u < r + r /\ v < r + r /\ (u = v \/ u = v - r)
    BY <1>1, <1>2, <1>11, <2>1
  <2> HIDE DEF u, v
  <2>3. /\ u < r => Ring(u) = u
        /\ u >= r /\ u < r + r => Ring(u) = u - r
        /\ v < r => Ring(v) = v
        /\ v >= r /\ v < r + r => Ring(v) = v - r
    BY <2>2, RingIn DEF r
  <2>4. Ring(u) = Ring(v)
    BY <1>2, <2>2, <2>3
  <2> QED
    BY <2>4 DEF u, v
<1>16. ASSUME NEW n \in 0 .. cnt
       PROVE  Slot(nm, p + g[n], p + g[n + 1])
  <2>1. CASE n # cnt
    <3>1. n \in 0 .. cnt - 1 /\ n + 1 \in 0 .. cnt
      BY <1>1, <2>1
    <3>2. g[n] = off[n] /\ g[n + 1] = off[n + 1]
      BY <1>13, <3>1
    <3>3. /\ off[n] \in Nat /\ off[n] \in 0 .. RXEND_INIT /\ off[n] + 1 \in 0 .. RXEND_INIT
          /\ off[n] + 1 < x
      BY <2>1, RingFacts DEF x
    <3>4. nm[Ring(p + off[n])] = m[Ring(p + off[n])]
      <4>1. off[n] < x
        BY <1>1, <3>3
      <4> QED
        BY <1>10, <3>3, <4>1
    <3>5. nm[Ring(p + off[n] + 1)] = m[Ring(p + off[n] + 1)]
      <4>1. nm[Ring(p + (off[n] + 1))] = m[Ring(p + (off[n] + 1))]
        BY <1>10, <3>3
      <4>2. p + (off[n] + 1) = p + off[n] + 1
        BY <1>1, <3>3
      <4> QED
        BY <4>1, <4>2
    <3>6. Slot(m, p + off[n], p + off[n + 1])
      BY <3>1 DEF RingAt
    <3> QED
      BY <3>2, <3>4, <3>5, <3>6 DEF Slot
  <2>2. CASE n = cnt
    <3>1. g[n] = x /\ g[n + 1] = x + F
      BY <1>1, <1>13, <2>2 DEF x
    <3>2. nm[Ring(p + x)] = q[1]
      <4>1. x >= x /\ x - x < Len(q) /\ x - x + 1 = 1
        BY <1>1, <1>3
      <4>2. nm[Ring(p + x)] = q[x - x + 1]
        BY <1>1, <1>10, <4>1
      <4> QED
        BY <4>1, <4>2
    <3>3. nm[Ring(p + x + 1)] = q[2]
      <4> DEFINE y == x + 1
      <4>1. y \in 0 .. RXEND_INIT /\ y >= x /\ y - x < Len(q) /\ y - x + 1 = 2
            /\ p + y = p + x + 1
        <5> DEFINE k == Len(q)
        <5>1. k \in Nat /\ k >= 2 /\ k <= F /\ x + F <= RXEND_INIT /\ x \in Nat
              /\ RXEND_INIT \in Nat /\ p \in Nat
          <6>1. k >= 2
            BY <1>3
          <6> QED
            BY <1>1, <1>2, <1>3, <1>11, <6>1, Zenon
        <5> HIDE DEF k
        <5>2. y \in 0 .. RXEND_INIT
          BY <5>1
        <5>3. y >= x /\ y - x < k /\ y - x + 1 = 2 /\ p + y = p + x + 1
          BY <5>1
        <5> QED
          BY <5>2, <5>3, Zenon DEF k
      <4> HIDE DEF y
      <4>2. nm[Ring(p + y)] = q[y - x + 1]
        BY <1>10, <4>1
      <4> QED
        BY <4>1, <4>2
    <3> QED
      BY <1>15, <3>1, <3>2, <3>3 DEF Slot
  <2> QED
    BY <2>1, <2>2
<1>17. RingAt(nm, p, cnt + 1, Ring(wr + F), rd, g, lead)
  <2>1. cnt + 1 \in Nat /\ lead + g[cnt + 1] <= RXEND_INIT /\ Ring(wr + F) = Ring(p + g[cnt + 1])
    <3>1. cnt + 1 \in Nat
      BY <1>1
    <3>2. g[cnt + 1] = x + F
      BY <1>13, Zenon
    <3>3. lead + (x + F) <= RXEND_INIT
      BY <1>11, Zenon
    <3>4. Ring(wr + F) = Ring(p + (x + F))
      BY <1>15, Zenon
    <3> QED
      BY <3>1, <3>2, <3>3, <3>4, Zenon
  <2>2. \A n \in 0 .. cnt + 1 - 1 : Slot(nm, p + g[n], p + g[n + 1])
    <3>1. 0 .. cnt + 1 - 1 = 0 .. cnt
      BY <1>1
    <3> QED
      BY <1>16, <3>1
  <2>3. rd = Ring(p + RingSize - lead) /\ lead \in Nat
    BY DEF RingAt
  <2> QED
    BY <1>1, <1>4, <1>14, <2>1, <2>2, <2>3 DEF RingAt
<1> QED
  BY <1>8, <1>9, <1>17 DEF RingOK, nm

\* The way that the driver will go through the frames.
LEMMA WalkIs ==
    ASSUME NEW off, NEW lead,
           RingAt(mem, nextPacketPtr, epktcnt, erxwrpt, erxrdpt, off, lead)
    PROVE  \A n \in 0 .. epktcnt : Walk[n] = Ring(nextPacketPtr + off[n])
<1> DEFINE p == nextPacketPtr
           c == epktcnt
           IsWalk(w) == w = [n \in 0 .. c |-> IF n = 0 THEN p ELSE mem[w[n - 1]].i]
           f == [n \in 0 .. c |-> Ring(p + off[n])]
<1>1. c \in Nat /\ p \in Nat /\ p <= RXEND_INIT /\ RXEND_INIT \in Nat /\ RingSize = RXEND_INIT + 1
  BY RingFacts, RingSizeIs
<1>2. off[0] = 0
  BY DEF RingAt, Offsets
<1>3. Ring(p + off[0]) = p
  <2>1. p + off[0] = p /\ p < RingSize
    BY <1>1, <1>2
  <2> QED
    BY <1>1, <2>1, RingIn
<1>4. \A n \in 0 .. c - 1 : mem[Ring(p + off[n])].i = Ring(p + off[n + 1])
  BY DEF RingAt, Slot
<1> HIDE DEF p, c
<1>5. \A n \in 0 .. c : f[n] = IF n = 0 THEN p ELSE mem[f[n - 1]].i
  <2> SUFFICES ASSUME NEW n \in 0 .. c
               PROVE  f[n] = IF n = 0 THEN p ELSE mem[f[n - 1]].i
    OBVIOUS
  <2>1. CASE n = 0
    BY <1>3, <2>1
  <2>2. CASE n # 0
    <3>1. n - 1 \in 0 .. c - 1 /\ n - 1 \in 0 .. c /\ n - 1 + 1 = n
      BY <1>1, <2>2
    <3>2. f[n] = Ring(p + off[n]) /\ f[n - 1] = Ring(p + off[n - 1])
      BY <3>1, Zenon
    <3>3. mem[Ring(p + off[n - 1])].i = Ring(p + off[n])
      BY <1>4, <3>1
    <3> QED
      BY <2>2, <3>2, <3>3, Zenon
  <2> QED
    BY <2>1, <2>2
<1>6. IsWalk(f)
  BY <1>5, Zenon
<1> DEFINE w == CHOOSE w : IsWalk(w)
<1>7. IsWalk(w)
  BY <1>6, Zenon
<1>8. Walk = w
  BY Zenon DEF Walk, p, c
<1>9. \A n \in 0 .. c : f[n] = Ring(p + off[n])
  BY Zenon
<1> HIDE DEF w, f
<1>10. \A n \in 0 .. c : w[n] = IF n = 0 THEN p ELSE mem[w[n - 1]].i
  BY <1>7, Zenon
<1>11. \A n \in 0 .. c : w[n] = f[n]
  <2> DEFINE T == {n \in 0 .. c : w[n] # f[n]}
  <2> SUFFICES ASSUME T # {} PROVE FALSE
    OBVIOUS
  <2>1. PICK n \in T : \A k \in T : n =< k
    <3>1. T \subseteq Nat
      BY <1>1
    <3> HIDE DEF T
    <3> QED
      BY <3>1, Least, Zenon
  <2>2. n \in 0 .. c /\ w[n] # f[n]
    BY <2>1
  <2>3. n # 0
    BY <1>5, <1>10, <2>2, Zenon
  <2>4. n - 1 \in 0 .. c /\ ~ (n =< n - 1)
    BY <1>1, <2>2, <2>3
  <2>5. w[n - 1] = f[n - 1]
    BY <2>1, <2>4, Zenon
  <2> QED
    BY <1>5, <1>10, <2>2, <2>3, <2>5, Zenon
<1> QED
  BY <1>8, <1>9, <1>11, Zenon DEF p, c

-----------------------------------------------------------------------------
(***************************************************************************)
(* The inductive invariant                                                 *)
(***************************************************************************)
\* A packet in the ring begins in it, and the headers of what has arrived fit.
PacketOK(pkt, in, cnt) ==
    /\ pkt.begin \in 0 .. RXEND_INIT /\ pkt.size \in Nat
    /\ in \in BOOLEAN
    /\ cnt > 0 \/ in => VectorLen + HeaderLen <= RXEND_INIT

Inv ==
    /\ Sound(blocks, mem, held)
    /\ RingOK(mem, nextPacketPtr, epktcnt, erxwrpt, erxrdpt)
    /\ RegsOK(regs)
    /\ PacketOK(receivePkt, inPacket, epktcnt)
    /\ spilled \in BOOLEAN /\ started \in BOOLEAN /\ wrong \subseteq {"delivered"}

LEMMA RingCount ==
    ASSUME NEW m, NEW p, NEW cnt, NEW wr, NEW rd, RingOK(m, p, cnt, wr, rd)
    PROVE  cnt \in Nat /\ p \in 0 .. RXEND_INIT /\ wr \in 0 .. RXEND_INIT /\ rd \in 0 .. RXEND_INIT
<1>1. PICK off, lead : RingAt(m, p, cnt, wr, rd, off, lead)
  BY DEF RingOK
<1>2. cnt \in Nat /\ wr \in 0 .. RXEND_INIT /\ rd \in 0 .. RXEND_INIT
  BY <1>1, RingFacts
<1>3. p \in 0 .. RXEND_INIT
  BY <1>1 DEF RingAt
<1> QED
  BY <1>2, <1>3

\* The packet is freed and the ring keeps what has not been taken.
LEMMA RingFreedKept ==
    ASSUME NEW m \in Memory, NEW p, NEW cnt, NEW wr, NEW rd, RingOK(m, p, cnt, wr, rd)
    PROVE  RingOK(RingOnly(m, p, wr), p, cnt, wr, setERXRDPT(p))
<1>1. PICK off, lead : RingAt(m, p, cnt, wr, rd, off, lead)
  BY DEF RingOK
<1>2. RingAt(m, p, cnt, wr, setERXRDPT(p), off, 1)
  BY <1>1, RingFreed
<1>3. RingAt(RingOnly(m, p, wr), p, cnt, wr, setERXRDPT(p), off, 1)
  BY <1>2, RingKept
<1> QED
  BY <1>3 DEF RingOK

\* The frame that the driver finds at nextPacketPtr.
LEMMA NextIs ==
    ASSUME Inv, epktcnt > 0
    PROVE  /\ RingOK(mem, Vector[1].i, PktDec(epktcnt), erxwrpt, erxrdpt)
           /\ Vector[2].len - CrcLen \in Nat
           /\ ReadPtr \in 0 .. RXEND_INIT
           /\ VectorLen + HeaderLen <= RXEND_INIT
           /\ PktDec(epktcnt) \in Nat
<1>1. PICK off, lead : RingAt(mem, nextPacketPtr, epktcnt, erxwrpt, erxrdpt, off, lead)
  BY DEF Inv, RingOK
<1>2. /\ Cells(mem, nextPacketPtr, 2)[1].i = Ring(nextPacketPtr + off[1])
      /\ Cells(mem, nextPacketPtr, 2)[2].len - CrcLen \in Nat
  BY <1>1, VectorIs
<1>3. RingAt(mem, Ring(nextPacketPtr + off[1]), epktcnt - 1, erxwrpt, erxrdpt,
             [n \in 0 .. epktcnt - 1 |-> off[n + 1] - off[1]], lead + off[1])
  BY <1>1, RingTaken
<1>4. RingOK(mem, Vector[1].i, PktDec(epktcnt), erxwrpt, erxrdpt)
  BY <1>2, <1>3, Zenon DEF RingOK, Vector, PktDec
<1>5. VectorLen + HeaderLen <= RXEND_INIT
  BY DEF Inv, PacketOK
<1>6. nextPacketPtr \in 0 .. RXEND_INIT /\ epktcnt \in Nat
  BY RingCount DEF Inv
<1>7. ReadPtr \in 0 .. RXEND_INIT
  BY <1>5, <1>6, RingSizeIs, FrameConstants DEF ReadPtr, Wrap
<1>8. PktDec(epktcnt) \in Nat
  BY <1>6 DEF PktDec
<1> QED
  BY <1>2, <1>4, <1>5, <1>7, <1>8 DEF Vector

\* The accesses of receivePacket, and of what ends a tick.
LEMMA RegsOfFrame ==
    ASSUME NEW r, RegsOK(r)
    PROVE  RegsOK(Accesses(r, <<1, 0, 0>>)) /\ RegsOK(Accesses(r, <<0, 0>>))
<1> DEFINE a == <<1, 0, 0>>
           b == <<0, 0>>
<1>1. a \in Seq(0 .. 3) /\ Len(a) >= 1 /\ b \in Seq(0 .. 3) /\ Len(b) >= 1
  OBVIOUS
<1> HIDE DEF a, b
<1>2. RegsOK(Accesses(r, a)) /\ RegsOK(Accesses(r, b))
  BY <1>1, RegsAccesses
<1> QED
  BY <1>2 DEF a, b

\* What the driver works on, a packet that was kept or the next frame.
LEMMA TakenIs ==
    ASSUME Inv, CanTake, NEW t, t = Taken
    PROVE  /\ t.pkt.begin \in 0 .. RXEND_INIT /\ t.pkt.size \in Nat
           /\ VectorLen + HeaderLen <= RXEND_INIT
           /\ RingOK(mem, t.next, t.count, erxwrpt, erxrdpt)
           /\ RegsOK(t.regs)
<1>1. RegsOK(Access(regs, 0)) /\ RegsOK(Accesses(regs, <<1, 0, 0>>))
  <2>1. RegsOK(regs) /\ 0 \in 0 .. 3
    BY DEF Inv
  <2> QED
    BY <2>1, RegsAccess, RegsOfFrame
<1>2. CASE inPacket
  <2>1. t = [pkt |-> receivePkt, next |-> nextPacketPtr, count |-> epktcnt,
             regs |-> Access(regs, 0)]
    BY <1>2 DEF Taken
  <2>2. t.pkt = receivePkt /\ t.next = nextPacketPtr /\ t.count = epktcnt /\ t.regs = Access(regs, 0)
    BY <2>1
  <2> QED
    BY <1>1, <1>2, <2>2 DEF Inv, PacketOK
<1>3. CASE ~ inPacket
  <2>1. t = [pkt |-> [begin |-> ReadPtr, size |-> Vector[2].len - CrcLen],
             next |-> Vector[1].i, count |-> PktDec(epktcnt),
             regs |-> Accesses(regs, <<1, 0, 0>>)]
    BY <1>3, Zenon DEF Taken
  <2>2. /\ t.pkt.begin = ReadPtr /\ t.pkt.size = Vector[2].len - CrcLen
        /\ t.next = Vector[1].i /\ t.count = PktDec(epktcnt)
        /\ t.regs = Accesses(regs, <<1, 0, 0>>)
    BY <2>1
  <2>3. epktcnt > 0
    BY <1>3 DEF CanTake
  <2> QED
    BY <1>1, <2>2, <2>3, NextIs
<1> QED
  BY <1>2, <1>3 DEF Inv, PacketOK

\* The bytes that the driver copies to the application, wherever it finds them.
LEMMA BodyIs ==
    ASSUME mem \in Memory, NEW pkt, pkt.begin \in 0 .. RXEND_INIT,
           VectorLen + HeaderLen <= RXEND_INIT, NEW n \in Nat
    PROVE  Body(pkt, n) \in Seq(Cellset) /\ Len(Body(pkt, n)) = n
<1> DEFINE a == Wrap(pkt.begin + HeaderLen)
<1>1. a \in Nat /\ a <= RXEND_INIT
  BY RingSizeIs, FrameConstants DEF Wrap
<1>2. Body(pkt, n) = Cells(mem, a, n)
  BY DEF Body
<1> HIDE DEF a
<1>3. Cells(mem, a, n) = [i \in 1 .. n |-> mem[Ring(a + i - 1)]]
  BY <1>1, Zenon DEF Cells
<1>4. \A i \in 1 .. n : mem[Ring(a + i - 1)] \in Cellset
  <2> TAKE i \in 1 .. n
  <2>1. a + i - 1 \in Nat
    BY <1>1
  <2>2. Ring(a + i - 1) \in Addresses
    BY <2>1, RingIn
  <2> QED
    BY <2>2 DEF Memory
<1>5. Cells(mem, a, n) \in [1 .. n -> Cellset]
  BY <1>3, <1>4
<1> QED
  BY <1>2, <1>5

\* A block has what its owner put there.
LEMMA HeldIs ==
    ASSUME NEW bs, NEW m, NEW hd, Sound(bs, m, hd), NEW h \in Handles, hd[h].owner # "none"
    PROVE  Linear(m, bs[h].begin, Len(hd[h].bytes)) = hd[h].bytes
<1> DEFINE q == hd[h].bytes
           n == Len(q)
           b == bs[h].begin
           l == Linear(m, b, n)
<1>1. hd[h] \in Holding /\ HoldsAt(bs[h], m, hd[h])
  BY DEF Sound
<1>2. q \in Seq(Cellset) /\ n \in Nat
  BY <1>1 DEF Holding
<1>3. \A i \in 1 .. n : m[b + i - 1] = q[i]
  BY <1>1 DEF HoldsAt
<1>4. \A i \in 1 .. n : m[b + i - 1] \in Cellset
  BY <1>2, <1>3
<1> HIDE DEF b
<1>5. IsLinear(m, b, n, l)
  BY <1>2, <1>4, LinearIs
<1>6. n = Len(q)
  OBVIOUS
<1> HIDE DEF q, l, n
<1>7. l \in Seq(Cellset) /\ Len(l) = n /\ \A i \in 1 .. n : l[i] = q[i]
  BY <1>3, <1>5 DEF IsLinear
<1>8. l = q
  BY <1>2, <1>6, <1>7
<1> QED
  BY <1>8 DEF l, q, n, b

\* The blocks and the memory behind an application call and the segment's
\* acknowledgement.
LEMMA AnswerIs ==
    ASSUME NEW bs, NEW m, NEW hd, Sound(bs, m, hd), NEW f \in Frames,
           NEW a, a = allocBlock(bs, m, f.len), NEW q \in Seq(Cellset), Len(q) = f.len,
           NEW ack, ack = Answer(f, a, InBlocks(a, q)),
           NEW nh, nh = IF a.handle = NOBLOCK THEN hd
                        ELSE [hd EXCEPT ![a.handle] = [owner |-> "in", bytes |-> q]]
    PROVE  /\ ack.spills \in BOOLEAN
           /\ ~ ack.spills => Sound(ack.blocks, ack.mem, nh) /\ Below(m, ack.mem)
<1> DEFINE m1 == InBlocks(a, q)
<1>1. f.len \in Nat \ {0}
  BY FrameConstants
<1>2. PICK s : PoolOK(bs, s)
  BY DEF Sound
<1>3. IsAllocated(bs, m, f.len, a)
  BY <1>1, <1>2, AllocOK DEF Sound
<1>4. Spills(a) \in BOOLEAN
  BY DEF Spills
<1>5. CASE Spills(a)
  <2>1. ack = [blocks |-> a.blocks, mem |-> m1, spills |-> Spills(a)]
    BY <1>5 DEF Answer
  <2>2. ack.spills = Spills(a)
    BY <2>1
  <2> QED
    BY <1>4, <1>5, <2>2
<1>6. CASE ~ Spills(a)
  <2>1. Sound(a.blocks, m1, nh) /\ Below(m, m1)
    <3>1. CASE a.handle = NOBLOCK
      <4>1. nh = hd
        BY <3>1
      <4> QED
        BY <1>3, <3>1, <4>1, SoundUnstored
    <3>2. CASE a.handle # NOBLOCK
      <4>1. nh = [hd EXCEPT ![a.handle] = [owner |-> "in", bytes |-> q]]
        BY <3>2
      <4>2. Len(q) \in 1 .. f.len /\ "in" \in {"in", "out"}
        BY <1>1
      <4>3. /\ Sound(a.blocks, m1, [hd EXCEPT ![a.handle] = [owner |-> "in", bytes |-> q]])
            /\ Below(m, m1)
        BY <1>1, <1>3, <1>6, <3>2, <4>2, SoundStored
      <4> QED
        BY <4>1, <4>3
    <3> QED
      BY <3>1, <3>2
  <2> HIDE DEF m1
  <2>2. CASE f.kind = "tcp"
    <3>1. ack = network_send(a.blocks, m1, NOBLOCK)
      BY <1>6, <2>2 DEF Answer, m1
    <3>2. PICK t : PoolOK(a.blocks, t)
      BY <2>1 DEF Sound
    <3>3. IsSent(a.blocks, m1, NOBLOCK, ack)
      BY <2>1, <3>1, <3>2, SendOK DEF Sound
    <3>4. ack.spills \in BOOLEAN
      BY <3>3 DEF IsSent
    <3>5. ~ ack.spills => Sound(ack.blocks, ack.mem, nh) /\ Below(m1, ack.mem)
      BY <2>1, <3>3, SoundSent
    <3> QED
      BY <2>1, <3>4, <3>5 DEF Below
  <2>3. CASE f.kind # "tcp"
    <3>1. ack = [blocks |-> a.blocks, mem |-> m1, spills |-> Spills(a)]
      BY <2>3 DEF Answer, m1
    <3>2. ack.blocks = a.blocks /\ ack.mem = m1 /\ ack.spills = Spills(a)
      BY <3>1
    <3> QED
      BY <1>4, <2>1, <3>2
  <2> QED
    BY <2>2, <2>3
<1> QED
  BY <1>5, <1>6

LEMMA InitInv == Init => Inv
<1> SUFFICES ASSUME Init PROVE Inv
  OBVIOUS
<1>1. mem \in Memory
  BY ZeroIn DEF Init, Memory, Addresses
<1>2. Sound(blocks, mem, held)
  <2>1. blocks = NoBlocks /\ held = [h \in Handles |-> NotHeld]
    BY Zenon DEF Init
  <2> QED
    BY <1>1, <2>1, SoundEmpty, Zenon
<1>3. RingOK(mem, nextPacketPtr, epktcnt, erxwrpt, erxrdpt)
  <2>1. nextPacketPtr = 0 /\ epktcnt = 0 /\ erxwrpt = 0 /\ erxrdpt = 0
    BY DEF Init, RXSTART_INIT
  <2> QED
    BY <2>1, RingEmpty
<1>4. RegsOK(regs)
  BY DEF Init, RegsOK, Selected
<1>5. PacketOK(receivePkt, inPacket, epktcnt)
  <2>1. receivePkt.begin = 0 /\ receivePkt.size = 0 /\ inPacket = FALSE /\ epktcnt = 0
    BY DEF Init, NoPkt
  <2>2. 0 \in 0 .. RXEND_INIT /\ 0 \in Nat /\ ~ (0 > 0)
    BY RingSizeIs
  <2> QED
    BY <2>1, <2>2 DEF PacketOK
<1>6. spilled \in BOOLEAN /\ started \in BOOLEAN /\ wrong \subseteq {"delivered"}
  BY DEF Init
<1> QED
  BY <1>2, <1>3, <1>4, <1>5, <1>6 DEF Inv

LEMMA StepInit ==
    ASSUME Inv, init
    PROVE  Inv'
<1> DEFINE m == IF inPacket THEN mem ELSE RingOnly(mem, 0, 0)
<1>1. mem \in Memory
  BY DEF Inv, Sound
<1>2. m \in Memory
  BY <1>1, RingOnlyIn
<1>3. mem' = PoolOnly(m, NoBlocks) /\ blocks' = NoBlocks /\ held' = [h \in Handles |-> NotHeld]
  BY Zenon DEF init
<1> HIDE DEF m
<1>4. Sound(NoBlocks, m, [h \in Handles |-> NotHeld])
  BY <1>2, SoundEmpty
<1>5. Sound(NoBlocks, PoolOnly(m, NoBlocks), [h \in Handles |-> NotHeld])
  BY <1>4, SoundPoolOnly
<1>6. Sound(blocks, mem, held)'
  BY <1>3, <1>5, Zenon
<1>7. RingOK(mem, nextPacketPtr, epktcnt, erxwrpt, erxrdpt)'
  <2>1. nextPacketPtr' = 0 /\ epktcnt' = 0 /\ erxwrpt' = 0 /\ erxrdpt' = 0
    BY DEF init, RXSTART_INIT
  <2> QED
    BY <2>1, RingEmpty
<1>8. RegsOK(regs)'
  <2>1. regs' = InitRegisters(regs) /\ RegsOK(regs)
    BY DEF init, Inv
  <2> QED
    BY <2>1, RegsInit
<1>9. PacketOK(receivePkt, inPacket, epktcnt)'
  <2>1. receivePkt' = receivePkt /\ inPacket' = inPacket /\ epktcnt' = 0
    BY DEF init
  <2> QED
    BY <2>1 DEF Inv, PacketOK
<1>10. (spilled \in BOOLEAN /\ started \in BOOLEAN /\ wrong \subseteq {"delivered"})'
  BY DEF init, Inv
<1> QED
  BY <1>6, <1>7, <1>8, <1>9, <1>10 DEF Inv

LEMMA StepArrive ==
    ASSUME Inv, NEW f \in Frames, NEW ok \in {0, 1}, Arrive(f, ok)
    PROVE  Inv'
<1> DEFINE F == Footprint(f)
           next == Ring(erxwrpt + F)
           q == Framed(f, ok, next)
<1>1. mem \in Memory /\ DOMAIN mem = Addresses
  BY DEF Inv, Sound, Memory
<1>2. PICK off, lead : RingAt(mem, nextPacketPtr, epktcnt, erxwrpt, erxrdpt, off, lead)
  BY DEF Inv, RingOK
<1>3. FreeInRing = RXEND_INIT - (lead + off[epktcnt])
  BY <1>2, FreeInRingIs
<1>4. /\ VectorLen \in Nat /\ VectorLen >= 2 /\ HeaderLen \in Nat /\ CrcLen \in Nat
      /\ f.len \in Nat
  BY FrameConstants
<1>5. erxwrpt \in 0 .. RXEND_INIT /\ erxwrpt \in Nat /\ RXEND_INIT \in Nat
      /\ lead \in Nat /\ off[epktcnt] \in Nat /\ epktcnt \in Nat
  BY <1>2, RingFacts, RingSizeIs
<1> DEFINE n == VectorLen + HeaderLen + f.len + CrcLen
<1>6. n \in Nat /\ n >= VectorLen /\ n >= VectorLen + HeaderLen
  BY <1>4
<1>7. F = n + (n % 2)
  BY DEF Footprint
<1>8. F \in Nat /\ F % 2 = 0 /\ n <= F
  <2> HIDE DEF n
  <2>1. n % 2 \in {0, 1}
    BY <1>6
  <2>2. (n + (n % 2)) % 2 = 0
    BY <1>6, <2>1
  <2> QED
    BY <1>6, <1>7, <2>1, <2>2
<1> HIDE DEF F
<1>9. next \in Int
  <2>1. erxwrpt + F \in Nat
    BY <1>5, <1>8
  <2>2. next \in 0 .. RXEND_INIT
    BY <2>1, RingIn
  <2> QED
    BY <2>2
<1>10. IsFramed(f, ok, next, q)
  BY <1>9, FramedIs
<1>11. /\ F <= FreeInRing
       /\ mem' = Arrived(mem, erxwrpt, q)
       /\ erxwrpt' = next /\ epktcnt' = epktcnt + 1
  BY <1>1 DEF Arrive, Arrived, F
<1> HIDE DEF q, next
<1>12. /\ q \in Seq(Cellset) /\ Len(q) = n
       /\ q[1].kind = "next" /\ q[1].i = next /\ q[2].len - CrcLen \in Nat
  <2>1. q[1] = Cell("next", 0, 0, next) /\ q[2] = Cell("stat", ok, HeaderLen + f.len + CrcLen, 0)
    BY <1>10 DEF IsFramed
  <2>2. q[1].kind = "next" /\ q[1].i = next /\ q[2].len = HeaderLen + f.len + CrcLen
    BY <2>1 DEF Cell
  <2> DEFINE l == HeaderLen + f.len + CrcLen
  <2>3. l - CrcLen \in Nat /\ l \in Nat
    BY <1>4
  <2>4. q \in Seq(Cellset) /\ Len(q) = n
    BY <1>10 DEF IsFramed
  <2>5. q[2].len - CrcLen \in Nat
    <3>1. q[2].len = l
      BY <2>2
    <3> HIDE DEF l
    <3> QED
      BY <2>3, <3>1
  <2> HIDE DEF n
  <2> QED
    BY <2>2, <2>4, <2>5
<1>13. lead + off[epktcnt] + F <= RXEND_INIT
  <2> DEFINE x == off[epktcnt]
  <2> HIDE DEF x
  <2>1. F <= RXEND_INIT - (lead + x) /\ x \in Nat
    BY <1>3, <1>5, <1>11 DEF x
  <2>2. lead + x + F <= RXEND_INIT
    BY <1>5, <1>8, <2>1
  <2> QED
    BY <2>2 DEF x
<1> HIDE DEF n
<1>14. /\ Arrived(mem, erxwrpt, q) \in Memory
       /\ \A a \in Addresses : a > RXEND_INIT => Arrived(mem, erxwrpt, q)[a] = mem[a]
       /\ RingOK(Arrived(mem, erxwrpt, q), nextPacketPtr, epktcnt + 1, Ring(erxwrpt + F), erxrdpt)
  <2>1. Len(q) <= F /\ VectorLen <= Len(q) /\ q[1].i = Ring(erxwrpt + F)
    BY <1>6, <1>8, <1>12 DEF next
  <2> QED
    BY <1>1, <1>2, <1>8, <1>12, <1>13, <2>1, RingArrive
<1>15. Sound(blocks, mem, held)'
  <2>1. PICK s : PoolOK(blocks, s)
    BY DEF Inv, Sound
  <2>2. Keeps(blocks, mem, mem')
    BY <1>1, <1>11, <1>14, <2>1, RingChange DEF Inv, Sound
  <2>3. Sound(blocks, mem', held)
    BY <2>2, SoundKeeps DEF Inv
  <2> QED
    BY <2>3 DEF Arrive
<1>16. RingOK(mem, nextPacketPtr, epktcnt, erxwrpt, erxrdpt)'
  <2>1. nextPacketPtr' = nextPacketPtr /\ erxrdpt' = erxrdpt
    BY DEF Arrive
  <2> QED
    BY <1>11, <1>14, <2>1 DEF next
<1>17. PacketOK(receivePkt, inPacket, epktcnt)'
  <2>1. receivePkt' = receivePkt /\ inPacket' = inPacket
    BY DEF Arrive
  <2>2. VectorLen + HeaderLen <= RXEND_INIT
    <3>1. VectorLen + HeaderLen <= F
      BY <1>4, <1>6, <1>8
    <3> DEFINE x == off[epktcnt]
    <3>2. x \in Nat /\ lead + x + F <= RXEND_INIT
      BY <1>5, <1>13
    <3> HIDE DEF x
    <3> QED
      BY <1>4, <1>5, <1>8, <3>1, <3>2
  <2> QED
    BY <2>1, <2>2 DEF Inv, PacketOK
<1> QED
  BY <1>15, <1>16, <1>17 DEF Inv, Arrive

LEMMA StepTickIdle ==
    ASSUME Inv, TickIdle
    PROVE  Inv'
<1>1. RegsOK(regs)'
  <2>1. regs' = Access(regs, 1) /\ RegsOK(regs) /\ 1 \in 0 .. 3
    BY DEF TickIdle, Inv
  <2> QED
    BY <2>1, RegsAccess
<1> QED
  BY <1>1 DEF Inv, TickIdle

LEMMA StepTickBadStatus ==
    ASSUME Inv, TickBadStatus
    PROVE  Inv'
<1> DEFINE p == Vector[1].i
           c == PktDec(epktcnt)
           rd == setERXRDPT(p)
           nm == RingOnly(mem, p, erxwrpt)
<1>1. epktcnt > 0
  BY DEF TickBadStatus
<1>2. RingOK(mem, p, c, erxwrpt, erxrdpt) /\ VectorLen + HeaderLen <= RXEND_INIT
  BY <1>1, NextIs
<1>3. /\ nextPacketPtr' = p /\ epktcnt' = c /\ erxrdpt' = rd /\ mem' = nm
      /\ regs' = Accesses(regs, <<1, 0, 0>>)
      /\ erxwrpt' = erxwrpt /\ blocks' = blocks /\ held' = held
      /\ receivePkt' = receivePkt /\ inPacket' = inPacket
  BY Zenon DEF TickBadStatus
<1>4. mem \in Memory
  BY DEF Inv, Sound
<1> HIDE DEF p, c
<1>5. RingOK(nm, p, c, erxwrpt, rd)
  BY <1>2, <1>4, RingFreedKept
<1>6. Sound(blocks, nm, held)
  BY SoundRingOnly DEF Inv
<1> HIDE DEF nm, rd
<1>7. Sound(blocks, mem, held)' /\ RingOK(mem, nextPacketPtr, epktcnt, erxwrpt, erxrdpt)'
  BY <1>3, <1>5, <1>6
<1>8. RegsOK(regs)'
  BY <1>3, RegsOfFrame DEF Inv
<1>9. PacketOK(receivePkt, inPacket, epktcnt)'
  BY <1>2, <1>3 DEF Inv, PacketOK
<1> QED
  BY <1>7, <1>8, <1>9 DEF Inv, TickBadStatus

LEMMA FreedPacket ==
    ASSUME NEW in, in = FALSE, NEW pkt, pkt = NoPkt, NEW c, VectorLen + HeaderLen <= RXEND_INIT
    PROVE  PacketOK(pkt, in, c)
<1>1. pkt.begin = 0 /\ pkt.size = 0
  BY DEF NoPkt
<1>2. pkt.begin \in 0 .. RXEND_INIT /\ pkt.size \in Nat
  BY <1>1, RingSizeIs
<1> QED
  BY <1>2, Zenon DEF PacketOK

LEMMA StepTickDrop ==
    ASSUME Inv, TickDrop
    PROVE  Inv'
<1>1. PICK t \in {Taken} :
        /\ nextPacketPtr' = t.next /\ epktcnt' = t.count
        /\ Freed(t)
        /\ regs' = Accesses(t.regs, <<0, 0>>)
        /\ mem' = RingOnly(mem, t.next, erxwrpt)
  BY Zenon DEF TickDrop
<1>2. CanTake /\ UNCHANGED <<erxwrpt, blocks, held, spilled, wrong, started>>
  BY Zenon DEF TickDrop
<1>3. /\ VectorLen + HeaderLen <= RXEND_INIT
      /\ RingOK(mem, t.next, t.count, erxwrpt, erxrdpt)
      /\ RegsOK(t.regs)
  BY <1>2, TakenIs
<1>4. mem \in Memory
  BY DEF Inv, Sound
<1>5. RingOK(RingOnly(mem, t.next, erxwrpt), t.next, t.count, erxwrpt, setERXRDPT(t.next))
  BY <1>3, <1>4, RingFreedKept
<1>6. Sound(blocks, RingOnly(mem, t.next, erxwrpt), held)
  BY SoundRingOnly DEF Inv
<1>7. inPacket' = FALSE /\ receivePkt' = NoPkt /\ erxrdpt' = setERXRDPT(t.next)
  BY <1>1 DEF Freed
<1>8. Sound(blocks, mem, held)' /\ RingOK(mem, nextPacketPtr, epktcnt, erxwrpt, erxrdpt)'
  BY <1>1, <1>2, <1>5, <1>6, <1>7
<1>9. RegsOK(regs)'
  BY <1>1, <1>3, RegsOfFrame
<1>10. PacketOK(receivePkt, inPacket, epktcnt)'
  BY <1>3, <1>7, FreedPacket
<1> QED
  BY <1>2, <1>8, <1>9, <1>10 DEF Inv

LEMMA StepTickDeliver ==
    ASSUME Inv, NEW f \in Frames, TickDeliver(f)
    PROVE  /\ Inv'
           /\ f.kind # "udp0" => wrong' = wrong
<1>1. CanTake /\ UNCHANGED <<erxwrpt, started>>
  BY Zenon DEF TickDeliver
<1>2. PICK t \in {Taken} :
        /\ f \in Recognised(t.pkt) /\ ChecksumOk(f, t.pkt)
        /\ \E a \in {allocBlock(blocks, mem, f.len)}, bytes \in {Body(t.pkt, f.len)} :
           \E ack \in {Answer(f, a, InBlocks(a, bytes))} :
              /\ nextPacketPtr' = t.next /\ epktcnt' = t.count
              /\ IF a.handle # NOBLOCK \/ f.kind # "tcp" THEN Freed(t)
                 ELSE inPacket' = TRUE /\ receivePkt' = t.pkt /\ UNCHANGED erxrdpt
              /\ regs' = Accesses(t.regs, <<0, 0>>)
              /\ spilled' = ack.spills
              /\ IF spilled' THEN UNCHANGED <<mem, blocks, held, wrong>>
                 ELSE /\ blocks' = ack.blocks
                      /\ mem' = PoolOnly(IF inPacket' THEN ack.mem
                                         ELSE RingOnly(ack.mem, t.next, erxwrpt), ack.blocks)
                      /\ held' = IF a.handle = NOBLOCK THEN held
                                 ELSE [held EXCEPT ![a.handle] =
                                          [owner |-> "in", bytes |-> bytes]]
                      /\ wrong' = Note("delivered",
                                       a.handle # NOBLOCK => bytes = Payload(f))
  BY Zenon DEF TickDeliver
<1>3. PICK a \in {allocBlock(blocks, mem, f.len)}, bytes \in {Body(t.pkt, f.len)} :
           \E ack \in {Answer(f, a, InBlocks(a, bytes))} :
              /\ nextPacketPtr' = t.next /\ epktcnt' = t.count
              /\ IF a.handle # NOBLOCK \/ f.kind # "tcp" THEN Freed(t)
                 ELSE inPacket' = TRUE /\ receivePkt' = t.pkt /\ UNCHANGED erxrdpt
              /\ regs' = Accesses(t.regs, <<0, 0>>)
              /\ spilled' = ack.spills
              /\ IF spilled' THEN UNCHANGED <<mem, blocks, held, wrong>>
                 ELSE /\ blocks' = ack.blocks
                      /\ mem' = PoolOnly(IF inPacket' THEN ack.mem
                                         ELSE RingOnly(ack.mem, t.next, erxwrpt), ack.blocks)
                      /\ held' = IF a.handle = NOBLOCK THEN held
                                 ELSE [held EXCEPT ![a.handle] =
                                          [owner |-> "in", bytes |-> bytes]]
                      /\ wrong' = Note("delivered",
                                       a.handle # NOBLOCK => bytes = Payload(f))
  BY <1>2, Zenon
<1>4. PICK ack \in {Answer(f, a, InBlocks(a, bytes))} :
              /\ nextPacketPtr' = t.next /\ epktcnt' = t.count
              /\ IF a.handle # NOBLOCK \/ f.kind # "tcp" THEN Freed(t)
                 ELSE inPacket' = TRUE /\ receivePkt' = t.pkt /\ UNCHANGED erxrdpt
              /\ regs' = Accesses(t.regs, <<0, 0>>)
              /\ spilled' = ack.spills
              /\ IF spilled' THEN UNCHANGED <<mem, blocks, held, wrong>>
                 ELSE /\ blocks' = ack.blocks
                      /\ mem' = PoolOnly(IF inPacket' THEN ack.mem
                                         ELSE RingOnly(ack.mem, t.next, erxwrpt), ack.blocks)
                      /\ held' = IF a.handle = NOBLOCK THEN held
                                 ELSE [held EXCEPT ![a.handle] =
                                          [owner |-> "in", bytes |-> bytes]]
                      /\ wrong' = Note("delivered",
                                       a.handle # NOBLOCK => bytes = Payload(f))
  BY <1>3, Zenon
<1>5. t = Taken /\ a = allocBlock(blocks, mem, f.len) /\ bytes = Body(t.pkt, f.len)
      /\ ack = Answer(f, a, InBlocks(a, bytes))
  BY Zenon
<1>6. /\ t.pkt.begin \in 0 .. RXEND_INIT /\ t.pkt.size \in Nat
      /\ VectorLen + HeaderLen <= RXEND_INIT
      /\ RingOK(mem, t.next, t.count, erxwrpt, erxrdpt)
      /\ RegsOK(t.regs)
  BY <1>1, <1>5, TakenIs
<1>7. mem \in Memory /\ Sound(blocks, mem, held)
  BY DEF Inv, Sound
<1>8. bytes \in Seq(Cellset) /\ Len(bytes) = f.len
  <2>1. f.len \in Nat
    BY FrameConstants
  <2> QED
    BY <1>5, <1>6, <1>7, <2>1, BodyIs
<1> DEFINE nh == IF a.handle = NOBLOCK THEN held
                 ELSE [held EXCEPT ![a.handle] = [owner |-> "in", bytes |-> bytes]]
<1>9. /\ ack.spills \in BOOLEAN
      /\ ~ ack.spills => Sound(ack.blocks, ack.mem, nh) /\ Below(mem, ack.mem)
  BY <1>5, <1>7, <1>8, AnswerIs
<1>10. RegsOK(regs)'
  BY <1>4, <1>6, RegsOfFrame
<1> DEFINE keep == ~ (a.handle # NOBLOCK \/ f.kind # "tcp")
<1>11. /\ keep => inPacket' = TRUE /\ receivePkt' = t.pkt /\ erxrdpt' = erxrdpt
       /\ ~ keep => inPacket' = FALSE /\ receivePkt' = NoPkt /\ erxrdpt' = setERXRDPT(t.next)
  BY <1>4 DEF Freed
<1> HIDE DEF keep, nh
<1>12. PacketOK(receivePkt, inPacket, epktcnt)'
  <2>1. CASE keep
    BY <1>6, <1>11, <2>1 DEF PacketOK
  <2>2. CASE ~ keep
    BY <1>6, <1>11, <2>2, FreedPacket
  <2> QED
    BY <2>1, <2>2
<1>13. nextPacketPtr' = t.next /\ epktcnt' = t.count /\ erxwrpt' = erxwrpt
  BY <1>1, <1>4
<1>14. RingOK(mem, t.next, t.count, erxwrpt, setERXRDPT(t.next))
  <2>1. PICK off, lead : RingAt(mem, t.next, t.count, erxwrpt, erxrdpt, off, lead)
    BY <1>6 DEF RingOK
  <2>2. RingAt(mem, t.next, t.count, erxwrpt, setERXRDPT(t.next), off, 1)
    BY <2>1, RingFreed
  <2> QED
    BY <2>2 DEF RingOK
<1>15. CASE ack.spills
  <2>1. mem' = mem /\ blocks' = blocks /\ held' = held /\ wrong' = wrong
    BY <1>4, <1>15
  <2>2. RingOK(mem, nextPacketPtr, epktcnt, erxwrpt, erxrdpt)'
    BY <1>6, <1>11, <1>13, <1>14, <2>1
  <2>3. spilled' \in BOOLEAN /\ started' = started
    BY <1>1, <1>4, <1>9
  <2> QED
    BY <1>10, <1>12, <2>1, <2>2, <2>3 DEF Inv
<1>16. CASE ~ ack.spills
  <2> DEFINE m == IF inPacket' THEN ack.mem ELSE RingOnly(ack.mem, t.next, erxwrpt)
  <2>1. Sound(ack.blocks, ack.mem, nh) /\ Below(mem, ack.mem) /\ ack.mem \in Memory
    BY <1>9, <1>16 DEF Sound
  <2>2. \A x \in Addresses : x <= RXEND_INIT => ack.mem[x] = mem[x]
    <3>1. \A x \in Addresses : x <= RXEND_INIT => x < MEMPOOL_STARTADDRESS
      BY Constants DEF Addresses
    <3> QED
      BY <2>1, <3>1 DEF Below
  <2>3. RingOK(ack.mem, t.next, t.count, erxwrpt, erxrdpt)
    BY <1>6, <2>2, RingBelow
  <2>4. RingOK(m, t.next, t.count, erxwrpt, erxrdpt')
    <3>1. CASE keep
      BY <1>11, <2>3, <3>1
    <3>2. CASE ~ keep
      <4>1. m = RingOnly(ack.mem, t.next, erxwrpt) /\ erxrdpt' = setERXRDPT(t.next)
        BY <1>11, <3>2
      <4> QED
        BY <2>1, <2>3, <4>1, RingFreedKept
    <3> QED
      BY <3>1, <3>2
  <2>5. Sound(ack.blocks, m, nh)
    BY <2>1, SoundRingOnly
  <2>6. /\ blocks' = ack.blocks /\ mem' = PoolOnly(m, ack.blocks) /\ held' = nh
        /\ wrong' = Note("delivered", a.handle # NOBLOCK => bytes = Payload(f))
    BY <1>4, <1>16, Zenon DEF nh
  <2> HIDE DEF m
  <2>7. /\ Sound(ack.blocks, PoolOnly(m, ack.blocks), nh)
        /\ \A x \in Addresses : x <= RXEND_INIT => PoolOnly(m, ack.blocks)[x] = m[x]
    BY <2>5, SoundPoolOnly
  <2>8. RingOK(PoolOnly(m, ack.blocks), t.next, t.count, erxwrpt, erxrdpt')
    BY <2>4, <2>7, RingBelow
  <2>9. Sound(blocks, mem, held)' /\ RingOK(mem, nextPacketPtr, epktcnt, erxwrpt, erxrdpt)'
    BY <1>13, <2>6, <2>7, <2>8
  <2>10. spilled' \in BOOLEAN /\ started' = started
    BY <1>1, <1>4, <1>9
  <2>11. wrong' \subseteq {"delivered"}
    BY <2>6 DEF Note, Inv
  <2>12. f.kind # "udp0" => wrong' = wrong
    <3>1. f.kind # "udp0" => bytes = Payload(f)
      BY <1>2, <1>5 DEF ChecksumOk
    <3> QED
      BY <2>6, <3>1 DEF Note
  <2> QED
    BY <1>10, <1>12, <2>9, <2>10, <2>11, <2>12 DEF Inv
<1> QED
  BY <1>9, <1>15, <1>16

\* What an action of a socket does: the ring and the driver stay as they are.
LEMMA SocketStep ==
    ASSUME Inv, NEW nb, NEW m, NEW nh, Sound(nb, m, nh),
           \A a \in Addresses : a <= RXEND_INIT => m[a] = mem[a],
           blocks' = nb, mem' = PoolOnly(m, nb), held' = nh,
           UNCHANGED <<erxrdpt, erxwrpt, epktcnt, nextPacketPtr, receivePkt, inPacket, started>>,
           RegsOK(regs'), spilled' \in BOOLEAN, wrong' \subseteq {"delivered"}
    PROVE  Inv'
<1>1. Sound(nb, PoolOnly(m, nb), nh) /\ \A a \in Addresses : a <= RXEND_INIT => PoolOnly(m, nb)[a] = m[a]
  BY SoundPoolOnly
<1>2. RingOK(PoolOnly(m, nb), nextPacketPtr, epktcnt, erxwrpt, erxrdpt)
  <2>1. \A a \in Addresses : a <= RXEND_INIT => PoolOnly(m, nb)[a] = mem[a]
    BY <1>1
  <2>2. RingOK(mem, nextPacketPtr, epktcnt, erxwrpt, erxrdpt)
    BY DEF Inv
  <2> QED
    BY <2>1, <2>2, RingBelow
<1>3. Sound(blocks, mem, held)' /\ RingOK(mem, nextPacketPtr, epktcnt, erxwrpt, erxrdpt)'
  BY <1>1, <1>2
<1> QED
  BY <1>3 DEF Inv

LEMMA BelowRing ==
    ASSUME NEW m, NEW nm, Below(m, nm)
    PROVE  \A a \in Addresses : a <= RXEND_INIT => nm[a] = m[a]
<1>1. \A a \in Addresses : a <= RXEND_INIT => a < MEMPOOL_STARTADDRESS
  BY Constants DEF Addresses
<1> QED
  BY <1>1 DEF Below

LEMMA StepRead ==
    ASSUME Inv, NEW h \in Handles, NEW n, Read(h, n)
    PROVE  Inv'
<1> DEFINE q == held[h].bytes
           left == SubSeq(q, n + 1, Len(q))
           nb == IF n = blockSize(blocks, h) THEN freeBlock(blocks, h) ELSE resizeBlock(blocks, h, n)
           nh == [held EXCEPT ![h] = IF left = <<>> THEN NotHeld ELSE [held[h] EXCEPT !.bytes = left]]
<1>1. /\ held[h].owner = "in" /\ n \in 1 .. Len(q)
      /\ blocks' = nb /\ mem' = PoolOnly(mem, nb) /\ held' = nh
      /\ UNCHANGED <<erxrdpt, erxwrpt, epktcnt, nextPacketPtr, receivePkt, inPacket, started>>
      /\ regs' = regs /\ spilled' = spilled /\ wrong' = wrong
  BY Zenon DEF Read
<1>2. Sound(blocks, mem, held)
  BY DEF Inv
<1>3. held[h] \in Holding /\ HoldsAt(blocks[h], mem, held[h])
  BY <1>2 DEF Sound
<1>4. q \in Seq(Cellset) /\ Len(q) \in Nat /\ blockSize(blocks, h) = Len(q)
  BY <1>1, <1>3 DEF Holding, HoldsAt, blockSize
<1>5. held[h] = [owner |-> "in", bytes |-> q]
  BY <1>1, <1>3 DEF Holding
<1> HIDE DEF q
<1>6. Sound(nb, mem, nh)
  <2>1. CASE n = Len(q)
    <3>1. left = <<>>
      BY <1>4, <2>1
    <3>2. nb = freeBlock(blocks, h) /\ nh = [held EXCEPT ![h] = NotHeld]
      BY <1>4, <2>1, <3>1
    <3>3. Sound(freeBlock(blocks, h), mem, [held EXCEPT ![h] = NotHeld])
      BY <1>1, <1>2, SoundFreed
    <3> QED
      BY <3>2, <3>3
  <2>2. CASE n # Len(q)
    <3>1. n < Len(q)
      BY <1>1, <1>4, <2>2
    <3>2. left # <<>>
      <4>1. Len(left) = Len(q) - n
        BY <1>1, <1>4
      <4> HIDE DEF left
      <4> QED
        BY <1>1, <1>4, <3>1, <4>1
    <3> HIDE DEF left
    <3>3. [held[h] EXCEPT !.bytes = left] = [owner |-> "in", bytes |-> left]
      BY <1>5
    <3>4. nb = resizeBlock(blocks, h, n) /\ nh = [held EXCEPT ![h] = [owner |-> "in", bytes |-> left]]
      BY <1>4, <2>2, <3>2, <3>3
    <3>5. Sound(resizeBlock(blocks, h, n), mem, [held EXCEPT ![h] = [owner |-> "in", bytes |-> left]])
      BY <1>1, <1>2, <3>1, SoundRead DEF q, left
    <3> QED
      BY <3>4, <3>5
  <2> QED
    BY <2>1, <2>2
<1> HIDE DEF nb, nh
<1>7. RegsOK(regs') /\ spilled' \in BOOLEAN /\ wrong' \subseteq {"delivered"}
  BY <1>1 DEF Inv
<1> QED
  BY <1>1, <1>6, <1>7, SocketStep

LEMMA WrittenIs ==
    ASSUME NEW w \in Writes
    PROVE  Written(w) \in Seq(Cellset) /\ Len(Written(w)) = w.len
<1>1. w.tag \in Nat /\ w.len \in Nat
  BY FrameConstants
<1>2. \A i \in 1 .. w.len : Cell("app", w.tag, w.len, i) \in Cellset
  BY <1>1 DEF Cell, Cellset, Kinds
<1>3. Written(w) \in [1 .. w.len -> Cellset]
  BY <1>2 DEF Written
<1> QED
  BY <1>1, <1>3

LEMMA StepWrite ==
    ASSUME Inv, NEW w \in Writes, Write(w)
    PROVE  Inv'
<1> DEFINE q == Written(w)
           size == UIP_SOCKET_DATALEN
<1>1. PICK a \in {allocBlock(blocks, mem, size)} :
          /\ spilled' = Spills(a)
          /\ IF spilled' THEN UNCHANGED <<mem, blocks, held>>
             ELSE /\ blocks' = a.blocks
                  /\ mem' = PoolOnly(InBlocks(a, q), a.blocks)
                  /\ held' = IF a.handle = NOBLOCK THEN held
                             ELSE [held EXCEPT ![a.handle] = [owner |-> "out", bytes |-> q]]
  BY Zenon DEF Write
<1>2. UNCHANGED <<erxrdpt, erxwrpt, epktcnt, regs, nextPacketPtr, receivePkt, inPacket,
                  wrong, started>>
  BY Zenon DEF Write
<1>3. size \in Nat \ {0} /\ Len(q) \in 1 .. size /\ q \in Seq(Cellset)
  BY FrameConstants, WrittenIs
<1>4. Sound(blocks, mem, held)
  BY DEF Inv
<1>5. PICK s : PoolOK(blocks, s)
  BY <1>4 DEF Sound
<1>6. IsAllocated(blocks, mem, size, a)
  BY <1>1, <1>3, <1>4, <1>5, AllocOK DEF Sound
<1>7. Spills(a) \in BOOLEAN
  BY DEF Spills
<1>8. RegsOK(regs') /\ wrong' \subseteq {"delivered"}
  BY <1>2 DEF Inv
<1> HIDE DEF q, size
<1>9. CASE Spills(a)
  <2>1. mem' = mem /\ blocks' = blocks /\ held' = held /\ spilled' \in BOOLEAN
    BY <1>1, <1>7, <1>9
  <2> QED
    BY <1>2, <2>1 DEF Inv
<1>10. CASE ~ Spills(a)
  <2> DEFINE m == InBlocks(a, q)
             nh == IF a.handle = NOBLOCK THEN held
                   ELSE [held EXCEPT ![a.handle] = [owner |-> "out", bytes |-> q]]
  <2>1. blocks' = a.blocks /\ mem' = PoolOnly(m, a.blocks) /\ held' = nh /\ spilled' \in BOOLEAN
    BY <1>1, <1>7, <1>10
  <2>2. Sound(a.blocks, m, nh) /\ Below(mem, m)
    <3>1. CASE a.handle = NOBLOCK
      <4>1. nh = held
        BY <3>1
      <4> QED
        BY <1>4, <1>6, <3>1, <4>1, SoundUnstored
    <3>2. CASE a.handle # NOBLOCK
      <4>1. nh = [held EXCEPT ![a.handle] = [owner |-> "out", bytes |-> q]]
        BY <3>2
      <4>2. "out" \in {"in", "out"} /\ "out" # "in"
        OBVIOUS
      <4>3. /\ Sound(a.blocks, m, [held EXCEPT ![a.handle] = [owner |-> "out", bytes |-> q]])
            /\ Below(mem, m)
        BY <1>3, <1>4, <1>6, <1>10, <3>2, <4>2, SoundStored
      <4> QED
        BY <4>1, <4>3
    <3> QED
      BY <3>1, <3>2
  <2> HIDE DEF m, nh
  <2>3. \A x \in Addresses : x <= RXEND_INIT => m[x] = mem[x]
    BY <2>2, BelowRing
  <2>4. UNCHANGED <<erxrdpt, erxwrpt, epktcnt, nextPacketPtr, receivePkt, inPacket, started>>
    BY <1>2
  <2> QED
    BY <1>8, <2>1, <2>2, <2>3, <2>4, SocketStep
<1> QED
  BY <1>9, <1>10

LEMMA StepSend ==
    ASSUME Inv, NEW h \in Handles, Send(h)
    PROVE  Inv' /\ wrong' = wrong
<1> DEFINE q == held[h].bytes
           cut == cutBlock(blocks, h, Len(q))
<1>1. PICK s \in {network_send(cut, mem, h)} :
          /\ spilled' = s.spills
          /\ IF spilled' THEN UNCHANGED <<mem, blocks, wrong>>
             ELSE /\ blocks' = s.blocks
                  /\ mem' = PoolOnly(s.mem, s.blocks)
                  /\ wrong' = Note("sent", s.ok => s.frame = OutHeader \o q)
  BY Zenon DEF Send
<1>2. /\ held[h].owner = "out" /\ regs' = Access(regs, 0) /\ held' = held
      /\ UNCHANGED <<erxrdpt, erxwrpt, epktcnt, nextPacketPtr, receivePkt, inPacket, started>>
  BY Zenon DEF Send
<1>3. Sound(blocks, mem, held)
  BY DEF Inv
<1>4. Sound(cut, mem, held) /\ cut[h].size = Len(q) /\ Len(q) > 0
  BY <1>2, <1>3, SoundCut
<1>5. Linear(mem, cut[h].begin, Len(q)) = q
  BY <1>2, <1>4, HeldIs
<1> HIDE DEF cut, q
<1>6. IsSent(cut, mem, h, s)
  <2>1. PICK t : PoolOK(cut, t)
    BY <1>4 DEF Sound
  <2>2. h \in {NOBLOCK} \cup Handles /\ cut[h].size > 0
    BY <1>4
  <2> QED
    BY <1>1, <1>4, <2>1, <2>2, SendOK DEF Sound
<1>7. s.ok => s.frame = OutHeader \o q
  <2>1. h # NOBLOCK
    BY Constants
  <2>2. s.ok => s.frame = OutHeader \o Linear(mem, cut[h].begin, cut[h].size)
    BY <1>6, <2>1 DEF IsSent
  <2>3. Linear(mem, cut[h].begin, cut[h].size) = q
    BY <1>4, <1>5
  <2> QED
    BY <2>2, <2>3, Zenon
<1>8. wrong' = wrong
  BY <1>1, <1>7 DEF Note
<1>9. RegsOK(regs') /\ wrong' \subseteq {"delivered"}
  <2>1. 0 \in 0 .. 3 /\ RegsOK(regs)
    BY DEF Inv
  <2> QED
    BY <1>2, <1>8, <2>1, RegsAccess DEF Inv
<1>10. spilled' \in BOOLEAN
  BY <1>1, <1>6 DEF IsSent
<1>11. CASE s.spills
  <2>1. mem' = mem /\ blocks' = blocks
    BY <1>1, <1>11
  <2> QED
    BY <1>2, <1>8, <1>9, <1>10, <2>1 DEF Inv
<1>12. CASE ~ s.spills
  <2>1. blocks' = s.blocks /\ mem' = PoolOnly(s.mem, s.blocks)
    BY <1>1, <1>12
  <2>2. Sound(s.blocks, s.mem, held) /\ Below(mem, s.mem)
    BY <1>4, <1>6, <1>12, SoundSent
  <2>3. \A x \in Addresses : x <= RXEND_INIT => s.mem[x] = mem[x]
    BY <2>2, BelowRing
  <2> QED
    BY <1>2, <1>8, <1>9, <1>10, <2>1, <2>2, <2>3, SocketStep
<1> QED
  BY <1>11, <1>12

LEMMA StepDone ==
    ASSUME Inv, NEW h \in Handles, Done(h)
    PROVE  Inv'
<1>1. /\ held[h].owner # "none"
      /\ blocks' = freeBlock(blocks, h) /\ held' = [held EXCEPT ![h] = NotHeld]
      /\ mem' = PoolOnly(mem, blocks')
      /\ UNCHANGED <<erxrdpt, erxwrpt, epktcnt, nextPacketPtr, receivePkt, inPacket, started>>
      /\ regs' = regs /\ spilled' = spilled /\ wrong' = wrong
  BY Zenon DEF Done
<1>2. Sound(freeBlock(blocks, h), mem, [held EXCEPT ![h] = NotHeld])
  BY <1>1, SoundFreed DEF Inv
<1>3. RegsOK(regs') /\ spilled' \in BOOLEAN /\ wrong' \subseteq {"delivered"}
  BY <1>1 DEF Inv
<1>4. mem' = PoolOnly(mem, freeBlock(blocks, h))
  BY <1>1
<1> QED
  BY <1>1, <1>2, <1>3, <1>4, SocketStep

\* No frame comes without a checksum.
AllSummed == \A f \in Frames : f.kind # "udp0"

LEMMA StepTick ==
    ASSUME Inv, Tick
    PROVE  Inv' /\ (AllSummed => wrong' = wrong)
<1>1. CASE TickIdle
  BY <1>1, StepTickIdle DEF TickIdle
<1>2. CASE TickBadStatus
  BY <1>2, StepTickBadStatus DEF TickBadStatus
<1>3. CASE TickDrop
  BY <1>3, StepTickDrop DEF TickDrop
<1>4. CASE \E f \in Frames : TickDeliver(f)
  <2>1. PICK f \in Frames : TickDeliver(f)
    BY <1>4
  <2> QED
    BY <2>1, StepTickDeliver DEF AllSummed
<1> QED
  BY <1>1, <1>2, <1>3, <1>4 DEF Tick

LEMMA StepAny ==
    ASSUME Inv, [Next]_vars
    PROVE  Inv' /\ (AllSummed => wrong' = wrong)
<1>1. CASE init
  BY <1>1, StepInit DEF init
<1>2. CASE \E f \in Frames : Arrive(f, 1)
  <2>1. PICK f \in Frames : Arrive(f, 1)
    BY <1>2
  <2> QED
    BY <2>1, StepArrive DEF Arrive
<1>3. CASE Arrive(CHOOSE f \in Frames : TRUE, 0)
  <2> DEFINE f == CHOOSE f \in Frames : TRUE
  <2>1. f \in Frames
    BY FrameAssumption
  <2>2. Arrive(f, 0)
    BY <1>3
  <2> HIDE DEF f
  <2> QED
    BY <2>1, <2>2, StepArrive DEF Arrive
<1>4. CASE Tick
  BY <1>4, StepTick
<1>5. CASE \E h \in Handles, n \in {f.len : f \in Frames} : Read(h, n)
  <2>1. PICK h \in Handles, n \in {f.len : f \in Frames} : Read(h, n)
    BY <1>5
  <2> QED
    BY <2>1, StepRead DEF Read
<1>6. CASE \E w \in Writes : Write(w)
  <2>1. PICK w \in Writes : Write(w)
    BY <1>6
  <2> QED
    BY <2>1, StepWrite DEF Write
<1>7. CASE \E h \in Handles : Send(h) \/ Done(h)
  <2>1. PICK h \in Handles : Send(h) \/ Done(h)
    BY <1>7
  <2>2. CASE Send(h)
    BY <2>2, StepSend
  <2>3. CASE Done(h)
    BY <2>3, StepDone DEF Done
  <2> QED
    BY <2>1, <2>2, <2>3
<1>8. CASE UNCHANGED vars
  BY <1>8 DEF vars, Inv
<1> QED
  BY <1>1, <1>2, <1>3, <1>4, <1>5, <1>6, <1>7, <1>8 DEF Next

LEMMA Invariance == Spec => []Inv
<1>1. Inv /\ [Next]_vars => Inv'
  BY StepAny
<1> QED
  BY <1>1, InitInv, PTL DEF Spec

-----------------------------------------------------------------------------
(***************************************************************************)
(* What the invariant implies                                              *)
(***************************************************************************)
LEMMA TypeHolds == Inv => TypeOK
<1> SUFFICES ASSUME Inv PROVE TypeOK
  OBVIOUS
<1>1. PICK off, lead : RingAt(mem, nextPacketPtr, epktcnt, erxwrpt, erxrdpt, off, lead)
  BY DEF Inv, RingOK
<1>2. PICK s : PoolOK(blocks, s)
  BY DEF Inv, Sound
<1>3. /\ {erxrdpt, erxwrpt, nextPacketPtr, receivePkt.begin} \subseteq RXSTART_INIT .. RXEND_INIT
      /\ epktcnt \in Nat /\ receivePkt.size \in Nat
  <2>1. /\ epktcnt \in Nat /\ nextPacketPtr \in 0 .. RXEND_INIT
        /\ erxwrpt \in 0 .. RXEND_INIT /\ erxrdpt \in 0 .. RXEND_INIT
    BY RingCount DEF Inv
  <2>2. receivePkt.begin \in 0 .. RXEND_INIT /\ receivePkt.size \in Nat
    BY DEF Inv, PacketOK
  <2> QED
    BY <2>1, <2>2 DEF RXSTART_INIT
<1>4. /\ regs.bank \in {0, 1, 2, 3, 255} /\ regs.chip \in 0 .. 3 /\ regs.missed \in BOOLEAN
      /\ ~ regs.missed
  <2>1. RegsOK(regs)
    BY DEF Inv
  <2>2. PICK bank \in {0, 1, 2, 3, 255}, chip \in 0 .. 3 :
          regs = Selected(bank, chip) /\ (bank \in 0 .. 3 => bank = chip)
    BY <2>1, RegsAre
  <2>3. regs.bank = bank /\ regs.chip = chip /\ regs.missed = FALSE
    BY <2>2 DEF Selected
  <2> QED
    BY <2>3
<1>5. \A h \in Handles :
        /\ blocks[h].size \in 0 .. MEMPOOL_SIZE
        /\ blocks[h].nextblock \in {NOBLOCK} \cup Handles
  <2> TAKE h \in Handles
  <2>1. blocks[h] \in Descriptor
    BY <1>2, Constants DEF PoolOK
  <2>2. blocks[h].nextblock \in {NOBLOCK} \cup Handles
    BY <2>1 DEF Descriptor, Descriptors, NOBLOCK, POOLSTART
  <2>3. blocks[h].size \in 0 .. MEMPOOL_SIZE
    BY <1>2, BlockFacts, Constants
  <2> QED
    BY <2>2, <2>3
<1>6. inPacket \in BOOLEAN /\ spilled \in BOOLEAN /\ wrong \subseteq {"delivered", "sent"}
      /\ started \in BOOLEAN
  BY DEF Inv, PacketOK
<1>7. \A n \in 0 .. epktcnt : Walk[n] = Ring(nextPacketPtr + off[n])
  BY <1>1, WalkIs
<1>8. Walk[epktcnt] = erxwrpt
  <2>1. epktcnt \in 0 .. epktcnt
    BY <1>3
  <2> QED
    BY <1>1, <1>7, <2>1 DEF RingAt
<1>9. \A n \in 0 .. epktcnt - 1 : mem[Walk[n]].kind = "next"
  <2> TAKE n \in 0 .. epktcnt - 1
  <2>1. n \in 0 .. epktcnt
    BY <1>3
  <2> QED
    BY <1>1, <1>7, <2>1 DEF RingAt, Slot
<1> QED
  BY <1>3, <1>4, <1>5, <1>6, <1>8, <1>9 DEF TypeOK

LEMMA PoolHolds == Inv => PoolSound
<1> SUFFICES ASSUME Inv PROVE PoolSound
  OBVIOUS
<1>1. PICK s : PoolOK(blocks, s)
  BY DEF Inv, Sound
<1>2. Chain(blocks) = s
  BY <1>1, ChainIs DEF PoolOK
<1>3. s \in Seq(Descriptors) /\ Len(s) \in Nat /\ Len(s) >= 1 /\ s[1] = POOLSTART
  BY <1>1 DEF PoolOK, Lists
<1>4. Range(s) = {POOLSTART} \cup InUse
  <2>1. Range(s) = {s[i] : i \in 1 .. Len(s)}
    BY <1>3 DEF Range
  <2>2. \A h \in Handles : h \in InUse <=> \E i \in 1 .. Len(s) : s[i] = h
    BY <1>1 DEF PoolOK, InOrder, InUse
  <2>3. \A i \in 1 .. Len(s) : s[i] = POOLSTART \/ s[i] \in Handles
    BY <1>3 DEF Descriptors
  <2>4. InUse \subseteq Handles /\ 1 \in 1 .. Len(s)
    BY <1>3 DEF InUse
  <2>5. ASSUME NEW x \in Range(s)
        PROVE  x \in {POOLSTART} \cup InUse
    BY <2>1, <2>2, <2>3
  <2>6. ASSUME NEW x \in {POOLSTART} \cup InUse
        PROVE  x \in Range(s)
    BY <1>3, <2>1, <2>2, <2>4
  <2> QED
    BY <2>5, <2>6
<1>5. \A i \in 1 .. Len(s) - 1 : End(blocks[s[i]]) <= blocks[s[i + 1]].begin
  <2> TAKE i \in 1 .. Len(s) - 1
  <2>1. i \in 1 .. Len(s) /\ i + 1 \in 1 .. Len(s) /\ i < i + 1
    BY <1>3
  <2> QED
    BY <1>1, <2>1 DEF PoolOK, InOrder
<1>6. InUse = {h \in Handles : held[h].owner # "none"}
  <2>1. \A h \in Handles : blocks[h].size > 0 <=> held[h].owner # "none"
    <3> TAKE h \in Handles
    <3>1. blocks[h].size \in Nat
      BY <1>1, BlockFacts
    <3>2. held[h].owner = "none" <=> blocks[h].size = 0
      BY DEF Inv, Sound, HoldsAt
    <3> QED
      BY <3>1, <3>2
  <2> QED
    BY <2>1 DEF InUse
<1> QED
  BY <1>2, <1>4, <1>5, <1>6, Zenon DEF PoolSound

LEMMA ContentsHold == Inv => ContentsKept
<1> SUFFICES ASSUME Inv, NEW h \in Handles, held[h].owner # "none"
             PROVE  Linear(mem, blocks[h].begin, Len(held[h].bytes)) = held[h].bytes
  BY Zenon DEF ContentsKept
<1> QED
  BY HeldIs DEF Inv

LEMMA RoomHolds == Inv => RoomIsFound
<1> SUFFICES ASSUME Inv, InUse # Handles, NEW n \in 1 .. Unallocated
             PROVE  allocBlock(blocks, mem, n).handle # NOBLOCK
  BY DEF RoomIsFound
<1>1. PICK s : PoolOK(blocks, s)
  BY DEF Inv, Sound
<1>2. Chain(blocks) = s
  BY <1>1, ChainIs DEF PoolOK
<1>3. Unallocated = MEMPOOL_SIZE - Lengths(blocks, s)[Len(s) + 1]
  BY <1>2, Zenon DEF Unallocated
<1>4. SumsTo(blocks, s, Len(s) + 1, Lengths(blocks, s))
  <2>1. Len(s) \in Nat /\ \A i \in 1 .. Len(s) : blocks[s[i]].size \in Nat
    BY <1>1, ListFacts DEF PoolOK, Lists
  <2> QED
    BY <2>1, LengthsAre
<1>5. Unused(blocks) # {}
  <2>1. PICK h \in Handles : h \notin InUse
    BY DEF InUse
  <2>2. blocks[h].size \in Nat /\ ~ (blocks[h].size > 0)
    BY <1>1, <2>1, BlockFacts DEF InUse
  <2> QED
    BY <2>2 DEF Unused
<1>6. n \in Nat \ {0} /\ n <= MEMPOOL_SIZE - Lengths(blocks, s)[Len(s) + 1]
  <2> DEFINE x == Lengths(blocks, s)[Len(s) + 1]
  <2>1. x \in Nat /\ MEMPOOL_SIZE \in Nat
    <3>1. Len(s) + 1 \in 1 .. Len(s) + 1
      BY <1>1 DEF PoolOK, Lists
    <3> QED
      BY <1>4, <3>1, Constants DEF SumsTo
  <2> HIDE DEF x
  <2>2. n \in 1 .. MEMPOOL_SIZE - x
    BY <1>3 DEF x
  <2>3. n \in Nat \ {0} /\ n <= MEMPOOL_SIZE - x
    BY <2>1, <2>2
  <2> QED
    BY <2>3 DEF x
<1> QED
  BY <1>1, <1>5, <1>6, RoomLemma DEF Inv, Sound

-----------------------------------------------------------------------------
(***************************************************************************)
(* Theorems                                                                *)
(***************************************************************************)
\* Driver and chip stay in step (receivePacket, setERXRDPT, freePacket,
\* setBank): the pointers stay inside the receive ring, the driver finds every
\* frame the chip has stored and nothing else, and no register access goes to
\* another bank, whatever arrives and however often init is called.
THEOREM TypeCorrect == Spec => []TypeOK
  BY Invariance, TypeHolds, PTL

\* The list of descriptors reaches exactly the blocks in use, in address order
\* and without overlap, and each of them has an owner (MemPool.cpp, and
\* TickDeliver, Read, Write, Send and Done as its callers).
THEOREM PoolCorrect == Spec => []PoolSound
  BY Invariance, PoolHolds, PTL

\* A block keeps the bytes its owner put there, through the collections of
\* allocBlock, the control bytes of sendPacket and the frames that arrive.
THEOREM ContentsCorrect == Spec => []ContentsKept
  BY Invariance, ContentsHold, PTL

\* allocBlock fails only for want of a descriptor or of bytes: the collection
\* makes one gap of all that are unused.
THEOREM RoomCorrect == Spec => []RoomIsFound
  BY Invariance, RoomHolds, PTL

\* Where every frame has a checksum, a socket never gets bytes that are not
\* the payload it was sent (chksum, copyPacket); what is sent are always the
\* bytes the socket wrote (network_send, sendPacket).
THEOREM FramesCorrect == AllSummed => (Spec => []FramesIntact)
<1> SUFFICES ASSUME AllSummed PROVE Spec => []FramesIntact
  OBVIOUS
<1>1. Init => FramesIntact
  BY DEF Init, FramesIntact
<1>2. Inv /\ FramesIntact /\ [Next]_vars => FramesIntact'
  BY StepAny DEF FramesIntact
<1> QED
  BY <1>1, <1>2, Invariance, PTL DEF Spec
=============================================================================
