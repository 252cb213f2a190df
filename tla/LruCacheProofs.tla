--------------------------- MODULE LruCacheProofs ---------------------------
(***************************************************************************)
(* Theorems about LruCache, for every set of keys and values and every     *)
(* size of the cache and of its blocks: the lists are in order after every *)
(* sequence of operations, no CHECK fails, and the pointers implement      *)
(* LruMap.                                                                 *)
(*                                                                         *)
(* Recursive functions are fixpoints that CHOOSE picks: a lemma about one  *)
(* first shows that there is a fixpoint (IterationExists).                 *)
(***************************************************************************)
EXTENDS LruCache, FiniteSetTheorems, SequenceTheorems, WellFoundedInduction, TLAPS

-----------------------------------------------------------------------------
(***************************************************************************)
(* Iteration.                                                              *)
(***************************************************************************)

\* What holds of a, and of each number if it holds of the one before, holds up
\* to n.
LEMMA IntervalInduction ==
  ASSUME NEW a \in Int, NEW n \in Int, NEW B, a \in B,
         \A i \in (a + 1)..n : i - 1 \in B => i \in B
  PROVE  \A i \in a..n : i \in B
<1> DEFINE T == { k \in Nat : a + k <= n /\ a + k \notin B }
<1>1. T = {}
  <2> SUFFICES ASSUME T # {} PROVE FALSE
    OBVIOUS
  <2>1. T \in SUBSET Nat
    OBVIOUS
  <2>2. PICK k \in T : \A y \in T : ~ (<<y, k>> \in OpToRel(<, Nat))
    <3> HIDE DEF T
    <3> QED BY <2>1, NatLessThanWellFounded, WFMin
  <2>3. \A y \in T : ~ (y < k)
    BY <2>2 DEF OpToRel
  <2>4. k # 0
    OBVIOUS
  <2>5. k - 1 \in Nat /\ k - 1 < k /\ a + (k - 1) = a + k - 1
    BY <2>4
  <2>6. a + k - 1 \in B
    BY <2>3, <2>5
  <2>7. a + k \in (a + 1)..n
    BY <2>4
  <2> QED BY <2>6, <2>7
<1> TAKE i \in a..n
<1>2. i - a \in Nat /\ a + (i - a) = i /\ i <= n
  OBVIOUS
<1>3. i - a \notin T
  BY <1>1
<1> QED BY <1>2, <1>3

\* F is a step of an iteration of n rounds that stays in D, and g the iteration.
StepsIn(F, D, n) == F \in [ D \X (1..n) -> D ]

IsIteration(g, F, D, n, base) ==
  /\ g \in [ 0..n -> D ]
  /\ g[0] = base
  /\ \A i \in 1..n : g[i] = F[<<g[i - 1], i>>]

\* A step that stays in a set can be iterated.
LEMMA IterationExists ==
  ASSUME NEW D, NEW n \in Nat, NEW F, StepsIn(F, D, n), NEW base \in D
  PROVE  \E g : IsIteration(g, F, D, n, base)
<1>0. F \in [ D \X (1..n) -> D ]
  BY DEF StepsIn
<1> DEFINE Is(g, k) == /\ g \in [ 0..k -> D ] /\ g[0] = base
                       /\ \A i \in 1..k : g[i] = F[<<g[i - 1], i>>]
           B == { k \in 0..n : \E g : Is(g, k) }
<1>1. 0 \in B
  <2> DEFINE g == [ i \in 0..0 |-> base ]
  <2>1. Is(g, 0)
    OBVIOUS
  <2>2. 0 \in 0..n
    OBVIOUS
  <2> HIDE DEF Is
  <2> QED BY <2>1, <2>2
<1>2. ASSUME NEW k \in 1..n, k - 1 \in B PROVE k \in B
  <2>1. PICK g : Is(g, k - 1)
    BY <1>2
  <2> DEFINE h == [ i \in 0..k |-> IF i = k THEN F[<<g[k - 1], k>>] ELSE g[i] ]
  <2>2. k \in Nat /\ k >= 1 /\ k <= n /\ k - 1 \in 0..(k - 1)
    OBVIOUS
  <2>3. g[k - 1] \in D
    BY <2>1, <2>2
  <2>4. F[<<g[k - 1], k>>] \in D
    BY <1>0, <2>3
  <2>5. \A i \in 0..k : i = k \/ i \in 0..(k - 1)
    BY <2>2
  <2>6. \A i \in 0..k : i # k => h[i] = g[i] /\ g[i] \in D
    BY <2>1, <2>5
  <2>7. h[k] = F[<<g[k - 1], k>>]
    BY <2>2
  <2>8. h \in [ 0..k -> D ]
    BY <2>4, <2>5, <2>1
  <2>9. h[0] = base
    BY <2>1, <2>2, <2>6
  <2>10. ASSUME NEW i \in 1..k PROVE h[i] = F[<<h[i - 1], i>>]
    <3>1. i \in 0..k /\ i - 1 \in 0..k /\ i - 1 # k
      BY <2>2
    <3>2. h[i - 1] = g[i - 1]
      BY <3>1, <2>6
    <3>3. CASE i = k
      BY <3>2, <3>3, <2>7
    <3>4. CASE i # k
      <4>1. i \in 1..(k - 1) /\ h[i] = g[i]
        BY <3>1, <3>4, <2>2, <2>6
      <4> QED BY <3>2, <4>1, <2>1
    <3> QED BY <3>3, <3>4
  <2> HIDE DEF h
  <2> QED BY <2>2, <2>8, <2>9, <2>10
<1> HIDE DEF B
<1>3. \A k \in 0..n : k \in B
  <2>1. 0 \in Int /\ n \in Int /\ 0 + 1 = 1
    OBVIOUS
  <2>2. \A i \in (0 + 1)..n : i - 1 \in B => i \in B
    BY <1>2, <2>1
  <2> QED BY <1>1, <2>1, <2>2, IntervalInduction
<1>4. n \in B
  BY <1>3
<1> QED BY <1>4 DEF B, IsIteration

-----------------------------------------------------------------------------
(***************************************************************************)
(* The sizes of the blocks.                                                *)
(***************************************************************************)

\* The loop of the constructor, round by round.
LEMMA DoubledRounds ==
  LET size == Doubled(MaxElements)
  IN  /\ size[0] = FirstBlock
      /\ \A i \in 1..SizeBits :
           size[i] = IF size[i - 1] * 2 ^ MaxBlocks < MaxElements
                     THEN size[i - 1] * 2 ELSE size[i - 1]
<1> DEFINE D == Nat \ {0}
           p == 2 ^ MaxBlocks
           F == [ x \in D \X (1..SizeBits) |->
                    IF x[1] * p < MaxElements THEN x[1] * 2 ELSE x[1] ]
           Is(h) == h = [ round \in 0..SizeBits |->
                            IF round = 0 THEN FirstBlock
                            ELSE IF h[round - 1] * p < MaxElements
                                 THEN h[round - 1] * 2 ELSE h[round - 1] ]
           size == CHOOSE h : Is(h)
<1>0. SizeBits \in Nat
  BY DEF SizeBits
<1>1. StepsIn(F, D, SizeBits)
  <2>1. \A d \in D : d \in Nat /\ d * 2 \in D
    OBVIOUS
  <2> HIDE DEF D, p
  <2> QED BY <2>1 DEF StepsIn
<1>2. \A d \in D, i \in 1..SizeBits :
        F[<<d, i>>] = IF d * p < MaxElements THEN d * 2 ELSE d
  OBVIOUS
<1>3. Doubled(MaxElements) = size
  BY DEF Doubled, p
<1> HIDE DEF D, F, p
<1>4. PICK g : IsIteration(g, F, D, SizeBits, FirstBlock)
  BY <1>0, <1>1, SizesAssumption, IterationExists DEF D
<1>5. Is(g)
  <2>1. ASSUME NEW i \in 0..SizeBits, i # 0
        PROVE  g[i] = IF g[i - 1] * p < MaxElements THEN g[i - 1] * 2 ELSE g[i - 1]
    <3>1. i \in 1..SizeBits /\ i - 1 \in 0..SizeBits
      BY <2>1, <1>0
    <3>2. g[i - 1] \in D /\ g[i] = F[<<g[i - 1], i>>]
      BY <3>1, <1>4 DEF IsIteration
    <3> QED BY <3>1, <3>2, <1>2
  <2>2. g = [ i \in 0..SizeBits |-> g[i] ] /\ g[0] = FirstBlock
    BY <1>4 DEF IsIteration
  <2> QED BY <2>1, <2>2
<1>6. Is(size)
  BY <1>5
<1> HIDE DEF size
<1>7. \A i \in 1..SizeBits : i \in 0..SizeBits /\ i # 0
  BY <1>0
<1>8. size[0] = FirstBlock
  BY <1>0, <1>6
<1>9. ASSUME NEW i \in 1..SizeBits
      PROVE  size[i] = IF size[i - 1] * p < MaxElements
                       THEN size[i - 1] * 2 ELSE size[i - 1]
  BY <1>6, <1>7
<1> QED BY <1>3, <1>8, <1>9 DEF p

\* What holds of the size at first, and doubling keeps while it is too small, holds
\* of the size that the constructor ends with.
LEMMA DoubledKeeps ==
  ASSUME NEW D, FirstBlock \in D,
         \A d \in D : d * 2 ^ MaxBlocks < MaxElements => d * 2 \in D
  PROVE  Doubled(MaxElements)[SizeBits] \in D
<1> DEFINE size == Doubled(MaxElements)
           B == { i \in 0..SizeBits : size[i] \in D }
<1>0. SizeBits \in Nat /\ 0 \in 0..SizeBits /\ SizeBits \in 0..SizeBits
  BY DEF SizeBits
<1>1. 0 \in B
  BY <1>0, DoubledRounds
<1>2. \A i \in (0 + 1)..SizeBits : i - 1 \in B => i \in B
  <2> SUFFICES ASSUME NEW i \in (0 + 1)..SizeBits, i - 1 \in B PROVE i \in B
    OBVIOUS
  <2>1. i \in 0..SizeBits /\ i \in 1..SizeBits
    BY <1>0
  <2>2. size[i] = IF size[i - 1] * 2 ^ MaxBlocks < MaxElements
                  THEN size[i - 1] * 2 ELSE size[i - 1]
    BY <2>1, DoubledRounds
  <2> HIDE DEF size
  <2> QED BY <2>1, <2>2
<1>3. SizeBits \in B
  <2>1. 0 \in Int /\ SizeBits \in Int
    BY <1>0
  <2> HIDE DEF B
  <2> QED BY <2>1, <1>0, <1>1, <1>2, IntervalInduction
<1> QED BY <1>3

\* The loop of the constructor keeps a positive size; it does nothing if the first
\* block is large enough.
LEMMA FirstBlockType ==
  /\ FirstBlockSize(MaxElements) \in Nat \ {0}
  /\ MaxElements > SingleBlock /\ ~ (FirstBlock * 2 ^ MaxBlocks < MaxElements)
       => FirstBlockSize(MaxElements) = FirstBlock
<1>1. CASE MaxElements <= SingleBlock
  BY <1>1, SizesAssumption DEF FirstBlockSize
<1>2. CASE ~ (MaxElements <= SingleBlock)
  <2>1. FirstBlockSize(MaxElements) = Doubled(MaxElements)[SizeBits]
    BY <1>2 DEF FirstBlockSize
  <2>2. Doubled(MaxElements)[SizeBits] \in Nat \ {0}
    <3> DEFINE D == Nat \ {0}
    <3>1. FirstBlock \in D /\ \A d \in D : d * 2 \in D
      BY SizesAssumption
    <3> HIDE DEF D
    <3>2. Doubled(MaxElements)[SizeBits] \in D
      BY <3>1, DoubledKeeps
    <3> QED BY <3>2 DEF D
  <2>3. ASSUME ~ (FirstBlock * 2 ^ MaxBlocks < MaxElements)
        PROVE  Doubled(MaxElements)[SizeBits] = FirstBlock
    <3> DEFINE D == {FirstBlock}
    <3>1. FirstBlock \in D /\ \A d \in D : ~ (d * 2 ^ MaxBlocks < MaxElements)
      BY <2>3
    <3> HIDE DEF D
    <3>2. Doubled(MaxElements)[SizeBits] \in D
      BY <3>1, DoubledKeeps
    <3> QED BY <3>2 DEF D
  <2> QED BY <2>1, <2>2, <2>3
<1> QED BY <1>1, <1>2, SizesAssumption

\* The size of the next block is a number, no block has less than no element,
\* and a block without elements is followed by such blocks only.
LEMMA NextBlockType ==
  ASSUME NEW size \in Int, NEW n \in 1..MaxBlocks, NEW all \in Int
  PROVE  LET next == NextBlockSize(size, n, all, MaxElements)
         IN  /\ next \in Int
             /\ size \in Nat /\ all <= MaxElements => next \in Nat
             /\ size = 0 /\ all <= MaxElements => next = 0
<1> DEFINE r == MaxBlocks - n
           e == MaxElements - all
           q == e \div r
<1>1. r \in Nat /\ e \in Int
  BY SizesAssumption
<1>2. r # 0 => q \in Int /\ (e >= 0 => q >= 0)
  BY <1>1
<1>3. NextBlockSize(size, n, all, MaxElements)
        = IF r = 0 THEN size ELSE Least(Least(size * 2, q), e)
  BY DEF NextBlockSize
<1>4. all <= MaxElements => e >= 0
  BY SizesAssumption
<1> HIDE DEF r, e, q
<1>5. CASE r = 0
  BY <1>3, <1>5
<1>6. CASE r # 0
  <2>1. q \in Int /\ (all <= MaxElements => q >= 0 /\ e >= 0)
    BY <1>2, <1>4, <1>6
  <2> QED BY <1>1, <1>3, <1>6, <2>1 DEF Least
<1> QED BY <1>5, <1>6

BlockRecord == [ size : Int, capacity : Int ]

\* Blocks, round by round.
LEMMA BlocksRounds ==
  LET b == Blocks(MaxElements)
  IN  /\ b[0].size = FirstBlockSize(MaxElements) /\ b[0].capacity = 0
      /\ \A n \in 0..MaxBlocks : b[n] \in BlockRecord
      /\ \A n \in 1..MaxBlocks :
           /\ b[n - 1].capacity >= MaxElements => b[n] = b[n - 1]
           /\ ~ (b[n - 1].capacity >= MaxElements) =>
                /\ b[n].capacity = b[n - 1].capacity + b[n - 1].size
                /\ b[n].size = NextBlockSize(b[n - 1].size, n,
                                 b[n - 1].capacity + b[n - 1].size, MaxElements)
<1> DEFINE D == BlockRecord
           base == [ size |-> FirstBlockSize(MaxElements), capacity |-> 0 ]
           Added(b, n) == [ size |-> NextBlockSize(b.size, n, b.capacity + b.size, MaxElements),
                            capacity |-> b.capacity + b.size ]
           Step(b, n) == IF b.capacity >= MaxElements THEN b ELSE Added(b, n)
           F == [ x \in D \X (1..MaxBlocks) |-> Step(x[1], x[2]) ]
           Is(h) == h = [ n \in 0..MaxBlocks |->
                            IF n = 0 THEN base ELSE Step(h[n - 1], n) ]
           blocks == CHOOSE h : Is(h)
<1>0. MaxBlocks \in Nat /\ MaxElements \in Nat
  BY SizesAssumption
<1>1. base \in D /\ base.size = FirstBlockSize(MaxElements) /\ base.capacity = 0
  <2> DEFINE zero == 0
             f == FirstBlockSize(MaxElements)
  <2>1. zero \in Int /\ f \in Int
    BY FirstBlockType
  <2> HIDE DEF zero, f
  <2>2. [ size |-> f, capacity |-> zero ] \in BlockRecord
    BY <2>1 DEF BlockRecord
  <2> QED BY <2>2 DEF zero, f
<1>2. \A d \in D : d.size \in Int /\ d.capacity \in Int
  BY DEF BlockRecord
<1>3. ASSUME NEW d \in D, NEW n \in 1..MaxBlocks
      PROVE  Added(d, n) \in D /\ Step(d, n) \in D
  <2>1. d.size \in Int /\ d.capacity + d.size \in Int
    BY <1>2
  <2>2. NextBlockSize(d.size, n, d.capacity + d.size, MaxElements) \in Int
    BY <2>1, NextBlockType
  <2>3. Added(d, n) \in D
    BY <2>1, <2>2 DEF BlockRecord
  <2> HIDE DEF Added
  <2> QED BY <2>3
<1>4. StepsIn(F, D, MaxBlocks) /\ \A d \in D, n \in 1..MaxBlocks : F[<<d, n>>] = Step(d, n)
  <2> HIDE DEF D, Step
  <2> QED BY <1>3 DEF StepsIn
<1>5. Blocks(MaxElements) = blocks
  BY DEF Blocks
<1> HIDE DEF D, F, base, Step
<1>6. PICK g : IsIteration(g, F, D, MaxBlocks, base)
  BY <1>0, <1>1, <1>4, IterationExists
<1>7. Is(g)
  <2>1. ASSUME NEW n \in 0..MaxBlocks, n # 0 PROVE g[n] = Step(g[n - 1], n)
    <3>1. n \in 1..MaxBlocks /\ n - 1 \in 0..MaxBlocks
      BY <2>1, <1>0
    <3>2. g[n - 1] \in D /\ g[n] = F[<<g[n - 1], n>>]
      BY <3>1, <1>6 DEF IsIteration
    <3> QED BY <3>1, <3>2, <1>4
  <2>2. g = [ n \in 0..MaxBlocks |-> g[n] ] /\ g[0] = base
    BY <1>6 DEF IsIteration
  <2> QED BY <2>1, <2>2
<1>8. Is(blocks)
  BY <1>7
<1> HIDE DEF blocks
<1>9. \A n \in 0..MaxBlocks : blocks[n] = IF n = 0 THEN base ELSE Step(blocks[n - 1], n)
  BY <1>8
<1>10. \A n \in 1..MaxBlocks : blocks[n] = Step(blocks[n - 1], n)
  BY <1>0, <1>9
<1>11. blocks[0] = base
  BY <1>0, <1>9
<1> DEFINE B == { n \in 0..MaxBlocks : blocks[n] \in D }
<1>12. 0 \in B
  BY <1>0, <1>1, <1>11
<1>13. \A n \in (0 + 1)..MaxBlocks : n - 1 \in B => n \in B
  <2> TAKE n \in (0 + 1)..MaxBlocks
  <2>1. n \in 1..MaxBlocks /\ n \in 0..MaxBlocks
    BY <1>0
  <2> QED BY <2>1, <1>3, <1>10
<1>14. \A n \in 0..MaxBlocks : n \in B
  <2> HIDE DEF B
  <2> QED BY <1>0, <1>12, <1>13, IntervalInduction
<1>15. ASSUME NEW n \in 1..MaxBlocks, ~ (blocks[n - 1].capacity >= MaxElements)
       PROVE  /\ blocks[n].capacity = blocks[n - 1].capacity + blocks[n - 1].size
              /\ blocks[n].size = NextBlockSize(blocks[n - 1].size, n,
                          blocks[n - 1].capacity + blocks[n - 1].size, MaxElements)
  <2>1. blocks[n] = Added(blocks[n - 1], n)
    BY <1>10, <1>15 DEF Step
  <2> QED BY <2>1
<1>16. \A n \in 1..MaxBlocks : blocks[n - 1].capacity >= MaxElements => blocks[n] = blocks[n - 1]
  BY <1>10 DEF Step
<1>17. \A n \in 0..MaxBlocks : blocks[n] \in BlockRecord
  BY <1>14 DEF D
<1> QED BY <1>1, <1>5, <1>11, <1>15, <1>16, <1>17

\* The capacity grows, by sizes that are numbers; the first block is not empty.
LEMMA BlocksGrow ==
  LET b == Blocks(MaxElements)
  IN  \A n \in 0..MaxBlocks :
        /\ b[n].capacity \in Nat
        /\ b[n].capacity < MaxElements => b[n].size \in Nat
        /\ b[n].capacity = 0 => b[n].size > 0
        /\ n # 0 => b[n].capacity > 0
<1> DEFINE b == Blocks(MaxElements)
           Good(n) == /\ b[n].capacity \in Nat
                      /\ b[n].capacity < MaxElements => b[n].size \in Nat
                      /\ b[n].capacity = 0 => b[n].size > 0
                      /\ n # 0 => b[n].capacity > 0
           B == { n \in 0..MaxBlocks : Good(n) }
<1>0. MaxBlocks \in Nat /\ MaxElements \in Nat /\ MaxElements > 0
  BY SizesAssumption
<1>1. 0 \in B
  BY <1>0, BlocksRounds, FirstBlockType
<1>2. ASSUME NEW n \in (0 + 1)..MaxBlocks, n - 1 \in B PROVE n \in B
  <2>1. n \in 1..MaxBlocks /\ n \in 0..MaxBlocks /\ n - 1 \in 0..MaxBlocks
    BY <1>0
  <2>2. b[n] \in BlockRecord /\ b[n - 1] \in BlockRecord
    BY <2>1, BlocksRounds
  <2>3. b[n].size \in Int /\ b[n].capacity \in Int /\ b[n - 1].size \in Int
        /\ b[n - 1].capacity \in Int
    BY <2>2 DEF BlockRecord
  <2>4. CASE b[n - 1].capacity >= MaxElements
    <3>1. b[n] = b[n - 1]
      BY <2>1, <2>4, BlocksRounds
    <3>2. Good(n - 1)
      BY <1>2
    <3> HIDE DEF b
    <3> QED BY <3>1, <3>2, <2>1, <2>3, <2>4, <1>0
  <2>5. CASE ~ (b[n - 1].capacity >= MaxElements)
    <3>1. /\ b[n].capacity = b[n - 1].capacity + b[n - 1].size
          /\ b[n].size = NextBlockSize(b[n - 1].size, n,
                           b[n - 1].capacity + b[n - 1].size, MaxElements)
      BY <2>1, <2>5, BlocksRounds
    <3>2. Good(n - 1)
      BY <1>2
    <3> HIDE DEF b
    <3>3. b[n - 1].size \in Nat /\ b[n - 1].capacity \in Nat
      BY <3>2, <2>3, <2>5, <1>0
    <3>4. b[n].capacity <= MaxElements => b[n].size \in Nat
      <4> DEFINE all == b[n - 1].capacity + b[n - 1].size
      <4>1. all \in Int /\ b[n - 1].size \in Int /\ b[n].capacity = all
        BY <3>1, <3>3
      <4>2. b[n].size = NextBlockSize(b[n - 1].size, n, all, MaxElements)
        BY <3>1
      <4> HIDE DEF all
      <4> QED BY <4>1, <4>2, <3>3, <2>1, NextBlockType
    <3>5. b[n].capacity > 0
      BY <3>1, <3>2, <3>3
    <3> QED BY <3>1, <3>3, <3>4, <3>5, <2>1, <2>3, <1>0
  <2> QED BY <2>4, <2>5
<1>3. \A n \in 0..MaxBlocks : n \in B
  <2> HIDE DEF B
  <2> QED BY <1>0, <1>1, <1>2, IntervalInduction
<1> QED BY <1>3

\* If all blocks together hold MaxElements, they never hold more, and a cache
\* that cannot grow any more holds them.
LEMMA FullIsLast ==
  ASSUME FullCapacity(MaxElements) = MaxElements
  PROVE  LET b == Blocks(MaxElements)
         IN  \A n \in 0..MaxBlocks :
               /\ b[n].capacity <= MaxElements
               /\ n = MaxBlocks \/ b[n].size = 0 => b[n].capacity = MaxElements
<1> DEFINE b == Blocks(MaxElements)
<1> SUFFICES ASSUME NEW n \in 0..MaxBlocks
             PROVE  /\ b[n].capacity <= MaxElements
                    /\ n = MaxBlocks \/ b[n].size = 0 => b[n].capacity = MaxElements
  OBVIOUS
<1>0. MaxBlocks \in Nat /\ MaxElements \in Nat /\ n \in Int /\ MaxBlocks \in n..MaxBlocks
  BY SizesAssumption
<1>1. b[MaxBlocks].capacity = MaxElements
  BY DEF FullCapacity
<1>2. \A j \in 0..MaxBlocks :
        /\ b[j].capacity \in Nat /\ b[j].size \in Int
        /\ b[j].capacity < MaxElements => b[j].size \in Nat
  BY BlocksGrow, BlocksRounds DEF BlockRecord
<1>3. \A j \in 1..MaxBlocks :
        /\ b[j - 1].capacity >= MaxElements => b[j] = b[j - 1]
        /\ ~ (b[j - 1].capacity >= MaxElements) =>
             /\ b[j].capacity = b[j - 1].capacity + b[j - 1].size
             /\ b[j].size = NextBlockSize(b[j - 1].size, j,
                              b[j - 1].capacity + b[j - 1].size, MaxElements)
  BY BlocksRounds
<1> HIDE DEF b
<1>4. b[n].capacity <= MaxElements
  <2> DEFINE B == { j \in n..MaxBlocks : b[n].capacity <= b[j].capacity }
  <2>1. n \in B
    BY <1>0, <1>2
  <2>2. ASSUME NEW j \in (n + 1)..MaxBlocks, j - 1 \in B PROVE j \in B
    <3>1. j \in 1..MaxBlocks /\ j \in 0..MaxBlocks /\ j - 1 \in 0..MaxBlocks /\ j \in n..MaxBlocks
      BY <1>0
    <3>2. b[j - 1].capacity <= b[j].capacity
      BY <3>1, <1>0, <1>2, <1>3
    <3> QED BY <3>1, <3>2, <2>2, <1>2
  <2>3. MaxBlocks \in B
    <3> HIDE DEF B
    <3> QED BY <1>0, <2>1, <2>2, IntervalInduction
  <2> QED BY <2>3, <1>1
<1>5. ASSUME b[n].size = 0 PROVE b[n].capacity = MaxElements
  <2> DEFINE B == { j \in n..MaxBlocks : b[j].size = 0 /\ b[j].capacity = b[n].capacity }
  <2>1. n \in B
    BY <1>0, <1>5
  <2>2. ASSUME NEW j \in (n + 1)..MaxBlocks, j - 1 \in B PROVE j \in B
    <3>1. j \in 1..MaxBlocks /\ j \in 0..MaxBlocks /\ j - 1 \in 0..MaxBlocks /\ j \in n..MaxBlocks
      BY <1>0
    <3>2. b[j - 1].size = 0 /\ b[j - 1].capacity = b[n].capacity
      BY <2>2
    <3>3. CASE b[j - 1].capacity >= MaxElements
      BY <3>1, <3>2, <3>3, <1>3
    <3>4. CASE ~ (b[j - 1].capacity >= MaxElements)
      <4>1. b[j].capacity = b[n].capacity
        BY <3>1, <3>2, <3>4, <1>2, <1>3
      <4>2. b[j].size = NextBlockSize(0, j, b[n].capacity, MaxElements)
        BY <3>1, <3>2, <3>4, <1>2, <1>3
      <4>3. b[n].capacity \in Int /\ 0 \in Int
        BY <1>2
      <4>4. b[j].size = 0
        BY <4>2, <4>3, <3>1, <1>4, NextBlockType
      <4> QED BY <4>1, <4>4, <3>1
    <3> QED BY <3>3, <3>4
  <2>3. MaxBlocks \in B
    <3> HIDE DEF B
    <3> QED BY <1>0, <2>1, <2>2, IntervalInduction
  <2> QED BY <2>3, <1>1
<1> QED BY <1>1, <1>4, <1>5

-----------------------------------------------------------------------------
(***************************************************************************)
(* The state, and what each method does to the members.                    *)
(***************************************************************************)

\* A cache of n elements in which no CHECK has failed.
CacheOf(n) ==
  [ table : UNION { [ K -> 1..n ] : K \in SUBSET Key },
    next : [ 1..n -> 0..n ], prev : [ 1..n -> 0..n ],
    key : [ 1..n -> Key \cup {0} ], value : [ 1..n -> Value \cup {0} ],
    free_list : 0..n, lru_head : 0..n, lru_tail : 0..n,
    block_count : Nat, block_capacity : {n}, next_block_size : Int, checks : {TRUE} ]

\* What the provers need to know of one.
LEMMA CacheFields ==
  ASSUME NEW n \in Nat, NEW c \in CacheOf(n)
  PROVE  /\ c.next \in [ 1..n -> 0..n ] /\ c.prev \in [ 1..n -> 0..n ]
         /\ c.key \in [ 1..n -> Key \cup {0} ] /\ c.value \in [ 1..n -> Value \cup {0} ]
         /\ c.free_list \in 0..n /\ c.lru_head \in 0..n /\ c.lru_tail \in 0..n
         /\ c.block_capacity = n /\ c.block_count \in Nat /\ c.next_block_size \in Int
         /\ c.checks = TRUE
         /\ DOMAIN c.table \subseteq Key /\ c.table = [ k \in DOMAIN c.table |-> c.table[k] ]
         /\ \A k \in DOMAIN c.table : c.table[k] \in 1..n
<1>1. /\ c.next \in [ 1..n -> 0..n ] /\ c.prev \in [ 1..n -> 0..n ]
      /\ c.key \in [ 1..n -> Key \cup {0} ] /\ c.value \in [ 1..n -> Value \cup {0} ]
      /\ c.free_list \in 0..n /\ c.lru_head \in 0..n /\ c.lru_tail \in 0..n
      /\ c.block_capacity \in {n} /\ c.block_count \in Nat /\ c.next_block_size \in Int
      /\ c.checks \in {TRUE} /\ c.table \in UNION { [ K -> 1..n ] : K \in SUBSET Key }
  BY DEF CacheOf
<1>2. c.checks = TRUE
  BY <1>1, Zenon
<1> QED BY <1>1, <1>2

\* A CHECK that holds changes nothing.
LEMMA CheckHolds ==
  ASSUME NEW n \in Nat, NEW c \in CacheOf(n), NEW condition, condition = TRUE
  PROVE  Check(c, condition) = c
<1>1. (c.checks /\ condition) = c.checks
  BY CacheFields
<1>2. Check(c, condition) = [ c EXCEPT !.checks = c.checks /\ condition ]
  BY DEF Check
<1>3. [ c EXCEPT !.checks = c.checks ] = c
  BY DEF CacheOf
<1> QED BY <1>1, <1>2, <1>3

\* The members that the lists do not touch.
SameTable(d, c) ==
  /\ d.table = c.table /\ d.key = c.key /\ d.value = c.value
  /\ d.block_count = c.block_count /\ d.next_block_size = c.next_block_size

\* PushFreeList.
LEMMA PushFreeListFields ==
  ASSUME NEW n \in Nat, NEW c \in CacheOf(n), NEW e \in 1..n
  PROVE  LET d == PushFreeList(c, e)
         IN  /\ d \in CacheOf(n) /\ SameTable(d, c)
             /\ d.prev = [ c.prev EXCEPT ![e] = 0 ]
             /\ d.next = [ c.next EXCEPT ![e] = c.free_list ]
             /\ d.free_list = e /\ d.lru_head = c.lru_head /\ d.lru_tail = c.lru_tail
<1> DEFINE p == [ c.prev EXCEPT ![e] = 0 ]
           x == [ c.next EXCEPT ![e] = c.free_list ]
           d == [ c EXCEPT !.prev = p, !.next = x, !.free_list = e ]
<1>t. /\ c.next \in [ 1..n -> 0..n ] /\ c.prev \in [ 1..n -> 0..n ]
      /\ c.free_list \in 0..n /\ c.lru_head \in 0..n /\ c.lru_tail \in 0..n
  BY CacheFields
<1>1. PushFreeList(c, e) = d
  BY DEF PushFreeList
<1>2. p \in [ 1..n -> 0..n ] /\ x \in [ 1..n -> 0..n ] /\ e \in 0..n
  BY <1>t
<1> HIDE DEF p, x
<1>3. d \in CacheOf(n)
  BY <1>2 DEF CacheOf
<1>4. /\ d.prev = p /\ d.next = x /\ d.free_list = e
      /\ d.lru_head = c.lru_head /\ d.lru_tail = c.lru_tail
      /\ SameTable(d, c)
  BY DEF CacheOf, SameTable
<1> HIDE DEF d
<1> QED BY <1>1, <1>3, <1>4 DEF p, x

\* RemoveFromLRU.
LEMMA RemoveFromLRUFields ==
  ASSUME NEW n \in Nat, NEW c \in CacheOf(n), NEW e \in 1..n
  PROVE  LET d == RemoveFromLRU(c, e)
         IN  /\ d \in CacheOf(n) /\ SameTable(d, c)
             /\ d.prev = [ i \in 1..n |-> IF i = e THEN 0
                                          ELSE IF i = c.next[e] THEN c.prev[e] ELSE c.prev[i] ]
             /\ d.next = [ i \in 1..n |-> IF i = e THEN 0
                                          ELSE IF i = c.prev[e] THEN c.next[e] ELSE c.next[i] ]
             /\ d.free_list = c.free_list
             /\ d.lru_head = IF c.lru_head = e THEN c.next[e] ELSE c.lru_head
             /\ d.lru_tail = IF c.lru_tail = e THEN c.prev[e] ELSE c.lru_tail
<1> DEFINE p == [ i \in 1..n |-> IF i = e THEN 0
                                 ELSE IF i = c.next[e] THEN c.prev[e] ELSE c.prev[i] ]
           x == [ i \in 1..n |-> IF i = e THEN 0
                                 ELSE IF i = c.prev[e] THEN c.next[e] ELSE c.next[i] ]
           h == IF c.lru_head = e THEN c.next[e] ELSE c.lru_head
           t == IF c.lru_tail = e THEN c.prev[e] ELSE c.lru_tail
           d == [ c EXCEPT !.lru_head = h, !.lru_tail = t, !.next = x, !.prev = p ]
<1>t. /\ c.next \in [ 1..n -> 0..n ] /\ c.prev \in [ 1..n -> 0..n ]
      /\ c.free_list \in 0..n /\ c.lru_head \in 0..n /\ c.lru_tail \in 0..n
  BY CacheFields
<1>0. DOMAIN c.next = 1..n /\ DOMAIN c.prev = 1..n
  BY <1>t
<1>1. RemoveFromLRU(c, e) = d
  BY <1>0 DEF RemoveFromLRU
<1>2. p \in [ 1..n -> 0..n ] /\ x \in [ 1..n -> 0..n ]
  <2>1. c.next[e] \in 0..n /\ c.prev[e] \in 0..n /\ 0 \in 0..n
    BY <1>t
  <2>2. \A i \in 1..n : c.next[i] \in 0..n /\ c.prev[i] \in 0..n
    BY <1>t
  <2>3. p \in [ 1..n -> 0..n ]
    BY <2>1, <2>2
  <2>4. x \in [ 1..n -> 0..n ]
    BY <2>1, <2>2
  <2> QED BY <2>3, <2>4
<1>h. h \in 0..n /\ t \in 0..n
  BY <1>t
<1> HIDE DEF p, x, h, t
<1>3. d \in CacheOf(n)
  BY <1>2, <1>h DEF CacheOf
<1>4. /\ d.prev = p /\ d.next = x /\ d.free_list = c.free_list
      /\ d.lru_head = h /\ d.lru_tail = t /\ SameTable(d, c)
  BY DEF CacheOf, SameTable
<1> HIDE DEF d
<1> QED BY <1>1, <1>3, <1>4 DEF p, x, h, t

\* PushLRUHead, after it has removed the element.
HeadPushed(r, e) ==
  [ r EXCEPT !.next[e] = r.lru_head, !.lru_head = e,
             !.prev = IF r.lru_head = 0 THEN @ ELSE [ @ EXCEPT ![r.lru_head] = e ],
             !.lru_tail = IF @ = 0 THEN e ELSE @ ]

\* Its members.
LEMMA HeadPushedFields ==
  ASSUME NEW n \in Nat, NEW c \in CacheOf(n), NEW e \in 1..n
  PROVE  LET d == HeadPushed(c, e)
         IN  /\ d \in CacheOf(n) /\ SameTable(d, c)
             /\ d.prev = IF c.lru_head = 0 THEN c.prev ELSE [ c.prev EXCEPT ![c.lru_head] = e ]
             /\ d.next = [ c.next EXCEPT ![e] = c.lru_head ]
             /\ d.free_list = c.free_list /\ d.lru_head = e
             /\ d.lru_tail = IF c.lru_tail = 0 THEN e ELSE c.lru_tail
<1> DEFINE p == IF c.lru_head = 0 THEN c.prev ELSE [ c.prev EXCEPT ![c.lru_head] = e ]
           x == [ c.next EXCEPT ![e] = c.lru_head ]
           t == IF c.lru_tail = 0 THEN e ELSE c.lru_tail
           d == [ c EXCEPT !.next = x, !.lru_head = e, !.prev = p, !.lru_tail = t ]
<1>t. /\ c.next \in [ 1..n -> 0..n ] /\ c.prev \in [ 1..n -> 0..n ]
      /\ c.free_list \in 0..n /\ c.lru_head \in 0..n /\ c.lru_tail \in 0..n
  BY CacheFields
<1>1. HeadPushed(c, e) = d
  BY DEF HeadPushed
<1>2. p \in [ 1..n -> 0..n ] /\ x \in [ 1..n -> 0..n ] /\ e \in 0..n /\ t \in 0..n
  BY <1>t
<1> HIDE DEF p, x, t
<1>3. d \in CacheOf(n)
  BY <1>2 DEF CacheOf
<1>4. /\ d.prev = p /\ d.next = x /\ d.free_list = c.free_list
      /\ d.lru_head = e /\ d.lru_tail = t /\ SameTable(d, c)
  BY DEF CacheOf, SameTable
<1> HIDE DEF d
<1> QED BY <1>1, <1>3, <1>4 DEF p, x, t

\* PushLRUHead is both.
LEMMA PushLRUHeadIs ==
  ASSUME NEW c, NEW e
  PROVE  PushLRUHead(c, e)
           = IF c.lru_head = e THEN c ELSE HeadPushed(RemoveFromLRU(c, e), e)
BY DEF PushLRUHead, HeadPushed

\* What the three keep.
LEMMA ListsKeep ==
  ASSUME NEW n \in Nat, NEW c \in CacheOf(n), NEW e \in 1..n
  PROVE  /\ RemoveFromLRU(c, e) \in CacheOf(n) /\ SameTable(RemoveFromLRU(c, e), c)
         /\ RemoveFromLRU(c, e).free_list = c.free_list
         /\ HeadPushed(c, e) \in CacheOf(n) /\ SameTable(HeadPushed(c, e), c)
         /\ HeadPushed(c, e).free_list = c.free_list
         /\ PushFreeList(c, e) \in CacheOf(n) /\ SameTable(PushFreeList(c, e), c)
         /\ PushFreeList(c, e).lru_head = c.lru_head
         /\ PushFreeList(c, e).lru_tail = c.lru_tail
<1>1. /\ RemoveFromLRU(c, e) \in CacheOf(n) /\ SameTable(RemoveFromLRU(c, e), c)
      /\ RemoveFromLRU(c, e).free_list = c.free_list
  <2> DEFINE d == RemoveFromLRU(c, e)
  <2>1. /\ d \in CacheOf(n) /\ SameTable(d, c)
        /\ d.prev = [ i \in 1..n |-> IF i = e THEN 0
                                     ELSE IF i = c.next[e] THEN c.prev[e] ELSE c.prev[i] ]
        /\ d.next = [ i \in 1..n |-> IF i = e THEN 0
                                     ELSE IF i = c.prev[e] THEN c.next[e] ELSE c.next[i] ]
        /\ d.free_list = c.free_list
        /\ d.lru_head = IF c.lru_head = e THEN c.next[e] ELSE c.lru_head
        /\ d.lru_tail = IF c.lru_tail = e THEN c.prev[e] ELSE c.lru_tail
    BY RemoveFromLRUFields
  <2> QED BY <2>1
<1>2. /\ HeadPushed(c, e) \in CacheOf(n) /\ SameTable(HeadPushed(c, e), c)
      /\ HeadPushed(c, e).free_list = c.free_list
  <2> DEFINE d == HeadPushed(c, e)
  <2>1. /\ d \in CacheOf(n) /\ SameTable(d, c)
        /\ d.prev = IF c.lru_head = 0 THEN c.prev ELSE [ c.prev EXCEPT ![c.lru_head] = e ]
        /\ d.next = [ c.next EXCEPT ![e] = c.lru_head ]
        /\ d.free_list = c.free_list /\ d.lru_head = e
        /\ d.lru_tail = IF c.lru_tail = 0 THEN e ELSE c.lru_tail
    BY HeadPushedFields
  <2> QED BY <2>1
<1>3. /\ PushFreeList(c, e) \in CacheOf(n) /\ SameTable(PushFreeList(c, e), c)
      /\ PushFreeList(c, e).lru_head = c.lru_head
      /\ PushFreeList(c, e).lru_tail = c.lru_tail
  <2> DEFINE d == PushFreeList(c, e)
  <2>1. /\ d \in CacheOf(n) /\ SameTable(d, c)
        /\ d.prev = [ c.prev EXCEPT ![e] = 0 ]
        /\ d.next = [ c.next EXCEPT ![e] = c.free_list ]
        /\ d.free_list = e /\ d.lru_head = c.lru_head /\ d.lru_tail = c.lru_tail
    BY PushFreeListFields
  <2> QED BY <2>1
<1> QED BY <1>1, <1>2, <1>3

\* PopFreeList: the CHECK holds if the element has no `prev'.
LEMMA PopFreeListFields ==
  ASSUME NEW n \in Nat, NEW c \in CacheOf(n), c.free_list # 0, c.prev[c.free_list] = 0
  PROVE  LET d == PopFreeList(c)
             e == c.free_list
         IN  /\ d \in CacheOf(n) /\ SameTable(d, c)
             /\ d.prev = IF c.next[e] = 0 THEN c.prev ELSE [ c.prev EXCEPT ![c.next[e]] = 0 ]
             /\ d.next = [ c.next EXCEPT ![e] = 0 ]
             /\ d.free_list = c.next[e]
             /\ d.lru_head = c.lru_head /\ d.lru_tail = c.lru_tail
<1> DEFINE e == c.free_list
           f == c.next[e]
           p == IF f = 0 THEN c.prev ELSE [ c.prev EXCEPT ![f] = 0 ]
           x == [ c.next EXCEPT ![e] = 0 ]
           d == [ c EXCEPT !.free_list = f, !.prev = p, !.next = x ]
<1>t. /\ c.next \in [ 1..n -> 0..n ] /\ c.prev \in [ 1..n -> 0..n ]
      /\ c.free_list \in 0..n /\ c.lru_head \in 0..n /\ c.lru_tail \in 0..n
  BY CacheFields
<1>0. e \in 1..n /\ f \in 0..n
  BY <1>t
<1>1. Check(c, c.prev[e] = 0) = c
  <2>1. (c.prev[e] = 0) = TRUE
    OBVIOUS
  <2> QED BY <2>1, CheckHolds
<1>2. PopFreeList(c) = d
  BY <1>1 DEF PopFreeList
<1>3. p \in [ 1..n -> 0..n ] /\ x \in [ 1..n -> 0..n ]
  BY <1>0, <1>t
<1> HIDE DEF p, x, f
<1>4. d \in CacheOf(n)
  BY <1>0, <1>3 DEF CacheOf
<1>5. /\ d.prev = p /\ d.next = x /\ d.free_list = f
      /\ d.lru_head = c.lru_head /\ d.lru_tail = c.lru_tail /\ SameTable(d, c)
  BY DEF CacheOf, SameTable
<1> HIDE DEF d
<1> QED BY <1>2, <1>4, <1>5 DEF p, x, f

-----------------------------------------------------------------------------
(***************************************************************************)
(* Lists: s lists m of the elements 1..n.                                  *)
(***************************************************************************)

Listing(s, m, n) ==
  s \in [ 1..m -> 1..n ] /\ \A i, j \in 1..m : s[i] = s[j] => i = j

Among(e, s, m) == \E i \in 1..m : s[i] = e

\* s without its p-th element, and s with e before it.
Without(s, m, p) == [ i \in 1..(m - 1) |-> IF i < p THEN s[i] ELSE s[i + 1] ]
Before(e, s, m)  == [ i \in 1..(m + 1) |-> IF i = 1 THEN e ELSE s[i - 1] ]

\* The pointers `next' link the elements of s.
Linked(next, first, s, m) ==
  /\ first = IF m = 0 THEN 0 ELSE s[1]
  /\ \A i \in 1..m : next[s[i]] = IF i = m THEN 0 ELSE s[i + 1]

\* The LRU list is s; the free list is f.
LruLinked(c, s, m) ==
  /\ Linked(c.next, c.lru_head, s, m)
  /\ c.lru_tail = IF m = 0 THEN 0 ELSE s[m]
  /\ \A i \in 1..m : c.prev[s[i]] = IF i = 1 THEN 0 ELSE s[i - 1]

FreeLinked(c, f, l) ==
  /\ Linked(c.next, c.free_list, f, l)
  /\ \A i \in 1..l : c.prev[f[i]] = 0

\* Without, element by element.
LEMMA WithoutElements ==
  ASSUME NEW m \in Nat, NEW p \in 1..m, NEW s
  PROVE  /\ m - 1 \in Nat
         /\ \A i \in 1..(m - 1) :
              /\ i < p => i \in 1..m /\ Without(s, m, p)[i] = s[i]
              /\ ~ (i < p) => i + 1 \in 1..m /\ Without(s, m, p)[i] = s[i + 1]
         /\ \A j \in 1..m :
              /\ j < p => j \in 1..(m - 1) /\ Without(s, m, p)[j] = s[j]
              /\ j > p => j - 1 \in 1..(m - 1) /\ Without(s, m, p)[j - 1] = s[j]
<1>1. \A i \in 1..(m - 1) : Without(s, m, p)[i] = IF i < p THEN s[i] ELSE s[i + 1]
  BY DEF Without
<1>2. ASSUME NEW j \in 1..m, j > p
      PROVE  j - 1 \in 1..(m - 1) /\ Without(s, m, p)[j - 1] = s[j]
  <2>1. j - 1 \in 1..(m - 1) /\ ~ (j - 1 < p) /\ j - 1 + 1 = j
    BY <1>2
  <2>2. Without(s, m, p)[j - 1] = s[j - 1 + 1]
    BY <1>1, <2>1
  <2> QED BY <2>1, <2>2
<1> QED BY <1>1, <1>2

\* It lists the others.
LEMMA WithoutListing ==
  ASSUME NEW n \in Nat, NEW m \in Nat, NEW s, Listing(s, m, n), NEW p \in 1..m
  PROVE  LET t == Without(s, m, p)
         IN  /\ Listing(t, m - 1, n)
             /\ \A e : Among(e, t, m - 1) <=> Among(e, s, m) /\ e # s[p]
<1> DEFINE t == Without(s, m, p)
<1>1. /\ \A i \in 1..(m - 1) :
           /\ i < p => i \in 1..m /\ t[i] = s[i]
           /\ ~ (i < p) => i + 1 \in 1..m /\ t[i] = s[i + 1]
      /\ \A j \in 1..m :
           /\ j < p => j \in 1..(m - 1) /\ t[j] = s[j]
           /\ j > p => j - 1 \in 1..(m - 1) /\ t[j - 1] = s[j]
  BY WithoutElements
<1>2. s \in [ 1..m -> 1..n ] /\ \A i, j \in 1..m : s[i] = s[j] => i = j
  BY DEF Listing
<1>3. t = [ i \in 1..(m - 1) |-> t[i] ]
  BY DEF Without
<1> HIDE DEF t
<1>4. \A i \in 1..(m - 1) : t[i] \in 1..n
  BY <1>1, <1>2
<1>5. ASSUME NEW i \in 1..(m - 1), NEW j \in 1..(m - 1), t[i] = t[j] PROVE i = j
  <2> DEFINE x == IF i < p THEN i ELSE i + 1
             y == IF j < p THEN j ELSE j + 1
  <2>1. x \in 1..m /\ y \in 1..m /\ t[i] = s[x] /\ t[j] = s[y]
    BY <1>1
  <2>2. x = y
    BY <1>2, <1>5, <2>1
  <2> QED BY <2>2
<1>6. Listing(t, m - 1, n)
  BY <1>3, <1>4, <1>5 DEF Listing
<1>7. ASSUME NEW e PROVE Among(e, t, m - 1) <=> Among(e, s, m) /\ e # s[p]
  <2>1. ASSUME Among(e, t, m - 1) PROVE Among(e, s, m) /\ e # s[p]
    <3>1. PICK i \in 1..(m - 1) : t[i] = e
      BY <2>1 DEF Among
    <3> DEFINE x == IF i < p THEN i ELSE i + 1
    <3>2. x \in 1..m /\ s[x] = e /\ x # p
      BY <1>1, <3>1
    <3> HIDE DEF x
    <3> QED BY <1>2, <3>2 DEF Among
  <2>2. ASSUME Among(e, s, m), e # s[p] PROVE Among(e, t, m - 1)
    <3>1. PICK j \in 1..m : s[j] = e
      BY <2>2 DEF Among
    <3>2. j < p \/ j > p
      BY <2>2, <3>1
    <3> QED BY <1>1, <3>1, <3>2 DEF Among
  <2> QED BY <2>1, <2>2
<1> QED BY <1>6, <1>7 DEF t

\* Before, element by element.
LEMMA BeforeElements ==
  ASSUME NEW m \in Nat, NEW e, NEW s
  PROVE  /\ m + 1 \in Nat /\ Before(e, s, m)[1] = e
         /\ \A i \in 1..(m + 1) : i # 1 => i - 1 \in 1..m /\ Before(e, s, m)[i] = s[i - 1]
         /\ \A j \in 1..m : j + 1 \in 1..(m + 1) /\ Before(e, s, m)[j + 1] = s[j]
<1>1. \A i \in 1..(m + 1) : Before(e, s, m)[i] = IF i = 1 THEN e ELSE s[i - 1]
  BY DEF Before
<1>2. 1 \in 1..(m + 1)
  OBVIOUS
<1>3. ASSUME NEW j \in 1..m PROVE j + 1 \in 1..(m + 1) /\ Before(e, s, m)[j + 1] = s[j]
  <2>1. j + 1 \in 1..(m + 1) /\ j + 1 # 1 /\ j + 1 - 1 = j
    OBVIOUS
  <2>2. Before(e, s, m)[j + 1] = s[j + 1 - 1]
    BY <1>1, <2>1
  <2> QED BY <2>1, <2>2
<1> QED BY <1>1, <1>2, <1>3

\* It lists e and the others.
LEMMA BeforeListing ==
  ASSUME NEW n \in Nat, NEW m \in Nat, NEW s, Listing(s, m, n), NEW e \in 1..n,
         ~Among(e, s, m)
  PROVE  LET t == Before(e, s, m)
         IN  /\ Listing(t, m + 1, n)
             /\ \A x : Among(x, t, m + 1) <=> Among(x, s, m) \/ x = e
<1> DEFINE t == Before(e, s, m)
<1>1. /\ t[1] = e
      /\ \A i \in 1..(m + 1) : i # 1 => i - 1 \in 1..m /\ t[i] = s[i - 1]
      /\ \A j \in 1..m : j + 1 \in 1..(m + 1) /\ t[j + 1] = s[j]
  BY BeforeElements
<1>2. s \in [ 1..m -> 1..n ] /\ \A i, j \in 1..m : s[i] = s[j] => i = j
  BY DEF Listing
<1>3. t = [ i \in 1..(m + 1) |-> t[i] ] /\ \A i \in 1..m : s[i] # e
  BY DEF Before, Among
<1> HIDE DEF t
<1>4. \A i \in 1..(m + 1) : t[i] \in 1..n
  BY <1>1, <1>2
<1>5. ASSUME NEW i \in 1..(m + 1), NEW j \in 1..(m + 1), t[i] = t[j] PROVE i = j
  <2>1. CASE i = 1
    BY <2>1, <1>1, <1>3, <1>5
  <2>2. CASE j = 1
    BY <2>2, <1>1, <1>3, <1>5
  <2>3. CASE i # 1 /\ j # 1
    <3>1. i - 1 \in 1..m /\ j - 1 \in 1..m /\ s[i - 1] = s[j - 1]
      BY <2>3, <1>1, <1>5
    <3>2. i - 1 = j - 1
      BY <3>1, <1>2
    <3> QED BY <3>2
  <2> QED BY <2>1, <2>2, <2>3
<1>6. Listing(t, m + 1, n)
  BY <1>3, <1>4, <1>5 DEF Listing
<1>7. ASSUME NEW x PROVE Among(x, t, m + 1) <=> Among(x, s, m) \/ x = e
  <2>1. 1 \in 1..(m + 1)
    OBVIOUS
  <2> QED BY <1>1, <2>1 DEF Among
<1> QED BY <1>6, <1>7 DEF t

-----------------------------------------------------------------------------
(***************************************************************************)
(* What the methods do to the lists.                                       *)
(***************************************************************************)

\* RemoveFromLRU of an element of the list.
LEMMA RemoveLinked ==
  ASSUME NEW n \in Nat, NEW c \in CacheOf(n), NEW m \in Nat, NEW s, Listing(s, m, n),
         LruLinked(c, s, m), NEW p \in 1..m
  PROVE  LET d == RemoveFromLRU(c, s[p])
         IN  /\ LruLinked(d, Without(s, m, p), m - 1)
             /\ d.next[s[p]] = 0 /\ d.prev[s[p]] = 0
             /\ \A x \in 1..n : ~Among(x, s, m) => d.next[x] = c.next[x] /\ d.prev[x] = c.prev[x]
<1> DEFINE e == s[p]
           d == RemoveFromLRU(c, e)
           t == Without(s, m, p)
<1>1. s \in [ 1..m -> 1..n ] /\ \A i, j \in 1..m : s[i] = s[j] => i = j
  BY DEF Listing
<1>2. e \in 1..n
  BY <1>1
<1> HIDE DEF e
<1>3. /\ d.prev = [ i \in 1..n |-> IF i = e THEN 0
                                   ELSE IF i = c.next[e] THEN c.prev[e] ELSE c.prev[i] ]
      /\ d.next = [ i \in 1..n |-> IF i = e THEN 0
                                   ELSE IF i = c.prev[e] THEN c.next[e] ELSE c.next[i] ]
      /\ d.lru_head = (IF c.lru_head = e THEN c.next[e] ELSE c.lru_head)
      /\ d.lru_tail = (IF c.lru_tail = e THEN c.prev[e] ELSE c.lru_tail)
  <2>1. \A x \in 1..n :
          LET a == RemoveFromLRU(c, x)
          IN  /\ a.prev = [ i \in 1..n |-> IF i = x THEN 0
                                   ELSE IF i = c.next[x] THEN c.prev[x] ELSE c.prev[i] ]
              /\ a.next = [ i \in 1..n |-> IF i = x THEN 0
                                   ELSE IF i = c.prev[x] THEN c.next[x] ELSE c.next[i] ]
              /\ a.lru_head = (IF c.lru_head = x THEN c.next[x] ELSE c.lru_head)
              /\ a.lru_tail = (IF c.lru_tail = x THEN c.prev[x] ELSE c.lru_tail)
    BY RemoveFromLRUFields
  <2> QED BY <1>2, <2>1, Zenon
<1>4. /\ c.lru_head = s[1] /\ c.lru_tail = s[m]
      /\ \A i \in 1..m : /\ c.next[s[i]] = IF i = m THEN 0 ELSE s[i + 1]
                         /\ c.prev[s[i]] = IF i = 1 THEN 0 ELSE s[i - 1]
  BY DEF LruLinked, Linked
<1>5. /\ c.next[e] = (IF p = m THEN 0 ELSE s[p + 1])
      /\ c.prev[e] = (IF p = 1 THEN 0 ELSE s[p - 1])
  BY <1>4 DEF e
<1>6. /\ m - 1 \in Nat
      /\ \A i \in 1..(m - 1) :
           /\ i < p => i \in 1..m /\ t[i] = s[i]
           /\ ~ (i < p) => i + 1 \in 1..m /\ t[i] = s[i + 1]
  BY WithoutElements
<1> HIDE DEF d, t
<1>7. d.next[e] = 0 /\ d.prev[e] = 0
  BY <1>2, <1>3
<1>8. ASSUME NEW j \in 1..m, j # p
      PROVE  /\ d.next[s[j]] = IF j = p - 1 THEN (IF p = m THEN 0 ELSE s[p + 1])
                               ELSE (IF j = m THEN 0 ELSE s[j + 1])
             /\ d.prev[s[j]] = IF j = p + 1 THEN (IF p = 1 THEN 0 ELSE s[p - 1])
                               ELSE (IF j = 1 THEN 0 ELSE s[j - 1])
  <2>1. s[j] \in 1..n /\ s[j] # e
    BY <1>1, <1>8 DEF e
  <2>2. s[j] = c.prev[e] <=> j = p - 1
    BY <1>1, <1>5, <2>1
  <2>3. s[j] = c.next[e] <=> j = p + 1
    BY <1>1, <1>5, <2>1
  <2>4. d.next[s[j]] = IF j = p - 1 THEN c.next[e] ELSE c.next[s[j]]
    BY <1>3, <2>1, <2>2
  <2>5. d.prev[s[j]] = IF j = p + 1 THEN c.prev[e] ELSE c.prev[s[j]]
    BY <1>3, <2>1, <2>3
  <2> QED BY <1>4, <1>5, <2>4, <2>5
<1>9. Linked(d.next, d.lru_head, t, m - 1)
  <2>1. d.lru_head = IF m - 1 = 0 THEN 0 ELSE t[1]
    <3>1. c.lru_head = e <=> p = 1
      <4>1. 1 \in 1..m
        OBVIOUS
      <4> QED BY <4>1, <1>1, <1>4 DEF e
    <3>2. CASE p = 1
      BY <3>1, <3>2, <1>3, <1>5, <1>6
    <3>3. CASE p # 1
      <4>1. 1 \in 1..(m - 1) /\ 1 < p
        BY <3>3
      <4> QED BY <4>1, <3>1, <3>3, <1>3, <1>4, <1>6
    <3> QED BY <3>2, <3>3
  <2>2. ASSUME NEW i \in 1..(m - 1) PROVE d.next[t[i]] = IF i = m - 1 THEN 0 ELSE t[i + 1]
    <3>1. CASE i < p - 1
      <4>1. t[i] = s[i] /\ i + 1 \in 1..(m - 1) /\ t[i + 1] = s[i + 1] /\ i \in 1..m /\ i # p
        BY <3>1, <1>6
      <4>2. d.next[s[i]] = s[i + 1]
        BY <3>1, <4>1, <1>8
      <4> QED BY <3>1, <4>1, <4>2
    <3>2. CASE i = p - 1
      <4>1. t[i] = s[i] /\ i \in 1..m /\ i # p
        BY <3>2, <1>6
      <4>2. d.next[s[i]] = IF p = m THEN 0 ELSE s[p + 1]
        BY <3>2, <4>1, <1>8
      <4>3. p # m => i + 1 \in 1..(m - 1) /\ t[i + 1] = s[p + 1]
        BY <3>2, <1>6
      <4> QED BY <3>2, <4>1, <4>2, <4>3
    <3>3. CASE i > p - 1
      <4>1. t[i] = s[i + 1] /\ i + 1 \in 1..m /\ i + 1 # p /\ i + 1 # p - 1
        BY <3>3, <1>6
      <4>2. d.next[s[i + 1]] = IF i + 1 = m THEN 0 ELSE s[i + 1 + 1]
        BY <4>1, <1>8
      <4>3. i # m - 1 => i + 1 \in 1..(m - 1) /\ t[i + 1] = s[i + 1 + 1]
        BY <3>3, <1>6
      <4> QED BY <4>1, <4>2, <4>3
    <3> QED BY <3>1, <3>2, <3>3
  <2> QED BY <2>1, <2>2 DEF Linked
<1>10. d.lru_tail = IF m - 1 = 0 THEN 0 ELSE t[m - 1]
  <2>1. c.lru_tail = e <=> p = m
    BY <1>1, <1>4 DEF e
  <2>2. CASE p = m
    <3>1. d.lru_tail = IF p = 1 THEN 0 ELSE s[p - 1]
      BY <2>1, <2>2, <1>3, <1>5
    <3>2. p # 1 => m - 1 \in 1..(m - 1) /\ t[m - 1] = s[p - 1]
      BY <2>2, <1>6
    <3> QED BY <2>2, <3>1, <3>2
  <2>3. CASE p # m
    <3>1. m - 1 \in 1..(m - 1) /\ ~ (m - 1 < p) /\ m - 1 + 1 = m
      BY <2>3
    <3>2. t[m - 1] = s[m - 1 + 1]
      BY <3>1, <1>6
    <3> QED BY <3>1, <3>2, <2>1, <2>3, <1>3, <1>4
  <2> QED BY <2>2, <2>3
<1>11. ASSUME NEW i \in 1..(m - 1) PROVE d.prev[t[i]] = IF i = 1 THEN 0 ELSE t[i - 1]
  <2>1. CASE i < p
    <3>1. t[i] = s[i] /\ i \in 1..m /\ i # p /\ i # p + 1
      BY <2>1, <1>6
    <3>2. i # 1 => i - 1 \in 1..(m - 1) /\ t[i - 1] = s[i - 1]
      BY <2>1, <1>6
    <3> QED BY <3>1, <3>2, <1>8
  <2>2. CASE i = p
    <3>1. t[i] = s[i + 1] /\ i + 1 \in 1..m /\ i + 1 # p /\ i + 1 = p + 1
      BY <2>2, <1>6
    <3>2. d.prev[s[i + 1]] = IF p = 1 THEN 0 ELSE s[p - 1]
      BY <3>1, <1>8
    <3>3. i # 1 => i - 1 \in 1..(m - 1) /\ t[i - 1] = s[p - 1]
      BY <2>2, <1>6
    <3> QED BY <2>2, <3>1, <3>2, <3>3
  <2>3. CASE i > p
    <3>1. t[i] = s[i + 1] /\ i + 1 \in 1..m /\ i + 1 # p /\ i + 1 # p + 1 /\ i + 1 # 1
          /\ i + 1 - 1 = i
      BY <2>3, <1>6
    <3>2. d.prev[s[i + 1]] = s[i + 1 - 1]
      BY <3>1, <1>8
    <3>3. i # 1 /\ i - 1 \in 1..(m - 1) /\ ~ (i - 1 < p) /\ i - 1 + 1 = i
      BY <2>3
    <3>4. t[i - 1] = s[i - 1 + 1]
      BY <3>3, <1>6
    <3> QED BY <3>1, <3>2, <3>3, <3>4
  <2> QED BY <2>1, <2>2, <2>3
<1>12. LruLinked(d, t, m - 1)
  BY <1>9, <1>10, <1>11 DEF LruLinked
<1>13. ASSUME NEW x \in 1..n, ~Among(x, s, m)
       PROVE  d.next[x] = c.next[x] /\ d.prev[x] = c.prev[x]
  <2>1. \A i \in 1..m : s[i] # x
    BY <1>13 DEF Among
  <2>2. x # e /\ x # c.next[e] /\ x # c.prev[e]
    <3>1. p + 1 \in 1..m \/ p = m
      OBVIOUS
    <3>2. p - 1 \in 1..m \/ p = 1
      OBVIOUS
    <3> QED BY <1>5, <2>1, <3>1, <3>2 DEF e
  <2> QED BY <1>3, <2>2
<1> QED BY <1>7, <1>12, <1>13 DEF d, t, e

\* RemoveFromLRU of an element that is on no list leaves the lists as they are.
LEMMA RemoveLoose ==
  ASSUME NEW n \in Nat, NEW c \in CacheOf(n), NEW m \in Nat, NEW s, Listing(s, m, n),
         LruLinked(c, s, m), NEW e \in 1..n, ~Among(e, s, m), c.next[e] = 0, c.prev[e] = 0
  PROVE  LET d == RemoveFromLRU(c, e)
         IN  d.next = c.next /\ d.prev = c.prev /\ d.lru_head = c.lru_head
             /\ d.lru_tail = c.lru_tail
<1> DEFINE d == RemoveFromLRU(c, e)
<1>1. c.next \in [ 1..n -> 0..n ] /\ c.prev \in [ 1..n -> 0..n ]
  BY CacheFields
<1>2. /\ d.prev = [ i \in 1..n |-> IF i = e THEN 0
                                   ELSE IF i = c.next[e] THEN c.prev[e] ELSE c.prev[i] ]
      /\ d.next = [ i \in 1..n |-> IF i = e THEN 0
                                   ELSE IF i = c.prev[e] THEN c.next[e] ELSE c.next[i] ]
      /\ d.lru_head = (IF c.lru_head = e THEN c.next[e] ELSE c.lru_head)
      /\ d.lru_tail = (IF c.lru_tail = e THEN c.prev[e] ELSE c.lru_tail)
  BY RemoveFromLRUFields
<1> HIDE DEF d
<1>3. d.next = c.next /\ d.prev = c.prev
  BY <1>1, <1>2
<1>4. c.lru_head # e /\ c.lru_tail # e
  <2>1. m # 0 => 1 \in 1..m /\ m \in 1..m
    OBVIOUS
  <2> QED BY <2>1 DEF LruLinked, Linked, Among
<1> QED BY <1>2, <1>3, <1>4 DEF d

\* The rest of PushLRUHead.
LEMMA HeadLinked ==
  ASSUME NEW n \in Nat, NEW c \in CacheOf(n), NEW m \in Nat, NEW s, Listing(s, m, n),
         LruLinked(c, s, m), NEW e \in 1..n, ~Among(e, s, m), c.prev[e] = 0
  PROVE  LET d == HeadPushed(c, e)
         IN  /\ LruLinked(d, Before(e, s, m), m + 1)
             /\ \A x \in 1..n : ~Among(x, s, m) /\ x # e =>
                  d.next[x] = c.next[x] /\ d.prev[x] = c.prev[x]
<1> DEFINE d == HeadPushed(c, e)
           t == Before(e, s, m)
<1>0. c.next \in [ 1..n -> 0..n ] /\ c.prev \in [ 1..n -> 0..n ]
  BY CacheFields
<1>1. s \in [ 1..m -> 1..n ] /\ (\A i, j \in 1..m : s[i] = s[j] => i = j)
      /\ \A i \in 1..m : s[i] # e
  BY DEF Listing, Among
<1>2. /\ d.prev = (IF c.lru_head = 0 THEN c.prev ELSE [ c.prev EXCEPT ![c.lru_head] = e ])
      /\ d.next = [ c.next EXCEPT ![e] = c.lru_head ]
      /\ d.lru_head = e /\ d.lru_tail = IF c.lru_tail = 0 THEN e ELSE c.lru_tail
  BY HeadPushedFields
<1>3. /\ t[1] = e
      /\ \A i \in 1..(m + 1) : i # 1 => i - 1 \in 1..m /\ t[i] = s[i - 1]
      /\ \A j \in 1..m : j + 1 \in 1..(m + 1) /\ t[j + 1] = s[j]
  BY BeforeElements
<1>4. /\ c.lru_head = (IF m = 0 THEN 0 ELSE s[1])
      /\ c.lru_tail = (IF m = 0 THEN 0 ELSE s[m])
      /\ \A i \in 1..m : /\ c.next[s[i]] = IF i = m THEN 0 ELSE s[i + 1]
                         /\ c.prev[s[i]] = IF i = 1 THEN 0 ELSE s[i - 1]
  BY DEF LruLinked, Linked
<1>5. m # 0 => /\ 1 \in 1..m /\ m \in 1..m /\ s[1] # 0 /\ s[m] # 0
               /\ c.lru_head = s[1] /\ c.lru_tail = s[m]
  BY <1>1, <1>4
<1> HIDE DEF d, t
<1>6. d.next[e] = c.lru_head /\ \A x \in 1..n : x # e => d.next[x] = c.next[x]
  BY <1>0, <1>2
<1>7. \A x \in 1..n : d.prev[x] = IF m # 0 /\ x = s[1] THEN e ELSE c.prev[x]
  <2>1. CASE m = 0
    BY <2>1, <1>2, <1>4
  <2>2. CASE m # 0
    BY <2>2, <1>0, <1>2, <1>5
  <2> QED BY <2>1, <2>2
<1>8. Linked(d.next, d.lru_head, t, m + 1)
  <2>1. d.lru_head = IF m + 1 = 0 THEN 0 ELSE t[1]
    BY <1>2, <1>3
  <2>2. ASSUME NEW i \in 1..(m + 1) PROVE d.next[t[i]] = IF i = m + 1 THEN 0 ELSE t[i + 1]
    <3>1. CASE i = 1
      <4>1. d.next[t[i]] = IF m = 0 THEN 0 ELSE s[1]
        BY <3>1, <1>3, <1>4, <1>6
      <4>2. m # 0 => t[1 + 1] = s[1]
        BY <1>3, <1>5
      <4> QED BY <3>1, <4>1, <4>2
    <3>2. CASE i # 1
      <4>1. i - 1 \in 1..m /\ t[i] = s[i - 1] /\ s[i - 1] \in 1..n /\ s[i - 1] # e
        BY <3>2, <1>1, <1>3
      <4>2. d.next[t[i]] = IF i - 1 = m THEN 0 ELSE s[i - 1 + 1]
        BY <4>1, <1>4, <1>6
      <4>3. i - 1 # m => i \in 1..m /\ t[i + 1] = s[i]
        BY <1>3
      <4> QED BY <4>2, <4>3
    <3> QED BY <3>1, <3>2
  <2> QED BY <2>1, <2>2 DEF Linked
<1>9. d.lru_tail = IF m + 1 = 0 THEN 0 ELSE t[m + 1]
  <2>1. CASE m = 0
    BY <2>1, <1>2, <1>3, <1>4
  <2>2. CASE m # 0
    BY <2>2, <1>2, <1>3, <1>5
  <2> QED BY <2>1, <2>2
<1>10. ASSUME NEW i \in 1..(m + 1) PROVE d.prev[t[i]] = IF i = 1 THEN 0 ELSE t[i - 1]
  <2>1. CASE i = 1
    <3>1. d.prev[e] = c.prev[e]
      BY <1>1, <1>5, <1>7
    <3> QED BY <2>1, <3>1, <1>3
  <2>2. CASE i # 1
    <3>1. i - 1 \in 1..m /\ t[i] = s[i - 1] /\ s[i - 1] \in 1..n
      BY <2>2, <1>1, <1>3
    <3>2. CASE i = 2
      <4>1. d.prev[s[1]] = e
        BY <3>1, <3>2, <1>7
      <4> QED BY <3>1, <3>2, <4>1, <1>3
    <3>3. CASE i # 2
      <4>1. i - 1 # 1 /\ i - 1 - 1 \in 1..m /\ i - 1 - 1 + 1 = i - 1
        BY <2>2, <3>1, <3>3
      <4>2. s[i - 1] # s[1]
        BY <3>1, <4>1, <1>1
      <4>3. d.prev[t[i]] = s[i - 1 - 1]
        BY <3>1, <4>1, <4>2, <1>4, <1>7
      <4>4. t[i - 1 - 1 + 1] = s[i - 1 - 1]
        BY <4>1, <1>3
      <4> QED BY <2>2, <4>1, <4>3, <4>4
    <3> QED BY <3>2, <3>3
  <2> QED BY <2>1, <2>2
<1>11. ASSUME NEW x \in 1..n, ~Among(x, s, m), x # e
       PROVE  d.next[x] = c.next[x] /\ d.prev[x] = c.prev[x]
  <2>1. m # 0 => x # s[1]
    BY <1>11, <1>5 DEF Among
  <2> QED BY <1>6, <1>7, <1>11, <2>1
<1> QED BY <1>8, <1>9, <1>10, <1>11 DEF LruLinked, d, t

\* PushFreeList of an element that is on no list.
LEMMA PushFreeLinked ==
  ASSUME NEW n \in Nat, NEW c \in CacheOf(n), NEW l \in Nat, NEW f, Listing(f, l, n),
         FreeLinked(c, f, l), NEW e \in 1..n, ~Among(e, f, l)
  PROVE  LET d == PushFreeList(c, e)
         IN  /\ FreeLinked(d, Before(e, f, l), l + 1)
             /\ \A x \in 1..n : x # e => d.next[x] = c.next[x] /\ d.prev[x] = c.prev[x]
<1> DEFINE d == PushFreeList(c, e)
           t == Before(e, f, l)
<1>0. c.next \in [ 1..n -> 0..n ] /\ c.prev \in [ 1..n -> 0..n ]
  BY CacheFields
<1>1. f \in [ 1..l -> 1..n ] /\ \A i \in 1..l : f[i] # e
  BY DEF Listing, Among
<1>2. /\ d.prev = [ c.prev EXCEPT ![e] = 0 ] /\ d.next = [ c.next EXCEPT ![e] = c.free_list ]
      /\ d.free_list = e
  BY PushFreeListFields
<1>3. /\ t[1] = e
      /\ \A i \in 1..(l + 1) : i # 1 => i - 1 \in 1..l /\ t[i] = f[i - 1]
      /\ \A j \in 1..l : j + 1 \in 1..(l + 1) /\ t[j + 1] = f[j]
  BY BeforeElements
<1>4. /\ c.free_list = (IF l = 0 THEN 0 ELSE f[1])
      /\ \A i \in 1..l : /\ c.next[f[i]] = IF i = l THEN 0 ELSE f[i + 1]
                         /\ c.prev[f[i]] = 0
  BY DEF FreeLinked, Linked
<1> HIDE DEF d, t
<1>5. /\ d.next[e] = c.free_list /\ d.prev[e] = 0
      /\ \A x \in 1..n : x # e => d.next[x] = c.next[x] /\ d.prev[x] = c.prev[x]
  BY <1>0, <1>2
<1>6. d.free_list = IF l + 1 = 0 THEN 0 ELSE t[1]
  BY <1>2, <1>3
<1>7. ASSUME NEW i \in 1..(l + 1)
      PROVE  d.next[t[i]] = (IF i = l + 1 THEN 0 ELSE t[i + 1]) /\ d.prev[t[i]] = 0
  <2>1. CASE i = 1
    <3>1. d.next[t[i]] = IF l = 0 THEN 0 ELSE f[1]
      BY <2>1, <1>3, <1>4, <1>5
    <3>2. l # 0 => 1 \in 1..l /\ t[1 + 1] = f[1]
      BY <1>3
    <3> QED BY <2>1, <3>1, <3>2, <1>3, <1>5
  <2>2. CASE i # 1
    <3>1. i - 1 \in 1..l /\ t[i] = f[i - 1] /\ f[i - 1] \in 1..n /\ f[i - 1] # e
      BY <2>2, <1>1, <1>3
    <3>2. d.next[t[i]] = (IF i - 1 = l THEN 0 ELSE f[i - 1 + 1]) /\ d.prev[t[i]] = 0
      BY <3>1, <1>4, <1>5
    <3>3. i - 1 # l => i \in 1..l /\ t[i + 1] = f[i]
      BY <1>3
    <3> QED BY <3>2, <3>3
  <2> QED BY <2>1, <2>2
<1> QED BY <1>5, <1>6, <1>7 DEF FreeLinked, Linked, d, t

\* PopFreeList takes the first element and unlinks it.
LEMMA PopFreeLinked ==
  ASSUME NEW n \in Nat, NEW c \in CacheOf(n), NEW l \in Nat, NEW f, Listing(f, l, n),
         FreeLinked(c, f, l), l # 0
  PROVE  LET d == PopFreeList(c)
             e == c.free_list
         IN  /\ e = f[1] /\ e \in 1..n /\ d \in CacheOf(n) /\ SameTable(d, c)
             /\ d.lru_head = c.lru_head /\ d.lru_tail = c.lru_tail
             /\ FreeLinked(d, Without(f, l, 1), l - 1)
             /\ d.next[e] = 0 /\ d.prev[e] = 0
             /\ \A x \in 1..n : ~Among(x, f, l) => d.next[x] = c.next[x] /\ d.prev[x] = c.prev[x]
<1> DEFINE d == PopFreeList(c)
           e == c.free_list
           t == Without(f, l, 1)
<1>0. c.next \in [ 1..n -> 0..n ] /\ c.prev \in [ 1..n -> 0..n ]
  BY CacheFields
<1>1. f \in [ 1..l -> 1..n ] /\ \A i, j \in 1..l : f[i] = f[j] => i = j
  BY DEF Listing
<1>2. 1 \in 1..l
  OBVIOUS
<1>3. /\ e = f[1]
      /\ \A i \in 1..l : /\ c.next[f[i]] = IF i = l THEN 0 ELSE f[i + 1]
                         /\ c.prev[f[i]] = 0
  BY DEF FreeLinked, Linked
<1>4. e \in 1..n /\ e # 0 /\ c.prev[e] = 0 /\ c.next[e] = IF l = 1 THEN 0 ELSE f[2]
  BY <1>1, <1>2, <1>3
<1>5. /\ d \in CacheOf(n) /\ SameTable(d, c)
      /\ d.prev = (IF c.next[e] = 0 THEN c.prev ELSE [ c.prev EXCEPT ![c.next[e]] = 0 ])
      /\ d.next = [ c.next EXCEPT ![e] = 0 ]
      /\ d.free_list = c.next[e]
      /\ d.lru_head = c.lru_head /\ d.lru_tail = c.lru_tail
  BY <1>4, PopFreeListFields
<1>6. /\ l - 1 \in Nat
      /\ \A i \in 1..(l - 1) : i + 1 \in 1..l /\ t[i] = f[i + 1]
  BY <1>2, WithoutElements
<1> HIDE DEF d, t, e
<1>7. /\ d.next[e] = 0 /\ d.prev[e] = 0
      /\ \A x \in 1..n : x # e => d.next[x] = c.next[x]
  BY <1>0, <1>4, <1>5
<1>8. \A x \in 1..n : c.prev[x] = 0 => d.prev[x] = 0
  BY <1>0, <1>5
<1>9. d.free_list = IF l - 1 = 0 THEN 0 ELSE t[1]
  BY <1>4, <1>5, <1>6
<1>10. ASSUME NEW i \in 1..(l - 1)
       PROVE  d.next[t[i]] = (IF i = l - 1 THEN 0 ELSE t[i + 1]) /\ d.prev[t[i]] = 0
  <2>1. i + 1 \in 1..l /\ t[i] = f[i + 1] /\ f[i + 1] \in 1..n /\ f[i + 1] # e
    BY <1>1, <1>2, <1>3, <1>6
  <2>2. d.next[t[i]] = (IF i + 1 = l THEN 0 ELSE f[i + 1 + 1]) /\ d.prev[t[i]] = 0
    BY <2>1, <1>3, <1>7, <1>8
  <2>3. i + 1 # l => i + 1 \in 1..(l - 1) /\ t[i + 1] = f[i + 1 + 1]
    BY <1>6
  <2> QED BY <2>2, <2>3
<1>11. ASSUME NEW x \in 1..n, ~Among(x, f, l)
       PROVE  d.next[x] = c.next[x] /\ d.prev[x] = c.prev[x]
  <2>1. \A i \in 1..l : f[i] # x
    BY <1>11 DEF Among
  <2>2. x # e /\ x # c.next[e]
    <3>1. l = 1 \/ 2 \in 1..l
      OBVIOUS
    <3> QED BY <1>2, <1>3, <1>4, <2>1, <3>1
  <2> QED BY <1>0, <1>5, <2>2
<1> QED BY <1>3, <1>4, <1>5, <1>7, <1>9, <1>10, <1>11 DEF FreeLinked, Linked, d, t, e

\* A list none of whose elements is touched.
LEMMA LruElsewhere ==
  ASSUME NEW n \in Nat, NEW m \in Nat, NEW s, Listing(s, m, n), NEW c, NEW d,
         LruLinked(c, s, m), d.lru_head = c.lru_head, d.lru_tail = c.lru_tail,
         \A x \in 1..n : Among(x, s, m) => d.next[x] = c.next[x] /\ d.prev[x] = c.prev[x]
  PROVE  LruLinked(d, s, m)
<1>1. \A i \in 1..m : s[i] \in 1..n /\ Among(s[i], s, m)
  BY DEF Listing, Among
<1> QED BY <1>1 DEF LruLinked, Linked

\* Likewise the free list.
LEMMA FreeElsewhere ==
  ASSUME NEW n \in Nat, NEW l \in Nat, NEW f, Listing(f, l, n), NEW c, NEW d,
         FreeLinked(c, f, l), d.free_list = c.free_list,
         \A x \in 1..n : Among(x, f, l) => d.next[x] = c.next[x] /\ d.prev[x] = c.prev[x]
  PROVE  FreeLinked(d, f, l)
<1>1. \A i \in 1..l : f[i] \in 1..n /\ Among(f[i], f, l)
  BY DEF Listing, Among
<1> QED BY <1>1 DEF FreeLinked, Linked

-----------------------------------------------------------------------------
(***************************************************************************)
(* The lists and the hash table together.                                  *)
(***************************************************************************)

\* The table leads each key to its element, which s lists.
Indexed(c, n, s, m) ==
  /\ \A x \in 1..n : Among(x, s, m) =>
       c.key[x] \in DOMAIN c.table /\ c.table[c.key[x]] = x
  /\ \A k \in DOMAIN c.table : Among(c.table[k], s, m) /\ c.key[c.table[k]] = k

\* The cache has n elements; s is its LRU list and f its free list.
Lists(c, n, s, m, f, l) ==
  /\ c \in CacheOf(n) /\ Listing(s, m, n) /\ Listing(f, l, n)
  /\ \A x \in 1..n : Among(x, s, m) <=> ~Among(x, f, l)
  /\ LruLinked(c, s, m) /\ FreeLinked(c, f, l) /\ Indexed(c, n, s, m)

TablesOf(n) == UNION { [ K -> 1..n ] : K \in SUBSET Key }

SameLists(d, c) ==
  /\ d.next = c.next /\ d.prev = c.prev /\ d.free_list = c.free_list
  /\ d.lru_head = c.lru_head /\ d.lru_tail = c.lru_tail

SameBlocks(d, c) ==
  d.block_count = c.block_count /\ d.next_block_size = c.next_block_size

\* Setting the table changes the table.
LEMMA TableFields ==
  ASSUME NEW n \in Nat, NEW c \in CacheOf(n), NEW t \in TablesOf(n)
  PROVE  LET d == [ c EXCEPT !.table = t ]
         IN  /\ d \in CacheOf(n) /\ d.table = t /\ d.key = c.key /\ d.value = c.value
             /\ SameLists(d, c) /\ SameBlocks(d, c)
BY DEF CacheOf, TablesOf, SameLists, SameBlocks

\* Evict moves an element from its place in the LRU list to the free list.
LEMMA EvictLists ==
  ASSUME NEW n \in Nat, NEW m \in Nat, NEW l \in Nat, NEW s, NEW f, NEW c,
         Lists(c, n, s, m, f, l), NEW p \in 1..m
  PROVE  LET e == s[p]
             d == Evict(c, e)
         IN  /\ Lists(d, n, Without(s, m, p), m - 1, Before(e, f, l), l + 1)
             /\ d.table = [ i \in DOMAIN c.table \ {c.key[e]} |-> c.table[i] ]
             /\ d.key = c.key /\ d.value = c.value /\ SameBlocks(d, c)
<1> DEFINE e == s[p]
           k == c.key[e]
           t == [ i \in DOMAIN c.table \ {k} |-> c.table[i] ]
           r == [ c EXCEPT !.table = t ]
           q == RemoveFromLRU(r, e)
           d == PushFreeList(q, e)
           w == Without(s, m, p)
           g == Before(e, f, l)
<1>0. /\ c \in CacheOf(n) /\ Listing(s, m, n) /\ Listing(f, l, n)
      /\ \A x \in 1..n : Among(x, s, m) <=> ~Among(x, f, l)
      /\ LruLinked(c, s, m) /\ FreeLinked(c, f, l) /\ Indexed(c, n, s, m)
  BY DEF Lists
<1>1. e \in 1..n /\ Among(e, s, m)
  BY <1>0 DEF Listing, Among
<1>2. k \in DOMAIN c.table /\ c.table[k] = e /\ DOMAIN c.table \subseteq Key
      /\ \A i \in DOMAIN c.table : c.table[i] \in 1..n
  BY <1>0, <1>1, CacheFields DEF Indexed
<1>3. t \in TablesOf(n)
  <2> DEFINE K == DOMAIN c.table \ {k}
  <2>1. t \in [ K -> 1..n ] /\ K \in SUBSET Key
    BY <1>2
  <2> HIDE DEF t, K
  <2> QED BY <2>1 DEF TablesOf
<1>4. Evict(c, e) = d
  <2>1. (k \in DOMAIN c.table) = TRUE
    BY <1>2
  <2>2. Check(c, k \in DOMAIN c.table) = c
    BY <2>1, <1>0, CheckHolds
  <2> QED BY <2>2 DEF Evict
<1> HIDE DEF t, e
<1>5. /\ r \in CacheOf(n) /\ r.table = t /\ r.key = c.key /\ r.value = c.value
      /\ SameLists(r, c) /\ SameBlocks(r, c)
  BY <1>0, <1>3, TableFields
<1> HIDE DEF r
<1>6. LruLinked(r, s, m) /\ FreeLinked(r, f, l)
  BY <1>0, <1>5 DEF LruLinked, FreeLinked, SameLists
<1>7. q \in CacheOf(n) /\ SameTable(q, r) /\ q.free_list = r.free_list
  BY <1>1, <1>5, ListsKeep
<1>8. /\ LruLinked(q, w, m - 1) /\ q.next[e] = 0 /\ q.prev[e] = 0
      /\ \A x \in 1..n : ~Among(x, s, m) => q.next[x] = r.next[x] /\ q.prev[x] = r.prev[x]
  BY <1>0, <1>5, <1>6, RemoveLinked DEF e
<1> HIDE DEF q
<1>9. FreeLinked(q, f, l)
  <2>1. \A x \in 1..n : Among(x, f, l) => q.next[x] = r.next[x] /\ q.prev[x] = r.prev[x]
    BY <1>0, <1>8
  <2> QED BY <2>1, <1>0, <1>6, <1>7, FreeElsewhere
<1>10. Listing(w, m - 1, n) /\ m - 1 \in Nat
       /\ \A x : Among(x, w, m - 1) <=> Among(x, s, m) /\ x # e
  BY <1>0, WithoutListing DEF e
<1>11. ~Among(e, f, l)
  BY <1>0, <1>1
<1>12. Listing(g, l + 1, n) /\ \A x : Among(x, g, l + 1) <=> Among(x, f, l) \/ x = e
  <2>1. Listing(f, l, n) /\ e \in 1..n
    BY <1>0, <1>1
  <2> QED BY <2>1, <1>11, BeforeListing
<1>13. /\ d \in CacheOf(n) /\ SameTable(d, q)
       /\ d.lru_head = q.lru_head /\ d.lru_tail = q.lru_tail
  BY <1>1, <1>7, ListsKeep
<1>14. /\ FreeLinked(d, g, l + 1)
       /\ \A x \in 1..n : x # e => d.next[x] = q.next[x] /\ d.prev[x] = q.prev[x]
  BY <1>0, <1>1, <1>7, <1>9, <1>11, PushFreeLinked
<1> HIDE DEF d, w, g
<1>15. LruLinked(d, w, m - 1)
  <2>1. \A x \in 1..n : Among(x, w, m - 1) => d.next[x] = q.next[x] /\ d.prev[x] = q.prev[x]
    BY <1>10, <1>14
  <2> QED BY <2>1, <1>8, <1>10, <1>13, LruElsewhere
<1>16. d.table = t /\ d.key = c.key /\ d.value = c.value /\ SameBlocks(d, c)
  BY <1>5, <1>7, <1>13 DEF SameTable, SameBlocks
<1>17. Indexed(d, n, w, m - 1)
  <2>1. ASSUME NEW x \in 1..n, Among(x, w, m - 1)
        PROVE  d.key[x] \in DOMAIN d.table /\ d.table[d.key[x]] = x
    <3>1. Among(x, s, m) /\ x # e
      BY <2>1, <1>10
    <3>2. c.key[x] \in DOMAIN c.table /\ c.table[c.key[x]] = x
      BY <3>1, <1>0 DEF Indexed
    <3>3. c.key[x] # k
      BY <3>1, <3>2, <1>2
    <3> QED BY <3>2, <3>3, <1>16 DEF t
  <2>2. ASSUME NEW i \in DOMAIN d.table
        PROVE  Among(d.table[i], w, m - 1) /\ d.key[d.table[i]] = i
    <3>1. i \in DOMAIN c.table /\ i # k /\ d.table[i] = c.table[i]
      BY <2>2, <1>16 DEF t
    <3>2. Among(c.table[i], s, m) /\ c.key[c.table[i]] = i
      BY <3>1, <1>0 DEF Indexed
    <3>3. c.table[i] # e
      BY <3>1, <3>2
    <3> QED BY <3>1, <3>2, <3>3, <1>10, <1>16
  <2> QED BY <2>1, <2>2 DEF Indexed
<1>18. \A x \in 1..n : Among(x, w, m - 1) <=> ~Among(x, g, l + 1)
  BY <1>0, <1>10, <1>12
<1>19. Lists(d, n, w, m - 1, g, l + 1)
  BY <1>10, <1>12, <1>13, <1>14, <1>15, <1>17, <1>18 DEF Lists
<1> QED BY <1>4, <1>16, <1>19 DEF w, g, e, t

\* PushLRUHead moves an element from its place in the LRU list to the head.
LEMMA MoveLists ==
  ASSUME NEW n \in Nat, NEW m \in Nat, NEW l \in Nat, NEW s, NEW f, NEW c,
         Lists(c, n, s, m, f, l), NEW p \in 1..m
  PROVE  LET d == PushLRUHead(c, s[p])
         IN  /\ Lists(d, n, Before(s[p], Without(s, m, p), m - 1), m, f, l)
             /\ SameTable(d, c)
<1> DEFINE e == s[p]
           q == RemoveFromLRU(c, e)
           d == HeadPushed(q, e)
           w == Without(s, m, p)
           g == Before(e, w, m - 1)
<1>0. /\ c \in CacheOf(n) /\ Listing(s, m, n) /\ Listing(f, l, n)
      /\ \A x \in 1..n : Among(x, s, m) <=> ~Among(x, f, l)
      /\ LruLinked(c, s, m) /\ FreeLinked(c, f, l) /\ Indexed(c, n, s, m)
  BY DEF Lists
<1>1. e \in 1..n /\ Among(e, s, m)
  BY <1>0 DEF Listing, Among
<1>2. m - 1 \in Nat /\ m - 1 + 1 = m
  OBVIOUS
<1>3. Listing(w, m - 1, n) /\ \A x : Among(x, w, m - 1) <=> Among(x, s, m) /\ x # e
  BY <1>0, WithoutListing
<1>4. CASE c.lru_head = e
  <2>1. PushLRUHead(c, e) = c
    BY <1>4, PushLRUHeadIs
  <2>2. p = 1
    <3>1. 1 \in 1..m /\ c.lru_head = s[1]
      BY <1>0 DEF LruLinked, Linked
    <3> QED BY <3>1, <1>4, <1>0 DEF Listing
  <2>3. g = s
    <3>1. \A i \in 1..(m - 1) : i + 1 \in 1..m /\ w[i] = s[i + 1]
      BY <2>2, WithoutElements
    <3>2. g[1] = s[1] /\ \A i \in 1..m : i # 1 => i - 1 \in 1..(m - 1) /\ g[i] = w[i - 1]
      <4>1. g[1] = e /\ \A i \in 1..(m - 1 + 1) : i # 1 => i - 1 \in 1..(m - 1) /\ g[i] = w[i - 1]
        BY <1>2, BeforeElements
      <4> QED BY <4>1, <1>2, <2>2
    <3>3. g = [ i \in 1..m |-> g[i] ] /\ s = [ i \in 1..m |-> s[i] ]
      BY <1>0, <1>2 DEF Before, Listing
    <3> HIDE DEF g, w
    <3>4. \A i \in 1..m : g[i] = s[i]
      <4> TAKE i \in 1..m
      <4>1. CASE i = 1
        BY <4>1, <3>2
      <4>2. CASE i # 1
        <5>1. i - 1 \in 1..(m - 1) /\ g[i] = w[i - 1] /\ i - 1 + 1 = i
          BY <4>2, <3>2
        <5> QED BY <5>1, <3>1
      <4> QED BY <4>1, <4>2
    <3> QED BY <3>3, <3>4
  <2>4. SameTable(c, c)
    BY DEF SameTable
  <2> QED BY <2>1, <2>3, <2>4
<1>5. CASE c.lru_head # e
  <2> HIDE DEF e
  <2>1. PushLRUHead(c, e) = d
    BY <1>5, PushLRUHeadIs
  <2>2. q \in CacheOf(n) /\ SameTable(q, c) /\ q.free_list = c.free_list
    BY <1>0, <1>1, ListsKeep
  <2>3. /\ LruLinked(q, w, m - 1) /\ q.next[e] = 0 /\ q.prev[e] = 0
        /\ \A x \in 1..n : ~Among(x, s, m) => q.next[x] = c.next[x] /\ q.prev[x] = c.prev[x]
    BY <1>0, RemoveLinked DEF e
  <2> HIDE DEF q, w
  <2>4. ~Among(e, w, m - 1)
    BY <1>3
  <2>5. Listing(g, m, n) /\ \A x : Among(x, g, m) <=> Among(x, w, m - 1) \/ x = e
    <3>1. Listing(g, m - 1 + 1, n) /\ \A x : Among(x, g, m - 1 + 1) <=> Among(x, w, m - 1) \/ x = e
      BY <1>1, <1>2, <1>3, <2>4, BeforeListing
    <3> QED BY <3>1, <1>2
  <2>6. d \in CacheOf(n) /\ SameTable(d, q) /\ d.free_list = q.free_list
    BY <1>1, <2>2, ListsKeep
  <2>7. /\ LruLinked(d, g, m)
        /\ \A x \in 1..n : ~Among(x, w, m - 1) /\ x # e =>
             d.next[x] = q.next[x] /\ d.prev[x] = q.prev[x]
    <3>1. /\ LruLinked(d, g, m - 1 + 1)
          /\ \A x \in 1..n : ~Among(x, w, m - 1) /\ x # e =>
               d.next[x] = q.next[x] /\ d.prev[x] = q.prev[x]
      BY <1>1, <1>2, <1>3, <2>2, <2>3, <2>4, HeadLinked
    <3> QED BY <3>1, <1>2
  <2> HIDE DEF d, g
  <2>8. FreeLinked(d, f, l)
    <3>1. \A x \in 1..n : Among(x, f, l) => d.next[x] = c.next[x] /\ d.prev[x] = c.prev[x]
      BY <1>0, <1>1, <1>3, <2>3, <2>7
    <3>2. d.free_list = c.free_list
      BY <2>2, <2>6
    <3> QED BY <3>1, <3>2, <1>0, FreeElsewhere
  <2>9. SameTable(d, c)
    BY <2>2, <2>6 DEF SameTable
  <2>10. \A x : Among(x, g, m) <=> Among(x, s, m)
    BY <1>1, <1>3, <2>5
  <2>11. Indexed(d, n, g, m)
    BY <1>0, <2>9, <2>10 DEF Indexed, SameTable
  <2>12. Lists(d, n, g, m, f, l)
    BY <1>0, <2>5, <2>6, <2>7, <2>8, <2>10, <2>11 DEF Lists
  <2> QED BY <2>1, <2>9, <2>12 DEF g, w, e
<1> QED BY <1>4, <1>5

\* Setting an entry changes the entry and the table.
LEMMA EntryFields ==
  ASSUME NEW n \in Nat, NEW c \in CacheOf(n), NEW t \in TablesOf(n),
         NEW keys \in [ 1..n -> Key \cup {0} ], NEW values \in [ 1..n -> Value \cup {0} ]
  PROVE  LET d == [ c EXCEPT !.key = keys, !.value = values, !.table = t ]
         IN  /\ d \in CacheOf(n) /\ d.table = t /\ d.key = keys /\ d.value = values
             /\ SameLists(d, c) /\ SameBlocks(d, c)
BY DEF CacheOf, TablesOf, SameLists, SameBlocks

\* The end of Insert: the first free element becomes the head of the LRU list.
Placed(c, k, v) ==
  LET e == c.free_list
  IN  PushLRUHead([ PopFreeList(Check(c, e # 0)) EXCEPT
                      !.key[e] = k, !.value[e] = v,
                      !.table = [ i \in DOMAIN @ \cup {k} |-> IF i = k THEN e ELSE @[i] ] ],
                  e)

\* Where that leaves the lists and the table.
LEMMA PlaceLists ==
  ASSUME NEW n \in Nat, NEW m \in Nat, NEW l \in Nat, NEW s, NEW f, NEW c,
         Lists(c, n, s, m, f, l), l # 0,
         NEW k \in Key, k \notin DOMAIN c.table, NEW v \in Value
  PROVE  LET e == f[1]
             d == Placed(c, k, v)
         IN  /\ Lists(d, n, Before(e, s, m), m + 1, Without(f, l, 1), l - 1)
             /\ d.table = [ i \in DOMAIN c.table \cup {k} |-> IF i = k THEN e ELSE c.table[i] ]
             /\ d.key = [ c.key EXCEPT ![e] = k ] /\ d.value = [ c.value EXCEPT ![e] = v ]
             /\ SameBlocks(d, c)
<1> DEFINE e == c.free_list
           b == PopFreeList(c)
           keys == [ c.key EXCEPT ![e] = k ]
           values == [ c.value EXCEPT ![e] = v ]
           t == [ i \in DOMAIN c.table \cup {k} |-> IF i = k THEN e ELSE c.table[i] ]
           r == [ b EXCEPT !.key = keys, !.value = values, !.table = t ]
           q == RemoveFromLRU(r, e)
           d == HeadPushed(q, e)
           w == Without(f, l, 1)
           g == Before(e, s, m)
<1>0. /\ c \in CacheOf(n) /\ Listing(s, m, n) /\ Listing(f, l, n)
      /\ \A x \in 1..n : Among(x, s, m) <=> ~Among(x, f, l)
      /\ LruLinked(c, s, m) /\ FreeLinked(c, f, l) /\ Indexed(c, n, s, m)
  BY DEF Lists
<1>1. /\ e = f[1] /\ e \in 1..n /\ b \in CacheOf(n) /\ SameTable(b, c)
      /\ b.lru_head = c.lru_head /\ b.lru_tail = c.lru_tail
      /\ FreeLinked(b, w, l - 1)
      /\ b.next[e] = 0 /\ b.prev[e] = 0
      /\ \A x \in 1..n : ~Among(x, f, l) => b.next[x] = c.next[x] /\ b.prev[x] = c.prev[x]
  BY <1>0, PopFreeLinked
<1>2. Among(e, f, l) /\ ~Among(e, s, m) /\ 1 \in 1..l /\ l - 1 \in Nat
  <2>1. 1 \in 1..l
    OBVIOUS
  <2> QED BY <2>1, <1>0, <1>1 DEF Among
<1>3. /\ DOMAIN c.table \subseteq Key /\ \A i \in DOMAIN c.table : c.table[i] \in 1..n
      /\ c.key \in [ 1..n -> Key \cup {0} ] /\ c.value \in [ 1..n -> Value \cup {0} ]
  BY <1>0, CacheFields
<1>4. t \in TablesOf(n)
  <2> DEFINE K == DOMAIN c.table \cup {k}
  <2>1. t \in [ K -> 1..n ] /\ K \in SUBSET Key
    BY <1>1, <1>3
  <2> HIDE DEF t, K
  <2> QED BY <2>1 DEF TablesOf
<1>5. keys \in [ 1..n -> Key \cup {0} ] /\ values \in [ 1..n -> Value \cup {0} ]
  BY <1>1, <1>3
<1>6. Placed(c, k, v) = PushLRUHead(r, e)
  <2>1. (e # 0) = TRUE
    BY <1>1
  <2>2. Check(c, e # 0) = c
    BY <2>1, <1>0, CheckHolds
  <2>3. b.table = c.table /\ b.key = c.key /\ b.value = c.value
    BY <1>1 DEF SameTable
  <2> HIDE DEF e
  <2>4. Placed(c, k, v)
          = PushLRUHead([ b EXCEPT !.key[e] = k, !.value[e] = v,
               !.table = [ i \in DOMAIN b.table \cup {k} |-> IF i = k THEN e ELSE b.table[i] ] ], e)
    BY <2>2 DEF Placed, e
  <2>5. [ b EXCEPT !.key[e] = k, !.value[e] = v,
               !.table = [ i \in DOMAIN b.table \cup {k} |-> IF i = k THEN e ELSE b.table[i] ] ]
          = [ b EXCEPT !.key = [ b.key EXCEPT ![e] = k ], !.value = [ b.value EXCEPT ![e] = v ],
               !.table = [ i \in DOMAIN b.table \cup {k} |-> IF i = k THEN e ELSE b.table[i] ] ]
    OBVIOUS
  <2> QED BY <2>3, <2>4, <2>5
<1> HIDE DEF e, b, t, keys, values
<1>7. /\ r \in CacheOf(n) /\ r.table = t /\ r.key = keys /\ r.value = values
      /\ SameLists(r, b) /\ SameBlocks(r, b)
  BY <1>1, <1>4, <1>5, EntryFields
<1> HIDE DEF r
<1>8. Listing(w, l - 1, n) /\ \A x : Among(x, w, l - 1) <=> Among(x, f, l) /\ x # e
  BY <1>0, <1>1, <1>2, WithoutListing
<1>9. Listing(g, m + 1, n) /\ \A x : Among(x, g, m + 1) <=> Among(x, s, m) \/ x = e
  BY <1>0, <1>1, <1>2, BeforeListing
<1>10. LruLinked(b, s, m)
  <2>1. \A x \in 1..n : Among(x, s, m) => b.next[x] = c.next[x] /\ b.prev[x] = c.prev[x]
    BY <1>0, <1>1
  <2> QED BY <2>1, <1>0, <1>1, LruElsewhere
<1>11. /\ LruLinked(r, s, m) /\ FreeLinked(r, w, l - 1) /\ r.next[e] = 0 /\ r.prev[e] = 0
  BY <1>1, <1>7, <1>10 DEF LruLinked, FreeLinked, SameLists
<1>12. PushLRUHead(r, e) = d
  <2>1. r.lru_head # e
    <3>1. m # 0 => 1 \in 1..m
      OBVIOUS
    <3> QED BY <3>1, <1>1, <1>2, <1>11 DEF LruLinked, Linked, Among
  <2> QED BY <2>1, PushLRUHeadIs
<1>13. q \in CacheOf(n) /\ SameTable(q, r) /\ q.free_list = r.free_list
  BY <1>1, <1>7, ListsKeep
<1>14. q.next = r.next /\ q.prev = r.prev /\ q.lru_head = r.lru_head /\ q.lru_tail = r.lru_tail
  BY <1>0, <1>1, <1>2, <1>7, <1>11, RemoveLoose
<1> HIDE DEF q
<1>15. LruLinked(q, s, m) /\ FreeLinked(q, w, l - 1) /\ q.prev[e] = 0
  BY <1>11, <1>13, <1>14 DEF LruLinked, FreeLinked
<1>16. d \in CacheOf(n) /\ SameTable(d, q) /\ d.free_list = q.free_list
  BY <1>1, <1>13, ListsKeep
<1>17. /\ LruLinked(d, g, m + 1)
       /\ \A x \in 1..n : ~Among(x, s, m) /\ x # e => d.next[x] = q.next[x] /\ d.prev[x] = q.prev[x]
  BY <1>0, <1>1, <1>2, <1>13, <1>15, HeadLinked
<1> HIDE DEF d, w, g
<1>18. FreeLinked(d, w, l - 1)
  <2>1. \A x \in 1..n : Among(x, w, l - 1) => d.next[x] = q.next[x] /\ d.prev[x] = q.prev[x]
    BY <1>0, <1>8, <1>17
  <2> QED BY <2>1, <1>2, <1>8, <1>15, <1>16, FreeElsewhere
<1>19. d.table = t /\ d.key = keys /\ d.value = values /\ SameBlocks(d, c)
  BY <1>1, <1>7, <1>13, <1>16 DEF SameTable, SameBlocks
<1>20. keys[e] = k /\ \A x \in 1..n : x # e => keys[x] = c.key[x]
  BY <1>1, <1>3 DEF keys
<1>21. t[k] = e /\ DOMAIN t = DOMAIN c.table \cup {k} /\ \A i \in DOMAIN c.table : t[i] = c.table[i]
  BY DEF t
<1>22. Indexed(d, n, g, m + 1)
  <2>1. ASSUME NEW x \in 1..n, Among(x, g, m + 1)
        PROVE  keys[x] \in DOMAIN t /\ t[keys[x]] = x
    <3>1. CASE x = e
      BY <3>1, <1>20, <1>21
    <3>2. CASE x # e
      <4>1. Among(x, s, m) /\ keys[x] = c.key[x]
        BY <2>1, <3>2, <1>9, <1>20
      <4>2. c.key[x] \in DOMAIN c.table /\ c.table[c.key[x]] = x
        BY <4>1, <1>0 DEF Indexed
      <4> QED BY <4>1, <4>2, <1>21
    <3> QED BY <3>1, <3>2
  <2>2. ASSUME NEW i \in DOMAIN t
        PROVE  Among(t[i], g, m + 1) /\ keys[t[i]] = i
    <3>1. CASE i = k
      BY <3>1, <1>9, <1>20, <1>21
    <3>2. CASE i # k
      <4>1. i \in DOMAIN c.table /\ t[i] = c.table[i]
        BY <2>2, <3>2, <1>21
      <4>2. Among(c.table[i], s, m) /\ c.key[c.table[i]] = i /\ c.table[i] \in 1..n
        BY <4>1, <1>0, <1>3 DEF Indexed
      <4>3. c.table[i] # e
        BY <4>2, <1>2
      <4> QED BY <4>1, <4>2, <4>3, <1>9, <1>20
    <3> QED BY <3>1, <3>2
  <2> QED BY <2>1, <2>2, <1>19 DEF Indexed
<1>23. \A x \in 1..n : Among(x, g, m + 1) <=> ~Among(x, w, l - 1)
  BY <1>0, <1>2, <1>8, <1>9
<1>24. Lists(d, n, g, m + 1, w, l - 1)
  BY <1>8, <1>9, <1>16, <1>17, <1>18, <1>22, <1>23 DEF Lists
<1>25. Placed(c, k, v) = d
  BY <1>6, <1>12
<1> QED BY <1>1, <1>19, <1>24, <1>25 DEF w, g, t, keys, values

-----------------------------------------------------------------------------
(***************************************************************************)
(* Counting.                                                               *)
(***************************************************************************)

\* s lists the elements of T without repetition.
Enumerates(s, m, T) ==
  /\ s \in [ 1..m -> T ] /\ (\A i, j \in 1..m : s[i] = s[j] => i = j)
  /\ \A x \in T : Among(x, s, m)

\* The number of elements of a set that is listed.
LEMMA CountListed ==
  ASSUME NEW T, NEW m \in Nat, NEW s, Enumerates(s, m, T)
  PROVE  IsFiniteSet(T) /\ Cardinality(T) = m
<1>1. s \in Bijection(1..m, T)
  BY DEF Enumerates, Among, Bijection, Injection, Surjection, IsInjective
<1>2. ExistsBijection(1..m, T)
  BY <1>1 DEF ExistsBijection
<1>3. Cardinality(T) = m
  BY <1>2, FS_CountingElements
<1>4. IsFiniteSet(T)
  BY <1>2, FS_NatBijection
<1> QED BY <1>3, <1>4

\* The two lists together have all elements.
LEMMA ListsCount ==
  ASSUME NEW n \in Nat, NEW m \in Nat, NEW l \in Nat, NEW s, NEW f,
         Listing(s, m, n), Listing(f, l, n),
         \A x \in 1..n : Among(x, s, m) <=> ~Among(x, f, l)
  PROVE  m + l = n
<1> DEFINE h == [ i \in 1..(m + l) |-> IF i <= m THEN s[i] ELSE f[i - m] ]
<1>1. /\ s \in [ 1..m -> 1..n ] /\ (\A i, j \in 1..m : s[i] = s[j] => i = j)
      /\ f \in [ 1..l -> 1..n ] /\ (\A i, j \in 1..l : f[i] = f[j] => i = j)
  BY DEF Listing
<1>2. \A i \in 1..(m + l) : IF i <= m THEN i \in 1..m /\ h[i] = s[i]
                            ELSE i - m \in 1..l /\ h[i] = f[i - m]
  OBVIOUS
<1>3. \A i \in 1..m, j \in 1..l : s[i] # f[j]
  BY <1>1 DEF Among
<1>4. h \in [ 1..(m + l) -> 1..n ]
  <2>1. \A i \in 1..(m + l) : h[i] \in 1..n
    BY <1>1, <1>2
  <2> QED BY <2>1
<1> HIDE DEF h
<1>5. ASSUME NEW i \in 1..(m + l), NEW j \in 1..(m + l), h[i] = h[j] PROVE i = j
  <2>1. CASE i <= m /\ j <= m
    BY <2>1, <1>1, <1>2, <1>5
  <2>2. CASE ~ (i <= m) /\ ~ (j <= m)
    <3>1. i - m \in 1..l /\ j - m \in 1..l /\ f[i - m] = f[j - m]
      BY <2>2, <1>2, <1>5
    <3>2. i - m = j - m
      BY <3>1, <1>1
    <3> QED BY <3>2
  <2>3. CASE i <= m /\ ~ (j <= m)
    <3>1. i \in 1..m /\ j - m \in 1..l /\ s[i] = f[j - m]
      BY <2>3, <1>2, <1>5
    <3> QED BY <3>1, <1>3
  <2>4. CASE ~ (i <= m) /\ j <= m
    <3>1. j \in 1..m /\ i - m \in 1..l /\ s[j] = f[i - m]
      BY <2>4, <1>2, <1>5
    <3> QED BY <3>1, <1>3
  <2> QED BY <2>1, <2>2, <2>3, <2>4
<1>6. ASSUME NEW x \in 1..n PROVE Among(x, h, m + l)
  <2>1. CASE Among(x, s, m)
    <3>1. PICK i \in 1..m : s[i] = x
      BY <2>1 DEF Among
    <3>2. i \in 1..(m + l) /\ h[i] = x
      BY <3>1, <1>2
    <3> QED BY <3>2 DEF Among
  <2>2. CASE Among(x, f, l)
    <3>1. PICK j \in 1..l : f[j] = x
      BY <2>2 DEF Among
    <3>2. j + m \in 1..(m + l) /\ ~ (j + m <= m) /\ j + m - m = j
      OBVIOUS
    <3>3. h[j + m] = x
      BY <3>1, <3>2, <1>2
    <3> QED BY <3>2, <3>3 DEF Among
  <2> QED BY <2>1, <2>2
<1>7. Enumerates(h, m + l, 1..n)
  BY <1>4, <1>5, <1>6 DEF Enumerates
<1>8. m + l \in Nat /\ Cardinality(1..n) = n
  <2>1. 1 \in Int /\ n \in Int
    OBVIOUS
  <2>2. Cardinality(1..n) = IF 1 > n THEN 0 ELSE n - 1 + 1
    BY <2>1, FS_Interval
  <2> QED BY <2>2
<1> QED BY <1>7, <1>8, CountListed

\* The keys of the table in the order of the list.
KeysOf(c, s, m) == [ i \in 1..m |-> c.key[s[i]] ]

\* They are the keys of the table, each once.
LEMMA KeysListed ==
  ASSUME NEW n \in Nat, NEW m \in Nat, NEW s, NEW c \in CacheOf(n),
         Listing(s, m, n), Indexed(c, n, s, m)
  PROVE  Enumerates(KeysOf(c, s, m), m, DOMAIN c.table)
<1> DEFINE ks == KeysOf(c, s, m)
<1>1. s \in [ 1..m -> 1..n ] /\ \A i, j \in 1..m : s[i] = s[j] => i = j
  BY DEF Listing
<1>2. \A i \in 1..m : ks[i] = c.key[s[i]]
  BY DEF KeysOf
<1>3. \A i \in 1..m : ks[i] \in DOMAIN c.table /\ c.table[ks[i]] = s[i]
  BY <1>1, <1>2 DEF Indexed, Among
<1>4. ks \in [ 1..m -> DOMAIN c.table ]
  BY <1>3 DEF KeysOf
<1> HIDE DEF ks
<1>5. \A i, j \in 1..m : ks[i] = ks[j] => i = j
  BY <1>1, <1>3
<1>6. ASSUME NEW k \in DOMAIN c.table PROVE Among(k, ks, m)
  <2>1. Among(c.table[k], s, m) /\ c.key[c.table[k]] = k
    BY <1>6 DEF Indexed
  <2>2. PICK i \in 1..m : s[i] = c.table[k]
    BY <2>1 DEF Among
  <2> QED BY <2>1, <2>2, <1>2 DEF Among
<1> QED BY <1>4, <1>5, <1>6 DEF Enumerates, ks

-----------------------------------------------------------------------------
(***************************************************************************)
(* Another block.                                                          *)
(***************************************************************************)

\* The blocks that the cache has allocated hold n elements.
Grown(c, n) ==
  /\ c.block_count \in 0..MaxBlocks
  /\ Blocks(MaxElements)[c.block_count].size = c.next_block_size
  /\ Blocks(MaxElements)[c.block_count].capacity = n

\* The cache cannot be given another element.
Full(n) ==
  n # 0 /\ (FullCapacity(MaxElements) = MaxElements => n = MaxElements)

\* The members after AddBlock has added a block.
LEMMA AddBlockFields ==
  ASSUME NEW n \in Nat, NEW c \in CacheOf(n), c.block_count < MaxBlocks, n < MaxElements,
         c.next_block_size \in Nat
  PROVE  LET d == AddBlock(c)
             all == n + c.next_block_size
         IN  /\ d \in CacheOf(all)
             /\ d.table = c.table /\ d.lru_head = c.lru_head /\ d.lru_tail = c.lru_tail
             /\ d.free_list = IF c.next_block_size = 0 THEN c.free_list ELSE all
             /\ d.block_count = c.block_count + 1
             /\ d.next_block_size
                  = NextBlockSize(c.next_block_size, c.block_count + 1, all, MaxElements)
             /\ \A e \in 1..all :
                  /\ d.next[e] = IF e <= n THEN c.next[e]
                                 ELSE IF e = n + 1 THEN c.free_list ELSE e - 1
                  /\ d.prev[e] = IF e <= n THEN c.prev[e] ELSE 0
                  /\ d.key[e] = IF e <= n THEN c.key[e] ELSE 0
                  /\ d.value[e] = IF e <= n THEN c.value[e] ELSE 0
<1> DEFINE all == n + c.next_block_size
           x == [ e \in 1..all |-> IF e <= n THEN c.next[e]
                                   ELSE IF e = n + 1 THEN c.free_list ELSE e - 1 ]
           p == [ e \in 1..all |-> IF e <= n THEN c.prev[e] ELSE 0 ]
           keys == [ e \in 1..all |-> IF e <= n THEN c.key[e] ELSE 0 ]
           values == [ e \in 1..all |-> IF e <= n THEN c.value[e] ELSE 0 ]
           h == IF c.next_block_size = 0 THEN c.free_list ELSE all
           count == c.block_count + 1
           z == NextBlockSize(c.next_block_size, count, all, MaxElements)
           d == [ c EXCEPT !.next = x, !.prev = p, !.key = keys, !.value = values,
                           !.free_list = h, !.block_count = count, !.block_capacity = all,
                           !.next_block_size = z ]
<1>t. /\ c.next \in [ 1..n -> 0..n ] /\ c.prev \in [ 1..n -> 0..n ]
      /\ c.key \in [ 1..n -> Key \cup {0} ] /\ c.value \in [ 1..n -> Value \cup {0} ]
      /\ c.free_list \in 0..n /\ c.lru_head \in 0..n /\ c.lru_tail \in 0..n
      /\ c.block_capacity = n /\ c.block_count \in Nat
      /\ DOMAIN c.table \subseteq Key /\ c.table = [ k \in DOMAIN c.table |-> c.table[k] ]
      /\ \A k \in DOMAIN c.table : c.table[k] \in 1..n
  BY CacheFields
<1>1. AddBlock(c) = d
  BY <1>t DEF AddBlock
<1>2. all \in Nat /\ n <= all /\ 1..n \subseteq 1..all /\ 0..n \subseteq 0..all
      /\ \A e \in 1..all : e <= n => e \in 1..n
  OBVIOUS
<1>3. x \in [ 1..all -> 0..all ]
  <2>1. \A e \in 1..all : x[e] \in 0..all
    <3> TAKE e \in 1..all
    <3>1. CASE e <= n
      BY <3>1, <1>t, <1>2
    <3>2. CASE ~ (e <= n)
      BY <3>2, <1>t, <1>2
    <3> QED BY <3>1, <3>2
  <2> QED BY <2>1
<1>4. p \in [ 1..all -> 0..all ] /\ keys \in [ 1..all -> Key \cup {0} ]
      /\ values \in [ 1..all -> Value \cup {0} ]
  <2>0. 0 \in 0..all
    BY <1>2
  <2>1. \A e \in 1..all : IF e <= n THEN c.prev[e] \in 0..all /\ c.key[e] \in Key \cup {0}
                                         /\ c.value[e] \in Value \cup {0}
                          ELSE TRUE
    BY <1>t, <1>2
  <2> HIDE DEF all
  <2> QED BY <2>0, <2>1
<1>5. h \in 0..all /\ c.lru_head \in 0..all /\ c.lru_tail \in 0..all
  BY <1>t, <1>2
<1>6. count \in Nat /\ count \in 1..MaxBlocks
  BY <1>t, SizesAssumption
<1>7. z \in Int
  <2>1. c.next_block_size \in Int /\ all \in Int
    BY <1>2
  <2> HIDE DEF all, count
  <2> QED BY <2>1, <1>6, NextBlockType
<1>8. c.table \in UNION { [ K -> 1..all ] : K \in SUBSET Key }
  <2> DEFINE K == DOMAIN c.table
  <2>1. c.table \in [ K -> 1..all ] /\ K \in SUBSET Key
    BY <1>t, <1>2
  <2> HIDE DEF K, all
  <2> QED BY <2>1
<1>9. \A e \in 1..all :
        /\ x[e] = IF e <= n THEN c.next[e] ELSE IF e = n + 1 THEN c.free_list ELSE e - 1
        /\ p[e] = IF e <= n THEN c.prev[e] ELSE 0
        /\ keys[e] = IF e <= n THEN c.key[e] ELSE 0
        /\ values[e] = IF e <= n THEN c.value[e] ELSE 0
  <2> HIDE DEF all
  <2> QED OBVIOUS
<1> HIDE DEF x, p, keys, values, h, count, z, all
<1>10. d \in CacheOf(all)
  <2>1. c.checks \in {TRUE}
    BY DEF CacheOf
  <2>2. all \in {all}
    OBVIOUS
  <2> QED BY <1>3, <1>4, <1>5, <1>6, <1>7, <1>8, <2>1, <2>2 DEF CacheOf
<1>11. /\ d.next = x /\ d.prev = p /\ d.key = keys /\ d.value = values /\ d.free_list = h
       /\ d.block_count = count /\ d.next_block_size = z
       /\ d.table = c.table /\ d.lru_head = c.lru_head /\ d.lru_tail = c.lru_tail
  BY DEF CacheOf
<1> HIDE DEF d
<1>12. /\ d.free_list = IF c.next_block_size = 0 THEN c.free_list ELSE all
       /\ d.block_count = c.block_count + 1
       /\ d.next_block_size
            = NextBlockSize(c.next_block_size, c.block_count + 1, all, MaxElements)
  BY <1>11 DEF h, count, z
<1>13. \A e \in 1..all :
         /\ d.next[e] = IF e <= n THEN c.next[e]
                        ELSE IF e = n + 1 THEN c.free_list ELSE e - 1
         /\ d.prev[e] = IF e <= n THEN c.prev[e] ELSE 0
         /\ d.key[e] = IF e <= n THEN c.key[e] ELSE 0
         /\ d.value[e] = IF e <= n THEN c.value[e] ELSE 0
  BY <1>9, <1>11
<1> QED BY <1>1, <1>10, <1>11, <1>12, <1>13 DEF all

\* AddBlock, called when the free list is empty, keeps the LRU list and makes a
\* free list of the new elements; if there are none the cache is full.
LEMMA AddBlockLists ==
  ASSUME NEW n \in Nat, NEW m \in Nat, NEW s, NEW f, NEW c,
         Lists(c, n, s, m, f, 0), Grown(c, n)
  PROVE  LET d == AddBlock(c)
         IN  \E all, g, l :
               /\ all \in Nat /\ l \in Nat
               /\ Lists(d, all, s, m, g, l) /\ Grown(d, all) /\ d.table = c.table
               /\ \A e \in 1..n : d.key[e] = c.key[e] /\ d.value[e] = c.value[e]
               /\ n <= all /\ (l = 0 => all = n /\ Full(n))
<1> DEFINE d == AddBlock(c)
           b == Blocks(MaxElements)
           count == c.block_count
<1>0. /\ c \in CacheOf(n) /\ Listing(s, m, n) /\ Listing(f, 0, n)
      /\ \A x \in 1..n : Among(x, s, m) <=> ~Among(x, f, 0)
      /\ LruLinked(c, s, m) /\ FreeLinked(c, f, 0) /\ Indexed(c, n, s, m)
  BY DEF Lists
<1>1. count \in 0..MaxBlocks /\ b[count].size = c.next_block_size /\ b[count].capacity = n
  BY DEF Grown
<1>2. c.next_block_size \in Int /\ c.block_capacity = n
  BY <1>0, CacheFields
<1>3. MaxBlocks \in Nat /\ MaxBlocks > 0 /\ MaxElements \in Nat /\ MaxElements > 0
  BY SizesAssumption
<1>4. /\ n < MaxElements => c.next_block_size \in Nat
      /\ n = 0 => c.next_block_size > 0
      /\ count # 0 => n > 0
  BY <1>1, BlocksGrow
<1>5. FullCapacity(MaxElements) = MaxElements =>
        n <= MaxElements /\ (count = MaxBlocks \/ c.next_block_size = 0 => n = MaxElements)
  BY <1>1, FullIsLast
<1> HIDE DEF count, b
<1>6. CASE ~ (count < MaxBlocks /\ n < MaxElements)
  <2>1. d = c
    BY <1>2, <1>6 DEF AddBlock, count
  <2>2. n # 0
    BY <1>1, <1>3, <1>4, <1>6
  <2>3. FullCapacity(MaxElements) = MaxElements => n = MaxElements
    BY <1>1, <1>3, <1>5, <1>6
  <2>4. 0 \in Nat /\ Lists(d, n, s, m, f, 0) /\ Grown(d, n) /\ d.table = c.table /\ n <= n
        /\ Full(n)
    BY <2>1, <2>2, <2>3 DEF Full
  <2>5. \A e \in 1..n : d.key[e] = c.key[e] /\ d.value[e] = c.value[e]
    BY <2>1
  <2> QED BY <2>4, <2>5
<1>7. CASE count < MaxBlocks /\ n < MaxElements
  <2> DEFINE z == c.next_block_size
             all == n + z
             g == [ i \in 1..z |-> all + 1 - i ]
  <2>0. z \in Nat /\ all \in Nat /\ n <= all
    BY <1>4, <1>7
  <2>1. /\ d \in CacheOf(all)
        /\ d.table = c.table /\ d.lru_head = c.lru_head /\ d.lru_tail = c.lru_tail
        /\ d.free_list = IF c.next_block_size = 0 THEN c.free_list ELSE all
        /\ d.block_count = c.block_count + 1
        /\ d.next_block_size
             = NextBlockSize(c.next_block_size, c.block_count + 1, all, MaxElements)
        /\ \A e \in 1..all :
             /\ d.next[e] = IF e <= n THEN c.next[e]
                            ELSE IF e = n + 1 THEN c.free_list ELSE e - 1
             /\ d.prev[e] = IF e <= n THEN c.prev[e] ELSE 0
             /\ d.key[e] = IF e <= n THEN c.key[e] ELSE 0
             /\ d.value[e] = IF e <= n THEN c.value[e] ELSE 0
    <3>1. c.block_count < MaxBlocks /\ c.next_block_size \in Nat
      BY <1>7, <2>0 DEF count
    <3> QED BY <3>1, <1>0, <1>7, AddBlockFields
  <2>2. c.free_list = 0
    BY <1>0 DEF FreeLinked, Linked
  <2> HIDE DEF d
  <2>3. \A x : ~Among(x, f, 0)
    BY DEF Among
  <2>4. \A x \in 1..n : Among(x, s, m)
    BY <1>0, <2>3
  <2>5. s \in [ 1..m -> 1..n ] /\ \A i, j \in 1..m : s[i] = s[j] => i = j
    BY <1>0 DEF Listing
  <2>6. \A i \in 1..m : s[i] \in 1..all /\ s[i] <= n /\ s[i] \in Int
    BY <2>0, <2>5
  <2>7. Listing(s, m, all)
    BY <2>5, <2>6 DEF Listing
  <2>8. \A i \in 1..z : g[i] = all + 1 - i /\ g[i] \in 1..all /\ g[i] > n /\ g[i] \in Int
    BY <2>0
  <2>9. Listing(g, z, all)
    <3>1. \A i, j \in 1..z : g[i] = g[j] => i = j
      BY <2>0
    <3>2. g \in [ 1..z -> 1..all ]
      BY <2>8
    <3> QED BY <3>1, <3>2 DEF Listing
  <2>10. ASSUME NEW x \in 1..all PROVE Among(x, s, m) <=> ~Among(x, g, z)
    <3>1. CASE x <= n
      <4>1. x \in 1..n
        BY <3>1, <2>0
      <4>2. ~Among(x, g, z)
        <5> HIDE DEF g
        <5> QED BY <3>1, <2>8, <2>0 DEF Among
      <4> QED BY <4>1, <4>2, <2>4
    <3>2. CASE ~ (x <= n)
      <4>1. all + 1 - x \in 1..z /\ g[all + 1 - x] = x
        <5>1. all + 1 - x \in 1..z /\ all + 1 - (all + 1 - x) = x
          BY <3>2, <2>0
        <5> HIDE DEF g, all
        <5> QED BY <5>1, <2>8
      <4>2. Among(x, g, z)
        BY <4>1 DEF Among
      <4>3. ~Among(x, s, m)
        BY <3>2, <2>6 DEF Among
      <4> QED BY <4>2, <4>3
    <3> QED BY <3>1, <3>2
  <2>11. LruLinked(d, s, m)
    <3>1. \A i \in 1..m : d.next[s[i]] = c.next[s[i]] /\ d.prev[s[i]] = c.prev[s[i]]
      <4> HIDE DEF all
      <4> QED BY <2>1, <2>6
    <3> QED BY <1>0, <2>1, <3>1 DEF LruLinked, Linked
  <2>12. FreeLinked(d, g, z)
    <3>1. d.free_list = IF z = 0 THEN 0 ELSE g[1]
      BY <2>0, <2>1, <2>2
    <3>2. ASSUME NEW i \in 1..z
          PROVE  d.next[g[i]] = (IF i = z THEN 0 ELSE g[i + 1]) /\ d.prev[g[i]] = 0
      <4>1. g[i] \in 1..all /\ ~ (g[i] <= n)
        BY <2>8, <2>0
      <4>2. d.prev[g[i]] = 0 /\ d.next[g[i]] = IF g[i] = n + 1 THEN c.free_list ELSE g[i] - 1
        <5> HIDE DEF g, all
        <5> QED BY <4>1, <2>1
      <4>3. g[i] = n + 1 <=> i = z
        BY <2>0
      <4>4. i # z => g[i + 1] = g[i] - 1
        BY <2>0
      <4> QED BY <4>2, <4>3, <4>4, <2>2
    <3> QED BY <3>1, <3>2 DEF FreeLinked, Linked
  <2>13. \A e \in 1..n : e \in 1..all /\ d.key[e] = c.key[e] /\ d.value[e] = c.value[e]
    <3>1. \A e \in 1..n : e \in 1..all /\ e <= n
      BY <2>0
    <3> HIDE DEF all
    <3> QED BY <3>1, <2>1
  <2>14. Indexed(d, all, s, m)
    <3>1. ASSUME NEW x \in 1..all, Among(x, s, m)
          PROVE  d.key[x] \in DOMAIN d.table /\ d.table[d.key[x]] = x
      <4>1. x \in 1..n
        BY <3>1, <2>5 DEF Among
      <4>2. c.key[x] \in DOMAIN c.table /\ c.table[c.key[x]] = x
        BY <4>1, <3>1, <1>0 DEF Indexed
      <4> QED BY <4>1, <4>2, <2>1, <2>13
    <3>2. ASSUME NEW k \in DOMAIN d.table
          PROVE  Among(d.table[k], s, m) /\ d.key[d.table[k]] = k
      <4>1. k \in DOMAIN c.table /\ d.table[k] = c.table[k] /\ c.table[k] \in 1..n
        BY <2>1, <1>0, CacheFields
      <4>2. Among(c.table[k], s, m) /\ c.key[c.table[k]] = k
        BY <4>1, <1>0 DEF Indexed
      <4> QED BY <4>1, <4>2, <2>13
    <3> QED BY <3>1, <3>2 DEF Indexed
  <2>15. Grown(d, all)
    <3>1. count + 1 \in 1..MaxBlocks /\ count + 1 \in 0..MaxBlocks /\ count + 1 - 1 = count
      BY <1>1, <1>3, <1>7
    <3>2. ~ (b[count].capacity >= MaxElements)
      BY <1>1, <1>3, <1>7
    <3>3. /\ b[count + 1].capacity = b[count].capacity + b[count].size
          /\ b[count + 1].size = NextBlockSize(b[count].size, count + 1,
                                   b[count].capacity + b[count].size, MaxElements)
      <4>1. \A i \in 1..MaxBlocks : ~ (b[i - 1].capacity >= MaxElements) =>
               /\ b[i].capacity = b[i - 1].capacity + b[i - 1].size
               /\ b[i].size = NextBlockSize(b[i - 1].size, i,
                                b[i - 1].capacity + b[i - 1].size, MaxElements)
        BY BlocksRounds DEF b
      <4> DEFINE i == count + 1
      <4>2. i \in 1..MaxBlocks /\ i - 1 = count
        BY <3>1, <1>1
      <4> HIDE DEF i
      <4>3. /\ b[i].capacity = b[i - 1].capacity + b[i - 1].size
            /\ b[i].size = NextBlockSize(b[i - 1].size, i,
                             b[i - 1].capacity + b[i - 1].size, MaxElements)
        BY <3>2, <4>1, <4>2
      <4> QED BY <4>2, <4>3 DEF i
    <3>4. d.block_count = count + 1
      BY <2>1 DEF count
    <3> QED BY <3>1, <3>3, <3>4, <1>1, <2>1 DEF Grown, b, count
  <2>16. z = 0 => all = n /\ Full(n)
    <3>1. z = 0 => all = n /\ n # 0
      BY <1>4
    <3>2. z = 0 => (FullCapacity(MaxElements) = MaxElements => n = MaxElements)
      BY <1>5
    <3> QED BY <3>1, <3>2 DEF Full
  <2>17. Lists(d, all, s, m, g, z)
    BY <2>1, <2>7, <2>9, <2>10, <2>11, <2>12, <2>14 DEF Lists
  <2> HIDE DEF g, z, all
  <2> QED BY <2>0, <2>1, <2>13, <2>15, <2>16, <2>17 DEF d
<1> QED BY <1>6, <1>7

-----------------------------------------------------------------------------
(***************************************************************************)
(* Clear.                                                                  *)
(***************************************************************************)

LoopState(n) == [ cache : CacheOf(n), current : 0..n ]

\* The loop of Clear, round by round.
LEMMA FreeingRounds ==
  ASSUME NEW n \in Nat, NEW c \in CacheOf(n)
  PROVE  LET loop == Freeing(c)
         IN  /\ loop[0].cache = c /\ loop[0].current = c.lru_head
             /\ \A i \in 0..n : loop[i].cache \in CacheOf(n) /\ loop[i].current \in 0..n
             /\ \A i \in 1..n :
                  /\ loop[i - 1].current = 0 => loop[i] = loop[i - 1]
                  /\ loop[i - 1].current # 0 =>
                       /\ loop[i].cache = PushFreeList(loop[i - 1].cache, loop[i - 1].current)
                       /\ loop[i].current = loop[i - 1].cache.next[loop[i - 1].current]
<1> DEFINE D == LoopState(n)
           base == [ cache |-> c, current |-> c.lru_head ]
           Freed(x) == [ cache |-> PushFreeList(x.cache, x.current),
                         current |-> x.cache.next[x.current] ]
           Step(x) == IF x.current = 0 THEN x ELSE Freed(x)
           F == [ x \in D \X (1..n) |-> Step(x[1]) ]
           Is(h) == h = [ i \in 0..n |-> IF i = 0 THEN base ELSE Step(h[i - 1]) ]
           loop == CHOOSE h : Is(h)
<1>0. c.lru_head \in 0..n /\ c.block_capacity = n
  BY CacheFields
<1>1. base \in D /\ base.cache = c /\ base.current = c.lru_head
  BY <1>0 DEF LoopState
<1>2. \A x \in D : x.cache \in CacheOf(n) /\ x.current \in 0..n
  BY DEF LoopState
<1>3. ASSUME NEW x \in D PROVE Step(x) \in D
  <2>1. CASE x.current = 0
    BY <2>1
  <2>2. CASE x.current # 0
    <3> DEFINE a == x.cache
               e == x.current
    <3>1. a \in CacheOf(n) /\ e \in 1..n
      BY <1>2, <2>2
    <3>2. PushFreeList(a, e) \in CacheOf(n)
      <4> HIDE DEF a, e
      <4> QED BY <3>1, ListsKeep
    <3>3. a.next[e] \in 0..n
      <4> HIDE DEF a, e
      <4>1. a.next \in [ 1..n -> 0..n ]
        BY <3>1 DEF CacheOf
      <4> QED BY <3>1, <4>1
    <3>4. Freed(x) \in D
      BY <3>2, <3>3 DEF LoopState
    <3> HIDE DEF Freed
    <3> QED BY <2>2, <3>4
  <2> QED BY <2>1, <2>2
<1>4. StepsIn(F, D, n) /\ \A x \in D, i \in 1..n : F[<<x, i>>] = Step(x)
  <2> HIDE DEF D, Step
  <2> QED BY <1>3 DEF StepsIn
<1>5. Freeing(c) = loop
  BY <1>0 DEF Freeing
<1> HIDE DEF D, F, base, Step
<1>6. PICK g : IsIteration(g, F, D, n, base)
  BY <1>1, <1>4, IterationExists
<1>7. Is(g)
  <2>1. ASSUME NEW i \in 0..n, i # 0 PROVE g[i] = Step(g[i - 1])
    <3>1. i \in 1..n /\ i - 1 \in 0..n
      BY <2>1
    <3>2. g[i - 1] \in D /\ g[i] = F[<<g[i - 1], i>>]
      BY <3>1, <1>6 DEF IsIteration
    <3> QED BY <3>1, <3>2, <1>4
  <2>2. g = [ i \in 0..n |-> g[i] ] /\ g[0] = base
    BY <1>6 DEF IsIteration
  <2> QED BY <2>1, <2>2
<1>8. Is(loop)
  BY <1>7
<1> HIDE DEF loop
<1>9. \A i \in 0..n : loop[i] = IF i = 0 THEN base ELSE Step(loop[i - 1])
  BY <1>8
<1>10. loop[0] = base /\ \A i \in 1..n : loop[i] = Step(loop[i - 1])
  BY <1>9
<1> DEFINE B == { i \in 0..n : loop[i] \in D }
<1>11. 0 \in B
  BY <1>1, <1>10
<1>12. \A i \in (0 + 1)..n : i - 1 \in B => i \in B
  BY <1>3, <1>10
<1>13. \A i \in 0..n : i \in B
  <2>1. 0 \in Int /\ n \in Int
    OBVIOUS
  <2> HIDE DEF B
  <2> QED BY <2>1, <1>11, <1>12, IntervalInduction
<1>14. ASSUME NEW i \in 1..n, loop[i - 1].current # 0
       PROVE  /\ loop[i].cache = PushFreeList(loop[i - 1].cache, loop[i - 1].current)
              /\ loop[i].current = loop[i - 1].cache.next[loop[i - 1].current]
  <2>1. loop[i] = Freed(loop[i - 1])
    BY <1>10, <1>14 DEF Step
  <2> QED BY <2>1
<1>15. \A i \in 1..n : loop[i - 1].current = 0 => loop[i] = loop[i - 1]
  BY <1>10 DEF Step
<1>16. \A i \in 0..n : loop[i].cache \in CacheOf(n) /\ loop[i].current \in 0..n
  BY <1>2, <1>13
<1> QED BY <1>1, <1>5, <1>10, <1>14, <1>15, <1>16

\* The loop has moved the first a elements of s to the free list, which is g now.
Moved(state, c, n, s, m, f, l, a, g) ==
  /\ state.cache \in CacheOf(n) /\ SameTable(state.cache, c)
  /\ state.current = IF a = m THEN 0 ELSE s[a + 1]
  /\ Listing(g, l + a, n) /\ FreeLinked(state.cache, g, l + a)
  /\ \A x : Among(x, g, l + a) <=> Among(x, f, l) \/ Among(x, s, a)
  /\ \A j \in (a + 1)..m : state.cache.next[s[j]] = c.next[s[j]]

\* A round of the loop moves the next element.
LEMMA MoveNext ==
  ASSUME NEW n \in Nat, NEW m \in Nat, NEW l \in Nat, NEW s, NEW f, NEW c,
         Listing(s, m, n), Linked(c.next, c.lru_head, s, m),
         \A x \in 1..n : Among(x, s, m) <=> ~Among(x, f, l),
         NEW a \in 0..m, a # m, NEW g, NEW state, Moved(state, c, n, s, m, f, l, a, g),
         NEW after, after.cache = PushFreeList(state.cache, state.current),
         after.current = state.cache.next[state.current]
  PROVE  Moved(after, c, n, s, m, f, l, a + 1, Before(s[a + 1], g, l + a))
<1> DEFINE e == s[a + 1]
           h == Before(e, g, l + a)
           q == state.cache
           d == PushFreeList(q, e)
<1>0. /\ q \in CacheOf(n) /\ SameTable(q, c) /\ state.current = e
      /\ Listing(g, l + a, n) /\ FreeLinked(q, g, l + a)
      /\ \A x : Among(x, g, l + a) <=> Among(x, f, l) \/ Among(x, s, a)
      /\ \A j \in (a + 1)..m : q.next[s[j]] = c.next[s[j]]
  BY DEF Moved
<1>1. s \in [ 1..m -> 1..n ] /\ \A i, j \in 1..m : s[i] = s[j] => i = j
  BY DEF Listing
<1>2. a + 1 \in 1..m /\ a + 1 \in (a + 1)..m /\ l + a \in Nat /\ l + a + 1 = l + (a + 1)
  OBVIOUS
<1>3. e \in 1..n /\ Among(e, s, m) /\ \A i \in 1..a : i \in 1..m /\ s[i] # e
  BY <1>1, <1>2 DEF Among
<1>4. ~Among(e, g, l + a)
  <2>1. ~Among(e, f, l)
    BY <1>3
  <2>2. ~Among(e, s, a)
    BY <1>3 DEF Among
  <2> QED BY <1>0, <2>1, <2>2
<1> HIDE DEF e, q
<1>5. d \in CacheOf(n) /\ SameTable(d, q)
  BY <1>0, <1>3, ListsKeep
<1>6. /\ FreeLinked(d, h, l + a + 1)
      /\ \A x \in 1..n : x # e => d.next[x] = q.next[x] /\ d.prev[x] = q.prev[x]
  BY <1>0, <1>2, <1>3, <1>4, PushFreeLinked
<1>7. Listing(h, l + a + 1, n) /\ \A x : Among(x, h, l + a + 1) <=> Among(x, g, l + a) \/ x = e
  BY <1>0, <1>2, <1>3, <1>4, BeforeListing
<1>8. after.cache = d /\ after.current = q.next[e]
  BY <1>0 DEF q
<1> HIDE DEF d, h
<1>9. ASSUME NEW x PROVE Among(x, s, a + 1) <=> Among(x, s, a) \/ x = e
  <2>1. a + 1 \in 1..(a + 1) /\ \A i \in 1..(a + 1) : i \in 1..a \/ i = a + 1
    OBVIOUS
  <2>2. \A i \in 1..a : i \in 1..(a + 1)
    OBVIOUS
  <2> QED BY <2>1, <2>2 DEF Among, e
<1>10. after.current = IF a + 1 = m THEN 0 ELSE s[a + 1 + 1]
  <2>1. q.next[e] = c.next[e]
    BY <1>0, <1>2 DEF e
  <2>2. c.next[e] = IF a + 1 = m THEN 0 ELSE s[a + 1 + 1]
    BY <1>2 DEF Linked, e
  <2> QED BY <2>1, <2>2, <1>8
<1>11. ASSUME NEW j \in (a + 1 + 1)..m PROVE after.cache.next[s[j]] = c.next[s[j]]
  <2>1. j \in 1..m /\ j \in (a + 1)..m /\ j # a + 1
    OBVIOUS
  <2>2. s[j] \in 1..n /\ s[j] # e
    BY <2>1, <1>1, <1>2 DEF e
  <2> QED BY <2>1, <2>2, <1>0, <1>6, <1>8
<1>12. SameTable(after.cache, c) /\ after.cache \in CacheOf(n)
  BY <1>0, <1>5, <1>8 DEF SameTable
<1>13. Listing(h, l + (a + 1), n) /\ FreeLinked(after.cache, h, l + (a + 1))
  BY <1>2, <1>6, <1>7, <1>8
<1>14. \A x : Among(x, h, l + (a + 1)) <=> Among(x, f, l) \/ Among(x, s, a + 1)
  <2>1. \A x : Among(x, h, l + (a + 1)) <=> Among(x, g, l + a) \/ x = e
    BY <1>2, <1>7
  <2> QED BY <2>1, <1>0, <1>9
<1> QED BY <1>10, <1>11, <1>12, <1>13, <1>14 DEF Moved, h, e

NoKeys == [ k \in {} |-> 0 ]

Cleared(c) ==
  [ FreeAll([ c EXCEPT !.table = NoKeys ]) EXCEPT !.lru_head = 0, !.lru_tail = 0 ]

\* The members at the end of Clear.
LEMMA EmptiedFields ==
  ASSUME NEW n \in Nat, NEW c \in CacheOf(n)
  PROVE  LET d == [ c EXCEPT !.lru_head = 0, !.lru_tail = 0 ]
         IN  /\ d \in CacheOf(n) /\ SameTable(d, c) /\ d.lru_head = 0 /\ d.lru_tail = 0
             /\ d.next = c.next /\ d.prev = c.prev /\ d.free_list = c.free_list
<1> DEFINE zero == 0
           d == [ c EXCEPT !.lru_head = zero, !.lru_tail = zero ]
<1>1. zero \in 0..n
  OBVIOUS
<1> HIDE DEF zero
<1>2. d \in CacheOf(n)
  BY <1>1 DEF CacheOf
<1>3. /\ SameTable(d, c) /\ d.lru_head = zero /\ d.lru_tail = zero
      /\ d.next = c.next /\ d.prev = c.prev /\ d.free_list = c.free_list
  BY DEF CacheOf, SameTable
<1> HIDE DEF d
<1> QED BY <1>2, <1>3 DEF d, zero

\* Clear puts all elements on the free list.
LEMMA ClearLists ==
  ASSUME NEW n \in Nat, NEW m \in Nat, NEW l \in Nat, NEW s, NEW f, NEW c,
         Lists(c, n, s, m, f, l)
  PROVE  LET d == Cleared(c)
         IN  /\ \E g : Lists(d, n, << >>, 0, g, n)
             /\ d.table = NoKeys /\ SameBlocks(d, c)
<1> DEFINE r == [ c EXCEPT !.table = NoKeys ]
           loop == Freeing(r)
           Least2(i) == IF i < m THEN i ELSE m
           B == { i \in 0..n : \E g : Moved(loop[i], r, n, s, m, f, l, Least2(i), g) }
<1>0. /\ c \in CacheOf(n) /\ Listing(s, m, n) /\ Listing(f, l, n)
      /\ \A x \in 1..n : Among(x, s, m) <=> ~Among(x, f, l)
      /\ LruLinked(c, s, m) /\ FreeLinked(c, f, l) /\ Indexed(c, n, s, m)
  BY DEF Lists
<1>1. NoKeys \in TablesOf(n) /\ DOMAIN NoKeys = {}
  <2>1. NoKeys \in [ {} -> 1..n ] /\ {} \in SUBSET Key
    BY DEF NoKeys
  <2> QED BY <2>1 DEF TablesOf
<1>2. /\ r \in CacheOf(n) /\ r.table = NoKeys /\ r.key = c.key /\ r.value = c.value
      /\ SameLists(r, c) /\ SameBlocks(r, c)
  BY <1>0, <1>1, TableFields
<1>3. m + l = n /\ m <= n
  <2>1. m + l = n
    BY <1>0, ListsCount
  <2> QED BY <2>1
<1>4. FreeAll(r) = loop[n].cache
      /\ Cleared(c) = [ loop[n].cache EXCEPT !.lru_head = 0, !.lru_tail = 0 ]
  <2>1. r.block_capacity = n
    BY <1>2, CacheFields
  <2>2. FreeAll(r) = loop[n].cache
    BY <2>1 DEF FreeAll
  <2> QED BY <2>2 DEF Cleared
<1> HIDE DEF r
<1>5. /\ loop[0].cache = r /\ loop[0].current = r.lru_head
      /\ \A i \in 0..n : loop[i].cache \in CacheOf(n) /\ loop[i].current \in 0..n
      /\ \A i \in 1..n :
           /\ loop[i - 1].current = 0 => loop[i] = loop[i - 1]
           /\ loop[i - 1].current # 0 =>
                /\ loop[i].cache = PushFreeList(loop[i - 1].cache, loop[i - 1].current)
                /\ loop[i].current = loop[i - 1].cache.next[loop[i - 1].current]
  BY <1>2, FreeingRounds
<1> HIDE DEF loop
<1>6. Linked(r.next, r.lru_head, s, m) /\ FreeLinked(r, f, l)
  BY <1>0, <1>2 DEF LruLinked, FreeLinked, SameLists
<1>7. 0 \in B
  <2>1. Least2(0) = 0 /\ l + 0 = l
    OBVIOUS
  <2>2. \A x : ~Among(x, s, 0)
    BY DEF Among
  <2>3. r.lru_head = IF 0 = m THEN 0 ELSE s[0 + 1]
    BY <1>6 DEF Linked
  <2>4. SameTable(r, r)
    BY DEF SameTable
  <2>5. Moved(loop[0], r, n, s, m, f, l, 0, f)
    BY <1>0, <1>2, <1>5, <1>6, <2>1, <2>2, <2>3, <2>4 DEF Moved
  <2>6. 0 \in 0..n
    OBVIOUS
  <2> QED BY <2>1, <2>5, <2>6
<1>8. ASSUME NEW i \in (0 + 1)..n, i - 1 \in B PROVE i \in B
  <2> DEFINE a == Least2(i - 1)
  <2>1. PICK g : Moved(loop[i - 1], r, n, s, m, f, l, a, g)
    BY <1>8
  <2>2. i \in 1..n /\ i \in 0..n /\ a \in 0..m
    OBVIOUS
  <2>3. CASE a = m
    <3>1. loop[i - 1].current = 0
      BY <2>1, <2>3 DEF Moved
    <3>2. loop[i] = loop[i - 1] /\ Least2(i) = a
      BY <3>1, <2>2, <2>3, <1>5
    <3> HIDE DEF Least2
    <3> QED BY <3>2, <2>1, <2>2
  <2>4. CASE a # m
    <3>0. a + 1 = Least2(i)
      BY <2>4, <2>2
    <3>1. a + 1 \in 1..m /\ s[a + 1] \in 1..n /\ s[a + 1] # 0
      BY <2>2, <2>4, <1>0 DEF Listing
    <3> HIDE DEF Least2, a
    <3>2. loop[i - 1].current # 0
      BY <2>1, <2>4, <3>1 DEF Moved
    <3>3. /\ loop[i].cache = PushFreeList(loop[i - 1].cache, loop[i - 1].current)
          /\ loop[i].current = loop[i - 1].cache.next[loop[i - 1].current]
      BY <2>2, <3>2, <1>5
    <3> DEFINE x == loop[i - 1]
               y == loop[i]
    <3>4. /\ Moved(x, r, n, s, m, f, l, a, g) /\ y.cache = PushFreeList(x.cache, x.current)
          /\ y.current = x.cache.next[x.current]
      BY <2>1, <3>3
    <3> HIDE DEF x, y
    <3>5. Moved(y, r, n, s, m, f, l, a + 1, Before(s[a + 1], g, l + a))
      BY <1>0, <1>6, <2>2, <2>4, <3>4, MoveNext
    <3> QED BY <3>0, <3>5, <2>2 DEF y
  <2> QED BY <2>3, <2>4
<1>9. n \in B
  <2>1. 0 \in Int /\ n \in Int /\ n \in 0..n
    OBVIOUS
  <2> HIDE DEF B
  <2> QED BY <2>1, <1>7, <1>8, IntervalInduction
<1>10. PICK g : Moved(loop[n], r, n, s, m, f, l, m, g)
  <2>1. Least2(n) = m
    BY <1>3
  <2> QED BY <1>9, <2>1
<1> DEFINE q == loop[n].cache
           d == [ q EXCEPT !.lru_head = 0, !.lru_tail = 0 ]
<1>11. /\ q \in CacheOf(n) /\ SameTable(q, r) /\ Listing(g, n, n) /\ FreeLinked(q, g, n)
       /\ \A x \in 1..n : Among(x, g, n)
  <2>1. l + m = n
    BY <1>3
  <2> QED BY <1>0, <1>10, <2>1 DEF Moved
<1> HIDE DEF q
<1>12. /\ d \in CacheOf(n) /\ SameTable(d, q) /\ d.lru_head = 0 /\ d.lru_tail = 0
       /\ d.next = q.next /\ d.prev = q.prev /\ d.free_list = q.free_list
  BY <1>11, EmptiedFields
<1> HIDE DEF d
<1>13. d.table = NoKeys /\ SameBlocks(d, c)
  BY <1>2, <1>11, <1>12 DEF SameTable, SameBlocks
<1>14. FreeLinked(d, g, n)
  BY <1>11, <1>12 DEF FreeLinked
<1>15. Listing(<< >>, 0, n) /\ (\A x : ~Among(x, << >>, 0)) /\ LruLinked(d, << >>, 0)
  BY <1>12 DEF Listing, Among, LruLinked, Linked
<1>16. Indexed(d, n, << >>, 0)
  BY <1>1, <1>13, <1>15 DEF Indexed
<1>17. Lists(d, n, << >>, 0, g, n)
  BY <1>11, <1>12, <1>14, <1>15, <1>16 DEF Lists
<1>18. Cleared(c) = d
  BY <1>4 DEF d, q
<1> QED BY <1>13, <1>17, <1>18

-----------------------------------------------------------------------------
(***************************************************************************)
(* ListsOK in terms of the lists.                                          *)
(***************************************************************************)

\* Following `next' gives the list that it links.
LEMMA ListFromIs ==
  ASSUME NEW n \in Nat, NEW m \in Nat, m <= n, NEW s, Listing(s, m, n), NEW first,
         NEW c \in CacheOf(n), Linked(c.next, first, s, m)
  PROVE  ListFrom(c, first) = s
<1> DEFINE w == [ i \in 1..n + 1 |-> IF i <= m THEN s[i] ELSE 0 ]
           Is(h) == h = [ i \in 1..n + 1 |->
                            IF i = 1 THEN first
                            ELSE IF h[i - 1] = 0 THEN 0 ELSE c.next[h[i - 1]] ]
           at == CHOOSE h : Is(h)
<1>1. s \in [ 1..m -> 1..n ] /\ \A i \in 1..m : s[i] # 0
  BY DEF Listing
<1>2. first = (IF m = 0 THEN 0 ELSE s[1])
      /\ \A i \in 1..m : c.next[s[i]] = IF i = m THEN 0 ELSE s[i + 1]
  BY DEF Linked
<1>3. \A i \in 1..n + 1 : w[i] = IF i <= m THEN s[i] ELSE 0
  OBVIOUS
<1>4. w = [ i \in 1..n + 1 |-> w[i] ]
  OBVIOUS
<1> HIDE DEF w
<1>5. ASSUME NEW i \in 1..n + 1
      PROVE  w[i] = IF i = 1 THEN first
                    ELSE IF w[i - 1] = 0 THEN 0 ELSE c.next[w[i - 1]]
  <2>1. CASE i = 1
    BY <2>1, <1>2, <1>3
  <2>2. CASE i # 1 /\ i - 1 <= m
    <3>1. i - 1 \in 1..m /\ i - 1 \in 1..n + 1 /\ i - 1 + 1 = i
      BY <2>2
    <3>2. w[i - 1] = s[i - 1] /\ s[i - 1] # 0
      BY <2>2, <3>1, <1>1, <1>3
    <3>3. c.next[s[i - 1]] = IF i - 1 = m THEN 0 ELSE s[i - 1 + 1]
      BY <3>1, <1>2
    <3>4. i - 1 = m <=> ~ (i <= m)
      BY <2>2
    <3>5. w[i] = c.next[s[i - 1]]
      BY <3>1, <3>3, <3>4, <1>3
    <3> QED BY <2>2, <3>2, <3>5
  <2>3. CASE i # 1 /\ ~ (i - 1 <= m)
    <3>1. i - 1 \in 1..n + 1 /\ ~ (i <= m)
      BY <2>3
    <3> QED BY <2>3, <3>1, <1>3
  <2> QED BY <2>1, <2>2, <2>3
<1>6. Is(w)
  BY <1>4, <1>5
<1>7. Is(at)
  BY <1>6
<1>8. Walk(c, first) = at
  <2>1. c.block_capacity = n
    BY CacheFields
  <2> QED BY <2>1 DEF Walk
<1> HIDE DEF at
<1>9. \A i \in 1..n + 1 : at[i] = IF i = 1 THEN first
                                  ELSE IF at[i - 1] = 0 THEN 0 ELSE c.next[at[i - 1]]
  BY <1>7
<1> DEFINE B == { i \in 1..n + 1 : at[i] = w[i] }
<1>10. 1 \in B
  BY <1>5, <1>9
<1>11. ASSUME NEW i \in (1 + 1)..n + 1, i - 1 \in B PROVE i \in B
  <2>1. i \in 1..n + 1 /\ i # 1
    OBVIOUS
  <2>2. at[i - 1] = w[i - 1]
    BY <1>11
  <2> QED BY <2>1, <2>2, <1>5, <1>9
<1>12. \A i \in 1..n + 1 : at[i] = w[i]
  <2>1. 1 \in Int /\ n + 1 \in Int
    OBVIOUS
  <2>2. \A i \in 1..n + 1 : i \in B
    <3> HIDE DEF B
    <3> QED BY <2>1, <1>10, <1>11, IntervalInduction
  <2> QED BY <2>2
<1>13. DOMAIN at = 1..n + 1
  BY <1>7
<1>14. { j \in DOMAIN at : at[j] # 0 } = 1..m
  <2>1. \A j \in 1..n + 1 : at[j] # 0 <=> j <= m
    BY <1>1, <1>3, <1>12
  <2>2. \A j : j \in 1..m <=> j \in 1..n + 1 /\ j <= m
    OBVIOUS
  <2> QED BY <2>1, <2>2, <1>13
<1>15. Cardinality(1..m) = m
  <2>1. 1 \in Int /\ m \in Int
    OBVIOUS
  <2>2. Cardinality(1..m) = IF 1 > m THEN 0 ELSE m - 1 + 1
    BY <2>1, FS_Interval
  <2> QED BY <2>2
<1>16. ListFrom(c, first) = [ i \in 1..m |-> at[i] ]
  BY <1>8, <1>14, <1>15 DEF ListFrom
<1>17. \A i \in 1..m : at[i] = s[i]
  BY <1>3, <1>12
<1> QED BY <1>1, <1>16, <1>17

\* The lists of the cache.
LEMMA ListsAre ==
  ASSUME NEW n \in Nat, NEW m \in Nat, NEW l \in Nat, NEW s, NEW f, NEW c,
         Lists(c, n, s, m, f, l)
  PROVE  ListFrom(c, c.lru_head) = s /\ ListFrom(c, c.free_list) = f /\ m + l = n
<1>0. /\ c \in CacheOf(n) /\ Listing(s, m, n) /\ Listing(f, l, n)
      /\ \A x \in 1..n : Among(x, s, m) <=> ~Among(x, f, l)
      /\ LruLinked(c, s, m) /\ FreeLinked(c, f, l)
  BY DEF Lists
<1>1. m + l = n
  BY <1>0, ListsCount
<1>2. m <= n /\ l <= n
  BY <1>1
<1>3. Linked(c.next, c.lru_head, s, m) /\ Linked(c.next, c.free_list, f, l)
  BY <1>0 DEF LruLinked, FreeLinked
<1>4. ListFrom(c, c.lru_head) = s
  BY <1>0, <1>2, <1>3, ListFromIs
<1>5. ListFrom(c, c.free_list) = f
  BY <1>0, <1>2, <1>3, ListFromIs
<1> QED BY <1>1, <1>4, <1>5

\* A list as a sequence.
LEMMA ListingSeq ==
  ASSUME NEW n \in Nat, NEW m \in Nat, NEW s, Listing(s, m, n)
  PROVE  /\ DOMAIN s = 1..m /\ Len(s) = m /\ (s = << >> <=> m = 0)
         /\ \A x : x \in ElementsOf(s) <=> Among(x, s, m)
<1>1. s \in [ 1..m -> 1..n ]
  BY DEF Listing
<1>2. s \in Seq(1..n)
  BY <1>1
<1>3. Len(s) = m
  BY <1>1, <1>2
<1>4. s = << >> <=> Len(s) = 0
  BY <1>2, EmptySeq
<1>5. \A x : x \in ElementsOf(s) <=> Among(x, s, m)
  BY <1>1 DEF ElementsOf, Among
<1> QED BY <1>1, <1>3, <1>4, <1>5

\* The representation gives ListsOK.
LEMMA ListsAreOK ==
  ASSUME NEW n \in Nat, NEW m \in Nat, NEW l \in Nat, NEW s, NEW f,
         Lists(cache, n, s, m, f, l)
  PROVE  ListsOK
<1>0. /\ cache \in CacheOf(n) /\ Listing(s, m, n) /\ Listing(f, l, n)
      /\ \A x \in 1..n : Among(x, s, m) <=> ~Among(x, f, l)
      /\ LruLinked(cache, s, m) /\ FreeLinked(cache, f, l) /\ Indexed(cache, n, s, m)
  BY DEF Lists
<1>1. LruList = s /\ FreeList = f /\ m + l = n
  BY ListsAre DEF LruList, FreeList
<1>2. /\ DOMAIN s = 1..m /\ Len(s) = m /\ (s = << >> <=> m = 0)
      /\ \A x : x \in ElementsOf(s) <=> Among(x, s, m)
  BY <1>0, ListingSeq
<1>3. Len(f) = l /\ \A x : x \in ElementsOf(f) <=> Among(x, f, l)
  BY <1>0, ListingSeq
<1>4. cache.block_capacity = n
  BY <1>0, CacheFields
<1>5. \A x : Among(x, s, m) \/ Among(x, f, l) => x \in 1..n
  BY <1>0 DEF Among, Listing
<1>6. ElementsOf(s) \cup ElementsOf(f) = Elements
  BY <1>0, <1>2, <1>3, <1>4, <1>5 DEF Elements
<1>7. cache.lru_tail = IF s = << >> THEN 0 ELSE s[Len(s)]
  BY <1>0, <1>2 DEF LruLinked
<1>8. ASSUME NEW i \in DOMAIN s
      PROVE  /\ cache.prev[s[i]] = (IF i = 1 THEN 0 ELSE s[i - 1])
             /\ cache.key[s[i]] \in DOMAIN cache.table
             /\ cache.table[cache.key[s[i]]] = s[i]
  <2>1. i \in 1..m /\ s[i] \in 1..n /\ Among(s[i], s, m)
    BY <1>0, <1>2 DEF Listing, Among
  <2>2. cache.prev[s[i]] = IF i = 1 THEN 0 ELSE s[i - 1]
    BY <1>0, <2>1 DEF LruLinked
  <2> QED BY <1>0, <2>1, <2>2 DEF Indexed
<1>9. Len(s) = Cardinality(DOMAIN cache.table)
  <2> DEFINE ks == KeysOf(cache, s, m)
             T == DOMAIN cache.table
  <2>1. Enumerates(ks, m, T)
    BY <1>0, KeysListed
  <2> HIDE DEF ks, T
  <2>2. Cardinality(T) = m
    BY <2>1, CountListed
  <2> QED BY <2>2, <1>2 DEF T
<1> QED BY <1>1, <1>2, <1>3, <1>4, <1>6, <1>7, <1>8, <1>9 DEF ListsOK

-----------------------------------------------------------------------------
(***************************************************************************)
(* What a caller sees of the lists: the order of the keys and the values.  *)
(***************************************************************************)

\* The keys of the list ks, the earlier of two before the later.
OrderOf(ks, m) ==
  { <<ks[x[1]], ks[x[2]]>> : x \in { y \in (1..m) \X (1..m) : y[1] < y[2] } }

\* The order without the keys of R.
Dropped(order, R) == { p \in order : p[1] \notin R /\ p[2] \notin R }

ValuesOf(c) == [ k \in DOMAIN c.table |-> c.value[c.table[k]] ]

\* The keys of R are gone: d has the LRU list t, c had s.
Loses(d, t, mt, c, s, m, R) ==
  /\ DOMAIN d.table = DOMAIN c.table \ R
  /\ OrderOf(KeysOf(d, t, mt), mt) = Dropped(OrderOf(KeysOf(c, s, m), m), R)
  /\ ValuesOf(d) = [ k \in DOMAIN c.table \ R |-> ValuesOf(c)[k] ]

\* The pairs of an order.
LEMMA OrderPairs ==
  ASSUME NEW m \in Nat, NEW ks
  PROVE  /\ \A i, j \in 1..m : i < j => <<ks[i], ks[j]>> \in OrderOf(ks, m)
         /\ \A p \in OrderOf(ks, m) : \E i, j \in 1..m : i < j /\ p = <<ks[i], ks[j]>>
<1>1. ASSUME NEW i \in 1..m, NEW j \in 1..m, i < j
      PROVE  <<ks[i], ks[j]>> \in OrderOf(ks, m)
  <2> DEFINE x == <<i, j>>
  <2>1. x \in { y \in (1..m) \X (1..m) : y[1] < y[2] }
    BY <1>1
  <2>2. <<ks[x[1]], ks[x[2]]>> \in OrderOf(ks, m)
    <3> HIDE DEF x
    <3> QED BY <2>1 DEF OrderOf
  <2> QED BY <2>2
<1>2. ASSUME NEW p \in OrderOf(ks, m)
      PROVE  \E i, j \in 1..m : i < j /\ p = <<ks[i], ks[j]>>
  <2>1. PICK x \in { y \in (1..m) \X (1..m) : y[1] < y[2] } : p = <<ks[x[1]], ks[x[2]]>>
    BY DEF OrderOf
  <2>2. x[1] \in 1..m /\ x[2] \in 1..m /\ x[1] < x[2]
    OBVIOUS
  <2> QED BY <2>1, <2>2
<1> QED BY <1>1, <1>2

\* The order of a listed set, read back.
LEMMA OrderRead ==
  ASSUME NEW m \in Nat, NEW ks, NEW K, Enumerates(ks, m, K), NEW i \in 1..m, NEW j \in 1..m
  PROVE  <<ks[i], ks[j]>> \in OrderOf(ks, m) <=> i < j
<1>1. ASSUME <<ks[i], ks[j]>> \in OrderOf(ks, m) PROVE i < j
  <2>1. PICK a \in 1..m, b \in 1..m : a < b /\ <<ks[i], ks[j]>> = <<ks[a], ks[b]>>
    BY <1>1, OrderPairs
  <2>2. ks[i] = ks[a] /\ ks[j] = ks[b]
    BY <2>1
  <2>3. i = a /\ j = b
    BY <2>2 DEF Enumerates
  <2> QED BY <2>1, <2>3
<1> QED BY <1>1, OrderPairs

\* Taking a key out of the list takes it out of the order.
LEMMA OrderWithout ==
  ASSUME NEW m \in Nat, NEW ks, NEW K, Enumerates(ks, m, K), NEW p \in 1..m
  PROVE  /\ OrderOf(Without(ks, m, p), m - 1) = Dropped(OrderOf(ks, m), {ks[p]})
         /\ Enumerates(Without(ks, m, p), m - 1, K \ {ks[p]})
<1> DEFINE t == Without(ks, m, p)
           R == {ks[p]}
<1>0. /\ ks \in [ 1..m -> K ] /\ (\A i, j \in 1..m : ks[i] = ks[j] => i = j)
      /\ \A x \in K : Among(x, ks, m)
  BY DEF Enumerates
<1>1. /\ m - 1 \in Nat
      /\ \A i \in 1..(m - 1) :
           /\ i < p => i \in 1..m /\ t[i] = ks[i]
           /\ ~ (i < p) => i + 1 \in 1..m /\ t[i] = ks[i + 1]
      /\ \A j \in 1..m :
           /\ j < p => j \in 1..(m - 1) /\ t[j] = ks[j]
           /\ j > p => j - 1 \in 1..(m - 1) /\ t[j - 1] = ks[j]
  BY WithoutElements
<1>2. t = [ i \in 1..(m - 1) |-> t[i] ]
  BY DEF Without
<1> HIDE DEF t
<1> DEFINE Up(i) == IF i < p THEN i ELSE i + 1
           Down(j) == IF j < p THEN j ELSE j - 1
<1>3. \A i \in 1..(m - 1) : Up(i) \in 1..m /\ Up(i) # p /\ t[i] = ks[Up(i)]
  BY <1>1
<1>4. \A j \in 1..m : j # p => Down(j) \in 1..(m - 1) /\ t[Down(j)] = ks[j]
  BY <1>1
<1>5. /\ \A i, j \in 1..(m - 1) : i < j <=> Up(i) < Up(j)
      /\ \A i, j \in 1..(m - 1) : Up(i) = Up(j) => i = j
      /\ \A i, j \in 1..m : i # p /\ j # p /\ i < j => Down(i) < Down(j)
  OBVIOUS
<1> HIDE DEF Up, Down
<1>6. ASSUME NEW x \in OrderOf(t, m - 1) PROVE x \in Dropped(OrderOf(ks, m), R)
  <2>1. PICK i \in 1..(m - 1), j \in 1..(m - 1) : i < j /\ x = <<t[i], t[j]>>
    BY <1>1, OrderPairs
  <2>2. Up(i) < Up(j) /\ x = <<ks[Up(i)], ks[Up(j)]>> /\ Up(i) \in 1..m /\ Up(j) \in 1..m
    BY <2>1, <1>3, <1>5
  <2>3. x \in OrderOf(ks, m)
    BY <2>2, OrderPairs
  <2>4. x[1] \notin R /\ x[2] \notin R
    BY <2>2, <1>0, <1>3
  <2> QED BY <2>3, <2>4 DEF Dropped
<1>7. ASSUME NEW x \in Dropped(OrderOf(ks, m), R) PROVE x \in OrderOf(t, m - 1)
  <2>1. x \in OrderOf(ks, m) /\ x[1] \notin R /\ x[2] \notin R
    BY DEF Dropped
  <2>2. PICK i \in 1..m, j \in 1..m : i < j /\ x = <<ks[i], ks[j]>>
    BY <2>1, OrderPairs
  <2>3. i # p /\ j # p
    BY <2>1, <2>2
  <2>4. Down(i) < Down(j) /\ x = <<t[Down(i)], t[Down(j)]>>
        /\ Down(i) \in 1..(m - 1) /\ Down(j) \in 1..(m - 1)
    BY <2>2, <2>3, <1>4, <1>5
  <2> QED BY <2>4, <1>1, OrderPairs
<1>8. Enumerates(t, m - 1, K \ R)
  <2>1. \A i \in 1..(m - 1) : t[i] \in K \ R
    BY <1>0, <1>3
  <2>2. \A i, j \in 1..(m - 1) : t[i] = t[j] => i = j
    BY <1>0, <1>3, <1>5
  <2>3. ASSUME NEW x \in K \ R PROVE Among(x, t, m - 1)
    <3>1. PICK j \in 1..m : ks[j] = x
      BY <1>0 DEF Among
    <3>2. j # p
      BY <3>1
    <3> QED BY <3>1, <3>2, <1>4 DEF Among
  <2> QED BY <1>2, <2>1, <2>2, <2>3 DEF Enumerates
<1>9. OrderOf(t, m - 1) = Dropped(OrderOf(ks, m), R)
  BY <1>6, <1>7
<1> QED BY <1>8, <1>9 DEF t

\* Putting a key before the list puts it before the others.
LEMMA OrderBefore ==
  ASSUME NEW m \in Nat, NEW ks, NEW K, Enumerates(ks, m, K), NEW k, k \notin K
  PROVE  OrderOf(Before(k, ks, m), m + 1) = OrderOf(ks, m) \cup ({k} \X K)
<1> DEFINE t == Before(k, ks, m)
<1>0. ks \in [ 1..m -> K ] /\ \A x \in K : Among(x, ks, m)
  BY DEF Enumerates
<1>1. /\ m + 1 \in Nat /\ t[1] = k /\ 1 \in 1..(m + 1)
      /\ \A i \in 1..(m + 1) : i # 1 => i - 1 \in 1..m /\ t[i] = ks[i - 1]
      /\ \A j \in 1..m : j + 1 \in 1..(m + 1) /\ t[j + 1] = ks[j]
  BY BeforeElements
<1> HIDE DEF t
<1>2. ASSUME NEW x \in OrderOf(t, m + 1) PROVE x \in OrderOf(ks, m) \cup ({k} \X K)
  <2>1. PICK i \in 1..(m + 1), j \in 1..(m + 1) : i < j /\ x = <<t[i], t[j]>>
    BY <1>1, OrderPairs
  <2>2. j # 1 /\ j - 1 \in 1..m /\ t[j] = ks[j - 1]
    BY <2>1, <1>1
  <2>3. CASE i = 1
    BY <2>1, <2>2, <2>3, <1>0, <1>1
  <2>4. CASE i # 1
    <3>1. i - 1 \in 1..m /\ t[i] = ks[i - 1] /\ i - 1 < j - 1
      BY <2>1, <2>4, <1>1
    <3> QED BY <2>1, <2>2, <3>1, OrderPairs
  <2> QED BY <2>3, <2>4
<1>3. ASSUME NEW x \in OrderOf(ks, m) PROVE x \in OrderOf(t, m + 1)
  <2>1. PICK i \in 1..m, j \in 1..m : i < j /\ x = <<ks[i], ks[j]>>
    BY OrderPairs
  <2>2. i + 1 \in 1..(m + 1) /\ j + 1 \in 1..(m + 1) /\ i + 1 < j + 1 /\ x = <<t[i + 1], t[j + 1]>>
    BY <2>1, <1>1
  <2> QED BY <2>2, <1>1, OrderPairs
<1>4. ASSUME NEW y \in K PROVE <<k, y>> \in OrderOf(t, m + 1)
  <2>1. PICK j \in 1..m : ks[j] = y
    BY <1>0 DEF Among
  <2>2. j + 1 \in 1..(m + 1) /\ 1 < j + 1 /\ <<k, y>> = <<t[1], t[j + 1]>>
    BY <2>1, <1>1
  <2> QED BY <2>2, <1>1, OrderPairs
<1>5. \A x \in {k} \X K : x \in OrderOf(t, m + 1)
  BY <1>4
<1> QED BY <1>2, <1>3, <1>5 DEF t

\* The keys of a list without its p-th element.
LEMMA KeysWithout ==
  ASSUME NEW m \in Nat, NEW p \in 1..m, NEW s, NEW c, NEW d, d.key = c.key
  PROVE  KeysOf(d, Without(s, m, p), m - 1) = Without(KeysOf(c, s, m), m, p)
<1> DEFINE a == KeysOf(d, Without(s, m, p), m - 1)
           b == Without(KeysOf(c, s, m), m, p)
<1>1. \A i \in 1..(m - 1) :
        /\ i < p => i \in 1..m /\ Without(s, m, p)[i] = s[i]
        /\ ~ (i < p) => i + 1 \in 1..m /\ Without(s, m, p)[i] = s[i + 1]
  BY WithoutElements
<1>2. \A i \in 1..(m - 1) :
        /\ i < p => i \in 1..m /\ b[i] = KeysOf(c, s, m)[i]
        /\ ~ (i < p) => i + 1 \in 1..m /\ b[i] = KeysOf(c, s, m)[i + 1]
  BY WithoutElements
<1>3. \A i \in 1..m : KeysOf(c, s, m)[i] = c.key[s[i]]
  BY DEF KeysOf
<1>4. \A i \in 1..(m - 1) : a[i] = c.key[Without(s, m, p)[i]]
  BY DEF KeysOf
<1>5. a = [ i \in 1..(m - 1) |-> a[i] ] /\ b = [ i \in 1..(m - 1) |-> b[i] ]
  BY DEF KeysOf, Without
<1> HIDE DEF a, b
<1>6. \A i \in 1..(m - 1) : a[i] = b[i]
  BY <1>1, <1>2, <1>3, <1>4
<1> QED BY <1>5, <1>6 DEF a, b

\* The keys of a list with e before it.
LEMMA KeysBefore ==
  ASSUME NEW m \in Nat, NEW s, NEW e, NEW c, NEW d, NEW k, d.key[e] = k,
         \A i \in 1..m : d.key[s[i]] = c.key[s[i]]
  PROVE  KeysOf(d, Before(e, s, m), m + 1) = Before(k, KeysOf(c, s, m), m)
<1> DEFINE a == KeysOf(d, Before(e, s, m), m + 1)
           b == Before(k, KeysOf(c, s, m), m)
<1>1. Before(e, s, m)[1] = e
      /\ \A i \in 1..(m + 1) : i # 1 => i - 1 \in 1..m /\ Before(e, s, m)[i] = s[i - 1]
  BY BeforeElements
<1>2. b[1] = k /\ \A i \in 1..(m + 1) : i # 1 => i - 1 \in 1..m /\ b[i] = KeysOf(c, s, m)[i - 1]
  BY BeforeElements
<1>3. \A i \in 1..m : KeysOf(c, s, m)[i] = c.key[s[i]]
  BY DEF KeysOf
<1>4. \A i \in 1..(m + 1) : a[i] = d.key[Before(e, s, m)[i]]
  BY DEF KeysOf
<1>5. a = [ i \in 1..(m + 1) |-> a[i] ] /\ b = [ i \in 1..(m + 1) |-> b[i] ]
  BY DEF KeysOf, Before
<1> HIDE DEF a, b
<1>6. \A i \in 1..(m + 1) : a[i] = b[i]
  <2> TAKE i \in 1..(m + 1)
  <2>1. CASE i = 1
    BY <2>1, <1>1, <1>2, <1>4
  <2>2. CASE i # 1
    BY <2>2, <1>1, <1>2, <1>3, <1>4
  <2> QED BY <2>1, <2>2
<1> QED BY <1>5, <1>6 DEF a, b

\* The keys and values after the eviction of the p-th element.
LEMMA EvictView ==
  ASSUME NEW n \in Nat, NEW m \in Nat, NEW l \in Nat, NEW s, NEW f, NEW c,
         Lists(c, n, s, m, f, l), NEW p \in 1..m
  PROVE  LET d == Evict(c, s[p])
             R == {KeysOf(c, s, m)[p]}
         IN  /\ Lists(d, n, Without(s, m, p), m - 1, Before(s[p], f, l), l + 1)
             /\ SameBlocks(d, c) /\ Loses(d, Without(s, m, p), m - 1, c, s, m, R)
<1> DEFINE d == Evict(c, s[p])
           ks == KeysOf(c, s, m)
           T == DOMAIN c.table
           R == {ks[p]}
<1>1. /\ Lists(d, n, Without(s, m, p), m - 1, Before(s[p], f, l), l + 1)
      /\ d.table = [ i \in DOMAIN c.table \ {c.key[s[p]]} |-> c.table[i] ]
      /\ d.key = c.key /\ d.value = c.value /\ SameBlocks(d, c)
  BY EvictLists
<1>2. ks[p] = c.key[s[p]]
  BY DEF KeysOf
<1> HIDE DEF d
<1>3. DOMAIN d.table = T \ R /\ \A i \in T \ R : d.table[i] = c.table[i]
  BY <1>1, <1>2
<1>4. ValuesOf(d) = [ i \in T \ R |-> ValuesOf(c)[i] ]
  BY <1>1, <1>3 DEF ValuesOf
<1>5. KeysOf(d, Without(s, m, p), m - 1) = Without(ks, m, p)
  BY <1>1, KeysWithout
<1>6. Enumerates(ks, m, T)
  BY KeysListed DEF Lists
<1> HIDE DEF ks, T
<1>7. OrderOf(Without(ks, m, p), m - 1) = Dropped(OrderOf(ks, m), R)
  BY <1>6, OrderWithout
<1> QED BY <1>1, <1>3, <1>4, <1>5, <1>7 DEF d, ks, T, Loses

\* Insert, up to the state in which PopFreeList gets the element.
Ready(c, k) ==
  LET s0 == IF k \in DOMAIN c.table THEN Evict(c, c.table[k]) ELSE c
      s1 == BeforePop(s0)
  IN  IF s1.free_list # 0 THEN s1
      ELSE BeforePop(Evict(Check(s1, s1.lru_tail # 0), s1.lru_tail))

\* Insert in two parts.
LEMMA InsertIs ==
  ASSUME NEW k, NEW v, Insert(k, v)
  PROVE  cache' = Placed(Ready(cache, k), k, v)
BY DEF Insert, Ready, Placed

\* What makes room for k: its own element, an element that is still free, or
\* the tail of the list when the cache is full.
Room(c, k, n, ks, m, all, R) ==
  \/ k \in DOMAIN c.table /\ R = {k}
  \/ k \notin DOMAIN c.table /\ R = {} /\ m < all
  \/ k \notin DOMAIN c.table /\ m = n /\ Full(n) /\ R = {ks[m]}

\* The free list begins where c.free_list points.
LEMMA FreeFirst ==
  ASSUME NEW n \in Nat, NEW m \in Nat, NEW l \in Nat, NEW s, NEW f, NEW c,
         Lists(c, n, s, m, f, l)
  PROVE  c.free_list = 0 <=> l = 0
<1>1. l # 0 => 1 \in 1..l
  OBVIOUS
<1>2. c.free_list = IF l = 0 THEN 0 ELSE f[1]
  BY DEF Lists, FreeLinked, Linked
<1>3. l # 0 => f[1] \in 1..n
  BY <1>1 DEF Lists, Listing
<1> QED BY <1>2, <1>3

\* The allocated blocks do not depend on the lists.
LEMMA GrownSame ==
  ASSUME NEW c, NEW d, NEW n, Grown(c, n), SameBlocks(d, c)
  PROVE  Grown(d, n)
BY DEF Grown, SameBlocks

\* Insert finds an element: the lists, the keys and the values at that point.
LEMMA ReadyLists ==
  ASSUME NEW n \in Nat, NEW m \in Nat, NEW l \in Nat, NEW s, NEW f, NEW c,
         Lists(c, n, s, m, f, l), Grown(c, n), NEW k \in Key
  PROVE  LET d == Ready(c, k)
             ks == KeysOf(c, s, m)
         IN  \E all, t, mt, g, lg, R :
               /\ all \in Nat /\ mt \in Nat /\ lg \in Nat /\ lg # 0
               /\ Lists(d, all, t, mt, g, lg) /\ Grown(d, all)
               /\ Loses(d, t, mt, c, s, m, R) /\ k \notin DOMAIN d.table
               /\ Room(c, k, n, ks, m, all, R)
<1> DEFINE d == Ready(c, k)
           ks == KeysOf(c, s, m)
<1>0. /\ c \in CacheOf(n) /\ Listing(s, m, n) /\ Listing(f, l, n)
      /\ \A x \in 1..n : Among(x, s, m) <=> ~Among(x, f, l)
      /\ Indexed(c, n, s, m)
  BY DEF Lists
<1>1. CASE k \in DOMAIN c.table
  <2>1. PICK p \in 1..m : s[p] = c.table[k] /\ c.key[s[p]] = k
    BY <1>0, <1>1 DEF Indexed, Among
  <2> DEFINE e == Evict(c, s[p])
             R == {ks[p]}
             t == Without(s, m, p)
             g == Before(s[p], f, l)
  <2>2. /\ Lists(e, n, t, m - 1, g, l + 1)
        /\ SameBlocks(e, c) /\ Loses(e, t, m - 1, c, s, m, R)
    BY EvictView
  <2>3. ks[p] = k
    BY <2>1 DEF KeysOf
  <2>4. m - 1 \in Nat /\ l + 1 \in Nat /\ l + 1 # 0
    OBVIOUS
  <2> HIDE DEF e, t, g
  <2>5. e.free_list # 0
    BY <2>2, <2>4, FreeFirst
  <2>6. d = e
    BY <1>1, <2>1, <2>5 DEF Ready, BeforePop, e
  <2>7. Grown(e, n)
    BY <2>2, GrownSame
  <2>8. Room(c, k, n, ks, m, n, R) /\ k \notin DOMAIN e.table
    BY <1>1, <2>2, <2>3 DEF Room, Loses
  <2> HIDE DEF d, ks, R
  <2> QED BY <2>2, <2>4, <2>6, <2>7, <2>8 DEF d, ks
<1>2. CASE k \notin DOMAIN c.table
  <2> DEFINE b == BeforePop(c)
  <2>1. \E all, g, lg :
          /\ all \in Nat /\ lg \in Nat
          /\ Lists(b, all, s, m, g, lg) /\ Grown(b, all) /\ b.table = c.table
          /\ \A e \in 1..n : b.key[e] = c.key[e] /\ b.value[e] = c.value[e]
          /\ n <= all /\ (lg = 0 => all = n /\ Full(n))
    <3>1. CASE l = 0
      <4>1. c.free_list = 0
        BY <3>1, FreeFirst
      <4>2. b = AddBlock(c)
        BY <4>1 DEF BeforePop
      <4>3. Lists(c, n, s, m, f, 0)
        BY <3>1
      <4> HIDE DEF b
      <4> QED BY <4>2, <4>3, AddBlockLists
    <3>2. CASE l # 0
      <4>1. c.free_list # 0
        BY <3>2, FreeFirst
      <4>2. b = c
        BY <4>1 DEF BeforePop
      <4>3. n <= n
        OBVIOUS
      <4> HIDE DEF b
      <4> QED BY <3>2, <4>2, <4>3
    <3> QED BY <3>1, <3>2
  <2> HIDE DEF b
  <2>2. PICK all, g, lg :
          /\ all \in Nat /\ lg \in Nat
          /\ Lists(b, all, s, m, g, lg) /\ Grown(b, all) /\ b.table = c.table
          /\ \A e \in 1..n : b.key[e] = c.key[e] /\ b.value[e] = c.value[e]
          /\ n <= all /\ (lg = 0 => all = n /\ Full(n))
    BY <2>1
  <2>3. KeysOf(b, s, m) = ks /\ ValuesOf(b) = ValuesOf(c)
    <3>1. \A i \in 1..m : s[i] \in 1..n
      BY <1>0 DEF Listing
    <3>2. \A i \in DOMAIN c.table : c.table[i] \in 1..n
      BY <1>0, CacheFields
    <3>3. ValuesOf(b) = ValuesOf(c)
      BY <2>2, <3>2 DEF ValuesOf
    <3>4. KeysOf(b, s, m) = ks
      BY <2>2, <3>1 DEF KeysOf
    <3> QED BY <3>3, <3>4
  <2>4. m + lg = all
    BY <2>2, ListsCount DEF Lists
  <2>5. CASE lg # 0
    <3>1. b.free_list # 0
      BY <2>2, <2>5, FreeFirst
    <3>2. d = b
      BY <1>2, <3>1 DEF Ready, b
    <3> DEFINE R == {}
    <3>3. Room(c, k, n, ks, m, all, R) /\ k \notin DOMAIN b.table
      BY <1>2, <2>2, <2>4, <2>5 DEF Room
    <3>4. Loses(b, s, m, c, s, m, R)
      <4>1. ValuesOf(c) = [ i \in DOMAIN c.table |-> ValuesOf(c)[i] ]
        BY DEF ValuesOf
      <4> QED BY <4>1, <2>2, <2>3 DEF Dropped, Loses
    <3> HIDE DEF d, ks, R
    <3> QED BY <2>2, <2>3, <2>5, <3>2, <3>3, <3>4 DEF d, ks
  <2>6. CASE lg = 0
    <3> DEFINE e == Evict(b, s[m])
               R == {ks[m]}
               t == Without(s, m, m)
               h == Before(s[m], g, lg)
    <3>1. m = n /\ all = n /\ Full(n) /\ m # 0 /\ m \in 1..m
      BY <2>2, <2>4, <2>6 DEF Full
    <3>2. b.free_list = 0
      BY <2>2, <2>6, FreeFirst
    <3>3. b.lru_tail = s[m] /\ s[m] \in 1..n /\ s[m] # 0
      BY <2>2, <3>1, <1>0 DEF Lists, LruLinked, Listing
    <3>4. Check(b, b.lru_tail # 0) = b
      <4>1. (b.lru_tail # 0) = TRUE
        BY <3>3
      <4>2. b \in CacheOf(all)
        BY <2>2 DEF Lists
      <4> QED BY <4>1, <4>2, <2>2, CheckHolds
    <3>5. d = BeforePop(e)
      <4>1. d = BeforePop(Evict(Check(b, b.lru_tail # 0), b.lru_tail))
        BY <1>2, <3>2 DEF Ready, b
      <4> QED BY <4>1, <3>3, <3>4
    <3>6. /\ Lists(e, n, t, m - 1, h, lg + 1)
          /\ SameBlocks(e, b) /\ Loses(e, t, m - 1, c, s, m, R)
      <4>1. /\ Lists(e, all, t, m - 1, h, lg + 1)
            /\ SameBlocks(e, b) /\ Loses(e, t, m - 1, b, s, m, {KeysOf(b, s, m)[m]})
        BY <2>2, <3>1, EvictView
      <4> HIDE DEF e, t, h, ks
      <4> QED BY <4>1, <2>2, <2>3, <3>1 DEF Loses, ks
    <3>7. m - 1 \in Nat /\ lg + 1 \in Nat /\ lg + 1 # 0
      BY <2>2, <3>1
    <3> HIDE DEF e, t, h
    <3>8. e.free_list # 0
      BY <3>6, <3>7, FreeFirst
    <3>9. d = e
      BY <3>5, <3>8 DEF BeforePop
    <3>10. Grown(e, n)
      BY <2>2, <3>1, <3>6, GrownSame
    <3>11. Room(c, k, n, ks, m, n, R) /\ k \notin DOMAIN e.table
      BY <1>2, <3>1, <3>6 DEF Room, Loses
    <3> HIDE DEF d, ks, R
    <3> QED BY <3>6, <3>7, <3>9, <3>10, <3>11 DEF d, ks
  <2> QED BY <2>5, <2>6
<1> QED BY <1>1, <1>2

\* k has become the most recent key, with the value v; d has the LRU list t.
Gains(d, t, c, s, m, k, v) ==
  /\ DOMAIN d.table = DOMAIN c.table \cup {k}
  /\ OrderOf(KeysOf(d, t, m + 1), m + 1)
       = OrderOf(KeysOf(c, s, m), m) \cup ({k} \X DOMAIN c.table)
  /\ ValuesOf(d) = [ i \in DOMAIN c.table \cup {k} |-> IF i = k THEN v ELSE ValuesOf(c)[i] ]

\* The keys and values after the end of Insert.
LEMMA PlaceView ==
  ASSUME NEW n \in Nat, NEW m \in Nat, NEW l \in Nat, NEW s, NEW f, NEW c,
         Lists(c, n, s, m, f, l), l # 0,
         NEW k \in Key, k \notin DOMAIN c.table, NEW v \in Value
  PROVE  LET d == Placed(c, k, v)
         IN  /\ Lists(d, n, Before(f[1], s, m), m + 1, Without(f, l, 1), l - 1)
             /\ SameBlocks(d, c) /\ Gains(d, Before(f[1], s, m), c, s, m, k, v)
<1> DEFINE d == Placed(c, k, v)
           e == f[1]
           ks == KeysOf(c, s, m)
           T == DOMAIN c.table
<1>1. /\ Lists(d, n, Before(e, s, m), m + 1, Without(f, l, 1), l - 1)
      /\ d.table = [ i \in DOMAIN c.table \cup {k} |-> IF i = k THEN e ELSE c.table[i] ]
      /\ d.key = [ c.key EXCEPT ![e] = k ] /\ d.value = [ c.value EXCEPT ![e] = v ]
      /\ SameBlocks(d, c)
  BY PlaceLists
<1>2. /\ c \in CacheOf(n) /\ Listing(s, m, n) /\ Listing(f, l, n)
      /\ \A x \in 1..n : Among(x, s, m) <=> ~Among(x, f, l)
      /\ Indexed(c, n, s, m)
  BY DEF Lists
<1>3. 1 \in 1..l
  OBVIOUS
<1>4. e \in 1..n /\ ~Among(e, s, m)
  BY <1>2, <1>3 DEF Listing, Among
<1>5. c.key \in [ 1..n -> Key \cup {0} ] /\ c.value \in [ 1..n -> Value \cup {0} ]
      /\ \A i \in T : c.table[i] \in 1..n
  BY <1>2, CacheFields
<1> HIDE DEF d, e
<1>6. d.key[e] = k /\ \A i \in 1..m : d.key[s[i]] = c.key[s[i]]
  <2>1. \A i \in 1..m : s[i] \in 1..n /\ s[i] # e
    BY <1>2, <1>4 DEF Listing, Among
  <2> QED BY <2>1, <1>1, <1>4, <1>5
<1>7. KeysOf(d, Before(e, s, m), m + 1) = Before(k, ks, m)
  BY <1>6, KeysBefore
<1>8. Enumerates(ks, m, T)
  BY <1>2, KeysListed
<1>9. DOMAIN d.table = T \cup {k} /\ d.table[k] = e /\ \A i \in T : d.table[i] = c.table[i]
  BY <1>1
<1>10. \A i \in T : i # k /\ c.table[i] # e
  BY <1>2, <1>4 DEF Indexed
<1>11. d.value[e] = v /\ \A i \in T : d.value[c.table[i]] = c.value[c.table[i]]
  BY <1>1, <1>4, <1>5, <1>10
<1>12. ValuesOf(d) = [ i \in T \cup {k} |-> IF i = k THEN v ELSE ValuesOf(c)[i] ]
  BY <1>9, <1>10, <1>11 DEF ValuesOf
<1> HIDE DEF ks, T
<1>13. OrderOf(Before(k, ks, m), m + 1) = OrderOf(ks, m) \cup ({k} \X T)
  <2>1. k \notin T
    BY DEF T
  <2> QED BY <2>1, <1>8, OrderBefore
<1>14. Gains(d, Before(e, s, m), c, s, m, k, v)
  BY <1>7, <1>9, <1>12, <1>13 DEF Gains, ks, T
<1> QED BY <1>1, <1>14 DEF d, e

\* k has become the most recent key, and nothing else has changed.
Moves(d, t, c, s, m, k) ==
  /\ OrderOf(KeysOf(d, t, m), m)
       = Dropped(OrderOf(KeysOf(c, s, m), m), {k}) \cup ({k} \X (DOMAIN c.table \ {k}))
  /\ DOMAIN d.table = DOMAIN c.table /\ ValuesOf(d) = ValuesOf(c)

\* The keys and values after a look-up.
LEMMA MoveView ==
  ASSUME NEW n \in Nat, NEW m \in Nat, NEW l \in Nat, NEW s, NEW f, NEW c,
         Lists(c, n, s, m, f, l), NEW p \in 1..m
  PROVE  LET d == PushLRUHead(c, s[p])
             t == Before(s[p], Without(s, m, p), m - 1)
         IN  /\ Lists(d, n, t, m, f, l)
             /\ SameBlocks(d, c) /\ Moves(d, t, c, s, m, KeysOf(c, s, m)[p])
<1> DEFINE d == PushLRUHead(c, s[p])
           w == Without(s, m, p)
           t == Before(s[p], w, m - 1)
           ks == KeysOf(c, s, m)
           k == ks[p]
           T == DOMAIN c.table
<1>1. Lists(d, n, t, m, f, l) /\ SameTable(d, c)
  BY MoveLists
<1>2. SameBlocks(d, c) /\ d.key = c.key /\ DOMAIN d.table = T /\ ValuesOf(d) = ValuesOf(c)
  BY <1>1 DEF SameTable, SameBlocks, ValuesOf
<1>3. m - 1 \in Nat /\ m - 1 + 1 = m
  OBVIOUS
<1>4. KeysOf(d, t, m) = Before(k, Without(ks, m, p), m - 1)
  <2>1. d.key[s[p]] = k
    BY <1>2 DEF KeysOf
  <2>2. \A i \in 1..(m - 1) : d.key[w[i]] = c.key[w[i]]
    BY <1>2
  <2> HIDE DEF d, w, k
  <2>3. KeysOf(d, t, m - 1 + 1) = Before(k, KeysOf(c, w, m - 1), m - 1)
    <3> DEFINE a == m - 1
    <3>1. a \in Nat /\ \A i \in 1..a : d.key[w[i]] = c.key[w[i]]
      BY <1>3, <2>2
    <3> HIDE DEF a
    <3>2. KeysOf(d, Before(s[p], w, a), a + 1) = Before(k, KeysOf(c, w, a), a)
      BY <2>1, <3>1, KeysBefore
    <3> QED BY <3>2 DEF a
  <2>4. KeysOf(c, w, m - 1) = Without(ks, m, p)
    BY KeysWithout DEF w
  <2> QED BY <2>3, <2>4, <1>3
<1>5. Enumerates(ks, m, T)
  BY KeysListed DEF Lists
<1> HIDE DEF d, t, ks, T
<1>6. /\ OrderOf(Without(ks, m, p), m - 1) = Dropped(OrderOf(ks, m), {k})
      /\ Enumerates(Without(ks, m, p), m - 1, T \ {k})
  BY <1>5, OrderWithout
<1>7. k \notin T \ {k}
  OBVIOUS
<1> HIDE DEF k
<1>8. OrderOf(Before(k, Without(ks, m, p), m - 1), m - 1 + 1)
        = OrderOf(Without(ks, m, p), m - 1) \cup ({k} \X (T \ {k}))
  BY <1>3, <1>6, <1>7, OrderBefore
<1>9. Moves(d, t, c, s, m, k)
  BY <1>2, <1>3, <1>4, <1>6, <1>8 DEF Moves, ks, T
<1> QED BY <1>1, <1>2, <1>9 DEF d, t, k, ks

-----------------------------------------------------------------------------
(***************************************************************************)
(* The invariant: there are two lists that the pointers represent.         *)
(***************************************************************************)

Represents(c, n, s, m, f, l) ==
  n \in Nat /\ m \in Nat /\ l \in Nat /\ Lists(c, n, s, m, f, l) /\ Grown(c, n)

Represented(c) == \E n, s, m, f, l : Represents(c, n, s, m, f, l)

IInv == Represented(cache)

\* The constructor leaves both lists empty.
LEMMA NewRepresented == Represents(NewCache, 0, << >>, 0, << >>, 0)
<1> DEFINE zero == 0
           none == << >>
           z == FirstBlockSize(MaxElements)
           true == TRUE
           c == [ table |-> NoKeys, next |-> none, prev |-> none, key |-> none,
                  value |-> none, free_list |-> zero, lru_head |-> zero,
                  lru_tail |-> zero, block_count |-> zero, block_capacity |-> zero,
                  next_block_size |-> z, checks |-> true ]
<1>1. NewCache = c
  BY DEF NewCache, NoKeys
<1>2. /\ NoKeys \in UNION { [ K -> 1..0 ] : K \in SUBSET Key } /\ DOMAIN NoKeys = {}
      /\ none \in [ 1..0 -> 0..0 ]
      /\ none \in [ 1..0 -> Key \cup {0} ] /\ none \in [ 1..0 -> Value \cup {0} ]
      /\ zero \in 0..0 /\ zero \in {0} /\ zero \in Nat
  <2>1. NoKeys \in [ {} -> 1..0 ] /\ {} \in SUBSET Key
    BY DEF NoKeys
  <2> QED BY <2>1
<1>3. z \in Int /\ true \in {TRUE}
  <2>1. z \in Int
    BY FirstBlockType
  <2>2. true \in {TRUE}
    BY Zenon
  <2> QED BY <2>1, <2>2
<1> HIDE DEF zero, none, z, true
<1>4. c \in CacheOf(0)
  BY <1>2, <1>3 DEF CacheOf
<1>5. /\ c.table = NoKeys /\ c.free_list = zero /\ c.lru_head = zero /\ c.lru_tail = zero
      /\ c.block_count = zero /\ c.next_block_size = z
  OBVIOUS
<1> HIDE DEF c
<1>6. Listing(<< >>, 0, 0) /\ \A x : ~Among(x, << >>, 0)
  BY DEF Listing, Among
<1>7. LruLinked(c, << >>, 0) /\ FreeLinked(c, << >>, 0) /\ Indexed(c, 0, << >>, 0)
  BY <1>2, <1>5 DEF LruLinked, FreeLinked, Linked, Indexed, zero
<1>8. \A x \in 1..0 : Among(x, << >>, 0) <=> ~Among(x, << >>, 0)
  OBVIOUS
<1>9. Lists(c, 0, << >>, 0, << >>, 0)
  BY <1>4, <1>6, <1>7, <1>8 DEF Lists
<1>10. Grown(c, 0)
  <2>1. 0 \in 0..MaxBlocks
    BY SizesAssumption
  <2> QED BY <2>1, <1>5, BlocksRounds DEF Grown, zero, z
<1> QED BY <1>1, <1>9, <1>10 DEF Represents

\* An insertion: the keys R leave to make room for k, k becomes the most recent,
\* and other lists represent the cache.
Inserts(k, v, n, s, m, all, t, mt, g, lg, R) ==
  LET T == DOMAIN cache.table \ R
  IN  /\ Represents(cache', all, t, mt, g, lg)
      /\ Room(cache, k, n, KeysOf(cache, s, m), m, all, R)
      /\ OrderOf(KeysOf(cache', t, mt), mt)
           = Dropped(OrderOf(KeysOf(cache, s, m), m), R) \cup ({k} \X T)
      /\ ValuesOf(cache') = [ i \in T \cup {k} |->
                                IF i = k THEN v ELSE ValuesOf(cache)[i] ]

\* Insert does this.
LEMMA InsertStep ==
  ASSUME NEW n, NEW s, NEW m, NEW f, NEW l, Represents(cache, n, s, m, f, l),
         NEW k \in Key, NEW v \in Value, Insert(k, v)
  PROVE  \E all, t, mt, g, lg, R :
           Inserts(k, v, n, s, m, all, t, mt, g, lg, R)
<1> DEFINE c == cache
           d == Ready(c, k)
           z == cache'
<1>0. n \in Nat /\ m \in Nat /\ l \in Nat /\ Lists(c, n, s, m, f, l) /\ Grown(c, n)
  BY DEF Represents
<1>1. z = Placed(d, k, v)
  BY InsertIs
<1> HIDE DEF c, z
<1>2. PICK all, t, mt, g, lg, R :
        /\ all \in Nat /\ mt \in Nat /\ lg \in Nat /\ lg # 0
        /\ Lists(d, all, t, mt, g, lg) /\ Grown(d, all)
        /\ Loses(d, t, mt, c, s, m, R) /\ k \notin DOMAIN d.table
        /\ Room(c, k, n, KeysOf(c, s, m), m, all, R)
  BY <1>0, ReadyLists
<1> HIDE DEF d
<1> DEFINE u == Before(g[1], t, mt)
           h == Without(g, lg, 1)
<1>3. /\ Lists(z, all, u, mt + 1, h, lg - 1)
      /\ SameBlocks(z, d) /\ Gains(z, u, d, t, mt, k, v)
  BY <1>1, <1>2, PlaceView
<1>4. mt + 1 \in Nat /\ lg - 1 \in Nat
  BY <1>2
<1> HIDE DEF u, h
<1>5. Grown(z, all)
  BY <1>2, <1>3, GrownSame
<1>6. Represents(z, all, u, mt + 1, h, lg - 1)
  BY <1>2, <1>3, <1>4, <1>5 DEF Represents
<1> DEFINE T == DOMAIN c.table \ R
<1>7. DOMAIN d.table = T /\ ValuesOf(d) = [ i \in T |-> ValuesOf(c)[i] ] /\ k \notin T
      /\ OrderOf(KeysOf(d, t, mt), mt) = Dropped(OrderOf(KeysOf(c, s, m), m), R)
  BY <1>2 DEF Loses
<1> HIDE DEF T
<1>8. OrderOf(KeysOf(z, u, mt + 1), mt + 1)
        = Dropped(OrderOf(KeysOf(c, s, m), m), R) \cup ({k} \X T)
  BY <1>3, <1>7 DEF Gains
<1>9. ValuesOf(z) = [ i \in T \cup {k} |-> IF i = k THEN v ELSE ValuesOf(c)[i] ]
  BY <1>3, <1>7 DEF Gains
<1>10. Inserts(k, v, n, s, m, all, u, mt + 1, h, lg - 1, R)
  BY <1>2, <1>6, <1>8, <1>9 DEF Inserts, z, c, T
<1> QED BY <1>10

\* A look-up: the key becomes the most recent.
LEMMA LookupStep ==
  ASSUME NEW n, NEW s, NEW m, NEW f, NEW l, Represents(cache, n, s, m, f, l),
         NEW k \in Key, Lookup(k)
  PROVE  \E t : /\ Represents(cache', n, t, m, f, l)
                /\ Moves(cache', t, cache, s, m, k) /\ k \in DOMAIN cache.table
<1> DEFINE c == cache
           z == cache'
<1>0. n \in Nat /\ m \in Nat /\ l \in Nat /\ Lists(c, n, s, m, f, l) /\ Grown(c, n)
  BY DEF Represents
<1>1. k \in DOMAIN c.table /\ z = PushLRUHead(c, c.table[k])
  BY DEF Lookup
<1> HIDE DEF c, z
<1>2. PICK p \in 1..m : s[p] = c.table[k] /\ c.key[s[p]] = k
  BY <1>0, <1>1 DEF Lists, Indexed, Among
<1> DEFINE t == Before(s[p], Without(s, m, p), m - 1)
<1>3. KeysOf(c, s, m)[p] = k
  BY <1>2 DEF KeysOf
<1>4. Lists(z, n, t, m, f, l) /\ SameBlocks(z, c) /\ Moves(z, t, c, s, m, k)
  <2>1. /\ Lists(PushLRUHead(c, s[p]), n, t, m, f, l)
        /\ SameBlocks(PushLRUHead(c, s[p]), c)
        /\ Moves(PushLRUHead(c, s[p]), t, c, s, m, KeysOf(c, s, m)[p])
    BY <1>0, MoveView
  <2> HIDE DEF t
  <2> QED BY <2>1, <1>1, <1>2, <1>3
<1> HIDE DEF t
<1>5. Grown(z, n)
  BY <1>0, <1>4, GrownSame
<1>6. Represents(z, n, t, m, f, l)
  BY <1>0, <1>4, <1>5 DEF Represents
<1> QED BY <1>1, <1>4, <1>6 DEF c, z

\* An erasure: the key leaves, if it is there.
LEMMA EraseStep ==
  ASSUME NEW n, NEW s, NEW m, NEW f, NEW l, Represents(cache, n, s, m, f, l),
         NEW k \in Key, Erase(k)
  PROVE  \E t, mt, g, lg : /\ Represents(cache', n, t, mt, g, lg)
                           /\ \/ k \in DOMAIN cache.table /\ Loses(cache', t, mt, cache, s, m, {k})
                              \/ k \notin DOMAIN cache.table /\ cache' = cache
<1> DEFINE c == cache
           z == cache'
<1>0. n \in Nat /\ m \in Nat /\ l \in Nat /\ Lists(c, n, s, m, f, l) /\ Grown(c, n)
  BY DEF Represents
<1>1. z = IF k \in DOMAIN c.table THEN Evict(c, c.table[k]) ELSE c
  BY DEF Erase
<1>2. Represents(c, n, s, m, f, l)
  OBVIOUS
<1> HIDE DEF c, z
<1>3. CASE k \in DOMAIN c.table
  <2>1. PICK p \in 1..m : s[p] = c.table[k] /\ c.key[s[p]] = k
    BY <1>0, <1>3 DEF Lists, Indexed, Among
  <2> DEFINE t == Without(s, m, p)
             g == Before(s[p], f, l)
             e == Evict(c, s[p])
  <2>2. KeysOf(c, s, m)[p] = k
    BY <2>1 DEF KeysOf
  <2>3. /\ Lists(e, n, t, m - 1, g, l + 1)
        /\ SameBlocks(e, c) /\ Loses(e, t, m - 1, c, s, m, {KeysOf(c, s, m)[p]})
    BY <1>0, EvictView
  <2>4. z = e
    BY <1>1, <1>3, <2>1
  <2>5. m - 1 \in Nat /\ l + 1 \in Nat
    BY <1>0
  <2> HIDE DEF t, g, e
  <2>6. Grown(e, n)
    BY <1>0, <2>3, GrownSame
  <2>7. Represents(z, n, t, m - 1, g, l + 1) /\ Loses(z, t, m - 1, c, s, m, {k})
    BY <1>0, <2>2, <2>3, <2>4, <2>5, <2>6 DEF Represents
  <2> QED BY <1>3, <2>7 DEF c, z
<1>4. CASE k \notin DOMAIN c.table
  <2>1. z = c
    BY <1>1, <1>4
  <2>2. Represents(z, n, s, m, f, l)
    BY <1>2, <2>1
  <2> QED BY <1>4, <2>1, <2>2 DEF c, z
<1> QED BY <1>3, <1>4

\* Clear: all keys leave.
LEMMA ClearStep ==
  ASSUME NEW n, NEW s, NEW m, NEW f, NEW l, Represents(cache, n, s, m, f, l), Clear
  PROVE  \E g : Represents(cache', n, << >>, 0, g, n) /\ DOMAIN cache'.table = {}
<1> DEFINE c == cache
           z == cache'
<1>0. n \in Nat /\ m \in Nat /\ l \in Nat /\ Lists(c, n, s, m, f, l) /\ Grown(c, n)
  BY DEF Represents
<1>1. z = Cleared(c)
  BY DEF Clear, Cleared, NoKeys
<1> HIDE DEF c, z
<1>2. PICK g : Lists(z, n, << >>, 0, g, n)
  BY <1>0, <1>1, ClearLists
<1>3. z.table = NoKeys /\ SameBlocks(z, c)
  BY <1>0, <1>1, ClearLists
<1>4. Grown(z, n)
  BY <1>0, <1>3, GrownSame
<1>5. Represents(z, n, << >>, 0, g, n)
  BY <1>0, <1>2, <1>4 DEF Represents
<1>6. DOMAIN z.table = {}
  BY <1>3 DEF NoKeys
<1> QED BY <1>5, <1>6 DEF z

\* Every reachable cache represents two lists.
THEOREM AlwaysRepresented == Spec => []IInv
<1>1. Init => IInv
  BY NewRepresented DEF Init, Represented, IInv
<1>2. ASSUME IInv, [Next]_vars PROVE IInv'
  <2>0. PICK n, s, m, f, l : Represents(cache, n, s, m, f, l)
    BY <1>2 DEF Represented, IInv
  <2>1. ASSUME NEW k \in Key, NEW v \in Value, Insert(k, v) PROVE IInv'
    <3>1. PICK all, t, mt, g, lg, R : Inserts(k, v, n, s, m, all, t, mt, g, lg, R)
      BY <2>0, <2>1, InsertStep
    <3>2. Represents(cache', all, t, mt, g, lg)
      BY <3>1 DEF Inserts
    <3> QED BY <3>2 DEF Represented, IInv
  <2>2. ASSUME NEW k \in Key, Lookup(k) PROVE IInv'
    <3>1. \E t : Represents(cache', n, t, m, f, l)
      BY <2>0, <2>2, LookupStep
    <3> QED BY <3>1 DEF Represented, IInv
  <2>3. ASSUME NEW k \in Key, Erase(k) PROVE IInv'
    <3>1. \E t, mt, g, lg : Represents(cache', n, t, mt, g, lg)
      BY <2>0, <2>3, EraseStep
    <3> QED BY <3>1 DEF Represented, IInv
  <2>4. CASE Clear
    <3>1. \E g : Represents(cache', n, << >>, 0, g, n)
      BY <2>0, <2>4, ClearStep
    <3> QED BY <3>1 DEF Represented, IInv
  <2>5. CASE UNCHANGED vars
    BY <1>2, <2>5 DEF vars, IInv
  <2>6. CASE Next
    <3>1. \/ \E k \in Key, v \in Value : Insert(k, v)
          \/ \E k \in Key : Lookup(k)
          \/ \E k \in Key : Erase(k)
          \/ Clear
      BY <2>6, Zenon DEF Next
    <3> QED BY <3>1, <2>1, <2>2, <2>3, <2>4, Zenon
  <2> QED BY <1>2, <2>5, <2>6 DEF vars, IInv
<1> QED BY <1>1, <1>2, PTL DEF Spec

\* In every reachable state each element of lru_cache.h is on exactly one of
\* the two lists, the LRU list is linked both ways and the table leads each key
\* to its element, for every size of the cache and of its blocks.
THEOREM AlwaysListsOK == Spec => []ListsOK
<1>1. IInv => ListsOK
  BY ListsAreOK DEF IInv, Represented, Represents
<1> QED BY <1>1, AlwaysRepresented, PTL

\* No CHECK of lru_cache.h fails: an evicted key is in the table, a full cache
\* has a tail to evict, an element from the free list is not linked.
THEOREM NeverCheckFails == Spec => []NoCheckFails
<1>1. IInv => NoCheckFails
  <2> SUFFICES ASSUME IInv PROVE NoCheckFails
    OBVIOUS
  <2>1. PICK n, s, m, f, l : Represents(cache, n, s, m, f, l)
    BY DEF IInv, Represented
  <2>2. n \in Nat /\ cache \in CacheOf(n)
    BY <2>1 DEF Represents, Lists
  <2>3. cache.checks = TRUE
    BY <2>2, CacheFields
  <2> QED BY <2>3 DEF NoCheckFails
<1> QED BY <1>1, AlwaysRepresented, PTL

-----------------------------------------------------------------------------
(***************************************************************************)
(* The pointers implement LruMap.                                          *)
(***************************************************************************)

\* `newer' of the refinement mapping.
PositionIn(c, k) ==
  LET lru == ListFrom(c, c.lru_head) IN CHOOSE i \in DOMAIN lru : c.key[lru[i]] = k

NewerOf(c) ==
  { p \in (DOMAIN c.table) \X (DOMAIN c.table) : PositionIn(c, p[1]) < PositionIn(c, p[2]) }

\* It is the order of the keys in the LRU list.
LEMMA NewerIs ==
  ASSUME NEW c, NEW n, NEW s, NEW m, NEW f, NEW l, Represents(c, n, s, m, f, l)
  PROVE  /\ NewerOf(c) = OrderOf(KeysOf(c, s, m), m)
         /\ Enumerates(KeysOf(c, s, m), m, DOMAIN c.table) /\ m \in Nat
<1> DEFINE ks == KeysOf(c, s, m)
           K == DOMAIN c.table
<1>0. n \in Nat /\ m \in Nat /\ l \in Nat /\ Lists(c, n, s, m, f, l)
  BY DEF Represents
<1>1. c \in CacheOf(n) /\ Listing(s, m, n) /\ Indexed(c, n, s, m)
  BY <1>0 DEF Lists
<1>2. Enumerates(ks, m, K)
  BY <1>0, <1>1, KeysListed
<1>3. ListFrom(c, c.lru_head) = s
  BY <1>0, ListsAre
<1>4. DOMAIN s = 1..m
  BY <1>1 DEF Listing
<1>5. \A i \in 1..m : ks[i] = c.key[s[i]]
  BY DEF KeysOf
<1>6. \A k : PositionIn(c, k) = CHOOSE i \in 1..m : c.key[s[i]] = k
  BY <1>3, <1>4 DEF PositionIn
<1> HIDE DEF ks, K
<1>7. /\ ks \in [ 1..m -> K ] /\ (\A i, j \in 1..m : ks[i] = ks[j] => i = j)
      /\ \A x \in K : Among(x, ks, m)
  BY <1>2 DEF Enumerates
<1>8. ASSUME NEW i \in 1..m PROVE PositionIn(c, ks[i]) = i
  <2>1. PositionIn(c, ks[i]) = CHOOSE j \in 1..m : c.key[s[j]] = ks[i]
    BY <1>6
  <2>2. \A j \in 1..m : c.key[s[j]] = ks[i] <=> j = i
    BY <1>5, <1>7
  <2>3. (CHOOSE j \in 1..m : c.key[s[j]] = ks[i]) = i
    BY <2>2
  <2> QED BY <2>1, <2>3
<1>9. ASSUME NEW p \in NewerOf(c) PROVE p \in OrderOf(ks, m)
  <2>1. /\ p \in K \X K /\ PositionIn(c, p[1]) < PositionIn(c, p[2])
    BY DEF NewerOf, K
  <2>2. PICK i \in 1..m, j \in 1..m : ks[i] = p[1] /\ ks[j] = p[2]
    BY <2>1, <1>7 DEF Among
  <2>3. i < j
    BY <2>1, <2>2, <1>8
  <2>4. p = <<ks[i], ks[j]>>
    BY <2>1, <2>2
  <2> QED BY <2>3, <2>4, <1>0, OrderPairs
<1>10. ASSUME NEW p \in OrderOf(ks, m) PROVE p \in NewerOf(c)
  <2>1. PICK i \in 1..m, j \in 1..m : i < j /\ p = <<ks[i], ks[j]>>
    BY <1>0, OrderPairs
  <2>2. p \in K \X K /\ p[1] = ks[i] /\ p[2] = ks[j]
    BY <2>1, <1>7
  <2>3. PositionIn(c, p[1]) = i /\ PositionIn(c, p[2]) = j
    BY <2>2, <1>8
  <2> QED BY <2>1, <2>2, <2>3 DEF NewerOf, K
<1>11. NewerOf(c) = OrderOf(ks, m)
  BY <1>9, <1>10
<1> QED BY <1>0, <1>2, <1>11 DEF ks, K

\* An order on the listed keys: it relates keys only, and the last is its tail.
LEMMA OrderTail ==
  ASSUME NEW m \in Nat, NEW ks, NEW K, Enumerates(ks, m, K)
  PROVE  /\ OrderOf(ks, m) \subseteq K \X K
         /\ m # 0 => { t \in K : \A x \in K \ {t} : <<x, t>> \in OrderOf(ks, m) } = {ks[m]}
<1>0. /\ ks \in [ 1..m -> K ] /\ (\A i, j \in 1..m : ks[i] = ks[j] => i = j)
      /\ \A x \in K : Among(x, ks, m)
  BY DEF Enumerates
<1>1. OrderOf(ks, m) \subseteq K \X K
  BY <1>0, OrderPairs
<1>2. ASSUME m # 0
      PROVE  { t \in K : \A x \in K \ {t} : <<x, t>> \in OrderOf(ks, m) } = {ks[m]}
  <2>0. m \in 1..m
    BY <1>2
  <2>1. ASSUME NEW x \in K \ {ks[m]} PROVE <<x, ks[m]>> \in OrderOf(ks, m)
    <3>1. PICK i \in 1..m : ks[i] = x
      BY <1>0 DEF Among
    <3>2. i < m
      BY <3>1
    <3> QED BY <3>1, <3>2, <2>0, OrderPairs
  <2>2. ASSUME NEW t \in K, \A x \in K \ {t} : <<x, t>> \in OrderOf(ks, m) PROVE t = ks[m]
    <3> SUFFICES ASSUME t # ks[m] PROVE FALSE
      OBVIOUS
    <3>1. PICK i \in 1..m : ks[i] = t
      BY <1>0 DEF Among
    <3>2. <<ks[m], ks[i]>> \in OrderOf(ks, m)
      BY <1>0, <2>0, <2>2, <3>1
    <3>3. m < i
      BY <2>0, <3>2, OrderRead
    <3> QED BY <3>3
  <2>3. ks[m] \in K
    BY <1>0, <2>0
  <2> QED BY <2>1, <2>2, <2>3
<1> QED BY <1>1, <1>2

\* The abstract insertion, for what a concrete one does to the keys K.
LEMMA RoomAgrees ==
  ASSUME NEW K, NEW R, NEW E, NEW k, NEW order, order \subseteq K \X K,
         \/ k \in K /\ R = {k} /\ E = {}
         \/ k \notin K /\ R = {} /\ E = {}
         \/ k \notin K /\ R = E
  PROVE  /\ (K \ E) \cup {k} = (K \ R) \cup {k}
         /\ ((K \ E) \cup {k}) \ {k} = (K \ R)
         /\ Dropped(Dropped(order, E), {k}) = Dropped(order, R)
<1>1. (K \ E) \cup {k} = (K \ R) \cup {k}
  OBVIOUS
<1>2. ((K \ E) \cup {k}) \ {k} = (K \ R)
  OBVIOUS
<1>3. \A p \in order : p[1] \in K /\ p[2] \in K
  OBVIOUS
<1>4. Dropped(Dropped(order, E), {k}) = Dropped(order, R)
  BY <1>3 DEF Dropped
<1> QED BY <1>1, <1>2, <1>4

\* Which key the abstract map evicts for k.
EvictedFor(k, K, order) ==
  IF Cardinality(K \ {k}) < MaxElements THEN {}
  ELSE { t \in K : t \in K /\ \A x \in K \ {t} : <<x, t>> \in order }

\* The one that the cache evicts.
LEMMA EvictedAgrees ==
  ASSUME FullCapacity(MaxElements) = MaxElements,
         NEW c, NEW n, NEW s, NEW m, NEW f, NEW l, Represents(c, n, s, m, f, l),
         NEW d, NEW all, NEW t, NEW mt, NEW g, NEW lg, Represents(d, all, t, mt, g, lg),
         NEW k, NEW R, Room(c, k, n, KeysOf(c, s, m), m, all, R)
  PROVE  LET K == DOMAIN c.table
             order == OrderOf(KeysOf(c, s, m), m)
             E == EvictedFor(k, K, order)
         IN  /\ order \subseteq K \X K
             /\ \/ k \in K /\ R = {k} /\ E = {}
                \/ k \notin K /\ R = {} /\ E = {}
                \/ k \notin K /\ R = E
<1> DEFINE K == DOMAIN c.table
           ks == KeysOf(c, s, m)
           order == OrderOf(ks, m)
           E == EvictedFor(k, K, order)
<1>0. n \in Nat /\ m \in Nat /\ l \in Nat /\ Lists(c, n, s, m, f, l) /\ Grown(c, n)
      /\ all \in Nat /\ Grown(d, all)
  BY DEF Represents
<1>1. Enumerates(ks, m, K)
  BY NewerIs
<1>2. n <= MaxElements /\ all <= MaxElements /\ MaxElements \in Nat
  BY <1>0, FullIsLast, SizesAssumption DEF Grown
<1>3. m + l = n
  BY <1>0, ListsAre
<1>4. \/ k \in K /\ R = {k}
      \/ k \notin K /\ R = {} /\ m < all
      \/ k \notin K /\ m = n /\ Full(n) /\ R = {ks[m]}
  BY DEF Room
<1> HIDE DEF ks, K
<1>5. IsFiniteSet(K) /\ Cardinality(K) = m
  BY <1>0, <1>1, CountListed
<1>6. order \subseteq K \X K /\ (m # 0 =>
        { x \in K : \A y \in K \ {x} : <<y, x>> \in order } = {ks[m]})
  BY <1>0, <1>1, OrderTail
<1>7. Cardinality(K \ {k}) = IF k \in K THEN m - 1 ELSE m
  BY <1>5, FS_RemoveElement
<1> HIDE DEF order
<1>8. CASE k \in K /\ R = {k}
  <2>1. Cardinality(K \ {k}) < MaxElements
    BY <1>8, <1>0, <1>2, <1>3, <1>7
  <2> QED BY <1>6, <1>8, <2>1 DEF EvictedFor, order, K, ks
<1>9. CASE k \notin K /\ R = {} /\ m < all
  <2>1. Cardinality(K \ {k}) < MaxElements
    BY <1>9, <1>0, <1>2, <1>7
  <2> QED BY <1>6, <1>9, <2>1 DEF EvictedFor, order, K, ks
<1>10. CASE k \notin K /\ m = n /\ Full(n) /\ R = {ks[m]}
  <2>1. m # 0 /\ m = MaxElements
    BY <1>10 DEF Full
  <2>2. ~ (Cardinality(K \ {k}) < MaxElements)
    BY <1>10, <1>0, <2>1, <1>7
  <2>3. E = { x \in K : \A y \in K \ {x} : <<y, x>> \in order }
    BY <2>2 DEF EvictedFor
  <2>4. R = E
    BY <1>6, <1>10, <2>1, <2>3
  <2> QED BY <1>6, <1>10, <2>4 DEF order, K, ks
<1> QED BY <1>4, <1>8, <1>9, <1>10

\* The refinement mapping in the terms of the lemmas.
LEMMA Mapping ==
  /\ [ k \in DOMAIN cache.table |-> cache.value[cache.table[k]] ] = ValuesOf(cache)
  /\ { p \in (DOMAIN cache.table) \X (DOMAIN cache.table) :
         Position(p[1]) < Position(p[2]) } = NewerOf(cache)
BY DEF ValuesOf, NewerOf, Position, PositionIn, LruList

\* Likewise after a step.
LEMMA MappingAfter ==
  /\ [ k \in DOMAIN cache.table |-> cache.value[cache.table[k]] ]' = ValuesOf(cache')
  /\ { p \in (DOMAIN cache.table) \X (DOMAIN cache.table) :
         Position(p[1]) < Position(p[2]) }' = NewerOf(cache')
BY DEF ValuesOf, NewerOf, Position, PositionIn, LruList

\* An insertion is one of the map.
LEMMA InsertImplements ==
  ASSUME FullCapacity(MaxElements) = MaxElements, IInv,
         NEW k \in Key, NEW v \in Value, Insert(k, v)
  PROVE  Map!Insert(k, v)
<1> DEFINE c == cache
           d == cache'
           K == DOMAIN c.table
           order == NewerOf(c)
           E == EvictedFor(k, K, order)
<1>1. PICK n, s, m, f, l : Represents(c, n, s, m, f, l)
  BY DEF IInv, Represented
<1>2. PICK all, t, mt, g, lg, R :
        Inserts(k, v, n, s, m, all, t, mt, g, lg, R)
  BY <1>1, InsertStep
<1>3. order = OrderOf(KeysOf(c, s, m), m) /\ NewerOf(d) = OrderOf(KeysOf(d, t, mt), mt)
  BY <1>1, <1>2, NewerIs DEF Inserts
<1>4. /\ order \subseteq K \X K
      /\ \/ k \in K /\ R = {k} /\ E = {}
         \/ k \notin K /\ R = {} /\ E = {}
         \/ k \notin K /\ R = E
  BY <1>1, <1>2, <1>3, EvictedAgrees DEF Inserts
<1>5. /\ NewerOf(d) = Dropped(order, R) \cup ({k} \X (K \ R))
      /\ ValuesOf(d) = [ i \in (K \ R) \cup {k} |-> IF i = k THEN v ELSE ValuesOf(c)[i] ]
  BY <1>2, <1>3 DEF Inserts
<1> HIDE DEF order, E, d, K
<1>6. /\ (K \ E) \cup {k} = (K \ R) \cup {k}
      /\ ((K \ E) \cup {k}) \ {k} = (K \ R)
      /\ Dropped(Dropped(order, E), {k}) = Dropped(order, R)
  BY <1>4, RoomAgrees
<1> DEFINE val == ValuesOf(c)
<1>7. DOMAIN val = K
  BY DEF ValuesOf, K
<1>8. Map!Evicted(k) = E
  <2>1. Map!Cardinality(K \ {k}) = Cardinality(K \ {k})
    BY DEF Map!Cardinality, Cardinality
  <2>2. Map!keys = K
    BY <1>7, Mapping DEF Map!keys
  <2>3. Map!Evicted(k) = IF Map!Cardinality(K \ {k}) < MaxElements THEN {}
                         ELSE { x \in K : Map!IsLRUTail(order, K, x) }
    BY <2>2, Mapping DEF Map!Evicted, order
  <2>4. \A x : Map!IsLRUTail(order, K, x) <=>
                 x \in K /\ \A y \in K \ {x} : <<y, x>> \in order
    BY DEF Map!IsLRUTail
  <2> QED BY <2>1, <2>3, <2>4 DEF E, EvictedFor
<1> QED
  BY <1>5, <1>6, <1>7, <1>8, Mapping, MappingAfter
  DEF Map!Insert, Map!keys, Map!PushLRUHead, Map!RemoveFromLRU, Dropped, order, K, d

\* A look-up is one of the map.
LEMMA LookupImplements ==
  ASSUME IInv, NEW k \in Key, Lookup(k)
  PROVE  Map!Lookup(k)
<1> DEFINE c == cache
           d == cache'
           K == DOMAIN c.table
           order == NewerOf(c)
<1>1. PICK n, s, m, f, l : Represents(c, n, s, m, f, l)
  BY DEF IInv, Represented
<1>2. PICK t : /\ Represents(d, n, t, m, f, l)
               /\ Moves(d, t, c, s, m, k) /\ k \in DOMAIN c.table
  BY <1>1, LookupStep
<1>3. order = OrderOf(KeysOf(c, s, m), m) /\ NewerOf(d) = OrderOf(KeysOf(d, t, m), m)
  BY <1>1, <1>2, NewerIs
<1>4. /\ NewerOf(d) = Dropped(order, {k}) \cup ({k} \X (K \ {k}))
      /\ ValuesOf(d) = ValuesOf(c) /\ k \in K
  BY <1>2, <1>3 DEF Moves
<1> HIDE DEF order, d, K
<1>5. DOMAIN ValuesOf(c) = K
  BY DEF ValuesOf, K
<1> QED
  BY <1>4, <1>5, Mapping, MappingAfter
  DEF Map!Lookup, Map!keys, Map!PushLRUHead, Map!RemoveFromLRU, Dropped, order, d

\* An erasure is one of the map.
LEMMA EraseImplements ==
  ASSUME IInv, NEW k \in Key, Erase(k)
  PROVE  Map!Erase(k)
<1> DEFINE c == cache
           d == cache'
           K == DOMAIN c.table
           order == NewerOf(c)
<1>1. PICK n, s, m, f, l : Represents(c, n, s, m, f, l)
  BY DEF IInv, Represented
<1>2. PICK t, mt, g, lg : /\ Represents(d, n, t, mt, g, lg)
                          /\ \/ k \in K /\ Loses(d, t, mt, c, s, m, {k})
                             \/ k \notin K /\ d = c
  BY <1>1, EraseStep
<1>3. order = OrderOf(KeysOf(c, s, m), m) /\ NewerOf(d) = OrderOf(KeysOf(d, t, mt), mt)
  BY <1>1, <1>2, NewerIs
<1>4. order \subseteq K \X K
  BY <1>1, <1>3, NewerIs, OrderTail
<1>5. DOMAIN ValuesOf(c) = K /\ ValuesOf(c) = [ i \in K |-> ValuesOf(c)[i] ]
  BY DEF ValuesOf
<1>6. /\ NewerOf(d) = Dropped(order, {k})
      /\ ValuesOf(d) = [ i \in K \ {k} |-> ValuesOf(c)[i] ]
  <2>1. CASE k \in K /\ Loses(d, t, mt, c, s, m, {k})
    BY <2>1, <1>3 DEF Loses
  <2>2. CASE k \notin K /\ d = c
    <3> HIDE DEF d, c
    <3>1. NewerOf(d) = order /\ ValuesOf(d) = ValuesOf(c) /\ K \ {k} = K
      BY <2>2
    <3>2. Dropped(order, {k}) = order
      <4> HIDE DEF order, K
      <4>1. \A p \in order : p[1] # k /\ p[2] # k
        BY <1>4, <2>2
      <4> QED BY <4>1 DEF Dropped
    <3> QED BY <3>1, <3>2, <1>5
  <2> QED BY <1>2, <2>1, <2>2
<1> HIDE DEF order, d, K
<1> QED
  BY <1>5, <1>6, Mapping, MappingAfter
  DEF Map!Erase, Map!keys, Map!RemoveFromLRU, Dropped, order, d

\* Clear is that of the map.
LEMMA ClearImplements ==
  ASSUME IInv, Clear
  PROVE  Map!Clear
<1> DEFINE c == cache
           d == cache'
<1>1. PICK n, s, m, f, l : Represents(c, n, s, m, f, l)
  BY DEF IInv, Represented
<1>2. DOMAIN d.table = {}
  BY <1>1, ClearStep
<1> HIDE DEF d
<1>3. ValuesOf(d) = [ k \in {} |-> k ] /\ NewerOf(d) = {}
  BY <1>2 DEF ValuesOf, NewerOf
<1> QED BY <1>3, MappingAfter DEF Map!Clear, d

-----------------------------------------------------------------------------
(***************************************************************************)
(* The blocks add up to the capacity.                                      *)
(***************************************************************************)

\* A cache that one block holds, as the constructor sizes it up to 128 elements,
\* reaches its capacity.
THEOREM SingleBlockReachesCapacity ==
  ASSUME MaxElements <= SingleBlock
  PROVE  FullCapacity(MaxElements) = MaxElements
<1> DEFINE b == Blocks(MaxElements)
           B == { i \in 1..MaxBlocks : b[i].capacity = MaxElements }
<1>0. MaxBlocks \in Nat /\ MaxBlocks > 0 /\ MaxElements \in Nat /\ MaxElements > 0
  BY SizesAssumption
<1>1. b[0].size = MaxElements /\ b[0].capacity = 0
  BY BlocksRounds DEF FirstBlockSize
<1>2. /\ \A n \in 1..MaxBlocks : b[n - 1].capacity >= MaxElements => b[n] = b[n - 1]
      /\ \A n \in 1..MaxBlocks : ~ (b[n - 1].capacity >= MaxElements) =>
           b[n].capacity = b[n - 1].capacity + b[n - 1].size
  BY BlocksRounds
<1> HIDE DEF b
<1>3. 1 \in B
  <2>1. 1 \in 1..MaxBlocks /\ 1 - 1 = 0 /\ ~ (b[0].capacity >= MaxElements)
    BY <1>0, <1>1
  <2>2. b[1].capacity = b[0].capacity + b[0].size
    BY <2>1, <1>2
  <2> QED BY <2>1, <2>2, <1>0, <1>1
<1>4. ASSUME NEW i \in (1 + 1)..MaxBlocks, i - 1 \in B PROVE i \in B
  <2>1. i \in 1..MaxBlocks /\ b[i - 1].capacity >= MaxElements
    BY <1>0, <1>4
  <2>2. b[i] = b[i - 1]
    BY <2>1, <1>2
  <2> QED BY <2>1, <2>2, <1>4
<1>5. MaxBlocks \in B
  <2>1. 1 \in Int /\ MaxBlocks \in Int /\ MaxBlocks \in 1..MaxBlocks
    BY <1>0
  <2> HIDE DEF B
  <2> QED BY <2>1, <1>3, <1>4, IntervalInduction
<1> QED BY <1>5 DEF FullCapacity, b

\* 2^k - 1 for each k, as far as the blocks go: what k blocks hold together if
\* the first has one element and each is twice as large as the one before.
IsDoubling(w) ==
  /\ w \in [ 0..MaxBlocks -> Nat ]
  /\ w[0] = 0
  /\ \A k \in 1..MaxBlocks : w[k] = 2 * w[k - 1] + 1

\* Growth by doubling beats growth by two.
LEMMA DoublingBound ==
  ASSUME NEW w, IsDoubling(w)
  PROVE  \A k \in 1..MaxBlocks : w[k] >= 2 * k - 1
<1> DEFINE B == { k \in 1..MaxBlocks : w[k] >= 2 * k - 1 }
<1>0. MaxBlocks \in Nat /\ MaxBlocks > 0
  BY SizesAssumption
<1>1. 1 \in B
  <2>1. 1 \in 1..MaxBlocks /\ 1 - 1 = 0
    BY <1>0
  <2>2. w[1] = 2 * w[0] + 1 /\ w[0] = 0
    BY <2>1 DEF IsDoubling
  <2> QED BY <2>1, <2>2
<1>2. \A k \in (1 + 1)..MaxBlocks : k - 1 \in B => k \in B
  <2> SUFFICES ASSUME NEW k \in (1 + 1)..MaxBlocks, k - 1 \in B PROVE k \in B
    OBVIOUS
  <2>1. k \in 1..MaxBlocks /\ k - 1 \in 0..MaxBlocks /\ k >= 2
    BY <1>0
  <2>2. w[k] = 2 * w[k - 1] + 1 /\ w[k - 1] \in Nat /\ w[k - 1] >= 2 * (k - 1) - 1
    BY <2>1 DEF IsDoubling
  <2>3. w[k] >= 2 * k - 1
    BY <2>1, <2>2
  <2> QED BY <2>1, <2>3
<1>3. \A k \in 1..MaxBlocks : k \in B
  <2> HIDE DEF B
  <2> QED BY <1>0, <1>1, <1>2, IntervalInduction
<1> QED BY <1>3

\* A product with a larger factor is larger.
LEMMA Monotone ==
  ASSUME NEW a \in Nat, NEW b \in Int, NEW c \in Int, b <= c
  PROVE  a * b <= a * c
OBVIOUS

\* k blocks are left and rem elements are missing: if blocks that double from this
\* size on can hold them, so can the ones after the next, and none is empty.
LEMMA NextBlockHolds ==
  ASSUME NEW w, IsDoubling(w), NEW size \in Nat \ {0}, NEW rem \in Nat,
         NEW k \in 1..MaxBlocks, size <= rem,
         size * w[k] >= rem, rem - size >= k - 1
  PROVE  /\ k = 1 => rem = size
         /\ k > 1 =>
              LET next == Least(Least(size * 2, (rem - size) \div (k - 1)), rem - size)
              IN  /\ next \in Nat \ {0}
                  /\ next * (k - 1) <= rem - size
                  /\ next * w[k - 1] >= rem - size
<1>0. MaxBlocks \in Nat /\ MaxBlocks > 0
  BY SizesAssumption
<1>1. k - 1 \in 0..MaxBlocks /\ w[k] = 2 * w[k - 1] + 1 /\ w[k] \in Nat /\ w[k - 1] \in Nat
  BY <1>0 DEF IsDoubling
<1>2. CASE k = 1
  <2>1. w[k] = 1
    BY <1>1, <1>2 DEF IsDoubling
  <2> QED BY <1>2, <2>1
<1>3. CASE k > 1
  <2> DEFINE r == rem - size
             q == r \div (k - 1)
             v == w[k - 1]
             next == Least(Least(size * 2, q), r)
  <2>1. k - 1 \in Nat \ {0} /\ r \in Nat /\ r >= k - 1 /\ v \in Nat
    BY <1>1, <1>3
  <2>2. q \in Nat /\ q * (k - 1) <= r /\ r < (q + 1) * (k - 1)
    BY <2>1
  <2>3. q >= 1
    BY <2>1, <2>2
  <2>4. v >= 2 * (k - 1) - 1 /\ v >= 1
    <3>1. k - 1 \in 1..MaxBlocks
      BY <1>0, <1>3
    <3> QED BY <3>1, <2>1, DoublingBound
  <2>5. size * 2 * v >= r
    <3>1. size * w[k] = size * (2 * v + 1)
      BY <1>1
    <3> QED BY <3>1, <2>1
  <2>6. q * v >= r
    <3>1. q * v >= q * (2 * (k - 1) - 1)
      BY <2>1, <2>2, <2>4, Monotone
    <3>2. q * (2 * (k - 1) - 1) = q * (k - 1) + q * (k - 2)
      BY <2>2
    <3>3. q * (k - 2) >= k - 2
      <4>1. (k - 2) * 1 <= (k - 2) * q
        BY <1>3, <2>2, <2>3, Monotone
      <4> QED BY <4>1, <2>2
    <3>4. r <= q * (k - 1) + (k - 2)
      BY <2>1, <2>2
    <3>5. q * v \in Int /\ q * (k - 1) \in Int /\ q * (k - 2) \in Int /\ k \in Int
      BY <2>1, <2>2
    <3> DEFINE x == q * v
               y == q * (k - 1)
               z == q * (k - 2)
    <3>6. x >= y + z /\ z >= k - 2 /\ r <= y + (k - 2)
      BY <3>1, <3>2, <3>3, <3>4
    <3>7. x \in Int /\ y \in Int /\ z \in Int /\ k \in Int /\ r \in Int
      BY <3>5, <2>1
    <3>8. x >= r
      <4> HIDE DEF x, y, z, r
      <4> QED BY <3>6, <3>7
    <3> QED BY <3>8
  <2>7. r * v >= r
    BY <2>1, <2>4, Monotone
  <2>8. next \in {size * 2, q, r} /\ next <= q
    BY <2>1, <2>2 DEF Least
  <2>9. next \in Nat \ {0}
    BY <2>8, <2>1, <2>2, <2>3
  <2>10. next * (k - 1) <= r
    <3>1. (k - 1) * next <= (k - 1) * q
      BY <2>1, <2>2, <2>8, <2>9, Monotone
    <3>2. (k - 1) * next = next * (k - 1) /\ (k - 1) * q = q * (k - 1)
      <4> HIDE DEF next, q
      <4> QED BY <2>1, <2>2, <2>9
    <3>3. next * (k - 1) <= q * (k - 1)
      BY <3>1, <3>2
    <3>4. next * (k - 1) \in Int /\ q * (k - 1) \in Int /\ r \in Int
      <4> HIDE DEF next, q, r
      <4> QED BY <2>1, <2>2, <2>9
    <3> HIDE DEF next, q, r
    <3> QED BY <3>3, <3>4, <2>2
  <2>11. next * v >= r
    BY <2>5, <2>6, <2>7, <2>8
  <2> QED BY <1>3, <2>9, <2>10, <2>11
<1> QED BY <1>2, <1>3

\* Blocks that hold the elements if each is twice as large as the one before hold
\* exactly as many when AddBlock has cut them down.
LEMMA BlocksReachCapacity ==
  ASSUME NEW w, IsDoubling(w),
         MaxElements <= FirstBlockSize(MaxElements) * w[MaxBlocks],
         MaxElements - FirstBlockSize(MaxElements) >= MaxBlocks - 1
  PROVE  FullCapacity(MaxElements) = MaxElements
<1> DEFINE b == Blocks(MaxElements)
           M == MaxElements
           N == MaxBlocks
           f == FirstBlockSize(M)
           Left(n) == M - b[n].capacity
           Holds(n) == /\ b[n].size \in Nat \ {0} /\ b[n].size <= Left(n)
                       /\ Left(n) - b[n].size >= N - n - 1
                       /\ b[n].size * w[N - n] >= Left(n)
           Good(n) == IF n = N THEN b[n].capacity = M ELSE Holds(n)
           B == { n \in 0..N : Good(n) }
<1>0. N \in Nat /\ N > 0 /\ M \in Nat /\ M > 0 /\ f \in Nat \ {0}
  BY SizesAssumption, FirstBlockType
<1>1. b[0].size = f /\ b[0].capacity = 0
  BY BlocksRounds
<1>2. 0 \in B
  <2> HIDE DEF b, f
  <2>1. Left(0) = M /\ N - 0 = N /\ N - 0 - 1 = N - 1
    BY <1>0, <1>1
  <2>2. f <= M /\ M - f >= N - 1 /\ f * w[N] >= M
    <3>1. f * w[N] \in Int
      BY <1>0 DEF IsDoubling
    <3> QED BY <1>0, <3>1 DEF f
  <2>3. Holds(0)
    BY <1>0, <1>1, <2>1, <2>2
  <2> QED BY <2>3, <1>0
<1>3. \A n \in (0 + 1)..N : n - 1 \in B => n \in B
  <2> SUFFICES ASSUME NEW n \in (0 + 1)..N, n - 1 \in B PROVE n \in B
    OBVIOUS
  <2> DEFINE k == N - (n - 1)
             size == b[n - 1].size
             rem == Left(n - 1)
             all == b[n - 1].capacity + size
             next == Least(Least(size * 2, (rem - size) \div (k - 1)), rem - size)
  <2>1. n \in 1..N /\ n \in 0..N /\ n - 1 \in 0..N /\ n - 1 # N /\ k \in 1..N
    BY <1>0
  <2>2. Holds(n - 1) /\ k - 1 = N - n /\ N - (n - 1) - 1 = k - 1
    BY <2>1, <1>0
  <2>3. b[n - 1] \in BlockRecord
    BY <2>1, BlocksRounds
  <2>4. b[n - 1].capacity \in Int
    BY <2>3 DEF BlockRecord
  <2>5. /\ size \in Nat \ {0} /\ rem \in Nat /\ size <= rem
        /\ rem - size >= k - 1 /\ size * w[k] >= rem
    <3> HIDE DEF b
    <3> QED BY <1>0, <2>2, <2>4
  <2>6. ~ (b[n - 1].capacity >= M)
    <3> HIDE DEF b
    <3> QED BY <1>0, <2>4, <2>5
  <2>7. b[n].capacity = all /\ b[n].size = NextBlockSize(size, n, all, M)
    BY <2>1, <2>6, BlocksRounds
  <2> HIDE DEF b
  <2>8. all \in Int /\ M - all = rem - size /\ Left(n) = rem - size
    BY <1>0, <2>4, <2>5, <2>7
  <2>9. /\ k = 1 => rem = size
        /\ k > 1 => /\ next \in Nat \ {0}
                    /\ next * (k - 1) <= rem - size
                    /\ next * w[k - 1] >= rem - size
    <3> HIDE DEF k, size, rem
    <3> QED BY <2>1, <2>5, NextBlockHolds
  <2>10. CASE k = 1
    <3>1. n = N
      BY <2>10, <2>1, <1>0
    <3>2. b[n].capacity = M
      BY <1>0, <2>10, <2>7, <2>8, <2>9
    <3> QED BY <3>1, <3>2, <2>1
  <2>11. CASE k > 1
    <3>1. n # N /\ N - n # 0
      BY <2>11, <2>1, <1>0
    <3>2. NextBlockSize(size, n, all, M) = next
      <4>1. N - n # 0 /\ N - n = k - 1 /\ M - all = rem - size
        BY <3>1, <2>2, <2>8
      <4> HIDE DEF size, rem, all, k
      <4> QED BY <4>1 DEF NextBlockSize
    <3>3. b[n].size = next
      BY <3>2, <2>7
    <3>4. /\ next \in Nat \ {0} /\ next * (k - 1) <= rem - size
          /\ next * w[N - n] >= rem - size /\ k - 1 \in Nat \ {0}
      BY <2>9, <2>11, <2>2, <2>1, <1>0
    <3>5. next <= rem - size /\ (rem - size) - next >= N - n - 1
      <4> HIDE DEF next, rem, size, k
      <4>1. (k - 2) * 1 <= (k - 2) * next
        BY <3>4, <2>11, <2>1, Monotone
      <4>2. next * (k - 1) = next + (k - 2) * next
        BY <3>4, <2>1, <1>0
      <4> DEFINE x == next * (k - 1)
                 y == (k - 2) * next
      <4>3. x \in Int /\ y \in Int /\ x = next + y /\ k - 2 <= y /\ k - 2 >= 0 /\ x <= rem - size
        BY <3>4, <4>1, <4>2, <2>11, <2>1, <1>0
      <4> HIDE DEF x, y
      <4> QED BY <4>3, <3>4, <2>1, <2>2, <2>5, <1>0
    <3>6. Holds(n)
      <4> HIDE DEF next, rem, size, k
      <4> QED BY <2>8, <3>3, <3>4, <3>5
    <3> QED BY <3>1, <3>6, <2>1
  <2> QED BY <2>1, <2>10, <2>11
<1>4. N \in B
  <2>1. 0 \in Int /\ N \in Int /\ N \in 0..N
    BY <1>0
  <2> HIDE DEF B, N
  <2> QED BY <2>1, <1>2, <1>3, IntervalInduction
<1> QED BY <1>4 DEF FullCapacity

\* With the constants of lru_cache.h the blocks of a cache of up to 65472 elements
\* add up to exactly max_elements, however AddBlock cuts them down: no block is left
\* without elements before the cache is full.
THEOREM CodeReachesCapacity ==
  ASSUME MaxBlocks = 10, SingleBlock = 128, FirstBlock = 64, MaxElements <= 65472
  PROVE  FullCapacity(MaxElements) = MaxElements
<1>1. CASE MaxElements <= SingleBlock
  BY <1>1, SingleBlockReachesCapacity
<1>2. CASE MaxElements > SingleBlock
  <2> DEFINE t == <<0, 1, 3, 7, 15, 31, 63, 127, 255, 511, 1023>>
             w == [ k \in 0..10 |-> t[k + 1] ]
  <2>1. 2 ^ 10 = 1024
    OBVIOUS
  <2>2. FirstBlockSize(MaxElements) = 64
    BY <1>2, <2>1, FirstBlockType, SizesAssumption
  <2>3. IsDoubling(w)
    <3>1. /\ t[1] = 0 /\ t[2] = 1 /\ t[3] = 3 /\ t[4] = 7 /\ t[5] = 15 /\ t[6] = 31
          /\ t[7] = 63 /\ t[8] = 127 /\ t[9] = 255 /\ t[10] = 511 /\ t[11] = 1023
      OBVIOUS
    <3> HIDE DEF t
    <3>2. \A k \in 0..10 : t[k + 1] \in Nat
      BY <3>1
    <3>3. \A k \in 1..10 : t[k + 1] = 2 * t[k] + 1
      BY <3>1
    <3>4. w \in [ 0..10 -> Nat ] /\ w[0] = 0
      BY <3>1, <3>2
    <3>5. \A k \in 1..10 : w[k] = 2 * w[k - 1] + 1
      BY <3>3
    <3> QED BY <3>4, <3>5 DEF IsDoubling
  <2>4. w[10] = 1023
    OBVIOUS
  <2> HIDE DEF w
  <2> QED BY <1>2, <2>2, <2>3, <2>4, BlocksReachCapacity, SizesAssumption
<1> QED BY <1>1, <1>2, SizesAssumption

-----------------------------------------------------------------------------
(***************************************************************************)
(* The theorem.                                                            *)
(***************************************************************************)

\* The pointers of lru_cache.h implement the map for every set of keys and
\* values, of every capacity that its blocks add up to: through every sequence of
\* insertions, look-ups, erasures and clears a look-up finds the value last
\* inserted, and the key evicted is the one used least recently.
THEOREM CacheImplementsMap ==
  ASSUME FullCapacity(MaxElements) = MaxElements
  PROVE  Spec => ImplementsLruMap
<1>1. Init => Map!Init
  <2> SUFFICES ASSUME Init PROVE Map!Init
    OBVIOUS
  <2>1. DOMAIN cache.table = {}
    <3> DEFINE table == NewCache.table
    <3>1. table = NoKeys
      BY DEF NewCache, NoKeys
    <3> HIDE DEF table
    <3> QED BY <3>1 DEF Init, NoKeys, table
  <2>2. ValuesOf(cache) = [ k \in {} |-> k ] /\ NewerOf(cache) = {}
    BY <2>1 DEF ValuesOf, NewerOf
  <2> QED BY <2>2, Mapping DEF Map!Init
<1> DEFINE view == << [ k \in DOMAIN cache.table |-> cache.value[cache.table[k]] ],
                      { p \in (DOMAIN cache.table) \X (DOMAIN cache.table) :
                          Position(p[1]) < Position(p[2]) } >>
<1>2. ASSUME IInv, [Next]_vars PROVE [Map!Next]_view
  <2>1. ASSUME NEW k \in Key, NEW v \in Value, Insert(k, v) PROVE Map!Next
    BY <1>2, <2>1, InsertImplements DEF Map!Next
  <2>2. ASSUME NEW k \in Key, Lookup(k) PROVE Map!Next
    BY <1>2, <2>2, LookupImplements DEF Map!Next
  <2>3. ASSUME NEW k \in Key, Erase(k) PROVE Map!Next
    BY <1>2, <2>3, EraseImplements DEF Map!Next
  <2>4. ASSUME Clear PROVE Map!Next
    BY <1>2, <2>4, ClearImplements DEF Map!Next
  <2>5. CASE UNCHANGED vars
    <3>1. ValuesOf(cache') = ValuesOf(cache) /\ NewerOf(cache') = NewerOf(cache)
      BY <2>5 DEF vars
    <3>2. UNCHANGED view
      BY <3>1, Mapping, MappingAfter
    <3> QED BY <3>2
  <2>6. CASE Next
    <3>1. \/ \E k \in Key, v \in Value : Insert(k, v)
          \/ \E k \in Key : Lookup(k)
          \/ \E k \in Key : Erase(k)
          \/ Clear
      BY <2>6, Zenon DEF Next
    <3>2. Map!Next
      BY <3>1, <2>1, <2>2, <2>3, <2>4, Zenon
    <3> QED BY <3>2
  <2> QED BY <1>2, <2>5, <2>6
<1> QED BY <1>1, <1>2, AlwaysRepresented, PTL DEF Spec, ImplementsLruMap, Map!Spec

\* With the constants of lru_cache.h, without any hypothesis on the blocks: a
\* cache of up to 65472 elements is a bounded LRU map.
THEOREM CodeImplementsMap ==
  ASSUME MaxBlocks = 10, SingleBlock = 128, FirstBlock = 64, MaxElements <= 65472
  PROVE  Spec => ImplementsLruMap
<1>1. FullCapacity(MaxElements) = MaxElements
  BY CodeReachesCapacity
<1> QED BY <1>1, CacheImplementsMap
=============================================================================
