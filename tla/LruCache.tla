------------------------------ MODULE LruCache ------------------------------
(***************************************************************************)
(* The LRU cache of storage/lru_cache.h, pointer by pointer.  Elements are *)
(* the numbers 1..capacity in the order in which the blocks provide them,  *)
(* 0 is nullptr.  Each method of the class is an operator from the state   *)
(* of the object (a record with the members) to its next state.  `checks'  *)
(* is FALSE once a CHECK of the code has failed.                           *)
(***************************************************************************)
EXTENDS Integers, Sequences, FiniteSets

CONSTANTS
    Key, Value,
    MaxElements,   \* max_elements_
    MaxBlocks,     \* the number of blocks_: 10 in the code
    SingleBlock,   \* up to this size one block holds all: 128 in the code
    FirstBlock     \* the least size of the first of several blocks: 64

ASSUME SizesAssumption ==
    /\ MaxElements \in Nat \ {0} /\ MaxBlocks \in Nat \ {0}
    /\ SingleBlock \in Nat \ {0} /\ FirstBlock \in Nat \ {0}

VARIABLE cache
vars == << cache >>

-----------------------------------------------------------------------------
(***************************************************************************)
(* The sizes of the blocks.                                                *)
(***************************************************************************)

SizeBits == 64   \* of a size_t: no loop can double one more often

\* The size of the first of several blocks after so many rounds of the loop.
Doubled(max_elements) ==
    LET size[round \in 0..SizeBits] ==
          IF round = 0 THEN FirstBlock
          ELSE LET last == size[round - 1]
               IN  IF last * 2 ^ MaxBlocks < max_elements THEN last * 2 ELSE last
    IN  size

\* next_block_size_ as the constructor sets it.
FirstBlockSize(max_elements) ==
    IF max_elements <= SingleBlock THEN max_elements
    ELSE Doubled(max_elements)[SizeBits]

Least(a, b) == IF a < b THEN a ELSE b

\* Mutant of NextBlockSize: counts the block just added among the remaining.
NextBlockSize_OneBlockMore(size, block_count, block_capacity, max_elements) ==
    LET blocks_remaining   == MaxBlocks - block_count + 1
        elements_remaining == max_elements - block_capacity
    IN  Least(Least(size * 2, elements_remaining \div blocks_remaining),
              elements_remaining)

\* next_block_size_ after a block of this size, number and total was added.
NextBlockSize(size, block_count, block_capacity, max_elements) ==
    LET blocks_remaining   == MaxBlocks - block_count
        elements_remaining == max_elements - block_capacity
    IN  IF blocks_remaining = 0 THEN size
        ELSE Least(Least(size * 2, elements_remaining \div blocks_remaining),
                   elements_remaining)

\* What up to n calls of AddBlock make of the capacity and the next size.
Blocks(max_elements) ==
    LET blocks[n \in 0..MaxBlocks] ==
          IF n = 0 THEN [ size |-> FirstBlockSize(max_elements), capacity |-> 0 ]
          ELSE LET b == blocks[n - 1]
                   all == b.capacity + b.size
               IN  IF b.capacity >= max_elements THEN b
                   ELSE [ size |-> NextBlockSize(b.size, n, all, max_elements),
                          capacity |-> all ]
    IN  blocks

\* How many elements a cache can ever have.
FullCapacity(max_elements) == Blocks(max_elements)[MaxBlocks].capacity

-----------------------------------------------------------------------------
(***************************************************************************)
(* The free list and the LRU list.                                         *)
(***************************************************************************)

\* The constructor.
NewCache ==
    [ table |-> [ k \in {} |-> 0 ], next |-> << >>, prev |-> << >>,
      key |-> << >>, value |-> << >>,
      free_list |-> 0, lru_head |-> 0, lru_tail |-> 0,
      block_count |-> 0, block_capacity |-> 0,
      next_block_size |-> FirstBlockSize(MaxElements), checks |-> TRUE ]

Check(s, condition) == [ s EXCEPT !.checks = @ /\ condition ]

AddBlock(s) ==
    IF s.block_count < MaxBlocks /\ s.block_capacity < MaxElements
    THEN LET old == s.block_capacity
             all == old + s.next_block_size
             grown(f) == [ e \in 1..all |-> IF e <= old THEN f[e] ELSE 0 ]
         IN  [ s EXCEPT
                 !.next = [ e \in 1..all |-> IF e <= old THEN s.next[e]
                                             ELSE IF e = old + 1 THEN s.free_list
                                             ELSE e - 1 ],
                 !.prev = grown(s.prev),
                 !.key = grown(s.key),
                 !.value = grown(s.value),
                 !.free_list = IF s.next_block_size = 0 THEN @ ELSE all,
                 !.block_count = @ + 1,
                 !.block_capacity = all,
                 !.next_block_size =
                    NextBlockSize(@, s.block_count + 1, all, MaxElements) ]
    ELSE s

\* Mutant of PushFreeList: the element keeps its pointer into the LRU list.
PushFreeList_KeepsPrev(s, e) == [ s EXCEPT !.next[e] = s.free_list, !.free_list = e ]

PushFreeList(s, e) ==
    [ s EXCEPT !.prev[e] = 0, !.next[e] = s.free_list, !.free_list = e ]

\* The element popped is s.free_list.
PopFreeList(s) ==
    LET r == s.free_list
        rest == s.next[r]
    IN  IF r = 0 THEN s
        ELSE [ Check(s, s.prev[r] = 0) EXCEPT
                 !.free_list = rest,
                 !.prev = IF rest = 0 THEN @ ELSE [ @ EXCEPT ![rest] = 0 ],
                 !.next[r] = 0 ]

\* Mutant of BeforePop: evicts before all blocks are allocated.
BeforePop_EvictsFirst(s) ==
    IF s.free_list = 0 /\ s.lru_tail = 0 THEN AddBlock(s) ELSE s

\* NextFreeElement: the state in which PopFreeList gets its element.
BeforePop(s) == IF s.free_list = 0 THEN AddBlock(s) ELSE s

\* Mutant of RemoveFromLRU: the tail is left behind.
RemoveFromLRU_KeepsTail(s, e) ==
    LET p == s.prev[e]
        n == s.next[e]
    IN  [ s EXCEPT
            !.lru_head = IF @ = e THEN n ELSE @,
            !.next = [ i \in DOMAIN @ |->
                         IF i = e THEN 0 ELSE IF i = p THEN n ELSE @[i] ],
            !.prev = [ i \in DOMAIN @ |->
                         IF i = e THEN 0 ELSE IF i = n THEN p ELSE @[i] ] ]

RemoveFromLRU(s, e) ==
    LET p == s.prev[e]
        n == s.next[e]
    IN  [ s EXCEPT
            !.lru_head = IF @ = e THEN n ELSE @,
            !.lru_tail = IF @ = e THEN p ELSE @,
            !.next = [ i \in DOMAIN @ |->
                         IF i = e THEN 0 ELSE IF i = p THEN n ELSE @[i] ],
            !.prev = [ i \in DOMAIN @ |->
                         IF i = e THEN 0 ELSE IF i = n THEN p ELSE @[i] ] ]

PushLRUHead(s, e) ==
    IF s.lru_head = e THEN s
    ELSE LET r == RemoveFromLRU(s, e)
             h == r.lru_head
         IN  [ r EXCEPT
                 !.next[e] = h,
                 !.lru_head = e,
                 !.prev = IF h = 0 THEN @ ELSE [ @ EXCEPT ![h] = e ],
                 !.lru_tail = IF @ = 0 THEN e ELSE @ ]

Evict(s, e) ==
    LET k == s.key[e]
        erased == [ Check(s, k \in DOMAIN s.table) EXCEPT
                      !.table = [ i \in DOMAIN @ \ {k} |-> @[i] ] ]
    IN  PushFreeList(RemoveFromLRU(erased, e), e)

-----------------------------------------------------------------------------
(***************************************************************************)
(* The public operations.                                                  *)
(***************************************************************************)

Insert(k, v) ==
    LET s0 == IF k \in DOMAIN cache.table THEN Evict(cache, cache.table[k]) ELSE cache
        s1 == BeforePop(s0)
        s2 == IF s1.free_list # 0 THEN s1
              ELSE BeforePop(Evict(Check(s1, s1.lru_tail # 0), s1.lru_tail))
        e  == s2.free_list
        s3 == [ PopFreeList(Check(s2, e # 0)) EXCEPT
                  !.key[e] = k, !.value[e] = v,
                  !.table = [ i \in DOMAIN @ \cup {k} |-> IF i = k THEN e ELSE @[i] ] ]
    IN  cache' = PushLRUHead(s3, e)

\* Lookup and MutableLookup.
Lookup(k) ==
    /\ k \in DOMAIN cache.table
    /\ cache' = PushLRUHead(cache, cache.table[k])

Erase(k) ==
    cache' = IF k \in DOMAIN cache.table THEN Evict(cache, cache.table[k]) ELSE cache

\* The loop of Clear, after so many rounds: the iterator has read `next' before
\* the body changes it.
Freeing(s) ==
    LET loop[round \in 0..s.block_capacity] ==
          IF round = 0 THEN [ cache |-> s, current |-> s.lru_head ]
          ELSE LET l == loop[round - 1]
               IN  IF l.current = 0 THEN l
                   ELSE [ cache |-> PushFreeList(l.cache, l.current),
                          current |-> l.cache.next[l.current] ]
    IN  loop

FreeAll(s) == Freeing(s)[s.block_capacity].cache

Clear ==
    cache' = [ FreeAll([ cache EXCEPT !.table = [ k \in {} |-> 0 ] ])
               EXCEPT !.lru_head = 0, !.lru_tail = 0 ]

Init == cache = NewCache

Next ==
    \/ \E k \in Key : (\E v \in Value : Insert(k, v)) \/ Lookup(k) \/ Erase(k)
    \/ Clear

Spec == Init /\ [][Next]_vars

-----------------------------------------------------------------------------
(***************************************************************************)
(* Properties.                                                             *)
(***************************************************************************)

\* The pointers met by following `next' from e: 0 once the list has ended.
Walk(s, e) ==
    LET at[i \in 1..s.block_capacity + 1] ==
          IF i = 1 THEN e
          ELSE LET last == at[i - 1] IN IF last = 0 THEN 0 ELSE s.next[last]
    IN  at

\* The list that begins with e.  A list with a cycle is longer than it can be.
ListFrom(s, e) ==
    LET at == Walk(s, e)
    IN  [ i \in 1..Cardinality({ j \in DOMAIN at : at[j] # 0 }) |-> at[i] ]

Elements == 1..cache.block_capacity
LruList  == ListFrom(cache, cache.lru_head)
FreeList == ListFrom(cache, cache.free_list)
ElementsOf(list) == { list[i] : i \in DOMAIN list }

(***************************************************************************)
(* Every element is on exactly one of the two lists, the LRU list is       *)
(* linked both ways from head to tail, and the hash table leads each key   *)
(* to its own element of that list.                                        *)
(***************************************************************************)
ListsOK ==
    LET lru == LruList
        free == FreeList
    IN  /\ Len(lru) + Len(free) = cache.block_capacity
        /\ ElementsOf(lru) \cup ElementsOf(free) = Elements
        /\ cache.lru_tail = (IF lru = << >> THEN 0 ELSE lru[Len(lru)])
        /\ \A i \in DOMAIN lru :
              /\ cache.prev[lru[i]] = (IF i = 1 THEN 0 ELSE lru[i - 1])
              /\ cache.key[lru[i]] \in DOMAIN cache.table
              /\ cache.table[cache.key[lru[i]]] = lru[i]
        /\ Len(lru) = Cardinality(DOMAIN cache.table)

\* No CHECK of lru_cache.h ever fails.
NoCheckFails == cache.checks

Position(k) == LET lru == LruList IN CHOOSE i \in DOMAIN lru : cache.key[lru[i]] = k

Map == INSTANCE LruMap WITH
    Capacity <- MaxElements,
    value <- [ k \in DOMAIN cache.table |-> cache.value[cache.table[k]] ],
    newer <- { p \in (DOMAIN cache.table) \X (DOMAIN cache.table) :
                 Position(p[1]) < Position(p[2]) }

(***************************************************************************)
(* The pointers implement the map: through every sequence of operations,   *)
(* block allocations and evictions, look-ups find the value last inserted, *)
(* and the key that makes room is the one used least recently.             *)
(***************************************************************************)
ImplementsLruMap == Map!Spec
=============================================================================
