----------------------------- MODULE MCLruCache -----------------------------
(***************************************************************************)
(* A small instance of LruCache for TLC.  The cfg file scales the sizes of *)
(* the blocks down so that small caches have several; Code has them as     *)
(* lru_cache.h has.                                                        *)
(***************************************************************************)
EXTENDS LruCache, TLC

CONSTANT MaxSize   \* CapacityReached looks at caches of up to this size

KeySymmetry == Permutations(Key)

Code == INSTANCE LruCache WITH
    MaxBlocks <- 10, SingleBlock <- 128, FirstBlock <- 64

(***************************************************************************)
(* From a new cache of 1 to 65472 elements on, the growing blocks end up   *)
(* with exactly max_elements elements: halving and rounding in AddBlock    *)
(* never strand the cache below its size (a next block of 0 elements) nor  *)
(* push it above.                                                          *)
(***************************************************************************)
CapacityReached ==
    cache = NewCache =>
      \A max_elements \in 1..MaxSize : Code!FullCapacity(max_elements) = max_elements
=============================================================================
