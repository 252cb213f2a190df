------------------------------ MODULE LruOrder ------------------------------
(***************************************************************************)
(* The recency order that the LRU list of storage/lru_cache.h represents.  *)
(* The order is a set of pairs: <<a, b>> \in newer says that key a stands  *)
(* nearer to the head of the list than key b.  A relation, rather than a   *)
(* sequence, lets a set of keys leave the list in one expression.          *)
(***************************************************************************)

\* RemoveFromLRU of every key of R: the other keys keep their places.
RemoveFromLRU(newer, R) ==
    { p \in newer : p[1] \notin R /\ p[2] \notin R }

\* PushLRUHead: k leaves its place and becomes the most recent of keys.
PushLRUHead(newer, keys, k) ==
    RemoveFromLRU(newer, {k}) \cup ({k} \X (keys \ {k}))

\* k is the key of the list's last element (lru_tail_).
IsLRUTail(newer, keys, k) ==
    /\ k \in keys
    /\ \A x \in keys \ {k} : <<x, k>> \in newer

(***************************************************************************)
(* newer arranges exactly the keys of the set in one list: it is a strict  *)
(* total order on them.                                                    *)
(***************************************************************************)
IsLRUOrder(newer, keys) ==
    /\ newer \subseteq keys \X keys
    /\ \A a \in keys : <<a, a>> \notin newer
    /\ \A a, b \in keys : a # b => (<<a, b>> \in newer \/ <<b, a>> \in newer)
    /\ \A a, b, c \in keys :
          (<<a, b>> \in newer /\ <<b, c>> \in newer) => <<a, c>> \in newer
=============================================================================
