------------------------- MODULE UserHistoryProofs -------------------------
(***************************************************************************)
(* That cleared words stay cleared and that a save loses nothing, for      *)
(* every set of inputs, every size of the cache and any number of faults.  *)
(*                                                                         *)
(* Folds and recursive functions are fixpoints that CHOOSE picks: a lemma  *)
(* about one shows that a fixpoint exists in a set closed under the step,  *)
(* and that every fixpoint stays in it.                                    *)
(***************************************************************************)
EXTENDS UserHistory, SequenceTheorems, FiniteSetTheorems, WellFoundedInduction, TLAPS

\* Types: the texts, a value, an element of the cache, the cache.
Text      == Seq(Characters)
EventKeys == { << t >> : t \in EventTypes }
Value ==
  [ word : Text, type : EventTypes \cup {"DEFAULT_ENTRY"}, removed : BOOLEAN,
    used : BOOLEAN, time : Int, next : Seq(Text) ]
Element   == [ key : Text \cup EventKeys, value : Value ]
Cache     == [ lru : Seq(Element), free : Seq(Value) ]

\* A list of entries has one entry for a word and one event at most, which no
\* suggestion showed.
GoodEntries(h) ==
  /\ h \in Seq(Value)
  /\ \A i \in 1..Len(h) : h[i].word = NoWord => ~h[i].used
  /\ \A i, j \in 1..Len(h) : h[i].word = h[j].word => i = j

\* An element is found under its word; an event under its type or, once it was
\* loaded, under NoWord.
GoodElement(e) ==
  IF e.value.word = NoWord
  THEN e.key \in EventKeys \cup {NoWord} /\ ~e.value.used
  ELSE e.key = e.value.word

GoodCache(d) ==
  /\ d \in Cache
  /\ \A i \in 1..Len(d.lru) : GoodElement(d.lru[i])
  /\ \A i, j \in 1..Len(d.lru) : d.lru[i].value.word = d.lru[j].value.word => i = j

FileType == [ exists : BOOLEAN, whole : BOOLEAN, entries : Seq(Value) ]
GoodFile == file \in FileType /\ GoodEntries(file.entries)

Stages == {"none", "load_read", "load_apply", "save_collect", "save_write", "save_load",
           "save_reset"}

GoodSync == sync \in [ stage : Stages, history : Seq(Value) ] /\ GoodEntries(sync.history)

\* Types, and that no word is there twice.
TypeInv ==
  /\ GoodCache(dic) /\ GoodSync /\ GoodFile
  /\ updated \in BOOLEAN /\ revert \in Seq(Text) /\ now \in Int

\* No cleared word is among the entries.
Clean(entries) == cleared \cap Words(entries) = {}

\* Cleared words are gone from the cache and from what the thread holds at
\* once, from the file as soon as the thread has written it; and it will.
ClearInv ==
  /\ cleared \cap WordsOf(dic) = {}
  /\ Clean(sync.history)
  /\ sync.stage \notin {"save_collect", "save_write"} => Clean(file.entries)
  /\ sync.stage = "save_collect" =>
       (updated /\ dic.lru # << >>) \/ Clean(file.entries)

\* What the save has copied covers the cache; after the write, up to what it
\* dropped.
SaveInv ==
  /\ sync.stage = "save_write" =>
       \A i \in 1..Len(dic.lru) : \E j \in 1..Len(sync.history) :
          /\ sync.history[j].word = dic.lru[i].value.word
          /\ sync.history[j].time = dic.lru[i].value.time
  /\ sync.stage = "save_load" =>
       \A i \in 1..Len(dic.lru) :
          \/ Old(dic.lru[i].value)
          \/ \E j \in 1..Len(sync.history) :
               sync.history[j].word = dic.lru[i].value.word

\* The inductive invariant.
IInv == TypeInv /\ ClearInv /\ SaveInv

---------------------------------------------------------------------------
(***************************************************************************)
(* Folds.                                                                  *)
(***************************************************************************)

\* A non-empty set of numbers up to n has a greatest element.
LEMMA MaxIn ==
  ASSUME NEW n \in Nat, NEW s \in SUBSET (1..n), s # {}
  PROVE  Max(s) \in s
<1> DEFINE T == { k \in Nat : \E x \in s : x = n - k }
<1>1. \A x \in s : x \in Int /\ 1 <= x /\ x <= n
  OBVIOUS
<1>2. T \in SUBSET Nat /\ T # {}
  <2>1. PICK x \in s : TRUE
    OBVIOUS
  <2>2. n - x \in Nat /\ x = n - (n - x)
    BY <1>1
  <2> QED BY <2>2
<1>3. PICK k \in T : \A y \in T : ~ (<<y, k>> \in OpToRel(<, Nat))
  <2> HIDE DEF T
  <2> QED BY <1>2, NatLessThanWellFounded, WFMin
<1>4. \A y \in T : ~ (y < k)
  BY <1>3 DEF OpToRel
<1>5. PICK x \in s : x = n - k
  OBVIOUS
<1>6. \A y \in s : x >= y
  <2> TAKE y \in s
  <2>1. n - y \in T
    BY <1>1
  <2>2. ~ (n - y < k)
    BY <2>1, <1>4
  <2>3. k \in Nat /\ y \in Int /\ x = n - k
    BY <1>1, <1>5
  <2> HIDE DEF T
  <2> QED BY <2>2, <2>3
<1>7. \E z \in s : \A y \in s : z >= y
  BY <1>6
<1> QED BY <1>7 DEF Max

\* The greatest of the first k numbers.
LEMMA MaxOfInterval ==
  ASSUME NEW k \in Nat, k # 0
  PROVE  Max(1..k) = k /\ (1..k) \ {k} = 1..(k - 1)
<1>1. k \in 1..k /\ \A y \in 1..k : k >= y
  OBVIOUS
<1>2. \A x \in 1..k : (\A y \in 1..k : x >= y) => x = k
  BY <1>1
<1>3. Max(1..k) = k
  BY <1>1, <1>2 DEF Max
<1> QED BY <1>3

\* What holds of the empty prefix, and of each if it holds of the one before,
\* holds of the whole sequence.
LEMMA FoldInduction ==
  ASSUME NEW n \in Nat, NEW B,
         {} \in B,
         \A s \in SUBSET (1..n) : s # {} /\ s \ {Max(s)} \in B => s \in B
  PROVE  1..n \in B
<1> DEFINE T == { k \in Nat : k <= n /\ 1..k \notin B }
<1>1. T = {}
  <2> SUFFICES ASSUME T # {} PROVE FALSE
    OBVIOUS
  <2>1. T \in SUBSET Nat
    OBVIOUS
  <2>2. PICK k \in T : \A y \in T : ~ (<<y, k>> \in OpToRel(<, Nat))
    <3> HIDE DEF T
    <3> QED BY <2>1, NatLessThanWellFounded, WFMin
  <2>3. \A y \in T : ~ (y < k)
    BY <2>2 DEF OpToRel
  <2>4. k # 0
    <3>1. 1..0 = {}
      OBVIOUS
    <3> QED BY <3>1
  <2>5. k - 1 \in Nat /\ k - 1 < k /\ k - 1 <= n /\ k <= n
    BY <2>4
  <2>6. 1..(k - 1) \in B
    BY <2>3, <2>5
  <2>7. Max(1..k) = k /\ (1..k) \ {k} = 1..(k - 1) /\ 1..k # {}
    BY <2>4, MaxOfInterval
  <2>8. 1..k \in SUBSET (1..n)
    BY <2>5
  <2>9. 1..k \in B
    BY <2>6, <2>7, <2>8
  <2> QED BY <2>9
<1> QED BY <1>1

\* F is a step of a fold over 1..n that stays in D, and g that fold.
StepsIn(F, D, n) == F \in [ D \X (1..n) -> D ]

IsFold(g, F, D, n, base) ==
  /\ g \in [ SUBSET (1..n) -> D ]
  /\ g[{}] = base
  /\ \A s \in SUBSET (1..n) : s # {} => g[s] = F[<<g[s \ {Max(s)}], Max(s)>>]

\* A step that stays in a set has a fold.
LEMMA FoldExists ==
  ASSUME NEW D, NEW n \in Nat, NEW F, StepsIn(F, D, n), NEW base \in D
  PROVE  \E g : IsFold(g, F, D, n, base)
<1>0. F \in [ D \X (1..n) -> D ]
  BY DEF StepsIn
<1> DEFINE Is(g, k) == \A s \in SUBSET (1..k) :
             g[s] = IF s = {} THEN base ELSE F[<<g[s \ {Max(s)}], Max(s)>>]
           P(k) == \E g \in [ SUBSET (1..k) -> D ] : Is(g, k)
           T == { k \in Nat : k <= n /\ ~P(k) }
<1>1. P(0)
  <2> DEFINE g == [ s \in SUBSET (1..0) |-> base ]
  <2>1. \A s \in SUBSET (1..0) : s = {}
    OBVIOUS
  <2>2. g \in [ SUBSET (1..0) -> D ] /\ Is(g, 0)
    BY <2>1
  <2> QED BY <2>2
<1>2. ASSUME NEW k \in Nat, k + 1 <= n, P(k) PROVE P(k + 1)
  <2>1. PICK g \in [ SUBSET (1..k) -> D ] : Is(g, k)
    BY <1>2
  <2> DEFINE h == [ s \in SUBSET (1..(k + 1)) |->
                      IF k + 1 \in s THEN F[<<g[s \ {k + 1}], k + 1>>] ELSE g[s] ]
  <2>2. \A s \in SUBSET (1..(k + 1)) :
          /\ k + 1 \in s => s \ {k + 1} \in SUBSET (1..k) /\ Max(s) = k + 1
          /\ k + 1 \notin s => s \in SUBSET (1..k) 
    <3> TAKE s \in SUBSET (1..(k + 1))
    <3>1. \A x \in s : x \in Nat /\ 1 <= x /\ x <= k + 1
      BY <1>2
    <3>2. \A x \in s \ {k + 1} : x \in 1..k
      BY <1>2, <3>1
    <3>3. ASSUME k + 1 \in s PROVE Max(s) = k + 1
      <4>1. k + 1 \in s /\ \A y \in s : k + 1 >= y
        BY <3>1, <3>3
      <4>2. \A x \in s : (\A y \in s : x >= y) => x = k + 1
        BY <3>1, <3>3
      <4> QED BY <4>1, <4>2 DEF Max
    <3> QED BY <3>2, <3>3
  <2>3. h \in [ SUBSET (1..(k + 1)) -> D ]
    <3>1. k + 1 \in 1..n
      BY <1>2
    <3> QED BY <1>0, <2>2, <3>1
  <2>4. Is(h, k + 1)
    <3> TAKE s \in SUBSET (1..(k + 1))
    <3>1. CASE k + 1 \in s
      <4>1. s # {} /\ Max(s) = k + 1 /\ s \ {k + 1} \in SUBSET (1..k)
        BY <2>2, <3>1
      <4>2. s \ {k + 1} \in SUBSET (1..(k + 1)) /\ k + 1 \notin s \ {k + 1}
        OBVIOUS
      <4>3. h[s \ {k + 1}] = g[s \ {k + 1}]
        BY <4>2
      <4>4. h[s] = F[<<g[s \ {k + 1}], k + 1>>]
        BY <3>1
      <4> QED BY <4>1, <4>3, <4>4
    <3>2. CASE k + 1 \notin s
      <4>1. s \in SUBSET (1..k)
        BY <2>2, <3>2
      <4>2. h[s] = g[s]
        BY <3>2
      <4>3. s \ {Max(s)} \in SUBSET (1..(k + 1)) /\ k + 1 \notin s \ {Max(s)}
        BY <3>2
      <4>4. h[s \ {Max(s)}] = g[s \ {Max(s)}]
        BY <4>3
      <4>5. g[s] = IF s = {} THEN base ELSE F[<<g[s \ {Max(s)}], Max(s)>>]
        BY <2>1, <4>1
      <4> QED BY <4>2, <4>4, <4>5
    <3> QED BY <3>1, <3>2
  <2> HIDE DEF h, Is
  <2> QED BY <2>3, <2>4
<1> HIDE DEF P
<1>3. T = {}
  <2> SUFFICES ASSUME T # {} PROVE FALSE
    OBVIOUS
  <2>1. T \in SUBSET Nat
    OBVIOUS
  <2>2. PICK k \in T : \A y \in T : ~ (<<y, k>> \in OpToRel(<, Nat))
    <3> HIDE DEF T
    <3> QED BY <2>1, NatLessThanWellFounded, WFMin
  <2>3. \A y \in T : ~ (y < k)
    BY <2>2 DEF OpToRel
  <2>4. k # 0
    BY <1>1
  <2>5. k - 1 \in Nat /\ k - 1 < k /\ k - 1 + 1 = k /\ k <= n /\ k - 1 <= n
    BY <2>4
  <2>6. P(k - 1)
    BY <2>3, <2>5
  <2>7. P(k)
    BY <1>2, <2>5, <2>6
  <2> QED BY <2>7
<1>4. P(n)
  BY <1>3
<1>5. PICK g \in [ SUBSET (1..n) -> D ] : Is(g, n)
  BY <1>4 DEF P
<1>6. {} \in SUBSET (1..n)
  OBVIOUS
<1>7. g[{}] = base
  BY <1>5, <1>6
<1>8. \A s \in SUBSET (1..n) : s # {} => g[s] = F[<<g[s \ {Max(s)}], Max(s)>>]
  BY <1>5
<1> QED BY <1>7, <1>8 DEF IsFold

\* A fold whose steps stay in a set stays in it.
LEMMA FoldIn ==
  ASSUME NEW D, NEW n \in Nat, NEW iter, iter[{}] \in D,
         \A s \in SUBSET (1..n) : s # {} /\ iter[s \ {Max(s)}] \in D => iter[s] \in D
  PROVE  iter[1..n] \in D
<1> DEFINE B == { s \in SUBSET (1..n) : iter[s] \in D }
<1>1. {} \in B
  OBVIOUS
<1>2. \A s \in SUBSET (1..n) : s # {} /\ s \ {Max(s)} \in B => s \in B
  OBVIOUS
<1> HIDE DEF B
<1>3. 1..n \in B
  BY <1>1, <1>2, FoldInduction
<1> QED BY <1>3 DEF B

\* The words of a commit make up a word.
LEMMA FlattenWords ==
  ASSUME NEW segments \in Seq(Text \ {NoWord}), segments # << >>
  PROVE  FlattenSeq(segments) \in Text \ {NoWord}
<1> DEFINE n == Len(segments)
           D == Text \ {NoWord}
           F == [ p \in D \X (1..n) |->
                    IF p[2] = 1 THEN segments[1] ELSE p[1] \o segments[p[2]] ]
<1>1. n \in Nat /\ n # 0 /\ 1 \in 1..n /\ \A i \in 1..n : segments[i] \in D
  OBVIOUS
<1>2. \A d \in D, e \in D : d \o e \in D
  <2> TAKE d \in D, e \in D
  <2>1. d \in Text /\ e \in Text /\ Len(d) # 0
    BY DEF Text, NoWord
  <2>2. d \o e \in Text /\ Len(d \o e) = Len(d) + Len(e) /\ Len(d) \in Nat /\ Len(e) \in Nat
    BY <2>1 DEF Text
  <2>3. Len(d \o e) # 0
    BY <2>1, <2>2
  <2> QED BY <2>2, <2>3 DEF NoWord
<1>3. StepsIn(F, D, n)
  <2> HIDE DEF D, n
  <2> QED BY <1>1, <1>2 DEF StepsIn
<1>4. \A d \in D, i \in 1..n :
        F[<<d, i>>] = IF i = 1 THEN segments[1] ELSE d \o segments[i]
  OBVIOUS
<1> HIDE DEF D, F, n
<1>5. PICK g : IsFold(g, F, D, n, segments[1])
  BY <1>1, <1>3, FoldExists
<1> DEFINE f == [ i \in 1..n |-> g[1..i] ]
           Is(h) == h = [ i \in 1..n |->
                            IF i = 1 THEN segments[i] ELSE h[i - 1] \o segments[i] ]
           flatten == CHOOSE h : Is(h)
<1>6. \A i \in 1..n : f[i] = IF i = 1 THEN segments[i] ELSE f[i - 1] \o segments[i]
  <2> TAKE i \in 1..n
  <2>1. i \in Nat /\ i # 0 /\ i - 1 \in 0..n /\ (i # 1 => i - 1 \in 1..n)
    BY <1>1
  <2>2. 1..i \in SUBSET (1..n) /\ 1..(i - 1) \in SUBSET (1..n) /\ 1..i # {}
    <3>1. i \in Int /\ 1 <= i /\ i <= n
      BY <1>1
    <3>2. \A x \in 1..i : x \in 1..n
      BY <3>1, <1>1
    <3>3. \A x \in 1..(i - 1) : x \in 1..n
      BY <3>1, <1>1
    <3>4. 1 \in 1..i
      BY <3>1
    <3> QED BY <3>2, <3>3, <3>4
  <2>3. g[1..i] = F[<<g[1..(i - 1)], i>>]
    BY <2>1, <2>2, <1>5, MaxOfInterval DEF IsFold
  <2>4. g[1..(i - 1)] \in D
    BY <2>2, <1>5 DEF IsFold
  <2>5. g[1..i] = IF i = 1 THEN segments[1] ELSE g[1..(i - 1)] \o segments[i]
    BY <2>3, <2>4, <1>4
  <2> QED BY <2>1, <2>5
<1>7. Is(f)
  BY <1>6
<1>8. Is(flatten)
  BY <1>7
<1>9. \A i \in 1..n : flatten[i] = IF i = 1 THEN segments[i] ELSE flatten[i - 1] \o segments[i]
  BY <1>8
<1> DEFINE T == { k \in Nat : k \in 1..n /\ flatten[k] \notin D }
<1> HIDE DEF flatten
<1>10. T = {}
  <2> SUFFICES ASSUME T # {} PROVE FALSE
    OBVIOUS
  <2>1. T \in SUBSET Nat
    OBVIOUS
  <2>2. PICK k \in T : \A y \in T : ~ (<<y, k>> \in OpToRel(<, Nat))
    <3> HIDE DEF T
    <3> QED BY <2>1, NatLessThanWellFounded, WFMin
  <2>3. \A y \in T : ~ (y < k)
    BY <2>2 DEF OpToRel
  <2>4. CASE k = 1
    BY <2>4, <1>1, <1>9
  <2>5. CASE k # 1
    <3>1. k - 1 \in Nat /\ k - 1 \in 1..n /\ k - 1 < k
      BY <2>5, <1>1
    <3>2. flatten[k - 1] \in D
      BY <3>1, <2>3
    <3>3. flatten[k - 1] \o segments[k] \in D
      BY <3>2, <1>1, <1>2
    <3> QED BY <3>3, <2>5, <1>9
  <2> QED BY <2>4, <2>5
<1>11. n \in Nat /\ n \in 1..n
  BY <1>1
<1>12. flatten[n] \in D
  BY <1>10, <1>11
<1>13. FlattenSeq(segments) = flatten[n]
  BY <1>1 DEF FlattenSeq, flatten, n
<1> QED BY <1>12, <1>13 DEF D

---------------------------------------------------------------------------
(***************************************************************************)
(* SwapOut keeps every kept element once.                                  *)
(***************************************************************************)

\* The elements of S from e on.
From(S, e) == { x \in S : x >= e }

\* Parts of an interval are finite.
LEMMA FromFinite ==
  ASSUME NEW n \in Nat, NEW S \in SUBSET (1..n)
  PROVE  /\ IsFiniteSet(S) /\ Cardinality(S) \in Nat
         /\ \A e \in Int : IsFiniteSet(From(S, e)) /\ Cardinality(From(S, e)) \in Nat
<1>1. IsFiniteSet(1..n)
  BY FS_Interval
<1>2. IsFiniteSet(S)
  BY <1>1, FS_Subset
<1>3. \A e \in Int : From(S, e) \in SUBSET S
  BY DEF From
<1>4. \A e \in Int : IsFiniteSet(From(S, e))
  BY <1>2, <1>3, FS_Subset
<1> QED BY <1>2, <1>4, FS_CardinalityType

\* The k-th element from the end exists.
LEMMA RankFromEnd ==
  ASSUME NEW n \in Nat, NEW S \in SUBSET (1..n), NEW k \in Nat,
         1 <= k, k <= Cardinality(S)
  PROVE  \E e \in S : Cardinality(From(S, e)) = k
<1> DEFINE T == { e \in Nat : Cardinality(From(S, e + 1)) < k }
<1>0. \A x \in S : x \in Int /\ 1 <= x /\ x <= n
  OBVIOUS
<1>1. \A e \in Int : IsFiniteSet(From(S, e)) /\ Cardinality(From(S, e)) \in Nat
  BY FromFinite
<1>2. n \in T
  <2>1. \A x \in S : ~ (x >= n + 1)
    BY <1>0
  <2>2. From(S, n + 1) = {}
    BY <2>1 DEF From
  <2> QED BY <2>2, FS_EmptySet
<1>3. PICK e \in T : \A y \in T : ~ (<<y, e>> \in OpToRel(<, Nat))
  <2>1. T \in SUBSET Nat /\ T # {}
    BY <1>2
  <2> HIDE DEF T
  <2> QED BY <2>1, NatLessThanWellFounded, WFMin
<1>4. \A y \in T : ~ (y < e)
  BY <1>3 DEF OpToRel
<1>5. e \in Nat /\ e + 1 \in Int /\ Cardinality(From(S, e + 1)) < k
  OBVIOUS
<1>6. e # 0
  <2> SUFFICES ASSUME e = 0 PROVE FALSE
    OBVIOUS
  <2>1. \A x \in S : x >= 0 + 1
    BY <1>0
  <2>2. From(S, 0 + 1) = S
    BY <2>1 DEF From
  <2>3. Cardinality(From(S, 0 + 1)) < k
    BY <1>5
  <2>4. Cardinality(S) \in Nat /\ Cardinality(S) < k
    BY <2>2, <2>3, FromFinite
  <2> QED BY <2>4
<1>7. e - 1 \in Nat /\ e \in Int /\ ~ (Cardinality(From(S, e)) < k)
  <2>1. e - 1 \in Nat /\ e - 1 < e /\ (e - 1) + 1 = e
    BY <1>5, <1>6
  <2>2. e - 1 \notin T
    BY <1>4, <2>1
  <2>3. ~ (Cardinality(From(S, (e - 1) + 1)) < k)
    BY <2>1, <2>2
  <2> QED BY <2>1, <2>3
<1>8. e \in S
  <2> SUFFICES ASSUME e \notin S PROVE FALSE
    OBVIOUS
  <2>0. \A x \in S : x >= e <=> x >= e + 1
    BY <1>0, <1>5
  <2>1. From(S, e) = From(S, e + 1)
    BY <2>0 DEF From
  <2> QED BY <2>1, <1>5, <1>7
<1>9. /\ e \notin From(S, e + 1)
      /\ Cardinality(From(S, e)) = Cardinality(From(S, e + 1)) + 1
  <2>0. \A x \in S : x >= e <=> x >= e + 1 \/ x = e
    BY <1>0, <1>5
  <2>1. From(S, e) = From(S, e + 1) \cup {e}
    BY <2>0, <1>8 DEF From
  <2>2. ~ (e >= e + 1)
    BY <1>5
  <2>3. e \notin From(S, e + 1)
    BY <2>2 DEF From
  <2> QED BY <2>1, <2>3, <1>1, <1>5, FS_AddElement
<1>10. Cardinality(From(S, e)) = k
  BY <1>1, <1>5, <1>7, <1>9
<1> QED BY <1>8, <1>10

\* Different elements have different ranks.
LEMMA RankUnique ==
  ASSUME NEW n \in Nat, NEW S \in SUBSET (1..n), NEW e \in S, NEW f \in S,
         Cardinality(From(S, e)) = Cardinality(From(S, f))
  PROVE  e = f
<1>0. e \in Int /\ f \in Int /\ \A x \in S : x \in Int
  OBVIOUS
<1>1. ASSUME NEW a \in S, NEW b \in S, a < b PROVE Cardinality(From(S, a)) # Cardinality(From(S, b))
  <2>1. From(S, b) \in SUBSET From(S, a) /\ a \in From(S, a) /\ a \notin From(S, b)
    <3>1. (\A x \in S : x >= b => x >= a) /\ a >= a /\ ~ (a >= b)
      BY <1>0, <1>1
    <3> QED BY <3>1 DEF From
  <2>2. From(S, a) # From(S, b)
    BY <2>1
  <2>3. IsFiniteSet(From(S, a))
    BY <1>0, FromFinite
  <2> QED BY <2>1, <2>2, <2>3, FS_Subset
<1>2. ~ (e < f) /\ ~ (f < e)
  BY <1>1
<1> QED BY <1>0, <1>2

\* t has the elements of s at the places in kept, each once.
Permutes(t, s, kept) ==
  \E p \in [ 1..Cardinality(kept) -> kept ] :
     /\ \A i, j \in 1..Cardinality(kept) : p[i] = p[j] => i = j
     /\ \A k \in kept : \E i \in 1..Cardinality(kept) : p[i] = k
     /\ t = [ i \in 1..Cardinality(kept) |-> s[p[i]] ]

\* SwapOut permutes what is kept.
LEMMA SwapOutKeeps ==
  ASSUME NEW n \in Nat, NEW kept \in SUBSET (1..n), NEW s
  PROVE  /\ Cardinality(kept) \in Nat
         /\ Permutes(SwapOut(s, kept), s, kept)
<1> DEFINE m == Cardinality(kept)
           Gaps == (1..m) \ kept
           Rank(gap) == Cardinality((1..gap) \ kept)
           Filler(gap) == CHOOSE i \in kept :
                            Cardinality({ j \in kept : j >= i }) = Rank(gap)
           Above == { x \in kept : x > m }
           p == [ i \in 1..m |-> IF i \in kept THEN i ELSE Filler(i) ]
<1>0. \A x \in kept : x \in Int /\ 1 <= x /\ x <= n
  OBVIOUS
<1>1. IsFiniteSet(kept) /\ m \in Nat
  BY FromFinite
<1>2. IsFiniteSet(1..m) /\ Cardinality(1..m) = m
  <2>1. m \in Int /\ 1 \in Int /\ m >= 0
    BY <1>1
  <2> HIDE DEF m
  <2>2. IsFiniteSet(1..m) /\ Cardinality(1..m) = IF 1 > m THEN 0 ELSE m - 1 + 1
    BY <2>1, FS_Interval
  <2> QED BY <2>1, <2>2
<1>3. /\ IsFiniteSet(Gaps) /\ Cardinality(Gaps) \in Nat
      /\ IsFiniteSet(Above) /\ Cardinality(Above) = Cardinality(Gaps)
  <2>1. IsFiniteSet(Gaps) /\ Cardinality(Gaps) = m - Cardinality((1..m) \cap kept)
    BY <1>2, FS_Difference
  <2>2. /\ IsFiniteSet(kept \ (1..m))
        /\ Cardinality(kept \ (1..m)) = m - Cardinality(kept \cap (1..m))
    BY <1>1, FS_Difference
  <2>3. Above = kept \ (1..m)
    <3>1. \A x \in kept : x > m <=> x \notin 1..m
      BY <1>0, <1>1
    <3> HIDE DEF m
    <3> QED BY <3>1
  <2>4. kept \cap (1..m) = (1..m) \cap kept
    OBVIOUS
  <2> HIDE DEF m, Gaps, Above
  <2> QED BY <2>1, <2>2, <2>3, <2>4, FS_CardinalityType
<1>4. ASSUME NEW gap \in Gaps
      PROVE  /\ Filler(gap) \in Above
             /\ Cardinality(From(kept, Filler(gap))) = Rank(gap)
  <2>0. gap \in Int /\ 1 <= gap /\ gap <= m /\ gap \notin kept
    BY <1>1, <1>4
  <2>1. (1..gap) \ kept \in SUBSET Gaps /\ gap \in (1..gap) \ kept
    <3> HIDE DEF m
    <3>1. \A x \in 1..gap : x \in 1..m
      BY <2>0, <1>1
    <3> QED BY <3>1, <2>0
  <2>2. Rank(gap) \in Nat /\ Rank(gap) <= Cardinality(Gaps) /\ Rank(gap) # 0
    <3>1. IsFiniteSet((1..gap) \ kept) /\ Cardinality((1..gap) \ kept) <= Cardinality(Gaps)
      BY <2>1, <1>3, FS_Subset
    <3>2. (1..gap) \ kept # {}
      BY <2>1
    <3> QED BY <3>1, <3>2, FS_CardinalityType, FS_EmptySet
  <2>3. Above \in SUBSET (1..n)
    OBVIOUS
  <2>4. PICK e \in Above : Cardinality(From(Above, e)) = Rank(gap)
    <3> HIDE DEF Above, Rank, Gaps
    <3>1. 1 <= Rank(gap) /\ Rank(gap) <= Cardinality(Above)
      BY <2>2, <1>3
    <3> QED BY <3>1, <2>2, <2>3, RankFromEnd
  <2>5. e \in kept /\ From(kept, e) = From(Above, e)
    <3>1. e \in kept /\ e \in Int /\ e > m
      BY <1>0
    <3>2. \A x \in kept : x >= e => x > m
      BY <3>1, <1>0, <1>1
    <3> HIDE DEF m
    <3> QED BY <3>1, <3>2 DEF From
  <2>6. Cardinality(From(kept, e)) = Rank(gap)
    BY <2>4, <2>5
  <2>7. \E i \in kept : Cardinality({ j \in kept : j >= i }) = Rank(gap)
    <3> HIDE DEF Rank
    <3> QED BY <2>5, <2>6 DEF From
  <2>8. Filler(gap) \in kept /\ Cardinality({ j \in kept : j >= Filler(gap) }) = Rank(gap)
    <3> HIDE DEF Rank
    <3> QED BY <2>7
  <2>9. Cardinality(From(kept, Filler(gap))) = Rank(gap)
    BY <2>8 DEF From
  <2>10. Filler(gap) = e
    <3> HIDE DEF Filler, Rank
    <3> QED BY <2>5, <2>6, <2>8, <2>9, RankUnique
  <2> HIDE DEF Filler, Rank
  <2> QED BY <2>9, <2>10
<1>5. ASSUME NEW gap \in Gaps, NEW other \in Gaps, Rank(gap) = Rank(other)
      PROVE  gap = other
  <2>0. /\ gap \in Int /\ 1 <= gap /\ gap \notin kept
        /\ other \in Int /\ 1 <= other /\ other \notin kept
    BY <1>1, <1>5
  <2>1. ASSUME NEW a \in Int, NEW b \in Int, 1 <= a, a < b, a \notin kept, b \notin kept
        PROVE  Rank(a) # Rank(b)
    <3>1. (1..a) \ kept \in SUBSET ((1..b) \ kept)
      BY <2>1
    <3>2. b \in (1..b) \ kept /\ b \notin (1..a) \ kept
      BY <2>1
    <3>3. (1..a) \ kept # (1..b) \ kept
      BY <3>2
    <3>4. IsFiniteSet(1..b)
      BY FS_Interval
    <3>5. IsFiniteSet((1..b) \ kept)
      BY <3>4, FS_Difference
    <3> QED BY <3>1, <3>3, <3>5, FS_Subset
  <2>2. ~ (gap < other) /\ ~ (other < gap)
    <3> HIDE DEF Rank
    <3> QED BY <1>5, <2>0, <2>1
  <2> QED BY <2>0, <2>2
<1>6. \A i \in 1..m : /\ i \in Int /\ i <= m
                      /\ i \in kept => p[i] = i
                      /\ i \notin kept => i \in Gaps /\ p[i] = Filler(i)
  <2> HIDE DEF m, Filler
  <2> QED BY <1>1
<1>7. \A x \in Above : x \in kept /\ x \in Int /\ x > m
  BY <1>0
<1>8. p \in [ 1..m -> kept ]
  <2>1. \A i \in 1..m : p[i] \in kept
    <3> HIDE DEF p, Gaps, Filler, Above
    <3> QED BY <1>4, <1>6, <1>7
  <2> HIDE DEF Filler
  <2> QED BY <2>1
<1>9. \A i, j \in 1..m : p[i] = p[j] => i = j
  <2> SUFFICES ASSUME NEW i \in 1..m, NEW j \in 1..m, p[i] = p[j] PROVE i = j
    OBVIOUS
  <2> HIDE DEF p, Gaps, Filler, Above, Rank, m
  <2>1. CASE i \in kept /\ j \in kept
    BY <2>1, <1>6
  <2>2. CASE i \in kept /\ j \notin kept
    <3>1. p[i] = i /\ i <= m /\ i \in Int /\ p[j] \in Above
      BY <2>2, <1>4, <1>6
    <3>2. p[j] > m
      BY <3>1, <1>7
    <3> QED BY <3>1, <3>2, <1>1
  <2>3. CASE i \notin kept /\ j \in kept
    <3>1. p[j] = j /\ j <= m /\ j \in Int /\ p[i] \in Above
      BY <2>3, <1>4, <1>6
    <3>2. p[i] > m
      BY <3>1, <1>7
    <3> QED BY <3>1, <3>2, <1>1
  <2>4. CASE i \notin kept /\ j \notin kept
    <3>1. i \in Gaps /\ j \in Gaps /\ Filler(i) = Filler(j)
      BY <2>4, <1>6
    <3>2. Rank(i) = Rank(j)
      BY <3>1, <1>4
    <3> QED BY <3>1, <3>2, <1>5
  <2> QED BY <2>1, <2>2, <2>3, <2>4
<1>10. \A k \in kept : \E i \in 1..m : p[i] = k
  <2> HIDE DEF p, m
  <2>1. p \in Injection(1..m, kept)
    BY <1>8, <1>9 DEF Injection, IsInjective
  <2>2. Cardinality(1..m) = Cardinality(kept)
    BY <1>2 DEF m
  <2>3. p \in Surjection(1..m, kept)
    BY <2>1, <2>2, <1>1, FS_Injection
  <2> QED BY <2>3 DEF Surjection
<1>11. SwapOut(s, kept) = [ i \in 1..m |-> s[p[i]] ]
  <2>1. SwapOut(s, kept) = [ i \in 1..m |-> IF i \in kept THEN s[i] ELSE s[Filler(i)] ]
    BY DEF SwapOut
  <2>2. \A i \in 1..m : (IF i \in kept THEN s[i] ELSE s[Filler(i)]) = s[p[i]]
    <3> HIDE DEF p, Filler, m, Gaps
    <3> QED BY <1>6
  <2> HIDE DEF p, Filler, m
  <2> QED BY <2>1, <2>2
<1> HIDE DEF p
<1> QED BY <1>1, <1>8, <1>9, <1>10, <1>11 DEF Permutes

\* What is left of a sequence is made of its elements.
LEMMA SwapOutSeq ==
  ASSUME NEW S, NEW s \in Seq(S), NEW kept \in SUBSET DOMAIN s
  PROVE  SwapOut(s, kept) \in Seq(S)
<1>1. Len(s) \in Nat /\ kept \in SUBSET (1..Len(s)) /\ \A i \in kept : s[i] \in S
  OBVIOUS
<1> DEFINE m == Cardinality(kept)
<1>2. m \in Nat
  BY <1>1, SwapOutKeeps
<1>3. PICK p \in [ 1..m -> kept ] : SwapOut(s, kept) = [ i \in 1..m |-> s[p[i]] ]
  <2>1. Permutes(SwapOut(s, kept), s, kept)
    BY <1>1, SwapOutKeeps
  <2> QED BY <2>1 DEF Permutes
<1> HIDE DEF m
<1>4. \A i \in 1..m : s[p[i]] \in S
  BY <1>1
<1> QED BY <1>2, <1>3, <1>4, IsASeq

---------------------------------------------------------------------------
(***************************************************************************)
(* Entries.                                                                *)
(***************************************************************************)

\* Old entries are dropped, and nothing else.
LEMMA DeleteGood ==
  ASSUME NEW h, GoodEntries(h)
  PROVE  LET e == DeleteEntriesUntouchedFor62Days(h)
         IN  /\ GoodEntries(e)
             /\ \A i \in 1..Len(e) : \E j \in 1..Len(h) : e[i] = h[j]
             /\ \A j \in 1..Len(h) : Old(h[j]) \/ \E i \in 1..Len(e) : e[i] = h[j]
<1> DEFINE kept == { i \in DOMAIN h : h[i].type # "DEFAULT_ENTRY" \/ ~Old(h[i]) }
           m == Cardinality(kept)
           e == DeleteEntriesUntouchedFor62Days(h)
<1>1. h \in Seq(Value) /\ Len(h) \in Nat /\ DOMAIN h = 1..Len(h)
  BY DEF GoodEntries
<1>2. kept \in SUBSET (1..Len(h))
  BY <1>1
<1>3. e = SwapOut(h, kept)
  BY DEF DeleteEntriesUntouchedFor62Days
<1>4. \A j \in 1..Len(h) : Old(h[j]) \/ j \in kept
  BY <1>1
<1> HIDE DEF kept, e
<1>5. m \in Nat /\ Permutes(e, h, kept)
  BY <1>1, <1>2, <1>3, SwapOutKeeps
<1>6. PICK p \in [ 1..m -> kept ] :
        /\ \A i, j \in 1..m : p[i] = p[j] => i = j
        /\ \A k \in kept : \E i \in 1..m : p[i] = k
        /\ e = [ i \in 1..m |-> h[p[i]] ]
  BY <1>5 DEF Permutes
<1> HIDE DEF m
<1>7. \A i \in 1..m : p[i] \in 1..Len(h) /\ e[i] = h[p[i]] /\ h[p[i]] \in Value
  <2> TAKE i \in 1..m
  <2>1. p[i] \in kept
    BY <1>6
  <2>2. p[i] \in 1..Len(h)
    BY <2>1, <1>2
  <2>3. h[p[i]] \in Value
    BY <2>2, <1>1
  <2>4. e[i] = h[p[i]]
    BY <1>6
  <2> QED BY <2>2, <2>3, <2>4
<1>8. e \in Seq(Value) /\ Len(e) = m
  <2>1. \A i \in 1..m : h[p[i]] \in Value
    BY <1>7
  <2>2. e \in Seq(Value)
    BY <2>1, <1>5, <1>6, IsASeq
  <2>3. DOMAIN e = 1..m
    BY <1>6
  <2> QED BY <2>2, <2>3, <1>5
<1>9. GoodEntries(e)
  <2>1. \A i \in 1..m : e[i].word = NoWord => ~e[i].used
    BY <1>7 DEF GoodEntries
  <2>2. ASSUME NEW i \in 1..m, NEW j \in 1..m, e[i].word = e[j].word PROVE i = j
    <3>1. h[p[i]].word = h[p[j]].word /\ p[i] \in 1..Len(h) /\ p[j] \in 1..Len(h)
      BY <1>7, <2>2
    <3>2. p[i] = p[j]
      BY <3>1 DEF GoodEntries
    <3> QED BY <3>2, <1>6
  <2> QED BY <1>8, <2>1, <2>2 DEF GoodEntries
<1>10. \A j \in 1..Len(h) : Old(h[j]) \/ \E i \in 1..m : e[i] = h[j]
  BY <1>4, <1>6, <1>7
<1> QED BY <1>7, <1>8, <1>9, <1>10 DEF e

\* Reverse, element by element.
LEMMA ReverseProperties ==
  ASSUME NEW S, NEW s \in Seq(S)
  PROVE  /\ Reverse(s) \in Seq(S) /\ Len(Reverse(s)) = Len(s)
         /\ \A i \in 1..Len(s) : /\ Len(s) - i + 1 \in 1..Len(s)
                                 /\ Reverse(s)[i] = s[Len(s) - i + 1]
                                 /\ Reverse(s)[Len(s) - i + 1] = s[i]
<1> DEFINE n == Len(s)
<1>1. n \in Nat /\ \A i \in 1..n : s[i] \in S
  OBVIOUS
<1>2. Reverse(s) = [ i \in 1..n |-> s[(n - i) + 1] ]
  BY DEF Reverse
<1> HIDE DEF n
<1>3. \A i \in 1..n : (n - i) + 1 \in 1..n /\ n - ((n - i) + 1) + 1 = i
  BY <1>1
<1>4. \A i \in 1..n : s[(n - i) + 1] \in S
  BY <1>1, <1>3
<1>5. Reverse(s) \in Seq(S)
  BY <1>1, <1>2, <1>4, IsASeq
<1>6. Len(Reverse(s)) = n
  BY <1>1, <1>2, <1>5
<1>7. \A i \in 1..n : Reverse(s)[i] = s[(n - i) + 1]
  BY <1>2
<1>8. \A i \in 1..n : Reverse(s)[(n - i) + 1] = s[i]
  BY <1>3, <1>7
<1> QED BY <1>3, <1>5, <1>6, <1>7, <1>8 DEF n

---------------------------------------------------------------------------
(***************************************************************************)
(* The cache.                                                              *)
(***************************************************************************)

\* What the provers need to know of a cache.
LEMMA CacheFields ==
  ASSUME NEW d \in Cache
  PROVE  /\ d.lru \in Seq(Element) /\ d.free \in Seq(Value)
         /\ Len(d.lru) \in Nat /\ DOMAIN d.lru = 1..Len(d.lru)
         /\ \A i \in 1..Len(d.lru) :
              /\ d.lru[i] \in Element
              /\ d.lru[i].key \in Text \cup EventKeys /\ d.lru[i].value \in Value
<1>1. d.lru \in Seq(Element) /\ d.free \in Seq(Value)
  BY DEF Cache
<1>2. \A i \in 1..Len(d.lru) : d.lru[i] \in Element
  BY <1>1
<1> QED BY <1>1, <1>2 DEF Element

\* No text is the key of an event.
LEMMA EventsAreNoTexts == \A k \in EventKeys : k \notin Text /\ k # NoWord
<1> SUFFICES ASSUME NEW t \in EventTypes PROVE << t >> \notin Text /\ << t >> # NoWord
  BY DEF EventKeys
<1>1. t \notin Characters
  BY InputsAssumption
<1>2. ASSUME << t >> \in Text PROVE FALSE
  <2>1. << t >> \in Seq(Characters) /\ Len(<< t >>) = 1
    BY <1>2 DEF Text
  <2>2. << t >>[1] \in Characters
    BY <2>1
  <2> QED BY <2>2, <1>1
<1> QED BY <1>2 DEF NoWord

\* An element is found under one key, and the key of a word has that word.
LEMMA GoodKeys ==
  ASSUME NEW d, GoodCache(d)
  PROVE  /\ \A i, j \in 1..Len(d.lru) : d.lru[i].key = d.lru[j].key => i = j
         /\ \A i \in 1..Len(d.lru) :
              /\ d.lru[i].key \in Text \ {NoWord} => d.lru[i].value.word = d.lru[i].key
              /\ d.lru[i].value.word # NoWord => d.lru[i].key = d.lru[i].value.word
<1>1. \A i \in 1..Len(d.lru) : GoodElement(d.lru[i]) /\ d.lru[i].value.word \in Text
  BY CacheFields DEF GoodCache, Value
<1>2. \A i \in 1..Len(d.lru) :
        /\ d.lru[i].key \in Text \ {NoWord} => d.lru[i].value.word = d.lru[i].key
        /\ d.lru[i].value.word # NoWord => d.lru[i].key = d.lru[i].value.word
        /\ d.lru[i].key \notin Text \ {NoWord} => d.lru[i].value.word = NoWord
  BY <1>1, EventsAreNoTexts DEF GoodElement
<1>3. ASSUME NEW i \in 1..Len(d.lru), NEW j \in 1..Len(d.lru), d.lru[i].key = d.lru[j].key
      PROVE  i = j
  <2>1. d.lru[i].value.word = d.lru[j].value.word
    BY <1>2, <1>3
  <2> QED BY <2>1 DEF GoodCache
<1> QED BY <1>2, <1>3

\* A key of the cache is at its place.
LEMMA AtKey ==
  ASSUME NEW d, d \in Cache, NEW key \in Keys(d)
  PROVE  At(d, key) \in 1..Len(d.lru) /\ d.lru[At(d, key)].key = key
<1>1. \E i \in DOMAIN d.lru : d.lru[i].key = key
  BY DEF Keys
<1>2. At(d, key) \in DOMAIN d.lru /\ d.lru[At(d, key)].key = key
  BY <1>1 DEF At
<1> QED BY <1>2, CacheFields

\* RemoveAt, element by element.
LEMMA RemoveAtProperties ==
  ASSUME NEW S, NEW s \in Seq(S), NEW i \in 1..Len(s)
  PROVE  /\ RemoveAt(s, i) \in Seq(S) /\ Len(RemoveAt(s, i)) = Len(s) - 1
         /\ \A j \in 1..(Len(s) - 1) : RemoveAt(s, i)[j] = IF j < i THEN s[j] ELSE s[j + 1]
<1> DEFINE n == Len(s)
           front == SubSeq(s, 1, i - 1)
           back == SubSeq(s, i + 1, n)
<1>1. n \in Nat /\ i \in Int /\ 1 <= i /\ i <= n /\ \A j \in 1..n : s[j] \in S
  OBVIOUS
<1> HIDE DEF n
<1>2. /\ front \in Seq(S) /\ Len(front) = i - 1
      /\ \A j \in 1..(i - 1) : front[j] = s[j]
  <2>1. \A j \in 1..(i - 1) : s[j] \in S
    BY <1>1
  <2>2. /\ front \in Seq(S) /\ Len(front) = IF 1 <= i - 1 THEN (i - 1) - 1 + 1 ELSE 0
        /\ \A j \in 1..((i - 1) - 1 + 1) : front[j] = s[1 + j - 1]
    BY <2>1, <1>1, SubSeqProperties
  <2> HIDE DEF front
  <2>3. Len(front) = i - 1
    BY <2>2, <1>1
  <2>4. \A j \in 1..(i - 1) : 1 + j - 1 = j /\ j \in 1..((i - 1) - 1 + 1)
    BY <1>1
  <2> QED BY <2>2, <2>3, <2>4
<1>3. /\ back \in Seq(S) /\ Len(back) = n - i
      /\ \A j \in 1..(n - i) : back[j] = s[i + j]
  <2>1. \A j \in (i + 1)..n : s[j] \in S
    BY <1>1
  <2>2. /\ back \in Seq(S) /\ Len(back) = IF i + 1 <= n THEN n - (i + 1) + 1 ELSE 0
        /\ \A j \in 1..(n - (i + 1) + 1) : back[j] = s[(i + 1) + j - 1]
    BY <2>1, <1>1, SubSeqProperties
  <2> HIDE DEF back
  <2>3. Len(back) = n - i
    BY <2>2, <1>1
  <2>4. \A j \in 1..(n - i) : (i + 1) + j - 1 = i + j /\ j \in 1..(n - (i + 1) + 1)
    BY <1>1
  <2> QED BY <2>2, <2>3, <2>4
<1>4. RemoveAt(s, i) = front \o back
  BY DEF RemoveAt, n
<1> HIDE DEF front, back
<1>5. /\ front \o back \in Seq(S) /\ Len(front \o back) = (i - 1) + (n - i)
      /\ \A j \in 1..((i - 1) + (n - i)) :
           (front \o back)[j] = IF j <= i - 1 THEN front[j] ELSE back[j - (i - 1)]
  <2>1. /\ front \o back \in Seq(S) /\ Len(front \o back) = Len(front) + Len(back)
        /\ \A j \in 1..(Len(front) + Len(back)) :
           (front \o back)[j] = IF j <= Len(front) THEN front[j] ELSE back[j - Len(front)]
    BY <1>2, <1>3, ConcatProperties
  <2>2. Len(front) = i - 1 /\ Len(back) = n - i
    BY <1>2, <1>3
  <2> QED BY <2>1, <2>2
<1>6. ASSUME NEW j \in 1..(n - 1)
      PROVE  (front \o back)[j] = IF j < i THEN s[j] ELSE s[j + 1]
  <2>1. j \in Int /\ 1 <= j /\ j <= n - 1 /\ j \in 1..((i - 1) + (n - i))
    BY <1>1, <1>6
  <2>2. CASE j < i
    <3>1. j <= i - 1 /\ j \in 1..(i - 1)
      BY <2>1, <2>2, <1>1
    <3> QED BY <3>1, <2>1, <2>2, <1>2, <1>5
  <2>3. CASE ~ (j < i)
    <3>1. ~ (j <= i - 1) /\ j - (i - 1) \in 1..(n - i) /\ i + (j - (i - 1)) = j + 1
      BY <2>1, <2>3, <1>1
    <3> QED BY <3>1, <2>1, <2>3, <1>3, <1>5
  <2> QED BY <2>2, <2>3
<1>7. (i - 1) + (n - i) = n - 1
  BY <1>1
<1> QED BY <1>4, <1>5, <1>6, <1>7 DEF n

\* The elements of c are elements of d.
Within(c, d) ==
  \A i \in 1..Len(c.lru) : \E j \in 1..Len(d.lru) : c.lru[i] = d.lru[j]

\* Erase leaves a good cache without the key.
LEMMA EraseGood ==
  ASSUME NEW d, GoodCache(d), NEW key
  PROVE  /\ GoodCache(LruErase(d, key)) /\ Within(LruErase(d, key), d)
         /\ key \notin Keys(LruErase(d, key))
<1>0. d \in Cache
  BY DEF GoodCache
<1>1. CASE key \notin Keys(d)
  BY <1>1 DEF LruErase, Within
<1>2. CASE key \in Keys(d)
  <2> DEFINE a == At(d, key)
             n == Len(d.lru)
             lru == RemoveAt(d.lru, a)
             free == << Lookup(d, key) >> \o d.free
             c == [ lru |-> lru, free |-> free ]
  <2>1. LruErase(d, key) = c
    BY <1>2 DEF LruErase
  <2>2. a \in 1..n /\ d.lru[a].key = key /\ n \in Nat
    BY <1>0, <1>2, AtKey, CacheFields
  <2>3. /\ lru \in Seq(Element) /\ Len(lru) = n - 1
        /\ \A j \in 1..(n - 1) : lru[j] = IF j < a THEN d.lru[j] ELSE d.lru[j + 1]
    BY <1>0, <2>2, CacheFields, RemoveAtProperties
  <2>4. free \in Seq(Value)
    <3>1. Lookup(d, key) \in Value
      BY <1>0, <2>2, CacheFields DEF Lookup
    <3> HIDE DEF a
    <3>2. << Lookup(d, key) >> \in Seq(Value)
      BY <3>1
    <3> QED BY <3>2, <1>0, CacheFields
  <2> DEFINE Source(j) == IF j < a THEN j ELSE j + 1
  <2> HIDE DEF lru, free, a, n
  <2>5. c \in Cache /\ c.lru = lru
    BY <2>3, <2>4 DEF Cache
  <2>6. ASSUME NEW j \in 1..(n - 1)
        PROVE  Source(j) \in 1..n /\ lru[j] = d.lru[Source(j)] /\ Source(j) # a
    <3>1. CASE j < a
      BY <3>1, <2>2, <2>3
    <3>2. CASE ~ (j < a)
      BY <3>2, <2>2, <2>3
    <3> QED BY <3>1, <3>2
  <2>7. \A j, k \in 1..(n - 1) : Source(j) = Source(k) => j = k
    BY <2>2
  <2> HIDE DEF Source
  <2>8. \A j \in 1..(n - 1) : GoodElement(lru[j])
    BY <2>6 DEF GoodCache, n
  <2>9. ASSUME NEW j \in 1..(n - 1), NEW k \in 1..(n - 1), lru[j].value.word = lru[k].value.word
        PROVE  j = k
    <3>1. /\ Source(j) \in 1..n /\ Source(k) \in 1..n
          /\ d.lru[Source(j)].value.word = d.lru[Source(k)].value.word
      BY <2>6, <2>9
    <3>2. Source(j) = Source(k)
      BY <3>1 DEF GoodCache, n
    <3> QED BY <3>2, <2>7
  <2>10. GoodCache(c)
    BY <2>3, <2>5, <2>8, <2>9 DEF GoodCache
  <2>11. Within(c, d)
    BY <2>3, <2>5, <2>6 DEF Within, n
  <2>12. key \notin Keys(c)
    <3> SUFFICES ASSUME key \in Keys(c) PROVE FALSE
      OBVIOUS
    <3>1. DOMAIN lru = 1..(n - 1)
      BY <2>3
    <3>2. PICK j \in 1..(n - 1) : lru[j].key = key
      BY <2>5, <3>1 DEF Keys
    <3>3. Source(j) \in 1..n /\ d.lru[Source(j)].key = d.lru[a].key /\ Source(j) # a
      BY <3>2, <2>2, <2>6
    <3> QED BY <3>3, <2>2, GoodKeys DEF n
  <2> QED BY <2>1, <2>10, <2>11, <2>12
<1> QED BY <1>1, <1>2

\* v is w with other links, marked removed or no longer used.
KeepsWord(v, w) == v.word = w.word /\ v.time = w.time /\ (v.used => w.used)

\* c is d up to such changes.
Same(c, d) ==
  /\ c \in Cache /\ Len(c.lru) = Len(d.lru)
  /\ \A i \in 1..Len(d.lru) :
       c.lru[i].key = d.lru[i].key /\ KeepsWord(c.lru[i].value, d.lru[i].value)

\* Same is reflexive, ...
LEMMA SameRefl == ASSUME NEW d \in Cache PROVE Same(d, d)
BY DEF Same, KeepsWord

\* ... transitive, ...
LEMMA SameTrans ==
  ASSUME NEW b, NEW c, NEW d, Same(b, c), Same(c, d)
  PROVE  Same(b, d)
<1>1. Len(b.lru) = Len(d.lru) /\ b \in Cache
  BY DEF Same
<1>2. ASSUME NEW i \in 1..Len(d.lru)
      PROVE  b.lru[i].key = d.lru[i].key /\ KeepsWord(b.lru[i].value, d.lru[i].value)
  <2>1. i \in 1..Len(c.lru)
    BY <1>2 DEF Same
  <2> QED BY <1>2, <2>1 DEF Same, KeepsWord
<1> QED BY <1>1, <1>2 DEF Same

\* ... and keeps a cache good.
LEMMA SameGood ==
  ASSUME NEW c, NEW d, Same(c, d), GoodCache(d)
  PROVE  GoodCache(c)
<1>1. c \in Cache /\ Len(c.lru) = Len(d.lru)
  BY DEF Same
<1>2. \A i \in 1..Len(c.lru) :
        /\ c.lru[i].key = d.lru[i].key
        /\ c.lru[i].value.word = d.lru[i].value.word
        /\ c.lru[i].value.used => d.lru[i].value.used
        /\ GoodElement(d.lru[i])
  BY <1>1 DEF Same, KeepsWord, GoodCache
<1>3. \A i \in 1..Len(c.lru) : GoodElement(c.lru[i])
  BY <1>2 DEF GoodElement
<1>4. ASSUME NEW i \in 1..Len(c.lru), NEW j \in 1..Len(c.lru),
             c.lru[i].value.word = c.lru[j].value.word
      PROVE  i = j
  <2>1. d.lru[i].value.word = d.lru[j].value.word /\ i \in 1..Len(d.lru) /\ j \in 1..Len(d.lru)
    BY <1>1, <1>2, <1>4
  <2> QED BY <2>1 DEF GoodCache
<1> QED BY <1>1, <1>3, <1>4 DEF GoodCache

\* A value of the cache is replaced.
LEMMA PutValue ==
  ASSUME NEW d \in Cache, NEW i \in 1..Len(d.lru), NEW v \in Value
  PROVE  LET c == [ d EXCEPT !.lru[i].value = v ]
         IN  /\ c \in Cache /\ Len(c.lru) = Len(d.lru) /\ c.free = d.free
             /\ c.lru[i].key = d.lru[i].key /\ c.lru[i].value = v
             /\ \A j \in 1..Len(d.lru) : j # i => c.lru[j] = d.lru[j]
<1> DEFINE e == [ d.lru[i] EXCEPT !.value = v ]
           lru == [ d.lru EXCEPT ![i] = e ]
           c == [ d EXCEPT !.lru = lru ]
<1>1. d.lru \in Seq(Element) /\ d.lru[i] \in Element /\ Len(d.lru) \in Nat
  BY CacheFields
<1>2. e \in Element /\ e.key = d.lru[i].key /\ e.value = v
  BY <1>1 DEF Element
<1> HIDE DEF e
<1>3. /\ lru \in Seq(Element) /\ Len(lru) = Len(d.lru)
      /\ \A j \in 1..Len(d.lru) : lru[j] = IF j = i THEN e ELSE d.lru[j]
  BY <1>1, <1>2, ExceptSeq
<1>4. [ d EXCEPT !.lru[i].value = v ] = c
  BY DEF e
<1> HIDE DEF lru
<1>5. c \in Cache /\ c.lru = lru /\ c.free = d.free
  BY <1>3 DEF Cache
<1> HIDE DEF c
<1> QED BY <1>2, <1>3, <1>4, <1>5

\* A cache whose element is changed where there is none.
LEMMA PutNowhere ==
  ASSUME NEW d \in Cache, NEW i, i \notin 1..Len(d.lru), NEW v
  PROVE  [ d EXCEPT !.lru[i].value = v ] = d
<1>1. d.lru \in Seq(Element) /\ DOMAIN d.lru = 1..Len(d.lru)
  BY CacheFields
<1>2. [ d.lru EXCEPT ![i].value = v ] = d.lru
  BY <1>1
<1>3. [ d EXCEPT !.lru = d.lru ] = d
  BY DEF Cache
<1> QED BY <1>2, <1>3

\* A value put in place that keeps the word leaves the same cache.
LEMMA PutSame ==
  ASSUME NEW d \in Cache, NEW i, NEW v,
         i \in 1..Len(d.lru) => v \in Value /\ KeepsWord(v, d.lru[i].value)
  PROVE  Same([ d EXCEPT !.lru[i].value = v ], d)
<1> DEFINE c == [ d EXCEPT !.lru[i].value = v ]
<1>1. CASE i \notin 1..Len(d.lru)
  <2>1. c = d
    BY <1>1, PutNowhere
  <2> QED BY <2>1, SameRefl
<1>2. CASE i \in 1..Len(d.lru)
  <2>1. /\ c \in Cache /\ Len(c.lru) = Len(d.lru)
        /\ c.lru[i].key = d.lru[i].key /\ c.lru[i].value = v
        /\ \A j \in 1..Len(d.lru) : j # i => c.lru[j] = d.lru[j]
    BY <1>2, PutValue
  <2> HIDE DEF c
  <2>2. Same(c, d)
    BY <1>2, <2>1 DEF Same, KeepsWord
  <2> QED BY <2>2 DEF c
<1> QED BY <1>1, <1>2

\* Other links in an element.
LEMMA PutNext ==
  ASSUME NEW d \in Cache, NEW i, NEW next,
         i \in 1..Len(d.lru) => next \in Seq(Text)
  PROVE  Same([ d EXCEPT !.lru[i].value.next = next ], d)
<1> DEFINE v == [ d.lru[i].value EXCEPT !.next = next ]
<1>1. i \in 1..Len(d.lru) => v \in Value /\ KeepsWord(v, d.lru[i].value)
  <2> SUFFICES ASSUME i \in 1..Len(d.lru) PROVE v \in Value /\ KeepsWord(v, d.lru[i].value)
    OBVIOUS
  <2>1. d.lru[i].value \in Value /\ next \in Seq(Text)
    BY CacheFields
  <2> QED BY <2>1 DEF Value, KeepsWord
<1>2. Same([ d EXCEPT !.lru[i].value = v ], d)
  <2> HIDE DEF v
  <2> QED BY <1>1, PutSame
<1> QED BY <1>2

\* Linking an entry to the next one,
LEMMA InsertNextEntrySame ==
  ASSUME NEW d \in Cache, NEW word, NEW fp \in Text
  PROVE  Same(InsertNextEntry(d, word, fp), d)
<1> DEFINE i == At(d, word)
           next == d.lru[i].value.next
           more == IF Len(next) < MaxNextEntries THEN Append(next, fp)
                   ELSE [ next EXCEPT ![RoomFor(d, next, fp)] = fp ]
<1>1. CASE fp = NoWord
  BY <1>1, SameRefl DEF InsertNextEntry
<1>2. CASE fp # NoWord
  <2>1. InsertNextEntry(d, word, fp) = [ d EXCEPT !.lru[i].value.next = more ]
    BY <1>2 DEF InsertNextEntry, Lookup
  <2>2. i \in 1..Len(d.lru) => more \in Seq(Text)
    <3> SUFFICES ASSUME i \in 1..Len(d.lru) PROVE more \in Seq(Text)
      OBVIOUS
    <3>1. next \in Seq(Text)
      BY CacheFields DEF Value
    <3> HIDE DEF next
    <3>2. Append(next, fp) \in Seq(Text)
      BY <3>1
    <3> DEFINE r == RoomFor(d, next, fp)
    <3> HIDE DEF r
    <3>3. [ next EXCEPT ![r] = fp ] \in Seq(Text)
      <4>1. CASE r \in 1..Len(next)
        BY <3>1, <4>1, ExceptSeq
      <4>2. CASE r \notin 1..Len(next)
        <5>1. [ next EXCEPT ![r] = fp ] = next
          BY <3>1, <4>2
        <5> QED BY <5>1, <3>1
      <4> QED BY <4>1, <4>2
    <3> QED BY <3>2, <3>3 DEF r
  <2> HIDE DEF more, i
  <2>3. Same([ d EXCEPT !.lru[i].value.next = more ], d)
    BY <2>2, PutNext
  <2> QED BY <2>1, <2>3
<1> QED BY <1>1, <1>2

\* unlinking it,
LEMMA EraseNextEntriesSame ==
  ASSUME NEW d \in Cache, NEW key, NEW fp
  PROVE  Same(EraseNextEntries(d, key, fp), d)
<1> DEFINE i == At(d, key)
           next == d.lru[i].value.next
           kept == { j \in DOMAIN next : next[j] # fp }
<1>1. EraseNextEntries(d, key, fp) = [ d EXCEPT !.lru[i].value.next = SwapOut(next, kept) ]
  BY DEF EraseNextEntries, Lookup
<1>2. i \in 1..Len(d.lru) => SwapOut(next, kept) \in Seq(Text)
  <2> SUFFICES ASSUME i \in 1..Len(d.lru) PROVE SwapOut(next, kept) \in Seq(Text)
    OBVIOUS
  <2>1. next \in Seq(Text)
    BY CacheFields DEF Value
  <2>2. kept \in SUBSET DOMAIN next
    OBVIOUS
  <2> HIDE DEF next, kept
  <2> QED BY <2>1, <2>2, SwapOutSeq
<1> DEFINE less == SwapOut(next, kept)
<1> HIDE DEF less, i
<1>3. Same([ d EXCEPT !.lru[i].value.next = less ], d)
  BY <1>2, PutNext DEF less
<1> QED BY <1>1, <1>3 DEF less

\* and marking it removed leave the elements in their places.
LEMMA MarkRemovedSame ==
  ASSUME NEW d \in Cache, NEW word
  PROVE  Same(MarkRemoved(d, word), d)
<1>1. CASE word \notin Keys(d)
  BY <1>1, SameRefl DEF MarkRemoved
<1>2. CASE word \in Keys(d)
  <2> DEFINE i == At(d, word)
             yes == TRUE
             v == [ d.lru[i].value EXCEPT !.removed = yes ]
             c == [ d EXCEPT !.lru[i].value = v ]
             used == c.lru[i].value.used /\ d.lru[i].value.removed
             w == [ c.lru[i].value EXCEPT !.used = used ]
  <2>1. MarkRemoved(d, word) = [ c EXCEPT !.lru[i].value = w ]
    BY <1>2 DEF MarkRemoved, Lookup
  <2>2. i \in 1..Len(d.lru) => v \in Value /\ KeepsWord(v, d.lru[i].value)
    <3>1. yes \in BOOLEAN
      OBVIOUS
    <3> HIDE DEF yes
    <3> QED BY <3>1, CacheFields DEF Value, KeepsWord
  <2> HIDE DEF v, i
  <2>3. Same(c, d)
    BY <2>2, PutSame
  <2> HIDE DEF c
  <2>4. c \in Cache
    BY <2>3 DEF Same
  <2>5. i \in 1..Len(c.lru) => w \in Value /\ KeepsWord(w, c.lru[i].value)
    <3>1. used \in BOOLEAN /\ (used => c.lru[i].value.used)
      OBVIOUS
    <3> HIDE DEF used
    <3> QED BY <2>4, <3>1, CacheFields DEF Value, KeepsWord
  <2> HIDE DEF w
  <2>6. Same([ c EXCEPT !.lru[i].value = w ], c)
    BY <2>4, <2>5, PutSame
  <2> QED BY <2>1, <2>3, <2>6, SameTrans
<1> QED BY <1>1, <1>2

\* Cutting chains changes nothing but links.
LEMMA RemoveChainsSame ==
  ASSUME NEW d \in Cache, NEW target
  PROVE  Same(RemoveChains(d, target), d)
<1> DEFINE n == Len(d.lru)
           ids == [ i \in DOMAIN d.lru |-> i ]
           Step(c, i) == LET r == RemoveNgramChain(c, target, c.lru[i].key)
                         IN  IF r.result = "DONE" THEN EraseNextEntries(c, r.from, r.to) ELSE c
           D == { c \in Cache : Same(c, d) }
           F == [ p \in D \X (1..n) |-> Step(p[1], p[2]) ]
           Is(h) == h = [ s \in SUBSET DOMAIN ids |->
                            IF s = {} THEN d ELSE Step(h[s \ {Max(s)}], ids[Max(s)]) ]
           iter == CHOOSE h : Is(h)
<1>1. RemoveChains(d, target) = iter[DOMAIN ids]
  BY DEF RemoveChains, FoldLeft, MapThenFoldSet
<1>2. n \in Nat /\ DOMAIN ids = 1..n /\ \A i \in 1..n : ids[i] = i
  BY CacheFields
<1>3. ASSUME NEW c \in D, NEW i \in 1..n PROVE Step(c, i) \in D
  <2> DEFINE r == RemoveNgramChain(c, target, c.lru[i].key)
  <2>1. Step(c, i) = EraseNextEntries(c, r.from, r.to) \/ Step(c, i) = c
    <3> HIDE DEF r
    <3>1. Step(c, i) = IF r.result = "DONE" THEN EraseNextEntries(c, r.from, r.to) ELSE c
      BY DEF r
    <3> QED BY <3>1
  <2> HIDE DEF Step
  <2>2. Same(EraseNextEntries(c, r.from, r.to), c)
    BY <1>3, EraseNextEntriesSame
  <2>3. Same(EraseNextEntries(c, r.from, r.to), d)
    BY <1>3, <2>2, SameTrans
  <2>4. EraseNextEntries(c, r.from, r.to) \in Cache
    BY <2>3 DEF Same
  <2> QED BY <1>3, <2>1, <2>3, <2>4
<1>4. d \in D
  BY SameRefl
<1> HIDE DEF n, ids, D, Step
<1>5. StepsIn(F, D, n)
  BY <1>3 DEF StepsIn
<1>6. \A c \in D, i \in 1..n : F[<<c, i>>] = Step(c, i)
  OBVIOUS
<1> HIDE DEF F
<1>7. PICK g : IsFold(g, F, D, n, d)
  BY <1>2, <1>4, <1>5, FoldExists
<1>8. Is(g)
  <2>1. \A s \in SUBSET (1..n) :
          g[s] = IF s = {} THEN d ELSE Step(g[s \ {Max(s)}], ids[Max(s)])
    <3> TAKE s \in SUBSET (1..n)
    <3>1. s # {} => g[s] = F[<<g[s \ {Max(s)}], Max(s)>>]
      BY <1>7 DEF IsFold
    <3>2. s # {} => Max(s) \in 1..n
      BY <1>2, MaxIn
    <3>3. s \ {Max(s)} \in SUBSET (1..n)
      OBVIOUS
    <3>4. g[s \ {Max(s)}] \in D
      BY <3>3, <1>7 DEF IsFold
    <3>5. s # {} => g[s] = Step(g[s \ {Max(s)}], ids[Max(s)])
      BY <3>1, <3>2, <3>4, <1>2, <1>6
    <3> QED BY <3>5, <1>7 DEF IsFold
  <2>2. g = [ s \in SUBSET (1..n) |-> g[s] ]
    BY <1>7 DEF IsFold
  <2>3. [ s \in SUBSET (1..n) |-> g[s] ]
         = [ s \in SUBSET (1..n) |->
               IF s = {} THEN d ELSE Step(g[s \ {Max(s)}], ids[Max(s)]) ]
    BY <2>1
  <2> QED BY <2>2, <2>3, <1>2
<1>9. Is(iter)
  BY <1>8
<1> HIDE DEF iter
<1>10. iter[{}] \in D
  <2>1. {} \in SUBSET DOMAIN ids
    OBVIOUS
  <2>2. iter[{}] = d
    BY <2>1, <1>9
  <2> QED BY <2>2, <1>4
<1>11. \A s \in SUBSET (1..n) : s # {} /\ iter[s \ {Max(s)}] \in D => iter[s] \in D
  <2> SUFFICES ASSUME NEW s \in SUBSET (1..n), s # {}, iter[s \ {Max(s)}] \in D
               PROVE  iter[s] \in D
    OBVIOUS
  <2>1. Max(s) \in 1..n
    BY <1>2, MaxIn
  <2>2. iter[s] = Step(iter[s \ {Max(s)}], ids[Max(s)])
    BY <1>2, <1>9
  <2> QED BY <2>1, <2>2, <1>2, <1>3
<1>12. iter[1..n] \in D
  BY <1>2, <1>10, <1>11, FoldIn
<1> QED BY <1>1, <1>2, <1>12 DEF D

\* A part of a part is a part.
LEMMA WithinTrans ==
  ASSUME NEW b, NEW c, NEW d, Within(b, c), Within(c, d)
  PROVE  Within(b, d)
BY DEF Within

\* The keys of a part.
LEMMA WithinKeys ==
  ASSUME NEW c \in Cache, NEW d \in Cache, Within(c, d)
  PROVE  Keys(c) \subseteq Keys(d)
<1>1. DOMAIN c.lru = 1..Len(c.lru) /\ DOMAIN d.lru = 1..Len(d.lru)
  BY CacheFields
<1> QED BY <1>1 DEF Within, Keys

\* The caches that are left of d when elements are erased.
Parts(d) == { c \in Cache : GoodCache(c) /\ Within(c, d) }

\* What LruErase leaves of a part is a part.
LEMMA ErasePart ==
  ASSUME NEW d, NEW c \in Parts(d), NEW key
  PROVE  LruErase(c, key) \in Parts(d)
<1>1. GoodCache(c) /\ Within(c, d)
  BY DEF Parts
<1>2. GoodCache(LruErase(c, key)) /\ Within(LruErase(c, key), c)
  BY <1>1, EraseGood
<1>3. Within(LruErase(c, key), d)
  BY <1>1, <1>2, WithinTrans
<1> QED BY <1>2, <1>3 DEF Parts, GoodCache

\* The whole cache is one.
LEMMA WholePart == ASSUME NEW d, GoodCache(d) PROVE d \in Parts(d)
BY DEF Parts, Within, GoodCache

\* Reverting leaves a part of the cache.
LEMMA RevertGood ==
  ASSUME NEW d, GoodCache(d), NEW keys \in Seq(Text)
  PROVE  FoldLeft(LruErase, d, keys) \in Parts(d)
<1> DEFINE n == Len(keys)
           ids == keys
           Step(c, key) == LruErase(c, key)
           D == Parts(d)
           F == [ p \in D \X (1..n) |-> Step(p[1], ids[p[2]]) ]
           Is(h) == h = [ s \in SUBSET DOMAIN ids |->
                            IF s = {} THEN d ELSE Step(h[s \ {Max(s)}], ids[Max(s)]) ]
           iter == CHOOSE h : Is(h)
<1>1. FoldLeft(LruErase, d, keys) = iter[DOMAIN ids]
  BY DEF FoldLeft, MapThenFoldSet
<1>2. n \in Nat /\ DOMAIN ids = 1..n
  OBVIOUS
<1>3. ASSUME NEW c \in D, NEW i \in 1..n PROVE Step(c, ids[i]) \in D
  BY <1>3, ErasePart
<1>4. d \in D
  BY WholePart
<1> HIDE DEF n, ids, D, Step
<1>5. StepsIn(F, D, n)
  BY <1>3 DEF StepsIn
<1>6. \A c \in D, i \in 1..n : F[<<c, i>>] = Step(c, ids[i])
  OBVIOUS
<1> HIDE DEF F
<1>7. PICK g : IsFold(g, F, D, n, d)
  BY <1>2, <1>4, <1>5, FoldExists
<1>8. Is(g)
  <2>1. \A s \in SUBSET (1..n) :
          g[s] = IF s = {} THEN d ELSE Step(g[s \ {Max(s)}], ids[Max(s)])
    <3> TAKE s \in SUBSET (1..n)
    <3>1. s # {} => g[s] = F[<<g[s \ {Max(s)}], Max(s)>>]
      BY <1>7 DEF IsFold
    <3>2. s # {} => Max(s) \in 1..n
      BY <1>2, MaxIn
    <3>3. s \ {Max(s)} \in SUBSET (1..n)
      OBVIOUS
    <3>4. g[s \ {Max(s)}] \in D
      BY <3>3, <1>7 DEF IsFold
    <3>5. s # {} => g[s] = Step(g[s \ {Max(s)}], ids[Max(s)])
      BY <3>1, <3>2, <3>4, <1>2, <1>6
    <3> QED BY <3>5, <1>7 DEF IsFold
  <2>2. g = [ s \in SUBSET (1..n) |-> g[s] ]
    BY <1>7 DEF IsFold
  <2>3. [ s \in SUBSET (1..n) |-> g[s] ]
         = [ s \in SUBSET (1..n) |->
               IF s = {} THEN d ELSE Step(g[s \ {Max(s)}], ids[Max(s)]) ]
    BY <2>1
  <2> QED BY <2>2, <2>3, <1>2
<1>9. Is(iter)
  BY <1>8
<1> HIDE DEF iter
<1>10. iter[{}] \in D
  <2>1. {} \in SUBSET DOMAIN ids
    OBVIOUS
  <2>2. iter[{}] = d
    BY <2>1, <1>9
  <2> QED BY <2>2, <1>4
<1>11. \A s \in SUBSET (1..n) : s # {} /\ iter[s \ {Max(s)}] \in D => iter[s] \in D
  <2> SUFFICES ASSUME NEW s \in SUBSET (1..n), s # {}, iter[s \ {Max(s)}] \in D
               PROVE  iter[s] \in D
    OBVIOUS
  <2>1. Max(s) \in 1..n
    BY <1>2, MaxIn
  <2>2. iter[s] = Step(iter[s \ {Max(s)}], ids[Max(s)])
    BY <1>2, <1>9
  <2> QED BY <2>1, <2>2, <1>2, <1>3
<1>12. iter[1..n] \in D
  BY <1>2, <1>10, <1>11, FoldIn
<1> QED BY <1>1, <1>2, <1>12 DEF D

\* ClearUnusedHistory leaves the elements that a suggestion showed.
LEMMA ClearUnusedGood ==
  ASSUME NEW d, GoodCache(d)
  PROVE  LET rest == FoldLeft(LAMBDA c, e : IF e.value.used THEN c ELSE LruErase(c, e.key),
                              d, d.lru)
         IN  rest \in Parts(d) /\ \A i \in 1..Len(rest.lru) : rest.lru[i].value.used
<1> DEFINE rest == FoldLeft(LAMBDA c, e : IF e.value.used THEN c ELSE LruErase(c, e.key),
                            d, d.lru)
           n == Len(d.lru)
           ids == d.lru
           Step(c, e) == IF e.value.used THEN c ELSE LruErase(c, e.key)
           D == Parts(d)
           F == [ p \in D \X (1..n) |-> Step(p[1], ids[p[2]]) ]
           Is(h) == h = [ s \in SUBSET DOMAIN ids |->
                            IF s = {} THEN d ELSE Step(h[s \ {Max(s)}], ids[Max(s)]) ]
           iter == CHOOSE h : Is(h)
           Gone(s) == \A i \in s : ~ids[i].value.used => ids[i].key \notin Keys(iter[s])
           B == { s \in SUBSET (1..n) : iter[s] \in D /\ Gone(s) }
<1>0. d \in Cache
  BY DEF GoodCache
<1>1. rest = iter[DOMAIN ids]
  BY DEF FoldLeft, MapThenFoldSet
<1>2. n \in Nat /\ DOMAIN ids = 1..n
  BY <1>0, CacheFields
<1>3. ASSUME NEW c \in D, NEW i \in 1..n PROVE Step(c, ids[i]) \in D
  BY <1>3, ErasePart
<1>4. d \in D
  BY WholePart
<1>4a. ASSUME NEW c \in D, NEW i \in 1..n
      PROVE  /\ Keys(Step(c, ids[i])) \subseteq Keys(c)
             /\ ~ids[i].value.used => ids[i].key \notin Keys(Step(c, ids[i]))
  <2>1. GoodCache(c) /\ c \in Cache
    BY <1>4a DEF Parts
  <2> DEFINE b == LruErase(c, ids[i].key)
  <2>2. GoodCache(b) /\ Within(b, c) /\ ids[i].key \notin Keys(b)
    BY <2>1, EraseGood
  <2>3. Keys(b) \subseteq Keys(c)
    BY <2>1, <2>2, WithinKeys DEF GoodCache
  <2> QED BY <2>2, <2>3
<1> HIDE DEF n, ids, D, Step, rest
<1>5. StepsIn(F, D, n)
  BY <1>3 DEF StepsIn
<1>6. \A c \in D, i \in 1..n : F[<<c, i>>] = Step(c, ids[i])
  OBVIOUS
<1> HIDE DEF F
<1>7. PICK g : IsFold(g, F, D, n, d)
  BY <1>2, <1>4, <1>5, FoldExists
<1>8. Is(g)
  <2>1. \A s \in SUBSET (1..n) :
          g[s] = IF s = {} THEN d ELSE Step(g[s \ {Max(s)}], ids[Max(s)])
    <3> TAKE s \in SUBSET (1..n)
    <3>1. s # {} => g[s] = F[<<g[s \ {Max(s)}], Max(s)>>]
      BY <1>7 DEF IsFold
    <3>2. s # {} => Max(s) \in 1..n
      BY <1>2, MaxIn
    <3>3. s \ {Max(s)} \in SUBSET (1..n)
      OBVIOUS
    <3>4. g[s \ {Max(s)}] \in D
      BY <3>3, <1>7 DEF IsFold
    <3>5. s # {} => g[s] = Step(g[s \ {Max(s)}], ids[Max(s)])
      BY <3>1, <3>2, <3>4, <1>2, <1>6
    <3> QED BY <3>5, <1>7 DEF IsFold
  <2>2. g = [ s \in SUBSET (1..n) |-> g[s] ]
    BY <1>7 DEF IsFold
  <2>3. [ s \in SUBSET (1..n) |-> g[s] ]
         = [ s \in SUBSET (1..n) |->
               IF s = {} THEN d ELSE Step(g[s \ {Max(s)}], ids[Max(s)]) ]
    BY <2>1
  <2> QED BY <2>2, <2>3, <1>2
<1>9. Is(iter)
  BY <1>8
<1> HIDE DEF iter
<1>10. iter[{}] \in D
  <2>1. {} \in SUBSET DOMAIN ids
    OBVIOUS
  <2>2. iter[{}] = d
    BY <2>1, <1>9
  <2> QED BY <2>2, <1>4
<1>11. \A s \in SUBSET (1..n) : s # {} /\ s \ {Max(s)} \in B => s \in B
  <2> SUFFICES ASSUME NEW s \in SUBSET (1..n), s # {}, s \ {Max(s)} \in B
               PROVE  s \in B
    OBVIOUS
  <2> DEFINE t == s \ {Max(s)}
  <2>1. Max(s) \in 1..n
    BY <1>2, MaxIn
  <2>2. iter[s] = Step(iter[t], ids[Max(s)])
    BY <1>2, <1>9
  <2>3. iter[t] \in D /\ Gone(t)
    OBVIOUS
  <2>4. iter[s] \in D
    BY <2>1, <2>2, <2>3, <1>3
  <2>5. /\ Keys(iter[s]) \subseteq Keys(iter[t])
        /\ ~ids[Max(s)].value.used => ids[Max(s)].key \notin Keys(iter[s])
    BY <2>1, <2>2, <2>3, <1>4a
  <2>6. Gone(s)
    BY <2>3, <2>5
  <2> QED BY <2>4, <2>6
<1>12. 1..n \in B
  <2>1. {} \in B
    BY <1>10
  <2> HIDE DEF B
  <2> QED BY <2>1, <1>2, <1>11, FoldInduction
<1>13. rest \in D /\ \A i \in 1..n : ~ids[i].value.used => ids[i].key \notin Keys(rest)
  BY <1>1, <1>2, <1>12
<1>14. ASSUME NEW i \in 1..Len(rest.lru) PROVE rest.lru[i].value.used
  <2>1. rest \in Cache /\ Within(rest, d)
    BY <1>13 DEF D, Parts
  <2>2. PICK j \in 1..n : rest.lru[i] = ids[j]
    BY <2>1, <1>14 DEF Within, n, ids
  <2>3. rest.lru[i].key \in Keys(rest)
    BY <2>1, <1>14, CacheFields DEF Keys
  <2> QED BY <2>2, <2>3, <1>13
<1> QED BY <1>13, <1>14 DEF D, rest

\* A value as its constructor leaves it.
LEMMA NewValueType == NewValue \in Value /\ NewValue.word = NoWord /\ ~NewValue.used
<1>1. NoWord \in Text /\ << >> \in Seq(Text) /\ 0 \in Int
  BY DEF NoWord, Text
<1> DEFINE no == FALSE
           zero == 0
           default == "DEFAULT_ENTRY"
           v == [ word |-> NoWord, type |-> default, removed |-> no,
                  used |-> no, time |-> zero, next |-> << >> ]
<1>3. NewValue = v
  BY DEF NewValue
<1>4. no \in BOOLEAN /\ zero \in Int /\ default \in EventTypes \cup {"DEFAULT_ENTRY"}
  OBVIOUS
<1>5. ~no
  OBVIOUS
<1> HIDE DEF no, zero, default
<1>6. v \in Value /\ v.word = NoWord /\ v.used = no
  BY <1>1, <1>4 DEF Value
<1> HIDE DEF v
<1> QED BY <1>3, <1>5, <1>6

\* A cache with a first element.
Consed(e, c, free) == [ lru |-> << e >> \o c.lru, free |-> free ]

\* Its elements.
LEMMA ConsedShape ==
  ASSUME NEW e \in Element, NEW c \in Cache, NEW free \in Seq(Value)
  PROVE  LET d == Consed(e, c, free)
         IN  /\ d \in Cache /\ Len(d.lru) = Len(c.lru) + 1 /\ d.lru[1] = e
             /\ d.free = free /\ 1 \in 1..Len(d.lru)
             /\ \A i \in 1..Len(d.lru) : i # 1 => /\ i - 1 \in 1..Len(c.lru)
                                                 /\ d.lru[i] = c.lru[i - 1]
<1> DEFINE one == << e >>
           lru == one \o c.lru
           d == Consed(e, c, free)
<1>1. one \in Seq(Element) /\ Len(one) = 1 /\ one[1] = e
  OBVIOUS
<1>2. c.lru \in Seq(Element) /\ Len(c.lru) \in Nat
  BY CacheFields
<1> HIDE DEF one
<1>3. /\ lru \in Seq(Element) /\ Len(lru) = Len(one) + Len(c.lru)
      /\ \A i \in 1..(Len(one) + Len(c.lru)) :
           lru[i] = IF i <= Len(one) THEN one[i] ELSE c.lru[i - Len(one)]
  BY <1>1, <1>2, ConcatProperties
<1>4. d.lru = lru /\ d.free = free
  BY DEF Consed, one
<1>5. d \in Cache
  BY <1>3, <1>4 DEF Cache, Consed, lru, one
<1> HIDE DEF lru, d
<1>6. /\ Len(lru) = Len(c.lru) + 1 /\ 1 \in 1..(1 + Len(c.lru))
      /\ \A i \in 1..(1 + Len(c.lru)) : lru[i] = IF i <= 1 THEN one[i] ELSE c.lru[i - 1]
  BY <1>1, <1>2, <1>3
<1>7. lru[1] = e
  BY <1>1, <1>6
<1>8. \A i \in 1..Len(lru) : i # 1 => i - 1 \in 1..Len(c.lru) /\ lru[i] = c.lru[i - 1]
  <2> SUFFICES ASSUME NEW i \in 1..Len(lru), i # 1
               PROVE  i - 1 \in 1..Len(c.lru) /\ lru[i] = c.lru[i - 1]
    OBVIOUS
  <2>1. i \in Int /\ 2 <= i /\ i <= Len(c.lru) + 1 /\ i \in 1..(1 + Len(c.lru))
    BY <1>2, <1>6
  <2> QED BY <2>1, <1>2, <1>6
<1>9. 1 \in 1..Len(lru)
  BY <1>2, <1>6
<1> QED BY <1>4, <1>5, <1>6, <1>7, <1>8, <1>9 DEF d

\* It is good when the new word is not in the rest.
LEMMA ConsedGood ==
  ASSUME NEW e \in Element, GoodElement(e), NEW c, GoodCache(c), NEW free \in Seq(Value),
         \A i \in 1..Len(c.lru) : c.lru[i].value.word # e.value.word
  PROVE  GoodCache(Consed(e, c, free))
<1> DEFINE d == Consed(e, c, free)
<1>0. c \in Cache /\ Len(c.lru) \in Nat
  BY CacheFields DEF GoodCache
<1>1. /\ d \in Cache /\ Len(d.lru) = Len(c.lru) + 1 /\ d.lru[1] = e
      /\ \A i \in 1..Len(d.lru) : i # 1 => i - 1 \in 1..Len(c.lru) /\ d.lru[i] = c.lru[i - 1]
  <2>1. e \in Element /\ c \in Cache /\ free \in Seq(Value)
    BY <1>0
  <2> QED BY ONLY <2>1, ConsedShape
<1> HIDE DEF d
<1>2. \A i \in 1..Len(d.lru) : GoodElement(d.lru[i])
  BY <1>1 DEF GoodCache
<1>3. ASSUME NEW i \in 1..Len(d.lru), NEW j \in 1..Len(d.lru),
             d.lru[i].value.word = d.lru[j].value.word
      PROVE  i = j
  <2>1. CASE i = 1 /\ j # 1
    BY <1>1, <1>3, <2>1
  <2>2. CASE i # 1 /\ j = 1
    BY <1>1, <1>3, <2>2
  <2>3. CASE i # 1 /\ j # 1
    <3>1. /\ i - 1 \in 1..Len(c.lru) /\ j - 1 \in 1..Len(c.lru)
          /\ c.lru[i - 1].value.word = c.lru[j - 1].value.word
      BY <1>1, <1>3, <2>3
    <3>2. i - 1 = j - 1
      BY <3>1 DEF GoodCache
    <3>3. i \in Int /\ j \in Int
      BY <1>0, <1>1
    <3> QED BY <3>2, <3>3
  <2>4. CASE i = 1 /\ j = 1
    BY <2>4
  <2> QED BY <2>1, <2>2, <2>3, <2>4
<1>4. GoodCache(d)
  BY <1>1, <1>2, <1>3 DEF GoodCache
<1> QED BY <1>4 DEF d

\* Insert puts an element with the key, and some value, before what is left
\* of the cache.
LEMMA LruInsertShape ==
  ASSUME NEW d, GoodCache(d), NEW key \in Text \cup EventKeys
  PROVE  \E c \in Parts(d), value \in Value, free \in Seq(Value) :
            /\ key \notin Keys(c)
            /\ LruInsert(d, key) = Consed([ key |-> key, value |-> value ], c, free)
<1> DEFINE evicted == IF key \in Keys(d) THEN LruErase(d, key)
                      ELSE IF d.free = << >> /\ Len(d.lru) = CacheSize
                      THEN LruErase(d, Last(d.lru).key)
                      ELSE d
           value == IF evicted.free = << >> THEN NewValue ELSE Head(evicted.free)
           free == IF evicted.free = << >> THEN << >> ELSE Tail(evicted.free)
<1>1. d \in Parts(d)
  BY WholePart
<1>2. evicted \in Parts(d) /\ key \notin Keys(evicted)
  <2>1. CASE key \in Keys(d)
    BY <1>1, <2>1, ErasePart, EraseGood
  <2>2. CASE key \notin Keys(d)
    <3> DEFINE last == Last(d.lru).key
    <3>1. LruErase(d, last) \in Parts(d)
      BY <1>1, ErasePart
    <3>2. Keys(LruErase(d, last)) \subseteq Keys(d)
      BY <3>1, WithinKeys DEF Parts, GoodCache
    <3> QED BY <2>2, <3>1, <3>2, <1>1
  <2> QED BY <2>1, <2>2
<1>3. LruInsert(d, key) = Consed([ key |-> key, value |-> value ], evicted, free)
  BY DEF LruInsert, Consed
<1> HIDE DEF evicted
<1>4. evicted.free \in Seq(Value)
  BY <1>2, CacheFields DEF Parts
<1>5. value \in Value /\ free \in Seq(Value)
  BY <1>4, NewValueType
<1> HIDE DEF value, free
<1> QED BY <1>2, <1>3, <1>5

\* The value of an element that was inserted is set.
LEMMA SetFirst ==
  ASSUME NEW c \in Cache, NEW key \in Text \cup EventKeys, key \notin Keys(c),
         NEW value \in Value, NEW free \in Seq(Value), NEW v \in Value
  PROVE  LET d == Consed([ key |-> key, value |-> value ], c, free)
         IN  /\ Lookup(d, key) = value
             /\ SetValue(d, key, v) = Consed([ key |-> key, value |-> v ], c, free)
<1> DEFINE e == [ key |-> key, value |-> value ]
           f == [ key |-> key, value |-> v ]
           d == Consed(e, c, free)
           b == Consed(f, c, free)
<1>1. e \in Element /\ f \in Element /\ e.key = key /\ f.key = key /\ e.value = value /\ f.value = v
  BY DEF Element
<1> HIDE DEF e, f
<1>2. /\ d \in Cache /\ Len(d.lru) = Len(c.lru) + 1 /\ d.lru[1] = e
      /\ d.free = free /\ 1 \in 1..Len(d.lru)
      /\ \A i \in 1..Len(d.lru) : i # 1 => i - 1 \in 1..Len(c.lru) /\ d.lru[i] = c.lru[i - 1]
  BY <1>1, ConsedShape
<1>3. /\ b \in Cache /\ Len(b.lru) = Len(c.lru) + 1 /\ b.lru[1] = f /\ b.free = free
      /\ \A i \in 1..Len(b.lru) : i # 1 => i - 1 \in 1..Len(c.lru) /\ b.lru[i] = c.lru[i - 1]
  BY <1>1, ConsedShape
<1> HIDE DEF d, b
<1>4. \A i \in 1..Len(c.lru) : c.lru[i].key # key
  BY CacheFields DEF Keys
<1>5. \A i \in 1..Len(d.lru) : d.lru[i].key = key => i = 1
  BY <1>2, <1>4
<1>6. key \in Keys(d)
  BY <1>1, <1>2, CacheFields DEF Keys
<1>7. At(d, key) = 1
  BY <1>2, <1>5, <1>6, AtKey
<1>8. Lookup(d, key) = value
  BY <1>1, <1>2, <1>7 DEF Lookup
<1> DEFINE u == [ d EXCEPT !.lru[1].value = v ]
<1>9. SetValue(d, key, v) = u
  BY <1>7 DEF SetValue
<1>10. /\ u \in Cache /\ Len(u.lru) = Len(d.lru) /\ u.free = d.free
       /\ u.lru[1].key = d.lru[1].key /\ u.lru[1].value = v
       /\ \A j \in 1..Len(d.lru) : j # 1 => u.lru[j] = d.lru[j]
  BY <1>2, PutValue
<1> HIDE DEF u
<1>11. u.lru[1] = f
  <2>1. u.lru[1] \in Element
    BY <1>2, <1>10, CacheFields
  <2>2. u.lru[1].key = f.key /\ u.lru[1].value = f.value
    BY <1>1, <1>2, <1>10
  <2> QED BY <2>1, <2>2, <1>1 DEF Element
<1>12. u.lru = b.lru
  <2>1. u.lru \in Seq(Element) /\ b.lru \in Seq(Element) /\ Len(u.lru) = Len(b.lru)
    BY <1>2, <1>3, <1>10, CacheFields
  <2>2. ASSUME NEW i \in 1..Len(u.lru) PROVE u.lru[i] = b.lru[i]
    <3>1. CASE i = 1
      BY <3>1, <1>3, <1>11
    <3>2. CASE i # 1
      <4>1. i \in 1..Len(d.lru) /\ i \in 1..Len(b.lru)
        BY <2>1, <2>2, <1>10
      <4> QED BY <4>1, <3>2, <1>2, <1>3, <1>10
    <3> QED BY <3>1, <3>2
  <2> QED BY <2>1, <2>2, SeqEqual
<1>13. u = b
  <2>1. u.free = b.free
    BY <1>2, <1>3, <1>10
  <2> QED BY <2>1, <1>3, <1>10, <1>12 DEF Cache
<1> QED BY <1>8, <1>9, <1>13 DEF d, b, e, f

\* Learning a word.
LEMMA InsertGood ==
  ASSUME NEW s, GoodCache(s.dic), s.revert \in Seq(Text),
         NEW word \in Text \ {NoWord}, NEW suggested \in BOOLEAN, NEW fp \in Text,
         NEW time \in Int
  PROVE  LET t == Insert(s, word, suggested, fp, time)
         IN  GoodCache(t.dic) /\ t.revert \in Seq(Text) /\ t = [ dic |-> t.dic, revert |-> t.revert ]
<1> DEFINE d == LruInsert(s.dic, word)
           no == FALSE
           v == [ Lookup(d, word) EXCEPT !.word = word, !.removed = no,
                    !.time = time, !.used = @ \/ suggested ]
           set == SetValue(d, word, v)
           keys == IF word \in Keys(s.dic) THEN s.revert ELSE Append(s.revert, word)
           t == [ dic |-> InsertNextEntry(set, word, fp), revert |-> keys ]
<1>1. Insert(s, word, suggested, fp, time) = t
  BY DEF Insert
<1>2. word \in Text \cup EventKeys
  OBVIOUS
<1>3. \E c \in Parts(s.dic), x \in Value, free \in Seq(Value) :
         word \notin Keys(c) /\ d = Consed([ key |-> word, value |-> x ], c, free)
  <2> HIDE DEF d
  <2> QED BY <1>2, LruInsertShape DEF d
<1>4. PICK c \in Parts(s.dic), x \in Value, free \in Seq(Value) :
         word \notin Keys(c) /\ d = Consed([ key |-> word, value |-> x ], c, free)
  BY <1>3
<1>5. c \in Cache /\ GoodCache(c)
  BY DEF Parts
<1> HIDE DEF d
<1>6. Lookup(d, word) = x
  BY <1>2, <1>4, <1>5, SetFirst
<1>7. v \in Value /\ v.word = word
  <2> DEFINE used == x.used \/ suggested
             w == [ x EXCEPT !.word = word, !.removed = no, !.time = time, !.used = used ]
  <2>1. no \in BOOLEAN /\ used \in BOOLEAN
    BY DEF Value
  <2>2. v = w
    <3>1. [ x EXCEPT !.word = word, !.removed = no, !.time = time ].used = x.used
      BY DEF Value
    <3> HIDE DEF no
    <3> QED BY <3>1, <1>6 DEF Value
  <2> HIDE DEF no, used
  <2>3. w \in Value /\ w.word = word
    BY <2>1 DEF Value
  <2> QED BY <2>2, <2>3
<1> HIDE DEF v
<1> DEFINE e == [ key |-> word, value |-> v ]
<1>8. set = Consed(e, c, free)
  BY <1>2, <1>4, <1>5, <1>7, SetFirst
<1>9. e \in Element /\ GoodElement(e) /\ e.value.word = word
  BY <1>2, <1>7 DEF Element, GoodElement
<1>10. ASSUME NEW i \in 1..Len(c.lru) PROVE c.lru[i].value.word # e.value.word
  <2> SUFFICES ASSUME c.lru[i].value.word = word PROVE FALSE
    BY <1>9
  <2>1. c.lru[i].key = word
    BY <1>5, <1>10, GoodKeys
  <2>2. word \in Keys(c)
    BY <2>1, <1>5, <1>10, CacheFields DEF Keys
  <2> QED BY <2>2, <1>4
<1> HIDE DEF e, set
<1>11. GoodCache(set)
  <2>1. GoodCache(Consed(e, c, free))
    BY <1>5, <1>9, <1>10, ConsedGood
  <2> QED BY <2>1, <1>8
<1>12. GoodCache(InsertNextEntry(set, word, fp))
  BY <1>11, InsertNextEntrySame, SameGood DEF GoodCache
<1>13. keys \in Seq(Text)
  OBVIOUS
<1> HIDE DEF keys
<1> QED BY <1>1, <1>12, <1>13

\* What a Finish works on.
Learning == { s \in [ dic : Cache, revert : Seq(Text) ] : GoodCache(s.dic) }

\* Learning one word keeps the cache good.
LEMMA InsertLearning ==
  ASSUME NEW s \in Learning, NEW word \in Text \ {NoWord}, NEW suggested \in BOOLEAN,
         NEW fp \in Text, NEW time \in Int
  PROVE  Insert(s, word, suggested, fp, time) \in Learning
<1> DEFINE t == Insert(s, word, suggested, fp, time)
<1>1. GoodCache(s.dic) /\ s.revert \in Seq(Text)
  BY DEF Learning
<1>2. GoodCache(t.dic) /\ t.revert \in Seq(Text) /\ t = [ dic |-> t.dic, revert |-> t.revert ]
  BY <1>1, InsertGood
<1> HIDE DEF t
<1>3. t.dic \in Cache
  BY <1>2 DEF GoodCache
<1>4. t \in [ dic : Cache, revert : Seq(Text) ]
  BY <1>2, <1>3
<1>5. t \in Learning
  BY <1>2, <1>4 DEF Learning
<1> QED BY <1>5 DEF t

\* What a commit brings: words, and keys to link them to.
LEMMA InputType ==
  ASSUME NEW segments \in Inputs
  PROVE  /\ segments \in Seq(Text \ {NoWord}) /\ segments # << >>
         /\ Len(segments) \in Nat /\ DOMAIN segments = 1..Len(segments)
         /\ 1 \in 1..Len(segments)
         /\ \A i \in 1..Len(segments) : segments[i] \in Text \ {NoWord} /\ segments[i] \in Text
         /\ \A i \in 1..Len(segments) : NextFp(segments, i) \in Text
<1>1. segments \in Seq(Text \ {NoWord}) /\ segments # << >>
  BY InputsAssumption DEF Text
<1>2. /\ Len(segments) \in Nat /\ DOMAIN segments = 1..Len(segments)
      /\ 1 \in 1..Len(segments)
      /\ \A i \in 1..Len(segments) : segments[i] \in Text \ {NoWord} /\ segments[i] \in Text
  BY <1>1
<1>3. ASSUME NEW i \in 1..Len(segments) PROVE NextFp(segments, i) \in Text
  <2>1. NoWord \in Text
    BY DEF NoWord, Text
  <2>2. i # Len(segments) => i + 1 \in 1..Len(segments)
    <3> DEFINE n == Len(segments)
    <3>1. n \in Nat /\ i \in 1..n
      BY <1>2, <1>3
    <3> HIDE DEF n
    <3>2. i # n => i + 1 \in 1..n
      BY <3>1
    <3> QED BY <3>2 DEF n
  <2>3. NextFp(segments, i) = NoWord \/ (i # Len(segments) /\ NextFp(segments, i) = segments[i + 1])
    BY DEF NextFp
  <2> QED BY <2>1, <2>2, <2>3, <1>2
<1> QED BY <1>1, <1>2, <1>3

\* Learning the segments one by one.
LEMMA InsertSegmentsGood ==
  ASSUME now \in Int, NEW t \in Learning, NEW segments \in Inputs, NEW suggested \in BOOLEAN
  PROVE  InsertHistoryForConversionSegments(t, segments, suggested) \in Learning
<1> DEFINE n == Len(segments)
           ids == [ i \in DOMAIN segments |-> i ]
           Step(c, i) == Insert(c, segments[i], suggested, NextFp(segments, i), now)
           D == Learning
           F == [ p \in D \X (1..n) |-> Step(p[1], p[2]) ]
           Is(h) == h = [ s \in SUBSET DOMAIN ids |->
                            IF s = {} THEN t ELSE Step(h[s \ {Max(s)}], ids[Max(s)]) ]
           iter == CHOOSE h : Is(h)
<1>1. InsertHistoryForConversionSegments(t, segments, suggested) = iter[DOMAIN ids]
  BY DEF InsertHistoryForConversionSegments, FoldLeft, MapThenFoldSet
<1>2. n \in Nat /\ DOMAIN ids = 1..n /\ \A i \in 1..n : ids[i] = i
  BY InputType
<1>3. ASSUME NEW c \in D, NEW i \in 1..n PROVE Step(c, i) \in D
  BY <1>3, InputType, InsertLearning
<1>4. t \in D
  OBVIOUS
<1> HIDE DEF n, ids, D, Step
<1>5. StepsIn(F, D, n)
  BY <1>3 DEF StepsIn
<1>6. \A c \in D, i \in 1..n : F[<<c, i>>] = Step(c, i)
  OBVIOUS
<1> HIDE DEF F
<1>7. PICK g : IsFold(g, F, D, n, t)
  BY <1>2, <1>4, <1>5, FoldExists
<1>8. Is(g)
  <2>1. \A s \in SUBSET (1..n) :
          g[s] = IF s = {} THEN t ELSE Step(g[s \ {Max(s)}], ids[Max(s)])
    <3> TAKE s \in SUBSET (1..n)
    <3>1. s # {} => g[s] = F[<<g[s \ {Max(s)}], Max(s)>>]
      BY <1>7 DEF IsFold
    <3>2. s # {} => Max(s) \in 1..n
      BY <1>2, MaxIn
    <3>3. s \ {Max(s)} \in SUBSET (1..n)
      OBVIOUS
    <3>4. g[s \ {Max(s)}] \in D
      BY <3>3, <1>7 DEF IsFold
    <3>5. s # {} => g[s] = Step(g[s \ {Max(s)}], ids[Max(s)])
      BY <3>1, <3>2, <3>4, <1>2, <1>6
    <3> QED BY <3>5, <1>7 DEF IsFold
  <2>2. g = [ s \in SUBSET (1..n) |-> g[s] ]
    BY <1>7 DEF IsFold
  <2>3. [ s \in SUBSET (1..n) |-> g[s] ]
         = [ s \in SUBSET (1..n) |->
               IF s = {} THEN t ELSE Step(g[s \ {Max(s)}], ids[Max(s)]) ]
    BY <2>1
  <2> QED BY <2>2, <2>3, <1>2
<1>9. Is(iter)
  BY <1>8
<1> HIDE DEF iter
<1>10. iter[{}] \in D
  <2>1. {} \in SUBSET DOMAIN ids
    OBVIOUS
  <2>2. iter[{}] = t
    BY <2>1, <1>9
  <2> QED BY <2>2, <1>4
<1>11. \A s \in SUBSET (1..n) : s # {} /\ iter[s \ {Max(s)}] \in D => iter[s] \in D
  <2> SUFFICES ASSUME NEW s \in SUBSET (1..n), s # {}, iter[s \ {Max(s)}] \in D
               PROVE  iter[s] \in D
    OBVIOUS
  <2>1. Max(s) \in 1..n
    BY <1>2, MaxIn
  <2>2. iter[s] = Step(iter[s \ {Max(s)}], ids[Max(s)])
    BY <1>2, <1>9
  <2> QED BY <2>1, <2>2, <1>2, <1>3
<1>12. iter[1..n] \in D
  BY <1>2, <1>10, <1>11, FoldIn
<1> QED BY <1>1, <1>2, <1>12 DEF D

\* The link from the last history segment.
LEMMA LinkFromGood ==
  ASSUME NEW d, GoodCache(d), NEW prev, NEW segments \in Inputs, NEW suggested
  PROVE  GoodCache(LinkFrom(d, prev, segments, suggested))
<1> DEFINE all == FlattenSeq(segments)
           d1 == IF suggested THEN d ELSE InsertNextEntry(d, prev, segments[1])
<1>1. segments[1] \in Text /\ all \in Text
  BY InputType, FlattenWords
<1>2. \A c : GoodCache(c) => \A fp \in Text : GoodCache(InsertNextEntry(c, prev, fp))
  BY InsertNextEntrySame, SameGood DEF GoodCache
<1>3. GoodCache(d1)
  BY <1>1, <1>2
<1>4. \/ LinkFrom(d, prev, segments, suggested) = d
      \/ LinkFrom(d, prev, segments, suggested) = InsertNextEntry(d1, prev, all)
      \/ LinkFrom(d, prev, segments, suggested) = d1
  BY DEF LinkFrom
<1> HIDE DEF all, d1
<1> QED BY <1>1, <1>2, <1>3, <1>4

\* InsertHistory keeps the cache good: its segments, the whole and the links.
LEMMA InsertHistoryGood ==
  ASSUME now \in Int, NEW s \in Learning, NEW prev, NEW segments \in Inputs,
         NEW suggested \in BOOLEAN
  PROVE  InsertHistory(s, prev, segments, suggested) \in Learning
<1> DEFINE s1 == InsertHistoryForConversionSegments(s, segments, suggested)
           s2 == IF Len(segments) > 1
                 THEN Insert(s1, FlattenSeq(segments), suggested, NoWord, now) ELSE s1
           linked == LinkFrom(s2.dic, prev, segments, suggested)
<1>1. s1 \in Learning
  BY InsertSegmentsGood
<1>2. FlattenSeq(segments) \in Text \ {NoWord} /\ NoWord \in Text
  BY InputType, FlattenWords DEF NoWord, Text
<1> HIDE DEF s1
<1>3. s2 \in Learning
  BY <1>1, <1>2, InsertLearning
<1>4. InsertHistory(s, prev, segments, suggested) = [ s2 EXCEPT !.dic = linked ]
  BY DEF InsertHistory, s1
<1> HIDE DEF s2
<1>5. GoodCache(linked) /\ linked \in Cache
  BY <1>3, LinkFromGood DEF Learning, GoodCache
<1> HIDE DEF linked
<1> DEFINE t == [ s2 EXCEPT !.dic = linked ]
<1>6. t \in [ dic : Cache, revert : Seq(Text) ] /\ t.dic = linked
  BY <1>3, <1>5 DEF Learning
<1>7. t \in Learning
  BY <1>5, <1>6 DEF Learning
<1> QED BY <1>4, <1>7

\* So does joining a punctuation to the word before it.
LEMMA JoinPunctuationGood ==
  ASSUME now \in Int, NEW s \in Learning, NEW prev, NEW segments \in Inputs,
         NEW suggested \in BOOLEAN
  PROVE  JoinPunctuation(s, prev, segments, suggested) \in Learning
<1> DEFINE head == s.dic.lru[1].value
           t == JoinPunctuation(s, prev, segments, suggested)
<1>1. CASE s.dic.lru = << >>
  BY <1>1 DEF JoinPunctuation
<1>2. CASE s.dic.lru # << >>
  <2>1. s.dic \in Cache
    BY DEF Learning
  <2>2. 1 \in 1..Len(s.dic.lru)
    BY <1>2, <2>1, CacheFields
  <2>3. head.word \in Text /\ head.time \in Int
    BY <2>1, <2>2, CacheFields DEF Value
  <2>4. segments[1] \in Text \ {NoWord} /\ NoWord \in Text
    BY InputType DEF NoWord, Text
  <2>5. head.word \o segments[1] \in Text \ {NoWord}
    <3> DEFINE a == head.word
               b == segments[1]
    <3>1. a \in Seq(Characters) /\ b \in Seq(Characters) /\ b # << >>
      BY <2>3, <2>4 DEF Text, NoWord
    <3> HIDE DEF a, b
    <3>2. a \o b \in Seq(Characters) /\ a \o b # << >>
      BY <3>1, ConcatEqualIffEmpty
    <3> QED BY <3>2 DEF Text, NoWord, a, b
  <2>6. Insert(s, head.word \o segments[1], suggested, NoWord, head.time) \in Learning
    BY <2>3, <2>4, <2>5, InsertLearning
  <2>7. t = s \/ t = Insert(s, head.word \o segments[1], suggested, NoWord, head.time)
    BY <1>2 DEF JoinPunctuation
  <2> QED BY <2>6, <2>7
<1> QED BY <1>1, <1>2

---------------------------------------------------------------------------
(***************************************************************************)
(* Loading, saving and clearing.                                           *)
(***************************************************************************)

\* The values of the cache in LRU order.
LEMMA ValuesOf ==
  ASSUME NEW d \in Cache
  PROVE  LET v == [ i \in DOMAIN d.lru |-> d.lru[i].value ]
         IN  /\ v \in Seq(Value) /\ Len(v) = Len(d.lru)
             /\ \A i \in 1..Len(d.lru) : v[i] = d.lru[i].value
<1> DEFINE n == Len(d.lru)
           v == [ i \in 1..n |-> d.lru[i].value ]
<1>1. n \in Nat /\ DOMAIN d.lru = 1..n /\ \A i \in 1..n : d.lru[i].value \in Value
  BY CacheFields
<1> HIDE DEF n
<1>2. v \in Seq(Value)
  BY <1>1, IsASeq
<1>3. Len(v) = n
  BY <1>1, <1>2
<1> QED BY <1>1, <1>2, <1>3 DEF n

\* Collected(d) has the values of d, each once.
LEMMA CollectedValues ==
  ASSUME NEW d \in Cache
  PROVE  /\ Collected(d) \in Seq(Value) /\ Len(Collected(d)) = Len(d.lru)
         /\ \A i \in 1..Len(d.lru) :
              /\ Len(d.lru) - i + 1 \in 1..Len(d.lru)
              /\ Collected(d)[i] = d.lru[Len(d.lru) - i + 1].value
              /\ Collected(d)[Len(d.lru) - i + 1] = d.lru[i].value
<1> DEFINE v == [ i \in DOMAIN d.lru |-> d.lru[i].value ]
<1>1. /\ v \in Seq(Value) /\ Len(v) = Len(d.lru)
      /\ \A i \in 1..Len(d.lru) : v[i] = d.lru[i].value
  BY ValuesOf
<1>2. Collected(d) = Reverse(v)
  BY DEF Collected
<1> HIDE DEF v
<1>3. /\ Reverse(v) \in Seq(Value) /\ Len(Reverse(v)) = Len(v)
      /\ \A i \in 1..Len(v) : /\ Len(v) - i + 1 \in 1..Len(v)
                              /\ Reverse(v)[i] = v[Len(v) - i + 1]
                              /\ Reverse(v)[Len(v) - i + 1] = v[i]
  BY <1>1, ReverseProperties
<1> QED BY <1>1, <1>2, <1>3

\* What a save copies has one entry for a word.
LEMMA CollectedGood ==
  ASSUME NEW d, GoodCache(d)
  PROVE  GoodEntries(Collected(d))
<1> DEFINE n == Len(d.lru)
           h == Collected(d)
<1>0. d \in Cache /\ n \in Nat
  BY CacheFields DEF GoodCache
<1>1. /\ h \in Seq(Value) /\ Len(h) = n
      /\ \A i \in 1..n : n - i + 1 \in 1..n /\ h[i] = d.lru[n - i + 1].value
  BY <1>0, CollectedValues
<1> HIDE DEF h
<1>2. ASSUME NEW i \in 1..n PROVE h[i].word = NoWord => ~h[i].used
  <2>1. GoodElement(d.lru[n - i + 1])
    BY <1>1, <1>2 DEF GoodCache
  <2> QED BY <2>1, <1>1, <1>2 DEF GoodElement
<1>3. ASSUME NEW i \in 1..n, NEW j \in 1..n, h[i].word = h[j].word PROVE i = j
  <2>1. /\ n - i + 1 \in 1..n /\ n - j + 1 \in 1..n
        /\ d.lru[n - i + 1].value.word = d.lru[n - j + 1].value.word
    BY <1>1, <1>3
  <2>2. n - i + 1 = n - j + 1
    BY <2>1 DEF GoodCache
  <2> HIDE DEF n
  <2> QED BY <2>2, <1>0
<1> QED BY <1>1, <1>2, <1>3 DEF GoodEntries, h

\* A word of the cache, by its place.
LEMMA WordsOfCache ==
  ASSUME NEW d \in Cache, NEW w
  PROVE  w \in WordsOf(d) <=> w # NoWord /\ \E i \in 1..Len(d.lru) : d.lru[i].value.word = w
<1> DEFINE n == Len(d.lru)
           h == Collected(d)
<1>1. /\ h \in Seq(Value) /\ Len(h) = n
      /\ \A i \in 1..n : /\ n - i + 1 \in 1..n
                         /\ h[i] = d.lru[n - i + 1].value /\ h[n - i + 1] = d.lru[i].value
  BY CollectedValues
<1>2. DOMAIN h = 1..n
  BY <1>1
<1>3. w \in WordsOf(d) <=> w # NoWord /\ \E i \in 1..n : h[i].word = w
  BY <1>2 DEF WordsOf, Words
<1> HIDE DEF h, n
<1>4. (\E i \in 1..n : h[i].word = w) <=> (\E i \in 1..n : d.lru[i].value.word = w)
  <2>1. ASSUME NEW i \in 1..n, h[i].word = w PROVE \E j \in 1..n : d.lru[j].value.word = w
    <3>1. n - i + 1 \in 1..n /\ d.lru[n - i + 1].value.word = w
      BY <1>1, <2>1
    <3> QED BY <3>1
  <2>2. ASSUME NEW i \in 1..n, d.lru[i].value.word = w PROVE \E j \in 1..n : h[j].word = w
    <3>1. n - i + 1 \in 1..n /\ h[n - i + 1].word = w
      BY <1>1, <2>2
    <3> QED BY <3>1
  <2> QED BY <2>1, <2>2
<1> QED BY <1>3, <1>4 DEF n

\* A word of a list of entries, by its place.
LEMMA WordsOfEntries ==
  ASSUME NEW h \in Seq(Value), NEW w
  PROVE  w \in Words(h) <=> w # NoWord /\ \E i \in 1..Len(h) : h[i].word = w
<1>1. DOMAIN h = 1..Len(h)
  OBVIOUS
<1> QED BY <1>1 DEF Words

\* The words of a part, and of the same cache.
LEMMA PartWords ==
  ASSUME NEW d \in Cache, NEW c \in Parts(d)
  PROVE  WordsOf(c) \subseteq WordsOf(d)
<1>1. c \in Cache /\ Within(c, d)
  BY DEF Parts
<1> QED BY <1>1, WordsOfCache DEF Within

\* Values changed in place keep their words.
LEMMA SameWords ==
  ASSUME NEW d \in Cache, NEW c, Same(c, d)
  PROVE  WordsOf(c) = WordsOf(d)
<1>1. c \in Cache /\ Len(c.lru) = Len(d.lru)
  BY DEF Same
<1>2. \A i \in 1..Len(d.lru) : c.lru[i].value.word = d.lru[i].value.word
  BY DEF Same, KeepsWord
<1>3. \A w : w \in WordsOf(c) <=> w \in WordsOf(d)
  BY <1>1, <1>2, WordsOfCache
<1>4. WordsOf(c) \subseteq WordsOf(d) /\ WordsOf(d) \subseteq WordsOf(c)
  BY <1>3
<1> QED BY <1>4

\* Loading replaces the cache by the entries.
LEMMA LoadGood ==
  ASSUME NEW d, GoodCache(d), NEW h, GoodEntries(h)
  PROVE  /\ GoodCache(LoadHistory(d, h))
         /\ WordsOf(LoadHistory(d, h)) = Words(h)
<1> DEFINE n == Len(h)
           filled == [ i \in 1..n |-> [ key |-> h[i].word, value |-> h[i] ] ]
           lru == Reverse(filled)
           old == LruClear(d).free
           free == SubSeq(old, n + 1, Len(old))
           c == [ lru |-> lru, free |-> free ]
<1>0. d \in Cache
  BY DEF GoodCache
<1>1. h \in Seq(Value) /\ n \in Nat /\ DOMAIN h = 1..n /\ \A i \in 1..n : h[i] \in Value
  BY DEF GoodEntries
<1>2. LoadHistory(d, h) = c
  BY <1>1 DEF LoadHistory
<1>3. old \in Seq(Value)
  <2> DEFINE v == [ i \in DOMAIN d.lru |-> d.lru[i].value ]
  <2>1. v \in Seq(Value)
    BY <1>0, ValuesOf
  <2>2. old = Reverse(v) \o d.free
    BY DEF LruClear
  <2> HIDE DEF v, old
  <2>3. Reverse(v) \in Seq(Value)
    BY <2>1, ReverseProperties
  <2> QED BY <2>2, <2>3, <1>0, CacheFields
<1> HIDE DEF old, n
<1>4. free \in Seq(Value)
  <2> DEFINE l == Len(old)
  <2>1. l \in Nat /\ \A i \in (n + 1)..l : old[i] \in Value
    BY <1>1, <1>3
  <2>2. n + 1 \in Int /\ l \in Int
    BY <1>1, <2>1
  <2> HIDE DEF l
  <2>3. SubSeq(old, n + 1, l) \in Seq(Value)
    BY <2>1, <2>2, SubSeqProperties
  <2> QED BY <2>3 DEF l
<1>5. /\ filled \in Seq(Element) /\ Len(filled) = n
      /\ \A i \in 1..n : filled[i].key = h[i].word /\ filled[i].value = h[i]
  <2>1. \A i \in 1..n : [ key |-> h[i].word, value |-> h[i] ] \in Element
    BY <1>1 DEF Element, Value
  <2>2. filled \in Seq(Element)
    BY <2>1, <1>1, IsASeq
  <2> QED BY <2>2, <1>1
<1> HIDE DEF filled
<1>6. /\ lru \in Seq(Element) /\ Len(lru) = n
      /\ \A i \in 1..n : n - i + 1 \in 1..n /\ lru[i] = filled[n - i + 1] /\ lru[n - i + 1] = filled[i]
  BY <1>5, ReverseProperties
<1>7. \A i \in 1..n : /\ n - i + 1 \in 1..n
                      /\ lru[i].key = h[n - i + 1].word /\ lru[i].value = h[n - i + 1]
                      /\ lru[n - i + 1].value = h[i]
  BY <1>5, <1>6
<1> HIDE DEF lru, free
<1>8. c \in Cache /\ c.lru = lru
  BY <1>4, <1>6 DEF Cache
<1> HIDE DEF c
<1>9. ASSUME NEW i \in 1..n PROVE GoodElement(lru[i])
  <2>1. h[n - i + 1].word = NoWord => ~h[n - i + 1].used
    BY <1>7, <1>9 DEF GoodEntries, n
  <2> QED BY <2>1, <1>7, <1>9 DEF GoodElement
<1>10. ASSUME NEW i \in 1..n, NEW j \in 1..n, lru[i].value.word = lru[j].value.word PROVE i = j
  <2>1. /\ n - i + 1 \in 1..n /\ n - j + 1 \in 1..n
        /\ h[n - i + 1].word = h[n - j + 1].word
    BY <1>7, <1>10
  <2>2. n - i + 1 = n - j + 1
    BY <2>1 DEF GoodEntries, n
  <2> QED BY <2>2, <1>1
<1>11. GoodCache(c)
  BY <1>6, <1>8, <1>9, <1>10 DEF GoodCache
<1>12. \A w : w \in WordsOf(c) <=> w \in Words(h)
  <2> TAKE w
  <2>1. w \in WordsOf(c) <=> w # NoWord /\ \E i \in 1..n : lru[i].value.word = w
    BY <1>6, <1>8, WordsOfCache
  <2>2. w \in Words(h) <=> w # NoWord /\ \E i \in 1..n : h[i].word = w
    BY <1>1, WordsOfEntries DEF n
  <2>3. (\E i \in 1..n : lru[i].value.word = w) <=> (\E i \in 1..n : h[i].word = w)
    BY <1>7
  <2> QED BY <2>1, <2>2, <2>3
<1>13. WordsOf(c) \subseteq Words(h) /\ Words(h) \subseteq WordsOf(c)
  BY <1>12
<1> QED BY <1>2, <1>11, <1>13

\* An event is put into a cache without one.
LEMMA InsertEventGood ==
  ASSUME now \in Int, NEW d, GoodCache(d), NEW type \in EventTypes,
         \A i \in 1..Len(d.lru) : d.lru[i].value.word # NoWord
  PROVE  /\ GoodCache(InsertEvent(d, type))
         /\ InsertEvent(d, type).lru # << >>
         /\ WordsOf(InsertEvent(d, type)) \subseteq WordsOf(d)
<1> DEFINE key == << type >>
           v == [ NewValue EXCEPT !.type = type, !.time = now ]
           e == [ key |-> key, value |-> v ]
           t == InsertEvent(d, type)
<1>1. key \in EventKeys /\ key \in Text \cup EventKeys
  BY DEF EventKeys
<1>2. v \in Value /\ v.word = NoWord /\ ~v.used
  <2> DEFINE x == NewValue
  <2>1. x \in Value /\ x.word = NoWord /\ ~x.used
    BY NewValueType
  <2>2. type \in EventTypes \cup {"DEFAULT_ENTRY"}
    OBVIOUS
  <2> HIDE DEF x
  <2>3. [ x EXCEPT !.type = type, !.time = now ] \in Value
    BY <2>1, <2>2 DEF Value
  <2>4. /\ [ x EXCEPT !.type = type, !.time = now ].word = x.word
        /\ [ x EXCEPT !.type = type, !.time = now ].used = x.used
    BY <2>1 DEF Value
  <2> QED BY <2>1, <2>3, <2>4 DEF x
<1> HIDE DEF key, v
<1>3. \E c \in Parts(d), x \in Value, free \in Seq(Value) :
         key \notin Keys(c) /\ LruInsert(d, key) = Consed([ key |-> key, value |-> x ], c, free)
  BY <1>1, LruInsertShape
<1>4. PICK c \in Parts(d), x \in Value, free \in Seq(Value) :
         key \notin Keys(c) /\ LruInsert(d, key) = Consed([ key |-> key, value |-> x ], c, free)
  BY <1>3
<1>5. c \in Cache /\ GoodCache(c) /\ Within(c, d) /\ d \in Cache
  BY DEF Parts, GoodCache
<1>6. t = Consed(e, c, free)
  <2>1. SetValue(LruInsert(d, key), key, v) = Consed(e, c, free)
    BY <1>1, <1>2, <1>4, <1>5, SetFirst
  <2> QED BY <2>1 DEF InsertEvent, key, v
<1>7. e \in Element /\ GoodElement(e) /\ e.value.word = NoWord
  BY <1>1, <1>2 DEF Element, GoodElement
<1>8. \A i \in 1..Len(c.lru) : c.lru[i].value.word # e.value.word
  BY <1>5, <1>7 DEF Within
<1> HIDE DEF e, t
<1>9. GoodCache(t)
  BY <1>5, <1>6, <1>7, <1>8, ConsedGood
<1>10. /\ t \in Cache /\ Len(t.lru) = Len(c.lru) + 1 /\ t.lru[1] = e /\ 1 \in 1..Len(t.lru)
       /\ \A i \in 1..Len(t.lru) : i # 1 => i - 1 \in 1..Len(c.lru) /\ t.lru[i] = c.lru[i - 1]
  <2>1. c \in Cache /\ e \in Element /\ free \in Seq(Value)
    BY <1>5, <1>7
  <2> QED BY ONLY <2>1, <1>6, ConsedShape
<1>11. t.lru # << >>
  <2>1. Len(<< >>) = 0 /\ Len(c.lru) \in Nat
    BY <1>5, CacheFields
  <2> QED BY <2>1, <1>10
<1>12. ASSUME NEW w \in WordsOf(t) PROVE w \in WordsOf(d)
  <2>1. w # NoWord
    BY <1>10, <1>12, WordsOfCache
  <2>2. PICK i \in 1..Len(t.lru) : t.lru[i].value.word = w
    BY <1>10, <1>12, WordsOfCache
  <2>3. i # 1
    BY <2>1, <2>2, <1>7, <1>10
  <2>4. i - 1 \in 1..Len(c.lru) /\ c.lru[i - 1].value.word = w
    BY <2>2, <2>3, <1>10
  <2>5. PICK j \in 1..Len(d.lru) : c.lru[i - 1] = d.lru[j]
    BY <2>4, <1>5 DEF Within
  <2>6. d.lru[j].value.word = w
    BY <2>4, <2>5
  <2> QED BY <2>1, <2>6, <1>5, WordsOfCache
<1> QED BY <1>9, <1>11, <1>12 DEF t

---------------------------------------------------------------------------
(***************************************************************************)
(* The actions.                                                            *)
(***************************************************************************)

\* What the thread has before it starts and after it ends.
LEMMA IdleType == /\ Idle.stage = "none" /\ Loading.stage = "load_read"
                  /\ Saving.stage = "save_collect"
                  /\ \A s \in {Idle, Loading, Saving} :
                       /\ s \in [ stage : Stages, history : Seq(Value) ]
                       /\ s.history = << >> /\ GoodEntries(s.history)
<1> DEFINE h == << >>
<1>1. h \in Seq(Value) /\ Len(h) = 0
  OBVIOUS
<1>2. GoodEntries(h)
  BY <1>1 DEF GoodEntries
<1> HIDE DEF h
<1>3. /\ Idle = [ stage |-> "none", history |-> h ]
      /\ Loading = [ stage |-> "load_read", history |-> h ]
      /\ Saving = [ stage |-> "save_collect", history |-> h ]
  BY DEF Idle, Loading, Saving, h
<1>4. \A s \in {Idle, Loading, Saving} :
        s \in [ stage : Stages, history : Seq(Value) ] /\ s.history = h
  <2>1. \A stage \in Stages :
          /\ [ stage |-> stage, history |-> h ] \in [ stage : Stages, history : Seq(Value) ]
          /\ [ stage |-> stage, history |-> h ].history = h
    BY <1>1
  <2>2. "none" \in Stages /\ "load_read" \in Stages /\ "save_collect" \in Stages
    BY DEF Stages
  <2> QED BY <2>1, <2>2, <1>3
<1> QED BY <1>2, <1>3, <1>4 DEF h

\* A new cache is empty and good.
LEMMA NewCacheGood ==
  /\ GoodCache(NewCache) /\ Len(NewCache.lru) = 0 /\ WordsOf(NewCache) = {}
<1> DEFINE lru == << >>
           free == << >>
<1>1. lru \in Seq(Element) /\ Len(lru) = 0 /\ free \in Seq(Value)
  OBVIOUS
<1> HIDE DEF lru, free
<1>2. NewCache = [ lru |-> lru, free |-> free ]
  BY DEF NewCache, lru, free
<1>3. NewCache \in Cache /\ NewCache.lru = lru
  BY <1>1, <1>2 DEF Cache
<1>4. GoodCache(NewCache)
  BY <1>1, <1>3 DEF GoodCache
<1>5. \A w : w \notin WordsOf(NewCache)
  BY <1>1, <1>3, WordsOfCache
<1> QED BY <1>1, <1>3, <1>4, <1>5

\* Entries that come from others bring no new words.
LEMMA DeletedWords ==
  ASSUME NEW h, GoodEntries(h)
  PROVE  Words(DeleteEntriesUntouchedFor62Days(h)) \subseteq Words(h)
<1> DEFINE e == DeleteEntriesUntouchedFor62Days(h)
<1>1. /\ GoodEntries(e) /\ \A i \in 1..Len(e) : \E j \in 1..Len(h) : e[i] = h[j]
  BY DeleteGood
<1> HIDE DEF e
<1>2. e \in Seq(Value) /\ h \in Seq(Value)
  BY <1>1 DEF GoodEntries
<1>3. ASSUME NEW w \in Words(e) PROVE w \in Words(h)
  <2>1. w # NoWord
    BY <1>2, <1>3, WordsOfEntries
  <2>2. PICK i \in 1..Len(e) : e[i].word = w
    BY <1>2, <1>3, WordsOfEntries
  <2>3. PICK j \in 1..Len(h) : e[i] = h[j]
    BY <1>1
  <2>4. h[j].word = w
    BY <2>2, <2>3
  <2> QED BY <2>1, <2>4, <1>2, WordsOfEntries
<1> QED BY <1>3 DEF e

\* A predictor whose first load has not run yet, and no file.
LEMMA InitIInv == Init => IInv
<1> SUFFICES ASSUME Init PROVE IInv
  OBVIOUS
<1> DEFINE h == << >>
           no == FALSE
<1>1. h \in Seq(Value) /\ GoodEntries(h) /\ h \in Seq(Text) /\ no \in BOOLEAN /\ ~no
  BY IdleType DEF GoodEntries, Idle
<1>2. file = [ exists |-> no, whole |-> no, entries |-> h ] /\ updated = no /\ revert = h
  BY DEF Init
<1> HIDE DEF h, no
<1>3. GoodFile
  BY <1>1, <1>2 DEF GoodFile, FileType
<1>4. dic = NewCache /\ sync = Loading /\ now = 0 /\ cleared = {}
  BY DEF Init
<1>5. GoodSync /\ sync.stage = "load_read"
  BY <1>4, IdleType DEF GoodSync
<1>6. GoodCache(dic)
  BY <1>4, NewCacheGood
<1>7. TypeInv
  BY <1>1, <1>2, <1>3, <1>4, <1>5, <1>6 DEF TypeInv
<1>8. ClearInv
  BY <1>4, <1>5 DEF ClearInv, Clean
<1>9. SaveInv
  BY <1>5 DEF SaveInv
<1> QED BY <1>7, <1>8, <1>9 DEF IInv

\* A commit.
LEMMA FinishIInv ==
  ASSUME IInv, NEW prev \in PrevWords, NEW segments \in Inputs, NEW suggested \in BOOLEAN,
         NEW learnable \in BOOLEAN, Finish(prev, segments, suggested, learnable)
  PROVE  IInv'
<1> DEFINE start == [ dic |-> dic, revert |-> << >> ]
           joined == JoinPunctuation(start, prev, segments, suggested)
           s == IF learnable THEN InsertHistory(joined, prev, segments, suggested) ELSE joined
           fresh == { w \in WordsOf(s.dic) :
                        w \in Keys(dic) => Lookup(dic, w) # Lookup(s.dic, w) }
<1>0. GoodCache(dic) /\ dic \in Cache /\ now \in Int /\ GoodSync /\ GoodFile
  BY DEF IInv, TypeInv, GoodCache
<1>1. start \in Learning
  <2>1. << >> \in Seq(Text)
    OBVIOUS
  <2> QED BY <2>1, <1>0 DEF Learning
<1> HIDE DEF start
<1>2. joined \in Learning
  BY <1>0, <1>1, JoinPunctuationGood
<1> HIDE DEF joined
<1>3. s \in Learning
  BY <1>0, <1>2, InsertHistoryGood
<1>4. /\ sync = Idle /\ dic' = s.dic /\ revert' = s.revert
      /\ updated' = (updated \/ learnable \/ s.dic # dic)
      /\ cleared' = cleared \ fresh
      /\ UNCHANGED << sync, file, now >>
  BY DEF Finish, CheckSyncerAndDelete, Learned, start, joined
<1> HIDE DEF s
<1>5. GoodCache(dic') /\ dic' \in Cache /\ revert' \in Seq(Text)
  BY <1>3, <1>4 DEF Learning
<1>6. updated' \in BOOLEAN
  BY <1>4 DEF IInv, TypeInv
<1>7. TypeInv'
  BY <1>0, <1>4, <1>5, <1>6 DEF TypeInv, GoodSync, GoodFile
<1>8. sync.stage = "none"
  BY <1>4, IdleType
<1>9. ASSUME NEW w \in cleared', w \in WordsOf(dic') PROVE FALSE
  <2>1. w \in cleared /\ w \notin fresh /\ w \in WordsOf(s.dic)
    BY <1>4, <1>9
  <2>2. w \in Keys(dic)
    BY <2>1
  <2>3. w # NoWord /\ w \in Text
    <3>1. w # NoWord
      BY <1>5, <1>9, WordsOfCache
    <3>2. PICK i \in 1..Len(dic'.lru) : dic'.lru[i].value.word = w
      BY <1>5, <1>9, WordsOfCache
    <3>3. dic'.lru[i].value \in Value
      BY <1>5, CacheFields
    <3> QED BY <3>1, <3>2, <3>3 DEF Value
  <2>4. At(dic, w) \in 1..Len(dic.lru) /\ dic.lru[At(dic, w)].key = w
    BY <2>2, <1>0, AtKey
  <2>5. dic.lru[At(dic, w)].value.word = w
    BY <2>3, <2>4, <1>0, GoodKeys
  <2>6. w \in WordsOf(dic)
    BY <2>3, <2>4, <2>5, <1>0, WordsOfCache
  <2> QED BY <2>1, <2>6 DEF IInv, ClearInv
<1>10. ClearInv'
  <2>1. cleared' \subseteq cleared
    BY <1>4
  <2>2. Clean(sync.history) /\ Clean(file.entries)
    BY <1>8 DEF IInv, ClearInv
  <2>3. Clean(sync.history)' /\ Clean(file.entries)'
    BY <2>1, <2>2, <1>4 DEF Clean, Words
  <2>4. (cleared \cap WordsOf(dic) = {})'
    BY <1>9
  <2> QED BY <2>3, <2>4, <1>4, <1>8 DEF ClearInv
<1>11. SaveInv'
  BY <1>4, <1>8 DEF SaveInv
<1> QED BY <1>7, <1>10, <1>11 DEF IInv

\* The facts that the other actions need.
LEMMA Facts ==
  ASSUME IInv
  PROVE  /\ GoodCache(dic) /\ dic \in Cache /\ Len(dic.lru) \in Nat
         /\ GoodEntries(sync.history) /\ sync.history \in Seq(Value)
         /\ GoodEntries(file.entries) /\ now \in Int
         /\ cleared \cap WordsOf(dic) = {}
BY CacheFields DEF IInv, TypeInv, ClearInv, GoodCache, GoodSync, GoodFile, GoodEntries

\* Only the revert entries go.
LEMMA FinishWithoutLearningIInv ==
  ASSUME IInv, FinishWithoutLearning
  PROVE  IInv'
<1>1. revert' = << >> /\ << >> \in Seq(Text)
  BY DEF FinishWithoutLearning
<1>2. UNCHANGED << dic, updated, sync, file, now, cleared >>
  BY DEF FinishWithoutLearning
<1>3. TypeInv'
  BY <1>1, <1>2 DEF IInv, TypeInv, GoodSync, GoodFile
<1>4. ClearInv' /\ SaveInv'
  BY <1>2 DEF IInv, ClearInv, SaveInv, Clean, Old
<1> QED BY <1>3, <1>4 DEF IInv

\* Predict only marks the history for the next save.
LEMMA PredictIInv ==
  ASSUME IInv, Predict
  PROVE  IInv'
<1>1. updated' /\ updated' \in BOOLEAN
  BY DEF Predict
<1>2. UNCHANGED << dic, sync, file, revert, now, cleared >> /\ sync = Idle
  BY DEF Predict, CheckSyncerAndDelete
<1>3. sync.stage = "none"
  BY <1>2, IdleType
<1>4. TypeInv'
  BY <1>1, <1>2 DEF IInv, TypeInv, GoodSync, GoodFile
<1>5. ClearInv' /\ SaveInv'
  BY <1>2, <1>3 DEF IInv, ClearInv, SaveInv, Clean
<1> QED BY <1>4, <1>5 DEF IInv

\* A change of the cache while the thread is idle that brings no word.
LEMMA QuietCache ==
  ASSUME IInv, sync = Idle, GoodCache(dic'), WordsOf(dic') \subseteq WordsOf(dic),
         updated' \in BOOLEAN, revert' \in Seq(Text), UNCHANGED << sync, file, now, cleared >>
  PROVE  IInv'
<1>1. sync.stage = "none"
  BY IdleType
<1>2. TypeInv'
  BY DEF IInv, TypeInv, GoodSync, GoodFile
<1>3. (cleared \cap WordsOf(dic) = {})'
  <2>1. cleared \cap WordsOf(dic) = {}
    BY DEF IInv, ClearInv
  <2> QED BY <2>1
<1>4. ClearInv' /\ SaveInv'
  BY <1>1, <1>3 DEF IInv, ClearInv, SaveInv, Clean
<1> QED BY <1>2, <1>4 DEF IInv

\* Revert erases: the cache becomes a part of itself.
LEMMA RevertIInv ==
  ASSUME IInv, Revert
  PROVE  IInv'
<1>1. /\ revert' = << >> /\ << >> \in Seq(Text) /\ revert \in Seq(Text)
      /\ UNCHANGED << updated, sync, file, now, cleared >> /\ updated \in BOOLEAN
  BY DEF Revert, IInv, TypeInv
<1>2. CASE sync = Idle
  <2>1. dic' = FoldLeft(LruErase, dic, revert)
    BY <1>2 DEF Revert, CheckSyncerAndDelete
  <2>2. dic' \in Parts(dic)
    BY <2>1, <1>1, Facts, RevertGood
  <2>3. GoodCache(dic') /\ WordsOf(dic') \subseteq WordsOf(dic)
    BY <2>2, Facts, PartWords DEF Parts
  <2> QED BY <2>3, <1>1, <1>2, QuietCache
<1>3. CASE sync # Idle
  <2>1. dic' = dic
    BY <1>3 DEF Revert, CheckSyncerAndDelete
  <2>2. TypeInv'
    BY <1>1, <2>1 DEF IInv, TypeInv, GoodSync, GoodFile
  <2>3. ClearInv' /\ SaveInv'
    BY <1>1, <2>1 DEF IInv, ClearInv, SaveInv, Clean, Old
  <2> QED BY <2>2, <2>3 DEF IInv
<1> QED BY <1>2, <1>3

\* It may run at any time: words and times stay.
LEMMA ClearHistoryEntryIInv ==
  ASSUME IInv, NEW word, ClearHistoryEntry(word)
  PROVE  IInv'
<1>1. /\ dic' = RemoveChains(MarkRemoved(dic, word), word)
      /\ updated' /\ updated' \in BOOLEAN /\ UNCHANGED << sync, file, revert, now, cleared >>
  BY DEF ClearHistoryEntry
<1>2. Same(dic', dic)
  <2> DEFINE marked == MarkRemoved(dic, word)
  <2>1. Same(marked, dic)
    BY Facts, MarkRemovedSame
  <2>2. marked \in Cache
    BY <2>1 DEF Same
  <2> HIDE DEF marked
  <2>3. Same(RemoveChains(marked, word), marked)
    BY <2>2, RemoveChainsSame
  <2> QED BY <2>1, <2>3, <1>1, SameTrans DEF marked
<1>3. GoodCache(dic') /\ WordsOf(dic') = WordsOf(dic) /\ dic' \in Cache
  BY <1>2, Facts, SameGood, SameWords DEF Same
<1>4. TypeInv'
  BY <1>1, <1>3 DEF IInv, TypeInv, GoodSync, GoodFile
<1>5. /\ Len(dic'.lru) = Len(dic.lru)
      /\ \A i \in 1..Len(dic.lru) : /\ dic'.lru[i].value.word = dic.lru[i].value.word
                                    /\ dic'.lru[i].value.time = dic.lru[i].value.time
  BY <1>2 DEF Same, KeepsWord
<1>6. dic.lru # << >> => dic'.lru # << >>
  <2>1. dic.lru # << >> => Len(dic.lru) # 0
    BY Facts DEF Cache
  <2>2. dic'.lru = << >> => Len(dic'.lru) = 0
    OBVIOUS
  <2> QED BY <2>1, <2>2, <1>5
<1>7. ClearInv'
  BY <1>1, <1>3, <1>6 DEF IInv, ClearInv, Clean
<1>8. SaveInv'
  <2>1. (sync.stage = "save_write" =>
          \A i \in 1..Len(dic.lru) : \E j \in 1..Len(sync.history) :
             /\ sync.history[j].word = dic.lru[i].value.word
             /\ sync.history[j].time = dic.lru[i].value.time)'
    BY <1>1, <1>5 DEF IInv, SaveInv
  <2>2. (sync.stage = "save_load" =>
          \A i \in 1..Len(dic.lru) :
             \/ Old(dic.lru[i].value)
             \/ \E j \in 1..Len(sync.history) :
                  sync.history[j].word = dic.lru[i].value.word)'
    BY <1>1, <1>5 DEF IInv, SaveInv, Old
  <2> QED BY <2>1, <2>2 DEF SaveInv
<1> QED BY <1>4, <1>7, <1>8 DEF IInv

\* A thread is started beside an idle one, or ends.
LEMMA SyncIInv ==
  ASSUME IInv, Sync \/ Reload
  PROVE  IInv'
<1>1. /\ sync = Idle /\ sync' \in {Saving, Loading}
      /\ UNCHANGED << dic, updated, file, revert, now, cleared >>
  BY DEF Sync, Reload, CheckSyncerAndDelete
<1>2. /\ sync' \in [ stage : Stages, history : Seq(Value) ] /\ GoodEntries(sync'.history)
      /\ sync'.history = << >> /\ sync.stage = "none"
      /\ sync'.stage \in {"save_collect", "load_read"}
  BY <1>1, IdleType
<1>3. TypeInv'
  BY <1>1, <1>2 DEF IInv, TypeInv, GoodSync, GoodFile
<1>4. Clean(file.entries)
  BY <1>2 DEF IInv, ClearInv
<1>5. Clean(file.entries)' /\ Clean(sync.history)'
  BY <1>1, <1>2, <1>4 DEF Clean, Words
<1>6. ClearInv' /\ SaveInv'
  BY <1>1, <1>2, <1>5 DEF IInv, ClearInv, SaveInv
<1> QED BY <1>3, <1>6 DEF IInv

\* The cache is left with the event alone, so the write that cleans the file happens.
LEMMA ClearAllHistoryIInv ==
  ASSUME IInv, ClearAllHistory
  PROVE  IInv'
<1>1. /\ dic' = InsertEvent(NewCache, "CLEAN_ALL_EVENT") /\ updated' /\ updated' \in BOOLEAN
      /\ sync' = Saving /\ UNCHANGED << file, revert, now >>
  BY DEF ClearAllHistory
<1>2. GoodCache(dic') /\ dic'.lru # << >> /\ WordsOf(dic') = {}
  <2> DEFINE type == "CLEAN_ALL_EVENT"
  <2>1. type \in EventTypes
    BY DEF EventTypes
  <2>2. \A i \in 1..Len(NewCache.lru) : NewCache.lru[i].value.word # NoWord
    BY NewCacheGood
  <2> HIDE DEF type
  <2>3. /\ GoodCache(InsertEvent(NewCache, type)) /\ InsertEvent(NewCache, type).lru # << >>
        /\ WordsOf(InsertEvent(NewCache, type)) \subseteq WordsOf(NewCache)
    BY <2>1, <2>2, Facts, NewCacheGood, InsertEventGood
  <2> QED BY <2>3, <1>1, NewCacheGood DEF type
<1>3. /\ sync' \in [ stage : Stages, history : Seq(Value) ] /\ GoodEntries(sync'.history)
      /\ sync'.history = << >> /\ sync'.stage = "save_collect"
  BY <1>1, IdleType
<1>4. TypeInv'
  BY <1>1, <1>2, <1>3 DEF IInv, TypeInv, GoodSync, GoodFile
<1>5. Clean(sync.history)'
  BY <1>3 DEF Clean, Words
<1>6. ClearInv' /\ SaveInv'
  BY <1>1, <1>2, <1>3, <1>5 DEF ClearInv, SaveInv
<1> QED BY <1>4, <1>6 DEF IInv

\* As above: the event makes the save write, and what is kept is a part of the cache.
LEMMA ClearUnusedHistoryIInv ==
  ASSUME IInv, ClearUnusedHistory
  PROVE  IInv'
<1> DEFINE rest == FoldLeft(LAMBDA c, e : IF e.value.used THEN c ELSE LruErase(c, e.key),
                            dic, dic.lru)
<1>1. /\ sync = Idle /\ dic' = InsertEvent(rest, "CLEAN_UNUSED_EVENT")
      /\ updated' /\ updated' \in BOOLEAN
      /\ sync' = Saving /\ UNCHANGED << file, revert, now, cleared >>
  BY DEF ClearUnusedHistory
<1>2. rest \in Parts(dic) /\ \A i \in 1..Len(rest.lru) : rest.lru[i].value.used
  BY Facts, ClearUnusedGood
<1> HIDE DEF rest
<1>3. GoodCache(rest) /\ WordsOf(rest) \subseteq WordsOf(dic)
  BY <1>2, Facts, PartWords DEF Parts
<1>4. \A i \in 1..Len(rest.lru) : rest.lru[i].value.word # NoWord
  BY <1>2, <1>3 DEF GoodCache, GoodElement
<1>5. GoodCache(dic') /\ dic'.lru # << >> /\ WordsOf(dic') \subseteq WordsOf(dic)
  <2> DEFINE type == "CLEAN_UNUSED_EVENT"
  <2>1. type \in EventTypes
    BY DEF EventTypes
  <2> HIDE DEF type
  <2>2. /\ GoodCache(InsertEvent(rest, type)) /\ InsertEvent(rest, type).lru # << >>
        /\ WordsOf(InsertEvent(rest, type)) \subseteq WordsOf(rest)
    BY <2>1, <1>3, <1>4, Facts, InsertEventGood
  <2> QED BY <2>2, <1>1, <1>3 DEF type
<1>6. /\ sync' \in [ stage : Stages, history : Seq(Value) ] /\ GoodEntries(sync'.history)
      /\ sync'.history = << >> /\ sync'.stage = "save_collect"
  BY <1>1, IdleType
<1>7. TypeInv'
  BY <1>1, <1>5, <1>6 DEF IInv, TypeInv, GoodSync, GoodFile
<1>8. Clean(sync.history)'
  BY <1>6 DEF Clean, Words
<1>9. (cleared \cap WordsOf(dic) = {})'
  BY <1>1, <1>5, Facts
<1>10. ClearInv' /\ SaveInv'
  BY <1>1, <1>5, <1>6, <1>8, <1>9 DEF ClearInv, SaveInv
<1> QED BY <1>7, <1>10 DEF IInv

\* The file as a save writes it, in full or not.
LEMMA WrittenFile ==
  ASSUME NEW h, GoodEntries(h), WriteFile(h)
  PROVE  file' \in FileType /\ file'.entries = h
<1> DEFINE yes == TRUE
<1>1. PICK whole \in BOOLEAN : file' = [ exists |-> yes, whole |-> whole, entries |-> h ]
  BY DEF WriteFile
<1>2. yes \in BOOLEAN /\ h \in Seq(Value)
  BY DEF GoodEntries
<1> HIDE DEF yes
<1>3. file' \in FileType
  BY <1>1, <1>2 DEF FileType
<1> QED BY <1>1, <1>3

\* A new predictor forgets the cache; its file must be clean.
LEMMA NewPredictorIInv ==
  ASSUME IInv, NewPredictor, GoodFile', Clean(file.entries)'
  PROVE  IInv'
<1>1. /\ dic' = NewCache /\ ~updated' /\ updated' \in BOOLEAN /\ sync' = Loading
      /\ revert' \in Seq(Text) /\ now' = now
  <2>1. dic' = NewCache /\ updated' = FALSE /\ sync' = Loading /\ revert' = << >> /\ now' = now
    BY Zenon DEF NewPredictor
  <2>2. updated' \in BOOLEAN /\ ~updated'
    BY <2>1, Zenon
  <2>3. << >> \in Seq(Text)
    OBVIOUS
  <2> QED BY <2>1, <2>2, <2>3, Zenon
<1>2. GoodCache(dic') /\ WordsOf(dic') = {}
  BY <1>1, NewCacheGood
<1>3. /\ sync' \in [ stage : Stages, history : Seq(Value) ] /\ GoodEntries(sync'.history)
      /\ sync'.history = << >> /\ sync'.stage = "load_read"
  BY <1>1, IdleType
<1>4. TypeInv'
  BY <1>1, <1>2, <1>3, Facts DEF TypeInv, GoodSync
<1>5. Clean(sync.history)'
  BY <1>3 DEF Clean, Words
<1>6. ClearInv' /\ SaveInv'
  BY <1>2, <1>3, <1>5 DEF ClearInv, SaveInv
<1> QED BY <1>4, <1>6 DEF IInv

\* The destructor saves the clean cache or leaves the clean file.
LEMMA RestartIInv ==
  ASSUME IInv, Restart
  PROVE  IInv'
<1> DEFINE h == Collected(dic)
           entries == DeleteEntriesUntouchedFor62Days(h)
<1>1. sync = Idle /\ NewPredictor
  BY DEF Restart
<1>2. Clean(file.entries) /\ GoodFile
  BY <1>1, IdleType DEF IInv, ClearInv, TypeInv
<1>3. GoodEntries(entries) /\ Words(entries) \subseteq WordsOf(dic)
  BY Facts, CollectedGood, DeleteGood, DeletedWords DEF WordsOf
<1>4. \/ (file' = file \/ WriteFile(entries)) /\ cleared' = cleared
      \/ cleared' = {} /\ file' = file
  BY DEF Restart
<1> HIDE DEF entries
<1>5. CASE file' = file
  <2>1. GoodFile' /\ Clean(file.entries)'
    BY <1>2, <1>4, <1>5 DEF GoodFile, Clean
  <2> QED BY <2>1, <1>1, NewPredictorIInv
<1>6. CASE WriteFile(entries) /\ cleared' = cleared
  <2>1. file' \in FileType /\ file'.entries = entries
    BY <1>3, <1>6, WrittenFile
  <2>2. GoodFile'
    BY <2>1, <1>3 DEF GoodFile
  <2>3. Clean(file.entries)'
    BY <2>1, <1>3, <1>6, Facts DEF Clean
  <2> QED BY <2>2, <2>3, <1>1, NewPredictorIInv
<1> QED BY <1>4, <1>5, <1>6

\* A kill during the save gives up the promise; otherwise the file was clean.
LEMMA KillIInv ==
  ASSUME IInv, Kill
  PROVE  IInv'
<1>1. /\ NewPredictor /\ file' = file
      /\ cleared' = IF sync = Idle THEN cleared ELSE {}
  BY DEF Kill
<1>2. GoodFile'
  BY <1>1 DEF IInv, TypeInv, GoodFile
<1>3. sync = Idle => Clean(file.entries)
  BY IdleType DEF IInv, ClearInv
<1>4. Clean(file.entries)'
  BY <1>1, <1>3 DEF Clean
<1> QED BY <1>1, <1>2, <1>4, NewPredictorIInv

\* The load reads a part of a clean file.
LEMMA LoadReadIInv ==
  ASSUME IInv, LoadRead
  PROVE  IInv'
<1> DEFINE entries == DeleteEntriesUntouchedFor62Days(file.entries)
           stage == "load_apply"
<1>1. /\ sync.stage = "load_read"
      /\ sync' = [ stage |-> stage, history |-> entries ] \/ sync' = Idle
      /\ UNCHANGED << dic, updated, file, revert, now, cleared >>
  BY DEF LoadRead
<1>2. GoodEntries(entries) /\ Words(entries) \subseteq Words(file.entries)
  BY Facts, DeleteGood, DeletedWords
<1>3. stage \in Stages /\ stage \notin {"save_collect", "save_write", "save_load"}
  BY DEF Stages
<1> HIDE DEF entries, stage
<1>4. Clean(file.entries)
  BY <1>1 DEF IInv, ClearInv
<1>5. /\ sync' \in [ stage : Stages, history : Seq(Value) ] /\ GoodEntries(sync'.history)
      /\ Words(sync'.history) \subseteq Words(file.entries)
      /\ sync'.stage \notin {"save_collect", "save_write", "save_load"}
  <2>1. CASE sync' = Idle
    <3>1. sync'.history = << >> /\ sync'.stage = "none"
      BY <2>1, IdleType
    <3>2. Words(sync'.history) = {}
      BY <3>1 DEF Words
    <3> QED BY <2>1, <3>1, <3>2, IdleType
  <2>2. CASE sync' = [ stage |-> stage, history |-> entries ]
    <3>1. entries \in Seq(Value)
      BY <1>2 DEF GoodEntries
    <3>2. sync'.history = entries /\ sync'.stage = stage
      BY <2>2
    <3>3. sync' \in [ stage : Stages, history : Seq(Value) ]
      BY <2>2, <3>1, <1>3
    <3> QED BY <3>2, <3>3, <1>2, <1>3
  <2> QED BY <1>1, <2>1, <2>2
<1>6. TypeInv'
  BY <1>1, <1>5 DEF IInv, TypeInv, GoodSync, GoodFile
<1>7. Clean(sync.history)' /\ Clean(file.entries)'
  BY <1>1, <1>4, <1>5 DEF Clean
<1>8. ClearInv' /\ SaveInv'
  BY <1>1, <1>5, <1>7, Facts DEF ClearInv, SaveInv
<1> QED BY <1>6, <1>8 DEF IInv

\* The cache gets the words of the copy, which is clean.
LEMMA LoadApplyIInv ==
  ASSUME IInv, LoadApply
  PROVE  IInv'
<1>1. /\ sync.stage = "load_apply" /\ dic' = LoadHistory(dic, sync.history) /\ sync' = Idle
      /\ UNCHANGED << updated, file, revert, now, cleared >>
  BY DEF LoadApply
<1>2. GoodCache(dic') /\ WordsOf(dic') = Words(sync.history)
  BY <1>1, Facts, LoadGood
<1>3. /\ sync' \in [ stage : Stages, history : Seq(Value) ] /\ GoodEntries(sync'.history)
      /\ sync'.history = << >> /\ sync'.stage = "none"
  BY <1>1, IdleType
<1>4. TypeInv'
  BY <1>1, <1>2, <1>3 DEF IInv, TypeInv, GoodSync, GoodFile
<1>5. Clean(sync.history) /\ Clean(file.entries)
  BY <1>1 DEF IInv, ClearInv
<1>6. Clean(sync.history)' /\ Clean(file.entries)' /\ (cleared \cap WordsOf(dic) = {})'
  BY <1>1, <1>2, <1>3, <1>5 DEF Clean, Words
<1>7. ClearInv' /\ SaveInv'
  BY <1>3, <1>6 DEF ClearInv, SaveInv
<1> QED BY <1>4, <1>7 DEF IInv

\* The copy has every word of the cache.  A cache with nothing to save left a clean file.
LEMMA SaveCollectIInv ==
  ASSUME IInv, SaveCollect
  PROVE  IInv'
<1> DEFINE h == Collected(dic)
           stage == "save_write"
<1>1. /\ sync.stage = "save_collect"
      /\ sync' = IF updated /\ dic.lru # << >> THEN [ stage |-> stage, history |-> h ] ELSE Idle
      /\ UNCHANGED << dic, updated, file, revert, now, cleared >>
  BY DEF SaveCollect
<1>2. /\ h \in Seq(Value) /\ Len(h) = Len(dic.lru)
      /\ \A i \in 1..Len(dic.lru) : /\ Len(dic.lru) - i + 1 \in 1..Len(dic.lru)
                                    /\ h[Len(dic.lru) - i + 1] = dic.lru[i].value
  BY Facts, CollectedValues
<1>3. GoodEntries(h) /\ Words(h) = WordsOf(dic)
  BY Facts, CollectedGood DEF WordsOf
<1>4. stage \in Stages /\ stage = "save_write"
  BY DEF Stages
<1> HIDE DEF h, stage
<1>5. CASE updated /\ dic.lru # << >>
  <2>1. sync' = [ stage |-> stage, history |-> h ]
    BY <1>1, <1>5
  <2>2. sync'.stage = stage /\ sync'.history = h
    BY <2>1
  <2>3. sync' \in [ stage : Stages, history : Seq(Value) ]
    BY <2>1, <1>2, <1>4
  <2>4. TypeInv'
    BY <2>2, <2>3, <1>1, <1>3 DEF IInv, TypeInv, GoodSync, GoodFile
  <2>5. Clean(sync.history)'
    BY <2>2, <1>1, <1>3, Facts DEF Clean
  <2>6. ClearInv'
    BY <2>2, <2>5, <1>1, <1>4, Facts DEF ClearInv
  <2>7. \A i \in 1..Len(dic.lru) : \E j \in 1..Len(h) : h[j] = dic.lru[i].value
    BY <1>2
  <2>8. SaveInv'
    BY <2>2, <2>7, <1>1, <1>4 DEF SaveInv
  <2> QED BY <2>4, <2>6, <2>8 DEF IInv
<1>6. CASE ~ (updated /\ dic.lru # << >>)
  <2>1. sync' = Idle
    BY <1>1, <1>6
  <2>2. /\ sync' \in [ stage : Stages, history : Seq(Value) ] /\ GoodEntries(sync'.history)
        /\ sync'.history = << >> /\ sync'.stage = "none"
    BY <2>1, IdleType
  <2>3. TypeInv'
    BY <1>1, <2>2 DEF IInv, TypeInv, GoodSync, GoodFile
  <2>4. Clean(file.entries)
    BY <1>1, <1>6 DEF IInv, ClearInv
  <2>5. Clean(sync.history)' /\ Clean(file.entries)'
    BY <2>2, <2>4, <1>1 DEF Clean, Words
  <2>6. ClearInv' /\ SaveInv'
    BY <2>2, <2>5, <1>1, Facts DEF ClearInv, SaveInv
  <2> QED BY <2>3, <2>6 DEF IInv
<1> QED BY <1>5, <1>6

\* A write that fails gives up the promise.
LEMMA SaveFailsIInv ==
  ASSUME IInv, SaveFails
  PROVE  IInv'
<1>1. /\ sync' = Idle /\ cleared' = {} /\ UNCHANGED << dic, updated, file, revert, now >>
  BY DEF SaveFails
<1>2. /\ sync' \in [ stage : Stages, history : Seq(Value) ] /\ GoodEntries(sync'.history)
      /\ sync'.stage = "none"
  BY <1>1, IdleType
<1>3. TypeInv'
  BY <1>1, <1>2 DEF IInv, TypeInv, GoodSync, GoodFile
<1>4. ClearInv' /\ SaveInv'
  BY <1>1, <1>2 DEF ClearInv, SaveInv, Clean
<1> QED BY <1>3, <1>4 DEF IInv

\* What the write drops is old.
LEMMA SaveWriteIInv ==
  ASSUME IInv, SaveWrite
  PROVE  IInv'
<1> DEFINE h == sync.history
           entries == DeleteEntriesUntouchedFor62Days(h)
           stage == "save_load"
<1>1. /\ sync.stage = "save_write"
      /\ WriteFile(entries)
      /\ sync' = [ stage |-> stage, history |-> entries ]
      /\ UNCHANGED << dic, updated, revert, now, cleared >>
  BY DEF SaveWrite
<1>2. /\ GoodEntries(entries) /\ Words(entries) \subseteq Words(h)
      /\ \A j \in 1..Len(h) : Old(h[j]) \/ \E i \in 1..Len(entries) : entries[i] = h[j]
  BY Facts, DeleteGood, DeletedWords
<1>3. stage \in Stages /\ stage = "save_load"
  BY DEF Stages
<1> HIDE DEF entries, stage
<1>4. file' \in FileType /\ file'.entries = entries
  BY <1>1, <1>2, WrittenFile
<1>5. sync'.stage = stage /\ sync'.history = entries
  BY <1>1
<1>6. sync' \in [ stage : Stages, history : Seq(Value) ]
  BY <1>1, <1>2, <1>3 DEF GoodEntries
<1>7. TypeInv'
  BY <1>1, <1>2, <1>4, <1>5, <1>6 DEF IInv, TypeInv, GoodSync, GoodFile
<1>8. Clean(h)
  BY DEF IInv, ClearInv
<1>9. Clean(sync.history)' /\ Clean(file.entries)'
  BY <1>1, <1>2, <1>4, <1>5, <1>8 DEF Clean
<1>10. ClearInv'
  BY <1>1, <1>3, <1>5, <1>9, Facts DEF ClearInv
<1>11. ASSUME NEW i \in 1..Len(dic.lru)
       PROVE  \/ Old(dic.lru[i].value)
              \/ \E j \in 1..Len(entries) : entries[j].word = dic.lru[i].value.word
  <2>1. PICK j \in 1..Len(h) :
          h[j].word = dic.lru[i].value.word /\ h[j].time = dic.lru[i].value.time
    BY <1>1, <1>11 DEF IInv, SaveInv
  <2>2. Old(h[j]) => Old(dic.lru[i].value)
    BY <2>1 DEF Old
  <2> QED BY <2>1, <2>2, <1>2
<1>12. SaveInv'
  <2>1. \A i \in 1..Len(dic.lru) : Old(dic.lru[i].value)' <=> Old(dic.lru[i].value)
    BY <1>1 DEF Old
  <2> QED BY <2>1, <1>1, <1>3, <1>5, <1>11 DEF SaveInv
<1> QED BY <1>7, <1>10, <1>12 DEF IInv

\* The reload brings back what was written.
LEMMA SaveLoadIInv ==
  ASSUME IInv, SaveLoad
  PROVE  IInv'
<1> DEFINE stage == "save_reset"
           h == << >>
<1>1. /\ sync.stage = "save_load" /\ dic' = LoadHistory(dic, sync.history)
      /\ sync' = [ stage |-> stage, history |-> h ]
      /\ UNCHANGED << updated, file, revert, now, cleared >>
  BY DEF SaveLoad
<1>2. GoodCache(dic') /\ WordsOf(dic') = Words(sync.history)
  BY <1>1, Facts, LoadGood
<1>3. /\ stage \in Stages /\ stage = "save_reset" /\ h \in Seq(Value) /\ GoodEntries(h)
      /\ Words(h) = {}
  BY IdleType DEF Stages, Idle, Words
<1> HIDE DEF stage, h
<1>4. sync'.stage = stage /\ sync'.history = h
  BY <1>1
<1>5. sync' \in [ stage : Stages, history : Seq(Value) ]
  BY <1>1, <1>3
<1>6. TypeInv'
  BY <1>1, <1>2, <1>3, <1>4, <1>5 DEF IInv, TypeInv, GoodSync, GoodFile
<1>7. Clean(sync.history) /\ Clean(file.entries)
  BY <1>1 DEF IInv, ClearInv
<1>8. Clean(sync.history)' /\ Clean(file.entries)' /\ (cleared \cap WordsOf(dic) = {})'
  BY <1>1, <1>2, <1>3, <1>4, <1>7 DEF Clean
<1>9. ClearInv' /\ SaveInv'
  BY <1>3, <1>4, <1>8 DEF ClearInv, SaveInv
<1> QED BY <1>6, <1>9 DEF IInv

\* The thread ends; the file is clean.
LEMMA SaveResetIInv ==
  ASSUME IInv, SaveReset
  PROVE  IInv'
<1>1. /\ sync.stage = "save_reset" /\ ~updated' /\ updated' \in BOOLEAN /\ sync' = Idle
      /\ UNCHANGED << dic, file, revert, now, cleared >>
  BY DEF SaveReset
<1>2. /\ sync' \in [ stage : Stages, history : Seq(Value) ] /\ GoodEntries(sync'.history)
      /\ sync'.history = << >> /\ sync'.stage = "none"
  BY <1>1, IdleType
<1>3. TypeInv'
  BY <1>1, <1>2 DEF IInv, TypeInv, GoodSync, GoodFile
<1>4. Clean(file.entries)
  BY <1>1 DEF IInv, ClearInv
<1>5. Clean(sync.history)' /\ Clean(file.entries)'
  BY <1>1, <1>2, <1>4 DEF Clean, Words
<1>6. ClearInv' /\ SaveInv'
  BY <1>1, <1>2, <1>5, Facts DEF ClearInv, SaveInv
<1> QED BY <1>3, <1>6 DEF IInv

\* What is old stays old.
LEMMA TickIInv ==
  ASSUME IInv, Tick
  PROVE  IInv'
<1>1. now' = now + 1 /\ UNCHANGED << dic, updated, sync, file, revert, cleared >>
  BY DEF Tick
<1>2. TypeInv'
  BY <1>1 DEF IInv, TypeInv, GoodSync, GoodFile
<1>3. ClearInv'
  BY <1>1 DEF IInv, ClearInv, Clean
<1>4. ASSUME NEW i \in 1..Len(dic.lru), Old(dic.lru[i].value) PROVE Old(dic.lru[i].value)'
  <2>1. dic.lru[i].value.time \in Int
    BY <1>4, Facts, CacheFields DEF Value
  <2>2. dic.lru[i].value.time < now - Days62
    BY <1>4 DEF Old
  <2>3. dic.lru[i].value.time < (now + 1) - Days62
    BY <2>1, <2>2, Facts, SizesAssumption
  <2> QED BY <2>3, <1>1 DEF Old
<1>5. SaveInv'
  BY <1>1, <1>4 DEF IInv, SaveInv
<1> QED BY <1>2, <1>3, <1>5 DEF IInv

\* Every action keeps the invariant.
LEMMA NextIInv == IInv /\ [Next]_vars => IInv'
<1> SUFFICES ASSUME IInv, [Next]_vars PROVE IInv'
  OBVIOUS
<1>1. CASE \E prev \in PrevWords, segments \in Inputs, suggested, learnable \in BOOLEAN :
              Finish(prev, segments, suggested, learnable)
  BY <1>1, FinishIInv
<1>2. CASE FinishWithoutLearning
  BY <1>2, FinishWithoutLearningIInv
<1>3. CASE Predict
  BY <1>3, PredictIInv
<1>4. CASE Revert
  BY <1>4, RevertIInv
<1>5. CASE \E word \in InputWords : ClearHistoryEntry(word)
  BY <1>5, ClearHistoryEntryIInv
<1>6. CASE Sync \/ Reload
  BY <1>6, SyncIInv
<1>7. CASE ClearAllHistory
  BY <1>7, ClearAllHistoryIInv
<1>8. CASE ClearUnusedHistory
  BY <1>8, ClearUnusedHistoryIInv
<1>9. CASE Restart
  BY <1>9, RestartIInv
<1>10. CASE Kill
  BY <1>10, KillIInv
<1>11. CASE SyncThread
  BY <1>11, LoadReadIInv, LoadApplyIInv, SaveCollectIInv, SaveFailsIInv, SaveWriteIInv,
     SaveLoadIInv, SaveResetIInv DEF SyncThread
<1>12. CASE Tick
  BY <1>12, TickIInv
<1>13. CASE UNCHANGED vars
  BY <1>13 DEF vars, IInv, TypeInv, ClearInv, SaveInv, GoodSync, GoodFile, Clean, Old
<1> QED
  BY <1>1, <1>2, <1>3, <1>4, <1>5, <1>6, <1>7, <1>8, <1>9, <1>10, <1>11, <1>12, <1>13
  DEF Next

\* The invariant holds of every behaviour.
LEMMA Invariance == Spec => []IInv
  BY InitIInv, NextIInv, PTL DEF Spec

(***************************************************************************)
(* What ClearAllHistory removed does not come back from the file, whatever *)
(* is learned, saved, loaded, reverted or restarted after it, unless the   *)
(* save that follows fails or is killed.                                   *)
(***************************************************************************)
THEOREM ClearedWordsStayOut == Spec => []ClearedStaysCleared
<1>1. IInv => ClearedStaysCleared
  BY DEF IInv, ClearInv, ClearedStaysCleared
<1> QED BY <1>1, Invariance, PTL

(***************************************************************************)
(* The reload at the end of a save loses only words untouched for 62 days, *)
(* although words may be deleted while the save runs.                      *)
(***************************************************************************)
THEOREM SaveLosesNothing == Spec => SaveKeepsHistory
<1>1. ASSUME IInv, SaveLoad, NEW w \in WordsOf(dic)
      PROVE  Old(Lookup(dic, w)) \/ w \in WordsOf(dic')
  <2>1. sync.stage = "save_load" /\ WordsOf(dic') = Words(sync.history)
    BY <1>1, Facts, LoadGood DEF SaveLoad
  <2>2. w # NoWord
    BY <1>1, Facts, WordsOfCache
  <2>3. PICK i \in 1..Len(dic.lru) : dic.lru[i].value.word = w
    BY <1>1, Facts, WordsOfCache
  <2>4. dic.lru[i].key = w
    BY <1>1, <2>2, <2>3, Facts, GoodKeys
  <2>5. w \in Keys(dic)
    BY <1>1, <2>4, Facts, CacheFields DEF Keys
  <2>6. At(dic, w) = i
    BY <1>1, <2>4, <2>5, Facts, AtKey, GoodKeys
  <2>7. Old(Lookup(dic, w)) \/ \E j \in 1..Len(sync.history) : sync.history[j].word = w
    BY <1>1, <2>1, <2>3, <2>6 DEF IInv, SaveInv, Lookup
  <2> QED BY <1>1, <2>1, <2>2, <2>7, Facts, WordsOfEntries
<1>2. IInv /\ [Next]_vars =>
        [ SaveLoad => \A w \in WordsOf(dic) : Old(Lookup(dic, w)) \/ w \in WordsOf(dic') ]_vars
  BY <1>1
<1> QED BY <1>2, Invariance, PTL DEF Spec, SaveKeepsHistory
=============================================================================
