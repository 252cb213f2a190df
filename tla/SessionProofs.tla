--------------------------- MODULE SessionProofs ---------------------------
EXTENDS Session, SequenceTheorems, FiniteSetTheorems, WellFoundedInduction, TLAPS

\* The records that model a SessionConverter and an ImeContext.
ConverterRecord ==
  [ state : SC!ConverterState, ends : SUBSET Nat, segment_index : Int,
    selected : Int, previous : BOOLEAN, result : Int,
    failed : {"no", "DCHECK", "CHECK"} ]

Context ==
  [ state : States, length : Nat, source_text : Nat, field : Fields,
    converter : ConverterRecord, output : Int, owed : Int ]

\* A converter that is right for a preedit of n characters.
GoodConverter(c, n) ==
  /\ c \in ConverterRecord /\ IsFiniteSet(c.ends) /\ c.failed # "CHECK"
  /\ c.failed = "no" =>
       /\ c.segment_index >= 0
       /\ c.state = "SUGGESTION" => c.selected >= 1
       /\ c.state = "PREDICTION" =>
            c.selected >= 1 /\ Cardinality(c.ends) = 1 /\ c.segment_index = 0
       /\ c.state = "CONVERSION" =>
            /\ c.ends \in SC!Segmentations(n)
            /\ c.segment_index < Cardinality(c.ends)
            /\ Cardinality(c.ends) <= c.selected

\* The session's state and the converter's.
Agree(x) ==
  x.converter.failed = "no" =>
    IF x.state = "CONVERSION"
    THEN x.converter.state # "SUGGESTION"
    ELSE x.converter.state \in {"COMPOSITION", "SUGGESTION"}

\* The preedit is empty, or it is the reading of a text to convert again.
Empty(x) == x.length > 0 => x.source_text > 0

Off(x) == x.state = "DIRECT" => Empty(x) /\ ~SC!IsActive(x.converter)

GoodContext(x) ==
  x \in Context /\ GoodConverter(x.converter, x.length) /\ Agree(x) /\ Off(x)

\* Every context that an UNDO may bring back is good.
GoodUndo(s) ==
  /\ s.undo_contexts \in Seq(Context)
  /\ \A i \in 1..Len(s.undo_contexts) :
       GoodContext(s.undo_contexts[i]) /\ s.undo_contexts[i].converter.failed = "no"

\* A session between two steps of a method, and one between two methods.
Sound(s) ==
  /\ s \in [ context : Context, undo_contexts : Seq(Context), output : Int ]
  /\ GoodConverter(s.context.converter, s.context.length)
  /\ GoodUndo(s)

Good(s) == Sound(s) /\ Agree(s.context) /\ Off(s.context)

IInv == Good(session)

---------------------------------------------------------------------------
(***************************************************************************)
(* Segments: sets of positions in 1..n that contain n.                     *)
(***************************************************************************)

\* The converter counts with the same Cardinality.
LEMMA SameCardinality == \A S : SC!Cardinality(S) = Cardinality(S)
BY DEF SC!Cardinality, Cardinality

\* Segmentations are finite, not empty, and their greatest end is the length.
LEMMA SegmentationProperties ==
  ASSUME NEW n \in Nat, NEW e \in SC!Segmentations(n)
  PROVE  /\ e \in SUBSET Nat /\ IsFiniteSet(e)
         /\ Cardinality(e) \in Nat /\ Cardinality(e) >= 1
         /\ SC!Max(e) = n
<1>1. e \in SUBSET (1..n) /\ n \in e
  BY DEF SC!Segmentations
<1>2. IsFiniteSet(1..n)
  BY FS_Interval
<1>3. IsFiniteSet(e)
  BY <1>1, <1>2, FS_Subset
<1>4. Cardinality(e) \in Nat
  BY <1>3, FS_CardinalityType
<1>5. Cardinality(e) # 0
  BY <1>1, <1>3, FS_EmptySet
<1>6. SC!Max(e) = n
  <2>1. \A y \in e : n >= y
    BY <1>1
  <2>2. \A x \in e : (\A y \in e : x >= y) => x = n
    BY <1>1, <2>1
  <2> QED
    BY <1>1, <2>1, <2>2 DEF SC!Max
<1> QED
  BY <1>1, <1>3, <1>4, <1>5, <1>6

\* The whole preedit as one segment.
LEMMA OneSegment ==
  ASSUME NEW n \in Nat
  PROVE  /\ {n} \in SUBSET Nat /\ IsFiniteSet({n}) /\ Cardinality({n}) = 1
         /\ n # 0 => {n} \in SC!Segmentations(n)
<1>1. IsFiniteSet({n}) /\ Cardinality({n}) = 1
  BY FS_Singleton
<1>2. n # 0 => {n} \in SC!Segmentations(n)
  BY DEF SC!Segmentations
<1> QED
  BY <1>1, <1>2

\* The number of ends up to e grows by at most one with e, so every rank is
\* taken: the first k segments have an end.
LEMMA RankExists ==
  ASSUME NEW n \in Nat, NEW S \in SUBSET (1..n), NEW k \in Nat,
         1 <= k, k <= Cardinality(S)
  PROVE  \E e \in S : Cardinality({ x \in S : x <= e }) = k
<1> DEFINE Upto(e) == { x \in S : x <= e }
           T == { e \in Nat : Cardinality(Upto(e)) >= k }
<1>0. \A x \in S : x \in Nat /\ 1 <= x /\ x <= n
  OBVIOUS
<1>1. IsFiniteSet(S)
  <2>1. IsFiniteSet(1..n)
    BY FS_Interval
  <2> QED
    BY <2>1, FS_Subset
<1>2. \A e \in Nat : IsFiniteSet(Upto(e)) /\ Cardinality(Upto(e)) \in Nat
  <2> TAKE e \in Nat
  <2>1. Upto(e) \in SUBSET S
    OBVIOUS
  <2> HIDE DEF Upto
  <2>2. IsFiniteSet(Upto(e))
    BY <2>1, <1>1, FS_Subset
  <2> QED
    BY <2>2, FS_CardinalityType
<1>3. n \in T
  <2>1. Upto(n) = S
    BY <1>0
  <2> QED
    BY <2>1
<1>4. PICK e \in T : \A y \in T : ~ (<<y, e>> \in OpToRel(<, Nat))
  <2>1. T \in SUBSET Nat /\ T # {}
    BY <1>3
  <2> HIDE DEF T
  <2> QED
    BY <2>1, NatLessThanWellFounded, WFMin
<1>5. \A y \in T : ~ (y < e)
  BY <1>4 DEF OpToRel
<1>6. e \in Nat /\ Cardinality(Upto(e)) >= k
  OBVIOUS
<1>7. e # 0
  <2>0. \A x \in S : ~(x <= 0)
    BY <1>0
  <2>1. Upto(0) = {}
    BY <2>0
  <2>2. Cardinality(Upto(0)) = 0
    BY <2>1, FS_EmptySet
  <2> QED
    BY <2>2, <1>6
<1>8. e - 1 \in Nat /\ ~ (Cardinality(Upto(e - 1)) >= k)
  <2>1. e - 1 \in Nat /\ e - 1 < e
    BY <1>6, <1>7
  <2>2. e - 1 \notin T
    BY <1>5, <2>1
  <2> HIDE DEF Upto
  <2> QED
    BY <2>1, <2>2
<1>9. e \in S
  <2> SUFFICES ASSUME e \notin S PROVE FALSE
    OBVIOUS
  <2>0. \A x \in S : x <= e <=> x <= e - 1
    BY <1>0, <1>6
  <2>1. Upto(e) = Upto(e - 1)
    BY <2>0
  <2> QED
    BY <2>1, <1>6, <1>8
<1>10. Cardinality(Upto(e)) <= Cardinality(Upto(e - 1)) + 1
  <2>0. \A x \in S : x <= e <=> x <= e - 1 \/ x = e
    BY <1>0, <1>6
  <2>1. Upto(e) = Upto(e - 1) \cup {e}
    BY <2>0, <1>9
  <2> HIDE DEF Upto
  <2>2. Cardinality(Upto(e - 1) \cup {e}) =
          IF e \in Upto(e - 1) THEN Cardinality(Upto(e - 1)) ELSE Cardinality(Upto(e - 1)) + 1
    BY <1>8, <1>2, FS_AddElement
  <2> QED
    BY <2>1, <2>2, <1>2, <1>8
<1>11. Cardinality(Upto(e)) = k
  <2> HIDE DEF Upto
  <2> QED
    BY <1>2, <1>6, <1>8, <1>10
<1> QED
  BY <1>9, <1>11

\* What is left of a conversion after its first k segments is a segmentation of
\* what is left of the preedit, with at least k segments less.
LEMMA AfterProperties ==
  ASSUME NEW n \in Nat, NEW ends \in SC!Segmentations(n), NEW k \in Nat,
         1 <= k, k <= Cardinality(ends)
  PROVE  /\ SC!EndOf(ends, k) \in 1..n
         /\ SC!After(ends, SC!EndOf(ends, k)) \in SUBSET Nat
         /\ IsFiniteSet(SC!After(ends, SC!EndOf(ends, k)))
         /\ Cardinality(SC!After(ends, SC!EndOf(ends, k))) <= Cardinality(ends) - k
         /\ SC!EndOf(ends, k) # n =>
              SC!After(ends, SC!EndOf(ends, k)) \in SC!Segmentations(n - SC!EndOf(ends, k))
<1> DEFINE size == SC!EndOf(ends, k)
           Low == { x \in ends : x <= size }
           High == { x \in ends : x > size }
           f == [ x \in High |-> x - size ]
           A == SC!After(ends, size)
<1>1. ends \in SUBSET (1..n) /\ n \in ends
  BY DEF SC!Segmentations
<1>2. size \in ends /\ Cardinality(Low) = k
  <2>1. \E e \in ends : SC!Cardinality({ x \in ends : x <= e }) = k
    BY <1>1, RankExists, SameCardinality
  <2>2. size = CHOOSE e \in ends : SC!Cardinality({ x \in ends : x <= e }) = k
    <3>1. k # 0
      OBVIOUS
    <3> QED
      BY <3>1 DEF SC!EndOf
  <2>3. size \in ends /\ SC!Cardinality(Low) = k
    BY <2>1, <2>2
  <2> QED
    BY <2>3, SameCardinality
<1>3. size \in 1..n
  BY <1>1, <1>2
<1>4. IsFiniteSet(ends) /\ Cardinality(ends) \in Nat
  BY SegmentationProperties
<1>5. High \in SUBSET ends /\ Low \in SUBSET ends /\ High \cup Low = ends /\ High \cap Low = {}
  <2>1. size \in Int /\ \A x \in ends : x \in Int
    BY <1>1, <1>3
  <2> HIDE DEF size
  <2>2. \A x \in ends : x <= size \/ x > size
    BY <2>1
  <2>3. \A x \in ends : ~(x <= size /\ x > size)
    BY <2>1
  <2> QED
    BY <2>2, <2>3
<1>6. A = { x - size : x \in High }
  BY DEF SC!After
<1>7. A \in SUBSET (1..(n - size))
  BY <1>1, <1>3, <1>6
<1>8. size # n => n - size \in A
  BY <1>1, <1>3, <1>6
<1>9. f \in Surjection(High, A)
  BY <1>6 DEF Surjection
<1> HIDE DEF size, Low, High, A
<1>10. IsFiniteSet(High) /\ IsFiniteSet(Low)
  BY <1>4, <1>5, FS_Subset
<1>11. Cardinality(High) \in Nat /\ Cardinality(Low) \in Nat
  BY <1>10, FS_CardinalityType
<1>12. Cardinality(ends) = Cardinality(High) + Cardinality(Low)
  <2>1. Cardinality(ends) =
          Cardinality(High) + Cardinality(Low) - Cardinality(High \cap Low)
    BY <1>5, <1>10, FS_Union
  <2>2. Cardinality(High \cap Low) = 0
    BY <1>5, FS_EmptySet
  <2> QED
    BY <2>1, <2>2, <1>11
<1>13. IsFiniteSet(A) /\ Cardinality(A) <= Cardinality(High)
  <2> HIDE DEF f
  <2> QED
    BY <1>9, <1>10, FS_Surjection
<1>14. Cardinality(A) \in Nat
  BY <1>13, FS_CardinalityType
<1>15. Cardinality(A) <= Cardinality(ends) - k
  BY <1>2, <1>4, <1>11, <1>12, <1>13, <1>14
<1>16. size # n => A \in SC!Segmentations(n - size)
  BY <1>7, <1>8 DEF SC!Segmentations
<1>17. A \in SUBSET Nat
  BY <1>3, <1>7
<1> QED
  BY <1>3, <1>13, <1>15, <1>16, <1>17 DEF size, A

---------------------------------------------------------------------------
(***************************************************************************)
(* The converter: each of its operators takes a good converter to good     *)
(* ones, and leaves it in a state the session can follow.                  *)
(***************************************************************************)

\* A suggestion at most is going on.
Calm(c) == c.failed = "no" => c.state \in {"COMPOSITION", "SUGGESTION"}

\* A converter that is right for every preedit.
Idle(c) == c \in ConverterRecord /\ IsFiniteSet(c.ends) /\ c.failed # "CHECK" /\
           (c.failed = "no" => c.state = "COMPOSITION" /\ c.segment_index >= 0)

\* The fields of a converter have their types.
LEMMA ConverterFields ==
  ASSUME NEW c \in ConverterRecord
  PROVE  /\ c.state \in SC!ConverterState /\ c.ends \in SUBSET Nat
         /\ c.segment_index \in Int /\ c.selected \in Int /\ c.previous \in BOOLEAN
         /\ c.result \in Int /\ c.failed \in {"no", "DCHECK", "CHECK"}
BY DEF ConverterRecord

\* Only a conversion depends on the length of the preedit.
LEMMA IdleIsGood ==
  ASSUME NEW c, Idle(c), NEW n
  PROVE  GoodConverter(c, n)
BY DEF Idle, GoodConverter

\* A converter that is not converting is right for any other length.
LEMMA OtherLength ==
  ASSUME NEW c, NEW n, NEW m, GoodConverter(c, n), c.failed = "no" => c.state # "CONVERSION"
  PROVE  GoodConverter(c, m)
BY DEF GoodConverter

\* A failed DCHECK.
LEMMA FailedGood ==
  ASSUME NEW c \in ConverterRecord, IsFiniteSet(c.ends)
  PROVE  /\ Idle(SC!Failed(c, "DCHECK"))
         /\ SC!Failed(c, "DCHECK").failed = "DCHECK"
         /\ SC!Failed(c, "DCHECK").state = c.state
<1> DEFINE d == SC!Failed(c, "DCHECK")
<1>1. d \in ConverterRecord /\ d.ends = c.ends /\ d.failed = "DCHECK" /\ d.state = c.state
  BY DEF SC!Failed, ConverterRecord
<1> QED
  BY <1>1 DEF Idle

\* ResetState leaves nothing going on.
LEMMA ResetStateGood ==
  ASSUME NEW c \in ConverterRecord, IsFiniteSet(c.ends), c.failed # "CHECK"
  PROVE  /\ Idle(SC!ResetState(c))
         /\ SC!ResetState(c).state = "COMPOSITION"
         /\ SC!ResetState(c).failed = c.failed
         /\ SC!ResetState(c).ends = c.ends
<1> DEFINE d == SC!ResetState(c)
           composition == "COMPOSITION"
           zero == 0
           no == FALSE
<1>1. composition \in SC!ConverterState
  BY DEF SC!ConverterState
<1>2. zero \in Int
  OBVIOUS
<1>3. no \in BOOLEAN
  OBVIOUS
<1>4. d = [ c EXCEPT !.state = composition, !.segment_index = zero, !.previous = no,
                     !.selected = zero ]
  BY DEF SC!ResetState
<1> HIDE DEF composition, zero, no, d
<1>5. d \in ConverterRecord
  BY <1>1, <1>2, <1>3, <1>4 DEF ConverterRecord
<1>6. d.state = composition /\ d.failed = c.failed /\ d.ends = c.ends /\ d.segment_index = zero
  BY <1>1, <1>2, <1>3, <1>4 DEF ConverterRecord
<1> QED
  BY <1>5, <1>6 DEF Idle, d, composition, zero

\* A result that nobody popped is dropped; nothing else changes.
LEMMA ResetResultGood ==
  ASSUME NEW c \in ConverterRecord
  PROVE  /\ SC!ResetResult(c) \in ConverterRecord
         /\ SC!ResetResult(c).state = c.state /\ SC!ResetResult(c).ends = c.ends
         /\ SC!ResetResult(c).segment_index = c.segment_index
         /\ SC!ResetResult(c).selected = c.selected
         /\ SC!ResetResult(c).failed = c.failed
         /\ \A n : GoodConverter(c, n) => GoodConverter(SC!ResetResult(c), n)
<1> DEFINE d == SC!ResetResult(c)
<1>1. d \in ConverterRecord
  BY DEF SC!ResetResult, ConverterRecord
<1>2. /\ d.state = c.state /\ d.ends = c.ends /\ d.segment_index = c.segment_index
      /\ d.selected = c.selected /\ d.failed = c.failed
  BY DEF SC!ResetResult, ConverterRecord
<1> HIDE DEF d
<1>3. \A n : GoodConverter(c, n) => GoodConverter(d, n)
  BY <1>1, <1>2 DEF GoodConverter
<1> QED
  BY <1>1, <1>2, <1>3 DEF d

\* One segment for the whole preedit, of a suggestion or a prediction.
LEMMA SingleSegmentGood ==
  ASSUME NEW c \in ConverterRecord, NEW n \in Nat, c.failed # "CHECK",
         NEW state \in {"SUGGESTION", "PREDICTION"}
  PROVE  /\ \A m : GoodConverter(SC!SingleSegment(c, state, n), m)
         /\ SC!SingleSegment(c, state, n) \in ConverterRecord
         /\ IsFiniteSet(SC!SingleSegment(c, state, n).ends)
         /\ SC!SingleSegment(c, state, n).state = state
         /\ SC!SingleSegment(c, state, n).failed = c.failed
<1> DEFINE d == SC!SingleSegment(c, state, n)
           zero == 0
           one == 1
           all == {n}
<1>1. all \in SUBSET Nat /\ IsFiniteSet(all) /\ Cardinality(all) = 1
  BY OneSegment
<1>2. zero \in Int /\ one \in Int
  OBVIOUS
<1>3. state \in SC!ConverterState
  BY DEF SC!ConverterState
<1>4. d = [ c EXCEPT !.state = state, !.ends = all, !.segment_index = zero, !.selected = one ]
  BY DEF SC!SingleSegment
<1>5. zero >= 0 /\ one >= 1 /\ zero = 0
  OBVIOUS
<1> HIDE DEF d, zero, one, all
<1>6. d \in ConverterRecord
  BY <1>1, <1>2, <1>3, <1>4 DEF ConverterRecord
<1>7. /\ d.state = state /\ d.ends = all /\ d.segment_index = zero /\ d.selected = one
      /\ d.failed = c.failed
  BY <1>4 DEF ConverterRecord
<1>8. \A m : GoodConverter(d, m)
  BY <1>1, <1>5, <1>6, <1>7 DEF GoodConverter
<1> QED
  BY <1>1, <1>6, <1>7, <1>8 DEF d

\* Dropping the segments of a converter that is not converting.
LEMMA NoSegments ==
  ASSUME NEW c \in ConverterRecord
  PROVE  /\ [ c EXCEPT !.ends = {} ] \in ConverterRecord
         /\ [ c EXCEPT !.ends = {} ].ends = {} /\ IsFiniteSet({})
         /\ [ c EXCEPT !.ends = {} ].state = c.state
         /\ [ c EXCEPT !.ends = {} ].failed = c.failed
         /\ [ c EXCEPT !.ends = {} ].segment_index = c.segment_index
         /\ [ c EXCEPT !.ends = {} ].selected = c.selected
<1> DEFINE none == {}
           d == [ c EXCEPT !.ends = none ]
<1>1. none \in SUBSET Nat
  OBVIOUS
<1>2. IsFiniteSet(none)
  BY FS_EmptySet
<1> HIDE DEF none
<1>3. d \in ConverterRecord
  BY <1>1 DEF ConverterRecord
<1>4. /\ d.ends = none /\ d.state = c.state /\ d.failed = c.failed
      /\ d.segment_index = c.segment_index /\ d.selected = c.selected
  BY DEF ConverterRecord
<1> QED
  BY <1>2, <1>3, <1>4 DEF none

\* Dropping the segments outside a conversion leaves a good converter.
LEMMA NoSegmentsGood ==
  ASSUME NEW c, NEW n, GoodConverter(c, n),
         c.failed = "no" => c.state \in {"COMPOSITION", "SUGGESTION"}
  PROVE  \A m : GoodConverter([ c EXCEPT !.ends = {} ], m)
<1> DEFINE d == [ c EXCEPT !.ends = {} ]
<1>0. c \in ConverterRecord
  BY DEF GoodConverter
<1>1. /\ d \in ConverterRecord /\ d.ends = {} /\ d.state = c.state /\ d.failed = c.failed
      /\ d.segment_index = c.segment_index /\ d.selected = c.selected /\ IsFiniteSet(d.ends)
  BY <1>0, NoSegments
<1> HIDE DEF d
<1>2. \A m : GoodConverter(d, m)
  BY <1>1 DEF GoodConverter
<1> QED
  BY <1>2 DEF d

\* A conversion that starts covers the preedit and focuses its first segment;
\* without a preedit there is none, and one that fails leaves nothing going on.
LEMMA ConvertGood ==
  ASSUME NEW n \in Nat, NEW c, GoodConverter(c, n), c.failed = "no",
         NEW d \in SC!Convert(c, n)
  PROVE  /\ GoodConverter(d, n)
         /\ d.failed = "no" =>
              /\ d.state \in {"COMPOSITION", "CONVERSION"}
              /\ d.state = "CONVERSION" => n # 0 /\ d.segment_index = 0
         /\ c.state # "PREDICTION" => d.failed = "no"
<1>0. c \in ConverterRecord /\ IsFiniteSet(c.ends) /\ c.failed # "CHECK"
  BY DEF GoodConverter
<1>1. CASE c.state \notin {"COMPOSITION", "SUGGESTION", "CONVERSION"}
  <2>1. d = SC!Failed(c, "DCHECK")
    BY <1>1 DEF SC!Convert, SC!CheckState
  <2>2. c.state = "PREDICTION"
    BY <1>0, <1>1, ConverterFields DEF SC!ConverterState
  <2> QED
    BY <1>0, <2>1, <2>2, FailedGood, IdleIsGood
<1>2. CASE c.state \in {"COMPOSITION", "SUGGESTION", "CONVERSION"} /\ n = 0
  <2>1. d = SC!ResetState(c)
    BY <1>2 DEF SC!Convert, SC!CheckState
  <2>2. Idle(d) /\ d.state = "COMPOSITION" /\ d.failed = c.failed
    BY <1>0, <2>1, ResetStateGood
  <2> QED
    BY <1>2, <2>2, IdleIsGood
<1>3. CASE c.state \in {"COMPOSITION", "SUGGESTION", "CONVERSION"} /\ n # 0
  <2> DEFINE conversion == "CONVERSION"
             zero == 0
             size(e) == SC!Cardinality(e)
             started(e) == [ c EXCEPT !.state = conversion, !.ends = e,
                                      !.segment_index = zero, !.selected = size(e) ]
             kept(e) == [ c EXCEPT !.ends = e ]
  <2>1. PICK e \in SC!Segmentations(n) : d \in {started(e), SC!ResetState(kept(e))}
    BY <1>3 DEF SC!Convert, SC!CheckState
  <2>2. e \in SUBSET Nat /\ IsFiniteSet(e) /\ Cardinality(e) \in Nat /\ Cardinality(e) >= 1
    BY SegmentationProperties
  <2>3. size(e) = Cardinality(e)
    BY SameCardinality
  <2>4. size(e) \in Int /\ zero \in Int
    BY <2>2, <2>3
  <2>5. conversion \in SC!ConverterState
    BY DEF SC!ConverterState
  <2>6. conversion = "CONVERSION" /\ zero = 0
    OBVIOUS
  <2> HIDE DEF conversion, zero, size
  <2>7. CASE d = started(e)
    <3>1. d \in ConverterRecord
      BY <1>0, <2>2, <2>4, <2>5, <2>7 DEF ConverterRecord
    <3>2. /\ d.state = conversion /\ d.ends = e /\ d.segment_index = zero
          /\ d.selected = size(e) /\ d.failed = c.failed
      BY <1>0, <2>7 DEF ConverterRecord
    <3>3. GoodConverter(d, n)
      BY <2>2, <2>3, <2>6, <3>1, <3>2 DEF GoodConverter
    <3> QED
      BY <1>3, <2>6, <3>2, <3>3
  <2>8. CASE d = SC!ResetState(kept(e))
    <3>1. kept(e) \in ConverterRecord
      BY <1>0, <2>2 DEF ConverterRecord
    <3>2. kept(e).ends = e /\ kept(e).failed = c.failed
      BY <1>0 DEF ConverterRecord
    <3> HIDE DEF kept
    <3>3. Idle(d) /\ d.state = "COMPOSITION" /\ d.failed = c.failed
      BY <1>0, <2>2, <2>8, <3>1, <3>2, ResetStateGood
    <3> QED
      BY <3>3, IdleIsGood
  <2> QED
    BY <2>1, <2>7, <2>8
<1> QED
  BY <1>1, <1>2, <1>3

\* Suggesting: nothing or a suggestion.
LEMMA SuggestGood ==
  ASSUME NEW n \in Nat, NEW c, GoodConverter(c, n), c.failed = "no", NEW password,
         NEW d \in SC!Suggest(c, n, password)
  PROVE  GoodConverter(d, n) /\ Calm(d)
<1> DEFINE r == SC!ResetState(c)
           q == SC!SingleSegment(r, "SUGGESTION", n)
<1>0. c \in ConverterRecord /\ IsFiniteSet(c.ends) /\ c.failed # "CHECK"
  BY DEF GoodConverter
<1>1. Idle(r) /\ r.state = "COMPOSITION" /\ r.failed = "no"
  BY <1>0, ResetStateGood
<1>2. CASE d = SC!Failed(c, "DCHECK")
  BY <1>0, <1>2, FailedGood, IdleIsGood DEF Calm
<1>3. CASE d = r
  BY <1>1, <1>3, IdleIsGood DEF Calm
<1>4. CASE d = [ r EXCEPT !.ends = {} ]
  <2> HIDE DEF r
  <2>1. r \in ConverterRecord
    BY <1>1 DEF Idle
  <2>2. d.state = "COMPOSITION" /\ d.failed = "no"
    BY <1>1, <1>4, <2>1, NoSegments
  <2>3. GoodConverter(r, n)
    BY <1>1, IdleIsGood
  <2>4. GoodConverter(d, n)
    BY <1>1, <1>4, <2>3, NoSegmentsGood
  <2> QED
    BY <2>2, <2>4 DEF Calm
<1>5. CASE d = [ q EXCEPT !.previous = TRUE ]
  <2> HIDE DEF r
  <2>1. r \in ConverterRecord
    BY <1>1 DEF Idle
  <2>2. /\ GoodConverter(q, n) /\ q \in ConverterRecord
        /\ q.state = "SUGGESTION" /\ q.failed = "no"
    BY <1>1, <2>1, SingleSegmentGood
  <2> DEFINE yes == TRUE
  <2>3. yes \in BOOLEAN
    OBVIOUS
  <2>4. d = [ q EXCEPT !.previous = yes ]
    BY <1>5
  <2> HIDE DEF yes, q
  <2>5. d \in ConverterRecord
    BY <2>2, <2>3, <2>4 DEF ConverterRecord
  <2>6. /\ d.state = q.state /\ d.failed = q.failed /\ d.ends = q.ends
        /\ d.segment_index = q.segment_index /\ d.selected = q.selected
    BY <2>2, <2>4 DEF ConverterRecord
  <2>7. GoodConverter(d, n)
    BY <2>2, <2>5, <2>6 DEF GoodConverter
  <2> QED
    BY <2>2, <2>6, <2>7 DEF Calm
<1> QED
  <2>1. CASE c.state \in {"COMPOSITION", "SUGGESTION"}
    <3>1. d \in {r} \cup IF password THEN {}
                         ELSE { [ r EXCEPT !.ends = {} ], [ q EXCEPT !.previous = TRUE ] }
      BY <2>1 DEF SC!Suggest, SC!CheckState
    <3> QED
      BY <3>1, <1>3, <1>4, <1>5
  <2>2. CASE c.state \notin {"COMPOSITION", "SUGGESTION"}
    <3>1. d = SC!Failed(c, "DCHECK")
      BY <2>2 DEF SC!Suggest, SC!CheckState
    <3> QED
      BY <3>1, <1>2
  <2> QED
    BY <2>1, <2>2

\* Predicting: a prediction of one segment, or nothing.
LEMMA PredictGood ==
  ASSUME NEW n \in Nat, NEW c, GoodConverter(c, n), c.failed = "no",
         NEW d \in SC!Predict(c, n)
  PROVE  /\ GoodConverter(d, n) /\ d.failed = "no"
         /\ d.state \in {"COMPOSITION", "PREDICTION"}
<1> DEFINE r == SC!ResetResult(c)
           all == {n}
           x == [ r EXCEPT !.ends = all ]
<1>0. c \in ConverterRecord /\ IsFiniteSet(c.ends) /\ c.failed # "CHECK"
  BY DEF GoodConverter
<1>1. r \in ConverterRecord /\ r.failed = "no"
  BY <1>0, ResetResultGood
<1>2. all \in SUBSET Nat /\ IsFiniteSet(all)
  BY OneSegment
<1>3. d = SC!SingleSegment(r, "PREDICTION", n) \/ d = SC!ResetState(x)
  BY DEF SC!Predict
<1> HIDE DEF r, all
<1>4. CASE d = SC!SingleSegment(r, "PREDICTION", n)
  BY <1>1, <1>4, SingleSegmentGood
<1>5. CASE d = SC!ResetState(x)
  <2>1. x \in ConverterRecord
    BY <1>1, <1>2 DEF ConverterRecord
  <2>2. x.ends = all /\ x.failed = r.failed
    BY <1>1 DEF ConverterRecord
  <2> HIDE DEF x
  <2>3. Idle(d) /\ d.state = "COMPOSITION" /\ d.failed = x.failed
    BY <1>1, <1>2, <1>5, <2>1, <2>2, ResetStateGood
  <2> QED
    BY <1>1, <2>2, <2>3, IdleIsGood
<1> QED
  BY <1>3, <1>4, <1>5

\* Cancelling and resetting leave nothing going on.
LEMMA CancelGood ==
  ASSUME NEW n, NEW c, GoodConverter(c, n), c.failed = "no", NEW d \in SC!Cancel(c)
  PROVE  Idle(d)
<1> DEFINE r == SC!ResetResult(c)
           x == [ r EXCEPT !.ends = {} ]
<1>0. c \in ConverterRecord /\ IsFiniteSet(c.ends) /\ c.failed # "CHECK"
  BY DEF GoodConverter
<1>1. r \in ConverterRecord /\ r.failed = "no"
  BY <1>0, ResetResultGood
<1>2. d = SC!Failed(c, "DCHECK") \/ d = SC!ResetState(x)
  BY DEF SC!Cancel, SC!CheckState
<1> HIDE DEF r
<1>3. x \in ConverterRecord /\ IsFiniteSet(x.ends) /\ x.failed = r.failed
  BY <1>1, NoSegments
<1> HIDE DEF x
<1> QED
  BY <1>0, <1>1, <1>2, <1>3, FailedGood, ResetStateGood

\* Reset leaves an idle converter and the assertion that failed, if one did.
LEMMA ResetGood ==
  ASSUME NEW n, NEW c, GoodConverter(c, n)
  PROVE  /\ Idle(SC!Reset(c)) /\ SC!Reset(c).state = "COMPOSITION"
         /\ SC!Reset(c).failed = c.failed
<1> DEFINE r == [ c EXCEPT !.ends = {} ]
           x == SC!ResetResult(r)
<1>0. /\ c \in ConverterRecord /\ c.failed # "CHECK"
      /\ c.failed = "no" => c.segment_index >= 0
  BY DEF GoodConverter
<1>1. /\ r \in ConverterRecord /\ IsFiniteSet(r.ends) /\ r.failed = c.failed
      /\ r.state = c.state /\ r.segment_index = c.segment_index
  BY <1>0, NoSegments
<1>2. SC!Reset(c) = IF c.state = "COMPOSITION" THEN r ELSE SC!ResetState(x)
  BY DEF SC!Reset
<1> HIDE DEF r
<1>3. x \in ConverterRecord /\ IsFiniteSet(x.ends) /\ x.failed = r.failed
  BY <1>1, ResetResultGood
<1> HIDE DEF x
<1>4. CASE c.state = "COMPOSITION"
  BY <1>0, <1>1, <1>2, <1>4 DEF Idle
<1>5. CASE c.state # "COMPOSITION"
  BY <1>0, <1>1, <1>2, <1>3, <1>5, ResetStateGood
<1> QED
  BY <1>4, <1>5

\* Dropping or keeping the history at the start of a composition.
LEMMA OnStartCompositionGood ==
  ASSUME NEW n, NEW c, GoodConverter(c, n), Calm(c), NEW d \in SC!OnStartComposition(c)
  PROVE  GoodConverter(d, n) /\ d.state = c.state /\ d.failed = c.failed
<1>0. c \in ConverterRecord
  BY DEF GoodConverter
<1>1. CASE d = c
  BY <1>1
<1>2. CASE d = [ c EXCEPT !.ends = {} ]
  <2>1. d.state = c.state /\ d.failed = c.failed
    BY <1>0, <1>2, NoSegments
  <2>2. GoodConverter(d, n)
    BY <1>2, NoSegmentsGood DEF Calm
  <2> QED
    BY <2>1, <2>2
<1> QED
  BY <1>1, <1>2 DEF SC!OnStartComposition

\* The checks of the candidate list and of the selected indices.
LEMMA CheckedGood ==
  ASSUME NEW n, NEW c, GoodConverter(c, n)
  PROVE  /\ GoodConverter(SC!UpdateCandidateList(c), n)
         /\ SC!UpdateCandidateList(c).state = c.state
         /\ GoodConverter(SC!UpdateSelectedCandidateIndex(c), n)
         /\ SC!UpdateSelectedCandidateIndex(c).state = c.state
         /\ c.failed # "no" => /\ SC!UpdateCandidateList(c).failed # "no"
                               /\ SC!UpdateSelectedCandidateIndex(c).failed # "no"
<1>0. c \in ConverterRecord /\ IsFiniteSet(c.ends) /\ c.failed # "CHECK"
  BY DEF GoodConverter
<1>1. /\ GoodConverter(SC!Failed(c, "DCHECK"), n) /\ SC!Failed(c, "DCHECK").state = c.state
      /\ SC!Failed(c, "DCHECK").failed # "no"
  BY <1>0, FailedGood, IdleIsGood
<1>2. SC!UpdateCandidateList(c) \in {c, SC!Failed(c, "DCHECK")}
  BY DEF SC!UpdateCandidateList
<1>3. SC!UpdateSelectedCandidateIndex(c) \in {c, SC!Failed(c, "DCHECK")}
  BY DEF SC!UpdateSelectedCandidateIndex
<1> QED
  BY <1>1, <1>2, <1>3

\* A converter whose focus may be out of range, once the candidate list is
\* checked.
LEMMA CandidateListGood ==
  ASSUME NEW n, NEW c \in ConverterRecord, IsFiniteSet(c.ends), c.failed = "no",
         c.state = "CONVERSION", c.segment_index >= 0,
         c.ends \in SC!Segmentations(n), Cardinality(c.ends) <= c.selected
  PROVE  /\ GoodConverter(SC!UpdateCandidateList(c), n)
         /\ SC!UpdateCandidateList(c).state = "CONVERSION"
<1>1. CASE SC!InRange(c)
  <2>1. c.segment_index < Cardinality(c.ends)
    BY <1>1, SameCardinality DEF SC!InRange
  <2>2. GoodConverter(c, n)
    BY <2>1 DEF GoodConverter
  <2> QED
    BY <1>1, <2>2 DEF SC!UpdateCandidateList
<1>2. CASE ~SC!InRange(c)
  BY <1>2, FailedGood, IdleIsGood DEF SC!UpdateCandidateList
<1> QED
  BY <1>1, <1>2

\* Moving among candidates keeps the conversion.
LEMMA CandidateMoveGood ==
  ASSUME NEW n, NEW c, GoodConverter(c, n), c.failed = "no", NEW d \in SC!CandidateMove(c)
  PROVE  /\ GoodConverter(d, n) /\ d.state = c.state
         /\ d.failed = "no" => d.state \in {"PREDICTION", "CONVERSION"}
<1> DEFINE r == SC!ResetResult(c)
<1>0. c \in ConverterRecord /\ IsFiniteSet(c.ends) /\ c.failed # "CHECK"
  BY DEF GoodConverter
<1>1. r.state = c.state /\ GoodConverter(r, n)
  BY <1>0, ResetResultGood
<1>2. CASE c.state \in {"PREDICTION", "CONVERSION"}
  <2>1. d = SC!UpdateSelectedCandidateIndex(r)
    BY <1>2 DEF SC!CandidateMove, SC!CheckState
  <2> HIDE DEF r
  <2> QED
    BY <1>1, <1>2, <2>1, CheckedGood
<1>3. CASE c.state \notin {"PREDICTION", "CONVERSION"}
  <2>1. d = SC!Failed(c, "DCHECK")
    BY <1>3 DEF SC!CandidateMove, SC!CheckState
  <2> QED
    BY <1>0, <2>1, FailedGood, IdleIsGood
<1> QED
  BY <1>2, <1>3

\* Choosing a candidate by its id predicts first when it is a suggestion's.
LEMMA CandidateMoveToIdGood ==
  ASSUME NEW n \in Nat, NEW c, GoodConverter(c, n), c.failed = "no",
         NEW d \in SC!CandidateMoveToId(c, n)
  PROVE  /\ GoodConverter(d, n)
         /\ d.failed = "no" => d.state \in {"PREDICTION", "CONVERSION"}
<1> DEFINE S == IF c.state = "SUGGESTION" THEN SC!Predict(c, n) ELSE {SC!ResetResult(c)}
<1>0. c \in ConverterRecord /\ IsFiniteSet(c.ends) /\ c.failed # "CHECK"
  BY DEF GoodConverter
<1>1. \A x \in S : GoodConverter(x, n) /\ x.failed = "no"
  BY <1>0, PredictGood, ResetResultGood
<1>2. CASE c.state \in SC!ConverterState \ {"COMPOSITION"}
  <2>1. d \in SC!Each(S, SC!CandidateMove)
    BY <1>2 DEF SC!CandidateMoveToId, SC!CheckState
  <2>2. PICK x \in S : d \in IF x.failed # "no" THEN {x} ELSE SC!CandidateMove(x)
    BY <2>1 DEF SC!Each
  <2> HIDE DEF S
  <2> QED
    BY <1>1, <2>2, CandidateMoveGood
<1>3. CASE c.state \notin SC!ConverterState \ {"COMPOSITION"}
  <2>1. d = SC!Failed(c, "DCHECK")
    BY <1>3 DEF SC!CandidateMoveToId, SC!CheckState
  <2> QED
    BY <1>0, <2>1, FailedGood, IdleIsGood
<1> QED
  BY <1>2, <1>3

\* Moving the focus among segments keeps the conversion.
LEMMA SegmentFocusGood ==
  ASSUME NEW n \in Nat, NEW c, GoodConverter(c, n), c.failed = "no", NEW index \in Int,
         c.state = "CONVERSION" => index >= 0,
         NEW d \in SC!SegmentFocusInternal(c, index)
  PROVE  GoodConverter(d, n) /\ d.state = c.state
<1> DEFINE r == SC!ResetResult(c)
           x == [ r EXCEPT !.segment_index = index ]
<1>0. c \in ConverterRecord /\ IsFiniteSet(c.ends) /\ c.failed # "CHECK"
  BY DEF GoodConverter
<1>1. /\ r \in ConverterRecord /\ r.state = c.state /\ r.failed = c.failed /\ r.ends = c.ends
      /\ r.selected = c.selected
  BY <1>0, ResetResultGood
<1>2. CASE c.state = "CONVERSION"
  <2>1. d = SC!UpdateCandidateList(x)
    BY <1>2 DEF SC!SegmentFocusInternal, SC!CheckState
  <2> HIDE DEF r
  <2>2. x \in ConverterRecord
    BY <1>1 DEF ConverterRecord
  <2>3. /\ x.state = r.state /\ x.failed = r.failed /\ x.ends = r.ends
        /\ x.selected = r.selected /\ x.segment_index = index
    BY <1>1 DEF ConverterRecord
  <2>4. c.ends \in SC!Segmentations(n) /\ Cardinality(c.ends) <= c.selected
    BY <1>2 DEF GoodConverter
  <2> HIDE DEF x
  <2> QED
    BY <1>0, <1>1, <1>2, <2>1, <2>2, <2>3, <2>4, CandidateListGood
<1>3. CASE c.state = "PREDICTION"
  <2>1. d = c
    BY <1>3 DEF SC!SegmentFocusInternal, SC!CheckState
  <2> QED
    BY <2>1
<1>4. CASE c.state \notin {"PREDICTION", "CONVERSION"}
  <2>1. d = SC!Failed(c, "DCHECK")
    BY <1>4 DEF SC!SegmentFocusInternal, SC!CheckState
  <2> QED
    BY <1>0, <2>1, FailedGood, IdleIsGood
<1> QED
  BY <1>2, <1>3, <1>4

\* The four commands that move the focus keep it on a segment.
LEMMA SegmentFocusesGood ==
  ASSUME NEW n \in Nat, NEW c, GoodConverter(c, n), c.failed = "no",
         NEW d \in SC!SegmentFocusFirst(c) \cup SC!SegmentFocusLast(c)
                     \cup SC!SegmentFocusRight(c) \cup SC!SegmentFocusLeft(c)
  PROVE  GoodConverter(d, n) /\ d.state = c.state
<1>0. /\ c \in ConverterRecord /\ IsFiniteSet(c.ends) /\ c.segment_index >= 0
      /\ c.segment_index \in Int
  BY ConverterFields DEF GoodConverter
<1>1. /\ Cardinality(c.ends) \in Nat
      /\ c.state = "CONVERSION" => Cardinality(c.ends) >= 1
  <2>1. Cardinality(c.ends) \in Nat
    BY <1>0, FS_CardinalityType
  <2>2. c.state = "CONVERSION" => c.ends \in SC!Segmentations(n)
    BY DEF GoodConverter
  <2> QED
    BY <2>1, <2>2, SegmentationProperties
<1>2. SC!Cardinality(c.ends) = Cardinality(c.ends)
  BY SameCardinality
<1>3. \E index \in {0, Cardinality(c.ends) - 1, c.segment_index + 1, c.segment_index - 1} :
        /\ d \in SC!SegmentFocusInternal(c, index)
        /\ index = c.segment_index - 1 => index >= 0 \/ index = Cardinality(c.ends) - 1
  <2>1. CASE d \in SC!SegmentFocusFirst(c)
    BY <1>0, <2>1 DEF SC!SegmentFocusFirst
  <2>2. CASE d \in SC!SegmentFocusLast(c)
    BY <1>0, <1>2, <2>2 DEF SC!SegmentFocusLast
  <2>3. CASE d \in SC!SegmentFocusRight(c)
    BY <1>0, <2>3 DEF SC!SegmentFocusRight, SC!SegmentFocusFirst
  <2>4. CASE d \in SC!SegmentFocusLeft(c)
    <3>1. CASE c.segment_index <= 0
      BY <1>0, <1>2, <2>4, <3>1 DEF SC!SegmentFocusLeft, SC!SegmentFocusLast
    <3>2. CASE ~(c.segment_index <= 0)
      BY <1>0, <2>4, <3>2 DEF SC!SegmentFocusLeft
    <3> QED
      BY <3>1, <3>2
  <2> QED
    BY <2>1, <2>2, <2>3, <2>4
<1>4. PICK index \in Int : /\ d \in SC!SegmentFocusInternal(c, index)
                           /\ c.state = "CONVERSION" => index >= 0
  BY <1>0, <1>1, <1>3
<1> QED
  BY <1>4, SegmentFocusGood

\* Resizing a segment keeps a segmentation of the same preedit, with a
\* selected candidate for each of its segments.
LEMMA ResizeGood ==
  ASSUME NEW n \in Nat, NEW c, GoodConverter(c, n), c.failed = "no", NEW delta \in Int,
         NEW d \in SC!ResizeSegmentWidth(c, delta)
  PROVE  GoodConverter(d, n) /\ d.state = c.state
<1> DEFINE r == SC!ResetResult(c)
           R == SC!ResizeSegment(c.ends, c.segment_index, delta)
<1>0. c \in ConverterRecord /\ IsFiniteSet(c.ends) /\ c.failed # "CHECK"
  BY DEF GoodConverter
<1>1. /\ r \in ConverterRecord /\ r.state = c.state /\ r.failed = c.failed
      /\ r.segment_index = c.segment_index /\ GoodConverter(r, n)
  BY <1>0, ResetResultGood
<1>2. CASE c.state \notin {"PREDICTION", "CONVERSION"}
  <2>1. d = SC!Failed(c, "DCHECK")
    BY <1>2 DEF SC!ResizeSegmentWidth, SC!CheckState
  <2> QED
    BY <1>0, <2>1, FailedGood, IdleIsGood
<1>3. CASE c.state = "PREDICTION"
  <2>1. d = c
    BY <1>3 DEF SC!ResizeSegmentWidth, SC!CheckState
  <2> QED
    BY <2>1
<1>4. CASE c.state = "CONVERSION" /\ R = {}
  <2>1. d = r
    BY <1>4 DEF SC!ResizeSegmentWidth, SC!CheckState
  <2> QED
    BY <1>1, <2>1
<1>5. CASE c.state = "CONVERSION" /\ R # {}
  <2>1. PICK e \in R :
          d = SC!UpdateSelectedCandidateIndex(SC!UpdateCandidateList(
                [ r EXCEPT !.ends = e, !.selected = SC!Cardinality(e) ]))
    BY <1>5 DEF SC!ResizeSegmentWidth, SC!CheckState
  <2>2. c.ends \in SC!Segmentations(n)
    BY <1>5 DEF GoodConverter
  <2>3. e \in SC!Segmentations(SC!Max(c.ends))
    BY <2>1 DEF SC!ResizeSegment
  <2>4. e \in SC!Segmentations(n)
    BY <2>2, <2>3, SegmentationProperties
  <2>5. e \in SUBSET Nat /\ IsFiniteSet(e) /\ Cardinality(e) \in Nat
    BY <2>4, SegmentationProperties
  <2> DEFINE size == SC!Cardinality(e)
             x == [ r EXCEPT !.ends = e, !.selected = size ]
  <2>6. size = Cardinality(e)
    BY SameCardinality
  <2>7. size \in Int /\ Cardinality(e) <= size
    BY <2>5, <2>6
  <2>8. d = SC!UpdateSelectedCandidateIndex(SC!UpdateCandidateList(x))
    BY <2>1
  <2>9. c.segment_index >= 0
    BY DEF GoodConverter
  <2> HIDE DEF r, size
  <2>10. x \in ConverterRecord
    BY <1>1, <2>5, <2>7 DEF ConverterRecord
  <2>11. /\ x.state = r.state /\ x.failed = r.failed /\ x.ends = e /\ x.selected = size
         /\ x.segment_index = r.segment_index
    BY <1>1 DEF ConverterRecord
  <2> HIDE DEF x
  <2>12. GoodConverter(SC!UpdateCandidateList(x), n)
          /\ SC!UpdateCandidateList(x).state = "CONVERSION"
    BY <1>1, <1>5, <2>4, <2>5, <2>7, <2>9, <2>10, <2>11, CandidateListGood
  <2> QED
    BY <1>5, <2>8, <2>12, CheckedGood
<1> QED
  BY <1>2, <1>3, <1>4, <1>5

\* Both transliterations join the segments of a new conversion to one.
LEMMA JoinedGood ==
  ASSUME NEW n \in Nat, NEW z, GoodConverter(z, n), z.failed = "no",
         z.state = "CONVERSION", n # 0, z.segment_index = 0
  PROVE  LET joined == [ SC!ResetResult(z) EXCEPT !.ends = {n}, !.selected = 1 ]
             switched == [ z EXCEPT !.ends = {n} ]
         IN  /\ GoodConverter(joined, n) /\ joined.state = "CONVERSION" /\ joined.failed = "no"
             /\ GoodConverter(switched, n) /\ switched.state = "CONVERSION"
             /\ switched.failed = "no"
<1> DEFINE r == SC!ResetResult(z)
           all == {n}
           one == 1
           joined == [ r EXCEPT !.ends = all, !.selected = one ]
           switched == [ z EXCEPT !.ends = all ]
<1>0. z \in ConverterRecord
  BY DEF GoodConverter
<1>1. r \in ConverterRecord /\ r.state = z.state /\ r.failed = z.failed
      /\ r.segment_index = z.segment_index
  BY <1>0, ResetResultGood
<1>2. /\ all \in SUBSET Nat /\ IsFiniteSet(all) /\ Cardinality(all) = 1
      /\ all \in SC!Segmentations(n)
  BY OneSegment
<1>3. one \in Int /\ one = 1
  OBVIOUS
<1>4. z.selected >= 1 /\ z.selected \in Int
  <2>1. z.ends \in SC!Segmentations(n) /\ Cardinality(z.ends) <= z.selected
    BY DEF GoodConverter
  <2>2. Cardinality(z.ends) \in Nat /\ Cardinality(z.ends) >= 1
    BY <2>1, SegmentationProperties
  <2>3. z.selected \in Int
    BY <1>0, ConverterFields
  <2> QED
    BY <2>1, <2>2, <2>3
<1> HIDE DEF r, all, one
<1>5. joined \in ConverterRecord
  BY <1>1, <1>2, <1>3 DEF ConverterRecord
<1>6. /\ joined.state = r.state /\ joined.failed = r.failed /\ joined.ends = all
      /\ joined.selected = one /\ joined.segment_index = r.segment_index
  BY <1>1 DEF ConverterRecord
<1>7. switched \in ConverterRecord
  BY <1>0, <1>2 DEF ConverterRecord
<1>8. /\ switched.state = z.state /\ switched.failed = z.failed /\ switched.ends = all
      /\ switched.selected = z.selected /\ switched.segment_index = z.segment_index
  BY <1>0 DEF ConverterRecord
<1> HIDE DEF joined, switched
<1>9. GoodConverter(joined, n)
  BY <1>1, <1>2, <1>3, <1>5, <1>6 DEF GoodConverter
<1>10. GoodConverter(switched, n)
  BY <1>2, <1>4, <1>7, <1>8 DEF GoodConverter
<1>11. joined = [ SC!ResetResult(z) EXCEPT !.ends = {n}, !.selected = 1 ]
  BY DEF joined, r, all, one
<1>12. switched = [ z EXCEPT !.ends = {n} ]
  BY DEF switched, all
<1> QED
  BY <1>1, <1>6, <1>8, <1>9, <1>10, <1>11, <1>12

\* What a transliteration starts from: a prediction is cancelled.
LEMMA CancelPredictionGood ==
  ASSUME NEW n \in Nat, NEW c, GoodConverter(c, n), c.failed = "no",
         NEW x \in IF c.state = "PREDICTION" THEN SC!Cancel(c) ELSE {c}
  PROVE  GoodConverter(x, n) /\ (x.failed = "no" => x.state # "PREDICTION")
BY CancelGood, IdleIsGood DEF Idle

\* What it ends with: a converter that converts selects its first candidate.
LEMMA SelectedGood ==
  ASSUME NEW n \in Nat, NEW y, GoodConverter(y, n),
         y.failed = "no" => y.state \in {"COMPOSITION", "CONVERSION"},
         NEW d \in IF y.failed # "no" THEN {y}
                   ELSE IF y.state = "CONVERSION" THEN {SC!UpdateSelectedCandidateIndex(y)}
                   ELSE {y}
  PROVE  /\ GoodConverter(d, n)
         /\ d.failed = "no" => d.state \in {"COMPOSITION", "CONVERSION"}
BY CheckedGood

\* Transliterating starts a conversion, a focused segment or none at all.
LEMMA ConvertToTransliterationGood ==
  ASSUME NEW n \in Nat, NEW c, GoodConverter(c, n), c.failed = "no",
         NEW d \in SC!ConvertToTransliteration(c, n)
  PROVE  /\ GoodConverter(d, n)
         /\ d.failed = "no" => d.state \in {"COMPOSITION", "CONVERSION"}
<1> DEFINE Join(z) == {IF z.state = "CONVERSION" /\ SC!Cardinality(z.ends) # 1
                       THEN [ SC!ResetResult(z) EXCEPT !.ends = {n}, !.selected = 1 ]
                       ELSE z}
           X == IF c.state = "PREDICTION" THEN SC!Cancel(c) ELSE {c}
           Made(x) == UNION { IF z.failed # "no" THEN {z} ELSE Join(z) : z \in SC!Convert(x, n) }
           Y == UNION { IF x.failed # "no" THEN {x}
                        ELSE IF x.state = "CONVERSION" THEN {x} ELSE Made(x) : x \in X }
           D == UNION { IF y.failed # "no" THEN {y}
                        ELSE IF y.state = "CONVERSION" THEN {SC!UpdateSelectedCandidateIndex(y)}
                        ELSE {y} : y \in Y }
<1>1. d \in D
  BY DEF SC!ConvertToTransliteration, SC!Transliterate, SC!Each
<1>2. \A x \in X : GoodConverter(x, n) /\ (x.failed = "no" => x.state # "PREDICTION")
  BY CancelPredictionGood
<1> HIDE DEF X
<1>3. \A x \in X : x.failed = "no" => \A y \in Made(x) :
        GoodConverter(y, n) /\ (y.failed = "no" => y.state \in {"COMPOSITION", "CONVERSION"})
  <2> SUFFICES ASSUME NEW x \in X, x.failed = "no", NEW y \in Made(x)
               PROVE  /\ GoodConverter(y, n)
                      /\ y.failed = "no" => y.state \in {"COMPOSITION", "CONVERSION"}
    OBVIOUS
  <2>1. PICK z \in SC!Convert(x, n) : y \in IF z.failed # "no" THEN {z} ELSE Join(z)
    OBVIOUS
  <2> HIDE DEF Join, Made, Y, D
  <2>0. GoodConverter(x, n)
    BY <1>2
  <2>2. /\ GoodConverter(z, n)
        /\ z.failed = "no" =>
             /\ z.state \in {"COMPOSITION", "CONVERSION"}
             /\ z.state = "CONVERSION" => n # 0 /\ z.segment_index = 0
    BY <2>0, ConvertGood
  <2>3. CASE z.failed # "no" \/ z.state # "CONVERSION" \/ y = z
    BY <2>1, <2>2, <2>3 DEF Join
  <2>4. CASE /\ z.failed = "no" /\ z.state = "CONVERSION"
             /\ y = [ SC!ResetResult(z) EXCEPT !.ends = {n}, !.selected = 1 ]
    BY <2>2, <2>4, JoinedGood
  <2> QED
    BY <2>1, <2>3, <2>4 DEF Join
<1> HIDE DEF Made
<1>4. \A y \in Y :
        GoodConverter(y, n) /\ (y.failed = "no" => y.state \in {"COMPOSITION", "CONVERSION"})
  BY <1>2, <1>3
<1> HIDE DEF Y
<1> QED
  BY <1>1, <1>4, SelectedGood

\* Switching the kana type leaves a good converter that does not suggest.
LEMMA SwitchKanaTypeGood ==
  ASSUME NEW n \in Nat, NEW c, GoodConverter(c, n), c.failed = "no",
         NEW d \in SC!SwitchKanaType(c, n)
  PROVE  /\ GoodConverter(d, n)
         /\ d.failed = "no" => d.state \in {"COMPOSITION", "CONVERSION"}
<1> DEFINE Join(z) == {IF z.state = "CONVERSION" THEN [ z EXCEPT !.ends = {n} ] ELSE z}
           X == IF c.state = "PREDICTION" THEN SC!Cancel(c) ELSE {c}
           Made(x) == UNION { IF z.failed # "no" THEN {z} ELSE Join(z) : z \in SC!Convert(x, n) }
           Y == UNION { IF x.failed # "no" THEN {x}
                        ELSE IF x.state = "CONVERSION" THEN {x} ELSE Made(x) : x \in X }
           D == UNION { IF y.failed # "no" THEN {y}
                        ELSE IF y.state = "CONVERSION" THEN {SC!UpdateSelectedCandidateIndex(y)}
                        ELSE {y} : y \in Y }
<1>1. d \in D
  BY DEF SC!SwitchKanaType, SC!Transliterate, SC!Each
<1>2. \A x \in X : GoodConverter(x, n) /\ (x.failed = "no" => x.state # "PREDICTION")
  BY CancelPredictionGood
<1> HIDE DEF X
<1>3. \A x \in X : x.failed = "no" => \A y \in Made(x) :
        GoodConverter(y, n) /\ (y.failed = "no" => y.state \in {"COMPOSITION", "CONVERSION"})
  <2> SUFFICES ASSUME NEW x \in X, x.failed = "no", NEW y \in Made(x)
               PROVE  /\ GoodConverter(y, n)
                      /\ y.failed = "no" => y.state \in {"COMPOSITION", "CONVERSION"}
    OBVIOUS
  <2>1. PICK z \in SC!Convert(x, n) : y \in IF z.failed # "no" THEN {z} ELSE Join(z)
    OBVIOUS
  <2>0. GoodConverter(x, n)
    BY <1>2
  <2>2. /\ GoodConverter(z, n)
        /\ z.failed = "no" =>
             /\ z.state \in {"COMPOSITION", "CONVERSION"}
             /\ z.state = "CONVERSION" => n # 0 /\ z.segment_index = 0
    BY <2>0, ConvertGood
  <2>3. CASE z.failed # "no" \/ z.state # "CONVERSION"
    BY <2>1, <2>2, <2>3
  <2>4. CASE z.failed = "no" /\ z.state = "CONVERSION"
    <3>1. y = [ z EXCEPT !.ends = {n} ]
      BY <2>1, <2>4
    <3> QED
      BY <2>2, <2>4, <3>1, JoinedGood
  <2> QED
    BY <2>3, <2>4
<1> HIDE DEF Made
<1>4. \A y \in Y :
        GoodConverter(y, n) /\ (y.failed = "no" => y.state \in {"COMPOSITION", "CONVERSION"})
  BY <1>2, <1>3
<1> HIDE DEF Y
<1> QED
  BY <1>1, <1>4, SelectedGood

\* The CHECK_LE of CommitUsageStatsWithSegmentsSize.
LEMMA CommitUsageStatsGood ==
  ASSUME NEW c \in ConverterRecord, NEW r \in Int, NEW size \in Nat, size <= c.selected,
         c.failed = "no"
  PROVE  LET d == SC!CommitUsageStats([ c EXCEPT !.result = r ], size)
         IN  /\ d \in ConverterRecord /\ d.failed = "no" /\ d.state = c.state
             /\ d.ends = c.ends /\ d.segment_index = c.segment_index
             /\ d.selected = c.selected - size
<1> DEFINE x == [ c EXCEPT !.result = r ]
           k == x.selected - size
           d == [ x EXCEPT !.selected = k ]
<1>1. x \in ConverterRecord
  BY DEF ConverterRecord
<1>2. /\ x.state = c.state /\ x.failed = c.failed /\ x.ends = c.ends
      /\ x.segment_index = c.segment_index /\ x.selected = c.selected
  BY DEF ConverterRecord
<1>3. SC!CommitUsageStats(x, size) = d
  BY <1>2 DEF SC!CommitUsageStats
<1>4. k \in Int
  <2>1. x.selected \in Int
    BY <1>1, ConverterFields
  <2> QED
    BY <2>1
<1>5. k = c.selected - size
  BY <1>2
<1> HIDE DEF k, x
<1>6. d \in ConverterRecord
  BY <1>1, <1>4 DEF ConverterRecord
<1>7. /\ d.state = x.state /\ d.failed = x.failed /\ d.ends = x.ends
      /\ d.segment_index = x.segment_index /\ d.selected = k
  BY <1>1 DEF ConverterRecord
<1>8. x = [ c EXCEPT !.result = r ]
  BY DEF x
<1> HIDE DEF d
<1> QED
  BY <1>2, <1>3, <1>5, <1>6, <1>7, <1>8

\* FinishConversion and ResetState after the statistics.
LEMMA FinishedGood ==
  ASSUME NEW c \in ConverterRecord, c.failed # "CHECK"
  PROVE  /\ Idle(SC!ResetState(SC!FinishConversion(c)))
         /\ SC!ResetState(SC!FinishConversion(c)).failed = c.failed
<1> DEFINE x == SC!FinishConversion(c)
<1>1. x \in ConverterRecord /\ IsFiniteSet(x.ends) /\ x.failed = c.failed
  BY NoSegments DEF SC!FinishConversion
<1> HIDE DEF x
<1>2. Idle(SC!ResetState(x)) /\ SC!ResetState(x).failed = x.failed
  BY <1>1, ResetStateGood
<1> QED
  BY <1>1, <1>2 DEF x

\* Committing all segments leaves nothing going on.
LEMMA CommitAllGood ==
  ASSUME NEW n \in Nat, NEW c, GoodConverter(c, n), c.failed = "no", NEW d \in SC!Commit(c)
  PROVE  Idle(d)
<1> DEFINE whole == IF c.state = "CONVERSION" THEN SC!Cardinality(c.ends) ELSE 1
           size == IF c.state = "CONVERSION" THEN SC!Max(c.ends) ELSE 1
           x == SC!CommitUsageStats([ c EXCEPT !.result = size ], whole)
<1>0. c \in ConverterRecord /\ IsFiniteSet(c.ends) /\ c.failed # "CHECK"
  BY DEF GoodConverter
<1>1. CASE c.state \notin {"PREDICTION", "CONVERSION"}
  <2>1. d = SC!Failed(c, "DCHECK")
    BY <1>1 DEF SC!Commit, SC!CheckState
  <2> QED
    BY <1>0, <2>1, FailedGood
<1>2. CASE c.state \in {"PREDICTION", "CONVERSION"}
  <2>1. d \in SC!Cancel(c) \cup {IF x.failed # "no" THEN x
                                 ELSE SC!ResetState(SC!FinishConversion(x))}
    BY <1>2 DEF SC!Commit, SC!CheckState
  <2>2. size \in Int /\ whole \in Nat /\ whole <= c.selected
    <3>1. CASE c.state = "PREDICTION"
      <4>1. c.selected >= 1
        BY <3>1 DEF GoodConverter
      <4>2. c.selected \in Int
        BY <1>0, ConverterFields
      <4> QED
        BY <3>1, <4>1, <4>2
    <3>2. CASE c.state = "CONVERSION"
      <4>1. c.ends \in SC!Segmentations(n) /\ Cardinality(c.ends) <= c.selected
        BY <3>2 DEF GoodConverter
      <4>2. SC!Max(c.ends) = n /\ Cardinality(c.ends) \in Nat
        BY <4>1, SegmentationProperties
      <4>3. size = n
        BY <3>2, <4>2
      <4>4. whole = Cardinality(c.ends)
        BY <3>2, SameCardinality
      <4> HIDE DEF size, whole
      <4> QED
        BY <4>1, <4>2, <4>3, <4>4
    <3> QED
      BY <1>2, <3>1, <3>2
  <2> HIDE DEF size, whole
  <2>3. x \in ConverterRecord /\ x.failed = "no"
    BY <1>0, <2>2, CommitUsageStatsGood
  <2> HIDE DEF x
  <2>4. CASE d \in SC!Cancel(c)
    BY <2>4, CancelGood
  <2>5. CASE d = SC!ResetState(SC!FinishConversion(x))
    BY <2>3, <2>5, FinishedGood
  <2> QED
    BY <2>1, <2>3, <2>4, <2>5
<1> QED
  BY <1>1, <1>2

\* A pair of a converter and the characters it committed, of a preedit of n.
GoodOutcome(o, n) ==
  /\ o[1] \in ConverterRecord /\ IsFiniteSet(o[1].ends) /\ o[1].failed # "CHECK"
  /\ o[1].failed = "no" => o[1].state # "SUGGESTION"
  /\ o[2] \in 0..n
  /\ o[2] = 0 \/ o[2] # n => GoodConverter(o[1], n - o[2])

\* Committing the first k segments: the others are a conversion of what is left
\* of the preedit, and each of them keeps its selected candidate.
LEMMA CommitSegmentsGood ==
  ASSUME NEW n \in Nat, NEW c, GoodConverter(c, n), c.failed = "no",
         NEW k \in Nat, k >= 1, NEW o \in SC!CommitSegmentsInternal(c, k)
  PROVE  GoodOutcome(o, n)
<1>0. c \in ConverterRecord /\ IsFiniteSet(c.ends) /\ c.failed # "CHECK"
  BY DEF GoodConverter
<1>1. SC!Cardinality(c.ends) = Cardinality(c.ends) /\ Cardinality(c.ends) \in Nat
  BY <1>0, SameCardinality, FS_CardinalityType
<1>2. ASSUME NEW d, Idle(d), o = <<d, 0>>
      PROVE  GoodOutcome(o, n)
  <2>1. o[1] = d /\ o[2] = 0 /\ n - o[2] = n
    BY <1>2
  <2>2. GoodConverter(d, n)
    BY <1>2, IdleIsGood
  <2> QED
    BY <1>2, <2>1, <2>2 DEF GoodOutcome, Idle
<1>3. CASE c.state \notin {"PREDICTION", "CONVERSION"} \/ Cardinality(c.ends) < k
  <2>1. o = <<SC!Failed(c, "DCHECK"), 0>>
    BY <1>1, <1>3 DEF SC!CommitSegmentsInternal
  <2> QED
    BY <1>0, <1>2, <2>1, FailedGood
<1>4. CASE c.state \in {"PREDICTION", "CONVERSION"} /\ Cardinality(c.ends) = k
  <2>1. o \in SC!Commit(c) \X {0}
    BY <1>1, <1>4 DEF SC!CommitSegmentsInternal
  <2>2. PICK d \in SC!Commit(c) : o = <<d, 0>>
    BY <2>1
  <2> QED
    BY <1>2, <2>2, CommitAllGood
<1>5. CASE c.state \in {"PREDICTION", "CONVERSION"} /\ Cardinality(c.ends) > k
  <2> DEFINE size == SC!EndOf(c.ends, k)
             d == SC!CommitUsageStats([ c EXCEPT !.result = size ], k)
             rest == SC!After(c.ends, size)
             index == IF c.segment_index > k THEN c.segment_index - k ELSE 0
             x == [ d EXCEPT !.ends = rest, !.segment_index = index ]
             u == SC!UpdateCandidateList(x)
  <2>1. c.state = "CONVERSION"
    BY <1>1, <1>5 DEF GoodConverter
  <2>2. c.ends \in SC!Segmentations(n) /\ Cardinality(c.ends) <= c.selected
    BY <2>1 DEF GoodConverter
  <2>3. c.selected \in Int /\ c.segment_index \in Int
    BY <1>0, ConverterFields
  <2>4. o \in (SC!Cancel(c) \X {0}) \cup {<<IF d.failed # "no" THEN d ELSE u, size>>}
    BY <1>1, <1>5 DEF SC!CommitSegmentsInternal
  <2>5. /\ size \in 1..n /\ rest \in SUBSET Nat /\ IsFiniteSet(rest)
        /\ Cardinality(rest) <= Cardinality(c.ends) - k
        /\ size # n => rest \in SC!Segmentations(n - size)
    BY <1>1, <1>5, <2>2, AfterProperties
  <2>6. index \in Int /\ index >= 0
    BY <2>3
  <2> HIDE DEF size, rest, index
  <2>7. k <= c.selected /\ size \in Int
    BY <1>1, <1>5, <2>2, <2>3, <2>5
  <2>8. /\ d \in ConverterRecord /\ d.failed = "no" /\ d.state = c.state
        /\ d.selected = c.selected - k
    BY <1>0, <2>7, CommitUsageStatsGood
  <2> HIDE DEF d
  <2>9. x \in ConverterRecord
    BY <2>5, <2>6, <2>8 DEF ConverterRecord
  <2>10. /\ x.state = d.state /\ x.failed = d.failed /\ x.ends = rest
         /\ x.segment_index = index /\ x.selected = d.selected
    BY <2>8 DEF ConverterRecord
  <2> HIDE DEF x
  <2>11. Cardinality(rest) \in Nat
    BY <2>5, FS_CardinalityType
  <2>12. Cardinality(x.ends) <= x.selected
    BY <1>1, <2>2, <2>3, <2>5, <2>8, <2>10, <2>11
  <2>13. size # n => GoodConverter(u, n - size) /\ u.state = "CONVERSION"
    BY <2>1, <2>5, <2>6, <2>8, <2>9, <2>10, <2>12, CandidateListGood
  <2>14. /\ u \in ConverterRecord /\ IsFiniteSet(u.ends) /\ u.failed # "CHECK"
         /\ u.state = "CONVERSION"
    <3>1. u \in {x, SC!Failed(x, "DCHECK")}
      BY DEF SC!UpdateCandidateList
    <3>2. IsFiniteSet(x.ends) /\ x.state = "CONVERSION" /\ x.failed = "no"
      BY <2>1, <2>5, <2>8, <2>10
    <3> QED
      BY <2>9, <3>1, <3>2, FailedGood DEF Idle
  <2> HIDE DEF u
  <2>15. CASE o \in SC!Cancel(c) \X {0}
    <3>1. PICK y \in SC!Cancel(c) : o = <<y, 0>>
      BY <2>15
    <3> QED
      BY <1>2, <3>1, CancelGood
  <2>16. CASE o = <<u, size>>
    <3>1. o[1] = u /\ o[2] = size
      BY <2>16
    <3>2. size \in 0..n /\ size # 0
      BY <2>5
    <3> QED
      BY <2>13, <2>14, <3>1, <3>2 DEF GoodOutcome
  <2> QED
    BY <2>4, <2>8, <2>15, <2>16
<1> QED
  BY <1>1, <1>3, <1>4, <1>5

\* Committing the preedit as it stands leaves nothing going on.
LEMMA CommitPreeditGood ==
  ASSUME NEW n \in Nat, NEW m, NEW c, GoodConverter(c, m), c.failed = "no"
  PROVE  Idle(SC!CommitPreedit(c, n))
<1> DEFINE x == [ c EXCEPT !.result = n ]
<1>0. c \in ConverterRecord
  BY DEF GoodConverter
<1>1. x \in ConverterRecord
  BY <1>0 DEF ConverterRecord
<1>2. x.failed = c.failed
  BY <1>0 DEF ConverterRecord
<1>3. SC!CommitPreedit(c, n) = SC!ResetState(SC!FinishConversion(x))
  BY DEF SC!CommitPreedit
<1> HIDE DEF x
<1> QED
  BY <1>1, <1>2, <1>3, FinishedGood

\* Committing the head of the preedit only sets the result.
LEMMA CommitHeadGood ==
  ASSUME NEW n, NEW c, GoodConverter(c, n), NEW count \in Int
  PROVE  LET d == SC!CommitHead(c, count)
         IN  GoodConverter(d, n) /\ d.state = c.state /\ d.failed = c.failed
<1> DEFINE d == SC!CommitHead(c, count)
<1>0. c \in ConverterRecord
  BY DEF GoodConverter
<1>1. d = [ c EXCEPT !.result = count ]
  BY DEF SC!CommitHead
<1> HIDE DEF d
<1>2. d \in ConverterRecord
  BY <1>0, <1>1 DEF ConverterRecord
<1>3. /\ d.state = c.state /\ d.failed = c.failed /\ d.ends = c.ends
      /\ d.segment_index = c.segment_index /\ d.selected = c.selected
  BY <1>0, <1>1 DEF ConverterRecord
<1>4. GoodConverter(d, n)
  BY <1>2, <1>3 DEF GoodConverter
<1> QED
  BY <1>3, <1>4 DEF d

\* Committing a suggestion leaves a suggestion of the rest, or nothing.
LEMMA CommitSuggestionGood ==
  ASSUME NEW n \in Nat, NEW c, GoodConverter(c, n), c.failed = "no", NEW zero_query,
         NEW o \in SC!CommitSuggestion(c, n, zero_query)
  PROVE  (\A m : GoodConverter(o[1], m)) /\ Calm(o[1]) /\ o[2] \in Nat
<1>0. c \in ConverterRecord /\ IsFiniteSet(c.ends) /\ c.failed # "CHECK"
  BY DEF GoodConverter
<1>1. ASSUME NEW d, Idle(d), NEW r \in Nat, o = <<d, r>>
      PROVE  (\A m : GoodConverter(o[1], m)) /\ Calm(o[1]) /\ o[2] \in Nat
  <2>1. o[1] = d /\ o[2] = r
    BY <1>1
  <2>2. \A m : GoodConverter(d, m)
    BY <1>1, IdleIsGood
  <2> QED
    BY <1>1, <2>1, <2>2 DEF Idle, Calm
<1>2. 0 \in Nat
  OBVIOUS
<1>3. CASE c.state # "SUGGESTION" \/ ~SC!InRange(c)
  <2>1. o = <<SC!Failed(c, "DCHECK"), 0>>
    BY <1>3 DEF SC!CommitSuggestion
  <2> QED
    BY <1>0, <1>1, <1>2, <2>1, FailedGood
<1>4. CASE c.state = "SUGGESTION" /\ SC!InRange(c)
  <2> DEFINE result(size) == IF size < n THEN size ELSE 1
             d(size) == SC!CommitUsageStats([ c EXCEPT !.result = result(size) ], 1)
             rest(size) == n - size
             outcome(size) ==
               IF d(size).failed # "no" THEN <<d(size), 0>>
               ELSE IF zero_query /\ rest(size) > 0
               THEN << [ d(size) EXCEPT !.ends = {rest(size)}, !.selected = 1 ], rest(size) >>
               ELSE << SC!ResetState(SC!FinishConversion(d(size))), rest(size) >>
  <2>1. o \in { <<c, 0>>, <<SC!ResetState(SC!ResetResult(c)), 0>> }
              \cup { outcome(size) : size \in 1..n \cup {n} }
    BY <1>4 DEF SC!CommitSuggestion
  <2>2. CASE o = <<c, 0>>
    <3>1. o[1] = c /\ o[2] = 0
      BY <2>2
    <3>2. \A m : GoodConverter(c, m)
      BY <1>4, OtherLength
    <3> QED
      BY <1>2, <1>4, <3>1, <3>2 DEF Calm
  <2>3. CASE o = <<SC!ResetState(SC!ResetResult(c)), 0>>
    <3> DEFINE r == SC!ResetResult(c)
    <3>1. r \in ConverterRecord /\ IsFiniteSet(r.ends) /\ r.failed # "CHECK"
      BY <1>0, ResetResultGood
    <3> HIDE DEF r
    <3>2. Idle(SC!ResetState(r))
      BY <3>1, ResetStateGood
    <3> QED
      BY <1>1, <1>2, <2>3, <3>2 DEF r
  <2>4. ASSUME NEW size \in 1..n \cup {n}, o = outcome(size)
        PROVE  (\A m : GoodConverter(o[1], m)) /\ Calm(o[1]) /\ o[2] \in Nat
    <3> DEFINE x == d(size)
               left == rest(size)
    <3>1. size \in Nat /\ size <= n
      OBVIOUS
    <3>2. result(size) \in Int /\ left \in Nat
      BY <3>1
    <3>3. 1 <= c.selected /\ 1 \in Nat /\ c.segment_index >= 0 /\ c.selected \in Int
      BY <1>0, <1>4, ConverterFields DEF GoodConverter
    <3> HIDE DEF result
    <3>4. /\ x \in ConverterRecord /\ x.failed = "no" /\ x.state = c.state
          /\ x.segment_index = c.segment_index
      BY <1>0, <3>2, <3>3, CommitUsageStatsGood
    <3> DEFINE all == {left}
               one == 1
               y == [ x EXCEPT !.ends = all, !.selected = one ]
               z == SC!ResetState(SC!FinishConversion(x))
    <3>5. o = IF zero_query /\ left > 0 THEN <<y, left>> ELSE <<z, left>>
      BY <2>4, <3>4
    <3> HIDE DEF x, left
    <3>6. all \in SUBSET Nat /\ IsFiniteSet(all)
      BY <3>2, OneSegment
    <3>7. one \in Int /\ one >= 1
      OBVIOUS
    <3> HIDE DEF all, one
    <3>8. y \in ConverterRecord
      BY <3>4, <3>6, <3>7 DEF ConverterRecord
    <3>9. /\ y.state = x.state /\ y.failed = x.failed /\ y.ends = all
          /\ y.segment_index = x.segment_index /\ y.selected = one
      BY <3>4 DEF ConverterRecord
    <3> HIDE DEF y
    <3>10. Calm(y) /\ \A m : GoodConverter(y, m)
      BY <1>4, <3>3, <3>4, <3>6, <3>7, <3>8, <3>9 DEF GoodConverter, Calm
    <3>11. Idle(z)
      BY <3>4, FinishedGood
    <3> HIDE DEF z
    <3>12. CASE o = <<y, left>>
      <4>1. o[1] = y /\ o[2] = left
        BY <3>12
      <4> QED
        BY <3>2, <3>10, <4>1
    <3>13. CASE o = <<z, left>>
      BY <1>1, <3>2, <3>11, <3>13
    <3> QED
      BY <3>5, <3>12, <3>13
  <2> QED
    BY <2>1, <2>2, <2>3, <2>4
<1> QED
  BY <1>3, <1>4

---------------------------------------------------------------------------
(***************************************************************************)
(* The session.  First what one assignment does to it.                     *)
(***************************************************************************)
SessionRecord == [ context : Context, undo_contexts : Seq(Context), output : Int ]

\* The fields of a session and of its context have their types.
LEMMA SoundFields ==
  ASSUME NEW s, Sound(s)
  PROVE  /\ s \in SessionRecord /\ s.context \in Context /\ s.output \in Int
         /\ s.undo_contexts \in Seq(Context)
         /\ s.context.state \in States /\ s.context.length \in Nat
         /\ s.context.source_text \in Nat /\ s.context.field \in Fields
         /\ s.context.converter \in ConverterRecord
         /\ s.context.output \in Int /\ s.context.owed \in Int
         /\ GoodConverter(s.context.converter, s.context.length)
<1>1. s \in SessionRecord
  BY DEF Sound, SessionRecord
<1>2. s.context \in Context /\ s.output \in Int /\ s.undo_contexts \in Seq(Context)
  BY <1>1 DEF SessionRecord
<1> QED
  BY <1>1, <1>2 DEF Context, Sound

\* The context of a session is replaced by one that is sound.
LEMMA SetContext ==
  ASSUME NEW s, Sound(s), NEW x \in Context, GoodConverter(x.converter, x.length)
  PROVE  /\ Sound([ s EXCEPT !.context = x ])
         /\ [ s EXCEPT !.context = x ].context = x
         /\ [ s EXCEPT !.context = x ].undo_contexts = s.undo_contexts
         /\ [ s EXCEPT !.context = x ].output = s.output
<1> DEFINE t == [ s EXCEPT !.context = x ]
<1>1. s \in SessionRecord
  BY SoundFields
<1>2. t \in SessionRecord
  BY <1>1 DEF SessionRecord
<1>3. t.context = x /\ t.undo_contexts = s.undo_contexts /\ t.output = s.output
  BY <1>1 DEF SessionRecord
<1> HIDE DEF t
<1>4. GoodUndo(t)
  BY <1>3 DEF Sound, GoodUndo
<1>5. Sound(t)
  BY <1>2, <1>3, <1>4 DEF Sound, SessionRecord
<1> QED
  BY <1>3, <1>5 DEF t

\* A session takes a converter that is right for its preedit.
LEMMA SetConverter ==
  ASSUME NEW s, Sound(s), NEW c, GoodConverter(c, s.context.length)
  PROVE  LET t == [ s EXCEPT !.context.converter = c ]
         IN  /\ Sound(t) /\ t.context.converter = c
             /\ t.context.state = s.context.state /\ t.context.length = s.context.length
             /\ t.context.source_text = s.context.source_text
             /\ t.undo_contexts = s.undo_contexts
<1> DEFINE x == [ s.context EXCEPT !.converter = c ]
           t == [ s EXCEPT !.context.converter = c ]
<1>0. s \in SessionRecord /\ s.context \in Context /\ c \in ConverterRecord
  BY SoundFields DEF GoodConverter
<1>1. x \in Context
  BY <1>0 DEF Context
<1>2. /\ x.converter = c /\ x.state = s.context.state /\ x.length = s.context.length
      /\ x.source_text = s.context.source_text
  BY <1>0 DEF Context
<1>3. t = [ s EXCEPT !.context = x ]
  BY <1>0 DEF SessionRecord
<1> HIDE DEF x, t
<1>4. Sound(t) /\ t.context = x /\ t.undo_contexts = s.undo_contexts
  BY <1>1, <1>2, <1>3, SetContext
<1> QED
  BY <1>2, <1>4 DEF t

\* A session takes a length its converter is right for.
LEMMA SetLength ==
  ASSUME NEW s, Sound(s), NEW n \in Nat, GoodConverter(s.context.converter, n)
  PROVE  LET t == [ s EXCEPT !.context.length = n ]
         IN  /\ Sound(t) /\ t.context.length = n
             /\ t.context.state = s.context.state
             /\ t.context.converter = s.context.converter
             /\ t.context.source_text = s.context.source_text
             /\ t.undo_contexts = s.undo_contexts
<1> DEFINE x == [ s.context EXCEPT !.length = n ]
           t == [ s EXCEPT !.context.length = n ]
<1>0. s \in SessionRecord /\ s.context \in Context
  BY SoundFields
<1>1. x \in Context
  BY <1>0 DEF Context
<1>2. /\ x.length = n /\ x.state = s.context.state /\ x.converter = s.context.converter
      /\ x.source_text = s.context.source_text
  BY <1>0 DEF Context
<1>3. t = [ s EXCEPT !.context = x ]
  BY <1>0 DEF SessionRecord
<1> HIDE DEF x, t
<1>4. Sound(t) /\ t.context = x /\ t.undo_contexts = s.undo_contexts
  BY <1>1, <1>2, <1>3, SetContext
<1> QED
  BY <1>2, <1>4 DEF t

\* A session takes a converter and the length it is right for.
LEMMA SetConverterLength ==
  ASSUME NEW s, Sound(s), NEW n \in Nat, NEW c, GoodConverter(c, n)
  PROVE  LET t == [ s EXCEPT !.context = [ s.context EXCEPT !.converter = c, !.length = n ] ]
         IN  /\ Sound(t) /\ t.context.length = n /\ t.context.converter = c
             /\ t.context.state = s.context.state
             /\ t = [ s EXCEPT !.context.converter = c, !.context.length = n ]
<1> DEFINE x == [ s.context EXCEPT !.converter = c, !.length = n ]
           t == [ s EXCEPT !.context = x ]
<1>0. s \in SessionRecord /\ s.context \in Context /\ c \in ConverterRecord
  BY SoundFields DEF GoodConverter
<1>1. x \in Context
  BY <1>0 DEF Context
<1>2. x.length = n /\ x.state = s.context.state /\ x.converter = c
  BY <1>0 DEF Context
<1>3. t = [ s EXCEPT !.context.converter = c, !.context.length = n ]
  BY <1>0 DEF SessionRecord
<1>4. Sound(t) /\ t.context = x
  <2> HIDE DEF x
  <2> QED
    BY <1>1, <1>2, SetContext
<1> HIDE DEF t
<1>5. /\ Sound(t) /\ t.context.length = n /\ t.context.converter = c
      /\ t.context.state = s.context.state
  BY <1>2, <1>4
<1> QED
  BY <1>3, <1>5 DEF t

\* Setting the state leaves the rest of the context alone.
LEMMA SetState ==
  ASSUME NEW s, Sound(s), NEW state \in States
  PROVE  LET t == [ s EXCEPT !.context.state = state ]
         IN  /\ Sound(t) /\ t.context.state = state
             /\ t.context.length = s.context.length
             /\ t.context.converter = s.context.converter
             /\ t.context.source_text = s.context.source_text
             /\ t.undo_contexts = s.undo_contexts
<1> DEFINE x == [ s.context EXCEPT !.state = state ]
           t == [ s EXCEPT !.context.state = state ]
<1>0. /\ s \in SessionRecord /\ s.context \in Context
      /\ GoodConverter(s.context.converter, s.context.length)
  BY SoundFields
<1>1. x \in Context
  BY <1>0 DEF Context
<1>2. /\ x.length = s.context.length /\ x.state = state /\ x.converter = s.context.converter
      /\ x.source_text = s.context.source_text
  BY <1>0 DEF Context
<1>3. t = [ s EXCEPT !.context = x ]
  BY <1>0 DEF SessionRecord
<1> HIDE DEF x, t
<1>4. Sound(t) /\ t.context = x /\ t.undo_contexts = s.undo_contexts
  BY <1>0, <1>1, <1>2, <1>3, SetContext
<1> QED
  BY <1>2, <1>4 DEF t

\* Setting the type of the input field leaves the rest of the context alone.
LEMMA SetField ==
  ASSUME NEW s, Sound(s), NEW field \in Fields
  PROVE  LET t == [ s EXCEPT !.context.field = field ]
         IN  /\ Sound(t) /\ t.context.state = s.context.state
             /\ t.context.length = s.context.length
             /\ t.context.converter = s.context.converter
             /\ t.context.source_text = s.context.source_text
<1> DEFINE x == [ s.context EXCEPT !.field = field ]
           t == [ s EXCEPT !.context.field = field ]
<1>0. /\ s \in SessionRecord /\ s.context \in Context
      /\ GoodConverter(s.context.converter, s.context.length)
  BY SoundFields
<1>1. x \in Context
  BY <1>0 DEF Context
<1>2. /\ x.length = s.context.length /\ x.state = s.context.state
      /\ x.converter = s.context.converter /\ x.source_text = s.context.source_text
  BY <1>0 DEF Context
<1>3. t = [ s EXCEPT !.context = x ]
  BY <1>0 DEF SessionRecord
<1> HIDE DEF x, t
<1>4. Sound(t) /\ t.context = x
  BY <1>0, <1>1, <1>2, <1>3, SetContext
<1> QED
  BY <1>2, <1>4 DEF t

\* Setting the source text leaves the rest of the context alone.
LEMMA SetSourceText ==
  ASSUME NEW s, Sound(s)
  PROVE  LET t == [ s EXCEPT !.context.source_text = 1 ]
         IN  /\ Sound(t) /\ t.context.state = s.context.state
             /\ t.context.length = s.context.length
             /\ t.context.converter = s.context.converter
             /\ t.context.source_text = 1
<1> DEFINE one == 1
           x == [ s.context EXCEPT !.source_text = one ]
           t == [ s EXCEPT !.context.source_text = one ]
<1>0. /\ s \in SessionRecord /\ s.context \in Context
      /\ GoodConverter(s.context.converter, s.context.length)
  BY SoundFields
<1>1. one \in Nat
  OBVIOUS
<1> HIDE DEF one
<1>2. x \in Context
  BY <1>0, <1>1 DEF Context
<1>3. /\ x.length = s.context.length /\ x.state = s.context.state
      /\ x.converter = s.context.converter /\ x.source_text = one
  BY <1>0 DEF Context
<1>4. t = [ s EXCEPT !.context = x ]
  BY <1>0 DEF SessionRecord
<1> HIDE DEF x, t
<1>5. Sound(t) /\ t.context = x
  BY <1>0, <1>2, <1>3, <1>4, SetContext
<1> QED
  BY <1>3, <1>5 DEF t, one

\* An empty composer suits every converter that is not converting.
LEMMA ResetComposerSound ==
  ASSUME NEW s, Sound(s),
         s.context.converter.failed = "no" => s.context.converter.state # "CONVERSION"
  PROVE  /\ Sound(ResetComposer(s)) /\ ResetComposer(s).context.length = 0
         /\ ResetComposer(s).context.state = s.context.state
         /\ ResetComposer(s).context.converter = s.context.converter
         /\ ResetComposer(s).undo_contexts = s.undo_contexts
<1> DEFINE zero == 0
           x == [ s.context EXCEPT !.length = zero, !.source_text = zero ]
           t == ResetComposer(s)
<1>0. /\ s \in SessionRecord /\ s.context \in Context
      /\ GoodConverter(s.context.converter, s.context.length)
  BY SoundFields
<1>1. zero \in Nat /\ zero = 0
  OBVIOUS
<1>2. t = [ s EXCEPT !.context.length = zero, !.context.source_text = zero ]
  BY DEF ResetComposer
<1> HIDE DEF zero, t
<1>3. x \in Context
  BY <1>0, <1>1 DEF Context
<1>4. x.length = zero /\ x.state = s.context.state /\ x.converter = s.context.converter
  BY <1>0 DEF Context
<1>5. t = [ s EXCEPT !.context = x ]
  BY <1>0, <1>2 DEF SessionRecord
<1> HIDE DEF x
<1>6. GoodConverter(x.converter, x.length)
  BY <1>0, <1>4, OtherLength
<1>7. Sound(t) /\ t.context = x /\ t.undo_contexts = s.undo_contexts
  BY <1>3, <1>5, <1>6, SetContext
<1> QED
  BY <1>1, <1>4, <1>7 DEF t

\* The output and the converter's share of it.
LEMMA SetOutput ==
  ASSUME NEW s, Sound(s), NEW v \in Int
  PROVE  LET t == [ s EXCEPT !.output = v ]
         IN  Sound(t) /\ t.context = s.context /\ t.undo_contexts = s.undo_contexts
<1> DEFINE t == [ s EXCEPT !.output = v ]
<1>0. s \in SessionRecord
  BY SoundFields
<1>1. t \in SessionRecord
  BY <1>0 DEF SessionRecord
<1>2. t.context = s.context /\ t.undo_contexts = s.undo_contexts
  BY <1>0 DEF SessionRecord
<1> HIDE DEF t
<1>3. Sound(t)
  BY <1>1, <1>2 DEF Sound, GoodUndo, SessionRecord
<1> QED
  BY <1>2, <1>3 DEF t

\* The stack of contexts is replaced by one whose contexts are good.
LEMMA SetUndo ==
  ASSUME NEW s, Sound(s), NEW u \in Seq(Context),
         \A i \in 1..Len(u) : GoodContext(u[i]) /\ u[i].converter.failed = "no"
  PROVE  LET t == [ s EXCEPT !.undo_contexts = u ]
         IN  Sound(t) /\ t.context = s.context /\ t.undo_contexts = u
<1> DEFINE t == [ s EXCEPT !.undo_contexts = u ]
<1>0. s \in SessionRecord
  BY SoundFields
<1>1. t \in SessionRecord
  BY <1>0 DEF SessionRecord
<1>2. t.context = s.context /\ t.undo_contexts = u
  BY <1>0 DEF SessionRecord
<1> HIDE DEF t
<1>3. Sound(t)
  BY <1>1, <1>2 DEF Sound, GoodUndo, SessionRecord
<1> QED
  BY <1>2, <1>3 DEF t

\* ClearUndoContext only empties the stack.
LEMMA ClearUndoSound ==
  ASSUME NEW s, Sound(s)
  PROVE  Sound(ClearUndoContext(s)) /\ ClearUndoContext(s).context = s.context
<1> DEFINE e == <<>>
<1>1. e \in Seq(Context)
  OBVIOUS
<1>2. Len(e) = 0
  OBVIOUS
<1>3. ClearUndoContext(s) = [ s EXCEPT !.undo_contexts = e ]
  BY DEF ClearUndoContext
<1> HIDE DEF e
<1>4. \A i \in 1..Len(e) : GoodContext(e[i]) /\ e[i].converter.failed = "no"
  BY <1>2
<1> QED
  BY <1>1, <1>3, <1>4, SetUndo

\* ClearUndoContext of a good session leaves a good one.
LEMMA ClearUndoGood ==
  ASSUME NEW s, Good(s)
  PROVE  Good(ClearUndoContext(s)) /\ ClearUndoContext(s).context = s.context
BY ClearUndoSound DEF Good

\* The greater of two lengths, and the smaller.
LEMMA MaxOfZero ==
  ASSUME NEW a \in Int
  PROVE  Max({0, a}) = IF a > 0 THEN a ELSE 0
<1> DEFINE m == IF a > 0 THEN a ELSE 0
<1>1. m \in {0, a} /\ \A y \in {0, a} : m >= y
  OBVIOUS
<1>2. \A x \in {0, a} : (\A y \in {0, a} : x >= y) => x = m
  OBVIOUS
<1> HIDE DEF m
<1> QED
  BY <1>1, <1>2 DEF Max, m

\* The smaller of two integers.
LEMMA MinOfTwo ==
  ASSUME NEW a \in Int, NEW b \in Int
  PROVE  Min({a, b}) = IF a <= b THEN a ELSE b
<1> DEFINE m == IF a <= b THEN a ELSE b
<1>1. m \in {a, b} /\ \A y \in {a, b} : m =< y
  OBVIOUS
<1>2. \A x \in {a, b} : (\A y \in {a, b} : x =< y) => x = m
  OBVIOUS
<1> HIDE DEF m
<1> QED
  BY <1>1, <1>2 DEF Min, m

\* Saving the context keeps the newest ones, all of them good.
LEMMA PushUndoGood ==
  ASSUME NEW s, Good(s), s.context.converter.failed = "no"
  PROVE  LET t == PushUndoContext(s)
         IN  /\ Good(t) /\ t.context.converter = s.context.converter
             /\ t.context.state = s.context.state /\ t.context.length = s.context.length
<1> DEFINE zero == 0
           all == Append(s.undo_contexts, s.context)
           surplus == Max({0, Len(all) - kMultipleUndoMaxSize})
           u == SubSeq(all, surplus + 1, Len(all))
           x == [ s.context EXCEPT !.owed = zero ]
           r == [ s EXCEPT !.undo_contexts = u ]
           t == PushUndoContext(s)
<1>0. /\ Sound(s) /\ s \in SessionRecord /\ s.context \in Context
      /\ s.undo_contexts \in Seq(Context)
      /\ GoodConverter(s.context.converter, s.context.length)
  BY SoundFields DEF Good
<1>1. zero \in Int
  OBVIOUS
<1>2. t = [ s EXCEPT !.undo_contexts = u, !.context.owed = zero ]
  BY DEF PushUndoContext
<1>3. GoodContext(s.context)
  BY <1>0 DEF Good, GoodContext
<1>4. all \in Seq(Context) /\ Len(all) = Len(s.undo_contexts) + 1 /\ Len(all) \in Nat
  BY <1>0
<1>5. \A i \in 1..Len(all) : GoodContext(all[i]) /\ all[i].converter.failed = "no"
  <2> TAKE i \in 1..Len(all)
  <2>1. CASE i = Len(all)
    <3>1. all[i] = s.context
      BY <1>0, <1>4, <2>1
    <3> QED
      BY <1>3, <3>1
  <2>2. CASE i # Len(all)
    <3>1. i \in 1..Len(s.undo_contexts) /\ all[i] = s.undo_contexts[i]
      BY <1>0, <1>4, <2>2
    <3> QED
      BY <3>1 DEF Good, Sound, GoodUndo
  <2> QED
    BY <2>1, <2>2
<1>6. surplus \in Nat /\ surplus <= Len(all)
  <2>1. Len(all) - kMultipleUndoMaxSize \in Int /\ kMultipleUndoMaxSize \in Nat
    BY <1>4, SessionAssumption
  <2> HIDE DEF all
  <2>2. surplus = IF Len(all) - kMultipleUndoMaxSize > 0
                  THEN Len(all) - kMultipleUndoMaxSize ELSE 0
    BY <2>1, MaxOfZero
  <2> HIDE DEF surplus
  <2> QED
    BY <1>4, <2>1, <2>2
<1> HIDE DEF all, surplus, zero, t
<1>7. \A i \in (surplus + 1)..Len(all) : all[i] \in Context
  BY <1>4, <1>6
<1>8. /\ u \in Seq(Context)
      /\ Len(u) = IF surplus + 1 <= Len(all) THEN Len(all) - (surplus + 1) + 1 ELSE 0
      /\ \A i \in 1..(Len(all) - (surplus + 1) + 1) : u[i] = all[surplus + 1 + i - 1]
  <2>1. surplus + 1 \in Int /\ Len(all) \in Int
    BY <1>4, <1>6
  <2> QED
    BY <1>7, <2>1, SubSeqProperties
<1> HIDE DEF u
<1>9. \A i \in 1..Len(u) : GoodContext(u[i]) /\ u[i].converter.failed = "no"
  <2> TAKE i \in 1..Len(u)
  <2>1. i \in 1..(Len(all) - (surplus + 1) + 1) /\ surplus + 1 + i - 1 \in 1..Len(all)
    BY <1>4, <1>6, <1>8
  <2> QED
    BY <1>5, <1>8, <2>1
<1>10. Sound(r) /\ r.context = s.context
  BY <1>0, <1>8, <1>9, SetUndo
<1>11. t = [ r EXCEPT !.context = x ]
  BY <1>0, <1>2 DEF SessionRecord
<1>12. x \in Context
  BY <1>0, <1>1 DEF Context
<1>13. /\ x.converter = s.context.converter /\ x.length = s.context.length
       /\ x.state = s.context.state /\ x.source_text = s.context.source_text
  BY <1>0 DEF Context
<1> HIDE DEF r, x
<1>14. Sound(t) /\ t.context = x
  BY <1>0, <1>10, <1>11, <1>12, <1>13, SetContext
<1>15. Good(t)
  BY <1>13, <1>14 DEF Good, Agree, Off, Empty
<1> QED
  BY <1>13, <1>14, <1>15 DEF t

\* An UNDO brings back a good context.
LEMMA PopUndoGood ==
  ASSUME NEW s, Good(s), HasUndoContext(s)
  PROVE  Good(PopUndoContext(s))
<1> DEFINE u == s.undo_contexts
           x == Last(u)
           f == Front(u)
           r == [ s EXCEPT !.undo_contexts = f ]
           t == PopUndoContext(s)
<1>0. Sound(s) /\ s \in SessionRecord /\ u \in Seq(Context)
  BY SoundFields DEF Good
<1>1. u # <<>>
  BY DEF HasUndoContext
<1>2. \A i \in 1..Len(u) : GoodContext(u[i]) /\ u[i].converter.failed = "no"
  BY DEF Good, Sound, GoodUndo
<1>3. t = [ s EXCEPT !.context = x, !.undo_contexts = f ]
  BY DEF PopUndoContext
<1> HIDE DEF u, t
<1>4. Len(u) \in Nat /\ Len(u) # 0
  BY <1>0, <1>1
<1>5. GoodContext(x)
  BY <1>2, <1>4 DEF Last
<1>6. f \in Seq(Context) /\ Len(f) = Len(u) - 1 /\ \A i \in 1..Len(f) : f[i] = u[i]
  <2>1. f = SubSeq(u, 1, Len(u) - 1)
    BY DEF Front
  <2>2. \A i \in 1..(Len(u) - 1) : u[i] \in Context
    BY <1>0, <1>4
  <2>3. 1 \in Int /\ Len(u) - 1 \in Int
    BY <1>4
  <2>4. /\ f \in Seq(Context)
        /\ Len(f) = IF 1 <= Len(u) - 1 THEN Len(u) - 1 - 1 + 1 ELSE 0
        /\ \A i \in 1..(Len(u) - 1 - 1 + 1) : f[i] = u[1 + i - 1]
    <3> HIDE DEF f
    <3> QED
      BY <2>1, <2>2, <2>3, SubSeqProperties
  <2> HIDE DEF f
  <2>5. Len(f) = Len(u) - 1
    <3>1. Len(f) = IF 1 <= Len(u) - 1 THEN Len(u) - 1 - 1 + 1 ELSE 0
      BY <2>4
    <3>2. CASE 1 <= Len(u) - 1
      <4>1. Len(f) = Len(u) - 1 - 1 + 1
        BY <3>1, <3>2
      <4> QED
        BY <1>4, <4>1
    <3>3. CASE ~(1 <= Len(u) - 1)
      <4>1. Len(f) = 0
        BY <3>1, <3>3
      <4>2. Len(u) = 1
        BY <1>4, <3>3
      <4> QED
        BY <4>1, <4>2
    <3> QED
      BY <3>2, <3>3
  <2>6. \A i \in 1..Len(f) : f[i] = u[i]
    <3> TAKE i \in 1..Len(f)
    <3>1. i \in 1..(Len(u) - 1 - 1 + 1) /\ 1 + i - 1 = i
      BY <1>4, <2>5
    <3> QED
      BY <2>4, <3>1
  <2> QED
    BY <2>4, <2>5, <2>6
<1> HIDE DEF f, x
<1>7. \A i \in 1..Len(f) : GoodContext(f[i]) /\ f[i].converter.failed = "no"
  BY <1>2, <1>4, <1>6
<1>8. Sound(r)
  BY <1>0, <1>6, <1>7, SetUndo
<1>9. t = [ r EXCEPT !.context = x ]
  BY <1>0, <1>3 DEF SessionRecord
<1> HIDE DEF r
<1>10. Sound(t) /\ t.context = x
  BY <1>5, <1>8, <1>9, SetContext DEF GoodContext
<1> QED
  BY <1>5, <1>10 DEF Good, GoodContext, t

---------------------------------------------------------------------------
(***************************************************************************)
(* Then what the methods do that every command is made of.                 *)
(***************************************************************************)

\* Outside CONVERSION a suggestion at most is going on, and any preedit will do.
LEMMA GoodIsCalm ==
  ASSUME NEW s, Good(s), s.context.state # "CONVERSION"
  PROVE  /\ Calm(s.context.converter)
         /\ \A n : GoodConverter(s.context.converter, n)
<1>1. Calm(s.context.converter)
  BY DEF Good, Agree, Calm
<1>2. GoodConverter(s.context.converter, s.context.length)
  BY DEF Good, Sound
<1> QED
  BY <1>1, <1>2, OtherLength DEF Calm

\* What every command may assume of the session it is given.
LEMMA AnySession ==
  ASSUME NEW s, Good(s)
  PROVE  /\ Sound(s) /\ s.context.length \in Nat /\ s.context.source_text \in Nat
         /\ s.context.state \in States /\ s.output \in Int
         /\ s.context.field \in Fields
         /\ GoodConverter(s.context.converter, s.context.length)
         /\ s.context.converter \in ConverterRecord
BY SoundFields DEF Good

\* A session whose assertion failed needs to be off to be wrong.
LEMMA FailedIsGood ==
  ASSUME NEW s, Sound(s), s.context.converter.failed # "no", s.context.state # "DIRECT"
  PROVE  Good(s)
BY DEF Good, Agree, Off

\* PRECOMPOSITION may be entered with a converter that converts nothing.
LEMMA PrecomposeGood ==
  ASSUME NEW s, Sound(s), Calm(s.context.converter), NEW t \in Precompose(s)
  PROVE  /\ Good(t) /\ t.context.state = "PRECOMPOSITION"
         /\ t.context.converter = s.context.converter
<1> DEFINE r == [ s EXCEPT !.context.state = "PRECOMPOSITION" ]
<1>1. t = ResetComposer(r)
  BY DEF Precompose, SetSessionState
<1>2. "PRECOMPOSITION" \in States
  BY DEF States
<1>3. /\ Sound(r) /\ r.context.state = "PRECOMPOSITION"
      /\ r.context.converter = s.context.converter
  BY <1>2, SetState
<1> HIDE DEF r
<1>4. /\ Sound(t) /\ t.context.state = "PRECOMPOSITION"
      /\ t.context.converter = s.context.converter
  BY <1>1, <1>3, ResetComposerSound DEF Calm
<1> QED
  BY <1>4 DEF Good, Agree, Off, Calm

\* DIRECT may be entered with an inactive converter, and empties the preedit.
LEMMA TurnOffGood ==
  ASSUME NEW s, Sound(s), s.context.converter.state = "COMPOSITION",
         NEW t \in SetSessionState(s, "DIRECT")
  PROVE  Good(t) /\ t.context.state = "DIRECT"
<1> DEFINE r == [ s EXCEPT !.context.state = "DIRECT" ]
<1>1. t = ResetComposer(r)
  BY DEF SetSessionState
<1>2. "DIRECT" \in States
  BY DEF States
<1>3. /\ Sound(r) /\ r.context.state = "DIRECT"
      /\ r.context.converter = s.context.converter
  BY <1>2, SetState
<1> HIDE DEF r
<1>4. /\ Sound(t) /\ t.context.state = "DIRECT" /\ t.context.length = 0
      /\ t.context.converter = s.context.converter
  BY <1>1, <1>3, ResetComposerSound
<1> QED
  BY <1>4 DEF Good, Agree, Off, Empty, SC!IsActive

\* Entering COMPOSITION keeps the preedit and the state of the converter.
LEMMA EnterCompositionSound ==
  ASSUME NEW s, Sound(s), s.context.state = "PRECOMPOSITION" => Calm(s.context.converter),
         NEW t \in SetSessionState(s, "COMPOSITION")
  PROVE  /\ Sound(t) /\ t.context.state = "COMPOSITION"
         /\ t.context.length = s.context.length
         /\ t.context.converter.state = s.context.converter.state
         /\ t.context.converter.failed = s.context.converter.failed
<1> DEFINE r == [ s EXCEPT !.context.state = "COMPOSITION" ]
<1>1. "COMPOSITION" \in States
  BY DEF States
<1>2. /\ Sound(r) /\ r.context.state = "COMPOSITION"
      /\ r.context.length = s.context.length
      /\ r.context.converter = s.context.converter
  BY <1>1, SetState
<1>3. CASE s.context.state # "PRECOMPOSITION"
  <2>1. t = r
    BY <1>3 DEF SetSessionState, State
  <2> QED
    BY <1>2, <2>1
<1>4. CASE s.context.state = "PRECOMPOSITION"
  <2>1. t \in WithConverter(r, SC!OnStartComposition(s.context.converter))
    BY <1>4 DEF SetSessionState, State, Converter
  <2>2. PICK c \in SC!OnStartComposition(s.context.converter) :
          t = [ r EXCEPT !.context.converter = c ]
    BY <2>1 DEF WithConverter
  <2>3. GoodConverter(s.context.converter, s.context.length)
    BY SoundFields
  <2>4. /\ GoodConverter(c, s.context.length) /\ c.state = s.context.converter.state
        /\ c.failed = s.context.converter.failed
    BY <1>4, <2>3, OnStartCompositionGood
  <2> HIDE DEF r
  <2> QED
    BY <1>2, <2>2, <2>4, SetConverter
<1> QED
  BY <1>3, <1>4

\* COMPOSITION may be entered with a converter that converts nothing.
LEMMA EnterCompositionGood ==
  ASSUME NEW s, Sound(s), Calm(s.context.converter),
         NEW t \in SetSessionState(s, "COMPOSITION")
  PROVE  /\ Good(t) /\ t.context.state = "COMPOSITION"
         /\ t.context.length = s.context.length
         /\ t.context.converter.failed = s.context.converter.failed
<1>1. /\ Sound(t) /\ t.context.state = "COMPOSITION"
      /\ t.context.length = s.context.length
      /\ t.context.converter.state = s.context.converter.state
      /\ t.context.converter.failed = s.context.converter.failed
  BY EnterCompositionSound
<1> QED
  BY <1>1 DEF Good, Agree, Off, Calm

\* CONVERSION may be entered with a converter that does not suggest.
LEMMA EnterConversionGood ==
  ASSUME NEW s, Sound(s),
         s.context.converter.failed = "no" => s.context.converter.state # "SUGGESTION",
         NEW t \in SetSessionState(s, "CONVERSION")
  PROVE  Good(t) /\ t.context.state = "CONVERSION"
<1>1. t = [ s EXCEPT !.context.state = "CONVERSION" ]
  BY DEF SetSessionState
<1>2. "CONVERSION" \in States
  BY DEF States
<1>3. /\ Sound(t) /\ t.context.state = "CONVERSION"
      /\ t.context.converter = s.context.converter
  BY <1>1, <1>2, SetState
<1> QED
  BY <1>3 DEF Good, Agree, Off

\* Resetting the converter leaves the state and the preedit alone.
LEMMA ResetConverterSound ==
  ASSUME NEW s, Sound(s)
  PROVE  /\ Sound(ResetConverter(s))
         /\ ResetConverter(s).context.converter.state = "COMPOSITION"
         /\ ResetConverter(s).context.converter.failed = s.context.converter.failed
         /\ ResetConverter(s).context.state = s.context.state
         /\ ResetConverter(s).context.length = s.context.length
         /\ ResetConverter(s).context.source_text = s.context.source_text
<1> DEFINE c == SC!Reset(s.context.converter)
<1>1. ResetConverter(s) = [ s EXCEPT !.context.converter = c ]
  BY DEF ResetConverter
<1>2. GoodConverter(s.context.converter, s.context.length)
  BY SoundFields
<1>3. Idle(c) /\ c.state = "COMPOSITION" /\ c.failed = s.context.converter.failed
  BY <1>2, ResetGood
<1>4. GoodConverter(c, s.context.length)
  BY <1>3, IdleIsGood
<1> HIDE DEF c
<1> QED
  BY <1>1, <1>3, <1>4, SetConverter

\* Resetting the converter of a good session leaves a good one.
LEMMA ResetConverterGood ==
  ASSUME NEW s, Good(s)
  PROVE  /\ Good(ResetConverter(s))
         /\ ResetConverter(s).context.converter.state = "COMPOSITION"
         /\ ResetConverter(s).context.converter.failed = s.context.converter.failed
         /\ ResetConverter(s).context.state = s.context.state
<1>1. Sound(s)
  BY DEF Good
<1>2. /\ Sound(ResetConverter(s))
      /\ ResetConverter(s).context.converter.state = "COMPOSITION"
      /\ ResetConverter(s).context.converter.failed = s.context.converter.failed
      /\ ResetConverter(s).context.state = s.context.state
      /\ ResetConverter(s).context.length = s.context.length
      /\ ResetConverter(s).context.source_text = s.context.source_text
  BY <1>1, ResetConverterSound
<1> QED
  BY <1>2 DEF Good, Agree, Off, Empty, SC!IsActive

\* Showing the output keeps what is going on.
LEMMA OutputGood ==
  ASSUME NEW s, Good(s), NEW t \in Output(s)
  PROVE  Good(t) /\ t.context.state = s.context.state
<1> DEFINE c == s.context.converter
           r == SC!ResetResult(c)
           d == IF SC!IsActive(r) THEN SC!UpdateCandidateList(r) ELSE r
           v == IF c.result > 0 THEN c.result ELSE s.output
           o == [ s EXCEPT !.output = v ]
<1>0. Sound(s) /\ s \in SessionRecord /\ s.output \in Int /\ c \in ConverterRecord
      /\ GoodConverter(c, s.context.length)
  BY SoundFields DEF Good
<1>1. v \in Int
  BY <1>0, ConverterFields
<1>2. t = [ s EXCEPT !.output = v, !.context.converter = d ]
  BY DEF Output, Converter
<1>3. r.state = c.state /\ r.failed = c.failed /\ GoodConverter(r, s.context.length)
  BY <1>0, ResetResultGood
<1>4. GoodConverter(d, s.context.length) /\ d.state = c.state
  BY <1>3, CheckedGood
<1>5. d.failed = "no" => c.failed = "no"
  BY <1>3, CheckedGood
<1> HIDE DEF v, d
<1>6. Sound(o) /\ o.context = s.context
  BY <1>0, <1>1, SetOutput
<1>7. t = [ o EXCEPT !.context.converter = d ]
  BY <1>0, <1>2 DEF SessionRecord
<1> HIDE DEF o
<1>8. /\ Sound(t) /\ t.context.converter = d /\ t.context.state = s.context.state
      /\ t.context.length = s.context.length
      /\ t.context.source_text = s.context.source_text
  BY <1>4, <1>6, <1>7, SetConverter
<1> QED
  BY <1>4, <1>5, <1>8 DEF Good, Agree, Off, Empty, SC!IsActive

\* Keeping a copy of the output.
LEMMA CopyOutputGood ==
  ASSUME NEW s, Good(s), NEW t \in CopyOutput(s)
  PROVE  Good(t) /\ t.context.state = s.context.state
<1> DEFINE v == s.output
           x == [ s.context EXCEPT !.output = v ]
<1>0. /\ Sound(s) /\ s \in SessionRecord /\ v \in Int /\ s.context \in Context
      /\ GoodConverter(s.context.converter, s.context.length)
  BY SoundFields DEF Good
<1>1. t = [ s EXCEPT !.context.output = v ]
  BY DEF CopyOutput
<1> HIDE DEF v
<1>2. x \in Context
  BY <1>0 DEF Context
<1>3. /\ x.converter = s.context.converter /\ x.state = s.context.state
      /\ x.length = s.context.length /\ x.source_text = s.context.source_text
  BY <1>0 DEF Context
<1>4. t = [ s EXCEPT !.context = x ]
  BY <1>0, <1>1 DEF SessionRecord
<1> HIDE DEF x
<1>5. Sound(t) /\ t.context = x
  BY <1>0, <1>2, <1>3, <1>4, SetContext
<1> QED
  BY <1>3, <1>5 DEF Good, Agree, Off, Empty

\* The states in which keys are typed into the composer.
Editing == {"PRECOMPOSITION", "COMPOSITION"}

\* Asking for a suggestion where keys are typed.
LEMMA AskForSuggestionGood ==
  ASSUME NEW s, Good(s), s.context.converter.failed = "no", s.context.state \in Editing,
         NEW t \in AskForSuggestion(s)
  PROVE  Good(t) /\ t.context.state = s.context.state
<1> DEFINE p == s.context.field = "PASSWORD"
<1>1. PICK c \in SC!Suggest(s.context.converter, s.context.length, p) :
        t = [ s EXCEPT !.context.converter = c ]
  BY DEF AskForSuggestion, WithConverter, Converter
<1>2. Sound(s) /\ s.context.length \in Nat /\ GoodConverter(s.context.converter, s.context.length)
  BY AnySession
<1> HIDE DEF p
<1>3. GoodConverter(c, s.context.length) /\ Calm(c)
  BY <1>1, <1>2, SuggestGood
<1>4. Sound(t) /\ t.context.converter = c /\ t.context.state = s.context.state
  BY <1>1, <1>2, <1>3, SetConverter
<1> QED
  BY <1>3, <1>4 DEF Good, Agree, Off, Calm, Editing

\* The suggestion that follows a commit.
LEMMA ZeroQuerySuggestGood ==
  ASSUME NEW s, Good(s), s.context.converter.failed = "no", s.context.state \in Editing,
         NEW t \in ZeroQuerySuggest(s)
  PROVE  Good(t) /\ t.context.state = s.context.state
BY AskForSuggestionGood DEF ZeroQuerySuggest

\* The suggestion that follows an edit of the preedit.
LEMMA SuggestAndOutputGood ==
  ASSUME NEW s, Good(s), s.context.converter.failed = "no", s.context.state \in Editing,
         NEW t \in SuggestAndOutput(s)
  PROVE  Good(t) /\ t.context.state = s.context.state
<1>1. CASE t = s
  BY <1>1
<1>2. CASE t # s
  <2>1. PICK u \in AskForSuggestion(s) :
          t \in IF Converter(u).failed # "no" THEN {u}
                ELSE IF Converter(u).state = "SUGGESTION" THEN Output(u) ELSE {u}
    BY <1>2 DEF SuggestAndOutput, Then
  <2>2. Good(u) /\ u.context.state = s.context.state
    BY AskForSuggestionGood
  <2> QED
    BY <2>1, <2>2, OutputGood
<1> QED
  BY <1>1, <1>2

\* OutputFromState leaves the session good and in its state.
LEMMA OutputFromStateGood ==
  ASSUME NEW s, Good(s), NEW t \in OutputFromState(s)
  PROVE  Good(t) /\ t.context.state = s.context.state
BY OutputGood DEF OutputFromState

\* In CONVERSION, any good converter that does not suggest may be shown.
LEMMA ShowGood ==
  ASSUME NEW s, Good(s), s.context.state = "CONVERSION", NEW C,
         \A c \in C : /\ GoodConverter(c, s.context.length)
                      /\ c.failed = "no" => c.state # "SUGGESTION",
         NEW t \in Show(s, C)
  PROVE  Good(t)
<1>1. \A u \in WithConverter(s, C) : Good(u)
  <2> SUFFICES ASSUME NEW u \in WithConverter(s, C) PROVE Good(u)
    OBVIOUS
  <2>1. PICK c \in C : u = [ s EXCEPT !.context.converter = c ]
    BY DEF WithConverter
  <2>2. Sound(s)
    BY DEF Good
  <2>3. Sound(u) /\ u.context.converter = c /\ u.context.state = s.context.state
    BY <2>1, <2>2, SetConverter
  <2> QED
    BY <2>1, <2>3 DEF Good, Agree, Off
<1>2. PICK u \in WithConverter(s, C) :
        t \in IF Converter(u).failed # "no" THEN {u} ELSE Output(u)
  BY DEF Show, Then
<1> QED
  BY <1>1, <1>2, OutputGood

\* The session follows the converter.  From DIRECT it must get to a conversion.
LEMMA EnterGood ==
  ASSUME NEW s, Sound(s), NEW C,
         \A c \in C : /\ GoodConverter(c, s.context.length)
                      /\ c.failed = "no" => c.state # "SUGGESTION"
                      /\ s.context.state = "DIRECT" =>
                           c.failed = "no" /\ c.state \in {"COMPOSITION", "CONVERSION"},
         s.context.state = "DIRECT" => Empty(s.context),
         NEW t \in Enter(s, C)
  PROVE  Good(t)
<1>1. PICK u \in WithConverter(s, C) :
        t \in IF Converter(u).failed # "no" THEN {u}
              ELSE IF Converter(u).state \in {"PREDICTION", "CONVERSION"}
                   THEN Then(SetSessionState(u, "CONVERSION"), Output)
                   ELSE {u}
  BY DEF Enter, Then
<1>2. PICK c \in C : u = [ s EXCEPT !.context.converter = c ]
  BY DEF WithConverter
<1>3. /\ Sound(u) /\ u.context.converter = c /\ u.context.state = s.context.state
      /\ u.context.length = s.context.length
      /\ u.context.source_text = s.context.source_text
  BY <1>2, SetConverter
<1>4. CASE c.failed # "no"
  <2>1. t = u
    BY <1>1, <1>3, <1>4 DEF Converter
  <2> QED
    BY <1>2, <1>3, <1>4, <2>1, FailedIsGood
<1>5. CASE c.failed = "no" /\ c.state \in {"PREDICTION", "CONVERSION"}
  <2>1. t \in Then(SetSessionState(u, "CONVERSION"), Output)
    BY <1>1, <1>3, <1>5 DEF Converter
  <2>2. PICK v \in SetSessionState(u, "CONVERSION") :
          t \in IF Converter(v).failed # "no" THEN {v} ELSE Output(v)
    BY <2>1 DEF Then
  <2>3. Good(v)
    BY <1>2, <1>3, EnterConversionGood
  <2> QED
    BY <2>2, <2>3, OutputGood
<1>6. CASE c.failed = "no" /\ c.state \notin {"PREDICTION", "CONVERSION"}
  <2>1. t = u
    BY <1>1, <1>3, <1>6 DEF Converter
  <2>2. c.state \in {"COMPOSITION", "SUGGESTION"}
    <3>1. c \in ConverterRecord
      BY <1>2 DEF GoodConverter
    <3> QED
      BY <1>6, <3>1, ConverterFields DEF SC!ConverterState
  <2> QED
    BY <1>2, <1>3, <1>6, <2>1, <2>2 DEF Good, Agree, Off, Empty, SC!IsActive
<1> QED
  BY <1>4, <1>5, <1>6

---------------------------------------------------------------------------
(***************************************************************************)
(* The commands: each takes a good session, whose assertions held so far,  *)
(* to good ones.  Giving up and turning on and off come first.             *)
(***************************************************************************)
LEMMA DoNothingGood ==
  ASSUME NEW s, Good(s), NEW t \in DoNothing(s)
  PROVE  Good(t) /\ t.context.state = s.context.state
<1>1. Good(ResetConverter(s)) /\ ResetConverter(s).context.state = s.context.state
  BY ResetConverterGood
<1>2. t = s \/ t \in Output(s) \/ t \in Output(ResetConverter(s))
  BY DEF DoNothing
<1> QED
  BY <1>1, <1>2, OutputGood

\* A key that the application gets back resets the converter.
LEMMA EchoBackGood ==
  ASSUME NEW s, Good(s), NEW t \in EchoBack(s) \cup EchoBackAndClearUndoContext(s)
  PROVE  Good(t) /\ t.context.state = s.context.state
<1> DEFINE u == ClearUndoContext(s)
<1>1. Good(u) /\ u.context = s.context
  BY ClearUndoGood
<1>2. t = ResetConverter(s) \/ t = ResetConverter(u)
  BY DEF EchoBack, EchoBackAndClearUndoContext
<1> HIDE DEF u
<1> QED
  BY <1>1, <1>2, ResetConverterGood

\* A commit ends in PRECOMPOSITION with the committed context on the stack.
LEMMA CommitInternalGood ==
  ASSUME NEW s, Good(s), s.context.converter.failed = "no", NEW zero_query \in BOOLEAN,
         NEW t \in CommitInternal(s, zero_query)
  PROVE  /\ Good(t)
         /\ s.context.state \in Composing /\ t.context.converter.failed = "no" =>
              t.context.state = "PRECOMPOSITION"
<1> DEFINE saved == PushUndoContext(s)
           c == s.context.converter
           C == IF s.context.state = "COMPOSITION"
                THEN {SC!CommitPreedit(c, s.context.length)} ELSE SC!Commit(c)
           A == WithConverter(saved, C)
           B == Then(A, Precompose)
           D == Then(B, LAMBDA x : IF zero_query THEN {x} \cup AskForSuggestion(x) ELSE {x})
           E == Then(D, Output)
<1>1. CASE s.context.state \notin Composing
  <2>1. t \in DoNothing(s)
    BY <1>1 DEF CommitInternal, State
  <2> QED
    BY <1>1, <2>1, DoNothingGood
<1>2. CASE s.context.state \in Composing
  <2>1. t \in Then(E, CopyOutput)
    BY <1>2 DEF CommitInternal, State, Converter
  <2>2. /\ Good(saved) /\ saved.context.converter = c
        /\ saved.context.state = s.context.state /\ saved.context.length = s.context.length
    BY PushUndoGood
  <2> HIDE DEF saved
  <2>3. s.context.length \in Nat /\ GoodConverter(c, s.context.length)
    BY AnySession
  <2>4. \A d \in C : Idle(d)
    BY <2>3, CommitPreeditGood, CommitAllGood
  <2> HIDE DEF C, c
  <2> DEFINE P(x) == /\ Good(x)
                     /\ x.context.converter.failed = "no" => x.context.state = "PRECOMPOSITION"
  <2>5. \A x \in A : Sound(x) /\ Calm(x.context.converter) /\ x.context.state # "DIRECT"
    <3> SUFFICES ASSUME NEW x \in A
                 PROVE  /\ Sound(x) /\ Calm(x.context.converter)
                        /\ x.context.state # "DIRECT"
      OBVIOUS
    <3>1. PICK d \in C : x = [ saved EXCEPT !.context.converter = d ]
      BY DEF WithConverter
    <3>2. GoodConverter(d, saved.context.length) /\ Calm(d)
      BY <2>4, IdleIsGood DEF Idle, Calm
    <3>3. Sound(saved)
      BY <2>2 DEF Good
    <3>4. Sound(x) /\ x.context.converter = d /\ x.context.state = saved.context.state
      BY <3>1, <3>2, <3>3, SetConverter
    <3> QED
      BY <1>2, <2>2, <3>2, <3>4 DEF Composing
  <2> HIDE DEF A
  <2>6. \A x \in B : P(x)
    <3> SUFFICES ASSUME NEW x \in B PROVE P(x)
      OBVIOUS
    <3>1. PICK y \in A : x \in IF Converter(y).failed # "no" THEN {y} ELSE Precompose(y)
      BY DEF Then
    <3> QED
      BY <2>5, <3>1, PrecomposeGood, FailedIsGood DEF Converter
  <2> HIDE DEF B
  <2>7. \A x \in D : P(x)
    <3> SUFFICES ASSUME NEW x \in D PROVE P(x)
      OBVIOUS
    <3>1. PICK y \in B : x \in IF Converter(y).failed # "no" THEN {y}
                               ELSE IF zero_query THEN {y} \cup AskForSuggestion(y) ELSE {y}
      BY DEF Then
    <3>2. P(y)
      BY <2>6
    <3>3. CASE x = y
      BY <3>2, <3>3
    <3>4. CASE Converter(y).failed = "no" /\ x \in AskForSuggestion(y)
      <4>1. y.context.state \in Editing /\ y.context.converter.failed = "no"
        BY <3>2, <3>4 DEF Converter, Editing
      <4> QED
        BY <3>2, <3>4, <4>1, AskForSuggestionGood
    <3> QED
      BY <3>1, <3>3, <3>4
  <2> HIDE DEF D
  <2>9. \A x \in E : P(x)
    <3> SUFFICES ASSUME NEW x \in E PROVE P(x)
      OBVIOUS
    <3>1. PICK y \in D : x \in IF Converter(y).failed # "no" THEN {y} ELSE Output(y)
      BY DEF Then
    <3> QED
      BY <2>7, <3>1, OutputGood DEF Converter
  <2> HIDE DEF E
  <2>10. PICK y \in E : t \in IF Converter(y).failed # "no" THEN {y} ELSE CopyOutput(y)
    BY <2>1 DEF Then
  <2>11. P(y)
    BY <2>9
  <2>12. CASE t = y
    BY <2>11, <2>12
  <2>13. CASE Converter(y).failed = "no" /\ t \in CopyOutput(y)
    BY <2>11, <2>13, CopyOutputGood DEF Converter
  <2> QED
    BY <2>10, <2>12, <2>13
<1> QED
  BY <1>1, <1>2

\* Commit ends the composition and enters PRECOMPOSITION.
LEMMA CommitGood ==
  ASSUME NEW s, Good(s), s.context.converter.failed = "no", NEW t \in Commit(s)
  PROVE  Good(t)
<1>1. t \in CommitInternal(s, ZeroQuery) /\ ZeroQuery \in BOOLEAN
  BY SessionAssumption DEF Commit
<1> QED
  BY <1>1, CommitInternalGood

\* Turning the session on.
LEMMA IMEOnGood ==
  ASSUME NEW s, Good(s), s.context.state = "DIRECT", NEW t \in IMEOn(s)
  PROVE  Good(t) /\ t.context.state = "PRECOMPOSITION"
<1> DEFINE u == ClearUndoContext(s)
<1>1. Good(u) /\ u.context = s.context
  BY ClearUndoGood
<1>2. t \in Precompose(u)
  BY DEF IMEOn
<1>3. Calm(u.context.converter)
  BY <1>1, GoodIsCalm
<1> HIDE DEF u
<1>4. Sound(u)
  BY <1>1 DEF Good
<1> QED
  BY <1>2, <1>3, <1>4, PrecomposeGood

\* Turning the session off, after what was composed is committed.
LEMMA IMEOffGood ==
  ASSUME NEW s, Good(s), s.context.converter.failed = "no", NEW t \in IMEOff(s)
  PROVE  Good(t)
<1> DEFINE u == ClearUndoContext(s)
<1>1. Good(u) /\ u.context.converter.failed = "no"
  BY ClearUndoGood
<1>2. PICK x \in Commit(u) : t \in IF Converter(x).failed # "no" THEN {x}
                                   ELSE SetSessionState(ResetConverter(x), "DIRECT")
  BY DEF IMEOff, Then
<1> HIDE DEF u
<1>3. Good(x)
  BY <1>1, CommitGood
<1>4. CASE t = x
  BY <1>3, <1>4
<1>5. CASE t \in SetSessionState(ResetConverter(x), "DIRECT")
  <2>1. Sound(x)
    BY <1>3 DEF Good
  <2>2. Sound(ResetConverter(x)) /\ ResetConverter(x).context.converter.state = "COMPOSITION"
    BY <2>1, ResetConverterSound
  <2> QED
    BY <1>5, <2>2, TurnOffGood
<1> QED
  BY <1>2, <1>4, <1>5

\* Turning the session on or off where it may be already.
LEMMA MakeSureGood ==
  ASSUME NEW s, Good(s), s.context.converter.failed = "no",
         NEW t \in MakeSureIMEOn(s) \cup MakeSureIMEOff(s)
  PROVE  Good(t)
BY IMEOnGood, IMEOffGood DEF MakeSureIMEOn, MakeSureIMEOff, State

\* Switching the input mode turns the session on first.
LEMMA InputModeGood ==
  ASSUME NEW s, Good(s), NEW t \in InputMode(s)
  PROVE  Good(t)
<1>1. PICK u \in EnsureIMEIsOn(s) :
        t \in IF Converter(u).failed # "no" THEN {u} ELSE OutputFromState(u)
  BY DEF InputMode, Then
<1>2. Good(u)
  <2>1. CASE s.context.state = "DIRECT"
    <3>1. u \in Precompose(s)
      BY <2>1 DEF EnsureIMEIsOn, Precompose, State
    <3>2. Sound(s) /\ Calm(s.context.converter)
      BY <2>1, GoodIsCalm DEF Good
    <3> QED
      BY <3>1, <3>2, PrecomposeGood
  <2>2. CASE s.context.state # "DIRECT"
    BY <2>2 DEF EnsureIMEIsOn, State
  <2> QED
    BY <2>1, <2>2
<1> QED
  BY <1>1, <1>2, OutputFromStateGood

\* Revert drops the composition.
LEMMA RevertGood ==
  ASSUME NEW s, Good(s), s.context.converter.failed = "no", NEW t \in Revert(s)
  PROVE  Good(t)
<1> DEFINE u == ClearUndoContext(s)
<1>0. s.context.state \in States
  BY AnySession
<1>1. Good(u) /\ Sound(u) /\ u.context = s.context
  BY ClearUndoGood DEF Good
<1>2. CASE s.context.state = "PRECOMPOSITION"
  <2>1. t \in EchoBackAndClearUndoContext(s)
    BY <1>2 DEF Revert, State
  <2> QED
    BY <2>1, EchoBackGood
<1>3. CASE s.context.state = "DIRECT"
  <2>1. t \in DoNothing(s)
    BY <1>3 DEF Revert, State
  <2> QED
    BY <2>1, DoNothingGood
<1>4. CASE s.context.state = "COMPOSITION"
  <2>1. t \in Precompose(u)
    BY <1>4 DEF Revert, State
  <2> HIDE DEF u
  <2>2. Calm(u.context.converter)
    BY <1>1, <1>4, GoodIsCalm
  <2> QED
    BY <1>1, <2>1, <2>2, PrecomposeGood
<1>5. CASE s.context.state = "CONVERSION"
  <2>1. t \in Then(WithConverter(u, SC!Cancel(u.context.converter)), Precompose)
    BY <1>5 DEF Revert, State, Converter
  <2>2. PICK x \in WithConverter(u, SC!Cancel(u.context.converter)) :
          t \in IF Converter(x).failed # "no" THEN {x} ELSE Precompose(x)
    BY <2>1 DEF Then
  <2> HIDE DEF u
  <2>3. PICK d \in SC!Cancel(u.context.converter) : x = [ u EXCEPT !.context.converter = d ]
    BY DEF WithConverter
  <2>4. GoodConverter(u.context.converter, u.context.length) /\ u.context.converter.failed = "no"
    BY <1>1, AnySession
  <2>5. Idle(d)
    BY <2>4, CancelGood
  <2>6. GoodConverter(d, u.context.length) /\ Calm(d)
    BY <2>5, IdleIsGood DEF Idle, Calm
  <2>7. Sound(x) /\ x.context.converter = d /\ x.context.state = u.context.state
    BY <1>1, <2>3, <2>6, SetConverter
  <2> QED
    BY <1>1, <1>5, <2>2, <2>6, <2>7, FailedIsGood, PrecomposeGood DEF Converter
<1> QED
  BY <1>0, <1>2, <1>3, <1>4, <1>5 DEF States

\* ResetContext drops the composition and the undo contexts.
LEMMA ResetContextGood ==
  ASSUME NEW s, Good(s), NEW t \in ResetContext(s)
  PROVE  Good(t)
<1> DEFINE u == ClearUndoContext(s)
           r == ResetConverter(u)
<1>1. CASE s.context.state = "PRECOMPOSITION"
  BY <1>1, EchoBackGood DEF ResetContext, State
<1>2. CASE s.context.state # "PRECOMPOSITION"
  <2>1. t \in Precompose(r)
    BY <1>2 DEF ResetContext, State
  <2>2. Sound(u)
    BY ClearUndoGood DEF Good
  <2> HIDE DEF u
  <2>3. Sound(r) /\ Calm(r.context.converter)
    BY <2>2, ResetConverterSound DEF Calm
  <2> HIDE DEF r
  <2> QED
    BY <2>1, <2>3, PrecomposeGood
<1> QED
  BY <1>1, <1>2

---------------------------------------------------------------------------
(***************************************************************************)
(* Text that is committed as it stands.                                    *)
(***************************************************************************)
LEMMA CommitStringDirectlyGood ==
  ASSUME NEW s, Good(s), s.context.converter.failed = "no", NEW size \in Nat,
         NEW t \in CommitStringDirectly(s, size)
  PROVE  t = s \/ (Good(t) /\ t.context.state = "PRECOMPOSITION")
<1>1. CASE size = 0
  BY <1>1 DEF CommitStringDirectly
<1>2. CASE size # 0
  <2> DEFINE r == ResetConverter(s)
             v == r.output + size
             o == [ r EXCEPT !.output = v ]
             A == Precompose(o)
             B == Then(A, ZeroQuerySuggest)
  <2>1. t \in Then(B, Output)
    BY <1>2 DEF CommitStringDirectly
  <2>2. Sound(s)
    BY DEF Good
  <2>3. Sound(r) /\ Calm(r.context.converter)
    BY <2>2, ResetConverterSound DEF Calm
  <2> HIDE DEF r
  <2>4. v \in Int
    <3>1. r.output \in Int
      BY <2>3, SoundFields
    <3> QED
      BY <3>1
  <2> HIDE DEF v
  <2>5. Sound(o) /\ Calm(o.context.converter)
    BY <2>3, <2>4, SetOutput
  <2> HIDE DEF o
  <2>6. \A x \in A : Good(x) /\ x.context.state = "PRECOMPOSITION"
    BY <2>5, PrecomposeGood
  <2> HIDE DEF A
  <2>7. \A x \in B : Good(x) /\ x.context.state = "PRECOMPOSITION"
    <3> SUFFICES ASSUME NEW x \in B
                 PROVE  Good(x) /\ x.context.state = "PRECOMPOSITION"
      OBVIOUS
    <3>1. PICK y \in A : x \in IF Converter(y).failed # "no" THEN {y} ELSE ZeroQuerySuggest(y)
      BY DEF Then
    <3> QED
      BY <2>6, <3>1, ZeroQuerySuggestGood DEF Converter, Editing
  <2> HIDE DEF B
  <2>8. PICK y \in B : t \in IF Converter(y).failed # "no" THEN {y} ELSE Output(y)
    BY <2>1 DEF Then
  <2> QED
    BY <2>7, <2>8, OutputGood
<1> QED
  BY <1>1, <1>2

\* Committing a text without converting it, or finding none to commit.
LEMMA CommitDirectlyGood ==
  ASSUME NEW s, Good(s), s.context.converter.failed = "no",
         NEW t \in CommitCompositionDirectly(s) \cup CommitSourceTextDirectly(s)
                     \cup CommitRawText(s) \cup EditCancelOnPasswordField(s)
  PROVE  t = s \/ (Good(t) /\ t.context.state = "PRECOMPOSITION")
<1>1. s.context.length \in Nat /\ s.context.source_text \in Nat
  BY AnySession
<1>2. \/ t \in CommitStringDirectly(s, s.context.length)
      \/ t \in CommitStringDirectly(s, s.context.source_text)
  BY DEF CommitCompositionDirectly, CommitSourceTextDirectly, CommitRawText,
         EditCancelOnPasswordField
<1> QED
  BY <1>1, <1>2, CommitStringDirectlyGood

\* EditCancel drops the composition, or commits the source text.
LEMMA EditCancelGood ==
  ASSUME NEW s, Good(s), s.context.converter.failed = "no", s.context.state # "CONVERSION",
         NEW t \in EditCancel(s)
  PROVE  Good(t)
<1>1. CASE s.context.field = "PASSWORD"
  <2>1. t \in EditCancelOnPasswordField(s)
    BY <1>1 DEF EditCancel
  <2> QED
    BY <2>1, CommitDirectlyGood
<1>2. CASE s.context.field # "PASSWORD"
  <2> DEFINE A == CommitSourceTextDirectly(s)
             B == Then(A, Precompose)
  <2>1. PICK y \in B : t \in IF Converter(y).failed # "no" THEN {y}
                             ELSE IF s.context.source_text > 0 THEN Output(y) ELSE {y}
    BY <1>2 DEF EditCancel, Then, TryCancelConvertReverse
  <2>2. PICK x \in A : y \in IF Converter(x).failed # "no" THEN {x} ELSE Precompose(x)
    BY DEF Then
  <2> HIDE DEF B
  <2>3. Good(x) /\ x.context.state # "CONVERSION"
    BY CommitDirectlyGood
  <2> HIDE DEF A
  <2>4. Sound(x) /\ Calm(x.context.converter)
    BY <2>3, GoodIsCalm DEF Good
  <2>5. Good(y)
    BY <2>2, <2>3, <2>4, PrecomposeGood
  <2> QED
    BY <2>1, <2>5, OutputGood
<1> QED
  BY <1>1, <1>2

\* EditCancelAndIMEOff drops the composition and turns the session off.
LEMMA EditCancelAndIMEOffGood ==
  ASSUME NEW s, Good(s), s.context.converter.failed = "no", NEW t \in EditCancelAndIMEOff(s)
  PROVE  Good(t)
<1>1. CASE s.context.field = "PASSWORD"
  <2>1. t \in EditCancelOnPasswordField(s)
    BY <1>1 DEF EditCancelAndIMEOff
  <2> QED
    BY <2>1, CommitDirectlyGood
<1>2. CASE s.context.field # "PASSWORD"
  <2> DEFINE A == CommitSourceTextDirectly(s)
             B == Then(A, LAMBDA x :
                            SetSessionState(ResetConverter(ClearUndoContext(x)), "DIRECT"))
  <2>1. PICK y \in B : t \in IF Converter(y).failed # "no" THEN {y} ELSE Output(y)
    BY <1>2 DEF EditCancelAndIMEOff, Then, TryCancelConvertReverse
  <2>2. PICK x \in A : y \in IF Converter(x).failed # "no" THEN {x}
                             ELSE SetSessionState(ResetConverter(ClearUndoContext(x)), "DIRECT")
    BY DEF Then
  <2> HIDE DEF B
  <2>3. Good(x)
    BY CommitDirectlyGood
  <2> HIDE DEF A
  <2> DEFINE u == ClearUndoContext(x)
             r == ResetConverter(u)
  <2>4. Sound(u)
    BY <2>3, ClearUndoGood DEF Good
  <2> HIDE DEF u
  <2>5. Sound(r) /\ r.context.converter.state = "COMPOSITION"
    BY <2>4, ResetConverterSound
  <2>6. y = x \/ y \in SetSessionState(r, "DIRECT")
    BY <2>2 DEF u
  <2> HIDE DEF r
  <2>7. Good(y)
    BY <2>3, <2>5, <2>6, TurnOffGood
  <2> QED
    BY <2>1, <2>7, OutputGood
<1> QED
  BY <1>1, <1>2

---------------------------------------------------------------------------
(***************************************************************************)
(* Typing.                                                                 *)
(***************************************************************************)

\* A preedit of any length, where keys are typed.
LEMMA WithLengthGood ==
  ASSUME NEW s, Good(s), s.context.state \in Editing, NEW N \in SUBSET Nat,
         NEW t \in WithLength(s, N)
  PROVE  /\ Good(t) /\ t.context.state = s.context.state
         /\ t.context.converter = s.context.converter /\ t.context.length \in N
<1>1. PICK n \in N : t = [ s EXCEPT !.context.length = n ]
  BY DEF WithLength
<1>2. Sound(s) /\ n \in Nat /\ GoodConverter(s.context.converter, n)
  BY GoodIsCalm DEF Good, Editing
<1>3. /\ Sound(t) /\ t.context.length = n /\ t.context.state = s.context.state
      /\ t.context.converter = s.context.converter
  BY <1>1, <1>2, SetLength
<1> QED
  BY <1>3 DEF Good, Agree, Off, Editing

\* A key leaves a preedit with a length.
LEMMA InsertedLengthsType ==
  ASSUME NEW n \in Nat
  PROVE  InsertedLengths(n) \in SUBSET Nat
BY SessionAssumption DEF InsertedLengths

\* The head to commit is no longer than the preedit.
LEMMA LengthToCommitType ==
  ASSUME NEW s, Good(s)
  PROVE  LengthToCommit(s) \in Nat /\ s.context.length - LengthToCommit(s) \in Nat
<1>1. s.context.length \in Nat /\ s.context.field \in Fields
  BY AnySession
<1>2. Max({0, s.context.length - 1}) =
        IF s.context.length - 1 > 0 THEN s.context.length - 1 ELSE 0
  <2>1. s.context.length - 1 \in Int
    BY <1>1
  <2> QED
    BY <2>1, MaxOfZero
<1>3. CASE s.context.field = "NORMAL"
  BY <1>1, <1>3 DEF LengthToCommit
<1>4. CASE s.context.field = "PASSWORD"
  <2>1. LengthToCommit(s) = Max({0, s.context.length - 1})
    BY <1>4 DEF LengthToCommit
  <2> QED
    BY <1>1, <1>2, <2>1
<1>5. CASE s.context.field = "TEL"
  BY <1>1, <1>5 DEF LengthToCommit
<1> QED
  BY <1>1, <1>3, <1>4, <1>5 DEF Fields

\* Committing the head of the preedit leaves the rest of it.
LEMMA CommitHeadSessionGood ==
  ASSUME NEW s, Good(s), s.context.state \in Editing, NEW count \in Nat,
         s.context.length - count \in Nat, NEW t \in CommitHead(s, count)
  PROVE  Good(t)
<1> DEFINE u == ClearUndoContext(s)
           c == SC!CommitHead(u.context.converter, count)
           n == u.context.length - count
           x == [ u EXCEPT !.context.converter = c, !.context.length = n ]
<1>1. Good(u) /\ Sound(u) /\ u.context = s.context /\ n \in Nat
  BY ClearUndoGood DEF Good
<1>2. t \in Output(x)
  <2>1. u \in SessionRecord /\ u.context \in Context
    BY <1>1, SoundFields
  <2> HIDE DEF u
  <2>2. [ u EXCEPT !.context.converter = SC!CommitHead(@, count), !.context.length = @ - count ]
          = x
    BY <2>1
  <2>3. t \in Output([ u EXCEPT !.context.converter = SC!CommitHead(@, count),
                                !.context.length = @ - count ])
    BY DEF CommitHead, u
  <2> QED
    BY <2>2, <2>3
<1> HIDE DEF u
<1>3. Calm(u.context.converter) /\ GoodConverter(u.context.converter, n)
  BY <1>1, GoodIsCalm DEF Editing
<1>4. GoodConverter(c, n) /\ c.state = u.context.converter.state
       /\ c.failed = u.context.converter.failed
  BY <1>3, CommitHeadGood
<1> HIDE DEF c, n
<1>5. /\ Sound(x) /\ x.context.length = n /\ x.context.converter = c
      /\ x.context.state = u.context.state
  <2> DEFINE y == [ u EXCEPT !.context = [ u.context EXCEPT !.converter = c, !.length = n ] ]
  <2>1. Sound(u) /\ n \in Nat /\ GoodConverter(c, n)
    BY <1>1, <1>4
  <2>2. /\ Sound(y) /\ y.context.length = n /\ y.context.converter = c
        /\ y.context.state = u.context.state /\ y = x
    BY <2>1, SetConverterLength
  <2> QED
    BY <2>2
<1> HIDE DEF x
<1>6. Good(x)
  BY <1>1, <1>3, <1>4, <1>5 DEF Good, Agree, Off, Calm, Editing
<1> QED
  BY <1>2, <1>6, OutputGood

\* A conversion that starts, or that the converter refuses.
LEMMA StartConversionGood ==
  ASSUME NEW s, Sound(s), s.context.converter.failed = "no",
         s.context.state = "DIRECT" =>
           Empty(s.context) /\ s.context.converter.state # "PREDICTION",
         NEW t \in StartConversion(s)
  PROVE  Good(t)
<1> DEFINE C == SC!Convert(s.context.converter, s.context.length)
<1>1. t \in Enter(s, C)
  BY DEF StartConversion, Converter
<1>2. s.context.length \in Nat /\ GoodConverter(s.context.converter, s.context.length)
  BY SoundFields
<1>3. \A c \in C : /\ GoodConverter(c, s.context.length)
                   /\ c.failed = "no" => c.state # "SUGGESTION"
                   /\ s.context.state = "DIRECT" =>
                        c.failed = "no" /\ c.state \in {"COMPOSITION", "CONVERSION"}
  BY <1>2, ConvertGood
<1> HIDE DEF C
<1> QED
  BY <1>1, <1>3, EnterGood

\* A key whose character is committed at once.
LEMMA InsertDirectlyGood ==
  ASSUME NEW s, Good(s), s.context.converter.failed = "no", s.context.state \in Editing,
         NEW t \in InsertDirectly(s)
  PROVE  Good(t)
<1> DEFINE N == InsertedLengths(s.context.length)
<1>1. PICK u \in WithLength(s, N) :
        t \in IF Converter(u).failed # "no" THEN {u} ELSE CommitCompositionDirectly(u)
  BY DEF InsertDirectly, Then
<1>2. N \in SUBSET Nat
  BY AnySession, InsertedLengthsType
<1> HIDE DEF N
<1>3. Good(u)
  BY <1>2, WithLengthGood
<1> QED
  BY <1>1, <1>3, CommitDirectlyGood DEF Converter

\* A key whose character is composed, and what follows it.
LEMMA ComposeGood ==
  ASSUME NEW s, Good(s), s.context.converter.failed = "no", s.context.state \in Editing,
         NEW t \in Compose(s)
  PROVE  Good(t)
<1> DEFINE S == SetSessionState(s, "COMPOSITION")
<1>0. Sound(s) /\ Calm(s.context.converter)
  BY GoodIsCalm DEF Good, Editing
<1>1. \A x \in S : /\ Good(x) /\ x.context.state = "COMPOSITION"
                   /\ x.context.converter.failed = "no"
  BY <1>0, EnterCompositionGood
<1>2. \/ t = s
      \/ t \in CommitCompositionDirectly(s)
      \/ t \in CommitHead(s, LengthToCommit(s))
      \/ t \in Then(S, SuggestAndOutput)
      \/ t \in Then(S, StartConversion)
  BY DEF Compose
<1>3. CASE t = s
  BY <1>3
<1>4. CASE t \in CommitCompositionDirectly(s)
  BY <1>4, CommitDirectlyGood
<1>5. CASE t \in CommitHead(s, LengthToCommit(s))
  BY <1>5, LengthToCommitType, CommitHeadSessionGood
<1> HIDE DEF S
<1>6. CASE t \in Then(S, SuggestAndOutput)
  <2>1. PICK x \in S : t \in IF Converter(x).failed # "no" THEN {x} ELSE SuggestAndOutput(x)
    BY <1>6 DEF Then
  <2> QED
    BY <1>1, <2>1, SuggestAndOutputGood DEF Editing
<1>7. CASE t \in Then(S, StartConversion)
  <2>1. PICK x \in S : t \in IF Converter(x).failed # "no" THEN {x} ELSE StartConversion(x)
    BY <1>7 DEF Then
  <2> QED
    BY <1>1, <2>1, StartConversionGood DEF Good
<1> QED
  BY <1>2, <1>3, <1>4, <1>5, <1>6, <1>7

\* A key that goes to the composer, and one that goes through it.
LEMMA TypeGood ==
  ASSUME NEW s, Good(s), s.context.converter.failed = "no", s.context.state \in Editing,
         NEW t \in Then(WithLength(ClearUndoContext(s), InsertedLengths(s.context.length)),
                        Compose)
                     \cup InsertDirectly(ClearUndoContext(s))
  PROVE  Good(t)
<1> DEFINE u == ClearUndoContext(s)
           N == InsertedLengths(s.context.length)
           W == WithLength(u, N)
<1>1. Good(u) /\ u.context = s.context
  BY ClearUndoGood
<1>2. t \in Then(W, Compose) \/ t \in InsertDirectly(u)
  OBVIOUS
<1>3. N \in SUBSET Nat
  BY AnySession, InsertedLengthsType
<1> HIDE DEF u, N
<1>4. CASE t \in InsertDirectly(u)
  BY <1>1, <1>4, InsertDirectlyGood
<1>5. CASE t \in Then(W, Compose)
  <2>1. PICK x \in W : t \in IF Converter(x).failed # "no" THEN {x} ELSE Compose(x)
    BY <1>5 DEF Then
  <2>2. Good(x) /\ x.context.state \in Editing /\ x.context.converter.failed = "no"
    BY <1>1, <1>3, WithLengthGood
  <2> QED
    BY <2>1, <2>2, ComposeGood
<1> QED
  BY <1>2, <1>4, <1>5

\* What is typed after a commit goes into a session that edits.
LEMMA TypeAfterCommitGood ==
  ASSUME NEW s, Good(s), s.context.converter.failed = "no", s.context.state \in Composing,
         NEW u \in CommitInternal(s, FALSE),
         NEW t \in IF Converter(u).failed # "no" THEN {u}
                   ELSE Then(WithLength(ClearUndoContext(u), InsertedLengths(u.context.length)),
                             Compose)
                          \cup InsertDirectly(ClearUndoContext(u))
  PROVE  Good(t)
<1>1. FALSE \in BOOLEAN
  OBVIOUS
<1>2. Good(u) /\ (u.context.converter.failed = "no" => u.context.state = "PRECOMPOSITION")
  BY <1>1, CommitInternalGood
<1>3. CASE Converter(u).failed # "no"
  BY <1>2, <1>3
<1>4. CASE Converter(u).failed = "no"
  <2>1. u.context.converter.failed = "no" /\ u.context.state \in Editing
    BY <1>2, <1>4 DEF Converter, Editing
  <2>2. t \in Then(WithLength(ClearUndoContext(u), InsertedLengths(u.context.length)), Compose)
                \cup InsertDirectly(ClearUndoContext(u))
    BY <1>4
  <2> QED
    BY <1>2, <2>1, <2>2, TypeGood
<1> QED
  BY <1>3, <1>4

\* In CONVERSION the candidates may be moved.
LEMMA ConvertNextGood ==
  ASSUME NEW s, Good(s), s.context.converter.failed = "no", s.context.state = "CONVERSION",
         NEW t \in Show(s, SC!CandidateMove(s.context.converter))
  PROVE  Good(t)
<1> DEFINE C == SC!CandidateMove(s.context.converter)
<1>1. GoodConverter(s.context.converter, s.context.length)
  BY AnySession
<1>2. \A c \in C : /\ GoodConverter(c, s.context.length)
                   /\ c.failed = "no" => c.state # "SUGGESTION"
  BY <1>1, CandidateMoveGood
<1>3. t \in Show(s, C)
  OBVIOUS
<1> HIDE DEF C
<1> QED
  BY <1>2, <1>3, ShowGood

\* InsertCharacter, with everything it may do before and after.
LEMMA InsertCharacterGood ==
  ASSUME NEW s, Good(s), s.context.converter.failed = "no", s.context.state # "DIRECT",
         NEW t \in InsertCharacter(s)
  PROVE  Good(t)
<1> DEFINE committed == CommitInternal(s, FALSE)
           type(x) == Then(WithLength(ClearUndoContext(x), InsertedLengths(x.context.length)),
                           Compose)
           typeDirectly(x) == InsertDirectly(ClearUndoContext(x))
<1>0. s.context.state \in States
  BY AnySession
<1>1. CASE s.context.state = "PRECOMPOSITION"
  <2>1. t \in EchoBackAndClearUndoContext(s) \cup { ClearUndoContext(x) : x \in InsertDirectly(s) }
                \cup type(s)
    BY <1>1 DEF InsertCharacter, State
  <2>2. CASE t \in EchoBackAndClearUndoContext(s)
    BY <2>2, EchoBackGood
  <2>3. CASE t \in { ClearUndoContext(x) : x \in InsertDirectly(s) }
    BY <1>1, <2>3, InsertDirectlyGood, ClearUndoGood DEF Editing
  <2>4. CASE t \in type(s)
    BY <1>1, <2>4, TypeGood DEF Editing
  <2> QED
    BY <2>1, <2>2, <2>3, <2>4
<1>2. ASSUME s.context.state \in Composing,
             t \in Then(committed, type) \cup Then(committed, typeDirectly)
      PROVE  Good(t)
  <2>1. CASE t \in Then(committed, type)
    <3>1. PICK u \in committed : t \in IF Converter(u).failed # "no" THEN {u} ELSE type(u)
      BY <2>1 DEF Then
    <3> QED
      BY <1>2, <3>1, TypeAfterCommitGood
  <2>2. CASE t \in Then(committed, typeDirectly)
    <3>1. PICK u \in committed :
            t \in IF Converter(u).failed # "no" THEN {u} ELSE typeDirectly(u)
      BY <2>2 DEF Then
    <3> QED
      BY <1>2, <3>1, TypeAfterCommitGood
  <2> QED
    BY <1>2, <2>1, <2>2
<1>3. CASE s.context.state = "COMPOSITION"
  <2>1. t \in type(s) \/ t \in Then(committed, type) \cup Then(committed, typeDirectly)
    BY <1>3 DEF InsertCharacter, State
  <2>2. CASE t \in type(s)
    BY <1>3, <2>2, TypeGood DEF Editing
  <2> QED
    BY <1>2, <1>3, <2>1, <2>2 DEF Composing
<1>4. CASE s.context.state = "CONVERSION"
  <2>1. \/ t \in Show(s, SC!CandidateMove(s.context.converter))
        \/ t \in Then(committed, type) \cup Then(committed, typeDirectly)
    BY <1>4 DEF InsertCharacter, State, Converter
  <2>2. CASE t \in Show(s, SC!CandidateMove(s.context.converter))
    BY <1>4, <2>2, ConvertNextGood
  <2> QED
    BY <1>2, <1>4, <2>1, <2>2 DEF Composing
<1> QED
  BY <1>0, <1>1, <1>3, <1>4 DEF States

\* A space is committed, composed or given back.
LEMMA InsertSpaceGood ==
  ASSUME NEW s, Good(s), s.context.converter.failed = "no", s.context.state # "DIRECT",
         NEW t \in InsertSpace(s)
  PROVE  Good(t)
<1> DEFINE r == ResetConverter(s)
<1>1. Good(r) /\ r.context.converter.failed = "no" /\ r.context.state = s.context.state
  BY ResetConverterGood
<1>2. t \in InsertCharacter(s) \/ t \in InsertCharacter(r)
  BY DEF InsertSpace
<1> HIDE DEF r
<1> QED
  BY <1>1, <1>2, InsertCharacterGood

\* The preedit one character shorter or longer.
LEMMA NeighbourLengths ==
  ASSUME NEW n \in Nat
  PROVE  Max({0, n - 1}) \in Nat /\ Min({n + 1, MaxLength}) \in Nat
<1>1. n - 1 \in Int /\ n + 1 \in Int /\ MaxLength \in Nat
  BY SessionAssumption
<1>2. Max({0, n - 1}) = IF n - 1 > 0 THEN n - 1 ELSE 0
  BY <1>1, MaxOfZero
<1>3. Min({n + 1, MaxLength}) = IF n + 1 <= MaxLength THEN n + 1 ELSE MaxLength
  BY <1>1, MinOfTwo
<1> QED
  BY <1>1, <1>2, <1>3

\* Convert enters CONVERSION, or leaves the session where it was.
LEMMA ConvertKeyGood ==
  ASSUME NEW s, Good(s), s.context.converter.failed = "no", s.context.state = "COMPOSITION",
         NEW t \in Convert(s)
  PROVE  Good(t)
<1> DEFINE n == s.context.length
           more == Min({n + 1, MaxLength})
           less == Max({0, n - 1})
           u == ClearUndoContext(s)
           I == WithLength(s, {more})
           H == WithLength(u, {less})
<1>0. n \in Nat /\ Sound(s)
  BY AnySession
<1>1. more \in Nat /\ less \in Nat
  BY <1>0, NeighbourLengths
<1>2. Good(u) /\ u.context = s.context
  BY ClearUndoGood
<1>3. t \in StartConversion(s) \cup Then(I, Commit) \cup InsertCharacter(s)
              \cup Then(H, StartConversion)
  BY DEF Convert
<1> HIDE DEF n, more, less, u
<1>4. CASE t \in StartConversion(s)
  BY <1>0, <1>4, StartConversionGood
<1>5. CASE t \in InsertCharacter(s)
  BY <1>5, InsertCharacterGood
<1>6. CASE t \in Then(I, Commit)
  <2>1. PICK x \in I : t \in IF Converter(x).failed # "no" THEN {x} ELSE Commit(x)
    BY <1>6 DEF Then
  <2>2. {more} \in SUBSET Nat
    BY <1>1
  <2>3. Good(x) /\ x.context.converter.failed = "no"
    BY <2>2, WithLengthGood DEF Editing
  <2> QED
    BY <2>1, <2>3, CommitGood
<1>7. CASE t \in Then(H, StartConversion)
  <2>1. PICK x \in H : t \in IF Converter(x).failed # "no" THEN {x} ELSE StartConversion(x)
    BY <1>7 DEF Then
  <2>2. {less} \in SUBSET Nat
    BY <1>1
  <2>3. Good(x) /\ x.context.converter.failed = "no" /\ x.context.state = "COMPOSITION"
    BY <1>2, <2>2, WithLengthGood DEF Editing
  <2> QED
    BY <2>1, <2>3, StartConversionGood DEF Good
<1> QED
  BY <1>3, <1>4, <1>5, <1>6, <1>7

\* Deleting a character, and leaving COMPOSITION with the last one.
LEMMA DeleteGood ==
  ASSUME NEW s, Good(s), s.context.converter.failed = "no", s.context.state = "COMPOSITION",
         NEW t \in Delete(s)
  PROVE  Good(t)
<1> DEFINE n == s.context.length
           less == Max({0, n - 1})
           u == ClearUndoContext(s)
           N == {n, less}
<1>0. n \in Nat
  BY AnySession
<1>1. less \in Nat
  BY <1>0, NeighbourLengths
<1>2. Good(u) /\ u.context = s.context
  BY ClearUndoGood
<1>3. PICK x \in WithLength(u, N) :
        t \in IF Converter(x).failed # "no" THEN {x}
              ELSE IF x.context.length = 0 THEN Precompose(x) ELSE SuggestAndOutput(x)
  BY DEF Delete, Then
<1> HIDE DEF n, less, u
<1>4. N \in SUBSET Nat
  BY <1>0, <1>1
<1> HIDE DEF N
<1>5. Good(x) /\ x.context.converter.failed = "no" /\ x.context.state = "COMPOSITION"
  BY <1>2, <1>4, WithLengthGood DEF Editing
<1>6. Sound(x) /\ Calm(x.context.converter)
  BY <1>5, GoodIsCalm DEF Good
<1> QED
  BY <1>3, <1>5, <1>6, PrecomposeGood, SuggestAndOutputGood DEF Editing

\* Moving the cursor may commit the preedit, and then suggests.
LEMMA MoveCursorInternalGood ==
  ASSUME NEW s, Good(s), s.context.converter.failed = "no", s.context.state \in Editing,
         NEW clear_undo, NEW t \in MoveCursorInternal(s, clear_undo)
  PROVE  Good(t)
<1> DEFINE u == ClearUndoContext(s)
<1>1. Good(u) /\ u.context = s.context
  BY ClearUndoGood
<1>2. t \in CommitCompositionDirectly(s) \/ t \in SuggestAndOutput(s) \/ t \in SuggestAndOutput(u)
  BY DEF MoveCursorInternal
<1> HIDE DEF u
<1>3. CASE t \in CommitCompositionDirectly(s)
  BY <1>3, CommitDirectlyGood
<1> QED
  BY <1>1, <1>2, <1>3, SuggestAndOutputGood

\* Moving the cursor by a key.
LEMMA MoveCursorGood ==
  ASSUME NEW s, Good(s), s.context.converter.failed = "no", s.context.state \in Editing,
         NEW t \in MoveCursor(s)
  PROVE  Good(t)
BY MoveCursorInternalGood DEF MoveCursor

\* Moving the cursor across the edge of the preedit.
LEMMA MoveCursorAcrossEdgeGood ==
  ASSUME NEW s, Good(s), s.context.converter.failed = "no", NEW t \in MoveCursorAcrossEdge(s)
  PROVE  Good(t)
<1>1. FALSE \in BOOLEAN
  OBVIOUS
<1> QED
  BY <1>1, CommitGood, CommitInternalGood DEF MoveCursorAcrossEdge

\* Moving the cursor by a session command.
LEMMA MoveCursorToGood ==
  ASSUME NEW s, Good(s), s.context.converter.failed = "no", NEW t \in MoveCursorTo(s)
  PROVE  Good(t)
<1>1. \/ t \in EchoBack(s) \/ t \in DoNothing(s)
      \/ t \in MoveCursor(s) /\ s.context.state = "COMPOSITION"
  BY DEF MoveCursorTo, State
<1> QED
  BY <1>1, EchoBackGood, DoNothingGood, MoveCursorGood DEF Editing

\* A command for the composer, followed by a suggestion.
LEMMA SendComposerCommandGood ==
  ASSUME NEW s, Good(s), s.context.converter.failed = "no", s.context.state \in Editing,
         NEW t \in SendComposerCommand(s)
  PROVE  Good(t)
<1> DEFINE u == ClearUndoContext(s)
<1>1. Good(u) /\ u.context = s.context
  BY ClearUndoGood
<1>2. t \in SuggestAndOutput(u)
  BY DEF SendComposerCommand
<1> HIDE DEF u
<1> QED
  BY <1>1, <1>2, SuggestAndOutputGood

\* StopKeyToggling is a command for the composer.
LEMMA StopKeyTogglingGood ==
  ASSUME NEW s, Good(s), s.context.converter.failed = "no", NEW t \in StopKeyToggling(s)
  PROVE  Good(t)
BY SendComposerCommandGood, DoNothingGood DEF StopKeyToggling, State, Editing

\* A composition that is replaced by the client.
LEMMA UpdateCompositionGood ==
  ASSUME NEW s, Good(s), s.context.converter.failed = "no", NEW t \in UpdateComposition(s)
  PROVE  Good(t)
<1> DEFINE r == ResetComposer(s)
           u == ClearUndoContext(r)
           N == 0..MaxLength
           W == WithLength(u, N)
           C == Then(W, LAMBDA x : SetSessionState(x, "COMPOSITION"))
<1>0. s.context.state \in States /\ Sound(s)
  BY AnySession
<1>1. CASE s.context.state = "DIRECT"
  <2>1. t \in EchoBackAndClearUndoContext(s)
    BY <1>1 DEF UpdateComposition, State
  <2> QED
    BY <2>1, EchoBackGood
<1>2. CASE s.context.state = "CONVERSION"
  <2>1. t = s
    BY <1>2 DEF UpdateComposition, State
  <2> QED
    BY <2>1
<1>3. CASE s.context.state \in Editing
  <2>1. t \in Then(C, SuggestAndOutput)
    BY <1>3 DEF UpdateComposition, State, Editing
  <2>2. Calm(s.context.converter)
    BY <1>3, GoodIsCalm DEF Editing
  <2>3. /\ Sound(r) /\ r.context.state = s.context.state
        /\ r.context.converter = s.context.converter
    BY <1>0, <2>2, ResetComposerSound DEF Calm
  <2>4. Good(r)
    BY <1>3, <2>2, <2>3 DEF Good, Agree, Off, Calm, Editing
  <2> HIDE DEF r
  <2>5. Good(u) /\ u.context = r.context
    BY <2>4, ClearUndoGood
  <2> HIDE DEF u
  <2>6. N \in SUBSET Nat
    BY SessionAssumption
  <2> HIDE DEF N
  <2>7. \A x \in W : Good(x) /\ x.context.state \in Editing
    BY <1>3, <2>3, <2>5, <2>6, WithLengthGood
  <2> HIDE DEF W
  <2>8. \A y \in C : Good(y) /\ y.context.state \in Editing
    <3> SUFFICES ASSUME NEW y \in C PROVE Good(y) /\ y.context.state \in Editing
      OBVIOUS
    <3>1. PICK x \in W : y \in IF Converter(x).failed # "no" THEN {x}
                               ELSE SetSessionState(x, "COMPOSITION")
      BY DEF Then
    <3>2. Good(x) /\ Sound(x) /\ x.context.state \in Editing
      BY <2>7 DEF Good
    <3>3. Calm(x.context.converter)
      BY <3>2, GoodIsCalm DEF Editing
    <3> QED
      BY <3>1, <3>2, <3>3, EnterCompositionGood DEF Editing
  <2> HIDE DEF C
  <2>9. PICK y \in C : t \in IF Converter(y).failed # "no" THEN {y} ELSE SuggestAndOutput(y)
    BY <2>1 DEF Then
  <2> QED
    BY <2>8, <2>9, SuggestAndOutputGood DEF Converter
<1> QED
  BY <1>0, <1>1, <1>2, <1>3 DEF States, Editing

---------------------------------------------------------------------------
(***************************************************************************)
(* Prediction, conversion and the commit of parts of them.                 *)
(***************************************************************************)
LEMMA TransliterateGood ==
  ASSUME NEW s, Good(s), s.context.converter.failed = "no",
         NEW t \in ConvertToTransliteration(s) \cup SwitchKanaType(s) \cup DisplayAs(s)
  PROVE  Good(t)
<1> DEFINE C == SC!ConvertToTransliteration(s.context.converter, s.context.length)
           D == SC!SwitchKanaType(s.context.converter, s.context.length)
<1>1. /\ Sound(s) /\ s.context.length \in Nat
      /\ GoodConverter(s.context.converter, s.context.length)
  BY AnySession
<1>2. \/ t \in Enter(s, C) /\ s.context.state \in Composing
      \/ t \in Enter(s, D) /\ s.context.state \in Composing
      \/ t \in DoNothing(s)
      \/ t = s
  BY DEF ConvertToTransliteration, SwitchKanaType, DisplayAs, State, Converter
<1>3. \A c \in C : GoodConverter(c, s.context.length) /\ (c.failed = "no" => c.state # "SUGGESTION")
  BY <1>1, ConvertToTransliterationGood
<1>4. \A c \in D : GoodConverter(c, s.context.length) /\ (c.failed = "no" => c.state # "SUGGESTION")
  BY <1>1, SwitchKanaTypeGood
<1> HIDE DEF C, D
<1>5. CASE t \in Enter(s, C) /\ s.context.state \in Composing
  BY <1>1, <1>3, <1>5, EnterGood DEF Composing
<1>6. CASE t \in Enter(s, D) /\ s.context.state \in Composing
  BY <1>1, <1>4, <1>6, EnterGood DEF Composing
<1> QED
  BY <1>2, <1>5, <1>6, DoNothingGood

\* Paging through the candidates.
LEMMA ConvertPageGood ==
  ASSUME NEW s, Good(s), s.context.converter.failed = "no", NEW t \in ConvertPage(s)
  PROVE  Good(t)
BY ConvertNextGood, DoNothingGood DEF ConvertPage, ConvertNext, State, Converter

\* A prediction that starts or goes on.
LEMMA PredictAndConvertGood ==
  ASSUME NEW s, Good(s), s.context.converter.failed = "no", s.context.state # "DIRECT",
         NEW t \in PredictAndConvert(s)
  PROVE  Good(t)
<1> DEFINE C == SC!Predict(s.context.converter, s.context.length)
<1>1. /\ Sound(s) /\ s.context.length \in Nat
      /\ GoodConverter(s.context.converter, s.context.length)
  BY AnySession
<1>2. CASE s.context.state = "CONVERSION"
  BY <1>2, ConvertNextGood DEF PredictAndConvert, ConvertNext, State, Converter
<1>3. CASE s.context.state # "CONVERSION"
  <2>1. t \in Enter(s, C)
    BY <1>3 DEF PredictAndConvert, State, Converter
  <2>2. \A c \in C : /\ GoodConverter(c, s.context.length)
                     /\ c.failed = "no" => c.state # "SUGGESTION"
    BY <1>1, PredictGood
  <2> HIDE DEF C
  <2> QED
    BY <1>1, <2>1, <2>2, EnterGood
<1> QED
  BY <1>2, <1>3

\* Cancelling the conversion returns to COMPOSITION.
LEMMA ConvertCancelGood ==
  ASSUME NEW s, Good(s), s.context.converter.failed = "no", s.context.state # "DIRECT",
         NEW t \in ConvertCancel(s)
  PROVE  Good(t)
<1> DEFINE A == SetSessionState(s, "COMPOSITION")
           B == Then(A, LAMBDA x : WithConverter(x, SC!Cancel(Converter(x))))
<1>1. PICK y \in B : t \in IF Converter(y).failed # "no" THEN {y} ELSE SuggestAndOutput(y)
  BY DEF ConvertCancel, Then
<1>2. PICK x \in A : y \in IF Converter(x).failed # "no" THEN {x}
                           ELSE WithConverter(x, SC!Cancel(Converter(x)))
  BY DEF Then
<1> HIDE DEF B
<1>3. Sound(s) /\ (s.context.state = "PRECOMPOSITION" => Calm(s.context.converter))
  BY GoodIsCalm DEF Good
<1>4. Sound(x) /\ x.context.state = "COMPOSITION" /\ x.context.converter.failed = "no"
  BY <1>3, EnterCompositionSound
<1> HIDE DEF A
<1>5. PICK d \in SC!Cancel(x.context.converter) : y = [ x EXCEPT !.context.converter = d ]
  BY <1>2, <1>4 DEF Converter, WithConverter
<1>6. GoodConverter(x.context.converter, x.context.length)
  BY <1>4, SoundFields
<1>7. Idle(d)
  BY <1>4, <1>6, CancelGood
<1>8. GoodConverter(d, x.context.length) /\ Calm(d)
  BY <1>7, IdleIsGood DEF Idle, Calm
<1>9. Sound(y) /\ y.context.converter = d /\ y.context.state = "COMPOSITION"
  BY <1>4, <1>5, <1>8, SetConverter
<1>10. Good(y)
  BY <1>8, <1>9 DEF Good, Agree, Off, Calm
<1> QED
  BY <1>1, <1>9, <1>10, SuggestAndOutputGood DEF Converter, Editing

\* Deleting a candidate cancels the conversion or the suggestion it was in.
LEMMA DeleteCandidateFromHistoryGood ==
  ASSUME NEW s, Good(s), s.context.converter.failed = "no",
         NEW t \in DeleteCandidateFromHistory(s)
  PROVE  Good(t)
<1>1. CASE t \in DoNothing(s)
  BY <1>1, DoNothingGood
<1>2. CASE t \notin DoNothing(s)
  <2>1. SC!IsActive(s.context.converter) /\ t \in ConvertCancel(s)
    BY <1>2 DEF DeleteCandidateFromHistory, Converter
  <2>2. s.context.state # "DIRECT"
    BY <2>1 DEF Good, Off
  <2> QED
    BY <2>1, <2>2, ConvertCancelGood
<1> QED
  BY <1>1, <1>2

\* Moving the focus and resizing a segment keep the segments covering the preedit.
LEMMA SegmentsGood ==
  ASSUME NEW s, Good(s), s.context.converter.failed = "no", s.context.state = "CONVERSION",
         NEW t \in SegmentFocusLeft(s) \cup SegmentFocusRight(s) \cup SegmentFocusLeftEdge(s)
                     \cup SegmentFocusLast(s) \cup SegmentWidthExpand(s) \cup SegmentWidthShrink(s)
  PROVE  Good(t)
<1> DEFINE c == s.context.converter
           n == s.context.length
           F == SC!SegmentFocusFirst(c) \cup SC!SegmentFocusLast(c)
                  \cup SC!SegmentFocusRight(c) \cup SC!SegmentFocusLeft(c)
                  \cup SC!ResizeSegmentWidth(c, 1) \cup SC!ResizeSegmentWidth(c, -1)
<1>1. n \in Nat /\ GoodConverter(c, n) /\ c.failed = "no"
  BY AnySession
<1>2. c.state # "SUGGESTION"
  BY DEF Good, Agree
<1>3. \A d \in F : GoodConverter(d, n) /\ d.state # "SUGGESTION"
  <2>1. 1 \in Int /\ -1 \in Int
    OBVIOUS
  <2> SUFFICES ASSUME NEW d \in F PROVE GoodConverter(d, n) /\ d.state = c.state
    BY <1>2
  <2>2. \/ d \in SC!SegmentFocusFirst(c) \cup SC!SegmentFocusLast(c)
                   \cup SC!SegmentFocusRight(c) \cup SC!SegmentFocusLeft(c)
        \/ d \in SC!ResizeSegmentWidth(c, 1)
        \/ d \in SC!ResizeSegmentWidth(c, -1)
    OBVIOUS
  <2> HIDE DEF c, n, F
  <2> QED
    BY <1>1, <2>1, <2>2, SegmentFocusesGood, ResizeGood
<1>4. \E C \in SUBSET F : t \in Show(s, C)
  BY DEF SegmentFocusLeft, SegmentFocusRight, SegmentFocusLeftEdge, SegmentFocusLast,
         SegmentWidthExpand, SegmentWidthShrink, Converter
<1> HIDE DEF F
<1> QED
  BY <1>3, <1>4, ShowGood

\* What a commit of some segments leaves is delivered.
LEMMA DeliverCommitGood ==
  ASSUME NEW S, \A s \in S : Good(s), NEW t \in DeliverCommit(S)
  PROVE  Good(t)
<1> DEFINE A == Then(S, LeaveConversion)
           B == Then(A, Output)
<1>1. t \in Then(B, CopyOutput)
  BY DEF DeliverCommit
<1>2. \A x \in A : Good(x)
  <2> SUFFICES ASSUME NEW x \in A PROVE Good(x)
    OBVIOUS
  <2>1. PICK s \in S : x \in IF Converter(s).failed # "no" THEN {s} ELSE LeaveConversion(s)
    BY DEF Then
  <2>2. CASE x = s
    BY <2>2
  <2>3. CASE x # s
    <3>1. ~SC!IsActive(s.context.converter) /\ x \in Then(Precompose(s), ZeroQuerySuggest)
      BY <2>1, <2>3 DEF LeaveConversion, Converter
    <3>2. PICK y \in Precompose(s) :
            x \in IF Converter(y).failed # "no" THEN {y} ELSE ZeroQuerySuggest(y)
      BY <3>1 DEF Then
    <3>3. Sound(s) /\ Calm(s.context.converter)
      BY <3>1 DEF Good, Calm, SC!IsActive
    <3>4. Good(y) /\ y.context.state = "PRECOMPOSITION"
      BY <3>3, PrecomposeGood
    <3> QED
      BY <3>2, <3>4, ZeroQuerySuggestGood DEF Converter, Editing
  <2> QED
    BY <2>2, <2>3
<1> HIDE DEF A
<1>3. \A x \in B : Good(x)
  <2> SUFFICES ASSUME NEW x \in B PROVE Good(x)
    OBVIOUS
  <2>1. PICK y \in A : x \in IF Converter(y).failed # "no" THEN {y} ELSE Output(y)
    BY DEF Then
  <2> QED
    BY <1>2, <2>1, OutputGood
<1> HIDE DEF B
<1>4. PICK x \in B : t \in IF Converter(x).failed # "no" THEN {x} ELSE CopyOutput(x)
  BY <1>1 DEF Then
<1> QED
  BY <1>3, <1>4, CopyOutputGood

\* The committed characters leave the composer.
LEMMA DeleteCommittedGood ==
  ASSUME NEW s, Good(s), s.context.state = "CONVERSION", NEW outcomes,
         \A o \in outcomes : GoodOutcome(o, s.context.length),
         NEW t \in DeleteCommitted(s, outcomes)
  PROVE  Good(t)
<1> DEFINE n == s.context.length
<1>0. n \in Nat /\ Sound(s)
  BY AnySession
<1>1. PICK o \in outcomes :
        t = [ s EXCEPT !.context.converter =
                         IF o[2] > 0 /\ Max({0, n - o[2]}) = 0 THEN SC!Failed(o[1], "DCHECK")
                         ELSE o[1],
                       !.context.length = Max({0, n - o[2]}) ]
  BY DEF DeleteCommitted
<1>2. GoodOutcome(o, n)
  OBVIOUS
<1> DEFINE rest == Max({0, n - o[2]})
           d == IF o[2] > 0 /\ rest = 0 THEN SC!Failed(o[1], "DCHECK") ELSE o[1]
           y == [ s EXCEPT !.context = [ s.context EXCEPT !.converter = d, !.length = rest ] ]
<1>3. t = [ s EXCEPT !.context.converter = d, !.context.length = rest ]
  BY <1>1
<1> HIDE DEF n
<1>4. /\ o[1] \in ConverterRecord /\ IsFiniteSet(o[1].ends) /\ o[2] \in 0..n
      /\ o[1].failed = "no" => o[1].state # "SUGGESTION"
      /\ o[2] = 0 \/ o[2] # n => GoodConverter(o[1], n - o[2])
  BY <1>2 DEF GoodOutcome
<1>5. rest = n - o[2] /\ rest \in Nat
  <2>1. n - o[2] \in Int /\ n - o[2] >= 0
    BY <1>0, <1>4
  <2> QED
    BY <2>1, MaxOfZero
<1> HIDE DEF rest
<1>6. GoodConverter(d, rest) /\ (d.failed = "no" => d.state # "SUGGESTION")
  <2>1. CASE o[2] > 0 /\ rest = 0
    BY <1>4, <2>1, FailedGood, IdleIsGood
  <2>2. CASE ~(o[2] > 0 /\ rest = 0)
    <3>1. o[2] = 0 \/ o[2] # n
      BY <1>0, <1>4, <1>5, <2>2
    <3> QED
      BY <1>4, <1>5, <2>2, <3>1
  <2> QED
    BY <2>1, <2>2
<1> HIDE DEF d
<1>7. /\ Sound(y) /\ y.context.converter = d /\ y.context.state = s.context.state
      /\ y = [ s EXCEPT !.context.converter = d, !.context.length = rest ]
  <2>1. Sound(s) /\ rest \in Nat /\ GoodConverter(d, rest)
    BY <1>0, <1>5, <1>6
  <2>2. Sound(y)
    BY <2>1, SetConverterLength
  <2>3. y.context.converter = d /\ y.context.state = s.context.state
    <3>1. s \in SessionRecord /\ s.context \in Context
      BY <2>1, SoundFields
    <3> QED
      BY <3>1 DEF SessionRecord, Context
  <2>4. y = [ s EXCEPT !.context.converter = d, !.context.length = rest ]
    BY <2>1, SetConverterLength
  <2> QED
    BY <2>2, <2>3, <2>4
<1>8. y = t
  BY <1>3, <1>7
<1> HIDE DEF y
<1> QED
  BY <1>6, <1>7, <1>8 DEF Good, Agree, Off

\* Committing the first segment leaves the rest of the segments and the preedit.
LEMMA CommitSegmentGood ==
  ASSUME NEW s, Good(s), s.context.converter.failed = "no", s.context.state = "CONVERSION",
         NEW t \in CommitSegment(s)
  PROVE  Good(t)
<1> DEFINE saved == PushUndoContext(s)
           P == SC!CommitFirstSegment(s.context.converter)
           S == DeleteCommitted(saved, P)
<1>1. /\ Good(saved) /\ saved.context.state = s.context.state
      /\ saved.context.length = s.context.length
  BY PushUndoGood
<1>2. t \in DeliverCommit(S)
  BY DEF CommitSegment, Converter
<1> HIDE DEF saved
<1>3. s.context.length \in Nat /\ GoodConverter(s.context.converter, s.context.length)
  BY AnySession
<1>4. \A o \in P : GoodOutcome(o, s.context.length)
  <2>1. P = SC!CommitSegmentsInternal(s.context.converter, 1)
    BY DEF SC!CommitFirstSegment
  <2>2. 1 \in Nat /\ 1 >= 1
    OBVIOUS
  <2> HIDE DEF P
  <2> QED
    BY <1>3, <2>1, <2>2, CommitSegmentsGood
<1> HIDE DEF P
<1>5. \A x \in S : Good(x)
  BY <1>1, <1>4, DeleteCommittedGood
<1> HIDE DEF S
<1> QED
  BY <1>2, <1>5, DeliverCommitGood

\* Committing a suggestion, from the states in which there is one.
LEMMA CommitFirstSuggestionGood ==
  ASSUME NEW s, Good(s), s.context.converter.failed = "no", s.context.state \in Editing,
         NEW t \in CommitFirstSuggestion(s)
  PROVE  Good(t)
<1> DEFINE saved == PushUndoContext(s)
           P == SC!CommitSuggestion(s.context.converter, s.context.length, ZeroQuery)
           C == { o[1] : o \in P }
           A == WithConverter(saved, C)
           B == Then(A, Precompose)
           D == Then(B, ZeroQuerySuggest)
           E == Then(D, Output)
<1>1. CASE ~SC!IsActive(s.context.converter)
  <2>1. t \in DoNothing(s)
    BY <1>1 DEF CommitFirstSuggestion, Converter
  <2> QED
    BY <2>1, DoNothingGood
<1>2. CASE SC!IsActive(s.context.converter)
  <2>1. t \in Then(E, CopyOutput)
    BY <1>2 DEF CommitFirstSuggestion, Converter
  <2>2. Good(saved) /\ Sound(saved) /\ saved.context.state = s.context.state
    BY PushUndoGood DEF Good
  <2> HIDE DEF saved
  <2>3. s.context.length \in Nat /\ GoodConverter(s.context.converter, s.context.length)
    BY AnySession
  <2>4. \A o \in P : (\A m : GoodConverter(o[1], m)) /\ Calm(o[1])
    BY <2>3, CommitSuggestionGood
  <2> HIDE DEF P
  <2>5. \A c \in C : (\A m : GoodConverter(c, m)) /\ Calm(c)
    BY <2>4
  <2> HIDE DEF C
  <2>6. \A x \in A : Sound(x) /\ Calm(x.context.converter) /\ x.context.state # "DIRECT"
    <3> SUFFICES ASSUME NEW x \in A
                 PROVE  /\ Sound(x) /\ Calm(x.context.converter)
                        /\ x.context.state # "DIRECT"
      OBVIOUS
    <3>1. PICK d \in C : x = [ saved EXCEPT !.context.converter = d ]
      BY DEF WithConverter
    <3>2. GoodConverter(d, saved.context.length) /\ Calm(d)
      BY <2>5
    <3>3. Sound(x) /\ x.context.converter = d /\ x.context.state = saved.context.state
      BY <2>2, <3>1, <3>2, SetConverter
    <3> QED
      BY <2>2, <3>2, <3>3 DEF Editing
  <2> HIDE DEF A
  <2>7. \A x \in B : /\ Good(x)
                     /\ x.context.converter.failed = "no" => x.context.state = "PRECOMPOSITION"
    <3> SUFFICES ASSUME NEW x \in B
                 PROVE  /\ Good(x)
                        /\ x.context.converter.failed = "no" =>
                             x.context.state = "PRECOMPOSITION"
      OBVIOUS
    <3>1. PICK y \in A : x \in IF Converter(y).failed # "no" THEN {y} ELSE Precompose(y)
      BY DEF Then
    <3> QED
      BY <2>6, <3>1, PrecomposeGood, FailedIsGood DEF Converter
  <2> HIDE DEF B
  <2>8. \A x \in D : Good(x)
    <3> SUFFICES ASSUME NEW x \in D PROVE Good(x)
      OBVIOUS
    <3>1. PICK y \in B : x \in IF Converter(y).failed # "no" THEN {y} ELSE ZeroQuerySuggest(y)
      BY DEF Then
    <3> QED
      BY <2>7, <3>1, ZeroQuerySuggestGood DEF Converter, Editing
  <2> HIDE DEF D
  <2>9. \A x \in E : Good(x)
    <3> SUFFICES ASSUME NEW x \in E PROVE Good(x)
      OBVIOUS
    <3>1. PICK y \in D : x \in IF Converter(y).failed # "no" THEN {y} ELSE Output(y)
      BY DEF Then
    <3> QED
      BY <2>8, <3>1, OutputGood
  <2> HIDE DEF E
  <2>10. PICK x \in E : t \in IF Converter(x).failed # "no" THEN {x} ELSE CopyOutput(x)
    BY <2>1 DEF Then
  <2> QED
    BY <2>9, <2>10, CopyOutputGood
<1> QED
  BY <1>1, <1>2

\* The candidate with an id, of a session that is on.
LEMMA ChosenGood ==
  ASSUME NEW s, Good(s), s.context.converter.failed = "no", s.context.state # "DIRECT",
         NEW r, Good(r), r.context.state = s.context.state,
         r.context.length = s.context.length,
         NEW t \in WithConverter(r, SC!CandidateMoveToId(s.context.converter,
                                                         s.context.length))
  PROVE  /\ Sound(t) /\ t.context.state = s.context.state
         /\ t.context.length = s.context.length
         /\ t.context.converter.failed = "no" =>
              t.context.converter.state \in {"PREDICTION", "CONVERSION"}
<1>1. PICK d \in SC!CandidateMoveToId(s.context.converter, s.context.length) :
        t = [ r EXCEPT !.context.converter = d ]
  BY DEF WithConverter
<1>2. s.context.length \in Nat /\ GoodConverter(s.context.converter, s.context.length)
  BY AnySession
<1>3. /\ GoodConverter(d, s.context.length)
      /\ d.failed = "no" => d.state \in {"PREDICTION", "CONVERSION"}
  BY <1>2, CandidateMoveToIdGood
<1>4. Sound(r)
  BY DEF Good
<1> QED
  BY <1>1, <1>3, <1>4, SetConverter

\* Selecting a candidate enters CONVERSION from a suggestion.
LEMMA SelectCandidateGood ==
  ASSUME NEW s, Good(s), s.context.converter.failed = "no", NEW t \in SelectCandidate(s)
  PROVE  Good(t)
<1> DEFINE W == WithConverter(s, SC!CandidateMoveToId(s.context.converter, s.context.length))
           A == Then(W, LAMBDA x : SetSessionState(x, "CONVERSION"))
<1>1. CASE s.context.state = "DIRECT" \/ ~SC!IsActive(s.context.converter)
  <2>1. t \in DoNothing(s)
    BY <1>1 DEF SelectCandidate, State, Converter
  <2> QED
    BY <2>1, DoNothingGood
<1>2. CASE ~(s.context.state = "DIRECT" \/ ~SC!IsActive(s.context.converter))
  <2>1. t \in Then(A, Output)
    BY <1>2 DEF SelectCandidate, State, Converter
  <2>2. PICK y \in A : t \in IF Converter(y).failed # "no" THEN {y} ELSE Output(y)
    BY <2>1 DEF Then
  <2>3. PICK x \in W : y \in IF Converter(x).failed # "no" THEN {x}
                             ELSE SetSessionState(x, "CONVERSION")
    BY DEF Then
  <2> HIDE DEF A
  <2>4. /\ Sound(x) /\ x.context.state # "DIRECT"
        /\ x.context.converter.failed = "no" =>
             x.context.converter.state \in {"PREDICTION", "CONVERSION"}
    BY <1>2, ChosenGood
  <2> HIDE DEF W
  <2>5. Good(y)
    BY <2>3, <2>4, FailedIsGood, EnterConversionGood DEF Converter
  <2> QED
    BY <2>2, <2>5, OutputGood
<1> QED
  BY <1>1, <1>2

\* Committing a candidate, with all of the preedit or a part of it.
LEMMA CommitCandidateGood ==
  ASSUME NEW s, Good(s), s.context.converter.failed = "no", NEW t \in CommitCandidate(s)
  PROVE  Good(t)
<1> DEFINE saved == PushUndoContext(s)
           W == WithConverter(saved, SC!CandidateMoveToId(s.context.converter, s.context.length))
           focused == Then(W, LAMBDA x :
                        DeleteCommitted(x, SC!CommitHeadToFocusedSegments(Converter(x))))
           P == SC!CommitSuggestion(s.context.converter, s.context.length, ZeroQuery)
           keep(o) == [ saved EXCEPT !.context.converter = o[1], !.context.length = o[2] ]
           partly == { keep(o) : o \in { x \in P : x[2] > 0 } }
           C == { o[1] : o \in { x \in P : x[2] = 0 } }
           wholly == WithConverter(saved, C)
           moved == Then(partly, LAMBDA x : MoveCursorInternal(x, FALSE))
<1>0. /\ s.context.state \in States /\ s.context.length \in Nat
      /\ GoodConverter(s.context.converter, s.context.length)
  BY AnySession
<1>1. /\ Good(saved) /\ Sound(saved) /\ saved.context.state = s.context.state
      /\ saved.context.length = s.context.length
  BY PushUndoGood DEF Good
<1>2. CASE s.context.state = "DIRECT" \/ ~SC!IsActive(s.context.converter)
  <2>1. t = s
    BY <1>2 DEF CommitCandidate, State, Converter
  <2> QED
    BY <2>1
<1>3. CASE s.context.state = "CONVERSION" /\ SC!IsActive(s.context.converter)
  <2>1. t \in DeliverCommit(focused)
    BY <1>3 DEF CommitCandidate, State, Converter
  <2> HIDE DEF saved
  <2>2. \A y \in focused : Good(y)
    <3> SUFFICES ASSUME NEW y \in focused PROVE Good(y)
      OBVIOUS
    <3>1. PICK x \in W :
            y \in IF Converter(x).failed # "no" THEN {x}
                  ELSE DeleteCommitted(x, SC!CommitHeadToFocusedSegments(Converter(x)))
      BY DEF Then
    <3>2. /\ Sound(x) /\ x.context.state = "CONVERSION"
          /\ x.context.converter.failed = "no" =>
               x.context.converter.state \in {"PREDICTION", "CONVERSION"}
      BY <1>1, <1>3, ChosenGood
    <3> HIDE DEF W, focused
    <3>3. Good(x)
      BY <3>2 DEF Good, Agree, Off
    <3>4. CASE Converter(x).failed # "no"
      BY <3>1, <3>3, <3>4
    <3>5. CASE Converter(x).failed = "no"
      <4> DEFINE c == x.context.converter
                 Q == SC!CommitHeadToFocusedSegments(c)
                 k == c.segment_index + 1
      <4>1. y \in DeleteCommitted(x, Q)
        BY <3>1, <3>5 DEF Converter
      <4>2. /\ c.failed = "no" /\ x.context.length \in Nat /\ GoodConverter(c, x.context.length)
            /\ c \in ConverterRecord
        BY <3>3, <3>5, AnySession DEF Converter
      <4>3. k \in Nat /\ k >= 1
        <5>1. c.segment_index \in Int /\ c.segment_index >= 0
          BY <4>2, ConverterFields DEF GoodConverter
        <5> QED
          BY <5>1
      <4>4. Q = SC!CommitSegmentsInternal(c, k)
        BY DEF SC!CommitHeadToFocusedSegments
      <4> HIDE DEF c, k, Q
      <4>5. \A o \in Q : GoodOutcome(o, x.context.length)
        BY <4>2, <4>3, <4>4, CommitSegmentsGood
      <4> QED
        BY <3>2, <3>3, <4>1, <4>5, DeleteCommittedGood
    <3> QED
      BY <3>4, <3>5
  <2> HIDE DEF focused
  <2> QED
    BY <2>1, <2>2, DeliverCommitGood
<1>4. CASE s.context.state \in Editing /\ SC!IsActive(s.context.converter)
  <2>1. t \in DeliverCommit(wholly) \cup Then(moved, CopyOutput)
    BY <1>4 DEF CommitCandidate, State, Converter, Editing
  <2> HIDE DEF saved
  <2>2. \A o \in P : (\A m : GoodConverter(o[1], m)) /\ Calm(o[1]) /\ o[2] \in Nat
    BY <1>0, CommitSuggestionGood
  <2> HIDE DEF P
  <2>3. CASE t \in DeliverCommit(wholly)
    <3>1. \A c \in C : (\A m : GoodConverter(c, m)) /\ Calm(c)
      BY <2>2
    <3> HIDE DEF C
    <3>2. \A x \in wholly : Good(x)
      <4> SUFFICES ASSUME NEW x \in wholly PROVE Good(x)
        OBVIOUS
      <4>1. PICK d \in C : x = [ saved EXCEPT !.context.converter = d ]
        BY DEF WithConverter
      <4>2. GoodConverter(d, saved.context.length) /\ Calm(d)
        BY <3>1
      <4>3. Sound(x) /\ x.context.converter = d /\ x.context.state = saved.context.state
        BY <1>1, <4>1, <4>2, SetConverter
      <4> QED
        BY <1>1, <1>4, <4>2, <4>3 DEF Good, Agree, Off, Calm, Editing
    <3> HIDE DEF wholly
    <3> QED
      BY <2>3, <3>2, DeliverCommitGood
  <2>4. CASE t \in Then(moved, CopyOutput)
    <3>1. \A x \in partly : Good(x) /\ x.context.state \in Editing
      <4> SUFFICES ASSUME NEW x \in partly PROVE Good(x) /\ x.context.state \in Editing
        OBVIOUS
      <4>1. PICK o \in P : x = keep(o)
        OBVIOUS
      <4> DEFINE c == o[1]
                 n == o[2]
                 y == [ saved EXCEPT !.context = [ saved.context EXCEPT !.converter = c,
                                                                        !.length = n ] ]
      <4>2. x = [ saved EXCEPT !.context.converter = c, !.context.length = n ]
        BY <4>1
      <4>3. GoodConverter(c, n) /\ Calm(c) /\ n \in Nat
        BY <2>2
      <4> HIDE DEF c, n
      <4>4. /\ Sound(y) /\ y.context.converter = c /\ y.context.state = saved.context.state
            /\ y = [ saved EXCEPT !.context.converter = c, !.context.length = n ]
        <5>1. Sound(saved) /\ n \in Nat /\ GoodConverter(c, n)
          BY <1>1, <4>3
        <5>2. Sound(y)
          BY <5>1, SetConverterLength
        <5>3. y.context.converter = c /\ y.context.state = saved.context.state
          <6>1. saved \in SessionRecord /\ saved.context \in Context
            BY <5>1, SoundFields
          <6> QED
            BY <6>1 DEF SessionRecord, Context
        <5>4. y = [ saved EXCEPT !.context.converter = c, !.context.length = n ]
          BY <5>1, SetConverterLength
        <5> QED
          BY <5>2, <5>3, <5>4
      <4>5. y = x
        BY <4>2, <4>4
      <4> HIDE DEF y
      <4> QED
        BY <1>1, <1>4, <4>3, <4>4, <4>5 DEF Good, Agree, Off, Calm, Editing
    <3> HIDE DEF partly
    <3>2. PICK y \in moved : t \in IF Converter(y).failed # "no" THEN {y} ELSE CopyOutput(y)
      BY <2>4 DEF Then
    <3>3. PICK x \in partly : y \in IF Converter(x).failed # "no" THEN {x}
                                    ELSE MoveCursorInternal(x, FALSE)
      BY DEF Then
    <3> HIDE DEF moved
    <3>4. Good(y)
      BY <3>1, <3>3, MoveCursorInternalGood DEF Converter
    <3> QED
      BY <3>2, <3>4, CopyOutputGood
  <2> QED
    BY <2>1, <2>3, <2>4
<1> QED
  BY <1>0, <1>2, <1>3, <1>4 DEF States, Editing

\* Reconversion enters CONVERSION with the reading of the selected text, or
\* leaves that reading in the composer.
LEMMA ConvertReverseGood ==
  ASSUME NEW s, Good(s), s.context.converter.failed = "no", NEW t \in ConvertReverse(s)
  PROVE  Good(t)
<1> DEFINE u == ClearUndoContext(s)
           r == ResetComposer(u)
           x == [ r EXCEPT !.context.source_text = 1 ]
           N == 1..MaxLength
           W == WithLength(x, N)
<1>1. CASE t \in DoNothing(s)
  BY <1>1, DoNothingGood
<1>2. CASE t \notin DoNothing(s)
  <2>1. s.context.state \notin Composing /\ t \in Then(W, StartConversion)
    BY <1>2 DEF ConvertReverse, State
  <2>2. s.context.state # "CONVERSION"
    BY <2>1 DEF Composing
  <2>3. Good(u) /\ Sound(u) /\ u.context = s.context
    BY ClearUndoGood DEF Good
  <2> HIDE DEF u
  <2>4. Calm(s.context.converter)
    BY <2>2, GoodIsCalm
  <2>5. /\ Sound(r) /\ r.context.converter = s.context.converter
        /\ r.context.state = s.context.state
    BY <2>3, <2>4, ResetComposerSound DEF Calm
  <2> HIDE DEF r
  <2>6. /\ Sound(x) /\ x.context.converter = s.context.converter
        /\ x.context.state = s.context.state /\ x.context.source_text = 1
    BY <2>5, SetSourceText
  <2> HIDE DEF x
  <2>7. PICK y \in W : t \in IF Converter(y).failed # "no" THEN {y} ELSE StartConversion(y)
    BY <2>1 DEF Then
  <2>8. PICK n \in N : y = [ x EXCEPT !.context.length = n ]
    BY DEF WithLength
  <2>9. n \in Nat /\ n # 0
    BY SessionAssumption
  <2> HIDE DEF N, W
  <2>10. GoodConverter(x.context.converter, n)
    BY <2>2, <2>6, GoodIsCalm
  <2>11. /\ Sound(y) /\ y.context.length = n /\ y.context.state = s.context.state
         /\ y.context.converter = s.context.converter /\ y.context.source_text = 1
    BY <2>6, <2>8, <2>9, <2>10, SetLength
  <2>12. y.context.converter.state # "PREDICTION" /\ y.context.converter.failed = "no"
    BY <2>4, <2>11 DEF Calm
  <2> QED
    BY <2>7, <2>11, <2>12, StartConversionGood DEF Converter, Empty
<1> QED
  BY <1>1, <1>2

---------------------------------------------------------------------------
(***************************************************************************)
(* Undo, the keys that turn the session on or off, and the delivery of the *)
(* output.                                                                 *)
(***************************************************************************)
LEMMA UndoGood ==
  ASSUME NEW s, Good(s), s.context.converter.failed = "no",
         NEW t \in RequestUndo(s) \cup Undo(s) \cup UndoOrRewind(s)
  PROVE  Good(t)
<1> DEFINE p == PopUndoContext(s)
<1>1. \/ t \in EchoBack(s) \/ t \in Output(s) \/ t \in DoNothing(s)
      \/ t \in Output(p) /\ HasUndoContext(s)
      \/ t \in SendComposerCommand(s) /\ s.context.state = "COMPOSITION"
  BY DEF RequestUndo, Undo, UndoOrRewind, State
<1>2. HasUndoContext(s) => Good(p)
  BY PopUndoGood
<1> HIDE DEF p
<1>3. CASE t \in EchoBack(s)
  BY <1>3, EchoBackGood
<1>4. CASE t \in SendComposerCommand(s) /\ s.context.state = "COMPOSITION"
  BY <1>4, SendComposerCommandGood DEF Editing
<1> QED
  BY <1>1, <1>2, <1>3, <1>4, OutputGood, DoNothingGood

\* A key that carries the wrong activation turns the session on or off first.
LEMMA HandleIndirectGood ==
  ASSUME NEW s, Good(s), s.context.converter.failed = "no", NEW activated,
         NEW t \in HandleIndirectImeOnOff(s, activated)
  PROVE  Good(t)
<1>1. \/ t \in IMEOn(s) /\ s.context.state = "DIRECT"
      \/ t \in { [ x EXCEPT !.output = 0 ] : x \in IMEOff(s) }
      \/ t = s
  BY DEF HandleIndirectImeOnOff, State
<1>2. CASE t \in { [ x EXCEPT !.output = 0 ] : x \in IMEOff(s) }
  <2> DEFINE zero == 0
  <2>1. PICK x \in IMEOff(s) : t = [ x EXCEPT !.output = zero ]
    BY <1>2
  <2>2. zero \in Int
    OBVIOUS
  <2> HIDE DEF zero
  <2>3. Good(x) /\ Sound(x)
    BY IMEOffGood DEF Good
  <2>4. Sound(t) /\ t.context = x.context
    BY <2>1, <2>2, <2>3, SetOutput
  <2> QED
    BY <2>3, <2>4 DEF Good
<1> QED
  BY <1>1, <1>2, IMEOnGood

\* A key that is only tested.
LEMMA TestSendKeyGood ==
  ASSUME NEW s, Good(s), s.context.converter.failed = "no", NEW activated,
         NEW t \in TestSendKey(s, activated)
  PROVE  Good(t)
<1>1. \/ t \in DoNothing(s) \/ t \in EchoBack(s) \/ t \in EchoBackAndClearUndoContext(s)
      \/ t \in Revert(s)
  BY DEF TestSendKey
<1>2. CASE t \in DoNothing(s)
  BY <1>2, DoNothingGood
<1>3. CASE t \in EchoBack(s) \/ t \in EchoBackAndClearUndoContext(s)
  BY <1>3, EchoBackGood
<1>4. CASE t \in Revert(s)
  BY <1>4, RevertGood
<1> QED
  BY <1>1, <1>2, <1>3, <1>4

\* The response takes the result, and the ghost counters are updated.
LEMMA FinishGood ==
  ASSUME NEW s, Good(s)
  PROVE  Good(Finish(s))
<1> DEFINE v == IF HasUndoContext(s) THEN s.context.output ELSE 0
           w == IF HasUndoContext(s) THEN Min({s.context.owed + s.output, MaxOwed}) ELSE 0
           zero == 0
           x == [ s.context EXCEPT !.output = v, !.owed = w ]
           o == [ s EXCEPT !.output = zero ]
           t == Finish(s)
<1>0. /\ Sound(s) /\ s \in SessionRecord /\ s.context \in Context
      /\ s.output \in Int /\ s.context.output \in Int /\ s.context.owed \in Int
      /\ GoodConverter(s.context.converter, s.context.length)
  BY SoundFields DEF Good
<1>1. v \in Int
  BY <1>0
<1>2. w \in Int
  <2>1. s.context.owed + s.output \in Int /\ MaxOwed \in Int
    BY <1>0, SessionAssumption
  <2>2. Min({s.context.owed + s.output, MaxOwed}) \in Int
    BY <2>1, MinOfTwo
  <2> QED
    BY <2>2
<1>3. zero \in Int
  OBVIOUS
<1>4. t = [ s EXCEPT !.output = zero, !.context.output = v, !.context.owed = w ]
  BY <1>0 DEF Finish, SessionRecord, Context
<1> HIDE DEF v, w, zero, t
<1>5. x \in Context
  BY <1>0, <1>1, <1>2 DEF Context
<1>6. /\ x.converter = s.context.converter /\ x.state = s.context.state
      /\ x.length = s.context.length /\ x.source_text = s.context.source_text
  BY <1>0 DEF Context
<1>7. Sound(o)
  BY <1>0, <1>3, SetOutput
<1>8. t = [ o EXCEPT !.context = x ]
  BY <1>0, <1>4 DEF SessionRecord
<1> HIDE DEF o, x
<1>9. Sound(t) /\ t.context = x
  BY <1>0, <1>5, <1>6, <1>7, <1>8, SetContext
<1>10. Good(t)
  BY <1>6, <1>9 DEF Good, Agree, Off, Empty
<1> QED
  BY <1>10 DEF t

---------------------------------------------------------------------------
(***************************************************************************)
(* The handlers of the four states: each disjunct is a command above, and  *)
(* what it leaves is delivered by Finish.                                  *)
(***************************************************************************)

\* The commands of every state but DIRECT.
LEMMA SendKeyActiveGood ==
  ASSUME NEW s, Good(s), Converter(s).failed = "no", s.context.state # "DIRECT",
         SendKeyActive(s)
  PROVE  \E t : Good(t) /\ session' = Finish(t)
<1>0. s.context.converter.failed = "no"
  BY DEF Converter
<1>1. CASE Receive(InputMode(s))
  BY <1>0, <1>1, InputModeGood DEF Receive
<1>2. CASE Receive(DoNothing(s))
  BY <1>0, <1>2, DoNothingGood DEF Receive
<1>3. CASE Receive(OutputFromState(s))
  BY <1>0, <1>3, OutputFromStateGood DEF Receive
<1>4. CASE Receive(IMEOff(s))
  BY <1>0, <1>4, IMEOffGood DEF Receive
<1>5. CASE Receive(RequestUndo(s))
  BY <1>0, <1>5, UndoGood DEF Receive
<1>6. CASE Receive(InsertCharacter(s))
  BY <1>0, <1>6, InsertCharacterGood DEF Receive
<1>7. CASE Receive(InsertSpace(s))
  BY <1>0, <1>7, InsertSpaceGood DEF Receive
<1>8. CASE Receive(PredictAndConvert(s))
  BY <1>0, <1>8, PredictAndConvertGood DEF Receive
<1>9. CASE Receive(EditCancelAndIMEOff(s))
  BY <1>0, <1>9, EditCancelAndIMEOffGood DEF Receive
<1> QED
  BY <1>1, <1>2, <1>3, <1>4, <1>5, <1>6, <1>7, <1>8, <1>9 DEF SendKeyActive

\* A key while the session is off.
LEMMA SendKeyDirectGood ==
  ASSUME NEW s, Good(s), Converter(s).failed = "no", s.context.state = "DIRECT",
         SendKeyDirectInputState(s)
  PROVE  \E t : Good(t) /\ session' = Finish(t)
<1>0. s.context.converter.failed = "no"
  BY DEF Converter
<1>1. CASE Receive(IMEOn(s))
  BY <1>0, <1>1, IMEOnGood DEF Receive
<1>2. CASE Receive(InputMode(s))
  BY <1>0, <1>2, InputModeGood DEF Receive
<1>3. CASE Receive(EchoBackAndClearUndoContext(s))
  BY <1>0, <1>3, EchoBackGood DEF Receive
<1>4. CASE Receive(RequestConvertReverse(s))
  BY <1>0, <1>4, OutputGood DEF Receive, RequestConvertReverse
<1> QED
  BY <1>1, <1>2, <1>3, <1>4 DEF SendKeyDirectInputState

\* A key while nothing is composed.
LEMMA SendKeyPrecompositionGood ==
  ASSUME NEW s, Good(s), Converter(s).failed = "no", s.context.state = "PRECOMPOSITION",
         SendKeyPrecompositionState(s)
  PROVE  \E t : Good(t) /\ session' = Finish(t)
<1>0. s.context.converter.failed = "no"
  BY DEF Converter
<1>1. CASE SendKeyActive(s)
  BY <1>0, <1>1, SendKeyActiveGood
<1>2. CASE Receive(EchoBackAndClearUndoContext(s))
  BY <1>0, <1>2, EchoBackGood DEF Receive
<1>3. CASE Receive(RequestConvertReverse(s))
  BY <1>0, <1>3, OutputGood DEF Receive, RequestConvertReverse
<1>4. CASE Receive(Revert(s))
  BY <1>0, <1>4, RevertGood DEF Receive
<1>5. CASE Receive(EditCancel(s))
  BY <1>0, <1>5, EditCancelGood DEF Receive
<1>6. CASE Receive(CommitFirstSuggestion(s))
  BY <1>0, <1>6, CommitFirstSuggestionGood DEF Receive, Editing
<1> QED
  BY <1>1, <1>2, <1>3, <1>4, <1>5, <1>6 DEF SendKeyPrecompositionState

\* A key while a text is composed.
LEMMA SendKeyCompositionGood ==
  ASSUME NEW s, Good(s), Converter(s).failed = "no", s.context.state = "COMPOSITION",
         SendKeyCompositionState(s)
  PROVE  \E t : Good(t) /\ session' = Finish(t)
<1>0. s.context.converter.failed = "no"
  BY DEF Converter
<1>1. CASE SendKeyActive(s)
  BY <1>0, <1>1, SendKeyActiveGood
<1>2. CASE Receive(EditCancel(s))
  BY <1>0, <1>2, EditCancelGood DEF Receive
<1>3. CASE Receive(CommitFirstSuggestion(s))
  BY <1>0, <1>3, CommitFirstSuggestionGood DEF Receive, Editing
<1>4. CASE Receive(Convert(s))
  BY <1>0, <1>4, ConvertKeyGood DEF Receive
<1>5. CASE Receive(ConvertWithoutHistory(s))
  BY <1>0, <1>5, StartConversionGood DEF Receive, ConvertWithoutHistory, Good
<1>6. CASE Receive(Delete(s))
  BY <1>0, <1>6, DeleteGood DEF Receive
<1>7. CASE Receive(MoveCursor(s))
  BY <1>0, <1>7, MoveCursorGood DEF Receive, Editing
<1>8. CASE Receive(MoveCursorAcrossEdge(s))
  BY <1>0, <1>8, MoveCursorAcrossEdgeGood DEF Receive
<1>9. CASE Receive(Commit(s))
  BY <1>0, <1>9, CommitGood DEF Receive
<1>10. CASE Receive(ConvertToTransliteration(s))
  BY <1>0, <1>10, TransliterateGood DEF Receive
<1>11. CASE Receive(SwitchKanaType(s))
  BY <1>0, <1>11, TransliterateGood DEF Receive
<1>12. CASE Receive(DisplayAs(s))
  BY <1>0, <1>12, TransliterateGood DEF Receive
<1> QED
  BY <1>1, <1>2, <1>3, <1>4, <1>5, <1>6, <1>7, <1>8, <1>9, <1>10, <1>11, <1>12 DEF SendKeyCompositionState

\* A key while a text is converted.
LEMMA SendKeyConversionGood ==
  ASSUME NEW s, Good(s), Converter(s).failed = "no", s.context.state = "CONVERSION",
         SendKeyConversionState(s)
  PROVE  \E t : Good(t) /\ session' = Finish(t)
<1>0. s.context.converter.failed = "no"
  BY DEF Converter
<1>1. CASE SendKeyActive(s)
  BY <1>0, <1>1, SendKeyActiveGood
<1>2. CASE Receive(Commit(s))
  BY <1>0, <1>2, CommitGood DEF Receive
<1>3. CASE Receive(ConvertToTransliteration(s))
  BY <1>0, <1>3, TransliterateGood DEF Receive
<1>4. CASE Receive(SwitchKanaType(s))
  BY <1>0, <1>4, TransliterateGood DEF Receive
<1>5. CASE Receive(DisplayAs(s))
  BY <1>0, <1>5, TransliterateGood DEF Receive
<1>6. CASE Receive(CommitSegment(s))
  BY <1>0, <1>6, CommitSegmentGood DEF Receive
<1>7. CASE Receive(ConvertNext(s))
  BY <1>0, <1>7, ConvertNextGood DEF Receive, ConvertNext, Converter
<1>8. CASE Receive(ConvertPage(s))
  BY <1>0, <1>8, ConvertPageGood DEF Receive
<1>9. CASE Receive(SegmentFocusLeft(s))
  BY <1>0, <1>9, SegmentsGood DEF Receive
<1>10. CASE Receive(SegmentFocusRight(s))
  BY <1>0, <1>10, SegmentsGood DEF Receive
<1>11. CASE Receive(SegmentFocusLeftEdge(s))
  BY <1>0, <1>11, SegmentsGood DEF Receive
<1>12. CASE Receive(SegmentFocusLast(s))
  BY <1>0, <1>12, SegmentsGood DEF Receive
<1>13. CASE Receive(SegmentWidthExpand(s))
  BY <1>0, <1>13, SegmentsGood DEF Receive
<1>14. CASE Receive(SegmentWidthShrink(s))
  BY <1>0, <1>14, SegmentsGood DEF Receive
<1>15. CASE Receive(ConvertCancel(s))
  BY <1>0, <1>15, ConvertCancelGood DEF Receive
<1>16. CASE Receive(DeleteCandidateFromHistory(s))
  BY <1>0, <1>16, DeleteCandidateFromHistoryGood DEF Receive
<1> QED
  BY <1>1, <1>2, <1>3, <1>4, <1>5, <1>6, <1>7, <1>8, <1>9, <1>10, <1>11, <1>12,
     <1>13, <1>14, <1>15, <1>16 DEF SendKeyConversionState

\* The session commands.
LEMMA SendCommandGood ==
  ASSUME Good(session), session.context.converter.failed = "no", SendCommand
  PROVE  \E t : Good(t) /\ session' = Finish(t)
<1>1. CASE Command(InputMode)
  <2>1. PICK t \in InputMode(session) : session' = Finish(t)
    BY <1>1 DEF Command, Receive
  <2> QED
    BY <2>1, InputModeGood
<1>2. CASE Command(DoNothing)
  <2>1. PICK t \in DoNothing(session) : session' = Finish(t)
    BY <1>2 DEF Command, Receive
  <2> QED
    BY <2>1, DoNothingGood
<1>3. CASE Command(Revert)
  <2>1. PICK t \in Revert(session) : session' = Finish(t)
    BY <1>3 DEF Command, Receive
  <2> QED
    BY <2>1, RevertGood
<1>4. CASE Command(Commit)
  <2>1. PICK t \in Commit(session) : session' = Finish(t)
    BY <1>4 DEF Command, Receive
  <2> QED
    BY <2>1, CommitGood
<1>5. CASE Command(SelectCandidate)
  <2>1. PICK t \in SelectCandidate(session) : session' = Finish(t)
    BY <1>5 DEF Command, Receive
  <2> QED
    BY <2>1, SelectCandidateGood
<1>6. CASE Command(CommitCandidate)
  <2>1. PICK t \in CommitCandidate(session) : session' = Finish(t)
    BY <1>6 DEF Command, Receive
  <2> QED
    BY <2>1, CommitCandidateGood
<1>7. CASE Command(ConvertReverse)
  <2>1. PICK t \in ConvertReverse(session) : session' = Finish(t)
    BY <1>7 DEF Command, Receive
  <2> QED
    BY <2>1, ConvertReverseGood
<1>8. CASE Command(Undo)
  <2>1. PICK t \in Undo(session) : session' = Finish(t)
    BY <1>8 DEF Command, Receive
  <2> QED
    BY <2>1, UndoGood
<1>9. CASE Command(ResetContext)
  <2>1. PICK t \in ResetContext(session) : session' = Finish(t)
    BY <1>9 DEF Command, Receive
  <2> QED
    BY <2>1, ResetContextGood
<1>10. CASE Command(MoveCursorTo)
  <2>1. PICK t \in MoveCursorTo(session) : session' = Finish(t)
    BY <1>10 DEF Command, Receive
  <2> QED
    BY <2>1, MoveCursorToGood
<1>11. CASE Command(UndoOrRewind)
  <2>1. PICK t \in UndoOrRewind(session) : session' = Finish(t)
    BY <1>11 DEF Command, Receive
  <2> QED
    BY <2>1, UndoGood
<1>12. CASE Command(CommitRawText)
  <2>1. PICK t \in CommitRawText(session) : session' = Finish(t)
    BY <1>12 DEF Command, Receive
  <2> QED
    BY <2>1, CommitDirectlyGood
<1>13. CASE Command(ConvertPage)
  <2>1. PICK t \in ConvertPage(session) : session' = Finish(t)
    BY <1>13 DEF Command, Receive
  <2> QED
    BY <2>1, ConvertPageGood
<1>14. CASE Command(MakeSureIMEOn)
  <2>1. PICK t \in MakeSureIMEOn(session) : session' = Finish(t)
    BY <1>14 DEF Command, Receive
  <2> QED
    BY <2>1, MakeSureGood
<1>15. CASE Command(MakeSureIMEOff)
  <2>1. PICK t \in MakeSureIMEOff(session) : session' = Finish(t)
    BY <1>15 DEF Command, Receive
  <2> QED
    BY <2>1, MakeSureGood
<1>16. CASE Command(DeleteCandidateFromHistory)
  <2>1. PICK t \in DeleteCandidateFromHistory(session) : session' = Finish(t)
    BY <1>16 DEF Command, Receive
  <2> QED
    BY <2>1, DeleteCandidateFromHistoryGood
<1>17. CASE Command(StopKeyToggling)
  <2>1. PICK t \in StopKeyToggling(session) : session' = Finish(t)
    BY <1>17 DEF Command, Receive
  <2> QED
    BY <2>1, StopKeyTogglingGood
<1>18. CASE Command(UpdateComposition)
  <2>1. PICK t \in UpdateComposition(session) : session' = Finish(t)
    BY <1>18 DEF Command, Receive
  <2> QED
    BY <2>1, UpdateCompositionGood
<1>19. CASE SwitchInputFieldType
  <2>0. PICK f \in Fields : Receive(Output([ session EXCEPT !.context.field = f ]))
    BY <1>19 DEF SwitchInputFieldType
  <2>1. PICK t \in Output([ session EXCEPT !.context.field = f ]) :
          session' = Finish(t)
    BY <2>0 DEF Receive
  <2> DEFINE x == [ session EXCEPT !.context.field = f ]
  <2>2. Sound(session)
    BY DEF Good
  <2>3. /\ Sound(x) /\ x.context.state = session.context.state
        /\ x.context.length = session.context.length
        /\ x.context.converter = session.context.converter
        /\ x.context.source_text = session.context.source_text
    BY <2>2, SetField
  <2> HIDE DEF x
  <2>4. Good(x)
    BY <2>3 DEF Good, Agree, Off, Empty
  <2> QED
    BY <2>1, <2>4, OutputGood DEF x
<1> QED
  BY <1>1, <1>2, <1>3, <1>4, <1>5, <1>6, <1>7, <1>8, <1>9, <1>10, <1>11, <1>12,
     <1>13, <1>14, <1>15, <1>16, <1>17, <1>18, <1>19 DEF SendCommand

\* A key, after it may have turned the session on or off.
LEMMA SendKeyGood ==
  ASSUME Good(session), session.context.converter.failed = "no", SendKey
  PROVE  \E t : Good(t) /\ session' = Finish(t)
<1>1. PICK s \in UNION { HandleIndirectImeOnOff(session, a) : a \in Activated } :
        \/ Converter(s).failed # "no" /\ Receive({s})
        \/ Converter(s).failed = "no" /\
             \/ State(s) = "DIRECT" /\ SendKeyDirectInputState(s)
             \/ State(s) = "PRECOMPOSITION" /\ SendKeyPrecompositionState(s)
             \/ State(s) = "COMPOSITION" /\ SendKeyCompositionState(s)
             \/ State(s) = "CONVERSION" /\ SendKeyConversionState(s)
  BY DEF SendKey
<1>2. Good(s)
  BY HandleIndirectGood
<1>3. CASE Receive({s})
  BY <1>2, <1>3 DEF Receive
<1>4. CASE /\ Converter(s).failed = "no" /\ State(s) = "DIRECT"
           /\ SendKeyDirectInputState(s)
  BY <1>2, <1>4, SendKeyDirectGood DEF State
<1>5. CASE /\ Converter(s).failed = "no" /\ State(s) = "PRECOMPOSITION"
           /\ SendKeyPrecompositionState(s)
  BY <1>2, <1>5, SendKeyPrecompositionGood DEF State
<1>6. CASE /\ Converter(s).failed = "no" /\ State(s) = "COMPOSITION"
           /\ SendKeyCompositionState(s)
  BY <1>2, <1>6, SendKeyCompositionGood DEF State
<1>7. CASE /\ Converter(s).failed = "no" /\ State(s) = "CONVERSION"
           /\ SendKeyConversionState(s)
  BY <1>2, <1>7, SendKeyConversionGood DEF State
<1> QED
  BY <1>1, <1>3, <1>4, <1>5, <1>6, <1>7

---------------------------------------------------------------------------
(***************************************************************************)
(* The invariant and the theorems.                                         *)
(***************************************************************************)
\* A new session is good.
LEMMA InitGood == Init => IInv
<1> SUFFICES ASSUME Init PROVE Good(session)
  BY DEF IInv
<1> DEFINE none == {}
           zero == 0
           no == FALSE
           c == SC!NewConverter
           x == NewContext
           e == <<>>
<1>1. /\ none \in SUBSET Nat /\ IsFiniteSet(none)
  BY FS_EmptySet
<1>2. zero \in Int /\ zero \in Nat /\ zero >= 0
  OBVIOUS
<1>3. no \in BOOLEAN
  OBVIOUS
<1>4. c = [ state |-> "COMPOSITION", ends |-> none, segment_index |-> zero,
            selected |-> zero, previous |-> no, result |-> zero, failed |-> "no" ]
  BY DEF SC!NewConverter
<1>5. x = [ state |-> "PRECOMPOSITION", length |-> zero, source_text |-> zero,
            field |-> "NORMAL", converter |-> c, output |-> zero, owed |-> zero ]
  BY DEF NewContext
<1>6. session = [ context |-> x, undo_contexts |-> e, output |-> zero ]
  BY DEF Init
<1>7. e \in Seq(Context)
  OBVIOUS
<1>8. Len(e) = 0
  OBVIOUS
<1> HIDE DEF none, zero, no, c, x, e
<1>9. c \in ConverterRecord
  BY <1>1, <1>2, <1>3, <1>4 DEF ConverterRecord, SC!ConverterState
<1>10. /\ c.state = "COMPOSITION" /\ c.ends = none /\ c.segment_index = zero
       /\ c.failed = "no"
  BY <1>4
<1>11. Idle(c)
  BY <1>1, <1>2, <1>9, <1>10 DEF Idle
<1>12. x \in Context
  BY <1>2, <1>5, <1>9 DEF Context, States, Fields
<1>13. x.converter = c /\ x.state = "PRECOMPOSITION"
  BY <1>5
<1>14. session \in SessionRecord
  BY <1>2, <1>6, <1>7, <1>12 DEF SessionRecord
<1>15. session.context = x /\ session.undo_contexts = e
  BY <1>6
<1>16. GoodConverter(x.converter, x.length)
  BY <1>11, <1>13, IdleIsGood
<1>17. GoodUndo(session)
  BY <1>7, <1>8, <1>15 DEF GoodUndo
<1>18. Sound(session)
  BY <1>14, <1>15, <1>16, <1>17 DEF Sound, SessionRecord
<1> QED
  BY <1>10, <1>13, <1>15, <1>18 DEF Good, Agree, Off

\* Every request leaves the session good.
LEMMA NextGood == IInv /\ [Next]_session => IInv'
<1> SUFFICES ASSUME Good(session), [Next]_session PROVE Good(session')
  BY DEF IInv
<1>1. CASE UNCHANGED session
  BY <1>1
<1>2. CASE Next
  <2>1. session.context.converter.failed = "no"
    BY <1>2 DEF Next, SendTestKey, SendKey, SendCommand, SetConfig, Command,
                SwitchInputFieldType, Receive, Converter, SendKeyDirectInputState,
                SendKeyPrecompositionState, SendKeyCompositionState,
                SendKeyConversionState, SendKeyActive
  <2>2. CASE SendTestKey
    <3>1. PICK t \in UNION { TestSendKey(session, a) : a \in Activated } :
            session' = Finish(t)
      BY <2>2 DEF SendTestKey, Receive
    <3>2. PICK a \in Activated : t \in TestSendKey(session, a)
      BY <3>1
    <3> QED
      BY <2>1, <3>1, <3>2, TestSendKeyGood, FinishGood
  <2>3. CASE SendKey
    BY <2>1, <2>3, SendKeyGood, FinishGood
  <2>4. CASE SendCommand
    BY <2>1, <2>4, SendCommandGood, FinishGood
  <2>5. CASE SetConfig
    <3>1. session' = Finish(ClearUndoContext(session))
      BY <2>5 DEF SetConfig, Receive
    <3> QED
      BY <3>1, ClearUndoGood, FinishGood
  <2> QED
    BY <1>2, <2>2, <2>3, <2>4, <2>5 DEF Next
<1> QED
  BY <1>1, <1>2

\* The inductive invariant holds in every reachable state.
LEMMA Invariance == Spec => []IInv
BY InitGood, NextGood, PTL DEF Spec

\* The contexts of a good session are good.
LEMMA GoodContexts ==
  ASSUME IInv, NEW x \in Contexts
  PROVE  /\ Agree(x) /\ GoodConverter(x.converter, x.length)
         /\ x.length \in Nat /\ x.state \in States
<1>1. Good(session) /\ Sound(session)
  BY DEF IInv, Good
<1>2. CASE x = session.context
  BY <1>1, <1>2, AnySession DEF Good
<1>3. CASE x # session.context
  <2>1. x \in ToSet(session.undo_contexts)
    BY <1>3 DEF Contexts
  <2>2. session.undo_contexts \in Seq(Context)
    BY <1>1, SoundFields
  <2>3. PICK i \in 1..Len(session.undo_contexts) : x = session.undo_contexts[i]
    BY <2>1, <2>2 DEF ToSet
  <2>4. GoodContext(x)
    BY <1>1, <2>3 DEF Sound, GoodUndo
  <2>5. x \in Context
    BY <2>4 DEF GoodContext
  <2> QED
    BY <2>4, <2>5 DEF GoodContext, Context
<1> QED
  BY <1>2, <1>3

\* The keymap a key is looked up in and the converter that handles it agree, in
\* every context the session is in or may come back to.
THEOREM SessionAgreement == Spec => []Agreement
<1>1. IInv => Agreement
  BY GoodContexts DEF Agreement, Agree
<1> QED
  BY <1>1, Invariance, PTL

\* The segments cover the preedit, for every length and every order of resizes,
\* joins and partial commits.
THEOREM SegmentsCover == Spec => []SegmentsCoverComposition
<1>1. IInv => SegmentsCoverComposition
  <2> SUFFICES ASSUME IInv, NEW x \in Contexts, x.converter.state = "CONVERSION",
                      x.converter.failed = "no"
               PROVE  /\ x.state = "CONVERSION"
                      /\ Max(x.converter.ends) = x.length
                      /\ x.converter.segment_index < Cardinality(x.converter.ends)
                      /\ Cardinality(x.converter.ends) <= x.converter.selected
    BY DEF SegmentsCoverComposition
  <2>1. /\ Agree(x) /\ GoodConverter(x.converter, x.length)
        /\ x.length \in Nat
    BY GoodContexts
  <2>2. x.state = "CONVERSION"
    BY <2>1 DEF Agree
  <2>3. /\ x.converter.ends \in SC!Segmentations(x.length)
        /\ x.converter.segment_index < Cardinality(x.converter.ends)
        /\ Cardinality(x.converter.ends) <= x.converter.selected
    BY <2>1 DEF GoodConverter
  <2>4. SC!Max(x.converter.ends) = x.length
    BY <2>1, <2>3, SegmentationProperties
  <2>5. SC!Max(x.converter.ends) = Max(x.converter.ends)
    BY DEF SC!Max, Max
  <2> QED
    BY <2>2, <2>3, <2>4, <2>5
<1> QED
  BY <1>1, Invariance, PTL

\* The CHECK_LE of CommitUsageStatsWithSegmentsSize never aborts the server.
THEOREM CheckNeverFails == Spec => []CheckHolds
<1>1. IInv => CheckHolds
  BY DEF IInv, Good, Sound, GoodConverter, CheckHolds, Converter
<1> QED
  BY <1>1, Invariance, PTL

\* A session that was turned off has no candidates, and no text but the reading
\* of a reverse conversion that could not be started.
THEOREM TurnedOffIsQuiet == Spec => []OffIsQuiet
<1>1. IInv => OffIsQuiet
  BY DEF IInv, Good, Off, Empty, OffIsQuiet, State, Converter
<1> QED
  BY <1>1, Invariance, PTL

=============================================================================
