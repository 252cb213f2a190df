--------------------------- MODULE ComposerProofs ---------------------------
(***************************************************************************)
(* Theorems about Composer, for every table of rules, keyboard, mode       *)
(* switching and limit on the loops.  Bottom up: strings, one chunk, lists *)
(* of chunks, the composition, the composer.                               *)
(***************************************************************************)
EXTENDS Composer, SequenceTheorems, FiniteSetTheorems, WellFoundedInduction, TLAPS

\* A set of natural numbers that is not empty has a least one.
LEMMA LeastNumber ==
  ASSUME NEW T, T \subseteq Nat, T # {}
  PROVE  \E k \in T : \A j \in T : k <= j
<1>1. PICK k \in T : \A j \in T : ~ (<<j, k>> \in OpToRel(<, Nat))
  BY NatLessThanWellFounded, WFMin
<1>2. \A j \in T : ~ (j < k)
  BY <1>1 DEF OpToRel
<1> QED BY <1>2

\* What holds of the rounds of a loop up to one holds of the next.
LEMMA RoundInduction ==
  ASSUME NEW n \in Nat, NEW B, 0 \in B, \A i \in 1..n : i - 1 \in B => i \in B
  PROVE  \A i \in 0..n : i \in B
<1> DEFINE T == { i \in 0..n : i \notin B }
<1>1. T = {}
  <2> SUFFICES ASSUME T # {} PROVE FALSE
    OBVIOUS
  <2>1. T \subseteq Nat
    OBVIOUS
  <2>2. PICK k \in T : \A j \in T : k <= j
    <3> HIDE DEF T
    <3> QED BY <2>1, LeastNumber
  <2>3. k \in 1..n /\ k - 1 \in 0..n /\ ~ (k <= k - 1)
    OBVIOUS
  <2>4. k - 1 \in B
    BY <2>2, <2>3
  <2> QED BY <2>3, <2>4
<1> QED BY <1>1

-----------------------------------------------------------------------------
(***************************************************************************)
(* Strings: sequences of any characters.                                   *)
(***************************************************************************)

IsString(s) == \E S : s \in Seq(S)

LEMMA StringFacts ==
  ASSUME NEW s, IsString(s)
  PROVE  /\ Len(s) \in Nat /\ DOMAIN s = 1..Len(s)
         /\ s # << >> => Len(s) # 0
         /\ s = << >> => Len(s) = 0
BY DEF IsString

\* What the assumptions on the constants call a sequence is a string.
LEMMA MappedString ==
  ASSUME NEW n \in Nat, NEW f, f = [ i \in 1..n |-> f[i] ]
  PROVE  IsString(f) /\ Len(f) = n
<1> DEFINE S == { f[i] : i \in 1..n }
<1>1. f \in [ 1..n -> S ]
  OBVIOUS
<1>2. f \in Seq(S) /\ Len(f) = n
  BY <1>1
<1> HIDE DEF S
<1> QED BY <1>2 DEF IsString

LEMMA SequenceString ==
  ASSUME NEW s, IsSequence(s)
  PROVE  IsString(s)
BY MappedString DEF IsSequence

LEMMA EmptyString == IsString(<< >>)
<1> DEFINE S == {}
<1>1. << >> \in Seq(S)
  OBVIOUS
<1> HIDE DEF S
<1> QED BY <1>1 DEF IsString

LEMMA OneString ==
  ASSUME NEW e
  PROVE  IsString(<< e >>) /\ Len(<< e >>) = 1
<1> DEFINE S == {e}
           s == << e >>
<1>1. s \in Seq(S) /\ Len(s) = 1
  OBVIOUS
<1> HIDE DEF S, s
<1>2. IsString(s) /\ Len(s) = 1
  BY <1>1 DEF IsString
<1> QED BY <1>2 DEF s

LEMMA ConcatString ==
  ASSUME NEW s, NEW t, IsString(s), IsString(t)
  PROVE  IsString(s \o t) /\ Len(s \o t) = Len(s) + Len(t)
<1>1. PICK S : s \in Seq(S)
  BY DEF IsString
<1>2. PICK U : t \in Seq(U)
  BY DEF IsString
<1> DEFINE V == S \cup U
<1>3. s \in Seq(V) /\ t \in Seq(V)
  BY <1>1, <1>2, SeqMonotonic
<1> HIDE DEF V
<1>4. s \o t \in Seq(V) /\ Len(s \o t) = Len(s) + Len(t)
  BY <1>3, ConcatProperties
<1> QED BY <1>4 DEF IsString

LEMMA AppendString ==
  ASSUME NEW s, NEW e, IsString(s)
  PROVE  IsString(Append(s, e))
<1>1. PICK S : s \in Seq(S)
  BY DEF IsString
<1> DEFINE V == S \cup {e}
<1>2. s \in Seq(V) /\ e \in V
  BY <1>1, SeqMonotonic
<1> HIDE DEF V
<1>3. Append(s, e) \in Seq(V)
  BY <1>2, AppendProperties
<1> QED BY <1>3 DEF IsString

LEMMA SubString ==
  ASSUME NEW s, NEW m \in Int, NEW n \in Int
  PROVE  IsString(SubSeq(s, m, n))
<1> DEFINE S == { s[i] : i \in m..n }
<1>1. \A i \in m..n : s[i] \in S
  OBVIOUS
<1> HIDE DEF S
<1>2. SubSeq(s, m, n) \in Seq(S)
  BY <1>1, SubSeqProperties
<1> QED BY <1>2 DEF IsString

LEMMA TailString ==
  ASSUME NEW s, IsString(s), s # << >>
  PROVE  IsString(Tail(s))
<1>1. PICK S : s \in Seq(S)
  BY DEF IsString
<1>2. Tail(s) \in Seq(S)
  BY <1>1, HeadTailProperties
<1> QED BY <1>2 DEF IsString

\* A sequence of strings, put together: its length is the last of the ends.
LEMMA FlattenString ==
  ASSUME NEW n \in Nat, NEW f, f = [ i \in 1..n |-> f[i] ], \A i \in 1..n : IsString(f[i])
  PROVE  /\ IsString(FlattenSeq(f))
         /\ \A ends : /\ ends[0] = 0
                      /\ \A i \in 1..n : ends[i] = ends[i - 1] + Len(f[i])
                      => Len(FlattenSeq(f)) = ends[n]
<1>1. IsString(f) /\ Len(f) = n
  BY MappedString
<1>2. CASE n = 0
  <2>1. FlattenSeq(f) = f
    BY <1>1, <1>2 DEF FlattenSeq
  <2> QED BY <1>1, <1>2, <2>1
<1>3. CASE n # 0
  <2> DEFINE Is(h, k) == h = [ i \in 1..k |-> IF i = 1 THEN f[i] ELSE h[i - 1] \o f[i] ]
             flat == CHOOSE h : Is(h, n)
             N == n - 1
  <2>1. FlattenSeq(f) = flat[n]
    BY <1>1, <1>3 DEF FlattenSeq
  <2>2. N \in Nat /\ 0 \in 0..N /\ N \in 0..N /\ N + 1 = n
    BY <1>3
  <2> HIDE DEF N
  <2>3. Is(flat, n)
    <3> DEFINE B == { k \in 0..N : \E h : Is(h, k + 1) }
    <3>1. 0 \in B
      <4>1. Is([ i \in 1..0 + 1 |-> f[1] ], 0 + 1)
        OBVIOUS
      <4> HIDE DEF Is
      <4> QED BY <4>1, <2>2
    <3>2. ASSUME NEW k \in 1..N, k - 1 \in B PROVE k \in B
      <4>1. PICK g : Is(g, (k - 1) + 1)
        BY <3>2
      <4>2. (k - 1) + 1 = k /\ k \in 0..N /\ k \in Nat /\ k # 0
        BY <2>2
      <4> DEFINE h == [ i \in 1..k + 1 |-> IF i = k + 1 THEN g[k] \o f[k + 1] ELSE g[i] ]
      <4>3. Is(g, k)
        BY <4>1, <4>2
      <4>4. ASSUME NEW i \in 1..k + 1
            PROVE  h[i] = IF i = 1 THEN f[i] ELSE h[i - 1] \o f[i]
        <5>1. CASE i = k + 1
          <6>1. k \in 1..k + 1 /\ i # 1 /\ i - 1 = k /\ k # k + 1
            BY <4>2, <5>1
          <6> DEFINE x == g[k] \o f[k + 1]
          <6> HIDE DEF x
          <6>2. h[i] = x /\ h[k] = g[k]
            BY <5>1, <6>1 DEF x
          <6> HIDE DEF h
          <6> QED BY <5>1, <6>1, <6>2 DEF x
        <5>2. CASE i # k + 1
          <6>1. i \in 1..k /\ h[i] = g[i]
            BY <4>2, <5>2
          <6>2. g[i] = IF i = 1 THEN f[i] ELSE g[i - 1] \o f[i]
            BY <4>3, <6>1
          <6>3. i # 1 => i - 1 \in 1..k + 1 /\ i - 1 # k + 1
            BY <4>2, <6>1
          <6>4. i # 1 => h[i - 1] = g[i - 1]
            BY <6>3
          <6> HIDE DEF h
          <6> QED BY <6>1, <6>2, <6>4
        <5> QED BY <5>1, <5>2
      <4>5. Is(h, k + 1)
        BY <4>4
      <4> HIDE DEF Is
      <4> QED BY <4>2, <4>5
    <3>3. N \in B
      <4> HIDE DEF B
      <4> QED BY <3>1, <3>2, <2>2, RoundInduction
    <3>4. PICK h : Is(h, N + 1)
      BY <3>3
    <3> HIDE DEF Is
    <3> QED BY <3>4, <2>2
  <2> HIDE DEF flat
  <2>4. ASSUME NEW k \in 1..N PROVE flat[k + 1] = flat[k] \o f[k + 1]
    <3>1. k + 1 \in 1..n /\ k + 1 # 1 /\ (k + 1) - 1 = k
      BY <2>2
    <3>2. \A i \in 1..n : flat[i] = IF i = 1 THEN f[i] ELSE flat[i - 1] \o f[i]
      BY <2>3
    <3> QED BY <3>1, <3>2
  <2>5. flat[1] = f[1]
    BY <1>3, <2>3
  <2>6. IsString(flat[n])
    <3> DEFINE B == { k \in 0..N : IsString(flat[k + 1]) }
    <3>1. 0 \in B
      BY <1>3, <2>2, <2>5
    <3>2. ASSUME NEW k \in 1..N, k - 1 \in B PROVE k \in B
      <4>1. (k - 1) + 1 = k /\ k \in 0..N /\ k + 1 \in 1..n
        BY <2>2
      <4>2. IsString(flat[k]) /\ IsString(f[k + 1])
        BY <3>2, <4>1
      <4> QED BY <2>4, <4>1, <4>2, ConcatString
    <3>3. N \in B
      <4> HIDE DEF B
      <4> QED BY <3>1, <3>2, <2>2, RoundInduction
    <3> QED BY <3>3, <2>2
  <2>7. ASSUME NEW ends, ends[0] = 0, \A i \in 1..n : ends[i] = ends[i - 1] + Len(f[i])
        PROVE  Len(flat[n]) = ends[n]
    <3> DEFINE B == { k \in 0..N : IsString(flat[k + 1]) /\ Len(flat[k + 1]) = ends[k + 1] }
    <3>1. 0 \in B
      <4>1. 1 \in 1..n /\ IsString(f[1]) /\ Len(f[1]) \in Nat
        BY <1>3, StringFacts
      <4>2. ends[1] = ends[1 - 1] + Len(f[1])
        BY <2>7, <4>1
      <4>3. ends[1] = Len(f[1])
        BY <2>7, <4>1, <4>2
      <4> QED BY <2>2, <2>5, <4>1, <4>3
    <3>2. ASSUME NEW k \in 1..N, k - 1 \in B PROVE k \in B
      <4>1. (k - 1) + 1 = k /\ k \in 0..N /\ k + 1 \in 1..n /\ (k + 1) - 1 = k
        BY <2>2
      <4>2. IsString(flat[k]) /\ IsString(f[k + 1]) /\ Len(flat[k]) = ends[k]
        BY <3>2, <4>1
      <4>3. IsString(flat[k] \o f[k + 1])
            /\ Len(flat[k] \o f[k + 1]) = Len(flat[k]) + Len(f[k + 1])
        BY <4>2, ConcatString
      <4>4. ends[k + 1] = ends[k] + Len(f[k + 1])
        BY <2>7, <4>1
      <4> QED BY <2>4, <4>1, <4>2, <4>3, <4>4
    <3>3. N \in B
      <4> HIDE DEF B
      <4> QED BY <3>1, <3>2, <2>2, RoundInduction
    <3> QED BY <3>3, <2>2
  <2> QED BY <2>1, <2>6, <2>7
<1> QED BY <1>2, <1>3

LEMMA FlattenedString ==
  ASSUME NEW n \in Nat, NEW f, f = [ i \in 1..n |-> f[i] ], \A i \in 1..n : IsString(f[i])
  PROVE  IsString(FlattenSeq(f))
BY FlattenString

-----------------------------------------------------------------------------
(***************************************************************************)
(* The operators on strings.                                               *)
(***************************************************************************)

LEMMA DeleteSpecialKeysString ==
  ASSUME NEW s, IsString(s)
  PROVE  IsString(DeleteSpecialKeys(s))
<1> DEFINE n == Len(s)
           f == [ i \in 1..n |-> IF s[i][1] = "special" THEN << >> ELSE << s[i] >> ]
<1>1. n \in Nat /\ DOMAIN s = 1..n
  BY StringFacts
<1>2. DeleteSpecialKeys(s) = FlattenSeq(f)
  BY <1>1 DEF DeleteSpecialKeys
<1>3. \A i \in 1..n : IsString(f[i])
  <2> TAKE i \in 1..n
  <2>1. f[i] = << >> \/ f[i] = << s[i] >>
    OBVIOUS
  <2> QED BY <2>1, EmptyString, OneString
<1>4. f = [ i \in 1..n |-> f[i] ]
  OBVIOUS
<1> HIDE DEF f, n
<1> QED BY <1>1, <1>2, <1>3, <1>4, FlattenedString

LEMMA KatakanaString ==
  ASSUME NEW s, IsString(s)
  PROVE  IsString(Katakana(s))
<1> DEFINE n == Len(s)
           f == Katakana(s)
<1>1. n \in Nat /\ DOMAIN s = 1..n
  BY StringFacts
<1>2. f = [ i \in 1..n |-> f[i] ]
  BY <1>1 DEF Katakana
<1> HIDE DEF f, n
<1>3. IsString(f)
  BY <1>1, <1>2, MappedString
<1> QED BY <1>3 DEF f

LEMMA HalfKatakanaString ==
  ASSUME NEW s, IsString(s)
  PROVE  IsString(HalfKatakana(s))
<1> DEFINE n == Len(s)
           One(i) == << "half", s[i][2] >>
           Two(i) == << "half", Voiced[s[i][2]] >>
           Mark == << "half", "voiced" >>
           f == [ i \in 1..n |->
                  IF s[i][1] # "kana" THEN << s[i] >>
                  ELSE IF s[i][2] \in DOMAIN Voiced THEN << Two(i), Mark >>
                  ELSE << One(i) >> ]
<1>1. n \in Nat /\ DOMAIN s = 1..n
  BY StringFacts
<1>2. HalfKatakana(s) = FlattenSeq(f)
  BY <1>1 DEF HalfKatakana
<1> HIDE DEF One, Two, Mark
<1>3. \A i \in 1..n : IsString(f[i])
  <2> TAKE i \in 1..n
  <2>1. IsString(<< Two(i), Mark >>)
    <3> DEFINE x == << Two(i) >>
               y == << Mark >>
    <3>1. << Two(i), Mark >> = << Two(i) >> \o << Mark >>
      OBVIOUS
    <3>2. IsString(x) /\ IsString(y)
      BY OneString
    <3>3. << Two(i), Mark >> = x \o y
      BY <3>1
    <3> HIDE DEF x, y
    <3> QED BY <3>2, <3>3, ConcatString
  <2>2. f[i] = << s[i] >> \/ f[i] = << Two(i), Mark >> \/ f[i] = << One(i) >>
    OBVIOUS
  <2> HIDE DEF f
  <2> QED BY <2>1, <2>2, OneString
<1>4. f = [ i \in 1..n |-> f[i] ]
  OBVIOUS
<1> HIDE DEF f, n
<1> QED BY <1>1, <1>2, <1>3, <1>4, FlattenedString

LEMMA HalfKatakanaToHiraganaString ==
  ASSUME NEW s, IsString(s)
  PROVE  IsString(HalfKatakanaToHiragana(s))
<1> DEFINE n == Len(s)
           joins(i) == /\ i < Len(s) /\ s[i + 1] = << "half", "voiced" >>
                       /\ s[i][1] = "half"
                       /\ \E v \in DOMAIN Voiced : Voiced[v] = s[i][2]
           With(i) == << "kana", CHOOSE v \in DOMAIN Voiced : Voiced[v] = s[i][2] >>
           Kana(i) == << "kana", s[i][2] >>
           f == [ i \in 1..n |->
                  IF i > 1 /\ joins(i - 1) THEN << >>
                  ELSE IF joins(i) THEN << With(i) >>
                  ELSE IF s[i][1] = "half" THEN << Kana(i) >>
                  ELSE << s[i] >> ]
<1>1. n \in Nat /\ DOMAIN s = 1..n
  BY StringFacts
<1>2. HalfKatakanaToHiragana(s) = FlattenSeq(f)
  BY <1>1 DEF HalfKatakanaToHiragana
<1> HIDE DEF joins, With, Kana
<1>3. \A i \in 1..n : IsString(f[i])
  <2> TAKE i \in 1..n
  <2>1. \/ f[i] = << >> \/ f[i] = << With(i) >> \/ f[i] = << Kana(i) >> \/ f[i] = << s[i] >>
    OBVIOUS
  <2> HIDE DEF f
  <2> QED BY <2>1, EmptyString, OneString
<1>4. f = [ i \in 1..n |-> f[i] ]
  OBVIOUS
<1> HIDE DEF f, n
<1> QED BY <1>1, <1>2, <1>3, <1>4, FlattenedString

LEMMA ShownString ==
  ASSUME NEW t12r, NEW raw, NEW converted, IsString(raw), IsString(converted)
  PROVE  IsString(Shown(t12r, raw, converted))
BY KatakanaString, HalfKatakanaString DEF Shown

\* Both parts of both strings.
LEMMA SplitPrimaryStringString ==
  ASSUME NEW position \in Int, NEW primary, NEW secondary,
         IsString(primary), IsString(secondary)
  PROVE  LET s == SplitPrimaryString(position, primary, secondary)
         IN  /\ IsString(s.lhs) /\ IsString(s.rhs)
             /\ IsString(s.other_lhs) /\ IsString(s.other_rhs)
<1> DEFINE lhs == SubSeq(primary, 1, position)
           rhs == SubSeq(primary, position + 1, Len(primary))
           other == SubSeq(secondary, 1, Len(secondary) - Len(rhs))
           s == SplitPrimaryString(position, primary, secondary)
<1>1. Len(primary) \in Nat /\ Len(secondary) \in Nat
  BY StringFacts
<1>2. IsString(lhs) /\ IsString(rhs)
  BY <1>1, SubString
<1>3. Len(secondary) - Len(rhs) \in Int
  BY <1>1, <1>2, StringFacts
<1>4. IsString(other)
  BY <1>3, SubString
<1>5. /\ s.lhs = lhs /\ s.rhs = rhs /\ s.other_rhs = rhs
      /\ s.other_lhs = IF IsSuffix(rhs, secondary) THEN other ELSE lhs
  BY DEF SplitPrimaryString
<1> HIDE DEF s, lhs, rhs, other
<1> QED BY <1>2, <1>4, <1>5 DEF s

LEMMA SplitString ==
  ASSUME NEW t12r, NEW position \in Int, NEW raw, NEW converted,
         IsString(raw), IsString(converted)
  PROVE  LET s == Split(t12r, position, raw, converted)
         IN  /\ IsString(s.raw_lhs) /\ IsString(s.raw_rhs)
             /\ IsString(s.converted_lhs) /\ IsString(s.converted_rhs)
<1> DEFINE back(x) == HalfKatakanaToHiragana(x)
           half == SplitPrimaryString(position, HalfKatakana(converted), raw)
           conv == SplitPrimaryString(position, converted, raw)
           ascii == SplitPrimaryString(position, raw, converted)
           A == [ raw_lhs |-> IF half.ok THEN half.other_lhs ELSE back(half.other_lhs),
                  raw_rhs |-> IF half.ok THEN half.other_rhs ELSE back(half.other_rhs),
                  converted_lhs |-> back(half.lhs), converted_rhs |-> back(half.rhs) ]
           B == [ raw_lhs |-> ascii.lhs, raw_rhs |-> ascii.rhs,
                  converted_lhs |-> ascii.other_lhs, converted_rhs |-> ascii.other_rhs ]
           C == [ raw_lhs |-> conv.other_lhs, raw_rhs |-> conv.other_rhs,
                  converted_lhs |-> conv.lhs, converted_rhs |-> conv.rhs ]
           OK(s) == /\ IsString(s.raw_lhs) /\ IsString(s.raw_rhs)
                    /\ IsString(s.converted_lhs) /\ IsString(s.converted_rhs)
           All(s) == /\ IsString(s.lhs) /\ IsString(s.rhs)
                     /\ IsString(s.other_lhs) /\ IsString(s.other_rhs)
<1>1. Split(t12r, position, raw, converted) \in {A, B, C}
  BY DEF Split
<1>2. All(half) /\ All(conv) /\ All(ascii)
  <2>1. IsString(HalfKatakana(converted))
    BY HalfKatakanaString
  <2> QED BY <2>1, SplitPrimaryStringString
<1> HIDE DEF half, conv, ascii
<1>3. OK(A)
  <2>1. /\ IsString(back(half.other_lhs)) /\ IsString(back(half.other_rhs))
        /\ IsString(back(half.lhs)) /\ IsString(back(half.rhs))
    BY <1>2, HalfKatakanaToHiraganaString
  <2> HIDE DEF back
  <2> QED BY <1>2, <2>1
<1>4. OK(B) /\ OK(C)
  BY <1>2
<1> HIDE DEF A, B, C
<1> QED BY <1>1, <1>3, <1>4

LEMMA BytesString ==
  ASSUME NEW s, NEW n, IsString(s)
  PROVE  IsString(FirstBytes(s, n)) /\ IsString(LastBytes(s, n))
<1> DEFINE K == { i \in DOMAIN s : Size(SubSeq(s, 1, i)) <= n }
           k == Cardinality(K)
<1>1. Len(s) \in Nat /\ DOMAIN s = 1..Len(s)
  BY StringFacts
<1>2. IsFiniteSet(1..Len(s)) /\ K \subseteq 1..Len(s)
  BY <1>1, FS_Interval
<1> HIDE DEF K
<1>3. k \in Nat
  BY <1>2, FS_Subset, FS_CardinalityType
<1> HIDE DEF k
<1>4. FirstBytes(s, n) = SubSeq(s, 1, k)
  BY DEF FirstBytes, K, k
<1>5. IsString(FirstBytes(s, n))
  <2>1. 1 \in Int /\ k \in Int
    BY <1>3
  <2> QED BY <2>1, <1>4, SubString
<1>6. Len(FirstBytes(s, n)) + 1 \in Int
  BY <1>5, StringFacts
<1> QED BY <1>1, <1>5, <1>6, SubString DEF LastBytes

\* Where the way of a key ends.
LEMMA LookUpPrefixLength ==
  ASSUME NEW input, IsString(input)
  PROVE  LET look == LookUpPrefix(input)
         IN  look.entries \subseteq Rules /\ look.key_length \in Nat
<1> DEFINE key == Lower(input)
           D == { n \in 1..Len(key) : SubSeq(key, 1, n) \in Nodes }
<1>1. IsString(key)
  <2>1. Len(input) \in Nat /\ DOMAIN input = 1..Len(input)
    BY StringFacts
  <2>2. key = [ i \in 1..Len(input) |-> key[i] ]
    BY <2>1 DEF Lower
  <2> HIDE DEF key
  <2> QED BY <2>1, <2>2, MappedString
<1> HIDE DEF key
<1>2. IsFiniteSet(1..Len(key)) /\ D \subseteq 1..Len(key)
  BY <1>1, StringFacts, FS_Interval
<1> HIDE DEF D
<1>3. Cardinality(D) \in Nat
  BY <1>2, FS_Subset, FS_CardinalityType
<1>4. LookUpPrefix(input).key_length = Cardinality(D)
  BY DEF LookUpPrefix, D, key
<1>5. LookUpPrefix(input).entries \subseteq Rules
  BY DEF LookUpPrefix
<1> QED BY <1>3, <1>4, <1>5

\* What an entry writes.
LEMMA EntryString ==
  ASSUME NEW look, look.entries \subseteq Rules, look.entries # {}
  PROVE  IsString(TheEntry(look).result) /\ IsString(TheEntry(look).pending)
<1>1. TheEntry(look) \in Rules
  BY DEF TheEntry
<1> QED BY <1>1, RulesAssumption, SequenceString

LEMMA TrimLeadingSpecialKeyString ==
  ASSUME NEW s, IsString(s)
  PROVE  IsString(TrimLeadingSpecialKey(s))
BY TailString DEF TrimLeadingSpecialKey

-----------------------------------------------------------------------------
(***************************************************************************)
(* One chunk.  T is the set of transliterators that occur.                 *)
(***************************************************************************)

Fields == {"raw", "conversion", "pending", "ambiguous", "transliterator",
           "attributes", "local_length_cache"}

\* A chunk, whatever its cached length.
Stale(c, T) ==
  /\ c = [ f \in Fields |-> c[f] ] /\ c.transliterator \in T
  /\ IsString(c.raw) /\ IsString(c.conversion) /\ IsString(c.pending)

\* A chunk that remembers no length, or that of what it shows.
Fresh(c, T) ==
  Stale(c, T) /\ c.local_length_cache \in {npos, Len(Result(c, "LOCAL"))}

\* A chunk that forgets its length is fresh, whatever changed before.
LEMMA ForgottenFresh ==
  ASSUME NEW T, NEW c, Stale(c, T)
  PROVE  Fresh(Forgotten(c), T) /\ Stale(Forgotten(c), T)
<1>1. Stale(Forgotten(c), T) /\ Forgotten(c).local_length_cache = npos
  BY DEF Stale, Fields, Forgotten
<1> QED BY <1>1 DEF Fresh

\* So is a new chunk.
LEMMA NewChunkFresh ==
  ASSUME NEW T, NEW t12r \in T
  PROVE  Fresh(NewChunk(t12r), T)
<1>1. Stale(NewChunk(t12r), T) /\ NewChunk(t12r).local_length_cache = npos
  BY EmptyString DEF Stale, Fields, NewChunk
<1> QED BY <1>1 DEF Fresh

\* The length of a fresh chunk is the one of what it shows, cached or not.
LEMMA LengthOfFresh ==
  ASSUME NEW T, NEW c, Fresh(c, T)
  PROVE  GetLength(c, "LOCAL") = Len(Result(c, "LOCAL"))
BY DEF Fresh, GetLength

\* What a chunk shows is a string, in every script.
LEMMA ResultString ==
  ASSUME NEW T, NEW c, NEW t12r, Stale(c, T)
  PROVE  IsString(Result(c, t12r))
<1>1. IsString(c.conversion \o c.pending) /\ IsString(c.raw)
  BY ConcatString DEF Stale
<1>2. IsString(DeleteSpecialKeys(c.raw)) /\ IsString(DeleteSpecialKeys(c.conversion \o c.pending))
  BY <1>1, DeleteSpecialKeysString
<1> QED BY <1>2, ShownString DEF Result, Transliterate

\* GetLength leaves the chunk fresh, and shows the same.
LEMMA MeasuredFresh ==
  ASSUME NEW T, NEW c, Fresh(c, T)
  PROVE  /\ Fresh(Measured(c), T)
         /\ \A t12r : Result(Measured(c), t12r) = Result(c, t12r)
<1> DEFINE n == Len(Result(c, "LOCAL"))
           d == Measured(c)
<1>1. d = [ c EXCEPT !.local_length_cache = n ]
  BY LengthOfFresh DEF Measured
<1> HIDE DEF n
<1>2. Stale(d, T) /\ d.local_length_cache = n
  BY <1>1 DEF Fresh, Stale, Fields
<1>3. /\ d.raw = c.raw /\ d.conversion = c.conversion /\ d.pending = c.pending
      /\ d.attributes = c.attributes /\ d.transliterator = c.transliterator
  BY <1>1 DEF Fresh, Stale, Fields
<1> HIDE DEF d
<1>4. \A t12r : Result(d, t12r) = Result(c, t12r)
  BY <1>3 DEF Result, Transliterate, GetTransliterator
<1> QED BY <1>2, <1>4 DEF Fresh, n, d

\* Combine.
LEMMA CombineFresh ==
  ASSUME NEW T, NEW c, NEW left, Fresh(c, T), Fresh(left, T)
  PROVE  Fresh(Combine(c, left), T)
<1> DEFINE d == Combine(c, left)
           raw == left.raw \o c.raw
           conversion == left.conversion \o c.conversion
           pending == left.pending \o c.pending
<1>1. IsString(raw) /\ IsString(conversion) /\ IsString(pending)
  BY ConcatString DEF Fresh, Stale
<1>2. d.raw = raw /\ d.conversion = conversion /\ d.pending = pending
  BY DEF Combine, Forgotten, Fresh, Stale, Fields
<1>3. /\ d = [ f \in Fields |-> d[f] ] /\ d.transliterator \in T
      /\ d.local_length_cache = npos
  BY DEF Combine, Forgotten, Fresh, Stale, Fields
<1> HIDE DEF d, raw, conversion, pending
<1>4. Fresh(d, T)
  BY <1>1, <1>2, <1>3 DEF Fresh, Stale
<1> QED BY <1>4 DEF d

\* SetTransliterator.
LEMMA SetTransliteratorFresh ==
  ASSUME NEW T, NEW c, NEW t12r \in T, Fresh(c, T)
  PROVE  Fresh(SetTransliterator(c, t12r), T)
<1>1. CASE t12r = "LOCAL"
  BY <1>1 DEF SetTransliterator
<1>2. CASE t12r # "LOCAL"
  <2> DEFINE d == SetTransliterator(c, t12r)
  <2>1. Stale(d, T) /\ d.local_length_cache = npos
    BY <1>2 DEF SetTransliterator, Forgotten, Fresh, Stale, Fields
  <2> QED BY <2>1 DEF Fresh
<1> QED BY <1>1, <1>2

\* SplitChunk: both parts.
LEMMA SplitChunkFresh ==
  ASSUME NEW T, NEW c, NEW position \in Int, Fresh(c, T)
  PROVE  \E left, right : /\ SplitChunk(c, position) = << left, right >>
                          /\ Fresh(left, T) /\ Fresh(right, T)
<1> DEFINE s == Split(GetTransliterator(c, "LOCAL"), position, DeleteSpecialKeys(c.raw),
                      DeleteSpecialKeys(c.conversion \o c.pending))
           right == [ Forgotten(c) EXCEPT !.raw = s.raw_rhs ]
           left  == [ NewChunk(c.transliterator) EXCEPT !.raw = s.raw_lhs ]
<1>1. SplitChunk(c, position) = CutInto(c, s)
  BY DEF SplitChunk
<1>0. /\ IsString(s.raw_lhs) /\ IsString(s.raw_rhs)
      /\ IsString(s.converted_lhs) /\ IsString(s.converted_rhs)
  <2>1. IsString(c.raw) /\ IsString(c.conversion \o c.pending)
    BY ConcatString DEF Fresh, Stale
  <2>2. IsString(DeleteSpecialKeys(c.raw)) /\ IsString(DeleteSpecialKeys(c.conversion \o c.pending))
    BY <2>1, DeleteSpecialKeysString
  <2> QED BY <2>2, SplitString
<1> HIDE DEF s
<1>2. Stale(right, T) /\ right.local_length_cache = npos
  BY <1>0 DEF Forgotten, Fresh, Stale, Fields
<1>3. Stale(left, T) /\ left.local_length_cache = npos
  <2>1. Stale(NewChunk(c.transliterator), T) /\ NewChunk(c.transliterator).local_length_cache = npos
    BY NewChunkFresh DEF Fresh, Stale, NewChunk
  <2> HIDE DEF NewChunk
  <2> QED BY <1>0, <2>1 DEF Stale, Fields
<1> DEFINE fits == Size(s.converted_rhs) - Size(c.pending)
           l1 == [ left EXCEPT !.conversion = c.conversion,
                               !.pending = LastBytes(s.converted_lhs, Size(c.conversion)) ]
           r1 == [ right EXCEPT !.conversion = << >>, !.pending = s.converted_rhs,
                                !.ambiguous = << >> ]
           l2 == [ left EXCEPT !.conversion = s.converted_lhs ]
           r2 == [ right EXCEPT !.conversion =
                     IF fits < 0 THEN s.converted_rhs ELSE FirstBytes(s.converted_rhs, fits) ]
<1>4. CutInto(c, s) = IF Size(s.converted_lhs) > Size(c.conversion)
                      THEN << l1, r1 >> ELSE << l2, r2 >>
  BY DEF CutInto
<1> HIDE DEF left, right, fits
<1>5. Fresh(l1, T) /\ Fresh(l2, T)
  <2> DEFINE last == LastBytes(s.converted_lhs, Size(c.conversion))
  <2>1. IsString(last) /\ IsString(c.conversion)
    BY <1>0, BytesString DEF Fresh, Stale
  <2> HIDE DEF last
  <2>2. /\ Stale([ left EXCEPT !.conversion = c.conversion, !.pending = last ], T)
        /\ [ left EXCEPT !.conversion = c.conversion, !.pending = last ].local_length_cache = npos
    BY <1>3, <2>1 DEF Stale, Fields
  <2>3. Stale(l2, T) /\ l2.local_length_cache = npos
    BY <1>0, <1>3 DEF Stale, Fields
  <2> QED BY <2>2, <2>3 DEF Fresh, last
<1>6. Fresh(r1, T) /\ Fresh(r2, T)
  <2> DEFINE some == IF fits < 0 THEN s.converted_rhs ELSE FirstBytes(s.converted_rhs, fits)
  <2>1. IsString(some)
    BY <1>0, BytesString
  <2> HIDE DEF some
  <2>2. Stale(r1, T) /\ r1.local_length_cache = npos
    BY <1>0, <1>2, EmptyString DEF Stale, Fields
  <2>3. /\ Stale([ right EXCEPT !.conversion = some ], T)
        /\ [ right EXCEPT !.conversion = some ].local_length_cache = npos
    BY <1>2, <2>1 DEF Stale, Fields
  <2> QED BY <2>2, <2>3 DEF Fresh, some
<1> HIDE DEF l1, l2, r1, r2
<1> QED BY <1>1, <1>4, <1>5, <1>6

-----------------------------------------------------------------------------
(***************************************************************************)
(* Adding input to a chunk.                                                *)
(***************************************************************************)

\* What an operator that adds input returns.
IsAdded(a, T) ==
  a = [ f \in {"chunk", "input", "loop"} |-> a[f] ] /\ Fresh(a.chunk, T)

LEMMA AddedFresh ==
  ASSUME NEW T, NEW c, NEW input, NEW loop, Stale(c, T)
  PROVE  IsAdded(Added(c, input, loop), T) /\ Added(c, input, loop).input = input
<1> DEFINE d == Forgotten(c)
<1>1. Fresh(d, T) /\ Added(c, input, loop) = [ chunk |-> d, input |-> input, loop |-> loop ]
  BY ForgottenFresh DEF Added
<1> HIDE DEF d
<1> QED BY <1>1 DEF IsAdded

LEMMA AddedString ==
  ASSUME NEW T, NEW a, NEW c, NEW input, NEW loop, a = Added(c, input, loop),
         Stale(c, T), IsString(input)
  PROVE  IsAdded(a, T) /\ IsString(a.input)
BY AddedFresh

\* The key leads to no entry.
LEMMA AddWithoutEntryFresh ==
  ASSUME NEW T, NEW c, NEW input, NEW length \in Nat, Fresh(c, T), IsString(input)
  PROVE  /\ IsAdded(AddWithoutEntry(c, input, length), T)
         /\ IsString(AddWithoutEntry(c, input, length).input)
<1> DEFINE a == AddWithoutEntry(c, input, length)
           trimmed == TrimLeadingSpecialKey(input)
           used == length - Len(c.pending)
           head == Head(input)
           raw == Append(c.raw, head)
           conversion == Append(c.conversion, head)
           raw2 == c.raw \o SubSeq(input, 1, used)
           pending2 == c.pending \o SubSeq(input, 1, used)
           x == [ c EXCEPT !.raw = raw, !.conversion = conversion ]
           y == [ c EXCEPT !.raw = raw2, !.pending = pending2, !.ambiguous = << >> ]
           rest == SubSeq(input, used + 1, Len(input))
           tail == Tail(input)
<1>1. \/ a = Added(c, trimmed, TRUE) \/ a = Added(c, input, FALSE)
      \/ input # << >> /\ a = Added(x, tail, FALSE)
      \/ a = Added(y, rest, FALSE)
  <2>1. /\ x = [ c EXCEPT !.raw = Append(@, Head(input)),
                          !.conversion = Append(@, Head(input)) ]
        /\ y = [ c EXCEPT !.raw = @ \o SubSeq(input, 1, used),
                          !.pending = @ \o SubSeq(input, 1, used),
                          !.ambiguous = << >> ]
    BY DEF Fresh, Stale, Fields
  <2> HIDE DEF x, y, trimmed, used
  <2> DEFINE again == Added(c, trimmed, TRUE)
             none == Added(c, input, FALSE)
             one == Added(x, tail, FALSE)
             some == Added(y, rest, FALSE)
             next == LookUpPrefix(input)
  <2>2. a = CASE length = 0 /\ trimmed # input -> again
              [] length = 0 /\ trimmed = input ->
                   IF c.pending = << >> /\ input # << >> THEN one ELSE none
              [] length > 0 /\ used = 0 ->
                   IF next.entries = {} /\ next.key_length = 0 /\ trimmed # input
                   THEN again ELSE none
              [] length > 0 /\ used < 0 -> none
              [] OTHER -> some
    BY <2>1 DEF AddWithoutEntry, trimmed, used
  <2> HIDE DEF a, again, none, one, some, next
  <2>3. a = again \/ a = none \/ (input # << >> /\ a = one) \/ a = some
    BY <2>2
  <2> QED BY <2>3 DEF again, none, one, some
<1>2. /\ IsString(c.raw) /\ IsString(c.conversion) /\ IsString(c.pending)
      /\ Len(c.pending) \in Nat /\ Len(input) \in Nat /\ Stale(c, T)
  BY StringFacts DEF Fresh, Stale
<1>3. used \in Int /\ used + 1 \in Int /\ 1 \in Int /\ Len(input) \in Int
  BY <1>2
<1> HIDE DEF used, a
<1>4. IsString(raw) /\ IsString(conversion)
  BY <1>2, AppendString
<1>5. IsString(SubSeq(input, 1, used)) /\ IsString(rest)
  BY <1>3, SubString
<1>6. IsString(raw2) /\ IsString(pending2)
  BY <1>2, <1>5, ConcatString
<1>7. IsString(trimmed) /\ (input # << >> => IsString(tail))
  BY TrimLeadingSpecialKeyString, TailString
<1> HIDE DEF raw, conversion, raw2, pending2, rest, tail, trimmed
<1>8. Stale(x, T) /\ Stale(y, T)
  BY <1>2, <1>4, <1>6 DEF Stale, Fields
<1> HIDE DEF x, y
<1>9. IsAdded(a, T) /\ IsString(a.input)
  <2>1. CASE a = Added(c, trimmed, TRUE)
    BY <2>1, <1>2, <1>7, AddedString
  <2>2. CASE a = Added(c, input, FALSE)
    BY <2>2, <1>2, AddedString
  <2>3. CASE input # << >> /\ a = Added(x, tail, FALSE)
    BY <2>3, <1>7, <1>8, AddedString
  <2>4. CASE a = Added(y, rest, FALSE)
    BY <2>4, <1>5, <1>8, AddedString
  <2> QED BY <1>1, <2>1, <2>2, <2>3, <2>4
<1> QED BY <1>9 DEF a

\* The key leads to an entry.
LEMMA AddWithEntryFresh ==
  ASSUME NEW T, NEW c, NEW input, NEW look, Fresh(c, T), IsString(input),
         look.key_length \in Nat, look.entries \subseteq Rules, look.entries # {}
  PROVE  /\ IsAdded(AddWithEntry(c, input, look), T)
         /\ IsString(AddWithEntry(c, input, look).input)
<1> DEFINE a     == AddWithEntry(c, input, look)
           key   == c.pending \o input
           entry == TheEntry(look)
           used  == look.key_length - Len(c.pending)
           rest  == SubSeq(input, used + 1, Len(input))
           first == /\ c.conversion = << >>
                    /\ c.raw = << >> \/ c.pending = << >> \/ c.raw = c.pending
           raw   == c.raw \o SubSeq(input, 1, used)
           attributes == IF first THEN entry.attributes ELSE c.attributes
           typed == [ c EXCEPT !.raw = raw, !.attributes = attributes ]
           conversion == c.conversion \o entry.result
           x == [ typed EXCEPT !.conversion = conversion,
                               !.pending = entry.pending, !.ambiguous = << >> ]
           y == [ typed EXCEPT !.pending = key, !.ambiguous = entry.result ]
           after == IF look.fixed \/ Len(key) > look.key_length THEN x ELSE y
           z == [ after EXCEPT !.raw = << >> ]
<1>1. \/ a = Added(z, rest, FALSE)
      \/ a = Added(after, rest, rest # << >> /\ after.pending # << >>)
  <2>1. typed = [ c EXCEPT !.raw = @ \o SubSeq(input, 1, used),
                           !.attributes = IF first THEN entry.attributes ELSE @ ]
    BY DEF Fresh, Stale, Fields
  <2>2. typed.conversion = c.conversion /\ typed = [ f \in Fields |-> typed[f] ]
    BY DEF Fresh, Stale, Fields
  <2> HIDE DEF typed, first, entry, used, key, rest
  <2>3. x = [ typed EXCEPT !.conversion = @ \o entry.result,
                           !.pending = entry.pending, !.ambiguous = << >> ]
    BY <2>2 DEF Fields
  <2> HIDE DEF x
  <2> QED BY <2>1, <2>3 DEF AddWithEntry, first, entry, used, key, rest
<1>2. /\ IsString(c.raw) /\ IsString(c.conversion) /\ IsString(c.pending)
      /\ Len(c.pending) \in Nat /\ Len(input) \in Nat
  BY StringFacts DEF Fresh, Stale
<1>3. used \in Int /\ used + 1 \in Int /\ 1 \in Int /\ Len(input) \in Int
  BY <1>2
<1>4. IsString(entry.result) /\ IsString(entry.pending)
  BY EntryString
<1> HIDE DEF used, a, entry, first
<1>5. IsString(SubSeq(input, 1, used)) /\ IsString(rest)
  BY <1>3, SubString
<1>6. IsString(raw) /\ IsString(conversion) /\ IsString(key)
  BY <1>2, <1>4, <1>5, ConcatString
<1> HIDE DEF raw, conversion, key, rest, attributes
<1>7. Stale(typed, T)
  BY <1>6 DEF Fresh, Stale, Fields
<1> HIDE DEF typed
<1>8. Stale(x, T) /\ Stale(y, T)
  BY <1>4, <1>6, <1>7 DEF Stale, Fields
<1> HIDE DEF x, y
<1>9. Stale(after, T)
  BY <1>8
<1> HIDE DEF after
<1>10. Stale(z, T)
  BY <1>9, EmptyString DEF Stale, Fields
<1> HIDE DEF z
<1>11. IsAdded(a, T) /\ IsString(a.input)
  <2> DEFINE more == rest # << >> /\ after.pending # << >>
  <2>1. CASE a = Added(z, rest, FALSE)
    BY <2>1, <1>5, <1>10, AddedString
  <2>2. CASE a = Added(after, rest, more)
    <3> HIDE DEF more
    <3> QED BY <2>2, <1>5, <1>9, AddedString
  <2> QED BY <1>1, <2>1, <2>2
<1> QED BY <1>11 DEF a

LEMMA AddInputInternalFresh ==
  ASSUME NEW T, NEW c, NEW input, Fresh(c, T), IsString(input)
  PROVE  /\ IsAdded(AddInputInternal(c, input), T)
         /\ IsString(AddInputInternal(c, input).input)
<1> DEFINE look == LookUpPrefix(c.pending \o input)
<1>1. IsString(c.pending \o input)
  BY ConcatString DEF Fresh, Stale
<1>2. look.entries \subseteq Rules /\ look.key_length \in Nat
  BY <1>1, LookUpPrefixLength
<1>3. AddInputInternal(c, input) = IF look.entries = {}
                                   THEN AddWithoutEntry(c, input, look.key_length)
                                   ELSE AddWithEntry(c, input, look)
  BY DEF AddInputInternal
<1> HIDE DEF look
<1> QED BY <1>2, <1>3, AddWithoutEntryFresh, AddWithEntryFresh

\* The loop of AddInput.
LEMMA AddInputFresh ==
  ASSUME NEW T, NEW a, IsAdded(a, T), IsString(a.input)
  PROVE  IsAdded(AddInput(a), T) /\ IsString(AddInput(a).input)
<1> DEFINE N == MaxRounds
           Step(b) == IF b.loop THEN AddInputInternal(b.chunk, b.input) ELSE b
           Is(h, k) == h = [ n \in 0..k |-> IF n = 0 THEN a ELSE Step(h[n - 1]) ]
           added == CHOOSE h : Is(h, N)
           OK(b) == IsAdded(b, T) /\ IsString(b.input)
<1>1. AddInput(a) = added[N]
  BY DEF AddInput
<1>2. ASSUME NEW b, OK(b) PROVE OK(Step(b))
  BY <1>2, AddInputInternalFresh DEF IsAdded
<1>3. N \in Nat /\ 0 \in 0..N /\ N \in 0..N /\ OK(a)
  BY RoundsAssumption
<1> HIDE DEF N, Step, OK
<1>4. Is(added, N)
  <2> DEFINE B == { k \in 0..N : \E h : Is(h, k) }
  <2>1. 0 \in B
    <3>1. Is([ n \in 0..0 |-> a ], 0)
      OBVIOUS
    <3> HIDE DEF Is
    <3> QED BY <3>1, <1>3
  <2>2. ASSUME NEW k \in 1..N, k - 1 \in B PROVE k \in B
    <3>1. PICK g : Is(g, k - 1)
      BY <2>2
    <3> DEFINE h == [ n \in 0..k |-> IF n = k THEN Step(g[k - 1]) ELSE g[n] ]
    <3>2. Is(h, k) /\ k \in 0..N
      BY <3>1, <1>3
    <3> HIDE DEF Is
    <3> QED BY <3>2
  <2>3. N \in B
    <3> HIDE DEF B
    <3> QED BY <2>1, <2>2, <1>3, RoundInduction
  <2> HIDE DEF Is
  <2> QED BY <2>3
<1> HIDE DEF added
<1> DEFINE B == { k \in 0..N : OK(added[k]) }
<1>5. 0 \in B
  BY <1>3, <1>4
<1>6. ASSUME NEW k \in 1..N, k - 1 \in B PROVE k \in B
  <2>1. k \in 0..N /\ k # 0
    BY <1>3
  <2>2. added[k] = Step(added[k - 1])
    BY <1>4, <2>1
  <2> QED BY <1>2, <1>6, <2>1, <2>2
<1>7. N \in B
  <2> HIDE DEF B
  <2> QED BY <1>3, <1>5, <1>6, RoundInduction
<1> QED BY <1>1, <1>7 DEF OK

\* Input that comes with its conversion.
IsInput(i) ==
  /\ i = [ f \in {"raw", "conversion", "is_asis", "is_new_input"} |-> i[f] ]
  /\ IsString(i.raw) /\ IsString(i.conversion)

LEMMA NothingInput ==
  ASSUME NEW i, IsInput(i)
  PROVE  IsInput(Nothing(i)) /\ IsInput([ i EXCEPT !.is_new_input = FALSE ])
BY EmptyString DEF IsInput, Nothing

LEMMA AddedInput ==
  ASSUME NEW T, NEW a, NEW c, NEW input, NEW loop, a = Added(c, input, loop),
         Stale(c, T), IsInput(input)
  PROVE  IsAdded(a, T) /\ IsInput(a.input)
BY AddedFresh

LEMMA ConvertedNextFresh ==
  ASSUME NEW T, NEW c, NEW input, NEW key, NEW look, Fresh(c, T), IsInput(input),
         IsString(key), look.entries \subseteq Rules, look.key_length \in Nat
  PROVE  /\ IsAdded(ConvertedNext(c, input, key, look), T)
         /\ IsInput(ConvertedNext(c, input, key, look).input)
<1> DEFINE a == ConvertedNext(c, input, key, look)
           entry == TheEntry(look)
           raw == c.raw \o input.raw
           typed == [ c EXCEPT !.raw = raw ]
           conversion == c.conversion \o entry.result
           fixed == [ typed EXCEPT !.conversion = conversion, !.pending = entry.pending ]
           done  == [ fixed EXCEPT !.ambiguous = << >> ]
           kept  == [ typed EXCEPT !.pending = entry.result, !.ambiguous = entry.result ]
           rest  == SubSeq(key, look.key_length + 1, Len(key))
           left  == [ input EXCEPT !.raw = << >>, !.conversion = rest ]
<1>1. \/ a = Added(c, input, FALSE)
      \/ /\ look.entries # {}
         /\ \/ a = Added(fixed, left, FALSE)
            \/ a = Added(done, Nothing(input), FALSE)
            \/ a = Added(kept, Nothing(input), FALSE)
  <2>1. typed = [ c EXCEPT !.raw = @ \o input.raw ]
    BY DEF Fresh, Stale, Fields
  <2>2. typed.conversion = c.conversion /\ typed = [ f \in Fields |-> typed[f] ]
    BY DEF Fresh, Stale, Fields
  <2> HIDE DEF typed, entry, left
  <2>3. fixed = [ typed EXCEPT !.conversion = @ \o entry.result, !.pending = entry.pending ]
    BY <2>2 DEF Fields
  <2> HIDE DEF fixed
  <2> QED BY <2>1, <2>3 DEF ConvertedNext, entry, left
<1>2. /\ IsString(c.raw) /\ IsString(c.conversion) /\ IsString(c.pending) /\ Stale(c, T)
      /\ IsString(input.raw) /\ look.key_length + 1 \in Int /\ Len(key) \in Int
  BY StringFacts DEF Fresh, Stale, IsInput
<1>3. look.entries # {} => IsString(entry.result) /\ IsString(entry.pending)
  BY EntryString
<1> HIDE DEF a, entry
<1>4. IsString(raw) /\ IsString(rest) /\ (look.entries # {} => IsString(conversion))
  BY <1>2, <1>3, ConcatString, SubString
<1> HIDE DEF raw, conversion, rest
<1>5. IsInput(left) /\ IsInput(Nothing(input))
  <2>1. IsInput(left)
    BY <1>4, EmptyString DEF IsInput
  <2> QED BY <2>1, NothingInput
<1>6. Stale(typed, T)
  BY <1>2, <1>4 DEF Stale, Fields
<1> HIDE DEF typed, left
<1>7. CASE look.entries # {}
  <2>1. Stale(fixed, T) /\ Stale(kept, T)
    BY <1>3, <1>4, <1>6, <1>7 DEF Stale, Fields
  <2> HIDE DEF fixed, kept
  <2>2. Stale(done, T)
    BY <2>1 DEF Stale, Fields
  <2> HIDE DEF done
  <2>3. IsAdded(a, T) /\ IsInput(a.input)
    <3>1. CASE a = Added(c, input, FALSE)
      BY <3>1, <1>2, AddedInput
    <3>2. CASE a = Added(fixed, left, FALSE)
      BY <3>2, <1>5, <2>1, AddedInput
    <3>3. CASE a = Added(done, Nothing(input), FALSE)
      BY <3>3, <1>5, <2>2, AddedInput
    <3>4. CASE a = Added(kept, Nothing(input), FALSE)
      BY <3>4, <1>5, <2>1, AddedInput
    <3> QED BY <1>1, <3>1, <3>2, <3>3, <3>4
  <2> QED BY <2>3 DEF a
<1>8. CASE look.entries = {}
  <2>1. a = Added(c, input, FALSE)
    BY <1>1, <1>8
  <2>2. IsAdded(a, T) /\ IsInput(a.input)
    BY <2>1, <1>2, AddedFresh
  <2> QED BY <2>2 DEF a
<1> QED BY <1>7, <1>8

LEMMA AddInputAndConvertedCharFresh ==
  ASSUME NEW T, NEW c, NEW input, Fresh(c, T), IsInput(input)
  PROVE  /\ IsAdded(AddInputAndConvertedChar(c, input), T)
         /\ IsInput(AddInputAndConvertedChar(c, input).input)
<1> DEFINE asis == [ c EXCEPT !.raw = input.raw, !.conversion = input.conversion ]
           first == ConvertedFirst(c, input)
           key == c.pending \o input.conversion
           look == LookUpPrefix(key)
           next == ConvertedNext(c, input, key, look)
           a == AddInputAndConvertedChar(c, input)
<1>0. /\ IsString(input.raw) /\ IsString(input.conversion) /\ IsString(c.pending)
      /\ IsInput(Nothing(input))
  BY NothingInput DEF IsInput, Fresh, Stale
<1>1. Stale(asis, T)
  BY <1>0 DEF Fresh, Stale, Fields
<1>2. Stale(first, T)
  <2> DEFINE whole == { r \in Rules : r.input = Lower(input.conversion) }
             attributes == IF whole = {} THEN c.attributes
                           ELSE (CHOOSE r \in whole : TRUE).attributes
             d == [ c EXCEPT !.raw = input.raw, !.pending = input.conversion,
                             !.ambiguous = input.conversion, !.attributes = attributes ]
  <2>1. first = d
    BY DEF ConvertedFirst, Fresh, Stale, Fields
  <2> HIDE DEF attributes
  <2>2. Stale(d, T)
    BY <1>0 DEF Fresh, Stale, Fields
  <2> QED BY <2>1, <2>2
<1>3. IsAdded(next, T) /\ IsInput(next.input)
  <2>1. IsString(key)
    BY <1>0, ConcatString
  <2>2. look.entries \subseteq Rules /\ look.key_length \in Nat
    BY <2>1, LookUpPrefixLength
  <2> HIDE DEF key, look
  <2> QED BY <2>1, <2>2, ConvertedNextFresh
<1>4. \/ a = Added(asis, Nothing(input), FALSE) \/ a = Added(first, Nothing(input), FALSE)
      \/ a = next
  BY DEF AddInputAndConvertedChar
<1> HIDE DEF asis, first, next, a
<1>5. IsAdded(a, T) /\ IsInput(a.input)
  <2>1. CASE a = Added(asis, Nothing(input), FALSE)
    BY <2>1, <1>0, <1>1, AddedInput
  <2>2. CASE a = Added(first, Nothing(input), FALSE)
    BY <2>2, <1>0, <1>2, AddedInput
  <2> QED BY <1>3, <1>4, <2>1, <2>2
<1> QED BY <1>5 DEF a

\* AddCompositionInput.
LEMMA AddCompositionInputFresh ==
  ASSUME NEW T, NEW c, NEW input, Fresh(c, T), IsInput(input)
  PROVE  /\ IsAdded(AddCompositionInput(c, input), T)
         /\ IsInput(AddCompositionInput(c, input).input)
<1> DEFINE a == AddInput(Added(c, input.raw, TRUE))
           b == [ a EXCEPT !.input = WithRaw(input, @) ]
           d == AddCompositionInput(c, input)
<1>1. Stale(c, T) /\ IsString(input.raw)
  BY DEF Fresh, IsInput
<1>2. IsAdded(a, T) /\ IsString(a.input)
  BY <1>1, AddedFresh, AddInputFresh
<1>3. \/ d = AddInputAndConvertedChar(c, input) \/ d = Added(c, input, FALSE) \/ d = b
  BY DEF AddCompositionInput
<1> HIDE DEF a, d
<1>4. IsAdded(b, T) /\ b.input = WithRaw(input, a.input)
  BY <1>2 DEF IsAdded
<1>5. IsInput(WithRaw(input, a.input))
  BY <1>2 DEF IsInput, WithRaw
<1> HIDE DEF b
<1>6. IsAdded(d, T) /\ IsInput(d.input)
  <2>1. CASE d = Added(c, input, FALSE)
    BY <2>1, <1>1, AddedInput
  <2>2. CASE d = AddInputAndConvertedChar(c, input)
    BY <2>2, AddInputAndConvertedCharFresh
  <2> QED BY <1>3, <1>4, <1>5, <2>1, <2>2
<1> QED BY <1>6 DEF d

-----------------------------------------------------------------------------
(***************************************************************************)
(* Lists of chunks.                                                        *)
(***************************************************************************)

FreshSeq(s, T) == \E S : s \in Seq(S) /\ \A c \in S : Fresh(c, T)

LEMMA FreshElements ==
  ASSUME NEW T, NEW s, FreshSeq(s, T)
  PROVE  /\ Len(s) \in Nat /\ DOMAIN s = 1..Len(s) /\ (s # << >> => Len(s) # 0)
         /\ \A i \in 1..Len(s) : Fresh(s[i], T)
BY DEF FreshSeq

LEMMA FreshEmpty ==
  ASSUME NEW T
  PROVE  FreshSeq(<< >>, T)
<1> DEFINE S == {}
<1>1. << >> \in Seq(S) /\ \A c \in S : Fresh(c, T)
  OBVIOUS
<1> HIDE DEF S
<1> QED BY <1>1 DEF FreshSeq

LEMMA FreshMapped ==
  ASSUME NEW T, NEW n \in Nat, NEW f, f = [ i \in 1..n |-> f[i] ],
         \A i \in 1..n : Fresh(f[i], T)
  PROVE  FreshSeq(f, T) /\ Len(f) = n
<1> DEFINE S == { f[i] : i \in 1..n }
<1>1. f \in [ 1..n -> S ]
  OBVIOUS
<1>2. \A c \in S : Fresh(c, T)
  OBVIOUS
<1> HIDE DEF S
<1>3. f \in Seq(S)
  BY <1>1
<1>4. Len(f) = n
  BY <1>1
<1> QED BY <1>2, <1>3, <1>4 DEF FreshSeq

LEMMA FreshConcat ==
  ASSUME NEW T, NEW s, NEW t, FreshSeq(s, T), FreshSeq(t, T)
  PROVE  FreshSeq(s \o t, T) /\ Len(s \o t) = Len(s) + Len(t)
<1>1. PICK S : s \in Seq(S) /\ \A c \in S : Fresh(c, T)
  BY DEF FreshSeq
<1>2. PICK U : t \in Seq(U) /\ \A c \in U : Fresh(c, T)
  BY DEF FreshSeq
<1> DEFINE V == S \cup U
<1>3. s \in Seq(V) /\ t \in Seq(V)
  BY <1>1, <1>2, SeqMonotonic
<1>4. \A c \in V : Fresh(c, T)
  BY <1>1, <1>2
<1> HIDE DEF V
<1>5. s \o t \in Seq(V) /\ Len(s \o t) = Len(s) + Len(t)
  BY <1>3, ConcatProperties
<1> QED BY <1>4, <1>5 DEF FreshSeq

LEMMA FreshOne ==
  ASSUME NEW T, NEW c, Fresh(c, T)
  PROVE  FreshSeq(<< c >>, T)
<1> DEFINE S == {c}
           s == << c >>
<1>1. s \in Seq(S) /\ \A d \in S : Fresh(d, T)
  OBVIOUS
<1> HIDE DEF S, s
<1>2. FreshSeq(s, T)
  BY <1>1 DEF FreshSeq
<1> QED BY <1>2 DEF s

LEMMA FreshTwo ==
  ASSUME NEW T, NEW c, NEW d, Fresh(c, T), Fresh(d, T)
  PROVE  FreshSeq(<< c, d >>, T) /\ Len(<< c, d >>) = 2
<1> DEFINE S == {c, d}
           s == << c, d >>
<1>1. s \in Seq(S) /\ Len(s) = 2
  OBVIOUS
<1>2. \A e \in S : Fresh(e, T)
  OBVIOUS
<1> HIDE DEF S, s
<1>3. FreshSeq(s, T) /\ Len(s) = 2
  BY <1>1, <1>2 DEF FreshSeq
<1> QED BY <1>3 DEF s

LEMMA FreshAppend ==
  ASSUME NEW T, NEW s, NEW c, FreshSeq(s, T), Fresh(c, T)
  PROVE  FreshSeq(Append(s, c), T)
<1>1. PICK S : s \in Seq(S) /\ \A d \in S : Fresh(d, T)
  BY DEF FreshSeq
<1> DEFINE V == S \cup {c}
<1>2. s \in Seq(V) /\ c \in V
  BY <1>1, SeqMonotonic
<1>3. \A d \in V : Fresh(d, T)
  BY <1>1
<1> HIDE DEF V
<1>4. Append(s, c) \in Seq(V)
  BY <1>2, AppendProperties
<1> QED BY <1>3, <1>4 DEF FreshSeq

LEMMA FreshSub ==
  ASSUME NEW T, NEW s, FreshSeq(s, T), NEW i \in 1..Len(s) + 1, NEW j \in i - 1..Len(s)
  PROVE  FreshSeq(SubSeq(s, i, j), T) /\ Len(SubSeq(s, i, j)) = j - i + 1
<1>1. PICK S : s \in Seq(S) /\ \A d \in S : Fresh(d, T)
  BY DEF FreshSeq
<1>2. Len(s) \in Nat /\ i \in Int /\ j \in Int
  BY <1>1
<1>3. SubSeq(s, i, j) \in Seq(S) /\ Len(SubSeq(s, i, j)) = j - i + 1
  <2>1. \A k \in i..j : s[k] \in S
    BY <1>1, <1>2
  <2>2. SubSeq(s, i, j) \in Seq(S) /\ Len(SubSeq(s,i,j)) = IF i <= j THEN j-i+1 ELSE 0
    BY <1>2, <2>1, SubSeqProperties
  <2> QED BY <1>2, <2>2
<1> QED BY <1>1, <1>3 DEF FreshSeq

\* Both parts of a list, and a list without its last chunk.
LEMMA FreshParts ==
  ASSUME NEW T, NEW s, FreshSeq(s, T), NEW i \in 1..Len(s) + 1
  PROVE  /\ FreshSeq(SubSeq(s, 1, i - 1), T) /\ Len(SubSeq(s, 1, i - 1)) = i - 1
         /\ FreshSeq(SubSeq(s, i, Len(s)), T) /\ Len(SubSeq(s, i, Len(s))) = Len(s) - i + 1
         /\ s # << >> => FreshSeq(Front(s), T) /\ Fresh(Last(s), T)
<1>1. Len(s) \in Nat /\ (s # << >> => Len(s) # 0) /\ \A k \in 1..Len(s) : Fresh(s[k], T)
  BY FreshElements
<1>2. 1 \in 1..Len(s) + 1 /\ i - 1 \in 1 - 1..Len(s) /\ Len(s) \in i - 1..Len(s)
  BY <1>1
<1>3. FreshSeq(SubSeq(s, 1, i - 1), T) /\ Len(SubSeq(s, 1, i - 1)) = i - 1
  <2>1. FreshSeq(SubSeq(s, 1, i - 1), T) /\ Len(SubSeq(s, 1, i - 1)) = (i - 1) - 1 + 1
    BY <1>2, FreshSub
  <2> QED BY <1>1, <2>1
<1>4. FreshSeq(SubSeq(s, i, Len(s)), T) /\ Len(SubSeq(s, i, Len(s))) = Len(s) - i + 1
  BY <1>2, FreshSub
<1>5. ASSUME s # << >> PROVE FreshSeq(Front(s), T) /\ Fresh(Last(s), T)
  <2>1. Len(s) - 1 \in 1 - 1..Len(s) /\ Len(s) \in 1..Len(s)
    BY <1>1, <1>5
  <2>2. FreshSeq(SubSeq(s, 1, Len(s) - 1), T)
    BY <1>2, <2>1, FreshSub
  <2> QED BY <1>1, <2>1, <2>2 DEF Front, Last
<1> QED BY <1>3, <1>4, <1>5

\* GetLength of all the chunks.
LEMMA AllMeasuredFresh ==
  ASSUME NEW T, NEW s, FreshSeq(s, T)
  PROVE  FreshSeq(AllMeasured(s), T) /\ Len(AllMeasured(s)) = Len(s)
<1> DEFINE n == Len(s)
           f == AllMeasured(s)
<1>1. n \in Nat /\ DOMAIN s = 1..n /\ \A i \in 1..n : Fresh(s[i], T)
  BY FreshElements
<1>2. f = [ i \in 1..n |-> Measured(s[i]) ]
  BY <1>1 DEF AllMeasured
<1>3. \A i \in 1..n : Fresh(Measured(s[i]), T)
  BY <1>1, MeasuredFresh
<1> HIDE DEF n, f
<1>4. f = [ i \in 1..n |-> f[i] ] /\ \A i \in 1..n : Fresh(f[i], T)
  BY <1>2, <1>3
<1>5. FreshSeq(f, T) /\ Len(f) = n
  BY <1>1, <1>4, FreshMapped
<1> QED BY <1>5 DEF f, n

\* Composition::SetTransliterator.
LEMMA SetTransliteratorsFresh ==
  ASSUME NEW T, NEW s, NEW from, NEW to, NEW t12r \in T, FreshSeq(s, T)
  PROVE  FreshSeq(SetTransliterators(s, from, to, t12r), T)
<1> DEFINE n == Len(s)
           f == SetTransliterators(s, from, to, t12r)
           within == GetChunkAt(s, from, "LOCAL").it..GetChunkAt(s, to, "LOCAL").it
<1>1. n \in Nat /\ DOMAIN s = 1..n /\ \A i \in 1..n : Fresh(s[i], T)
  BY FreshElements
<1>2. f = [ i \in 1..n |-> IF i \in within THEN SetTransliterator(s[i], t12r) ELSE s[i] ]
  BY <1>1 DEF SetTransliterators
<1>3. \A i \in 1..n : Fresh(SetTransliterator(s[i], t12r), T)
  BY <1>1, SetTransliteratorFresh
<1> HIDE DEF n, f, within
<1>4. f = [ i \in 1..n |-> f[i] ] /\ \A i \in 1..n : Fresh(f[i], T)
  BY <1>1, <1>2, <1>3
<1> QED BY <1>1, <1>4, FreshMapped DEF f

\* The ends of the chunks are numbers, each the length of its chunk further.
LEMMA EndsOfFresh ==
  ASSUME NEW T, NEW s, NEW t12r, FreshSeq(s, T)
  PROVE  LET ends == EndsOf(s, t12r)
         IN  /\ ends[0] = 0
             /\ \A i \in 0..Len(s) : ends[i] \in Nat
             /\ \A i \in 1..Len(s) : /\ ends[i] = ends[i - 1] + GetLength(s[i], t12r)
                                     /\ GetLength(s[i], t12r) = Len(Result(s[i], t12r))
                                     /\ GetLength(s[i], t12r) \in Nat
<1> DEFINE N == Len(s)
           Of(i) == GetLength(s[i], t12r)
           Is(h, k) == h = [ n \in 0..k |-> IF n = 0 THEN 0 ELSE h[n - 1] + Of(n) ]
           ends == CHOOSE h : Is(h, N)
<1>1. EndsOf(s, t12r) = ends
  BY DEF EndsOf
<1>2. \A i \in 1..N : Of(i) = Len(Result(s[i], t12r)) /\ Of(i) \in Nat
  <2> TAKE i \in 1..N
  <2>1. Fresh(s[i], T)
    BY FreshElements
  <2>2. Len(Result(s[i], t12r)) \in Nat
    BY <2>1, ResultString, StringFacts DEF Fresh
  <2>3. Of(i) = Len(Result(s[i], t12r))
    BY <2>1 DEF Fresh, GetLength
  <2> QED BY <2>2, <2>3
<1>3. N \in Nat /\ 0 \in 0..N /\ N \in 0..N
  BY FreshElements
<1> HIDE DEF N, Of
<1>4. Is(ends, N)
  <2> DEFINE B == { k \in 0..N : \E h : Is(h, k) }
  <2>1. 0 \in B
    <3>1. Is([ n \in 0..0 |-> 0 ], 0)
      OBVIOUS
    <3> HIDE DEF Is
    <3> QED BY <3>1, <1>3
  <2>2. ASSUME NEW k \in 1..N, k - 1 \in B PROVE k \in B
    <3>1. PICK g : Is(g, k - 1)
      BY <2>2
    <3> DEFINE h == [ n \in 0..k |-> IF n = k THEN g[k - 1] + Of(k) ELSE g[n] ]
    <3>2. Is(h, k) /\ k \in 0..N
      BY <3>1, <1>3
    <3> HIDE DEF Is
    <3> QED BY <3>2
  <2>3. N \in B
    <3> HIDE DEF B
    <3> QED BY <2>1, <2>2, <1>3, RoundInduction
  <2> HIDE DEF Is
  <2> QED BY <2>3
<1> HIDE DEF ends
<1>5. ends[0] = 0 /\ \A i \in 1..N : ends[i] = ends[i - 1] + Of(i)
  BY <1>3, <1>4
<1> DEFINE B == { k \in 0..N : ends[k] \in Nat }
<1>6. 0 \in B
  BY <1>3, <1>5
<1>7. ASSUME NEW k \in 1..N, k - 1 \in B PROVE k \in B
  BY <1>2, <1>3, <1>5, <1>7
<1>8. \A i \in 0..N : ends[i] \in Nat
  <2>1. \A i \in 0..N : i \in B
    <3> HIDE DEF B
    <3> QED BY <1>3, <1>6, <1>7, RoundInduction
  <2> QED BY <2>1
<1> QED BY <1>1, <1>2, <1>5, <1>8 DEF N, Of

\* They do not decrease.
LEMMA EndsMonotone ==
  ASSUME NEW T, NEW s, NEW t12r, FreshSeq(s, T), NEW i \in 0..Len(s), NEW j \in i..Len(s)
  PROVE  EndsOf(s, t12r)[i] <= EndsOf(s, t12r)[j]
<1> DEFINE ends == EndsOf(s, t12r)
           n == Len(s)
           B == { k \in 0..n : k < i \/ ends[i] <= ends[k] }
<1>1. n \in Nat
  BY FreshElements
<1>2. /\ \A k \in 0..n : ends[k] \in Nat
      /\ \A k \in 1..n : ends[k] = ends[k - 1] + GetLength(s[k], t12r)
                         /\ GetLength(s[k], t12r) \in Nat
  BY EndsOfFresh
<1> HIDE DEF ends, n
<1>3. 0 \in B
  BY <1>1, <1>2 DEF n
<1>4. ASSUME NEW k \in 1..n, k - 1 \in B PROVE k \in B
  <2>1. k \in 0..n /\ k - 1 \in 0..n /\ i \in 0..n
    BY <1>1 DEF n
  <2>2. ends[k - 1] <= ends[k]
    BY <1>2, <2>1
  <2> QED BY <1>2, <1>4, <2>1, <2>2
<1>5. \A k \in 0..n : k \in B
  <2> HIDE DEF B
  <2> QED BY <1>1, <1>3, <1>4, RoundInduction
<1>6. j \in B /\ ~ (j < i)
  BY <1>1, <1>5 DEF n
<1> QED BY <1>6 DEF ends

\* Two lists whose first n chunks show as much have the same ends up to there.
LEMMA EqualEnds ==
  ASSUME NEW T, NEW s, NEW u, NEW t12r, FreshSeq(s, T), FreshSeq(u, T),
         NEW n \in Nat, n <= Len(s), n <= Len(u),
         \A i \in 1..n : Result(s[i], t12r) = Result(u[i], t12r)
  PROVE  EndsOf(s, t12r)[n] = EndsOf(u, t12r)[n]
<1> DEFINE a == EndsOf(s, t12r)
           b == EndsOf(u, t12r)
           x(i) == Len(Result(s[i], t12r))
           y(i) == Len(Result(u[i], t12r))
           B == { k \in 0..n : a[k] = b[k] }
<1>1. Len(s) \in Nat /\ Len(u) \in Nat
  BY FreshElements
<1>2. a[0] = 0 /\ \A i \in 1..Len(s) : a[i] = a[i - 1] + x(i)
  BY EndsOfFresh
<1>3. b[0] = 0 /\ \A i \in 1..Len(u) : b[i] = b[i - 1] + y(i)
  BY EndsOfFresh
<1>4. \A i \in 1..n : x(i) = y(i) /\ i \in 1..Len(s) /\ i \in 1..Len(u)
  BY <1>1
<1> HIDE DEF a, b, x, y
<1>5. 0 \in B
  BY <1>2, <1>3
<1>6. ASSUME NEW k \in 1..n, k - 1 \in B PROVE k \in B
  BY <1>2, <1>3, <1>4, <1>6
<1>7. n \in B
  <2>1. n \in 0..n
    OBVIOUS
  <2> HIDE DEF B
  <2> QED BY <1>5, <1>6, <2>1, RoundInduction
<1> QED BY <1>7 DEF a, b

\* The length of a list is a number.
LEMMA TotalLengthNat ==
  ASSUME NEW T, NEW s, NEW t12r, FreshSeq(s, T)
  PROVE  TotalLength(s, t12r) \in Nat
<1>1. Len(s) \in 0..Len(s)
  BY FreshElements
<1> QED BY <1>1, EndsOfFresh DEF TotalLength

\* Chunks that cache their lengths show what they showed.
LEMMA MeasuredLength ==
  ASSUME NEW T, NEW s, FreshSeq(s, T)
  PROVE  TotalLength(AllMeasured(s), "LOCAL") = TotalLength(s, "LOCAL")
<1> DEFINE u == AllMeasured(s)
           n == Len(s)
<1>1. FreshSeq(u, T) /\ Len(u) = n /\ n \in Nat /\ n <= n
  BY AllMeasuredFresh, FreshElements
<1>2. \A i \in 1..n : Result(u[i], "LOCAL") = Result(s[i], "LOCAL")
  <2> TAKE i \in 1..n
  <2>1. i \in DOMAIN s /\ Fresh(s[i], T)
    BY FreshElements
  <2>2. u[i] = Measured(s[i])
    BY <2>1 DEF AllMeasured
  <2> QED BY <2>1, <2>2, MeasuredFresh
<1> HIDE DEF u
<1> QED BY <1>1, <1>2, EqualEnds DEF TotalLength, u

\* The cursor between two lists is inside of the text of both.
LEMMA BetweenInside ==
  ASSUME NEW T, NEW left, NEW right, FreshSeq(left, T), FreshSeq(right, T)
  PROVE  TotalLength(left, "LOCAL") \in 0..TotalLength(left \o right, "LOCAL")
<1> DEFINE n == Len(left)
           s == left \o right
<1>1. FreshSeq(s, T) /\ Len(s) = n + Len(right) /\ n \in Nat /\ Len(right) \in Nat
  BY FreshConcat, FreshElements
<1>2. \A i \in 1..n : left[i] = s[i]
  <2>1. PICK S : left \in Seq(S)
    BY DEF FreshSeq
  <2>2. PICK U : right \in Seq(U)
    BY DEF FreshSeq
  <2> DEFINE V == S \cup U
  <2>3. left \in Seq(V) /\ right \in Seq(V)
    BY <2>1, <2>2, SeqMonotonic
  <2> HIDE DEF V
  <2> QED BY <2>3, ConcatProperties
<1> HIDE DEF s
<1>3. n <= n /\ n <= Len(s) /\ n \in 0..Len(s) /\ Len(s) \in n..Len(s)
  BY <1>1
<1>4. EndsOf(left, "LOCAL")[n] = EndsOf(s, "LOCAL")[n]
  BY <1>1, <1>2, <1>3, EqualEnds
<1>5. EndsOf(s, "LOCAL")[n] <= EndsOf(s, "LOCAL")[Len(s)]
  BY <1>1, <1>3, EndsMonotone
<1>6. TotalLength(left, "LOCAL") \in Nat /\ TotalLength(s, "LOCAL") \in Nat
  BY <1>1, TotalLengthNat
<1>7. TotalLength(left, "LOCAL") <= TotalLength(s, "LOCAL")
  BY <1>4, <1>5 DEF TotalLength
<1>8. TotalLength(left, "LOCAL") \in 0..TotalLength(s, "LOCAL")
  BY <1>6, <1>7
<1> QED BY <1>8 DEF s

\* Fresh chunks and a cursor in the text they show.
IsComposition(x, T) ==
  FreshSeq(x.chunks, T) /\ x.position \in 0..TotalLength(x.chunks, "LOCAL")

LEMMA CursorBetweenFresh ==
  ASSUME NEW T, NEW left, NEW right, FreshSeq(left, T), FreshSeq(right, T)
  PROVE  IsComposition(CursorBetween(left, right), T)
<1>1. FreshSeq(left \o right, T)
  BY FreshConcat
<1> QED BY <1>1, BetweenInside DEF IsComposition, CursorBetween

\* GetChunkAt finds a chunk of the list.
LEMMA ChunkInside ==
  ASSUME NEW T, NEW s, NEW position, NEW t12r, FreshSeq(s, T), s # << >>
  PROVE  /\ GetChunkAt(s, position, t12r).it \in 1..Len(s)
         /\ position \in Int => GetChunkAt(s, position, t12r).inner \in Int
<1> DEFINE n == Len(s)
           ends == EndsOf(s, t12r)
           Reaches(i) == /\ i = n \/ ends[i] >= position
                         /\ \A j \in 1..i - 1 : ~ (ends[j] >= position)
           R == { i \in 1..n : i = n \/ ends[i] >= position }
<1>1. n \in Nat /\ n # 0
  BY FreshElements
<1>2. GetChunkAt(s, position, t12r).it = CHOOSE i \in 1..n : Reaches(i)
  BY DEF GetChunkAt, FirstReaching
<1> HIDE DEF n, ends
<1>3. R \subseteq Nat /\ R # {}
  BY <1>1
<1>4. PICK k \in R : \A j \in R : k <= j
  <2> HIDE DEF R
  <2> QED BY <1>3, LeastNumber
<1>5. k \in 1..n /\ (k = n \/ ends[k] >= position)
  BY <1>4
<1>6. ASSUME NEW j \in 1..k - 1 PROVE ~ (ends[j] >= position)
  BY <1>1, <1>4, <1>5
<1>7. Reaches(k)
  BY <1>5, <1>6
<1> HIDE DEF Reaches
<1>8. GetChunkAt(s, position, t12r).it \in 1..n
  BY <1>2, <1>5, <1>7
<1>9. ASSUME position \in Int PROVE GetChunkAt(s, position, t12r).inner \in Int
  <2> DEFINE i == GetChunkAt(s, position, t12r).it
  <2>1. GetChunkAt(s, position, t12r).inner
          = (IF ends[n] < position THEN ends[n] ELSE position) - ends[i - 1]
    BY DEF GetChunkAt, FirstReaching, n, ends
  <2>2. i - 1 \in 0..n /\ n \in 0..n
    BY <1>1, <1>8
  <2> HIDE DEF i
  <2>3. ends[i - 1] \in Nat /\ ends[n] \in Nat
    BY <2>2, EndsOfFresh DEF ends, n
  <2> QED BY <1>9, <2>1, <2>3
<1> QED BY <1>8, <1>9 DEF n

\* A list cut at a position, and the chunk right of it.
IsSplit(split, T) ==
  FreshSeq(split.chunks, T) /\ split.right \in 1..Len(split.chunks) + 1

LEMMA MaybeSplitChunkAtFresh ==
  ASSUME NEW T, NEW s, NEW position \in Int, FreshSeq(s, T)
  PROVE  IsSplit(MaybeSplitChunkAt(s, position), T)
<1> DEFINE at == GetChunkAt(s, position, "LOCAL")
           i == at.it
           split == MaybeSplitChunkAt(s, position)
<1>1. Len(s) \in Nat /\ \A j \in 1..Len(s) : Fresh(s[j], T)
  BY FreshElements
<1>2. s = << >> => i = 1 /\ at.inner = 0
  BY DEF GetChunkAt
<1>3. s # << >> => i \in 1..Len(s) /\ at.inner \in Int
  BY ChunkInside
<1> DEFINE cut == SubSeq(s, 1, i - 1) \o SplitChunk(s[i], at.inner)
                    \o SubSeq(s, i + 1, Len(s))
<1>4. split = IF i = 1 /\ at.inner = 0 THEN [ chunks |-> s, right |-> 1 ]
              ELSE IF at.inner = GetLength(s[i], "LOCAL")
              THEN [ chunks |-> s, right |-> i + 1 ]
              ELSE IF at.inner = 0 THEN [ chunks |-> s, right |-> i ]
              ELSE [ chunks |-> cut, right |-> i + 1 ]
  BY DEF MaybeSplitChunkAt, SplitChunkAt
<1> SUFFICES IsSplit(split, T)
  OBVIOUS
<1> HIDE DEF at, split
<1>5. CASE i = 1 /\ at.inner = 0
  <2>1. split.chunks = s /\ split.right = 1
    BY <1>4, <1>5
  <2> QED BY <1>1, <2>1 DEF IsSplit
<1>6. CASE ~ (i = 1 /\ at.inner = 0)
  <2>1. i \in 1..Len(s) /\ at.inner \in Int
    BY <1>2, <1>3, <1>6
  <2> HIDE DEF i
  <2>2. FreshSeq(cut, T) /\ Len(cut) = Len(s) + 1
    <3>1. PICK left, right : /\ SplitChunk(s[i], at.inner) = << left, right >>
                             /\ Fresh(left, T) /\ Fresh(right, T)
      BY <1>1, <2>1, SplitChunkFresh
    <3> DEFINE a == SubSeq(s, 1, i - 1)
               b == << left, right >>
               d == SubSeq(s, i + 1, Len(s))
    <3>2. i \in 1..Len(s) + 1 /\ i + 1 \in 1..Len(s) + 1
      BY <1>1, <2>1
    <3>3. FreshSeq(a, T) /\ Len(a) = i - 1
      BY <3>2, FreshParts
    <3>4. FreshSeq(d, T) /\ Len(d) = Len(s) - (i + 1) + 1
      BY <3>2, FreshParts
    <3>5. FreshSeq(b, T) /\ Len(b) = 2
      BY <3>1, FreshTwo
    <3>6. cut = a \o b \o d
      BY <3>1
    <3> HIDE DEF a, b, d, cut
    <3>7. FreshSeq(a \o b, T) /\ Len(a \o b) = i + 1
      <4>1. FreshSeq(a \o b, T) /\ Len(a \o b) = Len(a) + Len(b)
        BY <3>3, <3>5, FreshConcat
      <4> QED BY <4>1, <3>3, <3>5, <2>1, <1>1
    <3>8. FreshSeq(a \o b \o d, T) /\ Len(a \o b \o d) = Len(a \o b) + Len(d)
      BY <3>7, <3>4, FreshConcat
    <3> QED BY <3>4, <3>6, <3>7, <3>8, <2>1, <1>1
  <2> HIDE DEF cut
  <2>3. CASE at.inner = GetLength(s[i], "LOCAL") \/ at.inner = 0
    <3>1. split.chunks = s /\ split.right \in {i, i + 1}
      BY <1>4, <1>6, <2>3
    <3> QED BY <1>1, <2>1, <3>1 DEF IsSplit
  <2>4. CASE ~ (at.inner = GetLength(s[i], "LOCAL") \/ at.inner = 0)
    <3>1. split.chunks = cut /\ split.right = i + 1
      BY <1>4, <1>6, <2>4
    <3> QED BY <1>1, <2>1, <2>2, <3>1 DEF IsSplit
  <2> QED BY <2>3, <2>4
<1> QED BY <1>5, <1>6

\* A chunk and those before it.
IsExtended(e, T) == FreshSeq(e.before, T) /\ Fresh(e.it, T)

\* The loop of CombinePendingChunks.
LEMMA CombinePendingChunksFresh ==
  ASSUME NEW T, NEW before, NEW it, NEW input, NEW t12r,
         FreshSeq(before, T), Fresh(it, T)
  PROVE  IsExtended(CombinePendingChunks(before, it, input, t12r), T)
<1> DEFINE next == IF input.conversion = << >> THEN input.raw ELSE input.conversion
           N == Len(before)
           a == [ before |-> before, it |-> it ]
           Step(j) == IF \/ input.is_asis \/ j.before = << >>
                         \/ ~ IsConvertible(Last(j.before), t12r, j.it.pending \o next)
                      THEN j
                      ELSE [ before |-> Front(j.before), it |-> Combine(j.it, Last(j.before)) ]
           Is(h, k) == h = [ n \in 0..k |-> IF n = 0 THEN a ELSE Step(h[n - 1]) ]
           joined == CHOOSE h : Is(h, N)
<1>1. CombinePendingChunks(before, it, input, t12r) = joined[N]
  BY DEF CombinePendingChunks
<1>2. ASSUME NEW b, IsExtended(b, T) PROVE IsExtended(Step(b), T)
  <2>1. CASE Step(b) = b
    BY <1>2, <2>1
  <2>2. CASE Step(b) # b
    <3>1. /\ b.before # << >>
          /\ Step(b) = [ before |-> Front(b.before), it |-> Combine(b.it, Last(b.before)) ]
      BY <2>2
    <3>2. 1 \in 1..Len(b.before) + 1
      BY <1>2, FreshElements DEF IsExtended
    <3>3. FreshSeq(Front(b.before), T) /\ Fresh(Last(b.before), T)
      BY <1>2, <3>1, <3>2, FreshParts DEF IsExtended
    <3>4. Fresh(Combine(b.it, Last(b.before)), T)
      BY <1>2, <3>3, CombineFresh DEF IsExtended
    <3> HIDE DEF Step
    <3> QED BY <3>1, <3>3, <3>4 DEF IsExtended
  <2> QED BY <2>1, <2>2
<1>3. N \in Nat /\ 0 \in 0..N /\ N \in 0..N /\ IsExtended(a, T)
  BY FreshElements DEF IsExtended
<1> HIDE DEF N, Step, a
<1>4. Is(joined, N)
  <2> DEFINE B == { k \in 0..N : \E h : Is(h, k) }
  <2>1. 0 \in B
    <3>1. Is([ n \in 0..0 |-> a ], 0)
      OBVIOUS
    <3> HIDE DEF Is
    <3> QED BY <3>1, <1>3
  <2>2. ASSUME NEW k \in 1..N, k - 1 \in B PROVE k \in B
    <3>1. PICK g : Is(g, k - 1)
      BY <2>2
    <3> DEFINE h == [ n \in 0..k |-> IF n = k THEN Step(g[k - 1]) ELSE g[n] ]
    <3>2. Is(h, k) /\ k \in 0..N
      BY <3>1, <1>3
    <3> HIDE DEF Is
    <3> QED BY <3>2
  <2>3. N \in B
    <3> HIDE DEF B
    <3> QED BY <2>1, <2>2, <1>3, RoundInduction
  <2> HIDE DEF Is
  <2> QED BY <2>3
<1> HIDE DEF joined
<1> DEFINE B == { k \in 0..N : IsExtended(joined[k], T) }
<1>5. 0 \in B
  BY <1>3, <1>4
<1>6. ASSUME NEW k \in 1..N, k - 1 \in B PROVE k \in B
  <2>1. k \in 0..N /\ k # 0
    BY <1>3
  <2>2. joined[k] = Step(joined[k - 1])
    BY <1>4, <2>1
  <2> QED BY <1>2, <1>6, <2>1, <2>2
<1>7. N \in B
  <2> HIDE DEF B
  <2> QED BY <1>3, <1>5, <1>6, RoundInduction
<1> QED BY <1>1, <1>7

\* The loop of AllAdded.
LEMMA AddToChunksFresh ==
  ASSUME NEW T, NEW before, NEW a, NEW t12r \in T, FreshSeq(before, T), IsAdded(a, T),
         IsInput(a.input)
  PROVE  FreshSeq(AddToChunks(before, a, t12r), T)
<1> DEFINE N == MaxRounds
           first == [ before |-> before, chunk |-> a.chunk, input |-> a.input ]
           Next1(b) == AddCompositionInput(NewChunk(t12r),
                         [ b.input EXCEPT !.is_new_input = FALSE ])
           Step(b) == IF b.input.raw = << >> /\ b.input.conversion = << >> THEN b
                      ELSE [ before |-> Append(b.before, b.chunk),
                             chunk |-> Next1(b).chunk, input |-> Next1(b).input ]
           Is(h, k) == h = [ n \in 0..k |-> IF n = 0 THEN first ELSE Step(h[n - 1]) ]
           added == CHOOSE h : Is(h, N)
           OK(b) == FreshSeq(b.before, T) /\ Fresh(b.chunk, T) /\ IsInput(b.input)
<1>1. AllAdded(before, a, t12r) = added[N]
  BY DEF AllAdded, WithNextChunk
<1>2. ASSUME NEW b, OK(b) PROVE OK(Step(b))
  <2>1. Fresh(Next1(b).chunk, T) /\ IsInput(Next1(b).input)
    <3> DEFINE input == [ b.input EXCEPT !.is_new_input = FALSE ]
    <3>1. IsInput(input)
      BY <1>2, NothingInput
    <3> HIDE DEF input
    <3>2. /\ IsAdded(AddCompositionInput(NewChunk(t12r), input), T)
          /\ IsInput(AddCompositionInput(NewChunk(t12r), input).input)
      BY <3>1, NewChunkFresh, AddCompositionInputFresh
    <3> QED BY <3>2 DEF IsAdded, input
  <2>2. FreshSeq(Append(b.before, b.chunk), T)
    BY <1>2, FreshAppend
  <2> HIDE DEF Next1
  <2> QED BY <1>2, <2>1, <2>2
<1>3. N \in Nat /\ 0 \in 0..N /\ N \in 0..N /\ OK(first)
  BY RoundsAssumption DEF IsAdded
<1> HIDE DEF N, Step, OK, first
<1>4. Is(added, N)
  <2> DEFINE B == { k \in 0..N : \E h : Is(h, k) }
  <2>1. 0 \in B
    <3>1. Is([ n \in 0..0 |-> first ], 0)
      OBVIOUS
    <3> HIDE DEF Is
    <3> QED BY <3>1, <1>3
  <2>2. ASSUME NEW k \in 1..N, k - 1 \in B PROVE k \in B
    <3>1. PICK g : Is(g, k - 1)
      BY <2>2
    <3> DEFINE h == [ n \in 0..k |-> IF n = k THEN Step(g[k - 1]) ELSE g[n] ]
    <3>2. Is(h, k) /\ k \in 0..N
      BY <3>1, <1>3
    <3> HIDE DEF Is
    <3> QED BY <3>2
  <2>3. N \in B
    <3> HIDE DEF B
    <3> QED BY <2>1, <2>2, <1>3, RoundInduction
  <2> HIDE DEF Is
  <2> QED BY <2>3
<1> HIDE DEF added
<1> DEFINE B == { k \in 0..N : OK(added[k]) }
<1>5. 0 \in B
  BY <1>3, <1>4
<1>6. ASSUME NEW k \in 1..N, k - 1 \in B PROVE k \in B
  <2>1. k \in 0..N /\ k # 0
    BY <1>3
  <2>2. added[k] = Step(added[k - 1])
    BY <1>4, <2>1
  <2> QED BY <1>2, <1>6, <2>1, <2>2
<1>7. N \in B
  <2> HIDE DEF B
  <2> QED BY <1>3, <1>5, <1>6, RoundInduction
<1> DEFINE all == AllAdded(before, a, t12r)
<1>8. FreshSeq(all.before, T) /\ Fresh(all.chunk, T)
  BY <1>1, <1>7 DEF OK
<1>9. FreshSeq(Append(all.before, all.chunk), T)
  BY <1>8, FreshAppend
<1> HIDE DEF all
<1> QED BY <1>8, <1>9 DEF AddToChunks, EraseEmpty, all

\* InsertInput.
LEMMA InsertInputFresh ==
  ASSUME NEW T, NEW s, NEW t12r \in T, NEW position \in Int, NEW input, FreshSeq(s, T),
         IsInput(input)
  PROVE  IsComposition(InsertInput(s, t12r, position, input), T)
<1> DEFINE split == MaybeSplitChunkAt(s, position)
           chunks == split.chunks
           right == FirstFilled(split, t12r)
           filled == { i \in split.right..Len(chunks) : GetLength(chunks[i], t12r) # 0 }
           before == SubSeq(chunks, 1, right - 1)
           after == SubSeq(chunks, right, Len(chunks))
           extended == Extended(before, input, t12r)
           left == AddTo(extended, input, t12r)
<1>1. InsertInput(s, t12r, position, input) = CursorBetween(left, after)
  BY DEF InsertInput, InsertAtSplit, InsertBefore
<1>2. FreshSeq(chunks, T) /\ split.right \in 1..Len(chunks) + 1 /\ Len(chunks) \in Nat
  BY MaybeSplitChunkAtFresh, FreshElements DEF IsSplit
<1>3. right = IF filled = {} THEN Len(chunks) + 1
              ELSE CHOOSE i \in filled : \A j \in filled : i <= j
  BY DEF FirstFilled
<1> HIDE DEF split, right
<1>4. filled \subseteq 1..Len(chunks) /\ filled \subseteq Nat
  BY <1>2
<1>5. filled # {} => \E i \in filled : \A j \in filled : i <= j
  <2> HIDE DEF filled
  <2> QED BY <1>4, LeastNumber
<1>6. right \in 1..Len(chunks) + 1
  <2> HIDE DEF filled
  <2>1. CASE filled = {}
    BY <1>2, <1>3, <2>1
  <2>2. CASE filled # {}
    <3>1. right \in filled
      BY <1>3, <1>5, <2>2
    <3> QED BY <1>2, <1>4, <3>1
  <2> QED BY <2>1, <2>2
<1> HIDE DEF chunks
<1>7. FreshSeq(before, T) /\ FreshSeq(after, T)
  BY <1>2, <1>6, FreshParts
<1> HIDE DEF before, after
<1>8. IsExtended(extended, T)
  <2>1. CASE before # << >> /\ IsAppendable(Last(before), t12r)
    <3>1. 1 \in 1..Len(before) + 1
      BY <1>7, FreshElements
    <3>2. FreshSeq(Front(before), T) /\ Fresh(Last(before), T)
      BY <1>7, <2>1, <3>1, FreshParts
    <3>3. extended = CombinePendingChunks(Front(before), Last(before), input, t12r)
      BY <2>1 DEF Extended
    <3> HIDE DEF extended
    <3> QED BY <3>2, <3>3, CombinePendingChunksFresh
  <2>2. CASE ~ (before # << >> /\ IsAppendable(Last(before), t12r))
    <3>1. extended = CombinePendingChunks(before, NewChunk(t12r), input, t12r)
      BY <2>2 DEF Extended
    <3> HIDE DEF extended
    <3> QED BY <1>7, <3>1, NewChunkFresh, CombinePendingChunksFresh
  <2> QED BY <2>1, <2>2
<1> HIDE DEF extended
<1>9. FreshSeq(left, T)
  <2>1. /\ IsAdded(AddCompositionInput(extended.it, input), T)
        /\ IsInput(AddCompositionInput(extended.it, input).input)
    BY <1>8, AddCompositionInputFresh DEF IsExtended
  <2> QED BY <1>8, <2>1, AddToChunksFresh DEF AddTo, IsExtended
<1> HIDE DEF left
<1> QED BY <1>1, <1>7, <1>9, CursorBetweenFresh

\* A round of the loop in DeleteAt leaves the cursor between the chunks.
LEMMA DeleteRightOfFresh ==
  ASSUME NEW T, NEW split, IsSplit(split, T)
  PROVE  IsComposition(DeleteRightOf(split), T)
<1> DEFINE s == split.chunks
           i == split.right
           a == SubSeq(s, 1, i - 1)
           b == IF GetLength(s[i], "LOCAL") <= 1 THEN << >> ELSE << SplitChunk(s[i], 1)[2] >>
           d == SubSeq(s, i + 1, Len(s))
           x == DeleteRightOf(split)
           here == EndsOf(s, "LOCAL")[i - 1]
<1>1. FreshSeq(s, T) /\ i \in 1..Len(s) + 1 /\ Len(s) \in Nat
      /\ \A j \in 1..Len(s) : Fresh(s[j], T)
  BY FreshElements DEF IsSplit
<1>2. /\ x.chunks = IF i > Len(s) THEN s ELSE AllMeasured(a \o b \o d)
      /\ x.position = here
  BY DEF DeleteRightOf, DropFirst, PositionOf
<1> SUFFICES IsComposition(x, T)
  OBVIOUS
<1> HIDE DEF x
<1>3. CASE i > Len(s)
  <2>1. i - 1 = Len(s)
    BY <1>1, <1>3
  <2>2. here = TotalLength(s, "LOCAL") /\ TotalLength(s, "LOCAL") \in Nat
    BY <1>1, <2>1, TotalLengthNat DEF TotalLength
  <2>3. x.chunks = s /\ x.position \in 0..TotalLength(s, "LOCAL")
    BY <1>2, <1>3, <2>2
  <2> QED BY <1>1, <2>3 DEF IsComposition
<1>4. CASE ~ (i > Len(s))
  <2>1. i \in 1..Len(s) /\ i + 1 \in 1..Len(s) + 1
    BY <1>1, <1>4
  <2> HIDE DEF s, i
  <2>2. FreshSeq(a, T) /\ FreshSeq(d, T) /\ Len(a) = i - 1
    BY <1>1, <2>1, FreshParts
  <2>3. FreshSeq(b, T)
    <3>1. PICK left, right : /\ SplitChunk(s[i], 1) = << left, right >>
                             /\ Fresh(left, T) /\ Fresh(right, T)
      BY <1>1, <2>1, SplitChunkFresh
    <3>2. SplitChunk(s[i], 1)[2] = right
      BY <3>1
    <3> QED BY <3>1, <3>2, FreshOne, FreshEmpty
  <2>4. TotalLength(a, "LOCAL") = here
    <3>1. \A j \in 1..i - 1 : a[j] = s[j]
      BY <1>1, <2>1 DEF FreshSeq
    <3>2. i - 1 \in Nat /\ i - 1 <= Len(a) /\ i - 1 <= Len(s)
      BY <1>1, <2>1, <2>2
    <3> HIDE DEF a
    <3>3. EndsOf(a, "LOCAL")[i - 1] = EndsOf(s, "LOCAL")[i - 1]
      BY <1>1, <2>2, <3>1, <3>2, EqualEnds
    <3> QED BY <2>2, <3>3 DEF TotalLength
  <2> HIDE DEF a, b, d, here
  <2> DEFINE e == a \o (b \o d)
  <2>5. FreshSeq(b \o d, T) /\ FreshSeq(e, T)
    BY <2>2, <2>3, FreshConcat
  <2>6. a \o b \o d = e
    <3>1. PICK A : a \in Seq(A)
      BY <2>2 DEF FreshSeq
    <3>2. PICK B : b \in Seq(B)
      BY <2>3 DEF FreshSeq
    <3>3. PICK D : d \in Seq(D)
      BY <2>2 DEF FreshSeq
    <3> DEFINE V == A \cup B \cup D
    <3>4. a \in Seq(V) /\ b \in Seq(V) /\ d \in Seq(V)
      BY <3>1, <3>2, <3>3, SeqMonotonic
    <3> HIDE DEF V
    <3> QED BY <3>4, ConcatAssociative
  <2>7. here \in 0..TotalLength(e, "LOCAL")
    BY <2>2, <2>4, <2>5, BetweenInside
  <2> HIDE DEF e
  <2>8. FreshSeq(AllMeasured(e), T)
        /\ TotalLength(AllMeasured(e), "LOCAL") = TotalLength(e, "LOCAL")
    BY <2>5, AllMeasuredFresh, MeasuredLength
  <2>9. x.chunks = AllMeasured(e) /\ x.position = here
    BY <1>2, <1>4, <2>6
  <2> QED BY <2>7, <2>8, <2>9 DEF IsComposition
<1> QED BY <1>3, <1>4

\* The loop of Composition::DeleteAt.
LEMMA DeleteAtFresh ==
  ASSUME NEW T, NEW s, NEW position \in Int, FreshSeq(s, T)
  PROVE  /\ FreshSeq(DeleteAt(s, position).chunks, T)
         /\ DeleteAt(s, position).position \in Int
         /\ position \in 0..TotalLength(s, "LOCAL") => IsComposition(DeleteAt(s, position), T)
<1> DEFINE N == MaxRounds
           first == [ chunks |-> s, position |-> position, break |-> FALSE ]
           Step(d) == IF \/ d.break \/ d.chunks = << >>
                         \/ TotalLength(d.chunks, "LOCAL") # TotalLength(s, "LOCAL")
                      THEN d
                      ELSE DeleteRightOf(MaybeSplitChunkAt(d.chunks, position))
           Is(h, k) == h = [ n \in 0..k |-> IF n = 0 THEN first ELSE Step(h[n - 1]) ]
           deleted == CHOOSE h : Is(h, N)
           OK(d) == /\ FreshSeq(d.chunks, T) /\ d.position \in Int
                    /\ position \in 0..TotalLength(s, "LOCAL") => IsComposition(d, T)
<1>1. DeleteAt(s, position) = deleted[N]
  BY DEF DeleteAt
<1>2. ASSUME NEW d, OK(d) PROVE OK(Step(d))
  <2> DEFINE e == DeleteRightOf(MaybeSplitChunkAt(d.chunks, position))
  <2>1. IsComposition(e, T)
    BY <1>2, MaybeSplitChunkAtFresh, DeleteRightOfFresh
  <2>2. TotalLength(e.chunks, "LOCAL") \in Nat
    BY <2>1, TotalLengthNat DEF IsComposition
  <2>3. FreshSeq(e.chunks, T) /\ e.position \in Int
    BY <2>1, <2>2 DEF IsComposition
  <2> HIDE DEF e
  <2>4. OK(e)
    BY <2>1, <2>3
  <2>5. Step(d) = d \/ Step(d) = e
    BY DEF e
  <2> HIDE DEF OK, Step
  <2> QED BY <1>2, <2>4, <2>5
<1>3. N \in Nat /\ 0 \in 0..N /\ N \in 0..N /\ OK(first)
  BY RoundsAssumption DEF IsComposition
<1> HIDE DEF N, Step, OK, first
<1>4. Is(deleted, N)
  <2> DEFINE B == { k \in 0..N : \E h : Is(h, k) }
  <2>1. 0 \in B
    <3>1. Is([ n \in 0..0 |-> first ], 0)
      OBVIOUS
    <3> HIDE DEF Is
    <3> QED BY <3>1, <1>3
  <2>2. ASSUME NEW k \in 1..N, k - 1 \in B PROVE k \in B
    <3>1. PICK g : Is(g, k - 1)
      BY <2>2
    <3> DEFINE h == [ n \in 0..k |-> IF n = k THEN Step(g[k - 1]) ELSE g[n] ]
    <3>2. Is(h, k) /\ k \in 0..N
      BY <3>1, <1>3
    <3> HIDE DEF Is
    <3> QED BY <3>2
  <2>3. N \in B
    <3> HIDE DEF B
    <3> QED BY <2>1, <2>2, <1>3, RoundInduction
  <2> HIDE DEF Is
  <2> QED BY <2>3
<1> HIDE DEF deleted
<1> DEFINE B == { k \in 0..N : OK(deleted[k]) }
<1>5. 0 \in B
  BY <1>3, <1>4
<1>6. ASSUME NEW k \in 1..N, k - 1 \in B PROVE k \in B
  <2>1. k \in 0..N /\ k # 0
    BY <1>3
  <2>2. deleted[k] = Step(deleted[k - 1])
    BY <1>4, <2>1
  <2> QED BY <1>2, <1>6, <2>1, <2>2
<1>7. N \in B
  <2> HIDE DEF B
  <2> QED BY <1>3, <1>5, <1>6, RoundInduction
<1> QED BY <1>1, <1>7 DEF OK

-----------------------------------------------------------------------------
(***************************************************************************)
(* The composer.  M is the set of input modes that occur, and Scripts(M)   *)
(* what a chunk may be shown in.                                           *)
(***************************************************************************)

ComposerFields == {"chunks", "input_t12r", "position", "input_mode",
                   "comeback_input_mode", "is_new_input", "shifted_sequence_count"}

Scripts(M) == M \cup {"CONVERSION_STRING", "RAW_STRING"}

\* A composer whose chunks are fresh, while a key is inserted as it is.
Good(c, M) ==
  /\ c = [ f \in ComposerFields |-> c[f] ]
  /\ FreshSeq(c.chunks, Scripts(M))
  /\ c.input_mode \in M /\ c.comeback_input_mode \in M
  /\ c.input_t12r \in Scripts(M) /\ c.position \in Int

\* A composer between two operations: it inserts in the script of its mode.
Well(c, M) == Good(c, M) /\ c.input_t12r \in {c.input_mode, "RAW_STRING"}

\* The cursor is in the text, as the lengths of the chunks have it.
InText(c) == c.position \in 0..TotalLength(c.chunks, "LOCAL")

\* Between two operations, with the cursor in the text if it was before.
Keeps(c, d, M) == Well(d, M) /\ (InText(c) => InText(d))

LEMMA KeepsBoth ==
  ASSUME NEW M, NEW c, NEW d, NEW e, Keeps(c, d, M), Keeps(d, e, M)
  PROVE  Keeps(c, e, M)
BY DEF Keeps

\* What changes neither the chunks nor the cursor.
LEMMA KeepsText ==
  ASSUME NEW M, NEW c, NEW d, Well(d, M), d.chunks = c.chunks, d.position = c.position
  PROVE  Keeps(c, d, M)
BY DEF Keeps, InText

LEMMA WellGood ==
  ASSUME NEW M, NEW c, Well(c, M)
  PROVE  Good(c, M)
BY DEF Well

\* More modes do no harm.
LEMMA WellMonotone ==
  ASSUME NEW M, NEW L, NEW c, Well(c, M), M \subseteq L
  PROVE  Well(c, L)
<1> DEFINE T == Scripts(M)
           U == Scripts(L)
<1>1. T \subseteq U
  BY DEF Scripts
<1> HIDE DEF T, U
<1>2. PICK S : c.chunks \in Seq(S) /\ \A d \in S : Fresh(d, T)
  BY DEF Well, Good, FreshSeq, T
<1>3. \A d \in S : Fresh(d, U)
  BY <1>1, <1>2 DEF Fresh, Stale
<1>4. FreshSeq(c.chunks, U)
  BY <1>2, <1>3 DEF FreshSeq
<1> QED BY <1>1, <1>4 DEF Well, Good, T, U

\* A field that is no mode may change.
LEMMA OtherField ==
  ASSUME NEW M, NEW c, NEW x, Good(c, M)
  PROVE  /\ x \in Int => Good([ c EXCEPT !.position = x ], M)
         /\ Good([ c EXCEPT !.is_new_input = x ], M)
         /\ Good([ c EXCEPT !.shifted_sequence_count = x ], M)
         /\ [ c EXCEPT !.position = x ].chunks = c.chunks
         /\ [ c EXCEPT !.position = x ].position = x
BY DEF Good, ComposerFields

LEMMA OtherFieldWell ==
  ASSUME NEW M, NEW c, NEW x, Well(c, M)
  PROVE  /\ x \in Int => Well([ c EXCEPT !.position = x ], M)
         /\ Well([ c EXCEPT !.is_new_input = x ], M)
         /\ Well([ c EXCEPT !.shifted_sequence_count = x ], M)
<1>1. Good(c, M)
  BY DEF Well
<1>2. /\ [ c EXCEPT !.position = x ].input_mode = c.input_mode
      /\ [ c EXCEPT !.position = x ].input_t12r = c.input_t12r
      /\ [ c EXCEPT !.is_new_input = x ].input_mode = c.input_mode
      /\ [ c EXCEPT !.is_new_input = x ].input_t12r = c.input_t12r
      /\ [ c EXCEPT !.shifted_sequence_count = x ].input_mode = c.input_mode
      /\ [ c EXCEPT !.shifted_sequence_count = x ].input_t12r = c.input_t12r
  BY <1>1 DEF Good, ComposerFields
<1>3. /\ x \in Int => Good([ c EXCEPT !.position = x ], M)
      /\ Good([ c EXCEPT !.is_new_input = x ], M)
      /\ Good([ c EXCEPT !.shifted_sequence_count = x ], M)
  BY <1>1, OtherField
<1> QED BY <1>2, <1>3 DEF Well

\* The chunks may change for others that are fresh.
LEMMA WithChunks ==
  ASSUME NEW M, NEW c, NEW s, Good(c, M), FreshSeq(s, Scripts(M))
  PROVE  /\ Good([ c EXCEPT !.chunks = s ], M)
         /\ [ c EXCEPT !.chunks = s ].chunks = s
         /\ [ c EXCEPT !.chunks = s ].position = c.position
         /\ [ c EXCEPT !.chunks = s ].input_mode = c.input_mode
         /\ [ c EXCEPT !.chunks = s ].input_t12r = c.input_t12r
BY DEF Good, ComposerFields

LEMMA AskedWell ==
  ASSUME NEW M, NEW c, Well(c, M)
  PROVE  /\ Keeps(c, Asked(c), M) /\ Asked(c).position = c.position
         /\ Asked(c).chunks = AllMeasured(c.chunks)
<1> DEFINE s == AllMeasured(c.chunks)
           d == [ c EXCEPT !.chunks = s ]
<1>1. Asked(c) = d
  BY DEF Asked, Well, Good, ComposerFields
<1>2. /\ FreshSeq(s, Scripts(M)) /\ Good(c, M)
      /\ TotalLength(s, "LOCAL") = TotalLength(c.chunks, "LOCAL")
  BY AllMeasuredFresh, MeasuredLength DEF Well, Good
<1> HIDE DEF s
<1>3. /\ Good(d, M) /\ d.chunks = s /\ d.position = c.position
      /\ d.input_mode = c.input_mode /\ d.input_t12r = c.input_t12r
  BY <1>2, WithChunks
<1> HIDE DEF d
<1>4. Keeps(c, d, M)
  BY <1>2, <1>3 DEF Well, Keeps, InText
<1> QED BY <1>1, <1>3, <1>4 DEF s

LEMMA NewInputModeWell ==
  ASSUME NEW M, NEW c, NEW mode \in M, Good(c, M)
  PROVE  /\ Well(NewInputMode(c, mode), M)
         /\ NewInputMode(c, mode).chunks = c.chunks
         /\ NewInputMode(c, mode).position = c.position
         /\ NewInputMode(c, mode).input_mode = mode
<1> DEFINE d == NewInputMode(c, mode)
<1>1. /\ d = [ f \in ComposerFields |-> d[f] ]
      /\ d.chunks = c.chunks /\ d.position = c.position /\ d.input_mode = mode
      /\ d.input_t12r = mode /\ d.comeback_input_mode = c.comeback_input_mode
  BY DEF NewInputMode, Good, ComposerFields
<1> HIDE DEF d
<1>2. Well(d, M)
  BY <1>1 DEF Well, Good, Scripts
<1> QED BY <1>1, <1>2 DEF d

\* SetInputMode and SetTemporaryInputMode: the mode to come back to.
LEMMA WithComeback ==
  ASSUME NEW M, NEW c, NEW mode \in M, Well(c, M)
  PROVE  LET d == [ c EXCEPT !.comeback_input_mode = mode ]
         IN  Well(d, M) /\ d.chunks = c.chunks /\ d.position = c.position
BY DEF Well, Good, ComposerFields

LEMMA SetInputModeWell ==
  ASSUME NEW M, NEW c, NEW mode \in M, Good(c, M)
  PROVE  /\ Keeps(c, SetInputMode(c, mode), M)
         /\ SetInputMode(c, mode).chunks = c.chunks
         /\ SetInputMode(c, mode).position = c.position
<1> DEFINE e == NewInputMode(c, mode)
<1>1. Well(e, M) /\ e.chunks = c.chunks /\ e.position = c.position
  BY NewInputModeWell
<1>2. SetInputMode(c, mode) = [ e EXCEPT !.comeback_input_mode = mode ]
  BY DEF SetInputMode
<1> HIDE DEF e
<1> DEFINE d == [ e EXCEPT !.comeback_input_mode = mode ]
<1>3. Well(d, M) /\ d.chunks = c.chunks /\ d.position = c.position
  BY <1>1, WithComeback
<1> HIDE DEF d
<1>4. Keeps(c, d, M)
  BY <1>3, KeepsText
<1> QED BY <1>2, <1>3, <1>4 DEF d

LEMMA SetTemporaryInputModeWell ==
  ASSUME NEW M, NEW c, NEW mode \in M, Good(c, M)
  PROVE  Keeps(c, SetTemporaryInputMode(c, mode), M)
<1> DEFINE e == NewInputMode(c, mode)
           back == c.input_mode
<1>1. Well(e, M) /\ back \in M /\ e.chunks = c.chunks /\ e.position = c.position
  BY NewInputModeWell DEF Good
<1>2. SetTemporaryInputMode(c, mode) = [ e EXCEPT !.comeback_input_mode = back ]
  BY DEF SetTemporaryInputMode
<1> HIDE DEF e, back
<1> DEFINE d == [ e EXCEPT !.comeback_input_mode = back ]
<1>3. Well(d, M) /\ d.chunks = c.chunks /\ d.position = c.position
  BY <1>1, WithComeback
<1> HIDE DEF d
<1>4. Keeps(c, d, M)
  BY <1>3, KeepsText
<1> QED BY <1>2, <1>4 DEF d

LEMMA ComeBackWell ==
  ASSUME NEW M, NEW c, Good(c, M)
  PROVE  /\ Keeps(c, ComeBack(c), M)
         /\ ComeBack(c).chunks = c.chunks /\ ComeBack(c).position = c.position
<1>1. c.comeback_input_mode \in M
  BY DEF Good
<1> QED BY <1>1, SetInputModeWell DEF ComeBack

LEMMA InModeWell ==
  ASSUME NEW M, NEW c, NEW mode \in M, Well(c, M)
  PROVE  Keeps(c, InMode(c, mode), M)
BY SetInputModeWell, WellGood, KeepsText DEF InMode

\* The composition changes, and with it the cursor.
LEMMA RecomposedGood ==
  ASSUME NEW M, NEW c, NEW composition, Good(c, M),
         FreshSeq(composition.chunks, Scripts(M)), composition.position \in Int
  PROVE  LET d == Recomposed(c, composition)
         IN  /\ Good(d, M) /\ d.chunks = composition.chunks
             /\ d.position = composition.position
             /\ d.input_mode = c.input_mode /\ d.input_t12r = c.input_t12r
BY DEF Recomposed, Good, ComposerFields

LEMMA CompositionPosition ==
  ASSUME NEW M, NEW composition, IsComposition(composition, Scripts(M))
  PROVE  FreshSeq(composition.chunks, Scripts(M)) /\ composition.position \in Int
<1>1. TotalLength(composition.chunks, "LOCAL") \in Nat
  BY TotalLengthNat DEF IsComposition
<1> QED BY <1>1 DEF IsComposition

LEMMA RecomposedWell ==
  ASSUME NEW M, NEW c, NEW composition, Well(c, M), IsComposition(composition, Scripts(M))
  PROVE  Keeps(c, Recomposed(c, composition), M) /\ InText(Recomposed(c, composition))
<1> DEFINE d == Recomposed(c, composition)
<1>1. /\ Good(d, M) /\ d.chunks = composition.chunks /\ d.position = composition.position
      /\ d.input_mode = c.input_mode /\ d.input_t12r = c.input_t12r
  BY CompositionPosition, RecomposedGood, WellGood
<1> HIDE DEF d
<1>2. Well(d, M) /\ InText(d)
  BY <1>1 DEF Well, IsComposition, InText
<1> QED BY <1>2 DEF Keeps, d

LEMMA InsertedGood ==
  ASSUME NEW M, NEW c, NEW composition, Good(c, M), IsComposition(composition, Scripts(M))
  PROVE  LET d == Inserted(c, composition)
         IN  /\ Good(d, M) /\ InText(d)
             /\ d.input_mode = c.input_mode /\ d.input_t12r = c.input_t12r
<1> DEFINE e == Recomposed(c, composition)
           d == [ e EXCEPT !.is_new_input = FALSE ]
<1>1. /\ Good(e, M) /\ e.input_mode = c.input_mode /\ e.input_t12r = c.input_t12r
      /\ e.chunks = composition.chunks /\ e.position = composition.position
  BY CompositionPosition, RecomposedGood
<1>2. Inserted(c, composition) = d
  BY DEF Inserted
<1> HIDE DEF e
<1>3. /\ Good(d, M) /\ d.input_mode = e.input_mode /\ d.input_t12r = e.input_t12r
      /\ d.chunks = e.chunks /\ d.position = e.position
  BY <1>1, OtherField DEF Good, ComposerFields
<1> HIDE DEF d
<1>4. InText(d)
  BY <1>1, <1>3 DEF InText, IsComposition
<1> QED BY <1>1, <1>2, <1>3, <1>4

IsKey(key) == IsString(key.raw) /\ IsString(key.conversion)

\* ProcessCompositionInput, the insertion of a key.
LEMMA ProcessCompositionInputGood ==
  ASSUME NEW M, NEW c, NEW key, NEW new, Good(c, M), IsKey(key)
  PROVE  LET d == ProcessCompositionInput(c, key, new)
         IN  /\ Good(d, M) /\ (InText(c) => InText(d))
             /\ d.input_mode = c.input_mode /\ d.input_t12r = c.input_t12r
<1> DEFINE input == [ raw |-> key.raw, conversion |-> key.conversion,
                      is_asis |-> key.is_asis, is_new_input |-> new ]
           s == AllMeasured(c.chunks)
           composition == InsertInput(s, c.input_t12r, c.position, input)
<1>1. /\ FreshSeq(s, Scripts(M)) /\ c.input_t12r \in Scripts(M) /\ c.position \in Int
      /\ IsInput(input)
  BY AllMeasuredFresh DEF Good, IsInput, IsKey
<1>2. ProcessCompositionInput(c, key, new)
        = IF EnableInsert(c) THEN Inserted(c, composition) ELSE c
  BY DEF ProcessCompositionInput
<1> HIDE DEF s, input
<1>3. IsComposition(composition, Scripts(M))
  BY <1>1, InsertInputFresh
<1> HIDE DEF composition
<1> QED BY <1>2, <1>3, InsertedGood

LEMMA ProcessCompositionInputWell ==
  ASSUME NEW M, NEW c, NEW key, NEW new, Well(c, M), IsKey(key)
  PROVE  Keeps(c, ProcessCompositionInput(c, key, new), M)
BY ProcessCompositionInputGood DEF Well, Keeps

\* SetOutputMode, EditErase and Reset.
LEMMA SetOutputModeWell ==
  ASSUME NEW M, NEW c, NEW mode \in M, Well(c, M)
  PROVE  Keeps(c, SetOutputMode(c, mode), M)
<1> DEFINE s == SetTransliterators(c.chunks, 0, Length(c), mode)
           composition == CursorBetween(s, << >>)
<1>1. FreshSeq(s, Scripts(M))
  BY SetTransliteratorsFresh DEF Well, Good, Scripts
<1>2. SetOutputMode(c, mode) = Recomposed(c, composition)
  BY DEF SetOutputMode
<1> HIDE DEF s
<1>3. IsComposition(composition, Scripts(M))
  BY <1>1, FreshEmpty, CursorBetweenFresh
<1> HIDE DEF composition
<1> QED BY <1>2, <1>3, RecomposedWell

LEMMA EditEraseWell ==
  ASSUME NEW M, NEW c, Well(c, M)
  PROVE  Keeps(c, EditErase(c), M)
<1> DEFINE d == [ c EXCEPT !.chunks = << >>, !.position = 0 ]
<1>1. Good(d, M) /\ d.chunks = << >> /\ d.position = 0
  <2>1. FreshSeq(<< >>, Scripts(M)) /\ 0 \in Int
    BY FreshEmpty
  <2> QED BY <2>1 DEF Well, Good, ComposerFields
<1> HIDE DEF d
<1>2. TotalLength(<< >>, "LOCAL") \in Nat
  BY FreshEmpty, TotalLengthNat
<1>3. InText(d)
  BY <1>1, <1>2 DEF InText
<1>4. Keeps(d, ComeBack(d), M)
  BY <1>1, ComeBackWell
<1> QED BY <1>3, <1>4 DEF EditErase, d, Keeps

LEMMA ResetWell ==
  ASSUME NEW M, NEW c, Modes \subseteq M, Well(c, M)
  PROVE  Keeps(c, Reset(c), M)
<1> DEFINE d == EditErase(c)
<1>1. "HIRAGANA" \in M /\ Keeps(c, d, M)
  BY EditEraseWell DEF Modes
<1>2. Reset(c) = SetOutputMode(d, "HIRAGANA")
  BY DEF Reset
<1> HIDE DEF d
<1>3. Keeps(d, SetOutputMode(d, "HIRAGANA"), M)
  BY <1>1, SetOutputModeWell DEF Keeps
<1> QED BY <1>1, <1>2, <1>3, KeepsBoth

\* UpdateInputMode: the mode comes from a chunk, if there is one.
LEMMA UpdateInputModeWell ==
  ASSUME NEW M, NEW c, Well(c, M)
  PROVE  LET d == UpdateInputMode(c)
         IN  /\ d.chunks = c.chunks /\ d.position = c.position
             /\ \E L : M \subseteq L /\ Well(d, L)
             /\ (c.chunks = << >> => c.position = 0) => Well(d, M)
<1> DEFINE d == UpdateInputMode(c)
           at(p) == GetTransliterator(c.chunks[GetChunkAt(c.chunks, p, "LOCAL").it], "LOCAL")
           t12r == at(c.position)
           same == c.position = Length(c) \/ t12r = at(c.position + 1)
           mode == IF t12r \in {"CONVERSION_STRING", "RAW_STRING"}
                   THEN c.comeback_input_mode ELSE t12r
           L == M \cup {mode}
<1>1. d = IF c.position # 0 /\ UpdateInputModeFromSurroundingText /\ same
          THEN NewInputMode(c, mode) ELSE ComeBack(c)
  BY DEF UpdateInputMode
<1>2. Good(c, M) /\ Well(c, L)
  BY WellMonotone DEF Well
<1>3. ASSUME c.chunks # << >> PROVE mode \in M
  <2> DEFINE i == GetChunkAt(c.chunks, c.position, "LOCAL").it
  <2>1. FreshSeq(c.chunks, Scripts(M)) /\ c.comeback_input_mode \in M
    BY <1>2 DEF Good
  <2>2. i \in 1..Len(c.chunks)
    BY <1>3, <2>1, ChunkInside
  <2>3. c.chunks[i].transliterator \in Scripts(M)
    BY <2>1, <2>2, FreshElements DEF Fresh, Stale
  <2>4. t12r \in Scripts(M)
    <3>1. t12r = GetTransliterator(c.chunks[i], "LOCAL")
      OBVIOUS
    <3> HIDE DEF i, t12r
    <3> QED BY <2>3, <3>1 DEF GetTransliterator, Scripts
  <2> HIDE DEF t12r
  <2> QED BY <2>1, <2>4 DEF Scripts
<1> HIDE DEF d, same, mode
<1>4. CASE c.position # 0 /\ UpdateInputModeFromSurroundingText /\ same
  <2>1. d = NewInputMode(c, mode)
    BY <1>1, <1>4
  <2>2. mode \in L /\ M \subseteq L /\ Good(c, L)
    BY <1>2, WellGood
  <2>3. Well(d, L) /\ d.chunks = c.chunks /\ d.position = c.position
    BY <2>1, <2>2, NewInputModeWell
  <2>4. (c.chunks = << >> => c.position = 0) => Well(d, M)
    BY <1>2, <1>3, <1>4, <2>1, NewInputModeWell
  <2> HIDE DEF L
  <2> QED BY <2>2, <2>3, <2>4 DEF d
<1>5. CASE ~ (c.position # 0 /\ UpdateInputModeFromSurroundingText /\ same)
  <2>1. d = ComeBack(c)
    BY <1>1, <1>5
  <2>2. Well(d, M) /\ d.chunks = c.chunks /\ d.position = c.position
    BY <1>2, <2>1, ComeBackWell DEF Keeps
  <2> QED BY <2>2 DEF d
<1> QED BY <1>4, <1>5

\* Shifted letters.
LEMMA CountWell ==
  ASSUME NEW M, NEW c, NEW d, NEW n, Keeps(c, d, M)
  PROVE  Keeps(c, [ d EXCEPT !.shifted_sequence_count = n ], M)
<1> DEFINE e == [ d EXCEPT !.shifted_sequence_count = n ]
<1>1. Well(e, M)
  BY OtherFieldWell DEF Keeps
<1>2. e.chunks = d.chunks /\ e.position = d.position
  BY DEF Keeps, Well, Good, ComposerFields
<1> HIDE DEF e
<1>3. Keeps(c, e, M)
  BY <1>1, <1>2 DEF Keeps, InText
<1> QED BY <1>3 DEF e

LEMMA ApplyTemporaryInputModeWell ==
  ASSUME NEW M, NEW c, NEW key, Modes \subseteq M, Well(c, M)
  PROVE  Keeps(c, ApplyTemporaryInputMode(c, key), M)
<1> DEFINE count(d, n) == [ d EXCEPT !.shifted_sequence_count = n ]
           more(d) == count(d, IF d.shifted_sequence_count = 2 THEN 2
                               ELSE d.shifted_sequence_count + 1)
           ascii == SetTemporaryInputMode(c, "HALF_ASCII")
           katakana == SetTemporaryInputMode(c, "FULL_KATAKANA")
           Ways == { c, ComeBack(c), more(c), more(ascii), more(katakana),
                     count(c, 0), count(ComeBack(c), 0) }
<1>1. ApplyTemporaryInputMode(c, key) \in Ways
  <2> HIDE DEF ascii, katakana, count
  <2> QED BY DEF ApplyTemporaryInputMode, ascii, katakana, count
<1>2. Good(c, M) /\ "HALF_ASCII" \in M /\ "FULL_KATAKANA" \in M
  BY DEF Well, Modes
<1>3. /\ Keeps(c, c, M) /\ Keeps(c, ascii, M) /\ Keeps(c, katakana, M)
      /\ Keeps(c, ComeBack(c), M)
  BY <1>2, SetTemporaryInputModeWell, ComeBackWell, KeepsText
<1> HIDE DEF ascii, katakana
<1>4. \A w \in Ways : Keeps(c, w, M)
  <2>1. ASSUME NEW d, NEW n, Keeps(c, d, M) PROVE Keeps(c, count(d, n), M)
    BY <2>1, CountWell
  <2> HIDE DEF count
  <2>2. /\ Keeps(c, more(c), M) /\ Keeps(c, more(ascii), M) /\ Keeps(c, more(katakana), M)
        /\ Keeps(c, count(c, 0), M) /\ Keeps(c, count(ComeBack(c), 0), M)
    BY <1>3, <2>1
  <2> HIDE DEF more
  <2> QED BY <1>3, <2>2
<1> QED BY <1>1, <1>4

\* AutoSwitchMode.
LEMMA SwitchedWell ==
  ASSUME NEW M, NEW c, Modes \subseteq M, Well(c, M)
  PROVE  Keeps(c, Switched(c), M)
<1>0. Keeps(c, c, M)
  BY KeepsText
<1>1. ASSUME NEW rule \in {"REVERT_TO_PREVIOUS_MODE", "HALF_ALPHANUMERIC"}
      PROVE  Keeps(c, SwitchModeAfter(SwitchTextMode(c, rule), rule), M)
  <2> DEFINE d == SwitchTextMode(c, rule)
  <2>1. Keeps(c, d, M)
    <3>1. "FULL_ASCII" \in M /\ "HALF_ASCII" \in M
      BY DEF Modes
    <3> QED BY <3>1, SetOutputModeWell DEF SwitchTextMode
  <2> HIDE DEF d
  <2>2. Keeps(d, SwitchModeAfter(d, rule), M)
    <3>1. Good(d, M) /\ "HALF_ASCII" \in M /\ Keeps(d, d, M)
      BY <2>1, KeepsText DEF Modes, Well, Keeps
    <3>2. Keeps(d, ComeBack(d), M) /\ Keeps(d, SetTemporaryInputMode(d, "HALF_ASCII"), M)
      BY <3>1, ComeBackWell, SetTemporaryInputModeWell
    <3> QED BY <3>1, <3>2 DEF SwitchModeAfter
  <2>3. Keeps(c, SwitchModeAfter(d, rule), M)
    BY <2>1, <2>2, KeepsBoth
  <2> QED BY <2>3 DEF d
<1>2. Keeps(c, AutoSwitchMode(c), M)
  <2> DEFINE key == AsciiKey(c.chunks)
  <2>1. CASE key \notin DOMAIN SwitchingRules
    BY <1>0, <2>1 DEF AutoSwitchMode
  <2>2. CASE key \in DOMAIN SwitchingRules
    <3> DEFINE rule == SwitchingRules[key]
    <3>1. rule \in {"REVERT_TO_PREVIOUS_MODE", "HALF_ALPHANUMERIC"}
      BY <2>2, ModesAssumption
    <3>2. AutoSwitchMode(c) = SwitchModeAfter(SwitchTextMode(c, rule), rule)
      BY <2>2 DEF AutoSwitchMode
    <3> HIDE DEF rule, key
    <3> QED BY <1>1, <3>1, <3>2
  <2> QED BY <2>1, <2>2
<1> QED BY <1>0, <1>2 DEF Switched

\* A key is inserted as it is in a mode of its own, which ends with it.
LEMMA InsertWell ==
  ASSUME NEW M, NEW c, NEW key, Modes \subseteq M, Well(c, M), IsKey(key)
  PROVE  Keeps(c, Insert(c, key), M)
<1> DEFINE d == ModeForKey(c, key)
           e == ProcessCompositionInput(d, key, c.is_new_input)
<1>1. Insert(c, key) = ModeAfterKey(e, key)
  BY DEF Insert
<1>2. CASE key.conversion # << >> /\ key.is_asis
  <2>1. d = [ c EXCEPT !.input_t12r = "CONVERSION_STRING" ]
    BY <1>2 DEF ModeForKey
  <2>2. Good(d, M) /\ d.chunks = c.chunks /\ d.position = c.position
    BY <2>1 DEF Well, Good, ComposerFields, Scripts
  <2> HIDE DEF d
  <2>3. Good(e, M) /\ (InText(d) => InText(e)) /\ (InText(c) => InText(d))
    BY <2>2, ProcessCompositionInputGood DEF InText
  <2>4. Insert(c, key) = ComeBack(e)
    BY <1>1, <1>2 DEF ModeAfterKey
  <2> HIDE DEF e
  <2>5. Keeps(e, ComeBack(e), M)
    BY <2>3, ComeBackWell
  <2> QED BY <2>3, <2>4, <2>5 DEF Keeps
<1>3. CASE ~ (key.conversion # << >> /\ key.is_asis)
  <2>1. Keeps(c, d, M)
    BY <1>3, ApplyTemporaryInputModeWell, KeepsText DEF ModeForKey
  <2> HIDE DEF d
  <2>2. Keeps(d, e, M)
    BY <2>1, ProcessCompositionInputWell DEF Keeps
  <2>3. Insert(c, key) = e
    BY <1>1, <1>3 DEF ModeAfterKey
  <2> HIDE DEF e
  <2> QED BY <2>1, <2>2, <2>3, KeepsBoth
<1> QED BY <1>2, <1>3

LEMMA StopKeyString == IsKey(StopKey)
BY EmptyString, OneString DEF IsKey, StopKey

LEMMA PreparedWell ==
  ASSUME NEW M, NEW c, NEW mode \in M, NEW late, Well(c, M)
  PROVE  Keeps(c, Prepared(c, mode, late), M)
<1> DEFINE d == IF late THEN ProcessCompositionInput(c, StopKey, c.is_new_input) ELSE c
<1>1. Keeps(c, d, M)
  BY StopKeyString, ProcessCompositionInputWell, KeepsText
<1>2. Prepared(c, mode, late) = InMode(d, mode)
  BY DEF Prepared
<1> HIDE DEF d
<1>3. Keeps(d, InMode(d, mode), M)
  BY <1>1, InModeWell DEF Keeps
<1> QED BY <1>1, <1>2, <1>3, KeepsBoth

LEMMA DeletedAtWell ==
  ASSUME NEW M, NEW c, Well(c, M)
  PROVE  Keeps(c, DeletedAt(c), M)
<1> DEFINE composition == DeleteAt(c.chunks, c.position)
           d == Recomposed(c, composition)
<1>1. /\ FreshSeq(composition.chunks, Scripts(M)) /\ composition.position \in Int
      /\ InText(c) => IsComposition(composition, Scripts(M))
  BY DeleteAtFresh DEF Well, Good, InText
<1>2. DeletedAt(c) = d
  BY DEF DeletedAt
<1> HIDE DEF composition
<1>3. /\ Good(d, M) /\ d.chunks = composition.chunks /\ d.position = composition.position
      /\ d.input_mode = c.input_mode /\ d.input_t12r = c.input_t12r
  BY <1>1, WellGood, RecomposedGood
<1> HIDE DEF d
<1>4. Keeps(c, d, M)
  BY <1>1, <1>3 DEF Well, Keeps, InText, IsComposition
<1> QED BY <1>2, <1>4

\* The loop of DeleteRange.
LEMMA DeleteFirstWell ==
  ASSUME NEW M, NEW c, NEW length, Well(c, M)
  PROVE  Well(DeleteFirst(c, length), M)
<1> DEFINE N == MaxRounds
           Less(d) == [ d EXCEPT !.chunks = AllMeasured(DeleteAt(@, 0).chunks),
                                 !.position = IF @ > 0 THEN @ - 1 ELSE @ ]
           Step(d, n) == IF n > length \/ Length(d) = 0 THEN d ELSE Less(d)
           Is(h, k) == h = [ n \in 0..k |-> IF n = 0 THEN c ELSE Step(h[n - 1], n) ]
           deleted == CHOOSE h : Is(h, N)
<1>1. DeleteFirst(c, length) = deleted[N]
  BY DEF DeleteFirst
<1>2. ASSUME NEW d, NEW n, Well(d, M) PROVE Well(Step(d, n), M)
  <2> DEFINE s == AllMeasured(DeleteAt(d.chunks, 0).chunks)
             p == IF d.position > 0 THEN d.position - 1 ELSE d.position
             e == [ d EXCEPT !.chunks = s, !.position = p ]
  <2>1. FreshSeq(s, Scripts(M)) /\ p \in Int
    <3>1. 0 \in Int /\ FreshSeq(d.chunks, Scripts(M)) /\ d.position \in Int
      BY <1>2 DEF Well, Good
    <3>2. FreshSeq(DeleteAt(d.chunks, 0).chunks, Scripts(M))
      BY <3>1, DeleteAtFresh
    <3> QED BY <3>1, <3>2, AllMeasuredFresh
  <2>2. Less(d) = e
    BY <1>2 DEF Well, Good, ComposerFields
  <2> HIDE DEF s, p
  <2>3. Well(e, M)
    BY <1>2, <2>1 DEF Well, Good, ComposerFields
  <2> HIDE DEF e, Less
  <2> QED BY <1>2, <2>2, <2>3
<1>3. N \in Nat /\ 0 \in 0..N /\ N \in 0..N
  BY RoundsAssumption
<1> HIDE DEF N, Step
<1>4. Is(deleted, N)
  <2> DEFINE B == { k \in 0..N : \E h : Is(h, k) }
  <2>1. 0 \in B
    <3>1. Is([ n \in 0..0 |-> c ], 0)
      OBVIOUS
    <3> HIDE DEF Is
    <3> QED BY <3>1, <1>3
  <2>2. ASSUME NEW k \in 1..N, k - 1 \in B PROVE k \in B
    <3>1. PICK g : Is(g, k - 1)
      BY <2>2
    <3> DEFINE h == [ n \in 0..k |-> IF n = k THEN Step(g[k - 1], k) ELSE g[n] ]
    <3>2. Is(h, k) /\ k \in 0..N
      BY <3>1, <1>3
    <3> HIDE DEF Is
    <3> QED BY <3>2
  <2>3. N \in B
    <3> HIDE DEF B
    <3> QED BY <2>1, <2>2, <1>3, RoundInduction
  <2> HIDE DEF Is
  <2> QED BY <2>3
<1> HIDE DEF deleted
<1> DEFINE B == { k \in 0..N : Well(deleted[k], M) }
<1>5. 0 \in B
  BY <1>3, <1>4
<1>6. ASSUME NEW k \in 1..N, k - 1 \in B PROVE k \in B
  <2>1. k \in 0..N /\ k # 0
    BY <1>3
  <2>2. deleted[k] = Step(deleted[k - 1], k)
    BY <1>4, <2>1
  <2> QED BY <1>2, <1>6, <2>1, <2>2
<1>7. N \in B
  <2> HIDE DEF B
  <2> QED BY <1>3, <1>5, <1>6, RoundInduction
<1> QED BY <1>1, <1>7

\* The text is as long as its chunks.
LEMMA TextLength ==
  ASSUME NEW T, NEW c, FreshSeq(c.chunks, T)
  PROVE  Len(Text(c)) = TotalLength(c.chunks, "LOCAL")
<1> DEFINE s == c.chunks
           n == Len(s)
           f == [ i \in 1..n |-> Result(s[i], "LOCAL") ]
           ends == EndsOf(s, "LOCAL")
<1>1. n \in Nat /\ DOMAIN s = 1..n /\ \A i \in 1..n : Fresh(s[i], T)
  BY FreshElements
<1>2. Text(c) = FlattenSeq(f)
  BY <1>1 DEF Text
<1>3. \A i \in 1..n : f[i] = Result(s[i], "LOCAL") /\ IsString(f[i])
  BY <1>1, ResultString DEF Fresh
<1>4. f = [ i \in 1..n |-> f[i] ]
  OBVIOUS
<1>5. ends[0] = 0 /\ \A i \in 1..n : ends[i] = ends[i - 1] + Len(Result(s[i], "LOCAL"))
  BY EndsOfFresh
<1> HIDE DEF f, ends, n, s
<1>6. ends[0] = 0 /\ \A i \in 1..n : ends[i] = ends[i - 1] + Len(f[i])
  BY <1>3, <1>5
<1>7. Len(FlattenSeq(f)) = ends[n]
  BY <1>1, <1>3, <1>4, <1>6, FlattenString
<1> QED BY <1>2, <1>7 DEF TotalLength, ends, n, s

LEMMA CursorInTextIs ==
  ASSUME NEW M, NEW c, Well(c, M)
  PROVE  InText(c) <=> c.position \in 0..Len(Text(c))
BY TextLength DEF Well, Good, InText

\* A cursor inside of an empty text is at its start.
LEMMA CursorAtStart ==
  ASSUME NEW c, c.chunks = << >>, InText(c)
  PROVE  c.position = 0
<1>1. Len(<< >>) = 0
  OBVIOUS
<1>2. EndsOf(<< >>, "LOCAL")[0] = 0
  <2>1. FreshSeq(<< >>, {})
    BY FreshEmpty
  <2> QED BY <2>1, EndsOfFresh
<1> QED BY <1>1, <1>2 DEF InText, TotalLength

-----------------------------------------------------------------------------
(***************************************************************************)
(* The invariant: some set of modes holds all that occur.  A mode that no  *)
(* operation asks for could only come from a composition without chunks    *)
(* and a cursor that is not at its start.                                  *)
(***************************************************************************)

Inv == keyboard \in Keyboards /\ \E M : Modes \subseteq M /\ Well(composer, M)

\* DeleteRange moves the cursor left by one for each deletion, without asking
\* how much of the text went: whether that is right depends on the table.
NoDeleteRange == \A length \in 1..Length(composer) : ~ DeleteRange(length)

\* A cursor moved on its own.
LEMMA MovedWell ==
  ASSUME NEW M, NEW c, NEW x \in Int, NEW d, Good(c, M), d = [ c EXCEPT !.position = x ]
  PROVE  /\ Good(d, M) /\ d.chunks = c.chunks /\ d.position = x
         /\ Well(c, M) => Well(d, M)
<1>1. /\ d = [ f \in ComposerFields |-> d[f] ]
      /\ d.chunks = c.chunks /\ d.position = x /\ d.input_mode = c.input_mode
      /\ d.comeback_input_mode = c.comeback_input_mode /\ d.input_t12r = c.input_t12r
  BY DEF Good, ComposerFields
<1> QED BY <1>1 DEF Well, Good

LEMMA InitWell ==
  ASSUME Init
  PROVE  Well(composer, Modes) /\ InText(composer)
<1>1. /\ composer = [ f \in ComposerFields |-> composer[f] ]
      /\ composer.chunks = << >> /\ composer.input_t12r = "HIRAGANA"
      /\ composer.input_mode = "HIRAGANA" /\ composer.comeback_input_mode = "HIRAGANA"
      /\ composer.position = 0
  BY DEF Init, ComposerFields
<1>2. "HIRAGANA" \in Modes /\ "HIRAGANA" \in Scripts(Modes) /\ 0 \in Int
  BY DEF Modes, Scripts
<1>3. FreshSeq(<< >>, Scripts(Modes))
  BY FreshEmpty
<1>4. TotalLength(<< >>, "LOCAL") \in Nat
  BY <1>3, TotalLengthNat
<1> QED BY <1>1, <1>2, <1>3, <1>4 DEF Well, Good, InText

\* The operations that ask a chunk for the mode.
LEMMA UpdatedStep ==
  ASSUME NEW M, NEW c, Well(c, M), composer' = Asked(UpdateInputMode(c))
  PROVE  /\ \E L : M \subseteq L /\ Well(composer', L)
         /\ InText(c) => Well(composer', M) /\ InText(composer')
<1> DEFINE d == UpdateInputMode(c)
<1>1. PICK L : M \subseteq L /\ Well(d, L)
  BY UpdateInputModeWell
<1>2. d.chunks = c.chunks /\ d.position = c.position
  BY UpdateInputModeWell
<1>3. (c.chunks = << >> => c.position = 0) => Well(d, M)
  BY UpdateInputModeWell
<1>4. composer' = Asked(d)
  OBVIOUS
<1> HIDE DEF d
<1>5. Well(composer', L)
  BY <1>1, <1>4, AskedWell DEF Keeps
<1>6. ASSUME InText(c) PROVE Well(composer', M) /\ InText(composer')
  <2>1. Well(d, M) /\ InText(d)
    BY <1>2, <1>3, <1>6, CursorAtStart DEF InText
  <2> QED BY <1>4, <2>1, AskedWell DEF Keeps
<1> QED BY <1>1, <1>5, <1>6

\* No operation disturbs the chunks, and but for DeleteRange none moves the
\* cursor out of the text.
LEMMA NextWell ==
  ASSUME NEW M, Modes \subseteq M, Well(composer, M), keyboard \in Keyboards, [Next]_vars
  PROVE  /\ \E L : M \subseteq L /\ Well(composer', L)
         /\ InText(composer) /\ NoDeleteRange
              => Well(composer', M) /\ InText(composer')
<1> DEFINE Goal == /\ \E L : M \subseteq L /\ Well(composer', L)
                   /\ InText(composer) /\ NoDeleteRange
                        => Well(composer', M) /\ InText(composer')
<1>1. ASSUME NEW d, Keeps(composer, d, M), composer' = Asked(d) PROVE Goal
  <2>1. Keeps(composer, composer', M)
    BY <1>1, AskedWell, KeepsBoth DEF Keeps
  <2> QED BY <2>1 DEF Keeps
<1>0. ASSUME Keeps(composer, composer', M) PROVE Goal
  BY <1>0 DEF Keeps
<1>2. /\ composer.input_mode \in M /\ Good(composer, M)
      /\ InputModes \subseteq M /\ OutputModes \subseteq M
      /\ "HIRAGANA" \in M /\ "HALF_ASCII" \in M /\ "RAW_STRING" \in Scripts(M)
      /\ Length(composer) \in Nat
  BY ModesAssumption, TotalLengthNat DEF Well, Good, Modes, Scripts, Length
<1>k. \A key \in keyboard : IsKey(key)
  BY KeysAssumption, SequenceString DEF IsKey
<1> SUFFICES Goal
  OBVIOUS
<1> HIDE DEF Goal
<1>3. CASE UNCHANGED vars
  BY <1>0, <1>3, KeepsText DEF vars
<1>4. ASSUME NEW mode \in InputModes \cup {composer.input_mode}, NEW late \in BOOLEAN,
             InsertKeyEvent(mode, late)
      PROVE  Goal
  <2> DEFINE c == Prepared(composer, mode, late)
  <2>1. Keeps(composer, c, M)
    BY <1>2, PreparedWell
  <2>2. \/ \E key \in keyboard : InsertCharacterKeyEvent(c, key)
        \/ \E shift \in BOOLEAN : InsertModifier(c, shift)
    BY <1>4 DEF InsertKeyEvent
  <2> HIDE DEF c
  <2>3. ASSUME NEW key \in keyboard, InsertCharacterKeyEvent(c, key) PROVE Goal
    <3> DEFINE d == Insert(c, key)
               e == Switched(d)
    <3>1. Keeps(c, d, M)
      BY <1>k, <2>1, InsertWell DEF Keeps
    <3> HIDE DEF d
    <3>2. Keeps(d, e, M)
      BY <3>1, SwitchedWell DEF Keeps
    <3>3. composer' = Asked(e)
      BY <2>3 DEF InsertCharacterKeyEvent, d
    <3> HIDE DEF e
    <3> QED BY <1>1, <2>1, <3>1, <3>2, <3>3, KeepsBoth
  <2>4. ASSUME NEW shift \in BOOLEAN, InsertModifier(c, shift) PROVE Goal
    <3> DEFINE d == IF shift THEN ComeBack(c) ELSE c
    <3>1. Keeps(c, d, M)
      BY <2>1, WellGood, ComeBackWell, KeepsText DEF Keeps
    <3>2. composer' = Asked(d)
      BY <2>4 DEF InsertModifier
    <3> HIDE DEF d
    <3> QED BY <1>1, <2>1, <3>1, <3>2, KeepsBoth
  <2> QED BY <2>2, <2>3, <2>4
<1>5. CASE InsertCommandCharacter
  <2> DEFINE d == ProcessCompositionInput(composer, StopKey, composer.is_new_input)
  <2>1. Keeps(composer, d, M) /\ composer' = Asked(d)
    BY <1>5, StopKeyString, ProcessCompositionInputWell DEF InsertCommandCharacter
  <2> HIDE DEF d
  <2> QED BY <1>1, <2>1
<1>6. ASSUME NEW key \in keyboard, SetCompositionsForHandwriting(key) PROVE Goal
  <2> DEFINE r == Reset(composer)
             c == [ r EXCEPT !.input_t12r = "RAW_STRING" ]
             input == [ raw |-> key.raw, conversion |-> << >>, is_asis |-> FALSE,
                        is_new_input |-> c.is_new_input ]
             composition == InsertInput(c.chunks, c.input_t12r, c.position, input)
             d == Inserted(c, composition)
  <2>1. composer' = Asked(d)
    BY <1>6 DEF SetCompositionsForHandwriting
  <2>2. Well(r, M)
    BY ResetWell DEF Keeps
  <2> HIDE DEF r
  <2>3. Good(c, M) /\ c.input_t12r = "RAW_STRING"
    BY <1>2, <2>2 DEF Well, Good, ComposerFields
  <2> HIDE DEF c
  <2>4. IsInput(input)
    BY <1>k, EmptyString DEF IsInput, IsKey
  <2> HIDE DEF input
  <2>5. IsComposition(composition, Scripts(M))
    BY <1>2, <2>3, <2>4, InsertInputFresh DEF Good
  <2> HIDE DEF composition
  <2>6. Good(d, M) /\ d.input_t12r = c.input_t12r /\ InText(d)
    BY <2>3, <2>5, InsertedGood
  <2> HIDE DEF d
  <2>7. Keeps(composer, d, M)
    BY <2>3, <2>6 DEF Well, Keeps
  <2> QED BY <1>1, <2>1, <2>7
<1>7. CASE composer' = Asked(Delete(composer))
  <2> DEFINE c == DeletedAt(composer)
  <2>1. Keeps(composer, c, M) /\ composer' = Asked(UpdateInputMode(c))
    BY <1>7, DeletedAtWell DEF Delete
  <2> HIDE DEF c
  <2>2. /\ \E L : M \subseteq L /\ Well(composer', L)
        /\ InText(c) => Well(composer', M) /\ InText(composer')
    BY <2>1, UpdatedStep DEF Keeps
  <2> QED BY <2>1, <2>2 DEF Goal, Keeps
<1>8. CASE composer' = Asked(Backspace(composer))
  <2>1. CASE composer.position = 0
    <3>1. composer' = Asked(composer)
      BY <1>8, <2>1 DEF Backspace
    <3>2. Keeps(composer, composer, M)
      BY KeepsText
    <3> QED BY <1>1, <3>1, <3>2
  <2>2. CASE composer.position # 0
    <3> DEFINE p == composer.position - 1
               c == [ composer EXCEPT !.position = p ]
               d == UpdateInputMode(c)
               e == DeletedAt(d)
    <3>1. composer' = Asked(e)
      BY <1>2, <1>8, <2>2 DEF Backspace, Good, ComposerFields
    <3>2. p \in Int /\ (InText(composer) => p \in 0..TotalLength(composer.chunks, "LOCAL"))
      <4>1. composer.position \in Int /\ TotalLength(composer.chunks, "LOCAL") \in Nat
        BY <1>2, TotalLengthNat DEF Good
      <4> QED BY <2>2, <4>1 DEF InText
    <3> HIDE DEF p
    <3>3. Well(c, M) /\ c.chunks = composer.chunks /\ c.position = p
      BY <1>2, <3>2, MovedWell DEF Well
    <3> HIDE DEF c
    <3>4. PICK L : M \subseteq L /\ Well(d, L)
      BY <3>3, UpdateInputModeWell
    <3>5. /\ d.chunks = c.chunks /\ d.position = c.position
          /\ (c.chunks = << >> => c.position = 0) => Well(d, M)
      BY <3>3, UpdateInputModeWell
    <3>6. InText(composer) => Well(d, M) /\ InText(d)
      <4>1. InText(composer) => InText(c)
        BY <3>2, <3>3 DEF InText
      <4>2. InText(c) => InText(d) /\ (c.chunks = << >> => c.position = 0)
        BY <3>5, CursorAtStart DEF InText
      <4> QED BY <3>5, <4>1, <4>2
    <3> HIDE DEF d
    <3>7. Well(composer', L)
      BY <3>1, <3>4, DeletedAtWell, AskedWell DEF Keeps
    <3>8. InText(composer) => Well(composer', M) /\ InText(composer')
      BY <3>1, <3>6, DeletedAtWell, AskedWell DEF Keeps
    <3> QED BY <3>4, <3>7, <3>8 DEF Goal
  <2> QED BY <2>1, <2>2
<1>9. ASSUME NEW length \in 1..Length(composer), DeleteRange(length) PROVE Goal
  <2> DEFINE d == DeleteFirst(composer, length)
  <2>1. Well(d, M) /\ composer' = Asked(d)
    BY <1>9, DeleteFirstWell DEF DeleteRange
  <2> HIDE DEF d
  <2>2. Well(composer', M)
    BY <2>1, AskedWell DEF Keeps
  <2>3. ~ NoDeleteRange
    BY <1>9 DEF NoDeleteRange
  <2> QED BY <2>2, <2>3 DEF Goal
<1>10. ASSUME NEW position \in 0..Length(composer) + 1, MoveTo(position) PROVE Goal
  <2> DEFINE c == [ composer EXCEPT !.position = position ]
  <2>1. position \in Int /\ position \in 0..Length(composer)
    BY <1>2, <1>10 DEF MoveTo
  <2>2. Well(c, M) /\ c.chunks = composer.chunks /\ c.position = position
    BY <1>2, <2>1, MovedWell DEF Well
  <2>3. composer' = Asked(UpdateInputMode(c))
    BY <1>10 DEF MoveTo
  <2> HIDE DEF c
  <2>4. InText(c)
    BY <2>1, <2>2 DEF InText, Length
  <2> QED BY <2>2, <2>3, <2>4, UpdatedStep DEF Goal
<1>11. ASSUME NEW position \in {0, Length(composer)}, MoveToEdge(position) PROVE Goal
  <2> DEFINE c == [ composer EXCEPT !.position = position ]
             d == ComeBack(c)
  <2>1. position \in Int /\ position \in 0..Length(composer)
    BY <1>2
  <2>2. Good(c, M) /\ c.chunks = composer.chunks /\ c.position = position
    BY <1>2, <2>1, MovedWell
  <2>3. composer' = Asked(d)
    BY <1>11 DEF MoveToEdge
  <2> HIDE DEF c
  <2>4. InText(c) /\ Keeps(c, d, M)
    BY <2>1, <2>2, ComeBackWell DEF InText, Length
  <2> HIDE DEF d
  <2>5. Keeps(composer, d, M)
    BY <2>4 DEF Keeps
  <2> QED BY <1>1, <2>3, <2>5
<1>12. ASSUME NEW mode \in OutputModes, composer' = Asked(SetOutputMode(composer, mode))
       PROVE  Goal
  BY <1>1, <1>2, <1>12, SetOutputModeWell
<1>13. ASSUME NEW mode \in InputModes, SwitchInputMode(mode) PROVE Goal
  <2> DEFINE c == InMode(composer, mode)
             d == [ c EXCEPT !.is_new_input = TRUE ]
  <2>1. Keeps(composer, c, M) /\ composer' = d
    BY <1>2, <1>13, InModeWell DEF SwitchInputMode
  <2> HIDE DEF c
  <2>2. Well(d, M)
    BY <2>1, OtherFieldWell DEF Keeps
  <2>3. d.chunks = c.chunks /\ d.position = c.position
    BY <2>1 DEF Keeps, Well, Good, ComposerFields
  <2> HIDE DEF d
  <2>4. Keeps(c, d, M)
    BY <2>2, <2>3, KeepsText
  <2>5. Keeps(composer, d, M)
    BY <2>1, <2>4, KeepsBoth
  <2> QED BY <1>0, <2>1, <2>5
<1>14. CASE ToggleInputMode
  BY <1>0, <1>2, <1>14, SetInputModeWell DEF ToggleInputMode
<1>15. CASE composer' = EditErase(composer) \/ composer' = Reset(composer)
  BY <1>0, <1>15, EditEraseWell, ResetWell
<1> QED BY <1>3, <1>4, <1>5, <1>6, <1>7, <1>8, <1>9, <1>10, <1>11, <1>12, <1>13, <1>14,
           <1>15 DEF Next, Edit

\* The keys stay the same.
LEMMA KeyboardKept ==
  ASSUME keyboard \in Keyboards, [Next]_vars
  PROVE  (keyboard \in Keyboards)'
BY DEF Next, vars

(***************************************************************************)
(* The inductive invariant: between two operations the composer is well    *)
(* formed, its chunks remember no stale length and its composition inserts *)
(* in the script of its mode, or as typed, whatever the table of rules.    *)
(***************************************************************************)
THEOREM AlwaysWell == Spec => []Inv
<1>1. Init => Inv
  BY InitWell DEF Inv, Init
<1>2. Inv /\ [Next]_vars => Inv'
  <2> SUFFICES ASSUME Inv, [Next]_vars PROVE Inv'
    OBVIOUS
  <2>1. PICK M : Modes \subseteq M /\ Well(composer, M)
    BY DEF Inv
  <2>2. PICK L : M \subseteq L /\ Well(composer', L)
    BY <2>1, NextWell DEF Inv
  <2> QED BY <2>1, <2>2, KeyboardKept DEF Inv
<1> QED BY <1>1, <1>2, PTL DEF Spec

(***************************************************************************)
(* A chunk never remembers a length it does not show: for every table of   *)
(* rules, keyboard and setting, LengthCacheFresh is an invariant.          *)
(***************************************************************************)
THEOREM LengthCacheAlwaysFresh == Spec => []LengthCacheFresh
<1>1. Inv => LengthCacheFresh
  <2> SUFFICES ASSUME Inv PROVE LengthCacheFresh
    OBVIOUS
  <2>1. PICK M : Modes \subseteq M /\ Well(composer, M)
    BY DEF Inv
  <2>2. FreshSeq(composer.chunks, Scripts(M))
    BY <2>1 DEF Well, Good
  <2>3. /\ DOMAIN composer.chunks = 1..Len(composer.chunks)
        /\ \A i \in 1..Len(composer.chunks) : Fresh(composer.chunks[i], Scripts(M))
    BY <2>2, FreshElements
  <2> QED BY <2>3 DEF LengthCacheFresh, Fresh
<1> QED BY <1>1, AlwaysWell, PTL

(***************************************************************************)
(* Whatever sets the mode for a while, after every operation the           *)
(* composition inserts in the script of the composer's mode again, or as   *)
(* typed after handwriting: for every table of rules and keyboard.         *)
(***************************************************************************)
THEOREM InsertsAlwaysInMode == Spec => []InsertsInMode
<1>1. Inv => InsertsInMode
  BY DEF Inv, Well, InsertsInMode
<1> QED BY <1>1, AlwaysWell, PTL

\* The operations that keep the cursor where there is text.
CursorKept == CursorInText /\ NoDeleteRange => CursorInText'

(***************************************************************************)
(* No insertion, deletion at the cursor, move or change of script takes    *)
(* the cursor out of the text, for every table of rules, keyboard and      *)
(* length of the chunks: only DeleteRange could.                           *)
(***************************************************************************)
THEOREM CursorStaysInText == Spec => [][CursorKept]_vars
<1>1. Inv /\ [Next]_vars => [CursorKept]_vars
  <2> SUFFICES ASSUME Inv, [Next]_vars, CursorInText, NoDeleteRange
               PROVE  CursorInText'
    BY DEF CursorKept
  <2>1. PICK M : Modes \subseteq M /\ Well(composer, M)
    BY DEF Inv
  <2>2. InText(composer)
    BY <2>1, CursorInTextIs DEF CursorInText
  <2>3. Well(composer', M) /\ InText(composer')
    BY <2>1, <2>2, NextWell DEF Inv
  <2>4. composer'.position \in 0..Len(Text(composer'))
    BY <2>3, CursorInTextIs
  <2> QED BY <2>4 DEF CursorInText
<1> QED BY <1>1, AlwaysWell, PTL DEF Spec

-----------------------------------------------------------------------------
(***************************************************************************)
(* Positions in another script.                                            *)
(***************************************************************************)

\* GetChunkAt finds the first chunk that ends at the position or after it.
LEMMA ChunkReached ==
  ASSUME NEW T, NEW s, NEW p, FreshSeq(s, T), s # << >>, p \in 0..TotalLength(s, "LOCAL")
  PROVE  LET at == GetChunkAt(s, p, "LOCAL")
             ends == EndsOf(s, "LOCAL")
         IN  /\ at.it \in 1..Len(s) /\ ends[at.it] >= p
             /\ \A j \in 1..at.it - 1 : ~ (ends[j] >= p)
             /\ at.inner = p - ends[at.it - 1]
             /\ at.inner \in 0..GetLength(s[at.it], "LOCAL")
<1> DEFINE n == Len(s)
           ends == EndsOf(s, "LOCAL")
           at == GetChunkAt(s, p, "LOCAL")
           Reaches(i) == /\ i = n \/ ends[i] >= p
                         /\ \A j \in 1..i - 1 : ~ (ends[j] >= p)
           R == { i \in 1..n : i = n \/ ends[i] >= p }
<1>1. n \in Nat /\ n # 0
  BY FreshElements
<1>2. /\ at.it = CHOOSE i \in 1..n : Reaches(i)
      /\ at.inner = (IF ends[n] < p THEN ends[n] ELSE p) - ends[at.it - 1]
  BY DEF GetChunkAt, FirstReaching
<1>3. /\ ends[0] = 0
      /\ \A i \in 0..n : ends[i] \in Nat
      /\ \A i \in 1..n : /\ ends[i] = ends[i - 1] + GetLength(s[i], "LOCAL")
                        /\ GetLength(s[i], "LOCAL") \in Nat
  BY EndsOfFresh
<1>4. p \in 0..ends[n]
  BY DEF TotalLength
<1> SUFFICES /\ at.it \in 1..n /\ ends[at.it] >= p
             /\ \A j \in 1..at.it - 1 : ~ (ends[j] >= p)
             /\ at.inner = p - ends[at.it - 1]
             /\ at.inner \in 0..GetLength(s[at.it], "LOCAL")
  OBVIOUS
<1> HIDE DEF n, ends, at
<1>5. PICK k \in R : \A j \in R : k <= j
  <2>1. R \subseteq Nat /\ R # {}
    BY <1>1
  <2> HIDE DEF R
  <2> QED BY <2>1, LeastNumber
<1>6. k \in 1..n /\ Reaches(k)
  <2>1. k \in 1..n /\ (k = n \/ ends[k] >= p)
    BY <1>5
  <2>2. ASSUME NEW j \in 1..k - 1 PROVE ~ (ends[j] >= p)
    BY <1>1, <1>5, <2>1
  <2> QED BY <2>1, <2>2
<1>7. at.it \in 1..n /\ Reaches(at.it)
  <2> HIDE DEF Reaches
  <2> QED BY <1>2, <1>6
<1>8. ends[n] \in Nat /\ ~ (ends[n] < p) /\ p \in Nat
  BY <1>1, <1>3, <1>4
<1>9. ends[at.it] >= p
  BY <1>7, <1>8
<1>10. at.inner = p - ends[at.it - 1]
  BY <1>2, <1>8
<1>11. at.it - 1 \in 0..n /\ ends[at.it - 1] \in Nat /\ ends[at.it - 1] <= p
  <2>1. at.it - 1 \in 0..n /\ (at.it = 1 \/ at.it - 1 \in 1..at.it - 1)
    BY <1>1, <1>7
  <2>2. ends[at.it - 1] \in Nat
    BY <1>3, <2>1
  <2>3. CASE at.it = 1
    BY <1>3, <1>8, <2>1, <2>2, <2>3
  <2>4. CASE at.it - 1 \in 1..at.it - 1
    BY <1>7, <1>8, <2>2, <2>4, <2>1
  <2> QED BY <2>1, <2>2, <2>3, <2>4
<1>12. at.inner \in 0..GetLength(s[at.it], "LOCAL")
  <2>1. /\ ends[at.it] = ends[at.it - 1] + GetLength(s[at.it], "LOCAL")
        /\ GetLength(s[at.it], "LOCAL") \in Nat
    BY <1>3, <1>7
  <2> QED BY <1>8, <1>9, <1>10, <1>11, <2>1
<1> QED BY <1>7, <1>9, <1>10, <1>12

\* The position in the other script lies in the same chunk.
LEMMA ConvertedInside ==
  ASSUME NEW T, NEW s, NEW p, NEW t12r, FreshSeq(s, T), s # << >>,
         p \in 0..TotalLength(s, "LOCAL")
  PROVE  LET at == GetChunkAt(s, p, "LOCAL")
             ends == EndsOf(s, t12r)
             to == GetLength(s[at.it], t12r)
         IN  /\ at.it \in 1..Len(s) /\ to \in Nat
             /\ ends[at.it - 1] \in Nat /\ ends[at.it] = ends[at.it - 1] + to
             /\ ConvertPosition(s, p, t12r)
                  = IF at.inner = 0 THEN ends[at.it - 1]
                    ELSE IF at.inner = GetLength(s[at.it], "LOCAL") \/ at.inner > to
                    THEN ends[at.it - 1] + to ELSE ends[at.it - 1] + at.inner
             /\ ConvertPosition(s, p, t12r) \in ends[at.it - 1]..ends[at.it]
<1> DEFINE at == GetChunkAt(s, p, "LOCAL")
           ends == EndsOf(s, t12r)
           from == GetLength(s[at.it], "LOCAL")
           to == GetLength(s[at.it], t12r)
           is == ConvertPosition(s, p, t12r)
<1>1. at.it \in 1..Len(s) /\ at.inner \in Nat
  <2>1. /\ at.it \in 1..Len(s)
        /\ at.inner \in 0..from
    BY ChunkReached
  <2> QED BY <2>1
<1>2. at.it - 1 \in 0..Len(s)
  BY <1>1, FreshElements
<1>3. ends[at.it - 1] \in Nat /\ ends[at.it] = ends[at.it - 1] + to /\ to \in Nat
  <2>1. /\ \A i \in 0..Len(s) : ends[i] \in Nat
        /\ \A i \in 1..Len(s) : /\ ends[i] = ends[i - 1] + GetLength(s[i], t12r)
                               /\ GetLength(s[i], t12r) \in Nat
    BY EndsOfFresh
  <2> HIDE DEF ends, at
  <2> QED BY <1>1, <1>2, <2>1
<1>4. is = IF at.inner = 0 THEN ends[at.it - 1]
           ELSE IF at.inner = from \/ at.inner > to
           THEN ends[at.it - 1] + to ELSE ends[at.it - 1] + at.inner
  <2>1. is = ends[at.it - 1]
               + IF at.inner = 0 THEN 0
                 ELSE IF at.inner = from \/ at.inner > to THEN to ELSE at.inner
    BY DEF ConvertPosition, ConvertInner, PositionOf
  <2> HIDE DEF at, ends, from, to, is
  <2> QED BY <1>3, <2>1
<1> SUFFICES is \in ends[at.it - 1]..ends[at.it]
  BY <1>1, <1>3, <1>4
<1> HIDE DEF at, ends, from, to, is
<1> QED BY <1>1, <1>3, <1>4

\* The next position is not left of this one.
LEMMA ConvertedMonotone ==
  ASSUME NEW T, NEW s, NEW p, NEW t12r, FreshSeq(s, T), s # << >>,
         p \in 1..TotalLength(s, "LOCAL")
  PROVE  ConvertPosition(s, p - 1, t12r) <= ConvertPosition(s, p, t12r)
<1> DEFINE q == p - 1
           ends == EndsOf(s, "LOCAL")
           there == EndsOf(s, t12r)
           a == GetChunkAt(s, q, "LOCAL")
           b == GetChunkAt(s, p, "LOCAL")
           x == ConvertPosition(s, q, t12r)
           y == ConvertPosition(s, p, t12r)
<1>0. p \in Int /\ q \in 0..TotalLength(s, "LOCAL") /\ p \in 0..TotalLength(s, "LOCAL")
  BY TotalLengthNat
<1>l. Len(s) \in Nat /\ \A i \in 0..Len(s) : ends[i] \in Nat /\ there[i] \in Nat
  BY FreshElements, EndsOfFresh
<1>1. /\ a.it \in 1..Len(s) /\ a.inner = q - ends[a.it - 1]
      /\ \A j \in 1..a.it - 1 : ~ (ends[j] >= q)
      /\ a.inner \in 0..GetLength(s[a.it], "LOCAL")
  <2> HIDE DEF q
  <2> QED BY <1>0, ChunkReached
<1>2. /\ b.it \in 1..Len(s) /\ b.inner = p - ends[b.it - 1] /\ ends[b.it] >= p
      /\ b.inner \in 0..GetLength(s[b.it], "LOCAL")
  BY <1>0, ChunkReached
<1>3. /\ GetLength(s[a.it], t12r) \in Nat /\ there[a.it - 1] \in Nat
      /\ x = IF a.inner = 0 THEN there[a.it - 1]
             ELSE IF a.inner = GetLength(s[a.it], "LOCAL") \/ a.inner > GetLength(s[a.it], t12r)
             THEN there[a.it - 1] + GetLength(s[a.it], t12r) ELSE there[a.it - 1] + a.inner
      /\ x \in there[a.it - 1]..there[a.it]
  <2> HIDE DEF q
  <2> QED BY <1>0, ConvertedInside
<1>4. /\ y = IF b.inner = 0 THEN there[b.it - 1]
             ELSE IF b.inner = GetLength(s[b.it], "LOCAL") \/ b.inner > GetLength(s[b.it], t12r)
             THEN there[b.it - 1] + GetLength(s[b.it], t12r) ELSE there[b.it - 1] + b.inner
      /\ y \in there[b.it - 1]..there[b.it]
  BY <1>0, ConvertedInside
<1>5. GetLength(s[a.it], "LOCAL") \in Nat
  BY <1>1, EndsOfFresh
<1> SUFFICES x <= y
  OBVIOUS
<1>q. q = p - 1
  OBVIOUS
<1> DEFINE i == a.it
           k == b.it
           from == GetLength(s[a.it], "LOCAL")
           to == GetLength(s[a.it], t12r)
<1>6. i <= k
  <2>1. k \in 0..Len(s) /\ ends[k] \in Nat
    BY <1>l, <1>2
  <2> SUFFICES ASSUME k < i PROVE FALSE
    BY <1>1, <1>2
  <2>2. k \in 1..i - 1
    BY <1>1, <1>2
  <2>3. ~ (ends[k] >= q)
    BY <1>1, <2>2
  <2> HIDE DEF ends, k, q
  <2> QED BY <1>0, <1>2, <1>q, <2>1, <2>3 DEF k
<1>7. CASE i = k
  <2>1. i - 1 \in 0..Len(s) /\ ends[i - 1] \in Nat
    BY <1>l, <1>1
  <2>2. a.inner = b.inner - 1 /\ a.inner \in 0..from /\ b.inner \in 0..from
    <3> HIDE DEF a, b, ends, from, q
    <3> QED BY <1>0, <1>1, <1>2, <1>7, <1>q, <2>1 DEF from
  <2>3. /\ y = IF b.inner = 0 THEN there[i - 1]
               ELSE IF b.inner = from \/ b.inner > to
               THEN there[i - 1] + to ELSE there[i - 1] + b.inner
        /\ x = IF a.inner = 0 THEN there[i - 1]
               ELSE IF a.inner = from \/ a.inner > to
               THEN there[i - 1] + to ELSE there[i - 1] + a.inner
        /\ to \in Nat /\ there[i - 1] \in Nat /\ from \in Nat
    BY <1>3, <1>4, <1>5, <1>7
  <2> HIDE DEF a, b, i, from, to, there, x, y
  <2> QED BY <2>2, <2>3
<1>8. CASE i # k
  <2>1. i \in 0..Len(s) /\ k - 1 \in i..Len(s) /\ k - 1 \in 0..Len(s) /\ k \in 0..Len(s)
    BY <1>l, <1>1, <1>2, <1>6, <1>8
  <2>2. there[i] <= there[k - 1]
    BY <2>1, EndsMonotone
  <2>3. /\ there[i] \in Nat /\ there[k - 1] \in Nat /\ there[k] \in Nat
        /\ x \in there[i - 1]..there[i] /\ y \in there[k - 1]..there[k]
        /\ there[i - 1] \in Nat
    BY <1>l, <1>3, <1>4, <2>1
  <2> HIDE DEF i, k, there, x, y
  <2> QED BY <2>2, <2>3
<1> QED BY <1>7, <1>8

\* The start is the start; no position is right of the end, which is the end if
\* the last chunk shows something.
LEMMA ConvertedEnds ==
  ASSUME NEW T, NEW s, NEW t12r, FreshSeq(s, T), s # << >>
  PROVE  /\ ConvertPosition(s, 0, t12r) = 0
         /\ ConvertPosition(s, TotalLength(s, "LOCAL"), t12r) <= TotalLength(s, t12r)
         /\ Result(s[Len(s)], "LOCAL") # << >>
             => ConvertPosition(s, TotalLength(s, "LOCAL"), t12r) = TotalLength(s, t12r)
<1> DEFINE n == Len(s)
           ends == EndsOf(s, "LOCAL")
           there == EndsOf(s, t12r)
           L == TotalLength(s, "LOCAL")
<1>1. n \in Nat /\ n # 0 /\ \A i \in 1..n : Fresh(s[i], T)
  BY FreshElements
<1>2. ends[0] = 0 /\ there[0] = 0
  BY EndsOfFresh
<1>3. L \in Nat /\ L = ends[n] /\ TotalLength(s, t12r) = there[n]
  BY TotalLengthNat DEF TotalLength
<1>4. ConvertPosition(s, 0, t12r) = 0
  <2> DEFINE at == GetChunkAt(s, 0, "LOCAL")
  <2>1. 0 \in 0..L
    BY <1>3
  <2>2. /\ at.it \in 1..n /\ at.inner = 0 - ends[at.it - 1] /\ at.inner \in Nat
        /\ \A j \in 1..at.it - 1 : ~ (ends[j] >= 0)
    <3>1. at.inner \in 0..GetLength(s[at.it], "LOCAL")
      BY <2>1, ChunkReached
    <3> QED BY <2>1, <3>1, ChunkReached
  <2>3. \A j \in 0..n : ends[j] \in Nat
    BY EndsOfFresh
  <2> HIDE DEF at, ends, n
  <2>4. at.it = 1
    <3> SUFFICES ASSUME at.it # 1 PROVE FALSE
      OBVIOUS
    <3>1. 1 \in 1..at.it - 1 /\ 1 \in 0..n
      BY <1>1, <2>2
    <3>2. ~ (ends[1] >= 0) /\ ends[1] \in Nat
      BY <2>2, <2>3, <3>1
    <3> QED BY <3>2
  <2>5. at.inner = 0
    BY <1>2, <2>2, <2>4
  <2>6. ConvertPosition(s, 0, t12r) = there[1 - 1] + 0
    BY <2>4, <2>5 DEF ConvertPosition, ConvertInner, PositionOf, at
  <2> QED BY <1>2, <2>6
<1>5. ASSUME Result(s[n], "LOCAL") # << >>
      PROVE  ConvertPosition(s, L, t12r) = TotalLength(s, t12r)
  <2> DEFINE at == GetChunkAt(s, L, "LOCAL")
  <2>1. L \in 0..L
    BY <1>3
  <2>2. at.it \in 1..n /\ ends[at.it] >= L /\ at.inner = L - ends[at.it - 1]
    <3> HIDE DEF L
    <3> QED BY <2>1, ChunkReached DEF L
  <2>3. n \in 1..n /\ n - 1 \in 0..n
    BY <1>1
  <2>4. /\ ends[n] = ends[n - 1] + GetLength(s[n], "LOCAL")
        /\ GetLength(s[n], "LOCAL") = Len(Result(s[n], "LOCAL"))
        /\ there[n] = there[n - 1] + GetLength(s[n], t12r)
        /\ ends[n - 1] \in Nat
    <3>1. /\ \A i \in 0..n : ends[i] \in Nat
          /\ \A i \in 1..n : /\ ends[i] = ends[i - 1] + GetLength(s[i], "LOCAL")
                            /\ GetLength(s[i], "LOCAL") = Len(Result(s[i], "LOCAL"))
                            /\ there[i] = there[i - 1] + GetLength(s[i], t12r)
      BY EndsOfFresh
    <3> HIDE DEF n, ends, there
    <3> QED BY <2>3, <3>1
  <2>5. GetLength(s[n], "LOCAL") \in Nat \ {0}
    <3>1. IsString(Result(s[n], "LOCAL")) /\ Result(s[n], "LOCAL") # << >>
      BY <1>1, <1>5, <2>3, ResultString DEF Fresh
    <3> QED BY <2>4, <3>1, StringFacts
  <2>6. at.it = n
    <3> SUFFICES ASSUME at.it # n PROVE FALSE
      OBVIOUS
    <3>1. at.it \in 0..n /\ n - 1 \in at.it..n /\ at.it \in 0..Len(s)
      BY <1>1, <2>2
    <3>2. ends[at.it] <= ends[n - 1] /\ ends[at.it] \in Nat
      BY <3>1, EndsMonotone, EndsOfFresh
    <3> HIDE DEF at, ends, n, L
    <3> QED BY <1>3, <2>2, <2>4, <2>5, <3>2
  <2>7. at.inner = GetLength(s[n], "LOCAL") /\ at.inner # 0
    <3> HIDE DEF at, ends, n, L
    <3> QED BY <1>3, <2>2, <2>4, <2>5, <2>6
  <2>8. ConvertPosition(s, L, t12r) = there[n - 1] + GetLength(s[n], t12r)
    BY <2>6, <2>7 DEF ConvertPosition, ConvertInner, PositionOf
  <2> QED BY <1>3, <2>4, <2>8
<1>6. ConvertPosition(s, L, t12r) <= TotalLength(s, t12r)
  <2> DEFINE at == GetChunkAt(s, L, "LOCAL")
             is == ConvertPosition(s, L, t12r)
  <2>1. L \in 0..L
    BY <1>3
  <2>2. at.it \in 1..n /\ there[at.it - 1] \in Nat /\ is \in there[at.it - 1]..there[at.it]
    <3> HIDE DEF L
    <3> QED BY <2>1, ConvertedInside DEF L
  <2>3. at.it \in 0..n /\ n \in at.it..n /\ at.it \in 0..Len(s) /\ n \in 0..n
    BY <1>1, <2>2
  <2>4. there[at.it] <= there[n] /\ there[at.it] \in Nat /\ there[n] \in Nat
    BY <2>3, EndsMonotone, EndsOfFresh
  <2> HIDE DEF at, there, n, is
  <2>5. is <= there[n]
    BY <2>2, <2>4
  <2> QED BY <1>3, <2>5 DEF is
<1> QED BY <1>4, <1>5, <1>6

(***************************************************************************)
(* Positions convert into other scripts without running backwards or past  *)
(* the end, so that GetTransliteratedText never subtracts a larger         *)
(* position from a smaller one: for every table of rules, chunks that show *)
(* nothing included.                                                       *)
(***************************************************************************)
THEOREM PositionsAlwaysMonotone == Spec => []PositionsMonotone
<1>1. Inv => PositionsMonotone
  <2> SUFFICES ASSUME Inv, NEW t12r \in OutputModes \cup {"HIRAGANA", "RAW_STRING"}
               PROVE  LET s == composer.chunks
                          L == TotalLength(s, "LOCAL")
                      IN  /\ \A p \in 1..L : /\ p - 1 \in 0..L /\ p \in 0..L
                                             /\ ConvertPosition(s, p - 1, t12r)
                                                   <= ConvertPosition(s, p, t12r)
                          /\ 0 \in 0..L /\ L \in 0..L
                          /\ ConvertPosition(s, 0, t12r) = 0
                          /\ ConvertPosition(s, L, t12r) <= TotalLength(s, t12r)
                          /\ ShownToTheEnd(s)
                               => ConvertPosition(s, L, t12r) = TotalLength(s, t12r)
    BY DEF PositionsMonotone, Length
  <2> DEFINE s == composer.chunks
             L == TotalLength(s, "LOCAL")
  <2>1. PICK M : Modes \subseteq M /\ Well(composer, M)
    BY DEF Inv
  <2>2. FreshSeq(s, Scripts(M))
    BY <2>1 DEF Well, Good
  <2>3. L \in Nat
    BY <2>2, TotalLengthNat
  <2>4. CASE s = << >>
    <3>1. ConvertPosition(s, 0, t12r) = 0
      BY <2>4 DEF ConvertPosition
    <3>2. Len(s) = 0 /\ L = 0 /\ TotalLength(s, t12r) = 0
      BY <2>2, <2>4, EndsOfFresh DEF TotalLength
    <3> QED BY <3>1, <3>2
  <2>5. CASE s # << >>
    <3>1. ShownToTheEnd(s) => Result(s[Len(s)], "LOCAL") # << >>
      BY <2>5 DEF ShownToTheEnd, Last
    <3>2. /\ ConvertPosition(s, 0, t12r) = 0
          /\ ConvertPosition(s, L, t12r) <= TotalLength(s, t12r)
          /\ ShownToTheEnd(s) => ConvertPosition(s, L, t12r) = TotalLength(s, t12r)
      BY <2>2, <2>5, <3>1, ConvertedEnds
    <3>3. \A p \in 1..L : ConvertPosition(s, p - 1, t12r) <= ConvertPosition(s, p, t12r)
      BY <2>2, <2>5, ConvertedMonotone
    <3> QED BY <2>3, <3>2, <3>3
  <2> QED BY <2>4, <2>5
<1> QED BY <1>1, AlwaysWell, PTL
=============================================================================
