------------------------------ MODULE CharChunk ------------------------------
(***************************************************************************)
(* One chunk of a composition (composer/internal/char_chunk.cc), with the  *)
(* table of rules that turns keys into kana (composer/table.cc, looked up  *)
(* in the trie of base/container/trie.h) and the transliterators that show *)
(* it (composer/internal/transliterators.cc).                              *)
(*                                                                         *)
(* A character is a pair of its script and its name, so "ga" is            *)
(* << "kana", "ga" >> in hiragana and two characters in half-width         *)
(* katakana.  A string is a sequence of characters.  The width of ASCII    *)
(* characters is left out.                                                 *)
(***************************************************************************)
EXTENDS Integers, Sequences, SequencesExt

CONSTANTS
    Rules,   \* the table: records with input, result, pending and attributes
    Voiced,  \* the plain kana of each voiced one: "ka" for "ga"
    MaxRounds   \* bounds the rounds of a loop: more than any takes

ASSUME RoundsAssumption == MaxRounds \in Nat

IsSequence(s) == Len(s) \in Nat /\ s = [ i \in 1..Len(s) |-> s[i] ]

ASSUME RulesAssumption == \A r \in Rules : IsSequence(r.result) /\ IsSequence(r.pending)

Lower(s) == [ i \in DOMAIN s |->
                IF s[i][1] = "upper" THEN << "lower", s[i][2] >> ELSE s[i] ]

\* The scripts of one byte; "digit" stands for all ASCII that is no letter.
Ascii == {"lower", "upper", "digit"}

\* std::string::size counts bytes.
Size(s) == Len(s) + 2 * Len(SelectSeq(s, LAMBDA c : c[1] \notin Ascii))

\* What the first n bytes of a string hold, and what the others hold.
FirstBytes(s, n) ==
    SubSeq(s, 1, Cardinality({ i \in DOMAIN s : Size(SubSeq(s, 1, i)) <= n }))
LastBytes(s, n) == SubSeq(s, Len(FirstBytes(s, n)) + 1, Len(s))

TrimLeadingSpecialKey(s) ==
    IF s # << >> /\ s[1][1] = "special" THEN Tail(s) ELSE s

DeleteSpecialKeys(s) ==
    FlattenSeq([ i \in DOMAIN s |-> IF s[i][1] = "special" THEN << >> ELSE << s[i] >> ])

-----------------------------------------------------------------------------
(***************************************************************************)
(* The table.                                                              *)
(***************************************************************************)

\* The nodes of the trie below its root.
Nodes == UNION { { SubSeq(r.input, 1, n) : n \in 1..Len(r.input) } : r \in Rules }

\* The deepest node on the way of a key: its entry, if it has one, its depth,
\* and whether the way ends there.
LookUpPrefix(input) ==
    LET key    == Lower(input)
        depths == { n \in 1..Len(key) : SubSeq(key, 1, n) \in Nodes }
        depth  == Cardinality(depths)   \* Nodes is closed under prefixes
        node   == SubSeq(key, 1, depth)
    IN  [ entries |-> { r \in Rules : r.input = node },
          key_length |-> depth,
          fixed |-> \A r \in Rules : ~ IsStrictPrefix(node, r.input) ]

TheEntry(look) == CHOOSE r \in look.entries : TRUE

HasNewChunkEntry(input) ==
    /\ input # << >>
    /\ \E r \in Rules : "NEW_CHUNK" \in r.attributes /\ r.input[1] = Lower(input)[1]

HasSubRules(input) == Lower(input) \in Nodes

-----------------------------------------------------------------------------
(***************************************************************************)
(* The transliterators.                                                    *)
(***************************************************************************)

Katakana(s) == [ i \in DOMAIN s |->
                   IF s[i][1] = "kana" THEN << "kata", s[i][2] >> ELSE s[i] ]

HalfKatakana(s) ==
    FlattenSeq([ i \in DOMAIN s |->
        IF s[i][1] # "kana" THEN << s[i] >>
        ELSE IF s[i][2] \in DOMAIN Voiced
        THEN << << "half", Voiced[s[i][2]] >>, << "half", "voiced" >> >>
        ELSE << << "half", s[i][2] >> >> ])

\* Back to hiragana: a voiced sound mark joins the kana that can take it.
HalfKatakanaToHiragana(s) ==
    LET joins(i) == /\ i < Len(s) /\ s[i + 1] = << "half", "voiced" >>
                    /\ s[i][1] = "half"
                    /\ \E v \in DOMAIN Voiced : Voiced[v] = s[i][2]
    IN  FlattenSeq([ i \in DOMAIN s |->
          IF i > 1 /\ joins(i - 1) THEN << >>
          ELSE IF joins(i)
          THEN << << "kana", CHOOSE v \in DOMAIN Voiced : Voiced[v] = s[i][2] >> >>
          ELSE IF s[i][1] = "half" THEN << << "kana", s[i][2] >> >>
          ELSE << s[i] >> ])

Shown(t12r, raw, converted) ==
    CASE t12r = "RAW_STRING" -> raw
      [] t12r = "FULL_KATAKANA" -> Katakana(converted)
      [] t12r = "HALF_KATAKANA" -> HalfKatakana(converted)
      [] t12r \in {"HALF_ASCII", "FULL_ASCII"} ->
           IF raw = << >> THEN converted ELSE raw
      [] OTHER -> converted   \* CONVERSION_STRING and HIRAGANA

\* The primary string is cut at the position, the secondary one so that both
\* keep a common suffix; if they have none, the secondary one is given up.
SplitPrimaryString(position, primary, secondary) ==
    LET lhs == SubSeq(primary, 1, position)
        rhs == SubSeq(primary, position + 1, Len(primary))
        ok  == IsSuffix(rhs, secondary)
    IN  [ ok |-> ok, lhs |-> lhs, rhs |-> rhs,
          other_lhs |-> IF ok THEN SubSeq(secondary, 1, Len(secondary) - Len(rhs))
                        ELSE lhs,
          other_rhs |-> rhs ]

\* Split of the transliterators: where raw and converted are cut.
Split(t12r, position, raw, converted) ==
    LET back(s) == HalfKatakanaToHiragana(s)
        half == SplitPrimaryString(position, HalfKatakana(converted), raw)
        conv == SplitPrimaryString(position, converted, raw)
        ascii == SplitPrimaryString(position, raw, converted)
    IN  CASE t12r = "HALF_KATAKANA" ->
               [ raw_lhs |-> IF half.ok THEN half.other_lhs ELSE back(half.other_lhs),
                 raw_rhs |-> IF half.ok THEN half.other_rhs ELSE back(half.other_rhs),
                 converted_lhs |-> back(half.lhs), converted_rhs |-> back(half.rhs) ]
          [] t12r \in {"RAW_STRING", "HALF_ASCII", "FULL_ASCII"} ->
               [ raw_lhs |-> ascii.lhs, raw_rhs |-> ascii.rhs,
                 converted_lhs |-> ascii.other_lhs, converted_rhs |-> ascii.other_rhs ]
          [] OTHER ->
               [ raw_lhs |-> conv.other_lhs, raw_rhs |-> conv.other_rhs,
                 converted_lhs |-> conv.lhs, converted_rhs |-> conv.rhs ]

-----------------------------------------------------------------------------
(***************************************************************************)
(* The chunk.                                                              *)
(***************************************************************************)

npos == -1   \* no length is cached

NewChunk(t12r) ==
    [ raw |-> << >>, conversion |-> << >>, pending |-> << >>, ambiguous |-> << >>,
      transliterator |-> t12r, attributes |-> {}, local_length_cache |-> npos ]

EmptyChunk(c) == c.raw = << >> /\ c.conversion = << >> /\ c.pending = << >>

Forgotten(c) == [ c EXCEPT !.local_length_cache = npos ]

GetTransliterator(c, t12r) ==
    IF /\ "NO_TRANSLITERATION" \in c.attributes
       /\ t12r \in {"LOCAL", "HALF_ASCII", "FULL_ASCII"}
    THEN "CONVERSION_STRING"
    ELSE IF t12r = "LOCAL" THEN c.transliterator ELSE t12r

Transliterate(c, t12r, converted) ==
    Shown(GetTransliterator(c, t12r), DeleteSpecialKeys(c.raw),
          DeleteSpecialKeys(converted))

\* AppendResult: what is shown of the chunk.
Result(c, t12r) == Transliterate(c, t12r, c.conversion \o c.pending)

\* AppendFixedResult: what is converted.
FixedResult(c, t12r) ==
    Transliterate(c, t12r,
      c.conversion \o IF c.ambiguous # << >> THEN c.ambiguous ELSE c.pending)

GetLength(c, t12r) ==
    IF t12r = "LOCAL" /\ c.local_length_cache # npos THEN c.local_length_cache
    ELSE Len(Result(c, t12r))

\* GetLength(LOCAL) caches what it returns.
Measured(c) == [ c EXCEPT !.local_length_cache = GetLength(c, "LOCAL") ]

IsAppendable(c, t12r) ==
    c.pending # << >> /\ t12r \in {"LOCAL", c.transliterator}

IsConvertible(c, t12r, input) ==
    LET key  == c.pending \o input
        look == LookUpPrefix(key)
    IN  /\ IsAppendable(c, t12r)
        /\ look.entries # {} /\ look.key_length = Len(key) /\ look.fixed


Combine(c, left) ==
    [ Forgotten(c) EXCEPT
        !.conversion = left.conversion \o @,
        !.raw = left.raw \o @,
        !.ambiguous = IF left.ambiguous = << >> THEN << >>
                      ELSE left.ambiguous \o IF @ = << >> THEN c.pending ELSE @,
        !.pending = left.pending \o @ ]

-----------------------------------------------------------------------------
(***************************************************************************)
(* Adding input.  Every operator returns the chunk and the rest of the     *)
(* input.                                                                  *)
(***************************************************************************)

Added(c, input, loop) == [ chunk |-> Forgotten(c), input |-> input, loop |-> loop ]

\* The key leads to no entry.
AddWithoutEntry(c, input, used_key_length) ==
    LET trimmed == TrimLeadingSpecialKey(input)
        used    == used_key_length - Len(c.pending)
        next    == LookUpPrefix(input)
    IN  CASE used_key_length = 0 /\ trimmed # input -> Added(c, trimmed, TRUE)
          [] used_key_length = 0 /\ trimmed = input ->
               IF c.pending = << >> /\ input # << >>
               THEN Added([ c EXCEPT !.raw = Append(@, Head(input)),
                                     !.conversion = Append(@, Head(input)) ],
                          Tail(input), FALSE)
               ELSE Added(c, input, FALSE)
          [] used_key_length > 0 /\ used = 0 ->
               IF next.entries = {} /\ next.key_length = 0 /\ trimmed # input
               THEN Added(c, trimmed, TRUE) ELSE Added(c, input, FALSE)
          [] used_key_length > 0 /\ used < 0 -> Added(c, input, FALSE)
          [] OTHER ->
               Added([ c EXCEPT !.raw = @ \o SubSeq(input, 1, used),
                                !.pending = @ \o SubSeq(input, 1, used),
                                !.ambiguous = << >> ],
                     SubSeq(input, used + 1, Len(input)), FALSE)

\* The key leads to an entry: it is used if it is the only one or if the rest
\* of the key does not go on to another one, else it stays ambiguous.
AddWithEntry(c, input, look) ==
    LET key   == c.pending \o input
        entry == TheEntry(look)
        used  == look.key_length - Len(c.pending)
        rest  == SubSeq(input, used + 1, Len(input))
        first == /\ c.conversion = << >>
                 /\ c.raw = << >> \/ c.pending = << >> \/ c.raw = c.pending
        typed == [ c EXCEPT !.raw = @ \o SubSeq(input, 1, used),
                            !.attributes = IF first THEN entry.attributes ELSE @ ]
        after == IF look.fixed \/ Len(key) > look.key_length
                 THEN [ typed EXCEPT !.conversion = @ \o entry.result,
                                     !.pending = entry.pending, !.ambiguous = << >> ]
                 ELSE [ typed EXCEPT !.pending = key, !.ambiguous = entry.result ]
    IN  IF /\ look.fixed /\ rest = << >> /\ "NO_TRANSLITERATION" \in after.attributes
           /\ after.conversion = << >> /\ after.pending = << >>
        THEN Added([ after EXCEPT !.raw = << >> ], rest, FALSE)
        ELSE Added(after, rest, rest # << >> /\ after.pending # << >>)

AddInputInternal(c, input) ==
    LET look == LookUpPrefix(c.pending \o input)
    IN  IF look.entries = {} THEN AddWithoutEntry(c, input, look.key_length)
        ELSE AddWithEntry(c, input, look)

\* Goes on from what has been added so far.
AddInput(a) ==
    LET added[n \in 0..MaxRounds] ==
          IF n = 0 THEN a
          ELSE LET b == added[n - 1]
               IN  IF b.loop THEN AddInputInternal(b.chunk, b.input) ELSE b
    IN  added[MaxRounds]

\* Input that comes with its conversion, from a kana keyboard.  The answer's
\* input is the rest, empty or as it was.
Nothing(input) == [ input EXCEPT !.raw = << >>, !.conversion = << >> ]

ConvertedFirst(c, input) ==
    LET whole == { r \in Rules : r.input = Lower(input.conversion) }
    IN  [ c EXCEPT !.raw = input.raw, !.pending = input.conversion,
                   !.ambiguous = input.conversion,
                   !.attributes = IF whole = {} THEN @
                                  ELSE (CHOOSE r \in whole : TRUE).attributes ]

ConvertedNext(c, input, key, look) ==
    LET entry == TheEntry(look)
        typed == [ c EXCEPT !.raw = @ \o input.raw ]
        fixed == [ typed EXCEPT !.conversion = @ \o entry.result,
                                !.pending = entry.pending ]
    IN  CASE \/ input.is_asis \/ look.entries = {}
             \/ look.key_length = Len(c.pending) /\ look.key_length # Len(key) ->
               Added(c, input, FALSE)
          [] OTHER ->
               IF look.key_length # Len(key)
               THEN Added(fixed,
                          [ input EXCEPT !.raw = << >>,
                                         !.conversion = SubSeq(key, look.key_length + 1,
                                                               Len(key)) ], FALSE)
               ELSE IF look.fixed
               THEN Added([ fixed EXCEPT !.ambiguous = << >> ], Nothing(input), FALSE)
               ELSE Added([ typed EXCEPT !.pending = entry.result,
                                         !.ambiguous = entry.result ],
                          Nothing(input), FALSE)

AddInputAndConvertedChar(c, input) ==
    CASE EmptyChunk(c) /\ input.is_asis ->
           Added([ c EXCEPT !.raw = input.raw, !.conversion = input.conversion ],
                 Nothing(input), FALSE)
      [] EmptyChunk(c) /\ ~ input.is_asis ->
           Added(ConvertedFirst(c, input), Nothing(input), FALSE)
      [] OTHER -> ConvertedNext(c, input, c.pending \o input.conversion,
                                LookUpPrefix(c.pending \o input.conversion))

ShouldInsertNewChunk(c, input) ==
    /\ ~ EmptyChunk(c)
    /\ input.is_new_input \/ ("END_CHUNK" \in c.attributes /\ c.pending = << >>)
    /\ HasNewChunkEntry(input.raw) \/ ~ HasSubRules(input.raw)

WithRaw(input, raw) == [ input EXCEPT !.raw = raw ]

AddCompositionInput(c, input) ==
    IF input.conversion # << >> THEN AddInputAndConvertedChar(c, input)
    ELSE IF ShouldInsertNewChunk(c, input) THEN Added(c, input, FALSE)
    ELSE [ AddInput(Added(c, input.raw, TRUE)) EXCEPT !.input = WithRaw(input, @) ]

\* Mutant of SetTransliterator: the cached length survives.
SetTransliteratorCached(c, t12r) ==
    IF t12r = "LOCAL" THEN c ELSE [ c EXCEPT !.transliterator = t12r ]

SetTransliterator(c, t12r) ==
    IF t12r = "LOCAL" THEN c ELSE [ Forgotten(c) EXCEPT !.transliterator = t12r ]

\* Mutant of SplitChunk: the right chunk keeps all that is pending.
SplitChunkKeepingPending(c, position) ==
    LET s == Split(GetTransliterator(c, "LOCAL"), position,
                   DeleteSpecialKeys(c.raw), DeleteSpecialKeys(c.conversion \o c.pending))
        right == [ Forgotten(c) EXCEPT !.raw = s.raw_rhs ]
    IN  << [ NewChunk(c.transliterator) EXCEPT
               !.raw = s.raw_lhs, !.conversion = s.converted_lhs ],
           right >>

\* The left and the right part of a chunk cut inside, given the parts of its
\* texts: the cut goes through what is pending, or else what is pending stays
\* with the right part.
CutInto(c, s) ==
    LET right == [ Forgotten(c) EXCEPT !.raw = s.raw_rhs ]
        left  == [ NewChunk(c.transliterator) EXCEPT !.raw = s.raw_lhs ]
        fits  == Size(s.converted_rhs) - Size(c.pending)
    IN  IF Size(s.converted_lhs) > Size(c.conversion)
        THEN << [ left EXCEPT !.conversion = c.conversion,
                              !.pending = LastBytes(s.converted_lhs,
                                                    Size(c.conversion)) ],
                [ right EXCEPT !.conversion = << >>, !.pending = s.converted_rhs,
                               !.ambiguous = << >> ] >>
        ELSE << [ left EXCEPT !.conversion = s.converted_lhs ],
                [ right EXCEPT !.conversion =
                      IF fits < 0 THEN s.converted_rhs   \* size_t wraps around
                      ELSE FirstBytes(s.converted_rhs, fits) ] >>

SplitChunk(c, position) ==
    CutInto(c, Split(GetTransliterator(c, "LOCAL"), position, DeleteSpecialKeys(c.raw),
                     DeleteSpecialKeys(c.conversion \o c.pending)))
=============================================================================
