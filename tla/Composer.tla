------------------------------ MODULE Composer ------------------------------
(***************************************************************************)
(* The composer (composer/composer.cc) and its composition                 *)
(* (composer/internal/composition.cc): a list of chunks and a cursor in    *)
(* the text they show.  An insertion or deletion may cut a chunk in two,   *)
(* extend the one left of the cursor, or join it with those before it.     *)
(* Each method is an operator from the composer to the next one.           *)
(***************************************************************************)
EXTENDS CharChunk

CONSTANTS
    Keyboards,     \* sets of keys; a key is a record with raw, conversion, is_asis
    TimeoutKeyboards,  \* those with a composing_timeout_threshold_msec
    InputModes,    \* the modes a key event or a command may ask for
    OutputModes,   \* the modes a command may show the composition in
    MaxPreeditLength,                  \* kMaxPreeditLength, 256 in the code
    MaxKeys,                           \* bounds the keys a composition is made from
    ShiftKeyModeSwitch,                \* config: shift_key_mode_switch
    UpdateInputModeFromSurroundingText, \* request
    SwitchingRules,  \* ModeSwitchingHandler: the modes for some ASCII strings
    Stop             \* the special key of STOP_KEY_TOGGLING and REWIND

Modes == {"HIRAGANA", "FULL_KATAKANA", "HALF_KATAKANA", "HALF_ASCII", "FULL_ASCII"}

ASSUME ModesAssumption ==
    /\ InputModes \subseteq Modes /\ OutputModes \subseteq Modes
    /\ \A key \in DOMAIN SwitchingRules :
         SwitchingRules[key] \in {"REVERT_TO_PREVIOUS_MODE", "HALF_ALPHANUMERIC"}

ASSUME KeysAssumption ==
    \A keys \in Keyboards : \A key \in keys :
       IsSequence(key.raw) /\ IsSequence(key.conversion)

VARIABLES
    composer,
    keyboard   \* the keys the user has

vars == << composer, keyboard >>

(***************************************************************************)
(* Composition.                                                            *)
(***************************************************************************)

\* Where each of the chunks ends.
EndsOf(chunks, t12r) ==
    LET ends[i \in 0..Len(chunks)] ==
          IF i = 0 THEN 0 ELSE ends[i - 1] + GetLength(chunks[i], t12r)
    IN  ends

\* GetPosition(t12r, it): what is left of chunk i.
PositionOf(chunks, t12r, i) == EndsOf(chunks, t12r)[i - 1]

\* GetPosition(t12r, chunks_.end()).
TotalLength(chunks, t12r) == EndsOf(chunks, t12r)[Len(chunks)]

\* GetLength(): every chunk caches its length.
AllMeasured(chunks) == [ i \in DOMAIN chunks |-> Measured(chunks[i]) ]

\* The first of n chunks that ends at the position or after it, or else the last.
FirstReaching(ends, n, position) ==
    LET at == CHOOSE i \in 1..n : /\ i = n \/ ends[i] >= position
                                  /\ \A j \in 1..i - 1 : ~ (ends[j] >= position)
    IN  [ it |-> at,
          inner |-> (IF ends[n] < position THEN ends[n] ELSE position) - ends[at - 1] ]

GetChunkAt(chunks, position, t12r) ==
    IF chunks = << >> THEN [ it |-> 1, inner |-> 0 ]
    ELSE FirstReaching(EndsOf(chunks, t12r), Len(chunks), position)

SplitChunkAt(chunks, at) ==
    LET i == at.it
    IN  IF i = 1 /\ at.inner = 0 THEN [ chunks |-> chunks, right |-> 1 ]
        ELSE IF at.inner = GetLength(chunks[i], "LOCAL")
        THEN [ chunks |-> chunks, right |-> i + 1 ]
        ELSE IF at.inner = 0 THEN [ chunks |-> chunks, right |-> i ]  \* cannot split
        ELSE [ chunks |-> SubSeq(chunks, 1, i - 1) \o SplitChunk(chunks[i], at.inner)
                            \o SubSeq(chunks, i + 1, Len(chunks)),
               right |-> i + 1 ]

\* The chunks, and which of them is right of the position.
MaybeSplitChunkAt(chunks, position) ==
    SplitChunkAt(chunks, GetChunkAt(chunks, position, "LOCAL"))

\* The chunks left of `it' that the input completes are joined with it.
CombinePendingChunks(before, it, input, t12r) ==
    LET next == IF input.conversion = << >> THEN input.raw ELSE input.conversion
        joined[n \in 0..Len(before)] ==
          IF n = 0 THEN [ before |-> before, it |-> it ]
          ELSE LET j == joined[n - 1]
               IN  IF \/ input.is_asis \/ j.before = << >>
                      \/ ~ IsConvertible(Last(j.before), t12r, j.it.pending \o next)
                   THEN j
                   ELSE [ before |-> Front(j.before), it |-> Combine(j.it, Last(j.before)) ]
    IN  joined[Len(before)]

\* A round of the loop: the next chunk has taken what it could of the input.
WithNextChunk(added, next) ==
    [ before |-> Append(added.before, added.chunk), chunk |-> next.chunk,
      input |-> next.input ]

\* What a chunk did not take of the input goes into new ones.  Each takes a
\* character at least, or all of an input that comes with its conversion.
AllAdded(before, a, t12r) ==
    LET added[n \in 0..MaxRounds] ==
          IF n = 0 THEN [ before |-> before, chunk |-> a.chunk, input |-> a.input ]
          ELSE LET b == added[n - 1]
               IN  IF b.input.raw = << >> /\ b.input.conversion = << >> THEN b
                   ELSE WithNextChunk(b, AddCompositionInput(NewChunk(t12r),
                                         [ b.input EXCEPT !.is_new_input = FALSE ]))
    IN  added[MaxRounds]

\* A chunk that is empty in the end is dropped.
EraseEmpty(added) ==
    IF EmptyChunk(added.chunk) THEN added.before ELSE Append(added.before, added.chunk)

AddToChunks(before, a, t12r) == EraseEmpty(AllAdded(before, a, t12r))

\* The chunk that takes the input first, joined with those before it.
Extended(before, input, t12r) ==
    IF before # << >> /\ IsAppendable(Last(before), t12r)
    THEN CombinePendingChunks(Front(before), Last(before), input, t12r)
    ELSE CombinePendingChunks(before, NewChunk(t12r), input, t12r)

AddTo(extended, input, t12r) ==
    AddToChunks(extended.before, AddCompositionInput(extended.it, input), t12r)

\* The cursor between the chunks.
CursorBetween(left, right) ==
    [ chunks |-> left \o right, position |-> TotalLength(left, "LOCAL") ]

\* The first chunk on the right that shows something in the script.
FirstFilled(split, t12r) ==
    LET filled == { i \in split.right..Len(split.chunks) :
                      GetLength(split.chunks[i], t12r) # 0 }
    IN  IF filled = {} THEN Len(split.chunks) + 1
        ELSE CHOOSE i \in filled : \A j \in filled : i <= j

\* Mutant of InsertBefore: the chunk right of the cursor is extended.
InsertBeforeNext(chunks, right, t12r, input) ==
    LET i == IF right > Len(chunks) THEN Len(chunks) ELSE right
        it == IF i = 0 THEN NewChunk(t12r) ELSE chunks[i]
    IN  CursorBetween(AddTo([ before |-> SubSeq(chunks, 1, i - 1), it |-> it ], input, t12r),
                      SubSeq(chunks, i + 1, Len(chunks)))

InsertBefore(chunks, right, t12r, input) ==
    CursorBetween(AddTo(Extended(SubSeq(chunks, 1, right - 1), input, t12r), input, t12r),
                  SubSeq(chunks, right, Len(chunks)))

InsertAtSplit(split, t12r, input) ==
    InsertBefore(split.chunks, FirstFilled(split, t12r), t12r, input)

InsertInput(chunks, t12r, position, input) ==
    InsertAtSplit(MaybeSplitChunkAt(chunks, position), t12r, input)

\* Without the first character of chunk i.
DropFirst(chunks, i) ==
    SubSeq(chunks, 1, i - 1)
      \o (IF GetLength(chunks[i], "LOCAL") <= 1 THEN << >>
          ELSE << SplitChunk(chunks[i], 1)[2] >>)
      \o SubSeq(chunks, i + 1, Len(chunks))

\* The body of the loop in DeleteAt; with nothing on the right it breaks.
DeleteRightOf(split) ==
    LET i == split.right
        here == PositionOf(split.chunks, "LOCAL", i)
    IN  IF i > Len(split.chunks)
        THEN [ chunks |-> split.chunks, position |-> here, break |-> TRUE ]
        ELSE [ chunks |-> AllMeasured(DropFirst(split.chunks, i)), position |-> here,
               break |-> FALSE ]

\* Composition::DeleteAt.  Chunks that show nothing go with the character to
\* delete: a round of the loop takes a chunk or a character.
DeleteAt(chunks, position) ==
    LET original_size == TotalLength(chunks, "LOCAL")
        deleted[n \in 0..MaxRounds] ==
          IF n = 0 THEN [ chunks |-> chunks, position |-> position, break |-> FALSE ]
          ELSE LET d == deleted[n - 1]
               IN  IF \/ d.break \/ d.chunks = << >>
                      \/ TotalLength(d.chunks, "LOCAL") # original_size
                   THEN d
                   ELSE DeleteRightOf(MaybeSplitChunkAt(d.chunks, position))
    IN  deleted[MaxRounds]

\* Composition::SetTransliterator
SetTransliterators(chunks, from, to, t12r) ==
    LET first == GetChunkAt(chunks, from, "LOCAL").it
        last  == GetChunkAt(chunks, to, "LOCAL").it
    IN  [ i \in DOMAIN chunks |-> IF i \in first..last
                                  THEN SetTransliterator(chunks[i], t12r) ELSE chunks[i] ]

\* A position in a chunk, or the end of it if it shows less in the script.
ConvertInner(chunks, at, t12r) ==
    LET from == GetLength(chunks[at.it], "LOCAL")
        to == GetLength(chunks[at.it], t12r)
    IN  PositionOf(chunks, t12r, at.it)
          + IF at.inner = 0 THEN 0 ELSE IF at.inner = from \/ at.inner > to THEN to
            ELSE at.inner

\* Mutant of ConvertPosition: a position past the end of the chunk is kept.
ConvertPositionUnclamped(chunks, position, t12r) ==
    LET at == GetChunkAt(chunks, position, "LOCAL")
    IN  IF chunks = << >> THEN 0
        ELSE IF at.inner = GetLength(chunks[at.it], "LOCAL")
        THEN PositionOf(chunks, t12r, at.it + 1)
        ELSE PositionOf(chunks, t12r, at.it) + at.inner

ConvertPosition(chunks, position, t12r) ==
    IF chunks = << >> THEN 0
    ELSE ConvertInner(chunks, GetChunkAt(chunks, position, "LOCAL"), t12r)

-----------------------------------------------------------------------------
(***************************************************************************)
(* Composer.                                                               *)
(***************************************************************************)

Init ==
    /\ keyboard \in Keyboards
    /\ composer = [ chunks |-> << >>, input_t12r |-> "HIRAGANA", position |-> 0,
                    input_mode |-> "HIRAGANA", comeback_input_mode |-> "HIRAGANA",
                    is_new_input |-> TRUE, shifted_sequence_count |-> 0 ]

Length(c) == TotalLength(c.chunks, "LOCAL")

\* Composer::GetLength is the first thing every operation below does.
Asked(c) == [ c EXCEPT !.chunks = AllMeasured(@) ]

NewInputMode(c, mode) ==
    [ c EXCEPT !.input_mode = mode, !.shifted_sequence_count = 0,
               !.is_new_input = TRUE, !.input_t12r = mode ]

SetInputMode(c, mode) == [ NewInputMode(c, mode) EXCEPT !.comeback_input_mode = mode ]

\* Back from a temporary mode.
ComeBack(c) == SetInputMode(c, c.comeback_input_mode)

\* The composition has changed.
Recomposed(c, composition) ==
    [ c EXCEPT !.chunks = composition.chunks, !.position = composition.position ]

Inserted(c, composition) ==
    [ Recomposed(c, composition) EXCEPT !.is_new_input = FALSE ]

SetTemporaryInputMode(c, mode) ==
    [ NewInputMode(c, mode) EXCEPT !.comeback_input_mode = c.input_mode ]

\* The mode follows the characters around the cursor, if they agree.
UpdateInputMode(c) ==
    LET at(p) == LET i == GetChunkAt(c.chunks, p, "LOCAL").it
                 IN  GetTransliterator(c.chunks[i], "LOCAL")
        t12r == at(c.position)
        same == c.position = Length(c) \/ t12r = at(c.position + 1)
    IN  IF c.position # 0 /\ UpdateInputModeFromSurroundingText /\ same
        THEN NewInputMode(c, IF t12r \in {"CONVERSION_STRING", "RAW_STRING"}
                             THEN c.comeback_input_mode ELSE t12r)
        ELSE ComeBack(c)

SetOutputMode(c, mode) ==
    Recomposed(c, CursorBetween(SetTransliterators(c.chunks, 0, Length(c), mode), << >>))

\* Mutant of EditErase: the cursor stays where it was.
EditEraseKeepingCursor(c) ==
    ComeBack([ c EXCEPT !.chunks = << >> ])

EditErase(c) == ComeBack([ c EXCEPT !.chunks = << >>, !.position = 0 ])

\* Composer::Reset, without the source text, which Session has.
Reset(c) == SetOutputMode(EditErase(c), "HIRAGANA")

\* A shifted letter starts a temporary mode.  Letters that are not shifted end
\* it after two shifted ones, a multi-byte character always, a digit never.
ApplyTemporaryInputMode(c, key) ==
    LET count(d, n) == [ d EXCEPT !.shifted_sequence_count = n ]
        more(d) == count(d, IF d.shifted_sequence_count = 2 THEN 2   \* only > 1 matters
                            ELSE d.shifted_sequence_count + 1)
    IN  CASE key[1] \notin Ascii ->
               IF c.comeback_input_mode # c.input_mode THEN ComeBack(c) ELSE c
          [] key[1] \in Ascii \ {"upper", "lower"} -> count(c, 0)
          [] key[1] = "upper" ->
               more(CASE /\ ShiftKeyModeSwitch = "ASCII_INPUT_MODE"
                         /\ c.input_mode \notin {"HALF_ASCII", "FULL_ASCII"}
                           -> SetTemporaryInputMode(c, "HALF_ASCII")
                      [] /\ ShiftKeyModeSwitch = "KATAKANA_INPUT_MODE"
                         /\ c.input_mode = "HIRAGANA"
                           -> SetTemporaryInputMode(c, "FULL_KATAKANA")
                      [] OTHER -> c)
          [] key[1] = "lower" ->
               count(IF \/ /\ c.shifted_sequence_count > 1
                           /\ ShiftKeyModeSwitch = "ASCII_INPUT_MODE"
                        \/ ShiftKeyModeSwitch = "KATAKANA_INPUT_MODE"
                     THEN ComeBack(c) ELSE c, 0)

EnableInsert(c) == Length(c) < MaxPreeditLength

ProcessCompositionInput(c, key, is_new_input) ==
    LET input == [ raw |-> key.raw, conversion |-> key.conversion,
                   is_asis |-> key.is_asis, is_new_input |-> is_new_input ]
    IN  IF EnableInsert(c)
        THEN Inserted(c, InsertInput(AllMeasured(c.chunks), c.input_t12r, c.position, input))
        ELSE c

\* What the mode switching handler looks up: the keys, in ASCII.
AsciiKey(chunks) ==
    FlattenSeq([ i \in DOMAIN chunks |->
                   IF i = Len(chunks) THEN FixedResult(chunks[i], "HALF_ASCII")
                   ELSE Result(chunks[i], "HALF_ASCII") ])

\* The mode of the text and the mode of what follows.
SwitchTextMode(c, rule) ==
    SetOutputMode(c, IF rule = "REVERT_TO_PREVIOUS_MODE" /\ c.input_mode = "FULL_ASCII"
                     THEN "FULL_ASCII" ELSE "HALF_ASCII")

SwitchModeAfter(c, rule) ==
    CASE rule = "REVERT_TO_PREVIOUS_MODE" -> ComeBack(c)
      [] rule = "HALF_ALPHANUMERIC" ->
           IF c.input_mode = "HALF_ASCII" THEN c ELSE SetTemporaryInputMode(c, "HALF_ASCII")

AutoSwitchMode(c) ==
    LET key == AsciiKey(c.chunks)
    IN  IF key \notin DOMAIN SwitchingRules THEN c
        ELSE SwitchModeAfter(SwitchTextMode(c, SwitchingRules[key]), SwitchingRules[key])

StopKey == [ raw |-> << << "special", Stop >> >>, conversion |-> << >>, is_asis |-> FALSE ]

-----------------------------------------------------------------------------
(***************************************************************************)
(* The operations, as Session calls them.                                  *)
(***************************************************************************)

\* The key has its mode set: it may differ from the input mode.
InMode(c, mode) == IF mode = c.input_mode THEN c ELSE SetInputMode(c, mode)

\* The mode a key is inserted in.
ModeForKey(c, key) ==
    IF key.conversion = << >> THEN ApplyTemporaryInputMode(c, key.raw[1])
    ELSE IF key.is_asis THEN [ c EXCEPT !.input_t12r = "CONVERSION_STRING" ] ELSE c

\* Mutant of ModeAfterKey: after an as-is key the next one is shown as it is, too.
ModeAfterKeyAsIs(c, key) == c

ModeAfterKey(c, key) ==
    IF key.conversion # << >> /\ key.is_asis THEN ComeBack(c) ELSE c

\* The input is made before the mode for it is set.
Insert(c, key) ==
    ModeAfterKey(ProcessCompositionInput(ModeForKey(c, key), key, c.is_new_input), key)

Switched(c) == IF c.comeback_input_mode = c.input_mode THEN AutoSwitchMode(c) ELSE c

\* What comes before the input of a key event: a pause that stops toggling, and
\* the mode of the key.
Prepared(c, mode, late) ==
    InMode(IF late THEN ProcessCompositionInput(c, StopKey, c.is_new_input) ELSE c, mode)

\* What the user sees, and the keys that made it.
Text(c) == FlattenSeq([ i \in DOMAIN c.chunks |-> Result(c.chunks[i], "LOCAL") ])
Raw(c) == FlattenSeq([ i \in DOMAIN c.chunks |-> Result(c.chunks[i], "RAW_STRING") ])

\* A character.
InsertCharacterKeyEvent(c, key) ==
    /\ Len(Raw(composer)) < MaxKeys
    /\ composer' = Asked(Switched(Insert(c, key)))

\* No character: SHIFT alone ends a temporary mode.
InsertModifier(c, shift) == composer' = Asked(IF shift THEN ComeBack(c) ELSE c)

InsertKeyEvent(mode, late) ==
    /\ EnableInsert(composer)
    /\ \E c \in {Prepared(composer, mode, late)} :
          \/ \E key \in keyboard : InsertCharacterKeyEvent(c, key)
          \/ \E shift \in BOOLEAN : InsertModifier(c, shift)

InsertCommandCharacter ==
    composer' = Asked(ProcessCompositionInput(composer, StopKey, composer.is_new_input))

\* SetCompositionsForHandwriting, with one character.
SetCompositionsForHandwriting(key) ==
    \E c \in {[ Reset(composer) EXCEPT !.input_t12r = "RAW_STRING" ]} :
       composer' = Asked(Inserted(c,
         InsertInput(c.chunks, c.input_t12r, c.position,
                     [ raw |-> key.raw, conversion |-> << >>, is_asis |-> FALSE,
                       is_new_input |-> c.is_new_input ])))

DeletedAt(c) == Recomposed(c, DeleteAt(c.chunks, c.position))

Delete(c) == UpdateInputMode(DeletedAt(c))

\* The cursor moves left and the mode is updated before the deletion.
Backspace(c) ==
    IF c.position = 0 THEN c
    ELSE DeletedAt(UpdateInputMode([ c EXCEPT !.position = @ - 1 ]))

\* Composer::DeleteAt(0), once for each character.
DeleteFirst(c, length) ==
    LET deleted[n \in 0..MaxRounds] ==
          IF n = 0 THEN c
          ELSE LET d == deleted[n - 1]
               IN  IF n > length \/ Length(d) = 0 THEN d
                   ELSE [ d EXCEPT !.chunks = AllMeasured(DeleteAt(@, 0).chunks),
                                   !.position = IF @ > 0 THEN @ - 1 ELSE @ ]
    IN  deleted[MaxRounds]

\* The head of the composition has been committed.
DeleteRange(length) == composer' = Asked(DeleteFirst(composer, length))

\* MoveCursorLeft, MoveCursorRight and MoveCursorTo.
MoveTo(position) ==
    /\ position <= Length(composer)
    /\ composer' = Asked(UpdateInputMode([ composer EXCEPT !.position = position ]))

\* MoveCursorToBeginning and MoveCursorToEnd.
MoveToEdge(position) ==
    composer' = Asked(ComeBack([ composer EXCEPT !.position = position ]))

ToggleInputMode ==
    composer' = SetInputMode(composer, IF composer.input_mode = "HIRAGANA"
                                       THEN "HALF_ASCII" ELSE "HIRAGANA")

\* SwitchInputMode of Session also begins a new input.
SwitchInputMode(mode) ==
    composer' = [ InMode(composer, mode) EXCEPT !.is_new_input = TRUE ]

Edit ==
    \/ \E mode \in InputModes \cup {composer.input_mode}, late \in BOOLEAN :
          /\ late => keyboard \in TimeoutKeyboards
          /\ InsertKeyEvent(mode, late)
    \/ InsertCommandCharacter
    \/ \E key \in keyboard : key.conversion = << >> /\ SetCompositionsForHandwriting(key)
    \/ composer' = Asked(Delete(composer)) \/ composer' = Asked(Backspace(composer))
    \/ \E length \in 1..Length(composer) : DeleteRange(length)
    \/ \E position \in 0..Length(composer) + 1 : MoveTo(position)
    \/ \E position \in {0, Length(composer)} : MoveToEdge(position)
    \/ \E mode \in OutputModes : composer' = Asked(SetOutputMode(composer, mode))
    \/ \E mode \in InputModes : SwitchInputMode(mode)
    \/ ToggleInputMode
    \/ composer' = EditErase(composer) \/ composer' = Reset(composer)

Next == Edit /\ UNCHANGED keyboard

Spec == Init /\ [][Next]_vars

-----------------------------------------------------------------------------
(***************************************************************************)
(* Properties.                                                             *)
(***************************************************************************)

\* What is shown right of the cursor.
RightOfCursor(c) == SubSeq(Text(c), c.position + 1, Len(Text(c)))

Without(s, i) == SubSeq(s, 1, i - 1) \o SubSeq(s, i + 1, Len(s))

(***************************************************************************)
(* The cursor, which the code computes from the lengths of chunks that are *)
(* cut, joined and shown in other scripts, is never outside of the text.   *)
(***************************************************************************)
CursorInText == composer.position \in 0..Len(Text(composer))

(***************************************************************************)
(* A chunk that remembers its length remembers the length of what it shows *)
(* now, whatever changed its text or its transliterator in between.        *)
(***************************************************************************)
LengthCacheFresh ==
    \A i \in DOMAIN composer.chunks :
       LET c == composer.chunks[i]
       IN  c.local_length_cache \in {npos, Len(Result(c, "LOCAL"))}

\* Without chunks, or with a last one that shows something.
ShownToTheEnd(chunks) == chunks # << >> => Result(Last(chunks), "LOCAL") # << >>

(***************************************************************************)
(* A position of the cursor, converted into a position in another script,  *)
(* never runs backwards or past the end of the text in that script:        *)
(* GetTransliteratedText subtracts two such positions as size_t.  The      *)
(* start is the start, and the end the end unless a chunk that shows       *)
(* nothing in its own script comes last.                                   *)
(***************************************************************************)
PositionsMonotone ==
    \A t12r \in OutputModes \cup {"HIRAGANA", "RAW_STRING"} :
       LET at == [ p \in 0..Length(composer) |-> ConvertPosition(composer.chunks, p, t12r) ]
           end == TotalLength(composer.chunks, t12r)
       IN  /\ \A p \in 1..Length(composer) : at[p - 1] <= at[p]
           /\ at[0] = 0 /\ at[Length(composer)] <= end
           /\ ShownToTheEnd(composer.chunks) => at[Length(composer)] = end

\* The script of the input mode, or what handwriting leaves behind.
InsertsInMode == composer.input_t12r \in {composer.input_mode, "RAW_STRING"}

(***************************************************************************)
(* The composition inserts in the script of the composer's input mode, in  *)
(* spite of the temporary, automatic and as-is changes of either, and the  *)
(* mode taken from the text around the cursor is a mode a user can be in.  *)
(***************************************************************************)
ModesAgree ==
    /\ InsertsInMode
    /\ {composer.input_mode, composer.comeback_input_mode} \subseteq Modes

\* A chunk shows something in every script, or nothing in any: for InsertInput
\* looks for the chunk right of the cursor in the script of the input mode.
SeenInAnyScript(chunks) ==
    \A i \in DOMAIN chunks : \A t12r \in Modes \cup {"RAW_STRING", "CONVERSION_STRING"} :
       Result(chunks[i], t12r) = << >> <=> Result(chunks[i], "LOCAL") = << >>

(***************************************************************************)
(* A key inserted at the cursor changes nothing right of where the cursor  *)
(* is then, although the chunk under the cursor is cut in two and the left *)
(* part may be joined with chunks before it.  The cursor has jumped over   *)
(* nothing that was shown, unless there are chunks that only some scripts  *)
(* show.                                                                   *)
(***************************************************************************)
TextAfterCursorKept ==
    EnableInsert(composer) =>
       \A key \in keyboard :
          LET after == RightOfCursor(Insert(composer, key))
          IN  \/ after = RightOfCursor(composer)
              \/ /\ ~ SeenInAnyScript(composer.chunks)
                 /\ IsSuffix(after, RightOfCursor(composer))

(***************************************************************************)
(* Delete and Backspace remove exactly the one character right or left of  *)
(* the cursor from what is shown, also when a chunk shows more characters  *)
(* than it has kana or keys.                                               *)
(***************************************************************************)
DeletesOneCharacter ==
    LET p == composer.position
        text == Text(composer)
        deleted == Delete(composer)
        back == Backspace(composer)
    IN  /\ p < Len(text) => Text(deleted) = Without(text, p + 1) /\ deleted.position = p
        /\ p > 0 => Text(back) = Without(text, p) /\ back.position = p - 1

=============================================================================
