------------------------------ MODULE Session ------------------------------
(***************************************************************************)
(* One input session (session/session.cc): the state machine that keys and *)
(* session commands drive, its composer, its SessionConverter and the      *)
(* stack of contexts an UNDO goes back to.                                 *)
(*                                                                         *)
(* The composer is the length of its preedit.  Cursor, input modes and the *)
(* keymap are choices: the cursor may be anywhere, and any command a       *)
(* keymap can bind in a state may be the next one.  Lengths count          *)
(* characters.  Every operator below takes a session and returns the set   *)
(* of sessions that its method may leave behind.                           *)
(***************************************************************************)
EXTENDS Integers, FiniteSets, Sequences, SequencesExt

SC == INSTANCE SessionConverter

CONSTANTS
  MaxLength,             \* max_length_ of the composer
  kMultipleUndoMaxSize,
  ZeroQuery,             \* Request::zero_query_suggestion
  MaxOwed                \* the bound of the history `owed`; 0 leaves it out

ASSUME SessionAssumption ==
  /\ MaxLength \in Nat \ {0}
  /\ kMultipleUndoMaxSize \in Nat
  /\ ZeroQuery \in BOOLEAN
  /\ MaxOwed \in Nat

VARIABLE session

States == {"DIRECT", "PRECOMPOSITION", "COMPOSITION", "CONVERSION"}

Composing == {"COMPOSITION", "CONVERSION"}

Fields == {"NORMAL", "PASSWORD", "TEL"}

\* KeyEvent::activated
Activated == {"absent", "on", "off"}

(***************************************************************************)
(* ImeContext.  `output` is the size of the result last copied "for Undo"; *)
(* `owed` is history: the characters the application has been given since  *)
(* the newest undo context was saved, which is what an UNDO has to take    *)
(* back.  `source_text` is the length of the text a reverse conversion     *)
(* started from, at most one character.                                    *)
(***************************************************************************)
NewContext ==
  [ state |-> "PRECOMPOSITION", length |-> 0, source_text |-> 0, field |-> "NORMAL",
    converter |-> SC!NewConverter, output |-> 0, owed |-> 0 ]

Init == session = [ context |-> NewContext, undo_contexts |-> << >>, output |-> 0 ]

---------------------------------------------------------------------------
(***************************************************************************)
(* Plumbing.                                                               *)
(***************************************************************************)
State(s) == s.context.state

Converter(s) == s.context.converter

\* The sessions after Op, unless an assertion failed before.
Then(S, Op(_)) == UNION { IF Converter(s).failed # "no" THEN {s} ELSE Op(s) : s \in S }

WithConverter(s, converters) ==
  { [ s EXCEPT !.context.converter = c ] : c \in converters }

WithLength(s, lengths) == { [ s EXCEPT !.context.length = n ] : n \in lengths }

ResetConverter(s) == [ s EXCEPT !.context.converter = SC!Reset(@) ]

ResetComposer(s) == [ s EXCEPT !.context.length = 0, !.context.source_text = 0 ]

SetSessionState(s, state) ==
  LET t == [ s EXCEPT !.context.state = state ]
  IN  CASE state \in {"DIRECT", "PRECOMPOSITION"} -> {ResetComposer(t)}
        [] state = "COMPOSITION" /\ State(s) = "PRECOMPOSITION" ->
             WithConverter(t, SC!OnStartComposition(Converter(s)))
        [] OTHER -> {t}

EnsureIMEIsOn(s) ==
  IF State(s) = "DIRECT" THEN SetSessionState(s, "PRECOMPOSITION") ELSE {s}

PushUndoContext(s) ==
  LET all == Append(s.undo_contexts, s.context)
      surplus == Max({0, Len(all) - kMultipleUndoMaxSize})
  IN  [ s EXCEPT !.undo_contexts = SubSeq(all, surplus + 1, Len(all)),
                 !.context.owed = 0 ]

PopUndoContext(s) ==
  [ s EXCEPT !.context = Last(s.undo_contexts), !.undo_contexts = Front(@) ]

ClearUndoContext(s) == [ s EXCEPT !.undo_contexts = << >> ]

HasUndoContext(s) == s.undo_contexts # << >>

\* "Copy the previous output for Undo."
CopyOutput(s) == {[ s EXCEPT !.context.output = s.output ]}

(***************************************************************************)
(* Output pops the result of the converter and shows its focused segment.  *)
(* OutputMode, OutputComposition and OutputKey change nothing.             *)
(***************************************************************************)
Output(s) ==
  LET c == SC!ResetResult(Converter(s))
  IN  {[ s EXCEPT !.output = IF Converter(s).result > 0 THEN Converter(s).result ELSE @,
                  !.context.converter = IF SC!IsActive(c) THEN SC!UpdateCandidateList(c)
                                        ELSE c ]}

\* Asked of the converter, unless the input field suppresses suggestions.
AskForSuggestion(s) ==
  WithConverter(s, SC!Suggest(Converter(s), s.context.length, s.context.field = "PASSWORD"))

ZeroQuerySuggest(s) == IF ZeroQuery THEN {s} \cup AskForSuggestion(s) ELSE {s}

\* "if (Suggest(...)) Output(command) else OutputComposition(command)".
SuggestAndOutput(s) ==
  {s} \cup Then(AskForSuggestion(s),
                LAMBDA t : IF Converter(t).state = "SUGGESTION" THEN Output(t) ELSE {t})

\* OutputFromState
OutputFromState(s) == IF State(s) = "CONVERSION" THEN Output(s) ELSE {s}

Precompose(s) == SetSessionState(s, "PRECOMPOSITION")

\* What a method of the converter did is shown.
Show(s, converters) == Then(WithConverter(s, converters), Output)

\* The session follows the converter into prediction or conversion, if it got there.
Enter(s, converters) ==
  Then(WithConverter(s, converters),
       LAMBDA t : IF Converter(t).state \in {"PREDICTION", "CONVERSION"}
                  THEN Then(SetSessionState(t, "CONVERSION"), Output)
                  ELSE {t})

---------------------------------------------------------------------------
(***************************************************************************)
(* Doing nothing, turning on and off, giving up.                           *)
(***************************************************************************)
DoNothing(s) ==
  IF ZeroQuery /\ State(s) = "PRECOMPOSITION" /\ SC!IsActive(Converter(s))
  THEN Output(ResetConverter(s))
  ELSE IF State(s) \in Composing THEN Output(s) ELSE {s}

EchoBack(s) == {ResetConverter(s)}

\* A key event of modifiers only keeps the undo contexts.
EchoBackAndClearUndoContext(s) == EchoBack(s) \cup EchoBack(ClearUndoContext(s))

CommitInternal(s, zero_query) ==
  LET saved == PushUndoContext(s)
      c == Converter(s)
      committed == WithConverter(saved, IF State(s) = "COMPOSITION"
                                        THEN {SC!CommitPreedit(c, s.context.length)}
                                        ELSE SC!Commit(c))
  IN  IF State(s) \notin Composing
      THEN DoNothing(s)
      ELSE Then(Then(Then(Then(committed, Precompose),
                          LAMBDA t : IF zero_query THEN {t} \cup AskForSuggestion(t) ELSE {t}),
                     Output),
                CopyOutput)

Commit(s) == CommitInternal(s, ZeroQuery)

IMEOn(s) == Precompose(ClearUndoContext(s))

\* Mutant of IMEOff: the converter is not reset.
IMEOffKeepingConverter(s) ==
  Then(Commit(ClearUndoContext(s)), LAMBDA t : SetSessionState(t, "DIRECT"))

IMEOff(s) ==
  Then(Commit(ClearUndoContext(s)), LAMBDA t : SetSessionState(ResetConverter(t), "DIRECT"))

MakeSureIMEOn(s) == IF State(s) = "DIRECT" THEN IMEOn(s) ELSE {s}

MakeSureIMEOff(s) == IF State(s) # "DIRECT" THEN IMEOff(s) ELSE {s}

InputMode(s) == Then(EnsureIMEIsOn(s), OutputFromState)

\* Mutant of Revert: the conversion is not cancelled.
RevertWithoutCancel(s) ==
  CASE State(s) = "PRECOMPOSITION" -> EchoBackAndClearUndoContext(s)
    [] State(s) = "DIRECT" -> DoNothing(s)
    [] OTHER -> Precompose(ClearUndoContext(s))

Revert(s) ==
  LET t == ClearUndoContext(s)
  IN  CASE State(s) = "PRECOMPOSITION" -> EchoBackAndClearUndoContext(s)
        [] State(s) = "DIRECT" -> DoNothing(s)
        [] State(s) = "COMPOSITION" -> Precompose(t)
        [] State(s) = "CONVERSION" ->
             Then(WithConverter(t, SC!Cancel(Converter(t))), Precompose)

ResetContext(s) ==
  IF State(s) = "PRECOMPOSITION"
  THEN EchoBackAndClearUndoContext(s)
  ELSE Precompose(ResetConverter(ClearUndoContext(s)))

---------------------------------------------------------------------------
(***************************************************************************)
(* Text that is committed as it stands, without the converter.             *)
(***************************************************************************)
CommitStringDirectly(s, size) ==
  IF size = 0 THEN {s}
  ELSE Then(Then(Precompose([ ResetConverter(s) EXCEPT !.output = @ + size ]),
                 ZeroQuerySuggest),
            Output)

CommitCompositionDirectly(s) == CommitStringDirectly(s, s.context.length)

CommitSourceTextDirectly(s) == CommitStringDirectly(s, s.context.source_text)

CommitRawText(s) == CommitStringDirectly(s, s.context.length)

\* The text a reverse conversion started from is given back.
TryCancelConvertReverse(s) == CommitSourceTextDirectly(s)

EditCancelOnPasswordField(s) ==
  IF s.context.source_text = 0 THEN CommitCompositionDirectly(s) ELSE CommitSourceTextDirectly(s)

EditCancel(s) ==
  IF s.context.field = "PASSWORD"
  THEN EditCancelOnPasswordField(s)
  ELSE Then(Then(TryCancelConvertReverse(s), Precompose),
            LAMBDA t : IF s.context.source_text > 0 THEN Output(t) ELSE {t})

EditCancelAndIMEOff(s) ==
  IF s.context.field = "PASSWORD"
  THEN EditCancelOnPasswordField(s)
  ELSE Then(Then(TryCancelConvertReverse(s),
                 LAMBDA t : SetSessionState(ResetConverter(ClearUndoContext(t)), "DIRECT")),
            Output)

\* Composer::ShouldCommitHead: the characters that exceed what the field keeps.
LengthToCommit(s) ==
  CASE s.context.field = "NORMAL" -> 0
    [] s.context.field = "PASSWORD" -> Max({0, s.context.length - 1})
    [] s.context.field = "TEL" -> s.context.length

CommitHead(s, count) ==
  LET t == ClearUndoContext(s)
  IN  Output([ t EXCEPT !.context.converter = SC!CommitHead(@, count),
                        !.context.length = @ - count ])

---------------------------------------------------------------------------
(***************************************************************************)
(* Typing.                                                                 *)
(***************************************************************************)
\* InsertCharacterKeyEvent: a key is refused at MaxLength or has no character,
\* and it may complete a romaji sequence or be one of several characters.
InsertedLengths(n) == IF n >= MaxLength THEN {n} ELSE {n} \cup 1..MaxLength

StartConversion(s) == Enter(s, SC!Convert(Converter(s), s.context.length))

InsertDirectly(s) ==
  Then(WithLength(s, InsertedLengths(s.context.length)), CommitCompositionDirectly)

\* The key is in the composer: ShouldCommit (a refused key leaves an empty
\* composer), ShouldCommitHead, CanStartAutoConversion, or a suggestion.
Compose(s) ==
  IF s.context.length = 0 THEN {s}
  ELSE CommitCompositionDirectly(s)
       \cup IF LengthToCommit(s) > 0
            THEN CommitHead(s, LengthToCommit(s))
            ELSE LET composed == SetSessionState(s, "COMPOSITION")
                 IN  Then(composed, SuggestAndOutput)
                     \cup IF s.context.length > 1 THEN Then(composed, StartConversion) ELSE {}

InsertCharacter(s) ==
  LET direct == EchoBackAndClearUndoContext(s)
                  \cup { ClearUndoContext(t) : t \in InsertDirectly(s) }
      shortcut == Show(s, SC!CandidateMove(Converter(s)))
      committed == CommitInternal(s, FALSE)
      type(t) == Then(WithLength(ClearUndoContext(t), InsertedLengths(t.context.length)), Compose)
      typeDirectly(t) == InsertDirectly(ClearUndoContext(t))
  IN  CASE State(s) = "PRECOMPOSITION" -> direct \cup type(s)
        [] State(s) = "COMPOSITION" ->
             type(s) \cup Then(committed, type) \cup Then(committed, typeDirectly)
        [] State(s) = "CONVERSION" ->
             shortcut \cup Then(committed, type) \cup Then(committed, typeDirectly)

\* The four InsertSpace methods make a direct input of the space.
InsertSpace(s) ==
  InsertCharacter(s) \cup IF State(s) = "PRECOMPOSITION" THEN InsertCharacter(ResetConverter(s))
                          ELSE {}

\* A space typed in an ASCII mode is committed with the text or inserted; a
\* second one is taken back and converts.
Convert(s) ==
  LET inserted == WithLength(s, {Min({s.context.length + 1, MaxLength})})
      shortened == WithLength(ClearUndoContext(s), {Max({0, s.context.length - 1})})
  IN  StartConversion(s) \cup Then(inserted, Commit) \cup InsertCharacter(s)
        \cup Then(shortened, StartConversion)

ConvertWithoutHistory(s) == StartConversion(s)

\* Delete and Backspace: nothing is removed when the cursor is at the edge.
Delete(s) ==
  Then(WithLength(ClearUndoContext(s), {s.context.length, Max({0, s.context.length - 1})}),
       LAMBDA t : IF t.context.length = 0 THEN Precompose(t) ELSE SuggestAndOutput(t))

MoveCursorInternal(s, clear_undo) ==
  IF s.context.field = "PASSWORD"
  THEN CommitCompositionDirectly(s)
  ELSE SuggestAndOutput(IF clear_undo THEN ClearUndoContext(s) ELSE s)

MoveCursor(s) == MoveCursorInternal(s, TRUE)

\* MoveCursorLeft and MoveCursorRight may commit when they cross the edge.
MoveCursorAcrossEdge(s) == Commit(s) \cup CommitInternal(s, FALSE)

MoveCursorTo(s) ==
  CASE State(s) = "PRECOMPOSITION" -> EchoBack(s)
    [] State(s) = "COMPOSITION" -> MoveCursor(s)
    [] OTHER -> DoNothing(s)

\* Rewinding or ending the toggling of a character keeps their number.
SendComposerCommand(s) == SuggestAndOutput(ClearUndoContext(s))

StopKeyToggling(s) == IF State(s) = "COMPOSITION" THEN SendComposerCommand(s) ELSE DoNothing(s)

UpdateComposition(s) ==
  LET written == WithLength(ClearUndoContext(ResetComposer(s)), 0..MaxLength)
  IN  CASE State(s) = "DIRECT" -> EchoBackAndClearUndoContext(s)
        [] State(s) = "CONVERSION" -> {s}
        [] OTHER -> Then(Then(written, LAMBDA t : SetSessionState(t, "COMPOSITION")),
                         SuggestAndOutput)

---------------------------------------------------------------------------
(***************************************************************************)
(* Prediction and conversion.                                              *)
(***************************************************************************)
ConvertToTransliteration(s) ==
  IF State(s) \in Composing
  THEN Enter(s, SC!ConvertToTransliteration(Converter(s), s.context.length))
  ELSE DoNothing(s)

SwitchKanaType(s) ==
  IF State(s) \in Composing
  THEN Enter(s, SC!SwitchKanaType(Converter(s), s.context.length))
  ELSE DoNothing(s)

\* DisplayAs* and Translate*: on a composition only the output mode changes.
DisplayAs(s) == IF State(s) = "CONVERSION" THEN ConvertToTransliteration(s) ELSE {s}

ConvertNext(s) == Show(s, SC!CandidateMove(Converter(s)))

ConvertPage(s) == IF State(s) = "CONVERSION" THEN ConvertNext(s) ELSE DoNothing(s)

PredictAndConvert(s) ==
  IF State(s) = "CONVERSION" THEN ConvertNext(s)
  ELSE Enter(s, SC!Predict(Converter(s), s.context.length))

ConvertCancel(s) ==
  Then(Then(SetSessionState(s, "COMPOSITION"),
            LAMBDA t : WithConverter(t, SC!Cancel(Converter(t)))),
       SuggestAndOutput)

\* No candidate is selected, it is not one of the history, or it is deleted.
DeleteCandidateFromHistory(s) ==
  DoNothing(s) \cup IF SC!IsActive(Converter(s)) THEN ConvertCancel(s) ELSE {}

SegmentFocusLeft(s) == Show(s, SC!SegmentFocusLeft(Converter(s)))
SegmentFocusRight(s) == Show(s, SC!SegmentFocusRight(Converter(s)))
SegmentFocusLeftEdge(s) == Show(s, SC!SegmentFocusFirst(Converter(s)))
SegmentFocusLast(s) == Show(s, SC!SegmentFocusLast(Converter(s)))
SegmentWidthExpand(s) == Show(s, SC!ResizeSegmentWidth(Converter(s), 1))
SegmentWidthShrink(s) == Show(s, SC!ResizeSegmentWidth(Converter(s), -1))

\* Committed segments leave the composer; DCHECK_GT: something remains.
DeleteCommitted(s, outcomes) ==
  { LET c == o[1]
        rest == Max({0, s.context.length - o[2]})
    IN  [ s EXCEPT !.context.converter = IF o[2] > 0 /\ rest = 0 THEN SC!Failed(c, "DCHECK")
                                         ELSE c,
                   !.context.length = rest ] : o \in outcomes }

LeaveConversion(s) ==
  IF SC!IsActive(Converter(s)) THEN {s} ELSE Then(Precompose(s), ZeroQuerySuggest)

DeliverCommit(S) == Then(Then(Then(S, LeaveConversion), Output), CopyOutput)

CommitSegment(s) ==
  DeliverCommit(DeleteCommitted(PushUndoContext(s), SC!CommitFirstSegment(Converter(s))))

CommitFirstSuggestion(s) ==
  LET outcomes == SC!CommitSuggestion(Converter(s), s.context.length, ZeroQuery)
      committed == WithConverter(PushUndoContext(s), { o[1] : o \in outcomes })
  IN  IF ~SC!IsActive(Converter(s))
      THEN DoNothing(s)
      ELSE Then(Then(Then(Then(committed, Precompose), ZeroQuerySuggest), Output), CopyOutput)

SelectCandidate(s) ==
  IF State(s) = "DIRECT" \/ ~SC!IsActive(Converter(s))
  THEN DoNothing(s)
  ELSE Then(Then(WithConverter(s, SC!CandidateMoveToId(Converter(s), s.context.length)),
                 LAMBDA t : SetSessionState(t, "CONVERSION")),
            Output)

\* On a partly committed suggestion the cursor goes to the end of the rest.
CommitCandidate(s) ==
  LET saved == PushUndoContext(s)
      focused == Then(WithConverter(saved, SC!CandidateMoveToId(Converter(s), s.context.length)),
                      LAMBDA t : DeleteCommitted(t, SC!CommitHeadToFocusedSegments(Converter(t))))
      suggested == SC!CommitSuggestion(Converter(s), s.context.length, ZeroQuery)
      keep(o) == [ saved EXCEPT !.context.converter = o[1], !.context.length = o[2] ]
      partly == { keep(o) : o \in { x \in suggested : x[2] > 0 } }
      wholly == WithConverter(saved, { o[1] : o \in { x \in suggested : x[2] = 0 } })
  IN  IF State(s) = "DIRECT" \/ ~SC!IsActive(Converter(s)) THEN {s}
      ELSE IF State(s) = "CONVERSION" THEN DeliverCommit(focused)
      ELSE DeliverCommit(wholly)
           \cup Then(Then(partly, LAMBDA t : MoveCursorInternal(t, FALSE)), CopyOutput)

\* From outside, of a text the application selected.
ConvertReverse(s) ==
  LET t == ResetComposer(ClearUndoContext(s))
      texts == WithLength([ t EXCEPT !.context.source_text = 1 ], 1..MaxLength)
  IN  IF State(s) \in Composing THEN DoNothing(s)
      ELSE DoNothing(s) \cup Then(texts, StartConversion)

RequestConvertReverse(s) == Output(s)

---------------------------------------------------------------------------
(***************************************************************************)
(* Undo.  The result copied at the last commit is deleted from the text of *)
(* the application, if the client can, and the saved context comes back.   *)
(***************************************************************************)
RequestUndo(s) ==
  IF State(s) = "PRECOMPOSITION" /\ ~HasUndoContext(s) THEN EchoBack(s) ELSE Output(s)

Undo(s) ==
  IF State(s) = "DIRECT" \/ ~HasUndoContext(s)
  THEN DoNothing(s)
  ELSE Output(PopUndoContext(s)) \cup IF s.context.output > 0 THEN DoNothing(s) ELSE {}

UndoOrRewind(s) ==
  IF HasUndoContext(s) THEN Undo(s)
  ELSE IF State(s) = "COMPOSITION" THEN SendComposerCommand(s) ELSE EchoBack(s)

---------------------------------------------------------------------------
(***************************************************************************)
(* The entry points.  KeyEvent::activated may turn the session on or off   *)
(* before the key is looked at; the output of that is dropped.             *)
(***************************************************************************)
HandleIndirectImeOnOff(s, activated) ==
  CASE activated = "on" /\ State(s) = "DIRECT" -> IMEOn(s)
    [] activated = "off" /\ State(s) # "DIRECT" ->
         { [ t EXCEPT !.output = 0 ] : t \in IMEOff(s) }
    [] OTHER -> {s}

GetEffectiveStateForTestSendKey(s, activated) ==
  CASE activated = "on" /\ State(s) = "DIRECT" -> "PRECOMPOSITION"
    [] activated = "off" -> "DIRECT"
    [] OTHER -> State(s)

TestSendKey(s, activated) ==
  LET state == GetEffectiveStateForTestSendKey(s, activated)
  IN  DoNothing(s)
      \cup CASE state = "DIRECT" -> EchoBack(s)
             [] state = "PRECOMPOSITION" ->
                  EchoBackAndClearUndoContext(s) \cup EchoBack(s) \cup Revert(s)
             [] OTHER -> {}

\* The output goes to the application.
Finish(s) ==
  [ s EXCEPT !.output = 0,
             !.context.output = IF HasUndoContext(s) THEN @ ELSE 0,
             !.context.owed = IF HasUndoContext(s) THEN Min({@ + s.output, MaxOwed})
                              ELSE 0 ]

\* A failed assertion ends the session.
Receive(outcomes) ==
  /\ Converter(session).failed = "no"
  /\ \E s \in outcomes : session' = Finish(s)

\* A session command, and what the session handler calls.
Command(Op(_)) == Receive(Op(session))

SendTestKey == Receive(UNION { TestSendKey(session, a) : a \in Activated })

SwitchInputFieldType ==
  \E f \in Fields : Receive(Output([ session EXCEPT !.context.field = f ]))

\* SetTable, SetConfig and SetRequest
SetConfig == Receive({ClearUndoContext(session)})

(***************************************************************************)
(* A key: the handler of each state, over the commands its keymap may bind *)
(* the key to.  The first are bound in every state but DIRECT.             *)
(***************************************************************************)
SendKeyActive(s) ==
  \/ Receive(InputMode(s))
  \/ Receive(DoNothing(s))
  \/ Receive(OutputFromState(s))
  \/ Receive(IMEOff(s))
  \/ Receive(RequestUndo(s))
  \/ Receive(InsertCharacter(s))
  \/ Receive(InsertSpace(s))
  \/ Receive(PredictAndConvert(s))
  \/ Receive(EditCancelAndIMEOff(s))

SendKeyDirectInputState(s) ==
  \/ Receive(IMEOn(s))
  \/ Receive(InputMode(s))
  \/ Receive(EchoBackAndClearUndoContext(s))
  \/ Receive(RequestConvertReverse(s))

SendKeyPrecompositionState(s) ==
  \/ SendKeyActive(s)
  \/ Receive(EchoBackAndClearUndoContext(s))
  \/ Receive(RequestConvertReverse(s))
  \/ Receive(Revert(s))
  \/ Receive(EditCancel(s))
  \/ Receive(CommitFirstSuggestion(s))

SendKeyCompositionState(s) ==
  \/ SendKeyActive(s)
  \/ Receive(EditCancel(s))
  \/ Receive(CommitFirstSuggestion(s))
  \/ Receive(Convert(s))
  \/ Receive(ConvertWithoutHistory(s))
  \/ Receive(Delete(s))
  \/ Receive(MoveCursor(s))
  \/ Receive(MoveCursorAcrossEdge(s))
  \/ Receive(Commit(s))
  \/ Receive(ConvertToTransliteration(s))
  \/ Receive(SwitchKanaType(s))
  \/ Receive(DisplayAs(s))

SendKeyConversionState(s) ==
  \/ SendKeyActive(s)
  \/ Receive(Commit(s))
  \/ Receive(ConvertToTransliteration(s))
  \/ Receive(SwitchKanaType(s))
  \/ Receive(DisplayAs(s))
  \/ Receive(CommitSegment(s))
  \/ Receive(ConvertNext(s))
  \/ Receive(ConvertPage(s))
  \/ Receive(SegmentFocusLeft(s))
  \/ Receive(SegmentFocusRight(s))
  \/ Receive(SegmentFocusLeftEdge(s))
  \/ Receive(SegmentFocusLast(s))
  \/ Receive(SegmentWidthExpand(s))
  \/ Receive(SegmentWidthShrink(s))
  \/ Receive(ConvertCancel(s))
  \/ Receive(DeleteCandidateFromHistory(s))

SendKey ==
  \E s \in UNION { HandleIndirectImeOnOff(session, a) : a \in Activated } :
    \/ Converter(s).failed # "no" /\ Receive({s})
    \/ Converter(s).failed = "no" /\
         \/ State(s) = "DIRECT" /\ SendKeyDirectInputState(s)
         \/ State(s) = "PRECOMPOSITION" /\ SendKeyPrecompositionState(s)
         \/ State(s) = "COMPOSITION" /\ SendKeyCompositionState(s)
         \/ State(s) = "CONVERSION" /\ SendKeyConversionState(s)

SendCommand ==
  \/ Command(InputMode)
  \/ Command(DoNothing)
  \/ Command(Revert)
  \/ Command(Commit)
  \/ Command(SelectCandidate)
  \/ Command(CommitCandidate)
  \/ Command(ConvertReverse)
  \/ Command(Undo)
  \/ Command(ResetContext)
  \/ Command(MoveCursorTo)
  \/ Command(UndoOrRewind)
  \/ Command(CommitRawText)
  \/ Command(ConvertPage)
  \/ Command(MakeSureIMEOn)
  \/ Command(MakeSureIMEOff)
  \/ Command(DeleteCandidateFromHistory)
  \/ Command(StopKeyToggling)
  \/ Command(UpdateComposition)
  \/ SwitchInputFieldType

Next == SendTestKey \/ SendKey \/ SendCommand \/ SetConfig

Spec == Init /\ [][Next]_session

---------------------------------------------------------------------------
Contexts == {session.context} \cup ToSet(session.undo_contexts)

\* The session and its converter each keep a state of their own.  Predicting
\* and converting is confined to CONVERSION, where no suggestion is left: a key
\* is never looked up in the keymap of one and handled by the other.  This
\* holds of the context an UNDO will bring back, too.  (An EchoBack in
\* CONVERSION resets the converter and leaves the session where it is.)
Agreement ==
  \A x \in Contexts :
    x.converter.failed = "no" =>
      IF x.state = "CONVERSION"
      THEN x.converter.state # "SUGGESTION"
      ELSE x.converter.state \in {"COMPOSITION", "SUGGESTION"}

\* The segments of a conversion cover the preedit of the composer exactly, the
\* focused one is among them and each has its selected candidate, however
\* segments were resized, joined and committed.
SegmentsCoverComposition ==
  \A x \in Contexts :
    LET c == x.converter
    IN  c.state = "CONVERSION" /\ c.failed = "no" =>
          /\ x.state = "CONVERSION"
          /\ Max(c.ends) = x.length
          /\ c.segment_index < Cardinality(c.ends)
          /\ Cardinality(c.ends) <= c.selected

\* No commit counts more segments than there are selected candidates, the
\* CHECK_LE of CommitUsageStatsWithSegmentsSize that aborts the server.
CheckHolds == Converter(session).failed # "CHECK"

\* A session that is off offers no candidate and holds no text, on whatever way
\* it was turned off.  Only the reading of a reverse conversion that was asked
\* for and could not be started may lie in the composer, next to the text it
\* was made from: ConvertReverse returns without taking it back.
OffIsQuiet ==
  State(session) = "DIRECT" =>
    /\ ~SC!IsActive(Converter(session))
    /\ session.context.length > 0 => session.context.source_text > 0

\* session.h: Undo "Undos the commitment".  Whenever an UNDO is possible, the
\* characters it deletes are the ones the application was given since the
\* context was saved.
UndoTakesBackCommit ==
  State(session) # "DIRECT" /\ HasUndoContext(session) =>
    session.context.output = session.context.owed

=============================================================================
