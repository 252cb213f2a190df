----------------------------- MODULE SessionConverter -----------------------------
(***************************************************************************)
(* The SessionConverter of a session (session/session_converter.cc): which *)
(* of suggestion, prediction and conversion is going on, the segments of   *)
(* the conversion and the focused one.  Every operator takes a converter   *)
(* and returns the set of converters its method may leave behind; what the *)
(* dictionaries answer is the nondeterminism.                              *)
(*                                                                         *)
(* The conversion segments are kept as the set of the positions at which   *)
(* their keys end, counted in characters from the first: the segments      *)
(* ab|c|de are {2, 3, 5}.                                                  *)
(***************************************************************************)
EXTENDS Integers, FiniteSets, FiniteSetsExt

ConverterState == {"COMPOSITION", "SUGGESTION", "PREDICTION", "CONVERSION"}

NewConverter ==
  [ state         |-> "COMPOSITION",
    ends          |-> {},        \* segments_.conversion_segments()
    segment_index |-> 0,         \* the focused segment, from 0
    selected      |-> 0,         \* selected_candidate_indices_.size()
    previous      |-> FALSE,     \* previous_suggestions_ has candidates
    result        |-> 0,         \* characters of result_ nobody popped yet
    failed        |-> "no" ]     \* "DCHECK" or "CHECK" once one failed

IsActive(c) == c.state # "COMPOSITION"

(***************************************************************************)
(* A failed assertion stops the session: what a release build does after a *)
(* failed DCHECK is not modelled.                                          *)
(***************************************************************************)
Failed(c, kind) == [ c EXCEPT !.failed = kind ]

CheckState(c, states, next) == IF c.state \in states THEN next ELSE {Failed(c, "DCHECK")}

\* The outcomes of Op after those in S, unless an assertion failed.
Each(S, Op(_)) == UNION { IF c.failed # "no" THEN {c} ELSE Op(c) : c \in S }

---------------------------------------------------------------------------
(***************************************************************************)
(* Segments.                                                               *)
(***************************************************************************)
Segmentations(length) == { e \in SUBSET (1..length) : length \in e }

\* Where the first n segments end.
EndOf(ends, n) == IF n = 0 THEN 0
                  ELSE CHOOSE e \in ends : Cardinality({ x \in ends : x <= e }) = n

\* Mutant of After: the keys still count from the first committed character.
AfterUnshifted(ends, size) == { x \in ends : x > size }

\* The segments left once the first `size` characters are submitted.
After(ends, size) == { e - size : e \in { x \in ends : x > size } }

\* DCHECK_LT of AppendCandidateList, and every segments_.conversion_segment().
InRange(c) == c.segment_index < Cardinality(c.ends)

UpdateCandidateList(c) == IF InRange(c) THEN c ELSE Failed(c, "DCHECK")

\* selected_candidate_indices_[segment_index_] = ...
UpdateSelectedCandidateIndex(c) ==
  IF c.segment_index < c.selected THEN c ELSE Failed(c, "DCHECK")

ResetResult(c) == [ c EXCEPT !.result = 0 ]

ResetState(c) ==
  [ c EXCEPT !.state = "COMPOSITION", !.segment_index = 0, !.previous = FALSE,
             !.selected = 0 ]

\* One segment over the whole key, the shape of every suggestion and prediction.
SingleSegment(c, state, length) ==
  [ c EXCEPT !.state = state, !.ends = {length}, !.segment_index = 0, !.selected = 1 ]

---------------------------------------------------------------------------
(***************************************************************************)
(* Starting and dropping a conversion.                                     *)
(***************************************************************************)
(***************************************************************************)
(* StartConversion fails when the composer has no key, and also once the   *)
(* segments are made, when one of them is left without a candidate         *)
(* (IsValidSegments).  The segments stay after that failure.               *)
(***************************************************************************)
Convert(c, length) ==
  CheckState(c, {"COMPOSITION", "SUGGESTION", "CONVERSION"},
    IF length = 0
    THEN {ResetState(c)}
    ELSE UNION { { [ c EXCEPT !.state = "CONVERSION", !.ends = e, !.segment_index = 0,
                              !.selected = Cardinality(e) ],
                   ResetState([ c EXCEPT !.ends = e ]) } : e \in Segmentations(length) })

\* Not requested, in a password field, without an answer, or with one.
Suggest(c, length, password) ==
  CheckState(c, {"COMPOSITION", "SUGGESTION"},
    LET r == ResetState(c) IN
    {r} \cup IF password THEN {}
             ELSE { [ r EXCEPT !.ends = {} ],
                    [ SingleSegment(r, "SUGGESTION", length) EXCEPT !.previous = TRUE ] })

\* Only the first prediction asks the predictor and may fail for it.
Predict(c, length) ==
  LET r == ResetResult(c)
      first == c.state # "PREDICTION" /\ ~c.previous
  IN  {SingleSegment(r, "PREDICTION", length)}
        \cup IF first THEN {ResetState([ r EXCEPT !.ends = {length} ])} ELSE {}

Cancel(c) ==
  CheckState(c, ConverterState \ {"COMPOSITION"},
             {ResetState([ ResetResult(c) EXCEPT !.ends = {} ])})

Reset(c) ==
  LET r == [ c EXCEPT !.ends = {} ]
  IN  IF c.state = "COMPOSITION" THEN r ELSE ResetState(ResetResult(r))

\* The history, and with it every segment, may be dropped or rebuilt.
OnStartComposition(c) == { c, [ c EXCEPT !.ends = {} ] }

---------------------------------------------------------------------------
(***************************************************************************)
(* Moving among candidates and segments.                                   *)
(***************************************************************************)
\* CandidateNext, CandidatePrev, their pages and CandidateMoveToShortcut.
\* Expanding a prediction keeps its single segment.
CandidateMove(c) ==
  CheckState(c, {"PREDICTION", "CONVERSION"},
             {UpdateSelectedCandidateIndex(ResetResult(c))})

CandidateMoveToId(c, length) ==
  CheckState(c, ConverterState \ {"COMPOSITION"},
    Each(IF c.state = "SUGGESTION" THEN Predict(c, length) ELSE {ResetResult(c)},
         CandidateMove))

SegmentFocusInternal(c, index) ==
  CheckState(c, {"PREDICTION", "CONVERSION"},
    {IF c.state = "PREDICTION" THEN c
     ELSE UpdateCandidateList([ ResetResult(c) EXCEPT !.segment_index = index ])})

SegmentFocusFirst(c) == SegmentFocusInternal(c, 0)

SegmentFocusLast(c) == SegmentFocusInternal(c, Cardinality(c.ends) - 1)

SegmentFocusRight(c) ==
  IF c.segment_index + 1 >= Cardinality(c.ends)
  THEN SegmentFocusFirst(c)
  ELSE SegmentFocusInternal(c, c.segment_index + 1)

SegmentFocusLeft(c) ==
  IF c.segment_index <= 0
  THEN SegmentFocusLast(c)
  ELSE SegmentFocusInternal(c, c.segment_index - 1)

(***************************************************************************)
(* Converter::ResizeSegment moves the end of segment i by delta: it fails  *)
(* when the last segment would grow or the segment would vanish.  What the *)
(* segment gains is taken from the next one, what it loses is put in front *)
(* of the next one (ab|cd shrinks to a|bcd) or becomes the last segment.   *)
(* All are converted again: the other ends remain, and any segment but the *)
(* resized one may be split.                                               *)
(***************************************************************************)
ResizeSegment(ends, i, delta) ==
  LET from == EndOf(ends, i)
      end  == EndOf(ends, i + 1)
      new  == end + delta
      last == end = Max(ends)
      kept == { e \in ends : e <= from \/ (e > new /\ e > end) } \cup {new, Max(ends)}
  IN  IF (delta > 0 /\ last) \/ new = from
      THEN {}
      ELSE { e \in Segmentations(Max(ends)) :
               kept \subseteq e /\ \A x \in e : ~(from < x /\ x < new) }

\* Mutant of ResizeSegmentWidth: the selected indices keep their number.
ResizeKeepingSelected(c, delta) ==
  CheckState(c, {"PREDICTION", "CONVERSION"},
    IF c.state = "PREDICTION" \/ ResizeSegment(c.ends, c.segment_index, delta) = {}
    THEN {ResetResult(c)}
    ELSE { UpdateCandidateList([ ResetResult(c) EXCEPT !.ends = e ]) :
             e \in ResizeSegment(c.ends, c.segment_index, delta) })

ResizeSegmentWidth(c, delta) ==
  CheckState(c, {"PREDICTION", "CONVERSION"},
    IF c.state = "PREDICTION" THEN {c}
    ELSE IF ResizeSegment(c.ends, c.segment_index, delta) = {} THEN {ResetResult(c)}
    ELSE { UpdateSelectedCandidateIndex(UpdateCandidateList(
             [ ResetResult(c) EXCEPT !.ends = e, !.selected = Cardinality(e) ])) :
             e \in ResizeSegment(c.ends, c.segment_index, delta) })

(***************************************************************************)
(* Transliterations.  A prediction is cancelled first; what is not yet a   *)
(* conversion is converted and joined to one segment.  SwitchKanaType      *)
(* joins the segments itself and leaves selected_candidate_indices_ alone. *)
(***************************************************************************)
Transliterate(c, length, Join(_)) ==
  LET composed == Each(IF c.state = "PREDICTION" THEN Cancel(c) ELSE {c},
                       LAMBDA d : IF d.state = "CONVERSION" THEN {d}
                                  ELSE Each(Convert(d, length), Join))
  IN  Each(composed, LAMBDA d : IF d.state = "CONVERSION"
                                THEN {UpdateSelectedCandidateIndex(d)} ELSE {d})

ConvertToTransliteration(c, length) ==
  Transliterate(c, length, LAMBDA d :
    {IF d.state = "CONVERSION" /\ Cardinality(d.ends) # 1
     THEN [ ResetResult(d) EXCEPT !.ends = {length}, !.selected = 1 ]
     ELSE d})

SwitchKanaType(c, length) ==
  Transliterate(c, length, LAMBDA d :
    {IF d.state = "CONVERSION" THEN [ d EXCEPT !.ends = {length} ] ELSE d})

---------------------------------------------------------------------------
(***************************************************************************)
(* Committing.  A result of a conversion has a character per character of  *)
(* its key, any other result has one character.  A candidate that is a     *)
(* command (an incognito or presentation mode switch) yields no result.    *)
(***************************************************************************)
\* CommitUsageStatsWithSegmentsSize: the CHECK_LE, then the erase.
CommitUsageStats(c, size) ==
  IF size <= c.selected THEN [ c EXCEPT !.selected = @ - size ] ELSE Failed(c, "CHECK")

FinishConversion(c) == [ c EXCEPT !.ends = {} ]

Commit(c) ==
  CheckState(c, {"PREDICTION", "CONVERSION"},
    LET whole == IF c.state = "CONVERSION" THEN Cardinality(c.ends) ELSE 1
        size  == IF c.state = "CONVERSION" THEN Max(c.ends) ELSE 1
        d     == CommitUsageStats([ c EXCEPT !.result = size ], whole)
    IN  Cancel(c) \cup {IF d.failed # "no" THEN d ELSE ResetState(FinishConversion(d))})

\* Outcomes are pairs of a converter and the characters its segments used up.
CommitSegmentsInternal(c, n) ==
  IF c.state \notin {"PREDICTION", "CONVERSION"} \/ Cardinality(c.ends) < n
  THEN { <<Failed(c, "DCHECK"), 0>> }
  ELSE IF Cardinality(c.ends) = n
  THEN Commit(c) \X {0}
  ELSE LET size == EndOf(c.ends, n)
           d == CommitUsageStats([ c EXCEPT !.result = size ], n)
       IN  (Cancel(c) \X {0})
           \cup { << IF d.failed # "no" THEN d
                     ELSE UpdateCandidateList(
                            [ d EXCEPT !.ends = After(c.ends, size),
                                       !.segment_index = IF c.segment_index > n
                                                         THEN c.segment_index - n ELSE 0 ]),
                     size >> }

CommitHeadToFocusedSegments(c) == CommitSegmentsInternal(c, c.segment_index + 1)

CommitFirstSegment(c) == CommitSegmentsInternal(c, 1)

CommitPreedit(c, length) == ResetState(FinishConversion([ c EXCEPT !.result = length ]))

CommitHead(c, count) == [ c EXCEPT !.result = count ]

(***************************************************************************)
(* Committing a suggestion: the id may be gone, the candidate may be a     *)
(* command, and it may have been made from the first `size` characters of  *)
(* the composer only.  Outcomes are pairs of a converter and the number of *)
(* characters left in the composer (all of them when nothing is committed  *)
(* and the session resets the composer itself).                            *)
(***************************************************************************)
CommitSuggestion(c, length, zero_query) ==
  IF c.state # "SUGGESTION" \/ ~InRange(c)
  THEN { <<Failed(c, "DCHECK"), 0>> }
  ELSE { <<c, 0>>, <<ResetState(ResetResult(c)), 0>> }
       \cup { LET d == CommitUsageStats([ c EXCEPT !.result = IF size < length THEN size ELSE 1 ], 1)
                  rest == length - size
              IN  IF d.failed # "no" THEN <<d, 0>>
                  ELSE IF zero_query /\ rest > 0
                  THEN << [ d EXCEPT !.ends = {rest}, !.selected = 1 ], rest >>
                  ELSE << ResetState(FinishConversion(d)), rest >> :
              size \in 1..length \cup {length} }

===================================================================================
