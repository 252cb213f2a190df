---------------------------- MODULE UserHistory ----------------------------
(***************************************************************************)
(* The user history of prediction/user_history_predictor.cc: the words the *)
(* user committed (dic_, an LruCache), their file, and the thread (sync_)  *)
(* that loads and saves it beside the thread that evaluates the commands.  *)
(*                                                                         *)
(* A word is a tuple of characters and stands for the pair of key and      *)
(* value; its fingerprint is the word itself.  WaitForSyncer blocks the    *)
(* command thread: it is the guard that the syncer is idle.  A finished    *)
(* BackgroundFuture and an absent one are the same.  The steps of the      *)
(* thread are those between which the command thread can act.              *)
(***************************************************************************)
EXTENDS Integers, Sequences, FiniteSets, SequencesExt

CONSTANTS
    Characters,      \* what words are made of
    Inputs,          \* the committed segments: sequences of words
    PrevWords,       \* words that can be the last history segment, or NoWord
    Punctuation,     \* the characters IsPunctuation is about
    CacheSize,       \* kLruCacheSize: 10000 in the code
    MaxNextEntries,  \* kMaxNextEntriesSize: 4 in the code
    Days62,          \* k62Days
    MaxTime,         \* bound: the clock
    MaxOps,          \* bound: commits, deletions, reloads and restarts
    MaxFaults        \* bound: failed reads, failed and short writes, kills

ASSUME SizesAssumption ==
    /\ CacheSize \in Nat \ {0} /\ MaxNextEntries \in Nat \ {0}
    /\ Days62 \in Nat /\ MaxTime \in Nat /\ MaxOps \in Nat /\ MaxFaults \in Nat

NoWord == << >>

\* Entries without a word, which say when the history was cleared; each is
\* found under a fingerprint of its own.
EventTypes == { "CLEAN_ALL_EVENT", "CLEAN_UNUSED_EVENT" }

\* A commit has segments, and each has a key and a value (TryInsert would
\* ignore an empty one).
ASSUME InputsAssumption ==
    /\ Inputs \subseteq Seq(Seq(Characters) \ {NoWord}) \ { << >> }
    /\ Characters \cap EventTypes = {}

VARIABLES
    dic,      \* dic_: the LRU list, head first, and the values on its free list
    updated,  \* updated_
    sync,     \* sync_: where its thread is, and the UserHistoryStorage it holds
    file,     \* the history file: what was written to it, and whether all of it is there
    revert,   \* the revert entries of the session's Segments
    now,      \* the clock
    ops, faults,
    deleted,  \* history: words ClearHistoryEntry removed, not learned again
    cleared   \* history: words ClearAllHistory removed, not learned again

vars == << dic, updated, sync, file, revert, now, ops, faults, deleted, cleared >>

\* A value of the cache as its constructor leaves it.  `used' stands for
\* suggestion_freq > 0.
NewValue ==
    [ word |-> NoWord, type |-> "DEFAULT_ENTRY", removed |-> FALSE,
      used |-> FALSE, time |-> 0, next |-> << >> ]

NewCache == [ lru |-> << >>, free |-> << >> ]
Idle     == [ stage |-> "none", history |-> << >> ]
Loading  == [ stage |-> "load_read", history |-> << >> ]

-----------------------------------------------------------------------------
(***************************************************************************)
(* storage/lru_cache.h as the predictor uses it.  LruCache.tla has the     *)
(* pointers; what matters here is that Insert(key) hands out the element   *)
(* freed last with the value it had.                                       *)
(***************************************************************************)

Keys(d)      == { d.lru[i].key : i \in DOMAIN d.lru }
At(d, key)   == CHOOSE i \in DOMAIN d.lru : d.lru[i].key = key
Lookup(d, key) == d.lru[At(d, key)].value
SetValue(d, key, value) == [ d EXCEPT !.lru[At(d, key)].value = value ]

LruErase(d, key) ==
    IF key \notin Keys(d) THEN d
    ELSE [ lru  |-> RemoveAt(d.lru, At(d, key)),
           free |-> << Lookup(d, key) >> \o d.free ]

LruInsert(d, key) ==
    LET evicted == IF key \in Keys(d) THEN LruErase(d, key)
                   ELSE IF d.free = << >> /\ Len(d.lru) = CacheSize
                   THEN LruErase(d, Last(d.lru).key)
                   ELSE d
        value   == IF evicted.free = << >> THEN NewValue ELSE Head(evicted.free)
    IN  [ lru  |-> << [ key |-> key, value |-> value ] >> \o evicted.lru,
          free |-> IF evicted.free = << >> THEN << >> ELSE Tail(evicted.free) ]

\* Clear pushes the elements on the free list from the head to the tail.
LruClear(d) ==
    [ lru  |-> << >>,
      free |-> Reverse([ i \in DOMAIN d.lru |-> d.lru[i].value ]) \o d.free ]

-----------------------------------------------------------------------------
(***************************************************************************)
(* Loading and saving.                                                     *)
(***************************************************************************)

Old(value) == value.time < now - Days62

\* Removes elements by swapping each with the last one not looked at yet and
\* cutting off the end, as DeleteEntriesBefore and EraseNextEntries do: the
\* n-th gap is filled by the n-th kept element from the end.
SwapOut(s, kept) ==
    LET Filler(gap) == CHOOSE i \in kept :
                         Cardinality({ j \in kept : j >= i })
                           = Cardinality((1..gap) \ kept)
    IN  [ i \in 1..Cardinality(kept) |-> IF i \in kept THEN s[i] ELSE s[Filler(i)] ]

DeleteEntriesUntouchedFor62Days(entries) ==
    SwapOut(entries, { i \in DOMAIN entries :
                         entries[i].type # "DEFAULT_ENTRY" \/ ~Old(entries[i]) })

\* Load(history): the cache is cleared and filled again.  EntryFingerprint
\* leaves the type out, so an event is found under NoWord from now on; there is
\* at most one, so the entries have different fingerprints, and each takes an
\* element off the free list.  (Values that are not UTF-8 are filtered out there;
\* words are well formed, so nothing is filtered here.)
LoadHistory(d, history) ==
    LET filled == [ i \in DOMAIN history |->
                      [ key |-> history[i].word, value |-> history[i] ] ]
    IN  [ lru  |-> Reverse(filled),
          free |-> SubSeq(LruClear(d).free, Len(history) + 1, Len(LruClear(d).free)) ]

\* The entries as Save collects them, from the tail to the head.
Collected(d) == Reverse([ i \in DOMAIN d.lru |-> d.lru[i].value ])

Fault == faults < MaxFaults /\ faults' = faults + 1

\* EncryptedStringStorage::Save: a temporary file is written and renamed.  The
\* stream is not looked at after the writes: a short write replaces the file as
\* well, by one that cannot be decrypted, and counts as a save.
WriteFile(entries) ==
    \E whole \in BOOLEAN :
       /\ file' = [ exists |-> TRUE, whole |-> whole, entries |-> entries ]
       /\ IF whole THEN UNCHANGED faults ELSE Fault

-----------------------------------------------------------------------------
(***************************************************************************)
(* Learning.                                                               *)
(***************************************************************************)

Earliest(S) == CHOOSE i \in S : \A j \in S : i <= j

\* The place of next_entries that InsertNextEntry overwrites once it is full.
RoomFor(d, next, fp) ==
    LET free   == { i \in DOMAIN next : next[i] = fp \/ next[i] \notin Keys(d) }
        oldest == { i \in DOMAIN next : \A j \in DOMAIN next :
                      Lookup(d, next[i]).time <= Lookup(d, next[j]).time }
    IN  IF free # {} THEN Earliest(free) ELSE Earliest(oldest)

\* A link that is there already is only noticed when next_entries is full.
InsertNextEntry(d, word, fp) ==
    LET next == Lookup(d, word).next
    IN  IF fp = NoWord THEN d
        ELSE [ d EXCEPT !.lru[At(d, word)].value.next =
                 IF Len(next) < MaxNextEntries THEN Append(next, fp)
                 ELSE [ next EXCEPT ![RoomFor(d, next, fp)] = fp ] ]

\* s: the cache and the revert entries.
Insert(s, word, suggested, fp, time) ==
    LET d == LruInsert(s.dic, word)
        v == [ Lookup(d, word) EXCEPT !.word = word, !.removed = FALSE,
                 !.time = time, !.used = @ \/ suggested ]
    IN  [ dic    |-> InsertNextEntry(SetValue(d, word, v), word, fp),
          revert |-> IF word \in Keys(s.dic) THEN s.revert
                     ELSE Append(s.revert, word) ]

\* The next_fp of segment i: no link to or from the second of two equal
\* segments.
NextFp(segments, i) ==
    IF \/ i = Len(segments)
       \/ \E j \in 1..i : segments[j] = segments[i + 1]
       \/ \E j \in 1..(i - 1) : segments[j] = segments[i]
    THEN NoWord ELSE segments[i + 1]

InsertHistoryForConversionSegments(s, segments, suggested) ==
    FoldLeft(LAMBDA t, i : Insert(t, segments[i], suggested, NextFp(segments, i), now),
             s, [ i \in DOMAIN segments |-> i ])

\* The link from the last history segment to the input.
LinkFrom(d, prev, segments, suggested) ==
    LET all == FlattenSeq(segments)
        d1  == IF suggested THEN d ELSE InsertNextEntry(d, prev, segments[1])
    IN  IF \/ prev = NoWord \/ prev \notin Keys(d)
           \/ Last(prev) \in Punctuation \/ segments[1][1] \in Punctuation
        THEN d
        ELSE IF suggested \/ Len(segments) > 1 THEN InsertNextEntry(d1, prev, all)
        ELSE d1

InsertHistory(s, prev, segments, suggested) ==
    LET s1 == InsertHistoryForConversionSegments(s, segments, suggested)
        s2 == IF Len(segments) > 1
              THEN Insert(s1, FlattenSeq(segments), suggested, NoWord, now) ELSE s1
    IN  [ s2 EXCEPT !.dic = LinkFrom(s2.dic, prev, segments, suggested) ]

\* A punctuation mark right after a sentence: the head of the LRU list and
\* the mark make another entry.
JoinPunctuation(s, prev, segments, suggested) ==
    IF s.dic.lru = << >> THEN s
    ELSE LET head == s.dic.lru[1].value
         IN  IF /\ head.time = now
                /\ Len(segments) = 1 /\ Len(segments[1]) = 1
                /\ segments[1][1] \in Punctuation
                /\ Len(prev) > 1
                /\ IsSuffix(prev, head.word)
             THEN Insert(s, head.word \o segments[1], suggested, NoWord, head.time)
             ELSE s

-----------------------------------------------------------------------------
(***************************************************************************)
(* Deleting one word.                                                      *)
(***************************************************************************)

\* Follows the links from the entry with this key for a chain whose words
\* make up `target', and finds its last link.
RemoveNgramChain(d, target, start) ==
    LET Walk[key \in Keys(d), n \in 0..Len(target)] ==
          LET e     == Lookup(d, key)
              m     == n + Len(e.word)
              found == { i \in DOMAIN e.next :
                           /\ e.next[i] \in Keys(d)
                           /\ Walk[e.next[i], m].result # "NOT_FOUND" }
              child == e.next[Earliest(found)]
          IN  IF m > Len(target) \/ SubSeq(target, n + 1, m) # e.word
                   THEN [ result |-> "NOT_FOUND" ]
              ELSE IF m = Len(target) THEN [ result |-> "TAIL" ]
              ELSE IF found = {} THEN [ result |-> "NOT_FOUND" ]
              ELSE IF Walk[child, m].result = "TAIL"
                   THEN [ result |-> "DONE", from |-> key, to |-> child ]
              ELSE Walk[child, m]
    IN  Walk[start, 0]

EraseNextEntries(d, key, fp) ==
    [ d EXCEPT !.lru[At(d, key)].value.next =
                 SwapOut(@, { i \in DOMAIN Lookup(d, key).next :
                                Lookup(d, key).next[i] # fp }) ]

\* From every entry that the word starts with, cuts a chain that makes it.
RemoveChains(d, target) ==
    FoldLeft(LAMBDA c, i :
               LET r == RemoveNgramChain(c, target, c.lru[i].key)
               IN  IF r.result = "DONE" THEN EraseNextEntries(c, r.from, r.to) ELSE c,
             d, [ i \in DOMAIN d.lru |-> i ])

\* Marks the entry of the word itself.
MarkRemoved(d, word) ==
    IF word \notin Keys(d) THEN d
    ELSE [ d EXCEPT !.lru[At(d, word)].value.removed = TRUE,
                    !.lru[At(d, word)].value.used =
                       @ /\ Lookup(d, word).removed ]

-----------------------------------------------------------------------------
(***************************************************************************)
(* The command thread.                                                     *)
(***************************************************************************)

Spend == ops < MaxOps /\ ops' = ops + 1

Words(entries) == { entries[i].word : i \in DOMAIN entries } \ { NoWord }
WordsOf(d)     == Words(Collected(d))

\* The words a Finish inserts are promised gone no longer.
Learned(words) == deleted' = deleted \ words /\ cleared' = cleared \ words

\* Mutant of CheckSyncerAndDelete: does not look whether the thread is ready.
CheckSyncerAndDelete_Any == TRUE

CheckSyncerAndDelete == sync = Idle

\* A commit.  FinishConversion clears the revert entries; a punctuation mark
\* is joined before the segments are found fit to be learned or not (a
\* candidate without learning, privacy-sensitive input).
Finish(prev, segments, suggested, learnable) ==
    LET joined == JoinPunctuation([ dic |-> dic, revert |-> << >> ],
                                  prev, segments, suggested)
        s == IF learnable THEN InsertHistory(joined, prev, segments, suggested)
             ELSE joined
    IN  /\ CheckSyncerAndDelete
        /\ Spend
        /\ dic' = s.dic
        /\ revert' = s.revert
        /\ updated' = (updated \/ learnable \/ s.dic # dic)
        /\ Learned({ w \in WordsOf(s.dic) :
                      w \in Keys(dic) => Lookup(dic, w) # Lookup(s.dic, w) })
        /\ UNCHANGED << sync, file, now, faults >>

\* A commit of which Finish takes no notice: the syncer is running, incognito
\* mode, no history in the configuration.
FinishWithoutLearning ==
    /\ revert' = << >>
    /\ UNCHANGED << dic, updated, sync, file, now, ops, faults, deleted, cleared >>

\* A prediction changes nothing but notes that it met an old entry.
Predict ==
    /\ CheckSyncerAndDelete
    /\ \E i \in DOMAIN dic.lru : Old(dic.lru[i].value)
    /\ updated' = TRUE
    /\ UNCHANGED << dic, sync, file, revert, now, ops, faults, deleted, cleared >>

\* RevertConversion: the entries that the last commit created are erased,
\* unless the syncer is running; the revert entries are gone in any case.
Revert ==
    /\ revert # << >>
    /\ dic' = IF CheckSyncerAndDelete THEN FoldLeft(LruErase, dic, revert) ELSE dic
    /\ revert' = << >>
    /\ UNCHANGED << updated, sync, file, now, ops, faults, deleted, cleared >>

\* The only command that changes dic_ without a look at the syncer.
ClearHistoryEntry(word) ==
    LET d == RemoveChains(MarkRemoved(dic, word), word)
    IN  /\ d # dic
        /\ Spend
        /\ dic' = d
        /\ updated' = TRUE
        /\ deleted' = IF word \in Keys(dic) THEN deleted \cup {word} ELSE deleted
        /\ UNCHANGED << sync, file, revert, now, faults, cleared >>

\* AsyncSave.
Saving == [ stage |-> "save_collect", history |-> << >> ]

Sync ==
    /\ updated
    /\ CheckSyncerAndDelete
    /\ sync' = Saving
    /\ UNCHANGED << dic, updated, file, revert, now, ops, faults, deleted, cleared >>

InsertEvent(d, type) ==
    SetValue(LruInsert(d, << type >>), << type >>,
             [ NewValue EXCEPT !.type = type, !.time = now ])

\* Mutant of ClearAllHistory: without the event the cache is empty.
ClearAllHistory_NoEvent ==
    /\ sync = Idle
    /\ Spend
    /\ dic' = NewCache
    /\ updated' = TRUE
    /\ sync' = Saving
    /\ cleared' = cleared \cup WordsOf(dic) \cup Words(file.entries)
    /\ UNCHANGED << file, revert, now, faults, deleted >>

ClearAllHistory ==
    /\ sync = Idle
    /\ Spend
    /\ dic' = InsertEvent(NewCache, "CLEAN_ALL_EVENT")
    /\ updated' = TRUE
    /\ sync' = Saving
    /\ cleared' = cleared \cup WordsOf(dic) \cup Words(file.entries)
    /\ UNCHANGED << file, revert, now, faults, deleted >>

\* The entries that were never chosen from a suggestion go, in LRU order.
ClearUnusedHistory ==
    LET rest == FoldLeft(LAMBDA c, e : IF e.value.used THEN c ELSE LruErase(c, e.key),
                         dic, dic.lru)
    IN  /\ sync = Idle
        /\ dic.lru # << >>
        /\ Spend
        /\ dic' = InsertEvent(rest, "CLEAN_UNUSED_EVENT")
        /\ updated' = TRUE
        /\ sync' = Saving
        /\ UNCHANGED << file, revert, now, faults, deleted, cleared >>

\* RELOAD and the replacement of the engine: what is not saved is lost.
Reload ==
    /\ sync = Idle
    /\ Spend
    /\ sync' = Loading
    /\ deleted' = {}
    /\ UNCHANGED << dic, updated, file, revert, now, faults, cleared >>

\* A new predictor, with a thread that loads the file.
NewPredictor ==
    /\ dic' = NewCache
    /\ updated' = FALSE
    /\ sync' = Loading
    /\ revert' = << >>
    /\ UNCHANGED now

\* The predictor is destroyed (it waits, and saves) and made again.
Restart ==
    LET entries == DeleteEntriesUntouchedFor62Days(Collected(dic))
    IN  /\ sync = Idle
        /\ Spend
        /\ \/ /\ IF updated /\ dic.lru # << >>
                 THEN WriteFile(entries) ELSE UNCHANGED << file, faults >>
              /\ UNCHANGED << deleted, cleared >>
           \/ /\ updated
              /\ Fault
              /\ deleted' = {} /\ cleared' = {}
              /\ UNCHANGED file
        /\ NewPredictor

\* The process is killed.  What ClearAllHistory removed stays removed if its
\* thread had ended.
Kill ==
    /\ Fault
    /\ NewPredictor
    /\ deleted' = {}
    /\ cleared' = IF sync = Idle THEN cleared ELSE {}
    /\ UNCHANGED << file, ops >>

-----------------------------------------------------------------------------
(***************************************************************************)
(* The thread of the syncer.                                               *)
(***************************************************************************)

\* Load: the file is read, and old entries of it are dropped ...
LoadRead ==
    /\ sync.stage = "load_read"
    /\ \/ /\ file.exists /\ file.whole
          /\ sync' = [ stage   |-> "load_apply",
                       history |-> DeleteEntriesUntouchedFor62Days(file.entries) ]
          /\ UNCHANGED faults
       \/ /\ IF file.exists /\ file.whole THEN Fault ELSE UNCHANGED faults
          /\ sync' = Idle
    /\ UNCHANGED << dic, updated, file, revert, now, ops, deleted, cleared >>

\* ... and the cache is replaced.
LoadApply ==
    /\ sync.stage = "load_apply"
    /\ dic' = LoadHistory(dic, sync.history)
    /\ sync' = Idle
    /\ UNCHANGED << updated, file, revert, now, ops, faults, deleted, cleared >>

\* Save: the entries are copied ...
SaveCollect ==
    /\ sync.stage = "save_collect"
    /\ sync' = IF updated /\ dic.lru # << >>
               THEN [ stage |-> "save_write", history |-> Collected(dic) ]
               ELSE Idle
    /\ UNCHANGED << dic, updated, file, revert, now, ops, faults, deleted, cleared >>

\* Mutant of SaveFails: updated_ is reset all the same.
SaveFails_Reset ==
    /\ sync.stage = "save_write"
    /\ Fault
    /\ sync' = Idle
    /\ updated' = FALSE
    /\ deleted' = {} /\ cleared' = {}
    /\ UNCHANGED << dic, file, revert, now, ops >>

SaveFails ==
    /\ sync.stage = "save_write"
    /\ Fault
    /\ sync' = Idle
    /\ deleted' = {} /\ cleared' = {}
    /\ UNCHANGED << dic, updated, file, revert, now, ops >>

\* ... written to the file ...
SaveWrite ==
    LET entries == DeleteEntriesUntouchedFor62Days(sync.history)
    IN  /\ sync.stage = "save_write"
        /\ WriteFile(entries)
        /\ sync' = [ stage |-> "save_load", history |-> entries ]
        /\ UNCHANGED << dic, updated, revert, now, ops, deleted, cleared >>

\* ... loaded into the cache again ...
SaveLoad ==
    /\ sync.stage = "save_load"
    /\ dic' = LoadHistory(dic, sync.history)
    /\ sync' = [ stage |-> "save_reset", history |-> << >> ]
    /\ UNCHANGED << updated, file, revert, now, ops, faults, deleted, cleared >>

\* ... and updated_ is reset.
SaveReset ==
    /\ sync.stage = "save_reset"
    /\ updated' = FALSE
    /\ sync' = Idle
    /\ UNCHANGED << dic, file, revert, now, ops, faults, deleted, cleared >>

SyncThread ==
    \/ LoadRead \/ LoadApply
    \/ SaveCollect \/ SaveFails \/ SaveWrite \/ SaveLoad \/ SaveReset

Tick ==
    /\ now < MaxTime
    /\ now' = now + 1
    /\ UNCHANGED << dic, updated, sync, file, revert, ops, faults, deleted, cleared >>

-----------------------------------------------------------------------------
Init ==
    /\ dic = NewCache /\ updated = FALSE /\ sync = Loading /\ revert = << >>
    /\ file = [ exists |-> FALSE, whole |-> FALSE, entries |-> << >> ]
    /\ now = 0 /\ ops = 0 /\ faults = 0
    /\ deleted = {} /\ cleared = {}

\* The words that commits can bring into the history.
InputWords ==
    UNION { { i[j] : j \in DOMAIN i } \cup { FlattenSeq(i) } : i \in Inputs }

Next ==
    \/ \E prev \in PrevWords, segments \in Inputs, suggested, learnable \in BOOLEAN :
          Finish(prev, segments, suggested, learnable)
    \/ FinishWithoutLearning
    \/ Predict
    \/ Revert
    \/ \E word \in InputWords : ClearHistoryEntry(word)
    \/ Sync
    \/ ClearAllHistory
    \/ ClearUnusedHistory
    \/ Reload
    \/ Restart
    \/ Kill
    \/ SyncThread
    \/ Tick

\* The watch dog's CLEANUP calls Sync again and again; the thread runs.
Fairness == WF_vars(Sync) /\ WF_vars(SyncThread)

Spec == Init /\ [][Next]_vars /\ Fairness

-----------------------------------------------------------------------------
(***************************************************************************)
(* The save reloads the cache from the copy it took before it wrote the    *)
(* file: no word may have been learned in between, or the reload loses it. *)
(***************************************************************************)
SaveKeepsHistory ==
    [][ SaveLoad => \A w \in WordsOf(dic) : Old(Lookup(dic, w)) \/ w \in WordsOf(dic') ]_vars

(***************************************************************************)
(* What ClearAllHistory removed does not come back from the file, whatever *)
(* the thread was doing when it was called and however often the server    *)
(* is restarted, unless the save after it reported a failure.              *)
(***************************************************************************)
ClearedStaysCleared == cleared \cap WordsOf(dic) = {}

Saved(w)            == file.whole /\ w \in Words(file.entries)
LostInShortWrite(w) == ~file.whole /\ w \in Words(file.entries)

(***************************************************************************)
(* A word that is learned reaches the file, whatever loads, saves that     *)
(* report a failure and kills come in between, unless it leaves the cache  *)
(* before.  Only the short write that nobody notices can lose it: then the *)
(* very write that held the word is the one that cannot be read.           *)
(***************************************************************************)
LearnedIsSaved ==
    \A w \in InputWords :
      w \in WordsOf(dic) ~> (Saved(w) \/ LostInShortWrite(w) \/ w \notin WordsOf(dic))

(***************************************************************************)
(* What user_data_manager_interface.h says of ClearUserPredictionEntry: it *)
(* clears the entry.  Until the word is committed again, and without a     *)
(* failed save, it is not suggested any more.                              *)
(***************************************************************************)
DeletedStaysDeleted ==
    \A w \in deleted \cap WordsOf(dic) : Lookup(dic, w).removed

(***************************************************************************)
(* What user_history_predictor.proto says of next_entries, the words which *)
(* were input just after this one, and of suggestion_freq: a word new to   *)
(* the history has no links but those of its own commit and no uses.       *)
(***************************************************************************)
NewWordHasNoPast ==
    [][ \A prev \in PrevWords, segments \in Inputs, suggested \in BOOLEAN :
          Finish(prev, segments, suggested, TRUE) =>
            \A w \in WordsOf(dic') \ WordsOf(dic) :
               LET v == Lookup(dic', w)
               IN  /\ v.type = "DEFAULT_ENTRY"
                   /\ v.used => suggested
                   /\ \A i \in DOMAIN v.next :
                        \/ w = prev
                        \/ \E j \in DOMAIN segments :
                             w = segments[j] /\ v.next[i] = NextFp(segments, j) ]_vars
=============================================================================
