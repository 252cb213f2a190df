--------------------------- MODULE SessionHandler ---------------------------
(***************************************************************************)
(* The command processor of the conversion server (session_handler.cc):    *)
(* the LRU map of sessions, their creation, eviction and clean-up, the     *)
(* server's time-outs, and the objects that the handler owns and every     *)
(* session points to (the Config, the Request, the KeyMapManager and the   *)
(* composer Table) or reaches through the engine (its Modules).            *)
(*                                                                         *)
(* A session is modelled by the parts of session.cc that matter here: its  *)
(* two times, the stack of undo contexts, and which of the objects its     *)
(* contexts point to have been freed.                                      *)
(***************************************************************************)
EXTENDS Integers, Sequences, FiniteSets, LruOrder

CONSTANTS
    SessionID,             \* the ids CreateNewSessionID draws from (0 is not one)
    App,                   \* client applications (processes)
    InfinitePast,          \* absl::InfinitePast()
    FlagMaxSessionSize,    \* --max_session_size
    FlagCreateMinInterval, \* --create_session_min_interval
    FlagWatchDogInterval,  \* --watch_dog_interval
    FlagCommandTimeout,    \* --last_command_timeout
    FlagCreateTimeout,     \* --last_create_session_timeout
    FlagTimeout,           \* --timeout
    UndoMaxSize,           \* kMultipleUndoMaxSize
    ClockSteps,            \* how far the system clock may move at once
    StartTime,             \* the clock when the server starts
    MaxTime                \* bound: the clock stays within 0..MaxTime

ASSUME SessionIDAssumption == IsFiniteSet(SessionID)
ASSUME InfinitePastAssumption == InfinitePast \notin Int
ASSUME FlagAssumption ==
    /\ FlagMaxSessionSize \in Int
    /\ FlagCreateMinInterval \in Int
    /\ FlagWatchDogInterval \in Int
    /\ FlagCommandTimeout \in Int
    /\ FlagCreateTimeout \in Int
    /\ FlagTimeout \in Int
ASSUME UndoMaxSizeAssumption == UndoMaxSize \in Nat \ {0}
ASSUME ClockAssumption == ClockSteps \subseteq Int /\ StartTime \in Nat /\ MaxTime \in Nat

VARIABLES
    session,                  \* session_map_: id -> session, for the live ids
    newer,                    \* the order of session_map_'s LRU list
    is_available,             \* is_available_
    last_session_empty_time,  \* last_session_empty_time_
    last_cleanup_time,        \* last_cleanup_time_
    last_create_session_time, \* last_create_session_time_
    now,                      \* the system clock, in seconds
    exited                    \* the applications whose process is gone

vars == << session, newer, is_available, last_session_empty_time,
           last_cleanup_time, last_create_session_time, now, exited >>

-----------------------------------------------------------------------------
(***************************************************************************)
(* Flags and times.                                                        *)
(***************************************************************************)

\* std::max(lo, std::min(x, hi))
Clamp(lo, x, hi) == IF x < lo THEN lo ELSE IF x > hi THEN hi ELSE x

max_session_size             == Clamp(2, FlagMaxSessionSize, 128)
create_session_min_interval  == Clamp(0, FlagCreateMinInterval, 10)
create_session_timeout       == Clamp(1, FlagCreateTimeout, 600)
last_command_timeout         == Clamp(10, FlagCommandTimeout, 7200)
watch_dog_interval           == Clamp(1, FlagWatchDogInterval, 600)

\* A stored time: a reading of the clock, or InfinitePast.
Time == Int \cup {InfinitePast}

-----------------------------------------------------------------------------
(***************************************************************************)
(* Sessions.  An ImeContext is the time of its last command and the set of *)
(* objects it points to that no longer exist.  `accessed' is a history     *)
(* field, not one of the code: when the last command reached the session,  *)
(* whichever context was current then.                                     *)
(***************************************************************************)

\* What contexts point to and do not own: "table" stands for the pointers of
\* the composer and its composition, "chunk_table" for those of the character
\* chunks that the composition is made of while the user is composing.
Object == {"config", "request", "keymap", "table", "chunk_table", "modules"}

ImeContext == [ last_command_time : Time, dangling : SUBSET Object ]

Session == [ app : App, create_time : Int, context : ImeContext,
             undo_contexts : Seq(ImeContext), accessed : Int ]

Live == DOMAIN session

ClearUndoContext(s) == [ s EXCEPT !.undo_contexts = << >> ]

\* Mutant of PushUndoContext: the stack is never purged.
PushUndoContext_NoPurge(s) == [ s EXCEPT !.undo_contexts = Append(@, s.context) ]

\* Append, then drop the oldest context if there are now too many.
PushUndoContext(s) ==
    LET pushed == Append(s.undo_contexts, s.context)
    IN  [ s EXCEPT !.undo_contexts =
            IF Len(pushed) > UndoMaxSize THEN Tail(pushed) ELSE pushed ]

\* The newest undo context becomes the current one, its times included.
PopUndoContext(s) ==
    LET n == Len(s.undo_contexts)
    IN  IF n = 0 THEN s
        ELSE [ s EXCEPT !.context = s.undo_contexts[n],
                        !.undo_contexts = SubSeq(s.undo_contexts, 1, n - 1) ]

UpdateTime(s) == [ s EXCEPT !.context.last_command_time = now, !.accessed = now ]

\* InitContext: a new context points to static default objects.
NewSession(app) ==
    [ app |-> app, create_time |-> now, accessed |-> now,
      context |-> [ last_command_time |-> InfinitePast, dangling |-> {} ],
      undo_contexts |-> << >> ]

\* The objects of freed go away while c still points to them.
Free(c, freed) == [ c EXCEPT !.dangling = @ \cup freed ]

FreeFor(s, freed) ==
    [ s EXCEPT !.context = Free(@, freed),
               !.undo_contexts = [ i \in DOMAIN @ |-> Free(@[i], freed) ] ]

\* The current context's pointer to the object is set to the live one.
Point(s, object) == [ s EXCEPT !.context.dangling = @ \ {object} ]

Session_SetConfig(s)        == Point(ClearUndoContext(s), "config")
\* Mutant of Session_SetKeyMapManager: the session keeps its old pointer.
Session_SetKeyMapManager_Forgotten(s) == s

Session_SetKeyMapManager(s) == Point(s, "keymap")
Session_SetRequest(s)       == Point(ClearUndoContext(s), "request")
Session_SetTable(s)         == Point(ClearUndoContext(s), "table")

-----------------------------------------------------------------------------
(***************************************************************************)
(* What the handler does to all its sessions.                              *)
(***************************************************************************)

(***************************************************************************)
(* The new Config and Request replace the old ones, which are freed; the   *)
(* KeyMapManager and the cached Table are replaced only if they no longer  *)
(* fit the new Config.  Every session of the map is then pointed to the    *)
(* current objects, but the chunks of a composition in progress keep the   *)
(* Table they were typed with.                                             *)
(***************************************************************************)
UpdateSessions(sessions, replaced, composing) ==
    LET freed(i) == {"config", "request"} \cup replaced \cup
                    { o \in {"chunk_table"} : "table" \in replaced /\ i \in composing }
    IN  [ i \in DOMAIN sessions |->
            Session_SetTable(Session_SetRequest(Session_SetKeyMapManager(
                Session_SetConfig(FreeFor(sessions[i], freed(i)))))) ]

\* The sessions that have seen a command and so may be composing.
Used(sessions) ==
    { i \in DOMAIN sessions : sessions[i].context.last_command_time # InfinitePast }

\* A replaced Table is the one that the composing sessions type with, or not.
UpdatedSessions(sessions) ==
    { UpdateSessions(sessions, replaced, composing) :
        replaced \in SUBSET {"keymap", "table"}, composing \in SUBSET Used(sessions) }

(***************************************************************************)
(* The outcomes of MaybeReloadEngine, as the sets of objects it frees: the *)
(* engine's modules and the cached tables if a new data set is ready, and  *)
(* only while no session exists.                                           *)
(***************************************************************************)
MaybeReloadEngine(keys) ==
    IF keys # {} THEN { {} } ELSE { {}, {"modules", "table"} }

\* Mutant of DeleteSessionIDs: the map is looked at before the erasure.
DeleteSessionIDs_LooksTooEarly(R) ==
    /\ session' = [ i \in Live \ R |-> session[i] ]
    /\ newer' = RemoveFromLRU(newer, R)
    /\ last_session_empty_time' =
         IF R # {} /\ last_session_empty_time = InfinitePast /\ Live = {}
         THEN now
         ELSE last_session_empty_time

\* The sessions after DeleteSessionID of each id of R, and what else it sets.
DeleteSessionIDs(R) ==
    /\ session' = [ i \in Live \ R |-> session[i] ]
    /\ newer' = RemoveFromLRU(newer, R)
    /\ last_session_empty_time' =
         IF R # {} /\ last_session_empty_time = InfinitePast /\ Live \ R = {}
         THEN now
         ELSE last_session_empty_time

-----------------------------------------------------------------------------
(***************************************************************************)
(* The commands.  EvalCommand refuses every command once the handler is    *)
(* not available; a command that fails leaves the state as it is.          *)
(***************************************************************************)

\* The last creation lies in [now - interval, now]: refuse another one.
CreatedTooRecently ==
    /\ last_create_session_time # InfinitePast
    /\ now - last_create_session_time >= 0
    /\ now - last_create_session_time < create_session_min_interval

\* Mutant of SessionsToEvict: off by one.
SessionsToEvict_OneTooMany ==
    IF Cardinality(Live) > max_session_size
    THEN { {i} : i \in { j \in Live : IsLRUTail(newer, Live, j) } }
    ELSE { {} }

\* The element to evict before a session is created, as a set of ids.
SessionsToEvict ==
    IF Cardinality(Live) >= max_session_size
    THEN { {i} : i \in { j \in Live : IsLRUTail(newer, Live, j) } }
    ELSE { {} }

\* The part of CreateSession after the eviction and the reload are decided.
InsertSession(app, evicted, freed) ==
    \E id \in SessionID \ (Live \ evicted) :
      LET keys == (Live \ evicted) \cup {id}
          inserted == [ i \in keys |-> IF i = id THEN NewSession(app)
                                       ELSE FreeFor(session[i], freed) ]
      IN  /\ session' \in UpdatedSessions(inserted)
          /\ newer' = PushLRUHead(RemoveFromLRU(newer, evicted), keys, id)
          /\ last_create_session_time' = now
          /\ last_session_empty_time' = InfinitePast
          /\ UNCHANGED << is_available, last_cleanup_time, now, exited >>

CreateSession(app) ==
    /\ is_available
    /\ ~CreatedTooRecently
    /\ \E evicted \in SessionsToEvict :
       \E freed \in MaybeReloadEngine(Live \ evicted) :
          InsertSession(app, evicted, freed)

DeleteSession(id) ==
    /\ is_available
    /\ id \in Live
    /\ DeleteSessionIDs({id})
    /\ UNCHANGED << is_available, last_cleanup_time, last_create_session_time,
                    now, exited >>

\* The composition is committed or cleared: its chunks are gone.
EndComposition(s) == Point(s, "chunk_table")

\* What a key may do to the undo stack: nothing, clear it, commit (push), or
\* commit after a clear (IMEOff); and it may end the composition.
AfterKey(s) ==
    LET after == { s, ClearUndoContext(s), PushUndoContext(s),
                   PushUndoContext(ClearUndoContext(s)) }
    IN  after \cup { EndComposition(t) : t \in after }

\* A commit may bring a new Config, which the handler stores and reloads: it
\* differs in the incognito or the presentation mode only, so that the keymap
\* and the table stay.
MaybeUpdateConfig(sessions) == { sessions, UpdateSessions(sessions, {}, {}) }

\* Mutant of LookupSession: a look-up that leaves the LRU list alone.
LookupSession_Untouched(id) ==
    /\ is_available
    /\ id \in Live
    /\ UNCHANGED << newer, is_available, last_session_empty_time,
                    last_cleanup_time, last_create_session_time, now, exited >>

\* MutableLookup moves the session to the head of the LRU list.
LookupSession(id) ==
    /\ is_available
    /\ id \in Live
    /\ newer' = PushLRUHead(newer, Live, id)
    /\ UNCHANGED << is_available, last_session_empty_time, last_cleanup_time,
                    last_create_session_time, now, exited >>

SendKey(id) ==
    /\ LookupSession(id)
    /\ \E s \in AfterKey(UpdateTime(session[id])) :
         session' \in MaybeUpdateConfig([ session EXCEPT ![id] = s ])

TestSendKey(id) ==
    /\ LookupSession(id)
    /\ \E s \in { UpdateTime(session[id]), ClearUndoContext(UpdateTime(session[id])) } :
         session' = [ session EXCEPT ![id] = s ]

\* Undo, by a session command or by a key bound to it; the other session
\* commands act as keys do.
SendUndo(id) ==
    /\ LookupSession(id)
    /\ session' = [ session EXCEPT ![id] = PopUndoContext(UpdateTime(session[id])) ]

SendCommand(id) == SendKey(id) \/ SendUndo(id)

\* RELOAD, RELOAD_AND_WAIT, GET_CONFIG, SET_CONFIG and SET_REQUEST all end
\* in UpdateSessions.
Reload ==
    /\ is_available
    /\ session' \in UpdatedSessions(session)
    /\ UNCHANGED << newer, is_available, last_session_empty_time,
                    last_cleanup_time, last_create_session_time, now, exited >>

Shutdown ==
    /\ is_available
    /\ is_available' = FALSE
    /\ UNCHANGED << session, newer, last_session_empty_time, last_cleanup_time,
                    last_create_session_time, now, exited >>

\* Mutant of IsApplicationAlive: the process is never looked for.
IsApplicationAlive_Assumed(s) == TRUE

IsApplicationAlive(s) == s.app \notin exited

\* How long the machine seems to have slept since the last clean-up.
suspend_time ==
    IF /\ last_cleanup_time # InfinitePast
       /\ now - last_cleanup_time > 2 * watch_dog_interval
    THEN now - last_cleanup_time - watch_dog_interval
    ELSE 0

\* Mutant of Expired: a session without a command is infinitely old.
Expired_NoCreateTime(s) ==
    \/ ~IsApplicationAlive(s)
    \/ s.context.last_command_time = InfinitePast
    \/ now - s.context.last_command_time >= suspend_time + last_command_timeout

Expired(s) ==
    \/ ~IsApplicationAlive(s)
    \/ /\ s.context.last_command_time = InfinitePast
       /\ now - s.create_time >= suspend_time + create_session_timeout
    \/ /\ s.context.last_command_time # InfinitePast
       /\ now - s.context.last_command_time >= suspend_time + last_command_timeout

Cleanup ==
    /\ is_available
    /\ DeleteSessionIDs({ i \in Live : Expired(session[i]) })
    /\ is_available' =
         ~ /\ FlagTimeout > 0
           /\ \/ last_session_empty_time' = InfinitePast
              \/ now - last_session_empty_time' >= suspend_time + FlagTimeout
    /\ last_cleanup_time' = now
    /\ UNCHANGED << last_create_session_time, now, exited >>

\* A command that fails or that concerns other components (user data, user
\* dictionary, spelling, version), and any command after a shutdown.
EvalOther == UNCHANGED vars

-----------------------------------------------------------------------------
(***************************************************************************)
(* The environment.                                                        *)
(***************************************************************************)

\* The clock is the system's: a user may also set it back.
Tick ==
    \E d \in ClockSteps :
      /\ now + d \in 0..MaxTime
      /\ now' = now + d
      /\ UNCHANGED << session, newer, is_available, last_session_empty_time,
                      last_cleanup_time, last_create_session_time, exited >>

AppExit(app) ==
    /\ exited' = exited \cup {app}
    /\ UNCHANGED << session, newer, is_available, last_session_empty_time,
                    last_cleanup_time, last_create_session_time, now >>

Init ==
    /\ now = StartTime
    /\ session = [ i \in {} |-> NewSession(i) ]
    /\ newer = {}
    /\ is_available = TRUE
    /\ last_session_empty_time = now
    /\ last_cleanup_time = InfinitePast
    /\ last_create_session_time = InfinitePast
    /\ exited = {}

Next ==
    \/ \E app \in App : CreateSession(app) \/ AppExit(app)
    \/ \E id \in SessionID : \/ DeleteSession(id)
                             \/ SendCommand(id)
                             \/ TestSendKey(id)
    \/ Reload
    \/ Shutdown
    \/ Cleanup
    \/ EvalOther
    \/ Tick

\* The watch dog sends CLEANUP again and again (session_watch_dog.cc).
Fairness == WF_vars(Cleanup)

Spec == Init /\ [][Next]_vars /\ Fairness

-----------------------------------------------------------------------------
(***************************************************************************)
(* Properties.                                                             *)
(***************************************************************************)

\* Types; a session's undo stack never exceeds kMultipleUndoMaxSize.
TypeOK ==
    /\ Live \subseteq SessionID
    /\ session \in [ Live -> Session ]
    /\ \A i \in Live : Len(session[i].undo_contexts) <= UndoMaxSize
    /\ newer \subseteq SessionID \X SessionID
    /\ is_available \in BOOLEAN
    /\ last_session_empty_time \in Time
    /\ last_cleanup_time \in Time
    /\ last_create_session_time \in Time
    /\ now \in Int
    /\ exited \subseteq App

(***************************************************************************)
(* The LRU list holds exactly the live sessions, each once, and never more *)
(* than max_session_size_ of them, whatever mix of look-ups, evictions,    *)
(* deletions and clean-ups came before.                                    *)
(***************************************************************************)
SessionMapOK ==
    /\ IsLRUOrder(newer, Live)
    /\ Cardinality(Live) <= max_session_size

(***************************************************************************)
(* last_session_empty_time_ is InfinitePast exactly while there are        *)
(* sessions: CreateSession resets it, and whichever of DeleteSession and   *)
(* Cleanup removes the last session sets it.                               *)
(***************************************************************************)
EmptyTimeOK == last_session_empty_time = InfinitePast <=> Live # {}

(***************************************************************************)
(* No context, and in particular no saved undo context that UNDO could     *)
(* make current, points to a Config, Request, KeyMapManager, Table or      *)
(* engine data set that has been replaced and freed.  (The tables of the   *)
(* character chunks are the subject of ChunkTablesLive.)                   *)
(***************************************************************************)
NoDanglingPointer ==
    \A i \in Live :
      /\ session[i].context.dangling \subseteq {"chunk_table"}
      /\ \A j \in DOMAIN session[i].undo_contexts :
            session[i].undo_contexts[j].dangling \subseteq {"chunk_table"}

(***************************************************************************)
(* What the comments in char_chunk.h presuppose: the rules for a chunk are *)
(* described in the Table that the chunk points to, which therefore exists *)
(* as long as the chunk does.                                              *)
(***************************************************************************)
ChunkTablesLive ==
    \A i \in Live : "chunk_table" \notin session[i].context.dangling

(***************************************************************************)
(* With a clock that is never set back, CreateSession on a full map evicts *)
(* the session that went longest without a command, and never the only     *)
(* one: every command that reaches a session must move it in the list, and *)
(* nothing else may (UpdateSessions and Cleanup walk the list too).        *)
(***************************************************************************)
EvictsLeastRecentlyUsed ==
    [][ \A app \in App : CreateSession(app) =>
          \A i \in Live \ DOMAIN session' :
             /\ Live # {i}
             /\ \A j \in Live : session[j].accessed >= session[i].accessed ]_vars

(***************************************************************************)
(* With a clock that is never set back, Cleanup keeps the session of a     *)
(* running application if it was created less than both time-outs ago: no  *)
(* UNDO can make its last command older than the session itself.           *)
(***************************************************************************)
YoungSessionKept ==
    [][ Cleanup =>
          \A i \in Live :
             /\ IsApplicationAlive(session[i])
             /\ now - session[i].create_time < create_session_timeout
             /\ now - session[i].create_time < last_command_timeout
             => i \in DOMAIN session' ]_vars

(***************************************************************************)
(* The session of an application that exited is removed, as long as the    *)
(* server runs and the watch dog keeps asking for clean-ups.               *)
(***************************************************************************)
ExitedAppReclaimed ==
    \A i \in SessionID :
      (i \in Live /\ session[i].app \in exited) ~> (i \notin Live \/ ~is_available)
=============================================================================
