------------------------------- MODULE Server -------------------------------
(***************************************************************************)
(* The session handler together with the engine it owns.  One thread of    *)
(* the server (the loop of session_server.cc) evaluates the commands one   *)
(* after the other; CreateSession on an empty session map enters           *)
(* Engine::MaybeReloadEngine, and blocks there while the first data set is *)
(* being loaded.  The loading thread, the applications and the clock run   *)
(* beside it.  The clock stands still while the command thread is inside   *)
(* MaybeReloadEngine: the time CreateSession read before only feeds the    *)
(* minimum interval between creations.                                     *)
(***************************************************************************)
EXTENDS SessionHandler, Engine

CONSTANT NoApp
ASSUME NoAppAssumption == NoApp \notin App

VARIABLES
    pending,  \* the application whose CreateSession is in MaybeReloadEngine
    data      \* history: live session id -> the data set it was created on

server_vars == << vars, engine_vars, pending, data >>

\* A session created in this step lives on the data set that is current now.
RecordData ==
    data' = [ i \in DOMAIN session' |->
                IF i \in Live THEN data[i] ELSE current_data_id' ]

\* MaybeReloadEngine returns at once: some session uses the current engine.
CreateSessionBesideOthers(app) ==
    /\ pending = NoApp
    /\ Live # {}
    /\ is_available
    /\ ~CreatedTooRecently
    /\ \E evicted \in SessionsToEvict : InsertSession(app, evicted, {})
    /\ UNCHANGED << engine_vars, pending >>
    /\ RecordData

\* Mutant of CreateFirstSession: does not look whether there are sessions.
CreateFirstSession_AnyTime(app) ==
    /\ pending = NoApp
    /\ is_available
    /\ ~CreatedTooRecently
    /\ MaybeBuildDataLoader
    /\ pending' = app
    /\ UNCHANGED << vars, data >>

\* The session map is empty: look for a new data set first.
CreateFirstSession(app) ==
    /\ pending = NoApp
    /\ Live = {}
    /\ is_available
    /\ ~CreatedTooRecently
    /\ MaybeBuildDataLoader
    /\ pending' = app
    /\ UNCHANGED << vars, data >>

FinishCreateSession ==
    /\ pending # NoApp
    /\ \/ LoaderNotReady   /\ InsertSession(pending, {}, {})
       \/ RollbackRequest  /\ InsertSession(pending, {}, {})
       \/ ReloadModules    /\ InsertSession(pending, {}, {"modules", "table"})
    /\ pending' = NoApp
    /\ RecordData

\* The commands that concern the sessions only.
SessionCommand ==
    /\ pending = NoApp
    /\ \/ \E id \in SessionID : \/ DeleteSession(id)
                                \/ SendCommand(id)
                                \/ TestSendKey(id)
       \/ Reload
       \/ Shutdown
       \/ Cleanup
       \/ Tick
    /\ UNCHANGED << engine_vars, pending >>
    /\ RecordData

EngineCommand(id) ==
    /\ pending = NoApp
    /\ is_available
    /\ SendEngineReloadRequest(id)
    /\ UNCHANGED << vars, pending, data >>

Background ==
    \/ BuildThread /\ UNCHANGED << vars, pending, data >>
    \/ \E app \in App : AppExit(app) /\ UNCHANGED << engine_vars, pending, data >>

ServerInit ==
    /\ Init
    /\ EngineInit
    /\ pending = NoApp
    /\ data = [ i \in {} |-> 0 ]

ServerNext ==
    \/ \E app \in App : CreateSessionBesideOthers(app) \/ CreateFirstSession(app)
    \/ FinishCreateSession
    \/ SessionCommand
    \/ \E id \in DataId : EngineCommand(id)
    \/ Background

\* The watch dog's CLEANUP, one of the session commands.
WatchDogCleanup ==
    /\ pending = NoApp
    /\ Cleanup
    /\ UNCHANGED << engine_vars, pending >>
    /\ RecordData

\* Both threads keep running, and the watch dog keeps sending CLEANUP.
ServerFairness ==
    /\ WF_server_vars(FinishCreateSession)
    /\ WF_server_vars(WatchDogCleanup)
    /\ WF_server_vars(BuildThread /\ UNCHANGED << vars, pending, data >>)

ServerSpec == ServerInit /\ [][ServerNext]_server_vars /\ ServerFairness

-----------------------------------------------------------------------------
(***************************************************************************)
(* Every live session was created on the engine's current data set: the    *)
(* engine is never replaced under a session, even when a load finishes or  *)
(* a better request arrives while sessions come and go.                    *)
(***************************************************************************)
SessionsUseCurrentData ==
    /\ DOMAIN data = Live
    /\ \A i \in Live : data[i] = current_data_id

(***************************************************************************)
(* Seen from the sessions, the server does what SessionHandler allows: in  *)
(* particular the data set is only ever replaced between the last session  *)
(* of one and the first session of the next.                               *)
(***************************************************************************)
ImplementsSessionHandler == Init /\ [][Next]_vars

(***************************************************************************)
(* If clients keep creating first sessions (the map gets empty again and   *)
(* again), a requested data set does come into use or is found broken.     *)
(***************************************************************************)
RequestedDataLoaded ==
    []<>(pending # NoApp) => <>[](latest_data_id \in {0, current_data_id})
=============================================================================
