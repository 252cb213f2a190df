------------------------------- MODULE Engine -------------------------------
(***************************************************************************)
(* How the server replaces the engine's data set while it runs: the        *)
(* requests that DataLoader keeps (engine/data_loader.cc), the background  *)
(* thread that loads one of them (BackgroundFuture of base/thread.h), and  *)
(* Engine, which starts the load, picks up its result and rolls back to    *)
(* another request when it failed (engine/engine.cc).                      *)
(*                                                                         *)
(* All of Engine's methods run on the server's command thread.  pc says    *)
(* how far that thread is inside MaybeReloadEngine; between its two steps, *)
(* and while it waits for the first data set, only the loading thread      *)
(* runs.                                                                   *)
(***************************************************************************)
EXTENDS Integers, LruOrder

CONSTANTS
    DataId,       \* fingerprints of EngineReloadRequests; 0 is reserved
    Priority,     \* the priority in the request: smaller is better
    MaxSequence   \* bound: how many requests are given a sequence id

ASSUME DataIdAssumption == DataId \subseteq Nat \ {0}
ASSUME PriorityAssumption == Priority \in [ DataId -> Int ]
ASSUME MaxSequenceAssumption == MaxSequence \in Nat

VARIABLES
    requests,                \* DataLoader::requests_: id -> its sequence id
    unregistered,            \* DataLoader::unregistered_
    sequence_id,             \* DataLoader::sequence_id_
    latest_data_id,          \* Engine::latest_data_id_
    current_data_id,         \* Engine::current_data_id_
    loader_response_future,  \* Engine::loader_response_future_
    pc,                      \* the command thread in MaybeReloadEngine
    arrived                  \* history: registered ids, last registered first

engine_vars == << requests, unregistered, sequence_id, latest_data_id,
                  current_data_id, loader_response_future, pc, arrived >>

\* The future while there is none.
NoFuture == [ id |-> 0, stage |-> "none", ready |-> FALSE ]

\* A load in progress or done: `ready' is whether RELOAD_READY was the result.
Future == [ id : DataId, stage : {"lookup", "load", "done"}, ready : BOOLEAN ]

-----------------------------------------------------------------------------
(***************************************************************************)
(* DataLoader.                                                             *)
(***************************************************************************)

\* Mutant of Precedes: among equals the oldest request wins.
Precedes_OldestFirst(r, i, j) ==
    \/ Priority[i] < Priority[j]
    \/ Priority[i] = Priority[j] /\ r[i] < r[j]

\* The order std::sort gives the requests r.
Precedes(r, i, j) ==
    \/ Priority[i] < Priority[j]
    \/ Priority[i] = Priority[j] /\ r[i] > r[j]

\* f is requests_.front().id after the sort, or 0 if there is no request.
IsFront(r, f) ==
    \/ DOMAIN r = {} /\ f = 0
    \/ f \in DOMAIN r /\ \A j \in DOMAIN r \ {f} : Precedes(r, f, j)

\* Mutant of RegisterRequest: a failed data set may be registered again.
RegisterRequest_Failed(id, front) ==
    /\ arrived' = PushLRUHead(arrived, DOMAIN requests \cup {id}, id)
    /\ sequence_id < MaxSequence
    /\ ~IsFront(requests, id)
    /\ sequence_id' = sequence_id + 1
    /\ requests' = [ i \in DOMAIN requests \cup {id} |->
                       IF i = id THEN sequence_id' ELSE requests[i] ]
    /\ IsFront(requests', front)

\* RegisterRequest: `front' is the id it returns.
RegisterRequest(id, front) ==
    /\ arrived' = PushLRUHead(arrived, DOMAIN requests \cup {id}, id)
    /\ sequence_id < MaxSequence
    /\ id \notin unregistered
    /\ ~IsFront(requests, id)
    /\ sequence_id' = sequence_id + 1
    /\ requests' = [ i \in DOMAIN requests \cup {id} |->
                       IF i = id THEN sequence_id' ELSE requests[i] ]
    /\ IsFront(requests', front)

\* The early returns: the id is the front already, or was unregistered.
RegisterAgain(id, front) ==
    /\ id \in unregistered \/ IsFront(requests, id)
    /\ IsFront(requests, front)
    /\ arrived' = IF id \in unregistered THEN arrived
                  ELSE PushLRUHead(arrived, DOMAIN requests, id)
    /\ UNCHANGED << requests, sequence_id >>

\* UnregisterRequest: `front' is the id it returns.
UnregisterRequest(id, front) ==
    /\ requests' = [ i \in DOMAIN requests \ {id} |-> requests[i] ]
    /\ unregistered' = IF id \in DOMAIN requests THEN unregistered \cup {id}
                                                 ELSE unregistered
    /\ arrived' = RemoveFromLRU(arrived, {id})
    /\ IsFront(requests', front)

\* Build: spawn the thread that will load the data set.
Build(id) == [ id |-> id, stage |-> "lookup", ready |-> FALSE ]

-----------------------------------------------------------------------------
(***************************************************************************)
(* Engine, on the command thread.                                          *)
(***************************************************************************)

SendEngineReloadRequest(id) ==
    /\ pc = "idle"
    /\ \E front \in DataId \cup {0} :
         /\ RegisterRequest(id, front) \/ RegisterAgain(id, front)
         /\ latest_data_id' = front
    /\ UNCHANGED << unregistered, current_data_id, loader_response_future, pc >>

\* Mutant of MaybeBuildDataLoader: loads the current data set once more.
MaybeBuildDataLoader_Again ==
    /\ pc = "idle"
    /\ IF loader_response_future = NoFuture /\ latest_data_id # 0
       THEN /\ loader_response_future' = Build(latest_data_id)
            /\ pc' = IF current_data_id = 0 THEN "wait" ELSE "check"
       ELSE /\ loader_response_future' = loader_response_future
            /\ pc' = "check"
    /\ UNCHANGED << requests, unregistered, sequence_id, latest_data_id,
                    current_data_id, arrived >>

\* Start a load if a data set other than the current one is wanted; wait for
\* it if no data set was ever loaded this way.
MaybeBuildDataLoader ==
    /\ pc = "idle"
    /\ IF /\ loader_response_future = NoFuture
          /\ current_data_id # latest_data_id
          /\ latest_data_id # 0
       THEN /\ loader_response_future' = Build(latest_data_id)
            /\ pc' = IF current_data_id = 0 THEN "wait" ELSE "check"
       ELSE /\ loader_response_future' = loader_response_future
            /\ pc' = "check"
    /\ UNCHANGED << requests, unregistered, sequence_id, latest_data_id,
                    current_data_id, arrived >>

\* Ready() is false: MaybeReloadEngine returns false.
LoaderNotReady ==
    /\ pc = "check"
    /\ loader_response_future.stage # "done"
    /\ pc' = "idle"
    /\ UNCHANGED << requests, unregistered, sequence_id, latest_data_id,
                    current_data_id, loader_response_future, arrived >>

\* Mutant of RollbackRequest: the failed data set stays the latest.
RollbackRequest_KeepsLatest ==
    /\ pc \in {"wait", "check"}
    /\ loader_response_future.stage = "done"
    /\ ~loader_response_future.ready
    /\ \E rollback_id \in DataId \cup {0} :
         UnregisterRequest(loader_response_future.id, rollback_id)
    /\ loader_response_future' = NoFuture
    /\ pc' = "idle"
    /\ UNCHANGED << sequence_id, latest_data_id, current_data_id >>

\* The load failed: forget the request, and go back to the best other one
\* unless a newer request has replaced the failed one in the meantime.
RollbackRequest ==
    /\ pc \in {"wait", "check"}
    /\ loader_response_future.stage = "done"
    /\ ~loader_response_future.ready
    /\ \E rollback_id \in DataId \cup {0} :
         /\ UnregisterRequest(loader_response_future.id, rollback_id)
         /\ latest_data_id' = IF latest_data_id = loader_response_future.id
                              THEN rollback_id ELSE latest_data_id
    /\ loader_response_future' = NoFuture
    /\ pc' = "idle"
    /\ UNCHANGED << sequence_id, current_data_id >>

\* The load succeeded: the new modules replace the old ones.
ReloadModules ==
    /\ pc \in {"wait", "check"}
    /\ loader_response_future.stage = "done"
    /\ loader_response_future.ready
    /\ current_data_id' = loader_response_future.id
    /\ loader_response_future' = NoFuture
    /\ pc' = "idle"
    /\ UNCHANGED << requests, unregistered, sequence_id, latest_data_id, arrived >>

-----------------------------------------------------------------------------
(***************************************************************************)
(* The loading thread: look the request up under the mutex, then load the  *)
(* file without it, with either outcome.                                   *)
(***************************************************************************)

BuildLookup ==
    /\ loader_response_future.stage = "lookup"
    /\ loader_response_future' =
         [ loader_response_future EXCEPT !.stage =
             IF loader_response_future.id \in DOMAIN requests
             THEN "load" ELSE "done" ]
    /\ UNCHANGED << requests, unregistered, sequence_id, latest_data_id,
                    current_data_id, pc, arrived >>

BuildLoad ==
    /\ loader_response_future.stage = "load"
    /\ \E ok \in BOOLEAN :
         loader_response_future' =
           [ loader_response_future EXCEPT !.stage = "done", !.ready = ok ]
    /\ UNCHANGED << requests, unregistered, sequence_id, latest_data_id,
                    current_data_id, pc, arrived >>

BuildThread == BuildLookup \/ BuildLoad

-----------------------------------------------------------------------------
EngineInit ==
    /\ requests = [ i \in {} |-> 0 ]
    /\ unregistered = {}
    /\ sequence_id = 0
    /\ latest_data_id = 0
    /\ current_data_id = 0
    /\ loader_response_future = NoFuture
    /\ pc = "idle"
    /\ arrived = {}

\* The rest of MaybeReloadEngine, once MaybeBuildDataLoader has looked.
FinishMaybeReloadEngine == LoaderNotReady \/ RollbackRequest \/ ReloadModules

EngineNext ==
    \/ \E id \in DataId : SendEngineReloadRequest(id)
    \/ MaybeBuildDataLoader
    \/ FinishMaybeReloadEngine
    \/ BuildThread

(***************************************************************************)
(* Both threads run, and MaybeReloadEngine is called again and again: each *)
(* CreateSession that finds no session calls it.                           *)
(***************************************************************************)
EngineFairness ==
    /\ WF_engine_vars(BuildThread)
    /\ WF_engine_vars(FinishMaybeReloadEngine)
    /\ WF_engine_vars(MaybeBuildDataLoader)

EngineSpec == EngineInit /\ [][EngineNext]_engine_vars /\ EngineFairness

-----------------------------------------------------------------------------
(***************************************************************************)
(* Properties.                                                             *)
(***************************************************************************)

\* Types of the engine's state.
EngineTypeOK ==
    /\ DOMAIN requests \subseteq DataId
    /\ requests \in [ DOMAIN requests -> 1..sequence_id ]
    /\ unregistered \subseteq DataId
    /\ sequence_id \in 0..MaxSequence
    /\ latest_data_id \in DataId \cup {0}
    /\ current_data_id \in DataId \cup {0}
    /\ loader_response_future \in Future \cup {NoFuture}
    /\ pc \in {"idle", "wait", "check"}
    /\ arrived \subseteq DataId \X DataId

(***************************************************************************)
(* latest_data_id_, which Engine copies from what DataLoader returns and   *)
(* patches by compare-and-swap, always is the request that data_loader.h   *)
(* promises: the best priority and, among equals, the one registered last, *)
(* whatever was re-registered, rolled back or refused before.              *)
(***************************************************************************)
LatestIsPreferred ==
    IF DOMAIN requests = {}
    THEN latest_data_id = 0
    ELSE /\ latest_data_id \in DOMAIN requests
         /\ \A j \in DOMAIN requests \ {latest_data_id} :
              \/ Priority[latest_data_id] < Priority[j]
              \/ /\ Priority[latest_data_id] = Priority[j]
                 /\ <<latest_data_id, j>> \in arrived

(***************************************************************************)
(* A data set that failed to load is not requested, wanted, being loaded   *)
(* or in use again, although clients keep sending the same request.        *)
(***************************************************************************)
FailedDataNotUsed ==
    unregistered \cap (DOMAIN requests \cup
        {latest_data_id, current_data_id, loader_response_future.id}) = {}

(***************************************************************************)
(* The loading thread finds the request it was started for, although the   *)
(* command thread may change requests_ before it takes the mutex.          *)
(***************************************************************************)
BuildFindsRequest ==
    loader_response_future # NoFuture =>
        loader_response_future.id \in DOMAIN requests \ {current_data_id}
=============================================================================
