---------------------------- MODULE ServerProofs ----------------------------
(***************************************************************************)
(* Theorems about Engine, for every set of data sets, every assignment of  *)
(* priorities and any number of requests; and about Server: the            *)
(* composition implements both its parts, so that what is proved of the    *)
(* parts holds of the server, and the engine is never replaced under a     *)
(* session.                                                                *)
(***************************************************************************)
EXTENDS Server, SessionHandlerProofs

-----------------------------------------------------------------------------
(***************************************************************************)
(* The engine: its inductive invariant.                                    *)
(***************************************************************************)

\* No two requests share a sequence id, and among requests of one priority
\* the sequence ids follow the order in which they were last registered.
SequenceOK ==
    \A i, j \in DOMAIN requests : i # j =>
        /\ requests[i] # requests[j]
        /\ Priority[i] = Priority[j] =>
             (requests[i] > requests[j] <=> <<i, j>> \in arrived)

\* The data set in use is still registered: only failed loads are not.
CurrentRegistered == current_data_id \in DOMAIN requests \cup {0}

EInv ==
    /\ EngineTypeOK
    /\ SequenceOK
    /\ IsFront(requests, latest_data_id)
    /\ unregistered \cap DOMAIN requests = {}
    /\ CurrentRegistered
    /\ BuildFindsRequest

\* The invariant gives the properties that the runs check.
LEMMA EInvImplies == EInv => LatestIsPreferred /\ FailedDataNotUsed
  <1> SUFFICES ASSUME EInv PROVE LatestIsPreferred /\ FailedDataNotUsed
    OBVIOUS
  <1> USE DataIdAssumption, PriorityAssumption
  <1>1. LatestIsPreferred
    <2>1. CASE DOMAIN requests = {}
      BY <2>1 DEF EInv, LatestIsPreferred, IsFront
    <2>2. CASE DOMAIN requests # {}
      <3>1. /\ latest_data_id \in DOMAIN requests
            /\ \A j \in DOMAIN requests \ {latest_data_id} :
                  Precedes(requests, latest_data_id, j)
        BY <2>2 DEF EInv, IsFront
      <3> QED BY <2>2, <3>1 DEF EInv, LatestIsPreferred, Precedes, SequenceOK
    <2> QED BY <2>1, <2>2
  <1>2. FailedDataNotUsed
    <2>1. unregistered \subseteq DataId /\ 0 \notin unregistered
      BY DEF EInv, EngineTypeOK
    <2>2. latest_data_id \in DOMAIN requests \cup {0}
      BY DEF EInv, IsFront
    <2>3. loader_response_future.id \in DOMAIN requests \cup {0}
      BY DEF EInv, BuildFindsRequest, NoFuture
    <2> QED BY <2>1, <2>2, <2>3 DEF EInv, FailedDataNotUsed, CurrentRegistered
  <1> QED BY <1>1, <1>2

-----------------------------------------------------------------------------
(***************************************************************************)
(* The steps.                                                              *)
(***************************************************************************)

\* At the start nothing is registered, wanted or loaded.
LEMMA InitEInv == EngineInit => EInv
  BY MaxSequenceAssumption
  DEF EngineInit, EInv, EngineTypeOK, SequenceOK, IsFront, CurrentRegistered,
      BuildFindsRequest

\* A new request, or one that is registered again with a new sequence id.
LEMMA RegisterEInv ==
  ASSUME EInv, NEW id \in DataId, NEW front \in DataId \cup {0},
         RegisterRequest(id, front), latest_data_id' = front,
         UNCHANGED << unregistered, current_data_id, loader_response_future, pc >>
  PROVE  EInv'
  <1> USE DataIdAssumption, PriorityAssumption, MaxSequenceAssumption
  <1>1. /\ DOMAIN requests' = DOMAIN requests \cup {id}
        /\ requests'[id] = sequence_id + 1
        /\ \A i \in DOMAIN requests : i # id => requests'[i] = requests[i]
        /\ sequence_id' = sequence_id + 1
    BY DEF RegisterRequest
  <1>2. \A i \in DOMAIN requests : requests[i] \in 1..sequence_id
    BY DEF EInv, EngineTypeOK
  <1>3. sequence_id \in Nat /\ sequence_id + 1 <= MaxSequence
    BY DEF EInv, EngineTypeOK, RegisterRequest
  <1>4. EngineTypeOK'
    <2>1. requests' \in [ DOMAIN requests' -> 1..sequence_id' ]
      <3>1. \A i \in DOMAIN requests' : requests'[i] \in 1..sequence_id'
        BY <1>1, <1>2, <1>3
      <3>2. requests' = [ i \in DOMAIN requests' |-> requests'[i] ]
        BY DEF RegisterRequest
      <3> QED BY <3>1, <3>2
    <2>2. arrived' \subseteq DataId \X DataId
      BY DEF EInv, EngineTypeOK, RegisterRequest, PushLRUHead, RemoveFromLRU
    <2> QED BY <1>1, <1>3, <2>1, <2>2 DEF EInv, EngineTypeOK
  <1>5. SequenceOK'
    <2> SUFFICES ASSUME NEW i \in DOMAIN requests', NEW j \in DOMAIN requests', i # j
                 PROVE  /\ requests'[i] # requests'[j]
                        /\ Priority[i] = Priority[j] =>
                             (requests'[i] > requests'[j] <=> <<i, j>> \in arrived')
      BY DEF SequenceOK
    <2>1. <<i, j>> \in arrived' <=>
            \/ i # id /\ j # id /\ <<i, j>> \in arrived
            \/ i = id
      BY <1>1 DEF RegisterRequest, PushLRUHead, RemoveFromLRU
    <2>2. CASE i = id
      BY <1>1, <1>2, <1>3, <2>1, <2>2
    <2>3. CASE j = id
      BY <1>1, <1>2, <1>3, <2>1, <2>3
    <2>4. CASE i # id /\ j # id
      BY <1>1, <2>1, <2>4 DEF EInv, SequenceOK
    <2> QED BY <2>2, <2>3, <2>4
  <1>6. IsFront(requests', latest_data_id')
    BY DEF RegisterRequest
  <1>7. (unregistered \cap DOMAIN requests = {})' /\ CurrentRegistered' /\ BuildFindsRequest'
    BY <1>1 DEF EInv, RegisterRequest, CurrentRegistered, BuildFindsRequest
  <1> QED BY <1>4, <1>5, <1>6, <1>7 DEF EInv

\* The early returns: an id that is the front has the greatest sequence id of
\* its priority, so that registering it again changes no order.
LEMMA RegisterAgainEInv ==
  ASSUME EInv, NEW id \in DataId, NEW front \in DataId \cup {0},
         RegisterAgain(id, front), latest_data_id' = front,
         UNCHANGED << unregistered, current_data_id, loader_response_future, pc >>
  PROVE  EInv'
  <1> USE DataIdAssumption, PriorityAssumption, MaxSequenceAssumption
  <1>1. UNCHANGED << requests, sequence_id >>
    BY DEF RegisterAgain
  <1>2. EngineTypeOK'
    <2>1. arrived' \subseteq DataId \X DataId
      BY DEF EInv, EngineTypeOK, RegisterAgain, PushLRUHead, RemoveFromLRU
    <2> QED BY <1>1, <2>1 DEF EInv, EngineTypeOK
  <1>3. SequenceOK'
    <2>1. CASE id \in unregistered
      BY <1>1, <2>1 DEF EInv, SequenceOK, RegisterAgain
    <2>2. CASE id \notin unregistered
      <3>1. /\ id \in DOMAIN requests
            /\ \A k \in DOMAIN requests \ {id} : Precedes(requests, id, k)
        BY <2>2 DEF RegisterAgain, IsFront
      <3>2. \A i \in DOMAIN requests : requests[i] \in Int /\ Priority[i] \in Int
        BY DEF EInv, EngineTypeOK
      <3> SUFFICES ASSUME NEW i \in DOMAIN requests, NEW j \in DOMAIN requests, i # j,
                          Priority[i] = Priority[j]
                   PROVE  requests[i] > requests[j] <=> <<i, j>> \in arrived'
        BY <1>1 DEF EInv, SequenceOK
      <3>3. <<i, j>> \in arrived' <=>
              \/ i # id /\ j # id /\ <<i, j>> \in arrived
              \/ i = id
        BY <2>2 DEF RegisterAgain, PushLRUHead, RemoveFromLRU
      <3>4. CASE i = id
        BY <3>1, <3>2, <3>3, <3>4 DEF Precedes
      <3>5. CASE j = id
        BY <3>1, <3>2, <3>3, <3>5 DEF Precedes
      <3>6. CASE i # id /\ j # id
        BY <3>3, <3>6 DEF EInv, SequenceOK
      <3> QED BY <3>4, <3>5, <3>6
    <2> QED BY <2>1, <2>2
  <1>4. IsFront(requests', latest_data_id')
    BY <1>1 DEF RegisterAgain
  <1>5. (unregistered \cap DOMAIN requests = {})' /\ CurrentRegistered' /\ BuildFindsRequest'
    BY <1>1 DEF EInv, CurrentRegistered, BuildFindsRequest
  <1> QED BY <1>2, <1>3, <1>4, <1>5 DEF EInv

\* A load is only started for a registered data set that is not in use.
LEMMA BuildEInv == EInv /\ MaybeBuildDataLoader => EInv'
  <1> SUFFICES ASSUME EInv, MaybeBuildDataLoader PROVE EInv'
    OBVIOUS
  <1> USE DataIdAssumption
  <1>1. UNCHANGED << requests, unregistered, sequence_id, latest_data_id,
                     current_data_id, arrived >>
    BY DEF MaybeBuildDataLoader
  <1>2. CASE loader_response_future' = loader_response_future
    <2>1. pc' \in {"idle", "wait", "check"}
      BY DEF MaybeBuildDataLoader
    <2> QED BY <1>1, <1>2, <2>1
        DEF EInv, EngineTypeOK, SequenceOK, CurrentRegistered, BuildFindsRequest, IsFront, Precedes
  <1>3. CASE loader_response_future' # loader_response_future
    <2>1. /\ loader_response_future' = Build(latest_data_id)
          /\ current_data_id # latest_data_id
          /\ latest_data_id # 0
          /\ pc' \in {"idle", "wait", "check"}
      BY <1>3 DEF MaybeBuildDataLoader
    <2>2. latest_data_id \in DOMAIN requests /\ DOMAIN requests \subseteq DataId
      BY <2>1 DEF EInv, IsFront, EngineTypeOK
    <2>3. loader_response_future' \in Future
      BY <2>1, <2>2 DEF Build, Future
    <2>4. BuildFindsRequest'
      BY <1>1, <2>1, <2>2 DEF BuildFindsRequest, Build
    <2> QED BY <1>1, <2>1, <2>3, <2>4
        DEF EInv, EngineTypeOK, SequenceOK, CurrentRegistered, IsFront, Precedes
  <1> QED BY <1>2, <1>3

\* A failed load takes its request away and leaves the front of the others.
LEMMA RollbackEInv == EInv /\ RollbackRequest => EInv'
  <1> SUFFICES ASSUME EInv, RollbackRequest PROVE EInv'
    OBVIOUS
  <1> USE DataIdAssumption, PriorityAssumption
  <1> DEFINE id == loader_response_future.id
  <1>1. PICK rollback_id \in DataId \cup {0} :
          /\ UnregisterRequest(id, rollback_id)
          /\ latest_data_id' = IF latest_data_id = id THEN rollback_id ELSE latest_data_id
    BY DEF RollbackRequest
  <1>2. id \in DOMAIN requests \ {current_data_id} /\ id \in DataId
    <2>1. loader_response_future # NoFuture
      BY DEF RollbackRequest, NoFuture
    <2> QED BY <2>1 DEF EInv, BuildFindsRequest, EngineTypeOK
  <1>3. /\ UNCHANGED << sequence_id, current_data_id >>
        /\ loader_response_future' = NoFuture
        /\ pc' = "idle"
    BY DEF RollbackRequest
  <1>4. /\ DOMAIN requests' = DOMAIN requests \ {id}
        /\ \A i \in DOMAIN requests \ {id} : requests'[i] = requests[i]
        /\ unregistered' = unregistered \cup {id}
        /\ arrived' = RemoveFromLRU(arrived, {id})
        /\ IsFront(requests', rollback_id)
    BY <1>1, <1>2 DEF UnregisterRequest
  <1>5. EngineTypeOK'
    <2>1. requests' \in [ DOMAIN requests' -> 1..sequence_id' ]
      <3>1. \A i \in DOMAIN requests' : requests'[i] \in 1..sequence_id'
        BY <1>3, <1>4 DEF EInv, EngineTypeOK
      <3>2. requests' = [ i \in DOMAIN requests' |-> requests'[i] ]
        BY <1>1, <1>4 DEF UnregisterRequest
      <3> QED BY <3>1, <3>2
    <2> QED BY <1>1, <1>2, <1>3, <1>4, <2>1 DEF EInv, EngineTypeOK, RemoveFromLRU
  <1>6. SequenceOK'
    BY <1>4 DEF EInv, SequenceOK, RemoveFromLRU
  <1>7. IsFront(requests', latest_data_id')
    <2>1. CASE latest_data_id = id
      BY <1>1, <1>4, <2>1
    <2>2. CASE latest_data_id # id
      BY <1>1, <1>2, <1>4, <2>2 DEF EInv, IsFront, Precedes
    <2> QED BY <2>1, <2>2
  <1>8. (unregistered \cap DOMAIN requests = {})' /\ CurrentRegistered' /\ BuildFindsRequest'
    BY <1>2, <1>3, <1>4 DEF EInv, CurrentRegistered, BuildFindsRequest
  <1> QED BY <1>5, <1>6, <1>7, <1>8 DEF EInv

\* What the other steps leave alone.
LEMMA OtherEInv ==
  ASSUME EInv,
         \/ LoaderNotReady \/ ReloadModules \/ BuildThread \/ UNCHANGED engine_vars
  PROVE  EInv'
  <1> USE DataIdAssumption
  <1>1. UNCHANGED << requests, unregistered, sequence_id, latest_data_id, arrived >>
    BY DEF LoaderNotReady, ReloadModules, BuildThread, BuildLookup, BuildLoad, engine_vars
  <1>2. /\ pc' \in {"idle", "wait", "check"}
        /\ current_data_id' \in DataId \cup {0}
        /\ loader_response_future' \in Future \cup {NoFuture}
        /\ CurrentRegistered'
        /\ BuildFindsRequest'
    <2>1. CASE ReloadModules
      <3>1. loader_response_future # NoFuture
        BY <2>1 DEF ReloadModules, NoFuture
      <3> QED BY <1>1, <2>1, <3>1
          DEF ReloadModules, EInv, EngineTypeOK, CurrentRegistered, BuildFindsRequest
    <2>2. CASE BuildThread
      <3>1. loader_response_future \in Future
        <4>1. loader_response_future.stage \in {"lookup", "load"}
          BY <2>2 DEF BuildThread, BuildLookup, BuildLoad
        <4>2. loader_response_future # NoFuture
          BY <4>1 DEF NoFuture
        <4> QED BY <4>2 DEF EInv, EngineTypeOK
      <3>2. /\ loader_response_future' \in Future
            /\ loader_response_future'.id = loader_response_future.id
        BY <2>2, <3>1 DEF BuildThread, BuildLookup, BuildLoad, Future
      <3>3. loader_response_future # NoFuture
        BY <3>1 DEF Future, NoFuture
      <3> QED BY <1>1, <2>2, <3>2, <3>3
          DEF BuildThread, BuildLookup, BuildLoad, EInv, EngineTypeOK,
              CurrentRegistered, BuildFindsRequest
    <2>3. CASE LoaderNotReady \/ UNCHANGED engine_vars
      BY <2>3 DEF LoaderNotReady, engine_vars, EInv, EngineTypeOK,
                  CurrentRegistered, BuildFindsRequest
    <2> QED BY <2>1, <2>2, <2>3
  <1> QED BY <1>1, <1>2 DEF EInv, EngineTypeOK, SequenceOK, IsFront, Precedes

\* Every step of either thread preserves the invariant.
LEMMA NextEInv == EInv /\ [EngineNext]_engine_vars => EInv'
  <1> SUFFICES ASSUME EInv, [EngineNext]_engine_vars PROVE EInv'
    OBVIOUS
  <1>1. ASSUME NEW id \in DataId, SendEngineReloadRequest(id) PROVE EInv'
    <2>1. PICK front \in DataId \cup {0} :
            /\ RegisterRequest(id, front) \/ RegisterAgain(id, front)
            /\ latest_data_id' = front
      BY <1>1 DEF SendEngineReloadRequest
    <2>2. UNCHANGED << unregistered, current_data_id, loader_response_future, pc >>
      BY <1>1 DEF SendEngineReloadRequest
    <2> QED BY <2>1, <2>2, RegisterEInv, RegisterAgainEInv
  <1>2. CASE MaybeBuildDataLoader
    BY <1>2, BuildEInv
  <1>3. CASE RollbackRequest
    BY <1>3, RollbackEInv
  <1>4. CASE LoaderNotReady \/ ReloadModules \/ BuildThread \/ UNCHANGED engine_vars
    BY <1>4, OtherEInv
  <1> QED BY <1>1, <1>2, <1>3, <1>4 DEF EngineNext, FinishMaybeReloadEngine

-----------------------------------------------------------------------------
(***************************************************************************)
(* The results.                                                            *)
(***************************************************************************)

(***************************************************************************)
(* The inductive invariant holds whatever is requested, loaded and rolled  *)
(* back.                                                                   *)
(***************************************************************************)
THEOREM EInvHolds == EngineSpec => []EInv
  BY InitEInv, NextEInv, PTL DEF EngineSpec

(***************************************************************************)
(* latest_data_id_ is always the request of the best priority and, among   *)
(* equals, the one registered last.                                        *)
(***************************************************************************)
THEOREM LatestCorrect == EngineSpec => []LatestIsPreferred
  <1>1. EInv => LatestIsPreferred
    BY EInvImplies
  <1> QED BY <1>1, EInvHolds, PTL

(***************************************************************************)
(* A data set that failed to load is not requested, wanted, loaded or used *)
(* again.                                                                  *)
(***************************************************************************)
THEOREM FailedNotUsed == EngineSpec => []FailedDataNotUsed
  <1>1. EInv => FailedDataNotUsed
    BY EInvImplies
  <1> QED BY <1>1, EInvHolds, PTL

(***************************************************************************)
(* The loading thread always finds the request it was started for.         *)
(***************************************************************************)
THEOREM LookupSucceeds == EngineSpec => []BuildFindsRequest
  <1>1. EInv => BuildFindsRequest
    BY DEF EInv
  <1> QED BY <1>1, EInvHolds, PTL

-----------------------------------------------------------------------------
(***************************************************************************)
(* While the command thread is inside MaybeReloadEngine it works on a      *)
(* CreateSession that was found admissible, and there is no session.       *)
(***************************************************************************)
PendingOK ==
    /\ pending \in App \cup {NoApp}
    /\ pending = NoApp <=> pc = "idle"
    /\ pending # NoApp => Live = {} /\ is_available /\ ~CreatedTooRecently

ServerInv == PendingOK /\ SessionsUseCurrentData

-----------------------------------------------------------------------------
(***************************************************************************)
(* Every step of the server is one of the session handler, or leaves the   *)
(* sessions alone.                                                         *)
(***************************************************************************)

\* A session created beside others keeps the engine.
LEMMA BesideIsCreate ==
  ASSUME NEW app \in App, CreateSessionBesideOthers(app)
  PROVE  CreateSession(app)
  <1>1. PICK evicted \in SessionsToEvict : InsertSession(app, evicted, {})
    BY DEF CreateSessionBesideOthers
  <1>2. {} \in MaybeReloadEngine(Live \ evicted)
    BY DEF MaybeReloadEngine
  <1> QED BY <1>1, <1>2 DEF CreateSession, CreateSessionBesideOthers

\* On an empty map nothing is evicted, and the engine may be replaced.
LEMMA FinishIsCreate ==
  ASSUME PendingOK, FinishCreateSession
  PROVE  pending \in App /\ CreateSession(pending)
  <1>1. pending \in App /\ Live = {} /\ is_available /\ ~CreatedTooRecently
    BY DEF PendingOK, FinishCreateSession
  <1>2. {} \in SessionsToEvict
    <2>1. Cardinality(Live) = 0
      BY <1>1, FS_EmptySet
    <2>2. ~(Cardinality(Live) >= max_session_size)
      BY <2>1, MaxSessionSize
    <2> QED BY <2>2 DEF SessionsToEvict
  <1>3. {} \in MaybeReloadEngine(Live \ {}) /\ {"modules", "table"} \in MaybeReloadEngine(Live \ {})
    BY <1>1 DEF MaybeReloadEngine
  <1>4. \/ InsertSession(pending, {}, {})
        \/ InsertSession(pending, {}, {"modules", "table"})
    BY DEF FinishCreateSession
  <1>5. CreateSession(pending)
    BY <1>1, <1>2, <1>3, <1>4 DEF CreateSession
  <1> QED BY <1>1, <1>5

\* The case analysis over the steps of the server.
LEMMA StepOfSessions ==
  ASSUME PendingOK, [ServerNext]_server_vars
  PROVE  [Next]_vars
  <1>1. ASSUME NEW app \in App, CreateSessionBesideOthers(app) PROVE Next
    BY <1>1, BesideIsCreate DEF Next
  <1>2. ASSUME NEW app \in App, CreateFirstSession(app) PROVE UNCHANGED vars
    BY <1>2 DEF CreateFirstSession
  <1>3. CASE FinishCreateSession
    BY <1>3, FinishIsCreate DEF Next
  <1>4. CASE SessionCommand
    BY <1>4 DEF SessionCommand, Next
  <1>5. ASSUME NEW id \in DataId, EngineCommand(id) PROVE UNCHANGED vars
    BY <1>5 DEF EngineCommand
  <1>6. CASE Background
    BY <1>6 DEF Background, Next
  <1>7. CASE UNCHANGED server_vars
    BY <1>7 DEF server_vars
  <1> QED BY <1>1, <1>2, <1>3, <1>4, <1>5, <1>6, <1>7 DEF ServerNext

-----------------------------------------------------------------------------
(***************************************************************************)
(* Every step of the server is one of the engine, or leaves it alone.      *)
(***************************************************************************)
LEMMA StepOfEngine ==
  ASSUME [ServerNext]_server_vars
  PROVE  [EngineNext]_engine_vars
  <1>1. ASSUME NEW app \in App, CreateSessionBesideOthers(app) PROVE UNCHANGED engine_vars
    BY <1>1 DEF CreateSessionBesideOthers
  <1>2. ASSUME NEW app \in App, CreateFirstSession(app) PROVE EngineNext
    BY <1>2 DEF CreateFirstSession, EngineNext
  <1>3. CASE FinishCreateSession
    BY <1>3 DEF FinishCreateSession, FinishMaybeReloadEngine, EngineNext
  <1>4. CASE SessionCommand
    BY <1>4 DEF SessionCommand
  <1>5. ASSUME NEW id \in DataId, EngineCommand(id) PROVE EngineNext
    BY <1>5 DEF EngineCommand, EngineNext
  <1>6. CASE Background
    BY <1>6 DEF Background, EngineNext
  <1>7. CASE UNCHANGED server_vars
    BY <1>7 DEF server_vars
  <1> QED BY <1>1, <1>2, <1>3, <1>4, <1>5, <1>6, <1>7 DEF ServerNext

-----------------------------------------------------------------------------
(***************************************************************************)
(* ServerInv is inductive.                                                 *)
(***************************************************************************)

\* A session lives on the data set that was current when it was created, as
\* long as the current one only changes while there is no session.
LEMMA RecordedData ==
  ASSUME SessionsUseCurrentData, RecordData,
         current_data_id' = current_data_id \/ Live = {}
  PROVE  SessionsUseCurrentData'
  BY DEF SessionsUseCurrentData, RecordData, Live

\* Only FinishCreateSession can change the current data set, and it finds no session.
LEMMA NextServerInv == ServerInv /\ [ServerNext]_server_vars => ServerInv'
  <1> SUFFICES ASSUME ServerInv, [ServerNext]_server_vars PROVE ServerInv'
    OBVIOUS
  <1> USE NoAppAssumption
  <1>1. PendingOK /\ SessionsUseCurrentData
    BY DEF ServerInv
  <1>2. ASSUME NEW app \in App, CreateSessionBesideOthers(app) PROVE ServerInv'
    <2>1. UNCHANGED << pending, pc, current_data_id >> /\ pending = NoApp /\ RecordData
      BY <1>2 DEF CreateSessionBesideOthers, engine_vars
    <2> QED BY <1>1, <2>1, RecordedData DEF ServerInv, PendingOK
  <1>3. ASSUME NEW app \in App, CreateFirstSession(app) PROVE ServerInv'
    <2>1. /\ pc' # "idle" /\ pending' = app
          /\ Live = {} /\ is_available /\ ~CreatedTooRecently
          /\ UNCHANGED << current_data_id, data, session, is_available,
                          last_create_session_time, now >>
      BY <1>3 DEF CreateFirstSession, MaybeBuildDataLoader, vars
    <2> QED BY <1>1, <2>1
        DEF ServerInv, PendingOK, SessionsUseCurrentData, Live, CreatedTooRecently
  <1>4. CASE FinishCreateSession
    <2>1. pending' = NoApp /\ pc' = "idle" /\ RecordData /\ Live = {}
      BY <1>1, <1>4 DEF FinishCreateSession, LoaderNotReady, RollbackRequest,
                        ReloadModules, PendingOK
    <2> QED BY <1>1, <2>1, RecordedData DEF ServerInv, PendingOK
  <1>5. CASE SessionCommand
    <2>1. UNCHANGED << pending, pc, current_data_id >> /\ pending = NoApp /\ RecordData
      BY <1>5 DEF SessionCommand, engine_vars
    <2> QED BY <1>1, <2>1, RecordedData DEF ServerInv, PendingOK
  <1>6. ASSUME NEW id \in DataId, EngineCommand(id) PROVE ServerInv'
    <2>1. UNCHANGED << pending, pc, current_data_id, data, session, is_available,
                       last_create_session_time, now >>
      BY <1>6 DEF EngineCommand, SendEngineReloadRequest, vars
    <2> QED BY <1>1, <2>1
        DEF ServerInv, PendingOK, SessionsUseCurrentData, Live, CreatedTooRecently
  <1>7. CASE Background \/ UNCHANGED server_vars
    <2>1. UNCHANGED << pending, pc, current_data_id, data, session, is_available,
                       last_create_session_time, now >>
      BY <1>7 DEF Background, BuildThread, BuildLookup, BuildLoad, AppExit, vars,
                  engine_vars, server_vars
    <2> QED BY <1>1, <2>1
        DEF ServerInv, PendingOK, SessionsUseCurrentData, Live, CreatedTooRecently
  <1> QED BY <1>2, <1>3, <1>4, <1>5, <1>6, <1>7 DEF ServerNext

\* The server starts idle and without sessions.
LEMMA InitServerInv == ServerInit => ServerInv
  BY DEF ServerInit, Init, EngineInit, ServerInv, PendingOK, SessionsUseCurrentData, Live

\* ServerInv holds throughout every behaviour of the server.
THEOREM ServerInvHolds == ServerSpec => []ServerInv
  BY InitServerInv, NextServerInv, PTL DEF ServerSpec

-----------------------------------------------------------------------------
(***************************************************************************)
(* The results.                                                            *)
(***************************************************************************)

(***************************************************************************)
(* Every live session was created on the engine's current data set.        *)
(***************************************************************************)
THEOREM EngineKeptUnderSessions == ServerSpec => []SessionsUseCurrentData
  <1>1. ServerInv => SessionsUseCurrentData
    BY DEF ServerInv
  <1> QED BY <1>1, ServerInvHolds, PTL

(***************************************************************************)
(* Seen from the sessions, the server is a session handler: the two halves *)
(* of CreateSession, with the loading thread in between, are one step.     *)
(***************************************************************************)
THEOREM ServerRefinesSessionHandler == ServerSpec => ImplementsSessionHandler
  <1>1. ServerInit => Init
    BY DEF ServerInit
  <1>2. ServerInv /\ [ServerNext]_server_vars => [Next]_vars
    BY StepOfSessions DEF ServerInv
  <1> QED BY <1>1, <1>2, ServerInvHolds, PTL DEF ServerSpec, ImplementsSessionHandler

(***************************************************************************)
(* So the pointers of all sessions are live in the server, too.            *)
(***************************************************************************)
THEOREM ServerPointersLive == ServerSpec => []NoDanglingPointer
  <1>1. IInv => NoDanglingPointer
    BY IInvImplies
  <1> QED BY <1>1, InitIInv, NextIInv, ServerRefinesSessionHandler, PTL
      DEF ImplementsSessionHandler

(***************************************************************************)
(* And the server's engine wants the preferred data set.                   *)
(***************************************************************************)
THEOREM ServerLatestCorrect == ServerSpec => []LatestIsPreferred
  <1>1. ServerInit => EInv
    BY InitEInv DEF ServerInit
  <1>2. EInv /\ [ServerNext]_server_vars => EInv'
    BY StepOfEngine, NextEInv
  <1>3. EInv => LatestIsPreferred
    BY EInvImplies
  <1> QED BY <1>1, <1>2, <1>3, PTL DEF ServerSpec
=============================================================================
