------------------------ MODULE SessionHandlerProofs ------------------------
(***************************************************************************)
(* Theorems about SessionHandler, for every number of sessions and         *)
(* applications, every setting of the flags and every clock.               *)
(***************************************************************************)
EXTENDS SessionHandler, FiniteSetTheorems, TLAPS

-----------------------------------------------------------------------------
(***************************************************************************)
(* What the operators on one session return.                               *)
(***************************************************************************)

\* A context whose pointers, those of its chunks aside, are to live objects.
GoodContext(c) == c \in ImeContext /\ c.dangling \subseteq {"chunk_table"}

\* A session that satisfies its share of TypeOK and NoDanglingPointer.
GoodSession(s) ==
    /\ s \in Session
    /\ Len(s.undo_contexts) <= UndoMaxSize
    /\ GoodContext(s.context)
    /\ \A j \in 1..Len(s.undo_contexts) : GoodContext(s.undo_contexts[j])

\* Freeing objects under a context adds them to its dangling pointers.
LEMMA FreeProperties ==
  ASSUME NEW c \in ImeContext, NEW freed \in SUBSET Object
  PROVE  /\ Free(c, freed) \in ImeContext
         /\ Free(c, freed).dangling = c.dangling \cup freed
  BY DEF Free, ImeContext

\* FreeFor does the same to every context of a session.
LEMMA FreeForProperties ==
  ASSUME NEW s \in Session, NEW freed \in SUBSET Object
  PROVE  /\ FreeFor(s, freed) \in Session
         /\ FreeFor(s, freed).context = Free(s.context, freed)
  <1>1. s.context \in ImeContext /\ s.undo_contexts \in Seq(ImeContext)
    BY DEF Session
  <1>2. Free(s.context, freed) \in ImeContext
    BY <1>1, FreeProperties
  <1> DEFINE u == [ i \in DOMAIN s.undo_contexts |-> Free(s.undo_contexts[i], freed) ]
  <1>3. u \in Seq(ImeContext)
    <2>1. \A i \in 1..Len(s.undo_contexts) : Free(s.undo_contexts[i], freed) \in ImeContext
      BY <1>1, FreeProperties
    <2>2. DOMAIN s.undo_contexts = 1..Len(s.undo_contexts) /\ Len(s.undo_contexts) \in Nat
      BY <1>1
    <2> QED BY <2>1, <2>2
  <1>4. FreeFor(s, freed) = [ s EXCEPT !.context = Free(s.context, freed),
                                       !.undo_contexts = u ]
    BY DEF FreeFor
  <1> HIDE DEF u
  <1> QED BY <1>2, <1>3, <1>4 DEF Session

\* ClearUndoContext empties the stack and leaves the context alone.
LEMMA ClearProperties ==
  ASSUME NEW s \in Session
  PROVE  /\ ClearUndoContext(s) \in Session
         /\ ClearUndoContext(s).undo_contexts = << >>
         /\ ClearUndoContext(s).context = s.context
  <1> DEFINE empty == << >>
  <1>1. empty \in Seq(ImeContext)
    OBVIOUS
  <1>2. ClearUndoContext(s) = [ s EXCEPT !.undo_contexts = empty ]
    BY DEF ClearUndoContext
  <1> HIDE DEF empty
  <1>3. /\ ClearUndoContext(s) \in Session
        /\ ClearUndoContext(s).undo_contexts = empty
        /\ ClearUndoContext(s).context = s.context
    BY <1>1, <1>2 DEF Session
  <1> QED BY <1>3 DEF empty

\* Point repairs one pointer of the current context.
LEMMA PointProperties ==
  ASSUME NEW s \in Session, NEW object \in Object
  PROVE  /\ Point(s, object) \in Session
         /\ Point(s, object).context.dangling = s.context.dangling \ {object}
         /\ Point(s, object).undo_contexts = s.undo_contexts
  <1>1. s.context \in ImeContext
    BY DEF Session
  <1> DEFINE c == [ s.context EXCEPT !.dangling = @ \ {object} ]
  <1>2. c \in ImeContext /\ c.dangling = s.context.dangling \ {object}
    BY <1>1 DEF ImeContext
  <1>3. Point(s, object) = [ s EXCEPT !.context = c ]
    BY <1>1 DEF Point, Session, ImeContext
  <1> HIDE DEF c
  <1> QED BY <1>2, <1>3 DEF Session

\* A good session stays good when its undo contexts are cleared.
LEMMA ClearGood ==
  ASSUME NEW s, GoodSession(s)
  PROVE  GoodSession(ClearUndoContext(s))
  <1>1. s \in Session
    BY DEF GoodSession
  <1>2. Len(<< >>) = 0
    OBVIOUS
  <1> QED BY <1>1, <1>2, ClearProperties, UndoMaxSizeAssumption DEF GoodSession

\* A good session stays good when its composition ends.
LEMMA EndCompositionGood ==
  ASSUME NEW s, GoodSession(s)
  PROVE  GoodSession(EndComposition(s))
  <1>1. s \in Session /\ s.context.dangling \subseteq {"chunk_table"}
    BY DEF GoodSession, GoodContext
  <1>2. "chunk_table" \in Object
    BY DEF Object
  <1> DEFINE t == Point(s, "chunk_table")
  <1>3. /\ t \in Session
        /\ t.context.dangling = s.context.dangling \ {"chunk_table"}
        /\ t.undo_contexts = s.undo_contexts
    BY <1>1, <1>2, PointProperties
  <1> HIDE DEF t
  <1>4. t.context \in ImeContext
    BY <1>3 DEF Session
  <1>5. GoodSession(t)
    BY <1>1, <1>3, <1>4 DEF GoodSession, GoodContext
  <1> QED BY <1>5 DEF EndComposition, t

\* PushUndoContext never lets the stack outgrow kMultipleUndoMaxSize.
LEMMA PushGood ==
  ASSUME NEW s, GoodSession(s)
  PROVE  GoodSession(PushUndoContext(s))
  <1> DEFINE u == s.undo_contexts
             pushed == Append(u, s.context)
             v == IF Len(pushed) > UndoMaxSize THEN Tail(pushed) ELSE pushed
  <1>1. s \in Session /\ u \in Seq(ImeContext) /\ s.context \in ImeContext
    BY DEF GoodSession, Session
  <1>2. /\ pushed \in Seq(ImeContext)
        /\ Len(pushed) = Len(u) + 1
        /\ \A j \in 1..Len(pushed) : GoodContext(pushed[j])
    BY <1>1 DEF GoodSession
  <1>3. v \in Seq(ImeContext) /\ Len(v) <= UndoMaxSize
    BY <1>1, <1>2, UndoMaxSizeAssumption DEF GoodSession
  <1>4. \A j \in 1..Len(v) : GoodContext(v[j])
    <2> HIDE DEF pushed
    <2>1. CASE Len(pushed) > UndoMaxSize
      BY <2>1, <1>2, UndoMaxSizeAssumption
    <2>2. CASE ~(Len(pushed) > UndoMaxSize)
      BY <2>2, <1>2
    <2> QED BY <2>1, <2>2
  <1>5. PushUndoContext(s) = [ s EXCEPT !.undo_contexts = v ]
    BY DEF PushUndoContext
  <1> HIDE DEF v
  <1>6. /\ PushUndoContext(s) \in Session
        /\ PushUndoContext(s).undo_contexts = v
        /\ PushUndoContext(s).context = s.context
    BY <1>1, <1>3, <1>5 DEF Session
  <1> QED BY <1>3, <1>4, <1>6 DEF GoodSession

\* PopUndoContext makes current a context that was good when it was saved.
LEMMA PopGood ==
  ASSUME NEW s, GoodSession(s)
  PROVE  GoodSession(PopUndoContext(s))
  <1> DEFINE u == s.undo_contexts
             n == Len(u)
             c == u[n]
             v == SubSeq(u, 1, n - 1)
  <1>1. s \in Session /\ u \in Seq(ImeContext) /\ n \in Nat
    BY DEF GoodSession, Session
  <1>2. CASE n = 0
    BY <1>2 DEF PopUndoContext
  <1>3. CASE n # 0
    <2>1. c \in ImeContext /\ GoodContext(c)
      BY <1>1, <1>3 DEF GoodSession
    <2>2. /\ v \in Seq(ImeContext)
          /\ Len(v) = n - 1
          /\ \A j \in 1..Len(v) : v[j] = u[j]
      BY <1>1, <1>3
    <2>3. PopUndoContext(s) = [ s EXCEPT !.context = c, !.undo_contexts = v ]
      BY <1>3 DEF PopUndoContext
    <2> HIDE DEF c, v
    <2>4. /\ PopUndoContext(s) \in Session
          /\ PopUndoContext(s).undo_contexts = v
          /\ PopUndoContext(s).context = c
      BY <1>1, <2>1, <2>2, <2>3 DEF Session
    <2>5. \A j \in 1..Len(v) : GoodContext(v[j])
      BY <1>1, <2>2 DEF GoodSession
    <2>6. Len(v) <= UndoMaxSize
      BY <1>1, <2>2, UndoMaxSizeAssumption DEF GoodSession
    <2> QED BY <2>1, <2>4, <2>5, <2>6 DEF GoodSession
  <1> QED BY <1>2, <1>3

\* A command's time stamp disturbs no pointer.
LEMMA UpdateTimeGood ==
  ASSUME NEW s, GoodSession(s), now \in Int
  PROVE  GoodSession(UpdateTime(s))
  <1>1. s \in Session /\ s.context \in ImeContext /\ s.context.dangling \subseteq {"chunk_table"}
    BY DEF GoodSession, GoodContext
  <1> DEFINE c == [ s.context EXCEPT !.last_command_time = now ]
  <1>2. c \in ImeContext /\ c.dangling \subseteq {"chunk_table"}
    BY <1>1 DEF ImeContext, Time
  <1>3. UpdateTime(s) = [ s EXCEPT !.context = c, !.accessed = now ]
    BY <1>1 DEF UpdateTime, Session, ImeContext
  <1> HIDE DEF c
  <1>4. /\ UpdateTime(s) \in Session
        /\ UpdateTime(s).undo_contexts = s.undo_contexts
        /\ UpdateTime(s).context = c
    BY <1>1, <1>2, <1>3 DEF Session
  <1> QED BY <1>2, <1>4 DEF GoodSession, GoodContext

\* A new session points to static defaults and has no undo context.
LEMMA NewSessionGood ==
  ASSUME NEW app \in App, now \in Int
  PROVE  GoodSession(NewSession(app))
  <1> DEFINE empty == << >>
             c == [ last_command_time |-> InfinitePast, dangling |-> {} ]
  <1>1. empty \in Seq(ImeContext) /\ Len(empty) = 0
    OBVIOUS
  <1>2. c \in ImeContext /\ c.dangling \subseteq {"chunk_table"}
    BY DEF ImeContext, Time
  <1>3. NewSession(app) = [ app |-> app, create_time |-> now, accessed |-> now,
                            context |-> c, undo_contexts |-> empty ]
    BY DEF NewSession
  <1> HIDE DEF empty, c
  <1>4. /\ NewSession(app) \in Session
        /\ NewSession(app).undo_contexts = empty
        /\ NewSession(app).context = c
    BY <1>1, <1>2, <1>3 DEF Session
  <1> QED BY <1>1, <1>2, <1>4, UndoMaxSizeAssumption DEF GoodSession, GoodContext

-----------------------------------------------------------------------------
(***************************************************************************)
(* UpdateSessions.                                                         *)
(***************************************************************************)

\* The four setters leave no pointer to an object the handler has replaced,
\* as long as the session's pointer to the engine's modules is alive.
LEMMA SettersGood ==
  ASSUME NEW s \in Session, "modules" \notin s.context.dangling
  PROVE  GoodSession(Session_SetTable(Session_SetRequest(
                       Session_SetKeyMapManager(Session_SetConfig(s)))))
  <1> DEFINE s1 == Point(ClearUndoContext(s), "config")
             s2 == Point(s1, "keymap")
             s3 == Point(ClearUndoContext(s2), "request")
             s4 == Point(ClearUndoContext(s3), "table")
  <1>1. /\ "config" \in Object
        /\ "keymap" \in Object
        /\ "request" \in Object
        /\ "table" \in Object
    BY DEF Object
  <1>2. /\ s1 \in Session
        /\ s1.context.dangling = s.context.dangling \ {"config"}
    <2>1. ClearUndoContext(s) \in Session /\ ClearUndoContext(s).context = s.context
      BY ClearProperties
    <2> QED BY <1>1, <2>1, PointProperties
  <1> HIDE DEF s1
  <1>3. /\ s2 \in Session
        /\ s2.context.dangling = s1.context.dangling \ {"keymap"}
    BY <1>1, <1>2, PointProperties
  <1> HIDE DEF s2
  <1>4. /\ s3 \in Session
        /\ s3.context.dangling = s2.context.dangling \ {"request"}
    <2>1. ClearUndoContext(s2) \in Session /\ ClearUndoContext(s2).context = s2.context
      BY <1>3, ClearProperties
    <2> QED BY <1>1, <2>1, PointProperties
  <1> HIDE DEF s3
  <1>5. /\ s4 \in Session
        /\ s4.context.dangling = s3.context.dangling \ {"table"}
        /\ s4.undo_contexts = << >>
    <2>1. /\ ClearUndoContext(s3) \in Session
          /\ ClearUndoContext(s3).context = s3.context
          /\ ClearUndoContext(s3).undo_contexts = << >>
      BY <1>4, ClearProperties
    <2> QED BY <1>1, <2>1, PointProperties
  <1> HIDE DEF s4
  <1>6. s.context.dangling \in SUBSET Object
    BY DEF Session, ImeContext
  <1>7. s4.context.dangling \subseteq {"chunk_table"}
    BY <1>2, <1>3, <1>4, <1>5, <1>6 DEF Object
  <1>8. s4.context \in ImeContext
    BY <1>5 DEF Session
  <1>9. Len(<< >>) = 0
    OBVIOUS
  <1>10. GoodSession(s4)
    BY <1>5, <1>7, <1>8, <1>9, UndoMaxSizeAssumption DEF GoodSession, GoodContext
  <1> QED
    BY <1>10 DEF s1, s2, s3, s4, Session_SetTable, Session_SetRequest,
                 Session_SetKeyMapManager, Session_SetConfig

\* UpdateSessions makes every session of the map good, whichever objects the
\* new Config replaced.
LEMMA UpdatedSessionsGood ==
  ASSUME NEW K, NEW f \in [ K -> Session ],
         \A i \in K : "modules" \notin f[i].context.dangling,
         NEW g \in UpdatedSessions(f)
  PROVE  /\ DOMAIN g = K
         /\ g \in [ K -> Session ]
         /\ \A i \in K : GoodSession(g[i])
  <1>1. PICK replaced \in SUBSET {"keymap", "table"}, composing \in SUBSET Used(f) :
           g = UpdateSessions(f, replaced, composing)
    BY DEF UpdatedSessions
  <1> DEFINE freed(i) == {"config", "request"} \cup replaced \cup
               { o \in {"chunk_table"} : "table" \in replaced /\ i \in composing }
             h(i) == FreeFor(f[i], freed(i))
  <1>2. \A i \in K : freed(i) \in SUBSET Object /\ "modules" \notin freed(i)
    BY <1>1 DEF Object
  <1> HIDE DEF freed
  <1>3. \A i \in K : h(i) \in Session /\ "modules" \notin h(i).context.dangling
    <2> SUFFICES ASSUME NEW i \in K
                 PROVE  h(i) \in Session /\ "modules" \notin h(i).context.dangling
      OBVIOUS
    <2>1. f[i] \in Session /\ f[i].context \in ImeContext
      BY DEF Session
    <2> QED BY <1>2, <2>1, FreeForProperties, FreeProperties
  <1>4. g = [ i \in K |-> Session_SetTable(Session_SetRequest(
                            Session_SetKeyMapManager(Session_SetConfig(h(i))))) ]
    BY <1>1 DEF UpdateSessions, freed
  <1> HIDE DEF h
  <1>5. \A i \in K : GoodSession(g[i])
    BY <1>3, <1>4, SettersGood
  <1>6. \A i \in K : g[i] \in Session
    BY <1>5 DEF GoodSession
  <1> QED BY <1>4, <1>5, <1>6

-----------------------------------------------------------------------------
(***************************************************************************)
(* The LRU order.                                                          *)
(***************************************************************************)

\* Removing keys leaves one list of the others.
LEMMA RemoveOrder ==
  ASSUME NEW r, NEW keys, NEW R, IsLRUOrder(r, keys)
  PROVE  IsLRUOrder(RemoveFromLRU(r, R), keys \ R)
  <1>1. RemoveFromLRU(r, R) \subseteq (keys \ R) \X (keys \ R)
    BY DEF IsLRUOrder, RemoveFromLRU
  <1>2. \A a, b \in keys \ R : <<a, b>> \in RemoveFromLRU(r, R) <=> <<a, b>> \in r
    BY DEF RemoveFromLRU
  <1> QED BY <1>1, <1>2 DEF IsLRUOrder

\* Pushing a key, new or not, to the head leaves one list.
LEMMA PushOrder ==
  ASSUME NEW r, NEW keys, NEW old, NEW k \in keys,
         IsLRUOrder(r, old), keys = old \cup {k}
  PROVE  IsLRUOrder(PushLRUHead(r, keys, k), keys)
  <1> DEFINE rest == RemoveFromLRU(r, {k})
             p == PushLRUHead(r, keys, k)
  <1>1. IsLRUOrder(rest, old \ {k}) /\ old \ {k} = keys \ {k}
    BY RemoveOrder
  <1>2. p = rest \cup ({k} \X (keys \ {k}))
    BY DEF PushLRUHead
  <1> HIDE DEF rest, p
  <1>3. rest \subseteq (keys \ {k}) \X (keys \ {k})
    BY <1>1 DEF IsLRUOrder
  <1>4. p \subseteq keys \X keys
    BY <1>2, <1>3
  <1>5. \A a, b \in keys : <<a, b>> \in p <=>
            \/ a = k /\ b # k
            \/ a # k /\ b # k /\ <<a, b>> \in rest
    BY <1>2, <1>3
  <1>6. \A a \in keys : <<a, a>> \notin p
    BY <1>1, <1>5 DEF IsLRUOrder
  <1>7. \A a, b \in keys : a # b => (<<a, b>> \in p \/ <<b, a>> \in p)
    BY <1>1, <1>5 DEF IsLRUOrder
  <1>8. \A a, b, c \in keys : (<<a, b>> \in p /\ <<b, c>> \in p) => <<a, c>> \in p
    BY <1>1, <1>5 DEF IsLRUOrder
  <1> QED BY <1>4, <1>6, <1>7, <1>8 DEF IsLRUOrder, p

-----------------------------------------------------------------------------
(***************************************************************************)
(* The inductive invariant: the four invariants together, with the share   *)
(* of each session in TypeOK and NoDanglingPointer gathered in one place.  *)
(***************************************************************************)

SessionsOK ==
    /\ Live \subseteq SessionID
    /\ session \in [ Live -> Session ]
    /\ \A i \in Live : GoodSession(session[i])

ScalarsOK ==
    /\ is_available \in BOOLEAN
    /\ last_session_empty_time \in Time
    /\ last_cleanup_time \in Time
    /\ last_create_session_time \in Time
    /\ now \in Int
    /\ exited \subseteq App

IInv == SessionsOK /\ ScalarsOK /\ SessionMapOK /\ EmptyTimeOK

\* The inductive invariant implies the two invariants it rearranges.
LEMMA IInvImplies ==
  ASSUME IInv
  PROVE  TypeOK /\ NoDanglingPointer
  <1>1. \A i \in Live : /\ Len(session[i].undo_contexts) <= UndoMaxSize
                        /\ session[i].context.dangling \subseteq {"chunk_table"}
    BY DEF IInv, SessionsOK, GoodSession, GoodContext
  <1>2. \A i \in Live : \A j \in DOMAIN session[i].undo_contexts :
           session[i].undo_contexts[j].dangling \subseteq {"chunk_table"}
    <2> SUFFICES ASSUME NEW i \in Live, NEW j \in DOMAIN session[i].undo_contexts
                 PROVE  session[i].undo_contexts[j].dangling \subseteq {"chunk_table"}
      OBVIOUS
    <2>1. session[i].undo_contexts \in Seq(ImeContext) /\ GoodSession(session[i])
      BY DEF IInv, SessionsOK, Session
    <2>2. j \in 1..Len(session[i].undo_contexts)
      BY <2>1
    <2> QED BY <2>1, <2>2 DEF GoodSession, GoodContext
  <1>3. newer \subseteq SessionID \X SessionID
    BY DEF IInv, SessionsOK, SessionMapOK, IsLRUOrder
  <1>4. TypeOK
    BY <1>1, <1>3 DEF IInv, SessionsOK, ScalarsOK, TypeOK
  <1> QED BY <1>1, <1>2, <1>4 DEF NoDanglingPointer

\* The flags are clamped, so the session map has room for two at least.
LEMMA MaxSessionSize ==
  /\ max_session_size \in Nat
  /\ max_session_size >= 2
  BY FlagAssumption DEF max_session_size, Clamp

\* The map is finite, and so its size is a number.
LEMMA LiveFinite ==
  ASSUME SessionsOK
  PROVE  IsFiniteSet(Live) /\ Cardinality(Live) \in Nat
  BY SessionIDAssumption, FS_Subset, FS_CardinalityType DEF SessionsOK

\* A server starts without sessions.
LEMMA InitIInv == Init => IInv
  <1> SUFFICES ASSUME Init PROVE IInv
    OBVIOUS
  <1>1. Live = {}
    BY DEF Init, Live
  <1>2. SessionsOK
    BY <1>1 DEF SessionsOK, Live, Init
  <1>3. ScalarsOK
    BY ClockAssumption DEF ScalarsOK, Init, Time
  <1>4. SessionMapOK
    BY <1>1, FS_EmptySet, MaxSessionSize DEF SessionMapOK, IsLRUOrder, Init
  <1>5. EmptyTimeOK
    BY <1>1, ClockAssumption, InfinitePastAssumption DEF EmptyTimeOK, Init
  <1> QED BY <1>2, <1>3, <1>4, <1>5 DEF IInv

\* DeleteSessionID, whichever command calls it and however often.
LEMMA DeleteIInv ==
  ASSUME IInv, NEW R \in SUBSET Live, DeleteSessionIDs(R)
  PROVE  /\ SessionsOK'
         /\ SessionMapOK'
         /\ now' = now => EmptyTimeOK'
         /\ last_session_empty_time' \in Time
  <1>1. Live' = Live \ R
    BY DEF DeleteSessionIDs, Live
  <1>2. \A i \in Live' : session'[i] = session[i]
    BY <1>1 DEF DeleteSessionIDs
  <1>3. SessionsOK'
    <2>1. Live' \subseteq SessionID
      BY <1>1 DEF IInv, SessionsOK
    <2>2. session' \in [ Live' -> Session ]
      BY <1>1 DEF IInv, SessionsOK, DeleteSessionIDs
    <2>3. \A i \in Live' : GoodSession(session'[i])
      BY <1>1, <1>2 DEF IInv, SessionsOK
    <2> QED BY <2>1, <2>2, <2>3 DEF SessionsOK, GoodSession
  <1>4. SessionMapOK'
    <2>1. IsLRUOrder(newer', Live')
      BY <1>1, RemoveOrder DEF IInv, SessionMapOK, DeleteSessionIDs
    <2>2. Cardinality(Live') <= Cardinality(Live) /\ Cardinality(Live') \in Nat
      BY <1>1, LiveFinite, FS_Subset, FS_CardinalityType DEF IInv
    <2>3. Cardinality(Live) <= max_session_size /\ Cardinality(Live) \in Nat
      BY LiveFinite DEF IInv, SessionMapOK
    <2>4. Cardinality(Live') <= max_session_size
      BY <2>2, <2>3, MaxSessionSize
    <2> QED BY <2>1, <2>4 DEF SessionMapOK, max_session_size
  <1>5. now \in Int /\ now # InfinitePast /\ last_session_empty_time \in Time
    BY InfinitePastAssumption DEF IInv, ScalarsOK
  <1>6. EmptyTimeOK'
    BY <1>1, <1>5 DEF IInv, EmptyTimeOK, DeleteSessionIDs
  <1>7. last_session_empty_time' \in Time
    BY <1>5 DEF DeleteSessionIDs, Time
  <1> QED BY <1>3, <1>4, <1>6, <1>7

\* CreateSession evicts at most one session, and makes room when it must.
LEMMA EvictionMakesRoom ==
  ASSUME IInv, NEW evicted \in SessionsToEvict
  PROVE  /\ evicted \subseteq Live
         /\ Cardinality(Live \ evicted) \in Nat
         /\ Cardinality(Live \ evicted) + 1 <= max_session_size
  <1>1. IsFiniteSet(Live) /\ Cardinality(Live) \in Nat
    BY LiveFinite DEF IInv
  <1>2. Cardinality(Live) <= max_session_size
    BY DEF IInv, SessionMapOK
  <1>3. CASE Cardinality(Live) >= max_session_size
    <2>1. PICK i \in Live : evicted = {i}
      BY <1>3 DEF SessionsToEvict
    <2>2. Cardinality(Live \ {i}) = Cardinality(Live) - 1
      BY <1>1, FS_RemoveElement
    <2> QED BY <1>1, <1>2, <2>1, <2>2, <1>3, MaxSessionSize
  <1>4. CASE ~(Cardinality(Live) >= max_session_size)
    <2>1. evicted = {}
      BY <1>4 DEF SessionsToEvict
    <2>2. Live \ evicted = Live
      BY <2>1
    <2> QED BY <1>1, <1>4, <2>1, <2>2, MaxSessionSize
  <1> QED BY <1>3, <1>4

\* CreateSession.
LEMMA CreateIInv ==
  ASSUME IInv, NEW app \in App, CreateSession(app)
  PROVE  IInv'
  <1>0. PICK evicted \in SessionsToEvict :
           \E freed \in MaybeReloadEngine(Live \ evicted) :
              InsertSession(app, evicted, freed)
    BY DEF CreateSession
  <1>1. PICK freed \in MaybeReloadEngine(Live \ evicted) :
           InsertSession(app, evicted, freed)
    BY <1>0
  <1> DEFINE kept == Live \ evicted
  <1>2. PICK id \in SessionID \ kept :
          LET keys == kept \cup {id}
              inserted == [ i \in keys |-> IF i = id THEN NewSession(app)
                                           ELSE FreeFor(session[i], freed) ]
          IN  /\ session' \in UpdatedSessions(inserted)
              /\ newer' = PushLRUHead(RemoveFromLRU(newer, evicted), keys, id)
    BY <1>1 DEF InsertSession
  <1> DEFINE keys == kept \cup {id}
             inserted == [ i \in keys |-> IF i = id THEN NewSession(app)
                                          ELSE FreeFor(session[i], freed) ]
  <1>3. /\ session' \in UpdatedSessions(inserted)
        /\ newer' = PushLRUHead(RemoveFromLRU(newer, evicted), keys, id)
    BY <1>2
  <1>4. /\ last_create_session_time' = now
        /\ last_session_empty_time' = InfinitePast
        /\ UNCHANGED << is_available, last_cleanup_time, now, exited >>
    BY <1>1 DEF InsertSession
  <1>5. kept # {} => freed = {}
    BY <1>1 DEF MaybeReloadEngine
  <1>6. freed \in SUBSET Object
    BY <1>1 DEF MaybeReloadEngine, Object
  <1>7. \A i \in keys : /\ inserted[i] \in Session
                        /\ "modules" \notin inserted[i].context.dangling
    <2> SUFFICES ASSUME NEW i \in keys
                 PROVE  /\ inserted[i] \in Session
                        /\ "modules" \notin inserted[i].context.dangling
      OBVIOUS
    <2>1. CASE i = id
      <3>1. GoodSession(NewSession(app))
        BY NewSessionGood DEF IInv, ScalarsOK
      <3> QED BY <2>1, <3>1 DEF GoodSession, GoodContext
    <2>2. CASE i # id
      <3>1. i \in Live /\ freed = {}
        BY <2>2, <1>5
      <3>2. session[i] \in Session /\ GoodContext(session[i].context)
        BY <3>1 DEF IInv, SessionsOK, GoodSession
      <3>3. /\ FreeFor(session[i], freed) \in Session
            /\ FreeFor(session[i], freed).context = Free(session[i].context, freed)
        BY <3>2, <1>6, FreeForProperties
      <3>4. Free(session[i].context, freed).dangling \subseteq {"chunk_table"}
        BY <3>1, <3>2, <1>6, FreeProperties DEF GoodContext
      <3> QED BY <2>2, <3>3, <3>4
    <2> QED BY <2>1, <2>2
  <1>8. inserted \in [ keys -> Session ]
    BY <1>7
  <1> HIDE DEF inserted
  <1>9. /\ Live' = keys
        /\ session' \in [ keys -> Session ]
        /\ \A i \in keys : GoodSession(session'[i])
    BY <1>3, <1>7, <1>8, UpdatedSessionsGood DEF Live
  <1>10. SessionsOK'
    <2>1. keys \subseteq SessionID
      BY <1>2 DEF IInv, SessionsOK
    <2> QED BY <1>9, <2>1 DEF SessionsOK, GoodSession
  <1>11. IsLRUOrder(newer', Live')
    <2>1. IsLRUOrder(RemoveFromLRU(newer, evicted), kept)
      BY RemoveOrder DEF IInv, SessionMapOK
    <2> QED BY <1>3, <1>9, <2>1, PushOrder
  <1>12. Cardinality(Live') <= max_session_size
    <2>1. IsFiniteSet(kept)
      BY LiveFinite, FS_Subset DEF IInv
    <2>2. Cardinality(kept \cup {id}) = Cardinality(kept) + 1
      BY <1>2, <2>1, FS_AddElement
    <2> QED BY <1>9, <2>2, EvictionMakesRoom
  <1>13. ScalarsOK'
    BY <1>4 DEF IInv, ScalarsOK, Time
  <1>14. EmptyTimeOK'
    BY <1>4, <1>9 DEF EmptyTimeOK
  <1> QED
    BY <1>10, <1>11, <1>12, <1>13, <1>14 DEF IInv, SessionMapOK, max_session_size

\* Whatever a command makes of one session, the handler may then store a new
\* Config and update them all.
LEMMA CommandIInv ==
  ASSUME IInv, NEW id \in SessionID, LookupSession(id),
         NEW s, GoodSession(s),
         session' \in MaybeUpdateConfig([ session EXCEPT ![id] = s ])
  PROVE  IInv'
  <1> DEFINE f == [ session EXCEPT ![id] = s ]
  <1>1. id \in Live /\ session \in [ Live -> Session ] /\ s \in Session
    BY DEF LookupSession, IInv, SessionsOK, GoodSession
  <1>2. /\ f \in [ Live -> Session ]
        /\ \A i \in Live : GoodSession(f[i])
    BY <1>1 DEF IInv, SessionsOK
  <1> HIDE DEF f
  <1>3. session' = f \/ session' \in UpdatedSessions(f)
    <2>1. UpdateSessions(f, {}, {}) \in UpdatedSessions(f)
      BY DEF UpdatedSessions
    <2> QED BY <2>1 DEF MaybeUpdateConfig, f
  <1>4. /\ Live' = Live
        /\ session' \in [ Live -> Session ]
        /\ \A i \in Live : GoodSession(session'[i])
    <2>1. CASE session' = f
      BY <1>2, <2>1 DEF Live
    <2>2. CASE session' \in UpdatedSessions(f)
      <3>1. \A i \in Live : "modules" \notin f[i].context.dangling
        BY <1>2 DEF GoodSession, GoodContext
      <3>2. /\ DOMAIN session' = Live
            /\ session' \in [ Live -> Session ]
            /\ \A i \in Live : GoodSession(session'[i])
        BY <1>2, <2>2, <3>1, UpdatedSessionsGood
      <3> QED BY <3>2 DEF Live
    <2> QED BY <1>3, <2>1, <2>2
  <1>5. SessionsOK'
    BY <1>4 DEF IInv, SessionsOK, GoodSession
  <1>6. SessionMapOK'
    <2>1. IsLRUOrder(PushLRUHead(newer, Live, id), Live)
      BY <1>1, PushOrder DEF IInv, SessionMapOK
    <2> QED BY <1>4, <2>1 DEF IInv, SessionMapOK, LookupSession, max_session_size
  <1>7. ScalarsOK' /\ EmptyTimeOK'
    BY <1>4 DEF IInv, ScalarsOK, EmptyTimeOK, LookupSession
  <1> QED BY <1>5, <1>6, <1>7 DEF IInv

\* SEND_KEY.
LEMMA SendKeyIInv ==
  ASSUME IInv, NEW id \in SessionID, SendKey(id)
  PROVE  IInv'
  <1>1. LookupSession(id) /\ id \in Live /\ now \in Int
    BY DEF SendKey, LookupSession, IInv, ScalarsOK
  <1>2. GoodSession(session[id])
    BY <1>1 DEF IInv, SessionsOK
  <1>3. GoodSession(UpdateTime(session[id]))
    BY <1>1, <1>2, UpdateTimeGood
  <1>4. PICK s \in AfterKey(UpdateTime(session[id])) :
           session' \in MaybeUpdateConfig([ session EXCEPT ![id] = s ])
    BY DEF SendKey
  <1>5. GoodSession(s)
    <2> DEFINE t == UpdateTime(session[id])
               after == { t, ClearUndoContext(t), PushUndoContext(t),
                          PushUndoContext(ClearUndoContext(t)) }
    <2>1. \A a \in after : GoodSession(a)
      BY <1>3, ClearGood, PushGood
    <2>2. s \in after \/ \E a \in after : s = EndComposition(a)
      BY <1>4 DEF AfterKey
    <2> HIDE DEF after
    <2> QED BY <2>1, <2>2, EndCompositionGood
  <1> QED BY <1>1, <1>4, <1>5, CommandIInv

\* TEST_SEND_KEY.
LEMMA TestSendKeyIInv ==
  ASSUME IInv, NEW id \in SessionID, TestSendKey(id)
  PROVE  IInv'
  <1>1. LookupSession(id) /\ id \in Live /\ now \in Int
    BY DEF TestSendKey, LookupSession, IInv, ScalarsOK
  <1>2. GoodSession(session[id])
    BY <1>1 DEF IInv, SessionsOK
  <1>3. GoodSession(UpdateTime(session[id]))
    BY <1>1, <1>2, UpdateTimeGood
  <1>4. PICK s \in { UpdateTime(session[id]), ClearUndoContext(UpdateTime(session[id])) } :
           session' = [ session EXCEPT ![id] = s ]
    BY DEF TestSendKey
  <1>5. GoodSession(s)
    BY <1>3, <1>4, ClearGood
  <1>6. session' \in MaybeUpdateConfig([ session EXCEPT ![id] = s ])
    BY <1>4 DEF MaybeUpdateConfig
  <1> QED BY <1>1, <1>5, <1>6, CommandIInv

\* SEND_COMMAND with UNDO.
LEMMA SendUndoIInv ==
  ASSUME IInv, NEW id \in SessionID, SendUndo(id)
  PROVE  IInv'
  <1>1. LookupSession(id) /\ id \in Live /\ now \in Int
    BY DEF SendUndo, LookupSession, IInv, ScalarsOK
  <1>2. GoodSession(session[id])
    BY <1>1 DEF IInv, SessionsOK
  <1> DEFINE s == PopUndoContext(UpdateTime(session[id]))
  <1>3. GoodSession(s)
    BY <1>1, <1>2, UpdateTimeGood, PopGood
  <1>4. session' \in MaybeUpdateConfig([ session EXCEPT ![id] = s ])
    BY DEF SendUndo, MaybeUpdateConfig
  <1> HIDE DEF s
  <1> QED BY <1>1, <1>3, <1>4, CommandIInv

\* The commands that reload the Config or the Request.
LEMMA ReloadIInv ==
  ASSUME IInv, Reload
  PROVE  IInv'
  <1>1. /\ session \in [ Live -> Session ]
        /\ \A i \in Live : "modules" \notin session[i].context.dangling
        /\ session' \in UpdatedSessions(session)
    BY DEF IInv, SessionsOK, GoodSession, GoodContext, Reload
  <1>2. /\ DOMAIN session' = Live
        /\ session' \in [ Live -> Session ]
        /\ \A i \in Live : GoodSession(session'[i])
    BY <1>1, UpdatedSessionsGood
  <1>3. Live' = Live
    BY <1>2 DEF Live
  <1>4. SessionsOK'
    BY <1>2, <1>3 DEF IInv, SessionsOK, GoodSession
  <1>5. SessionMapOK'
    BY <1>3 DEF IInv, SessionMapOK, Reload, max_session_size
  <1>6. ScalarsOK' /\ EmptyTimeOK'
    BY <1>3 DEF IInv, ScalarsOK, EmptyTimeOK, Reload
  <1> QED BY <1>4, <1>5, <1>6 DEF IInv

\* A step that touches neither the map, its order nor the time it emptied.
LEMMA FrameIInv ==
  ASSUME IInv, UNCHANGED << session, newer, last_session_empty_time >>, ScalarsOK'
  PROVE  IInv'
  <1>1. Live' = Live
    BY DEF Live
  <1>2. SessionsOK'
    BY <1>1 DEF IInv, SessionsOK
  <1>3. SessionMapOK' /\ EmptyTimeOK'
    BY <1>1 DEF IInv, SessionMapOK, EmptyTimeOK, max_session_size
  <1> QED BY <1>2, <1>3 DEF IInv

(***************************************************************************)
(* Every step of the handler, of the clock and of the applications keeps   *)
(* the inductive invariant.                                                *)
(***************************************************************************)
LEMMA NextIInv == IInv /\ [Next]_vars => IInv'
  <1> SUFFICES ASSUME IInv, [Next]_vars
               PROVE  IInv'
    OBVIOUS
  <1>1. ASSUME NEW app \in App, CreateSession(app)
        PROVE  IInv'
    BY <1>1, CreateIInv
  <1>2. ASSUME NEW app \in App, AppExit(app)
        PROVE  IInv'
    <2>1. ScalarsOK'
      BY <1>2 DEF AppExit, IInv, ScalarsOK
    <2> QED BY <1>2, <2>1, FrameIInv DEF AppExit
  <1>3. ASSUME NEW id \in SessionID, DeleteSession(id)
        PROVE  IInv'
    <2>1. {id} \in SUBSET Live /\ DeleteSessionIDs({id})
      BY <1>3 DEF DeleteSession
    <2>2. /\ SessionsOK'
          /\ SessionMapOK'
          /\ now' = now => EmptyTimeOK'
          /\ last_session_empty_time' \in Time
      BY <2>1, DeleteIInv
    <2>3. ScalarsOK' /\ now' = now
      BY <1>3, <2>2 DEF DeleteSession, IInv, ScalarsOK
    <2> QED BY <2>2, <2>3 DEF IInv
  <1>4. ASSUME NEW id \in SessionID, SendCommand(id)
        PROVE  IInv'
    BY <1>4, SendKeyIInv, SendUndoIInv DEF SendCommand
  <1>5. ASSUME NEW id \in SessionID, TestSendKey(id)
        PROVE  IInv'
    BY <1>5, TestSendKeyIInv
  <1>6. CASE Reload
    BY <1>6, ReloadIInv
  <1>7. CASE Shutdown
    <2>1. ScalarsOK'
      BY <1>7 DEF Shutdown, IInv, ScalarsOK
    <2> QED BY <1>7, <2>1, FrameIInv DEF Shutdown
  <1>8. CASE Cleanup
    <2> DEFINE R == { i \in Live : Expired(session[i]) }
    <2>1. R \in SUBSET Live /\ DeleteSessionIDs(R)
      BY <1>8 DEF Cleanup
    <2> HIDE DEF R
    <2>2. /\ SessionsOK'
          /\ SessionMapOK'
          /\ now' = now => EmptyTimeOK'
          /\ last_session_empty_time' \in Time
      BY <2>1, DeleteIInv
    <2>3. is_available' \in BOOLEAN
      BY <1>8, Zenon DEF Cleanup
    <2>4. /\ last_cleanup_time' = now
          /\ UNCHANGED << last_create_session_time, now, exited >>
      BY <1>8 DEF Cleanup
    <2>5. ScalarsOK'
      BY <2>2, <2>3, <2>4 DEF IInv, ScalarsOK, Time
    <2> QED BY <2>2, <2>4, <2>5 DEF IInv
  <1>9. CASE EvalOther
    BY <1>9, FrameIInv DEF EvalOther, vars, IInv, ScalarsOK
  <1>10. CASE Tick
    <2>1. ScalarsOK'
      BY <1>10 DEF Tick, IInv, ScalarsOK
    <2> QED BY <1>10, <2>1, FrameIInv DEF Tick
  <1>11. CASE UNCHANGED vars
    BY <1>11, FrameIInv DEF vars, IInv, ScalarsOK
  <1> QED
    BY <1>1, <1>2, <1>3, <1>4, <1>5, <1>6, <1>7, <1>8, <1>9, <1>10, <1>11 DEF Next

\* The inductive invariant holds throughout every behaviour.
THEOREM IInvHolds == Spec => []IInv
  <1> QED BY InitIInv, NextIInv, PTL DEF Spec

(***************************************************************************)
(* Types are respected, and no undo stack outgrows kMultipleUndoMaxSize.   *)
(***************************************************************************)
THEOREM TypeCorrect == Spec => []TypeOK
  <1>1. IInv => TypeOK
    BY IInvImplies
  <1> QED BY <1>1, IInvHolds, PTL

(***************************************************************************)
(* After any sequence of commands, the LRU list of session_map_ is one     *)
(* list of exactly the live sessions and holds no more than                *)
(* max_session_size_ of them.                                              *)
(***************************************************************************)
THEOREM SessionMapCorrect == Spec => []SessionMapOK
  <1>1. IInv => SessionMapOK
    BY DEF IInv
  <1> QED BY <1>1, IInvHolds, PTL

(***************************************************************************)
(* last_session_empty_time_ always tells whether a session exists, for     *)
(* every clock, including one that is set back.                            *)
(***************************************************************************)
THEOREM EmptyTimeCorrect == Spec => []EmptyTimeOK
  <1>1. IInv => EmptyTimeOK
    BY DEF IInv
  <1> QED BY <1>1, IInvHolds, PTL

(***************************************************************************)
(* No session, current context or undo context, ever points to an object   *)
(* that a reload or SET_CONFIG has freed.                                  *)
(***************************************************************************)
THEOREM PointersLive == Spec => []NoDanglingPointer
  <1>1. IInv => NoDanglingPointer
    BY IInvImplies
  <1> QED BY <1>1, IInvHolds, PTL

-----------------------------------------------------------------------------
(***************************************************************************)
(* Recency and age, while the clock is not set back.  The order of the LRU *)
(* list agrees with the times of the last accesses, and no context of a    *)
(* session, saved ones included, has a command older than the session.     *)
(***************************************************************************)

\* No command of the context is older than t.
Since(t, c) == c.last_command_time # InfinitePast => c.last_command_time >= t

Aged(s) ==
    /\ Since(s.create_time, s.context)
    /\ \A j \in 1..Len(s.undo_contexts) : Since(s.create_time, s.undo_contexts[j])

TimesOK ==
    \A i \in Live : /\ session[i].create_time <= now
                    /\ session[i].accessed <= now
                    /\ Aged(session[i])

AccessOrderOK ==
    \A i, j \in Live : <<i, j>> \in newer => session[j].accessed <= session[i].accessed

TInv == TimesOK /\ AccessOrderOK

\* t is s as far as its creation and its last access go, and no less aged.
KeepsTimes(s, t) ==
    /\ t.create_time = s.create_time
    /\ t.accessed = s.accessed
    /\ Aged(s) => Aged(t)

\* Clearing the undo contexts keeps the times of a session.
LEMMA ClearKeepsTimes ==
  ASSUME NEW s \in Session
  PROVE  KeepsTimes(s, ClearUndoContext(s))
  <1> DEFINE empty == << >>
  <1>1. empty \in Seq(ImeContext) /\ Len(empty) = 0
    OBVIOUS
  <1>2. ClearUndoContext(s) = [ s EXCEPT !.undo_contexts = empty ]
    BY DEF ClearUndoContext
  <1> HIDE DEF empty
  <1>3. /\ ClearUndoContext(s).undo_contexts = empty
        /\ ClearUndoContext(s).context = s.context
        /\ ClearUndoContext(s).create_time = s.create_time
        /\ ClearUndoContext(s).accessed = s.accessed
    BY <1>2 DEF Session
  <1> QED BY <1>1, <1>3 DEF KeepsTimes, Aged

\* So does setting a pointer of the current context.
LEMMA PointKeepsTimes ==
  ASSUME NEW s \in Session, NEW object
  PROVE  KeepsTimes(s, Point(s, object))
  <1>1. s.context \in ImeContext
    BY DEF Session
  <1> DEFINE c == [ s.context EXCEPT !.dangling = @ \ {object} ]
  <1>2. c.last_command_time = s.context.last_command_time
    BY <1>1 DEF ImeContext
  <1>3. Point(s, object) = [ s EXCEPT !.context = c ]
    BY <1>1 DEF Point, Session, ImeContext
  <1> HIDE DEF c
  <1>4. /\ Point(s, object).undo_contexts = s.undo_contexts
        /\ Point(s, object).context = c
        /\ Point(s, object).create_time = s.create_time
        /\ Point(s, object).accessed = s.accessed
    BY <1>3 DEF Session
  <1> QED BY <1>2, <1>4 DEF KeepsTimes, Aged, Since

\* So does freeing what its contexts point to.
LEMMA FreeForKeepsTimes ==
  ASSUME NEW s \in Session, NEW freed
  PROVE  KeepsTimes(s, FreeFor(s, freed))
  <1>1. s.context \in ImeContext /\ s.undo_contexts \in Seq(ImeContext)
    BY DEF Session
  <1> DEFINE u == [ i \in DOMAIN s.undo_contexts |-> Free(s.undo_contexts[i], freed) ]
             c == Free(s.context, freed)
             t == FreeFor(s, freed)
  <1>2. \A x \in ImeContext : Free(x, freed).last_command_time = x.last_command_time
    BY DEF Free, ImeContext
  <1>3. /\ Len(u) = Len(s.undo_contexts)
        /\ \A i \in 1..Len(u) :
              u[i].last_command_time = s.undo_contexts[i].last_command_time
    <2>1. DOMAIN s.undo_contexts = 1..Len(s.undo_contexts) /\ Len(s.undo_contexts) \in Nat
      BY <1>1
    <2>2. Len(u) = Len(s.undo_contexts)
      BY <2>1
    <2>3. \A i \in 1..Len(s.undo_contexts) : s.undo_contexts[i] \in ImeContext
      BY <1>1
    <2> QED BY <1>2, <2>1, <2>2, <2>3
  <1>4. t = [ s EXCEPT !.context = c, !.undo_contexts = u ]
    BY DEF FreeFor
  <1>5. c.last_command_time = s.context.last_command_time
    BY <1>1, <1>2
  <1> HIDE DEF u, c, t
  <1>6. /\ t.undo_contexts = u
        /\ t.context = c
        /\ t.create_time = s.create_time
        /\ t.accessed = s.accessed
    BY <1>4 DEF Session
  <1>7. Aged(s) => Aged(t)
    BY <1>3, <1>5, <1>6 DEF Aged, Since
  <1> QED BY <1>6, <1>7 DEF KeepsTimes, t

\* So does saving the current context.
LEMMA PushKeepsTimes ==
  ASSUME NEW s \in Session
  PROVE  KeepsTimes(s, PushUndoContext(s))
  <1> DEFINE u == s.undo_contexts
             pushed == Append(u, s.context)
             v == IF Len(pushed) > UndoMaxSize THEN Tail(pushed) ELSE pushed
             t == PushUndoContext(s)
  <1>1. u \in Seq(ImeContext) /\ s.context \in ImeContext
    BY DEF Session
  <1>2. t = [ s EXCEPT !.undo_contexts = v ]
    BY DEF PushUndoContext
  <1> HIDE DEF v, t
  <1>3. /\ t.undo_contexts = v
        /\ t.context = s.context
        /\ t.create_time = s.create_time
        /\ t.accessed = s.accessed
    BY <1>2 DEF Session
  <1>4. ASSUME Aged(s)
        PROVE  \A j \in 1..Len(v) : Since(s.create_time, v[j])
    <2>1. /\ Len(pushed) \in Nat
          /\ pushed \in Seq(ImeContext)
          /\ \A j \in 1..Len(pushed) : Since(s.create_time, pushed[j])
      BY <1>1, <1>4 DEF Aged
    <2> HIDE DEF pushed
    <2>2. CASE Len(pushed) > UndoMaxSize
      BY <2>1, <2>2, UndoMaxSizeAssumption DEF v
    <2>3. CASE ~(Len(pushed) > UndoMaxSize)
      BY <2>1, <2>3 DEF v
    <2> QED BY <2>2, <2>3
  <1>5. Aged(s) => Aged(t)
    BY <1>3, <1>4 DEF Aged
  <1> QED BY <1>3, <1>5 DEF KeepsTimes, t

\* So does UNDO: the context it brings back was aged when it was saved.
LEMMA PopKeepsTimes ==
  ASSUME NEW s \in Session
  PROVE  KeepsTimes(s, PopUndoContext(s))
  <1> DEFINE u == s.undo_contexts
             n == Len(u)
             c == u[n]
             v == SubSeq(u, 1, n - 1)
             t == PopUndoContext(s)
  <1>1. u \in Seq(ImeContext) /\ n \in Nat
    BY DEF Session
  <1>2. CASE n = 0
    BY <1>2 DEF PopUndoContext, KeepsTimes
  <1>3. CASE n # 0
    <2>1. Len(v) = n - 1 /\ \A j \in 1..Len(v) : v[j] = u[j]
      BY <1>1, <1>3
    <2>2. t = [ s EXCEPT !.context = c, !.undo_contexts = v ]
      BY <1>3 DEF PopUndoContext
    <2>3. Aged(s) => Since(s.create_time, c)
      BY <1>1, <1>3 DEF Aged
    <2>4. Aged(s) => \A j \in 1..Len(v) : Since(s.create_time, v[j])
      BY <1>1, <2>1 DEF Aged
    <2> HIDE DEF c, v, t
    <2>5. /\ t.undo_contexts = v
          /\ t.context = c
          /\ t.create_time = s.create_time
          /\ t.accessed = s.accessed
      BY <2>2 DEF Session
    <2> QED BY <2>3, <2>4, <2>5 DEF KeepsTimes, Aged, t
  <1> QED BY <1>2, <1>3

\* A command sets the time of the current context and of the access to now.
LEMMA UpdateTimeProperties ==
  ASSUME NEW s \in Session, now \in Int, s.create_time <= now, Aged(s)
  PROVE  /\ UpdateTime(s).create_time = s.create_time
         /\ UpdateTime(s).accessed = now
         /\ Aged(UpdateTime(s))
  <1> DEFINE c == [ s.context EXCEPT !.last_command_time = now ]
             t == UpdateTime(s)
  <1>1. s.context \in ImeContext /\ s.create_time \in Int
    BY DEF Session
  <1>2. c.last_command_time = now
    BY <1>1 DEF ImeContext
  <1>3. t = [ s EXCEPT !.context = c, !.accessed = now ]
    BY <1>1 DEF UpdateTime, Session, ImeContext
  <1> HIDE DEF c, t
  <1>4. /\ t.undo_contexts = s.undo_contexts
        /\ t.context = c
        /\ t.create_time = s.create_time
        /\ t.accessed = now
    BY <1>3 DEF Session
  <1>5. Aged(t)
    BY <1>1, <1>2, <1>4 DEF Aged, Since
  <1> QED BY <1>4, <1>5 DEF t

\* What keeps the times of a session twice keeps them.
LEMMA KeepsTimesTwice ==
  ASSUME NEW r, NEW s, NEW t, KeepsTimes(r, s), KeepsTimes(s, t)
  PROVE  KeepsTimes(r, t)
  BY DEF KeepsTimes

\* UpdateSessions keeps the times of every session.
LEMMA UpdatedSessionsKeepTimes ==
  ASSUME NEW K, NEW f \in [ K -> Session ], NEW g \in UpdatedSessions(f), NEW i \in K
  PROVE  KeepsTimes(f[i], g[i])
  <1>1. PICK replaced \in SUBSET {"keymap", "table"}, composing \in SUBSET Used(f) :
           g = UpdateSessions(f, replaced, composing)
    BY DEF UpdatedSessions
  <1> DEFINE freed == {"config", "request"} \cup replaced \cup
               { o \in {"chunk_table"} : "table" \in replaced /\ i \in composing }
             s0 == FreeFor(f[i], freed)
             r1 == ClearUndoContext(s0)
             s1 == Point(r1, "config")
             s2 == Point(s1, "keymap")
             r3 == ClearUndoContext(s2)
             s3 == Point(r3, "request")
             r4 == ClearUndoContext(s3)
             s4 == Point(r4, "table")
  <1>2. g[i] = s4
    BY <1>1 DEF UpdateSessions, Session_SetTable, Session_SetRequest,
                Session_SetKeyMapManager, Session_SetConfig
  <1>3. freed \in SUBSET Object
    BY <1>1 DEF Object
  <1>4. f[i] \in Session
    OBVIOUS
  <1>5. /\ "config" \in Object
        /\ "keymap" \in Object
        /\ "request" \in Object
        /\ "table" \in Object
    BY DEF Object
  <1> HIDE DEF freed
  <1>6. s0 \in Session /\ KeepsTimes(f[i], s0)
    BY <1>3, <1>4, FreeForProperties, FreeForKeepsTimes
  <1> HIDE DEF s0
  <1>7. r1 \in Session /\ KeepsTimes(f[i], r1)
    BY <1>6, ClearProperties, ClearKeepsTimes, KeepsTimesTwice
  <1> HIDE DEF r1
  <1>8. s1 \in Session /\ KeepsTimes(f[i], s1)
    BY <1>5, <1>7, PointProperties, PointKeepsTimes, KeepsTimesTwice
  <1> HIDE DEF s1
  <1>9. s2 \in Session /\ KeepsTimes(f[i], s2)
    BY <1>5, <1>8, PointProperties, PointKeepsTimes, KeepsTimesTwice
  <1> HIDE DEF s2
  <1>10. r3 \in Session /\ KeepsTimes(f[i], r3)
    BY <1>9, ClearProperties, ClearKeepsTimes, KeepsTimesTwice
  <1> HIDE DEF r3
  <1>11. s3 \in Session /\ KeepsTimes(f[i], s3)
    BY <1>5, <1>10, PointProperties, PointKeepsTimes, KeepsTimesTwice
  <1> HIDE DEF s3
  <1>12. r4 \in Session /\ KeepsTimes(f[i], r4)
    BY <1>11, ClearProperties, ClearKeepsTimes, KeepsTimesTwice
  <1> HIDE DEF r4
  <1>13. KeepsTimes(f[i], s4)
    BY <1>12, PointKeepsTimes, KeepsTimesTwice
  <1> QED BY <1>2, <1>13

\* The access order after the key id, accessed now, is pushed to the head.
LEMMA PushAccessOrder ==
  ASSUME NEW r, NEW keys, NEW id \in keys, NEW g,
         now \in Int,
         \A i \in keys : g[i].accessed \in Int /\ g[i].accessed <= now,
         g[id].accessed = now,
         \A i, j \in keys \ {id} : <<i, j>> \in r => g[j].accessed <= g[i].accessed
  PROVE  \A i, j \in keys : <<i, j>> \in PushLRUHead(r, keys, id) =>
            g[j].accessed <= g[i].accessed
  <1> SUFFICES ASSUME NEW i \in keys, NEW j \in keys,
                      <<i, j>> \in PushLRUHead(r, keys, id)
               PROVE  g[j].accessed <= g[i].accessed
    OBVIOUS
  <1>1. \/ i = id
        \/ i # id /\ j # id /\ <<i, j>> \in r
    BY DEF PushLRUHead, RemoveFromLRU
  <1> QED BY <1>1

\* A command to one session, and the Config that may be stored after it.
LEMMA CommandTInv ==
  ASSUME IInv, TInv, NEW id \in SessionID, LookupSession(id),
         NEW s \in Session, s.create_time = session[id].create_time,
         s.accessed = now, Aged(s),
         session' \in MaybeUpdateConfig([ session EXCEPT ![id] = s ])
  PROVE  TInv'
  <1> DEFINE f == [ session EXCEPT ![id] = s ]
             g == session'
  <1>1. id \in Live /\ session \in [ Live -> Session ] /\ now \in Int
    BY DEF LookupSession, IInv, SessionsOK, ScalarsOK
  <1>2. f \in [ Live -> Session ]
    BY <1>1
  <1>3. \A i \in Live : IF i = id THEN f[i] = s ELSE f[i] = session[i]
    BY <1>1
  <1> HIDE DEF f
  <1>4. g = f \/ g \in UpdatedSessions(f)
    <2>1. UpdateSessions(f, {}, {}) \in UpdatedSessions(f)
      BY DEF UpdatedSessions
    <2> QED BY <2>1 DEF MaybeUpdateConfig, f
  <1>5. Live' = Live /\ \A i \in Live : KeepsTimes(f[i], g[i])
    <2>1. CASE g = f
      BY <1>2, <2>1 DEF KeepsTimes, Live
    <2>2. CASE g \in UpdatedSessions(f)
      <3>1. PICK replaced \in SUBSET {"keymap", "table"}, composing \in SUBSET Used(f) :
               g = UpdateSessions(f, replaced, composing)
        BY <2>2 DEF UpdatedSessions
      <3>2. DOMAIN g = Live
        BY <1>2, <3>1 DEF UpdateSessions
      <3>3. \A i \in Live : KeepsTimes(f[i], g[i])
        BY <1>2, <2>2, UpdatedSessionsKeepTimes
      <3> QED BY <3>2, <3>3 DEF Live
    <2> QED BY <1>4, <2>1, <2>2
  <1>6. /\ now' = now
        /\ newer' = PushLRUHead(newer, Live, id)
    BY DEF LookupSession
  <1> HIDE DEF g
  <1>7. \A i \in Live : /\ f[i].create_time \in Int /\ f[i].create_time <= now
                        /\ f[i].accessed \in Int /\ f[i].accessed <= now
                        /\ Aged(f[i])
    <2>1. \A i \in Live : /\ session[i].create_time <= now
                          /\ session[i].accessed <= now
                          /\ Aged(session[i])
      BY DEF TInv, TimesOK
    <2>2. \A x \in Session : x.create_time \in Int /\ x.accessed \in Int
      BY DEF Session
    <2> QED BY <1>1, <1>2, <1>3, <2>1, <2>2
  <1>8. \A i \in Live : /\ g[i].create_time = f[i].create_time
                        /\ g[i].accessed = f[i].accessed
                        /\ Aged(g[i])
    BY <1>5, <1>7 DEF KeepsTimes
  <1>9. TimesOK'
    <2>1. \A i \in Live : g[i].create_time <= now /\ g[i].accessed <= now /\ Aged(g[i])
      BY <1>7, <1>8
    <2> QED BY <1>5, <1>6, <2>1 DEF TimesOK, g, Aged, Since
  <1>10. AccessOrderOK'
    <2>1. \A i \in Live : g[i].accessed \in Int /\ g[i].accessed <= now
      BY <1>7, <1>8
    <2>2. g[id].accessed = now
      BY <1>1, <1>3, <1>8
    <2>3. \A i, j \in Live \ {id} : <<i, j>> \in newer => g[j].accessed <= g[i].accessed
      BY <1>3, <1>8 DEF TInv, AccessOrderOK
    <2>4. \A i, j \in Live : <<i, j>> \in PushLRUHead(newer, Live, id) =>
             g[j].accessed <= g[i].accessed
      BY <1>1, <2>1, <2>2, <2>3, PushAccessOrder
    <2> QED BY <1>5, <1>6, <2>4 DEF AccessOrderOK, g
  <1> QED BY <1>9, <1>10 DEF TInv

\* SEND_KEY.
LEMMA SendKeyTInv ==
  ASSUME IInv, TInv, NEW id \in SessionID, SendKey(id)
  PROVE  TInv'
  <1> DEFINE t == UpdateTime(session[id])
             after == { t, ClearUndoContext(t), PushUndoContext(t),
                        PushUndoContext(ClearUndoContext(t)) }
  <1>1. LookupSession(id) /\ id \in Live /\ now \in Int
    BY DEF SendKey, LookupSession, IInv, ScalarsOK
  <1>2. GoodSession(session[id]) /\ session[id] \in Session
    BY <1>1 DEF IInv, SessionsOK, GoodSession
  <1>3. GoodSession(t) /\ t \in Session
    BY <1>1, <1>2, UpdateTimeGood DEF GoodSession
  <1>4. t.create_time = session[id].create_time /\ t.accessed = now /\ Aged(t)
    BY <1>1, <1>2, UpdateTimeProperties DEF TInv, TimesOK
  <1>5. PICK s \in AfterKey(t) :
           session' \in MaybeUpdateConfig([ session EXCEPT ![id] = s ])
    BY DEF SendKey
  <1> HIDE DEF t
  <1>6. \A a \in after : GoodSession(a) /\ a \in Session /\ KeepsTimes(t, a)
    <2>1. KeepsTimes(t, t)
      BY DEF KeepsTimes
    <2>2. GoodSession(ClearUndoContext(t)) /\ KeepsTimes(t, ClearUndoContext(t))
      BY <1>3, ClearGood, ClearKeepsTimes
    <2>3. GoodSession(PushUndoContext(t)) /\ KeepsTimes(t, PushUndoContext(t))
      BY <1>3, PushGood, PushKeepsTimes
    <2>4. ClearUndoContext(t) \in Session
      BY <2>2 DEF GoodSession
    <2>5. /\ GoodSession(PushUndoContext(ClearUndoContext(t)))
          /\ KeepsTimes(t, PushUndoContext(ClearUndoContext(t)))
      BY <2>2, <2>4, PushGood, PushKeepsTimes, KeepsTimesTwice
    <2> QED BY <1>3, <2>1, <2>2, <2>3, <2>5 DEF GoodSession
  <1>7. s \in after \/ \E a \in after : s = EndComposition(a)
    BY <1>5 DEF AfterKey
  <1> HIDE DEF after
  <1>8. s \in Session /\ KeepsTimes(t, s)
    <2>1. CASE s \in after
      BY <1>6, <2>1
    <2>2. CASE \E a \in after : s = EndComposition(a)
      <3>1. PICK a \in after : s = EndComposition(a)
        BY <2>2
      <3>2. s \in Session
        BY <1>6, <3>1, EndCompositionGood DEF GoodSession
      <3>3. KeepsTimes(a, s)
        BY <1>6, <3>1, PointKeepsTimes DEF EndComposition
      <3> QED BY <1>6, <3>2, <3>3, KeepsTimesTwice
    <2> QED BY <1>7, <2>1, <2>2
  <1>9. s.create_time = session[id].create_time /\ s.accessed = now /\ Aged(s)
    BY <1>4, <1>8 DEF KeepsTimes
  <1> QED BY <1>1, <1>5, <1>8, <1>9, CommandTInv

\* TEST_SEND_KEY.
LEMMA TestSendKeyTInv ==
  ASSUME IInv, TInv, NEW id \in SessionID, TestSendKey(id)
  PROVE  TInv'
  <1> DEFINE t == UpdateTime(session[id])
  <1>1. LookupSession(id) /\ id \in Live /\ now \in Int
    BY DEF TestSendKey, LookupSession, IInv, ScalarsOK
  <1>2. GoodSession(session[id]) /\ session[id] \in Session
    BY <1>1 DEF IInv, SessionsOK, GoodSession
  <1>3. GoodSession(t) /\ t \in Session
    BY <1>1, <1>2, UpdateTimeGood DEF GoodSession
  <1>4. t.create_time = session[id].create_time /\ t.accessed = now /\ Aged(t)
    BY <1>1, <1>2, UpdateTimeProperties DEF TInv, TimesOK
  <1>5. PICK s \in { t, ClearUndoContext(t) } : session' = [ session EXCEPT ![id] = s ]
    BY DEF TestSendKey
  <1> HIDE DEF t
  <1>6. s \in Session /\ KeepsTimes(t, s)
    BY <1>3, <1>5, ClearProperties, ClearKeepsTimes DEF KeepsTimes
  <1>7. s.create_time = session[id].create_time /\ s.accessed = now /\ Aged(s)
    BY <1>4, <1>6 DEF KeepsTimes
  <1>8. session' \in MaybeUpdateConfig([ session EXCEPT ![id] = s ])
    BY <1>5 DEF MaybeUpdateConfig
  <1> QED BY <1>1, <1>6, <1>7, <1>8, CommandTInv

\* SEND_COMMAND with UNDO.
LEMMA SendUndoTInv ==
  ASSUME IInv, TInv, NEW id \in SessionID, SendUndo(id)
  PROVE  TInv'
  <1> DEFINE t == UpdateTime(session[id])
             s == PopUndoContext(t)
  <1>1. LookupSession(id) /\ id \in Live /\ now \in Int
    BY DEF SendUndo, LookupSession, IInv, ScalarsOK
  <1>2. GoodSession(session[id]) /\ session[id] \in Session
    BY <1>1 DEF IInv, SessionsOK, GoodSession
  <1>3. GoodSession(t) /\ t \in Session
    BY <1>1, <1>2, UpdateTimeGood DEF GoodSession
  <1>4. t.create_time = session[id].create_time /\ t.accessed = now /\ Aged(t)
    BY <1>1, <1>2, UpdateTimeProperties DEF TInv, TimesOK
  <1>5. session' \in MaybeUpdateConfig([ session EXCEPT ![id] = s ])
    BY DEF SendUndo, MaybeUpdateConfig
  <1> HIDE DEF t
  <1>6. s \in Session /\ KeepsTimes(t, s)
    BY <1>3, PopGood, PopKeepsTimes DEF GoodSession
  <1> HIDE DEF s
  <1>7. s.create_time = session[id].create_time /\ s.accessed = now /\ Aged(s)
    BY <1>4, <1>6 DEF KeepsTimes
  <1> QED BY <1>1, <1>5, <1>6, <1>7, CommandTInv

\* CreateSession: the new session was accessed last, and the others keep
\* their times and their order.
LEMMA CreateTInv ==
  ASSUME IInv, TInv, NEW app \in App, CreateSession(app)
  PROVE  TInv'
  <1>0. PICK evicted \in SessionsToEvict :
           \E freed \in MaybeReloadEngine(Live \ evicted) :
              InsertSession(app, evicted, freed)
    BY DEF CreateSession
  <1>1. PICK freed \in MaybeReloadEngine(Live \ evicted) :
           InsertSession(app, evicted, freed)
    BY <1>0
  <1> DEFINE kept == Live \ evicted
  <1>2. PICK id \in SessionID \ kept :
          LET keys == kept \cup {id}
              inserted == [ i \in keys |-> IF i = id THEN NewSession(app)
                                           ELSE FreeFor(session[i], freed) ]
          IN  /\ session' \in UpdatedSessions(inserted)
              /\ newer' = PushLRUHead(RemoveFromLRU(newer, evicted), keys, id)
    BY <1>1 DEF InsertSession
  <1> DEFINE keys == kept \cup {id}
             f == [ i \in keys |-> IF i = id THEN NewSession(app)
                                   ELSE FreeFor(session[i], freed) ]
             r == RemoveFromLRU(newer, evicted)
             g == session'
  <1>3. g \in UpdatedSessions(f) /\ newer' = PushLRUHead(r, keys, id)
    BY <1>2
  <1>4. now' = now /\ now \in Int
    BY <1>1 DEF InsertSession, IInv, ScalarsOK
  <1>5. freed \in SUBSET Object
    BY <1>1 DEF MaybeReloadEngine, Object
  <1>6. /\ f[id] \in Session /\ f[id].create_time = now /\ f[id].accessed = now
        /\ Aged(f[id])
    <2> DEFINE n == NewSession(app)
               past == [ last_command_time |-> InfinitePast, dangling |-> {} ]
               empty == << >>
    <2>1. f[id] = n /\ n \in Session
      BY <1>4, NewSessionGood DEF GoodSession
    <2>2. n = [ app |-> app, create_time |-> now, accessed |-> now,
                context |-> past, undo_contexts |-> empty ]
      BY DEF NewSession
    <2>3. past.last_command_time = InfinitePast /\ Len(empty) = 0
      OBVIOUS
    <2> HIDE DEF n, past, empty
    <2>4. /\ n.create_time = now /\ n.accessed = now
          /\ n.context = past /\ n.undo_contexts = empty
      BY <2>2
    <2>5. Aged(n)
      BY <2>3, <2>4 DEF Aged, Since
    <2> QED BY <2>1, <2>4, <2>5
  <1>7. \A i \in keys \ {id} : /\ i \in Live /\ i \notin evicted
                              /\ f[i] \in Session
                              /\ KeepsTimes(session[i], f[i])
    <2> SUFFICES ASSUME NEW i \in keys \ {id}
                 PROVE  /\ i \in Live /\ i \notin evicted
                        /\ f[i] \in Session
                        /\ KeepsTimes(session[i], f[i])
      OBVIOUS
    <2>1. i \in Live /\ i \notin evicted /\ f[i] = FreeFor(session[i], freed)
      OBVIOUS
    <2>2. session[i] \in Session
      BY <2>1 DEF IInv, SessionsOK
    <2> QED BY <1>5, <2>1, <2>2, FreeForProperties, FreeForKeepsTimes
  <1>8. f \in [ keys -> Session ]
    BY <1>6, <1>7
  <1>9. id \in keys
    OBVIOUS
  <1> HIDE DEF f
  <1>10. Live' = keys
    <2>1. PICK replaced \in SUBSET {"keymap", "table"}, composing \in SUBSET Used(f) :
             g = UpdateSessions(f, replaced, composing)
      BY <1>3 DEF UpdatedSessions
    <2> QED BY <1>8, <2>1 DEF UpdateSessions, Live
  <1>11. \A i \in keys : KeepsTimes(f[i], g[i])
    BY <1>3, <1>8, UpdatedSessionsKeepTimes
  <1> HIDE DEF g, keys, r
  <1>12. \A i \in keys : /\ f[i].create_time \in Int /\ f[i].create_time <= now
                         /\ f[i].accessed \in Int /\ f[i].accessed <= now
                         /\ Aged(f[i])
    <2>1. \A i \in Live : /\ session[i].create_time <= now
                          /\ session[i].accessed <= now
                          /\ Aged(session[i])
      BY DEF TInv, TimesOK
    <2>2. \A x \in Session : x.create_time \in Int /\ x.accessed \in Int
      BY DEF Session
    <2>3. \A i \in keys \ {id} : f[i].create_time <= now /\ f[i].accessed <= now /\ Aged(f[i])
      BY <1>7, <2>1 DEF KeepsTimes
    <2> QED BY <1>4, <1>6, <1>8, <2>2, <2>3
  <1>13. \A i \in keys : /\ g[i].create_time = f[i].create_time
                         /\ g[i].accessed = f[i].accessed
                         /\ Aged(g[i])
    BY <1>11, <1>12 DEF KeepsTimes
  <1>14. TimesOK'
    <2>1. \A i \in keys : g[i].create_time <= now /\ g[i].accessed <= now /\ Aged(g[i])
      BY <1>12, <1>13
    <2> QED BY <1>4, <1>10, <2>1 DEF TimesOK, g, Aged, Since
  <1>15. AccessOrderOK'
    <2>1. \A i \in keys : g[i].accessed \in Int /\ g[i].accessed <= now
      BY <1>12, <1>13
    <2>2. g[id].accessed = now
      BY <1>6, <1>9, <1>13
    <2>3. \A i, j \in keys \ {id} : <<i, j>> \in r => g[j].accessed <= g[i].accessed
      <3> SUFFICES ASSUME NEW i \in keys \ {id}, NEW j \in keys \ {id}, <<i, j>> \in r
                   PROVE  g[j].accessed <= g[i].accessed
        OBVIOUS
      <3>1. <<i, j>> \in newer
        BY DEF r, RemoveFromLRU
      <3>2. session[j].accessed <= session[i].accessed
        BY <1>7, <3>1 DEF TInv, AccessOrderOK
      <3> QED BY <1>7, <1>13, <3>2 DEF KeepsTimes
    <2>4. \A i, j \in keys : <<i, j>> \in PushLRUHead(r, keys, id) =>
             g[j].accessed <= g[i].accessed
      BY <1>4, <1>9, <2>1, <2>2, <2>3, PushAccessOrder
    <2> QED BY <1>3, <1>10, <2>4 DEF AccessOrderOK, g
  <1> QED BY <1>14, <1>15 DEF TInv

\* The commands that reload the Config or the Request.
LEMMA ReloadTInv ==
  ASSUME IInv, TInv, Reload
  PROVE  TInv'
  <1> DEFINE g == session'
  <1>1. session \in [ Live -> Session ] /\ g \in UpdatedSessions(session)
    BY DEF IInv, SessionsOK, Reload
  <1>2. Live' = Live
    <2>1. PICK replaced \in SUBSET {"keymap", "table"}, composing \in SUBSET Used(session) :
             g = UpdateSessions(session, replaced, composing)
      BY <1>1 DEF UpdatedSessions
    <2> QED BY <1>1, <2>1 DEF UpdateSessions, Live
  <1>3. \A i \in Live : KeepsTimes(session[i], g[i])
    BY <1>1, UpdatedSessionsKeepTimes
  <1>4. now' = now /\ newer' = newer
    BY DEF Reload
  <1> HIDE DEF g
  <1>5. \A i \in Live : g[i].create_time <= now /\ g[i].accessed <= now /\ Aged(g[i])
    BY <1>3 DEF TInv, TimesOK, KeepsTimes
  <1>6. \A i, j \in Live : <<i, j>> \in newer => g[j].accessed <= g[i].accessed
    BY <1>3 DEF TInv, AccessOrderOK, KeepsTimes
  <1>7. TimesOK'
    BY <1>2, <1>4, <1>5 DEF TimesOK, g, Aged, Since
  <1>8. AccessOrderOK'
    BY <1>2, <1>4, <1>6 DEF AccessOrderOK, g
  <1> QED BY <1>7, <1>8 DEF TInv

\* DeleteSessionID, whichever command calls it and however often.
LEMMA DeleteTInv ==
  ASSUME TInv, NEW R \in SUBSET Live, DeleteSessionIDs(R), now' = now
  PROVE  TInv'
  <1>1. Live' = Live \ R
    BY DEF DeleteSessionIDs, Live
  <1>2. \A i \in Live' : i \in Live /\ session'[i] = session[i]
    BY <1>1 DEF DeleteSessionIDs
  <1>3. newer' \subseteq newer
    BY DEF DeleteSessionIDs, RemoveFromLRU
  <1>4. TimesOK'
    BY <1>2 DEF TInv, TimesOK, Aged, Since
  <1>5. AccessOrderOK'
    BY <1>2, <1>3 DEF TInv, AccessOrderOK
  <1> QED BY <1>4, <1>5 DEF TInv

\* A step that touches neither the map nor its order, and no clock back.
LEMMA FrameTInv ==
  ASSUME IInv, TInv, UNCHANGED << session, newer >>, now' \in Int, now' >= now
  PROVE  TInv'
  <1>1. Live' = Live
    BY DEF Live
  <1>2. \A i \in Live : session[i].create_time \in Int /\ session[i].accessed \in Int
    BY DEF IInv, SessionsOK, Session
  <1>3. now \in Int
    BY DEF IInv, ScalarsOK
  <1>4. TimesOK'
    <2>1. \A i \in Live : /\ session[i].create_time <= now'
                          /\ session[i].accessed <= now'
                          /\ Aged(session[i])
      BY <1>2, <1>3 DEF TInv, TimesOK
    <2> QED BY <1>1, <2>1 DEF TimesOK, Aged, Since
  <1>5. AccessOrderOK'
    BY <1>1 DEF TInv, AccessOrderOK
  <1> QED BY <1>4, <1>5 DEF TInv

\* Every step keeps the order and the times, if the clock moves forward only.
LEMMA NextTInv ==
  ASSUME ClockSteps \subseteq Nat, IInv, TInv, [Next]_vars
  PROVE  TInv'
  <1>0. now \in Int
    BY DEF IInv, ScalarsOK
  <1>1. ASSUME NEW app \in App, CreateSession(app)
        PROVE  TInv'
    BY <1>1, CreateTInv
  <1>2. ASSUME NEW app \in App, AppExit(app)
        PROVE  TInv'
    BY <1>0, <1>2, FrameTInv DEF AppExit
  <1>3. ASSUME NEW id \in SessionID, DeleteSession(id)
        PROVE  TInv'
    <2>1. {id} \in SUBSET Live /\ DeleteSessionIDs({id}) /\ now' = now
      BY <1>3 DEF DeleteSession
    <2> QED BY <2>1, DeleteTInv
  <1>4. ASSUME NEW id \in SessionID, SendCommand(id)
        PROVE  TInv'
    BY <1>4, SendKeyTInv, SendUndoTInv DEF SendCommand
  <1>5. ASSUME NEW id \in SessionID, TestSendKey(id)
        PROVE  TInv'
    BY <1>5, TestSendKeyTInv
  <1>6. CASE Reload
    BY <1>6, ReloadTInv
  <1>7. CASE Shutdown
    BY <1>0, <1>7, FrameTInv DEF Shutdown
  <1>8. CASE Cleanup
    <2> DEFINE R == { i \in Live : Expired(session[i]) }
    <2>1. R \in SUBSET Live /\ DeleteSessionIDs(R) /\ now' = now
      BY <1>8 DEF Cleanup
    <2> HIDE DEF R
    <2> QED BY <2>1, DeleteTInv
  <1>9. CASE EvalOther
    BY <1>0, <1>9, FrameTInv DEF EvalOther, vars
  <1>10. CASE Tick
    <2>1. PICK d \in ClockSteps : now' = now + d /\ UNCHANGED << session, newer >>
      BY <1>10 DEF Tick
    <2>2. d \in Nat
      BY <2>1
    <2>3. now' \in Int /\ now' >= now
      BY <1>0, <2>1, <2>2
    <2> QED BY <2>1, <2>3, FrameTInv
  <1>11. CASE UNCHANGED vars
    BY <1>0, <1>11, FrameTInv DEF vars
  <1> QED
    BY <1>1, <1>2, <1>3, <1>4, <1>5, <1>6, <1>7, <1>8, <1>9, <1>10, <1>11 DEF Next

\* A server starts without sessions.
LEMMA InitTInv == Init => TInv
  <1> SUFFICES ASSUME Init PROVE TInv
    OBVIOUS
  <1>1. Live = {}
    BY DEF Init, Live
  <1> QED BY <1>1 DEF TInv, TimesOK, AccessOrderOK

\* The order and the times hold throughout every behaviour whose clock moves
\* forward only.
LEMMA TInvHolds ==
  ASSUME ClockSteps \subseteq Nat
  PROVE  Spec => []TInv
  <1>1. IInv /\ TInv /\ [Next]_vars => TInv'
    BY NextTInv
  <1> QED BY <1>1, InitTInv, IInvHolds, PTL DEF Spec

(***************************************************************************)
(* For every clock that is not set back, CreateSession on a full map       *)
(* evicts the session that went longest without a command, and never the   *)
(* only one.                                                               *)
(***************************************************************************)
THEOREM LeastRecentlyUsedEvicted ==
  ASSUME ClockSteps \subseteq Nat
  PROVE  Spec => EvictsLeastRecentlyUsed
  <1> DEFINE Step == \A app \in App : CreateSession(app) =>
                       \A i \in Live \ DOMAIN session' :
                          /\ Live # {i}
                          /\ \A j \in Live : session[j].accessed >= session[i].accessed
  <1>1. ASSUME IInv, TInv PROVE Step
    <2> SUFFICES ASSUME NEW app \in App, CreateSession(app),
                        NEW i \in Live \ DOMAIN session'
                 PROVE  /\ Live # {i}
                        /\ \A j \in Live : session[j].accessed >= session[i].accessed
      OBVIOUS
    <2>1. PICK evicted \in SessionsToEvict :
             \E freed \in MaybeReloadEngine(Live \ evicted) :
                InsertSession(app, evicted, freed)
      BY DEF CreateSession
    <2>2. i \in evicted
      <3>1. PICK freed \in MaybeReloadEngine(Live \ evicted) :
               InsertSession(app, evicted, freed)
        BY <2>1
      <3>2. PICK id \in SessionID \ (Live \ evicted) :
               session' \in UpdatedSessions(
                  [ x \in (Live \ evicted) \cup {id} |->
                      IF x = id THEN NewSession(app) ELSE FreeFor(session[x], freed) ])
        BY <3>1 DEF InsertSession
      <3> DEFINE keys == (Live \ evicted) \cup {id}
                 f == [ x \in keys |-> IF x = id THEN NewSession(app)
                                       ELSE FreeFor(session[x], freed) ]
      <3>3. DOMAIN f = keys
        OBVIOUS
      <3>4. session' \in UpdatedSessions(f)
        BY <3>2
      <3> HIDE DEF f
      <3>5. PICK replaced \in SUBSET {"keymap", "table"}, composing \in SUBSET Used(f) :
               session' = UpdateSessions(f, replaced, composing)
        BY <3>4 DEF UpdatedSessions
      <3>6. DOMAIN session' = keys
        BY <3>3, <3>5 DEF UpdateSessions
      <3> QED BY <3>6
    <2>3. /\ Cardinality(Live) >= max_session_size
          /\ IsLRUTail(newer, Live, i)
      BY <2>1, <2>2 DEF SessionsToEvict
    <2>4. Live # {i}
      <3>1. Cardinality({i}) = 1
        BY FS_Singleton
      <3> QED BY <2>3, <3>1, MaxSessionSize
    <2>5. \A j \in Live : session[j].accessed \in Int
      BY <1>1 DEF IInv, SessionsOK, Session
    <2>6. ASSUME NEW j \in Live PROVE session[j].accessed >= session[i].accessed
      <3>1. CASE j = i
        BY <2>5, <3>1
      <3>2. CASE j # i
        <4>1. <<j, i>> \in newer
          BY <2>3, <3>2 DEF IsLRUTail
        <4>2. session[i].accessed <= session[j].accessed
          BY <1>1, <4>1 DEF TInv, AccessOrderOK
        <4> QED BY <2>5, <4>2
      <3> QED BY <3>1, <3>2
    <2> QED BY <2>4, <2>6
  <1>2. Spec => []TInv
    BY TInvHolds
  <1>3. IInv /\ TInv => [Step]_vars
    BY <1>1
  <1> HIDE DEF Step
  <1>4. Spec => [][Step]_vars
    BY <1>2, <1>3, IInvHolds, PTL
  <1> QED BY <1>4 DEF EvictsLeastRecentlyUsed, Step

(***************************************************************************)
(* For every clock that is not set back, a clean-up keeps the session of a *)
(* running application that is younger than both time-outs, whatever its   *)
(* last command was and whichever of its contexts UNDO brought back.       *)
(***************************************************************************)
THEOREM YoungSessionSurvives ==
  ASSUME ClockSteps \subseteq Nat
  PROVE  Spec => YoungSessionKept
  <1> DEFINE Step == Cleanup =>
                       \A i \in Live :
                          /\ IsApplicationAlive(session[i])
                          /\ now - session[i].create_time < create_session_timeout
                          /\ now - session[i].create_time < last_command_timeout
                          => i \in DOMAIN session'
  <1>1. ASSUME IInv, TInv PROVE Step
    <2> SUFFICES ASSUME Cleanup, NEW i \in Live,
                        IsApplicationAlive(session[i]),
                        now - session[i].create_time < create_session_timeout,
                        now - session[i].create_time < last_command_timeout
                 PROVE  i \in DOMAIN session'
      OBVIOUS
    <2>1. /\ create_session_timeout \in Int
          /\ last_command_timeout \in Int
          /\ watch_dog_interval \in Int /\ watch_dog_interval >= 1
      BY FlagAssumption DEF create_session_timeout, last_command_timeout,
                            watch_dog_interval, Clamp
    <2>2. /\ now \in Int /\ last_cleanup_time \in Time
          /\ session[i].create_time \in Int
          /\ session[i].context \in ImeContext
      BY <1>1 DEF IInv, SessionsOK, ScalarsOK, Session
    <2>3. suspend_time \in Int /\ suspend_time >= 0
      BY <2>1, <2>2 DEF suspend_time, Time
    <2>4. Since(session[i].create_time, session[i].context)
      BY <1>1 DEF TInv, TimesOK, Aged
    <2>5. session[i].context.last_command_time \in Time
      BY <2>2 DEF ImeContext
    <2>6. ~Expired(session[i])
      BY <2>1, <2>2, <2>3, <2>4, <2>5 DEF Expired, Since, Time
    <2> QED BY <2>6 DEF Cleanup, DeleteSessionIDs
  <1>2. Spec => []TInv
    BY TInvHolds
  <1>3. IInv /\ TInv => [Step]_vars
    BY <1>1
  <1> HIDE DEF Step
  <1>4. Spec => [][Step]_vars
    BY <1>2, <1>3, IInvHolds, PTL
  <1> QED BY <1>4 DEF YoungSessionKept, Step
=============================================================================
