---------------------------- MODULE ClientProofs ----------------------------
(***************************************************************************)
(* What the client library guarantees an application, for every size of    *)
(* the record of inputs, every version of the server and any number of     *)
(* crashes, lost replies and failed launches.                              *)
(*                                                                         *)
(* The inductive invariant has six clauses.  TypeOK, OperationInv and      *)
(* SessionInv are about control: which input is on its way, and that a     *)
(* session that is about to be made holds nothing.  OrderInv and CommitInv *)
(* are about the numbers of the inputs in the record, in the session and   *)
(* in the results; RefusedInv about those of the operations that failed.   *)
(***************************************************************************)
EXTENDS Client, TLAPS

\* The values of server_status_.
Statuses == Refusing \cup {"UNKNOWN", "OK", "INVALID_SESSION", "SHUTDOWN"}

\* Where an operation of the client can be.
Points == {"idle", "ensure", "create", "request", "call", "playback", "retry",
           "check", "shutdown", "terminate", "restart", "display"}

\* An input that PushHistory may record.
Recorded == [n : Nat, kind : Kinds]

\* Types of the variables.
TypeOK ==
  /\ status \in Statuses
  /\ known \in AllVersions
  /\ history \in Seq(Recorded)
  /\ pc \in Points
  /\ input \in [n : Nat, kind : Kinds \cup {"check"}]
  /\ second \in BOOLEAN
  /\ trial \in Nat
  /\ pos \in Nat \ {0}
  /\ up \in BOOLEAN
  /\ version \in AllVersions
  /\ held \in BOOLEAN
  /\ session \in Seq(Nat)
  /\ faults \in Nat
  /\ committed \in Seq(Nat)
  /\ refused \in SUBSET Nat
  /\ cut \in BOOLEAN

\* Where an operation with a numbered input is.
AtInput == {"ensure", "create", "request", "call", "playback", "retry"}
Running == pc # "idle" /\ input.kind # "check"

\* The operation and its input.
OperationInv ==
  /\ pc \in AtInput => input.kind \in Kinds
  /\ pc = "check" => input.kind = "check"
  /\ pc = "playback" => second
  /\ pc = "call" => ~second
  /\ second /\ pc = "ensure" => status \in {"SHUTDOWN", "INVALID_SESSION"}
  /\ pc \notin {"playback", "retry"} => pos = 1
  /\ pc = "idle" => ~second

\* A session the server does not have holds nothing, and neither has one that
\* is about to be made.
SessionInv ==
  /\ ~up => ~held
  /\ ~held => session = <<>>
  /\ pc \in {"create", "request", "shutdown", "terminate", "restart"}
       => session = <<>>

\* Numbers below that of the running input.
OrderInv ==
  /\ \A i, j \in 1..Len(history) : i < j => history[i].n < history[j].n
  /\ \A i \in 1..Len(history) :
       history[i].n <= input.n /\ (Running => history[i].n < input.n)
  /\ Increasing(session)
  /\ \A k \in 1..Len(session) :
       /\ session[k] <= input.n
       /\ Running /\ ~second => session[k] < input.n
       /\ pc = "retry" => session[k] < input.n
       /\ pc = "playback" => \E i \in 1..Len(history) : i < pos /\ session[k] = history[i].n

\* n is one of the inputs of s.
IsIn(n, s) == \E k \in 1..Len(s) : s[k] = n

\* Inputs that were committed do not come back: in the record, unless it is so
\* long that PlaybackHistory drops it, a submit follows them; and while they
\* are played back that submit is still to come.
CommitInv ==
  \/ cut
  \/ /\ \A i, j \in 1..Len(committed) : committed[i] = committed[j] => i = j
     /\ \A i \in 1..Len(committed) :
          committed[i] <= input.n /\ (Running => committed[i] < input.n)
     /\ \/ TooLong(history)
        \/ \A i \in 1..Len(history) :
             history[i].kind = "char" /\ IsIn(history[i].n, committed)
               => \E j \in 1..Len(history) : i < j /\ history[j].kind = "submit"
     /\ \A k \in 1..Len(session) :
          IsIn(session[k], committed)
            => /\ pc = "playback"
               /\ \E j \in 1..Len(history) : pos <= j /\ history[j].kind = "submit"

\* A playback that has begun is of a record that is not dropped.
PlaybackInv == pc = "playback" /\ pos > 1 => ~TooLong(history)

\* An operation that failed is over, and its input is not in the record.
RefusedInv ==
  /\ \A n \in refused : n <= input.n /\ (Running => n < input.n)
  /\ \A i \in 1..Len(history) : history[i].n \notin refused

\* The inductive invariant.
IInv ==
  /\ TypeOK /\ OperationInv /\ SessionInv /\ OrderInv /\ CommitInv
  /\ PlaybackInv /\ RefusedInv

-----------------------------------------------------------------------------
(* What one IPC call does. *)

\* The results of Call.
Reply == [ok : BOOLEAN, connected : BOOLEAN, status : Statuses,
          known : AllVersions, up : BOOLEAN, held : BOOLEAN,
          session : Seq(Nat), faults : Nat,
          out : [valid : BOOLEAN, consumed : BOOLEAN, result : BOOLEAN]]

\* What the client sends.
Message == [kind : {"create", "shutdown", "delete", "other"}] \cup Recorded

\* What a result r of a call that sends m may have done to the session.
Moved(m, r) ==
  /\ r \in Reply
  /\ r.up => up
  /\ ~r.up => ~r.held
  /\ ~r.held => r.session = <<>>
  /\ \/ r.session = session
     \/ r.session = <<>>
     \/ m \in Recorded /\ m.kind = "char" /\ r.session = Append(session, m.n)

\* What the reply in r tells: a result empties the session and is consumed.
Told(m, r) ==
  /\ m \in Recorded /\ m.kind = "submit" /\ r.ok => r.session = <<>>
  /\ r.out.result => /\ r.ok /\ r.out.consumed /\ r.session = <<>>
                     /\ m \in Recorded => m.kind \in {"enter", "submit"}
  /\ m \in Recorded /\ m.kind = "enter" /\ r.out.consumed => r.out.result

\* What the server does with an input: only a char adds to the composition,
\* and only one that commits it has a result.
LEMMA EffectLemma ==
  ASSUME NEW m \in Recorded, NEW s \in Seq(Nat)
  PROVE  LET e == Effect(m, s) IN
         /\ e.session \in Seq(Nat)
         /\ e.out \in [valid : BOOLEAN, consumed : BOOLEAN, result : BOOLEAN]
         /\ \/ e.session = s
            \/ e.session = <<>>
            \/ m.kind = "char" /\ e.session = Append(s, m.n)
         /\ m.kind = "submit" => e.session = <<>>
         /\ e.out.result => /\ e.session = <<>> /\ e.out.consumed
                            /\ m.kind \in {"enter", "submit"}
         /\ m.kind = "enter" /\ e.out.consumed => e.out.result
<1> DEFINE some == s # <<>>
           Out(c, r) == [valid |-> TRUE, consumed |-> c, result |-> r]
<1>0. some \in BOOLEAN /\ <<>> \in Seq(Nat)
  OBVIOUS
<1>1. CASE m.kind = "char"
  <2>1. Effect(m, s) = [session |-> Append(s, m.n), out |-> Out(TRUE, FALSE)]
    BY <1>1 DEF Effect
  <2> QED BY <1>1, <2>1 DEF Recorded
<1>2. CASE m.kind = "enter"
  <2>1. Effect(m, s) = [session |-> <<>>, out |-> Out(some, some)]
    BY <1>2 DEF Effect
  <2> HIDE DEF some
  <2> QED BY <1>0, <1>2, <2>1
<1>3. CASE m.kind = "submit"
  <2>1. Effect(m, s) = [session |-> <<>>, out |-> Out(TRUE, some)]
    BY <1>3 DEF Effect
  <2> HIDE DEF some
  <2> QED BY <1>0, <1>3, <2>1
<1>4. CASE m.kind = "test"
  <2>1. Effect(m, s) = [session |-> s, out |-> Out(TRUE, FALSE)]
    BY <1>4 DEF Effect
  <2> QED BY <1>4, <2>1
<1> QED BY <1>1, <1>2, <1>3, <1>4 DEF Recorded, Kinds

\* A server that is gone holds no session.
LEMMA LostLemma ==
  ASSUME NEW r \in Reply
  PROVE  /\ Lost(r) \in Reply
         /\ Lost(r) = [r EXCEPT !.up = FALSE, !.held = FALSE, !.session = <<>>]
         /\ Lost(r).up = FALSE /\ Lost(r).held = FALSE /\ Lost(r).session = <<>>
         /\ Lost(r).ok = r.ok /\ Lost(r).out = r.out
<1>1. <<>> \in Seq(Nat)
  OBVIOUS
<1> QED BY <1>1 DEF Lost, Reply

\* What the server does with any message that reaches it.
LEMMA ExecuteLemma ==
  ASSUME NEW m \in Message, NEW b, Moved(m, b), up, b.up, b.ok, b.out = Void,
         b.session = session, NEW r \in Execute(m, b)
  PROVE  Moved(m, r) /\ Told(m, r)
<1>0. b \in Reply
  BY DEF Moved
<1>9. ~b.out.result /\ ~b.out.consumed
  BY DEF Void
<1>1. CASE m.kind = "create"
  <2> DEFINE e == <<>>
             made == [b EXCEPT !.held = TRUE, !.session = e, !.out.valid = TRUE]
             full == [b EXCEPT !.faults = @ + 1]
  <2>0. Execute(m, b) = {made} \cup IF b.faults < MaxFaults THEN {full} ELSE {}
    BY <1>1 DEF Execute, Kinds
  <2>1. r = made \/ r = full
    BY <2>0
  <2>2. e \in Seq(Nat) /\ m \notin Recorded
    BY <1>1 DEF Recorded, Kinds
  <2>3. made.session = <<>> /\ full.session = session
    BY <1>0 DEF Reply
  <2> HIDE DEF e
  <2> DEFINE o == [b.out EXCEPT !.valid = TRUE]
  <2>6. /\ o \in [valid : BOOLEAN, consumed : BOOLEAN, result : BOOLEAN]
        /\ ~o.result
    BY <1>0, <1>9 DEF Reply
  <2>7. made = [b EXCEPT !.held = TRUE, !.session = e, !.out = o]
    BY <1>0 DEF Reply
  <2> HIDE DEF o
  <2>4. made \in Reply /\ made.up /\ made.held /\ ~made.out.result
    BY <1>0, <2>2, <2>6, <2>7 DEF Reply
  <2>5. /\ full \in Reply /\ full.up /\ full.held = b.held
        /\ full.out = b.out
    BY <1>0 DEF Reply
  <2>8. Moved(m, made) /\ Told(m, made)
    BY <2>2, <2>3, <2>4 DEF Moved, Told
  <2>9. Moved(m, full) /\ Told(m, full)
    BY <1>9, <2>2, <2>3, <2>5 DEF Moved, Told
  <2> QED BY <2>1, <2>8, <2>9
<1>2. CASE m.kind = "shutdown"
  <2>1. r = Lost(b) /\ m \notin Recorded
    BY <1>2 DEF Execute, Recorded, Kinds
  <2>2. r \in Reply /\ r.up = FALSE /\ r.held = FALSE /\ r.session = <<>> /\ r.out = b.out
    BY <1>0, <2>1, LostLemma
  <2> QED BY <1>9, <2>1, <2>2 DEF Moved, Told
<1>3. CASE m.kind = "delete"
  <2> DEFINE e == <<>>
             gone == [b EXCEPT !.held = FALSE, !.session = e]
  <2>1. r = gone /\ m \notin Recorded /\ e \in Seq(Nat)
    BY <1>3 DEF Execute, Recorded, Kinds
  <2>2. gone.session = <<>>
    BY <1>0 DEF Reply
  <2> HIDE DEF e
  <2>3. gone \in Reply /\ gone.up = b.up /\ gone.held = FALSE /\ gone.out = b.out
    BY <1>0, <2>1 DEF Reply
  <2> QED BY <2>1, <2>2, <2>3 DEF Moved, Told, Void
<1>4. CASE m.kind = "other"
  <2>1. r = b /\ m \notin Recorded
    BY <1>4 DEF Execute, Recorded, Kinds
  <2> QED BY <1>9, <2>1 DEF Moved, Told
<1>5. CASE m.kind \in Kinds
  <2> DEFINE e == Effect(m, b.session)
             done == [b EXCEPT !.session = e.session, !.out = e.out]
  <2>1. m \in Recorded
    BY <1>5 DEF Message, Kinds
  <2>2. r = IF b.held THEN done ELSE b
    BY <1>5 DEF Execute, Kinds
  <2>3. CASE ~b.held
    BY <2>2, <2>3 DEF Moved, Told, Void
  <2>4. CASE b.held
    <3>1. /\ e.session \in Seq(Nat)
          /\ e.out \in [valid : BOOLEAN, consumed : BOOLEAN, result : BOOLEAN]
          /\ \/ e.session = session
             \/ e.session = <<>>
             \/ m.kind = "char" /\ e.session = Append(session, m.n)
          /\ m.kind = "submit" => e.session = <<>>
          /\ e.out.result => /\ e.session = <<>> /\ e.out.consumed
                            /\ m.kind \in {"enter", "submit"}
          /\ m.kind = "enter" /\ e.out.consumed => e.out.result
      BY <1>0, <2>1, EffectLemma DEF Reply
    <3> HIDE DEF e
    <3>2. /\ done \in Reply /\ done.session = e.session /\ done.out = e.out
          /\ done.up = b.up /\ done.held = b.held /\ done.ok = b.ok
      BY <1>0, <3>1 DEF Reply
    <3> HIDE DEF done
    <3> QED BY <2>1, <2>2, <2>4, <3>1, <3>2 DEF Moved, Told
  <2> QED BY <2>3, <2>4
<1> QED BY <1>1, <1>2, <1>3, <1>4, <1>5 DEF Message, Recorded

\* A call that fails has no result, whether or not the server executed it.
LEMMA FailuresLemma ==
  ASSUME NEW m \in Message, NEW done, NEW b, up,
         \A x \in done \cup {b} : Moved(m, x),
         NEW r \in Failures(done, b)
  PROVE  /\ Moved(m, r) /\ ~r.ok /\ r.out = Void
         /\ r.status \in {"TIMEOUT", "BROKEN_MESSAGE", "SHUTDOWN"}
<1> DEFINE Faulty(x, s) == [x EXCEPT !.ok = FALSE, !.out = Void, !.status = s,
                                     !.faults = b.faults + 1]
           Ends == {"TIMEOUT", "BROKEN_MESSAGE", "SHUTDOWN"}
<1>1. PICK x \in done \cup {b} :
        \/ \E s \in Ends : r = Faulty(x, s)
        \/ r = Faulty(Lost(x), "SHUTDOWN")
  BY DEF Failures
<1>2. Ends \subseteq Statuses /\ b.faults + 1 \in Nat
  BY DEF Moved, Reply, Statuses, Refusing
<1>3. ASSUME NEW y, Moved(m, y), NEW s \in Ends
      PROVE  /\ Moved(m, Faulty(y, s)) /\ ~Faulty(y, s).ok
             /\ Faulty(y, s).out = Void /\ Faulty(y, s).status = s
  <2>1. y \in Reply
    BY <1>3 DEF Moved
  <2>2. Void \in [valid : BOOLEAN, consumed : BOOLEAN, result : BOOLEAN]
    BY DEF Void
  <2> DEFINE f == Faulty(y, s)
  <2>3. /\ f \in Reply /\ f.ok = FALSE /\ f.out = Void /\ f.status = s
        /\ f.up = y.up /\ f.held = y.held /\ f.session = y.session
    BY <1>2, <2>1, <2>2 DEF Reply
  <2> HIDE DEF f
  <2>4. Moved(m, f)
    BY <1>3, <2>3 DEF Moved
  <2> QED BY <2>3, <2>4 DEF f
<1>4. Moved(m, Lost(x))
  BY LostLemma DEF Moved
<1> HIDE DEF Faulty
<1> QED BY <1>1, <1>3, <1>4

\* What any result of Client::Call may have done.
LEMMA CallLemma ==
  ASSUME TypeOK, SessionInv, NEW m \in Message, NEW r \in Call(m)
  PROVE  Moved(m, r) /\ Told(m, r)
<1> DEFINE fresh == [Unmoved EXCEPT !.known = "same"]
           unconnected == [fresh EXCEPT
                             !.status = IF @ = "UNKNOWN" THEN @ ELSE "SHUTDOWN"]
           connected == [fresh EXCEPT !.connected = TRUE, !.known = version]
           asked == [connected EXCEPT !.ok = TRUE]
           done == Execute(m, asked)
           refused1 == [unconnected EXCEPT !.faults = @ + 1]
<1>1. \/ r \in {Unmoved, unconnected, refused1}
      \/ up /\ r \in {connected} \cup done \cup Failures(done, connected)
  BY DEF Call
<1> DEFINE Still(x) == /\ x \in Reply /\ x.up = up /\ x.held = held
                       /\ x.session = session /\ x.out = Void
<1>2. Still(Unmoved) /\ ~Unmoved.ok
  BY DEF Unmoved, Reply, TypeOK, Void
<1>3. Still(fresh) /\ ~fresh.ok
  <2> HIDE DEF fresh
  <2>1. fresh = [Unmoved EXCEPT !.known = "same"]
    BY DEF fresh
  <2> QED BY <1>2, <2>1 DEF Reply, AllVersions
<1>4. Still(unconnected) /\ ~unconnected.ok
  BY <1>3 DEF Reply, Statuses
<1>5. Still(refused1) /\ ~refused1.ok
  <2> HIDE DEF unconnected
  <2>1. refused1 = [unconnected EXCEPT !.faults = unconnected.faults + 1]
    OBVIOUS
  <2> QED BY <1>4, <2>1 DEF Reply
<1>6. Still(connected) /\ ~connected.ok
  BY <1>3 DEF Reply, TypeOK
<1>7. Still(asked) /\ asked.ok
  BY <1>6 DEF Reply
<1> HIDE DEF fresh, unconnected, connected, asked, refused1, done
<1>8. ASSUME NEW x, Still(x)
      PROVE  Moved(m, x) /\ (~x.ok => Told(m, x))
  BY <1>8 DEF SessionInv, Moved, Told, Void
<1>9. ASSUME up, NEW x \in done PROVE Moved(m, x) /\ Told(m, x)
  BY <1>7, <1>8, <1>9, ExecuteLemma DEF done
<1>10. ASSUME up, r \in Failures(done, connected) PROVE Moved(m, r) /\ Told(m, r)
  <2>1. \A x \in done \cup {connected} : Moved(m, x)
    BY <1>6, <1>8, <1>9, <1>10
  <2> QED BY <1>10, <2>1, FailuresLemma DEF Told, Void
<1> QED BY <1>1, <1>2, <1>4, <1>5, <1>6, <1>8, <1>9, <1>10

\* EnsureConnection says OK only of a status that was OK before.
LEMMA EnsureConnectionLemma ==
  ASSUME TypeOK, NEW c \in EnsureConnection
  PROVE  /\ c \in [ok : BOOLEAN, status : Statuses, up : BOOLEAN,
                    version : AllVersions, faults : Nat]
         /\ up => c.up
         /\ c.ok => \/ c.status = "OK" /\ status = "OK"
                    \/ c.status = "INVALID_SESSION"
<1> DEFINE r == [ok |-> TRUE, status |-> status, up |-> up, version |-> version,
                 faults |-> faults]
           fatal == [r EXCEPT !.ok = FALSE, !.status = "FATAL"]
           R == [ok : BOOLEAN, status : Statuses, up : BOOLEAN,
                 version : AllVersions, faults : Nat]
           Started(v) == [r EXCEPT !.status = "INVALID_SESSION", !.up = TRUE,
                                   !.version = v]
<1>1. r \in R /\ r.ok /\ r.status = status /\ r.up = up
  BY DEF TypeOK
<1>2. fatal \in R /\ fatal.up = up /\ ~fatal.ok /\ fatal.faults = faults
  BY <1>1 DEF Statuses, Refusing, TypeOK
<1>3. ASSUME NEW v \in AllVersions
      PROVE  Started(v) \in R /\ Started(v).up /\ Started(v).status = "INVALID_SESSION"
  BY <1>1, <1>3 DEF Statuses, TypeOK
<1>4. CASE status \in {"OK", "INVALID_SESSION"}
  <2>1. EnsureConnection = {r}
    BY <1>4 DEF EnsureConnection, Refusing
  <2> HIDE DEF r
  <2> QED BY <1>1, <1>4, <2>1
<1>5. CASE status \in Refusing
  <2>1. EnsureConnection = {fatal}
    BY <1>5 DEF EnsureConnection, Refusing
  <2> HIDE DEF fatal, r
  <2> QED BY <1>2, <2>1
<1>6. CASE status \notin {"OK", "INVALID_SESSION"} \cup Refusing
  <2> DEFINE failed == [fatal EXCEPT !.faults = @ + 1]
             V == IF up THEN {version} ELSE Versions
  <2>1. EnsureConnection
          = {Started(v) : v \in V} \cup IF faults < MaxFaults THEN {failed} ELSE {}
    BY <1>6 DEF EnsureConnection
  <2>2. V \subseteq AllVersions
    BY ClientAssumption DEF TypeOK
  <2> HIDE DEF fatal
  <2>3. failed \in R /\ failed.up = up /\ ~failed.ok
    BY <1>2
  <2> HIDE DEF failed, V, Started, R
  <2>4. (\E v \in V : c = Started(v)) \/ c = failed
    BY <2>1
  <2>5. CASE c = failed
    BY <2>3, <2>5 DEF R
  <2>6. CASE \E v \in V : c = Started(v)
    BY <1>3, <2>2, <2>6 DEF R
  <2> QED BY <2>4, <2>5, <2>6
<1> QED BY <1>4, <1>5, <1>6

\* The messages of the operations, and that a running input is one.
LEMMA MessageLemma ==
  /\ \A k \in {"create", "shutdown", "delete", "other"} :
       [kind |-> k] \in Message /\ [kind |-> k] \notin Recorded
  /\ Recorded \subseteq Message
  /\ TypeOK /\ OperationInv /\ pc \in AtInput => input \in Recorded
<1>1. ASSUME NEW k \in {"create", "shutdown", "delete", "other"}
      PROVE  [kind |-> k] \in Message /\ [kind |-> k] \notin Recorded
  <2>1. [kind |-> k].kind \notin Kinds
    BY <1>1 DEF Kinds
  <2> QED BY <1>1, <2>1 DEF Message, Recorded
<1> QED BY <1>1 DEF Message, Recorded, TypeOK, OperationInv

\* The clauses about control.
Control == TypeOK /\ OperationInv /\ SessionInv

\* What is known of the server after a reply.
LEMMA ReceiveLemma ==
  ASSUME TypeOK, NEW m, NEW r, Moved(m, r), Receive(r)
  PROVE  /\ known' \in AllVersions /\ up' \in BOOLEAN /\ held' \in BOOLEAN
         /\ session' \in Seq(Nat) /\ faults' \in Nat /\ version' \in AllVersions
         /\ ~up' => ~held'
         /\ ~held' => session' = <<>>
         /\ r.status \in Statuses
BY DEF Moved, Reply, Receive, TypeOK

\* The session of a server that is too old is forgotten.
LEMMA ForgetLemma ==
  ASSUME NEW m, NEW r, Moved(m, r)
  PROVE  /\ Moved(m, Forget(r)) /\ Forget(r).session = <<>>
         /\ Forget(r).held = FALSE
<1> DEFINE e == <<>>
<1>1. r \in Reply /\ e \in Seq(Nat) /\ Forget(r) = [r EXCEPT !.held = FALSE, !.session = e]
  BY DEF Moved, Forget
<1>2. Forget(r).session = <<>>
  BY <1>1 DEF Reply
<1> HIDE DEF e
<1>3. Forget(r) \in Reply /\ Forget(r).held = FALSE /\ Forget(r).up = r.up
  BY <1>1 DEF Reply
<1> QED BY <1>2, <1>3 DEF Moved

\* The operations that an application starts keep the control invariant.
LEMMA ControlOperation ==
  ASSUME Control, Operation
  PROVE  Control'
<1> USE DEF Control
<1>1. ASSUME NEW kind \in Kinds, SendInput(kind)
      PROVE  Control'
  BY <1>1 DEF SendInput, Idle, TypeOK, OperationInv, SessionInv, loopVars, serverVars,
              userVars, AtInput, Points
<1>2. ASSUME NEW kind \in {"other", "shutdown"}, CallCommand(kind)
      PROVE  Control'
  <2>1. PICK r \in Call([kind |-> kind]) : status' = r.status /\ Receive(r)
    BY <1>2 DEF CallCommand
  <2>2. Moved([kind |-> kind], r)
    BY <2>1, MessageLemma, CallLemma
  <2>3. pc = "idle" /\ UNCHANGED <<history, pc, input, loopVars, userVars>>
    BY <1>2 DEF CallCommand, Idle
  <2> QED BY <2>1, <2>2, <2>3, ReceiveLemma
          DEF TypeOK, OperationInv, SessionInv, loopVars, userVars, AtInput
<1>3. CASE CheckVersionOrRestartServer
  BY <1>3 DEF CheckVersionOrRestartServer, Idle, TypeOK, OperationInv, SessionInv,
              loopVars, serverVars, userVars, AtInput, Points
<1>4. CASE Reset
  BY <1>4 DEF Reset, Idle, TypeOK, OperationInv, SessionInv, loopVars, serverVars,
              userVars, AtInput, Points, Statuses, AllVersions
<1>5. CASE NewClient
  <2>1. PICK r \in IF held THEN Call([kind |-> "delete"]) ELSE {Unmoved} :
          up' = r.up /\ faults' = r.faults
    BY <1>5 DEF NewClient
  <2>2. r.up \in BOOLEAN /\ r.faults \in Nat
    <3>1. CASE held
      <4>1. Moved([kind |-> "delete"], r)
        BY <2>1, <3>1, MessageLemma, CallLemma
      <4> QED BY <4>1 DEF Moved, Reply
    <3>2. CASE ~held
      BY <2>1, <3>2 DEF Unmoved, TypeOK
    <3> QED BY <3>1, <3>2
  <2>3. <<>> \in Seq(Nat) /\ <<>> \in Seq(Recorded)
    OBVIOUS
  <2> QED BY <1>5, <2>1, <2>2, <2>3
          DEF NewClient, Idle, TypeOK, OperationInv, SessionInv, loopVars,
              AtInput, Points, Statuses, AllVersions
<1> QED BY <1>1, <1>2, <1>3, <1>4, <1>5 DEF Operation

\* EnsureSession keeps the control invariant.
LEMMA ControlEnsure ==
  ASSUME Control, EnsureSession
  PROVE  Control'
<1> USE DEF Control
<1>1. PICK c \in EnsureConnection :
       /\ status' = c.status /\ Connect(c)
       /\ \/ /\ ~c.ok /\ Fail
             /\ UNCHANGED <<held, session>>
          \/ /\ c.ok /\ c.status = "OK" /\ pc' = Ready
             /\ UNCHANGED <<held, session, loopVars, refused>>
          \/ /\ c.ok /\ c.status = "INVALID_SESSION"
             /\ held' = FALSE /\ session' = <<>>
             /\ trial' = 0 /\ pc' = "create"
             /\ UNCHANGED <<second, pos, refused>>
  BY DEF EnsureSession
<1>2. /\ pc = "ensure" /\ UNCHANGED <<history, input, committed, cut>>
      /\ input.kind \in Kinds
  BY DEF EnsureSession, OperationInv, AtInput
<1>3. /\ c.ok \in BOOLEAN /\ c.status \in Statuses /\ c.up \in BOOLEAN
      /\ c.version \in AllVersions /\ c.faults \in Nat
      /\ up => c.up
      /\ c.ok /\ c.status = "OK" => status = "OK"
  BY <1>1, EnsureConnectionLemma
<1>4. /\ status' \in Statuses /\ known' \in AllVersions /\ history' \in Seq(Recorded)
      /\ up' \in BOOLEAN /\ version' \in AllVersions /\ faults' \in Nat
      /\ committed' \in Seq(Nat) /\ cut' \in BOOLEAN /\ input' = input /\ (up => up')
  BY <1>1, <1>2, <1>3 DEF Connect, TypeOK
<1>5. CASE ~c.ok /\ Fail /\ UNCHANGED <<held, session>>
  BY <1>2, <1>4, <1>5
     DEF Fail, Return, TypeOK, OperationInv, SessionInv, AtInput, Points
<1>6. CASE c.ok /\ c.status = "OK" /\ pc' = Ready
           /\ UNCHANGED <<held, session, loopVars, refused>>
  BY <1>2, <1>3, <1>4, <1>6
     DEF Ready, TypeOK, OperationInv, SessionInv, AtInput, Points, loopVars
<1>7. CASE /\ c.ok /\ c.status = "INVALID_SESSION"
           /\ held' = FALSE /\ session' = <<>>
           /\ trial' = 0 /\ pc' = "create"
           /\ UNCHANGED <<second, pos, refused>>
  <2>1. <<>> \in Seq(Nat)
    OBVIOUS
  <2> QED BY <1>2, <1>4, <1>7, <2>1
     DEF TypeOK, OperationInv, SessionInv, AtInput, Points
<1> QED BY <1>1, <1>5, <1>6, <1>7

\* A version check that fails ends in a restart, with no session, or an error.
LEMMA CheckFailsLemma ==
  ASSUME Control, NEW m, NEW r, Moved(m, r), CheckFails(r)
  PROVE  /\ status' \in Statuses
         /\ known' \in AllVersions /\ up' \in BOOLEAN /\ held' \in BOOLEAN
         /\ session' \in Seq(Nat) /\ faults' \in Nat /\ version' \in AllVersions
         /\ ~up' => ~held'
         /\ ~held' => session' = <<>>
         /\ pc' \in {"display", "shutdown", "terminate"}
         /\ pc' \in {"shutdown", "terminate"} => session' = <<>>
         /\ session' \in {r.session, <<>>}
<1> USE DEF Control
<1>1. CASE NewerServer(r)
  BY <1>1, ReceiveLemma DEF NewerServer, Statuses, Refusing, Receive
<1>2. CASE OlderServer(r)
  <2>1. Moved(m, Forget(r)) /\ Forget(r).session = <<>> /\ Receive(Forget(r))
    BY <1>2, ForgetLemma DEF OlderServer
  <2>2. status' \in Statuses /\ pc' \in {"display", "shutdown", "terminate"}
    BY <1>2 DEF OlderServer, Statuses, Refusing, Moved, Reply
  <2>3. session' = <<>>
    BY <2>1 DEF Receive
  <2> QED BY <2>1, <2>2, <2>3, ReceiveLemma
<1>3. CASE CallFailed(r)
  BY <1>3, ReceiveLemma DEF CallFailed, Receive
<1> QED BY <1>1, <1>2, <1>3 DEF CheckFails

\* CreateSession keeps the control invariant.
LEMMA ControlCreate ==
  ASSUME Control, CreateSession
  PROVE  Control'
<1> USE DEF Control
<1> DEFINE m == [kind |-> "create"]
<1>1. PICK r \in Call(m) :
       \/ CheckFails(r)
       \/ /\ r.ok /\ ~TooOld(r) /\ Receive(r)
          /\ IF ~r.out.valid
             THEN status' = "INVALID_SESSION" /\ pc' = "display"
             ELSE IF HasRequest
             THEN status' = r.status /\ pc' = "request"
             ELSE status' = "OK" /\ pc' = Ready
  BY DEF CreateSession
<1>2. /\ pc = "create" /\ UNCHANGED <<history, input, loopVars, userVars>>
      /\ session = <<>> /\ input.kind \in Kinds
  BY DEF CreateSession, OperationInv, SessionInv, AtInput
<1>3. Moved(m, r) /\ m \notin Recorded
  BY MessageLemma, CallLemma
<1> HIDE DEF m
<1>4. r.session = <<>>
  BY <1>2, <1>3 DEF Moved
<1>5. CASE CheckFails(r)
  BY <1>2, <1>3, <1>4, <1>5, CheckFailsLemma
     DEF TypeOK, OperationInv, SessionInv, AtInput, Points, loopVars, userVars
<1>6. CASE /\ r.ok /\ ~TooOld(r) /\ Receive(r)
           /\ IF ~r.out.valid
              THEN status' = "INVALID_SESSION" /\ pc' = "display"
              ELSE IF HasRequest
              THEN status' = r.status /\ pc' = "request"
              ELSE status' = "OK" /\ pc' = Ready
  <2>1. /\ known' \in AllVersions /\ up' \in BOOLEAN /\ held' \in BOOLEAN
        /\ session' \in Seq(Nat) /\ faults' \in Nat /\ version' \in AllVersions
        /\ ~up' => ~held'
        /\ session' = <<>>
    BY <1>3, <1>4, <1>6, ReceiveLemma DEF Receive
  <2>2. status' \in Statuses /\ pc' \in {"display", "request", Ready}
    BY <1>3, <1>6 DEF Moved, Reply, Statuses
  <2> QED BY <1>2, <2>1, <2>2
     DEF Ready, TypeOK, OperationInv, SessionInv, AtInput, Points, loopVars, userVars
<1> QED BY <1>1, <1>5, <1>6

\* CheckVersionOrRestartServer keeps the control invariant.
LEMMA ControlCheck ==
  ASSUME Control, CheckVersion
  PROVE  Control'
<1> USE DEF Control
<1> DEFINE m == [kind |-> "other"]
<1>1. PICK r \in Call(m) :
       \/ CheckFails(r) /\ UNCHANGED loopVars
       \/ /\ r.ok /\ ~TooOld(r) /\ Receive(r)
          /\ status' = r.status /\ Return
  BY DEF CheckVersion
<1>2. pc = "check" /\ UNCHANGED <<history, input, userVars>> /\ input.kind = "check"
  BY DEF CheckVersion, OperationInv
<1>3. Moved(m, r)
  BY MessageLemma, CallLemma
<1> HIDE DEF m
<1>4. CASE CheckFails(r) /\ UNCHANGED loopVars
  BY <1>2, <1>3, <1>4, CheckFailsLemma
     DEF TypeOK, OperationInv, SessionInv, AtInput, Points, loopVars, userVars
<1>5. CASE Receive(r) /\ status' = r.status /\ Return
  BY <1>2, <1>3, <1>5, ReceiveLemma
     DEF Return, TypeOK, OperationInv, SessionInv, AtInput, Points, userVars
<1> QED BY <1>1, <1>4, <1>5

\* The steps that replace a server keep the control invariant.
LEMMA ControlRestart ==
  ASSUME Control, ShutdownOld \/ TerminateOld \/ RestartServer
  PROVE  Control'
<1> USE DEF Control
<1>1. CASE ShutdownOld
  <2> DEFINE m == [kind |-> "shutdown"]
  <2>1. PICK r \in Call(m) :
          /\ Receive(r)
          /\ IF r.connected /\ r.up
             THEN status' = r.status /\ pc' = "terminate"
             ELSE status' = "UNKNOWN" /\ pc' = "restart"
    BY <1>1 DEF ShutdownOld
  <2>2. pc = "shutdown" /\ UNCHANGED <<history, input, loopVars, userVars>> /\ session = <<>>
    BY <1>1 DEF ShutdownOld, SessionInv
  <2>3. Moved(m, r) /\ m \notin Recorded
    BY MessageLemma, CallLemma
  <2>4. status' \in Statuses /\ pc' \in {"terminate", "restart"}
    BY <2>1, <2>3 DEF Moved, Reply, Statuses
  <2> HIDE DEF m
  <2>5. session' = <<>>
    BY <2>1, <2>2, <2>3 DEF Moved, Receive
  <2> QED BY <2>1, <2>2, <2>3, <2>4, <2>5, ReceiveLemma
     DEF TypeOK, OperationInv, SessionInv, AtInput, Points, loopVars, userVars
<1>2. CASE TerminateOld
  <2>1. <<>> \in Seq(Nat)
    OBVIOUS
  <2>2. /\ up' \in BOOLEAN /\ held' \in BOOLEAN /\ session' \in Seq(Nat)
        /\ pc' \in Points /\ status' \in Statuses /\ faults' \in Nat
        /\ UNCHANGED <<known, version, history, input, loopVars, userVars>>
    <3>1. CASE up' = FALSE /\ held' = FALSE /\ session' = <<>>
      BY <1>2, <2>1, <3>1 DEF TerminateOld, TypeOK, Points, Statuses, Refusing
    <3>2. CASE UNCHANGED <<up, held, session>>
      BY <1>2, <3>2 DEF TerminateOld, TypeOK, Points, Statuses, Refusing
    <3> QED BY <1>2, <3>1, <3>2 DEF TerminateOld
  <2>5. TypeOK'
    BY <2>2 DEF TypeOK, loopVars, userVars
  <2>3. OperationInv'
    BY <1>2 DEF TerminateOld, OperationInv, AtInput, loopVars
  <2>4. SessionInv'
    BY <1>2 DEF TerminateOld, SessionInv
  <2> QED BY <2>3, <2>4, <2>5
<1>3. CASE RestartServer
  <2>1. PICK c \in EnsureConnection :
          /\ Connect(c)
          /\ IF c.ok
             THEN /\ status' = c.status /\ trial' = NextTrial(trial)
                  /\ pc' = IF input.kind = "check" THEN "check" ELSE "create"
             ELSE status' = "VERSION_MISMATCH" /\ pc' = "display" /\ UNCHANGED trial
    BY <1>3 DEF RestartServer
  <2>2. /\ pc = "restart" /\ session = <<>>
        /\ UNCHANGED <<history, input, second, pos, held, session, userVars>>
    BY <1>3 DEF RestartServer, SessionInv
  <2>3. /\ c.ok \in BOOLEAN /\ c.status \in Statuses /\ c.up \in BOOLEAN
        /\ c.version \in AllVersions /\ c.faults \in Nat
        /\ up => c.up
    BY <2>1, EnsureConnectionLemma
  <2>4. status' \in Statuses /\ trial' \in Nat
    BY <2>1, <2>3 DEF Statuses, Refusing, NextTrial, TypeOK
  <2>5. \/ pc' = "check" /\ input.kind = "check"
        \/ pc' = "create" /\ input.kind \in Kinds
        \/ pc' = "display"
    BY <2>1 DEF TypeOK
  <2>6. up' = c.up /\ version' = c.version /\ faults' = c.faults /\ known' = known
    BY <2>1 DEF Connect
  <2>7. TypeOK'
    BY <2>2, <2>3, <2>4, <2>5, <2>6 DEF TypeOK, Points, userVars
  <2>8. OperationInv'
    BY <2>2, <2>5 DEF OperationInv, AtInput
  <2>9. SessionInv'
    BY <2>2, <2>3, <2>5, <2>6 DEF SessionInv
  <2> QED BY <2>7, <2>8, <2>9
<1> QED BY <1>1, <1>2, <1>3

\* Showing the error and SET_REQUEST keep the control invariant.
LEMMA ControlDisplay ==
  ASSUME Control, DisplayError \/ SetRequest
  PROVE  Control'
<1> USE DEF Control
<1>1. CASE DisplayError
  <2>1. PICK c \in EnsureConnection : status' = c.status /\ Connect(c)
    BY <1>1 DEF DisplayError
  <2>2. /\ c.status \in Statuses /\ c.up \in BOOLEAN
        /\ c.version \in AllVersions /\ c.faults \in Nat
        /\ up => c.up
    BY <2>1, EnsureConnectionLemma
  <2>3. /\ pc' = "idle" /\ second' = FALSE /\ trial' = 0 /\ pos' = 1
        /\ UNCHANGED <<history, input, held, session, committed, cut>>
    BY <1>1 DEF DisplayError, Fail, Return
  <2>4. status' = c.status /\ up' = c.up /\ version' = c.version /\ faults' = c.faults /\ known' = known
    BY <2>1 DEF Connect
  <2>7. refused' \in SUBSET Nat
    BY <1>1 DEF DisplayError, Fail, TypeOK
  <2>10. second' \in BOOLEAN
    BY <2>3
  <2>8. pc' \in Points /\ trial' \in Nat /\ pos' \in Nat \ {0}
    BY <2>3 DEF Points
  <2>9. /\ status' \in Statuses /\ up' \in BOOLEAN /\ version' \in AllVersions
        /\ faults' \in Nat /\ known' \in AllVersions
    BY <2>2, <2>4 DEF TypeOK
  <2>5. TypeOK'
    BY <2>3, <2>7, <2>8, <2>9, <2>10 DEF TypeOK
  <2>6. OperationInv' /\ SessionInv'
    BY <2>2, <2>3, <2>4 DEF OperationInv, SessionInv, AtInput
  <2> QED BY <2>5, <2>6
<1>2. CASE SetRequest
  <2> DEFINE m == [kind |-> "other"]
  <2>1. PICK r \in Call(m) : Receive(r) /\ pc' = Ready
    BY <1>2 DEF SetRequest
  <2>2. /\ pc = "request" /\ session = <<>> /\ status' = "OK" /\ input.kind \in Kinds
        /\ UNCHANGED <<history, input, loopVars, userVars>>
    BY <1>2 DEF SetRequest, SessionInv, OperationInv, AtInput
  <2>3. Moved(m, r) /\ m \notin Recorded
    BY MessageLemma, CallLemma
  <2> HIDE DEF m
  <2>4. session' = <<>>
    BY <2>1, <2>2, <2>3 DEF Moved, Receive
  <2> QED BY <2>1, <2>2, <2>3, <2>4, ReceiveLemma
     DEF Ready, TypeOK, OperationInv, SessionInv, AtInput, Points, loopVars, userVars,
         Statuses
<1> QED BY <1>1, <1>2

\* CallAndCheckVersion changes no more than the status of a call's result.
LEMMA CallAndCheckVersionLemma ==
  ASSUME TypeOK, SessionInv, NEW m \in Message, NEW r \in CallAndCheckVersion(m)
  PROVE  Moved(m, r) /\ Told(m, r)
<1>1. PICK x \in Call(m) :
        r = [x EXCEPT !.status = IF ~x.ok /\ x.known \in OtherProtocol
                                 THEN "VERSION_MISMATCH" ELSE @]
  BY DEF CallAndCheckVersion
<1> DEFINE st == IF ~x.ok /\ x.known \in OtherProtocol
                 THEN "VERSION_MISMATCH" ELSE x.status
<1>2. Moved(m, x) /\ Told(m, x)
  BY CallLemma
<1>3. st \in Statuses /\ r = [x EXCEPT !.status = st]
  BY <1>1, <1>2 DEF Moved, Reply, Statuses, Refusing
<1> HIDE DEF st
<1>4. /\ r \in Reply /\ r.ok = x.ok /\ r.up = x.up /\ r.held = x.held
      /\ r.session = x.session /\ r.out = x.out
  BY <1>2, <1>3 DEF Moved, Reply
<1> QED BY <1>2, <1>4 DEF Moved, Told

\* What a returning operation resets.
LEMMA ReturnLemma ==
  ASSUME Return
  PROVE  /\ pc' = "idle" /\ second' = FALSE /\ pos' = 1
         /\ pc' \in Points /\ second' \in BOOLEAN /\ trial' \in Nat
         /\ pos' \in Nat \ {0}
<1>1. second' \in BOOLEAN
  BY DEF Return
<1>2. trial' \in Nat /\ pos' \in Nat \ {0} /\ pc' \in Points
  BY DEF Return, Points
<1> QED BY <1>1, <1>2 DEF Return

\* Client::PushHistory adds the input at the end, empties the record, or
\* leaves it alone; a consumed result of SEND_KEY empties it.
LEMMA PushHistoryLemma ==
  ASSUME TypeOK, input \in Recorded, NEW r, PushHistory(r)
  PROVE  /\ history' \in Seq(Recorded)
         /\ \/ history' = history /\ (r.out.consumed => TooLong(history))
            \/ history' = <<>>
            \/ history' = Append(history, input) /\ ~TooLong(history)
         /\ input.kind = "enter" /\ r.out.result /\ r.out.consumed => history' = <<>>
<1>1. <<>> \in Seq(Recorded) /\ Append(history, input) \in Seq(Recorded)
  BY DEF TypeOK
<1>2. Len(history) < MaxPlayBackSize <=> ~TooLong(history)
  BY ClientAssumption DEF TooLong, TypeOK
<1> QED BY <1>1, <1>2 DEF PushHistory, TypeOK

\* Types after a trial that succeeded.
LEMMA SucceedLemma ==
  ASSUME TypeOK, input \in Recorded, NEW r, Succeed(r)
  PROVE  /\ history' \in Seq(Recorded) /\ committed' \in Seq(Nat)
         /\ refused' = refused /\ cut' = cut
<1>1. committed \o session \in Seq(Nat)
  BY DEF TypeOK
<1> QED BY <1>1, PushHistoryLemma DEF Succeed, TypeOK

\* The two trials of EnsureCallCommand keep the control invariant.
LEMMA ControlTrial ==
  ASSUME Control, FirstTrial \/ SecondTrial
  PROVE  Control'
<1> USE DEF Control
<1>0. input \in Recorded /\ input \in Message /\ input.kind \in Kinds
  <2>1. pc \in AtInput
    BY DEF FirstTrial, SecondTrial, AtInput
  <2> QED BY <2>1, MessageLemma DEF Recorded
<1> DEFINE Data == /\ known' \in AllVersions /\ up' \in BOOLEAN /\ held' \in BOOLEAN
                   /\ session' \in Seq(Nat) /\ faults' \in Nat /\ version' \in AllVersions
                   /\ ~up' => ~held'
                   /\ ~held' => session' = <<>>
                   /\ status' \in Statuses /\ input' = input
           Record == /\ history' \in Seq(Recorded) /\ committed' \in Seq(Nat)
                     /\ refused' \in SUBSET Nat /\ cut' \in BOOLEAN
<1>1. ASSUME Data, Record, Return PROVE Control'
  <2>1. TypeOK'
    BY <1>0, <1>1, ReturnLemma DEF TypeOK
  <2>2. OperationInv' /\ SessionInv'
    BY <1>1, ReturnLemma DEF OperationInv, SessionInv, AtInput
  <2> QED BY <2>1, <2>2
<1>2. CASE FirstTrial
  <2>1. PICK r \in CallAndCheckVersion(input) :
         LET st == IF r.ok /\ ~r.out.valid THEN "INVALID_SESSION" ELSE r.status
         IN  /\ Receive(r) /\ status' = st
             /\ \/ /\ st \in Refusing /\ Fail
                   /\ UNCHANGED <<history, committed, cut>>
                \/ /\ st \in {"SHUTDOWN", "INVALID_SESSION"}
                   /\ second' = TRUE /\ pc' = "ensure"
                   /\ UNCHANGED <<history, trial, pos, userVars>>
                \/ /\ st = "OK" /\ Succeed(r)
    BY <1>2 DEF FirstTrial
  <2>2. Moved(input, r) /\ pc = "call" /\ input' = input
    BY <1>0, <1>2, CallAndCheckVersionLemma DEF FirstTrial
  <2>3. Data
    BY <2>1, <2>2, ReceiveLemma DEF Statuses
  <2>4. CASE Fail /\ UNCHANGED <<history, committed, cut>>
    BY <1>1, <2>3, <2>4 DEF Fail, TypeOK
  <2>5. CASE /\ status' \in {"SHUTDOWN", "INVALID_SESSION"}
             /\ second' = TRUE /\ pc' = "ensure"
             /\ UNCHANGED <<history, trial, pos, userVars>>
    <3>1. second' \in BOOLEAN
      BY <2>5
    <3>2. TypeOK'
      BY <2>3, <2>5, <3>1 DEF TypeOK, userVars, Points
    <3>3. OperationInv' /\ SessionInv'
      BY <1>0, <2>2, <2>3, <2>5 DEF OperationInv, SessionInv, AtInput
    <3> QED BY <3>2, <3>3
  <2>6. CASE Succeed(r)
    BY <1>0, <1>1, <2>3, <2>6, SucceedLemma DEF Succeed, TypeOK
  <2> QED BY <2>1, <2>4, <2>5, <2>6
<1>3. CASE SecondTrial
  <2>1. PICK r \in CallAndCheckVersion(input) :
          /\ Receive(r) /\ status' = r.status
          /\ \/ r.ok /\ Succeed(r)
             \/ /\ ~r.ok /\ Fail
                /\ DumpQueryOfDeath
                /\ UNCHANGED <<committed, cut>>
    BY <1>3 DEF SecondTrial
  <2>2. Moved(input, r) /\ pc = "retry" /\ input' = input
    BY <1>0, <1>3, CallAndCheckVersionLemma DEF SecondTrial
  <2>3. Data
    BY <2>1, <2>2, ReceiveLemma
  <2>4. CASE Fail /\ DumpQueryOfDeath /\ UNCHANGED <<committed, cut>>
    <3>1. <<>> \in Seq(Recorded)
      OBVIOUS
    <3> QED BY <1>1, <2>3, <2>4, <3>1 DEF Fail, TypeOK, DumpQueryOfDeath
  <2>5. CASE Succeed(r)
    BY <1>0, <1>1, <2>3, <2>5, SucceedLemma DEF Succeed, TypeOK
  <2> QED BY <2>1, <2>4, <2>5
<1> QED BY <1>2, <1>3

\* What one call of a playback may have done.
LEMMA PlaybackCall ==
  ASSUME Control, pc = "playback", ~TooLong(history), pos <= Len(history),
         NEW r \in Call(history[pos])
  PROVE  history[pos] \in Recorded /\ Moved(history[pos], r) /\ Told(history[pos], r)
<1>1. history[pos] \in Recorded
  BY DEF Control, TypeOK
<1> QED BY <1>1, MessageLemma, CallLemma DEF Control

\* PlaybackHistory keeps the control invariant.
LEMMA ControlPlayback ==
  ASSUME Control, PlaybackHistory
  PROVE  Control'
<1> USE DEF Control
<1>1. /\ pc = "playback" /\ input.kind \in Kinds /\ second
      /\ UNCHANGED <<input, second, trial, committed, refused>>
  BY DEF PlaybackHistory, OperationInv, AtInput
<1>2. CASE /\ history' = <<>> /\ pc' = "retry"
           /\ UNCHANGED <<status, known, pos, serverVars, faults, cut>>
  <2>1. history' \in Seq(Recorded)
    BY <1>2
  <2> QED BY <1>1, <1>2, <2>1
     DEF TypeOK, OperationInv, SessionInv, AtInput, Points, serverVars
<1>3. CASE /\ pc' = "retry"
           /\ UNCHANGED <<status, known, history, pos, serverVars, faults, cut>>
  BY <1>1, <1>3 DEF TypeOK, OperationInv, SessionInv, AtInput, Points, serverVars
<1>4. ASSUME ~TooLong(history), pos <= Len(history), history' = history,
             NEW r \in Call(history[pos]),
             status' = r.status, Receive(r), pos' = pos + 1,
             pc' = IF r.ok THEN pc ELSE "retry",
             cut' = (cut \/ (~r.ok /\ r.up))
      PROVE  Control'
  <2>1. Moved(history[pos], r)
    BY <1>1, <1>4, PlaybackCall
  <2>2. pc' \in {"playback", "retry"} /\ cut' \in BOOLEAN
    BY <1>1, <1>4
  <2>3. pos' \in Nat \ {0}
    BY <1>4 DEF TypeOK
  <2>4. TypeOK'
    BY <1>1, <1>4, <2>1, <2>2, <2>3, ReceiveLemma DEF TypeOK, Points
  <2>5. OperationInv'
    BY <1>1, <2>2 DEF OperationInv, AtInput
  <2>6. SessionInv'
    BY <1>4, <2>1, <2>2, ReceiveLemma DEF SessionInv
  <2> QED BY <2>4, <2>5, <2>6
<1> QED BY <1>2, <1>3, <1>4 DEF PlaybackHistory

\* Crashes, clean-ups and launches keep the control invariant.
LEMMA ControlFault ==
  ASSUME Control, Crash \/ Expire \/ OtherLaunch \/ UNCHANGED vars
  PROVE  Control'
<1> USE DEF Control
<1>0. <<>> \in Seq(Nat)
  OBVIOUS
<1>1. CASE Crash \/ Expire
  <2>1. /\ UNCHANGED <<status, known, history, pc, input, loopVars, version, userVars>>
        /\ held' = FALSE /\ session' = <<>> /\ (up' = up \/ up' = FALSE)
        /\ faults' = faults + 1
    BY <1>1 DEF Crash, Expire, Fault
  <2>2. up' \in BOOLEAN /\ held' \in BOOLEAN
    BY <2>1 DEF TypeOK
  <2>3. TypeOK'
    BY <1>0, <2>1, <2>2 DEF TypeOK, loopVars, userVars
  <2>4. OperationInv' /\ SessionInv'
    BY <2>1 DEF OperationInv, SessionInv, loopVars
  <2> QED BY <2>3, <2>4
<1>2. CASE OtherLaunch
  <2>1. up' \in BOOLEAN /\ version' \in AllVersions
    BY <1>2, ClientAssumption DEF OtherLaunch
  <2>2. TypeOK'
    BY <1>2, <2>1 DEF OtherLaunch, TypeOK, loopVars, userVars
  <2>3. OperationInv' /\ SessionInv'
    BY <1>2 DEF OtherLaunch, OperationInv, SessionInv, loopVars
  <2> QED BY <2>2, <2>3
<1>3. CASE UNCHANGED vars
  BY <1>3 DEF vars, TypeOK, OperationInv, SessionInv, loopVars, serverVars, userVars
<1> QED BY <1>1, <1>2, <1>3

\* Every step keeps the control invariant.
LEMMA ControlStep ==
  ASSUME Control, [Next]_vars
  PROVE  Control'
BY ControlOperation, ControlEnsure, ControlCreate, ControlCheck, ControlRestart,
   ControlDisplay, ControlTrial, ControlPlayback, ControlFault DEF Next, Step

-----------------------------------------------------------------------------
\* Steps that put nothing into the session and record nothing.
Quiet ==
  /\ history' = history \/ (history' = <<>> /\ pc' = "idle")
  /\ UNCHANGED <<committed, cut>>
  /\ input'.n = input.n
  /\ Running' => Running
  /\ \/ refused' = refused
     \/ Running /\ ~Running' /\ refused' = refused \cup {input.n}
  /\ \/ session' = session /\ UNCHANGED <<pc, second, pos>>
     \/ /\ session' = session
        /\ pc \notin {"playback", "retry"} /\ pc' \notin {"playback", "retry"}
        /\ Running' /\ ~second' => ~second
     \/ session' = <<>>
  /\ pc' = "playback" => pos' = 1 \/ (pc = "playback" /\ pos' = pos)

\* The actions of such steps.
QuietAction ==
  \/ \E kind \in {"other", "shutdown"} : CallCommand(kind)
  \/ CheckVersionOrRestartServer \/ Reset \/ NewClient
  \/ EnsureSession \/ CreateSession \/ CheckVersion \/ ShutdownOld
  \/ TerminateOld \/ RestartServer \/ DisplayError \/ SetRequest
  \/ Crash \/ Expire \/ OtherLaunch \/ UNCHANGED vars

\* A call without an input does not add to the session.
LEMMA PlainCall ==
  ASSUME Control, NEW k \in {"create", "shutdown", "delete", "other"},
         NEW r \in Call([kind |-> k])
  PROVE  Moved([kind |-> k], r) /\ r.session \in {session, <<>>}
<1> DEFINE m == [kind |-> k]
<1>1. Moved(m, r) /\ m \notin Recorded
  BY MessageLemma, CallLemma DEF Control
<1> HIDE DEF m
<1>2. r.session \in {session, <<>>}
  BY <1>1 DEF Moved
<1> QED BY <1>1, <1>2 DEF m

\* The steps that are quiet.
LEMMA QuietStep ==
  ASSUME Control, QuietAction
  PROVE  Quiet
<1> USE DEF Quiet, Running
<1>1. ASSUME NEW kind \in {"other", "shutdown"}, CallCommand(kind)
      PROVE  Quiet
  <2>1. session' \in {session, <<>>}
    BY <1>1, PlainCall DEF CallCommand, Receive
  <2> QED BY <1>1, <2>1 DEF CallCommand, loopVars, userVars, Idle
<1>2. CASE CheckVersionOrRestartServer
  BY <1>2 DEF CheckVersionOrRestartServer, Idle, loopVars, serverVars, userVars, Control, TypeOK
<1>3. CASE Reset
  BY <1>3 DEF Reset, Idle, loopVars, serverVars, userVars
<1>4. CASE NewClient
  BY <1>4 DEF NewClient, Idle, loopVars
<1>5. CASE EnsureSession
  <2>1. pc = "ensure" /\ input.kind # "check"
    BY <1>5 DEF EnsureSession, Control, OperationInv, AtInput, Kinds
  <2>2. PICK c \in EnsureConnection :
         /\ status' = c.status
         /\ \/ /\ ~c.ok /\ Fail
               /\ UNCHANGED <<held, session>>
            \/ /\ c.ok /\ c.status = "OK" /\ pc' = Ready
               /\ UNCHANGED <<held, session, loopVars, refused>>
            \/ /\ c.ok /\ c.status = "INVALID_SESSION"
               /\ held' = FALSE /\ session' = <<>>
               /\ trial' = 0 /\ pc' = "create"
               /\ UNCHANGED <<second, pos, refused>>
    BY <1>5 DEF EnsureSession
  <2>3. UNCHANGED <<history, input, committed, cut>>
    BY <1>5 DEF EnsureSession
  <2>4. CASE ~c.ok /\ Fail /\ UNCHANGED <<held, session>>
    BY <2>1, <2>3, <2>4 DEF Fail, Return
  <2>5. CASE /\ c.ok /\ c.status = "OK" /\ pc' = Ready
             /\ UNCHANGED <<held, session, loopVars, refused>>
    <3>1. status = "OK"
      BY <2>2, <2>5, EnsureConnectionLemma DEF Control
    <3>2. ~second /\ pc' = "call"
      BY <2>1, <2>5, <3>1 DEF Control, OperationInv, Ready
    <3> QED BY <2>1, <2>3, <2>5, <3>2
  <2>6. CASE /\ session' = <<>> /\ pc' = "create" /\ UNCHANGED <<second, pos, refused>>
    BY <2>1, <2>3, <2>6
  <2> QED BY <2>2, <2>4, <2>5, <2>6
<1>6. CASE CreateSession
  <2>1. pc = "create" /\ input.kind # "check" /\ pos = 1 /\ session = <<>>
    BY <1>6 DEF CreateSession, Control, OperationInv, SessionInv, AtInput, Kinds
  <2>2. PICK r \in Call([kind |-> "create"]) : CheckFails(r) \/ Receive(r)
    BY <1>6 DEF CreateSession
  <2>3. session' = <<>>
    BY <2>1, <2>2, PlainCall, CheckFailsLemma DEF Receive
  <2> QED BY <1>6, <2>1, <2>3 DEF CreateSession, loopVars, userVars
<1>7. CASE CheckVersion
  <2>1. pc = "check" /\ input.kind = "check"
    BY <1>7 DEF CheckVersion, Control, OperationInv
  <2>2. PICK r \in Call([kind |-> "other"]) :
          \/ CheckFails(r)
          \/ Receive(r) /\ Return
    BY <1>7 DEF CheckVersion
  <2>3. session' \in {session, <<>>} /\ pc' \in {"idle", "display", "shutdown", "terminate"}
    BY <2>2, PlainCall, CheckFailsLemma DEF Receive, Return
  <2> QED BY <1>7, <2>1, <2>3 DEF CheckVersion, userVars
<1>8. CASE ShutdownOld
  <2>1. session' \in {session, <<>>} /\ pc' \in {"terminate", "restart"}
    BY <1>8, PlainCall DEF ShutdownOld, Receive
  <2> QED BY <1>8, <2>1 DEF ShutdownOld, loopVars, userVars
<1>9. CASE TerminateOld
  BY <1>9 DEF TerminateOld, loopVars, userVars
<1>10. CASE RestartServer
  <2>1. pc' \in {"check", "create", "display"} /\ pc = "restart"
    BY <1>10 DEF RestartServer
  <2> QED BY <1>10, <2>1 DEF RestartServer, userVars
<1>11. CASE DisplayError
  BY <1>11 DEF DisplayError, Return, Fail
<1>12. CASE SetRequest
  <2>1. pc = "request" /\ pos = 1 /\ session = <<>> /\ input.kind # "check"
    BY <1>12 DEF SetRequest, Control, OperationInv, SessionInv, AtInput, Kinds
  <2>2. session' = <<>> /\ pc' \in {"playback", "call"}
    BY <1>12, <2>1, PlainCall DEF SetRequest, Receive, Ready
  <2> QED BY <1>12, <2>1, <2>2 DEF SetRequest, loopVars, userVars
<1>13. CASE Crash \/ Expire
  BY <1>13 DEF Crash, Expire, loopVars, userVars
<1>14. CASE OtherLaunch \/ UNCHANGED vars
  BY <1>14 DEF OtherLaunch, vars, loopVars, serverVars, userVars
<1> QED BY <1>1, <1>2, <1>3, <1>4, <1>5, <1>6, <1>7, <1>8, <1>9, <1>10, <1>11, <1>12,
           <1>13, <1>14 DEF QuietAction

\* Every number in a typed state is a natural number.
LEMMA NumbersLemma ==
  ASSUME TypeOK
  PROVE  /\ \A i \in 1..Len(history) : history[i] \in Recorded /\ history[i].n \in Nat
         /\ \A k \in 1..Len(session) : session[k] \in Nat
         /\ \A k \in 1..Len(committed) : committed[k] \in Nat
         /\ input.n \in Nat
         /\ Len(history) \in Nat /\ Len(session) \in Nat /\ Len(committed) \in Nat
<1>1. \A i \in 1..Len(history) : history[i] \in Recorded
  BY DEF TypeOK
<1>2. \A x \in Recorded : x.n \in Nat
  BY DEF Recorded
<1>3. /\ \A k \in 1..Len(session) : session[k] \in Nat
      /\ \A k \in 1..Len(committed) : committed[k] \in Nat
  BY DEF TypeOK
<1>4. /\ input.n \in Nat
      /\ Len(history) \in Nat /\ Len(session) \in Nat /\ Len(committed) \in Nat
  BY DEF TypeOK
<1> QED BY <1>1, <1>2, <1>3, <1>4

\* A quiet step keeps the clauses about inputs.
LEMMA QuietInv ==
  ASSUME IInv, Quiet
  PROVE  OrderInv' /\ CommitInv' /\ PlaybackInv' /\ RefusedInv'
<1>0. Len(<<>>) = 0
  OBVIOUS
<1>1. \/ history' = history
      \/ history' = <<>> /\ pc' = "idle"
  BY DEF Quiet
<1>2. \/ session' = session /\ UNCHANGED <<pc, second, pos>>
      \/ /\ session' = session
         /\ pc \notin {"playback", "retry"} /\ pc' \notin {"playback", "retry"}
         /\ Running' /\ ~second' => ~second
      \/ session' = <<>>
  BY DEF Quiet
<1>3. UNCHANGED <<committed, cut>> /\ input'.n = input.n /\ (Running' => Running)
  BY DEF Quiet
<1>4. OrderInv'
  <2>1. /\ \A i, j \in 1..Len(history') : i < j => history'[i].n < history'[j].n
        /\ \A i \in 1..Len(history') :
             history'[i].n <= input'.n /\ (Running' => history'[i].n < input'.n)
    BY <1>0, <1>1, <1>3 DEF IInv, OrderInv
  <2>2. Increasing(session')
    BY <1>0, <1>2 DEF IInv, OrderInv, Increasing
  <2>3. ASSUME NEW k \in 1..Len(session')
        PROVE  /\ session'[k] <= input'.n
               /\ Running' /\ ~second' => session'[k] < input'.n
               /\ pc' = "retry" => session'[k] < input'.n
               /\ pc' = "playback" => \E i \in 1..Len(history') : i < pos' /\ session'[k] = history'[i].n
    <3>1. CASE session' = <<>>
      BY <1>0, <2>3, <3>1
    <3>2. CASE session' = session /\ UNCHANGED <<pc, second, pos>>
      <4>1. pc = "playback" => history' = history
        BY <1>1, <3>2
      <4> QED BY <1>3, <2>3, <3>2, <4>1 DEF IInv, OrderInv
    <3>3. CASE /\ session' = session
               /\ pc \notin {"playback", "retry"} /\ pc' \notin {"playback", "retry"}
               /\ Running' /\ ~second' => ~second
      BY <1>3, <2>3, <3>3 DEF IInv, OrderInv
    <3> QED BY <1>2, <3>1, <3>2, <3>3
  <2> QED BY <2>1, <2>2, <2>3 DEF OrderInv
<1>5. CommitInv'
  <2>1. CASE cut
    BY <1>3, <2>1 DEF CommitInv
  <2>2. CASE ~cut
    <3>1. /\ \A i, j \in 1..Len(committed') : committed'[i] = committed'[j] => i = j
          /\ \A i \in 1..Len(committed') :
               committed'[i] <= input'.n /\ (Running' => committed'[i] < input'.n)
      BY <1>3, <2>2 DEF IInv, CommitInv
    <3>2. \/ TooLong(history')
          \/ \A i \in 1..Len(history') :
               history'[i].kind = "char" /\ IsIn(history'[i].n, committed')
                 => \E j \in 1..Len(history') : i < j /\ history'[j].kind = "submit"
      BY <1>0, <1>1, <1>3, <2>2 DEF IInv, CommitInv
    <3>3. ASSUME NEW k \in 1..Len(session'), IsIn(session'[k], committed')
          PROVE  /\ pc' = "playback"
                 /\ \E j \in 1..Len(history') : pos' <= j /\ history'[j].kind = "submit"
      BY <1>0, <1>1, <1>2, <1>3, <2>2, <3>3 DEF IInv, CommitInv
    <3> QED BY <3>1, <3>2, <3>3 DEF CommitInv
  <2> QED BY <2>1, <2>2
<1>6. PlaybackInv'
  BY <1>1 DEF Quiet, IInv, PlaybackInv
<1>7. RefusedInv'
  <2>1. ASSUME NEW n \in refused'
        PROVE  n <= input'.n /\ (Running' => n < input'.n)
    <3>1. input.n \in Nat
      BY NumbersLemma DEF IInv
    <3>2. CASE n \in refused
      BY <1>3, <3>2 DEF IInv, RefusedInv
    <3>3. CASE n \notin refused
      <4>1. n = input.n /\ ~Running'
        BY <2>1, <3>3 DEF Quiet
      <4> QED BY <1>3, <3>1, <4>1
    <3> QED BY <3>2, <3>3
  <2>2. ASSUME NEW i \in 1..Len(history')
        PROVE  history'[i].n \notin refused'
    <3>1. history' = history /\ i \in 1..Len(history)
      BY <1>0, <1>1, <2>2
    <3>2. history[i].n \notin refused /\ (Running => history[i].n < input.n)
      BY <3>1 DEF IInv, RefusedInv, OrderInv
    <3>3. input.n \in Nat
      BY DEF IInv, TypeOK
    <3> QED BY <3>1, <3>2, <3>3 DEF Quiet
  <2> QED BY <2>1, <2>2 DEF RefusedInv
<1> QED BY <1>4, <1>5, <1>6, <1>7

\* A new input is greater than all that are known.
LEMMA SendInputInv ==
  ASSUME IInv, NEW kind \in Kinds, SendInput(kind)
  PROVE  OrderInv' /\ CommitInv' /\ PlaybackInv' /\ RefusedInv'
<1>1. /\ input' = [n |-> input.n + 1, kind |-> kind] /\ input.n \in Nat
      /\ pc = "idle" /\ pc' = "ensure"
      /\ UNCHANGED <<history, second, pos, session, committed, cut, refused>>
  BY DEF SendInput, Idle, loopVars, serverVars, userVars, IInv, TypeOK
<1>2. input'.n = input.n + 1
  BY <1>1
<1>3. OrderInv'
  <2>1. /\ \A i, j \in 1..Len(history') : i < j => history'[i].n < history'[j].n
        /\ Increasing(session')
    BY <1>1 DEF IInv, OrderInv, Increasing
  <2>2. ASSUME NEW i \in 1..Len(history')
        PROVE  history'[i].n < input'.n
    <3>1. history[i].n <= input.n /\ history[i].n \in Nat
      BY <1>1, <2>2, NumbersLemma DEF IInv, OrderInv
    <3> QED BY <1>1, <1>2, <3>1
  <2>3. ASSUME NEW k \in 1..Len(session')
        PROVE  session'[k] < input'.n
    BY <1>1, <1>2, <2>3 DEF IInv, OrderInv, TypeOK
  <2>4. /\ \A i \in 1..Len(history') : history'[i].n <= input'.n
        /\ \A k \in 1..Len(session') : session'[k] <= input'.n
    BY <1>1, <1>2, <2>2, <2>3, NumbersLemma DEF IInv
  <2> QED BY <1>1, <2>1, <2>2, <2>3, <2>4 DEF OrderInv
<1>4. CommitInv'
  <2>1. CASE cut
    BY <1>1, <2>1 DEF CommitInv
  <2>2. CASE ~cut
    <3>1. /\ \A i, j \in 1..Len(committed') : committed'[i] = committed'[j] => i = j
          /\ \/ TooLong(history')
             \/ \A i \in 1..Len(history') :
                  history'[i].kind = "char" /\ IsIn(history'[i].n, committed')
                    => \E j \in 1..Len(history') : i < j /\ history'[j].kind = "submit"
          /\ \A k \in 1..Len(session') : ~IsIn(session'[k], committed')
      BY <1>1, <2>2 DEF IInv, CommitInv
    <3>2. \A i \in 1..Len(committed) : committed[i] <= input.n /\ committed[i] \in Nat
      BY <2>2, NumbersLemma DEF IInv, CommitInv
    <3>3. \A i \in 1..Len(committed') :
            committed'[i] <= input'.n /\ committed'[i] < input'.n
      BY <1>1, <1>2, <3>2
    <3> QED BY <3>1, <3>3 DEF CommitInv
  <2> QED BY <2>1, <2>2
<1>5. PlaybackInv' /\ RefusedInv'
  BY <1>1, <1>2 DEF IInv, PlaybackInv, RefusedInv, TypeOK
<1> QED BY <1>3, <1>4, <1>5

\* An input that is greater than all others goes to the end.
LEMMA AppendLemma ==
  ASSUME NEW s \in Seq(Nat), NEW n \in Nat, NEW t, t = Append(s, n), Increasing(s),
         \A k \in 1..Len(s) : s[k] < n
  PROVE  /\ Increasing(t)
         /\ \A k \in 1..Len(t) : \/ k \in 1..Len(s) /\ t[k] = s[k]
                                \/ t[k] = n
<1>1. /\ Len(t) = Len(s) + 1 /\ Len(s) \in Nat
      /\ \A k \in 1..Len(s) : t[k] = s[k]
      /\ t[Len(s) + 1] = n
  OBVIOUS
<1>2. ASSUME NEW i \in 1..Len(t), NEW j \in 1..Len(t), i < j
      PROVE  t[i] < t[j]
  <2>1. i \in 1..Len(s)
    BY <1>1, <1>2
  <2>2. CASE j \in 1..Len(s)
    BY <1>1, <1>2, <2>1, <2>2 DEF Increasing
  <2>3. CASE j = Len(s) + 1
    BY <1>1, <2>1, <2>3
  <2> QED BY <1>1, <2>2, <2>3
<1> QED BY <1>1, <1>2 DEF Increasing

\* The input of a trial goes behind everything the session holds.
LEMMA TrialSession ==
  ASSUME IInv, pc \in {"call", "retry"}, NEW r, Moved(input, r), session' = r.session
  PROVE  /\ Increasing(session')
         /\ \A k \in 1..Len(session') : session'[k] <= input.n
         /\ ~cut => \A k \in 1..Len(session') : ~IsIn(session'[k], committed)
<1>0. Len(<<>>) = 0
  OBVIOUS
<1>1. Running /\ input.kind \in Kinds
  BY DEF IInv, OperationInv, AtInput, Running, Kinds
<1>2. \A k \in 1..Len(session) : session[k] < input.n
  <2>1. pc = "call" => ~second
    BY DEF IInv, OperationInv
  <2> QED BY <1>1, <2>1 DEF IInv, OrderInv
<1>3. ~cut => /\ \A k \in 1..Len(session) : ~IsIn(session[k], committed)
              /\ ~IsIn(input.n, committed)
  <2> SUFFICES ASSUME ~cut
               PROVE  /\ \A k \in 1..Len(session) : ~IsIn(session[k], committed)
                      /\ ~IsIn(input.n, committed)
    OBVIOUS
  <2>1. \A i \in 1..Len(committed) : committed[i] < input.n
    BY <1>1 DEF IInv, CommitInv
  <2>2. ~IsIn(input.n, committed)
    BY <2>1, NumbersLemma DEF IInv, IsIn
  <2> QED BY <2>2 DEF IInv, CommitInv
<1>4. CASE session' = session
  BY <1>2, <1>3, <1>4, NumbersLemma DEF IInv, OrderInv
<1>5. CASE session' = <<>>
  BY <1>0, <1>5 DEF Increasing
<1>6. CASE session' = Append(session, input.n)
  <2>1. session \in Seq(Nat) /\ input.n \in Nat /\ Increasing(session)
    BY NumbersLemma DEF IInv, TypeOK, OrderInv
  <2>2. Increasing(session')
    BY <1>2, <1>6, <2>1, AppendLemma
  <2>4. \A k \in 1..Len(session') :
          session'[k] = input.n \/ (k \in 1..Len(session) /\ session'[k] = session[k])
    BY <1>2, <1>6, <2>1, AppendLemma
  <2>5. ASSUME NEW k \in 1..Len(session')
        PROVE  session'[k] <= input.n
    <3>1. input.n \in Nat /\ \A j \in 1..Len(session) : session[j] \in Nat
      BY NumbersLemma DEF IInv
    <3>2. CASE session'[k] = input.n
      BY <3>1, <3>2
    <3>3. CASE k \in 1..Len(session) /\ session'[k] = session[k]
      BY <1>2, <3>1, <3>3
    <3> QED BY <2>4, <2>5, <3>2, <3>3
  <2>6. ~cut => \A k \in 1..Len(session') : ~IsIn(session'[k], committed)
    BY <1>3, <2>4
  <2> QED BY <2>2, <2>5, <2>6
<1> QED BY <1>4, <1>5, <1>6 DEF Moved

\* What PushHistory appends goes behind the smaller inputs of the record.
LEMMA AppendedHistory ==
  ASSUME IInv, pc \in {"call", "retry"}, history' = Append(history, input)
  PROVE  /\ Len(history') = Len(history) + 1
         /\ \A i \in 1..Len(history) : history'[i] = history[i] /\ history[i].n < input.n
         /\ history'[Len(history) + 1] = input
         /\ \A i \in 1..Len(history') : i \in 1..Len(history) \/ i = Len(history) + 1
<1>1. Running /\ input \in Recorded
  BY MessageLemma DEF IInv, OperationInv, AtInput, Running, Kinds
<1>2. history \in Seq(Recorded)
  BY DEF IInv, TypeOK
<1>3. /\ Len(history') = Len(history) + 1
      /\ \A i \in 1..Len(history) : history'[i] = history[i]
      /\ history'[Len(history) + 1] = input
  BY <1>1, <1>2
<1>4. \A i \in 1..Len(history) : history[i].n < input.n
  BY <1>1 DEF IInv, OrderInv
<1> QED BY <1>3, <1>4, NumbersLemma DEF IInv

\* A trial that fails, and the first trial that is to be repeated.
LEMMA TrialFails ==
  ASSUME IInv, pc \in {"call", "retry"}, NEW r, Moved(input, r), session' = r.session,
         input' = input, UNCHANGED <<committed, cut>>,
         \/ pc' = "idle" /\ history' \in {history, <<>>} /\ refused' = refused \cup {input.n}
         \/ pc' = "ensure" /\ second' = TRUE /\ history' = history /\ refused' = refused
  PROVE  OrderInv' /\ CommitInv' /\ PlaybackInv' /\ RefusedInv'
<1>0. Len(<<>>) = 0
  OBVIOUS
<1>1. Running /\ input.n \in Nat
  BY NumbersLemma DEF IInv, OperationInv, AtInput, Running, Kinds
<1>2. pc' \notin {"playback", "retry"} /\ (Running' => second' /\ history' = history)
  BY DEF Running
<1>3. OrderInv'
  <2>1. /\ \A i, j \in 1..Len(history') : i < j => history'[i].n < history'[j].n
        /\ \A i \in 1..Len(history') :
             history'[i].n <= input'.n /\ (Running' => history'[i].n < input'.n)
    BY <1>0, <1>1 DEF IInv, OrderInv
  <2> QED BY <1>2, <2>1, TrialSession DEF OrderInv
<1>4. CommitInv'
  <2>1. CASE cut
    BY <2>1 DEF CommitInv
  <2>2. CASE ~cut
    <3>1. /\ \A i, j \in 1..Len(committed') : committed'[i] = committed'[j] => i = j
          /\ \A i \in 1..Len(committed') :
               committed'[i] <= input'.n /\ (Running' => committed'[i] < input'.n)
      BY <1>1, <2>2 DEF IInv, CommitInv
    <3>2. \/ TooLong(history')
          \/ \A i \in 1..Len(history') :
               history'[i].kind = "char" /\ IsIn(history'[i].n, committed')
                 => \E j \in 1..Len(history') : i < j /\ history'[j].kind = "submit"
      BY <1>0, <2>2 DEF IInv, CommitInv
    <3>3. \A k \in 1..Len(session') : ~IsIn(session'[k], committed')
      BY <2>2, TrialSession
    <3> QED BY <3>1, <3>2, <3>3 DEF CommitInv
  <2> QED BY <2>1, <2>2
<1>5. PlaybackInv'
  BY <1>2 DEF PlaybackInv
<1>6. RefusedInv'
  <2>1. \A n \in refused : n < input.n
    BY <1>1 DEF IInv, RefusedInv
  <2>2. \A n \in refused' : n <= input'.n /\ (Running' => n < input'.n)
    <3>1. \A n \in refused : n \in Nat
      BY DEF IInv, TypeOK
    <3> QED BY <1>1, <2>1, <3>1 DEF Running
  <2>3. ASSUME NEW i \in 1..Len(history')
        PROVE  history'[i].n \notin refused'
    <3>1. history' = history /\ i \in 1..Len(history)
      BY <1>0, <2>3
    <3>2. history[i].n \notin refused /\ history[i].n < input.n
      BY <1>1, <3>1 DEF IInv, RefusedInv, OrderInv
    <3> QED BY <1>1, <3>1, <3>2
  <2> QED BY <2>2, <2>3 DEF RefusedInv
<1> QED BY <1>3, <1>4, <1>5, <1>6

\* A trial that succeeds: what is committed was not committed before, and the
\* record is emptied, ends in the submit, or is too long to be played back.
LEMMA TrialSucceeds ==
  ASSUME IInv, pc \in {"call", "retry"}, NEW r, Moved(input, r), Told(input, r),
         session' = r.session, input' = input, Succeed(r)
  PROVE  OrderInv' /\ CommitInv' /\ PlaybackInv' /\ RefusedInv'
<1>0. Len(<<>>) = 0
  OBVIOUS
<1>1. Running /\ input.n \in Nat /\ input \in Recorded
  BY NumbersLemma, MessageLemma DEF IInv, OperationInv, AtInput, Running, Kinds
<1>2. pc' = "idle" /\ ~Running' /\ refused' = refused /\ cut' = cut
  BY DEF Succeed, Return, Running
<1>3. /\ \/ history' = history /\ (r.out.consumed => TooLong(history))
         \/ history' = <<>>
         \/ history' = Append(history, input) /\ ~TooLong(history)
      /\ input.kind = "enter" /\ r.out.result /\ r.out.consumed => history' = <<>>
  BY <1>1, PushHistoryLemma DEF Succeed, IInv
<1>4. OrderInv'
  <2>1. /\ \A i, j \in 1..Len(history') : i < j => history'[i].n < history'[j].n
        /\ \A i \in 1..Len(history') : history'[i].n <= input'.n
    <3>1. CASE history' = history
      BY <3>1 DEF IInv, OrderInv
    <3>2. CASE history' = <<>>
      BY <1>0, <3>2
    <3>3. CASE history' = Append(history, input)
      <4>1. \A i, j \in 1..Len(history) : i < j => history[i].n < history[j].n
        BY DEF IInv, OrderInv
      <4>2. /\ Len(history') = Len(history) + 1 /\ Len(history) \in Nat
            /\ \A i \in 1..Len(history) :
                 /\ history'[i] = history[i] /\ history[i].n < input.n
                 /\ history[i].n \in Nat
            /\ history'[Len(history) + 1].n = input.n
        BY <3>3, AppendedHistory, NumbersLemma DEF IInv
      <4>3. ASSUME NEW i \in 1..Len(history'), NEW j \in 1..Len(history'), i < j
            PROVE  history'[i].n < history'[j].n
        <5>1. i \in 1..Len(history)
          BY <4>2, <4>3
        <5>2. CASE j \in 1..Len(history)
          BY <4>1, <4>2, <4>3, <5>1, <5>2
        <5>3. CASE j = Len(history) + 1
          BY <4>2, <5>1, <5>3
        <5> QED BY <4>2, <5>2, <5>3
      <4>4. ASSUME NEW i \in 1..Len(history')
            PROVE  history'[i].n <= input'.n
        <5>1. CASE i \in 1..Len(history)
          BY <1>1, <4>2, <5>1
        <5>2. CASE i = Len(history) + 1
          BY <1>1, <4>2, <5>2
        <5> QED BY <4>2, <5>1, <5>2
      <4> QED BY <4>3, <4>4
    <3> QED BY <1>3, <3>1, <3>2, <3>3
  <2> QED BY <1>2, <2>1, TrialSession DEF OrderInv
<1>5. ASSUME cut PROVE CommitInv'
  BY <1>2, <1>5 DEF CommitInv
<1>6. ASSUME ~cut, ~r.out.result PROVE CommitInv'
  <2>1. committed' = committed
    BY <1>6 DEF Succeed
  <2>2. \A i \in 1..Len(committed) : committed[i] < input.n /\ committed[i] \in Nat
    BY <1>1, <1>6, NumbersLemma DEF IInv, CommitInv
  <2>3. \/ TooLong(history')
        \/ \A i \in 1..Len(history') :
             history'[i].kind = "char" /\ IsIn(history'[i].n, committed')
               => \E j \in 1..Len(history') : i < j /\ history'[j].kind = "submit"
    <3>1. CASE history' = history
      BY <1>6, <2>1, <3>1 DEF IInv, CommitInv
    <3>2. CASE history' = <<>>
      BY <1>0, <3>2
    <3>3. CASE history' = Append(history, input) /\ ~TooLong(history)
      <4>1. ~IsIn(input.n, committed)
        BY <1>1, <2>2 DEF IsIn
      <4>2. \A i \in 1..Len(history) :
              history[i].kind = "char" /\ IsIn(history[i].n, committed)
                => \E j \in 1..Len(history) : i < j /\ history[j].kind = "submit"
        BY <1>6, <3>3 DEF IInv, CommitInv
      <4>3. 1..Len(history) \subseteq 1..Len(history')
        BY <3>3, AppendedHistory, NumbersLemma DEF IInv
      <4>4. ASSUME NEW i \in 1..Len(history'),
                   history'[i].kind = "char", IsIn(history'[i].n, committed)
            PROVE  \E j \in 1..Len(history') : i < j /\ history'[j].kind = "submit"
        <5>1. i \in 1..Len(history) /\ history'[i] = history[i]
          BY <3>3, <4>1, <4>4, AppendedHistory
        <5>2. PICK j \in 1..Len(history) : i < j /\ history[j].kind = "submit"
          BY <4>2, <4>4, <5>1
        <5> QED BY <3>3, <4>3, <5>2, AppendedHistory
      <4> QED BY <2>1, <4>4
    <3> QED BY <1>3, <3>1, <3>2, <3>3
  <2>4. \A k \in 1..Len(session') : ~IsIn(session'[k], committed')
    BY <1>6, <2>1, TrialSession
  <2>5. /\ \A i, j \in 1..Len(committed') : committed'[i] = committed'[j] => i = j
        /\ \A i \in 1..Len(committed') : committed'[i] <= input'.n
    BY <1>6, <2>1 DEF CommitInv, IInv
  <2> QED BY <1>2, <2>3, <2>4, <2>5 DEF CommitInv
<1>7. ASSUME ~cut, r.out.result PROVE CommitInv'
  <2>1. /\ committed' = committed \o session /\ session' = <<>> /\ r.out.consumed
        /\ input.kind \in {"enter", "submit"}
    BY <1>1, <1>7 DEF Succeed, Told
  <2> DEFINE n == Len(committed)
  <2>2. /\ n \in Nat /\ Len(session) \in Nat
        /\ Len(committed') = n + Len(session)
        /\ \A i \in 1..Len(committed') :
             \/ i \in 1..n /\ committed'[i] = committed[i]
             \/ i - n \in 1..Len(session) /\ committed'[i] = session[i - n]
    BY <2>1 DEF IInv, TypeOK
  <2>3. /\ \A i \in 1..n : committed[i] < input.n /\ committed[i] \in Nat
        /\ \A i, j \in 1..n : committed[i] = committed[j] => i = j
        /\ \A k \in 1..Len(session) : \A i \in 1..n : committed[i] # session[k]
    BY <1>1, <1>7, NumbersLemma DEF IInv, CommitInv, IsIn
  <2>4. /\ \A k \in 1..Len(session) : session[k] \in Nat /\ session[k] <= input.n
        /\ \A j, k \in 1..Len(session) : j < k => session[j] < session[k]
    BY NumbersLemma DEF IInv, OrderInv, Increasing
  <2>5. \A i, j \in 1..Len(committed') : committed'[i] = committed'[j] => i = j
    <3> SUFFICES ASSUME NEW i \in 1..Len(committed'), NEW j \in 1..Len(committed'),
                        committed'[i] = committed'[j], i < j
                 PROVE  FALSE
      BY <2>2
    <3>1. CASE j \in 1..n /\ committed'[j] = committed[j]
      <4>1. i \in 1..n /\ ~(i - n \in 1..Len(session))
        BY <2>2, <3>1
      <4> QED BY <2>2, <2>3, <3>1, <4>1
    <3>2. CASE j - n \in 1..Len(session) /\ committed'[j] = session[j - n]
      <4>1. CASE i \in 1..n /\ committed'[i] = committed[i]
        BY <2>3, <3>2, <4>1
      <4>2. CASE i - n \in 1..Len(session) /\ committed'[i] = session[i - n]
        <5>1. i - n < j - n
          BY <2>2
        <5>2. session[i - n] < session[j - n] /\ session[i - n] \in Nat
          BY <2>4, <3>2, <4>2, <5>1
        <5> QED BY <2>4, <3>2, <4>2, <5>2
      <4> QED BY <2>2, <4>1, <4>2
    <3> QED BY <2>2, <3>1, <3>2
  <2>6. \A i \in 1..Len(committed') : committed'[i] <= input'.n
    <3>1. \A i \in 1..n : committed[i] <= input.n
      BY <1>1, <2>3
    <3> QED BY <2>2, <2>4, <3>1
  <2>7. \/ TooLong(history')
        \/ \A i \in 1..Len(history') :
             history'[i].kind = "char"
               => \E j \in 1..Len(history') : i < j /\ history'[j].kind = "submit"
    <3>1. CASE history' = <<>>
      BY <1>0, <3>1
    <3>2. CASE input.kind = "submit" /\ history' = Append(history, input)
      <4> DEFINE m == Len(history)
      <4>1. m + 1 \in 1..Len(history') /\ history'[m + 1].kind = "submit" /\ m \in Nat
        BY <3>2, AppendedHistory, NumbersLemma DEF IInv
      <4>2. \A i \in 1..Len(history') : i = m + 1 \/ i < m + 1
        BY <3>2, <4>1, AppendedHistory
      <4> HIDE DEF m
      <4> QED BY <4>1, <4>2
    <3> QED BY <1>3, <1>7, <2>1, <3>1, <3>2
  <2> QED BY <1>0, <1>2, <2>1, <2>5, <2>6, <2>7 DEF CommitInv
<1>8. PlaybackInv'
  BY <1>2 DEF PlaybackInv
<1>9. RefusedInv'
  <2>1. \A n \in refused' : n <= input'.n
    BY <1>2 DEF IInv, RefusedInv
  <2>2. input.n \notin refused
    BY <1>1 DEF IInv, RefusedInv
  <2>3. \A i \in 1..Len(history) : history[i].n \notin refused
    BY DEF IInv, RefusedInv
  <2>4. \A i \in 1..Len(history') : history'[i].n \notin refused'
    BY <1>0, <1>2, <1>3, <2>2, <2>3, AppendedHistory
  <2> QED BY <1>2, <2>1, <2>4 DEF RefusedInv
<1> QED BY <1>4, <1>5, <1>6, <1>7, <1>8, <1>9

\* A call of the playback restores the next input in order; a committed one is
\* followed by the submit that will empty the session again.
LEMMA PlaybackStep ==
  ASSUME IInv, PlaybackHistory
  PROVE  OrderInv' /\ CommitInv' /\ PlaybackInv' /\ RefusedInv'
<1>0. Len(<<>>) = 0
  OBVIOUS
<1>1. /\ pc = "playback" /\ Running /\ input' = input /\ second' = second /\ second
      /\ UNCHANGED <<committed, refused>> /\ input.n \in Nat
  BY NumbersLemma
     DEF PlaybackHistory, IInv, OperationInv, AtInput, Running, Kinds
<1>2. \A i \in 1..Len(history) : history[i].n < input.n /\ history[i].n \in Nat
  BY <1>1, NumbersLemma DEF IInv, OrderInv
<1>3. CASE TooLong(history)
  <2>1. history' = <<>> /\ pc' = "retry" /\ session' = session /\ cut' = cut
    BY <1>3 DEF PlaybackHistory, serverVars
  <2>2. pos = 1
    BY <1>1, <1>3 DEF IInv, PlaybackInv, TypeOK
  <2>3. \A k \in 1..Len(session) : FALSE
    BY <1>1, <2>2 DEF IInv, OrderInv
  <2>4. OrderInv'
    BY <1>0, <2>1, <2>3 DEF OrderInv, Increasing
  <2>5. CommitInv'
    BY <1>0, <1>1, <2>1, <2>3 DEF IInv, CommitInv, Running
  <2>6. PlaybackInv' /\ RefusedInv'
    BY <1>0, <1>1, <2>1 DEF IInv, PlaybackInv, RefusedInv, Running
  <2> QED BY <2>4, <2>5, <2>6
<1>4. CASE ~TooLong(history) /\ pos > Len(history)
  <2>1. pc' = "retry" /\ UNCHANGED <<history, pos, session, cut>>
    BY <1>4 DEF PlaybackHistory, serverVars, IInv, TypeOK
  <2>2. \A k \in 1..Len(session) : session[k] < input.n
    BY <1>1, <1>2 DEF IInv, OrderInv
  <2>3. OrderInv'
    BY <1>1, <2>1, <2>2 DEF IInv, OrderInv, Running
  <2>4. ~cut => \A k \in 1..Len(session) : ~IsIn(session[k], committed)
    BY <1>4, NumbersLemma DEF IInv, CommitInv, TypeOK
  <2>5. CommitInv'
    BY <1>1, <1>4, <2>1, <2>4 DEF IInv, CommitInv, Running
  <2>6. PlaybackInv' /\ RefusedInv'
    BY <1>1, <2>1 DEF IInv, PlaybackInv, RefusedInv, Running
  <2> QED BY <2>3, <2>4, <2>5, <2>6
<1>5. CASE ~TooLong(history) /\ pos <= Len(history)
  <2>1. PICK r \in Call(history[pos]) :
          /\ Receive(r) /\ pos' = pos + 1
          /\ pc' = IF r.ok THEN pc ELSE "retry"
          /\ cut' = (cut \/ (~r.ok /\ r.up))
    BY <1>5 DEF PlaybackHistory, IInv, TypeOK
  <2> DEFINE m == history[pos]
  <2>2. m \in Recorded /\ Moved(m, r) /\ Told(m, r) /\ session' = r.session
    BY <1>1, <1>5, <2>1, PlaybackCall DEF Receive, IInv, Control
  <2>3. history' = history /\ pos \in 1..Len(history) /\ pos + 1 > 1
    BY <1>5 DEF PlaybackHistory, IInv, TypeOK
  <2>4. pc' \in {"playback", "retry"} /\ Running'
    BY <1>1, <2>1 DEF Running
  <2>5. m.n \in Nat /\ m.n < input.n
    BY <1>2, <2>3
  <2>6. \A k \in 1..Len(session) :
          /\ session[k] \in Nat
          /\ \E i \in 1..Len(history) : i < pos /\ session[k] = history[i].n
    BY <1>1, NumbersLemma DEF IInv, OrderInv
  <2>7. \A k \in 1..Len(session) : session[k] < m.n
    BY <2>3, <2>6 DEF IInv, OrderInv
  <2>8. \/ session' = session
        \/ session' = <<>>
        \/ m.kind = "char" /\ session' = Append(session, m.n)
    BY <2>2 DEF Moved
  <2>9. session \in Seq(Nat) /\ Increasing(session)
    BY DEF IInv, TypeOK, OrderInv
  <2> HIDE DEF m
  <2>10. /\ Increasing(session')
         /\ \A k \in 1..Len(session') :
              \/ k \in 1..Len(session) /\ session'[k] = session[k]
              \/ m.kind = "char" /\ session'[k] = m.n
    <3>1. CASE m.kind = "char" /\ session' = Append(session, m.n)
      <4> DEFINE n == m.n
      <4>1. /\ n \in Nat /\ session' = Append(session, n)
            /\ \A k \in 1..Len(session) : session[k] < n
        BY <2>5, <2>7, <3>1
      <4> HIDE DEF n
      <4>2. Increasing(session')
        BY <2>9, <4>1, AppendLemma
      <4>3. \A k \in 1..Len(session') :
              \/ k \in 1..Len(session) /\ session'[k] = session[k]
              \/ session'[k] = n
        BY <2>9, <4>1, AppendLemma
      <4> QED BY <3>1, <4>2, <4>3 DEF n
    <3>2. CASE session' = <<>>
      BY <1>0, <3>2 DEF Increasing
    <3> QED BY <2>8, <2>9, <3>1, <3>2
  <2> USE DEF m
  <2>11. \A k \in 1..Len(session') :
          \E i \in 1..Len(history) : i < pos' /\ session'[k] = history[i].n
    <3>1. \A i \in 1..Len(history) : i < pos => i < pos'
      BY <2>1, <2>3
    <3>2. pos < pos'
      BY <2>1, <2>3
    <3> QED BY <2>3, <2>6, <2>10, <3>1, <3>2
  <2>12. \A k \in 1..Len(session') : session'[k] < input'.n /\ session'[k] <= input'.n
    <3>1. \A i \in 1..Len(history) : history[i].n <= input.n
      BY <1>1, <1>2
    <3> QED BY <1>1, <1>2, <2>11, <3>1
  <2>13. OrderInv'
    <3>1. /\ \A i, j \in 1..Len(history') : i < j => history'[i].n < history'[j].n
          /\ \A i \in 1..Len(history') :
               history'[i].n <= input'.n /\ (Running' => history'[i].n < input'.n)
      BY <1>1, <2>3 DEF IInv, OrderInv
    <3> QED BY <2>3, <2>10, <2>11, <2>12, <3>1 DEF OrderInv
  <2>14. PlaybackInv' /\ RefusedInv'
    BY <1>1, <1>5, <2>3 DEF IInv, PlaybackInv, RefusedInv
  <2>15. CASE cut'
    BY <2>13, <2>14, <2>15 DEF CommitInv
  <2>16. CASE ~cut'
    <3>1. ~cut /\ (~r.ok => ~r.up)
      BY <2>1, <2>16
    <3>2. ~r.ok => session' = <<>>
      BY <2>2, <3>1 DEF Moved
    <3>3. \A i \in 1..Len(history) :
            history[i].kind = "char" /\ IsIn(history[i].n, committed)
              => \E j \in 1..Len(history) : i < j /\ history[j].kind = "submit"
      BY <1>5, <3>1 DEF IInv, CommitInv
    <3>4. \A k \in 1..Len(session) :
            IsIn(session[k], committed)
              => \E j \in 1..Len(history) : pos <= j /\ history[j].kind = "submit"
      BY <3>1 DEF IInv, CommitInv
    <3>5. ASSUME NEW k \in 1..Len(session'), IsIn(session'[k], committed)
          PROVE  /\ pc' = "playback"
                 /\ \E j \in 1..Len(history) : pos' <= j /\ history[j].kind = "submit"
      <4>1. r.ok /\ pc' = "playback"
        BY <1>0, <1>1, <2>1, <3>2, <3>5
      <4>2. m.kind # "submit"
        BY <1>0, <2>2, <3>5, <4>1 DEF Told
      <4>3. PICK j \in 1..Len(history) : pos <= j /\ history[j].kind = "submit"
        <5>1. CASE k \in 1..Len(session) /\ session'[k] = session[k]
          BY <3>4, <3>5, <5>1
        <5>2. CASE m.kind = "char" /\ session'[k] = m.n
          <6>1. PICK j \in 1..Len(history) : pos < j /\ history[j].kind = "submit"
            BY <2>3, <3>3, <3>5, <5>2
          <6> QED BY <2>3, <6>1
        <5> QED BY <2>10, <5>1, <5>2
      <4>4. j # pos
        BY <4>2, <4>3
      <4> QED BY <2>1, <2>3, <4>1, <4>3, <4>4
    <3>6. /\ \A i, j \in 1..Len(committed') : committed'[i] = committed'[j] => i = j
          /\ \A i \in 1..Len(committed') :
               committed'[i] <= input'.n /\ (Running' => committed'[i] < input'.n)
      BY <1>1, <3>1 DEF IInv, CommitInv
    <3>7. CommitInv'
      BY <1>1, <2>3, <3>3, <3>5, <3>6 DEF CommitInv
    <3> QED BY <2>13, <2>14, <3>7
  <2> QED BY <2>15, <2>16
<1> QED BY <1>3, <1>4, <1>5 DEF IInv, TypeOK

-----------------------------------------------------------------------------
\* The inductive invariant holds initially.
LEMMA InitIInv == Init => IInv
<1> SUFFICES ASSUME Init PROVE IInv
  OBVIOUS
<1>0. Len(<<>>) = 0 /\ <<>> \in Seq(Nat) /\ <<>> \in Seq(Recorded)
  OBVIOUS
<1>6. second \in BOOLEAN /\ held \in BOOLEAN /\ cut \in BOOLEAN
  BY DEF Init
<1>1. TypeOK
  BY <1>0, <1>6, ClientAssumption DEF Init, TypeOK, Statuses, AllVersions, Points
<1>2. OperationInv /\ SessionInv
  BY DEF Init, OperationInv, SessionInv, AtInput
<1>3. OrderInv
  BY <1>0 DEF Init, OrderInv, Increasing
<1>4. CommitInv
  BY <1>0 DEF Init, CommitInv
<1>5. PlaybackInv /\ RefusedInv
  BY <1>0 DEF Init, PlaybackInv, RefusedInv
<1> QED BY <1>1, <1>2, <1>3, <1>4, <1>5 DEF IInv

\* Both trials keep the clauses about inputs.
LEMMA TrialStep ==
  ASSUME IInv, FirstTrial \/ SecondTrial
  PROVE  /\ OrderInv' /\ CommitInv' /\ PlaybackInv' /\ RefusedInv'
         /\ \E r : Moved(input, r) /\ session' = r.session
<1>0. pc \in {"call", "retry"} /\ input \in Message /\ TypeOK /\ SessionInv
  <2>1. pc \in {"call", "retry"}
    BY DEF FirstTrial, SecondTrial
  <2> QED BY <2>1, MessageLemma DEF IInv, AtInput
<1>1. ASSUME NEW r \in CallAndCheckVersion(input), Receive(r)
      PROVE  Moved(input, r) /\ Told(input, r) /\ session' = r.session
  BY <1>0, <1>1, CallAndCheckVersionLemma DEF Receive
<1>2. CASE FirstTrial
  <2>1. PICK r \in CallAndCheckVersion(input) :
          /\ Receive(r)
          /\ \/ /\ Fail /\ UNCHANGED <<history, committed, cut>>
             \/ /\ second' = TRUE /\ pc' = "ensure"
                /\ UNCHANGED <<history, trial, pos, userVars>>
             \/ Succeed(r)
    BY <1>2 DEF FirstTrial
  <2>2. input' = input
    BY <1>2 DEF FirstTrial
  <2>3. CASE Fail /\ UNCHANGED <<history, committed, cut>>
    BY <1>0, <1>1, <2>1, <2>2, <2>3, TrialFails DEF Fail, Return
  <2>4. CASE /\ second' = TRUE /\ pc' = "ensure"
             /\ UNCHANGED <<history, trial, pos, userVars>>
    BY <1>0, <1>1, <2>1, <2>2, <2>4, TrialFails DEF userVars
  <2>5. CASE Succeed(r)
    BY <1>0, <1>1, <2>1, <2>2, <2>5, TrialSucceeds
  <2> QED BY <2>1, <2>3, <2>4, <2>5
<1>3. CASE SecondTrial
  <2>1. PICK r \in CallAndCheckVersion(input) :
          /\ Receive(r)
          /\ \/ Succeed(r)
             \/ Fail /\ DumpQueryOfDeath /\ UNCHANGED <<committed, cut>>
    BY <1>3 DEF SecondTrial
  <2>2. input' = input
    BY <1>3 DEF SecondTrial
  <2>3. CASE Fail /\ DumpQueryOfDeath /\ UNCHANGED <<committed, cut>>
    BY <1>0, <1>1, <2>1, <2>2, <2>3, TrialFails DEF Fail, Return, DumpQueryOfDeath
  <2>4. CASE Succeed(r)
    BY <1>0, <1>1, <2>1, <2>2, <2>4, TrialSucceeds
  <2> QED BY <2>1, <2>3, <2>4
<1> QED BY <1>2, <1>3

\* What was in a sequence before an input was appended.
LEMMA InAppend ==
  ASSUME NEW s \in Seq(Nat), NEW m \in Nat, NEW t, t = Append(s, m),
         NEW k \in 1..Len(t), t[k] # m
  PROVE  \E j \in 1..Len(s) : s[j] = t[k]
<1>1. /\ Len(t) = Len(s) + 1 /\ Len(s) \in Nat
      /\ \A i \in 1..Len(s) : t[i] = s[i]
      /\ t[Len(s) + 1] = m
  OBVIOUS
<1>2. k \in 1..Len(s)
  BY <1>1
<1> QED BY <1>1, <1>2

\* Next, by what a step does with the inputs.
LEMMA NextCases ==
  ASSUME [Next]_vars
  PROVE  \/ QuietAction
         \/ \E kind \in Kinds : SendInput(kind)
         \/ FirstTrial \/ SecondTrial
         \/ PlaybackHistory
BY DEF Next, Step, Operation, QuietAction

\* Every step preserves the inductive invariant.
LEMMA NextIInv == IInv /\ [Next]_vars => IInv'
<1> SUFFICES ASSUME IInv, [Next]_vars PROVE IInv'
  OBVIOUS
<1>1. Control /\ Control'
  BY ControlStep DEF IInv, Control
<1>2. OrderInv' /\ CommitInv' /\ PlaybackInv' /\ RefusedInv'
  BY <1>1, NextCases, QuietStep, QuietInv, SendInputInv, TrialStep, PlaybackStep
<1> QED BY <1>1, <1>2 DEF IInv, Control

\* The inductive invariant is an invariant.
LEMMA IInvHolds == Spec => []IInv
BY InitIInv, NextIInv, PTL DEF Spec

(***************************************************************************)
(* However the server dies, restarts or answers late and however much of   *)
(* the record is played back, the composition of the client's session      *)
(* holds the inputs in the user's order and none twice (EnsureCallCommand, *)
(* PlaybackHistory), for every kMaxPlayBackSize.                           *)
(***************************************************************************)
THEOREM CompositionInOrder == Spec => []KeysInOrder
<1>1. IInv => KeysInOrder
  BY DEF IInv, OrderInv, KeysInOrder
<1> QED BY <1>1, IInvHolds, PTL

(***************************************************************************)
(* No input is delivered to the application by two results, unless an IPC  *)
(* error cut a playback short: PushHistory and the size test of            *)
(* PlaybackHistory together keep committed inputs out of a new session.    *)
(***************************************************************************)
THEOREM NoInputCommittedTwice == Spec => []CommittedOnce
<1>1. IInv => CommittedOnce
  BY DEF IInv, CommitInv, CommittedOnce
<1> QED BY <1>1, IInvHolds, PTL

(***************************************************************************)
(* An input whose call failed (a time-out, a query of death) is never sent *)
(* again: neither a later trial nor a playback puts it into a session.     *)
(***************************************************************************)
THEOREM FailedInputStaysOut == Spec => FailedInputNotReplayed
<1>1. IInv /\ [Next]_vars
        => [\A n \in refused : n \in ToSet(session') => n \in ToSet(session)]_vars
  <2> SUFFICES ASSUME IInv, [Next]_vars, NEW n \in refused,
                      n \in ToSet(session')
               PROVE  n \in ToSet(session)
    OBVIOUS
  <2>0. /\ session \in Seq(Nat) /\ session' \in Seq(Nat) /\ Len(<<>>) = 0
        /\ Control
    BY ControlStep DEF IInv, Control, TypeOK
  <2>1. PICK k \in 1..Len(session') : session'[k] = n
    BY <2>0 DEF ToSet
  <2>2. SUFFICES \E j \in 1..Len(session) : session[j] = n
    BY <2>0 DEF ToSet
  <2>3. CASE session' \in {session, <<>>}
    BY <2>0, <2>1, <2>3
  <2>4. CASE FirstTrial \/ SecondTrial
    <3>1. input.n \notin refused /\ input.n \in Nat
      <4>1. Running
        BY <2>4 DEF FirstTrial, SecondTrial, IInv, OperationInv, AtInput, Running, Kinds
      <4> QED BY <4>1, NumbersLemma DEF IInv, RefusedInv
    <3>2. session' \in {session, <<>>} \/ session' = Append(session, input.n)
      BY <2>4, TrialStep DEF Moved
    <3>3. CASE session' = Append(session, input.n)
      BY <2>0, <2>1, <3>1, <3>3, InAppend
    <3> QED BY <2>3, <3>2, <3>3
  <2>5. CASE PlaybackHistory
    <3>1. CASE UNCHANGED serverVars
      BY <2>3, <3>1 DEF serverVars
    <3>2. CASE ~UNCHANGED serverVars
      <4>1. ~TooLong(history) /\ pos <= Len(history) /\ pc = "playback"
        BY <2>5, <3>2 DEF PlaybackHistory
      <4>2. PICK r \in Call(history[pos]) : session' = r.session
        BY <2>5, <3>2 DEF PlaybackHistory, Receive
      <4>3. history[pos] \in Recorded /\ Moved(history[pos], r)
        BY <2>0, <4>1, <4>2, PlaybackCall
      <4>4. pos \in 1..Len(history)
        BY <4>1 DEF IInv, TypeOK
      <4> DEFINE m == history[pos].n
      <4>5. m \notin refused /\ m \in Nat
        BY <4>4, NumbersLemma DEF IInv, RefusedInv
      <4>6. session' \in {session, <<>>} \/ session' = Append(session, m)
        BY <4>2, <4>3 DEF Moved
      <4> HIDE DEF m
      <4>7. CASE session' = Append(session, m)
        BY <2>0, <2>1, <4>5, <4>7, InAppend
      <4> QED BY <2>3, <4>6, <4>7
    <3> QED BY <3>1, <3>2
  <2>6. CASE QuietAction
    BY <2>0, <2>3, <2>6, QuietStep DEF Quiet
  <2>7. CASE \E kind \in Kinds : SendInput(kind)
    BY <2>3, <2>7 DEF SendInput, serverVars
  <2> QED BY <2>4, <2>5, <2>6, <2>7, NextCases
<1> QED BY <1>1, IInvHolds, PTL DEF Spec, FailedInputNotReplayed
=============================================================================
