------------------------------- MODULE Client -------------------------------
(***************************************************************************)
(* The client library (client/client.cc) that an application's input       *)
(* method front end links, with the launcher of the conversion server      *)
(* (client/server_launcher.cc).                                            *)
(*                                                                         *)
(* One operation of the client makes several IPC calls, and the server may *)
(* crash, be restarted by another client, drop the session or be replaced  *)
(* by another version between any two of them.  So every IPC call is a     *)
(* step of its own; pc names the call the client makes next.  The server   *)
(* is external here: it is seen through what the client can learn of it,   *)
(* whether it runs, its version, and the keys held by the composition of   *)
(* the session that the client's id_ names.                                *)
(***************************************************************************)
EXTENDS Naturals, Sequences, SequencesExt

CONSTANTS
  MaxPlayBackSize,  \* kMaxPlayBackSize, 512 in the code
  Versions,         \* the versions a server that is started may have
  HasRequest,       \* request_ is set: EnsureSession sends SET_REQUEST
  MaxInputs,        \* bound: inputs sent by the application
  MaxFaults         \* bound: crashes, lost replies, failed launches

AllVersions == {"same", "olderProduct", "olderProtocol", "newerProtocol"}

ASSUME ClientAssumption ==
  /\ MaxPlayBackSize \in Nat
  /\ Versions \subseteq AllVersions /\ Versions # {}
  /\ HasRequest \in BOOLEAN
  /\ MaxInputs \in Nat
  /\ MaxFaults \in Nat

VARIABLES
  status,    \* server_status_
  known,     \* server_protocol_version_ and server_product_version_
  history,   \* history_inputs_
  pc,        \* the next call of the running operation, or "idle"
  input,     \* the input of the running operation, numbered
  second,    \* EnsureCallCommand is past its first trial
  trial,     \* loop counter of CheckVersionOrRestartServerInternal
  pos,       \* loop counter of PlaybackHistory
  up,        \* the server process runs
  version,   \* its version
  held,      \* the server has the session id_ names
  session,   \* the inputs in the composition of that session
  faults,    \* faults so far
  committed, \* history variable: inputs of the results given to the application
  refused,   \* history variable: inputs whose operation returned false
  cut        \* history variable: an IPC error cut a playback into a live server

serverVars == <<up, version, held, session>>
userVars == <<committed, refused, cut>>
loopVars == <<second, trial, pos>>
vars == <<status, known, history, pc, input, loopVars, serverVars, faults,
          userVars>>

\* ServerStatus values at or above SERVER_TIMEOUT: Call() refuses to go on.
Refusing == {"TIMEOUT", "VERSION_MISMATCH", "BROKEN_MESSAGE", "FATAL"}
OtherProtocol == {"olderProtocol", "newerProtocol"}

\* "char" extends the composition, "enter" (SEND_KEY) and "submit"
\* (SEND_COMMAND) commit it, "test" is TEST_SEND_KEY.
Kinds == {"char", "enter", "submit", "test"}

Init ==
  /\ status = "UNKNOWN" /\ known = "olderProtocol"  \* version 0
  /\ history = <<>>
  /\ pc = "idle" /\ input = [n |-> 0, kind |-> "check"]
  /\ second = FALSE /\ trial = 0 /\ pos = 1
  /\ up \in BOOLEAN /\ version \in Versions
  /\ held = FALSE /\ session = <<>>
  /\ faults = 0
  /\ committed = <<>> /\ refused = {} /\ cut = FALSE

-----------------------------------------------------------------------------
(* One IPC call, as the set of results it can have now. *)

Void == [valid |-> FALSE, consumed |-> FALSE, result |-> FALSE]

\* Nothing happened.
Unmoved ==
  [ok |-> FALSE, connected |-> FALSE, status |-> status, known |-> known,
   up |-> up, held |-> held, session |-> session, faults |-> faults,
   out |-> Void]

Lost(r) == [r EXCEPT !.up = FALSE, !.held = FALSE, !.session = <<>>]

\* What the server does with an input of a session it has.
Effect(i, s) ==
  CASE i.kind = "char" ->
         [session |-> Append(s, i.n),
          out |-> [valid |-> TRUE, consumed |-> TRUE, result |-> FALSE]]
    [] i.kind = "enter" ->
         [session |-> <<>>,
          out |-> [valid |-> TRUE, consumed |-> s # <<>>, result |-> s # <<>>]]
    [] i.kind = "submit" ->
         [session |-> <<>>,
          out |-> [valid |-> TRUE, consumed |-> TRUE, result |-> s # <<>>]]
    [] i.kind = "test" ->
         [session |-> s,
          out |-> [valid |-> TRUE, consumed |-> TRUE, result |-> FALSE]]

\* The server executes m from r: the possible results, reply included.  An
\* input for a session it does not have is answered with session id 0.
Execute(m, r) ==
  CASE m.kind = "create" ->
         {[r EXCEPT !.held = TRUE, !.session = <<>>, !.out.valid = TRUE]}
         \cup IF r.faults < MaxFaults
              THEN {[r EXCEPT !.faults = @ + 1]} ELSE {}
    [] m.kind = "shutdown" -> {Lost(r)}
    [] m.kind = "delete" -> {[r EXCEPT !.held = FALSE, !.session = <<>>]}
    [] m.kind = "other" -> {r}
    [] m.kind \in Kinds ->
         IF r.held
         THEN LET e == Effect(m, r.session)
              IN  {[r EXCEPT !.session = e.session, !.out = e.out]}
         ELSE {r}

\* The ways an IPC call to a running server of this protocol can fail: a
\* timeout or an unreadable reply after or before the execution, a crash, or
\* an IPC error while the server lives on.
Failures(done, r) ==
  IF r.faults = MaxFaults THEN {}
  ELSE LET Faulty(x, s) == [x EXCEPT !.ok = FALSE, !.out = Void, !.status = s,
                                     !.faults = r.faults + 1]
       IN  UNION {{Faulty(x, "TIMEOUT"), Faulty(x, "BROKEN_MESSAGE"),
                   Faulty(x, "SHUTDOWN"), Faulty(Lost(x), "SHUTDOWN")} :
                    x \in done \cup {r}}

\* Client::Call
Call(m) ==
  LET fresh == [Unmoved EXCEPT !.known = "same"]
      unconnected == [fresh EXCEPT
                        !.status = IF @ = "UNKNOWN" THEN @ ELSE "SHUTDOWN"]
      connected == [fresh EXCEPT !.connected = TRUE, !.known = version]
      done == Execute(m, [connected EXCEPT !.ok = TRUE])
  IN  IF status \in Refusing THEN {Unmoved}
      ELSE IF ~up THEN {unconnected}
      ELSE (IF version \in OtherProtocol
            THEN {connected}
            ELSE done \cup Failures(done, connected))
           \cup IF faults < MaxFaults
                THEN {[unconnected EXCEPT !.faults = @ + 1]} ELSE {}

\* Client::CallAndCheckVersion
CallAndCheckVersion(m) ==
  {[r EXCEPT !.status = IF ~r.ok /\ r.known \in OtherProtocol
                        THEN "VERSION_MISMATCH" ELSE @] : r \in Call(m)}

\* The effect of a result on the server, the version known and the faults.
Receive(r) ==
  /\ known' = r.known
  /\ up' = r.up /\ held' = r.held /\ session' = r.session
  /\ faults' = r.faults
  /\ UNCHANGED version

\* The operation returns: its local variables are gone.
Return == pc' = "idle" /\ second' = FALSE /\ trial' = 0 /\ pos' = 1

\* Mutant of EnsureConnection: after an IPC error, a server that runs is
\* believed to be the one that has the session.
SessionBelieved ==
  {[ok |-> TRUE, up |-> TRUE, version |-> v, faults |-> faults,
    status |-> IF status = "OK" \/ (status = "SHUTDOWN" /\ up) THEN "OK"
               ELSE "INVALID_SESSION"] :
     v \in IF up THEN {version} ELSE Versions}

\* Client::EnsureConnection with ServerLauncher::StartServer: a server that
\* answers the ping is used, else one is spawned.
EnsureConnection ==
  LET r == [ok |-> TRUE, status |-> status, up |-> up, version |-> version,
            faults |-> faults]
      fatal == [r EXCEPT !.ok = FALSE, !.status = "FATAL"]
  IN  CASE status \in {"OK", "INVALID_SESSION"} -> {r}
        [] status \in Refusing -> {fatal}
        [] OTHER ->
             {[r EXCEPT !.status = "INVALID_SESSION", !.up = TRUE,
                        !.version = v] :
                v \in IF up THEN {version} ELSE Versions}
             \cup IF faults < MaxFaults
                  THEN {[fatal EXCEPT !.faults = @ + 1]} ELSE {}

Connect(c) == /\ up' = c.up /\ version' = c.version /\ faults' = c.faults
              /\ UNCHANGED known

-----------------------------------------------------------------------------
(* The operations an application calls, from "idle". *)

Idle == pc = "idle"

\* SendKeyWithContext, TestSendKeyWithContext, SendCommandWithContext:
\* EnsureCallCommand starts.
SendInput(kind) ==
  /\ Idle /\ input.n < MaxInputs
  /\ input' = [n |-> input.n + 1, kind |-> kind]
  /\ pc' = "ensure"
  /\ UNCHANGED <<status, known, history, loopVars, serverVars, faults,
                 userVars>>

\* CheckVersionOrRestartServer starts.
CheckVersionOrRestartServer ==
  /\ Idle
  /\ input' = [input EXCEPT !.kind = "check"]
  /\ pc' = "check"
  /\ UNCHANGED <<status, known, history, loopVars, serverVars, faults,
                 userVars>>

\* GetConfig, SetConfig, ClearUser..., SyncData, Reload, Cleanup, NoOperation
\* and, with kind "shutdown", Shutdown: one call, no retry.
CallCommand(kind) ==
  /\ Idle
  /\ \E r \in Call([kind |-> kind]) : status' = r.status /\ Receive(r)
  /\ UNCHANGED <<history, pc, input, loopVars, userVars>>

\* Client::Reset
Reset ==
  /\ Idle
  /\ status' = "UNKNOWN" /\ known' = "olderProtocol"
  /\ UNCHANGED <<history, pc, input, loopVars, serverVars, faults, userVars>>

\* The destructor deletes the session; the application then makes a new Client.
NewClient ==
  /\ Idle
  /\ \E r \in IF held THEN Call([kind |-> "delete"]) ELSE {Unmoved} :
       up' = r.up /\ faults' = r.faults
  /\ held' = FALSE /\ session' = <<>>
  /\ status' = "UNKNOWN" /\ known' = "olderProtocol"
  /\ history' = <<>>
  /\ UNCHANGED <<pc, input, loopVars, version, committed, refused, cut>>

-----------------------------------------------------------------------------
(* EnsureSession *)

\* The operation returns false.
Fail == Return /\ refused' = refused \cup {input.n}

\* EnsureSession has returned true: what EnsureCallCommand does next.
Ready == IF second THEN "playback" ELSE "call"

EnsureSession ==
  /\ pc = "ensure"
  /\ \E c \in EnsureConnection :
       /\ status' = c.status /\ Connect(c)
       /\ \/ /\ ~c.ok /\ Fail
             /\ UNCHANGED <<held, session>>
          \/ /\ c.ok /\ c.status = "OK" /\ pc' = Ready
             /\ UNCHANGED <<held, session, loopVars, refused>>
          \/ /\ c.ok /\ c.status = "INVALID_SESSION"
             /\ held' = FALSE /\ session' = <<>>  \* CreateSession: id_ = 0
             /\ trial' = 0 /\ pc' = "create"
             /\ UNCHANGED <<second, pos, refused>>
  /\ UNCHANGED <<history, input, committed, cut>>

TooOld(r) == \/ r.ok /\ r.known = "olderProduct"
             \/ ~r.ok /\ r.known = "olderProtocol"

\* The server is too old even after the restart.
GiveUp == trial > 0

\* Mutant of NextTrial: the loop does not count.
SameTrial(t) == t

NextTrial(t) == t + 1

\* The id in the reply of a session that is not taken over is forgotten.
Forget(r) == [r EXCEPT !.held = FALSE, !.session = <<>>]

\* Client::CheckVersionOrRestartServerInternal, from the reply r to its
\* decision.  On a failure both callers go on with EnsureConnection, to
\* display the error.
NewerServer(r) ==
  /\ ~r.ok /\ r.known = "newerProtocol"
  /\ status' = "VERSION_MISMATCH" /\ pc' = "display" /\ Receive(r)

OlderServer(r) ==
  /\ TooOld(r)
  /\ Receive(Forget(r))
  /\ IF GiveUp
     THEN status' = "BROKEN_MESSAGE" /\ pc' = "display"
     ELSE /\ status' = r.status
          /\ pc' = IF r.ok THEN "shutdown" ELSE "terminate"

CallFailed(r) ==
  /\ ~r.ok /\ ~TooOld(r) /\ r.known # "newerProtocol"
  /\ status' = r.status /\ pc' = "display" /\ Receive(r)

CheckFails(r) == NewerServer(r) \/ OlderServer(r) \/ CallFailed(r)

CreateSession ==
  /\ pc = "create"
  /\ \E r \in Call([kind |-> "create"]) :
       \/ CheckFails(r)
       \/ /\ r.ok /\ ~TooOld(r) /\ Receive(r)
          /\ IF ~r.out.valid
             THEN status' = "INVALID_SESSION" /\ pc' = "display"
             ELSE IF HasRequest
             THEN status' = r.status /\ pc' = "request"
             ELSE status' = "OK" /\ pc' = Ready
  /\ UNCHANGED <<history, input, loopVars, userVars>>

CheckVersion ==
  /\ pc = "check"
  /\ \E r \in Call([kind |-> "other"]) :
       \/ CheckFails(r) /\ UNCHANGED loopVars
       \/ /\ r.ok /\ ~TooOld(r) /\ Receive(r)
          /\ status' = r.status /\ Return
  /\ UNCHANGED <<history, input, userVars>>

\* The old server is asked to shut down; WaitServer fails if it is known to
\* live on.
ShutdownOld ==
  /\ pc = "shutdown"
  /\ \E r \in Call([kind |-> "shutdown"]) :
       /\ Receive(r)
       /\ IF r.connected /\ r.up
          THEN status' = r.status /\ pc' = "terminate"
          ELSE status' = "UNKNOWN" /\ pc' = "restart"
  /\ UNCHANGED <<history, input, loopVars, userVars>>

\* ForceTerminateServer
TerminateOld ==
  /\ pc = "terminate"
  /\ \/ /\ status' = "UNKNOWN" /\ pc' = "restart"
        /\ up' = FALSE /\ held' = FALSE /\ session' = <<>>
        /\ UNCHANGED faults
     \/ /\ up /\ faults < MaxFaults
        /\ status' = "BROKEN_MESSAGE" /\ pc' = "display"
        /\ faults' = faults + 1
        /\ UNCHANGED <<up, held, session>>
  /\ UNCHANGED <<known, version, history, input, loopVars, userVars>>

\* EnsureConnection inside the version check, then its second trial.
RestartServer ==
  /\ pc = "restart"
  /\ \E c \in EnsureConnection :
       /\ Connect(c)
       /\ IF c.ok
          THEN /\ status' = c.status /\ trial' = NextTrial(trial)
               /\ pc' = IF input.kind = "check" THEN "check" ELSE "create"
          ELSE status' = "VERSION_MISMATCH" /\ pc' = "display" /\ UNCHANGED trial
  /\ UNCHANGED <<history, input, second, pos, held, session, userVars>>

\* The EnsureConnection that follows a failed CreateSession or version check.
DisplayError ==
  /\ pc = "display"
  /\ \E c \in EnsureConnection : status' = c.status /\ Connect(c)
  /\ IF input.kind = "check" THEN Return /\ UNCHANGED refused ELSE Fail
  /\ UNCHANGED <<history, input, held, session, committed, cut>>

\* SET_REQUEST: the result of the call is not looked at.
SetRequest ==
  /\ pc = "request"
  /\ \E r \in Call([kind |-> "other"]) : Receive(r) /\ pc' = Ready
  /\ status' = "OK"
  /\ UNCHANGED <<history, input, loopVars, userVars>>

-----------------------------------------------------------------------------
(* EnsureCallCommand *)

\* Mutant of PushHistory: a result ends the recording but keeps the record.
PushWithoutReset(r) ==
  history' = IF ~r.out.consumed \/ r.out.result
                  \/ Len(history) >= MaxPlayBackSize
             THEN history ELSE Append(history, input)

\* Client::PushHistory
PushHistory(r) ==
  LET pushed == IF Len(history) < MaxPlayBackSize
                THEN Append(history, input) ELSE history
  IN  history' = IF ~r.out.consumed THEN history
                 ELSE IF input.kind = "enter" /\ r.out.result THEN <<>>
                 ELSE pushed

\* The application gets the reply r of its input.
Succeed(r) ==
  /\ PushHistory(r)
  /\ Return
  /\ committed' = IF r.out.result THEN committed \o session ELSE committed
  /\ UNCHANGED <<refused, cut>>

FirstTrial ==
  /\ pc = "call"
  /\ \E r \in CallAndCheckVersion(input) :
       LET st == IF r.ok /\ ~r.out.valid THEN "INVALID_SESSION" ELSE r.status
       IN  /\ Receive(r) /\ status' = st
           /\ \/ /\ st \in Refusing /\ Fail
                 /\ UNCHANGED <<history, committed, cut>>
              \/ /\ st \in {"SHUTDOWN", "INVALID_SESSION"}
                 /\ second' = TRUE /\ pc' = "ensure"
                 /\ UNCHANGED <<history, trial, pos, userVars>>
              \/ /\ st = "OK" /\ Succeed(r)
  /\ UNCHANGED input

\* A history that is full may lack inputs: PlaybackHistory drops it.
TooLong(h) == Len(h) >= MaxPlayBackSize

\* One round of the loop of PlaybackHistory, or its exit.
PlaybackHistory ==
  /\ pc = "playback"
  /\ \/ /\ TooLong(history)
        /\ history' = <<>> /\ pc' = "retry"
        /\ UNCHANGED <<status, known, pos, serverVars, faults, cut>>
     \/ /\ ~TooLong(history) /\ pos > Len(history)
        /\ pc' = "retry"
        /\ UNCHANGED <<status, known, history, pos, serverVars, faults, cut>>
     \/ /\ ~TooLong(history) /\ pos <= Len(history)
        /\ \E r \in Call(history[pos]) :
             /\ status' = r.status /\ Receive(r)
             /\ pos' = pos + 1
             /\ pc' = IF r.ok THEN pc ELSE "retry"
             /\ cut' = (cut \/ (~r.ok /\ r.up))
        /\ UNCHANGED history
  /\ UNCHANGED <<input, second, trial, committed, refused>>

\* Mutant of DumpQueryOfDeath: the input is recorded and stays recorded.
KeepQueryOfDeath == history' = Append(history, input)

\* The history, with the input that failed, is dumped and forgotten.
DumpQueryOfDeath == history' = <<>>

\* The second trial; its reply's session id is not looked at.
SecondTrial ==
  /\ pc = "retry"
  /\ \E r \in CallAndCheckVersion(input) :
       /\ Receive(r) /\ status' = r.status
       /\ \/ r.ok /\ Succeed(r)
          \/ /\ ~r.ok /\ Fail
             /\ DumpQueryOfDeath
             /\ UNCHANGED <<committed, cut>>
  /\ UNCHANGED input

-----------------------------------------------------------------------------
(* What happens to the server on its own. *)

Fault == faults < MaxFaults /\ faults' = faults + 1

Crash ==
  /\ up /\ Fault
  /\ up' = FALSE /\ held' = FALSE /\ session' = <<>>
  /\ UNCHANGED <<status, known, history, pc, input, loopVars, version,
                 userVars>>

\* The server cleans the session up.
Expire ==
  /\ held /\ Fault
  /\ held' = FALSE /\ session' = <<>>
  /\ UNCHANGED <<status, known, history, pc, input, loopVars, up, version,
                 userVars>>

\* Another client launches the server.
OtherLaunch ==
  /\ ~up
  /\ up' = TRUE /\ version' \in Versions
  /\ UNCHANGED <<status, known, history, pc, input, loopVars, held, session,
                 faults, userVars>>

-----------------------------------------------------------------------------

Step ==
  \/ EnsureSession \/ CreateSession \/ CheckVersion \/ ShutdownOld
  \/ TerminateOld \/ RestartServer \/ DisplayError \/ SetRequest
  \/ FirstTrial \/ PlaybackHistory \/ SecondTrial

Operation ==
  \/ \E kind \in Kinds : SendInput(kind)
  \/ \E kind \in {"other", "shutdown"} : CallCommand(kind)
  \/ CheckVersionOrRestartServer \/ Reset \/ NewClient

Next == Step \/ Operation \/ Crash \/ Expire \/ OtherLaunch

\* Every IPC call returns (it has a timeout) and so does the launcher, so an
\* operation that runs goes on.
Fairness == WF_vars(Step)

Spec == Init /\ [][Next]_vars /\ Fairness

-----------------------------------------------------------------------------

Increasing(s) == \A i, j \in 1..Len(s) : i < j => s[i] < s[j]

\* However often the server dies and whatever the client plays back, the
\* composition of its session holds the inputs in the order in which the user
\* gave them, none of them twice (client.cc, EnsureCallCommand).
KeysInOrder == Increasing(session)

\* No input is committed to the application twice: an input that a result has
\* already delivered does not come back with the playback (client.cc,
\* PushHistory and the size test of PlaybackHistory).  The exception is a
\* playback cut short by an IPC error of a server that lives on, after which
\* the code sends the input into the half-restored session.
CommittedOnce ==
  cut \/ \A i, j \in 1..Len(committed) : committed[i] = committed[j] => i = j

\* An input whose call returned false to the application, because it timed
\* out or because it brought the server down twice (a query of death), is
\* never put into a session afterwards: not by a retry, not by a playback.
FailedInputNotReplayed ==
  [][\A n \in refused : n \in ToSet(session') => n \in ToSet(session)]_vars

\* Every operation of the client ends, whatever versions of the server are
\* started under it.
OperationEnds == pc # "idle" ~> pc = "idle"
=============================================================================
