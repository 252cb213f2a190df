--------------------------- MODULE SessionWatchDog ---------------------------
(***************************************************************************)
(* The thread of the server that asks it, through an IPC client, to clean  *)
(* up its sessions (session_watch_dog.cc): it sleeps, samples the CPU load *)
(* for up to a minute, decides whether to send CLEANUP, and if that call   *)
(* fails pings the server and finally aborts the process.  The destructor  *)
(* of the watch dog notifies stop_ and joins the thread.                   *)
(*                                                                         *)
(* CPU loads are percentages.  The time between two decisions is chosen    *)
(* from the cases that CanSendCleanupCommand tells apart.                  *)
(***************************************************************************)
EXTENDS Integers, SequencesExt

CONSTANTS
    FlagInterval,  \* the interval the constructor is given, in seconds
    Load,          \* the CPU loads that may be sampled, in percent
    PingTrial      \* kPingTrial

ASSUME LoadAssumption == Load \subseteq Nat
ASSUME IntervalAssumption == FlagInterval \in Int /\ PingTrial \in Nat \ {0}

VARIABLES
    pc,         \* where ThreadMain is
    cpu_loads,  \* the samples of this round
    trial,      \* the pings sent after a failed CLEANUP
    stop,       \* stop_ has been notified
    serving     \* the server answers IPC calls

vars == << pc, cpu_loads, trial, stop, serving >>

Least(a, b) == IF a < b THEN a ELSE b
Greatest(a, b) == IF a > b THEN a ELSE b

\* std::clamp(interval, 1, 600)
interval == Greatest(1, Least(FlagInterval, 600))

cpu_check_interval == Least(60, interval)
cpu_check_duration == Least(5, interval)

\* How many times the loop over n < cpu_check_interval runs.
Samples == (cpu_check_interval + cpu_check_duration - 1) \div cpu_check_duration

kMinimumAllCPULoad == 33
kMinimumLatestCPULoad == 66

\* std::accumulate over the samples
Total(loads) == FoldSeq(LAMBDA load, sum : load + sum, 0, loads)

\* The quotients all_avg and latest_avg are compared without dividing.
CPULoadTooHigh(loads) ==
    LET latest_size == Least(2, Len(loads))
    IN  \/ Total(loads) > kMinimumAllCPULoad * Len(loads)
        \/ Total(loads) > kMinimumLatestCPULoad * latest_size

CanSendCleanupCommand(loads, elapsed) ==
    /\ elapsed > 0
    /\ ~CPULoadTooHigh(loads)
    /\ elapsed <= 2 * interval

-----------------------------------------------------------------------------
(***************************************************************************)
(* ThreadMain.  Every wait for stop_ has two ends: the notification, or    *)
(* the time-out.                                                           *)
(***************************************************************************)

\* Mutant of Stopped: the wait between two pings does not see stop_.
Stopped_NotWhilePinging ==
    /\ pc \in {"idle", "sample", "last_wait"}
    /\ stop
    /\ pc' = "ended"
    /\ UNCHANGED << cpu_loads, trial, stop, serving >>

\* The thread notices stop_ in one of its waits and returns.
Stopped ==
    /\ pc \in {"idle", "sample", "ping_wait", "last_wait"}
    /\ stop
    /\ pc' = "ended"
    /\ UNCHANGED << cpu_loads, trial, stop, serving >>

FinishSleeping ==
    /\ pc = "idle"
    /\ ~stop
    /\ pc' = "sample"
    /\ cpu_loads' = << >>
    /\ UNCHANGED << trial, stop, serving >>

SampleLoad ==
    /\ pc = "sample"
    /\ ~stop
    /\ \E load \in Load : cpu_loads' = Append(cpu_loads, load)
    /\ pc' = IF Len(cpu_loads') = Samples THEN "decide" ELSE "sample"
    /\ UNCHANGED << trial, stop, serving >>

\* The clock was set back or stood still, ran normally, or the machine slept.
Decide ==
    /\ pc = "decide"
    /\ \E elapsed \in {0, interval, 2 * interval + 1} :
         pc' = IF CanSendCleanupCommand(cpu_loads, elapsed) THEN "cleanup" ELSE "idle"
    /\ UNCHANGED << cpu_loads, trial, stop, serving >>

\* A call may fail by its time-out although the server answers others.
SendCleanup ==
    /\ pc = "cleanup"
    /\ \/ serving /\ pc' = "idle"
       \/ pc' = "ping_wait"
    /\ trial' = 0
    /\ UNCHANGED << cpu_loads, stop, serving >>

PingWait ==
    /\ pc = "ping_wait"
    /\ ~stop
    /\ pc' = "ping"
    /\ UNCHANGED << cpu_loads, trial, stop, serving >>

\* Mutant of PingServer: off by one in the number of trials.
PingServer_OneMore ==
    /\ pc = "ping"
    /\ \/ /\ serving
          /\ pc' = "idle"
          /\ trial' = trial
       \/ /\ trial' = trial + 1
          /\ pc' = IF trial = PingTrial THEN "last_wait" ELSE "ping_wait"
    /\ UNCHANGED << cpu_loads, stop, serving >>

PingServer ==
    /\ pc = "ping"
    /\ \/ /\ serving
          /\ pc' = "idle"
          /\ trial' = trial
       \/ /\ trial' = trial + 1
          /\ pc' = IF trial' = PingTrial THEN "last_wait" ELSE "ping_wait"
    /\ UNCHANGED << cpu_loads, stop, serving >>

\* Mutant of LastWait: the thread does not look at stop_ once more.
LastWait_Blind ==
    /\ pc = "last_wait"
    /\ pc' = "raise"
    /\ UNCHANGED << cpu_loads, trial, stop, serving >>

\* The last 100 msec pass without a notification.
LastWait ==
    /\ pc = "last_wait"
    /\ ~stop
    /\ pc' = "raise"
    /\ UNCHANGED << cpu_loads, trial, stop, serving >>

\* LOG(FATAL).
Abort ==
    /\ pc = "raise"
    /\ pc' = "fatal"
    /\ UNCHANGED << cpu_loads, trial, stop, serving >>

-----------------------------------------------------------------------------
(***************************************************************************)
(* The rest of the process.                                                *)
(***************************************************************************)

\* The server's loop ends.
StopServing ==
    /\ serving
    /\ pc # "fatal"
    /\ serving' = FALSE
    /\ UNCHANGED << pc, cpu_loads, trial, stop >>

\* ~SessionWatchDog, after the loop has ended.
NotifyStop ==
    /\ ~serving
    /\ pc # "fatal"
    /\ stop' = TRUE
    /\ UNCHANGED << pc, cpu_loads, trial, serving >>

Init ==
    /\ pc = "idle"
    /\ cpu_loads = << >>
    /\ trial = 0
    /\ stop = FALSE
    /\ serving = TRUE

ThreadMain ==
    \/ Stopped \/ FinishSleeping \/ SampleLoad \/ Decide
    \/ SendCleanup \/ PingWait \/ PingServer \/ LastWait \/ Abort

\* A process that ended, or was aborted, takes no step.
Terminated == pc \in {"ended", "fatal"} /\ UNCHANGED vars

Next == ThreadMain \/ StopServing \/ NotifyStop \/ Terminated

\* The thread is scheduled, its waits and its IPC calls time out.
Spec == Init /\ [][Next]_vars /\ WF_vars(ThreadMain)

-----------------------------------------------------------------------------
\* Types; at most 12 samples, so that the array of 16 floats holds them.
TypeOK ==
    /\ pc \in {"idle", "sample", "decide", "cleanup", "ping_wait", "ping",
               "last_wait", "raise", "ended", "fatal"}
    /\ cpu_loads \in Seq(Load) /\ Len(cpu_loads) <= 12
    /\ trial \in 0..PingTrial
    /\ stop \in BOOLEAN /\ serving \in BOOLEAN

(***************************************************************************)
(* Once the destructor has notified stop_, the watch dog no longer brings  *)
(* the process down, in whichever of its waits or calls the notification   *)
(* meets it; only a notification after the very last wait comes too late.  *)
(***************************************************************************)
NoAbortAfterStop ==
    [][ stop /\ pc # "raise" => pc' \notin {"raise", "fatal"} ]_vars

(***************************************************************************)
(* thread_.Join() in the destructor returns: the notified thread ends, or  *)
(* the process does.                                                       *)
(***************************************************************************)
JoinReturns == stop ~> (pc \in {"ended", "fatal"})
=============================================================================
