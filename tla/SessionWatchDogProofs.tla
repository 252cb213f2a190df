------------------------ MODULE SessionWatchDogProofs ------------------------
(***************************************************************************)
(* The watch dog's thread, for every interval the constructor is given,    *)
(* every number of pings and every load that is sampled: the array of      *)
(* loads does not overflow, and a thread that has been told to stop does   *)
(* not bring the process down.                                             *)
(***************************************************************************)
EXTENDS SessionWatchDog, TLAPS

(***************************************************************************)
(* The loop that samples the CPU load runs at least once and at most 12    *)
(* times, whatever interval the constructor clamps.                        *)
(***************************************************************************)
LEMMA SamplesBound == Samples \in 1..12
<1> DEFINE i == interval
<1>1. i \in 1..600
  BY IntervalAssumption DEF interval, Greatest, Least
<1>2. cpu_check_interval \in 1..60 /\ cpu_check_interval <= i
  BY <1>1 DEF cpu_check_interval, Least
<1>3. CASE i < 5
  <2>1. cpu_check_interval = i /\ cpu_check_duration = i
    BY <1>1, <1>3 DEF cpu_check_interval, cpu_check_duration, Least
  <2>2. Samples = (i + i - 1) \div i
    BY <2>1 DEF Samples
  <2>3. i \in {1, 2, 3, 4}
    BY <1>1, <1>3
  <2> QED BY <2>2, <2>3
<1>4. CASE i >= 5
  <2>1. cpu_check_duration = 5
    BY <1>1, <1>4 DEF cpu_check_duration, Least
  <2>2. cpu_check_interval >= 5
    BY <1>1, <1>4 DEF cpu_check_interval, Least
  <2>3. Samples = (cpu_check_interval + 5 - 1) \div 5
    BY <2>1 DEF Samples
  <2> QED BY <1>2, <2>2, <2>3
<1> QED BY <1>1, <1>3, <1>4

-----------------------------------------------------------------------------
(***************************************************************************)
(* The strengthening: while ThreadMain samples, the loop's bound is still  *)
(* ahead; while it pings, a trial is left.                                 *)
(***************************************************************************)
IInv ==
    /\ TypeOK
    /\ Len(cpu_loads) <= Samples
    /\ pc = "sample" => Len(cpu_loads) < Samples
    /\ pc \in {"ping_wait", "ping"} => trial < PingTrial

\* The strengthening holds initially.
LEMMA InitIInv == Init => IInv
<1> SUFFICES ASSUME Init PROVE IInv
  OBVIOUS
<1>1. Len(cpu_loads) = 0 /\ cpu_loads \in Seq(Load)
  BY DEF Init
<1>2. stop \in BOOLEAN /\ serving \in BOOLEAN
  BY DEF Init
<1>3. /\ pc = "idle"
      /\ trial \in 0..PingTrial
  BY IntervalAssumption DEF Init
<1> QED BY <1>1, <1>2, <1>3, SamplesBound DEF IInv, TypeOK

\* Every step of the thread and of the process preserves it.
LEMMA NextIInv == IInv /\ [Next]_vars => IInv'
<1> SUFFICES ASSUME IInv, [Next]_vars PROVE IInv'
  OBVIOUS
<1> USE SamplesBound, LoadAssumption, IntervalAssumption DEF IInv, TypeOK
<1>1. CASE Stopped
  BY <1>1 DEF Stopped
<1>2. CASE FinishSleeping
  BY <1>2 DEF FinishSleeping
<1>3. CASE SampleLoad
  <2>1. PICK load \in Load : cpu_loads' = Append(cpu_loads, load)
    BY <1>3 DEF SampleLoad
  <2>2. cpu_loads' \in Seq(Load) /\ Len(cpu_loads') = Len(cpu_loads) + 1
    BY <2>1
  <2> QED BY <1>3, <2>2 DEF SampleLoad
<1>4. CASE Decide
  BY <1>4 DEF Decide
<1>5. CASE SendCleanup
  BY <1>5 DEF SendCleanup
<1>6. CASE PingWait
  BY <1>6 DEF PingWait
<1>7. CASE PingServer
  BY <1>7 DEF PingServer
<1>8. CASE LastWait
  BY <1>8 DEF LastWait
<1>9. CASE Abort
  BY <1>9 DEF Abort
<1>10. CASE StopServing
  BY <1>10 DEF StopServing
<1>11. CASE NotifyStop
  BY <1>11 DEF NotifyStop
<1>12. CASE UNCHANGED vars
  BY <1>12 DEF vars
<1> QED
  BY <1>1, <1>2, <1>3, <1>4, <1>5, <1>6, <1>7, <1>8, <1>9, <1>10, <1>11,
     <1>12 DEF Next, ThreadMain, Terminated

(***************************************************************************)
(* ThreadMain writes at most 12 loads into its array of 16 floats and      *)
(* sends at most kPingTrial pings, for every interval and every kPingTrial *)
(* (session_watch_dog.cc, the loops of ThreadMain).                        *)
(***************************************************************************)
THEOREM WatchDogTypeCorrect == Spec => []TypeOK
<1>1. IInv => TypeOK
  BY DEF IInv
<1> QED BY <1>1, InitIInv, NextIInv, PTL DEF Spec

(***************************************************************************)
(* After Notify in the destructor the thread does not reach LOG(FATAL),    *)
(* unless its very last wait had already timed out.                        *)
(***************************************************************************)
THEOREM NoAbortOnceStopped == Spec => NoAbortAfterStop
<1>1. [Next]_vars
        => [stop /\ pc # "raise" => pc' \notin {"raise", "fatal"}]_vars
  <2> SUFFICES ASSUME Next, stop, pc # "raise", ~UNCHANGED vars
               PROVE  pc' \notin {"raise", "fatal"}
    BY DEF vars
  <2>1. CASE ThreadMain
    BY <2>1 DEF ThreadMain, Stopped, FinishSleeping, SampleLoad, Decide,
                SendCleanup, PingWait, PingServer, LastWait, Abort
  <2>2. pc # "fatal" => (StopServing \/ NotifyStop => pc' = pc)
    BY DEF StopServing, NotifyStop
  <2> QED BY <2>1, <2>2 DEF Next, Terminated, StopServing, NotifyStop
<1> QED BY <1>1, PTL DEF Spec, NoAbortAfterStop
=============================================================================
