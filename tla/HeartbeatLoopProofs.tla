------------------------ MODULE HeartbeatLoopProofs -------------------------
(* Proofs about HeartbeatLoop, for every value of its constants. *)
EXTENDS HeartbeatLoop, TLAPS

-----------------------------------------------------------------------------
(* The inductive invariant. *)

\* How long n heartbeats in a row take at the longest, each with its sleep.
Periods(n) == n * (Interval + MaxSend)

\* How long the loop stays where it is.
Timed ==
    /\ pc = "checking" => now = since
    /\ pc = "sending" => now <= since + MaxSend
    /\ pc = "waiting" => now <= since + Interval

\* A heartbeat the inverter got while it was being sent is the last one it got.
BeatFresh == (pc = "sending" /\ applied) => (last_beat # None /\ since <= last_beat)

\* The age of the inverter's last heartbeat when the loop came to where it is.
AgeOnEntry ==
    last_beat # None =>
        /\ pc \in {"checking", "sending"} => since - last_beat <= Periods(fails + 1)
        /\ pc = "waiting" => since - last_beat <= Periods(fails) + MaxSend

\* A stop event found the loop sending a heartbeat, or finds it no later than that
\* heartbeat lasts.
StopPending ==
    stopped # None =>
        /\ pc = "sending" => since <= stopped
        /\ pc \in {"checking", "waiting"} => now <= stopped + MaxSend

IInv == TypeOK /\ Timed /\ BeatFresh /\ AgeOnEntry /\ StopPending

-----------------------------------------------------------------------------
(* Types. *)

\* The variables keep their types: no action of the loop, of the inverter or of the
\* application leaves them, and no recorded instant lies in the future.
THEOREM TypeCorrect == Spec => []TypeOK
<1>1. Init => TypeOK
  <2> SUFFICES ASSUME Init  PROVE TypeOK
    OBVIOUS
  <2>1. applied \in BOOLEAN
    BY DEF Init
  <2>. QED  BY <2>1 DEF Init, TypeOK
<1>2. TypeOK /\ [Next]_vars => TypeOK'
  <2> SUFFICES ASSUME TypeOK, [Next]_vars  PROVE TypeOK'
    OBVIOUS
  <2>1. CASE Run
    <3>0. applied' \in BOOLEAN
      BY <2>1 DEF TypeOK, Run, StartHeartbeat, StopSeen, InverterGetsBeat, HeartbeatSucceeds,
                  HeartbeatFails, WaitStopped, WaitTimesOut
    <3> USE <3>0 DEF TypeOK, Enter
    <3>1. CASE StartHeartbeat \/ StopSeen \/ WaitStopped \/ WaitTimesOut
      BY <3>1 DEF StartHeartbeat, StopSeen, WaitStopped, WaitTimesOut
    <3>2. CASE InverterGetsBeat
      BY <3>2 DEF InverterGetsBeat
    <3>3. CASE HeartbeatSucceeds \/ HeartbeatFails
      BY <3>3 DEF HeartbeatSucceeds, HeartbeatFails
    <3>. QED  BY <2>1, <3>1, <3>2, <3>3 DEF Run
  <2>2. CASE Cancelled
    BY <2>2 DEF Cancelled, Enter, TypeOK
  <2>3. CASE SetStop
    BY <2>3 DEF SetStop, loop, TypeOK
  <2>4. CASE Tick
    BY <2>4 DEF Tick, loop, TypeOK
  <2>5. CASE UNCHANGED vars
    BY <2>5 DEF vars, TypeOK
  <2>. QED  BY <2>1, <2>2, <2>3, <2>4, <2>5 DEF Next
<1>. QED  BY <1>1, <1>2, PTL DEF Spec

-----------------------------------------------------------------------------
(* The invariant is inductive. *)

\* One more heartbeat is one more period.
LEMMA PeriodsFacts ==
  /\ \A n \in Nat : Periods(n) \in Nat /\ Periods(n + 1) = Periods(n) + Interval + MaxSend
  /\ Periods(0) = 0
<1>1. ASSUME NEW n \in Nat  PROVE Periods(n) \in Nat
  BY ConstantsAssumption DEF Periods
<1>2. ASSUME NEW n \in Nat  PROVE Periods(n + 1) = Periods(n) + Interval + MaxSend
  BY ConstantsAssumption DEF Periods
<1>3. Periods(0) = 0
  BY ConstantsAssumption DEF Periods
<1>. QED  BY <1>1, <1>2, <1>3

\* The loop: an exchange lasts at most MaxSend, a sleep at most the interval, and each
\* failure adds one period to the age of the last heartbeat.
LEMMA RunStep ==
  ASSUME IInv, Run
  PROVE  (Timed /\ BeatFresh /\ AgeOnEntry /\ StopPending)'
<1> USE ConstantsAssumption
    DEF IInv, TypeOK, Timed, BeatFresh, AgeOnEntry, StopPending, Enter
<1>1. CASE StartHeartbeat
  BY <1>1 DEF StartHeartbeat
<1>2. CASE StopSeen
  BY <1>2 DEF StopSeen
<1>3. CASE InverterGetsBeat
  BY <1>3, PeriodsFacts DEF InverterGetsBeat
<1>4. CASE HeartbeatSucceeds
  BY <1>4, PeriodsFacts DEF HeartbeatSucceeds
<1>5. CASE HeartbeatFails
  BY <1>5, PeriodsFacts DEF HeartbeatFails
<1>6. CASE WaitStopped
  BY <1>6 DEF WaitStopped
<1>7. CASE WaitTimesOut
  BY <1>7, PeriodsFacts DEF WaitTimesOut, WakeTime
<1>. QED  BY <1>1, <1>2, <1>3, <1>4, <1>5, <1>6, <1>7 DEF Run

\* The rest of the world: cancellation, the stop event and the clock.
LEMMA OutsideStep ==
  ASSUME IInv, Cancelled \/ SetStop \/ Tick
  PROVE  (Timed /\ BeatFresh /\ AgeOnEntry /\ StopPending)'
<1> USE ConstantsAssumption
    DEF IInv, TypeOK, Timed, BeatFresh, AgeOnEntry, StopPending, Enter, loop
<1>1. CASE Cancelled
  BY <1>1 DEF Cancelled
<1>2. CASE SetStop
  BY <1>2 DEF SetStop
<1>3. CASE Tick
  BY <1>3 DEF Tick, WakeTime, StopHeard
<1>. QED  BY <1>1, <1>2, <1>3

\* Whatever the interval and the duration of a heartbeat, the loop keeps its times.
THEOREM LoopInvariant == Spec => []IInv
<1>1. Init => Timed /\ BeatFresh /\ AgeOnEntry /\ StopPending
  BY DEF Init, Timed, BeatFresh, AgeOnEntry, StopPending
<1>2. IInv /\ TypeOK' /\ [Next]_vars => (Timed /\ BeatFresh /\ AgeOnEntry /\ StopPending)'
  <2>1. ASSUME IInv, UNCHANGED vars  PROVE (Timed /\ BeatFresh /\ AgeOnEntry /\ StopPending)'
    BY <2>1 DEF vars, IInv, Timed, BeatFresh, AgeOnEntry, StopPending
  <2>. QED  BY <2>1, RunStep, OutsideStep DEF Next
<1>. QED  BY <1>1, <1>2, TypeCorrect, PTL DEF Spec, IInv

\* After the stop event the loop ends within the duration of one heartbeat: the sleep,
\* however long, never delays it.
THEOREM StopsInTime == Spec => []StopsPromptly
<1>1. IInv => StopsPromptly
  BY ConstantsAssumption DEF IInv, TypeOK, Timed, StopPending, StopsPromptly
<1>. QED  BY <1>1, LoopInvariant, PTL

\* While the loop runs, the inverter's last heartbeat is never older than one period
\* per failure in a row, one more period and the heartbeat being sent.
THEOREM GapsBounded == Spec => []GapBounded
<1>1. IInv => GapBounded
  <2> SUFFICES ASSUME IInv, last_beat # None, pc \notin {"returned", "cancelled"}
               PROVE  now - last_beat <= Periods(fails + 1) + MaxSend
    BY DEF GapBounded, Periods
  <2>. QED
    BY PeriodsFacts, ConstantsAssumption DEF IInv, TypeOK, Timed, AgeOnEntry
<1>. QED  BY <1>1, LoopInvariant, PTL
=============================================================================
