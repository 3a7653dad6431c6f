--------------------------- MODULE HeartbeatLoop ----------------------------
(***************************************************************************)
(* `Control.heartbeat_loop` (src/pysolarcloud/control.py): send an EMS     *)
(* heartbeat, sleep for the interval or until the stop event, repeat.  A   *)
(* heartbeat is a parameter write as in ParamTask: it takes up to MaxSend, *)
(* the inverter gets it some time before it succeeds, and it may fail.     *)
(* The interval was checked before the loop.                               *)
(***************************************************************************)
EXTENDS Integers

CONSTANTS
    Interval,   \* interval_seconds
    MaxSend,    \* longest duration of a heartbeat (bounded as in ParamTask)
    MaxFails,   \* bound on failures in a row
    MaxTime,    \* bound on the clock at which a heartbeat may start
    None

ASSUME ConstantsAssumption ==
    /\ Interval \in Nat \ {0} /\ MaxSend \in Nat \ {0}
    /\ MaxFails \in Nat /\ MaxTime \in Nat /\ None \notin Nat

VARIABLES
    now,
    pc,         \* where the loop is
    since,      \* when that began
    stopped,    \* when the stop event was set
    applied,    \* whether the inverter has got the last heartbeat sent
    last_beat,  \* when the inverter last got one
    fails       \* heartbeats that failed since one succeeded

loop == <<pc, since, applied, last_beat, fails>>
vars == <<now, pc, since, stopped, applied, last_beat, fails>>

TypeOK ==
    /\ now \in Nat /\ since \in 0..now
    /\ pc \in {"checking", "sending", "waiting", "returned", "cancelled"}
    /\ stopped \in 0..now \cup {None}
    /\ applied \in BOOLEAN
    /\ last_beat \in 0..now \cup {None}
    /\ fails \in Nat

Init ==
    /\ now = 0 /\ pc = "checking" /\ since = 0 /\ stopped = None
    /\ applied = FALSE /\ last_beat = None /\ fails = 0

-----------------------------------------------------------------------------

Enter(place) == pc' = place /\ since' = now

\* while not stop_event.is_set()
StartHeartbeat ==
    /\ pc = "checking" /\ stopped = None /\ now <= MaxTime
    /\ Enter("sending")
    /\ applied' = FALSE
    /\ UNCHANGED <<now, stopped, last_beat, fails>>

StopSeen ==
    /\ pc = "checking" /\ stopped # None
    /\ Enter("returned")
    /\ UNCHANGED <<now, stopped, applied, last_beat, fails>>

\* The inverter gets the heartbeat while it is being sent, or later if the write
\* failed.
InverterGetsBeat ==
    /\ pc \in {"sending", "waiting"} /\ ~applied
    /\ applied' = TRUE /\ last_beat' = now
    /\ UNCHANGED <<now, pc, since, stopped, fails>>

HeartbeatSucceeds ==
    /\ pc = "sending" /\ applied
    /\ Enter("waiting")
    /\ fails' = 0
    /\ UNCHANGED <<now, stopped, applied, last_beat>>

\* Mutant: an exception leaves the loop.
HeartbeatRaises ==
    /\ pc = "sending"
    /\ Enter("raised")
    /\ UNCHANGED <<now, stopped, applied, last_beat, fails>>

\* Any exception of the write is logged, and the loop goes on to sleep.
HeartbeatFails ==
    /\ pc = "sending" /\ fails < MaxFails
    /\ Enter("waiting")
    /\ fails' = fails + 1
    /\ UNCHANGED <<now, stopped, applied, last_beat>>

\* Mutant: the sleep does not listen to the stop event.
StopUnheard == FALSE

StopHeard == pc = "waiting" /\ stopped # None

\* Mutant: the sleep takes two intervals.
WakeTimeLate == since + 2 * Interval

WakeTime == since + Interval

\* wait_for(stop_event.wait(), interval) returns: the loop ends.
WaitStopped ==
    /\ StopHeard
    /\ Enter("returned")
    /\ UNCHANGED <<now, stopped, applied, last_beat, fails>>

\* Mutant: the end of the sleep is missed.
WaitTimesOutNever ==
    /\ pc = "waiting" /\ now > WakeTime
    /\ Enter("checking")
    /\ UNCHANGED <<now, stopped, applied, last_beat, fails>>

\* It times out, which may happen in the instant the event is set.
WaitTimesOut ==
    /\ pc = "waiting" /\ now = WakeTime
    /\ Enter("checking")
    /\ UNCHANGED <<now, stopped, applied, last_beat, fails>>

\* CancelledError is caught nowhere.
Cancelled ==
    /\ pc \in {"sending", "waiting"}
    /\ Enter("cancelled")
    /\ UNCHANGED <<now, stopped, applied, last_beat, fails>>

\* The application stops the loop.
SetStop ==
    /\ stopped = None
    /\ stopped' = now
    /\ UNCHANGED <<now, loop>>

\* Time passes while the loop sleeps or sends; what can be resumed is resumed.
Tick ==
    /\ \/ pc = "sending" /\ now < since + MaxSend
       \/ pc = "waiting" /\ now < WakeTime /\ ~StopHeard
    /\ now' = now + 1
    /\ UNCHANGED <<stopped, loop>>

Run ==
    \/ StartHeartbeat \/ StopSeen \/ InverterGetsBeat \/ HeartbeatSucceeds \/ HeartbeatFails
    \/ WaitStopped \/ WaitTimesOut

Next == Run \/ Cancelled \/ SetStop \/ Tick

\* The event loop runs the coroutine, time goes on, and a heartbeat that no more
\* fails (MaxFails) succeeds.
Spec == Init /\ [][Next]_vars /\ WF_vars(Run) /\ WF_vars(Tick)

-----------------------------------------------------------------------------
(* Properties. *)

\* After the stop event was set the loop lasts no longer than the heartbeat being
\* sent, whatever the interval.
StopsPromptly ==
    (stopped # None /\ pc \notin {"returned", "cancelled"}) => now <= stopped + MaxSend

\* How old the inverter's last heartbeat may be: the interval alone is not the
\* bound, the durations of two heartbeats come on top, and a period for each
\* failure in between.
GapBounded ==
    (last_beat # None /\ pc \notin {"returned", "cancelled"}) =>
        now - last_beat <= (fails + 1) * (Interval + MaxSend) + MaxSend

\* Unless it is cancelled, the loop goes on for ever (up to the bound on the clock)
\* or ends by the stop event: no failure ends it and nothing makes it hang.
LoopGoesOn == <>(now > MaxTime \/ pc = "cancelled" \/ (pc = "returned" /\ stopped # None))
=============================================================================
