----------------------------- MODULE WriteCall ------------------------------
(***************************************************************************)
(* What a parameter write promises its caller (Control and UserControl,    *)
(* src/pysolarcloud/control.py and user_control.py), without saying how.   *)
(* A write has a status for its caller and an effect on the device; the    *)
(* promise relates the two when the call ends, and afterwards: a call that *)
(* ended with an answer leaves no write behind that could still happen.    *)
(***************************************************************************)

CONSTANT Calls

VARIABLES status, effect

Answers == {"succeeded", "refused", "failed", "timed_out"}
Statuses == {"idle", "pending", "errored"} \cup Answers
Effects == {"none", "open", "applied", "over"}

WriteInit ==
    /\ status = [c \in Calls |-> "idle"]
    /\ effect = [c \in Calls |-> "none"]

\* What each way of ending a call lets the caller conclude.
Concludes(c, s) ==
    CASE s = "succeeded" -> effect[c] = "applied"
      [] s = "refused"   -> effect[c] = "over"
      [] s = "failed"    -> effect[c] = "over"
      [] s = "timed_out" -> effect[c] \in {"applied", "over"}
      [] s = "errored"   -> TRUE

Begin(c) ==
    /\ status[c] = "idle"
    /\ status' = [status EXCEPT ![c] = "pending"]
    /\ effect' = [effect EXCEPT ![c] = "open"]

Apply(c) ==
    /\ effect[c] = "open"
    /\ effect' = [effect EXCEPT ![c] = "applied"]
    /\ UNCHANGED status

\* Writes that can no longer happen: several may expire at the same instant.
GiveUp(cs) ==
    /\ \A c \in cs : effect[c] = "open"
    /\ effect' = [c \in Calls |-> IF c \in cs THEN "over" ELSE effect[c]]
    /\ UNCHANGED status

End(c, s) ==
    /\ status[c] = "pending" /\ Concludes(c, s)
    /\ status' = [status EXCEPT ![c] = s]
    /\ UNCHANGED effect

WriteNext ==
    \/ \E c \in Calls : Begin(c) \/ Apply(c) \/ \E s \in Answers \cup {"errored"} : End(c, s)
    \/ \E cs \in SUBSET Calls : GiveUp(cs)

wvars == <<status, effect>>

WriteSpec == WriteInit /\ [][WriteNext]_wvars
=============================================================================
