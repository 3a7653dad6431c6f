----------------------------- MODULE ParamTask ------------------------------
(***************************************************************************)
(* One parameter write (or read) as Control and UserControl perform it     *)
(* (src/pysolarcloud/control.py, user_control.py): submit a task, sleep,   *)
(* poll it until it leaves the running state, and give up at a deadline.   *)
(* The server runs the task on its own clock and lets it expire            *)
(* expire_second after it was created.                                     *)
(*                                                                         *)
(* Several calls run side by side: nothing serialises them.                *)
(***************************************************************************)
EXTENDS Integers

CONSTANTS
    Calls,          \* the calls made; each runs once
    Expire,         \* expire_second: the server-side life time of a task (120)
    ClientTimeout,  \* wait_for_task's timeout (defaults to Expire)
    FirstPoll,      \* sleep before the first poll (2)
    PollInterval,   \* sleep between polls (5)
    Latency,        \* longest duration of one HTTP exchange
    StartBy         \* bound: no call starts later than this

ASSUME ConstantsAssumption ==
    /\ Expire \in Nat /\ ClientTimeout \in Nat /\ FirstPoll \in Nat
    /\ PollInterval \in Nat \ {0} /\ Latency \in Nat \ {0} /\ StartBy \in Nat

VARIABLES
    now,        \* the clock
    pc,         \* where each call is, or how it ended
    timer,      \* when the sleep ends, or the exchange in flight at the latest
    deadline,   \* the deadline set when the submit was accepted
    reply,      \* the server's answer to the exchange in flight
    task,       \* the server's task of each call
    created     \* when it was created

vars == <<now, pc, timer, deadline, reply, task, created>>
clocks == <<timer, deadline>>

Active == {"submitting", "sleeping", "polling"}
Ended == {"succeeded", "refused", "failed", "timed_out", "errored"}
Replies == {"none", "accepted", "refused", "running", "success", "failed"}
TaskStates == {"none", "sent", "refused", "running", "applied", "failed"}

TypeOK ==
    /\ now \in Nat
    /\ pc \in [Calls -> {"idle"} \cup Active \cup Ended]
    /\ timer \in [Calls -> Nat] /\ deadline \in [Calls -> Nat]
    /\ reply \in [Calls -> Replies]
    /\ task \in [Calls -> TaskStates] /\ created \in [Calls -> Nat]

Init ==
    /\ now = 0
    /\ pc = [c \in Calls |-> "idle"]
    /\ timer = [c \in Calls |-> 0] /\ deadline = [c \in Calls |-> 0]
    /\ reply = [c \in Calls |-> "none"]
    /\ task = [c \in Calls |-> "none"] /\ created = [c \in Calls |-> 0]

-----------------------------------------------------------------------------
(* The call. *)

Goto(c, place) == pc' = [pc EXCEPT ![c] = place]

Send(c, place) ==
    /\ Goto(c, place)
    /\ timer' = [timer EXCEPT ![c] = now + Latency]

SleepFor(c, seconds) ==
    /\ Goto(c, "sleeping")
    /\ timer' = [timer EXCEPT ![c] = now + seconds]
    /\ reply' = [reply EXCEPT ![c] = "none"]

End(c, how) ==
    /\ Goto(c, how)
    /\ reply' = [reply EXCEPT ![c] = "none"]
    /\ timer' = [timer EXCEPT ![c] = 0]
    /\ deadline' = [deadline EXCEPT ![c] = 0]
    /\ UNCHANGED <<now, task, created>>

\* async_update_parameters, _read_codes, _run_task: post paramSetting.
Submit(c) ==
    /\ pc[c] = "idle" /\ now <= StartBy
    /\ Send(c, "submitting")
    /\ task' = [task EXCEPT ![c] = "sent"]
    /\ UNCHANGED <<now, deadline, reply, created>>

\* Mutant: the deadline is half the task's life time.
SubmitAcceptedShort(c) ==
    /\ pc[c] = "submitting" /\ reply[c] = "accepted"
    /\ deadline' = [deadline EXCEPT ![c] = now + ClientTimeout \div 2]
    /\ SleepFor(c, FirstPoll)
    /\ UNCHANGED <<now, task, created>>

\* The submit is accepted: wait_for_task sets its deadline, then sleeps.
SubmitAccepted(c) ==
    /\ pc[c] = "submitting" /\ reply[c] = "accepted"
    /\ deadline' = [deadline EXCEPT ![c] = now + ClientTimeout]
    /\ SleepFor(c, FirstPoll)
    /\ UNCHANGED <<now, task, created>>

\* The envelope, the check_result or the device's code refuse it:
\* a typed exception, and no task is polled.
SubmitRefused(c) ==
    /\ pc[c] = "submitting" /\ reply[c] = "refused"
    /\ End(c, "refused")

Poll(c) ==
    /\ pc[c] = "sleeping" /\ now = timer[c]
    /\ Send(c, "polling")
    /\ UNCHANGED <<now, deadline, reply, task, created>>

\* Mutants of the interpretation of command_status: running counts as success, or
\* as failure; the status is handed on uninterpreted.
TaskSucceededRaw(c) ==
    /\ pc[c] = "polling" /\ reply[c] = "success"
    /\ End(c, reply[c])
TaskSucceededEarly(c) ==
    /\ pc[c] = "polling" /\ reply[c] \in {"success", "running"}
    /\ End(c, "succeeded")

TaskSucceeded(c) ==
    /\ pc[c] = "polling" /\ reply[c] = "success"
    /\ End(c, "succeeded")

TaskFailedEarly(c) ==
    /\ pc[c] = "polling" /\ reply[c] \in {"failed", "running"}
    /\ End(c, "failed")

TaskFailed(c) ==
    /\ pc[c] = "polling" /\ reply[c] = "failed"
    /\ End(c, "failed")

\* Mutant: the deadline is compared with the time before the last sleep.
KeepPollingStale(c) ==
    /\ pc[c] = "polling" /\ reply[c] = "running" /\ now < deadline[c] + PollInterval
    /\ SleepFor(c, PollInterval)
    /\ UNCHANGED <<now, deadline, task, created>>

\* Still running, and the deadline has not come: sleep and poll again.
KeepPolling(c) ==
    /\ pc[c] = "polling" /\ reply[c] = "running" /\ now < deadline[c]
    /\ SleepFor(c, PollInterval)
    /\ UNCHANGED <<now, deadline, task, created>>

\* Mutant: neither branch is taken at the deadline itself.
TimeOutLate(c) ==
    /\ pc[c] = "polling" /\ reply[c] = "running" /\ now > deadline[c]
    /\ End(c, "timed_out")

\* Still running at the deadline: the timeout exception.
TimeOut(c) ==
    /\ pc[c] = "polling" /\ reply[c] = "running" /\ now >= deadline[c]
    /\ End(c, "timed_out")

\* An exchange fails (HTTP error, connection, timeout, an error envelope, a
\* missing token) or the call is cancelled: the exception ends the call, and
\* whatever was submitted goes on.
CallErrs(c) ==
    /\ pc[c] \in Active
    /\ End(c, "errored")

-----------------------------------------------------------------------------
(* The server and the device, as the client's code relies on them. *)

Answer(c, r) == reply' = [reply EXCEPT ![c] = r]

\* A submit reaches the server, possibly after the client gave up on it.
ServerCreates(c) ==
    /\ task[c] = "sent"
    /\ task' = [task EXCEPT ![c] = "running"]
    /\ created' = [created EXCEPT ![c] = now]
    /\ IF pc[c] = "submitting" THEN Answer(c, "accepted") ELSE UNCHANGED reply
    /\ UNCHANGED <<now, pc, clocks>>

ServerRefuses(c) ==
    /\ task[c] = "sent"
    /\ task' = [task EXCEPT ![c] = "refused"]
    /\ IF pc[c] = "submitting" THEN Answer(c, "refused") ELSE UNCHANGED reply
    /\ UNCHANGED <<now, pc, clocks, created>>

Alive(c) == task[c] = "running" /\ now < created[c] + Expire

\* The device carries the task out, or it fails on the device.
DeviceApplies(c) ==
    /\ Alive(c)
    /\ task' = [task EXCEPT ![c] = "applied"]
    /\ UNCHANGED <<now, pc, clocks, reply, created>>

DeviceFails(c) ==
    /\ Alive(c)
    /\ task' = [task EXCEPT ![c] = "failed"]
    /\ UNCHANGED <<now, pc, clocks, reply, created>>

\* command_status: 8 once applied, 2 while running.  A task that expired may be
\* reported as failed, or be stuck in the running state.
ServerReports(c) ==
    /\ pc[c] = "polling" /\ reply[c] = "none"
    /\ \/ task[c] = "applied" /\ Answer(c, "success")
       \/ task[c] = "failed" /\ Answer(c, "failed")
       \/ task[c] = "running" /\ Answer(c, "running")
       \/ task[c] = "running" /\ ~Alive(c) /\ Answer(c, "failed")
    /\ UNCHANGED <<now, pc, clocks, task, created>>

\* Time passes while a call is under way (or the bound for starting one has not
\* come).  A sleeper wakes on time, and no exchange outlives its latency.
Tick ==
    /\ now < StartBy \/ \E c \in Calls : pc[c] \in Active \/ Alive(c)
    /\ \A c \in Calls : pc[c] \in Active => now < timer[c]
    /\ now' = now + 1
    /\ UNCHANGED <<pc, clocks, reply, task, created>>

-----------------------------------------------------------------------------

Step(c) ==
    \/ SubmitAccepted(c) \/ SubmitRefused(c) \/ Poll(c) \/ TaskSucceeded(c)
    \/ TaskFailed(c) \/ KeepPolling(c) \/ TimeOut(c) \/ CallErrs(c)

Server(c) ==
    \/ ServerCreates(c) \/ ServerRefuses(c) \/ ServerReports(c)
    \/ DeviceApplies(c) \/ DeviceFails(c)

Next == (\E c \in Calls : Submit(c) \/ Step(c) \/ Server(c)) \/ Tick

\* The event loop runs what can run, exchanges end (the session's timeout) and
\* time goes on.  Nothing makes the device act.
Progress(c) ==
    \/ SubmitAccepted(c) \/ SubmitRefused(c) \/ Poll(c) \/ TaskSucceeded(c)
    \/ TaskFailed(c) \/ KeepPolling(c) \/ TimeOut(c)

Fairness ==
    /\ \A c \in Calls :
         WF_vars(Progress(c) \/ (reply[c] = "none" /\ (ServerCreates(c) \/ ServerRefuses(c) \/ ServerReports(c))))
    /\ WF_vars(Tick)

Spec == Init /\ [][Next]_vars /\ Fairness

-----------------------------------------------------------------------------
(* Properties. *)

\* A timeout means the server has let the task expire (or it was done after
\* all): nothing is left that could still change the device.  This is why the
\* client's deadline is the task's own life time.
TimeoutMeansOver == \A c \in Calls : pc[c] = "timed_out" => ~Alive(c)

\* A call lasts at most until its deadline, plus one poll that was due then.
BoundedCall ==
    \A c \in Calls : pc[c] \in {"sleeping", "polling"} =>
        \/ now < deadline[c] + PollInterval + Latency
        \/ now <= deadline[c] - ClientTimeout + FirstPoll + Latency

\* A write changes the device after its call ended only if the call ended with
\* a communication error, never after an answer of any kind.
NoWriteBehindAnAnswer ==
    [][\A c \in Calls : (task[c] # "applied" /\ task'[c] = "applied") => pc[c] \in Active \cup {"errored"}]_vars

\* A stuck task does not hang its caller.
EveryCallEnds == \A c \in Calls : (pc[c] \in Active) ~> (pc[c] \in Ended)

\* The call keeps the promise of WriteCall.
Effect(c) ==
    CASE task[c] = "none" -> "none"
      [] task[c] = "sent" \/ Alive(c) -> "open"
      [] task[c] = "applied" -> "applied"
      [] OTHER -> "over"

Promise == INSTANCE WriteCall WITH
    status <- [c \in Calls |-> IF pc[c] \in Active THEN "pending" ELSE pc[c]],
    effect <- [c \in Calls |-> Effect(c)]

KeepsPromise == Promise!WriteSpec
=============================================================================
