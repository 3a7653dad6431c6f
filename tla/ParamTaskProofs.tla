-------------------------- MODULE ParamTaskProofs ---------------------------
(* Proofs about ParamTask, for every value of its constants. *)
EXTENDS ParamTask, TLAPS

\* wait_for_task's default: the client waits as long as the server keeps the task.
LongEnough == ClientTimeout >= Expire

-----------------------------------------------------------------------------
(* The inductive invariant. *)

Created(c) == task[c] \in {"running", "applied", "failed"} /\ created[c] <= now

\* The task is over without effect.
Over(c) == task[c] = "failed" \/ (task[c] = "running" /\ ~Alive(c))

\* What the client knows of its task while a call is under way.
KnowsTask(c) ==
    /\ pc[c] = "idle" => task[c] = "none"
    /\ pc[c] \in {"sleeping", "polling"} => Created(c) /\ created[c] + ClientTimeout <= deadline[c]

\* What an answer on its way to the client says is still so when it arrives.
AnswersHold(c) ==
    /\ reply[c] \in {"accepted", "refused"} => pc[c] = "submitting"
    /\ reply[c] \in {"running", "success", "failed"} => pc[c] = "polling"
    /\ reply[c] = "accepted" => Created(c)
    /\ reply[c] = "refused" => task[c] = "refused"
    /\ reply[c] = "success" => task[c] = "applied"
    /\ reply[c] = "failed" => Over(c)

\* And after the call has ended with it.
EndsHold(c) ==
    /\ pc[c] = "refused" => task[c] = "refused"
    /\ pc[c] = "succeeded" => task[c] = "applied"
    /\ pc[c] = "failed" => Over(c)
    /\ pc[c] = "timed_out" => Created(c) /\ created[c] + ClientTimeout <= now

\* No sleep or exchange lasts beyond its timer, and no timer lies far beyond the
\* deadline.
TimerSet(c) ==
    /\ pc[c] \in Active => now <= timer[c]
    /\ pc[c] = "sleeping" =>
        timer[c] < deadline[c] + PollInterval \/ timer[c] <= deadline[c] - ClientTimeout + FirstPoll
    /\ pc[c] = "polling" =>
        \/ timer[c] < deadline[c] + PollInterval + Latency
        \/ timer[c] <= deadline[c] - ClientTimeout + FirstPoll + Latency

CallInv(c) == KnowsTask(c) /\ AnswersHold(c) /\ EndsHold(c) /\ TimerSet(c)

IInv == TypeOK /\ \A c \in Calls : CallInv(c)

-----------------------------------------------------------------------------
(* Types. *)

\* The steps of a call keep the types.
LEMMA CallTyped ==
  ASSUME TypeOK, NEW c \in Calls, Submit(c) \/ Step(c)
  PROVE  TypeOK'
<1> USE ConstantsAssumption DEF TypeOK, clocks, Goto, Active, Ended, Replies, TaskStates
<1>1. CASE Submit(c)
  BY <1>1 DEF Submit, Send
<1>2. CASE SubmitAccepted(c)
  BY <1>2 DEF SubmitAccepted, SleepFor
<1>3. CASE Poll(c)
  BY <1>3 DEF Poll, Send
<1>4. CASE KeepPolling(c)
  BY <1>4 DEF KeepPolling, SleepFor
<1>5. ASSUME NEW how \in Ended, End(c, how)  PROVE TypeOK'
  BY <1>5 DEF End
<1>6. CASE SubmitRefused(c) \/ TaskSucceeded(c) \/ TaskFailed(c) \/ TimeOut(c) \/ CallErrs(c)
  BY <1>5, <1>6 DEF SubmitRefused, TaskSucceeded, TaskFailed, TimeOut, CallErrs
<1>. QED  BY <1>1, <1>2, <1>3, <1>4, <1>6 DEF Step

\* So do those of the server and the device.
LEMMA ServerTyped ==
  ASSUME TypeOK, NEW c \in Calls, Server(c)
  PROVE  TypeOK'
BY DEF TypeOK, clocks, Replies, TaskStates, Server, ServerCreates, ServerRefuses, ServerReports,
       DeviceApplies, DeviceFails, Answer

\* The variables keep their types: where a call is suspended, what has been answered,
\* and what the server knows of its task.
THEOREM TypeCorrect == Spec => []TypeOK
<1>1. Init => TypeOK
  BY DEF Init, TypeOK, Replies, TaskStates
<1>2. TypeOK /\ [Next]_vars => TypeOK'
  <2>1. ASSUME TypeOK, Tick  PROVE TypeOK'
    BY <2>1 DEF Tick, clocks, TypeOK
  <2>2. ASSUME TypeOK, UNCHANGED vars  PROVE TypeOK'
    BY <2>2 DEF vars, TypeOK
  <2>. QED  BY <2>1, <2>2, CallTyped, ServerTyped DEF Next
<1>. QED  BY <1>1, <1>2, PTL DEF Spec

-----------------------------------------------------------------------------
(* The invariant is inductive. *)

\* Whoever acts, the other calls are where they were.
LEMMA OthersKeep ==
  ASSUME NEW d \in Calls, CallInv(d), now' = now,
         UNCHANGED <<pc[d], timer[d], deadline[d], reply[d], task[d], created[d]>>
  PROVE  CallInv(d)'
BY DEF CallInv, KnowsTask, AnswersHold, EndsHold, TimerSet, Created, Over, Alive

\* The steps of a call keep what the client knows.
LEMMA CallStep ==
  ASSUME IInv, NEW c \in Calls, Submit(c) \/ Step(c), NEW d \in Calls
  PROVE  CallInv(d)'
<1> USE ConstantsAssumption
<1> USE DEF IInv, TypeOK, CallInv, KnowsTask, AnswersHold, EndsHold, TimerSet, Created, Over, Alive, Active,
            Goto, clocks
<1>1. CASE d # c
  BY <1>1, OthersKeep
     DEF Step, Submit, Send, SubmitAccepted, SleepFor, SubmitRefused, Poll, TaskSucceeded, TaskFailed,
         KeepPolling, TimeOut, CallErrs, End
<1>2. CASE Submit(c) /\ d = c
  BY <1>2 DEF Submit, Send
<1>3. CASE SubmitAccepted(c) /\ d = c
  BY <1>3 DEF SubmitAccepted, SleepFor
<1>4. CASE SubmitRefused(c) /\ d = c
  BY <1>4 DEF SubmitRefused, End
<1>5. CASE Poll(c) /\ d = c
  BY <1>5 DEF Poll, Send
<1>6. CASE TaskSucceeded(c) /\ d = c
  BY <1>6 DEF TaskSucceeded, End
<1>7. CASE TaskFailed(c) /\ d = c
  BY <1>7 DEF TaskFailed, End
<1>8. CASE KeepPolling(c) /\ d = c
  BY <1>8 DEF KeepPolling, SleepFor
<1>9. CASE TimeOut(c) /\ d = c
  BY <1>9 DEF TimeOut, End
<1>10. CASE CallErrs(c) /\ d = c
  BY <1>10 DEF CallErrs, End
<1>. QED  BY <1>1, <1>2, <1>3, <1>4, <1>5, <1>6, <1>7, <1>8, <1>9, <1>10 DEF Step

\* What the server answers is so, and stays so until the answer arrives.
LEMMA ServerStep ==
  ASSUME IInv, NEW c \in Calls, Server(c), NEW d \in Calls
  PROVE  CallInv(d)'
<1> USE ConstantsAssumption
<1> USE DEF IInv, TypeOK, CallInv, KnowsTask, AnswersHold, EndsHold, TimerSet, Created, Over, Alive, Active,
            Answer, clocks
<1>1. CASE d # c
  BY <1>1, OthersKeep DEF Server, ServerCreates, ServerRefuses, ServerReports, DeviceApplies, DeviceFails
<1>2. CASE ServerCreates(c) /\ d = c
  BY <1>2 DEF ServerCreates
<1>3. CASE ServerRefuses(c) /\ d = c
  BY <1>3 DEF ServerRefuses
<1>4. CASE ServerReports(c) /\ d = c
  BY <1>4 DEF ServerReports
<1>5. CASE DeviceApplies(c) /\ d = c
  BY <1>5 DEF DeviceApplies
<1>6. CASE DeviceFails(c) /\ d = c
  BY <1>6 DEF DeviceFails
<1>. QED  BY <1>1, <1>2, <1>3, <1>4, <1>5, <1>6 DEF Server

\* Time passes: a task that is over stays over.
LEMMA TickStep ==
  ASSUME IInv, Tick, NEW d \in Calls
  PROVE  CallInv(d)'
BY ConstantsAssumption
   DEF IInv, TypeOK, CallInv, KnowsTask, AnswersHold, EndsHold, TimerSet, Created, Over, Alive, Active,
       Tick, clocks

\* What the client knows of its task, and what an answer on its way says of it, is
\* so for any deadlines, latencies and interleaving of calls.
THEOREM Invariant == Spec => []IInv
<1>1. Init => IInv
  BY DEF Init, IInv, TypeOK, CallInv, KnowsTask, AnswersHold, EndsHold, TimerSet, Active, Replies, TaskStates
<1>2. IInv /\ [Next]_vars => IInv'
  <2>1. ASSUME IInv, [Next]_vars  PROVE TypeOK'
    <3>1. CASE Tick
      BY <2>1, <3>1 DEF IInv, Tick, clocks, TypeOK
    <3>2. CASE UNCHANGED vars
      BY <2>1, <3>2 DEF IInv, vars, TypeOK
    <3>. QED  BY <2>1, <3>1, <3>2, CallTyped, ServerTyped DEF Next, IInv
  <2>2. ASSUME IInv, UNCHANGED vars  PROVE \A d \in Calls : CallInv(d)'
    BY <2>2, OthersKeep DEF vars, IInv
  <2>3. ASSUME IInv, Next  PROVE \A d \in Calls : CallInv(d)'
    BY <2>3, CallStep, ServerStep, TickStep DEF Next
  <2>. QED  BY <2>1, <2>2, <2>3 DEF IInv
<1>. QED  BY <1>1, <1>2, PTL DEF Spec

\* A call lasts at most until its deadline and one sleep and poll beyond it.
THEOREM CallsBounded == Spec => []BoundedCall
<1>1. IInv => BoundedCall
  BY ConstantsAssumption DEF IInv, TypeOK, CallInv, TimerSet, BoundedCall, Active
<1>. QED  BY <1>1, Invariant, PTL

\* If the client waits as long as the server keeps a task, a timeout means that
\* nothing is left which could still change the device.
THEOREM TimeoutsFinal ==
  ASSUME LongEnough  PROVE Spec => []TimeoutMeansOver
<1>1. IInv => TimeoutMeansOver
  BY LongEnough, ConstantsAssumption
     DEF LongEnough, IInv, TypeOK, CallInv, EndsHold, Created, Alive, TimeoutMeansOver
<1>. QED  BY <1>1, Invariant, PTL

\* Whatever its timeout, a call that gives up leaves a task that is as old as the
\* timeout: it can be carried out for no longer than the task's life exceeds that.
THEOREM TimeoutsWait ==
  Spec => [][\A c \in Calls : (pc[c] # "timed_out" /\ pc'[c] = "timed_out") => created[c] + ClientTimeout <= now]_vars
<1>1. IInv /\ [Next]_vars =>
        [\A c \in Calls : (pc[c] # "timed_out" /\ pc'[c] = "timed_out") => created[c] + ClientTimeout <= now]_vars
  <2> SUFFICES ASSUME IInv, Next, NEW c \in Calls, pc[c] # "timed_out", pc'[c] = "timed_out"
               PROVE  created[c] + ClientTimeout <= now
    OBVIOUS
  <2>1. TimeOut(c)
    BY DEF IInv, TypeOK, Next, Submit, Send, Goto, Step, SubmitAccepted, SleepFor, SubmitRefused, Poll, TaskSucceeded,
           TaskFailed, KeepPolling, TimeOut, CallErrs, End, Server, ServerCreates, ServerRefuses,
           ServerReports, DeviceApplies, DeviceFails, Tick
  <2>. QED  BY <2>1, ConstantsAssumption DEF TimeOut, IInv, TypeOK, CallInv, KnowsTask, Created
<1>. QED  BY <1>1, Invariant, PTL DEF Spec

\* The device is changed only by a call that is under way or ended with a
\* communication error, never after an answer or a timeout.
THEOREM AnswersFinal ==
  ASSUME LongEnough  PROVE Spec => NoWriteBehindAnAnswer
<1>1. IInv /\ [Next]_vars =>
        [\A c \in Calls : (task[c] # "applied" /\ task'[c] = "applied") => pc[c] \in Active \cup {"errored"}]_vars
  <2> SUFFICES ASSUME IInv, Next, NEW c \in Calls, task[c] # "applied", task'[c] = "applied"
               PROVE  pc[c] \in Active \cup {"errored"}
    OBVIOUS
  <2>1. Alive(c)
    BY DEF IInv, TypeOK, TaskStates, Next, Submit, Step, SubmitAccepted, SubmitRefused, Poll, TaskSucceeded,
           TaskFailed, KeepPolling, TimeOut, CallErrs, End, Server, ServerCreates, ServerRefuses,
           ServerReports, DeviceApplies, DeviceFails, Tick
  <2>2. pc[c] \in {"idle"} \cup Active \cup Ended
    BY DEF IInv, TypeOK
  <2>3. KnowsTask(c) /\ EndsHold(c)
    BY DEF IInv, CallInv
  <2>4. pc[c] # "timed_out"
    BY <2>1, <2>3, LongEnough, ConstantsAssumption DEF LongEnough, EndsHold, Created, Alive, IInv, TypeOK
  <2>. QED  BY <2>1, <2>2, <2>3, <2>4 DEF KnowsTask, EndsHold, Over, Alive, Ended
<1>. QED  BY <1>1, Invariant, PTL DEF Spec, NoWriteBehindAnAnswer

-----------------------------------------------------------------------------
(* ParamTask implements WriteCall. *)

\* The status a caller sees.
Status(c) == IF pc[c] \in Active THEN "pending" ELSE pc[c]

\* How the rest of the promise's state keeps still while c acts.
OthersStill(c) == \A d \in Calls \ {c} : Status(d)' = Status(d) /\ Effect(d)' = Effect(d)

\* A step that changes neither where a call stands for its caller nor its effect.
LEMMA Stutter ==
  ASSUME \A d \in Calls : Status(d)' = Status(d) /\ Effect(d)' = Effect(d)
  PROVE  UNCHANGED Promise!wvars
BY DEF Promise!wvars, Status

\* What to show of a step to have it begin, carry out or end a call.
LEMMA Begins ==
  ASSUME NEW c \in Calls, OthersStill(c),
         Status(c) = "idle", Status(c)' = "pending", Effect(c)' = "open"
  PROVE  Promise!WriteNext
<1>1. Promise!Begin(c)
  BY DEF Promise!Begin, Status, OthersStill
<1>. QED  BY <1>1 DEF Promise!WriteNext

\* A write is carried out.
LEMMA Applies ==
  ASSUME NEW c \in Calls, OthersStill(c),
         Status(c)' = Status(c), Effect(c) = "open", Effect(c)' = "applied"
  PROVE  Promise!WriteNext
<1>1. Promise!Apply(c)
  BY DEF Promise!Apply, Status, OthersStill
<1>. QED  BY <1>1 DEF Promise!WriteNext

\* A call ends, with what it lets the caller conclude.
LEMMA Ends ==
  ASSUME NEW c \in Calls, OthersStill(c), NEW how \in Ended,
         Status(c) = "pending", Status(c)' = how, Effect(c)' = Effect(c),
         how = "succeeded" => Effect(c) = "applied",
         how \in {"refused", "failed"} => Effect(c) = "over",
         how = "timed_out" => Effect(c) \in {"applied", "over"}
  PROVE  Promise!WriteNext
<1>1. Promise!End(c, how)
  BY DEF Promise!End, Promise!Concludes, Status, OthersStill, Ended
<1>. QED  BY <1>1 DEF Promise!WriteNext, Promise!Answers, Ended

\* Any number of writes stop being possible at once.
LEMMA GivesUp ==
  ASSUME NEW cs \in SUBSET Calls,
         \A d \in Calls : Status(d)' = Status(d),
         \A d \in cs : Effect(d) = "open" /\ Effect(d)' = "over",
         \A d \in Calls \ cs : Effect(d)' = Effect(d)
  PROVE  Promise!WriteNext
<1>1. Promise!GiveUp(cs)
  BY DEF Promise!GiveUp, Status
<1>. QED  BY <1>1 DEF Promise!WriteNext

\* The effect of a write is a matter of its own task and of the clock.
LEMMA SameEffect ==
  ASSUME NEW d \in Calls, now' = now, task'[d] = task[d], created'[d] = created[d]
  PROVE  Effect(d)' = Effect(d)
BY DEF Effect, Alive

\* Where a call stands for its caller is a matter of its own end.
LEMMA SameStatus ==
  ASSUME NEW d \in Calls, pc'[d] = pc[d]
  PROVE  Status(d)' = Status(d)
BY DEF Status

\* Submitting begins a call.
LEMMA SubmitKept ==
  ASSUME IInv, NEW c \in Calls, Submit(c)
  PROVE  Promise!WriteNext
<1>1. OthersStill(c)
  BY SameEffect, SameStatus DEF OthersStill, IInv, TypeOK, Submit, Send, Goto
<1>2. Status(c) = "idle" /\ Status(c)' = "pending"
  BY DEF Status, IInv, TypeOK, Submit, Send, Goto, Active
<1>3. task'[c] = "sent"
  BY DEF IInv, TypeOK, Submit
<1>4. Effect(c)' = "open"
  BY <1>3 DEF Effect, Alive
<1>. QED  BY <1>1, <1>2, <1>4, Begins

\* A call that ends does so with what its task allows it to conclude.
LEMMA EndKept ==
  ASSUME IInv, NEW c \in Calls, NEW how \in Ended, End(c, how), pc[c] \in Active,
         how = "refused" => task[c] = "refused",
         how = "succeeded" => task[c] = "applied",
         how = "failed" => Over(c),
         how = "timed_out" => Created(c) /\ ~Alive(c)
  PROVE  Promise!WriteNext
<1>1. OthersStill(c)
  BY SameEffect, SameStatus DEF OthersStill, IInv, TypeOK, End, Goto
<1>2. Effect(c)' = Effect(c)
  BY SameEffect DEF End
<1>3. Status(c) = "pending" /\ Status(c)' = how
  BY DEF Status, IInv, TypeOK, End, Goto, Active, Ended
<1>4. /\ how = "succeeded" => Effect(c) = "applied"
      /\ how \in {"refused", "failed"} => Effect(c) = "over"
      /\ how = "timed_out" => Effect(c) \in {"applied", "over"}
  BY DEF Effect, Over, Created, Alive
<1>. QED  BY <1>1, <1>2, <1>3, <1>4, Ends

\* The steps of a call.  The server's task never outlives the client's deadline.
LEMMA CallKept ==
  ASSUME IInv, LongEnough, NEW c \in Calls, Step(c)
  PROVE  [Promise!WriteNext]_Promise!wvars
<1>1. CASE SubmitAccepted(c) \/ Poll(c) \/ KeepPolling(c)
  <2>1. \A d \in Calls : Status(d)' = Status(d)
    BY <1>1 DEF Status, IInv, TypeOK, SubmitAccepted, Poll, KeepPolling, Send, SleepFor, Goto, Active
  <2>2. \A d \in Calls : Effect(d)' = Effect(d)
    BY <1>1, SameEffect DEF SubmitAccepted, Poll, KeepPolling, Send
  <2>. QED  BY <2>1, <2>2, Stutter
<1>2. CASE SubmitRefused(c)
  BY <1>2, EndKept DEF SubmitRefused, IInv, CallInv, AnswersHold, Active, Ended
<1>3. CASE TaskSucceeded(c)
  BY <1>3, EndKept DEF TaskSucceeded, IInv, CallInv, AnswersHold, Active, Ended
<1>4. CASE TaskFailed(c)
  BY <1>4, EndKept DEF TaskFailed, IInv, CallInv, AnswersHold, Active, Ended
<1>5. CASE TimeOut(c)
  <2>1. Created(c) /\ created[c] + ClientTimeout <= now
    BY <1>5, ConstantsAssumption DEF TimeOut, IInv, TypeOK, CallInv, KnowsTask, Created
  <2>2. ~Alive(c)
    BY <2>1, LongEnough, ConstantsAssumption DEF LongEnough, Alive, IInv, TypeOK
  <2>. QED  BY <1>5, <2>1, <2>2, EndKept DEF TimeOut, Active, Ended
<1>6. CASE CallErrs(c)
  BY <1>6, EndKept DEF CallErrs, Ended
<1>. QED  BY <1>1, <1>2, <1>3, <1>4, <1>5, <1>6 DEF Step

\* The steps of the server and the device.
LEMMA ServerKept ==
  ASSUME IInv, NEW c \in Calls, Server(c)
  PROVE  [Promise!WriteNext]_Promise!wvars
<1>1. \A d \in Calls : Status(d)' = Status(d)
  BY DEF Status, Server, ServerCreates, ServerRefuses, ServerReports, DeviceApplies, DeviceFails
<1>2. \A d \in Calls \ {c} : Effect(d)' = Effect(d)
  BY SameEffect DEF IInv, TypeOK, Server, ServerCreates, ServerRefuses, ServerReports, DeviceApplies, DeviceFails
<1>3. ASSUME Effect(c) = "open", Effect(c)' = "over"  PROVE Promise!WriteNext
  <2>1. \A d \in Calls \ {c} : Effect(d)' = Effect(d)
    BY <1>2
  <2>. QED  BY <1>1, <1>3, <2>1, GivesUp, {c} \in SUBSET Calls
<1>4. ASSUME Effect(c)' = Effect(c)  PROVE UNCHANGED Promise!wvars
  BY <1>1, <1>2, <1>4, Stutter
<1>5. CASE ServerCreates(c)
  <2>1. task[c] = "sent" /\ task'[c] = "running"
    BY <1>5 DEF ServerCreates, IInv, TypeOK
  <2>2. Effect(c) = "open" /\ Effect(c)' \in {"open", "over"}
    BY <2>1 DEF Effect, Alive
  <2>. QED  BY <2>2, <1>3, <1>4
<1>6. CASE ServerRefuses(c) \/ DeviceFails(c)
  <2>1. /\ task[c] = "sent" \/ Alive(c)
        /\ task'[c] \in {"refused", "failed"}
    BY <1>6 DEF ServerRefuses, DeviceFails, IInv, TypeOK
  <2>2. Effect(c) = "open" /\ Effect(c)' = "over"
    BY <2>1 DEF Effect, Alive
  <2>. QED  BY <2>2, <1>3
<1>7. CASE DeviceApplies(c)
  <2>1. Alive(c) /\ task'[c] = "applied"
    BY <1>7 DEF DeviceApplies, IInv, TypeOK
  <2>2. Effect(c) = "open" /\ Effect(c)' = "applied"
    BY <2>1 DEF Effect, Alive
  <2>. QED  BY <2>2, <1>1, <1>2, Applies DEF OthersStill
<1>8. CASE ServerReports(c)
  BY <1>4, <1>8, SameEffect DEF ServerReports
<1>. QED  BY <1>5, <1>6, <1>7, <1>8 DEF Server

\* The clock: tasks that reach the end of their life are over, those already over
\* stay so.
LEMMA TickKept ==
  ASSUME IInv, Tick
  PROVE  Promise!WriteNext
<1> DEFINE Expiring == {d \in Calls : Alive(d) /\ ~Alive(d)'}
<1>1. \A d \in Calls : Status(d)' = Status(d)
  BY DEF Status, Tick
<1>2. \A d \in Expiring : Effect(d) = "open" /\ Effect(d)' = "over"
  BY DEF Effect, Alive, Tick
<1>3. \A d \in Calls \ Expiring : Alive(d)' = Alive(d)
  BY ConstantsAssumption DEF Alive, Tick, IInv, TypeOK
<1>4. \A d \in Calls \ Expiring : Effect(d)' = Effect(d)
  BY <1>3 DEF Effect, Tick
<1>5. Expiring \in SUBSET Calls
  OBVIOUS
<1> HIDE DEF Expiring
<1>. QED  BY <1>1, <1>2, <1>4, <1>5, GivesUp

\* The call implements what WriteCall promises its caller, if the client waits as
\* long as the server keeps the task.
THEOREM Refinement ==
  ASSUME LongEnough  PROVE Spec => KeepsPromise
<1>1. Init => Promise!WriteInit
  <2> SUFFICES ASSUME Init  PROVE Promise!WriteInit
    OBVIOUS
  <2>1. \A c \in Calls : Effect(c) = "none"
    BY DEF Init, Effect, Alive
  <2>2. \A c \in Calls : (IF pc[c] \in Active THEN "pending" ELSE pc[c]) = "idle"
    BY DEF Init, Active
  <2>. QED  BY <2>1, <2>2 DEF Promise!WriteInit
<1>2. IInv /\ [Next]_vars => [Promise!WriteNext]_Promise!wvars
  <2>1. ASSUME UNCHANGED vars  PROVE UNCHANGED Promise!wvars
    BY <2>1, Stutter, SameEffect, SameStatus DEF vars
  <2>. QED  BY <2>1, SubmitKept, CallKept, ServerKept, TickKept, LongEnough DEF Next
<1>. QED  BY <1>1, <1>2, Invariant, PTL DEF Spec, KeepsPromise, Promise!WriteSpec

=============================================================================
