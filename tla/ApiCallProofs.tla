--------------------------- MODULE ApiCallProofs ----------------------------
(* Proofs about ApiCall, for every value of its constants. *)
EXTENDS ApiCall, TLAPS

Running == pc \in {"token", "post"}

-----------------------------------------------------------------------------
(* Where a call is: what is posted belongs to its operation. *)

Purpose ==
    \/ call.op = "check" /\ stage = "check"
    \/ call.op \in {"read_all", "read_list", "write"} /\ stage \in {"submit", "poll"}
    \/ call.op = "user_call" /\ stage = "request" /\ call.transport = "user"
    \/ call.op = "plant_call" /\ stage = "request"
    \/ call.op = "realtime" /\ stage = "chunk"

ControlInv ==
    /\ pc \in {"idle", "token", "post", "done"}
    /\ pc = "idle" => call = NoCall /\ bulk_err = None
    /\ Running => Purpose /\ call.transport \in Transports
    /\ bulk_err # None => call.op = "read_all"

\* The classifiers return exceptions of the library.
LEMMA Classified ==
  ASSUME NEW e
  PROVE  FromResponse(e) \in LibraryErrors /\ FromResponse(e) # None
<1>1. CASE (IF e.error # None THEN e.error ELSE e.code) \in AUTH_ERROR_CODES
  BY <1>1, NoneIsNoText DEF FromResponse, LibraryErrors, AUTH_ERROR_CODES, RATE_LIMIT_CODES
<1>2. CASE /\ (IF e.error # None THEN e.error ELSE e.code) \notin AUTH_ERROR_CODES
           /\ (IF e.error # None THEN e.error ELSE e.code) \in RATE_LIMIT_CODES
  BY <1>2, NoneIsNoText DEF FromResponse, LibraryErrors
<1>3. CASE (IF e.error # None THEN e.error ELSE e.code) \notin AUTH_ERROR_CODES \cup RATE_LIMIT_CODES
  BY <1>3, NoneIsNoText DEF FromResponse, LibraryErrors
<1>. QED  BY <1>1, <1>2, <1>3

\* A refusal for the credentials or the quota is turned into an exception of that
\* class, and every reader of a reply takes the envelope for a failure.
LEMMA RefusalsClassified ==
  ASSUME NEW e \in Envelopes, Refuses(e)
  PROVE  /\ FromResponse(e) = RefusalOf(e) /\ RefusalOf(e) \in FatalErrors
         /\ e.code # None /\ ~SaysOne(e)
<1>1. e.error = None /\ e.code \in AUTH_ERROR_CODES \cup RATE_LIMIT_CODES
  <2>1. e.error = None \/ e.code = None
    <3>1. \E error, code, success : e = Envelope(error, code, success) /\ None \in {error, code}
      BY DEF Envelopes
    <3>. QED  BY <3>1 DEF Envelope
  <2>2. e.code \in AUTH_ERROR_CODES \cup RATE_LIMIT_CODES
    BY DEF Refuses
  <2>. QED  BY <2>1, <2>2, NoneIsNoText
<1>2. e.code \in AUTH_ERROR_CODES => e.code \notin RATE_LIMIT_CODES
  BY DEF AUTH_ERROR_CODES, RATE_LIMIT_CODES
<1>3. e.code # None /\ ~SaysOne(e)
  BY <1>1, NoneIsNoText DEF SaysOne, AUTH_ERROR_CODES, RATE_LIMIT_CODES
<1>. QED  BY <1>1, <1>2, <1>3 DEF FromResponse, RefusalOf, FatalErrors

\* The exceptions that come in place of a token.
LEMMA TokenFailures ==
  ASSUME TokenFails, call.transport \in Transports
  PROVE  \E error \in LibraryErrors \cup {"other"} : error # None /\ Fails(error)
<1>1. None \notin LibraryErrors \cup {"other"}
  BY NoneIsNoText
<1>2. TokenErrors[call.transport] \subseteq LibraryErrors
  BY DEF TokenErrors, Transports, LibraryErrors
<1>. QED  BY <1>1, <1>2 DEF TokenFails, LibraryErrors

\* An exception ends the call, or leads to the next of the single reads; one that
\* concerns credentials or quota always ends it.
LEMMA FailsEffect ==
  ASSUME ControlInv, Running, NEW error, error # None, Fails(error)
  PROVE  /\ ControlInv' /\ call' = call
         /\ pc' = "done" \/ (call.op = "read_all" /\ pc' = "token")
         /\ (call.op # "read_all" \/ error \in FatalErrors) => pc' = "done" /\ outcome'.error = error
<1>1. CASE Falls(error) /\ bulk_err = None /\ NextRead(<<>>, AllCodes, error)
  BY <1>1 DEF ControlInv, Running, Purpose, NextRead, Exchange, Falls
<1>2. CASE Falls(error) /\ bulk_err # None /\ NextRead(rows, todo, bulk_err)
  BY <1>2 DEF ControlInv, Running, Purpose, NextRead, Exchange, Falls
<1>3. CASE ~Falls(error) /\ Raise(error)
  <2>1. pc' = "done" /\ outcome'.error = error /\ call' = call /\ bulk_err' = bulk_err
    BY <1>3 DEF Raise, EndWith, progress
  <2>. QED  BY <2>1 DEF ControlInv, Running
<1>. QED  BY <1>1, <1>2, <1>3 DEF Fails

LEMMA GivesEffect ==
  ASSUME ControlInv, Running, NEW got, Gives(got)
  PROVE  /\ ControlInv' /\ call' = call
         /\ pc' = "done" \/ (call.op = "read_all" /\ pc' = "token")
<1>1. CASE bulk_err # None /\ NextRead(rows \o got, todo, bulk_err)
  BY <1>1 DEF ControlInv, Running, Purpose, NextRead, Exchange
<1>2. CASE bulk_err = None /\ Return(got)
  <2>1. pc' = "done" /\ call' = call /\ bulk_err' = bulk_err
    BY <1>2 DEF Return, EndWith, progress
  <2>. QED  BY <2>1 DEF ControlInv, Running
<1>. QED  BY <1>1, <1>2 DEF Gives

\* A call begins with an exchange for its operation, or ends before it is sent.
LEMMA BeginEffect ==
  ASSUME ControlInv, Begin
  PROVE  /\ pc = "idle" /\ ControlInv' /\ UNCHANGED <<executed, refusal>>
         /\ (pc' = "token" /\ stage' # "poll") \/ (pc' = "done" /\ call' = NoCall)
<1> USE DEF ControlInv, Running, Purpose, Transports, NoCall
<1>1. ASSUME NEW c, NEW first, Start(c, first), c.transport \in Transports, first # "poll",
             \/ c.op = "check" /\ first = "check"
             \/ c.op \in {"read_all", "read_list", "write"} /\ first = "submit"
             \/ c.op = "user_call" /\ first = "request" /\ c.transport = "user"
             \/ c.op = "plant_call" /\ first = "request"
      PROVE  /\ pc = "idle" /\ ControlInv' /\ UNCHANGED <<executed, refusal>>
             /\ pc' = "token" /\ stage' # "poll"
  BY <1>1 DEF Start, Exchange
<1>2. ASSUME NEW how, pc = "idle", EndWith(how), UNCHANGED <<executed, history, refusal>>
      PROVE  ControlInv' /\ UNCHANGED <<executed, refusal>> /\ pc' = "done" /\ call' = NoCall
  BY <1>2 DEF EndWith, progress
<1>3. CASE StartCheck
  BY <1>3, <1>1 DEF StartCheck
<1>4. CASE StartReadAll
  BY <1>4, <1>1 DEF StartReadAll
<1>5. CASE StartReadList
  BY <1>5, <1>1 DEF StartReadList
<1>6. CASE StartWrite
  <2>1. PICK w \in Writes, t \in Transports :
             \E encoded : \/ Raise(encoded.error) /\ UNCHANGED <<executed, history, refusal>>
                          \/ Start(Wire(w, t, encoded.raw), "submit")
    BY <1>6 DEF StartWrite
  <2>. QED  BY <2>1, <1>6, <1>1, <1>2 DEF StartWrite, Wire, Raise
<1>7. CASE StartUserCall
  BY <1>7, <1>1, <1>2 DEF StartUserCall, StartRequest, Raise
<1>8. CASE StartPlantCall
  BY <1>8, <1>1, <1>2 DEF StartPlantCall, StartRequest, Raise
<1>9. CASE StartRealtime
  <2>1. CASE (Raise("ValueError") \/ Return(<<>>)) /\ UNCHANGED history
    BY <2>1, <1>9, <1>2 DEF StartRealtime, Raise, Return
  <2>2. CASE /\ call' = [op |-> "realtime", transport |-> "oauth"]
             /\ Exchange("chunk") /\ UNCHANGED bulk_err
    BY <2>2, <1>9 DEF StartRealtime, Exchange
  <2>. QED  BY <2>1, <2>2, <1>9 DEF StartRealtime
<1>. QED  BY <1>3, <1>4, <1>5, <1>6, <1>7, <1>8, <1>9 DEF Begin

\* A call that is under way keeps its purpose.
LEMMA ProcessControl ==
  ASSUME ControlInv, pc = "post", NEW e \in Envelopes, Process(e)
  PROVE  ControlInv' /\ call' = call
<1> USE DEF Running
<1>1. ASSUME NEW how, EndWith(how)  PROVE ControlInv' /\ call' = call
  BY <1>1 DEF EndWith, progress, ControlInv
<1>2. ASSUME stage \in {"submit", "poll"}, Exchange("poll"), UNCHANGED <<call, bulk_err>>
      PROVE  ControlInv' /\ call' = call
  BY <1>2 DEF Exchange, ControlInv, Purpose
<1>3. CASE RequestRaises(e)
  BY <1>3, Classified, FailsEffect DEF RequestRaises
<1>4. CASE PlatformRaises(e)
  BY <1>4, <1>1 DEF PlatformRaises, Raise
<1>5. ASSUME NEW r \in BOOLEAN, ChunkAnswered(e, r)  PROVE ControlInv' /\ call' = call
  <2>1. CASE Exchange("chunk") /\ UNCHANGED <<call, bulk_err>>
    BY <2>1, <1>5 DEF ChunkAnswered, Exchange, ControlInv, Purpose
  <2>. QED  BY <2>1, <1>1, <1>5 DEF ChunkAnswered, Raise, Return
<1>6. ASSUME NEW p \in SupportPayloads, CheckAnswered(e, p)  PROVE ControlInv' /\ call' = call
  BY <1>6, <1>1 DEF CheckAnswered, Raise, Return
<1>7. ASSUME NEW p \in SubmitPayloads, SubmitAnswered(e, p)  PROVE ControlInv' /\ call' = call
  BY <1>7, <1>2, FailsEffect DEF SubmitAnswered
<1>8. CASE StillRunning(e)
  BY <1>8, <1>2, FailsEffect, NoneIsNoText DEF StillRunning, LibraryErrors
<1>9. ASSUME NEW s \in TaskStatuses, TaskFails(e, s)  PROVE ControlInv' /\ call' = call
  BY <1>9, FailsEffect, NoneIsNoText DEF TaskFails
<1>10. ASSUME NEW got \in Answers, NEW f \in RowFaults, TaskDone(e, got, f)
       PROVE  ControlInv' /\ call' = call
  BY <1>10, FailsEffect, GivesEffect, NoneIsNoText DEF TaskDone
<1>11. ASSUME NEW d \in ResultData, RequestAnswered(e, d)  PROVE ControlInv' /\ call' = call
  BY <1>11, <1>1 DEF RequestAnswered
<1>. QED  BY <1>3, <1>4, <1>5, <1>6, <1>7, <1>8, <1>9, <1>10, <1>11 DEF Process

LEMMA StepControl ==
  ASSUME ControlInv, Step
  PROVE  ControlInv' /\ call' = call /\ Running
<1>1. CASE TokenReady
  BY <1>1 DEF TokenReady, progress, ControlInv, Running, Purpose
<1>2. CASE TokenFails
  <2>1. \E error : error # None /\ Fails(error)
    BY <1>2, TokenFailures DEF TokenFails, ControlInv, Running
  <2>. QED  BY <2>1, <1>2, FailsEffect DEF TokenFails, Running
<1>3. CASE ReplyLost
  BY <1>3, FailsEffect, NoneIsNoText DEF ReplyLost, Running, LibraryErrors
<1>4. CASE ReplyArrives
  <2>1. PICK e \in Envelopes : LoginAgain(e) \/ Process(e)
    BY <1>4 DEF ReplyArrives
  <2>2. CASE LoginAgain(e)
    BY <2>2, <1>4 DEF LoginAgain, ReplyArrives, ControlInv, Running, Purpose
  <2>. QED  BY <2>1, <2>2, <1>4, ProcessControl DEF ReplyArrives, Running
<1>. QED  BY <1>1, <1>2, <1>3, <1>4 DEF Step

THEOREM Controlled == Spec => []ControlInv
<1>1. Init => ControlInv
  BY DEF Init, ControlInv, Running
<1>2. ControlInv /\ [Next]_vars => ControlInv'
  <2>1. ASSUME ControlInv, UNCHANGED vars  PROVE ControlInv'
    BY <2>1 DEF vars, ControlInv, Running, Purpose
  <2>. QED  BY <2>1, BeginEffect, StepControl DEF Next
<1>. QED  BY <1>1, <1>2, PTL DEF Spec

-----------------------------------------------------------------------------
(* A write is carried out once.  The strengthening says when: a task exists on    *)
(* the server exactly while it is polled for.                                     *)

WriteInv ==
    /\ executed \in {0, 1}
    /\ pc = "idle" \/ ~Modifies => executed = 0
    /\ Running /\ Modifies => (executed = 1 <=> stage = "poll")
    /\ pc = "done" /\ Modifies /\ outcome.error = None => executed = 1

\* A submit that is taken for accepted was carried out.
LEMMA AcceptedMeansTask ==
  ASSUME NEW e \in Envelopes, NEW payload \in SubmitPayloads, stage = "submit", Usable(e),
         call.transport \in Transports, CheckParamReply(e, payload, Required) = None
  PROVE  Succeeded(e) /\ payload = "task"
<1>1. CheckEnvelope(e, Required) = None
  BY NoneIsNoText DEF CheckParamReply, LibraryErrors
<1>2. payload = "task"
  BY <1>1, NoneIsNoText DEF CheckParamReply, SubmitPayloads, LibraryErrors
<1>3. SaysOne(e) \/ (e.code = None /\ ~Required)
  BY <1>1, Classified, NoneIsNoText DEF CheckEnvelope, LibraryErrors
<1>. QED  BY <1>2, <1>3 DEF Succeeded, Usable, Required, Transports

\* What an answer does to a call that writes: the server has acted or not, and the
\* call ends or goes on to poll.
LEMMA ProcessWrites ==
  ASSUME ControlInv, pc = "post", Modifies, NEW e \in Envelopes, Process(e)
  PROVE  \/ /\ stage # "poll" /\ executed' \in {executed, executed + 1}
            /\ \/ pc' = "done" /\ (outcome'.error # None \/ executed' = executed + 1)
               \/ pc' = "token" /\ stage' = "poll" /\ executed' = executed + 1
         \/ stage = "poll" /\ UNCHANGED executed /\ (pc' = "done" \/ (pc' = "token" /\ stage' = "poll"))
<1> USE DEF Running
<1>0. /\ call.op # "read_all" /\ bulk_err = None
      /\ \/ call.op = "write" /\ stage \in {"submit", "poll"}
         \/ call.op = "user_call" /\ stage = "request"
      /\ call.transport \in Transports
  BY DEF ControlInv, Purpose, Modifies
<1>1. ASSUME NEW error, error # None, Fails(error)  PROVE pc' = "done" /\ outcome'.error # None
  BY <1>0, <1>1, FailsEffect
<1>3. CASE RequestRaises(e)
  BY <1>0, <1>3, <1>1, Classified DEF RequestRaises
<1>4. ~PlatformRaises(e)
  BY <1>0 DEF PlatformRaises
<1>5. ASSUME NEW r \in BOOLEAN  PROVE ~ChunkAnswered(e, r)
  BY <1>0 DEF ChunkAnswered
<1>6. ASSUME NEW p \in SupportPayloads  PROVE ~CheckAnswered(e, p)
  BY <1>0 DEF CheckAnswered
<1>7. ASSUME NEW p \in SubmitPayloads, SubmitAnswered(e, p)
      PROVE  /\ stage = "submit" /\ executed' \in {executed, executed + 1}
             /\ \/ pc' = "done" /\ outcome'.error # None
                \/ pc' = "token" /\ stage' = "poll" /\ executed' = executed + 1
  <2>1. stage = "submit" /\ Usable(e) /\ executed' \in {executed, executed + 1}
    BY <1>7 DEF SubmitAnswered, Executes
  <2>2. CASE CheckParamReply(e, p, Required) # None
    BY <2>1, <2>2, <1>7, <1>1 DEF SubmitAnswered
  <2>3. CASE CheckParamReply(e, p, Required) = None
    BY <2>1, <2>3, <1>0, <1>7, AcceptedMeansTask DEF SubmitAnswered, Exchange, Executes
  <2>. QED  BY <2>1, <2>2, <2>3
<1>8. CASE StillRunning(e)
  BY <1>0, <1>8, <1>1, NoneIsNoText DEF StillRunning, LibraryErrors, Exchange
<1>9. ASSUME NEW s \in TaskStatuses, TaskFails(e, s)
      PROVE  stage = "poll" /\ UNCHANGED executed /\ pc' = "done"
  BY <1>9, <1>1, NoneIsNoText DEF TaskFails
<1>10. ASSUME NEW got \in Answers, NEW f \in RowFaults, TaskDone(e, got, f)
       PROVE  stage = "poll" /\ UNCHANGED executed /\ pc' = "done"
  BY <1>0, <1>10, <1>1, GivesEffect, NoneIsNoText DEF TaskDone
<1>11. ASSUME NEW d \in ResultData, RequestAnswered(e, d)
       PROVE  stage = "request" /\ executed' = executed + 1 /\ pc' = "done"
  BY <1>11 DEF RequestAnswered, Executes, EndWith
<1>. QED  BY <1>3, <1>4, <1>5, <1>6, <1>7, <1>8, <1>9, <1>10, <1>11 DEF Process

LEMMA ProcessReads ==
  ASSUME ControlInv, pc = "post", ~Modifies, NEW e \in Envelopes, Process(e)
  PROVE  UNCHANGED executed
BY DEF Process, RequestRaises, PlatformRaises, ChunkAnswered, CheckAnswered, SubmitAnswered,
       StillRunning, TaskFails, TaskDone, RequestAnswered, Executes

LEMMA StepWrites ==
  ASSUME ControlInv, WriteInv, Step
  PROVE  WriteInv'
<1>1. ControlInv' /\ call' = call /\ Running /\ Modifies' = Modifies
  BY StepControl DEF Modifies
<1>2. Modifies => call.op # "read_all"
  BY DEF Modifies
<1>3. ASSUME NEW error, error # None, Fails(error), Modifies
      PROVE  pc' = "done" /\ outcome'.error # None
  BY <1>1, <1>2, <1>3, FailsEffect
<1>4. CASE TokenReady
  BY <1>1, <1>4 DEF TokenReady, progress, WriteInv, Running
<1>5. CASE TokenFails
  <2>1. UNCHANGED executed
    BY <1>5 DEF TokenFails
  <2>2. \E error : error # None /\ Fails(error)
    BY <1>1, <1>5, TokenFailures DEF ControlInv
  <2>. QED  BY <1>1, <1>3, <2>1, <2>2, StepControl DEF WriteInv, ControlInv, Running
<1>6. CASE ReplyLost
  <2>1. \E error : error # None /\ Fails(error)
    BY <1>6, NoneIsNoText DEF ReplyLost, LibraryErrors
  <2>2. executed' \in {0, 1} /\ (~Modifies => executed' = executed)
    BY <1>1, <1>6 DEF ReplyLost, WriteInv
  <2>3. pc' # "idle"
    BY <1>1, <2>1, FailsEffect
  <2>. QED  BY <1>1, <1>3, <2>1, <2>2, <2>3 DEF WriteInv, Running
<1>7. CASE ReplyArrives
  <2>1. PICK e \in Envelopes : LoginAgain(e) \/ Process(e)
    BY <1>7 DEF ReplyArrives
  <2>2. CASE LoginAgain(e)
    BY <1>1, <2>2 DEF LoginAgain, WriteInv, Running
  <2>3. CASE Process(e) /\ Modifies
    BY <1>1, <1>7, <2>3, ProcessWrites DEF ReplyArrives, WriteInv, Running
  <2>4. CASE Process(e) /\ ~Modifies
    BY <1>1, <1>7, <2>4, ProcessReads DEF ReplyArrives, WriteInv, Running
  <2>. QED  BY <2>1, <2>2, <2>3, <2>4
<1>. QED  BY <1>4, <1>5, <1>6, <1>7 DEF Step

\* A write is carried out at most once, and exactly once if the call returns, with
\* any parameters, values, chunks and number of polls: what async_update_parameters
\* and the commands of UserAuth promise by never posting a second time what may
\* already have been accepted.
THEOREM WrittenOnce == Spec => []WriteOnce
<1>1. Init => WriteInv
  BY NoneIsNoOperation DEF Init, WriteInv, Modifies, NoCall, Running, Operations
<1>2. ControlInv /\ WriteInv /\ [Next]_vars => WriteInv'
  <2>1. ASSUME WriteInv, UNCHANGED vars  PROVE WriteInv'
    BY <2>1 DEF vars, WriteInv, Modifies, Running
  <2>2. ASSUME ControlInv, WriteInv, Begin  PROVE WriteInv'
    BY <2>2, BeginEffect, NoneIsNoOperation DEF WriteInv, Modifies, NoCall, Running, Operations
  <2>. QED  BY <2>1, <2>2, StepWrites DEF Next
<1>3. WriteInv => WriteOnce
  BY DEF WriteInv, WriteOnce
<1>. QED  BY <1>1, <1>2, <1>3, Controlled, PTL DEF Spec

-----------------------------------------------------------------------------
(* A refusal by an envelope ends the call.  The strengthening is that a call under *)
(* way has met none, at most a request not to repeat.                              *)

RefusalInv == RefusalEndsCall /\ refusal \in FatalErrors \cup {None, "do_not_repeat"}

\* An envelope that refuses the credentials or the quota is read as that exception
\* by whoever reads it, and none of the readers takes it for an answer.
LEMMA ProcessRefusal ==
  ASSUME ControlInv, pc = "post", NEW e \in Envelopes, Refuses(e), Process(e)
  PROVE  pc' = "done" /\ outcome'.error = RefusalOf(e)
<1> USE DEF Running
<1>0. /\ FromResponse(e) = RefusalOf(e) /\ RefusalOf(e) \in FatalErrors /\ RefusalOf(e) # None
      /\ e.code # None /\ ~SaysOne(e) /\ ~Succeeded(e)
  BY RefusalsClassified, Classified DEF Refuses
<1>1. ASSUME Fails(RefusalOf(e))  PROVE pc' = "done" /\ outcome'.error = RefusalOf(e)
  BY <1>0, <1>1, FailsEffect
<1>2. ASSUME Raise(RefusalOf(e))  PROVE pc' = "done" /\ outcome'.error = RefusalOf(e)
  BY <1>2 DEF Raise, EndWith
<1>3. CASE RequestRaises(e)
  BY <1>0, <1>3, <1>1 DEF RequestRaises
<1>4. PlatformError(e) = RefusalOf(e)
  BY <1>0 DEF PlatformError, SaysOne
<1>5. CASE PlatformRaises(e)
  BY <1>4, <1>5, <1>2 DEF PlatformRaises
<1>6. ASSUME NEW r \in BOOLEAN  PROVE ~ChunkAnswered(e, r)
  BY <1>0, <1>4 DEF ChunkAnswered
<1>7. CheckEnvelope(e, Required) = RefusalOf(e)
  BY <1>0 DEF CheckEnvelope
<1>8. ASSUME NEW p \in SupportPayloads, CheckAnswered(e, p)
      PROVE  pc' = "done" /\ outcome'.error = RefusalOf(e)
  BY <1>0, <1>7, <1>8, <1>2 DEF CheckAnswered
<1>9. ASSUME NEW p \in SubmitPayloads, SubmitAnswered(e, p)
      PROVE  pc' = "done" /\ outcome'.error = RefusalOf(e)
  <2>1. Usable(e)
    BY <1>9 DEF SubmitAnswered
  <2>. QED  BY <1>0, <1>7, <1>9, <1>1 DEF SubmitAnswered, CheckParamReply
<1>10. ASSUME NEW s \in TaskStatuses  PROVE InterpretTaskReply(e, s, Required) = RefusalOf(e)
  BY <1>0 DEF InterpretTaskReply
<1>11. RefusalOf(e) \notin {"running", "success"}
  BY DEF RefusalOf
<1>12. ~StillRunning(e)
  BY <1>10, <1>11 DEF StillRunning, TaskStatuses
<1>13. ASSUME NEW s \in TaskStatuses, TaskFails(e, s)
       PROVE  pc' = "done" /\ outcome'.error = RefusalOf(e)
  BY <1>10, <1>13, <1>1 DEF TaskFails
<1>14. ASSUME NEW got \in Answers, NEW f \in RowFaults  PROVE ~TaskDone(e, got, f)
  BY <1>10, <1>11 DEF TaskDone, TaskStatuses
<1>15. ASSUME NEW d \in ResultData  PROVE ~RequestAnswered(e, d)
  <2>1. call.op = "user_call" => call.transport = "user"
    BY DEF ControlInv, Purpose
  <2>. QED  BY <1>0, <1>4, <2>1 DEF RequestAnswered, Usable
<1>. QED  BY <1>3, <1>5, <1>6, <1>8, <1>9, <1>12, <1>13, <1>14, <1>15 DEF Process

\* What an answer leaves noted.
LEMMA ProcessNotes ==
  ASSUME ControlInv, pc = "post", NEW e \in Envelopes, Process(e)
  PROVE  \/ Refuses(e) /\ refusal' = RefusalOf(e)
         \/ UNCHANGED refusal
         \/ refusal' = "do_not_repeat" /\ (pc' = "done" \/ call.op = "read_all")
<1>1. ASSUME NEW p \in SubmitPayloads, SubmitAnswered(e, p), ~Refuses(e), refusal' # refusal
      PROVE  refusal' = "do_not_repeat" /\ (pc' = "done" \/ call.op = "read_all")
  <2>1. refusal' = "do_not_repeat" /\ p = "do_not_repeat" /\ CheckEnvelope(e, Required) = None
    BY <1>1 DEF SubmitAnswered, Noted
  <2>2. CheckParamReply(e, p, Required) = "PySolarCloudException" /\ "PySolarCloudException" # None
    BY <2>1, NoneIsNoText DEF CheckParamReply, LibraryErrors
  <2>3. Fails("PySolarCloudException")
    BY <1>1, <2>2 DEF SubmitAnswered
  <2>. QED  BY <2>1, <2>2, <2>3, FailsEffect DEF Running
<1>2. CASE Noted(e, FALSE)
  BY <1>2 DEF Noted
<1>3. CASE \E p \in SubmitPayloads : SubmitAnswered(e, p)
  <2>1. Refuses(e) => refusal' = RefusalOf(e)
    BY <1>3 DEF SubmitAnswered, Noted
  <2>. QED  BY <1>1, <1>3, <2>1
<1>. QED  BY <1>2, <1>3 DEF Process

LEMMA StepRefusal ==
  ASSUME ControlInv, RefusalInv, Step
  PROVE  RefusalInv'
<1>0. None \notin FatalErrors /\ "do_not_repeat" \notin FatalErrors
  BY NoneIsNoText DEF FatalErrors, LibraryErrors
<1>1. /\ Running /\ call' = call /\ refusal \in {None, "do_not_repeat"}
      /\ refusal = "do_not_repeat" => call.op = "read_all"
  BY StepControl DEF RefusalInv, RefusalEndsCall, Running
<1>2. CASE TokenReady
  BY <1>0, <1>1, <1>2 DEF TokenReady, RefusalInv, RefusalEndsCall
<1>3. CASE TokenFails
  <2>1. CASE UNCHANGED refusal
    BY <1>0, <1>1, <2>1 DEF RefusalInv, RefusalEndsCall
  <2>2. CASE \E e \in TokenErrors[call.transport] : Fails(e) /\ refusal' = e
    <3>1. PICK e \in {"AuthError", "TokenRefreshError"} : Fails(e) /\ refusal' = e
      BY <1>1, <2>2 DEF TokenErrors, ControlInv, Transports
    <3>2. e \in FatalErrors /\ e # None
      BY NoneIsNoText DEF FatalErrors, LibraryErrors
    <3>. QED  BY <1>0, <1>1, <3>1, <3>2, FailsEffect DEF RefusalInv, RefusalEndsCall
  <2>. QED  BY <1>3, <2>1, <2>2 DEF TokenFails
<1>4. CASE ReplyLost
  BY <1>0, <1>1, <1>4 DEF ReplyLost, RefusalInv, RefusalEndsCall
<1>5. CASE ReplyArrives
  <2>1. PICK e \in Envelopes : LoginAgain(e) \/ Process(e)
    BY <1>5 DEF ReplyArrives
  <2>2. CASE UNCHANGED refusal
    BY <1>0, <1>1, <2>2 DEF RefusalInv, RefusalEndsCall
  <2>3. CASE refusal' = "do_not_repeat" /\ (pc' = "done" \/ call.op = "read_all")
    BY <1>0, <1>1, <2>3 DEF RefusalInv, RefusalEndsCall
  <2>4. CASE Process(e) /\ Refuses(e) /\ refusal' = RefusalOf(e)
    <3>1. RefusalOf(e) \in FatalErrors /\ pc' = "done" /\ outcome'.error = RefusalOf(e)
      BY <1>5, <2>4, ProcessRefusal, RefusalsClassified DEF ReplyArrives
    <3>. QED  BY <1>0, <2>4, <3>1 DEF RefusalInv, RefusalEndsCall
  <2>. QED  BY <1>5, <2>1, <2>2, <2>3, <2>4, ProcessNotes DEF LoginAgain, ReplyArrives
<1>. QED  BY <1>2, <1>3, <1>4, <1>5 DEF Step

\* Whatever the constants, a refusal that an envelope states by its result_code, or an
\* auth class by its exception, ends the call with an exception of that class: the
\* fallback of async_read_parameters does not go on after one, and no reader of a
\* reply overlooks it.  Only that fallback goes on after check_result "9".
THEOREM RefusalsEnd == Spec => []RefusalEndsCall
<1>1. Init => RefusalInv
  BY NoneIsNoText DEF Init, RefusalInv, RefusalEndsCall, FatalErrors, LibraryErrors
<1>2. ControlInv /\ RefusalInv /\ [Next]_vars => RefusalInv'
  <2>1. ASSUME RefusalInv, UNCHANGED vars  PROVE RefusalInv'
    BY <2>1 DEF vars, RefusalInv, RefusalEndsCall
  <2>2. ASSUME ControlInv, RefusalInv, Begin  PROVE RefusalInv'
    <3>1. pc = "idle" /\ call.op \notin Operations /\ UNCHANGED refusal
      BY <2>2, BeginEffect, NoneIsNoOperation DEF ControlInv, NoCall
    <3>. QED  BY <2>2, <3>1 DEF RefusalInv, RefusalEndsCall, Operations
  <2>. QED  BY <2>1, <2>2, StepRefusal DEF Next
<1>3. RefusalInv => RefusalEndsCall
  BY DEF RefusalInv
<1>. QED  BY <1>1, <1>2, <1>3, Controlled, PTL DEF Spec

-----------------------------------------------------------------------------
(* The fallback leaves no code out.  The strengthening is that the codes asked    *)
(* for and those still to be asked for make up the whole list.                    *)

Split(k) == tried = SubSeq(AllCodes, 1, k) /\ todo = SubSeq(AllCodes, k + 1, Len(AllCodes))

FallbackInv ==
    /\ pc = "idle" \/ (Running /\ call.op = "read_all" /\ bulk_err = None) => tried = <<>>
    /\ Running /\ bulk_err # None => \E k \in 0..Len(AllCodes) : Split(k)
    /\ FallbackComplete

\* One element moves from the rest of a sequence to its beginning.
LEMMA MoveOne ==
  ASSUME NEW S, NEW s \in Seq(S), NEW k \in 0..Len(s)
  PROVE  /\ SubSeq(s, k + 1, Len(s)) = <<>> => SubSeq(s, 1, k) = s
         /\ SubSeq(s, k + 1, Len(s)) # <<>> =>
              /\ k + 1 \in 0..Len(s)
              /\ Append(SubSeq(s, 1, k), Head(SubSeq(s, k + 1, Len(s)))) = SubSeq(s, 1, k + 1)
              /\ Tail(SubSeq(s, k + 1, Len(s))) = SubSeq(s, (k + 1) + 1, Len(s))
<1>1. /\ SubSeq(s, 1, k) \in Seq(S) /\ Len(SubSeq(s, 1, k)) = k
      /\ SubSeq(s, k + 1, Len(s)) \in Seq(S) /\ Len(SubSeq(s, k + 1, Len(s))) = Len(s) - k
  OBVIOUS
<1>2. ASSUME SubSeq(s, k + 1, Len(s)) = <<>>  PROVE SubSeq(s, 1, k) = s
  <2>1. Len(s) - k = 0
    BY <1>1, <1>2
  <2>. QED  BY <2>1
<1>3. ASSUME SubSeq(s, k + 1, Len(s)) # <<>>  PROVE k < Len(s)
  BY <1>1, <1>3
<1>4. ASSUME k < Len(s)
      PROVE  Append(SubSeq(s, 1, k), Head(SubSeq(s, k + 1, Len(s)))) = SubSeq(s, 1, k + 1)
  BY <1>1, <1>4
<1>5. ASSUME k < Len(s)  PROVE Tail(SubSeq(s, k + 1, Len(s))) = SubSeq(s, (k + 1) + 1, Len(s))
  BY <1>1, <1>5
<1>. QED  BY <1>2, <1>3, <1>4, <1>5

\* The next single read, or the end after the last.
LEMMA NextReadFallback ==
  ASSUME NEW got, NEW left, NEW err, err # None, NextRead(got, left, err),
         NEW k \in 0..Len(AllCodes), tried = SubSeq(AllCodes, 1, k),
         left = SubSeq(AllCodes, k + 1, Len(AllCodes))
  PROVE  FallbackInv'
<1>1. AllCodes \in Seq(STRING)
  BY ConstantsAssumption
<1>2. CASE left = <<>>
  <2>1. UNCHANGED tried /\ pc' = "done"
    BY <1>2 DEF NextRead
  <2>2. SubSeq(AllCodes, 1, k) = AllCodes
    <3>1. SubSeq(AllCodes, k + 1, Len(AllCodes)) = <<>>
      BY <1>2
    <3>. QED  BY <1>1, <3>1, MoveOne
  <2>. QED  BY <2>1, <2>2 DEF FallbackInv, FallbackComplete, Running
<1>3. CASE left # <<>>
  <2>1. /\ k + 1 \in 0..Len(AllCodes) /\ tried' = SubSeq(AllCodes, 1, k + 1)
        /\ todo' = SubSeq(AllCodes, (k + 1) + 1, Len(AllCodes))
    <3>1. /\ k + 1 \in 0..Len(AllCodes)
          /\ Append(tried, Head(left)) = SubSeq(AllCodes, 1, k + 1)
          /\ Tail(left) = SubSeq(AllCodes, (k + 1) + 1, Len(AllCodes))
      BY <1>1, <1>3, MoveOne
    <3>. QED  BY <1>3, <3>1 DEF NextRead
  <2>2. pc' = "token" /\ bulk_err' # None
    BY <1>3 DEF NextRead, Exchange
  <2>. QED  BY <2>1, <2>2 DEF FallbackInv, FallbackComplete, Running, Split
<1>. QED  BY <1>2, <1>3

\* A call that reads everything, before and after an exception or an answer.
LEMMA FailsFallback ==
  ASSUME ControlInv, FallbackInv, Running, NEW error \in LibraryErrors \cup {"other"}, Fails(error)
  PROVE  FallbackInv'
<1>1. error # None
  BY NoneIsNoText
<1>2. CASE Falls(error) /\ bulk_err = None /\ NextRead(<<>>, AllCodes, error)
  <2>1. AllCodes \in Seq(STRING)
    BY ConstantsAssumption
  <2>2. tried = <<>>
    BY <1>2 DEF FallbackInv, Falls
  <2>3. /\ tried = SubSeq(AllCodes, 1, 0) /\ 0 \in 0..Len(AllCodes)
        /\ AllCodes = SubSeq(AllCodes, 0 + 1, Len(AllCodes))
    BY <2>1, <2>2
  <2>. QED  BY <1>1, <1>2, <2>3, NextReadFallback
<1>3. CASE Falls(error) /\ bulk_err # None /\ NextRead(rows, todo, bulk_err)
  BY <1>3, NextReadFallback DEF FallbackInv, Split
<1>4. CASE ~Falls(error) /\ Raise(error) /\ UNCHANGED tried
  <2>1. pc' = "done" /\ outcome'.error = error /\ UNCHANGED <<call, bulk_err, tried>>
    BY <1>4 DEF Raise, EndWith, progress
  <2>2. bulk_err # None => \E k \in 0..Len(AllCodes) : tried = SubSeq(AllCodes, 1, k)
    BY DEF FallbackInv, FallbackComplete
  <2>3. bulk_err # None => error \in FatalErrors \cup {"other"}
    BY <1>4 DEF ControlInv, Falls
  <2>. QED  BY <2>1, <2>2, <2>3 DEF FallbackInv, FallbackComplete, Running
<1>. QED  BY <1>2, <1>3, <1>4 DEF Fails

LEMMA GivesFallback ==
  ASSUME FallbackInv, Running, NEW got, Gives(got)
  PROVE  FallbackInv'
<1>1. CASE bulk_err # None /\ NextRead(rows \o got, todo, bulk_err)
  BY <1>1, NextReadFallback DEF FallbackInv, Split
<1>2. CASE bulk_err = None /\ Return(got)
  BY <1>2 DEF Return, EndWith, progress, FallbackInv, FallbackComplete, Running
<1>. QED  BY <1>1, <1>2 DEF Gives

LEMMA ProcessFallback ==
  ASSUME ControlInv, FallbackInv, pc = "post", NEW e \in Envelopes, Process(e)
  PROVE  FallbackInv'
<1> USE DEF Running
<1>1. ASSUME NEW how, call.op # "read_all", EndWith(how)  PROVE FallbackInv'
  BY <1>1 DEF EndWith, progress, ControlInv, FallbackInv, FallbackComplete
<1>2. ASSUME Exchange("poll"), UNCHANGED <<call, todo, bulk_err, tried>>  PROVE FallbackInv'
  BY <1>2 DEF Exchange, FallbackInv, FallbackComplete, Split
<1>3. CASE RequestRaises(e)
  BY <1>3, Classified, FailsFallback DEF RequestRaises
<1>4. CASE PlatformRaises(e)
  BY <1>4, <1>1 DEF PlatformRaises, Raise
<1>5. ASSUME NEW r \in BOOLEAN, ChunkAnswered(e, r)  PROVE FallbackInv'
  <2>1. call.op = "realtime" /\ bulk_err = None
    BY <1>5 DEF ChunkAnswered, ControlInv, Purpose
  <2>2. CASE Exchange("chunk") /\ UNCHANGED <<call, bulk_err>>
    BY <2>1, <2>2 DEF Exchange, FallbackInv, FallbackComplete
  <2>. QED  BY <2>1, <2>2, <1>1, <1>5 DEF ChunkAnswered, Raise, Return
<1>6. ASSUME NEW p \in SupportPayloads, CheckAnswered(e, p)  PROVE FallbackInv'
  BY <1>6, <1>1 DEF CheckAnswered, Raise, Return, ControlInv, Purpose
<1>7. ASSUME NEW p \in SubmitPayloads, SubmitAnswered(e, p)  PROVE FallbackInv'
  <2>1. CheckEnvelope(e, Required) \in LibraryErrors \cup {None}
    BY Classified DEF CheckEnvelope, LibraryErrors
  <2>2. CheckParamReply(e, p, Required) \in LibraryErrors \cup {None}
    BY <2>1 DEF CheckParamReply, LibraryErrors
  <2>. QED  BY <2>2, <1>7, <1>2, FailsFallback DEF SubmitAnswered
<1>8. CASE StillRunning(e)
  BY <1>8, <1>2, FailsFallback DEF StillRunning, LibraryErrors
<1>9. ASSUME NEW s \in TaskStatuses, TaskFails(e, s)  PROVE FallbackInv'
  BY <1>9, FailsFallback DEF TaskFails
<1>10. ASSUME NEW got \in Answers, NEW f \in RowFaults, TaskDone(e, got, f)  PROVE FallbackInv'
  BY <1>10, FailsFallback, GivesFallback DEF TaskDone
<1>11. ASSUME NEW d \in ResultData, RequestAnswered(e, d)  PROVE FallbackInv'
  BY <1>11, <1>1 DEF RequestAnswered, ControlInv, Purpose
<1>. QED  BY <1>3, <1>4, <1>5, <1>6, <1>7, <1>8, <1>9, <1>10, <1>11 DEF Process

LEMMA StepFallback ==
  ASSUME ControlInv, FallbackInv, Step
  PROVE  FallbackInv'
<1>1. Running
  BY StepControl
<1>2. ASSUME pc' \in {"token", "post"}, UNCHANGED <<call, todo, bulk_err, tried>>  PROVE FallbackInv'
  BY <1>1, <1>2 DEF FallbackInv, FallbackComplete, Running, Split
<1>3. CASE TokenReady
  BY <1>2, <1>3 DEF TokenReady, progress, history
<1>4. CASE TokenFails
  <2>1. \E error \in LibraryErrors \cup {"other"} : Fails(error)
    BY <1>1, <1>4, TokenFailures DEF ControlInv
  <2>. QED  BY <1>1, <2>1, FailsFallback
<1>5. CASE ReplyLost
  BY <1>1, <1>5, FailsFallback DEF ReplyLost, LibraryErrors
<1>6. CASE ReplyArrives
  <2>1. PICK e \in Envelopes : LoginAgain(e) \/ Process(e)
    BY <1>6 DEF ReplyArrives
  <2>2. CASE LoginAgain(e)
    BY <1>2, <2>2 DEF LoginAgain, history
  <2>. QED  BY <1>6, <2>1, <2>2, ProcessFallback DEF ReplyArrives
<1>. QED  BY <1>3, <1>4, <1>5, <1>6 DEF Step

LEMMA BeginFallback ==
  ASSUME ControlInv, FallbackInv, Begin
  PROVE  FallbackInv'
<1>1. pc = "idle" /\ bulk_err = None /\ tried = <<>>
  BY BeginEffect DEF ControlInv, FallbackInv
<1>2. CASE pc' = "done"
  BY <1>1, <1>2, BeginEffect, NoneIsNoOperation
     DEF ControlInv, NoCall, Operations, FallbackInv, FallbackComplete, Running
<1>3. CASE pc' = "token"
  <2>1. UNCHANGED tried \/ call'.op = "realtime"
    BY <1>3 DEF Begin, StartCheck, StartReadAll, StartReadList, StartWrite, StartUserCall, StartPlantCall,
                StartRequest, StartRealtime, Start, Raise, Return, EndWith, history
  <2>2. bulk_err' = None
    BY <1>1, <1>3 DEF Begin, StartCheck, StartReadAll, StartReadList, StartWrite, StartUserCall,
                      StartPlantCall, StartRequest, StartRealtime, Start, Raise, Return, EndWith, progress
  <2>. QED  BY <1>1, <1>3, <2>1, <2>2 DEF FallbackInv, FallbackComplete, Running
<1>. QED  BY <1>2, <1>3, BeginEffect

\* For any list of codes: the fallback of async_read_parameters asks for the codes
\* one by one in their order, and unless credentials, quota or an exception that is
\* not the library's cut it short it has asked for every one when it ends.
THEOREM NothingLeftOut == Spec => []FallbackComplete
<1>1. Init => FallbackInv
  BY DEF Init, FallbackInv, FallbackComplete, Running
<1>2. ControlInv /\ FallbackInv /\ [Next]_vars => FallbackInv'
  <2>1. ASSUME FallbackInv, UNCHANGED vars  PROVE FallbackInv'
    BY <2>1 DEF vars, history, FallbackInv, FallbackComplete, Running, Split
  <2>. QED  BY <2>1, BeginFallback, StepFallback DEF Next
<1>3. FallbackInv => FallbackComplete
  BY DEF FallbackInv
<1>. QED  BY <1>1, <1>2, <1>3, Controlled, PTL DEF Spec
=============================================================================
