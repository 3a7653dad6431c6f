------------------------------ MODULE ApiCall -------------------------------
(***************************************************************************)
(* One call of an application, on either transport: `Control` and `Plants` *)
(* over OAuth (src/pysolarcloud/control.py, plants.py) or `UserControl`    *)
(* and `UserAuth` over a user session (user_control.py, user_auth.py).  A  *)
(* call is a chain of exchanges (token, post, reply), each read and each   *)
(* write of parameters is a task (submit, poll), a read of all parameters  *)
(* is one bulk task followed, if the device rejects it, by one task each,  *)
(* and the realtime data of plants is one request per chunk of points.     *)
(*                                                                         *)
(* How long things take is the subject of ParamTask, and how concurrent    *)
(* calls share a token that of TokenRefresh and UserSession.               *)
(***************************************************************************)
EXTENDS Integers, Sequences, SequencesExt, ParameterCatalogue, Endpoints

CONSTANTS
    AllCodes,   \* the codes a read of all parameters asks for (a sequence)
    PointChunks,    \* the chunks of points of a realtime call (a sequence)
    Writes,     \* the writes considered: [name, value, minimum, maximum]
    MaxPolls    \* bound on the polls of one task

ASSUME ConstantsAssumption ==
    /\ \A s \in {AllCodes, PointChunks} : s \in Seq(STRING) /\ IsInjective(s) /\ s # <<>>
    /\ \A w \in Writes :
         w.value.number # None /\ w.value.number.kind = "number" => w.value.number.n \in Int
    /\ MaxPolls \in Nat \ {0}

Operations == {"check", "read_all", "read_list", "write", "user_call", "plant_call", "realtime"}

ASSUME NoneIsNoOperation == None \notin Operations

ASSUME NoneIsNoResult ==
    /\ None \notin BOOLEAN /\ None \notin Seq(STRING)
    /\ \A n \in DOMAIN UserCalls, d \in ResultData :
         None # [data |-> d, made |-> Extract(UserCalls[n].shape, d)]
    /\ \A n \in DOMAIN PlatformCalls, d \in ResultData :
         None # [data |-> d, made |-> Extract(PlatformCalls[n].shape, d)]

VARIABLES
    call,       \* the operation and its arguments
    pc,         \* idle, token (getting one), post (awaiting the reply), done
    stage,      \* what is being posted: check, submit, poll, request or chunk
    attempt,    \* which post of a request (user session)
    polls,      \* polls of the current task
    reading,    \* the codes of the current task, the chunk of the current request
    todo,       \* the codes or chunks still to be read on their own
    rows,       \* rows collected so far
    bulk_err,   \* the exception of the bulk read
    outcome,    \* how the call ended: its result or its exception
    executed,   \* times the server carried the call's write out
    reported,   \* rows of the successful tasks and requests, as the server reported them
    tried,      \* codes or chunks read on their own
    refusal     \* what the server said last against going on: a refusal of the
                \* credentials or the quota, or check_result "9" ("do not repeat")

progress == <<call, stage, attempt, polls, reading, todo, rows, bulk_err>>
history == <<reported, tried>>
vars == <<call, pc, stage, attempt, polls, reading, todo, rows, bulk_err, outcome,
          executed, reported, tried, refusal>>

Transports == {"oauth", "user"}
NoCall == [op |-> None, transport |-> None]
Unanswered == [error |-> None, result |-> None]

\* What a call on a user session says about itself.
Required == call.transport = "oauth"    \* a reply must carry result_code
Modifies == call.op = "write" \/ (call.op = "user_call" /\ UserCalls[call.name].writes)

TypeOK ==
    /\ call.op \in Operations \cup {None} /\ call.transport \in Transports \cup {None}
    /\ pc \in {"idle", "token", "post", "done"}
    /\ stage \in {None, "check", "submit", "poll", "request", "chunk"}
    /\ attempt \in {1, 2} /\ polls \in 0..MaxPolls
    /\ \A s \in {reading, todo, rows, reported} : ToSet(s) \subseteq ToSet(AllCodes) \cup ToSet(PointChunks)
    /\ bulk_err \in {None, "PySolarCloudException", "DeviceNotWritableError"}
    /\ outcome.error \in LibraryErrors \cup {None, "ValueError", "OverflowError", "other"}
    /\ pc = "done" <=> outcome # Unanswered
    /\ executed \in Nat

Init ==
    /\ call = NoCall /\ pc = "idle" /\ stage = None /\ attempt = 1 /\ polls = 0
    /\ reading = <<>> /\ todo = <<>> /\ rows = <<>> /\ bulk_err = None
    /\ outcome = Unanswered
    /\ executed = 0 /\ reported = <<>> /\ tried = <<>> /\ refusal = None

-----------------------------------------------------------------------------
(* The end of the call. *)

EndWith(how) ==
    /\ pc' = "done" /\ outcome' = how
    /\ UNCHANGED progress

Raise(error) == EndWith([error |-> error, result |-> None])
Return(result) == EndWith([error |-> None, result |-> result])

\* The next request starts with getting a token.
Exchange(next) == pc' = "token" /\ stage' = next /\ attempt' = 1 /\ UNCHANGED outcome

-----------------------------------------------------------------------------
(* Starting a call. *)

Start(c, first) ==
    /\ pc = "idle"
    /\ call' = c
    /\ Exchange(first)
    /\ UNCHANGED <<polls, todo, rows, bulk_err, executed, history, refusal>>

StartCheck ==
    /\ \E t \in Transports : Start([op |-> "check", transport |-> t], "check")
    /\ UNCHANGED reading

StartReadAll ==
    /\ \E t \in Transports : Start([op |-> "read_all", transport |-> t], "submit")
    /\ reading' = AllCodes

\* An explicit list: names are replaced by their codes.
StartReadList ==
    /\ \E t \in Transports : Start([op |-> "read_list", transport |-> t], "submit")
    /\ reading' = SubSeq(AllCodes, 1, 1)

\* async_set_parameter: nothing is sent unless the value can be encoded.
\* UserControl takes no bounds of its own.
Wire(w, t, raw) == [op |-> "write", transport |-> t, asked |-> w, code |-> CodeOf(w.name), raw |-> raw]

StartWrite ==
    /\ pc = "idle"
    /\ \E w \in Writes, t \in Transports :
         LET encoded == EncodeParameter(w.name, w.value, w.minimum, w.maximum)
         IN  /\ t = "user" => w.minimum = None /\ w.maximum = None
             /\ IF encoded.error # None
                THEN /\ Raise(encoded.error)
                     /\ UNCHANGED <<executed, history, refusal>>
                ELSE /\ Start(Wire(w, t, encoded.raw), "submit")
                     /\ UNCHANGED reading

\* A single request; an id that is not a number is noticed before it is sent.
StartRequest(op, transport, name, endpoint) ==
    \/ /\ Start([op |-> op, transport |-> transport, name |-> name], "request")
       /\ UNCHANGED reading
    \/ /\ pc = "idle" /\ endpoint.converts
       /\ Raise("ValueError")
       /\ UNCHANGED <<executed, history, refusal>>

StartUserCall == \E n \in DOMAIN UserCalls : StartRequest("user_call", "user", n, UserCalls[n])
StartPlantCall == \E n \in DOMAIN PlatformCalls : StartRequest("plant_call", "oauth", n, PlatformCalls[n])

\* Plants.async_get_realtime_data: chunk by chunk.  An unknown code is noticed
\* before anything is sent, and an empty list of points sends nothing.
StartRealtime ==
    /\ pc = "idle"
    /\ \/ /\ call' = [op |-> "realtime", transport |-> "oauth"]
          /\ Exchange("chunk")
          /\ reading' = <<Head(PointChunks)>> /\ todo' = Tail(PointChunks) /\ tried' = <<Head(PointChunks)>>
          /\ UNCHANGED <<polls, rows, bulk_err, reported>>
       \/ (Raise("ValueError") \/ Return(<<>>)) /\ UNCHANGED history
    /\ UNCHANGED <<executed, refusal>>

-----------------------------------------------------------------------------
(* The end of a task: the call goes on or ends. *)

\* The next code to be read on its own, or the end of the fallback.
NextRead(got, left, err) ==
    /\ rows' = got /\ bulk_err' = err
    /\ IF left = <<>>
       THEN /\ pc' = "done"
            /\ outcome' = IF got = <<>> THEN [error |-> err, result |-> None] ELSE [error |-> None, result |-> got]
            /\ UNCHANGED <<call, stage, attempt, polls, reading, todo, tried>>
       ELSE /\ Exchange("submit")
            /\ reading' = <<Head(left)>> /\ todo' = Tail(left) /\ polls' = 0
            /\ tried' = Append(tried, Head(left))
            /\ UNCHANGED call

Falls(error) == call.op = "read_all" /\ error \in LibraryErrors \ FatalErrors

\* Mutant: the exception of a single read ends the call.
FailsAtOnce(error) ==
    \/ /\ Falls(error) /\ bulk_err = None
       /\ NextRead(<<>>, AllCodes, error)
    \/ /\ ~Falls(error) \/ bulk_err # None
       /\ Raise(error)
       /\ UNCHANGED tried

\* An exception: the fallback starts or goes on, everything else ends the call.
Fails(error) ==
    \/ /\ Falls(error) /\ bulk_err = None
       /\ NextRead(<<>>, AllCodes, error)
    \/ /\ Falls(error) /\ bulk_err # None
       /\ NextRead(rows, todo, bulk_err)
    \/ /\ ~Falls(error)
       /\ Raise(error)
       /\ UNCHANGED tried

\* Mutant: the rows of a single read replace those before.
GivesLast(got) ==
    IF bulk_err # None THEN NextRead(got, todo, bulk_err) ELSE Return(got) /\ UNCHANGED tried

\* A task is done and its rows could be formatted.
Gives(got) ==
    IF bulk_err # None THEN NextRead(rows \o got, todo, bulk_err) ELSE Return(got) /\ UNCHANGED tried

-----------------------------------------------------------------------------
(* Exchanges. *)

\* async_get_access_token, or async_get_token.
TokenReady ==
    /\ pc = "token" /\ pc' = "post"
    /\ UNCHANGED <<progress, outcome, executed, history, refusal>>

TokenErrors == [oauth |-> {"AuthError", "TokenRefreshError"}, user |-> {"AuthError"}]

\* No token: the credentials are dead, Auth was never authorized, or the exchange for
\* it failed (an HTTP error, on a user session also an undecodable reply).
TokenFails ==
    /\ pc = "token"
    /\ \/ \E e \in TokenErrors[call.transport] : Fails(e) /\ refusal' = e
       \/ Fails("other") /\ UNCHANGED refusal
       \/ Fails("PySolarCloudException") /\ UNCHANGED refusal
    /\ UNCHANGED <<executed, reported>>

\* Mutant: a request whose reply is lost is posted again.
ReplyLostRetried ==
    /\ pc = "post" /\ attempt = 1
    /\ pc' = "token" /\ attempt' = 2
    /\ \/ UNCHANGED executed
       \/ Modifies /\ stage \in {"submit", "request"} /\ executed' = executed + 1
    /\ UNCHANGED <<call, stage, polls, reading, todo, rows, bulk_err, outcome, history, refusal>>

\* The reply is lost, an HTTP error or undecodable; the server may have acted.
ReplyLost ==
    /\ pc = "post"
    /\ \/ Fails("other")
       \/ call.transport = "user" /\ Fails("PySolarCloudException")
    /\ \/ UNCHANGED executed
       \/ Modifies /\ stage \in {"submit", "request"} /\ executed' = executed + 1
    /\ UNCHANGED <<reported, refusal>>

TokenRefused(e) ==
    call.transport = "user" /\ ~Succeeded(e) /\ e.code \in LOGIN_INVALID_CODES /\ attempt = 1

\* A user session: the token was refused, log in again and post once more.
LoginAgain(e) ==
    /\ TokenRefused(e)
    /\ pc' = "token" /\ attempt' = 2
    /\ UNCHANGED <<call, stage, polls, reading, todo, rows, bulk_err, outcome, executed, history, refusal>>

\* What the server refuses for, in its own terms.
Refuses(e) == ~Succeeded(e) /\ e.code \in AUTH_ERROR_CODES \cup RATE_LIMIT_CODES

RefusalOf(e) == IF e.code \in AUTH_ERROR_CODES THEN "AuthError" ELSE "RateLimitError"

\* What of a reply is kept for the properties.
Noted(e, limited) ==
    refusal' = IF Refuses(e) THEN RefusalOf(e) ELSE IF limited THEN "do_not_repeat" ELSE refusal

\* async_request raises for every envelope that is no success.
RequestRaises(e) ==
    /\ call.transport = "user" /\ ~Succeeded(e)
    /\ Fails(FromResponse(e))
    /\ UNCHANGED <<executed, reported>>

Usable(e) == call.transport = "user" => Succeeded(e)

\* The server carried out what was posted, if it says so.
Executes(did) == executed' = IF Modifies /\ did THEN executed + 1 ELSE executed

CheckAnswered(e, payload) ==
    /\ stage = "check" /\ Usable(e)
    /\ LET error == CheckEnvelope(e, Required)
       IN  IF error # None THEN Raise(error) ELSE Return(CheckSupportReply(payload))
    /\ UNCHANGED <<executed, history>>

SubmitAnswered(e, payload) ==
    /\ stage = "submit" /\ Usable(e)
    /\ Executes(Succeeded(e) /\ payload = "task")
    /\ Noted(e, payload = "do_not_repeat" /\ CheckEnvelope(e, Required) = None)
    /\ LET error == CheckParamReply(e, payload, Required)
       IN  \/ error # None /\ Fails(error)
           \/ /\ error = None /\ Exchange("poll")
              /\ polls' = 0
              /\ UNCHANGED <<call, reading, todo, rows, bulk_err, tried>>
    /\ UNCHANGED reported

\* Mutants: no deadline; polls are not limited by it.
StillRunningForEver(e) ==
    /\ stage = "poll" /\ Usable(e) /\ InterpretTaskReply(e, "running", Required) = "running"
    /\ Exchange("poll")
    /\ UNCHANGED <<call, polls, reading, todo, rows, bulk_err, executed, history>>
StillRunningUncounted(e) ==
    /\ stage = "poll" /\ Usable(e) /\ InterpretTaskReply(e, "running", Required) = "running"
    /\ Exchange("poll")
    /\ polls' = polls + 1
    /\ UNCHANGED <<call, reading, todo, rows, bulk_err, executed, history>>

StillRunning(e) ==
    /\ stage = "poll" /\ Usable(e) /\ InterpretTaskReply(e, "running", Required) = "running"
    /\ \/ /\ polls < MaxPolls - 1
          /\ Exchange("poll")
          /\ polls' = polls + 1
          /\ UNCHANGED <<call, reading, todo, rows, bulk_err, tried>>
       \/ Fails("PySolarCloudException")    \* the deadline has come
    /\ UNCHANGED <<executed, reported>>

TaskFails(e, status) ==
    /\ stage = "poll" /\ Usable(e)
    /\ LET error == InterpretTaskReply(e, status, Required)
       IN  error \in LibraryErrors /\ Fails(error)
    /\ UNCHANGED <<executed, reported>>

\* The rows of a task, of a read or a write, are formatted one by one; one that cannot
\* be fails the call.
TaskDone(e, got, fault) ==
    /\ stage = "poll" /\ Usable(e) /\ InterpretTaskReply(e, "success", Required) = "success"
    /\ IF (got # <<>> \/ call.op = "write") /\ FormatRaises(fault, call.transport)
       THEN Fails("other") /\ UNCHANGED reported
       ELSE Gives(got) /\ reported' = reported \o got
    /\ UNCHANGED executed

RequestAnswered(e, data) ==
    /\ stage = "request" /\ (IF call.op = "user_call" THEN Usable(e) ELSE PlatformError(e) = None)
    /\ Executes(TRUE)
    /\ LET endpoint == IF call.op = "user_call" THEN UserCalls[call.name] ELSE PlatformCalls[call.name]
           result == Extract(endpoint.shape, data)
       IN  EndWith([error |-> IF result = None THEN "other" ELSE None,
                    result |-> [data |-> data, made |-> result]])
    /\ UNCHANGED history

PlatformRaises(e) ==
    /\ call.op \in {"plant_call", "realtime"} /\ PlatformError(e) # None
    /\ Raise(PlatformError(e))
    /\ UNCHANGED <<executed, history>>

\* The points of a chunk are added to those before; a reply without one of the fields
\* needed is a KeyError.
ChunkAnswered(e, readable) ==
    /\ stage = "chunk" /\ PlatformError(e) = None
    /\ IF ~readable THEN Raise("other") /\ UNCHANGED history
       ELSE IF todo = <<>> THEN Return(rows \o reading) /\ reported' = reported \o reading /\ UNCHANGED tried
       ELSE /\ Exchange("chunk")
            /\ rows' = rows \o reading /\ reported' = reported \o reading
            /\ reading' = <<Head(todo)>> /\ todo' = Tail(todo) /\ tried' = Append(tried, Head(todo))
            /\ UNCHANGED <<call, polls, bulk_err>>
    /\ UNCHANGED executed

\* The rows a task reports: those of any n of its codes, in their order.
Places(n) == {at \in [1..n -> 1..Len(reading)] : \A i, j \in 1..n : i < j => at[i] < at[j]}
Answers == UNION {{[i \in 1..n |-> reading[at[i]]] : at \in Places(n)} : n \in 0..Len(reading)}

Process(e) ==
    \/ \E p \in SubmitPayloads : SubmitAnswered(e, p)
    \/ /\ Noted(e, FALSE)
       /\ \/ RequestRaises(e)
          \/ PlatformRaises(e)
          \/ \E r \in BOOLEAN : ChunkAnswered(e, r)
          \/ \E p \in SupportPayloads : CheckAnswered(e, p)
          \/ StillRunning(e)
          \/ \E s \in TaskStatuses : TaskFails(e, s)
          \/ \E got \in Answers, f \in RowFaults : TaskDone(e, got, f)
          \/ \E d \in ResultData : RequestAnswered(e, d)

ReplyArrives ==
    /\ pc = "post"
    /\ \E e \in Envelopes : LoginAgain(e) \/ (~TokenRefused(e) /\ Process(e))

Begin ==
    \/ StartCheck \/ StartReadAll \/ StartReadList \/ StartWrite
    \/ StartUserCall \/ StartPlantCall \/ StartRealtime
Step == TokenReady \/ TokenFails \/ ReplyLost \/ ReplyArrives

Next == Begin \/ Step

\* Every exchange ends: both transports set a timeout.
Spec == Init /\ [][Next]_vars /\ WF_vars(Step)

-----------------------------------------------------------------------------
(* Properties. *)

\* What the server reports reaches the caller of a read of all parameters and of the
\* realtime data of plants, once and in order.  The read drops it only for an
\* exception that ends the call at once: credentials, quota, or one that is not the
\* library's.  The realtime call is all or nothing: it returns when every chunk was
\* asked for and reported, once.
AnswersReachCaller ==
    /\ (call.op = "realtime" /\ pc = "done" /\ outcome.error = None) =>
        outcome.result = reported /\ reported = PointChunks /\ tried = PointChunks
    /\ (call.op = "read_all" /\ pc = "done") =>
        \/ outcome.error = None /\ outcome.result = reported
        \/ outcome.error \in FatalErrors \cup {"other"}
        \/ outcome.error = bulk_err /\ reported = <<>>

\* A refusal that concerns the credentials or the quota, by the result_code of an
\* envelope or by an auth class that has no token, ends the call: nothing more is
\* sent, and the caller sees an exception of that class, at whichever of the exchanges
\* it came and on either transport.  Of check_result "9" the code keeps less: it ends
\* every call but a read of all parameters, whose fallback repeats it for each code.
RefusalEndsCall ==
    /\ refusal \in FatalErrors => pc = "done" /\ outcome.error = refusal
    /\ refusal = "do_not_repeat" => pc = "done" \/ call.op = "read_all"

\* The fallback leaves no parameter out: unless it was cut short it has asked for
\* each on its own, once.
FallbackComplete ==
    /\ bulk_err # None => \E k \in 0..Len(AllCodes) : tried = SubSeq(AllCodes, 1, k)
    /\ (pc = "done" /\ bulk_err # None /\ outcome.error \notin FatalErrors \cup {"other"})
         => tried = AllCodes

\* The option that was named, in any case, or the code of one as it was given.
OptionAsked(spec, value, raw) ==
    IF value.lower \in DOMAIN spec.options
    THEN raw.code = spec.options[value.lower]
    ELSE raw.code = value.text /\ \E o \in DOMAIN spec.options : raw.code = spec.options[o]

\* The number, within the bounds in force, as near as whole units on the wire allow,
\* and within those of the catalogue exactly.
NumberAsked(spec, asked, raw) ==
    /\ 2 * (raw.n * Unit - asked.value.number.n * spec.scale) \in -Unit..Unit
    /\ ~OutOfRange(asked.value.number, Bound(asked.minimum, spec.minimum), Bound(asked.maximum, spec.maximum))
    /\ asked.minimum = None /\ spec.minimum # None => raw.n * Unit >= spec.minimum * spec.scale
    /\ asked.maximum = None /\ spec.maximum # None => raw.n * Unit <= spec.maximum * spec.scale

\* What is written is what was asked for: a parameter of the catalogue under its code
\* there, with the option or the number asked for; any other name under the code
\* Control lists for it, or a code as it is, with the value as it is.
SentAsAsked ==
    call.op = "write" =>
        LET asked == call.asked
        IN  IF asked.name \in DOMAIN PARAMETERS
            THEN LET spec == PARAMETERS[asked.name]
                 IN  /\ call.code = spec.code
                     /\ IF spec.kind = "enum"
                        THEN OptionAsked(spec, asked.value, call.raw)
                        ELSE NumberAsked(spec, asked, call.raw)
            ELSE /\ asked.name \in DOMAIN ParamCodeMap => call.code = ParamCodeMap[asked.name]
                 /\ asked.name \notin DOMAIN ParamCodeMap => call.code = asked.name
                 /\ call.raw = asked.value

\* A write is carried out once at most, whatever is refused, lost or posted again,
\* and exactly once if the call returns.
WriteOnce ==
    /\ executed <= 1
    /\ Modifies /\ pc = "done" /\ outcome.error = None => executed = 1

\* Every call ends.
EveryCallEnds == (pc # "idle") ~> (pc = "done")

\* The comment in async_get_devices: where the devices are the result_data itself,
\* as a list, the caller gets them.
DeviceListReachesCaller ==
    (pc = "done" /\ call.op = "user_call" /\ outcome.result # None) =>
        (call.name = "devices" /\ outcome.result.data = "list" => outcome.result.made = "rows")
=============================================================================
