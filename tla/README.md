# pysolarcloud in TLA+

`pysolarcloud` is an asyncio client for the iSolarCloud API. It has no server
and no threads: whatever can go wrong goes wrong between two `await`s, between
this client and the server, or between two coroutines that share one client
object. The modules here describe those parts and check them with TLC; the
proofs are checked with TLAPS. Line numbers refer to `src/pysolarcloud/`.

## The system

| Component | State it keeps | Operations | Hard behaviour |
|---|---|---|---|
| OAuth token life cycle: `AbstractAuth`, `Auth` (`__init__.py`) | `tokens` (access token, refresh token, `expires_at`), `_refresh_lock` | `async_authorize`, `async_get_access_token`, `request` | single-use refresh token shared by coroutines; lost, partial, malformed answers; authorization beside a refresh; clock margin |
| User session: `UserAuth` (`user_auth.py`) | `token`, `user_id`, `_login_lock`, parsed login key | `async_login`, `async_get_token`, `async_request(_soft)`, some thirty calls of one request each | token cleared by one coroutine while another uses it; late refusals; limited login attempts |
| Parameter tasks: `Control` (`control.py`), `UserControl` (`user_control.py`) | none between calls; one task per call, on the server | read, update, `wait_for_task` | two clocks (client deadline, server expiry); writes that happen after the call gave up |
| Read-all fallback (`control.py:145`) | rows collected so far | one bulk read, then one per code | partial failure, error classes that must stop it |
| Heartbeat loop (`control.py:334`) | `stop_event` | heartbeat, sleep | period = interval + task duration; stop while a task runs |
| `Plants` (`plants.py`) | none | lists, realtime in chunks of 100 points, history paging, per-device endpoint with fallback | fallback decision, paging boundary, a chunk that fails after others came in |
| Catalogues and encoding (`parameters.py`, `measure_points.py`, `control.py:395`) | constant tables | encode, decode, look up | rounding, ranges, colliding codes |
| Errors (`__init__.py:287`, `control.py:54-135`) | none | `from_response`, three classifiers of replies | what a type of exception lets the caller conclude; two transports with different rules |

`Plants` and `Control` call `Auth.request`, which asks `async_get_access_token`
for a token before every HTTP exchange; `UserControl` and some methods of
`Plants` call `UserAuth.async_request`. `Control` and `UserControl` share the
functions that interpret replies. Each of them may be used by any number of
coroutines at once, and none but the two auth classes takes a lock.

What makes each part correct:

* **Tokens**: a refresh token is presented by one caller only and never after its
  replacement was stored; the stored refresh token stays usable; what is handed
  out is valid, or overdue by a bounded time; every call returns.
* **User session**: requests carry a real token; logins exclude each other and
  each has a reason; a request is repeated once, with another token.
* **Tasks**: a call ends in bounded time; an answer of any kind (success,
  refusal, failure, timeout) leaves no write behind that may still happen.
* **Heartbeat**: the loop ends soon after the stop; the inverter does not time out.
* **Fallbacks, chunks, paging**: nothing that was answered is dropped, nothing is
  read twice, credential and quota errors stop the loop.
* **Writes**: what goes on the wire is what the caller asked for, and the server
  carries it out once.

## Modules

| Module | Models | Its runs are over | Proofs |
|---|---|---|---|
| `TokenRefresh` | OAuth tokens of `Auth` | `MCTokenRefresh` | `TokenRefreshProofs` |
| `UserSession` | session of `UserAuth` | itself | `UserSessionProofs` |
| `ParamTask` | tasks of `Control` and `UserControl` | itself | `ParamTaskProofs` |
| `WriteCall` | the promise of a parameter write, which `ParamTask` implements | `ParamTask` | `ParamTaskProofs` |
| `HeartbeatLoop` | `Control.heartbeat_loop` | itself | `HeartbeatLoopProofs` |
| `DeviceRealtime` | `Plants.async_get_device_realtime`, `async_device_realtime_supported` | itself | `DeviceRealtimeProofs` |
| `HistoryPaging` | `Plants.async_iter_historical_data` | `MCHistoryPaging` | `HistoryPagingProofs` |
| `ApiCall` | one call of an application from its arguments to its result, on either transport: `Control`, `UserControl`, `Plants`, `UserAuth` | `MCApiCall` | `ApiCallProofs`, `ApiCallDataProofs` |
| `Replies` | envelopes, `from_response`, the classifiers of replies | `MCApiCall` | `ApiCallProofs` |
| `ParameterCatalogue` | the table of parameters, names and codes, `encode_parameter` | `MCApiCall` | `ApiCallDataProofs` |
| `Endpoints` | the single-request calls: what they do, how they read `result_data` | `MCApiCall` | |

The `MC` modules only give names to constants for TLC. `ApiCall` extends
`ParameterCatalogue` and `Endpoints`, which extend `Replies`, and composes them.
The other concrete modules do not import each other: a caller sees the auth
classes as an exchange that succeeds or raises (`CallErrs`, `ChunkFails`,
`PageFails`), and the heartbeat loop sees a task as a write that lasts up to
`MaxSend` and may fail.

Conventions. An action is what one coroutine does between two awaits, which is
exactly what asyncio makes atomic. `asyncio.Lock` is modelled by its owner and
its queue: it is granted in order of arrival, and a newcomer takes it only if
nobody waits. Servers are external: their actions allow what the client's code,
comments and tests say they do. A definition preceded by the word *Mutant* is
a plausible bug; it is not part of the model and is there to show that the
properties notice it.

### TokenRefresh

A refresh token is the number of the grant that issued it, an access token the
instant its validity ends. `pc` says where a coroutine is suspended: queued on
the lock, in a refresh exchange (holding the lock), in an authorization (not
holding it). `exchange` is the HTTP exchange with the token presented and the
answer, if any. `live`, `issued` and `forfeited` are the server's side:
`forfeited` holds tokens that were presented but whose answer was lost or could
not be stored, which the server may have spent already or may still spend.
`NoDoubleSpend` and `StoredRefreshUsable` exempt them: that a lost answer costs the
authorization is what `SpentTokenNeverPresented` is about. `handed` says for how
long the token last handed out had been refused by the server (0 if it is valid).
An `access_token` that is JSON null, which line 265 lets pass, is left out: `None`
in an answer is an absent key.

`GetToken*` are the entry of `async_get_access_token` with its early returns,
`Waiter*` the continuation after the lock, `RefreshSucceeds`, `RefreshRejected`
and `RefreshUnusable` the three ways lines 265-281 end, `Authorize*` are
`async_authorize`. `Tick` respects the session's total timeout: no exchange gets
older than `Timeout`.

### UserSession

A token is the number of the login that created it. `payload` is the snapshot
of the token sent with a post, `refused` the token of the first post once it was
refused. `logins` counts logins started by requests and not failed, `rejections`
the refused first posts. `LoginDirectly` is an application calling `async_login`
itself, without the lock. `LoginsJustified` counts every refused post as a
reason to log in, a late refusal of an old token too; that such a refusal costs a
login without need is what `OneLoginPerLostSession` is about. The server may end
sessions, allow one session at a time, reject logins, and locks out after `MaxLogins`.

### ParamTask and WriteCall

`timer` is the end of the sleep or the latest end of the exchange in flight,
`deadline` is `wait_for_task`'s, set when the submit was accepted (a little after
the server created the task). The server's `task` can be carried out while it is
younger than `Expire`; afterwards the server may report it as failed or leave it
"running" for ever. `CallErrs` is every exception that is not an answer: HTTP and
connection errors, quota and credential envelopes while polling, a reply without
a readable `command_status`, cancellation.

`WriteCall` says what each end of a call lets the caller conclude. Under the
mapping in `ParamTask` (`status`, `effect`) every behaviour of `ParamTask` is one
of `WriteCall`.

### HeartbeatLoop

`since` is when the loop began to send or to sleep, `stopped` when the event was
set, `last_beat` when the inverter last got a heartbeat, which may be at any time
while one is being sent, or during the sleep after a write that failed.
`WaitStopped` and `WaitTimesOut` are the two ways `asyncio.wait_for` ends; when the
event is set in the very instant the interval ends, either may happen.

### DeviceRealtime

One call: look up the devices, ask for the points in chunks, fall back to the user
session. `endpoint` says what the account has: the endpoint, no such URL (404/405),
or a `result_code` that says so. `session` matters because the one `Auth` creates
raises for every status from 400 on and an injected one may not. `answered` records
what each API said, and to which chunks the open API did. The capability probe is
True exactly when the call ends with data or empty. A cancelled call just stops and
is left out.

### HistoryPaging

Time is counted in half seconds and samples lie on whole ones, because requests
carry whole seconds: `Stamp` is `strftime`. A page is the set of samples the server
answers for `[start_time_stamp, end_time_stamp)`, handed out in order. That the
range is half-open is what the code relies on when it begins a chunk at the end
of the previous one; with an API that includes the end, boundary samples would
come twice. `NoGaps`, `Complete` and `WithinWholeSeconds` are stated for what the
requests can express: with bounds that have a fraction, the range is that of the
truncated bounds, so that a row up to a second before `start_time` may come.
`PageFails` is any exception, and a consumer that closes the generator.

### ApiCall

One call is followed through all of its exchanges. `pc` says whether the call
waits for its token or for a reply, `stage` what is being posted: `check`
(`async_check_read_support`, `async_check_update_support`), `submit` and `poll`
(the task of a read or a write), `request` (a call of one request), `chunk`
(`async_get_realtime_data`). `attempt` is the second post of
`UserAuth.async_request`. A read of all parameters submits all codes at once; if
that task is rejected, `bulk_err` keeps its exception and the codes in `todo` are
read one by one, `rows` collecting what comes back (`control.py:145-176`).
`Fails` is every `except` of that function: which exceptions lead to the next
code, and which leave it.

`ReplyArrives` picks an envelope and a payload from the classes the code tells
apart, and each action is one arm of what is done with them: `LoginAgain`
(`E00003` on the first post), `RequestRaises` (`async_request` raises by itself),
`PlatformRaises` (`Plants` accepts only `result_code` 1), `CheckAnswered`,
`SubmitAnswered`, `StillRunning`, `TaskFails`, `TaskDone`, `RequestAnswered`,
`ChunkAnswered`. The OAuth transport requires a `result_code`, a user session
does not; `Required` is that difference. `ReplyLost` is an HTTP error, a timeout
or an undecodable reply, after which the server may or may not have acted;
`TokenFails` is an exception of either auth class instead of a token, the plain one
of an `Auth` that was never authorized included.

`executed`, `reported`, `tried` and `refusal` are not the program's: they count
what the server carried out, keep what it answered, what was asked for, and
whether it said something against going on: a refusal of credentials or quota, by
the `result_code` of an envelope or an auth class (`FatalErrors`), or a
`check_result` of "9" in the payload of a submit (`do_not_repeat`).
The former ends the call with an exception of its class. The latter is a rejection
like any other to the code, a plain `PySolarCloudException`, and the repository says
three things of it: `user_control.py:127` "do not repeat (rate limit)", a test the
same (`tests/test_user_control_probe_live.py:90`), and `control.py:21-22` "device not
supported / not writable". `RefusalEndsCall` says what holds: after it no call goes on
but a read of all parameters. By the first reading that one contradicts its own
docstring, by which rate-limit errors "are never retried per-setting"
(`control.py:154-156`): it repeats the read once for every code. TLC shows this with
the second conjunct of `RefusalEndsCall` restricted to `pc = "done"`.

`Replies` has the classifiers as operators over envelopes: `FromResponse` looks at
the legacy `error` key first, as the code does, and a `result_code` that is the
number 1 is a success for all but `Plants`, which compares with the text.
`ParameterCatalogue` has all twenty parameters with their codes, scales, bounds and
options, the map from the 39 configurable names to codes, and `encode_parameter`:
ranges are checked before scaling, rounding is half to even, NaN passes every
comparison and fails to round, infinities overflow. Numbers are integers in halves
of a thousandth of the display unit (`Unit` of them make one), so that the finest
scale has half-way values too; how a binary float differs from its decimal text is
not modelled. `Endpoints` lists every call of `UserAuth` and `Plants` that is one
request, with the shape in which it expects `result_data`; the bodies of requests
are their arguments under other names and are left out.

What `ApiCall` leaves to other modules: time (a task has at most `MaxPolls` polls
here; `ParamTask` has the clocks), and tokens shared by concurrent calls
(`TokenRefresh`, `UserSession`). One call at a time is enough, because `Control`,
`UserControl` and `Plants` keep nothing between calls.

## Runs

| Run | Bounds | Shows |
|---|---|---|
| `token_refresh` | 3 coroutines, 1 authorizes, clock 0..3, 3 grants, margin 1, timeout 2, lives of 1, all kinds of answers, faults | no token spent twice, the stored one usable, what is handed out overdue for a bounded time at most, refresh only when expired, every call returns; the type |
| `token_spent_twice` | 2 coroutines, no faults | **finding**: an answer without `expires_in` makes the next caller present a spent token |
| `token_margin` | 2 coroutines, no faults, clock 0..5, margin 2, timeout 3, life 4 | **finding**: with the code's margin and timeout a dead token is handed out |
| `user_session` | 3 coroutines, 1 also logs in directly, 2 logins, 1 session ended, faults | the five session properties and the type |
| `user_logins` | 2 coroutines, no faults, no direct login | **finding**: one ended session costs two logins |
| `param_task` | 2 concurrent writes, expiry and deadline 3, poll every 2, latency up to 2 | the task properties and the refinement of `WriteCall` |
| `heartbeat_loop` | interval 4, sending up to 2, 2 failures in a row, clock to 20 | it stops promptly, survives failures; the gap between heartbeats |
| `device_realtime` | 2 devices, 2 chunks, both sessions, with and without user session | the three device properties and the type |
| `device_unavailable` | 1 device, 1 chunk, owned session | **finding**: 404/405 reaches the caller as an HTTP error |
| `history_paging` | starts 0, 0.5, 2, 3.5 s, ends 2, 3.5, 4 s, chunks -0.5 to 4.5 s, every set of stored samples, samples stored meanwhile | the five paging properties and the type |
| `api_call` | 3 codes, 3 chunks of points, 2 polls per task, every parameter and endpoint, 46 values with 4 pairs of bounds, both transports | the five safety properties of a call, its type, and that it ends |
| `devices_list` | the same | **finding**: a list of devices ends in an exception instead of reaching the caller |

Why these bounds are enough to be interesting. Three coroutines give a holder, a
waiter and a second waiter or an authorization beside them; three grants give an
authorization, a rotation and either another rotation or a second authorization that
overtakes a refresh. Three steps of the clock let the granted token expire and the
refreshed one expire again, and a token that came in an answer two steps under way,
which is longer than the margin, be overdue. In `token_margin` a step is 10 s, so
that margin and timeout are the code's own 20 s and 30 s; a life of 4 steps is
longer than an exchange may take, so that the server never sends a dead token. Two
logins are the first one and the one after a refusal; what follows is the lock-out.
In `param_task` an exchange may last as long as a poll interval, so that answers
arrive before, at and after the deadline, and two calls overlap in every way;
`StartBy` bounds when they start.

Five periods of the heartbeat loop fit under its clock, so that two failures in
a row and recoveries happen in any order. Two chunks are a first and a last one
that may each be empty, fail or hold a device the other does not. The windows of
`history_paging` are empty, reversed, shorter than a chunk, a multiple of it and
none, and its chunks are refused, shorter than a second, broken and whole.

In `api_call` three codes make a first, a middle and a last single read, each of
which may be rejected, lost, refused or give a row, and two polls are one that may
be repeated and one that is the last. The values lie at, just inside and just
outside the bounds of the catalogue and of the call, half-way between two units
of the wire for each scale and parity, and are infinite, NaN, digits, names and
codes of options; the bounds are absent, open or between two units. Every
parameter, a name without specification and a bare code are written. TLC's integers
have 32 bits: values in the thousands, which are far out of the range of `pf`, are
not tried with it (`Fits`), since a thousand times such a value does not fit.

`param_task`, `heartbeat_loop`, `history_paging`, `api_call`, `devices_list` and
the `device_*` runs have no deadlock check: once the calls have ended nothing is
left to do. In the other
runs some coroutine can always call again.

Fairness. `Resume`, `Server` and `ExchangeFails` of one coroutine are weakly fair
together: the event loop runs every coroutine that is ready, and aiohttp's total
timeout (30 s for an owned session) ends each exchange with an answer or an
exception. New calls, cancellations of waiters and dropped sessions are not
fair. In `ParamTask` the clock is fair and so are the call and the answers to
it; nothing makes the device act. In `HeartbeatLoop` the clock and the loop are
fair, and the write ends because `ParamTask` does. In `HistoryPaging` the consumer
keeps asking and requests end. In `ApiCall` the steps of a call under way are weakly
fair, since both transports set a timeout; starting one is not. `DeviceRealtime`
has no liveness property.

What `GapBounded` says of the heartbeat: the docstring promises that the loop
"sleeps `interval_seconds` between heartbeats so the inverter never times out"
(`control.py:337-338`). The value announced to the inverter is that same interval,
and the period is the interval plus the duration of a write; the bound is
interval plus two writes, and one period more for each failure. What the inverter
tolerates is not in the repository, so no finding is made of it.

## Proofs

`TokenRefreshProofs` proves for any set of callers and any bounds:

* `TypeCorrect`: the type invariant, with `SuspendedOK`, which says that a
  suspended coroutine has what its continuation uses (a refreshing one holds the
  lock and has an exchange, a waiting one may rely on `tokens` not being `None`).
* `NeverSpentTwice` and `StoredUsable`. Neither is inductive alone. `IInv` adds
  that a refresh token on its way to the client is new (accepted by the server,
  neither stored nor presented nor on its way to anybody else: `DeliveredFresh`),
  that a presented token stays usable until its replacement is on its way
  (`PresentedUsable`), and that all tokens are numbered below `issued`. The case
  that matters is an authorization that stores its tokens while a refresh is in
  flight: both tokens are new to each other, so either may be stored last.
* `HandedOutBounded`, for any margin, timeout and lives: a token handed out has been
  refused by the server for no longer than an answer may take beyond the margin, ten
  seconds with the code's figures of 20 s and 30 s (owned session), or beyond the life
  it brings. The invariant `ClockInv` bounds what an answer in flight may claim by when
  it was sent. That the token is always valid, as the docstring says, is refuted by
  `token_margin`.
* `RefreshNeedsExpiry`: the action property.
* Where losses and rejections come from. `SpentOnlyByLoss`: if no exchange fails and every
  refresh is answered with `expires_in`, no spent token is ever presented
  (`NothingForfeited`). `RefusalMeansSpent`: if the server refuses only spent tokens,
  a rejected refresh had presented one (`RefusedSpent`). The latter is about the token
  presented and not the one stored, as the error's documentation has it: an
  authorization may have replaced that one while the refresh was in flight. Nor does it
  hold with quota answers (`throttled`): `TokenRefreshError` is raised for them too, while
  the stored refresh token is still accepted, contrary to that documentation
  (`__init__.py:399-400`).

`UserSessionProofs` proves for any set of callers and any bounds:

* `SessionTypeCorrect` and `Serialised`: the type, and that logins of requests
  exclude each other.
* `PostsCarryTokens`: with `NumberedInv`, every token held, sent or on its way
  comes from a login.
* `RetriesChangeToken`: with `RetryInv`, a token on its way to the client is new
  to everybody, and the shared token is none that was refused to a call now in
  its second attempt. It holds although any coroutine may clear or replace the
  shared token between the two posts.
* `EveryLoginJustified`: with `LoginsInv`, a missing token behind a free lock
  leaves one unused reason to log in.

`HistoryPagingProofs` proves for any bounds, chunk window and set of samples
`RowsChronological`, `ResumableAfterLastRow`, `EverythingDelivered` and `RangeKept`.
The inductive invariant adds that the page lies in its chunk (`Walk`), that what
was handed out lies before it (`RowsBehind`), and that what the server had from the
beginning is handed out up to the cursor and in the page beyond it (`Covered`).
That a chunk shorter than a second asks for an empty range, and that the second
it begins in is asked for by exactly one chunk, is `StampFacts`.

`ApiCallProofs` proves for any codes, chunks, writes and number of polls:

* `Controlled`: what is posted belongs to the operation under way (`ControlInv`),
  which the other three rest on.
* `WrittenOnce`. `WriteInv` says when a write has been carried out: exactly while
  its task is polled for, and in a finished call that returned. The step that
  matters is `AcceptedMeansTask`: a submit the client takes for accepted was
  accepted, on the transport without `result_code` too.
* `RefusalsEnd`, of refusals that an envelope or an auth class states. A call under
  way has met none, and after a `check_result` of "9" is a read of all parameters
  (`RefusalInv`).
  `RefusalsClassified` and `ProcessRefusal` go through every reader of a reply:
  each takes the envelope for that exception and none for an answer, and no such
  exception leads to the next single read.
* `NothingLeftOut`. The codes asked for and those still to be asked for make up
  the list (`FallbackInv`, `MoveOne`).

`ApiCallDataProofs` continues with what a call carries, again for any codes,
chunks, writes and number of polls:

* `WritesAsAsked`: what goes out with a write is the code of the parameter and the
  code of the option that was asked for, or the whole unit nearest to the value; a
  name without specification and a bare code go out with their value as it is.
  `RoundFacts` says that `Round` is off by half a unit at most, `CatalogueFacts`
  that each bound of the catalogue is a whole number of units. A number within such
  a bound cannot be rounded across it (`ScaledBounds`), although the code checks
  before it rounds; for the bounds of one call only the half unit is left.
  `CodesAgree` relates the two tables of codes, for every parameter.
* `NothingReportedIsLost`. `DataInv` says where the rows are while a call is under
  way: in `rows`, in the order reported, with no row of a bulk read that has not
  been answered, and for points with the chunks asked for and those still to be
  asked for making up the list. `AnswerFacts` says that a task's rows are among the
  codes it was asked for.
* `TypeCorrect`. Its strengthening `TypeInv` says what the lists hold, which two
  exceptions start the fallback, and that a call has an outcome exactly when it is
  done; the last needs every reader of a reply to return something or to raise.

`ParamTaskProofs` proves for any set of calls, life time of a task, poll interval
and latency:

* `TypeCorrect`, and `CallsBounded` with no further assumption; and `TimeoutsWait`,
  that a call gives up only when its task is as old as its timeout.
* `TimeoutsFinal`, `AnswersFinal` and `Refinement`, under `LongEnough`: the client
  waits at least as long as the server keeps the task. That is the code's default
  (`wait_for_task` waits for `_EXPIRE_SECONDS`, which is also the `expire_second`
  of the submit); a caller who passes a shorter `timeout` gives it up, and then
  a write may still happen after the timeout exception, by `TimeoutsWait` for as long as
  the life of the task exceeds that timeout.

The invariant `IInv` says of each call what the client knows of its task, since it
is neither told of its creation nor of its end: the task exists and is no younger
than the deadline implies (`KnowsTask`), what an answer on its way says is still so
when it arrives (`AnswersHold`), and after the call ended with it (`EndsHold`), and
no timer lies far beyond the deadline (`TimerSet`). The refinement goes through the
steps: `SubmitKept`, `CallKept`, `ServerKept` and `TickKept` show each one to be a
step of `WriteCall` or a stutter. A tick of the clock may be a step of `WriteCall`
that gives up several writes at once (`GivesUp`), and a task that fails on the
server may be one that the caller has not heard of.

`HeartbeatLoopProofs` proves for any interval, duration of a heartbeat and bounds
`TypeCorrect`, `StopsInTime` and `GapsBounded`. The invariant says how long the loop
stays where it is (`Timed`), how old the last heartbeat was when it came there,
counted in periods per failure (`AgeOnEntry`), that a heartbeat received while
sending is a new one (`BeatFresh`), and when a pending stop found the loop
(`StopPending`).

`DeviceRealtimeProofs` proves for any devices and any number of chunks
`TypeCorrect`, `EmptyIsQuiet`, `NoChunkLost` and `FallbackOnlyForNothing`. While
chunks are asked for, what is collected is what the open API has answered so far
(`Collecting`), and the fallback starts from nothing (`FromNothing`): a later
chunk that finds the endpoint missing must not have had an earlier one answered. The
chunks answered so far are those before the one asked for, so that data are returned
after all of them.
`InjectedSessionReports` says that with a session of the application a missing URL is
reported as documented, so that the finding of `device_unavailable` is one of the
owned session.

The assumptions are those named in the modules: types of the constants, and that
`None` is no number, coroutine, token set, reply, exchange, operation or result.
Theorems with a hypothesis of their own name it: `LongEnough`, the
answers and failures excluded by `SpentOnlyByLoss` and `RefusalMeansSpent`, and the
session of `InjectedSessionReports`.

Every invariant and every action property of the passing runs is proved. Only
model-checked are the liveness properties `EveryCallReturns`, `EveryCallEnds`,
`LoopGoesOn` and `IterationEnds`, which need `ENABLED` and fairness and are out of
the prover's reach; and the five properties the code violates, which are refuted. No
module with a theorem has a recursive definition.

## Plan

Done: every component above that has state, with its properties, the promise of
a write and its refinement, and proofs of all safety properties.

1. Composition: a task whose exchanges ask `TokenRefresh` for their token, so
   that waiting for the lock counts against the deadline of the task.
2. Heartbeats over `ParamTask`: the bound of `GapBounded` in terms of the deadline
   of a task instead of `MaxSend`.

## Not modelled

Envelope cryptography and the wire format (bytes; an undecodable reply is an
exception and appears as such), the measure point catalogue (a constant table,
parsed once and looked up) and the script that generates it, the contents of
requests, the formatting of points and rows beyond whether it raises, logging.
Lists beyond their first page of 100 entries, which the code never asks for. The
`retry_after` and the wording of exceptions, which nothing in the code reads, and
the legacy view of the parameter table, which is derived from it.
Sub-second time: `int(time.time())` is the clock. Two event loops sharing one
object: the lock belongs to the first loop.
