---------------------------- MODULE UserSession -----------------------------
(***************************************************************************)
(* The user-account session of `UserAuth` (src/pysolarcloud/user_auth.py): *)
(* several coroutines share one session token.  A call logs in first if    *)
(* there is no token (logins are serialised by an asyncio.Lock), posts its *)
(* request with a snapshot of the token and, when the server refuses that  *)
(* token, clears the shared one, logs in again and posts once more.        *)
(*                                                                         *)
(* An action is what one coroutine does from one await to the next.  A     *)
(* session token is the number of the login that created it; user_id is    *)
(* stored and sent together with it and is not modelled on its own.        *)
(***************************************************************************)
EXTENDS Integers, Sequences, FiniteSets

CONSTANTS
    Callers,        \* coroutines sharing the UserAuth
    DirectLogins,   \* those of them that also call async_login themselves
    SingleSession,  \* TRUE: a login ends every earlier session of the account
    Faults,         \* TRUE: exchanges may fail, coroutines may be cancelled
    MaxLogins,      \* bound on the logins the server accepts (then it locks out)
    MaxDrops,       \* bound on the sessions the server ends by itself
    None            \* Python's None

ASSUME ConstantsAssumption ==
    /\ DirectLogins \subseteq Callers
    /\ SingleSession \in BOOLEAN /\ Faults \in BOOLEAN
    /\ MaxLogins \in Nat /\ MaxDrops \in Nat
    /\ None \notin Nat /\ None \notin Callers

VARIABLES
    token,          \* UserAuth.token
    login_lock,     \* owner of UserAuth._login_lock, or None
    waiters,        \* coroutines queued on the lock, first come first served
    pc,             \* where each coroutine is suspended
    attempt,        \* which post of its request a call is working on
    payload,        \* the token in the payload of the post in flight
    refused,        \* the token refused to the call's first post
    answer,         \* what the server answered to the exchange in flight
    sessions,       \* tokens the server accepts
    issued,         \* logins the server accepted
    drops,          \* sessions the server ended by itself
    logins,         \* logins started by requests that did not fail (yet)
    rejections      \* posts refused for their token, first attempts

client == <<token, login_lock, waiters, pc, attempt, payload, refused>>
server == <<sessions, issued, drops>>
counts == <<logins, rejections>>
vars == <<token, login_lock, waiters, pc, attempt, payload, refused, answer,
          sessions, issued, drops, logins, rejections>>

Places == {"idle", "queued", "login", "direct", "posted"}
Kinds == {"pending", "accepted", "rejected", "success", "error", "token_invalid"}

Answer(kind, t) == [kind |-> kind, token |-> t]
Pending == Answer("pending", None)

TypeOK ==
    /\ token \in Nat \cup {None}
    /\ login_lock \in Callers \cup {None}
    /\ waiters \in Seq(Callers)
    /\ pc \in [Callers -> Places]
    /\ attempt \in [Callers -> {1, 2}]
    /\ payload \in [Callers -> Nat \cup {None}]
    /\ refused \in [Callers -> Nat \cup {None}]
    /\ answer \in [Callers -> [kind : Kinds, token : Nat \cup {None}]]
    /\ sessions \subseteq Nat
    /\ issued \in Nat /\ drops \in Nat
    /\ logins \in Int /\ rejections \in Nat

Init ==
    /\ token = None /\ login_lock = None /\ waiters = <<>>
    /\ pc = [c \in Callers |-> "idle"]
    /\ attempt = [c \in Callers |-> 1]
    /\ payload = [c \in Callers |-> None]
    /\ refused = [c \in Callers |-> None]
    /\ answer = [c \in Callers |-> Pending]
    /\ sessions = {} /\ issued = 0 /\ drops = 0
    /\ logins = 0 /\ rejections = 0

-----------------------------------------------------------------------------
(* Steps of a coroutine. *)

At(c, place) == pc' = [pc EXCEPT ![c] = place]

\* async_get_token has returned: the payload is built from the token as it is
\* now and posted, before anything else can run.
Post(c, t) ==
    /\ At(c, "posted")
    /\ payload' = [payload EXCEPT ![c] = t]

\* Mutant: no lock at all.
NoLock == TRUE

LockAvailable == login_lock = None /\ waiters = <<>>

StartLogin(c) ==
    /\ At(c, "login")
    /\ login_lock' = c
    /\ logins' = logins + 1

\* async_get_token without a token: take the lock and log in, or queue for it.
GetToken(c) ==
    \/ LockAvailable /\ StartLogin(c) /\ UNCHANGED waiters
    \/ /\ ~LockAvailable
       /\ At(c, "queued")
       /\ waiters' = Append(waiters, c)
       /\ UNCHANGED <<login_lock, logins>>

\* async_request_soft up to its first await.
RequestWithToken(c) ==
    /\ pc[c] = "idle" /\ token # None
    /\ Post(c, token)
    /\ UNCHANGED <<token, login_lock, waiters, attempt, refused, answer, server, counts>>

RequestWithoutToken(c) ==
    /\ pc[c] = "idle" /\ token = None
    /\ GetToken(c)
    /\ UNCHANGED <<token, attempt, payload, refused, answer, server, rejections>>

MyTurn(c) == pc[c] = "queued" /\ login_lock = None /\ waiters # <<>> /\ Head(waiters) = c

\* Mutants: the token is not tested after the wait.
WaiterLogsInAnyway(c) ==
    /\ MyTurn(c)
    /\ StartLogin(c)
    /\ waiters' = Tail(waiters)
    /\ UNCHANGED <<token, attempt, payload, refused, answer, server, rejections>>
WaiterPostsAnyway(c) ==
    /\ MyTurn(c)
    /\ Post(c, token)
    /\ waiters' = Tail(waiters)
    /\ UNCHANGED <<token, login_lock, attempt, refused, answer, server, counts>>

\* Inside the lock the token is tested again: log in only if it is still absent.
WaiterLogsIn(c) ==
    /\ MyTurn(c) /\ token = None
    /\ StartLogin(c)
    /\ waiters' = Tail(waiters)
    /\ UNCHANGED <<token, attempt, payload, refused, answer, server, rejections>>

WaiterPosts(c) ==
    /\ MyTurn(c) /\ token # None
    /\ Post(c, token)
    /\ waiters' = Tail(waiters)
    /\ UNCHANGED <<token, login_lock, attempt, refused, answer, server, counts>>

ClearAnswer(c) == answer' = [answer EXCEPT ![c] = Pending]

\* Mutant: the lock is not released.
KeepLock(c) == UNCHANGED login_lock

ReleaseLock(c) == login_lock' = IF login_lock = c THEN None ELSE login_lock

\* The login succeeded: store the token, release the lock and post.
LoginSucceeds(c) ==
    /\ pc[c] = "login" /\ answer[c].kind = "accepted"
    /\ token' = answer[c].token
    /\ ReleaseLock(c)
    /\ Post(c, answer[c].token)
    /\ ClearAnswer(c)
    /\ UNCHANGED <<waiters, attempt, refused, server, counts>>

\* The call is over; whatever it held is given back.
Leave(c) ==
    /\ At(c, "idle")
    /\ ReleaseLock(c)
    /\ ClearAnswer(c)
    /\ attempt' = [attempt EXCEPT ![c] = 1]
    /\ payload' = [payload EXCEPT ![c] = None]
    /\ refused' = [refused EXCEPT ![c] = None]

\* Rejected credentials, an answer without token or user id: AuthError.  What is
\* stored stays, and the next waiter will try again.
LoginFails(c) ==
    /\ pc[c] \in {"login", "direct"} /\ answer[c].kind = "rejected"
    /\ Leave(c)
    /\ logins' = IF pc[c] = "login" THEN logins - 1 ELSE logins
    /\ UNCHANGED <<token, waiters, server, rejections>>

\* The application calls async_login itself: no lock is taken.
LoginDirectly(c) ==
    /\ pc[c] = "idle" /\ c \in DirectLogins /\ issued < MaxLogins
    /\ At(c, "direct")
    /\ UNCHANGED <<token, login_lock, waiters, attempt, payload, refused, answer, server, counts>>

DirectLoginSucceeds(c) ==
    /\ pc[c] = "direct" /\ answer[c].kind = "accepted"
    /\ token' = answer[c].token
    /\ Leave(c)
    /\ UNCHANGED <<waiters, server, counts>>

\* The envelope is returned to the caller: a success, an error that is not about
\* the token, or a second refusal.
PostReturns(c) ==
    /\ pc[c] = "posted"
    /\ answer[c].kind \in {"success", "error"} \/ (answer[c].kind = "token_invalid" /\ attempt[c] = 2)
    /\ Leave(c)
    /\ UNCHANGED <<token, waiters, server, counts>>

\* Mutants: re-login without limit; the refused token is not cleared.
PostRefusedAgain(c) ==
    /\ pc[c] = "posted" /\ answer[c].kind = "token_invalid"
    /\ token' = None
    /\ attempt' = [attempt EXCEPT ![c] = @ + 1]
    /\ refused' = [refused EXCEPT ![c] = payload[c]]
    /\ payload' = [payload EXCEPT ![c] = None]
    /\ rejections' = rejections + 1
    /\ ClearAnswer(c)
    /\ GetToken(c)
    /\ UNCHANGED server
PostRefusedKeepsToken(c) ==
    /\ pc[c] = "posted" /\ answer[c].kind = "token_invalid" /\ attempt[c] = 1
    /\ token # None
    /\ attempt' = [attempt EXCEPT ![c] = 2]
    /\ refused' = [refused EXCEPT ![c] = payload[c]]
    /\ Post(c, token)
    /\ ClearAnswer(c)
    /\ UNCHANGED <<token, login_lock, waiters, server, counts>>

\* The first post was refused for its token: the shared token is cleared,
\* whichever it is by now, and the call gets a token again.
PostRefused(c) ==
    /\ pc[c] = "posted" /\ answer[c].kind = "token_invalid" /\ attempt[c] = 1
    /\ token' = None
    /\ attempt' = [attempt EXCEPT ![c] = 2]
    /\ refused' = [refused EXCEPT ![c] = payload[c]]
    /\ payload' = [payload EXCEPT ![c] = None]
    /\ rejections' = rejections + 1
    /\ ClearAnswer(c)
    /\ GetToken(c)
    /\ UNCHANGED server

\* The exchange fails: connection error, timeout, undecodable reply, or the
\* coroutine is cancelled.  A login the server accepted is lost with it.
ExchangeFails(c) ==
    /\ Faults /\ pc[c] \in {"login", "direct", "posted"}
    /\ logins' = IF pc[c] = "login" THEN logins - 1 ELSE logins
    /\ Leave(c)
    /\ UNCHANGED <<token, waiters, server, rejections>>

WaiterCancelled(c) ==
    /\ Faults /\ pc[c] = "queued"
    /\ \E i \in DOMAIN waiters :
         /\ waiters[i] = c
         /\ waiters' = [j \in 1..(Len(waiters) - 1) |-> waiters[IF j < i THEN j ELSE j + 1]]
    /\ Leave(c)
    /\ UNCHANGED <<token, server, counts>>

-----------------------------------------------------------------------------
(* The server, as the client's code relies on it. *)

Awaits(c, places) == pc[c] \in places /\ answer[c] = Pending

AnswerWith(c, kind, t) == answer' = [answer EXCEPT ![c] = Answer(kind, t)]

ServerLogsIn(c) ==
    /\ Awaits(c, {"login", "direct"}) /\ issued < MaxLogins
    /\ issued' = issued + 1
    /\ sessions' = (IF SingleSession THEN {} ELSE sessions) \cup {issued + 1}
    /\ AnswerWith(c, "accepted", issued + 1)
    /\ UNCHANGED <<client, drops, counts>>

ServerRejectsLogin(c) ==
    /\ Awaits(c, {"login", "direct"})
    /\ Faults \/ issued = MaxLogins
    /\ AnswerWith(c, "rejected", None)
    /\ UNCHANGED <<client, server, counts>>

ServerAnswers(c) ==
    /\ Awaits(c, {"posted"})
    /\ \/ payload[c] \in sessions /\ (AnswerWith(c, "success", None) \/ AnswerWith(c, "error", None))
       \/ payload[c] \notin sessions /\ AnswerWith(c, "token_invalid", None)
    /\ UNCHANGED <<client, server, counts>>

\* The server ends a session: it expired, or somebody logged in elsewhere.
ServerDropsSession ==
    /\ drops < MaxDrops
    /\ \E t \in sessions : sessions' = sessions \ {t}
    /\ drops' = drops + 1
    /\ UNCHANGED <<client, answer, issued, counts>>

-----------------------------------------------------------------------------

Start(c) == RequestWithToken(c) \/ RequestWithoutToken(c) \/ LoginDirectly(c)

Resume(c) ==
    \/ WaiterLogsIn(c) \/ WaiterPosts(c)
    \/ LoginSucceeds(c) \/ LoginFails(c) \/ DirectLoginSucceeds(c)
    \/ PostReturns(c) \/ PostRefused(c)

Server(c) == ServerLogsIn(c) \/ ServerRejectsLogin(c) \/ ServerAnswers(c)

Next ==
    \/ \E c \in Callers :
         Start(c) \/ Resume(c) \/ ExchangeFails(c) \/ WaiterCancelled(c) \/ Server(c)
    \/ ServerDropsSession

\* The event loop resumes every coroutine that can run, and every exchange ends,
\* with an answer or with the session's timeout.
Fairness == \A c \in Callers : WF_vars(Resume(c) \/ Server(c) \/ ExchangeFails(c))

Spec == Init /\ [][Next]_vars /\ Fairness

-----------------------------------------------------------------------------
(* Properties. *)

\* A request is never sent without a token: whatever clears the shared token
\* while a call waits for the lock, its payload carries a token of some login.
PostedTokenReal ==
    \A c \in Callers : pc[c] = "posted" => payload[c] \in 1..issued

\* Every login that did not fail has a reason of its own: the session starts, or
\* a post was refused.  A waiter that finds a token does not log in again.
LoginsJustified == logins <= 1 + rejections

\* The second post never presents the token that was refused to the first.
RetryUsesAnotherToken ==
    \A c \in Callers : (pc[c] = "posted" /\ attempt[c] = 2) => payload[c] # refused[c]

\* Logins of async_get_token exclude each other, and a call that waits for one
\* waits behind a call that is logging in.
LoginsSerialised ==
    /\ \A c, d \in Callers : (pc[c] = "login" /\ pc[d] = "login") => c = d
    /\ login_lock # None => pc[login_lock] = "login"

\* Every call ends: after at most one more login and one more post.
EveryCallReturns == \A c \in Callers : (pc[c] # "idle") ~> (pc[c] = "idle")

\* What the comment on the login lock claims: concurrent callers do not each
\* spend a login when the server ends the session they share.
OneLoginPerLostSession == logins <= 1 + drops

-----------------------------------------------------------------------------
(* The invariant under which the safety properties are inductive. *)

\* The lock is held by the call that is logging in, for as long as it is.
LockHeld ==
    /\ login_lock # None => pc[login_lock] = "login"
    /\ \A c \in Callers : pc[c] = "login" => login_lock = c

\* An answer belongs to the exchange in flight.
AnswersExpected ==
    \A c \in Callers :
        /\ pc[c] \in {"idle", "queued"} => answer[c] = Pending
        /\ pc[c] \in {"login", "direct"} => answer[c].kind \in {"pending", "accepted", "rejected"}
        /\ pc[c] = "posted" => answer[c].kind # "accepted"

Accepted(c) == answer[c].kind = "accepted"

\* Every token anybody knows comes from a login.
Numbered ==
    /\ token # None => token \in 1..issued
    /\ \A c \in Callers :
         /\ payload[c] # None => payload[c] \in 1..issued
         /\ refused[c] # None => refused[c] \in 1..issued
         /\ Accepted(c) => answer[c].token \in 1..issued

\* A token on its way to the client is new to everybody.
DeliveredFresh ==
    \A c \in Callers : Accepted(c) =>
        /\ answer[c].token # token
        /\ \A d \in Callers :
             /\ answer[c].token \notin {payload[d], refused[d]}
             /\ (d # c /\ Accepted(d)) => answer[d].token # answer[c].token

\* The shared token is none that was refused to a call now in its second attempt.
RefusedForgotten ==
    \A c \in Callers : attempt[c] = 2 => refused[c] # None /\ token # refused[c]

\* A missing token behind a free lock leaves a reason for one more login.
LoginsLeft == (token = None /\ login_lock = None) => logins <= rejections
=============================================================================
