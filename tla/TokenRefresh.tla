---------------------------- MODULE TokenRefresh ----------------------------
(***************************************************************************)
(* The OAuth token life cycle of `Auth` (src/pysolarcloud/__init__.py):    *)
(* several coroutines share one Auth, ask it for an access token, and the  *)
(* first to find the token expired exchanges the single-use refresh token  *)
(* under an asyncio.Lock.  A coroutine runs without interruption between   *)
(* two awaits, so an action is everything one coroutine does from one      *)
(* await to the next.                                                      *)
(*                                                                         *)
(* Tokens are numbers.  A refresh token is the number of the grant that    *)
(* issued it; an access token is represented by the instant at which the   *)
(* server stops accepting it, which is all the client's caller can tell.   *)
(***************************************************************************)
EXTENDS Integers, Sequences, FiniteSets

CONSTANTS
    Callers,    \* coroutines sharing the Auth
    Authorizers,\* those of them that also run async_authorize
    Margin,     \* the safety margin subtracted from expires_in (20 s)
    Timeout,    \* total timeout of one HTTP exchange (30 s by default)
    ExpiresIn,  \* life times the server may grant
    Replies,    \* kinds of answers the refresh endpoint gives
    Faults,     \* TRUE: exchanges may fail, coroutines may be cancelled
    MaxTime,    \* bound on the clock
    MaxGrants,  \* bound on the refresh tokens the server issues
    None        \* Python's None; in a reply, a key that is absent (JSON null is not considered)

ReplyKinds == {"rotated", "partial", "no_expiry", "throttled"}

ASSUME ConstantsAssumption ==
    /\ Margin \in Nat /\ Timeout \in Nat \ {0}
    /\ Authorizers \subseteq Callers
    /\ ExpiresIn \subseteq Nat
    /\ Replies \subseteq ReplyKinds
    /\ Faults \in BOOLEAN
    /\ MaxTime \in Nat /\ MaxGrants \in Nat
    /\ None \notin Nat /\ None \notin Callers

VARIABLES
    now,            \* the clock
    tokens,         \* Auth.tokens
    refresh_lock,   \* owner of Auth._refresh_lock, or None
    waiters,        \* coroutines queued on the lock, first come first served
    pc,             \* where each coroutine is suspended
    exchange,       \* its HTTP exchange in flight, or None
    live,           \* refresh tokens the server still accepts
    issued,         \* number of refresh tokens issued so far
    forfeited,      \* presented refresh tokens whose answer was never stored
    handed          \* for how long the server has refused the last token handed out

client == <<tokens, refresh_lock, waiters, pc>>
server == <<live, issued>>
vars == <<now, tokens, refresh_lock, waiters, pc, exchange, live, issued, forfeited, handed>>

Optional(S) == S \cup {None}

TokenSet == [access_token : Nat, refresh_token : Nat, expires_at : Int]
Reply == [access_token : Optional(Nat), refresh_token : Optional(Nat), expires_in : Optional(Nat)]
Exchange == [presented : Optional(Nat), start : Nat, reply : Optional(Reply)]

ASSUME NoneAssumption == None \notin TokenSet /\ None \notin Reply /\ None \notin Exchange

ErrorReply == [access_token |-> None, refresh_token |-> None, expires_in |-> None]

TypeOK ==
    /\ now \in Nat
    /\ tokens \in Optional(TokenSet)
    /\ refresh_lock \in Optional(Callers)
    /\ waiters \in Seq(Callers)
    /\ pc \in [Callers -> {"idle", "waiting", "refreshing", "authorizing"}]
    /\ exchange \in [Callers -> Optional(Exchange)]
    /\ live \subseteq Nat /\ issued \in Nat /\ forfeited \subseteq Nat
    /\ handed \in Nat

Init ==
    /\ now = 0
    /\ tokens = None
    /\ refresh_lock = None
    /\ waiters = <<>>
    /\ pc = [c \in Callers |-> "idle"]
    /\ exchange = [c \in Callers |-> None]
    /\ live = {} /\ issued = 0 /\ forfeited = {}
    /\ handed = 0

-----------------------------------------------------------------------------
(* Steps of a coroutine. *)

Expired == tokens.expires_at < now

\* The caller gets a token; what it is worth to the server at that moment is noted.
HandOut(t) == handed' = IF now <= t.access_token THEN 0 ELSE now - t.access_token

\* Mutant: no lock at all.
NoLock == TRUE

\* The lock is taken without waiting only if nobody holds it or queues for it.
LockAvailable == refresh_lock = None /\ waiters = <<>>

Send(c, where, refreshToken) ==
    /\ pc' = [pc EXCEPT ![c] = where]
    /\ exchange' = [exchange EXCEPT ![c] =
          [presented |-> refreshToken, start |-> now, reply |-> None]]

\* Inside the lock with an expired token: current_refresh_token is read here,
\* after the lock was acquired, and presented to the server.
StartRefresh(c) ==
    /\ refresh_lock' = c
    /\ Send(c, "refreshing", tokens.refresh_token)
    /\ UNCHANGED <<now, tokens, live, issued, forfeited, handed>>

\* async_get_access_token before async_authorize: auth_not_initialised.
GetTokenUnauthorized(c) ==
    /\ pc[c] = "idle" /\ tokens = None
    /\ UNCHANGED vars

\* The fast path: a token not yet expired needs no lock.
GetTokenFast(c) ==
    /\ pc[c] = "idle" /\ tokens # None /\ ~Expired
    /\ HandOut(tokens)
    /\ UNCHANGED <<now, client, exchange, server, forfeited>>

\* The slow path with the lock available: there is no await between the fast
\* path's test and the test inside the lock.
GetTokenRefresh(c) ==
    /\ pc[c] = "idle" /\ tokens # None /\ Expired
    /\ LockAvailable
    /\ StartRefresh(c)
    /\ UNCHANGED waiters

\* The slow path with the lock taken.
GetTokenQueue(c) ==
    /\ pc[c] = "idle" /\ tokens # None /\ Expired
    /\ ~LockAvailable
    /\ pc' = [pc EXCEPT ![c] = "waiting"]
    /\ waiters' = Append(waiters, c)
    /\ UNCHANGED <<now, tokens, refresh_lock, exchange, server, forfeited, handed>>

MyTurn(c) == pc[c] = "waiting" /\ refresh_lock = None /\ waiters # <<>> /\ Head(waiters) = c

\* Mutant: no test after the wait.
WaiterRefreshesAnyway(c) ==
    /\ MyTurn(c)
    /\ StartRefresh(c)
    /\ waiters' = Tail(waiters)

\* A waiter gets the lock and the test is made again: still expired.
WaiterRefreshes(c) ==
    /\ MyTurn(c) /\ Expired
    /\ StartRefresh(c)
    /\ waiters' = Tail(waiters)

\* ... or somebody refreshed meanwhile: return the stored token.
WaiterSkips(c) ==
    /\ MyTurn(c) /\ ~Expired
    /\ HandOut(tokens)
    /\ pc' = [pc EXCEPT ![c] = "idle"]
    /\ waiters' = Tail(waiters)
    /\ UNCHANGED <<now, tokens, refresh_lock, exchange, server, forfeited>>

\* Mutant: the lock is not released.
LeaveLocked(c) ==
    /\ pc' = [pc EXCEPT ![c] = "idle"]
    /\ exchange' = [exchange EXCEPT ![c] = None]
    /\ UNCHANGED refresh_lock

\* The coroutine leaves: its exchange is over and, if it held the lock
\* (`async with`), the lock is released, whatever the outcome.
Leave(c) ==
    /\ pc' = [pc EXCEPT ![c] = "idle"]
    /\ exchange' = [exchange EXCEPT ![c] = None]
    /\ refresh_lock' = IF refresh_lock = c THEN None ELSE refresh_lock

Answered(c, where) == pc[c] = where /\ exchange[c].reply # None

\* Mutants: the answer's refresh token is stored even if absent; the old one is
\* kept even if rotated; no safety margin.
StoredAsIs(reply, oldRefresh) ==
    [access_token |-> reply.access_token, refresh_token |-> reply.refresh_token,
     expires_at |-> now + reply.expires_in - Margin]
StoredOldFirst(reply, oldRefresh) ==
    [access_token |-> reply.access_token,
     refresh_token |-> IF oldRefresh # None THEN oldRefresh ELSE reply.refresh_token,
     expires_at |-> now + reply.expires_in - Margin]
StoredNoMargin(reply, oldRefresh) ==
    [access_token |-> reply.access_token,
     refresh_token |-> IF reply.refresh_token # None THEN reply.refresh_token ELSE oldRefresh,
     expires_at |-> now + reply.expires_in]

\* What the client stores of an answer received now.
Stored(reply, oldRefresh) ==
    [access_token  |-> reply.access_token,
     refresh_token |-> IF reply.refresh_token # None THEN reply.refresh_token ELSE oldRefresh,
     expires_at    |-> now + reply.expires_in - Margin]

\* A usable answer to a refresh: store it (keeping the refresh token when the
\* answer has none) and return the new access token.
RefreshSucceeds(c) ==
    /\ Answered(c, "refreshing")
    /\ LET reply == exchange[c].reply IN
         /\ reply.access_token # None /\ reply.expires_in # None
         /\ tokens' = Stored(reply, exchange[c].presented)
         /\ HandOut(reply)
    /\ Leave(c)
    /\ UNCHANGED <<now, waiters, server, forfeited>>

\* No access token key in the answer: TokenRefreshError.
RefreshRejected(c) ==
    /\ Answered(c, "refreshing")
    /\ exchange[c].reply.access_token = None
    /\ Leave(c)
    /\ UNCHANGED <<now, tokens, waiters, server, forfeited, handed>>

\* An access token but no expires_in: ts["expires_in"] raises KeyError before
\* anything is stored.
RefreshUnusable(c) ==
    /\ Answered(c, "refreshing")
    /\ exchange[c].reply.access_token # None /\ exchange[c].reply.expires_in = None
    /\ forfeited' = forfeited \cup {exchange[c].presented}
    /\ Leave(c)
    /\ UNCHANGED <<now, tokens, waiters, server, handed>>

\* async_authorize: the code is exchanged without taking the refresh lock.
AuthorizeSend(c) ==
    /\ pc[c] = "idle" /\ c \in Authorizers
    /\ Send(c, "authorizing", None)
    /\ UNCHANGED <<now, tokens, refresh_lock, waiters, server, forfeited, handed>>

Complete(reply) ==
    reply.access_token # None /\ reply.refresh_token # None /\ reply.expires_in # None

AuthorizeSucceeds(c) ==
    /\ Answered(c, "authorizing") /\ Complete(exchange[c].reply)
    /\ tokens' = Stored(exchange[c].reply, None)
    /\ Leave(c)
    /\ UNCHANGED <<now, waiters, server, forfeited, handed>>

\* Any missing field: AuthError, and the stored tokens stay.
AuthorizeRejected(c) ==
    /\ Answered(c, "authorizing") /\ ~Complete(exchange[c].reply)
    /\ Leave(c)
    /\ UNCHANGED <<now, tokens, waiters, server, forfeited, handed>>

\* The exchange fails: connection error, the session's total timeout, or the
\* coroutine is cancelled.  The server may or may not have seen the request.
ExchangeFails(c) ==
    /\ Faults /\ exchange[c] # None
    /\ forfeited' = IF pc[c] = "refreshing"
                    THEN forfeited \cup {exchange[c].presented} ELSE forfeited
    /\ Leave(c)
    /\ UNCHANGED <<now, tokens, waiters, server, handed>>

\* A coroutine queued on the lock is cancelled and leaves the queue.
WaiterCancelled(c) ==
    /\ Faults /\ pc[c] = "waiting"
    /\ \E i \in DOMAIN waiters :
         /\ waiters[i] = c
         /\ waiters' = [j \in 1..(Len(waiters) - 1) |-> waiters[IF j < i THEN j ELSE j + 1]]
    /\ pc' = [pc EXCEPT ![c] = "idle"]
    /\ UNCHANGED <<now, tokens, refresh_lock, exchange, server, forfeited, handed>>

-----------------------------------------------------------------------------
(* The token endpoints and the clock, as the client's code relies on them. *)

Unanswered(c, where) == pc[c] = where /\ exchange[c].reply = None

AnswerWith(c, reply) == exchange' = [exchange EXCEPT ![c].reply = reply]

Grant(refreshToken, life, told) ==
    [access_token |-> now + life, refresh_token |-> refreshToken, expires_in |-> told]

\* The usual answer: the refresh token is single-use and is rotated.
ServerRotates(c) ==
    /\ Unanswered(c, "refreshing")
    /\ exchange[c].presented \in live /\ issued < MaxGrants
    /\ issued' = issued + 1
    /\ live' = (live \ {exchange[c].presented}) \cup {issued + 1}
    /\ \E life \in ExpiresIn :
         \/ "rotated" \in Replies /\ AnswerWith(c, Grant(issued + 1, life, life))
         \/ "no_expiry" \in Replies /\ AnswerWith(c, Grant(issued + 1, life, None))
    /\ UNCHANGED <<now, client, forfeited, handed>>

\* The partial answer: a new access token, the refresh token stays valid.
ServerAnswersPartially(c) ==
    /\ Unanswered(c, "refreshing")
    /\ "partial" \in Replies /\ exchange[c].presented \in live
    /\ \E life \in ExpiresIn : AnswerWith(c, Grant(None, life, life))
    /\ UNCHANGED <<now, client, server, forfeited, handed>>

\* An error envelope: the token is dead, or the quota is exceeded.
ServerRefuses(c) ==
    /\ Unanswered(c, "refreshing")
    /\ exchange[c].presented \notin live \/ "throttled" \in Replies
    /\ AnswerWith(c, ErrorReply)
    /\ UNCHANGED <<now, client, server, forfeited, handed>>

\* The authorization endpoint grants a new token pair, complete or not.
ServerGrants(c) ==
    /\ Unanswered(c, "authorizing") /\ issued < MaxGrants
    /\ issued' = issued + 1
    /\ live' = live \cup {issued + 1}
    /\ \E life \in ExpiresIn, told \in BOOLEAN :
         AnswerWith(c, Grant(issued + 1, life, IF told THEN life ELSE None))
    /\ UNCHANGED <<now, client, forfeited, handed>>

ServerDenies(c) ==
    /\ Unanswered(c, "authorizing")
    /\ AnswerWith(c, ErrorReply)
    /\ UNCHANGED <<now, client, server, forfeited, handed>>

\* A request whose client gave up reaches the server late and spends its token.
ServerSpendsLate ==
    /\ \E r \in forfeited \cap live : live' = live \ {r}
    /\ UNCHANGED <<now, client, exchange, issued, forfeited, handed>>

\* Time passes, but no exchange outlives the session's total timeout.
Tick ==
    /\ now < MaxTime
    /\ \A c \in Callers : exchange[c] # None => now < exchange[c].start + Timeout
    /\ now' = now + 1
    /\ UNCHANGED <<client, exchange, server, forfeited, handed>>

-----------------------------------------------------------------------------

GetAccessToken(c) ==
    \/ GetTokenUnauthorized(c) \/ GetTokenFast(c)
    \/ GetTokenRefresh(c) \/ GetTokenQueue(c)

Resume(c) ==
    \/ WaiterRefreshes(c) \/ WaiterSkips(c)
    \/ RefreshSucceeds(c) \/ RefreshRejected(c) \/ RefreshUnusable(c)
    \/ AuthorizeSucceeds(c) \/ AuthorizeRejected(c)

Server(c) ==
    \/ ServerRotates(c) \/ ServerAnswersPartially(c) \/ ServerRefuses(c)
    \/ ServerGrants(c) \/ ServerDenies(c)

Next ==
    \/ \E c \in Callers :
         \/ GetAccessToken(c) \/ AuthorizeSend(c) \/ Resume(c)
         \/ ExchangeFails(c) \/ WaiterCancelled(c) \/ Server(c)
    \/ ServerSpendsLate
    \/ Tick

\* The event loop resumes every coroutine that can run, and an exchange ends:
\* with an answer or with the session's timeout.
Fairness == \A c \in Callers : WF_vars(Resume(c) \/ Server(c) \/ ExchangeFails(c))

Spec == Init /\ [][Next]_vars /\ Fairness

-----------------------------------------------------------------------------
(* Properties. *)

\* "Concurrent callers must not both spend it": at any time at most one refresh
\* is in flight, and the token it presents is one the server accepts, unless the
\* answer to an earlier presentation of that very token was lost or unusable.
NoDoubleSpend ==
    \A c \in Callers : pc[c] = "refreshing" =>
        /\ \A d \in Callers \ {c} : pc[d] # "refreshing"
        /\ exchange[c].reply = None => exchange[c].presented \in live \cup forfeited

\* The stored refresh token is usable for the next refresh: the server accepts
\* it, or its replacement is on its way to the client, or the answer that
\* replaced it was lost or unusable.  It holds whatever authorizations run
\* beside the refresh, although async_authorize takes no lock.
StoredRefreshUsable ==
    tokens # None =>
        \/ tokens.refresh_token \in live \cup forfeited
        \/ \E c \in Callers : Answered(c, "refreshing") /\ exchange[c].presented = tokens.refresh_token

\* "Return a valid access token", as async_get_access_token's docstring says: when
\* handed out, the token is one the server still accepts.
HandedOutTokenValid == handed = 0

\* What the code keeps of it: a token handed out has been refused by the server for
\* no longer than an answer may be under way beyond the margin (the stored token, on
\* the fast path and after a wait) or beyond the life it brings (the fresh one).
OverdueBounded ==
    handed > 0 => handed + Margin <= Timeout \/ \E life \in ExpiresIn : handed + life <= Timeout

\* A refresh token is spent only while the stored access token is expired: a
\* waiter that finds a freshly stored token does not refresh again.
RefreshOnlyWhenExpired ==
    [][\A c \in Callers :
         (pc[c] # "refreshing" /\ pc'[c] = "refreshing") => tokens.expires_at < now]_vars

\* Every call that queued on the lock comes to an end.
EveryCallReturns == \A c \in Callers : (pc[c] \in {"waiting", "refreshing"}) ~> (pc[c] = "idle")

\* The inductive invariant, in named parts.  The client's part: a suspended
\* coroutine has the state its continuation relies on.
InFlight(c) == pc[c] \in {"refreshing", "authorizing"}

SuspendedOK ==
    \A c \in Callers :
        /\ InFlight(c) => exchange[c] \in Exchange
        /\ ~InFlight(c) => exchange[c] = None
        /\ pc[c] = "refreshing" => refresh_lock = c /\ exchange[c].presented \in Nat
        /\ pc[c] \in {"waiting", "refreshing"} => tokens # None

\* A refresh token on its way to the client: nobody else knows it.
Delivers(c) == InFlight(c) /\ exchange[c].reply # None /\ exchange[c].reply.refresh_token # None
NewToken(c) == exchange[c].reply.refresh_token

Numbered ==
    /\ live \subseteq 1..issued /\ forfeited \subseteq 1..issued
    /\ tokens # None => tokens.refresh_token \in 1..issued
    /\ \A c \in Callers : pc[c] = "refreshing" => exchange[c].presented \in 1..issued

DeliveredFresh ==
    \A c \in Callers : Delivers(c) =>
        /\ NewToken(c) \in live \ forfeited
        /\ exchange[c].reply.access_token # None
        /\ tokens # None => tokens.refresh_token # NewToken(c)
        /\ \A d \in Callers : pc[d] = "refreshing" => exchange[d].presented # NewToken(c)
        /\ \A d \in Callers \ {c} : Delivers(d) => NewToken(d) # NewToken(c)

\* Until its replacement is on the way, the presented token stays usable.
PresentedUsable ==
    \A c \in Callers : pc[c] = "refreshing" /\ ~Delivers(c) =>
        exchange[c].presented \in live \cup forfeited

IInv == TypeOK /\ SuspendedOK /\ Numbered /\ DeliveredFresh /\ PresentedUsable /\ StoredRefreshUsable

\* What is known of times: an answer takes no longer than the timeout, and a token
\* lives at least from the sending of its request for the time the answer names.
ClockInv ==
    /\ tokens # None => tokens.expires_at + Margin <= tokens.access_token + Timeout
    /\ \A c \in Callers : InFlight(c) =>
         /\ exchange[c].start <= now /\ now <= exchange[c].start + Timeout
         /\ (exchange[c].reply # None /\ exchange[c].reply.expires_in # None) =>
              /\ exchange[c].reply.expires_in \in ExpiresIn
              /\ exchange[c].start + exchange[c].reply.expires_in <= exchange[c].reply.access_token
    /\ OverdueBounded

\* What the comment in async_get_access_token claims without exception: no
\* refresh in flight presents a token the server has already spent.
SpentTokenNeverPresented ==
    \A c \in Callers : Unanswered(c, "refreshing") => exchange[c].presented \in live
=============================================================================
