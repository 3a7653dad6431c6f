------------------------- MODULE UserSessionProofs --------------------------
(* Proofs about UserSession, for every value of its constants. *)
EXTENDS UserSession, TLAPS

\* What a coroutine may do, one disjunct per action.
CallerStep(c) ==
    \/ RequestWithToken(c) \/ RequestWithoutToken(c) \/ LoginDirectly(c)
    \/ WaiterLogsIn(c) \/ WaiterPosts(c) \/ LoginSucceeds(c) \/ LoginFails(c)
    \/ DirectLoginSucceeds(c) \/ PostReturns(c) \/ PostRefused(c)
    \/ ExchangeFails(c) \/ WaiterCancelled(c)

LEMMA StepCases ==
  ASSUME Next
  PROVE  \/ \E c \in Callers : CallerStep(c) \/ Server(c)
         \/ ServerDropsSession
  BY DEF Next, Start, Resume, CallerStep

-----------------------------------------------------------------------------
(* Types. *)

LEMMA InitTyped == Init => TypeOK
  BY ConstantsAssumption DEF Init, TypeOK, Pending, Answer, Kinds, Places

LEMMA LeaveTyped ==
  ASSUME TypeOK, NEW c \in Callers, Leave(c)
  PROVE  /\ login_lock' \in Callers \cup {None}
         /\ pc' \in [Callers -> Places]
         /\ attempt' \in [Callers -> {1, 2}]
         /\ payload' \in [Callers -> Nat \cup {None}]
         /\ refused' \in [Callers -> Nat \cup {None}]
         /\ answer' \in [Callers -> [kind : Kinds, token : Nat \cup {None}]]
  BY DEF TypeOK, Leave, At, ReleaseLock, ClearAnswer, Pending, Answer, Kinds, Places

LEMMA GetTokenTyped ==
  ASSUME TypeOK, NEW c \in Callers, GetToken(c)
  PROVE  /\ login_lock' \in Callers \cup {None}
         /\ waiters' \in Seq(Callers)
         /\ pc' \in [Callers -> Places]
         /\ logins' \in Int
<1>1. CASE LockAvailable /\ StartLogin(c) /\ UNCHANGED waiters
  BY <1>1 DEF TypeOK, StartLogin, At, Places
<1>2. CASE At(c, "queued") /\ waiters' = Append(waiters, c) /\ UNCHANGED <<login_lock, logins>>
  BY <1>2 DEF TypeOK, At, Places
<1>. QED  BY <1>1, <1>2 DEF GetToken

LEMMA CancelledTyped ==
  ASSUME TypeOK, NEW c \in Callers, WaiterCancelled(c)
  PROVE  waiters' \in Seq(Callers)
  BY DEF WaiterCancelled, TypeOK

LEMMA CallerTyped ==
  ASSUME TypeOK, NEW c \in Callers, CallerStep(c)
  PROVE  TypeOK'
<1> USE ConstantsAssumption
<1>1. CASE RequestWithToken(c)
  BY <1>1 DEF RequestWithToken, Post, At, TypeOK, Places, server, counts
<1>2. CASE RequestWithoutToken(c)
  BY <1>2, GetTokenTyped DEF RequestWithoutToken, TypeOK, server
<1>3. CASE LoginDirectly(c)
  BY <1>3 DEF LoginDirectly, At, TypeOK, Places, server, counts
<1>4. CASE WaiterLogsIn(c)
  BY <1>4 DEF WaiterLogsIn, MyTurn, StartLogin, At, TypeOK, Places, server
<1>5. CASE WaiterPosts(c)
  BY <1>5 DEF WaiterPosts, MyTurn, Post, At, TypeOK, Places, server, counts
<1>6. CASE LoginSucceeds(c)
  BY <1>6 DEF LoginSucceeds, ReleaseLock, Post, At, ClearAnswer, Pending, Answer, Kinds, TypeOK,
              Places, server, counts
<1>7. CASE LoginFails(c)
  BY <1>7, LeaveTyped DEF LoginFails, TypeOK, server
<1>8. CASE DirectLoginSucceeds(c)
  BY <1>8, LeaveTyped DEF DirectLoginSucceeds, TypeOK, server, counts
<1>9. CASE PostReturns(c)
  BY <1>9, LeaveTyped DEF PostReturns, TypeOK, server, counts
<1>10. CASE PostRefused(c)
  <2>1. GetToken(c)
    BY <1>10 DEF PostRefused
  <2>2. /\ token' \in Nat \cup {None} /\ attempt' \in [Callers -> {1, 2}]
        /\ payload' \in [Callers -> Nat \cup {None}] /\ refused' \in [Callers -> Nat \cup {None}]
    BY <1>10 DEF PostRefused, TypeOK
  <2>3. answer' \in [Callers -> [kind : Kinds, token : Nat \cup {None}]]
    BY <1>10 DEF PostRefused, ClearAnswer, Pending, Answer, Kinds, TypeOK
  <2>4. UNCHANGED server /\ rejections' \in Nat
    BY <1>10 DEF PostRefused, TypeOK
  <2>. QED  BY <2>1, <2>2, <2>3, <2>4, GetTokenTyped DEF TypeOK, server
<1>11. CASE ExchangeFails(c)
  BY <1>11, LeaveTyped DEF ExchangeFails, TypeOK, server
<1>12. CASE WaiterCancelled(c)
  BY <1>12, LeaveTyped, CancelledTyped DEF WaiterCancelled, TypeOK, server, counts
<1>. QED
  BY <1>1, <1>2, <1>3, <1>4, <1>5, <1>6, <1>7, <1>8, <1>9, <1>10, <1>11, <1>12 DEF CallerStep

LEMMA ServerTyped ==
  ASSUME TypeOK, (\E c \in Callers : Server(c)) \/ ServerDropsSession
  PROVE  TypeOK'
<1> USE ConstantsAssumption DEF TypeOK, client, counts
<1>1. ASSUME NEW c \in Callers, ServerLogsIn(c)  PROVE TypeOK'
  <2>1. issued' \in Nat /\ sessions' \subseteq sessions \cup {issued'}
    BY <1>1 DEF ServerLogsIn
  <2>2. answer' \in [Callers -> [kind : Kinds, token : Nat \cup {None}]]
    BY <1>1, <2>1 DEF ServerLogsIn, AnswerWith, Answer, Kinds
  <2>. QED  BY <1>1, <2>1, <2>2 DEF ServerLogsIn
<1>2. ASSUME NEW c \in Callers, ServerRejectsLogin(c)  PROVE TypeOK'
  BY <1>2 DEF ServerRejectsLogin, AnswerWith, Answer, Kinds, server
<1>3. ASSUME NEW c \in Callers, ServerAnswers(c)  PROVE TypeOK'
  BY <1>3 DEF ServerAnswers, AnswerWith, Answer, Kinds, server
<1>4. CASE ServerDropsSession
  BY <1>4 DEF ServerDropsSession
<1>. QED  BY <1>1, <1>2, <1>3, <1>4 DEF Server

LEMMA NextTyped == TypeOK /\ [Next]_vars => TypeOK'
<1>1. TypeOK /\ UNCHANGED vars => TypeOK'
  BY DEF TypeOK, vars
<1>2. TypeOK /\ Next => TypeOK'
  BY StepCases, CallerTyped, ServerTyped
<1>. QED  BY <1>1, <1>2

\* The state of the session always has its type.
THEOREM SessionTypeCorrect == Spec => []TypeOK
  BY InitTyped, NextTyped, PTL DEF Spec

-----------------------------------------------------------------------------
(* Who holds the lock, and whose answer is whose. *)

SessionInv == LockHeld /\ AnswersExpected

LEMMA LeaveKeepsLock ==
  ASSUME TypeOK, SessionInv, NEW c \in Callers, Leave(c)
  PROVE  SessionInv'
  BY ConstantsAssumption
     DEF TypeOK, SessionInv, LockHeld, AnswersExpected, Leave, At, ReleaseLock, ClearAnswer

LEMMA CallerKeepsLock ==
  ASSUME TypeOK, SessionInv, NEW c \in Callers, CallerStep(c)
  PROVE  SessionInv'
<1> USE ConstantsAssumption DEF TypeOK, SessionInv, LockHeld, AnswersExpected, At
<1>1. CASE RequestWithToken(c) \/ LoginDirectly(c) \/ WaiterPosts(c)
  BY <1>1 DEF RequestWithToken, LoginDirectly, WaiterPosts, MyTurn, Post, Pending, Answer
<1>2. CASE RequestWithoutToken(c) \/ WaiterLogsIn(c)
  BY <1>2 DEF RequestWithoutToken, WaiterLogsIn, MyTurn, GetToken, LockAvailable, StartLogin,
              Pending, Answer
<1>3. CASE LoginSucceeds(c)
  BY <1>3 DEF LoginSucceeds, ReleaseLock, Post, ClearAnswer, Pending, Answer
<1>4. CASE LoginFails(c) \/ DirectLoginSucceeds(c) \/ PostReturns(c) \/ ExchangeFails(c)
           \/ WaiterCancelled(c)
  BY <1>4, LeaveKeepsLock DEF LoginFails, DirectLoginSucceeds, PostReturns, ExchangeFails, WaiterCancelled
<1>5. CASE PostRefused(c)
  BY <1>5 DEF PostRefused, GetToken, LockAvailable, StartLogin, ClearAnswer, Pending, Answer
<1>. QED  BY <1>1, <1>2, <1>3, <1>4, <1>5 DEF CallerStep

LEMMA ServerKeepsLock ==
  ASSUME TypeOK, SessionInv, (\E c \in Callers : Server(c)) \/ ServerDropsSession
  PROVE  SessionInv'
  BY DEF TypeOK, SessionInv, LockHeld, AnswersExpected, Server, ServerLogsIn, ServerRejectsLogin,
         ServerAnswers, ServerDropsSession, Awaits, AnswerWith, Answer, Pending, client

LEMMA NextKeepsLock == TypeOK /\ SessionInv /\ [Next]_vars => SessionInv'
<1>1. SessionInv /\ UNCHANGED vars => SessionInv'
  BY DEF SessionInv, LockHeld, AnswersExpected, vars
<1>2. TypeOK /\ SessionInv /\ Next => SessionInv'
  BY StepCases, CallerKeepsLock, ServerKeepsLock
<1>. QED  BY <1>1, <1>2

\* The lock is held exactly while a request logs in, and every answer belongs to
\* the exchange its coroutine waits for.
THEOREM SessionInvariant == Spec => [](TypeOK /\ SessionInv)
<1>1. Init => SessionInv
  BY DEF Init, SessionInv, LockHeld, AnswersExpected
<1>. QED  BY <1>1, InitTyped, NextTyped, NextKeepsLock, PTL DEF Spec

\* Logins of requests exclude each other, for any number of coroutines and
\* whatever is cancelled, lost or rejected.
THEOREM Serialised == Spec => []LoginsSerialised
<1>1. SessionInv => LoginsSerialised
  BY DEF SessionInv, LockHeld, LoginsSerialised
<1>. QED  BY <1>1, SessionInvariant, PTL

-----------------------------------------------------------------------------
(* Tokens come from logins, and a request carries one. *)

NumberedInv == Numbered /\ PostedTokenReal

LEMMA LeaveNumbered ==
  ASSUME TypeOK, SessionInv, NumberedInv, NEW c \in Callers, Leave(c), UNCHANGED issued,
         token' = token \/ (Accepted(c) /\ token' = answer[c].token)
  PROVE  NumberedInv'
  BY ConstantsAssumption
     DEF TypeOK, SessionInv, AnswersExpected, NumberedInv, Numbered, PostedTokenReal, Accepted, Leave,
         At, ClearAnswer, Pending, Answer

LEMMA CallerNumbered ==
  ASSUME TypeOK, SessionInv, NumberedInv, NEW c \in Callers, CallerStep(c)
  PROVE  NumberedInv'
<1> USE ConstantsAssumption DEF TypeOK, NumberedInv, Numbered, PostedTokenReal, Accepted, At
<1>1. CASE RequestWithToken(c) \/ LoginDirectly(c) \/ WaiterPosts(c)
  BY <1>1, SMTT(30) DEF RequestWithToken, LoginDirectly, WaiterPosts, Post, server
<1>2. CASE RequestWithoutToken(c) \/ WaiterLogsIn(c)
  BY <1>2 DEF RequestWithoutToken, WaiterLogsIn, GetToken, StartLogin, server
<1>3. CASE LoginSucceeds(c)
  BY <1>3 DEF LoginSucceeds, Post, ClearAnswer, Pending, Answer, server
<1>4. CASE LoginFails(c) \/ DirectLoginSucceeds(c) \/ PostReturns(c) \/ ExchangeFails(c)
           \/ WaiterCancelled(c)
  BY <1>4, LeaveNumbered DEF LoginFails, DirectLoginSucceeds, PostReturns, ExchangeFails,
                             WaiterCancelled, server
<1>5. CASE PostRefused(c)
  BY <1>5 DEF PostRefused, GetToken, StartLogin, ClearAnswer, Pending, Answer, server
<1>. QED  BY <1>1, <1>2, <1>3, <1>4, <1>5 DEF CallerStep

\* A server that does not log anybody in accepts nothing.
LEMMA NothingAccepted ==
  ASSUME TypeOK, NEW c \in Callers, ServerRejectsLogin(c) \/ ServerAnswers(c)
  PROVE  /\ UNCHANGED <<client, server>>
         /\ \A d \in Callers : Accepted(d)' => Accepted(d) /\ answer'[d] = answer[d]
<1>1. UNCHANGED <<client, server>>
  BY DEF ServerRejectsLogin, ServerAnswers
<1>2. PICK kind \in {"rejected", "success", "error", "token_invalid"} : AnswerWith(c, kind, None)
  BY DEF ServerRejectsLogin, ServerAnswers
<1>. QED  BY <1>1, <1>2 DEF TypeOK, AnswerWith, Answer, Accepted

\* A login the server accepts is answered with a new number.
LEMMA LoginAccepted ==
  ASSUME TypeOK, NEW c \in Callers, ServerLogsIn(c)
  PROVE  /\ UNCHANGED client /\ issued' = issued + 1
         /\ answer'[c].token = issued + 1
         /\ \A d \in Callers \ {c} : answer'[d] = answer[d]
  BY DEF TypeOK, ServerLogsIn, AnswerWith, Answer

LEMMA ServerNumbered ==
  ASSUME TypeOK, NumberedInv, (\E c \in Callers : Server(c)) \/ ServerDropsSession
  PROVE  NumberedInv'
<1> USE ConstantsAssumption DEF TypeOK, NumberedInv, Numbered, PostedTokenReal, Accepted, client
<1>1. ASSUME NEW c \in Callers, ServerLogsIn(c)  PROVE NumberedInv'
  <2>1. /\ UNCHANGED <<token, pc, payload, refused>>
        /\ answer'[c].token = issued + 1 /\ \A d \in Callers \ {c} : answer'[d] = answer[d]
    BY <1>1, LoginAccepted
  <2>2. issued + 1 \in 1..issued' /\ \A n \in 1..issued : n \in 1..issued'
    BY <1>1, LoginAccepted
  <2>. QED  BY <2>1, <2>2
<1>2. ASSUME NEW c \in Callers, ServerRejectsLogin(c) \/ ServerAnswers(c)  PROVE NumberedInv'
  <2>1. /\ UNCHANGED <<token, pc, payload, refused, issued>>
        /\ \A d \in Callers : Accepted(d)' => Accepted(d) /\ answer'[d] = answer[d]
    BY <1>2, NothingAccepted DEF server
  <2>. QED  BY <2>1
<1>3. CASE ServerDropsSession
  BY <1>3 DEF ServerDropsSession
<1>. QED  BY <1>1, <1>2, <1>3 DEF Server

LEMMA NextNumbered == TypeOK /\ SessionInv /\ NumberedInv /\ [Next]_vars => NumberedInv'
<1>1. NumberedInv /\ UNCHANGED vars => NumberedInv'
  BY DEF NumberedInv, Numbered, PostedTokenReal, Accepted, vars
<1>2. TypeOK /\ SessionInv /\ NumberedInv /\ Next => NumberedInv'
  BY StepCases, CallerNumbered, ServerNumbered
<1>. QED  BY <1>1, <1>2

\* Every token the client holds, sends or waits for comes from a login.
THEOREM NumberedInvariant == Spec => [](TypeOK /\ SessionInv /\ NumberedInv)
<1>1. Init => NumberedInv
  BY DEF Init, NumberedInv, Numbered, PostedTokenReal, Accepted, Pending, Answer
<1>. QED  BY <1>1, SessionInvariant, NextNumbered, PTL DEF Spec

\* No request is sent without a token, whoever clears the shared one meanwhile.
THEOREM PostsCarryTokens == Spec => []PostedTokenReal
<1>1. NumberedInv => PostedTokenReal
  BY DEF NumberedInv
<1>. QED  BY <1>1, NumberedInvariant, PTL

-----------------------------------------------------------------------------
(* The second post carries another token than the first. *)

RetryInv == DeliveredFresh /\ RefusedForgotten /\ RetryUsesAnotherToken

LEMMA LeaveKeepsRetry ==
  ASSUME TypeOK, SessionInv, NumberedInv, RetryInv, NEW c \in Callers, Leave(c),
         token' = token \/ (Accepted(c) /\ token' = answer[c].token)
  PROVE  RetryInv'
  BY ConstantsAssumption
     DEF TypeOK, NumberedInv, Numbered, RetryInv, DeliveredFresh, RefusedForgotten,
         RetryUsesAnotherToken, Accepted, Leave, At, ClearAnswer, Pending, Answer

LEMMA CallerKeepsRetry ==
  ASSUME TypeOK, SessionInv, NumberedInv, RetryInv, NEW c \in Callers, CallerStep(c)
  PROVE  RetryInv'
<1> USE ConstantsAssumption DEF TypeOK, RetryInv, DeliveredFresh, RefusedForgotten,
                                RetryUsesAnotherToken, Accepted, At
<1>1. CASE RequestWithToken(c) \/ LoginDirectly(c) \/ WaiterPosts(c)
  BY <1>1 DEF RequestWithToken, LoginDirectly, WaiterPosts, Post
<1>2. CASE RequestWithoutToken(c) \/ WaiterLogsIn(c)
  BY <1>2 DEF RequestWithoutToken, WaiterLogsIn, GetToken, StartLogin
<1>3. CASE LoginSucceeds(c)
  BY <1>3 DEF LoginSucceeds, Post, ClearAnswer, Pending, Answer
<1>4. CASE LoginFails(c) \/ DirectLoginSucceeds(c) \/ PostReturns(c) \/ ExchangeFails(c)
           \/ WaiterCancelled(c)
  BY <1>4, LeaveKeepsRetry DEF LoginFails, DirectLoginSucceeds, PostReturns, ExchangeFails, WaiterCancelled
<1>5. CASE PostRefused(c)
  BY <1>5 DEF PostRefused, GetToken, StartLogin, ClearAnswer, Pending, Answer, NumberedInv, Numbered,
              PostedTokenReal
<1>. QED  BY <1>1, <1>2, <1>3, <1>4, <1>5 DEF CallerStep

LEMMA ServerKeepsRetry ==
  ASSUME TypeOK, NumberedInv, RetryInv, (\E c \in Callers : Server(c)) \/ ServerDropsSession
  PROVE  RetryInv'
<1> USE DEF RetryInv, DeliveredFresh, RefusedForgotten, RetryUsesAnotherToken, client
<1>1. ASSUME NEW c \in Callers, ServerLogsIn(c)  PROVE RetryInv'
  <2>1. UNCHANGED client /\ answer'[c].token = issued + 1 /\ \A d \in Callers \ {c} : answer'[d] = answer[d]
    BY <1>1, LoginAccepted
  <2>2. /\ issued + 1 # token
        /\ \A d \in Callers : issued + 1 \notin {payload[d], refused[d]}
        /\ \A d \in Callers : Accepted(d) => answer[d].token # issued + 1
    BY ConstantsAssumption DEF NumberedInv, Numbered, TypeOK
  <2>. QED  BY <2>1, <2>2 DEF Accepted
<1>2. ASSUME NEW c \in Callers, ServerRejectsLogin(c) \/ ServerAnswers(c)  PROVE RetryInv'
  BY <1>2, NothingAccepted
<1>3. CASE ServerDropsSession
  BY <1>3 DEF ServerDropsSession, Accepted
<1>. QED  BY <1>1, <1>2, <1>3 DEF Server

LEMMA NextKeepsRetry ==
  TypeOK /\ SessionInv /\ NumberedInv /\ RetryInv /\ [Next]_vars => RetryInv'
<1>1. RetryInv /\ UNCHANGED vars => RetryInv'
  BY DEF RetryInv, DeliveredFresh, RefusedForgotten, RetryUsesAnotherToken, Accepted, vars
<1>2. TypeOK /\ SessionInv /\ NumberedInv /\ RetryInv /\ Next => RetryInv'
  BY StepCases, CallerKeepsRetry, ServerKeepsRetry
<1>. QED  BY <1>1, <1>2

\* The token refused to a call is never in its second post, whatever the other
\* coroutines store and clear between the two.
THEOREM RetriesChangeToken == Spec => []RetryUsesAnotherToken
<1>1. Init => RetryInv
  BY DEF Init, RetryInv, DeliveredFresh, RefusedForgotten, RetryUsesAnotherToken, Accepted, Pending, Answer
<1>2. RetryInv => RetryUsesAnotherToken
  BY DEF RetryInv
<1>. QED  BY <1>1, <1>2, NumberedInvariant, NextKeepsRetry, PTL DEF Spec

-----------------------------------------------------------------------------
(* Every login has a reason. *)

LoginsInv == LoginsLeft /\ LoginsJustified

LEMMA NextKeepsLogins ==
  ASSUME TypeOK, SessionInv, NumberedInv, LoginsInv, [Next]_vars
  PROVE  LoginsInv'
<1> USE ConstantsAssumption DEF TypeOK, LoginsInv, LoginsLeft, LoginsJustified
<1>1. ASSUME NEW c \in Callers,
             RequestWithToken(c) \/ LoginDirectly(c) \/ WaiterPosts(c)
      PROVE  LoginsInv'
  BY <1>1 DEF RequestWithToken, LoginDirectly, WaiterPosts, counts
<1>2. ASSUME NEW c \in Callers, RequestWithoutToken(c) \/ WaiterLogsIn(c)
      PROVE  LoginsInv'
  BY <1>2 DEF RequestWithoutToken, WaiterLogsIn, MyTurn, GetToken, LockAvailable, StartLogin
<1>3. ASSUME NEW c \in Callers, LoginSucceeds(c) \/ DirectLoginSucceeds(c)
      PROVE  LoginsInv'
  BY <1>3 DEF LoginSucceeds, DirectLoginSucceeds, counts, NumberedInv, Numbered, Accepted
<1>4. ASSUME NEW c \in Callers, LoginFails(c) \/ ExchangeFails(c)
      PROVE  LoginsInv'
  BY <1>4 DEF LoginFails, ExchangeFails, Leave, ReleaseLock, SessionInv, LockHeld
<1>5. ASSUME NEW c \in Callers, PostReturns(c) \/ WaiterCancelled(c)
      PROVE  LoginsInv'
  BY <1>5 DEF PostReturns, WaiterCancelled, Leave, ReleaseLock, SessionInv, LockHeld, counts
<1>6. ASSUME NEW c \in Callers, PostRefused(c)
      PROVE  LoginsInv'
  BY <1>6 DEF PostRefused, GetToken, LockAvailable, StartLogin
<1>7. ASSUME (\E c \in Callers : Server(c)) \/ ServerDropsSession \/ UNCHANGED vars
      PROVE  LoginsInv'
  BY <1>7 DEF Server, ServerLogsIn, ServerRejectsLogin, ServerAnswers, ServerDropsSession,
              client, counts, vars
<1>. QED  BY StepCases, <1>1, <1>2, <1>3, <1>4, <1>5, <1>6, <1>7 DEF CallerStep

\* A login that did not fail is the first one, or answers a refused post of its
\* own: waiters behind a login do not repeat it.
THEOREM EveryLoginJustified == Spec => []LoginsJustified
<1>1. Init => LoginsInv
  BY DEF Init, LoginsInv, LoginsLeft, LoginsJustified
<1>2. LoginsInv => LoginsJustified
  BY DEF LoginsInv
<1>. QED  BY <1>1, <1>2, NumberedInvariant, NextKeepsLogins, PTL DEF Spec
=============================================================================
