------------------------- MODULE TokenRefreshProofs -------------------------
(* Proofs about TokenRefresh, for every value of its constants. *)
EXTENDS TokenRefresh, TLAPS

LEMMA InitTyped == Init => TypeOK /\ SuspendedOK
  BY ConstantsAssumption DEF Init, TypeOK, SuspendedOK, InFlight, Optional

\* The time a token has been refused for is never negative.
LEMMA HandedOutNat ==
  ASSUME TypeOK, NEW t, t.access_token \in Nat, HandOut(t)
  PROVE  handed' \in Nat
BY DEF HandOut, TypeOK

\* The steps of a coroutine before it has an answer.
LEMMA CallTyped ==
  ASSUME TypeOK, SuspendedOK, NEW c \in Callers,
         GetAccessToken(c) \/ AuthorizeSend(c) \/ WaiterRefreshes(c) \/ WaiterSkips(c)
  PROVE  TypeOK' /\ SuspendedOK'
<1> USE NoneAssumption, ConstantsAssumption
<1>1. CASE GetTokenUnauthorized(c)
  BY <1>1 DEF GetTokenUnauthorized, vars, TypeOK, SuspendedOK, InFlight
<1>2. CASE GetTokenFast(c)
  <2>1. handed' \in Nat
    BY <1>2, HandedOutNat DEF GetTokenFast, TypeOK, Optional, TokenSet
  <2>. QED  BY <1>2, <2>1 DEF GetTokenFast, client, server, TypeOK, SuspendedOK, InFlight
<1>3. CASE GetTokenRefresh(c)
  BY <1>3 DEF GetTokenRefresh, LockAvailable, StartRefresh, Send, TypeOK, SuspendedOK, InFlight,
              Optional, TokenSet, Exchange, Reply
<1>4. CASE GetTokenQueue(c)
  BY <1>4 DEF GetTokenQueue, server, TypeOK, SuspendedOK, InFlight
<1>5. CASE AuthorizeSend(c)
  BY <1>5 DEF AuthorizeSend, Send, server, TypeOK, SuspendedOK, InFlight, Optional, Exchange, Reply
<1>6. CASE WaiterRefreshes(c)
  BY <1>6 DEF WaiterRefreshes, MyTurn, StartRefresh, Send, TypeOK, SuspendedOK, InFlight,
              Optional, TokenSet, Exchange, Reply
<1>7. CASE WaiterSkips(c)
  <2>1. handed' \in Nat
    BY <1>7, HandedOutNat DEF WaiterSkips, MyTurn, TypeOK, SuspendedOK, Optional, TokenSet
  <2>. QED  BY <1>7, <2>1 DEF WaiterSkips, MyTurn, server, TypeOK, SuspendedOK, InFlight
<1>. QED  BY <1>1, <1>2, <1>3, <1>4, <1>5, <1>6, <1>7 DEF GetAccessToken

\* The steps that end a call.
LEMMA ReturnTyped ==
  ASSUME TypeOK, SuspendedOK, NEW c \in Callers,
         RefreshSucceeds(c) \/ RefreshRejected(c) \/ RefreshUnusable(c) \/ AuthorizeSucceeds(c)
         \/ AuthorizeRejected(c) \/ ExchangeFails(c) \/ WaiterCancelled(c)
  PROVE  TypeOK' /\ SuspendedOK'
<1> USE NoneAssumption, ConstantsAssumption
<1>1. CASE RefreshSucceeds(c)
  <2>1. exchange[c] \in Exchange /\ exchange[c].reply \in Reply /\ exchange[c].presented \in Nat
    BY <1>1 DEF RefreshSucceeds, Answered, SuspendedOK, InFlight, Optional, Exchange
  <2>2. tokens' \in TokenSet /\ tokens' # None
    BY <1>1, <2>1 DEF RefreshSucceeds, Stored, TypeOK, TokenSet, Optional, Reply
  <2>3. handed' \in Nat
    BY <1>1, <2>1, HandedOutNat DEF RefreshSucceeds, Reply, Optional
  <2>. QED
    BY <1>1, <2>2, <2>3 DEF RefreshSucceeds, Answered, Leave, server, TypeOK, SuspendedOK,
                            InFlight, Optional
<1>2. CASE RefreshRejected(c)
  BY <1>2 DEF RefreshRejected, Answered, Leave, server, TypeOK, SuspendedOK, InFlight, Optional
<1>3. CASE RefreshUnusable(c)
  BY <1>3 DEF RefreshUnusable, Answered, Leave, server, TypeOK, SuspendedOK, InFlight, Optional
<1>4. CASE AuthorizeSucceeds(c)
  BY <1>4 DEF AuthorizeSucceeds, Answered, Complete, Stored, Leave, server, TypeOK, SuspendedOK,
              InFlight, Optional, TokenSet, Exchange, Reply
<1>5. CASE AuthorizeRejected(c)
  BY <1>5 DEF AuthorizeRejected, Answered, Leave, server, TypeOK, SuspendedOK, InFlight, Optional
<1>6. CASE ExchangeFails(c)
  BY <1>6 DEF ExchangeFails, Leave, server, TypeOK, SuspendedOK, InFlight, Optional
<1>7. CASE WaiterCancelled(c)
  BY <1>7 DEF WaiterCancelled, server, TypeOK, SuspendedOK, InFlight, Optional
<1>. QED  BY <1>1, <1>2, <1>3, <1>4, <1>5, <1>6, <1>7

\* The steps of the server and of the clock.
LEMMA ServerTyped ==
  ASSUME TypeOK, SuspendedOK,
         (\E c \in Callers : Server(c)) \/ ServerSpendsLate \/ Tick
  PROVE  TypeOK' /\ SuspendedOK'
<1> USE NoneAssumption, ConstantsAssumption
<1>1. ASSUME NEW c \in Callers, Server(c)
      PROVE  TypeOK' /\ SuspendedOK'
  <2>1. ASSUME NEW reply \in Reply, InFlight(c), AnswerWith(c, reply), UNCHANGED <<now, client, forfeited, handed>>,
               issued' \in Nat, live' \subseteq Nat
        PROVE  TypeOK' /\ SuspendedOK'
    BY <2>1 DEF AnswerWith, client, TypeOK, SuspendedOK, InFlight, Optional, Exchange
  <2>2. ErrorReply \in Reply
    BY DEF ErrorReply, Reply, Optional
  <2>3. \A n \in Optional(Nat), life \in ExpiresIn, told \in Optional(ExpiresIn) : Grant(n, life, told) \in Reply
    BY DEF Grant, Reply, Optional, TypeOK
  <2>4. CASE ServerRotates(c)
    <3>1. issued' \in Nat /\ live' \subseteq Nat /\ InFlight(c)
      <4>1. issued' = issued + 1 /\ live' = (live \ {exchange[c].presented}) \cup {issued + 1}
        BY <2>4, Zenon DEF ServerRotates
      <4>2. InFlight(c)
        BY <2>4 DEF ServerRotates, Unanswered, InFlight
      <4>3. issued + 1 \in Nat /\ live \subseteq Nat
        BY DEF TypeOK
      <4>. QED  BY <4>1, <4>2, <4>3
    <3>2. PICK life \in ExpiresIn, told \in Optional(ExpiresIn) :
            AnswerWith(c, Grant(issued + 1, life, told))
      <4>1. PICK life \in ExpiresIn :
              \/ AnswerWith(c, Grant(issued + 1, life, life))
              \/ AnswerWith(c, Grant(issued + 1, life, None))
        BY <2>4 DEF ServerRotates
      <4>. QED  BY <4>1 DEF Optional
    <3>3. Grant(issued + 1, life, told) \in Reply
      BY <2>3 DEF TypeOK, Optional
    <3>. QED  BY <2>1, <2>4, <3>1, <3>2, <3>3 DEF ServerRotates
  <2>5. CASE ServerAnswersPartially(c)
    BY <2>1, <2>3, <2>5 DEF ServerAnswersPartially, Unanswered, InFlight, server, TypeOK, Optional
  <2>6. CASE ServerRefuses(c)
    BY <2>1, <2>2, <2>6 DEF ServerRefuses, Unanswered, InFlight, server, TypeOK
  <2>7. CASE ServerGrants(c)
    <3>1. issued' \in Nat /\ live' \subseteq Nat /\ InFlight(c)
      BY <2>7 DEF ServerGrants, Unanswered, InFlight, TypeOK
    <3>2. PICK life \in ExpiresIn, told \in Optional(ExpiresIn) :
            AnswerWith(c, Grant(issued + 1, life, told))
      BY <2>7 DEF ServerGrants, Optional
    <3>3. Grant(issued + 1, life, told) \in Reply
      BY <2>3 DEF TypeOK, Optional
    <3>. QED  BY <2>1, <2>7, <3>1, <3>2, <3>3 DEF ServerGrants
  <2>8. CASE ServerDenies(c)
    BY <2>1, <2>2, <2>8 DEF ServerDenies, Unanswered, InFlight, server, TypeOK
  <2>. QED  BY <1>1, <2>4, <2>5, <2>6, <2>7, <2>8 DEF Server
<1>2. CASE ServerSpendsLate
  BY <1>2 DEF ServerSpendsLate, client, TypeOK, SuspendedOK, InFlight
<1>3. CASE Tick
  BY <1>3 DEF Tick, client, server, TypeOK, SuspendedOK, InFlight
<1>. QED  BY <1>1, <1>2, <1>3

LEMMA NextTyped == TypeOK /\ SuspendedOK /\ [Next]_vars => TypeOK' /\ SuspendedOK'
<1> SUFFICES ASSUME TypeOK, SuspendedOK, [Next]_vars
             PROVE  TypeOK' /\ SuspendedOK'
  OBVIOUS
<1>1. CASE UNCHANGED vars
  BY <1>1 DEF vars, TypeOK, SuspendedOK, InFlight
<1>2. CASE Next
  BY <1>2, CallTyped, ReturnTyped, ServerTyped DEF Next, Resume
<1>. QED  BY <1>1, <1>2

\* The state has the right shape and every suspended coroutine the state its
\* continuation relies on, whatever the constants.
THEOREM TypeCorrect == Spec => []TypeOK
<1>1. Spec => [](TypeOK /\ SuspendedOK)
  BY InitTyped, NextTyped, PTL DEF Spec
<1>. QED  BY <1>1, PTL

-----------------------------------------------------------------------------
(* The refresh token invariants. *)

Safe == Numbered /\ DeliveredFresh /\ PresentedUsable /\ StoredRefreshUsable

\* Steps that touch neither an exchange nor a refresh token.
LEMMA SafeIdle ==
  ASSUME Safe, UNCHANGED <<tokens, exchange, live, issued, forfeited>>,
         \A d \in Callers : \A at \in {"refreshing", "authorizing"} : pc'[d] = at <=> pc[d] = at
  PROVE  Safe'
<1>1. \A d \in Callers : (Delivers(d)' <=> Delivers(d)) /\ NewToken(d)' = NewToken(d)
  BY DEF Delivers, InFlight, NewToken
<1>2. Numbered' /\ PresentedUsable' /\ StoredRefreshUsable'
  BY <1>1 DEF Safe, Numbered, PresentedUsable, StoredRefreshUsable, Answered
<1>3. DeliveredFresh'
  BY <1>1 DEF Safe, DeliveredFresh
<1>. QED  BY <1>2, <1>3 DEF Safe

\* A coroutine that holds the lock with an expired token presents the stored one.
LEMMA SafeStartRefresh ==
  ASSUME TypeOK, SuspendedOK, Safe, NEW c \in Callers,
         tokens # None, refresh_lock = None, ~InFlight(c), StartRefresh(c)
  PROVE  Safe'
<1>1. \A d \in Callers : pc[d] # "refreshing"
  BY NoneAssumption, ConstantsAssumption DEF SuspendedOK
<1>2. tokens.refresh_token \in live \cup forfeited
  BY <1>1 DEF Safe, StoredRefreshUsable, Answered
<1>3. /\ exchange'[c].presented = tokens.refresh_token /\ exchange'[c].reply = None
      /\ pc'[c] = "refreshing"
      /\ \A d \in Callers \ {c} : exchange'[d] = exchange[d] /\ pc'[d] = pc[d]
      /\ UNCHANGED <<tokens, live, issued, forfeited>>
  BY DEF StartRefresh, Send, TypeOK
<1>4. \A d \in Callers : Delivers(d)' <=> (d # c /\ Delivers(d))
  BY <1>3 DEF Delivers, InFlight
<1>5. \A d \in Callers \ {c} : NewToken(d)' = NewToken(d)
  BY <1>3 DEF NewToken
<1>6. Numbered'
  BY <1>1, <1>3 DEF Safe, Numbered
<1>7. DeliveredFresh'
  <2> SUFFICES ASSUME NEW d \in Callers, Delivers(d)'
               PROVE  /\ NewToken(d)' \in live' \ forfeited'
                      /\ exchange'[d].reply.access_token # None
                      /\ tokens' # None => tokens'.refresh_token # NewToken(d)'
                      /\ \A e \in Callers : pc'[e] = "refreshing" => exchange'[e].presented # NewToken(d)'
                      /\ \A e \in Callers \ {d} : Delivers(e)' => NewToken(e)' # NewToken(d)'
    BY DEF DeliveredFresh
  <2>. QED  BY <1>1, <1>3, <1>4, <1>5 DEF Safe, DeliveredFresh
<1>8. PresentedUsable'
  BY <1>1, <1>2, <1>3, <1>4 DEF PresentedUsable
<1>9. StoredRefreshUsable'
  BY <1>2, <1>3 DEF StoredRefreshUsable
<1>. QED  BY <1>6, <1>7, <1>8, <1>9 DEF Safe

LEMMA SafeAuthorizeSend ==
  ASSUME TypeOK, SuspendedOK, Safe, NEW c \in Callers, AuthorizeSend(c)
  PROVE  Safe'
<1>1. /\ exchange'[c].reply = None /\ pc'[c] = "authorizing" /\ pc[c] = "idle"
      /\ \A d \in Callers \ {c} : exchange'[d] = exchange[d] /\ pc'[d] = pc[d]
      /\ UNCHANGED <<tokens, live, issued, forfeited>>
  BY DEF AuthorizeSend, Send, server, TypeOK
<1>2. \A d \in Callers : Delivers(d)' <=> (d # c /\ Delivers(d))
  BY <1>1 DEF Delivers, InFlight
<1>3. \A d \in Callers \ {c} : NewToken(d)' = NewToken(d)
  BY <1>1 DEF NewToken
<1>4. Numbered' /\ PresentedUsable' /\ StoredRefreshUsable'
  BY <1>1, <1>2 DEF Safe, Numbered, PresentedUsable, StoredRefreshUsable, Answered
<1>5. DeliveredFresh'
  BY <1>1, <1>2, <1>3 DEF Safe, DeliveredFresh
<1>. QED  BY <1>4, <1>5 DEF Safe

\* A call that ends without storing anything.  If it held a replacement of the
\* stored token, the stored token is forfeited with it.
LEMMA SafeLeave ==
  ASSUME TypeOK, SuspendedOK, Safe, NEW c \in Callers, InFlight(c), Leave(c),
         UNCHANGED <<tokens, live, issued>>,
         \/ UNCHANGED forfeited /\ (pc[c] = "refreshing" => ~Delivers(c))
         \/ pc[c] = "refreshing" /\ forfeited' = forfeited \cup {exchange[c].presented}
  PROVE  Safe'
<1>1. /\ exchange'[c] = None /\ pc'[c] = "idle"
      /\ \A d \in Callers \ {c} : exchange'[d] = exchange[d] /\ pc'[d] = pc[d]
  BY DEF Leave, TypeOK
<1>2. \A d \in Callers : Delivers(d)' <=> (d # c /\ Delivers(d))
  BY <1>1 DEF Delivers, InFlight
<1>3. \A d \in Callers \ {c} : NewToken(d)' = NewToken(d)
  BY <1>1 DEF NewToken
<1>4. forfeited \subseteq forfeited'
  OBVIOUS
<1>5. Numbered'
  <2>1. pc[c] = "refreshing" => exchange[c].presented \in 1..issued
    BY DEF Safe, Numbered, PresentedUsable, StoredRefreshUsable, SuspendedOK, TypeOK
  <2>. QED  BY <1>1, <2>1 DEF Safe, Numbered
<1>6. PresentedUsable'
  BY <1>1, <1>2, <1>4 DEF Safe, PresentedUsable
<1>7. DeliveredFresh'
  BY <1>1, <1>2, <1>3 DEF Safe, DeliveredFresh
<1>8. StoredRefreshUsable'
  BY <1>1, <1>4 DEF Safe, StoredRefreshUsable, PresentedUsable, Answered
<1>. QED  BY <1>5, <1>6, <1>7, <1>8 DEF Safe

\* The stored token set is replaced by the one an answer brings.
LEMMA SafeStore ==
  ASSUME TypeOK, SuspendedOK, Safe, NEW c \in Callers,
         RefreshSucceeds(c) \/ AuthorizeSucceeds(c)
  PROVE  Safe'
<1>1. /\ exchange'[c] = None /\ pc'[c] = "idle"
      /\ \A d \in Callers \ {c} : exchange'[d] = exchange[d] /\ pc'[d] = pc[d]
      /\ UNCHANGED <<live, issued, forfeited>>
  BY DEF RefreshSucceeds, AuthorizeSucceeds, Leave, server, TypeOK
<1>2. \A d \in Callers : Delivers(d)' <=> (d # c /\ Delivers(d))
  BY <1>1 DEF Delivers, InFlight
<1>3. \A d \in Callers \ {c} : NewToken(d)' = NewToken(d)
  BY <1>1 DEF NewToken
<1>4. \/ Delivers(c) /\ tokens'.refresh_token = NewToken(c)
      \/ /\ pc[c] = "refreshing" /\ ~Delivers(c)
         /\ tokens'.refresh_token = exchange[c].presented
  BY DEF RefreshSucceeds, AuthorizeSucceeds, Answered, Complete, Stored, Delivers, InFlight, NewToken
<1>5. tokens'.refresh_token \in live \cup forfeited
  BY <1>4 DEF Safe, DeliveredFresh, PresentedUsable
<1>6. StoredRefreshUsable'
  BY <1>1, <1>5 DEF StoredRefreshUsable
<1>7. Numbered'
  BY <1>1, <1>5 DEF Safe, Numbered
<1>8. PresentedUsable'
  BY <1>1, <1>2 DEF Safe, PresentedUsable
<1>9. DeliveredFresh'
  BY <1>1, <1>2, <1>3, <1>4 DEF Safe, DeliveredFresh
<1>. QED  BY <1>6, <1>7, <1>8, <1>9 DEF Safe

\* An answer that brings no refresh token spends none.
LEMMA SafeAnswerWithoutToken ==
  ASSUME TypeOK, SuspendedOK, Safe, NEW c \in Callers, NEW reply \in Reply,
         InFlight(c), exchange[c].reply = None, reply.refresh_token = None,
         AnswerWith(c, reply), UNCHANGED <<tokens, pc, live, issued, forfeited>>
  PROVE  Safe'
<1>1. /\ exchange'[c].presented = exchange[c].presented /\ exchange'[c].reply = reply
      /\ \A d \in Callers \ {c} : exchange'[d] = exchange[d]
  BY DEF AnswerWith, TypeOK, SuspendedOK, Exchange
<1>2. \A d \in Callers : Delivers(d)' <=> Delivers(d)
  BY <1>1 DEF Delivers, InFlight
<1>3. \A d \in Callers : Delivers(d) => NewToken(d)' = NewToken(d)
  BY <1>1 DEF NewToken, Delivers
<1>4. \A d \in Callers : exchange'[d].presented = exchange[d].presented
  BY <1>1
<1>5. Numbered'
  BY <1>4 DEF Safe, Numbered
<1>6. PresentedUsable'
  BY <1>2, <1>4 DEF Safe, PresentedUsable
<1>7. DeliveredFresh'
  <2>1. \A d \in Callers : Delivers(d) => exchange'[d].reply = exchange[d].reply
    BY <1>1 DEF Delivers
  <2>. QED  BY <1>2, <1>3, <1>4, <2>1 DEF Safe, DeliveredFresh
<1>8. StoredRefreshUsable'
  <2>1. \A d \in Callers : Answered(d, "refreshing") => Answered(d, "refreshing")'
    BY <1>1 DEF Answered
  <2>. QED  BY <1>4, <2>1 DEF Safe, StoredRefreshUsable
<1>. QED  BY <1>5, <1>6, <1>7, <1>8 DEF Safe

\* An answer that brings the next refresh token: it is new to everybody.
LEMMA SafeAnswerWithToken ==
  ASSUME TypeOK, SuspendedOK, Safe, NEW c \in Callers, NEW reply \in Reply,
         InFlight(c), exchange[c].reply = None,
         reply.refresh_token = issued + 1, reply.access_token # None,
         AnswerWith(c, reply), issued' = issued + 1,
         \/ pc[c] = "refreshing" /\ live' = (live \ {exchange[c].presented}) \cup {issued + 1}
         \/ pc[c] = "authorizing" /\ live' = live \cup {issued + 1},
         UNCHANGED <<tokens, pc, forfeited>>
  PROVE  Safe'
<1> USE NoneAssumption, ConstantsAssumption
<1>1. /\ exchange'[c].presented = exchange[c].presented /\ exchange'[c].reply = reply
      /\ \A d \in Callers \ {c} : exchange'[d] = exchange[d]
  BY DEF AnswerWith, TypeOK, SuspendedOK, Exchange
<1>2. issued \in Nat /\ issued + 1 # None /\ reply # None
  BY DEF TypeOK
<1>3. \A d \in Callers : Delivers(d)' <=> (d = c \/ Delivers(d))
  BY <1>1, <1>2 DEF Delivers, InFlight
<1>4. ~Delivers(c) /\ NewToken(c)' = issued + 1
  BY <1>1 DEF Delivers, NewToken
<1>5. \A d \in Callers \ {c} : NewToken(d)' = NewToken(d)
  BY <1>1 DEF NewToken
<1>6. \A d \in Callers : exchange'[d].presented = exchange[d].presented
  BY <1>1
<1>7. pc[c] = "refreshing" => \A d \in Callers \ {c} : pc[d] # "refreshing"
  BY DEF SuspendedOK
<1>8. Numbered'
  <2>1. \A n \in 1..issued : n \in 1..(issued + 1)
    BY <1>2
  <2>2. issued + 1 \in 1..(issued + 1)
    BY <1>2
  <2>. QED  BY <1>6, <2>1, <2>2 DEF Safe, Numbered
<1>9. PresentedUsable'
  BY <1>3, <1>6, <1>7 DEF Safe, PresentedUsable
<1>10. DeliveredFresh'
  <2>1. issued + 1 \notin live \cup forfeited
    BY <1>2 DEF Safe, Numbered
  <2>2. \A d \in Callers : Delivers(d) => NewToken(d) # issued + 1
    BY <2>1 DEF Safe, DeliveredFresh
  <2>3. \A d \in Callers : pc[d] = "refreshing" => exchange[d].presented # issued + 1
    BY <1>2 DEF Safe, Numbered
  <2>4. tokens # None => tokens.refresh_token # issued + 1
    BY <1>2 DEF Safe, Numbered
  <2>5. \A d \in Callers : Delivers(d) /\ d # c =>
          NewToken(d) \in live' \ forfeited' /\ exchange'[d].reply = exchange[d].reply
    BY <1>1 DEF Safe, DeliveredFresh
  <2>6. issued + 1 \in live' \ forfeited'
    BY <2>1
  <2>. QED  BY <1>1, <1>3, <1>4, <1>5, <1>6, <2>2, <2>3, <2>4, <2>5, <2>6 DEF Safe, DeliveredFresh
<1>11. StoredRefreshUsable'
  <2>1. \A d \in Callers : Answered(d, "refreshing") => Answered(d, "refreshing")'
    BY <1>1, <1>2 DEF Answered
  <2>2. pc[c] = "refreshing" => Answered(c, "refreshing")'
    BY <1>1, <1>2 DEF Answered
  <2>. QED  BY <1>6, <2>1, <2>2 DEF Safe, StoredRefreshUsable
<1>. QED  BY <1>8, <1>9, <1>10, <1>11 DEF Safe

LEMMA SafeCoroutine ==
  ASSUME TypeOK, SuspendedOK, Safe, NEW c \in Callers,
         GetAccessToken(c) \/ AuthorizeSend(c) \/ Resume(c) \/ ExchangeFails(c) \/ WaiterCancelled(c)
  PROVE  Safe'
<1> USE NoneAssumption, ConstantsAssumption
<1>1. CASE GetTokenUnauthorized(c) \/ GetTokenFast(c) \/ GetTokenQueue(c) \/ WaiterSkips(c)
           \/ WaiterCancelled(c)
  <2>1. UNCHANGED <<tokens, exchange, live, issued, forfeited>>
    BY <1>1 DEF GetTokenUnauthorized, GetTokenFast, GetTokenQueue, WaiterSkips, WaiterCancelled,
                vars, client, server
  <2>2. \A d \in Callers : \A at \in {"refreshing", "authorizing"} : pc'[d] = at <=> pc[d] = at
    BY <1>1 DEF GetTokenUnauthorized, GetTokenFast, GetTokenQueue, WaiterSkips, WaiterCancelled,
                MyTurn, vars, client, TypeOK
  <2>. QED  BY <2>1, <2>2, SafeIdle
<1>2. CASE GetTokenRefresh(c)
  BY <1>2, SafeStartRefresh DEF GetTokenRefresh, LockAvailable, InFlight
<1>3. CASE WaiterRefreshes(c)
  BY <1>3, SafeStartRefresh DEF WaiterRefreshes, MyTurn, InFlight, SuspendedOK
<1>4. CASE AuthorizeSend(c)
  BY <1>4, SafeAuthorizeSend
<1>5. CASE RefreshSucceeds(c) \/ AuthorizeSucceeds(c)
  BY <1>5, SafeStore
<1>6. CASE RefreshRejected(c)
  <2>1. InFlight(c) /\ ~Delivers(c)
    BY <1>6 DEF RefreshRejected, Answered, InFlight, Safe, DeliveredFresh
  <2>. QED  BY <1>6, <2>1, SafeLeave DEF RefreshRejected, server
<1>7. CASE RefreshUnusable(c)
  BY <1>7, SafeLeave DEF RefreshUnusable, Answered, InFlight, server
<1>8. CASE AuthorizeRejected(c)
  BY <1>8, SafeLeave DEF AuthorizeRejected, Answered, InFlight, server
<1>9. CASE ExchangeFails(c)
  <2>1. InFlight(c)
    BY <1>9 DEF ExchangeFails, SuspendedOK
  <2>2. CASE pc[c] = "refreshing"
    BY <1>9, <2>1, <2>2, SafeLeave DEF ExchangeFails, server
  <2>3. CASE pc[c] # "refreshing"
    BY <1>9, <2>1, <2>3, SafeLeave DEF ExchangeFails, server
  <2>. QED  BY <2>2, <2>3
<1>. QED
  BY <1>1, <1>2, <1>3, <1>4, <1>5, <1>6, <1>7, <1>8, <1>9 DEF GetAccessToken, Resume

LEMMA SafeServer ==
  ASSUME TypeOK, SuspendedOK, Safe,
         (\E c \in Callers : Server(c)) \/ ServerSpendsLate \/ Tick
  PROVE  Safe'
<1> USE NoneAssumption, ConstantsAssumption
<1>1. ASSUME NEW c \in Callers, Server(c)
      PROVE  Safe'
  <2>1. ErrorReply \in Reply /\ ErrorReply.refresh_token = None
    BY DEF ErrorReply, Reply, Optional
  <2>2. ASSUME NEW n \in Optional(Nat), NEW life \in ExpiresIn, NEW told \in Optional(ExpiresIn)
        PROVE  /\ Grant(n, life, told) \in Reply /\ Grant(n, life, told).refresh_token = n
               /\ Grant(n, life, told).access_token # None
    BY <2>2 DEF Grant, Reply, Optional, TypeOK
  <2>3. \A life \in ExpiresIn : life \in Optional(ExpiresIn)
    BY DEF Optional
  <2>4. None \in Optional(ExpiresIn) /\ None \in Optional(Nat) /\ issued + 1 \in Optional(Nat)
    BY DEF Optional, TypeOK
  <2>5. CASE ServerRotates(c)
    <3>1. PICK life \in ExpiresIn :
            \/ AnswerWith(c, Grant(issued + 1, life, life))
            \/ AnswerWith(c, Grant(issued + 1, life, None))
      BY <2>5 DEF ServerRotates
    <3>2. PICK told \in Optional(ExpiresIn) : AnswerWith(c, Grant(issued + 1, life, told))
      BY <3>1, <2>3, <2>4
    <3>3. /\ Grant(issued + 1, life, told) \in Reply
          /\ Grant(issued + 1, life, told).refresh_token = issued + 1
          /\ Grant(issued + 1, life, told).access_token # None
      BY <2>2, <2>4
    <3>4. /\ pc[c] = "refreshing" /\ exchange[c].reply = None
          /\ issued' = issued + 1 /\ live' = (live \ {exchange[c].presented}) \cup {issued + 1}
          /\ UNCHANGED <<tokens, pc, forfeited>>
      BY <2>5, Zenon DEF ServerRotates, Unanswered, client
    <3>. QED  BY <3>2, <3>3, <3>4, SafeAnswerWithToken DEF InFlight
  <2>6. CASE ServerAnswersPartially(c)
    <3>1. PICK life \in ExpiresIn : AnswerWith(c, Grant(None, life, life))
      BY <2>6 DEF ServerAnswersPartially
    <3>2. Grant(None, life, life) \in Reply /\ Grant(None, life, life).refresh_token = None
      BY <2>2, <2>3, <2>4
    <3>. QED  BY <2>6, <3>1, <3>2, SafeAnswerWithoutToken
              DEF ServerAnswersPartially, Unanswered, InFlight, client, server
  <2>7. CASE ServerRefuses(c)
    BY <2>1, <2>7, SafeAnswerWithoutToken DEF ServerRefuses, Unanswered, InFlight, client, server
  <2>8. CASE ServerGrants(c)
    <3>1. PICK life \in ExpiresIn, told \in BOOLEAN :
            AnswerWith(c, Grant(issued + 1, life, IF told THEN life ELSE None))
      BY <2>8 DEF ServerGrants
    <3>2. PICK t \in Optional(ExpiresIn) : AnswerWith(c, Grant(issued + 1, life, t))
      BY <3>1, <2>3, <2>4
    <3>3. /\ Grant(issued + 1, life, t) \in Reply
          /\ Grant(issued + 1, life, t).refresh_token = issued + 1
          /\ Grant(issued + 1, life, t).access_token # None
      BY <2>2, <2>4
    <3>4. /\ pc[c] = "authorizing" /\ exchange[c].reply = None
          /\ issued' = issued + 1 /\ live' = live \cup {issued + 1}
          /\ UNCHANGED <<tokens, pc, forfeited>>
      BY <2>8, Zenon DEF ServerGrants, Unanswered, client
    <3>. QED  BY <3>2, <3>3, <3>4, SafeAnswerWithToken DEF InFlight
  <2>9. CASE ServerDenies(c)
    BY <2>1, <2>9, SafeAnswerWithoutToken DEF ServerDenies, Unanswered, InFlight, client, server
  <2>. QED  BY <1>1, <2>5, <2>6, <2>7, <2>8, <2>9 DEF Server
<1>2. CASE ServerSpendsLate
  <2>1. PICK r \in forfeited \cap live : live' = live \ {r}
    BY <1>2 DEF ServerSpendsLate
  <2>2. UNCHANGED <<tokens, pc, exchange, issued, forfeited>>
    BY <1>2 DEF ServerSpendsLate, client
  <2>3. live' \cup forfeited' = live \cup forfeited /\ live' \ forfeited' = live \ forfeited
    BY <2>1, <2>2
  <2>4. \A d \in Callers : /\ Delivers(d)' <=> Delivers(d)
                           /\ NewToken(d)' = NewToken(d)
                           /\ Answered(d, "refreshing")' <=> Answered(d, "refreshing")
    BY <2>2 DEF Delivers, InFlight, NewToken, Answered
  <2>5. Numbered' /\ PresentedUsable' /\ StoredRefreshUsable'
    BY <2>2, <2>3, <2>4 DEF Safe, Numbered, PresentedUsable, StoredRefreshUsable
  <2>6. DeliveredFresh'
    BY <2>2, <2>3, <2>4 DEF Safe, DeliveredFresh
  <2>. QED  BY <2>5, <2>6 DEF Safe
<1>3. CASE Tick
  BY <1>3, SafeIdle DEF Tick, client, server
<1>. QED  BY <1>1, <1>2, <1>3

LEMMA InvInductive == IInv /\ [Next]_vars => IInv'
<1> SUFFICES ASSUME IInv, [Next]_vars
             PROVE  IInv'
  OBVIOUS
<1>1. TypeOK /\ SuspendedOK /\ Safe
  BY DEF IInv, Safe
<1>2. TypeOK' /\ SuspendedOK'
  BY <1>1, NextTyped
<1>3. Safe'
  <2>1. CASE UNCHANGED vars
    BY <1>1, <2>1, SafeIdle DEF vars
  <2>2. CASE Next
    BY <1>1, <2>2, SafeCoroutine, SafeServer DEF Next
  <2>. QED  BY <2>1, <2>2
<1>. QED  BY <1>2, <1>3 DEF IInv, Safe

LEMMA InitInv == Init => IInv
<1> SUFFICES ASSUME Init  PROVE IInv
  OBVIOUS
<1>1. TypeOK /\ SuspendedOK
  BY InitTyped
<1>2. Safe
  BY DEF Init, Safe, Numbered, DeliveredFresh, PresentedUsable, StoredRefreshUsable, Delivers, InFlight
<1>. QED  BY <1>1, <1>2 DEF IInv, Safe

\* The strengthening under which both refresh token properties are inductive.
THEOREM Inductive == Spec => []IInv
  BY InitInv, InvInductive, PTL DEF Spec

\* No refresh token is presented by two callers, and none is presented again
\* once its replacement was stored, whatever authorizations, lost answers and
\* cancellations happen around it.
THEOREM NeverSpentTwice == Spec => []NoDoubleSpend
<1>1. IInv => NoDoubleSpend
  BY NoneAssumption, ConstantsAssumption
     DEF IInv, NoDoubleSpend, SuspendedOK, PresentedUsable, Delivers
<1>. QED  BY <1>1, Inductive, PTL

\* The stored refresh token can always be used for the next refresh.
THEOREM StoredUsable == Spec => []StoredRefreshUsable
<1>1. IInv => StoredRefreshUsable
  BY DEF IInv
<1>. QED  BY <1>1, Inductive, PTL

-----------------------------------------------------------------------------
(* What a refresh that fails means, where the code's comments are right. *)

\* The exchange of a refresh is what it was, has just begun or has just been answered.
LEMMA RefreshExchange ==
  ASSUME TypeOK, SuspendedOK, Next, NEW c \in Callers, pc'[c] = "refreshing"
  PROVE  \/ pc[c] = "refreshing" /\ exchange'[c] = exchange[c]
         \/ exchange'[c].reply = None
         \/ ServerRotates(c) \/ ServerAnswersPartially(c) \/ ServerRefuses(c)
<1>1. ASSUME NEW d \in Callers, GetAccessToken(d) \/ AuthorizeSend(d) \/ Resume(d) \/ ExchangeFails(d) \/ WaiterCancelled(d)
      PROVE  (pc[c] = "refreshing" /\ exchange'[c] = exchange[c]) \/ exchange'[c].reply = None
  BY <1>1 DEF GetAccessToken, GetTokenUnauthorized, GetTokenFast, GetTokenRefresh, GetTokenQueue, StartRefresh, Send,
              AuthorizeSend, Resume, WaiterRefreshes, WaiterSkips, RefreshSucceeds, RefreshRejected, RefreshUnusable,
              AuthorizeSucceeds, AuthorizeRejected, ExchangeFails, WaiterCancelled, Leave, MyTurn, client, vars, TypeOK
<1>2. ASSUME NEW d \in Callers, d # c, Server(d)
      PROVE  pc[c] = "refreshing" /\ exchange'[c] = exchange[c]
  BY <1>2 DEF Server, ServerRotates, ServerAnswersPartially, ServerRefuses, ServerGrants, ServerDenies, AnswerWith,
              client, TypeOK
<1>3. CASE Server(c)
  BY <1>3 DEF Server, ServerGrants, ServerDenies, Unanswered, client
<1>4. CASE ServerSpendsLate \/ Tick
  BY <1>4 DEF ServerSpendsLate, Tick, client
<1>. QED  BY <1>1, <1>2, <1>3, <1>4 DEF Next

\* The answer to a refresh, as the client sees it.
LEMMA RefreshAnswer ==
  ASSUME TypeOK, SuspendedOK, NEW c \in Callers
  PROVE  /\ ServerRotates(c) \/ ServerAnswersPartially(c) => exchange'[c].reply.access_token # None
         /\ "no_expiry" \notin Replies /\ (ServerRotates(c) \/ ServerAnswersPartially(c)) =>
              exchange'[c].reply.expires_in # None
         /\ ServerRefuses(c) =>
              exchange'[c].reply.access_token = None /\ exchange'[c].presented = exchange[c].presented
<1> USE NoneAssumption, ConstantsAssumption
<1>1. ASSUME NEW reply, AnswerWith(c, reply), pc[c] = "refreshing"
      PROVE  exchange'[c].reply = reply /\ exchange'[c].presented = exchange[c].presented
  BY <1>1 DEF AnswerWith, TypeOK, SuspendedOK, InFlight, Exchange
<1>2. ASSUME NEW n, NEW life \in ExpiresIn, NEW told
      PROVE  Grant(n, life, told).access_token # None /\ Grant(n, life, told).expires_in = told /\ life # None
  BY DEF Grant, TypeOK
<1>3. ASSUME ServerRotates(c)
      PROVE  /\ exchange'[c].reply.access_token # None
             /\ "no_expiry" \notin Replies => exchange'[c].reply.expires_in # None
  <2>1. pc[c] = "refreshing"
    BY <1>3 DEF ServerRotates, Unanswered
  <2>2. PICK life \in ExpiresIn :
          \/ AnswerWith(c, Grant(issued + 1, life, life))
          \/ "no_expiry" \in Replies /\ AnswerWith(c, Grant(issued + 1, life, None))
    BY <1>3 DEF ServerRotates
  <2>. QED  BY <1>1, <1>2, <2>1, <2>2
<1>4. ASSUME ServerAnswersPartially(c)
      PROVE  /\ exchange'[c].reply.access_token # None
             /\ "no_expiry" \notin Replies => exchange'[c].reply.expires_in # None
  <2>1. pc[c] = "refreshing"
    BY <1>4 DEF ServerAnswersPartially, Unanswered
  <2>2. PICK life \in ExpiresIn : AnswerWith(c, Grant(None, life, life))
    BY <1>4 DEF ServerAnswersPartially
  <2>. QED  BY <1>1, <1>2, <2>1, <2>2
<1>5. ASSUME ServerRefuses(c)
      PROVE  exchange'[c].reply.access_token = None /\ exchange'[c].presented = exchange[c].presented
  BY <1>1, <1>5 DEF ServerRefuses, Unanswered, ErrorReply
<1>. QED  BY <1>3, <1>4, <1>5

\* A refresh token once spent stays spent.
LEMMA SpentForGood ==
  ASSUME TypeOK, Next
  PROVE  live' \subseteq live \cup {issued + 1}
BY DEF TypeOK, Next, GetAccessToken, AuthorizeSend, Resume, Server, GetTokenUnauthorized, GetTokenFast,
       GetTokenRefresh, GetTokenQueue, StartRefresh, WaiterRefreshes, WaiterSkips, RefreshSucceeds, RefreshRejected,
       RefreshUnusable, AuthorizeSucceeds, AuthorizeRejected, ExchangeFails, WaiterCancelled, ServerRotates,
       ServerAnswersPartially, ServerRefuses, ServerGrants, ServerDenies, ServerSpendsLate, Tick, server, vars

\* A refusal on its way to the client is about a spent token.
RefusedSpent ==
    \A c \in Callers :
        (pc[c] = "refreshing" /\ exchange[c].reply # None /\ exchange[c].reply.access_token = None) =>
            exchange[c].presented \notin live

\* If the server refuses nothing but spent tokens, TokenRefreshError means what it
\* documents of the token that was presented: a quota answer is the only one that
\* makes it wrong, whatever is lost and whoever authorizes meanwhile.
THEOREM RefusalMeansSpent ==
  ASSUME "throttled" \notin Replies
  PROVE  Spec => [][\A c \in Callers : RefreshRejected(c) => exchange[c].presented \notin live]_vars
<1>1. Init => RefusedSpent
  BY DEF Init, RefusedSpent
<1>2. IInv /\ RefusedSpent /\ [Next]_vars => RefusedSpent'
  <2> SUFFICES ASSUME IInv, RefusedSpent, Next, NEW c \in Callers,
                      pc'[c] = "refreshing", exchange'[c].reply # None, exchange'[c].reply.access_token = None
               PROVE  exchange'[c].presented \notin live'
    BY DEF RefusedSpent, vars
  <2>1. \/ pc[c] = "refreshing" /\ exchange'[c] = exchange[c]
        \/ ServerRefuses(c)
    BY RefreshExchange, RefreshAnswer DEF IInv
  <2>2. pc[c] = "refreshing" /\ exchange'[c].presented = exchange[c].presented /\ exchange[c].presented \notin live
    BY <2>1, RefreshAnswer DEF IInv, RefusedSpent, ServerRefuses, Unanswered
  <2>3. exchange[c].presented \in 1..issued /\ issued \in Nat
    BY <2>2 DEF IInv, Numbered, TypeOK
  <2>. QED  BY <2>2, <2>3, SpentForGood DEF IInv
<1>3. RefusedSpent /\ [Next]_vars =>
        [\A c \in Callers : RefreshRejected(c) => exchange[c].presented \notin live]_vars
  BY DEF RefusedSpent, RefreshRejected, Answered
<1>. QED  BY <1>1, <1>2, <1>3, Inductive, PTL DEF Spec

\* No answer was lost and none was unusable.
NothingForfeited ==
    /\ forfeited = {}
    /\ \A c \in Callers :
         (pc[c] = "refreshing" /\ exchange[c].reply # None /\ exchange[c].reply.access_token # None) =>
             exchange[c].reply.expires_in # None

\* If no exchange fails and every refresh is answered with its expires_in, no spent
\* token is ever presented, as the comment in async_get_access_token says: any number of
\* callers, authorizations and throttled or partial answers cannot bring it about.
THEOREM SpentOnlyByLoss ==
  ASSUME ~Faults, "no_expiry" \notin Replies
  PROVE  Spec => []SpentTokenNeverPresented
<1>1. Init => NothingForfeited
  BY DEF Init, NothingForfeited
<1>2. IInv /\ NothingForfeited /\ [Next]_vars => NothingForfeited'
  <2>1. ASSUME IInv, NothingForfeited, Next  PROVE forfeited' = {}
    BY <2>1 DEF NothingForfeited, Next, GetAccessToken, AuthorizeSend, Resume, Server, GetTokenUnauthorized,
       GetTokenFast, GetTokenRefresh, GetTokenQueue, StartRefresh, WaiterRefreshes, WaiterSkips, RefreshSucceeds,
       RefreshRejected, RefreshUnusable, Answered, AuthorizeSucceeds, AuthorizeRejected, ExchangeFails,
       WaiterCancelled, ServerRotates, ServerAnswersPartially, ServerRefuses, ServerGrants, ServerDenies,
       ServerSpendsLate, Tick, vars
  <2>2. ASSUME IInv, NothingForfeited, Next, NEW c \in Callers,
               pc'[c] = "refreshing", exchange'[c].reply # None, exchange'[c].reply.access_token # None
        PROVE  exchange'[c].reply.expires_in # None
    BY <2>2, RefreshExchange, RefreshAnswer DEF IInv, NothingForfeited
  <2>3. ASSUME NothingForfeited, UNCHANGED vars  PROVE NothingForfeited'
    BY <2>3 DEF NothingForfeited, vars
  <2>. QED  BY <2>1, <2>2, <2>3 DEF NothingForfeited
<1>3. IInv /\ NothingForfeited => SpentTokenNeverPresented
  BY DEF IInv, NothingForfeited, PresentedUsable, Delivers, SpentTokenNeverPresented, Unanswered
<1>. QED  BY <1>1, <1>2, <1>3, Inductive, PTL DEF Spec

-----------------------------------------------------------------------------
(* The validity of what is handed out. *)

\* Steps after which the clock, the tokens and the answers are what they were,
\* but for exchanges that ended or have just begun.
LEMMA ClockKept ==
  ASSUME TypeOK, SuspendedOK, ClockInv, UNCHANGED <<now, tokens, handed>>,
         \A c \in Callers : InFlight(c)' =>
            \/ InFlight(c) /\ exchange'[c] = exchange[c]
            \/ exchange'[c].start = now /\ exchange'[c].reply = None
  PROVE  ClockInv'
<1>1. \A c \in Callers : InFlight(c) => exchange[c].start <= now /\ now <= exchange[c].start + Timeout
  BY DEF ClockInv
<1>2. now <= now + Timeout
  BY ConstantsAssumption DEF TypeOK
<1>. QED  BY <1>1, <1>2 DEF ClockInv, OverdueBounded, TypeOK

\* An answer arrives at the server no earlier than its request was sent.
LEMMA ClockAnswered ==
  ASSUME TypeOK, SuspendedOK, ClockInv, NEW c \in Callers, InFlight(c),
         UNCHANGED <<now, tokens, handed, pc>>,
         AnswerWith(c, ErrorReply)
         \/ \E n \in Optional(Nat), life \in ExpiresIn :
               AnswerWith(c, Grant(n, life, life)) \/ AnswerWith(c, Grant(n, life, None))
  PROVE  ClockInv'
<1> USE NoneAssumption, ConstantsAssumption
<1>1. exchange[c] \in Exchange /\ exchange'[c].start = exchange[c].start
      /\ \A d \in Callers \ {c} : exchange'[d] = exchange[d]
  BY DEF SuspendedOK, AnswerWith, TypeOK, Exchange
<1>2. exchange[c].start \in Nat /\ exchange[c].start <= now /\ now <= exchange[c].start + Timeout
  BY <1>1 DEF ClockInv, Exchange
<1> DEFINE Honest(reply) ==
             reply.expires_in # None =>
               /\ reply.expires_in \in ExpiresIn
               /\ exchange[c].start + reply.expires_in <= reply.access_token
<1>3. Honest(exchange'[c].reply)
  <2>1. CASE AnswerWith(c, ErrorReply)
    BY <2>1, <1>1 DEF AnswerWith, ErrorReply, TypeOK, Exchange
  <2>2. ASSUME NEW n \in Optional(Nat), NEW life \in ExpiresIn, NEW told \in {life, None},
               AnswerWith(c, Grant(n, life, told))
        PROVE  Honest(exchange'[c].reply)
    <3>1. exchange'[c].reply = Grant(n, life, told)
      BY <1>1, <2>2 DEF AnswerWith, TypeOK, Exchange
    <3>2. life \in Nat /\ now \in Nat
      BY DEF TypeOK
    <3>. QED  BY <1>2, <3>1, <3>2 DEF Grant
  <2>. QED  BY <2>1, <2>2
<1>4. \A d \in Callers : InFlight(d)' <=> InFlight(d)
  BY DEF InFlight
<1>. QED  BY <1>1, <1>2, <1>3, <1>4 DEF ClockInv, OverdueBounded

\* What is stored claims to live longer than it does by what an answer may take
\* beyond the margin.
LEMMA ClockStored ==
  ASSUME TypeOK, SuspendedOK, ClockInv, NEW c \in Callers,
         RefreshSucceeds(c) \/ AuthorizeSucceeds(c)
  PROVE  ClockInv'
<1> USE NoneAssumption, ConstantsAssumption
<1> DEFINE reply == exchange[c].reply
<1>1. /\ InFlight(c) /\ exchange[c] \in Exchange /\ reply \in Reply
      /\ reply.access_token \in Nat /\ reply.expires_in \in Nat
  BY DEF RefreshSucceeds, AuthorizeSucceeds, Answered, Complete, InFlight, SuspendedOK, Exchange,
         Optional, Reply
<1>2. exchange[c].start \in Nat /\ now \in Nat /\ Timeout \in Nat /\ Margin \in Nat
  BY <1>1 DEF Exchange, TypeOK
<1>3. /\ exchange[c].start <= now /\ now <= exchange[c].start + Timeout
      /\ reply.expires_in \in ExpiresIn
      /\ exchange[c].start + reply.expires_in <= reply.access_token
  BY <1>1 DEF ClockInv, RefreshSucceeds, AuthorizeSucceeds, Answered
<1>4. tokens'.access_token = reply.access_token /\ tokens'.expires_at = now + reply.expires_in - Margin
  BY DEF RefreshSucceeds, AuthorizeSucceeds, Stored
<1>5. tokens'.expires_at + Margin <= tokens'.access_token + Timeout
  BY <1>1, <1>2, <1>3, <1>4
<1>6. now - reply.access_token <= Timeout - reply.expires_in
  BY <1>1, <1>2, <1>3
<1>7. OverdueBounded'
  <2>1. CASE AuthorizeSucceeds(c)
    BY <2>1 DEF AuthorizeSucceeds, ClockInv, OverdueBounded
  <2>2. CASE RefreshSucceeds(c)
    <3>1. handed' > 0 => handed' = now - reply.access_token
      BY <2>2 DEF RefreshSucceeds, HandOut
    <3>2. handed' > 0 => handed' + reply.expires_in <= Timeout
      BY <1>1, <1>2, <1>6, <3>1
    <3>. QED  BY <1>3, <3>2 DEF OverdueBounded
  <2>. QED  BY <2>1, <2>2
<1>8. \A d \in Callers : InFlight(d)' => InFlight(d) /\ exchange'[d] = exchange[d]
  BY DEF RefreshSucceeds, AuthorizeSucceeds, Leave, InFlight, TypeOK
<1>9. now' = now
  BY DEF RefreshSucceeds, AuthorizeSucceeds
<1>. QED  BY <1>5, <1>7, <1>8, <1>9 DEF ClockInv

LEMMA ClockInductive ==
  ASSUME TypeOK, SuspendedOK, ClockInv, [Next]_vars
  PROVE  ClockInv'
<1> USE NoneAssumption, ConstantsAssumption
<1>1. ASSUME NEW c \in Callers, GetTokenFast(c) \/ WaiterSkips(c)
      PROVE  ClockInv'
  <2>1. now + Margin <= tokens.access_token + Timeout /\ tokens.access_token \in Nat
    <3>1. /\ tokens \in TokenSet /\ tokens.expires_at + Margin <= tokens.access_token + Timeout
          /\ ~(tokens.expires_at < now)
      BY <1>1 DEF GetTokenFast, WaiterSkips, MyTurn, Expired, TypeOK, Optional, SuspendedOK, ClockInv
    <3>. QED  BY <3>1 DEF TokenSet, TypeOK
  <2>2. OverdueBounded'
    <3>1. handed' > 0 => handed' = now - tokens.access_token
      BY <1>1 DEF GetTokenFast, WaiterSkips, HandOut
    <3>2. handed' > 0 => handed' + Margin <= Timeout
      BY <2>1, <3>1 DEF TypeOK
    <3>. QED  BY <3>2 DEF OverdueBounded
  <2>3. UNCHANGED <<now, tokens, exchange>> /\ \A d \in Callers : InFlight(d)' => InFlight(d)
    BY <1>1 DEF GetTokenFast, WaiterSkips, MyTurn, client, InFlight, TypeOK
  <2>. QED  BY <2>2, <2>3 DEF ClockInv
<1>2. ASSUME NEW c \in Callers,
             \/ GetTokenUnauthorized(c) \/ GetTokenRefresh(c) \/ GetTokenQueue(c) \/ AuthorizeSend(c)
             \/ WaiterRefreshes(c) \/ RefreshRejected(c) \/ RefreshUnusable(c) \/ AuthorizeRejected(c)
             \/ ExchangeFails(c) \/ WaiterCancelled(c)
      PROVE  ClockInv'
  <2>1. UNCHANGED <<now, tokens, handed>>
    BY <1>2 DEF GetTokenUnauthorized, GetTokenRefresh, GetTokenQueue, AuthorizeSend, WaiterRefreshes,
                StartRefresh, RefreshRejected, RefreshUnusable, AuthorizeRejected, ExchangeFails,
                WaiterCancelled, vars
  <2>2. \A d \in Callers : InFlight(d)' =>
           \/ InFlight(d) /\ exchange'[d] = exchange[d]
           \/ exchange'[d].start = now /\ exchange'[d].reply = None
    BY <1>2 DEF GetTokenUnauthorized, GetTokenRefresh, GetTokenQueue, AuthorizeSend, WaiterRefreshes,
                StartRefresh, Send, RefreshRejected, RefreshUnusable, AuthorizeRejected, ExchangeFails,
                WaiterCancelled, Leave, InFlight, vars, TypeOK
  <2>. QED  BY <2>1, <2>2, ClockKept
<1>3. ASSUME NEW c \in Callers, Server(c)
      PROVE  ClockInv'
  <2>1. UNCHANGED <<now, tokens, handed, pc>> /\ InFlight(c)
    BY <1>3 DEF Server, ServerRotates, ServerAnswersPartially, ServerRefuses, ServerGrants, ServerDenies,
                Unanswered, InFlight, client
  <2>2. None \in Optional(Nat) /\ issued + 1 \in Optional(Nat)
    BY DEF Optional, TypeOK
  <2>3. CASE ServerRotates(c)
    BY <2>1, <2>2, <2>3, ClockAnswered DEF ServerRotates
  <2>4. CASE ServerAnswersPartially(c)
    BY <2>1, <2>2, <2>4, ClockAnswered DEF ServerAnswersPartially
  <2>5. CASE ServerRefuses(c) \/ ServerDenies(c)
    BY <2>1, <2>5, ClockAnswered DEF ServerRefuses, ServerDenies
  <2>6. CASE ServerGrants(c)
    <3>1. PICK life \in ExpiresIn, told \in BOOLEAN :
            AnswerWith(c, Grant(issued + 1, life, IF told THEN life ELSE None))
      BY <2>6 DEF ServerGrants
    <3>2. AnswerWith(c, Grant(issued + 1, life, life)) \/ AnswerWith(c, Grant(issued + 1, life, None))
      BY <3>1
    <3>. QED  BY <2>1, <2>2, <3>2, ClockAnswered
  <2>. QED  BY <1>3, <2>3, <2>4, <2>5, <2>6 DEF Server
<1>4. CASE ServerSpendsLate
  BY <1>4, ClockKept DEF ServerSpendsLate, client, InFlight
<1>5. CASE Tick
  <2>1. now \in Nat /\ now' = now + 1 /\ UNCHANGED <<tokens, exchange, pc, handed>>
    BY <1>5 DEF Tick, client, TypeOK
  <2>2. \A c \in Callers : InFlight(c) => exchange[c] # None /\ exchange[c].start \in Nat
    BY DEF SuspendedOK, Exchange
  <2>3. \A c \in Callers : InFlight(c) =>
          exchange[c].start <= now + 1 /\ now + 1 <= exchange[c].start + Timeout
    BY <1>5, <2>1, <2>2 DEF Tick, ClockInv
  <2>. QED  BY <2>1, <2>3 DEF ClockInv, OverdueBounded, InFlight
<1>6. CASE UNCHANGED vars
  BY <1>6 DEF vars, ClockInv, OverdueBounded, InFlight
<1>7. ASSUME NEW c \in Callers, RefreshSucceeds(c) \/ AuthorizeSucceeds(c)
      PROVE  ClockInv'
  BY <1>7, ClockStored
<1>. QED
  BY <1>1, <1>2, <1>3, <1>4, <1>5, <1>6, <1>7 DEF Next, GetAccessToken, Resume

\* Every access token handed out, stored or fresh, has been refused by the server for
\* no longer than an answer may take beyond the margin or beyond the life it brings,
\* whatever the margin, the timeout and the lives: with the code's 20 s against 30 s and
\* lives above that, for ten seconds.
THEOREM HandedOutBounded == Spec => []OverdueBounded
<1>1. Init => ClockInv
  BY DEF Init, ClockInv, OverdueBounded, InFlight
<1>2. TypeOK /\ SuspendedOK /\ ClockInv /\ [Next]_vars => (TypeOK /\ SuspendedOK /\ ClockInv)'
  BY NextTyped, ClockInductive
<1>3. ClockInv => OverdueBounded
  BY DEF ClockInv
<1>. QED  BY <1>1, <1>2, <1>3, InitTyped, PTL DEF Spec

\* No refresh token is spent on a token set that is still fresh.
THEOREM RefreshNeedsExpiry == Spec => RefreshOnlyWhenExpired
<1>1. TypeOK /\ [Next]_vars =>
        \A c \in Callers : (pc[c] # "refreshing" /\ pc'[c] = "refreshing") => tokens.expires_at < now
  <2> SUFFICES ASSUME TypeOK, Next, NEW c \in Callers, pc[c] # "refreshing", pc'[c] = "refreshing"
               PROVE  Expired
    BY DEF vars, Expired
  <2>1. PICK d \in Callers : GetTokenRefresh(d) \/ WaiterRefreshes(d)
    BY DEF Next, GetAccessToken, AuthorizeSend, Resume, Server, GetTokenUnauthorized, GetTokenFast,
           GetTokenQueue, WaiterSkips, RefreshSucceeds, RefreshRejected, RefreshUnusable,
           AuthorizeSucceeds, AuthorizeRejected, ExchangeFails, WaiterCancelled, Leave, Send,
           ServerRotates, ServerAnswersPartially, ServerRefuses, ServerGrants, ServerDenies,
           ServerSpendsLate, Tick, client, vars, TypeOK
  <2>. QED  BY <2>1 DEF GetTokenRefresh, WaiterRefreshes
<1>. QED  BY <1>1, TypeCorrect, PTL DEF Spec, RefreshOnlyWhenExpired
=============================================================================
