--------------------------- MODULE DeviceRealtime ---------------------------
(***************************************************************************)
(* `Plants.async_get_device_realtime` (src/pysolarcloud/plants.py), which  *)
(* is also its own capability probe, answering True if the call ends with  *)
(* data or empty and False if with unavailable.  The devices are looked up *)
(* unless the caller names them, their points are requested in chunks, and *)
(* a user account session, if there is one, is asked when the open API has *)
(* no such endpoint or nothing to say.                                     *)
(*                                                                         *)
(* A result is a dictionary from devices to their points: a set of pairs   *)
(* <<d, k>>, one for every device d in it (k = 0) and one for the points   *)
(* of d that were requested in chunk k.  A device without points is in it. *)
(***************************************************************************)
EXTENDS Integers, FiniteSets

CONSTANTS
    Devices,    \* the devices of the plant, of the type asked for
    Chunks,     \* requests the point list is split into (100 points each)
    Sessions    \* "owned": Auth's own session; "injected": the application's

ASSUME ConstantsAssumption ==
    /\ Chunks \in Nat \ {0}
    /\ Sessions \subseteq {"owned", "injected"}

VARIABLES
    session,    \* whose HTTP session it is
    endpoint,   \* what the account has: the endpoint, no such URL, no such API
    user_auth,  \* whether a user session is supplied
    pc,         \* where the call is
    ps_keys,    \* the devices asked for
    chunk,      \* the request being made
    out,        \* the points collected
    result,     \* how the call ended
    answered    \* what each API answered this call with, the open API for which chunks

call == <<session, endpoint, user_auth>>
vars == <<session, endpoint, user_auth, pc, ps_keys, chunk, out, result, answered>>

Points == Devices \X (0..Chunks)

\* The dictionary of the devices listed, of which some report points.
Entries(listed, points) == {<<d, 0>> : d \in listed} \cup points
Page(listed, reporting, k) == Entries(listed, reporting \X {k})

NoAnswers == [open |-> {}, chunks |-> {}, user |-> {}]
Results == {"none", "data", "empty", "unavailable", "not_found", "raised"}

TypeOK ==
    /\ session \in {"owned", "injected"}
    /\ endpoint \in {"present", "no_url", "no_api"}
    /\ user_auth \in BOOLEAN
    /\ pc \in {"start", "discovering", "asking", "fallback", "ended"}
    /\ ps_keys \subseteq Devices
    /\ chunk \in 1..Chunks
    /\ out \subseteq Points
    /\ result \in Results
    /\ answered \in [open : SUBSET Points, chunks : SUBSET (1..Chunks), user : SUBSET Points]

Init ==
    /\ session \in Sessions
    /\ endpoint \in {"present", "no_url", "no_api"}
    /\ user_auth \in BOOLEAN
    /\ pc = "start" /\ ps_keys = {} /\ chunk = 1 /\ out = {}
    /\ result = "none" /\ answered = NoAnswers

-----------------------------------------------------------------------------

End(how) == pc' = "ended" /\ result' = how

Return(points) ==
    /\ out' = points
    /\ End(IF points = {} THEN "empty" ELSE "data")

Raise(how) == End(how) /\ out' = {}

\* With the devices known: nothing to ask, or the first request.
Ask(keys) ==
    /\ ps_keys' = keys
    /\ \/ keys = {} /\ Return({})
       \/ keys # {} /\ pc' = "asking" /\ UNCHANGED <<out, result>>

Begin ==
    /\ pc = "start"
    /\ \/ \E keys \in SUBSET Devices : Ask(keys)
       \/ pc' = "discovering" /\ UNCHANGED <<ps_keys, out, result>>
    /\ UNCHANGED <<call, chunk, answered>>

\* The device list, of which only some may have a ps_key.
Discovered ==
    /\ pc = "discovering"
    /\ \E keys \in SUBSET Devices : Ask(keys)
    /\ UNCHANGED <<call, chunk, answered>>

DiscoveryFails ==
    /\ pc = "discovering"
    /\ Raise("raised")
    /\ UNCHANGED <<call, ps_keys, chunk, answered>>

\* All chunks are in: the user session is asked only if they held nothing.
Finish(points) ==
    \/ points = {} /\ user_auth /\ pc' = "fallback" /\ out' = {} /\ UNCHANGED result
    \/ (points # {} \/ ~user_auth) /\ Return(points)

\* Mutant: a chunk replaces what the earlier ones brought.
MergeLast(points, page) == page

Merge(points, page) == points \cup page

\* Mutant: one more request is made after the last chunk.
ChunkArrivesPast ==
    /\ pc = "asking" /\ endpoint = "present"
    /\ \E listed \in SUBSET ps_keys : \E reporting \in SUBSET listed :
         LET page == Page(listed, reporting, chunk) IN
         /\ answered' = [answered EXCEPT !.open = @ \cup page, !.chunks = @ \cup {chunk}]
         /\ IF chunk <= Chunks
               THEN chunk' = chunk + 1 /\ out' = Merge(out, page) /\ UNCHANGED <<pc, result>>
               ELSE Finish(Merge(out, page)) /\ UNCHANGED chunk
    /\ UNCHANGED <<call, ps_keys>>

\* An answer: the devices it lists and the points of this chunk they report.  A
\* device that reports none is listed too, and keeps the result from being empty.
ChunkArrives ==
    /\ pc = "asking" /\ endpoint = "present"
    /\ \E listed \in SUBSET ps_keys : \E reporting \in SUBSET listed :
         LET page == Page(listed, reporting, chunk) IN
         /\ answered' = [answered EXCEPT !.open = @ \cup page, !.chunks = @ \cup {chunk}]
         /\ IF chunk < Chunks
               THEN chunk' = chunk + 1 /\ out' = Merge(out, page) /\ UNCHANGED <<pc, result>>
               ELSE Finish(Merge(out, page)) /\ UNCHANGED chunk
    /\ UNCHANGED <<call, ps_keys>>

\* The code sees that the endpoint is missing by its result_code, or by the HTTP
\* status 404 or 405 if the session lets such an answer through.
MissingSeen == endpoint = "no_api" \/ (endpoint = "no_url" /\ session = "injected")

\* Mutant: the missing endpoint is flattened into an empty result.
EndpointMissingEmpty ==
    /\ pc = "asking" /\ MissingSeen
    /\ Finish({})
    /\ UNCHANGED <<call, ps_keys, chunk, answered>>

\* DeviceEndpointUnavailable, or the user session in its place.
EndpointMissing ==
    /\ pc = "asking" /\ MissingSeen
    /\ \/ user_auth /\ pc' = "fallback" /\ out' = {} /\ UNCHANGED result
       \/ ~user_auth /\ Raise("unavailable")
    /\ UNCHANGED <<call, ps_keys, chunk, answered>>

\* An owned session raises for every status from 400 on (raise_for_status), before
\* `res.status` can be looked at.
MissingUrlRaises ==
    /\ pc = "asking" /\ endpoint = "no_url" /\ session = "owned"
    /\ Raise("not_found")
    /\ UNCHANGED <<call, ps_keys, chunk, answered>>

\* Mutant: the user session is asked after any failure.
ChunkFailsOver ==
    /\ pc = "asking"
    /\ \/ user_auth /\ pc' = "fallback" /\ UNCHANGED <<out, result>>
       \/ ~user_auth /\ Raise("raised")
    /\ UNCHANGED <<call, ps_keys, chunk, answered>>

\* Any other failure of a request reaches the caller, and what earlier chunks
\* brought is dropped: credentials, quota, transport, an HTTP status.
ChunkFails ==
    /\ pc = "asking"
    /\ Raise("raised")
    /\ UNCHANGED <<call, ps_keys, chunk, answered>>

\* The user session answers, and only devices with points are taken over.
UserAnswers ==
    /\ pc = "fallback"
    /\ \E points \in SUBSET (ps_keys \X (1..Chunks)) :
         LET page == Entries({p[1] : p \in points}, points) IN
         /\ answered' = [answered EXCEPT !.user = page]
         /\ Return(page)
    /\ UNCHANGED <<call, ps_keys, chunk>>

\* It fails, which is swallowed: there are none.
UserFails ==
    /\ pc = "fallback"
    /\ Return({})
    /\ UNCHANGED <<call, ps_keys, chunk, answered>>

Next ==
    \/ Begin \/ Discovered \/ DiscoveryFails
    \/ ChunkArrives \/ EndpointMissing \/ MissingUrlRaises \/ ChunkFails
    \/ UserAnswers \/ UserFails

Spec == Init /\ [][Next]_vars

-----------------------------------------------------------------------------
(* Properties. *)

Ended == pc = "ended"

\* Without a user session an empty result means a quiet device, never a missing
\* endpoint (DeviceEndpointUnavailable tells the three outcomes apart).
EmptyMeansQuiet ==
    (Ended /\ result = "empty" /\ ~user_auth) => (endpoint = "present" \/ ps_keys = {})

\* A result is everything one source answered in this call: the open API, asked for
\* every chunk, or the user session if there was nothing in any of them.  With no
\* device nothing is asked.
DataComplete ==
    (Ended /\ result \in {"data", "empty"}) =>
        \/ ps_keys = {} /\ out = {} /\ answered = NoAnswers
        \/ answered.chunks = 1..Chunks /\ out = answered.open
        \/ /\ user_auth /\ answered.open = {} /\ out = answered.user
           /\ endpoint = "present" => answered.chunks = 1..Chunks

\* The user session is asked only when the open API has definitely nothing to
\* say, never in place of a failure that a retry might mend.
FallbackJustified ==
    pc = "fallback" =>
        /\ user_auth /\ answered.open = {}
        /\ endpoint = "present" => answered.chunks = 1..Chunks

\* What the docstring and DeviceEndpointUnavailable say of HTTP 404/405: the
\* caller gets the typed exception or the fallback, not the HTTP error.
MissingUrlReported == result # "not_found"
=============================================================================
