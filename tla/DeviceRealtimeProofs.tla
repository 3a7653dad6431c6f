------------------------ MODULE DeviceRealtimeProofs ------------------------
(* Proofs about DeviceRealtime, for any devices and any number of chunks. *)
EXTENDS DeviceRealtime, TLAPS

-----------------------------------------------------------------------------
(* The inductive invariant. *)

\* Nothing has been asked yet.
NotAsked ==
    pc \in {"start", "discovering"} => out = {} /\ answered = NoAnswers /\ chunk = 1

\* The points collected are all that was answered, for the chunks before this one, and
\* the endpoint that answered is there.
Collecting ==
    pc = "asking" =>
        /\ out = answered.open /\ answered.chunks = 1..(chunk - 1) /\ answered.user = {}
        /\ endpoint # "present" => answered.open = {}

\* The fallback starts from nothing.
FromNothing == pc = "fallback" => out = {} /\ answered.user = {}

IInv == TypeOK /\ NotAsked /\ Collecting /\ FromNothing /\ FallbackJustified /\ EmptyMeansQuiet /\ DataComplete

-----------------------------------------------------------------------------
(* The dictionaries of points. *)

\* A page is a dictionary of the devices asked for and of the current chunk.
LEMMA PageIsPoints ==
  ASSUME NEW keys \in SUBSET Devices, NEW listed \in SUBSET keys, NEW reporting \in SUBSET listed,
         NEW k \in 1..Chunks
  PROVE  Page(listed, reporting, k) \in SUBSET Points
<1>1. Chunks \in Nat /\ 0 \in 0..Chunks /\ k \in 0..Chunks
  BY ConstantsAssumption
<1>. QED  BY <1>1 DEF Page, Entries, Points

\* So is the answer of the user session, whatever chunk its points belong to.
LEMMA EntriesArePoints ==
  ASSUME NEW keys \in SUBSET Devices, NEW points \in SUBSET (keys \X (1..Chunks))
  PROVE  Entries({p[1] : p \in points}, points) \in SUBSET Points
<1>1. Chunks \in Nat /\ 0 \in 0..Chunks /\ 1..Chunks \in SUBSET (0..Chunks)
  BY ConstantsAssumption
<1>2. {p[1] : p \in points} \in SUBSET Devices
  OBVIOUS
<1>3. points \in SUBSET Points
  BY <1>1 DEF Points
<1>. QED  BY <1>1, <1>2, <1>3 DEF Entries, Points

-----------------------------------------------------------------------------
(* Each action keeps the types and the invariant. *)

LEMMA AskKeeps ==
  ASSUME IInv, Begin \/ Discovered \/ DiscoveryFails
  PROVE  IInv'
<1> USE DEF IInv, TypeOK, NotAsked, Collecting, FromNothing, FallbackJustified, EmptyMeansQuiet, DataComplete,
            Ended, NoAnswers, Results, call
<1>1. ASSUME NEW keys \in SUBSET Devices, Ask(keys), pc \in {"start", "discovering"},
             UNCHANGED <<call, chunk, answered>>
      PROVE  IInv'
  <2>1. CASE keys = {} /\ Return({})
    BY <1>1, <2>1 DEF Ask, Return, End
  <2>2. CASE keys # {} /\ pc' = "asking" /\ UNCHANGED <<out, result>>
    <3>1. chunk = 1 /\ answered.chunks = {} /\ 1..(chunk - 1) = {}
      BY <1>1
    <3>. QED  BY <1>1, <2>2, <3>1 DEF Ask
  <2>. QED  BY <1>1, <2>1, <2>2 DEF Ask
<1>2. CASE Begin
  <2>1. CASE pc' = "discovering" /\ UNCHANGED <<ps_keys, out, result>>
    BY <1>2, <2>1 DEF Begin
  <2>. QED  BY <1>1, <1>2, <2>1 DEF Begin
<1>3. CASE Discovered
  BY <1>1, <1>3 DEF Discovered
<1>4. CASE DiscoveryFails
  BY <1>4 DEF DiscoveryFails, Raise, End
<1>. QED  BY <1>2, <1>3, <1>4

\* The answer of a chunk: merged into what is there, and after the last chunk either
\* handed out or, if all of it is nothing, left to the user session.
LEMMA ChunkKeeps ==
  ASSUME IInv, ChunkArrives
  PROVE  IInv'
<1>1. PICK listed \in SUBSET ps_keys : \E reporting \in SUBSET listed :
        LET page == Page(listed, reporting, chunk) IN
        /\ answered' = [answered EXCEPT !.open = @ \cup page, !.chunks = @ \cup {chunk}]
        /\ IF chunk < Chunks
              THEN chunk' = chunk + 1 /\ out' = Merge(out, page) /\ UNCHANGED <<pc, result>>
              ELSE Finish(Merge(out, page)) /\ UNCHANGED chunk
  BY DEF ChunkArrives
<1>2. PICK page \in SUBSET Points :
        /\ answered' = [answered EXCEPT !.open = @ \cup page, !.chunks = @ \cup {chunk}]
        /\ IF chunk < Chunks
              THEN chunk' = chunk + 1 /\ out' = out \cup page /\ UNCHANGED <<pc, result>>
              ELSE Finish(out \cup page) /\ UNCHANGED chunk
  BY <1>1, PageIsPoints DEF IInv, TypeOK, Merge
<1>3. pc = "asking" /\ endpoint = "present" /\ UNCHANGED <<call, ps_keys>>
  BY DEF ChunkArrives
<1>4. /\ answered'.open = out \cup page /\ answered'.chunks = 1..chunk /\ answered'.user = {}
      /\ answered' \in [open : SUBSET Points, chunks : SUBSET (1..Chunks), user : SUBSET Points]
  <2>1. (1..(chunk - 1)) \cup {chunk} = 1..chunk
    BY ConstantsAssumption DEF IInv, TypeOK
  <2>. QED  BY <1>2, <1>3, <2>1 DEF IInv, TypeOK, Collecting
<1> USE ConstantsAssumption
    DEF IInv, TypeOK, NotAsked, Collecting, FromNothing, FallbackJustified, EmptyMeansQuiet, DataComplete,
        Ended, Results, call
<1>5. CASE chunk < Chunks
  BY <1>2, <1>3, <1>4, <1>5
<1>6. CASE ~(chunk < Chunks)
  BY <1>2, <1>3, <1>4, <1>6 DEF Finish, Return, End
<1>. QED  BY <1>5, <1>6

\* A missing endpoint and a failure: nothing was collected, or it is dropped.
LEMMA NoAnswerKeeps ==
  ASSUME IInv, EndpointMissing \/ MissingUrlRaises \/ ChunkFails
  PROVE  IInv'
<1> USE DEF IInv, TypeOK, NotAsked, Collecting, FromNothing, FallbackJustified, EmptyMeansQuiet, DataComplete,
            Ended, Results, call
<1>1. CASE EndpointMissing
  BY <1>1 DEF EndpointMissing, MissingSeen, Raise, End
<1>2. CASE MissingUrlRaises
  BY <1>2 DEF MissingUrlRaises, Raise, End
<1>3. CASE ChunkFails
  BY <1>3 DEF ChunkFails, Raise, End
<1>. QED  BY <1>1, <1>2, <1>3

\* The user session: what it answers is the result, and nothing if it fails.
LEMMA UserKeeps ==
  ASSUME IInv, UserAnswers \/ UserFails
  PROVE  IInv'
<1> USE DEF IInv, TypeOK, NotAsked, Collecting, FromNothing, FallbackJustified, EmptyMeansQuiet, DataComplete,
            Ended, Results, call
<1>1. CASE UserAnswers
  <2>1. PICK page \in SUBSET Points : answered' = [answered EXCEPT !.user = page] /\ Return(page)
    BY <1>1, EntriesArePoints DEF UserAnswers
  <2>2. /\ answered'.open = answered.open /\ answered'.chunks = answered.chunks /\ answered'.user = page
        /\ answered' \in [open : SUBSET Points, chunks : SUBSET (1..Chunks), user : SUBSET Points]
    BY <2>1
  <2>. QED  BY <1>1, <2>1, <2>2 DEF UserAnswers, Return, End
<1>2. CASE UserFails
  BY <1>2 DEF UserFails, Return, End
<1>. QED  BY <1>1, <1>2

\* For any devices and any number of chunks, the call collects what it is answered.
THEOREM RealtimeInvariant == Spec => []IInv
<1>1. Init => IInv
  BY ConstantsAssumption
     DEF Init, IInv, TypeOK, NotAsked, Collecting, FromNothing, FallbackJustified, EmptyMeansQuiet,
         DataComplete, Ended, NoAnswers, Results
<1>2. IInv /\ [Next]_vars => IInv'
  <2>1. ASSUME IInv, UNCHANGED vars  PROVE IInv'
    BY <2>1 DEF vars, call, IInv, TypeOK, NotAsked, Collecting, FromNothing, FallbackJustified,
                EmptyMeansQuiet, DataComplete, Ended
  <2>. QED  BY <2>1, AskKeeps, ChunkKeeps, NoAnswerKeeps, UserKeeps DEF Next
<1>. QED  BY <1>1, <1>2, PTL DEF Spec

\* The variables keep their types.
THEOREM TypeCorrect == Spec => []TypeOK
BY RealtimeInvariant, PTL DEF IInv

\* Without a user session, an empty result is never a missing endpoint.
THEOREM EmptyIsQuiet == Spec => []EmptyMeansQuiet
BY RealtimeInvariant, PTL DEF IInv

\* A result, of whichever source, holds all that source answered in this call: every
\* chunk of points was asked for, none is lost and the two sources are never mixed.
THEOREM NoChunkLost == Spec => []DataComplete
BY RealtimeInvariant, PTL DEF IInv

\* The user session is asked only after the open API has definitely nothing to say.
THEOREM FallbackOnlyForNothing == Spec => []FallbackJustified
BY RealtimeInvariant, PTL DEF IInv

\* Only the session that Auth itself creates turns a missing URL into an HTTP error:
\* with a session of the application the caller gets the typed exception or the fallback.
THEOREM InjectedSessionReports ==
  ASSUME "owned" \notin Sessions  PROVE Spec => []MissingUrlReported
<1>1. Init => session \in Sessions /\ MissingUrlReported
  BY DEF Init, MissingUrlReported
<1>2. (session \in Sessions /\ MissingUrlReported) /\ [Next]_vars => (session \in Sessions /\ MissingUrlReported)'
  BY DEF Next, Begin, Discovered, DiscoveryFails, Ask, ChunkArrives, EndpointMissing, MissingUrlRaises, ChunkFails,
         UserAnswers, UserFails, Finish, vars, call, End, Return, Raise, MissingUrlReported
<1>. QED  BY <1>1, <1>2, PTL DEF Spec
=============================================================================
