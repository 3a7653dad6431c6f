------------------------- MODULE ApiCallDataProofs --------------------------
(***************************************************************************)
(* More proofs about ApiCall, for every value of its constants: what goes  *)
(* out with a write, that what comes in reaches the caller, and the types. *)
(***************************************************************************)
EXTENDS ApiCallProofs

-----------------------------------------------------------------------------
(* The catalogue, and the encoding of a number. *)

\* Every parameter can be scaled to whole units, and so can its bounds.
LEMMA CatalogueFacts ==
  ASSUME NEW p \in DOMAIN PARAMETERS
  PROVE  /\ PARAMETERS[p].kind \in {"enum", "number"}
         /\ PARAMETERS[p].kind = "number" =>
              /\ PARAMETERS[p].scale \in {1, 10, 1000}
              /\ \A b \in {PARAMETERS[p].minimum, PARAMETERS[p].maximum} :
                   b # None => b \in Int /\ \E k \in Int : b * PARAMETERS[p].scale = k * Unit
<1>1. PARAMETERS[p].kind \in {"enum", "number"}
  BY DEF PARAMETERS, Number, Enum
<1>2. ASSUME PARAMETERS[p].kind = "number"  PROVE PARAMETERS[p].scale \in {1, 10, 1000}
  BY <1>2 DEF PARAMETERS, Number, Enum
<1>3. ASSUME PARAMETERS[p].kind = "number",
             NEW b \in {PARAMETERS[p].minimum, PARAMETERS[p].maximum}, b # None
      PROVE  b \in Int /\ (b * PARAMETERS[p].scale) % Unit = 0
  BY <1>3 DEF PARAMETERS, Number, Enum, Unit
<1>4. ASSUME NEW b \in Int, NEW scale \in {1, 10, 1000}, (b * scale) % Unit = 0
      PROVE  \E k \in Int : b * scale = k * Unit
  <2>1. b * scale = ((b * scale) \div Unit) * Unit /\ (b * scale) \div Unit \in Int
    BY <1>4 DEF Unit
  <2>. QED  BY <2>1
<1>. QED  BY <1>1, <1>2, <1>3, <1>4

\* A name of the catalogue is translated to the code the catalogue has for it.
LEMMA CodesAgree ==
  ASSUME NEW p \in DOMAIN PARAMETERS
  PROVE  CodeOf(p) = PARAMETERS[p].code
BY DEF PARAMETERS, Number, Enum, CodeOf, ParamCodeMap

\* So many whole units are as near to m as whole units can be.
Nearest(units, m) == units \in Int /\ 2 * (units * Unit - m) \in -Unit..Unit

\* Rounding is to the nearest whole unit.
LEMMA RoundFacts ==
  ASSUME NEW n \in Int, NEW scale \in Int
  PROVE  Nearest(Round(n, scale), n * scale)
<1> DEFINE m == n * scale
           q == m \div Unit
           r == m % Unit
<1>1. m \in Int
  OBVIOUS
<1>2. q \in Int /\ r \in 0..1999 /\ m = q * 2000 + r
  BY <1>1 DEF Unit
<1>3. Round(n, scale) = IF 2 * r > 2000 \/ (2 * r = 2000 /\ q % 2 = 1) THEN q + 1 ELSE q
  BY DEF Round, Unit
<1> HIDE DEF q, r
<1>4. \/ Round(n, scale) = q /\ 2 * r <= 2000
      \/ Round(n, scale) = q + 1 /\ 2 * r >= 2000
  <2>1. CASE 2 * r > 2000 \/ (2 * r = 2000 /\ q % 2 = 1)
    BY <1>2, <1>3, <2>1
  <2>2. CASE ~(2 * r > 2000 \/ (2 * r = 2000 /\ q % 2 = 1))
    BY <1>2, <1>3, <2>2
  <2>. QED  BY <2>1, <2>2
<1> HIDE DEF m
<1>5. /\ Round(n, scale) \in Int
      /\ 2 * (Round(n, scale) * Unit - m) \in -Unit..Unit
  BY <1>1, <1>2, <1>4 DEF Unit
<1>. QED  BY <1>5 DEF m, Nearest

\* A number within bounds that are multiples of a unit stays within them on the wire.
LEMMA ScaledBounds ==
  ASSUME NEW n \in Int, NEW b \in Int, NEW scale \in {1, 10, 1000}, NEW k \in Int, b * scale = k * Unit
  PROVE  /\ b <= n => b * scale <= Round(n, scale) * Unit
         /\ n <= b => Round(n, scale) * Unit <= b * scale
<1>1. /\ b <= n => b * scale <= n * scale
      /\ n <= b => n * scale <= b * scale
  OBVIOUS
<1> DEFINE R == Round(n, scale)
           m == n * scale
<1>2. Nearest(R, m)
  <2>1. scale \in Int
    OBVIOUS
  <2>. QED  BY <2>1, RoundFacts
<1>3. m \in Int
  OBVIOUS
<1> HIDE DEF R, m
<1>4. /\ k * Unit <= m => k <= R
      /\ m <= k * Unit => R <= k
  BY <1>2, <1>3 DEF Nearest, Unit
<1>5. R \in Int
  BY <1>2 DEF Nearest
<1>. QED  BY <1>1, <1>4, <1>5 DEF Unit, R, m

\* What is made of a number: nothing, or the nearest whole unit, within the bounds.
LEMMA EncodedNumber ==
  ASSUME NEW name \in DOMAIN PARAMETERS, PARAMETERS[name].kind = "number",
         NEW number, number # None /\ number.kind = "number" => number.n \in Int,
         NEW minimum, NEW maximum, NEW spec, spec = PARAMETERS[name],
         EncodeNumber(spec, number, minimum, maximum).error = None
  PROVE  /\ number # None /\ number.kind = "number" /\ number.n \in Int
         /\ EncodeNumber(spec, number, minimum, maximum).raw = Num(Round(number.n, spec.scale))
         /\ ~OutOfRange(number, Bound(minimum, spec.minimum), Bound(maximum, spec.maximum))
BY NoneIsNoNumber DEF EncodeNumber, Encoded, NotEncoded

\* An option goes out as its code, and a code of an option as it is.
LEMMA EncodedOption ==
  ASSUME NEW spec, NEW value, EncodeOption(spec, value).error = None
  PROVE  OptionAsked(spec, value, EncodeOption(spec, value).raw)
BY NoneIsNoNumber DEF EncodeOption, Encoded, NotEncoded, Code, OptionAsked

\* The bounds of the catalogue hold on the wire.
LEMMA CatalogueBounds ==
  ASSUME NEW name \in DOMAIN PARAMETERS, NEW spec, spec = PARAMETERS[name], spec.kind = "number",
         NEW number, number.kind = "number", number.n \in Int, NEW minimum, NEW maximum,
         ~OutOfRange(number, Bound(minimum, spec.minimum), Bound(maximum, spec.maximum))
  PROVE  /\ minimum = None /\ spec.minimum # None =>
              Round(number.n, spec.scale) * Unit >= spec.minimum * spec.scale
         /\ maximum = None /\ spec.maximum # None =>
              Round(number.n, spec.scale) * Unit <= spec.maximum * spec.scale
<1>0. /\ spec.scale \in {1, 10, 1000}
      /\ \A b \in {spec.minimum, spec.maximum} :
           b # None => b \in Int /\ \E k \in Int : b * spec.scale = k * Unit
  BY CatalogueFacts
<1>1. ASSUME minimum = None, spec.minimum # None
      PROVE  Round(number.n, spec.scale) * Unit >= spec.minimum * spec.scale
  <2>1. spec.minimum \in Int /\ \E k \in Int : spec.minimum * spec.scale = k * Unit
    BY <1>0, <1>1
  <2>2. Bound(minimum, spec.minimum) = Num(spec.minimum) /\ Num(spec.minimum) # None
    BY <1>1, NoneIsNoNumber DEF Bound
  <2>3. ~Less(number, Num(spec.minimum))
    BY <2>2 DEF OutOfRange
  <2>4. spec.minimum <= number.n
    BY <2>1, <2>3 DEF Less, Num
  <2>5. PICK k \in Int : spec.minimum * spec.scale = k * Unit
    BY <2>1
  <2>6. spec.minimum * spec.scale <= Round(number.n, spec.scale) * Unit
    BY <1>0, <2>1, <2>4, <2>5, ScaledBounds
  <2>7. spec.minimum * spec.scale \in Int /\ Round(number.n, spec.scale) * Unit \in Int
    <3>1. Round(number.n, spec.scale) \in Int
      <4>1. spec.scale \in Int
        BY <1>0
      <4>. QED  BY <4>1, RoundFacts DEF Nearest
    <3>. QED  BY <1>0, <2>1, <3>1 DEF Unit
  <2>. QED  BY <2>6, <2>7
<1>2. ASSUME maximum = None, spec.maximum # None
      PROVE  Round(number.n, spec.scale) * Unit <= spec.maximum * spec.scale
  <2>1. spec.maximum \in Int /\ \E k \in Int : spec.maximum * spec.scale = k * Unit
    BY <1>0, <1>2
  <2>2. Bound(maximum, spec.maximum) = Num(spec.maximum) /\ Num(spec.maximum) # None
    BY <1>2, NoneIsNoNumber DEF Bound
  <2>3. ~Less(Num(spec.maximum), number)
    BY <2>2 DEF OutOfRange
  <2>4. number.n <= spec.maximum
    BY <2>1, <2>3 DEF Less, Num
  <2>5. PICK k \in Int : spec.maximum * spec.scale = k * Unit
    BY <2>1
  <2>. QED  BY <1>0, <2>1, <2>4, <2>5, ScaledBounds
<1>. QED  BY <1>1, <1>2

-----------------------------------------------------------------------------
(* What is sent is what was asked for. *)

\* A write that goes out carries what the encoder made of its value.
LEMMA BeginWrite ==
  ASSUME ControlInv, Begin, call'.op = "write"
  PROVE  \E w \in Writes, t \in Transports :
            LET encoded == EncodeParameter(w.name, w.value, w.minimum, w.maximum)
            IN  encoded.error = None /\ call' = Wire(w, t, encoded.raw)
<1>1. call' # NoCall
  BY NoneIsNoOperation DEF NoCall, Operations
<1>2. ASSUME NEW how, pc = "idle", EndWith(how)  PROVE FALSE
  BY <1>1, <1>2 DEF EndWith, progress, ControlInv
<1>3. ~StartCheck /\ ~StartReadAll /\ ~StartReadList
  BY DEF StartCheck, StartReadAll, StartReadList, Start
<1>4. ~StartUserCall /\ ~StartPlantCall
  BY <1>2 DEF StartUserCall, StartPlantCall, StartRequest, Start, Raise
<1>5. ~StartRealtime
  BY <1>2 DEF StartRealtime, Raise, Return
<1>6. StartWrite
  BY <1>3, <1>4, <1>5 DEF Begin
<1>. QED  BY <1>2, <1>6 DEF StartWrite, Start, Raise

\* And that is what was asked for.
LEMMA WireAsAsked ==
  ASSUME NEW w \in Writes, NEW t \in Transports, NEW raw,
         EncodeParameter(w.name, w.value, w.minimum, w.maximum).error = None,
         raw = EncodeParameter(w.name, w.value, w.minimum, w.maximum).raw,
         call' = Wire(w, t, raw)
  PROVE  SentAsAsked'
<1>1. call'.asked = w /\ call'.code = CodeOf(w.name) /\ call'.raw = raw
  BY DEF Wire
<1>0. CASE w.name \notin DOMAIN PARAMETERS
  BY <1>0, <1>1 DEF SentAsAsked, CodeOf, EncodeParameter, Encoded
<1> SUFFICES ASSUME w.name \in DOMAIN PARAMETERS, NEW spec, spec = PARAMETERS[w.name]
    PROVE  /\ call'.code = spec.code
           /\ IF spec.kind = "enum" THEN OptionAsked(spec, w.value, raw) ELSE NumberAsked(spec, w, raw)
  BY <1>0, <1>1 DEF SentAsAsked
<1>2. call'.code = spec.code
  BY <1>1, CodesAgree
<1>3. CASE spec.kind = "enum"
  BY <1>2, <1>3, EncodedOption DEF EncodeParameter
<1>4. CASE spec.kind # "enum"
  <2>1. spec.kind = "number" /\ spec.scale \in Int
    BY <1>4, CatalogueFacts
  <2>2. /\ EncodeNumber(spec, w.value.number, w.minimum, w.maximum).error = None
        /\ raw = EncodeNumber(spec, w.value.number, w.minimum, w.maximum).raw
    BY <1>4 DEF EncodeParameter
  <2>3. /\ w.value.number.kind = "number" /\ w.value.number.n \in Int
        /\ raw = Num(Round(w.value.number.n, spec.scale))
        /\ ~OutOfRange(w.value.number, Bound(w.minimum, spec.minimum), Bound(w.maximum, spec.maximum))
    BY <2>1, <2>2, EncodedNumber, ConstantsAssumption
  <2>4. raw.n = Round(w.value.number.n, spec.scale)
    BY <2>3 DEF Num
  <2>5. 2 * (raw.n * Unit - w.value.number.n * spec.scale) \in -Unit..Unit
    <3>1. Nearest(Round(w.value.number.n, spec.scale), w.value.number.n * spec.scale)
      BY <2>1, <2>3, RoundFacts
    <3>. QED  BY <2>4, <3>1 DEF Nearest
  <2>6. /\ w.minimum = None /\ spec.minimum # None => raw.n * Unit >= spec.minimum * spec.scale
        /\ w.maximum = None /\ spec.maximum # None => raw.n * Unit <= spec.maximum * spec.scale
    BY <2>1, <2>3, <2>4, CatalogueBounds
  <2>. QED  BY <1>2, <1>4, <2>3, <2>5, <2>6 DEF NumberAsked
<1>. QED  BY <1>3, <1>4

\* For any value and any bounds of the caller: what a write sends is the code the
\* catalogue has for the parameter, and the option asked for or the whole unit nearest
\* to the value, within the bounds in force, those of the catalogue included; of a
\* parameter that is not in the catalogue, the value as it is.
THEOREM WritesAsAsked == Spec => []SentAsAsked
<1>1. Init => SentAsAsked
  BY NoneIsNoOperation DEF Init, SentAsAsked, NoCall, Operations
<1>2. ControlInv /\ SentAsAsked /\ [Next]_vars => SentAsAsked'
  <2>1. ASSUME SentAsAsked, call' = call  PROVE SentAsAsked'
    BY <2>1 DEF SentAsAsked
  <2>2. ASSUME ControlInv, Begin  PROVE SentAsAsked'
    <3>1. CASE call'.op = "write"
      BY <2>2, <3>1, BeginWrite, WireAsAsked
    <3>2. CASE call'.op # "write"
      BY <3>2 DEF SentAsAsked
    <3>. QED  BY <3>1, <3>2
  <2>. QED  BY <2>1, <2>2, StepControl DEF Next, vars
<1>. QED  BY <1>1, <1>2, Controlled, PTL DEF Spec

-----------------------------------------------------------------------------
(* What is reported reaches the caller.  The strengthening says where the rows are *)
(* while the call is under way.                                                    *)

\* The chunks asked for and those still to be asked for make up the whole list.
SplitPoints(k) == tried = SubSeq(PointChunks, 1, k) /\ todo = SubSeq(PointChunks, k + 1, Len(PointChunks))

DataInv ==
    /\ pc = "idle" => rows = <<>> /\ reported = <<>>
    /\ Running /\ call.op = "read_all" =>
        rows = reported /\ (bulk_err = None => reported = <<>> /\ reading = AllCodes)
    /\ Running /\ call.op = "realtime" =>
        /\ rows = reported /\ reported \o reading = tried
        /\ \E k \in 0..Len(PointChunks) : SplitPoints(k)
    /\ AnswersReachCaller

\* The rows of a task are a sequence of codes it was asked for.
LEMMA AnswerFacts ==
  ASSUME NEW S, reading \in Seq(S), NEW got \in Answers
  PROVE  got \in Seq(S) /\ ToSet(got) \subseteq ToSet(reading)
<1>1. PICK n \in 0..Len(reading) : \E at \in Places(n) : got = [i \in 1..n |-> reading[at[i]]]
  BY DEF Answers
<1>2. PICK at \in Places(n) : got = [i \in 1..n |-> reading[at[i]]]
  BY <1>1
<1>3. n \in Nat /\ at \in [1..n -> 1..Len(reading)] /\ Len(reading) \in Nat
  BY <1>2 DEF Places
<1>4. \A i \in 1..n : reading[at[i]] \in S /\ at[i] \in DOMAIN reading
  BY <1>3
<1>5. got \in Seq(S) /\ DOMAIN got = 1..n
  BY <1>2, <1>3, <1>4
<1>. QED  BY <1>2, <1>4, <1>5 DEF ToSet

\* The next of the single reads, or the end after the last.
LEMMA NextReadData ==
  ASSUME call.op = "read_all", NEW got, NEW left, NEW err, err # None,
         NextRead(got, left, err), got = reported'
  PROVE  DataInv'
<1>1. CASE left = <<>>
  <2>1. pc' = "done" /\ call' = call /\ bulk_err' = err
        /\ outcome' = IF got = <<>> THEN [error |-> err, result |-> None] ELSE [error |-> None, result |-> got]
    BY <1>1 DEF NextRead
  <2>. QED  BY <2>1 DEF DataInv, Running, AnswersReachCaller
<1>2. CASE left # <<>>
  <2>1. pc' = "token" /\ call' = call /\ bulk_err' = err /\ rows' = got
    BY <1>2 DEF NextRead, Exchange
  <2>. QED  BY <2>1 DEF DataInv, Running, AnswersReachCaller
<1>. QED  BY <1>1, <1>2

\* What the server refuses: the next code, or the end.
LEMMA FailsData ==
  ASSUME DataInv, Running, NEW error \in LibraryErrors \cup {"other"}, Fails(error), UNCHANGED reported
  PROVE  DataInv'
<1>1. error # None
  BY NoneIsNoText
<1>2. CASE Falls(error) /\ bulk_err = None /\ NextRead(<<>>, AllCodes, error)
  BY <1>1, <1>2, NextReadData DEF DataInv, Falls
<1>3. CASE Falls(error) /\ bulk_err # None /\ NextRead(rows, todo, bulk_err)
  BY <1>3, NextReadData DEF DataInv, Falls
<1>4. CASE ~Falls(error) /\ Raise(error)
  <2>1. pc' = "done" /\ call' = call /\ outcome'.error = error
    BY <1>4 DEF Raise, EndWith, progress
  <2>. QED  BY <1>1, <1>4, <2>1 DEF Falls, DataInv, Running, AnswersReachCaller
<1>. QED  BY <1>2, <1>3, <1>4 DEF Fails

\* What a task gives is added to the rows, or is the result.
LEMMA GivesData ==
  ASSUME ControlInv, DataInv, Running, call.op # "realtime", NEW got \in Answers, Gives(got),
         reported' = reported \o got
  PROVE  DataInv'
<1>1. CASE bulk_err # None /\ NextRead(rows \o got, todo, bulk_err)
  <2>1. call.op = "read_all" /\ rows = reported
    BY <1>1 DEF ControlInv, DataInv
  <2>. QED  BY <1>1, <2>1, NextReadData
<1>2. CASE bulk_err = None /\ Return(got)
  <2>1. pc' = "done" /\ call' = call /\ outcome'.error = None /\ outcome'.result = got
    BY <1>2 DEF Return, EndWith, progress
  <2>2. CASE call.op = "read_all"
    <3>1. reported = <<>> /\ reading = AllCodes
      BY <1>2, <2>2 DEF DataInv
    <3>2. got \in Seq(STRING)
      BY <3>1, AnswerFacts, ConstantsAssumption
    <3>3. reported' = got
      BY <3>1, <3>2
    <3>. QED  BY <2>1, <2>2, <3>3 DEF DataInv, Running, AnswersReachCaller
  <2>3. CASE call.op # "read_all"
    BY <2>1, <2>3 DEF DataInv, Running, AnswersReachCaller
  <2>. QED  BY <2>2, <2>3
<1>. QED  BY <1>1, <1>2 DEF Gives

\* A chunk of points: one more of them is in, or all of them are.
LEMMA ChunkData ==
  ASSUME ControlInv, DataInv, Running, NEW e \in Envelopes, NEW r \in BOOLEAN, ChunkAnswered(e, r)
  PROVE  DataInv'
<1>1. call.op = "realtime" /\ rows = reported /\ reported \o reading = tried
  BY DEF ChunkAnswered, ControlInv, Purpose, DataInv
<1>2. PICK k \in 0..Len(PointChunks) : SplitPoints(k)
  BY <1>1 DEF DataInv
<1>3. PointChunks \in Seq(STRING)
  BY ConstantsAssumption
<1>4. /\ todo = <<>> => tried = PointChunks
      /\ todo # <<>> => /\ k + 1 \in 0..Len(PointChunks)
                        /\ Append(tried, Head(todo)) = SubSeq(PointChunks, 1, k + 1)
                        /\ Tail(todo) = SubSeq(PointChunks, (k + 1) + 1, Len(PointChunks))
  BY <1>2, <1>3, MoveOne DEF SplitPoints
<1>5. CASE Raise("other")
  <2>1. pc' = "done" /\ call' = call /\ outcome'.error = "other"
    BY <1>5 DEF Raise, EndWith, progress
  <2>. QED  BY <1>1, <2>1, NoneIsNoText DEF DataInv, Running, AnswersReachCaller
<1>6. CASE todo = <<>> /\ Return(rows \o reading) /\ reported' = reported \o reading /\ UNCHANGED tried
  <2>1. pc' = "done" /\ call' = call /\ outcome'.result = rows \o reading
    BY <1>6 DEF Return, EndWith, progress
  <2>. QED  BY <1>1, <1>4, <1>6, <2>1 DEF DataInv, Running, AnswersReachCaller
<1>7. CASE /\ todo # <<>> /\ Exchange("chunk")
           /\ rows' = rows \o reading /\ reported' = reported \o reading
           /\ reading' = <<Head(todo)>> /\ todo' = Tail(todo) /\ tried' = Append(tried, Head(todo))
           /\ UNCHANGED <<call, polls, bulk_err>>
  <2>1. tried \in Seq(STRING)
    BY <1>2, <1>3 DEF SplitPoints
  <2>2. todo \in Seq(STRING) /\ Head(todo) \in STRING
    <3>1. todo \in Seq(STRING)
      BY <1>2, <1>3 DEF SplitPoints
    <3>. QED  BY <1>7, <3>1
  <2>3. reported' \o reading' = tried' /\ rows' = reported'
    BY <1>1, <1>7, <2>1, <2>2
  <2>4. SplitPoints(k + 1)' /\ k + 1 \in 0..Len(PointChunks)
    BY <1>4, <1>7 DEF SplitPoints
  <2>5. pc' = "token" /\ call' = call
    BY <1>7 DEF Exchange
  <2>. QED  BY <1>1, <2>3, <2>4, <2>5 DEF DataInv, Running, AnswersReachCaller
<1>. QED  BY <1>5, <1>6, <1>7 DEF ChunkAnswered

\* Whatever is made of a reply, nothing reported is left out.
LEMMA ProcessData ==
  ASSUME ControlInv, DataInv, pc = "post", NEW e \in Envelopes, Process(e)
  PROVE  DataInv'
<1> USE DEF Running
<1>1. ASSUME NEW how, call.op \notin {"read_all", "realtime"}, EndWith(how)  PROVE DataInv'
  BY <1>1 DEF EndWith, progress, DataInv, AnswersReachCaller
<1>2. ASSUME call.op # "realtime", Exchange("poll"), UNCHANGED <<call, reading, rows, bulk_err, reported>>
      PROVE  DataInv'
  BY <1>2 DEF Exchange, DataInv, AnswersReachCaller
<1>3. CASE RequestRaises(e)
  BY <1>3, Classified, FailsData DEF RequestRaises
<1>4. CASE PlatformRaises(e)
  <2>1. PlatformError(e) # None /\ Raise(PlatformError(e)) /\ call.op \in {"plant_call", "realtime"}
    BY <1>4 DEF PlatformRaises
  <2>2. pc' = "done" /\ call' = call /\ outcome'.error # None
    BY <2>1 DEF Raise, EndWith, progress
  <2>. QED  BY <2>1, <2>2 DEF DataInv, AnswersReachCaller
<1>5. ASSUME NEW r \in BOOLEAN, ChunkAnswered(e, r)  PROVE DataInv'
  BY <1>5, ChunkData
<1>6. ASSUME NEW p \in SupportPayloads, CheckAnswered(e, p)  PROVE DataInv'
  BY <1>6, <1>1 DEF CheckAnswered, Raise, Return, ControlInv, Purpose
<1>7. ASSUME NEW p \in SubmitPayloads, SubmitAnswered(e, p)  PROVE DataInv'
  <2>1. CheckEnvelope(e, Required) \in LibraryErrors \cup {None}
    BY Classified DEF CheckEnvelope, LibraryErrors
  <2>2. CheckParamReply(e, p, Required) \in LibraryErrors \cup {None}
    BY <2>1 DEF CheckParamReply, LibraryErrors
  <2>3. call.op # "realtime"
    BY <1>7 DEF SubmitAnswered, ControlInv, Purpose
  <2>. QED  BY <2>2, <2>3, <1>7, <1>2, FailsData DEF SubmitAnswered
<1>8. CASE StillRunning(e)
  <2>1. call.op # "realtime"
    BY <1>8 DEF StillRunning, ControlInv, Purpose
  <2>. QED  BY <2>1, <1>8, <1>2, FailsData DEF StillRunning, LibraryErrors
<1>9. ASSUME NEW s \in TaskStatuses, TaskFails(e, s)  PROVE DataInv'
  BY <1>9, FailsData DEF TaskFails
<1>10. ASSUME NEW got \in Answers, NEW f \in RowFaults, TaskDone(e, got, f)  PROVE DataInv'
  <2>1. call.op # "realtime"
    BY <1>10 DEF TaskDone, ControlInv, Purpose
  <2>. QED  BY <2>1, <1>10, FailsData, GivesData DEF TaskDone
<1>11. ASSUME NEW d \in ResultData, RequestAnswered(e, d)  PROVE DataInv'
  BY <1>11, <1>1 DEF RequestAnswered, ControlInv, Purpose
<1>. QED  BY <1>3, <1>4, <1>5, <1>6, <1>7, <1>8, <1>9, <1>10, <1>11 DEF Process

\* Nor is it when a token or a reply fails to come.
LEMMA StepData ==
  ASSUME ControlInv, DataInv, Step
  PROVE  DataInv'
<1>1. Running
  BY StepControl
<1>2. ASSUME pc' \in {"token", "post"}, UNCHANGED <<call, reading, todo, rows, bulk_err, reported, tried>>
      PROVE  DataInv'
  BY <1>1, <1>2 DEF DataInv, AnswersReachCaller, Running, SplitPoints
<1>3. CASE TokenReady
  BY <1>2, <1>3 DEF TokenReady, progress, history
<1>4. CASE TokenFails
  <2>1. \E error \in LibraryErrors \cup {"other"} : Fails(error)
    BY <1>1, <1>4, TokenFailures DEF ControlInv
  <2>2. UNCHANGED reported
    BY <1>4 DEF TokenFails
  <2>. QED  BY <1>1, <2>1, <2>2, FailsData
<1>5. CASE ReplyLost
  BY <1>1, <1>5, FailsData DEF ReplyLost, LibraryErrors
<1>6. CASE ReplyArrives
  <2>1. PICK e \in Envelopes : LoginAgain(e) \/ Process(e)
    BY <1>6 DEF ReplyArrives
  <2>2. CASE LoginAgain(e)
    BY <1>2, <2>2 DEF LoginAgain, history
  <2>. QED  BY <1>6, <2>1, <2>2, ProcessData DEF ReplyArrives
<1>. QED  BY <1>3, <1>4, <1>5, <1>6 DEF Step

\* A call begins with nothing reported.
LEMMA BeginData ==
  ASSUME ControlInv, DataInv, Begin
  PROVE  DataInv'
<1>1. pc = "idle" /\ bulk_err = None /\ rows = <<>> /\ reported = <<>>
  BY BeginEffect DEF ControlInv, DataInv
<1>2. CASE pc' = "done"
  <2>1. call'.op \notin {"read_all", "realtime"}
    BY <1>2, BeginEffect, NoneIsNoOperation DEF NoCall, Operations
  <2>. QED  BY <1>2, <2>1 DEF DataInv, Running, AnswersReachCaller
<1>3. ASSUME NEW c, NEW first, Start(c, first), c.op # "realtime",
             c.op = "read_all" => reading' = AllCodes
      PROVE  DataInv'
  BY <1>1, <1>3 DEF Start, Exchange, history, DataInv, Running, AnswersReachCaller
<1>4. CASE StartRealtime /\ pc' # "done"
  <2>1. /\ call'.op = "realtime" /\ Exchange("chunk")
        /\ reading' = <<Head(PointChunks)>> /\ todo' = Tail(PointChunks)
        /\ tried' = <<Head(PointChunks)>> /\ UNCHANGED <<rows, reported>>
    BY <1>4 DEF StartRealtime, Raise, Return, EndWith
  <2>2. PointChunks \in Seq(STRING) /\ PointChunks # <<>>
    BY ConstantsAssumption
  <2>3. /\ Len(PointChunks) \in Nat /\ 1 \in 0..Len(PointChunks)
        /\ <<Head(PointChunks)>> = SubSeq(PointChunks, 1, 1)
        /\ Tail(PointChunks) = SubSeq(PointChunks, 1 + 1, Len(PointChunks))
    BY <2>2
  <2>4. SplitPoints(1)'
    BY <2>1, <2>3 DEF SplitPoints
  <2>5. rows' = reported' /\ reported' \o reading' = tried'
    BY <1>1, <2>1, <2>2
  <2>6. pc' = "token"
    BY <2>1 DEF Exchange
  <2>. QED  BY <2>1, <2>3, <2>4, <2>5, <2>6 DEF DataInv, Running, AnswersReachCaller
<1>5. CASE StartCheck \/ StartReadAll \/ StartReadList
  BY <1>5, <1>3 DEF StartCheck, StartReadAll, StartReadList
<1>6. CASE StartWrite /\ pc' # "done"
  BY <1>6, <1>3 DEF StartWrite, Wire, Raise, EndWith
<1>7. CASE (StartUserCall \/ StartPlantCall) /\ pc' # "done"
  BY <1>7, <1>3 DEF StartUserCall, StartPlantCall, StartRequest, Raise, EndWith
<1>. QED  BY <1>2, <1>4, <1>5, <1>6, <1>7 DEF Begin

\* For any list of codes and any chunks of points: what the server reported is what
\* the caller of a read of all parameters or of the realtime data gets, once and in
\* order, unless it gets an exception that ends such a call.
THEOREM NothingReportedIsLost == Spec => []AnswersReachCaller
<1>1. Init => DataInv
  BY NoneIsNoOperation DEF Init, DataInv, AnswersReachCaller, Running, NoCall, Operations
<1>2. ControlInv /\ DataInv /\ [Next]_vars => DataInv'
  <2>1. ASSUME DataInv, UNCHANGED vars  PROVE DataInv'
    BY <2>1 DEF vars, history, DataInv, AnswersReachCaller, Running, SplitPoints
  <2>. QED  BY <2>1, BeginData, StepData DEF Next
<1>3. DataInv => AnswersReachCaller
  BY DEF DataInv
<1>. QED  BY <1>1, <1>2, <1>3, Controlled, PTL DEF Spec

-----------------------------------------------------------------------------
(* Types.  The strengthening is that what is asked for and what is collected are   *)
(* sequences of codes or chunks, and that a request is one of those there are.     *)

Items == ToSet(AllCodes) \cup ToSet(PointChunks)
BulkErrors == {"PySolarCloudException", "DeviceNotWritableError"}
OutcomeErrors == LibraryErrors \cup {None, "ValueError", "OverflowError", "other"}

TypedCall ==
    /\ call.op \in Operations \cup {None} /\ call.transport \in Transports \cup {None}
    /\ call.op = "user_call" => call.name \in DOMAIN UserCalls
    /\ call.op = "plant_call" => call.name \in DOMAIN PlatformCalls

TypedPlace ==
    /\ stage \in {None, "check", "submit", "poll", "request", "chunk"}
    /\ attempt \in {1, 2} /\ polls \in 0..MaxPolls

TypedData ==
    /\ reading \in Seq(Items) /\ todo \in Seq(Items) /\ rows \in Seq(Items)
    /\ bulk_err \in BulkErrors \cup {None}

TypedEnd ==
    /\ pc \in {"idle", "token", "post", "done"}
    /\ outcome.error \in OutcomeErrors
    /\ pc = "done" <=> outcome # Unanswered

TypedHistory == reported \in Seq(Items) /\ executed \in Nat

TypeInv == TypedCall /\ TypedPlace /\ TypedData /\ TypedEnd /\ TypedHistory

\* Both lists are sequences of items, and none of them is taken for None.
LEMMA ItemFacts ==
  /\ AllCodes \in Seq(Items) /\ PointChunks \in Seq(Items) /\ AllCodes # <<>> /\ PointChunks # <<>>
  /\ \A s \in Seq(Items) : s # None
<1>1. AllCodes \in Seq(STRING) /\ PointChunks \in Seq(STRING) /\ AllCodes # <<>> /\ PointChunks # <<>>
  BY ConstantsAssumption
<1>2. AllCodes \in Seq(Items) /\ PointChunks \in Seq(Items)
  BY <1>1 DEF Items, ToSet
<1>3. \A x \in Items : x \in STRING
  BY <1>1 DEF Items, ToSet
<1>4. ASSUME NEW s \in Seq(Items)  PROVE s # None
  <2>1. s \in Seq(STRING)
    BY <1>3
  <2>. QED  BY <2>1, NoneIsNoResult
<1>. QED  BY <1>1, <1>2, <1>4

\* The parts of the type make up the type invariant.
LEMMA TypesMatch == TypeInv => TypeOK
BY DEF TypeInv, TypedCall, TypedPlace, TypedData, TypedEnd, TypedHistory, TypeOK, Items, BulkErrors,
       OutcomeErrors, ToSet

\* The end of a call, by an exception or with a result.
LEMMA EndTyped ==
  ASSUME TypeInv, NEW how, EndWith(how), how.error \in OutcomeErrors, how # Unanswered, TypedHistory'
  PROVE  TypeInv'
BY DEF EndWith, progress, TypeInv, TypedCall, TypedPlace, TypedData, TypedEnd

LEMMA RaiseTyped ==
  ASSUME TypeInv, NEW error \in OutcomeErrors \ {None}, Raise(error), TypedHistory'
  PROVE  TypeInv'
BY EndTyped DEF Raise, Unanswered

LEMMA ReturnTyped ==
  ASSUME TypeInv, NEW result, result # None, Return(result), TypedHistory'
  PROVE  TypeInv'
BY EndTyped DEF Return, Unanswered, OutcomeErrors

\* The next exchange of a call.
LEMMA ExchangeTyped ==
  ASSUME TypeInv, pc # "done", NEW next \in {"check", "submit", "poll", "request", "chunk"}, Exchange(next),
         polls' \in 0..MaxPolls, TypedCall', TypedData', TypedHistory'
  PROVE  TypeInv'
BY DEF Exchange, TypeInv, TypedPlace, TypedEnd

\* One element is taken from what is left.
LEMMA TakeTyped ==
  ASSUME NEW left \in Seq(Items), left # <<>>
  PROVE  <<Head(left)>> \in Seq(Items) /\ Tail(left) \in Seq(Items)
OBVIOUS

\* The next single read, or the end after the last.
LEMMA NextReadTyped ==
  ASSUME TypeInv, Running, NEW got \in Seq(Items), NEW left \in Seq(Items), NEW err \in BulkErrors,
         NextRead(got, left, err), TypedHistory'
  PROVE  TypeInv'
<1>1. CASE left = <<>>
  <2>1. err # None /\ err \in OutcomeErrors /\ got # None
    BY ItemFacts, NoneIsNoText DEF BulkErrors, OutcomeErrors, LibraryErrors
  <2>2. /\ pc' = "done" /\ UNCHANGED <<call, stage, attempt, polls, reading, todo>>
        /\ rows' = got /\ bulk_err' = err
        /\ outcome' = IF got = <<>> THEN [error |-> err, result |-> None] ELSE [error |-> None, result |-> got]
    BY <1>1 DEF NextRead
  <2>3. outcome'.error \in OutcomeErrors /\ outcome' # Unanswered
    BY <2>1, <2>2 DEF Unanswered, OutcomeErrors
  <2>4. TypedEnd'
    BY <2>2, <2>3 DEF TypedEnd, Unanswered
  <2>5. TypedCall'
    BY <2>2 DEF TypeInv, TypedCall
  <2>6. TypedPlace'
    BY <2>2 DEF TypeInv, TypedPlace
  <2>7. TypedData'
    BY <2>2 DEF TypeInv, TypedData
  <2>. QED  BY <2>4, <2>5, <2>6, <2>7 DEF TypeInv
<1>2. CASE left # <<>>
  <2>1. /\ rows' = got /\ bulk_err' = err /\ Exchange("submit") /\ call' = call
        /\ reading' = <<Head(left)>> /\ todo' = Tail(left) /\ polls' = 0
    BY <1>2 DEF NextRead
  <2>2. TypedCall'
    BY <2>1 DEF TypeInv, TypedCall
  <2>3. TypedData'
    BY <1>2, <2>1, TakeTyped DEF TypedData
  <2>4. polls' \in 0..MaxPolls
    BY <2>1, ConstantsAssumption
  <2>. QED  BY <2>1, <2>2, <2>3, <2>4, ExchangeTyped DEF Running
<1>. QED  BY <1>1, <1>2

\* What goes on, or raises, after an exception.
LEMMA FailsTyped ==
  ASSUME TypeInv, Running, NEW error \in LibraryErrors \cup {"other"}, Fails(error), TypedHistory'
  PROVE  TypeInv'
<1>1. error \in OutcomeErrors \ {None}
  BY NoneIsNoText DEF OutcomeErrors
<1>2. CASE Falls(error) /\ bulk_err = None /\ NextRead(<<>>, AllCodes, error)
  <2>1. error \in BulkErrors /\ <<>> \in Seq(Items)
    BY <1>2 DEF Falls, LibraryErrors, FatalErrors, BulkErrors
  <2>. QED  BY <1>2, <2>1, ItemFacts, NextReadTyped
<1>3. CASE Falls(error) /\ bulk_err # None /\ NextRead(rows, todo, bulk_err)
  BY <1>3, NextReadTyped DEF TypeInv, TypedData
<1>4. CASE ~Falls(error) /\ Raise(error)
  BY <1>1, <1>4, RaiseTyped
<1>. QED  BY <1>2, <1>3, <1>4 DEF Fails

\* What comes in is kept or returned.
LEMMA GivesTyped ==
  ASSUME TypeInv, Running, NEW got \in Answers, Gives(got), TypedHistory'
  PROVE  TypeInv'
<1>1. got \in Seq(Items)
  BY AnswerFacts DEF TypeInv, TypedData
<1>2. CASE bulk_err # None /\ NextRead(rows \o got, todo, bulk_err)
  <2>1. rows \o got \in Seq(Items) /\ todo \in Seq(Items) /\ bulk_err \in BulkErrors
    BY <1>1, <1>2 DEF TypeInv, TypedData
  <2>. QED  BY <1>2, <2>1, NextReadTyped
<1>3. CASE bulk_err = None /\ Return(got)
  BY <1>1, <1>3, ItemFacts, ReturnTyped
<1>. QED  BY <1>2, <1>3 DEF Gives

\* What is reported and carried out.
LEMMA HistoryTyped ==
  ASSUME TypeInv, executed' \in {executed, executed + 1},
         \/ UNCHANGED reported
         \/ \E got \in Seq(Items) : reported' = reported \o got
  PROVE  TypedHistory'
<1>1. executed' \in Nat
  BY DEF TypeInv, TypedHistory
<1>2. reported' \in Seq(Items)
  <2>1. \A r, got \in Seq(Items) : r \o got \in Seq(Items)
    OBVIOUS
  <2>. QED  BY <2>1 DEF TypeInv, TypedHistory
<1>. QED  BY <1>1, <1>2 DEF TypedHistory

\* A chunk of points is kept, and the next one asked for.
LEMMA ChunkTyped ==
  ASSUME TypeInv, Running, NEW e \in Envelopes, NEW r \in BOOLEAN, ChunkAnswered(e, r)
  PROVE  TypeInv'
<1>1. reading \in Seq(Items) /\ rows \in Seq(Items) /\ todo \in Seq(Items)
  BY DEF TypeInv, TypedData
<1>2. TypedHistory'
  BY <1>1, HistoryTyped DEF ChunkAnswered, history
<1>3. CASE Raise("other")
  <2>1. "other" \in OutcomeErrors \ {None}
    BY NoneIsNoText DEF OutcomeErrors
  <2>. QED  BY <1>2, <1>3, <2>1, RaiseTyped
<1>4. CASE Return(rows \o reading)
  <2>1. rows \o reading \in Seq(Items)
    BY <1>1
  <2>. QED  BY <1>2, <1>4, <2>1, ItemFacts, ReturnTyped
<1>5. CASE /\ todo # <<>> /\ Exchange("chunk") /\ rows' = rows \o reading
           /\ reading' = <<Head(todo)>> /\ todo' = Tail(todo)
           /\ UNCHANGED <<call, polls, bulk_err>>
  <2>1. TypedCall' /\ polls' \in 0..MaxPolls
    BY <1>5 DEF TypeInv, TypedCall, TypedPlace
  <2>2. rows \o reading \in Seq(Items)
    BY <1>1
  <2>3. TypedData'
    BY <1>1, <1>5, <2>2, TakeTyped DEF TypeInv, TypedData
  <2>. QED  BY <1>2, <1>5, <2>1, <2>3, ExchangeTyped DEF Running
<1>. QED  BY <1>3, <1>4, <1>5 DEF ChunkAnswered

\* A single request returns what it made of the data, or raises if it can make
\* nothing of it.
LEMMA RequestTyped ==
  ASSUME ControlInv, TypeInv, Running, NEW e \in Envelopes, NEW d \in ResultData, RequestAnswered(e, d)
  PROVE  TypeInv'
<1>1. TypedHistory'
  BY HistoryTyped DEF RequestAnswered, Executes, history
<1>2. \/ call.op = "user_call" /\ call.name \in DOMAIN UserCalls
      \/ call.op = "plant_call" /\ call.name \in DOMAIN PlatformCalls
  BY DEF RequestAnswered, ControlInv, Purpose, TypeInv, TypedCall
<1> DEFINE endpoint == IF call.op = "user_call" THEN UserCalls[call.name] ELSE PlatformCalls[call.name]
           result == Extract(endpoint.shape, d)
           how == [error |-> IF result = None THEN "other" ELSE None,
                   result |-> [data |-> d, made |-> result]]
<1>3. EndWith(how)
  BY DEF RequestAnswered
<1>4. [data |-> d, made |-> result] # None
  BY <1>2, NoneIsNoResult
<1>5. how.error \in OutcomeErrors
  BY DEF OutcomeErrors
<1>6. how # Unanswered
  BY <1>4 DEF Unanswered
<1> HIDE DEF how
<1>. QED  BY <1>1, <1>3, <1>5, <1>6, EndTyped

\* What is made of a reply.
LEMMA ProcessTyped ==
  ASSUME ControlInv, TypeInv, pc = "post", NEW e \in Envelopes, Process(e)
  PROVE  TypeInv'
<1> USE DEF Running
<1>1. ASSUME executed' \in {executed, executed + 1}, UNCHANGED reported  PROVE TypedHistory'
  BY <1>1, HistoryTyped
<1>2. \A error \in LibraryErrors \cup {"other"} : error \in OutcomeErrors \ {None}
  BY NoneIsNoText DEF OutcomeErrors
<1>3. CASE RequestRaises(e)
  BY <1>3, <1>1, Classified, FailsTyped DEF RequestRaises
<1>4. CASE PlatformRaises(e)
  <2>1. PlatformError(e) \in LibraryErrors
    BY <1>4, Classified DEF PlatformRaises, PlatformError
  <2>2. TypedHistory'
    BY <1>1, <1>4 DEF PlatformRaises, history
  <2>. QED  BY <1>2, <1>4, <2>1, <2>2, RaiseTyped DEF PlatformRaises
<1>5. ASSUME NEW r \in BOOLEAN, ChunkAnswered(e, r)  PROVE TypeInv'
  BY <1>5, ChunkTyped
<1>6. CheckEnvelope(e, Required) \in LibraryErrors \cup {None}
  BY Classified DEF CheckEnvelope, LibraryErrors
<1>7. ASSUME NEW p \in SupportPayloads, CheckAnswered(e, p)  PROVE TypeInv'
  <2>1. TypedHistory'
    BY <1>1, <1>7 DEF CheckAnswered, history
  <2>2. CASE CheckEnvelope(e, Required) # None
    BY <1>2, <1>6, <1>7, <2>1, <2>2, RaiseTyped DEF CheckAnswered
  <2>3. CASE CheckEnvelope(e, Required) = None
    <3>1. Return(CheckSupportReply(p))
      BY <1>7, <2>3 DEF CheckAnswered
    <3>2. CheckSupportReply(p) \in BOOLEAN
      BY DEF CheckSupportReply
    <3>3. CheckSupportReply(p) # None
      BY <3>2, NoneIsNoResult
    <3>. QED  BY <2>1, <3>1, <3>3, ReturnTyped
  <2>. QED  BY <2>2, <2>3
<1>8. ASSUME Exchange("poll"), polls' \in 0..MaxPolls, UNCHANGED <<call, reading, todo, rows, bulk_err>>,
             TypedHistory'
      PROVE  TypeInv'
  <2>1. TypedCall'
    BY <1>8 DEF TypeInv, TypedCall
  <2>2. TypedData'
    BY <1>8 DEF TypeInv, TypedData
  <2>. QED  BY <1>8, <2>1, <2>2, ExchangeTyped
<1>9. ASSUME NEW p \in SubmitPayloads, SubmitAnswered(e, p)  PROVE TypeInv'
  <2>1. CheckParamReply(e, p, Required) \in LibraryErrors \cup {None}
    BY <1>6 DEF CheckParamReply, LibraryErrors
  <2>2. TypedHistory'
    BY <1>1, <1>9 DEF SubmitAnswered, Executes
  <2>3. CASE Fails(CheckParamReply(e, p, Required)) /\ CheckParamReply(e, p, Required) # None
    BY <2>1, <2>2, <2>3, FailsTyped
  <2>4. CASE Exchange("poll") /\ polls' = 0 /\ UNCHANGED <<call, reading, todo, rows, bulk_err, tried>>
    BY <2>2, <2>4, <1>8, ConstantsAssumption
  <2>. QED  BY <1>9, <2>3, <2>4 DEF SubmitAnswered
<1>10. CASE StillRunning(e)
  <2>1. TypedHistory'
    BY <1>1, <1>10 DEF StillRunning
  <2>2. polls < MaxPolls - 1 /\ polls' = polls + 1 => polls' \in 0..MaxPolls
    BY ConstantsAssumption DEF TypeInv, TypedPlace
  <2>. QED  BY <1>10, <2>1, <2>2, <1>8, FailsTyped DEF StillRunning, LibraryErrors
<1>11. ASSUME NEW s \in TaskStatuses, TaskFails(e, s)  PROVE TypeInv'
  BY <1>1, <1>11, FailsTyped DEF TaskFails
<1>12. ASSUME NEW got \in Answers, NEW f \in RowFaults, TaskDone(e, got, f)  PROVE TypeInv'
  <2>1. got \in Seq(Items)
    BY AnswerFacts DEF TypeInv, TypedData
  <2>2. TypedHistory'
    BY <1>12, <2>1, HistoryTyped DEF TaskDone
  <2>. QED  BY <1>12, <2>2, FailsTyped, GivesTyped DEF TaskDone
<1>13. ASSUME NEW d \in ResultData, RequestAnswered(e, d)  PROVE TypeInv'
  BY <1>13, RequestTyped
<1>. QED  BY <1>3, <1>4, <1>5, <1>7, <1>9, <1>10, <1>11, <1>12, <1>13 DEF Process

\* The steps of a call under way.
LEMMA StepTyped ==
  ASSUME ControlInv, TypeInv, Step
  PROVE  TypeInv'
<1>1. Running
  BY StepControl
<1>2. ASSUME executed' \in {executed, executed + 1}, UNCHANGED reported  PROVE TypedHistory'
  BY <1>2, HistoryTyped
<1>3. ASSUME pc' \in {"token", "post"}, attempt' \in {1, 2},
             UNCHANGED <<call, stage, polls, reading, todo, rows, bulk_err, outcome, executed, reported>>
      PROVE  TypeInv'
  BY <1>1, <1>3 DEF TypeInv, TypedCall, TypedPlace, TypedData, TypedEnd, TypedHistory, Running
<1>4. CASE TokenReady
  BY <1>3, <1>4 DEF TokenReady, progress, history, TypeInv, TypedPlace
<1>5. CASE TokenFails
  <2>1. \E error \in LibraryErrors \cup {"other"} : Fails(error)
    BY <1>1, <1>5, TokenFailures DEF ControlInv
  <2>2. TypedHistory'
    BY <1>2, <1>5 DEF TokenFails
  <2>. QED  BY <1>1, <2>1, <2>2, FailsTyped
<1>6. CASE ReplyLost
  <2>1. TypedHistory'
    BY <1>2, <1>6 DEF ReplyLost
  <2>. QED  BY <1>1, <1>6, <2>1, FailsTyped DEF ReplyLost, LibraryErrors
<1>7. CASE ReplyArrives
  <2>1. PICK e \in Envelopes : LoginAgain(e) \/ Process(e)
    BY <1>7 DEF ReplyArrives
  <2>2. CASE LoginAgain(e)
    BY <1>3, <2>2 DEF LoginAgain, history
  <2>. QED  BY <1>7, <2>1, <2>2, ProcessTyped DEF ReplyArrives
<1>. QED  BY <1>4, <1>5, <1>6, <1>7 DEF Step

\* The encoder raises a ValueError or an OverflowError, or nothing.
LEMMA EncoderErrors ==
  ASSUME NEW name, NEW value, NEW minimum, NEW maximum
  PROVE  EncodeParameter(name, value, minimum, maximum).error \in {None, "ValueError", "OverflowError"}
<1>1. EncodeOption(PARAMETERS[name], value).error \in {None, "ValueError"}
  BY DEF EncodeOption, Encoded, NotEncoded
<1>2. EncodeNumber(PARAMETERS[name], value.number, minimum, maximum).error
        \in {None, "ValueError", "OverflowError"}
  BY DEF EncodeNumber, Encoded, NotEncoded
<1>3. Encoded(value).error = None
  BY DEF Encoded
<1>. QED  BY <1>1, <1>2, <1>3 DEF EncodeParameter

\* The calls an application makes.
LEMMA BeginTyped ==
  ASSUME ControlInv, TypeInv, Begin
  PROVE  TypeInv'
<1>1. pc = "idle"
  BY BeginEffect
<1>2. TypedHistory'
  <2>1. UNCHANGED <<executed, reported>>
    BY DEF Begin, StartCheck, StartReadAll, StartReadList, StartWrite, StartUserCall, StartPlantCall,
           StartRequest, StartRealtime, Start, history
  <2>. QED  BY <2>1, HistoryTyped
<1>3. ASSUME NEW c, NEW first \in {"check", "submit", "request"}, Start(c, first), TypedCall',
             reading' \in Seq(Items)
      PROVE  TypeInv'
  <2>1. polls' \in 0..MaxPolls /\ TypedData' /\ Exchange(first)
    BY <1>3 DEF Start, TypeInv, TypedPlace, TypedData
  <2>. QED  BY <1>1, <1>2, <1>3, <2>1, ExchangeTyped
<1>4. reading \in Seq(Items)
  BY DEF TypeInv, TypedData
<1>5. ASSUME NEW op \in Operations, NEW t \in Transports, call'.op = op, call'.transport = t,
             op \notin {"user_call", "plant_call"}
      PROVE  TypedCall'
  BY <1>5 DEF TypedCall
<1>6. CASE StartCheck
  <2>1. PICK t \in Transports : Start([op |-> "check", transport |-> t], "check")
    BY <1>6 DEF StartCheck
  <2>2. TypedCall'
    BY <2>1, <1>5 DEF Start, Operations
  <2>. QED  BY <1>3, <1>4, <1>6, <2>1, <2>2 DEF StartCheck
<1>7. CASE StartReadAll
  <2>1. PICK t \in Transports : Start([op |-> "read_all", transport |-> t], "submit")
    BY <1>7 DEF StartReadAll
  <2>2. TypedCall'
    BY <2>1, <1>5 DEF Start, Operations
  <2>. QED  BY <1>3, <1>7, <2>1, <2>2, ItemFacts DEF StartReadAll
<1>8. CASE StartReadList
  <2>1. PICK t \in Transports : Start([op |-> "read_list", transport |-> t], "submit")
    BY <1>8 DEF StartReadList
  <2>2. TypedCall'
    BY <2>1, <1>5 DEF Start, Operations
  <2>3. SubSeq(AllCodes, 1, 1) \in Seq(Items)
    BY ItemFacts
  <2>. QED  BY <1>3, <1>8, <2>1, <2>2, <2>3 DEF StartReadList
<1>9. CASE StartWrite
  <2>1. PICK w \in Writes, t \in Transports :
          LET encoded == EncodeParameter(w.name, w.value, w.minimum, w.maximum)
          IN  \/ encoded.error # None /\ Raise(encoded.error)
              \/ Start(Wire(w, t, encoded.raw), "submit") /\ UNCHANGED reading
    BY <1>9 DEF StartWrite
  <2> DEFINE encoded == EncodeParameter(w.name, w.value, w.minimum, w.maximum)
  <2>2. CASE encoded.error # None /\ Raise(encoded.error)
    <3>1. encoded.error \in OutcomeErrors \ {None}
      BY <2>2, EncoderErrors DEF OutcomeErrors
    <3>. QED  BY <1>2, <2>2, <3>1, RaiseTyped
  <2>3. CASE Start(Wire(w, t, encoded.raw), "submit") /\ UNCHANGED reading
    <3>1. TypedCall'
      BY <2>3, <1>5 DEF Start, Wire, Operations
    <3>. QED  BY <1>3, <1>4, <2>3, <3>1
  <2>. QED  BY <2>1, <2>2, <2>3
<1>10. CASE Raise("ValueError")
  <2>1. "ValueError" \in OutcomeErrors \ {None}
    BY NoneIsNoNumber DEF OutcomeErrors
  <2>. QED  BY <1>2, <1>10, <2>1, RaiseTyped
<1>11. CASE StartUserCall
  <2>1. PICK n \in DOMAIN UserCalls : StartRequest("user_call", "user", n, UserCalls[n])
    BY <1>11 DEF StartUserCall
  <2>2. CASE Start([op |-> "user_call", transport |-> "user", name |-> n], "request") /\ UNCHANGED reading
    <3>1. TypedCall'
      BY <2>2 DEF Start, TypedCall, Operations, Transports
    <3>. QED  BY <1>3, <1>4, <2>2, <3>1
  <2>. QED  BY <2>1, <2>2, <1>10 DEF StartRequest
<1>12. CASE StartPlantCall
  <2>1. PICK n \in DOMAIN PlatformCalls : StartRequest("plant_call", "oauth", n, PlatformCalls[n])
    BY <1>12 DEF StartPlantCall
  <2>2. CASE Start([op |-> "plant_call", transport |-> "oauth", name |-> n], "request") /\ UNCHANGED reading
    <3>1. TypedCall'
      BY <2>2 DEF Start, TypedCall, Operations, Transports
    <3>. QED  BY <1>3, <1>4, <2>2, <3>1
  <2>. QED  BY <2>1, <2>2, <1>10 DEF StartRequest
<1>13. CASE StartRealtime
  <2>1. CASE Return(<<>>)
    <3>1. <<>> \in Seq(Items)
      OBVIOUS
    <3>. QED  BY <1>2, <2>1, <3>1, ItemFacts, ReturnTyped
  <2>2. CASE /\ call' = [op |-> "realtime", transport |-> "oauth"] /\ Exchange("chunk")
             /\ reading' = <<Head(PointChunks)>> /\ todo' = Tail(PointChunks)
             /\ UNCHANGED <<polls, rows, bulk_err>>
    <3>1. TypedCall'
      BY <2>2, <1>5 DEF Operations, Transports
    <3>2. TypedData' /\ polls' \in 0..MaxPolls
      BY <2>2, ItemFacts, TakeTyped DEF TypeInv, TypedData, TypedPlace
    <3>. QED  BY <1>1, <1>2, <2>2, <3>1, <3>2, ExchangeTyped
  <2>. QED  BY <1>10, <1>13, <2>1, <2>2 DEF StartRealtime
<1>. QED  BY <1>6, <1>7, <1>8, <1>9, <1>11, <1>12, <1>13 DEF Begin

\* The variables keep their types: what a call asks for and collects are codes and
\* chunks of its lists, only two exceptions of the bulk read start the fallback, and
\* a call has an outcome exactly when it is done.
THEOREM TypeCorrect == Spec => []TypeOK
<1>1. Init => TypeInv
  <2> SUFFICES ASSUME Init  PROVE TypeInv
    OBVIOUS
  <2>1. TypedCall /\ TypedPlace
    BY NoneIsNoOperation, ConstantsAssumption
       DEF Init, NoCall, TypedCall, TypedPlace, Operations
  <2>2. TypedData /\ TypedEnd /\ TypedHistory
    BY DEF Init, Unanswered, TypedData, TypedEnd, TypedHistory, OutcomeErrors
  <2>. QED  BY <2>1, <2>2 DEF TypeInv
<1>2. ControlInv /\ TypeInv /\ [Next]_vars => TypeInv'
  <2>1. ASSUME TypeInv, UNCHANGED vars  PROVE TypeInv'
    BY <2>1 DEF vars, TypeInv, TypedCall, TypedPlace, TypedData, TypedEnd, TypedHistory
  <2>. QED  BY <2>1, BeginTyped, StepTyped DEF Next
<1>. QED  BY <1>1, <1>2, Controlled, TypesMatch, PTL DEF Spec
=============================================================================
