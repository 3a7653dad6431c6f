------------------------ MODULE HistoryPagingProofs -------------------------
(* Proofs about HistoryPaging, for every value of its constants. *)
EXTENDS HistoryPaging, TLAPS

\* A time stamp is the last whole second.
LEMMA StampFacts ==
  /\ \A t \in Nat : Stamp(t) \in Nat /\ Stamp(t) <= t /\ t < Stamp(t) + 2
  /\ \A s, t \in Nat : s <= t => Stamp(s) <= Stamp(t)
  /\ \A t \in Nat : t % Second = 0 => Stamp(t) = t
<1>1. \A t \in Nat : Stamp(t) \in Nat /\ Stamp(t) <= t /\ t < Stamp(t) + 2
  BY DEF Stamp, Second
<1>2. \A s, t \in Nat : s <= t => Stamp(s) <= Stamp(t)
  BY DEF Stamp, Second
<1>3. \A t \in Nat : t % Second = 0 => Stamp(t) = t
  BY DEF Stamp, Second
<1>. QED  BY <1>1, <1>2, <1>3

\* The end of a chunk lies in the window, behind its start.
LEMMA ChunkEndFacts ==
  ASSUME TypeOK, Walk, Walking
  PROVE  /\ ChunkEnd \in Nat /\ cursor < ChunkEnd /\ ChunkEnd <= end_time
         /\ Stamp(start_time) <= Stamp(cursor) /\ Stamp(cursor) <= Stamp(ChunkEnd)
         /\ Stamp(ChunkEnd) <= Stamp(end_time)
<1>1. ChunkEnd \in Nat /\ cursor < ChunkEnd /\ ChunkEnd <= end_time
  <2>1. /\ cursor \in Nat /\ end_time \in Nat /\ chunk_window \in Int
        /\ chunk_window > 0 /\ cursor < end_time
    BY DEF TypeOK, Walk
  <2>2. cursor + chunk_window \in Nat /\ cursor < cursor + chunk_window
    BY <2>1
  <2>3. CASE cursor + chunk_window < end_time
    BY <2>1, <2>2, <2>3 DEF ChunkEnd, Min2
  <2>4. CASE ~(cursor + chunk_window < end_time)
    BY <2>1, <2>4 DEF ChunkEnd, Min2
  <2>. QED  BY <2>3, <2>4
<1>2. start_time \in Nat /\ cursor \in Nat /\ end_time \in Nat /\ start_time <= cursor
  BY DEF TypeOK, Walk
<1>3. \A s, t \in Nat : s <= t => Stamp(s) <= Stamp(t)
  BY StampFacts
<1>. QED  BY <1>1, <1>2, <1>3

\* The elements of a sequence that got one more.
LEMMA AppendFacts ==
  ASSUME rows \in Seq(Nat), NEW t \in Nat, rows' = Append(rows, t)
  PROVE  /\ rows' \in Seq(Nat) /\ Len(rows) \in Nat /\ Len(rows') = Len(rows) + 1
         /\ \A i \in 1..Len(rows) : rows'[i] = rows[i]
         /\ rows'[Len(rows) + 1] = t
  OBVIOUS

LEMMA InitInv == Init => IInv
  BY ConstantsAssumption
     DEF Init, IInv, TypeOK, Walk, RowsBehind, Covered, NoGaps, Complete, Chronological, Walking,
         SampleTimes, Delivered

\* Steps that neither hand out a row nor change what the server had.
LEMMA RowsKept ==
  ASSUME IInv, TypeOK', UNCHANGED <<args, rows, stored>>
  PROVE  Chronological' /\ NoGaps' /\ (\A t : Delivered(t)' <=> Delivered(t))
  BY DEF IInv, RowsBehind, Chronological, NoGaps, Delivered, args

\* The iteration begins, or refuses its arguments.
LEMMA BeginInv == IInv /\ Begin => IInv'
<1> SUFFICES ASSUME IInv, Begin PROVE IInv'
  OBVIOUS
<1>1. TypeOK' /\ rows = <<>> /\ rows' = <<>>
  BY DEF IInv, TypeOK, Walk, Begin, args, Ended
<1>2. Walk' /\ RowsBehind'
  BY <1>1 DEF IInv, TypeOK, Walk, RowsBehind, Chronological, Walking, Begin, args
<1>3. Covered' /\ Complete'
  <2>1. CASE pc' = "requesting"
    <3>1. cursor' = start_time' /\ Stamp(start_time') \in Nat /\ stored' \subseteq Nat
      BY <1>1, <2>1, StampFacts DEF IInv, TypeOK, Begin, args
    <3>. QED  BY <2>1, <3>1 DEF Covered, Complete, Walking
  <2>2. CASE pc' # "requesting"
    BY <2>2 DEF Begin, Covered, Complete, Walking, IInv, TypeOK, args
  <2>. QED  BY <2>1, <2>2
<1>. QED  BY <1>1, <1>2, <1>3, RowsKept DEF IInv, Begin

\* A page comes in.
LEMMA PageArrivesInv == IInv /\ PageArrives => IInv'
<1> SUFFICES ASSUME IInv, PageArrives PROVE IInv'
  OBVIOUS
<1>1. TypeOK' /\ UNCHANGED <<args, cursor, rows, samples, stored>> /\ ChunkEnd' = ChunkEnd
      /\ pc = "requesting" /\ pc' = "yielding"
  BY DEF IInv, TypeOK, PageArrives, Answer, args, ChunkEnd, Min2
<1>2. \A t \in page' : Stamp(cursor) <= t /\ t < Stamp(ChunkEnd)
  BY DEF PageArrives, Answer
<1>3. \A t \in stored : Stamp(cursor) <= t /\ t < Stamp(ChunkEnd) => t \in page'
  BY DEF PageArrives, Answer, IInv, TypeOK
<1>4. Walk'
  BY <1>1, <1>2 DEF IInv, Walk, Walking, args
<1>5. RowsBehind'
  <2>1. \A i \in 1..Len(rows) : rows[i] \in Nat /\ rows[i] < Stamp(cursor)
    BY <1>1 DEF IInv, TypeOK, RowsBehind
  <2>2. \A i \in 1..Len(rows) : rows[i] < Stamp(ChunkEnd) /\ \A t \in page' : rows[i] < t
    <3>1. Stamp(cursor) \in Nat /\ Stamp(ChunkEnd) \in Nat /\ Stamp(cursor) <= Stamp(ChunkEnd)
      BY <1>1, ChunkEndFacts, StampFacts DEF IInv, TypeOK, Walking
    <3>2. page' \subseteq Nat
      BY <1>1 DEF TypeOK
    <3>. QED  BY <1>2, <2>1, <3>1, <3>2
  <2>. QED  BY <1>1, <2>2 DEF IInv, RowsBehind, Chronological, args
<1>6. Covered' /\ Complete'
  BY <1>1, <1>3 DEF IInv, Covered, Complete, Walking, Delivered, args
<1>. QED  BY <1>1, <1>4, <1>5, <1>6, RowsKept DEF IInv

\* A page does not come in.
LEMMA PageFailsInv == IInv /\ PageFails => IInv'
<1> SUFFICES ASSUME IInv, PageFails PROVE IInv'
  OBVIOUS
<1>1. TypeOK' /\ UNCHANGED <<args, rows, stored>> /\ pc' = "failed"
  BY DEF IInv, TypeOK, PageFails, args, Ended
<1>2. Walk' /\ RowsBehind' /\ Covered' /\ Complete'
  BY <1>1 DEF IInv, Walk, RowsBehind, Covered, Complete, Chronological, Walking, args
<1>. QED  BY <1>1, <1>2, RowsKept DEF IInv

\* A row is handed out.
LEMMA YieldRowInv == IInv /\ YieldRow => IInv'
<1> SUFFICES ASSUME IInv, YieldRow PROVE IInv'
  OBVIOUS
<1>1. PICK t \in page : (\A u \in page : t <= u) /\ rows' = Append(rows, t) /\ page' = page \ {t}
  BY DEF YieldRow
<1>2. /\ pc = "yielding" /\ UNCHANGED <<args, pc, cursor, samples, stored>> /\ ChunkEnd' = ChunkEnd
      /\ Walking /\ t \in Nat
  BY DEF YieldRow, Walking, ChunkEnd, Min2, args, IInv, TypeOK
<1>3. /\ rows' \in Seq(Nat) /\ Len(rows) \in Nat /\ Len(rows') = Len(rows) + 1
      /\ \A i \in 1..Len(rows) : rows'[i] = rows[i]
      /\ rows'[Len(rows) + 1] = t
  BY <1>1, <1>2, AppendFacts DEF IInv, TypeOK
<1>4. TypeOK'
  BY <1>1, <1>2, <1>3 DEF IInv, TypeOK, args
<1>5. Walk'
  BY <1>1, <1>2 DEF IInv, Walk, Walking, args
<1>6. /\ Stamp(start_time) <= t /\ t < Stamp(end_time)
      /\ Stamp(cursor) <= t /\ t < Stamp(ChunkEnd)
  <2>1. /\ Stamp(start_time) \in Nat /\ Stamp(cursor) \in Nat /\ Stamp(ChunkEnd) \in Nat
        /\ Stamp(end_time) \in Nat
        /\ Stamp(start_time) <= Stamp(cursor) /\ Stamp(ChunkEnd) <= Stamp(end_time)
    BY <1>2, ChunkEndFacts, StampFacts DEF IInv, TypeOK
  <2>. QED  BY <1>2, <2>1 DEF IInv, Walk
<1>7. \A i \in 1..Len(rows) : rows[i] \in Nat /\ rows[i] < t
  BY <1>2 DEF IInv, RowsBehind, TypeOK
<1>8. \A u \in page' : t < u
  BY <1>1, <1>2 DEF IInv, TypeOK
<1>9. RowsBehind'
  <2>1. \A i \in 1..Len(rows') : i \in 1..Len(rows) \/ i = Len(rows) + 1
    BY <1>3
  <2>2. \A i \in 1..Len(rows') :
          /\ Stamp(start_time) <= rows'[i] /\ rows'[i] < Stamp(end_time)
          /\ rows'[i] < Stamp(ChunkEnd) /\ \A u \in page' : rows'[i] < u
    BY <1>1, <1>2, <1>3, <1>6, <1>8, <2>1 DEF IInv, RowsBehind
  <2>3. Chronological'
    BY <1>3, <1>7, <2>1, SMTT(30) DEF IInv, RowsBehind, Chronological
  <2>. QED  BY <1>2, <2>2, <2>3 DEF RowsBehind, args
<1>10. \A u : Delivered(u)' <=> (Delivered(u) \/ u = t)
  BY <1>3, SMTT(30) DEF Delivered
<1>11. Covered' /\ Complete'
  BY <1>1, <1>2, <1>10 DEF IInv, Covered, Complete, Walking, args
<1>12. NoGaps'
  <2> SUFFICES ASSUME NEW i \in 1..Len(rows'), NEW u \in stored, Stamp(start_time) <= u, u <= rows'[i]
               PROVE  Delivered(u)'
    BY <1>2 DEF NoGaps, args
  <2>1. CASE i \in 1..Len(rows)
    BY <1>3, <1>10, <2>1 DEF IInv, NoGaps
  <2>2. CASE i = Len(rows) + 1
    <3>1. u <= t /\ u \in Nat
      BY <1>3, <2>2 DEF IInv, TypeOK
    <3>2. CASE u < Stamp(cursor)
      BY <1>2, <1>10, <3>2 DEF IInv, Covered
    <3>3. CASE Stamp(cursor) <= u
      <4>1. u < Stamp(ChunkEnd)
        <5>1. Stamp(ChunkEnd) \in Nat
          BY <1>2, ChunkEndFacts, StampFacts DEF IInv
        <5>. QED  BY <1>2, <1>6, <3>1, <5>1
      <4>2. Delivered(u) \/ u \in page
        BY <1>2, <3>3, <4>1 DEF IInv, Covered
      <4>3. u \in page => u = t
        BY <1>1, <1>2, <3>1
      <4>. QED  BY <1>10, <4>2, <4>3
    <3>. QED  BY <3>1, <3>2, <3>3, StampFacts DEF IInv, TypeOK
  <2>. QED  BY <1>3, <2>1, <2>2
<1>. QED  BY <1>4, <1>5, <1>9, <1>11, <1>12 DEF IInv

\* The page is used up, and the cursor moves to the next chunk.
LEMMA NextChunkInv == IInv /\ NextChunk => IInv'
<1> SUFFICES ASSUME IInv, NextChunk PROVE IInv'
  OBVIOUS
<1>1. /\ pc = "yielding" /\ page = {} /\ page' = {} /\ UNCHANGED <<args, rows, samples, stored>>
      /\ Walking /\ cursor' = ChunkEnd
      /\ pc' = IF ChunkEnd < end_time THEN "requesting" ELSE "exhausted"
  BY DEF NextChunk, Walking
<1>2. /\ ChunkEnd \in Nat /\ cursor < ChunkEnd /\ ChunkEnd <= end_time
      /\ Stamp(start_time) <= Stamp(cursor) /\ Stamp(cursor) <= Stamp(ChunkEnd)
      /\ Stamp(ChunkEnd) <= Stamp(end_time)
  BY <1>1, ChunkEndFacts DEF IInv
<1>3. TypeOK'
  BY <1>1, <1>2 DEF IInv, TypeOK, args, Ended
<1>4. Walk'
  BY <1>1, <1>2 DEF IInv, TypeOK, Walk, Walking, args
<1>5. RowsBehind'
  BY <1>1 DEF IInv, RowsBehind, Chronological, args
<1>6. \A t \in stored : (Stamp(start_time) <= t /\ t < Stamp(ChunkEnd)) => Delivered(t)
  <2> SUFFICES ASSUME NEW t \in stored, Stamp(start_time) <= t, t < Stamp(ChunkEnd)
               PROVE  Delivered(t)
    OBVIOUS
  <2>1. t \in Nat /\ Stamp(cursor) \in Nat
    BY StampFacts DEF IInv, TypeOK
  <2>. QED  BY <1>1, <2>1 DEF IInv, Covered
<1>7. Covered'
  BY <1>1, <1>6 DEF Covered, Walking, Delivered, args
<1>8. Complete'
  <2>1. CASE ChunkEnd < end_time
    BY <1>1, <2>1 DEF Complete
  <2>2. CASE ~(ChunkEnd < end_time)
    <3>1. ChunkEnd = end_time
      BY <1>2, <2>2 DEF IInv, TypeOK
    <3>. QED  BY <1>1, <1>6, <3>1 DEF Complete, Delivered, args
  <2>. QED  BY <2>1, <2>2
<1>. QED  BY <1>1, <1>3, <1>4, <1>5, <1>7, <1>8, RowsKept DEF IInv

\* The server stores a sample meanwhile.
LEMMA ServerStoresInv == IInv /\ ServerStores => IInv'
  BY DEF IInv, TypeOK, Walk, RowsBehind, Covered, NoGaps, Complete, Chronological, Walking,
         Delivered, ChunkEnd, Min2, ServerStores, SampleTimes, args

LEMMA StutterInv == IInv /\ UNCHANGED vars => IInv'
  BY DEF IInv, TypeOK, Walk, RowsBehind, Covered, NoGaps, Complete, Chronological, Walking,
         Delivered, ChunkEnd, Min2, vars

\* The cursor, the page and the rows split the window between them.
THEOREM PagingInvariant == Spec => []IInv
<1>1. IInv /\ [Next]_vars => IInv'
  BY BeginInv, PageArrivesInv, PageFailsInv, YieldRowInv, NextChunkInv, ServerStoresInv, StutterInv
     DEF Next
<1>. QED  BY <1>1, InitInv, PTL DEF Spec

\* The variables keep their types, the rows handed out those of the server's samples.
THEOREM TypeCorrect == Spec => []TypeOK
<1>1. IInv => TypeOK
  BY DEF IInv
<1>. QED  BY <1>1, PagingInvariant, PTL

\* Rows come in chronological order and none twice, for any bounds and chunks.
THEOREM RowsChronological == Spec => []Chronological
<1>1. IInv => Chronological
  BY DEF IInv, RowsBehind
<1>. QED  BY <1>1, PagingInvariant, PTL

\* Whenever the iteration ends, early or not, there is no gap behind its last row.
THEOREM ResumableAfterLastRow == Spec => []NoGaps
<1>1. IInv => NoGaps
  BY DEF IInv
<1>. QED  BY <1>1, PagingInvariant, PTL

\* An iteration that is exhausted delivered everything there was in its window.
THEOREM EverythingDelivered == Spec => []Complete
<1>1. IInv => Complete
  BY DEF IInv
<1>. QED  BY <1>1, PagingInvariant, PTL

\* With bounds in whole seconds no row lies outside the documented range.
THEOREM RangeKept == Spec => []WithinWholeSeconds
<1>1. IInv => WithinWholeSeconds
  BY StampFacts DEF IInv, TypeOK, RowsBehind, WithinWholeSeconds
<1>. QED  BY <1>1, PagingInvariant, PTL
=============================================================================
