--------------------------- MODULE HistoryPaging ----------------------------
(***************************************************************************)
(* `Plants.async_iter_historical_data` (src/pysolarcloud/plants.py): an    *)
(* asynchronous generator that walks a window of time in chunks, one       *)
(* request of `async_get_historical_data` per chunk, and hands its rows to *)
(* a consumer one by one.  Requests may fail, and the server may store     *)
(* further samples while the consumer works.                               *)
(*                                                                         *)
(* The unit of time is half a second: requests carry time stamps in whole  *)
(* seconds (strftime), so all that matters of a fraction is that there is  *)
(* one.  Samples are stored at whole seconds.  A row is named by the time  *)
(* stamp of its sample, of one measure point.                              *)
(***************************************************************************)
EXTENDS Integers, Sequences

CONSTANTS
    Starts, Ends,   \* the bounds a consumer may ask for
    Windows,        \* the chunk_window it may ask for
    Horizon,        \* bound: no sample is stored later
    Late            \* TRUE: the server stores samples during the iteration

Second == 2

ASSUME ConstantsAssumption ==
    /\ Starts \subseteq Nat /\ Ends \subseteq Nat /\ Windows \subseteq Int
    /\ Horizon \in Nat /\ Late \in BOOLEAN

\* %Y%m%d%H%M%S: the fraction is dropped.
Stamp(t) == t - (t % Second)

SampleTimes == {t \in 0..Horizon : t % Second = 0}

VARIABLES
    start_time, end_time, chunk_window,     \* the arguments
    pc,         \* where the generator is, or how it ended
    cursor,     \* start of the current chunk
    page,       \* rows of the current chunk not yet handed out
    rows,       \* rows handed to the consumer, in order
    samples,    \* what the server has stored
    stored      \* what it had stored when the iteration began

args == <<start_time, end_time, chunk_window>>
vars == <<start_time, end_time, chunk_window, pc, cursor, page, rows, samples, stored>>

Ended == {"exhausted", "failed", "rejected"}

TypeOK ==
    /\ start_time \in Nat /\ end_time \in Nat /\ chunk_window \in Int
    /\ pc \in {"created", "requesting", "yielding"} \cup Ended
    /\ cursor \in Nat
    /\ page \subseteq Nat
    /\ rows \in Seq(Nat)
    /\ samples \subseteq Nat /\ stored \subseteq samples

Init ==
    /\ start_time \in Starts /\ end_time \in Ends /\ chunk_window \in Windows
    /\ pc = "created" /\ cursor = 0 /\ page = {} /\ rows = <<>>
    /\ samples \in SUBSET SampleTimes
    /\ stored = samples

-----------------------------------------------------------------------------

Min2(a, b) == IF a < b THEN a ELSE b

\* Mutant: a short last chunk is not cut at the end.
ChunkEndOvershoots == cursor + chunk_window

ChunkEnd == Min2(cursor + chunk_window, end_time)

\* Mutant: a negative chunk_window is let through, and the cursor walks backwards.
BeginUnchecked ==
    /\ pc = "created"
    /\ pc' = "requesting" /\ cursor' = start_time
    /\ UNCHANGED <<args, page, rows, samples, stored>>

\* What the consumer's first `anext` runs: the arguments are checked, and an
\* empty window ends the iteration without a request.
Begin ==
    /\ pc = "created"
    /\ \/ chunk_window <= 0 /\ pc' = "rejected" /\ UNCHANGED cursor
       \/ chunk_window > 0 /\ end_time <= start_time /\ pc' = "exhausted" /\ UNCHANGED cursor
       \/ chunk_window > 0 /\ start_time < end_time /\ pc' = "requesting" /\ cursor' = start_time
    /\ UNCHANGED <<args, page, rows, samples, stored>>

\* The rows the server answers a request with, [start_time_stamp, end_time_stamp).
Answer(from, to) == {t \in samples : from <= t /\ t < to}

\* Mutant: the request ends where the chunk's last second begins.
PageArrivesShort ==
    /\ pc = "requesting"
    /\ page' = Answer(Stamp(cursor), Stamp(ChunkEnd) - Second)
    /\ pc' = "yielding"
    /\ UNCHANGED <<args, cursor, rows, samples, stored>>

PageArrives ==
    /\ pc = "requesting"
    /\ page' = Answer(Stamp(cursor), Stamp(ChunkEnd))
    /\ pc' = "yielding"
    /\ UNCHANGED <<args, cursor, rows, samples, stored>>

\* HTTP error, error envelope, a token that cannot be had, or the consumer
\* closes the generator.
PageFails ==
    /\ pc \in {"requesting", "yielding"}
    /\ pc' = "failed"
    /\ page' = {}
    /\ UNCHANGED <<args, cursor, rows, samples, stored>>

\* Rows of one answer are chronological.
YieldRow ==
    /\ pc = "yielding"
    /\ \E t \in page :
         /\ \A u \in page : t <= u
         /\ rows' = Append(rows, t)
         /\ page' = page \ {t}
    /\ UNCHANGED <<args, pc, cursor, samples, stored>>

\* Mutants: a chunk starts one second before the end of the previous one; the
\* cursor does not move; a last chunk that is short is left out.
NextChunkOverlaps ==
    /\ pc = "yielding" /\ page = {}
    /\ cursor' = IF ChunkEnd > cursor + Second THEN ChunkEnd - Second ELSE ChunkEnd
    /\ pc' = IF ChunkEnd < end_time THEN "requesting" ELSE "exhausted"
    /\ UNCHANGED <<args, page, rows, samples, stored>>

NextChunkStays ==
    /\ pc = "yielding" /\ page = {}
    /\ pc' = IF ChunkEnd < end_time THEN "requesting" ELSE "exhausted"
    /\ UNCHANGED <<args, cursor, page, rows, samples, stored>>

NextChunkSkips ==
    /\ pc = "yielding" /\ page = {}
    /\ cursor' = ChunkEnd
    /\ pc' = IF ChunkEnd + chunk_window < end_time THEN "requesting" ELSE "exhausted"
    /\ UNCHANGED <<args, page, rows, samples, stored>>

NextChunk ==
    /\ pc = "yielding" /\ page = {}
    /\ cursor' = ChunkEnd
    /\ pc' = IF ChunkEnd < end_time THEN "requesting" ELSE "exhausted"
    /\ UNCHANGED <<args, page, rows, samples, stored>>

\* The server stores a sample, of any time: loggers deliver late.
ServerStores ==
    /\ Late /\ pc \notin Ended
    /\ \E t \in SampleTimes \ samples : samples' = samples \cup {t}
    /\ UNCHANGED <<args, pc, cursor, page, rows, stored>>

Next == Begin \/ PageArrives \/ PageFails \/ YieldRow \/ NextChunk \/ ServerStores

\* A consumer that keeps asking, and exchanges that end.
Fairness == WF_vars(Begin \/ PageArrives \/ YieldRow \/ NextChunk)

Spec == Init /\ [][Next]_vars /\ Fairness

-----------------------------------------------------------------------------
(* Properties. *)

\* No row is handed out twice, and rows come in chronological order, across all
\* chunks and for any bounds.
Chronological == \A i, j \in 1..Len(rows) : i < j => rows[i] < rows[j]

Delivered(t) == \E i \in 1..Len(rows) : rows[i] = t

\* However the iteration ended, nothing that was there from the beginning is
\* missing before the last row: a consumer may resume from it.
NoGaps ==
    \A i \in 1..Len(rows) : \A t \in stored :
        (Stamp(start_time) <= t /\ t <= rows[i]) => Delivered(t)

\* An iteration that came to its end delivered everything there was, up to the
\* fractions of a second that the requests cannot carry.
Complete ==
    (pc = "exhausted" /\ start_time < end_time) =>
        \A t \in stored : (Stamp(start_time) <= t /\ t < Stamp(end_time)) => Delivered(t)

\* The documented range, for bounds in whole seconds.
WithinWholeSeconds ==
    (start_time % Second = 0 /\ end_time % Second = 0) =>
        \A i \in 1..Len(rows) : start_time <= rows[i] /\ rows[i] < end_time

\* Any positive chunk_window comes to an end, however small.
IterationEnds == <>(pc \in Ended)

-----------------------------------------------------------------------------
(* The invariant under which the safety properties are inductive. *)

Walking == pc \in {"requesting", "yielding"}

\* The cursor stays in the window, and the page in its chunk.
Walk ==
    /\ Walking => chunk_window > 0 /\ start_time <= cursor /\ cursor < end_time
    /\ pc = "created" => rows = <<>>
    /\ pc = "yielding" => \A t \in page : Stamp(cursor) <= t /\ t < Stamp(ChunkEnd)

\* What was handed out lies before what is still to come, and in the window.
RowsBehind ==
    /\ \A i \in 1..Len(rows) :
         /\ Stamp(start_time) <= rows[i] /\ rows[i] < Stamp(end_time)
         /\ pc = "requesting" => rows[i] < Stamp(cursor)
         /\ pc = "yielding" => rows[i] < Stamp(ChunkEnd) /\ \A t \in page : rows[i] < t
    /\ Chronological

\* What the server had is handed out up to the cursor, and in the page beyond.
Covered ==
    /\ Walking => \A t \in stored : (Stamp(start_time) <= t /\ t < Stamp(cursor)) => Delivered(t)
    /\ pc = "yielding" =>
         \A t \in stored : (Stamp(cursor) <= t /\ t < Stamp(ChunkEnd)) => (Delivered(t) \/ t \in page)

IInv == TypeOK /\ Walk /\ RowsBehind /\ Covered /\ NoGaps /\ Complete
=============================================================================
