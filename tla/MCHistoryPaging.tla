-------------------------- MODULE MCHistoryPaging ---------------------------
(***************************************************************************)
(* Bounds of the HistoryPaging runs, in half seconds: whole and broken     *)
(* seconds, windows empty and reversed, chunks that are negative, zero,    *)
(* shorter than a second, not a divisor of the window, and longer than it. *)
(***************************************************************************)
EXTENDS HistoryPaging

MCStarts == {0, 1, 4, 7}
MCEnds == {4, 7, 8}
MCWindows == {-1, 0, 1, 3, 9}

=============================================================================
