--------------------------- MODULE MCTokenRefresh ---------------------------
(* Instances of TokenRefresh for TLC: the constants a .cfg cannot write. *)
EXTENDS TokenRefresh

\* Where the timeout is two steps of the clock and the margin one, the shortest times
\* that leave an answer on its way for longer than the margin covers.
OneStep == {1}

\* With those figures, lives shorter than an exchange may take and lives as long.
ShortLives == {1, 2}

\* With the code's own margin and timeout, which are 2 and 3 steps of 10 s, no life is
\* shorter than an exchange may take, so that the server never sends a dead token.
LongLives == {4}

AllReplies == ReplyKinds

\* An error-free network and a server that always rotates ...
RotatedOnly == {"rotated"}

\* ... that sometimes leaves out expires_in.
MissingExpiry == {"rotated", "no_expiry"}
=============================================================================
