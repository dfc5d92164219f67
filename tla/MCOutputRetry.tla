--------------------------- MODULE MCOutputRetry ---------------------------
(* Instances of OutputRetry for TLC. *)
EXTENDS OutputRetry, TLC
\* Give up at the first error, do not retry, and retry.
MCTimeouts == {-1, 0, 1, 3}
=============================================================================
