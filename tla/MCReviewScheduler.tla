---------------------------- MODULE MCReviewScheduler ----------------------------
(* A small instance of ReviewScheduler for TLC: the Patch Set is cut into two chunks. *)
EXTENDS ReviewScheduler

TwoChunks == <<{1, 2}, {3}>>
=============================================================================
