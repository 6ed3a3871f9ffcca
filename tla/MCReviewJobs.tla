---------------------------- MODULE MCReviewJobs ----------------------------
(* Instances of ReviewJobs for TLC. *)
EXTENDS ReviewJobs, TLC

\* One failed attempt ends the review phase, two end the publish phase.
SmallBudget == [FETCH |-> 1, REVIEW |-> 1, PUBLISH |-> 2]

\* A worker may be stalled past its lease anywhere ...
StallAnywhere == BusyPCs

\* ... anywhere but between the publish guard, which has just renewed the lease,
\* and the end of the POST, which has its own much shorter timeout.
StallExceptPost == BusyPCs \ {"post"}

WorkerSymmetry == Permutations(Workers)

=============================================================================
