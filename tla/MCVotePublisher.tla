-------------------------- MODULE MCVotePublisher --------------------------
(* Instances of VotePublisher for TLC. *)
EXTENDS VotePublisher, TLC

\* Two POSTs, so that the second one follows a lost answer.
VoteLimit == [FETCH |-> 1, REVIEW |-> 1, PUBLISH |-> 2]

StallExceptPost == BusyPCs \ {"post"}

StallAnywhere == BusyPCs

Symmetry == Permutations(Workers) \cup Permutations(Accounts)

=============================================================================
