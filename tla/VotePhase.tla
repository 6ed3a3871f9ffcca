----------------------------- MODULE VotePhase -----------------------------
(***************************************************************************)
(* What ReviewJobs takes for granted of the vote: seen from the job row,   *)
(* workers claim and lose it, record the posted comments, and, only with   *)
(* the lease, put it off or finish it once the comments are durable.       *)
(***************************************************************************)
EXTENDS JobRows

VARIABLE job

Init ==
    /\ job.state = "PUBLISHING"
    /\ job.pub = "AMBIGUOUS"
    /\ job.bound /\ job.result

Claim(w) == Pending(job) /\ ~job.live /\ job' = ClaimRow(job, w)

LoseLease == job.live /\ job' = [job EXCEPT !.live = FALSE]

\* The lease holder is publishing.
Publishing(w) == LeasedBy(job, w) /\ job.state = "PUBLISHING"

CommentsPosted(w) == Publishing(w) /\ job' = CompletePublicationRow(job, TRUE)

PutOff(w) == Publishing(w) /\ job' = ScheduleRetryRow(job, "PUBLISHING")

Finish(w) == Publishing(w) /\ job.pub = "POSTED" /\ job' = FinishVoteRow(job)

Next ==
    \/ LoseLease
    \/ \E w \in Workers : Claim(w) \/ CommentsPosted(w) \/ PutOff(w) \/ Finish(w)

Spec == Init /\ [][Next]_job

=============================================================================
