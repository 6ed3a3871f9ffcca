--------------------------- MODULE JobRowsProofs ---------------------------
(***************************************************************************)
(* What every transaction of JobRows preserves of a single row.            *)
(***************************************************************************)
EXTENDS JobRows, TLAPS

\* The facts about one job row that no transaction may destroy.
RowInv(r) ==
    /\ r \in JobRow
    /\ \A s \in BudgetStages : r.spent[s] \subseteq Slots(s)
    /\ r.state # "FAILED_TRANSIENT"
    /\ r.state = "RETRY_WAIT" => r.retry \in RetryTargets
    /\ r.live => r.state \in RetryTargets \cup {"RECEIVED"}
    /\ InPublishPhase(r) => r.result
    /\ r.pub # NONE =>
          \/ NeedsPublishRecovery(r)
          \/ r.state \in {"FAILED_PERMANENT", "SUPERSEDED", "DONE"}

\* The state names are distinct where the row predicates rely on it.
LEMMA StateNames ==
    /\ ABSENT \notin JobState
    /\ NONE \notin JobState
    /\ NONE \notin RetryTargets
    /\ NONE \notin PublicationStatus
    /\ RetryTargets \subseteq JobState
    /\ TerminalJobStates \subseteq JobState
    /\ PublishStates \subseteq RetryTargets
BY DEF ABSENT, NONE, JobState, RetryTargets, TerminalJobStates, PublicationStatus,
       PublishStates

\* A job that was never enqueued satisfies the row invariant.
LEMMA AbsentSound == RowInv(AbsentRow)
BY DEF RowInv, AbsentRow, JobRow, NothingSpent, ABSENT, NONE,
       InPublishPhase, NeedsPublishRecovery, RetryTargets, PublishStates

\* mark_failed_permanent keeps the review and the publication it finds.
LEMMA FailSound ==
    ASSUME NEW r, RowInv(r)
    PROVE  RowInv(MarkFailedPermanentRow(r))
<1> DEFINE s == MarkFailedPermanentRow(r)
<1>1. r \in JobRow /\ "FAILED_PERMANENT" \in JobState
  BY DEF RowInv, JobState
<1>2. s \in JobRow
  BY <1>1 DEF MarkFailedPermanentRow, Released, JobRow
<1>3. /\ s.state = "FAILED_PERMANENT" /\ ~s.live /\ s.retry = NONE
      /\ s.pub = r.pub /\ s.result = r.result /\ s.spent = r.spent
  BY <1>1 DEF MarkFailedPermanentRow, Released, JobRow
<1> HIDE DEF s
<1>4. RowInv(s)
  BY <1>2, <1>3 DEF RowInv, NONE, InPublishPhase, PublishStates, RetryTargets
<1> QED BY <1>4 DEF s

\* mark_superseded, and the ordering rule's update of older rows, keep the row
\* invariant.
LEMMA SupersedeSound ==
    ASSUME NEW r, RowInv(r)
    PROVE  RowInv(MarkSupersededRow(r))
<1> DEFINE s == MarkSupersededRow(r)
<1>1. r \in JobRow /\ "SUPERSEDED" \in JobState
  BY DEF RowInv, JobState
<1>2. s \in JobRow
  BY <1>1 DEF MarkSupersededRow, Released, JobRow
<1>3. /\ s.state = "SUPERSEDED" /\ ~s.live /\ s.retry = NONE
      /\ s.pub = r.pub /\ s.result = r.result /\ s.spent = r.spent
  BY <1>1 DEF MarkSupersededRow, Released, JobRow
<1> HIDE DEF s
<1>4. RowInv(s)
  BY <1>2, <1>3 DEF RowInv, NONE, InPublishPhase, PublishStates, RetryTargets
<1> QED BY <1>4 DEF s

\* So does the ordering rule's update of a late arrival, which keeps
\* retry_state.
LEMMA LateSupersedeSound ==
    ASSUME NEW r, RowInv(r)
    PROVE  RowInv(Released([r EXCEPT !.state = "SUPERSEDED"]))
<1> DEFINE s == Released([r EXCEPT !.state = "SUPERSEDED"])
<1>1. r \in JobRow /\ "SUPERSEDED" \in JobState
  BY DEF RowInv, JobState
<1>2. s \in JobRow
  BY <1>1 DEF Released, JobRow
<1>3. /\ s.state = "SUPERSEDED" /\ ~s.live /\ s.retry = r.retry
      /\ s.pub = r.pub /\ s.result = r.result /\ s.spent = r.spent
  BY <1>1 DEF Released, JobRow
<1> HIDE DEF s
<1>4. RowInv(s)
  BY <1>2, <1>3 DEF RowInv, NONE, InPublishPhase, PublishStates, RetryTargets
<1> QED BY <1>4 DEF s

\* claim_next leaves a row in a state a worker can process, also after a retry.
LEMMA ClaimSound ==
    ASSUME NEW r, RowInv(r), Pending(r), NEW w \in Workers
    PROVE  RowInv(ClaimRow(r, w)) /\ ClaimRow(r, w).state \in RetryTargets \cup {"RECEIVED"}
BY DEF RowInv, ClaimRow, JobRow, JobState, NONE, ABSENT, InPublishPhase, PublishStates,
       NeedsPublishRecovery, Pending, Exists, TerminalJobStates, RetryTargets

\* A transition the state table allows never leaves the publish phase with an
\* intent, nor enters it without a review.
LEMMA TransitionSound ==
    ASSUME NEW r, RowInv(r), r.live,
           NEW t \in {"FETCHING", "REVIEWING", "VALIDATING", "PUBLISHING"},
           CanTransition(r.state, t)
    PROVE  RowInv(TransitionRow(r, t))
BY DEF RowInv, TransitionRow, JobRow, JobState, NONE, ABSENT, InPublishPhase, PublishStates,
       NeedsPublishRecovery, CanTransition, AllowedTransitions, Exits, RetryTargets

\* schedule_retry always records the state to resume in.
LEMMA ScheduleRetrySound ==
    ASSUME NEW r, RowInv(r), r.state \in RetryTargets
    PROVE  RowInv(ScheduleRetryRow(r, r.state))
BY DEF RowInv, ScheduleRetryRow, Released, JobRow, JobState, NONE, InPublishPhase, PublishStates,
       NeedsPublishRecovery, RetryTargets

\* save_review_result_and_mark_ready enters the publish phase with the review.
LEMMA SaveSound ==
    ASSUME NEW r, RowInv(r), r.state = "VALIDATING"
    PROVE  RowInv(SaveReviewResultRow(r))
BY DEF RowInv, SaveReviewResultRow, Released, JobRow, JobState, NONE, InPublishPhase, PublishStates,
       NeedsPublishRecovery, RetryTargets

\* begin_publication keeps an existing intent and leaves one in any case.
LEMMA BeginSound ==
    ASSUME NEW r, RowInv(r), r.state = "PUBLISHING"
    PROVE  RowInv(BeginPublicationRow(r)) /\ BeginPublicationRow(r).pub # NONE
BY DEF RowInv, BeginPublicationRow, Released, JobRow, JobState, NONE, InPublishPhase, PublishStates,
       NeedsPublishRecovery, RetryTargets, PublicationStatus

\* The unfenced publication updates keep the row invariant in any state.
LEMMA MarkSound ==
    ASSUME NEW r, RowInv(r), r.pub # NONE, NEW status \in PublicationStatus
    PROVE  RowInv(MarkPublicationRow(r, status)) /\ MarkPublicationRow(r, status).pub # NONE
BY DEF RowInv, MarkPublicationRow, JobRow, JobState, NONE, InPublishPhase, PublishStates,
       NeedsPublishRecovery, RetryTargets, PublicationStatus

\* complete_publication_and_mark_done, with or without a vote to come.
LEMMA CompleteSound ==
    ASSUME NEW r, RowInv(r), r.pub # NONE, NEW deferDone \in BOOLEAN,
           deferDone => r.state = "PUBLISHING"
    PROVE  RowInv(CompletePublicationRow(r, deferDone))
<1>1. CASE deferDone
  BY <1>1 DEF RowInv, CompletePublicationRow, JobRow, JobState, NONE, InPublishPhase, PublishStates,
              NeedsPublishRecovery, RetryTargets, PublicationStatus
<1>2. CASE ~deferDone
  <2> DEFINE s == CompletePublicationRow(r, FALSE)
  <2>1. r \in JobRow /\ "DONE" \in JobState /\ "POSTED" \in PublicationStatus
    BY DEF RowInv, JobState, PublicationStatus
  <2>2. s \in JobRow
    BY <2>1 DEF CompletePublicationRow, Released, JobRow
  <2>3. /\ s.state = "DONE" /\ ~s.live /\ s.retry = NONE
        /\ s.pub = "POSTED" /\ s.result = r.result /\ s.spent = r.spent
    BY <2>1 DEF CompletePublicationRow, Released, JobRow
  <2> HIDE DEF s
  <2>4. RowInv(s)
    BY <2>2, <2>3 DEF RowInv, NONE, InPublishPhase, PublishStates, RetryTargets
  <2> QED BY <2>4, <1>2 DEF s
<1> QED BY <1>1, <1>2

\* VoteStore.finish ends the job.
LEMMA FinishVoteSound ==
    ASSUME NEW r, RowInv(r)
    PROVE  RowInv(FinishVoteRow(r))
<1> DEFINE s == FinishVoteRow(r)
<1>1. r \in JobRow /\ "DONE" \in JobState
  BY DEF RowInv, JobState
<1>2. s \in JobRow
  BY <1>1 DEF FinishVoteRow, Released, JobRow
<1>3. /\ s.state = "DONE" /\ ~s.live /\ s.retry = NONE
      /\ s.pub = r.pub /\ s.result = r.result /\ s.spent = r.spent
  BY <1>1 DEF FinishVoteRow, Released, JobRow
<1> HIDE DEF s
<1>4. RowInv(s)
  BY <1>2, <1>3 DEF RowInv, NONE, InPublishPhase, PublishStates, RetryTargets
<1> QED BY <1>4 DEF s

\* start_attempt takes a free slot and so stays within the stage's budget.
LEMMA StartAttemptSound ==
    ASSUME NEW r, RowInv(r), NEW stage \in BudgetStages, NEW slot \in FreeSlots(r, stage)
    PROVE  RowInv(StartAttemptRow(r, stage, slot))
BY BudgetAssumption DEF RowInv, StartAttemptRow, FreeSlots, Slots, JobRow, InPublishPhase, NeedsPublishRecovery

\* A succeeded or excluded attempt only ever frees a slot.
LEMMA UncountSound ==
    ASSUME NEW r, RowInv(r), NEW att
    PROVE  RowInv(UncountAttemptRow(r, att))
BY DEF RowInv, UncountAttemptRow, JobRow, InPublishPhase, NeedsPublishRecovery

\* requeue_failed resumes a job with an intent in the publish phase only.
LEMMA RequeueSound ==
    ASSUME NEW r, RowInv(r)
    PROVE  RowInv(RequeueRow(r))
<1> DEFINE s == RequeueRow(r)
<1> DEFINE state == IF r.pub = "POSTED" THEN "DONE"
                    ELSE IF r.pub # NONE THEN "PUBLISHING"
                    ELSE IF r.result THEN "READY_TO_PUBLISH"
                    ELSE "RECEIVED"
           pub == IF r.pub = "FAILED" THEN "PENDING" ELSE r.pub
<1>a. /\ r \in JobRow
      /\ state \in JobState
      /\ pub \in PublicationStatus \cup {NONE}
      /\ NothingSpent \in [BudgetStages -> SUBSET (Nat \ {0})]
  BY DEF RowInv, JobRow, JobState, PublicationStatus, NothingSpent
<1> DEFINE t == [r EXCEPT !.state = state, !.pub = pub, !.retry = NONE,
                          !.spent = NothingSpent, !.epoch = @ + 1]
<1>b. s = Released(t)
  BY DEF RequeueRow
<1> HIDE DEF s, state, pub
<1>c. t \in JobRow
  <2>1. [r EXCEPT !.state = state, !.pub = pub, !.retry = NONE] \in JobRow
    BY <1>a DEF JobRow
  <2>2. r.epoch + 1 \in Nat
    BY <1>a DEF JobRow
  <2>3. \A u \in JobRow, e \in Nat :
            [u EXCEPT !.spent = NothingSpent, !.epoch = e] \in JobRow
    BY <1>a DEF JobRow
  <2> QED BY <2>1, <2>2, <2>3
<1>1. s \in JobRow
  <2> HIDE DEF t
  <2> QED BY <1>b, <1>c DEF Released, JobRow
<1>2. /\ s.spent = NothingSpent
      /\ ~s.live
      /\ s.retry = NONE
      /\ s.result = r.result
      /\ s.pub = pub
      /\ s.state = state
  BY <1>a, <1>b DEF Released, JobRow
<1>3. \A stage \in BudgetStages : s.spent[stage] \subseteq Slots(stage)
  BY <1>2 DEF NothingSpent
<1> QED
  BY <1>1, <1>2, <1>3
     DEF RowInv, state, pub, s, NONE, InPublishPhase, PublishStates, NeedsPublishRecovery, RetryTargets

\* Inserting a row, reviving a skipped one and leaving it alone are sound.
LEMMA EnqueuedSound ==
    ASSUME NEW r, RowInv(r), NEW preCutoff \in BOOLEAN, NEW revive \in BOOLEAN
    PROVE  RowInv(EnqueuedRow(r, preCutoff, revive))
<1>1. CASE ~Exists(r)
  BY <1>1 DEF RowInv, EnqueuedRow, Exists, JobRow, JobState, NONE, ABSENT, InPublishPhase, PublishStates,
              NeedsPublishRecovery, RetryTargets
<1>2. CASE Exists(r) /\ r.state = "SKIPPED_SCOPE" /\ revive
  BY <1>2 DEF RowInv, EnqueuedRow, Exists, JobRow, JobState, NONE, ABSENT, InPublishPhase, PublishStates,
              NeedsPublishRecovery, RetryTargets
<1>3. CASE Exists(r) /\ ~(r.state = "SKIPPED_SCOPE" /\ revive)
  BY <1>3 DEF EnqueuedRow
<1> QED BY <1>1, <1>2, <1>3

\* A row without an intent may be skipped as out of scope.
LEMMA SkippedSound ==
    ASSUME NEW r, RowInv(r), r.pub = NONE, NEW s,
           s = Released([r EXCEPT !.state = "SKIPPED_SCOPE", !.retry = NONE])
    PROVE  RowInv(s)
BY DEF RowInv, Released, JobRow, JobState, NONE, InPublishPhase, PublishStates, NeedsPublishRecovery

-----------------------------------------------------------------------------
(* What a transaction of worker w on a row means for everybody else. *)

\* Nobody but w gains a lease or loses one under which a POST may be running,
\* and nobody sees the state of a row change under a lease.
LeasesKept(r, s, w) ==
    \A v \in Workers \ {w} :
        /\ LeasedBy(s, v) => LeasedBy(r, v) /\ s.state = r.state
        /\ LeasedBy(r, v) /\ r.state = "PUBLISHING" =>
              LeasedBy(s, v) /\ s.state = "PUBLISHING"

RowStep(r, s, w) ==
    /\ RowInv(s)
    /\ r.pub # NONE => s.pub # NONE
    /\ LeasesKept(r, s, w)


\* The lease holder may rewrite its row and keep or release the lease.
LEMMA FencedRowStep ==
    ASSUME NEW r, NEW s, NEW w \in Workers, LeasedBy(r, w),
           RowInv(s), s.owner \in {w, NoWorker}, r.pub # NONE => s.pub # NONE
    PROVE  RowStep(r, s, w)
BY WorkersAssumption DEF RowStep, LeasesKept, LeasedBy

\* Columns other than lease and state do not concern other workers.
LEMMA QuietRowStep ==
    ASSUME NEW r, NEW s, NEW w,
           RowInv(s), r.pub # NONE => s.pub # NONE,
           s.owner = r.owner, s.live = r.live, s.state = r.state
    PROVE  RowStep(r, s, w)
BY DEF RowStep, LeasesKept, LeasedBy

\* What the transactions that release the lease leave in the row.
LEMMA ReleasedFields ==
    ASSUME NEW r \in JobRow
    PROVE  /\ MarkFailedPermanentRow(r).owner = NoWorker
           /\ MarkFailedPermanentRow(r).pub = r.pub
           /\ MarkFailedPermanentRow(r).state = "FAILED_PERMANENT"
           /\ MarkSupersededRow(r).owner = NoWorker
           /\ MarkSupersededRow(r).pub = r.pub
           /\ MarkSupersededRow(r).state = "SUPERSEDED"
           /\ SaveReviewResultRow(r).owner = NoWorker
           /\ SaveReviewResultRow(r).pub = r.pub
           /\ SaveReviewResultRow(r).state = "READY_TO_PUBLISH"
           /\ FinishVoteRow(r).owner = NoWorker
           /\ FinishVoteRow(r).pub = r.pub
           /\ CompletePublicationRow(r, FALSE).owner = NoWorker
           /\ CompletePublicationRow(r, FALSE).pub = "POSTED"
BY DEF MarkFailedPermanentRow, MarkSupersededRow, SaveReviewResultRow, FinishVoteRow,
       CompletePublicationRow, Released, JobRow

\* What transition leaves in the row.
LEMMA TransitionFields ==
    ASSUME NEW r \in JobRow, NEW t
    PROVE  /\ TransitionRow(r, t).owner = r.owner
           /\ TransitionRow(r, t).pub = r.pub
           /\ TransitionRow(r, t).state = t
BY DEF TransitionRow, JobRow

\* What schedule_retry leaves in the row.
LEMMA ScheduleRetryFields ==
    ASSUME NEW r \in JobRow, NEW t
    PROVE  /\ ScheduleRetryRow(r, t).owner = NoWorker
           /\ ScheduleRetryRow(r, t).pub = r.pub
           /\ ScheduleRetryRow(r, t).state = "RETRY_WAIT"
BY DEF ScheduleRetryRow, Released, JobRow

\* What begin_publication leaves in the row.
LEMMA BeginFields ==
    ASSUME NEW r \in JobRow
    PROVE  /\ BeginPublicationRow(r).owner = r.owner
           /\ BeginPublicationRow(r).state = r.state
           /\ BeginPublicationRow(r).pub = IF r.pub = NONE THEN "PENDING" ELSE r.pub
BY DEF BeginPublicationRow, JobRow

\* What the publication updates leave in the row.
LEMMA MarkFields ==
    ASSUME NEW r \in JobRow, NEW x
    PROVE  /\ MarkPublicationRow(r, x).owner = r.owner
           /\ MarkPublicationRow(r, x).live = r.live
           /\ MarkPublicationRow(r, x).state = r.state
           /\ MarkPublicationRow(r, x).pub = x
BY DEF MarkPublicationRow, JobRow

\* Closing an attempt leaves lease, state and publication alone.
LEMMA UncountFields ==
    ASSUME NEW r \in JobRow, NEW a
    PROVE  /\ UncountAttemptRow(r, a).owner = r.owner
           /\ UncountAttemptRow(r, a).live = r.live
           /\ UncountAttemptRow(r, a).state = r.state
           /\ UncountAttemptRow(r, a).pub = r.pub
BY DEF UncountAttemptRow, JobRow

\* Starting an attempt leaves lease, state and publication alone.
LEMMA StartAttemptFields ==
    ASSUME NEW r \in JobRow, NEW g, NEW i
    PROVE  /\ StartAttemptRow(r, g, i).owner = r.owner
           /\ StartAttemptRow(r, g, i).live = r.live
           /\ StartAttemptRow(r, g, i).state = r.state
           /\ StartAttemptRow(r, g, i).pub = r.pub
BY DEF StartAttemptRow, JobRow

\* Completing a publication with a vote to come keeps the lease.
LEMMA DeferDoneFields ==
    ASSUME NEW r \in JobRow
    PROVE  /\ CompletePublicationRow(r, TRUE).owner = r.owner
           /\ CompletePublicationRow(r, TRUE).live = r.live
           /\ CompletePublicationRow(r, TRUE).state = "PUBLISHING"
           /\ CompletePublicationRow(r, TRUE).pub = "POSTED"
BY DEF CompletePublicationRow, JobRow

\* Columns no other part of the row depends on.
LEMMA FlagFields ==
    ASSUME NEW r, RowInv(r), NEW b \in BOOLEAN, NEW s,
           s = [r EXCEPT !.bound = b] \/ s = [r EXCEPT !.progress = b]
    PROVE  /\ RowInv(s)
           /\ s \in JobRow
           /\ s.owner = r.owner
           /\ s.live = r.live
           /\ s.state = r.state
           /\ s.pub = r.pub
BY DEF RowInv, JobRow, InPublishPhase, NeedsPublishRecovery

\* Losing a lease changes nothing else.
LEMMA ExpiredFields ==
    ASSUME NEW r, RowInv(r), NEW s, s = [r EXCEPT !.live = FALSE]
    PROVE  /\ RowInv(s)
           /\ s.owner = r.owner
           /\ ~s.live
           /\ s.state = r.state
           /\ s.pub = r.pub
BY DEF RowInv, JobRow, InPublishPhase, NeedsPublishRecovery

\* A row under no lease that is publishing may be released by anybody.
LEMMA ReleasedRowStep ==
    ASSUME NEW r, NEW s, NEW w, RowInv(s), s.owner = NoWorker, r.pub # NONE => s.pub # NONE,
           \A v \in Workers \ {w} : ~(LeasedBy(r, v) /\ r.state = "PUBLISHING")
    PROVE  RowStep(r, s, w)
BY WorkersAssumption DEF RowStep, LeasesKept, LeasedBy

=============================================================================
