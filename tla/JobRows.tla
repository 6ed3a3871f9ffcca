------------------------------ MODULE JobRows ------------------------------
(***************************************************************************)
(* The job table of one Gerrit change and the transactions JobStore runs   *)
(* on it (jobs/store.py, admin/store.py).  A row is keyed by its Patch Set *)
(* number (one revision and one review policy version per Patch Set).      *)
(* Each operator is the effect of one transaction once its checks have     *)
(* passed; the checks are guards of the actions of ReviewJobs.             *)
(*                                                                         *)
(* lease_expires_at is abstracted to live: "the lease has not expired".    *)
(* next_attempt_at is abstracted away: a due time may pass at any moment.  *)
(* Of the attempt rows only the ones that count against a budget are kept: *)
(* spent[stage] holds the failed or unfinished attempts of the current     *)
(* retry epoch, each named by a slot that is free again once its attempt   *)
(* has succeeded.  superseded_by_job_id, error texts and timestamps drive  *)
(* no decision and are left out.                                           *)
(***************************************************************************)
EXTENDS Naturals, JobStates

\* Attempt stages that consume a retry budget.
BudgetStages == {"FETCH", "REVIEW", "PUBLISH"}

CONSTANTS
    Workers,   \* worker slots of all worker processes (lease owners)
    NoWorker,  \* lease_owner IS NULL
    MaxPS,     \* bound: Patch Sets of the change
    Budget     \* retry.fetch_attempts, review_attempts, publish_attempts

ASSUME WorkersAssumption == NoWorker \notin Workers
ASSUME MaxPSAssumption == MaxPS \in Nat \ {0}
ASSUME BudgetAssumption == Budget \in [BudgetStages -> Nat \ {0}]

PS == 1 .. MaxPS

Slots(stage) == 1 .. Budget[stage]

JobRow ==
    [state    : JobState \cup {ABSENT},
     retry    : RetryTargets \cup {NONE},
     owner    : Workers \cup {NoWorker},
     live     : BOOLEAN,
     bound    : BOOLEAN,   \* project_review_policy is set
     progress : BOOLEAN,   \* complete review_progress row exists
     result   : BOOLEAN,   \* review_results row exists
     pub      : PublicationStatus \cup {NONE},
     spent    : [BudgetStages -> SUBSET (Nat \ {0})],
     epoch    : Nat]       \* ordinal of the retry epoch

NothingSpent == [s \in BudgetStages |-> {}]

AbsentRow ==
    [state |-> ABSENT, retry |-> NONE, owner |-> NoWorker, live |-> FALSE,
     bound |-> FALSE, progress |-> FALSE, result |-> FALSE, pub |-> NONE,
     spent |-> NothingSpent, epoch |-> 0]

Exists(r) == r.state # ABSENT

Pending(r) == Exists(r) /\ r.state \notin TerminalJobStates

Released(r) == [r EXCEPT !.owner = NoWorker, !.live = FALSE]

\* _require_live_lease
LeasedBy(r, w) == r.owner = w /\ r.live

\* _needs_publish_recovery
NeedsPublishRecovery(r) ==
    \/ r.state = "PUBLISHING"
    \/ r.state = "RETRY_WAIT" /\ r.retry = "PUBLISHING"

\* The job is to be published, now or after its retry, or has been tried.
InPublishPhase(r) ==
    r.state \in PublishStates \/ r.retry \in PublishStates \/ r.pub # NONE

-----------------------------------------------------------------------------
(* Queries over the table. *)

\* Any row of a newer Patch Set, whatever its state.
NewerKnown(t, p) == \E q \in PS : q > p /\ Exists(t[q])

\* The NOT EXISTS of _claim_select: an older publication is unresolved.
BugNoOlderPublication(t, p) == FALSE
BugFailureBlocksNewer(t, p) ==
    \E q \in PS : q < p /\ (NeedsPublishRecovery(t[q]) \/ t[q].state = "FAILED_PERMANENT")
UnresolvedOlderPublication(t, p) ==
    \E q \in PS : q < p /\ NeedsPublishRecovery(t[q])

-----------------------------------------------------------------------------
(* Transactions of a single row. *)

\* claim_next
ClaimRow(r, w) ==
    [r EXCEPT !.state = IF @ = "RETRY_WAIT" THEN r.retry ELSE @,
              !.retry = NONE,
              !.owner = w,
              !.live = TRUE]

\* transition to a state that is not terminal
TransitionRow(r, target) == [r EXCEPT !.state = target, !.retry = NONE]

\* schedule_retry
BugForgetResumeState(r, resume) ==
    Released([r EXCEPT !.state = "RETRY_WAIT", !.retry = NONE])
ScheduleRetryRow(r, resume) ==
    Released([r EXCEPT !.state = "RETRY_WAIT", !.retry = resume])

\* mark_failed_permanent
MarkFailedPermanentRow(r) ==
    Released([r EXCEPT !.state = "FAILED_PERMANENT", !.retry = NONE])

\* mark_superseded
MarkSupersededRow(r) ==
    Released([r EXCEPT !.state = "SUPERSEDED", !.retry = NONE])

\* save_review_result_and_mark_ready: the lease is released with the result
SaveReviewResultRow(r) ==
    Released([r EXCEPT !.state = "READY_TO_PUBLISH", !.retry = NONE,
                       !.result = TRUE])

\* begin_publication: insert PENDING, on conflict keep the existing row
BeginPublicationRow(r) == [r EXCEPT !.pub = IF @ = NONE THEN "PENDING" ELSE @]

\* mark_publication_ambiguous and mark_publication_failed check no lease
MarkPublicationRow(r, status) == [r EXCEPT !.pub = status]

\* complete_publication_and_mark_done; deferDone keeps the lease for the vote
CompletePublicationRow(r, deferDone) ==
    IF deferDone
    THEN [r EXCEPT !.pub = "POSTED", !.state = "PUBLISHING", !.retry = NONE]
    ELSE Released([r EXCEPT !.pub = "POSTED", !.state = "DONE", !.retry = NONE])

\* VoteStore.finish
FinishVoteRow(r) == Released([r EXCEPT !.state = "DONE", !.retry = NONE])

\* count_consumed_retry_attempts below the budget of the stage
BugBudgetOffByOne(r, stage) == (1 .. (Budget[stage] + 1)) \ r.spent[stage]
FreeSlots(r, stage) == Slots(stage) \ r.spent[stage]

\* start_attempt: an unfinished attempt already counts against the budget
StartAttemptRow(r, stage, slot) == [r EXCEPT !.spent[stage] = @ \cup {slot}]

\* finish_attempt(success=True), and a failure excluded as a provider outage:
\* the attempt stops counting.  One of an earlier epoch did not count any more.
UncountAttemptRow(r, att) ==
    IF att.stage \in BudgetStages /\ att.epoch = r.epoch
    THEN [r EXCEPT !.spent[att.stage] = @ \ {att.slot}]
    ELSE r

\* requeue_failed
RequeueRow(r) ==
    Released([r EXCEPT !.state = IF r.pub = "POSTED" THEN "DONE"
                                 ELSE IF r.pub # NONE THEN "PUBLISHING"
                                 ELSE IF r.result THEN "READY_TO_PUBLISH"
                                 ELSE "RECEIVED",
                       !.pub = IF @ = "FAILED" THEN "PENDING" ELSE @,
                       !.retry = NONE,
                       !.spent = NothingSpent,
                       !.epoch = @ + 1])

-----------------------------------------------------------------------------
(* Transactions over the whole change (under its advisory lock). *)

\* The row enqueue leaves before ordering: inserted, revived or untouched.
EnqueuedRow(r, preCutoff, revive) ==
    IF ~Exists(r)
    THEN [r EXCEPT !.state = IF preCutoff THEN "SKIPPED_SCOPE" ELSE "RECEIVED"]
    ELSE IF r.state = "SKIPPED_SCOPE" /\ revive
         THEN [r EXCEPT !.state = "RECEIVED", !.retry = NONE]
         ELSE r

\* _apply_patchset_ordering
BugSupersedePublishing(t, p) ==
    [q \in PS |-> IF q < p /\ Pending(t[q]) THEN MarkSupersededRow(t[q]) ELSE t[q]]
BugIgnoreLateArrival(t, p) ==
    IF t[p].state = "SKIPPED_SCOPE"
    THEN t
    ELSE [q \in PS |->
            IF q < p /\ Pending(t[q]) /\ ~NeedsPublishRecovery(t[q])
            THEN MarkSupersededRow(t[q]) ELSE t[q]]
ApplyPatchsetOrdering(t, p) ==
    IF t[p].state = "SKIPPED_SCOPE"
    THEN t
    ELSE IF NewerKnown(t, p) /\ Pending(t[p])
    THEN IF NeedsPublishRecovery(t[p])
         THEN t
         ELSE [t EXCEPT ![p] = Released([@ EXCEPT !.state = "SUPERSEDED"])]
    ELSE [q \in PS |->
            IF q < p /\ Pending(t[q]) /\ ~NeedsPublishRecovery(t[q])
            THEN MarkSupersededRow(t[q])
            ELSE t[q]]

\* _skip_pre_cutoff_jobs: every row that exists predates the new cutoff
BugSkipIntents(t) ==
    [q \in PS |->
        IF Pending(t[q]) /\ ~t[q].live
        THEN Released([t[q] EXCEPT !.state = "SKIPPED_SCOPE", !.retry = NONE])
        ELSE t[q]]
SkipPreCutoffJobs(t) ==
    [q \in PS |->
        IF Pending(t[q]) /\ ~t[q].live /\ t[q].pub = NONE
        THEN Released([t[q] EXCEPT !.state = "SKIPPED_SCOPE", !.retry = NONE])
        ELSE t[q]]

=============================================================================
