-------------------------- MODULE ReviewOrderProofs --------------------------
(***************************************************************************)
(* The order of Patch Sets: stale work is retired, a newer review waits    *)
(* for the publication of an older one, and comments land in order.  And   *)
(* the order of steps: every change of a job's state is a legal one, and a *)
(* complete review is not inferred again.                                  *)
(***************************************************************************)
EXTENDS ReviewJobsProofs

\* No more work on the job, except what its publication has left open.
Retired(r) == ~Pending(r) \/ NeedsPublishRecovery(r)

Held(q) == \E w \in Workers : wk[w].pc # "idle" /\ wk[w].job = q

\* Work on the Patch Set was allowed: it is in scope, or a worker has claimed
\* it.  The second part outlives a supersession, which a worker that completes
\* its publication may still turn into DONE.
Reached(q) ==
    jobs[q].state \notin {ABSENT, "SKIPPED_SCOPE", "SUPERSEDED"} \/ Held(q)

Ordered ==
    /\ \A q \in PS : Held(q) => Exists(jobs[q])
    /\ \A p, q \in PS : p < q /\ Reached(q) => Retired(jobs[p])
    /\ NewerWaits
    /\ PostsAreFenced =>
          \A q \in PS : posted[q] > 0 =>
              Exists(jobs[q]) /\ \A p \in PS : p < q => ~Pending(jobs[p])

-----------------------------------------------------------------------------
(* What every transaction but enqueue, claim_next and requeue_failed does. *)

\* No job appears, disappears or is revived; a job only enters its publication
\* under a lease, and no lease is granted.
Advances(r, s) ==
    /\ Exists(s) <=> Exists(r)
    /\ Pending(s) => Pending(r)
    /\ Retired(r) => Retired(s)
    /\ NeedsPublishRecovery(s) => NeedsPublishRecovery(r) \/ r.live
    /\ s.live => r.live

\* The row's state is left alone.
LEMMA SameAdvances ==
    ASSUME NEW r, NEW s, s.state = r.state, s.retry = r.retry, s.live => r.live
    PROVE  Advances(r, s)
BY DEF Advances, Exists, Pending, Retired, NeedsPublishRecovery

\* The job ends.
LEMMA EndAdvances ==
    ASSUME NEW r, NEW s, Exists(r), s.state \in TerminalJobStates, ~s.live
    PROVE  Advances(r, s)
BY DEF Advances, Exists, Pending, Retired, NeedsPublishRecovery, TerminalJobStates, ABSENT

\* transition leaves PUBLISHING for no earlier state.
LEMMA TransitionAdvances ==
    ASSUME NEW r, RowInv(r), r.live,
           NEW t \in {"FETCHING", "REVIEWING", "VALIDATING", "PUBLISHING"},
           CanTransition(r.state, t)
    PROVE  Advances(r, TransitionRow(r, t))
BY DEF Advances, Exists, Pending, Retired, NeedsPublishRecovery, TransitionRow, RowInv, JobRow,
       RetryTargets, CanTransition, AllowedTransitions, Exits, TerminalJobStates, ABSENT, NONE

\* schedule_retry remembers that a publication is unresolved.
LEMMA RetryAdvances ==
    ASSUME NEW r \in JobRow, r.state \in RetryTargets
    PROVE  Advances(r, ScheduleRetryRow(r, r.state))
BY DEF Advances, Exists, Pending, Retired, NeedsPublishRecovery, ScheduleRetryRow, Released, JobRow,
       RetryTargets, TerminalJobStates, ABSENT, NONE

\* save_review_result_and_mark_ready.
LEMMA SaveAdvances ==
    ASSUME NEW r \in JobRow, r.state = "VALIDATING"
    PROVE  Advances(r, SaveReviewResultRow(r))
BY DEF Advances, Exists, Pending, Retired, NeedsPublishRecovery, SaveReviewResultRow, Released,
       JobRow, TerminalJobStates, ABSENT, NONE

\* complete_publication_and_mark_done with a vote to come.
LEMMA DeferDoneAdvances ==
    ASSUME NEW r \in JobRow, r.state = "PUBLISHING"
    PROVE  Advances(r, CompletePublicationRow(r, TRUE))
BY DEF Advances, Exists, Pending, Retired, NeedsPublishRecovery, CompletePublicationRow, JobRow,
       TerminalJobStates, ABSENT, NONE

\* Closing or opening an attempt leaves state and lease alone.
LEMMA AttemptAdvances ==
    ASSUME NEW r \in JobRow, NEW stage, NEW slot, NEW att
    PROVE  /\ Advances(r, StartAttemptRow(r, stage, slot))
           /\ Advances(r, UncountAttemptRow(r, att))
<1>1. /\ StartAttemptRow(r, stage, slot).state = r.state
      /\ StartAttemptRow(r, stage, slot).retry = r.retry
      /\ StartAttemptRow(r, stage, slot).live = r.live
  BY DEF StartAttemptRow, JobRow
<1>2. /\ UncountAttemptRow(r, att).state = r.state
      /\ UncountAttemptRow(r, att).retry = r.retry
      /\ UncountAttemptRow(r, att).live = r.live
  BY DEF UncountAttemptRow, JobRow
<1> QED BY <1>1, <1>2, SameAdvances

\* A live lease is a lease on a job in scope that has not ended.
LEMMA LiveMeansPending ==
    ASSUME NEW r, RowInv(r), r.live
    PROVE  Pending(r) /\ Exists(r) /\ r.state \notin {ABSENT, "SKIPPED_SCOPE", "SUPERSEDED"}
BY DEF RowInv, Pending, Exists, RetryTargets, TerminalJobStates, ABSENT

\* The transactions that end a job.
LEMMA EndingRows ==
    ASSUME NEW r \in JobRow, Exists(r)
    PROVE  /\ Advances(r, MarkFailedPermanentRow(r))
           /\ Advances(r, MarkSupersededRow(r))
           /\ Advances(r, FinishVoteRow(r))
           /\ Advances(r, CompletePublicationRow(r, FALSE))
<1> DEFINE Ended(s) == s.state \in TerminalJobStates /\ ~s.live
<1>1. Ended(MarkFailedPermanentRow(r)) /\ Ended(MarkSupersededRow(r))
  BY DEF MarkFailedPermanentRow, MarkSupersededRow, Released, JobRow, TerminalJobStates
<1>2. Ended(FinishVoteRow(r)) /\ Ended(CompletePublicationRow(r, FALSE))
  BY DEF FinishVoteRow, CompletePublicationRow, Released, JobRow, TerminalJobStates
<1> QED BY <1>1, <1>2, EndAdvances

-----------------------------------------------------------------------------
(* A worker's step advances its own row and touches no other. *)

\* No worker takes up a job.
WorkersStay ==
    \A v \in Workers :
        wk'[v].pc # "idle" => wk[v].pc # "idle" /\ wk'[v].job = wk[v].job

OwnStep(w) ==
    /\ WorkersStay
    /\ \A q \in PS \ {wk[w].job} : jobs'[q] = jobs[q]
    /\ Advances(Mine(w), jobs'[wk[w].job])

\* The forms in which a worker moves.
LEMMA Moves ==
    ASSUME IInv, NEW w \in Workers, wk[w].pc # "idle"
    PROVE  /\ \A l : Goto(w, l) \/ GotoFailed(w, l) => WorkersStay
           /\ Leave(w) => WorkersStay
           /\ UNCHANGED wk => WorkersStay
           /\ \A l, x : wk' = [wk EXCEPT ![w].pc = l, ![w].st = x] => WorkersStay
           /\ \A l, x : wk' = [wk EXCEPT ![w].pc = l, ![w].att = x] => WorkersStay
           /\ \A l, x : wk' = [wk EXCEPT ![w].pc = l, ![w].snap = x] => WorkersStay
<1>1. wk = [v \in Workers |-> wk[v]] /\ wk[w] \in WorkerRecord
  BY Busy DEF IInv
<1>2. ASSUME NEW k, wk' = [wk EXCEPT ![w] = k], k.pc = "idle" \/ k.job = wk[w].job
      PROVE  WorkersStay
  BY <1>1, <1>2 DEF WorkersStay
<1>3. \A l, x : /\ [wk[w] EXCEPT !.pc = l].job = wk[w].job
                /\ [wk[w] EXCEPT !.pc = l, !.st = x].job = wk[w].job
                /\ [wk[w] EXCEPT !.pc = l, !.att = x].job = wk[w].job
                /\ [wk[w] EXCEPT !.pc = l, !.snap = x].job = wk[w].job
  BY <1>1 DEF WorkerRecord
<1>4. IdleWorker.pc = "idle"
  BY DEF IdleWorker
<1>5. ASSUME NEW l, Goto(w, l) \/ GotoFailed(w, l)
      PROVE  WorkersStay
  <2>1. \/ wk' = [wk EXCEPT ![w] = [wk[w] EXCEPT !.pc = l]]
        \/ wk' = [wk EXCEPT ![w] = [wk[w] EXCEPT !.pc = l, !.att = NoAttempt]]
    BY <1>5 DEF Goto, GotoFailed
  <2> QED BY <2>1, <1>2, <1>3
<1>6. Leave(w) => WorkersStay
  BY <1>2, <1>4 DEF Leave
<1>7. UNCHANGED wk => WorkersStay
  BY DEF WorkersStay
<1>8. ASSUME NEW l, NEW x, wk' = [wk EXCEPT ![w].pc = l, ![w].st = x]
      PROVE  WorkersStay
  <2>1. wk' = [wk EXCEPT ![w] = [wk[w] EXCEPT !.pc = l, !.st = x]]
    BY <1>8
  <2> QED BY <2>1, <1>2, <1>3
<1>9. ASSUME NEW l, NEW x, wk' = [wk EXCEPT ![w].pc = l, ![w].att = x]
      PROVE  WorkersStay
  <2>1. wk' = [wk EXCEPT ![w] = [wk[w] EXCEPT !.pc = l, !.att = x]]
    BY <1>9
  <2> QED BY <2>1, <1>2, <1>3
<1>10. ASSUME NEW l, NEW x, wk' = [wk EXCEPT ![w].pc = l, ![w].snap = x]
      PROVE  WorkersStay
  <2>1. wk' = [wk EXCEPT ![w] = [wk[w] EXCEPT !.pc = l, !.snap = x]]
    BY <1>10
  <2> QED BY <2>1, <1>2, <1>3
<1> QED BY <1>5, <1>6, <1>7, <1>8, <1>9, <1>10

\* The worker writes nothing.
LEMMA OwnQuiet ==
    ASSUME IInv, NEW w \in Workers, wk[w].pc # "idle", WorkersStay, UNCHANGED jobs
    PROVE  OwnStep(w)
<1>1. Advances(Mine(w), Mine(w))
  BY SameAdvances
<1> QED BY <1>1 DEF OwnStep, Mine

\* The worker writes its row.
LEMMA OwnRow ==
    ASSUME IInv, NEW w \in Workers, wk[w].pc # "idle", WorkersStay,
           NEW row, SetRow(wk[w].job, row), Advances(Mine(w), row)
    PROVE  OwnStep(w)
<1>1. jobs \in [PS -> JobRow] /\ wk[w].job \in PS
  BY Busy DEF IInv
<1> QED BY <1>1 DEF OwnStep, Mine, SetRow

\* JobStore.transition.
LEMMA OwnTransit ==
    ASSUME IInv, NEW w \in Workers, wk[w].pc # "idle",
           NEW t \in {"FETCHING", "REVIEWING", "VALIDATING", "PUBLISHING"}, NEW l,
           Transit(w, t, l)
    PROVE  OwnStep(w)
<1>1. WorkersStay
  BY Moves DEF Transit
<1>2. Advances(Mine(w), TransitionRow(Mine(w), t))
  BY Busy, TransitionAdvances DEF Transit, Fenced, LeasedBy
<1> QED BY <1>1, <1>2, OwnRow DEF Transit

\* _can_start_attempt and start_attempt.
LEMMA OwnStartAttempt ==
    ASSUME IInv, NEW w \in Workers, wk[w].pc # "idle", NEW stage, NEW l, StartAttempt(w, stage, l)
    PROVE  OwnStep(w)
<1>1. WorkersStay
  BY Moves DEF StartAttempt
<1>2. Mine(w) \in JobRow /\ Exists(Mine(w))
  BY Busy, LiveMeansPending DEF StartAttempt, Fenced, LeasedBy
<1>3. /\ Advances(Mine(w), MarkFailedPermanentRow(Mine(w)))
      /\ \A i : Advances(Mine(w), StartAttemptRow(Mine(w), stage, i))
  BY <1>2, EndingRows, AttemptAdvances
<1> QED BY <1>1, <1>3, OwnRow DEF StartAttempt

\* Steps both phases share.
LEMMA OwnShared ==
    ASSUME IInv, NEW w \in Workers, wk[w].pc # "idle",
           ScheduleRetry(w) \/ PermanentFailure(w) \/ MarkSuperseded(w)
           \/ LeaseRefused(w) \/ ProviderExhausted(w)
    PROVE  OwnStep(w)
<1>1. /\ Mine(w) \in JobRow
      /\ Fenced(w) => Exists(Mine(w))
  BY Busy, LiveMeansPending DEF Fenced, LeasedBy
<1>2. WorkersStay
  BY Moves DEF ScheduleRetry, PermanentFailure, MarkSuperseded, LeaseRefused, ProviderExhausted
<1>3. CASE ScheduleRetry(w)
  <2>1. Advances(Mine(w), ScheduleRetryRow(Mine(w), Mine(w).state))
    BY <1>1, <1>3, RetryAdvances DEF ScheduleRetry
  <2>2. Advances(Mine(w), MarkFailedPermanentRow(Mine(w)))
    BY <1>1, <1>3, EndingRows DEF ScheduleRetry
  <2> QED BY <1>2, <1>3, <2>1, <2>2, OwnRow DEF ScheduleRetry
<1>4. CASE PermanentFailure(w) \/ ProviderExhausted(w)
  <2>1. Advances(Mine(w), MarkFailedPermanentRow(Mine(w)))
    BY <1>1, <1>4, EndingRows DEF PermanentFailure, ProviderExhausted
  <2> QED BY <1>2, <1>4, <2>1, OwnRow DEF PermanentFailure, ProviderExhausted
<1>5. CASE MarkSuperseded(w)
  <2> DEFINE r == Mine(w)
             u == UncountAttemptRow(r, wk[w].att)
             s == MarkSupersededRow(u)
  <2>1. u.state = r.state /\ u.live = r.live /\ u.retry = r.retry /\ u \in JobRow
    BY <1>1 DEF UncountAttemptRow, JobRow
  <2>2. Advances(r, u)
    BY <2>1, SameAdvances
  <2>3. s.state \in TerminalJobStates /\ ~s.live
    BY <2>1 DEF MarkSupersededRow, Released, JobRow, TerminalJobStates
  <2>4. Fenced(w) => Advances(r, s)
    BY <1>1, <2>3, EndAdvances
  <2> HIDE DEF s, u
  <2>5. (SetRow(wk[w].job, s) /\ Fenced(w)) \/ SetRow(wk[w].job, u)
    BY <1>5 DEF MarkSuperseded, s, u
  <2> QED BY <1>2, <2>2, <2>4, <2>5, OwnRow
<1>6. CASE LeaseRefused(w)
  BY <1>2, <1>6, OwnQuiet DEF LeaseRefused
<1> QED BY <1>3, <1>4, <1>5, <1>6

\* The review phase.
LEMMA OwnReview ==
    ASSUME IInv, NEW w \in Workers, wk[w].pc # "idle", ReviewStep(w)
    PROVE  OwnStep(w)
<1>1. /\ Mine(w) \in JobRow
      /\ \A att : Advances(Mine(w), UncountAttemptRow(Mine(w), att))
  BY Busy, AttemptAdvances
<1>2. CASE ToFetching(w) \/ ToReviewing(w) \/ Promote(w)
  BY <1>2, OwnTransit DEF ToFetching, ToReviewing, Promote
<1>3. CASE FetchGate(w) \/ ReviewGate(w)
  BY <1>3, OwnStartAttempt DEF FetchGate, ReviewGate
<1>4. CASE Fetch(w) \/ Reprobe(w)
  <2>1. WorkersStay
    BY <1>4, Moves DEF Fetch, Reprobe
  <2> QED BY <1>4, <2>1, OwnQuiet DEF Fetch, Reprobe
<1>5. CASE Fetched(w) \/ FinishReview(w)
  <2>1. WorkersStay
    BY <1>5, Moves DEF Fetched, FinishReview, FinishAttempt
  <2> QED BY <1>1, <1>5, <2>1, OwnRow DEF Fetched, FinishReview, FinishAttempt
<1>6. CASE Probe(w)
  <2>1. WorkersStay
    BY <1>6, Moves DEF Probe
  <2>2. Advances(Mine(w), [Mine(w) EXCEPT !.bound = TRUE])
    BY <1>1, SameAdvances DEF JobRow
  <2> QED BY <1>6, <2>1, <2>2, OwnRow DEF Probe
<1>7. CASE Review(w)
  <2>1. WorkersStay
    BY <1>7, Moves DEF Review
  <2>2. Advances(Mine(w), [Mine(w) EXCEPT !.progress = TRUE])
    BY <1>1, SameAdvances DEF JobRow
  <2> QED BY <1>7, <2>1, <2>2, OwnRow, OwnQuiet DEF Review
<1>8. CASE Save(w)
  <2>1. WorkersStay
    BY <1>8, Moves DEF Save
  <2>2. Mine(w).state = "VALIDATING"
    BY <1>8, Busy DEF Save, At, Fenced, WorkerInv, Mine
  <2>3. Advances(Mine(w), SaveReviewResultRow(Mine(w)))
    BY <1>1, <2>2, SaveAdvances
  <2> QED BY <1>8, <2>1, <2>3, OwnRow DEF Save
<1> QED BY <1>2, <1>3, <1>4, <1>5, <1>6, <1>7, <1>8 DEF ReviewStep

\* The publish phase.
LEMMA OwnPublish ==
    ASSUME IInv, NEW w \in Workers, wk[w].pc # "idle", PublishStep(w)
    PROVE  OwnStep(w)
<1>1. /\ Mine(w) \in JobRow
      /\ \A att : Advances(Mine(w), UncountAttemptRow(Mine(w), att))
  BY Busy, AttemptAdvances
<1>2. CASE ToPublishing(w)
  BY <1>2, OwnTransit DEF ToPublishing
<1>3. CASE PublishGate(w)
  BY <1>3, OwnStartAttempt DEF PublishGate
<1>4. CASE Load(w) \/ Latest(w) \/ StartReconcile(w) \/ Lookup(w) \/ ResolveLookup(w) \/ Guard(w)
           \/ Recheck(w) \/ PreGet(w) \/ Post(w)
  <2>1. CASE Load(w) \/ Latest(w) \/ StartReconcile(w)
    <3>1. WorkersStay
      BY <2>1, Moves DEF Load, Latest, StartReconcile
    <3> QED BY <2>1, <3>1, OwnQuiet DEF Load, Latest, StartReconcile
  <2>2. CASE Lookup(w) \/ ResolveLookup(w) \/ Guard(w) \/ Post(w)
    <3>1. WorkersStay
      BY <2>2, Moves DEF Lookup, ResolveLookup, Guard, Post
    <3> QED BY <2>2, <3>1, OwnQuiet DEF Lookup, ResolveLookup, Guard, Post
  <2>3. CASE Recheck(w) \/ PreGet(w)
    <3>1. WorkersStay
      BY <2>3, Moves DEF Recheck, PreGet, RevisionCheck
    <3> QED BY <2>3, <3>1, OwnQuiet DEF Recheck, PreGet, RevisionCheck
  <2> QED BY <1>4, <2>1, <2>2, <2>3
<1>5. CASE Begin(w)
  <2>1. WorkersStay
    BY <1>5, Moves DEF Begin
  <2>2. Advances(Mine(w), BeginPublicationRow(Mine(w)))
    BY <1>1, SameAdvances DEF BeginPublicationRow, JobRow
  <2> QED BY <1>5, <2>1, <2>2, OwnRow DEF Begin
<1>6. CASE MarkAmbiguous(w) \/ FailPublication(w)
  <2>1. WorkersStay
    BY <1>6, Moves DEF MarkAmbiguous, FailPublication
  <2>2. \A x : Advances(Mine(w), MarkPublicationRow(Mine(w), x))
    BY <1>1, SameAdvances DEF MarkPublicationRow, JobRow
  <2> QED BY <1>6, <2>1, <2>2, OwnRow DEF MarkAmbiguous, FailPublication
<1>7. CASE Posted(w)
  <2>1. WorkersStay
    BY <1>7, Moves DEF Posted, FinishAttempt
  <2> QED BY <1>1, <1>7, <2>1, OwnRow DEF Posted, FinishAttempt
<1>8. CASE CompleteWithVote(w)
  <2>1. WorkersStay
    BY <1>8, Moves DEF CompleteWithVote
  <2>2. Mine(w).state = "PUBLISHING" => Advances(Mine(w), CompletePublicationRow(Mine(w), TRUE))
    BY <1>1, DeferDoneAdvances
  <2> QED BY <1>8, <2>1, <2>2, OwnRow, OwnQuiet DEF CompleteWithVote
<1>9. CASE CompleteLegacy(w)
  <2>1. WorkersStay
    BY <1>9, Moves DEF CompleteLegacy
  <2>2. Mine(w).state \in {"SUPERSEDED", "PUBLISHING"} =>
            Advances(Mine(w), CompletePublicationRow(Mine(w), FALSE))
    BY <1>1, EndingRows DEF Exists, ABSENT
  <2> QED BY <1>9, <2>1, <2>2, OwnRow, OwnQuiet DEF CompleteLegacy
<1>10. CASE Vote(w)
  <2>1. WorkersStay
    BY <1>10, Moves DEF Vote
  <2>2. Mine(w).state = "PUBLISHING" => Advances(Mine(w), FinishVoteRow(Mine(w)))
    BY <1>1, EndingRows DEF Exists, ABSENT
  <2> QED BY <1>10, <2>1, <2>2, OwnRow, OwnQuiet DEF Vote
<1> QED
  BY <1>2, <1>3, <1>4, <1>5, <1>6, <1>7, <1>8, <1>9, <1>10 DEF PublishStep

\* Failures.
LEMMA OwnFault ==
    ASSUME IInv, NEW w \in Workers, wk[w].pc # "idle", FaultStep(w)
    PROVE  OwnStep(w)
<1>1. /\ Mine(w) \in JobRow
      /\ \A att : Advances(Mine(w), UncountAttemptRow(Mine(w), att))
  BY Busy, AttemptAdvances
<1>2. CASE CallTransient(w) \/ CallPermanent(w) \/ ReviewPermanent(w) \/ ReprobeFails(w)
           \/ PostTransient(w) \/ Abandon(w)
  <2>1. WorkersStay
    BY <1>2, Moves DEF CallTransient, CallPermanent, ReviewPermanent, ReprobeFails, PostTransient,
                       Abandon
  <2> QED BY <1>2, <2>1, OwnQuiet DEF CallTransient, CallPermanent, ReviewPermanent, ReprobeFails,
                                      PostTransient, Abandon
<1>3. CASE ProbeFails(w)
  <2>1. WorkersStay
    BY <1>3, Moves DEF ProbeFails
  <2>2. Advances(Mine(w), [Mine(w) EXCEPT !.bound = TRUE])
    BY <1>1, SameAdvances DEF JobRow
  <2> QED BY <1>3, <2>1, <2>2, OwnRow DEF ProbeFails
<1>4. ASSUME NEW provider \in BOOLEAN, ReviewTransient(w, provider)
      PROVE  OwnStep(w)
  <2>1. WorkersStay
    BY <1>4, Moves DEF ReviewTransient
  <2>2. PICK saved \in BOOLEAN :
            LET row == [Mine(w) EXCEPT !.progress = @ \/ saved]
            IN  SetRow(wk[w].job, IF provider THEN UncountAttemptRow(row, wk[w].att) ELSE row)
    BY <1>4 DEF ReviewTransient
  <2> DEFINE row == [Mine(w) EXCEPT !.progress = @ \/ saved]
             u == UncountAttemptRow(row, wk[w].att)
  <2>3. row.state = Mine(w).state /\ row.live = Mine(w).live /\ row.retry = Mine(w).retry
    BY <1>1 DEF JobRow
  <2>4. u.state = row.state /\ u.live = row.live /\ u.retry = row.retry
    BY <1>1 DEF UncountAttemptRow, JobRow
  <2>5. SetRow(wk[w].job, u) \/ SetRow(wk[w].job, row)
    BY <2>2
  <2> HIDE DEF row, u
  <2>6. Advances(Mine(w), row) /\ Advances(Mine(w), u)
    BY <2>3, <2>4, SameAdvances
  <2> QED BY <2>1, <2>5, <2>6, OwnRow
<1>5. CASE VoteRetry(w)
  <2>1. WorkersStay
    BY <1>5, Moves DEF VoteRetry
  <2>2. Advances(Mine(w), ScheduleRetryRow(Mine(w), "PUBLISHING"))
    BY <1>1, <1>5, RetryAdvances DEF VoteRetry, RetryTargets
  <2> QED BY <1>5, <2>1, <2>2, OwnRow DEF VoteRetry
<1>6. CASE LeaseStall(w)
  <2>1. WorkersStay
    BY <1>6, Moves DEF LeaseStall
  <2>2. Advances(Mine(w), [Mine(w) EXCEPT !.live = FALSE])
    BY <1>1, SameAdvances DEF JobRow
  <2> QED BY <1>6, <2>1, <2>2, OwnRow DEF LeaseStall
<1> QED BY <1>2, <1>3, <1>4, <1>5, <1>6 DEF FaultStep

-----------------------------------------------------------------------------
(* Every step keeps the Patch Sets in order. *)

\* A step that advances rows keeps the order, except for what it posts.
LEMMA Advancing ==
    ASSUME IInv, Ordered,
           \A q \in PS : Advances(jobs[q], jobs'[q]),
           \A q \in PS : Held(q)' => Held(q),
           \A q \in PS : Reached(q)' => Reached(q),
           PostsAreFenced =>
              \A q \in PS : posted'[q] > 0 =>
                  Exists(jobs[q]) /\ \A p \in PS : p < q => ~Pending(jobs[p])
    PROVE  Ordered'
<1>1. \A q \in PS : Held(q)' => Exists(jobs'[q])
  BY DEF Ordered, Advances
<1>2. \A p, q \in PS : p < q /\ Reached(q)' => Retired(jobs'[p])
  BY DEF Ordered, Advances
<1>3. ASSUME NEW p \in PS, NEW q \in PS, p < q, jobs'[q].live, NeedsPublishRecovery(jobs'[p])
      PROVE  FALSE
  <2>1. jobs[q].live /\ (NeedsPublishRecovery(jobs[p]) \/ jobs[p].live)
    BY <1>3 DEF Advances
  <2>2. ~NeedsPublishRecovery(jobs[p])
    BY <1>3, <2>1 DEF Ordered, NewerWaits
  <2>3. Pending(jobs[p]) /\ Reached(q)
    BY <2>1, <2>2, LiveMeansPending DEF IInv, Reached
  <2> QED BY <1>3, <2>2, <2>3 DEF Ordered, Retired
<1>4. NewerWaits'
  BY <1>3 DEF NewerWaits
<1>5. PostsAreFenced =>
          \A q \in PS : posted'[q] > 0 =>
              Exists(jobs'[q]) /\ \A p \in PS : p < q => ~Pending(jobs'[p])
  BY DEF Advances
<1> QED BY <1>1, <1>2, <1>4, <1>5 DEF Ordered

\* The part about Gerrit as long as nothing is posted.
LEMMA PostedKept ==
    ASSUME Ordered, UNCHANGED posted
    PROVE  PostsAreFenced =>
              \A q \in PS : posted'[q] > 0 =>
                  Exists(jobs[q]) /\ \A p \in PS : p < q => ~Pending(jobs[p])
BY DEF Ordered

\* A step of a worker reaches no further Patch Set.
LEMMA OwnReach ==
    ASSUME IInv, NEW w \in Workers, wk[w].pc # "idle", OwnStep(w)
    PROVE  /\ \A q \in PS : Advances(jobs[q], jobs'[q])
           /\ \A q \in PS : Held(q)' => Held(q)
           /\ \A q \in PS : Reached(q)' => Reached(q)
<1>1. \A q \in PS : Advances(jobs[q], jobs'[q])
  BY SameAdvances DEF OwnStep, Mine
<1>2. \A q \in PS : Held(q)' => Held(q)
  BY DEF OwnStep, WorkersStay, Held
<1>3. Held(wk[w].job)
  BY DEF Held
<1>4. \A q \in PS : Reached(q)' => Reached(q)
  BY <1>2, <1>3 DEF OwnStep, Reached
<1> QED BY <1>1, <1>2, <1>4

\* A worker that holds the lease at its POST has every older job behind it.
LEMMA PostingMeansAlone ==
    ASSUME IInv, Ordered, PostsAreFenced, NEW w \in Workers, wk[w].pc = "post"
    PROVE  /\ wk[w].job \in PS
           /\ Pending(jobs[wk[w].job]) /\ Exists(jobs[wk[w].job])
           /\ \A p \in PS : p < wk[w].job => ~Pending(jobs[p])
<1> DEFINE q == wk[w].job
<1>1. q \in PS /\ jobs[q].live /\ RowInv(jobs[q])
  BY Busy DEF WorkerInv, LeasedBy, Mine
<1>2. Pending(jobs[q]) /\ Exists(jobs[q]) /\ Reached(q)
  BY <1>1, LiveMeansPending DEF Reached
<1>3. \A p \in PS : p < q => Retired(jobs[p]) /\ ~NeedsPublishRecovery(jobs[p])
  BY <1>1, <1>2 DEF Ordered, NewerWaits
<1> QED BY <1>1, <1>2, <1>3 DEF Retired

\* What a worker's step may add to Gerrit.
LEMMA WorkerPosts ==
    ASSUME NEW w, ReviewStep(w) \/ PublishStep(w) \/ ScheduleRetry(w) \/ PermanentFailure(w)
                  \/ MarkSuperseded(w) \/ LeaseRefused(w) \/ FaultStep(w) \/ ProviderExhausted(w)
    PROVE  \/ UNCHANGED posted
           \/ wk[w].pc = "post" /\ posted' = [posted EXCEPT ![wk[w].job] = @ + 1]
<1>1. ReviewStep(w) => UNCHANGED posted
  BY DEF ReviewStep, ToFetching, FetchGate, Fetch, Fetched, ToReviewing, Probe, ReviewGate,
         Review, Reprobe, Promote, Save, FinishReview, Transit, StartAttempt, FinishAttempt,
         StoreStep, gerritVars
<1>2. PublishStep(w) =>
         \/ UNCHANGED posted
         \/ wk[w].pc = "post" /\ posted' = [posted EXCEPT ![wk[w].job] = @ + 1]
  BY DEF PublishStep, At, Load, Latest, ToPublishing, Begin, StartReconcile, Lookup, ResolveLookup,
         Recheck, PublishGate, MarkAmbiguous, PreGet, Guard, Post, Posted, FailPublication,
         CompleteWithVote, CompleteLegacy, Vote, Transit, StartAttempt, FinishAttempt,
         RevisionCheck, StoreStep, gerritVars
<1>3. FaultStep(w) =>
         \/ UNCHANGED posted
         \/ wk[w].pc = "post" /\ posted' = [posted EXCEPT ![wk[w].job] = @ + 1]
  BY DEF FaultStep, At, CallTransient, CallPermanent, ProbeFails, ReviewTransient, ReviewPermanent,
         ReprobeFails, PostTransient, VoteRetry, Abandon, LeaseStall, gerritVars
<1>4. (ScheduleRetry(w) \/ PermanentFailure(w) \/ MarkSuperseded(w)
          \/ LeaseRefused(w) \/ ProviderExhausted(w)) => UNCHANGED posted
  BY DEF ScheduleRetry, PermanentFailure, MarkSuperseded, LeaseRefused, ProviderExhausted,
         StoreStep, gerritVars
<1> QED BY <1>1, <1>2, <1>3, <1>4

\* Worker slots, whatever fails.
LEMMA WorkerOrder ==
    ASSUME IInv, Ordered, NEW w \in Workers,
           WorkerStep(w) \/ FaultStep(w) \/ ProviderExhausted(w)
    PROVE  Ordered'
<1>1. ReviewStep(w) \/ PublishStep(w) \/ ScheduleRetry(w) \/ PermanentFailure(w)
      \/ MarkSuperseded(w) \/ LeaseRefused(w) \/ FaultStep(w) \/ ProviderExhausted(w)
  BY DEF WorkerStep
<1>2. wk[w].pc # "idle"
  BY <1>1, BusySteps DEF WorkerStep
<1>3. OwnStep(w)
  BY <1>1, <1>2, OwnReview, OwnPublish, OwnShared, OwnFault
<1>4. \/ UNCHANGED posted
      \/ wk[w].pc = "post" /\ posted' = [posted EXCEPT ![wk[w].job] = @ + 1]
  BY <1>1, WorkerPosts
<1>5. ASSUME PostsAreFenced, NEW q \in PS, posted'[q] > 0
      PROVE  Exists(jobs[q]) /\ \A p \in PS : p < q => ~Pending(jobs[p])
  <2>1. CASE posted'[q] = posted[q]
    BY <1>5, <2>1 DEF Ordered
  <2>2. CASE posted'[q] # posted[q]
    <3>1. wk[w].pc = "post" /\ q = wk[w].job
      BY <1>4, <2>2 DEF IInv, ScalarsOK
    <3> QED BY <1>5, <3>1, PostingMeansAlone
  <2> QED BY <2>1, <2>2
<1> QED BY <1>2, <1>3, <1>5, OwnReach, Advancing

\* claim_next: the lease is granted only with no older publication open.
LEMMA ClaimOrder ==
    ASSUME IInv, Ordered, NEW w \in Workers, NEW p \in PS, Claim(w, p)
    PROVE  Ordered'
<1> DEFINE r == jobs[p]
           s == ClaimRow(r, w)
<1>1. /\ jobs' = [jobs EXCEPT ![p] = s]
      /\ \E k : wk' = [wk EXCEPT ![w] = k] /\ k.job = p
      /\ posted' = posted
      /\ Pending(r) /\ ~UnresolvedOlderPublication(jobs, p)
      /\ jobs \in [PS -> JobRow] /\ RowInv(r)
  <2>1. [IdleWorker EXCEPT !.pc = FirstStep(s.state), !.job = p, !.st = s.state,
                           !.pol = s.bound].job = p
    BY DEF IdleWorker
  <2> QED BY <2>1 DEF Claim, Claimable, SetRow, gerritVars, IInv
<1>2. /\ Exists(s) /\ Pending(s) /\ Exists(r)
      /\ NeedsPublishRecovery(s) <=> NeedsPublishRecovery(r)
      /\ s.state \notin {ABSENT, "SKIPPED_SCOPE", "SUPERSEDED"}
      /\ r.state \notin {ABSENT, "SKIPPED_SCOPE", "SUPERSEDED"}
  BY <1>1, ClaimSound
     DEF RowInv, ClaimRow, JobRow, JobState, Exists, Pending, NeedsPublishRecovery, RetryTargets,
         TerminalJobStates, ABSENT
<1>3. jobs'[p] = s /\ \A q \in PS \ {p} : jobs'[q] = jobs[q]
  BY <1>1
<1> HIDE DEF s
<1>4. \A q \in PS \ {p} : Held(q)' => Held(q)
  BY <1>1 DEF Held, IInv
<1>5. \A q \in PS : Held(q)' => Exists(jobs'[q])
  BY <1>2, <1>3, <1>4 DEF Ordered
<1>6. \A q \in PS : Reached(q)' => Reached(q)
  BY <1>2, <1>3, <1>4 DEF Reached
<1>7. \A q \in PS : Retired(jobs[q]) => Retired(jobs'[q])
  BY <1>1, <1>2, <1>3 DEF Retired
<1>8. \A q \in PS : NeedsPublishRecovery(jobs'[q]) => NeedsPublishRecovery(jobs[q])
  BY <1>2, <1>3
<1>9. \A q \in PS : Pending(jobs'[q]) => Pending(jobs[q])
  BY <1>1, <1>3
<1>10. \A q \in PS : Exists(jobs[q]) => Exists(jobs'[q])
  BY <1>2, <1>3
<1>11. NewerWaits'
  <2> SUFFICES ASSUME NEW a \in PS, NEW b \in PS, a < b, jobs'[b].live,
                      NeedsPublishRecovery(jobs'[a])
               PROVE  FALSE
    BY DEF NewerWaits
  <2>1. NeedsPublishRecovery(jobs[a])
    BY <1>8
  <2>2. CASE b = p
    BY <1>1, <2>1, <2>2 DEF UnresolvedOlderPublication
  <2>3. CASE b # p
    BY <1>3, <2>1, <2>3 DEF Ordered, NewerWaits
  <2> QED BY <2>2, <2>3
<1>12. \A a, b \in PS : a < b /\ Reached(b)' => Retired(jobs'[a])
  BY <1>6, <1>7 DEF Ordered
<1>13. PostsAreFenced =>
          \A q \in PS : posted'[q] > 0 =>
              Exists(jobs'[q]) /\ \A a \in PS : a < q => ~Pending(jobs'[a])
  BY <1>1, <1>9, <1>10 DEF Ordered
<1> QED BY <1>5, <1>11, <1>12, <1>13 DEF Ordered

\* Nothing newer exists, so nothing newer is reached, leased or posted.
LEMMA NewestIsFree ==
    ASSUME IInv, Ordered, NEW p \in PS, NEW q \in PS, ~Exists(jobs[q])
    PROVE  ~Reached(q) /\ ~Held(q) /\ ~jobs[q].live /\ (PostsAreFenced => ~(posted[q] > 0))
<1>1. ~Held(q) /\ (PostsAreFenced => ~(posted[q] > 0))
  BY DEF Ordered
<1>2. ~jobs[q].live
  BY LiveMeansPending DEF IInv
<1> QED BY <1>1, <1>2 DEF Reached, Exists

\* Row p changes to one without a lease while nothing newer exists, and the
\* others advance.
LEMMA NewestRow ==
    ASSUME IInv, Ordered, NEW p \in PS, UNCHANGED <<wk, posted>>,
           \A q \in PS : q > p => ~Exists(jobs[q]),
           Exists(jobs'[p]), ~jobs'[p].live,
           \A q \in PS \ {p} : Advances(jobs[q], jobs'[q]) /\ (Reached(q)' => Reached(q)),
           Reached(p) \/ \A q \in PS : q < p => Retired(jobs'[q])
    PROVE  Ordered'
<1>1. \A q \in PS : Held(q)' <=> Held(q)
  BY DEF Held
<1>2. \A q \in PS : q > p => ~Reached(q) /\ ~jobs[q].live /\ (PostsAreFenced => ~(posted[q] > 0))
  BY NewestIsFree
<1>3. \A q \in PS : Held(q)' => Exists(jobs'[q])
  BY <1>1 DEF Ordered, Advances
<1>4. ASSUME NEW a \in PS, NEW b \in PS, a < b, Reached(b)'
      PROVE  Retired(jobs'[a])
  <2>1. a # p
    BY <1>2, <1>4 DEF PS
  <2>2. CASE Reached(b)
    BY <1>4, <2>1, <2>2 DEF Ordered, Advances
  <2>3. CASE ~Reached(b)
    BY <1>4, <2>1, <2>3
  <2> QED BY <2>2, <2>3
<1>5. ASSUME NEW a \in PS, NEW b \in PS, a < b, jobs'[b].live, NeedsPublishRecovery(jobs'[a])
      PROVE  FALSE
  <2>1. b # p
    BY <1>5
  <2>2. jobs[b].live
    BY <1>5, <2>1 DEF Advances
  <2>3. a # p
    BY <1>2, <1>5, <2>2 DEF PS
  <2>4. ~NeedsPublishRecovery(jobs[a]) /\ jobs[a].live
    BY <1>5, <2>2, <2>3 DEF Ordered, NewerWaits, Advances
  <2>5. Pending(jobs[a]) /\ Reached(b)
    BY <2>2, <2>4, LiveMeansPending DEF IInv, Reached
  <2> QED BY <1>5, <2>4, <2>5 DEF Ordered, Retired
<1>6. ASSUME PostsAreFenced, NEW b \in PS, posted'[b] > 0
      PROVE  Exists(jobs'[b]) /\ \A a \in PS : a < b => ~Pending(jobs'[a])
  <2>1. Exists(jobs[b])
    BY <1>6 DEF Ordered
  <2>2. Exists(jobs'[b])
    BY <2>1 DEF Advances
  <2>3. ASSUME NEW a \in PS, a < b
        PROVE  ~Pending(jobs'[a])
    <3>1. a # p
      BY <1>2, <1>6, <2>3 DEF PS
    <3> QED BY <1>6, <2>3, <3>1 DEF Ordered, Advances
  <2> QED BY <2>2, <2>3
<1> QED BY <1>3, <1>4, <1>5, <1>6 DEF Ordered, NewerWaits

\* What _apply_patchset_ordering makes of a row it supersedes.
LEMMA SupersededAdvances ==
    ASSUME NEW r \in JobRow, Exists(r)
    PROVE  /\ Advances(r, MarkSupersededRow(r))
           /\ MarkSupersededRow(r).state = "SUPERSEDED"
           /\ Retired(MarkSupersededRow(r))
<1>1. MarkSupersededRow(r).state = "SUPERSEDED"
  BY DEF MarkSupersededRow, Released, JobRow
<1> QED BY <1>1, EndingRows DEF Retired, Pending, TerminalJobStates

\* A step that opens nothing: no job becomes pending or enters its publication,
\* no lease is granted and no further Patch Set is reached.
LEMMA Quietening ==
    ASSUME IInv, Ordered, UNCHANGED <<wk, posted>>,
           \A q \in PS : /\ Reached(q)' => Reached(q)
                         /\ Exists(jobs[q]) => Exists(jobs'[q])
                         /\ Pending(jobs'[q]) => Pending(jobs[q])
                         /\ Retired(jobs[q]) => Retired(jobs'[q])
                         /\ NeedsPublishRecovery(jobs'[q]) => NeedsPublishRecovery(jobs[q])
                         /\ jobs'[q].live => jobs[q].live
    PROVE  Ordered'
<1>1. NewerWaits'
  BY DEF Ordered, NewerWaits
<1>2. \A a, b \in PS : a < b /\ Reached(b)' => Retired(jobs'[a])
  BY DEF Ordered
<1>3. \A q \in PS : Held(q)' => Exists(jobs'[q])
  BY DEF Ordered, Held
<1>4. PostsAreFenced =>
          \A q \in PS : posted'[q] > 0 =>
              Exists(jobs'[q]) /\ \A a \in PS : a < q => ~Pending(jobs'[a])
  BY DEF Ordered
<1> QED BY <1>1, <1>2, <1>3, <1>4 DEF Ordered

\* enqueue: events in any order, repeated, or reviving a skipped job.
LEMMA EnqueueOrder ==
    ASSUME IInv, Ordered, NEW p \in PS, NEW dated \in BOOLEAN, Enqueue(p, dated)
    PROVE  Ordered'
<1>1. PICK c \in BOOLEAN, v \in BOOLEAN :
          /\ jobs' = ApplyPatchsetOrdering([jobs EXCEPT ![p] = EnqueuedRow(jobs[p], c, v)], p)
          /\ UNCHANGED <<wk, posted>>
  BY DEF Enqueue, gerritVars, IInv, ScalarsOK
<1> DEFINE r == jobs[p]
           s == EnqueuedRow(r, c, v)
           t == [jobs EXCEPT ![p] = s]
<1>2. jobs \in [PS -> JobRow] /\ RowInv(r) /\ r \in JobRow
  BY DEF IInv
<1>3. RowInv(s) /\ s \in JobRow /\ Exists(s)
  <2>1. RowInv(s)
    BY <1>2, EnqueuedSound
  <2> QED BY <1>2, <2>1 DEF EnqueuedRow, RowInv, JobRow, Exists, ABSENT
<1>4. s = r \/ /\ r.state \in {ABSENT, "SKIPPED_SCOPE"} /\ ~r.live /\ ~s.live
               /\ s.state \in {"RECEIVED", "SKIPPED_SCOPE"}
  BY <1>2 DEF EnqueuedRow, Exists, RowInv, JobRow, ABSENT, RetryTargets
<1>5. /\ t \in [PS -> JobRow] /\ t[p] = s /\ \A q \in PS \ {p} : t[q] = jobs[q]
      /\ NewerKnown(t, p) <=> NewerKnown(jobs, p)
      /\ jobs' = ApplyPatchsetOrdering(t, p)
  <2>1. t \in [PS -> JobRow] /\ t[p] = s /\ \A q \in PS \ {p} : t[q] = jobs[q]
    BY <1>2, <1>3
  <2> QED BY <1>1, <2>1 DEF NewerKnown, PS
<1> HIDE DEF t, s
<1>6. \A q \in PS : Held(q)' <=> Held(q)
  BY <1>1 DEF Held
\* Out of scope: p is recorded as skipped, nothing is superseded.
<1>7. CASE s.state = "SKIPPED_SCOPE"
  <2>1. jobs' = t
    BY <1>5, <1>7 DEF ApplyPatchsetOrdering
  <2>2. ~s.live /\ ~Pending(s) /\ ~NeedsPublishRecovery(s)
    BY <1>3, <1>7 DEF RowInv, RetryTargets, Pending, NeedsPublishRecovery, TerminalJobStates
  <2>3. \A q \in PS : Reached(q)' => Reached(q)
    BY <1>5, <1>6, <1>7, <2>1 DEF Reached
  <2>4. \A q \in PS : jobs'[q] = jobs[q] \/ jobs'[q] = s
    BY <1>5, <2>1
  <2> QED BY <1>1, <1>3, <2>2, <2>3, <2>4, Quietening DEF Retired
\* A late arrival: p is superseded unless its publication is unresolved.
<1>8. CASE s.state # "SKIPPED_SCOPE" /\ NewerKnown(t, p) /\ Pending(s)
  <2>1. CASE NeedsPublishRecovery(s)
    <3>1. jobs' = t /\ s = r
      BY <1>4, <1>5, <1>8, <2>1 DEF ApplyPatchsetOrdering, NeedsPublishRecovery
    <3>2. UNCHANGED jobs
      BY <1>2, <1>5, <3>1
    <3> QED BY <1>1, <3>2 DEF Ordered, NewerWaits, Held, Reached
  <2>2. CASE ~NeedsPublishRecovery(s)
    <3> DEFINE u == Released([s EXCEPT !.state = "SUPERSEDED"])
    <3>1. \A q \in PS : jobs'[q] = IF q = p THEN u ELSE jobs[q]
      BY <1>5, <1>8, <2>2 DEF ApplyPatchsetOrdering
    <3>2. u.state = "SUPERSEDED" /\ ~u.live
      BY <1>3 DEF Released, JobRow
    <3> HIDE DEF u
    <3>3. ~Pending(u) /\ ~NeedsPublishRecovery(u) /\ Exists(u)
      BY <3>2 DEF Pending, NeedsPublishRecovery, Exists, TerminalJobStates, ABSENT
    <3>4. \A q \in PS : Reached(q)' => Reached(q)
      BY <1>6, <3>1, <3>2 DEF Reached
    <3> QED BY <1>1, <3>1, <3>2, <3>3, <3>4, Quietening DEF Retired
  <2> QED BY <2>1, <2>2
\* The newest, or one that has ended: the older ones are superseded.
<1>9. CASE s.state # "SKIPPED_SCOPE" /\ ~(NewerKnown(t, p) /\ Pending(s))
  <2>1. \A q \in PS : jobs'[q] = IF q < p /\ Pending(t[q]) /\ ~NeedsPublishRecovery(t[q])
                                 THEN MarkSupersededRow(t[q]) ELSE t[q]
    BY <1>5, <1>9 DEF ApplyPatchsetOrdering
  <2>2. jobs'[p] = s
    BY <1>5, <2>1 DEF PS
  <2>3. \A q \in PS \ {p} : /\ Advances(jobs[q], jobs'[q])
                            /\ jobs'[q].state \in {jobs[q].state, "SUPERSEDED"}
                            /\ q < p => Retired(jobs'[q])
    BY <1>2, <1>5, <2>1, SameAdvances, SupersededAdvances DEF Pending, Retired
  <2>4. \A q \in PS \ {p} : Reached(q)' => Reached(q)
    BY <1>6, <2>3 DEF Reached
  <2>5. CASE s = r
    <3>1. \A q \in PS : Advances(jobs[q], jobs'[q])
      BY <2>2, <2>3, <2>5, SameAdvances
    <3>2. Reached(p)' => Reached(p)
      BY <1>6, <2>2, <2>5 DEF Reached
    <3> QED BY <1>1, <1>6, <2>4, <3>1, <3>2, PostedKept, Advancing
  <2>6. CASE s # r
    <3>1. s.state = "RECEIVED" /\ ~s.live
      BY <1>4, <1>9, <2>6
    <3>2. Pending(s)
      BY <3>1 DEF Pending, Exists, TerminalJobStates, ABSENT
    <3>3. \A q \in PS : q > p => ~Exists(jobs[q])
      BY <1>5, <1>9, <3>2 DEF NewerKnown
    <3>4. \A q \in PS : q < p => Retired(jobs'[q])
      BY <2>3 DEF PS
    <3> QED BY <1>1, <1>3, <2>2, <2>3, <2>4, <3>1, <3>3, <3>4, NewestRow
  <2> QED BY <2>5, <2>6
<1> QED BY <1>7, <1>8, <1>9

\* requeue_failed is refused once a newer Patch Set is known.
LEMMA RequeueOrder ==
    ASSUME IInv, Ordered, NEW p \in PS, Requeue(p)
    PROVE  Ordered'
<1> DEFINE r == jobs[p]
           s == RequeueRow(r)
<1>1. /\ jobs' = [jobs EXCEPT ![p] = s] /\ UNCHANGED <<wk, posted>>
      /\ r.state = "FAILED_PERMANENT" /\ ~NewerKnown(jobs, p)
      /\ jobs \in [PS -> JobRow] /\ r \in JobRow
  BY DEF Requeue, SetRow, gerritVars, IInv
<1>2. ~s.live /\ Exists(s)
  BY <1>1 DEF RequeueRow, Released, JobRow, Exists, ABSENT
<1> HIDE DEF s
<1>3. jobs'[p] = s /\ \A q \in PS \ {p} : jobs'[q] = jobs[q]
  BY <1>1
<1>4. \A q \in PS \ {p} : Advances(jobs[q], jobs'[q]) /\ (Reached(q)' => Reached(q))
  BY <1>1, <1>3, SameAdvances DEF Reached, Held
<1>5. Reached(p) /\ \A q \in PS : q > p => ~Exists(jobs[q])
  BY <1>1 DEF Reached, NewerKnown, ABSENT
<1> QED BY <1>1, <1>2, <1>3, <1>4, <1>5, NewestRow

\* _skip_pre_cutoff_jobs takes jobs out of scope; the scope commands without a
\* cutoff touch none.
LEMMA ScopeOrder ==
    ASSUME IInv, Ordered, UNCHANGED <<wk, posted>>,
           UNCHANGED jobs \/ jobs' = SkipPreCutoffJobs(jobs)
    PROVE  Ordered'
<1>1. ASSUME NEW q \in PS
      PROVE  \/ jobs'[q] = jobs[q]
             \/ /\ jobs'[q].state = "SKIPPED_SCOPE" /\ ~jobs'[q].live
                /\ Pending(jobs[q])
  <2>1. jobs[q] \in JobRow
    BY DEF IInv
  <2> QED BY <2>1 DEF SkipPreCutoffJobs, Released, JobRow
<1>2. \A q \in PS : Reached(q)' => Reached(q)
  BY <1>1 DEF Reached, Held
<1>3. \A q \in PS : jobs'[q].state = "SKIPPED_SCOPE" =>
          Exists(jobs'[q]) /\ ~Pending(jobs'[q]) /\ ~NeedsPublishRecovery(jobs'[q])
  BY DEF Exists, Pending, NeedsPublishRecovery, TerminalJobStates, ABSENT
<1> QED BY <1>1, <1>2, <1>3, Quietening DEF Retired

\* A lease that runs out changes nothing else.
LEMMA ExpiryOrder ==
    ASSUME IInv, Ordered, NEW p \in PS, LeaseExpire(p)
    PROVE  Ordered'
<1>1. UNCHANGED <<wk, posted>>
  BY DEF LeaseExpire, gerritVars
<1>2. ASSUME NEW q \in PS
      PROVE  /\ jobs'[q].state = jobs[q].state /\ jobs'[q].retry = jobs[q].retry
             /\ jobs'[q].live => jobs[q].live
  <2>1. jobs[q] \in JobRow /\ jobs \in [PS -> JobRow]
    BY DEF IInv
  <2> QED BY <2>1 DEF LeaseExpire, SetRow, JobRow
<1>3. \A q \in PS : Reached(q)' => Reached(q)
  BY <1>1, <1>2 DEF Reached, Held
<1> QED
  BY <1>1, <1>2, <1>3, Quietening DEF Exists, Pending, Retired, NeedsPublishRecovery

\* Gerrit's own steps; under PostsAreFenced there is no late POST to commit.
LEMMA GerritOrder ==
    ASSUME IInv, Ordered, GerritStep
    PROVE  Ordered'
<1>1. UNCHANGED <<jobs, wk>>
  BY DEF GerritStep, Upload, ChangeCloses, Restore, CommitLatePost
<1>2. PostsAreFenced => UNCHANGED posted
  BY DEF GerritStep, Upload, ChangeCloses, Restore, CommitLatePost, IInv, ScalarsOK
<1> QED BY <1>1, <1>2 DEF Ordered, NewerWaits, Held, Reached

\* At most the job an earlier version left behind exists at the start.
LEMMA InitOrder == Init => Ordered
<1> SUFFICES ASSUME Init PROVE Ordered
  OBVIOUS
<1>1. \A q \in PS : q # LegacyPS => jobs[q] = AbsentRow
  BY DEF Init
<1>2. AbsentRow.state = ABSENT /\ ~AbsentRow.live
  BY DEF AbsentRow
<1>3. \A q \in PS : ~Held(q) /\ ~jobs[q].live /\ posted[q] = 0
  BY <1>2 DEF Init, Held, IdleWorker, AbsentRow
<1>4. \A q \in PS : Reached(q) => q = LegacyPS
  BY <1>1, <1>2, <1>3 DEF Reached
<1>5. \A p \in PS : p # LegacyPS => Retired(jobs[p])
  BY <1>1, <1>2 DEF Retired, Pending, Exists
<1> QED BY <1>3, <1>4, <1>5 DEF Ordered, NewerWaits, PS

\* Every step of every actor keeps the order.
LEMMA NextOrder == IInv /\ Ordered /\ [Next]_vars => Ordered'
<1> SUFFICES ASSUME IInv, Ordered, [Next]_vars PROVE Ordered'
  OBVIOUS
<1>1. CASE UNCHANGED vars
  BY <1>1 DEF vars, gerritVars, Ordered, NewerWaits, Held, Reached
<1>2. CASE GerritStep
  BY <1>2, GerritOrder
<1>3. CASE EventStep
  BY <1>3, EnqueueOrder DEF EventStep
<1>4. CASE OperatorStep
  <2>1. CASE \E p \in PS : Requeue(p)
    BY <2>1, RequeueOrder
  <2>2. CASE ~ \E p \in PS : Requeue(p)
    <3>1. UNCHANGED <<wk, posted>> /\ (UNCHANGED jobs \/ jobs' = SkipPreCutoffJobs(jobs))
      BY <1>4, <2>2 DEF OperatorStep, UpsertProject, SetProjectReviewStartMode, SetProjectEnabled,
                        SetScope, gerritVars
    <3> QED BY <3>1, ScopeOrder
  <2> QED BY <2>1, <2>2
<1>5. CASE \E p \in PS : LeaseExpire(p)
  BY <1>5, ExpiryOrder
<1>6. ASSUME NEW w \in Workers,
             (\E p \in PS : Claim(w, p)) \/ WorkerStep(w) \/ FaultStep(w) \/ ProviderExhausted(w)
      PROVE  Ordered'
  BY <1>6, ClaimOrder, WorkerOrder
<1> QED BY <1>1, <1>2, <1>3, <1>4, <1>5, <1>6 DEF Next

-----------------------------------------------------------------------------
(* The theorems. *)

\* The strengthened order of Patch Sets holds in every reachable state.
THEOREM OrderInvariance == Spec => []Ordered
<1>1. Init => Ordered
  BY InitOrder
<1>2. IInv /\ Ordered /\ [Next]_vars => Ordered'
  BY NextOrder
<1> QED BY <1>1, <1>2, Invariance, PTL DEF Spec

\* Once a newer Patch Set is in scope no older job is worked on, except to
\* resolve its publication: however events are ordered, duplicated or revived
\* and whatever the operator requeues (_apply_patchset_ordering, requeue_failed).
THEOREM StaleWorkEnds == Spec => []OlderRetired
<1>1. Ordered => OlderRetired
  BY DEF Ordered, OlderRetired, Reached, Retired
<1> QED BY <1>1, OrderInvariance, PTL

\* No lease on a newer Patch Set coexists with an unresolved publication of an
\* older one, although _claim_select checks this only when it claims.
THEOREM NewerAlwaysWaits == Spec => []NewerWaits
<1>1. Ordered => NewerWaits
  BY DEF Ordered
<1> QED BY <1>1, OrderInvariance, PTL

\* If no POST outlives its lease and none is committed late, then the comments
\* of an older Patch Set never reach Gerrit after those of a newer one.
THEOREM PublishedInOrder == ASSUME PostsAreFenced PROVE Spec => OlderNeverLandsLater
<1>1. IInv /\ Ordered /\ [Next]_vars =>
          [\A p, q \in PS : p < q /\ posted[q] > 0 => posted'[p] = posted[p]]_vars
  <2> SUFFICES ASSUME IInv, Ordered, [Next]_vars, NEW p \in PS, NEW q \in PS,
                      p < q, posted[q] > 0
               PROVE  posted'[p] = posted[p]
    OBVIOUS
  <2>1. ~Pending(jobs[p])
    BY PostsAreFenced DEF Ordered
  <2>2. \/ UNCHANGED posted
        \/ \E w \in Workers : /\ wk[w].pc = "post"
                              /\ posted' = [posted EXCEPT ![wk[w].job] = @ + 1]
    <3>1. CASE UNCHANGED vars
      BY <3>1 DEF vars, gerritVars
    <3>2. CASE GerritStep
      BY <3>2, PostsAreFenced
         DEF GerritStep, Upload, ChangeCloses, Restore, CommitLatePost, IInv, ScalarsOK
    <3>3. CASE EventStep \/ OperatorStep \/ \E x \in PS : LeaseExpire(x)
      BY <3>3 DEF EventStep, Enqueue, OperatorStep, Requeue, UpsertProject,
                  SetProjectReviewStartMode, SetProjectEnabled, LeaseExpire, gerritVars
    <3>4. ASSUME NEW w \in Workers,
                 (\E x \in PS : Claim(w, x)) \/ WorkerStep(w) \/ FaultStep(w) \/ ProviderExhausted(w)
          PROVE  \/ UNCHANGED posted
                 \/ wk[w].pc = "post" /\ posted' = [posted EXCEPT ![wk[w].job] = @ + 1]
      <4>1. CASE \E x \in PS : Claim(w, x)
        BY <4>1 DEF Claim, gerritVars
      <4> QED BY <3>4, <4>1, WorkerPosts DEF WorkerStep
    <3> QED BY <3>1, <3>2, <3>3, <3>4 DEF Next
  <2>3. \A w \in Workers : wk[w].pc = "post" => wk[w].job # p
    BY <2>1, PostsAreFenced, PostingMeansAlone
  <2> QED BY <2>2, <2>3 DEF IInv, ScalarsOK
<1> QED BY <1>1, Invariance, OrderInvariance, PTL DEF Spec, OlderNeverLandsLater

-----------------------------------------------------------------------------
(* Every change of state is a legal one, and a complete review is not      *)
(* inferred again.                                                         *)

\* What a transaction of w on a row may do, isPosted: there are comments in
\* Gerrit.  Nobody else gains the lease, or progress under it.
Lawful(r, s, w, isPosted) ==
    /\ LegalStep(r, s, isPosted)
    /\ \A v \in Workers \ {w} : LeasedBy(s, v) => LeasedBy(r, v) /\ s.progress = r.progress

\* What the probe has found stays true as long as the lease.
ProbeHolds == \A w \in Workers : At(w, "reviewGate") /\ Fenced(w) => ~Mine(w).progress

\* The two action properties, of one step.
AllLegal == \A p \in PS : LegalStep(jobs[p], jobs'[p], posted[p] > 0)
FreshReview ==
    \A w \in Workers : At(w, "reviewGate") /\ wk'[w].pc = "review" => ~Mine(w).progress

\* How worker w may go on at step l after its row has become s.
Onward(w, l, s) ==
    /\ l = "reviewGate" /\ LeasedBy(s, w) => ~s.progress
    /\ wk[w].pc = "reviewGate" /\ l = "review" => Fenced(w)

\* Worker w changes no row but its own, and moves nobody else.
LawfulMove(w) ==
    \E s, l, st, snap :
        /\ Rewrites(w, s) /\ Lawful(Mine(w), s, w, posted[wk[w].job] > 0)
        /\ GoesOn(w, l, st, snap) /\ Onward(w, l, s)

\* Such a step of a worker is as both properties want it.
LEMMA MoveLawful ==
    ASSUME IInv, ProbeHolds, NEW w \in Workers, wk[w].pc # "idle", LawfulMove(w)
    PROVE  ProbeHolds' /\ AllLegal /\ FreshReview
<1> PICK s, l, st, snap :
        /\ Rewrites(w, s) /\ Lawful(Mine(w), s, w, posted[wk[w].job] > 0)
        /\ GoesOn(w, l, st, snap) /\ Onward(w, l, s)
  BY DEF LawfulMove
<1>1. /\ wk[w].job \in PS /\ jobs'[wk[w].job] = s /\ Mine(w) = jobs[wk[w].job]
      /\ \A q \in PS \ {wk[w].job} : jobs'[q] = jobs[q]
      /\ \A v \in Workers \ {w} : wk'[v] = wk[v]
  BY Busy DEF Rewrites, GoesOn, Mine
<1>2. AllLegal
  <2> SUFFICES ASSUME NEW q \in PS PROVE LegalStep(jobs[q], jobs'[q], posted[q] > 0)
    BY DEF AllLegal
  <2>1. CASE q = wk[w].job
    BY <1>1, <2>1 DEF Lawful
  <2>2. CASE q # wk[w].job
    BY <1>1, <2>2 DEF LegalStep, CanTransition
  <2> QED BY <2>1, <2>2
<1>3. ASSUME NEW v \in Workers, wk'[v].pc = "reviewGate", LeasedBy(jobs'[wk'[v].job], v)
      PROVE  ~jobs'[wk'[v].job].progress
  <2>1. CASE v = w
    BY <1>1, <1>3, <2>1 DEF GoesOn, Onward
  <2>2. CASE v # w
    <3>1. wk'[v] = wk[v]
      BY <1>1, <2>2
    <3>2. wk[v].job \in PS /\ Mine(v) = jobs[wk[v].job]
      BY <1>3, <3>1, Busy DEF Mine
    <3>3. LeasedBy(Mine(v), v) /\ jobs'[wk[v].job].progress = Mine(v).progress
      BY <1>1, <1>3, <2>2, <3>1, <3>2 DEF Lawful
    <3> QED BY <1>3, <3>1, <3>3 DEF ProbeHolds, At, Fenced
  <2> QED BY <2>1, <2>2
<1>4. ProbeHolds'
  BY <1>3 DEF ProbeHolds, At, Fenced, Mine
<1>5. FreshReview
  BY <1>1 DEF FreshReview, GoesOn, Onward, ProbeHolds, At, Mine
<1> QED BY <1>2, <1>4, <1>5

\* Such a transaction of nobody who works on a job is, too.
LEMMA TableLawful ==
    ASSUME IInv, ProbeHolds, UNCHANGED wk,
           \A q \in PS : Lawful(jobs[q], jobs'[q], NoWorker, posted[q] > 0)
    PROVE  ProbeHolds' /\ AllLegal /\ FreshReview
<1>1. ASSUME NEW v \in Workers, wk[v].pc = "reviewGate", LeasedBy(jobs'[wk[v].job], v)
      PROVE  ~jobs'[wk[v].job].progress
  <2>1. wk[v].job \in PS /\ Mine(v) = jobs[wk[v].job]
    BY <1>1, Busy DEF Mine
  <2>2. LeasedBy(Mine(v), v) /\ jobs'[wk[v].job].progress = Mine(v).progress
    BY <1>1, <2>1, WorkersAssumption DEF Lawful
  <2> QED BY <1>1, <2>2 DEF ProbeHolds, At, Fenced
<1>2. ProbeHolds'
  BY <1>1 DEF ProbeHolds, At, Fenced, Mine
<1>3. AllLegal /\ FreshReview
  BY DEF AllLegal, FreshReview, Lawful, At
<1> QED BY <1>2, <1>3

\* Transactions that leave state and progress alone, and grant no lease.
LEMMA SameLawful ==
    ASSUME NEW r, NEW s, NEW w, NEW b,
           s.state = r.state, s.progress = r.progress, s.owner = r.owner, s.live => r.live
    PROVE  Lawful(r, s, w, b)
BY DEF Lawful, LegalStep, CanTransition, LeasedBy

\* Transactions of the owner, and those that release the lease.
LEMMA OwnerLawful ==
    ASSUME NEW r, NEW s, NEW w, NEW b, LegalStep(r, s, b),
           s.owner = NoWorker \/ s.owner = w
    PROVE  Lawful(r, s, w, b)
BY WorkersAssumption DEF Lawful, LeasedBy

\* A leased job may be ended or put off.
LEMMA LeasedEnds ==
    ASSUME NEW r, RowInv(r), r.live, NEW b
    PROVE  /\ LegalStep(r, MarkFailedPermanentRow(r), b)
           /\ LegalStep(r, MarkSupersededRow(r), b)
           /\ r.state \in RetryTargets => LegalStep(r, ScheduleRetryRow(r, r.state), b)
<1>1. r \in JobRow /\ r.state \in RetryTargets \cup {"RECEIVED"}
  BY DEF RowInv
<1>2. /\ MarkFailedPermanentRow(r).state = "FAILED_PERMANENT"
      /\ MarkSupersededRow(r).state = "SUPERSEDED"
      /\ ScheduleRetryRow(r, r.state).state = "RETRY_WAIT"
  BY <1>1, ReleasedFields, ScheduleRetryFields
<1>3. {"FAILED_PERMANENT", "SUPERSEDED", "RETRY_WAIT"} \subseteq AllowedTransitions(r.state)
  BY <1>1 DEF AllowedTransitions, Exits, RetryTargets
<1> QED BY <1>2, <1>3 DEF LegalStep, CanTransition

\* The worker writes its row, or none.
LEMMA RowLawful ==
    ASSUME IInv, NEW w \in Workers, wk[w].pc # "idle", NEW s,
           SetRow(wk[w].job, s) \/ (UNCHANGED jobs /\ s = Mine(w)),
           Lawful(Mine(w), s, w, posted[wk[w].job] > 0),
           NEW l, NEW st, NEW snap, GoesOn(w, l, st, snap), Onward(w, l, s)
    PROVE  LawfulMove(w)
<1>1. Rewrites(w, s)
  BY SetRowRewrites DEF Rewrites, Mine
<1> QED BY <1>1 DEF LawfulMove

\* The worker writes nothing.
LEMMA QuietLawful ==
    ASSUME IInv, NEW w \in Workers, wk[w].pc # "idle", UNCHANGED jobs,
           NEW l, NEW st, NEW snap, GoesOn(w, l, st, snap), l \notin {"reviewGate", "review"}
    PROVE  LawfulMove(w)
<1>1. Lawful(Mine(w), Mine(w), w, posted[wk[w].job] > 0)
  BY SameLawful
<1> QED BY <1>1, RowLawful DEF Onward

\* The lease holder writes its row and goes on.
LEMMA HolderLawful ==
    ASSUME IInv, NEW w \in Workers, wk[w].pc # "idle", NEW s, SetRow(wk[w].job, s),
           LegalStep(Mine(w), s, posted[wk[w].job] > 0), s.owner = NoWorker \/ s.owner = w,
           NEW l, NEW st, NEW snap, GoesOn(w, l, st, snap), l \notin {"reviewGate", "review"}
    PROVE  LawfulMove(w)
<1>1. Lawful(Mine(w), s, w, posted[wk[w].job] > 0)
  BY OwnerLawful
<1> QED BY <1>1, RowLawful DEF Onward

\* The worker writes columns other than state, lease and progress.
LEMMA ColumnsLawful ==
    ASSUME IInv, NEW w \in Workers, wk[w].pc # "idle", NEW s, SetRow(wk[w].job, s),
           s.state = Mine(w).state, s.progress = Mine(w).progress,
           s.owner = Mine(w).owner, s.live => Mine(w).live,
           NEW l, NEW st, NEW snap, GoesOn(w, l, st, snap), Onward(w, l, s)
    PROVE  LawfulMove(w)
<1>1. Lawful(Mine(w), s, w, posted[wk[w].job] > 0)
  BY SameLawful
<1> QED BY <1>1, RowLawful

\* Closing and opening attempts.
LEMMA AttemptColumns ==
    ASSUME NEW r \in JobRow, NEW g, NEW i, NEW a
    PROVE  /\ StartAttemptRow(r, g, i).state = r.state
           /\ StartAttemptRow(r, g, i).progress = r.progress
           /\ StartAttemptRow(r, g, i).owner = r.owner
           /\ StartAttemptRow(r, g, i).live = r.live
           /\ UncountAttemptRow(r, a).state = r.state
           /\ UncountAttemptRow(r, a).progress = r.progress
           /\ UncountAttemptRow(r, a).owner = r.owner
           /\ UncountAttemptRow(r, a).live = r.live
BY DEF StartAttemptRow, UncountAttemptRow, JobRow

\* JobStore.transition asks the transition table.
LEMMA TransitLawful ==
    ASSUME IInv, NEW w \in Workers, wk[w].pc # "idle", NEW t, NEW l, Transit(w, t, l),
           l \notin {"reviewGate", "review"}
    PROVE  LawfulMove(w)
<1> DEFINE s == TransitionRow(Mine(w), t)
<1>1. s.state = t /\ s.owner = Mine(w).owner
  BY Busy, TransitionFields
<1>2. /\ SetRow(wk[w].job, s) /\ GoesOn(w, l, t, wk[w].snap)
      /\ Mine(w).owner = w /\ CanTransition(Mine(w).state, t)
  BY GoesOnForms DEF Transit, Fenced, LeasedBy
<1> HIDE DEF s
<1>3. LegalStep(Mine(w), s, posted[wk[w].job] > 0)
  BY <1>1, <1>2 DEF LegalStep
<1> QED BY <1>1, <1>2, <1>3, HolderLawful

\* A start_attempt keeps or ends the job.
LEMMA StartLawful ==
    ASSUME IInv, NEW w \in Workers, wk[w].pc # "idle", NEW g, NEW l, StartAttempt(w, g, l),
           l # "reviewGate"
    PROVE  LawfulMove(w)
<1>1. Mine(w) \in JobRow /\ RowInv(Mine(w)) /\ Fenced(w) /\ Mine(w).live /\ Mine(w).owner = w
  BY Busy DEF StartAttempt, Fenced, LeasedBy
<1>2. CASE SetRow(wk[w].job, MarkFailedPermanentRow(Mine(w))) /\ Leave(w)
  <2>1. GoesOn(w, "idle", NONE, NONE)
    BY <1>2, GoesOnForms
  <2> QED BY <1>1, <1>2, <2>1, LeasedEnds, ReleasedFields, HolderLawful
<1>3. ASSUME NEW i, NEW a, SetRow(wk[w].job, StartAttemptRow(Mine(w), g, i)),
             wk' = [wk EXCEPT ![w].pc = l, ![w].att = a]
      PROVE  LawfulMove(w)
  <2>1. GoesOn(w, l, wk[w].st, wk[w].snap)
    BY <1>3, GoesOnForms
  <2>2. Onward(w, l, StartAttemptRow(Mine(w), g, i))
    BY <1>1 DEF Onward
  <2> QED BY <1>1, <1>3, <2>1, <2>2, AttemptColumns, ColumnsLawful
<1> QED BY <1>2, <1>3 DEF StartAttempt

\* finish_attempt.
LEMMA FinishLawful ==
    ASSUME IInv, NEW w \in Workers, wk[w].pc # "idle", NEW l,
           SetRow(wk[w].job, UncountAttemptRow(Mine(w), wk[w].att)),
           (Leave(w) /\ l = "idle") \/ GotoFailed(w, l), l \notin {"reviewGate", "review"}
    PROVE  LawfulMove(w)
<1>1. GoesOn(w, l, wk[w].st, wk[w].snap)
  BY GoesOnForms
<1>2. Onward(w, l, UncountAttemptRow(Mine(w), wk[w].att))
  BY DEF Onward
<1> QED BY <1>1, <1>2, Busy, AttemptColumns, ColumnsLawful

\* Steps both phases share.
LEMMA SharedLawful ==
    ASSUME IInv, NEW w \in Workers, wk[w].pc # "idle",
           \/ ScheduleRetry(w) \/ ProviderExhausted(w) \/ PermanentFailure(w)
           \/ MarkSuperseded(w) \/ LeaseRefused(w) \/ Abandon(w) \/ LeaseStall(w)
           \/ CallTransient(w) \/ CallPermanent(w)
    PROVE  LawfulMove(w)
<1> DEFINE r == Mine(w)
           b == posted[wk[w].job] > 0
<1>0. /\ r \in JobRow /\ RowInv(r)
      /\ Fenced(w) => r.live /\ r.owner = w
  BY Busy DEF Fenced, LeasedBy
<1>left. Leave(w) => GoesOn(w, "idle", NONE, NONE)
  BY GoesOnForms
<1>fail. ASSUME Fenced(w), Leave(w), SetRow(wk[w].job, MarkFailedPermanentRow(r))
         PROVE  LawfulMove(w)
  BY <1>0, <1>left, <1>fail, LeasedEnds, ReleasedFields, HolderLawful
<1>1. CASE ScheduleRetry(w)
  <2>1. /\ Fenced(w) /\ Leave(w) /\ r.state \in RetryTargets
        /\ \/ SetRow(wk[w].job, MarkFailedPermanentRow(r))
           \/ SetRow(wk[w].job, ScheduleRetryRow(r, r.state))
    BY <1>1 DEF ScheduleRetry
  <2>2. /\ LegalStep(r, ScheduleRetryRow(r, r.state), b)
        /\ ScheduleRetryRow(r, r.state).owner = NoWorker
    BY <1>0, <2>1, LeasedEnds, ScheduleRetryFields
  <2> QED BY <1>fail, <1>left, <2>1, <2>2, HolderLawful
<1>2. CASE ProviderExhausted(w) \/ PermanentFailure(w)
  BY <1>2, <1>fail DEF ProviderExhausted, PermanentFailure
<1>3. CASE MarkSuperseded(w)
  <2> DEFINE u == UncountAttemptRow(r, wk[w].att)
             s == MarkSupersededRow(u)
  <2>1. /\ Leave(w)
        /\ \/ Fenced(w) /\ SetRow(wk[w].job, s)
           \/ SetRow(wk[w].job, u)
    BY <1>3 DEF MarkSuperseded
  <2>2. u.state = r.state /\ u.live = r.live /\ RowInv(u)
    BY <1>0, AttemptColumns, UncountSound
  <2>3. Fenced(w) => LegalStep(u, s, b) /\ s.owner = NoWorker
    BY <1>0, <2>2, LeasedEnds, ReleasedFields DEF RowInv
  <2>4. Fenced(w) => LegalStep(r, s, b)
    <3>1. Fenced(w) => s.state = "SUPERSEDED" /\ r.state \in RetryTargets \cup {"RECEIVED"}
      BY <1>0, <2>2, ReleasedFields DEF RowInv
    <3> HIDE DEF s
    <3> QED BY <3>1 DEF LegalStep, CanTransition, AllowedTransitions, Exits, RetryTargets
  <2>5. CASE Fenced(w) /\ SetRow(wk[w].job, s)
    <3> HIDE DEF s, u
    <3> QED BY <1>left, <2>1, <2>3, <2>4, <2>5, HolderLawful
  <2>6. CASE SetRow(wk[w].job, u)
    BY <2>1, <2>6, FinishLawful
  <2> QED BY <2>1, <2>5, <2>6
<1>4. CASE LeaseRefused(w) \/ Abandon(w)
  BY <1>4, <1>left, QuietLawful DEF LeaseRefused, Abandon
<1>5. CASE LeaseStall(w)
  <2> DEFINE s == [r EXCEPT !.live = FALSE]
  <2>1. SetRow(wk[w].job, s) /\ GoesOn(w, wk[w].pc, wk[w].st, wk[w].snap)
    BY <1>5, GoesOnForms DEF LeaseStall
  <2>2. /\ s.state = r.state /\ s.progress = r.progress /\ s.owner = r.owner /\ ~s.live
    BY <1>0 DEF JobRow
  <2> HIDE DEF s
  <2>3. Onward(w, wk[w].pc, s)
    BY <2>2 DEF Onward, LeasedBy
  <2> QED BY <2>1, <2>2, <2>3, ColumnsLawful
<1>6. CASE CallTransient(w)
  <2>1. /\ GotoFailed(w, TransientExit(wk[w].pc)) /\ UNCHANGED jobs
        /\ TransientExit(wk[w].pc) \in {"retryFetch", "retryReconcile", "ambiguousAgain"}
    BY <1>6 DEF CallTransient, TransientExit
  <2> QED BY <2>1, GoesOnForms, QuietLawful
<1>7. CASE CallPermanent(w)
  <2>1. /\ GotoFailed(w, PermanentExit(w)) /\ UNCHANGED jobs
        /\ PermanentExit(w) \in {"fail", "retryReconcile", "supersede", "failPublication"}
    BY <1>7 DEF CallPermanent, PermanentExit
  <2> QED BY <2>1, GoesOnForms, QuietLawful
<1> QED BY <1>1, <1>2, <1>3, <1>4, <1>5, <1>6, <1>7

\* The review phase.
LEMMA ReviewLawful ==
    ASSUME IInv, NEW w \in Workers, wk[w].pc # "idle",
           \/ ReviewStep(w) \/ ProbeFails(w) \/ ReviewPermanent(w) \/ ReprobeFails(w)
           \/ \E provider \in BOOLEAN : ReviewTransient(w, provider)
    PROVE  LawfulMove(w)
<1> DEFINE r == Mine(w)
           b == posted[wk[w].job] > 0
<1>0. /\ r \in JobRow /\ RowInv(r)
      /\ Fenced(w) => r.live /\ r.owner = w
  BY Busy DEF Fenced, LeasedBy
<1>1. CASE ToFetching(w) \/ ToReviewing(w) \/ Promote(w)
  BY <1>1, TransitLawful DEF ToFetching, ToReviewing, Promote
<1>2. CASE FetchGate(w) \/ ReviewGate(w)
  BY <1>2, StartLawful DEF FetchGate, ReviewGate
<1>3. CASE Fetch(w) \/ Reprobe(w) \/ ReprobeFails(w) \/ ReviewPermanent(w)
  <2>1. /\ UNCHANGED jobs
        /\ \E l \in {"fail", "supersede", "fetched", "promote", "retryReview", "retryProvider",
                     "retryRecovery"} : Goto(w, l) \/ GotoFailed(w, l)
    BY <1>3 DEF Fetch, Reprobe, ReprobeFails, ReviewPermanent
  <2> QED BY <2>1, GoesOnForms, QuietLawful
<1>4. CASE Fetched(w)
  BY <1>4, FinishLawful DEF Fetched, FinishAttempt
<1>5. CASE FinishReview(w)
  BY <1>5, FinishLawful DEF FinishReview
<1>6. CASE Probe(w) \/ ProbeFails(w)
  <2> DEFINE s == [r EXCEPT !.bound = TRUE]
  <2>1. /\ SetRow(wk[w].job, s) /\ wk[w].pc = "probe"
        /\ \E l : /\ Goto(w, l) /\ l # "review"
                  /\ l = "reviewGate" => ~r.progress
    BY <1>6 DEF Probe, ProbeFails, At
  <2>2. /\ s.state = r.state /\ s.progress = r.progress /\ s.owner = r.owner /\ s.live = r.live
    BY <1>0 DEF JobRow
  <2> HIDE DEF s
  <2>3. PICK l : Goto(w, l) /\ l # "review" /\ (l = "reviewGate" => ~r.progress)
    BY <2>1
  <2>4. GoesOn(w, l, wk[w].st, wk[w].snap) /\ Onward(w, l, s)
    BY <2>2, <2>3, GoesOnForms DEF Onward
  <2> QED BY <2>1, <2>2, <2>4, ColumnsLawful
<1>7. CASE Review(w)
  <2> DEFINE s == [r EXCEPT !.progress = TRUE]
  <2>1. /\ GoesOn(w, "promote", wk[w].st, wk[w].snap)
        /\ UNCHANGED jobs \/ (Fenced(w) /\ SetRow(wk[w].job, s))
    BY <1>7, GoesOnForms DEF Review
  <2>2. s.state = r.state /\ s.owner = r.owner
    BY <1>0 DEF JobRow
  <2> HIDE DEF s
  <2>3. LegalStep(r, s, b)
    BY <2>2 DEF LegalStep, CanTransition
  <2> QED BY <1>0, <2>1, <2>2, <2>3, HolderLawful, QuietLawful
<1>8. ASSUME NEW provider \in BOOLEAN, ReviewTransient(w, provider)
      PROVE  LawfulMove(w)
  <2>1. \E l \in {"reprobe", "reprobeProvider"} : GoesOn(w, l, wk[w].st, wk[w].snap)
    BY <1>8, GoesOnForms DEF ReviewTransient
  <2>2. PICK saved \in BOOLEAN :
            /\ saved => Fenced(w)
            /\ LET row == [r EXCEPT !.progress = @ \/ saved]
               IN  SetRow(wk[w].job, IF provider THEN UncountAttemptRow(row, wk[w].att) ELSE row)
    BY <1>8 DEF ReviewTransient
  <2> DEFINE p == r.progress \/ saved
             row == [r EXCEPT !.progress = p]
             u == UncountAttemptRow(row, wk[w].att)
             new == IF provider THEN u ELSE row
  <2>3. SetRow(wk[w].job, new) /\ p \in BOOLEAN
    BY <2>2
  <2>4. saved \/ (p <=> r.progress)
    OBVIOUS
  <2>5. r.progress \in BOOLEAN
    BY <1>0 DEF JobRow
  <2>6. ~saved => p = r.progress
    BY <2>4, <2>5
  <2> HIDE DEF p
  <2>7. row.state = r.state /\ row.progress = p /\ row.owner = r.owner /\ row.live = r.live
        /\ row \in JobRow
    BY <1>0, <2>3 DEF JobRow
  <2> HIDE DEF row
  <2>8. u.state = r.state /\ u.progress = p /\ u.owner = r.owner /\ u.live = r.live
    BY <2>7, AttemptColumns
  <2> HIDE DEF u
  <2>9. new.state = r.state /\ new.progress = p /\ new.owner = r.owner /\ new.live = r.live
    BY <2>7, <2>8
  <2> HIDE DEF new
  <2>10. LegalStep(r, new, b) /\ (saved => new.owner = w) /\ (~saved => new.progress = r.progress)
    BY <1>0, <2>2, <2>6, <2>9 DEF LegalStep, CanTransition
  <2>11. CASE saved
    BY <2>1, <2>3, <2>10, <2>11, HolderLawful
  <2>12. CASE ~saved
    BY <2>1, <2>3, <2>9, <2>10, <2>12, ColumnsLawful DEF Onward
  <2> QED BY <2>11, <2>12
<1>9. CASE Save(w)
  <2>1. /\ SetRow(wk[w].job, SaveReviewResultRow(r))
        /\ \E l \in {"idle", "finishReview"} : GoesOn(w, l, wk[w].st, wk[w].snap)
    BY <1>9, GoesOnForms DEF Save
  <2>2. r.state = "VALIDATING"
    BY <1>9, Busy DEF Save, At, Fenced, WorkerInv, Mine
  <2>3. /\ SaveReviewResultRow(r).owner = NoWorker
        /\ SaveReviewResultRow(r).state = "READY_TO_PUBLISH"
    BY <1>0, ReleasedFields
  <2>4. LegalStep(r, SaveReviewResultRow(r), b)
    BY <2>2, <2>3 DEF LegalStep, CanTransition, AllowedTransitions
  <2> QED BY <2>1, <2>3, <2>4, HolderLawful
<1> QED BY <1>1, <1>2, <1>3, <1>4, <1>5, <1>6, <1>7, <1>8, <1>9 DEF ReviewStep

\* The publish phase.
LEMMA PublishLawful ==
    ASSUME IInv, NEW w \in Workers, wk[w].pc # "idle",
           PublishStep(w) \/ PostTransient(w) \/ VoteRetry(w)
    PROVE  LawfulMove(w)
<1> DEFINE r == Mine(w)
           b == posted[wk[w].job] > 0
<1>0. /\ r \in JobRow /\ RowInv(r) /\ wk[w].snap \in PublicationStatus \cup {NONE}
      /\ Fenced(w) => r.live /\ r.owner = w
  BY Busy DEF Fenced, LeasedBy, WorkerRecord
<1>left. Leave(w) => GoesOn(w, "idle", NONE, NONE)
  BY GoesOnForms
<1>entry. \A status \in PublicationStatus \cup {NONE} :
              /\ PublishEntry(status) \notin {"reviewGate", "review"}
              /\ ResolveEntry(status) \notin {"reviewGate", "review"}
  BY EntryTargets
<1>goes. \A l : Goto(w, l) \/ GotoFailed(w, l) => GoesOn(w, l, wk[w].st, wk[w].snap)
  BY GoesOnForms
<1>begin. \A l, x : wk' = [wk EXCEPT ![w].pc = l, ![w].snap = x] => GoesOn(w, l, wk[w].st, x)
  BY GoesOnForms
<1>1. CASE ToPublishing(w)
  BY <1>0, <1>1, <1>entry, TransitLawful DEF ToPublishing
<1>2. CASE PublishGate(w)
  BY <1>2, StartLawful DEF PublishGate
<1>3. CASE Load(w)
  <2>1. UNCHANGED jobs /\ GoesOn(w, "latest", wk[w].st, r.pub)
    BY <1>3, <1>begin DEF Load
  <2> QED BY <2>1, QuietLawful
<1>4. CASE Latest(w)
  <2>1. /\ UNCHANGED jobs
        /\ \/ Goto(w, ResolveEntry(wk[w].snap)) \/ Goto(w, "toPublishing")
           \/ Goto(w, PublishEntry(wk[w].snap))
    BY <1>4 DEF Latest
  <2> QED BY <1>0, <1>entry, <2>1, <1>goes, QuietLawful
<1>5. CASE StartReconcile(w) \/ Lookup(w) \/ ResolveLookup(w) \/ Guard(w) \/ Post(w)
           \/ Recheck(w) \/ PreGet(w) \/ PostTransient(w)
  <2>1. UNCHANGED jobs
    BY <1>5 DEF StartReconcile, Lookup, ResolveLookup, Guard, Post, Recheck, PreGet,
                RevisionCheck, PostTransient
  <2>2. \/ Leave(w)
        \/ \E l \in {"lookup", "resolveLookup", "complete", "recheck", "supersede", "post",
                     "posted", "failPublication", "publishGate", "guard", "ambiguousAgain"} :
              Goto(w, l) \/ GotoFailed(w, l)
    <3>1. CASE StartReconcile(w) \/ Lookup(w) \/ ResolveLookup(w)
      BY <3>1 DEF StartReconcile, Lookup, ResolveLookup
    <3>2. CASE Guard(w) \/ Post(w) \/ PostTransient(w)
      BY <3>2 DEF Guard, Post, PostTransient
    <3>3. CASE Recheck(w) \/ PreGet(w)
      BY <3>3 DEF Recheck, PreGet, RevisionCheck
    <3> QED BY <1>5, <3>1, <3>2, <3>3
  <2>3. CASE Leave(w)
    BY <1>left, <2>1, <2>3, QuietLawful
  <2>4. CASE ~Leave(w)
    <3>1. PICK l \in {"lookup", "resolveLookup", "complete", "recheck", "supersede", "post",
                     "posted", "failPublication", "publishGate", "guard", "ambiguousAgain"} :
              Goto(w, l) \/ GotoFailed(w, l)
      BY <2>2, <2>4
    <3> QED BY <2>1, <3>1, <1>goes, QuietLawful
  <2> QED BY <2>3, <2>4
<1>6. CASE Begin(w)
  <2> DEFINE s == BeginPublicationRow(r)
  <2>1. /\ SetRow(wk[w].job, s)
        /\ GoesOn(w, PublishEntry(s.pub), wk[w].st, s.pub)
        /\ Fenced(w)
    BY <1>6, <1>begin DEF Begin
  <2>2. s.state = r.state /\ s.owner = r.owner /\ s.pub \in PublicationStatus \cup {NONE}
    BY <1>0 DEF BeginPublicationRow, JobRow, PublicationStatus
  <2> HIDE DEF s
  <2>3. LegalStep(r, s, b)
    BY <2>2 DEF LegalStep, CanTransition
  <2> QED BY <1>0, <1>entry, <2>1, <2>2, <2>3, HolderLawful
<1>7. CASE MarkAmbiguous(w) \/ FailPublication(w)
  <2>1. \E x, l : /\ SetRow(wk[w].job, MarkPublicationRow(r, x)) /\ Goto(w, l)
                  /\ l \in {"preGet", "retryPublish", "fail"}
    BY <1>7 DEF MarkAmbiguous, FailPublication
  <2>2. \A x : /\ MarkPublicationRow(r, x).state = r.state
               /\ MarkPublicationRow(r, x).progress = r.progress
               /\ MarkPublicationRow(r, x).owner = r.owner
               /\ MarkPublicationRow(r, x).live = r.live
    BY <1>0 DEF MarkPublicationRow, JobRow
  <2> QED BY <2>1, <2>2, <1>goes, ColumnsLawful DEF Onward
<1>8. CASE Posted(w)
  BY <1>8, FinishLawful DEF Posted, FinishAttempt
<1>9. CASE CompleteWithVote(w)
  <2>1. CASE UNCHANGED jobs /\ Leave(w)
    BY <1>left, <2>1, QuietLawful
  <2>2. CASE /\ Fenced(w) /\ r.state = "PUBLISHING"
             /\ SetRow(wk[w].job, CompletePublicationRow(r, TRUE)) /\ Goto(w, "vote")
    <3> DEFINE s == CompletePublicationRow(r, TRUE)
    <3>1. s.state = "PUBLISHING" /\ s.owner = r.owner
      BY <1>0, DeferDoneFields
    <3>2. SetRow(wk[w].job, s) /\ GoesOn(w, "vote", wk[w].st, wk[w].snap)
      BY <1>goes, <2>2
    <3> HIDE DEF s
    <3>3. LegalStep(r, s, b)
      BY <2>2, <3>1 DEF LegalStep, CanTransition
    <3> QED BY <1>0, <2>2, <3>1, <3>2, <3>3, HolderLawful
  <2> QED BY <1>9, <2>1, <2>2 DEF CompleteWithVote
<1>10. CASE CompleteLegacy(w)
  <2>1. Leave(w) /\ b
    BY <1>10, Busy DEF CompleteLegacy, At, WorkerInv, ConfirmedPCs
  <2>2. CASE UNCHANGED jobs
    BY <1>left, <2>1, <2>2, QuietLawful
  <2>3. CASE /\ r.state \in {"SUPERSEDED", "PUBLISHING"}
             /\ SetRow(wk[w].job, CompletePublicationRow(r, FALSE))
    <3>1. /\ CompletePublicationRow(r, FALSE).state = "DONE"
          /\ CompletePublicationRow(r, FALSE).owner = NoWorker
      BY <1>0 DEF CompletePublicationRow, Released, JobRow
    <3>2. LegalStep(r, CompletePublicationRow(r, FALSE), b)
      BY <2>1, <2>3, <3>1 DEF LegalStep, CanTransition, AllowedTransitions
    <3> QED BY <1>left, <2>1, <2>3, <3>1, <3>2, HolderLawful
  <2> QED BY <1>10, <2>2, <2>3 DEF CompleteLegacy
<1>11. CASE Vote(w)
  <2>1. Leave(w)
    BY <1>11 DEF Vote
  <2>2. CASE UNCHANGED jobs
    BY <1>left, <2>1, <2>2, QuietLawful
  <2>3. CASE r.state = "PUBLISHING" /\ SetRow(wk[w].job, FinishVoteRow(r))
    <3>1. FinishVoteRow(r).state = "DONE" /\ FinishVoteRow(r).owner = NoWorker
      BY <1>0 DEF FinishVoteRow, Released, JobRow
    <3>2. LegalStep(r, FinishVoteRow(r), b)
      BY <2>3, <3>1 DEF LegalStep, CanTransition, AllowedTransitions
    <3> QED BY <1>left, <2>1, <2>3, <3>1, <3>2, HolderLawful
  <2> QED BY <1>11, <2>2, <2>3 DEF Vote
<1>12. CASE VoteRetry(w)
  <2>1. /\ Leave(w) /\ Fenced(w) /\ r.state = "PUBLISHING"
        /\ SetRow(wk[w].job, ScheduleRetryRow(r, r.state))
    BY <1>12 DEF VoteRetry
  <2>2. /\ LegalStep(r, ScheduleRetryRow(r, r.state), b)
        /\ ScheduleRetryRow(r, r.state).owner = NoWorker
    BY <1>0, <2>1, LeasedEnds, ScheduleRetryFields DEF RetryTargets
  <2> QED BY <1>left, <2>1, <2>2, HolderLawful
<1> QED
  BY <1>1, <1>2, <1>3, <1>4, <1>5, <1>6, <1>7, <1>8, <1>9, <1>10, <1>11, <1>12 DEF PublishStep

\* _claim_select grants a lease nobody else holds.
LEMMA ClaimLawful ==
    ASSUME IInv, ProbeHolds, NEW w \in Workers, NEW p \in PS, Claim(w, p)
    PROVE  ProbeHolds' /\ AllLegal /\ FreshReview
<1> DEFINE r == jobs[p]
           s == ClaimRow(r, w)
           k == [IdleWorker EXCEPT !.pc = FirstStep(s.state), !.job = p,
                                   !.st = s.state, !.pol = s.bound]
<1>1. /\ jobs' = [jobs EXCEPT ![p] = s] /\ wk' = [wk EXCEPT ![w] = k]
      /\ Pending(r) /\ ~r.live /\ wk[w].pc = "idle"
  BY DEF Claim, Claimable, SetRow, At
<1>2. jobs \in [PS -> JobRow] /\ r \in JobRow /\ RowInv(r) /\ wk = [v \in Workers |-> wk[v]]
  BY DEF IInv
<1>3. /\ s.owner = w
      /\ s.state = r.state \/ (r.state = "RETRY_WAIT" /\ s.state = r.retry)
  BY <1>2 DEF ClaimRow, JobRow
<1>4. k.pc \notin {"reviewGate", "review"}
  BY DEF IdleWorker, FirstStep
<1> HIDE DEF s, k
<1>5. LegalStep(r, s, posted[p] > 0)
  BY <1>2, <1>3 DEF LegalStep, CanTransition, AllowedTransitions, RowInv
<1>6. AllLegal
  BY <1>1, <1>2, <1>5 DEF AllLegal, LegalStep, CanTransition
<1>7. FreshReview
  BY <1>1, <1>2 DEF FreshReview, At
<1>8. ASSUME NEW v \in Workers, wk'[v].pc = "reviewGate", LeasedBy(jobs'[wk'[v].job], v)
      PROVE  ~jobs'[wk'[v].job].progress
  <2>1. v # w /\ wk'[v] = wk[v]
    BY <1>1, <1>2, <1>4, <1>8
  <2>2. wk[v].job \in PS /\ Mine(v) = jobs[wk[v].job]
    BY <1>8, <2>1, Busy DEF Mine
  <2>3. wk[v].job # p
    BY <1>1, <1>2, <1>3, <1>8, <2>1 DEF LeasedBy
  <2>4. jobs'[wk[v].job] = Mine(v)
    BY <1>1, <1>2, <2>2, <2>3
  <2> QED BY <1>8, <2>1, <2>4 DEF ProbeHolds, At, Fenced
<1>9. ProbeHolds'
  BY <1>8 DEF ProbeHolds, At, Fenced, Mine
<1> QED BY <1>6, <1>7, <1>9

\* enqueue, for one row of the change.
LEMMA EnqueueLawful ==
    ASSUME NEW t \in [PS -> JobRow], NEW p \in PS, NEW q \in PS, RowInv(t[q]),
           NEW preCutoff \in BOOLEAN, NEW revive \in BOOLEAN, NEW e, NEW b,
           e = [t EXCEPT ![p] = EnqueuedRow(t[p], preCutoff, revive)]
    PROVE  Lawful(t[q], ApplyPatchsetOrdering(e, p)[q], NoWorker, b)
<1> DEFINE r == t[q]
           late(x) == Released([x EXCEPT !.state = "SUPERSEDED"])
           u == ApplyPatchsetOrdering(e, p)[q]
<1>1. r \in JobRow /\ (q # p => e[q] = r)
  OBVIOUS
<1>2. q = p => e[q] = EnqueuedRow(r, preCutoff, revive)
  OBVIOUS
<1>3. /\ e[q].progress = r.progress /\ e[q].owner = r.owner /\ e[q].live = r.live
      /\ e[q] \in JobRow
      /\ \/ e[q].state = r.state
         \/ r.state = ABSENT /\ e[q].state \in {"RECEIVED", "SKIPPED_SCOPE"}
         \/ r.state = "SKIPPED_SCOPE" /\ e[q].state = "RECEIVED"
  <2>1. CASE q = p
    <3>1. \/ e[q] = r
          \/ e[q] = [r EXCEPT !.state = "RECEIVED"] /\ r.state = ABSENT
          \/ e[q] = [r EXCEPT !.state = "SKIPPED_SCOPE"] /\ r.state = ABSENT
          \/ e[q] = [r EXCEPT !.state = "RECEIVED", !.retry = NONE] /\ r.state = "SKIPPED_SCOPE"
      BY <1>2, <2>1 DEF EnqueuedRow, Exists
    <3> QED BY <1>1, <3>1 DEF JobRow, JobState
  <2>2. CASE q # p
    BY <1>1, <2>2
  <2> QED BY <2>1, <2>2
<1>4. \/ u = e[q]
      \/ Pending(e[q]) /\ (u = late(e[q]) \/ u = MarkSupersededRow(e[q]))
  BY DEF ApplyPatchsetOrdering
<1>5. /\ late(e[q]).owner = NoWorker /\ late(e[q]).state = "SUPERSEDED"
      /\ MarkSupersededRow(e[q]).owner = NoWorker
      /\ MarkSupersededRow(e[q]).state = "SUPERSEDED"
  BY <1>3, ReleasedFields DEF Released, JobRow
<1> HIDE DEF late, u
<1>6. CASE u = e[q]
  <2>1. LegalStep(r, e[q], b)
    BY <1>3 DEF LegalStep, CanTransition
  <2>2. Lawful(r, e[q], NoWorker, b)
    BY <1>3, <2>1 DEF Lawful, LeasedBy
  <2> QED BY <1>6, <2>2 DEF u
<1>7. CASE Pending(e[q]) /\ (u = late(e[q]) \/ u = MarkSupersededRow(e[q]))
  <2>1. u.owner = NoWorker /\ u.state = "SUPERSEDED"
    BY <1>5, <1>7
  <2>2. r.state \in {ABSENT, "SKIPPED_SCOPE"} \/ Pending(r)
    BY <1>3, <1>7 DEF Pending, Exists
  <2>3. Pending(r) => "SUPERSEDED" \in AllowedTransitions(r.state)
    BY <1>1 DEF Pending, Exists, JobRow, JobState, TerminalJobStates, AllowedTransitions, Exits
  <2>4. LegalStep(r, u, b)
    BY <2>1, <2>2, <2>3 DEF LegalStep, CanTransition
  <2>5. Lawful(r, u, NoWorker, b)
    BY <2>1, <2>4, OwnerLawful
  <2> QED BY <2>5 DEF u
<1> QED BY <1>4, <1>6, <1>7

\* What is not a step of a worker.
LEMMA OutsideLawful ==
    ASSUME IInv, ProbeHolds,
           GerritStep \/ EventStep \/ OperatorStep \/ (\E p \in PS : LeaseExpire(p))
    PROVE  ProbeHolds' /\ AllLegal /\ FreshReview
<1>0. /\ jobs \in [PS -> JobRow]
      /\ \A q \in PS : RowInv(jobs[q])
      /\ \A q \in PS : \A b : Lawful(jobs[q], jobs[q], NoWorker, b)
  BY SameLawful DEF IInv
<1>same. UNCHANGED <<jobs, wk>> => ProbeHolds' /\ AllLegal /\ FreshReview
  BY <1>0, TableLawful
<1>1. CASE GerritStep
  BY <1>1, <1>same DEF GerritStep, Upload, ChangeCloses, Restore, CommitLatePost
<1>2. ASSUME NEW p \in PS, NEW dated \in BOOLEAN, Enqueue(p, dated)
      PROVE  ProbeHolds' /\ AllLegal /\ FreshReview
  <2> DEFINE preCutoff == dated /\ startMode = "FROM_NOW" /\ p <= cutoff
             revive == enabled /\ startMode = "INCLUDE_OPEN"
             e == [jobs EXCEPT ![p] = EnqueuedRow(jobs[p], preCutoff, revive)]
  <2>1. jobs' = ApplyPatchsetOrdering(e, p) /\ UNCHANGED wk
    BY <1>2 DEF Enqueue
  <2>2. preCutoff \in BOOLEAN /\ revive \in BOOLEAN
    BY DEF IInv, ScalarsOK
  <2> HIDE DEF preCutoff, revive
  <2>3. e = [jobs EXCEPT ![p] = EnqueuedRow(jobs[p], preCutoff, revive)]
    OBVIOUS
  <2> HIDE DEF e
  <2>4. \A q \in PS : Lawful(jobs[q], jobs'[q], NoWorker, posted[q] > 0)
    BY <1>0, <2>1, <2>2, <2>3, EnqueueLawful
  <2> QED BY <2>1, <2>4, TableLawful
<1>3. ASSUME NEW p \in PS, Requeue(p)
      PROVE  ProbeHolds' /\ AllLegal /\ FreshReview
  <2> DEFINE s == RequeueRow(jobs[p])
  <2>1. jobs[p].state = "FAILED_PERMANENT" /\ jobs' = [jobs EXCEPT ![p] = s] /\ UNCHANGED wk
    BY <1>3 DEF Requeue, SetRow
  <2>2. s.owner = NoWorker /\ s.epoch = jobs[p].epoch + 1
    BY <1>0 DEF RequeueRow, Released, JobRow
  <2> HIDE DEF s
  <2>3. Lawful(jobs[p], s, NoWorker, posted[p] > 0)
    BY <2>1, <2>2, OwnerLawful DEF LegalStep
  <2>4. \A q \in PS : Lawful(jobs[q], jobs'[q], NoWorker, posted[q] > 0)
    BY <1>0, <2>1, <2>3
  <2> QED BY <2>1, <2>4, TableLawful
<1>4. ASSUME UNCHANGED wk, jobs' = SkipPreCutoffJobs(jobs)
      PROVE  ProbeHolds' /\ AllLegal /\ FreshReview
  <2>1. ASSUME NEW q \in PS
        PROVE  Lawful(jobs[q], jobs'[q], NoWorker, posted[q] > 0)
    <3> DEFINE s == Released([jobs[q] EXCEPT !.state = "SKIPPED_SCOPE", !.retry = NONE])
    <3>1. s.state = "SKIPPED_SCOPE" /\ s.owner = NoWorker
      BY <1>0 DEF Released, JobRow
    <3>2. \/ jobs'[q] = jobs[q]
          \/ Pending(jobs[q]) /\ ~jobs[q].live /\ jobs[q].pub = NONE /\ jobs'[q] = s
      BY <1>4 DEF SkipPreCutoffJobs
    <3> HIDE DEF s
    <3> QED BY <1>0, <3>1, <3>2, OwnerLawful DEF LegalStep
  <2> QED BY <1>4, <2>1, TableLawful
<1>5. CASE OperatorStep
  <2>1. CASE \E p \in PS : Requeue(p)
    BY <1>3, <2>1
  <2>2. CASE ~ \E p \in PS : Requeue(p)
    <3>1. UNCHANGED wk /\ (UNCHANGED jobs \/ jobs' = SkipPreCutoffJobs(jobs))
      BY <1>5, <2>2 DEF OperatorStep, UpsertProject, SetProjectReviewStartMode, SetProjectEnabled,
                        SetScope
    <3> QED BY <1>4, <1>same, <3>1
  <2> QED BY <2>1, <2>2
<1>6. ASSUME NEW p \in PS, LeaseExpire(p)
      PROVE  ProbeHolds' /\ AllLegal /\ FreshReview
  <2> DEFINE s == [jobs[p] EXCEPT !.live = FALSE]
  <2>1. jobs' = [jobs EXCEPT ![p] = s] /\ UNCHANGED wk
    BY <1>6 DEF LeaseExpire, SetRow
  <2>2. /\ s.state = jobs[p].state /\ s.progress = jobs[p].progress
        /\ s.owner = jobs[p].owner /\ ~s.live
    BY <1>0 DEF JobRow
  <2> HIDE DEF s
  <2>3. \A q \in PS : Lawful(jobs[q], jobs'[q], NoWorker, posted[q] > 0)
    BY <1>0, <2>1, <2>2, SameLawful
  <2> QED BY <2>1, <2>3, TableLawful
<1> QED BY <1>1, <1>2, <1>5, <1>6 DEF EventStep

\* Every step of every actor.
LEMMA NextLawful ==
    ASSUME IInv, ProbeHolds, Next
    PROVE  ProbeHolds' /\ AllLegal /\ FreshReview
<1>1. CASE GerritStep \/ EventStep \/ OperatorStep \/ \E p \in PS : LeaseExpire(p)
  BY <1>1, OutsideLawful
<1>2. CASE \E w \in Workers, p \in PS : Claim(w, p)
  BY <1>2, ClaimLawful
<1>3. ASSUME NEW w \in Workers, WorkerStep(w) \/ FaultStep(w) \/ ProviderExhausted(w)
      PROVE  ProbeHolds' /\ AllLegal /\ FreshReview
  <2>1. wk[w].pc # "idle"
    BY <1>3, BusySteps
  <2>2. LawfulMove(w)
    BY <1>3, <2>1, SharedLawful, ReviewLawful, PublishLawful DEF WorkerStep, FaultStep
  <2> QED BY <2>1, <2>2, MoveLawful
<1> QED BY <1>1, <1>2, <1>3 DEF Next

\* What the recovery probe has read of the progress table under the lease still
\* holds when the REVIEW attempt starts.
THEOREM ProbeStaysTrue == Spec => []ProbeHolds
<1>1. Init => ProbeHolds
  BY DEF Init, ProbeHolds, At, IdleWorker
<1>2. IInv /\ ProbeHolds /\ [Next]_vars => ProbeHolds'
  <2>1. IInv /\ ProbeHolds /\ Next => ProbeHolds'
    BY NextLawful
  <2>2. ProbeHolds /\ UNCHANGED vars => ProbeHolds'
    BY DEF vars, ProbeHolds, At, Fenced, Mine
  <2> QED BY <2>1, <2>2
<1> QED BY <1>1, <1>2, Invariance, PTL DEF Spec

\* Every change of a job's state is one of the transition table
\* (state_machine.py) or a documented exception, although most transactions of
\* jobs/store.py write the state without asking the table.
THEOREM TransitionsAreLegal == Spec => LegalTransitions
<1>1. IInv /\ ProbeHolds /\ [Next]_vars =>
          [\A p \in PS : LegalStep(jobs[p], jobs'[p], posted[p] > 0)]_vars
  BY NextLawful DEF AllLegal
<1> QED BY <1>1, Invariance, ProbeStaysTrue, PTL DEF Spec, LegalTransitions

\* No REVIEW attempt starts for a review that is complete in the progress
\* table, whoever has completed it and however its COMMIT was answered.
THEOREM ReviewIsFresh == Spec => NoRepeatedInference
<1>1. IInv /\ ProbeHolds /\ [Next]_vars =>
          [\A w \in Workers :
              At(w, "reviewGate") /\ wk'[w].pc = "review" => ~Mine(w).progress]_vars
  BY NextLawful DEF FreshReview
<1> QED BY <1>1, Invariance, ProbeStaysTrue, PTL DEF Spec, NoRepeatedInference

=============================================================================
