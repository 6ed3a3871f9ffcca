----------------------------- MODULE ReviewJobs -----------------------------
(***************************************************************************)
(* The life of the review jobs of one Gerrit change: events enqueue them,  *)
(* worker slots claim them under leases, review them, publish the review   *)
(* to Gerrit and resolve what a crash, a lost response or a newer Patch    *)
(* Set leaves open (service.py, jobs/store.py, gerrit/client.py).          *)
(*                                                                         *)
(* A worker's pc names the database transaction or Gerrit call it is about *)
(* to make; between two of them every other actor may run.                 *)
(***************************************************************************)
EXTENDS JobRows

CONSTANTS
    StallPoints,  \* pcs at which a running worker may outlive its lease
    LatePosts,    \* may Gerrit commit a POST after its client gave up?
    ScopeAdmin,   \* does the operator change the project's review scope?
    LegacyPS,     \* Patch Set already READY_TO_PUBLISH, without a policy
                  \* snapshot, when this version starts; 0: there is none
    MaxRequeues,  \* bound: operator requeues per job
    BoundFaults,  \* are failures counted and bounded by MaxFaults?
    MaxFaults     \* bound: failures, when they are counted

\* Calls the store refuses, with a plain RuntimeError, without a live lease.
FencedPCs ==
    {"toFetching", "fetchGate", "toReviewing", "probe", "reviewGate",
     "promote", "save", "toPublishing", "begin", "startReconcile",
     "startResolve", "publishGate", "vote", "fail", "retryFetch",
     "retryReview", "retryRecovery", "retryProvider", "retryReconcile",
     "retryPublish"}

\* Steps that need no lease: Gerrit, Git and model calls, reads, attempt ends
\* and the unfenced publication updates.
UnfencedPCs ==
    {"fetch", "fetched", "review", "reprobe", "reprobeProvider",
     "finishReview", "load", "latest", "lookup", "resolveLookup", "recheck",
     "markAmbiguous", "preGet", "guard", "post", "posted", "ambiguousAgain",
     "failPublication", "complete", "supersede"}

BusyPCs == FencedPCs \cup UnfencedPCs

ASSUME BoundsAssumption ==
    /\ StallPoints \subseteq BusyPCs
    /\ {LatePosts, ScopeAdmin, BoundFaults} \subseteq BOOLEAN
    /\ LegacyPS \in PS \cup {0}
    /\ MaxRequeues \in Nat
    /\ MaxFaults \in Nat

VARIABLES
    jobs,       \* the job rows of the change, by Patch Set
    wk,         \* the worker slots
    current,    \* Gerrit: the change's current Patch Set, 0 before the first
    chStatus,   \* Gerrit: the change's status
    posted,     \* Gerrit: copies of the Patch Set's review comments
    inFlight,   \* POSTs given up by their client and not yet committed
    enabled,    \* managed project: enabled (TRUE while unmanaged)
    startMode,  \* managed project: review_start_mode, NONE while unmanaged
    cutoff,     \* Patch Sets uploaded before review_start_at, 0 if it is NULL
    faults      \* failures so far, when they are counted

gerritVars == <<current, chStatus, posted, inFlight>>
scopeVars == <<enabled, startMode, cutoff>>
vars == <<jobs, wk, gerritVars, scopeVars, faults>>

ChangeStatus == {"NEW", "MERGED", "ABANDONED"}
StartMode == {"FROM_NOW", "INCLUDE_OPEN"}

NoAttempt == [stage |-> NONE, slot |-> 0, epoch |-> 0]
IdleWorker ==
    [pc |-> "idle", job |-> 0, st |-> NONE, pol |-> FALSE, snap |-> NONE,
     att |-> NoAttempt]

\* job, st, pol, snap: the worker's own, possibly stale, copies of the row's
\* key, its state, whether it has a policy snapshot, and its publication
\* status; att: its open budgeted attempt.
WorkerRecord ==
    [pc   : BusyPCs \cup {"idle"},
     job  : PS \cup {0},
     st   : JobState \cup {NONE},
     pol  : BOOLEAN,
     snap : PublicationStatus \cup {NONE},
     att  : [stage : BudgetStages \cup {NONE}, slot : Nat, epoch : Nat]]

\* Every column and every worker variable holds a value of its kind, a busy
\* worker has a job, and no job ever counts more failed or crashed attempts of
\* a stage than the stage's budget (_can_start_attempt gates start_attempt).
TypeOK ==
    /\ jobs \in [PS -> JobRow]
    /\ \A p \in PS, s \in BudgetStages : jobs[p].spent[s] \subseteq Slots(s)
    /\ wk \in [Workers -> WorkerRecord]
    /\ \A w \in Workers : wk[w].pc # "idle" => wk[w].job \in PS
    /\ current \in PS \cup {0}
    /\ chStatus \in ChangeStatus
    /\ posted \in [PS -> Nat]
    /\ inFlight \in [PS -> Nat]
    /\ enabled \in BOOLEAN
    /\ startMode \in StartMode \cup {NONE}
    /\ cutoff \in PS \cup {0}
    /\ faults \in Nat

Init ==
    /\ jobs = [p \in PS |->
                 IF p = LegacyPS
                 THEN [AbsentRow EXCEPT !.state = "READY_TO_PUBLISH", !.result = TRUE]
                 ELSE AbsentRow]
    /\ wk = [w \in Workers |-> IdleWorker]
    /\ current = LegacyPS
    /\ chStatus = "NEW"
    /\ posted = [p \in PS |-> 0]
    /\ inFlight = [p \in PS |-> 0]
    /\ enabled = TRUE
    /\ startMode = NONE
    /\ cutoff = 0
    /\ faults = 0

-----------------------------------------------------------------------------
(* Helpers: p is the Patch Set of worker w's job. *)

Mine(w) == jobs[wk[w].job]

At(w, label) == wk[w].pc = label

\* The row's lease still belongs to w and has not expired.
Fenced(w) == LeasedBy(Mine(w), w)

SetRow(p, row) == jobs' = [jobs EXCEPT ![p] = row]

Goto(w, label) == wk' = [wk EXCEPT ![w].pc = label]

\* The slot's call of _process_claimed returns or raises.
Leave(w) == wk' = [wk EXCEPT ![w] = IdleWorker]

\* A failed attempt stays counted; w only forgets it.
GotoFailed(w, label) == wk' = [wk EXCEPT ![w].pc = label, ![w].att = NoAttempt]

NoFault == UNCHANGED faults

\* A failure the system is expected to survive; MaxFaults bounds them when
\* BoundFaults asks for it (they then cease eventually).
Fault ==
    /\ BoundFaults => faults < MaxFaults
    /\ faults' = IF BoundFaults THEN faults + 1 ELSE faults

-----------------------------------------------------------------------------
(* Gerrit (external): uploads, submission, abandoning and restoring. *)

Upload ==
    /\ chStatus = "NEW"
    /\ current < MaxPS
    /\ current' = current + 1
    /\ UNCHANGED <<jobs, wk, chStatus, posted, inFlight, scopeVars, faults>>

ChangeCloses ==
    /\ chStatus = "NEW"
    /\ current > 0
    /\ chStatus' \in {"MERGED", "ABANDONED"}
    /\ UNCHANGED <<jobs, wk, current, posted, inFlight, scopeVars, faults>>

Restore ==
    /\ chStatus = "ABANDONED"
    /\ chStatus' = "NEW"
    /\ UNCHANGED <<jobs, wk, current, posted, inFlight, scopeVars, faults>>

\* Gerrit commits a POST whose client timed out before.
CommitLatePost(p) ==
    /\ inFlight[p] > 0
    /\ inFlight' = [inFlight EXCEPT ![p] = @ - 1]
    /\ posted' = [posted EXCEPT ![p] = @ + 1]
    /\ UNCHANGED <<jobs, wk, current, chStatus, scopeVars, faults>>

-----------------------------------------------------------------------------
(* Receiver and reconciler: JobStore.enqueue.  Events of uploaded Patch    *)
(* Sets arrive in any order and any number of times.  The receiver's       *)
(* enabled check is a separate, earlier read, so an event may still be     *)
(* enqueued after the project was disabled; dated: the event carries the   *)
(* upload time.                                                            *)

Enqueue(p, dated) ==
    /\ p <= current
    /\ LET preCutoff == dated /\ startMode = "FROM_NOW" /\ p <= cutoff
           revive == enabled /\ startMode = "INCLUDE_OPEN"
           entered == [jobs EXCEPT ![p] = EnqueuedRow(@, preCutoff, revive)]
       IN  jobs' = ApplyPatchsetOrdering(entered, p)
    /\ UNCHANGED <<wk, gerritVars, scopeVars, faults>>

-----------------------------------------------------------------------------
(* Operator: requeue of a failed job and the project's review scope. *)

Requeue(p) ==
    /\ jobs[p].state = "FAILED_PERMANENT"
    /\ ~NewerKnown(jobs, p)
    /\ jobs[p].epoch < MaxRequeues
    /\ SetRow(p, RequeueRow(jobs[p]))
    /\ UNCHANGED <<wk, gerritVars, scopeVars, faults>>

\* review_start_at := now when mode is FROM_NOW, NULL otherwise.
SetScope(mode) ==
    /\ startMode' = mode
    /\ cutoff' = IF mode = "FROM_NOW" THEN current ELSE 0
    /\ jobs' = IF mode = "FROM_NOW" THEN SkipPreCutoffJobs(jobs) ELSE jobs

UpsertProject(mode, on) ==
    /\ ScopeAdmin
    /\ enabled' = on
    /\ SetScope(mode)
    /\ UNCHANGED <<wk, gerritVars, faults>>

SetProjectReviewStartMode(mode) ==
    /\ ScopeAdmin
    /\ startMode # NONE
    /\ SetScope(mode)
    /\ UNCHANGED <<wk, gerritVars, enabled, faults>>

SetProjectEnabled(on) ==
    /\ ScopeAdmin
    /\ startMode # NONE
    /\ enabled' = on
    /\ IF on /\ startMode = "FROM_NOW"
       THEN SetScope("FROM_NOW")
       ELSE UNCHANGED <<jobs, startMode, cutoff>>
    /\ UNCHANGED <<wk, gerritVars, faults>>

-----------------------------------------------------------------------------
(* Leases.  Heartbeats renew a lease, so it stays live while its worker    *)
(* runs; it runs out once nobody renews it.                                *)

\* The owner has left the job (crash, exception) and the lease times out.
LeaseExpire(p) ==
    /\ jobs[p].live
    /\ \A w \in Workers : jobs[p].owner = w => wk[w].job # p
    /\ SetRow(p, [jobs[p] EXCEPT !.live = FALSE])
    /\ UNCHANGED <<wk, gerritVars, scopeVars, faults>>

\* The owner is still running but was stalled past the lease.
LeaseStall(w) ==
    /\ wk[w].pc \in StallPoints
    /\ Fenced(w)
    /\ SetRow(wk[w].job, [Mine(w) EXCEPT !.live = FALSE])
    /\ Fault
    /\ UNCHANGED <<wk, gerritVars, scopeVars>>

\* The process dies or is cancelled, the heartbeat has noticed a lost lease or
\* failed itself, or an unexpected exception ends the processing.  Nothing is
\* written: the row keeps its owner, an open attempt stays unfinished.
Abandon(w) ==
    /\ ~At(w, "idle")
    /\ Leave(w)
    /\ Fault
    /\ UNCHANGED <<jobs, gerritVars, scopeVars>>

\* A fenced store call of a worker that lost its lease raises RuntimeError.
LeaseRefused(w) ==
    /\ wk[w].pc \in FencedPCs
    /\ ~Fenced(w)
    /\ Leave(w)
    /\ NoFault
    /\ UNCHANGED <<jobs, gerritVars, scopeVars>>

-----------------------------------------------------------------------------
(* Claiming: _claim_select, claim_next and the dispatch of                 *)
(* _process_claimed.  ResumeIsPossible shows that a RETRY_WAIT row always  *)
(* has a retry_state, so the InvalidPersistedState branch is never taken.  *)

Claimable(p) ==
    /\ Pending(jobs[p])
    /\ ~jobs[p].live
    /\ enabled
    /\ ~UnresolvedOlderPublication(jobs, p)

FirstStep(state) ==
    CASE state = "RECEIVED" -> "toFetching"
      [] state \in PublishStates -> "load"
      [] OTHER -> "fetchGate"

Claim(w, p) ==
    /\ At(w, "idle")
    /\ Claimable(p)
    /\ LET row == ClaimRow(jobs[p], w)
       IN  /\ SetRow(p, row)
           /\ wk' = [wk EXCEPT ![w] = [IdleWorker EXCEPT !.pc = FirstStep(row.state),
                                                       !.job = p,
                                                       !.st = row.state,
                                                       !.pol = row.bound]]
    /\ UNCHANGED <<gerritVars, scopeVars, faults>>

-----------------------------------------------------------------------------
(* Steps shared by the review and the publish phase. *)

\* Nothing outside the job table and the worker changes, and nothing failed.
StoreStep == UNCHANGED <<gerritVars, scopeVars, faults>>

\* JobStore.transition, then the worker goes on at label next.
Transit(w, target, next) ==
    /\ Fenced(w)
    /\ CanTransition(Mine(w).state, target)
    /\ SetRow(wk[w].job, TransitionRow(Mine(w), target))
    /\ wk' = [wk EXCEPT ![w].pc = next, ![w].st = target]
    /\ StoreStep

\* _can_start_attempt and start_attempt: with the budget used up the job fails.
StartAttempt(w, stage, next) ==
    LET free == FreeSlots(Mine(w), stage)
        slot == CHOOSE i \in free : TRUE
    IN  /\ Fenced(w)
        /\ \/ /\ free = {}
              /\ SetRow(wk[w].job, MarkFailedPermanentRow(Mine(w)))
              /\ Leave(w)
           \/ /\ free # {}
              /\ SetRow(wk[w].job, StartAttemptRow(Mine(w), stage, slot))
              /\ wk' = [wk EXCEPT ![w].pc = next,
                                  ![w].att = [stage |-> stage, slot |-> slot,
                                              epoch |-> Mine(w).epoch]]
        /\ StoreStep

\* finish_attempt(success=True) of the open attempt; it checks no lease.
FinishAttempt(w, next) ==
    /\ SetRow(wk[w].job, UncountAttemptRow(Mine(w), wk[w].att))
    /\ GotoFailed(w, next)
    /\ StoreStep

\* _schedule_retry: RECONCILE, recovery passes and provider outages are not
\* ended by the stage budget.  The job resumes in the state it is in.
RetryPCs ==
    {"retryFetch", "retryReview", "retryRecovery", "retryProvider",
     "retryReconcile", "retryPublish"}
RetryExhausted(w) ==
    \/ At(w, "retryFetch") /\ FreeSlots(Mine(w), "FETCH") = {}
    \/ At(w, "retryReview") /\ FreeSlots(Mine(w), "REVIEW") = {}
ScheduleRetry(w) ==
    /\ wk[w].pc \in RetryPCs
    /\ Fenced(w)
    /\ Mine(w).state \in RetryTargets
    /\ SetRow(wk[w].job, IF RetryExhausted(w)
                         THEN MarkFailedPermanentRow(Mine(w))
                         ELSE ScheduleRetryRow(Mine(w), Mine(w).state))
    /\ Leave(w)
    /\ StoreStep

\* _provider_retry_exhausted, after an outage or before the next attempt: the
\* attempts and the length of the outage are abstracted away.
ProviderExhausted(w) ==
    /\ wk[w].pc \in {"retryProvider", "reviewGate"}
    /\ Fenced(w)
    /\ SetRow(wk[w].job, MarkFailedPermanentRow(Mine(w)))
    /\ Leave(w)
    /\ StoreStep

\* _permanent_failure
PermanentFailure(w) ==
    /\ At(w, "fail")
    /\ Fenced(w)
    /\ SetRow(wk[w].job, MarkFailedPermanentRow(Mine(w)))
    /\ Leave(w)
    /\ StoreStep

\* The SupersededRevisionError handlers: close the attempt as a success, then
\* mark_superseded, which a worker without the lease cannot do.
MarkSuperseded(w) ==
    /\ At(w, "supersede")
    /\ LET row == UncountAttemptRow(Mine(w), wk[w].att)
       IN  SetRow(wk[w].job, IF Fenced(w) THEN MarkSupersededRow(row) ELSE row)
    /\ Leave(w)
    /\ StoreStep

\* What _process_review and _process_publish do with a TransientError of a Git
\* or Gerrit call: the open attempt is closed as failed, a retry is scheduled.
TransientExit(label) ==
    CASE label = "fetch" -> "retryFetch"
      [] label \in {"lookup", "resolveLookup", "recheck"} -> "retryReconcile"
      [] label = "preGet" -> "ambiguousAgain"

CallTransient(w) ==
    /\ wk[w].pc \in {"fetch", "lookup", "resolveLookup", "recheck", "preGet"}
    /\ GotoFailed(w, TransientExit(wk[w].pc))
    /\ Fault
    /\ UNCHANGED <<jobs, gerritVars, scopeVars>>

\* The same for a PermanentError.  As long as the message lookup has not
\* answered, an AMBIGUOUS publication is looked up again.
PermanentExit(w) ==
    CASE wk[w].pc = "fetch" -> "fail"
      [] wk[w].pc \in {"lookup", "resolveLookup"} /\ wk[w].snap = "AMBIGUOUS"
            -> "retryReconcile"
      [] wk[w].pc = "resolveLookup" /\ wk[w].snap # "AMBIGUOUS" -> "supersede"
      [] OTHER -> "failPublication"

CallPermanent(w) ==
    /\ wk[w].pc \in {"fetch", "lookup", "resolveLookup", "recheck", "preGet", "post"}
    /\ GotoFailed(w, PermanentExit(w))
    /\ Fault
    /\ UNCHANGED <<jobs, gerritVars, scopeVars>>

-----------------------------------------------------------------------------
(* Review phase: _process_review. *)

ToFetching(w) == At(w, "toFetching") /\ Transit(w, "FETCHING", "fetchGate")

FetchGate(w) == At(w, "fetchGate") /\ StartAttempt(w, "FETCH", "fetch")

\* ensure_current_revision: the change is open and p is its current revision.
Fetch(w) ==
    /\ At(w, "fetch")
    /\ \/ chStatus # "NEW" /\ GotoFailed(w, "fail")
       \/ chStatus = "NEW" /\ current # wk[w].job /\ Goto(w, "supersede")
       \/ chStatus = "NEW" /\ current = wk[w].job /\ Goto(w, "fetched")
    /\ StoreStep
    /\ UNCHANGED jobs

Fetched(w) ==
    /\ At(w, "fetched")
    /\ FinishAttempt(w, IF wk[w].st = "FETCHING" THEN "toReviewing" ELSE "probe")

ToReviewing(w) == At(w, "toReviewing") /\ Transit(w, "REVIEWING", "probe")

\* bind_project_review_policy, then the read-only recovery probe: a complete
\* review of the same input needs no new inference.
BugProbeForgetsProgress(w) ==
    /\ At(w, "probe")
    /\ Fenced(w)
    /\ SetRow(wk[w].job, [Mine(w) EXCEPT !.bound = TRUE])
    /\ Goto(w, "reviewGate")
    /\ StoreStep
Probe(w) ==
    /\ At(w, "probe")
    /\ Fenced(w)
    /\ SetRow(wk[w].job, [Mine(w) EXCEPT !.bound = TRUE])
    /\ Goto(w, IF Mine(w).progress THEN "promote" ELSE "reviewGate")
    /\ StoreStep

\* Policy text, history or progress could not be read, for now or for good.
ProbeFails(w) ==
    /\ At(w, "probe")
    /\ Fenced(w)
    /\ SetRow(wk[w].job, [Mine(w) EXCEPT !.bound = TRUE])
    /\ \E next \in {"retryReview", "retryRecovery", "fail"} : Goto(w, next)
    /\ Fault
    /\ UNCHANGED <<gerritVars, scopeVars>>

ReviewGate(w) == At(w, "reviewGate") /\ StartAttempt(w, "REVIEW", "review")

\* engine.review: the complete progress is saved, under the lease, before the
\* result is returned; a skipped or empty diff saves none.
Review(w) ==
    /\ At(w, "review")
    /\ \/ Fenced(w) /\ SetRow(wk[w].job, [Mine(w) EXCEPT !.progress = TRUE])
       \/ UNCHANGED jobs
    /\ Goto(w, "promote")
    /\ StoreStep

\* A TransientError of the engine; the final progress write may have been
\* committed all the same.  A provider outage does not consume the budget.
ReviewTransient(w, provider) ==
    /\ At(w, "review")
    /\ \E saved \in BOOLEAN :
          /\ saved => Fenced(w)
          /\ LET row == [Mine(w) EXCEPT !.progress = @ \/ saved]
             IN  SetRow(wk[w].job, IF provider THEN UncountAttemptRow(row, wk[w].att)
                                   ELSE row)
    /\ GotoFailed(w, IF provider THEN "reprobeProvider" ELSE "reprobe")
    /\ Fault
    /\ UNCHANGED <<gerritVars, scopeVars>>

ReviewPermanent(w) ==
    /\ At(w, "review")
    /\ GotoFailed(w, "fail")
    /\ Fault
    /\ UNCHANGED <<jobs, gerritVars, scopeVars>>

\* _recover_completed_review after a failed attempt.
Reprobe(w) ==
    /\ wk[w].pc \in {"reprobe", "reprobeProvider"}
    /\ Goto(w, IF Mine(w).progress THEN "promote"
               ELSE IF At(w, "reprobe") THEN "retryReview" ELSE "retryProvider")
    /\ StoreStep
    /\ UNCHANGED jobs

ReprobeFails(w) ==
    /\ wk[w].pc \in {"reprobe", "reprobeProvider"}
    /\ Goto(w, "retryRecovery")
    /\ Fault
    /\ UNCHANGED <<jobs, gerritVars, scopeVars>>

\* _promote_review_result
BugPromoteUnvalidated(w) ==
    At(w, "promote") /\ Fenced(w) /\ Goto(w, "save") /\ StoreStep /\ UNCHANGED jobs
Promote(w) == At(w, "promote") /\ Transit(w, "VALIDATING", "save")

Save(w) ==
    /\ At(w, "save")
    /\ Fenced(w)
    /\ SetRow(wk[w].job, SaveReviewResultRow(Mine(w)))
    /\ IF wk[w].att = NoAttempt THEN Leave(w) ELSE Goto(w, "finishReview")
    /\ StoreStep

FinishReview(w) ==
    /\ At(w, "finishReview")
    /\ SetRow(wk[w].job, UncountAttemptRow(Mine(w), wk[w].att))
    /\ Leave(w)
    /\ StoreStep

-----------------------------------------------------------------------------
(* Publish phase: _process_publish.  ResumeIsPossible shows that the       *)
(* review is never missing, so that failure branch is never taken.         *)

\* load_review_result, publication_for_job: the worker keeps a snapshot.
Load(w) ==
    /\ At(w, "load")
    /\ wk' = [wk EXCEPT ![w].pc = "latest", ![w].snap = Mine(w).pub]
    /\ StoreStep
    /\ UNCHANGED jobs

\* Where the publication status leads a worker that may publish ...
PublishEntry(status) ==
    CASE status = NONE     -> "begin"
      [] status = "POSTED" -> "complete"
      [] status = "FAILED" -> "fail"
      [] OTHER             -> "startReconcile"

\* ... and one whose Patch Set is no longer the newest
\* (_resolve_superseded_publish).
ResolveEntry(status) ==
    CASE status \in {NONE, "FAILED"} -> "supersede"
      [] status = "POSTED"           -> "complete"
      [] OTHER                       -> "startResolve"

\* is_latest_known_patchset
IsLatest(p) == jobs[p].state # "SUPERSEDED" /\ ~NewerKnown(jobs, p)

Latest(w) ==
    /\ At(w, "latest")
    /\ Goto(w, IF ~IsLatest(wk[w].job) THEN ResolveEntry(wk[w].snap)
               ELSE IF wk[w].st = "READY_TO_PUBLISH" THEN "toPublishing"
               ELSE PublishEntry(wk[w].snap))
    /\ StoreStep
    /\ UNCHANGED jobs

ToPublishing(w) ==
    /\ At(w, "toPublishing")
    /\ Transit(w, "PUBLISHING", PublishEntry(wk[w].snap))

Begin(w) ==
    /\ At(w, "begin")
    /\ Fenced(w)
    /\ Mine(w).state = "PUBLISHING"
    /\ LET row == BeginPublicationRow(Mine(w))
       IN  /\ SetRow(wk[w].job, row)
           /\ wk' = [wk EXCEPT ![w].pc = PublishEntry(row.pub), ![w].snap = row.pub]
    /\ StoreStep

\* start_attempt(RECONCILE): not budgeted, but it needs the lease.
StartReconcile(w) ==
    /\ wk[w].pc \in {"startReconcile", "startResolve"}
    /\ Fenced(w)
    /\ Goto(w, IF At(w, "startReconcile") THEN "lookup" ELSE "resolveLookup")
    /\ StoreStep
    /\ UNCHANGED jobs

\* has_published_review
Lookup(w) ==
    /\ At(w, "lookup")
    /\ Goto(w, IF posted[wk[w].job] > 0 THEN "complete" ELSE "recheck")
    /\ StoreStep
    /\ UNCHANGED jobs

BugResolveAssumesPosted(w) ==
    At(w, "resolveLookup") /\ Goto(w, "complete") /\ StoreStep /\ UNCHANGED jobs
ResolveLookup(w) ==
    /\ At(w, "resolveLookup")
    /\ Goto(w, IF posted[wk[w].job] > 0 THEN "complete" ELSE "supersede")
    /\ StoreStep
    /\ UNCHANGED jobs

\* ensure_current_revision(allow_merged=True): before the PUBLISH attempt and
\* once more inside publish_review_input.
RevisionCheck(w, next) ==
    /\ \/ chStatus = "ABANDONED" /\ GotoFailed(w, "failPublication")
       \/ chStatus # "ABANDONED" /\ current # wk[w].job /\ Goto(w, "supersede")
       \/ chStatus # "ABANDONED" /\ current = wk[w].job /\ Goto(w, next)
    /\ StoreStep
    /\ UNCHANGED jobs

Recheck(w) == At(w, "recheck") /\ RevisionCheck(w, "publishGate")

PublishGate(w) == At(w, "publishGate") /\ StartAttempt(w, "PUBLISH", "markAmbiguous")

\* The uncertainty marker is committed before the POST; no lease is checked.
BugMarkOnlyAfterPost(w) ==
    /\ wk[w].pc \in {"markAmbiguous", "ambiguousAgain"}
    /\ SetRow(wk[w].job, IF At(w, "markAmbiguous") THEN Mine(w)
                         ELSE MarkPublicationRow(Mine(w), "AMBIGUOUS"))
    /\ Goto(w, IF At(w, "markAmbiguous") THEN "preGet" ELSE "retryPublish")
    /\ StoreStep
MarkAmbiguous(w) ==
    /\ wk[w].pc \in {"markAmbiguous", "ambiguousAgain"}
    /\ SetRow(wk[w].job, MarkPublicationRow(Mine(w), "AMBIGUOUS"))
    /\ Goto(w, IF At(w, "markAmbiguous") THEN "preGet" ELSE "retryPublish")
    /\ StoreStep

PreGet(w) == At(w, "preGet") /\ RevisionCheck(w, "guard")

\* refresh_publish_guard, atomic under the change's advisory lock.
BugGuardIgnoresLease(w) ==
    /\ At(w, "guard")
    /\ Goto(w, IF NewerKnown(jobs, wk[w].job) THEN "supersede" ELSE "post")
    /\ StoreStep
    /\ UNCHANGED jobs
Guard(w) ==
    /\ At(w, "guard")
    /\ IF Mine(w).state # "PUBLISHING" \/ ~Fenced(w)
       THEN Leave(w)
       ELSE Goto(w, IF NewerKnown(jobs, wk[w].job) THEN "supersede" ELSE "post")
    /\ StoreStep
    /\ UNCHANGED jobs

\* The POST: Gerrit accepts comments on any revision, open or not.
Post(w) ==
    /\ At(w, "post")
    /\ posted' = [posted EXCEPT ![wk[w].job] = @ + 1]
    /\ Goto(w, "posted")
    /\ UNCHANGED <<jobs, current, chStatus, inFlight, scopeVars, faults>>

\* A TransientError of the POST: committed with its response lost, never
\* arrived, or still on its way.
PostTransient(w) ==
    /\ At(w, "post")
    /\ LET p == wk[w].job
       IN  \/ posted' = [posted EXCEPT ![p] = @ + 1] /\ UNCHANGED inFlight
           \/ UNCHANGED <<posted, inFlight>>
           \/ LatePosts /\ inFlight' = [inFlight EXCEPT ![p] = @ + 1] /\ UNCHANGED posted
    /\ GotoFailed(w, "ambiguousAgain")
    /\ Fault
    /\ UNCHANGED <<jobs, current, chStatus, scopeVars>>

Posted(w) == At(w, "posted") /\ FinishAttempt(w, "complete")

\* mark_publication_failed; no lease is checked.
FailPublication(w) ==
    /\ At(w, "failPublication")
    /\ SetRow(wk[w].job, MarkPublicationRow(Mine(w), "FAILED"))
    /\ Goto(w, "fail")
    /\ StoreStep

\* _complete_comment_publication.  With a policy snapshot the vote is still to
\* come and the lease must be live; a legacy job is finished at once, and even
\* a SUPERSEDED one becomes DONE.
CompleteWithVote(w) ==
    /\ At(w, "complete")
    /\ wk[w].pol /\ wk[w].st = "PUBLISHING"
    /\ IF Fenced(w) /\ Mine(w).state = "PUBLISHING"
       THEN SetRow(wk[w].job, CompletePublicationRow(Mine(w), TRUE)) /\ Goto(w, "vote")
       ELSE UNCHANGED jobs /\ Leave(w)
    /\ StoreStep

CompleteLegacy(w) ==
    /\ At(w, "complete")
    /\ ~(wk[w].pol /\ wk[w].st = "PUBLISHING")
    /\ IF \/ Mine(w).state = "SUPERSEDED"
          \/ Mine(w).state = "PUBLISHING" /\ Mine(w).owner \in {w, NoWorker}
       THEN SetRow(wk[w].job, CompletePublicationRow(Mine(w), FALSE))
       ELSE UNCHANGED jobs
    /\ Leave(w)
    /\ StoreStep

\* VotePublisher.process ends with VoteStore.finish, which insists that the
\* comments are durable ...
Vote(w) ==
    /\ At(w, "vote")
    /\ Fenced(w)
    /\ IF Mine(w).state = "PUBLISHING" /\ Mine(w).pub = "POSTED"
       THEN SetRow(wk[w].job, FinishVoteRow(Mine(w)))
       ELSE UNCHANGED jobs
    /\ Leave(w)
    /\ StoreStep

\* ... or with a retry of the vote alone.
VoteRetry(w) ==
    /\ At(w, "vote")
    /\ Fenced(w)
    /\ Mine(w).state = "PUBLISHING"
    /\ SetRow(wk[w].job, ScheduleRetryRow(Mine(w), "PUBLISHING"))
    /\ Leave(w)
    /\ Fault
    /\ UNCHANGED <<gerritVars, scopeVars>>

-----------------------------------------------------------------------------
ReviewStep(w) ==
    \/ ToFetching(w) \/ FetchGate(w) \/ Fetch(w) \/ Fetched(w) \/ ToReviewing(w)
    \/ Probe(w) \/ ReviewGate(w) \/ Review(w) \/ Reprobe(w) \/ Promote(w)
    \/ Save(w) \/ FinishReview(w)

PublishStep(w) ==
    \/ Load(w) \/ Latest(w) \/ ToPublishing(w) \/ Begin(w) \/ StartReconcile(w)
    \/ Lookup(w) \/ ResolveLookup(w) \/ Recheck(w) \/ PublishGate(w)
    \/ MarkAmbiguous(w) \/ PreGet(w) \/ Guard(w) \/ Post(w) \/ Posted(w)
    \/ FailPublication(w) \/ CompleteWithVote(w) \/ CompleteLegacy(w) \/ Vote(w)

\* Everything a running slot does when nothing fails.
WorkerStep(w) ==
    \/ ReviewStep(w) \/ PublishStep(w)
    \/ ScheduleRetry(w) \/ PermanentFailure(w) \/ MarkSuperseded(w)
    \/ LeaseRefused(w)

FaultStep(w) ==
    \/ CallTransient(w) \/ CallPermanent(w) \/ ProbeFails(w)
    \/ \E provider \in BOOLEAN : ReviewTransient(w, provider)
    \/ ReviewPermanent(w) \/ ReprobeFails(w) \/ PostTransient(w)
    \/ VoteRetry(w) \/ Abandon(w) \/ LeaseStall(w)

GerritStep ==
    \/ Upload \/ ChangeCloses \/ Restore
    \/ \E p \in PS : CommitLatePost(p)

EventStep == \E p \in PS, dated \in BOOLEAN : Enqueue(p, dated)

OperatorStep ==
    \/ \E p \in PS : Requeue(p)
    \/ \E mode \in StartMode, on \in BOOLEAN : UpsertProject(mode, on)
    \/ \E mode \in StartMode : SetProjectReviewStartMode(mode)
    \/ \E on \in BOOLEAN : SetProjectEnabled(on)

Next ==
    \/ GerritStep \/ EventStep \/ OperatorStep
    \/ \E p \in PS : LeaseExpire(p)
    \/ \E w \in Workers :
          \/ \E p \in PS : Claim(w, p)
          \/ WorkerStep(w)
          \/ FaultStep(w)
          \/ ProviderExhausted(w)

Spec == Init /\ [][Next]_vars

-----------------------------------------------------------------------------
(* Safety. *)

\* A Patch Set's review comments appear at most once in Gerrit, however often
\* its job is claimed, crashed, retried or requeued (the lease fences the POST
\* in refresh_publish_guard, and has_published_review runs before it).
AtMostOnePost == \A p \in PS : posted[p] <= 1

\* A job is DONE, or its publication POSTED, only when the comments really are
\* in Gerrit (complete_publication_and_mark_done, VoteStore.finish and the
\* shortcut of requeue_failed never invent a side effect).
DoneMeansPosted ==
    \A p \in PS :
        jobs[p].state = "DONE" \/ jobs[p].pub = "POSTED" => posted[p] > 0

\* Once a newer Patch Set is known and in scope, every older job is finished or
\* still resolving its publication: stale work is not continued, whichever
\* order the events came in (_apply_patchset_ordering).
OlderRetired ==
    \A p, q \in PS :
        p < q /\ jobs[q].state \notin {ABSENT, "SKIPPED_SCOPE", "SUPERSEDED"}
            => ~Pending(jobs[p]) \/ NeedsPublishRecovery(jobs[p])

\* Nobody works on a Patch Set while the publication of an older one is
\* unresolved (the NOT EXISTS of _claim_select).
NewerWaits ==
    \A p, q \in PS :
        p < q /\ jobs[q].live => ~NeedsPublishRecovery(jobs[p])

\* An older review never lands in Gerrit after a newer one.
OlderNeverLandsLater ==
    [][\A p, q \in PS :
          p < q /\ posted[q] > 0 => posted'[p] = posted[p]]_vars

\* What the worker assumes of the row it claims: a RETRY_WAIT row names the
\* state to resume in, and a job in the publish phase has its durable review.
ResumeIsPossible ==
    \A p \in PS :
        /\ jobs[p].state = "RETRY_WAIT" => jobs[p].retry \in RetryTargets
        /\ InPublishPhase(jobs[p]) => jobs[p].result

\* A job with a publication intent never returns to the review phase and is
\* never skipped as out of scope; it is being published or it has ended.
IntentPinsPublishPhase ==
    \A p \in PS :
        jobs[p].pub # NONE =>
            \/ NeedsPublishRecovery(jobs[p])
            \/ jobs[p].state \in {"FAILED_PERMANENT", "SUPERSEDED", "DONE"}

\* A PENDING publication has not reached Gerrit: the AMBIGUOUS marker is always
\* committed before the POST.
PendingMeansNotPosted ==
    \A p \in PS : jobs[p].pub = "PENDING" => posted[p] = 0

\* A published review is never forgotten: its job is DONE or will still be
\* reconciled with Gerrit.
NoLostSideEffect ==
    \A p \in PS :
        posted[p] > 0 =>
            NeedsPublishRecovery(jobs[p]) \/ jobs[p].state = "DONE"

\* Every change of a row's state is one that state_machine.py allows, or one of
\* the documented exceptions: insertion, the scope skip and its revival, the
\* operator's requeue, and a publication that wins over a supersession.
LegalStep(r, s, isPosted) ==
    \/ CanTransition(r.state, s.state)
    \/ r.state = ABSENT /\ s.state \in {"RECEIVED", "SKIPPED_SCOPE", "SUPERSEDED"}
    \/ Pending(r) /\ s.state = "SKIPPED_SCOPE" /\ ~r.live /\ r.pub = NONE
    \/ r.state = "SKIPPED_SCOPE" /\ s.state \in {"RECEIVED", "SUPERSEDED"}
    \/ r.state = "FAILED_PERMANENT" /\ s.epoch = r.epoch + 1
    \/ r.state = "SUPERSEDED" /\ s.state = "DONE" /\ isPosted

LegalTransitions ==
    [][\A p \in PS : LegalStep(jobs[p], jobs'[p], posted[p] > 0)]_vars

\* A review that is complete in the progress table is never inferred again: no
\* REVIEW attempt starts for it, even after a lost COMMIT acknowledgement.
NoRepeatedInference ==
    [][\A w \in Workers :
          At(w, "reviewGate") /\ wk'[w].pc = "review" => ~Mine(w).progress]_vars

-----------------------------------------------------------------------------
(* Liveness.  Worker slots keep running and poll for jobs, and an          *)
(* unrenewed lease runs out; failures cease (BoundFaults).                 *)

Fairness ==
    /\ \A w \in Workers :
          WF_vars(WorkerStep(w)) /\ WF_vars(\E p \in PS : Claim(w, p))
    /\ \A p \in PS : WF_vars(LeaseExpire(p))

FairSpec == Spec /\ Fairness

\* Every job is eventually finished: no lease, no ordering rule and no
\* unresolved publication blocks it for good.
EveryJobEnds == \A p \in PS : Pending(jobs[p]) ~> ~Pending(jobs[p])

=============================================================================
