# Verification of pe-review-agent

pe-review-agent reviews Gerrit Patch Sets with a language model and publishes
the result as one Set Review call (summary and inline comments), optionally
followed by a Code-Review vote. It is a set of processes around one PostgreSQL
database: a receiver of `stream-events`, a reconciler that polls Gerrit, any
number of worker processes with several slots each, and an administration UI.
The difficult part is that the review is an *external side effect* decided by
processes that crash, stall, retry and race each other.

Paths below are relative to `src/src/pe_review_agent/`.

## 1. Inventory

| Component | State | Operations | Interacts with |
|---|---|---|---|
| Job state machine (`domain.py`, `jobs/state_machine.py`) | none: table of states | `can_transition`, `valid_retry_target` | job store |
| Job store (`jobs/store.py`, `jobs/models.py`) | job rows (state, retry state, lease, policy snapshot, retry epoch), attempts, review results, publications, findings, watermarks | `enqueue`, `claim_next`, `heartbeat`, `transition`, `schedule_retry`, `mark_*`, `start/finish_attempt`, `save_review_result_and_mark_ready`, `begin_publication`, `refresh_publish_guard`, `complete_publication_and_mark_done`, `requeue_failed` | everything; transactions under row locks or the change's advisory lock |
| Review worker (`service.py`) | per slot: the claimed record, snapshots of rows, open attempts | `_process_review`, `_process_publish`, `_resolve_superseded_publish`, `_schedule_retry` | store, Gerrit, Git, engine |
| Gerrit client (`gerrit/client.py`) | none durable | `ensure_current_revision`, `publish_review_input`, `has_published_review`, `query_recent_open_changes` | Gerrit REST |
| Receiver (`gerrit/events.py`, `run_receiver`) | SSH process | enqueue every event of an enabled project | store |
| Reconciler (`run_reconciler`) | watermarks | page open changes, enqueue what is missing, prune caches | store, Gerrit |
| Project scope (`admin/store.py`, `jobs/project_policy.py`) | managed projects: enabled, start mode, cutoff, policy | upsert, enable, change start mode, bind policy snapshot | jobs of the project |
| Voting (`voting.py`, `jobs/votes.py`, `gerrit/votes.py`) | vote row, its retry counter | ensure, dispatch, retry, finish | store, Gerrit labels |
| Review engine (`review/native.py`, `scheduling.py`, `progress.py`, `chunking.py`, `checkpoints.py`) | work items, budget, partial progress | expand, model step, tool step, checkpoint | model, progress table |
| Lineage (`review/lineage.py`) | none | match findings with earlier Patch Sets | finding tables |
| Repositories (`repos/manager.py`, `repos/tools.py`) | mirrors, worktrees, locks | ensure revision, workspace, rebuild | Git |
| Runtime configuration (`admin/store.py`, `config.py`) | generation, overridden sections | patch, replace, reset, effective settings | every service |
| Administration UI, CLI, health, logging | sessions, heartbeats | endpoints over the stores | stores |

What is hard here: the POST to Gerrit and its record in the database are two
systems (atomicity, lost answers); a lease is checked and then used later; any
number of workers; events of one change in any order; operators who requeue
and change the scope at any moment; budgets that must count attempts nobody
finished. `PROJECT.json` lists these hazards at their lines with the
properties that cover them.

What makes each component correct:

- *Store and state machine*: only legal transitions, leases that exclude each
  other, budgets that count crashed attempts, rows that can always be resumed.
- *Worker and Gerrit client*: comments are posted at most once, DONE and POSTED
  are true, completed inference is not repeated, Patch Sets land in order, every
  job ends.
- *Voting*: at most one vote, a true record of it, every vote ends within its
  budget, and the job is only finished by the lease holder.
- *Project scope*: a change of scope never drops a publication intent and never
  revives stale work.
- *Receiver and reconciler*: events may come in any order and repeatedly, or
  never; every missed upload is found by a later pass, whatever passes fail and
  however the scope is edited; no page of a query is skipped or read for ever.
- *Review engine*: the shared budget never leaves a session without its final
  answer, and the verifier's share is not spent on exploration; over crashes,
  stale workers and resumed attempts every place of the diff is accounted for,
  no accepted finding is lost, and a result that claims to be complete is.
- *Repositories*: no slot takes a mirror or a worktree from another; nothing is
  left on disk; no call waits for ever for the project's lock.
- *Lineage* and *runtime configuration* are not modelled (section 6).

## 2. Modules

| Module | Models |
|---|---|
| `JobStates` | states and transition table |
| `JobRows` | the job table of one change; one operator per store transaction |
| `ReviewJobs` | workers, events, Gerrit, operator and leases acting on that table; the properties |
| `VotePublisher` | the Code-Review vote of one job, every transaction and Gerrit call a step |
| `VotePhase` | what `ReviewJobs` takes for granted of the vote; `VotePublisher` implements it |
| `ProgressRows` | the durable progress of a review: checkpoints, frozen candidates, result |
| `ReviewProgress` | what every attempt may rely on of that row; `ReviewScheduler` implements it |
| `ReviewScheduler` | the engine's turns, budget, cuts, phases and saves, over several attempts and workers |
| `Reconciler` | watermarks, overlap, full sweeps, scopes and the passes of the reconciler |
| `OpenChanges` | the pages of one reconciliation query; the promise `Reconciler.Query` relies on |
| `Workspaces` | the mirror and the worktrees the slots of a worker process share |
| `MC*` | instances of the module they are named after, for TLC |
| `JobRowsProofs` | each transaction preserves the row invariant |
| `ReviewJobsProofs` | the inductive invariants of `ReviewJobs` and the theorems on posting and recovery |
| `ReviewOrderProofs` | of `ReviewJobs`: the order of Patch Sets, legal transitions, no repeated inference |
| `VotePublisherProofs` | the refinement of `VotePhase`, the inductive invariant of the vote and the theorems |
| `OpenChangesProofs` | what a finished query has found, when it is refused, that it advances |
| `WorkspacesProofs` | what the lock protects, and what only a rebuild takes away |
| `ReviewSchedulerProofs` | the refinement of `ReviewProgress`, the budget, and what becomes of each place of a diff |
| `ReconcilerProofs` | no Patch Set slips behind the watermarks |

The parts are composed at interfaces. `ReviewJobs` makes one step of the vote and
one of the inference: `VotePublisher` implements `VotePhase` with the same row,
and `ReviewScheduler` shows what "the complete progress is saved under the lease"
rests on. `Reconciler.Query` takes from a query exactly what `OpenChanges`
promises (`NothingMissed`: all that match and stay untouched), and its `Enqueued`
is `ReviewJobs`' `Enqueue` seen from outside. A workspace is the Git call `Fetch`
of `ReviewJobs`, whose failures are its `CallTransient` and `CallPermanent`.

`JobStates` and `JobRows` are shared: `ReviewJobs` acts on a table of rows,
`VotePublisher` and `VotePhase` on the row of one job.

### How `ReviewJobs` corresponds to the code

The model has one Gerrit change: jobs of different changes share no state but
worker slots. A row is keyed by its Patch Set number, that is, one revision
and one review policy version per Patch Set; `review_progress` has one input
key per job. A worker's `pc` names the transaction or the Gerrit call it is
about to make, and between two of them every other actor may run. A step is one
database transaction (with the reads that immediately precede it in the same
guarded call) or one external call. Each worker keeps the copies the code keeps
in local variables, however stale: `job.state` (`st`), whether
`job.project_review_policy` is set (`pol`), the publication (`snap`), and the
open attempt (`att`).

Error classes are branches: `TransientError` is `CallTransient`,
`ReviewTransient`, `PostTransient`, `ProbeFails`; `PermanentError` is
`CallPermanent`, `ReviewPermanent`; `SupersededRevisionError` leads to
`MarkSuperseded`; every other exception, cancellation, a lost heartbeat and
the death of the process are `Abandon`, which writes nothing.

Abstractions, and why they are sound for the properties:

- `lease_expires_at` is the flag `live`. `LeaseExpire` clears it once the owner
  has left the job, `LeaseStall` while the owner still runs (missed heartbeats,
  a suspended process). `StallPoints` says at which pcs the latter may happen.
  The heartbeat task's `ensure()` is covered by `Abandon`, which may come at
  any pc.
- `next_attempt_at` is left out: a due time may pass at any moment.
- Attempts are the ones that count: `spent[stage]` is the set of failed,
  crashed or running attempts of the current retry epoch. `RECONCILE` attempts
  are unbudgeted in the code and only need the lease here. `_can_start_attempt`
  and `start_attempt` are one step: both act on the job of a worker whose lease
  excludes every other starter.
- The streak of provider outages (`provider_retry_status`) is a
  nondeterministic choice, `ProviderExhausted`: attempts and outage lengths
  depend on time.
- The vote is one step (`Vote`, `VoteRetry`); `VotePublisher` refines it.
- The global service switch, the order in which `claim_next` prefers rows,
  `superseded_by_job_id`, error texts, metrics and timestamps decide nothing
  the properties see.
- `LegacyPS` is a job an earlier version left READY_TO_PUBLISH without a policy
  snapshot (`_complete_comment_publication` handles these separately).

Gerrit is external: uploads, submission, abandoning, restoring, and the commit
of a POST (`posted`), which may be immediate, lost with its answer, never
arrive, or (`LatePosts`) happen after its client gave up.

### How `VotePublisher` corresponds to the code

It follows one job from the moment its comments are in Gerrit
(`_complete_comment_publication`, `VotePublisher.process`, `VoteStore`) to DONE.
A worker's `pc` is the next transaction or Gerrit call; `seen`, `bot`, `shown`
and `open` are the copies `process` keeps of the vote row, the account, its
label and the change's status; `skip` is `allow_vote` with its reason; `out` and
`why` are the arguments of `finish`. The observation is two requests
(`Detail`, `Messages`), and `publish_review_input` three steps (`PreGet`,
`Guard`, `Post`). The vote's message ends in a marker unique to the job, so
Gerrit is, for each account, the number of such messages and the label.

Abstractions:

- The way back into the vote after a crash or a retry (`Claim`, `Latest`)
  skips the lookup of the comments: they are in Gerrit, so a lookup either finds
  them or fails, which is one more retry of the RECONCILE stage and does not
  touch the vote. `ReviewJobs` has these steps.
- The unfenced publication marks of a stale worker are in `ReviewJobs`; here
  nobody takes POSTED back.
- The decision (`decide_code_review_vote`) is a choice of `Ensure`: a vote of 0
  or +1, or none, which is SKIPPED from the start. Whether the label exists and
  the bot may set it is a choice of `Messages`.
- `finish` may record the account of a vote that was not sent; no later step
  reads it. The audit list `events` is left out.
- An error of the database itself is `Abandon`.

### How `ReviewScheduler` corresponds to the code

It follows the progress row of one review input through all attempts. `Start` is
the claim with `review()` loading or creating the row; `Admit`, the tool steps and
`Ask` are one iteration of `RoundRobinReview.run`; the answers (`Json`,
`ToolCalls`, `Truncated`, `TruncatedAgain`, `ContextTooLong`, `CannotSplit`) are
what the model may return; `EndCandidates` and `EndVerification` the two ends of
`review()`. `mem[w]` is everything the coroutine keeps: its own copy of the row,
the charges (`used`), the queues of sessions. `Save` and `Recorded` are
`PostgresProgressBackend` under `_guard`: a save overwrites the whole row, which is
why `RowOnlyGrows` is worth checking. `pc` is `asked` or `again` while a request is
out, so that leases expire and other workers start in between.

Abstractions: a finding is the place it is at, a work item the set of places (or of
candidates) it is about, and a cut halves it; the digest that names a checkpoint is
the pair of phase and item. Tokens gate nothing and are left out; a batch of tool
calls has at most `ToolBatch` of them. What the model answers, which findings the
selection keeps (`Selections`) and the validator accepts (`Validations`) are inputs.
`MaxCalls` is the allowance of an attempt as the repository's README defines it:
`Loaded` charges what finished and stopped items have used, and a cut item keeps no
charge, in the running attempt (for the call that was truncated) as after a restart.

### How `Reconciler` corresponds to the code

One project among several, its changes in Gerrit, and the newest job of each. A
pass is `run_reconciler`'s loop body: `Start` takes `pass_started`, `Read` the
scopes, cutoffs and watermarks, `Query` the pages, `Recover` enqueues one event,
`Advance` and `AdvanceFull` write the two watermarks. An administrator's transaction
is two steps, `Stamp` (time stamps, row lock) and `Commit`. Gerrit's secondary index
lags (`Index`). A pass that read while the project was disabled is about other
projects (`covers`), and still advances the watermark. Times are ages up to `Old`:
older than that, an incremental pass cannot reach a change whatever its age.
`StartsAnew` lists when an edit of a FROM_NOW project moves its start.

### How `OpenChanges` corresponds to the code

`query_recent_open_changes`: a step is one request with its answer. `boundary` and
`excluded` are `before` and `excluded_at_boundary`, `Boundary` is
`_gerrit_search_boundary` (rounds up to a millisecond), `ToSecond` what `strftime`
drops, `Latest` `_latest_cutoff`; `Events` is `reconciliation_events`. Changes are
updated, closed and given new Patch Sets between the pages.

### How `Workspaces` corresponds to the code

`slot[s]` is one `workspace` call: `ensure_revision` (`Check`, `Remove`, `Clone`,
`Fetch`, `Verify`), the reads (`Parents`), `worktree add`, the review (`Read`,
`Leave`) and `_remove_worktree` (`Cleanup`); the three `lock...` places wait for the
project's `asyncio.Lock`. `lost` records a PermanentError that says the revision or
the worktree is gone. A git command may fail, or be killed at its time limit with
what it had written; the removal of the mirror may fail with part of it gone (`Parts`),
that of a worktree's directory may leave it where it is (`_remove_directory_if_present`
ignores errors). `Fetch` may rebuild a mirror that is healthy: the texts of
`_looks_rebuildable_mirror_error` also come from a full disk or from the remote. A
start-up that cannot clear `work_root` fails and is tried again; the empty parent
directories of worktrees stay, and no property is about them. `rebuilt` is forgotten
after the fetch, where no step reads it any more. `flock` on the volume guarantees one worker process, so a
second one is not modelled; a graceful stop finishes the reviews or is a `Crash`.

## 3. Properties, runs and bounds

The runs of `ReviewJobs` and `VotePublisher` use `SmallBudget` or `VoteLimit` (one
FETCH, one REVIEW and two PUBLISH attempts), so that a budget is exhausted after one
failure and a second POST is possible. `MaxFaults` bounds the number of failures and
`MaxRequeues` the operator's requeues per job. Slots are symmetric; symmetry is not
used with liveness.

| Run | Instance | Shows |
|---|---|---|
| `Ordering` | 2 slots, 2 Patch Sets, stalls anywhere but inside the POST, 2 failures | `TypeOK`, `AtMostOnePost`, `OlderRetired`, `NewerWaits`, `OlderNeverLandsLater`, `NoRepeatedInference` |
| `Scope` | 1 slot, 2 Patch Sets, scope changes at any time, a legacy job, late POSTs, stalls anywhere, 1 requeue, 1 failure | `IntentPinsPublishPhase`, `DoneMeansPosted`, `ResumeIsPossible`, `LegalTransitions` |
| `Liveness` | 1 slot, crashes, lost answers and stalls anywhere, 1 requeue, 2 failures; fair | `EveryJobEnds`, `NoLostSideEffect`, `PendingMeansNotPosted` |
| `VoteSafety` | 2 slots, 2 accounts, stalls anywhere but inside the POST, 2 crashes or stalls | `TypeOK`, `VoteOnce`, `AppliedMeansVoted`, `DoneIsSettled`, `MergedSkipSentNothing`, `VoteBudget` |
| `VoteLiveness` | 1 slot, 2 accounts, late POSTs, stalls anywhere, 1 crash or stall; fair | `ImplementsVotePhase`, `EveryVoteEnds` |
| `ReviewTurns` | 2 workers, 2 attempts, 3 places in 2 chunks, call, read and candidate budgets at their limits; fair | `TypeOK`, `FinalSlotKept`, `ReserveKept`, `NothingUnaccounted`, `AcceptedFindingsKept`, `CompleteIsTrue`, `RowOnlyGrows`, `AttemptEnds` |
| `Reconciler` | 1 change beside other projects, a sweep due after 2 units, outages of 2, an overlap of 1, 1 upload or comment, 1 edit of the scope, 1 failed pass; fair | `TypeOK`, `WithinReach`, `EveryMissingFound` |
| `OpenChanges` | 3 changes in one project and 1 in a FROM_NOW project, pages of 1, 2 ticks to a millisecond, 1 excludable change, 1 update between pages; fair | `NothingMissed`, `RefusedOnlyWhenCrowded`, `PagesAdvance`, `QueryEnds` |
| `Workspaces` | 2 slots, 2 revisions, 3 directories, 2 killed git commands or failed removals, 1 crash; fair | `TypeOK`, `OnlyRebuildTakesAway`, `NoDirectoryLeaks`, `EveryCallEnds` |
| `StallInPost`, `StaleFailure`, `SharedMirror` | smallest instance with the behaviour | the findings of section 5 |

The bounds are enough for the interesting cases: two slots are what a stale worker
and its replacement need; two Patch Sets what ordering needs; two failures make, for
example, a lost answer followed by a crash of the recovery. `NoLostSideEffect` and
`PendingMeansNotPosted` are checked with one slot: with two and stalls anywhere, a stale
worker may write after its replacement has published, which is the finding
`StaleFailure`. The theorems hold under the wider condition `NoStaleWriter` (section 4).
`Scope` has one slot, so that the operator may do everything at any moment;
`DoneMeansPosted` and `LegalTransitions` with a second, stale worker beside these
operations are the theorems `DoneIsPosted` and `TransitionsAreLegal`. Three places
in two chunks are an item that can be cut and one that cannot; of four calls one is the
verifier's, and the only read is its own, so that exploration ends at both limits. In `OpenChanges` three
changes share a millisecond with pages of one, so that boundaries repeat, the
exclusion overflows (`Refuse`) and a project follows another. In `Reconciler` an
outage may exceed the overlap and a sweep may be due before it; more changes add no
case, since a change interacts with the others only through the watermarks. In
`Workspaces` two slots and the leftover of a fault fill the directories, the two faults
may fall anywhere (a killed clone, then a removal that stops half-way), and errors are
unbounded, so that only `rebuilt` keeps a fetch from rebuilding for ever. What
holds for every value of the bounds is proved (section 4); where a property is both
proved and true in several instances, one run checks it.

`FinalSlotKept` has a consequence worth knowing: the branch of `Ask` that stops a
session for want of a call (`scheduling.py`, STOPPED) is never taken; with fixed limits
this is the theorem `NoSessionCutOff`. `WithinReach` excludes two cases, both left to the
full sweep and covered by `EveryMissingFound`: the index hides a change longer than
the overlap, and a pass begins while the transaction that opens the project is between
its time stamp and its commit (`raced`), so that `updated_at` is already older than
the pass. Runs with late POSTs violate `AtMostOnePost` for the same reason as
`StallInPost` does: a lookup that finds nothing proves nothing about a request that is
still running. The theorem `SinglePublication` therefore assumes `PostsAreFenced`.

Fairness. `Liveness` and `VoteLiveness`: weak fairness of each slot's steps, of its
claims and of the expiry of an abandoned lease. The code justifies them: a slot runs
an endless loop with a poll interval, retry times are finite (capped backoff), and a
lease is a timestamp. Failures are not fair; they are bounded, so they cease. Without
that a job may be retried for ever in the RECONCILE stage, which is what
`README.md:76-80` of the repository promises. In `VoteLiveness` only crashes and
stalls are bounded: a vote must end even if every call to Gerrit keeps failing, since
its own counters end it. `ReviewTurns`: weak fairness of a worker's step (the event
loop schedules it, every call has a timeout); aborts and expiries are not fair.
`Reconciler`: weak fairness of the clock, the loop, the commit of an open transaction
and Gerrit's index; nothing is assumed of the event stream. `OpenChanges`: weak
fairness of the query (requests have timeouts). `Workspaces`: weak fairness of a
slot's steps and of the restart (git commands have time limits, the process is
supervised), strong fairness of taking the lock, since `asyncio.Lock` serves its
waiters in order. A query ends, so the run `OpenChanges` does not check for deadlock;
all the others do.

## 4. Proofs

`ReviewJobsProofs` proves, for every set of workers, number of Patch Sets,
budgets, stall points and bounds (assumptions `WorkersAssumption`,
`MaxPSAssumption`, `BudgetAssumption`, `BoundsAssumption`):

- `TypeCorrect`: `[]TypeOK`, including the budget bound;
- `DoneIsPosted`: `[]DoneMeansPosted`;
- `ResumeAlwaysPossible`: `[]ResumeIsPossible`;
- `IntentStaysInPublishPhase`: `[]IntentPinsPublishPhase`;
- `SinglePublication`: `[]AtMostOnePost`, assuming `PostsAreFenced`: no stall
  between the guard and the POST's end, and no late commits. Both assumptions
  are needed: `StallInPost` violates the property without the first, and a POST
  that Gerrit commits after the next lookup has found nothing without the second.

None of these invariants is inductive. The inductive `IInv` has three layers:

1. `RowInv` of each row (in `JobRowsProofs`, one lemma per transaction): a
   lease that is live has an owner, retry state and state agree, an intent
   implies the durable review, spent attempts lie within the budget.
2. `RowConfirmed`: a row that says DONE or POSTED tells the truth.
3. `WorkerInv`, what a worker may rely on at each pc *although its lease may
   be gone*: with a snapshot there is an intent; after a confirmed lookup or
   POST the comments exist; at `save` a lease holder's row is VALIDATING; and,
   under `PostsAreFenced`, the holder of the lease between an empty lookup and
   the POST knows that nothing has been posted. The last clause carries
   `SinglePublication`: a replacement worker can only claim after the lease is
   lost, and the guard stops the old one before its POST.

The step lemmas are organised by what a step touches: the acting worker and its
own row (`ActorStep`), only a worker (`QuietStep`), or only the table
(`TableStep`), so that each action proves only what it changes.

Two more theorems of this module assume `NoStaleWriter`: Gerrit commits no POST late,
and either there is one slot or no worker outlives its lease between a lookup of the
lease and a write to the publication that checks none (`UncheckedPCs`):

- `NothingPublishedIsLost`: `[]NoLostSideEffect`;
- `PendingIsUnposted`: `[]PendingMeansNotPosted`.

The hypothesis cannot simply be dropped: `mark_publication_failed` writes without a lease,
and `StaleFailure` shows both properties' promise broken by it. With one slot stalls may
happen anywhere, since nobody replaces the stalled worker. The invariant `Durable`
(theorem `Durability`) says of the row that published comments are AMBIGUOUS or POSTED
and their job is DONE or will look for them (`RowDurable`), and of each worker that
nobody can have replaced (`Keeps`) what it may conclude at its pc from the lookups it
made: nothing posted before a first POST, AMBIGUOUS committed at the POST itself, no
failure recorded where a comment may exist (`Sound`). A step lemma shows what a
transaction leaves to everybody else who keeps a row (`Undisturbed`).

`ReviewOrderProofs` proves of the same specification, under the same assumptions:

- `StaleWorkEnds`: `[]OlderRetired`;
- `NewerAlwaysWaits`: `[]NewerWaits`;
- `PublishedInOrder`: `OlderNeverLandsLater`, assuming `PostsAreFenced`;
- `TransitionsAreLegal`: `LegalTransitions`;
- `ReviewIsFresh`: `NoRepeatedInference`.

The last two are action properties. Most transactions of `jobs/store.py` write the
state without asking `can_transition`; that each write is legal depends on what the
row may be when it comes, stale workers included. Each transaction is shown `Lawful`:
its change is legal and it gives nobody else a lease, nor progress under one. Hence
what `load_review_progress` found stays true while the lease does (`ProbeHolds`,
theorem `ProbeStaysTrue`), and `start_attempt` checks the lease.

Its invariant `Ordered` strengthens `OlderRetired` where it is not inductive: a job
that a worker is still holding counts as reached even when it has been superseded,
because `complete_publication_and_mark_done` may turn it into DONE; and comments in
Gerrit imply that every older job has ended. Every transaction but `enqueue`,
`claim_next` and `requeue_failed` only *advances* a row (`Advances`: no job is
revived, a publication begins only under a lease, no lease is granted), which keeps
the order whatever the row (`Advancing`); these three have lemmas of their own.
`claim_next` checks for older publications only when it claims; that they cannot
open later is the point of `NewerAlwaysWaits`.

`VotePublisherProofs` proves, for every set of workers and accounts, every
retry limit and number of faults (assumptions as above and `VoteAssumption`):

- `VoteImplementsPhase`: `VotePublisher` implements `VotePhase` (initial states
  map to initial states, each step to a step or a stutter; the row is the same
  variable, so the mapping is the identity on it);
- `VoteTypes`, `VoteRecordedOnlyIfCast`, `VoteSettledWithJob` and
  `VoteWithinBudget`: `[]TypeOK`, `[]AppliedMeansVoted`, `[]DoneIsSettled` and
  `[]VoteBudget`, without any assumption on stalls or late POSTs;
- `VoteCastOnce`: `[]VoteOnce`, assuming `PostsAreFenced` as for
  `SinglePublication`;
- `MergedVoteWasNotSent`: `[]MergedSkipSentNothing`, under the same assumption. It
  needs three facts more (`Merged`): comments posted to a merged change rule out a vote
  from the start, the lease holder that is about to record a merge knows that nobody
  has voted, and the record is written with the end of the job.

Its `IInv` says of each worker what it may rely on at each `pc`. Without its
lease that is little: the account it announced is the one the row is bound to,
and an outcome APPLIED has a message behind it. With the lease its copy of the
row is accurate, the counters have room for what it will do next and, under
`PostsAreFenced`, nothing has been cast between the empty observation and the
POST. The budget needs the most strengthening: `retries` may exceed the limit by
one for a pass that has counted its last retry but not yet finished, and a crash
in between lets the successor count once more; hence `+ faults`. A step lemma
proves `Kept`, what a step may do to everybody else (`BystanderKept`), and the
acting worker's own part (`ActorStep`).

`OpenChangesProofs` proves, for every finite set of changes and projects, every page
size, exclusion limit and resolution of time (`OpenChangesAssumption`):
`NoChangeMissed` (`[]NothingMissed`), `RefusedWhenCrowded`
(`[]RefusedOnlyWhenCrowded`), `EveryPageAdvances` (`PagesAdvance`) and
`OpenChangesTypes`. The invariant `Paging` says of the project being read that every
untouched change later than the boundary, and every excluded one, has been found
with the data it still has (`Unchanged`, `NothingSkipped`), and that what is excluded
was found at this boundary (`ExcludedAtBoundary`); a full page of changes that are not
excluded therefore moves the boundary or the exclusion on.

`WorkspacesProofs` proves, for every number of slots, revisions, directories, faults
and crashes: `OnlyRemovalTakesAway` (`[]OnlyRebuildTakesAway`), `NoDirectoryLeft`
(`[]NoDirectoryLeaks`) and `WorkspacesTypes`, from the invariant `SharedVolume`: the
calls' directories are apart (`CallsApart`), the lock has one holder and is held where
the mirror changes (`LockInUse`), the holder knows the mirror (`MirrorOfHolder`), and a
stopped process has no calls (`Stopped`).

`ReviewSchedulerProofs` proves, for every diff of finitely many places in disjoint
chunks (`chunking.py:17-71` puts each line in one), all budgets, reserves and limits, any
workers and attempts, and whatever the model answers (`SchedulerAssumption`):

- `SlotKept`, `ReserveIsKept`, `AllAccounted`, `AcceptedKept`, `CompletenessTrue`,
  `Typed`: `[]FinalSlotKept`, `[]ReserveKept`, `[]NothingUnaccounted`,
  `[]AcceptedFindingsKept`, `[]CompleteIsTrue`, `[]TypeOK`;
- `RowRefines`: `RowOnlyGrows`, that is, `ReviewScheduler` implements `ReviewProgress`
  with the stored row as the abstract variable;
- `NoSessionCutOff`: no session is ever stopped for want of a call. The comment at
  `scheduling.py:183-184` expects refused contexts to bring this about; admission
  leaves room even for them.

The invariant has two halves. `RowInv` is about the stored row: its cuts are a forest
whose roots are the chunks (the batches of candidates) and whose leaves are the items
still to be decided or finished (`Forest`); its charges are affordable (`Affordable`);
the frozen candidates and the result tell the truth (`FrozenTrue`, `ResultTrue`).
`MemoryInv` is about a running worker, which may be stale: its copy is some row with
`RowInv` (`TakenOver`), its queues hold every undecided leaf of that copy once
(`QueuesExact`), what it has used covers the stored charges and those of its live
sessions (`Budgeted`), and what is left suffices for a final answer of each
(`Answerable`, `Resumable`). The copy of the worker that the lease names is the current
row, and only that worker can save. Charges are sums over finite sets of checkpoints
(`SumFunction`); what a sum does when a checkpoint is added follows from the least
counterexample (`LeastNat`), since induction schemes are out of the prover's reach.

These theorems are about fixed limits. The key that ties a row to its input
(`_input_key` in `review/native.py`) does not contain `max_llm_calls_per_job`,
`max_tool_calls_per_job`, `max_candidate_chunks` or `verifier_budget_fraction`, so an
operator may lower them between two attempts; of such an edit the theorems say nothing.

`ReconcilerProofs` proves, for any set of changes, overlap, sweep interval, outages,
uploads, edits of the scope and failed passes (`ReconcilerAssumption`):
`NothingSlipsBehind` (`[]WithinReach`) and `ReconcilerTypes`. `WithinReach` speaks of
the moment after a pass; to be inductive it needs what holds during one. `PassFinds`: a
wanted Patch Set older than the start of the running pass (by more than the overlap) is
`Carried`, that is, still to be found by this pass, among its events, or left to a full
sweep. `EditOpen` says what the open transaction of an administrator may promise when
it commits: nothing it puts in scope is out of reach unless a pass has begun since its
time stamp (which is `raced`) or a sweep is due. `SkippedPredate`, `LateIndexed`,
`Counted` and `PassStages` relate jobs, index, uploads and the order of a pass.

Only model-checked: liveness under fairness, which is out of the prover's reach
(`EveryJobEnds`, `EveryVoteEnds`, `AttemptEnds`, `EveryMissingFound`, `QueryEnds`,
`EveryCallEnds`), and the three violations of section 5. Every other property of a
passing run is a theorem.

## 5. Findings

Each is a run that TLC must find violated.

1. `StallInPost`: the docstring of `refresh_publish_guard` says that renewing
   the lease prevents a stale and a replacement worker from both publishing.
   Nothing ties the POST to the lease: a worker suspended for longer than the
   lease after the guard still posts.
2. `StaleFailure`: `mark_publication_failed` checks no lease. A stale worker
   overwrites its successor's status, and a requeue then resets FAILED to
   PENDING although the comments are published (`service.py:634-637` promises
   the opposite for PENDING rows).
   By the same unfenced write the new owner takes the FAILED branch of
   `_process_publish` and ends the job as FAILED_PERMANENT without asking
   Gerrit.
3. `SharedMirror`: `repos/manager.py` calls worktrees immutable and the mirror
   cache-only. A fetch that fails as if the mirror were broken removes the whole
   mirror under the project's lock, which a review that is reading its worktree does
   not hold: with the mirror goes the registration of that worktree and its objects.
   Git commands in it then fail, which ends the other review with a PermanentError,
   or, where a missing file is a normal answer (`read_text_at_revision`), is taken for
   one. The texts that count as a broken mirror include a lock file left by a fetch that
   was killed at its time limit, a full disk and some errors of the remote. The run: one
   slot uses a worktree, another's fetch fails with such a text, and the mirror goes.

## 6. Not modelled

- *Finding lineage*, *repository tools*, *chunking and policy text*: pure functions of
  texts; their results depend on strings only. Chunks and validation enter
  `ReviewScheduler` as sets and arbitrary subsets.
- *Runtime configuration*: each update is one transaction under the row's lock that
  counts the generation up, and services read it once per process. The forms merge
  with a copy read before, so that of two administrators who edit one section at once
  the later wins; nothing in the repository promises otherwise.
- *Pruning of the recovery cache* and the *global service switch*: the first removes
  rows of finished jobs by age, the second stops every slot's claims alike.
- *LLM client*, *administration UI*, *CLI*, *health*, *logging*: input and output
  without state the review jobs depend on; what they may report to the rest (an
  outage, a truncated answer, an operator's command) is an input of the modules above.
- *Gerrit answers' layout and comment texts*: no property is about them.
- The merge Patch Sets, size limits and diff parsing of `repos/manager.py`, and the
  deletion of a managed project.

What would add most next: an abstract specification of `ReviewJobs` (a Patch Set's
review is published at most once, in order, by whoever holds the lease), with a proof
that `ReviewJobs` implements it under `PostsAreFenced`.
