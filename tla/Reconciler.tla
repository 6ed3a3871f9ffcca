-------------------------------- MODULE Reconciler --------------------------------
(***************************************************************************)
(* run_reconciler: how a Patch Set whose event was lost still gets its     *)
(* job.  A pass asks Gerrit for the open changes updated since the last    *)
(* successful pass, with an overlap; now and then, and when a project was  *)
(* opened to all its changes, it asks for every open change.               *)
(*                                                                         *)
(* Times are kept as ages that grow with Tick and stop at the bound Old,   *)
(* so that the clock never ends.  A query of one project is what           *)
(* OpenChanges promises of it: every change that matched and was not       *)
(* touched while the pages were read, and perhaps others.                  *)
(***************************************************************************)
EXTENDS Integers, FiniteSets

CONSTANTS
    Changes,        \* the project's changes
    Never,          \* a watermark that is not there yet
    NoScope,        \* no administrator's transaction is open
    Overlap,        \* max(60 s, reconcile_interval_seconds)
    SweepEvery,     \* reconcile_full_sweep_interval_seconds
    MaxOutage,      \* bound: no success for longer than this, no pass takes longer
    MaxUpdates,     \* bound: uploads and other updates of a change
    MaxEdits,       \* bound: edits of the project's scope
    MaxFailures     \* bound: passes that fail

ASSUME ReconcilerAssumption ==
    /\ {Overlap, SweepEvery, MaxOutage} \subseteq Nat \ {0}
    /\ {MaxUpdates, MaxEdits, MaxFailures} \subseteq Nat
    /\ Never \notin Nat

VARIABLES
    change,     \* Gerrit's changes and their entries in its secondary index
    job,        \* the newest job of each change
    scope,      \* the project's committed row
    edit,       \* the row an administrator's open transaction will commit
    watermark, fullSweep,   \* age of the two durable watermarks
    pass,       \* the running pass
    updates, edits, failures,
    raced       \* history: a pass began while the current row was being committed

vars == <<change, job, scope, edit, watermark, fullSweep, pass, updates, edits,
          failures, raced>>

\* Older than anything an incremental pass may still have to reach.
Old == MaxOutage + Overlap + 1
Older(age) == IF age = Never THEN Never ELSE IF age < Old THEN age + 1 ELSE Old

\* A change: its current Patch Set, the age of its last update, whether the
\* index shows it, and whether the index showed it later than the overlap.
Change == [ps : 1 .. MaxUpdates + 1, updated : 0 .. Old, open : BOOLEAN,
           indexed : BOOLEAN, late : BOOLEAN]

\* The newest Patch Set that has a job, and whether that job is SKIPPED_SCOPE.
Job == [ps : 0 .. MaxUpdates + 1, skipped : BOOLEAN]

\* predating: the changes whose current Patch Set is older than review_start_at
\* (none when the mode is INCLUDE_OPEN).  unswept: updated_at > last full sweep.
Scope == [enabled : BOOLEAN, mode : {"FROM_NOW", "INCLUDE_OPEN"},
          predating : SUBSET Changes, unswept : BOOLEAN]

\* begun: age of pass_started.  read: scopes and watermarks are read; queried:
\* the pages are read.  afterScope, afterEdit: it began after the time stamp of
\* the committed row, of the open transaction.
Idle == [on |-> FALSE, begun |-> 0, read |-> FALSE, queried |-> FALSE,
         covers |-> FALSE, full |-> FALSE, all |-> FALSE, skip |-> {}, touched |-> {},
         events |-> {}, advanced |-> FALSE, afterScope |-> FALSE, afterEdit |-> FALSE]

InScope(c) == scope.enabled /\ change[c].open /\ c \notin scope.predating
HasJob(c) == job[c].ps = change[c].ps /\ ~job[c].skipped
Missing(c) == InScope(c) /\ ~HasJob(c)

Init ==
    /\ change = [c \in Changes |->
            [ps |-> 1, updated |-> Old, open |-> TRUE, indexed |-> TRUE, late |-> FALSE]]
    /\ job = [c \in Changes |-> [ps |-> 0, skipped |-> FALSE]]
    /\ \E enabled \in BOOLEAN :
        scope = [enabled |-> enabled, mode |-> "FROM_NOW", predating |-> Changes,
                 unswept |-> TRUE]
    /\ edit = NoScope
    /\ watermark = Never /\ fullSweep = Never
    /\ pass = Idle
    /\ updates = 0 /\ edits = 0 /\ failures = 0
    /\ raced = FALSE

-----------------------------------------------------------------------------
(* Gerrit *)

\* The clock.  MaxOutage bounds a pass and how long passes go without success.
Tick ==
    /\ pass.on => pass.begun < MaxOutage
    /\ watermark # Never => watermark < MaxOutage
    /\ fullSweep # Never => fullSweep < MaxOutage + SweepEvery
    /\ change' = [c \in Changes |-> [change[c] EXCEPT !.updated = Older(@),
            !.late = @ \/ (~change[c].indexed /\ change[c].updated >= Overlap)]]
    /\ watermark' = IF watermark = Never THEN Never ELSE watermark + 1
    /\ fullSweep' = IF fullSweep = Never THEN Never ELSE fullSweep + 1
    /\ pass' = [pass EXCEPT !.begun = IF pass.on THEN Older(@) ELSE @]
    /\ UNCHANGED <<job, scope, edit, updates, edits, failures, raced>>

Touch(c) == pass' = [pass EXCEPT !.touched = IF pass.read THEN @ \cup {c} ELSE @]

\* A new Patch Set; its event may be lost, and the index shows it later.
Upload(c) ==
    /\ change[c].open
    /\ updates < MaxUpdates
    /\ updates' = updates + 1
    /\ change' = [change EXCEPT ![c] = [ps |-> @.ps + 1, updated |-> 0, open |-> TRUE,
                                        indexed |-> FALSE, late |-> FALSE]]
    /\ scope' = [scope EXCEPT !.predating = @ \ {c}]
    /\ edit' = IF edit = NoScope THEN edit
               ELSE [edit EXCEPT !.row.predating = @ \ {c}]
    /\ pass' = [pass EXCEPT !.skip = @ \ {c},
                            !.touched = IF pass.read THEN @ \cup {c} ELSE @]
    /\ UNCHANGED <<job, watermark, fullSweep, edits, failures, raced>>

\* A comment or another update of the change, which moves it in the order of
\* updates without a new Patch Set.
Comment(c) ==
    /\ change[c].open
    /\ updates < MaxUpdates
    /\ updates' = updates + 1
    /\ change' = [change EXCEPT ![c].updated = 0]
    /\ Touch(c)
    /\ UNCHANGED <<job, scope, edit, watermark, fullSweep, edits, failures, raced>>

Close(c) ==
    /\ change[c].open
    /\ change' = [change EXCEPT ![c].open = FALSE]
    /\ Touch(c)
    /\ UNCHANGED <<job, scope, edit, watermark, fullSweep, updates, edits, failures, raced>>

\* The secondary index catches up.
Index(c) ==
    /\ ~change[c].indexed
    /\ change' = [change EXCEPT ![c].indexed = TRUE]
    /\ Touch(c)
    /\ UNCHANGED <<job, scope, edit, watermark, fullSweep, updates, edits, failures, raced>>

-----------------------------------------------------------------------------
(* The job store and the administrator *)

\* JobStore.enqueue for Patch Set n of a change, under the project's row lock.
\* An older Patch Set's own age does not matter to what follows.
Enqueued(c, n) ==
    LET old == job[c] IN
    IF old.ps < n
    THEN [ps |-> n, skipped |-> n = change[c].ps /\ c \in scope.predating]
    ELSE IF old.ps = n /\ scope.enabled /\ scope.mode = "INCLUDE_OPEN"
    THEN [old EXCEPT !.skipped = FALSE]
    ELSE old

\* The event stream delivers the current Patch Set, perhaps again.
Deliver(c) ==
    /\ scope.enabled
    /\ edit = NoScope
    /\ job' = [job EXCEPT ![c] = Enqueued(c, change[c].ps)]
    /\ UNCHANGED <<change, scope, edit, watermark, fullSweep, pass, updates, edits,
                   failures, raced>>

\* A FROM_NOW project starts anew whenever it is written, unless it is disabled by
\* set_project_enabled.
StartsAnew(enabled, mode) ==
    IF mode = "INCLUDE_OPEN" THEN {FALSE}
    ELSE IF enabled \/ scope.mode # mode THEN {TRUE}
    ELSE BOOLEAN

\* upsert_project, set_project_enabled, set_project_review_start_mode: the time
\* stamps are taken inside the transaction.
Stamp(enabled, mode) ==
    /\ edit = NoScope
    /\ edits < MaxEdits
    /\ edits' = edits + 1
    /\ \E cuts \in StartsAnew(enabled, mode) :
        edit' = [row |-> [enabled |-> enabled, mode |-> mode, unswept |-> TRUE,
                          predating |-> IF cuts THEN Changes
                                        ELSE IF mode = "FROM_NOW" THEN scope.predating
                                        ELSE {}],
                 cuts |-> cuts, passed |-> FALSE]
    /\ pass' = [pass EXCEPT !.afterEdit = FALSE]
    /\ UNCHANGED <<change, job, scope, watermark, fullSweep, updates, failures, raced>>

\* The commit, with _skip_pre_cutoff_jobs: jobs that are unfinished, not leased
\* and not published are skipped.
Commit ==
    /\ edit # NoScope
    /\ scope' = edit.row
    /\ edit' = NoScope
    /\ raced' = edit.passed
    /\ pass' = [pass EXCEPT !.afterScope = pass.afterEdit]
    /\ \E skipped \in SUBSET {c \in edit.row.predating : edit.cuts /\ job[c].ps > 0} :
        job' = [c \in Changes |-> [job[c] EXCEPT !.skipped = @ \/ c \in skipped]]
    /\ UNCHANGED <<change, watermark, fullSweep, updates, edits, failures>>

-----------------------------------------------------------------------------
(* A reconciliation pass *)

\* pass_started is taken before anything is read.
Start ==
    /\ ~pass.on
    /\ pass' = [Idle EXCEPT !.on = TRUE, !.afterScope = TRUE, !.afterEdit = TRUE]
    /\ edit' = IF edit = NoScope THEN edit ELSE [edit EXCEPT !.passed = TRUE]
    /\ UNCHANGED <<change, job, scope, watermark, fullSweep, updates, edits, failures, raced>>

\* MUTANT: no periodic sweep.
BugNoSweep(begun) ==
    \/ fullSweep = Never
    \/ scope.enabled /\ scope.mode = "INCLUDE_OPEN" /\ scope.unswept

\* For a pass that started that long ago.
FullSweepDue(begun) ==
    \/ fullSweep = Never
    \/ fullSweep - begun >= SweepEvery
    \/ scope.enabled /\ scope.mode = "INCLUDE_OPEN" /\ scope.unswept

\* The enabled scopes, their cutoffs and the watermarks are read.  When the
\* project is disabled the pass is about other projects.
Read ==
    LET due == FullSweepDue(pass.begun) IN
    /\ pass.on /\ ~pass.read
    /\ pass' = [pass EXCEPT !.read = TRUE, !.covers = scope.enabled, !.full = due,
                    !.all = due \/ watermark = Never, !.skip = scope.predating]
    /\ UNCHANGED <<change, job, scope, edit, watermark, fullSweep, updates, edits,
                   failures, raced>>

\* status:open, and after: the watermark minus the overlap.
Matches(c) ==
    /\ change[c].open
    /\ change[c].indexed
    /\ pass.all \/ change[c].updated <= watermark + Overlap

\* reconciliation_events: what the pages showed, without Patch Sets that the
\* project's cutoff excludes.
Query ==
    LET stable == {c \in Changes : Matches(c) /\ c \notin pass.touched}
        chance == {c \in Changes : change[c].open /\ (~change[c].indexed \/ c \in pass.touched)}
    IN
    /\ pass.read /\ ~pass.queried
    /\ \E more \in SUBSET chance :
        LET shown == IF pass.covers THEN (stable \cup more) \ pass.skip ELSE {} IN
        pass' = [pass EXCEPT !.queried = TRUE,
                             !.events = {[change |-> c, ps |-> change[c].ps] : c \in shown}]
    /\ UNCHANGED <<change, job, scope, edit, watermark, fullSweep, updates, edits,
                   failures, raced>>

\* One event is enqueued; enqueue waits for an open transaction on the row.
Recover ==
    /\ pass.queried
    /\ edit = NoScope
    /\ \E e \in pass.events :
        /\ pass' = [pass EXCEPT !.events = @ \ {e}]
        /\ job' = [job EXCEPT ![e.change] = Enqueued(e.change, e.ps)]
    /\ UNCHANGED <<change, scope, edit, watermark, fullSweep, updates, edits,
                   failures, raced>>

\* MUTANT: the watermark becomes the end of the pass.
BugAdvanceToNow(age, begun) == 0

\* MUTANT: a watermark from long ago is stored.
BugLateAdvance(age, begun) == begun + MaxOutage

\* advance_service_watermark never moves a watermark back.
Newer(age, begun) == IF age = Never \/ begun < age THEN begun ELSE age

Advance ==
    /\ pass.queried /\ pass.events = {} /\ ~pass.advanced
    /\ watermark' = Newer(watermark, pass.begun)
    /\ pass' = IF pass.full THEN [pass EXCEPT !.advanced = TRUE] ELSE Idle
    /\ UNCHANGED <<change, job, scope, edit, fullSweep, updates, edits, failures, raced>>

AdvanceFull ==
    /\ pass.advanced
    /\ fullSweep' = Newer(fullSweep, pass.begun)
    /\ scope' = [scope EXCEPT !.unswept = @ /\ ~pass.afterScope]
    /\ edit' = IF edit = NoScope THEN edit
               ELSE [edit EXCEPT !.row.unswept = @ /\ ~pass.afterEdit]
    /\ pass' = Idle
    /\ UNCHANGED <<change, job, watermark, updates, edits, failures, raced>>

\* Gerrit or the database fails, or the process restarts: the next pass starts
\* from the watermarks as they are.
Fail ==
    /\ pass.on
    /\ failures < MaxFailures
    /\ failures' = failures + 1
    /\ pass' = Idle
    /\ UNCHANGED <<change, job, scope, edit, watermark, fullSweep, updates, edits, raced>>

Step == Start \/ Read \/ Query \/ Recover \/ Advance \/ AdvanceFull

Next ==
    \/ Tick
    \/ \E c \in Changes : Upload(c) \/ Comment(c) \/ Close(c) \/ Index(c) \/ Deliver(c)
    \/ \E enabled \in BOOLEAN, mode \in {"FROM_NOW", "INCLUDE_OPEN"} : Stamp(enabled, mode)
    \/ Commit
    \/ Step
    \/ Fail

Spec == Init /\ [][Next]_vars

\* The reconciler loops for ever and its calls have timeouts; the clock runs,
\* transactions end, and Gerrit's index catches up sometime.  Nothing is assumed
\* of the event stream.
FairSpec ==
    /\ Spec
    /\ WF_vars(Tick) /\ WF_vars(Step) /\ WF_vars(Commit)
    /\ \A c \in Changes : WF_vars(Index(c))

-----------------------------------------------------------------------------
(* Properties *)

TypeOK ==
    /\ change \in [Changes -> Change]
    /\ job \in [Changes -> Job]
    /\ scope \in Scope
    /\ edit # NoScope => edit.row \in Scope
    /\ watermark \in 0 .. MaxOutage \cup {Never}
    /\ fullSweep \in 0 .. MaxOutage + SweepEvery \cup {Never}
    /\ pass.begun \in 0 .. Old

\* service.py:1204: the next pass reaches every Patch Set that has no job,
\* whatever passes failed or crashed half-way, whatever was updated while pages
\* were read and however the scope was edited; except when the index hid the
\* change longer than the overlap, or a pass began while the row that opened
\* the project was still being committed.
WithinReach ==
    \A c \in Changes :
        (Missing(c) /\ change[c].indexed /\ ~change[c].late /\ ~raced) =>
            \/ watermark = Never
            \/ FullSweepDue(0)
            \/ change[c].updated <= watermark + Overlap

\* A Patch Set in scope always ends up with a job, even then, unless it is
\* replaced, closed or put out of scope first.
EveryMissingFound == \A c \in Changes : Missing(c) ~> ~Missing(c)
=============================================================================
