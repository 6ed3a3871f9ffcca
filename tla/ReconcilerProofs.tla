---------------------------- MODULE ReconcilerProofs ----------------------------
(***************************************************************************)
(* No Patch Set slips behind the watermarks: for any changes, overlap,     *)
(* sweep interval, outages, edits of the scope and failed passes, what has *)
(* no job is within reach of the next pass.                                *)
(*                                                                         *)
(* The invariant follows a Patch Set that the watermark will leave behind  *)
(* when the running pass ends: the pass still finds it, or has it in its   *)
(* events, or a full sweep is due afterwards (Carried); and what an open   *)
(* edit of the scope may promise when it commits (EditOpen).               *)
(***************************************************************************)
EXTENDS Reconciler, TLAPS

-----------------------------------------------------------------------------
(* The inductive invariant *)

\* An administrator's open transaction, an event of a pass, and a pass.
Edit == [row : Scope, cuts : BOOLEAN, passed : BOOLEAN]

Event == [change : Changes, ps : 1 .. MaxUpdates + 1]

Pass == [on : BOOLEAN, begun : 0 .. MaxOutage, read : BOOLEAN, queried : BOOLEAN,
         covers : BOOLEAN, full : BOOLEAN, all : BOOLEAN, skip : SUBSET Changes,
         touched : SUBSET Changes, events : SUBSET Event, advanced : BOOLEAN,
         afterScope : BOOLEAN, afterEdit : BOOLEAN]

Types ==
    /\ change \in [Changes -> Change]
    /\ job \in [Changes -> Job]
    /\ scope \in Scope
    /\ edit # NoScope => edit \in Edit
    /\ watermark \in 0 .. MaxOutage \cup {Never}
    /\ fullSweep \in 0 .. MaxOutage + SweepEvery \cup {Never}
    /\ pass \in Pass
    /\ updates \in 0 .. MaxUpdates
    /\ raced \in BOOLEAN

\* Jobs and events are about Patch Sets that exist, and uploads are counted.
Counted ==
    /\ \A c \in Changes : change[c].ps <= updates + 1 /\ job[c].ps <= change[c].ps
    /\ \A e \in pass.events : e.ps <= change[e.change].ps

\* In a FROM_NOW project a job is out of scope only if its Patch Set is older
\* than the start, so that enqueue never has to revive one.
SkippedPredate ==
    \A c \in Changes : job[c].ps = change[c].ps /\ job[c].skipped =>
        /\ scope.mode = "FROM_NOW" => c \in scope.predating
        /\ edit # NoScope /\ edit.row.mode = "FROM_NOW" => c \in edit.row.predating

\* What the index has hidden beyond the overlap is late.
LateIndexed ==
    \A c \in Changes : ~change[c].indexed /\ change[c].updated > Overlap => change[c].late

\* The order of a pass, which is younger than both watermarks until it advances them.
PassStages ==
    /\ pass.queried => pass.read
    /\ pass.read => pass.on
    /\ ~pass.read => pass.touched = {}
    /\ pass.advanced => pass.queried /\ pass.full /\ pass.events = {}
    /\ pass.on /\ watermark # Never => pass.begun <= watermark
    /\ pass.on /\ fullSweep # Never => pass.begun <= fullSweep
    /\ pass.advanced => watermark = pass.begun

\* An open edit that no pass has overtaken: whatever it puts in scope will be
\* swept, or was uploaded since the running pass began.
EditOpen ==
    edit # NoScope =>
        /\ edit.row.mode = "FROM_NOW" /\ edit.row.enabled => edit.cuts
        /\ edit.row.mode = "INCLUDE_OPEN" => ~edit.cuts
        /\ pass.on /\ pass.afterEdit => edit.passed
        /\ ~edit.passed => edit.row.unswept
        /\ ~edit.passed /\ edit.cuts => \A c \in Changes \ edit.row.predating :
               /\ watermark # Never => change[c].updated <= watermark
               /\ pass.on => change[c].updated <= pass.begun

\* A Patch Set that the reconciler has to find.
Wanted(c) == Missing(c) /\ change[c].indexed /\ ~change[c].late

\* A full sweep is due: because the project was opened, because of its age.
OpenedUnswept == scope.enabled /\ scope.mode = "INCLUDE_OPEN" /\ scope.unswept
SweepPending == ~pass.full /\ fullSweep # Never /\ fullSweep >= SweepEvery

\* The running query is about the change.
InReach(c) == pass.all \/ (watermark # Never /\ change[c].updated <= watermark + Overlap)

\* The running pass, or a full sweep after it, finds the Patch Set.
Carried(c) ==
    \/ OpenedUnswept /\ ~pass.afterScope
    \/ SweepPending
    \/ ~pass.queried /\ pass.covers /\ c \notin pass.skip /\ c \notin pass.touched /\ InReach(c)
    \/ pass.queried /\ [change |-> c, ps |-> change[c].ps] \in pass.events

\* The watermark may pass only what is carried.
PassFinds ==
    \A c \in Changes :
        pass.read /\ ~raced /\ Wanted(c) /\ change[c].updated > pass.begun + Overlap
            => Carried(c)

IInv ==
    /\ Types
    /\ Counted
    /\ SkippedPredate
    /\ LateIndexed
    /\ PassStages
    /\ EditOpen
    /\ WithinReach
    /\ PassFinds

-----------------------------------------------------------------------------
(* Types *)

\* An age grows by one tick at most, until it is as old as counts.
LEMMA AgeOlder ==
    ASSUME NEW a \in 0 .. Old
    PROVE  /\ Older(a) \in 0 .. Old
           /\ a <= Older(a) /\ Older(a) <= a + 1
           /\ a < Old => Older(a) = a + 1
           /\ a = Old => Older(a) = a
BY ReconcilerAssumption DEF Older, Old

\* The first state is well typed.
LEMMA InitTypes == ASSUME Init PROVE Types
<1>1. pass \in Pass
  BY ReconcilerAssumption DEF Init, Idle, Pass
<1>2. change \in [Changes -> Change] /\ job \in [Changes -> Job]
  BY ReconcilerAssumption DEF Init, Change, Job, Old
<1>3. scope \in Scope
  BY DEF Init, Scope
<1>4. edit = NoScope /\ watermark = Never /\ fullSweep = Never /\ updates = 0 /\ raced = FALSE
  BY Zenon DEF Init
<1>5. updates \in 0 .. MaxUpdates
  BY <1>4, ReconcilerAssumption
<1> QED BY <1>1, <1>2, <1>3, <1>4, <1>5, Zenon DEF Types

\* A tick, field by field.
LEMMA TickFacts ==
    ASSUME Types, Tick
    PROVE  /\ Types'
           /\ \A c \in Changes :
               /\ change'[c].ps = change[c].ps
               /\ change'[c].updated = Older(change[c].updated)
               /\ change'[c].open = change[c].open
               /\ change'[c].indexed = change[c].indexed
               /\ change[c].late => change'[c].late
               /\ ~change[c].indexed /\ change[c].updated >= Overlap => change'[c].late
           /\ watermark = Never => watermark' = Never
           /\ watermark # Never => watermark' = watermark + 1
           /\ fullSweep = Never => fullSweep' = Never
           /\ fullSweep # Never => fullSweep' = fullSweep + 1
           /\ \E a \in 0 .. MaxOutage :
               /\ pass' = [pass EXCEPT !.begun = a]
               /\ pass.on => a = pass.begun + 1
               /\ ~pass.on => a = pass.begun
           /\ UNCHANGED <<job, scope, edit, updates, raced>>
<1> DEFINE late(c) == change[c].late \/ (~change[c].indexed /\ change[c].updated >= Overlap)
           a == IF pass.on THEN Older(pass.begun) ELSE pass.begun
<1>1. change' = [c \in Changes |-> [change[c] EXCEPT !.updated = Older(@), !.late = late(c)]]
  BY Zenon DEF Tick
<1>2. \A c \in Changes : late(c) \in BOOLEAN
  OBVIOUS
<1>3. \A c \in Changes : /\ change[c].late => late(c)
                         /\ ~change[c].indexed /\ change[c].updated >= Overlap => late(c)
  BY Zenon
<1>4. pass' = [pass EXCEPT !.begun = a]
  BY Zenon DEF Tick
<1>5. /\ pass.on => pass.begun < MaxOutage
      /\ watermark # Never => watermark < MaxOutage
      /\ fullSweep # Never => fullSweep < MaxOutage + SweepEvery
      /\ watermark' = IF watermark = Never THEN Never ELSE watermark + 1
      /\ fullSweep' = IF fullSweep = Never THEN Never ELSE fullSweep + 1
      /\ UNCHANGED <<job, scope, edit, updates, raced>>
  BY Zenon DEF Tick
<1>6. /\ a \in 0 .. MaxOutage
      /\ pass.on => a = pass.begun + 1
      /\ ~pass.on => a = pass.begun
  BY <1>5, ReconcilerAssumption DEF Types, Pass, Older, Old
<1> HIDE DEF late, a
<1>7. \A c \in Changes : Older(change[c].updated) \in 0 .. Old
  BY AgeOlder DEF Types, Change
<1>8. change' \in [Changes -> Change]
  BY <1>1, <1>2, <1>7 DEF Types, Change
<1>9. pass' \in Pass
  BY <1>4, <1>6, ReconcilerAssumption DEF Types, Pass
<1>10. /\ watermark' \in 0 .. MaxOutage \cup {Never}
       /\ fullSweep' \in 0 .. MaxOutage + SweepEvery \cup {Never}
  BY <1>5, ReconcilerAssumption DEF Types
<1>11. Types'
  BY <1>5, <1>8, <1>9, <1>10 DEF Types
<1>12. \A c \in Changes :
         /\ change'[c].ps = change[c].ps
         /\ change'[c].updated = Older(change[c].updated)
         /\ change'[c].open = change[c].open
         /\ change'[c].indexed = change[c].indexed
         /\ change'[c].late = late(c)
  BY <1>1, <1>2, <1>7 DEF Types, Change
<1> QED BY <1>3, <1>4, <1>5, <1>6, <1>11, <1>12, Zenon

\* What enqueue leaves: never an older Patch Set than before, a job that is
\* wanted no longer where one was enqueued for the current Patch Set, and
\* SKIPPED_SCOPE only what was so already or predates the start.
LEMMA EnqueuedFacts ==
    ASSUME Types, NEW c \in Changes, NEW n \in 1 .. MaxUpdates + 1
    PROVE  /\ Enqueued(c, n) \in Job
           /\ Enqueued(c, n).ps = IF job[c].ps < n THEN n ELSE job[c].ps
           /\ job[c].ps < n /\ n = change[c].ps =>
                (Enqueued(c, n).skipped <=> c \in scope.predating)
           /\ job[c].ps < n /\ n # change[c].ps => ~Enqueued(c, n).skipped
           /\ job[c].ps >= n => (Enqueued(c, n).skipped => job[c].skipped)
           /\ job[c].ps = n /\ scope.enabled /\ scope.mode = "INCLUDE_OPEN" =>
                ~Enqueued(c, n).skipped
<1> DEFINE out == n = change[c].ps /\ c \in scope.predating
<1>0. PICK o \in BOOLEAN : o = out
  BY Zenon
<1>1. Enqueued(c, n) =
        IF job[c].ps < n THEN [ps |-> n, skipped |-> o]
        ELSE IF job[c].ps = n /\ scope.enabled /\ scope.mode = "INCLUDE_OPEN"
        THEN [job[c] EXCEPT !.skipped = FALSE] ELSE job[c]
  BY <1>0, Zenon DEF Enqueued
<1>2. job[c] \in Job
  BY DEF Types
<1>3. o <=> (n = change[c].ps /\ c \in scope.predating)
  BY <1>0, Zenon
<1> HIDE DEF out
<1>4. CASE job[c].ps < n
  <2>1. Enqueued(c, n) = [ps |-> n, skipped |-> o]
    BY <1>1, <1>4, Zenon
  <2> QED BY <1>0, <1>2, <1>3, <1>4, <2>1 DEF Job
<1>5. CASE ~(job[c].ps < n) /\ job[c].ps = n /\ scope.enabled /\ scope.mode = "INCLUDE_OPEN"
  <2>1. Enqueued(c, n) = [job[c] EXCEPT !.skipped = FALSE]
    BY <1>1, <1>5, Zenon
  <2> QED BY <1>2, <1>5, <2>1 DEF Job
<1>6. CASE ~(job[c].ps < n) /\ ~(job[c].ps = n /\ scope.enabled /\ scope.mode = "INCLUDE_OPEN")
  <2>1. Enqueued(c, n) = job[c]
    BY <1>1, <1>6, Zenon
  <2> QED BY <1>2, <1>6, <2>1 DEF Job
<1> QED BY <1>4, <1>5, <1>6, Zenon

\* A new Patch Set has a number within the bound, since uploads are counted.
LEMMA UploadTypes == ASSUME Types, Counted, NEW c \in Changes, Upload(c) PROVE Types'
<1>1. change' \in [Changes -> Change]
  BY ReconcilerAssumption DEF Types, Counted, Upload, Change, Old
<1>2. scope' \in Scope
  BY DEF Types, Upload, Scope
<1>3. edit' # NoScope => edit' \in Edit
  BY DEF Types, Upload, Edit, Scope
<1>4. pass' \in Pass
  BY DEF Types, Upload, Pass
<1> QED BY <1>1, <1>2, <1>3, <1>4, ReconcilerAssumption DEF Types, Upload

\* A comment, the end of a change and the index keep the types.
LEMMA TouchTypes ==
    ASSUME Types, NEW c \in Changes, Comment(c) \/ Close(c) \/ Index(c)
    PROVE  Types'
<1>1. change' \in [Changes -> Change] /\ updates' \in 0 .. MaxUpdates
  <2>1. CASE Comment(c)
    BY <2>1, ReconcilerAssumption DEF Types, Comment, Change, Old
  <2>2. CASE Close(c)
    BY <2>2 DEF Types, Close, Change
  <2>3. CASE Index(c)
    BY <2>3 DEF Types, Index, Change
  <2> QED BY <2>1, <2>2, <2>3
<1>2. pass' \in Pass
  BY DEF Types, Comment, Close, Index, Touch, Pass
<1> QED BY <1>1, <1>2 DEF Types, Comment, Close, Index

\* An event is enqueued as a well typed job.
LEMMA DeliverTypes == ASSUME Types, NEW c \in Changes, Deliver(c) PROVE Types'
<1>1. change[c].ps \in 1 .. MaxUpdates + 1
  BY DEF Types, Change
<1>2. Enqueued(c, change[c].ps) \in Job
  BY <1>1, EnqueuedFacts
<1> QED BY <1>2 DEF Types, Deliver

\* An administrator's open transaction is well typed.
LEMMA StampTypes ==
    ASSUME Types, NEW enabled \in BOOLEAN, NEW mode \in {"FROM_NOW", "INCLUDE_OPEN"},
           Stamp(enabled, mode)
    PROVE  Types'
<1>1. \A cuts \in StartsAnew(enabled, mode) : cuts \in BOOLEAN
  BY DEF StartsAnew
<1>2. edit' \in Edit
  BY <1>1 DEF Types, Stamp, Edit, Scope
<1>3. pass' \in Pass
  BY DEF Types, Stamp, Pass
<1> QED BY <1>2, <1>3 DEF Types, Stamp

\* A commit, field by field.
LEMMA CommitFacts ==
    ASSUME Types, Commit
    PROVE  /\ Types'
           /\ edit # NoScope /\ edit' = NoScope /\ scope' = edit.row /\ raced' = edit.passed
           /\ pass' = [pass EXCEPT !.afterScope = pass.afterEdit]
           /\ \A c \in Changes :
               /\ job'[c].ps = job[c].ps
               /\ job[c].skipped => job'[c].skipped
               /\ job'[c].skipped =>
                    job[c].skipped \/ (edit.cuts /\ c \in edit.row.predating)
           /\ UNCHANGED <<change, watermark, fullSweep, updates>>
<1>1. PICK skipped \in SUBSET {c \in edit.row.predating : edit.cuts /\ job[c].ps > 0} :
        job' = [c \in Changes |-> [job[c] EXCEPT !.skipped = @ \/ c \in skipped]]
  BY Zenon DEF Commit
<1> DEFINE s(c) == job[c].skipped \/ c \in skipped
<1>2. job' = [c \in Changes |-> [job[c] EXCEPT !.skipped = s(c)]]
  BY <1>1, Zenon
<1>3. \A c \in Changes : /\ s(c) \in BOOLEAN
                         /\ job[c].skipped => s(c)
                         /\ s(c) => job[c].skipped \/ (edit.cuts /\ c \in edit.row.predating)
  BY <1>1
<1> HIDE DEF s
<1>4. job' \in [Changes -> Job]
  BY <1>2, <1>3 DEF Types, Job
<1>5. \A c \in Changes : job'[c].ps = job[c].ps /\ job'[c].skipped = s(c)
  BY <1>2, <1>3 DEF Types, Job
<1>6. /\ edit # NoScope /\ edit' = NoScope /\ scope' = edit.row /\ raced' = edit.passed
      /\ pass' = [pass EXCEPT !.afterScope = pass.afterEdit]
      /\ UNCHANGED <<change, watermark, fullSweep, updates>>
  BY Zenon DEF Commit
<1>7. Types'
  BY <1>4, <1>6 DEF Types, Edit, Pass
<1> QED BY <1>3, <1>5, <1>6, <1>7, Zenon

\* A pass begins well typed.
LEMMA StartTypes == ASSUME Types, Start PROVE Types'
<1>1. Idle \in Pass
  BY ReconcilerAssumption DEF Pass, Idle
<1>2. pass' = [Idle EXCEPT !.on = TRUE, !.afterScope = TRUE, !.afterEdit = TRUE]
  BY Zenon DEF Start
<1>3. pass' \in Pass
  BY <1>1, <1>2 DEF Pass
<1>4. edit' # NoScope => edit' \in Edit
  BY DEF Types, Start, Edit
<1> QED BY <1>3, <1>4 DEF Types, Start

\* What a pass reads, field by field.
LEMMA ReadFacts ==
    ASSUME Types, Read
    PROVE  /\ Types'
           /\ pass.on /\ ~pass.read
           /\ \E due, all \in BOOLEAN :
               /\ due <=> FullSweepDue(pass.begun)
               /\ all <=> (due \/ watermark = Never)
               /\ pass' = [pass EXCEPT !.read = TRUE, !.covers = scope.enabled, !.full = due,
                                       !.all = all, !.skip = scope.predating]
           /\ UNCHANGED <<change, job, scope, edit, watermark, fullSweep, updates, raced>>
<1> DEFINE d == FullSweepDue(pass.begun)
           a == d \/ watermark = Never
<1>1. pass' = [pass EXCEPT !.read = TRUE, !.covers = scope.enabled, !.full = d,
                           !.all = a, !.skip = scope.predating]
  BY Zenon DEF Read
<1>2. d \in BOOLEAN /\ a \in BOOLEAN
  BY DEF FullSweepDue
<1>3. a <=> (d \/ watermark = Never)
  BY Zenon
<1>4. /\ pass.on /\ ~pass.read
      /\ UNCHANGED <<change, job, scope, edit, watermark, fullSweep, updates, raced>>
  BY Zenon DEF Read
<1>5. PICK due \in BOOLEAN : due = d
  BY <1>2, Zenon
<1>6. PICK all \in BOOLEAN : all = a
  BY <1>2, Zenon
<1>7. pass' = [pass EXCEPT !.read = TRUE, !.covers = scope.enabled, !.full = due,
                           !.all = all, !.skip = scope.predating]
  BY <1>1, <1>5, <1>6, Zenon
<1>8. pass' \in Pass
  BY <1>7 DEF Types, Pass, Scope
<1>9. Types'
  BY <1>4, <1>8 DEF Types
<1> QED BY <1>3, <1>4, <1>5, <1>6, <1>7, <1>9, Zenon

\* What a query found, field by field: every change that matched and was not
\* touched is among the events.
LEMMA QueryFacts ==
    ASSUME Types, Query
    PROVE  /\ Types'
           /\ pass.read /\ ~pass.queried
           /\ \E events \in SUBSET Event :
               /\ pass' = [pass EXCEPT !.queried = TRUE, !.events = events]
               /\ \A e \in events : e.ps = change[e.change].ps
               /\ \A c \in Changes :
                    pass.covers /\ Matches(c) /\ c \notin pass.touched /\ c \notin pass.skip
                        => [change |-> c, ps |-> change[c].ps] \in events
           /\ UNCHANGED <<change, job, scope, edit, watermark, fullSweep, updates, raced>>
<1> DEFINE stable == {c \in Changes : Matches(c) /\ c \notin pass.touched}
           chance == {c \in Changes : change[c].open /\ (~change[c].indexed \/ c \in pass.touched)}
           shown(more) == IF pass.covers THEN (stable \cup more) \ pass.skip ELSE {}
           found(more) == {[change |-> c, ps |-> change[c].ps] : c \in shown(more)}
<1>1. PICK more \in SUBSET chance :
        pass' = [pass EXCEPT !.queried = TRUE, !.events = found(more)]
  BY Zenon DEF Query
<1>2. shown(more) \subseteq Changes
  OBVIOUS
<1>3. \A c \in stable : pass.covers /\ c \notin pass.skip => c \in shown(more)
  OBVIOUS
<1> DEFINE s == shown(more)
<1>4. found(more) = {[change |-> c, ps |-> change[c].ps] : c \in s}
  OBVIOUS
<1> DEFINE events == found(more)
<1>5. \A c \in Changes :
        pass.covers /\ Matches(c) /\ c \notin pass.touched /\ c \notin pass.skip => c \in s
  BY <1>3
<1> HIDE DEF shown, found, stable, chance, s, events
<1>6. events = {[change |-> c, ps |-> change[c].ps] : c \in s} /\ s \subseteq Changes
  BY <1>2, <1>4 DEF s, events
<1>7. events \in SUBSET Event /\ \A e \in events : e.ps = change[e.change].ps
  <2>1. \A c \in Changes : change[c].ps \in 1 .. MaxUpdates + 1
    BY DEF Types, Change
  <2>2. SUFFICES ASSUME NEW e \in events PROVE e \in Event /\ e.ps = change[e.change].ps
    OBVIOUS
  <2>3. PICK c \in s : e = [change |-> c, ps |-> change[c].ps]
    BY <1>6, Zenon
  <2> QED BY <1>6, <2>1, <2>3 DEF Event
<1>8. pass' = [pass EXCEPT !.queried = TRUE, !.events = events]
  BY <1>1 DEF events
<1>9. pass' \in Pass
  BY <1>7, <1>8 DEF Types, Pass
<1>10. /\ pass.read /\ ~pass.queried
       /\ UNCHANGED <<change, job, scope, edit, watermark, fullSweep, updates, raced>>
  BY Zenon DEF Query
<1>11. Types'
  BY <1>9, <1>10 DEF Types
<1>12. \A c \in Changes :
         pass.covers /\ Matches(c) /\ c \notin pass.touched /\ c \notin pass.skip
            => [change |-> c, ps |-> change[c].ps] \in events
  BY <1>5, <1>6, Zenon
<1> QED BY <1>7, <1>8, <1>10, <1>11, <1>12, Zenon

\* A recovered event is enqueued as a well typed job.
LEMMA RecoverTypes == ASSUME Types, Recover PROVE Types'
<1>1. PICK e \in pass.events :
        /\ pass' = [pass EXCEPT !.events = @ \ {e}]
        /\ job' = [job EXCEPT ![e.change] = Enqueued(e.change, e.ps)]
  BY Zenon DEF Recover
<1>2. e \in Event
  BY DEF Types, Pass
<1>3. Enqueued(e.change, e.ps) \in Job
  BY <1>2, EnqueuedFacts DEF Event
<1>4. pass' \in Pass
  BY <1>1 DEF Types, Pass
<1>5. UNCHANGED <<change, scope, edit, watermark, fullSweep, updates, raced>>
  BY Zenon DEF Recover
<1> QED BY <1>1, <1>3, <1>4, <1>5 DEF Types

\* The watermark becomes the age of the pass or stays.
LEMMA AdvanceTypes == ASSUME Types, Advance PROVE Types'
<1>1. Idle \in Pass
  BY ReconcilerAssumption DEF Pass, Idle
<1>2. pass' \in Pass
  BY <1>1 DEF Types, Advance, Pass
<1>3. watermark' \in 0 .. MaxOutage \cup {Never}
  BY DEF Types, Advance, Newer, Pass
<1> QED BY <1>2, <1>3 DEF Types, Advance

\* The end of a full sweep, field by field.
LEMMA AdvanceFullFacts ==
    ASSUME Types, AdvanceFull
    PROVE  /\ Types'
           /\ pass.advanced /\ pass' = Idle
           /\ fullSweep' = Newer(fullSweep, pass.begun)
           /\ \E unswept \in BOOLEAN :
               /\ unswept <=> scope.unswept /\ ~pass.afterScope
               /\ scope' = [scope EXCEPT !.unswept = unswept]
           /\ edit = NoScope => edit' = NoScope
           /\ edit # NoScope =>
               \E unswept \in BOOLEAN :
                   /\ unswept <=> edit.row.unswept /\ ~pass.afterEdit
                   /\ edit' = [edit EXCEPT !.row.unswept = unswept]
           /\ UNCHANGED <<change, job, watermark, updates, raced>>
<1> DEFINE s == scope.unswept /\ ~pass.afterScope
           e == edit.row.unswept /\ ~pass.afterEdit
<1>1. /\ scope' = [scope EXCEPT !.unswept = s]
      /\ edit' = IF edit = NoScope THEN edit ELSE [edit EXCEPT !.row.unswept = e]
  BY Zenon DEF AdvanceFull
<1>2. /\ pass.advanced /\ pass' = Idle
      /\ fullSweep' = Newer(fullSweep, pass.begun)
      /\ UNCHANGED <<change, job, watermark, updates, raced>>
  BY Zenon DEF AdvanceFull
<1>3. PICK u \in BOOLEAN : u = s
  BY Zenon
<1>4. PICK v \in BOOLEAN : v = e
  BY Zenon
<1>5. u <=> scope.unswept /\ ~pass.afterScope
  BY <1>3, Zenon
<1>6. v <=> edit.row.unswept /\ ~pass.afterEdit
  BY <1>4, Zenon
<1>7. scope' = [scope EXCEPT !.unswept = u]
  BY <1>1, <1>3, Zenon
<1>8. edit # NoScope => edit' = [edit EXCEPT !.row.unswept = v]
  BY <1>1, <1>4, Zenon
<1>9. edit = NoScope => edit' = NoScope
  BY <1>1, Zenon
<1> HIDE DEF s, e
<1>10. scope' \in Scope
  BY <1>7 DEF Types, Scope
<1>11. edit' # NoScope => edit' \in Edit
  BY <1>8, <1>9 DEF Types, Scope, Edit
<1>12. Idle \in Pass
  BY ReconcilerAssumption DEF Pass, Idle
<1>13. fullSweep' \in 0 .. MaxOutage + SweepEvery \cup {Never}
  BY <1>2, ReconcilerAssumption DEF Types, Newer, Pass
<1>14. Types'
  BY <1>2, <1>10, <1>11, <1>12, <1>13 DEF Types
<1> QED BY <1>2, <1>5, <1>6, <1>7, <1>8, <1>9, <1>14, Zenon

\* After a failed pass there is none.
LEMMA FailTypes == ASSUME Types, Fail PROVE Types'
<1>1. Idle \in Pass
  BY ReconcilerAssumption DEF Pass, Idle
<1> QED BY <1>1 DEF Types, Fail

\* Every step keeps the types.
LEMMA NextTypes == ASSUME IInv, Next PROVE Types'
<1> USE DEF IInv
<1>1. CASE Tick  BY <1>1, TickFacts
<1>2. ASSUME NEW c \in Changes, Upload(c) PROVE Types'  BY <1>2, UploadTypes
<1>3. ASSUME NEW c \in Changes, Comment(c) \/ Close(c) \/ Index(c) PROVE Types'
  BY <1>3, TouchTypes
<1>4. ASSUME NEW c \in Changes, Deliver(c) PROVE Types'  BY <1>4, DeliverTypes
<1>5. ASSUME NEW enabled \in BOOLEAN, NEW mode \in {"FROM_NOW", "INCLUDE_OPEN"},
             Stamp(enabled, mode)
      PROVE  Types'
  BY <1>5, StampTypes
<1>6. CASE Commit  BY <1>6, CommitFacts
<1>7. CASE Start  BY <1>7, StartTypes
<1>8. CASE Read  BY <1>8, ReadFacts
<1>9. CASE Query  BY <1>9, QueryFacts
<1>10. CASE Recover  BY <1>10, RecoverTypes
<1>11. CASE Advance  BY <1>11, AdvanceTypes
<1>12. CASE AdvanceFull  BY <1>12, AdvanceFullFacts
<1>13. CASE Fail  BY <1>13, FailTypes
<1> QED
  BY <1>1, <1>2, <1>3, <1>4, <1>5, <1>6, <1>7, <1>8, <1>9, <1>10, <1>11, <1>12, <1>13
     DEF Next, Step

-----------------------------------------------------------------------------
(* Jobs and the index *)

\* One job changes, as enqueue leaves it.
LEMMA EnqueueKeeps ==
    ASSUME Types, Counted, SkippedPredate, edit = NoScope,
           NEW c \in Changes, NEW n \in 1 .. MaxUpdates + 1, n <= change[c].ps,
           job' = [job EXCEPT ![c] = Enqueued(c, n)],
           UNCHANGED <<change, scope, edit, updates>>, pass'.events \subseteq pass.events
    PROVE  Counted' /\ SkippedPredate'
<1>1. /\ Enqueued(c, n).ps = IF job[c].ps < n THEN n ELSE job[c].ps
      /\ job[c].ps < n /\ n = change[c].ps =>
                (Enqueued(c, n).skipped <=> c \in scope.predating)
      /\ job[c].ps < n /\ n # change[c].ps => ~Enqueued(c, n).skipped
      /\ job[c].ps >= n => (Enqueued(c, n).skipped => job[c].skipped)
  BY EnqueuedFacts
<1> DEFINE new == Enqueued(c, n)
<1> HIDE DEF new
<1>2. job'[c] = new /\ \A d \in Changes : d # c => job'[d] = job[d]
  BY DEF Types, new
<1>3. /\ new.ps = IF job[c].ps < n THEN n ELSE job[c].ps
      /\ job[c].ps < n /\ n = change[c].ps => (new.skipped <=> c \in scope.predating)
      /\ job[c].ps < n /\ n # change[c].ps => ~new.skipped
      /\ job[c].ps >= n => (new.skipped => job[c].skipped)
  BY <1>1, Zenon DEF new
<1>4. \A d \in Changes : change[d].ps \in Nat /\ job[d].ps \in Nat
  BY DEF Types, Change, Job
<1>5. Counted'
  BY <1>2, <1>3, <1>4 DEF Counted
<1>6. ASSUME NEW d \in Changes, job'[d].ps = change'[d].ps, job'[d].skipped,
             scope'.mode = "FROM_NOW"
      PROVE  d \in scope'.predating
  <2>1. CASE d # c
    BY <1>2, <1>6, <2>1 DEF SkippedPredate
  <2>2. CASE d = c /\ job[c].ps < n
    BY <1>2, <1>3, <1>4, <1>6, <2>2
  <2>3. CASE d = c /\ job[c].ps >= n
    BY <1>2, <1>3, <1>4, <1>6, <2>3 DEF SkippedPredate
  <2> QED BY <1>4, <2>1, <2>2, <2>3
<1>7. SkippedPredate'
  BY <1>6, Zenon DEF SkippedPredate
<1> QED BY <1>5, <1>7

\* What Recover takes from the pass.
LEMMA RecoverFacts ==
    ASSUME Types, Recover
    PROVE  /\ pass.queried /\ edit = NoScope
           /\ \E e \in pass.events :
               /\ e.change \in Changes /\ e.ps \in 1 .. MaxUpdates + 1
               /\ e = [change |-> e.change, ps |-> e.ps]
               /\ pass' = [pass EXCEPT !.events = @ \ {e}]
               /\ job' = [job EXCEPT ![e.change] = Enqueued(e.change, e.ps)]
           /\ UNCHANGED <<change, scope, edit, watermark, fullSweep, updates, raced>>
<1>1. PICK e \in pass.events :
        /\ pass' = [pass EXCEPT !.events = @ \ {e}]
        /\ job' = [job EXCEPT ![e.change] = Enqueued(e.change, e.ps)]
  BY Zenon DEF Recover
<1>2. /\ pass.queried /\ edit = NoScope
      /\ UNCHANGED <<change, scope, edit, watermark, fullSweep, updates, raced>>
  BY Zenon DEF Recover
<1>3. e.change \in Changes /\ e.ps \in 1 .. MaxUpdates + 1 /\ e = [change |-> e.change, ps |-> e.ps]
  BY DEF Types, Pass, Event
<1> QED BY <1>1, <1>2, <1>3, Zenon

\* What an upload changes.
LEMMA UploadFacts ==
    ASSUME Types, NEW c \in Changes, Upload(c)
    PROVE  /\ updates' = updates + 1
           /\ change[c].open
           /\ change'[c] = [ps |-> change[c].ps + 1, updated |-> 0, open |-> TRUE,
                            indexed |-> FALSE, late |-> FALSE]
           /\ \A d \in Changes : d # c => change'[d] = change[d]
           /\ scope' = [scope EXCEPT !.predating = @ \ {c}]
           /\ edit = NoScope => edit' = NoScope
           /\ edit # NoScope => edit' = [edit EXCEPT !.row.predating = @ \ {c}]
           /\ pass' = [pass EXCEPT !.skip = @ \ {c},
                                   !.touched = IF pass.read THEN @ \cup {c} ELSE @]
           /\ UNCHANGED <<job, watermark, fullSweep, raced>>
<1>1. change' = [change EXCEPT ![c] = [ps |-> change[c].ps + 1, updated |-> 0, open |-> TRUE,
                                        indexed |-> FALSE, late |-> FALSE]]
  BY Zenon DEF Upload
<1>2. /\ change'[c] = [ps |-> change[c].ps + 1, updated |-> 0, open |-> TRUE,
                       indexed |-> FALSE, late |-> FALSE]
      /\ \A d \in Changes : d # c => change'[d] = change[d]
  BY <1>1 DEF Types
<1>3. /\ updates' = updates + 1
      /\ change[c].open
      /\ scope' = [scope EXCEPT !.predating = @ \ {c}]
      /\ edit' = IF edit = NoScope THEN edit ELSE [edit EXCEPT !.row.predating = @ \ {c}]
      /\ pass' = [pass EXCEPT !.skip = @ \ {c},
                              !.touched = IF pass.read THEN @ \cup {c} ELSE @]
      /\ UNCHANGED <<job, watermark, fullSweep, raced>>
  BY Zenon DEF Upload
<1> QED BY <1>2, <1>3, Zenon

\* What a comment, the end of a change and the index change: nothing of the
\* Patch Set, and a comment makes the change young.
LEMMA TouchFacts ==
    ASSUME Types, NEW c \in Changes, Comment(c) \/ Close(c) \/ Index(c)
    PROVE  /\ \/ /\ change'[c] = [change[c] EXCEPT !.updated = 0]
                 /\ change[c].open /\ updates' = updates + 1
              \/ /\ change'[c] = [change[c] EXCEPT !.open = FALSE]
                 /\ change[c].open /\ updates' = updates
              \/ /\ change'[c] = [change[c] EXCEPT !.indexed = TRUE]
                 /\ ~change[c].indexed /\ updates' = updates
           /\ \A d \in Changes : d # c => change'[d] = change[d]
           /\ pass' = [pass EXCEPT !.touched = IF pass.read THEN @ \cup {c} ELSE @]
           /\ UNCHANGED <<job, scope, edit, watermark, fullSweep, raced>>
<1>1. /\ pass' = [pass EXCEPT !.touched = IF pass.read THEN @ \cup {c} ELSE @]
      /\ UNCHANGED <<job, scope, edit, watermark, fullSweep, raced>>
  BY Zenon DEF Comment, Close, Index, Touch
<1>2. CASE Comment(c)
  <2>1. change' = [change EXCEPT ![c].updated = 0] /\ change[c].open /\ updates' = updates + 1
    BY <1>2, Zenon DEF Comment
  <2>2. /\ change'[c] = [change[c] EXCEPT !.updated = 0]
        /\ \A d \in Changes : d # c => change'[d] = change[d]
    BY <2>1 DEF Types, Change
  <2> QED BY <1>1, <2>1, <2>2, Zenon
<1>3. CASE Close(c)
  <2>1. change' = [change EXCEPT ![c].open = FALSE] /\ change[c].open /\ updates' = updates
    BY <1>3, Zenon DEF Close
  <2>2. /\ change'[c] = [change[c] EXCEPT !.open = FALSE]
        /\ \A d \in Changes : d # c => change'[d] = change[d]
    BY <2>1 DEF Types, Change
  <2> QED BY <1>1, <2>1, <2>2, Zenon
<1>4. CASE Index(c)
  <2>1. change' = [change EXCEPT ![c].indexed = TRUE] /\ ~change[c].indexed /\ updates' = updates
    BY <1>4, Zenon DEF Index
  <2>2. /\ change'[c] = [change[c] EXCEPT !.indexed = TRUE]
        /\ \A d \in Changes : d # c => change'[d] = change[d]
    BY <2>1 DEF Types, Change
  <2> QED BY <1>1, <2>1, <2>2, Zenon
<1> QED BY <1>2, <1>3, <1>4

\* What an edit of the scope may promise.
LEMMA StampFacts ==
    ASSUME Types, NEW enabled \in BOOLEAN, NEW mode \in {"FROM_NOW", "INCLUDE_OPEN"},
           Stamp(enabled, mode)
    PROVE  /\ edit = NoScope
           /\ \E cuts \in BOOLEAN, predating \in SUBSET Changes :
               /\ edit' = [row |-> [enabled |-> enabled, mode |-> mode, unswept |-> TRUE,
                                    predating |-> predating],
                           cuts |-> cuts, passed |-> FALSE]
               /\ mode = "INCLUDE_OPEN" => ~cuts
               /\ mode = "FROM_NOW" /\ enabled => cuts
               /\ cuts => predating = Changes
               /\ ~cuts /\ mode = "FROM_NOW" =>
                    scope.mode = "FROM_NOW" /\ predating = scope.predating
           /\ pass' = [pass EXCEPT !.afterEdit = FALSE]
           /\ UNCHANGED <<change, job, scope, watermark, fullSweep, updates, raced>>
<1>1. PICK cuts \in StartsAnew(enabled, mode) :
        edit' = [row |-> [enabled |-> enabled, mode |-> mode, unswept |-> TRUE,
                          predating |-> IF cuts THEN Changes
                                        ELSE IF mode = "FROM_NOW" THEN scope.predating
                                        ELSE {}],
                 cuts |-> cuts, passed |-> FALSE]
  BY Zenon DEF Stamp
<1> DEFINE p == IF cuts THEN Changes ELSE IF mode = "FROM_NOW" THEN scope.predating ELSE {}
<1>2. /\ cuts \in BOOLEAN
      /\ mode = "INCLUDE_OPEN" => ~cuts
      /\ mode = "FROM_NOW" /\ enabled => cuts
      /\ ~cuts /\ mode = "FROM_NOW" => scope.mode = "FROM_NOW"
  BY DEF StartsAnew, Types, Scope
<1>3. /\ p \in SUBSET Changes
      /\ cuts => p = Changes
      /\ ~cuts /\ mode = "FROM_NOW" => p = scope.predating
  BY DEF Types, Scope
<1>4. edit' = [row |-> [enabled |-> enabled, mode |-> mode, unswept |-> TRUE,
                        predating |-> p],
               cuts |-> cuts, passed |-> FALSE]
  BY <1>1
<1>5. /\ edit = NoScope /\ pass' = [pass EXCEPT !.afterEdit = FALSE]
      /\ UNCHANGED <<change, job, scope, watermark, fullSweep, updates, raced>>
  BY Zenon DEF Stamp
<1> HIDE DEF p
<1> QED BY <1>2, <1>3, <1>4, <1>5, Zenon

\* Every step keeps jobs and events to Patch Sets that exist.
LEMMA CountedKeeps == ASSUME IInv, Next PROVE Counted'
<1> USE DEF IInv
<1>1. CASE Tick
  <2>1. \A c \in Changes : change'[c].ps = change[c].ps
    BY <1>1, TickFacts
  <2>2. pass'.events = pass.events
    BY <1>1, TickFacts DEF Types, Pass
  <2>3. UNCHANGED <<job, updates>>
    BY <1>1, TickFacts
  <2> QED BY <2>1, <2>2, <2>3 DEF Counted, Types, Pass, Event
<1>2. ASSUME NEW c \in Changes, Upload(c) PROVE Counted'
  <2>1. /\ updates' = updates + 1
        /\ change'[c].ps = change[c].ps + 1
        /\ \A d \in Changes : d # c => change'[d].ps = change[d].ps
        /\ job' = job
    <3>1. change'[c] = [ps |-> change[c].ps + 1, updated |-> 0, open |-> TRUE,
                        indexed |-> FALSE, late |-> FALSE]
      BY <1>2, UploadFacts, Zenon
    <3>2. change'[c].ps = change[c].ps + 1
      BY <3>1
    <3>3. updates' = updates + 1 /\ job' = job /\ \A d \in Changes : d # c => change'[d] = change[d]
      BY <1>2, UploadFacts, Zenon
    <3> QED BY <3>2, <3>3
  <2>2. pass'.events = pass.events
    BY <1>2, UploadFacts DEF Types, Pass
  <2>3. \A d \in Changes : change[d].ps \in Nat /\ job[d].ps \in Nat
    BY DEF Types, Change, Job
  <2>4. \A d \in Changes : change'[d].ps <= updates' + 1 /\ job'[d].ps <= change'[d].ps
    BY <2>1, <2>3 DEF Counted, Types
  <2>5. ASSUME NEW e \in pass.events PROVE e.ps <= change'[e.change].ps
    <3>1. e.change \in Changes /\ e.ps \in Nat /\ e.ps <= change[e.change].ps
      BY DEF Counted, Types, Pass, Event
    <3> QED BY <2>1, <2>3, <3>1
  <2> QED BY <2>2, <2>4, <2>5 DEF Counted
<1>3. ASSUME NEW c \in Changes, Comment(c) \/ Close(c) \/ Index(c) PROVE Counted'
  <2>1. change'[c].ps = change[c].ps
    <3>1. \/ change'[c] = [change[c] EXCEPT !.updated = 0]
          \/ change'[c] = [change[c] EXCEPT !.open = FALSE]
          \/ change'[c] = [change[c] EXCEPT !.indexed = TRUE]
      BY <1>3, TouchFacts, Zenon
    <3> QED BY <3>1 DEF Types, Change
  <2>2. /\ \A d \in Changes : d # c => change'[d] = change[d]
        /\ job' = job
        /\ updates' = updates \/ updates' = updates + 1
        /\ pass' = [pass EXCEPT !.touched = IF pass.read THEN @ \cup {c} ELSE @]
    BY <1>3, TouchFacts
  <2>3. \A d \in Changes : change'[d].ps = change[d].ps /\ change[d].ps \in Nat
    BY <2>1, <2>2 DEF Types, Change
  <2>4. pass'.events = pass.events
    BY <2>2 DEF Types, Pass
  <2> QED BY <2>2, <2>3, <2>4 DEF Counted, Types, Pass, Event
<1>4. ASSUME NEW c \in Changes, Deliver(c) PROVE Counted'
  <2>1. change[c].ps \in 1 .. MaxUpdates + 1
    BY DEF Types, Change
  <2>2. /\ edit = NoScope /\ job' = [job EXCEPT ![c] = Enqueued(c, change[c].ps)]
        /\ UNCHANGED <<change, scope, edit, pass, updates>>
    BY <1>4, Zenon DEF Deliver
  <2>3. change[c].ps <= change[c].ps /\ pass'.events \subseteq pass.events
    BY <2>1, <2>2
  <2> QED BY <2>1, <2>2, <2>3, EnqueueKeeps
<1>5. ASSUME NEW enabled \in BOOLEAN, NEW mode \in {"FROM_NOW", "INCLUDE_OPEN"},
             Stamp(enabled, mode)
      PROVE  Counted'
  <2>1. pass'.events = pass.events
    BY <1>5, StampFacts DEF Types, Pass
  <2> QED BY <1>5, <2>1 DEF Counted, Stamp
<1>6. CASE Commit
  <2>1. pass'.events = pass.events
    BY <1>6, CommitFacts DEF Types, Pass
  <2>2. UNCHANGED <<change, updates>> /\ \A c \in Changes : job'[c].ps = job[c].ps
    BY <1>6, CommitFacts
  <2> QED BY <2>1, <2>2 DEF Counted
<1>7. CASE Start
  <2>1. pass'.events = {}
    BY <1>7 DEF Start, Idle
  <2> QED BY <1>7, <2>1 DEF Counted, Start
<1>8. CASE Read
  <2>1. pass'.events = pass.events
    BY <1>8, ReadFacts DEF Types, Pass
  <2>2. UNCHANGED <<change, job, updates>>
    BY <1>8, ReadFacts
  <2> QED BY <2>1, <2>2 DEF Counted
<1>9. CASE Query
  <2>1. PICK events \in SUBSET Event :
          /\ pass' = [pass EXCEPT !.queried = TRUE, !.events = events]
          /\ \A e \in events : e.ps = change[e.change].ps
    BY <1>9, QueryFacts
  <2>2. UNCHANGED <<change, job, updates>>
    BY <1>9, QueryFacts
  <2>3. pass'.events = events
    BY <2>1 DEF Types, Pass
  <2>4. \A e \in events : e.ps <= change[e.change].ps
    BY <2>1 DEF Types, Change, Event
  <2> QED BY <2>2, <2>3, <2>4 DEF Counted
<1>10. CASE Recover
  <2>1. PICK e \in pass.events :
           /\ e.change \in Changes /\ e.ps \in 1 .. MaxUpdates + 1
           /\ pass' = [pass EXCEPT !.events = @ \ {e}]
           /\ job' = [job EXCEPT ![e.change] = Enqueued(e.change, e.ps)]
    BY <1>10, RecoverFacts
  <2>2. edit = NoScope /\ UNCHANGED <<change, scope, edit, updates>>
    BY <1>10, RecoverFacts
  <2>3. pass'.events \subseteq pass.events
    BY <2>1 DEF Types, Pass
  <2>4. e.ps <= change[e.change].ps
    BY DEF Counted
  <2> QED BY <2>1, <2>2, <2>3, <2>4, EnqueueKeeps
<1>11. CASE Advance
  <2>1. pass'.events = {}
    BY <1>11 DEF Advance, Idle, Types, Pass
  <2> QED BY <1>11, <2>1 DEF Counted, Advance
<1>12. CASE AdvanceFull
  <2>1. pass'.events = {} /\ UNCHANGED <<change, job, updates>>
    BY <1>12, AdvanceFullFacts DEF Idle
  <2> QED BY <2>1 DEF Counted
<1>13. CASE Fail
  <2>1. pass'.events = {}
    BY <1>13 DEF Fail, Idle
  <2> QED BY <1>13, <2>1 DEF Counted, Fail
<1> QED
  BY <1>1, <1>2, <1>3, <1>4, <1>5, <1>6, <1>7, <1>8, <1>9, <1>10, <1>11, <1>12, <1>13
     DEF Next, Step

\* A cutoff skips only what it excludes, and a Patch Set it excludes becomes
\* wanted only by a newer upload or by an edit that opens the project.
LEMMA SkippedKeeps == ASSUME IInv, Next PROVE SkippedPredate'
<1> USE DEF IInv
<1>1. CASE Tick
  <2>1. /\ \A c \in Changes : change'[c].ps = change[c].ps
        /\ UNCHANGED <<job, scope, edit>>
    BY <1>1, TickFacts
  <2> QED BY <2>1 DEF SkippedPredate
<1>2. ASSUME NEW c \in Changes, Upload(c) PROVE SkippedPredate'
  <2>1. change'[c] = [ps |-> change[c].ps + 1, updated |-> 0, open |-> TRUE,
                      indexed |-> FALSE, late |-> FALSE]
    BY <1>2, UploadFacts, Zenon
  <2>2. job[c].ps # change'[c].ps
    BY <2>1 DEF Counted, Types, Change, Job
  <2>3. /\ \A d \in Changes : d # c => change'[d] = change[d]
        /\ scope' = [scope EXCEPT !.predating = @ \ {c}]
        /\ edit = NoScope => edit' = NoScope
        /\ edit # NoScope => edit' = [edit EXCEPT !.row.predating = @ \ {c}]
        /\ job' = job
    BY <1>2, UploadFacts, Zenon
  <2>4. scope'.mode = scope.mode /\ scope'.predating = scope.predating \ {c}
    BY <2>3 DEF Types, Scope
  <2>5. edit # NoScope =>
          edit'.row.mode = edit.row.mode /\ edit'.row.predating = edit.row.predating \ {c}
    BY <2>3 DEF Types, Edit, Scope
  <2> HIDE DEF IInv
  <2>6. ASSUME NEW d \in Changes, job'[d].ps = change'[d].ps, job'[d].skipped
        PROVE  /\ scope'.mode = "FROM_NOW" => d \in scope'.predating
               /\ edit' # NoScope /\ edit'.row.mode = "FROM_NOW" => d \in edit'.row.predating
    <3>1. d # c /\ job[d].ps = change[d].ps /\ job[d].skipped
      BY <2>2, <2>3, <2>6
    <3>2. /\ scope.mode = "FROM_NOW" => d \in scope.predating
          /\ edit # NoScope /\ edit.row.mode = "FROM_NOW" => d \in edit.row.predating
      BY <3>1 DEF SkippedPredate, IInv
    <3> QED BY <2>3, <2>4, <2>5, <3>1, <3>2
  <2> QED BY <2>6, Zenon DEF SkippedPredate
<1>3. ASSUME NEW c \in Changes, Comment(c) \/ Close(c) \/ Index(c) PROVE SkippedPredate'
  <2>1. change'[c].ps = change[c].ps
    <3>1. \/ change'[c] = [change[c] EXCEPT !.updated = 0]
          \/ change'[c] = [change[c] EXCEPT !.open = FALSE]
          \/ change'[c] = [change[c] EXCEPT !.indexed = TRUE]
      BY <1>3, TouchFacts, Zenon
    <3> QED BY <3>1 DEF Types, Change
  <2>2. /\ \A d \in Changes : d # c => change'[d] = change[d]
        /\ UNCHANGED <<job, scope, edit>>
    BY <1>3, TouchFacts, Zenon
  <2> QED BY <2>1, <2>2 DEF SkippedPredate
<1>4. ASSUME NEW c \in Changes, Deliver(c) PROVE SkippedPredate'
  <2>1. change[c].ps \in 1 .. MaxUpdates + 1
    BY DEF Types, Change
  <2>2. /\ edit = NoScope /\ job' = [job EXCEPT ![c] = Enqueued(c, change[c].ps)]
        /\ UNCHANGED <<change, scope, edit, pass, updates>>
    BY <1>4, Zenon DEF Deliver
  <2>3. change[c].ps <= change[c].ps /\ pass'.events \subseteq pass.events
    BY <2>1, <2>2
  <2> QED BY <2>1, <2>2, <2>3, EnqueueKeeps
<1>5. ASSUME NEW enabled \in BOOLEAN, NEW mode \in {"FROM_NOW", "INCLUDE_OPEN"},
             Stamp(enabled, mode)
      PROVE  SkippedPredate'
  <2>1. PICK cuts \in BOOLEAN, predating \in SUBSET Changes :
          /\ edit' = [row |-> [enabled |-> enabled, mode |-> mode, unswept |-> TRUE,
                               predating |-> predating],
                      cuts |-> cuts, passed |-> FALSE]
          /\ cuts => predating = Changes
          /\ ~cuts /\ mode = "FROM_NOW" =>
               scope.mode = "FROM_NOW" /\ predating = scope.predating
    BY <1>5, StampFacts
  <2>2. UNCHANGED <<change, job, scope>>
    BY <1>5, StampFacts
  <2>3. edit'.row.mode = mode /\ edit'.row.predating = predating
    BY <2>1
  <2> QED BY <2>1, <2>2, <2>3 DEF SkippedPredate
<1>6. CASE Commit
  <2>1. /\ edit # NoScope /\ edit' = NoScope /\ scope' = edit.row
        /\ change' = change
        /\ \A c \in Changes :
             /\ job'[c].ps = job[c].ps
             /\ job'[c].skipped => job[c].skipped \/ (edit.cuts /\ c \in edit.row.predating)
    BY <1>6, CommitFacts
  <2> QED BY <2>1 DEF SkippedPredate
<1>7. CASE Start
  <2>1. /\ edit = NoScope => edit' = NoScope
        /\ edit # NoScope => edit' = [edit EXCEPT !.passed = TRUE]
        /\ UNCHANGED <<change, job, scope>>
    BY <1>7, Zenon DEF Start
  <2>2. edit # NoScope => edit'.row = edit.row
    BY <2>1 DEF Types, Edit
  <2> QED BY <2>1, <2>2 DEF SkippedPredate
<1>8. CASE Read
  BY <1>8, ReadFacts DEF SkippedPredate
<1>9. CASE Query
  BY <1>9, QueryFacts DEF SkippedPredate
<1>10. CASE Recover
  <2>1. PICK e \in pass.events :
           /\ e.change \in Changes /\ e.ps \in 1 .. MaxUpdates + 1
           /\ pass' = [pass EXCEPT !.events = @ \ {e}]
           /\ job' = [job EXCEPT ![e.change] = Enqueued(e.change, e.ps)]
    BY <1>10, RecoverFacts
  <2>2. edit = NoScope /\ UNCHANGED <<change, scope, edit, updates>>
    BY <1>10, RecoverFacts
  <2>3. pass'.events \subseteq pass.events
    BY <2>1 DEF Types, Pass
  <2>4. e.ps <= change[e.change].ps
    BY DEF Counted
  <2> QED BY <2>1, <2>2, <2>3, <2>4, EnqueueKeeps
<1>11. CASE Advance
  BY <1>11 DEF Advance, SkippedPredate
<1>12. CASE AdvanceFull
  <2>1. PICK unswept \in BOOLEAN : scope' = [scope EXCEPT !.unswept = unswept]
    BY <1>12, AdvanceFullFacts
  <2>2. scope'.mode = scope.mode /\ scope'.predating = scope.predating
    BY <2>1 DEF Types, Scope
  <2>3. edit # NoScope => \E u \in BOOLEAN : edit' = [edit EXCEPT !.row.unswept = u]
    BY <1>12, AdvanceFullFacts
  <2>4. edit # NoScope =>
          edit'.row.mode = edit.row.mode /\ edit'.row.predating = edit.row.predating
    BY <2>3 DEF Types, Edit, Scope
  <2>5. UNCHANGED <<change, job>> /\ (edit = NoScope => edit' = NoScope)
    BY <1>12, AdvanceFullFacts
  <2> QED BY <2>2, <2>4, <2>5 DEF SkippedPredate
<1>13. CASE Fail
  BY <1>13 DEF Fail, SkippedPredate
<1> QED
  BY <1>1, <1>2, <1>3, <1>4, <1>5, <1>6, <1>7, <1>8, <1>9, <1>10, <1>11, <1>12, <1>13
     DEF Next, Step

\* What stays out of the index while its last update leaves the overlap is late.
LEMMA LateKeeps == ASSUME IInv, Next PROVE LateIndexed'
<1> USE DEF IInv
<1>1. CASE Tick
  <2>1. ASSUME NEW c \in Changes, ~change'[c].indexed, change'[c].updated > Overlap
        PROVE  change'[c].late
    <3>1. /\ change'[c].updated = Older(change[c].updated)
          /\ change'[c].indexed = change[c].indexed
          /\ ~change[c].indexed /\ change[c].updated >= Overlap => change'[c].late
      BY <1>1, TickFacts
    <3>2. change[c].updated \in 0 .. Old
      BY DEF Types, Change
    <3>3. /\ change'[c].updated <= change[c].updated + 1
          /\ change'[c].updated \in Nat /\ change[c].updated \in Nat /\ Overlap \in Nat
      BY <3>1, <3>2, AgeOlder, ReconcilerAssumption DEF Old
    <3>4. change[c].updated >= Overlap
      BY <2>1, <3>3
    <3> QED BY <2>1, <3>1, <3>4
  <2> QED BY <2>1, Zenon DEF LateIndexed
<1>2. ASSUME NEW c \in Changes, Upload(c) PROVE LateIndexed'
  <2>1. change'[c] = [ps |-> change[c].ps + 1, updated |-> 0, open |-> TRUE,
                      indexed |-> FALSE, late |-> FALSE]
    BY <1>2, UploadFacts, Zenon
  <2>2. \A d \in Changes : d # c => change'[d] = change[d]
    BY <1>2, UploadFacts, Zenon
  <2>3. ~(change'[c].updated > Overlap)
    BY <2>1, ReconcilerAssumption
  <2> QED BY <2>2, <2>3 DEF LateIndexed
<1>3. ASSUME NEW c \in Changes, Comment(c) \/ Close(c) \/ Index(c) PROVE LateIndexed'
  <2>1. \A d \in Changes : d # c => change'[d] = change[d]
    BY <1>3, TouchFacts, Zenon
  <2>2. \/ change'[c] = [change[c] EXCEPT !.updated = 0]
        \/ change'[c] = [change[c] EXCEPT !.open = FALSE]
        \/ change'[c] = [change[c] EXCEPT !.indexed = TRUE]
    BY <1>3, TouchFacts, Zenon
  <2>3. ~change'[c].indexed /\ change'[c].updated > Overlap => change'[c].late
    BY <2>2, ReconcilerAssumption DEF LateIndexed, Types, Change
  <2> QED BY <2>1, <2>3 DEF LateIndexed
<1>4. CASE UNCHANGED change
  BY <1>4 DEF LateIndexed
<1> QED
  BY <1>1, <1>2, <1>3, <1>4, CommitFacts, ReadFacts, QueryFacts, RecoverFacts, AdvanceFullFacts
     DEF Next, Step, Deliver, Stamp, Start, Advance, Fail

-----------------------------------------------------------------------------
(* Passes and edits *)

\* What the steps of others leave of a pass.
KeepsPass ==
    /\ pass'.on = pass.on /\ pass'.begun = pass.begun
    /\ pass'.read = pass.read /\ pass'.queried = pass.queried
    /\ pass'.covers = pass.covers /\ pass'.full = pass.full /\ pass'.all = pass.all
    /\ pass'.skip \subseteq pass.skip
    /\ pass'.events = pass.events /\ pass'.advanced = pass.advanced
    /\ ~pass.read => pass'.touched = pass.touched
    /\ UNCHANGED <<watermark, fullSweep>>

\* Gerrit, the event stream and administrators leave the pass where it is.
LEMMA OthersKeepPass ==
    ASSUME Types,
           \/ \E c \in Changes : Upload(c) \/ Comment(c) \/ Close(c) \/ Index(c) \/ Deliver(c)
           \/ \E enabled \in BOOLEAN, mode \in {"FROM_NOW", "INCLUDE_OPEN"} : Stamp(enabled, mode)
           \/ Commit
    PROVE  KeepsPass
<1>1. ASSUME NEW c \in Changes, Upload(c) PROVE KeepsPass
  <2>1. /\ pass' = [pass EXCEPT !.skip = @ \ {c},
                                !.touched = IF pass.read THEN @ \cup {c} ELSE @]
        /\ UNCHANGED <<watermark, fullSweep>>
    BY <1>1, UploadFacts, Zenon
  <2> QED BY <2>1 DEF Types, Pass, KeepsPass
<1>2. ASSUME NEW c \in Changes, Comment(c) \/ Close(c) \/ Index(c) PROVE KeepsPass
  <2>1. /\ pass' = [pass EXCEPT !.touched = IF pass.read THEN @ \cup {c} ELSE @]
        /\ UNCHANGED <<watermark, fullSweep>>
    BY <1>2, TouchFacts, Zenon
  <2> QED BY <2>1 DEF Types, Pass, KeepsPass
<1>3. ASSUME NEW c \in Changes, Deliver(c) PROVE KeepsPass
  BY <1>3 DEF Deliver, KeepsPass
<1>4. ASSUME NEW enabled \in BOOLEAN, NEW mode \in {"FROM_NOW", "INCLUDE_OPEN"},
             Stamp(enabled, mode)
      PROVE  KeepsPass
  <2>1. pass' = [pass EXCEPT !.afterEdit = FALSE] /\ UNCHANGED <<watermark, fullSweep>>
    BY <1>4, StampFacts, Zenon
  <2> QED BY <2>1 DEF Types, Pass, KeepsPass
<1>5. CASE Commit
  <2>1. pass' = [pass EXCEPT !.afterScope = pass.afterEdit] /\ UNCHANGED <<watermark, fullSweep>>
    BY <1>5, CommitFacts, Zenon
  <2> QED BY <2>1 DEF Types, Pass, KeepsPass
<1> QED BY <1>1, <1>2, <1>3, <1>4, <1>5

\* A pass goes through its stages in order, younger than the watermarks until it
\* writes them.
LEMMA StagesKeep == ASSUME IInv, Next PROVE PassStages'
<1> USE DEF IInv
<1>1. CASE Tick
  <2>1. PICK a \in 0 .. MaxOutage :
          /\ pass' = [pass EXCEPT !.begun = a]
          /\ pass.on => a = pass.begun + 1
    BY <1>1, TickFacts
  <2>2. /\ pass'.on = pass.on /\ pass'.begun = a
        /\ pass'.read = pass.read /\ pass'.queried = pass.queried
        /\ pass'.full = pass.full /\ pass'.touched = pass.touched
        /\ pass'.events = pass.events /\ pass'.advanced = pass.advanced
    BY <2>1 DEF Types, Pass
  <2>3. /\ watermark = Never => watermark' = Never
        /\ watermark # Never => watermark' = watermark + 1
        /\ fullSweep = Never => fullSweep' = Never
        /\ fullSweep # Never => fullSweep' = fullSweep + 1
    BY <1>1, TickFacts
  <2>4. /\ pass.begun \in Nat
        /\ watermark # Never => watermark \in Nat
        /\ fullSweep # Never => fullSweep \in Nat
    BY DEF Types, Pass
  <2>5. pass.begun # Never
    BY <2>4, ReconcilerAssumption
  <2> QED BY <2>1, <2>2, <2>3, <2>4, <2>5 DEF PassStages
<1>2. CASE \/ \E c \in Changes : Upload(c) \/ Comment(c) \/ Close(c) \/ Index(c) \/ Deliver(c)
           \/ \E enabled \in BOOLEAN, mode \in {"FROM_NOW", "INCLUDE_OPEN"} : Stamp(enabled, mode)
           \/ Commit
  <2>1. KeepsPass
    BY <1>2, OthersKeepPass
  <2> QED BY <2>1 DEF PassStages, KeepsPass
<1>3. CASE Start
  <2>1. pass' = [Idle EXCEPT !.on = TRUE, !.afterScope = TRUE, !.afterEdit = TRUE]
    BY <1>3, Zenon DEF Start
  <2>2. UNCHANGED <<watermark, fullSweep>>
    BY <1>3, Zenon DEF Start
  <2>3. /\ pass'.begun = 0 /\ ~pass'.read /\ ~pass'.queried /\ pass'.touched = {}
        /\ ~pass'.advanced
    BY <2>1 DEF Idle
  <2> QED BY <2>2, <2>3 DEF PassStages, Types
<1>4. CASE Read
  <2>1. /\ pass.on /\ ~pass.read
        /\ \E due, all \in BOOLEAN :
             pass' = [pass EXCEPT !.read = TRUE, !.covers = scope.enabled, !.full = due,
                                  !.all = all, !.skip = scope.predating]
        /\ UNCHANGED <<watermark, fullSweep>>
    BY <1>4, ReadFacts
  <2>2. /\ pass'.on = pass.on /\ pass'.begun = pass.begun /\ pass'.read
        /\ pass'.queried = pass.queried /\ pass'.advanced = pass.advanced
    BY <2>1 DEF Types, Pass
  <2>3. ~pass.advanced
    BY <2>1 DEF PassStages
  <2> QED BY <2>1, <2>2, <2>3 DEF PassStages
<1>5. CASE Query
  <2>1. /\ pass.read /\ ~pass.queried
        /\ \E events \in SUBSET Event : pass' = [pass EXCEPT !.queried = TRUE, !.events = events]
        /\ UNCHANGED <<watermark, fullSweep>>
    BY <1>5, QueryFacts
  <2>2. /\ pass'.on = pass.on /\ pass'.begun = pass.begun /\ pass'.read = pass.read
        /\ pass'.queried /\ pass'.advanced = pass.advanced
    BY <2>1 DEF Types, Pass
  <2> QED BY <2>1, <2>2 DEF PassStages
<1>6. CASE Recover
  <2>1. \E e \in pass.events : pass' = [pass EXCEPT !.events = @ \ {e}]
    BY <1>6, RecoverFacts
  <2>2. UNCHANGED <<watermark, fullSweep>>
    BY <1>6, RecoverFacts
  <2>3. /\ pass'.on = pass.on /\ pass'.begun = pass.begun /\ pass'.read = pass.read
        /\ pass'.queried = pass.queried /\ pass'.advanced = pass.advanced
        /\ pass'.full = pass.full /\ pass'.touched = pass.touched
    BY <2>1 DEF Types, Pass
  <2>4. ~pass.advanced
    BY <2>1 DEF PassStages
  <2> QED BY <2>2, <2>3, <2>4 DEF PassStages
<1>7. CASE Advance
  <2>1. /\ pass.queried /\ pass.events = {} /\ ~pass.advanced
        /\ watermark' = Newer(watermark, pass.begun)
        /\ pass' = IF pass.full THEN [pass EXCEPT !.advanced = TRUE] ELSE Idle
        /\ fullSweep' = fullSweep
    BY <1>7, Zenon DEF Advance
  <2>2. CASE ~pass.full
    <3>1. ~pass'.on /\ ~pass'.queried /\ ~pass'.read /\ pass'.touched = {} /\ ~pass'.advanced
      BY <2>1, <2>2 DEF Idle
    <3> QED BY <3>1 DEF PassStages
  <2>3. CASE pass.full
    <3>1. /\ pass'.on = pass.on /\ pass'.begun = pass.begun /\ pass'.read = pass.read
          /\ pass'.queried = pass.queried /\ pass'.advanced
          /\ pass'.full = pass.full /\ pass'.touched = pass.touched /\ pass'.events = {}
      BY <2>1, <2>3 DEF Types, Pass
    <3>2. pass.on
      BY <2>1 DEF PassStages
    <3>3. watermark' = pass.begun
      BY <2>1, <3>2 DEF PassStages, Newer, Types, Pass
    <3>4. pass.begun # Never /\ pass.begun <= pass.begun
      BY ReconcilerAssumption DEF Types, Pass
    <3> QED BY <2>1, <2>3, <3>1, <3>3, <3>4 DEF PassStages
  <2> QED BY <2>2, <2>3
<1>8. CASE AdvanceFull \/ Fail
  <2>1. pass' = Idle
    BY <1>8, AdvanceFullFacts DEF Fail
  <2>2. ~pass'.on /\ ~pass'.queried /\ ~pass'.read /\ pass'.touched = {} /\ ~pass'.advanced
    BY <2>1 DEF Idle
  <2> QED BY <2>2 DEF PassStages
<1> QED
  BY <1>1, <1>2, <1>3, <1>4, <1>5, <1>6, <1>7, <1>8 DEF Next, Step

\* Whatever happens while an edit is open, it still promises what it puts in scope.
LEMMA EditKeeps == ASSUME IInv, Next PROVE EditOpen'
<1> USE DEF IInv
<1>1. CASE Tick
  <2> SUFFICES ASSUME edit' # NoScope PROVE EditOpen'
    BY Zenon DEF EditOpen
  <2>1. PICK a \in 0 .. MaxOutage :
          /\ pass' = [pass EXCEPT !.begun = a]
          /\ pass.on => a = pass.begun + 1
    BY <1>1, TickFacts
  <2>2. pass'.on = pass.on /\ pass'.begun = a /\ pass'.afterEdit = pass.afterEdit
    BY <2>1 DEF Types, Pass
  <2>3. /\ watermark = Never => watermark' = Never
        /\ watermark # Never => watermark' = watermark + 1
        /\ edit' = edit
        /\ \A c \in Changes : change'[c].updated = Older(change[c].updated)
    BY <1>1, TickFacts
  <2>4. \A c \in Changes :
          /\ change[c].updated \in Nat /\ change'[c].updated \in Nat
          /\ change'[c].updated <= change[c].updated + 1
    BY <2>3, AgeOlder, ReconcilerAssumption DEF Types, Change, Old
  <2>5. pass.begun \in Nat /\ (watermark # Never => watermark \in Nat)
    BY DEF Types, Pass
  <2>6. ASSUME NEW c \in Changes \ edit.row.predating, ~edit.passed, edit.cuts
        PROVE  /\ watermark' # Never => change'[c].updated <= watermark'
               /\ pass'.on => change'[c].updated <= pass'.begun
    <3>1. /\ watermark # Never => change[c].updated <= watermark
          /\ pass.on => change[c].updated <= pass.begun
      BY <2>3, <2>6 DEF EditOpen
    <3> QED BY <2>1, <2>2, <2>3, <2>4, <2>5, <3>1
  <2> QED BY <2>2, <2>3, <2>6 DEF EditOpen
<1>2. ASSUME NEW c \in Changes, Upload(c) PROVE EditOpen'
  <2>1. change'[c] = [ps |-> change[c].ps + 1, updated |-> 0, open |-> TRUE,
                      indexed |-> FALSE, late |-> FALSE]
    BY <1>2, UploadFacts, Zenon
  <2>2. /\ \A d \in Changes : d # c => change'[d] = change[d]
        /\ edit = NoScope => edit' = NoScope
        /\ edit # NoScope => edit' = [edit EXCEPT !.row.predating = @ \ {c}]
        /\ pass' = [pass EXCEPT !.skip = @ \ {c},
                                !.touched = IF pass.read THEN @ \cup {c} ELSE @]
    BY <1>2, UploadFacts, Zenon
  <2>3. KeepsPass
    BY <1>2, OthersKeepPass
  <2>4. pass'.afterEdit = pass.afterEdit
    BY <2>2 DEF Types, Pass
  <2>5. edit # NoScope =>
          /\ edit'.row.predating = edit.row.predating \ {c}
          /\ edit'.row.mode = edit.row.mode /\ edit'.row.enabled = edit.row.enabled
          /\ edit'.row.unswept = edit.row.unswept
          /\ edit'.cuts = edit.cuts /\ edit'.passed = edit.passed
    BY <2>2 DEF Types, Edit, Scope
  <2>6. /\ watermark # Never => change'[c].updated <= watermark
        /\ pass.on => change'[c].updated <= pass.begun
    BY <2>1 DEF Types, Pass
  <2> QED BY <2>2, <2>3, <2>4, <2>5, <2>6 DEF EditOpen, KeepsPass
<1>3. ASSUME NEW c \in Changes, Comment(c) \/ Close(c) \/ Index(c) PROVE EditOpen'
  <2>1. /\ \A d \in Changes : d # c => change'[d] = change[d]
        /\ edit' = edit
        /\ pass' = [pass EXCEPT !.touched = IF pass.read THEN @ \cup {c} ELSE @]
    BY <1>3, TouchFacts, Zenon
  <2>2. \/ change'[c] = [change[c] EXCEPT !.updated = 0]
        \/ change'[c] = [change[c] EXCEPT !.open = FALSE]
        \/ change'[c] = [change[c] EXCEPT !.indexed = TRUE]
    BY <1>3, TouchFacts, Zenon
  <2>3. change'[c].updated = change[c].updated \/ change'[c].updated = 0
    BY <2>2 DEF Types, Change
  <2>4. KeepsPass
    BY <1>3, OthersKeepPass
  <2>5. pass'.afterEdit = pass.afterEdit
    BY <2>1 DEF Types, Pass
  <2>6. \A d \in Changes : change'[d].updated = change[d].updated \/ change'[d].updated = 0
    BY <2>1, <2>3
  <2>7. pass.begun \in Nat /\ (watermark # Never => watermark \in Nat)
    BY DEF Types, Pass
  <2> QED BY <2>1, <2>4, <2>5, <2>6, <2>7 DEF EditOpen, KeepsPass
<1>4. CASE (\E c \in Changes : Deliver(c)) \/ Commit
  <2>1. edit' = NoScope
    BY <1>4, CommitFacts DEF Deliver
  <2> QED BY <2>1 DEF EditOpen
<1>5. ASSUME NEW enabled \in BOOLEAN, NEW mode \in {"FROM_NOW", "INCLUDE_OPEN"},
             Stamp(enabled, mode)
      PROVE  EditOpen'
  <2>1. PICK cuts \in BOOLEAN, predating \in SUBSET Changes :
          /\ edit' = [row |-> [enabled |-> enabled, mode |-> mode, unswept |-> TRUE,
                               predating |-> predating],
                      cuts |-> cuts, passed |-> FALSE]
          /\ mode = "INCLUDE_OPEN" => ~cuts
          /\ mode = "FROM_NOW" /\ enabled => cuts
          /\ cuts => predating = Changes
    BY <1>5, StampFacts
  <2>2. pass' = [pass EXCEPT !.afterEdit = FALSE]
    BY <1>5, StampFacts
  <2>3. ~pass'.afterEdit
    BY <2>2 DEF Types, Pass
  <2>4. /\ edit'.row.mode = mode /\ edit'.row.enabled = enabled /\ edit'.row.unswept
        /\ edit'.row.predating = predating /\ edit'.cuts = cuts
    BY <2>1
  <2> QED BY <2>1, <2>3, <2>4 DEF EditOpen
<1>6. CASE Start
  <2>1. /\ edit = NoScope => edit' = NoScope
        /\ edit # NoScope => edit' = [edit EXCEPT !.passed = TRUE]
    BY <1>6, Zenon DEF Start
  <2>2. edit # NoScope =>
          edit'.row = edit.row /\ edit'.cuts = edit.cuts /\ edit'.passed
    BY <2>1 DEF Types, Edit
  <2> QED BY <2>1, <2>2 DEF EditOpen
<1>7. CASE Read \/ Query \/ Recover
  <2>1. edit' = edit /\ UNCHANGED <<change, watermark>>
    BY <1>7, ReadFacts, QueryFacts, RecoverFacts
  <2>2. \/ \E due, all \in BOOLEAN :
             pass' = [pass EXCEPT !.read = TRUE, !.covers = scope.enabled, !.full = due,
                                  !.all = all, !.skip = scope.predating]
        \/ \E events \in SUBSET Event : pass' = [pass EXCEPT !.queried = TRUE, !.events = events]
        \/ \E e \in pass.events : pass' = [pass EXCEPT !.events = @ \ {e}]
    BY <1>7, ReadFacts, QueryFacts, RecoverFacts
  <2>3. /\ pass'.on = pass.on /\ pass'.begun = pass.begun /\ pass'.afterEdit = pass.afterEdit
    BY <2>2 DEF Types, Pass
  <2> QED BY <2>1, <2>3 DEF EditOpen
<1>8. CASE Advance
  <2>1. /\ pass.queried
        /\ watermark' = Newer(watermark, pass.begun)
        /\ pass' = IF pass.full THEN [pass EXCEPT !.advanced = TRUE] ELSE Idle
        /\ UNCHANGED <<change, edit>>
    BY <1>8, Zenon DEF Advance
  <2>2. /\ pass'.on => pass.on
        /\ pass'.on => pass'.begun = pass.begun /\ pass'.afterEdit = pass.afterEdit
    BY <2>1 DEF Types, Pass, Idle
  <2>3. pass.on
    BY <2>1 DEF PassStages
  <2>4. watermark' = watermark \/ watermark' = pass.begun
    BY <2>1 DEF Newer
  <2>5. \/ watermark' = watermark /\ watermark # Never
        \/ watermark' = pass.begun
    BY <2>1 DEF Newer
  <2> QED BY <2>1, <2>2, <2>3, <2>5 DEF EditOpen
<1>9. CASE AdvanceFull
  <2> SUFFICES ASSUME edit' # NoScope PROVE EditOpen'
    BY Zenon DEF EditOpen
  <2>1. /\ pass.advanced /\ pass' = Idle /\ UNCHANGED <<change, watermark>>
        /\ edit = NoScope => edit' = NoScope
        /\ edit # NoScope =>
             \E unswept \in BOOLEAN :
                 /\ unswept <=> edit.row.unswept /\ ~pass.afterEdit
                 /\ edit' = [edit EXCEPT !.row.unswept = unswept]
    BY <1>9, AdvanceFullFacts
  <2>2. pass.on /\ ~pass'.on
    BY <2>1 DEF PassStages, Idle
  <2>3. PICK unswept \in BOOLEAN :
          /\ unswept <=> edit.row.unswept /\ ~pass.afterEdit
          /\ edit' = [edit EXCEPT !.row.unswept = unswept]
    BY <2>1
  <2>4. edit # NoScope
    BY <2>1
  <2>5. /\ edit'.row.predating = edit.row.predating
        /\ edit'.row.mode = edit.row.mode /\ edit'.row.enabled = edit.row.enabled
        /\ edit'.row.unswept = unswept
        /\ edit'.cuts = edit.cuts /\ edit'.passed = edit.passed
    BY <2>3, <2>4 DEF Types, Edit, Scope
  <2>6. ~edit.passed => edit.row.unswept /\ ~pass.afterEdit
    BY <2>2, <2>4 DEF EditOpen
  <2> QED BY <2>1, <2>2, <2>3, <2>4, <2>5, <2>6 DEF EditOpen
<1>10. CASE Fail
  <2>1. pass' = Idle /\ UNCHANGED <<change, edit, watermark>>
    BY <1>10, Zenon DEF Fail
  <2>2. ~pass'.on
    BY <2>1 DEF Idle
  <2> QED BY <2>1, <2>2 DEF EditOpen
<1> QED
  BY <1>1, <1>2, <1>3, <1>4, <1>5, <1>6, <1>7, <1>8, <1>9, <1>10 DEF Next, Step

-----------------------------------------------------------------------------
(* Reach *)

\* A Patch Set the watermark will leave behind when the pass ends.
Urgent(c) == pass.read /\ ~raced /\ Wanted(c) /\ change[c].updated > pass.begun + Overlap

\* What WithinReach says of one change.
Reached(c) ==
    \/ watermark = Never
    \/ fullSweep = Never
    \/ fullSweep >= SweepEvery
    \/ OpenedUnswept
    \/ change[c].updated <= watermark + Overlap

\* WithinReach, change by change.
LEMMA ReachMeans ==
    ASSUME fullSweep # Never => fullSweep \in Nat
    PROVE  WithinReach <=> \A c \in Changes : Wanted(c) /\ ~raced => Reached(c)
<1>1. fullSweep # Never => fullSweep - 0 = fullSweep
  OBVIOUS
<1>2. FullSweepDue(0) <=> fullSweep = Never \/ fullSweep >= SweepEvery \/ OpenedUnswept
  BY <1>1 DEF FullSweepDue, OpenedUnswept
<1>3. ASSUME NEW c \in Changes
      PROVE  ((Missing(c) /\ change[c].indexed /\ ~change[c].late /\ ~raced) =>
                    \/ watermark = Never
                    \/ FullSweepDue(0)
                    \/ change[c].updated <= watermark + Overlap)
               <=> (Wanted(c) /\ ~raced => Reached(c))
  BY <1>2, Zenon DEF Wanted, Reached
<1> QED BY <1>3, Zenon DEF WithinReach

\* What the two conjuncts say of every change: what is proved of each step.
Found == \A c \in Changes :
    /\ Wanted(c) /\ ~raced => Reached(c)
    /\ Urgent(c) => Carried(c)

\* The two conjuncts about reach, before and after a step.
LEMMA FoundMeans ==
    /\ Types => (WithinReach /\ PassFinds <=> Found)
    /\ Types' => (WithinReach' /\ PassFinds' <=> Found')
<1>1. ASSUME Types PROVE WithinReach /\ PassFinds <=> Found
  <2>1. fullSweep # Never => fullSweep \in Nat
    BY <1>1 DEF Types
  <2> QED BY <2>1, ReachMeans, Zenon DEF PassFinds, Urgent, Found
<1>2. ASSUME Types' PROVE WithinReach' /\ PassFinds' <=> Found'
  <2>1. fullSweep' # Never => fullSweep' \in Nat
    BY <1>2 DEF Types
  <2>2. fullSweep' # Never => fullSweep' - 0 = fullSweep'
    BY <2>1
  <2>3. FullSweepDue(0)' <=> fullSweep' = Never \/ fullSweep' >= SweepEvery \/ OpenedUnswept'
    BY <2>2 DEF FullSweepDue, OpenedUnswept
  <2>4. ASSUME NEW c \in Changes
        PROVE  ((Missing(c)' /\ change'[c].indexed /\ ~change'[c].late /\ ~raced') =>
                      \/ watermark' = Never
                      \/ FullSweepDue(0)'
                      \/ change'[c].updated <= watermark' + Overlap)
                 <=> (Wanted(c)' /\ ~raced' => Reached(c)')
    BY <2>3, Zenon DEF Wanted, Reached
  <2> QED BY <2>4, Zenon DEF WithinReach, PassFinds, Urgent, Found
<1> QED BY <1>1, <1>2

\* Time moves changes and watermarks alike.
LEMMA TickFinds == ASSUME IInv, Found, Tick PROVE Found'
<1> SUFFICES ASSUME NEW c \in Changes
             PROVE  (Wanted(c) /\ ~raced => Reached(c))' /\ (Urgent(c) => Carried(c))'
  BY Zenon DEF Found
<1>1. /\ change'[c].ps = change[c].ps
      /\ change'[c].updated = Older(change[c].updated)
      /\ change'[c].open = change[c].open
      /\ change'[c].indexed = change[c].indexed
      /\ change[c].late => change'[c].late
      /\ watermark = Never => watermark' = Never
      /\ watermark # Never => watermark' = watermark + 1
      /\ fullSweep = Never => fullSweep' = Never
      /\ fullSweep # Never => fullSweep' = fullSweep + 1
      /\ UNCHANGED <<job, scope, raced>>
  BY TickFacts DEF IInv
<1>2. PICK a \in 0 .. MaxOutage :
        /\ pass' = [pass EXCEPT !.begun = a]
        /\ pass.on => a = pass.begun + 1
  BY TickFacts DEF IInv
<1>3. /\ pass'.begun = a /\ pass'.read = pass.read /\ pass'.queried = pass.queried
      /\ pass'.covers = pass.covers /\ pass'.full = pass.full /\ pass'.all = pass.all
      /\ pass'.skip = pass.skip /\ pass'.touched = pass.touched /\ pass'.events = pass.events
      /\ pass'.afterScope = pass.afterScope
  BY <1>2 DEF IInv, Types, Pass
<1>4. /\ change[c].updated \in 0 .. Old /\ Older(change[c].updated) \in Nat
      /\ Older(change[c].updated) <= change[c].updated + 1
      /\ change[c].updated < Old => Older(change[c].updated) = change[c].updated + 1
  BY AgeOlder DEF IInv, Types, Change, Old
<1>5. /\ pass.begun \in Nat /\ pass.begun <= MaxOutage
      /\ Overlap \in Nat /\ SweepEvery \in Nat /\ MaxOutage \in Nat
      /\ watermark # Never => watermark \in Nat
      /\ fullSweep # Never => fullSweep \in Nat
      /\ \A n \in Nat : n # Never
  BY ReconcilerAssumption DEF IInv, Types, Pass
<1>6. Wanted(c)' => Wanted(c)
  BY <1>1 DEF Wanted, Missing, InScope, HasJob
<1>7. OpenedUnswept' <=> OpenedUnswept
  BY <1>1 DEF OpenedUnswept
<1>8. Reached(c) => Reached(c)'
  BY <1>1, <1>4, <1>5, <1>7 DEF Reached
<1>9. Urgent(c)' => Urgent(c)
  <2>1. ASSUME pass'.read, change'[c].updated > pass'.begun + Overlap
        PROVE  change[c].updated > pass.begun + Overlap
    <3>1. pass'.begun = pass.begun + 1
      BY <1>2, <1>3, <2>1 DEF IInv, PassStages
    <3>2. CASE change[c].updated < Old
      BY <1>1, <1>4, <1>5, <2>1, <3>1, <3>2 DEF Old
    <3>3. CASE change[c].updated = Old
      BY <1>4, <1>5, <3>3 DEF Old
    <3> QED BY <1>4, <1>5, <3>2, <3>3 DEF Old
  <2> QED BY <1>1, <1>3, <1>6, <2>1 DEF Urgent
<1>10. InReach(c) => InReach(c)'
  BY <1>1, <1>3, <1>4, <1>5 DEF InReach
<1>11. SweepPending => SweepPending'
  BY <1>1, <1>3, <1>5 DEF SweepPending
<1>12. Carried(c) => Carried(c)'
  BY <1>1, <1>3, <1>7, <1>10, <1>11 DEF Carried
<1> QED BY <1>1, <1>6, <1>8, <1>9, <1>12, Zenon DEF Found

\* A new Patch Set is not in the index yet; the others are as they were.
LEMMA UploadFinds == ASSUME IInv, Found, NEW u \in Changes, Upload(u) PROVE Found'
<1> SUFFICES ASSUME NEW c \in Changes
             PROVE  (Wanted(c) /\ ~raced => Reached(c))' /\ (Urgent(c) => Carried(c))'
  BY Zenon DEF Found
<1>1. /\ \A d \in Changes : d # u => change'[d] = change[d]
      /\ change'[u] = [ps |-> change[u].ps + 1, updated |-> 0, open |-> TRUE,
                       indexed |-> FALSE, late |-> FALSE]
      /\ scope' = [scope EXCEPT !.predating = @ \ {u}]
      /\ pass' = [pass EXCEPT !.skip = @ \ {u},
                              !.touched = IF pass.read THEN @ \cup {u} ELSE @]
      /\ UNCHANGED <<job, watermark, fullSweep, raced>>
  BY UploadFacts, Zenon DEF IInv
<1>2. CASE c = u
  <2>1. ~Wanted(c)'
    BY <1>1, <1>2 DEF Wanted
  <2> QED BY <2>1, Zenon DEF Urgent
<1>3. CASE c # u
  <2>1. /\ scope'.enabled = scope.enabled /\ scope'.mode = scope.mode
        /\ scope'.unswept = scope.unswept
        /\ c \in scope'.predating <=> c \in scope.predating
    BY <1>1, <1>3 DEF IInv, Types, Scope
  <2>2. /\ pass'.read = pass.read /\ pass'.begun = pass.begun /\ pass'.queried = pass.queried
        /\ pass'.covers = pass.covers /\ pass'.full = pass.full /\ pass'.all = pass.all
        /\ pass'.events = pass.events /\ pass'.afterScope = pass.afterScope
        /\ c \in pass'.skip <=> c \in pass.skip
        /\ c \in pass'.touched <=> c \in pass.touched
    BY <1>1, <1>3 DEF IInv, Types, Pass
  <2>3. change'[c] = change[c]
    BY <1>1, <1>3
  <2>4. (Wanted(c)' <=> Wanted(c)) /\ (OpenedUnswept' <=> OpenedUnswept)
    BY <1>1, <2>1, <2>3 DEF Wanted, Missing, InScope, HasJob, OpenedUnswept
  <2>5. Reached(c) => Reached(c)'
    BY <1>1, <2>3, <2>4 DEF Reached
  <2>6. Urgent(c)' => Urgent(c)
    BY <1>1, <2>2, <2>3, <2>4 DEF Urgent
  <2>7. Carried(c) => Carried(c)'
    BY <1>1, <2>2, <2>3, <2>4 DEF Carried, SweepPending, InReach
  <2> QED BY <1>1, <2>4, <2>5, <2>6, <2>7, Zenon DEF Found
<1> QED BY <1>2, <1>3

\* A change that a comment moves, or the index shows in time, is within the overlap.
LEMMA TouchFinds ==
    ASSUME IInv, Found, NEW u \in Changes, Comment(u) \/ Close(u) \/ Index(u)
    PROVE  Found'
<1> SUFFICES ASSUME NEW c \in Changes
             PROVE  (Wanted(c) /\ ~raced => Reached(c))' /\ (Urgent(c) => Carried(c))'
  BY Zenon DEF Found
<1>1. /\ \A d \in Changes : d # u => change'[d] = change[d]
      /\ \/ change'[u] = [change[u] EXCEPT !.updated = 0]
         \/ change'[u] = [change[u] EXCEPT !.open = FALSE]
         \/ change'[u] = [change[u] EXCEPT !.indexed = TRUE] /\ ~change[u].indexed
      /\ pass' = [pass EXCEPT !.touched = IF pass.read THEN @ \cup {u} ELSE @]
      /\ UNCHANGED <<job, scope, edit, watermark, fullSweep, raced>>
  BY TouchFacts, Zenon DEF IInv
<1>2. CASE c = u
  <2>1. /\ Overlap \in Nat /\ pass.begun \in Nat /\ change[c].updated \in Nat
        /\ watermark # Never => watermark \in Nat
    BY ReconcilerAssumption DEF IInv, Types, Pass, Change, Old
  <2>2. pass'.begun = pass.begun
    BY <1>1 DEF IInv, Types, Pass
  <2>3. Wanted(c)' => change'[c].updated <= Overlap
    <3>1. CASE change'[c] = [change[c] EXCEPT !.updated = 0]
      BY <2>1, <3>1 DEF IInv, Types, Change
    <3>2. CASE change'[c] = [change[c] EXCEPT !.open = FALSE]
      BY <3>2 DEF IInv, Types, Change, Wanted, Missing, InScope
    <3>3. CASE change'[c] = [change[c] EXCEPT !.indexed = TRUE] /\ ~change[c].indexed
      <4>1. change'[c].updated = change[c].updated /\ change'[c].late = change[c].late
        BY <3>3 DEF IInv, Types, Change
      <4>2. ~change[c].late => ~(change[c].updated > Overlap)
        BY <3>3 DEF IInv, LateIndexed
      <4> QED BY <2>1, <4>1, <4>2 DEF Wanted
    <3> QED BY <1>1, <1>2, <3>1, <3>2, <3>3
  <2>4. change'[c].updated \in Nat
    BY TouchTypes, ReconcilerAssumption DEF IInv, Types, Change, Old
  <2>5. Wanted(c)' => Reached(c)'
    BY <1>1, <2>1, <2>3, <2>4 DEF Reached
  <2>6. ~Urgent(c)'
    BY <2>1, <2>2, <2>3, <2>4 DEF Urgent
  <2> QED BY <2>5, <2>6, Zenon
<1>3. CASE c # u
  <2>1. /\ pass'.read = pass.read /\ pass'.begun = pass.begun /\ pass'.queried = pass.queried
        /\ pass'.covers = pass.covers /\ pass'.full = pass.full /\ pass'.all = pass.all
        /\ pass'.events = pass.events /\ pass'.afterScope = pass.afterScope
        /\ pass'.skip = pass.skip
        /\ c \in pass'.touched <=> c \in pass.touched
    BY <1>1, <1>3 DEF IInv, Types, Pass
  <2>2. change'[c] = change[c]
    BY <1>1, <1>3
  <2>3. (Wanted(c)' <=> Wanted(c)) /\ (OpenedUnswept' <=> OpenedUnswept)
    BY <1>1, <2>2 DEF Wanted, Missing, InScope, HasJob, OpenedUnswept
  <2>4. Reached(c) => Reached(c)'
    BY <1>1, <2>2, <2>3 DEF Reached
  <2>5. Urgent(c)' => Urgent(c)
    BY <1>1, <2>1, <2>2, <2>3 DEF Urgent
  <2>6. Carried(c) => Carried(c)'
    BY <1>1, <2>1, <2>2, <2>3 DEF Carried, SweepPending, InReach
  <2> QED BY <1>1, <2>3, <2>4, <2>5, <2>6, Zenon DEF Found
<1> QED BY <1>2, <1>3

\* Enqueuing gives no Patch Set back to those without a job, and gives its
\* event's Patch Set one.
LEMMA EnqueueFinds ==
    ASSUME IInv, NEW u \in Changes, NEW n \in 1 .. MaxUpdates + 1, n <= change[u].ps,
           job' = [job EXCEPT ![u] = Enqueued(u, n)],
           UNCHANGED <<change, scope>>
    PROVE  /\ \A c \in Changes : Wanted(c)' => Wanted(c)
           /\ n = change[u].ps => ~Wanted(u)'
<1> DEFINE new == Enqueued(u, n)
<1>1. /\ new.ps = IF job[u].ps < n THEN n ELSE job[u].ps
      /\ job[u].ps < n /\ n = change[u].ps => (new.skipped <=> u \in scope.predating)
      /\ job[u].ps >= n => (new.skipped => job[u].skipped)
      /\ job[u].ps = n /\ scope.enabled /\ scope.mode = "INCLUDE_OPEN" => ~new.skipped
  BY EnqueuedFacts, Zenon DEF IInv
<1> HIDE DEF new
<1>2. job'[u] = new /\ \A d \in Changes : d # u => job'[d] = job[d]
  BY DEF IInv, Types, new
<1>3. /\ change[u].ps \in Nat /\ job[u].ps \in Nat /\ job[u].ps <= change[u].ps /\ n \in Nat
      /\ scope.mode \in {"FROM_NOW", "INCLUDE_OPEN"}
  BY DEF IInv, Types, Change, Job, Counted, Scope
<1>4. HasJob(u) => HasJob(u)'
  BY <1>1, <1>2, <1>3 DEF HasJob
<1>5. \A c \in Changes : c # u => (HasJob(c)' <=> HasJob(c))
  BY <1>2 DEF HasJob
<1>6. \A c \in Changes : Wanted(c)' => Wanted(c)
  BY <1>4, <1>5 DEF Wanted, Missing, InScope
<1>7. ASSUME n = change[u].ps PROVE ~Missing(u)'
  <2>1. CASE job[u].ps < n
    BY <1>1, <1>2, <1>7, <2>1 DEF Missing, InScope, HasJob
  <2>2. CASE job[u].ps = n /\ ~job[u].skipped
    BY <1>1, <1>2, <1>3, <1>7, <2>2 DEF Missing, InScope, HasJob
  <2>3. CASE job[u].ps = n /\ job[u].skipped /\ scope.mode = "FROM_NOW"
    <3>1. u \in scope.predating
      BY <1>7, <2>3 DEF IInv, SkippedPredate
    <3> QED BY <3>1 DEF Missing, InScope
  <2>4. CASE job[u].ps = n /\ scope.mode = "INCLUDE_OPEN"
    BY <1>1, <1>2, <1>3, <1>7, <2>4 DEF Missing, InScope, HasJob
  <2> QED BY <1>3, <1>7, <2>1, <2>2, <2>3, <2>4
<1> QED BY <1>6, <1>7 DEF Wanted

\* An event that arrives only gives jobs.
LEMMA DeliverFinds == ASSUME IInv, Found, NEW u \in Changes, Deliver(u) PROVE Found'
<1>1. /\ job' = [job EXCEPT ![u] = Enqueued(u, change[u].ps)]
      /\ UNCHANGED <<change, scope, watermark, fullSweep, pass, raced>>
  BY Zenon DEF Deliver
<1>2. change[u].ps \in 1 .. MaxUpdates + 1 /\ change[u].ps <= change[u].ps
  BY DEF IInv, Types, Change
<1>3. \A c \in Changes : Wanted(c)' => Wanted(c)
  BY <1>1, <1>2, EnqueueFinds
<1>4. (OpenedUnswept' <=> OpenedUnswept) /\ (SweepPending' <=> SweepPending)
  BY <1>1 DEF OpenedUnswept, SweepPending
<1>5. \A c \in Changes : Reached(c)' <=> Reached(c)
  BY <1>1, <1>4 DEF Reached
<1>6. \A c \in Changes : Carried(c)' <=> Carried(c)
  BY <1>1, <1>4 DEF Carried, InReach
<1>7. \A c \in Changes : Urgent(c)' => Urgent(c)
  BY <1>1, <1>3 DEF Urgent
<1> QED BY <1>1, <1>3, <1>5, <1>6, <1>7 DEF Found

\* Nobody's job or change, and nothing of what is due.
LEMMA SameWanted ==
    ASSUME UNCHANGED <<change, job, scope>>
    PROVE  /\ \A c \in Changes : Wanted(c)' <=> Wanted(c)
           /\ OpenedUnswept' <=> OpenedUnswept
BY DEF Wanted, Missing, InScope, HasJob, OpenedUnswept

\* An edit changes nothing before it commits.
LEMMA StampFinds ==
    ASSUME IInv, Found, NEW enabled \in BOOLEAN, NEW mode \in {"FROM_NOW", "INCLUDE_OPEN"},
           Stamp(enabled, mode)
    PROVE  Found'
<1>1. /\ pass' = [pass EXCEPT !.afterEdit = FALSE]
      /\ UNCHANGED <<change, job, scope, watermark, fullSweep, raced>>
  BY StampFacts, Zenon DEF IInv
<1>2. /\ pass'.read = pass.read /\ pass'.begun = pass.begun /\ pass'.queried = pass.queried
      /\ pass'.covers = pass.covers /\ pass'.full = pass.full /\ pass'.all = pass.all
      /\ pass'.events = pass.events /\ pass'.afterScope = pass.afterScope
      /\ pass'.skip = pass.skip /\ pass'.touched = pass.touched
  BY <1>1 DEF IInv, Types, Pass
<1>3. (\A c \in Changes : Wanted(c)' <=> Wanted(c)) /\ (OpenedUnswept' <=> OpenedUnswept)
  BY <1>1, SameWanted
<1>4. \A c \in Changes : Reached(c)' <=> Reached(c)
  BY <1>1, <1>3 DEF Reached
<1>5. \A c \in Changes : Carried(c)' <=> Carried(c)
  BY <1>1, <1>2, <1>3 DEF Carried, InReach, SweepPending
<1>6. \A c \in Changes : Urgent(c)' <=> Urgent(c)
  BY <1>1, <1>2, <1>3 DEF Urgent
<1> QED BY <1>1, <1>3, <1>4, <1>5, <1>6 DEF Found

\* A row that opens the project is unswept; what a FROM_NOW row puts in scope was
\* uploaded since its start, which is within reach.
LEMMA CommitFinds == ASSUME IInv, Found, Commit PROVE Found'
<1> SUFFICES ASSUME NEW c \in Changes, Wanted(c)', ~raced'
             PROVE  Reached(c)' /\ (Urgent(c)' => Carried(c)')
  BY Zenon DEF Found, Urgent
<1>1. /\ edit # NoScope /\ scope' = edit.row /\ raced' = edit.passed
      /\ pass' = [pass EXCEPT !.afterScope = pass.afterEdit]
      /\ UNCHANGED <<change, watermark, fullSweep>>
  BY CommitFacts, Zenon DEF IInv
<1>2. /\ pass'.read = pass.read /\ pass'.begun = pass.begun
      /\ pass'.afterScope = pass.afterEdit
  BY <1>1 DEF IInv, Types, Pass
<1>3. /\ edit.row.enabled /\ c \notin edit.row.predating
      /\ edit.row.mode \in {"FROM_NOW", "INCLUDE_OPEN"}
  BY <1>1 DEF Wanted, Missing, InScope, IInv, Types, Edit, Scope
<1>4. /\ edit.row.mode = "FROM_NOW" /\ edit.row.enabled => edit.cuts
      /\ pass.on /\ pass.afterEdit => edit.passed
      /\ ~edit.passed => edit.row.unswept
      /\ ~edit.passed /\ edit.cuts => \A d \in Changes \ edit.row.predating :
             /\ watermark # Never => change[d].updated <= watermark
             /\ pass.on => change[d].updated <= pass.begun
  BY <1>1 DEF IInv, EditOpen
<1>5. CASE edit.row.mode = "INCLUDE_OPEN"
  <2>1. OpenedUnswept'
    BY <1>1, <1>3, <1>4, <1>5 DEF OpenedUnswept
  <2>2. pass'.read => ~pass'.afterScope
    BY <1>1, <1>2, <1>4 DEF IInv, PassStages
  <2> QED BY <2>1, <2>2 DEF Reached, Carried, Urgent
<1>6. CASE edit.row.mode = "FROM_NOW"
  <2>1. /\ watermark # Never => change[c].updated <= watermark
        /\ pass.on => change[c].updated <= pass.begun
    BY <1>1, <1>3, <1>4, <1>6
  <2>2. /\ change[c].updated \in Nat /\ pass.begun \in Nat /\ Overlap \in Nat
        /\ watermark # Never => watermark \in Nat
    BY ReconcilerAssumption DEF IInv, Types, Change, Pass, Old
  <2>3. Reached(c)'
    BY <1>1, <2>1, <2>2 DEF Reached
  <2>4. ~Urgent(c)'
    BY <1>1, <1>2, <2>1, <2>2 DEF Urgent, IInv, PassStages
  <2> QED BY <2>3, <2>4
<1> QED BY <1>3, <1>5, <1>6

\* A pass that has read nothing yet carries nothing.
LEMMA StartFinds == ASSUME IInv, Found, Start PROVE Found'
<1>1. /\ pass' = [Idle EXCEPT !.on = TRUE, !.afterScope = TRUE, !.afterEdit = TRUE]
      /\ UNCHANGED <<change, job, scope, watermark, fullSweep, raced>>
  BY Zenon DEF Start
<1>2. ~pass'.read
  BY <1>1 DEF Idle
<1>3. (\A c \in Changes : Wanted(c)' <=> Wanted(c)) /\ (OpenedUnswept' <=> OpenedUnswept)
  BY <1>1, SameWanted
<1>4. \A c \in Changes : Reached(c)' <=> Reached(c)
  BY <1>1, <1>3 DEF Reached
<1> QED BY <1>1, <1>2, <1>3, <1>4 DEF Found, Urgent

\* What is wanted is within reach of the watermark, or the sweep that is due
\* runs now, or it is due at the next pass by age.
LEMMA ReadFinds == ASSUME IInv, Found, Read PROVE Found'
<1> SUFFICES ASSUME NEW c \in Changes
             PROVE  (Wanted(c) /\ ~raced => Reached(c))' /\ (Urgent(c) => Carried(c))'
  BY Zenon DEF Found
<1>1. PICK due, all \in BOOLEAN :
        /\ due <=> FullSweepDue(pass.begun)
        /\ all <=> (due \/ watermark = Never)
        /\ pass' = [pass EXCEPT !.read = TRUE, !.covers = scope.enabled, !.full = due,
                                !.all = all, !.skip = scope.predating]
  BY ReadFacts DEF IInv
<1>2. /\ ~pass.read
      /\ UNCHANGED <<change, job, scope, watermark, fullSweep, raced>>
  BY ReadFacts, Zenon DEF IInv
<1>3. /\ pass'.read /\ pass'.begun = pass.begun /\ pass'.queried = pass.queried
      /\ pass'.covers = scope.enabled /\ pass'.full = due /\ pass'.all = all
      /\ pass'.skip = scope.predating /\ pass'.touched = pass.touched
  BY <1>1 DEF IInv, Types, Pass
<1>4. ~pass.queried /\ pass.touched = {}
  BY <1>2 DEF IInv, PassStages
<1>5. (Wanted(c)' <=> Wanted(c)) /\ (OpenedUnswept' <=> OpenedUnswept)
  BY <1>2, SameWanted
<1>6. Reached(c)' <=> Reached(c)
  BY <1>2, <1>5 DEF Reached
<1>7. ASSUME Wanted(c), Reached(c) PROVE Carried(c)'
  <2>1. scope.enabled /\ c \notin scope.predating
    BY <1>7 DEF Wanted, Missing, InScope
  <2>2. InReach(c)' \/ SweepPending'
    <3>1. CASE watermark = Never \/ fullSweep = Never \/ OpenedUnswept
      BY <1>1, <1>3, <3>1 DEF InReach, FullSweepDue, OpenedUnswept
    <3>2. CASE watermark # Never /\ change[c].updated <= watermark + Overlap
      BY <1>2, <1>3, <3>2 DEF InReach
    <3>3. CASE fullSweep # Never /\ fullSweep >= SweepEvery
      BY <1>1, <1>2, <1>3, <3>3 DEF SweepPending, InReach
    <3> QED BY <1>7, <3>1, <3>2, <3>3 DEF Reached
  <2> QED BY <1>3, <1>4, <2>1, <2>2 DEF Carried
<1> QED BY <1>2, <1>5, <1>6, <1>7 DEF Found, Urgent

\* What the query is about and nobody touched is among its events.
LEMMA QueryFinds == ASSUME IInv, Found, Query PROVE Found'
<1> SUFFICES ASSUME NEW c \in Changes
             PROVE  (Wanted(c) /\ ~raced => Reached(c))' /\ (Urgent(c) => Carried(c))'
  BY Zenon DEF Found
<1>1. PICK events \in SUBSET Event :
        /\ pass' = [pass EXCEPT !.queried = TRUE, !.events = events]
        /\ \A d \in Changes :
             pass.covers /\ Matches(d) /\ d \notin pass.touched /\ d \notin pass.skip
                 => [change |-> d, ps |-> change[d].ps] \in events
  BY QueryFacts DEF IInv
<1>2. /\ pass.read /\ ~pass.queried
      /\ UNCHANGED <<change, job, scope, watermark, fullSweep, raced>>
  BY QueryFacts, Zenon DEF IInv
<1>3. /\ pass'.read /\ pass'.begun = pass.begun /\ pass'.queried
      /\ pass'.full = pass.full /\ pass'.events = events /\ pass'.afterScope = pass.afterScope
  BY <1>1, <1>2 DEF IInv, Types, Pass
<1>4. (Wanted(c)' <=> Wanted(c)) /\ (OpenedUnswept' <=> OpenedUnswept)
  BY <1>2, SameWanted
<1>5. Reached(c)' <=> Reached(c)
  BY <1>2, <1>4 DEF Reached
<1>6. Urgent(c)' <=> Urgent(c)
  BY <1>2, <1>3, <1>4 DEF Urgent
<1>7. ASSUME Wanted(c), Carried(c) PROVE Carried(c)'
  <2>1. SweepPending' <=> SweepPending
    BY <1>2, <1>3 DEF SweepPending
  <2>2. CASE pass.covers /\ c \notin pass.skip /\ c \notin pass.touched /\ InReach(c)
    <3>1. Matches(c)
      BY <1>7, <2>2 DEF Matches, InReach, Wanted, Missing, InScope
    <3>2. [change |-> c, ps |-> change[c].ps] \in events
      BY <1>1, <2>2, <3>1, Zenon
    <3> QED BY <1>2, <1>3, <3>2 DEF Carried
  <2> QED BY <1>2, <1>3, <1>4, <1>7, <2>1, <2>2 DEF Carried
<1> QED BY <1>2, <1>4, <1>5, <1>6, <1>7 DEF Found, Urgent

\* An event leaves the pass only for a job.
LEMMA RecoverFinds == ASSUME IInv, Found, Recover PROVE Found'
<1> SUFFICES ASSUME NEW c \in Changes
             PROVE  (Wanted(c) /\ ~raced => Reached(c))' /\ (Urgent(c) => Carried(c))'
  BY Zenon DEF Found
<1>1. PICK e \in pass.events :
        /\ e.change \in Changes /\ e.ps \in 1 .. MaxUpdates + 1
        /\ e = [change |-> e.change, ps |-> e.ps]
        /\ pass' = [pass EXCEPT !.events = @ \ {e}]
        /\ job' = [job EXCEPT ![e.change] = Enqueued(e.change, e.ps)]
  BY RecoverFacts DEF IInv
<1>2. pass.queried /\ UNCHANGED <<change, scope, watermark, fullSweep, raced>>
  BY RecoverFacts, Zenon DEF IInv
<1>3. e.ps <= change[e.change].ps
  BY DEF IInv, Counted
<1>4. /\ \A d \in Changes : Wanted(d)' => Wanted(d)
      /\ e.ps = change[e.change].ps => ~Wanted(e.change)'
  BY <1>1, <1>2, <1>3, EnqueueFinds
<1>5. /\ pass'.read = pass.read /\ pass'.begun = pass.begun /\ pass'.queried = pass.queried
      /\ pass'.full = pass.full /\ pass'.afterScope = pass.afterScope
      /\ pass'.events = pass.events \ {e}
  BY <1>1 DEF IInv, Types, Pass
<1>6. OpenedUnswept' <=> OpenedUnswept
  BY <1>2 DEF OpenedUnswept
<1>7. SweepPending' <=> SweepPending
  BY <1>2, <1>5 DEF SweepPending
<1>8. Reached(c)' <=> Reached(c)
  BY <1>2, <1>6 DEF Reached
<1>9. Urgent(c)' => Urgent(c)
  BY <1>2, <1>4, <1>5 DEF Urgent
<1>10. ASSUME Wanted(c)', Carried(c) PROVE Carried(c)'
  <2>1. CASE [change |-> c, ps |-> change[c].ps] \in pass.events
    <3>1. [change |-> c, ps |-> change[c].ps] # e
      <4>1. SUFFICES ASSUME [change |-> c, ps |-> change[c].ps] = e PROVE FALSE
        OBVIOUS
      <4>2. e.change = c /\ e.ps = change[c].ps
        BY <4>1
      <4> QED BY <1>4, <1>10, <4>2
    <3> QED BY <1>2, <1>5, <2>1, <3>1 DEF Carried
  <2> QED BY <1>2, <1>5, <1>6, <1>7, <1>10, <2>1 DEF Carried
<1> QED BY <1>2, <1>4, <1>8, <1>9, <1>10 DEF Found, Urgent

\* The watermark goes back to the start of the pass, and everything older is
\* either enqueued or left to a sweep.
LEMMA AdvanceFinds == ASSUME IInv, Found, Advance PROVE Found'
<1> SUFFICES ASSUME NEW c \in Changes
             PROVE  (Wanted(c) /\ ~raced => Reached(c))' /\ (Urgent(c) => Carried(c))'
  BY Zenon DEF Found
<1>1. /\ pass.queried /\ pass.events = {} /\ ~pass.advanced
      /\ watermark' = Newer(watermark, pass.begun)
      /\ pass' = IF pass.full THEN [pass EXCEPT !.advanced = TRUE] ELSE Idle
      /\ UNCHANGED <<change, job, scope, fullSweep, raced>>
  BY Zenon DEF Advance
<1>2. pass.read /\ pass.on
  BY <1>1 DEF IInv, PassStages
<1>3. watermark' = pass.begun
  BY <1>1, <1>2 DEF IInv, PassStages, Newer, Types, Pass
<1>4. (Wanted(c)' <=> Wanted(c)) /\ (OpenedUnswept' <=> OpenedUnswept)
  BY <1>1, SameWanted
<1>5. ASSUME Wanted(c), ~raced, ~(change[c].updated <= pass.begun + Overlap)
      PROVE  \/ OpenedUnswept /\ ~pass.afterScope
             \/ SweepPending
  <2>1. change[c].updated > pass.begun + Overlap
    BY <1>5, ReconcilerAssumption DEF IInv, Types, Change, Pass, Old
  <2>2. Carried(c)
    BY <1>2, <1>5, <2>1 DEF Found, Urgent
  <2> QED BY <1>1, <2>2 DEF Carried
<1>6. (Wanted(c) /\ ~raced => Reached(c))'
  BY <1>1, <1>3, <1>4, <1>5 DEF Reached, SweepPending
<1>7. CASE ~pass.full
  <2>1. ~pass'.read
    BY <1>1, <1>7 DEF Idle
  <2> QED BY <1>6, <2>1 DEF Urgent
<1>8. CASE pass.full
  <2>1. /\ pass'.begun = pass.begun /\ pass'.full = pass.full
        /\ pass'.afterScope = pass.afterScope
    BY <1>1, <1>8 DEF IInv, Types, Pass
  <2>2. SweepPending' <=> SweepPending
    BY <1>1, <2>1 DEF SweepPending
  <2>3. Urgent(c)' => Wanted(c) /\ ~raced /\ ~(change[c].updated <= pass.begun + Overlap)
    <3>1. change[c].updated > pass.begun + Overlap => ~(change[c].updated <= pass.begun + Overlap)
      BY ReconcilerAssumption DEF IInv, Types, Change, Pass, Old
    <3> QED BY <1>1, <1>4, <2>1, <3>1 DEF Urgent
  <2> QED BY <1>4, <1>5, <1>6, <2>1, <2>2, <2>3 DEF Carried
<1> QED BY <1>7, <1>8

\* A sweep found everything older than it; an edit that it did not see stays unswept.
LEMMA AdvanceFullFinds == ASSUME IInv, Found, AdvanceFull PROVE Found'
<1> SUFFICES ASSUME NEW c \in Changes, Wanted(c)', ~raced'
             PROVE  Reached(c)' /\ (Urgent(c)' => Carried(c)')
  BY Zenon DEF Found, Urgent
<1>1. /\ pass.advanced /\ pass' = Idle
      /\ UNCHANGED <<change, job, watermark, raced>>
  BY AdvanceFullFacts, Zenon DEF IInv
<1>2. PICK unswept \in BOOLEAN :
        /\ unswept <=> scope.unswept /\ ~pass.afterScope
        /\ scope' = [scope EXCEPT !.unswept = unswept]
  BY AdvanceFullFacts DEF IInv
<1>3. /\ scope'.enabled = scope.enabled /\ scope'.mode = scope.mode
      /\ scope'.predating = scope.predating /\ scope'.unswept = unswept
  BY <1>2 DEF IInv, Types, Scope
<1>4. pass.read /\ pass.full /\ pass.queried /\ pass.events = {} /\ watermark = pass.begun
  BY <1>1 DEF IInv, PassStages
<1>5. ~pass'.read
  BY <1>1 DEF Idle
<1>6. Wanted(c)
  BY <1>1, <1>3 DEF Wanted, Missing, InScope, HasJob
<1>7. CASE change[c].updated <= pass.begun + Overlap
  BY <1>1, <1>4, <1>5, <1>7 DEF Reached, Urgent
<1>8. CASE ~(change[c].updated <= pass.begun + Overlap)
  <2>1. change[c].updated > pass.begun + Overlap
    BY <1>8, ReconcilerAssumption DEF IInv, Types, Change, Pass, Old
  <2>2. Carried(c)
    BY <1>1, <1>4, <1>6, <2>1 DEF Found, Urgent
  <2>3. OpenedUnswept /\ ~pass.afterScope
    BY <1>4, <2>2 DEF Carried, SweepPending
  <2>4. OpenedUnswept'
    BY <1>2, <1>3, <2>3 DEF OpenedUnswept
  <2> QED BY <1>5, <2>4 DEF Reached, Urgent
<1> QED BY <1>7, <1>8

\* A failed pass has written no watermark that it did not earn.
LEMMA FailFinds == ASSUME IInv, Found, Fail PROVE Found'
<1>1. /\ pass' = Idle
      /\ UNCHANGED <<change, job, scope, watermark, fullSweep, raced>>
  BY Zenon DEF Fail
<1>2. ~pass'.read
  BY <1>1 DEF Idle
<1>3. (\A c \in Changes : Wanted(c)' <=> Wanted(c)) /\ (OpenedUnswept' <=> OpenedUnswept)
  BY <1>1, SameWanted
<1>4. \A c \in Changes : Reached(c)' <=> Reached(c)
  BY <1>1, <1>3 DEF Reached
<1> QED BY <1>1, <1>2, <1>3, <1>4 DEF Found, Urgent

\* Every step keeps what is wanted within reach, or carried by the pass.
LEMMA FoundKeeps == ASSUME IInv, Next PROVE WithinReach' /\ PassFinds'
<1>1. Found
  BY FoundMeans DEF IInv
<1>2. Types'
  BY NextTypes
<1>3. Found'
  <2>1. CASE Tick  BY <1>1, <2>1, TickFinds
  <2>2. ASSUME NEW c \in Changes, Upload(c) PROVE Found'  BY <1>1, <2>2, UploadFinds
  <2>3. ASSUME NEW c \in Changes, Comment(c) \/ Close(c) \/ Index(c) PROVE Found'
    BY <1>1, <2>3, TouchFinds
  <2>4. ASSUME NEW c \in Changes, Deliver(c) PROVE Found'  BY <1>1, <2>4, DeliverFinds
  <2>5. ASSUME NEW enabled \in BOOLEAN, NEW mode \in {"FROM_NOW", "INCLUDE_OPEN"},
               Stamp(enabled, mode)
        PROVE  Found'
    BY <1>1, <2>5, StampFinds
  <2>6. CASE Commit  BY <1>1, <2>6, CommitFinds
  <2>7. CASE Start  BY <1>1, <2>7, StartFinds
  <2>8. CASE Read  BY <1>1, <2>8, ReadFinds
  <2>9. CASE Query  BY <1>1, <2>9, QueryFinds
  <2>10. CASE Recover  BY <1>1, <2>10, RecoverFinds
  <2>11. CASE Advance  BY <1>1, <2>11, AdvanceFinds
  <2>12. CASE AdvanceFull  BY <1>1, <2>12, AdvanceFullFinds
  <2>13. CASE Fail  BY <1>1, <2>13, FailFinds
  <2> QED
    BY <2>1, <2>2, <2>3, <2>4, <2>5, <2>6, <2>7, <2>8, <2>9, <2>10, <2>11, <2>12, <2>13
       DEF Next, Step
<1> QED BY <1>2, <1>3, FoundMeans

-----------------------------------------------------------------------------
(* The theorems *)

\* Nothing has been swept at first.
LEMMA InitHolds == ASSUME Init PROVE IInv
<1>1. Types
  BY InitTypes
<1>2. /\ change = [c \in Changes |->
            [ps |-> 1, updated |-> Old, open |-> TRUE, indexed |-> TRUE, late |-> FALSE]]
      /\ job = [c \in Changes |-> [ps |-> 0, skipped |-> FALSE]]
      /\ edit = NoScope /\ watermark = Never /\ fullSweep = Never /\ updates = 0
      /\ pass = Idle
  BY Zenon DEF Init
<1>3. \A c \in Changes : change[c].ps = 1 /\ change[c].indexed /\ job[c].ps = 0 /\ ~job[c].skipped
  BY <1>2
<1>4. ~pass.on /\ ~pass.read /\ ~pass.queried /\ ~pass.advanced /\ pass.touched = {}
      /\ pass.events = {}
  BY <1>2 DEF Idle
<1>5. Counted
  BY <1>2, <1>3, <1>4 DEF Counted
<1>6. SkippedPredate /\ LateIndexed
  BY <1>3 DEF SkippedPredate, LateIndexed
<1>7. PassStages /\ EditOpen
  BY <1>2, <1>4 DEF PassStages, EditOpen
<1>8. WithinReach /\ PassFinds
  BY <1>2, <1>4 DEF WithinReach, PassFinds
<1> QED BY <1>1, <1>5, <1>6, <1>7, <1>8 DEF IInv

\* A stuttering step changes nothing.
LEMMA StutterHolds == ASSUME IInv, UNCHANGED vars PROVE IInv'
<1>1. UNCHANGED <<change, job, scope, edit, watermark, fullSweep, pass, updates, raced>>
  BY DEF vars
<1>2. Types' <=> Types
  BY <1>1 DEF Types
<1>3. Counted' /\ SkippedPredate' /\ LateIndexed' /\ PassStages' /\ EditOpen'
  BY <1>1 DEF IInv, Counted, SkippedPredate, LateIndexed, PassStages, EditOpen
<1>4. WithinReach'
  BY <1>1 DEF IInv, WithinReach, Missing, InScope, HasJob, FullSweepDue
<1>5. PassFinds'
  BY <1>1 DEF IInv, PassFinds, Wanted, Missing, InScope, HasJob, Carried, OpenedUnswept,
              SweepPending, InReach
<1> QED BY <1>2, <1>3, <1>4, <1>5 DEF IInv

\* The inductive invariant of the reconciler.
THEOREM ReconcilerInvariance == Spec => []IInv
<1>1. Init => IInv
  BY InitHolds
<1>2. IInv /\ [Next]_vars => IInv'
  <2> SUFFICES ASSUME IInv, [Next]_vars PROVE IInv'
    OBVIOUS
  <2>1. CASE Next
    <3>1. Types' /\ Counted' /\ SkippedPredate' /\ LateIndexed' /\ PassStages' /\ EditOpen'
      BY <2>1, NextTypes, CountedKeeps, SkippedKeeps, LateKeeps, StagesKeep, EditKeeps
    <3>2. WithinReach' /\ PassFinds'
      BY <2>1, FoundKeeps
    <3> QED BY <3>1, <3>2 DEF IInv
  <2>2. CASE UNCHANGED vars
    BY <2>2, StutterHolds
  <2> QED BY <2>1, <2>2
<1> QED BY <1>1, <1>2, PTL DEF Spec

\* Changes, jobs, scope, watermarks and the age of a pass keep to their types.
THEOREM ReconcilerTypes == Spec => []TypeOK
<1>1. IInv => TypeOK
  <2> SUFFICES ASSUME IInv PROVE TypeOK
    OBVIOUS
  <2>1. pass.begun \in 0 .. Old
    BY ReconcilerAssumption DEF IInv, Types, Pass, Old
  <2>2. edit # NoScope => edit.row \in Scope
    BY DEF IInv, Types, Edit
  <2> QED BY <2>1, <2>2 DEF IInv, Types, TypeOK
<1> QED BY <1>1, ReconcilerInvariance, PTL

\* service.py's watermarks lose nothing: whatever passes fail or are cut short,
\* whatever is updated while the pages are read and however the scope is edited, a
\* Patch Set in scope without a job is one the next pass or the next full sweep asks
\* for, unless the index hid it longer than the overlap or a pass began while the row
\* that opened the project was still being committed.
THEOREM NothingSlipsBehind == Spec => []WithinReach
<1>1. IInv => WithinReach
  BY DEF IInv
<1> QED BY <1>1, ReconcilerInvariance, PTL
=============================================================================
