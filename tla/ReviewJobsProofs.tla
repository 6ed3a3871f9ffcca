-------------------------- MODULE ReviewJobsProofs --------------------------
(***************************************************************************)
(* The inductive invariant of ReviewJobs and what it implies.              *)
(***************************************************************************)
EXTENDS ReviewJobs, JobRowsProofs

\* Neither assumption of exactly-once publication is broken: the POST does not
\* outlive the lease the guard has renewed, and Gerrit answers or forgets it.
PostsAreFenced == "post" \notin StallPoints /\ ~LatePosts

\* Steps a worker only reaches with the job's publication row in hand.
PublicationPCs ==
    {"startReconcile", "startResolve", "lookup", "resolveLookup", "recheck",
     "publishGate", "markAmbiguous", "preGet", "guard", "post", "posted",
     "ambiguousAgain", "failPublication", "complete", "vote"}

\* Steps after Gerrit has confirmed the comments ...
ConfirmedPCs == {"posted", "complete", "vote"}

\* ... and between a lookup that did not find them and the POST.
AbsentPCs == {"recheck", "publishGate", "markAmbiguous", "preGet", "guard"}

\* What holds of worker w with record k, job table t and n comments posted.
WorkerInv(k, w, t, n) ==
    /\ k \in WorkerRecord
    /\ k.pc # "idle" =>
          /\ k.job \in PS
          /\ k.snap # NONE => t[k.job].pub # NONE
          /\ k.pc \in PublicationPCs => k.snap # NONE
          /\ k.pc = "save" /\ LeasedBy(t[k.job], w) => t[k.job].state = "VALIDATING"
          /\ k.pc \in ConfirmedPCs \/ k.snap = "POSTED" => n[k.job] > 0
          /\ PostsAreFenced =>
                /\ k.pc = "post" =>
                      /\ LeasedBy(t[k.job], w)
                      /\ t[k.job].state = "PUBLISHING"
                      /\ n[k.job] = 0
                /\ k.pc \in AbsentPCs /\ LeasedBy(t[k.job], w) => n[k.job] = 0

\* A row that claims its comments are published tells the truth.
RowConfirmed(r, n) == r.state = "DONE" \/ r.pub = "POSTED" => n > 0

ScalarsOK ==
    /\ current \in PS \cup {0}
    /\ chStatus \in ChangeStatus
    /\ posted \in [PS -> Nat]
    /\ inFlight \in [PS -> Nat]
    /\ enabled \in BOOLEAN
    /\ startMode \in StartMode \cup {NONE}
    /\ cutoff \in PS \cup {0}
    /\ faults \in Nat
    /\ PostsAreFenced => \A p \in PS : posted[p] <= 1 /\ inFlight[p] = 0

IInv ==
    /\ jobs \in [PS -> JobRow]
    /\ \A p \in PS : RowInv(jobs[p]) /\ RowConfirmed(jobs[p], posted[p])
    /\ DOMAIN wk = Workers
    /\ wk = [w \in Workers |-> wk[w]]
    /\ \A w \in Workers : WorkerInv(wk[w], w, jobs, posted)
    /\ ScalarsOK

-----------------------------------------------------------------------------
(* A step of one actor leaves everybody else's part of IInv intact. *)

\* A worker v keeps its part of the invariant when its row keeps its intent, v
\* gains no lease, and no comments appear under v's lease.
LEMMA BystanderKept ==
    ASSUME NEW k, NEW v \in Workers, NEW t, NEW u, NEW n \in [PS -> Nat], NEW m \in [PS -> Nat],
           WorkerInv(k, v, t, n),
           k.pc # "idle" =>
              /\ t[k.job].pub # NONE => u[k.job].pub # NONE
              /\ LeasedBy(u[k.job], v) =>
                    LeasedBy(t[k.job], v) /\ u[k.job].state = t[k.job].state
              /\ LeasedBy(t[k.job], v) /\ t[k.job].state = "PUBLISHING" =>
                    LeasedBy(u[k.job], v) /\ u[k.job].state = "PUBLISHING"
              /\ m[k.job] >= n[k.job]
              /\ PostsAreFenced /\ LeasedBy(t[k.job], v) => m[k.job] = n[k.job]
    PROVE  WorkerInv(k, v, u, m)
BY DEF WorkerInv, WorkerRecord

\* A step in which w changes row p and its own record.
LEMMA ActorStep ==
    ASSUME IInv, NEW w \in Workers, NEW p \in PS, NEW row, NEW k,
           jobs' = [jobs EXCEPT ![p] = row],
           wk' = [wk EXCEPT ![w] = k],
           RowStep(jobs[p], row, w),
           RowConfirmed(row, posted[p]),
           WorkerInv(k, w, jobs', posted),
           posted' = posted,
           ScalarsOK'
    PROVE  IInv'
<1>2. jobs' \in [PS -> JobRow]
  BY DEF IInv, RowStep, RowInv
<1>3. jobs'[p] = row /\ \A q \in PS \ {p} : jobs'[q] = jobs[q]
  BY DEF IInv
<1>4. \A q \in PS : RowInv(jobs'[q]) /\ RowConfirmed(jobs'[q], posted'[q])
  BY <1>3 DEF IInv, RowStep
<1>5. /\ DOMAIN wk' = Workers
      /\ wk' = [v \in Workers |-> wk'[v]]
      /\ wk'[w] = k
      /\ \A v \in Workers \ {w} : wk'[v] = wk[v]
  BY DEF IInv
<1>6. ASSUME NEW v \in Workers \ {w}
      PROVE  WorkerInv(wk'[v], v, jobs', posted')
  <2>1. WorkerInv(wk[v], v, jobs, posted) /\ posted \in [PS -> Nat]
    BY DEF IInv, ScalarsOK
  <2>2. wk[v].pc # "idle" => wk[v].job \in PS
    BY <2>1 DEF WorkerInv
  <2>3. wk[v].pc # "idle" =>
              /\ jobs[wk[v].job].pub # NONE => jobs'[wk[v].job].pub # NONE
              /\ LeasedBy(jobs'[wk[v].job], v) =>
                    LeasedBy(jobs[wk[v].job], v) /\ jobs'[wk[v].job].state = jobs[wk[v].job].state
              /\ LeasedBy(jobs[wk[v].job], v) /\ jobs[wk[v].job].state = "PUBLISHING" =>
                    LeasedBy(jobs'[wk[v].job], v) /\ jobs'[wk[v].job].state = "PUBLISHING"
              /\ posted[wk[v].job] >= posted[wk[v].job]
    BY <1>3, <2>1, <2>2 DEF RowStep, LeasesKept
  <2>4. WorkerInv(wk[v], v, jobs', posted)
    BY <2>1, <2>3, BystanderKept
  <2> QED BY <2>4, <1>5
<1> QED
  BY <1>2, <1>4, <1>5, <1>6 DEF IInv

\* A step in which w changes nothing but its own record.
LEMMA QuietStep ==
    ASSUME IInv, NEW w \in Workers, NEW k,
           UNCHANGED <<jobs, posted>>,
           wk' = [wk EXCEPT ![w] = k],
           WorkerInv(k, w, jobs, posted),
           ScalarsOK'
    PROVE  IInv'
<1>1. /\ DOMAIN wk' = Workers
      /\ wk' = [v \in Workers |-> wk'[v]]
      /\ wk'[w] = k
      /\ \A v \in Workers \ {w} : wk'[v] = wk[v]
  BY DEF IInv
<1>2. \A v \in Workers : WorkerInv(wk'[v], v, jobs, posted)
  BY <1>1 DEF IInv
<1> QED
  BY <1>1, <1>2 DEF IInv

\* A step of no worker that changes rows of the table.
LEMMA TableStep ==
    ASSUME IInv,
           jobs' \in [PS -> JobRow],
           \A p \in PS : RowStep(jobs[p], jobs'[p], NoWorker)
                      /\ RowConfirmed(jobs'[p], posted[p]),
           UNCHANGED <<wk, posted>>,
           ScalarsOK'
    PROVE  IInv'
<1>1. ASSUME NEW v \in Workers
      PROVE  WorkerInv(wk[v], v, jobs', posted)
  <2>1. WorkerInv(wk[v], v, jobs, posted) /\ posted \in [PS -> Nat]
    BY DEF IInv, ScalarsOK
  <2>2. wk[v].pc # "idle" => wk[v].job \in PS
    BY <2>1 DEF WorkerInv
  <2>3. wk[v].pc # "idle" =>
              /\ jobs[wk[v].job].pub # NONE => jobs'[wk[v].job].pub # NONE
              /\ LeasedBy(jobs'[wk[v].job], v) =>
                    LeasedBy(jobs[wk[v].job], v) /\ jobs'[wk[v].job].state = jobs[wk[v].job].state
              /\ LeasedBy(jobs[wk[v].job], v) /\ jobs[wk[v].job].state = "PUBLISHING" =>
                    LeasedBy(jobs'[wk[v].job], v) /\ jobs'[wk[v].job].state = "PUBLISHING"
              /\ posted[wk[v].job] >= posted[wk[v].job]
    BY <2>1, <2>2, WorkersAssumption DEF RowStep, LeasesKept
  <2> QED BY <2>1, <2>3, BystanderKept
<1> QED
  BY <1>1 DEF IInv, RowStep

-----------------------------------------------------------------------------
(* The worker's own part of IInv after it has moved on. *)

\* What the invariant says of a busy worker and of its row.
LEMMA Busy ==
    ASSUME IInv, NEW w \in Workers, wk[w].pc # "idle"
    PROVE  /\ wk[w] \in WorkerRecord
           /\ wk[w].job \in PS
           /\ RowInv(Mine(w))
           /\ Mine(w) \in JobRow
           /\ RowConfirmed(Mine(w), posted[wk[w].job])
           /\ WorkerInv(wk[w], w, jobs, posted)
BY DEF IInv, WorkerInv, Mine, RowInv

\* An idle worker satisfies its part of the invariant with any table.
LEMMA IdleInv ==
    ASSUME NEW w, NEW t, NEW n
    PROVE  WorkerInv(IdleWorker, w, t, n)
BY DEF WorkerInv, IdleWorker, WorkerRecord, NoAttempt

\* l is a label that w may move to with table t.
MayGoto(w, l, t) ==
    /\ l \in BusyPCs \ {"post"}
    /\ l \in PublicationPCs => wk[w].snap # NONE
    /\ l = "save" => t[wk[w].job].state = "VALIDATING"
    /\ l \in ConfirmedPCs => posted[wk[w].job] > 0
    /\ l \in AbsentPCs /\ PostsAreFenced /\ LeasedBy(t[wk[w].job], w) => posted[wk[w].job] = 0

\* A worker that moves to a label it may go to satisfies its part again.
LEMMA MoveInv ==
    ASSUME IInv, NEW w \in Workers, wk[w].pc # "idle", NEW t, NEW l, MayGoto(w, l, t),
           Mine(w).pub # NONE => t[wk[w].job].pub # NONE,
           NEW a \in [stage : BudgetStages \cup {NONE}, slot : Nat, epoch : Nat]
    PROVE  /\ WorkerInv([wk[w] EXCEPT !.pc = l], w, t, posted)
           /\ WorkerInv([wk[w] EXCEPT !.pc = l, !.att = a], w, t, posted)
<1>1. wk[w] \in WorkerRecord /\ WorkerInv(wk[w], w, jobs, posted)
  BY Busy
<1>2. ASSUME NEW k, k \in WorkerRecord, k.pc = l, k.job = wk[w].job, k.snap = wk[w].snap
      PROVE  WorkerInv(k, w, t, posted)
  BY <1>1, <1>2 DEF WorkerInv, MayGoto, Mine
<1>3. \A k : k = [wk[w] EXCEPT !.pc = l] \/ k = [wk[w] EXCEPT !.pc = l, !.att = a] =>
         k \in WorkerRecord /\ k.pc = l /\ k.job = wk[w].job /\ k.snap = wk[w].snap
  BY <1>1 DEF WorkerRecord, MayGoto
<1> QED
  BY <1>2, <1>3

-----------------------------------------------------------------------------
(* The shapes the worker's steps have. *)

\* Steps that leave Gerrit and the scope alone keep the types of the rest.
LEMMA ScalarsKept ==
    ASSUME IInv, UNCHANGED <<gerritVars, scopeVars>>, faults' \in Nat
    PROVE  ScalarsOK'
BY DEF IInv, ScalarsOK, gerritVars, scopeVars

\* The failure counter stays a number.
LEMMA FaultType ==
    ASSUME IInv
    PROVE  (Fault \/ NoFault => faults' \in Nat) /\ (StoreStep => faults' \in Nat)
BY DEF IInv, ScalarsOK, Fault, NoFault, StoreStep

\* The worker moves on and nothing else changes.
LEMMA QuietGoto ==
    ASSUME IInv, NEW w \in Workers, wk[w].pc # "idle", NEW l,
           Goto(w, l) \/ GotoFailed(w, l), MayGoto(w, l, jobs),
           UNCHANGED <<jobs, gerritVars, scopeVars>>, faults' \in Nat
    PROVE  IInv'
<1>1. ScalarsOK' /\ posted' = posted
  BY ScalarsKept DEF gerritVars
<1>2. NoAttempt \in [stage : BudgetStages \cup {NONE}, slot : Nat, epoch : Nat]
  BY DEF NoAttempt
<1>3. /\ WorkerInv([wk[w] EXCEPT !.pc = l], w, jobs, posted)
      /\ WorkerInv([wk[w] EXCEPT !.pc = l, !.att = NoAttempt], w, jobs, posted)
  BY <1>2, MoveInv DEF Mine
<1>4. \E k : wk' = [wk EXCEPT ![w] = k] /\ WorkerInv(k, w, jobs, posted)
  BY <1>3 DEF Goto, GotoFailed
<1> QED
  BY <1>1, <1>4, QuietStep

\* The worker drops its job without writing anything.
LEMMA QuietLeave ==
    ASSUME IInv, NEW w \in Workers, Leave(w),
           UNCHANGED <<jobs, gerritVars, scopeVars>>, faults' \in Nat
    PROVE  IInv'
<1>1. ScalarsOK' /\ posted' = posted
  BY ScalarsKept DEF gerritVars
<1> QED
  BY <1>1, IdleInv, QuietStep DEF Leave

\* The worker rewrites its row and moves on.
LEMMA RowGoto ==
    ASSUME IInv, NEW w \in Workers, wk[w].pc # "idle", NEW l, NEW row,
           Goto(w, l) \/ GotoFailed(w, l), MayGoto(w, l, jobs'),
           SetRow(wk[w].job, row), RowStep(Mine(w), row, w),
           RowConfirmed(row, posted[wk[w].job]),
           UNCHANGED <<gerritVars, scopeVars>>, faults' \in Nat
    PROVE  IInv'
<1>1. ScalarsOK' /\ posted' = posted
  BY ScalarsKept DEF gerritVars
<1>2. NoAttempt \in [stage : BudgetStages \cup {NONE}, slot : Nat, epoch : Nat]
  BY DEF NoAttempt
<1>3. wk[w].job \in PS /\ jobs'[wk[w].job] = row
  BY Busy DEF SetRow, IInv
<1>4. /\ WorkerInv([wk[w] EXCEPT !.pc = l], w, jobs', posted)
      /\ WorkerInv([wk[w] EXCEPT !.pc = l, !.att = NoAttempt], w, jobs', posted)
  BY <1>2, <1>3, MoveInv DEF RowStep
<1>5. \E k : wk' = [wk EXCEPT ![w] = k] /\ WorkerInv(k, w, jobs', posted)
  BY <1>4 DEF Goto, GotoFailed
<1> QED
  BY <1>1, <1>3, <1>5, ActorStep DEF SetRow, Mine

\* The worker rewrites its row and drops the job.
LEMMA RowLeave ==
    ASSUME IInv, NEW w \in Workers, wk[w].pc # "idle", NEW row,
           Leave(w), SetRow(wk[w].job, row), RowStep(Mine(w), row, w),
           RowConfirmed(row, posted[wk[w].job]),
           UNCHANGED <<gerritVars, scopeVars>>, faults' \in Nat
    PROVE  IInv'
<1>1. ScalarsOK' /\ posted' = posted
  BY ScalarsKept DEF gerritVars
<1>2. wk[w].job \in PS
  BY Busy
<1> QED
  BY <1>1, <1>2, IdleInv, ActorStep DEF SetRow, Mine, Leave

-----------------------------------------------------------------------------
(* Steps shared by both phases. *)

\* JobStore.transition, followed by any label that its target state permits.
LEMMA TransitStep ==
    ASSUME IInv, NEW w \in Workers, wk[w].pc # "idle",
           NEW target \in {"FETCHING", "REVIEWING", "VALIDATING", "PUBLISHING"},
           NEW next \in BusyPCs \ ({"post"} \cup AbsentPCs),
           next \in ConfirmedPCs => posted[wk[w].job] > 0,
           next = "save" => target = "VALIDATING",
           next \in PublicationPCs => wk[w].snap # NONE,
           Transit(w, target, next)
    PROVE  IInv'
<1> DEFINE row == TransitionRow(Mine(w), target)
           k == [wk[w] EXCEPT !.pc = next, !.st = target]
<1>1. /\ wk[w] \in WorkerRecord /\ wk[w].job \in PS /\ RowInv(Mine(w)) /\ Mine(w) \in JobRow
      /\ RowConfirmed(Mine(w), posted[wk[w].job]) /\ WorkerInv(wk[w], w, jobs, posted)
  BY Busy
<1>2. RowInv(row)
  BY <1>1, TransitionSound DEF Transit, Fenced, LeasedBy
<1>3. row.owner = Mine(w).owner /\ row.pub = Mine(w).pub /\ row.state = target
  BY <1>1, TransitionFields
<1>4. RowStep(Mine(w), row, w)
  BY <1>2, <1>3, FencedRowStep DEF Transit, Fenced, LeasedBy
<1>5. RowConfirmed(row, posted[wk[w].job])
  BY <1>1, <1>3 DEF RowConfirmed
<1>6. jobs'[wk[w].job] = row
  BY <1>1 DEF Transit, SetRow, IInv
<1>7. /\ k \in WorkerRecord /\ k.pc = next /\ k.job = wk[w].job /\ k.snap = wk[w].snap
  BY <1>1 DEF WorkerRecord, JobState
<1>8. WorkerInv(k, w, jobs', posted)
  <2> HIDE DEF k, row
  <2> QED BY <1>1, <1>3, <1>6, <1>7 DEF WorkerInv, Mine
<1>9. ScalarsOK' /\ posted' = posted
  BY ScalarsKept, FaultType DEF gerritVars, Transit, StoreStep
<1> QED
  <2>1. jobs' = [jobs EXCEPT ![wk[w].job] = row] /\ wk' = [wk EXCEPT ![w] = k]
    BY DEF Transit, SetRow
  <2> HIDE DEF k, row
  <2> QED BY <2>1, <1>1, <1>4, <1>5, <1>8, <1>9, ActorStep DEF Mine

\* _can_start_attempt either opens an attempt or fails the job.
LEMMA StartAttemptStep ==
    ASSUME IInv, NEW w \in Workers, wk[w].pc # "idle",
           NEW stage \in BudgetStages, NEW next, MayGoto(w, next, jobs), next # "save",
           StartAttempt(w, stage, next)
    PROVE  IInv'
<1> DEFINE free == FreeSlots(Mine(w), stage)
           slot == CHOOSE i \in free : TRUE
<1>1. /\ wk[w] \in WorkerRecord /\ wk[w].job \in PS /\ RowInv(Mine(w)) /\ Mine(w) \in JobRow
      /\ RowConfirmed(Mine(w), posted[wk[w].job]) /\ WorkerInv(wk[w], w, jobs, posted)
  BY Busy
<1>2. ScalarsOK' /\ posted' = posted /\ UNCHANGED <<gerritVars, scopeVars>> /\ faults' \in Nat
  BY ScalarsKept, FaultType DEF gerritVars, StartAttempt, StoreStep
<1>3. CASE free = {} /\ SetRow(wk[w].job, MarkFailedPermanentRow(Mine(w))) /\ Leave(w)
  <2>1. RowInv(MarkFailedPermanentRow(Mine(w)))
    BY <1>1, FailSound
  <2>2. RowStep(Mine(w), MarkFailedPermanentRow(Mine(w)), w)
    BY <1>1, <2>1, ReleasedFields, FencedRowStep DEF StartAttempt, Fenced
  <2>3. RowConfirmed(MarkFailedPermanentRow(Mine(w)), posted[wk[w].job])
    BY <1>1, ReleasedFields DEF RowConfirmed
  <2> QED BY <1>2, <1>3, <2>2, <2>3, RowLeave
<1>4. CASE /\ free # {}
           /\ SetRow(wk[w].job, StartAttemptRow(Mine(w), stage, slot))
           /\ wk' = [wk EXCEPT ![w].pc = next,
                               ![w].att = [stage |-> stage, slot |-> slot,
                                           epoch |-> Mine(w).epoch]]
  <2> DEFINE row == StartAttemptRow(Mine(w), stage, slot)
             a == [stage |-> stage, slot |-> slot, epoch |-> Mine(w).epoch]
             k == [wk[w] EXCEPT !.pc = next, !.att = a]
  <2>1. slot \in free
    BY <1>4
  <2>2. a \in [stage : BudgetStages \cup {NONE}, slot : Nat, epoch : Nat]
    BY <1>1, <2>1, BudgetAssumption DEF FreeSlots, Slots, JobRow
  <2>3. RowInv(row)
    BY <1>1, <2>1, StartAttemptSound
  <2>4. /\ row.owner = Mine(w).owner /\ row.live = Mine(w).live
        /\ row.state = Mine(w).state /\ row.pub = Mine(w).pub
    BY <1>1, StartAttemptFields
  <2>5. RowStep(Mine(w), row, w) /\ RowConfirmed(row, posted[wk[w].job])
    BY <1>1, <2>3, <2>4, QuietRowStep DEF RowConfirmed
  <2>6. jobs'[wk[w].job] = row
    BY <1>1, <1>4 DEF SetRow, IInv
  <2>7. MayGoto(w, next, jobs')
    BY <1>1, <2>4, <2>6 DEF MayGoto, LeasedBy, Mine
  <2>8. WorkerInv(k, w, jobs', posted)
    BY <1>1, <2>2, <2>4, <2>6, <2>7, MoveInv
  <2>9. jobs' = [jobs EXCEPT ![wk[w].job] = row] /\ wk' = [wk EXCEPT ![w] = k]
    BY <1>4 DEF SetRow
  <2> HIDE DEF row, k
  <2> QED BY <1>1, <1>2, <2>5, <2>8, <2>9, ActorStep DEF Mine
<1> QED
  BY <1>3, <1>4 DEF StartAttempt


\* Labels without a claim about publication or Gerrit are always open ...
LEMMA PlainMay ==
    ASSUME NEW w, NEW t, NEW l \in BusyPCs \ (PublicationPCs \cup {"save"})
    PROVE  MayGoto(w, l, t)
BY DEF MayGoto, PublicationPCs, ConfirmedPCs, AbsentPCs

\* ... and those that need an intent are open to a worker that has seen one.
LEMMA PublicationMay ==
    ASSUME NEW w, NEW t, wk[w].snap # NONE,
           NEW l \in BusyPCs \ (ConfirmedPCs \cup AbsentPCs \cup {"post", "save"})
    PROVE  MayGoto(w, l, t)
BY DEF MayGoto

\* A step that changes neither the lease nor the state of the row.
LEMMA QuietRowGoto ==
    ASSUME IInv, NEW w \in Workers, wk[w].pc # "idle", NEW l, l # "save", NEW row,
           Goto(w, l) \/ GotoFailed(w, l), MayGoto(w, l, jobs),
           SetRow(wk[w].job, row), RowInv(row),
           row.owner = Mine(w).owner, row.live = Mine(w).live, row.state = Mine(w).state,
           Mine(w).pub # NONE => row.pub # NONE,
           RowConfirmed(row, posted[wk[w].job]),
           UNCHANGED <<gerritVars, scopeVars>>, faults' \in Nat
    PROVE  IInv'
<1>1. wk[w].job \in PS
  BY Busy
<1>2. jobs'[wk[w].job] = row
  BY <1>1 DEF SetRow, IInv
<1>3. MayGoto(w, l, jobs')
  BY <1>2 DEF MayGoto, LeasedBy, Mine
<1>4. RowStep(Mine(w), row, w)
  BY QuietRowStep
<1> QED
  BY <1>3, <1>4, RowGoto

\* finish_attempt checks no lease and touches nothing but the attempt.
LEMMA FinishAttemptStep ==
    ASSUME IInv, NEW w \in Workers, wk[w].pc # "idle", NEW l, l # "save",
           MayGoto(w, l, jobs), FinishAttempt(w, l)
    PROVE  IInv'
<1> DEFINE row == UncountAttemptRow(Mine(w), wk[w].att)
<1>1. /\ RowInv(Mine(w)) /\ Mine(w) \in JobRow
      /\ RowConfirmed(Mine(w), posted[wk[w].job])
  BY Busy
<1>2. /\ RowInv(row) /\ row.owner = Mine(w).owner /\ row.live = Mine(w).live
      /\ row.state = Mine(w).state /\ row.pub = Mine(w).pub
  BY <1>1, UncountSound, UncountFields
<1>3. RowConfirmed(row, posted[wk[w].job])
  BY <1>1, <1>2 DEF RowConfirmed
<1>4. /\ SetRow(wk[w].job, row) /\ GotoFailed(w, l)
      /\ UNCHANGED <<gerritVars, scopeVars>> /\ faults' \in Nat
  BY FaultType DEF FinishAttempt, StoreStep
<1> HIDE DEF row
<1> QED
  BY <1>2, <1>3, <1>4, QuietRowGoto

\* A step of the lease holder that ends its work on the job.
LEMMA FencedLeave ==
    ASSUME IInv, NEW w \in Workers, wk[w].pc # "idle", Fenced(w), NEW row,
           Leave(w), SetRow(wk[w].job, row), RowInv(row), row.owner = NoWorker,
           row.pub = Mine(w).pub, row.state = "DONE" => row.pub = "POSTED",
           UNCHANGED <<gerritVars, scopeVars>>, faults' \in Nat
    PROVE  IInv'
<1>1. RowConfirmed(Mine(w), posted[wk[w].job])
  BY Busy
<1>2. RowConfirmed(row, posted[wk[w].job])
  BY <1>1 DEF RowConfirmed
<1>3. RowStep(Mine(w), row, w)
  BY FencedRowStep DEF Fenced
<1> QED
  BY <1>2, <1>3, RowLeave

\* mark_failed_permanent by the lease holder.
LEMMA FailStep ==
    ASSUME IInv, NEW w \in Workers, wk[w].pc # "idle", Fenced(w), Leave(w),
           SetRow(wk[w].job, MarkFailedPermanentRow(Mine(w))), StoreStep
    PROVE  IInv'
<1> DEFINE row == MarkFailedPermanentRow(Mine(w))
<1>1. RowInv(Mine(w)) /\ Mine(w) \in JobRow
  BY Busy
<1>2. RowInv(row) /\ row.owner = NoWorker /\ row.pub = Mine(w).pub /\ row.state = "FAILED_PERMANENT"
  BY <1>1, FailSound, ReleasedFields
<1>3. SetRow(wk[w].job, row) /\ UNCHANGED <<gerritVars, scopeVars>> /\ faults' \in Nat
  BY FaultType DEF StoreStep
<1> HIDE DEF row
<1> QED
  BY <1>2, <1>3, FencedLeave

\* schedule_retry by the lease holder.
LEMMA RetryStep ==
    ASSUME IInv, NEW w \in Workers, wk[w].pc # "idle", Fenced(w), Leave(w),
           Mine(w).state \in RetryTargets,
           SetRow(wk[w].job, ScheduleRetryRow(Mine(w), Mine(w).state)),
           UNCHANGED <<gerritVars, scopeVars>>, faults' \in Nat
    PROVE  IInv'
<1> DEFINE row == ScheduleRetryRow(Mine(w), Mine(w).state)
<1>1. RowInv(Mine(w)) /\ Mine(w) \in JobRow
  BY Busy
<1>2. RowInv(row) /\ row.owner = NoWorker /\ row.pub = Mine(w).pub /\ row.state = "RETRY_WAIT"
  BY <1>1, ScheduleRetrySound, ScheduleRetryFields
<1>3. SetRow(wk[w].job, row)
  OBVIOUS
<1> HIDE DEF row
<1> QED
  BY <1>2, <1>3, FencedLeave


\* Every step that both phases share, and every loss of a worker or a lease,
\* preserves the invariant.
LEMMA SharedSteps ==
    ASSUME IInv, NEW w \in Workers,
           \/ ScheduleRetry(w) \/ ProviderExhausted(w) \/ PermanentFailure(w)
           \/ MarkSuperseded(w) \/ LeaseRefused(w) \/ Abandon(w) \/ LeaseStall(w)
           \/ CallTransient(w) \/ CallPermanent(w)
    PROVE  IInv'
<1>1. CASE ScheduleRetry(w)
  <2>1. /\ wk[w].pc # "idle" /\ Fenced(w) /\ Leave(w) /\ StoreStep
        /\ Mine(w).state \in RetryTargets
    BY <1>1 DEF ScheduleRetry, RetryPCs
  <2>2. UNCHANGED <<gerritVars, scopeVars>> /\ faults' \in Nat
    BY <2>1, FaultType DEF StoreStep
  <2>3. \/ SetRow(wk[w].job, MarkFailedPermanentRow(Mine(w)))
        \/ SetRow(wk[w].job, ScheduleRetryRow(Mine(w), Mine(w).state))
    BY <1>1 DEF ScheduleRetry
  <2> QED BY <2>1, <2>2, <2>3, FailStep, RetryStep
<1>2. CASE ProviderExhausted(w)
  BY <1>2, FailStep DEF ProviderExhausted
<1>3. CASE PermanentFailure(w)
  BY <1>3, FailStep DEF PermanentFailure, At
<1>4. CASE MarkSuperseded(w)
  <2> DEFINE row == UncountAttemptRow(Mine(w), wk[w].att)
  <2>1. /\ wk[w].pc # "idle" /\ Leave(w) /\ UNCHANGED <<gerritVars, scopeVars>>
        /\ faults' \in Nat
    BY <1>4, FaultType DEF MarkSuperseded, At, StoreStep
  <2>2. /\ RowInv(Mine(w)) /\ Mine(w) \in JobRow
        /\ RowConfirmed(Mine(w), posted[wk[w].job])
    BY <2>1, Busy
  <2>3. /\ RowInv(row) /\ row \in JobRow /\ row.owner = Mine(w).owner /\ row.live = Mine(w).live
        /\ row.state = Mine(w).state /\ row.pub = Mine(w).pub
    BY <2>2, UncountSound, UncountFields DEF RowInv
  <2>4. SetRow(wk[w].job, IF Fenced(w) THEN MarkSupersededRow(row) ELSE row)
    BY <1>4 DEF MarkSuperseded
  <2> HIDE DEF row
  <2>5. CASE Fenced(w)
    <3>1. /\ RowInv(MarkSupersededRow(row)) /\ MarkSupersededRow(row).owner = NoWorker
          /\ MarkSupersededRow(row).pub = Mine(w).pub
          /\ MarkSupersededRow(row).state = "SUPERSEDED"
      BY <2>3, SupersedeSound, ReleasedFields
    <3> QED BY <2>1, <2>4, <2>5, <3>1, FencedLeave
  <2>6. CASE ~Fenced(w)
    <3>1. RowStep(Mine(w), row, w) /\ RowConfirmed(row, posted[wk[w].job])
      BY <2>2, <2>3, QuietRowStep DEF RowConfirmed
    <3> QED BY <2>1, <2>4, <2>6, <3>1, RowLeave
  <2> QED BY <2>5, <2>6
<1>5. CASE LeaseRefused(w)
  BY <1>5, FaultType, QuietLeave DEF LeaseRefused
<1>6. CASE Abandon(w)
  BY <1>6, FaultType, QuietLeave DEF Abandon
<1>7. CASE LeaseStall(w)
  <2> DEFINE row == [Mine(w) EXCEPT !.live = FALSE]
  <2>1. wk[w].pc \in BusyPCs /\ wk[w].pc # "idle" /\ Fenced(w)
    BY <1>7, BoundsAssumption DEF LeaseStall, BusyPCs, FencedPCs, UnfencedPCs
  <2>2. /\ RowInv(Mine(w)) /\ Mine(w) \in JobRow /\ wk[w].job \in PS
        /\ RowConfirmed(Mine(w), posted[wk[w].job]) /\ WorkerInv(wk[w], w, jobs, posted)
    BY <2>1, Busy
  <2>3. /\ RowInv(row) /\ row.owner = Mine(w).owner /\ ~row.live
        /\ row.state = Mine(w).state /\ row.pub = Mine(w).pub
    BY <2>2, ExpiredFields
  <2>4. RowStep(Mine(w), row, w) /\ RowConfirmed(row, posted[wk[w].job])
    BY <2>1, <2>2, <2>3, FencedRowStep DEF RowConfirmed, Fenced, LeasedBy
  <2>5. jobs' = [jobs EXCEPT ![wk[w].job] = row] /\ wk' = [wk EXCEPT ![w] = wk[w]]
    BY <1>7 DEF LeaseStall, SetRow, IInv
  <2>6. jobs'[wk[w].job] = row
    BY <2>2, <2>5 DEF IInv
  <2>7. PostsAreFenced => wk[w].pc # "post"
    BY <1>7 DEF LeaseStall, PostsAreFenced
  <2> HIDE DEF row
  <2>8. WorkerInv(wk[w], w, jobs', posted)
    BY <2>2, <2>3, <2>6, <2>7 DEF WorkerInv, LeasedBy, Mine
  <2>9. ScalarsOK' /\ posted' = posted
    BY <1>7, ScalarsKept, FaultType DEF gerritVars, LeaseStall
  <2> QED BY <2>2, <2>4, <2>5, <2>8, <2>9, ActorStep DEF Mine
<1>8. CASE CallTransient(w)
  <2>1. /\ wk[w].pc \in {"fetch", "lookup", "resolveLookup", "recheck", "preGet"}
        /\ wk[w].pc # "idle"
    BY <1>8 DEF CallTransient
  <2>2. WorkerInv(wk[w], w, jobs, posted)
    BY <2>1, Busy
  <2>3. MayGoto(w, TransientExit(wk[w].pc), jobs)
    BY <2>1, <2>2 DEF MayGoto, TransientExit, WorkerInv, BusyPCs, FencedPCs, UnfencedPCs,
                      PublicationPCs, ConfirmedPCs, AbsentPCs
  <2> QED BY <1>8, <2>1, <2>3, FaultType, QuietGoto DEF CallTransient
<1>9. CASE CallPermanent(w)
  <2>1. /\ wk[w].pc \in {"fetch", "lookup", "resolveLookup", "recheck", "preGet", "post"}
        /\ wk[w].pc # "idle"
    BY <1>9 DEF CallPermanent
  <2>2. WorkerInv(wk[w], w, jobs, posted)
    BY <2>1, Busy
  <2>3. MayGoto(w, PermanentExit(w), jobs)
    BY <2>1, <2>2 DEF MayGoto, PermanentExit, WorkerInv, BusyPCs, FencedPCs, UnfencedPCs,
                      PublicationPCs, ConfirmedPCs, AbsentPCs
  <2> QED BY <1>9, <2>1, <2>3, FaultType, QuietGoto DEF CallPermanent
<1> QED
  BY <1>1, <1>2, <1>3, <1>4, <1>5, <1>6, <1>7, <1>8, <1>9

-----------------------------------------------------------------------------
(* The review phase. *)

\* Every step of _process_review preserves the invariant.
LEMMA ReviewSteps ==
    ASSUME IInv, NEW w \in Workers,
           \/ ToFetching(w) \/ FetchGate(w) \/ Fetch(w) \/ Fetched(w) \/ ToReviewing(w)
           \/ Probe(w) \/ ProbeFails(w) \/ ReviewGate(w) \/ Review(w)
           \/ (\E provider \in BOOLEAN : ReviewTransient(w, provider))
           \/ ReviewPermanent(w) \/ Reprobe(w) \/ ReprobeFails(w) \/ Promote(w)
           \/ Save(w) \/ FinishReview(w)
    PROVE  IInv'
<1> DEFINE plain == BusyPCs \ (PublicationPCs \cup {"save"})
<1>0. /\ {"fetchGate", "fetch", "fail", "supersede", "fetched", "toReviewing", "probe",
          "promote", "reviewGate", "review", "reprobe", "reprobeProvider", "retryReview",
          "retryRecovery", "retryProvider", "finishReview"} \subseteq plain
      /\ plain \subseteq BusyPCs \ ({"post"} \cup AbsentPCs)
      /\ plain \cap ConfirmedPCs = {}
  BY DEF BusyPCs, FencedPCs, UnfencedPCs, PublicationPCs, AbsentPCs, ConfirmedPCs
<1>may. \A l \in plain : l # "save" /\ MayGoto(w, l, jobs) /\ MayGoto(w, l, jobs')
  BY PlainMay
<1>pub. \A l \in plain : l \notin PublicationPCs /\ l \notin ConfirmedPCs
                      /\ l \in BusyPCs \ ({"post"} \cup AbsentPCs)
  BY <1>0
<1> HIDE DEF plain
<1>1. CASE ToFetching(w)
  BY <1>1, <1>0, <1>pub, <1>may, TransitStep DEF ToFetching, At
<1>2. CASE FetchGate(w)
  BY <1>2, <1>0, <1>may, StartAttemptStep DEF FetchGate, At, BudgetStages
<1>3. CASE Fetch(w)
  <2>1. \E l \in {"fail", "supersede", "fetched"} : Goto(w, l) \/ GotoFailed(w, l)
    BY <1>3 DEF Fetch
  <2>2. /\ wk[w].pc # "idle" /\ UNCHANGED <<jobs, gerritVars, scopeVars>> /\ faults' \in Nat
    BY <1>3, FaultType DEF Fetch, At, StoreStep
  <2> QED BY <1>0, <1>may, <2>1, <2>2, QuietGoto
<1>4. CASE Fetched(w)
  BY <1>4, <1>0, <1>may, FinishAttemptStep DEF Fetched, At
<1>5. CASE ToReviewing(w)
  BY <1>5, <1>0, <1>pub, <1>may, TransitStep DEF ToReviewing, At
<1>6. ASSUME NEW l \in plain, Goto(w, l) \/ GotoFailed(w, l), wk[w].pc # "idle",
             UNCHANGED <<gerritVars, scopeVars>>, faults' \in Nat,
             NEW b \in BOOLEAN, NEW row,
             row = [Mine(w) EXCEPT !.bound = b] \/ row = [Mine(w) EXCEPT !.progress = b],
             SetRow(wk[w].job, row)
      PROVE  IInv'
  <2>1. RowInv(Mine(w)) /\ RowConfirmed(Mine(w), posted[wk[w].job])
    BY <1>6, Busy
  <2>2. /\ RowInv(row) /\ row.owner = Mine(w).owner /\ row.live = Mine(w).live
        /\ row.state = Mine(w).state /\ row.pub = Mine(w).pub
    BY <1>6, <2>1, FlagFields
  <2>3. RowConfirmed(row, posted[wk[w].job])
    BY <2>1, <2>2 DEF RowConfirmed
  <2> QED BY <1>6, <1>may, <2>2, <2>3, QuietRowGoto
<1>7. CASE Probe(w)
  <2>1. \E l \in {"promote", "reviewGate"} : Goto(w, l)
    BY <1>7 DEF Probe
  <2>2. /\ wk[w].pc # "idle" /\ UNCHANGED <<gerritVars, scopeVars>> /\ faults' \in Nat
        /\ SetRow(wk[w].job, [Mine(w) EXCEPT !.bound = TRUE])
    BY <1>7, FaultType DEF Probe, At, StoreStep
  <2> QED BY <1>0, <1>6, <2>1, <2>2
<1>8. CASE ProbeFails(w)
  <2>1. \E l \in {"retryReview", "retryRecovery", "fail"} : Goto(w, l)
    BY <1>8 DEF ProbeFails
  <2>2. /\ wk[w].pc # "idle" /\ UNCHANGED <<gerritVars, scopeVars>> /\ faults' \in Nat
        /\ SetRow(wk[w].job, [Mine(w) EXCEPT !.bound = TRUE])
    BY <1>8, FaultType DEF ProbeFails, At
  <2> QED BY <1>0, <1>6, <2>1, <2>2
<1>9. CASE ReviewGate(w)
  BY <1>9, <1>0, <1>may, StartAttemptStep DEF ReviewGate, At, BudgetStages
<1>10. CASE Review(w)
  <2>1. /\ wk[w].pc # "idle" /\ UNCHANGED <<gerritVars, scopeVars>> /\ faults' \in Nat
        /\ Goto(w, "promote")
        /\ SetRow(wk[w].job, [Mine(w) EXCEPT !.progress = TRUE]) \/ UNCHANGED jobs
    BY <1>10, FaultType DEF Review, At, StoreStep
  <2> QED BY <1>0, <1>6, <1>may, <2>1, QuietGoto
<1>11. ASSUME NEW provider \in BOOLEAN, ReviewTransient(w, provider)
       PROVE  IInv'
  <2>1. /\ wk[w].pc # "idle" /\ UNCHANGED <<gerritVars, scopeVars>> /\ faults' \in Nat
        /\ \E l \in {"reprobe", "reprobeProvider"} : GotoFailed(w, l)
    BY <1>11, FaultType DEF ReviewTransient, At
  <2>2. RowInv(Mine(w)) /\ Mine(w) \in JobRow /\ RowConfirmed(Mine(w), posted[wk[w].job])
    BY <2>1, Busy
  <2>3. PICK saved \in BOOLEAN :
           LET row == [Mine(w) EXCEPT !.progress = @ \/ saved]
           IN  SetRow(wk[w].job, IF provider THEN UncountAttemptRow(row, wk[w].att) ELSE row)
    BY <1>11 DEF ReviewTransient
  <2> DEFINE b == Mine(w).progress \/ saved
             row == [Mine(w) EXCEPT !.progress = b]
             new == IF provider THEN UncountAttemptRow(row, wk[w].att) ELSE row
  <2>4. b \in BOOLEAN
    OBVIOUS
  <2>5. /\ RowInv(row) /\ row \in JobRow /\ row.owner = Mine(w).owner /\ row.live = Mine(w).live
        /\ row.state = Mine(w).state /\ row.pub = Mine(w).pub
    BY <2>2, <2>4, FlagFields
  <2>6. SetRow(wk[w].job, new)
    BY <2>3
  <2> HIDE DEF row, b
  <2>7. /\ RowInv(new) /\ new.owner = Mine(w).owner /\ new.live = Mine(w).live
        /\ new.state = Mine(w).state /\ new.pub = Mine(w).pub
    BY <2>5, UncountSound, UncountFields
  <2> HIDE DEF new
  <2>8. RowConfirmed(new, posted[wk[w].job])
    BY <2>2, <2>7 DEF RowConfirmed
  <2> QED BY <1>0, <1>may, <2>1, <2>6, <2>7, <2>8, QuietRowGoto
<1>12. CASE ReviewPermanent(w)
  BY <1>12, <1>0, <1>may, FaultType, QuietGoto DEF ReviewPermanent, At
<1>13. CASE Reprobe(w)
  <2>1. \E l \in {"promote", "retryReview", "retryProvider"} : Goto(w, l)
    BY <1>13 DEF Reprobe
  <2>2. /\ wk[w].pc # "idle" /\ UNCHANGED <<jobs, gerritVars, scopeVars>> /\ faults' \in Nat
    BY <1>13, FaultType DEF Reprobe, StoreStep
  <2> QED BY <1>0, <1>may, <2>1, <2>2, QuietGoto
<1>14. CASE ReprobeFails(w)
  BY <1>14, <1>0, <1>may, FaultType, QuietGoto DEF ReprobeFails, At
<1>15. CASE Promote(w)
  <2>1. "save" \in BusyPCs \ ({"post"} \cup AbsentPCs) /\ "save" \notin ConfirmedPCs
        /\ "save" \notin PublicationPCs
    BY DEF BusyPCs, FencedPCs, AbsentPCs, ConfirmedPCs, PublicationPCs
  <2> QED BY <1>15, <2>1, TransitStep DEF Promote, At
<1>16. CASE Save(w)
  <2> DEFINE row == SaveReviewResultRow(Mine(w))
  <2>1. /\ wk[w].pc # "idle" /\ wk[w].pc = "save" /\ Fenced(w) /\ SetRow(wk[w].job, row)
        /\ UNCHANGED <<gerritVars, scopeVars>> /\ faults' \in Nat
        /\ Leave(w) \/ Goto(w, "finishReview")
    BY <1>16, FaultType DEF Save, At, StoreStep
  <2>2. /\ RowInv(Mine(w)) /\ Mine(w) \in JobRow /\ RowConfirmed(Mine(w), posted[wk[w].job])
        /\ WorkerInv(wk[w], w, jobs, posted)
    BY <2>1, Busy
  <2>3. Mine(w).state = "VALIDATING"
    BY <2>1, <2>2 DEF WorkerInv, Fenced, Mine
  <2>4. /\ RowInv(row) /\ row.owner = NoWorker /\ row.pub = Mine(w).pub
        /\ row.state = "READY_TO_PUBLISH"
    BY <2>2, <2>3, SaveSound, ReleasedFields
  <2> HIDE DEF row
  <2>5. RowStep(Mine(w), row, w) /\ RowConfirmed(row, posted[wk[w].job])
    BY <2>1, <2>2, <2>4, FencedRowStep DEF Fenced, RowConfirmed
  <2> QED BY <1>0, <1>may, <2>1, <2>5, RowLeave, RowGoto
<1>17. CASE FinishReview(w)
  <2> DEFINE row == UncountAttemptRow(Mine(w), wk[w].att)
  <2>1. /\ wk[w].pc # "idle" /\ Leave(w) /\ SetRow(wk[w].job, row)
        /\ UNCHANGED <<gerritVars, scopeVars>> /\ faults' \in Nat
    BY <1>17, FaultType DEF FinishReview, At, StoreStep
  <2>2. RowInv(Mine(w)) /\ Mine(w) \in JobRow /\ RowConfirmed(Mine(w), posted[wk[w].job])
    BY <2>1, Busy
  <2>3. /\ RowInv(row) /\ row.owner = Mine(w).owner /\ row.live = Mine(w).live
        /\ row.state = Mine(w).state /\ row.pub = Mine(w).pub
    BY <2>2, UncountSound, UncountFields
  <2> HIDE DEF row
  <2>4. RowStep(Mine(w), row, w) /\ RowConfirmed(row, posted[wk[w].job])
    BY <2>2, <2>3, QuietRowStep DEF RowConfirmed
  <2> QED BY <2>1, <2>4, RowLeave
<1> QED
  BY <1>1, <1>2, <1>3, <1>4, <1>5, <1>7, <1>8, <1>9, <1>10, <1>11, <1>12, <1>13, <1>14,
     <1>15, <1>16, <1>17

-----------------------------------------------------------------------------
(* The publish phase. *)

\* The branches of _process_publish on the publication status are open.
LEMMA EntryMay ==
    ASSUME NEW w, NEW t, NEW status \in PublicationStatus \cup {NONE},
           wk[w].snap = status, status = "POSTED" => posted[wk[w].job] > 0
    PROVE  MayGoto(w, PublishEntry(status), t) /\ MayGoto(w, ResolveEntry(status), t)
BY DEF MayGoto, PublishEntry, ResolveEntry, PublicationStatus, NONE, BusyPCs, FencedPCs,
       UnfencedPCs, PublicationPCs, ConfirmedPCs, AbsentPCs

\* Which labels of the publish phase are in which class.
LEMMA PublishLabels ==
    /\ {"latest", "toPublishing", "supersede", "fail"}
          \subseteq BusyPCs \ (PublicationPCs \cup {"save"})
    /\ {"lookup", "resolveLookup", "failPublication", "retryPublish", "ambiguousAgain",
        "supersede", "fail"}
          \subseteq BusyPCs \ (ConfirmedPCs \cup AbsentPCs \cup {"post", "save"})
    /\ AbsentPCs \subseteq PublicationPCs /\ ConfirmedPCs \subseteq PublicationPCs
    /\ AbsentPCs \cap {"post", "save"} = {} /\ ConfirmedPCs \cap {"post", "save"} = {}
    /\ AbsentPCs \cap ConfirmedPCs = {}
    /\ PublicationPCs \subseteq BusyPCs
BY DEF BusyPCs, FencedPCs, UnfencedPCs, PublicationPCs, AbsentPCs, ConfirmedPCs

\* From one step after the failed lookup to another.
LEMMA AbsentMay ==
    ASSUME IInv, NEW w \in Workers, wk[w].pc \in AbsentPCs, NEW l \in AbsentPCs
    PROVE  MayGoto(w, l, jobs)
<1>1. wk[w].pc # "idle"
  BY DEF AbsentPCs
<1>2. WorkerInv(wk[w], w, jobs, posted)
  BY <1>1, Busy
<1> QED
  BY <1>1, <1>2, PublishLabels DEF MayGoto, WorkerInv

\* ensure_current_revision changes nothing but the worker's position.
LEMMA RevisionCheckStep ==
    ASSUME IInv, NEW w \in Workers, wk[w].pc \in AbsentPCs, NEW next \in AbsentPCs,
           RevisionCheck(w, next)
    PROVE  IInv'
<1>1. wk[w].pc # "idle" /\ wk[w].snap # NONE
  BY PublishLabels, Busy DEF AbsentPCs, WorkerInv
<1>2. \A l \in {"failPublication", "supersede"} : MayGoto(w, l, jobs)
  BY <1>1, PublicationMay, PublishLabels
<1>3. MayGoto(w, next, jobs)
  BY AbsentMay
<1>4. \E l \in {"failPublication", "supersede", next} : Goto(w, l) \/ GotoFailed(w, l)
  BY DEF RevisionCheck
<1>5. UNCHANGED <<jobs, gerritVars, scopeVars>> /\ faults' \in Nat
  BY FaultType DEF RevisionCheck, StoreStep
<1> QED
  BY <1>1, <1>2, <1>3, <1>4, <1>5, QuietGoto

\* The POST reaches Gerrit, or it does not (or, LatePosts, not yet).
LEMMA PostStep ==
    ASSUME IInv, NEW w \in Workers, wk[w].pc = "post", NEW l \in {"posted", "ambiguousAgain"},
           Goto(w, l) \/ GotoFailed(w, l),
           UNCHANGED jobs, posted' \in [PS -> Nat], ScalarsOK',
           \A q \in PS \ {wk[w].job} : posted'[q] = posted[q],
           posted'[wk[w].job] \in {posted[wk[w].job], posted[wk[w].job] + 1},
           l = "posted" => posted'[wk[w].job] = posted[wk[w].job] + 1
    PROVE  IInv'
<1> DEFINE p == wk[w].job
<1>1. /\ wk[w] \in WorkerRecord /\ p \in PS /\ WorkerInv(wk[w], w, jobs, posted)
      /\ posted \in [PS -> Nat]
  BY Busy DEF IInv, ScalarsOK
<1>2. \A q \in PS : posted'[q] >= posted[q]
  BY <1>1
<1>3. \A q \in PS : RowInv(jobs[q]) /\ RowConfirmed(jobs[q], posted'[q])
  BY <1>1, <1>2 DEF IInv, RowConfirmed
<1>4. PICK k : /\ wk' = [wk EXCEPT ![w] = k]
               /\ k \in WorkerRecord /\ k.pc = l /\ k.job = p /\ k.snap = wk[w].snap
  <2>1. l \in BusyPCs
    BY DEF BusyPCs, UnfencedPCs
  <2>2. /\ [wk[w] EXCEPT !.pc = l] \in WorkerRecord
        /\ [wk[w] EXCEPT !.pc = l, !.att = NoAttempt] \in WorkerRecord
    BY <1>1, <2>1 DEF WorkerRecord, NoAttempt
  <2>3. CASE Goto(w, l)
    <3> DEFINE k == [wk[w] EXCEPT !.pc = l]
    <3>1. wk' = [wk EXCEPT ![w] = k]
      BY <2>3 DEF Goto
    <3>2. k.pc = l /\ k.job = p /\ k.snap = wk[w].snap
      BY <1>1 DEF WorkerRecord
    <3> QED BY <2>2, <3>1, <3>2
  <2>4. CASE GotoFailed(w, l)
    <3> DEFINE k == [wk[w] EXCEPT !.pc = l, !.att = NoAttempt]
    <3>1. wk' = [wk EXCEPT ![w] = k]
      BY <2>4 DEF GotoFailed
    <3>2. k.pc = l /\ k.job = p /\ k.snap = wk[w].snap
      BY <1>1 DEF WorkerRecord
    <3> QED BY <2>2, <3>1, <3>2
  <2> QED BY <2>3, <2>4
<1>5. WorkerInv(k, w, jobs, posted')
  <2>1. wk[w].snap # NONE /\ jobs[p].pub # NONE
    BY <1>1 DEF WorkerInv, PublicationPCs
  <2>2. wk[w].snap = "POSTED" => posted[p] > 0
    BY <1>1 DEF WorkerInv
  <2>3. l \notin AbsentPCs /\ l # "post" /\ l # "save" /\ (l \in ConfirmedPCs <=> l = "posted")
    BY DEF AbsentPCs, ConfirmedPCs
  <2>4. l \in ConfirmedPCs \/ wk[w].snap = "POSTED" => posted'[p] > 0
    BY <1>1, <1>2, <2>2, <2>3
  <2> HIDE DEF p
  <2> QED BY <1>1, <1>4, <2>1, <2>3, <2>4 DEF WorkerInv
<1>6. ASSUME NEW v \in Workers \ {w}
      PROVE  WorkerInv(wk[v], v, jobs, posted')
  <2>1. WorkerInv(wk[v], v, jobs, posted)
    BY DEF IInv
  <2>2. wk[v].pc # "idle" => wk[v].job \in PS
    BY <2>1 DEF WorkerInv
  <2>3. PostsAreFenced => LeasedBy(jobs[p], w)
    BY <1>1 DEF WorkerInv
  <2>4. wk[v].pc # "idle" /\ PostsAreFenced /\ LeasedBy(jobs[wk[v].job], v)
          => wk[v].job # p
    BY <2>3 DEF LeasedBy
  <2>5. wk[v].pc # "idle" =>
           /\ posted'[wk[v].job] >= posted[wk[v].job]
           /\ PostsAreFenced /\ LeasedBy(jobs[wk[v].job], v)
                => posted'[wk[v].job] = posted[wk[v].job]
    BY <1>2, <2>2, <2>4
  <2> HIDE DEF p
  <2> QED BY <1>1, <2>1, <2>5, BystanderKept
<1>7. /\ DOMAIN wk' = Workers /\ wk' = [v \in Workers |-> wk'[v]]
      /\ wk'[w] = k /\ \A v \in Workers \ {w} : wk'[v] = wk[v]
  BY <1>4 DEF IInv
<1>8. \A v \in Workers : WorkerInv(wk'[v], v, jobs, posted')
  BY <1>5, <1>6, <1>7
<1> QED
  BY <1>3, <1>7, <1>8 DEF IInv

\* Every step of _process_publish preserves the invariant.
LEMMA PublishSteps ==
    ASSUME IInv, NEW w \in Workers,
           \/ PublishStep(w) \/ PostTransient(w) \/ VoteRetry(w)
    PROVE  IInv'
<1> USE DEF At
<1>1. CASE Load(w)
  <2> DEFINE k == [wk[w] EXCEPT !.pc = "latest", !.snap = Mine(w).pub]
  <2>1. /\ wk[w].pc # "idle" /\ UNCHANGED <<jobs, gerritVars, scopeVars>> /\ faults' \in Nat
        /\ wk' = [wk EXCEPT ![w] = k]
    BY <1>1, FaultType DEF Load, StoreStep
  <2>2. /\ wk[w] \in WorkerRecord /\ Mine(w) \in JobRow /\ wk[w].job \in PS
        /\ RowConfirmed(Mine(w), posted[wk[w].job])
    BY <2>1, Busy
  <2>3. k \in WorkerRecord /\ k.pc = "latest" /\ k.job = wk[w].job /\ k.snap = Mine(w).pub
    BY <2>2, PublishLabels DEF WorkerRecord, JobRow
  <2> HIDE DEF k
  <2>4. WorkerInv(k, w, jobs, posted)
    BY <2>2, <2>3, PublishLabels DEF WorkerInv, RowConfirmed, Mine, ConfirmedPCs, AbsentPCs
  <2>5. ScalarsOK' /\ UNCHANGED <<jobs, posted>>
    BY <2>1, ScalarsKept DEF gerritVars
  <2> QED BY <2>1, <2>4, <2>5, QuietStep
<1>2. CASE Latest(w)
  <2>1. /\ wk[w].pc # "idle" /\ UNCHANGED <<jobs, gerritVars, scopeVars>> /\ faults' \in Nat
    BY <1>2, FaultType DEF Latest, StoreStep
  <2>2. wk[w] \in WorkerRecord /\ WorkerInv(wk[w], w, jobs, posted)
    BY <2>1, Busy
  <2>3. /\ wk[w].snap \in PublicationStatus \cup {NONE}
        /\ wk[w].snap = "POSTED" => posted[wk[w].job] > 0
    BY <2>1, <2>2 DEF WorkerInv, WorkerRecord
  <2>4. /\ MayGoto(w, PublishEntry(wk[w].snap), jobs)
        /\ MayGoto(w, ResolveEntry(wk[w].snap), jobs)
        /\ MayGoto(w, "toPublishing", jobs)
    BY <2>3, EntryMay, PlainMay, PublishLabels
  <2>5. \/ Goto(w, PublishEntry(wk[w].snap))
        \/ Goto(w, ResolveEntry(wk[w].snap))
        \/ Goto(w, "toPublishing")
    BY <1>2 DEF Latest
  <2> QED BY <2>1, <2>4, <2>5, QuietGoto
<1>3. CASE ToPublishing(w)
  <2>1. wk[w].pc # "idle"
    BY <1>3 DEF ToPublishing
  <2>2. wk[w] \in WorkerRecord /\ WorkerInv(wk[w], w, jobs, posted)
    BY <2>1, Busy
  <2>3. /\ wk[w].snap \in PublicationStatus \cup {NONE}
        /\ wk[w].snap = "POSTED" => posted[wk[w].job] > 0
    BY <2>1, <2>2 DEF WorkerInv, WorkerRecord
  <2>4. /\ PublishEntry(wk[w].snap) \in BusyPCs \ ({"post"} \cup AbsentPCs)
        /\ PublishEntry(wk[w].snap) # "save"
        /\ PublishEntry(wk[w].snap) \in ConfirmedPCs => posted[wk[w].job] > 0
        /\ PublishEntry(wk[w].snap) \in PublicationPCs => wk[w].snap # NONE
    BY <2>3 DEF PublishEntry, PublicationStatus, NONE, BusyPCs, FencedPCs,
                UnfencedPCs, PublicationPCs, ConfirmedPCs, AbsentPCs
  <2> QED BY <1>3, <2>1, <2>4, TransitStep DEF ToPublishing
<1>4. CASE Begin(w)
  <2> DEFINE row == BeginPublicationRow(Mine(w))
             k == [wk[w] EXCEPT !.pc = PublishEntry(row.pub), !.snap = row.pub]
  <2>1. /\ wk[w].pc # "idle" /\ Fenced(w) /\ Mine(w).state = "PUBLISHING"
        /\ jobs' = [jobs EXCEPT ![wk[w].job] = row] /\ wk' = [wk EXCEPT ![w] = k]
        /\ UNCHANGED <<gerritVars, scopeVars>> /\ faults' \in Nat
    BY <1>4, FaultType DEF Begin, StoreStep, SetRow
  <2>2. /\ wk[w] \in WorkerRecord /\ RowInv(Mine(w)) /\ Mine(w) \in JobRow /\ wk[w].job \in PS
        /\ RowConfirmed(Mine(w), posted[wk[w].job])
    BY <2>1, Busy
  <2>3. /\ RowInv(row) /\ row.owner = Mine(w).owner /\ row.state = Mine(w).state
        /\ row.pub = IF Mine(w).pub = NONE THEN "PENDING" ELSE Mine(w).pub
    BY <2>1, <2>2, BeginSound, BeginFields
  <2>4. row.pub \in PublicationStatus /\ row.pub # NONE
    BY <2>2, <2>3 DEF JobRow, PublicationStatus, NONE
  <2>5. RowStep(Mine(w), row, w) /\ RowConfirmed(row, posted[wk[w].job])
    BY <2>1, <2>2, <2>3, <2>4, FencedRowStep DEF Fenced, LeasedBy, RowConfirmed
  <2> HIDE DEF row
  <2>6. PublishEntry(row.pub) \in {"complete", "fail", "startReconcile"}
        /\ (PublishEntry(row.pub) = "complete" => row.pub = "POSTED")
    BY <2>4 DEF PublishEntry, PublicationStatus, NONE
  <2>7. /\ k \in WorkerRecord /\ k.pc = PublishEntry(row.pub) /\ k.job = wk[w].job
        /\ k.snap = row.pub
    BY <2>2, <2>4, <2>6 DEF WorkerRecord, BusyPCs, FencedPCs, UnfencedPCs
  <2>8. jobs'[wk[w].job] = row
    BY <2>1, <2>2 DEF IInv
  <2> HIDE DEF k
  <2>9. WorkerInv(k, w, jobs', posted)
    BY <2>2, <2>4, <2>5, <2>6, <2>7, <2>8
       DEF WorkerInv, RowConfirmed, AbsentPCs, ConfirmedPCs
  <2>10. ScalarsOK' /\ posted' = posted
    BY <2>1, ScalarsKept DEF gerritVars
  <2> QED BY <2>1, <2>2, <2>5, <2>9, <2>10, ActorStep DEF Mine
<1>5. ASSUME wk[w].pc \in PublicationPCs
      PROVE  /\ wk[w].pc # "idle" /\ wk[w].snap # NONE /\ Mine(w).pub # NONE
             /\ RowInv(Mine(w)) /\ Mine(w) \in JobRow /\ wk[w].job \in PS
             /\ RowConfirmed(Mine(w), posted[wk[w].job])
             /\ WorkerInv(wk[w], w, jobs, posted)
             /\ \A l \in {"lookup", "resolveLookup", "failPublication", "retryPublish",
                          "ambiguousAgain", "supersede", "fail"} : MayGoto(w, l, jobs)
  <2>1. wk[w].pc # "idle"
    BY <1>5 DEF PublicationPCs
  <2>2. /\ WorkerInv(wk[w], w, jobs, posted) /\ wk[w].job \in PS
        /\ RowInv(Mine(w)) /\ Mine(w) \in JobRow
        /\ RowConfirmed(Mine(w), posted[wk[w].job])
    BY <2>1, Busy
  <2>3. wk[w].snap # NONE /\ Mine(w).pub # NONE
    BY <1>5, <2>1, <2>2 DEF WorkerInv, Mine
  <2> QED BY <2>1, <2>2, <2>3, PublicationMay, PublishLabels
<1>6. CASE StartReconcile(w)
  <2>1. \E l \in {"lookup", "resolveLookup"} : Goto(w, l)
    BY <1>6 DEF StartReconcile
  <2>2. /\ wk[w].pc \in PublicationPCs
        /\ UNCHANGED <<jobs, gerritVars, scopeVars>> /\ faults' \in Nat
    BY <1>6, FaultType DEF StartReconcile, StoreStep, PublicationPCs
  <2> QED BY <1>5, <2>1, <2>2, QuietGoto
<1>7. CASE Lookup(w) \/ ResolveLookup(w)
  <2>1. /\ wk[w].pc \in PublicationPCs
        /\ UNCHANGED <<jobs, gerritVars, scopeVars>> /\ faults' \in Nat
    BY <1>7, FaultType DEF Lookup, ResolveLookup, StoreStep, PublicationPCs
  <2>2. \/ posted[wk[w].job] > 0 /\ Goto(w, "complete")
        \/ ~(posted[wk[w].job] > 0) /\ Goto(w, "recheck")
        \/ Goto(w, "supersede")
    BY <1>7 DEF Lookup, ResolveLookup
  <2>3. posted[wk[w].job] \in Nat
    BY <1>5, <2>1 DEF IInv, ScalarsOK
  <2>4. posted[wk[w].job] > 0 => MayGoto(w, "complete", jobs)
    BY <1>5, <2>1 DEF MayGoto, BusyPCs, UnfencedPCs, AbsentPCs
  <2>5. ~(posted[wk[w].job] > 0) => MayGoto(w, "recheck", jobs)
    BY <1>5, <2>1, <2>3 DEF MayGoto, BusyPCs, UnfencedPCs, ConfirmedPCs
  <2> QED BY <1>5, <2>1, <2>2, <2>4, <2>5, QuietGoto
<1>8. CASE Recheck(w)
  BY <1>8, RevisionCheckStep DEF Recheck, AbsentPCs
<1>9. CASE PreGet(w)
  BY <1>9, RevisionCheckStep DEF PreGet, AbsentPCs
<1>10. CASE PublishGate(w)
  <2>1. wk[w].pc \in AbsentPCs /\ "markAmbiguous" \in AbsentPCs /\ wk[w].pc # "idle"
    BY <1>10 DEF PublishGate, AbsentPCs
  <2> QED BY <1>10, <2>1, AbsentMay, StartAttemptStep DEF PublishGate, BudgetStages
<1>11. ASSUME wk[w].pc \in PublicationPCs, NEW l, l # "save", Goto(w, l), MayGoto(w, l, jobs),
              NEW status \in {"AMBIGUOUS", "FAILED"}, StoreStep,
              SetRow(wk[w].job, MarkPublicationRow(Mine(w), status))
       PROVE  IInv'
  <2> DEFINE row == MarkPublicationRow(Mine(w), status)
  <2>1. /\ RowInv(row) /\ row.owner = Mine(w).owner /\ row.live = Mine(w).live
        /\ row.state = Mine(w).state /\ row.pub = status
    BY <1>5, <1>11, MarkSound, MarkFields DEF PublicationStatus
  <2>2. /\ SetRow(wk[w].job, row) /\ UNCHANGED <<gerritVars, scopeVars>> /\ faults' \in Nat
    BY <1>11, FaultType DEF StoreStep
  <2> HIDE DEF row
  <2>3. RowConfirmed(row, posted[wk[w].job]) /\ row.pub # NONE
    BY <1>5, <1>11, <2>1 DEF RowConfirmed, NONE
  <2> QED BY <1>5, <1>11, <2>1, <2>2, <2>3, QuietRowGoto
<1>12. CASE MarkAmbiguous(w)
  <2>1. /\ wk[w].pc \in PublicationPCs /\ StoreStep
        /\ SetRow(wk[w].job, MarkPublicationRow(Mine(w), "AMBIGUOUS"))
        /\ \/ wk[w].pc = "markAmbiguous" /\ Goto(w, "preGet")
           \/ Goto(w, "retryPublish")
    BY <1>12 DEF MarkAmbiguous, PublicationPCs
  <2>2. wk[w].pc = "markAmbiguous" => MayGoto(w, "preGet", jobs)
    BY AbsentMay DEF AbsentPCs
  <2> QED BY <1>5, <1>11, <2>1, <2>2
<1>13. CASE FailPublication(w)
  <2>1. /\ wk[w].pc \in PublicationPCs /\ StoreStep /\ Goto(w, "fail")
        /\ SetRow(wk[w].job, MarkPublicationRow(Mine(w), "FAILED"))
    BY <1>13 DEF FailPublication, PublicationPCs
  <2> QED BY <1>5, <1>11, <2>1
<1>14. CASE Guard(w)
  <2>1. /\ wk[w].pc \in PublicationPCs /\ wk[w].pc \in AbsentPCs
        /\ UNCHANGED <<jobs, gerritVars, scopeVars>> /\ faults' \in Nat
    BY <1>14, FaultType DEF Guard, StoreStep, PublicationPCs, AbsentPCs
  <2>2. \/ Leave(w)
        \/ Goto(w, "supersede")
        \/ Mine(w).state = "PUBLISHING" /\ Fenced(w) /\ Goto(w, "post")
    BY <1>14 DEF Guard
  <2>3. CASE Leave(w)
    BY <2>1, <2>3, QuietLeave
  <2>4. CASE Goto(w, "supersede")
    BY <1>5, <2>1, <2>4, QuietGoto
  <2>5. CASE Mine(w).state = "PUBLISHING" /\ Fenced(w) /\ Goto(w, "post")
    <3> DEFINE k == [wk[w] EXCEPT !.pc = "post"]
    <3>1. wk[w] \in WorkerRecord /\ WorkerInv(wk[w], w, jobs, posted) /\ wk[w].pc # "idle"
      BY <1>5, <2>1, Busy
    <3>2. /\ k \in WorkerRecord /\ k.pc = "post" /\ k.job = wk[w].job /\ k.snap = wk[w].snap
      BY <3>1 DEF WorkerRecord, BusyPCs, UnfencedPCs
    <3>3. wk' = [wk EXCEPT ![w] = k]
      BY <2>5 DEF Goto
    <3> HIDE DEF k
    <3>4. WorkerInv(k, w, jobs, posted)
      BY <1>5, <2>1, <2>5, <3>1, <3>2 DEF WorkerInv, Fenced, Mine, ConfirmedPCs, AbsentPCs
    <3>5. ScalarsOK' /\ UNCHANGED <<jobs, posted>>
      BY <2>1, ScalarsKept DEF gerritVars
    <3> QED BY <3>3, <3>4, <3>5, QuietStep
  <2> QED BY <2>2, <2>3, <2>4, <2>5
<1>15. CASE Post(w)
  <2>1. wk[w].pc = "post" /\ wk[w].pc # "idle" /\ wk[w].pc \in PublicationPCs
    BY <1>15 DEF Post, PublicationPCs
  <2>2. /\ wk[w].job \in PS /\ posted \in [PS -> Nat]
        /\ PostsAreFenced => posted[wk[w].job] = 0
    BY <1>5, <2>1 DEF IInv, ScalarsOK, WorkerInv
  <2>3. /\ posted' = [posted EXCEPT ![wk[w].job] = @ + 1] /\ Goto(w, "posted")
        /\ UNCHANGED <<jobs, current, chStatus, inFlight, scopeVars, faults>>
    BY <1>15 DEF Post
  <2>4. /\ posted' \in [PS -> Nat] /\ posted'[wk[w].job] = posted[wk[w].job] + 1
        /\ \A q \in PS \ {wk[w].job} : posted'[q] = posted[q]
    BY <2>2, <2>3
  <2>5. ScalarsOK'
    BY <2>2, <2>3, <2>4 DEF IInv, ScalarsOK, scopeVars
  <2> QED BY <2>1, <2>3, <2>4, <2>5, PostStep
<1>16. CASE PostTransient(w)
  <2>1. wk[w].pc = "post" /\ wk[w].pc # "idle" /\ wk[w].pc \in PublicationPCs
    BY <1>16 DEF PostTransient, PublicationPCs
  <2>2. /\ wk[w].job \in PS /\ posted \in [PS -> Nat] /\ inFlight \in [PS -> Nat]
        /\ PostsAreFenced => posted[wk[w].job] = 0
    BY <1>5, <2>1 DEF IInv, ScalarsOK, WorkerInv
  <2>3. /\ GotoFailed(w, "ambiguousAgain") /\ faults' \in Nat
        /\ UNCHANGED <<jobs, current, chStatus, scopeVars>>
    BY <1>16, FaultType DEF PostTransient
  <2>4. \/ posted' = [posted EXCEPT ![wk[w].job] = @ + 1] /\ UNCHANGED inFlight
        \/ UNCHANGED <<posted, inFlight>>
        \/ LatePosts /\ inFlight' = [inFlight EXCEPT ![wk[w].job] = @ + 1] /\ UNCHANGED posted
    BY <1>16 DEF PostTransient
  <2>5. /\ posted' \in [PS -> Nat] /\ inFlight' \in [PS -> Nat]
        /\ posted'[wk[w].job] \in {posted[wk[w].job], posted[wk[w].job] + 1}
        /\ \A q \in PS \ {wk[w].job} : posted'[q] = posted[q]
        /\ PostsAreFenced => UNCHANGED inFlight
    BY <2>2, <2>4 DEF PostsAreFenced
  <2>6. ScalarsOK'
    BY <2>2, <2>3, <2>5 DEF IInv, ScalarsOK, scopeVars
  <2> QED BY <2>1, <2>3, <2>5, <2>6, PostStep
<1>17. CASE Posted(w)
  <2>1. wk[w].pc = "posted" /\ wk[w].pc \in PublicationPCs /\ FinishAttempt(w, "complete")
    BY <1>17 DEF Posted, PublicationPCs
  <2>2. MayGoto(w, "complete", jobs)
    BY <1>5, <2>1 DEF MayGoto, WorkerInv, BusyPCs, UnfencedPCs, AbsentPCs, ConfirmedPCs
  <2> QED BY <1>5, <2>1, <2>2, FinishAttemptStep
<1>18. CASE CompleteWithVote(w)
  <2>1. /\ wk[w].pc = "complete" /\ wk[w].pc \in PublicationPCs
        /\ UNCHANGED <<gerritVars, scopeVars>> /\ faults' \in Nat
    BY <1>18, FaultType DEF CompleteWithVote, StoreStep, PublicationPCs
  <2>2. posted[wk[w].job] > 0
    BY <1>5, <2>1 DEF WorkerInv, ConfirmedPCs
  <2>3. CASE Fenced(w) /\ Mine(w).state = "PUBLISHING"
             /\ SetRow(wk[w].job, CompletePublicationRow(Mine(w), TRUE)) /\ Goto(w, "vote")
    <3> DEFINE row == CompletePublicationRow(Mine(w), TRUE)
    <3>1. /\ RowInv(row) /\ row.owner = Mine(w).owner /\ row.pub = "POSTED"
      BY <1>5, <2>1, <2>3, CompleteSound, DeferDoneFields
    <3>2. SetRow(wk[w].job, row)
      BY <2>3
    <3> HIDE DEF row
    <3>3. RowStep(Mine(w), row, w) /\ RowConfirmed(row, posted[wk[w].job])
      BY <2>2, <2>3, <3>1, FencedRowStep DEF Fenced, LeasedBy, RowConfirmed, NONE
    <3>4. MayGoto(w, "vote", jobs')
      BY <1>5, <2>1, <2>2 DEF MayGoto, BusyPCs, FencedPCs, AbsentPCs
    <3> QED BY <1>5, <2>1, <2>3, <3>2, <3>3, <3>4, RowGoto
  <2>4. CASE UNCHANGED jobs /\ Leave(w)
    BY <2>1, <2>4, QuietLeave
  <2> QED BY <1>18, <2>3, <2>4 DEF CompleteWithVote
<1>19. CASE CompleteLegacy(w)
  <2>1. /\ wk[w].pc = "complete" /\ wk[w].pc \in PublicationPCs /\ Leave(w)
        /\ UNCHANGED <<gerritVars, scopeVars>> /\ faults' \in Nat
    BY <1>19, FaultType DEF CompleteLegacy, StoreStep, PublicationPCs
  <2>2. posted[wk[w].job] > 0
    BY <1>5, <2>1 DEF WorkerInv, ConfirmedPCs
  <2>3. CASE /\ \/ Mine(w).state = "SUPERSEDED"
                \/ Mine(w).state = "PUBLISHING" /\ Mine(w).owner \in {w, NoWorker}
             /\ SetRow(wk[w].job, CompletePublicationRow(Mine(w), FALSE))
    <3> DEFINE row == CompletePublicationRow(Mine(w), FALSE)
    <3>1. /\ RowInv(row) /\ row.owner = NoWorker /\ row.pub = "POSTED"
      BY <1>5, <2>1, CompleteSound, ReleasedFields
    <3>2. SetRow(wk[w].job, row)
      BY <2>3
    <3> HIDE DEF row
    <3>3. \A v \in Workers \ {w} : ~(LeasedBy(Mine(w), v) /\ Mine(w).state = "PUBLISHING")
      BY <2>3, WorkersAssumption DEF LeasedBy
    <3>4. RowStep(Mine(w), row, w) /\ RowConfirmed(row, posted[wk[w].job])
      BY <2>2, <3>1, <3>3, ReleasedRowStep DEF RowConfirmed, NONE
    <3> QED BY <1>5, <2>1, <3>2, <3>4, RowLeave
  <2>4. CASE UNCHANGED jobs
    BY <2>1, <2>4, QuietLeave
  <2> QED BY <1>19, <2>3, <2>4 DEF CompleteLegacy
<1>20. CASE Vote(w)
  <2>1. /\ wk[w].pc \in PublicationPCs /\ Leave(w) /\ Fenced(w)
        /\ UNCHANGED <<gerritVars, scopeVars>> /\ faults' \in Nat
    BY <1>20, FaultType DEF Vote, StoreStep, PublicationPCs
  <2>2. CASE Mine(w).pub = "POSTED" /\ SetRow(wk[w].job, FinishVoteRow(Mine(w)))
    <3> DEFINE row == FinishVoteRow(Mine(w))
    <3>1. RowInv(row) /\ row.owner = NoWorker /\ row.pub = Mine(w).pub
      BY <1>5, <2>1, FinishVoteSound, ReleasedFields
    <3>2. SetRow(wk[w].job, row)
      BY <2>2
    <3> HIDE DEF row
    <3> QED BY <1>5, <2>1, <2>2, <3>1, <3>2, FencedLeave
  <2>3. CASE UNCHANGED jobs
    BY <2>1, <2>3, QuietLeave
  <2> QED BY <1>20, <2>2, <2>3 DEF Vote
<1>21. CASE VoteRetry(w)
  <2>1. /\ wk[w].pc \in PublicationPCs /\ Leave(w) /\ Fenced(w) /\ Mine(w).state = "PUBLISHING"
        /\ SetRow(wk[w].job, ScheduleRetryRow(Mine(w), Mine(w).state))
        /\ UNCHANGED <<gerritVars, scopeVars>> /\ faults' \in Nat
    BY <1>21, FaultType DEF VoteRetry, PublicationPCs
  <2>2. Mine(w).state \in RetryTargets
    BY <2>1 DEF RetryTargets
  <2> QED BY <1>5, <2>1, <2>2, RetryStep
<1> QED
  BY <1>1, <1>2, <1>3, <1>4, <1>6, <1>7, <1>8, <1>9, <1>10, <1>12, <1>13, <1>14, <1>15,
     <1>16, <1>17, <1>18, <1>19, <1>20, <1>21 DEF PublishStep

-----------------------------------------------------------------------------
(* The environment: Gerrit, events, the operator and the clock. *)

\* The initial table, with or without a legacy job, satisfies the invariant.
LEMMA InitIInv == Init => IInv
<1> SUFFICES ASSUME Init PROVE IInv
  OBVIOUS
<1> DEFINE legacy == [AbsentRow EXCEPT !.state = "READY_TO_PUBLISH", !.result = TRUE]
<1>1. RowInv(legacy) /\ RowConfirmed(legacy, 0)
  BY AbsentSound DEF RowInv, AbsentRow, JobRow, JobState, NothingSpent, ABSENT, NONE,
       InPublishPhase, NeedsPublishRecovery, RetryTargets, PublishStates, RowConfirmed
<1>2. RowInv(AbsentRow) /\ RowConfirmed(AbsentRow, 0)
  BY AbsentSound DEF RowConfirmed, AbsentRow, ABSENT, NONE
<1> HIDE DEF legacy
<1>3. \A p \in PS : jobs[p] \in {legacy, AbsentRow} /\ posted[p] = 0
  BY DEF Init, legacy
<1>4. jobs \in [PS -> JobRow]
  <2>1. legacy \in JobRow /\ AbsentRow \in JobRow
    BY <1>1, <1>2 DEF RowInv
  <2> QED BY <2>1 DEF Init, legacy
<1>5. \A p \in PS : RowInv(jobs[p]) /\ RowConfirmed(jobs[p], posted[p])
  BY <1>1, <1>2, <1>3
<1>6. /\ DOMAIN wk = Workers
      /\ wk = [w \in Workers |-> wk[w]]
      /\ \A w \in Workers : WorkerInv(wk[w], w, jobs, posted)
  BY IdleInv DEF Init
<1>7. ScalarsOK
  BY BoundsAssumption DEF Init, ScalarsOK, ChangeStatus, StartMode
<1> QED BY <1>4, <1>5, <1>6, <1>7 DEF IInv

\* Uploads, closing and restoring touch neither the table nor the workers; a
\* late commit only adds a comment, which no confirmed worker or row minds.
LEMMA GerritSteps == IInv /\ GerritStep => IInv'
<1> SUFFICES ASSUME IInv, GerritStep PROVE IInv'
  OBVIOUS
<1>1. CASE Upload \/ ChangeCloses \/ Restore
  <2>1. UNCHANGED <<jobs, wk, posted, inFlight, scopeVars, faults>>
    BY <1>1 DEF Upload, ChangeCloses, Restore
  <2>2. current' \in PS \cup {0} /\ chStatus' \in ChangeStatus
    BY <1>1, MaxPSAssumption
       DEF IInv, ScalarsOK, Upload, ChangeCloses, Restore, ChangeStatus, PS
  <2>3. ScalarsOK'
    BY <2>1, <2>2 DEF IInv, ScalarsOK, scopeVars
  <2> QED BY <2>1, <2>3 DEF IInv
<1>2. ASSUME NEW p \in PS, CommitLatePost(p)
      PROVE  IInv'
  <2>1. /\ UNCHANGED <<jobs, wk, current, chStatus, scopeVars, faults>>
        /\ inFlight[p] > 0
        /\ posted \in [PS -> Nat] /\ inFlight \in [PS -> Nat]
    BY <1>2 DEF CommitLatePost, IInv, ScalarsOK
  <2>2. ~PostsAreFenced
    BY <2>1 DEF IInv, ScalarsOK
  <2>3. /\ posted' \in [PS -> Nat] /\ inFlight' \in [PS -> Nat]
        /\ \A q \in PS : posted'[q] >= posted[q]
    BY <1>2, <2>1 DEF CommitLatePost
  <2>4. ScalarsOK'
    BY <2>1, <2>2, <2>3 DEF IInv, ScalarsOK, scopeVars
  <2>5. \A q \in PS : RowConfirmed(jobs[q], posted'[q])
    BY <2>1, <2>3 DEF IInv, RowConfirmed
  <2>6. ASSUME NEW v \in Workers
        PROVE  WorkerInv(wk[v], v, jobs, posted')
    <3>1. WorkerInv(wk[v], v, jobs, posted)
      BY DEF IInv
    <3>2. wk[v].pc # "idle" => posted'[wk[v].job] >= posted[wk[v].job]
      BY <2>3, <3>1 DEF WorkerInv
    <3> QED BY <2>1, <2>2, <2>3, <3>1, <3>2, BystanderKept
  <2> QED BY <2>1, <2>4, <2>5, <2>6 DEF IInv
<1> QED BY <1>1, <1>2 DEF GerritStep

\* Two row changes in one transaction keep what each of them keeps.
LEMMA RowStepTransitive ==
    ASSUME NEW r, NEW s, NEW u, NEW w, RowStep(r, s, w), RowStep(s, u, w)
    PROVE  RowStep(r, u, w)
BY DEF RowStep, LeasesKept

\* Inserting or reviving a row touches no leased one.
LEMMA EnqueuedStep ==
    ASSUME NEW r, RowInv(r), NEW preCutoff \in BOOLEAN, NEW revive \in BOOLEAN, NEW n
    PROVE  /\ RowStep(r, EnqueuedRow(r, preCutoff, revive), NoWorker)
           /\ RowConfirmed(r, n) => RowConfirmed(EnqueuedRow(r, preCutoff, revive), n)
<1> DEFINE s == EnqueuedRow(r, preCutoff, revive)
<1>1. RowInv(s)
  BY EnqueuedSound
<1>2. /\ s.owner = r.owner /\ s.live = r.live /\ s.pub = r.pub
      /\ s.state # r.state => /\ r.state \in {ABSENT, "SKIPPED_SCOPE"}
                              /\ s.state # "DONE"
  BY DEF EnqueuedRow, Exists, RowInv, JobRow
<1>3. r.live => r.state \notin {ABSENT, "SKIPPED_SCOPE"}
  BY DEF RowInv, RetryTargets, ABSENT
<1> HIDE DEF s
<1>4. RowStep(r, s, NoWorker)
  BY <1>1, <1>2, <1>3 DEF RowStep, LeasesKept, LeasedBy
<1>5. RowConfirmed(r, n) => RowConfirmed(s, n)
  BY <1>2 DEF RowConfirmed
<1> QED BY <1>4, <1>5 DEF s

\* The ordering rule supersedes rows, but never one with an unresolved POST.
LEMMA OrderingStep ==
    ASSUME NEW t \in [PS -> JobRow], NEW p \in PS, NEW q \in PS, RowInv(t[q]), NEW n
    PROVE  /\ ApplyPatchsetOrdering(t, p) \in [PS -> JobRow]
           /\ RowStep(t[q], ApplyPatchsetOrdering(t, p)[q], NoWorker)
           /\ RowConfirmed(t[q], n) => RowConfirmed(ApplyPatchsetOrdering(t, p)[q], n)
<1> DEFINE late(r) == Released([r EXCEPT !.state = "SUPERSEDED"])
           u == ApplyPatchsetOrdering(t, p)
<1>1. "SUPERSEDED" \in JobState
  BY DEF JobState
<1>2. \A r \in JobRow : MarkSupersededRow(r) \in JobRow /\ late(r) \in JobRow
  BY <1>1 DEF JobRow, MarkSupersededRow, Released
<1>3. /\ late(t[q]).owner = NoWorker /\ late(t[q]).pub = t[q].pub
      /\ late(t[q]).state = "SUPERSEDED"
  BY DEF JobRow, Released
<1>4. RowInv(late(t[q]))
  BY LateSupersedeSound
<1>5. /\ RowInv(MarkSupersededRow(t[q]))
      /\ MarkSupersededRow(t[q]).owner = NoWorker
      /\ MarkSupersededRow(t[q]).pub = t[q].pub
      /\ MarkSupersededRow(t[q]).state = "SUPERSEDED"
  BY SupersedeSound, ReleasedFields
<1> HIDE DEF late
<1>6. u \in [PS -> JobRow]
  <2>1. \/ u = t
        \/ u = [t EXCEPT ![p] = late(t[p])]
        \/ u = [x \in PS |-> IF x < p /\ Pending(t[x]) /\ ~NeedsPublishRecovery(t[x])
                             THEN MarkSupersededRow(t[x]) ELSE t[x]]
    BY DEF ApplyPatchsetOrdering, late
  <2> HIDE DEF u
  <2> QED BY <1>2, <2>1
<1>7. \/ u[q] = t[q]
      \/ ~NeedsPublishRecovery(t[q]) /\ u[q] \in {late(t[q]), MarkSupersededRow(t[q])}
  BY DEF ApplyPatchsetOrdering, late
<1> HIDE DEF u
<1>8. CASE u[q] = t[q]
  BY <1>6, <1>8, QuietRowStep DEF u
<1>9. CASE ~NeedsPublishRecovery(t[q]) /\ u[q] \in {late(t[q]), MarkSupersededRow(t[q])}
  <2>1. /\ RowInv(u[q]) /\ u[q].owner = NoWorker /\ u[q].pub = t[q].pub
        /\ u[q].state = "SUPERSEDED"
    BY <1>3, <1>4, <1>5, <1>9
  <2>2. RowStep(t[q], u[q], NoWorker)
    BY <1>9, <2>1, ReleasedRowStep DEF NeedsPublishRecovery
  <2>3. RowConfirmed(t[q], n) => RowConfirmed(u[q], n)
    BY <2>1 DEF RowConfirmed
  <2> QED BY <1>6, <2>2, <2>3 DEF u
<1> QED BY <1>7, <1>8, <1>9

\* An event may insert, revive and supersede rows, all in one transaction.
LEMMA EventSteps == IInv /\ EventStep => IInv'
<1> SUFFICES ASSUME IInv, NEW p \in PS, NEW dated \in BOOLEAN, Enqueue(p, dated)
             PROVE  IInv'
  BY DEF EventStep
<1> DEFINE preCutoff == dated /\ startMode = "FROM_NOW" /\ p <= cutoff
           revive == enabled /\ startMode = "INCLUDE_OPEN"
           e == EnqueuedRow(jobs[p], preCutoff, revive)
           entered == [jobs EXCEPT ![p] = e]
<1>1. /\ jobs' = ApplyPatchsetOrdering(entered, p)
      /\ UNCHANGED <<wk, gerritVars, scopeVars, faults>>
  BY DEF Enqueue
<1>2. preCutoff \in BOOLEAN /\ revive \in BOOLEAN
  BY DEF IInv, ScalarsOK
<1> HIDE DEF preCutoff, revive
<1>3. RowStep(jobs[p], e, NoWorker) /\ RowConfirmed(e, posted[p])
  BY <1>2, EnqueuedStep DEF IInv
<1> HIDE DEF e
<1>4. entered \in [PS -> JobRow]
  BY <1>3 DEF IInv, RowStep, RowInv
<1>5. ASSUME NEW q \in PS
      PROVE  RowStep(jobs[q], entered[q], NoWorker) /\ RowConfirmed(entered[q], posted[q])
  <2>1. CASE q = p
    BY <1>3, <2>1 DEF IInv
  <2>2. CASE q # p
    BY <2>2, QuietRowStep DEF IInv
  <2> QED BY <2>1, <2>2
<1> HIDE DEF entered
<1>6. ASSUME NEW q \in PS
      PROVE  /\ jobs' \in [PS -> JobRow]
             /\ RowStep(entered[q], jobs'[q], NoWorker)
             /\ RowConfirmed(jobs'[q], posted[q])
  <2>1. RowInv(entered[q]) /\ RowConfirmed(entered[q], posted[q])
    BY <1>5 DEF RowStep
  <2> QED BY <1>1, <1>4, <2>1, OrderingStep
<1>7. \A q \in PS : RowStep(jobs[q], jobs'[q], NoWorker) /\ RowConfirmed(jobs'[q], posted[q])
  BY <1>5, <1>6, RowStepTransitive
<1>8. jobs' \in [PS -> JobRow]
  BY <1>6
<1>9. ScalarsOK' /\ UNCHANGED <<wk, posted>>
  BY <1>1, ScalarsKept DEF gerritVars, IInv, ScalarsOK
<1> QED BY <1>7, <1>8, <1>9, TableStep

\* Skipping pre-cutoff jobs touches no leased row and none with an intent.
LEMMA SkipStep ==
    ASSUME IInv, NEW q \in PS
    PROVE  /\ SkipPreCutoffJobs(jobs) \in [PS -> JobRow]
           /\ RowStep(jobs[q], SkipPreCutoffJobs(jobs)[q], NoWorker)
           /\ RowConfirmed(SkipPreCutoffJobs(jobs)[q], posted[q])
<1> DEFINE skipped(r) == Released([r EXCEPT !.state = "SKIPPED_SCOPE", !.retry = NONE])
           u == SkipPreCutoffJobs(jobs)
<1>1. "SKIPPED_SCOPE" \in JobState
  BY DEF JobState
<1>2. \A r \in JobRow : skipped(r) \in JobRow
  BY <1>1 DEF JobRow, Released
<1>3. jobs \in [PS -> JobRow] /\ RowInv(jobs[q]) /\ RowConfirmed(jobs[q], posted[q])
  BY DEF IInv
<1>4. /\ skipped(jobs[q]).owner = NoWorker /\ skipped(jobs[q]).pub = jobs[q].pub
      /\ skipped(jobs[q]).state = "SKIPPED_SCOPE"
  BY <1>3 DEF JobRow, Released
<1>5. ASSUME jobs[q].pub = NONE
      PROVE  RowInv(skipped(jobs[q]))
  <2> DEFINE s == skipped(jobs[q])
  <2>1. s = Released([jobs[q] EXCEPT !.state = "SKIPPED_SCOPE", !.retry = NONE])
    OBVIOUS
  <2> HIDE DEF s
  <2>2. RowInv(s)
    BY <1>3, <1>5, <2>1, SkippedSound
  <2> QED BY <2>2 DEF s
<1>6. u = [x \in PS |-> IF Pending(jobs[x]) /\ ~jobs[x].live /\ jobs[x].pub = NONE
                         THEN skipped(jobs[x]) ELSE jobs[x]]
  BY DEF SkipPreCutoffJobs
<1> HIDE DEF skipped, u
<1>7. u \in [PS -> JobRow]
  BY <1>2, <1>3, <1>6
<1>8. CASE Pending(jobs[q]) /\ ~jobs[q].live /\ jobs[q].pub = NONE
  <2>1. u[q] = skipped(jobs[q])
    BY <1>6, <1>8
  <2>2. RowStep(jobs[q], u[q], NoWorker)
    BY <1>4, <1>5, <1>8, <2>1, ReleasedRowStep DEF LeasedBy
  <2>3. RowConfirmed(u[q], posted[q])
    BY <1>3, <1>4, <2>1 DEF RowConfirmed
  <2> QED BY <1>7, <2>2, <2>3 DEF u
<1>9. CASE ~(Pending(jobs[q]) /\ ~jobs[q].live /\ jobs[q].pub = NONE)
  <2>1. u[q] = jobs[q]
    BY <1>6, <1>9
  <2> QED BY <1>3, <1>7, <2>1, QuietRowStep DEF u
<1> QED BY <1>8, <1>9

\* Requeue and the scope commands never touch a leased row.
LEMMA OperatorSteps == IInv /\ OperatorStep => IInv'
<1> SUFFICES ASSUME IInv, OperatorStep PROVE IInv'
  OBVIOUS
<1>1. ASSUME NEW p \in PS, Requeue(p)
      PROVE  IInv'
  <2> DEFINE r == jobs[p]
             s == RequeueRow(r)
  <2>1. /\ r.state = "FAILED_PERMANENT" /\ jobs' = [jobs EXCEPT ![p] = s]
        /\ UNCHANGED <<wk, gerritVars, scopeVars, faults>>
    BY <1>1 DEF Requeue, SetRow
  <2>2. RowInv(r) /\ r \in JobRow /\ RowConfirmed(r, posted[p]) /\ jobs \in [PS -> JobRow]
    BY DEF IInv
  <2>3. RowInv(s)
    BY <2>2, RequeueSound
  <2>4. /\ s.owner = NoWorker
        /\ r.pub # NONE => s.pub # NONE
        /\ s.state = "DONE" \/ s.pub = "POSTED" => r.pub = "POSTED"
    BY <2>2 DEF RequeueRow, Released, JobRow, NONE
  <2>5. RowStep(r, s, NoWorker)
    BY <2>1, <2>3, <2>4, ReleasedRowStep
  <2>6. RowConfirmed(s, posted[p])
    BY <2>2, <2>4 DEF RowConfirmed
  <2> HIDE DEF s
  <2>7. jobs' \in [PS -> JobRow]
    BY <2>1, <2>2, <2>3 DEF RowInv
  <2>8. ASSUME NEW q \in PS
        PROVE  RowStep(jobs[q], jobs'[q], NoWorker) /\ RowConfirmed(jobs'[q], posted[q])
    <3>1. CASE q = p
      BY <2>1, <2>2, <2>5, <2>6, <3>1
    <3>2. CASE q # p
      BY <2>1, <2>2, <3>2, QuietRowStep DEF IInv
    <3> QED BY <3>1, <3>2
  <2>9. ScalarsOK' /\ UNCHANGED <<wk, posted>>
    BY <2>1, ScalarsKept DEF gerritVars, IInv, ScalarsOK
  <2> QED BY <2>7, <2>8, <2>9, TableStep
<1>2. ASSUME UNCHANGED <<wk, gerritVars, faults>>,
             jobs' = jobs \/ jobs' = SkipPreCutoffJobs(jobs),
             enabled' \in BOOLEAN, startMode' \in StartMode \cup {NONE},
             cutoff' \in PS \cup {0}
      PROVE  IInv'
  <2>1. ScalarsOK' /\ UNCHANGED <<wk, posted>>
    BY <1>2 DEF IInv, ScalarsOK, gerritVars
  <2>2. CASE jobs' = jobs
    BY <2>1, <2>2 DEF IInv
  <2>3. CASE jobs' = SkipPreCutoffJobs(jobs)
    <3>1. \A q \in PS : RowStep(jobs[q], jobs'[q], NoWorker)
                     /\ RowConfirmed(jobs'[q], posted[q])
      BY <2>3, SkipStep
    <3>2. jobs' \in [PS -> JobRow]
      BY <2>3, SkipStep, MaxPSAssumption DEF PS
    <3> QED BY <2>1, <3>1, <3>2, TableStep
  <2> QED BY <1>2, <2>2, <2>3
<1>3. current \in PS \cup {0} /\ enabled \in BOOLEAN /\ startMode \in StartMode \cup {NONE}
      /\ cutoff \in PS \cup {0}
  BY DEF IInv, ScalarsOK
<1>4. ASSUME NEW mode \in StartMode, SetScope(mode)
      PROVE  /\ jobs' = jobs \/ jobs' = SkipPreCutoffJobs(jobs)
             /\ startMode' \in StartMode \cup {NONE}
             /\ cutoff' \in PS \cup {0}
  BY <1>3, <1>4 DEF SetScope
<1>5. ASSUME NEW mode \in StartMode, NEW on \in BOOLEAN, UpsertProject(mode, on)
      PROVE  IInv'
  BY <1>2, <1>4, <1>5 DEF UpsertProject
<1>6. ASSUME NEW mode \in StartMode, SetProjectReviewStartMode(mode)
      PROVE  IInv'
  BY <1>2, <1>3, <1>4, <1>6 DEF SetProjectReviewStartMode
<1>7. ASSUME NEW on \in BOOLEAN, SetProjectEnabled(on)
      PROVE  IInv'
  <2>1. "FROM_NOW" \in StartMode
    BY DEF StartMode
  <2> QED BY <1>2, <1>3, <1>4, <1>7, <2>1 DEF SetProjectEnabled
<1> QED BY <1>1, <1>5, <1>6, <1>7 DEF OperatorStep

\* An expired lease belongs to nobody who works on the job.
LEMMA LeaseExpireStep ==
    ASSUME IInv, NEW p \in PS, LeaseExpire(p)
    PROVE  IInv'
<1> DEFINE r == jobs[p]
           s == [r EXCEPT !.live = FALSE]
           v == r.owner
<1>1. /\ jobs' = [jobs EXCEPT ![p] = s]
      /\ UNCHANGED <<wk, gerritVars, scopeVars, faults>>
      /\ \A w \in Workers : v = w => wk[w].job # p
  BY DEF LeaseExpire, SetRow
<1>2. RowInv(r) /\ r \in JobRow /\ RowConfirmed(r, posted[p]) /\ jobs \in [PS -> JobRow]
  BY DEF IInv
<1>3. RowInv(s) /\ s.owner = r.owner /\ ~s.live /\ s.state = r.state /\ s.pub = r.pub
  BY <1>2, ExpiredFields
<1> HIDE DEF s
<1>4. RowStep(r, s, v) /\ RowConfirmed(s, posted[p])
  BY <1>2, <1>3 DEF RowStep, LeasesKept, LeasedBy, RowConfirmed
<1>5. ScalarsOK' /\ UNCHANGED <<wk, posted>>
  BY <1>1, ScalarsKept DEF gerritVars, IInv, ScalarsOK
<1>6. v \in Workers \cup {NoWorker}
  BY <1>2 DEF JobRow
<1>7. CASE v \in Workers
  <2>1. wk' = [wk EXCEPT ![v] = wk[v]]
    BY <1>1, <1>7 DEF IInv
  <2>2. wk[v].pc # "idle" => wk[v].job \in PS /\ wk[v].job # p
    BY <1>1, <1>7 DEF IInv, WorkerInv
  <2>3. wk[v].pc # "idle" => jobs'[wk[v].job] = jobs[wk[v].job]
    BY <1>1, <1>2, <2>2
  <2>4. WorkerInv(wk[v], v, jobs, posted)
    BY <1>7 DEF IInv
  <2>5. WorkerInv(wk[v], v, jobs', posted)
    BY <2>3, <2>4 DEF WorkerInv
  <2> HIDE DEF v
  <2> QED BY <1>1, <1>4, <1>5, <1>7, <2>1, <2>5, ActorStep
<1>8. CASE v = NoWorker
  <2>1. jobs' \in [PS -> JobRow]
    BY <1>1, <1>2, <1>3 DEF RowInv
  <2>2. ASSUME NEW q \in PS
        PROVE  RowStep(jobs[q], jobs'[q], NoWorker) /\ RowConfirmed(jobs'[q], posted[q])
    <3>1. CASE q = p
      BY <1>1, <1>2, <1>4, <1>8, <3>1
    <3>2. CASE q # p
      BY <1>1, <1>2, <3>2, QuietRowStep DEF IInv
    <3> QED BY <3>1, <3>2
  <2> QED BY <1>5, <2>1, <2>2, TableStep
<1> QED BY <1>6, <1>7, <1>8

\* A claimed row had no live lease, so no other worker can be at its POST.
LEMMA ClaimStep ==
    ASSUME IInv, NEW w \in Workers, NEW p \in PS, Claim(w, p)
    PROVE  IInv'
<1> DEFINE r == jobs[p]
           s == ClaimRow(r, w)
           k == [IdleWorker EXCEPT !.pc = FirstStep(s.state), !.job = p,
                                   !.st = s.state, !.pol = s.bound]
<1>1. /\ jobs' = [jobs EXCEPT ![p] = s] /\ wk' = [wk EXCEPT ![w] = k]
      /\ UNCHANGED <<gerritVars, scopeVars, faults>>
      /\ Pending(r) /\ ~r.live
  BY DEF Claim, Claimable, SetRow
<1>2. RowInv(r) /\ r \in JobRow /\ RowConfirmed(r, posted[p]) /\ jobs \in [PS -> JobRow]
  BY DEF IInv
<1>3. RowInv(s) /\ s.state \in RetryTargets \cup {"RECEIVED"}
  BY <1>1, <1>2, ClaimSound
<1>4. s.owner = w /\ s.pub = r.pub
  BY <1>2 DEF ClaimRow, JobRow
<1>5. s \in JobRow /\ s.bound \in BOOLEAN
  BY <1>3 DEF RowInv, JobRow
<1> HIDE DEF s
<1>6. RowStep(r, s, w)
  BY <1>1, <1>3, <1>4 DEF RowStep, LeasesKept, LeasedBy
<1>7. RowConfirmed(s, posted[p])
  BY <1>2, <1>3, <1>4 DEF RowConfirmed, RetryTargets
<1>8. FirstStep(s.state) \in {"toFetching", "load", "fetchGate"}
  BY DEF FirstStep
<1>9. /\ k \in WorkerRecord /\ k.pc = FirstStep(s.state) /\ k.job = p /\ k.snap = NONE
  BY <1>3, <1>5, <1>8, StateNames
     DEF IdleWorker, NoAttempt, WorkerRecord, BusyPCs, FencedPCs, UnfencedPCs, JobState, RetryTargets
<1> HIDE DEF k
<1>10. WorkerInv(k, w, jobs', posted)
  BY <1>8, <1>9 DEF WorkerInv, PublicationPCs, ConfirmedPCs, AbsentPCs, NONE
<1>11. ScalarsOK' /\ posted' = posted
  BY <1>1, ScalarsKept DEF gerritVars, IInv, ScalarsOK
<1> QED BY <1>1, <1>6, <1>7, <1>10, <1>11, ActorStep

-----------------------------------------------------------------------------
(* The theorems. *)

\* Every step of every actor preserves the invariant.
LEMMA NextIInv == IInv /\ [Next]_vars => IInv'
<1> SUFFICES ASSUME IInv, [Next]_vars PROVE IInv'
  OBVIOUS
<1>1. CASE UNCHANGED vars
  BY <1>1 DEF vars, gerritVars, scopeVars, IInv, ScalarsOK
<1>2. CASE GerritStep \/ EventStep \/ OperatorStep
  BY <1>2, GerritSteps, EventSteps, OperatorSteps
<1>3. CASE \E p \in PS : LeaseExpire(p)
  BY <1>3, LeaseExpireStep
<1>4. ASSUME NEW w \in Workers,
             (\E p \in PS : Claim(w, p)) \/ WorkerStep(w) \/ FaultStep(w) \/ ProviderExhausted(w)
      PROVE  IInv'
  <2>1. CASE \E p \in PS : Claim(w, p)
    BY <2>1, ClaimStep
  <2>2. CASE WorkerStep(w)
    <3>1. CASE ReviewStep(w)
      BY <3>1, ReviewSteps DEF ReviewStep
    <3>2. CASE PublishStep(w)
      BY <3>2, PublishSteps
    <3>3. CASE ScheduleRetry(w) \/ PermanentFailure(w) \/ MarkSuperseded(w) \/ LeaseRefused(w)
      BY <3>3, SharedSteps
    <3> QED BY <2>2, <3>1, <3>2, <3>3 DEF WorkerStep
  <2>3. CASE FaultStep(w)
    <3>1. CASE CallTransient(w) \/ CallPermanent(w) \/ Abandon(w) \/ LeaseStall(w)
      BY <3>1, SharedSteps
    <3>2. CASE \/ ProbeFails(w) \/ ReviewPermanent(w) \/ ReprobeFails(w)
               \/ \E provider \in BOOLEAN : ReviewTransient(w, provider)
      BY <3>2, ReviewSteps
    <3>3. CASE PostTransient(w) \/ VoteRetry(w)
      BY <3>3, PublishSteps
    <3> QED BY <2>3, <3>1, <3>2, <3>3 DEF FaultStep
  <2>4. CASE ProviderExhausted(w)
    BY <2>4, SharedSteps
  <2> QED BY <1>4, <2>1, <2>2, <2>3, <2>4
<1> QED BY <1>1, <1>2, <1>3, <1>4 DEF Next

\* The inductive invariant holds in every reachable state, for any number of
\* worker slots, Patch Sets, budgets, stall points and late POSTs.
THEOREM Invariance == Spec => []IInv
<1>1. Init => IInv
  BY InitIInv
<1>2. IInv /\ [Next]_vars => IInv'
  BY NextIInv
<1> QED BY <1>1, <1>2, PTL DEF Spec

\* Every row and worker is well formed, and _can_start_attempt keeps the
\* counted attempts of every stage within its budget.
THEOREM TypeCorrect == Spec => []TypeOK
<1>1. IInv => TypeOK
  <2> SUFFICES ASSUME IInv PROVE TypeOK
    OBVIOUS
  <2>1. \A p \in PS, s \in BudgetStages : jobs[p].spent[s] \subseteq Slots(s)
    BY DEF IInv, RowInv
  <2>2. \A w \in Workers : wk[w] \in WorkerRecord /\ (wk[w].pc # "idle" => wk[w].job \in PS)
    BY DEF IInv, WorkerInv
  <2>3. wk \in [Workers -> WorkerRecord]
    BY <2>2 DEF IInv
  <2> QED BY <2>1, <2>2, <2>3 DEF IInv, ScalarsOK, TypeOK
<1> QED BY <1>1, Invariance, PTL

\* No job is DONE and no publication POSTED without the comments in Gerrit,
\* even with workers that outlive their lease and POSTs that commit late.
THEOREM DoneIsPosted == Spec => []DoneMeansPosted
<1>1. IInv => DoneMeansPosted
  BY DEF IInv, RowConfirmed, DoneMeansPosted
<1> QED BY <1>1, Invariance, PTL

\* claim_next and _process_publish never meet a RETRY_WAIT row without a
\* state to resume in, nor a job to publish without its durable review.
THEOREM ResumeAlwaysPossible == Spec => []ResumeIsPossible
<1>1. IInv => ResumeIsPossible
  BY DEF IInv, RowInv, ResumeIsPossible
<1> QED BY <1>1, Invariance, PTL

\* A publication intent is never skipped, reviewed again or forgotten: neither
\* the ordering rule nor the scope commands touch a job that has one.
THEOREM IntentStaysInPublishPhase == Spec => []IntentPinsPublishPhase
<1>1. IInv => IntentPinsPublishPhase
  BY DEF IInv, RowInv, IntentPinsPublishPhase
<1> QED BY <1>1, Invariance, PTL

\* If no POST outlives the lease that refresh_publish_guard has renewed and
\* Gerrit commits none after its client gave up, then a review is posted at
\* most once, wherever else workers stall, crash or lose a response.
THEOREM SinglePublication == ASSUME PostsAreFenced PROVE Spec => []AtMostOnePost
<1>1. IInv => AtMostOnePost
  BY PostsAreFenced DEF IInv, ScalarsOK, AtMostOnePost
<1> QED BY <1>1, Invariance, PTL

-----------------------------------------------------------------------------
(* No publication is lost: what Gerrit has, the rows remember.  The        *)
(* publication updates check no lease, so this takes an assumption: from   *)
(* its lookup to such an update a worker is not stalled past its lease, or *)
(* there is no other slot to take its job over meanwhile.                  *)

\* Steps from which mark_publication_failed or the POST may be next although
\* the lease has not been looked at since.
UncheckedPCs ==
    {"lookup", "recheck", "markAmbiguous", "preGet", "post", "failPublication"}

SingleSlot == \A v, w \in Workers : v = w

NoStaleWriter == ~LatePosts /\ (StallPoints \cap UncheckedPCs = {} \/ SingleSlot)

\* Nobody can have taken the row over from w.
Keeps(w, r) == r.owner = w /\ (r.live \/ SingleSlot)

\* Steps of a worker that knows of no comments in Gerrit: the review phase and
\* its ends ...
PlainPCs ==
    {"toFetching", "fetchGate", "fetch", "fetched", "toReviewing", "probe", "reviewGate",
     "review", "reprobe", "reprobeProvider", "promote", "save", "retryFetch", "retryReview",
     "retryRecovery", "retryProvider", "fail", "supersede"}

\* ... and the publish phase after a lookup that found none.
UnpostedPCs ==
    PlainPCs \cup {"recheck", "publishGate", "markAmbiguous", "preGet", "guard", "post",
                   "failPublication"}

\* Steps that still act on the publication status the worker has loaded.
ReconcilePCs == {"startReconcile", "startResolve", "lookup", "resolveLookup"}
LoadedPCs == {"latest", "toPublishing", "begin"} \cup ReconcilePCs

\* Steps nothing is claimed of: the comments are in Gerrit, or the job goes on.
FreePCs ==
    {"idle", "finishReview", "posted", "complete", "vote", "ambiguousAgain",
     "retryReconcile", "retryPublish"}

\* Worker w may be at step l, with its copies st and snap, of a row r with c
\* comments in Gerrit.
Sound(l, st, snap, w, r, c) ==
    /\ l \in UncheckedPCs => Keeps(w, r)
    /\ l \in ReconcilePCs => snap # "POSTED"
    /\ Keeps(w, r) =>
          /\ l \in UnpostedPCs => c = 0
          /\ l \in LoadedPCs /\ snap \notin {"AMBIGUOUS", "POSTED"} => c = 0
          /\ l \in {"load", "latest"} => r.state = st /\ st \in PublishStates
          /\ l \in UncheckedPCs \cup {"startReconcile", "publishGate"} => r.state = "PUBLISHING"
          /\ l \in {"preGet", "guard", "post"} => r.pub = "AMBIGUOUS"

\* The row of c published comments says that there may be comments, and its
\* job will look for them or is DONE.
RowDurable(r, c) ==
    /\ r.state \in {ABSENT, "SKIPPED_SCOPE"} => r.owner = NoWorker
    /\ c > 0 =>
          /\ r.pub \in {"AMBIGUOUS", "POSTED"}
          /\ NeedsPublishRecovery(r) \/ r.state = "DONE"

SoundAt(w, l) == Sound(l, wk[w].st, wk[w].snap, w, Mine(w), posted[wk[w].job])

Durable ==
    /\ \A p \in PS : RowDurable(jobs[p], posted[p]) /\ inFlight[p] = 0
    /\ \A w \in Workers : wk[w].pc # "idle" => SoundAt(w, wk[w].pc)

\* What a transaction of w on row r leaves everybody else who keeps it.
Undisturbed(r, s, w) ==
    \A v \in Workers \ {w} :
        /\ Keeps(v, s) =>
              Keeps(v, r) /\ s.state = r.state /\ (r.pub = "AMBIGUOUS" => s.pub = "AMBIGUOUS")
        /\ Keeps(v, r) /\ r.state = "PUBLISHING" /\ r.pub # NONE => Keeps(v, s)

\* The columns the invariant speaks of.
SameColumns(r, s) ==
    /\ s.owner = r.owner /\ s.live = r.live /\ s.state = r.state
    /\ s.retry = r.retry /\ s.pub = r.pub

\* Worker w goes on at step l with its copies st and snap; nobody else moves.
GoesOn(w, l, st, snap) ==
    /\ wk'[w].pc = l
    /\ l # "idle" => wk'[w].job = wk[w].job /\ wk'[w].st = st /\ wk'[w].snap = snap
    /\ \A v \in Workers \ {w} : wk'[v] = wk[v]

\* Only the row of w's job changes.
Rewrites(w, row) ==
    /\ jobs'[wk[w].job] = row
    /\ \A q \in PS \ {wk[w].job} : jobs'[q] = jobs[q]

\* Gerrit's comments are what they were.
NothingSent == UNCHANGED <<posted, inFlight>>

\* What the invariants say of a busy worker.
LEMMA BusySound ==
    ASSUME IInv, Durable, NEW w \in Workers, wk[w].pc # "idle"
    PROVE  /\ wk[w].job \in PS /\ Mine(w) = jobs[wk[w].job]
           /\ Mine(w) \in JobRow /\ RowInv(Mine(w))
           /\ posted[wk[w].job] \in Nat
           /\ RowDurable(Mine(w), posted[wk[w].job])
           /\ SoundAt(w, wk[w].pc)
<1>1. wk[w].job \in PS /\ Mine(w) \in JobRow /\ RowInv(Mine(w))
  BY Busy
<1>2. posted[wk[w].job] \in Nat
  BY <1>1 DEF IInv, ScalarsOK
<1> QED BY <1>1, <1>2 DEF Durable, Mine

\* A worker keeps its part when somebody else's transaction leaves it alone.
LEMMA BystanderSound ==
    ASSUME NEW l, NEW st, NEW snap, NEW v \in Workers, NEW w, v # w, NEW r, NEW s, NEW c,
           Sound(l, st, snap, v, r, c), Undisturbed(r, s, w),
           l \in UncheckedPCs => r.pub # NONE
    PROVE  Sound(l, st, snap, v, s, c)
<1>1. /\ Keeps(v, s) =>
            Keeps(v, r) /\ s.state = r.state /\ (r.pub = "AMBIGUOUS" => s.pub = "AMBIGUOUS")
      /\ Keeps(v, r) /\ r.state = "PUBLISHING" /\ r.pub # NONE => Keeps(v, s)
  BY DEF Undisturbed
<1>2. l \in UncheckedPCs => Keeps(v, s)
  BY <1>1 DEF Sound
<1> QED BY <1>1, <1>2 DEF Sound

\* Whoever is at an unchecked step has an intent in the row.
LEMMA UncheckedIntent ==
    ASSUME IInv, NEW v \in Workers, wk[v].pc \in UncheckedPCs
    PROVE  Mine(v).pub # NONE
<1>1. wk[v].pc # "idle" /\ wk[v].pc \in PublicationPCs
  BY DEF UncheckedPCs, PublicationPCs
<1>2. WorkerInv(wk[v], v, jobs, posted)
  BY <1>1, Busy
<1> QED BY <1>1, <1>2 DEF WorkerInv, Mine

\* Other workers keep their part when the row of w's job changes.
LEMMA OthersSound ==
    ASSUME IInv, Durable, NEW w \in Workers, wk[w].pc # "idle", NEW row, Rewrites(w, row),
           Undisturbed(Mine(w), row, w), NEW v \in Workers, v # w, wk[v].pc # "idle"
    PROVE  Sound(wk[v].pc, wk[v].st, wk[v].snap, v, jobs'[wk[v].job], posted[wk[v].job])
<1>1. wk[v].job \in PS /\ SoundAt(v, wk[v].pc) /\ Mine(v) = jobs[wk[v].job]
  BY BusySound
<1>2. CASE wk[v].job = wk[w].job
  <2>1. Mine(v) = Mine(w) /\ jobs'[wk[v].job] = row
    BY <1>2 DEF Mine, Rewrites
  <2>2. wk[v].pc \in UncheckedPCs => Mine(w).pub # NONE
    BY <2>1, UncheckedIntent
  <2> QED BY <1>1, <2>1, <2>2, BystanderSound DEF SoundAt
<1>3. CASE wk[v].job # wk[w].job
  <2>1. jobs'[wk[v].job] = jobs[wk[v].job]
    BY <1>1, <1>3 DEF Rewrites
  <2> QED BY <1>1, <2>1 DEF SoundAt
<1> QED BY <1>2, <1>3

\* A step of worker w on its row that sends nothing to Gerrit.
LEMMA DurableStep ==
    ASSUME IInv, Durable, NEW w \in Workers, wk[w].pc # "idle", NothingSent,
           NEW l, NEW st, NEW snap, GoesOn(w, l, st, snap),
           NEW row, Rewrites(w, row), Undisturbed(Mine(w), row, w),
           RowDurable(row, posted[wk[w].job]),
           Sound(l, st, snap, w, row, posted[wk[w].job])
    PROVE  Durable'
<1>1. \A p \in PS : RowDurable(jobs'[p], posted'[p]) /\ inFlight'[p] = 0
  BY DEF Durable, Rewrites, NothingSent
<1>2. wk'[w].pc # "idle" => SoundAt(w, wk[w].pc)'
  BY DEF GoesOn, Rewrites, NothingSent, SoundAt, Mine
<1>3. ASSUME NEW v \in Workers, v # w, wk'[v].pc # "idle"
      PROVE  SoundAt(v, wk[v].pc)'
  <2>1. wk'[v] = wk[v]
    BY <1>3 DEF GoesOn
  <2>2. Sound(wk[v].pc, wk[v].st, wk[v].snap, v, jobs'[wk[v].job], posted[wk[v].job])
    BY <1>3, <2>1, OthersSound
  <2> QED BY <2>1, <2>2 DEF SoundAt, Mine, NothingSent
<1> QED BY <1>1, <1>2, <1>3 DEF Durable

\* A worker whose record becomes k.
LEMMA GoesOnRecord ==
    ASSUME IInv, NEW w \in Workers, NEW k, wk' = [wk EXCEPT ![w] = k], NEW l, NEW st, NEW snap,
           k.pc = l, l # "idle" => k.job = wk[w].job /\ k.st = st /\ k.snap = snap
    PROVE  GoesOn(w, l, st, snap)
BY DEF GoesOn, IInv

\* The forms in which a worker moves.
LEMMA GoesOnForms ==
    ASSUME IInv, NEW w \in Workers, wk[w].pc # "idle"
    PROVE  /\ \A l : Goto(w, l) \/ GotoFailed(w, l) => GoesOn(w, l, wk[w].st, wk[w].snap)
           /\ Leave(w) => \A st, snap : GoesOn(w, "idle", st, snap)
           /\ UNCHANGED wk => GoesOn(w, wk[w].pc, wk[w].st, wk[w].snap)
           /\ \A l, x : wk' = [wk EXCEPT ![w].pc = l, ![w].st = x]
                            => GoesOn(w, l, x, wk[w].snap)
           /\ \A l, x : wk' = [wk EXCEPT ![w].pc = l, ![w].att = x]
                            => GoesOn(w, l, wk[w].st, wk[w].snap)
           /\ \A l, x : wk' = [wk EXCEPT ![w].pc = l, ![w].snap = x]
                            => GoesOn(w, l, wk[w].st, x)
<1>1. wk = [v \in Workers |-> wk[v]] /\ wk[w] \in WorkerRecord
  BY Busy DEF IInv
<1>2. ASSUME NEW l, Goto(w, l)
      PROVE  GoesOn(w, l, wk[w].st, wk[w].snap)
  <2> DEFINE k == [wk[w] EXCEPT !.pc = l]
  <2>1. wk' = [wk EXCEPT ![w] = k]
    BY <1>2 DEF Goto
  <2>2. k.pc = l /\ k.job = wk[w].job /\ k.st = wk[w].st /\ k.snap = wk[w].snap
    BY <1>1 DEF WorkerRecord
  <2> HIDE DEF k
  <2> QED BY <2>1, <2>2, GoesOnRecord
<1>3. ASSUME NEW l, GotoFailed(w, l)
      PROVE  GoesOn(w, l, wk[w].st, wk[w].snap)
  <2> DEFINE k == [wk[w] EXCEPT !.pc = l, !.att = NoAttempt]
  <2>1. wk' = [wk EXCEPT ![w] = k]
    BY <1>3 DEF GotoFailed
  <2>2. k.pc = l /\ k.job = wk[w].job /\ k.st = wk[w].st /\ k.snap = wk[w].snap
    BY <1>1 DEF WorkerRecord
  <2> HIDE DEF k
  <2> QED BY <2>1, <2>2, GoesOnRecord
<1>4. ASSUME Leave(w), NEW st, NEW snap
      PROVE  GoesOn(w, "idle", st, snap)
  <2>1. IdleWorker.pc = "idle" /\ wk' = [wk EXCEPT ![w] = IdleWorker]
    BY <1>4 DEF Leave, IdleWorker
  <2> QED BY <2>1, GoesOnRecord
<1>5. UNCHANGED wk => GoesOn(w, wk[w].pc, wk[w].st, wk[w].snap)
  BY DEF GoesOn
<1>6. ASSUME NEW l, NEW x, wk' = [wk EXCEPT ![w].pc = l, ![w].st = x]
      PROVE  GoesOn(w, l, x, wk[w].snap)
  <2> DEFINE k == [wk[w] EXCEPT !.pc = l, !.st = x]
  <2>1. wk' = [wk EXCEPT ![w] = k]
    BY <1>6
  <2>2. k.pc = l /\ k.job = wk[w].job /\ k.st = x /\ k.snap = wk[w].snap
    BY <1>1 DEF WorkerRecord
  <2> HIDE DEF k
  <2> QED BY <2>1, <2>2, GoesOnRecord
<1>7. ASSUME NEW l, NEW x, wk' = [wk EXCEPT ![w].pc = l, ![w].att = x]
      PROVE  GoesOn(w, l, wk[w].st, wk[w].snap)
  <2> DEFINE k == [wk[w] EXCEPT !.pc = l, !.att = x]
  <2>1. wk' = [wk EXCEPT ![w] = k]
    BY <1>7
  <2>2. k.pc = l /\ k.job = wk[w].job /\ k.st = wk[w].st /\ k.snap = wk[w].snap
    BY <1>1 DEF WorkerRecord
  <2> HIDE DEF k
  <2> QED BY <2>1, <2>2, GoesOnRecord
<1>8. ASSUME NEW l, NEW x, wk' = [wk EXCEPT ![w].pc = l, ![w].snap = x]
      PROVE  GoesOn(w, l, wk[w].st, x)
  <2> DEFINE k == [wk[w] EXCEPT !.pc = l, !.snap = x]
  <2>1. wk' = [wk EXCEPT ![w] = k]
    BY <1>8
  <2>2. k.pc = l /\ k.job = wk[w].job /\ k.st = wk[w].st /\ k.snap = x
    BY <1>1 DEF WorkerRecord
  <2> HIDE DEF k
  <2> QED BY <2>1, <2>2, GoesOnRecord
<1> QED BY <1>2, <1>3, <1>4, <1>5, <1>6, <1>7, <1>8

\* SetRow, seen from the worker.
LEMMA SetRowRewrites ==
    ASSUME IInv, NEW w \in Workers, wk[w].pc # "idle", NEW row, SetRow(wk[w].job, row)
    PROVE  Rewrites(w, row)
<1>1. jobs \in [PS -> JobRow] /\ wk[w].job \in PS
  BY Busy DEF IInv
<1> QED BY <1>1 DEF SetRow, Rewrites

\* The steps nothing is claimed of, and the steps at which only Gerrit is.
LEMMA EasySteps ==
    ASSUME NEW l, NEW st, NEW snap, NEW w, NEW r, NEW c
    PROVE  /\ l \in FreePCs => Sound(l, st, snap, w, r, c)
           /\ l \in PlainPCs /\ (Keeps(w, r) => c = 0) => Sound(l, st, snap, w, r, c)
<1>1. l \in FreePCs =>
        /\ l \notin UncheckedPCs /\ l \notin ReconcilePCs /\ l \notin UnpostedPCs
        /\ l \notin LoadedPCs
        /\ l \notin {"load", "latest", "startReconcile", "publishGate", "preGet", "guard", "post"}
  BY DEF FreePCs, UncheckedPCs, ReconcilePCs, UnpostedPCs, PlainPCs, LoadedPCs
<1>2. l \in PlainPCs =>
        /\ l \notin UncheckedPCs /\ l \notin ReconcilePCs /\ l \notin LoadedPCs
        /\ l \notin {"load", "latest", "startReconcile", "publishGate", "preGet", "guard", "post"}
  BY DEF PlainPCs, UncheckedPCs, ReconcilePCs, LoadedPCs
<1> QED BY <1>1, <1>2 DEF Sound

\* Before anything was posted the lease holder knows it.
LEMMA UnpostedFact ==
    ASSUME NEW w, SoundAt(w, wk[w].pc), wk[w].pc \in UnpostedPCs
    PROVE  Keeps(w, Mine(w)) => posted[wk[w].job] = 0
BY DEF SoundAt, Sound

\* Whoever may write the row is undisturbed by nobody else.
LEMMA OwnerUndisturbed ==
    ASSUME NEW w \in Workers, NEW r, NEW s, r.owner = w, s.owner \in {w, NoWorker}
    PROVE  Undisturbed(r, s, w)
BY WorkersAssumption DEF Undisturbed, Keeps

\* A transaction on other columns.
LEMMA SameColumnsKept ==
    ASSUME NEW r, NEW s, SameColumns(r, s), NEW w, NEW c
    PROVE  /\ Undisturbed(r, s, w)
           /\ RowDurable(r, c) => RowDurable(s, c)
           /\ Keeps(w, s) <=> Keeps(w, r)
           /\ \A l, st, snap : Sound(l, st, snap, w, r, c) => Sound(l, st, snap, w, s, c)
<1>1. \A v : Keeps(v, s) <=> Keeps(v, r)
  BY DEF SameColumns, Keeps
<1>2. Undisturbed(r, s, w)
  BY <1>1 DEF Undisturbed, SameColumns
<1>3. RowDurable(r, c) => RowDurable(s, c)
  BY DEF RowDurable, SameColumns, NeedsPublishRecovery
<1>4. ASSUME NEW l, NEW st, NEW snap, Sound(l, st, snap, w, r, c)
      PROVE  Sound(l, st, snap, w, s, c)
  <2>1. s.state = r.state /\ s.pub = r.pub
    BY DEF SameColumns
  <2> QED BY <1>1, <1>4, <2>1 DEF Sound
<1> QED BY <1>1, <1>2, <1>3, <1>4

\* Transactions on attempts, flags and progress.
LEMMA OtherColumns ==
    ASSUME NEW r \in JobRow
    PROVE  /\ SameColumns(r, r)
           /\ \A a : SameColumns(r, UncountAttemptRow(r, a))
           /\ \A g, i : SameColumns(r, StartAttemptRow(r, g, i))
           /\ \A b \in BOOLEAN : /\ SameColumns(r, [r EXCEPT !.bound = b])
                                 /\ SameColumns(r, [r EXCEPT !.progress = b])
                                 /\ [r EXCEPT !.progress = b] \in JobRow
BY DEF SameColumns, UncountAttemptRow, StartAttemptRow, JobRow

-----------------------------------------------------------------------------
(* The shapes of the steps. *)

\* The worker moves on and writes nothing.
LEMMA QuietDurable ==
    ASSUME IInv, Durable, NEW w \in Workers, wk[w].pc # "idle", NothingSent, UNCHANGED jobs,
           NEW l, Goto(w, l) \/ GotoFailed(w, l), SoundAt(w, l)
    PROVE  Durable'
<1>1. GoesOn(w, l, wk[w].st, wk[w].snap)
  BY GoesOnForms
<1>2. Rewrites(w, Mine(w))
  BY DEF Rewrites, Mine
<1>3. Undisturbed(Mine(w), Mine(w), w)
  BY BusySound, OtherColumns, SameColumnsKept
<1> QED BY <1>1, <1>2, <1>3, BusySound, DurableStep DEF SoundAt

\* The worker drops its job and writes nothing.
LEMMA LeaveDurable ==
    ASSUME IInv, Durable, NEW w \in Workers, wk[w].pc # "idle", NothingSent, UNCHANGED jobs,
           Leave(w)
    PROVE  Durable'
<1>1. GoesOn(w, "idle", NONE, NONE)
  BY GoesOnForms
<1>2. Rewrites(w, Mine(w))
  BY DEF Rewrites, Mine
<1>3. Undisturbed(Mine(w), Mine(w), w)
  BY BusySound, OtherColumns, SameColumnsKept
<1>4. Sound("idle", NONE, NONE, w, Mine(w), posted[wk[w].job])
  BY EasySteps DEF FreePCs
<1> QED BY <1>1, <1>2, <1>3, <1>4, BusySound, DurableStep

\* The worker writes columns that do not matter here, and moves on.
LEMMA ColumnsDurable ==
    ASSUME IInv, Durable, NEW w \in Workers, wk[w].pc # "idle", NothingSent,
           NEW row, SetRow(wk[w].job, row), SameColumns(Mine(w), row),
           NEW l, GoesOn(w, l, wk[w].st, wk[w].snap), SoundAt(w, l)
    PROVE  Durable'
<1>1. Rewrites(w, row)
  BY SetRowRewrites
<1>2. /\ Undisturbed(Mine(w), row, w)
      /\ RowDurable(row, posted[wk[w].job])
      /\ Sound(l, wk[w].st, wk[w].snap, w, row, posted[wk[w].job])
  BY BusySound, SameColumnsKept DEF SoundAt
<1> QED BY <1>1, <1>2, DurableStep

\* The lease holder gives its row up and leaves.
LEMMA ReleaseDurable ==
    ASSUME IInv, Durable, NEW w \in Workers, wk[w].pc # "idle", NothingSent, Fenced(w),
           NEW row, SetRow(wk[w].job, row), row.owner = NoWorker,
           RowDurable(row, posted[wk[w].job]),
           NEW l \in FreePCs, GoesOn(w, l, wk[w].st, wk[w].snap)
    PROVE  Durable'
<1>1. Rewrites(w, row)
  BY SetRowRewrites
<1>2. Undisturbed(Mine(w), row, w)
  BY OwnerUndisturbed DEF Fenced, LeasedBy
<1>3. Sound(l, wk[w].st, wk[w].snap, w, row, posted[wk[w].job])
  BY EasySteps
<1> QED BY <1>1, <1>2, <1>3, DurableStep

\* The lease holder ends a job of which nothing was posted.
LEMMA EndDurable ==
    ASSUME IInv, Durable, NEW w \in Workers, wk[w].pc \in UnpostedPCs, NothingSent, Fenced(w),
           NEW row, SetRow(wk[w].job, row), row.owner = NoWorker,
           NEW l \in FreePCs, GoesOn(w, l, wk[w].st, wk[w].snap)
    PROVE  Durable'
<1>1. wk[w].pc # "idle"
  BY DEF UnpostedPCs, PlainPCs
<1>2. posted[wk[w].job] = 0
  BY <1>1, BusySound, UnpostedFact DEF Fenced, LeasedBy, Keeps
<1>3. RowDurable(row, posted[wk[w].job])
  BY <1>2 DEF RowDurable
<1> QED BY <1>1, <1>3, ReleaseDurable

-----------------------------------------------------------------------------
(* The steps of a worker. *)

\* Steps both phases share.
LEMMA SharedDurable ==
    ASSUME IInv, Durable, NoStaleWriter, NEW w \in Workers, wk[w].pc # "idle",
           \/ ScheduleRetry(w) \/ ProviderExhausted(w) \/ PermanentFailure(w)
           \/ MarkSuperseded(w) \/ LeaseRefused(w) \/ Abandon(w) \/ LeaseStall(w)
           \/ CallTransient(w) \/ CallPermanent(w)
    PROVE  Durable'
<1> DEFINE c == posted[wk[w].job]
           r == Mine(w)
<1>0. /\ r \in JobRow /\ RowInv(r) /\ c \in Nat /\ RowDurable(r, c) /\ SoundAt(w, wk[w].pc)
      /\ wk[w].job \in PS
  BY BusySound
<1>forms. /\ \A l : Goto(w, l) \/ GotoFailed(w, l) => GoesOn(w, l, wk[w].st, wk[w].snap)
          /\ Leave(w) => GoesOn(w, "idle", wk[w].st, wk[w].snap)
          /\ UNCHANGED wk => GoesOn(w, wk[w].pc, wk[w].st, wk[w].snap)
          /\ "idle" \in FreePCs
  BY GoesOnForms DEF FreePCs
<1>fail. ASSUME Fenced(w), wk[w].pc \in UnpostedPCs, Leave(w), NothingSent,
                SetRow(wk[w].job, MarkFailedPermanentRow(r))
         PROVE  Durable'
  BY <1>0, <1>fail, <1>forms, ReleasedFields, EndDurable
<1>1. CASE ScheduleRetry(w)
  <2>1. /\ Fenced(w) /\ Leave(w) /\ NothingSent /\ r.state \in RetryTargets
    BY <1>1 DEF ScheduleRetry, StoreStep, gerritVars, NothingSent
  <2>2. CASE RetryExhausted(w)
    <3>1. wk[w].pc \in UnpostedPCs
      BY <2>2 DEF RetryExhausted, At, UnpostedPCs, PlainPCs
    <3>2. SetRow(wk[w].job, MarkFailedPermanentRow(r))
      BY <1>1, <2>2 DEF ScheduleRetry
    <3> QED BY <2>1, <3>1, <3>2, <1>fail
  <2>3. CASE ~RetryExhausted(w)
    <3> DEFINE s == ScheduleRetryRow(r, r.state)
    <3>1. SetRow(wk[w].job, s)
      BY <1>1, <2>3 DEF ScheduleRetry
    <3>2. s.owner = NoWorker /\ s.pub = r.pub /\ s.state = "RETRY_WAIT" /\ s.retry = r.state
      BY <1>0 DEF ScheduleRetryRow, Released, JobRow
    <3> HIDE DEF s
    <3>3. RowDurable(s, c)
      BY <1>0, <2>1, <3>2 DEF RowDurable, NeedsPublishRecovery, RetryTargets
    <3> QED BY <2>1, <3>1, <3>2, <3>3, <1>forms, ReleaseDurable
  <2> QED BY <2>2, <2>3
<1>2. CASE ProviderExhausted(w)
  BY <1>2, <1>fail DEF ProviderExhausted, StoreStep, gerritVars, NothingSent, UnpostedPCs, PlainPCs
<1>3. CASE PermanentFailure(w)
  BY <1>3, <1>fail
     DEF PermanentFailure, At, StoreStep, gerritVars, NothingSent, UnpostedPCs, PlainPCs
<1>4. CASE MarkSuperseded(w)
  <2> DEFINE s == UncountAttemptRow(r, wk[w].att)
  <2>1. wk[w].pc = "supersede" /\ Leave(w) /\ NothingSent
    BY <1>4 DEF MarkSuperseded, At, StoreStep, gerritVars, NothingSent
  <2>2. SetRow(wk[w].job, IF Fenced(w) THEN MarkSupersededRow(s) ELSE s)
    BY <1>4 DEF MarkSuperseded
  <2>3. SameColumns(r, s) /\ s \in JobRow
    BY <1>0, OtherColumns, UncountSound DEF RowInv
  <2> HIDE DEF s
  <2>4. CASE Fenced(w)
    <3>1. MarkSupersededRow(s).owner = NoWorker
      BY <2>3, ReleasedFields
    <3>2. wk[w].pc \in UnpostedPCs
      BY <2>1 DEF UnpostedPCs, PlainPCs
    <3> QED BY <2>1, <2>2, <2>4, <3>1, <3>2, <1>forms, EndDurable
  <2>5. CASE ~Fenced(w)
    <3>1. SoundAt(w, "idle")
      BY EasySteps DEF FreePCs, SoundAt
    <3> QED BY <2>1, <2>2, <2>3, <2>5, <3>1, <1>forms, ColumnsDurable
  <2> QED BY <2>4, <2>5
<1>5. CASE LeaseRefused(w)
  BY <1>5, LeaveDurable DEF LeaseRefused, gerritVars, NothingSent
<1>6. CASE Abandon(w)
  BY <1>6, LeaveDurable DEF Abandon, gerritVars, NothingSent
<1>7. CASE LeaseStall(w)
  <2> DEFINE s == [r EXCEPT !.live = FALSE]
  <2>1. /\ wk[w].pc \in StallPoints /\ Fenced(w) /\ NothingSent /\ UNCHANGED wk
        /\ SetRow(wk[w].job, s)
    BY <1>7 DEF LeaseStall, gerritVars, NothingSent
  <2>2. s.owner = r.owner /\ ~s.live /\ s.state = r.state /\ s.retry = r.retry /\ s.pub = r.pub
    BY <1>0 DEF JobRow
  <2> HIDE DEF s
  <2>3. Undisturbed(r, s, w)
    BY <2>1, <2>2, OwnerUndisturbed DEF Fenced, LeasedBy
  <2>4. RowDurable(s, c)
    BY <1>0, <2>2 DEF RowDurable, NeedsPublishRecovery
  <2>5. Keeps(w, s) => Keeps(w, r)
    BY <2>2 DEF Keeps
  <2>6. wk[w].pc \in UncheckedPCs => Keeps(w, s)
    BY <2>1, <2>2 DEF NoStaleWriter, Keeps, Fenced, LeasedBy
  <2>7. Sound(wk[w].pc, wk[w].st, wk[w].snap, w, s, c)
    BY <1>0, <2>2, <2>5, <2>6 DEF SoundAt, Sound
  <2> QED BY <2>1, <2>3, <2>4, <2>7, <1>forms, SetRowRewrites, DurableStep
<1>8. CASE CallTransient(w)
  <2>1. /\ wk[w].pc \in {"fetch", "lookup", "resolveLookup", "recheck", "preGet"}
        /\ GotoFailed(w, TransientExit(wk[w].pc)) /\ NothingSent /\ UNCHANGED jobs
    BY <1>8 DEF CallTransient, gerritVars, NothingSent
  <2>2. \/ wk[w].pc = "fetch" /\ TransientExit(wk[w].pc) = "retryFetch"
        \/ TransientExit(wk[w].pc) \in {"retryReconcile", "ambiguousAgain"}
    BY <2>1 DEF TransientExit
  <2>3. SoundAt(w, TransientExit(wk[w].pc))
    BY <1>0, <2>2, EasySteps, UnpostedFact DEF SoundAt, FreePCs, PlainPCs, UnpostedPCs
  <2> QED BY <2>1, <2>3, QuietDurable
<1>9. CASE CallPermanent(w)
  <2>1. /\ wk[w].pc \in {"fetch", "lookup", "resolveLookup", "recheck", "preGet", "post"}
        /\ GotoFailed(w, PermanentExit(w)) /\ NothingSent /\ UNCHANGED jobs
    BY <1>9 DEF CallPermanent, gerritVars, NothingSent
  <2>2. \/ wk[w].pc = "fetch" /\ PermanentExit(w) = "fail"
        \/ PermanentExit(w) = "retryReconcile"
        \/ wk[w].pc = "resolveLookup" /\ wk[w].snap # "AMBIGUOUS" /\ PermanentExit(w) = "supersede"
        \/ wk[w].pc = "lookup" /\ wk[w].snap # "AMBIGUOUS" /\ PermanentExit(w) = "failPublication"
        \/ wk[w].pc \in {"recheck", "preGet", "post"} /\ PermanentExit(w) = "failPublication"
    BY <2>1 DEF PermanentExit
  <2>3. CASE wk[w].pc = "fetch" /\ PermanentExit(w) = "fail"
    <3>1. SoundAt(w, "fail")
      BY <1>0, <2>3, EasySteps, UnpostedFact DEF SoundAt, PlainPCs, UnpostedPCs
    <3> QED BY <2>1, <2>3, <3>1, QuietDurable
  <2>4. CASE PermanentExit(w) = "retryReconcile"
    <3>1. SoundAt(w, "retryReconcile")
      BY EasySteps DEF SoundAt, FreePCs
    <3> QED BY <2>1, <2>4, <3>1, QuietDurable
  <2>5. CASE wk[w].pc = "resolveLookup" /\ wk[w].snap # "AMBIGUOUS" /\ PermanentExit(w) = "supersede"
    <3>1. Keeps(w, r) => c = 0
      BY <1>0, <2>5 DEF SoundAt, Sound, LoadedPCs, ReconcilePCs
    <3>2. SoundAt(w, "supersede")
      BY <3>1, EasySteps DEF SoundAt, PlainPCs
    <3> QED BY <2>1, <2>5, <3>2, QuietDurable
  <2>6. CASE PermanentExit(w) = "failPublication" /\ wk[w].pc = "lookup" /\ wk[w].snap # "AMBIGUOUS"
    <3>1. Keeps(w, r) /\ c = 0 /\ r.state = "PUBLISHING"
      BY <1>0, <2>6 DEF SoundAt, Sound, UncheckedPCs, LoadedPCs, ReconcilePCs
    <3>2. SoundAt(w, "failPublication")
      BY <3>1 DEF SoundAt, Sound, ReconcilePCs, LoadedPCs
    <3> QED BY <2>1, <2>6, <3>2, QuietDurable
  <2>7. CASE PermanentExit(w) = "failPublication" /\ wk[w].pc \in {"recheck", "preGet", "post"}
    <3>1. Keeps(w, r) /\ c = 0 /\ r.state = "PUBLISHING"
      BY <1>0, <2>7 DEF SoundAt, Sound, UncheckedPCs, UnpostedPCs
    <3>2. SoundAt(w, "failPublication")
      BY <3>1 DEF SoundAt, Sound, ReconcilePCs, LoadedPCs
    <3> QED BY <2>1, <2>7, <3>2, QuietDurable
  <2> QED BY <2>2, <2>3, <2>4, <2>5, <2>6, <2>7
<1> QED
  BY <1>1, <1>2, <1>3, <1>4, <1>5, <1>6, <1>7, <1>8, <1>9

\* JobStore.transition in the review phase.
LEMMA TransitDurable ==
    ASSUME IInv, Durable, NEW w \in Workers, wk[w].pc \in PlainPCs,
           NEW t \in {"FETCHING", "REVIEWING", "VALIDATING"}, NEW l \in PlainPCs,
           Transit(w, t, l)
    PROVE  Durable'
<1> DEFINE s == TransitionRow(Mine(w), t)
<1>1. /\ wk[w].pc # "idle" /\ Fenced(w) /\ NothingSent /\ SetRow(wk[w].job, s)
      /\ GoesOn(w, l, t, wk[w].snap)
  BY GoesOnForms DEF Transit, StoreStep, gerritVars, NothingSent, PlainPCs
<1>2. Mine(w) \in JobRow /\ SoundAt(w, wk[w].pc)
  BY <1>1, BusySound
<1>3. s.owner = w /\ s.state = t
  BY <1>1, <1>2, TransitionFields DEF Fenced, LeasedBy
<1> HIDE DEF s
<1>4. posted[wk[w].job] = 0
  BY <1>1, <1>2, UnpostedFact DEF Fenced, LeasedBy, Keeps, UnpostedPCs
<1>5. Undisturbed(Mine(w), s, w)
  BY <1>1, <1>3, OwnerUndisturbed DEF Fenced, LeasedBy
<1>6. RowDurable(s, posted[wk[w].job]) /\ Sound(l, t, wk[w].snap, w, s, posted[wk[w].job])
  BY <1>3, <1>4, EasySteps DEF RowDurable, ABSENT
<1> QED BY <1>1, <1>5, <1>6, SetRowRewrites, DurableStep

\* _can_start_attempt and start_attempt of a stage.
LEMMA StartDurable ==
    ASSUME IInv, Durable, NEW w \in Workers, wk[w].pc \in UnpostedPCs,
           NEW stage, NEW l, StartAttempt(w, stage, l),
           Fenced(w) => SoundAt(w, l)
    PROVE  Durable'
<1>0. wk[w].pc # "idle" /\ "idle" \in FreePCs
  BY DEF UnpostedPCs, PlainPCs, FreePCs
<1>1. Mine(w) \in JobRow /\ Fenced(w) /\ NothingSent
  BY <1>0, BusySound DEF StartAttempt, StoreStep, gerritVars, NothingSent
<1>2. CASE SetRow(wk[w].job, MarkFailedPermanentRow(Mine(w))) /\ Leave(w)
  <2>1. MarkFailedPermanentRow(Mine(w)).owner = NoWorker
    BY <1>1, ReleasedFields
  <2>2. GoesOn(w, "idle", wk[w].st, wk[w].snap)
    BY <1>0, <1>2, GoesOnForms
  <2> QED BY <1>0, <1>1, <1>2, <2>1, <2>2, EndDurable
<1>3. ASSUME NEW i, NEW a, SetRow(wk[w].job, StartAttemptRow(Mine(w), stage, i)),
             wk' = [wk EXCEPT ![w].pc = l, ![w].att = a]
      PROVE  Durable'
  <2> DEFINE s == StartAttemptRow(Mine(w), stage, i)
  <2>1. SameColumns(Mine(w), s)
    BY <1>1, OtherColumns
  <2>2. SetRow(wk[w].job, s) /\ GoesOn(w, l, wk[w].st, wk[w].snap)
    BY <1>0, <1>3, GoesOnForms
  <2> HIDE DEF s
  <2> QED BY <1>0, <1>1, <2>1, <2>2, ColumnsDurable
<1> QED BY <1>2, <1>3 DEF StartAttempt

\* finish_attempt(success=True).
LEMMA FinishDurable ==
    ASSUME IInv, Durable, NEW w \in Workers, wk[w].pc # "idle", NEW l, FinishAttempt(w, l),
           SoundAt(w, l)
    PROVE  Durable'
<1> DEFINE s == UncountAttemptRow(Mine(w), wk[w].att)
<1>1. SetRow(wk[w].job, s) /\ GotoFailed(w, l) /\ NothingSent
  BY DEF FinishAttempt, StoreStep, gerritVars, NothingSent
<1>2. SameColumns(Mine(w), s)
  BY BusySound, OtherColumns
<1> HIDE DEF s
<1> QED BY <1>1, <1>2, GoesOnForms, ColumnsDurable

\* The review phase.
LEMMA ReviewDurable ==
    ASSUME IInv, Durable, NEW w \in Workers, wk[w].pc # "idle",
           \/ ToFetching(w) \/ FetchGate(w) \/ Fetch(w) \/ Fetched(w) \/ ToReviewing(w)
           \/ Probe(w) \/ ProbeFails(w) \/ ReviewGate(w) \/ Review(w)
           \/ (\E provider \in BOOLEAN : ReviewTransient(w, provider))
           \/ ReviewPermanent(w) \/ Reprobe(w) \/ ReprobeFails(w) \/ Promote(w)
           \/ Save(w) \/ FinishReview(w)
    PROVE  Durable'
<1> DEFINE r == Mine(w)
<1>0. r \in JobRow /\ RowInv(r) /\ SoundAt(w, wk[w].pc)
  BY BusySound
<1>plain. /\ {"toFetching", "fetchGate", "fetch", "fetched", "toReviewing", "probe", "reviewGate",
              "review", "reprobe", "reprobeProvider", "promote", "save", "retryReview",
              "retryRecovery", "retryProvider", "fail", "supersede"} \subseteq PlainPCs
          /\ PlainPCs \subseteq UnpostedPCs
          /\ {"idle", "finishReview"} \subseteq FreePCs
  BY DEF PlainPCs, UnpostedPCs, FreePCs
<1>at. ASSUME wk[w].pc \in PlainPCs, NEW l \in PlainPCs
       PROVE  SoundAt(w, l)
  BY <1>0, <1>at, <1>plain, UnpostedFact, EasySteps DEF SoundAt
<1>cols. ASSUME wk[w].pc \in PlainPCs, NEW l \in PlainPCs, Goto(w, l) \/ GotoFailed(w, l),
                NothingSent, NEW s, SetRow(wk[w].job, s), SameColumns(r, s)
         PROVE  Durable'
  BY <1>cols, <1>at, GoesOnForms, ColumnsDurable
<1>quiet. ASSUME wk[w].pc \in PlainPCs, NEW l \in PlainPCs, Goto(w, l) \/ GotoFailed(w, l),
                 NothingSent, UNCHANGED jobs
          PROVE  Durable'
  BY <1>quiet, <1>at, QuietDurable
<1>1. CASE ToFetching(w)
  BY <1>1, <1>plain, TransitDurable DEF ToFetching, At
<1>2. CASE FetchGate(w)
  BY <1>2, <1>plain, <1>at, StartDurable DEF FetchGate, At
<1>3. CASE Fetch(w)
  <2>1. /\ \E l \in {"fail", "supersede", "fetched"} : Goto(w, l) \/ GotoFailed(w, l)
        /\ wk[w].pc = "fetch" /\ NothingSent /\ UNCHANGED jobs
    BY <1>3 DEF Fetch, At, StoreStep, gerritVars, NothingSent
  <2> QED BY <1>plain, <2>1, <1>quiet
<1>4. CASE Fetched(w)
  BY <1>4, <1>plain, <1>at, FinishDurable DEF Fetched, At
<1>5. CASE ToReviewing(w)
  BY <1>5, <1>plain, TransitDurable DEF ToReviewing, At
<1>6. CASE Probe(w) \/ ProbeFails(w)
  <2>1. /\ \E l \in {"promote", "reviewGate", "retryReview", "retryRecovery", "fail"} : Goto(w, l)
        /\ wk[w].pc = "probe" /\ NothingSent
        /\ SetRow(wk[w].job, [r EXCEPT !.bound = TRUE])
    BY <1>6 DEF Probe, ProbeFails, At, StoreStep, gerritVars, NothingSent
  <2>2. SameColumns(r, [r EXCEPT !.bound = TRUE])
    BY <1>0, OtherColumns
  <2> QED BY <1>plain, <2>1, <2>2, <1>cols
<1>7. CASE ReviewGate(w)
  BY <1>7, <1>plain, <1>at, StartDurable DEF ReviewGate, At
<1>8. CASE Review(w)
  <2>1. /\ Goto(w, "promote") /\ wk[w].pc = "review" /\ NothingSent
        /\ SetRow(wk[w].job, [r EXCEPT !.progress = TRUE]) \/ UNCHANGED jobs
    BY <1>8 DEF Review, At, StoreStep, gerritVars, NothingSent
  <2>2. SameColumns(r, [r EXCEPT !.progress = TRUE])
    BY <1>0, OtherColumns
  <2> QED BY <1>plain, <2>1, <2>2, <1>cols, <1>quiet
<1>9. ASSUME NEW provider \in BOOLEAN, ReviewTransient(w, provider)
      PROVE  Durable'
  <2>1. /\ \E l \in {"reprobe", "reprobeProvider"} : GotoFailed(w, l)
        /\ wk[w].pc = "review" /\ NothingSent
    BY <1>9 DEF ReviewTransient, At, gerritVars, NothingSent
  <2>2. PICK saved \in BOOLEAN :
           LET row == [r EXCEPT !.progress = @ \/ saved]
           IN  SetRow(wk[w].job, IF provider THEN UncountAttemptRow(row, wk[w].att) ELSE row)
    BY <1>9 DEF ReviewTransient
  <2> DEFINE b == r.progress \/ saved
             row == [r EXCEPT !.progress = b]
             new == IF provider THEN UncountAttemptRow(row, wk[w].att) ELSE row
  <2>3. b \in BOOLEAN /\ SetRow(wk[w].job, new)
    BY <2>2
  <2> HIDE DEF b
  <2>4. SameColumns(r, row) /\ row \in JobRow
    BY <1>0, <2>3, OtherColumns
  <2> HIDE DEF row
  <2>5. SameColumns(row, UncountAttemptRow(row, wk[w].att))
    BY <2>4, OtherColumns
  <2>6. SameColumns(r, new)
    BY <2>4, <2>5 DEF SameColumns
  <2> HIDE DEF new
  <2> QED BY <1>plain, <2>1, <2>3, <2>6, <1>cols
<1>10. CASE ReviewPermanent(w)
  BY <1>10, <1>plain, <1>quiet DEF ReviewPermanent, At, gerritVars, NothingSent
<1>11. CASE Reprobe(w) \/ ReprobeFails(w)
  <2>1. /\ \E l \in {"promote", "retryReview", "retryProvider", "retryRecovery"} : Goto(w, l)
        /\ wk[w].pc \in {"reprobe", "reprobeProvider"} /\ NothingSent /\ UNCHANGED jobs
    BY <1>11 DEF Reprobe, ReprobeFails, StoreStep, gerritVars, NothingSent
  <2> QED BY <1>plain, <2>1, <1>quiet
<1>12. CASE Promote(w)
  BY <1>12, <1>plain, TransitDurable DEF Promote, At
<1>13. CASE Save(w)
  <2>1. /\ wk[w].pc = "save" /\ Fenced(w) /\ NothingSent
        /\ SetRow(wk[w].job, SaveReviewResultRow(r))
        /\ \E l \in {"idle", "finishReview"} : GoesOn(w, l, wk[w].st, wk[w].snap)
    BY <1>13, GoesOnForms DEF Save, At, StoreStep, gerritVars, NothingSent
  <2>2. SaveReviewResultRow(r).owner = NoWorker
    BY <1>0, ReleasedFields
  <2> QED BY <1>plain, <2>1, <2>2, EndDurable
<1>14. CASE FinishReview(w)
  <2> DEFINE s == UncountAttemptRow(r, wk[w].att)
  <2>1. Leave(w) /\ NothingSent /\ SetRow(wk[w].job, s)
    BY <1>14 DEF FinishReview, StoreStep, gerritVars, NothingSent
  <2>2. SameColumns(r, s)
    BY <1>0, OtherColumns
  <2>3. SoundAt(w, "idle")
    BY <1>plain, EasySteps DEF SoundAt
  <2> HIDE DEF s
  <2> QED BY <2>1, <2>2, <2>3, GoesOnForms, ColumnsDurable
<1> QED
  BY <1>1, <1>2, <1>3, <1>4, <1>5, <1>6, <1>7, <1>8, <1>9, <1>10, <1>11, <1>12, <1>13, <1>14

-----------------------------------------------------------------------------
(* The publish phase. *)

\* Where the loaded publication status leads.
LEMMA EntryTargets ==
    ASSUME NEW status \in PublicationStatus \cup {NONE}
    PROVE  /\ \/ status = NONE /\ PublishEntry(status) = "begin"
              \/ status = "POSTED" /\ PublishEntry(status) = "complete"
              \/ status = "FAILED" /\ PublishEntry(status) = "fail"
              \/ status \in {"PENDING", "AMBIGUOUS"} /\ PublishEntry(status) = "startReconcile"
           /\ \/ status \in {NONE, "FAILED"} /\ ResolveEntry(status) = "supersede"
              \/ status = "POSTED" /\ ResolveEntry(status) = "complete"
              \/ status \in {"PENDING", "AMBIGUOUS"} /\ ResolveEntry(status) = "startResolve"
BY DEF PublishEntry, ResolveEntry, PublicationStatus, NONE

\* The branches of _process_publish are open to a worker that knows the status.
LEMMA EntrySound ==
    ASSUME NEW w, NEW r, NEW c, NEW st, NEW status \in PublicationStatus \cup {NONE},
           Keeps(w, r) /\ status \notin {"AMBIGUOUS", "POSTED"} => c = 0,
           Keeps(w, r) => r.state = "PUBLISHING"
    PROVE  Sound(PublishEntry(status), st, status, w, r, c)
<1>1. CASE PublishEntry(status) = "begin"
  BY <1>1 DEF Sound, UncheckedPCs, ReconcilePCs, UnpostedPCs, PlainPCs, LoadedPCs
<1>2. CASE PublishEntry(status) = "complete"
  BY <1>2, EasySteps DEF FreePCs
<1>3. CASE PublishEntry(status) = "fail" /\ status = "FAILED"
  BY <1>3, EasySteps DEF PlainPCs
<1>4. CASE PublishEntry(status) = "startReconcile" /\ status # "POSTED"
  BY <1>4 DEF Sound, UncheckedPCs, ReconcilePCs, UnpostedPCs, PlainPCs, LoadedPCs
<1> QED BY <1>1, <1>2, <1>3, <1>4, EntryTargets

\* The branches of _resolve_superseded_publish likewise.
LEMMA ResolveSound ==
    ASSUME NEW w, NEW r, NEW c, NEW st, NEW status \in PublicationStatus \cup {NONE},
           Keeps(w, r) /\ status \notin {"AMBIGUOUS", "POSTED"} => c = 0
    PROVE  Sound(ResolveEntry(status), st, status, w, r, c)
<1>1. CASE ResolveEntry(status) = "supersede" /\ status \in {NONE, "FAILED"}
  BY <1>1, EasySteps DEF PlainPCs, NONE
<1>2. CASE ResolveEntry(status) = "complete"
  BY <1>2, EasySteps DEF FreePCs
<1>3. CASE ResolveEntry(status) = "startResolve" /\ status # "POSTED"
  BY <1>3 DEF Sound, UncheckedPCs, ReconcilePCs, UnpostedPCs, PlainPCs, LoadedPCs
<1> QED BY <1>1, <1>2, <1>3, EntryTargets

\* ensure_current_revision between a lookup that found nothing and the POST.
LEMMA RevisionDurable ==
    ASSUME IInv, Durable, NEW w \in Workers, wk[w].pc \in {"recheck", "preGet"}, NEW next,
           RevisionCheck(w, next), SoundAt(w, next)
    PROVE  Durable'
<1>0. wk[w].pc # "idle" /\ SoundAt(w, wk[w].pc)
  BY BusySound
<1>1. /\ NothingSent /\ UNCHANGED jobs
      /\ \/ GotoFailed(w, "failPublication") \/ Goto(w, "supersede") \/ Goto(w, next)
  BY DEF RevisionCheck, StoreStep, gerritVars, NothingSent
<1>2. Keeps(w, Mine(w)) /\ posted[wk[w].job] = 0 /\ Mine(w).state = "PUBLISHING"
  BY <1>0 DEF SoundAt, Sound, UncheckedPCs, UnpostedPCs
<1>3. SoundAt(w, "failPublication")
  BY <1>2 DEF SoundAt, Sound, ReconcilePCs, LoadedPCs
<1>4. SoundAt(w, "supersede")
  BY <1>2, EasySteps DEF SoundAt, PlainPCs
<1> QED BY <1>0, <1>1, <1>3, <1>4, QuietDurable

\* The POST, answered or not: only the holder of the row sends it, and only
\* after the row has been marked AMBIGUOUS.
LEMMA SentDurable ==
    ASSUME IInv, Durable, NEW w \in Workers, wk[w].pc = "post",
           UNCHANGED <<jobs, inFlight>>, posted' \in [PS -> Nat],
           \A q \in PS \ {wk[w].job} : posted'[q] = posted[q],
           NEW l \in FreePCs, GoesOn(w, l, wk[w].st, wk[w].snap)
    PROVE  Durable'
<1>1. wk[w].pc # "idle" /\ SoundAt(w, "post") /\ wk[w].job \in PS
  BY BusySound
<1>2. Keeps(w, Mine(w)) /\ Mine(w).state = "PUBLISHING" /\ Mine(w).pub = "AMBIGUOUS"
  BY <1>1 DEF SoundAt, Sound, UncheckedPCs
<1>3. ASSUME NEW q \in PS
      PROVE  RowDurable(jobs'[q], posted'[q]) /\ inFlight'[q] = 0
  <2>1. RowDurable(jobs[q], posted[q]) /\ inFlight[q] = 0
    BY DEF Durable
  <2>2. CASE q = wk[w].job
    BY <1>2, <2>1, <2>2 DEF RowDurable, NeedsPublishRecovery, Mine
  <2>3. CASE q # wk[w].job
    BY <2>1, <2>3
  <2> QED BY <2>2, <2>3
<1>4. wk'[w].pc # "idle" => SoundAt(w, wk[w].pc)'
  BY EasySteps DEF GoesOn, SoundAt
<1>5. ASSUME NEW v \in Workers, v # w, wk'[v].pc # "idle"
      PROVE  SoundAt(v, wk[v].pc)'
  <2>1. wk'[v] = wk[v]
    BY <1>5 DEF GoesOn
  <2>2. SoundAt(v, wk[v].pc) /\ wk[v].job \in PS
    BY <1>5, <2>1, BusySound
  <2>3. CASE wk[v].job = wk[w].job
    <3>1. ~Keeps(v, Mine(v))
      BY <1>2, <1>5, <2>3 DEF Keeps, Mine
    <3>2. Sound(wk[v].pc, wk[v].st, wk[v].snap, v, Mine(v), posted'[wk[v].job])
      BY <2>2, <3>1 DEF SoundAt, Sound
    <3> QED BY <2>1, <3>2 DEF SoundAt, Mine
  <2>4. CASE wk[v].job # wk[w].job
    <3>1. posted'[wk[v].job] = posted[wk[v].job]
      BY <2>2, <2>4
    <3> QED BY <2>1, <2>2, <3>1 DEF SoundAt, Mine
  <2> QED BY <2>3, <2>4
<1> QED BY <1>3, <1>4, <1>5 DEF Durable

\* Every step of _process_publish.
LEMMA PublishDurable ==
    ASSUME IInv, Durable, NoStaleWriter, NEW w \in Workers, wk[w].pc # "idle",
           PublishStep(w) \/ PostTransient(w) \/ VoteRetry(w)
    PROVE  Durable'
<1> DEFINE c == posted[wk[w].job]
           r == Mine(w)
           st == wk[w].st
           snap == wk[w].snap
<1>0. /\ r \in JobRow /\ RowInv(r) /\ c \in Nat /\ RowDurable(r, c) /\ SoundAt(w, wk[w].pc)
      /\ wk[w].job \in PS /\ snap \in PublicationStatus \cup {NONE}
  BY BusySound, Busy DEF WorkerRecord
<1>forms. /\ \A l : Goto(w, l) \/ GotoFailed(w, l) => GoesOn(w, l, st, snap)
          /\ Leave(w) => GoesOn(w, "idle", st, snap)
          /\ \A l, x : wk' = [wk EXCEPT ![w].pc = l, ![w].st = x] => GoesOn(w, l, x, snap)
          /\ \A l, x : wk' = [wk EXCEPT ![w].pc = l, ![w].snap = x] => GoesOn(w, l, st, x)
  BY GoesOnForms
<1>fenced. Fenced(w) => Keeps(w, r) /\ r.owner = w
  BY DEF Fenced, LeasedBy, Keeps
<1>same. Undisturbed(r, r, w) /\ (UNCHANGED jobs => Rewrites(w, r))
  BY <1>0, OtherColumns, SameColumnsKept DEF Rewrites, Mine
<1>free. \A l \in FreePCs : SoundAt(w, l)
  BY EasySteps DEF SoundAt
<1>1. CASE Load(w)
  <2>1. /\ wk[w].pc = "load" /\ NothingSent /\ UNCHANGED jobs
        /\ GoesOn(w, "latest", st, r.pub)
    BY <1>1, <1>forms DEF Load, At, StoreStep, gerritVars, NothingSent
  <2>2. r.pub \notin {"AMBIGUOUS", "POSTED"} => c = 0
    BY <1>0 DEF RowDurable
  <2>3. Keeps(w, r) => r.state = st /\ st \in PublishStates
    BY <1>0, <2>1 DEF SoundAt, Sound
  <2>4. Sound("latest", st, r.pub, w, r, c)
    BY <2>2, <2>3 DEF Sound, UncheckedPCs, ReconcilePCs, UnpostedPCs, PlainPCs
  <2> QED BY <1>0, <1>same, <2>1, <2>4, DurableStep
<1>2. CASE Latest(w)
  <2>1. /\ wk[w].pc = "latest" /\ NothingSent /\ UNCHANGED jobs
        /\ \/ Goto(w, ResolveEntry(snap))
           \/ Goto(w, "toPublishing")
           \/ st # "READY_TO_PUBLISH" /\ Goto(w, PublishEntry(snap))
    BY <1>2 DEF Latest, At, StoreStep, gerritVars, NothingSent
  <2>2. /\ Keeps(w, r) /\ snap \notin {"AMBIGUOUS", "POSTED"} => c = 0
        /\ Keeps(w, r) => r.state = st /\ st \in PublishStates
    BY <1>0, <2>1 DEF SoundAt, Sound, LoadedPCs
  <2>3. SoundAt(w, ResolveEntry(snap))
    BY <1>0, <2>2, ResolveSound DEF SoundAt
  <2>4. SoundAt(w, "toPublishing")
    BY <2>2 DEF SoundAt, Sound, UncheckedPCs, ReconcilePCs, UnpostedPCs, PlainPCs
  <2>5. st # "READY_TO_PUBLISH" => SoundAt(w, PublishEntry(snap))
    BY <1>0, <2>2, EntrySound DEF SoundAt, PublishStates
  <2> QED BY <2>1, <2>3, <2>4, <2>5, QuietDurable
<1>3. CASE ToPublishing(w)
  <2> DEFINE s == TransitionRow(r, "PUBLISHING")
  <2>1. /\ wk[w].pc = "toPublishing" /\ Fenced(w) /\ NothingSent /\ SetRow(wk[w].job, s)
        /\ GoesOn(w, PublishEntry(snap), "PUBLISHING", snap)
    BY <1>3, <1>forms DEF ToPublishing, At, Transit, StoreStep, gerritVars, NothingSent
  <2>2. s.owner = r.owner /\ s.pub = r.pub /\ s.state = "PUBLISHING"
    BY <1>0, TransitionFields
  <2> HIDE DEF s
  <2>3. snap \notin {"AMBIGUOUS", "POSTED"} => c = 0
    BY <1>0, <1>fenced, <2>1 DEF SoundAt, Sound, LoadedPCs
  <2>4. Sound(PublishEntry(snap), "PUBLISHING", snap, w, s, c)
    BY <1>0, <2>2, <2>3, EntrySound
  <2>5. RowDurable(s, c) /\ Undisturbed(r, s, w)
    BY <1>0, <1>fenced, <2>1, <2>2, OwnerUndisturbed DEF RowDurable, NeedsPublishRecovery, ABSENT
  <2> QED BY <2>1, <2>4, <2>5, SetRowRewrites, DurableStep
<1>4. CASE Begin(w)
  <2> DEFINE s == BeginPublicationRow(r)
  <2>1. /\ Fenced(w) /\ r.state = "PUBLISHING" /\ NothingSent /\ SetRow(wk[w].job, s)
        /\ GoesOn(w, PublishEntry(s.pub), st, s.pub)
    BY <1>4, <1>forms DEF Begin, StoreStep, gerritVars, NothingSent
  <2>2. s.owner = r.owner /\ s.state = r.state /\ s.pub = IF r.pub = NONE THEN "PENDING" ELSE r.pub
    BY <1>0, BeginFields
  <2>3. s.pub \in PublicationStatus \cup {NONE}
    BY <1>0, <2>2 DEF JobRow, PublicationStatus
  <2> HIDE DEF s
  <2>4. s.pub \notin {"AMBIGUOUS", "POSTED"} => c = 0
    BY <1>0, <2>2 DEF RowDurable, NONE
  <2>5. Sound(PublishEntry(s.pub), st, s.pub, w, s, c)
    BY <2>1, <2>2, <2>3, <2>4, EntrySound
  <2>6. RowDurable(s, c) /\ Undisturbed(r, s, w)
    BY <1>0, <1>fenced, <2>1, <2>2, <2>4, OwnerUndisturbed
       DEF RowDurable, NeedsPublishRecovery, ABSENT
  <2> QED BY <2>1, <2>5, <2>6, SetRowRewrites, DurableStep
<1>5. CASE StartReconcile(w)
  <2>1. /\ wk[w].pc \in {"startReconcile", "startResolve"} /\ Fenced(w) /\ NothingSent
        /\ UNCHANGED jobs
        /\ \/ wk[w].pc = "startReconcile" /\ Goto(w, "lookup")
           \/ wk[w].pc = "startResolve" /\ Goto(w, "resolveLookup")
    BY <1>5 DEF StartReconcile, At, StoreStep, gerritVars, NothingSent
  <2>2. snap # "POSTED" /\ (snap \notin {"AMBIGUOUS", "POSTED"} => c = 0)
    BY <1>0, <1>fenced, <2>1 DEF SoundAt, Sound, ReconcilePCs, LoadedPCs
  <2>3. wk[w].pc = "startReconcile" => SoundAt(w, "lookup")
    BY <1>0, <1>fenced, <2>1, <2>2 DEF SoundAt, Sound, UncheckedPCs, UnpostedPCs, PlainPCs
  <2>4. SoundAt(w, "resolveLookup")
    BY <2>2 DEF SoundAt, Sound, UncheckedPCs, UnpostedPCs, PlainPCs
  <2> QED BY <2>1, <2>3, <2>4, QuietDurable
<1>6. CASE Lookup(w)
  <2>1. /\ wk[w].pc = "lookup" /\ NothingSent /\ UNCHANGED jobs
        /\ Goto(w, "complete") \/ (~(c > 0) /\ Goto(w, "recheck"))
    BY <1>6 DEF Lookup, At, StoreStep, gerritVars, NothingSent
  <2>2. Keeps(w, r) /\ r.state = "PUBLISHING"
    BY <1>0, <2>1 DEF SoundAt, Sound, UncheckedPCs
  <2>3. ~(c > 0) => c = 0
    BY <1>0
  <2> HIDE DEF c
  <2>4. c = 0 => Sound("recheck", st, snap, w, r, c)
    BY <2>2 DEF Sound, ReconcilePCs, LoadedPCs
  <2>5. SoundAt(w, "complete")
    BY <1>free DEF FreePCs
  <2>6. c = 0 => SoundAt(w, "recheck")
    BY <2>4 DEF SoundAt, c
  <2> QED BY <2>1, <2>3, <2>5, <2>6, QuietDurable
<1>7. CASE ResolveLookup(w)
  <2>1. /\ NothingSent /\ UNCHANGED jobs
        /\ Goto(w, "complete") \/ (~(c > 0) /\ Goto(w, "supersede"))
    BY <1>7 DEF ResolveLookup, StoreStep, gerritVars, NothingSent
  <2>2. ~(c > 0) => SoundAt(w, "supersede")
    BY <1>0, EasySteps DEF SoundAt, PlainPCs
  <2>3. SoundAt(w, "complete")
    BY <1>free DEF FreePCs
  <2> QED BY <2>1, <2>2, <2>3, QuietDurable
<1>8. CASE Recheck(w)
  <2>1. wk[w].pc = "recheck" /\ RevisionCheck(w, "publishGate")
    BY <1>8 DEF Recheck, At
  <2>2. SoundAt(w, "publishGate")
    BY <1>0, <2>1 DEF SoundAt, Sound, UncheckedPCs, ReconcilePCs, UnpostedPCs, LoadedPCs
  <2> QED BY <2>1, <2>2, RevisionDurable
<1>9. CASE PublishGate(w)
  <2>1. /\ wk[w].pc = "publishGate" /\ StartAttempt(w, "PUBLISH", "markAmbiguous")
        /\ wk[w].pc \in UnpostedPCs
    BY <1>9 DEF PublishGate, At, UnpostedPCs
  <2>2. Fenced(w) => SoundAt(w, "markAmbiguous")
    BY <1>0, <1>fenced, <2>1 DEF SoundAt, Sound, ReconcilePCs, LoadedPCs, UnpostedPCs
  <2> QED BY <2>1, <2>2, StartDurable
<1>10. CASE MarkAmbiguous(w)
  <2> DEFINE s == MarkPublicationRow(r, "AMBIGUOUS")
  <2>1. /\ NothingSent /\ SetRow(wk[w].job, s)
        /\ \/ wk[w].pc = "markAmbiguous" /\ Goto(w, "preGet")
           \/ Goto(w, "retryPublish")
    BY <1>10 DEF MarkAmbiguous, At, StoreStep, gerritVars, NothingSent
  <2>2. /\ s.owner = r.owner /\ s.live = r.live /\ s.state = r.state /\ s.pub = "AMBIGUOUS"
        /\ s.retry = r.retry
    BY <1>0 DEF MarkPublicationRow, JobRow
  <2> HIDE DEF s
  <2>3. RowDurable(s, c)
    BY <1>0, <2>2 DEF RowDurable, NeedsPublishRecovery
  <2>4. \A v : Keeps(v, s) <=> Keeps(v, r)
    BY <2>2 DEF Keeps
  <2>5. Undisturbed(r, s, w)
    BY <2>2, <2>4 DEF Undisturbed
  <2>6. wk[w].pc = "markAmbiguous" => Sound("preGet", st, snap, w, s, c)
    BY <1>0, <2>2, <2>4 DEF SoundAt, Sound, UncheckedPCs, ReconcilePCs, LoadedPCs, UnpostedPCs
  <2>7. Sound("retryPublish", st, snap, w, s, c)
    BY EasySteps DEF FreePCs
  <2> QED BY <1>forms, <2>1, <2>3, <2>5, <2>6, <2>7, SetRowRewrites, DurableStep
<1>11. CASE PreGet(w)
  <2>1. wk[w].pc = "preGet" /\ RevisionCheck(w, "guard")
    BY <1>11 DEF PreGet, At
  <2>2. SoundAt(w, "guard")
    BY <1>0, <2>1 DEF SoundAt, Sound, UncheckedPCs, ReconcilePCs, UnpostedPCs, LoadedPCs
  <2> QED BY <2>1, <2>2, RevisionDurable
<1>12. CASE Guard(w)
  <2>1. /\ wk[w].pc = "guard" /\ NothingSent /\ UNCHANGED jobs
        /\ \/ Leave(w)
           \/ Fenced(w) /\ Goto(w, "supersede")
           \/ Fenced(w) /\ r.state = "PUBLISHING" /\ Goto(w, "post")
    BY <1>12 DEF Guard, At, StoreStep, gerritVars, NothingSent
  <2>2. Fenced(w) => c = 0 /\ r.pub = "AMBIGUOUS"
    BY <1>0, <1>fenced, <2>1 DEF SoundAt, Sound, UnpostedPCs
  <2>3. Fenced(w) => SoundAt(w, "supersede")
    BY <2>2, EasySteps DEF SoundAt, PlainPCs
  <2>4. Fenced(w) /\ r.state = "PUBLISHING" => SoundAt(w, "post")
    BY <1>fenced, <2>2 DEF SoundAt, Sound, ReconcilePCs, LoadedPCs
  <2> QED BY <2>1, <2>3, <2>4, LeaveDurable, QuietDurable
<1>13. CASE Post(w)
  <2>1. /\ wk[w].pc = "post" /\ Goto(w, "posted") /\ UNCHANGED <<jobs, inFlight>>
        /\ posted' = [posted EXCEPT ![wk[w].job] = @ + 1] /\ posted \in [PS -> Nat]
    BY <1>13 DEF Post, At, IInv, ScalarsOK
  <2>2. posted' \in [PS -> Nat] /\ \A q \in PS \ {wk[w].job} : posted'[q] = posted[q]
    BY <1>0, <2>1
  <2>3. GoesOn(w, "posted", wk[w].st, wk[w].snap) /\ "posted" \in FreePCs
    BY <1>forms, <2>1 DEF FreePCs
  <2> QED BY <2>1, <2>2, <2>3, SentDurable
<1>14. CASE PostTransient(w)
  <2>1. /\ wk[w].pc = "post" /\ GotoFailed(w, "ambiguousAgain") /\ UNCHANGED jobs
        /\ posted \in [PS -> Nat]
        /\ \/ posted' = [posted EXCEPT ![wk[w].job] = @ + 1] /\ UNCHANGED inFlight
           \/ UNCHANGED <<posted, inFlight>>
    BY <1>14 DEF PostTransient, At, IInv, ScalarsOK, NoStaleWriter
  <2>2. /\ posted' \in [PS -> Nat] /\ UNCHANGED inFlight
        /\ \A q \in PS \ {wk[w].job} : posted'[q] = posted[q]
    BY <1>0, <2>1
  <2>3. GoesOn(w, "ambiguousAgain", wk[w].st, wk[w].snap) /\ "ambiguousAgain" \in FreePCs
    BY <1>forms, <2>1 DEF FreePCs
  <2> QED BY <2>1, <2>2, <2>3, SentDurable
<1>15. CASE Posted(w)
  <2>1. SoundAt(w, "complete") /\ FinishAttempt(w, "complete")
    BY <1>15, <1>free DEF Posted, FreePCs
  <2> QED BY <2>1, FinishDurable
<1>16. CASE FailPublication(w)
  <2> DEFINE s == MarkPublicationRow(r, "FAILED")
  <2>1. wk[w].pc = "failPublication" /\ NothingSent /\ SetRow(wk[w].job, s) /\ Goto(w, "fail")
    BY <1>16 DEF FailPublication, At, StoreStep, gerritVars, NothingSent
  <2>2. s.owner = r.owner /\ s.live = r.live /\ s.state = r.state
    BY <1>0, MarkFields
  <2>3. Keeps(w, r) /\ c = 0
    BY <1>0, <2>1 DEF SoundAt, Sound, UncheckedPCs, UnpostedPCs
  <2> HIDE DEF s
  <2>4. RowDurable(s, c) /\ Undisturbed(r, s, w)
    BY <1>0, <2>2, <2>3, OwnerUndisturbed DEF RowDurable, Keeps
  <2>5. Sound("fail", st, snap, w, s, c)
    BY <2>3, EasySteps DEF PlainPCs
  <2> QED BY <1>forms, <2>1, <2>4, <2>5, SetRowRewrites, DurableStep
<1>17. CASE CompleteWithVote(w)
  <2>1. /\ NothingSent
        /\ \/ Fenced(w) /\ SetRow(wk[w].job, CompletePublicationRow(r, TRUE)) /\ Goto(w, "vote")
           \/ UNCHANGED jobs /\ Leave(w)
    BY <1>17 DEF CompleteWithVote, StoreStep, gerritVars, NothingSent
  <2>2. CASE Fenced(w) /\ SetRow(wk[w].job, CompletePublicationRow(r, TRUE)) /\ Goto(w, "vote")
    <3> DEFINE s == CompletePublicationRow(r, TRUE)
    <3>1. SetRow(wk[w].job, s) /\ s.owner = r.owner /\ s.state = "PUBLISHING" /\ s.pub = "POSTED"
      BY <1>0, <2>2, DeferDoneFields
    <3> HIDE DEF s
    <3>2. RowDurable(s, c) /\ Undisturbed(r, s, w)
      BY <1>fenced, <2>2, <3>1, OwnerUndisturbed DEF RowDurable, NeedsPublishRecovery, ABSENT
    <3>3. Sound("vote", st, snap, w, s, c)
      BY EasySteps DEF FreePCs
    <3> QED BY <1>forms, <2>1, <2>2, <3>1, <3>2, <3>3, SetRowRewrites, DurableStep
  <2> QED BY <2>1, <2>2, LeaveDurable
<1>18. CASE CompleteLegacy(w)
  <2>1. NothingSent /\ Leave(w)
    BY <1>18 DEF CompleteLegacy, StoreStep, gerritVars, NothingSent
  <2>2. CASE /\ \/ r.state = "SUPERSEDED"
                \/ r.state = "PUBLISHING" /\ r.owner \in {w, NoWorker}
             /\ SetRow(wk[w].job, CompletePublicationRow(r, FALSE))
    <3> DEFINE s == CompletePublicationRow(r, FALSE)
    <3>1. SetRow(wk[w].job, s) /\ s.owner = NoWorker /\ s.state = "DONE" /\ s.pub = "POSTED"
      BY <1>0, <2>2 DEF CompletePublicationRow, Released, JobRow
    <3> HIDE DEF s
    <3>2. Undisturbed(r, s, w)
      BY <2>2, <3>1, WorkersAssumption DEF Undisturbed, Keeps
    <3>3. RowDurable(s, c)
      BY <3>1 DEF RowDurable, ABSENT
    <3>4. Sound("idle", st, snap, w, s, c)
      BY EasySteps DEF FreePCs
    <3> QED BY <1>forms, <2>1, <3>1, <3>2, <3>3, <3>4, SetRowRewrites, DurableStep
  <2>3. CASE UNCHANGED jobs
    BY <2>1, <2>3, LeaveDurable
  <2> QED BY <1>18, <2>2, <2>3 DEF CompleteLegacy
<1>19. CASE Vote(w)
  <2>1. NothingSent /\ Leave(w) /\ Fenced(w) /\ "idle" \in FreePCs
    BY <1>19 DEF Vote, StoreStep, gerritVars, NothingSent, FreePCs
  <2>2. CASE r.pub = "POSTED" /\ SetRow(wk[w].job, FinishVoteRow(r))
    <3> DEFINE s == FinishVoteRow(r)
    <3>1. SetRow(wk[w].job, s) /\ s.owner = NoWorker /\ s.state = "DONE" /\ s.pub = "POSTED"
      BY <1>0, <2>2 DEF FinishVoteRow, Released, JobRow
    <3> HIDE DEF s
    <3>2. RowDurable(s, c)
      BY <3>1 DEF RowDurable, ABSENT
    <3> QED BY <1>forms, <2>1, <3>1, <3>2, ReleaseDurable
  <2>3. CASE UNCHANGED jobs
    BY <2>1, <2>3, LeaveDurable
  <2> QED BY <1>19, <2>2, <2>3 DEF Vote
<1>20. CASE VoteRetry(w)
  <2> DEFINE s == ScheduleRetryRow(r, "PUBLISHING")
  <2>1. /\ NothingSent /\ Leave(w) /\ Fenced(w) /\ SetRow(wk[w].job, s) /\ "idle" \in FreePCs
    BY <1>20 DEF VoteRetry, gerritVars, NothingSent, FreePCs
  <2>2. s.owner = NoWorker /\ s.pub = r.pub /\ s.state = "RETRY_WAIT" /\ s.retry = "PUBLISHING"
    BY <1>0 DEF ScheduleRetryRow, Released, JobRow
  <2> HIDE DEF s
  <2>3. RowDurable(s, c)
    BY <1>0, <2>2 DEF RowDurable, NeedsPublishRecovery, ABSENT
  <2> QED BY <1>forms, <2>1, <2>2, <2>3, ReleaseDurable
<1> QED
  BY <1>1, <1>2, <1>3, <1>4, <1>5, <1>6, <1>7, <1>8, <1>9, <1>10, <1>11, <1>12, <1>13, <1>14,
     <1>15, <1>16, <1>17, <1>18, <1>19, <1>20 DEF PublishStep

-----------------------------------------------------------------------------
(* Everybody else, and all together. *)

\* Nothing was published, and every slot is idle.
LEMMA InitDurable == Init => Durable
<1> SUFFICES ASSUME Init PROVE Durable
  OBVIOUS
<1>1. \A p \in PS : jobs[p].owner = NoWorker /\ posted[p] = 0 /\ inFlight[p] = 0
  BY DEF Init, AbsentRow
<1>2. \A w \in Workers : wk[w].pc = "idle"
  BY DEF Init, IdleWorker
<1> QED BY <1>1, <1>2 DEF Durable, RowDurable

\* What is claimed of a worker that has lost its row does not depend on it.
LEMMA LostSound ==
    ASSUME NEW l, NEW st, NEW snap, NEW v, NEW r, NEW s, NEW c,
           Sound(l, st, snap, v, r, c), ~Keeps(v, r), ~Keeps(v, s)
    PROVE  Sound(l, st, snap, v, s, c)
BY DEF Sound

\* A transaction on rows nobody has under way.
LEMMA TableDurable ==
    ASSUME IInv, Durable, UNCHANGED <<wk, posted, inFlight>>,
           \A p \in PS : /\ RowDurable(jobs'[p], posted[p])
                         /\ Undisturbed(jobs[p], jobs'[p], NoWorker)
    PROVE  Durable'
<1>1. \A p \in PS : RowDurable(jobs'[p], posted'[p]) /\ inFlight'[p] = 0
  BY DEF Durable
<1>2. ASSUME NEW v \in Workers, wk[v].pc # "idle"
      PROVE  Sound(wk[v].pc, wk[v].st, wk[v].snap, v, jobs'[wk[v].job], posted[wk[v].job])
  <2>1. /\ wk[v].job \in PS /\ Mine(v) = jobs[wk[v].job]
        /\ Sound(wk[v].pc, wk[v].st, wk[v].snap, v, Mine(v), posted[wk[v].job])
    BY <1>2, BusySound DEF SoundAt
  <2>2. wk[v].pc \in UncheckedPCs => Mine(v).pub # NONE
    BY UncheckedIntent
  <2>3. Undisturbed(Mine(v), jobs'[wk[v].job], NoWorker) /\ v # NoWorker
    BY <2>1, WorkersAssumption
  <2> QED BY <2>1, <2>2, <2>3, BystanderSound
<1> QED BY <1>1, <1>2 DEF Durable, SoundAt, Mine

\* A row is given up that is not being published.
LEMMA GivenUpDurable ==
    ASSUME NEW r, NEW s, NEW c, RowDurable(r, c), c \in Nat, s.owner = NoWorker,
           r.pub = NONE \/ (~NeedsPublishRecovery(r) /\ r.state # "DONE")
    PROVE  RowDurable(s, c) /\ Undisturbed(r, s, NoWorker)
<1>1. c = 0
  BY DEF RowDurable, NONE
<1>2. \A v \in Workers : ~Keeps(v, s)
  BY WorkersAssumption DEF Keeps
<1>3. r.state = "PUBLISHING" => r.pub = NONE
  BY DEF NeedsPublishRecovery
<1> QED BY <1>1, <1>2, <1>3 DEF RowDurable, Undisturbed

\* A row that stays as it is.
LEMMA SameRowDurable ==
    ASSUME NEW r, NEW w
    PROVE  Undisturbed(r, r, w)
BY DEF Undisturbed

\* Uploads, closing and restoring touch none of it, and no POST is in flight.
LEMMA GerritDurable ==
    ASSUME IInv, Durable, GerritStep
    PROVE  Durable'
<1>1. CASE Upload \/ ChangeCloses \/ Restore
  <2>1. UNCHANGED <<jobs, wk, posted, inFlight>>
    BY <1>1 DEF Upload, ChangeCloses, Restore
  <2> QED BY <2>1 DEF Durable, SoundAt, Mine
<1>2. ASSUME NEW p \in PS, CommitLatePost(p)
      PROVE  FALSE
  <2>1. inFlight[p] = 0 /\ inFlight[p] > 0
    BY <1>2 DEF CommitLatePost, Durable
  <2> QED BY <2>1
<1> QED BY <1>1, <1>2 DEF GerritStep

\* Inserting or reviving a row: nobody has it, and nothing was posted.
LEMMA EnqueuedDurable ==
    ASSUME NEW r, RowInv(r), NEW c, RowDurable(r, c),
           NEW preCutoff \in BOOLEAN, NEW revive \in BOOLEAN
    PROVE  /\ RowDurable(EnqueuedRow(r, preCutoff, revive), c)
           /\ Undisturbed(r, EnqueuedRow(r, preCutoff, revive), NoWorker)
           /\ EnqueuedRow(r, preCutoff, revive).pub = r.pub
<1> DEFINE s == EnqueuedRow(r, preCutoff, revive)
<1>1. /\ s.owner = r.owner /\ s.live = r.live /\ s.pub = r.pub
      /\ s = r \/ r.state \in {ABSENT, "SKIPPED_SCOPE"}
  BY DEF EnqueuedRow, Exists, RowInv, JobRow
<1> HIDE DEF s
<1>2. CASE s = r
  BY <1>2, SameRowDurable DEF s
<1>3. CASE r.state \in {ABSENT, "SKIPPED_SCOPE"}
  <2>1. r.owner = NoWorker /\ ~(c > 0)
    BY <1>3 DEF RowDurable, NeedsPublishRecovery, ABSENT
  <2>2. \A v \in Workers : ~Keeps(v, s) /\ ~Keeps(v, r)
    BY <1>1, <2>1, WorkersAssumption DEF Keeps
  <2>3. RowDurable(s, c) /\ Undisturbed(r, s, NoWorker)
    BY <1>1, <2>1, <2>2 DEF RowDurable, Undisturbed
  <2> QED BY <1>1, <2>3 DEF s
<1> QED BY <1>1, <1>2, <1>3

\* The ordering rule gives up only rows without an unresolved publication.
LEMMA OrderingDurable ==
    ASSUME NEW t \in [PS -> JobRow], NEW p \in PS, NEW q \in PS,
           NEW c \in Nat, RowDurable(t[q], c)
    PROVE  /\ RowDurable(ApplyPatchsetOrdering(t, p)[q], c)
           /\ Undisturbed(t[q], ApplyPatchsetOrdering(t, p)[q], NoWorker)
<1> DEFINE late(r) == Released([r EXCEPT !.state = "SUPERSEDED"])
           u == ApplyPatchsetOrdering(t, p)
<1>1. late(t[q]).owner = NoWorker /\ MarkSupersededRow(t[q]).owner = NoWorker
  BY ReleasedFields DEF JobRow, Released
<1> HIDE DEF late
<1>2. \/ u[q] = t[q]
      \/ /\ ~NeedsPublishRecovery(t[q]) /\ Pending(t[q])
         /\ u[q] \in {late(t[q]), MarkSupersededRow(t[q])}
  BY DEF ApplyPatchsetOrdering, late
<1> HIDE DEF u
<1>3. CASE u[q] = t[q]
  BY <1>3, SameRowDurable DEF u
<1>4. CASE /\ ~NeedsPublishRecovery(t[q]) /\ Pending(t[q])
           /\ u[q] \in {late(t[q]), MarkSupersededRow(t[q])}
  <2>1. u[q].owner = NoWorker /\ t[q].state # "DONE"
    BY <1>1, <1>4 DEF Pending, TerminalJobStates
  <2>2. RowDurable(u[q], c) /\ Undisturbed(t[q], u[q], NoWorker)
    BY <1>4, <2>1, GivenUpDurable
  <2> QED BY <2>2 DEF u
<1> QED BY <1>2, <1>3, <1>4

\* An event inserts, revives and supersedes in one transaction.
LEMMA EventDurable ==
    ASSUME IInv, Durable, EventStep
    PROVE  Durable'
<1> SUFFICES ASSUME NEW p \in PS, NEW dated \in BOOLEAN, Enqueue(p, dated)
             PROVE  Durable'
  BY DEF EventStep
<1> DEFINE preCutoff == dated /\ startMode = "FROM_NOW" /\ p <= cutoff
           revive == enabled /\ startMode = "INCLUDE_OPEN"
           e == EnqueuedRow(jobs[p], preCutoff, revive)
           entered == [jobs EXCEPT ![p] = e]
<1>1. /\ jobs' = ApplyPatchsetOrdering(entered, p)
      /\ UNCHANGED <<wk, posted, inFlight>>
  BY DEF Enqueue, gerritVars
<1>2. preCutoff \in BOOLEAN /\ revive \in BOOLEAN
  BY DEF IInv, ScalarsOK
<1> HIDE DEF preCutoff, revive
<1>3. /\ \A q \in PS : RowInv(jobs[q]) /\ RowDurable(jobs[q], posted[q]) /\ posted[q] \in Nat
      /\ jobs \in [PS -> JobRow]
  BY DEF IInv, ScalarsOK, Durable
<1>4. /\ RowDurable(e, posted[p]) /\ Undisturbed(jobs[p], e, NoWorker) /\ e.pub = jobs[p].pub
      /\ e \in JobRow
  BY <1>2, <1>3, EnqueuedDurable, EnqueuedSound DEF RowInv
<1> HIDE DEF e
<1>5. entered \in [PS -> JobRow]
  BY <1>3, <1>4
<1>6. \A q \in PS : /\ RowDurable(entered[q], posted[q])
                    /\ Undisturbed(jobs[q], entered[q], NoWorker)
                    /\ entered[q].pub = jobs[q].pub
  BY <1>3, <1>4, SameRowDurable
<1> HIDE DEF entered
<1>7. ASSUME NEW q \in PS
      PROVE  /\ RowDurable(jobs'[q], posted[q])
             /\ Undisturbed(jobs[q], jobs'[q], NoWorker)
  <2>1. RowDurable(jobs'[q], posted[q]) /\ Undisturbed(entered[q], jobs'[q], NoWorker)
    BY <1>1, <1>3, <1>5, <1>6, OrderingDurable
  <2>2. Undisturbed(jobs[q], jobs'[q], NoWorker)
    BY <1>6, <2>1 DEF Undisturbed
  <2> QED BY <2>1, <2>2
<1> QED BY <1>1, <1>7, TableDurable

\* A failed job was not published, and neither was one without an intent.
LEMMA OperatorDurable ==
    ASSUME IInv, Durable, OperatorStep
    PROVE  Durable'
<1>0. /\ \A q \in PS : RowDurable(jobs[q], posted[q]) /\ posted[q] \in Nat
      /\ jobs \in [PS -> JobRow]
  BY DEF IInv, ScalarsOK, Durable
<1>1. ASSUME NEW p \in PS, Requeue(p)
      PROVE  Durable'
  <2> DEFINE s == RequeueRow(jobs[p])
  <2>1. /\ jobs[p].state = "FAILED_PERMANENT" /\ jobs' = [jobs EXCEPT ![p] = s]
        /\ UNCHANGED <<wk, posted, inFlight>>
    BY <1>1 DEF Requeue, SetRow, gerritVars
  <2>2. s.owner = NoWorker
    BY <1>0 DEF RequeueRow, Released, JobRow
  <2> HIDE DEF s
  <2>3. RowDurable(s, posted[p]) /\ Undisturbed(jobs[p], s, NoWorker)
    BY <1>0, <2>1, <2>2, GivenUpDurable DEF NeedsPublishRecovery
  <2>4. \A q \in PS : /\ RowDurable(jobs'[q], posted[q])
                      /\ Undisturbed(jobs[q], jobs'[q], NoWorker)
    BY <1>0, <2>1, <2>3, SameRowDurable
  <2> QED BY <2>1, <2>4, TableDurable
<1>2. ASSUME UNCHANGED <<wk, posted, inFlight>>,
             jobs' = jobs \/ jobs' = SkipPreCutoffJobs(jobs)
      PROVE  Durable'
  <2>1. ASSUME NEW q \in PS
        PROVE  RowDurable(jobs'[q], posted[q]) /\ Undisturbed(jobs[q], jobs'[q], NoWorker)
    <3> DEFINE skipped == Released([jobs[q] EXCEPT !.state = "SKIPPED_SCOPE", !.retry = NONE])
    <3>1. skipped.owner = NoWorker
      BY <1>0 DEF Released, JobRow
    <3>2. \/ jobs'[q] = jobs[q]
          \/ jobs[q].pub = NONE /\ jobs'[q] = skipped
      BY <1>2 DEF SkipPreCutoffJobs
    <3> HIDE DEF skipped
    <3> QED BY <1>0, <3>1, <3>2, SameRowDurable, GivenUpDurable
  <2> QED BY <1>2, <2>1, TableDurable
<1>3. \A mode : SetScope(mode) => jobs' = jobs \/ jobs' = SkipPreCutoffJobs(jobs)
  BY DEF SetScope
<1>4. (\E mode \in StartMode, on \in BOOLEAN : UpsertProject(mode, on))
        \/ (\E mode \in StartMode : SetProjectReviewStartMode(mode))
        \/ (\E on \in BOOLEAN : SetProjectEnabled(on))
      => Durable'
  BY <1>2, <1>3
     DEF UpsertProject, SetProjectReviewStartMode, SetProjectEnabled, gerritVars
<1> QED BY <1>1, <1>4 DEF OperatorStep

\* A lease runs out only when its owner has left the job.
LEMMA ExpireDurable ==
    ASSUME IInv, Durable, NEW p \in PS, LeaseExpire(p)
    PROVE  Durable'
<1> DEFINE r == jobs[p]
           s == [r EXCEPT !.live = FALSE]
<1>1. /\ jobs' = [jobs EXCEPT ![p] = s] /\ UNCHANGED <<wk, posted, inFlight>>
      /\ \A w \in Workers : r.owner = w => wk[w].job # p
  BY DEF LeaseExpire, SetRow, gerritVars
<1>2. jobs \in [PS -> JobRow] /\ r \in JobRow /\ RowDurable(r, posted[p])
  BY DEF IInv, Durable
<1>3. /\ s.owner = r.owner /\ s.state = r.state /\ s.pub = r.pub /\ s.retry = r.retry
  BY <1>2 DEF JobRow
<1> HIDE DEF s
<1>4. RowDurable(s, posted[p])
  BY <1>2, <1>3 DEF RowDurable, NeedsPublishRecovery
<1>5. \A q \in PS : RowDurable(jobs'[q], posted'[q]) /\ inFlight'[q] = 0
  BY <1>1, <1>2, <1>4 DEF Durable
<1>6. ASSUME NEW v \in Workers, wk[v].pc # "idle"
      PROVE  Sound(wk[v].pc, wk[v].st, wk[v].snap, v, jobs'[wk[v].job], posted[wk[v].job])
  <2>1. /\ wk[v].job \in PS /\ Mine(v) = jobs[wk[v].job]
        /\ Sound(wk[v].pc, wk[v].st, wk[v].snap, v, Mine(v), posted[wk[v].job])
    BY <1>6, BusySound DEF SoundAt
  <2>2. CASE wk[v].job = p
    <3>1. ~Keeps(v, r) /\ ~Keeps(v, s)
      BY <1>1, <1>3, <2>2 DEF Keeps
    <3>2. jobs'[wk[v].job] = s /\ Mine(v) = r
      BY <1>1, <1>2, <2>1, <2>2
    <3> QED BY <2>1, <3>1, <3>2, LostSound
  <2>3. CASE wk[v].job # p
    <3>1. jobs'[wk[v].job] = Mine(v)
      BY <1>1, <1>2, <2>1, <2>3
    <3> QED BY <2>1, <3>1
  <2> QED BY <2>2, <2>3
<1> QED BY <1>1, <1>5, <1>6 DEF Durable, SoundAt, Mine

\* A job is claimed from whoever had it: with other slots its lease was gone.
LEMMA ClaimDurable ==
    ASSUME IInv, Durable, NEW w \in Workers, NEW p \in PS, Claim(w, p)
    PROVE  Durable'
<1> DEFINE r == jobs[p]
           s == ClaimRow(r, w)
           c == posted[p]
           k == [IdleWorker EXCEPT !.pc = FirstStep(s.state), !.job = p,
                                   !.st = s.state, !.pol = s.bound]
<1>1. /\ jobs' = [jobs EXCEPT ![p] = s] /\ wk' = [wk EXCEPT ![w] = k]
      /\ UNCHANGED <<posted, inFlight>>
      /\ Pending(r) /\ ~r.live
  BY DEF Claim, Claimable, SetRow, gerritVars
<1>2. jobs \in [PS -> JobRow] /\ r \in JobRow /\ RowInv(r) /\ RowDurable(r, c) /\ c \in Nat
      /\ wk = [v \in Workers |-> wk[v]]
  BY DEF IInv, ScalarsOK, Durable
<1>3. s.state \in RetryTargets \cup {"RECEIVED"}
  BY <1>1, <1>2, ClaimSound
<1>4. /\ s.owner = w /\ s.pub = r.pub
      /\ NeedsPublishRecovery(r) => s.state = "PUBLISHING"
  BY <1>2 DEF ClaimRow, JobRow, NeedsPublishRecovery
<1>5. k.pc = FirstStep(s.state) /\ k.job = p /\ k.st = s.state /\ k.snap = NONE
  BY DEF IdleWorker
<1> HIDE DEF s, k
<1>6. c > 0 => NeedsPublishRecovery(r)
  BY <1>1, <1>2 DEF RowDurable, Pending, TerminalJobStates
<1>7. RowDurable(s, c)
  BY <1>2, <1>3, <1>4, <1>6 DEF RowDurable, NeedsPublishRecovery, RetryTargets, ABSENT
<1>8. Sound(FirstStep(s.state), s.state, NONE, w, s, c)
  <2>1. CASE s.state \in PublishStates
    <3>1. FirstStep(s.state) = "load"
      BY <2>1 DEF FirstStep, PublishStates
    <3> QED BY <2>1, <3>1 DEF Sound, UncheckedPCs, ReconcilePCs, UnpostedPCs, PlainPCs, LoadedPCs
  <2>2. CASE s.state \notin PublishStates
    <3>1. FirstStep(s.state) \in PlainPCs
      BY <2>2 DEF FirstStep, PlainPCs
    <3>2. c = 0
      BY <1>2, <1>4, <1>6, <2>2 DEF PublishStates
    <3> QED BY <3>1, <3>2, EasySteps
  <2> QED BY <2>1, <2>2
<1>9. \A q \in PS : RowDurable(jobs'[q], posted'[q]) /\ inFlight'[q] = 0
  BY <1>1, <1>2, <1>7 DEF Durable
<1>10. SoundAt(w, wk[w].pc)'
  <2>1. wk'[w] = k /\ jobs'[p] = s
    BY <1>1, <1>2
  <2> QED BY <1>1, <1>5, <1>8, <2>1 DEF SoundAt, Mine
<1>11. ASSUME NEW v \in Workers, v # w, wk'[v].pc # "idle"
       PROVE  SoundAt(v, wk[v].pc)'
  <2>1. wk'[v] = wk[v]
    BY <1>1, <1>2, <1>11
  <2>2. /\ wk[v].job \in PS /\ Mine(v) = jobs[wk[v].job]
        /\ Sound(wk[v].pc, wk[v].st, wk[v].snap, v, Mine(v), posted[wk[v].job])
    BY <1>11, <2>1, BusySound DEF SoundAt
  <2>3. Sound(wk[v].pc, wk[v].st, wk[v].snap, v, jobs'[wk[v].job], posted[wk[v].job])
    <3>1. CASE wk[v].job = p
      <4>1. ~Keeps(v, r) /\ ~Keeps(v, s)
        BY <1>1, <1>4, <1>11 DEF Keeps, SingleSlot
      <4>2. jobs'[wk[v].job] = s /\ Mine(v) = r
        BY <1>1, <1>2, <2>2, <3>1
      <4> QED BY <2>2, <4>1, <4>2, LostSound
    <3>2. CASE wk[v].job # p
      <4>1. jobs'[wk[v].job] = Mine(v)
        BY <1>1, <1>2, <2>2, <3>2
      <4> QED BY <2>2, <4>1
    <3> QED BY <3>1, <3>2
  <2> QED BY <1>1, <2>1, <2>3 DEF SoundAt, Mine
<1> QED BY <1>9, <1>10, <1>11 DEF Durable

\* Only a worker that has a job takes steps of its own.
LEMMA BusySteps ==
    ASSUME NEW w, WorkerStep(w) \/ FaultStep(w) \/ ProviderExhausted(w)
    PROVE  wk[w].pc # "idle"
<1>1. ReviewStep(w) => wk[w].pc # "idle"
  BY DEF ReviewStep, At, ToFetching, FetchGate, Fetch, Fetched, ToReviewing, Probe, ReviewGate,
         Review, Reprobe, Promote, Save, FinishReview
<1>2. PublishStep(w) => wk[w].pc # "idle"
  BY DEF PublishStep, At, Load, Latest, ToPublishing, Begin, StartReconcile, Lookup, ResolveLookup,
         Recheck, PublishGate, MarkAmbiguous, PreGet, Guard, Post, Posted, FailPublication,
         CompleteWithVote, CompleteLegacy, Vote
<1>3. FaultStep(w) => wk[w].pc # "idle"
  BY BoundsAssumption
     DEF FaultStep, At, CallTransient, CallPermanent, ProbeFails, ReviewTransient, ReviewPermanent,
         ReprobeFails, PostTransient, VoteRetry, Abandon, LeaseStall, BusyPCs, FencedPCs, UnfencedPCs
<1>4. (ScheduleRetry(w) \/ PermanentFailure(w) \/ MarkSuperseded(w)
          \/ LeaseRefused(w) \/ ProviderExhausted(w)) => wk[w].pc # "idle"
  BY DEF At, ScheduleRetry, PermanentFailure, MarkSuperseded, LeaseRefused, ProviderExhausted,
         RetryPCs, FencedPCs
<1> QED BY <1>1, <1>2, <1>3, <1>4 DEF WorkerStep

\* Every step of every actor preserves Durable.
LEMMA DurableNext ==
    ASSUME NoStaleWriter, IInv, Durable, [Next]_vars
    PROVE  Durable'
<1>1. CASE UNCHANGED vars
  BY <1>1 DEF vars, gerritVars, Durable, SoundAt, Mine
<1>2. CASE GerritStep \/ EventStep \/ OperatorStep
  BY <1>2, GerritDurable, EventDurable, OperatorDurable
<1>3. CASE \E p \in PS : LeaseExpire(p)
  BY <1>3, ExpireDurable
<1>4. CASE \E w \in Workers, p \in PS : Claim(w, p)
  BY <1>4, ClaimDurable
<1>5. ASSUME NEW w \in Workers, WorkerStep(w) \/ FaultStep(w) \/ ProviderExhausted(w)
      PROVE  Durable'
  <2>1. wk[w].pc # "idle"
    BY <1>5, BusySteps
  <2>2. CASE \/ ReviewStep(w) \/ ProbeFails(w) \/ ReviewPermanent(w) \/ ReprobeFails(w)
             \/ \E provider \in BOOLEAN : ReviewTransient(w, provider)
    BY <2>1, <2>2, ReviewDurable DEF ReviewStep
  <2>3. CASE PublishStep(w) \/ PostTransient(w) \/ VoteRetry(w)
    BY <2>1, <2>3, PublishDurable
  <2>4. CASE \/ ScheduleRetry(w) \/ ProviderExhausted(w) \/ PermanentFailure(w)
             \/ MarkSuperseded(w) \/ LeaseRefused(w) \/ Abandon(w) \/ LeaseStall(w)
             \/ CallTransient(w) \/ CallPermanent(w)
    BY <2>1, <2>4, SharedDurable
  <2> QED BY <1>5, <2>2, <2>3, <2>4 DEF WorkerStep, FaultStep
<1> QED BY <1>1, <1>2, <1>3, <1>4, <1>5 DEF Next

\* If no worker is stalled past its lease between a lookup and an unfenced
\* publication update (or there is no other slot to take its job over) and
\* Gerrit commits no POST late, Durable holds in every reachable state.
THEOREM Durability == ASSUME NoStaleWriter PROVE Spec => []Durable
<1>1. Init => Durable
  BY InitDurable
<1>2. IInv /\ Durable /\ [Next]_vars => Durable'
  BY DurableNext, NoStaleWriter
<1> QED BY <1>1, <1>2, Invariance, PTL DEF Spec

\* Under the same assumption no published review is forgotten: whatever
\* crashes, retries, supersessions, requeues and scope changes come after the
\* POST, the job is DONE or will look for its comments again.
THEOREM NothingPublishedIsLost == ASSUME NoStaleWriter PROVE Spec => []NoLostSideEffect
<1>1. Durable => NoLostSideEffect
  BY DEF Durable, RowDurable, NoLostSideEffect
<1> QED BY <1>1, Durability, PTL

\* Under the same assumption PENDING is what reconcile and the operator take it
\* for, a publication of which nothing is in Gerrit.
THEOREM PendingIsUnposted == ASSUME NoStaleWriter PROVE Spec => []PendingMeansNotPosted
<1>1. Durable /\ IInv => PendingMeansNotPosted
  BY DEF Durable, RowDurable, PendingMeansNotPosted, IInv, ScalarsOK
<1> QED BY <1>1, Durability, Invariance, PTL

=============================================================================
