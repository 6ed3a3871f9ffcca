------------------------ MODULE VotePublisherProofs ------------------------
(***************************************************************************)
(* VotePublisher implements VotePhase, and its inductive invariant with    *)
(* the safety properties that follow from it.                              *)
(***************************************************************************)
EXTENDS VotePublisher, TLAPS

\* VotePhase reads and writes the row with the operators of JobRows.
LEMMA SameOperators ==
    /\ Phase!Pending(job) <=> Pending(job)
    /\ \A w \in Workers : /\ Phase!LeasedBy(job, w) <=> LeasedBy(job, w)
                          /\ Phase!ClaimRow(job, w) = ClaimRow(job, w)
    /\ Phase!CompletePublicationRow(job, TRUE) = CompletePublicationRow(job, TRUE)
    /\ Phase!ScheduleRetryRow(job, "PUBLISHING") = ScheduleRetryRow(job, "PUBLISHING")
    /\ Phase!FinishVoteRow(job) = FinishVoteRow(job)
<1>1. Phase!Pending(job) <=> Pending(job)
  BY DEF Pending, Exists, TerminalJobStates, ABSENT, Phase!Pending, Phase!Exists,
         Phase!TerminalJobStates, Phase!ABSENT
<1>2. \A w \in Workers : Phase!LeasedBy(job, w) <=> LeasedBy(job, w)
  BY DEF LeasedBy, Phase!LeasedBy
<1>3. \A w \in Workers : Phase!ClaimRow(job, w) = ClaimRow(job, w)
  BY DEF ClaimRow, NONE, Phase!ClaimRow, Phase!NONE
<1>4. Phase!CompletePublicationRow(job, TRUE) = CompletePublicationRow(job, TRUE)
  BY DEF CompletePublicationRow, NONE, Phase!CompletePublicationRow, Phase!NONE
<1>5. Phase!ScheduleRetryRow(job, "PUBLISHING") = ScheduleRetryRow(job, "PUBLISHING")
  BY DEF ScheduleRetryRow, Released, NONE, Phase!ScheduleRetryRow, Phase!Released,
         Phase!NONE
<1>6. Phase!FinishVoteRow(job) = FinishVoteRow(job)
  BY DEF FinishVoteRow, Released, NONE, Phase!FinishVoteRow, Phase!Released, Phase!NONE
<1> QED
  BY <1>1, <1>2, <1>3, <1>4, <1>5, <1>6

\* The first worker has posted the comments of a bound, reviewed job.
LEMMA PhaseInit == Init => Phase!Init
  BY DEF Init, Phase!Init, AbsentRow

\* Every step of the vote claims, loses, puts off or finishes the job as the
\* abstract phase allows, or leaves its row alone.
LEMMA PhaseNext == [Next]_vars => [Phase!Next]_job
<1> SUFFICES ASSUME [Next]_vars PROVE [Phase!Next]_job
  OBVIOUS
<1>1. CASE UNCHANGED vars
  BY <1>1 DEF vars
<1>2. CASE Environment
  BY <1>2 DEF Environment, ChangeCloses, NewerPatchSet, RemoveLabel, SwitchAccount,
              CommitLatePost
<1>3. CASE LeaseExpire
  BY <1>3 DEF LeaseExpire, Phase!Next, Phase!LoseLease
<1>4. ASSUME NEW w \in Workers, Claim(w) PROVE [Phase!Next]_job
  BY <1>4, SameOperators DEF Claim, Phase!Next, Phase!Claim
<1>5. ASSUME NEW w \in Workers, LeaseStall(w) PROVE [Phase!Next]_job
  BY <1>5 DEF LeaseStall, Fenced, LeasedBy, Phase!Next, Phase!LoseLease
<1>6. ASSUME NEW w \in Workers, Abandon(w) PROVE [Phase!Next]_job
  BY <1>6 DEF Abandon
<1>7. ASSUME NEW w \in Workers, WorkerStep(w) PROVE [Phase!Next]_job
  <2>1. CASE Complete(w)
    BY <2>1, SameOperators DEF Complete, Guarded, Fenced, Phase!Next,
                               Phase!CommentsPosted, Phase!Publishing
  <2>2. CASE Reschedule(w)
    BY <2>2, SameOperators DEF Reschedule, Guarded, Fenced, Phase!Next, Phase!PutOff,
                               Phase!Publishing
  <2>3. CASE Finish(w)
    BY <2>3, SameOperators DEF Finish, Guarded, Fenced, Phase!Next, Phase!Finish,
                               Phase!Publishing
  <2>4. CASE Latest(w) \/ Get(w) \/ Account(w) \/ Detail(w) \/ Messages(w) \/ Guard(w)
             \/ PreGet(w) \/ LeaseRefused(w) \/ CallTransient(w) \/ CallPermanent(w)
    BY <2>4 DEF Latest, Get, Account, Detail, Messages, Guard, PreGet, LeaseRefused,
                CallTransient, CallPermanent, LocalStep
  <2>5. CASE Ensure(w) \/ Dispatch(w) \/ Retry(w)
    BY <2>5 DEF Ensure, Dispatch, Retry
  <2>6. CASE Post(w) \/ PostTransient(w)
    BY <2>6 DEF Post, PostTransient
  <2> QED
    BY <1>7, <2>1, <2>2, <2>3, <2>4, <2>5, <2>6 DEF WorkerStep
<1> QED
  BY <1>1, <1>2, <1>3, <1>4, <1>5, <1>6, <1>7 DEF Next

\* For any number of workers, accounts and failures, and even with POSTs that
\* outlive their lease or commit late, the vote touches the job row only in the
\* ways ReviewJobs models as its actions Vote and VoteRetry.
THEOREM VoteImplementsPhase == Spec => ImplementsVotePhase
  BY PhaseInit, PhaseNext, PTL DEF Spec, ImplementsVotePhase, Phase!Spec

-----------------------------------------------------------------------------
(* The inductive invariant. *)

\* A POST does not outlive the lease the guard has renewed, and Gerrit answers
\* or forgets it.
PostsAreFenced == "post" \notin StallPoints /\ ~LatePosts

\* Steps after the vote row was read, in which the copy stays accurate ...
SeenPCs ==
    {"account", "detail", "messages", "guard", "dispatch", "preGet", "postGuard",
     "post"}
\* ... those after the account was read, ...
BotPCs == SeenPCs \ {"account"}
\* ... after no marker was found, ...
UnvotedPCs == {"guard", "dispatch", "preGet", "postGuard", "post"}
\* ... after the POST was announced, ...
DispatchedPCs == {"preGet", "postGuard", "post"}
\* ... and after the comments were recorded.
RecordedPCs == SeenPCs \cup {"get", "retryUnposted", "retryPosted", "reschedule", "finish"}

\* What holds of worker w with record k, job j, vote v, markers m, f faults.
WorkerInv(k, w, j, v, m, f) ==
    /\ k \in WorkerRecord
    /\ k.pc \in RecordedPCs => j.pub = "POSTED"
    /\ k.pc = "complete" \/ k.pc \in RecordedPCs => v.status # NONE
    /\ k.pc \in BotPCs => k.bot \in Accounts
    /\ k.pc \in DispatchedPCs => v.account = k.bot
    /\ k.pc = "finish" => k.out \in TerminalVoteStates
    /\ k.pc = "finish" /\ k.out = "APPLIED" => v.account # NoAccount /\ m[v.account] > 0
    /\ LeasedBy(j, w) =>
          /\ v.retries <= Limit + f + (IF k.pc = "finish" THEN 1 ELSE 0)
          /\ k.pc \in SeenPCs => k.seen = v
          /\ k.pc \in {"detail", "messages", "guard", "dispatch"} =>
                v.account \in {NoAccount, k.bot}
          /\ k.pc \in {"guard", "dispatch"} => v.attempts < Limit
          /\ k.pc \in UnvotedPCs \cup {"retryPosted"} => v.retries < Limit
          /\ PostsAreFenced /\ k.pc \in UnvotedPCs => \A a \in Accounts : m[a] = 0
    /\ PostsAreFenced /\ k.pc = "post" => LeasedBy(j, w)

\* The job is waiting, being published under a lease or not, or done.
JobOK ==
    /\ job \in JobRow
    /\ job.state \in {"PUBLISHING", "RETRY_WAIT", "DONE"}
    /\ job.state = "RETRY_WAIT" => job.retry = "PUBLISHING"
    /\ job.live => job.owner \in Workers /\ job.state = "PUBLISHING"

\* A worker that is not the owner adds nothing to retries: without a live lease
\* only finished passes and crashes have counted.
VoteOK ==
    /\ vote \in VoteRow
    /\ vote.attempts <= Limit
    /\ vote.retries <= Limit + 1 + faults
    /\ ~job.live /\ job.state # "DONE" => vote.retries <= Limit + faults
    /\ vote.status = "APPLIED" => vote.account # NoAccount /\ markers[vote.account] > 0
    /\ job.state = "DONE" => vote.status \in TerminalVoteStates /\ job.pub = "POSTED"

\* Gerrit only ever sees the vote from the account the row is bound to.
GerritOK ==
    /\ account \in Accounts
    /\ chStatus \in {"NEW", "MERGED", "ABANDONED"}
    /\ newer \in {"none", "uploaded", "known"}
    /\ label \in [Accounts -> Values]
    /\ markers \in [Accounts -> Nat]
    /\ inFlight \in [Accounts -> Nat]
    /\ faults \in 0 .. MaxFaults
    /\ \A a \in Accounts : markers[a] > 0 \/ inFlight[a] > 0 => vote.account = a
    /\ PostsAreFenced => \A a \in Accounts : markers[a] <= 1 /\ inFlight[a] = 0

IInv ==
    /\ JobOK /\ VoteOK /\ GerritOK
    /\ wk \in [Workers -> WorkerRecord]
    /\ \A w \in Workers : WorkerInv(wk[w], w, job, vote, markers, faults)

-----------------------------------------------------------------------------
(* A step leaves the part of IInv of everybody else intact. *)

\* Nothing is taken back, and only the owner's own step changes what a lease
\* holder relies on.  w: the worker that acts, NoWorker if none does.
Kept(w) ==
    /\ job.pub = "POSTED" => job'.pub = "POSTED"
    /\ vote.status # NONE => vote'.status # NONE
    /\ vote.account # NoAccount => vote'.account = vote.account
    /\ \A a \in Accounts : markers[a] > 0 => markers'[a] > 0
    /\ faults' \in Nat /\ faults' >= faults
    /\ \A v \in Workers \ {w} :
          /\ LeasedBy(job', v) =>
                /\ LeasedBy(job, v)
                /\ vote' = vote
                /\ PostsAreFenced => markers' = markers
          /\ LeasedBy(job, v) => LeasedBy(job', v) \/ "post" # wk[v].pc \/ ~PostsAreFenced

\* Limit is a number of attempts.
LEMMA LimitType == Limit \in Nat \ {0}
  BY BudgetAssumption DEF Limit, BudgetStages

\* A worker that does not act keeps its part of the invariant.
LEMMA BystanderKept ==
    ASSUME IInv, NEW w, Kept(w), NEW v \in Workers \ {w}
    PROVE  WorkerInv(wk[v], v, job', vote', markers', faults')
<1>1. /\ WorkerInv(wk[v], v, job, vote, markers, faults)
      /\ vote \in VoteRow /\ faults \in Nat
  BY DEF IInv, VoteOK, GerritOK
<1>2. vote.account \in Accounts \cup {NoAccount} /\ NoAccount \notin Accounts
  BY <1>1, VoteAssumption DEF VoteRow
<1>3. LeasedBy(job', v) =>
          vote.retries <= Limit + faults' + (IF wk[v].pc = "finish" THEN 1 ELSE 0)
  BY <1>1, LimitType DEF Kept, WorkerInv, VoteRow
<1> QED
  BY <1>1, <1>2, <1>3 DEF WorkerInv, Kept, BotPCs, DispatchedPCs, SeenPCs, UnvotedPCs

\* A step of worker w.
LEMMA ActorStep ==
    ASSUME IInv, NEW w \in Workers, NEW k, wk' = [wk EXCEPT ![w] = k],
           Kept(w), JobOK', VoteOK', GerritOK',
           WorkerInv(k, w, job', vote', markers', faults')
    PROVE  IInv'
<1>1. wk' \in [Workers -> WorkerRecord] /\ wk'[w] = k /\ \A v \in Workers \ {w} : wk'[v] = wk[v]
  BY DEF IInv, WorkerInv
<1>2. \A v \in Workers : WorkerInv(wk'[v], v, job', vote', markers', faults')
  BY <1>1, BystanderKept
<1> QED
  BY <1>1, <1>2 DEF IInv

\* A step of no worker.
LEMMA OutsideStep ==
    ASSUME IInv, UNCHANGED wk, Kept(NoWorker), JobOK', VoteOK', GerritOK'
    PROVE  IInv'
<1>1. \A v \in Workers : v \in Workers \ {NoWorker}
  BY WorkersAssumption
<1>2. \A v \in Workers : WorkerInv(wk[v], v, job', vote', markers', faults')
  BY <1>1, BystanderKept
<1> QED
  BY <1>2 DEF IInv

\* A step that changes only the worker's own variables.
LEMMA LocalMove ==
    ASSUME IInv, NEW w \in Workers, NEW k, wk' = [wk EXCEPT ![w] = k], LocalStep,
           WorkerInv(k, w, job, vote, markers, faults)
    PROVE  IInv'
<1>1. UNCHANGED <<job, vote, account, chStatus, newer, label, markers, inFlight, faults>>
  BY DEF LocalStep, gerritVars
<1>2. JobOK' /\ VoteOK' /\ GerritOK'
  BY <1>1 DEF IInv, JobOK, VoteOK, GerritOK
<1>3. Kept(w)
  BY <1>1 DEF IInv, GerritOK, Kept, LeasedBy
<1> QED
  BY <1>1, <1>2, <1>3, ActorStep

\* A worker without the job satisfies its part.
LEMMA IdleInv ==
    ASSUME NEW w, NEW j, NEW v, NEW m, NEW f,
           LeasedBy(j, w) => v.retries <= Limit + f, f \in Nat
    PROVE  WorkerInv(IdleWorker, w, j, v, m, f)
<1>1. IdleWorker \in WorkerRecord /\ IdleWorker.pc = "idle"
  BY DEF IdleWorker, WorkerRecord, NoVote, VoteRow, Values, VoteStatus, Reasons
<1>2. Limit + f + 0 = Limit + f
  BY LimitType
<1> QED
  BY <1>1, <1>2 DEF WorkerInv, RecordedPCs, SeenPCs, BotPCs, DispatchedPCs, UnvotedPCs

\* A guarded call of a worker that holds the lease is never refused.
LEMMA LeaseIsGuard == ASSUME IInv, NEW w PROVE LeasedBy(job, w) <=> Guarded(w)
  BY DEF IInv, JobOK, LeasedBy, Guarded, Fenced

-----------------------------------------------------------------------------
(* Steps that change only the worker's own variables. *)

\* An outcome that is terminal, and APPLIED only with a vote in Gerrit, may be
\* finished.
LEMMA SettleInv ==
    ASSUME IInv, NEW w \in Workers, wk[w].pc \in RecordedPCs \ {"finish"},
           NEW status \in TerminalVoteStates, NEW why \in Reasons,
           status = "APPLIED" => vote.account # NoAccount /\ markers[vote.account] > 0
    PROVE  WorkerInv([wk[w] EXCEPT !.pc = "finish", !.out = status, !.why = why],
                     w, job, vote, markers, faults)
<1> DEFINE k == [wk[w] EXCEPT !.pc = "finish", !.out = status, !.why = why]
<1>1. WorkerInv(wk[w], w, job, vote, markers, faults) /\ vote.retries \in Nat /\ faults \in Nat
  BY DEF IInv, VoteOK, VoteRow, GerritOK
<1>2. k \in WorkerRecord /\ k.pc = "finish" /\ k.out = status
  BY <1>1 DEF WorkerInv, WorkerRecord, BusyPCs, FencedPCs
<1>3. LeasedBy(job, w) => vote.retries <= Limit + faults + 1
  BY <1>1, LimitType DEF WorkerInv
<1> HIDE DEF k
<1>4. WorkerInv(k, w, job, vote, markers, faults)
  BY <1>1, <1>2, <1>3
     DEF WorkerInv, RecordedPCs, SeenPCs, BotPCs, DispatchedPCs, UnvotedPCs
<1> QED
  BY <1>4 DEF k

\* A worker gives up a vote it has not seen applied.
LEMMA SettleStep ==
    ASSUME IInv, NEW w \in Workers, wk[w].pc \in RecordedPCs \ {"finish"}, LocalStep,
           NEW status \in TerminalVoteStates, NEW why \in Reasons, Settle(w, status, why),
           status = "APPLIED" => vote.account # NoAccount /\ markers[vote.account] > 0
    PROVE  IInv'
<1> DEFINE k == [wk[w] EXCEPT !.pc = "finish", !.out = status, !.why = why]
<1>1. wk' = [wk EXCEPT ![w] = k]
  BY DEF IInv, Settle
<1>2. WorkerInv(k, w, job, vote, markers, faults)
  BY SettleInv
<1> HIDE DEF k
<1> QED
  BY <1>1, <1>2, LocalMove

\* The label l is one the worker may go to with nothing else changed.
MayGoto(w, l) ==
    /\ l \in BusyPCs \ {"finish"}
    /\ l \in RecordedPCs => wk[w].pc \in RecordedPCs
    /\ l = "complete" => vote.status # NONE
    /\ l \in BotPCs => wk[w].bot \in Accounts
    /\ l \in DispatchedPCs => vote.account = wk[w].bot
    /\ l = "post" => LeasedBy(job, w)
    /\ LeasedBy(job, w) =>
          /\ l \in SeenPCs => wk[w].seen = vote
          /\ l \in {"detail", "messages", "guard", "dispatch"} =>
                vote.account \in {NoAccount, wk[w].bot}
          /\ l \in {"guard", "dispatch"} => vote.attempts < Limit
          /\ l \in UnvotedPCs \cup {"retryPosted"} => vote.retries < Limit
          /\ PostsAreFenced /\ l \in UnvotedPCs => \A a \in Accounts : markers[a] = 0

\* A worker may go to such a label.
LEMMA GotoStep ==
    ASSUME IInv, NEW w \in Workers, wk[w].pc # "finish", NEW l, MayGoto(w, l),
           Goto(w, l), LocalStep
    PROVE  IInv'
<1> DEFINE k == [wk[w] EXCEPT !.pc = l]
<1>1. WorkerInv(wk[w], w, job, vote, markers, faults) /\ vote.retries \in Nat /\ faults \in Nat
  BY DEF IInv, VoteOK, VoteRow, GerritOK
<1>2. /\ k \in WorkerRecord /\ k.pc = l /\ k.seen = wk[w].seen /\ k.bot = wk[w].bot
      /\ k.out = wk[w].out
  BY <1>1 DEF WorkerInv, WorkerRecord, MayGoto
<1> HIDE DEF k
<1>3. WorkerInv(k, w, job, vote, markers, faults)
  BY <1>1, <1>2, LimitType DEF WorkerInv, MayGoto
<1> QED
  BY <1>3, LocalMove DEF Goto, k

\* Dropping the job changes nothing the invariant speaks of, unless the worker
\* holds the lease and has its outcome ready.
LEMMA LeaveStep ==
    ASSUME IInv, NEW w \in Workers, LocalStep, Leave(w),
           LeasedBy(job, w) => wk[w].pc # "finish"
    PROVE  IInv'
<1>1. LeasedBy(job, w) => vote.retries <= Limit + faults
  <2>1. WorkerInv(wk[w], w, job, vote, markers, faults) /\ faults \in Nat
    BY DEF IInv, GerritOK
  <2> QED
    BY <2>1, LimitType DEF WorkerInv
<1>2. faults \in Nat
  BY DEF IInv, GerritOK
<1>3. WorkerInv(IdleWorker, w, job, vote, markers, faults)
  BY <1>1, <1>2, IdleInv
<1> QED
  BY <1>3, LocalMove DEF Leave

\* The row's account, when it is bound, is the one all markers come from.
LEMMA MarkersBound ==
    ASSUME IInv, NEW b \in Accounts
    PROVE  /\ markers[b] > 0 => vote.account # NoAccount /\ markers[vote.account] > 0
           /\ vote.account \in {NoAccount, b} /\ markers[b] = 0 =>
                \A a \in Accounts : markers[a] = 0
<1>1. /\ \A a \in Accounts : markers[a] > 0 => vote.account = a
      /\ \A a \in Accounts : markers[a] \in Nat
      /\ NoAccount \notin Accounts
  BY VoteAssumption DEF IInv, GerritOK
<1>2. ASSUME vote.account \in {NoAccount, b}, markers[b] = 0, NEW a \in Accounts
      PROVE  markers[a] = 0
  BY <1>1, <1>2
<1> QED
  BY <1>1, <1>2

\* The reads of the row and of Gerrit, the guard, and every failed or refused
\* call of a worker.
LEMMA LocalSteps ==
    ASSUME IInv, NEW w \in Workers,
           \/ Latest(w) \/ Get(w) \/ Account(w) \/ Detail(w) \/ Messages(w) \/ Guard(w)
           \/ PreGet(w) \/ LeaseRefused(w) \/ CallTransient(w) \/ CallPermanent(w)
    PROVE  IInv'
<1>1. /\ WorkerInv(wk[w], w, job, vote, markers, faults)
      /\ wk[w] \in WorkerRecord /\ wk \in [Workers -> WorkerRecord]
      /\ vote \in VoteRow /\ faults \in Nat
      /\ account \in Accounts /\ label \in [Accounts -> Values]
      /\ markers \in [Accounts -> Nat]
      /\ NoAccount \notin Accounts
  BY VoteAssumption DEF IInv, WorkerInv, VoteOK, GerritOK
<1>2. /\ "FAILED" \in TerminalVoteStates /\ "SKIPPED" \in TerminalVoteStates
      /\ "APPLIED" \in TerminalVoteStates
      /\ {NONE, "merged", "superseded"} = Reasons
  BY DEF TerminalVoteStates, Reasons
<1>3. CASE Latest(w)
  <2> DEFINE skip == IF newer = "known" THEN "superseded" ELSE NONE
             k == [wk[w] EXCEPT !.pc = "ensure", !.skip = skip]
  <2>1. wk' = [wk EXCEPT ![w] = k] /\ LocalStep /\ wk[w].pc = "latest"
    BY <1>3, <1>1 DEF Latest, At
  <2>2. skip \in Reasons
    BY DEF Reasons
  <2> HIDE DEF skip
  <2>3. k \in WorkerRecord /\ k.pc = "ensure"
    BY <1>1, <2>2 DEF WorkerRecord, BusyPCs, FencedPCs
  <2> HIDE DEF k
  <2>4. WorkerInv(k, w, job, vote, markers, faults)
    BY <1>1, <2>1, <2>3
       DEF WorkerInv, RecordedPCs, SeenPCs, BotPCs, DispatchedPCs, UnvotedPCs
  <2> QED
    BY <2>1, <2>4, LocalMove
<1>4. CASE Get(w)
  <2>1. wk[w].pc = "get" /\ LocalStep
    BY <1>4 DEF Get, At
  <2>2. CASE vote.status \in TerminalVoteStates \/ wk[w].skip # NONE
    <3> DEFINE out == IF vote.status \in TerminalVoteStates THEN vote.status ELSE "SKIPPED"
               base == [wk[w] EXCEPT !.seen = vote]
               k == [base EXCEPT !.pc = "finish", !.out = out, !.why = wk[w].skip]
    <3>1. wk' = [wk EXCEPT ![w] = k]
      BY <1>1, <1>4, <2>2 DEF Get
    <3>2. out \in TerminalVoteStates /\ (out = "APPLIED" => vote.status = "APPLIED")
      BY <1>2
    <3>3. vote.status = "APPLIED" => vote.account # NoAccount /\ markers[vote.account] > 0
      BY DEF IInv, VoteOK
    <3>4. k \in WorkerRecord /\ k.pc = "finish" /\ k.out = out
      BY <1>1, <3>2 DEF WorkerRecord, BusyPCs, FencedPCs
    <3>5. LeasedBy(job, w) => vote.retries <= Limit + faults + 1
      BY <1>1, <2>1, LimitType DEF WorkerInv, VoteRow
    <3> HIDE DEF k, out, base
    <3>6. WorkerInv(k, w, job, vote, markers, faults)
      BY <1>1, <2>1, <3>2, <3>3, <3>4, <3>5
         DEF WorkerInv, RecordedPCs, SeenPCs, BotPCs, DispatchedPCs, UnvotedPCs
    <3> QED
      BY <2>1, <3>1, <3>6, LocalMove
  <2>3. CASE ~(vote.status \in TerminalVoteStates \/ wk[w].skip # NONE)
    <3> DEFINE k == [wk[w] EXCEPT !.seen = vote, !.pc = "account", !.out = NONE,
                                  !.why = wk[w].skip]
    <3>1. wk' = [wk EXCEPT ![w] = k]
      BY <1>1, <1>4, <2>3 DEF Get
    <3>2. k \in WorkerRecord /\ k.pc = "account" /\ k.seen = vote
      BY <1>1 DEF WorkerRecord, BusyPCs, CallPCs
    <3> HIDE DEF k
    <3>3. WorkerInv(k, w, job, vote, markers, faults)
      BY <1>1, <2>1, <3>2
         DEF WorkerInv, RecordedPCs, SeenPCs, BotPCs, DispatchedPCs, UnvotedPCs
    <3> QED
      BY <2>1, <3>1, <3>3, LocalMove
  <2> QED
    BY <2>2, <2>3
<1>5. CASE Account(w)
  <2>1. wk[w].pc = "account" /\ LocalStep
    BY <1>5 DEF Account, At
  <2>2. CASE wk[w].seen.account \in {NoAccount, account}
    <3> DEFINE k == [wk[w] EXCEPT !.pc = "detail", !.bot = account]
    <3>1. wk' = [wk EXCEPT ![w] = k]
      BY <1>1, <1>5, <2>2 DEF Account
    <3>2. /\ k \in WorkerRecord /\ k.pc = "detail" /\ k.seen = wk[w].seen
          /\ k.bot = account
      BY <1>1 DEF WorkerRecord, BusyPCs, CallPCs
    <3> HIDE DEF k
    <3>3. WorkerInv(k, w, job, vote, markers, faults)
      BY <1>1, <2>1, <2>2, <3>2
         DEF WorkerInv, RecordedPCs, SeenPCs, BotPCs, DispatchedPCs, UnvotedPCs
    <3> QED
      BY <2>1, <3>1, <3>3, LocalMove
  <2>3. CASE wk[w].seen.account \notin {NoAccount, account}
    BY <1>2, <1>5, <2>1, <2>3, SettleStep DEF Account, RecordedPCs, SeenPCs
  <2> QED
    BY <2>2, <2>3
<1>6. CASE Detail(w)
  <2>1. wk[w].pc = "detail" /\ LocalStep
    BY <1>6 DEF Detail, At
  <2>2. CASE Settle(w, "SKIPPED", "superseded") \/ Settle(w, "FAILED", NONE)
    BY <1>2, <2>1, <2>2, SettleStep DEF RecordedPCs, SeenPCs
  <2>3. CASE wk' = [wk EXCEPT ![w].pc = "messages", ![w].shown = label[wk[w].bot],
                              ![w].open = (chStatus = "NEW")]
    <3> DEFINE k == [wk[w] EXCEPT !.pc = "messages", !.shown = label[wk[w].bot],
                                  !.open = (chStatus = "NEW")]
    <3>1. wk' = [wk EXCEPT ![w] = k]
      BY <1>1, <2>3
    <3>2. wk[w].bot \in Accounts
      BY <1>1, <2>1 DEF WorkerInv, BotPCs, SeenPCs
    <3>3. /\ k \in WorkerRecord /\ k.pc = "messages" /\ k.seen = wk[w].seen
          /\ k.bot = wk[w].bot
      BY <1>1, <3>2 DEF WorkerRecord, BusyPCs, CallPCs
    <3> HIDE DEF k
    <3>4. WorkerInv(k, w, job, vote, markers, faults)
      BY <1>1, <2>1, <3>3
         DEF WorkerInv, RecordedPCs, SeenPCs, BotPCs, DispatchedPCs, UnvotedPCs
    <3> QED
      BY <2>1, <3>1, <3>4, LocalMove
  <2> QED
    BY <1>6, <2>2, <2>3 DEF Detail
<1>7. CASE Messages(w)
  <2>1. wk[w].pc = "messages" /\ LocalStep /\ wk[w].bot \in Accounts
    BY <1>1, <1>7 DEF Messages, At, WorkerInv, BotPCs, SeenPCs
  <2>2. CASE markers[wk[w].bot] > 0
    <3>1. Settle(w, "APPLIED", NONE) \/ Settle(w, "FAILED", NONE)
      BY <1>7, <2>2 DEF Messages, MarkerFound
    <3>2. vote.account # NoAccount /\ markers[vote.account] > 0
      BY <2>1, <2>2, MarkersBound
    <3> QED
      BY <1>2, <2>1, <3>1, <3>2, SettleStep DEF RecordedPCs, SeenPCs
  <2>3. CASE Settle(w, "SKIPPED", "merged") \/ Settle(w, "FAILED", NONE)
    BY <1>2, <2>1, <2>3, SettleStep DEF RecordedPCs, SeenPCs
  <2>4. CASE /\ ~(markers[wk[w].bot] > 0) /\ Goto(w, "guard")
             /\ ~(wk[w].seen.attempts >= Limit) /\ ~(wk[w].seen.retries >= Limit)
    <3>1. LeasedBy(job, w) =>
             /\ vote.attempts < Limit /\ vote.retries < Limit
             /\ vote.account \in {NoAccount, wk[w].bot}
             /\ wk[w].seen = vote
      BY <1>1, <2>1, <2>4, LimitType DEF WorkerInv, SeenPCs, VoteRow
    <3>2. markers[wk[w].bot] = 0
      BY <1>1, <2>1, <2>4
    <3>3. LeasedBy(job, w) => \A a \in Accounts : markers[a] = 0
      BY <2>1, <3>1, <3>2, MarkersBound
    <3>4. MayGoto(w, "guard")
      BY <1>1, <2>1, <3>1, <3>3
         DEF MayGoto, WorkerInv, BusyPCs, FencedPCs, RecordedPCs, SeenPCs, BotPCs,
             DispatchedPCs, UnvotedPCs
    <3> QED
      BY <2>1, <2>4, <3>4, GotoStep
  <2> QED
    BY <1>7, <2>2, <2>3, <2>4 DEF Messages, MarkerFound
<1>8. CASE Guard(w)
  <2>1. wk[w].pc \in {"guard", "postGuard"} /\ LocalStep /\ LeasedBy(job, w)
    BY <1>8 DEF Guard, Guarded, Fenced
  <2>2. CASE Settle(w, "SKIPPED", "superseded")
    BY <1>2, <2>1, <2>2, SettleStep DEF RecordedPCs, SeenPCs
  <2>3. CASE Goto(w, "dispatch") /\ wk[w].pc = "guard"
    <3>1. MayGoto(w, "dispatch")
      BY <1>1, <2>1, <2>3
         DEF MayGoto, WorkerInv, BusyPCs, FencedPCs, RecordedPCs, SeenPCs, BotPCs,
             DispatchedPCs, UnvotedPCs
    <3> QED
      BY <2>1, <2>3, <3>1, GotoStep
  <2>4. CASE Goto(w, "post") /\ wk[w].pc = "postGuard"
    <3>1. MayGoto(w, "post")
      BY <1>1, <2>1, <2>4
         DEF MayGoto, WorkerInv, BusyPCs, CallPCs, RecordedPCs, SeenPCs, BotPCs,
             DispatchedPCs, UnvotedPCs
    <3> QED
      BY <2>1, <2>4, <3>1, GotoStep
  <2> QED
    BY <1>8, <2>1, <2>2, <2>3, <2>4 DEF Guard, At
<1>9. CASE PreGet(w)
  <2>1. wk[w].pc = "preGet" /\ LocalStep
    BY <1>9 DEF PreGet, At
  <2>2. CASE \/ Settle(w, "SKIPPED", "merged") \/ Settle(w, "FAILED", NONE)
             \/ Settle(w, "SKIPPED", "superseded")
    BY <1>2, <2>1, <2>2, SettleStep DEF RecordedPCs, SeenPCs
  <2>3. CASE Goto(w, "postGuard")
    <3>1. MayGoto(w, "postGuard")
      BY <1>1, <2>1
         DEF MayGoto, WorkerInv, BusyPCs, FencedPCs, RecordedPCs, SeenPCs, BotPCs,
             DispatchedPCs, UnvotedPCs
    <3> QED
      BY <2>1, <2>3, <3>1, GotoStep
  <2> QED
    BY <1>9, <2>2, <2>3 DEF PreGet
<1>10. CASE LeaseRefused(w)
  BY <1>10, LeaseIsGuard, LeaveStep DEF LeaseRefused
<1>11. CASE CallTransient(w)
  <2>1. /\ wk[w].pc \in CallPCs \ {"post"} /\ LocalStep
        /\ \/ wk[w].pc = "preGet" /\ Goto(w, "retryPosted")
           \/ Goto(w, "retryUnposted")
    BY <1>11 DEF CallTransient, At
  <2>2. MayGoto(w, "retryUnposted") /\ (wk[w].pc = "preGet" => MayGoto(w, "retryPosted"))
    BY <1>1, <2>1
       DEF MayGoto, WorkerInv, BusyPCs, FencedPCs, CallPCs, RecordedPCs, SeenPCs, BotPCs,
           DispatchedPCs, UnvotedPCs
  <2> QED
    BY <2>1, <2>2, GotoStep DEF CallPCs
<1>12. CASE CallPermanent(w)
  <2>1. wk[w].pc \in RecordedPCs \ {"finish"} /\ LocalStep /\ Settle(w, "FAILED", NONE)
    BY <1>12 DEF CallPermanent, CallPCs, RecordedPCs, SeenPCs
  <2> QED
    BY <1>2, <2>1, SettleStep
<1> QED
  BY <1>3, <1>4, <1>5, <1>6, <1>7, <1>8, <1>9, <1>10, <1>11, <1>12

-----------------------------------------------------------------------------
(* Transactions of the lease holder. *)

\* The lease holder may end its lease, and changes what only it relies on.
LEMMA HolderKept ==
    ASSUME IInv, NEW w \in Workers, LeasedBy(job, w),
           job'.owner = w \/ ~job'.live,
           job.pub = "POSTED" => job'.pub = "POSTED",
           vote.status # NONE => vote'.status # NONE,
           vote.account # NoAccount => vote'.account = vote.account,
           UNCHANGED <<account, gerritVars, faults>>
    PROVE  Kept(w)
  BY DEF IInv, GerritOK, Kept, LeasedBy, gerritVars

\* Gerrit's part depends on the vote row only through its bound account.
LEMMA GerritKept ==
    ASSUME IInv, UNCHANGED <<account, gerritVars, faults>>,
           vote.account # NoAccount => vote'.account = vote.account
    PROVE  GerritOK'
<1>1. UNCHANGED <<account, chStatus, newer, label, markers, inFlight, faults>>
  BY DEF gerritVars
<1> QED
  BY <1>1, VoteAssumption DEF IInv, GerritOK

\* A worker that has left satisfies its part once the vote row does.
LEMMA LeftStep ==
    ASSUME IInv, NEW w \in Workers, Leave(w), Kept(w), JobOK', VoteOK', GerritOK',
           LeasedBy(job', w) => vote'.retries <= Limit + faults'
    PROVE  IInv'
<1>1. WorkerInv(IdleWorker, w, job', vote', markers', faults')
  BY IdleInv DEF Kept
<1> QED
  BY <1>1, ActorStep DEF Leave

\* ensure creates the vote row once, and never as APPLIED.
LEMMA EnsureStep == ASSUME IInv, NEW w \in Workers, Ensure(w) PROVE IInv'
<1> DEFINE k == [wk[w] EXCEPT !.pc = "complete"]
<1>1. /\ LeasedBy(job, w) /\ job.state = "PUBLISHING" /\ wk[w].pc = "ensure"
      /\ UNCHANGED <<job, account, gerritVars, faults>>
      /\ wk' = [wk EXCEPT ![w] = k]
  BY DEF Ensure, Guarded, Fenced, At, Goto, StoreStep
<1>2. /\ WorkerInv(wk[w], w, job, vote, markers, faults) /\ wk[w] \in WorkerRecord
      /\ vote \in VoteRow /\ JobOK /\ VoteOK /\ markers' = markers
  BY <1>1 DEF IInv, WorkerInv, VoteOK, gerritVars
<1>3. /\ vote' \in VoteRow /\ vote'.status # NONE
      /\ vote'.attempts = vote.attempts /\ vote'.retries = vote.retries
      /\ vote'.account = vote.account
      /\ vote'.status = "APPLIED" => vote.status = "APPLIED"
  <2>1. CASE vote.status # NONE /\ UNCHANGED vote
    BY <1>2, <2>1
  <2>2. CASE \E v \in Values, s \in {"PENDING", "SKIPPED"} :
                vote' = [vote EXCEPT !.status = s, !.value = v]
    BY <1>2, <2>2 DEF VoteRow, VoteStatus, TerminalVoteStates, NONE
  <2> QED
    BY <2>1, <2>2 DEF Ensure
<1>4. k \in WorkerRecord /\ k.pc = "complete"
  BY <1>2 DEF WorkerRecord, BusyPCs, FencedPCs
<1> HIDE DEF k
<1>5. JobOK' /\ VoteOK' /\ GerritOK' /\ Kept(w)
  BY <1>1, <1>2, <1>3, HolderKept, GerritKept DEF JobOK, VoteOK, LeasedBy
<1>6. WorkerInv(k, w, job', vote', markers', faults')
  BY <1>1, <1>2, <1>3, <1>4
     DEF WorkerInv, RecordedPCs, SeenPCs, BotPCs, DispatchedPCs, UnvotedPCs
<1> QED
  BY <1>1, <1>5, <1>6, ActorStep

\* complete_publication_and_mark_done records the comments and keeps the lease.
LEMMA CompleteStep == ASSUME IInv, NEW w \in Workers, Complete(w) PROVE IInv'
<1> DEFINE k == [wk[w] EXCEPT !.pc = "get"]
<1>1. /\ LeasedBy(job, w) /\ job.state = "PUBLISHING" /\ wk[w].pc = "complete"
      /\ UNCHANGED <<vote, account, gerritVars, faults>>
      /\ job' = CompletePublicationRow(job, TRUE)
      /\ wk' = [wk EXCEPT ![w] = k]
  BY DEF Complete, Guarded, Fenced, At, Goto, StoreStep
<1>2. /\ WorkerInv(wk[w], w, job, vote, markers, faults) /\ wk[w] \in WorkerRecord
      /\ JobOK /\ VoteOK /\ markers' = markers
  BY <1>1 DEF IInv, WorkerInv, gerritVars
<1>3. /\ job' \in JobRow /\ job'.state = "PUBLISHING" /\ job'.pub = "POSTED"
      /\ job'.owner = job.owner /\ job'.live = job.live
  BY <1>1, <1>2 DEF JobOK, CompletePublicationRow, JobRow, JobState, NONE, PublicationStatus
<1>4. k \in WorkerRecord /\ k.pc = "get"
  BY <1>2 DEF WorkerRecord, BusyPCs
<1> HIDE DEF k
<1>5. JobOK' /\ VoteOK' /\ GerritOK' /\ Kept(w)
  BY <1>1, <1>2, <1>3, HolderKept, GerritKept DEF JobOK, VoteOK, LeasedBy
<1>6. WorkerInv(k, w, job', vote', markers', faults')
  BY <1>1, <1>2, <1>3, <1>4
     DEF WorkerInv, RecordedPCs, SeenPCs, BotPCs, DispatchedPCs, UnvotedPCs, LeasedBy
<1> QED
  BY <1>1, <1>5, <1>6, ActorStep

\* dispatch binds the account and announces one more POST, within the limit.
LEMMA DispatchStep == ASSUME IInv, NEW w \in Workers, Dispatch(w) PROVE IInv'
<1>1. /\ LeasedBy(job, w) /\ job.state = "PUBLISHING" /\ wk[w].pc = "dispatch"
      /\ UNCHANGED <<job, account, gerritVars, faults>>
  BY DEF Dispatch, Guarded, Fenced, At, StoreStep
<1>2. /\ WorkerInv(wk[w], w, job, vote, markers, faults) /\ wk[w] \in WorkerRecord
      /\ vote \in VoteRow /\ JobOK /\ VoteOK /\ markers' = markers
      /\ wk \in [Workers -> WorkerRecord]
  BY <1>1 DEF IInv, WorkerInv, VoteOK, gerritVars
<1>3. CASE UNCHANGED vote /\ Leave(w)
  BY <1>1, <1>3, LeaveStep DEF LocalStep
<1>4. CASE /\ ~(vote.account \notin {NoAccount, wk[w].bot})
           /\ vote' = [vote EXCEPT !.status = "AMBIGUOUS", !.attempts = @ + 1,
                                   !.account = wk[w].bot]
           /\ wk' = [wk EXCEPT ![w].pc = "preGet", ![w].seen = vote']
  <2> DEFINE k == [wk[w] EXCEPT !.pc = "preGet", !.seen = vote']
  <2>1. wk' = [wk EXCEPT ![w] = k]
    BY <1>2, <1>4
  <2>2. wk[w].bot \in Accounts /\ vote.attempts < Limit
    BY <1>1, <1>2 DEF WorkerInv, BotPCs, SeenPCs
  <2>3. /\ vote' \in VoteRow /\ vote'.status = "AMBIGUOUS"
        /\ vote'.attempts <= Limit /\ vote'.retries = vote.retries
        /\ vote'.account = wk[w].bot
        /\ vote.account # NoAccount => vote'.account = vote.account
    <3> DEFINE b == wk[w].bot
               n == vote.attempts + 1
    <3>1. /\ b \in Accounts /\ n \in Nat /\ "AMBIGUOUS" \in VoteStatus
          /\ vote' = [vote EXCEPT !.status = "AMBIGUOUS", !.attempts = n, !.account = b]
      BY <1>2, <1>4, <2>2 DEF VoteStatus, VoteRow
    <3> HIDE DEF b, n
    <3>2. /\ vote' \in VoteRow /\ vote'.status = "AMBIGUOUS" /\ vote'.account = b
          /\ vote'.attempts = n /\ vote'.retries = vote.retries
      BY <1>2, <3>1 DEF VoteRow
    <3>3. vote'.attempts <= Limit
      BY <1>2, <2>2, <3>2, LimitType DEF VoteRow, n
    <3> QED
      BY <1>4, <3>2, <3>3 DEF b
  <2>4. k \in WorkerRecord /\ k.pc = "preGet" /\ k.seen = vote' /\ k.bot = wk[w].bot
    BY <1>2, <2>3 DEF WorkerRecord, BusyPCs, CallPCs
  <2> HIDE DEF k
  <2>5. JobOK' /\ VoteOK' /\ GerritOK' /\ Kept(w)
    BY <1>1, <1>2, <2>3, HolderKept, GerritKept
       DEF JobOK, VoteOK, LeasedBy, NONE
  <2>6. WorkerInv(k, w, job', vote', markers', faults')
    BY <1>1, <1>2, <2>2, <2>3, <2>4
       DEF WorkerInv, RecordedPCs, SeenPCs, BotPCs, DispatchedPCs, UnvotedPCs, NONE
  <2> QED
    BY <2>1, <2>5, <2>6, ActorStep
<1> QED
  BY <1>3, <1>4 DEF Dispatch


\* retry counts a pass; the last one before a POST is finished, not put off.
LEMMA RetryStep == ASSUME IInv, NEW w \in Workers, Retry(w) PROVE IInv'
<1>1. /\ LeasedBy(job, w) /\ job.state = "PUBLISHING"
      /\ wk[w].pc \in {"retryUnposted", "retryPosted"}
      /\ UNCHANGED <<job, account, gerritVars, faults>>
      /\ vote' = [vote EXCEPT !.retries = @ + 1]
  BY DEF Retry, Guarded, Fenced, StoreStep
<1>2. /\ WorkerInv(wk[w], w, job, vote, markers, faults) /\ wk[w] \in WorkerRecord
      /\ vote \in VoteRow /\ JobOK /\ VoteOK /\ markers' = markers /\ faults \in Nat
      /\ wk \in [Workers -> WorkerRecord] /\ wk[w].pc \in RecordedPCs
  BY <1>1 DEF IInv, WorkerInv, VoteOK, gerritVars, GerritOK, RecordedPCs
<1>3. /\ vote' \in VoteRow /\ vote'.retries = vote.retries + 1
      /\ vote'.status = vote.status /\ vote'.attempts = vote.attempts
      /\ vote'.account = vote.account
  BY <1>1, <1>2 DEF VoteRow
<1>4. vote.retries \in Nat /\ vote.retries <= Limit + faults
  BY <1>1, <1>2, LimitType DEF WorkerInv, VoteRow
<1>5. JobOK' /\ VoteOK' /\ GerritOK' /\ Kept(w)
  BY <1>1, <1>2, <1>3, <1>4, LimitType, HolderKept, GerritKept DEF JobOK, VoteOK, LeasedBy
<1>6. CASE Settle(w, "FAILED", NONE)
  <2> DEFINE k == [wk[w] EXCEPT !.pc = "finish", !.out = "FAILED", !.why = NONE]
  <2>1. wk' = [wk EXCEPT ![w] = k]
    BY <1>2, <1>6 DEF Settle
  <2>2. "FAILED" \in TerminalVoteStates /\ NONE \in Reasons
    BY DEF TerminalVoteStates, Reasons
  <2>3. k \in WorkerRecord /\ k.pc = "finish" /\ k.out = "FAILED"
    BY <1>2, <2>2 DEF WorkerRecord, BusyPCs, FencedPCs
  <2> HIDE DEF k
  <2>4. vote'.retries <= Limit + faults + 1
    BY <1>2, <1>3, <1>4, LimitType
  <2>5. WorkerInv(k, w, job', vote', markers', faults')
    BY <1>1, <1>2, <1>3, <2>2, <2>3, <2>4
       DEF WorkerInv, RecordedPCs, SeenPCs, BotPCs, DispatchedPCs, UnvotedPCs
  <2> QED
    BY <1>5, <2>1, <2>5, ActorStep
<1>7. CASE /\ ~(wk[w].pc = "retryUnposted" /\ vote'.retries >= Limit)
           /\ Goto(w, "reschedule")
  <2> DEFINE k == [wk[w] EXCEPT !.pc = "reschedule"]
  <2>1. wk' = [wk EXCEPT ![w] = k]
    BY <1>7 DEF Goto
  <2>2. k \in WorkerRecord /\ k.pc = "reschedule"
    BY <1>2 DEF WorkerRecord, BusyPCs, FencedPCs
  <2> HIDE DEF k
  <2>3. wk[w].pc = "retryPosted" => vote.retries < Limit
    BY <1>1, <1>2 DEF WorkerInv
  <2>4. vote'.retries <= Limit + faults + 0
    BY <1>1, <1>2, <1>3, <1>4, <1>7, <2>3, LimitType
  <2>5. WorkerInv(k, w, job', vote', markers', faults')
    BY <1>1, <1>2, <1>3, <2>2, <2>4
       DEF WorkerInv, RecordedPCs, SeenPCs, BotPCs, DispatchedPCs, UnvotedPCs
  <2> QED
    BY <1>5, <2>1, <2>5, ActorStep
<1> QED
  BY <1>6, <1>7 DEF Retry, At

\* schedule_retry puts the job off, to be resumed in PUBLISHING.
LEMMA RescheduleStep == ASSUME IInv, NEW w \in Workers, Reschedule(w) PROVE IInv'
<1>1. /\ LeasedBy(job, w) /\ job.state = "PUBLISHING" /\ wk[w].pc = "reschedule"
      /\ UNCHANGED <<vote, account, gerritVars, faults>>
      /\ job' = ScheduleRetryRow(job, "PUBLISHING") /\ Leave(w)
  BY DEF Reschedule, Guarded, Fenced, At, StoreStep
<1>2. /\ WorkerInv(wk[w], w, job, vote, markers, faults) /\ JobOK /\ VoteOK
      /\ faults \in Nat /\ markers' = markers
  BY <1>1 DEF IInv, GerritOK, gerritVars
<1>3. /\ job' \in JobRow /\ job'.state = "RETRY_WAIT" /\ job'.retry = "PUBLISHING"
      /\ ~job'.live /\ job'.pub = job.pub
  BY <1>1, <1>2 DEF JobOK, ScheduleRetryRow, Released, JobRow, JobState, RetryTargets
<1>4. vote.retries <= Limit + faults
  BY <1>1, <1>2, LimitType DEF WorkerInv
<1>5. JobOK' /\ VoteOK' /\ GerritOK' /\ Kept(w)
  BY <1>1, <1>2, <1>3, <1>4, HolderKept, GerritKept DEF JobOK, VoteOK
<1> QED
  BY <1>1, <1>3, <1>5, LeftStep DEF LeasedBy

\* finish settles the vote and the job in one transaction.
LEMMA FinishStep == ASSUME IInv, NEW w \in Workers, Finish(w) PROVE IInv'
<1>1. /\ LeasedBy(job, w) /\ job.state = "PUBLISHING" /\ wk[w].pc = "finish"
      /\ UNCHANGED <<account, gerritVars, faults>> /\ Leave(w)
  BY DEF Finish, Guarded, Fenced, At, StoreStep
<1>2. /\ WorkerInv(wk[w], w, job, vote, markers, faults) /\ wk[w] \in WorkerRecord
      /\ vote \in VoteRow /\ JobOK /\ VoteOK /\ markers' = markers /\ faults \in Nat
  BY <1>1 DEF IInv, WorkerInv, VoteOK, GerritOK, gerritVars
<1>3. /\ job.pub = "POSTED" /\ wk[w].out \in TerminalVoteStates
      /\ wk[w].out = "APPLIED" => vote.account # NoAccount /\ markers[vote.account] > 0
  BY <1>1, <1>2 DEF WorkerInv, RecordedPCs
<1>4. /\ job' = FinishVoteRow(job)
      /\ vote' = IF vote.status \in TerminalVoteStates THEN vote
                 ELSE [vote EXCEPT !.status = wk[w].out, !.why = wk[w].why]
  BY <1>3 DEF Finish
<1>5. /\ job' \in JobRow /\ job'.state = "DONE" /\ job'.pub = "POSTED" /\ ~job'.live
  BY <1>2, <1>3, <1>4 DEF JobOK, FinishVoteRow, Released, JobRow, JobState
<1>6. /\ vote' \in VoteRow /\ vote'.status \in TerminalVoteStates
      /\ vote'.attempts = vote.attempts /\ vote'.retries = vote.retries
      /\ vote'.account = vote.account
      /\ vote'.status = "APPLIED" => vote.account # NoAccount /\ markers[vote.account] > 0
  <2>1. CASE vote.status \in TerminalVoteStates
    BY <1>2, <1>4, <2>1 DEF VoteOK
  <2>2. CASE vote.status \notin TerminalVoteStates
    <3> DEFINE out == wk[w].out
               why == wk[w].why
    <3>1. out \in TerminalVoteStates /\ why \in Reasons
      BY <1>2, <1>3 DEF WorkerRecord
    <3> HIDE DEF out, why
    <3>2. vote' = [vote EXCEPT !.status = out, !.why = why]
      BY <1>4, <2>2 DEF out, why
    <3>3. /\ vote' \in VoteRow /\ vote'.status = out
          /\ vote'.attempts = vote.attempts /\ vote'.retries = vote.retries
          /\ vote'.account = vote.account
      BY <1>2, <3>1, <3>2 DEF VoteRow, VoteStatus
    <3> QED
      BY <1>3, <3>1, <3>3 DEF out
  <2> QED
    BY <2>1, <2>2
<1>7. JobOK' /\ VoteOK' /\ GerritOK' /\ Kept(w)
  <2>1. vote'.status # NONE
    BY <1>6 DEF TerminalVoteStates, NONE
  <2>2. JobOK' /\ VoteOK'
    BY <1>2, <1>5, <1>6, <1>1 DEF JobOK, VoteOK
  <2> QED
    BY <1>1, <1>5, <1>6, <2>1, <2>2, HolderKept, GerritKept
<1> QED
  BY <1>1, <1>5, <1>7, LeftStep DEF LeasedBy

-----------------------------------------------------------------------------
(* The POST. *)

\* What both outcomes of a POST rely on: it comes from the bound account, and
\* if POSTs are fenced it is the first one and its worker holds the lease.
LEMMA PostReady ==
    ASSUME IInv, NEW w \in Workers, wk[w].pc = "post"
    PROVE  /\ WorkerInv(wk[w], w, job, vote, markers, faults) /\ wk[w] \in WorkerRecord
           /\ job.pub = "POSTED" /\ wk[w].bot \in Accounts /\ vote.account = wk[w].bot
           /\ LeasedBy(job, w) => vote.retries < Limit
           /\ PostsAreFenced =>
                /\ LeasedBy(job, w)
                /\ \A a \in Accounts : markers[a] = 0 /\ inFlight[a] = 0
  BY DEF IInv, WorkerInv, GerritOK, RecordedPCs, SeenPCs, BotPCs, DispatchedPCs, UnvotedPCs

\* The message is added to those of the bound account.
LEMMA CastKept ==
    ASSUME IInv, NEW w \in Workers, wk[w].pc = "post", NEW applied \in BOOLEAN,
           Cast(w, applied),
           UNCHANGED <<job, vote, account, chStatus, newer, inFlight, faults>>
    PROVE  JobOK' /\ VoteOK' /\ GerritOK' /\ Kept(w) /\ markers'[wk[w].bot] > 0
<1>1. /\ JobOK /\ VoteOK /\ GerritOK /\ vote \in VoteRow
      /\ wk[w].bot \in Accounts /\ vote.account = wk[w].bot /\ wk[w].seen.value \in Values
      /\ PostsAreFenced => LeasedBy(job, w)
      /\ PostsAreFenced => \A a \in Accounts : markers[a] = 0 /\ inFlight[a] = 0
  BY PostReady DEF IInv, VoteOK, WorkerRecord, VoteRow
<1>2. /\ markers' \in [Accounts -> Nat] /\ markers'[wk[w].bot] = markers[wk[w].bot] + 1
      /\ \A a \in Accounts \ {wk[w].bot} : markers'[a] = markers[a]
  BY <1>1 DEF Cast, GerritOK
<1>3. \A a \in Accounts : markers[a] \in Nat /\ markers'[a] >= markers[a]
  BY <1>1, <1>2 DEF GerritOK
<1>4. label' \in [Accounts -> Values]
  <2> DEFINE value == wk[w].seen.value
  <2>1. label \in [Accounts -> Values] /\ value \in Values
    BY <1>1 DEF GerritOK
  <2>2. label' = label \/ label' = [label EXCEPT ![wk[w].bot] = value]
    BY DEF Cast
  <2> HIDE DEF value
  <2> QED
    BY <2>1, <2>2
<1>5. GerritOK'
  BY <1>1, <1>2, <1>3, <1>4 DEF GerritOK
<1>6. JobOK' /\ VoteOK'
  BY <1>1, <1>2, <1>3, VoteAssumption DEF JobOK, VoteOK, VoteRow
<1>7. Kept(w)
  <2>1. \A a \in Accounts : markers[a] > 0 => markers'[a] > 0
    BY <1>3, <1>5 DEF GerritOK
  <2>2. faults' \in Nat /\ faults' >= faults
    BY <1>1 DEF GerritOK
  <2>3. ASSUME NEW v \in Workers \ {w}, LeasedBy(job, v), PostsAreFenced
        PROVE  FALSE
    BY <1>1, <2>3 DEF LeasedBy
  <2> QED
    BY <2>1, <2>2, <2>3 DEF Kept, LeasedBy
<1> QED
  BY <1>1, <1>2, <1>3, <1>5, <1>6, <1>7

\* A POST that was answered.
LEMMA PostStep == ASSUME IInv, NEW w \in Workers, Post(w) PROVE IInv'
<1>1. wk[w].pc = "post" /\ UNCHANGED <<job, vote, account, chStatus, newer, inFlight, faults>>
  BY DEF Post, At
<1>2. PICK applied \in BOOLEAN :
          Cast(w, applied) /\ Settle(w, IF applied THEN "APPLIED" ELSE "FAILED", NONE)
  BY DEF Post
<1> DEFINE out == IF applied THEN "APPLIED" ELSE "FAILED"
           k == [wk[w] EXCEPT !.pc = "finish", !.out = out, !.why = NONE]
<1>3. /\ WorkerInv(wk[w], w, job, vote, markers, faults) /\ wk[w] \in WorkerRecord
      /\ wk \in [Workers -> WorkerRecord] /\ vote \in VoteRow /\ faults \in Nat
      /\ job.pub = "POSTED" /\ vote.account = wk[w].bot /\ wk[w].bot \in Accounts
      /\ NoAccount \notin Accounts
  BY <1>1, PostReady, VoteAssumption DEF IInv, VoteOK, GerritOK
<1>4. JobOK' /\ VoteOK' /\ GerritOK' /\ Kept(w) /\ markers'[wk[w].bot] > 0
  BY <1>1, <1>2, CastKept
<1>5. out \in TerminalVoteStates /\ NONE \in Reasons
  BY DEF TerminalVoteStates, Reasons
<1>6. wk' = [wk EXCEPT ![w] = k]
  BY <1>2, <1>3 DEF Settle
<1> HIDE DEF out
<1>7. k \in WorkerRecord /\ k.pc = "finish" /\ k.out = out
  BY <1>3, <1>5 DEF WorkerRecord, BusyPCs, FencedPCs
<1> HIDE DEF k
<1>8. LeasedBy(job', w) => vote'.retries <= Limit + faults' + 1
  BY <1>1, <1>3, LimitType DEF WorkerInv, VoteRow
<1>9. vote'.status # NONE
  BY <1>1, <1>3 DEF WorkerInv, RecordedPCs, SeenPCs
<1>10. WorkerInv(k, w, job', vote', markers', faults')
  BY <1>1, <1>3, <1>4, <1>5, <1>7, <1>8, <1>9
     DEF WorkerInv, RecordedPCs, SeenPCs, BotPCs, DispatchedPCs, UnvotedPCs
<1> QED
  BY <1>4, <1>6, <1>10, ActorStep

\* A POST whose answer was lost: committed, lost, or late.
LEMMA PostTransientStep == ASSUME IInv, NEW w \in Workers, PostTransient(w) PROVE IInv'
<1> DEFINE k == [wk[w] EXCEPT !.pc = "retryPosted"]
<1>1. /\ wk[w].pc = "post" /\ UNCHANGED <<job, vote, account, chStatus, newer, faults>>
      /\ wk' = [wk EXCEPT ![w] = k]
  BY DEF PostTransient, At, Goto
<1>2. /\ WorkerInv(wk[w], w, job, vote, markers, faults) /\ wk[w] \in WorkerRecord
      /\ vote \in VoteRow /\ JobOK /\ VoteOK /\ GerritOK /\ faults \in Nat
      /\ job.pub = "POSTED" /\ vote.account = wk[w].bot /\ wk[w].bot \in Accounts
      /\ LeasedBy(job, w) => vote.retries < Limit
  BY <1>1, PostReady DEF IInv, VoteOK, GerritOK
<1>3. k \in WorkerRecord /\ k.pc = "retryPosted"
  BY <1>2 DEF WorkerRecord, BusyPCs, FencedPCs
<1> HIDE DEF k
<1>4. ASSUME Cast(w, TRUE), UNCHANGED inFlight
      PROVE  JobOK' /\ VoteOK' /\ GerritOK' /\ Kept(w)
  BY <1>1, <1>4, CastKept
<1>5. ASSUME UNCHANGED <<label, markers>>, GerritOK'
      PROVE  JobOK' /\ VoteOK' /\ Kept(w)
  <2>1. JobOK' /\ VoteOK'
    BY <1>1, <1>2, <1>5 DEF JobOK, VoteOK
  <2>2. Kept(w)
    BY <1>1, <1>2, <1>5 DEF Kept, LeasedBy
  <2> QED
    BY <2>1, <2>2
<1>6. ASSUME UNCHANGED <<label, markers, inFlight>>
      PROVE  GerritOK'
  BY <1>1, <1>2, <1>6 DEF GerritOK
<1>7. ASSUME LatePosts, inFlight' = [inFlight EXCEPT ![wk[w].bot] = @ + 1],
             UNCHANGED <<label, markers>>
      PROVE  GerritOK'
  <2>1. /\ inFlight' \in [Accounts -> Nat]
        /\ \A a \in Accounts : a # wk[w].bot => inFlight'[a] = inFlight[a]
        /\ ~PostsAreFenced
    BY <1>2, <1>7 DEF GerritOK, PostsAreFenced
  <2> QED
    BY <1>1, <1>2, <1>7, <2>1 DEF GerritOK
<1>8. JobOK' /\ VoteOK' /\ GerritOK' /\ Kept(w)
  BY <1>4, <1>5, <1>6, <1>7 DEF PostTransient
<1>9. vote'.status # NONE
  BY <1>1, <1>2 DEF WorkerInv, RecordedPCs, SeenPCs
<1>10. LeasedBy(job', w) => vote'.retries <= Limit + faults' + 0
  BY <1>1, <1>2, LimitType DEF WorkerInv
<1>11. WorkerInv(k, w, job', vote', markers', faults')
  BY <1>1, <1>2, <1>3, <1>9, <1>10
     DEF WorkerInv, RecordedPCs, SeenPCs, BotPCs, DispatchedPCs, UnvotedPCs
<1> QED
  BY <1>1, <1>8, <1>11, ActorStep

-----------------------------------------------------------------------------
(* Leases, crashes and the world outside. *)

\* A claim takes over what finished passes and crashes have counted.
LEMMA ClaimStep == ASSUME IInv, NEW w \in Workers, Claim(w) PROVE IInv'
<1> DEFINE k == [wk[w] EXCEPT !.pc = "latest"]
<1>1. /\ wk[w].pc = "idle" /\ Pending(job) /\ ~job.live /\ job' = ClaimRow(job, w)
      /\ wk' = [wk EXCEPT ![w] = k]
      /\ UNCHANGED <<vote, account, gerritVars, faults>>
  BY DEF Claim, At, Goto, StoreStep
<1>2. /\ WorkerInv(wk[w], w, job, vote, markers, faults) /\ wk[w] \in WorkerRecord
      /\ JobOK /\ VoteOK /\ faults \in Nat /\ markers' = markers
      /\ job.state \in {"PUBLISHING", "RETRY_WAIT"} /\ vote.retries <= Limit + faults
  BY <1>1 DEF IInv, WorkerInv, GerritOK, JobOK, VoteOK, gerritVars, Pending, TerminalJobStates
<1>3. /\ job' \in JobRow /\ job'.state = "PUBLISHING" /\ job'.live /\ job'.owner = w
      /\ job'.pub = job.pub
  BY <1>1, <1>2 DEF JobOK, ClaimRow, JobRow, NONE, JobState
<1>4. k \in WorkerRecord /\ k.pc = "latest"
  BY <1>2 DEF WorkerRecord, BusyPCs
<1> HIDE DEF k
<1>5. GerritOK'
  BY <1>1, GerritKept
<1>6. JobOK' /\ VoteOK'
  BY <1>1, <1>2, <1>3 DEF JobOK, VoteOK
<1>7. Kept(w)
  BY <1>1, <1>2, <1>3 DEF Kept, LeasedBy
<1>8. vote'.retries <= Limit + faults' + 0
  BY <1>1, <1>2, LimitType
<1>9. WorkerInv(k, w, job', vote', markers', faults')
  BY <1>1, <1>4, <1>8
     DEF WorkerInv, RecordedPCs, SeenPCs, BotPCs, DispatchedPCs, UnvotedPCs
<1> QED
  BY <1>1, <1>5, <1>6, <1>7, <1>9, ActorStep

\* The lease of an idle owner runs out.
LEMMA LeaseExpireStep == ASSUME IInv, LeaseExpire PROVE IInv'
<1>1. /\ job.live /\ job' = [job EXCEPT !.live = FALSE]
      /\ UNCHANGED <<vote, wk, account, chStatus, newer, label, markers, inFlight, faults>>
      /\ \A w \in Workers : job.owner = w => wk[w].pc = "idle"
  BY DEF LeaseExpire, At, gerritVars
<1>2. /\ JobOK /\ VoteOK /\ faults \in Nat /\ job.owner \in Workers
      /\ WorkerInv(wk[job.owner], job.owner, job, vote, markers, faults)
  BY <1>1 DEF IInv, JobOK, GerritOK
<1>3. vote.retries <= Limit + faults
  BY <1>1, <1>2, LimitType DEF WorkerInv, LeasedBy
<1>4. /\ job' \in JobRow /\ ~job'.live /\ job'.state = job.state /\ job'.retry = job.retry
      /\ job'.pub = job.pub /\ job'.owner = job.owner
  BY <1>1, <1>2 DEF JobOK, JobRow
<1>5. JobOK' /\ VoteOK'
  BY <1>1, <1>2, <1>3, <1>4 DEF JobOK, VoteOK
<1>6. GerritOK'
  BY <1>1 DEF IInv, GerritOK
<1>7. Kept(NoWorker)
  BY <1>1, <1>2, <1>4 DEF Kept, LeasedBy
<1> QED
  BY <1>1, <1>5, <1>6, <1>7, OutsideStep

\* A running worker outlives its lease; the fault pays for its repeated pass.
LEMMA LeaseStallStep == ASSUME IInv, NEW w \in Workers, LeaseStall(w) PROVE IInv'
<1>1. /\ job' = [job EXCEPT !.live = FALSE] /\ faults' = faults + 1 /\ faults < MaxFaults
      /\ UNCHANGED <<vote, wk, account, chStatus, newer, label, markers, inFlight>>
      /\ LeasedBy(job, w) /\ wk[w].pc \in StallPoints
  BY DEF LeaseStall, Fenced, Crash, gerritVars
<1>2. /\ JobOK /\ VoteOK /\ faults \in Nat /\ MaxFaults \in Nat /\ vote.retries \in Nat
      /\ WorkerInv(wk[w], w, job, vote, markers, faults)
  BY VoteAssumption DEF IInv, JobOK, GerritOK, VoteOK, VoteRow
<1>3. vote.retries <= Limit + faults'
  BY <1>1, <1>2, LimitType DEF WorkerInv
<1>4. /\ job' \in JobRow /\ ~job'.live /\ job'.state = job.state /\ job'.retry = job.retry
      /\ job'.pub = job.pub /\ job'.owner = job.owner
  BY <1>1, <1>2 DEF JobOK, JobRow
<1>5. JobOK' /\ VoteOK'
  BY <1>1, <1>2, <1>3, <1>4, LimitType DEF JobOK, VoteOK
<1>6. GerritOK'
  BY <1>1, <1>2 DEF IInv, GerritOK
<1>7. Kept(NoWorker)
  BY <1>1, <1>2, <1>4 DEF Kept, LeasedBy, PostsAreFenced
<1> QED
  BY <1>1, <1>5, <1>6, <1>7, OutsideStep

\* A worker dies: the fault pays for the pass its successor repeats.
LEMMA AbandonStep == ASSUME IInv, NEW w \in Workers, Abandon(w) PROVE IInv'
<1>1. /\ Leave(w) /\ faults' = faults + 1 /\ faults < MaxFaults
      /\ UNCHANGED <<job, vote, account, chStatus, newer, label, markers, inFlight>>
  BY DEF Abandon, Crash, gerritVars
<1>2. /\ JobOK /\ VoteOK /\ faults \in Nat /\ MaxFaults \in Nat /\ vote.retries \in Nat
      /\ WorkerInv(wk[w], w, job, vote, markers, faults)
  BY VoteAssumption DEF IInv, JobOK, GerritOK, VoteOK, VoteRow
<1>3. LeasedBy(job', w) => vote'.retries <= Limit + faults'
  BY <1>1, <1>2, LimitType DEF WorkerInv
<1>4. JobOK' /\ VoteOK'
  BY <1>1, <1>2, LimitType DEF JobOK, VoteOK
<1>5. GerritOK'
  BY <1>1, <1>2 DEF IInv, GerritOK
<1>6. Kept(w)
  BY <1>1, <1>2 DEF Kept, LeasedBy
<1> QED
  BY <1>1, <1>3, <1>4, <1>5, <1>6, LeftStep

\* Gerrit's users, the operator and late POSTs touch no row and no worker.
LEMMA EnvironmentStep == ASSUME IInv, Environment PROVE IInv'
<1>1. /\ UNCHANGED <<job, vote, wk, faults>>
      /\ PostsAreFenced => markers' = markers
  <2>1. ASSUME NEW a \in Accounts, CommitLatePost(a), PostsAreFenced PROVE FALSE
    BY <2>1 DEF IInv, GerritOK, CommitLatePost
  <2> QED
    BY <2>1 DEF Environment, ChangeCloses, NewerPatchSet, RemoveLabel, SwitchAccount,
                CommitLatePost, gerritVars
<1>2. GerritOK' /\ \A a \in Accounts : markers[a] > 0 => markers'[a] > 0
  <2>1. CASE ChangeCloses \/ NewerPatchSet
    BY <2>1 DEF ChangeCloses, NewerPatchSet, IInv, GerritOK
  <2>2. ASSUME NEW a \in Accounts, RemoveLabel(a) PROVE label' \in [Accounts -> Values]
    BY <2>2 DEF RemoveLabel, IInv, GerritOK, Values
  <2>3. ASSUME NEW a \in Accounts, RemoveLabel(a) \/ SwitchAccount(a)
        PROVE  GerritOK' /\ UNCHANGED markers
    BY <2>2, <2>3 DEF RemoveLabel, SwitchAccount, IInv, GerritOK, gerritVars
  <2>4. ASSUME NEW a \in Accounts, CommitLatePost(a)
        PROVE  GerritOK' /\ \A b \in Accounts : markers[b] > 0 => markers'[b] > 0
    <3>1. GerritOK /\ vote.value \in Values
      BY DEF IInv, VoteOK, VoteRow
    <3>2. /\ inFlight' \in [Accounts -> Nat] /\ markers' \in [Accounts -> Nat]
          /\ label' \in [Accounts -> Values]
          /\ vote.account = a
          /\ \A b \in Accounts \ {a} : markers'[b] = markers[b] /\ inFlight'[b] = inFlight[b]
          /\ markers'[a] > 0
      BY <2>4, <3>1 DEF CommitLatePost, GerritOK
    <3>3. ~PostsAreFenced
      BY <2>4, <3>1 DEF CommitLatePost, GerritOK
    <3> QED
      BY <2>4, <3>1, <3>2, <3>3 DEF CommitLatePost, GerritOK
  <2> QED
    BY <2>1, <2>3, <2>4 DEF Environment, ChangeCloses, NewerPatchSet
<1>3. JobOK' /\ VoteOK'
  BY <1>1, <1>2, VoteAssumption DEF IInv, JobOK, VoteOK, VoteRow
<1>4. Kept(NoWorker)
  BY <1>1, <1>2 DEF Kept, LeasedBy, IInv, GerritOK
<1> QED
  BY <1>1, <1>2, <1>3, <1>4, OutsideStep

-----------------------------------------------------------------------------
(* The theorems. *)

\* The invariant holds when the comments have just been posted.
LEMMA InitIInv == Init => IInv
<1> SUFFICES ASSUME Init PROVE IInv
  OBVIOUS
<1>1. PICK u \in Workers, merged \in BOOLEAN :
          /\ job = [AbsentRow EXCEPT !.state = "PUBLISHING", !.owner = u,
                                     !.live = TRUE, !.bound = TRUE,
                                     !.result = TRUE, !.pub = "AMBIGUOUS"]
          /\ wk = [v \in Workers |->
                     IF v = u
                     THEN [IdleWorker EXCEPT !.pc = "ensure",
                                             !.skip = IF merged THEN "merged" ELSE NONE]
                     ELSE IdleWorker]
          /\ chStatus = IF merged THEN "MERGED" ELSE "NEW"
  BY DEF Init
<1>2. /\ vote = NoVote /\ account \in Accounts /\ newer = "none" /\ faults = 0
      /\ label = [a \in Accounts |-> 0] /\ markers = [a \in Accounts |-> 0]
      /\ inFlight = [a \in Accounts |-> 0]
  BY DEF Init
<1>3. /\ job \in JobRow /\ job.state = "PUBLISHING" /\ job.owner = u /\ job.live
  BY <1>1 DEF AbsentRow, JobRow, NothingSpent, JobState, NONE, PublicationStatus
<1>4. /\ vote \in VoteRow /\ vote.status = NONE /\ vote.attempts = 0 /\ vote.retries = 0
      /\ vote.account = NoAccount
  BY <1>2 DEF NoVote, VoteRow, Values, Reasons
<1>5. JobOK
  BY <1>3 DEF JobOK
<1>6. VoteOK
  BY <1>2, <1>3, <1>4, LimitType DEF VoteOK, NONE
<1>7. GerritOK
  BY <1>1, <1>2, VoteAssumption DEF GerritOK, Values
<1>8. /\ IdleWorker \in WorkerRecord /\ IdleWorker.pc = "idle"
      /\ NONE \in Reasons /\ "merged" \in Reasons
  BY DEF IdleWorker, WorkerRecord, NoVote, VoteRow, Values, VoteStatus, Reasons
<1> DEFINE skip == IF merged THEN "merged" ELSE NONE
           first == [IdleWorker EXCEPT !.pc = "ensure", !.skip = skip]
<1>9. skip \in Reasons
  BY <1>8
<1> HIDE DEF skip
<1>10. first \in WorkerRecord /\ first.pc = "ensure"
  BY <1>8, <1>9 DEF WorkerRecord, BusyPCs, FencedPCs
<1>11. wk = [v \in Workers |-> IF v = u THEN first ELSE IdleWorker]
  BY <1>1 DEF skip
<1> HIDE DEF first
<1>12. \A v \in Workers : wk[v] \in WorkerRecord /\ wk[v].pc \in {"idle", "ensure"}
  BY <1>8, <1>10, <1>11
<1>13. vote.retries <= Limit + faults + 0
  BY <1>2, <1>4, LimitType
<1>14. \A v \in Workers : WorkerInv(wk[v], v, job, vote, markers, faults)
  BY <1>12, <1>13
     DEF WorkerInv, RecordedPCs, SeenPCs, BotPCs, DispatchedPCs, UnvotedPCs
<1> QED
  BY <1>5, <1>6, <1>7, <1>11, <1>12, <1>14 DEF IInv

\* Every step keeps it.
LEMMA NextIInv == IInv /\ [Next]_vars => IInv'
<1> SUFFICES ASSUME IInv, [Next]_vars PROVE IInv'
  OBVIOUS
<1>1. CASE UNCHANGED vars
  <2>1. UNCHANGED <<job, vote, wk, account, chStatus, newer, label, markers, inFlight, faults>>
    BY <1>1 DEF vars, gerritVars
  <2> QED
    BY <2>1 DEF IInv, JobOK, VoteOK, GerritOK
<1>2. CASE Environment
  BY <1>2, EnvironmentStep
<1>3. CASE LeaseExpire
  BY <1>3, LeaseExpireStep
<1>4. ASSUME NEW w \in Workers, Claim(w) \/ LeaseStall(w) \/ Abandon(w) PROVE IInv'
  BY <1>4, ClaimStep, LeaseStallStep, AbandonStep
<1>5. ASSUME NEW w \in Workers, WorkerStep(w) PROVE IInv'
  BY <1>5, LocalSteps, EnsureStep, CompleteStep, DispatchStep, RetryStep, RescheduleStep,
     FinishStep, PostStep, PostTransientStep DEF WorkerStep
<1> QED
  BY <1>1, <1>2, <1>3, <1>4, <1>5 DEF Next

\* The inductive invariant of the vote, for any number of workers and accounts,
\* any retry limit and any number of crashes, stalls and late POSTs.
THEOREM VoteInvariant == Spec => []IInv
  BY InitIInv, NextIInv, PTL DEF Spec

\* The rows, the workers and Gerrit keep to their types.
THEOREM VoteTypes == Spec => []TypeOK
<1>1. IInv => TypeOK
  BY DEF IInv, JobOK, VoteOK, GerritOK, TypeOK
<1> QED
  BY <1>1, VoteInvariant, PTL

\* A vote recorded as APPLIED is in Gerrit, from the account that was bound: no
\* crash, lost answer or late POST makes the row claim a vote nobody gave.
THEOREM VoteRecordedOnlyIfCast == Spec => []AppliedMeansVoted
<1>1. IInv => AppliedMeansVoted
  BY DEF IInv, VoteOK, AppliedMeansVoted
<1> QED
  BY <1>1, VoteInvariant, PTL

\* A DONE job has a settled vote and durable comments.
THEOREM VoteSettledWithJob == Spec => []DoneIsSettled
<1>1. IInv => DoneIsSettled
  BY DEF IInv, VoteOK, DoneIsSettled
<1> QED
  BY <1>1, VoteInvariant, PTL

\* POSTs and retries are bounded whatever fails.
THEOREM VoteWithinBudget == Spec => []VoteBudget
<1>1. IInv => VoteBudget
  BY DEF IInv, VoteOK, VoteBudget
<1> QED
  BY <1>1, VoteInvariant, PTL

\* If no POST outlives its lease or is committed after its client gave up, the
\* vote is cast at most once, by one account, however many workers, retries,
\* crashes and changes of credentials there are.
THEOREM VoteCastOnce == ASSUME PostsAreFenced PROVE Spec => []VoteOnce
<1>1. IInv => VoteOnce
  BY DEF IInv, GerritOK, VoteOnce
<1> QED
  BY <1>1, VoteInvariant, PTL

-----------------------------------------------------------------------------
(* A vote that was skipped because the change was merged. *)

\* The comments were posted to a change that was already merged: then no vote
\* is sent, by nobody.
MergedFromStart ==
    (\E w \in Workers : wk[w].skip = "merged") =>
        /\ chStatus = "MERGED"
        /\ \A a \in Accounts : markers[a] = 0 /\ inFlight[a] = 0
        /\ \A w \in Workers : wk[w].pc \notin {"postGuard", "post"}

\* The lease holder that is about to record a merge has sent nothing, and nobody
\* before it.
MergedOutcome ==
    \A w \in Workers :
        LeasedBy(job, w) /\ wk[w].pc = "finish" /\ wk[w].why = "merged" =>
            \A a \in Accounts : markers[a] = 0

\* It is recorded with the end of the job, after which nobody posts.
MergedRecorded ==
    vote.why = "merged" => job.state = "DONE" /\ \A a \in Accounts : markers[a] = 0

Merged == MergedFromStart /\ MergedOutcome /\ MergedRecorded

\* A step of worker w that sends nothing.
LEMMA QuietMerged ==
    ASSUME IInv, Merged, NEW w \in Workers, NEW k, wk' = [wk EXCEPT ![w] = k],
           UNCHANGED <<markers, inFlight, chStatus>>,
           k.skip = "merged" => wk[w].skip = "merged",
           k.pc \in {"postGuard", "post"} =>
               chStatus = "NEW" \/ wk[w].pc \in {"postGuard", "post"},
           \A v \in Workers \ {w} : LeasedBy(job', v) => LeasedBy(job, v),
           LeasedBy(job', w) /\ k.pc = "finish" /\ k.why = "merged" =>
               \A a \in Accounts : markers[a] = 0,
           vote'.why = "merged" => job'.state = "DONE" /\ \A a \in Accounts : markers[a] = 0
    PROVE  Merged'
<1>1. wk'[w] = k /\ \A v \in Workers \ {w} : wk'[v] = wk[v]
  BY DEF IInv
<1>2. MergedFromStart'
  <2> SUFFICES ASSUME NEW u \in Workers, wk'[u].skip = "merged"
               PROVE  /\ chStatus = "MERGED"
                      /\ \A a \in Accounts : markers[a] = 0 /\ inFlight[a] = 0
                      /\ \A v \in Workers : wk'[v].pc \notin {"postGuard", "post"}
    BY Zenon DEF MergedFromStart
  <2>1. wk[u].skip = "merged"
    BY <1>1
  <2> QED BY <1>1, <2>1 DEF Merged, MergedFromStart
<1>3. MergedOutcome'
  BY <1>1 DEF Merged, MergedOutcome
<1> QED BY <1>2, <1>3 DEF Merged, MergedRecorded

\* Nobody loses the lease to a step that leaves the row alone.
LEMMA LocalMerged ==
    ASSUME IInv, Merged, NEW w \in Workers, NEW k, wk' = [wk EXCEPT ![w] = k], LocalStep,
           k.skip = "merged" => wk[w].skip = "merged",
           k.pc \in {"postGuard", "post"} =>
               chStatus = "NEW" \/ wk[w].pc \in {"postGuard", "post"},
           LeasedBy(job, w) /\ k.pc = "finish" /\ k.why = "merged" =>
               \A a \in Accounts : markers[a] = 0
    PROVE  Merged'
<1>1. UNCHANGED <<job, vote, markers, inFlight, chStatus>>
  BY DEF LocalStep, gerritVars
<1> QED BY <1>1, QuietMerged DEF Merged, MergedRecorded

\* A worker that leaves the job records nothing.
LEMMA LeaveMerged ==
    ASSUME IInv, Merged, NEW w \in Workers, Leave(w), LocalStep
    PROVE  Merged'
<1>1. IdleWorker.skip = NONE /\ IdleWorker.pc = "idle" /\ NONE # "merged"
  BY DEF IdleWorker, NONE
<1> QED BY <1>1, LocalMerged DEF Leave

\* A worker that only goes on to another call records nothing.
LEMMA GotoMerged ==
    ASSUME IInv, Merged, NEW w \in Workers, NEW l, l # "finish", Goto(w, l), LocalStep,
           l \in {"postGuard", "post"} => chStatus = "NEW" \/ wk[w].pc \in {"postGuard", "post"}
    PROVE  Merged'
<1> DEFINE k == [wk[w] EXCEPT !.pc = l]
<1>1. wk' = [wk EXCEPT ![w] = k]
  BY DEF Goto
<1>2. k.pc = l /\ k.skip = wk[w].skip
  BY DEF IInv, WorkerRecord
<1> HIDE DEF k
<1> QED BY <1>1, <1>2, LocalMerged

\* A worker may settle for a merge if, holding its lease, it knows of no vote.
LEMMA SettleMerged ==
    ASSUME IInv, Merged, NEW w \in Workers, NEW status, NEW why, Settle(w, status, why),
           LocalStep,
           LeasedBy(job, w) /\ why = "merged" => \A a \in Accounts : markers[a] = 0
    PROVE  Merged'
<1> DEFINE k == [wk[w] EXCEPT !.pc = "finish", !.out = status, !.why = why]
<1>1. wk' = [wk EXCEPT ![w] = k]
  BY DEF Settle, IInv
<1>2. k.pc = "finish" /\ k.skip = wk[w].skip /\ k.why = why
  BY DEF IInv, WorkerRecord
<1> HIDE DEF k
<1> QED BY <1>1, <1>2, LocalMerged

\* Reads of the row and of Gerrit, the guard, and failed or refused calls: the
\* marker was looked up by the bound account, and before the POST there is none.
LEMMA LocalStepsMerged ==
    ASSUME PostsAreFenced, IInv, Merged, NEW w \in Workers,
           \/ Latest(w) \/ Get(w) \/ Account(w) \/ Detail(w) \/ Messages(w) \/ Guard(w)
           \/ PreGet(w) \/ LeaseRefused(w) \/ CallTransient(w) \/ CallPermanent(w)
    PROVE  Merged'
<1>1. wk[w] \in WorkerRecord /\ WorkerInv(wk[w], w, job, vote, markers, faults)
  BY DEF IInv
<1>2. NONE # "merged"
  BY DEF NONE
<1>3. CASE Latest(w)
  <2> DEFINE skip == IF newer = "known" THEN "superseded" ELSE NONE
             k == [wk[w] EXCEPT !.pc = "ensure", !.skip = skip]
  <2>1. wk' = [wk EXCEPT ![w] = k] /\ LocalStep
    BY <1>3 DEF Latest, IInv
  <2>2. skip # "merged"
    BY <1>2
  <2> HIDE DEF skip
  <2>3. k.pc = "ensure" /\ k.skip = skip
    BY <1>1 DEF WorkerRecord
  <2> HIDE DEF k
  <2> QED BY <2>1, <2>2, <2>3, LocalMerged
<1>4. CASE Get(w)
  <2> DEFINE pc == IF vote.status \in TerminalVoteStates \/ wk[w].skip # NONE
                   THEN "finish" ELSE "account"
             out == IF vote.status \in TerminalVoteStates THEN vote.status
                    ELSE IF wk[w].skip # NONE THEN "SKIPPED" ELSE NONE
             k == [wk[w] EXCEPT !.seen = vote, !.pc = pc, !.out = out, !.why = wk[w].skip]
  <2>1. wk' = [wk EXCEPT ![w] = k] /\ LocalStep
    BY <1>4 DEF Get, IInv
  <2>2. pc \in {"finish", "account"}
    OBVIOUS
  <2> HIDE DEF pc, out
  <2>3. k.pc = pc /\ k.skip = wk[w].skip /\ k.why = wk[w].skip
    BY <1>1 DEF WorkerRecord
  <2> HIDE DEF k
  <2>4. wk[w].skip = "merged" => \A a \in Accounts : markers[a] = 0
    BY DEF Merged, MergedFromStart
  <2> QED BY <2>1, <2>2, <2>3, <2>4, LocalMerged
<1>5. CASE Account(w)
  <2>1. CASE Settle(w, "FAILED", NONE)
    BY <1>2, <1>5, <2>1, SettleMerged DEF Account
  <2>2. CASE wk' = [wk EXCEPT ![w].pc = "detail", ![w].bot = account]
    <3> DEFINE k == [wk[w] EXCEPT !.pc = "detail", !.bot = account]
    <3>1. wk' = [wk EXCEPT ![w] = k] /\ LocalStep
      BY <1>5, <2>2 DEF Account, IInv
    <3>2. k.pc = "detail" /\ k.skip = wk[w].skip
      BY <1>1 DEF WorkerRecord
    <3> HIDE DEF k
    <3> QED BY <3>1, <3>2, LocalMerged
  <2> QED BY <1>5, <2>1, <2>2 DEF Account
<1>6. CASE Detail(w)
  <2>1. CASE Settle(w, "SKIPPED", "superseded") \/ Settle(w, "FAILED", NONE)
    BY <1>2, <1>6, <2>1, SettleMerged DEF Detail
  <2>2. CASE wk' = [wk EXCEPT ![w].pc = "messages", ![w].shown = label[wk[w].bot],
                              ![w].open = (chStatus = "NEW")]
    <3> DEFINE shown == label[wk[w].bot]
               open == (chStatus = "NEW")
    <3>1. PICK o \in BOOLEAN : o = open
      BY Zenon
    <3> DEFINE k == [wk[w] EXCEPT !.pc = "messages", !.shown = shown, !.open = o]
    <3>2. wk' = [wk EXCEPT ![w].pc = "messages", ![w].shown = shown, ![w].open = o]
      BY <2>2, <3>1, Zenon
    <3> HIDE DEF shown, open
    <3>3. wk' = [wk EXCEPT ![w] = k] /\ LocalStep
      BY <1>6, <3>2 DEF Detail, IInv
    <3>4. k.pc = "messages" /\ k.skip = wk[w].skip
      BY <1>1 DEF WorkerRecord
    <3> HIDE DEF k
    <3> QED BY <3>3, <3>4, LocalMerged
  <2> QED BY <1>6, <2>1, <2>2, Zenon DEF Detail
<1>7. CASE Messages(w)
  <2>1. wk[w].pc = "messages" /\ LocalStep
    BY <1>7 DEF Messages, At
  <2>2. wk[w].bot \in Accounts /\ (LeasedBy(job, w) => vote.account \in {NoAccount, wk[w].bot})
    BY <1>1, <2>1 DEF WorkerInv, BotPCs, SeenPCs
  <2>3. \/ \E status \in TerminalVoteStates : Settle(w, status, NONE)
        \/ ~MarkerFound(w) /\ Settle(w, "SKIPPED", "merged")
        \/ Goto(w, "guard")
    BY <1>7 DEF Messages, TerminalVoteStates
  <2>4. LeasedBy(job, w) /\ ~MarkerFound(w) => \A a \in Accounts : markers[a] = 0
    <3>1. ~MarkerFound(w) => markers[wk[w].bot] = 0
      BY <2>2 DEF MarkerFound, IInv, GerritOK
    <3> QED BY <2>2, <3>1, MarkersBound
  <2>5. CASE \E status \in TerminalVoteStates : Settle(w, status, NONE)
    BY <1>2, <2>1, <2>5, SettleMerged
  <2>6. CASE ~MarkerFound(w) /\ Settle(w, "SKIPPED", "merged")
    BY <2>1, <2>4, <2>6, SettleMerged
  <2>7. CASE Goto(w, "guard")
    BY <2>1, <2>7, GotoMerged
  <2> QED BY <2>3, <2>5, <2>6, <2>7
<1>8. CASE Guard(w)
  <2>1. /\ LocalStep
        /\ \/ Settle(w, "SKIPPED", "superseded")
           \/ Goto(w, "dispatch")
           \/ wk[w].pc = "postGuard" /\ Goto(w, "post")
    BY <1>8 DEF Guard, At
  <2> QED BY <2>1, SettleMerged, GotoMerged
<1>9. CASE PreGet(w)
  <2>1. wk[w].pc = "preGet" /\ LocalStep
    BY <1>9 DEF PreGet, At
  <2>2. LeasedBy(job, w) => \A a \in Accounts : markers[a] = 0
    BY <1>1, <2>1 DEF WorkerInv, UnvotedPCs
  <2>3. \/ Settle(w, "SKIPPED", "merged") \/ Settle(w, "FAILED", NONE)
        \/ Settle(w, "SKIPPED", "superseded")
        \/ chStatus = "NEW" /\ Goto(w, "postGuard")
    BY <1>9 DEF PreGet
  <2> QED BY <1>2, <2>1, <2>2, <2>3, SettleMerged, GotoMerged
<1>10. CASE LeaseRefused(w)
  BY <1>10, LeaveMerged DEF LeaseRefused
<1>11. CASE CallTransient(w)
  <2>1. LocalStep /\ (Goto(w, "retryPosted") \/ Goto(w, "retryUnposted"))
    BY <1>11 DEF CallTransient
  <2> QED BY <2>1, GotoMerged
<1>12. CASE CallPermanent(w)
  BY <1>2, <1>12, SettleMerged DEF CallPermanent
<1> QED
  BY <1>3, <1>4, <1>5, <1>6, <1>7, <1>8, <1>9, <1>10, <1>11, <1>12

\* The transactions: only finish records a reason, with the lease.
LEMMA StoreStepsMerged ==
    ASSUME IInv, Merged, NEW w \in Workers,
           Ensure(w) \/ Complete(w) \/ Dispatch(w) \/ Retry(w) \/ Reschedule(w) \/ Finish(w)
    PROVE  Merged'
<1>1. /\ wk[w] \in WorkerRecord /\ WorkerInv(wk[w], w, job, vote, markers, faults)
      /\ vote \in VoteRow /\ job \in JobRow /\ JobOK /\ NONE # "merged"
  BY DEF IInv, VoteOK, JobOK, NONE
<1>2. LeasedBy(job, w) /\ job.state = "PUBLISHING"
  BY DEF Ensure, Complete, Dispatch, Retry, Reschedule, Finish, Guarded, Fenced
<1>3. vote.why # "merged"
  BY <1>2 DEF Merged, MergedRecorded
<1>4. UNCHANGED <<markers, inFlight, chStatus>>
  BY DEF Ensure, Complete, Dispatch, Retry, Reschedule, Finish, StoreStep, gerritVars
<1>5. \A v \in Workers \ {w} : ~LeasedBy(job, v)
  BY <1>2 DEF LeasedBy
<1>6. IdleWorker.skip = NONE /\ IdleWorker.pc = "idle"
  BY DEF IdleWorker
<1>7. ASSUME NEW l, l \notin {"finish", "postGuard", "post"}, Goto(w, l),
             job'.owner = job.owner, vote'.why = vote.why
      PROVE  Merged'
  <2> DEFINE k == [wk[w] EXCEPT !.pc = l]
  <2>1. wk' = [wk EXCEPT ![w] = k] /\ k.pc = l /\ k.skip = wk[w].skip
    BY <1>1, <1>7 DEF Goto, WorkerRecord
  <2>2. \A v \in Workers \ {w} : ~LeasedBy(job', v)
    BY <1>2, <1>7 DEF LeasedBy
  <2> HIDE DEF k
  <2> QED BY <1>3, <1>4, <1>7, <2>1, <2>2, QuietMerged
<1>8. ASSUME Leave(w), job'.owner = job.owner \/ ~job'.live,
             vote'.why = "merged" => job'.state = "DONE" /\ \A a \in Accounts : markers[a] = 0
      PROVE  Merged'
  <2>1. \A v \in Workers \ {w} : ~LeasedBy(job', v)
    BY <1>2, <1>8 DEF LeasedBy
  <2> QED BY <1>1, <1>4, <1>6, <1>8, <2>1, QuietMerged DEF Leave
<1>9. CASE Ensure(w)
  <2>1. vote'.why = vote.why
    BY <1>1, <1>9 DEF Ensure, VoteRow
  <2>2. Goto(w, "complete") /\ job' = job
    BY <1>9 DEF Ensure
  <2> QED BY <1>7, <2>1, <2>2
<1>10. CASE Complete(w)
  <2>1. Goto(w, "get") /\ vote' = vote /\ job' = CompletePublicationRow(job, TRUE)
    BY <1>10 DEF Complete
  <2>2. job'.owner = job.owner
    BY <1>1, <2>1 DEF CompletePublicationRow, JobRow
  <2> QED BY <1>7, <2>1, <2>2
<1>11. CASE Dispatch(w)
  <2>1. job' = job
    BY <1>11 DEF Dispatch
  <2>2. CASE vote' = vote /\ Leave(w)
    BY <1>3, <1>8, <2>1, <2>2
  <2>3. CASE ~(vote' = vote /\ Leave(w))
    <3> DEFINE bot == wk[w].bot
    <3>1. /\ vote' = [vote EXCEPT !.status = "AMBIGUOUS", !.attempts = @ + 1, !.account = bot]
          /\ wk' = [wk EXCEPT ![w].pc = "preGet", ![w].seen = vote']
      BY <1>11, <2>3 DEF Dispatch
    <3> HIDE DEF bot
    <3>2. vote'.why = vote.why
      BY <1>1, <3>1 DEF VoteRow
    <3> DEFINE k == [wk[w] EXCEPT !.pc = "preGet", !.seen = vote']
    <3>3. wk' = [wk EXCEPT ![w] = k] /\ k.pc = "preGet" /\ k.skip = wk[w].skip
      BY <1>1, <3>1 DEF IInv, WorkerRecord
    <3> HIDE DEF k
    <3> QED BY <1>3, <1>4, <2>1, <3>2, <3>3, QuietMerged
  <2> QED BY <2>2, <2>3
<1>12. CASE Retry(w)
  <2>1. job' = job /\ vote' = [vote EXCEPT !.retries = @ + 1]
        /\ (Settle(w, "FAILED", NONE) \/ Goto(w, "reschedule"))
    BY <1>12 DEF Retry
  <2>2. vote'.why = vote.why
    BY <1>1, <2>1 DEF VoteRow
  <2>3. CASE Goto(w, "reschedule")
    BY <1>7, <2>1, <2>2, <2>3
  <2>4. CASE Settle(w, "FAILED", NONE)
    <3> DEFINE k == [wk[w] EXCEPT !.pc = "finish", !.out = "FAILED", !.why = NONE]
    <3>1. wk' = [wk EXCEPT ![w] = k] /\ k.why = NONE /\ k.skip = wk[w].skip /\ k.pc = "finish"
      BY <1>1, <2>4 DEF Settle, IInv, WorkerRecord
    <3> HIDE DEF k
    <3> QED BY <1>1, <1>3, <1>4, <2>1, <2>2, <3>1, QuietMerged
  <2> QED BY <2>1, <2>3, <2>4
<1>13. CASE Reschedule(w)
  <2>1. Leave(w) /\ vote' = vote /\ job' = ScheduleRetryRow(job, "PUBLISHING")
    BY <1>13 DEF Reschedule
  <2>2. ~job'.live
    BY <1>1, <2>1 DEF ScheduleRetryRow, Released, JobRow
  <2> QED BY <1>3, <1>8, <2>1, <2>2
<1>14. CASE Finish(w)
  <2>1. Leave(w) /\ wk[w].pc = "finish"
    BY <1>14 DEF Finish, At
  <2>2. CASE UNCHANGED <<job, vote>>
    BY <1>3, <1>8, <2>1, <2>2
  <2>3. CASE ~UNCHANGED <<job, vote>>
    <3> DEFINE out == wk[w].out
               why == wk[w].why
    <3>1. /\ job' = FinishVoteRow(job)
          /\ vote' = vote \/ vote' = [vote EXCEPT !.status = out, !.why = why]
      BY <1>14, <2>3 DEF Finish
    <3>2. job'.state = "DONE" /\ ~job'.live
      BY <1>1, <3>1 DEF FinishVoteRow, Released, JobRow
    <3>3. why = "merged" => \A a \in Accounts : markers[a] = 0
      BY <1>2, <2>1 DEF Merged, MergedOutcome
    <3> HIDE DEF out, why
    <3>4. vote'.why \in {vote.why, why}
      BY <1>1, <3>1 DEF VoteRow
    <3> QED BY <1>3, <1>8, <2>1, <3>2, <3>3, <3>4
  <2> QED BY <2>2, <2>3
<1> QED
  BY <1>9, <1>10, <1>11, <1>12, <1>13, <1>14

\* The POST: its worker holds the lease, so that no merge is on record and
\* nobody else is about to record one.
LEMMA PostMerged ==
    ASSUME PostsAreFenced, IInv, Merged, NEW w \in Workers, Post(w) \/ PostTransient(w)
    PROVE  Merged'
<1>1. /\ wk[w].pc = "post" /\ UNCHANGED <<job, vote, chStatus>>
      /\ (\E out : Settle(w, out, NONE)) \/ Goto(w, "retryPosted")
  BY DEF Post, PostTransient, At
<1>2. wk[w] \in WorkerRecord /\ LeasedBy(job, w) /\ JobOK /\ NONE # "merged"
  BY <1>1, PostReady DEF IInv, NONE
<1>3. vote'.why # "merged"
  BY <1>1, <1>2 DEF Merged, MergedRecorded, JobOK, LeasedBy
<1>4. PICK k : /\ wk' = [wk EXCEPT ![w] = k] /\ k.skip = wk[w].skip
               /\ k.pc \in {"finish", "retryPosted"}
               /\ k.pc = "finish" => k.why = NONE
  <2>1. CASE Goto(w, "retryPosted")
    <3> DEFINE k == [wk[w] EXCEPT !.pc = "retryPosted"]
    <3>1. wk' = [wk EXCEPT ![w] = k] /\ k.skip = wk[w].skip /\ k.pc = "retryPosted"
      BY <1>2, <2>1 DEF Goto, WorkerRecord
    <3> HIDE DEF k
    <3> QED BY <3>1
  <2>2. ASSUME NEW out, Settle(w, out, NONE)
        PROVE  \E k : /\ wk' = [wk EXCEPT ![w] = k] /\ k.skip = wk[w].skip
                      /\ k.pc \in {"finish", "retryPosted"}
                      /\ k.pc = "finish" => k.why = NONE
    <3> DEFINE k == [wk[w] EXCEPT !.pc = "finish", !.out = out, !.why = NONE]
    <3>1. wk' = [wk EXCEPT ![w] = k] /\ k.skip = wk[w].skip /\ k.pc = "finish" /\ k.why = NONE
      BY <1>2, <2>2 DEF Settle, IInv, WorkerRecord
    <3> HIDE DEF k
    <3> QED BY <3>1
  <2> QED BY <1>1, <2>1, <2>2
<1>5. \A v \in Workers : wk[v].skip # "merged"
  BY <1>1 DEF Merged, MergedFromStart
<1>6. wk'[w] = k /\ \A v \in Workers \ {w} : wk'[v] = wk[v]
  BY <1>4 DEF IInv
<1>7. MergedFromStart'
  BY <1>4, <1>5, <1>6 DEF MergedFromStart
<1>8. MergedOutcome'
  BY <1>1, <1>2, <1>4, <1>6 DEF MergedOutcome, LeasedBy
<1> QED BY <1>3, <1>7, <1>8 DEF Merged, MergedRecorded

\* Claims, leases, crashes and the world outside.
LEMMA OthersMerged ==
    ASSUME PostsAreFenced, IInv, Merged,
           \/ Environment \/ LeaseExpire
           \/ \E w \in Workers : Claim(w) \/ LeaseStall(w) \/ Abandon(w)
    PROVE  Merged'
<1>1. JobOK /\ job \in JobRow /\ NONE # "merged"
  BY DEF IInv, JobOK, NONE
<1>2. CASE Environment
  <2>1. UNCHANGED <<job, vote, wk>>
    BY <1>2 DEF Environment, ChangeCloses, NewerPatchSet, RemoveLabel, SwitchAccount,
                CommitLatePost
  <2>2. UNCHANGED <<markers, inFlight>>
    <3>1. ASSUME NEW a \in Accounts, CommitLatePost(a) PROVE FALSE
      BY <3>1 DEF IInv, GerritOK, CommitLatePost
    <3> QED BY <1>2, <3>1 DEF Environment, ChangeCloses, NewerPatchSet, RemoveLabel,
                              SwitchAccount, gerritVars
  <2>3. chStatus = "MERGED" => chStatus' = chStatus
    BY <1>2 DEF Environment, ChangeCloses, NewerPatchSet, RemoveLabel, SwitchAccount,
                CommitLatePost, gerritVars
  <2> QED BY <2>1, <2>2, <2>3 DEF Merged, MergedFromStart, MergedOutcome, MergedRecorded
<1>3. CASE LeaseExpire \/ \E w \in Workers : LeaseStall(w)
  <2>1. /\ job' = [job EXCEPT !.live = FALSE]
        /\ UNCHANGED <<vote, wk, markers, inFlight, chStatus>>
    BY <1>3 DEF LeaseExpire, LeaseStall, gerritVars
  <2>2. ~job'.live /\ job'.state = job.state
    BY <1>1, <2>1 DEF JobRow
  <2> QED BY <2>1, <2>2 DEF Merged, MergedFromStart, MergedOutcome, MergedRecorded, LeasedBy
<1>4. ASSUME NEW w \in Workers, Abandon(w) PROVE Merged'
  <2>1. /\ wk' = [wk EXCEPT ![w] = IdleWorker]
        /\ UNCHANGED <<job, vote, markers, inFlight, chStatus>>
    BY <1>4 DEF Abandon, Leave, gerritVars
  <2>2. IdleWorker.skip = NONE /\ IdleWorker.pc = "idle"
    BY DEF IdleWorker
  <2> QED BY <1>1, <2>1, <2>2, QuietMerged DEF Merged, MergedRecorded
<1>5. ASSUME NEW w \in Workers, Claim(w) PROVE Merged'
  <2> DEFINE k == [wk[w] EXCEPT !.pc = "latest"]
  <2>1. /\ Pending(job) /\ ~job.live /\ job' = ClaimRow(job, w)
        /\ wk' = [wk EXCEPT ![w] = k]
        /\ UNCHANGED <<vote, markers, inFlight, chStatus>>
    BY <1>5 DEF Claim, Goto, StoreStep, gerritVars
  <2>2. k.pc = "latest" /\ k.skip = wk[w].skip
    BY DEF IInv, WorkerRecord
  <2>3. job'.owner = w
    BY <1>1, <2>1 DEF ClaimRow, JobRow
  <2>4. vote.why # "merged"
    BY <2>1 DEF Merged, MergedRecorded, Pending, TerminalJobStates
  <2> HIDE DEF k
  <2> QED BY <2>1, <2>2, <2>3, <2>4, QuietMerged DEF LeasedBy
<1> QED BY <1>2, <1>3, <1>4, <1>5

\* If no POST outlives its lease or is committed after its client gave up, "no
\* Code-Review vote was sent" is true whenever a merge is the recorded reason.
THEOREM MergedVoteWasNotSent == ASSUME PostsAreFenced PROVE Spec => []MergedSkipSentNothing
<1>1. Init => IInv /\ Merged
  <2> SUFFICES ASSUME Init PROVE Merged
    BY InitIInv
  <2>1. PICK u \in Workers, merged \in BOOLEAN :
          /\ wk = [v \in Workers |->
                     IF v = u
                     THEN [IdleWorker EXCEPT !.pc = "ensure",
                                             !.skip = IF merged THEN "merged" ELSE NONE]
                     ELSE IdleWorker]
          /\ chStatus = IF merged THEN "MERGED" ELSE "NEW"
    BY DEF Init
  <2> DEFINE skip == IF merged THEN "merged" ELSE NONE
             first == [IdleWorker EXCEPT !.pc = "ensure", !.skip = skip]
  <2>2. skip = "merged" => chStatus = "MERGED"
    BY <2>1 DEF NONE
  <2>3. wk = [v \in Workers |-> IF v = u THEN first ELSE IdleWorker]
    BY <2>1
  <2> HIDE DEF skip
  <2>4. /\ first.pc = "ensure" /\ first.skip = skip
        /\ IdleWorker.pc = "idle" /\ IdleWorker.skip = NONE /\ NONE # "merged"
    BY DEF IdleWorker, NONE
  <2> HIDE DEF first
  <2>5. \A v \in Workers : wk[v].pc \in {"idle", "ensure"} /\ wk[v].skip \in {NONE, skip}
    BY <2>3, <2>4
  <2>6. /\ vote = NoVote
        /\ markers = [a \in Accounts |-> 0] /\ inFlight = [a \in Accounts |-> 0]
    BY Zenon DEF Init
  <2>7. vote.why = NONE /\ \A a \in Accounts : markers[a] = 0 /\ inFlight[a] = 0
    BY <2>6 DEF NoVote
  <2> QED BY <2>2, <2>4, <2>5, <2>7 DEF Merged, MergedFromStart, MergedOutcome, MergedRecorded
<1>2. IInv /\ Merged /\ [Next]_vars => (IInv /\ Merged)'
  <2> SUFFICES ASSUME IInv, Merged, [Next]_vars PROVE Merged'
    BY NextIInv
  <2>1. CASE UNCHANGED vars
    <3>1. UNCHANGED <<job, vote, wk, chStatus, markers, inFlight>>
      BY <2>1 DEF vars, gerritVars
    <3> QED BY <3>1 DEF Merged, MergedFromStart, MergedOutcome, MergedRecorded
  <2>2. CASE Environment \/ LeaseExpire
    BY <2>2, OthersMerged
  <2>3. ASSUME NEW w \in Workers, Claim(w) \/ LeaseStall(w) \/ Abandon(w) PROVE Merged'
    BY <2>3, OthersMerged
  <2>4. ASSUME NEW w \in Workers, WorkerStep(w) PROVE Merged'
    BY <2>4, LocalStepsMerged, StoreStepsMerged, PostMerged DEF WorkerStep
  <2> QED BY <2>1, <2>2, <2>3, <2>4 DEF Next
<1>3. Merged => MergedSkipSentNothing
  BY DEF Merged, MergedRecorded, MergedSkipSentNothing
<1> QED BY <1>1, <1>2, <1>3, PTL DEF Spec

=============================================================================
