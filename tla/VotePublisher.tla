--------------------------- MODULE VotePublisher ---------------------------
(***************************************************************************)
(* The Code-Review vote of one job whose review comments are in Gerrit     *)
(* (voting.py, jobs/votes.py, gerrit/votes.py).  ReviewJobs takes this as  *)
(* the single steps Vote and VoteRetry; here every transaction and every   *)
(* Gerrit call is a step of its own, and the worker may lose its lease,    *)
(* crash or be replaced between any two of them.                           *)
(*                                                                         *)
(* The vote message carries a marker that is unique to the job, so the     *)
(* markers Gerrit holds are counted per author account.                    *)
(***************************************************************************)
EXTENDS JobRows

CONSTANTS
    Accounts,     \* Gerrit accounts the bot's credentials may belong to
    NoAccount,    \* account_id IS NULL
    StallPoints,  \* pcs at which a running worker may outlive its lease
    LatePosts,    \* may Gerrit commit a POST after its client gave up?
    MaxFaults     \* bound: crashes and stalls

\* Calls the store refuses without a live lease on the PUBLISHING job.
FencedPCs ==
    {"ensure", "complete", "guard", "dispatch", "postGuard", "retryUnposted",
     "retryPosted", "reschedule", "finish"}

\* Gerrit calls and plain reads.
CallPCs == {"account", "detail", "messages", "preGet", "post"}
BusyPCs == FencedPCs \cup CallPCs \cup {"latest", "get"}

ASSUME VoteAssumption ==
    /\ Accounts # {} /\ NoAccount \notin Accounts
    /\ StallPoints \subseteq BusyPCs
    /\ LatePosts \in BOOLEAN
    /\ MaxFaults \in Nat

VARIABLES
    job,       \* the job row
    vote,      \* its review_votes row
    wk,        \* the worker slots
    account,   \* the account of the configured credentials
    chStatus,  \* Gerrit: the change's status
    newer,     \* a newer Patch Set: "none", "uploaded", or "known" to the store
    label,     \* Gerrit: Code-Review label of each bot account
    markers,   \* Gerrit: messages with this job's vote marker, by author
    inFlight,  \* POSTs given up by their client and not yet committed
    faults     \* crashes and stalls so far

gerritVars == <<chStatus, newer, label, markers, inFlight>>
vars == <<job, vote, wk, account, gerritVars, faults>>

Values == {0, 1}
TerminalVoteStates == {"APPLIED", "FAILED", "SKIPPED"}
VoteStatus == {"PENDING", "AMBIGUOUS"} \cup TerminalVoteStates

\* why: the last_error text, as far as a property tells it apart.
Reasons == {NONE, "merged", "superseded"}
VoteRow ==
    [status : VoteStatus \cup {NONE}, value : Values, attempts : Nat,
     retries : Nat, account : Accounts \cup {NoAccount}, why : Reasons]
NoVote ==
    [status |-> NONE, value |-> 0, attempts |-> 0, retries |-> 0,
     account |-> NoAccount, why |-> NONE]

\* skip: why the vote must not be sent (allow_vote, skip_reason); seen, bot,
\* shown, open: local copies of the vote row, the account, its label and
\* whether the change was still open; out, why: the outcome to be finished.
WorkerRecord ==
    [pc : BusyPCs \cup {"idle"}, skip : Reasons, seen : VoteRow,
     bot : Accounts \cup {NoAccount}, shown : Values, open : BOOLEAN,
     out : TerminalVoteStates \cup {NONE}, why : Reasons]
IdleWorker ==
    [pc |-> "idle", skip |-> NONE, seen |-> NoVote, bot |-> NoAccount,
     shown |-> 0, open |-> FALSE, out |-> NONE, why |-> NONE]

\* retry.publish_attempts
Limit == Budget["PUBLISH"]

\* Rows, workers and Gerrit hold values of their kinds, and a job in this phase
\* is being published, waiting to be, or DONE.
TypeOK ==
    /\ job \in JobRow
    /\ job.state \in {"PUBLISHING", "RETRY_WAIT", "DONE"}
    /\ vote \in VoteRow
    /\ wk \in [Workers -> WorkerRecord]
    /\ account \in Accounts
    /\ chStatus \in {"NEW", "MERGED", "ABANDONED"}
    /\ newer \in {"none", "uploaded", "known"}
    /\ label \in [Accounts -> Values]
    /\ markers \in [Accounts -> Nat]
    /\ inFlight \in [Accounts -> Nat]
    /\ faults \in 0 .. MaxFaults

\* Some worker has just posted the comments; the change was open at its last
\* check, or merged, and then no vote is wanted.
Init ==
    /\ \E w \in Workers, merged \in BOOLEAN :
          /\ job = [AbsentRow EXCEPT !.state = "PUBLISHING", !.owner = w,
                                     !.live = TRUE, !.bound = TRUE,
                                     !.result = TRUE, !.pub = "AMBIGUOUS"]
          /\ wk = [v \in Workers |->
                     IF v = w
                     THEN [IdleWorker EXCEPT !.pc = "ensure",
                                             !.skip = IF merged THEN "merged" ELSE NONE]
                     ELSE IdleWorker]
          /\ chStatus = IF merged THEN "MERGED" ELSE "NEW"
    /\ vote = NoVote
    /\ account \in Accounts
    /\ newer = "none"
    /\ label = [a \in Accounts |-> 0]
    /\ markers = [a \in Accounts |-> 0]
    /\ inFlight = [a \in Accounts |-> 0]
    /\ faults = 0

-----------------------------------------------------------------------------
At(w, pc) == wk[w].pc = pc

Fenced(w) == LeasedBy(job, w)

\* VoteStore._guard
Guarded(w) == Fenced(w) /\ job.state = "PUBLISHING"

Goto(w, pc) == wk' = [wk EXCEPT ![w].pc = pc]
Leave(w) == wk' = [wk EXCEPT ![w] = IdleWorker]

\* The local finish(status, error) of VotePublisher.process.
Settle(w, status, why) ==
    wk' = [wk EXCEPT ![w].pc = "finish", ![w].out = status, ![w].why = why]

Crash == faults < MaxFaults /\ faults' = faults + 1

\* Only the worker moves.
LocalStep == UNCHANGED <<job, vote, account, gerritVars, faults>>

\* Only the worker and the database move.
StoreStep == UNCHANGED <<account, gerritVars, faults>>

-----------------------------------------------------------------------------
(* Gerrit, its users and the operator (external). *)

ChangeCloses ==
    /\ chStatus = "NEW"
    /\ chStatus' \in {"MERGED", "ABANDONED"}
    /\ UNCHANGED <<job, vote, wk, account, newer, label, markers, inFlight, faults>>

\* A newer Patch Set is uploaded; its event is enqueued later, which leaves a
\* job that is being published alone.
NewerPatchSet ==
    /\ \/ newer = "none" /\ chStatus = "NEW" /\ newer' = "uploaded"
       \/ newer = "uploaded" /\ newer' = "known"
    /\ UNCHANGED <<job, vote, wk, account, chStatus, label, markers, inFlight, faults>>

\* Someone removes the bot's vote.
RemoveLabel(a) ==
    /\ label[a] # 0
    /\ label' = [label EXCEPT ![a] = 0]
    /\ UNCHANGED <<job, vote, wk, account, chStatus, newer, markers, inFlight, faults>>

\* The workers are given other credentials; a running one keeps the account it
\* has already asked for.
SwitchAccount(a) ==
    /\ account' = a
    /\ UNCHANGED <<job, vote, wk, gerritVars, faults>>

CommitLatePost(a) ==
    /\ inFlight[a] > 0
    /\ inFlight' = [inFlight EXCEPT ![a] = @ - 1]
    /\ markers' = [markers EXCEPT ![a] = @ + 1]
    /\ label' = [label EXCEPT ![a] = vote.value]
    /\ UNCHANGED <<job, vote, wk, account, chStatus, newer, faults>>

-----------------------------------------------------------------------------
(* Leases and claims, as in ReviewJobs. *)

LeaseExpire ==
    /\ job.live
    /\ \A w \in Workers : job.owner = w => At(w, "idle")
    /\ job' = [job EXCEPT !.live = FALSE]
    /\ UNCHANGED <<vote, wk, account, gerritVars, faults>>

LeaseStall(w) ==
    /\ wk[w].pc \in StallPoints
    /\ Fenced(w)
    /\ job' = [job EXCEPT !.live = FALSE]
    /\ Crash
    /\ UNCHANGED <<vote, wk, account, gerritVars>>

Abandon(w) ==
    /\ ~At(w, "idle")
    /\ Leave(w)
    /\ Crash
    /\ UNCHANGED <<job, vote, account, gerritVars>>

\* A guarded call of a worker that lost the job raises.
LeaseRefused(w) ==
    /\ wk[w].pc \in FencedPCs
    /\ ~Guarded(w)
    /\ Leave(w)
    /\ LocalStep

Claim(w) ==
    /\ At(w, "idle")
    /\ Pending(job) /\ ~job.live
    /\ job' = ClaimRow(job, w)
    /\ Goto(w, "latest")
    /\ UNCHANGED vote
    /\ StoreStep

-----------------------------------------------------------------------------
(* The way back into the vote: _process_publish.  The comments are POSTED, *)
(* or has_published_review finds them.                                     *)

Latest(w) ==
    /\ At(w, "latest")
    /\ wk' = [wk EXCEPT ![w].pc = "ensure",
                        ![w].skip = IF newer = "known" THEN "superseded" ELSE NONE]
    /\ LocalStep

\* VoteStore.ensure: without a decision the vote is SKIPPED from the start.
Ensure(w) ==
    /\ At(w, "ensure")
    /\ Guarded(w)
    /\ \/ /\ vote.status = NONE
          /\ \E v \in Values, s \in {"PENDING", "SKIPPED"} :
                vote' = [vote EXCEPT !.status = s, !.value = v]
       \/ vote.status # NONE /\ UNCHANGED vote
    /\ Goto(w, "complete")
    /\ UNCHANGED job
    /\ StoreStep

\* complete_publication_and_mark_done(defer_done=True)
Complete(w) ==
    /\ At(w, "complete")
    /\ Guarded(w)
    /\ job' = CompletePublicationRow(job, TRUE)
    /\ Goto(w, "get")
    /\ UNCHANGED vote
    /\ StoreStep

-----------------------------------------------------------------------------
(* VotePublisher.process *)

Get(w) ==
    /\ At(w, "get")
    /\ wk' = [wk EXCEPT ![w].seen = vote,
                        ![w].pc = IF vote.status \in TerminalVoteStates \/ wk[w].skip # NONE
                                  THEN "finish" ELSE "account",
                        ![w].out = IF vote.status \in TerminalVoteStates THEN vote.status
                                   ELSE IF wk[w].skip # NONE THEN "SKIPPED" ELSE NONE,
                        ![w].why = wk[w].skip]
    /\ LocalStep

Account(w) ==
    /\ At(w, "account")
    /\ IF wk[w].seen.account \in {NoAccount, account}
       THEN wk' = [wk EXCEPT ![w].pc = "detail", ![w].bot = account]
       ELSE Settle(w, "FAILED", NONE)
    /\ LocalStep

\* code_review_vote_observation, its first request: revision, status, label.
Detail(w) ==
    /\ At(w, "detail")
    /\ \/ newer # "none" /\ Settle(w, "SKIPPED", "superseded")
       \/ newer = "none" /\ chStatus = "ABANDONED" /\ Settle(w, "FAILED", NONE)
       \/ /\ newer = "none" /\ chStatus # "ABANDONED"
          /\ wk' = [wk EXCEPT ![w].pc = "messages", ![w].shown = label[wk[w].bot],
                              ![w].open = (chStatus = "NEW")]
    /\ LocalStep

\* parse_vote_observation: a message of this account with this job's marker.
MarkerFound(w) == markers[wk[w].bot] > 0

BugMergedFirst(w) ==
    /\ At(w, "messages")
    /\ \/ ~wk[w].open /\ Settle(w, "SKIPPED", "merged")
       \/ wk[w].open /\ MarkerFound(w) /\ Settle(w, "APPLIED", NONE)
       \/ wk[w].open /\ ~MarkerFound(w) /\ Goto(w, "guard")
    /\ LocalStep
BugNoRetryLimit(w) ==
    /\ At(w, "messages")
    /\ IF MarkerFound(w)
       THEN Settle(w, "APPLIED", NONE)
       ELSE Goto(w, "guard")
    /\ LocalStep
BugTrustLabel(w) ==
    /\ At(w, "messages")
    /\ IF MarkerFound(w) \/ wk[w].shown = wk[w].seen.value
       THEN Settle(w, "APPLIED", NONE)
       ELSE IF ~wk[w].open THEN Settle(w, "SKIPPED", "merged")
       ELSE Goto(w, "guard")
    /\ LocalStep
\* ... its second request, and what follows from both.  permitted: the label
\* exists and the bot may give this value.
Messages(w) ==
    /\ At(w, "messages")
    /\ \E permitted \in BOOLEAN :
          IF MarkerFound(w)
          THEN Settle(w, IF permitted /\ wk[w].shown = wk[w].seen.value
                         THEN "APPLIED" ELSE "FAILED", NONE)
          ELSE IF ~wk[w].open THEN Settle(w, "SKIPPED", "merged")
          ELSE IF \/ ~permitted
                  \/ wk[w].seen.attempts >= Limit
                  \/ wk[w].seen.retries >= Limit
          THEN Settle(w, "FAILED", NONE)
          ELSE Goto(w, "guard")
    /\ LocalStep

\* _publish_guard, before the intent is recorded and once more before the POST.
Guard(w) ==
    /\ wk[w].pc \in {"guard", "postGuard"}
    /\ Guarded(w)
    /\ IF newer = "known" THEN Settle(w, "SKIPPED", "superseded")
       ELSE Goto(w, IF At(w, "guard") THEN "dispatch" ELSE "post")
    /\ LocalStep

\* VoteStore.dispatch
Dispatch(w) ==
    /\ At(w, "dispatch")
    /\ Guarded(w)
    /\ IF vote.status \in TerminalVoteStates \/ vote.account \notin {NoAccount, wk[w].bot}
       THEN UNCHANGED vote /\ Leave(w)
       ELSE /\ vote' = [vote EXCEPT !.status = "AMBIGUOUS", !.attempts = @ + 1,
                                    !.account = wk[w].bot]
            /\ wk' = [wk EXCEPT ![w].pc = "preGet", ![w].seen = vote']
    /\ UNCHANGED job
    /\ StoreStep

\* ensure_current_revision of publish_review_input: the change must be open.
PreGet(w) ==
    /\ At(w, "preGet")
    /\ \/ chStatus = "MERGED" /\ Settle(w, "SKIPPED", "merged")
       \/ chStatus = "ABANDONED" /\ Settle(w, "FAILED", NONE)
       \/ chStatus = "NEW" /\ newer # "none" /\ Settle(w, "SKIPPED", "superseded")
       \/ chStatus = "NEW" /\ newer = "none" /\ Goto(w, "postGuard")
    /\ LocalStep

\* The POST: the message always gets through, the label may be ignored.
Cast(w, applied) ==
    /\ markers' = [markers EXCEPT ![wk[w].bot] = @ + 1]
    /\ label' = IF applied THEN [label EXCEPT ![wk[w].bot] = wk[w].seen.value] ELSE label

Post(w) ==
    /\ At(w, "post")
    /\ \E applied \in BOOLEAN :
          Cast(w, applied) /\ Settle(w, IF applied THEN "APPLIED" ELSE "FAILED", NONE)
    /\ UNCHANGED <<job, vote, account, chStatus, newer, inFlight, faults>>

\* A TransientError of the POST: committed with its answer lost, lost, or late.
PostTransient(w) ==
    /\ At(w, "post")
    /\ \/ Cast(w, TRUE) /\ UNCHANGED inFlight
       \/ UNCHANGED <<label, markers, inFlight>>
       \/ /\ LatePosts
          /\ inFlight' = [inFlight EXCEPT ![wk[w].bot] = @ + 1]
          /\ UNCHANGED <<label, markers>>
    /\ Goto(w, "retryPosted")
    /\ UNCHANGED <<job, vote, account, chStatus, newer, faults>>

\* A TransientError of the other calls; posted is set before publish_review_input.
CallTransient(w) ==
    /\ wk[w].pc \in CallPCs \ {"post"}
    /\ Goto(w, IF At(w, "preGet") THEN "retryPosted" ELSE "retryUnposted")
    /\ LocalStep

CallPermanent(w) ==
    /\ wk[w].pc \in CallPCs
    /\ Settle(w, "FAILED", NONE)
    /\ LocalStep

\* VoteStore.retry: the last retry before a POST gives up ...
BugCountOnlyPosts(w) ==
    /\ wk[w].pc \in {"retryUnposted", "retryPosted"}
    /\ Guarded(w)
    /\ vote' = [vote EXCEPT !.retries = @ + (IF At(w, "retryPosted") THEN 1 ELSE 0)]
    /\ Goto(w, "reschedule")
    /\ UNCHANGED job
    /\ StoreStep
BugRepostAtOnce(w) ==
    /\ wk[w].pc \in {"retryUnposted", "retryPosted"}
    /\ Guarded(w)
    /\ vote' = [vote EXCEPT !.retries = @ + 1]
    /\ Goto(w, IF At(w, "retryPosted") THEN "postGuard" ELSE "reschedule")
    /\ UNCHANGED job
    /\ StoreStep
Retry(w) ==
    /\ wk[w].pc \in {"retryUnposted", "retryPosted"}
    /\ Guarded(w)
    /\ vote' = [vote EXCEPT !.retries = @ + 1]
    /\ IF At(w, "retryUnposted") /\ vote'.retries >= Limit
       THEN Settle(w, "FAILED", NONE)
       ELSE Goto(w, "reschedule")
    /\ UNCHANGED job
    /\ StoreStep

\* ... the others wait.
BugFailInsteadOfRetry(w) ==
    /\ At(w, "reschedule") /\ Guarded(w)
    /\ job' = MarkFailedPermanentRow(job)
    /\ Leave(w) /\ UNCHANGED vote /\ StoreStep
Reschedule(w) ==
    /\ At(w, "reschedule")
    /\ Guarded(w)
    /\ job' = ScheduleRetryRow(job, "PUBLISHING")
    /\ Leave(w)
    /\ UNCHANGED vote
    /\ StoreStep

\* VoteStore.finish: a terminal vote keeps its status, the job is DONE.  The
\* account it may record decides nothing any more.
BugFinishJobOnly(w) ==
    /\ At(w, "finish") /\ Guarded(w)
    /\ job' = FinishVoteRow(job)
    /\ vote' = IF wk[w].out = "FAILED" THEN vote
               ELSE [vote EXCEPT !.status = wk[w].out, !.why = wk[w].why]
    /\ Leave(w) /\ StoreStep
BugFinishUnfenced(w) ==
    /\ At(w, "finish")
    /\ job' = FinishVoteRow(job)
    /\ vote' = IF vote.status \in TerminalVoteStates THEN vote
               ELSE [vote EXCEPT !.status = wk[w].out, !.why = wk[w].why]
    /\ Leave(w)
    /\ StoreStep
Finish(w) ==
    /\ At(w, "finish")
    /\ Guarded(w)
    /\ IF job.pub # "POSTED"
       THEN UNCHANGED <<job, vote>>
       ELSE /\ job' = FinishVoteRow(job)
            /\ vote' = IF vote.status \in TerminalVoteStates THEN vote
                       ELSE [vote EXCEPT !.status = wk[w].out, !.why = wk[w].why]
    /\ Leave(w)
    /\ StoreStep

-----------------------------------------------------------------------------
WorkerStep(w) ==
    \/ Latest(w) \/ Ensure(w) \/ Complete(w) \/ Get(w) \/ Account(w) \/ Detail(w)
    \/ Messages(w) \/ Guard(w) \/ Dispatch(w) \/ PreGet(w) \/ Post(w) \/ Retry(w)
    \/ Reschedule(w) \/ Finish(w) \/ LeaseRefused(w)
    \/ CallTransient(w) \/ CallPermanent(w) \/ PostTransient(w)

Environment ==
    \/ ChangeCloses \/ NewerPatchSet
    \/ \E a \in Accounts : RemoveLabel(a) \/ SwitchAccount(a) \/ CommitLatePost(a)

Next ==
    \/ Environment
    \/ LeaseExpire
    \/ \E w \in Workers : Claim(w) \/ WorkerStep(w) \/ LeaseStall(w) \/ Abandon(w)

Spec == Init /\ [][Next]_vars

-----------------------------------------------------------------------------
(* Safety. *)

\* The job's vote is cast at most once, by one account, however often its
\* answer is lost, its worker replaced or the credentials changed (the marker
\* is looked up first, and an account bound by dispatch never changes).
VoteOnce ==
    \A a, b \in Accounts :
        markers[a] <= 1 /\ (markers[a] > 0 /\ markers[b] > 0 => a = b)

\* APPLIED is only recorded for a vote that Gerrit has (finish after a confirmed
\* POST or an observed marker), by the account the row is bound to.
AppliedMeansVoted ==
    vote.status = "APPLIED" => vote.account # NoAccount /\ markers[vote.account] > 0

\* A DONE job leaves no open vote behind, and its comments are durable: finish
\* writes both rows in one transaction.
DoneIsSettled ==
    job.state = "DONE" => vote.status \in TerminalVoteStates /\ job.pub = "POSTED"

\* "No Code-Review vote was sent" is true when a merge is the recorded reason.
MergedSkipSentNothing ==
    vote.status = "SKIPPED" /\ vote.why = "merged" => \A a \in Accounts : markers[a] = 0

\* Seen from the job row the vote does what ReviewJobs models as Vote and
\* VoteRetry: whatever happens between the calls, the row is only claimed, put
\* off or finished by a worker entitled to it (VotePhase).
Phase == INSTANCE VotePhase
ImplementsVotePhase == Phase!Spec

\* POSTs are bounded by retry.publish_attempts; retries by one more read-only
\* pass, and by the passes a crash has repeated.
VoteBudget ==
    vote.attempts <= Limit /\ vote.retries <= Limit + 1 + faults

-----------------------------------------------------------------------------
(* Liveness.  Slots poll and run, an abandoned lease runs out.  Crashes    *)
(* and stalls are bounded, transient errors are not.                       *)

FairSpec ==
    /\ Spec
    /\ \A w \in Workers : WF_vars(WorkerStep(w)) /\ WF_vars(Claim(w))
    /\ WF_vars(LeaseExpire)

\* The vote is settled and the job DONE, even if every call to Gerrit keeps
\* failing: the retry counters, not the service's recovery, end it.
EveryVoteEnds == <>(job.state = "DONE")

=============================================================================
