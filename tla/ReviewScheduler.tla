----------------------------- MODULE ReviewScheduler -----------------------------
(***************************************************************************)
(* The native review engine on one Patch Set: RoundRobinReview takes turns *)
(* among the work items of a phase under a shared budget of model calls    *)
(* and repository reads, NativeFirmwareReviewEngine.review runs it for the *)
(* candidates and then for their verification, and every decision is saved *)
(* through the lease-guarded PostgresProgressBackend so that a later       *)
(* attempt resumes it.                                                     *)
(*                                                                         *)
(* Each worker keeps its own copy of the progress row and overwrites the   *)
(* whole row when it saves.  The model's answer, what the repository says, *)
(* and what the validator accepts are inputs.                              *)
(***************************************************************************)
EXTENDS ProgressRows, SequencesExt

CONSTANTS
    Workers, NoWorker,
    Diff,               \* chunk_diff: the initial chunks, disjoint, in the diff's order
    BatchSize,          \* candidates per verification batch
    MaxCalls, CallReserve,      \* max_llm_calls_per_job and its verifier share
    MaxTools, ToolReserve,      \* max_tool_calls_per_job and its verifier share
    MaxRounds,          \* max_tool_rounds
    MaxChunks,          \* max_candidate_chunks
    MaxFrozen,          \* max_candidate_findings_total
    MaxFindings,        \* max_findings
    ToolBatch,          \* bound: tool calls in one answer
    MaxAttempts         \* bound: attempts at the review

ASSUME SchedulerAssumption ==
    /\ NoWorker \notin Workers
    /\ Lines \subseteq Nat /\ IsFiniteSet(Lines)
    /\ Diff \in Seq(WorkItems)
    /\ \A i, j \in DOMAIN Diff : i # j => Diff[i] \cap Diff[j] = {}
    /\ {BatchSize, MaxCalls, MaxTools, MaxChunks, ToolBatch} \subseteq Nat \ {0}
    /\ {CallReserve, ToolReserve, MaxRounds, MaxFrozen, MaxFindings, MaxAttempts} \subseteq Nat
    /\ CallReserve <= MaxCalls /\ ToolReserve <= MaxTools

VARIABLES
    progress,   \* the stored row
    lease,      \* the worker whose lease the job row names
    attempts,   \* attempts started
    dead,       \* a PermanentError has ended the job
    pc,         \* where each worker is: idle, turn, asked or again
    mem         \* each worker's copy of the row, its budget and its queues

vars == <<progress, lease, attempts, dead, pc, mem>>

-----------------------------------------------------------------------------
(* Work items *)

\* The k smallest members of a set of places.
Lowest(S, k) == {x \in S : Cardinality({y \in S : y < x}) < k}

Splittable(item) == Cardinality(item) > 1

\* Both split functions cut an item into smaller ones in order; an item of one
\* place (a chunk at its minimal size, a single candidate) cannot be cut.
Halves(item) ==
    LET low == Lowest(item, Cardinality(item) \div 2) IN <<low, item \ low>>

\* Items of a phase are disjoint: their first places give the diff's order.
InOrder(items) ==
    CHOOSE s \in [1 .. Cardinality(items) -> items] :
        \A i, j \in DOMAIN s : i < j => Min(s[i]) < Min(s[j])

Batches(findings) ==
    LET cut(k) == Lowest(findings, (k + 1) * BatchSize) \ Lowest(findings, k * BatchSize) IN
    {cut(k) : k \in 0 .. Cardinality(findings)} \ {{}}

InitialWork(row) == IF row.phase = "candidate" THEN ToSet(Diff) ELSE Batches(row.frozen)

\* MUTANT: a resumed attempt does not follow the splits already decided.
BugForgetsSplits(row) ==
    InitialWork(row) \ {c.item : c \in InPhase(row, row.phase)}

\* expand(): follow the splits already decided.  What no checkpoint decides
\* waits; a DONE or STOPPED item is taken over with its limitations.
Undecided(row) ==
    LET decided == InPhase(row, row.phase)
        items == {c.item : c \in decided}
        split == {c.item : c \in {d \in decided : d.status = "SPLIT"}} IN
    (InitialWork(row) \cup UNION {ToSet(Halves(item)) : item \in split}) \ items

-----------------------------------------------------------------------------
(* A worker's memory: its copy of the row, the budget, and the queues of    *)
(* RoundRobinReview.run.                                                    *)

Session(item, slots) ==
    [item |-> item, slots |-> slots, calls |-> 0, rounds |-> 0, usage |-> NoUsage,
     pending |-> 0, dup |-> TRUE, final |-> FALSE, limited |-> FALSE]

Add(u, v) == [calls |-> u.calls + v.calls, tools |-> u.tools + v.tools]
OneCall == [calls |-> 1, tools |-> 0]
OneTool == [calls |-> 0, tools |-> 1]

Idle == [row |-> NoProgress, used |-> NoUsage, done |-> {}, stopped |-> {},
         waiting |-> <<>>, active |-> <<>>, limited |-> FALSE]

\* MUTANT: limitations of taken-over checkpoints are not taken over.
BugForgetsLimits(row, used) ==
    LET decided == InPhase(row, row.phase) IN
    [row |-> row, used |-> used,
     done |-> {c.item : c \in Finished(row, row.phase)},
     stopped |-> {c.item : c \in {d \in decided : d.status = "STOPPED"}},
     waiting |-> InOrder(Undecided(row)), active |-> <<>>, limited |-> FALSE]

\* A phase begins: taken-over results are not run again and stay charged.
Queued(row, used) ==
    LET decided == InPhase(row, row.phase)
        over == {c \in decided : c.status # "SPLIT"} IN
    [row |-> row, used |-> used,
     done |-> {c.item : c \in Finished(row, row.phase)},
     stopped |-> {c.item : c \in {d \in decided : d.status = "STOPPED"}},
     waiting |-> InOrder(Undecided(row)), active |-> <<>>,
     limited |-> \E c \in over : c.limited]

\* review(): what a new attempt finds already charged.
Loaded(row) ==
    Queued(row, IF row.phase = "candidate" THEN Charged(row, "candidate")
                ELSE Add(row.charged, Charged(row, "verification")))

Clamp(n) == IF n < 0 THEN 0 ELSE n

RemainingCalls(m) ==
    Clamp(MaxCalls - (IF m.row.phase = "candidate" THEN CallReserve ELSE 0) - m.used.calls)
\* MUTANT: exploration may spend the verifier's reads.
BugNoReserve(m) == Clamp(MaxTools - m.used.tools)

RemainingTools(m) ==
    Clamp(MaxTools - (IF m.row.phase = "candidate" THEN ToolReserve ELSE 0) - m.used.tools)

\* What a live session may still need: the slots it started with, or the one
\* final answer.
Slots(s) == IF s.calls = 0 THEN s.slots ELSE 1
Protected(sessions) == SumFunction([i \in DOMAIN sessions |-> Slots(sessions[i])])
\* MUTANT: admission does not look at what live sessions still need.
BugAdmitsFreely(m) == RemainingCalls(m)

Spare(m) == RemainingCalls(m) - Protected(m.active)
SlotsWanted(m) == IF MaxRounds > 0 /\ RemainingTools(m) > 0 THEN 2 ELSE 1

MaxUnits(m) ==
    IF m.row.phase = "candidate" THEN MaxChunks ELSE Max({1, Cardinality(m.row.frozen)})

CanAdmit(m) ==
    /\ m.waiting # <<>>
    /\ Cardinality(m.done) + Len(m.active) < MaxUnits(m)
    /\ \/ Spare(m) >= SlotsWanted(m)
       \/ m.active = <<>> /\ Spare(m) >= 1

\* The session whose turn it is leads the queue until its step is over.
Current(m) == Head(m.active)
Turned(m, s) == [m EXCEPT !.active = Append(Tail(@), s)]
Available(m) == RemainingCalls(m) - Protected(Tail(m.active))

MustEnd(m) ==
    LET s == Current(m) IN
    \/ s.final
    \/ s.rounds >= MaxRounds
    \/ Available(m) = 1
    \/ RemainingTools(m) = 0

-----------------------------------------------------------------------------
(* Saving *)

Rank == [none |-> 0, candidate |-> 0, verification |-> 1, complete |-> 2]

\* The checks of save() against the stored row.
Accepted(old, new) ==
    /\ Rank[new.phase] >= Rank[old.phase]
    /\ old.phase = "complete" => new.result = old.result
    /\ Rank[old.phase] > 0 =>
        /\ new.frozen = old.frozen /\ new.charged = old.charged
        /\ new.covered = old.covered /\ new.limited = old.limited

\* MUTANT: the save does not check the lease.
BugUnfencedSave(w, row) ==
    /\ Accepted(progress, row)
    /\ progress' = row

\* _guard and save: one transaction, which overwrites the whole row.
Save(w, row) ==
    /\ lease = w
    /\ Accepted(progress, row)
    /\ progress' = row

\* record_invocation before and after a call: the lease must be live.
Recorded(w) == lease = w /\ UNCHANGED progress

\* _checkpoint for the session whose turn it is.  A split keeps no charge.
Decision(m, status, found) ==
    LET s == Current(m) IN
    [phase |-> m.row.phase, item |-> s.item, status |-> status,
     usage |-> IF status = "SPLIT" THEN NoUsage ELSE s.usage,
     limited |-> s.limited \/ status = "STOPPED", found |-> found]

WithCheckpoint(row, c) ==
    [row EXCEPT !.checkpoints = (@ \ {d \in @ : d.phase = c.phase /\ d.item = c.item}) \cup {c}]

-----------------------------------------------------------------------------
(* Steps of a worker *)

Init ==
    /\ progress = NoProgress
    /\ lease = NoWorker
    /\ attempts = 0
    /\ dead = FALSE
    /\ pc = [w \in Workers |-> "idle"]
    /\ mem = [w \in Workers |-> Idle]

\* A worker claims the job, and review() loads the row or creates it.  A row
\* that is complete is only read: no attempt at inference starts.
Start(w) ==
    LET row == IF progress.phase = "none" THEN NewProgress ELSE progress IN
    /\ pc[w] = "idle"
    /\ lease = NoWorker
    /\ attempts < MaxAttempts
    /\ ~dead
    /\ progress.phase # "complete"
    /\ lease' = w
    /\ attempts' = attempts + 1
    /\ progress' = row
    /\ pc' = [pc EXCEPT ![w] = "turn"]
    /\ mem' = [mem EXCEPT ![w] = Loaded(row)]
    /\ UNCHANGED dead

\* Admission: a waiting item gets a session with its first and final slots; the
\* last single call still reviews one item without tools.
Admit(w) ==
    LET m == mem[w]
        slots == Min({SlotsWanted(m), Spare(m)}) IN
    /\ pc[w] = "turn"
    /\ CanAdmit(m)
    /\ mem' = [mem EXCEPT ![w].waiting = Tail(@),
                          ![w].active = Append(@, Session(Head(m.waiting), slots))]
    /\ UNCHANGED <<progress, lease, attempts, dead, pc>>

\* The loop gives the turn to the session at the head of the queue.
HasTurn(w) ==
    /\ pc[w] = "turn"
    /\ ~CanAdmit(mem[w])
    /\ mem[w].active # <<>>

\* _tool_step for a call the session has made before: no read, no charge.
RepeatedTool(w) ==
    LET m == mem[w]
        s == Current(m)
        left == s.pending - 1 IN
    /\ HasTurn(w)
    /\ s.pending > 0
    /\ s.usage.tools > 0
    /\ mem' = [mem EXCEPT ![w] = Turned(m,
            [s EXCEPT !.pending = left, !.final = @ \/ (left = 0 /\ s.dup)])]
    /\ UNCHANGED <<progress, lease, attempts, dead, pc>>

\* _tool_step when the repository budget is used up.
RefusedTool(w) ==
    LET m == mem[w]
        s == Current(m) IN
    /\ HasTurn(w)
    /\ s.pending > 0
    /\ RemainingTools(m) = 0
    /\ mem' = [mem EXCEPT ![w] = Turned(m,
            [s EXCEPT !.pending = @ - 1, !.limited = TRUE, !.final = TRUE, !.dup = FALSE])]
    /\ UNCHANGED <<progress, lease, attempts, dead, pc>>

\* _tool_step that reads the repository.
ReadTool(w) ==
    LET m == mem[w]
        s == Current(m) IN
    /\ HasTurn(w)
    /\ s.pending > 0
    /\ RemainingTools(m) > 0
    /\ Recorded(w)
    /\ mem' = [mem EXCEPT ![w] =
            [Turned(m, [s EXCEPT !.pending = @ - 1, !.usage = Add(@, OneTool), !.dup = FALSE])
                EXCEPT !.used = Add(@, OneTool)]]
    /\ UNCHANGED <<lease, attempts, dead, pc>>

\* The next request of a session: recorded and charged before it is sent.  A
\* session that must end is asked for its final answer without tools; one that
\* has no call left is saved as STOPPED.
Ask(w) ==
    LET m == mem[w]
        s == Current(m)
        stop == Decision(m, "STOPPED", {})
        stopped == WithCheckpoint(m.row, stop) IN
    /\ HasTurn(w)
    /\ s.pending = 0
    /\ IF Available(m) < 1
       THEN /\ Save(w, stopped)
            /\ mem' = [mem EXCEPT ![w] = [m EXCEPT !.row = stopped, !.active = Tail(@),
                                    !.stopped = @ \cup {s.item}, !.limited = TRUE]]
            /\ UNCHANGED pc
       ELSE /\ Recorded(w)
            /\ mem' = [mem EXCEPT
                    ![w].used = Add(@, OneCall),
                    ![w].active = <<[s EXCEPT !.calls = @ + 1, !.usage = Add(@, OneCall),
                                        !.final = MustEnd(m), !.limited = @ \/ MustEnd(m)]>>
                                  \o Tail(@)]
            /\ pc' = [pc EXCEPT ![w] = "asked"]
    /\ UNCHANGED <<lease, attempts, dead>>

\* What an answer that parses may report on an item: any of its places, or none.
Answers(item) == SUBSET item

\* The answer parses: the item is done and saved with what was found.
Json(w) ==
    LET m == mem[w]
        s == Current(m) IN
    /\ pc[w] \in {"asked", "again"}
    /\ \E found \in Answers(s.item) :
        LET row == WithCheckpoint(m.row, Decision(m, "DONE", found)) IN
        /\ Save(w, row)
        /\ mem' = [mem EXCEPT ![w] = [m EXCEPT !.row = row, !.active = Tail(@),
                        !.done = @ \cup {s.item}, !.limited = @ \/ s.limited]]
    /\ pc' = [pc EXCEPT ![w] = "turn"]
    /\ UNCHANGED <<lease, attempts, dead>>

\* The answer asks for repository reads: they are made in later turns.
ToolCalls(w) ==
    LET m == mem[w]
        s == Current(m) IN
    /\ pc[w] = "asked"
    /\ ~s.final
    /\ Recorded(w)
    /\ \E n \in 1 .. ToolBatch :
        mem' = [mem EXCEPT ![w] = Turned(m,
            [s EXCEPT !.pending = n, !.rounds = @ + 1, !.dup = TRUE])]
    /\ pc' = [pc EXCEPT ![w] = "turn"]
    /\ UNCHANGED <<lease, attempts, dead>>

\* MUTANT: after a second truncated answer the item is asked for anew.
BugAsksForever(w) ==
    /\ pc[w] \in {"asked", "again"}
    /\ Recorded(w)
    /\ pc' = [pc EXCEPT ![w] = IF @ = "asked" THEN "again" ELSE "asked"]
    /\ UNCHANGED <<lease, attempts, dead, mem>>

\* finish_reason "length": the call is refunded and the answer asked for once
\* more, compact and without tools.  The refund and the new charge cancel out.
Truncated(w) ==
    LET s == Current(mem[w]) IN
    /\ pc[w] = "asked"
    /\ Recorded(w)
    /\ mem' = [mem EXCEPT ![w].active = <<[s EXCEPT !.calls = @ + 1]>> \o Tail(@)]
    /\ pc' = [pc EXCEPT ![w] = "again"]
    /\ UNCHANGED <<lease, attempts, dead>>

\* The item is cut and its parts wait at the end of the queue.  The call that
\* failed is refunded if its answer was truncated, not if it was refused.
SplitItem(w, refund) ==
    LET m == mem[w]
        s == Current(m)
        row == WithCheckpoint(m.row, Decision(m, "SPLIT", {})) IN
    /\ Splittable(s.item)
    /\ Save(w, row)
    /\ mem' = [mem EXCEPT ![w] = [m EXCEPT !.row = row, !.active = Tail(@),
                    !.waiting = @ \o Halves(s.item),
                    !.used.calls = IF refund THEN @ - 1 ELSE @]]
    /\ pc' = [pc EXCEPT ![w] = "turn"]
    /\ UNCHANGED <<lease, attempts, dead>>

\* MUTANT: both truncated calls are refunded, the first one a second time.
BugRefundsTwice(w) ==
    LET m == mem[w]
        s == Current(m)
        row == WithCheckpoint(m.row, Decision(m, "SPLIT", {})) IN
    /\ pc[w] = "again"
    /\ Splittable(s.item)
    /\ Save(w, row)
    /\ mem' = [mem EXCEPT ![w] = [m EXCEPT !.row = row, !.active = Tail(@),
                    !.waiting = @ \o Halves(s.item), !.used.calls = @ - 2]]
    /\ pc' = [pc EXCEPT ![w] = "turn"]
    /\ UNCHANGED <<lease, attempts, dead>>

TruncatedAgain(w) == pc[w] = "again" /\ SplitItem(w, TRUE)
ContextTooLong(w) == pc[w] \in {"asked", "again"} /\ SplitItem(w, FALSE)

\* Released by _process_review's error handling, if the lease is still live.
Released(w) == IF lease = w THEN NoWorker ELSE lease

\* The context is too long and the item cannot be cut: a PermanentError.
CannotSplit(w) ==
    /\ pc[w] \in {"asked", "again"}
    /\ ~Splittable(Current(mem[w]).item)
    /\ Recorded(w)
    /\ dead' = TRUE
    /\ lease' = NoWorker
    /\ pc' = [pc EXCEPT ![w] = "idle"]
    /\ mem' = [mem EXCEPT ![w] = Idle]
    /\ UNCHANGED attempts

PhaseOver(w) ==
    /\ pc[w] = "turn"
    /\ ~CanAdmit(mem[w])
    /\ mem[w].active = <<>>

\* MUTANT: only this Patch Set's candidates are verified.
BugForgetsPrior(selected) == selected

\* _include_previous_candidates: every prior finding is decided again.
WithPrevious(selected) == selected \cup Prior

\* Identical candidates count once; the most severe and certain ones are kept.
Selections(found) == kSubset(Min({MaxFrozen, Cardinality(found)}), found)

\* _coverage: complete if no item was stopped or left.
Covered(m) == m.stopped = {} /\ m.waiting = <<>>

\* Exploration is over: candidates, coverage and charges are frozen before any
\* verifier request, and the verification is queued under the same budget.
EndCandidates(w) ==
    LET m == mem[w]
        found == FoundIn({c \in Finished(m.row, "candidate") : c.item \in m.done}) IN
    /\ PhaseOver(w)
    /\ m.row.phase = "candidate"
    /\ \E selected \in Selections(found) :
        LET row == [m.row EXCEPT !.phase = "verification",
                        !.frozen = WithPrevious(selected),
                        !.charged = Charged(m.row, "candidate"),
                        !.covered = Covered(m),
                        !.limited = m.limited \/ m.waiting # <<>> \/ selected # found] IN
        /\ Save(w, row)
        /\ mem' = [mem EXCEPT ![w] = Queued(row, m.used)]
    /\ UNCHANGED <<lease, attempts, dead, pc>>

\* validate_all: a finding too uncertain, off the changed lines or not anchored in
\* a file is rejected; which ones is an input.
Validations(confirmed) == SUBSET confirmed

\* Verification is over: what the validator accepts of the confirmed findings is
\* published up to a limit, and the result is saved.  The worker goes on to publish it.
EndVerification(w) ==
    LET m == mem[w]
        confirmed == FoundIn({c \in Finished(m.row, "verification") : c.item \in m.done}) IN
    /\ PhaseOver(w)
    /\ m.row.phase = "verification"
    /\ \E valid \in Validations(confirmed) :
       \E published \in kSubset(Min({MaxFindings, Cardinality(valid)}), valid) :
        LET complete ==
                /\ m.row.covered /\ ~m.row.limited
                /\ Covered(m) /\ ~m.limited
                /\ published = valid
                /\ confirmed \cap Prior \subseteq valid
            row == [m.row EXCEPT !.phase = "complete",
                        !.result = [valid |-> valid, published |-> published,
                                    complete |-> complete]] IN
        Save(w, row)
    /\ lease' = NoWorker
    /\ pc' = [pc EXCEPT ![w] = "idle"]
    /\ mem' = [mem EXCEPT ![w] = Idle]
    /\ UNCHANGED <<attempts, dead>>

-----------------------------------------------------------------------------
(* Failures *)

\* A TransientError of the model, the repository or the database, an answer
\* that does not parse or asks for tools in the final turn, or a crash: the
\* attempt is over and only what was saved remains.
Abort(w) ==
    /\ pc[w] # "idle"
    /\ lease = w
    /\ lease' = NoWorker
    /\ pc' = [pc EXCEPT ![w] = "idle"]
    /\ mem' = [mem EXCEPT ![w] = Idle]
    /\ UNCHANGED <<progress, attempts, dead>>

\* The lease of a stalled worker expires; it does not know yet.
Expire(w) ==
    /\ pc[w] # "idle"
    /\ lease = w
    /\ lease' = NoWorker
    /\ UNCHANGED <<progress, attempts, dead, pc, mem>>

\* A worker that has lost its lease is refused by _guard at its next save or
\* record.
Fenced(w) ==
    /\ pc[w] # "idle"
    /\ lease # w
    /\ pc' = [pc EXCEPT ![w] = "idle"]
    /\ mem' = [mem EXCEPT ![w] = Idle]
    /\ UNCHANGED <<progress, lease, attempts, dead>>

Step(w) ==
    \/ Admit(w) \/ RepeatedTool(w) \/ RefusedTool(w) \/ ReadTool(w) \/ Ask(w)
    \/ Json(w) \/ ToolCalls(w) \/ Truncated(w) \/ TruncatedAgain(w)
    \/ ContextTooLong(w) \/ CannotSplit(w)
    \/ EndCandidates(w) \/ EndVerification(w) \/ Fenced(w)

\* The job has its result, has failed for good, or has no attempt left.
Over ==
    /\ \A w \in Workers : pc[w] = "idle"
    /\ dead \/ progress.phase = "complete" \/ attempts = MaxAttempts
    /\ UNCHANGED vars

Next == (\E w \in Workers : Start(w) \/ Step(w) \/ Abort(w) \/ Expire(w)) \/ Over

Spec == Init /\ [][Next]_vars

\* A worker that runs goes on running: its event loop schedules the coroutine
\* and every call of the model, the repository or the database has a timeout.
FairSpec == Spec /\ \A w \in Workers : WF_vars(Step(w))

-----------------------------------------------------------------------------
(* Properties *)

TypeOK ==
    /\ progress \in Progress
    /\ lease \in Workers \cup {NoWorker}
    /\ attempts \in 0 .. MaxAttempts
    /\ dead \in BOOLEAN
    /\ pc \in [Workers -> {"idle", "turn", "asked", "again"}]
    /\ \A w \in Workers :
        /\ mem[w].row \in Progress /\ mem[w].used \in Usage
        /\ \A i \in DOMAIN mem[w].active :
            mem[w].active[i].item \in WorkItems /\ mem[w].active[i].usage \in Usage

\* scheduling.py:79 "a final slot for every live session": whatever the other
\* sessions spend, and however many of their items are cut or asked again, the
\* calls left always cover what every live session may still need.  So no
\* session is ever cut off with its evidence unused (the STOPPED branch).
FinalSlotKept ==
    \A w \in Workers :
        LET m == mem[w]
            others == IF pc[w] = "turn" THEN m.active ELSE Tail(m.active) IN
        pc[w] # "idle" => Protected(others) <= RemainingCalls(m)

\* The verifier's share is never spent on exploration, in the running attempt
\* or, summed over all attempts, in what is charged to the job for good.
ReserveKept ==
    /\ \A w \in Workers :
        LET m == mem[w] IN
        /\ m.used.calls <= MaxCalls /\ m.used.tools <= MaxTools
        /\ m.row.phase = "candidate" =>
            m.used.calls <= MaxCalls - CallReserve /\ m.used.tools <= MaxTools - ToolReserve
    /\ progress.charged.calls <= MaxCalls - CallReserve
    /\ progress.charged.tools <= MaxTools - ToolReserve

\* At the limit, after cuts, and in an attempt that resumes another's work,
\* every place of the diff (every frozen candidate) is in exactly one item that
\* is done, stopped, waiting or running.
NothingUnaccounted ==
    \A w \in Workers :
        LET m == mem[w]
            queued == [i \in DOMAIN m.waiting |-> m.waiting[i]] \o
                      [i \in DOMAIN m.active |-> m.active[i].item]
            items == m.done \cup m.stopped \cup ToSet(queued) IN
        pc[w] # "idle" =>
            /\ UNION items = UNION InitialWork(m.row)
            /\ \A a, b \in items : a # b => a \cap b = {}
            /\ IsInjective(queued)
            /\ ToSet(queued) \cap (m.done \cup m.stopped) = {}

\* No accepted finding is lost without trace: what any finished exploration
\* found, in whichever attempt, is frozen for verification together with every
\* prior finding, or the result discloses that candidates were dropped.
AcceptedFindingsKept ==
    progress.phase \in {"verification", "complete"} =>
        /\ Prior \subseteq progress.frozen
        /\ FoundIn(Finished(progress, "candidate")) \subseteq progress.frozen \/ progress.limited

\* A result that claims completeness, on which prior findings are declared
\* fixed, was explored everywhere and verified for every candidate, without a
\* limit in any session of any attempt.
CompleteIsTrue ==
    (progress.phase = "complete" /\ progress.result.complete) =>
        /\ UNION {c.item : c \in Finished(progress, "candidate")} = UNION ToSet(Diff)
        /\ UNION {c.item : c \in Finished(progress, "verification")} = progress.frozen
        /\ FoundIn(Finished(progress, "candidate")) \cup Prior = progress.frozen
        /\ \A c \in progress.checkpoints : c.status # "SPLIT" => ~c.limited
        /\ FoundIn(Finished(progress, "verification")) \cap Prior \subseteq progress.result.published

\* Over all attempts and workers, the stored row makes only the steps of
\* ReviewProgress: a worker that overwrites the whole row never drops what
\* another attempt saved, never reopens exploration, and never decides an item
\* twice.
Stored == INSTANCE ReviewProgress WITH progress <- progress
RowOnlyGrows == Stored!Spec

\* Cuts, second requests, refunds and tool rounds cannot keep an attempt going
\* for ever: it ends by itself.
AttemptEnds == \A w \in Workers : pc[w] # "idle" ~> pc[w] = "idle"
=============================================================================
