----------------------------- MODULE ReviewProgress -----------------------------
(***************************************************************************)
(* The durable progress row of one review input, as every attempt at the   *)
(* review may rely on it: it only grows, its candidates are frozen before  *)
(* the first verification, and its result is written once.                 *)
(*                                                                         *)
(* The engine (ReviewScheduler) overwrites the whole row at every save;    *)
(* that its saves nevertheless look like the steps below, whatever crashes *)
(* and however long a stale worker lives on, is the refinement checked     *)
(* there.  The rules are those of ReviewProgress, WorkCheckpoint and       *)
(* PostgresProgressBackend.save.                                           *)
(***************************************************************************)
EXTENDS ProgressRows

VARIABLE progress

Init == progress = NoProgress

Begin ==
    /\ progress.phase = "none"
    /\ progress' = NewProgress

\* One more work item is decided; what was decided before stays.
Decide ==
    /\ progress.phase \in {"candidate", "verification"}
    /\ \E c \in progress'.checkpoints :
        /\ c \in WorkCheckpoint
        /\ c.phase = progress.phase
        /\ \A d \in InPhase(progress, c.phase) : d.item # c.item
        /\ progress' = [progress EXCEPT !.checkpoints = @ \cup {c}]

\* Exploration ends for good.  Every prior finding is verified again, and a
\* candidate that is left out is disclosed as a limitation.
Freeze ==
    LET found == FoundIn(Finished(progress, "candidate")) IN
    /\ progress.phase = "candidate"
    /\ \E selected \in SUBSET found, covered, limited \in BOOLEAN :
        /\ selected # found => limited
        /\ progress' = [progress EXCEPT !.phase = "verification",
                            !.frozen = selected \cup Prior,
                            !.charged = Charged(progress, "candidate"),
                            !.covered = covered, !.limited = limited]

\* Only candidates that a finished verification confirmed reach the result.
Complete ==
    LET confirmed == FoundIn(Finished(progress, "verification")) IN
    /\ progress.phase = "verification"
    /\ \E valid \in SUBSET confirmed, complete \in BOOLEAN :
        \E published \in SUBSET valid :
            /\ complete => progress.covered /\ ~progress.limited
            /\ progress' = [progress EXCEPT !.phase = "complete",
                                !.result = [valid |-> valid, published |-> published,
                                            complete |-> complete]]

Next == Begin \/ Decide \/ Freeze \/ Complete

Spec == Init /\ [][Next]_progress
=============================================================================
