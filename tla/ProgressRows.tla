------------------------------ MODULE ProgressRows ------------------------------
(***************************************************************************)
(* The values of a review's durable progress row: checkpoints of work      *)
(* items, the frozen candidates and the result (review/progress.py).       *)
(***************************************************************************)
EXTENDS Integers, FiniteSetsExt, Functions

CONSTANTS
    Lines,      \* places of the diff; a finding is named by the place it is at
    Prior       \* findings published for the previous Patch Set

ASSUME PriorAssumption == Prior \subseteq Lines

\* Usage: the charges of a checkpoint or a phase; tokens never gate anything.
Usage == [calls : Nat, tools : Nat]
NoUsage == [calls |-> 0, tools |-> 0]

\* A work item is the set of places (candidate phase) or of candidate findings
\* (verification phase) it is about; the phase and the set identify it, as the
\* digest in its key does.
WorkItems == (SUBSET Lines) \ {{}}

WorkCheckpoint ==
    [phase : {"candidate", "verification"}, item : WorkItems,
     status : {"DONE", "SPLIT", "STOPPED"}, usage : Usage,
     limited : BOOLEAN, found : SUBSET Lines]

NoResult == [valid |-> {}, published |-> {}, complete |-> FALSE]

NoProgress ==
    [phase |-> "none", checkpoints |-> {}, frozen |-> {}, charged |-> NoUsage,
     covered |-> FALSE, limited |-> FALSE, result |-> NoResult]

NewProgress == [NoProgress EXCEPT !.phase = "candidate"]

Progress ==
    [phase : {"none", "candidate", "verification", "complete"},
     checkpoints : SUBSET WorkCheckpoint, frozen : SUBSET Lines, charged : Usage,
     covered : BOOLEAN, limited : BOOLEAN,
     result : [valid : SUBSET Lines, published : SUBSET Lines, complete : BOOLEAN]]

InPhase(row, phase) == {c \in row.checkpoints : c.phase = phase}
Finished(row, phase) == {c \in InPhase(row, phase) : c.status = "DONE"}
FoundIn(checkpoints) == UNION {c.found : c \in checkpoints}

\* What finished and stopped work keeps charged; a split is not charged again.
Charged(row, phase) ==
    LET kept == {c \in InPhase(row, phase) : c.status # "SPLIT"} IN
    [calls |-> SumFunction([c \in kept |-> c.usage.calls]),
     tools |-> SumFunction([c \in kept |-> c.usage.tools])]
=============================================================================
