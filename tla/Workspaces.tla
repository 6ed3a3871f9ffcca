------------------------------- MODULE Workspaces -------------------------------
(***************************************************************************)
(* RepositoryManager: the worker's slots share one mirror of a project,    *)
(* and each review reads a git worktree made from it.  Whoever changes the *)
(* mirror holds the project's lock; reading needs no lock.  A mirror that  *)
(* git refuses to fetch into is removed and cloned again.                  *)
(*                                                                         *)
(* One worker process owns the volume (.worker.lock); it may be killed and *)
(* started again.  A git command may fail, or exceed its time and be       *)
(* killed, which leaves behind what it had written; the removal of a       *)
(* directory may fail, which leaves what had not been removed.             *)
(***************************************************************************)
EXTENDS Integers, FiniteSets

CONSTANTS
    Slots,          \* worker_concurrency
    Revisions,      \* revisions of the project under review
    None,           \* nobody holds the lock; no revision
    MaxRoots,       \* bound: worktree directories at one time
    MaxFaults,      \* bound: git commands killed after their time, removals that fail
    MaxCrashes      \* bound: faults of the worker process

ASSUME WorkspacesAssumption ==
    /\ None \notin Slots \cup Revisions
    /\ {MaxRoots, MaxFaults, MaxCrashes} \subseteq Nat

VARIABLES
    running,    \* the worker process is up and owns the volume
    mirror,     \* the bare clone below cache_root
    disk,       \* the worktree directories below work_root
    lock,       \* the slot that holds the project's lock
    slot,       \* the workspace call of each slot
    faults, crashes,
    replaced,   \* history: the slots whose mirror was removed while they used it
    orphans     \* history: directories of killed adds, and those that could not be removed

vars == <<running, mirror, disk, lock, slot, faults, crashes, replaced, orphans>>

\* absent: no such path; invalid: not a bare repository of this origin; locked:
\* a lock file or a corrupt object stops every fetch; refs: the revisions that
\* are there; worktrees: the registered worktree directories.
Mirror == [health : {"absent", "invalid", "locked", "ok"}, refs : SUBSET Revisions,
           worktrees : SUBSET (1 .. MaxRoots)]
NoMirror == [health |-> "absent", refs |-> {}, worktrees |-> {}]

\* The directory of a call is named by a fresh uuid: here a number.
Call == [pc : {"idle", "lockFetch", "check", "remove", "clone", "fetch", "verify",
               "parents", "lockAdd", "add", "use", "lockRemove", "cleanup"},
         rev : Revisions \cup {None}, root : 0 .. MaxRoots,
         rebuilt : BOOLEAN, lost : BOOLEAN]
NoCall == [pc |-> "idle", rev |-> None, root |-> 0, rebuilt |-> FALSE, lost |-> FALSE]

HoldsLock == {"check", "remove", "clone", "fetch", "verify", "add", "cleanup"}

\* From ensure_revision's return to the end of the workspace.
Relies == {"parents", "lockAdd", "add", "use"}

Init ==
    /\ running = FALSE
    /\ mirror \in {NoMirror, [NoMirror EXCEPT !.health = "ok"]}
    /\ disk = {}
    /\ lock = None
    /\ slot = [s \in Slots |-> NoCall]
    /\ faults = 0 /\ crashes = 0
    /\ replaced = {}
    /\ orphans = {}

-----------------------------------------------------------------------------
At(s, pc) == running /\ slot[s].pc = pc
Go(s, pc) == slot' = [slot EXCEPT ![s].pc = pc]
Keep == UNCHANGED lock
Release == lock' = None

\* An error leaves the call; the lock's context manager releases the lock.
Raise(s) ==
    /\ slot' = [slot EXCEPT ![s] = NoCall]
    /\ lock' = IF lock = s THEN None ELSE lock

\* PermanentError: the review fails for good.
RaiseLost(s) ==
    /\ slot' = [slot EXCEPT ![s] = [NoCall EXCEPT !.lost = TRUE]]
    /\ lock' = IF lock = s THEN None ELSE lock

Fault == faults < MaxFaults /\ faults' = faults + 1
Usable == mirror.health \in {"ok", "locked"}
Has(s) == Usable /\ slot[s].rev \in mirror.refs

\* What is left of the mirror when its removal stops half-way: git may still
\* take it for a repository.
Broken == [NoMirror EXCEPT !.health = "invalid"]
Parts ==
    IF Usable
    THEN {Broken} \cup [health : {"locked", "ok"}, refs : SUBSET mirror.refs,
                        worktrees : SUBSET mirror.worktrees]
    ELSE {mirror}

history == <<replaced, orphans>>
count == <<faults, crashes>>

\* A uuid that nobody uses, nor has left behind; the lowest, as all are alike.
Fresh(root) ==
    /\ root \notin disk \cup mirror.worktrees
    /\ \A s \in Slots : slot[s].pc # "idle" => slot[s].root # root
    /\ \A lower \in 1 .. root - 1 :
        \/ lower \in disk \cup mirror.worktrees
        \/ \E s \in Slots : slot[s].pc # "idle" /\ slot[s].root = lower

\* A review begins, with the job's revision and a directory of its own.
Begin(s) ==
    /\ running
    /\ slot[s].pc = "idle"
    /\ \E r \in Revisions, root \in 1 .. MaxRoots :
        /\ Fresh(root)
        /\ slot' = [slot EXCEPT ![s] = [NoCall EXCEPT !.pc = "lockFetch", !.rev = r,
                                                      !.root = root]]
    /\ replaced' = replaced \ {s}
    /\ UNCHANGED <<running, mirror, disk, lock, count, orphans>>

\* MUTANT: worktree add and remove do without the lock.
BugUnlocked(s) ==
    /\ running
    /\ \/ lock = None /\ slot[s].pc = "lockFetch" /\ Go(s, "check") /\ lock' = s
       \/ slot[s].pc = "lockAdd" /\ Go(s, "add") /\ UNCHANGED lock
       \/ slot[s].pc = "lockRemove" /\ Go(s, "cleanup") /\ UNCHANGED lock
    /\ UNCHANGED <<running, mirror, disk, count, history>>

\* async with self._project_lock(project)
Lock(s) ==
    /\ running
    /\ lock = None
    /\ \/ slot[s].pc = "lockFetch" /\ Go(s, "check")
       \/ slot[s].pc = "lockAdd" /\ Go(s, "add")
       \/ slot[s].pc = "lockRemove" /\ Go(s, "cleanup")
    /\ lock' = s
    /\ UNCHANGED <<running, mirror, disk, count, history>>

\* _ensure_healthy_mirror: a lock file or a corrupt object goes unnoticed here.
Check(s) ==
    /\ At(s, "check")
    /\ \/ mirror.health = "absent" /\ Go(s, "clone") /\ Keep
       \/ mirror.health = "invalid" /\ Go(s, "remove") /\ Keep
       \/ Usable /\ Go(s, "fetch") /\ Keep
       \/ mirror.health # "absent" /\ Raise(s)
    /\ UNCHANGED <<running, mirror, disk, count, history>>

\* _remove_path_if_present
Remove(s) ==
    /\ At(s, "remove")
    /\ \/ /\ mirror' = NoMirror
          /\ Go(s, "clone") /\ Keep
          /\ UNCHANGED count
       \/ /\ Fault
          /\ mirror' \in Parts
          /\ Raise(s)
          /\ UNCHANGED crashes
    /\ replaced' = replaced \cup {t \in Slots \ {s} : slot[t].pc \in Relies}
    /\ UNCHANGED <<running, disk, orphans>>

\* git clone --mirror: some of the revisions come with it.  A clone that fails
\* removes what it wrote; one that is killed does not.
Clone(s) ==
    /\ At(s, "clone")
    /\ \/ /\ \E refs \in SUBSET Revisions :
                mirror' = [health |-> "ok", refs |-> refs, worktrees |-> {}]
          /\ Go(s, "fetch") /\ Keep
          /\ UNCHANGED count
       \/ /\ Raise(s)
          /\ UNCHANGED <<mirror, count>>
       \/ /\ Fault
          /\ \E health \in {"ok", "invalid", "locked"} :
                mirror' = [NoMirror EXCEPT !.health = health]
          /\ Raise(s)
          /\ UNCHANGED crashes
    /\ UNCHANGED <<running, disk, history>>

\* MUTANT: the fetch after a rebuild may rebuild again.
BugAlwaysRebuilds(s) ==
    /\ At(s, "fetch")
    /\ \/ /\ mirror.health = "ok"
          /\ mirror' = [mirror EXCEPT !.refs = @ \cup {slot[s].rev}]
          /\ Go(s, "verify") /\ Keep
       \/ /\ slot' = [slot EXCEPT ![s].pc = "remove", ![s].rebuilt = TRUE]
          /\ UNCHANGED mirror /\ Keep
       \/ /\ Raise(s)
          /\ UNCHANGED mirror
    /\ UNCHANGED <<running, disk, count, history>>

\* git fetch; when the error looks like a broken mirror, it is rebuilt once.  An
\* error of the remote, or a full disk, may look like it, too.
Fetch(s) ==
    /\ At(s, "fetch")
    /\ \/ /\ mirror.health = "ok"
          /\ mirror' = [mirror EXCEPT !.refs = @ \cup {slot[s].rev}]
          /\ slot' = [slot EXCEPT ![s].pc = "verify", ![s].rebuilt = FALSE]
          /\ Keep
          /\ UNCHANGED count
       \/ /\ ~slot[s].rebuilt
          /\ slot' = [slot EXCEPT ![s].pc = "remove", ![s].rebuilt = TRUE]
          /\ Keep
          /\ UNCHANGED <<mirror, count>>
       \/ /\ Raise(s)
          /\ UNCHANGED <<mirror, count>>
       \/ /\ Fault
          /\ \E health \in {mirror.health, "locked"} :
                mirror' = [mirror EXCEPT !.health = health]
          /\ Raise(s)
          /\ UNCHANGED crashes
    /\ UNCHANGED <<running, disk, history>>

\* rev-parse: the ref names this revision, or the call fails.
Verify(s) ==
    /\ At(s, "verify")
    /\ \/ Go(s, "parents") /\ Release
       \/ Raise(s)
    /\ UNCHANGED <<running, mirror, disk, count, history>>

\* rev-list --parents, without the lock.
Parents(s) ==
    /\ At(s, "parents")
    /\ \/ Has(s) /\ Go(s, "lockAdd") /\ Keep
       \/ ~Has(s) /\ RaiseLost(s)
       \/ Raise(s)
    /\ UNCHANGED <<running, mirror, disk, count, history>>

\* git worktree add, outside the try: an add that fails removes what it wrote, one
\* that is killed leaves its directory.
Add(s) ==
    LET root == slot[s].root IN
    /\ At(s, "add")
    /\ \/ /\ Has(s)
          /\ disk' = disk \cup {root}
          /\ mirror' = [mirror EXCEPT !.worktrees = @ \cup {root}]
          /\ Go(s, "use") /\ Release
          /\ UNCHANGED <<count, orphans>>
       \/ /\ ~Has(s)
          /\ RaiseLost(s)
          /\ UNCHANGED <<disk, mirror, count, orphans>>
       \/ /\ Raise(s)
          /\ UNCHANGED <<disk, mirror, count, orphans>>
       \/ /\ Has(s) /\ Fault
          /\ disk' = disk \cup {root}
          /\ orphans' = orphans \cup {root}
          /\ \E worktrees \in {mirror.worktrees, mirror.worktrees \cup {root}} :
                mirror' = [mirror EXCEPT !.worktrees = worktrees]
          /\ Raise(s)
          /\ UNCHANGED crashes
    /\ UNCHANGED <<running, replaced>>

\* git finds the worktree's files and, through the mirror, its objects.
Whole(s) == slot[s].root \in disk /\ Usable /\ slot[s].root \in mirror.worktrees

\* The diffs of the workspace, the policy text: git run in the worktree fails
\* when the mirror has forgotten it.
Read(s) ==
    /\ At(s, "use")
    /\ ~Whole(s)
    /\ slot' = [slot EXCEPT ![s].pc = "lockRemove", ![s].lost = TRUE]
    /\ UNCHANGED <<running, mirror, disk, lock, count, history>>

\* The review is over, in whatever way.
Leave(s) ==
    /\ At(s, "use")
    /\ Go(s, "lockRemove")
    /\ UNCHANGED <<running, mirror, disk, lock, count, history>>

\* MUTANT: prune forgets the other worktrees, too.
BugPruned(registered, there) == {}

\* git worktree prune
Pruned(registered, there) == registered \cap there

\* _remove_worktree: the directory goes even if git does not answer; if it cannot
\* be removed, that is ignored.
Cleanup(s) ==
    LET root == slot[s].root
        there == disk \ {root} IN
    /\ At(s, "cleanup")
    /\ \/ /\ disk' = there
          /\ mirror' = [mirror EXCEPT !.worktrees = Pruned(@, there)]
          /\ UNCHANGED <<faults, orphans>>
       \/ /\ Fault
          /\ disk' = there
          /\ \E worktrees \in {mirror.worktrees, mirror.worktrees \ {root}} :
                mirror' = [mirror EXCEPT !.worktrees = worktrees]
          /\ UNCHANGED orphans
       \/ /\ Fault
          /\ root \in disk /\ disk' = disk
          /\ orphans' = orphans \cup {root}
          /\ \E gone \in {{}, {root}} :
                mirror' = [mirror EXCEPT !.worktrees = Pruned(@, disk) \ gone]
    /\ slot' = [slot EXCEPT ![s] = [NoCall EXCEPT !.lost = slot[s].lost]]
    /\ Release
    /\ UNCHANGED <<running, crashes, replaced>>

\* The process is killed with its git commands: the mirror that was being
\* written is anything in between; what an add wrote goes at the next start.
Crash ==
    /\ running
    /\ crashes < MaxCrashes
    /\ crashes' = crashes + 1
    /\ running' = FALSE
    /\ slot' = [s \in Slots |-> NoCall]
    /\ lock' = None
    /\ \/ mirror' = mirror
       \/ /\ \E s \in Slots : slot[s].pc = "remove"
          /\ mirror' \in Parts \cup {NoMirror}
       \/ /\ \E s \in Slots : slot[s].pc = "clone"
          /\ \E health \in {"invalid", "locked", "ok"} :
                mirror' = [mirror EXCEPT !.health = health]
       \/ /\ \E s \in Slots : slot[s].pc = "fetch"
          /\ mirror' = [mirror EXCEPT !.health = "locked"]
    /\ UNCHANGED <<disk, faults, replaced, orphans>>

\* MUTANT: leftovers are kept at start-up.
BugKeepsLeftovers ==
    /\ ~running
    /\ running' = TRUE
    /\ UNCHANGED <<mirror, disk, lock, slot, count, history>>

\* worker_runtime: the volume is locked, work_root cleared, the mirror pruned.
StartUp ==
    /\ ~running
    /\ running' = TRUE
    /\ disk' = {}
    /\ mirror' = IF Usable THEN [mirror EXCEPT !.worktrees = Pruned(@, {})] ELSE mirror
    /\ orphans' = {}
    /\ UNCHANGED <<lock, slot, count, replaced>>

Step(s) ==
    \/ Check(s) \/ Remove(s) \/ Clone(s) \/ Fetch(s) \/ Verify(s) \/ Parents(s)
    \/ Add(s) \/ Read(s) \/ Leave(s) \/ Cleanup(s)

Next ==
    \/ \E s \in Slots : Begin(s) \/ Lock(s) \/ Step(s)
    \/ Crash
    \/ StartUp

Spec == Init /\ [][Next]_vars

\* git commands have a time limit, reviews end; asyncio.Lock serves its waiters
\* in order; the process is started again.
FairSpec ==
    /\ Spec
    /\ WF_vars(StartUp)
    /\ \A s \in Slots : WF_vars(Step(s)) /\ SF_vars(Lock(s))

-----------------------------------------------------------------------------
(* Properties *)

TypeOK ==
    /\ running \in BOOLEAN
    /\ mirror \in Mirror
    /\ disk \subseteq 1 .. MaxRoots
    /\ lock \in Slots \cup {None}
    /\ slot \in [Slots -> Call]
    /\ \A s \in Slots : slot[s].pc \in HoldsLock => lock = s

\* manager.py:119: nothing but the removal of the mirror takes a revision or a
\* worktree away from a review that relies on it: no fetch, no worktree of
\* another slot, no clean-up and no prune.
OnlyRebuildTakesAway ==
    \A s \in Slots :
        /\ slot[s].lost => s \in replaced
        /\ slot[s].pc \in Relies /\ s \notin replaced => Has(s)
        /\ slot[s].pc = "use" /\ s \notin replaced => Whole(s)

\* manager.py:385: the worktrees on disk are those of the running reviews; of adds
\* that were killed, and of removals that failed, until the next start.
NoDirectoryLeaks ==
    running => disk \subseteq orphans \cup {slot[s].root : s \in {t \in Slots :
                                slot[t].pc \in {"use", "lockRemove", "cleanup"}}}

\* A call ends, with a worktree or an error, and gives the lock back.
EveryCallEnds == \A s \in Slots : slot[s].pc # "idle" ~> slot[s].pc = "idle"

\* manager.py:48, "creates immutable per-job worktrees": a review can read its
\* worktree until it is done with it.
WorktreeStays == \A s \in Slots : slot[s].pc = "use" => Whole(s)
=============================================================================
