---------------------------- MODULE WorkspacesProofs ----------------------------
(***************************************************************************)
(* For any number of slots, revisions, crashes and faults of git: the      *)
(* project's lock excludes, nothing but the removal of the mirror takes a  *)
(* revision or a worktree away, and no directory is left behind.           *)
(***************************************************************************)
EXTENDS Workspaces, TLAPS

\* A call has a revision and a directory, and no other call has its directory.
CallsApart ==
    \A s \in Slots : slot[s].pc # "idle" =>
        /\ slot[s].rev \in Revisions /\ slot[s].root \in 1 .. MaxRoots
        /\ \A t \in Slots \ {s} : slot[t].pc # "idle" => slot[t].root # slot[s].root

\* The lock is held only by a slot that will give it back.
LockInUse == \A s \in Slots : lock = s => slot[s].pc \in HoldsLock

\* What the holder of the lock has found stays as it is.
MirrorOfHolder ==
    \A s \in Slots :
        /\ slot[s].pc = "clone" => mirror.health = "absent"
        /\ slot[s].pc = "verify" => Has(s)

Stopped == ~running => lock = None /\ \A s \in Slots : slot[s] = NoCall

Inv ==
    /\ TypeOK /\ CallsApart /\ LockInUse /\ MirrorOfHolder /\ Stopped
    /\ OnlyRebuildTakesAway /\ NoDirectoryLeaks

\* Nothing runs at first.
LEMMA InvInit == Init => Inv
<1> SUFFICES ASSUME Init PROVE Inv
  OBVIOUS
<1>1. /\ running = FALSE /\ mirror \in {NoMirror, [NoMirror EXCEPT !.health = "ok"]}
      /\ disk = {} /\ lock = None /\ slot = [s \in Slots |-> NoCall]
  BY DEF Init
<1>2. NoCall \in Call /\ NoCall.pc = "idle" /\ NoCall.lost = FALSE
  BY WorkspacesAssumption DEF NoCall, Call
<1>3. TypeOK
  <2>1. mirror \in Mirror
    BY <1>1 DEF Mirror, NoMirror
  <2>2. slot \in [Slots -> Call] /\ \A s \in Slots : slot[s].pc \notin HoldsLock
    BY <1>1, <1>2 DEF HoldsLock
  <2> QED
    BY <1>1, <2>1, <2>2 DEF TypeOK
<1>4. CallsApart /\ LockInUse /\ MirrorOfHolder /\ Stopped
  BY <1>1, <1>2, WorkspacesAssumption DEF CallsApart, LockInUse, MirrorOfHolder, Stopped
<1>5. OnlyRebuildTakesAway /\ NoDirectoryLeaks
  BY <1>1, <1>2 DEF OnlyRebuildTakesAway, NoDirectoryLeaks, Relies
<1> QED
  BY <1>3, <1>4, <1>5 DEF Inv

\* The pcs of a call, by what they rely on.
LEMMA Pcs ==
    /\ "idle" \notin HoldsLock \cup Relies
    /\ HoldsLock \cap Relies = {"add"}
BY DEF HoldsLock, Relies

\* A review begins with a directory of its own.
LEMMA InvBegin == ASSUME Inv, NEW s \in Slots, Begin(s) PROVE Inv'
<1> USE DEF Inv, count
<1>1. PICK r \in Revisions, root \in 1 .. MaxRoots :
        /\ Fresh(root)
        /\ slot' = [slot EXCEPT ![s] = [NoCall EXCEPT !.pc = "lockFetch", !.rev = r,
                                                      !.root = root]]
  BY DEF Begin
<1>2. /\ running /\ slot[s].pc = "idle" /\ replaced' = replaced \ {s}
      /\ UNCHANGED <<running, mirror, disk, lock, orphans>>
  BY DEF Begin
<1>3. /\ slot \in [Slots -> Call]
      /\ \A t \in Slots \ {s} : slot'[t] = slot[t]
      /\ slot'[s] = [pc |-> "lockFetch", rev |-> r, root |-> root, rebuilt |-> FALSE,
                     lost |-> FALSE]
  BY <1>1 DEF TypeOK, NoCall
<1>4. slot' \in [Slots -> Call]
  <2>1. slot'[s] \in Call
    BY <1>3 DEF Call
  <2> QED
    BY <1>1, <1>3, <2>1
<1>5. TypeOK'
  BY <1>2, <1>3, <1>4 DEF TypeOK, HoldsLock
<1>6. CallsApart'
  BY <1>1, <1>2, <1>3 DEF CallsApart, Fresh
<1>7. LockInUse' /\ MirrorOfHolder' /\ Stopped'
  BY <1>2, <1>3, Pcs DEF LockInUse, MirrorOfHolder, Stopped, Has, Usable
<1>8. OnlyRebuildTakesAway'
  BY <1>2, <1>3 DEF OnlyRebuildTakesAway, Has, Usable, Whole, Relies
<1>9. NoDirectoryLeaks'
  BY <1>2, <1>3 DEF NoDirectoryLeaks
<1> QED
  BY <1>5, <1>6, <1>7, <1>8, <1>9

Holding == {"use", "lockRemove", "cleanup"}

\* The step of one slot to the call c preserves the invariant if it keeps the
\* call's revision and directory, takes the lock over or gives it back, and
\* changes the mirror only under the lock, without loss for the others.
LEMMA InvStep ==
    ASSUME Inv, running, running' = running,
           NEW s \in Slots, NEW c \in Call, slot' = [slot EXCEPT ![s] = c],
           mirror' \in Mirror, disk' \subseteq 1 .. MaxRoots,
           slot[s].pc # "idle",
           c.pc # "idle" => c.rev = slot[s].rev /\ c.root = slot[s].root,
           lock' \in Slots \cup {None},
           c.pc \in HoldsLock <=> lock' = s,
           \A t \in Slots \ {s} : lock' = t <=> lock = t,
           mirror' = mirror \/ lock = s,
           c.pc = "clone" => mirror'.health = "absent",
           c.pc = "verify" => Has(s)',
           c.lost => s \in replaced',
           c.pc \in Relies /\ s \notin replaced' => Has(s)',
           c.pc = "use" /\ s \notin replaced' => Whole(s)',
           replaced \subseteq replaced',
           \A t \in Slots \ {s} : slot[t].pc \in Relies /\ t \notin replaced' =>
                Has(t)' /\ (slot[t].pc = "use" => Whole(t)'),
           \A d \in disk' : \/ d \in orphans'
                            \/ c.pc \in Holding /\ d = c.root
                            \/ d \in disk /\ (slot[s].pc \in Holding => d # slot[s].root),
           orphans \subseteq orphans'
    PROVE  Inv'
<1> USE DEF Inv
<1>1. /\ slot \in [Slots -> Call] /\ slot' \in [Slots -> Call]
      /\ slot'[s] = c
      /\ \A t \in Slots \ {s} : slot'[t] = slot[t]
  BY DEF TypeOK
<1>2. TypeOK'
  <2>1. \A t \in Slots : slot'[t].pc \in HoldsLock => lock' = t
    BY <1>1 DEF TypeOK
  <2> QED
    BY <1>1, <2>1 DEF TypeOK
<1>3. CallsApart'
  <2> SUFFICES ASSUME NEW t \in Slots, slot'[t].pc # "idle"
               PROVE  /\ slot'[t].rev \in Revisions /\ slot'[t].root \in 1 .. MaxRoots
                      /\ \A u \in Slots \ {t} :
                            slot'[u].pc # "idle" => slot'[u].root # slot'[t].root
    BY DEF CallsApart
  <2>1. slot[t].pc # "idle" /\ slot'[t].rev = slot[t].rev /\ slot'[t].root = slot[t].root
    BY <1>1
  <2>2. ASSUME NEW u \in Slots \ {t}, slot'[u].pc # "idle"
        PROVE  slot[u].pc # "idle" /\ slot'[u].root = slot[u].root
    BY <1>1, <2>2
  <2> QED
    BY <2>1, <2>2 DEF CallsApart
<1>4. LockInUse'
  BY <1>1 DEF LockInUse
<1>5. MirrorOfHolder'
  <2> SUFFICES ASSUME NEW t \in Slots \ {s}
               PROVE  /\ slot'[t].pc = "clone" => mirror'.health = "absent"
                      /\ slot'[t].pc = "verify" => Has(t)'
    BY <1>1 DEF MirrorOfHolder
  <2>1. CASE mirror' = mirror
    BY <1>1, <2>1 DEF MirrorOfHolder, Has, Usable
  <2>2. CASE lock = s
    BY <1>1, <2>2 DEF TypeOK, HoldsLock
  <2> QED
    BY <2>1, <2>2
<1>6. Stopped'
  BY DEF Stopped
<1>7. OnlyRebuildTakesAway'
  <2> SUFFICES ASSUME NEW t \in Slots \ {s}
               PROVE  /\ slot'[t].lost => t \in replaced'
                      /\ slot'[t].pc \in Relies /\ t \notin replaced' => Has(t)'
                      /\ slot'[t].pc = "use" /\ t \notin replaced' => Whole(t)'
    BY <1>1 DEF OnlyRebuildTakesAway
  <2>1. slot[t].lost => t \in replaced
    BY DEF OnlyRebuildTakesAway
  <2> QED
    BY <1>1, <2>1 DEF Relies
<1>8. NoDirectoryLeaks'
  <2> SUFFICES ASSUME NEW d \in disk', d \notin orphans'
               PROVE  \E t \in Slots : slot'[t].pc \in Holding /\ slot'[t].root = d
    BY DEF NoDirectoryLeaks, Holding
  <2>1. CASE c.pc \in Holding /\ d = c.root
    BY <1>1, <2>1
  <2>2. CASE d \in disk /\ (slot[s].pc \in Holding => d # slot[s].root)
    <3>1. PICK t \in Slots : slot[t].pc \in Holding /\ slot[t].root = d
      BY <2>2 DEF NoDirectoryLeaks, Holding
    <3> QED
      BY <1>1, <2>2, <3>1
  <2> QED
    BY <2>1, <2>2
<1> QED
  BY <1>2, <1>3, <1>4, <1>5, <1>6, <1>7, <1>8

\* The others rely on a mirror that stays usable and keeps its revisions, and on
\* their own worktrees.
LEMMA OthersRely ==
    ASSUME Inv, NEW s \in Slots, NEW c \in Call, slot' = [slot EXCEPT ![s] = c],
           replaced \subseteq replaced',
           Usable => Usable', mirror.refs \subseteq mirror'.refs,
           \A t \in Slots \ {s} :
                slot[t].pc = "use" /\ slot[t].root \in disk \cap mirror.worktrees
                    => slot[t].root \in disk' \cap mirror'.worktrees
    PROVE  \A t \in Slots \ {s} : slot[t].pc \in Relies /\ t \notin replaced' =>
                Has(t)' /\ (slot[t].pc = "use" => Whole(t)')
<1> USE DEF Inv
<1> SUFFICES ASSUME NEW t \in Slots \ {s}, slot[t].pc \in Relies, t \notin replaced'
             PROVE  Has(t)' /\ (slot[t].pc = "use" => Whole(t)')
  OBVIOUS
<1>1. slot'[t] = slot[t]
  BY DEF TypeOK
<1>2. Has(t) /\ (slot[t].pc = "use" => Whole(t))
  BY DEF OnlyRebuildTakesAway
<1> QED
  BY <1>1, <1>2 DEF Has, Whole

\* Raise and RaiseLost end the call: all that is left of it is whether a review
\* was lost.
LEMMA InvRaise ==
    ASSUME Inv, running, running' = running, NEW s \in Slots,
           slot[s].pc \notin Holding \cup {"idle"},
           NEW c \in Call, c.pc = "idle", c.lost => s \in replaced,
           slot' = [slot EXCEPT ![s] = c],
           lock' = IF lock = s THEN None ELSE lock,
           mirror' \in Mirror, mirror' = mirror \/ lock = s,
           Usable => Usable', mirror.refs \subseteq mirror'.refs,
           mirror.worktrees \subseteq mirror'.worktrees,
           disk \subseteq disk', disk' \subseteq 1 .. MaxRoots,
           disk' \subseteq disk \cup orphans', orphans \subseteq orphans',
           replaced' = replaced
    PROVE  Inv'
<1> USE DEF Inv
<1>2. /\ lock' \in Slots \cup {None}
      /\ c.pc \in HoldsLock <=> lock' = s
      /\ \A t \in Slots \ {s} : lock' = t <=> lock = t
  BY WorkspacesAssumption DEF TypeOK, HoldsLock
<1>3. \A t \in Slots \ {s} : slot[t].pc \in Relies /\ t \notin replaced' =>
            Has(t)' /\ (slot[t].pc = "use" => Whole(t)')
  BY OthersRely
<1>4. \A d \in disk' : d \in orphans' \/ (d \in disk /\ slot[s].pc \notin Holding)
  OBVIOUS
<1> QED
  BY <1>2, <1>3, <1>4, Pcs, InvStep

PCs == {"idle", "lockFetch", "check", "remove", "clone", "fetch", "verify",
        "parents", "lockAdd", "add", "use", "lockRemove", "cleanup"}

\* A step within a call changes its place and nothing else, or one of the marks.
LEMMA Moved ==
    ASSUME TypeOK, NEW s \in Slots, NEW pc \in PCs
    PROVE  \E c \in Call :
             /\ c.pc = pc /\ c.rev = slot[s].rev /\ c.root = slot[s].root
             /\ c.lost = slot[s].lost
             /\ Go(s, pc) => slot' = [slot EXCEPT ![s] = c]
<1> DEFINE c == [slot[s] EXCEPT !.pc = pc]
<1>1. slot \in [Slots -> Call]
  BY DEF TypeOK
<1>2. c \in Call
  BY <1>1 DEF Call, PCs
<1>3. c.pc = pc /\ c.rev = slot[s].rev /\ c.root = slot[s].root /\ c.lost = slot[s].lost
  BY <1>1 DEF Call
<1>4. Go(s, pc) => slot' = [slot EXCEPT ![s] = c]
  BY <1>1 DEF Go
<1> QED
  BY <1>2, <1>3, <1>4

\* The call that turns to a rebuild of the mirror ...
LEMMA MovedRebuilt ==
    ASSUME TypeOK, NEW s \in Slots
    PROVE  \E c \in Call :
             /\ c.pc = "remove" /\ c.rev = slot[s].rev /\ c.root = slot[s].root
             /\ c.lost = slot[s].lost
             /\ [slot EXCEPT ![s].pc = "remove", ![s].rebuilt = TRUE] = [slot EXCEPT ![s] = c]
<1> DEFINE c == [slot[s] EXCEPT !.pc = "remove", !.rebuilt = TRUE]
<1>1. slot \in [Slots -> Call]
  BY DEF TypeOK
<1>2. c \in Call
  BY <1>1 DEF Call
<1>3. /\ c.pc = "remove" /\ c.rev = slot[s].rev /\ c.root = slot[s].root
      /\ c.lost = slot[s].lost
  BY <1>1 DEF Call
<1>4. [slot EXCEPT ![s].pc = "remove", ![s].rebuilt = TRUE] = [slot EXCEPT ![s] = c]
  BY <1>1
<1> QED
  BY <1>2, <1>3, <1>4

\* ... the one whose fetch has succeeded ...
LEMMA MovedFetched ==
    ASSUME TypeOK, NEW s \in Slots
    PROVE  \E c \in Call :
             /\ c.pc = "verify" /\ c.rev = slot[s].rev /\ c.root = slot[s].root
             /\ c.lost = slot[s].lost
             /\ [slot EXCEPT ![s].pc = "verify", ![s].rebuilt = FALSE] = [slot EXCEPT ![s] = c]
<1> DEFINE c == [slot[s] EXCEPT !.pc = "verify", !.rebuilt = FALSE]
<1>1. slot \in [Slots -> Call]
  BY DEF TypeOK
<1>2. c \in Call
  BY <1>1 DEF Call
<1>3. /\ c.pc = "verify" /\ c.rev = slot[s].rev /\ c.root = slot[s].root
      /\ c.lost = slot[s].lost
  BY <1>1 DEF Call
<1>4. [slot EXCEPT ![s].pc = "verify", ![s].rebuilt = FALSE] = [slot EXCEPT ![s] = c]
  BY <1>1
<1> QED
  BY <1>2, <1>3, <1>4

\* ... and the one that failed because its revision or worktree is gone.
LEMMA MovedLost ==
    ASSUME TypeOK, NEW s \in Slots
    PROVE  \E c \in Call :
             /\ c.pc = "lockRemove" /\ c.rev = slot[s].rev /\ c.root = slot[s].root
             /\ [slot EXCEPT ![s].pc = "lockRemove", ![s].lost = TRUE] = [slot EXCEPT ![s] = c]
<1> DEFINE c == [slot[s] EXCEPT !.pc = "lockRemove", !.lost = TRUE]
<1>1. slot \in [Slots -> Call]
  BY DEF TypeOK
<1>2. c \in Call
  BY <1>1 DEF Call
<1>3. c.pc = "lockRemove" /\ c.rev = slot[s].rev /\ c.root = slot[s].root
  BY <1>1 DEF Call
<1>4. [slot EXCEPT ![s].pc = "lockRemove", ![s].lost = TRUE] = [slot EXCEPT ![s] = c]
  BY <1>1
<1> QED
  BY <1>2, <1>3, <1>4

\* The end of a call, with or without a lost review.
LEMMA Ended ==
    ASSUME NEW lost \in BOOLEAN
    PROVE  /\ [NoCall EXCEPT !.lost = lost] \in Call
           /\ [NoCall EXCEPT !.lost = lost].pc = "idle"
           /\ [NoCall EXCEPT !.lost = lost].lost = lost
<1>1. 0 \in 0 .. MaxRoots
  BY WorkspacesAssumption
<1> QED
  BY <1>1 DEF NoCall, Call

\* The slot without a call.
LEMMA NoCallEnded == NoCall \in Call /\ NoCall.pc = "idle" /\ NoCall.lost = FALSE
<1>1. 0 \in 0 .. MaxRoots
  BY WorkspacesAssumption
<1> QED
  BY <1>1 DEF NoCall, Call

\* A step that leaves the mirror and the disk alone.
LEMMA InvMove ==
    ASSUME Inv, running, UNCHANGED <<running, mirror, disk, replaced, orphans>>,
           NEW s \in Slots, NEW c \in Call, slot' = [slot EXCEPT ![s] = c],
           slot[s].pc # "idle", c.pc \notin {"idle", "use"},
           c.rev = slot[s].rev, c.root = slot[s].root,
           c.pc \in HoldsLock <=> lock' = s,
           lock' = lock \/ (lock = None /\ lock' = s) \/ (lock = s /\ lock' = None),
           c.pc = "clone" => mirror.health = "absent",
           c.pc = "verify" => Has(s),
           c.lost => s \in replaced,
           c.pc \in Relies /\ s \notin replaced => Has(s),
           slot[s].pc \in Holding => c.pc \in Holding
    PROVE  Inv'
<1> USE DEF Inv
<1>1. /\ lock' \in Slots \cup {None}
      /\ \A t \in Slots \ {s} : lock' = t <=> lock = t
  BY WorkspacesAssumption DEF TypeOK
<1>2. \A t \in Slots \ {s} : slot[t].pc \in Relies /\ t \notin replaced' =>
            Has(t)' /\ (slot[t].pc = "use" => Whole(t)')
  BY OthersRely DEF Usable
<1>3. Has(s) => Has(s)'
  BY DEF Has, Usable, TypeOK
<1>4. \A d \in disk' : \/ d \in orphans'
                       \/ c.pc \in Holding /\ d = c.root
                       \/ d \in disk /\ (slot[s].pc \in Holding => d # slot[s].root)
  OBVIOUS
<1>5. mirror' \in Mirror /\ disk' \subseteq 1 .. MaxRoots
  BY DEF TypeOK
<1> QED
  BY <1>1, <1>2, <1>3, <1>4, <1>5, InvStep

\* async with self._project_lock(project)
LEMMA InvLock == ASSUME Inv, NEW s \in Slots, Lock(s) PROVE Inv'
<1> USE DEF Inv, Lock, count, history
<1>1. PICK pc \in {"check", "add", "cleanup"} :
        /\ Go(s, pc)
        /\ <<slot[s].pc, pc>> \in {<<"lockFetch", "check">>, <<"lockAdd", "add">>,
                                   <<"lockRemove", "cleanup">>}
  OBVIOUS
<1>2. PICK c \in Call : /\ c.pc = pc /\ c.rev = slot[s].rev /\ c.root = slot[s].root
                        /\ c.lost = slot[s].lost /\ slot' = [slot EXCEPT ![s] = c]
  BY <1>1, Moved DEF PCs
<1>3. c.lost => s \in replaced
  BY <1>2 DEF OnlyRebuildTakesAway
<1>4. c.pc \in Relies /\ s \notin replaced => Has(s)
  BY <1>1, <1>2 DEF OnlyRebuildTakesAway, Relies
<1> QED
  BY <1>1, <1>2, <1>3, <1>4, InvMove DEF HoldsLock, Relies, Holding

\* A step that raises and leaves the mirror and the disk alone.
LEMMA InvOnlyRaise ==
    ASSUME Inv, NEW s \in Slots, running, slot[s].pc \notin Holding \cup {"idle"},
           UNCHANGED <<running, mirror, disk, replaced, orphans>>,
           Raise(s) \/ (RaiseLost(s) /\ s \in replaced)
    PROVE  Inv'
<1> USE DEF Inv
<1>1. PICK c \in Call : /\ c.pc = "idle" /\ (c.lost => s \in replaced)
                        /\ slot' = [slot EXCEPT ![s] = c]
  BY NoCallEnded, Ended DEF Raise, RaiseLost
<1>2. /\ lock' = IF lock = s THEN None ELSE lock
      /\ mirror' \in Mirror /\ (Usable => Usable') /\ disk' \subseteq 1 .. MaxRoots
  BY DEF Raise, RaiseLost, TypeOK, Usable
<1> QED
  BY <1>1, <1>2, InvRaise

\* _ensure_healthy_mirror
LEMMA InvCheck == ASSUME Inv, NEW s \in Slots, Check(s) PROVE Inv'
<1> USE DEF Inv, At, count, history
<1>1. /\ running /\ slot[s].pc = "check" /\ lock = s
      /\ UNCHANGED <<running, mirror, disk, replaced, orphans>>
  BY DEF Check, TypeOK, HoldsLock
<1>2. ASSUME NEW pc \in {"clone", "remove", "fetch"}, Go(s, pc), Keep,
             pc = "clone" => mirror.health = "absent"
      PROVE  Inv'
  <2>1. PICK c \in Call : /\ c.pc = pc /\ c.rev = slot[s].rev /\ c.root = slot[s].root
                          /\ c.lost = slot[s].lost /\ slot' = [slot EXCEPT ![s] = c]
    BY <1>2, Moved DEF PCs
  <2>2. c.lost => s \in replaced
    BY <2>1 DEF OnlyRebuildTakesAway
  <2>3. lock' = s
    BY <1>1, <1>2 DEF Keep
  <2> QED
    BY <1>1, <1>2, <2>1, <2>2, <2>3, InvMove DEF HoldsLock, Relies, Holding
<1>3. CASE Raise(s)
  BY <1>1, <1>3, InvOnlyRaise DEF Holding
<1> QED
  BY <1>2, <1>3 DEF Check

\* A removal leaves a mirror, or what was one.
LEMMA PartsAreMirrors == ASSUME TypeOK PROVE Parts \cup {NoMirror} \subseteq Mirror
<1>1. Broken \in Mirror /\ NoMirror \in Mirror
  BY DEF Mirror, NoMirror, Broken
<1>2. [health : {"locked", "ok"}, refs : SUBSET mirror.refs,
       worktrees : SUBSET mirror.worktrees] \subseteq Mirror
  BY DEF TypeOK, Mirror
<1> QED
  BY <1>1, <1>2 DEF Parts, TypeOK

\* The removal, complete or not, marks everybody who still uses the mirror.
LEMMA InvRemove == ASSUME Inv, NEW s \in Slots, Remove(s) PROVE Inv'
<1> USE DEF Inv, At
<1>1. /\ running /\ running' = running /\ slot[s].pc = "remove" /\ lock = s
      /\ replaced' = replaced \cup {t \in Slots \ {s} : slot[t].pc \in Relies}
      /\ disk' = disk /\ orphans' = orphans /\ disk' \subseteq 1 .. MaxRoots
  BY DEF Remove, TypeOK, HoldsLock
<1>2. PICK c \in Call :
        /\ slot' = [slot EXCEPT ![s] = c]
        /\ \/ /\ c.pc = "clone" /\ c.rev = slot[s].rev /\ c.root = slot[s].root
              /\ c.lost = slot[s].lost /\ lock' = s /\ mirror' = NoMirror
           \/ c.pc = "idle" /\ ~c.lost /\ lock' = None /\ mirror' \in Parts
  <2>1. CASE mirror' = NoMirror /\ Go(s, "clone") /\ Keep
    BY <1>1, <2>1, Moved DEF PCs, Keep
  <2>2. CASE mirror' \in Parts /\ Raise(s)
    BY <1>1, <2>2, NoCallEnded DEF Raise
  <2> QED
    BY <2>1, <2>2 DEF Remove
<1>3. mirror' \in Mirror /\ (c.pc = "clone" => mirror'.health = "absent")
  BY <1>2, PartsAreMirrors DEF NoMirror
<1>4. c.lost => s \in replaced'
  BY <1>1, <1>2 DEF OnlyRebuildTakesAway
<1>5. \A t \in Slots \ {s} : slot[t].pc \in Relies => t \in replaced'
  BY <1>1
<1>6. /\ c.pc \in HoldsLock <=> lock' = s
      /\ \A t \in Slots \ {s} : lock' = t <=> lock = t
      /\ lock' \in Slots \cup {None}
      /\ c.pc \notin Relies \cup {"verify"}
  BY <1>1, <1>2, WorkspacesAssumption DEF HoldsLock, Relies
<1>7. c.pc # "idle" => c.rev = slot[s].rev /\ c.root = slot[s].root
  BY <1>2
<1>8. \A d \in disk' : d \in disk /\ (slot[s].pc \in Holding => d # slot[s].root)
  BY <1>1 DEF Holding
<1>9. c.pc # "use"
  BY <1>2
<1> QED
  BY <1>1, <1>2, <1>3, <1>4, <1>5, <1>6, <1>7, <1>8, <1>9, InvStep

\* git clone --mirror: nobody relies on a mirror that is absent.
LEMMA InvClone == ASSUME Inv, NEW s \in Slots, Clone(s) PROVE Inv'
<1> USE DEF Inv, At, history
<1>1. /\ running /\ slot[s].pc = "clone" /\ lock = s /\ mirror.health = "absent"
      /\ UNCHANGED <<running, disk, replaced, orphans>>
  BY DEF Clone, TypeOK, HoldsLock, MirrorOfHolder
<1>2. ~Usable /\ \A t \in Slots : slot[t].pc \in Relies => t \in replaced
  BY <1>1 DEF OnlyRebuildTakesAway, Has, Usable
<1>3. disk' \subseteq 1 .. MaxRoots
  BY <1>1 DEF TypeOK
<1>4. CASE /\ \E refs \in SUBSET Revisions :
                mirror' = [health |-> "ok", refs |-> refs, worktrees |-> {}]
           /\ Go(s, "fetch") /\ Keep
  <2>1. PICK c \in Call : /\ c.pc = "fetch" /\ c.rev = slot[s].rev /\ c.root = slot[s].root
                          /\ c.lost = slot[s].lost /\ slot' = [slot EXCEPT ![s] = c]
    BY <1>4, Moved DEF PCs
  <2>2. c.lost => s \in replaced
    BY <2>1 DEF OnlyRebuildTakesAway
  <2>3. mirror' \in Mirror
    BY <1>4 DEF Mirror
  <2>4. /\ lock' = s /\ lock' \in Slots \cup {None}
        /\ c.pc \in HoldsLock <=> lock' = s
    BY <1>1, <1>4, <2>1 DEF Keep, HoldsLock
  <2> QED
    BY <1>1, <1>2, <1>3, <2>1, <2>2, <2>3, <2>4, InvStep DEF Relies, Holding
<1>5. CASE Raise(s) /\ (mirror' = mirror \/ \E health \in {"ok", "invalid", "locked"} :
                                mirror' = [NoMirror EXCEPT !.health = health])
  <2>1. mirror' \in Mirror
    BY <1>5 DEF Mirror, NoMirror, TypeOK
  <2>2. slot' = [slot EXCEPT ![s] = NoCall] /\ lock' = None
    BY <1>1, <1>5 DEF Raise
  <2> QED
    BY <1>1, <1>2, <1>3, <2>1, <2>2, NoCallEnded, InvStep, WorkspacesAssumption
    DEF HoldsLock, Relies, Holding
<1>6. \/ /\ \E refs \in SUBSET Revisions :
                mirror' = [health |-> "ok", refs |-> refs, worktrees |-> {}]
         /\ Go(s, "fetch") /\ Keep
      \/ Raise(s) /\ (mirror' = mirror \/ \E health \in {"ok", "invalid", "locked"} :
                                mirror' = [NoMirror EXCEPT !.health = health])
  BY DEF Clone
<1> QED
  BY <1>4, <1>5, <1>6

\* git fetch, whose time limit may leave a lock behind, and the only rebuild.
LEMMA InvFetch == ASSUME Inv, NEW s \in Slots, Fetch(s) PROVE Inv'
<1> USE DEF Inv, At, history
<1>1. /\ running /\ slot[s].pc = "fetch" /\ lock = s
      /\ UNCHANGED <<running, disk, replaced, orphans>>
      /\ disk' \subseteq 1 .. MaxRoots
      /\ slot[s].rev \in Revisions
  BY DEF Fetch, TypeOK, HoldsLock, CallsApart
<1>2. slot[s].lost => s \in replaced
  BY DEF OnlyRebuildTakesAway
<1>3. CASE /\ mirror.health = "ok"
           /\ mirror' = [mirror EXCEPT !.refs = @ \cup {slot[s].rev}]
           /\ slot' = [slot EXCEPT ![s].pc = "verify", ![s].rebuilt = FALSE]
           /\ Keep
  <2>1. PICK c \in Call : /\ c.pc = "verify" /\ c.rev = slot[s].rev /\ c.root = slot[s].root
                          /\ c.lost = slot[s].lost /\ slot' = [slot EXCEPT ![s] = c]
    BY <1>3, MovedFetched
  <2>2. /\ mirror' \in Mirror /\ mirror'.health = "ok"
        /\ mirror'.refs = mirror.refs \cup {c.rev} /\ mirror'.worktrees = mirror.worktrees
    BY <1>1, <1>3, <2>1 DEF Mirror, TypeOK
  <2>3. Usable' /\ Has(s)'
    BY <2>1, <2>2 DEF Has, Usable, TypeOK
  <2>4. /\ lock' = s /\ lock' \in Slots \cup {None}
        /\ c.pc \in HoldsLock <=> lock' = s
    BY <1>1, <1>3, <2>1 DEF Keep, HoldsLock
  <2>5. \A t \in Slots \ {s} : slot[t].pc \in Relies /\ t \notin replaced' =>
              Has(t)' /\ (slot[t].pc = "use" => Whole(t)')
    BY <1>1, <2>1, <2>2, <2>3, OthersRely
  <2> QED
    BY <1>1, <1>2, <2>1, <2>2, <2>3, <2>4, <2>5, InvStep DEF Relies, Holding
<1>4. CASE /\ slot' = [slot EXCEPT ![s].pc = "remove", ![s].rebuilt = TRUE]
           /\ Keep
           /\ UNCHANGED mirror
  <2>1. PICK c \in Call : /\ c.pc = "remove" /\ c.rev = slot[s].rev /\ c.root = slot[s].root
                          /\ c.lost = slot[s].lost /\ slot' = [slot EXCEPT ![s] = c]
    BY <1>4, MovedRebuilt
  <2>2. lock' = s
    BY <1>1, <1>4 DEF Keep
  <2> QED
    BY <1>1, <1>2, <1>4, <2>1, <2>2, InvMove DEF HoldsLock, Relies, Holding
<1>5. CASE Raise(s) /\ (mirror' = mirror \/ \E health \in {mirror.health, "locked"} :
                                mirror' = [mirror EXCEPT !.health = health])
  <2>1. /\ mirror' \in Mirror
        /\ mirror'.health \in {mirror.health, "locked"}
        /\ mirror'.refs = mirror.refs /\ mirror'.worktrees = mirror.worktrees
    BY <1>5 DEF Mirror, TypeOK
  <2>2. Usable => Usable'
    BY <2>1 DEF Usable
  <2> QED
    BY <1>1, <1>5, <2>1, <2>2, NoCallEnded, InvRaise DEF Raise, Holding
<1>6. \/ /\ mirror.health = "ok"
         /\ mirror' = [mirror EXCEPT !.refs = @ \cup {slot[s].rev}]
         /\ slot' = [slot EXCEPT ![s].pc = "verify", ![s].rebuilt = FALSE]
         /\ Keep
      \/ /\ slot' = [slot EXCEPT ![s].pc = "remove", ![s].rebuilt = TRUE]
         /\ Keep
         /\ UNCHANGED mirror
      \/ Raise(s) /\ (mirror' = mirror \/ \E health \in {mirror.health, "locked"} :
                                mirror' = [mirror EXCEPT !.health = health])
  BY DEF Fetch
<1> QED
  BY <1>3, <1>4, <1>5, <1>6

\* rev-parse
LEMMA InvVerify == ASSUME Inv, NEW s \in Slots, Verify(s) PROVE Inv'
<1> USE DEF Inv, At, count, history
<1>1. /\ running /\ slot[s].pc = "verify" /\ lock = s /\ Has(s)
      /\ UNCHANGED <<running, mirror, disk, replaced, orphans>>
  BY DEF Verify, TypeOK, HoldsLock, MirrorOfHolder
<1>2. CASE Go(s, "parents") /\ Release
  <2>1. PICK c \in Call : /\ c.pc = "parents" /\ c.rev = slot[s].rev /\ c.root = slot[s].root
                          /\ c.lost = slot[s].lost /\ slot' = [slot EXCEPT ![s] = c]
    BY <1>2, Moved DEF PCs
  <2>2. c.lost => s \in replaced
    BY <2>1 DEF OnlyRebuildTakesAway
  <2>3. lock' = None /\ lock' # s
    BY <1>2, WorkspacesAssumption DEF Release
  <2> QED
    BY <1>1, <2>1, <2>2, <2>3, InvMove DEF HoldsLock, Relies, Holding
<1>3. CASE Raise(s)
  BY <1>1, <1>3, InvOnlyRaise DEF Holding
<1> QED
  BY <1>2, <1>3 DEF Verify

\* rev-list, without the lock: only a review whose mirror was removed is lost.
LEMMA InvParents == ASSUME Inv, NEW s \in Slots, Parents(s) PROVE Inv'
<1> USE DEF Inv, At, count, history
<1>1. /\ running /\ slot[s].pc = "parents" /\ lock # s
      /\ UNCHANGED <<running, mirror, disk, replaced, orphans>>
      /\ s \notin replaced => Has(s)
  BY DEF Parents, LockInUse, HoldsLock, OnlyRebuildTakesAway, Relies
<1>2. CASE Has(s) /\ Go(s, "lockAdd") /\ Keep
  <2>1. PICK c \in Call : /\ c.pc = "lockAdd" /\ c.rev = slot[s].rev /\ c.root = slot[s].root
                          /\ c.lost = slot[s].lost /\ slot' = [slot EXCEPT ![s] = c]
    BY <1>2, Moved DEF PCs
  <2>2. c.lost => s \in replaced
    BY <2>1 DEF OnlyRebuildTakesAway
  <2>3. lock' = lock
    BY <1>2 DEF Keep
  <2> QED
    BY <1>1, <2>1, <2>2, <2>3, InvMove DEF HoldsLock, Relies, Holding
<1>3. CASE Raise(s) \/ (~Has(s) /\ RaiseLost(s))
  BY <1>1, <1>3, InvOnlyRaise DEF Holding
<1> QED
  BY <1>2, <1>3 DEF Parents

\* git worktree add, under the lock: a directory of the call's own.
LEMMA InvAdd == ASSUME Inv, NEW s \in Slots, Add(s) PROVE Inv'
<1> USE DEF Inv, At
<1> DEFINE root == slot[s].root
<1>1. /\ running /\ running' = running /\ slot[s].pc = "add" /\ lock = s
      /\ replaced' = replaced /\ root \in 1 .. MaxRoots
      /\ s \notin replaced => Has(s)
  BY DEF Add, TypeOK, HoldsLock, CallsApart, OnlyRebuildTakesAway, Relies
<1>2. CASE /\ Has(s)
           /\ disk' = disk \cup {root}
           /\ mirror' = [mirror EXCEPT !.worktrees = @ \cup {root}]
           /\ Go(s, "use") /\ Release
           /\ orphans' = orphans
  <2>1. PICK c \in Call : /\ c.pc = "use" /\ c.rev = slot[s].rev /\ c.root = root
                          /\ c.lost = slot[s].lost /\ slot' = [slot EXCEPT ![s] = c]
    BY <1>2, Moved DEF PCs
  <2>2. /\ mirror' \in Mirror /\ mirror'.health = mirror.health
        /\ mirror'.refs = mirror.refs /\ mirror'.worktrees = mirror.worktrees \cup {root}
    BY <1>1, <1>2 DEF Mirror, TypeOK
  <2>3. slot'[s] = c
    BY <2>1 DEF TypeOK
  <2>4. Has(s)' /\ Whole(s)' /\ (Usable => Usable')
    BY <1>2, <2>1, <2>2, <2>3 DEF Has, Whole, Usable
  <2>5. c.lost => s \in replaced'
    BY <1>1, <2>1 DEF OnlyRebuildTakesAway
  <2>6. /\ lock' = None /\ lock' # s /\ lock' \in Slots \cup {None}
        /\ c.pc \in HoldsLock <=> lock' = s
        /\ \A t \in Slots \ {s} : lock' = t <=> lock = t
    BY <1>1, <1>2, <2>1, WorkspacesAssumption DEF Release, HoldsLock
  <2>7. \A t \in Slots \ {s} : slot[t].pc \in Relies /\ t \notin replaced' =>
              Has(t)' /\ (slot[t].pc = "use" => Whole(t)')
    BY <1>1, <1>2, <2>1, <2>2, <2>4, OthersRely
  <2>8. disk' \subseteq 1 .. MaxRoots
    BY <1>1, <1>2 DEF TypeOK
  <2>9. \A d \in disk' : \/ c.pc \in Holding /\ d = c.root
                         \/ d \in disk /\ slot[s].pc \notin Holding
    BY <1>1, <1>2, <2>1 DEF Holding
  <2> QED
    BY <1>1, <1>2, <2>1, <2>2, <2>4, <2>5, <2>6, <2>7, <2>8, <2>9, InvStep
<1>3. CASE (Raise(s) \/ (~Has(s) /\ RaiseLost(s))) /\ UNCHANGED <<disk, mirror, orphans>>
  BY <1>1, <1>3, InvOnlyRaise DEF Holding
<1>4. CASE /\ disk' = disk \cup {root}
           /\ orphans' = orphans \cup {root}
           /\ \E worktrees \in {mirror.worktrees, mirror.worktrees \cup {root}} :
                mirror' = [mirror EXCEPT !.worktrees = worktrees]
           /\ Raise(s)
  <2>1. /\ mirror' \in Mirror /\ mirror'.health = mirror.health
        /\ mirror'.refs = mirror.refs /\ mirror.worktrees \subseteq mirror'.worktrees
    BY <1>1, <1>4 DEF Mirror, TypeOK
  <2>2. (Usable => Usable') /\ disk' \subseteq 1 .. MaxRoots
    BY <1>1, <1>4, <2>1 DEF Usable, TypeOK
  <2> QED
    BY <1>1, <1>4, <2>1, <2>2, NoCallEnded, InvRaise DEF Raise, Holding
<1> QED
  BY <1>2, <1>3, <1>4 DEF Add, count

\* A read that fails: its worktree was the mirror's that was removed.
LEMMA InvRead == ASSUME Inv, NEW s \in Slots, Read(s) PROVE Inv'
<1> USE DEF Inv, Read, At, count, history
<1>1. PICK c \in Call : /\ c.pc = "lockRemove" /\ c.rev = slot[s].rev
                        /\ c.root = slot[s].root /\ slot' = [slot EXCEPT ![s] = c]
  BY MovedLost
<1>2. s \in replaced /\ lock # s
  BY DEF OnlyRebuildTakesAway, LockInUse, HoldsLock
<1> QED
  BY <1>1, <1>2, InvMove DEF HoldsLock, Relies, Holding

\* The review is over.
LEMMA InvLeave == ASSUME Inv, NEW s \in Slots, Leave(s) PROVE Inv'
<1> USE DEF Inv, Leave, At, count, history
<1>1. PICK c \in Call : /\ c.pc = "lockRemove" /\ c.rev = slot[s].rev
                        /\ c.root = slot[s].root /\ c.lost = slot[s].lost
                        /\ slot' = [slot EXCEPT ![s] = c]
  BY Moved DEF PCs
<1>2. lock # s /\ (c.lost => s \in replaced)
  BY <1>1 DEF OnlyRebuildTakesAway, LockInUse, HoldsLock
<1> QED
  BY <1>1, <1>2, InvMove DEF HoldsLock, Relies, Holding

\* _remove_worktree: neither the removal nor the prune touches the directory of
\* another call; the call's own stays only as an orphan.
LEMMA InvCleanup == ASSUME Inv, NEW s \in Slots, Cleanup(s) PROVE Inv'
<1> USE DEF Inv, At
<1> DEFINE root == slot[s].root
           there == disk \ {root}
           c == [NoCall EXCEPT !.lost = slot[s].lost]
<1>1. /\ running /\ running' = running /\ slot[s].pc = "cleanup" /\ lock = s /\ lock' = None
      /\ replaced' = replaced /\ slot' = [slot EXCEPT ![s] = c]
  BY DEF Cleanup, TypeOK, HoldsLock, Release
<1>2. c \in Call /\ c.pc = "idle" /\ (c.lost => s \in replaced)
  <2>1. slot[s].lost \in BOOLEAN
    BY DEF TypeOK, Call
  <2> QED
    BY <2>1, Ended DEF OnlyRebuildTakesAway
<1>3. /\ mirror' \in Mirror /\ mirror'.health = mirror.health /\ mirror'.refs = mirror.refs
      /\ mirror.worktrees \cap there \subseteq mirror'.worktrees
  <2>1. PICK worktrees \in SUBSET mirror.worktrees :
            /\ mirror' = [mirror EXCEPT !.worktrees = worktrees]
            /\ mirror.worktrees \cap there \subseteq worktrees
    BY DEF Cleanup, Pruned
  <2> QED
    BY <2>1 DEF Mirror, TypeOK
<1>4. \/ disk' = there /\ orphans' = orphans
      \/ disk' = disk /\ orphans' = orphans \cup {root}
  BY DEF Cleanup
<1>5. \A t \in Slots \ {s} : slot[t].pc = "use" => slot[t].root # root
  BY <1>1 DEF CallsApart
<1>6. \A t \in Slots \ {s} :
            slot[t].pc = "use" /\ slot[t].root \in disk \cap mirror.worktrees
                => slot[t].root \in disk' \cap mirror'.worktrees
  BY <1>3, <1>4, <1>5
<1>7. (Usable => Usable') /\ disk' \subseteq 1 .. MaxRoots
  BY <1>3, <1>4 DEF Usable, TypeOK
<1>8. \A t \in Slots \ {s} : slot[t].pc \in Relies /\ t \notin replaced' =>
            Has(t)' /\ (slot[t].pc = "use" => Whole(t)')
  <2> HIDE DEF c, root, there
  <2> QED
    BY <1>1, <1>2, <1>3, <1>6, <1>7, OthersRely
<1>9. /\ lock' \in Slots \cup {None} /\ lock' # s
      /\ c.pc \in HoldsLock <=> lock' = s
      /\ \A t \in Slots \ {s} : lock' = t <=> lock = t
  BY <1>1, <1>2, WorkspacesAssumption DEF HoldsLock
<1>10. /\ \A d \in disk' : d \in orphans' \/ (d \in disk /\ d # slot[s].root)
       /\ orphans \subseteq orphans'
  BY <1>4
<1> HIDE DEF c
<1> QED
  BY <1>1, <1>2, <1>3, <1>7, <1>8, <1>9, <1>10, InvStep DEF Relies

\* The process is killed: no call is left.
LEMMA InvCrash == ASSUME Inv, Crash PROVE Inv'
<1> USE DEF Inv
<1>1. /\ ~running' /\ slot' = [s \in Slots |-> NoCall] /\ lock' = None
      /\ UNCHANGED <<disk, replaced, orphans>>
  BY DEF Crash
<1>2. mirror' \in Mirror
  <2>1. \/ mirror' \in Parts \cup {NoMirror, mirror}
        \/ \E health \in {"invalid", "locked", "ok"} :
                mirror' = [mirror EXCEPT !.health = health]
    BY DEF Crash
  <2> QED
    BY <2>1, PartsAreMirrors DEF Mirror, TypeOK
<1>3. \A s \in Slots : /\ slot'[s] = NoCall /\ slot'[s].pc = "idle" /\ ~slot'[s].lost
                       /\ slot'[s].pc \notin HoldsLock \cup Relies
                       /\ slot'[s].pc \notin {"use", "clone", "verify"}
  BY <1>1, NoCallEnded, Pcs
<1>4. TypeOK'
  <2>1. slot' \in [Slots -> Call]
    BY <1>1, NoCallEnded
  <2>2. running' \in BOOLEAN
    BY DEF Crash
  <2> QED
    BY <1>1, <1>2, <1>3, <2>1, <2>2 DEF TypeOK
<1>5. CallsApart' /\ LockInUse' /\ MirrorOfHolder' /\ Stopped'
  BY <1>1, <1>3, WorkspacesAssumption DEF CallsApart, LockInUse, MirrorOfHolder, Stopped
<1>6. OnlyRebuildTakesAway' /\ NoDirectoryLeaks'
  BY <1>1, <1>3 DEF OnlyRebuildTakesAway, NoDirectoryLeaks
<1> QED
  BY <1>4, <1>5, <1>6

\* worker_runtime clears what the last process left.
LEMMA InvStartUp == ASSUME Inv, StartUp PROVE Inv'
<1> USE DEF Inv, StartUp, count
<1>1. \A s \in Slots : /\ slot'[s] = NoCall /\ slot'[s].pc = "idle" /\ ~slot'[s].lost
                       /\ slot'[s].pc \notin HoldsLock \cup Relies
                       /\ slot'[s].pc \notin {"use", "clone", "verify"}
  BY NoCallEnded, Pcs DEF Stopped
<1>2. mirror' \in Mirror
  BY DEF Mirror, TypeOK, Pruned
<1>3. TypeOK'
  <2>1. slot' \in [Slots -> Call] /\ lock' \in Slots \cup {None}
    BY DEF TypeOK
  <2> QED
    BY <1>1, <1>2, <2>1 DEF TypeOK
<1>4. CallsApart' /\ LockInUse' /\ MirrorOfHolder' /\ Stopped'
  BY <1>1, WorkspacesAssumption DEF CallsApart, LockInUse, MirrorOfHolder, Stopped
<1>5. OnlyRebuildTakesAway' /\ NoDirectoryLeaks'
  BY <1>1 DEF OnlyRebuildTakesAway, NoDirectoryLeaks
<1> QED
  BY <1>3, <1>4, <1>5

\* Nothing moves.
LEMMA InvStutter == ASSUME Inv, UNCHANGED vars PROVE Inv'
BY DEF Inv, vars, TypeOK, CallsApart, LockInUse, MirrorOfHolder, Stopped,
       OnlyRebuildTakesAway, NoDirectoryLeaks, Has, Usable, Whole

\* Every step of a slot, and of the process, preserves the invariant.
LEMMA InvNext == ASSUME Inv, [Next]_vars PROVE Inv'
<1>1. ASSUME NEW s \in Slots, Begin(s) \/ Lock(s) \/ Step(s) PROVE Inv'
  BY <1>1, InvBegin, InvLock, InvCheck, InvRemove, InvClone, InvFetch, InvVerify,
     InvParents, InvAdd, InvRead, InvLeave, InvCleanup DEF Step
<1> QED
  BY <1>1, InvCrash, InvStartUp, InvStutter DEF Next

\* The inductive invariant of the shared volume.
THEOREM SharedVolume == Spec => []Inv
<1> QED
  BY InvInit, InvNext, PTL DEF Spec

\* Every variable has its type, and the project's lock excludes.
THEOREM WorkspacesTypes == Spec => []TypeOK
<1>1. Inv => TypeOK
  BY DEF Inv
<1> QED
  BY <1>1, SharedVolume, PTL

\* No fetch, clean-up or prune takes away what a review of another slot relies
\* on: the removal of the mirror is the only step that does.
THEOREM OnlyRemovalTakesAway == Spec => []OnlyRebuildTakesAway
<1>1. Inv => OnlyRebuildTakesAway
  BY DEF Inv
<1> QED
  BY <1>1, SharedVolume, PTL

\* While the worker runs, its directories are those of its reviews, of the adds
\* that were killed and the removals that failed since it started.
THEOREM NoDirectoryLeft == Spec => []NoDirectoryLeaks
<1>1. Inv => NoDirectoryLeaks
  BY DEF Inv
<1> QED
  BY <1>1, SharedVolume, PTL
=============================================================================
