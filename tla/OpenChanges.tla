------------------------------- MODULE OpenChanges -------------------------------
(***************************************************************************)
(* GerritRestClient.query_recent_open_changes and reconciliation_events:   *)
(* the open changes of the allowed projects, read in pages of at most      *)
(* PageSize.  Gerrit has no stable cursor: the next page is asked for by   *)
(* the update time of the last change of this one, rounded up to a         *)
(* millisecond, without the changes already seen at that boundary.         *)
(* Changes are updated and closed between the pages.                       *)
(*                                                                         *)
(* Time is counted in ticks, of which several make a millisecond.          *)
(***************************************************************************)
EXTENDS Integers, FiniteSets

CONSTANTS
    Changes, Projects,
    ProjectOf,      \* the project of a change
    Cutoff,         \* review_start_at of a FROM_NOW project, None of the others
    None,           \* no cutoff, no boundary, no project
    Ms, Second,     \* ticks in a millisecond and in a second
    PageSize,       \* page_size
    MaxExcluded,    \* the -change: terms that fit in a query of 64000 bytes
    Start,          \* bound: the clock when the query begins
    MaxUpdates      \* bound: updates and closings while pages are read

ASSUME OpenChangesAssumption ==
    /\ IsFiniteSet(Changes)
    /\ ProjectOf \in [Changes -> Projects]
    /\ Cutoff \in [Projects -> Nat \cup {None}]
    /\ None \notin Nat \cup Projects
    /\ {Ms, Second, PageSize} \subseteq Nat \ {0}
    /\ {MaxExcluded, Start, MaxUpdates} \subseteq Nat

VARIABLES
    open, updated,  \* Gerrit's changes: are they open, their last update
    created,        \* when their current revision was created; 0 where there is
                    \* no cutoff to compare it with
    clock,
    since,          \* the caller's watermark, None for a full sweep
    left,           \* the projects not yet queried
    project,        \* the project whose pages are being read
    boundary, excluded,     \* before: and -change: of the next query
    found,          \* the changes parsed so far, as they were then
    phase,
    touched,        \* history: the changes updated or closed since the query began
    updates

gerrit == <<open, updated, created, clock, touched, updates>>
query == <<left, project, boundary, excluded, found, phase>>
vars == <<gerrit, since, query>>

Dated(c) == Cutoff[ProjectOf[c]] # None

Seen == {item.change : item \in found}

Init ==
    /\ open = [c \in Changes |-> TRUE]
    /\ updated \in [Changes -> 0 .. Start]
    /\ created \in [Changes -> 0 .. Start]
    /\ \A c \in Changes : created[c] <= IF Dated(c) THEN updated[c] ELSE 0
    /\ clock = Start
    /\ since \in 0 .. Start \cup {None}
    /\ left = Projects /\ project = None
    /\ boundary = None /\ excluded = {}
    /\ found = {}
    /\ phase = "paging"
    /\ touched = {}
    /\ updates = 0

-----------------------------------------------------------------------------
(* Gerrit *)

\* A comment, or a new Patch Set; two updates may share a tick.
Update(c) ==
    /\ open[c]
    /\ updates < MaxUpdates
    /\ updates' = updates + 1
    /\ clock' \in {clock, clock + 1}
    /\ updated' = [updated EXCEPT ![c] = clock']
    /\ created' \in {created, IF Dated(c) THEN [created EXCEPT ![c] = clock'] ELSE created}
    /\ touched' = touched \cup {c}
    /\ UNCHANGED <<open, since, query>>

Close(c) ==
    /\ open[c]
    /\ updates < MaxUpdates
    /\ updates' = updates + 1
    /\ open' = [open EXCEPT ![c] = FALSE]
    /\ touched' = touched \cup {c}
    /\ UNCHANGED <<updated, created, clock, since, query>>

-----------------------------------------------------------------------------
(* The query *)

\* _latest_cutoff
Latest(first, second) ==
    IF first = None THEN second
    ELSE IF second = None \/ second <= first THEN first ELSE second

\* strftime drops what is below a second.
ToSecond(t) == t - (t % Second)

\* MUTANT: the fraction is cut off instead of rounded up.
BugFloor(t) == t - (t % Ms)

\* _gerrit_search_boundary
Boundary(t) == IF t % Ms = 0 THEN t ELSE t - (t % Ms) + Ms

\* status:open project: after: before: -change:, the times inclusive.
Matching ==
    LET after == Latest(since, Cutoff[project]) IN
    {c \in Changes :
        /\ ProjectOf[c] = project
        /\ open[c]
        /\ after # None => updated[c] >= ToSecond(after)
        /\ boundary # None => updated[c] <= boundary
        /\ c \notin excluded}

\* The first PageSize of them, latest update first, equal times in any order.
IsPage(page) ==
    /\ page \subseteq Matching
    /\ Cardinality(page) <= PageSize
    /\ page # Matching => Cardinality(page) = PageSize
    /\ \A c \in page, d \in Matching \ page : updated[d] <= updated[c]

\* The next project: boundary, excluded and seen changes start anew.
NextProject ==
    /\ phase = "paging"
    /\ project = None
    /\ \E p \in left :
        /\ project' = p
        /\ left' = left \ {p}
    /\ boundary' = None
    /\ excluded' = {}
    /\ UNCHANGED <<gerrit, since, found, phase>>

\* MUTANT: nothing is excluded at a boundary.
BugNoExclusion(page, next) == {}

\* MUTANT: the set is never cleared.
BugNeverCleared(page, next) == excluded \cup {c \in page : Boundary(updated[c]) = next}

\* excluded_at_boundary for the next query.
ExcludedAt(page, next) ==
    (IF next = boundary THEN excluded ELSE {}) \cup {c \in page : Boundary(updated[c]) = next}

\* One request and its answer; the last page has no _more_changes.
Page ==
    /\ phase = "paging"
    /\ project # None
    /\ Cardinality(excluded) <= MaxExcluded
    /\ \E page \in SUBSET Matching :
        /\ IsPage(page)
        /\ found' = found \cup {[change |-> c, created |-> created[c]] : c \in page \ Seen}
        /\ IF page = Matching
           THEN /\ project' = None
                /\ UNCHANGED <<boundary, excluded>>
           ELSE \E last \in page :
                /\ \A c \in page : updated[last] <= updated[c]
                /\ boundary' = Boundary(updated[last])
                /\ excluded' = ExcludedAt(page, boundary')
                /\ UNCHANGED project
    /\ UNCHANGED <<gerrit, since, left, phase>>

\* More changes at one boundary than a query can exclude: TransientError.
Refuse ==
    /\ phase = "paging"
    /\ project # None
    /\ Cardinality(excluded) > MaxExcluded
    /\ phase' = "refused"
    /\ UNCHANGED <<gerrit, since, left, project, boundary, excluded, found>>

Return ==
    /\ phase = "paging"
    /\ project = None
    /\ left = {}
    /\ phase' = "done"
    /\ UNCHANGED <<gerrit, since, left, project, boundary, excluded, found>>

QueryStep == NextProject \/ Page \/ Refuse \/ Return

Next ==
    \/ \E c \in Changes : Update(c) \/ Close(c)
    \/ QueryStep

Spec == Init /\ [][Next]_vars

\* The requests have timeouts: a query goes on to its next page.
FairSpec == Spec /\ WF_vars(QueryStep)

-----------------------------------------------------------------------------
(* Properties *)

TypeOK ==
    /\ open \in [Changes -> BOOLEAN]
    /\ updated \in [Changes -> Nat] /\ created \in [Changes -> Nat]
    /\ clock \in Nat /\ updates \in Nat
    /\ since \in Nat \cup {None}
    /\ left \subseteq Projects
    /\ project \in Projects \cup {None}
    /\ boundary \in Nat \cup {None}
    /\ boundary # None => boundary % Ms = 0
    /\ excluded \subseteq Seen
    /\ found \subseteq [change : Changes, created : Nat]
    /\ phase \in {"paging", "done", "refused"}
    /\ touched \subseteq Changes

\* What reconciliation_events makes of the result: Patch Sets older than the
\* project's cutoff are left out.
Wanted(p, made) == Cutoff[p] # None => made >= Cutoff[p]
Events == {item \in found : Wanted(ProjectOf[item.change], item.created)}

Expected(c) ==
    /\ c \notin touched
    /\ Wanted(ProjectOf[c], created[c])
    /\ since # None => updated[c] >= since

\* client.py:357: a change that the caller asks for and that stays as it is
\* while the pages are read gets its event, whatever else is updated or closed
\* between two pages and however many changes share a millisecond.
NothingMissed ==
    phase = "done" =>
        \A c \in Changes : Expected(c) => [change |-> c, created |-> created[c]] \in Events

\* client.py:391: a query is given up only when more changes than it can
\* exclude were updated in one millisecond of one project, or touched while
\* it ran.
RefusedOnlyWhenCrowded ==
    phase = "refused" =>
        Cardinality({c \in Changes : ProjectOf[c] = project
                        /\ (Boundary(updated[c]) = boundary \/ c \in touched)}) > MaxExcluded

\* client.py:424: every page takes the query further, to an earlier boundary or
\* past more of the changes at this one, so that no page is read twice.
PageAdvances ==
    (project # None /\ project' = project /\ phase' = "paging" /\ query' # query) =>
        \/ boundary = None
        \/ boundary' < boundary
        \/ boundary' = boundary /\ excluded \subseteq excluded' /\ excluded # excluded'
PagesAdvance == [][PageAdvances]_vars

\* The query ends, even while changes are updated.
QueryEnds == <>(phase # "paging")
=============================================================================
