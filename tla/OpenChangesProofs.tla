---------------------------- MODULE OpenChangesProofs ----------------------------
(***************************************************************************)
(* The query of open changes misses nothing, is refused only when it must  *)
(* be, and advances with every page: for any number of changes, projects   *)
(* and updates, any page size and any resolution of the times.             *)
(***************************************************************************)
EXTENDS OpenChanges, FiniteSetTheorems, TLAPS

-----------------------------------------------------------------------------
(* The rounding of times *)

\* What division with remainder means.
LEMMA Division ==
    ASSUME NEW t \in Nat, NEW n \in Nat \ {0}
    PROVE  /\ t \div n \in Nat
           /\ t % n \in 0 .. n - 1
           /\ t = n * (t \div n) + (t % n)
OBVIOUS

\* strftime never names a later second.
LEMMA SecondIsEarlier ==
    ASSUME NEW t \in Nat, Second \in Nat \ {0}
    PROVE  ToSecond(t) \in Nat /\ ToSecond(t) <= t
BY Division DEF ToSecond

\* A multiple of n above t is at least t rounded up.
LEMMA RoundedUp ==
    ASSUME NEW t \in Nat, NEW b \in Nat, NEW n \in Nat \ {0},
           t <= b, b % n = 0, t % n # 0
    PROVE  t - (t % n) + n <= b
<1> DEFINE q == t \div n
           k == b \div n
<1>a. q \in Nat /\ t % n \in 0 .. n - 1 /\ t = n * q + (t % n)
  BY Division
<1>b. k \in Nat /\ b = n * k + (b % n)
  BY Division
<1>1. /\ q \in Nat /\ k \in Nat
      /\ t = n * q + (t % n) /\ t % n \in 1 .. n - 1
      /\ b = n * k
  <2>1. n * k \in Nat
    BY <1>b
  <2> HIDE DEF q, k
  <2> QED
    BY <1>a, <1>b, <2>1
<1>2. n * q < n * k
  BY <1>1
<1>3. q < k
  BY <1>1, <1>2
<1>4. n * (q + 1) <= n * k
  BY <1>1, <1>3
<1>5. n * (q + 1) = n * q + n
  BY <1>1
<1> QED
  BY <1>1, <1>4, <1>5

\* The boundary is a whole millisecond, not before t, and not after any
\* boundary that t has respected.
LEMMA BoundaryOf ==
    ASSUME NEW t \in Nat, Ms \in Nat \ {0}
    PROVE  /\ Boundary(t) \in Nat
           /\ Boundary(t) % Ms = 0
           /\ t <= Boundary(t)
           /\ \A b \in Nat : t <= b /\ b % Ms = 0 => Boundary(t) <= b
<1> DEFINE q == t \div Ms
<1>1. q \in Nat /\ t % Ms \in 0 .. Ms - 1 /\ t = Ms * q + (t % Ms)
  BY Division
<1>2. CASE t % Ms = 0
  BY <1>2 DEF Boundary
<1>3. CASE t % Ms # 0
  <2>1. Boundary(t) = Ms * q + Ms
    BY <1>1, <1>3 DEF Boundary
  <2>2. Ms * q + Ms = Ms * (q + 1)
    BY <1>1
  <2>3. Ms * (q + 1) \in Nat /\ (Ms * (q + 1)) % Ms = 0
    BY <1>1
  <2>4. \A b \in Nat : t <= b /\ b % Ms = 0 => Boundary(t) <= b
    BY <1>3, RoundedUp DEF Boundary
  <2> QED
    BY <1>1, <2>1, <2>2, <2>3, <2>4
<1> QED
  BY <1>2, <1>3

-----------------------------------------------------------------------------
(* The inductive invariant *)

\* What nobody has touched since the query began is as it was, and was parsed as
\* it is.
Unchanged ==
    \A c \in Changes \ touched :
        /\ open[c]
        /\ Dated(c) => created[c] <= updated[c]
        /\ \A item \in found : item.change = c => item.created = created[c]

\* A change the query still has to show lies before its boundary.
Ahead(c) == c \notin excluded /\ (boundary # None => updated[c] <= boundary)

\* What is expected of a project has been seen, is ahead, or its project is.
NothingSkipped ==
    \A c \in Changes : Expected(c) =>
        \/ c \in Seen
        \/ ProjectOf[c] \in left
        \/ ProjectOf[c] = project /\ Ahead(c)

\* Only changes at the boundary are excluded by name.
ExcludedAtBoundary ==
    project # None =>
        \A c \in excluded : /\ ProjectOf[c] = project
                            /\ Boundary(updated[c]) = boundary \/ c \in touched

Finish == phase = "done" => project = None /\ left = {}

Crowded ==
    phase = "refused" => project # None /\ Cardinality(excluded) > MaxExcluded

Inv ==
    TypeOK /\ Unchanged /\ NothingSkipped /\ ExcludedAtBoundary /\ Finish /\ Crowded

\* The query begins with every project ahead.
LEMMA InvInit == Init => Inv
<1> SUFFICES ASSUME Init PROVE Inv
  OBVIOUS
<1>1. TypeOK
  BY OpenChangesAssumption DEF Init, TypeOK, Seen
<1>2. Unchanged
  BY DEF Init, Unchanged
<1>3. NothingSkipped
  BY OpenChangesAssumption DEF Init, NothingSkipped
<1>4. ExcludedAtBoundary /\ Finish /\ Crowded
  BY DEF Init, ExcludedAtBoundary, Finish, Crowded
<1> QED
  BY <1>1, <1>2, <1>3, <1>4 DEF Inv

\* Gerrit's updates: what is touched is no longer expected.
LEMMA InvGerrit ==
    ASSUME Inv, NEW c \in Changes, Update(c) \/ Close(c)
    PROVE  Inv'
<1> USE DEF Inv, query
<1>1. TypeOK'
  <2>1. clock' \in Nat /\ updates' \in Nat /\ touched' \subseteq Changes
    BY DEF TypeOK, Update, Close
  <2>2. open' \in [Changes -> BOOLEAN] /\ updated' \in [Changes -> Nat]
    BY <2>1 DEF TypeOK, Update, Close
  <2>3. created' \in [Changes -> Nat]
    BY <2>1 DEF TypeOK, Update, Close
  <2>4. UNCHANGED <<since, left, project, boundary, excluded, found, phase>>
    BY DEF Update, Close
  <2> QED
    BY <2>1, <2>2, <2>3, <2>4 DEF TypeOK, Seen
<1>2. /\ touched' = touched \cup {c}
      /\ UNCHANGED <<found, since, left, project, boundary, excluded, phase>>
      /\ \A d \in Changes \ {c} : /\ open'[d] = open[d] /\ updated'[d] = updated[d]
                                  /\ created'[d] = created[d]
  BY DEF TypeOK, Update, Close
<1>3. Unchanged'
  BY <1>2 DEF Unchanged, Dated
<1>4. NothingSkipped'
  BY <1>2 DEF NothingSkipped, Expected, Wanted, Seen, Ahead
<1>5. ExcludedAtBoundary'
  <2> SUFFICES ASSUME project # None, NEW d \in excluded
               PROVE  /\ ProjectOf[d] = project
                      /\ Boundary(updated'[d]) = boundary \/ d \in touched'
    BY <1>2 DEF ExcludedAtBoundary, Boundary
  <2>1. d \in Changes
    BY DEF TypeOK, Seen
  <2> QED
    BY <1>2, <2>1 DEF ExcludedAtBoundary
<1>6. Finish' /\ Crowded'
  BY <1>2 DEF Finish, Crowded
<1> QED
  BY <1>1, <1>3, <1>4, <1>5, <1>6

\* The times of the answer are those of the changes it matches.
LEMMA MatchingFacts ==
    ASSUME TypeOK, NEW c \in Matching
    PROVE  /\ c \in Changes /\ ProjectOf[c] = project /\ c \notin excluded
           /\ boundary # None => updated[c] <= boundary
BY DEF Matching

\* An expected change that is ahead matches the query: after: is cut down to a
\* second, and no later than the caller's watermark and the project's cutoff.
LEMMA ExpectedMatches ==
    ASSUME Inv, NEW c \in Changes, Expected(c), ProjectOf[c] = project, Ahead(c)
    PROVE  c \in Matching
<1> DEFINE after == Latest(since, Cutoff[project])
<1>1. /\ project \in Projects /\ Cutoff[project] \in Nat \cup {None}
      /\ since \in Nat \cup {None} /\ updated[c] \in Nat /\ created[c] \in Nat
      /\ Second \in Nat \ {0} /\ None \notin Nat
  BY OpenChangesAssumption DEF Inv, TypeOK
<1>2. open[c] /\ (Dated(c) => created[c] <= updated[c])
  BY DEF Inv, Unchanged, Expected
<1>3. ASSUME after # None PROVE updated[c] >= after /\ after \in Nat
  BY <1>1, <1>2, <1>3 DEF Latest, Expected, Wanted, Dated
<1>4. ASSUME after # None PROVE updated[c] >= ToSecond(after)
  <2> HIDE DEF after
  <2>1. ToSecond(after) \in Nat /\ ToSecond(after) <= after
    BY <1>1, <1>3, <1>4, SecondIsEarlier
  <2> QED
    BY <1>1, <1>3, <1>4, <2>1
<1> QED
  BY <1>2, <1>4 DEF Matching, Ahead

\* A page that is not the last: its oldest change and the next query.
LEMMA NextQuery ==
    ASSUME Inv, NEW page \in SUBSET Matching, IsPage(page), NEW last \in page,
           \A c \in page : updated[last] <= updated[c], project # None,
           NEW next, next = Boundary(updated[last])
    PROVE  /\ next \in Nat /\ next % Ms = 0
           /\ updated[last] <= next
           /\ boundary # None => next <= boundary
           /\ last \in ExcludedAt(page, next) /\ last \notin excluded
           /\ ExcludedAt(page, next) \subseteq excluded \cup page
           /\ next = boundary => excluded \subseteq ExcludedAt(page, next)
<1>1. /\ last \in Changes /\ updated[last] \in Nat /\ last \notin excluded
      /\ boundary # None => updated[last] <= boundary
  BY MatchingFacts DEF Inv, TypeOK
<1>2. Ms \in Nat \ {0} /\ None \notin Nat
  BY OpenChangesAssumption
<1>3. /\ next \in Nat /\ next % Ms = 0 /\ updated[last] <= next
      /\ \A b \in Nat : updated[last] <= b /\ b % Ms = 0 => next <= b
  BY <1>1, <1>2, BoundaryOf
<1>4. boundary # None => boundary \in Nat /\ boundary % Ms = 0
  BY DEF Inv, TypeOK
<1> QED
  BY <1>1, <1>3, <1>4 DEF ExcludedAt

\* The next project is ahead as a whole.
LEMMA InvNextProject == ASSUME Inv, NextProject PROVE Inv'
<1> USE DEF Inv, gerrit
<1>1. PICK p \in left : project' = p /\ left' = left \ {p}
  BY DEF NextProject
<1>2. /\ project = None /\ boundary' = None /\ excluded' = {} /\ phase' = "paging"
      /\ UNCHANGED <<open, updated, created, clock, touched, updates, since, found>>
  BY DEF NextProject
<1>3. p \in Projects /\ None \notin Projects
  BY OpenChangesAssumption DEF TypeOK
<1>4. TypeOK'
  BY <1>1, <1>2, <1>3 DEF TypeOK, Seen
<1>5. Unchanged'
  BY <1>2 DEF Unchanged, Dated
<1>6. NothingSkipped'
  <2> SUFFICES ASSUME NEW c \in Changes, Expected(c), c \notin Seen
               PROVE  ProjectOf[c] \in left' \/ (ProjectOf[c] = p /\ Ahead(c)')
    BY <1>1, <1>2 DEF NothingSkipped, Expected, Seen
  <2>1. ProjectOf[c] \in left
    BY <1>2, OpenChangesAssumption DEF NothingSkipped
  <2> QED
    BY <1>1, <1>2, <2>1 DEF Ahead
<1>7. ExcludedAtBoundary' /\ Finish' /\ Crowded'
  BY <1>2 DEF ExcludedAtBoundary, Finish, Crowded
<1> QED
  BY <1>4, <1>5, <1>6, <1>7

\* A page: what is ahead is on the page or remains ahead.
LEMMA InvPage == ASSUME Inv, Page PROVE Inv'
<1> USE DEF Inv, gerrit
<1>1. PICK page \in SUBSET Matching :
        /\ IsPage(page)
        /\ found' = found \cup {[change |-> c, created |-> created[c]] : c \in page \ Seen}
        /\ IF page = Matching
           THEN /\ project' = None
                /\ UNCHANGED <<boundary, excluded>>
           ELSE \E last \in page :
                /\ \A c \in page : updated[last] <= updated[c]
                /\ boundary' = Boundary(updated[last])
                /\ excluded' = ExcludedAt(page, boundary')
                /\ UNCHANGED project
  BY DEF Page
<1>2. /\ phase = "paging" /\ project # None /\ project \in Projects
      /\ UNCHANGED <<open, updated, created, clock, touched, updates, since, left, phase>>
  BY DEF Page, TypeOK
<1>3. page \subseteq Changes
  BY <1>1, MatchingFacts
<1>4. Seen' = Seen \cup page
  <2>1. ASSUME NEW c \in page, c \notin Seen PROVE c \in Seen'
    <3>1. [change |-> c, created |-> created[c]] \in found'
      BY <1>1, <2>1
    <3>2. [change |-> c, created |-> created[c]].change = c
      OBVIOUS
    <3> QED
      BY <3>1, <3>2 DEF Seen
  <2> QED
    BY <1>1, <2>1 DEF Seen
<1>5. found' \subseteq [change : Changes, created : Nat]
  BY <1>1, <1>3 DEF TypeOK
<1>6. Unchanged'
  <2> SUFFICES ASSUME NEW c \in Changes \ touched, NEW item \in found', item.change = c
               PROVE  item.created = created[c]
    BY <1>2 DEF Unchanged, Dated
  <2> QED
    BY <1>1 DEF Unchanged
<1>7. Finish' /\ Crowded'
  BY <1>2 DEF Finish, Crowded
<1>8. \A c \in Changes : Expected(c)' <=> Expected(c)
  BY <1>2 DEF Expected
<1>9. CASE page = Matching
  <2>1. project' = None /\ UNCHANGED <<boundary, excluded>>
    BY <1>1, <1>9
  <2>2. TypeOK'
    BY <1>2, <1>4, <1>5, <2>1 DEF TypeOK
  <2>3. NothingSkipped'
    BY <1>2, <1>4, <1>8, <1>9, ExpectedMatches DEF NothingSkipped
  <2>4. ExcludedAtBoundary'
    BY <2>1 DEF ExcludedAtBoundary
  <2> QED
    BY <1>6, <1>7, <2>2, <2>3, <2>4
<1>10. CASE page # Matching
  <2>1. PICK last \in page :
          /\ \A c \in page : updated[last] <= updated[c]
          /\ boundary' = Boundary(updated[last])
          /\ excluded' = ExcludedAt(page, boundary')
          /\ project' = project
    BY <1>1, <1>10
  <2>2. /\ boundary' \in Nat /\ boundary' % Ms = 0
        /\ updated[last] <= boundary'
        /\ excluded' \subseteq excluded \cup page
    BY <1>1, <1>2, <2>1, NextQuery
  <2>3. TypeOK'
    BY <1>2, <1>4, <1>5, <2>1, <2>2 DEF TypeOK
  <2>4. NothingSkipped'
    <3> SUFFICES ASSUME NEW c \in Changes, Expected(c), c \notin Seen, c \notin page,
                        ProjectOf[c] \notin left
                 PROVE  ProjectOf[c] = project /\ Ahead(c)'
      BY <1>2, <1>4, <1>8, <2>1 DEF NothingSkipped
    <3>1. ProjectOf[c] = project /\ Ahead(c)
      BY DEF NothingSkipped
    <3>2. c \in Matching
      BY <3>1, ExpectedMatches
    <3>3. updated[c] <= updated[last]
      BY <1>1, <3>2 DEF IsPage
    <3>4. updated[c] <= boundary'
      <4>1. updated[c] \in Nat /\ updated[last] \in Nat
        BY <1>3 DEF TypeOK
      <4> QED
        BY <2>2, <3>3, <4>1
    <3> QED
      BY <1>2, <2>2, <3>1, <3>4 DEF Ahead
  <2>5. ExcludedAtBoundary'
    <3> SUFFICES ASSUME NEW c \in excluded'
                 PROVE  /\ ProjectOf[c] = project
                        /\ Boundary(updated[c]) = boundary' \/ c \in touched
      BY <1>2, <2>1 DEF ExcludedAtBoundary, Boundary
    <3>1. CASE c \in page /\ Boundary(updated[c]) = boundary'
      BY <1>1, <3>1, MatchingFacts
    <3>2. CASE boundary' = boundary /\ c \in excluded
      BY <1>2, <3>2 DEF ExcludedAtBoundary
    <3> QED
      BY <2>1, <3>1, <3>2 DEF ExcludedAt
  <2> QED
    BY <1>6, <1>7, <2>3, <2>4, <2>5
<1> QED
  BY <1>9, <1>10

\* The query gives up or returns.
LEMMA InvEnd == ASSUME Inv, Refuse \/ Return PROVE Inv'
<1> USE DEF Inv, gerrit
<1>1. UNCHANGED <<open, updated, created, clock, touched, updates, since, left, project,
                  boundary, excluded, found>>
  BY DEF Refuse, Return
<1>2. TypeOK'
  BY <1>1 DEF Refuse, Return, TypeOK, Seen
<1>3. Unchanged' /\ NothingSkipped' /\ ExcludedAtBoundary'
  BY <1>1 DEF Unchanged, NothingSkipped, ExcludedAtBoundary, Expected, Seen, Ahead,
              Dated, Boundary
<1>4. Finish' /\ Crowded'
  BY DEF Refuse, Return, Finish, Crowded
<1> QED
  BY <1>2, <1>3, <1>4

\* Every step of the query preserves the invariant.
LEMMA InvNext == Inv /\ [Next]_vars => Inv'
<1> SUFFICES ASSUME Inv, [Next]_vars PROVE Inv'
  OBVIOUS
<1>1. CASE UNCHANGED vars
  BY <1>1 DEF vars, gerrit, query, Inv, TypeOK, Unchanged, NothingSkipped,
              ExcludedAtBoundary, Finish, Crowded, Expected, Seen, Ahead, Dated, Boundary
<1>2. CASE \E c \in Changes : Update(c) \/ Close(c)
  BY <1>2, InvGerrit
<1>3. CASE QueryStep
  BY <1>3, InvNextProject, InvPage, InvEnd DEF QueryStep
<1> QED
  BY <1>1, <1>2, <1>3 DEF Next

\* Every execution keeps the invariant of the paging loop of
\* query_recent_open_changes.
THEOREM Paging == Spec => []Inv
<1>1. Init => Inv
  BY InvInit
<1>2. Inv /\ [Next]_vars => Inv'
  BY InvNext
<1> QED
  BY <1>1, <1>2, PTL DEF Spec

-----------------------------------------------------------------------------
(* What follows from it *)

\* Rows of the query keep their types, boundaries are whole milliseconds, and
\* nothing is excluded that was not seen.
THEOREM OpenChangesTypes == Spec => []TypeOK
<1>1. Inv => TypeOK
  BY DEF Inv
<1> QED
  BY <1>1, Paging, PTL

\* client.py:357: every expected change that stays as it is gets its event, for
\* any updates between the pages and any number of changes in a millisecond.
THEOREM NoChangeMissed == Spec => []NothingMissed
<1>1. Inv => NothingMissed
  <2> SUFFICES ASSUME Inv, phase = "done", NEW c \in Changes, Expected(c)
               PROVE  [change |-> c, created |-> created[c]] \in Events
    BY DEF NothingMissed
  <2>1. project = None /\ left = {} /\ ProjectOf[c] # None
    BY OpenChangesAssumption DEF Inv, Finish
  <2>2. PICK item \in found : item.change = c
    BY <2>1 DEF Inv, NothingSkipped, Seen
  <2>3. item = [change |-> c, created |-> created[c]]
    BY <2>2 DEF Inv, Unchanged, Expected, TypeOK
  <2> QED
    BY <2>2, <2>3 DEF Events, Expected
<1> QED
  BY <1>1, Paging, PTL

\* client.py:394: a query is refused only for more changes in one millisecond of
\* one project than it can exclude by name.
THEOREM RefusedWhenCrowded == Spec => []RefusedOnlyWhenCrowded
<1>1. Inv => RefusedOnlyWhenCrowded
  <2> SUFFICES ASSUME Inv, phase = "refused"
               PROVE  Cardinality({c \in Changes : ProjectOf[c] = project
                        /\ (Boundary(updated[c]) = boundary \/ c \in touched)}) > MaxExcluded
    BY DEF RefusedOnlyWhenCrowded
  <2> DEFINE crowd == {c \in Changes : ProjectOf[c] = project
                        /\ (Boundary(updated[c]) = boundary \/ c \in touched)}
  <2>1. Cardinality(excluded) > MaxExcluded /\ excluded \subseteq crowd
    BY DEF Inv, Crowded, ExcludedAtBoundary, TypeOK, Seen
  <2>2. IsFiniteSet(crowd)
    BY OpenChangesAssumption, FS_Subset
  <2>3. /\ Cardinality(excluded) <= Cardinality(crowd)
        /\ Cardinality(excluded) \in Nat /\ Cardinality(crowd) \in Nat
        /\ MaxExcluded \in Nat
    BY <2>1, <2>2, FS_Subset, FS_CardinalityType, OpenChangesAssumption
  <2> QED
    BY <2>1, <2>3
<1> QED
  BY <1>1, Paging, PTL

\* client.py:424: no page is read twice, whatever is updated in between.
THEOREM EveryPageAdvances == Spec => PagesAdvance
<1>1. Inv /\ [Next]_vars => [PageAdvances]_vars
  <2> SUFFICES ASSUME Inv, Next, project # None, project' = project,
                      phase' = "paging", query' # query, boundary # None
               PROVE  \/ boundary' < boundary
                      \/ boundary' = boundary /\ excluded \subseteq excluded'
                                              /\ excluded # excluded'
    BY DEF PageAdvances
  <2>1. Page
    BY DEF Next, QueryStep, Update, Close, NextProject, Refuse, Return
  <2>2. PICK page \in SUBSET Matching :
          /\ IsPage(page)
          /\ \E last \in page : /\ \A c \in page : updated[last] <= updated[c]
                               /\ boundary' = Boundary(updated[last])
                               /\ excluded' = ExcludedAt(page, boundary')
    BY <2>1 DEF Page
  <2>3. PICK last \in page : /\ \A c \in page : updated[last] <= updated[c]
                             /\ boundary' = Boundary(updated[last])
                             /\ excluded' = ExcludedAt(page, boundary')
    BY <2>2
  <2>4. /\ boundary' \in Nat /\ boundary' <= boundary
        /\ last \in excluded' /\ last \notin excluded
        /\ boundary' = boundary => excluded \subseteq excluded'
    BY <2>2, <2>3, NextQuery
  <2>5. boundary \in Nat
    BY DEF Inv, TypeOK
  <2> QED
    BY <2>4, <2>5
<1> QED
  BY <1>1, Paging, PTL DEF Spec, PagesAdvance
=============================================================================
