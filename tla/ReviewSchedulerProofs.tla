------------------------- MODULE ReviewSchedulerProofs -------------------------
(***************************************************************************)
(* For any diff, budget, number of workers and attempts, and whatever the  *)
(* model answers: every place of the diff is accounted for, the verifier's *)
(* share is kept, every live session can still be answered, and the stored *)
(* row makes only the steps of ReviewProgress.                             *)
(*                                                                         *)
(* The lemmas go from sums and queues over the stored row (its splits are  *)
(* a forest over the initial items) to a worker's memory (its queues hold  *)
(* exactly the undecided leaves, its budget covers the charges of its      *)
(* sessions) and to the steps.  Lemmas about rows and memories are about   *)
(* constants; those named ...Keeps are about one action each.              *)
(***************************************************************************)
EXTENDS ReviewScheduler, FiniteSetTheorems, SequenceTheorems, WellFoundedInduction, TLAPS

-----------------------------------------------------------------------------
(* Induction *)

\* Every nonempty set of naturals has a least element.
LEMMA LeastNat ==
    ASSUME NEW T \in SUBSET Nat, T # {}
    PROVE  \E n \in T : \A k \in T : n <= k
<1> DEFINE R == {p \in Nat \X Nat : p[1] < p[2]}
<1>1. IsWellFoundedOn(R, Nat)
  BY NatLessThanWellFounded, Zenon DEF OpToRel
<1>2. PICK n \in T : \A k \in T : <<k, n>> \notin R
  <2> HIDE DEF R
  <2> QED BY <1>1, WFMin, Zenon
<1>3. ASSUME NEW k \in T PROVE n <= k
  <2>1. k \in Nat /\ n \in Nat /\ <<k, n>> \notin R
    BY <1>2, <1>3
  <2> QED BY <2>1
<1> QED BY <1>2, <1>3

\* What holds of 0 and of the successor of each number it holds of, holds of all.
LEMMA NatInduct ==
    ASSUME NEW P, 0 \in P, \A n \in Nat : n \in P => n + 1 \in P
    PROVE  Nat \subseteq P
<1> SUFFICES ASSUME Nat \ P # {} PROVE FALSE
  OBVIOUS
<1>1. PICK n \in Nat \ P : \A k \in Nat \ P : n <= k
  BY LeastNat
<1>2. n - 1 \in Nat /\ n - 1 \in P
  BY <1>1
<1> QED BY <1>1, <1>2

\* Taking an element out of a finite set makes it smaller by one.
LEMMA CardRemove ==
    ASSUME NEW s, IsFiniteSet(s), NEW x \in s
    PROVE  /\ Cardinality(s) \in Nat /\ Cardinality(s) > 0
           /\ IsFiniteSet(s \ {x})
           /\ Cardinality(s \ {x}) = Cardinality(s) - 1
<1>1. Cardinality(s) \in Nat /\ Cardinality(s \ {x}) \in Nat /\ IsFiniteSet(s \ {x})
  BY FS_RemoveElement, FS_CardinalityType
<1>2. Cardinality(s \ {x}) = Cardinality(s) - 1
  BY FS_RemoveElement
<1> QED BY <1>1, <1>2

\* A nonempty finite set of naturals has a greatest element.
LEMMA GreatestNat ==
    ASSUME NEW S \in SUBSET Nat, IsFiniteSet(S), S # {}
    PROVE  \E n \in S : \A k \in S : k <= n
<1> DEFINE above(x) == {y \in S : x <= y}
           T == {n \in Nat : \E x \in S : n = Cardinality(above(x))}
<1>1. \A x \in S : IsFiniteSet(above(x)) /\ Cardinality(above(x)) \in Nat
  BY FS_Subset, FS_CardinalityType
<1>2. T # {} /\ T \in SUBSET Nat
  BY <1>1
<1>3. PICK n \in T : \A k \in T : n <= k
  <2> HIDE DEF T
  <2> QED BY <1>2, LeastNat
<1>4. PICK x \in S : n = Cardinality(above(x))
  BY <1>3
<1>5. ASSUME NEW y \in S, ~(y <= x) PROVE FALSE
  <2>0. x \in Nat /\ y \in Nat /\ x < y
    BY <1>5
  <2>1. above(y) \in SUBSET above(x) /\ x \in above(x) /\ x \notin above(y)
    <3>1. \A z \in S : z \in Nat /\ (y <= z => x <= z)
      BY <2>0
    <3>2. x <= x /\ ~(y <= x)
      BY <2>0
    <3> QED BY <3>1, <3>2
  <2> HIDE DEF above
  <2>2. Cardinality(above(y)) <= Cardinality(above(x)) /\ Cardinality(above(y)) # Cardinality(above(x))
    BY <1>1, <1>4, <2>1, FS_Subset
  <2>3. Cardinality(above(y)) \in T
    BY <1>1, <1>5
  <2> QED BY <1>1, <1>3, <1>4, <1>5, <2>2, <2>3
<1> QED BY <1>4, <1>5

-----------------------------------------------------------------------------
(* Sums *)

Some(s) == CHOOSE x \in s : TRUE

\* The equation a sum's recursive function solves, on the sets in D.
SumsOn(g, f, D) == g = [s \in D |-> IF s = {} THEN 0 ELSE f[Some(s)] + g[s \ {Some(s)}]]

\* The subsets of S with at most n elements.
UpTo(S, n) == {s \in SUBSET S : Cardinality(s) <= n}

Sums(g, f, S) == SumsOn(g, f, SUBSET S)

NatOn(f, S) == \A x \in S : f[x] \in Nat
SameOn(f, e, S) == \A x \in S : f[x] = e[x]

\* That equation has a solution, so the sum is one.
LEMMA SumSolution ==
    ASSUME NEW S, IsFiniteSet(S), NEW f
    PROVE  \E g : Sums(g, f, S)
<1> DEFINE P == {n \in Nat : \E g : SumsOn(g, f, UpTo(S, n))}
<1>0. \A s \in SUBSET S : IsFiniteSet(s) /\ Cardinality(s) \in Nat
  BY FS_Subset, FS_CardinalityType
<1>1. 0 \in P
  <2> DEFINE g == [s \in UpTo(S, 0) |-> 0]
  <2>1. \A s \in UpTo(S, 0) : s = {}
    BY <1>0, FS_EmptySet DEF UpTo
  <2>2. SumsOn(g, f, UpTo(S, 0))
    BY <2>1 DEF SumsOn
  <2> QED BY <2>2
<1>2. ASSUME NEW n \in Nat, n \in P PROVE n + 1 \in P
  <2>1. PICK g : SumsOn(g, f, UpTo(S, n))
    BY <1>2
  <2> DEFINE h == [s \in UpTo(S, n + 1) |->
                        IF s = {} THEN 0 ELSE f[Some(s)] + g[s \ {Some(s)}]]
  <2>2. \A s \in UpTo(S, n) : s \in UpTo(S, n + 1) /\ h[s] = g[s]
    <3>1. \A s \in UpTo(S, n) : s \in UpTo(S, n + 1)
      BY <1>0 DEF UpTo
    <3> QED BY <2>1, <3>1 DEF SumsOn
  <2>3. ASSUME NEW s \in UpTo(S, n + 1), s # {} PROVE s \ {Some(s)} \in UpTo(S, n)
    <3>1. Some(s) \in s /\ s \in SUBSET S /\ IsFiniteSet(s) /\ Cardinality(s) <= n + 1
      BY <1>0, <2>3 DEF UpTo, Some
    <3>2. Cardinality(s) \in Nat /\ Cardinality(s \ {Some(s)}) = Cardinality(s) - 1
      BY <3>1, CardRemove
    <3> QED BY <3>1, <3>2 DEF UpTo
  <2>4. SumsOn(h, f, UpTo(S, n + 1))
    <3>1. \A s \in UpTo(S, n + 1) : s # {} => h[s \ {Some(s)}] = g[s \ {Some(s)}]
      BY <2>2, <2>3
    <3> QED BY <3>1 DEF SumsOn
  <2> QED BY <2>4
<1>3. Cardinality(S) \in P
  <2> HIDE DEF P
  <2> QED BY <1>0, <1>1, <1>2, NatInduct
<1>4. UpTo(S, Cardinality(S)) = SUBSET S
  BY FS_Subset DEF UpTo
<1> QED BY <1>3, <1>4 DEF Sums

\* The sum over a subset of S is what S's solution gives.
LEMMA SumEquation ==
    ASSUME NEW S, IsFiniteSet(S), NEW f
    PROVE  \E g : Sums(g, f, S) /\ g[S] = SumFunctionOnSet(f, S)
<1> DEFINE g == CHOOSE h : Sums(h, f, S)
<1>1. Sums(g, f, S)
  BY SumSolution
<1>2. SumFunctionOnSet(f, S) = g[S]
  BY DEF SumFunctionOnSet, FoldFunctionOnSet, MapThenFoldSet, Some, Sums, SumsOn
<1> QED BY <1>1, <1>2

\* Solutions agree: on every set both know, and whatever f is elsewhere.
LEMMA SumsAgree ==
    ASSUME NEW D, NEW E, NEW f, NEW e, NEW g, NEW h,
           IsFiniteSet(D), IsFiniteSet(E),
           Sums(g, f, D), Sums(h, e, E),
           NEW T, T \in SUBSET D, T \in SUBSET E, SameOn(f, e, T)
    PROVE  \A s \in SUBSET T : g[s] = h[s]
<1> DEFINE P == {n \in Nat : \A s \in SUBSET T : Cardinality(s) = n => g[s] = h[s]}
<1>0. \A s \in SUBSET T : IsFiniteSet(s) /\ Cardinality(s) \in Nat
  BY FS_Subset, FS_CardinalityType
<1>1. 0 \in P
  BY <1>0, FS_EmptySet DEF Sums, SumsOn
<1>2. ASSUME NEW n \in Nat, n \in P PROVE n + 1 \in P
  <2> SUFFICES ASSUME NEW s \in SUBSET T, Cardinality(s) = n + 1
               PROVE  g[s] = h[s]
    OBVIOUS
  <2> DEFINE x == Some(s)
  <2>1. s # {} /\ x \in s
    BY <1>0, FS_EmptySet DEF Some
  <2>2. Cardinality(s \ {x}) = n
    BY <1>0, <2>1, CardRemove
  <2>3. g[s \ {x}] = h[s \ {x}]
    BY <1>2, <2>2
  <2>4. f[x] = e[x]
    BY <2>1 DEF SameOn
  <2>5. g[s] = f[x] + g[s \ {x}] /\ h[s] = e[x] + h[s \ {x}]
    BY <2>1 DEF Sums, SumsOn
  <2> QED BY <2>3, <2>4, <2>5
<1>3. Nat \subseteq P
  <2> HIDE DEF P
  <2> QED BY <1>1, <1>2, NatInduct
<1> QED BY <1>0, <1>3

\* A sum of naturals is one.
LEMMA SumsNat ==
    ASSUME NEW S, IsFiniteSet(S), NEW f, NatOn(f, S),
           NEW g, Sums(g, f, S)
    PROVE  \A s \in SUBSET S : g[s] \in Nat
<1> DEFINE P == {n \in Nat : \A s \in SUBSET S : Cardinality(s) = n => g[s] \in Nat}
<1>0. \A s \in SUBSET S : IsFiniteSet(s) /\ Cardinality(s) \in Nat
  BY FS_Subset, FS_CardinalityType
<1>1. 0 \in P
  BY <1>0, FS_EmptySet DEF Sums, SumsOn
<1>2. ASSUME NEW n \in Nat, n \in P PROVE n + 1 \in P
  <2> SUFFICES ASSUME NEW s \in SUBSET S, Cardinality(s) = n + 1
               PROVE  g[s] \in Nat
    OBVIOUS
  <2>1. s # {} /\ Some(s) \in s
    BY <1>0, FS_EmptySet DEF Some
  <2>2. g[s] = f[Some(s)] + g[s \ {Some(s)}]
    BY <2>1 DEF Sums, SumsOn
  <2>3. Cardinality(s \ {Some(s)}) = n
    BY <1>0, <2>1, CardRemove
  <2>4. g[s \ {Some(s)}] \in Nat /\ f[Some(s)] \in Nat
    BY <1>2, <2>1, <2>3 DEF NatOn
  <2> QED BY <2>2, <2>4
<1>3. Nat \subseteq P
  <2> HIDE DEF P
  <2> QED BY <1>1, <1>2, NatInduct
<1> QED BY <1>0, <1>3

\* Taking any element out of the set subtracts it from the sum.
LEMMA SumsRemove ==
    ASSUME NEW S, IsFiniteSet(S), NEW f, NatOn(f, S),
           NEW g, Sums(g, f, S)
    PROVE  \A s \in SUBSET S : \A x \in s : g[s] = f[x] + g[s \ {x}]
<1> DEFINE Good(s) == \A x \in s : g[s] = f[x] + g[s \ {x}]
           P == {n \in Nat : \A s \in SUBSET S : Cardinality(s) = n => Good(s)}
<1>0. \A s \in SUBSET S : IsFiniteSet(s) /\ Cardinality(s) \in Nat
  BY FS_Subset, FS_CardinalityType
<1>1. 0 \in P
  BY <1>0, FS_EmptySet
<1>2. ASSUME NEW n \in Nat, n \in P PROVE n + 1 \in P
  <2> SUFFICES ASSUME NEW s \in SUBSET S, Cardinality(s) = n + 1, NEW x \in s
               PROVE  g[s] = f[x] + g[s \ {x}]
    OBVIOUS
  <2> DEFINE c == Some(s)
             r == (s \ {c}) \ {x}
  <2>1. s # {} /\ c \in s
    BY <1>0, FS_EmptySet DEF Some
  <2>2. g[s] = f[c] + g[s \ {c}]
    BY <2>1 DEF Sums, SumsOn
  <2>3. CASE x = c
    BY <2>2, <2>3
  <2>4. CASE x # c
    <3>1. r = (s \ {x}) \ {c} /\ c \in s \ {x} /\ x \in s \ {c}
      BY <2>1, <2>4
    <3>2. Cardinality(s \ {x}) = n /\ Cardinality(s \ {c}) = n
      <4>1. \A z \in s : Cardinality(s \ {z}) = n
        BY <1>0, CardRemove
      <4> QED BY <2>1, <4>1
    <3>3. Good(s \ {x}) /\ Good(s \ {c})
      BY <1>2, <3>2
    <3>4. g[s \ {c}] = f[x] + g[r] /\ g[s \ {x}] = f[c] + g[r]
      BY <3>1, <3>3
    <3>5. f[x] \in Nat /\ f[c] \in Nat /\ g[r] \in Nat
      BY <2>1, SumsNat DEF NatOn
    <3> QED BY <2>2, <3>4, <3>5
  <2> QED BY <2>3, <2>4
<1>3. Nat \subseteq P
  <2> HIDE DEF P
  <2> QED BY <1>1, <1>2, NatInduct
<1> QED BY <1>0, <1>3

-----------------------------------------------------------------------------
(* Sums of functions *)

\* The sum of a function of naturals is one; without elements it is 0.
LEMMA SumNat ==
    ASSUME NEW S, IsFiniteSet(S), NEW f, DOMAIN f = S, NatOn(f, S)
    PROVE  SumFunction(f) \in Nat /\ (S = {} => SumFunction(f) = 0)
<1>1. PICK g : Sums(g, f, S) /\ g[S] = SumFunctionOnSet(f, S)
  BY SumEquation
<1>2. g[S] \in Nat
  BY <1>1, SumsNat
<1>3. S = {} => g[S] = 0
  BY <1>1 DEF Sums, SumsOn
<1> QED BY <1>1, <1>2, <1>3 DEF SumFunction

\* A sum depends only on the values of the elements summed.
LEMMA SumSame ==
    ASSUME NEW S, IsFiniteSet(S), NEW f, NEW e, SameOn(f, e, S)
    PROVE  SumFunctionOnSet(f, S) = SumFunctionOnSet(e, S)
<1>1. PICK g : Sums(g, f, S) /\ g[S] = SumFunctionOnSet(f, S)
  BY SumEquation
<1>2. PICK h : Sums(h, e, S) /\ h[S] = SumFunctionOnSet(e, S)
  BY SumEquation
<1>3. ASSUME NEW s \in SUBSET S PROVE g[s] = h[s]
  BY <1>1, <1>2, <1>3, SumsAgree
<1> QED BY <1>1, <1>2, <1>3

\* A solution knows the sums of all subsets.
LEMMA SumPart ==
    ASSUME NEW D, IsFiniteSet(D), NEW f, NEW g, Sums(g, f, D), NEW S \in SUBSET D
    PROVE  g[S] = SumFunctionOnSet(f, S)
<1>1. IsFiniteSet(S)
  BY FS_Subset
<1>2. PICK h : Sums(h, f, S) /\ h[S] = SumFunctionOnSet(f, S)
  BY <1>1, SumEquation
<1>3. SameOn(f, f, S)
  BY DEF SameOn
<1>4. ASSUME NEW s \in SUBSET S PROVE g[s] = h[s]
  BY <1>1, <1>2, <1>3, <1>4, SumsAgree
<1> QED BY <1>2, <1>4

\* A sum is that of one element and the rest.
LEMMA SumSplit ==
    ASSUME NEW D, IsFiniteSet(D), NEW f, NatOn(f, D), NEW x \in D,
           NEW S \in SUBSET D, x \notin S, \A y \in D : y = x \/ y \in S
    PROVE  SumFunctionOnSet(f, D) = f[x] + SumFunctionOnSet(f, S)
<1>1. PICK g : Sums(g, f, D) /\ g[D] = SumFunctionOnSet(f, D)
  BY SumEquation
<1>2. ASSUME NEW s \in SUBSET D, NEW y \in s PROVE g[s] = f[y] + g[s \ {y}]
  BY <1>1, SumsRemove
<1>3. g[S] = SumFunctionOnSet(f, S)
  BY <1>1, SumPart
<1>4. D \ {x} = S
  OBVIOUS
<1> QED BY <1>1, <1>2, <1>3, <1>4

\* One more element adds its value.
LEMMA SumAdd ==
    ASSUME NEW S, IsFiniteSet(S), NEW x, x \notin S,
           NEW f, DOMAIN f = S \cup {x}, NatOn(f, S \cup {x}),
           NEW e, DOMAIN e = S, SameOn(f, e, S)
    PROVE  SumFunction(f) = f[x] + SumFunction(e)
<1> DEFINE D == S \cup {x}
<1>1. IsFiniteSet(D)
  BY FS_AddElement
<1>2. x \in D /\ S \in SUBSET D /\ \A y \in D : y = x \/ y \in S
  OBVIOUS
<1>3. NatOn(f, D)
  OBVIOUS
<1>4. SumFunctionOnSet(f, D) = f[x] + SumFunctionOnSet(f, S)
  <2> HIDE DEF D
  <2> QED BY <1>1, <1>2, <1>3, SumSplit
<1>5. SumFunctionOnSet(f, S) = SumFunctionOnSet(e, S)
  BY SumSame
<1> QED BY <1>4, <1>5 DEF SumFunction

\* The sum of a sequence of naturals is one.
LEMMA SumOfSeq ==
    ASSUME NEW q \in Seq(Nat)
    PROVE  SumFunction(q) \in Nat /\ (q = <<>> => SumFunction(q) = 0)
<1>1. DOMAIN q = 1 .. Len(q) /\ (\A i \in 1 .. Len(q) : q[i] \in Nat) /\ Len(q) \in Nat
  BY LenProperties
<1>2. IsFiniteSet(1 .. Len(q))
  BY <1>1, FS_Interval
<1>3. q = <<>> => 1 .. Len(q) = {}
  BY EmptySeq
<1> QED BY <1>1, <1>2, <1>3, SumNat DEF NatOn

\* The sum of a sequence, taken from its end.
LEMMA SumAppend ==
    ASSUME NEW q \in Seq(Nat), NEW n \in Nat
    PROVE  SumFunction(Append(q, n)) = SumFunction(q) + n
<1> DEFINE f == Append(q, n)
           S == 1 .. Len(q)
           x == Len(q) + 1
<1>1. DOMAIN q = S /\ (\A i \in S : q[i] \in Nat) /\ Len(q) \in Nat
  BY LenProperties
<1>2. /\ f \in Seq(Nat) /\ Len(f) = x
      /\ \A i \in S : f[i] = q[i]
      /\ f[x] = n
  BY AppendProperties
<1>3. IsFiniteSet(S)
  BY <1>1, FS_Interval
<1>4. DOMAIN f = 1 .. Len(f) /\ \A i \in 1 .. Len(f) : f[i] \in Nat
  BY <1>2, LenProperties
<1>5. 1 .. x = S \cup {x} /\ x \notin S
  BY <1>1
<1>6. DOMAIN f = S \cup {x} /\ NatOn(f, S \cup {x}) /\ SameOn(f, q, S)
  BY <1>2, <1>4, <1>5 DEF NatOn, SameOn
<1> HIDE DEF f, S, x
<1>7. SumFunction(f) = f[x] + SumFunction(q)
  BY <1>1, <1>2, <1>3, <1>5, <1>6, SumAdd
<1>8. SumFunction(q) \in Nat
  BY SumOfSeq
<1> QED BY <1>2, <1>7, <1>8 DEF f

\* And from its head.
LEMMA SumHead ==
    ASSUME NEW q \in Seq(Nat), q # <<>>
    PROVE  SumFunction(q) = Head(q) + SumFunction(Tail(q))
<1> DEFINE P == {n \in Nat : \A s \in Seq(Nat) :
                    Len(s) = n + 1 => SumFunction(s) = Head(s) + SumFunction(Tail(s))}
<1>1. 0 \in P
  <2> SUFFICES ASSUME NEW s \in Seq(Nat), Len(s) = 1
               PROVE  SumFunction(s) = Head(s) + SumFunction(Tail(s))
    OBVIOUS
  <2>1. s # <<>>
    <3>1. Len(<<>>) = 0
      BY EmptySeq
    <3>2. Len(s) # 0
      OBVIOUS
    <3> QED BY <3>1, <3>2, Zenon
  <2>2. PICK t \in Seq(Nat), x \in Nat : s = Append(t, x)
    BY <2>1, SequenceEmptyOrAppend
  <2>3. t = <<>>
    BY <2>2, AppendProperties, EmptySeq
  <2>4. Head(s) = x /\ Tail(s) = t
    BY <2>2, <2>3, HeadTailAppend
  <2>5. SumFunction(t) \in Nat /\ SumFunction(s) = SumFunction(t) + x
    BY <2>2, SumOfSeq, SumAppend
  <2>6. SumFunction(s) = x + SumFunction(t)
    BY <2>5
  <2> QED BY <2>4, <2>6, Zenon
<1>2. ASSUME NEW n \in Nat, n \in P PROVE n + 1 \in P
  <2> SUFFICES ASSUME NEW s \in Seq(Nat), Len(s) = n + 2
               PROVE  SumFunction(s) = Head(s) + SumFunction(Tail(s))
    OBVIOUS
  <2>0. s # <<>>
    OBVIOUS
  <2>1. PICK t \in Seq(Nat), x \in Nat : s = Append(t, x)
    BY <2>0, SequenceEmptyOrAppend
  <2>2. Len(t) = n + 1 /\ t # <<>>
    BY <2>1
  <2>3. Head(s) = Head(t) /\ Tail(s) = Append(Tail(t), x)
    BY <2>1, <2>2, HeadTailAppend
  <2>4. SumFunction(t) = Head(t) + SumFunction(Tail(t))
    BY <1>2, <2>2
  <2>5. Head(t) \in Nat /\ Tail(t) \in Seq(Nat)
    BY <2>2, HeadTailProperties
  <2>6. SumFunction(s) = SumFunction(t) + x /\ SumFunction(Tail(s)) = SumFunction(Tail(t)) + x
    BY <2>1, <2>3, <2>5, SumAppend
  <2>7. SumFunction(Tail(t)) \in Nat
    BY <2>5, SumOfSeq
  <2> QED BY <2>3, <2>4, <2>5, <2>6, <2>7
<1>3. Nat \subseteq P
  <2> HIDE DEF P
  <2> QED BY <1>1, <1>2, NatInduct
<1>4. Len(q) \in Nat /\ Len(q) - 1 \in Nat
  BY EmptySeq
<1> QED BY <1>3, <1>4

-----------------------------------------------------------------------------
(* Work items *)

\* The first place of an item is one of its places.
LEMMA MinOf ==
    ASSUME NEW S \in SUBSET Nat, S # {}
    PROVE  Min(S) \in S /\ \A k \in S : Min(S) <= k
BY LeastNat DEF Min

\* The smaller of two numbers.
LEMMA MinOfTwo ==
    ASSUME NEW a \in Int, NEW b \in Int
    PROVE  /\ Min({a, b}) \in {a, b}
           /\ Min({a, b}) <= a /\ Min({a, b}) <= b
<1>1. \E x \in {a, b} : \A y \in {a, b} : x <= y
  <2>1. CASE a <= b
    BY <2>1
  <2>2. CASE ~(a <= b)
    BY <2>2
  <2> QED BY <2>1, <2>2
<1> QED BY <1>1 DEF Min

\* The places below x in S.
Below(S, x) == {y \in S : y < x}

\* Lowest, by the number of places below.
LEMMA LowestDef ==
    ASSUME NEW S, NEW k
    PROVE  Lowest(S, k) = {x \in S : Cardinality(Below(S, x)) < k}
BY DEF Lowest, Below

\* The places below one of a finite set are finitely many.
LEMMA BelowCard ==
    ASSUME NEW S \in SUBSET Nat, IsFiniteSet(S)
    PROVE  \A x \in S : Cardinality(Below(S, x)) \in Nat /\ Cardinality(Below(S, x)) <= Cardinality(S)
<1> SUFFICES ASSUME NEW x \in S
             PROVE  Cardinality(Below(S, x)) \in Nat /\ Cardinality(Below(S, x)) <= Cardinality(S)
  OBVIOUS
<1> DEFINE b == Below(S, x)
<1>1. b \in SUBSET S
  BY DEF Below
<1> HIDE DEF b
<1>2. IsFiniteSet(b) /\ Cardinality(b) <= Cardinality(S)
  BY <1>1, FS_Subset
<1>3. Cardinality(b) \in Nat
  BY <1>2, FS_CardinalityType
<1> QED BY <1>2, <1>3 DEF b

\* Work items are finite sets of numbers.
LEMMA ItemsFinite ==
    /\ Lines \subseteq Nat /\ IsFiniteSet(Lines)
    /\ \A item \in SUBSET Lines : IsFiniteSet(item) /\ item \in SUBSET Nat /\ Cardinality(item) \in Nat
<1>1. Lines \subseteq Nat /\ IsFiniteSet(Lines)
  BY SchedulerAssumption
<1>2. ASSUME NEW item \in SUBSET Lines
      PROVE  IsFiniteSet(item) /\ item \in SUBSET Nat /\ Cardinality(item) \in Nat
  <2>1. IsFiniteSet(item)
    BY <1>1, FS_Subset
  <2>2. Cardinality(item) \in Nat
    BY <2>1, FS_CardinalityType
  <2> QED BY <1>1, <2>1, <2>2
<1> QED BY <1>1, <1>2

\* The part of an item a split asks about first.
Low(item) == Lowest(item, Cardinality(item) \div 2)
High(item) == item \ Low(item)

\* A split makes two smaller items of one, which share nothing and lose nothing.
LEMMA HalvesOf ==
    ASSUME NEW item \in WorkItems, Splittable(item)
    PROVE  /\ Halves(item) = <<Low(item), High(item)>>
           /\ Low(item) \in WorkItems
           /\ High(item) \in WorkItems
           /\ Low(item) \subseteq item /\ High(item) = item \ Low(item)
<1>1. Halves(item) = <<Low(item), High(item)>>
  BY DEF Halves, Low, High
<1>2. item \in SUBSET Lines /\ item # {} /\ IsFiniteSet(item) /\ item \in SUBSET Nat
      /\ Cardinality(item) \in Nat /\ Cardinality(item) > 1
  <2>1. item \in SUBSET Lines /\ item # {}
    BY DEF WorkItems
  <2>2. Cardinality(item) > 1
    BY DEF Splittable
  <2> QED BY <2>1, <2>2, ItemsFinite
<1> DEFINE k == Cardinality(item) \div 2
<1>3. k \in Nat /\ k >= 1 /\ k <= Cardinality(item) - 1
  <2> DEFINE n == Cardinality(item)
  <2>1. n \in Nat /\ n > 1
    BY <1>2
  <2> HIDE DEF n
  <2>2. n \div 2 \in Nat /\ n \div 2 >= 1 /\ n \div 2 <= n - 1
    BY <2>1
  <2> QED BY <2>2 DEF n
<1> HIDE DEF k
<1>4. Low(item) = {x \in item : Cardinality(Below(item, x)) < k}
  BY LowestDef DEF Low, k
<1>5. Min(item) \in Low(item)
  <2>1. Min(item) \in item /\ \A y \in item : Min(item) <= y
    BY <1>2, MinOf
  <2>2. Below(item, Min(item)) = {}
    <3> DEFINE x == Min(item)
    <3>1. x \in Nat /\ \A y \in item : y \in Nat /\ x <= y
      BY <1>2, <2>1
    <3> HIDE DEF x
    <3>2. \A y \in item : ~(y < x)
      BY <3>1
    <3> QED BY <3>2 DEF Below, x
  <2>3. Cardinality(Below(item, Min(item))) = 0
    BY <2>2, FS_EmptySet
  <2> QED BY <1>3, <1>4, <2>1, <2>3
<1>6. \E x \in item : x \notin Low(item)
  <2>1. PICK x \in item : \A y \in item : y <= x
    BY <1>2, GreatestNat
  <2>2. Below(item, x) = item \ {x}
    <3>1. x \in Nat /\ \A y \in item : y \in Nat /\ y <= x
      BY <1>2, <2>1
    <3>2. \A y \in item : y < x <=> y # x
      BY <3>1
    <3> QED BY <3>2 DEF Below
  <2>3. Cardinality(Below(item, x)) = Cardinality(item) - 1
    BY <1>2, <2>2, CardRemove
  <2> QED BY <1>2, <1>3, <1>4, <2>3
<1>7. Low(item) \subseteq item
  BY <1>4
<1> QED BY <1>1, <1>2, <1>5, <1>6, <1>7 DEF WorkItems, High

\* The parts of an item that has been cut.
LEMMA PartsOf ==
    ASSUME NEW item \in WorkItems, Splittable(item)
    PROVE  /\ ToSet(Halves(item)) = {Low(item), High(item)}
           /\ Low(item) # High(item)
<1>1. /\ Halves(item) = <<Low(item), High(item)>>
      /\ Low(item) \in WorkItems /\ Low(item) \subseteq item
  BY HalvesOf
<1>2. Low(item) # {}
  BY <1>1 DEF WorkItems
<1>3. Low(item) # High(item)
  BY <1>1, <1>2 DEF High
<1>4. ToSet(<<Low(item), High(item)>>) = {Low(item), High(item)}
  BY DEF ToSet
<1> QED BY <1>1, <1>3, <1>4

\* Quotient and remainder.
LEMMA DivFacts ==
    ASSUME NEW t \in Nat, NEW n \in Nat \ {0}
    PROVE  /\ t \div n \in Nat /\ t \div n <= t
           /\ (t \div n) * n <= t /\ t < (t \div n + 1) * n
<1> DEFINE q == t \div n
           r == t % n
<1>1. q \in Nat /\ r \in 0 .. n - 1 /\ t = n * q + r
  OBVIOUS
<1> HIDE DEF q, r
<1>2. q * n = n * q /\ (q + 1) * n = n * q + n /\ q * n \in Nat
  BY <1>1
<1>3. q <= q * n
  BY <1>1
<1>4. q \in Nat /\ q <= t /\ q * n <= t /\ t < (q + 1) * n
  BY <1>1, <1>2, <1>3
<1> QED BY <1>4 DEF q

\* The end of one batch is not after the start of a later one.
LEMMA MulLess ==
    ASSUME NEW a \in Nat, NEW b \in Nat, NEW n \in Nat \ {0}, a < b
    PROVE  (a + 1) * n <= b * n
OBVIOUS

\* The batches of the candidates share nothing and lose nothing.
LEMMA BatchesOf ==
    ASSUME NEW findings \in SUBSET Lines
    PROVE  /\ Batches(findings) \in SUBSET WorkItems
           /\ UNION Batches(findings) = findings
           /\ \A a, b \in Batches(findings) : a # b => a \cap b = {}
<1> DEFINE B == BatchSize
           rank == [x \in findings |-> Cardinality(Below(findings, x))]
           cut(k) == {x \in findings : rank[x] < (k + 1) * B /\ ~(rank[x] < k * B)}
           N == Cardinality(findings)
<1>0. B \in Nat \ {0}
  BY SchedulerAssumption
<1>1. N \in Nat /\ \A x \in findings : rank[x] \in Nat /\ rank[x] <= N
  BY ItemsFinite, BelowCard
<1>2. Batches(findings) = {cut(k) : k \in 0 .. N} \ {{}}
  <2>1. \A k \in 0 .. N : Lowest(findings, (k + 1) * B) \ Lowest(findings, k * B) = cut(k)
    BY LowestDef
  <2> QED BY <2>1 DEF Batches
<1> HIDE DEF B, rank, N
<1>3. \A k \in 0 .. N : cut(k) \subseteq findings
  OBVIOUS
<1>4. ASSUME NEW x \in findings PROVE \E k \in 0 .. N : x \in cut(k)
  <2> DEFINE k == rank[x] \div B
  <2>1. k \in Nat /\ k <= rank[x] /\ k * B <= rank[x] /\ rank[x] < (k + 1) * B
    BY <1>0, <1>1, DivFacts
  <2> HIDE DEF k
  <2>2. k \in 0 .. N
    BY <1>1, <2>1
  <2>3. k * B \in Nat
    BY <1>0, <2>1
  <2>4. x \in cut(k)
    BY <1>1, <2>1, <2>3
  <2> QED BY <2>2, <2>4
<1>5. ASSUME NEW j \in 0 .. N, NEW k \in 0 .. N, NEW x \in cut(j), x \in cut(k), j < k PROVE FALSE
  <2>1. j \in Nat /\ k \in Nat
    BY <1>1
  <2>2. (j + 1) * B <= k * B
    BY <1>0, <1>5, <2>1, MulLess
  <2>3. (j + 1) * B \in Nat /\ k * B \in Nat
    BY <1>0, <2>1
  <2>4. x \in findings /\ rank[x] \in Nat
    BY <1>1
  <2> QED BY <1>5, <2>2, <2>3, <2>4
<1>6. ASSUME NEW j \in 0 .. N, NEW k \in 0 .. N, NEW x \in cut(j), x \in cut(k) PROVE j = k
  <2> HIDE DEF cut
  <2>1. j \in Nat /\ k \in Nat
    BY <1>1
  <2>2. ~(j < k) /\ ~(k < j)
    BY <1>5, <1>6
  <2> QED BY <2>1, <2>2
<1> HIDE DEF cut
<1>7. \A b \in Batches(findings) : b \subseteq findings /\ b # {}
  BY <1>2, <1>3
<1>8. \A x \in findings : \E b \in Batches(findings) : x \in b
  BY <1>2, <1>4
<1>9. ASSUME NEW a \in Batches(findings), NEW b \in Batches(findings), NEW x \in a, x \in b PROVE a = b
  BY <1>2, <1>6, <1>9
<1>10. Batches(findings) \in SUBSET WorkItems
  BY <1>7 DEF WorkItems
<1>11. UNION Batches(findings) = findings
  BY <1>7, <1>8
<1>12. \A a, b \in Batches(findings) : a # b => a \cap b = {}
  BY <1>9
<1> QED BY <1>10, <1>11, <1>12

\* The initial chunks are items that share nothing.
LEMMA ChunksOf ==
    /\ ToSet(Diff) \in SUBSET WorkItems
    /\ \A a, b \in ToSet(Diff) : a # b => a \cap b = {}
BY SchedulerAssumption DEF ToSet

-----------------------------------------------------------------------------
(* Queues *)

Apart(q) == \A i, j \in 1 .. Len(q) : i # j => q[i] # q[j]

Disjoint(items) == \A a, b \in items : a # b => a \cap b = {}

Rising(s, n) == \A i, j \in 1 .. n : i < j => Min(s[i]) < Min(s[j])

\* The first places of disjoint items differ.
LEMMA FirstPlaces ==
    ASSUME NEW items \in SUBSET WorkItems, Disjoint(items)
    PROVE  /\ \A a \in items : Min(a) \in Lines /\ Min(a) \in Nat
           /\ \A a, b \in items : a # b => Min(a) # Min(b)
<1>1. ASSUME NEW a \in items PROVE Min(a) \in a /\ Min(a) \in Lines /\ Min(a) \in Nat
  <2>1. a \in SUBSET Lines /\ a # {}
    BY DEF WorkItems
  <2>2. a \in SUBSET Nat
    BY <2>1, ItemsFinite
  <2> QED BY <2>1, <2>2, MinOf
<1> QED BY <1>1 DEF Disjoint

\* Disjoint items can be put in the order of their first places.
LEMMA CanOrder ==
    ASSUME NEW items \in SUBSET WorkItems, Disjoint(items), IsFiniteSet(items)
    PROVE  \E s \in [1 .. Cardinality(items) -> items] : Rising(s, Cardinality(items))
<1> DEFINE P == {n \in Nat : \A T \in SUBSET items :
                    Cardinality(T) = n => \E s \in [1 .. n -> T] : Rising(s, n)}
<1>0. \A T \in SUBSET items : IsFiniteSet(T) /\ Cardinality(T) \in Nat
  BY FS_Subset, FS_CardinalityType
<1>1. 0 \in P
  <2> SUFFICES ASSUME NEW T \in SUBSET items
               PROVE  \E s \in [1 .. 0 -> T] : Rising(s, 0)
    OBVIOUS
  <2>1. [i \in 1 .. 0 |-> i] \in [1 .. 0 -> T] /\ Rising([i \in 1 .. 0 |-> i], 0)
    BY DEF Rising
  <2> QED BY <2>1
<1>2. ASSUME NEW n \in Nat, n \in P PROVE n + 1 \in P
  <2> SUFFICES ASSUME NEW T \in SUBSET items, Cardinality(T) = n + 1
               PROVE  \E s \in [1 .. n + 1 -> T] : Rising(s, n + 1)
    OBVIOUS
  <2> DEFINE M == {Min(a) : a \in T}
  <2>1. T # {}
    BY <1>0, FS_EmptySet
  <2>2. M \in SUBSET Nat /\ M # {} /\ M \in SUBSET Lines
    BY <2>1, FirstPlaces
  <2> HIDE DEF M
  <2>3. IsFiniteSet(M)
    BY <2>2, FS_Subset, ItemsFinite
  <2>4. PICK m \in M : \A k \in M : k <= m
    BY <2>2, <2>3, GreatestNat
  <2>5. PICK a \in T : m = Min(a)
    BY DEF M
  <2>6. \A b \in T : b # a => Min(b) < Min(a)
    <3>1. \A b \in T : Min(b) \in Nat /\ Min(b) <= Min(a)
      BY <2>4, <2>5, FirstPlaces DEF M
    <3>2. \A b \in T : b # a => Min(b) # Min(a)
      BY FirstPlaces
    <3> QED BY <3>1, <3>2
  <2> DEFINE U == T \ {a}
  <2>7. Cardinality(U) = n
    BY <1>0, CardRemove
  <2>8. U \in SUBSET items
    OBVIOUS
  <2>9. \A b \in U : b \in T /\ b # a
    OBVIOUS
  <2> HIDE DEF U
  <2>10. PICK s \in [1 .. n -> U] : Rising(s, n)
    BY <1>2, <2>7, <2>8
  <2> DEFINE t == [i \in 1 .. n + 1 |-> IF i = n + 1 THEN a ELSE s[i]]
  <2>11. t \in [1 .. n + 1 -> T]
    BY <2>9, <2>10
  <2>12. ASSUME NEW i \in 1 .. n + 1, NEW j \in 1 .. n + 1, i < j
         PROVE  Min(t[i]) < Min(t[j])
    <3>1. i \in 1 .. n /\ t[i] = s[i] /\ s[i] \in U
      BY <2>12
    <3>2. CASE j = n + 1
      BY <2>6, <2>9, <3>1, <3>2
    <3>3. CASE j # n + 1
      <4>1. j \in 1 .. n /\ t[j] = s[j]
        BY <3>3
      <4> QED BY <2>10, <2>12, <3>1, <4>1 DEF Rising
    <3> QED BY <3>2, <3>3
  <2>13. Rising(t, n + 1)
    BY <2>12 DEF Rising
  <2> QED BY <2>11, <2>13
<1>3. Nat \subseteq P
  <2> HIDE DEF P
  <2> QED BY <1>1, <1>2, NatInduct
<1> QED BY <1>0, <1>3

\* InOrder makes a queue of the items in which each is once.
LEMMA Ordered ==
    ASSUME NEW items \in SUBSET WorkItems, Disjoint(items), IsFiniteSet(items)
    PROVE  /\ InOrder(items) \in Seq(WorkItems)
           /\ Apart(InOrder(items))
           /\ ToSet(InOrder(items)) = items
<1> DEFINE n == Cardinality(items)
           s == InOrder(items)
<1>0. n \in Nat
  BY FS_CardinalityType
<1>1. s \in [1 .. n -> items] /\ Rising(s, n)
  <2>1. \E q \in [1 .. n -> items] : \A i, j \in DOMAIN q : i < j => Min(q[i]) < Min(q[j])
    BY CanOrder DEF Rising
  <2>2. s \in [1 .. n -> items] /\ \A i, j \in DOMAIN s : i < j => Min(s[i]) < Min(s[j])
    BY <2>1 DEF InOrder
  <2> QED BY <2>2 DEF Rising
<1> HIDE DEF s
<1>2. \A i \in 1 .. n : Min(s[i]) \in Nat /\ s[i] \in items
  BY <1>1, FirstPlaces
<1>3. \A i, j \in 1 .. n : i # j => s[i] # s[j]
  <2> SUFFICES ASSUME NEW i \in 1 .. n, NEW j \in 1 .. n, i < j PROVE s[i] # s[j]
    BY <1>0
  <2> QED BY <1>1, <1>2 DEF Rising
<1>4. s \in Injection(1 .. n, items)
  BY <1>1, <1>3 DEF Injection, IsInjective
<1>5. IsFiniteSet(1 .. n) /\ Cardinality(1 .. n) = n
  BY <1>0, FS_Interval
<1>6. s \in Surjection(1 .. n, items)
  <2> DEFINE S == 1 .. n
  <2> HIDE DEF S
  <2>1. s \in Injection(S, items) /\ Cardinality(S) = Cardinality(items)
    BY <1>4, <1>5 DEF S
  <2>2. s \in Surjection(S, items)
    BY <2>1, FS_Injection
  <2> QED BY <2>2 DEF S
<1>7. s \in Seq(WorkItems) /\ Len(s) = n /\ DOMAIN s = 1 .. n
  BY <1>0, <1>1
<1>8. Apart(s)
  BY <1>3, <1>7 DEF Apart
<1>9. ToSet(s) = items
  BY <1>2, <1>6, <1>7 DEF ToSet, Surjection
<1> QED BY <1>7, <1>8, <1>9 DEF s

\* Taking the head of a queue.
LEMMA QueueTail ==
    ASSUME NEW S, NEW q \in Seq(S), q # <<>>, Apart(q)
    PROVE  /\ Head(q) \in ToSet(q) /\ Head(q) \in S
           /\ Tail(q) \in Seq(S) /\ Apart(Tail(q))
           /\ ToSet(Tail(q)) = ToSet(q) \ {Head(q)}
<1>0. /\ Head(q) \in S /\ Tail(q) \in Seq(S) /\ Len(Tail(q)) = Len(q) - 1
      /\ \A i \in 1 .. Len(Tail(q)) : Tail(q)[i] = q[i + 1]
  BY HeadTailProperties
<1>1. Len(q) \in Nat /\ Len(q) >= 1 /\ DOMAIN q = 1 .. Len(q) /\ Head(q) = q[1]
  BY EmptySeq
<1>2. DOMAIN Tail(q) = 1 .. Len(q) - 1
  BY <1>0, LenProperties
<1> DEFINE t == Tail(q)
<1> HIDE DEF t
<1>3. /\ t \in Seq(S) /\ Len(t) = Len(q) - 1 /\ DOMAIN t = 1 .. Len(q) - 1
      /\ \A i \in 1 .. Len(q) - 1 : t[i] = q[i + 1]
  BY <1>0, <1>2 DEF t
<1>4. Apart(t)
  <2> SUFFICES ASSUME NEW i \in 1 .. Len(t), NEW j \in 1 .. Len(t), i # j
               PROVE  t[i] # t[j]
    BY DEF Apart
  <2>1. i + 1 \in 1 .. Len(q) /\ j + 1 \in 1 .. Len(q) /\ i + 1 # j + 1
    BY <1>1, <1>3
  <2> QED BY <1>3, <2>1 DEF Apart
<1>5. \A x : x \in ToSet(t) <=> \E i \in 1 .. Len(q) - 1 : x = q[i + 1]
  BY <1>3 DEF ToSet
<1>6. \A x : x \in ToSet(q) <=> \E i \in 1 .. Len(q) : x = q[i]
  BY <1>1 DEF ToSet
<1>7. \A i \in 1 .. Len(q) : i # 1 => q[i] # q[1] /\ i - 1 \in 1 .. Len(q) - 1 /\ (i - 1) + 1 = i
  BY <1>1 DEF Apart
<1>8. \A i \in 1 .. Len(q) - 1 : i + 1 \in 1 .. Len(q) /\ q[i + 1] # q[1]
  BY <1>1 DEF Apart
<1>9. ToSet(t) = ToSet(q) \ {Head(q)}
  <2>1. ASSUME NEW x, x \in ToSet(t) PROVE x \in ToSet(q) /\ x # Head(q)
    BY <1>1, <1>5, <1>6, <1>8, <2>1
  <2>2. ASSUME NEW x, x \in ToSet(q), x # Head(q) PROVE x \in ToSet(t)
    <3>1. PICK i \in 1 .. Len(q) : x = q[i]
      BY <1>6, <2>2
    <3>2. i # 1
      BY <1>1, <2>2, <3>1
    <3>3. i - 1 \in 1 .. Len(q) - 1 /\ x = q[(i - 1) + 1]
      BY <1>7, <3>1, <3>2
    <3> QED BY <1>5, <3>3
  <2> QED BY <2>1, <2>2
<1> QED BY <1>0, <1>1, <1>4, <1>6, <1>9 DEF t

\* Adding an item at the end.
LEMMA QueueAppend ==
    ASSUME NEW S, NEW q \in Seq(S), NEW x \in S
    PROVE  /\ Append(q, x) \in Seq(S)
           /\ ToSet(Append(q, x)) = ToSet(q) \cup {x}
           /\ Apart(q) /\ x \notin ToSet(q) => Apart(Append(q, x))
<1> DEFINE t == Append(q, x)
<1>1. /\ t \in Seq(S) /\ Len(t) = Len(q) + 1
      /\ \A i \in 1 .. Len(q) : t[i] = q[i]
      /\ t[Len(q) + 1] = x
  BY AppendProperties
<1> HIDE DEF t
<1>2. Len(q) \in Nat /\ DOMAIN q = 1 .. Len(q) /\ DOMAIN t = 1 .. Len(q) + 1
  BY <1>1, LenProperties
<1>3. ToSet(t) = ToSet(q) \cup {x}
  BY <1>1, <1>2 DEF ToSet
<1>4. ASSUME Apart(q), x \notin ToSet(q) PROVE Apart(t)
  <2>1. \A i \in 1 .. Len(q) : q[i] # x
    BY <1>2, <1>4 DEF ToSet
  <2>2. \A i \in 1 .. Len(t) : i \in 1 .. Len(q) \/ i = Len(q) + 1
    BY <1>1, <1>2
  <2> QED BY <1>1, <1>2, <1>4, <2>1, <2>2 DEF Apart
<1> QED BY <1>1, <1>3, <1>4 DEF t

\* Replacing the head.
LEMMA QueueHead ==
    ASSUME NEW S, NEW t \in Seq(S), NEW x \in S
    PROVE  /\ <<x>> \o t \in Seq(S) /\ <<x>> \o t # <<>>
           /\ Head(<<x>> \o t) = x /\ Tail(<<x>> \o t) = t
           /\ ToSet(<<x>> \o t) = ToSet(t) \cup {x}
           /\ Apart(t) /\ x \notin ToSet(t) => Apart(<<x>> \o t)
<1> DEFINE q == <<x>> \o t
<1>0. <<x>> \in Seq(S) /\ Len(<<x>>) = 1 /\ <<x>>[1] = x
  OBVIOUS
<1>1. /\ q \in Seq(S) /\ Len(q) = 1 + Len(t)
      /\ \A i \in 1 .. 1 + Len(t) : q[i] = IF i <= 1 THEN x ELSE t[i - 1]
  BY <1>0, ConcatProperties
<1> HIDE DEF q
<1>2. Len(t) \in Nat /\ DOMAIN t = 1 .. Len(t) /\ DOMAIN q = 1 .. 1 + Len(t)
  BY <1>1, LenProperties
<1>3. q[1] = x /\ \A i \in 1 .. Len(t) : q[i + 1] = t[i]
  BY <1>1, <1>2
<1>4. q # <<>> /\ Head(q) = x
  BY <1>1, <1>2, <1>3
<1>5. Tail(q) = t
  <2>1. Tail(q) \in Seq(S) /\ Len(Tail(q)) = Len(t) /\ \A i \in 1 .. Len(t) : Tail(q)[i] = q[i + 1]
    BY <1>1, <1>2, <1>4, HeadTailProperties
  <2> QED BY <1>3, <2>1, SeqEqual
<1>6. ASSUME NEW i \in 1 .. Len(q), i # 1 PROVE i - 1 \in 1 .. Len(t) /\ q[i] = t[i - 1]
  <2>1. i \in Int /\ i > 1 /\ i <= 1 + Len(t)
    BY <1>1, <1>2, <1>6
  <2> QED BY <1>1, <1>2, <2>1
<1>7. ToSet(q) = ToSet(t) \cup {x}
  <2>1. \A i \in 1 .. Len(t) : i + 1 \in 1 .. Len(q)
    BY <1>1, <1>2
  <2>2. 1 \in 1 .. Len(q)
    BY <1>1, <1>2
  <2>3. \A y : y \in ToSet(q) <=> \E i \in 1 .. Len(q) : y = q[i]
    BY <1>1, <1>2 DEF ToSet
  <2>4. \A y : y \in ToSet(t) <=> \E i \in 1 .. Len(t) : y = t[i]
    BY <1>2 DEF ToSet
  <2>5. ASSUME NEW y, y \in ToSet(q) PROVE y \in ToSet(t) \cup {x}
    BY <1>3, <1>6, <2>3, <2>4, <2>5
  <2>6. ASSUME NEW y, y \in ToSet(t) \cup {x} PROVE y \in ToSet(q)
    <3>1. CASE y = x
      BY <1>3, <2>2, <2>3, <3>1
    <3>2. CASE y \in ToSet(t)
      BY <1>3, <2>1, <2>3, <2>4, <3>2
    <3> QED BY <2>6, <3>1, <3>2
  <2> QED BY <2>5, <2>6
<1>8. ASSUME Apart(t), x \notin ToSet(t) PROVE Apart(q)
  <2>1. \A i \in 1 .. Len(t) : t[i] # x
    BY <1>2, <1>8 DEF ToSet
  <2> SUFFICES ASSUME NEW i \in 1 .. Len(q), NEW j \in 1 .. Len(q), i # j PROVE q[i] # q[j]
    BY DEF Apart
  <2>2. CASE i = 1
    <3>1. j - 1 \in 1 .. Len(t) /\ q[j] = t[j - 1]
      BY <1>6, <2>2
    <3> QED BY <1>3, <2>1, <2>2, <3>1
  <2>3. CASE j = 1
    <3>1. i - 1 \in 1 .. Len(t) /\ q[i] = t[i - 1]
      BY <1>6, <2>3
    <3> QED BY <1>3, <2>1, <2>3, <3>1
  <2>4. CASE i # 1 /\ j # 1
    <3>1. i - 1 \in 1 .. Len(t) /\ q[i] = t[i - 1] /\ j - 1 \in 1 .. Len(t) /\ q[j] = t[j - 1]
      BY <1>6, <2>4
    <3>2. i - 1 # j - 1
      OBVIOUS
    <3> QED BY <1>8, <3>1, <3>2 DEF Apart
  <2> QED BY <2>2, <2>3, <2>4
<1> QED BY <1>1, <1>4, <1>5, <1>7, <1>8 DEF q

\* Two items behind a queue.
LEMMA QueuePair ==
    ASSUME NEW S, NEW q \in Seq(S), NEW a \in S, NEW b \in S
    PROVE  /\ q \o <<a, b>> \in Seq(S)
           /\ ToSet(q \o <<a, b>>) = ToSet(q) \cup {a, b}
           /\ Apart(q) /\ a # b /\ a \notin ToSet(q) /\ b \notin ToSet(q) =>
                Apart(q \o <<a, b>>)
<1> DEFINE t == Append(q, a)
           u == Append(t, b)
           v == q \o <<a, b>>
<1>1. /\ t \in Seq(S) /\ Len(t) = Len(q) + 1
      /\ \A i \in 1 .. Len(q) : t[i] = q[i]
      /\ t[Len(q) + 1] = a
  BY AppendProperties
<1>2. /\ u \in Seq(S) /\ Len(u) = Len(t) + 1
      /\ \A i \in 1 .. Len(t) : u[i] = t[i]
      /\ u[Len(t) + 1] = b
  <2> HIDE DEF t
  <2> QED BY <1>1, AppendProperties
<1>3. /\ v \in Seq(S) /\ Len(v) = Len(q) + 2
      /\ \A i \in 1 .. Len(q) + 2 : v[i] = IF i <= Len(q) THEN q[i] ELSE <<a, b>>[i - Len(q)]
  <2>1. <<a, b>> \in Seq(S) /\ Len(<<a, b>>) = 2
    OBVIOUS
  <2> QED BY <2>1, ConcatProperties
<1>4. Len(q) \in Nat
  BY LenProperties
<1>5. u = v
  <2> HIDE DEF t, u, v
  <2>1. Len(u) = Len(v)
    BY <1>1, <1>2, <1>3, <1>4
  <2>2. ASSUME NEW i \in 1 .. Len(u) PROVE u[i] = v[i]
    <3>0. i \in 1 .. Len(q) + 2
      BY <1>3, <2>1
    <3>1. CASE i <= Len(q)
      BY <1>1, <1>2, <1>3, <1>4, <3>0, <3>1
    <3>2. CASE i = Len(q) + 1
      <4>1. i - Len(q) = 1 /\ ~(i <= Len(q))
        BY <1>4, <3>2
      <4> QED BY <1>1, <1>2, <1>3, <1>4, <3>0, <3>2, <4>1
    <3>3. CASE i = Len(q) + 2
      <4>1. i - Len(q) = 2 /\ ~(i <= Len(q)) /\ i = Len(t) + 1
        BY <1>1, <1>4, <3>3
      <4> QED BY <1>1, <1>2, <1>3, <1>4, <3>0, <3>3, <4>1
    <3> QED BY <1>4, <3>0, <3>1, <3>2, <3>3
  <2> QED BY <1>2, <1>3, <2>1, <2>2, SeqEqual
<1>6. /\ ToSet(t) = ToSet(q) \cup {a}
      /\ Apart(q) /\ a \notin ToSet(q) => Apart(t)
  BY QueueAppend
<1>7. /\ ToSet(u) = ToSet(t) \cup {b}
      /\ Apart(t) /\ b \notin ToSet(t) => Apart(u)
  <2> HIDE DEF t
  <2> QED BY <1>1, QueueAppend
<1> HIDE DEF t, u
<1> QED BY <1>3, <1>5, <1>6, <1>7

-----------------------------------------------------------------------------
(* What the sessions of a queue are about, hold and have used *)

Maps(f, S, T) == f \in [S -> T]
Mapped(f, q) == [i \in DOMAIN q |-> f[q[i]]]

\* A function is applied to each entry of a queue.
LEMMA MapSeq ==
    ASSUME NEW S, NEW T, NEW f, Maps(f, S, T), NEW q \in Seq(S)
    PROVE  /\ Mapped(f, q) \in Seq(T) /\ Len(Mapped(f, q)) = Len(q)
           /\ \A i \in 1 .. Len(q) : Mapped(f, q)[i] = f[q[i]]
           /\ DOMAIN Mapped(f, q) = 1 .. Len(q)
           /\ q = <<>> => Mapped(f, q) = <<>>
           /\ q # <<>> => Mapped(f, q) # <<>>
<1>1. Len(q) \in Nat /\ DOMAIN q = 1 .. Len(q) /\ \A i \in 1 .. Len(q) : q[i] \in S
  BY LenProperties
<1>2. Mapped(f, q) = [i \in 1 .. Len(q) |-> f[q[i]]]
  BY <1>1 DEF Mapped
<1>3. Mapped(f, q) \in [1 .. Len(q) -> T]
  BY <1>1, <1>2 DEF Maps
<1>4. Mapped(f, q) \in Seq(T) /\ Len(Mapped(f, q)) = Len(q)
  BY <1>1, <1>3
<1>5. q = <<>> <=> Len(q) = 0
  BY EmptySeq
<1>6. Mapped(f, q) = <<>> <=> Len(Mapped(f, q)) = 0
  <2> DEFINE m == Mapped(f, q)
  <2> HIDE DEF m
  <2>1. m \in Seq(T)
    BY <1>4 DEF m
  <2>2. m = <<>> <=> Len(m) = 0
    BY <2>1, EmptySeq
  <2> QED BY <2>2 DEF m
<1> QED BY <1>2, <1>3, <1>4, <1>5, <1>6

\* Appending commutes with it.
LEMMA MapAppend ==
    ASSUME NEW S, NEW T, NEW f, Maps(f, S, T), NEW q \in Seq(S), NEW x \in S
    PROVE  Mapped(f, Append(q, x)) = Append(Mapped(f, q), f[x])
<1> DEFINE p == Append(q, x)
           m == Mapped(f, q)
           y == f[x]
           a == Append(m, y)
           b == Mapped(f, p)
<1>1. /\ p \in Seq(S) /\ Len(p) = Len(q) + 1 /\ Len(q) \in Nat
      /\ \A i \in 1 .. Len(q) : p[i] = q[i]
      /\ p[Len(q) + 1] = x
  BY AppendProperties, LenProperties
<1>2. m \in Seq(T) /\ Len(m) = Len(q) /\ \A i \in 1 .. Len(q) : m[i] = f[q[i]]
  BY MapSeq
<1>3. y \in T
  BY DEF Maps
<1>4. b \in Seq(T) /\ Len(b) = Len(p) /\ \A i \in 1 .. Len(p) : b[i] = f[p[i]]
  <2> HIDE DEF p
  <2> QED BY <1>1, MapSeq
<1>5. /\ a \in Seq(T) /\ Len(a) = Len(m) + 1
      /\ \A i \in 1 .. Len(m) : a[i] = m[i]
      /\ a[Len(m) + 1] = y
  <2> HIDE DEF m, y
  <2> QED BY <1>2, <1>3, AppendProperties
<1>6. b = a
  <2> HIDE DEF a, b, m, p
  <2>1. \A i \in 1 .. Len(a) : i \in 1 .. Len(q) \/ i = Len(q) + 1
    BY <1>1, <1>2, <1>5
  <2>2. Len(b) = Len(a)
    BY <1>1, <1>2, <1>4, <1>5
  <2>3. \A i \in 1 .. Len(b) : b[i] = a[i]
    BY <1>1, <1>2, <1>4, <1>5, <2>1, <2>2
  <2> QED BY <1>4, <1>5, <2>2, <2>3, SeqEqual
<1> QED BY <1>6

\* So does dropping the head.
LEMMA MapTail ==
    ASSUME NEW S, NEW T, NEW f, Maps(f, S, T), NEW q \in Seq(S), q # <<>>
    PROVE  /\ Mapped(f, Tail(q)) = Tail(Mapped(f, q))
           /\ Head(Mapped(f, q)) = f[Head(q)]
<1> DEFINE p == Tail(q)
           m == Mapped(f, q)
           a == Tail(m)
           b == Mapped(f, p)
<1>1. /\ p \in Seq(S) /\ Len(p) = Len(q) - 1 /\ Len(q) \in Nat /\ Len(q) >= 1
      /\ \A i \in 1 .. Len(q) - 1 : p[i] = q[i + 1]
      /\ Head(q) = q[1]
  BY HeadTailProperties, EmptySeq
<1>2. m \in Seq(T) /\ Len(m) = Len(q) /\ (\A i \in 1 .. Len(q) : m[i] = f[q[i]]) /\ m # <<>>
  BY MapSeq
<1>3. b \in Seq(T) /\ Len(b) = Len(p) /\ \A i \in 1 .. Len(p) : b[i] = f[p[i]]
  <2> HIDE DEF p
  <2> QED BY <1>1, MapSeq
<1>4. /\ a \in Seq(T) /\ Len(a) = Len(m) - 1
      /\ \A i \in 1 .. Len(m) - 1 : a[i] = m[i + 1]
      /\ Head(m) = m[1]
  <2> HIDE DEF m
  <2> QED BY <1>2, HeadTailProperties
<1>5. b = a
  <2> HIDE DEF a, b, m, p
  <2>1. \A i \in 1 .. Len(q) - 1 : i + 1 \in 1 .. Len(q)
    BY <1>1
  <2>2. Len(b) = Len(a) /\ Len(b) = Len(q) - 1
    BY <1>1, <1>2, <1>3, <1>4
  <2>3. ASSUME NEW i \in 1 .. Len(b) PROVE b[i] = a[i]
    <3>1. i \in 1 .. Len(q) - 1 /\ i + 1 \in 1 .. Len(q)
      BY <2>1, <2>2
    <3>2. b[i] = f[q[i + 1]] /\ a[i] = m[i + 1] /\ m[i + 1] = f[q[i + 1]]
      BY <1>1, <1>2, <1>3, <1>4, <3>1
    <3> QED BY <3>2
  <2> QED BY <1>3, <1>4, <2>2, <2>3, SeqEqual
<1>6. Head(m) = f[Head(q)]
  <2> HIDE DEF m
  <2> QED BY <1>1, <1>2, <1>4
<1> QED BY <1>5, <1>6

\* What a queue sums up to, when a session leaves it, joins it or leads it.
Total(f, q) == SumFunction(Mapped(f, q))

\* The total of a queue is a number, and 0 for the empty one.
LEMMA TotalNat ==
    ASSUME NEW S, NEW f, Maps(f, S, Nat), NEW q \in Seq(S)
    PROVE  Total(f, q) \in Nat /\ (q = <<>> => Total(f, q) = 0)
<1> DEFINE m == Mapped(f, q)
<1>1. m \in Seq(Nat) /\ (q = <<>> => m = <<>>)
  BY MapSeq
<1> HIDE DEF m
<1>2. SumFunction(m) \in Nat /\ (m = <<>> => SumFunction(m) = 0)
  BY <1>1, SumOfSeq
<1> QED BY <1>1, <1>2 DEF Total, m

\* The total of a queue that grows.
LEMMA TotalAppend ==
    ASSUME NEW S, NEW f, Maps(f, S, Nat), NEW q \in Seq(S), NEW x \in S
    PROVE  Total(f, Append(q, x)) = Total(f, q) + f[x]
<1> DEFINE m == Mapped(f, q)
           y == f[x]
<1>0. y \in Nat
  BY DEF Maps
<1>1. m \in Seq(Nat) /\ Mapped(f, Append(q, x)) = Append(m, y)
  BY MapSeq, MapAppend
<1> HIDE DEF m, y
<1>2. SumFunction(Append(m, y)) = SumFunction(m) + y
  BY <1>0, <1>1, SumAppend
<1> QED BY <1>1, <1>2 DEF Total, m, y

\* The total of a queue is that of its head and its tail.
LEMMA TotalTail ==
    ASSUME NEW S, NEW f, Maps(f, S, Nat), NEW q \in Seq(S), q # <<>>
    PROVE  /\ Total(f, q) = f[Head(q)] + Total(f, Tail(q))
           /\ f[Head(q)] \in Nat /\ Total(f, Tail(q)) \in Nat
<1> DEFINE m == Mapped(f, q)
<1>1. m \in Seq(Nat) /\ m # <<>> /\ Mapped(f, Tail(q)) = Tail(m) /\ Head(m) = f[Head(q)]
  BY MapSeq, MapTail
<1>2. Head(q) \in S /\ Tail(q) \in Seq(S)
  BY HeadTailProperties
<1> HIDE DEF m
<1>3. SumFunction(m) = Head(m) + SumFunction(Tail(m))
  BY <1>1, SumHead
<1>4. Total(f, Tail(q)) \in Nat
  BY <1>2, TotalNat
<1>5. f[Head(q)] \in Nat
  BY <1>2 DEF Maps
<1>6. SumFunction(m) = Total(f, q) /\ SumFunction(Tail(m)) = Total(f, Tail(q))
  BY <1>1 DEF Total, m
<1> QED BY <1>1, <1>3, <1>4, <1>5, <1>6

-----------------------------------------------------------------------------
(* The inductive invariant of the stored row *)

Phases == {"candidate", "verification"}

\* The items left of the roots when those of cut have been cut.
LeavesOf(roots, cut) == (roots \cup UNION {ToSet(Halves(i)) : i \in cut}) \ cut

\* Cutting never loses or doubles a place, what is done is not cut, and what has
\* been cut comes back in no item.
ForestOf(roots, cut, done) ==
    /\ LeavesOf(roots, cut) \subseteq WorkItems
    /\ Disjoint(LeavesOf(roots, cut))
    /\ UNION LeavesOf(roots, cut) = UNION roots
    /\ done \subseteq LeavesOf(roots, cut)
    /\ \A x \in cut, l \in LeavesOf(roots, cut) : ~(x \subseteq l)

Roots(row, phase) == IF phase = "candidate" THEN ToSet(Diff) ELSE Batches(row.frozen)
SplitItems(row, phase) == {c.item : c \in {d \in InPhase(row, phase) : d.status = "SPLIT"}}
DoneItems(row, phase) == {c.item : c \in Finished(row, phase)}
Leaves(row, phase) == LeavesOf(Roots(row, phase), SplitItems(row, phase))
Forest(row, phase) ==
    ForestOf(Roots(row, phase), SplitItems(row, phase), DoneItems(row, phase))

\* Each item is decided once, no session was cut off, and verification is
\* decided about only after exploration.
Checked(row) ==
    /\ IsFiniteSet(row.checkpoints)
    /\ \A c, d \in row.checkpoints : c.phase = d.phase /\ c.item = d.item => c = d
    /\ \A c \in row.checkpoints : c.status # "STOPPED"
    /\ \A c \in row.checkpoints :
        c.phase = "verification" => row.phase \in {"verification", "complete"}

CandidateCalls == MaxCalls - CallReserve
CandidateTools == MaxTools - ToolReserve

Within(u, calls, tools) == u.calls <= calls /\ u.tools <= tools

\* What the stored charges leave of the two budgets.
Affordable(row) ==
    /\ Within(row.charged, CandidateCalls, CandidateTools)
    /\ row.phase \in {"none", "candidate"} =>
        row.charged = NoUsage /\ Within(Charged(row, "candidate"), CandidateCalls, CandidateTools)
    /\ row.phase = "verification" =>
        Within(Add(row.charged, Charged(row, "verification")), MaxCalls, MaxTools)

Unlimited(row, phase) ==
    \A c \in InPhase(row, phase) : c.status # "SPLIT" => ~c.limited

\* The frozen candidates, coverage and limitations are those of the exploration.
FrozenTrue(row) ==
    row.phase \in {"verification", "complete"} =>
        /\ Prior \subseteq row.frozen
        /\ FoundIn(Finished(row, "candidate")) \subseteq row.frozen \/ row.limited
        /\ ~row.limited =>
            /\ row.frozen = FoundIn(Finished(row, "candidate")) \cup Prior
            /\ Unlimited(row, "candidate")
        /\ row.covered => UNION DoneItems(row, "candidate") = UNION ToSet(Diff)

ResultTrue(row) ==
    row.phase = "complete" /\ row.result.complete =>
        /\ row.covered /\ ~row.limited
        /\ UNION DoneItems(row, "verification") = row.frozen
        /\ Unlimited(row, "verification")
        /\ FoundIn(Finished(row, "verification")) \cap Prior \subseteq row.result.published

RowInv(row) ==
    /\ row \in Progress
    /\ Checked(row)
    /\ Forest(row, "candidate") /\ Forest(row, "verification")
    /\ Affordable(row)
    /\ FrozenTrue(row)
    /\ ResultTrue(row)

-----------------------------------------------------------------------------
(* Lemmas about the row *)

\* Before anything is cut the roots are the leaves.
LEMMA NoCuts ==
    ASSUME NEW roots \in SUBSET WorkItems, Disjoint(roots)
    PROVE  LeavesOf(roots, {}) = roots /\ ForestOf(roots, {}, {})
BY DEF LeavesOf, ForestOf

\* What a leaf is.
LEMMA InLeaves ==
    ASSUME NEW roots, NEW cut, NEW y
    PROVE  y \in LeavesOf(roots, cut) <=>
            (y \in roots \/ \E i \in cut : y \in ToSet(Halves(i))) /\ y \notin cut
BY DEF LeavesOf

\* Cutting a leaf that is not done puts its parts in its place.
LEMMA CutLeaf ==
    ASSUME NEW roots, NEW cut, NEW done, ForestOf(roots, cut, done),
           NEW item \in LeavesOf(roots, cut), item \notin done, Splittable(item),
           NEW more, more = cut \cup {item}
    PROVE  /\ LeavesOf(roots, more) =
                (LeavesOf(roots, cut) \ {item}) \cup {Low(item), High(item)}
           /\ Low(item) \notin LeavesOf(roots, cut)
           /\ High(item) \notin LeavesOf(roots, cut)
           /\ ForestOf(roots, more, done)
<1> DEFINE L == LeavesOf(roots, cut)
           M == LeavesOf(roots, more)
           a == Low(item)
           b == High(item)
<1>1. /\ L \subseteq WorkItems /\ Disjoint(L) /\ UNION L = UNION roots /\ done \subseteq L
      /\ \A x \in cut, l \in L : ~(x \subseteq l)
  BY DEF ForestOf
<1>2. item \in L /\ item \in WorkItems
  BY <1>1
<1>3. a \in WorkItems /\ b \in WorkItems /\ a \subseteq item /\ a # b /\ b = item \ a
      /\ ToSet(Halves(item)) = {a, b}
  BY <1>2, HalvesOf, PartsOf
<1>4. M = (L \ {item}) \cup ({a, b} \ (cut \cup {item}))
  <2> HIDE DEF a, b
  <2> DEFINE part(y, S) == y \in roots \/ \E i \in S : y \in ToSet(Halves(i))
  <2>1. \A y : y \in L <=> part(y, cut) /\ y \notin cut
    BY InLeaves
  <2>2. \A y : y \in M <=> part(y, cut \cup {item}) /\ y \notin cut \cup {item}
    BY InLeaves
  <2>3. \A y : part(y, cut \cup {item}) <=> part(y, cut) \/ y \in {a, b}
    BY <1>3
  <2> HIDE DEF part, L, M
  <2>4. \A y : y \in M <=> y \in (L \ {item}) \cup ({a, b} \ (cut \cup {item}))
    BY <2>1, <2>2, <2>3
  <2> QED BY <2>4
<1>5. a # {} /\ b # {} /\ item # {} /\ b \subseteq item /\ a \cup b = item /\ a \cap b = {}
      /\ a # item /\ b # item
  BY <1>2, <1>3 DEF WorkItems
<1> HIDE DEF L, M, a, b
<1>6. a \notin cut /\ b \notin cut
  <2>1. \A x \in cut : ~(x \subseteq item)
    BY <1>1, <1>2
  <2> QED BY <1>3, <1>5, <2>1
<1>7. M = (L \ {item}) \cup {a, b}
  BY <1>4, <1>5, <1>6
<1>8. \A l \in L : l # item => l \cap item = {}
  BY <1>1, <1>2 DEF Disjoint
<1>9. a \notin L /\ b \notin L
  BY <1>3, <1>5, <1>8
<1>10. Disjoint(M)
  <2> SUFFICES ASSUME NEW x \in M, NEW y \in M, x # y PROVE x \cap y = {}
    BY DEF Disjoint
  <2>1. CASE x \in L \ {item} /\ y \in L \ {item}
    BY <1>1, <2>1 DEF Disjoint
  <2>2. CASE x \in L \ {item} /\ y \in {a, b}
    BY <1>3, <1>5, <1>8, <2>2
  <2>3. CASE x \in {a, b} /\ y \in L \ {item}
    BY <1>3, <1>5, <1>8, <2>3
  <2>4. CASE x \in {a, b} /\ y \in {a, b}
    BY <1>5, <2>4
  <2> QED BY <1>7, <2>1, <2>2, <2>3, <2>4
<1>11. UNION M = UNION L
  <2>1. ASSUME NEW x \in UNION M PROVE x \in UNION L
    BY <1>2, <1>3, <1>5, <1>7
  <2>2. ASSUME NEW x \in UNION L PROVE x \in UNION M
    <3>1. PICK l \in L : x \in l
      OBVIOUS
    <3>2. CASE l = item
      BY <1>5, <1>7, <3>1, <3>2
    <3>3. CASE l # item
      BY <1>7, <3>1, <3>3
    <3> QED BY <3>2, <3>3
  <2> QED BY <2>1, <2>2
<1>12. done \subseteq M
  BY <1>1, <1>7
<1>13. ASSUME NEW x \in cut \cup {item}, NEW l \in M PROVE ~(x \subseteq l)
  <2>1. CASE x \in cut
    <3>1. ~(x \subseteq item)
      BY <1>1, <1>2, <2>1
    <3> QED BY <1>1, <1>3, <1>5, <1>7, <2>1, <3>1
  <2>2. CASE x = item
    <3>1. CASE l \in L /\ l # item
      BY <1>5, <1>8, <2>2, <3>1
    <3>2. CASE l \in {a, b}
      BY <1>3, <1>5, <2>2, <3>2
    <3> QED BY <1>7, <3>1, <3>2
  <2> QED BY <2>1, <2>2
<1>14. M \subseteq WorkItems
  BY <1>1, <1>3, <1>7
<1>15. ForestOf(roots, more, done)
  BY <1>1, <1>10, <1>11, <1>12, <1>13, <1>14 DEF ForestOf, M
<1> QED BY <1>7, <1>9, <1>15 DEF L, M, a, b

\* Finishing a leaf keeps the forest.
LEMMA FinishLeaf ==
    ASSUME NEW roots, NEW cut, NEW done, ForestOf(roots, cut, done),
           NEW item \in LeavesOf(roots, cut)
    PROVE  ForestOf(roots, cut, done \cup {item})
BY DEF ForestOf

\* The roots of both phases are disjoint items.
LEMMA RootsOf ==
    ASSUME NEW row, row.frozen \in SUBSET Lines, NEW phase
    PROVE  Roots(row, phase) \in SUBSET WorkItems /\ Disjoint(Roots(row, phase))
<1>1. CASE phase = "candidate"
  BY <1>1, ChunksOf DEF Roots, Disjoint
<1>2. CASE phase # "candidate"
  <2>1. Roots(row, phase) = Batches(row.frozen)
    BY <1>2 DEF Roots
  <2>2. Batches(row.frozen) \in SUBSET WorkItems /\ Disjoint(Batches(row.frozen))
    BY BatchesOf DEF Disjoint
  <2> QED BY <2>1, <2>2
<1> QED BY <1>1, <1>2

\* What is undecided are the leaves that are not done.
LEMMA UndecidedIs ==
    ASSUME NEW row \in Progress, Checked(row), row.phase \in Phases
    PROVE  /\ Undecided(row) = Leaves(row, row.phase) \ DoneItems(row, row.phase)
           /\ InitialWork(row) = Roots(row, row.phase)
           /\ {c.item : c \in InPhase(row, row.phase)} =
                SplitItems(row, row.phase) \cup DoneItems(row, row.phase)
<1> DEFINE p == row.phase
           C == InPhase(row, p)
<1>1. \A c \in C : c.status \in {"DONE", "SPLIT"}
  BY DEF Checked, InPhase, Progress, WorkCheckpoint
<1>2. {c.item : c \in C} = SplitItems(row, p) \cup DoneItems(row, p)
  <2> HIDE DEF p, C
  <2> QED BY <1>1 DEF SplitItems, DoneItems, Finished, C
<1>3. InitialWork(row) = Roots(row, p)
  BY DEF InitialWork, Roots, Phases
<1>4. Undecided(row) = (InitialWork(row) \cup UNION {ToSet(Halves(item)) : item \in SplitItems(row, p)})
                            \ {c.item : c \in C}
  BY DEF Undecided, SplitItems
<1> HIDE DEF p, C
<1>5. Undecided(row) = LeavesOf(Roots(row, p), SplitItems(row, p)) \ DoneItems(row, p)
  BY <1>2, <1>3, <1>4 DEF LeavesOf
<1> QED BY <1>2, <1>3, <1>5 DEF Leaves, p, C

\* Undecided items can be queued.
LEMMA UndecidedItems ==
    ASSUME NEW row \in Progress, Checked(row), row.phase \in Phases, Forest(row, row.phase)
    PROVE  /\ Undecided(row) \in SUBSET WorkItems
           /\ Disjoint(Undecided(row))
           /\ IsFiniteSet(Undecided(row))
<1>1. Undecided(row) \subseteq Leaves(row, row.phase)
  BY UndecidedIs
<1>2. Undecided(row) \in SUBSET WorkItems /\ Disjoint(Undecided(row))
  BY <1>1 DEF Forest, ForestOf, Leaves, Disjoint
<1>3. IsFiniteSet(SUBSET Lines)
  BY ItemsFinite, FS_SUBSET
<1>4. Undecided(row) \in SUBSET (SUBSET Lines)
  BY <1>2 DEF WorkItems
<1>5. IsFiniteSet(Undecided(row))
  <2> DEFINE S == SUBSET Lines
  <2> HIDE DEF S
  <2>1. IsFiniteSet(S) /\ Undecided(row) \in SUBSET S
    BY <1>3, <1>4 DEF S
  <2> QED BY <2>1, FS_Subset
<1> QED BY <1>2, <1>5

-----------------------------------------------------------------------------
(* Charges *)

Kept(row, phase) == {c \in InPhase(row, phase) : c.status # "SPLIT"}

\* A row's charge is that of its kept checkpoints.
LEMMA SameCharge ==
    ASSUME NEW r, NEW s, NEW phase, Kept(r, phase) = Kept(s, phase)
    PROVE  Charged(r, phase) = Charged(s, phase)
BY DEF Charged, Kept

\* A charge is a usage, and nothing without kept checkpoints.
LEMMA ChargeOf ==
    ASSUME NEW row \in Progress, IsFiniteSet(row.checkpoints), NEW phase
    PROVE  /\ Charged(row, phase) \in Usage
           /\ Kept(row, phase) = {} => Charged(row, phase) = NoUsage
<1> DEFINE K == Kept(row, phase)
           f == [c \in K |-> c.usage.calls]
           g == [c \in K |-> c.usage.tools]
<1>1. K \in SUBSET row.checkpoints /\ K \in SUBSET WorkCheckpoint
  BY DEF Kept, InPhase, Progress
<1>2. IsFiniteSet(K)
  <2> HIDE DEF K
  <2> QED BY <1>1, FS_Subset
<1>3. DOMAIN f = K /\ NatOn(f, K) /\ DOMAIN g = K /\ NatOn(g, K)
  BY <1>1 DEF NatOn, WorkCheckpoint, Usage
<1>4. Charged(row, phase) = [calls |-> SumFunction(f), tools |-> SumFunction(g)]
  BY DEF Charged, Kept
<1> HIDE DEF K, f, g
<1>5. SumFunction(f) \in Nat /\ SumFunction(g) \in Nat
  BY <1>2, <1>3, SumNat
<1>6. K = {} => SumFunction(f) = 0 /\ SumFunction(g) = 0
  BY <1>2, <1>3, SumNat
<1> QED BY <1>4, <1>5, <1>6 DEF Usage, NoUsage, K

\* One more kept checkpoint adds its usage to the charge.
LEMMA ChargeMore ==
    ASSUME NEW r \in Progress, IsFiniteSet(r.checkpoints), NEW s, NEW phase,
           NEW c \in WorkCheckpoint, c \notin Kept(r, phase),
           Kept(s, phase) = Kept(r, phase) \cup {c}
    PROVE  Charged(s, phase) = Add(Charged(r, phase), c.usage)
<1> DEFINE K == Kept(r, phase)
           f == [d \in K |-> d.usage.calls]
           g == [d \in K |-> d.usage.tools]
           ff == [d \in K \cup {c} |-> d.usage.calls]
           gg == [d \in K \cup {c} |-> d.usage.tools]
<1>1. K \in SUBSET r.checkpoints /\ K \in SUBSET WorkCheckpoint
  BY DEF Kept, InPhase, Progress
<1>2. IsFiniteSet(K)
  <2> HIDE DEF K
  <2> QED BY <1>1, FS_Subset
<1>3. /\ DOMAIN f = K /\ NatOn(f, K) /\ DOMAIN g = K /\ NatOn(g, K)
      /\ DOMAIN ff = K \cup {c} /\ NatOn(ff, K \cup {c}) /\ SameOn(ff, f, K)
      /\ DOMAIN gg = K \cup {c} /\ NatOn(gg, K \cup {c}) /\ SameOn(gg, g, K)
      /\ ff[c] = c.usage.calls /\ gg[c] = c.usage.tools
  BY <1>1 DEF NatOn, SameOn, WorkCheckpoint, Usage
<1>4. Charged(r, phase) = [calls |-> SumFunction(f), tools |-> SumFunction(g)]
  BY DEF Charged, Kept
<1>5. Charged(s, phase) = [calls |-> SumFunction(ff), tools |-> SumFunction(gg)]
  <2>1. Kept(s, phase) = K \cup {c}
    OBVIOUS
  <2> HIDE DEF K
  <2>2. Charged(s, phase) =
            [calls |-> SumFunction([d \in Kept(s, phase) |-> d.usage.calls]),
             tools |-> SumFunction([d \in Kept(s, phase) |-> d.usage.tools])]
    BY DEF Charged, Kept
  <2> QED BY <2>1, <2>2
<1>6. c \notin K
  OBVIOUS
<1> HIDE DEF K, f, g, ff, gg
<1>7. SumFunction(f) \in Nat /\ SumFunction(g) \in Nat
  BY <1>2, <1>3, SumNat
<1>8. SumFunction(ff) = ff[c] + SumFunction(f)
  BY <1>2, <1>3, <1>6, SumAdd
<1>9. SumFunction(gg) = gg[c] + SumFunction(g)
  BY <1>2, <1>3, <1>6, SumAdd
<1>10. c.usage.calls \in Nat /\ c.usage.tools \in Nat
  BY DEF WorkCheckpoint, Usage
<1> QED BY <1>3, <1>4, <1>5, <1>7, <1>8, <1>9, <1>10 DEF Add

-----------------------------------------------------------------------------
(* Deciding an item *)

WithDecision(row, c) == [row EXCEPT !.checkpoints = @ \cup {c}]

\* Of an undecided item no checkpoint is overwritten.
LEMMA DecisionAdds ==
    ASSUME NEW row \in Progress, Checked(row), row.phase \in Phases,
           NEW c \in WorkCheckpoint, c.phase = row.phase, c.item \in Undecided(row)
    PROVE  /\ WithCheckpoint(row, c) = WithDecision(row, c)
           /\ \A d \in InPhase(row, row.phase) : d.item # c.item
           /\ c \notin row.checkpoints
<1>1. c.item \notin {d.item : d \in InPhase(row, row.phase)}
  BY DEF Undecided
<1>2. \A d \in InPhase(row, row.phase) : d.item # c.item
  BY <1>1
<1>3. \A d \in row.checkpoints : ~(d.phase = c.phase /\ d.item = c.item)
  BY <1>2 DEF InPhase
<1>4. WithCheckpoint(row, c) = WithDecision(row, c)
  BY <1>3 DEF WithCheckpoint, WithDecision
<1> QED BY <1>2, <1>3, <1>4

\* What else a decision leaves alone.
LEMMA DecisionFields ==
    ASSUME NEW row \in Progress, NEW c \in WorkCheckpoint
    PROVE  LET r == WithDecision(row, c) IN
           /\ r \in Progress
           /\ r.phase = row.phase /\ r.frozen = row.frozen /\ r.charged = row.charged
           /\ r.covered = row.covered /\ r.limited = row.limited /\ r.result = row.result
           /\ r.checkpoints = row.checkpoints \cup {c}
BY DEF WithDecision, Progress

\* And of the phase the item is not of.
LEMMA OtherPhase ==
    ASSUME NEW row \in Progress, NEW c \in WorkCheckpoint, NEW phase, c.phase # phase
    PROVE  LET r == WithDecision(row, c) IN
           /\ InPhase(r, phase) = InPhase(row, phase)
           /\ Finished(r, phase) = Finished(row, phase)
           /\ SplitItems(r, phase) = SplitItems(row, phase)
           /\ DoneItems(r, phase) = DoneItems(row, phase)
           /\ Unlimited(r, phase) <=> Unlimited(row, phase)
           /\ Roots(r, phase) = Roots(row, phase)
           /\ Forest(r, phase) <=> Forest(row, phase)
<1> DEFINE r == WithDecision(row, c)
<1>1. r.checkpoints = row.checkpoints \cup {c} /\ r.frozen = row.frozen
  BY DecisionFields
<1> HIDE DEF r
<1>2. InPhase(r, phase) = InPhase(row, phase)
  BY <1>1 DEF InPhase
<1>3. Finished(r, phase) = Finished(row, phase) /\ SplitItems(r, phase) = SplitItems(row, phase)
      /\ (Unlimited(r, phase) <=> Unlimited(row, phase))
  BY <1>2 DEF Finished, SplitItems, Unlimited
<1>4. DoneItems(r, phase) = DoneItems(row, phase)
  BY <1>3 DEF DoneItems
<1>5. Roots(r, phase) = Roots(row, phase)
  BY <1>1 DEF Roots
<1>6. Forest(r, phase) <=> Forest(row, phase)
  BY <1>3, <1>4, <1>5 DEF Forest
<1> QED BY <1>2, <1>3, <1>4, <1>5, <1>6 DEF r

\* What a decision adds to its phase.
LEMMA OwnPhase ==
    ASSUME NEW row \in Progress, Checked(row), row.phase \in Phases,
           NEW c \in WorkCheckpoint, c.phase = row.phase, c.item \in Undecided(row),
           c.status \in {"DONE", "SPLIT"}
    PROVE  LET r == WithDecision(row, c)
               p == row.phase IN
           /\ c.status = "DONE" =>
                /\ DoneItems(r, p) = DoneItems(row, p) \cup {c.item}
                /\ SplitItems(r, p) = SplitItems(row, p)
                /\ Charged(r, p) = Add(Charged(row, p), c.usage)
                /\ Unlimited(r, p) <=> Unlimited(row, p) /\ ~c.limited
           /\ c.status = "SPLIT" =>
                /\ DoneItems(r, p) = DoneItems(row, p)
                /\ SplitItems(r, p) = SplitItems(row, p) \cup {c.item}
                /\ Charged(r, p) = Charged(row, p)
                /\ Unlimited(r, p) <=> Unlimited(row, p)
           /\ Roots(r, p) = Roots(row, p)
<1> DEFINE r == WithDecision(row, c)
           p == row.phase
<1>1. r.checkpoints = row.checkpoints \cup {c} /\ r.frozen = row.frozen
  BY DecisionFields
<1>2. c \notin row.checkpoints /\ c.phase = p
  BY DecisionAdds
<1> HIDE DEF r, p
<1>3. InPhase(r, p) = InPhase(row, p) \cup {c} /\ c \notin InPhase(row, p)
  BY <1>1, <1>2 DEF InPhase
<1>4. Roots(r, p) = Roots(row, p)
  BY <1>1 DEF Roots
<1>5. ASSUME c.status = "DONE"
      PROVE  /\ DoneItems(r, p) = DoneItems(row, p) \cup {c.item}
             /\ SplitItems(r, p) = SplitItems(row, p)
             /\ Charged(r, p) = Add(Charged(row, p), c.usage)
             /\ Unlimited(r, p) <=> Unlimited(row, p) /\ ~c.limited
  <2>1. Finished(r, p) = Finished(row, p) \cup {c}
    BY <1>3, <1>5 DEF Finished
  <2>2. DoneItems(r, p) = DoneItems(row, p) \cup {c.item}
    BY <2>1 DEF DoneItems
  <2>3. SplitItems(r, p) = SplitItems(row, p)
    <3>1. {d \in InPhase(r, p) : d.status = "SPLIT"} = {d \in InPhase(row, p) : d.status = "SPLIT"}
      BY <1>3, <1>5
    <3> QED BY <3>1 DEF SplitItems
  <2>4. Kept(r, p) = Kept(row, p) \cup {c} /\ c \notin Kept(row, p)
    BY <1>3, <1>5 DEF Kept
  <2>5. IsFiniteSet(row.checkpoints)
    BY DEF Checked
  <2>6. Charged(r, p) = Add(Charged(row, p), c.usage)
    BY <2>4, <2>5, ChargeMore
  <2>7. Unlimited(r, p) <=> Unlimited(row, p) /\ ~c.limited
    BY <1>3, <1>5 DEF Unlimited
  <2> QED BY <2>2, <2>3, <2>6, <2>7
<1>6. ASSUME c.status = "SPLIT"
      PROVE  /\ DoneItems(r, p) = DoneItems(row, p)
             /\ SplitItems(r, p) = SplitItems(row, p) \cup {c.item}
             /\ Charged(r, p) = Charged(row, p)
             /\ Unlimited(r, p) <=> Unlimited(row, p)
  <2>1. Finished(r, p) = Finished(row, p)
    BY <1>3, <1>6 DEF Finished
  <2>2. DoneItems(r, p) = DoneItems(row, p)
    BY <2>1 DEF DoneItems
  <2>3. SplitItems(r, p) = SplitItems(row, p) \cup {c.item}
    <3>1. {d \in InPhase(r, p) : d.status = "SPLIT"} =
            {d \in InPhase(row, p) : d.status = "SPLIT"} \cup {c}
      BY <1>3, <1>6
    <3> QED BY <3>1 DEF SplitItems
  <2>4. Kept(r, p) = Kept(row, p)
    BY <1>3, <1>6 DEF Kept
  <2>5. Charged(r, p) = Charged(row, p)
    BY <2>4, SameCharge
  <2>6. Unlimited(r, p) <=> Unlimited(row, p)
    BY <1>3, <1>6 DEF Unlimited
  <2> QED BY <2>2, <2>3, <2>5, <2>6
<1> QED BY <1>4, <1>5, <1>6 DEF r, p

\* What the charge of a decided item may add to.
CanPay(row, u) ==
    /\ row.phase = "candidate" =>
        Within(Add(Charged(row, "candidate"), u), CandidateCalls, CandidateTools)
    /\ row.phase = "verification" =>
        Within(Add(row.charged, Add(Charged(row, "verification"), u)), MaxCalls, MaxTools)

\* A leaf is decided: the row's invariant is kept, and the item leaves the
\* undecided ones, with its parts in its place if it has been cut.
LEMMA Decided ==
    ASSUME NEW row, RowInv(row), row.phase \in Phases,
           NEW c \in WorkCheckpoint, c.phase = row.phase, c.item \in Undecided(row),
           c.status \in {"DONE", "SPLIT"},
           c.status = "DONE" => CanPay(row, c.usage),
           c.status = "SPLIT" => Splittable(c.item),
           NEW r, r = WithDecision(row, c)
    PROVE  /\ RowInv(r)
           /\ c.status = "DONE" =>
                /\ DoneItems(r, r.phase) = DoneItems(row, row.phase) \cup {c.item}
                /\ Undecided(r) = Undecided(row) \ {c.item}
           /\ c.status = "SPLIT" =>
                /\ DoneItems(r, r.phase) = DoneItems(row, row.phase)
                /\ Undecided(r) = (Undecided(row) \ {c.item})
                                    \cup {Low(c.item), High(c.item)}
                /\ Low(c.item) \notin Undecided(row)
                /\ High(c.item) \notin Undecided(row)
<1> DEFINE p == row.phase
           other == IF p = "candidate" THEN "verification" ELSE "candidate"
           S == SplitItems(row, p)
           D == DoneItems(row, p)
           R == Roots(row, p)
           item == c.item
<1>0. /\ row \in Progress /\ Checked(row) /\ Forest(row, p) /\ Forest(row, other)
      /\ Affordable(row) /\ FrozenTrue(row)
      /\ p \in Phases /\ other \in Phases /\ p # other
  BY DEF RowInv, Phases
<1>1. /\ r \in Progress
      /\ r.phase = p /\ r.frozen = row.frozen /\ r.charged = row.charged
      /\ r.covered = row.covered /\ r.limited = row.limited /\ r.result = row.result
      /\ r.checkpoints = row.checkpoints \cup {c}
  BY <1>0, DecisionFields
<1>2. \A d \in InPhase(row, row.phase) : d.item # c.item
  BY <1>0, DecisionAdds
<1>3. Checked(r)
  <2>1. IsFiniteSet(r.checkpoints)
    <3> DEFINE C == row.checkpoints
    <3>1. IsFiniteSet(C) /\ r.checkpoints = C \cup {c}
      BY <1>0, <1>1 DEF Checked
    <3> HIDE DEF C
    <3> QED BY <3>1, FS_AddElement
  <2>2. \A d \in row.checkpoints : ~(d.phase = c.phase /\ d.item = c.item)
    BY <1>2 DEF InPhase
  <2> QED BY <1>0, <1>1, <2>1, <2>2 DEF Checked, Phases
<1>4. ForestOf(R, S, D)
  BY <1>0 DEF Forest
<1>5. Undecided(row) = LeavesOf(R, S) \ D
  BY <1>0, UndecidedIs DEF Leaves
<1>6. item \in LeavesOf(R, S) /\ item \notin D
  BY <1>5
<1>7. Undecided(r) = LeavesOf(Roots(r, p), SplitItems(r, p)) \ DoneItems(r, p)
  BY <1>0, <1>1, <1>3, UndecidedIs DEF Leaves
<1>8. Roots(r, p) = R
  BY <1>0, OwnPhase
<1>9. Forest(r, other)
  BY <1>0, OtherPhase
<1>10. Forest(r, p)
       /\ (c.status = "DONE" =>
            DoneItems(r, p) = D \cup {item} /\ Undecided(r) = Undecided(row) \ {item})
       /\ (c.status = "SPLIT" =>
            /\ DoneItems(r, p) = D
            /\ Undecided(r) = (Undecided(row) \ {item}) \cup {Low(item), High(item)}
            /\ Low(item) \notin Undecided(row) /\ High(item) \notin Undecided(row))
  <2>1. CASE c.status = "DONE"
    <3>1. DoneItems(r, p) = D \cup {item} /\ SplitItems(r, p) = S
      BY <1>0, <2>1, OwnPhase
    <3> HIDE DEF S, D, R, item, p
    <3>2. ForestOf(R, S, D \cup {item})
      BY <1>4, <1>6, FinishLeaf
    <3>3. Forest(r, p)
      BY <1>8, <3>1, <3>2 DEF Forest
    <3>4. Undecided(r) = Undecided(row) \ {item}
      BY <1>5, <1>7, <1>8, <3>1
    <3> QED BY <2>1, <3>1, <3>3, <3>4
  <2>2. CASE c.status = "SPLIT"
    <3>1. DoneItems(r, p) = D /\ SplitItems(r, p) = S \cup {item}
      BY <1>0, <2>2, OwnPhase
    <3>2. Splittable(item)
      BY <2>2
    <3> DEFINE a == Low(item)
               b == High(item)
               L == LeavesOf(R, S)
               SS == S \cup {item}
    <3>a. SS = S \cup {item}
      OBVIOUS
    <3> HIDE DEF S, D, R, item, p, SS
    <3>3. /\ LeavesOf(R, SS) = (L \ {item}) \cup {a, b} /\ a \notin L /\ b \notin L
          /\ ForestOf(R, SS, D)
      BY <1>4, <1>6, <3>2, <3>a, CutLeaf
    <3> HIDE DEF a, b, L
    <3>4. Forest(r, p)
      BY <1>8, <3>1, <3>3 DEF Forest, SS
    <3>5. Undecided(r) = LeavesOf(R, SS) \ D
      BY <1>7, <1>8, <3>1 DEF SS
    <3>6. Undecided(row) = L \ D /\ D \subseteq L
      BY <1>4, <1>5 DEF L, ForestOf
    <3>7. Undecided(r) = (Undecided(row) \ {item}) \cup {a, b} /\ a \notin Undecided(row) /\ b \notin Undecided(row)
      BY <3>3, <3>5, <3>6
    <3> QED BY <2>2, <3>1, <3>4, <3>7 DEF a, b
  <2> QED BY <2>1, <2>2
<1>11. Forest(r, "candidate") /\ Forest(r, "verification")
  BY <1>9, <1>10 DEF Phases
<1>12. Affordable(r)
  <2>1. c.status = "DONE" => Charged(r, p) = Add(Charged(row, p), c.usage)
    BY <1>0, OwnPhase
  <2>2. c.status = "SPLIT" => Charged(r, p) = Charged(row, p)
    BY <1>0, OwnPhase
  <2>3. CASE p = "candidate"
    BY <1>0, <1>1, <2>1, <2>2, <2>3 DEF Affordable, CanPay
  <2>4. CASE p = "verification"
    BY <1>0, <1>1, <2>1, <2>2, <2>4 DEF Affordable, CanPay
  <2> QED BY <1>0, <2>3, <2>4 DEF Phases
<1>13. FrozenTrue(r)
  <2>1. CASE p = "candidate"
    BY <1>1, <2>1 DEF FrozenTrue
  <2>2. CASE p = "verification"
    <3> DEFINE cand == "candidate"
    <3>1. /\ Finished(r, cand) = Finished(row, cand)
          /\ DoneItems(r, cand) = DoneItems(row, cand)
          /\ Unlimited(r, cand) <=> Unlimited(row, cand)
      BY <1>0, <2>2, OtherPhase
    <3> QED BY <1>0, <1>1, <2>2, <3>1 DEF FrozenTrue
  <2> QED BY <1>0, <2>1, <2>2 DEF Phases
<1>14. ResultTrue(r)
  BY <1>0, <1>1 DEF ResultTrue, Phases
<1>15. RowInv(r)
  BY <1>1, <1>3, <1>11, <1>12, <1>13, <1>14 DEF RowInv
<1> QED BY <1>1, <1>10, <1>15

-----------------------------------------------------------------------------
(* The phases of a row *)

\* The verifier's share is part of the budget.
LEMMA BudgetFacts ==
    /\ CandidateCalls \in Nat /\ CandidateTools \in Nat /\ MaxCalls \in Nat /\ MaxTools \in Nat
    /\ CandidateCalls <= MaxCalls /\ CandidateTools <= MaxTools
BY SchedulerAssumption DEF CandidateCalls, CandidateTools

\* Two rows with the same checkpoints and frozen candidates.
LEMMA SameWork ==
    ASSUME NEW r, NEW s, r.checkpoints = s.checkpoints, NEW phase
    PROVE  /\ InPhase(r, phase) = InPhase(s, phase)
           /\ Finished(r, phase) = Finished(s, phase)
           /\ DoneItems(r, phase) = DoneItems(s, phase)
           /\ SplitItems(r, phase) = SplitItems(s, phase)
           /\ Charged(r, phase) = Charged(s, phase)
           /\ Unlimited(r, phase) <=> Unlimited(s, phase)
<1>1. InPhase(r, phase) = InPhase(s, phase)
  BY DEF InPhase
<1>2. Finished(r, phase) = Finished(s, phase)
  BY <1>1 DEF Finished
<1>3. Kept(r, phase) = Kept(s, phase)
  BY <1>1 DEF Kept
<1>4. Charged(r, phase) = Charged(s, phase)
  BY <1>3, SameCharge
<1> QED BY <1>1, <1>2, <1>4 DEF DoneItems, SplitItems, Unlimited

\* Without checkpoints the phase's forest is its roots.
LEMMA FreshPhase ==
    ASSUME NEW row \in Progress, NEW phase, InPhase(row, phase) = {}
    PROVE  /\ Forest(row, phase)
           /\ SplitItems(row, phase) = {} /\ DoneItems(row, phase) = {}
           /\ Charged(row, phase) = NoUsage \/ ~IsFiniteSet(row.checkpoints)
           /\ Unlimited(row, phase)
<1>1. SplitItems(row, phase) = {} /\ DoneItems(row, phase) = {} /\ Unlimited(row, phase)
      /\ Kept(row, phase) = {}
  BY DEF SplitItems, DoneItems, Finished, Unlimited, Kept
<1>2. row.frozen \in SUBSET Lines
  BY DEF Progress
<1> DEFINE R == Roots(row, phase)
<1>3. R \in SUBSET WorkItems /\ Disjoint(R)
  BY <1>2, RootsOf
<1> HIDE DEF R
<1>4. ForestOf(R, {}, {})
  BY <1>3, NoCuts
<1>5. Forest(row, phase)
  BY <1>1, <1>4 DEF Forest, R
<1>6. IsFiniteSet(row.checkpoints) => Charged(row, phase) = NoUsage
  BY <1>1, ChargeOf
<1> QED BY <1>1, <1>5, <1>6

\* Before anything is saved, and when the row is created.
LEMMA FreshRow ==
    ASSUME NEW row, row \in {NoProgress, NewProgress}
    PROVE  RowInv(row)
<1>1. /\ row \in Progress /\ row.checkpoints = {} /\ row.phase \in {"none", "candidate"}
      /\ row.charged = NoUsage
  <2>1. NoProgress \in Progress
    BY DEF NoProgress, Progress, NoUsage, Usage, NoResult
  <2>2. NewProgress \in Progress
    <3>1. \A r \in Progress : [r EXCEPT !.phase = "candidate"] \in Progress
      BY DEF Progress
    <3> QED BY <2>1, <3>1 DEF NewProgress
  <2>3. /\ row.checkpoints = {} /\ row.phase \in {"none", "candidate"}
        /\ row.charged = NoUsage
    BY DEF NoProgress, NewProgress
  <2> QED BY <2>1, <2>2, <2>3
<1>2. IsFiniteSet(row.checkpoints)
  BY <1>1, FS_EmptySet
<1>3. Checked(row)
  BY <1>1, <1>2 DEF Checked
<1>4. InPhase(row, "candidate") = {} /\ InPhase(row, "verification") = {}
  BY <1>1 DEF InPhase
<1>5. Forest(row, "candidate") /\ Forest(row, "verification") /\ Charged(row, "candidate") = NoUsage
  BY <1>1, <1>2, <1>4, FreshPhase
<1>6. Affordable(row)
  BY <1>1, <1>5, BudgetFacts DEF Affordable, Within, NoUsage
<1> QED BY <1>1, <1>3, <1>5, <1>6 DEF RowInv, FrozenTrue, ResultTrue

\* When nothing is undecided, the items done cover the roots.
LEMMA AllDecided ==
    ASSUME NEW row, RowInv(row), row.phase \in Phases, Undecided(row) = {}
    PROVE  UNION DoneItems(row, row.phase) = UNION Roots(row, row.phase)
<1> DEFINE p == row.phase
           L == Leaves(row, p)
           D == DoneItems(row, p)
<1>1. row \in Progress /\ Checked(row) /\ Forest(row, p)
  BY DEF RowInv, Phases
<1>2. Undecided(row) = L \ D
  BY <1>1, UndecidedIs
<1>3. D \subseteq L /\ UNION L = UNION Roots(row, p)
  BY <1>1 DEF Forest, ForestOf, Leaves
<1> HIDE DEF L, D
<1>4. D = L
  BY <1>2, <1>3
<1> QED BY <1>3, <1>4 DEF D

Frozen(row, selected, covered, limited) ==
    [row EXCEPT !.phase = "verification", !.frozen = selected \cup Prior,
                !.charged = Charged(row, "candidate"),
                !.covered = covered, !.limited = limited]

\* The charges of a row whose exploration is over.
Verifying(r, row) ==
    /\ r.phase = "verification" /\ r.charged = Charged(row, "candidate")
    /\ Charged(r, "verification") = NoUsage

\* Exploration ends.
LEMMA Freezing ==
    ASSUME NEW row, RowInv(row), row.phase = "candidate",
           NEW selected \in SUBSET FoundIn(Finished(row, "candidate")),
           NEW covered \in BOOLEAN, NEW limited \in BOOLEAN,
           selected # FoundIn(Finished(row, "candidate")) => limited,
           limited \/ Unlimited(row, "candidate"),
           covered => Undecided(row) = {},
           NEW r, r = Frozen(row, selected, covered, limited)
    PROVE  RowInv(r) /\ Verifying(r, row)
<1> DEFINE cand == "candidate"
           ver == "verification"
           found == FoundIn(Finished(row, cand))
<1>0. /\ row \in Progress /\ Checked(row) /\ Forest(row, cand) /\ Affordable(row)
  BY DEF RowInv
<1>1. found \subseteq Lines /\ Prior \subseteq Lines
  BY <1>0, PriorAssumption DEF FoundIn, Finished, InPhase, Progress, WorkCheckpoint
<1>2. Charged(row, cand) \in Usage
  BY <1>0, ChargeOf DEF Checked
<1>3. /\ r \in Progress
      /\ r.phase = ver /\ r.charged = Charged(row, cand)
      /\ r.frozen = selected \cup Prior /\ r.covered = covered /\ r.limited = limited
      /\ r.checkpoints = row.checkpoints
  <2>1. selected \cup Prior \in SUBSET Lines
    BY <1>1
  <2> DEFINE f == selected \cup Prior
             u == Charged(row, cand)
  <2>2. f \in SUBSET Lines /\ u \in Usage
    BY <1>2, <2>1
  <2>3. r = [row EXCEPT !.phase = ver, !.frozen = f, !.charged = u,
                        !.covered = covered, !.limited = limited]
    BY DEF Frozen
  <2> HIDE DEF f, u
  <2>4. r \in Progress
    BY <1>0, <2>2, <2>3 DEF Progress
  <2>5. /\ r.phase = ver /\ r.charged = u
        /\ r.frozen = f /\ r.covered = covered /\ r.limited = limited
        /\ r.checkpoints = row.checkpoints
    BY <1>0, <2>2, <2>3 DEF Progress
  <2> QED BY <2>4, <2>5 DEF f, u
<1>4. Checked(r)
  BY <1>0, <1>3 DEF Checked
<1>5. InPhase(r, ver) = {}
  BY <1>0, <1>3 DEF Checked, InPhase
<1>6. /\ Forest(r, ver) /\ Charged(r, ver) = NoUsage
  BY <1>3, <1>4, <1>5, FreshPhase DEF Checked
<1>7. /\ Finished(r, cand) = Finished(row, cand)
      /\ DoneItems(r, cand) = DoneItems(row, cand)
      /\ SplitItems(r, cand) = SplitItems(row, cand)
      /\ Unlimited(r, cand) <=> Unlimited(row, cand)
  BY <1>3, SameWork
<1>8. Forest(r, cand)
  <2>1. Roots(r, cand) = Roots(row, cand)
    BY DEF Roots
  <2> QED BY <1>0, <1>7, <2>1 DEF Forest
<1>9. Affordable(r)
  <2>1. Within(Charged(row, cand), CandidateCalls, CandidateTools)
    BY <1>0 DEF Affordable
  <2>2. Within(Add(Charged(row, cand), NoUsage), MaxCalls, MaxTools)
    BY <1>2, <2>1, BudgetFacts DEF Within, Add, NoUsage, Usage
  <2> QED BY <1>3, <1>6, <2>1, <2>2 DEF Affordable
<1>10. FrozenTrue(r)
  <2>1. Prior \subseteq r.frozen
    BY <1>3
  <2>2. found \subseteq r.frozen \/ r.limited
    BY <1>3
  <2>3. ~r.limited => r.frozen = found \cup Prior /\ Unlimited(r, cand)
    BY <1>3, <1>7
  <2>4. r.covered => UNION DoneItems(r, cand) = UNION ToSet(Diff)
    <3>1. Undecided(row) = {} => UNION DoneItems(row, cand) = UNION Roots(row, cand)
      BY AllDecided DEF Phases
    <3> QED BY <1>3, <1>7, <3>1 DEF Roots
  <2> QED BY <1>7, <2>1, <2>2, <2>3, <2>4 DEF FrozenTrue
<1>11. ResultTrue(r)
  BY <1>3 DEF ResultTrue
<1> QED BY <1>3, <1>4, <1>5, <1>6, <1>8, <1>9, <1>10, <1>11 DEF RowInv, Verifying

Completed(row, valid, published, complete) ==
    [row EXCEPT !.phase = "complete",
                !.result = [valid |-> valid, published |-> published, complete |-> complete]]

\* Verification ends.
LEMMA Completing ==
    ASSUME NEW row, RowInv(row), row.phase = "verification",
           NEW valid \in SUBSET FoundIn(Finished(row, "verification")),
           NEW published \in SUBSET valid, NEW complete \in BOOLEAN,
           complete =>
            /\ row.covered /\ ~row.limited
            /\ Undecided(row) = {}
            /\ Unlimited(row, "verification")
            /\ FoundIn(Finished(row, "verification")) \cap Prior \subseteq published,
           NEW r, r = Completed(row, valid, published, complete)
    PROVE  RowInv(r)
<1> DEFINE cand == "candidate"
           ver == "verification"
<1>0. /\ row \in Progress /\ Checked(row) /\ Forest(row, cand) /\ Forest(row, ver)
      /\ Affordable(row) /\ FrozenTrue(row)
  BY DEF RowInv
<1>1. FoundIn(Finished(row, ver)) \subseteq Lines
  BY <1>0 DEF FoundIn, Finished, InPhase, Progress, WorkCheckpoint
<1>2. /\ r \in Progress
      /\ r.phase = "complete" /\ r.charged = row.charged
      /\ r.frozen = row.frozen /\ r.covered = row.covered /\ r.limited = row.limited
      /\ r.checkpoints = row.checkpoints
      /\ r.result.complete = complete /\ r.result.published = published
  <2>1. [valid |-> valid, published |-> published, complete |-> complete] \in
            [valid : SUBSET Lines, published : SUBSET Lines, complete : BOOLEAN]
    BY <1>1
  <2> DEFINE f == [valid |-> valid, published |-> published, complete |-> complete]
  <2>2. f \in [valid : SUBSET Lines, published : SUBSET Lines, complete : BOOLEAN]
        /\ f.complete = complete /\ f.published = published
    BY <2>1
  <2>3. r = [row EXCEPT !.phase = "complete", !.result = f]
    BY DEF Completed
  <2> HIDE DEF f
  <2>4. r \in Progress
    BY <1>0, <2>2, <2>3 DEF Progress
  <2>5. /\ r.phase = "complete" /\ r.charged = row.charged
        /\ r.frozen = row.frozen /\ r.covered = row.covered /\ r.limited = row.limited
        /\ r.checkpoints = row.checkpoints /\ r.result = f
    BY <1>0, <2>3 DEF Progress
  <2> QED BY <2>2, <2>4, <2>5
<1>3. Checked(r)
  BY <1>0, <1>2 DEF Checked
<1>4. \A phase \in Phases :
      /\ Finished(r, phase) = Finished(row, phase)
      /\ DoneItems(r, phase) = DoneItems(row, phase)
      /\ SplitItems(r, phase) = SplitItems(row, phase)
      /\ Unlimited(r, phase) <=> Unlimited(row, phase)
      /\ Roots(r, phase) = Roots(row, phase)
  BY <1>2, SameWork DEF Roots
<1>5. Forest(r, cand) /\ Forest(r, ver)
  BY <1>0, <1>4 DEF Forest, Phases
<1>6. Affordable(r)
  BY <1>0, <1>2 DEF Affordable
<1>7. FrozenTrue(r)
  BY <1>0, <1>2, <1>4 DEF FrozenTrue, Phases
<1>8. ResultTrue(r)
  <2> SUFFICES ASSUME complete PROVE ResultTrue(r)
    BY <1>2 DEF ResultTrue
  <2>1. UNION DoneItems(row, ver) = UNION Roots(row, ver)
    BY AllDecided DEF Phases
  <2>2. UNION Roots(row, ver) = row.frozen
    BY <1>0, BatchesOf DEF Roots, Progress
  <2> QED BY <1>2, <1>4, <2>1, <2>2 DEF ResultTrue, Phases
<1> QED BY <1>2, <1>3, <1>5, <1>6, <1>7, <1>8 DEF RowInv

-----------------------------------------------------------------------------
(* The inductive invariant of a worker *)

SessionRecord ==
    [item : WorkItems, slots : {1, 2}, calls : Nat, rounds : Nat, usage : Usage,
     pending : Nat, dup : BOOLEAN, final : BOOLEAN, limited : BOOLEAN]

Memory ==
    [row : Progress, used : Usage, done : SUBSET WorkItems, stopped : SUBSET WorkItems,
     waiting : Seq(WorkItems), active : Seq(SessionRecord), limited : BOOLEAN]

ItemOf == [s \in SessionRecord |-> s.item]
SlotsOf == [s \in SessionRecord |-> Slots(s)]
CallsOf == [s \in SessionRecord |-> s.usage.calls]
ToolsOf == [s \in SessionRecord |-> s.usage.tools]

Items(sessions) == Mapped(ItemOf, sessions)
Calls(sessions) == Total(CallsOf, sessions)
Tools(sessions) == Total(ToolsOf, sessions)

CapCalls(m) == IF m.row.phase = "candidate" THEN CandidateCalls ELSE MaxCalls
CapTools(m) == IF m.row.phase = "candidate" THEN CandidateTools ELSE MaxTools

\* The worker's copy of the row, and what it took over from it.
TakenOver(m) ==
    /\ RowInv(m.row)
    /\ m.row.phase \in Phases
    /\ m.done = DoneItems(m.row, m.row.phase) /\ m.stopped = {}
    /\ Unlimited(m.row, m.row.phase) \/ m.limited

\* The queues hold every undecided item once.
QueuesExact(m) ==
    /\ Apart(m.waiting)
    /\ Apart(Items(m.active))
    /\ ToSet(m.waiting) \cap ToSet(Items(m.active)) = {}
    /\ Undecided(m.row) = ToSet(m.waiting) \cup ToSet(Items(m.active))

\* The budget counts at least what is charged for good and what the live
\* sessions have used.
Budgeted(m) ==
    /\ Within(m.used, CapCalls(m), CapTools(m))
    /\ m.row.charged.calls + Charged(m.row, m.row.phase).calls + Calls(m.active) <= m.used.calls
    /\ m.row.charged.tools + Charged(m.row, m.row.phase).tools + Tools(m.active) <= m.used.tools

\* Live sessions can still be answered.
Answerable(m, label) ==
    /\ label = "turn" => Protected(m.active) <= RemainingCalls(m)
    /\ label # "turn" =>
        /\ m.active # <<>>
        /\ Head(m.active).usage.calls >= 1 /\ Head(m.active).calls >= 1
        /\ Protected(Tail(m.active)) <= RemainingCalls(m)
    /\ label = "asked" /\ ~Head(m.active).final =>
        Protected(Tail(m.active)) + 1 <= RemainingCalls(m)

\* Repository reads are outstanding only in sessions that have been answered.
Resumable(sessions) == \A s \in ToSet(sessions) : s.pending > 0 => s.calls >= 1

MemoryInv(m, label) ==
    /\ m \in Memory
    /\ TakenOver(m)
    /\ QueuesExact(m)
    /\ Budgeted(m)
    /\ Answerable(m, label)
    /\ Resumable(m.active)

Labels == {"turn", "asked", "again"}

IInv ==
    /\ lease \in Workers \cup {NoWorker}
    /\ attempts \in 0 .. MaxAttempts
    /\ dead \in BOOLEAN
    /\ pc \in [Workers -> Labels \cup {"idle"}]
    /\ DOMAIN mem = Workers
    /\ RowInv(progress)
    /\ \A w \in Workers :
        /\ pc[w] = "idle" => mem[w] = Idle /\ lease # w
        /\ pc[w] # "idle" => MemoryInv(mem[w], pc[w])
        /\ lease = w => mem[w].row = progress

-----------------------------------------------------------------------------
(* Lemmas about the sessions *)

\* The measures of a session are defined for every session.
LEMMA Measures ==
    /\ Maps(ItemOf, SessionRecord, WorkItems)
    /\ Maps(SlotsOf, SessionRecord, Nat)
    /\ Maps(CallsOf, SessionRecord, Nat)
    /\ Maps(ToolsOf, SessionRecord, Nat)
<1>1. Maps(ItemOf, SessionRecord, WorkItems)
  BY DEF Maps, ItemOf, SessionRecord
<1>2. Maps(SlotsOf, SessionRecord, Nat)
  BY DEF Maps, SlotsOf, SessionRecord, Slots
<1>3. Maps(CallsOf, SessionRecord, Nat)
  BY DEF Maps, CallsOf, SessionRecord, Usage
<1>4. Maps(ToolsOf, SessionRecord, Nat)
  BY DEF Maps, ToolsOf, SessionRecord, Usage
<1> QED BY <1>1, <1>2, <1>3, <1>4

\* What they are.
LEMMA MeasureOf ==
    ASSUME NEW s \in SessionRecord
    PROVE  /\ ItemOf[s] = s.item /\ SlotsOf[s] = Slots(s)
           /\ CallsOf[s] = s.usage.calls /\ ToolsOf[s] = s.usage.tools
           /\ s.item \in WorkItems /\ s.usage \in Usage
           /\ s.usage.calls \in Nat /\ s.usage.tools \in Nat /\ s.calls \in Nat
           /\ Slots(s) \in {1, 2} /\ (s.calls >= 1 => Slots(s) = 1)
BY DEF ItemOf, SlotsOf, CallsOf, ToolsOf, SessionRecord, Usage, Slots

\* What live sessions may still need is a total over the queue.
LEMMA ProtectedIs ==
    ASSUME NEW q \in Seq(SessionRecord)
    PROVE  Protected(q) = Total(SlotsOf, q) /\ Protected(q) \in Nat
<1>1. DOMAIN q = 1 .. Len(q) /\ \A i \in 1 .. Len(q) : q[i] \in SessionRecord
  BY LenProperties
<1>2. \A i \in DOMAIN q : SlotsOf[q[i]] = Slots(q[i])
  BY <1>1, MeasureOf
<1>3. Protected(q) = Total(SlotsOf, q)
  BY <1>2 DEF Protected, Total, Mapped
<1>4. Total(SlotsOf, q) \in Nat
  BY Measures, TotalNat
<1> QED BY <1>3, <1>4

\* A sequence is its head and its tail.
LEMMA HeadAndTail ==
    ASSUME NEW S, NEW p \in Seq(S), p # <<>>
    PROVE  /\ ToSet(p) = ToSet(Tail(p)) \cup {Head(p)}
           /\ Apart(Tail(p)) /\ Head(p) \notin ToSet(Tail(p)) => Apart(p)
<1> DEFINE x == Head(p)
           t == Tail(p)
<1>1. /\ x \in S /\ t \in Seq(S) /\ Len(t) = Len(p) - 1 /\ x = p[1]
      /\ \A i \in 1 .. Len(t) : t[i] = p[i + 1]
      /\ Len(p) \in Nat /\ Len(p) >= 1
  BY HeadTailProperties, EmptySeq
<1>2. <<x>> \in Seq(S) /\ Len(<<x>>) = 1 /\ <<x>>[1] = x
  BY <1>1
<1> DEFINE c == <<x>> \o t
<1>3. /\ c \in Seq(S) /\ Len(c) = 1 + Len(t)
      /\ \A i \in 1 .. 1 + Len(t) : c[i] = IF i <= 1 THEN x ELSE t[i - 1]
  <2> HIDE DEF t, x
  <2> QED BY <1>1, <1>2, ConcatProperties
<1>4. c = p
  <2> HIDE DEF c, t, x
  <2>1. Len(c) = Len(p)
    BY <1>1, <1>3
  <2>2. ASSUME NEW i \in 1 .. Len(c) PROVE c[i] = p[i]
    <3>1. CASE i = 1
      BY <1>1, <1>3, <2>1, <3>1
    <3>2. CASE i # 1
      <4>1. i - 1 \in 1 .. Len(t) /\ ~(i <= 1) /\ i \in 1 .. 1 + Len(t) /\ (i - 1) + 1 = i
        BY <1>1, <2>1, <3>2
      <4> QED BY <1>1, <1>3, <4>1
    <3> QED BY <3>1, <3>2
  <2> QED BY <1>3, <2>1, <2>2, SeqEqual
<1>5. /\ ToSet(c) = ToSet(t) \cup {x}
      /\ Apart(t) /\ x \notin ToSet(t) => Apart(c)
  <2> HIDE DEF t, x
  <2> QED BY <1>1, QueueHead
<1> HIDE DEF c
<1> QED BY <1>4, <1>5

\* The items of the sessions, from the head.
LEMMA ItemsTail ==
    ASSUME NEW q \in Seq(SessionRecord), q # <<>>
    PROVE  /\ Items(q) \in Seq(WorkItems) /\ Items(q) # <<>>
           /\ Items(Tail(q)) = Tail(Items(q))
           /\ Head(Items(q)) = Head(q).item
<1>1. Head(q) \in SessionRecord
  BY HeadTailProperties
<1>2. Mapped(ItemOf, q) \in Seq(WorkItems) /\ Mapped(ItemOf, q) # <<>>
  BY Measures, MapSeq
<1>3. /\ Mapped(ItemOf, Tail(q)) = Tail(Mapped(ItemOf, q))
      /\ Head(Mapped(ItemOf, q)) = ItemOf[Head(q)]
  BY Measures, MapTail
<1>4. ItemOf[Head(q)] = Head(q).item
  BY <1>1, MeasureOf
<1> QED BY <1>2, <1>3, <1>4 DEF Items

\* A session leaves the queue.
LEMMA SessionLeaves ==
    ASSUME NEW q \in Seq(SessionRecord), q # <<>>, Apart(Items(q))
    PROVE  /\ Head(q) \in SessionRecord /\ Head(q) \in ToSet(q)
           /\ Head(q).item \in ToSet(Items(q))
           /\ Tail(q) \in Seq(SessionRecord)
           /\ Apart(Items(Tail(q)))
           /\ ToSet(Items(Tail(q))) = ToSet(Items(q)) \ {Head(q).item}
           /\ Calls(q) = Head(q).usage.calls + Calls(Tail(q)) /\ Calls(Tail(q)) \in Nat
           /\ Tools(q) = Head(q).usage.tools + Tools(Tail(q)) /\ Tools(Tail(q)) \in Nat
           /\ Protected(q) = Slots(Head(q)) + Protected(Tail(q)) /\ Protected(Tail(q)) \in Nat
           /\ Resumable(q) => Resumable(Tail(q))
<1>1. Head(q) \in SessionRecord /\ Tail(q) \in Seq(SessionRecord)
  BY HeadTailProperties
<1>2. ToSet(q) = ToSet(Tail(q)) \cup {Head(q)}
  BY HeadAndTail
<1> DEFINE p == Items(q)
<1>3. p \in Seq(WorkItems) /\ p # <<>> /\ Items(Tail(q)) = Tail(p) /\ Head(p) = Head(q).item
  BY <1>1, ItemsTail
<1>4. Apart(p)
  OBVIOUS
<1> HIDE DEF p
<1>5. Head(p) \in ToSet(p) /\ Apart(Tail(p)) /\ ToSet(Tail(p)) = ToSet(p) \ {Head(p)}
  BY <1>3, <1>4, QueueTail
<1>6. Calls(q) = Head(q).usage.calls + Calls(Tail(q)) /\ Calls(Tail(q)) \in Nat
  BY <1>1, Measures, MeasureOf, TotalTail DEF Calls
<1>7. Tools(q) = Head(q).usage.tools + Tools(Tail(q)) /\ Tools(Tail(q)) \in Nat
  BY <1>1, Measures, MeasureOf, TotalTail DEF Tools
<1>8. Total(SlotsOf, q) = Slots(Head(q)) + Total(SlotsOf, Tail(q))
  BY <1>1, Measures, MeasureOf, TotalTail
<1>9. Protected(q) = Slots(Head(q)) + Protected(Tail(q)) /\ Protected(Tail(q)) \in Nat
  BY <1>1, <1>8, ProtectedIs
<1>10. Resumable(q) => Resumable(Tail(q))
  BY <1>2 DEF Resumable
<1> QED BY <1>1, <1>2, <1>3, <1>5, <1>6, <1>7, <1>9, <1>10 DEF p

\* A session joins the queue.
LEMMA SessionJoins ==
    ASSUME NEW q \in Seq(SessionRecord), Apart(Items(q)),
           NEW s \in SessionRecord, s.item \notin ToSet(Items(q))
    PROVE  /\ Append(q, s) \in Seq(SessionRecord)
           /\ Apart(Items(Append(q, s)))
           /\ ToSet(Items(Append(q, s))) = ToSet(Items(q)) \cup {s.item}
           /\ Calls(Append(q, s)) = Calls(q) + s.usage.calls
           /\ Tools(Append(q, s)) = Tools(q) + s.usage.tools
           /\ Protected(Append(q, s)) = Protected(q) + Slots(s)
           /\ Resumable(q) /\ (s.pending > 0 => s.calls >= 1) => Resumable(Append(q, s))
<1>1. Append(q, s) \in Seq(SessionRecord) /\ ToSet(Append(q, s)) = ToSet(q) \cup {s}
  BY QueueAppend
<1> DEFINE p == Items(q)
           x == s.item
<1>2. p \in Seq(WorkItems) /\ x \in WorkItems /\ Items(Append(q, s)) = Append(p, x)
  BY Measures, MeasureOf, MapSeq, MapAppend DEF Items
<1>3. Apart(p) /\ x \notin ToSet(p)
  OBVIOUS
<1> HIDE DEF p, x
<1>4. ToSet(Append(p, x)) = ToSet(p) \cup {x} /\ Apart(Append(p, x))
  BY <1>2, <1>3, QueueAppend
<1>5. Calls(Append(q, s)) = Calls(q) + s.usage.calls
  BY Measures, MeasureOf, TotalAppend DEF Calls
<1>6. Tools(Append(q, s)) = Tools(q) + s.usage.tools
  BY Measures, MeasureOf, TotalAppend DEF Tools
<1>7. Total(SlotsOf, Append(q, s)) = Total(SlotsOf, q) + Slots(s)
  BY Measures, MeasureOf, TotalAppend
<1>8. Protected(Append(q, s)) = Protected(q) + Slots(s)
  BY <1>1, <1>7, ProtectedIs
<1>9. Resumable(q) /\ (s.pending > 0 => s.calls >= 1) => Resumable(Append(q, s))
  BY <1>1 DEF Resumable
<1> QED BY <1>1, <1>2, <1>4, <1>5, <1>6, <1>8, <1>9 DEF p, x

\* A session stays at the head of the queue.
LEMMA SessionLeads ==
    ASSUME NEW t \in Seq(SessionRecord), Apart(Items(t)),
           NEW s \in SessionRecord, s.item \notin ToSet(Items(t)),
           NEW q, q = <<s>> \o t
    PROVE  /\ q \in Seq(SessionRecord) /\ q # <<>>
           /\ Head(q) = s /\ Tail(q) = t
           /\ Apart(Items(q))
           /\ ToSet(Items(q)) = ToSet(Items(t)) \cup {s.item}
           /\ Calls(q) = s.usage.calls + Calls(t)
           /\ Tools(q) = s.usage.tools + Tools(t)
           /\ Resumable(t) /\ (s.pending > 0 => s.calls >= 1) => Resumable(q)
<1>1. /\ q \in Seq(SessionRecord) /\ q # <<>> /\ Head(q) = s /\ Tail(q) = t
      /\ ToSet(q) = ToSet(t) \cup {s}
  BY QueueHead
<1> DEFINE p == Items(q)
           u == Items(t)
<1>2. p \in Seq(WorkItems) /\ p # <<>> /\ u = Tail(p) /\ Head(p) = s.item
  BY <1>1, ItemsTail
<1>3. Apart(u) /\ s.item \notin ToSet(u)
  OBVIOUS
<1> HIDE DEF p, u
<1>4. ToSet(p) = ToSet(Tail(p)) \cup {Head(p)}
      /\ (Apart(Tail(p)) /\ Head(p) \notin ToSet(Tail(p)) => Apart(p))
  BY <1>2, HeadAndTail
<1>5. Calls(q) = s.usage.calls + Calls(t)
  BY <1>1, Measures, MeasureOf, TotalTail DEF Calls
<1>6. Tools(q) = s.usage.tools + Tools(t)
  BY <1>1, Measures, MeasureOf, TotalTail DEF Tools
<1>7. Resumable(t) /\ (s.pending > 0 => s.calls >= 1) => Resumable(q)
  BY <1>1 DEF Resumable
<1> QED BY <1>1, <1>2, <1>3, <1>4, <1>5, <1>6, <1>7 DEF p, u

\* The share of a phase is part of the budget.
LEMMA CapFacts ==
    ASSUME NEW m
    PROVE  /\ CapCalls(m) \in Nat /\ CapTools(m) \in Nat
           /\ CapCalls(m) <= MaxCalls /\ CapTools(m) <= MaxTools
BY BudgetFacts DEF CapCalls, CapTools

\* Within the budget nothing is clamped.
LEMMA RemainingIs ==
    ASSUME NEW m, m.used \in Usage, Within(m.used, CapCalls(m), CapTools(m))
    PROVE  /\ RemainingCalls(m) = CapCalls(m) - m.used.calls
           /\ RemainingTools(m) = CapTools(m) - m.used.tools
           /\ RemainingCalls(m) \in Nat /\ RemainingTools(m) \in Nat
           /\ m.used.calls \in Nat /\ m.used.tools \in Nat
<1>1. /\ m.used.calls \in Nat /\ m.used.calls <= CapCalls(m)
      /\ m.used.tools \in Nat /\ m.used.tools <= CapTools(m)
      /\ CapCalls(m) \in Nat /\ CapTools(m) \in Nat
  BY CapFacts DEF Usage, Within
<1>2. /\ MaxCalls - (IF m.row.phase = "candidate" THEN CallReserve ELSE 0) = CapCalls(m)
      /\ MaxTools - (IF m.row.phase = "candidate" THEN ToolReserve ELSE 0) = CapTools(m)
  BY SchedulerAssumption DEF CapCalls, CapTools, CandidateCalls, CandidateTools
<1>3. /\ RemainingCalls(m) = Clamp(CapCalls(m) - m.used.calls)
      /\ RemainingTools(m) = Clamp(CapTools(m) - m.used.tools)
  BY <1>2 DEF RemainingCalls, RemainingTools
<1> QED BY <1>1, <1>3 DEF Clamp

\* What is done is a set of work items.
LEMMA DoneAreItems ==
    ASSUME NEW row \in Progress, NEW phase
    PROVE  DoneItems(row, phase) \in SUBSET WorkItems
BY DEF DoneItems, Finished, InPhase, Progress, WorkCheckpoint

\* The measures of an empty queue.
LEMMA NoSessions ==
    /\ <<>> \in Seq(SessionRecord) /\ Items(<<>>) = <<>>
    /\ Calls(<<>>) = 0 /\ Tools(<<>>) = 0 /\ Protected(<<>>) = 0
    /\ Resumable(<<>>) /\ ToSet(<<>>) = {}
<1>1. <<>> \in Seq(SessionRecord)
  OBVIOUS
<1>2. Items(<<>>) = <<>>
  <2> DEFINE q == <<>>
             f == ItemOf
  <2>1. q \in Seq(SessionRecord) /\ q = <<>> /\ Maps(f, SessionRecord, WorkItems)
    BY <1>1, Measures
  <2> HIDE DEF q, f
  <2>2. Mapped(f, q) = <<>>
    BY <2>1, MapSeq
  <2> QED BY <2>1, <2>2 DEF Items, f
<1>3. Calls(<<>>) = 0 /\ Tools(<<>>) = 0 /\ Total(SlotsOf, <<>>) = 0
  BY <1>1, Measures, TotalNat DEF Calls, Tools
<1>4. Protected(<<>>) = 0
  BY <1>1, <1>3, ProtectedIs
<1>5. ToSet(<<>>) = {}
  BY DEF ToSet
<1> QED BY <1>1, <1>2, <1>3, <1>4, <1>5 DEF Resumable

\* A phase that begins, or goes on in a new attempt.
LEMMA Begun ==
    ASSUME NEW row, RowInv(row), row.phase \in Phases, NEW used \in Usage,
           NEW m, m = Queued(row, used),
           Within(used, CapCalls(m), CapTools(m)),
           Within(Add(row.charged, Charged(row, row.phase)), used.calls, used.tools)
    PROVE  MemoryInv(m, "turn")
<1> DEFINE p == row.phase
           U == Undecided(row)
<1>0. row \in Progress /\ Checked(row) /\ Forest(row, p)
  BY DEF RowInv, Phases
<1>1. U \in SUBSET WorkItems /\ Disjoint(U) /\ IsFiniteSet(U)
  BY <1>0, UndecidedItems
<1>2. \A c \in InPhase(row, p) : c.status # "STOPPED"
  BY <1>0 DEF Checked, InPhase
<1>3. /\ m.row = row /\ m.used = used /\ m.done = DoneItems(row, p) /\ m.stopped = {}
      /\ m.waiting = InOrder(U) /\ m.active = <<>>
      /\ m.limited = \E c \in {d \in InPhase(row, p) : d.status # "SPLIT"} : c.limited
  BY <1>2 DEF Queued, DoneItems
<1>4. InOrder(U) \in Seq(WorkItems) /\ Apart(InOrder(U)) /\ ToSet(InOrder(U)) = U
  <2> HIDE DEF U
  <2> QED BY <1>1, Ordered
<1>5. m \in Memory
  <2>1. DoneItems(row, p) \in SUBSET WorkItems
    BY <1>0, DoneAreItems
  <2>2. <<>> \in Seq(SessionRecord)
    BY NoSessions
  <2>3. m.limited \in BOOLEAN
    BY <1>3
  <2> DEFINE d == DoneItems(row, p)
             q == InOrder(U)
             l == m.limited
             e == <<>>
  <2>4. m = [row |-> row, used |-> used, done |-> d, stopped |-> {},
             waiting |-> q, active |-> e, limited |-> l]
    <3>1. m = Queued(row, used)
      OBVIOUS
    <3>2. Queued(row, used).limited = l
      BY <3>1
    <3>3. Queued(row, used) = [row |-> row, used |-> used, done |-> d, stopped |-> {},
             waiting |-> q, active |-> e, limited |-> Queued(row, used).limited]
      BY <1>2 DEF Queued, DoneItems
    <3> QED BY <3>1, <3>2, <3>3
  <2>5. d \in SUBSET WorkItems /\ {} \in SUBSET WorkItems /\ q \in Seq(WorkItems)
        /\ e \in Seq(SessionRecord) /\ l \in BOOLEAN
    BY <1>4, <2>1, <2>2, <2>3
  <2> HIDE DEF d, q, l, e
  <2> QED BY <1>0, <2>4, <2>5 DEF Memory
<1>6. TakenOver(m)
  <2>1. Unlimited(row, p) \/ m.limited
    BY <1>3 DEF Unlimited
  <2> QED BY <1>3, <2>1 DEF TakenOver
<1>7. QueuesExact(m)
  <2>1. Apart(Items(<<>>)) /\ ToSet(Items(<<>>)) = {}
    <3>1. Apart(<<>>)
      BY DEF Apart
    <3> QED BY <3>1, NoSessions
  <2> QED BY <1>3, <1>4, <2>1 DEF QueuesExact
<1>8. Charged(row, p) \in Usage /\ row.charged \in Usage
  BY <1>0, ChargeOf DEF Checked, Progress
<1>9. Budgeted(m)
  <2>1. Calls(m.active) = 0 /\ Tools(m.active) = 0
    BY <1>3, NoSessions
  <2> DEFINE u == Charged(row, p)
             v == row.charged
  <2>2. Within(Add(v, u), used.calls, used.tools) /\ v.calls \in Nat /\ v.tools \in Nat
        /\ u.calls \in Nat /\ u.tools \in Nat
    BY <1>8 DEF Usage
  <2> HIDE DEF u, v
  <2>3. v.calls + u.calls + 0 <= used.calls /\ v.tools + u.tools + 0 <= used.tools
    BY <2>2 DEF Within, Add
  <2> QED BY <1>3, <2>1, <2>3 DEF Budgeted, u, v
<1>10. Answerable(m, "turn")
  <2>1. Protected(m.active) = 0
    BY <1>3, NoSessions
  <2>2. RemainingCalls(m) \in Nat
    BY <1>3, RemainingIs
  <2> QED BY <2>1, <2>2 DEF Answerable
<1>11. Resumable(m.active)
  BY <1>3, NoSessions
<1> QED BY <1>5, <1>6, <1>7, <1>9, <1>10, <1>11 DEF MemoryInv

\* What a new attempt finds charged is within its budget.
LEMMA AttemptBegins ==
    ASSUME NEW row, RowInv(row), row.phase \in Phases
    PROVE  MemoryInv(Loaded(row), "turn") /\ Loaded(row).row = row
<1> DEFINE p == row.phase
           u == Charged(row, p)
           v == row.charged
           used == IF p = "candidate" THEN u ELSE Add(v, u)
           m == Queued(row, used)
<1>0. row \in Progress /\ Checked(row) /\ Affordable(row)
  BY DEF RowInv
<1>1. u \in Usage /\ v \in Usage
  BY <1>0, ChargeOf DEF Checked, Progress
<1>2. used \in Usage
  <2> HIDE DEF u, v
  <2> QED BY <1>1 DEF Usage, Add
<1>3. m.row = row
  BY DEF Queued
<1>4. Loaded(row) = m
  BY DEF Loaded, Phases
<1>5. Within(used, CapCalls(m), CapTools(m))
  <2>1. CASE p = "candidate"
    BY <1>0, <1>3, <2>1 DEF Affordable, CapCalls, CapTools
  <2>2. CASE p = "verification"
    BY <1>0, <1>3, <2>2 DEF Affordable, CapCalls, CapTools
  <2> QED BY <2>1, <2>2 DEF Phases
<1>6. Within(Add(v, u), used.calls, used.tools)
  <2> HIDE DEF u
  <2>1. CASE p = "candidate"
    <3>1. v = NoUsage
      BY <1>0, <2>1 DEF Affordable
    <3> QED BY <1>1, <2>1, <3>1 DEF Within, Add, NoUsage, Usage
  <2>2. CASE p # "candidate"
    <3> HIDE DEF v
    <3>1. used = Add(v, u) /\ Add(v, u) \in Usage
      BY <1>2, <2>2
    <3> QED BY <3>1 DEF Within, Usage
  <2> QED BY <2>1, <2>2
<1> HIDE DEF used, m
<1>7. m = Queued(row, used)
  BY DEF m
<1>8. MemoryInv(m, "turn")
  BY <1>2, <1>5, <1>6, <1>7, Begun
<1> QED BY <1>3, <1>4, <1>8

\* The session at the head goes to the end of the queue, its item unchanged.
LEMMA SessionTurns ==
    ASSUME NEW q \in Seq(SessionRecord), q # <<>>, Apart(Items(q)), Resumable(q),
           NEW s \in SessionRecord, s.item = Head(q).item, s.pending > 0 => s.calls >= 1,
           NEW t, t = Append(Tail(q), s)
    PROVE  /\ t \in Seq(SessionRecord) /\ t # <<>>
           /\ Apart(Items(t))
           /\ ToSet(Items(t)) = ToSet(Items(q))
           /\ Calls(t) = Calls(Tail(q)) + s.usage.calls
           /\ Tools(t) = Tools(Tail(q)) + s.usage.tools
           /\ Protected(t) = Protected(Tail(q)) + Slots(s)
           /\ Resumable(t)
<1> DEFINE r == Tail(q)
<1>1. /\ r \in Seq(SessionRecord) /\ Apart(Items(r)) /\ Resumable(r)
      /\ ToSet(Items(r)) = ToSet(Items(q)) \ {s.item} /\ s.item \in ToSet(Items(q))
  BY SessionLeaves
<1> HIDE DEF r
<1>2. s.item \notin ToSet(Items(r))
  BY <1>1
<1>3. /\ Append(r, s) \in Seq(SessionRecord)
      /\ Apart(Items(Append(r, s)))
      /\ ToSet(Items(Append(r, s))) = ToSet(Items(r)) \cup {s.item}
      /\ Calls(Append(r, s)) = Calls(r) + s.usage.calls
      /\ Tools(Append(r, s)) = Tools(r) + s.usage.tools
      /\ Protected(Append(r, s)) = Protected(r) + Slots(s)
      /\ Resumable(Append(r, s))
  BY <1>1, <1>2, SessionJoins
<1>4. Append(r, s) # <<>>
  BY <1>1, AppendProperties
<1> QED BY <1>1, <1>3, <1>4 DEF r

\* Two memories of one phase with the same charges have the same budget.
LEMMA SameBudget ==
    ASSUME NEW m, NEW n, n.row.phase = m.row.phase, n.used = m.used
    PROVE  /\ RemainingCalls(n) = RemainingCalls(m) /\ RemainingTools(n) = RemainingTools(m)
           /\ CapCalls(n) = CapCalls(m) /\ CapTools(n) = CapTools(m)
BY DEF RemainingCalls, RemainingTools, CapCalls, CapTools

\* The queues change, what they hold and have used does not.
LEMMA Requeued ==
    ASSUME NEW m, NEW label, MemoryInv(m, label),
           NEW n \in Memory, n.row = m.row, n.used = m.used, n.done = m.done,
           n.stopped = m.stopped, n.limited = m.limited,
           QueuesExact(n), Calls(n.active) = Calls(m.active), Tools(n.active) = Tools(m.active),
           NEW next, Answerable(n, next), Resumable(n.active)
    PROVE  MemoryInv(n, next) /\ n.row = m.row
<1>1. TakenOver(n)
  BY DEF MemoryInv, TakenOver
<1>2. Budgeted(n)
  <2>1. CapCalls(n) = CapCalls(m) /\ CapTools(n) = CapTools(m)
    BY SameBudget
  <2> QED BY <2>1 DEF MemoryInv, Budgeted
<1> QED BY <1>1, <1>2 DEF MemoryInv

\* What a worker may rely on.
LEMMA MemoryFacts ==
    ASSUME NEW m, NEW label, MemoryInv(m, label)
    PROVE  /\ m.row \in Progress /\ m.used \in Usage /\ m.done \in SUBSET WorkItems
           /\ m.stopped = {} /\ m.waiting \in Seq(WorkItems)
           /\ m.active \in Seq(SessionRecord) /\ m.limited \in BOOLEAN
           /\ RowInv(m.row) /\ Checked(m.row) /\ m.row.phase \in Phases
           /\ Apart(m.waiting) /\ Apart(Items(m.active)) /\ Resumable(m.active)
           /\ ToSet(m.waiting) \cap ToSet(Items(m.active)) = {}
           /\ RemainingCalls(m) = CapCalls(m) - m.used.calls
           /\ RemainingTools(m) = CapTools(m) - m.used.tools
           /\ RemainingCalls(m) \in Nat /\ RemainingTools(m) \in Nat
           /\ m.used.calls \in Nat /\ m.used.tools \in Nat
           /\ Protected(m.active) \in Nat
<1>1. /\ m.row \in Progress /\ m.used \in Usage /\ m.done \in SUBSET WorkItems
      /\ m.waiting \in Seq(WorkItems)
      /\ m.active \in Seq(SessionRecord) /\ m.limited \in BOOLEAN
  BY DEF MemoryInv, Memory
<1>2. RowInv(m.row) /\ Checked(m.row) /\ m.row.phase \in Phases /\ m.stopped = {}
  BY DEF MemoryInv, TakenOver, RowInv
<1>3. /\ Apart(m.waiting) /\ Apart(Items(m.active)) /\ Resumable(m.active)
      /\ ToSet(m.waiting) \cap ToSet(Items(m.active)) = {}
  BY DEF MemoryInv, QueuesExact
<1>4. Within(m.used, CapCalls(m), CapTools(m))
  BY DEF MemoryInv, Budgeted
<1>5. Protected(m.active) \in Nat
  BY <1>1, ProtectedIs
<1>6. /\ RemainingCalls(m) = CapCalls(m) - m.used.calls
      /\ RemainingTools(m) = CapTools(m) - m.used.tools
      /\ RemainingCalls(m) \in Nat /\ RemainingTools(m) \in Nat
      /\ m.used.calls \in Nat /\ m.used.tools \in Nat
  BY <1>1, <1>4, RemainingIs
<1> QED BY <1>1, <1>2, <1>3, <1>5, <1>6

\* A waiting item is admitted.
LEMMA Admitted ==
    ASSUME NEW m, MemoryInv(m, "turn"), CanAdmit(m),
           NEW n, n = [m EXCEPT !.waiting = Tail(@),
                        !.active = Append(@, Session(Head(m.waiting),
                                                     Min({SlotsWanted(m), Spare(m)})))]
    PROVE  MemoryInv(n, "turn") /\ n.row = m.row
<1> DEFINE x == Head(m.waiting)
           slots == Min({SlotsWanted(m), Spare(m)})
           s == Session(x, slots)
           q == m.waiting
           a == m.active
<1>1. /\ q \in Seq(WorkItems) /\ q # <<>> /\ Apart(q)
      /\ a \in Seq(SessionRecord) /\ Apart(Items(a)) /\ Resumable(a)
      /\ ToSet(q) \cap ToSet(Items(a)) = {}
      /\ RemainingCalls(m) \in Nat /\ Protected(a) \in Nat
  BY MemoryFacts DEF CanAdmit
<1>2. x \in ToSet(q) /\ x \in WorkItems /\ Tail(q) \in Seq(WorkItems) /\ Apart(Tail(q))
      /\ ToSet(Tail(q)) = ToSet(q) \ {x}
  BY <1>1, QueueTail
<1>3. slots \in {1, 2} /\ slots <= Spare(m)
  <2>1. Spare(m) \in Int /\ Spare(m) >= 1 /\ SlotsWanted(m) \in {1, 2}
    <3>1. Protected(a) <= RemainingCalls(m)
      BY DEF MemoryInv, Answerable
    <3>2. SlotsWanted(m) \in {1, 2}
      BY DEF SlotsWanted
    <3>3. Spare(m) \in Int
      BY <1>1 DEF Spare
    <3> QED BY <3>2, <3>3 DEF CanAdmit
  <2>2. /\ Min({SlotsWanted(m), Spare(m)}) \in {SlotsWanted(m), Spare(m)}
        /\ Min({SlotsWanted(m), Spare(m)}) <= SlotsWanted(m)
        /\ Min({SlotsWanted(m), Spare(m)}) <= Spare(m)
    BY <2>1, MinOfTwo
  <2> QED BY <2>1, <2>2
<1>4. /\ s \in SessionRecord /\ s.item = x /\ s.usage.calls = 0 /\ s.usage.tools = 0
      /\ Slots(s) = slots /\ s.pending = 0
  <2> HIDE DEF x, slots
  <2> QED BY <1>2, <1>3 DEF Session, SessionRecord, Usage, NoUsage, Slots
<1>5. n.row = m.row /\ n.used = m.used /\ n.done = m.done /\ n.stopped = m.stopped
      /\ n.limited = m.limited /\ n.waiting = Tail(q) /\ n.active = Append(a, s)
  <2> HIDE DEF s
  <2>1. n = [m EXCEPT !.waiting = Tail(@), !.active = Append(@, s)]
    BY DEF s
  <2> QED BY <2>1 DEF MemoryInv, Memory
<1> HIDE DEF x, slots, s
<1>6. s.item \notin ToSet(Items(a))
  BY <1>1, <1>2, <1>4
<1>7. /\ Append(a, s) \in Seq(SessionRecord)
      /\ Apart(Items(Append(a, s)))
      /\ ToSet(Items(Append(a, s))) = ToSet(Items(a)) \cup {x}
      /\ Calls(Append(a, s)) = Calls(a) + s.usage.calls
      /\ Tools(Append(a, s)) = Tools(a) + s.usage.tools
      /\ Protected(Append(a, s)) = Protected(a) + Slots(s)
      /\ Resumable(Append(a, s))
  BY <1>1, <1>4, <1>6, SessionJoins
<1>8. Calls(a) \in Nat /\ Tools(a) \in Nat
  BY <1>1, Measures, TotalNat DEF Calls, Tools
<1>9. n \in Memory
  <2> DEFINE t == Append(a, s)
             u == Tail(q)
  <2>1. n = [m EXCEPT !.waiting = u, !.active = t]
    BY DEF s, x, slots
  <2> HIDE DEF t, u
  <2>2. t \in Seq(SessionRecord) /\ u \in Seq(WorkItems)
    BY <1>2, <1>7 DEF t, u
  <2> QED BY <2>1, <2>2 DEF Memory, MemoryInv
<1>10. QueuesExact(n)
  <2>1. Undecided(m.row) = ToSet(q) \cup ToSet(Items(a))
    BY DEF MemoryInv, QueuesExact
  <2> DEFINE Q == ToSet(q)
             A == ToSet(Items(a))
             R == ToSet(Tail(q))
             B == ToSet(Items(Append(a, s)))
  <2>2. x \in Q /\ R = Q \ {x} /\ B = A \cup {x} /\ Q \cap A = {}
    BY <1>1, <1>2, <1>7
  <2>3. R \cap B = {} /\ Q \cup A = R \cup B
    <3> HIDE DEF Q, A, R, B
    <3> QED BY <2>2
  <2> QED BY <1>2, <1>5, <1>7, <2>1, <2>3 DEF QueuesExact
<1>11. Answerable(n, "turn")
  <2>1. RemainingCalls(n) = RemainingCalls(m)
    BY <1>5, SameBudget
  <2>2. Protected(a) + Slots(s) <= RemainingCalls(m)
    BY <1>1, <1>3, <1>4 DEF Spare
  <2> QED BY <1>5, <1>7, <2>1, <2>2 DEF Answerable
<1>12. Calls(n.active) = Calls(m.active) /\ Tools(n.active) = Tools(m.active)
  BY <1>4, <1>5, <1>7, <1>8
<1>13. Resumable(n.active)
  BY <1>5, <1>7
<1> QED BY <1>5, <1>9, <1>10, <1>11, <1>12, <1>13, Requeued

\* What is known of the session at the head of the queue.
LEMMA CurrentFacts ==
    ASSUME NEW m, NEW label, MemoryInv(m, label), m.active # <<>>
    PROVE  LET s == Current(m) IN
           /\ s \in SessionRecord /\ s.item \in WorkItems /\ s.usage \in Usage
           /\ s.usage.calls \in Nat /\ s.usage.tools \in Nat
           /\ s.calls \in Nat /\ s.rounds \in Nat /\ s.pending \in Nat
           /\ s.final \in BOOLEAN /\ s.limited \in BOOLEAN /\ s.dup \in BOOLEAN
           /\ s.pending > 0 => s.calls >= 1
           /\ s.item \in Undecided(m.row)
           /\ Tail(m.active) \in Seq(SessionRecord)
           /\ Calls(m.active) = s.usage.calls + Calls(Tail(m.active))
           /\ Tools(m.active) = s.usage.tools + Tools(Tail(m.active))
           /\ Calls(Tail(m.active)) \in Nat /\ Tools(Tail(m.active)) \in Nat
           /\ Protected(m.active) = Slots(s) + Protected(Tail(m.active))
           /\ Protected(Tail(m.active)) \in Nat
           /\ Slots(s) \in {1, 2} /\ (s.calls >= 1 => Slots(s) = 1)
<1> DEFINE q == m.active
           s == Current(m)
<1>1. /\ q \in Seq(SessionRecord) /\ Apart(Items(q)) /\ Resumable(q) /\ q # <<>>
      /\ Undecided(m.row) = ToSet(m.waiting) \cup ToSet(Items(q))
  BY MemoryFacts DEF MemoryInv, QueuesExact
<1>2. s = Head(q)
  BY DEF Current
<1> HIDE DEF q, s
<1>3. /\ s \in SessionRecord /\ s \in ToSet(q) /\ s.item \in ToSet(Items(q))
      /\ Tail(q) \in Seq(SessionRecord)
      /\ Calls(q) = s.usage.calls + Calls(Tail(q))
      /\ Tools(q) = s.usage.tools + Tools(Tail(q))
      /\ Calls(Tail(q)) \in Nat /\ Tools(Tail(q)) \in Nat
      /\ Protected(q) = Slots(s) + Protected(Tail(q))
      /\ Protected(Tail(q)) \in Nat
  BY <1>1, <1>2, SessionLeaves
<1>4. /\ s.item \in WorkItems /\ s.usage \in Usage
      /\ s.usage.calls \in Nat /\ s.usage.tools \in Nat
      /\ Slots(s) \in {1, 2} /\ (s.calls >= 1 => Slots(s) = 1)
  BY <1>3, MeasureOf
<1>5. /\ s.calls \in Nat /\ s.rounds \in Nat /\ s.pending \in Nat
      /\ s.final \in BOOLEAN /\ s.limited \in BOOLEAN /\ s.dup \in BOOLEAN
  BY <1>3 DEF SessionRecord
<1>6. s.pending > 0 => s.calls >= 1
  BY <1>1, <1>3 DEF Resumable
<1> QED BY <1>1, <1>3, <1>4, <1>5, <1>6 DEF q, s

\* Turned(m, s) is a memory; only its queue differs.
LEMMA TurnedIs ==
    ASSUME NEW m \in Memory, NEW s, Append(Tail(m.active), s) \in Seq(SessionRecord),
           NEW n, n = Turned(m, s)
    PROVE  /\ n \in Memory /\ n.row = m.row /\ n.used = m.used /\ n.done = m.done
           /\ n.stopped = m.stopped /\ n.waiting = m.waiting /\ n.limited = m.limited
           /\ n.active = Append(Tail(m.active), s)
<1> DEFINE t == Append(Tail(m.active), s)
<1>1. n = [m EXCEPT !.active = t]
  BY DEF Turned
<1>2. t \in Seq(SessionRecord)
  OBVIOUS
<1> HIDE DEF t
<1>3. n \in Memory
  BY <1>1, <1>2 DEF Memory
<1>4. /\ n.row = m.row /\ n.used = m.used /\ n.done = m.done
      /\ n.stopped = m.stopped /\ n.waiting = m.waiting /\ n.limited = m.limited
      /\ n.active = t
  BY <1>1 DEF Memory
<1> QED BY <1>3, <1>4 DEF t

\* The turn passes on.
LEMMA TurnPasses ==
    ASSUME NEW m, NEW label, MemoryInv(m, label), m.active # <<>>,
           NEW s \in SessionRecord, s.item = Current(m).item,
           s.usage = Current(m).usage, s.pending > 0 => s.calls >= 1,
           Protected(Tail(m.active)) + Slots(s) <= RemainingCalls(m),
           NEW n, n = Turned(m, s)
    PROVE  MemoryInv(n, "turn") /\ n.row = m.row
<1> DEFINE q == m.active
           t == Append(Tail(q), s)
<1>1. /\ q \in Seq(SessionRecord) /\ q # <<>> /\ Apart(Items(q)) /\ Resumable(q)
      /\ s.item = Head(q).item
  BY MemoryFacts DEF Current
<1>2. /\ Calls(q) = s.usage.calls + Calls(Tail(q)) /\ Tools(q) = s.usage.tools + Tools(Tail(q))
      /\ Calls(Tail(q)) \in Nat /\ Tools(Tail(q)) \in Nat
      /\ s.usage.calls \in Nat /\ s.usage.tools \in Nat
  BY CurrentFacts
<1>3. t = Append(Tail(q), s)
  OBVIOUS
<1> HIDE DEF q, t
<1>4. /\ t \in Seq(SessionRecord)
      /\ Apart(Items(t))
      /\ ToSet(Items(t)) = ToSet(Items(q))
      /\ Calls(t) = Calls(Tail(q)) + s.usage.calls
      /\ Tools(t) = Tools(Tail(q)) + s.usage.tools
      /\ Protected(t) = Protected(Tail(q)) + Slots(s)
      /\ Resumable(t)
  BY <1>1, <1>3, SessionTurns
<1>5. /\ n \in Memory /\ n.row = m.row /\ n.used = m.used /\ n.done = m.done
      /\ n.stopped = m.stopped /\ n.waiting = m.waiting /\ n.limited = m.limited
      /\ n.active = t
  BY <1>3, <1>4, TurnedIs DEF MemoryInv, q
<1>6. QueuesExact(n)
  BY <1>4, <1>5 DEF MemoryInv, QueuesExact, q
<1>7. Calls(t) = Calls(q) /\ Tools(t) = Tools(q)
  BY <1>2, <1>4
<1>8. Answerable(n, "turn")
  <2>1. RemainingCalls(n) = RemainingCalls(m)
    BY <1>5, SameBudget
  <2>2. Protected(t) <= RemainingCalls(m)
    BY <1>4 DEF q
  <2> QED BY <1>5, <2>1, <2>2 DEF Answerable
<1> QED BY <1>4, <1>5, <1>6, <1>7, <1>8, Requeued DEF q

\* A session whose tool call costs nothing.
LEMMA ToolSkipped ==
    ASSUME NEW m, MemoryInv(m, "turn"), m.active # <<>>, Current(m).pending > 0,
           NEW s \in SessionRecord, s.item = Current(m).item,
           s.usage = Current(m).usage, s.calls = Current(m).calls,
           NEW n, n = Turned(m, s)
    PROVE  MemoryInv(n, "turn") /\ n.row = m.row
<1> DEFINE c == Current(m)
<1>1. /\ c \in SessionRecord /\ c.pending \in Nat /\ c.pending > 0 /\ c.calls >= 1
      /\ Slots(c) = 1 /\ Protected(m.active) = Slots(c) + Protected(Tail(m.active))
      /\ c.calls \in Nat /\ Protected(Tail(m.active)) \in Nat
  BY CurrentFacts
<1>4. s.item = c.item /\ s.usage = c.usage /\ s.calls = c.calls
  OBVIOUS
<1> HIDE DEF c
<1>5. Slots(s) = 1
  BY <1>1, <1>4 DEF Slots
<1>6. Protected(Tail(m.active)) + Slots(s) <= RemainingCalls(m)
  <2>1. Protected(m.active) <= RemainingCalls(m)
    BY DEF MemoryInv, Answerable
  <2>2. RemainingCalls(m) \in Nat
    BY MemoryFacts
  <2> QED BY <1>1, <1>5, <2>1, <2>2
<1> QED BY <1>1, <1>4, <1>6, TurnPasses DEF c

\* A repeated tool call: nothing is charged.
LEMMA Repeated ==
    ASSUME NEW m, MemoryInv(m, "turn"), m.active # <<>>, Current(m).pending > 0,
           NEW final \in BOOLEAN,
           NEW s, s = [Current(m) EXCEPT !.pending = Current(m).pending - 1, !.final = final],
           NEW n, n = Turned(m, s)
    PROVE  MemoryInv(n, "turn") /\ n.row = m.row
<1> DEFINE c == Current(m)
           k == c.pending - 1
<1>1. c \in SessionRecord /\ c.pending \in Nat /\ c.pending > 0
  BY CurrentFacts
<1>2. s = [c EXCEPT !.pending = k, !.final = final] /\ k \in Nat
  BY <1>1
<1> HIDE DEF c, k
<1>3. s \in SessionRecord
  BY <1>1, <1>2 DEF SessionRecord
<1>4. s.item = c.item /\ s.usage = c.usage /\ s.calls = c.calls
  BY <1>1, <1>2 DEF SessionRecord
<1> QED BY <1>3, <1>4, ToolSkipped DEF c

\* A tool call the budget has no room for: nothing is charged.
LEMMA Refused ==
    ASSUME NEW m, MemoryInv(m, "turn"), m.active # <<>>, Current(m).pending > 0,
           NEW s, s = [Current(m) EXCEPT !.pending = @ - 1, !.limited = TRUE,
                                        !.final = TRUE, !.dup = FALSE],
           NEW n, n = Turned(m, s)
    PROVE  MemoryInv(n, "turn") /\ n.row = m.row
<1> DEFINE c == Current(m)
           k == c.pending - 1
<1>1. c \in SessionRecord /\ c.pending \in Nat /\ c.pending > 0
  BY CurrentFacts
<1>2. s = [c EXCEPT !.pending = k, !.limited = TRUE, !.final = TRUE, !.dup = FALSE]
      /\ k \in Nat
  BY <1>1
<1> HIDE DEF c, k
<1>3. s \in SessionRecord
  BY <1>1, <1>2 DEF SessionRecord
<1>4. s.item = c.item /\ s.usage = c.usage /\ s.calls = c.calls
  BY <1>1, <1>2 DEF SessionRecord
<1> QED BY <1>3, <1>4, ToolSkipped DEF c

\* An answer that asks for repository reads: nothing more is charged.
LEMMA Answered ==
    ASSUME NEW m, MemoryInv(m, "asked"), ~Current(m).final, NEW k \in Nat,
           NEW s, s = [Current(m) EXCEPT !.pending = k, !.rounds = @ + 1, !.dup = TRUE],
           NEW n, n = Turned(m, s)
    PROVE  MemoryInv(n, "turn") /\ n.row = m.row
<1> DEFINE c == Current(m)
<1>0. m.active # <<>> /\ c.calls >= 1 /\ Protected(Tail(m.active)) + 1 <= RemainingCalls(m)
  BY DEF MemoryInv, Answerable, Current
<1>1. c \in SessionRecord /\ c.rounds \in Nat /\ c.calls \in Nat
  BY <1>0, CurrentFacts
<1> DEFINE r == c.rounds + 1
<1>2. s = [c EXCEPT !.pending = k, !.rounds = r, !.dup = TRUE] /\ r \in Nat
  BY <1>1
<1> HIDE DEF c, r
<1>3. s \in SessionRecord
  BY <1>1, <1>2 DEF SessionRecord
<1>4. s.item = c.item /\ s.usage = c.usage /\ s.calls = c.calls
  BY <1>1, <1>2 DEF SessionRecord
<1>5. Slots(s) = 1
  BY <1>0, <1>1, <1>4 DEF Slots
<1> QED BY <1>0, <1>3, <1>4, <1>5, TurnPasses DEF c

\* The row stays as it is.
LEMMA Carried ==
    ASSUME NEW m, NEW label, MemoryInv(m, label),
           NEW n \in Memory, n.row = m.row, n.done = m.done,
           n.stopped = m.stopped, n.limited = m.limited,
           QueuesExact(n), Budgeted(n),
           NEW next, Answerable(n, next), Resumable(n.active)
    PROVE  MemoryInv(n, next) /\ n.row = m.row
<1>1. TakenOver(n)
  BY DEF MemoryInv, TakenOver
<1> QED BY <1>1 DEF MemoryInv

\* How usages add up.
LEMMA AddUsage ==
    /\ OneCall \in Usage /\ OneTool \in Usage /\ NoUsage \in Usage
    /\ \A u, v \in Usage :
        /\ Add(u, v) \in Usage
        /\ Add(u, v).calls = u.calls + v.calls /\ Add(u, v).tools = u.tools + v.tools
    /\ \A u \in Usage :
        /\ Add(u, OneCall).calls = u.calls + 1 /\ Add(u, OneCall).tools = u.tools
        /\ Add(u, OneTool).calls = u.calls /\ Add(u, OneTool).tools = u.tools + 1
<1>1. OneCall \in Usage /\ OneTool \in Usage /\ NoUsage \in Usage
  BY DEF OneCall, OneTool, NoUsage, Usage
<1>2. ASSUME NEW u \in Usage, NEW v \in Usage
      PROVE  /\ Add(u, v) \in Usage
             /\ Add(u, v).calls = u.calls + v.calls /\ Add(u, v).tools = u.tools + v.tools
  BY DEF Add, Usage
<1>3. ASSUME NEW u \in Usage
      PROVE  /\ Add(u, OneCall).calls = u.calls + 1 /\ Add(u, OneCall).tools = u.tools
             /\ Add(u, OneTool).calls = u.calls /\ Add(u, OneTool).tools = u.tools + 1
  BY DEF Add, Usage, OneCall, OneTool
<1> QED BY <1>1, <1>2, <1>3

\* A repository read is charged to the session and to the budget.
LEMMA ReadCharged ==
    ASSUME NEW m, MemoryInv(m, "turn"), m.active # <<>>, Current(m).pending > 0,
           RemainingTools(m) > 0,
           NEW s, s = [Current(m) EXCEPT !.pending = @ - 1, !.usage = Add(@, OneTool),
                                        !.dup = FALSE],
           NEW n, n = [Turned(m, s) EXCEPT !.used = Add(@, OneTool)]
    PROVE  MemoryInv(n, "turn") /\ n.row = m.row
<1> DEFINE c == Current(m)
           q == m.active
           k == c.pending - 1
           u == Add(c.usage, OneTool)
           v == Add(m.used, OneTool)
           t == Append(Tail(q), s)
<1>1. /\ q \in Seq(SessionRecord) /\ q # <<>> /\ Apart(Items(q)) /\ Resumable(q)
      /\ c = Head(q) /\ m.used \in Usage /\ m \in Memory
      /\ m.used.calls \in Nat /\ m.used.tools \in Nat
      /\ RemainingTools(m) = CapTools(m) - m.used.tools /\ RemainingTools(m) \in Nat
      /\ RemainingCalls(m) \in Nat
  BY MemoryFacts DEF Current, MemoryInv
<1>2. /\ c \in SessionRecord /\ c.pending \in Nat /\ c.pending > 0 /\ c.calls >= 1
      /\ c.usage \in Usage /\ c.usage.calls \in Nat /\ c.usage.tools \in Nat
      /\ c.calls \in Nat /\ Slots(c) = 1
      /\ Calls(q) = c.usage.calls + Calls(Tail(q)) /\ Tools(q) = c.usage.tools + Tools(Tail(q))
      /\ Calls(Tail(q)) \in Nat /\ Tools(Tail(q)) \in Nat
      /\ Protected(q) = 1 + Protected(Tail(q)) /\ Protected(Tail(q)) \in Nat
  BY CurrentFacts
<1>3. /\ s = [c EXCEPT !.pending = k, !.usage = u, !.dup = FALSE]
      /\ k \in Nat /\ u \in Usage /\ u.calls = c.usage.calls /\ u.tools = c.usage.tools + 1
      /\ v \in Usage /\ v.calls = m.used.calls /\ v.tools = m.used.tools + 1
  <2>1. s = [c EXCEPT !.pending = k, !.usage = u, !.dup = FALSE]
    OBVIOUS
  <2>2. k \in Nat
    BY <1>2
  <2>3. u \in Usage /\ u.calls = c.usage.calls /\ u.tools = c.usage.tools + 1
    BY <1>2, AddUsage
  <2>4. v \in Usage /\ v.calls = m.used.calls /\ v.tools = m.used.tools + 1
    BY <1>1, AddUsage
  <2> QED BY <2>1, <2>2, <2>3, <2>4
<1>4. n = [Turned(m, s) EXCEPT !.used = v]
  <2>1. Turned(m, s).used = m.used
    BY <1>1 DEF Turned, Memory
  <2> QED BY <2>1
<1>5. t = Append(Tail(q), s)
  OBVIOUS
<1> HIDE DEF c, k, u, v, q, t
<1>6. s \in SessionRecord
  BY <1>2, <1>3 DEF SessionRecord
<1>7. s.item = c.item /\ s.usage = u /\ s.calls = c.calls
  BY <1>2, <1>3 DEF SessionRecord
<1>8. Slots(s) = 1
  BY <1>2, <1>7 DEF Slots
<1>9. /\ t \in Seq(SessionRecord) /\ t # <<>>
      /\ Apart(Items(t))
      /\ ToSet(Items(t)) = ToSet(Items(q))
      /\ Calls(t) = Calls(Tail(q)) + s.usage.calls
      /\ Tools(t) = Tools(Tail(q)) + s.usage.tools
      /\ Protected(t) = Protected(Tail(q)) + Slots(s)
      /\ Resumable(t)
  BY <1>1, <1>2, <1>5, <1>6, <1>7, SessionTurns
<1>10. n = [m EXCEPT !.active = t, !.used = v]
  BY <1>1, <1>4, <1>5 DEF Turned, Memory, q
<1>11. n \in Memory
  BY <1>1, <1>3, <1>9, <1>10 DEF Memory
<1>12. /\ n.row = m.row /\ n.done = m.done /\ n.stopped = m.stopped /\ n.waiting = m.waiting
       /\ n.limited = m.limited /\ n.active = t /\ n.used = v
  BY <1>1, <1>10 DEF Memory
<1>13. QueuesExact(n)
  BY <1>9, <1>12 DEF MemoryInv, QueuesExact, q
<1>14. CapCalls(n) = CapCalls(m) /\ CapTools(n) = CapTools(m)
       /\ CapCalls(m) \in Nat /\ CapTools(m) \in Nat
  BY <1>12, CapFacts DEF CapCalls, CapTools
<1>15. Budgeted(n)
  <2> DEFINE x == m.row.charged
             y == Charged(m.row, m.row.phase)
  <2>1. /\ Within(m.used, CapCalls(m), CapTools(m))
        /\ x.calls + y.calls + Calls(q) <= m.used.calls
        /\ x.tools + y.tools + Tools(q) <= m.used.tools
    BY DEF MemoryInv, Budgeted, q
  <2>2. x \in Usage /\ y \in Usage
    BY MemoryFacts, ChargeOf DEF Checked, Progress
  <2>3. /\ x.calls \in Nat /\ x.tools \in Nat /\ y.calls \in Nat /\ y.tools \in Nat
    BY <2>2 DEF Usage
  <2>4. n.row.charged = x /\ Charged(n.row, n.row.phase) = y
    BY <1>12
  <2> HIDE DEF x, y
  <2>5. Within(v, CapCalls(m), CapTools(m))
    BY <1>1, <1>3, <1>14, <2>1 DEF Within
  <2>6. Calls(t) = Calls(q) /\ Tools(t) = Tools(q) + 1
        /\ Calls(q) \in Nat /\ Tools(q) \in Nat
    <3>1. s.usage.calls = c.usage.calls /\ s.usage.tools = c.usage.tools + 1
      BY <1>3, <1>7
    <3>2. /\ Calls(t) = Calls(Tail(q)) + s.usage.calls
          /\ Tools(t) = Tools(Tail(q)) + s.usage.tools
      BY <1>9
    <3>3. /\ c.usage.calls \in Nat /\ c.usage.tools \in Nat
          /\ Calls(q) = c.usage.calls + Calls(Tail(q))
          /\ Tools(q) = c.usage.tools + Tools(Tail(q))
          /\ Calls(Tail(q)) \in Nat /\ Tools(Tail(q)) \in Nat
      BY <1>2
    <3> QED BY SMTT(30), <3>1, <3>2, <3>3
  <2>7. x.calls + y.calls + Calls(t) <= v.calls /\ x.tools + y.tools + Tools(t) <= v.tools
    <3>1. /\ v.calls = m.used.calls + 0 /\ v.tools = m.used.tools + 1
          /\ m.used.calls \in Nat /\ m.used.tools \in Nat
      BY <1>1, <1>3
    <3> QED BY SMTT(30), <2>1, <2>3, <2>6, <3>1
  <2> QED BY <1>12, <1>14, <2>4, <2>5, <2>7 DEF Budgeted
<1>16. Answerable(n, "turn")
  <2>1. RemainingCalls(n) = RemainingCalls(m)
    BY <1>3, <1>12 DEF RemainingCalls
  <2>2. Protected(q) <= RemainingCalls(m)
    BY DEF MemoryInv, Answerable, q
  <2>3. Protected(t) = Protected(q)
    BY <1>2, <1>8, <1>9
  <2> QED BY <1>12, <2>1, <2>2, <2>3 DEF Answerable
<1> QED BY <1>9, <1>11, <1>12, <1>13, <1>15, <1>16, Carried

\* In its turn every session still has a call.
LEMMA CallLeft ==
    ASSUME NEW m, MemoryInv(m, "turn"), m.active # <<>>
    PROVE  Available(m) \in Nat /\ Available(m) >= 1
<1>1. /\ Protected(m.active) = Slots(Current(m)) + Protected(Tail(m.active))
      /\ Protected(Tail(m.active)) \in Nat /\ Slots(Current(m)) \in {1, 2}
  BY CurrentFacts
<1>2. RemainingCalls(m) \in Nat
  BY MemoryFacts
<1>3. Protected(m.active) <= RemainingCalls(m)
  BY DEF MemoryInv, Answerable
<1> QED BY <1>1, <1>2, <1>3 DEF Available

\* A call is charged to the session and to the budget before it is made.
LEMMA CallCharged ==
    ASSUME NEW m, MemoryInv(m, "turn"), m.active # <<>>, Current(m).pending = 0,
           NEW s \in SessionRecord, s.item = Current(m).item, s.calls = Current(m).calls + 1,
           s.usage = Add(Current(m).usage, OneCall), s.pending = 0,
           ~s.final => ~MustEnd(m),
           NEW t, t = <<s>> \o Tail(m.active),
           NEW n, n = [m EXCEPT !.used = Add(@, OneCall), !.active = t]
    PROVE  MemoryInv(n, "asked") /\ n.row = m.row
<1> DEFINE c == Current(m)
           q == m.active
           r == Tail(q)
           k == c.calls + 1
           u == Add(c.usage, OneCall)
           v == Add(m.used, OneCall)
<1>1. /\ q \in Seq(SessionRecord) /\ q # <<>> /\ Apart(Items(q)) /\ Resumable(q)
      /\ c = Head(q) /\ m.used \in Usage /\ m \in Memory
      /\ m.used.calls \in Nat /\ m.used.tools \in Nat
      /\ RemainingCalls(m) = CapCalls(m) - m.used.calls /\ RemainingCalls(m) \in Nat
  BY MemoryFacts DEF Current, MemoryInv
<1>2. /\ c \in SessionRecord /\ c.calls \in Nat
      /\ c.usage \in Usage /\ c.usage.calls \in Nat /\ c.usage.tools \in Nat
      /\ Calls(q) = c.usage.calls + Calls(r) /\ Tools(q) = c.usage.tools + Tools(r)
      /\ Calls(r) \in Nat /\ Tools(r) \in Nat /\ Protected(r) \in Nat
  BY CurrentFacts
<1>3. /\ k \in Nat /\ k >= 1
      /\ u \in Usage /\ u.calls = c.usage.calls + 1 /\ u.tools = c.usage.tools
      /\ v \in Usage /\ v.calls = m.used.calls + 1 /\ v.tools = m.used.tools
  <2>2. k \in Nat /\ k >= 1
    BY <1>2
  <2>3. u \in Usage /\ u.calls = c.usage.calls + 1 /\ u.tools = c.usage.tools
    BY <1>2, AddUsage
  <2>4. v \in Usage /\ v.calls = m.used.calls + 1 /\ v.tools = m.used.tools
    BY <1>1, AddUsage
  <2> QED BY <2>2, <2>3, <2>4
<1>4. t = <<s>> \o r /\ n = [m EXCEPT !.used = v, !.active = t]
  OBVIOUS
<1>5. /\ r \in Seq(SessionRecord) /\ Apart(Items(r)) /\ Resumable(r)
      /\ ToSet(Items(r)) = ToSet(Items(q)) \ {c.item} /\ c.item \in ToSet(Items(q))
  BY <1>1, SessionLeaves
<1>6. Available(m) = RemainingCalls(m) - Protected(r) /\ Available(m) >= 1
      /\ (~s.final => Available(m) >= 2)
  <2>1. Available(m) >= 1 /\ Available(m) \in Nat
    BY CallLeft
  <2>2. ~s.final => Available(m) # 1
    BY DEF MustEnd
  <2>3. Available(m) = RemainingCalls(m) - Protected(r)
    BY DEF Available
  <2> QED BY <2>1, <2>2, <2>3
<1> HIDE DEF c, k, u, v, q, r
<1>8. s.item = c.item /\ s.usage = u /\ s.calls = k
  BY DEF c, k, u
<1>9. /\ t \in Seq(SessionRecord) /\ t # <<>>
      /\ Head(t) = s /\ Tail(t) = r
      /\ Apart(Items(t))
      /\ ToSet(Items(t)) = ToSet(Items(r)) \cup {s.item}
      /\ Calls(t) = s.usage.calls + Calls(r)
      /\ Tools(t) = s.usage.tools + Tools(r)
      /\ Resumable(t)
  <2>1. s.item \notin ToSet(Items(r))
    BY <1>5, <1>8
  <2>2. t = <<s>> \o r /\ r \in Seq(SessionRecord) /\ Apart(Items(r)) /\ Resumable(r)
    BY <1>4, <1>5
  <2>3. s.pending > 0 => s.calls >= 1
    BY <1>8
  <2>4. t \in Seq(SessionRecord) /\ t # <<>> /\ Head(t) = s /\ Tail(t) = r
    BY ZenonT(60), <2>1, <2>2, SessionLeads
  <2>5. ToSet(Items(t)) = ToSet(Items(r)) \cup {s.item} /\ Apart(Items(t))
    BY ZenonT(60), <2>1, <2>2, SessionLeads
  <2>6. Calls(t) = s.usage.calls + Calls(r) /\ Tools(t) = s.usage.tools + Tools(r)
    BY <2>1, <2>2, SessionLeads
  <2>7. Resumable(t)
    BY <2>1, <2>2, <2>3, SessionLeads
  <2> QED BY <2>4, <2>5, <2>6, <2>7
<1>10. ToSet(Items(t)) = ToSet(Items(q))
  BY <1>5, <1>8, <1>9
<1>11. n \in Memory
  BY <1>1, <1>3, <1>4, <1>9 DEF Memory
<1>12. /\ n.row = m.row /\ n.done = m.done /\ n.stopped = m.stopped /\ n.waiting = m.waiting
       /\ n.limited = m.limited /\ n.active = t /\ n.used = v
  BY <1>1, <1>4 DEF Memory
<1>13. QueuesExact(n)
  BY <1>9, <1>10, <1>12 DEF MemoryInv, QueuesExact, q
<1>14. CapCalls(n) = CapCalls(m) /\ CapTools(n) = CapTools(m)
       /\ CapCalls(m) \in Nat /\ CapTools(m) \in Nat
  BY <1>12, CapFacts DEF CapCalls, CapTools
<1>15. Budgeted(n)
  <2> DEFINE x == m.row.charged
             y == Charged(m.row, m.row.phase)
  <2>1. /\ Within(m.used, CapCalls(m), CapTools(m))
        /\ x.calls + y.calls + Calls(q) <= m.used.calls
        /\ x.tools + y.tools + Tools(q) <= m.used.tools
    BY DEF MemoryInv, Budgeted, q
  <2>2. x \in Usage /\ y \in Usage
    BY MemoryFacts, ChargeOf DEF Checked, Progress
  <2>3. /\ x.calls \in Nat /\ x.tools \in Nat /\ y.calls \in Nat /\ y.tools \in Nat
    BY <2>2 DEF Usage
  <2>4. n.row.charged = x /\ Charged(n.row, n.row.phase) = y
    BY <1>12
  <2> HIDE DEF x, y
  <2>5. Within(v, CapCalls(m), CapTools(m))
    BY SMTT(30), <1>1, <1>2, <1>3, <1>6, <1>14, <2>1 DEF Within
  <2>6. Calls(t) = Calls(q) + 1 /\ Tools(t) = Tools(q)
        /\ Calls(q) \in Nat /\ Tools(q) \in Nat
    <3>1. s.usage.calls = c.usage.calls + 1 /\ s.usage.tools = c.usage.tools
      BY <1>3, <1>8
    <3>2. /\ Calls(t) = s.usage.calls + Calls(r)
          /\ Tools(t) = s.usage.tools + Tools(r)
      BY <1>9
    <3>3. /\ c.usage.calls \in Nat /\ c.usage.tools \in Nat
          /\ Calls(q) = c.usage.calls + Calls(r)
          /\ Tools(q) = c.usage.tools + Tools(r)
          /\ Calls(r) \in Nat /\ Tools(r) \in Nat
      BY <1>2
    <3> QED BY <3>1, <3>2, <3>3
  <2>7. x.calls + y.calls + Calls(t) <= v.calls /\ x.tools + y.tools + Tools(t) <= v.tools
    <3>1. /\ v.calls = m.used.calls + 1 /\ v.tools = m.used.tools + 0
          /\ m.used.calls \in Nat /\ m.used.tools \in Nat
      BY <1>1, <1>3
    <3> QED BY SMTT(30), <2>1, <2>3, <2>6, <3>1
  <2> QED BY <1>12, <1>14, <2>4, <2>5, <2>7 DEF Budgeted
<1>16. Answerable(n, "asked")
  <2>1. RemainingCalls(n) = RemainingCalls(m) - 1
    <3>1. Within(n.used, CapCalls(n), CapTools(n)) /\ n.used \in Usage
      BY <1>3, <1>12, <1>15 DEF Budgeted
    <3>2. RemainingCalls(n) = CapCalls(n) - n.used.calls
      BY <3>1, RemainingIs
    <3> QED BY <1>1, <1>3, <1>12, <1>14, <3>2
  <2>2. n.active # <<>> /\ Head(n.active) = s /\ Tail(n.active) = r
    BY <1>9, <1>12
  <2>3. s.usage.calls >= 1 /\ s.calls >= 1
    BY <1>2, <1>3, <1>8
  <2>4. Protected(r) <= RemainingCalls(n) /\ (~s.final => Protected(r) + 1 <= RemainingCalls(n))
    BY <1>1, <1>2, <1>6, <2>1
  <2> QED BY <1>8, <2>2, <2>3, <2>4 DEF Answerable
<1> QED BY <1>9, <1>11, <1>12, <1>13, <1>15, <1>16, Carried DEF c

\* A truncated answer is asked for once more; the charge moves to the second call.
LEMMA AskedAgain ==
    ASSUME NEW m, MemoryInv(m, "asked"),
           NEW s \in SessionRecord, s.item = Current(m).item, s.usage = Current(m).usage,
           s.calls >= 1,
           NEW t, t = <<s>> \o Tail(m.active),
           NEW n, n = [m EXCEPT !.active = t]
    PROVE  MemoryInv(n, "again") /\ n.row = m.row
<1> DEFINE c == Current(m)
           q == m.active
           r == Tail(q)
<1>0. /\ q # <<>> /\ c.usage.calls >= 1 /\ Protected(r) <= RemainingCalls(m)
  BY DEF MemoryInv, Answerable, Current
<1>1. /\ q \in Seq(SessionRecord) /\ Apart(Items(q)) /\ Resumable(q)
      /\ c = Head(q) /\ m \in Memory
  BY MemoryFacts DEF Current, MemoryInv
<1>2. /\ c \in SessionRecord /\ c.calls \in Nat
      /\ c.usage.calls \in Nat /\ c.usage.tools \in Nat
      /\ Calls(q) = c.usage.calls + Calls(r) /\ Tools(q) = c.usage.tools + Tools(r)
      /\ Calls(r) \in Nat /\ Tools(r) \in Nat
  BY <1>0, CurrentFacts
<1>4. t = <<s>> \o r /\ n = [m EXCEPT !.active = t]
  OBVIOUS
<1>5. /\ r \in Seq(SessionRecord) /\ Apart(Items(r)) /\ Resumable(r)
      /\ ToSet(Items(r)) = ToSet(Items(q)) \ {c.item} /\ c.item \in ToSet(Items(q))
  BY <1>0, <1>1, SessionLeaves
<1> HIDE DEF c, q, r
<1>7. s.item = c.item /\ s.usage = c.usage /\ s.calls >= 1
  BY DEF c
<1>8. /\ t \in Seq(SessionRecord) /\ t # <<>> /\ Head(t) = s /\ Tail(t) = r
      /\ Apart(Items(t)) /\ ToSet(Items(t)) = ToSet(Items(r)) \cup {s.item}
      /\ Calls(t) = s.usage.calls + Calls(r) /\ Tools(t) = s.usage.tools + Tools(r)
      /\ Resumable(t)
  <2>1. s.item \notin ToSet(Items(r))
    BY <1>5, <1>7
  <2>2. t \in Seq(SessionRecord) /\ t # <<>> /\ Head(t) = s /\ Tail(t) = r
    BY <1>4, <1>5, <2>1, SessionLeads
  <2>3. ToSet(Items(t)) = ToSet(Items(r)) \cup {s.item} /\ Apart(Items(t))
    BY <1>4, <1>5, <2>1, SessionLeads
  <2>4. Calls(t) = s.usage.calls + Calls(r) /\ Tools(t) = s.usage.tools + Tools(r)
    BY <1>4, <1>5, <2>1, SessionLeads
  <2>5. Resumable(t)
    BY <1>4, <1>5, <1>7, <2>1, SessionLeads
  <2> QED BY <2>2, <2>3, <2>4, <2>5
<1>9. ToSet(Items(t)) = ToSet(Items(q))
  BY <1>5, <1>7, <1>8
<1>10. n \in Memory
  BY <1>1, <1>4, <1>8 DEF Memory
<1>11. /\ n.row = m.row /\ n.done = m.done /\ n.stopped = m.stopped /\ n.waiting = m.waiting
       /\ n.limited = m.limited /\ n.active = t /\ n.used = m.used
  BY <1>1, <1>4 DEF Memory
<1>12. QueuesExact(n)
  BY <1>8, <1>9, <1>11 DEF MemoryInv, QueuesExact, q
<1>13. Calls(t) = Calls(q) /\ Tools(t) = Tools(q)
  BY <1>2, <1>7, <1>8
<1>14. Answerable(n, "again")
  <2>1. RemainingCalls(n) = RemainingCalls(m)
    BY <1>11, SameBudget
  <2> QED BY <1>0, <1>7, <1>8, <1>11, <2>1 DEF Answerable
<1> QED BY <1>8, <1>10, <1>11, <1>12, <1>13, <1>14, Requeued DEF q

\* The checkpoint of the session whose turn it is.
LEMMA DecisionIs ==
    ASSUME NEW m, NEW label, MemoryInv(m, label), m.active # <<>>,
           NEW status \in {"DONE", "SPLIT"}, NEW found \in SUBSET Lines
    PROVE  LET c == Decision(m, status, found)
               s == Current(m) IN
           /\ c \in WorkCheckpoint
           /\ c.phase = m.row.phase /\ c.item = s.item /\ c.status = status
           /\ c.usage = (IF status = "SPLIT" THEN NoUsage ELSE s.usage)
           /\ c.limited = s.limited /\ c.found = found
<1> DEFINE s == Current(m)
           c == Decision(m, status, found)
           u == IF status = "SPLIT" THEN NoUsage ELSE s.usage
<1>1. s.item \in WorkItems /\ s.usage \in Usage /\ s.limited \in BOOLEAN
  BY CurrentFacts
<1>2. m.row.phase \in Phases
  BY MemoryFacts
<1>3. u \in Usage
  BY <1>1, AddUsage
<1>4. (s.limited \/ status = "STOPPED") = s.limited
  BY <1>1
<1>5. c = [phase |-> m.row.phase, item |-> s.item, status |-> status, usage |-> u,
           limited |-> s.limited, found |-> found]
  BY <1>4, Zenon DEF Decision
<1> HIDE DEF s, c, u
<1>6. c \in WorkCheckpoint
  BY <1>1, <1>2, <1>3, <1>5 DEF WorkCheckpoint, Phases
<1>7. /\ c.phase = m.row.phase /\ c.item = s.item /\ c.status = status
      /\ c.usage = u /\ c.limited = s.limited /\ c.found = found
  BY <1>5
<1> QED BY <1>6, <1>7 DEF s, c, u

\* What the item being decided has used can be paid.
LEMMA Paid ==
    ASSUME NEW m, NEW label, MemoryInv(m, label), m.active # <<>>
    PROVE  CanPay(m.row, Current(m).usage)
<1> DEFINE x == m.row.charged
           y == Charged(m.row, m.row.phase)
           u == Current(m).usage
           q == m.active
           p == m.row.phase
<1>1. x \in Usage /\ y \in Usage /\ u \in Usage
  BY MemoryFacts, ChargeOf, CurrentFacts DEF Checked, Progress
<1>2. /\ Within(m.used, CapCalls(m), CapTools(m))
      /\ x.calls + y.calls + Calls(q) <= m.used.calls
      /\ x.tools + y.tools + Tools(q) <= m.used.tools
  BY DEF MemoryInv, Budgeted
<1>3. /\ Calls(q) = u.calls + Calls(Tail(q)) /\ Tools(q) = u.tools + Tools(Tail(q))
      /\ Calls(Tail(q)) \in Nat /\ Tools(Tail(q)) \in Nat
      /\ m.used.calls \in Nat /\ m.used.tools \in Nat
  BY CurrentFacts, MemoryFacts
<1>4. /\ x.calls \in Nat /\ x.tools \in Nat /\ y.calls \in Nat /\ y.tools \in Nat
      /\ u.calls \in Nat /\ u.tools \in Nat
  BY <1>1 DEF Usage
<1>5. /\ CapCalls(m) \in Nat /\ CapTools(m) \in Nat
      /\ p = "candidate" => CapCalls(m) = CandidateCalls /\ CapTools(m) = CandidateTools
      /\ p # "candidate" => CapCalls(m) = MaxCalls /\ CapTools(m) = MaxTools
  BY CapFacts DEF CapCalls, CapTools
<1>6. /\ Add(y, u).calls = y.calls + u.calls /\ Add(y, u).tools = y.tools + u.tools
      /\ Add(x, Add(y, u)).calls = x.calls + (y.calls + u.calls)
      /\ Add(x, Add(y, u)).tools = x.tools + (y.tools + u.tools)
  <2> HIDE DEF x, y, u
  <2> QED BY DEF Add
<1> HIDE DEF x, y, u, q
<1>7. /\ x.calls + (y.calls + u.calls) <= CapCalls(m) /\ y.calls + u.calls <= CapCalls(m)
      /\ x.tools + (y.tools + u.tools) <= CapTools(m) /\ y.tools + u.tools <= CapTools(m)
  <2>1. /\ m.used.calls <= CapCalls(m) /\ x.calls + y.calls + Calls(q) <= m.used.calls
        /\ m.used.tools <= CapTools(m) /\ x.tools + y.tools + Tools(q) <= m.used.tools
    BY <1>2 DEF Within
  <2>2. x.calls + y.calls + u.calls <= m.used.calls
    <3> DEFINE t == Calls(Tail(q))
    <3>1. /\ x.calls \in Nat /\ y.calls \in Nat /\ u.calls \in Nat /\ t \in Nat /\ m.used.calls \in Nat
          /\ x.calls + y.calls + (u.calls + t) <= m.used.calls
      BY <1>3, <1>4, <2>1
    <3> HIDE DEF t
    <3> QED BY <3>1
  <2>3. x.tools + y.tools + u.tools <= m.used.tools
    <3> DEFINE t == Tools(Tail(q))
    <3>1. /\ x.tools \in Nat /\ y.tools \in Nat /\ u.tools \in Nat /\ t \in Nat /\ m.used.tools \in Nat
          /\ x.tools + y.tools + (u.tools + t) <= m.used.tools
      BY <1>3, <1>4, <2>1
    <3> HIDE DEF t
    <3> QED BY <3>1
  <2>4. CapCalls(m) \in Nat /\ CapTools(m) \in Nat /\ m.used.calls \in Nat /\ m.used.tools \in Nat
    BY <1>3, <1>5
  <2>5. x.calls + (y.calls + u.calls) <= CapCalls(m) /\ y.calls + u.calls <= CapCalls(m)
    <3>1. /\ x.calls \in Nat /\ y.calls \in Nat /\ u.calls \in Nat
          /\ m.used.calls \in Nat /\ CapCalls(m) \in Nat
      BY <1>4, <2>4
    <3>2. m.used.calls <= CapCalls(m)
      BY <2>1
    <3> QED BY <2>2, <3>1, <3>2
  <2>6. x.tools + (y.tools + u.tools) <= CapTools(m) /\ y.tools + u.tools <= CapTools(m)
    <3>1. /\ x.tools \in Nat /\ y.tools \in Nat /\ u.tools \in Nat
          /\ m.used.tools \in Nat /\ CapTools(m) \in Nat
      BY <1>4, <2>4
    <3>2. m.used.tools <= CapTools(m)
      BY <2>1
    <3> QED BY <2>3, <3>1, <3>2
  <2> QED BY <2>5, <2>6
<1>8. Within(Add(y, u), CapCalls(m), CapTools(m)) /\ Within(Add(x, Add(y, u)), CapCalls(m), CapTools(m))
  BY <1>6, <1>7 DEF Within
<1>9. p = "candidate" => Within(Add(Charged(m.row, "candidate"), u), CandidateCalls, CandidateTools)
  BY <1>5, <1>8 DEF y
<1>10. p = "verification" =>
         Within(Add(m.row.charged, Add(Charged(m.row, "verification"), u)), MaxCalls, MaxTools)
  BY <1>5, <1>8 DEF x, y
<1> QED BY <1>9, <1>10 DEF CanPay, u

\* An item is cut into its parts.
With(items, item) == items \cup {item}
Without(items, item) == items \ {item}
CutFrom(items, item) == (items \ {item}) \cup {Low(item), High(item)}

\* A session that has made its call is decided.
LEMMA SessionDecided ==
    ASSUME NEW m, NEW label, MemoryInv(m, label), m.active # <<>>,
           NEW status \in {"DONE", "SPLIT"}, NEW found \in SUBSET Lines,
           status = "SPLIT" => Splittable(Current(m).item),
           NEW c, c = Decision(m, status, found),
           NEW r, r = WithCheckpoint(m.row, c)
    PROVE  /\ c \in WorkCheckpoint /\ c.phase = m.row.phase /\ c.item = Current(m).item
           /\ c.limited = Current(m).limited /\ c.status = status
           /\ r = WithDecision(m.row, c)
           /\ \A d \in InPhase(m.row, m.row.phase) : d.item # c.item
           /\ RowInv(r) /\ r \in Progress
           /\ r.phase = m.row.phase /\ r.charged = m.row.charged
           /\ status = "DONE" =>
                /\ DoneItems(r, r.phase) = With(DoneItems(m.row, m.row.phase), c.item)
                /\ Undecided(r) = Without(Undecided(m.row), c.item)
                /\ Charged(r, r.phase) = Add(Charged(m.row, m.row.phase), Current(m).usage)
                /\ Unlimited(r, r.phase) <=> (Unlimited(m.row, m.row.phase) /\ ~c.limited)
           /\ status = "SPLIT" =>
                /\ DoneItems(r, r.phase) = DoneItems(m.row, m.row.phase)
                /\ Undecided(r) = CutFrom(Undecided(m.row), c.item)
                /\ Low(c.item) \notin Undecided(m.row) /\ High(c.item) \notin Undecided(m.row)
                /\ Charged(r, r.phase) = Charged(m.row, m.row.phase)
                /\ Unlimited(r, r.phase) <=> Unlimited(m.row, m.row.phase)
<1> DEFINE row == m.row
           p == row.phase
<1>1. /\ c \in WorkCheckpoint /\ c.phase = p /\ c.item = Current(m).item /\ c.status = status
      /\ c.usage = (IF status = "SPLIT" THEN NoUsage ELSE Current(m).usage)
      /\ c.limited = Current(m).limited
  BY DecisionIs
<1>2. row \in Progress /\ RowInv(row) /\ Checked(row) /\ p \in Phases
  BY MemoryFacts
<1>3. c.item \in Undecided(row)
  BY <1>1, CurrentFacts
<1>4. status = "DONE" => CanPay(row, c.usage)
  BY <1>1, Paid
<1> HIDE DEF row
<1>5. /\ WithCheckpoint(row, c) = WithDecision(row, c)
      /\ \A d \in InPhase(row, p) : d.item # c.item
  BY <1>1, <1>2, <1>3, DecisionAdds
<1>6. r = WithDecision(row, c)
  BY <1>5 DEF row
<1>7. /\ RowInv(r)
      /\ c.status = "DONE" =>
            /\ DoneItems(r, r.phase) = DoneItems(row, row.phase) \cup {c.item}
            /\ Undecided(r) = Undecided(row) \ {c.item}
      /\ c.status = "SPLIT" =>
            /\ DoneItems(r, r.phase) = DoneItems(row, row.phase)
            /\ Undecided(r) = (Undecided(row) \ {c.item}) \cup {Low(c.item), High(c.item)}
            /\ Low(c.item) \notin Undecided(row)
            /\ High(c.item) \notin Undecided(row)
  BY <1>1, <1>2, <1>3, <1>4, <1>6, Decided
<1>8. r \in Progress /\ r.phase = p /\ r.charged = row.charged
  BY <1>1, <1>2, <1>6, DecisionFields
<1>9. /\ c.status = "DONE" =>
            /\ Charged(r, p) = Add(Charged(row, p), c.usage)
            /\ Unlimited(r, p) <=> Unlimited(row, p) /\ ~c.limited
      /\ c.status = "SPLIT" =>
            /\ Charged(r, p) = Charged(row, p)
            /\ Unlimited(r, p) <=> Unlimited(row, p)
  BY <1>1, <1>2, <1>3, <1>6, OwnPhase
<1>10. status = "DONE" =>
          /\ DoneItems(r, r.phase) = With(DoneItems(row, row.phase), c.item)
          /\ Undecided(r) = Without(Undecided(row), c.item)
          /\ Charged(r, r.phase) = Add(Charged(row, row.phase), Current(m).usage)
          /\ Unlimited(r, r.phase) <=> (Unlimited(row, row.phase) /\ ~c.limited)
  BY <1>1, <1>7, <1>8, <1>9 DEF With, Without
<1>11. status = "SPLIT" =>
          /\ DoneItems(r, r.phase) = DoneItems(row, row.phase)
          /\ Undecided(r) = CutFrom(Undecided(row), c.item)
          /\ Low(c.item) \notin Undecided(row) /\ High(c.item) \notin Undecided(row)
          /\ Charged(r, r.phase) = Charged(row, row.phase)
          /\ Unlimited(r, r.phase) <=> Unlimited(row, row.phase)
  BY <1>1, <1>7, <1>8, <1>9 DEF CutFrom
<1> QED BY <1>1, <1>5, <1>6, <1>7, <1>8, <1>10, <1>11 DEF row

\* The session is over: its item leaves the queue.
LEMMA SessionOver ==
    ASSUME NEW m, NEW label, MemoryInv(m, label), m.active # <<>>,
           NEW t, t = Tail(m.active), NEW item, item = Current(m).item
    PROVE  /\ t \in Seq(SessionRecord) /\ Apart(Items(t)) /\ Resumable(t)
           /\ ToSet(Items(t)) = ToSet(Items(m.active)) \ {item}
           /\ item \notin ToSet(m.waiting) /\ item \in ToSet(Items(m.active))
           /\ Undecided(m.row) = ToSet(m.waiting) \cup ToSet(Items(m.active))
           /\ ToSet(m.waiting) \cap ToSet(Items(m.active)) = {}
<1>1. /\ m.active \in Seq(SessionRecord) /\ Apart(Items(m.active)) /\ Resumable(m.active)
      /\ ToSet(m.waiting) \cap ToSet(Items(m.active)) = {}
  BY MemoryFacts
<1>2. /\ t \in Seq(SessionRecord) /\ Apart(Items(t)) /\ Resumable(t)
      /\ ToSet(Items(t)) = ToSet(Items(m.active)) \ {item}
      /\ item \in ToSet(Items(m.active))
  BY <1>1, SessionLeaves DEF Current
<1>3. Undecided(m.row) = ToSet(m.waiting) \cup ToSet(Items(m.active))
  BY DEF MemoryInv, QueuesExact
<1> QED BY <1>1, <1>2, <1>3

\* The memory of a worker that has a session's answer.
AfterAnswer(m, r, done, limited) ==
    [m EXCEPT !.row = r, !.active = Tail(@), !.done = done, !.limited = limited]

\* The answer parses.
LEMMA ItemDone ==
    ASSUME NEW m, NEW label, MemoryInv(m, label), label # "turn",
           NEW found \in SUBSET Lines,
           NEW r, r = WithCheckpoint(m.row, Decision(m, "DONE", found)),
           NEW limited \in BOOLEAN, m.limited \/ Current(m).limited => limited,
           NEW done, done = m.done \cup {Current(m).item},
           NEW n, n = AfterAnswer(m, r, done, limited)
    PROVE  MemoryInv(n, "turn") /\ n.row = r
<1> DEFINE q == m.active
           t == Tail(q)
           item == Current(m).item
           u == Current(m).usage
           x == m.row.charged
           y == Charged(m.row, m.row.phase)
<1>0. q # <<>> /\ Protected(t) <= RemainingCalls(m)
  BY DEF MemoryInv, Answerable
<1>1. /\ RowInv(r) /\ r \in Progress /\ r.phase = m.row.phase /\ r.charged = x
      /\ DoneItems(r, r.phase) = DoneItems(m.row, m.row.phase) \cup {item}
      /\ Undecided(r) = Undecided(m.row) \ {item}
      /\ Charged(r, r.phase) = Add(y, u)
      /\ Unlimited(r, r.phase) <=> (Unlimited(m.row, m.row.phase) /\ ~Current(m).limited)
  <2> DEFINE c == Decision(m, "DONE", found)
             s == "DONE"
  <2>1. s \in {"DONE", "SPLIT"} /\ s = "DONE" /\ s # "SPLIT"
    OBVIOUS
  <2>2. c = Decision(m, s, found) /\ r = WithCheckpoint(m.row, c)
    OBVIOUS
  <2> HIDE DEF c, s
  <2>3. /\ c.item = item /\ c.limited = Current(m).limited
        /\ RowInv(r) /\ r \in Progress /\ r.phase = m.row.phase /\ r.charged = x
    BY <1>0, <2>1, <2>2, SessionDecided
  <2>4. /\ DoneItems(r, r.phase) = With(DoneItems(m.row, m.row.phase), c.item)
        /\ Undecided(r) = Without(Undecided(m.row), c.item)
        /\ Charged(r, r.phase) = Add(y, u)
        /\ Unlimited(r, r.phase) <=> (Unlimited(m.row, m.row.phase) /\ ~c.limited)
    BY <1>0, <2>1, <2>2, SessionDecided
  <2> QED BY <2>3, <2>4 DEF With, Without
<1>2. /\ t \in Seq(SessionRecord) /\ Apart(Items(t)) /\ Resumable(t)
      /\ ToSet(Items(t)) = ToSet(Items(q)) \ {item}
      /\ item \notin ToSet(m.waiting) /\ item \in ToSet(Items(q))
      /\ Undecided(m.row) = ToSet(m.waiting) \cup ToSet(Items(q))
      /\ ToSet(m.waiting) \cap ToSet(Items(q)) = {}
  BY <1>0, SessionOver
<1>3. /\ u \in Usage /\ item \in WorkItems
      /\ Calls(q) = u.calls + Calls(t) /\ Tools(q) = u.tools + Tools(t)
      /\ Calls(t) \in Nat /\ Tools(t) \in Nat
  BY <1>0, CurrentFacts
<1>4. /\ m \in Memory /\ RowInv(m.row) /\ m.row.phase \in Phases /\ m.stopped = {}
      /\ m.done = DoneItems(m.row, m.row.phase)
      /\ Unlimited(m.row, m.row.phase) \/ m.limited
      /\ m.used.calls \in Nat /\ m.used.tools \in Nat
  BY MemoryFacts DEF MemoryInv, TakenOver
<1>5. n = [m EXCEPT !.row = r, !.active = t, !.done = done, !.limited = limited]
  BY DEF AfterAnswer
<1>6. done \in SUBSET WorkItems
  BY <1>3, <1>4 DEF Memory
<1>15. done = m.done \cup {item}
  OBVIOUS
<1>7. x \in Usage /\ y \in Usage
  BY MemoryFacts, ChargeOf DEF Checked, Progress
<1> HIDE DEF t, q, x, y, u, item
<1>8. n \in Memory
  BY <1>1, <1>2, <1>4, <1>5, <1>6 DEF Memory
<1>9. /\ n.row = r /\ n.used = m.used /\ n.stopped = m.stopped /\ n.waiting = m.waiting
      /\ n.active = t /\ n.done = done /\ n.limited = limited
  BY <1>4, <1>5 DEF Memory
<1>10. TakenOver(n)
  <2>1. n.done = DoneItems(n.row, n.row.phase) /\ n.row.phase \in Phases /\ n.stopped = {}
        /\ RowInv(n.row)
    BY ZenonT(60), <1>1, <1>4, <1>9, <1>15
  <2>2. Unlimited(n.row, n.row.phase) \/ n.limited
    BY <1>1, <1>4, <1>9
  <2> QED BY <2>1, <2>2 DEF TakenOver
<1>11. QueuesExact(n)
  <2>1. Apart(n.waiting) /\ Apart(Items(n.active))
    BY <1>2, <1>9, MemoryFacts
  <2> DEFINE W == ToSet(m.waiting)
             A == ToSet(Items(q))
             B == ToSet(Items(t))
             U == Undecided(m.row)
  <2>2. W \cap B = {} /\ U \ {item} = W \cup B
    <3>1. B = A \ {item} /\ item \notin W /\ U = W \cup A /\ W \cap A = {}
      BY <1>2
    <3> HIDE DEF W, A, B, U
    <3> QED BY <3>1
  <2> QED BY <1>1, <1>9, <2>1, <2>2 DEF QueuesExact
<1>12. CapCalls(n) = CapCalls(m) /\ CapTools(n) = CapTools(m)
       /\ RemainingCalls(n) = RemainingCalls(m)
  BY <1>1, <1>9, SameBudget
<1>13. Budgeted(n)
  <2>1. /\ Within(m.used, CapCalls(m), CapTools(m))
        /\ x.calls + y.calls + Calls(q) <= m.used.calls
        /\ x.tools + y.tools + Tools(q) <= m.used.tools
    BY DEF MemoryInv, Budgeted, x, y, q
  <2>2. /\ x.calls \in Nat /\ x.tools \in Nat /\ y.calls \in Nat /\ y.tools \in Nat
        /\ u.calls \in Nat /\ u.tools \in Nat
    BY <1>3, <1>7 DEF Usage
  <2>3. Add(y, u).calls = y.calls + u.calls /\ Add(y, u).tools = y.tools + u.tools
    BY <1>3, <1>7, AddUsage
  <2>4. x.calls + Add(y, u).calls + Calls(t) <= m.used.calls
    BY <1>3, <1>4, <2>1, <2>2, <2>3
  <2>5. x.tools + Add(y, u).tools + Tools(t) <= m.used.tools
    BY <1>3, <1>4, <2>1, <2>2, <2>3
  <2> QED BY <1>1, <1>9, <1>12, <2>1, <2>4, <2>5 DEF Budgeted
<1>14. Answerable(n, "turn")
  BY <1>0, <1>9, <1>12 DEF Answerable, t
<1> QED BY <1>2, <1>8, <1>9, <1>10, <1>11, <1>13, <1>14 DEF MemoryInv

\* A session that leaves frees its share of a sum.
LEMMA SumShrinks ==
    ASSUME NEW a \in Nat, NEW b \in Nat, NEW c \in Nat, NEW d \in Nat, NEW n \in Nat,
           NEW e, e = c + d, a + b + e <= n
    PROVE  /\ a + b + d <= n
           /\ c >= 1 => a + b + d + 1 <= n
OBVIOUS

\* A refunded call stays within what is used.
LEMMA Refund ==
    ASSUME NEW k \in {0, 1}, NEW a \in Nat, NEW n \in Nat, a + 1 <= n
    PROVE  n - k \in Nat /\ a <= n - k /\ n - k <= n
<1>1. CASE k = 0
  BY <1>1
<1>2. CASE k = 1
  BY <1>2
<1> QED BY <1>1, <1>2

\* The memory of a worker that has cut a session's item.
AfterCut(m, r, v) ==
    [m EXCEPT !.row = r, !.active = Tail(@),
              !.waiting = @ \o Halves(Current(m).item), !.used = v]

\* The item is cut, and the call that failed refunded or not.
LEMMA ItemCut ==
    ASSUME NEW m, NEW label, MemoryInv(m, label), label # "turn",
           Splittable(Current(m).item),
           NEW r, r = WithCheckpoint(m.row, Decision(m, "SPLIT", {})),
           NEW refunded \in {0, 1},
           NEW v, v = [m.used EXCEPT !.calls = @ - refunded],
           NEW n, n = AfterCut(m, r, v)
    PROVE  MemoryInv(n, "turn") /\ n.row = r
<1> DEFINE q == m.active
           t == Tail(q)
           item == Current(m).item
           a == Low(item)
           b == High(item)
           w == m.waiting \o <<a, b>>
           u == Current(m).usage
           x == m.row.charged
           y == Charged(m.row, m.row.phase)
<1>0. q # <<>> /\ Protected(t) <= RemainingCalls(m) /\ u.calls >= 1
  BY DEF MemoryInv, Answerable, Current
<1>1. /\ RowInv(r) /\ r \in Progress /\ r.phase = m.row.phase /\ r.charged = x
      /\ DoneItems(r, r.phase) = DoneItems(m.row, m.row.phase)
      /\ Undecided(r) = (Undecided(m.row) \ {item}) \cup {a, b}
      /\ a \notin Undecided(m.row) /\ b \notin Undecided(m.row)
      /\ Charged(r, r.phase) = y
      /\ Unlimited(r, r.phase) <=> Unlimited(m.row, m.row.phase)
  <2> DEFINE f == {}
             c == Decision(m, "SPLIT", f)
             s == "SPLIT"
  <2>1. s \in {"DONE", "SPLIT"} /\ s = "SPLIT" /\ f \in SUBSET Lines
    OBVIOUS
  <2>2. c = Decision(m, s, f) /\ r = WithCheckpoint(m.row, c)
    OBVIOUS
  <2> HIDE DEF c, s, f, a, b
  <2>3. /\ c.item = item
        /\ RowInv(r) /\ r \in Progress /\ r.phase = m.row.phase /\ r.charged = x
    BY <1>0, <2>1, <2>2, SessionDecided
  <2>4. /\ DoneItems(r, r.phase) = DoneItems(m.row, m.row.phase)
        /\ Undecided(r) = CutFrom(Undecided(m.row), c.item)
        /\ Low(c.item) \notin Undecided(m.row) /\ High(c.item) \notin Undecided(m.row)
        /\ Charged(r, r.phase) = y
        /\ Unlimited(r, r.phase) <=> Unlimited(m.row, m.row.phase)
    <3>1. /\ DoneItems(r, r.phase) = DoneItems(m.row, m.row.phase)
          /\ Charged(r, r.phase) = y
          /\ Unlimited(r, r.phase) <=> Unlimited(m.row, m.row.phase)
      BY <1>0, <2>1, <2>2, SessionDecided
    <3>2. Undecided(r) = CutFrom(Undecided(m.row), c.item)
      BY <1>0, <2>1, <2>2, SessionDecided
    <3>3. Low(c.item) \notin Undecided(m.row) /\ High(c.item) \notin Undecided(m.row)
      BY <1>0, <2>1, <2>2, SessionDecided
    <3> QED BY <3>1, <3>2, <3>3
  <2>5. a = Low(c.item) /\ b = High(c.item)
    BY <2>3 DEF a, b
  <2> QED BY <2>3, <2>4, <2>5 DEF CutFrom
<1>2. /\ t \in Seq(SessionRecord) /\ Apart(Items(t)) /\ Resumable(t)
      /\ ToSet(Items(t)) = ToSet(Items(q)) \ {item}
      /\ item \notin ToSet(m.waiting) /\ item \in ToSet(Items(q))
      /\ Undecided(m.row) = ToSet(m.waiting) \cup ToSet(Items(q))
      /\ ToSet(m.waiting) \cap ToSet(Items(q)) = {}
  BY <1>0, SessionOver
<1>3. /\ u \in Usage /\ item \in WorkItems
      /\ Calls(q) = u.calls + Calls(t) /\ Tools(q) = u.tools + Tools(t)
      /\ Calls(t) \in Nat /\ Tools(t) \in Nat
  BY <1>0, CurrentFacts
<1>4. /\ m \in Memory /\ RowInv(m.row) /\ m.row.phase \in Phases /\ m.stopped = {}
      /\ m.done = DoneItems(m.row, m.row.phase)
      /\ Unlimited(m.row, m.row.phase) \/ m.limited
      /\ m.used \in Usage /\ m.used.calls \in Nat /\ m.used.tools \in Nat
      /\ m.waiting \in Seq(WorkItems) /\ Apart(m.waiting)
  BY MemoryFacts DEF MemoryInv, TakenOver
<1>5. /\ Halves(item) = <<a, b>> /\ a \in WorkItems /\ b \in WorkItems /\ a # b
  BY <1>3, HalvesOf, PartsOf
<1>6. n = [m EXCEPT !.row = r, !.active = t, !.waiting = w, !.used = v]
  BY <1>5 DEF AfterCut
<1>7. x \in Usage /\ y \in Usage
  BY MemoryFacts, ChargeOf DEF Checked, Progress
<1>8. /\ x.calls + y.calls + Calls(q) <= m.used.calls
      /\ x.tools + y.tools + Tools(q) <= m.used.tools
      /\ Within(m.used, CapCalls(m), CapTools(m))
  BY DEF MemoryInv, Budgeted
<1> HIDE DEF a, b, t, q, x, y, u, item
<1>9. /\ w \in Seq(WorkItems) /\ Apart(w) /\ ToSet(w) = ToSet(m.waiting) \cup {a, b}
  <2>1. a \notin ToSet(m.waiting) /\ b \notin ToSet(m.waiting)
    BY <1>1, <1>2
  <2> QED BY <1>4, <1>5, <2>1, QueuePair
<1> HIDE DEF w
<1>10. /\ x.calls \in Nat /\ x.tools \in Nat /\ y.calls \in Nat /\ y.tools \in Nat
       /\ u.calls \in Nat /\ u.tools \in Nat
  BY <1>3, <1>7 DEF Usage
<1>11. /\ x.calls + y.calls + Calls(t) + 1 <= m.used.calls
       /\ x.tools + y.tools + Tools(t) <= m.used.tools
  <2>1. x.calls + y.calls + Calls(t) + 1 <= m.used.calls
    BY <1>0, <1>3, <1>4, <1>8, <1>10, SumShrinks
  <2>2. x.tools + y.tools + Tools(t) <= m.used.tools
    BY ZenonT(60), <1>3, <1>4, <1>8, <1>10, SumShrinks
  <2> QED BY <2>1, <2>2
<1>12. /\ m.used.calls - refunded \in Nat /\ m.used.calls - refunded <= m.used.calls
       /\ x.calls + y.calls + Calls(t) <= m.used.calls - refunded
  <2>1. x.calls + y.calls + Calls(t) \in Nat
    BY <1>3, <1>10
  <2> QED BY <1>4, <1>11, <2>1, Refund
<1>13. v \in Usage /\ v.calls = m.used.calls - refunded /\ v.tools = m.used.tools
  <2> DEFINE k == m.used.calls - refunded
  <2>1. v = [m.used EXCEPT !.calls = k] /\ k \in Nat
    BY <1>12
  <2> HIDE DEF k
  <2>2. v \in Usage
    BY <1>4, <2>1 DEF Usage
  <2>3. v.calls = k /\ v.tools = m.used.tools
    BY <1>4, <2>1 DEF Usage
  <2> QED BY <2>2, <2>3 DEF k
<1>14. n \in Memory
  BY <1>1, <1>2, <1>4, <1>6, <1>9, <1>13 DEF Memory
<1>15. /\ n.row = r /\ n.used = v /\ n.stopped = m.stopped /\ n.waiting = w
       /\ n.active = t /\ n.done = m.done /\ n.limited = m.limited
  BY <1>4, <1>6 DEF Memory
<1>16. TakenOver(n)
  <2>1. n.done = DoneItems(n.row, n.row.phase) /\ n.row.phase \in Phases /\ n.stopped = {}
        /\ RowInv(n.row)
    BY <1>1, <1>4, <1>15
  <2>2. Unlimited(n.row, n.row.phase) \/ n.limited
    BY <1>1, <1>4, <1>15
  <2> QED BY <2>1, <2>2 DEF TakenOver
<1>17. QueuesExact(n)
  <2> DEFINE W == ToSet(m.waiting)
             A == ToSet(Items(q))
             B == ToSet(Items(t))
             V == ToSet(w)
             U == Undecided(m.row)
             N == Undecided(r)
  <2>1. V \cap B = {} /\ N = V \cup B
    <3>1. B = A \ {item} /\ item \notin W /\ U = W \cup A /\ W \cap A = {}
          /\ V = W \cup {a, b} /\ a \notin U /\ b \notin U /\ N = (U \ {item}) \cup {a, b}
      BY <1>1, <1>2, <1>9
    <3> HIDE DEF W, A, B, U, V, N
    <3> QED BY <3>1
  <2> QED BY <1>2, <1>9, <1>15, <2>1 DEF QueuesExact
<1>18. /\ CapCalls(n) = CapCalls(m) /\ CapTools(n) = CapTools(m)
       /\ CapCalls(m) \in Nat /\ CapTools(m) \in Nat
  BY <1>1, <1>15, CapFacts DEF CapCalls, CapTools
<1>19. Within(v, CapCalls(m), CapTools(m))
  <2>1. v.calls <= m.used.calls /\ v.tools <= m.used.tools /\ v.calls \in Nat /\ v.tools \in Nat
    BY <1>4, <1>12, <1>13
  <2>2. m.used.calls <= CapCalls(m) /\ m.used.tools <= CapTools(m)
    BY <1>8 DEF Within
  <2>3. v.calls <= CapCalls(m)
    BY <1>4, <1>18, <2>1, <2>2
  <2>4. v.tools <= CapTools(m)
    BY <1>4, <1>18, <2>1, <2>2
  <2> QED BY <2>3, <2>4 DEF Within
<1>20. Budgeted(n)
  <2>1. x.calls + y.calls + Calls(t) <= v.calls
    BY <1>12, <1>13
  <2>2. x.tools + y.tools + Tools(t) <= v.tools
    BY <1>11, <1>13
  <2> QED BY <1>1, <1>15, <1>18, <1>19, <2>1, <2>2 DEF Budgeted
<1>21. Answerable(n, "turn")
  <2>1. RemainingCalls(n) = CapCalls(n) - n.used.calls
    BY <1>13, <1>15, <1>18, <1>19, RemainingIs
  <2>2. RemainingCalls(m) = CapCalls(m) - m.used.calls
    BY MemoryFacts
  <2>3. v.calls <= m.used.calls /\ v.calls \in Nat
    BY <1>12, <1>13
  <2>4. RemainingCalls(n) = CapCalls(m) - v.calls
    BY <1>15, <1>18, <2>1
  <2>5. Protected(t) \in Nat
    BY <1>2, ProtectedIs
  <2>6. Protected(t) <= RemainingCalls(n)
    BY <1>0, <1>4, <1>18, <2>2, <2>3, <2>4, <2>5
  <2> QED BY <1>15, <2>6 DEF Answerable
<1> QED BY <1>2, <1>14, <1>15, <1>16, <1>17, <1>20, <1>21 DEF MemoryInv

\* What the finished work of a phase found.
Gathered(m, phase) == FoundIn({c \in Finished(m.row, phase) : c.item \in m.done})

\* No session is live and no item can be admitted.
LEMMA QueuesOver ==
    ASSUME NEW m, MemoryInv(m, "turn"), m.active = <<>>
    PROVE  /\ Covered(m) => Undecided(m.row) = {}
           /\ Within(Add(m.row.charged, Charged(m.row, m.row.phase)), m.used.calls, m.used.tools)
           /\ Gathered(m, m.row.phase) = FoundIn(Finished(m.row, m.row.phase))
<1>1. /\ Undecided(m.row) = ToSet(m.waiting) \cup ToSet(Items(m.active))
      /\ m.done = DoneItems(m.row, m.row.phase)
      /\ m.row.charged.calls + Charged(m.row, m.row.phase).calls + Calls(m.active) <= m.used.calls
      /\ m.row.charged.tools + Charged(m.row, m.row.phase).tools + Tools(m.active) <= m.used.tools
  BY DEF MemoryInv, QueuesExact, TakenOver, Budgeted
<1>2. Covered(m) => Undecided(m.row) = {}
  <2>1. ToSet(Items(<<>>)) = {} /\ ToSet(<<>>) = {}
    BY NoSessions
  <2> QED BY <1>1, <2>1 DEF Covered
<1>3. Within(Add(m.row.charged, Charged(m.row, m.row.phase)), m.used.calls, m.used.tools)
  <2> DEFINE x == m.row.charged
             y == Charged(m.row, m.row.phase)
  <2>1. x \in Usage /\ y \in Usage
    BY MemoryFacts, ChargeOf DEF Checked, Progress
  <2>2. Calls(m.active) = 0 /\ Tools(m.active) = 0
    BY NoSessions
  <2>3. x.calls + y.calls + 0 <= m.used.calls /\ x.tools + y.tools + 0 <= m.used.tools
    BY <1>1, <2>2
  <2> HIDE DEF x, y
  <2>4. /\ x.calls \in Nat /\ x.tools \in Nat /\ y.calls \in Nat /\ y.tools \in Nat
    BY <2>1 DEF Usage
  <2>5. Add(x, y).calls = x.calls + y.calls /\ Add(x, y).tools = x.tools + y.tools
    BY <2>1, AddUsage
  <2>6. x.calls + y.calls <= m.used.calls /\ x.tools + y.tools <= m.used.tools
    BY <2>3, <2>4
  <2>7. Within(Add(x, y), m.used.calls, m.used.tools)
    BY <2>5, <2>6 DEF Within
  <2> QED BY <2>7 DEF x, y
<1>4. {c \in Finished(m.row, m.row.phase) : c.item \in m.done} = Finished(m.row, m.row.phase)
  BY <1>1 DEF DoneItems
<1> QED BY <1>2, <1>3, <1>4 DEF Gathered

\* Exploration ends: the row is frozen and its verification is queued.
LEMMA ExplorationOver ==
    ASSUME NEW m, MemoryInv(m, "turn"), m.active = <<>>,
           NEW row, row = m.row, row.phase = "candidate",
           NEW found, found = Gathered(m, "candidate"),
           NEW selected \in Selections(found),
           NEW limited \in BOOLEAN, m.limited => limited, selected # found => limited,
           NEW covered \in BOOLEAN, covered => Covered(m),
           NEW r, r = Frozen(row, selected, covered, limited)
    PROVE  /\ RowInv(r)
           /\ selected \in SUBSET FoundIn(Finished(m.row, "candidate"))
           /\ selected # FoundIn(Finished(m.row, "candidate")) => limited
           /\ MemoryInv(Queued(r, m.used), "turn")
           /\ Queued(r, m.used).row = r
<1> DEFINE n == Queued(r, m.used)
<1>1. /\ RowInv(row) /\ m.used \in Usage /\ row.phase = "candidate"
      /\ m.used.calls \in Nat /\ m.used.tools \in Nat
  BY MemoryFacts
<1>2. /\ Unlimited(row, "candidate") \/ m.limited
      /\ Within(m.used, CapCalls(m), CapTools(m))
  BY DEF MemoryInv, TakenOver, Budgeted
<1>3. /\ covered => Undecided(row) = {}
      /\ Within(Add(row.charged, Charged(row, row.phase)), m.used.calls, m.used.tools)
      /\ found = FoundIn(Finished(row, "candidate"))
  BY QueuesOver
<1>4. selected \in SUBSET found
  BY DEF Selections, kSubset
<1>6. r = Frozen(row, selected, covered, limited)
  OBVIOUS
<1>7. /\ RowInv(r)
      /\ r.phase = "verification" /\ r.charged = Charged(row, "candidate")
      /\ Charged(r, "verification") = NoUsage
  <2>1. /\ selected \in SUBSET FoundIn(Finished(row, "candidate"))
        /\ selected # FoundIn(Finished(row, "candidate")) => limited
    BY <1>3, <1>4
  <2>2. limited \/ Unlimited(row, "candidate")
    BY <1>2
  <2>3. RowInv(row) /\ row.phase = "candidate" /\ (covered => Undecided(row) = {})
    BY <1>1, <1>3
  <2>4. RowInv(r) /\ Verifying(r, row)
    BY <1>6, <2>1, <2>2, <2>3, Freezing
  <2> QED BY <2>4 DEF Verifying
<1>8. n.row = r
  BY DEF Queued
<1>9. Within(m.used, CapCalls(n), CapTools(n))
  <2>1. /\ CapCalls(n) = MaxCalls /\ CapTools(n) = MaxTools
        /\ CapCalls(m) = CandidateCalls /\ CapTools(m) = CandidateTools
    BY <1>1, <1>7, <1>8 DEF CapCalls, CapTools
  <2> QED BY <1>1, <1>2, <2>1, BudgetFacts DEF Within
<1>10. Within(Add(r.charged, Charged(r, r.phase)), m.used.calls, m.used.tools)
  <2> DEFINE x == row.charged
             y == Charged(row, "candidate")
  <2>1. x \in Usage /\ y \in Usage
    BY <1>1, ChargeOf DEF RowInv, Checked, Progress
  <2>2. Within(Add(x, y), m.used.calls, m.used.tools)
    BY <1>1, <1>3
  <2>3. r.charged = y /\ Charged(r, r.phase) = NoUsage
    BY <1>7
  <2> HIDE DEF x, y
  <2>4. /\ x.calls \in Nat /\ x.tools \in Nat /\ y.calls \in Nat /\ y.tools \in Nat
    BY <2>1 DEF Usage
  <2>5. /\ Add(x, y).calls = x.calls + y.calls /\ Add(x, y).tools = x.tools + y.tools
        /\ Add(y, NoUsage).calls = y.calls + 0 /\ Add(y, NoUsage).tools = y.tools + 0
    BY <2>1, AddUsage DEF NoUsage, Add
  <2>6. y.calls + 0 <= m.used.calls /\ y.tools + 0 <= m.used.tools
    <3>1. x.calls + y.calls <= m.used.calls /\ x.tools + y.tools <= m.used.tools
      BY <2>2, <2>5 DEF Within
    <3> QED BY <1>1, <2>4, <3>1
  <2>7. Within(Add(y, NoUsage), m.used.calls, m.used.tools)
    BY <2>5, <2>6 DEF Within
  <2> QED BY <2>3, <2>7
<1> HIDE DEF n
<1>11. n = Queued(r, m.used) /\ r.phase \in Phases
  BY <1>7 DEF n, Phases
<1>12. MemoryInv(n, "turn")
  BY <1>1, <1>7, <1>9, <1>10, <1>11, Begun
<1>13. /\ selected \in SUBSET FoundIn(Finished(m.row, "candidate"))
       /\ selected # FoundIn(Finished(m.row, "candidate")) => limited
  BY <1>3, <1>4
<1> QED BY <1>7, <1>8, <1>11, <1>12, <1>13

\* What a result has to be complete.
Whole(m, confirmed, valid, published) ==
    /\ m.row.covered /\ ~m.row.limited
    /\ Covered(m) /\ ~m.limited
    /\ published = valid
    /\ confirmed \cap Prior \subseteq valid

\* Verification ends.
LEMMA VerificationOver ==
    ASSUME NEW m, MemoryInv(m, "turn"), m.active = <<>>, m.row.phase = "verification",
           NEW confirmed,
           confirmed = Gathered(m, "verification"),
           NEW valid \in SUBSET confirmed, NEW published \in SUBSET valid,
           NEW complete \in BOOLEAN,
           complete => Whole(m, confirmed, valid, published),
           NEW r, r = Completed(m.row, valid, published, complete)
    PROVE  RowInv(r) /\ valid \in SUBSET FoundIn(Finished(m.row, "verification"))
<1>1. /\ Covered(m) => Undecided(m.row) = {}
      /\ confirmed = FoundIn(Finished(m.row, "verification"))
  BY QueuesOver
<1>2. Unlimited(m.row, "verification") \/ m.limited
  BY DEF MemoryInv, TakenOver
<1>3. RowInv(m.row)
  BY MemoryFacts
<1>4. complete =>
        /\ m.row.covered /\ ~m.row.limited
        /\ Undecided(m.row) = {}
        /\ Unlimited(m.row, "verification")
        /\ FoundIn(Finished(m.row, "verification")) \cap Prior \subseteq published
  BY <1>1, <1>2 DEF Whole
<1>5. valid \in SUBSET FoundIn(Finished(m.row, "verification"))
  BY <1>1
<1> HIDE DEF Completed
<1>6. RowInv(r)
  BY <1>3, <1>4, <1>5, Completing
<1> QED BY <1>5, <1>6

-----------------------------------------------------------------------------
(* What a worker's step does to the rest *)

\* A worker goes on with the memory n at the label l.
LEMMA MovesOn ==
    ASSUME IInv, NEW w \in Workers, NEW n, NEW l \in Labels, MemoryInv(n, l),
           mem' = [mem EXCEPT ![w] = n], pc' = [pc EXCEPT ![w] = l],
           lease' = lease, attempts' = attempts, dead' = dead,
           RowInv(progress'), lease = w => n.row = progress',
           progress' = progress \/ lease = w
    PROVE  IInv'
<1>1. /\ lease' \in Workers \cup {NoWorker} /\ attempts' \in 0 .. MaxAttempts
      /\ dead' \in BOOLEAN
  BY DEF IInv
<1>2. pc' \in [Workers -> Labels \cup {"idle"}]
  BY DEF IInv
<1>3. DOMAIN mem' = Workers
  BY DEF IInv
<1>4. ASSUME NEW v \in Workers
      PROVE  /\ pc'[v] = "idle" => mem'[v] = Idle /\ lease' # v
             /\ pc'[v] # "idle" => MemoryInv(mem'[v], pc'[v])
             /\ lease' = v => mem'[v].row = progress'
  <2>1. CASE v = w
    <3>1. mem'[v] = n /\ pc'[v] = l /\ l # "idle"
      BY <2>1 DEF IInv, Labels
    <3> QED BY <2>1, <3>1
  <2>2. CASE v # w
    <3>1. mem'[v] = mem[v] /\ pc'[v] = pc[v]
      BY <2>2 DEF IInv
    <3> QED BY <2>2, <3>1 DEF IInv
  <2> QED BY <2>1, <2>2
<1>5. RowInv(progress)'
  OBVIOUS
<1> QED BY <1>1, <1>2, <1>3, <1>4, <1>5 DEF IInv

\* A worker's attempt ends.
LEMMA GoesIdle ==
    ASSUME IInv, NEW w \in Workers,
           mem' = [mem EXCEPT ![w] = Idle], pc' = [pc EXCEPT ![w] = "idle"],
           lease' \in {NoWorker, lease}, lease' # w, attempts' = attempts, dead' \in BOOLEAN,
           RowInv(progress'), progress' = progress \/ lease = w
    PROVE  IInv'
<1>1. /\ lease' \in Workers \cup {NoWorker} /\ attempts' \in 0 .. MaxAttempts
      /\ dead' \in BOOLEAN
  BY DEF IInv
<1>2. pc' \in [Workers -> Labels \cup {"idle"}]
  BY DEF IInv
<1>3. DOMAIN mem' = Workers
  BY DEF IInv
<1>4. ASSUME NEW v \in Workers
      PROVE  /\ pc'[v] = "idle" => mem'[v] = Idle /\ lease' # v
             /\ pc'[v] # "idle" => MemoryInv(mem'[v], pc'[v])
             /\ lease' = v => mem'[v].row = progress'
  <2>1. CASE v = w
    <3>1. mem'[v] = Idle /\ pc'[v] = "idle"
      BY <2>1 DEF IInv
    <3> QED BY <2>1, <3>1
  <2>2. CASE v # w
    <3>1. mem'[v] = mem[v] /\ pc'[v] = pc[v]
      BY <2>2 DEF IInv
    <3>2. lease' = v => lease = v /\ progress' = progress
      BY <2>2, SchedulerAssumption
    <3>3. pc[v] = "idle" => lease' # v
      BY <3>2 DEF IInv
    <3> QED BY <3>1, <3>2, <3>3 DEF IInv
  <2> QED BY <2>1, <2>2
<1>5. RowInv(progress)'
  OBVIOUS
<1> QED BY <1>1, <1>2, <1>3, <1>4, <1>5 DEF IInv

RowStep == Stored!Next \/ UNCHANGED progress

\* A decision on an undecided item is a step of ReviewProgress.
LEMMA RowDecides ==
    ASSUME RowInv(progress), progress.phase \in Phases,
           NEW c \in WorkCheckpoint, c.phase = progress.phase,
           \A d \in InPhase(progress, progress.phase) : d.item # c.item,
           progress' = WithDecision(progress, c)
    PROVE  RowStep
<1>1. c \in progress'.checkpoints
  BY DecisionFields DEF RowInv
<1>2. Stored!Decide
  BY <1>1 DEF Stored!Decide, Stored!WorkCheckpoint, Stored!InPhase, Phases,
              WorkCheckpoint, InPhase, WithDecision, Stored!WorkItems, WorkItems,
              Stored!Usage, Usage
<1> QED BY <1>2 DEF RowStep, Stored!Next

\* The instance's sum is the sum.
LEMMA SameSum ==
    ASSUME NEW f
    PROVE  Stored!SumFunction(f) = SumFunction(f)
BY DEF Stored!SumFunction, SumFunction, Stored!SumFunctionOnSet, SumFunctionOnSet,
       Stored!FoldFunctionOnSet, FoldFunctionOnSet, Stored!MapThenFoldSet, MapThenFoldSet

\* The end of exploration is a step of ReviewProgress.
LEMMA RowFreezes ==
    ASSUME progress.phase = "candidate",
           NEW selected \in SUBSET FoundIn(Finished(progress, "candidate")),
           NEW covered \in BOOLEAN, NEW limited \in BOOLEAN,
           selected # FoundIn(Finished(progress, "candidate")) => limited,
           progress' = Frozen(progress, selected, covered, limited)
    PROVE  RowStep
<1>1. /\ Stored!FoundIn(Stored!Finished(progress, "candidate")) =
            FoundIn(Finished(progress, "candidate"))
      /\ Stored!Charged(progress, "candidate") = Charged(progress, "candidate")
  BY SameSum DEF Stored!FoundIn, Stored!Finished, Stored!InPhase, FoundIn, Finished, InPhase,
         Stored!Charged, Charged
<1>2. Stored!Freeze
  BY <1>1 DEF Stored!Freeze, Frozen
<1> QED BY <1>2 DEF RowStep, Stored!Next

\* The end of verification is a step of ReviewProgress.
LEMMA RowCompletes ==
    ASSUME progress.phase = "verification",
           NEW valid \in SUBSET FoundIn(Finished(progress, "verification")),
           NEW published \in SUBSET valid, NEW complete \in BOOLEAN,
           complete => progress.covered /\ ~progress.limited,
           progress' = Completed(progress, valid, published, complete)
    PROVE  RowStep
<1>1. Stored!FoundIn(Stored!Finished(progress, "verification")) =
            FoundIn(Finished(progress, "verification"))
  BY DEF Stored!FoundIn, Stored!Finished, Stored!InPhase, FoundIn, Finished, InPhase
<1>2. Stored!Complete
  BY <1>1 DEF Stored!Complete, Completed
<1> QED BY <1>2 DEF RowStep, Stored!Next

\* The creation of the row is a step of ReviewProgress.
LEMMA RowBegins ==
    ASSUME progress.phase = "none", progress' = NewProgress
    PROVE  RowStep
BY DEF RowStep, Stored!Next, Stored!Begin, Stored!NewProgress, NewProgress,
       Stored!NoProgress, NoProgress, Stored!NoResult, NoResult, Stored!NoUsage, NoUsage

\* What is known of a worker that runs.
LEMMA Running ==
    ASSUME IInv, NEW w \in Workers, pc[w] # "idle"
    PROVE  /\ MemoryInv(mem[w], pc[w]) /\ pc[w] \in Labels
           /\ lease = w => mem[w].row = progress
           /\ RowInv(progress)
           /\ pc = [pc EXCEPT ![w] = pc[w]]
BY DEF IInv

\* A step that only changes a worker's memory and label.
LEMMA OnlyMemory ==
    ASSUME IInv, NEW w \in Workers, pc[w] # "idle", NEW n, NEW l \in Labels,
           MemoryInv(n, l), n.row = mem[w].row,
           mem' = [mem EXCEPT ![w] = n], pc' = [pc EXCEPT ![w] = l],
           progress' = progress, lease' = lease, attempts' = attempts, dead' = dead
    PROVE  IInv' /\ RowStep
<1>1. /\ RowInv(progress)
      /\ lease = w => mem[w].row = progress
  BY Running
<1>2. IInv'
  BY <1>1, MovesOn
<1> QED BY <1>2 DEF RowStep

\* A waiting item is admitted.
LEMMA AdmitKeeps ==
    ASSUME IInv, NEW w \in Workers, Admit(w)
    PROVE  IInv' /\ RowStep
<1> DEFINE m == mem[w]
           n == [m EXCEPT !.waiting = Tail(@),
                    !.active = Append(@, Session(Head(m.waiting), Min({SlotsWanted(m), Spare(m)})))]
<1>1. /\ pc[w] = "turn" /\ CanAdmit(m)
      /\ progress' = progress /\ lease' = lease /\ attempts' = attempts /\ dead' = dead
      /\ pc' = pc
  BY DEF Admit
<1>2. mem' = [mem EXCEPT ![w] = n]
  BY DEF Admit, IInv
<1>3. MemoryInv(m, "turn")
  BY <1>1, Running
<1> HIDE DEF m
<1>4. MemoryInv(n, "turn") /\ n.row = m.row
  BY <1>1, <1>3, Admitted
<1> HIDE DEF n
<1>5. pc' = [pc EXCEPT ![w] = "turn"] /\ "turn" \in Labels /\ pc[w] # "idle"
  BY <1>1, Running DEF Labels
<1> QED BY <1>1, <1>2, <1>4, <1>5, OnlyMemory DEF m

\* The turn is a live session's.
LEMMA TurnFacts ==
    ASSUME IInv, NEW w \in Workers, HasTurn(w)
    PROVE  /\ pc[w] # "idle" /\ MemoryInv(mem[w], "turn") /\ mem[w].active # <<>>
           /\ pc = [pc EXCEPT ![w] = "turn"] /\ "turn" \in Labels
           /\ lease = w => mem[w].row = progress
<1>1. pc[w] = "turn" /\ mem[w].active # <<>>
  BY DEF HasTurn
<1> QED BY <1>1, Running DEF Labels

\* A tool call the session has made before.
LEMMA RepeatedToolKeeps ==
    ASSUME IInv, NEW w \in Workers, RepeatedTool(w)
    PROVE  IInv' /\ RowStep
<1> DEFINE m == mem[w]
           c == Current(m)
           end == c.final \/ (c.pending - 1 = 0 /\ c.dup)
<1>1. /\ HasTurn(w) /\ c.pending > 0
      /\ mem' = [mem EXCEPT ![w] = Turned(m, [c EXCEPT !.pending = c.pending - 1, !.final = end])]
      /\ UNCHANGED <<progress, lease, attempts, dead, pc>>
  BY Zenon DEF RepeatedTool
<1>2. end \in BOOLEAN
  BY <1>1, TurnFacts, CurrentFacts
<1> HIDE DEF end
<1>3. PICK final \in BOOLEAN : final = end
  BY <1>2
<1> DEFINE s == [c EXCEPT !.pending = c.pending - 1, !.final = final]
           n == Turned(m, s)
<1>4. mem' = [mem EXCEPT ![w] = n]
  BY <1>1, <1>3
<1>5. MemoryInv(n, "turn") /\ n.row = m.row
  BY ZenonT(60), <1>1, TurnFacts, Repeated
<1> HIDE DEF n, m
<1> QED BY <1>1, <1>4, <1>5, TurnFacts, OnlyMemory DEF m

\* A tool call when the repository budget is used up.
LEMMA RefusedToolKeeps ==
    ASSUME IInv, NEW w \in Workers, RefusedTool(w)
    PROVE  IInv' /\ RowStep
<1> DEFINE m == mem[w]
           s == [Current(m) EXCEPT !.pending = @ - 1, !.limited = TRUE, !.final = TRUE,
                                   !.dup = FALSE]
           n == Turned(m, s)
<1>1. /\ HasTurn(w) /\ Current(m).pending > 0
      /\ mem' = [mem EXCEPT ![w] = n]
      /\ UNCHANGED <<progress, lease, attempts, dead, pc>>
  BY DEF RefusedTool
<1>2. MemoryInv(m, "turn") /\ m.active # <<>> /\ Current(m).pending > 0
  BY <1>1, TurnFacts
<1> HIDE DEF m
<1>3. MemoryInv(n, "turn") /\ n.row = m.row
  BY <1>2, Refused
<1> HIDE DEF n
<1> QED BY <1>1, <1>3, TurnFacts, OnlyMemory DEF m

\* A tool call that reads the repository.
LEMMA ReadToolKeeps ==
    ASSUME IInv, NEW w \in Workers, ReadTool(w)
    PROVE  IInv' /\ RowStep
<1> DEFINE m == mem[w]
           s == [Current(m) EXCEPT !.pending = @ - 1, !.usage = Add(@, OneTool), !.dup = FALSE]
           n == [Turned(m, s) EXCEPT !.used = Add(@, OneTool)]
<1>1. /\ HasTurn(w) /\ Current(m).pending > 0 /\ RemainingTools(m) > 0
      /\ mem' = [mem EXCEPT ![w] = n]
      /\ UNCHANGED <<progress, lease, attempts, dead, pc>>
  BY DEF ReadTool, Recorded
<1>2. MemoryInv(n, "turn") /\ n.row = m.row
  BY <1>1, TurnFacts, ReadCharged
<1> HIDE DEF n, m
<1> QED BY <1>1, <1>2, TurnFacts, OnlyMemory DEF m

\* An answer that asks for repository reads.
LEMMA ToolCallsKeeps ==
    ASSUME IInv, NEW w \in Workers, ToolCalls(w)
    PROVE  IInv' /\ RowStep
<1> DEFINE m == mem[w]
<1>1. /\ pc[w] = "asked" /\ ~Current(m).final
      /\ pc' = [pc EXCEPT ![w] = "turn"]
      /\ UNCHANGED <<progress, lease, attempts, dead>>
  BY DEF ToolCalls, Recorded
<1>2. PICK k \in 1 .. ToolBatch :
        mem' = [mem EXCEPT ![w] = Turned(m,
            [Current(m) EXCEPT !.pending = k, !.rounds = @ + 1, !.dup = TRUE])]
  BY DEF ToolCalls
<1>3. k \in Nat
  BY <1>2, SchedulerAssumption
<1> DEFINE s == [Current(m) EXCEPT !.pending = k, !.rounds = @ + 1, !.dup = TRUE]
           n == Turned(m, s)
<1>4. MemoryInv(m, "asked")
  BY <1>1, Running
<1>5. MemoryInv(n, "turn") /\ n.row = m.row
  BY <1>1, <1>3, <1>4, Answered
<1>6. mem' = [mem EXCEPT ![w] = n]
  BY <1>2
<1> HIDE DEF n, m
<1>7. "turn" \in Labels /\ pc[w] # "idle"
  BY <1>1 DEF Labels
<1> QED BY <1>1, <1>5, <1>6, <1>7, OnlyMemory DEF m

\* A request is charged and sent; the invariant leaves no session without a call.
LEMMA AskKeeps ==
    ASSUME IInv, NEW w \in Workers, Ask(w)
    PROVE  IInv' /\ RowStep
<1> DEFINE m == mem[w]
           c == Current(m)
<1>1. HasTurn(w) /\ c.pending = 0
  BY DEF Ask
<1>2. MemoryInv(m, "turn") /\ m.active # <<>>
  BY <1>1, TurnFacts
<1>3. ~(Available(m) < 1)
  BY <1>2, CallLeft
<1> DEFINE end == MustEnd(m)
           lim == c.limited \/ end
<1>4. /\ mem' = [mem EXCEPT
                ![w].used = Add(@, OneCall),
                ![w].active = <<[c EXCEPT !.calls = @ + 1, !.usage = Add(@, OneCall),
                                    !.final = end, !.limited = lim]>> \o Tail(@)]
      /\ pc' = [pc EXCEPT ![w] = "asked"]
      /\ UNCHANGED <<progress, lease, attempts, dead>>
  BY <1>3, Zenon DEF Ask, Recorded
<1>5. end \in BOOLEAN /\ lim \in BOOLEAN
  BY <1>2, CurrentFacts DEF MustEnd
<1> HIDE DEF end, lim
<1>6. PICK final \in BOOLEAN : final = end
  BY <1>5
<1>7. PICK limited \in BOOLEAN : limited = lim
  BY <1>5
<1> DEFINE k == c.calls + 1
           u == Add(c.usage, OneCall)
           s == [c EXCEPT !.calls = k, !.usage = u, !.final = final, !.limited = limited]
           t == <<s>> \o Tail(m.active)
           v == Add(m.used, OneCall)
           n == [m EXCEPT !.used = v, !.active = t]
<1>8. mem' = [mem EXCEPT ![w].used = v, ![w].active = <<s>> \o Tail(@)]
  BY <1>4, <1>6, <1>7
<1>9. /\ c \in SessionRecord /\ c.calls \in Nat /\ c.usage \in Usage
  BY <1>2, CurrentFacts
<1>10. k \in Nat /\ u \in Usage
  BY SMTT(30), <1>9, AddUsage
<1> HIDE DEF c, k, u
<1>11. s \in SessionRecord
  BY <1>9, <1>10 DEF SessionRecord
<1>12. s.item = c.item /\ s.calls = k /\ s.usage = u /\ s.pending = c.pending /\ s.final = final
  BY <1>9 DEF SessionRecord
<1> HIDE DEF s
<1>13. mem' = [mem EXCEPT ![w] = n]
  BY <1>8 DEF IInv, MemoryInv, Memory
<1>14. ~s.final => ~MustEnd(m)
  BY <1>6, <1>12 DEF end
<1>15. t = <<s>> \o Tail(m.active) /\ n = [m EXCEPT !.used = Add(@, OneCall), !.active = t]
  OBVIOUS
<1> HIDE DEF n, t
<1>16. MemoryInv(n, "asked") /\ n.row = m.row
  BY ZenonT(60), <1>1, <1>2, <1>11, <1>12, <1>14, <1>15, CallCharged DEF c, k, u
<1>17. pc[w] # "idle" /\ "asked" \in Labels
  BY <1>1, TurnFacts DEF Labels
<1> QED BY <1>4, <1>13, <1>16, <1>17, OnlyMemory

\* A truncated answer is asked for again.
LEMMA TruncatedKeeps ==
    ASSUME IInv, NEW w \in Workers, Truncated(w)
    PROVE  IInv' /\ RowStep
<1> DEFINE m == mem[w]
           c == Head(m.active)
           k == c.calls + 1
           s == [c EXCEPT !.calls = k]
           t == <<s>> \o Tail(m.active)
           n == [m EXCEPT !.active = t]
<1>1. /\ pc[w] = "asked" /\ pc' = [pc EXCEPT ![w] = "again"]
      /\ UNCHANGED <<progress, lease, attempts, dead>>
  BY DEF Truncated, Recorded
<1>10. mem' = [mem EXCEPT ![w] = n]
  <2>1. mem' = [mem EXCEPT ![w].active = t]
    BY DEF Truncated, Current
  <2> QED BY <2>1
<1>2. MemoryInv(m, "asked") /\ m.active # <<>>
  BY <1>1, Running DEF MemoryInv, Answerable
<1>3. c = Current(m) /\ c \in SessionRecord /\ c.calls \in Nat
  BY <1>2, CurrentFacts DEF Current
<1>4. k \in Nat /\ k >= 1
  BY <1>3
<1> HIDE DEF c, k, m
<1>5. s \in SessionRecord
  BY <1>3, <1>4 DEF SessionRecord
<1>6. s.item = c.item /\ s.usage = c.usage /\ s.calls >= 1
  BY <1>3, <1>4 DEF SessionRecord
<1>7. t = <<s>> \o Tail(m.active) /\ n = [m EXCEPT !.active = t]
  OBVIOUS
<1> HIDE DEF s, t, n
<1>8. MemoryInv(n, "again") /\ n.row = m.row
  BY <1>2, <1>3, <1>5, <1>6, <1>7, AskedAgain
<1>9. pc[w] # "idle" /\ "again" \in Labels
  BY <1>1 DEF Labels
<1> QED BY <1>1, <1>8, <1>9, <1>10, OnlyMemory DEF m

\* A step that saves a decision of the phase.
LEMMA Saves ==
    ASSUME IInv, NEW w \in Workers, pc[w] # "idle", lease = w,
           mem[w].row = progress => RowStep,
           NEW n, NEW l \in Labels, MemoryInv(n, l), n.row = progress',
           mem' = [mem EXCEPT ![w] = n], pc' = [pc EXCEPT ![w] = l],
           lease' = lease, attempts' = attempts, dead' = dead
    PROVE  IInv' /\ RowStep
<1>1. RowInv(progress')
  BY MemoryFacts
<1>2. IInv'
  BY <1>1, MovesOn
<1>3. mem[w].row = progress
  BY Running
<1> QED BY <1>2, <1>3

\* An answer that parses: the item is done and saved.
LEMMA JsonKeeps ==
    ASSUME IInv, NEW w \in Workers, Json(w)
    PROVE  IInv' /\ RowStep
<1> DEFINE m == mem[w]
           s == Current(m)
           lim == m.limited \/ s.limited
           done == m.done \cup {s.item}
<1>1. /\ pc[w] \in {"asked", "again"} /\ pc' = [pc EXCEPT ![w] = "turn"]
      /\ UNCHANGED <<lease, attempts, dead>>
  BY DEF Json
<1>2. PICK found \in Answers(s.item) :
        LET row == WithCheckpoint(m.row, Decision(m, "DONE", found)) IN
        /\ Save(w, row)
        /\ mem' = [mem EXCEPT ![w] = [m EXCEPT !.row = row, !.active = Tail(@),
                        !.done = done, !.limited = lim]]
  BY Zenon DEF Json
<1>3. /\ MemoryInv(m, pc[w]) /\ m.active # <<>> /\ pc[w] # "turn" /\ pc[w] # "idle"
      /\ m \in Memory /\ RowInv(m.row) /\ m.row.phase \in Phases
      /\ m.limited \in BOOLEAN
  BY <1>1, Running, MemoryFacts DEF MemoryInv, Answerable
<1>4. s.item \in WorkItems /\ s.limited \in BOOLEAN
  BY <1>3, CurrentFacts
<1>5. found \in SUBSET Lines
  BY <1>4 DEF Answers, WorkItems
<1>6. lim \in BOOLEAN
  OBVIOUS
<1> HIDE DEF lim
<1>7. PICK limited \in BOOLEAN : limited = lim
  BY <1>6
<1> DEFINE c == Decision(m, "DONE", found)
           r == WithCheckpoint(m.row, c)
           n == [m EXCEPT !.row = r, !.active = Tail(@), !.done = done,
                          !.limited = limited]
<1>8. lease = w /\ progress' = r /\ mem' = [mem EXCEPT ![w] = n]
  BY <1>2, <1>7 DEF Save
<1>9. m.limited \/ s.limited => limited
  BY <1>7 DEF lim
<1> HIDE DEF m
<1>10. r = WithCheckpoint(m.row, Decision(m, "DONE", found)) /\ done = m.done \cup {s.item}
  OBVIOUS
<1>11. /\ c \in WorkCheckpoint /\ c.phase = m.row.phase /\ r = WithDecision(m.row, c)
       /\ \A d \in InPhase(m.row, m.row.phase) : d.item # c.item
  <2> DEFINE e == "DONE"
  <2>1. e \in {"DONE", "SPLIT"} /\ e # "SPLIT" /\ c = Decision(m, e, found)
        /\ r = WithCheckpoint(m.row, c)
    OBVIOUS
  <2> HIDE DEF e, c, r
  <2> QED BY <1>3, <1>5, <2>1, SessionDecided
<1> HIDE DEF r, c, done
<1>12. MemoryInv(n, "turn") /\ n.row = r
  <2> DEFINE l == pc[w]
  <2>1. MemoryInv(m, l) /\ l # "turn"
    BY <1>3
  <2>2. /\ done = m.done \cup {Current(m).item}
        /\ n = AfterAnswer(m, r, done, limited)
        /\ (m.limited \/ Current(m).limited => limited)
    BY <1>9, <1>10 DEF AfterAnswer
  <2> HIDE DEF n, l
  <2>3. MemoryInv(n, "turn")
    BY <1>5, <1>10, <2>1, <2>2, ItemDone
  <2>4. n.row = r
    BY <1>5, <1>10, <2>1, <2>2, ItemDone
  <2> QED BY <2>3, <2>4
<1>13. m.row = progress => RowStep
  BY <1>3, <1>8, <1>11, RowDecides
<1> HIDE DEF n
<1> QED BY <1>1, <1>3, <1>8, <1>12, <1>13, Saves DEF m, Labels

\* An item is cut, with or without a refund of the call.
LEMMA SplitItemKeeps ==
    ASSUME IInv, NEW w \in Workers, pc[w] \in {"asked", "again"},
           NEW refund \in BOOLEAN, SplitItem(w, refund)
    PROVE  IInv' /\ RowStep
<1> DEFINE m == mem[w]
           s == Current(m)
           f == {}
           c == Decision(m, "SPLIT", f)
           r == WithCheckpoint(m.row, c)
           k == IF refund THEN 1 ELSE 0
           v == [m.used EXCEPT !.calls = @ - k]
           n == AfterCut(m, r, v)
<1>1. /\ pc' = [pc EXCEPT ![w] = "turn"] /\ Splittable(s.item)
      /\ lease = w /\ progress' = r
      /\ UNCHANGED <<lease, attempts, dead>>
  BY DEF SplitItem, Save
<1>2. mem' = [mem EXCEPT ![w] = [m EXCEPT !.row = r, !.active = Tail(@),
                    !.waiting = @ \o Halves(s.item),
                    !.used.calls = IF refund THEN @ - 1 ELSE @]]
  BY DEF SplitItem
<1>3. /\ MemoryInv(m, pc[w]) /\ m.active # <<>> /\ pc[w] # "turn" /\ pc[w] # "idle"
      /\ m \in Memory /\ RowInv(m.row) /\ m.row.phase \in Phases
      /\ m.used \in Usage /\ m.used.calls \in Nat
  BY Running, MemoryFacts DEF MemoryInv, Answerable
<1> HIDE DEF m
<1>4. mem' = [mem EXCEPT ![w] = n]
  <2>1. v = [m.used EXCEPT !.calls = IF refund THEN @ - 1 ELSE @]
    BY <1>3 DEF Usage
  <2> HIDE DEF v
  <2>2. [m EXCEPT !.row = r, !.active = Tail(@), !.waiting = @ \o Halves(s.item),
                  !.used.calls = IF refund THEN @ - 1 ELSE @] =
        [m EXCEPT !.row = r, !.active = Tail(@), !.waiting = @ \o Halves(s.item), !.used = v]
    BY <1>3, <2>1 DEF Memory
  <2> QED BY <1>2, <2>2 DEF AfterCut
<1>5. k \in {0, 1} /\ v = [m.used EXCEPT !.calls = @ - k]
      /\ r = WithCheckpoint(m.row, Decision(m, "SPLIT", {}))
  OBVIOUS
<1>6. /\ c \in WorkCheckpoint /\ c.phase = m.row.phase /\ r = WithDecision(m.row, c)
      /\ \A d \in InPhase(m.row, m.row.phase) : d.item # c.item
  <2> DEFINE e == "SPLIT"
  <2>1. e \in {"DONE", "SPLIT"} /\ c = Decision(m, e, f) /\ f \in SUBSET Lines
        /\ r = WithCheckpoint(m.row, c)
    OBVIOUS
  <2> HIDE DEF e, c, r, f
  <2> QED BY <1>1, <1>3, <2>1, SessionDecided
<1> HIDE DEF r, c, v, k, n, f
<1>7. n = AfterCut(m, r, v)
  BY DEF n
<1>8. MemoryInv(n, "turn") /\ n.row = r
  BY <1>1, <1>3, <1>5, <1>7, ItemCut
<1>9. m.row = progress => RowStep
  BY <1>1, <1>3, <1>6, RowDecides
<1> QED BY <1>1, <1>3, <1>4, <1>8, <1>9, Saves DEF m, Labels

\* A step that ends an attempt and leaves the row as it is.
LEMMA AttemptEndsKeeps ==
    ASSUME IInv, NEW w \in Workers,
           mem' = [mem EXCEPT ![w] = Idle], pc' = [pc EXCEPT ![w] = "idle"],
           lease' \in {NoWorker, lease}, lease' # w, attempts' = attempts, dead' \in BOOLEAN,
           progress' = progress
    PROVE  IInv' /\ RowStep
<1>1. RowInv(progress')
  BY DEF IInv
<1>2. IInv'
  BY <1>1, GoesIdle
<1> QED BY <1>2 DEF RowStep

\* An attempt ends without a save.
LEMMA EndsKeep ==
    ASSUME IInv, NEW w \in Workers, CannotSplit(w) \/ Abort(w) \/ Fenced(w)
    PROVE  IInv' /\ RowStep
<1>1. NoWorker # w /\ dead \in BOOLEAN
  BY SchedulerAssumption DEF IInv
<1>2. CASE CannotSplit(w)
  BY <1>1, <1>2, AttemptEndsKeeps DEF CannotSplit, Recorded
<1>3. CASE Abort(w)
  BY <1>1, <1>3, AttemptEndsKeeps DEF Abort
<1>4. CASE Fenced(w)
  BY <1>1, <1>4, AttemptEndsKeeps DEF Fenced
<1> QED BY <1>2, <1>3, <1>4

\* The lease of a stalled worker expires: its memory is as it was.
LEMMA ExpireKeeps ==
    ASSUME IInv, NEW w \in Workers, Expire(w)
    PROVE  IInv' /\ RowStep
<1>1. /\ lease' = NoWorker /\ NoWorker \notin Workers
      /\ UNCHANGED <<progress, attempts, dead, pc, mem>>
  BY SchedulerAssumption DEF Expire
<1>2. IInv'
  BY <1>1 DEF IInv
<1> QED BY <1>1, <1>2 DEF RowStep

\* An attempt starts, and takes over what the row has decided.
LEMMA StartKeeps ==
    ASSUME IInv, NEW w \in Workers, Start(w)
    PROVE  IInv' /\ RowStep
<1> DEFINE row == IF progress.phase = "none" THEN NewProgress ELSE progress
           n == Loaded(row)
<1>1. /\ pc[w] = "idle" /\ lease = NoWorker /\ attempts < MaxAttempts
      /\ progress.phase # "complete"
      /\ lease' = w /\ attempts' = attempts + 1 /\ progress' = row
      /\ pc' = [pc EXCEPT ![w] = "turn"] /\ mem' = [mem EXCEPT ![w] = n]
      /\ dead' = dead
  BY DEF Start
<1>2. RowInv(row) /\ row.phase \in Phases
  <2>1. CASE progress.phase = "none"
    <3>1. row = NewProgress
      BY <2>1
    <3> QED BY <3>1, FreshRow DEF NewProgress, NoProgress, Phases
  <2>2. CASE progress.phase # "none"
    <3>1. row = progress /\ RowInv(progress)
      BY <2>2 DEF IInv
    <3>2. progress.phase \in Phases
      BY <1>1, <2>2, <3>1 DEF RowInv, Progress, Phases
    <3> QED BY <3>1, <3>2
  <2> QED BY <2>1, <2>2
<1>3. RowStep
  <2>1. CASE progress.phase = "none"
    BY <1>1, <2>1, RowBegins
  <2>2. CASE progress.phase # "none"
    BY <1>1, <2>2 DEF RowStep
  <2> QED BY <2>1, <2>2
<1> HIDE DEF row
<1>4. MemoryInv(n, "turn") /\ n.row = row
  BY <1>2, AttemptBegins
<1> HIDE DEF n
<1>5. /\ lease' \in Workers \cup {NoWorker} /\ attempts' \in 0 .. MaxAttempts /\ dead' \in BOOLEAN
  <2>1. attempts \in 0 .. MaxAttempts /\ MaxAttempts \in Nat /\ dead \in BOOLEAN
    BY SchedulerAssumption DEF IInv
  <2> QED BY <1>1, <2>1
<1>6. pc' \in [Workers -> Labels \cup {"idle"}] /\ DOMAIN mem' = Workers
  BY <1>1 DEF IInv, Labels
<1>7. ASSUME NEW v \in Workers
      PROVE  /\ pc'[v] = "idle" => mem'[v] = Idle /\ lease' # v
             /\ pc'[v] # "idle" => MemoryInv(mem'[v], pc'[v])
             /\ lease' = v => mem'[v].row = progress'
  <2>1. CASE v = w
    <3>1. mem'[v] = n /\ pc'[v] = "turn"
      BY <1>1, <2>1 DEF IInv
    <3> QED BY <1>1, <1>4, <2>1, <3>1
  <2>2. CASE v # w
    <3>1. mem'[v] = mem[v] /\ pc'[v] = pc[v]
      BY <1>1, <2>2 DEF IInv
    <3> QED BY <1>1, <2>2, <3>1 DEF IInv
  <2> QED BY <2>1, <2>2
<1>8. RowInv(progress)'
  BY <1>1, <1>2
<1>9. IInv'
  BY <1>5, <1>6, <1>7, <1>8 DEF IInv
<1> QED BY <1>3, <1>9

\* The phase of a worker is over.
LEMMA PhaseFacts ==
    ASSUME IInv, NEW w \in Workers, PhaseOver(w)
    PROVE  /\ MemoryInv(mem[w], "turn") /\ mem[w].active = <<>> /\ pc[w] = "turn"
           /\ mem[w].row \in Progress /\ mem[w].limited \in BOOLEAN
           /\ lease = w => mem[w].row = progress
<1>1. pc[w] = "turn" /\ mem[w].active = <<>> /\ pc[w] # "idle"
  BY DEF PhaseOver
<1>2. MemoryInv(mem[w], "turn")
  BY <1>1, Running
<1> QED BY <1>1, <1>2, Running, MemoryFacts

\* Exploration is over: the candidates and charges are frozen.
LEMMA EndCandidatesKeeps ==
    ASSUME IInv, NEW w \in Workers, EndCandidates(w)
    PROVE  IInv' /\ RowStep
<1> DEFINE m == mem[w]
           row == m.row
           found == FoundIn({c \in Finished(m.row, "candidate") : c.item \in m.done})
           lim(selected) == m.limited \/ m.waiting # <<>> \/ selected # found
           cov == Covered(m)
<1>1. /\ PhaseOver(w) /\ row.phase = "candidate"
      /\ UNCHANGED <<lease, attempts, dead, pc>>
  BY DEF EndCandidates
<1>2. PICK selected \in Selections(found) :
        LET new == [m.row EXCEPT !.phase = "verification", !.frozen = WithPrevious(selected),
                        !.charged = Charged(m.row, "candidate"),
                        !.covered = cov, !.limited = lim(selected)] IN
        /\ Save(w, new)
        /\ mem' = [mem EXCEPT ![w] = Queued(new, m.used)]
  BY Zenon DEF EndCandidates
<1>3. /\ MemoryInv(m, "turn") /\ m.active = <<>> /\ pc[w] = "turn"
      /\ lease = w => row = progress
      /\ m.limited \in BOOLEAN
  BY <1>1, PhaseFacts
<1>4. cov \in BOOLEAN /\ lim(selected) \in BOOLEAN
  BY DEF Covered
<1>5. m.limited => lim(selected)
  OBVIOUS
<1>6. selected # found => lim(selected)
  OBVIOUS
<1> HIDE DEF lim, cov
<1>7. PICK limited \in BOOLEAN : limited = lim(selected)
  BY <1>4
<1>8. PICK covered \in BOOLEAN : covered = cov
  BY <1>4
<1> DEFINE r == Frozen(row, selected, covered, limited)
           n == Queued(r, m.used)
<1>9. Save(w, r) /\ mem' = [mem EXCEPT ![w] = n]
  BY <1>2, <1>7, <1>8 DEF Frozen, WithPrevious
<1>10. lease = w /\ progress' = r
  BY <1>9 DEF Save
<1>11. (m.limited => limited) /\ (selected # found => limited) /\ (covered => Covered(m))
  BY <1>5, <1>6, <1>7, <1>8 DEF cov
<1> HIDE DEF m, found
<1>12. found = Gathered(m, "candidate")
  BY DEF found, Gathered
<1> HIDE DEF r
<1>13. r = Frozen(row, selected, covered, limited)
  BY DEF r
<1>14. /\ RowInv(r)
       /\ selected \in SUBSET FoundIn(Finished(m.row, "candidate"))
       /\ (selected # FoundIn(Finished(m.row, "candidate")) => limited)
       /\ MemoryInv(Queued(r, m.used), "turn")
       /\ Queued(r, m.used).row = r
  BY <1>1, <1>2, <1>3, <1>11, <1>12, <1>13, ExplorationOver
<1>15. row = progress => RowStep
  BY <1>1, <1>10, <1>13, <1>14, RowFreezes
<1>16. pc' = [pc EXCEPT ![w] = "turn"] /\ "turn" \in Labels /\ pc[w] # "idle"
  <2>1. pc[w] # "idle"
    BY <1>3
  <2>2. pc = [pc EXCEPT ![w] = pc[w]]
    BY <2>1, Running
  <2> QED BY <1>1, <1>3, <2>2 DEF Labels
<1>17. MemoryInv(n, "turn") /\ n.row = progress'
  BY <1>10, <1>14
<1> HIDE DEF n
<1> QED BY <1>1, <1>9, <1>10, <1>15, <1>16, <1>17, Saves DEF m

\* Verification is over: the result is saved.
LEMMA EndVerificationKeeps ==
    ASSUME IInv, NEW w \in Workers, EndVerification(w)
    PROVE  IInv' /\ RowStep
<1> DEFINE m == mem[w]
           row == m.row
           confirmed == FoundIn({c \in Finished(m.row, "verification") : c.item \in m.done})
           all(valid, published) ==
                /\ m.row.covered /\ ~m.row.limited
                /\ Covered(m) /\ ~m.limited
                /\ published = valid
                /\ confirmed \cap Prior \subseteq valid
<1>1. /\ PhaseOver(w) /\ row.phase = "verification"
      /\ lease' = NoWorker /\ pc' = [pc EXCEPT ![w] = "idle"] /\ mem' = [mem EXCEPT ![w] = Idle]
      /\ UNCHANGED <<attempts, dead>>
  BY DEF EndVerification
<1>2. PICK valid \in Validations(confirmed) :
       \E published \in kSubset(Min({MaxFindings, Cardinality(valid)}), valid) :
         Save(w, [m.row EXCEPT !.phase = "complete",
                    !.result = [valid |-> valid, published |-> published,
                                complete |-> all(valid, published)]])
  BY Zenon DEF EndVerification
<1>3. PICK published \in kSubset(Min({MaxFindings, Cardinality(valid)}), valid) :
         Save(w, [m.row EXCEPT !.phase = "complete",
                    !.result = [valid |-> valid, published |-> published,
                                complete |-> all(valid, published)]])
  BY <1>2
<1>4. /\ MemoryInv(m, "turn") /\ m.active = <<>>
      /\ lease = w => row = progress
  BY <1>1, PhaseFacts
<1>5. valid \in SUBSET confirmed /\ published \in SUBSET valid
  BY <1>2, <1>3 DEF Validations, kSubset
<1>6. all(valid, published) \in BOOLEAN
  OBVIOUS
<1>7. PICK complete \in BOOLEAN : complete = all(valid, published)
  BY <1>6
<1> DEFINE r == Completed(row, valid, published, complete)
<1>8. Save(w, r)
  <2> HIDE DEF all
  <2> QED BY <1>3, <1>7 DEF Completed
<1>9. lease = w /\ progress' = r
  BY <1>8 DEF Save
<1>10. complete => Whole(m, confirmed, valid, published)
  BY <1>7 DEF Whole
<1> HIDE DEF r, m, confirmed, all
<1>11. r = Completed(row, valid, published, complete)
  BY DEF r
<1>12. confirmed = Gathered(m, "verification")
  BY DEF confirmed, Gathered
<1>13. RowInv(r) /\ valid \in SUBSET FoundIn(Finished(m.row, "verification"))
  <2>1. r = Completed(m.row, valid, published, complete) /\ m.row.phase = "verification"
    BY <1>1, <1>11
  <2>2. RowInv(r)
    BY <1>4, <1>5, <1>10, <1>12, <2>1, VerificationOver
  <2>3. valid \in SUBSET FoundIn(Finished(m.row, "verification"))
    BY ZenonT(60), <1>4, <1>5, <1>10, <1>12, <2>1, VerificationOver
  <2> QED BY <2>2, <2>3
<1>14. RowStep
  <2>1. row = progress
    BY <1>4, <1>9
  <2>2. complete => progress.covered /\ ~progress.limited
    BY <1>10, <2>1 DEF Whole
  <2>3. progress.phase = "verification" /\ progress' = Completed(progress, valid, published, complete)
        /\ valid \in SUBSET FoundIn(Finished(progress, "verification"))
    BY <1>1, <1>9, <1>11, <1>13, <2>1
  <2> QED BY <1>5, <2>2, <2>3, RowCompletes
<1>15. IInv'
  <2>1. NoWorker # w /\ dead \in BOOLEAN
    BY SchedulerAssumption DEF IInv
  <2>2. lease' \in {NoWorker, lease} /\ lease' # w /\ attempts' = attempts /\ dead' \in BOOLEAN
    BY <1>1, <2>1
  <2> QED BY <1>1, <1>9, <1>13, <2>2, GoesIdle
<1> QED BY <1>14, <1>15

-----------------------------------------------------------------------------
(* The theorems *)

\* The initial state satisfies the invariant and begins like ReviewProgress.
LEMMA InitKeeps ==
    ASSUME Init
    PROVE  IInv /\ Stored!Init
<1>1. /\ lease = NoWorker /\ attempts = 0 /\ dead = FALSE /\ progress = NoProgress
      /\ pc = [w \in Workers |-> "idle"] /\ mem = [w \in Workers |-> Idle]
  BY DEF Init
<1>2. RowInv(progress)
  BY <1>1, FreshRow
<1>3. NoWorker \notin Workers /\ MaxAttempts \in Nat
  BY SchedulerAssumption
<1>4. attempts \in 0 .. MaxAttempts
  BY <1>1, <1>3
<1>5. pc \in [Workers -> Labels \cup {"idle"}] /\ DOMAIN mem = Workers
  BY <1>1
<1>6. ASSUME NEW w \in Workers
      PROVE  /\ pc[w] = "idle" => mem[w] = Idle /\ lease # w
             /\ pc[w] # "idle" => MemoryInv(mem[w], pc[w])
             /\ lease = w => mem[w].row = progress
  BY <1>1, <1>3
<1>7. Stored!Init
  BY <1>1 DEF Stored!Init, NoProgress, Stored!NoProgress, NoResult, Stored!NoResult,
              NoUsage, Stored!NoUsage
<1>8. IInv
  BY <1>1, <1>2, <1>4, <1>5, <1>6 DEF IInv
<1> QED BY <1>7, <1>8

\* Nothing happens.
LEMMA StutterKeeps ==
    ASSUME IInv, UNCHANGED vars
    PROVE  IInv' /\ RowStep
<1>1. UNCHANGED <<progress, lease, attempts, dead, pc, mem>>
  BY DEF vars
<1>2. RowStep
  BY <1>1 DEF RowStep
<1>3. RowInv(progress)'
  BY <1>1 DEF IInv
<1>4. ASSUME NEW w \in Workers
      PROVE  /\ pc'[w] = "idle" => mem'[w] = Idle /\ lease' # w
             /\ pc'[w] # "idle" => MemoryInv(mem'[w], pc'[w])
             /\ lease' = w => mem'[w].row = progress'
  BY <1>1 DEF IInv
<1>5. /\ lease' \in Workers \cup {NoWorker} /\ attempts' \in 0 .. MaxAttempts
      /\ dead' \in BOOLEAN /\ pc' \in [Workers -> Labels \cup {"idle"}]
      /\ DOMAIN mem' = Workers
  BY <1>1 DEF IInv
<1> QED BY <1>2, <1>3, <1>4, <1>5 DEF IInv

\* Every step keeps the invariant and changes the row as ReviewProgress does.
LEMMA StepKeeps ==
    ASSUME IInv, [Next]_vars
    PROVE  IInv' /\ RowStep
<1>1. ASSUME NEW w \in Workers, Step(w)
      PROVE  IInv' /\ RowStep
  <2>1. CASE Admit(w)
    BY <2>1, AdmitKeeps
  <2>2. CASE RepeatedTool(w)
    BY <2>2, RepeatedToolKeeps
  <2>3. CASE RefusedTool(w)
    BY <2>3, RefusedToolKeeps
  <2>4. CASE ReadTool(w)
    BY <2>4, ReadToolKeeps
  <2>5. CASE Ask(w)
    BY <2>5, AskKeeps
  <2>6. CASE Json(w)
    BY <2>6, JsonKeeps
  <2>7. CASE ToolCalls(w)
    BY <2>7, ToolCallsKeeps
  <2>8. CASE Truncated(w)
    BY <2>8, TruncatedKeeps
  <2>9. CASE TruncatedAgain(w)
    <3>1. pc[w] \in {"asked", "again"} /\ SplitItem(w, TRUE)
      BY <2>9 DEF TruncatedAgain
    <3> QED BY <3>1, SplitItemKeeps
  <2>10. CASE ContextTooLong(w)
    <3>1. pc[w] \in {"asked", "again"} /\ SplitItem(w, FALSE)
      BY <2>10 DEF ContextTooLong
    <3> QED BY <3>1, SplitItemKeeps
  <2>11. CASE CannotSplit(w) \/ Fenced(w)
    BY <2>11, EndsKeep
  <2>12. CASE EndCandidates(w)
    BY <2>12, EndCandidatesKeeps
  <2>13. CASE EndVerification(w)
    BY <2>13, EndVerificationKeeps
  <2> QED BY <1>1, <2>1, <2>2, <2>3, <2>4, <2>5, <2>6, <2>7, <2>8, <2>9, <2>10, <2>11,
             <2>12, <2>13 DEF Step
<1>2. ASSUME NEW w \in Workers, Start(w)
      PROVE  IInv' /\ RowStep
  BY <1>2, StartKeeps
<1>3. ASSUME NEW w \in Workers, Abort(w)
      PROVE  IInv' /\ RowStep
  BY <1>3, EndsKeep
<1>4. ASSUME NEW w \in Workers, Expire(w)
      PROVE  IInv' /\ RowStep
  BY <1>4, ExpireKeeps
<1>5. CASE UNCHANGED vars
  BY <1>5, StutterKeeps
<1>6. CASE Over
  <2>1. UNCHANGED vars
    BY <1>6 DEF Over
  <2> QED BY <2>1, StutterKeeps
<1> QED BY <1>1, <1>2, <1>3, <1>4, <1>5, <1>6 DEF Next

\* In every reachable state, for any diff, budget, workers and answers of the
\* model, the stored row and every worker's queues and budget are consistent.
THEOREM Invariance == Spec => []IInv
<1>1. Init => IInv
  BY InitKeeps
<1>2. IInv /\ [Next]_vars => IInv'
  BY StepKeeps
<1> QED BY <1>1, <1>2, PTL DEF Spec

\* Every variable has its type: progress rows as PostgresProgressBackend stores
\* them, and the memory of RoundRobinReview.
THEOREM Typed == Spec => []TypeOK
<1>1. ASSUME IInv PROVE TypeOK
  <2>1. /\ lease \in Workers \cup {NoWorker} /\ attempts \in 0 .. MaxAttempts
        /\ dead \in BOOLEAN /\ pc \in [Workers -> {"idle", "turn", "asked", "again"}]
    BY <1>1 DEF IInv, Labels
  <2>2. progress \in Progress
    BY <1>1 DEF IInv, RowInv
  <2>3. ASSUME NEW w \in Workers
        PROVE  /\ mem[w].row \in Progress /\ mem[w].used \in Usage
               /\ \A i \in DOMAIN mem[w].active :
                    mem[w].active[i].item \in WorkItems /\ mem[w].active[i].usage \in Usage
    <3>1. CASE pc[w] = "idle"
      <4>1. mem[w] = Idle
        BY <1>1, <3>1 DEF IInv
      <4>2. NoProgress \in Progress /\ NoUsage \in Usage
        BY FreshRow DEF RowInv, NoUsage, Usage
      <4> QED BY <4>1, <4>2 DEF Idle
    <3>2. CASE pc[w] # "idle"
      <4>1. MemoryInv(mem[w], pc[w])
        BY <1>1, <3>2, Running
      <4>2. /\ mem[w].row \in Progress /\ mem[w].used \in Usage
            /\ mem[w].active \in Seq(SessionRecord)
        BY <4>1, MemoryFacts
      <4>3. \A i \in DOMAIN mem[w].active : mem[w].active[i] \in SessionRecord
        BY <4>2, LenProperties
      <4> QED BY <4>2, <4>3 DEF SessionRecord
    <3> QED BY <3>1, <3>2
  <2> QED BY <2>1, <2>2, <2>3 DEF TypeOK
<1> QED BY <1>1, Invariance, PTL

\* RoundRobinReview keeps a final slot for every live session, for any budget.
THEOREM SlotKept == Spec => []FinalSlotKept
<1>1. ASSUME IInv PROVE FinalSlotKept
  <2> SUFFICES ASSUME NEW w \in Workers, pc[w] # "idle"
               PROVE  Protected(IF pc[w] = "turn" THEN mem[w].active ELSE Tail(mem[w].active))
                        <= RemainingCalls(mem[w])
    BY DEF FinalSlotKept
  <2>1. MemoryInv(mem[w], pc[w]) /\ pc[w] \in Labels
    BY <1>1, Running
  <2> QED BY <2>1 DEF MemoryInv, Answerable
<1> QED BY <1>1, Invariance, PTL

\* Exploration never spends the verifier's share of calls or reads, in an
\* attempt or over all attempts.
THEOREM ReserveIsKept == Spec => []ReserveKept
<1>1. ASSUME IInv PROVE ReserveKept
  <2>1. Within(progress.charged, CandidateCalls, CandidateTools)
    BY <1>1 DEF IInv, RowInv, Affordable
  <2>2. ASSUME NEW w \in Workers
        PROVE  /\ mem[w].used.calls <= MaxCalls /\ mem[w].used.tools <= MaxTools
               /\ mem[w].row.phase = "candidate" =>
                    /\ mem[w].used.calls <= CandidateCalls
                    /\ mem[w].used.tools <= CandidateTools
    <3>1. CASE pc[w] = "idle"
      <4>1. mem[w] = Idle
        BY <1>1, <3>1 DEF IInv
      <4>2. mem[w].used.calls = 0 /\ mem[w].used.tools = 0 /\ mem[w].row.phase = "none"
        BY <4>1 DEF Idle, NoUsage, NoProgress
      <4> QED BY <4>2, BudgetFacts
    <3>2. CASE pc[w] # "idle"
      <4>1. MemoryInv(mem[w], pc[w])
        BY <1>1, <3>2, Running
      <4>2. Within(mem[w].used, CapCalls(mem[w]), CapTools(mem[w]))
        BY <4>1 DEF MemoryInv, Budgeted
      <4>3. mem[w].used.calls \in Nat /\ mem[w].used.tools \in Nat
        BY <4>1, MemoryFacts
      <4> QED BY <4>2, <4>3, BudgetFacts DEF Within, CapCalls, CapTools
    <3> QED BY <3>1, <3>2
  <2> QED BY <2>1, <2>2 DEF ReserveKept, Within, CandidateCalls, CandidateTools
<1> QED BY <1>1, Invariance, PTL

\* What a finished exploration found is frozen for verification, in whichever
\* attempt it was found, or the result discloses a limitation.
THEOREM AcceptedKept == Spec => []AcceptedFindingsKept
<1>1. ASSUME IInv PROVE AcceptedFindingsKept
  <2>1. FrozenTrue(progress)
    BY <1>1 DEF IInv, RowInv
  <2> QED BY <2>1 DEF FrozenTrue, AcceptedFindingsKept
<1> QED BY <1>1, Invariance, PTL

\* A result that claims completeness was explored everywhere and verified for
\* every candidate.
THEOREM CompletenessTrue == Spec => []CompleteIsTrue
<1>1. ASSUME IInv PROVE CompleteIsTrue
  <2> SUFFICES ASSUME progress.phase = "complete", progress.result.complete
               PROVE  /\ UNION DoneItems(progress, "candidate") = UNION ToSet(Diff)
                      /\ UNION DoneItems(progress, "verification") = progress.frozen
                      /\ FoundIn(Finished(progress, "candidate")) \cup Prior = progress.frozen
                      /\ \A c \in progress.checkpoints : c.status # "SPLIT" => ~c.limited
                      /\ FoundIn(Finished(progress, "verification")) \cap Prior
                            \subseteq progress.result.published
    BY DEF CompleteIsTrue, DoneItems
  <2>1. FrozenTrue(progress) /\ ResultTrue(progress) /\ progress \in Progress
    BY <1>1 DEF IInv, RowInv
  <2>2. /\ progress.covered /\ ~progress.limited
        /\ UNION DoneItems(progress, "verification") = progress.frozen
        /\ Unlimited(progress, "verification")
        /\ FoundIn(Finished(progress, "verification")) \cap Prior \subseteq progress.result.published
    BY <2>1 DEF ResultTrue
  <2>3. /\ progress.frozen = FoundIn(Finished(progress, "candidate")) \cup Prior
        /\ Unlimited(progress, "candidate")
        /\ UNION DoneItems(progress, "candidate") = UNION ToSet(Diff)
    BY <2>1, <2>2 DEF FrozenTrue
  <2>4. \A c \in progress.checkpoints : c.status # "SPLIT" => ~c.limited
    <3>1. \A c \in progress.checkpoints : c.phase \in {"candidate", "verification"}
      BY <2>1 DEF Progress, WorkCheckpoint
    <3> QED BY <2>2, <2>3, <3>1 DEF Unlimited, InPhase
  <2> QED BY <2>2, <2>3, <2>4
<1> QED BY <1>1, Invariance, PTL

\* The engine implements ReviewProgress: whatever the attempts and stale workers
\* do, the row that save() overwrites as a whole only grows.
THEOREM RowRefines == Spec => RowOnlyGrows
<1>1. Init => Stored!Init
  BY InitKeeps
<1>2. IInv /\ [Next]_vars => [Stored!Next]_progress
  BY StepKeeps DEF RowStep
<1>3. Stored!Init /\ [][Stored!Next]_progress => RowOnlyGrows
  BY DEF RowOnlyGrows, Stored!Spec
<1> QED BY <1>1, <1>2, <1>3, Invariance, PTL DEF Spec

\* Two queues without repetitions or a common entry, one after the other.
LEMMA Joined ==
    ASSUME NEW S, NEW p \in Seq(S), NEW q \in Seq(S), Apart(p), Apart(q),
           ToSet(p) \cap ToSet(q) = {},
           NEW t, t = p \o q
    PROVE  ToSet(t) = ToSet(p) \cup ToSet(q) /\ IsInjective(t)
<1>1. /\ t \in Seq(S) /\ Len(t) = Len(p) + Len(q)
      /\ \A i \in 1 .. Len(p) + Len(q) : t[i] = IF i <= Len(p) THEN p[i] ELSE q[i - Len(p)]
  BY ConcatProperties
<1>2. /\ Len(p) \in Nat /\ Len(q) \in Nat
      /\ DOMAIN p = 1 .. Len(p) /\ DOMAIN q = 1 .. Len(q) /\ DOMAIN t = 1 .. Len(p) + Len(q)
  BY <1>1, LenProperties
<1>3. \A i \in DOMAIN p : i \in DOMAIN t /\ t[i] = p[i]
  BY <1>1, <1>2
<1>4. \A i \in DOMAIN q : Len(p) + i \in DOMAIN t /\ t[Len(p) + i] = q[i]
  <2> SUFFICES ASSUME NEW i \in DOMAIN q
               PROVE  Len(p) + i \in DOMAIN t /\ t[Len(p) + i] = q[i]
    OBVIOUS
  <2>1. i \in Nat /\ i >= 1 /\ i <= Len(q)
    BY <1>2
  <2>2. Len(p) + i \in 1 .. Len(p) + Len(q) /\ ~(Len(p) + i <= Len(p)) /\ (Len(p) + i) - Len(p) = i
    BY <1>2, <2>1
  <2> QED BY <1>1, <1>2, <2>2
<1>5. \A k \in DOMAIN t : \/ k \in DOMAIN p /\ t[k] = p[k]
                          \/ k > Len(p) /\ k - Len(p) \in DOMAIN q /\ t[k] = q[k - Len(p)]
  <2> SUFFICES ASSUME NEW k \in DOMAIN t
               PROVE  \/ k \in DOMAIN p /\ t[k] = p[k]
                      \/ k > Len(p) /\ k - Len(p) \in DOMAIN q /\ t[k] = q[k - Len(p)]
    OBVIOUS
  <2>1. k \in 1 .. Len(p) + Len(q)
    BY <1>2
  <2>2. CASE k <= Len(p)
    BY <1>1, <1>2, <2>1, <2>2
  <2>3. CASE ~(k <= Len(p))
    <3>1. k - Len(p) \in 1 .. Len(q) /\ k > Len(p)
      BY <1>2, <2>1, <2>3
    <3> QED BY <1>1, <1>2, <2>1, <2>3, <3>1
  <2> QED BY <2>2, <2>3
<1>6. ToSet(t) = ToSet(p) \cup ToSet(q)
  <2>1. \A k \in DOMAIN t : (\E i \in DOMAIN p : t[k] = p[i]) \/ (\E i \in DOMAIN q : t[k] = q[i])
    BY <1>5
  <2>2. \A i \in DOMAIN p : \E k \in DOMAIN t : t[k] = p[i]
    BY <1>3
  <2>3. \A i \in DOMAIN q : \E k \in DOMAIN t : t[k] = q[i]
    BY <1>4
  <2>4. ASSUME NEW x \in ToSet(t)
        PROVE  x \in ToSet(p) \cup ToSet(q)
    <3>1. PICK k \in DOMAIN t : x = t[k]
      BY DEF ToSet
    <3>2. CASE \E i \in DOMAIN p : t[k] = p[i]
      BY <3>1, <3>2 DEF ToSet
    <3>3. CASE \E i \in DOMAIN q : t[k] = q[i]
      BY <3>1, <3>3 DEF ToSet
    <3> QED BY <2>1, <3>2, <3>3
  <2>5. ToSet(p) \subseteq ToSet(t)
    BY <2>2 DEF ToSet
  <2>6. ToSet(q) \subseteq ToSet(t)
    BY <2>3 DEF ToSet
  <2> QED BY <2>4, <2>5, <2>6
<1>7. ASSUME NEW a \in DOMAIN t, NEW b \in DOMAIN t, t[a] = t[b]
      PROVE  a = b
  <2>1. a \in Nat /\ b \in Nat
    BY <1>2
  <2>2. CASE a \in DOMAIN p /\ b \in DOMAIN p
    BY <1>2, <1>3, <1>7, <2>2 DEF Apart
  <2>3. CASE a \notin DOMAIN p /\ b \notin DOMAIN p
    <3>1. /\ a - Len(p) \in DOMAIN q /\ t[a] = q[a - Len(p)]
          /\ b - Len(p) \in DOMAIN q /\ t[b] = q[b - Len(p)]
      BY <1>5, <2>3
    <3>2. a - Len(p) = b - Len(p)
      BY <1>2, <1>7, <3>1 DEF Apart
    <3> QED BY <1>2, <2>1, <3>2
  <2>4. CASE a \in DOMAIN p /\ b \notin DOMAIN p
    <3>1. t[a] \in ToSet(p) /\ t[b] \in ToSet(q)
      BY <1>3, <1>5, <2>4 DEF ToSet
    <3> QED BY <1>7, <3>1
  <2>5. CASE a \notin DOMAIN p /\ b \in DOMAIN p
    <3>1. t[b] \in ToSet(p) /\ t[a] \in ToSet(q)
      BY <1>3, <1>5, <2>5 DEF ToSet
    <3> QED BY <1>7, <3>1
  <2> QED BY <2>2, <2>3, <2>4, <2>5
<1> QED BY <1>6, <1>7 DEF IsInjective

\* The queue of a worker, as NothingUnaccounted reads it.
LEMMA QueuedItems ==
    ASSUME NEW m, NEW label, MemoryInv(m, label),
           NEW queued, queued = [i \in DOMAIN m.waiting |-> m.waiting[i]] \o
                                [i \in DOMAIN m.active |-> m.active[i].item]
    PROVE  ToSet(queued) = Undecided(m.row) /\ IsInjective(queued)
<1> DEFINE p == m.waiting
           a == m.active
           q == Items(a)
<1>1. /\ p \in Seq(WorkItems) /\ a \in Seq(SessionRecord)
      /\ Apart(p) /\ Apart(q) /\ ToSet(p) \cap ToSet(q) = {}
  BY MemoryFacts
<1>2. Undecided(m.row) = ToSet(p) \cup ToSet(q)
  BY DEF MemoryInv, QueuesExact
<1> HIDE DEF p, a
<1>3. q \in Seq(WorkItems)
  BY <1>1, Measures, MapSeq DEF Items
<1>4. [i \in DOMAIN p |-> p[i]] = p
  BY <1>1
<1>5. [i \in DOMAIN a |-> a[i].item] = q
  <2>1. \A i \in DOMAIN a : a[i] \in SessionRecord
    BY <1>1, LenProperties
  <2>2. \A i \in DOMAIN a : ItemOf[a[i]] = a[i].item
    BY <2>1, MeasureOf
  <2> QED BY <2>2 DEF Items, Mapped
<1>6. queued = p \o q
  BY <1>4, <1>5 DEF p, a
<1> HIDE DEF q
<1>7. ToSet(queued) = ToSet(p) \cup ToSet(q) /\ IsInjective(queued)
  BY <1>1, <1>3, <1>6, Joined
<1> QED BY <1>2, <1>7 DEF p

\* Every place of the phase is in exactly one item that is done, waiting or
\* running, after any cuts and in any attempt.
THEOREM AllAccounted == Spec => []NothingUnaccounted
<1>1. ASSUME IInv PROVE NothingUnaccounted
  <2> SUFFICES ASSUME NEW w \in Workers, pc[w] # "idle"
               PROVE  LET m == mem[w]
                          queued == [i \in DOMAIN m.waiting |-> m.waiting[i]] \o
                                    [i \in DOMAIN m.active |-> m.active[i].item]
                          items == m.done \cup m.stopped \cup ToSet(queued) IN
                      /\ UNION items = UNION InitialWork(m.row)
                      /\ \A a, b \in items : a # b => a \cap b = {}
                      /\ IsInjective(queued)
                      /\ ToSet(queued) \cap (m.done \cup m.stopped) = {}
    BY DEF NothingUnaccounted
  <2> DEFINE m == mem[w]
             row == m.row
             L == Leaves(row, row.phase)
             D == DoneItems(row, row.phase)
             queued == [i \in DOMAIN m.waiting |-> m.waiting[i]] \o
                       [i \in DOMAIN m.active |-> m.active[i].item]
             items == m.done \cup m.stopped \cup ToSet(queued)
  <2>1. MemoryInv(m, pc[w])
    BY <1>1, Running
  <2>2. ToSet(queued) = Undecided(row) /\ IsInjective(queued)
    BY <2>1, QueuedItems
  <2>3. m.done = D /\ m.stopped = {} /\ RowInv(row) /\ row.phase \in Phases
    BY <2>1 DEF MemoryInv, TakenOver
  <2>4. row \in Progress /\ Checked(row) /\ Forest(row, row.phase)
    BY <2>3 DEF RowInv, Phases
  <2>5. Undecided(row) = L \ D /\ InitialWork(row) = Roots(row, row.phase)
    BY <2>3, <2>4, UndecidedIs
  <2>6. D \subseteq L /\ Disjoint(L) /\ UNION L = UNION Roots(row, row.phase)
    BY <2>4 DEF Forest, ForestOf, Leaves
  <2> HIDE DEF L, D, queued
  <2>7. items = L /\ ToSet(queued) \cap (m.done \cup m.stopped) = {}
    BY <2>2, <2>3, <2>5, <2>6
  <2>8. UNION items = UNION InitialWork(row) /\ \A a, b \in items : a # b => a \cap b = {}
    BY <2>5, <2>6, <2>7 DEF Disjoint
  <2> HIDE DEF items
  <2> QED BY <2>2, <2>7, <2>8 DEF items, queued
<1> QED BY <1>1, Invariance, PTL

\* No session ends without an answer, and no item without a decision.
NeverCutOff ==
    /\ \A c \in progress.checkpoints : c.status # "STOPPED"
    /\ \A w \in Workers : mem[w].stopped = {}

\* RoundRobinReview.run stops a session when fewer than one call is left beside the
\* protected ones (scheduling.py, available < 1). With fixed limits that branch is
\* never taken, not even after refused contexts and restarts: admission leaves every
\* session the call for its final answer, so no item is saved as STOPPED.
THEOREM NoSessionCutOff == Spec => []NeverCutOff
<1>1. ASSUME IInv PROVE NeverCutOff
  <2>1. \A c \in progress.checkpoints : c.status # "STOPPED"
    BY <1>1 DEF IInv, RowInv, Checked
  <2>2. ASSUME NEW w \in Workers PROVE mem[w].stopped = {}
    <3>1. CASE pc[w] = "idle"
      BY <1>1, <3>1 DEF IInv, Idle
    <3>2. CASE pc[w] # "idle"
      BY <1>1, <3>2, Running, MemoryFacts
    <3> QED BY <3>1, <3>2
  <2> QED BY <2>1, <2>2 DEF NeverCutOff
<1> QED BY <1>1, Invariance, PTL
=============================================================================
