---------------------------- MODULE SumTheorems ----------------------------
(***************************************************************************)
(* What SumFunctionOnSet computes, for every finite set of indices.  The   *)
(* conservation properties of this project are sums over queues, buckets   *)
(* and counters, and all their proofs rest on these facts.                 *)
(*                                                                         *)
(* An induction over finite sets is a minimal counterexample here: a       *)
(* non-empty set of finite sets has a smallest member (SmallestSubset), as *)
(* one of natural numbers has a least (LeastNat).                          *)
(***************************************************************************)
EXTENDS Integers, Sequences, FiniteSets, Functions, FiniteSetTheorems,
        SequenceTheorems, WellFoundedInduction, TLAPS

\* The right-hand side of the recursion that FoldFunctionOnSet unfolds to.
SumStep(g, f, s) == IF s = {} THEN 0
                 ELSE LET x == CHOOSE y \in s : TRUE IN f[x] + g[s \ {x}]

\* g holds the sums of f over all the subsets of S.
SumsOf(g, f, S) == g = [s \in SUBSET S |-> SumStep(g, f, s)]

Solution(f, S) == CHOOSE g : SumsOf(g, f, S)

\* A smallest member of a set of subsets of a finite set.
LEMMA SmallestSubset ==
  ASSUME NEW S, IsFiniteSet(S), NEW T \in SUBSET (SUBSET S), T # {}
  PROVE  \E s \in T : \A t \in T : t \subseteq s => t = s
<1>1. FiniteSubsetsOf(S) = SUBSET S
  BY FS_FiniteSubsetsOfFinite
<1>2. IsWellFoundedOn(StrictSubsetOrdering(S), SUBSET S)
  BY <1>1, FS_StrictSubsetOrderingWellFounded
<1>3. PICK s \in T : \A t \in T : ~ (<<t, s>> \in StrictSubsetOrdering(S))
  BY <1>2, WFMin
<1> QED
  BY <1>3 DEF StrictSubsetOrdering

\* A set of natural numbers has a least member.
LEMMA LeastNat ==
  ASSUME NEW T \in SUBSET Nat, T # {}
  PROVE  \E n \in T : \A m \in T : n <= m
<1>1. PICK n \in T : \A m \in T : ~ (<<m, n>> \in OpToRel(<, Nat))
  BY NatLessThanWellFounded, WFMin
<1>2. \A m \in T : ~ (m < n)
  BY <1>1 DEF OpToRel
<1> QED
  BY <1>2

\* The sum is the value of the recursive function at the whole set.
LEMMA Unfolded ==
  ASSUME NEW f, NEW S
  PROVE  SumFunctionOnSet(f, S) = Solution(f, S)[S]
  BY DEF SumFunctionOnSet, FoldFunctionOnSet, MapThenFoldSet, Solution, SumsOf, SumStep

\* The element that the recursion removes first.
LEMMA Removed ==
  ASSUME NEW s, s # {}
  PROVE  LET x == CHOOSE y \in s : TRUE
         IN  x \in s /\ s \ {x} \subseteq s /\ s \ {x} # s
  OBVIOUS

\* The equation holds at every subset.
LEMMA SumsAt ==
  ASSUME NEW f, NEW S, NEW g, SumsOf(g, f, S), NEW s \in SUBSET S
  PROVE  g[s] = SumStep(g, f, s)
  BY DEF SumsOf

\* The recursive equation has at most one solution on a finite set.
LEMMA SumsUnique ==
  ASSUME NEW f, NEW S, IsFiniteSet(S), NEW g, NEW h, SumsOf(g, f, S), SumsOf(h, f, S)
  PROVE  g = h
<1> DEFINE T == {s \in SUBSET S : g[s] # h[s]}
<1>1. T \in SUBSET (SUBSET S)
  OBVIOUS
<1>2. ASSUME T # {} PROVE FALSE
  <2>1. PICK s \in T : \A t \in T : t \subseteq s => t = s
    <3> HIDE DEF T
    <3> QED
      BY <1>1, <1>2, SmallestSubset
  <2>2. s \in SUBSET S /\ g[s] # h[s] /\ g[s] = SumStep(g, f, s) /\ h[s] = SumStep(h, f, s)
    BY <2>1, SumsAt
  <2>3. s # {}
    BY <2>2 DEF SumStep
  <2> DEFINE x == CHOOSE y \in s : TRUE
  <2>4. s \ {x} \in SUBSET S /\ s \ {x} \notin T
    BY <2>1, <2>3, Removed
  <2> QED
    BY <2>2, <2>3, <2>4 DEF SumStep
<1> QED
  BY <1>2 DEF SumsOf

\* The sums over the subsets of S include those over the subsets of u.
LEMMA SumsRestricted ==
  ASSUME NEW f, NEW S, NEW g, SumsOf(g, f, S), NEW u \in SUBSET S
  PROVE  SumsOf([v \in SUBSET u |-> g[v]], f, u)
<1> DEFINE h == [v \in SUBSET u |-> g[v]]
<1>1. ASSUME NEW v \in SUBSET u PROVE h[v] = SumStep(h, f, v)
  <2>1. g[v] = SumStep(g, f, v)
    BY SumsAt
  <2>2. v # {} => LET x == CHOOSE y \in v : TRUE IN h[v \ {x}] = g[v \ {x}]
    OBVIOUS
  <2> QED
    BY <2>1, <2>2 DEF SumStep
<1>2. h = [v \in SUBSET u |-> SumStep(h, f, v)]
  BY <1>1
<1> QED
  BY <1>2 DEF SumsOf

\* The solutions on a set and on its subsets agree.
LEMMA SolAt ==
  ASSUME NEW f, NEW S, IsFiniteSet(S), \E g : SumsOf(g, f, S), NEW u \in SUBSET S
  PROVE  SumsOf(Solution(f, S), f, S) /\ Solution(f, S)[u] = Solution(f, u)[u]
<1>1. SumsOf(Solution(f, S), f, S)
  BY DEF Solution
<1> DEFINE h == [v \in SUBSET u |-> Solution(f, S)[v]]
<1>2. SumsOf(h, f, u)
  BY <1>1, SumsRestricted
<1>3. SumsOf(Solution(f, u), f, u)
  BY <1>2 DEF Solution
<1>4. h = Solution(f, u)
  BY <1>2, <1>3, SumsUnique, FS_Subset
<1>5. h[u] = Solution(f, S)[u]
  OBVIOUS
<1> QED
  BY <1>1, <1>4, <1>5

\* The recursive equation has a solution on a finite set.
LEMMA SumsExist ==
  ASSUME NEW f, NEW S, IsFiniteSet(S)
  PROVE  \E g : SumsOf(g, f, S)
<1> DEFINE T == {s \in SUBSET S : ~ \E g : SumsOf(g, f, s)}
<1>1. T \in SUBSET (SUBSET S)
  OBVIOUS
<1>2. ASSUME T # {} PROVE FALSE
  <2>1. PICK s \in T : \A t \in T : t \subseteq s => t = s
    <3> HIDE DEF T
    <3> QED
      BY <1>1, <1>2, SmallestSubset
  <2> DEFINE G == [t \in SUBSET s |-> IF t = {} THEN 0
                      ELSE LET x == CHOOSE y \in t : TRUE
                           IN  f[x] + Solution(f, t \ {x})[t \ {x}]]
  <2>2. ASSUME NEW u \in SUBSET s, u # s PROVE G[u] = Solution(f, u)[u]
    <3>1. (\E g : SumsOf(g, f, u)) /\ IsFiniteSet(u)
      BY <2>1, <2>2, FS_Subset
    <3>2. Solution(f, u)[u] = SumStep(Solution(f, u), f, u)
      BY <3>1, SolAt, SumsAt
    <3>3. CASE u = {}
      BY <3>2, <3>3 DEF SumStep
    <3>4. CASE u # {}
      <4> DEFINE x == CHOOSE y \in u : TRUE
      <4>1. u \ {x} \in SUBSET u
        OBVIOUS
      <4>2. Solution(f, u)[u \ {x}] = Solution(f, u \ {x})[u \ {x}]
        BY <3>1, <4>1, SolAt
      <4> QED
        BY <3>2, <3>4, <4>2 DEF SumStep
    <3> QED
      BY <3>3, <3>4
  <2>3. ASSUME NEW t \in SUBSET s PROVE G[t] = SumStep(G, f, t)
    <3>1. CASE t = {}
      BY <3>1 DEF SumStep
    <3>2. CASE t # {}
      <4> DEFINE x == CHOOSE y \in t : TRUE
      <4>1. t \ {x} \in SUBSET s /\ t \ {x} # s
        BY <3>2, Removed
      <4>2. G[t \ {x}] = Solution(f, t \ {x})[t \ {x}]
        BY <2>2, <4>1
      <4> QED
        BY <3>2, <4>2 DEF SumStep
    <3> QED
      BY <3>1, <3>2
  <2>4. G = [t \in SUBSET s |-> SumStep(G, f, t)]
    BY <2>3
  <2>5. SumsOf(G, f, s)
    BY <2>4 DEF SumsOf
  <2> QED
    BY <2>1, <2>5
<1>3. S \in SUBSET S /\ S \notin T
  BY <1>2
<1> QED
  BY <1>3

\* The sum over a set is that of one of its elements and the sum over the others.
LEMMA SumDef ==
  ASSUME NEW f, NEW S, IsFiniteSet(S)
  PROVE  SumFunctionOnSet(f, S) =
           IF S = {} THEN 0
           ELSE LET x == CHOOSE y \in S : TRUE
                IN  f[x] + SumFunctionOnSet(f, S \ {x})
<1>1. \A s : SumFunctionOnSet(f, s) = Solution(f, s)[s]
  BY Unfolded
<1>2. SumsOf(Solution(f, S), f, S) /\ S \in SUBSET S
  BY SumsExist, SolAt
<1>3. Solution(f, S)[S] = SumStep(Solution(f, S), f, S)
  BY <1>2, SumsAt
<1>4. S # {} => LET x == CHOOSE y \in S : TRUE
                IN  Solution(f, S)[S \ {x}] = Solution(f, S \ {x})[S \ {x}]
  BY SumsExist, SolAt
<1> QED
  BY <1>1, <1>3, <1>4 DEF SumStep

-----------------------------------------------------------------------------
\* The sum over no elements.
LEMMA SumEmpty ==
  ASSUME NEW f
  PROVE  SumFunctionOnSet(f, {}) = 0
  BY SumDef, FS_EmptySet

IntOn(f, S) == \A x \in S : f[x] \in Int

\* A sum of integers is an integer.
LEMMA SumInt ==
  ASSUME NEW f, NEW S, IsFiniteSet(S), IntOn(f, S)
  PROVE  SumFunctionOnSet(f, S) \in Int
<1> DEFINE T == {s \in SUBSET S : SumFunctionOnSet(f, s) \notin Int}
<1>1. T \in SUBSET (SUBSET S)
  OBVIOUS
<1>2. ASSUME T # {} PROVE FALSE
  <2>1. PICK s \in T : \A t \in T : t \subseteq s => t = s
    <3> HIDE DEF T
    <3> QED
      BY <1>1, <1>2, SmallestSubset
  <2>2. IsFiniteSet(s)
    BY <2>1, FS_Subset
  <2>0. 0 \in Int /\ SumFunctionOnSet(f, {}) = 0
    BY SumEmpty
  <2>3. s # {}
    BY <2>0, <2>1
  <2> DEFINE x == CHOOSE y \in s : TRUE
  <2>4. s \ {x} \in SUBSET S /\ s \ {x} \notin T /\ x \in S
    BY <2>1, <2>3, Removed
  <2>5. SumFunctionOnSet(f, s) = f[x] + SumFunctionOnSet(f, s \ {x})
    BY <2>2, <2>3, SumDef
  <2>6. f[x] \in Int /\ SumFunctionOnSet(f, s \ {x}) \in Int
    BY <2>4 DEF IntOn
  <2> QED
    BY <2>1, <2>5, <2>6
<1>3. S \in SUBSET S /\ S \notin T
  BY <1>2
<1> QED
  BY <1>3

\* Any element may be taken out of the sum.
LEMMA SumRemove ==
  ASSUME NEW f, NEW S, IsFiniteSet(S), IntOn(f, S), NEW z \in S
  PROVE  /\ SumFunctionOnSet(f, S) = f[z] + SumFunctionOnSet(f, S \ {z})
         /\ f[z] \in Int /\ SumFunctionOnSet(f, S \ {z}) \in Int
<1> DEFINE Good(s) == \A y \in s :
              SumFunctionOnSet(f, s) = f[y] + SumFunctionOnSet(f, s \ {y})
           T == {s \in SUBSET S : ~Good(s)}
<1>0. ASSUME NEW s \in SUBSET S
      PROVE  IsFiniteSet(s) /\ SumFunctionOnSet(f, s) \in Int /\ \A y \in s : f[y] \in Int
  <2>1. IsFiniteSet(s) /\ IntOn(f, s)
    BY FS_Subset DEF IntOn
  <2> QED
    BY <2>1, SumInt DEF IntOn
<1>1. T \in SUBSET (SUBSET S)
  OBVIOUS
<1>2. ASSUME T # {} PROVE FALSE
  <2>1. PICK s \in T : \A t \in T : t \subseteq s => t = s
    <3> HIDE DEF T
    <3> QED
      BY <1>1, <1>2, SmallestSubset
  <2>2. PICK y \in s : SumFunctionOnSet(f, s) # f[y] + SumFunctionOnSet(f, s \ {y})
    BY <2>1
  <2> DEFINE x == CHOOSE w \in s : TRUE
  <2>3. s # {} /\ x \in s /\ s \ {x} # s /\ s \in SUBSET S
    BY <2>1, <2>2
  <2>4. SumFunctionOnSet(f, s) = f[x] + SumFunctionOnSet(f, s \ {x})
    BY <1>0, <2>3, SumDef
  <2>5. x # y
    BY <2>2, <2>4
  <2> HIDE DEF x
  <2>6. s \ {x} \notin T /\ s \ {y} \notin T
    BY <2>1, <2>2, <2>3
  <2> HIDE DEF T
  <2>7. Good(s \ {x}) /\ Good(s \ {y})
    BY <2>3, <2>6 DEF T
  <2>8. y \in s \ {x} /\ x \in s \ {y} /\ (s \ {x}) \ {y} = (s \ {y}) \ {x}
    BY <2>2, <2>3, <2>5
  <2> DEFINE u == (s \ {x}) \ {y}
  <2>9. /\ SumFunctionOnSet(f, s \ {x}) = f[y] + SumFunctionOnSet(f, u)
        /\ SumFunctionOnSet(f, s \ {y}) = f[x] + SumFunctionOnSet(f, u)
    BY <2>7, <2>8
  <2>10. SumFunctionOnSet(f, u) \in Int /\ f[x] \in Int /\ f[y] \in Int
    BY <1>0, <2>2, <2>3
  <2> QED
    BY <2>2, <2>4, <2>9, <2>10
<1>3. S \in SUBSET S /\ S \notin T
  BY <1>2
<1>4. Good(S)
  BY <1>3
<1>5. S \ {z} \in SUBSET S
  OBVIOUS
<1> QED
  BY <1>0, <1>3, <1>4, <1>5

\* An element more.
LEMMA SumInsert ==
  ASSUME NEW f, NEW S, IsFiniteSet(S), NEW z, z \notin S, IntOn(f, S \cup {z})
  PROVE  SumFunctionOnSet(f, S \cup {z}) = f[z] + SumFunctionOnSet(f, S)
<1>1. IsFiniteSet(S \cup {z}) /\ z \in S \cup {z} /\ (S \cup {z}) \ {z} = S
  BY FS_AddElement
<1> QED
  BY <1>1, SumRemove

\* The sum of a set with one element.
LEMMA SumSingleton ==
  ASSUME NEW f, NEW z, f[z] \in Int
  PROVE  SumFunctionOnSet(f, {z}) = f[z]
<1>1. IsFiniteSet({z}) /\ IntOn(f, {z}) /\ {z} \ {z} = {}
  BY FS_Singleton DEF IntOn
<1> QED
  BY <1>1, SumRemove, SumEmpty

\* The sum is determined by the values on the set.
LEMMA SumSame ==
  ASSUME NEW f, NEW g, NEW S, IsFiniteSet(S), \A x \in S : f[x] = g[x]
  PROVE  SumFunctionOnSet(f, S) = SumFunctionOnSet(g, S)
<1> DEFINE T == {s \in SUBSET S : SumFunctionOnSet(f, s) # SumFunctionOnSet(g, s)}
<1>1. T \in SUBSET (SUBSET S)
  OBVIOUS
<1>2. ASSUME T # {} PROVE FALSE
  <2>1. PICK s \in T : \A t \in T : t \subseteq s => t = s
    <3> HIDE DEF T
    <3> QED
      BY <1>1, <1>2, SmallestSubset
  <2>2. IsFiniteSet(s)
    BY <2>1, FS_Subset
  <2>3. s # {}
    BY <2>1, SumEmpty
  <2> DEFINE x == CHOOSE y \in s : TRUE
  <2>4. s \ {x} \in SUBSET S /\ s \ {x} \notin T /\ x \in S
    BY <2>1, <2>3, Removed
  <2>5. /\ SumFunctionOnSet(f, s) = f[x] + SumFunctionOnSet(f, s \ {x})
        /\ SumFunctionOnSet(g, s) = g[x] + SumFunctionOnSet(g, s \ {x})
    BY <2>2, <2>3, SumDef
  <2> QED
    BY <2>1, <2>4, <2>5
<1>3. S \in SUBSET S /\ S \notin T
  BY <1>2
<1> QED
  BY <1>3

\* One value changes.
LEMMA SumChange ==
  ASSUME NEW f, NEW g, NEW S, IsFiniteSet(S), IntOn(f, S), IntOn(g, S), NEW z \in S,
         \A x \in S \ {z} : f[x] = g[x]
  PROVE  SumFunctionOnSet(g, S) = SumFunctionOnSet(f, S) - f[z] + g[z]
<1>1. IsFiniteSet(S \ {z})
  BY FS_RemoveElement
<1>2. SumFunctionOnSet(f, S \ {z}) = SumFunctionOnSet(g, S \ {z})
  BY <1>1, SumSame
<1> QED
  BY <1>2, SumRemove

\* Sums are added term by term.
LEMMA SumPlus ==
  ASSUME NEW f, NEW g, NEW h, NEW S, IsFiniteSet(S), IntOn(f, S), IntOn(g, S),
         \A x \in S : h[x] = f[x] + g[x]
  PROVE  SumFunctionOnSet(h, S) = SumFunctionOnSet(f, S) + SumFunctionOnSet(g, S)
<1> DEFINE Good(s) == SumFunctionOnSet(h, s) = SumFunctionOnSet(f, s) + SumFunctionOnSet(g, s)
           T == {s \in SUBSET S : ~Good(s)}
<1>1. T \in SUBSET (SUBSET S)
  OBVIOUS
<1>2. ASSUME T # {} PROVE FALSE
  <2>1. PICK s \in T : \A t \in T : t \subseteq s => t = s
    <3> HIDE DEF T
    <3> QED
      BY <1>1, <1>2, SmallestSubset
  <2>2. IsFiniteSet(s) /\ s \in SUBSET S /\ ~Good(s)
    BY <2>1, FS_Subset
  <2>3. s # {}
    BY <2>2, SumEmpty
  <2>4. PICK x : x \in s
    BY <2>3
  <2>5. s \ {x} \in SUBSET S /\ Good(s \ {x})
    BY <2>1, <2>2, <2>4
  <2>6. IntOn(f, s) /\ IntOn(g, s) /\ IntOn(h, s)
    BY <2>2 DEF IntOn
  <2>7. /\ SumFunctionOnSet(f, s) = f[x] + SumFunctionOnSet(f, s \ {x})
        /\ SumFunctionOnSet(g, s) = g[x] + SumFunctionOnSet(g, s \ {x})
        /\ SumFunctionOnSet(h, s) = h[x] + SumFunctionOnSet(h, s \ {x})
        /\ f[x] \in Int /\ SumFunctionOnSet(f, s \ {x}) \in Int
        /\ g[x] \in Int /\ SumFunctionOnSet(g, s \ {x}) \in Int
    BY <2>2, <2>4, <2>6, SumRemove
  <2>8. h[x] = f[x] + g[x]
    BY <2>2, <2>4
  <2> QED
    BY <2>2, <2>5, <2>7, <2>8
<1>3. S \in SUBSET S /\ S \notin T
  BY <1>2
<1> QED
  BY <1>3

\* A sum of smaller terms is smaller.
LEMMA SumMonotonic ==
  ASSUME NEW f, NEW g, NEW S, IsFiniteSet(S), IntOn(f, S), IntOn(g, S),
         \A x \in S : f[x] <= g[x]
  PROVE  SumFunctionOnSet(f, S) <= SumFunctionOnSet(g, S)
<1> DEFINE Good(s) == SumFunctionOnSet(f, s) <= SumFunctionOnSet(g, s)
           T == {s \in SUBSET S : ~Good(s)}
<1>1. T \in SUBSET (SUBSET S)
  OBVIOUS
<1>2. ASSUME T # {} PROVE FALSE
  <2>1. PICK s \in T : \A t \in T : t \subseteq s => t = s
    <3> HIDE DEF T
    <3> QED
      BY <1>1, <1>2, SmallestSubset
  <2>2. IsFiniteSet(s) /\ s \in SUBSET S /\ ~Good(s)
    BY <2>1, FS_Subset
  <2>3. s # {}
    BY <2>2, SumEmpty
  <2>4. PICK x : x \in s
    BY <2>3
  <2>5. s \ {x} \in SUBSET S /\ Good(s \ {x})
    BY <2>1, <2>2, <2>4
  <2>6. IntOn(f, s) /\ IntOn(g, s)
    BY <2>2 DEF IntOn
  <2>7. /\ SumFunctionOnSet(f, s) = f[x] + SumFunctionOnSet(f, s \ {x})
        /\ SumFunctionOnSet(g, s) = g[x] + SumFunctionOnSet(g, s \ {x})
        /\ f[x] \in Int /\ SumFunctionOnSet(f, s \ {x}) \in Int
        /\ g[x] \in Int /\ SumFunctionOnSet(g, s \ {x}) \in Int
    BY <2>2, <2>4, <2>6, SumRemove
  <2>8. f[x] <= g[x]
    BY <2>2, <2>4
  <2> QED
    BY <2>2, <2>5, <2>7, <2>8
<1>3. S \in SUBSET S /\ S \notin T
  BY <1>2
<1> QED
  BY <1>3

\* A sum of zeros, and of natural numbers.
LEMMA SumZero ==
  ASSUME NEW f, NEW S, IsFiniteSet(S), \A x \in S : f[x] = 0
  PROVE  SumFunctionOnSet(f, S) = 0
<1> DEFINE Good(s) == SumFunctionOnSet(f, s) = 0
           T == {s \in SUBSET S : ~Good(s)}
<1>1. T \in SUBSET (SUBSET S)
  OBVIOUS
<1>2. ASSUME T # {} PROVE FALSE
  <2>1. PICK s \in T : \A t \in T : t \subseteq s => t = s
    <3> HIDE DEF T
    <3> QED
      BY <1>1, <1>2, SmallestSubset
  <2>2. IsFiniteSet(s) /\ s \in SUBSET S /\ ~Good(s)
    BY <2>1, FS_Subset
  <2>3. s # {}
    BY <2>2, SumEmpty
  <2>4. PICK x : x \in s
    BY <2>3
  <2>5. s \ {x} \in SUBSET S /\ Good(s \ {x})
    BY <2>1, <2>2, <2>4
  <2>6. IntOn(f, s)
    BY <2>2 DEF IntOn
  <2>7. SumFunctionOnSet(f, s) = f[x] + SumFunctionOnSet(f, s \ {x})
    BY <2>2, <2>4, <2>6, SumRemove
  <2> QED
    BY <2>2, <2>4, <2>5, <2>7
<1>3. S \in SUBSET S /\ S \notin T
  BY <1>2
<1> QED
  BY <1>3

\* b is a bijection of S and U that takes the terms of f to those of g.
Reindexed(f, S, b, g, U) ==
    /\ \A x, y \in S : b[x] = b[y] => x = y
    /\ \A x \in S : g[b[x]] = f[x] /\ b[x] \in U
    /\ \A y \in U : \E x \in S : y = b[x]

\* The terms may be taken from another set.
LEMMA SumReindex ==
  ASSUME NEW f, NEW g, NEW S, IsFiniteSet(S), IntOn(f, S), NEW b, NEW U,
         Reindexed(f, S, b, g, U)
  PROVE  SumFunctionOnSet(g, U) = SumFunctionOnSet(f, S)
<1> DEFINE Image(s) == {b[x] : x \in s}
           Good(s) == IsFiniteSet(Image(s)) /\ SumFunctionOnSet(g, Image(s)) = SumFunctionOnSet(f, s)
           T == {s \in SUBSET S : ~Good(s)}
<1>0. /\ \A x, y \in S : b[x] = b[y] => x = y
      /\ \A x \in S : g[b[x]] = f[x] /\ b[x] \in U
      /\ \A y \in U : \E x \in S : y = b[x]
  BY DEF Reindexed
<1>1. T \in SUBSET (SUBSET S)
  OBVIOUS
<1>2. ASSUME T # {} PROVE FALSE
  <2>1. PICK s \in T : \A t \in T : t \subseteq s => t = s
    <3> HIDE DEF T
    <3> QED
      BY <1>1, <1>2, SmallestSubset
  <2>2. IsFiniteSet(s) /\ s \in SUBSET S /\ ~Good(s)
    BY <2>1, FS_Subset
  <2>0. Image({}) = {}
    OBVIOUS
  <2>3. s # {}
    <3> HIDE DEF Image
    <3> QED
      BY <2>0, <2>2, SumEmpty, FS_EmptySet
  <2>4. PICK x : x \in s
    BY <2>3
  <2>5. s \ {x} \in SUBSET S /\ Good(s \ {x})
    <3> HIDE DEF Good
    <3> QED
      BY <2>1, <2>2, <2>4
  <2>6. Image(s) = Image(s \ {x}) \cup {b[x]} /\ b[x] \notin Image(s \ {x})
    BY <1>0, <2>2, <2>4
  <2>7. \A y \in Image(s) : g[y] \in Int
    BY <1>0, <2>2 DEF IntOn
  <2>8. IntOn(f, s) /\ g[b[x]] = f[x]
    BY <1>0, <2>2, <2>4 DEF IntOn
  <2> DEFINE A == Image(s \ {x})
             B == Image(s)
  <2>9. IsFiniteSet(A) /\ B = A \cup {b[x]} /\ b[x] \notin A
    BY <2>5, <2>6
  <2>10. IntOn(g, B)
    BY <2>7 DEF IntOn
  <2>11. IsFiniteSet(B) /\ SumFunctionOnSet(g, B) = g[b[x]] + SumFunctionOnSet(g, A)
    <3> HIDE DEF A, B
    <3> QED
      BY <2>9, <2>10, SumInsert, FS_AddElement
  <2>12. SumFunctionOnSet(f, s) = f[x] + SumFunctionOnSet(f, s \ {x})
    BY <2>2, <2>4, <2>8, SumRemove
  <2> QED
    BY <2>2, <2>5, <2>8, <2>11, <2>12
<1>3. S \in SUBSET S /\ S \notin T
  BY <1>2
<1>4. Image(S) = U
  BY <1>0
<1> QED
  BY <1>3, <1>4

\* The sum over two sets that have no element in common.
LEMMA SumUnion ==
  ASSUME NEW f, NEW A, NEW B, IsFiniteSet(A), IsFiniteSet(B), A \cap B = {},
         IntOn(f, A \cup B)
  PROVE  SumFunctionOnSet(f, A \cup B) = SumFunctionOnSet(f, A) + SumFunctionOnSet(f, B)
<1> DEFINE Good(s) == SumFunctionOnSet(f, A \cup s) = SumFunctionOnSet(f, A) + SumFunctionOnSet(f, s)
           T == {s \in SUBSET B : ~Good(s)}
<1>0. IntOn(f, A) /\ SumFunctionOnSet(f, A) \in Int
  BY SumInt DEF IntOn
<1>1. T \in SUBSET (SUBSET B)
  OBVIOUS
<1>2. ASSUME T # {} PROVE FALSE
  <2>1. PICK s \in T : \A t \in T : t \subseteq s => t = s
    <3> HIDE DEF T
    <3> QED
      BY <1>1, <1>2, SmallestSubset
  <2>2. IsFiniteSet(s) /\ s \in SUBSET B /\ ~Good(s)
    BY <2>1, FS_Subset
  <2>0. A \cup {} = A
    OBVIOUS
  <2>3. s # {}
    BY <1>0, <2>0, <2>2, SumEmpty
  <2>4. PICK x : x \in s
    BY <2>3
  <2>5. Good(s \ {x})
    BY <2>1, <2>2, <2>4
  <2> DEFINE u == s \ {x}
  <2>6. /\ A \cup s = (A \cup u) \cup {x} /\ x \notin A \cup u
        /\ IntOn(f, (A \cup u) \cup {x}) /\ IntOn(f, s) /\ IntOn(f, A \cup u)
    BY <2>2, <2>4 DEF IntOn
  <2>7. IsFiniteSet(u) /\ IsFiniteSet(A \cup u)
    BY <2>2, FS_RemoveElement, FS_Union
  <2>8. SumFunctionOnSet(f, A \cup s) = f[x] + SumFunctionOnSet(f, A \cup u)
    BY <2>6, <2>7, SumInsert
  <2>9. /\ SumFunctionOnSet(f, s) = f[x] + SumFunctionOnSet(f, u)
        /\ f[x] \in Int /\ SumFunctionOnSet(f, u) \in Int
    BY <2>2, <2>4, <2>6, SumRemove
  <2> QED
    BY <1>0, <2>2, <2>5, <2>8, <2>9
<1>3. B \in SUBSET B /\ B \notin T
  BY <1>2
<1> QED
  BY <1>3

\* A factor may be taken out of the sum.
LEMMA SumTimes ==
  ASSUME NEW f, NEW g, NEW S, IsFiniteSet(S), IntOn(f, S), NEW c \in Int,
         \A x \in S : g[x] = c * f[x]
  PROVE  SumFunctionOnSet(g, S) = c * SumFunctionOnSet(f, S)
<1> DEFINE Good(s) == SumFunctionOnSet(g, s) = c * SumFunctionOnSet(f, s)
           T == {s \in SUBSET S : ~Good(s)}
<1>1. T \in SUBSET (SUBSET S)
  OBVIOUS
<1>2. ASSUME T # {} PROVE FALSE
  <2>1. PICK s \in T : \A t \in T : t \subseteq s => t = s
    <3> HIDE DEF T
    <3> QED
      BY <1>1, <1>2, SmallestSubset
  <2>2. IsFiniteSet(s) /\ s \in SUBSET S /\ ~Good(s)
    BY <2>1, FS_Subset
  <2>3. s # {}
    BY <2>2, SumEmpty
  <2>4. PICK x : x \in s
    BY <2>3
  <2>5. s \ {x} \in SUBSET S /\ Good(s \ {x})
    BY <2>1, <2>2, <2>4
  <2>6. IntOn(f, s) /\ IntOn(g, s)
    BY <2>2 DEF IntOn
  <2>7. /\ SumFunctionOnSet(f, s) = f[x] + SumFunctionOnSet(f, s \ {x})
        /\ SumFunctionOnSet(g, s) = g[x] + SumFunctionOnSet(g, s \ {x})
        /\ f[x] \in Int /\ SumFunctionOnSet(f, s \ {x}) \in Int
    BY <2>2, <2>4, <2>6, SumRemove
  <2>8. g[x] = c * f[x]
    BY <2>2, <2>4
  <2>9. SumFunctionOnSet(g, s) = c * f[x] + c * SumFunctionOnSet(f, s \ {x})
    BY <2>5, <2>7, <2>8
  <2>10. \A a, b \in Int : c * (a + b) = c * a + c * b
    OBVIOUS
  <2> QED
    BY <2>2, <2>7, <2>9, <2>10
<1>3. S \in SUBSET S /\ S \notin T
  BY <1>2
<1> QED
  BY <1>3

Disjoint(B, K) == \A k, l \in K : k # l => B[k] \cap B[l] = {}

\* The size of a union of sets that have no element in common.
LEMMA SumOfSizes ==
  ASSUME NEW K, IsFiniteSet(K), NEW B, \A k \in K : IsFiniteSet(B[k]), Disjoint(B, K),
         NEW f, \A k \in K : f[k] = Cardinality(B[k])
  PROVE  /\ IsFiniteSet(UNION {B[k] : k \in K})
         /\ Cardinality(UNION {B[k] : k \in K}) = SumFunctionOnSet(f, K)
<1> DEFINE All(s) == UNION {B[k] : k \in s}
           Good(s) == IsFiniteSet(All(s)) /\ Cardinality(All(s)) = SumFunctionOnSet(f, s)
           T == {s \in SUBSET K : ~Good(s)}
<1>1. T \in SUBSET (SUBSET K)
  OBVIOUS
<1>2. ASSUME T # {} PROVE FALSE
  <2>1. PICK s \in T : \A t \in T : t \subseteq s => t = s
    <3> HIDE DEF T
    <3> QED
      BY <1>1, <1>2, SmallestSubset
  <2>2. IsFiniteSet(s) /\ s \in SUBSET K /\ ~Good(s)
    BY <2>1, FS_Subset
  <2>3. s # {}
    <3>1. All({}) = {}
      OBVIOUS
    <3>2. Good({})
      BY <3>1, SumEmpty, FS_EmptySet
    <3> QED
      BY <2>2, <3>2
  <2>4. PICK x : x \in s
    BY <2>3
  <2>5. s \ {x} \in SUBSET K /\ Good(s \ {x})
    <3> HIDE DEF Good
    <3> QED
      BY <2>1, <2>2, <2>4
  <2>6. IntOn(f, s)
    BY <2>2, FS_CardinalityType DEF IntOn
  <2>7. /\ SumFunctionOnSet(f, s) = f[x] + SumFunctionOnSet(f, s \ {x})
        /\ f[x] \in Int /\ SumFunctionOnSet(f, s \ {x}) \in Int
    BY <2>2, <2>4, <2>6, SumRemove
  <2>8. All(s) = B[x] \cup All(s \ {x})
    BY <2>4, Zenon
  <2>9. B[x] \cap All(s \ {x}) = {}
    BY <2>2, <2>4 DEF Disjoint
  <2>10. IsFiniteSet(B[x]) /\ f[x] = Cardinality(B[x])
    BY <2>2, <2>4
  <2>11. IsFiniteSet(All(s \ {x}))
    BY <2>5
  <2> DEFINE U == B[x]
             W == All(s \ {x})
  <2>12. IsFiniteSet(U \cup W) /\ Cardinality(U \cup W) = Cardinality(U) + Cardinality(W)
    <3>1. U \cap W = {} /\ IsFiniteSet(U) /\ IsFiniteSet(W)
      BY <2>9, <2>10, <2>11
    <3> HIDE DEF U, W
    <3>2. /\ IsFiniteSet(U \cup W)
          /\ Cardinality(U \cup W) = Cardinality(U) + Cardinality(W) - Cardinality(U \cap W)
      BY <3>1, FS_Union
    <3>3. Cardinality(U) \in Nat /\ Cardinality(W) \in Nat /\ Cardinality(U \cap W) = 0
      BY <3>1, FS_CardinalityType, FS_EmptySet
    <3> QED
      BY <3>2, <3>3
  <2> HIDE DEF All
  <2> QED
    BY <2>2, <2>5, <2>7, <2>8, <2>10, <2>12
<1>3. K \in SUBSET K /\ K \notin T
  BY <1>2
<1> QED
  BY <1>3

-----------------------------------------------------------------------------
(* Sequences of integers.                                                   *)

\* Sequences with the same elements are equal.
LEMMA SameSequence ==
  ASSUME NEW S, NEW s \in Seq(S), NEW r \in Seq(S), Len(s) = Len(r),
         \A k \in 1 .. Len(s) : s[k] = r[k]
  PROVE  s = r
  OBVIOUS

\* The indices of a sequence are a finite set.
LEMMA SeqTerms ==
  ASSUME NEW s \in Seq(Int)
  PROVE  /\ Len(s) \in Nat /\ DOMAIN s = 1 .. Len(s)
         /\ IsFiniteSet(1 .. Len(s)) /\ IntOn(s, 1 .. Len(s))
         /\ SumFunction(s) = SumFunctionOnSet(s, 1 .. Len(s))
         /\ SumFunction(s) \in Int
<1>1. Len(s) \in Nat /\ DOMAIN s = 1 .. Len(s) /\ IntOn(s, 1 .. Len(s))
  BY DEF IntOn
<1>2. IsFiniteSet(1 .. Len(s))
  BY <1>1, FS_Interval
<1> QED
  BY <1>1, <1>2, SumInt DEF SumFunction

\* The empty sequence.
LEMMA SumEmptySeq == SumFunction(<<>>) = 0
<1>1. <<>> \in Seq(Int) /\ Len(<<>>) = 0 /\ 1 .. 0 = {}
  OBVIOUS
<1> QED
  BY <1>1, SeqTerms, SumEmpty

\* An element put behind the others.
LEMMA SumAppend ==
  ASSUME NEW s \in Seq(Int), NEW e \in Int
  PROVE  SumFunction(Append(s, e)) = SumFunction(s) + e
<1> DEFINE a == Append(s, e)
           n == Len(s)
<1>1. /\ a \in Seq(Int) /\ n \in Nat /\ Len(a) = n + 1 /\ a[n + 1] = e
      /\ \A k \in 1 .. n : a[k] = s[k]
  OBVIOUS
<1> HIDE DEF a, n
<1> DEFINE N == 1 .. n + 1
           M == 1 .. n
<1>2. n + 1 \in N /\ N \ {n + 1} = M
  BY <1>1
<1>3. IsFiniteSet(N) /\ IntOn(a, N) /\ SumFunction(a) = SumFunctionOnSet(a, N)
  BY <1>1, SeqTerms
<1>4. IsFiniteSet(M) /\ SumFunction(s) = SumFunctionOnSet(s, M) /\ SumFunction(s) \in Int
  BY SeqTerms DEF n
<1>5. \A k \in M : a[k] = s[k]
  BY <1>1
<1> HIDE DEF N, M
<1>6. SumFunctionOnSet(a, N) = a[n + 1] + SumFunctionOnSet(a, M)
  BY <1>2, <1>3, SumRemove
<1>7. SumFunctionOnSet(a, M) = SumFunctionOnSet(s, M)
  BY <1>4, <1>5, SumSame
<1> QED
  BY <1>1, <1>3, <1>4, <1>6, <1>7 DEF a

\* The first element removed, the others move up.
LEMMA SumTail ==
  ASSUME NEW s \in Seq(Int), s # <<>>
  PROVE  SumFunction(Tail(s)) = SumFunction(s) - Head(s) /\ Head(s) \in Int
<1> DEFINE t == Tail(s)
           n == Len(s)
           b == [k \in 1 .. n - 1 |-> k + 1]
           all == 1 .. n
           rest == 2 .. n
           moved == 1 .. n - 1
<1>1. /\ t \in Seq(Int) /\ n \in Nat \ {0} /\ Len(t) = n - 1 /\ Head(s) = s[1]
      /\ \A k \in moved : t[k] = s[k + 1]
  OBVIOUS
<1>2. 1 \in all /\ all \ {1} = rest
  BY <1>1
<1>3. SumFunction(s) = SumFunctionOnSet(s, all) /\ IsFiniteSet(all) /\ IntOn(s, all)
  BY SeqTerms
<1>4. /\ \A x, y \in moved : b[x] = b[y] => x = y
      /\ \A x \in moved : s[b[x]] = t[x] /\ b[x] \in rest
      /\ \A y \in rest : \E x \in moved : y = b[x]
  <2>1. \A y \in rest : y - 1 \in moved /\ b[y - 1] = y
    BY <1>1
  <2> QED
    BY <1>1, <2>1
<1>5. SumFunction(t) = SumFunctionOnSet(t, moved) /\ IsFiniteSet(moved) /\ IntOn(t, moved)
  BY <1>1, SeqTerms
<1> HIDE DEF b, t, n, all, rest, moved
<1>6. /\ SumFunctionOnSet(s, all) = s[1] + SumFunctionOnSet(s, rest)
      /\ s[1] \in Int /\ SumFunctionOnSet(s, rest) \in Int
  BY <1>2, <1>3, SumRemove
<1>7. SumFunctionOnSet(s, rest) = SumFunctionOnSet(t, moved)
  <2>1. Reindexed(t, moved, b, s, rest)
    BY <1>4 DEF Reindexed
  <2> QED
    BY <1>5, <2>1, SumReindex
<1> QED
  BY <1>1, <1>3, <1>5, <1>6, <1>7 DEF t

\* One sequence behind another.
LEMMA SumConcat ==
  ASSUME NEW s \in Seq(Int), NEW t \in Seq(Int)
  PROVE  SumFunction(s \o t) = SumFunction(s) + SumFunction(t)
<1> DEFINE q == s \o t
           m == Len(s)
           n == Len(t)
           b == [k \in 1 .. n |-> m + k]
           front == 1 .. m
           back == m + 1 .. m + n
           moved == 1 .. n
           all == 1 .. m + n
<1>1. q \in Seq(Int) /\ m \in Nat /\ n \in Nat /\ Len(q) = m + n
  BY ConcatProperties
<1>2. /\ \A k \in front : q[k] = s[k]
      /\ \A k \in moved : q[m + k] = t[k]
  <2>1. \A k \in 1 .. m + n : q[k] = IF k <= m THEN s[k] ELSE t[k - m]
    BY ConcatProperties
  <2> HIDE DEF q, m, n
  <2>2. ASSUME NEW k \in moved PROVE q[m + k] = t[k]
    <3>1. m + k \in 1 .. m + n /\ ~(m + k <= m) /\ (m + k) - m = k
      BY <1>1
    <3> QED
      BY <2>1, <3>1
  <2>3. ASSUME NEW k \in front PROVE q[k] = s[k]
    <3>1. k \in 1 .. m + n /\ k <= m
      BY <1>1
    <3> QED
      BY <2>1, <3>1
  <2> QED
    BY <2>2, <2>3
<1>3. all = front \cup back /\ front \cap back = {}
  BY <1>1
<1>4. /\ SumFunction(q) = SumFunctionOnSet(q, all) /\ IntOn(q, all)
      /\ SumFunction(s) = SumFunctionOnSet(s, front) /\ IsFiniteSet(front)
      /\ SumFunction(t) = SumFunctionOnSet(t, moved) /\ IsFiniteSet(moved) /\ IntOn(t, moved)
  <2> HIDE DEF q
  <2> QED
    BY <1>1, SeqTerms
<1>5. IsFiniteSet(back)
  BY <1>1, FS_Interval
<1>6. /\ \A x, y \in moved : b[x] = b[y] => x = y
      /\ \A x \in moved : q[b[x]] = t[x] /\ b[x] \in back
      /\ \A y \in back : \E x \in moved : y = b[x]
  <2> HIDE DEF q, m, n
  <2>1. \A y \in back : y - m \in moved /\ b[y - m] = y
    BY <1>1
  <2>2. \A x \in moved : b[x] = m + x /\ b[x] \in back /\ x \in Int
    BY <1>1
  <2> HIDE DEF b, moved, back
  <2>3. \A x, y \in moved : b[x] = b[y] => x = y
    BY <1>1, <2>2
  <2>4. \A x \in moved : q[b[x]] = t[x]
    BY <1>2, <2>2
  <2> QED
    BY <2>1, <2>2, <2>3, <2>4
<1> HIDE DEF q, m, n, b, front, back, moved, all
<1>7. SumFunctionOnSet(q, all) = SumFunctionOnSet(q, front) + SumFunctionOnSet(q, back)
  BY <1>3, <1>4, <1>5, SumUnion
<1>8. SumFunctionOnSet(q, front) = SumFunctionOnSet(s, front)
  BY <1>2, <1>4, SumSame
<1>9. SumFunctionOnSet(q, back) = SumFunctionOnSet(t, moved)
  <2>1. IsFiniteSet(moved) /\ IntOn(t, moved)
    BY <1>4
  <2>2. Reindexed(t, moved, b, q, back)
    BY <1>6 DEF Reindexed
  <2> QED
    BY <2>1, <2>2, SumReindex
<1> QED
  BY <1>4, <1>7, <1>8, <1>9 DEF q

\* The weight at each k of the elements of Act[k] with a label in V.
ByLabel(K, Act, w, lab, V) == [k \in K |-> Cardinality({i \in Act[k] : lab[i] \in V}) * w[k]]

\* D[v] is what the elements with the label v weigh, over all k.
SummedByLabel(D, K, Act, w, lab, V) ==
    \A v \in V : D[v] = SumFunctionOnSet(ByLabel(K, Act, w, lab, {v}), K)

\* The sum over a set is split by labels: adding up, label by label, what the elements
\* of Act[k] with that label weigh, over all k, gives the weight of all elements with
\* one of the labels.
LEMMA SumByLabel ==
  ASSUME NEW K, IsFiniteSet(K), NEW Act, \A k \in K : IsFiniteSet(Act[k]),
         NEW w, IntOn(w, K), NEW lab, NEW V, IsFiniteSet(V), NEW D,
         SummedByLabel(D, K, Act, w, lab, V)
  PROVE  /\ IntOn(D, V)
         /\ SumFunctionOnSet(D, V) = SumFunctionOnSet(ByLabel(K, Act, w, lab, V), K)
<1> DEFINE one(k, v) == {i \in Act[k] : lab[i] = v}
           any(k, s) == {i \in Act[k] : lab[i] \in s}
           Terms(v) == [k \in K |-> Cardinality(one(k, v)) * w[k]]
           Part(s) == [k \in K |-> Cardinality(any(k, s)) * w[k]]
           Good(s) == SumFunctionOnSet(D, s) = SumFunctionOnSet(Part(s), K)
           T == {s \in SUBSET V : ~Good(s)}
<1>1. ASSUME NEW k \in K
      PROVE  /\ w[k] \in Int
             /\ \A v : IsFiniteSet(one(k, v)) /\ Cardinality(one(k, v)) \in Nat
             /\ \A s : IsFiniteSet(any(k, s)) /\ Cardinality(any(k, s)) \in Nat
  <2>1. IsFiniteSet(Act[k]) /\ w[k] \in Int
    BY DEF IntOn
  <2>2. \A v : one(k, v) \in SUBSET Act[k]
    OBVIOUS
  <2>3. \A s : any(k, s) \in SUBSET Act[k]
    OBVIOUS
  <2> HIDE DEF one, any
  <2> QED
    BY <2>1, <2>2, <2>3, FS_Subset, FS_CardinalityType
<1>2. ASSUME NEW v PROVE IntOn(Terms(v), K)
  <2> HIDE DEF one
  <2> QED
    BY <1>1 DEF IntOn
<1>3. ASSUME NEW s PROVE IntOn(Part(s), K)
  <2> HIDE DEF any
  <2> QED
    BY <1>1 DEF IntOn
<1>4. \A v \in V : D[v] = SumFunctionOnSet(Terms(v), K)
  <2> SUFFICES ASSUME NEW v \in V PROVE ByLabel(K, Act, w, lab, {v}) = Terms(v)
    BY Zenon DEF SummedByLabel
  <2>1. \A k \in K : any(k, {v}) = one(k, v)
    OBVIOUS
  <2>2. ByLabel(K, Act, w, lab, {v}) = [k \in K |-> Cardinality(any(k, {v})) * w[k]]
    BY Zenon DEF ByLabel
  <2> HIDE DEF any, one
  <2> QED
    BY <2>1, <2>2
<1>5. IntOn(D, V)
  <2>1. \A v : SumFunctionOnSet(Terms(v), K) \in Int
    <3> HIDE DEF Terms
    <3> QED
      BY <1>2, SumInt
  <2> HIDE DEF Terms
  <2> QED
    BY <1>4, <2>1 DEF IntOn
<1>6. T \in SUBSET (SUBSET V)
  OBVIOUS
<1>7. ASSUME T # {} PROVE FALSE
  <2>1. PICK s \in T : \A u \in T : u \subseteq s => u = s
    <3> HIDE DEF T
    <3> QED
      BY <1>6, <1>7, SmallestSubset
  <2>2. IsFiniteSet(s) /\ s \in SUBSET V /\ ~Good(s)
    <3> HIDE DEF Good
    <3> QED
      BY <2>1, FS_Subset
  <2>3. s # {}
    <3>1. \A k \in K : any(k, {}) = {}
      OBVIOUS
    <3>2. Cardinality({}) = 0
      BY FS_EmptySet
    <3>3. ASSUME NEW k \in K PROVE Part({})[k] = 0
      <4>1. Part({})[k] = Cardinality(any(k, {})) * w[k]
        BY Zenon
      <4>2. Cardinality(any(k, {})) = 0 /\ w[k] \in Int
        <5> HIDE DEF any
        <5> QED
          BY <1>1, <3>1, <3>2
      <4>3. \A c \in Int : 0 * c = 0
        OBVIOUS
      <4> HIDE DEF any, Part
      <4> QED
        BY <4>1, <4>2, <4>3
    <3>4. SumFunctionOnSet(Part({}), K) = 0
      <4> HIDE DEF Part
      <4> QED
        BY <3>3, SumZero
    <3>5. Good({})
      <4> HIDE DEF Part
      <4> QED
        BY <3>4, SumEmpty
    <3> HIDE DEF Good
    <3> QED
      BY <2>2, <3>5
  <2>4. PICK x : x \in s
    BY <2>3
  <2> DEFINE r == s \ {x}
  <2>5. r \in SUBSET V /\ Good(r)
    <3> HIDE DEF Good
    <3> QED
      BY <2>1, <2>2, <2>4
  <2>6. IntOn(D, s) /\ x \in V
    BY <1>5, <2>2, <2>4 DEF IntOn
  <2>7. SumFunctionOnSet(D, s) = D[x] + SumFunctionOnSet(D, r)
    BY <2>2, <2>4, <2>6, SumRemove
  <2>8. ASSUME NEW k \in K PROVE Part(s)[k] = Terms(x)[k] + Part(r)[k]
    <3> DEFINE U == one(k, x)
               W == any(k, r)
    <3>1. any(k, s) = U \cup W /\ U \cap W = {}
      BY <2>4
    <3>2. IsFiniteSet(U) /\ IsFiniteSet(W) /\ Cardinality(U) \in Nat /\ Cardinality(W) \in Nat
          /\ w[k] \in Int
      <4> HIDE DEF one, any
      <4> QED
        BY <1>1
    <3>3. Part(s)[k] = Cardinality(any(k, s)) * w[k] /\ Terms(x)[k] = Cardinality(U) * w[k]
          /\ Part(r)[k] = Cardinality(W) * w[k]
      <4> HIDE DEF one, any
      <4> QED
        BY DEF U, W
    <3> HIDE DEF U, W, one, any, Part, Terms
    <3>4. Cardinality(U \cup W) = Cardinality(U) + Cardinality(W) - Cardinality(U \cap W)
      BY <3>2, FS_Union
    <3>5. Cardinality(U \cap W) = 0
      BY <3>1, FS_EmptySet
    <3>6. Cardinality(any(k, s)) = Cardinality(U) + Cardinality(W)
      BY <3>1, <3>2, <3>4, <3>5
    <3>7. \A a, b \in Nat : \A c \in Int : (a + b) * c = a * c + b * c
      OBVIOUS
    <3> QED
      BY <3>2, <3>3, <3>6, <3>7
  <2>9. SumFunctionOnSet(Part(s), K) = SumFunctionOnSet(Terms(x), K) + SumFunctionOnSet(Part(r), K)
    <3>1. IntOn(Terms(x), K) /\ IntOn(Part(r), K)
      BY <1>2, <1>3
    <3> DEFINE f == Terms(x)
               g == Part(r)
               h == Part(s)
    <3>2. IntOn(f, K) /\ IntOn(g, K) /\ \A k \in K : h[k] = f[k] + g[k]
      BY <2>8, <3>1
    <3> HIDE DEF f, g, h
    <3>3. SumFunctionOnSet(h, K) = SumFunctionOnSet(f, K) + SumFunctionOnSet(g, K)
      BY <3>2, SumPlus
    <3> QED
      BY <3>3 DEF f, g, h
  <2>10. D[x] = SumFunctionOnSet(Terms(x), K)
    BY <1>4, <2>6
  <2>11. Good(s)
    <3> HIDE DEF Part, Terms, r
    <3> QED
      BY <2>5, <2>7, <2>9, <2>10
  <2> HIDE DEF Good
  <2> QED
    BY <2>2, <2>11
<1>8. V \in SUBSET V /\ V \notin T
  BY <1>7
<1>9. Good(V)
  <2> HIDE DEF Good
  <2> QED
    BY <1>8
<1>10. Part(V) = ByLabel(K, Act, w, lab, V)
  BY Zenon DEF ByLabel
<1> HIDE DEF Part
<1> QED
  BY <1>5, <1>9, <1>10


\* The sum of a constant.
LEMMA SumConstant ==
  ASSUME NEW V, IsFiniteSet(V), NEW c \in Int, NEW f, \A v \in V : f[v] = c
  PROVE  SumFunctionOnSet(f, V) = c * Cardinality(V)
<1> DEFINE B == [v \in V |-> {v}]
           g == [v \in V |-> 1]
<1>1. UNION {B[v] : v \in V} = V
  OBVIOUS
<1>2. Disjoint(B, V) /\ \A v \in V : IsFiniteSet(B[v]) /\ g[v] = Cardinality(B[v])
  BY FS_Singleton DEF Disjoint
<1>3. Cardinality(UNION {B[v] : v \in V}) = SumFunctionOnSet(g, V)
  <2> HIDE DEF B, g
  <2> QED
    BY <1>2, SumOfSizes
<1>4. IntOn(g, V) /\ \A v \in V : f[v] = c * g[v]
  BY DEF IntOn
<1>5. SumFunctionOnSet(f, V) = c * SumFunctionOnSet(g, V)
  <2> HIDE DEF g
  <2> QED
    BY <1>4, SumTimes
<1> QED
  BY <1>1, <1>3, <1>5

\* Terms that are divided by c and cut to integers lose less than c each.
LEMMA SumCut ==
  ASSUME NEW V, IsFiniteSet(V), NEW c \in Nat \ {0}, NEW D, IntOn(D, V), NEW Q,
         \A v \in V : Q[v] = D[v] \div c
  PROVE  /\ SumFunctionOnSet(D, V) \in Int /\ SumFunctionOnSet(Q, V) \in Int
         /\ c * SumFunctionOnSet(Q, V) <= SumFunctionOnSet(D, V)
         /\ SumFunctionOnSet(D, V) <= c * SumFunctionOnSet(Q, V) + (c - 1) * Cardinality(V)
<1>1. \A d \in Int : /\ d \div c \in Int /\ c * (d \div c) \in Int
                     /\ c * (d \div c) <= d /\ d <= c * (d \div c) + (c - 1)
  <2> SUFFICES ASSUME NEW d \in Int
               PROVE  /\ d \div c \in Int /\ c * (d \div c) \in Int
                      /\ c * (d \div c) <= d /\ d <= c * (d \div c) + (c - 1)
    OBVIOUS
  <2>1. d \div c \in Int /\ d % c \in 0 .. c - 1 /\ d = c * (d \div c) + (d % c)
    OBVIOUS
  <2> DEFINE q == d \div c
             r == d % c
  <2>2. q \in Int /\ r \in Int /\ 0 <= r /\ r <= c - 1 /\ d = c * q + r
    BY <2>1
  <2> HIDE DEF q, r
  <2>3. c * q \in Int
    BY <2>2
  <2>4. c * q <= d /\ d <= c * q + (c - 1)
    BY <2>2, <2>3
  <2> QED
    BY <2>2, <2>3, <2>4 DEF q
<1>2. \A v \in V : D[v] \in Int
  BY DEF IntOn
<1> DEFINE P == [v \in V |-> c * Q[v]]
           R == [v \in V |-> c - 1]
           U == [v \in V |-> P[v] + R[v]]
<1>3. \A v \in V : /\ Q[v] \in Int /\ P[v] \in Int /\ R[v] \in Int /\ U[v] \in Int
                   /\ P[v] <= D[v] /\ D[v] <= U[v]
  <2> SUFFICES ASSUME NEW v \in V
               PROVE  /\ Q[v] \in Int /\ P[v] \in Int /\ R[v] \in Int /\ U[v] \in Int
                      /\ P[v] <= D[v] /\ D[v] <= U[v]
    OBVIOUS
  <2>1. Q[v] \in Int /\ c * Q[v] \in Int /\ c * Q[v] <= D[v] /\ D[v] <= c * Q[v] + (c - 1)
    BY <1>1, <1>2
  <2>2. P[v] = c * Q[v] /\ R[v] = c - 1 /\ U[v] = P[v] + R[v]
    OBVIOUS
  <2> HIDE DEF P, R, U
  <2>3. c - 1 \in Int
    OBVIOUS
  <2> QED
    BY <2>1, <2>2, <2>3
<1>4. IntOn(Q, V) /\ IntOn(P, V) /\ IntOn(R, V) /\ IntOn(U, V)
  BY <1>3 DEF IntOn
<1>5. \A v \in V : P[v] = c * Q[v] /\ R[v] = c - 1 /\ U[v] = P[v] + R[v]
  OBVIOUS
<1> HIDE DEF P, R, U
<1>6. c \in Int /\ c - 1 \in Int
  OBVIOUS
<1>7. SumFunctionOnSet(P, V) = c * SumFunctionOnSet(Q, V)
  BY <1>4, <1>5, <1>6, SumTimes
<1>8. SumFunctionOnSet(R, V) = (c - 1) * Cardinality(V)
  <2> DEFINE e == c - 1
  <2>1. e \in Int /\ \A v \in V : R[v] = e
    BY <1>5, <1>6
  <2> HIDE DEF e
  <2>2. SumFunctionOnSet(R, V) = e * Cardinality(V)
    BY <2>1, SumConstant
  <2> QED
    BY <2>2 DEF e
<1>9. SumFunctionOnSet(U, V) = SumFunctionOnSet(P, V) + SumFunctionOnSet(R, V)
  BY <1>4, <1>5, SumPlus
<1>10. SumFunctionOnSet(P, V) <= SumFunctionOnSet(D, V) /\ SumFunctionOnSet(D, V) <= SumFunctionOnSet(U, V)
  BY <1>3, <1>4, SumMonotonic
<1>11. SumFunctionOnSet(D, V) \in Int /\ SumFunctionOnSet(Q, V) \in Int
  BY <1>4, SumInt
<1> QED
  BY <1>7, <1>8, <1>9, <1>10, <1>11
=============================================================================
