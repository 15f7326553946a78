----------------------------- MODULE SumLemmas -----------------------------
(***************************************************************************)
(* Facts about SumFunctionOnSet(f, S), the sum of f[x] over the finite set *)
(* S, with which the models add up the amounts of deposits, shares and     *)
(* escrow releases.  It folds f by a recursive function that takes an      *)
(* arbitrary element out of S at each step, so each fact is an induction   *)
(* on finite sets.  The induction is done by minimal counterexample, from  *)
(* the well-foundedness of the strict subset ordering: the sets for which  *)
(* a fact fails, were there any, would have a smallest member.             *)
(***************************************************************************)
EXTENDS Integers, Functions, FiniteSetTheorems, TLAPS

\* The element the fold takes out of s, one step of the fold, and the fold of
\* f over the subsets of S.
Taken(s) == CHOOSE x \in s : TRUE
FoldStep(f, g, s) == IF s = {} THEN 0 ELSE f[Taken(s)] + g[s \ {Taken(s)}]
Partial(f, S) == CHOOSE g : g = [s \in SUBSET S |-> FoldStep(f, g, s)]

\* The subsets of S of at most n elements.
UpTo(S, n) == {s \in SUBSET S : Cardinality(s) <= n}

(***************************************************************************)
(* Induction on finite sets, and on numbers.                               *)
(***************************************************************************)
\* A family of subsets of a finite set has a member none of whose proper
\* subsets is in the family.
LEMMA SmallestSet ==
  ASSUME NEW S, IsFiniteSet(S), NEW T, T \subseteq SUBSET S, T # {}
  PROVE  \E s \in T : \A u \in T : u \subseteq s => u = s
<1>1. T \subseteq FiniteSubsetsOf(S)
  BY FS_FiniteSubsetsOfFinite
<1>2. IsWellFoundedOn(StrictSubsetOrdering(S), FiniteSubsetsOf(S))
  BY FS_StrictSubsetOrderingWellFounded
<1>3. PICK s \in T : \A u \in T : ~(<<u, s>> \in StrictSubsetOrdering(S))
  BY <1>1, <1>2, WFMin
<1>4. ASSUME NEW u \in T, u \subseteq s PROVE u = s
  BY <1>3, <1>4 DEF StrictSubsetOrdering
<1> QED BY <1>4

\* A set of natural numbers has a least element.
LEMMA SmallestNumber ==
  ASSUME NEW T, T \subseteq Nat, T # {}
  PROVE  \E n \in T : \A m \in T : ~(m < n)
<1> DEFINE U == {0 .. m : m \in T}
<1>1. U \subseteq FiniteSubsetsOf(Nat)
  <2>1. ASSUME NEW m \in T PROVE IsFiniteSet(0 .. m) /\ 0 .. m \subseteq Nat
    BY FS_Interval
  <2> QED BY <2>1 DEF FiniteSubsetsOf
<1>2. U # {} OBVIOUS
<1>3. IsWellFoundedOn(StrictSubsetOrdering(Nat), FiniteSubsetsOf(Nat))
  BY FS_StrictSubsetOrderingWellFounded
<1>4. \E x \in U : \A y \in U : ~(<<y, x>> \in StrictSubsetOrdering(Nat))
  <2> HIDE DEF U
  <2> QED BY <1>1, <1>2, <1>3, WFMin
<1>5. PICK n \in T : \A m \in T : ~(<<0 .. m, 0 .. n>> \in StrictSubsetOrdering(Nat))
  BY <1>4
<1>6. ASSUME NEW m \in T, m < n PROVE FALSE
  <2>1. /\ 0 .. m \subseteq 0 .. n /\ 0 .. m # 0 .. n
        /\ 0 .. m \in SUBSET Nat /\ 0 .. n \in SUBSET Nat
    <3>1. n \in 0 .. n /\ n \notin 0 .. m BY <1>6
    <3> QED BY <1>6, <3>1
  <2> QED BY <1>5, <2>1 DEF StrictSubsetOrdering
<1> QED BY <1>6

(***************************************************************************)
(* The fold is well defined.                                               *)
(***************************************************************************)
LEMMA TakenIsMember ==
  ASSUME NEW s, s # {}
  PROVE  Taken(s) \in s
BY DEF Taken

\* Taking an element out leaves fewer.
LEMMA TakenLeavesFewer ==
  ASSUME NEW S, IsFiniteSet(S), NEW s \in SUBSET S, s # {}
  PROVE  /\ s \ {Taken(s)} \in SUBSET S
         /\ Cardinality(s) \in Nat
         /\ Cardinality(s \ {Taken(s)}) = Cardinality(s) - 1
<1>1. IsFiniteSet(s) BY FS_Subset
<1> QED BY <1>1, TakenIsMember, FS_RemoveElement, FS_CardinalityType

\* For each n there is a function that satisfies the recursive equation of
\* the fold on the sets of at most n elements.
LEMMA FoldUpTo ==
  ASSUME NEW f, NEW S, IsFiniteSet(S), NEW n \in Nat
  PROVE  \E g : g = [s \in UpTo(S, n) |-> FoldStep(f, g, s)]
<1> DEFINE Q(k) == \E g : g = [s \in UpTo(S, k) |-> FoldStep(f, g, s)]
           T == {k \in Nat : ~Q(k)}
<1>1. Q(0)
  <2> DEFINE g == [s \in UpTo(S, 0) |-> 0]
  <2>1. ASSUME NEW s \in UpTo(S, 0) PROVE FoldStep(f, g, s) = 0
    <3>1. s = {} 
      <4>1. IsFiniteSet(s) BY FS_Subset DEF UpTo
      <4> QED BY <4>1, FS_EmptySet, FS_CardinalityType DEF UpTo
    <3> QED BY <3>1 DEF FoldStep
  <2>2. g = [s \in UpTo(S, 0) |-> FoldStep(f, g, s)]
    BY <2>1
  <2> QED BY <2>2
<1>2. ASSUME NEW k \in Nat, Q(k) PROVE Q(k + 1)
  <2>1. PICK g : g = [s \in UpTo(S, k) |-> FoldStep(f, g, s)]
    BY <1>2
  <2> DEFINE h == [s \in UpTo(S, k + 1) |-> FoldStep(f, g, s)]
  <2>2. ASSUME NEW s \in UpTo(S, k) PROVE h[s] = g[s]
    <3>1. s \in UpTo(S, k + 1)
      <4>1. IsFiniteSet(s) BY FS_Subset DEF UpTo
      <4> QED BY <4>1, FS_CardinalityType DEF UpTo
    <3>2. g[s] = FoldStep(f, g, s) BY <2>1
    <3> QED BY <3>1, <3>2
  <2>3. ASSUME NEW s \in UpTo(S, k + 1) PROVE FoldStep(f, h, s) = FoldStep(f, g, s)
    <3>1. CASE s = {} BY <3>1 DEF FoldStep
    <3>2. CASE s # {}
      <4>1. s \ {Taken(s)} \in UpTo(S, k)
        BY <3>2, TakenLeavesFewer DEF UpTo
      <4>2. h[s \ {Taken(s)}] = g[s \ {Taken(s)}]
        BY <4>1, <2>2
      <4> QED BY <4>2 DEF FoldStep
    <3> QED BY <3>1, <3>2
  <2>4. h = [s \in UpTo(S, k + 1) |-> FoldStep(f, h, s)]
    BY <2>3
  <2> QED BY <2>4
<1>3. T = {}
  <2> SUFFICES ASSUME T # {} PROVE FALSE OBVIOUS
  <2>1. PICK m \in T : \A j \in T : ~(j < m)
    <3>1. T \subseteq Nat OBVIOUS
    <3> HIDE DEF T
    <3> QED BY <3>1, SmallestNumber
  <2>2. m \in Nat /\ ~Q(m) OBVIOUS
  <2>3. m # 0 BY <1>1, <2>2
  <2>4. m - 1 \in Nat /\ m - 1 < m BY <2>2, <2>3
  <2>5. Q(m - 1) 
    <3>1. m - 1 \notin T BY <2>1, <2>4
    <3> QED BY <3>1, <2>4
  <2>6. Q((m - 1) + 1) BY <1>2, <2>4, <2>5
  <2>7. (m - 1) + 1 = m BY <2>2
  <2> HIDE DEF Q
  <2> QED BY <2>2, <2>6, <2>7
<1> QED BY <1>3

\* The fold satisfies its recursive equation on every subset of S.
LEMMA PartialEquation ==
  ASSUME NEW f, NEW S, IsFiniteSet(S), NEW s \in SUBSET S
  PROVE  Partial(f, S)[s] = FoldStep(f, Partial(f, S), s)
<1>1. SUBSET S = UpTo(S, Cardinality(S)) /\ Cardinality(S) \in Nat
  BY FS_Subset, FS_CardinalityType DEF UpTo
<1>2. PICK g : g = [u \in UpTo(S, Cardinality(S)) |-> FoldStep(f, g, u)]
  BY <1>1, FoldUpTo
<1>3. g = [u \in SUBSET S |-> FoldStep(f, g, u)]
  BY <1>1, <1>2
<1> DEFINE p == Partial(f, S)
<1>4. p = [u \in SUBSET S |-> FoldStep(f, p, u)]
  BY <1>3, Zenon DEF Partial
<1> HIDE DEF p
<1>5. p[s] = FoldStep(f, p, s) BY <1>4
<1> QED BY <1>5 DEF p

LEMMA PartialEmpty ==
  ASSUME NEW f, NEW S, IsFiniteSet(S)
  PROVE  Partial(f, S)[{}] = 0
BY PartialEquation DEF FoldStep

LEMMA PartialTaken ==
  ASSUME NEW f, NEW S, IsFiniteSet(S), NEW s \in SUBSET S, s # {}
  PROVE  Partial(f, S)[s] = f[Taken(s)] + Partial(f, S)[s \ {Taken(s)}]
BY PartialEquation DEF FoldStep

\* The library's sum is the fold over the whole set.
LEMMA SumIsPartial ==
  ASSUME NEW f, NEW S
  PROVE  SumFunctionOnSet(f, S) = Partial(f, S)[S]
BY Zenon DEF SumFunctionOnSet, FoldFunctionOnSet, MapThenFoldSet, Partial, FoldStep, Taken

(***************************************************************************)
(* What the sums of integers satisfy.                                      *)
(***************************************************************************)
\* A sum of integers is an integer.
LEMMA PartialType ==
  ASSUME NEW f, NEW S, IsFiniteSet(S), \A x \in S : f[x] \in Int,
         NEW s \in SUBSET S
  PROVE  Partial(f, S)[s] \in Int
<1> DEFINE T == {u \in SUBSET S : Partial(f, S)[u] \notin Int}
<1>1. SUFFICES ASSUME T # {} PROVE FALSE OBVIOUS
<1>2. PICK u \in T : \A v \in T : v \subseteq u => v = u
  <2>1. T \subseteq SUBSET S OBVIOUS
  <2> HIDE DEF T
  <2> QED BY <1>1, <2>1, SmallestSet
<1>3. u # {} BY PartialEmpty
<1>4. Taken(u) \in u /\ Taken(u) \in S BY <1>3, TakenIsMember
<1>5. u \ {Taken(u)} \notin T BY <1>2, <1>4
<1>6. Partial(f, S)[u \ {Taken(u)}] \in Int BY <1>5
<1>7. Partial(f, S)[u] = f[Taken(u)] + Partial(f, S)[u \ {Taken(u)}]
  BY <1>3, PartialTaken
<1>8. Partial(f, S)[u] \in Int BY <1>4, <1>6, <1>7
<1> QED BY <1>8

\* Whichever element the fold takes first, the sum is the same.
LEMMA PartialAny ==
  ASSUME NEW f, NEW S, IsFiniteSet(S), \A x \in S : f[x] \in Int,
         NEW s \in SUBSET S, NEW x \in s
  PROVE  Partial(f, S)[s] = f[x] + Partial(f, S)[s \ {x}]
<1> DEFINE p == Partial(f, S)
           T == {u \in SUBSET S : \E y \in u : p[u] # f[y] + p[u \ {y}]}
<1>0. /\ \A u \in SUBSET S : p[u] \in Int
      /\ \A u \in SUBSET S : u # {} => p[u] = f[Taken(u)] + p[u \ {Taken(u)}]
  BY PartialType, PartialTaken
<1> HIDE DEF p
<1>1. SUFFICES ASSUME T # {} PROVE FALSE BY DEF p
<1>2. PICK u \in T : \A v \in T : v \subseteq u => v = u
  <2>1. T \subseteq SUBSET S OBVIOUS
  <2> HIDE DEF T
  <2> QED BY <1>1, <2>1, SmallestSet
<1>3. PICK y \in u : p[u] # f[y] + p[u \ {y}] OBVIOUS
<1> DEFINE c == Taken(u)
<1>4. c \in u BY TakenIsMember
<1> HIDE DEF c
<1>5. p[u] = f[c] + p[u \ {c}] BY <1>0 DEF c
<1>6. c # y BY <1>3, <1>5
<1>7. u \ {c} \notin T /\ u \ {y} \notin T BY <1>2, <1>4
<1>8. p[u \ {c}] = f[y] + p[(u \ {c}) \ {y}] BY <1>6, <1>7
<1>9. p[u \ {y}] = f[c] + p[(u \ {y}) \ {c}] BY <1>4, <1>6, <1>7
<1>10. (u \ {c}) \ {y} = (u \ {y}) \ {c} OBVIOUS
<1>11. f[c] \in Int /\ f[y] \in Int /\ p[(u \ {y}) \ {c}] \in Int BY <1>0, <1>4
<1>12. p[u] = f[y] + p[u \ {y}]
  <2> DEFINE r == p[(u \ {y}) \ {c}]
  <2>1. p[u] = f[c] + (f[y] + r) BY <1>5, <1>8, <1>10
  <2>2. p[u \ {y}] = f[c] + r BY <1>9
  <2>3. r \in Int BY <1>11
  <2> HIDE DEF r
  <2> QED BY <2>1, <2>2, <2>3, <1>11
<1> QED BY <1>3, <1>12

\* The fold of f over the subsets of S, and that of h over the subsets of R,
\* agree on a set on which f and h do.
LEMMA PartialAgree ==
  ASSUME NEW f, NEW S, IsFiniteSet(S), NEW h, NEW R, IsFiniteSet(R),
         NEW s \in SUBSET S, s \in SUBSET R, \A x \in s : f[x] = h[x]
  PROVE  Partial(f, S)[s] = Partial(h, R)[s]
<1> DEFINE T == {u \in SUBSET s : Partial(f, S)[u] # Partial(h, R)[u]}
<1>1. SUFFICES ASSUME T # {} PROVE FALSE OBVIOUS
<1>2. PICK u \in T : \A v \in T : v \subseteq u => v = u
  <2>1. T \subseteq SUBSET s /\ IsFiniteSet(s) BY FS_Subset
  <2> HIDE DEF T
  <2> QED BY <1>1, <2>1, SmallestSet
<1>3. u # {} BY PartialEmpty
<1>4. Taken(u) \in u BY <1>3, TakenIsMember
<1>5. u \ {Taken(u)} \notin T BY <1>2, <1>4
<1>6. Partial(f, S)[u \ {Taken(u)}] = Partial(h, R)[u \ {Taken(u)}]
  BY <1>5
<1>7. u \in SUBSET S /\ u \in SUBSET R OBVIOUS
<1>8. Partial(f, S)[u] = f[Taken(u)] + Partial(f, S)[u \ {Taken(u)}]
  BY <1>3, <1>7, PartialTaken
<1>9. Partial(h, R)[u] = h[Taken(u)] + Partial(h, R)[u \ {Taken(u)}]
  BY <1>3, <1>7, PartialTaken
<1>10. Partial(f, S)[u] = Partial(h, R)[u] BY <1>4, <1>6, <1>8, <1>9
<1> QED BY <1>10

\* The same facts of the library's sum.
LEMMA SumOfNone ==
  ASSUME NEW f
  PROVE  SumFunctionOnSet(f, {}) = 0
BY SumIsPartial, PartialEmpty, FS_EmptySet

LEMMA SumType ==
  ASSUME NEW f, NEW S, IsFiniteSet(S), \A x \in S : f[x] \in Int
  PROVE  SumFunctionOnSet(f, S) \in Int
BY SumIsPartial, PartialType

\* A sum depends only on the values over the set.
LEMMA SumAgree ==
  ASSUME NEW f, NEW h, NEW S, IsFiniteSet(S), \A x \in S : f[x] = h[x]
  PROVE  SumFunctionOnSet(f, S) = SumFunctionOnSet(h, S)
BY SumIsPartial, PartialAgree

\* Taking one element out of the set takes its value out of the sum.
LEMMA SumWithout ==
  ASSUME NEW f, NEW S, IsFiniteSet(S), \A x \in S : f[x] \in Int, NEW x \in S
  PROVE  SumFunctionOnSet(f, S) = f[x] + SumFunctionOnSet(f, S \ {x})
<1>1. IsFiniteSet(S \ {x}) /\ S \ {x} \in SUBSET S BY FS_Subset
<1>2. Partial(f, S)[S] = f[x] + Partial(f, S)[S \ {x}] BY PartialAny
<1>3. Partial(f, S)[S \ {x}] = Partial(f, S \ {x})[S \ {x}]
  BY <1>1, PartialAgree
<1> QED BY <1>2, <1>3, SumIsPartial

\* Adding an element to the set adds its value to the sum.
LEMMA SumWith ==
  ASSUME NEW f, NEW S, IsFiniteSet(S), NEW x, x \notin S,
         \A y \in S \cup {x} : f[y] \in Int
  PROVE  SumFunctionOnSet(f, S \cup {x}) = f[x] + SumFunctionOnSet(f, S)
<1>1. IsFiniteSet(S \cup {x}) BY FS_AddElement
<1>2. (S \cup {x}) \ {x} = S OBVIOUS
<1> QED BY <1>1, <1>2, SumWithout

\* Changing the value at one element changes the sum by the difference.
LEMMA SumChange ==
  ASSUME NEW f, NEW h, NEW S, IsFiniteSet(S), NEW x \in S,
         \A y \in S : f[y] \in Int /\ h[y] \in Int,
         \A y \in S \ {x} : f[y] = h[y]
  PROVE  SumFunctionOnSet(h, S) = SumFunctionOnSet(f, S) + (h[x] - f[x])
<1> DEFINE rest == SumFunctionOnSet(f, S \ {x})
<1>1. IsFiniteSet(S \ {x}) BY FS_Subset
<1>2. rest = SumFunctionOnSet(h, S \ {x}) BY <1>1, SumAgree
<1>3. rest \in Int BY <1>1, SumType
<1>4. SumFunctionOnSet(f, S) = f[x] + rest BY SumWithout
<1>5. SumFunctionOnSet(h, S) = h[x] + rest BY <1>2, SumWithout
<1>6. f[x] \in Int /\ h[x] \in Int OBVIOUS
<1> HIDE DEF rest
<1> QED BY <1>3, <1>4, <1>5, <1>6

\* A sum of values none of which exceeds another's is no larger.
LEMMA SumMonotone ==
  ASSUME NEW f, NEW h, NEW S, IsFiniteSet(S),
         \A x \in S : f[x] \in Int /\ h[x] \in Int /\ f[x] <= h[x]
  PROVE  SumFunctionOnSet(f, S) <= SumFunctionOnSet(h, S)
<1> DEFINE T == {s \in SUBSET S : ~(SumFunctionOnSet(f, s) <= SumFunctionOnSet(h, s))}
<1>1. SUFFICES ASSUME T # {} PROVE FALSE OBVIOUS
<1>2. PICK s \in T : \A u \in T : u \subseteq s => u = s
  <2>1. T \subseteq SUBSET S OBVIOUS
  <2> HIDE DEF T
  <2> QED BY <1>1, <2>1, SmallestSet
<1>3. IsFiniteSet(s) /\ IsFiniteSet(s \ {Taken(s)}) BY FS_Subset
<1>4. s # {} BY SumOfNone
<1>5. PICK x \in s : TRUE BY <1>4
<1>6. IsFiniteSet(s \ {x}) BY <1>3, FS_Subset
<1>7. SumFunctionOnSet(f, s \ {x}) <= SumFunctionOnSet(h, s \ {x})
  BY <1>2
<1>8. SumFunctionOnSet(f, s) = f[x] + SumFunctionOnSet(f, s \ {x})
  BY <1>3, SumWithout
<1>9. SumFunctionOnSet(h, s) = h[x] + SumFunctionOnSet(h, s \ {x})
  BY <1>3, SumWithout
<1>10. /\ SumFunctionOnSet(f, s \ {x}) \in Int
       /\ SumFunctionOnSet(h, s \ {x}) \in Int
  BY <1>6, SumType
<1>11. f[x] \in Int /\ h[x] \in Int /\ f[x] <= h[x] OBVIOUS
<1>12. SumFunctionOnSet(f, s) <= SumFunctionOnSet(h, s)
  BY <1>7, <1>8, <1>9, <1>10, <1>11
<1> QED BY <1>12

\* A sum of zeros is zero.
LEMMA SumOfZeros ==
  ASSUME NEW f, NEW S, IsFiniteSet(S), \A x \in S : f[x] = 0
  PROVE  SumFunctionOnSet(f, S) = 0
<1> DEFINE T == {s \in SUBSET S : SumFunctionOnSet(f, s) # 0}
<1>1. SUFFICES ASSUME T # {} PROVE FALSE OBVIOUS
<1>2. PICK s \in T : \A u \in T : u \subseteq s => u = s
  <2>1. T \subseteq SUBSET S OBVIOUS
  <2> HIDE DEF T
  <2> QED BY <1>1, <2>1, SmallestSet
<1>3. IsFiniteSet(s) BY FS_Subset
<1>4. s # {} BY SumOfNone
<1>5. PICK x \in s : TRUE BY <1>4
<1>6. SumFunctionOnSet(f, s \ {x}) = 0 BY <1>2
<1>7. SumFunctionOnSet(f, s) = f[x] + SumFunctionOnSet(f, s \ {x})
  BY <1>3, SumWithout
<1>8. SumFunctionOnSet(f, s) = 0 BY <1>6, <1>7
<1> QED BY <1>8

\* No term of a sum of natural numbers exceeds the sum, which is one too.
LEMMA SumOfNaturals ==
  ASSUME NEW f, NEW S, IsFiniteSet(S), \A x \in S : f[x] \in Nat
  PROVE  /\ SumFunctionOnSet(f, S) \in Nat
         /\ \A x \in S : f[x] <= SumFunctionOnSet(f, S)
<1> DEFINE z == [x \in S |-> 0]
<1>1. ASSUME NEW s \in SUBSET S PROVE SumFunctionOnSet(f, s) \in Nat
  <2>1. IsFiniteSet(s) BY FS_Subset
  <2>2. SumFunctionOnSet(z, s) = 0 BY <2>1, SumOfZeros
  <2>3. SumFunctionOnSet(z, s) <= SumFunctionOnSet(f, s) BY <2>1, SumMonotone
  <2>4. SumFunctionOnSet(f, s) \in Int BY <2>1, SumType
  <2> QED BY <2>2, <2>3, <2>4
<1>2. ASSUME NEW x \in S PROVE f[x] <= SumFunctionOnSet(f, S)
  <2>1. SumFunctionOnSet(f, S) = f[x] + SumFunctionOnSet(f, S \ {x})
    BY SumWithout
  <2> QED BY <1>1, <2>1
<1> QED BY <1>1, <1>2

\* The sum of two functions added up is their sums added up.
LEMMA SumPlus ==
  ASSUME NEW f, NEW g, NEW h, NEW S, IsFiniteSet(S),
         \A x \in S : f[x] \in Int /\ g[x] \in Int /\ h[x] = f[x] + g[x]
  PROVE  SumFunctionOnSet(h, S) = SumFunctionOnSet(f, S) + SumFunctionOnSet(g, S)
<1> DEFINE Adds(s) == SumFunctionOnSet(h, s)
                          = SumFunctionOnSet(f, s) + SumFunctionOnSet(g, s)
           T == {s \in SUBSET S : ~Adds(s)}
<1>1. SUFFICES ASSUME T # {} PROVE FALSE OBVIOUS
<1>2. PICK s \in T : \A u \in T : u \subseteq s => u = s
  <2>1. T \subseteq SUBSET S OBVIOUS
  <2> HIDE DEF T
  <2> QED BY <1>1, <2>1, SmallestSet
<1>3. IsFiniteSet(s) BY FS_Subset
<1>4. s # {}
  <2>1. Adds({})
    <3>1. /\ SumFunctionOnSet(f, {}) = 0
          /\ SumFunctionOnSet(g, {}) = 0
          /\ SumFunctionOnSet(h, {}) = 0
      BY SumOfNone
    <3>2. 0 = 0 + 0 OBVIOUS
    <3> QED BY <3>1, <3>2, Zenon
  <2> QED BY <2>1
<1>5. PICK x \in s : TRUE BY <1>4
<1> DEFINE r == s \ {x}
<1>6. IsFiniteSet(r) BY <1>3, FS_Subset
<1>7. Adds(r) BY <1>2
<1>8. /\ SumFunctionOnSet(f, s) = f[x] + SumFunctionOnSet(f, r)
      /\ SumFunctionOnSet(g, s) = g[x] + SumFunctionOnSet(g, r)
      /\ SumFunctionOnSet(h, s) = h[x] + SumFunctionOnSet(h, r)
  BY <1>3, SumWithout
<1>9. SumFunctionOnSet(f, r) \in Int /\ SumFunctionOnSet(g, r) \in Int
  BY <1>6, SumType
<1>10. f[x] \in Int /\ g[x] \in Int /\ h[x] = f[x] + g[x] OBVIOUS
<1>11. Adds(s)
  <2> HIDE DEF r
  <2> QED BY <1>7, <1>8, <1>9, <1>10
<1> QED BY <1>11

\* Elements at which the values are zero can be left out.
LEMMA SumOfSubset ==
  ASSUME NEW f, NEW S, IsFiniteSet(S), NEW R \in SUBSET S,
         \A x \in S : f[x] \in Int, \A x \in S \ R : f[x] = 0
  PROVE  SumFunctionOnSet(f, S) = SumFunctionOnSet(f, R)
<1> DEFINE Same(u) == SumFunctionOnSet(f, R \cup u) = SumFunctionOnSet(f, R)
           T == {u \in SUBSET (S \ R) : ~Same(u)}
<1>0. IsFiniteSet(R) /\ IsFiniteSet(S \ R) BY FS_Subset
<1>1. SUFFICES ASSUME T # {} PROVE FALSE
  <2>1. S \ R \in SUBSET (S \ R) /\ R \cup (S \ R) = S OBVIOUS
  <2>2. T = {} => Same(S \ R) BY <2>1
  <2> QED BY <2>1, <2>2
<1>2. PICK u \in T : \A v \in T : v \subseteq u => v = u
  <2>1. T \subseteq SUBSET (S \ R) OBVIOUS
  <2> HIDE DEF T
  <2> QED BY <1>0, <1>1, <2>1, SmallestSet
<1>3. u # {}
  <2>1. R \cup {} = R OBVIOUS
  <2> QED BY <2>1
<1>4. PICK x \in u : TRUE BY <1>3
<1>5. Same(u \ {x})
  <2>1. u \ {x} \in SUBSET (S \ R) /\ u \ {x} # u OBVIOUS
  <2>2. u \ {x} \notin T
    <3> HIDE DEF T
    <3> QED BY <1>2, <2>1
  <2> QED BY <2>1, <2>2
<1>6. (R \cup (u \ {x})) \cup {x} = R \cup u /\ x \notin R \cup (u \ {x}) OBVIOUS
<1>7. IsFiniteSet(R \cup (u \ {x})) BY FS_Subset
<1>8. SumFunctionOnSet(f, R \cup u) = f[x] + SumFunctionOnSet(f, R \cup (u \ {x}))
  BY <1>6, <1>7, SumWith
<1>9. f[x] = 0 /\ SumFunctionOnSet(f, R) \in Int BY <1>0, SumType
<1>10. Same(u) BY <1>5, <1>8, <1>9
<1> QED BY <1>10

\* The sum of a function over its whole domain, and how it changes when the
\* function changes at one element.
LEMMA SumOfFunction ==
  ASSUME NEW S, IsFiniteSet(S), NEW f \in [S -> Int]
  PROVE  /\ SumFunction(f) = SumFunctionOnSet(f, S)
         /\ SumFunction(f) \in Int
BY SumType DEF SumFunction

LEMMA SumExcept ==
  ASSUME NEW S, IsFiniteSet(S), NEW f \in [S -> Int], NEW x \in S, NEW v \in Int,
         NEW h \in [S -> Int], h[x] = f[x] + v, \A y \in S \ {x} : h[y] = f[y]
  PROVE  SumFunction(h) = SumFunction(f) + v
<1>1. h[x] = f[x] + v /\ f[x] \in Int
  OBVIOUS
<1>2. SumFunctionOnSet(h, S) = SumFunctionOnSet(f, S) + (h[x] - f[x])
  BY <1>1, SumChange
<1>3. SumFunction(h) = SumFunctionOnSet(h, S) /\ SumFunction(f) = SumFunctionOnSet(f, S)
      /\ SumFunctionOnSet(f, S) \in Int
  BY <1>1, SumOfFunction
<1>4. h[x] - f[x] = v BY <1>1
<1> QED BY <1>2, <1>3, <1>4

\* The sum of a function that is zero but at one element is its value there.
LEMMA SumOfOne ==
  ASSUME NEW S, IsFiniteSet(S), NEW x \in S, NEW v \in Int
  PROVE  SumFunction([y \in S |-> IF y = x THEN v ELSE 0]) = v
<1> DEFINE f == [y \in S |-> IF y = x THEN v ELSE 0]
<1>1. f \in [S -> Int] /\ f[x] = v /\ \A y \in S \ {x} : f[y] = 0 OBVIOUS
<1> HIDE DEF f
<1>2. IsFiniteSet(S \ {x}) BY FS_Subset
<1>3. SumFunctionOnSet(f, S \ {x}) = 0 BY <1>1, <1>2, SumOfZeros
<1>4. SumFunctionOnSet(f, S) = f[x] + SumFunctionOnSet(f, S \ {x})
  BY <1>1, SumWithout
<1>5. SumFunction(f) = v BY <1>1, <1>3, <1>4, SumOfFunction
<1> QED BY <1>5 DEF f

\* A part of a sum of natural numbers does not exceed it.
LEMMA SumOfPart ==
  ASSUME NEW f, NEW S, IsFiniteSet(S), \A x \in S : f[x] \in Nat, NEW R \in SUBSET S
  PROVE  SumFunctionOnSet(f, R) <= SumFunctionOnSet(f, S)
<1> DEFINE g == [x \in S |-> IF x \in R THEN f[x] ELSE 0]
<1>1. IsFiniteSet(R) BY FS_Subset
<1>2. \A x \in S : g[x] \in Int /\ f[x] \in Int /\ g[x] <= f[x] OBVIOUS
<1>3. (\A x \in S \ R : g[x] = 0) /\ (\A x \in R : f[x] = g[x]) OBVIOUS
<1> HIDE DEF g
<1>4. SumFunctionOnSet(g, S) <= SumFunctionOnSet(f, S) BY <1>2, SumMonotone
<1>5. SumFunctionOnSet(g, S) = SumFunctionOnSet(g, R) BY <1>2, <1>3, SumOfSubset
<1>6. SumFunctionOnSet(f, R) = SumFunctionOnSet(g, R) BY <1>1, <1>3, SumAgree
<1> QED BY <1>4, <1>5, <1>6

\* A common factor can be taken out of a sum.
LEMMA Distributes ==
  ASSUME NEW a \in Int, NEW b \in Int, NEW c \in Int
  PROVE  a * c + b * c = (a + b) * c
  OBVIOUS

LEMMA SumScaled ==
  ASSUME NEW f, NEW h, NEW S, IsFiniteSet(S), NEW c \in Int,
         \A x \in S : f[x] \in Int /\ h[x] = f[x] * c
  PROVE  SumFunctionOnSet(h, S) = SumFunctionOnSet(f, S) * c
<1> DEFINE Scaled(s) == SumFunctionOnSet(h, s) = SumFunctionOnSet(f, s) * c
           T == {s \in SUBSET S : ~Scaled(s)}
<1>1. SUFFICES ASSUME T # {} PROVE FALSE OBVIOUS
<1>2. PICK s \in T : \A u \in T : u \subseteq s => u = s
  <2>1. T \subseteq SUBSET S OBVIOUS
  <2> HIDE DEF T
  <2> QED BY <1>1, <2>1, SmallestSet
<1>3. IsFiniteSet(s) BY FS_Subset
<1>4. s # {}
  <2>1. Scaled({}) 
    <3>1. SumFunctionOnSet(f, {}) = 0 /\ SumFunctionOnSet(h, {}) = 0 BY SumOfNone
    <3>2. 0 = 0 * c OBVIOUS
    <3> QED BY <3>1, <3>2, Zenon
  <2> QED BY <2>1
<1>5. PICK x \in s : TRUE BY <1>4
<1> DEFINE r == s \ {x}
<1>6. IsFiniteSet(r) BY <1>3, FS_Subset
<1>7. Scaled(r) BY <1>2
<1>8. f[x] \in Int /\ h[x] \in Int /\ h[x] = f[x] * c OBVIOUS
<1>9. /\ SumFunctionOnSet(f, s) = f[x] + SumFunctionOnSet(f, r)
      /\ SumFunctionOnSet(h, s) = h[x] + SumFunctionOnSet(h, r)
  <2>1. \A y \in s : f[y] \in Int /\ h[y] \in Int OBVIOUS
  <2> QED BY <1>3, <2>1, SumWithout
<1>10. SumFunctionOnSet(f, r) \in Int BY <1>6, SumType
<1>11. f[x] * c + SumFunctionOnSet(f, r) * c = (f[x] + SumFunctionOnSet(f, r)) * c
  <2> HIDE DEF r
  <2> QED BY <1>8, <1>10, Distributes
<1>12. Scaled(s)
  <2> HIDE DEF r
  <2> QED BY <1>7, <1>8, <1>9, <1>11, Zenon
<1> QED BY <1>12

\* A sum of terms that are at most m is at most m for each of them.
LEMMA SumBounded ==
  ASSUME NEW f, NEW S, IsFiniteSet(S), NEW m \in Int, \A x \in S : f[x] \in Int /\ f[x] <= m
  PROVE  SumFunctionOnSet(f, S) <= Cardinality(S) * m
<1> DEFINE Bounded(s) == SumFunctionOnSet(f, s) <= Cardinality(s) * m
           T == {s \in SUBSET S : ~Bounded(s)}
<1>1. SUFFICES ASSUME T # {} PROVE FALSE OBVIOUS
<1>2. PICK s \in T : \A u \in T : u \subseteq s => u = s
  <2>1. T \subseteq SUBSET S OBVIOUS
  <2> HIDE DEF T
  <2> QED BY <1>1, <2>1, SmallestSet
<1>3. IsFiniteSet(s) BY FS_Subset
<1>4. s # {}
  <2>1. Bounded({})
    <3>1. SumFunctionOnSet(f, {}) = 0 /\ Cardinality({}) = 0 BY SumOfNone, FS_EmptySet
    <3>2. 0 <= 0 * m OBVIOUS
    <3> QED BY <3>1, <3>2, Zenon
  <2> QED BY <2>1
<1>5. PICK x \in s : TRUE BY <1>4
<1> DEFINE r == s \ {x}
<1>6. IsFiniteSet(r) /\ Cardinality(s) - 1 = Cardinality(r) /\ Cardinality(r) \in Nat
  BY <1>3, FS_RemoveElement, FS_CardinalityType
<1>7. Bounded(r) BY <1>2
<1>8. f[x] \in Int /\ f[x] <= m OBVIOUS
<1>9. SumFunctionOnSet(f, s) = f[x] + SumFunctionOnSet(f, r)
  <2>1. \A y \in s : f[y] \in Int OBVIOUS
  <2> QED BY <1>3, <2>1, SumWithout
<1>10. SumFunctionOnSet(f, r) \in Int BY <1>6, SumType
<1>11. Cardinality(s) = Cardinality(r) + 1
  <2>1. Cardinality(s) \in Nat BY <1>3, FS_CardinalityType
  <2> HIDE DEF r
  <2> QED BY <1>6, <2>1
<1>12. (Cardinality(r) + 1) * m = Cardinality(r) * m + 1 * m
  <2> HIDE DEF r
  <2> QED BY <1>6, Distributes
<1>13. Cardinality(r) * m \in Int /\ 1 * m = m
  <2> HIDE DEF r
  <2> QED BY <1>6
<1>14. Bounded(s)
  <2> HIDE DEF r
  <2> QED BY <1>7, <1>8, <1>9, <1>10, <1>11, <1>12, <1>13
<1> QED BY <1>14

\* The sum over two sets that share no element is their sums added up.
LEMMA SumOfUnion ==
  ASSUME NEW f, NEW R, IsFiniteSet(R), NEW S, IsFiniteSet(S), R \cap S = {},
         \A x \in R \cup S : f[x] \in Int
  PROVE  SumFunctionOnSet(f, R \cup S) = SumFunctionOnSet(f, R) + SumFunctionOnSet(f, S)
<1> DEFINE U == R \cup S
           g == [x \in U |-> IF x \in R THEN f[x] ELSE 0]
           h == [x \in U |-> IF x \in S THEN f[x] ELSE 0]
<1>1. IsFiniteSet(U) BY FS_Union
<1>2. \A x \in U : /\ g[x] \in Int /\ h[x] \in Int
                   /\ f[x] = g[x] + h[x]
  OBVIOUS
<1>3. /\ R \in SUBSET U /\ S \in SUBSET U
      /\ \A x \in U \ R : g[x] = 0
      /\ \A x \in U \ S : h[x] = 0
      /\ \A x \in R : f[x] = g[x]
      /\ \A x \in S : f[x] = h[x]
  OBVIOUS
<1> HIDE DEF g, h, U
<1>4. SumFunctionOnSet(f, U) = SumFunctionOnSet(g, U) + SumFunctionOnSet(h, U)
  BY <1>1, <1>2, SumPlus
<1>5. /\ SumFunctionOnSet(g, U) = SumFunctionOnSet(g, R)
      /\ SumFunctionOnSet(h, U) = SumFunctionOnSet(h, S)
  BY <1>1, <1>2, <1>3, SumOfSubset
<1>6. /\ SumFunctionOnSet(f, R) = SumFunctionOnSet(g, R)
      /\ SumFunctionOnSet(f, S) = SumFunctionOnSet(h, S)
  BY <1>3, SumAgree
<1> QED BY <1>4, <1>5, <1>6 DEF U

\* Some element of a finite set has the largest value.
LEMMA LargestValue ==
  ASSUME NEW f, NEW S, IsFiniteSet(S), S # {}, \A x \in S : f[x] \in Int
  PROVE  \E m \in S : \A x \in S : f[x] <= f[m]
<1> DEFINE Topped(s) == \E m \in s : \A x \in s : f[x] <= f[m]
           T == {s \in SUBSET S : s # {} /\ ~Topped(s)}
<1>1. SUFFICES ASSUME T # {} PROVE FALSE OBVIOUS
<1>2. PICK s \in T : \A u \in T : u \subseteq s => u = s
  <2>1. T \subseteq SUBSET S OBVIOUS
  <2> HIDE DEF T
  <2> QED BY <1>1, <2>1, SmallestSet
<1>3. PICK y \in s : TRUE OBVIOUS
<1>4. s \ {y} # {}
  <2>1. s \ {y} = {} => \A x \in s : x = y OBVIOUS
  <2>2. f[y] <= f[y] OBVIOUS
  <2> QED BY <1>3, <2>1, <2>2
<1>5. PICK m \in s \ {y} : \A x \in s \ {y} : f[x] <= f[m]
  <2>1. s \ {y} \notin T BY <1>2, <1>3
  <2>2. s \ {y} \in SUBSET S OBVIOUS
  <2> QED BY <1>4, <2>1, <2>2
<1>6. f[y] \in Int /\ f[m] \in Int /\ \A x \in s : f[x] \in Int OBVIOUS
<1>7. CASE f[y] <= f[m]
  <2>1. \A x \in s : f[x] <= f[m] BY <1>5, <1>7
  <2> QED BY <2>1
<1>8. CASE f[m] <= f[y]
  <2>1. \A x \in s : f[x] <= f[y] BY <1>5, <1>6, <1>8
  <2> QED BY <1>3, <2>1
<1> QED BY <1>6, <1>7, <1>8

\* A sum does not depend on what the elements are called.
LEMMA SumRenamed ==
  ASSUME NEW f, NEW g, NEW S, IsFiniteSet(S), NEW T, IsFiniteSet(T), NEW h \in [S -> T],
         \A x, y \in S : h[x] = h[y] => x = y, \A y \in T : \E x \in S : y = h[x],
         \A x \in S : f[x] \in Int /\ g[h[x]] = f[x]
  PROVE  SumFunctionOnSet(g, T) = SumFunctionOnSet(f, S)
<1> DEFINE image(s) == {h[x] : x \in s}
           Same(s) == SumFunctionOnSet(g, image(s)) = SumFunctionOnSet(f, s)
           U == {s \in SUBSET S : ~Same(s)}
<1>1. SUFFICES ASSUME U # {} PROVE FALSE
  <2>1. image(S) = T OBVIOUS
  <2>2. U = {} => Same(S) OBVIOUS
  <2> QED BY <2>1, <2>2
<1>2. PICK s \in U : \A u \in U : u \subseteq s => u = s
  <2>1. U \subseteq SUBSET S OBVIOUS
  <2> HIDE DEF U
  <2> QED BY <1>1, <2>1, SmallestSet
<1>3. s # {}
  <2>1. image({}) = {} OBVIOUS
  <2>2. Same({}) BY <2>1, SumOfNone
  <2> QED BY <2>2
<1>4. PICK x \in s : TRUE BY <1>3
<1> DEFINE r == s \ {x}
<1>5. Same(r) BY <1>2
<1>6. IsFiniteSet(s) /\ IsFiniteSet(image(s)) BY FS_Subset
<1>7. image(r) = image(s) \ {h[x]} /\ h[x] \in image(s) BY <1>4
<1>8. (\A y \in s : f[y] \in Int) /\ (\A y \in image(s) : g[y] \in Int) OBVIOUS
<1>9. g[h[x]] = f[x] OBVIOUS
<1>10. SumFunctionOnSet(f, s) = f[x] + SumFunctionOnSet(f, r) BY <1>6, <1>8, SumWithout
<1>11. SumFunctionOnSet(g, image(s)) = g[h[x]] + SumFunctionOnSet(g, image(r))
  <2> DEFINE i == image(s)
             j == image(r)
  <2>1. IsFiniteSet(i) /\ h[x] \in i /\ (\A y \in i : g[y] \in Int) /\ j = i \ {h[x]}
    BY <1>6, <1>7, <1>8
  <2> HIDE DEF i, j
  <2>2. SumFunctionOnSet(g, i) = g[h[x]] + SumFunctionOnSet(g, j) BY <2>1, SumWithout
  <2> QED BY <2>2 DEF i, j
<1>12. Same(s)
  <2> HIDE DEF image, r
  <2> QED BY <1>5, <1>9, <1>10, <1>11
<1> QED BY <1>12


\* Two sums whose terms differ by at most m, after scaling, differ by at most
\* m for each term.
LEMMA SumClose ==
  ASSUME NEW f, NEW h, NEW S, IsFiniteSet(S), NEW a \in Int, NEW b \in Int, NEW m \in Int,
         \A x \in S : f[x] \in Int /\ h[x] \in Int,
         \A x \in S : f[x] * a - h[x] * b <= m /\ h[x] * b - f[x] * a <= m
  PROVE  /\ SumFunctionOnSet(f, S) * a - SumFunctionOnSet(h, S) * b <= Cardinality(S) * m
         /\ SumFunctionOnSet(h, S) * b - SumFunctionOnSet(f, S) * a <= Cardinality(S) * m
<1> DEFINE k == [x \in S |-> f[x] * a]
           l == [x \in S |-> h[x] * (-b)]
           d == [x \in S |-> k[x] + l[x]]
           e == [x \in S |-> d[x] * (-1)]
<1>1. /\ \A x \in S : k[x] = f[x] * a /\ k[x] \in Int
      /\ \A x \in S : l[x] = h[x] * (-b) /\ l[x] \in Int
      /\ \A x \in S : d[x] = k[x] + l[x] /\ d[x] \in Int
      /\ \A x \in S : e[x] = d[x] * (-1) /\ e[x] \in Int
  OBVIOUS
<1>2. \A x \in S : d[x] <= m /\ e[x] <= m
  <2> SUFFICES ASSUME NEW x \in S PROVE d[x] <= m /\ e[x] <= m
    OBVIOUS
  <2>1. h[x] * (-b) = -(h[x] * b) /\ h[x] * b \in Int /\ f[x] * a \in Int
    OBVIOUS
  <2> QED
    BY <1>1, <2>1
<1> HIDE DEF k, l, d, e
<1>3. /\ SumFunctionOnSet(k, S) = SumFunctionOnSet(f, S) * a
      /\ SumFunctionOnSet(l, S) = SumFunctionOnSet(h, S) * (-b)
      /\ SumFunctionOnSet(e, S) = SumFunctionOnSet(d, S) * (-1)
  BY <1>1, SumScaled
<1>4. SumFunctionOnSet(d, S) = SumFunctionOnSet(k, S) + SumFunctionOnSet(l, S)
  BY <1>1, SumPlus
<1>5. SumFunctionOnSet(d, S) <= Cardinality(S) * m /\ SumFunctionOnSet(e, S) <= Cardinality(S) * m
  BY <1>1, <1>2, SumBounded
<1>6. SumFunctionOnSet(f, S) \in Int /\ SumFunctionOnSet(h, S) \in Int
  BY SumType
<1>7. SumFunctionOnSet(h, S) * (-b) = -(SumFunctionOnSet(h, S) * b)
  BY <1>6
<1>8. /\ SumFunctionOnSet(f, S) * a \in Int
      /\ SumFunctionOnSet(h, S) * b \in Int
      /\ Cardinality(S) * m \in Int
  BY <1>6, FS_CardinalityType
<1> QED
  BY <1>3, <1>4, <1>5, <1>7, <1>8

=============================================================================
