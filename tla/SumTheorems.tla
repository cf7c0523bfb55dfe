------------------------------ MODULE SumTheorems ------------------------------
(***************************************************************************)
(* Sums over finite sets and sequences: what SumFunctionOnSet and           *)
(* SumFunction of the community modules compute.  The induction is the      *)
(* well-foundedness of the finite subsets of a set.                        *)
(***************************************************************************)
EXTENDS Functions, FiniteSetTheorems, WellFoundedInduction, TLAPS

\* The element a sum takes first, and the functions that sum up fun over the subsets
\* of S.
Chosen(s) == CHOOSE x \in s : TRUE
Sums(g, fun, S) ==
    g = [s \in SUBSET S |-> IF s = {} THEN 0 ELSE fun[Chosen(s)] + g[s \ {Chosen(s)}]]

LEMMA ChosenIsIn == ASSUME NEW s, s # {} PROVE Chosen(s) \in s
BY DEF Chosen

\* A family of subsets of a finite set that has a member has a least one.
LEMMA LeastSubset ==
    ASSUME NEW S, IsFiniteSet(S), NEW F \in SUBSET SUBSET S, F # {}
    PROVE  \E s \in F : \A t \in F : t \subseteq s => t = s
<1>1. IsWellFoundedOn(StrictSubsetOrdering(S), SUBSET S)
  BY FS_FiniteSubsetsOfFinite, FS_StrictSubsetOrderingWellFounded
<1>2. PICK s \in F : \A t \in F : ~ <<t, s>> \in StrictSubsetOrdering(S)
  BY <1>1, WFMin
<1> QED
  BY <1>2 DEF StrictSubsetOrdering

\* What holds of a set when it holds of the sets with an element less holds of all.
LEMMA SubsetInduction ==
    ASSUME NEW S, IsFiniteSet(S), NEW P \in SUBSET SUBSET S,
           \A s \in SUBSET S : (\A x \in s : s \ {x} \in P) => s \in P
    PROVE  P = SUBSET S
<1> SUFFICES ASSUME P # SUBSET S PROVE FALSE
  OBVIOUS
<1>1. PICK s \in (SUBSET S) \ P : \A t \in (SUBSET S) \ P : t \subseteq s => t = s
  <2> DEFINE F == (SUBSET S) \ P
  <2>1. F # {} /\ F \in SUBSET SUBSET S
    OBVIOUS
  <2> HIDE DEF F
  <2>2. \E s \in F : \A t \in F : t \subseteq s => t = s
    BY <2>1, LeastSubset
  <2> QED
    BY <2>2 DEF F
<1>2. \A x \in s : s \ {x} \in P
  <2> SUFFICES ASSUME NEW x \in s, s \ {x} \notin P PROVE FALSE
    OBVIOUS
  <2>1. s \ {x} \in (SUBSET S) \ P /\ s \ {x} \subseteq s
    OBVIOUS
  <2> QED
    BY <1>1, <2>1
<1> QED
  BY <1>1, <1>2

\* The same for the natural numbers.
LEMMA NumberInduction ==
    ASSUME NEW P \in SUBSET Nat, 0 \in P, \A n \in P : n + 1 \in P
    PROVE  P = Nat
<1> SUFFICES ASSUME P # Nat PROVE FALSE
  OBVIOUS
<1> DEFINE Missing == Nat \ P
<1>1. Missing \subseteq Nat /\ Missing # {}
  OBVIOUS
<1>2. PICK n \in Missing : \A k \in Missing : ~ <<k, n>> \in OpToRel(<, Nat)
  BY <1>1, NatLessThanWellFounded, WFMin
<1>3. n \in Nat /\ n # 0 /\ n \notin P
  OBVIOUS
<1>4. n - 1 \in Nat /\ n - 1 < n /\ (n - 1) + 1 = n
  BY <1>3
<1>5. n - 1 \notin Missing
  BY <1>2, <1>3, <1>4 DEF OpToRel
<1>6. n - 1 \in P
  BY <1>4, <1>5
<1> QED
  BY <1>3, <1>4, <1>6

LEMMA SumsExist ==
    ASSUME NEW S, IsFiniteSet(S), NEW fun
    PROVE  \E g : Sums(g, fun, S)
<1> DEFINE Small(n) == {s \in SUBSET S : Cardinality(s) <= n}
           Sum(g, s) == IF s = {} THEN 0 ELSE fun[Chosen(s)] + g[s \ {Chosen(s)}]
           Has(n) == \E g : g = [s \in Small(n) |-> Sum(g, s)]
           P == {n \in Nat : Has(n)}
<1>1. \A s \in SUBSET S : IsFiniteSet(s) /\ Cardinality(s) \in Nat /\ Cardinality(s) <= Cardinality(S)
  BY FS_Subset, FS_CardinalityType
<1>2. Small(0) = {{}}
  BY <1>1, FS_EmptySet
<1>3. Has(0)
  <2> DEFINE g == [s \in {{}} |-> 0]
  <2>1. g = [s \in {{}} |-> Sum(g, s)]
    OBVIOUS
  <2> QED
    BY <1>2, <2>1
<1>4. ASSUME NEW n \in Nat, Has(n) PROVE Has(n + 1)
  <2>1. PICK g : g = [s \in Small(n) |-> Sum(g, s)]
    BY <1>4
  <2> DEFINE h == [s \in Small(n + 1) |-> Sum(g, s)]
  <2>2. \A s \in Small(n + 1) : s # {} => s \ {Chosen(s)} \in Small(n) /\ s \ {Chosen(s)} \in Small(n + 1)
    <3> SUFFICES ASSUME NEW s \in Small(n + 1), s # {}
                 PROVE  s \ {Chosen(s)} \in Small(n) /\ s \ {Chosen(s)} \in Small(n + 1)
      OBVIOUS
    <3>1. Chosen(s) \in s /\ IsFiniteSet(s) /\ Cardinality(s) \in Nat /\ Cardinality(s) <= n + 1
      BY <1>1, ChosenIsIn
    <3>2. Cardinality(s \ {Chosen(s)}) = Cardinality(s) - 1
      BY <3>1, FS_RemoveElement
    <3> QED
      BY <3>1, <3>2
  <2>3. \A s \in Small(n) : h[s] = g[s]
    <3>1. Small(n) \subseteq Small(n + 1)
      BY <1>1
    <3> QED
      BY <2>1, <3>1
  <2>4. \A s \in Small(n + 1) : Sum(g, s) = Sum(h, s)
    BY <2>2, <2>3
  <2>5. h = [s \in Small(n + 1) |-> Sum(h, s)]
    BY <2>4
  <2> QED
    BY <2>5
<1> HIDE DEF Has
<1>5. P = Nat
  <2>1. P \in SUBSET Nat /\ 0 \in P /\ \A n \in P : n + 1 \in P
    BY <1>3, <1>4
  <2> HIDE DEF P
  <2> QED
    BY <2>1, NumberInduction
<1> USE DEF Has
<1>6. Has(Cardinality(S))
  BY <1>5, FS_CardinalityType
<1>7. Small(Cardinality(S)) = SUBSET S
  BY <1>1
<1>8. PICK g : g = [s \in Small(Cardinality(S)) |-> Sum(g, s)]
  BY <1>6
<1>9. Sums(g, fun, S)
  BY <1>7, <1>8 DEF Sums
<1> QED
  BY <1>9

\* Two such functions agree where what they sum up does.
Agree(f, g, S) == \A x \in S : f[x] = g[x]

LEMMA SumsAgree ==
    ASSUME NEW S, NEW T, IsFiniteSet(S), T \subseteq S,
           NEW f, NEW g, NEW h, NEW k, Sums(h, f, S), Sums(k, g, T), Agree(f, g, T)
    PROVE  \A s \in SUBSET T : h[s] = k[s]
<1> DEFINE P == {s \in SUBSET T : h[s] = k[s]}
<1>1. ASSUME NEW s \in SUBSET T, \A x \in s : s \ {x} \in P PROVE s \in P
  <2>1. s \in SUBSET S
    OBVIOUS
  <2>2. CASE s = {}
    BY <2>1, <2>2 DEF Sums
  <2>3. CASE s # {}
    <3>1. Chosen(s) \in s /\ Chosen(s) \in T
      BY <2>3, ChosenIsIn
    <3>2. h[s] = f[Chosen(s)] + h[s \ {Chosen(s)}]
      BY <2>1, <2>3 DEF Sums
    <3>3. k[s] = g[Chosen(s)] + k[s \ {Chosen(s)}]
      BY <2>3 DEF Sums
    <3>4. h[s \ {Chosen(s)}] = k[s \ {Chosen(s)}]
      BY <1>1, <3>1
    <3> QED
      BY <3>1, <3>2, <3>3, <3>4 DEF Agree
  <2> QED
    BY <2>2, <2>3
<1>2. IsFiniteSet(T) /\ P \in SUBSET SUBSET T
  BY FS_Subset
<1> HIDE DEF P
<1>3. P = SUBSET T
  BY <1>1, <1>2, SubsetInduction
<1> QED
  BY <1>3 DEF P

\* What the operator of the community modules computes.
LEMMA SumIs ==
    ASSUME NEW S, IsFiniteSet(S), NEW fun
    PROVE  \E g : Sums(g, fun, S) /\ SumFunctionOnSet(fun, S) = g[S]
<1> DEFINE g == CHOOSE g : Sums(g, fun, S)
<1>1. Sums(g, fun, S)
  BY SumsExist
<1>2. SumFunctionOnSet(fun, S) = g[S]
  BY DEF SumFunctionOnSet, FoldFunctionOnSet, MapThenFoldSet, Chosen, Sums
<1> QED
  BY <1>1, <1>2

-----------------------------------------------------------------------------
(* Sums over sets.                                                         *)

\* The sum of nothing is 0.
THEOREM SumOfNone == \A fun : SumFunctionOnSet(fun, {}) = 0
BY SumIs, FS_EmptySet DEF Sums

\* A sum stays within a set that has 0 and that no addition leaves, and so does
\* every step of it.
LEMMA SumsStayIn ==
    ASSUME NEW S, IsFiniteSet(S), NEW f, NEW V, 0 \in V,
           \A x \in S : \A v \in V : f[x] + v \in V,
           NEW g, Sums(g, f, S)
    PROVE  \A s \in SUBSET S : g[s] \in V
<1> DEFINE P == {s \in SUBSET S : g[s] \in V}
<1>1. ASSUME NEW s \in SUBSET S, \A x \in s : s \ {x} \in P PROVE s \in P
  <2>1. CASE s = {}
    BY <2>1 DEF Sums
  <2>2. CASE s # {}
    <3>1. Chosen(s) \in s /\ g[s] = f[Chosen(s)] + g[s \ {Chosen(s)}]
      BY <2>2, ChosenIsIn DEF Sums
    <3> QED
      BY <1>1, <3>1
  <2> QED
    BY <2>1, <2>2
<1>2. P \in SUBSET SUBSET S
  OBVIOUS
<1> HIDE DEF P
<1>3. P = SUBSET S
  BY <1>1, <1>2, SubsetInduction
<1> QED
  BY <1>3 DEF P

LEMMA SumsAreInts ==
    ASSUME NEW S, IsFiniteSet(S), NEW f, \A x \in S : f[x] \in Int, NEW g, Sums(g, f, S)
    PROVE  \A s \in SUBSET S : g[s] \in Int
<1> DEFINE V == Int
<1>1. 0 \in V /\ \A x \in S : \A v \in V : f[x] + v \in V
  OBVIOUS
<1> HIDE DEF V
<1>2. \A s \in SUBSET S : g[s] \in V
  BY <1>1, SumsStayIn
<1> QED
  BY <1>2 DEF V

\* Whichever element is taken out first.
TakesAny(g, fun, S) == \A s \in SUBSET S : \A x \in s : g[s] = fun[x] + g[s \ {x}]

LEMMA SumsTakeAny ==
    ASSUME NEW S, IsFiniteSet(S), NEW f, \A x \in S : f[x] \in Int, NEW g, Sums(g, f, S)
    PROVE  TakesAny(g, f, S)
<1> DEFINE P == {s \in SUBSET S : \A x \in s : g[s] = f[x] + g[s \ {x}]}
<1>1. ASSUME NEW s \in SUBSET S, \A x \in s : s \ {x} \in P PROVE s \in P
  <2> SUFFICES ASSUME NEW x \in s PROVE g[s] = f[x] + g[s \ {x}]
    OBVIOUS
  <2> DEFINE y == Chosen(s)
  <2>1. y \in s /\ g[s] = f[y] + g[s \ {y}]
    BY ChosenIsIn DEF Sums
  <2>2. CASE x = y
    BY <2>1, <2>2
  <2>3. CASE x # y
    <3>1. g[s \ {y}] = f[x] + g[(s \ {y}) \ {x}]
      BY <1>1, <2>1, <2>3
    <3>2. g[s \ {x}] = f[y] + g[(s \ {x}) \ {y}]
      BY <1>1, <2>1, <2>3
    <3>3. (s \ {y}) \ {x} = (s \ {x}) \ {y} /\ (s \ {y}) \ {x} \in SUBSET S
      OBVIOUS
    <3> DEFINE rest == g[(s \ {y}) \ {x}]
    <3>4. f[x] \in Int /\ f[y] \in Int /\ rest \in Int
      BY <2>1, <3>3, SumsAreInts
    <3>5. g[s] = f[y] + (f[x] + rest) /\ g[s \ {x}] = f[y] + rest
      BY <2>1, <3>1, <3>2, <3>3
    <3> HIDE DEF y, rest
    <3> QED
      BY <3>4, <3>5
  <2> QED
    BY <2>2, <2>3
<1>2. P \in SUBSET SUBSET S
  OBVIOUS
<1> HIDE DEF P
<1>3. P = SUBSET S
  BY <1>1, <1>2, SubsetInduction
<1> QED
  BY <1>3 DEF P, TakesAny

\* A sum stays within a set that has 0 and that no addition leaves.
THEOREM SumStaysIn ==
    ASSUME NEW S, IsFiniteSet(S), NEW f, NEW V, 0 \in V,
           \A x \in S : \A v \in V : f[x] + v \in V
    PROVE  SumFunctionOnSet(f, S) \in V
BY SumIs, SumsStayIn

\* A sum of integers is one.
THEOREM SumType ==
    ASSUME NEW S, IsFiniteSet(S), NEW f, \A x \in S : f[x] \in Int
    PROVE  SumFunctionOnSet(f, S) \in Int
BY SumIs, SumsAreInts

\* A sum of natural numbers is one.
THEOREM SumIsNat ==
    ASSUME NEW S, IsFiniteSet(S), NEW f, \A x \in S : f[x] \in Nat
    PROVE  SumFunctionOnSet(f, S) \in Nat
<1>1. \A x \in S : \A v \in Nat : f[x] + v \in Nat
  OBVIOUS
<1> QED
  BY <1>1, SumStaysIn

\* A sum of zeros is 0.
THEOREM SumOfZeros ==
    ASSUME NEW S, IsFiniteSet(S), NEW f, \A x \in S : f[x] = 0
    PROVE  SumFunctionOnSet(f, S) = 0
<1>1. \A x \in S : \A v \in {0} : f[x] + v \in {0}
  OBVIOUS
<1>2. SumFunctionOnSet(f, S) \in {0}
  BY <1>1, SumStaysIn
<1> QED
  BY <1>2

\* Functions that agree on a set have the same sum over it.
THEOREM SumSame ==
    ASSUME NEW S, IsFiniteSet(S), NEW f, NEW g, \A x \in S : f[x] = g[x]
    PROVE  SumFunctionOnSet(f, S) = SumFunctionOnSet(g, S)
<1>1. PICK h : Sums(h, f, S) /\ SumFunctionOnSet(f, S) = h[S]
  BY SumIs
<1>2. PICK k : Sums(k, g, S) /\ SumFunctionOnSet(g, S) = k[S]
  BY SumIs
<1>3. \A s \in SUBSET S : h[s] = k[s]
  BY <1>1, <1>2, SumsAgree DEF Agree
<1> QED
  BY <1>1, <1>2, <1>3

\* An element of the set can be taken out of the sum.
THEOREM SumTake ==
    ASSUME NEW S, IsFiniteSet(S), NEW f, \A x \in S : f[x] \in Int, NEW e \in S
    PROVE  SumFunctionOnSet(f, S) = f[e] + SumFunctionOnSet(f, S \ {e})
<1>1. IsFiniteSet(S \ {e}) /\ S \ {e} \subseteq S
  BY FS_RemoveElement
<1>2. PICK h : Sums(h, f, S) /\ SumFunctionOnSet(f, S) = h[S]
  BY SumIs
<1>3. PICK k : Sums(k, f, S \ {e}) /\ SumFunctionOnSet(f, S \ {e}) = k[S \ {e}]
  BY <1>1, SumIs
<1>4. TakesAny(h, f, S)
  BY <1>2, SumsTakeAny
<1>5. \A s \in SUBSET (S \ {e}) : h[s] = k[s]
  <2> DEFINE T == S \ {e}
  <2>1. T \subseteq S /\ Agree(f, f, T)
    BY DEF Agree
  <2>2. Sums(h, f, S) /\ Sums(k, f, T)
    BY <1>2, <1>3
  <2> HIDE DEF T
  <2>3. \A s \in SUBSET T : h[s] = k[s]
    BY <2>1, <2>2, SumsAgree
  <2> QED
    BY <2>3 DEF T
<1> QED
  BY <1>2, <1>3, <1>4, <1>5 DEF TakesAny

\* All that differs is at e.
ChangedAt(f, g, S, e) ==
    (\A x \in S : f[x] \in Int /\ g[x] \in Int) /\ (\A x \in S \ {e} : g[x] = f[x])

\* The sum when one of the numbers has changed.
THEOREM SumChange ==
    ASSUME NEW S, IsFiniteSet(S), NEW f, NEW g, NEW e \in S, ChangedAt(f, g, S, e)
    PROVE  /\ SumFunctionOnSet(g, S) = SumFunctionOnSet(f, S) - f[e] + g[e]
           /\ SumFunctionOnSet(f, S) \in Int
<1> USE DEF ChangedAt
<1> DEFINE R == S \ {e}
<1>1. IsFiniteSet(R)
  BY FS_RemoveElement
<1>2. SumFunctionOnSet(f, S) = f[e] + SumFunctionOnSet(f, R)
  BY SumTake
<1>3. SumFunctionOnSet(g, S) = g[e] + SumFunctionOnSet(g, R)
  BY SumTake
<1>4. \A x \in R : f[x] = g[x] /\ f[x] \in Int
  OBVIOUS
<1> HIDE DEF R
<1>5. SumFunctionOnSet(f, R) = SumFunctionOnSet(g, R) /\ SumFunctionOnSet(f, R) \in Int
  BY <1>1, <1>4, SumSame, SumType
<1> QED
  BY <1>2, <1>3, <1>5

\* The sum over the first n members of a sequence, or of any function of the numbers.
SumTo(f, n) == SumFunctionOnSet(f, 1 .. n)

LEMMA SumToNone == \A f : SumTo(f, 0) = 0
BY SumOfNone DEF SumTo

\* The sum over one more.
THEOREM SumToStep ==
    ASSUME NEW n \in Nat, NEW f, \A k \in 1 .. n + 1 : f[k] \in Int
    PROVE  SumTo(f, n + 1) = SumTo(f, n) + f[n + 1] /\ SumTo(f, n) \in Int
<1>1. IsFiniteSet(1 .. n) /\ IsFiniteSet(1 .. n + 1)
  BY FS_Interval
<1>2. n + 1 \in 1 .. n + 1 /\ (1 .. n + 1) \ {n + 1} = 1 .. n
  OBVIOUS
<1>3. SumTo(f, n + 1) = f[n + 1] + SumFunctionOnSet(f, (1 .. n + 1) \ {n + 1})
  BY <1>1, <1>2, SumTake DEF SumTo
<1>4. SumTo(f, n) \in Int /\ f[n + 1] \in Int
  BY <1>1, <1>2, SumType DEF SumTo
<1>5. SumTo(f, n + 1) = f[n + 1] + SumTo(f, n)
  BY <1>2, <1>3 DEF SumTo
<1> QED
  BY <1>4, <1>5

\* The sum of a sequence of numbers that got one more.
THEOREM SumAppend ==
    ASSUME NEW n \in Nat, NEW f, NEW g, DOMAIN f = 1 .. n, DOMAIN g = 1 .. n + 1,
           \A k \in 1 .. n : g[k] = f[k], \A k \in 1 .. n + 1 : g[k] \in Int
    PROVE  SumFunction(g) = SumFunction(f) + g[n + 1] /\ SumFunction(f) \in Int
<1>1. SumTo(f, n) = SumTo(g, n)
  <2>1. IsFiniteSet(1 .. n)
    BY FS_Interval
  <2> QED
    BY <2>1, SumSame DEF SumTo
<1> QED
  BY <1>1, SumToStep DEF SumFunction, SumTo

\* The sum over a set that got one more element.
THEOREM SumJoin ==
    ASSUME NEW S, IsFiniteSet(S), NEW e, e \notin S, NEW f, NEW g,
           DOMAIN f = S, DOMAIN g = S \cup {e},
           \A x \in S : g[x] = f[x] /\ f[x] \in Int, g[e] \in Int
    PROVE  SumFunction(g) = SumFunction(f) + g[e] /\ SumFunction(f) \in Int
<1> DEFINE T == S \cup {e}
<1>1. IsFiniteSet(T) /\ e \in T /\ T \ {e} = S
  BY FS_AddElement
<1>2. \A x \in T : g[x] \in Int
  OBVIOUS
<1> HIDE DEF T
<1>3. SumFunctionOnSet(g, T) = g[e] + SumFunctionOnSet(g, S)
  BY <1>1, <1>2, SumTake
<1>4. SumFunctionOnSet(g, S) = SumFunctionOnSet(f, S)
  BY SumSame
<1>5. SumFunctionOnSet(f, S) \in Int
  BY SumType
<1> QED
  BY <1>3, <1>4, <1>5 DEF SumFunction, T

\* Numbers that are zero may be left out of a sum.
THEOREM SumExtends ==
    ASSUME NEW U, IsFiniteSet(U), NEW S \in SUBSET U, NEW f, \A x \in S : f[x] \in Int,
           \A x \in U \ S : f[x] = 0
    PROVE  SumFunctionOnSet(f, U) = SumFunctionOnSet(f, S)
<1> DEFINE R == U \ S
           P == {r \in SUBSET R : SumFunctionOnSet(f, S \cup r) = SumFunctionOnSet(f, S)}
<1>1. IsFiniteSet(R) /\ IsFiniteSet(S)
  BY FS_Subset
<1>2. P = SUBSET R
  <2>1. ASSUME NEW r \in SUBSET R, \A x \in r : r \ {x} \in P
        PROVE  r \in P
    <3>1. CASE r = {}
      BY <3>1
    <3>2. CASE r # {}
      <4>1. PICK x \in r : TRUE
        BY <3>2
      <4> DEFINE V == S \cup r
                 W == S \cup (r \ {x})
      <4>2. IsFiniteSet(V) /\ x \in V /\ V \ {x} = W /\ \A y \in V : f[y] \in Int
        <5>1. V \in SUBSET U
          OBVIOUS
        <5> QED
          BY <4>1, <5>1, FS_Subset
      <4>3. SumFunctionOnSet(f, V) = f[x] + SumFunctionOnSet(f, V \ {x})
        <5> HIDE DEF V
        <5> QED
          BY <4>2, SumTake
      <4>4. SumFunctionOnSet(f, W) = SumFunctionOnSet(f, S) /\ f[x] = 0
        BY <2>1, <4>1
      <4>5. SumFunctionOnSet(f, S) \in Int
        BY <1>1, SumType
      <4>6. SumFunctionOnSet(f, V) = SumFunctionOnSet(f, S)
        <5> HIDE DEF V, W
        <5>1. SumFunctionOnSet(f, V) = 0 + SumFunctionOnSet(f, S)
          BY <4>2, <4>3, <4>4
        <5> QED
          BY <4>5, <5>1
      <4> QED
        BY <4>6
    <3> QED
      BY <3>1, <3>2
  <2> HIDE DEF P, R
  <2>2. P \in SUBSET SUBSET R
    BY DEF P
  <2> QED
    BY <1>1, <2>1, <2>2, SubsetInduction
<1>3. R \in P /\ S \cup R = U
  BY <1>2
<1> QED
  BY <1>3

\* A linear bound of every number: the sum's is the sum of the bounds.
Bounded(a, f, b, g, c, h, d, S) ==
    \A x \in S : /\ f[x] \in Int /\ g[x] \in Int /\ h[x] \in Int
                 /\ a * f[x] <= b * g[x] + c * h[x] + d

THEOREM SumBounded ==
    ASSUME NEW S, IsFiniteSet(S), NEW f, NEW g, NEW h, NEW a \in Int, NEW b \in Int, NEW c \in Int,
           NEW d \in Int, Bounded(a, f, b, g, c, h, d, S)
    PROVE  a * SumFunctionOnSet(f, S) <=
             b * SumFunctionOnSet(g, S) + c * SumFunctionOnSet(h, S) + d * Cardinality(S)
<1> DEFINE F(s) == SumFunctionOnSet(f, s)
           G(s) == SumFunctionOnSet(g, s)
           H(s) == SumFunctionOnSet(h, s)
           P == {s \in SUBSET S : a * F(s) <= b * G(s) + c * H(s) + d * Cardinality(s)}
<1>1. \A s \in SUBSET S : /\ IsFiniteSet(s) /\ Cardinality(s) \in Nat
                          /\ F(s) \in Int /\ G(s) \in Int /\ H(s) \in Int
  <2> SUFFICES ASSUME NEW s \in SUBSET S
               PROVE  /\ IsFiniteSet(s) /\ Cardinality(s) \in Nat
                      /\ F(s) \in Int /\ G(s) \in Int /\ H(s) \in Int
    OBVIOUS
  <2>1. IsFiniteSet(s) /\ Cardinality(s) \in Nat
    BY FS_Subset, FS_CardinalityType
  <2>2. \A x \in s : f[x] \in Int /\ g[x] \in Int /\ h[x] \in Int
    BY DEF Bounded
  <2> QED
    BY <2>1, <2>2, SumType
<1>2. ASSUME NEW s \in SUBSET S, \A x \in s : s \ {x} \in P
      PROVE  s \in P
  <2>1. CASE s = {}
    <3>1. F(s) = 0 /\ G(s) = 0 /\ H(s) = 0 /\ Cardinality(s) = 0
      BY <2>1, SumOfNone, FS_EmptySet
    <3> HIDE DEF F, G, H
    <3>2. a * F(s) <= b * G(s) + c * H(s) + d * Cardinality(s)
      BY <3>1
    <3> QED
      BY <3>2
  <2>2. CASE s # {}
    <3>1. PICK x \in s : TRUE
      BY <2>2
    <3> DEFINE r == s \ {x}
    <3>2. r \in P /\ r \in SUBSET S
      BY <1>2, <3>1
    <3>3. Cardinality(s) = Cardinality(r) + 1
      BY <1>1, <3>1, FS_RemoveElement
    <3>4. F(s) = f[x] + F(r) /\ G(s) = g[x] + G(r) /\ H(s) = h[x] + H(r)
      <4>1. \A y \in s : f[y] \in Int /\ g[y] \in Int /\ h[y] \in Int
        BY DEF Bounded
      <4> QED
        BY <1>1, <4>1, <3>1, SumTake
    <3>5. f[x] \in Int /\ g[x] \in Int /\ h[x] \in Int /\ a * f[x] <= b * g[x] + c * h[x] + d
      BY <3>1 DEF Bounded
    <3>6. F(r) \in Int /\ G(r) \in Int /\ H(r) \in Int /\ Cardinality(r) \in Nat
      BY <1>1, <3>2
    <3> HIDE DEF r, F, G, H
    <3>7. a * F(r) <= b * G(r) + c * H(r) + d * Cardinality(r)
      BY <3>2
    <3>8. /\ a * (f[x] + F(r)) = a * f[x] + a * F(r)
          /\ b * (g[x] + G(r)) = b * g[x] + b * G(r)
          /\ c * (h[x] + H(r)) = c * h[x] + c * H(r)
          /\ d * (Cardinality(r) + 1) = d * Cardinality(r) + d
      BY <3>5, <3>6
    <3>9. /\ a * f[x] \in Int /\ a * F(r) \in Int /\ b * g[x] \in Int /\ b * G(r) \in Int
          /\ c * h[x] \in Int /\ c * H(r) \in Int /\ d * Cardinality(r) \in Int
      BY <3>5, <3>6
    <3>10. a * F(s) <= b * G(s) + c * H(s) + d * Cardinality(s)
      BY <3>3, <3>4, <3>5, <3>7, <3>8, <3>9
    <3> QED
      BY <3>10
  <2> QED
    BY <2>1, <2>2
<1>3. P = SUBSET S
  <2>1. P \in SUBSET SUBSET S
    OBVIOUS
  <2> HIDE DEF P
  <2> QED
    BY <1>2, <2>1, SubsetInduction
<1>4. S \in P
  BY <1>3
<1> QED
  BY <1>4
=============================================================================
