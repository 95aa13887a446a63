---------------------------- MODULE DataLemmas ----------------------------
(***************************************************************************)
(* Induction over numbers and finite sets, in a form without operator      *)
(* parameters, and with it what sums over a finite set add up to and what  *)
(* a search by halves finds.  Every other proof that needs one of them     *)
(* cites it from here.                                                     *)
(***************************************************************************)
EXTENDS Integers, Functions, FiniteSets, FiniteSetTheorems, WellFoundedInduction, TLAPS

-----------------------------------------------------------------------------
(* Induction. *)

\* Every nonempty set of numbers has a least one.
LEMMA LeastNumber ==
  ASSUME NEW T, T \subseteq Nat, T # {}
  PROVE  \E x \in T : \A y \in T : x <= y
<1>. DEFINE R == OpToRel(<, Nat)
<1>1. IsWellFoundedOn(R, Nat)
  BY NatLessThanWellFounded
<1>. HIDE DEF R
<1>2. PICK x \in T : \A y \in T : ~(<<y, x>> \in R)
  BY <1>1, WFMin
<1>3. ASSUME NEW y \in T, y < x
      PROVE  FALSE
  <2>1. <<y, x>> \in Nat \X Nat
    OBVIOUS
  <2>2. <<y, x>> \in R
    BY <2>1, <1>3 DEF OpToRel, R
  <2>. QED
    BY <1>2, <2>2
<1>4. \A y \in T : x \in Nat /\ y \in Nat
  OBVIOUS
<1>. QED
  BY <1>3, <1>4

\* What holds of 0 and is handed on by every number holds of all.
LEMMA NumberInduction ==
  ASSUME NEW T, 0 \in T, \A n \in Nat : n \in T => n + 1 \in T
  PROVE  Nat \subseteq T
<1>. SUFFICES ASSUME Nat \ T # {}
              PROVE  FALSE
  OBVIOUS
<1>1. PICK n \in Nat \ T : \A m \in Nat \ T : n <= m
  BY LeastNumber
<1>2. n # 0
  OBVIOUS
<1>3. n - 1 \in Nat /\ ~(n <= n - 1) /\ (n - 1) + 1 = n
  BY <1>2
<1>4. n - 1 \in T
  BY <1>1, <1>3
<1>. QED
  BY <1>3, <1>4

\* Of the subsets of a finite set that miss a property, one has only
\* subsets that have it.
LEMMA SmallestSubset ==
  ASSUME NEW S, IsFiniteSet(S), NEW C, C \subseteq SUBSET S, C # {}
  PROVE  \E U \in C : \A x \in U : U \ {x} \notin C
<1>. DEFINE N == {Cardinality(U) : U \in C}
<1>1. \A U \in C : IsFiniteSet(U) /\ Cardinality(U) \in Nat
  BY FS_Subset, FS_CardinalityType
<1>2. PICK n \in N : \A m \in N : n <= m
  <2>1. N \subseteq Nat /\ N # {}
    BY <1>1
  <2>. HIDE DEF N
  <2>. QED
    BY <2>1, LeastNumber
<1>3. PICK U \in C : Cardinality(U) = n
  OBVIOUS
<1>4. ASSUME NEW x \in U, U \ {x} \in C
      PROVE  FALSE
  <2>1. Cardinality(U \ {x}) = n - 1 /\ n \in Nat
    BY <1>1, <1>3, FS_RemoveElement
  <2>2. n <= n - 1
    BY <2>1, <1>2, <1>4
  <2>. QED
    BY <2>1, <2>2
<1>. QED
  BY <1>3, <1>4

-----------------------------------------------------------------------------
(* Sums over a finite set, by the library's fold. *)
Pick(s) == CHOOSE x \in s : TRUE

\* The partial sums of f over the subsets in D.
IsSum(g, f, D) ==
  g = [s \in D |-> IF s = {} THEN 0 ELSE f[Pick(s)] + g[s \ {Pick(s)}]]

PartialSums(f, S) == CHOOSE g : IsSum(g, f, SUBSET S)

LEMMA SumIsPartial ==
  ASSUME NEW f, NEW S
  PROVE  SumFunctionOnSet(f, S) = PartialSums(f, S)[S]
BY DEF SumFunctionOnSet, FoldFunctionOnSet, MapThenFoldSet, PartialSums, IsSum, Pick

LEMMA SumExists ==
  ASSUME NEW f, NEW S, IsFiniteSet(S)
  PROVE  \E g : IsSum(g, f, SUBSET S)
<1>. DEFINE Upto(n) == {s \in SUBSET S : Cardinality(s) <= n}
            Sums(n) == \E g : IsSum(g, f, Upto(n))
            T == {n \in Nat : Sums(n)}
<1>1. \A s \in SUBSET S : IsFiniteSet(s) /\ Cardinality(s) \in Nat
  BY FS_Subset, FS_CardinalityType
<1>2. \A s \in SUBSET S : s # {} =>
        Pick(s) \in s /\ s \ {Pick(s)} \in SUBSET S
        /\ Cardinality(s \ {Pick(s)}) = Cardinality(s) - 1
  BY <1>1, FS_RemoveElement DEF Pick
<1>3. 0 \in T
  <2>. DEFINE g == [s \in Upto(0) |-> 0]
  <2>1. \A s \in Upto(0) : s = {}
    BY <1>1, FS_EmptySet
  <2>2. g = [s \in Upto(0) |-> IF s = {} THEN 0 ELSE f[Pick(s)] + g[s \ {Pick(s)}]]
    BY <2>1
  <2>. QED
    BY <2>2 DEF IsSum
<1>4. ASSUME NEW n \in Nat, n \in T
      PROVE  n + 1 \in T
  <2>1. PICK g : IsSum(g, f, Upto(n))
    BY <1>4
  <2>. DEFINE h == [s \in Upto(n + 1) |->
                      IF s = {} THEN 0 ELSE f[Pick(s)] + g[s \ {Pick(s)}]]
  <2>2. \A s \in Upto(n) : s \in Upto(n + 1) /\ h[s] = g[s]
    <3>1. \A s \in Upto(n) : s \in Upto(n + 1)
      BY <1>1
    <3>. QED
      BY <2>1, <3>1 DEF IsSum
  <2>3. \A s \in Upto(n + 1) : s # {} => s \ {Pick(s)} \in Upto(n)
    BY <1>1, <1>2
  <2>4. \A s \in Upto(n + 1) : s # {} => g[s \ {Pick(s)}] = h[s \ {Pick(s)}]
    BY <2>2, <2>3
  <2>5. h = [s \in Upto(n + 1) |->
               IF s = {} THEN 0 ELSE f[Pick(s)] + h[s \ {Pick(s)}]]
    <3>1. \A s \in Upto(n + 1) :
            h[s] = IF s = {} THEN 0 ELSE f[Pick(s)] + h[s \ {Pick(s)}]
      BY <2>4
    <3>. HIDE DEF h, Upto
    <3>2. h = [s \in Upto(n + 1) |-> h[s]]
      BY DEF h
    <3>. QED
      BY <3>1, <3>2
  <2>. HIDE DEF h
  <2>6. IsSum(h, f, Upto(n + 1))
    BY <2>5 DEF IsSum
  <2>7. Sums(n + 1)
    BY <2>6
  <2>. HIDE DEF Sums
  <2>. QED
    BY <2>7
<1>5. Nat \subseteq T
  <2>. HIDE DEF T
  <2>. QED
    BY <1>3, <1>4, NumberInduction
<1>6. Upto(Cardinality(S)) = SUBSET S
  BY <1>1, FS_Subset
<1>. QED
  BY <1>1, <1>5, <1>6

LEMMA PartialSumsExist ==
  ASSUME NEW f, NEW S, IsFiniteSet(S)
  PROVE  IsSum(PartialSums(f, S), f, SUBSET S)
  BY SumExists DEF PartialSums

\* Only the values summed matter, not the set they were taken from.
LEMMA PartialSumsAgree ==
  ASSUME NEW S, IsFiniteSet(S), NEW T, T \subseteq S, NEW f, NEW e,
         \A x \in T : f[x] = e[x]
  PROVE  \A U \in SUBSET T : PartialSums(f, S)[U] = PartialSums(e, T)[U]
<1>1. IsFiniteSet(T)
  BY FS_Subset
<1>7. /\ IsSum(PartialSums(f, S), f, SUBSET S)
      /\ IsSum(PartialSums(e, T), e, SUBSET T)
  BY <1>1, PartialSumsExist
<1>. DEFINE C == {U \in SUBSET T : PartialSums(f, S)[U] # PartialSums(e, T)[U]}
<1>. SUFFICES ASSUME C # {}
              PROVE  FALSE
  OBVIOUS
<1>2. PICK U \in C : \A x \in U : U \ {x} \notin C
  BY <1>1, SmallestSubset
<1>3. PartialSums(f, S)[U] =
        IF U = {} THEN 0 ELSE f[Pick(U)] + PartialSums(f, S)[U \ {Pick(U)}]
  BY <1>7 DEF IsSum
<1>4. PartialSums(e, T)[U] =
        IF U = {} THEN 0 ELSE e[Pick(U)] + PartialSums(e, T)[U \ {Pick(U)}]
  BY <1>7 DEF IsSum
<1>5. U # {} => Pick(U) \in U /\ Pick(U) \in T
  BY DEF Pick
<1>6. U # {} => PartialSums(f, S)[U \ {Pick(U)}] = PartialSums(e, T)[U \ {Pick(U)}]
  BY <1>2, <1>5
<1>. QED
  BY <1>3, <1>4, <1>5, <1>6

\* The sum taken apart at the element the fold picks.
LEMMA SumUnfolds ==
  ASSUME NEW f, NEW S, IsFiniteSet(S)
  PROVE  SumFunctionOnSet(f, S) =
           IF S = {} THEN 0 ELSE f[Pick(S)] + SumFunctionOnSet(f, S \ {Pick(S)})
<1>1. PartialSums(f, S)[S \ {Pick(S)}] = PartialSums(f, S \ {Pick(S)})[S \ {Pick(S)}]
  BY PartialSumsAgree
<1>2. \A V \in SUBSET S : PartialSums(f, S)[V] =
        IF V = {} THEN 0 ELSE f[Pick(V)] + PartialSums(f, S)[V \ {Pick(V)}]
  <2>1. IsSum(PartialSums(f, S), f, SUBSET S)
    BY PartialSumsExist
  <2>. QED
    BY <2>1 DEF IsSum
<1>3. S \in SUBSET S
  OBVIOUS
<1>4. SumFunctionOnSet(f, S) = PartialSums(f, S)[S]
  BY SumIsPartial
<1>5. SumFunctionOnSet(f, S \ {Pick(S)}) = PartialSums(f, S \ {Pick(S)})[S \ {Pick(S)}]
  BY SumIsPartial
<1>. QED
  BY <1>1, <1>2, <1>3, <1>4, <1>5

LEMMA SumOfNone ==
  ASSUME NEW f
  PROVE  SumFunctionOnSet(f, {}) = 0
  BY SumUnfolds, FS_EmptySet

\* A sum is told by what is summed.
LEMMA SumOfEqual ==
  ASSUME NEW S, IsFiniteSet(S), NEW f, NEW e, \A x \in S : f[x] = e[x]
  PROVE  SumFunctionOnSet(f, S) = SumFunctionOnSet(e, S)
  BY PartialSumsAgree, SumIsPartial

LEMMA SumIsInt ==
  ASSUME NEW S, IsFiniteSet(S), NEW f, \A x \in S : f[x] \in Int
  PROVE  SumFunctionOnSet(f, S) \in Int
<1>. DEFINE C == {U \in SUBSET S : SumFunctionOnSet(f, U) \notin Int}
<1>. SUFFICES ASSUME C # {}
              PROVE  FALSE
  OBVIOUS
<1>1. PICK U \in C : \A x \in U : U \ {x} \notin C
  BY SmallestSubset
<1>2. IsFiniteSet(U)
  BY FS_Subset
<1>3. U # {} => /\ f[Pick(U)] \in Int
                /\ SumFunctionOnSet(f, U \ {Pick(U)}) \in Int
  BY <1>1 DEF Pick
<1>4. SumFunctionOnSet(f, U) =
        IF U = {} THEN 0 ELSE f[Pick(U)] + SumFunctionOnSet(f, U \ {Pick(U)})
  BY <1>2, SumUnfolds
<1>. QED
  BY <1>3, <1>4

LEMMA SumIsNat ==
  ASSUME NEW S, IsFiniteSet(S), NEW f, \A x \in S : f[x] \in Nat
  PROVE  SumFunctionOnSet(f, S) \in Nat
<1>. DEFINE C == {U \in SUBSET S : SumFunctionOnSet(f, U) \notin Nat}
<1>. SUFFICES ASSUME C # {}
              PROVE  FALSE
  OBVIOUS
<1>1. PICK U \in C : \A x \in U : U \ {x} \notin C
  BY SmallestSubset
<1>2. IsFiniteSet(U)
  BY FS_Subset
<1>3. U # {} => /\ f[Pick(U)] \in Nat
                /\ SumFunctionOnSet(f, U \ {Pick(U)}) \in Nat
  BY <1>1 DEF Pick
<1>4. SumFunctionOnSet(f, U) =
        IF U = {} THEN 0 ELSE f[Pick(U)] + SumFunctionOnSet(f, U \ {Pick(U)})
  BY <1>2, SumUnfolds
<1>. QED
  BY <1>3, <1>4

\* The order of summation does not matter: any element can be taken out.
LEMMA SumWithout ==
  ASSUME NEW S, IsFiniteSet(S), NEW f, \A x \in S : f[x] \in Int, NEW y \in S
  PROVE  SumFunctionOnSet(f, S) = f[y] + SumFunctionOnSet(f, S \ {y})
<1>. DEFINE C == {U \in SUBSET S : \E x \in U :
                    SumFunctionOnSet(f, U) # f[x] + SumFunctionOnSet(f, U \ {x})}
<1>. SUFFICES ASSUME C # {}
              PROVE  FALSE
  OBVIOUS
<1>1. PICK U \in C : \A x \in U : U \ {x} \notin C
  BY SmallestSubset
<1>2. PICK x \in U : SumFunctionOnSet(f, U) # f[x] + SumFunctionOnSet(f, U \ {x})
  OBVIOUS
<1>. DEFINE p == Pick(U)
            V == U \ {x, p}
<1>3. p \in U
  BY DEF Pick
<1>4. IsFiniteSet(U) /\ IsFiniteSet(V)
  BY FS_Subset
<1>5. SumFunctionOnSet(f, U) = f[p] + SumFunctionOnSet(f, U \ {p})
  BY <1>4, SumUnfolds
<1>6. x # p
  BY <1>2, <1>5
<1>7. SumFunctionOnSet(f, U \ {p}) = f[x] + SumFunctionOnSet(f, V)
  <2>1. x \in U \ {p} /\ (U \ {p}) \ {x} = V
    BY <1>6
  <2>. QED
    BY <1>1, <1>3, <2>1
<1>8. SumFunctionOnSet(f, U \ {x}) = f[p] + SumFunctionOnSet(f, V)
  <2>1. p \in U \ {x} /\ (U \ {x}) \ {p} = V
    BY <1>3, <1>6
  <2>. QED
    BY <1>1, <1>2, <2>1
<1>9. f[x] \in Int /\ f[p] \in Int /\ SumFunctionOnSet(f, V) \in Int
  BY <1>3, <1>4, SumIsInt
<1>. HIDE DEF p, V
<1>. QED
  BY <1>2, <1>5, <1>7, <1>8, <1>9

LEMMA SumWith ==
  ASSUME NEW S, IsFiniteSet(S), NEW y, y \notin S, NEW f,
         \A x \in S \cup {y} : f[x] \in Int
  PROVE  SumFunctionOnSet(f, S \cup {y}) = f[y] + SumFunctionOnSet(f, S)
<1>1. IsFiniteSet(S \cup {y}) /\ (S \cup {y}) \ {y} = S
  BY FS_AddElement
<1>. QED
  BY <1>1, SumWithout

\* Changing one summand changes the sum by as much.
LEMMA SumAfterChange ==
  ASSUME NEW S, IsFiniteSet(S), NEW y \in S, NEW f, NEW e,
         \A x \in S : f[x] \in Int /\ e[x] \in Int,
         \A x \in S \ {y} : f[x] = e[x]
  PROVE  SumFunctionOnSet(e, S) = SumFunctionOnSet(f, S) + (e[y] - f[y])
<1>1. IsFiniteSet(S \ {y})
  BY FS_Subset
<1>2. SumFunctionOnSet(e, S \ {y}) = SumFunctionOnSet(f, S \ {y})
  BY <1>1, SumOfEqual
<1>3. SumFunctionOnSet(f, S \ {y}) \in Int
  BY <1>1, SumIsInt
<1>. QED
  BY <1>2, <1>3, SumWithout

\* Two disjoint sets add up.
LEMMA SumOfBoth ==
  ASSUME NEW S, NEW T, IsFiniteSet(S), IsFiniteSet(T), S \cap T = {}, NEW f,
         \A x \in S \cup T : f[x] \in Int
  PROVE  SumFunctionOnSet(f, S \cup T) = SumFunctionOnSet(f, S) + SumFunctionOnSet(f, T)
<1>. DEFINE C == {U \in SUBSET T : SumFunctionOnSet(f, S \cup U)
                                   # SumFunctionOnSet(f, S) + SumFunctionOnSet(f, U)}
<1>1. SumFunctionOnSet(f, S) \in Int
  BY SumIsInt
<1>. SUFFICES ASSUME C # {}
              PROVE  FALSE
  OBVIOUS
<1>2. PICK U \in C : \A x \in U : U \ {x} \notin C
  BY SmallestSubset
<1>3. U # {}
  BY <1>1, SumOfNone
<1>4. PICK x \in U : TRUE
  BY <1>3
<1>. DEFINE V == U \ {x}
<1>5. IsFiniteSet(U) /\ IsFiniteSet(V) /\ IsFiniteSet(S \cup V)
  BY FS_Subset, FS_Union
<1>6. SumFunctionOnSet(f, S \cup V) = SumFunctionOnSet(f, S) + SumFunctionOnSet(f, V)
  BY <1>2
<1>7. SumFunctionOnSet(f, V) \in Int /\ f[x] \in Int
  BY <1>5, SumIsInt
<1>8. SumFunctionOnSet(f, U) = f[x] + SumFunctionOnSet(f, V)
  BY <1>5, SumWithout
<1>9. SumFunctionOnSet(f, S \cup U) = f[x] + SumFunctionOnSet(f, S \cup V)
  <2>1. S \cup U = (S \cup V) \cup {x} /\ x \notin S \cup V
    OBVIOUS
  <2>2. \A y \in (S \cup V) \cup {x} : f[y] \in Int
    OBVIOUS
  <2>. HIDE DEF V
  <2>. QED
    BY <2>1, <2>2, <1>5, SumWith
<1>. HIDE DEF V
<1>. QED
  BY <1>1, <1>2, <1>6, <1>7, <1>8, <1>9

\* Zeros add nothing.
LEMMA SumOfZeros ==
  ASSUME NEW S, IsFiniteSet(S), NEW f, \A x \in S : f[x] = 0
  PROVE  SumFunctionOnSet(f, S) = 0
<1>. DEFINE C == {U \in SUBSET S : SumFunctionOnSet(f, U) # 0}
<1>. SUFFICES ASSUME C # {}
              PROVE  FALSE
  OBVIOUS
<1>1. PICK U \in C : \A x \in U : U \ {x} \notin C
  BY SmallestSubset
<1>2. IsFiniteSet(U)
  BY FS_Subset
<1>3. U # {} => f[Pick(U)] = 0 /\ SumFunctionOnSet(f, U \ {Pick(U)}) = 0
  BY <1>1 DEF Pick
<1>4. SumFunctionOnSet(f, U) =
        IF U = {} THEN 0 ELSE f[Pick(U)] + SumFunctionOnSet(f, U \ {Pick(U)})
  BY <1>2, SumUnfolds
<1>. QED
  BY <1>3, <1>4

\* Entry by entry, sums add up.
LEMMA SumOfPointwise ==
  ASSUME NEW S, IsFiniteSet(S), NEW f, NEW g, NEW h,
         \A x \in S : f[x] \in Int /\ g[x] \in Int /\ h[x] = f[x] + g[x]
  PROVE  SumFunctionOnSet(h, S) = SumFunctionOnSet(f, S) + SumFunctionOnSet(g, S)
<1>. DEFINE C == {U \in SUBSET S : SumFunctionOnSet(h, U)
                                   # SumFunctionOnSet(f, U) + SumFunctionOnSet(g, U)}
<1>. SUFFICES ASSUME C # {}
              PROVE  FALSE
  OBVIOUS
<1>1. PICK U \in C : \A x \in U : U \ {x} \notin C
  <2>. HIDE DEF C
  <2>1. C \subseteq SUBSET S
    BY DEF C
  <2>. QED
    BY <2>1, SmallestSubset
<1>2. U # {}
  <2>1. SumFunctionOnSet(h, {}) = 0 /\ SumFunctionOnSet(f, {}) = 0 /\ SumFunctionOnSet(g, {}) = 0
    BY SumOfNone
  <2>. QED
    BY <1>1, <2>1
<1>3. PICK x \in U : TRUE
  BY <1>2
<1>. DEFINE V == U \ {x}
<1>4. IsFiniteSet(U) /\ IsFiniteSet(V) /\ V \in SUBSET S
  BY FS_Subset
<1>5. SumFunctionOnSet(h, V) = SumFunctionOnSet(f, V) + SumFunctionOnSet(g, V)
  BY <1>1, <1>3, <1>4
<1>6. SumFunctionOnSet(f, V) \in Int /\ SumFunctionOnSet(g, V) \in Int
  BY <1>4, SumIsInt
<1>7. /\ SumFunctionOnSet(f, U) = f[x] + SumFunctionOnSet(f, V)
      /\ SumFunctionOnSet(g, U) = g[x] + SumFunctionOnSet(g, V)
  BY <1>4, SumWithout
<1>8. SumFunctionOnSet(h, U) = h[x] + SumFunctionOnSet(h, V)
  <2>1. \A y \in U : h[y] \in Int
    OBVIOUS
  <2>. QED
    BY <1>4, <2>1, SumWithout
<1>. HIDE DEF V
<1>. QED
  BY <1>3, <1>5, <1>6, <1>7, <1>8

-----------------------------------------------------------------------------
(* Bisection: the largest number up to n in a set that no number of it     *)
(* leaves below it out of, found by halving the range it is sought in.     *)

Middle(lo, hi) == lo + ((hi - lo) + 1) \div 2

\* One step of the search in the range x[1] .. x[2].
Halved(f, x, L) ==
  IF x[1] >= x[2] THEN x[1]
  ELSE IF Middle(x[1], x[2]) \in L THEN f[<<Middle(x[1], x[2]), x[2]>>]
  ELSE f[<<x[1], Middle(x[1], x[2]) - 1>>]

Bisects(f, D, L) == f = [x \in D |-> Halved(f, x, L)]

LEMMA MiddleBetween ==
  ASSUME NEW lo \in Nat, NEW hi \in Nat, lo < hi
  PROVE  Middle(lo, hi) \in lo + 1 .. hi
BY DEF Middle

LEMMA BisectionExists ==
  ASSUME NEW n \in Nat, NEW L
  PROVE  \E f : Bisects(f, (0 .. n) \X (0 .. n), L)
<1>. DEFINE D == (0 .. n) \X (0 .. n)
            Upto(k) == {x \in D : x[2] - x[1] <= k}
            T == {k \in Nat : \E f : Bisects(f, Upto(k), L)}
<1>1. 0 \in T
  <2>. DEFINE f == [x \in Upto(0) |-> x[1]]
  <2>1. \A x \in Upto(0) : x[1] >= x[2]
    OBVIOUS
  <2>2. Bisects(f, Upto(0), L)
    BY <2>1 DEF Bisects, Halved
  <2>. QED
    BY <2>2
<1>2. ASSUME NEW k \in Nat, k \in T
      PROVE  k + 1 \in T
  <2>1. PICK f : Bisects(f, Upto(k), L)
    BY <1>2
  <2>. DEFINE g == [x \in Upto(k + 1) |-> Halved(f, x, L)]
  <2>2. \A x \in Upto(k) : x \in Upto(k + 1) /\ g[x] = f[x]
    <3>1. \A x \in Upto(k) : x \in Upto(k + 1)
      OBVIOUS
    <3>. QED
      BY <2>1, <3>1 DEF Bisects
  <2>3. ASSUME NEW x \in Upto(k + 1)
        PROVE  Halved(f, x, L) = Halved(g, x, L)
    <3>1. CASE x[1] >= x[2]
      BY <3>1 DEF Halved
    <3>2. CASE x[1] < x[2]
      <4>. DEFINE m == Middle(x[1], x[2])
      <4>1. m \in x[1] + 1 .. x[2] /\ x[1] \in 0 .. n /\ x[2] \in 0 .. n /\ x[2] - x[1] <= k + 1
        BY <3>2, MiddleBetween
      <4>. HIDE DEF m
      <4>2. <<m, x[2]>> \in Upto(k) /\ <<x[1], m - 1>> \in Upto(k)
        BY <4>1
      <4>3. f[<<m, x[2]>>] = g[<<m, x[2]>>] /\ f[<<x[1], m - 1>>] = g[<<x[1], m - 1>>]
        BY <2>2, <4>2
      <4>. QED
        BY <4>3 DEF Halved, m
    <3>3. x[1] \in Int /\ x[2] \in Int
      OBVIOUS
    <3>. QED
      BY <3>1, <3>2, <3>3
  <2>4. Bisects(g, Upto(k + 1), L)
    BY <2>3 DEF Bisects
  <2>. HIDE DEF g, Upto
  <2>5. \E h : Bisects(h, Upto(k + 1), L)
    BY <2>4
  <2>. QED
    BY <2>5
<1>3. n \in T
  <2>1. Nat \subseteq T
    <3>. HIDE DEF T
    <3>. QED
      BY <1>1, <1>2, NumberInduction
  <2>. QED
    BY <2>1
<1>4. Upto(n) = D
  OBVIOUS
<1>. QED
  BY <1>3, <1>4

\* It ends at a number of the set with no larger one in it.
LEMMA BisectionFinds ==
  ASSUME NEW n \in Nat, NEW L, 0 \in L,
         \A j, k \in 0 .. n : j <= k /\ k \in L => j \in L,
         NEW f, Bisects(f, (0 .. n) \X (0 .. n), L)
  PROVE  /\ f[<<0, n>>] \in 0 .. n /\ f[<<0, n>>] \in L
         /\ \A k \in 0 .. n : k > f[<<0, n>>] => k \notin L
<1>. DEFINE D == (0 .. n) \X (0 .. n)
            Sought(x) == x[1] <= x[2] /\ x[1] \in L /\ \A k \in 0 .. n : k > x[2] => k \notin L
            Right(m) == m \in 0 .. n /\ m \in L /\ \A k \in 0 .. n : k > m => k \notin L
            Wrong == {x \in D : Sought(x) /\ ~Right(f[x])}
<1>1. Wrong = {}
  <2>. SUFFICES ASSUME Wrong # {} PROVE FALSE
    OBVIOUS
  <2>. DEFINE Sizes == {x[2] - x[1] : x \in Wrong}
  <2>1. PICK x \in Wrong : \A y \in Wrong : x[2] - x[1] <= y[2] - y[1]
    <3>1. Sizes \subseteq Nat /\ Sizes # {}
      OBVIOUS
    <3>2. PICK s \in Sizes : \A r \in Sizes : s <= r
      <4>. HIDE DEF Sizes
      <4>. QED
        BY <3>1, LeastNumber
    <3>. QED
      BY <3>2
  <2>2. x \in D /\ Sought(x) /\ ~Right(f[x]) /\ x[1] \in 0 .. n /\ x[2] \in 0 .. n
    OBVIOUS
  <2>3. f[x] = Halved(f, x, L)
    BY <2>2 DEF Bisects
  <2>4. CASE x[1] = x[2]
    BY <2>2, <2>3, <2>4 DEF Halved
  <2>5. CASE x[1] < x[2]
    <3>. DEFINE m == Middle(x[1], x[2])
    <3>1. m \in x[1] + 1 .. x[2]
      BY <2>2, <2>5, MiddleBetween
    <3>2. f[x] = IF m \in L THEN f[<<m, x[2]>>] ELSE f[<<x[1], m - 1>>]
      BY <2>2, <2>3, <2>5 DEF Halved
    <3>. HIDE DEF m
    <3>3. CASE m \in L
      <4>1. <<m, x[2]>> \in D /\ Sought(<<m, x[2]>>)
        BY <2>2, <3>1, <3>3
      <4>2. <<m, x[2]>> \in Wrong
        BY <2>2, <3>2, <3>3, <4>1
      <4>. QED
        BY <2>1, <2>2, <3>1, <4>2
    <3>4. CASE m \notin L
      <4>1. \A k \in 0 .. n : k > m - 1 => k \notin L
        BY <2>2, <3>1, <3>4
      <4>2. <<x[1], m - 1>> \in D /\ Sought(<<x[1], m - 1>>)
        BY <2>2, <3>1, <4>1
      <4>3. <<x[1], m - 1>> \in Wrong
        BY <2>2, <3>2, <3>4, <4>2
      <4>. QED
        BY <2>1, <2>2, <3>1, <4>3
    <3>. QED
      BY <3>3, <3>4
  <2>. QED
    BY <2>2, <2>4, <2>5
<1>2. <<0, n>> \in D /\ Sought(<<0, n>>)
  OBVIOUS
<1>. QED
  BY <1>1, <1>2
=============================================================================
