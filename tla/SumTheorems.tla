----------------------------- MODULE SumTheorems -----------------------------
(***************************************************************************)
(* What SumFunction of the community modules gives for a function with a    *)
(* finite domain: its value when all summands are 0, its type, and how it   *)
(* changes when one summand does.                                           *)
(*                                                                         *)
(* SumFunction is a recursive function on the subsets of the domain. That   *)
(* it exists, and what it gives, needs induction, on numbers and on finite  *)
(* sets. The rules of the library have an operator for what is shown; those *)
(* below have a set of the numbers, or sets, of which it is true.           *)
(***************************************************************************)
EXTENDS Integers, Functions, FiniteSetTheorems, WellFoundedInduction, TLAPS

(***************************************************************************)
(* Induction on natural numbers.                                            *)
(***************************************************************************)
\* A set with 0 that has the successor of each of its numbers has them all.
LEMMA NaturalRule ==
  ASSUME NEW G, 0 \in G, \A n \in Nat : n \in G => n + 1 \in G
  PROVE  Nat \subseteq G
<1> DEFINE Bad == Nat \ G
<1> DEFINE Less == OpToRel(<, Nat)
<1> SUFFICES ASSUME Bad # {} PROVE FALSE
  OBVIOUS
<1>1. IsWellFoundedOn(Less, Nat)
  BY NatLessThanWellFounded
<1>2. \E m \in Bad : \A n \in Bad : ~ (<<n, m>> \in Less)
  <2>1. Bad \subseteq Nat
    OBVIOUS
  <2> HIDE DEF Bad, Less
  <2> QED BY <1>1, <2>1, WFMin
<1>3. PICK m \in Bad : \A n \in Bad : ~ (<<n, m>> \in Less)
  BY <1>2
<1>4. m # 0 /\ m \in Nat /\ m \notin G
  OBVIOUS
<1> HIDE DEF Less
<1>5. <<m - 1, m>> \in Less
  BY <1>4 DEF OpToRel, Less
<1>6. m - 1 \in G
  BY <1>3, <1>4, <1>5
<1> QED BY <1>3, <1>4, <1>6

(***************************************************************************)
(* Induction on the subsets of a finite set.                                *)
(***************************************************************************)
\* A set that has {}, and each T for which it has T without any one element,
\* has all subsets of a finite set.
LEMMA SubsetRule ==
  ASSUME NEW S, IsFiniteSet(S), NEW G, {} \in G,
         \A T \in SUBSET S :
           T # {} /\ (\A x \in T : T \ {x} \in G) => T \in G
  PROVE  S \in G
<1> DEFINE Bad == (SUBSET S) \ G
<1> SUFFICES ASSUME Bad # {} PROVE FALSE
  OBVIOUS
<1>1. IsWellFoundedOn(StrictSubsetOrdering(S), SUBSET S)
  BY FS_StrictSubsetOrderingWellFounded, FS_FiniteSubsetsOfFinite
<1>2. \E T \in Bad : \A U \in Bad : ~ (<<U, T>> \in StrictSubsetOrdering(S))
  <2>1. Bad \subseteq SUBSET S
    OBVIOUS
  <2> HIDE DEF Bad
  <2> QED BY <1>1, <2>1, WFMin
<1>3. PICK T \in Bad : \A U \in Bad : ~ (<<U, T>> \in StrictSubsetOrdering(S))
  BY <1>2
<1>4. ASSUME NEW x \in T PROVE T \ {x} \in G
  <2>1. <<T \ {x}, T>> \in StrictSubsetOrdering(S)
    BY <1>3 DEF StrictSubsetOrdering
  <2> QED BY <1>3, <2>1
<1> QED BY <1>3, <1>4

-----------------------------------------------------------------------------
(* The recursive function.                                                  *)

Pick(S) == CHOOSE x \in S : TRUE

\* iter gives the sum of f over each subset of S.
IsFold(iter, f, S) ==
  iter = [s \in SUBSET S |->
            IF s = {} THEN 0 ELSE f[Pick(s)] + iter[s \ {Pick(s)}]]

\* It exists: part by part, for the sets of at most n elements.
LEMMA FoldExists ==
  ASSUME NEW S, IsFiniteSet(S), NEW f
  PROVE  \E iter : IsFold(iter, f, S)
<1> DEFINE Small(n) == {s \in SUBSET S : Cardinality(s) <= n}
<1> DEFINE IsPart(h, n) ==
      h = [s \in Small(n) |->
             IF s = {} THEN 0 ELSE f[Pick(s)] + h[s \ {Pick(s)}]]
<1> DEFINE G == {n \in Nat : \E h : IsPart(h, n)}
<1>1. \A s \in SUBSET S : IsFiniteSet(s) /\ Cardinality(s) \in Nat
  BY FS_Subset, FS_CardinalityType
<1>2. ASSUME NEW n \in Nat, NEW s \in Small(n + 1), s # {}
      PROVE  s \ {Pick(s)} \in Small(n)
  <2>1. Pick(s) \in s
    BY <1>2 DEF Pick
  <2>2. Cardinality(s \ {Pick(s)}) = Cardinality(s) - 1
    BY <1>1, <2>1, FS_RemoveElement
  <2> QED BY <1>1, <2>2
<1>3. 0 \in G
  <2> DEFINE h == [s \in Small(0) |-> 0]
  <2>1. \A s \in Small(0) : s = {}
    BY <1>1, FS_EmptySet
  <2>2. IsPart(h, 0)
    BY <2>1
  <2> QED BY <2>2
<1>4. ASSUME NEW n \in Nat, n \in G
      PROVE  n + 1 \in G
  <2>1. PICK h : IsPart(h, n)
    BY <1>4
  <2> DEFINE k == [s \in Small(n + 1) |->
                     IF s = {} THEN 0 ELSE f[Pick(s)] + h[s \ {Pick(s)}]]
  <2>2. Small(n) \subseteq Small(n + 1)
    BY <1>1
  <2>3. \A s \in Small(n) : k[s] = h[s]
    BY <2>1, <2>2
  <2>4. IsPart(k, n + 1)
    <3>1. ASSUME NEW s \in Small(n + 1), s # {}
          PROVE  h[s \ {Pick(s)}] = k[s \ {Pick(s)}]
      BY <1>2, <2>3, <3>1
    <3> HIDE DEF Small
    <3> QED BY <3>1
  <2> HIDE DEF IsPart
  <2> QED BY <2>4
<1>5. Cardinality(S) \in G
  <2> HIDE DEF G
  <2> QED BY <1>1, <1>3, <1>4, NaturalRule
<1>6. Small(Cardinality(S)) = SUBSET S
  BY <1>1, FS_Subset
<1> QED BY <1>5, <1>6 DEF IsFold

\* iter[T] is the sum over T: that of one of its elements and of the others.
IsSum(iter, f, S) ==
  /\ iter[{}] = 0
  /\ \A T \in SUBSET S : T # {} =>
       \E x \in T : x = Pick(T) /\ iter[T] = f[x] + iter[T \ {x}]

LEMMA SumIsFold ==
  ASSUME NEW f, NEW S, S = DOMAIN f, IsFiniteSet(S)
  PROVE  \E iter : IsSum(iter, f, S) /\ SumFunction(f) = iter[S]
<1>1. SumFunction(f) = (CHOOSE iter : IsFold(iter, f, S))[S]
  BY DEF SumFunction, SumFunctionOnSet, FoldFunctionOnSet, MapThenFoldSet,
         IsFold, Pick
<1>2. PICK iter : IsFold(iter, f, S) /\ SumFunction(f) = iter[S]
  BY <1>1, FoldExists
<1>3. IsSum(iter, f, S)
  BY <1>2 DEF IsFold, IsSum, Pick
<1> QED BY <1>2, <1>3

-----------------------------------------------------------------------------
(* Sums.                                                                    *)

\* A sum of integers is an integer.
LEMMA SumType ==
  ASSUME NEW S, IsFiniteSet(S), NEW f \in [S -> Int]
  PROVE  SumFunction(f) \in Int
<1>1. PICK iter : IsSum(iter, f, S) /\ SumFunction(f) = iter[S]
  BY SumIsFold
<1> DEFINE G == {T \in SUBSET S : iter[T] \in Int}
<1>2. {} \in G
  BY <1>1 DEF IsSum
<1>3. ASSUME NEW T \in SUBSET S, T # {}, \A x \in T : T \ {x} \in G
      PROVE  T \in G
  <2>1. PICK x \in T : iter[T] = f[x] + iter[T \ {x}]
    BY <1>1, <1>3 DEF IsSum
  <2>2. T \ {x} \in G
    BY <1>3
  <2> QED BY <2>1, <2>2
<1>4. S \in G
  <2> HIDE DEF G
  <2> QED BY <1>2, <1>3, SubsetRule
<1> QED BY <1>1, <1>4

\* A sum of zeros is 0.
LEMMA SumZero ==
  ASSUME NEW S, IsFiniteSet(S), NEW f, DOMAIN f = S, \A x \in S : f[x] = 0
  PROVE  SumFunction(f) = 0
<1>1. PICK iter : IsSum(iter, f, S) /\ SumFunction(f) = iter[S]
  BY SumIsFold
<1> DEFINE G == {T \in SUBSET S : iter[T] = 0}
<1>2. {} \in G
  BY <1>1 DEF IsSum
<1>3. ASSUME NEW T \in SUBSET S, T # {}, \A x \in T : T \ {x} \in G
      PROVE  T \in G
  <2>1. PICK x \in T : iter[T] = f[x] + iter[T \ {x}]
    BY <1>1, <1>3 DEF IsSum
  <2>2. T \ {x} \in G
    BY <1>3
  <2> QED BY <2>1, <2>2
<1>4. S \in G
  <2> HIDE DEF G
  <2> QED BY <1>2, <1>3, SubsetRule
<1> QED BY <1>1, <1>4

\* When one summand changes, the sum changes by as much.
LEMMA SumUpdate ==
  ASSUME NEW S, IsFiniteSet(S), NEW f \in [S -> Int], NEW g \in [S -> Int],
         NEW a \in S, \A x \in S \ {a} : g[x] = f[x]
  PROVE  SumFunction(g) = SumFunction(f) + g[a] - f[a]
<1>1. PICK iter : IsSum(iter, f, S) /\ SumFunction(f) = iter[S]
  BY SumIsFold
<1>2. PICK jter : IsSum(jter, g, S) /\ SumFunction(g) = jter[S]
  BY SumIsFold
<1> DEFINE G == {T \in SUBSET S :
                   /\ iter[T] \in Int
                   /\ jter[T] = iter[T] + (IF a \in T THEN g[a] - f[a] ELSE 0)}
<1>3. {} \in G
  BY <1>1, <1>2 DEF IsSum
<1>4. ASSUME NEW T \in SUBSET S, T # {}, \A x \in T : T \ {x} \in G
      PROVE  T \in G
  <2>1. PICK x \in T : x = Pick(T) /\ iter[T] = f[x] + iter[T \ {x}]
    BY <1>1, <1>4 DEF IsSum
  <2>2. jter[T] = g[x] + jter[T \ {x}]
    BY <1>2, <1>4, <2>1 DEF IsSum
  <2>3. T \ {x} \in G
    BY <1>4
  <2>4. CASE x = a
    BY <2>1, <2>2, <2>3, <2>4
  <2>5. CASE x # a
    BY <2>1, <2>2, <2>3, <2>5
  <2> QED BY <2>4, <2>5
<1>5. S \in G
  <2> HIDE DEF G
  <2> QED BY <1>3, <1>4, SubsetRule
<1> QED BY <1>1, <1>2, <1>5
=============================================================================
