------------------------------- MODULE SumLemmas -------------------------------
(***************************************************************************)
(* The sum of a function over a finite domain.  A fold is recursive, and   *)
(* what a recursion computes is found by induction; here the induction is  *)
(* that a set of the wrong sum has a smallest member.  The sum is shown to *)
(* be the number of pairs <<c, k>> with k \in 1..f[c], and what is needed  *)
(* of sums follows from what is known of cardinalities.                    *)
(***************************************************************************)
EXTENDS Integers, FiniteSets, Functions, FiniteSetTheorems, TLAPS

Sum(f) == FoldFunction(+, 0, f)

\* What f counts, one by one, in the part s of its domain.
Counted(f, s) == UNION {{c} \X (1..f[c]) : c \in s}

\* The recursion of the fold, and its body.
Body(f, iter, s) ==
    IF s = {} THEN 0
              ELSE LET x == CHOOSE x \in s : TRUE IN f[x] + iter[s \ {x}]
IsFold(f, iter) == iter = [s \in SUBSET DOMAIN f |-> Body(f, iter, s)]

-------------------------------------------------------------------------------
\* The fold is a solution of its recursion, if there is one.
LEMMA SumIsFold ==
  ASSUME NEW f
  PROVE  Sum(f) = (CHOOSE iter : IsFold(f, iter))[DOMAIN f]
  BY DEF Sum, FoldFunction, FoldFunctionOnSet, MapThenFoldSet, IsFold, Body

\* The members of Counted.
LEMMA CountedMember ==
  ASSUME NEW f, NEW s, NEW p
  PROVE  p \in Counted(f, s) <=>
           \E c \in s : \E k \in 1..f[c] : p = <<c, k>>
  BY DEF Counted

\* One element of the domain counts its value.
LEMMA CountedOne ==
  ASSUME NEW x, NEW n \in Nat
  PROVE  /\ IsFiniteSet({x} \X (1..n))
         /\ Cardinality({x} \X (1..n)) = n
<1>1. \A S, T : IsFiniteSet(S) /\ IsFiniteSet(T) =>
        /\ IsFiniteSet(S \X T)
        /\ Cardinality(S \X T) = Cardinality(S) * Cardinality(T)
  BY FS_Product
<1>2. IsFiniteSet({x}) /\ Cardinality({x}) = 1
  BY FS_Singleton
<1>3. IsFiniteSet(1..n) /\ Cardinality(1..n) = n
  BY FS_Interval
<1>4. /\ IsFiniteSet({x} \X (1..n))
      /\ Cardinality({x} \X (1..n)) = Cardinality({x}) * Cardinality(1..n)
  BY <1>1, <1>2, <1>3
<1> QED BY <1>2, <1>3, <1>4

\* Finitely many values count finitely many.
LEMMA CountedFinite ==
  ASSUME NEW S, IsFiniteSet(S), NEW f \in [S -> Nat], NEW s \in SUBSET S
  PROVE  IsFiniteSet(Counted(f, s)) /\ Cardinality(Counted(f, s)) \in Nat
<1> DEFINE Part(c) == {c} \X (1..f[c])
           Parts == {Part(c) : c \in s}
           part == [c \in s |-> Part(c)]
<1>1. IsFiniteSet(s)
  BY FS_Subset
<1>2. \A c \in s : IsFiniteSet(Part(c))
  BY CountedOne
<1>3. Counted(f, s) = UNION Parts
  BY DEF Counted
<1> HIDE DEF Part
<1>4. part \in Surjection(s, Parts)
  BY DEF Surjection
<1>5. IsFiniteSet(Parts)
  BY <1>1, <1>4, FS_Surjection
<1>6. \A T \in Parts : IsFiniteSet(T)
  BY <1>2
<1>7. IsFiniteSet(UNION Parts)
  BY <1>5, <1>6, FS_UNION
<1> QED BY <1>3, <1>7, FS_CardinalityType

\* A set of one element more counts the value of that element more.
LEMMA CountedNext ==
  ASSUME NEW S, IsFiniteSet(S), NEW f \in [S -> Nat], NEW s \in SUBSET S,
         NEW x \in s
  PROVE  Cardinality(Counted(f, s)) = f[x] + Cardinality(Counted(f, s \ {x}))
<1> DEFINE one == {x} \X (1..f[x])
           rest == Counted(f, s \ {x})
<1>1. f[x] \in Nat
  OBVIOUS
<1>2. IsFiniteSet(one) /\ Cardinality(one) = f[x]
  BY <1>1, CountedOne
<1>3. IsFiniteSet(rest) /\ Cardinality(rest) \in Nat
  BY CountedFinite
<1>4. Counted(f, s) = one \cup rest
  <2>1. \A p : p \in one <=> \E k \in 1..f[x] : p = <<x, k>>
    OBVIOUS
  <2>2. \A p : p \in Counted(f, s) <=> p \in one \/ p \in rest
    BY <2>1, CountedMember
  <2> HIDE DEF one, rest
  <2> QED BY <2>2
<1>5. one \cap rest = {}
  BY CountedMember
<1> HIDE DEF one, rest
<1>6. Cardinality(one \cap rest) = 0
  BY <1>5, FS_EmptySet
<1>7. Cardinality(one \cup rest)
        = Cardinality(one) + Cardinality(rest) - Cardinality(one \cap rest)
  BY <1>2, <1>3, FS_Union
<1>8. Cardinality(one \cup rest) = f[x] + Cardinality(rest)
  BY <1>1, <1>2, <1>3, <1>6, <1>7
<1> QED BY <1>4, <1>8 DEF rest

\* Counting is a solution of the recursion ...
LEMMA CountingIsFold ==
  ASSUME NEW S, IsFiniteSet(S), NEW f \in [S -> Nat]
  PROVE  IsFold(f, [s \in SUBSET S |-> Cardinality(Counted(f, s))])
<1> DEFINE count == [s \in SUBSET S |-> Cardinality(Counted(f, s))]
<1>1. ASSUME NEW s \in SUBSET S PROVE count[s] = Body(f, count, s)
  <2>1. CASE s = {}
    <3>1. Counted(f, s) = {}
      BY <2>1 DEF Counted
    <3> QED BY <2>1, <3>1, FS_EmptySet DEF Body
  <2>2. CASE s # {}
    <3> DEFINE x == CHOOSE x \in s : TRUE
    <3>1. x \in s /\ s \ {x} \in SUBSET S
      BY <2>2
    <3>2. Body(f, count, s) = f[x] + count[s \ {x}]
      BY <2>2 DEF Body
    <3> HIDE DEF x
    <3>3. Cardinality(Counted(f, s))
            = f[x] + Cardinality(Counted(f, s \ {x}))
      BY <3>1, CountedNext
    <3>4. count[s] = f[x] + count[s \ {x}]
      BY <3>1, <3>3
    <3> QED BY <3>2, <3>4
  <2> QED BY <2>1, <2>2
<1>2. DOMAIN f = S
  OBVIOUS
<1> QED BY <1>1, <1>2 DEF IsFold

\* ... and the only one: a set on which another one differs has a smallest.
LEMMA FoldIsCounting ==
  ASSUME NEW S, IsFiniteSet(S), NEW f \in [S -> Nat], NEW iter, IsFold(f, iter)
  PROVE  iter[S] = Cardinality(Counted(f, S))
<1> DEFINE count == [s \in SUBSET S |-> Cardinality(Counted(f, s))]
           wrong == {s \in SUBSET S : iter[s] # count[s]}
<1>1. DOMAIN f = S
  OBVIOUS
<1>2. \A s \in SUBSET S : iter[s] = Body(f, iter, s)
  BY <1>1 DEF IsFold
<1>3. \A s \in SUBSET S : count[s] = Body(f, count, s)
  <2>1. IsFold(f, count)
    BY CountingIsFold
  <2> HIDE DEF count
  <2> QED BY <1>1, <2>1 DEF IsFold
<1>4. IsWellFoundedOn(StrictSubsetOrdering(S), SUBSET S)
  BY FS_StrictSubsetOrderingWellFounded, FS_FiniteSubsetsOfFinite
<1> HIDE DEF count
<1>5. ASSUME wrong # {} PROVE FALSE
  <2>1. PICK s \in wrong :
           \A t \in wrong : <<t, s>> \notin StrictSubsetOrdering(S)
    <3>1. wrong \subseteq SUBSET S
      OBVIOUS
    <3> HIDE DEF wrong
    <3> QED BY <1>4, <1>5, <3>1, WFMin
  <2>2. s # {}
    BY <1>2, <1>3, <2>1 DEF Body
  <2> DEFINE x == CHOOSE x \in s : TRUE
  <2>3. x \in s /\ s \ {x} \in SUBSET S
    BY <2>1, <2>2
  <2>4. s \ {x} \notin wrong
    <3>1. s \in SUBSET S /\ s \ {x} # s /\ s \ {x} \subseteq s
      BY <2>1, <2>3
    <3> HIDE DEF x, wrong
    <3>2. <<s \ {x}, s>> \in StrictSubsetOrdering(S)
      BY <2>3, <3>1 DEF StrictSubsetOrdering
    <3> QED BY <2>1, <3>2
  <2>5. iter[s \ {x}] = count[s \ {x}]
    BY <2>3, <2>4
  <2>6. iter[s] = count[s]
    BY <1>2, <1>3, <2>1, <2>2, <2>5 DEF Body
  <2> QED BY <2>1, <2>6
<1>6. iter[S] = count[S]
  BY <1>5
<1> QED BY <1>6 DEF count

-------------------------------------------------------------------------------
\* The sum of a function is what it counts.
LEMMA SumCounts ==
  ASSUME NEW S, IsFiniteSet(S), NEW f \in [S -> Nat]
  PROVE  /\ Sum(f) = Cardinality(Counted(f, S))
         /\ Sum(f) \in Nat
<1> DEFINE iter == CHOOSE iter : IsFold(f, iter)
<1>1. IsFold(f, iter)
  BY CountingIsFold
<1>2. DOMAIN f = S /\ Sum(f) = iter[DOMAIN f]
  BY SumIsFold
<1> HIDE DEF iter
<1>3. iter[S] = Cardinality(Counted(f, S))
  BY <1>1, FoldIsCounting
<1> QED BY <1>2, <1>3, CountedFinite

\* A sum grows with its function.
LEMMA SumMonotonic ==
  ASSUME NEW S, IsFiniteSet(S), NEW f \in [S -> Nat], NEW g \in [S -> Nat],
         \A c \in S : f[c] <= g[c]
  PROVE  Sum(f) <= Sum(g)
<1>1. \A c \in S : f[c] \in Nat /\ g[c] \in Nat
  OBVIOUS
<1>2. \A c \in S : \A k \in 1..f[c] : k \in 1..g[c]
  BY <1>1
<1>3. Counted(f, S) \subseteq Counted(g, S)
  BY <1>2, CountedMember
<1>4. Cardinality(Counted(f, S)) <= Cardinality(Counted(g, S))
  BY <1>3, CountedFinite, FS_Subset
<1> QED BY <1>4, SumCounts

\* A sum is at least the number of those that are not zero.
LEMMA SumOfPositive ==
  ASSUME NEW S, IsFiniteSet(S), NEW f \in [S -> Nat], NEW T \in SUBSET S,
         \A c \in T : f[c] >= 1
  PROVE  Cardinality(T) <= Sum(f)
<1> DEFINE first == [c \in T |-> <<c, 1>>]
<1>1. \A c \in T : 1 \in 1..f[c]
  OBVIOUS
<1>2. first \in Injection(T, Counted(f, S))
  <2>1. \A c \in T : <<c, 1>> \in Counted(f, S)
    BY <1>1, CountedMember
  <2> QED BY <2>1 DEF Injection, IsInjective
<1>3. Cardinality(T) <= Cardinality(Counted(f, S))
  BY <1>2, CountedFinite, FS_Injection
<1> QED BY <1>3, SumCounts
===============================================================================
