---------------------------- MODULE TotalsProofs ----------------------------
(***************************************************************************)
(* What a sum over a finite set is: a number, the share of any one element *)
(* and the sum of the rest, and so no greater than a sum of greater shares *)
(* or over more elements.                                                  *)
(***************************************************************************)
EXTENDS Totals, FiniteSetTheorems, WellFoundedInduction, TLAPS

\* A set of numbers that is not empty has a least one.
LEMMA LeastNumber ==
  ASSUME NEW N, N \subseteq Nat, N # {}
  PROVE  \E n \in N : \A m \in N : n <= m
<1>1. PICK n \in N : \A m \in N : ~ (<<m, n>> \in OpToRel(<, Nat))
  BY NatLessThanWellFounded, WFMin
<1>2. \A m \in N : ~ (m < n)
  BY <1>1 DEF OpToRel
<1>. QED BY <1>2

\* Among parts of a finite set there is a least one: what takes the place of induction in this module.
LEMMA LeastSet ==
  ASSUME NEW S, IsFiniteSet(S), NEW P, P \subseteq SUBSET S, P # {}
  PROVE  \E s \in P : \A t \in P : t \subseteq s => t = s
<1>1. \A s \in P : IsFiniteSet(s) /\ Cardinality(s) \in Nat
  BY FS_Subset, FS_CardinalityType
<1>. DEFINE N == {Cardinality(s) : s \in P}
<1>2. N \subseteq Nat /\ N # {} BY <1>1
<1>3. PICK n \in N : \A m \in N : n <= m
  <2>. HIDE DEF N
  <2>. QED BY <1>2, LeastNumber
<1>4. PICK s \in P : n = Cardinality(s) BY <1>3
<1>5. ASSUME NEW t \in P, t \subseteq s PROVE t = s
  <2>1. Cardinality(s) <= Cardinality(t) BY <1>3, <1>4
  <2>2. Cardinality(t) <= Cardinality(s) BY <1>1, <1>5, FS_Subset
  <2>3. Cardinality(t) = Cardinality(s) BY <1>1, <2>1, <2>2
  <2>. QED BY <1>1, <1>5, <2>3, FS_Subset
<1>. QED BY <1>5

\* The element a sum takes out first.
Some(s) == CHOOSE x \in s : TRUE

\* g has the recursion of a sum of f on the sets of D; a fold over S is such a g on its parts.
Recurs(g, D, f) ==
  g = [s \in D |-> IF s = {} THEN 0
                   ELSE f[Some(s)] + g[s \ {Some(s)}]]
Fold(f, S) == CHOOSE g : Recurs(g, SUBSET S, f)

\* A sum is what the fold of the library gives the whole set.
LEMMA TotalIsFold == \A f, S : Total(f, S) = Fold(f, S)[S]
BY DEF Total, MapThenSumSet, MapThenFoldSet, Fold, Recurs, Some

\* There is a function with the recursion of the fold: there is no least size up to which there is none.
LEMMA FoldExists ==
  ASSUME NEW S, IsFiniteSet(S), NEW f
  PROVE  Recurs(Fold(f, S), SUBSET S, f)
<1>. DEFINE Level(n) == {s \in SUBSET S : Cardinality(s) <= n}
            Stuck == {n \in Nat : ~ \E g : Recurs(g, Level(n), f)}
<1>1. \A s \in SUBSET S : /\ Cardinality(s) \in Nat /\ Cardinality(s) <= Cardinality(S)
                          /\ Cardinality(s) = 0 <=> s = {}
  <2>. SUFFICES ASSUME NEW s \in SUBSET S
       PROVE  /\ Cardinality(s) \in Nat /\ Cardinality(s) <= Cardinality(S)
              /\ Cardinality(s) = 0 <=> s = {}
    OBVIOUS
  <2>1. IsFiniteSet(s) /\ Cardinality(s) <= Cardinality(S) BY FS_Subset
  <2>. QED BY <2>1, FS_CardinalityType, FS_EmptySet
<1>2. \A s \in SUBSET S : s # {} => Cardinality(s \ {Some(s)}) = Cardinality(s) - 1
  <2>. SUFFICES ASSUME NEW s \in SUBSET S, s # {}
                PROVE  Cardinality(s \ {Some(s)}) = Cardinality(s) - 1
    OBVIOUS
  <2>1. IsFiniteSet(s) /\ Some(s) \in s BY FS_Subset DEF Some
  <2>. QED BY <2>1, FS_RemoveElement
<1>3. Stuck = {}
  <2>. SUFFICES ASSUME Stuck # {} PROVE FALSE OBVIOUS
  <2>1. PICK n \in Stuck : \A m \in Stuck : n <= m BY LeastNumber
  <2>2. n \in Nat OBVIOUS
  <2>3. CASE n = 0
    <3>1. \A s \in Level(0) : s = {} BY <1>1
    <3>2. Recurs([s \in Level(0) |-> 0], Level(0), f)
      <4>. HIDE DEF Level
      <4>. QED BY <3>1 DEF Recurs
    <3>. QED BY <2>3, <3>2
  <2>4. CASE n # 0
    <3>1. PICK k \in Nat : n = k + 1 BY <2>2, <2>4
    <3>2. ~ (n <= k) BY <3>1
    <3>3. k \notin Stuck BY <2>1, <3>2
    <3>4. PICK g : Recurs(g, Level(k), f) BY <3>3
    <3>. DEFINE h == [s \in Level(n) |->
                        IF s = {} THEN 0 ELSE f[Some(s)] + g[s \ {Some(s)}]]
    <3>5. \A t \in Level(k) : t \in Level(n)
      <4>. SUFFICES ASSUME NEW t \in SUBSET S, Cardinality(t) <= k PROVE Cardinality(t) <= n
        OBVIOUS
      <4>1. Cardinality(t) \in Nat BY <1>1
      <4>. QED BY <3>1, <4>1
    <3>6. ASSUME NEW s \in Level(n), s # {} PROVE s \ {Some(s)} \in Level(k)
      <4>1. /\ s \in SUBSET S /\ Cardinality(s) <= n /\ Cardinality(s) \in Nat
            /\ Cardinality(s \ {Some(s)}) = Cardinality(s) - 1
        BY <1>1, <1>2, <3>6
      <4>2. Cardinality(s \ {Some(s)}) <= k BY <3>1, <4>1
      <4>. QED BY <4>1, <4>2
    <3>. HIDE DEF Level
    <3>7. \A t \in Level(k) : h[t] = g[t]
      BY <3>4, <3>5 DEF Recurs
    <3>8. h = [s \in Level(n) |-> IF s = {} THEN 0 ELSE f[Some(s)] + h[s \ {Some(s)}]]
      <4>1. ASSUME NEW s \in Level(n)
            PROVE  (IF s = {} THEN 0 ELSE f[Some(s)] + g[s \ {Some(s)}])
                   = (IF s = {} THEN 0 ELSE f[Some(s)] + h[s \ {Some(s)}])
        <5>1. CASE s = {} BY <5>1
        <5>2. CASE s # {}
          <6>1. h[s \ {Some(s)}] = g[s \ {Some(s)}] BY <3>6, <3>7, <5>2
          <6>. HIDE DEF h
          <6>. QED BY <5>2, <6>1
        <5>. QED BY <5>1, <5>2
      <4>. QED BY <4>1
    <3>9. Recurs(h, Level(n), f)
      <4>. HIDE DEF h
      <4>. QED BY <3>8 DEF Recurs
    <3>. QED BY <2>1, <3>9
  <2>. QED BY <2>3, <2>4
<1>4. Cardinality(S) \in Nat BY FS_CardinalityType
<1>5. SUBSET S = Level(Cardinality(S)) BY <1>1
<1>6. \E g : Recurs(g, SUBSET S, f)
  <2>1. Cardinality(S) \notin Stuck BY <1>3
  <2>2. \E g : Recurs(g, Level(Cardinality(S)), f) BY <1>4, <2>1
  <2>. HIDE DEF Level
  <2>. QED BY <1>5, <2>2
<1>. QED BY <1>6 DEF Fold

\* The recursion that every sum over a subset of a finite set obeys.
LEMMA FoldUnfolds ==
  ASSUME NEW S, IsFiniteSet(S), NEW f, NEW s \in SUBSET S
  PROVE  Fold(f, S)[s] = IF s = {} THEN 0
                         ELSE f[Some(s)] + Fold(f, S)[s \ {Some(s)}]
<1>1. Recurs(Fold(f, S), SUBSET S, f) BY FoldExists
<1>. DEFINE F == Fold(f, S)
<1>2. F = [t \in SUBSET S |-> IF t = {} THEN 0 ELSE f[Some(t)] + F[t \ {Some(t)}]]
  BY <1>1 DEF Recurs
<1>. HIDE DEF F
<1>3. F[s] = IF s = {} THEN 0 ELSE f[Some(s)] + F[s \ {Some(s)}] BY <1>2
<1>. QED BY <1>3 DEF F

\* The fold over a set gives each of its parts its sum.
LEMMA FoldIsTotal ==
  ASSUME NEW S, IsFiniteSet(S), NEW f, NEW s \in SUBSET S
  PROVE  Fold(f, S)[s] = Total(f, s)
<1>1. IsFiniteSet(s) BY FS_Subset
<1>. DEFINE Differ == {t \in SUBSET s : Fold(f, S)[t] # Fold(f, s)[t]}
<1>2. Differ = {}
  <2>. SUFFICES ASSUME Differ # {} PROVE FALSE OBVIOUS
  <2>1. PICK t \in Differ : \A u \in Differ : u \subseteq t => u = t
    <3>1. Differ \subseteq SUBSET s OBVIOUS
    <3>. HIDE DEF Differ
    <3>. QED BY <1>1, <3>1, LeastSet
  <2>2. t # {} BY <1>1, <2>1, FoldUnfolds
  <2>3. PICK x : x = Some(t) OBVIOUS
  <2>4. x \in t BY <2>2, <2>3 DEF Some
  <2>5. t \ {x} \in SUBSET s /\ t \in SUBSET S /\ t \in SUBSET s /\ t \ {x} \notin Differ BY <2>1, <2>4
  <2>6. Fold(f, S)[t] = f[x] + Fold(f, S)[t \ {x}]
    <3>1. Fold(f, S)[t] = IF t = {} THEN 0 ELSE f[Some(t)] + Fold(f, S)[t \ {Some(t)}]
      BY <2>5, FoldUnfolds
    <3>. QED BY <2>2, <2>3, <3>1
  <2>7. Fold(f, s)[t] = f[x] + Fold(f, s)[t \ {x}]
    <3>1. Fold(f, s)[t] = IF t = {} THEN 0 ELSE f[Some(t)] + Fold(f, s)[t \ {Some(t)}]
      BY <1>1, <2>5, FoldUnfolds
    <3>. QED BY <2>2, <2>3, <3>1
  <2>. QED BY <2>1, <2>5, <2>6, <2>7
<1>3. s \in SUBSET s /\ Fold(f, S)[s] = Fold(f, s)[s] BY <1>2
<1>. QED BY <1>3, TotalIsFold

\* Some order of the elements gives the sum.
LEMMA TotalChoice ==
  ASSUME NEW S, IsFiniteSet(S), NEW f
  PROVE  /\ S = {} => Total(f, S) = 0
         /\ S # {} => \E x \in S : Total(f, S) = f[x] + Total(f, S \ {x})
<1>1. S \in SUBSET S OBVIOUS
<1>2. S = {} => Total(f, S) = 0 BY <1>1, FoldUnfolds, FoldIsTotal
<1>3. ASSUME S # {} PROVE \E x \in S : Total(f, S) = f[x] + Total(f, S \ {x})
  <2>1. PICK x : x = Some(S) OBVIOUS
  <2>2. x \in S /\ S \ {x} \in SUBSET S BY <1>3, <2>1 DEF Some
  <2>3. Fold(f, S)[S] = f[x] + Fold(f, S)[S \ {x}] BY <1>1, <1>3, <2>1, FoldUnfolds
  <2>4. Fold(f, S)[S] = Total(f, S) /\ Fold(f, S)[S \ {x}] = Total(f, S \ {x})
    BY <1>1, <2>2, FoldIsTotal
  <2>. QED BY <2>2, <2>3, <2>4
<1>. QED BY <1>2, <1>3

\* A sum of natural numbers is one.
LEMMA TotalType ==
  ASSUME NEW S, IsFiniteSet(S), NEW f, \A x \in S : f[x] \in Nat
  PROVE  Total(f, S) \in Nat
<1>. DEFINE Bad == {t \in SUBSET S : Total(f, t) \notin Nat}
<1>1. Bad = {}
  <2>. SUFFICES ASSUME Bad # {} PROVE FALSE OBVIOUS
  <2>1. PICK t \in Bad : \A u \in Bad : u \subseteq t => u = t
    <3>1. Bad \subseteq SUBSET S OBVIOUS
    <3>. HIDE DEF Bad
    <3>. QED BY <3>1, LeastSet
  <2>2. t \in SUBSET S /\ IsFiniteSet(t) /\ t # {} BY <2>1, FS_Subset, TotalChoice
  <2>3. PICK x \in t : Total(f, t) = f[x] + Total(f, t \ {x}) BY <2>2, TotalChoice
  <2>4. Total(f, t \ {x}) \in Nat BY <2>1, <2>2, <2>3
  <2>. QED BY <2>1, <2>2, <2>3, <2>4
<1>. QED BY <1>1

\* Any element may be taken out of a sum, not only the one the fold takes first.
LEMMA TotalRemove ==
  ASSUME NEW S, IsFiniteSet(S), NEW f, \A x \in S : f[x] \in Nat, NEW y \in S
  PROVE  Total(f, S) = f[y] + Total(f, S \ {y})
<1>. DEFINE Bad == {t \in SUBSET S : \E z \in t : Total(f, t) # f[z] + Total(f, t \ {z})}
<1>1. Bad = {}
  <2>. SUFFICES ASSUME Bad # {} PROVE FALSE OBVIOUS
  <2>1. PICK t \in Bad : \A u \in Bad : u \subseteq t => u = t
    <3>1. Bad \subseteq SUBSET S OBVIOUS
    <3>. HIDE DEF Bad
    <3>. QED BY <3>1, LeastSet
  <2>2. t \in SUBSET S /\ IsFiniteSet(t) /\ t # {} BY <2>1, FS_Subset
  <2>3. PICK z \in t : Total(f, t) # f[z] + Total(f, t \ {z}) BY <2>1
  <2>4. PICK x \in t : Total(f, t) = f[x] + Total(f, t \ {x}) BY <2>2, TotalChoice
  <2>5. x # z /\ z \in t \ {x} /\ x \in t \ {z} BY <2>3, <2>4
  <2>6. t \ {x} \notin Bad /\ t \ {z} \notin Bad BY <2>1, <2>3, <2>4
  <2>7. Total(f, t \ {x}) = f[z] + Total(f, (t \ {x}) \ {z}) BY <2>2, <2>5, <2>6
  <2>8. Total(f, t \ {z}) = f[x] + Total(f, (t \ {z}) \ {x}) BY <2>2, <2>5, <2>6
  <2>9. (t \ {x}) \ {z} = (t \ {z}) \ {x} OBVIOUS
  <2>10. Total(f, (t \ {x}) \ {z}) \in Nat
    <3>1. IsFiniteSet((t \ {x}) \ {z}) BY <2>2, FS_Subset
    <3>. QED BY <2>2, <3>1, TotalType
  <2>11. f[x] \in Nat /\ f[z] \in Nat BY <2>2, <2>3, <2>4
  <2>. QED BY <2>3, <2>4, <2>7, <2>8, <2>9, <2>10, <2>11
<1>. QED BY <1>1

\* A new element adds its share.
LEMMA TotalAdd ==
  ASSUME NEW S, IsFiniteSet(S), NEW f, NEW y, y \notin S, \A x \in S \cup {y} : f[x] \in Nat
  PROVE  Total(f, S \cup {y}) = Total(f, S) + f[y]
<1>1. IsFiniteSet(S \cup {y}) BY FS_AddElement
<1>2. Total(f, S \cup {y}) = f[y] + Total(f, (S \cup {y}) \ {y}) BY <1>1, TotalRemove
<1>3. (S \cup {y}) \ {y} = S OBVIOUS
<1>4. Total(f, S) \in Nat /\ f[y] \in Nat BY TotalType
<1>. QED BY <1>2, <1>3, <1>4

\* The share of one element in the sum over a part of a set.
LEMMA TotalPart ==
  ASSUME NEW U, IsFiniteSet(U), NEW S, NEW f, \A y \in S : f[y] \in Nat, NEW x \in U
  PROVE  /\ Total(f, S \cap U) = (IF x \in S THEN f[x] ELSE 0) + Total(f, S \cap (U \ {x}))
         /\ Total(f, S \cap (U \ {x})) \in Nat
<1>1. IsFiniteSet(S \cap U) /\ IsFiniteSet(S \cap (U \ {x}))
  <2>1. S \cap U \in SUBSET U /\ S \cap (U \ {x}) \in SUBSET U OBVIOUS
  <2>. QED BY <2>1, FS_Subset
<1>2. Total(f, S \cap (U \ {x})) \in Nat BY <1>1, TotalType
<1>3. CASE x \in S
  <2>1. x \in S \cap U /\ (S \cap U) \ {x} = S \cap (U \ {x}) BY <1>3
  <2>2. \A y \in S \cap U : f[y] \in Nat OBVIOUS
  <2>3. Total(f, S \cap U) = f[x] + Total(f, (S \cap U) \ {x}) BY <1>1, <2>1, <2>2, TotalRemove
  <2>. QED BY <1>2, <1>3, <2>1, <2>3
<1>4. CASE x \notin S
  <2>1. S \cap U = S \cap (U \ {x}) BY <1>4
  <2>2. Total(f, S \cap U) = Total(f, S \cap (U \ {x})) BY <2>1
  <2>. QED BY <1>2, <1>4, <2>2
<1>. QED BY <1>3, <1>4

\* What holds of the values one by one holds of the sums: a sum is bounded by two others.
LEMMA TotalBound ==
  ASSUME NEW U, IsFiniteSet(U), NEW S \in SUBSET U, NEW A \in SUBSET U, NEW B \in SUBSET U,
         NEW h, NEW f, NEW g,
         \A x \in S : h[x] \in Nat, \A x \in A : f[x] \in Nat, \A x \in B : g[x] \in Nat,
         \A x \in U : (IF x \in S THEN h[x] ELSE 0)
                        <= (IF x \in A THEN f[x] ELSE 0) + (IF x \in B THEN g[x] ELSE 0)
  PROVE  Total(h, S) <= Total(f, A) + Total(g, B)
<1>. DEFINE Bad == {t \in SUBSET U :
                      ~ (Total(h, S \cap t) <= Total(f, A \cap t) + Total(g, B \cap t))}
<1>1. Bad = {}
  <2>. SUFFICES ASSUME Bad # {} PROVE FALSE OBVIOUS
  <2>1. PICK t \in Bad : \A u \in Bad : u \subseteq t => u = t
    <3>1. Bad \subseteq SUBSET U OBVIOUS
    <3>. HIDE DEF Bad
    <3>. QED BY <3>1, LeastSet
  <2>2. t \in SUBSET U /\ IsFiniteSet(t) BY <2>1, FS_Subset
  <2>3. t # {}
    <3>1. S \cap {} = {} /\ A \cap {} = {} /\ B \cap {} = {} OBVIOUS
    <3>2. Total(h, {}) = 0 /\ Total(f, {}) = 0 /\ Total(g, {}) = 0 BY FS_EmptySet, TotalChoice
    <3>3. t = {} => Total(h, S \cap t) <= Total(f, A \cap t) + Total(g, B \cap t)
      <4>. HIDE DEF Bad
      <4>. QED BY <3>1, <3>2
    <3>. QED BY <2>1, <3>3
  <2>4. PICK x \in t : TRUE BY <2>3
  <2>. DEFINE r == t \ {x}
  <2>5. r \notin Bad /\ r \in SUBSET U BY <2>1, <2>2, <2>4
  <2>6. Total(h, S \cap r) <= Total(f, A \cap r) + Total(g, B \cap r) BY <2>5
  <2>7. /\ Total(h, S \cap t) = (IF x \in S THEN h[x] ELSE 0) + Total(h, S \cap r)
        /\ Total(h, S \cap r) \in Nat
    BY <2>2, TotalPart
  <2>8. /\ Total(f, A \cap t) = (IF x \in A THEN f[x] ELSE 0) + Total(f, A \cap r)
        /\ Total(f, A \cap r) \in Nat
    BY <2>2, TotalPart
  <2>9. /\ Total(g, B \cap t) = (IF x \in B THEN g[x] ELSE 0) + Total(g, B \cap r)
        /\ Total(g, B \cap r) \in Nat
    BY <2>2, TotalPart
  <2>10. /\ x \in S => h[x] \in Nat
         /\ x \in A => f[x] \in Nat
         /\ x \in B => g[x] \in Nat
         /\ (IF x \in S THEN h[x] ELSE 0)
              <= (IF x \in A THEN f[x] ELSE 0) + (IF x \in B THEN g[x] ELSE 0)
    BY <2>2
  <2>11. Total(h, S \cap t) <= Total(f, A \cap t) + Total(g, B \cap t)
    <3>. HIDE DEF r
    <3>. QED BY <2>6, <2>7, <2>8, <2>9, <2>10
  <2>. QED BY <2>1, <2>11
<1>2. S \cap U = S /\ A \cap U = A /\ B \cap U = B /\ U \in SUBSET U OBVIOUS
<1>3. ~ (U \in Bad) BY <1>1
<1>4. Total(h, S \cap U) <= Total(f, A \cap U) + Total(g, B \cap U) BY <1>2, <1>3
<1>. QED BY <1>2, <1>4

\* More rows, none of them smaller: no smaller sum.
LEMMA TotalMonotone ==
  ASSUME NEW U, IsFiniteSet(U), NEW S \in SUBSET U, NEW f, NEW g,
         \A x \in S : f[x] \in Nat /\ f[x] <= g[x], \A x \in U : g[x] \in Nat
  PROVE  Total(f, S) <= Total(g, U)
<1>1. Total(f, S) <= Total(g, U) + Total(g, {})
  <2>1. \A x \in U : (IF x \in S THEN f[x] ELSE 0)
                       <= (IF x \in U THEN g[x] ELSE 0) + (IF x \in {} THEN g[x] ELSE 0)
    OBVIOUS
  <2>2. U \in SUBSET U /\ {} \in SUBSET U /\ \A x \in {} : g[x] \in Nat OBVIOUS
  <2>. QED BY <2>1, <2>2, TotalBound
<1>2. Total(g, {}) = 0 BY FS_EmptySet, TotalChoice
<1>3. Total(g, U) \in Nat BY TotalType
<1>. QED BY <1>1, <1>2, <1>3

\* Rows that are matched with others, each with one of its own that is no smaller: no greater sum.
LEMMA TotalMatched ==
  ASSUME NEW S, IsFiniteSet(S), NEW U, IsFiniteSet(U), NEW m \in [S -> U], \A x, y \in S : m[x] = m[y] => x = y,
         NEW f, NEW g, \A x \in S : f[x] \in Nat /\ f[x] <= g[m[x]], \A u \in U : g[u] \in Nat
  PROVE  Total(f, S) <= Total(g, U)
<1>. DEFINE Image(t) == {m[x] : x \in t}
            Bad == {t \in SUBSET S : ~ (Total(f, t) <= Total(g, Image(t)))}
<1>1. \A t \in SUBSET S : Image(t) \in SUBSET U /\ IsFiniteSet(Image(t)) /\ IsFiniteSet(t)
  <2>. SUFFICES ASSUME NEW t \in SUBSET S PROVE Image(t) \in SUBSET U /\ IsFiniteSet(Image(t)) /\ IsFiniteSet(t)
    OBVIOUS
  <2>1. Image(t) \in SUBSET U OBVIOUS
  <2>. QED BY <2>1, FS_Subset
<1>2. Bad = {}
  <2>. SUFFICES ASSUME Bad # {} PROVE FALSE OBVIOUS
  <2>1. PICK t \in Bad : \A u \in Bad : u \subseteq t => u = t
    <3>1. Bad \subseteq SUBSET S OBVIOUS
    <3>. HIDE DEF Bad
    <3>. QED BY <3>1, LeastSet
  <2>2. t \in SUBSET S /\ ~ (Total(f, t) <= Total(g, Image(t))) BY <2>1
  <2>3. t # {}
    <3>1. Image({}) = {} OBVIOUS
    <3>2. Total(f, {}) = 0 /\ Total(g, {}) = 0 BY FS_EmptySet, TotalChoice
    <3>. HIDE DEF Image
    <3>. QED BY <2>2, <3>1, <3>2
  <2>4. PICK x \in t : TRUE BY <2>3
  <2>5. t \ {x} \in SUBSET S /\ t \ {x} \notin Bad BY <2>1, <2>2, <2>4
  <2>6. Total(f, t \ {x}) <= Total(g, Image(t \ {x})) BY <2>5
  <2>7. Image(t \ {x}) = Image(t) \ {m[x]} /\ m[x] \in Image(t) BY <2>2, <2>4
  <2>8. f[x] \in Nat /\ g[m[x]] \in Nat /\ f[x] <= g[m[x]] BY <2>2, <2>4
  <2>9. Total(f, t) = f[x] + Total(f, t \ {x}) /\ Total(f, t \ {x}) \in Nat
    <3>1. \A y \in t : f[y] \in Nat BY <2>2
    <3>. QED BY <1>1, <2>2, <2>4, <2>5, <3>1, TotalRemove, TotalType
  <2>10. Total(g, Image(t)) = g[m[x]] + Total(g, Image(t) \ {m[x]}) /\ Total(g, Image(t) \ {m[x]}) \in Nat
    <3>. HIDE DEF Image
    <3>1. \A u \in Image(t) : g[u] \in Nat BY <1>1, <2>2
    <3>2. IsFiniteSet(Image(t)) /\ IsFiniteSet(Image(t) \ {m[x]}) BY <1>1, <2>2, FS_Subset
    <3>. QED BY <2>7, <3>1, <3>2, TotalRemove, TotalType
  <2>. HIDE DEF Image
  <2>11. Total(g, Image(t \ {x})) = Total(g, Image(t) \ {m[x]}) BY <2>7
  <2>. QED BY <2>2, <2>6, <2>8, <2>9, <2>10, <2>11
<1>3. Total(f, S) <= Total(g, Image(S))
  <2>1. S \notin Bad BY <1>2
  <2>. QED BY <2>1
<1>4. Total(g, Image(S)) <= Total(g, U)
  <2>1. Image(S) \in SUBSET U BY <1>1
  <2>. HIDE DEF Image
  <2>2. \A x \in Image(S) : g[x] \in Nat /\ g[x] <= g[x] BY <2>1
  <2>. QED BY <2>1, <2>2, TotalMonotone
<1>5. Total(f, S) \in Nat /\ Total(g, Image(S)) \in Nat /\ Total(g, U) \in Nat
  <2>1. IsFiniteSet(Image(S)) /\ Image(S) \in SUBSET U BY <1>1
  <2>. HIDE DEF Image
  <2>. QED BY <2>1, TotalType
<1>. HIDE DEF Image
<1>. QED BY <1>3, <1>4, <1>5
=============================================================================
