---------------------------- MODULE SumTheorems -----------------------------
(***************************************************************************)
(* Facts about recursion that the proofs of the components share: minima   *)
(* of sets of naturals, functions defined by recursion on a natural, and   *)
(* SumFunctionOnSet of the community modules.  Induction is by a minimal   *)
(* counterexample: WFMin and NatLessThanWellFounded of the library speak   *)
(* of sets, so the provers can apply them.                                 *)
(***************************************************************************)
EXTENDS FiniteSetsExt, NaturalsInduction, WellFoundedInduction,
        FiniteSetTheorems, TLAPS

(* A non-empty set of naturals, of heights or of cardinalities, has a least  *)
(* member.                                                                   *)
LEMMA NatMinimum ==
    ASSUME NEW T, T \subseteq Nat, T # {}
    PROVE  \E x \in T : \A y \in T : x <= y
  <1> DEFINE R == {ss \in Nat \X Nat : ss[1] < ss[2]}
  <1>1. IsWellFoundedOn(R, Nat)
    BY NatLessThanWellFounded DEF OpToRel
  <1> HIDE DEF R
  <1>2. \E x \in T : \A y \in T : ~(<<y, x>> \in R)
    BY <1>1, WFMin, Zenon
  <1>3. ASSUME NEW x \in T, NEW y \in T, <<y, x>> \notin R PROVE x <= y
    BY <1>3 DEF R
  <1> QED  BY <1>2, <1>3, Zenon

(* Induction on a natural, for membership in a set.                          *)
LEMMA NatSetInduction ==
    ASSUME NEW T, 0 \in T, \A n \in Nat : n \in T => n + 1 \in T
    PROVE  Nat \subseteq T
  <1> SUFFICES ASSUME Nat \ T # {} PROVE FALSE
    OBVIOUS
  <1>1. PICK x \in Nat \ T : \A y \in Nat \ T : x <= y
    BY NatMinimum, Zenon
  <1>2. x - 1 \in Nat /\ x - 1 \in T
    BY <1>1
  <1> QED  BY <1>1, <1>2

(* A loop of n rounds has a value after each round: the function that a      *)
(* recursive definition on 0..n names exists, and has the type of its steps. *)
LEMMA LoopExists ==
    ASSUME NEW S, NEW b \in S, NEW n \in Nat, NEW g \in [1..n -> [S -> S]]
    PROVE  \E f \in [0..n -> S] :
              f[0] = b /\ \A k \in 1..n : f[k] = g[k][f[k - 1]]
  <1> DEFINE Rounds(f, m) == f[0] = b /\ \A k \in 1..m : f[k] = g[k][f[k - 1]]
             T == {m \in Nat : m <= n => \E f \in [0..m -> S] : Rounds(f, m)}
  <1>1. 0 \in T
    <2>1. /\ [k \in 0..0 |-> b] \in [0..0 -> S]
          /\ Rounds([k \in 0..0 |-> b], 0)
      OBVIOUS
    <2> HIDE DEF Rounds
    <2> QED  BY <2>1
  <1>2. ASSUME NEW m \in Nat, m \in T PROVE m + 1 \in T
    <2> SUFFICES ASSUME m + 1 <= n PROVE \E f \in [0..(m + 1) -> S] : Rounds(f, m + 1)
      OBVIOUS
    <2>1. PICK f \in [0..m -> S] : Rounds(f, m)
      BY <1>2
    <2> DEFINE h == [k \in 0..(m + 1) |-> IF k = m + 1 THEN g[k][f[m]] ELSE f[k]]
    <2>2. h \in [0..(m + 1) -> S]
      BY <2>1
    <2>3. Rounds(h, m + 1)
      BY <2>1
    <2> HIDE DEF h, Rounds
    <2> QED  BY <2>2, <2>3
  <1> HIDE DEF T
  <1>3. n \in T
    BY <1>1, <1>2, NatSetInduction
  <1> QED  BY <1>3 DEF T

(* A non-empty collection of finite sets has a smallest member.              *)
LEMMA SmallestSet ==
    ASSUME NEW B, B # {}, \A s \in B : IsFiniteSet(s)
    PROVE  \E s \in B : \A t \in B : Cardinality(s) <= Cardinality(t)
  <1> DEFINE T == {Cardinality(s) : s \in B}
  <1>1. T # {} /\ T \subseteq Nat
    BY FS_CardinalityType
  <1> HIDE DEF T
  <1>2. PICK n \in T : \A m \in T : n <= m
    BY <1>1, NatMinimum, Zenon
  <1>3. \A s \in B : Cardinality(s) \in T
    BY DEF T
  <1>4. PICK s \in B : n = Cardinality(s)
    BY <1>2 DEF T
  <1> QED  BY <1>2, <1>3, <1>4

-----------------------------------------------------------------------------
(* The function that the fold of SumFunctionOnSet(f, S) iterates.            *)
IsSum(it, f, S) ==
    it = [s \in SUBSET S |->
            IF s = {} THEN 0
            ELSE f[CHOOSE x \in s : TRUE] + it[s \ {CHOOSE x \in s : TRUE}]]

(* Two folds agree on a finite set on which the summed functions agree.      *)
LEMMA SumUnique ==
    ASSUME NEW S, NEW R, NEW U, IsFiniteSet(U), U \subseteq S, U \subseteq R,
           NEW f, NEW g, \A x \in U : f[x] = g[x],
           NEW it, IsSum(it, f, S), NEW jt, IsSum(jt, g, R)
    PROVE  it[U] = jt[U]
  <1> DEFINE Bad == {s \in SUBSET U : it[s] # jt[s]}
  <1> SUFFICES ASSUME Bad # {} PROVE FALSE
    OBVIOUS
  <1>1. \A s \in SUBSET U : IsFiniteSet(s) /\ Cardinality(s) \in Nat
    BY FS_Subset, FS_CardinalityType
  <1>3. PICK s \in Bad : \A t \in Bad : Cardinality(s) <= Cardinality(t)
    <2> HIDE DEF Bad
    <2>1. \A s \in Bad : IsFiniteSet(s)
      BY <1>1 DEF Bad
    <2> QED  BY <2>1, SmallestSet
  <1> DEFINE x == CHOOSE x \in s : TRUE
  <1>4. s # {}
    BY <1>3 DEF IsSum
  <1>5. x \in s
    BY <1>4
  <1>6. it[s] = f[x] + it[s \ {x}] /\ jt[s] = g[x] + jt[s \ {x}]
    BY <1>3, <1>4 DEF IsSum
  <1> HIDE DEF x
  <1>7. Cardinality(s \ {x}) = Cardinality(s) - 1
    BY <1>1, <1>5, FS_RemoveElement
  <1>8. s \ {x} \in SUBSET U /\ s \ {x} \notin Bad
    BY <1>1, <1>3, <1>7
  <1> QED  BY <1>3, <1>5, <1>6, <1>8

(* The fold exists, and its values are integers when the summands are.       *)
LEMMA SumExists ==
    ASSUME NEW S, IsFiniteSet(S), NEW f, \A x \in S : f[x] \in Int
    PROVE  \E it \in [SUBSET S -> Int] : IsSum(it, f, S)
  <1> DEFINE Up(n) == {s \in SUBSET S : Cardinality(s) <= n}
             Pick(s) == CHOOSE x \in s : TRUE
             Fold(it, n) == \A s \in Up(n) :
                 it[s] = IF s = {} THEN 0 ELSE f[Pick(s)] + it[s \ {Pick(s)}]
             T == {n \in Nat : \E it \in [Up(n) -> Int] : Fold(it, n)}
  <1>1. \A s \in SUBSET S : IsFiniteSet(s) /\ Cardinality(s) \in Nat
    BY FS_Subset, FS_CardinalityType
  <1>2. ASSUME NEW s \in SUBSET S, s # {}
        PROVE  /\ Pick(s) \in s /\ Cardinality(s \ {Pick(s)}) = Cardinality(s) - 1
               /\ f[Pick(s)] \in Int
    <2>1. Pick(s) \in s
      BY <1>2
    <2> HIDE DEF Pick
    <2> QED  BY <1>1, <2>1, FS_RemoveElement
  <1> HIDE DEF Pick
  <1>3. 0 \in T
    <2> DEFINE it == [s \in Up(0) |-> 0]
    <2>1. \A s \in Up(0) : s = {}
      BY <1>1, FS_EmptySet
    <2>2. it \in [Up(0) -> Int] /\ Fold(it, 0)
      BY <2>1
    <2> HIDE DEF it, Fold, Up
    <2> QED  BY <2>2
  <1>4. ASSUME NEW n \in Nat, n \in T PROVE n + 1 \in T
    <2>1. PICK it \in [Up(n) -> Int] : Fold(it, n)
      BY <1>4, Zenon
    <2> DEFINE jt == [s \in Up(n + 1) |->
                        IF s \in Up(n) THEN it[s] ELSE f[Pick(s)] + it[s \ {Pick(s)}]]
    <2>2. \A s \in Up(n + 1) : s # {} => s \ {Pick(s)} \in Up(n)
      BY <1>1, <1>2
    <2>3. {} \in Up(n) /\ Up(n) \subseteq Up(n + 1)
      BY <1>1, FS_EmptySet
    <2>4. jt \in [Up(n + 1) -> Int]
      <3> HIDE DEF Up
      <3> SUFFICES ASSUME NEW s \in Up(n + 1) PROVE jt[s] \in Int
        OBVIOUS
      <3>1. s # {} => f[Pick(s)] \in Int
        BY <1>2 DEF Up
      <3>2. CASE s \in Up(n)
        BY <3>2
      <3>3. CASE s \notin Up(n)
        <4>1. s # {} /\ s \ {Pick(s)} \in Up(n)
          BY <2>2, <2>3, <3>3, Zenon
        <4>2. it[s \ {Pick(s)}] \in Int /\ f[Pick(s)] \in Int
          BY <3>1, <4>1
        <4> QED  BY <3>3, <4>2
      <3> QED  BY <3>2, <3>3
    <2>5. Fold(jt, n + 1)
      <3> SUFFICES ASSUME NEW s \in Up(n + 1)
                   PROVE  jt[s] = IF s = {} THEN 0 ELSE f[Pick(s)] + jt[s \ {Pick(s)}]
        BY Zenon
      <3>1. s # {} => jt[s \ {Pick(s)}] = it[s \ {Pick(s)}]
        <4> HIDE DEF Up
        <4> QED  BY <2>2, <2>3
      <3>2. s \in Up(n) => it[s] = IF s = {} THEN 0 ELSE f[Pick(s)] + it[s \ {Pick(s)}]
        BY <2>1
      <3> HIDE DEF Up
      <3> QED  BY <2>3, <3>1, <3>2, Zenon
    <2> HIDE DEF jt, Fold, Up
    <2> QED  BY <2>4, <2>5
  <1> HIDE DEF T
  <1>5. Cardinality(S) \in T
    BY <1>1, <1>3, <1>4, NatSetInduction
  <1>6. Up(Cardinality(S)) = SUBSET S
    BY <1>1, FS_Subset
  <1>7. PICK it \in [SUBSET S -> Int] : Fold(it, Cardinality(S))
    BY <1>5, <1>6, Zenon DEF T
  <1>8. IsSum(it, f, S)
    BY <1>6, <1>7 DEF IsSum, Pick
  <1> QED  BY <1>8

(* SumFunctionOnSet is that fold.                                            *)
LEMMA SumIsFold ==
    ASSUME NEW S, IsFiniteSet(S), NEW f, \A x \in S : f[x] \in Int
    PROVE  \E it \in [SUBSET S -> Int] :
              IsSum(it, f, S) /\ SumFunctionOnSet(f, S) = it[S]
  <1> DEFINE it == CHOOSE it : IsSum(it, f, S)
  <1>1. SumFunctionOnSet(f, S) = it[S]
    BY DEF SumFunctionOnSet, FoldFunctionOnSet, MapThenFoldSet, IsSum
  <1>2. PICK jt \in [SUBSET S -> Int] : IsSum(jt, f, S)
    BY SumExists, Zenon
  <1>3. IsSum(it, f, S)
    BY <1>2
  <1> HIDE DEF it
  <1>4. \A s \in SUBSET S : it[s] = jt[s]
    <2> SUFFICES ASSUME NEW s \in SUBSET S PROVE it[s] = jt[s]
      OBVIOUS
    <2>1. IsFiniteSet(s)
      BY FS_Subset
    <2> QED  BY <1>2, <1>3, <2>1, SumUnique
  <1>5. it \in [SUBSET S -> Int]
    BY <1>2, <1>3, <1>4 DEF IsSum
  <1> QED  BY <1>1, <1>3, <1>5

-----------------------------------------------------------------------------
(* A sum of integers is an integer, and nothing sums to 0.                   *)
LEMMA SumInt ==
    ASSUME NEW S, IsFiniteSet(S), NEW f, \A x \in S : f[x] \in Int
    PROVE  SumFunctionOnSet(f, S) \in Int
  <1>1. PICK it \in [SUBSET S -> Int] :
              IsSum(it, f, S) /\ SumFunctionOnSet(f, S) = it[S]
    BY SumIsFold, Zenon
  <1> QED  BY <1>1

(* The sum over the empty set.                                               *)
LEMMA SumEmpty ==
    ASSUME NEW f
    PROVE  SumFunctionOnSet(f, {}) = 0
  <1>1. IsFiniteSet({}) /\ \A x \in {} : f[x] \in Int
    BY FS_EmptySet
  <1>2. PICK it \in [SUBSET {} -> Int] :
              IsSum(it, f, {}) /\ SumFunctionOnSet(f, {}) = it[{}]
    BY <1>1, SumIsFold, Zenon
  <1> QED  BY <1>2 DEF IsSum

(* A sum depends on the summands of its set only.                            *)
LEMMA SumAgree ==
    ASSUME NEW S, IsFiniteSet(S), NEW f, NEW g,
           \A x \in S : f[x] \in Int /\ f[x] = g[x]
    PROVE  SumFunctionOnSet(f, S) = SumFunctionOnSet(g, S)
  <1>1. PICK it \in [SUBSET S -> Int] :
              IsSum(it, f, S) /\ SumFunctionOnSet(f, S) = it[S]
    BY SumIsFold
  <1>2. \A x \in S : g[x] \in Int
    OBVIOUS
  <1>3. PICK jt \in [SUBSET S -> Int] :
              IsSum(jt, g, S) /\ SumFunctionOnSet(g, S) = jt[S]
    BY <1>2, SumIsFold, Zenon
  <1> QED  BY <1>1, <1>3, SumUnique

(* One step of the fold, in terms of the sum of the rest.                    *)
LEMMA SumPick ==
    ASSUME NEW S, IsFiniteSet(S), S # {}, NEW f, \A x \in S : f[x] \in Int
    PROVE  \E x \in S : SumFunctionOnSet(f, S) = f[x] + SumFunctionOnSet(f, S \ {x})
  <1> DEFINE x == CHOOSE x \in S : TRUE
             R == S \ {x}
  <1>1. PICK it \in [SUBSET S -> Int] :
              IsSum(it, f, S) /\ SumFunctionOnSet(f, S) = it[S]
    BY SumIsFold, Zenon
  <1>2. x \in S
    OBVIOUS
  <1>3. it[S] = f[x] + it[R]
    BY <1>1 DEF IsSum
  <1> HIDE DEF x
  <1>4. IsFiniteSet(R) /\ R \subseteq S
    BY FS_Subset
  <1> HIDE DEF R
  <1>5. PICK jt \in [SUBSET R -> Int] :
              IsSum(jt, f, R) /\ SumFunctionOnSet(f, R) = jt[R]
    BY <1>4, SumIsFold, Zenon
  <1>6. it[R] = jt[R]
    BY <1>1, <1>4, <1>5, SumUnique
  <1> QED  BY <1>1, <1>2, <1>3, <1>5, <1>6, Zenon DEF R

(* A sum is any one of its summands and the sum of the others, whichever the *)
(* fold takes first.                                                         *)
LEMMA SumRemove ==
    ASSUME NEW S, IsFiniteSet(S), NEW f, \A x \in S : f[x] \in Int, NEW y \in S
    PROVE  SumFunctionOnSet(f, S) = f[y] + SumFunctionOnSet(f, S \ {y})
  <1> DEFINE Sum(s) == SumFunctionOnSet(f, s)
             Bad == {s \in SUBSET S : \E z \in s : Sum(s) # f[z] + Sum(s \ {z})}
  <1>1. \A s \in SUBSET S : /\ IsFiniteSet(s) /\ Cardinality(s) \in Nat
                            /\ \A z \in s : Cardinality(s \ {z}) = Cardinality(s) - 1
    BY FS_Subset, FS_CardinalityType, FS_RemoveElement
  <1>2. \A s \in SUBSET S : Sum(s) \in Int
    BY <1>1, SumInt, SMTT(30)
  <1>3. ASSUME NEW s \in SUBSET S, s # {}
        PROVE  \E x \in s : Sum(s) = f[x] + Sum(s \ {x})
    BY <1>1, <1>3, SumPick, Zenon
  <1> HIDE DEF Sum
  <1> SUFFICES ASSUME Bad # {} PROVE FALSE
    BY Zenon DEF Sum
  <1>4. PICK s \in Bad : \A t \in Bad : Cardinality(s) <= Cardinality(t)
    <2> HIDE DEF Bad
    <2>1. \A s \in Bad : IsFiniteSet(s)
      BY <1>1 DEF Bad
    <2> QED  BY <2>1, SmallestSet
  <1>5. PICK z \in s : Sum(s) # f[z] + Sum(s \ {z})
    BY <1>4
  <1>6. PICK x \in s : Sum(s) = f[x] + Sum(s \ {x})
    BY <1>3, <1>4, <1>5
  <1>7. x # z
    BY <1>5, <1>6, Zenon
  <1>8. s \ {x} \in SUBSET S /\ s \ {z} \in SUBSET S
    BY <1>4
  <1>9. s \ {x} \notin Bad /\ s \ {z} \notin Bad
    <2>1. /\ Cardinality(s) \in Nat
          /\ Cardinality(s \ {x}) = Cardinality(s) - 1
          /\ Cardinality(s \ {z}) = Cardinality(s) - 1
      BY <1>1, <1>4
    <2> HIDE DEF Bad
    <2> QED  BY <1>4, <2>1
  <1>10. Sum(s \ {x}) = f[z] + Sum((s \ {x}) \ {z})
    BY <1>5, <1>7, <1>8, <1>9, Zenon
  <1>11. Sum(s \ {z}) = f[x] + Sum((s \ {z}) \ {x})
    BY <1>6, <1>7, <1>8, <1>9, Zenon
  <1>12. (s \ {x}) \ {z} = (s \ {z}) \ {x} /\ (s \ {x}) \ {z} \in SUBSET S
    BY <1>8
  <1>13. f[x] \in Int /\ f[z] \in Int /\ Sum((s \ {x}) \ {z}) \in Int
    BY <1>2, <1>4, <1>12
  <1> QED  BY <1>5, <1>6, <1>10, <1>11, <1>12, <1>13

(* Changing one summand changes the sum by the difference.                   *)
LEMMA SumChange ==
    ASSUME NEW S, IsFiniteSet(S), NEW f, \A x \in S : f[x] \in Int,
           NEW g, NEW y \in S, g[y] \in Int, \A x \in S \ {y} : g[x] = f[x]
    PROVE  SumFunctionOnSet(g, S) = SumFunctionOnSet(f, S) + g[y] - f[y]
  <1>1. IsFiniteSet(S \ {y})
    BY FS_Subset
  <1>2. SumFunctionOnSet(f, S) = f[y] + SumFunctionOnSet(f, S \ {y})
    BY SumRemove
  <1>3. SumFunctionOnSet(g, S) = g[y] + SumFunctionOnSet(g, S \ {y})
    <2>1. \A x \in S : g[x] \in Int
      OBVIOUS
    <2> QED  BY <2>1, SumRemove
  <1>4. SumFunctionOnSet(f, S \ {y}) = SumFunctionOnSet(g, S \ {y})
    BY <1>1, SumAgree
  <1>5. SumFunctionOnSet(f, S \ {y}) \in Int
    BY <1>1, SumInt
  <1> QED  BY <1>2, <1>3, <1>4, <1>5

(* A sum is monotone in its summands.                                        *)
LEMMA SumMonotone ==
    ASSUME NEW S, IsFiniteSet(S), NEW f, NEW g,
           \A x \in S : f[x] \in Int /\ g[x] \in Int /\ f[x] <= g[x]
    PROVE  SumFunctionOnSet(f, S) <= SumFunctionOnSet(g, S)
  <1> DEFINE F(s) == SumFunctionOnSet(f, s)
             G(s) == SumFunctionOnSet(g, s)
             Bad == {s \in SUBSET S : ~(F(s) <= G(s))}
  <1>1. \A s \in SUBSET S : IsFiniteSet(s) /\ Cardinality(s) \in Nat
    BY FS_Subset, FS_CardinalityType
  <1>2. \A s \in SUBSET S : F(s) \in Int /\ G(s) \in Int
    BY <1>1, SumInt
  <1>3. ASSUME NEW s \in SUBSET S, NEW x \in s
        PROVE  /\ F(s) = f[x] + F(s \ {x}) /\ G(s) = g[x] + G(s \ {x})
               /\ Cardinality(s \ {x}) = Cardinality(s) - 1
    BY <1>1, SumRemove, FS_RemoveElement, Zenon
  <1>4. F({}) = 0 /\ G({}) = 0
    BY SumEmpty
  <1> HIDE DEF F, G
  <1> SUFFICES ASSUME Bad # {} PROVE FALSE
    BY DEF F, G
  <1>5. PICK s \in Bad : \A t \in Bad : Cardinality(s) <= Cardinality(t)
    <2> HIDE DEF Bad
    <2>1. \A s \in Bad : IsFiniteSet(s)
      BY <1>1 DEF Bad
    <2> QED  BY <2>1, SmallestSet
  <1>6. PICK x \in s : TRUE
    BY <1>4, <1>5
  <1>7. s \ {x} \in SUBSET S /\ s \ {x} \notin Bad
    BY <1>1, <1>3, <1>5, <1>6
  <1> QED  BY <1>2, <1>3, <1>5, <1>6, <1>7

(* A sum of zeros is 0.                                                      *)
LEMMA SumZero ==
    ASSUME NEW S, IsFiniteSet(S), NEW f, \A x \in S : f[x] = 0
    PROVE  SumFunctionOnSet(f, S) = 0
  <1> DEFINE F(s) == SumFunctionOnSet(f, s)
             Bad == {s \in SUBSET S : F(s) # 0}
  <1>1. \A s \in SUBSET S : IsFiniteSet(s) /\ Cardinality(s) \in Nat
    BY FS_Subset, FS_CardinalityType
  <1>2. ASSUME NEW s \in SUBSET S, NEW x \in s
        PROVE  /\ F(s) = f[x] + F(s \ {x})
               /\ Cardinality(s \ {x}) = Cardinality(s) - 1
    <2>1. \A y \in s : f[y] \in Int
      OBVIOUS
    <2> QED  BY <1>1, <2>1, SumRemove, FS_RemoveElement, SMTT(30)
  <1>3. F({}) = 0
    BY SumEmpty
  <1> HIDE DEF F
  <1> SUFFICES ASSUME Bad # {} PROVE FALSE
    BY DEF F
  <1>4. PICK s \in Bad : \A t \in Bad : Cardinality(s) <= Cardinality(t)
    <2> HIDE DEF Bad
    <2>1. \A s \in Bad : IsFiniteSet(s)
      BY <1>1 DEF Bad
    <2> QED  BY <2>1, SmallestSet
  <1>5. PICK x \in s : TRUE
    BY <1>3, <1>4
  <1>6. s \ {x} \in SUBSET S /\ s \ {x} \notin Bad
    BY <1>1, <1>2, <1>4, <1>5
  <1> QED  BY <1>2, <1>4, <1>5, <1>6

(* A sum of naturals is a natural, and at least each of them.                *)
LEMMA SumNat ==
    ASSUME NEW S, IsFiniteSet(S), NEW f, \A x \in S : f[x] \in Nat
    PROVE  /\ SumFunctionOnSet(f, S) \in Nat
           /\ \A y \in S : f[y] <= SumFunctionOnSet(f, S)
  <1>1. ASSUME NEW s \in SUBSET S
        PROVE  SumFunctionOnSet(f, s) \in Nat
    <2> DEFINE z == [x \in s |-> 0]
    <2>1. IsFiniteSet(s)
      BY FS_Subset
    <2>2. \A x \in s : z[x] = 0 /\ z[x] <= f[x] /\ z[x] \in Int /\ f[x] \in Int
      OBVIOUS
    <2> HIDE DEF z
    <2>3. SumFunctionOnSet(z, s) = 0
      BY <2>1, <2>2, SumZero
    <2>4. SumFunctionOnSet(z, s) <= SumFunctionOnSet(f, s)
      BY <2>1, <2>2, SumMonotone
    <2>5. SumFunctionOnSet(f, s) \in Int
      BY <2>1, <2>2, SumInt
    <2> QED  BY <2>3, <2>4, <2>5
  <1>2. ASSUME NEW y \in S PROVE f[y] <= SumFunctionOnSet(f, S)
    <2>1. SumFunctionOnSet(f, S) = f[y] + SumFunctionOnSet(f, S \ {y})
      <3>1. \A x \in S : f[x] \in Int
        OBVIOUS
      <3> QED  BY <3>1, SumRemove
    <2>2. SumFunctionOnSet(f, S \ {y}) \in Nat
      BY <1>1
    <2> QED  BY <2>1, <2>2
  <1> QED  BY <1>1, <1>2


(* A sum splits along a subset of its set.                                   *)
LEMMA SumSplit ==
    ASSUME NEW S, IsFiniteSet(S), NEW f, \A x \in S : f[x] \in Int,
           NEW D \in SUBSET S
    PROVE  SumFunctionOnSet(f, S) =
               SumFunctionOnSet(f, D) + SumFunctionOnSet(f, S \ D)
  <1> DEFINE F(s) == SumFunctionOnSet(f, s)
             Bad == {s \in SUBSET S : F(S) # F(s) + F(S \ s)}
  <1>1. \A s \in SUBSET S : IsFiniteSet(s) /\ Cardinality(s) \in Nat
    BY FS_Subset, FS_CardinalityType
  <1>2. \A s \in SUBSET S : F(s) \in Int
    BY <1>1, SumInt
  <1>3. ASSUME NEW s \in SUBSET S, NEW x \in s
        PROVE  /\ F(s) = f[x] + F(s \ {x})
               /\ Cardinality(s \ {x}) = Cardinality(s) - 1
    BY <1>1, SumRemove, FS_RemoveElement, Zenon
  <1>4. F({}) = 0
    BY SumEmpty
  <1> HIDE DEF F
  <1> SUFFICES ASSUME Bad # {} PROVE FALSE
    BY DEF F
  <1>5. PICK s \in Bad : \A t \in Bad : Cardinality(s) <= Cardinality(t)
    <2> HIDE DEF Bad
    <2>1. \A s \in Bad : IsFiniteSet(s)
      BY <1>1 DEF Bad
    <2> QED  BY <2>1, SmallestSet
  <1>6. PICK x \in s : TRUE
    <2>1. S \ {} = S OBVIOUS
    <2> QED  BY <1>2, <1>4, <1>5, <2>1
  <1> DEFINE t == s \ {x}
             R == S \ t
  <1>7. t \in SUBSET S /\ R \in SUBSET S /\ x \in R /\ R \ {x} = S \ s /\ f[x] \in Int
    BY <1>5, <1>6
  <1>8. Cardinality(t) < Cardinality(s)
    BY <1>1, <1>3, <1>5, <1>6
  <1>9. F(S) = F(t) + F(R)
    BY <1>1, <1>5, <1>7, <1>8
  <1>10. F(s) = f[x] + F(t) /\ F(R) = f[x] + F(S \ s)
    BY <1>3, <1>5, <1>6, <1>7
  <1>11. F(S) # F(s) + F(S \ s)
    BY <1>5
  <1>12. F(t) \in Int /\ F(R) \in Int /\ F(S \ s) \in Int
    BY <1>2, <1>7
  <1> HIDE DEF t, R
  <1> QED  BY <1>7, <1>9, <1>10, <1>11, <1>12

(* A sum of naturals over a subset is no larger.                             *)
LEMMA SumSubset ==
    ASSUME NEW S, IsFiniteSet(S), NEW f, \A x \in S : f[x] \in Nat,
           NEW D \in SUBSET S
    PROVE  SumFunctionOnSet(f, D) <= SumFunctionOnSet(f, S)
  <1>1. SumFunctionOnSet(f, S) =
            SumFunctionOnSet(f, D) + SumFunctionOnSet(f, S \ D)
    <2>1. \A x \in S : f[x] \in Int OBVIOUS
    <2> QED  BY <2>1, SumSplit
  <1>2. IsFiniteSet(D) /\ IsFiniteSet(S \ D)
    BY FS_Subset
  <1>3. SumFunctionOnSet(f, D) \in Nat /\ SumFunctionOnSet(f, S \ D) \in Nat
    BY <1>2, SumNat
  <1> QED  BY <1>1, <1>3
=============================================================================
