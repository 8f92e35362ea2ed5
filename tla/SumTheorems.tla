----------------------------- MODULE SumTheorems -----------------------------
(***************************************************************************)
(* Induction, and sums over finite sets.  The induction theorems of the    *)
(* library speak of an operator; here they are stated of a set, which a    *)
(* proof can build.  From them: the sums the models take with              *)
(* MapThenSumSet unfold one element at a time, in whatever order, and grow *)
(* with their terms.                                                       *)
(***************************************************************************)
EXTENDS Integers, FiniteSets, FiniteSetsExt, FiniteSetTheorems,
        NaturalsInduction, WellFoundedInduction, TLAPS

(* Least number principle.                                                  *)
LEMMA LeastNatural ==
  ASSUME NEW S \in SUBSET Nat, S # {}
  PROVE  \E m \in S : \A k \in S : m <= k
<1>1. \E R : IsWellFoundedOn(R, Nat) /\ \A k, m \in Nat : k < m => << k, m >> \in R
  <2>1. IsWellFoundedOn(OpToRel(<, Nat), Nat)
    BY NatLessThanWellFounded
  <2>2. \A k, m \in Nat : k < m => << k, m >> \in OpToRel(<, Nat)
    BY DEF OpToRel
  <2> QED BY <2>1, <2>2
<1>2. PICK R : IsWellFoundedOn(R, Nat) /\ \A k, m \in Nat : k < m => << k, m >> \in R
  BY <1>1
<1>3. PICK m \in S : \A k \in S : ~ (<< k, m >> \in R)
  <2>1. S \subseteq Nat
    OBVIOUS
  <2>2. IsWellFoundedOn(R, Nat)
    BY <1>2
  <2> QED BY <2>1, <2>2, WFMin, Zenon
<1>4. ASSUME NEW k \in S, ~(m <= k) PROVE FALSE
  <2>1. k \in Nat /\ m \in Nat /\ k < m
    BY <1>4
  <2>2. << k, m >> \in R
    BY <1>2, <2>1, Zenon
  <2> QED BY <1>3, <2>2, Zenon
<1> QED BY <1>4

(* A set of subsets of S that holds the empty set, and with each of its     *)
(* members whatever is one element larger, holds S.                         *)
LEMMA SetInduction ==
  ASSUME NEW S, IsFiniteSet(S), NEW P,
         {} \in P, \A s \in SUBSET S : \A x \in S \ s : s \in P => s \cup {x} \in P
  PROVE  \A s \in SUBSET S : s \in P
<1> SUFFICES ASSUME NEW s0 \in SUBSET S, s0 \notin P PROVE FALSE
  OBVIOUS
<1> DEFINE Sizes == {Cardinality(s) : s \in {t \in SUBSET S : t \notin P}}
<1>1. \A s \in SUBSET S : IsFiniteSet(s) /\ Cardinality(s) \in Nat
  BY FS_Subset, FS_CardinalityType
<1>2. Sizes \in SUBSET Nat /\ Sizes # {}
  BY <1>1
<1>3. PICK m \in Sizes : \A k \in Sizes : m <= k
  <2> HIDE DEF Sizes
  <2> QED BY <1>2, LeastNatural
<1>4. PICK s \in SUBSET S : m = Cardinality(s) /\ s \notin P
  OBVIOUS
<1>5. PICK x : x \in s
  BY <1>4
<1>6. s \ {x} \in SUBSET S /\ Cardinality(s \ {x}) = Cardinality(s) - 1
  BY <1>1, <1>5, FS_RemoveElement
<1>7. s \ {x} \in P
  <2> SUFFICES ASSUME s \ {x} \notin P PROVE FALSE
    OBVIOUS
  <2>1. Cardinality(s \ {x}) \in Sizes
    BY <1>6
  <2>2. m <= Cardinality(s \ {x})
    <3> HIDE DEF Sizes
    <3> QED BY <1>3, <2>1
  <2>3. Cardinality(s) \in Nat
    BY <1>1
  <2> QED BY <1>4, <1>6, <2>2, <2>3
<1>8. (s \ {x}) \cup {x} = s /\ x \in S \ (s \ {x})
  BY <1>5
<1>9. (s \ {x}) \cup {x} \in P
  BY <1>6, <1>7, <1>8
<1> QED BY <1>4, <1>8, <1>9
-----------------------------------------------------------------------------
(* The sum of f over S.                                                     *)
SumOver(f, S) == MapThenSumSet(LAMBDA x : f[x], S)

SumPart(f, it, s) == IF s = {} THEN 0 ELSE f[CHOOSE x \in s : TRUE] + it[s \ {CHOOSE x \in s : TRUE}]

Sums(f, S, it) == it = [s \in SUBSET S |-> SumPart(f, it, s)]

Summable(f, S) == IsFiniteSet(S) /\ \A x \in S : f[x] \in Int

LEMMA SumIsChosen ==
  ASSUME NEW f, NEW S
  PROVE  SumOver(f, S) = (CHOOSE it : Sums(f, S, it))[S]
<1> DEFINE Body(it) == [s \in SUBSET S |->
                          IF s = {} THEN 0
                          ELSE f[CHOOSE x \in s : TRUE] + it[s \ {CHOOSE x \in s : TRUE}]]
<1>1. SumOver(f, S) = (CHOOSE it : it = Body(it))[S]
  BY DEF SumOver, MapThenSumSet, MapThenFoldSet
<1>2. ASSUME NEW it PROVE Sums(f, S, it) <=> it = Body(it)
  BY DEF Sums, SumPart
<1>3. (CHOOSE it : it = Body(it)) = (CHOOSE it : Sums(f, S, it))
  <2> HIDE DEF Body
  <2> QED BY <1>2
<1> QED BY <1>1, <1>3

(* The recursion of the sum has a solution.                                 *)
LEMMA SumsExist ==
  ASSUME NEW f, NEW S, Summable(f, S)
  PROVE  \E it : Sums(f, S, it) /\ it \in [SUBSET S -> Int]
<1> DEFINE UpTo(it, k) == /\ it \in [SUBSET S -> Int]
                          /\ \A s \in SUBSET S : Cardinality(s) < k => it[s] = SumPart(f, it, s)
           Bad == {k \in Nat : \A it : ~UpTo(it, k)}
<1>0. \A s \in SUBSET S : IsFiniteSet(s) /\ Cardinality(s) \in Nat
  BY FS_Subset, FS_CardinalityType DEF Summable
<1>1. Bad = {}
  <2> SUFFICES ASSUME Bad # {} PROVE FALSE
    OBVIOUS
  <2>1. PICK k \in Bad : \A j \in Bad : k <= j
    <3>1. Bad \in SUBSET Nat
      OBVIOUS
    <3> HIDE DEF Bad
    <3> QED BY <3>1, LeastNatural
  <2>2. k \in Nat /\ \A it : ~UpTo(it, k)
    OBVIOUS
  <2>3. k # 0
    <3>1. UpTo([s \in SUBSET S |-> 0], 0)
      BY <1>0
    <3> HIDE DEF UpTo
    <3> QED BY <2>2, <3>1
  <2>4. k - 1 \in Nat /\ k - 1 \notin Bad
    <3> HIDE DEF Bad
    <3> QED BY <2>1, <2>2, <2>3
  <2>5. PICK it : UpTo(it, k - 1)
    <3> HIDE DEF UpTo
    <3> QED BY <2>4
  <2> DEFINE h == [s \in SUBSET S |-> IF Cardinality(s) < k - 1 THEN it[s] ELSE SumPart(f, it, s)]
  <2>6. ASSUME NEW s \in SUBSET S PROVE SumPart(f, it, s) \in Int
    <3>1. PICK x : x = CHOOSE y \in s : TRUE
      OBVIOUS
    <3>2. s # {} => x \in s /\ f[x] \in Int /\ it[s \ {x}] \in Int
      BY <2>5, <3>1 DEF Summable
    <3> QED BY <3>1, <3>2 DEF SumPart
  <2>7. h \in [SUBSET S -> Int]
    BY <2>5, <2>6
  <2>8. ASSUME NEW s \in SUBSET S, Cardinality(s) < k PROVE h[s] = SumPart(f, h, s)
    <3>1. h[s] = SumPart(f, it, s)
      BY <2>5
    <3>2. CASE s = {}
      BY <3>1, <3>2 DEF SumPart
    <3>3. CASE s # {}
      <4>1. PICK x : x = CHOOSE y \in s : TRUE
        OBVIOUS
      <4>2. x \in s
        BY <3>3, <4>1
      <4>3. s \ {x} \in SUBSET S /\ Cardinality(s \ {x}) = Cardinality(s) - 1
        BY <1>0, <4>2, FS_RemoveElement
      <4>4. Cardinality(s \ {x}) < k - 1
        BY <1>0, <2>2, <2>8, <4>3
      <4>5. h[s \ {x}] = it[s \ {x}]
        BY <4>3, <4>4
      <4> HIDE DEF h
      <4> QED BY <3>1, <4>1, <4>5 DEF SumPart
    <3> QED BY <3>2, <3>3
  <2>9. UpTo(h, k)
    <3> HIDE DEF h
    <3> QED BY <2>7, <2>8
  <2> HIDE DEF UpTo, h
  <2> QED BY <2>2, <2>9
<1>2. Cardinality(S) + 1 \in Nat
  BY <1>0
<1>3. PICK it : UpTo(it, Cardinality(S) + 1)
  <2> HIDE DEF UpTo
  <2> QED BY <1>1, <1>2
<1>4. \A s \in SUBSET S : Cardinality(s) < Cardinality(S) + 1
  <2>1. \A s \in SUBSET S : Cardinality(s) <= Cardinality(S)
    BY FS_Subset DEF Summable
  <2> QED BY <1>0, <2>1
<1> QED BY <1>3, <1>4 DEF Sums

(* Two solutions agree wherever both are defined.                           *)
LEMMA SumsAgree ==
  ASSUME NEW f, NEW S, IsFiniteSet(S), NEW T \in SUBSET S, NEW i, NEW j,
         Sums(f, S, i), Sums(f, T, j)
  PROVE  i[T] = j[T]
<1> DEFINE Same == {s \in SUBSET T : i[s] = j[s]}
           Sizes == {Cardinality(s) : s \in {t \in SUBSET T : i[t] # j[t]}}
<1> SUFFICES ASSUME i[T] # j[T] PROVE FALSE
  OBVIOUS
<1>1. \A s \in SUBSET T : IsFiniteSet(s) /\ Cardinality(s) \in Nat
  BY FS_Subset, FS_CardinalityType
<1>2. Sizes \in SUBSET Nat /\ Sizes # {}
  BY <1>1
<1>3. PICK m \in Sizes : \A k \in Sizes : m <= k
  <2> HIDE DEF Sizes
  <2> QED BY <1>2, LeastNatural
<1>4. PICK s \in SUBSET T : m = Cardinality(s) /\ i[s] # j[s]
  OBVIOUS
<1>5. i[s] = SumPart(f, i, s) /\ j[s] = SumPart(f, j, s)
  BY DEF Sums
<1>6. s # {}
  BY <1>4, <1>5 DEF SumPart
<1>7. PICK x : x = CHOOSE y \in s : TRUE
  OBVIOUS
<1>8. x \in s
  BY <1>6, <1>7
<1>9. s \ {x} \in SUBSET T /\ Cardinality(s \ {x}) = Cardinality(s) - 1
  BY <1>1, <1>8, FS_RemoveElement
<1>10. i[s \ {x}] = j[s \ {x}]
  BY <1>1, <1>3, <1>4, <1>9
<1> QED BY <1>4, <1>5, <1>6, <1>7, <1>10 DEF SumPart

LEMMA SumChosen ==
  ASSUME NEW f, NEW S, Summable(f, S)
  PROVE  /\ SumOver(f, S) \in Int
         /\ SumOver(f, {}) = 0
         /\ S # {} => SumOver(f, S) = f[CHOOSE x \in S : TRUE] + SumOver(f, S \ {CHOOSE x \in S : TRUE})
<1>1. ASSUME NEW T \in SUBSET S
      PROVE  \E it : Sums(f, T, it) /\ it \in [SUBSET T -> Int] /\ SumOver(f, T) = it[T]
  <2>1. Summable(f, T)
    BY FS_Subset DEF Summable
  <2>2. PICK i : Sums(f, T, i) /\ i \in [SUBSET T -> Int]
    BY <2>1, SumsExist
  <2>3. PICK it : it = CHOOSE j : Sums(f, T, j)
    OBVIOUS
  <2>4. Sums(f, T, it)
    BY <2>2, <2>3
  <2>5. SumOver(f, T) = it[T]
    BY <2>3, SumIsChosen
  <2>6. it = i
    <3>1. ASSUME NEW s \in SUBSET T PROVE it[s] = i[s]
      <4>1. Summable(f, s)
        BY FS_Subset DEF Summable
      <4>2. PICK j : Sums(f, s, j)
        BY <4>1, SumsExist
      <4>3. it[s] = j[s] /\ i[s] = j[s]
        BY <2>1, <2>2, <2>4, <4>2, SumsAgree DEF Summable
      <4> QED BY <4>3
    <3> QED BY <2>2, <2>4, <3>1 DEF Sums
  <2> QED BY <2>2, <2>5, <2>6
<1>2. PICK it : Sums(f, S, it) /\ it \in [SUBSET S -> Int] /\ SumOver(f, S) = it[S]
  BY <1>1
<1>3. \A T \in SUBSET S : SumOver(f, T) = it[T]
  <2> TAKE T \in SUBSET S
  <2>1. PICK j : Sums(f, T, j) /\ SumOver(f, T) = j[T]
    BY <1>1
  <2> QED BY <1>2, <2>1, SumsAgree DEF Summable
<1>4. it[{}] = 0
  BY <1>2 DEF Sums, SumPart
<1>5. it[S] = SumPart(f, it, S)
  BY <1>2 DEF Sums
<1> QED BY <1>2, <1>3, <1>4, <1>5 DEF SumPart
-----------------------------------------------------------------------------
(* Any element may be taken first.                                          *)
LEMMA SumRemove ==
  ASSUME NEW f, NEW S, Summable(f, S), NEW x \in S
  PROVE  SumOver(f, S) = f[x] + SumOver(f, S \ {x})
<1> DEFINE Free(s) == \A y \in s : SumOver(f, s) = f[y] + SumOver(f, s \ {y})
           Sizes == {Cardinality(s) : s \in {t \in SUBSET S : ~Free(t)}}
<1> SUFFICES ASSUME ~Free(S) PROVE FALSE
  OBVIOUS
<1>1. \A s \in SUBSET S : IsFiniteSet(s) /\ Cardinality(s) \in Nat /\ Summable(f, s)
  BY FS_Subset, FS_CardinalityType DEF Summable
<1>2. Sizes \in SUBSET Nat /\ Sizes # {}
  <2> HIDE DEF Free
  <2> QED BY <1>1
<1>3. PICK m \in Sizes : \A k \in Sizes : m <= k
  <2> HIDE DEF Sizes
  <2> QED BY <1>2, LeastNatural
<1>4. PICK s \in SUBSET S : m = Cardinality(s) /\ ~Free(s)
  OBVIOUS
<1>5. ASSUME NEW y \in s PROVE Free(s \ {y}) /\ s \ {y} \in SUBSET S
  <2>1. s \ {y} \in SUBSET S /\ Cardinality(s \ {y}) = Cardinality(s) - 1 /\ Cardinality(s) \in Nat
    BY <1>1, FS_RemoveElement
  <2>2. ASSUME ~Free(s \ {y}) PROVE FALSE
    <3>1. Cardinality(s \ {y}) \in Sizes
      BY <2>1, <2>2
    <3>2. m <= Cardinality(s \ {y})
      <4> HIDE DEF Sizes
      <4> QED BY <1>3, <3>1
    <3> QED BY <1>4, <2>1, <3>2
  <2> QED BY <2>1, <2>2
<1>6. PICK y \in s : SumOver(f, s) # f[y] + SumOver(f, s \ {y})
  BY <1>4
<1>7. PICK c : c = CHOOSE z \in s : TRUE
  OBVIOUS
<1>8. c \in s /\ SumOver(f, s) = f[c] + SumOver(f, s \ {c})
  BY <1>1, <1>6, <1>7, SumChosen
<1>9. c # y
  BY <1>6, <1>8
<1>10. y \in s \ {c} /\ c \in s \ {y} /\ (s \ {c}) \ {y} = (s \ {y}) \ {c}
  BY <1>8, <1>9
<1>11. SumOver(f, s \ {c}) = f[y] + SumOver(f, (s \ {c}) \ {y})
  BY <1>5, <1>8, <1>10
<1>12. SumOver(f, s \ {y}) = f[c] + SumOver(f, (s \ {y}) \ {c})
  BY <1>5, <1>6, <1>10
<1>13. f[c] \in Int /\ f[y] \in Int /\ SumOver(f, (s \ {c}) \ {y}) \in Int
  <2>1. (s \ {c}) \ {y} \in SUBSET S
    OBVIOUS
  <2> QED BY <1>1, <1>8, <2>1, SumChosen DEF Summable
<1>14. PICK rest : rest = SumOver(f, (s \ {c}) \ {y})
  OBVIOUS
<1>15. SumOver(f, s) = f[c] + (f[y] + rest) /\ SumOver(f, s \ {y}) = f[c] + rest
  BY <1>8, <1>10, <1>11, <1>12, <1>14
<1>16. f[c] + (f[y] + rest) = f[y] + (f[c] + rest)
  BY <1>13, <1>14
<1> QED BY <1>6, <1>15, <1>16

LEMMA SumEmpty ==
  ASSUME NEW f
  PROVE  SumOver(f, {}) = 0
<1>1. Summable(f, {})
  BY FS_EmptySet DEF Summable
<1> QED BY <1>1, SumChosen

LEMMA SumAdd ==
  ASSUME NEW f, NEW S, Summable(f, S), NEW x, x \notin S, f[x] \in Int
  PROVE  SumOver(f, S \cup {x}) = f[x] + SumOver(f, S)
<1>1. Summable(f, S \cup {x})
  BY FS_AddElement DEF Summable
<1>2. (S \cup {x}) \ {x} = S /\ x \in S \cup {x}
  OBVIOUS
<1>3. SumOver(f, S \cup {x}) = f[x] + SumOver(f, (S \cup {x}) \ {x})
  BY <1>1, <1>2, SumRemove
<1> QED BY <1>2, <1>3

(* Sums grow with their terms and with the set.                             *)
LEMMA SumGrows ==
  ASSUME NEW f, NEW g, NEW S, IsFiniteSet(S), NEW T \in SUBSET S,
         \A x \in S : g[x] \in Nat, \A x \in T : f[x] \in Nat /\ f[x] <= g[x]
  PROVE  /\ SumOver(f, T) \in Nat /\ SumOver(g, S) \in Nat
         /\ SumOver(f, T) <= SumOver(g, S)
<1> DEFINE Grows(s) == /\ SumOver(f, s \cap T) \in Nat /\ SumOver(g, s) \in Nat
                       /\ SumOver(f, s \cap T) <= SumOver(g, s)
           P == {s \in SUBSET S : Grows(s)}
<1>1. {} \in P
  <2>1. {} \cap T = {}
    OBVIOUS
  <2>2. Grows({})
    BY <2>1, SumEmpty
  <2> HIDE DEF Grows
  <2> QED BY <2>2
<1>2. ASSUME NEW s \in SUBSET S, NEW x \in S \ s, s \in P PROVE s \cup {x} \in P
  <2>1. IsFiniteSet(s) /\ IsFiniteSet(s \cap T)
    BY FS_Subset
  <2>2. Grows(s)
    BY <1>2
  <2>3. SumOver(g, s \cup {x}) = g[x] + SumOver(g, s) /\ g[x] \in Nat
    BY <1>2, <2>1, SumAdd DEF Summable
  <2>4. CASE x \in T
    <3>1. (s \cup {x}) \cap T = (s \cap T) \cup {x}
      BY <2>4
    <3>2. SumOver(f, (s \cap T) \cup {x}) = f[x] + SumOver(f, s \cap T)
      <4>1. Summable(f, s \cap T) /\ f[x] \in Int /\ x \notin s \cap T
        BY <1>2, <2>1, <2>4 DEF Summable
      <4> HIDE DEF Grows
      <4> QED BY <4>1, SumAdd
    <3>3. Grows(s \cup {x})
      BY <2>2, <2>3, <2>4, <3>1, <3>2
    <3> HIDE DEF Grows
    <3> QED BY <3>3
  <2>5. CASE x \notin T
    <3>1. (s \cup {x}) \cap T = s \cap T
      BY <2>5
    <3>2. Grows(s \cup {x})
      BY <2>2, <2>3, <3>1
    <3> HIDE DEF Grows
    <3> QED BY <3>2
  <2> QED BY <2>4, <2>5
<1>3. S \in P
  <2> HIDE DEF P
  <2> QED BY <1>1, <1>2, SetInduction
<1>4. Grows(S) /\ S \cap T = T
  <2> HIDE DEF Grows
  <2> QED BY <1>3
<1> QED BY <1>4

LEMMA SumNatural ==
  ASSUME NEW f, NEW S, IsFiniteSet(S), \A x \in S : f[x] \in Nat
  PROVE  SumOver(f, S) \in Nat
<1>1. S \in SUBSET S /\ \A x \in S : f[x] <= f[x]
  OBVIOUS
<1> QED BY <1>1, SumGrows

LEMMA SumTerm ==
  ASSUME NEW f, NEW S, IsFiniteSet(S), \A y \in S : f[y] \in Nat, NEW x \in S
  PROVE  f[x] <= SumOver(f, S)
<1>1. IsFiniteSet(S \ {x})
  BY FS_Subset
<1>2. SumOver(f, S \ {x}) \in Nat
  BY <1>1, SumNatural
<1>3. SumOver(f, S) = f[x] + SumOver(f, S \ {x})
  BY SumRemove DEF Summable
<1> QED BY <1>2, <1>3

LEMMA SumSame ==
  ASSUME NEW f, NEW g, NEW S, Summable(f, S), \A x \in S : f[x] = g[x]
  PROVE  SumOver(f, S) = SumOver(g, S)
<1> DEFINE P == {s \in SUBSET S : SumOver(f, s) = SumOver(g, s)}
<1>1. {} \in P
  BY SumEmpty
<1>2. ASSUME NEW s \in SUBSET S, NEW x \in S \ s, s \in P PROVE s \cup {x} \in P
  <2>1. Summable(f, s) /\ Summable(g, s)
    BY FS_Subset DEF Summable
  <2>2. SumOver(f, s \cup {x}) = f[x] + SumOver(f, s)
    BY <1>2, <2>1, SumAdd DEF Summable
  <2>3. SumOver(g, s \cup {x}) = g[x] + SumOver(g, s)
    BY <1>2, <2>1, SumAdd DEF Summable
  <2> QED BY <1>2, <2>2, <2>3
<1>3. S \in P
  <2> HIDE DEF P
  <2> QED BY <1>1, <1>2, SetInduction DEF Summable
<1> QED BY <1>3

(* A sum of naturals is not zero, or smaller than another, for nothing.     *)
LEMMA SumPositive ==
  ASSUME NEW f, NEW S, IsFiniteSet(S), \A x \in S : f[x] \in Nat, SumOver(f, S) > 0
  PROVE  \E x \in S : f[x] > 0
<1> SUFFICES ASSUME \A x \in S : f[x] = 0 PROVE FALSE
  OBVIOUS
<1> DEFINE P == {s \in SUBSET S : SumOver(f, s) = 0}
<1>1. {} \in P
  BY SumEmpty
<1>2. ASSUME NEW s \in SUBSET S, NEW x \in S \ s, s \in P PROVE s \cup {x} \in P
  <2>1. Summable(f, s) /\ f[x] = 0
    BY FS_Subset DEF Summable
  <2>2. SumOver(f, s \cup {x}) = f[x] + SumOver(f, s)
    BY <1>2, <2>1, SumAdd
  <2> QED BY <1>2, <2>1, <2>2
<1>3. S \in P
  <2> HIDE DEF P
  <2> QED BY <1>1, <1>2, SetInduction
<1> QED BY <1>3

LEMMA SumSmaller ==
  ASSUME NEW f, NEW g, NEW S, IsFiniteSet(S), NEW x \in S,
         \A y \in S : f[y] \in Nat /\ g[y] \in Nat /\ f[y] <= g[y], f[x] < g[x]
  PROVE  SumOver(f, S) < SumOver(g, S)
<1>1. IsFiniteSet(S \ {x}) /\ S \ {x} \in SUBSET (S \ {x})
  BY FS_Subset
<1>2. /\ SumOver(f, S \ {x}) \in Nat /\ SumOver(g, S \ {x}) \in Nat
      /\ SumOver(f, S \ {x}) <= SumOver(g, S \ {x})
  BY <1>1, SumGrows
<1>3. SumOver(f, S) = f[x] + SumOver(f, S \ {x})
  BY SumRemove DEF Summable
<1>4. SumOver(g, S) = g[x] + SumOver(g, S \ {x})
  BY SumRemove DEF Summable
<1> QED BY <1>2, <1>3, <1>4

(* The elements of disjoint sets, counted together.                         *)
LEMMA SumCounts ==
  ASSUME NEW F, NEW S, IsFiniteSet(S), \A x \in S : IsFiniteSet(F[x]),
         \A x, y \in S : x # y => F[x] \cap F[y] = {},
         NEW n, n = [x \in S |-> Cardinality(F[x])]
  PROVE  /\ IsFiniteSet(UNION {F[x] : x \in S})
         /\ Cardinality(UNION {F[x] : x \in S}) = SumOver(n, S)
<1> DEFINE U(s) == UNION {F[x] : x \in s}
           Counts(s) == IsFiniteSet(U(s)) /\ Cardinality(U(s)) = SumOver(n, s)
           P == {s \in SUBSET S : Counts(s)}
<1>1. {} \in P
  <2>1. U({}) = {}
    OBVIOUS
  <2>2. Counts({})
    BY <2>1, SumEmpty, FS_EmptySet
  <2> HIDE DEF Counts
  <2> QED BY <2>2
<1>2. ASSUME NEW s \in SUBSET S, NEW x \in S \ s, s \in P PROVE s \cup {x} \in P
  <2>1. Counts(s)
    BY <1>2
  <2>2. Summable(n, s) /\ n[x] = Cardinality(F[x]) /\ n[x] \in Nat
    BY FS_Subset, FS_CardinalityType DEF Summable
  <2>3. SumOver(n, s \cup {x}) = n[x] + SumOver(n, s)
    BY <1>2, <2>2, SumAdd
  <2>4. U(s \cup {x}) = U(s) \cup F[x]
    OBVIOUS
  <2>5. U(s) \cap F[x] = {}
    BY <1>2
  <2>6. PICK u : u = U(s)
    OBVIOUS
  <2>7. IsFiniteSet(u \cup F[x]) /\ Cardinality(u \cup F[x]) = Cardinality(u) + Cardinality(F[x])
    <3>1. IsFiniteSet(u) /\ IsFiniteSet(F[x]) /\ u \cap F[x] = {}
      BY <2>1, <2>5, <2>6
    <3>2. Cardinality(u \cap F[x]) = 0
      BY <3>1, FS_EmptySet
    <3>3. /\ IsFiniteSet(u \cup F[x])
          /\ Cardinality(u \cup F[x]) = Cardinality(u) + Cardinality(F[x]) - Cardinality(u \cap F[x])
      BY <3>1, FS_Union
    <3>4. Cardinality(u) \in Nat /\ Cardinality(F[x]) \in Nat
      BY <3>1, FS_CardinalityType
    <3> QED BY <3>2, <3>3, <3>4
  <2>8. Cardinality(u) \in Nat /\ Cardinality(u) = SumOver(n, s)
    BY <2>1, <2>6, FS_CardinalityType
  <2>9. Counts(s \cup {x})
    <3>1. U(s \cup {x}) = u \cup F[x]
      BY <2>4, <2>6
    <3>2. Cardinality(u \cup F[x]) = SumOver(n, s \cup {x})
      BY <2>2, <2>3, <2>7, <2>8
    <3>3. IsFiniteSet(U(s \cup {x})) /\ Cardinality(U(s \cup {x})) = SumOver(n, s \cup {x})
      <4> HIDE DEF U
      <4> QED BY <2>7, <3>1, <3>2
    <3> QED BY <3>3
  <2> HIDE DEF Counts
  <2> QED BY <2>9
<1>3. S \in P
  <2> HIDE DEF P
  <2> QED BY <1>1, <1>2, SetInduction
<1>4. Counts(S)
  <2> HIDE DEF Counts
  <2> QED BY <1>3
<1> QED BY <1>4

(* A multiple is summed as it is taken.                                     *)
LEMMA SumScaled ==
  ASSUME NEW f, NEW S, IsFiniteSet(S), \A x \in S : f[x] \in Nat, NEW c \in Nat,
         NEW g, \A x \in S : g[x] = c * f[x]
  PROVE  SumOver(g, S) = c * SumOver(f, S)
<1> DEFINE P == {s \in SUBSET S : SumOver(g, s) = c * SumOver(f, s)}
<1>1. {} \in P
  BY SumEmpty
<1>2. ASSUME NEW s \in SUBSET S, NEW x \in S \ s, s \in P PROVE s \cup {x} \in P
  <2>1. IsFiniteSet(s) /\ f[x] \in Nat /\ g[x] = c * f[x] /\ g[x] \in Int
    BY FS_Subset
  <2>2. SumOver(f, s) \in Nat
    BY <2>1, SumNatural
  <2>3. Summable(f, s) /\ Summable(g, s)
    BY <2>1 DEF Summable
  <2>4. SumOver(f, s \cup {x}) = f[x] + SumOver(f, s)
    BY <1>2, <2>1, <2>3, SumAdd
  <2>5. SumOver(g, s \cup {x}) = g[x] + SumOver(g, s)
    BY <1>2, <2>1, <2>3, SumAdd
  <2>6. PICK a, b : a = f[x] /\ b = SumOver(f, s)
    OBVIOUS
  <2>7. c * (a + b) = c * a + c * b
    BY <2>1, <2>2, <2>6
  <2>8. SumOver(g, s) = c * b
    BY <1>2, <2>6
  <2> QED BY <2>1, <2>4, <2>5, <2>6, <2>7, <2>8
<1>3. S \in P
  <2> HIDE DEF P
  <2> QED BY <1>1, <1>2, SetInduction
<1> QED BY <1>3

(* The image of a finite set is finite.                                     *)
LEMMA FiniteImage ==
  ASSUME NEW f, NEW S, IsFiniteSet(S)
  PROVE  IsFiniteSet({f[x] : x \in S})
<1> DEFINE Image(s) == {f[x] : x \in s}
           P == {s \in SUBSET S : IsFiniteSet(Image(s))}
<1>1. {} \in P
  <2>1. Image({}) = {}
    OBVIOUS
  <2> HIDE DEF Image
  <2> QED BY <2>1, FS_EmptySet
<1>2. ASSUME NEW s \in SUBSET S, NEW x \in S \ s, s \in P PROVE s \cup {x} \in P
  <2>1. Image(s \cup {x}) = Image(s) \cup {f[x]}
    OBVIOUS
  <2> HIDE DEF Image
  <2>2. IsFiniteSet(Image(s) \cup {f[x]})
    BY <1>2, FS_AddElement
  <2> QED BY <2>1, <2>2
<1>3. S \in P
  <2> HIDE DEF P
  <2> QED BY <1>1, <1>2, SetInduction
<1> QED BY <1>3

(* A set of numbers that is finite has a largest.                           *)
LEMMA LargestNatural ==
  ASSUME NEW S \in SUBSET Nat, IsFiniteSet(S), S # {}
  PROVE  \E m \in S : \A k \in S : k <= m
<1> DEFINE P == {s \in SUBSET S : s # {} => \E m \in s : \A k \in s : k <= m}
<1>1. {} \in P
  OBVIOUS
<1>2. ASSUME NEW s \in SUBSET S, NEW x \in S \ s, s \in P PROVE s \cup {x} \in P
  <2>1. CASE s = {}
    BY <2>1
  <2>2. CASE s # {}
    <3>1. PICK m \in s : \A k \in s : k <= m
      BY <1>2, <2>2
    <3>2. m \in Nat /\ x \in Nat /\ \A k \in s : k \in Nat
      OBVIOUS
    <3>3. CASE x <= m
      BY <3>1, <3>3
    <3>4. CASE ~(x <= m)
      <4>1. \A k \in s \cup {x} : k <= x
        BY <3>1, <3>2, <3>4
      <4> QED BY <4>1
    <3> QED BY <3>3, <3>4
  <2> QED BY <2>1, <2>2
<1>3. S \in P
  <2> HIDE DEF P
  <2> QED BY <1>1, <1>2, SetInduction
<1> QED BY <1>3
=============================================================================
