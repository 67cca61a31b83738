----------------------------- MODULE DataInduction -----------------------------
(***************************************************************************)
(* Facts about sets of data that take an induction: least and greatest     *)
(* members, and sums.  Each is proved from a smallest counterexample,      *)
(* which the well-founded orders of the library provide.                   *)
(***************************************************************************)
EXTENDS Integers, FiniteSets, FiniteSetsExt, FiniteSetTheorems, WellFoundedInduction, TLAPS

(* A nonempty set of natural numbers has a least member.                   *)
LEMMA SmallestExists ==
  ASSUME NEW S, S \subseteq Nat, S # {}
  PROVE  \E x \in S : \A y \in S : x <= y
<1> DEFINE R == OpToRel(<, Nat)
<1>1. IsWellFoundedOn(R, Nat)
  BY NatLessThanWellFounded
<1>2. PICK x \in S : \A y \in S : <<y, x>> \notin R
  <2> HIDE DEF R
  <2> QED
    BY <1>1, WFMin
<1>3. \A y \in S : x \in Nat /\ y \in Nat /\ ~(y < x)
  BY <1>2 DEF OpToRel
<1> QED
  BY <1>3

(* A nonempty set of finite sets has a member none of the others is part of. *)
IsMinimal(T, W) == T \in W /\ \A U \in W : U \subseteq T => U = T

LEMMA MinimalSubset ==
  ASSUME NEW S, IsFiniteSet(S), NEW W, W \subseteq SUBSET S, W # {}
  PROVE  \E T : IsMinimal(T, W)
<1>1. W \subseteq FiniteSubsetsOf(S)
  BY FS_FiniteSubsetsOfFinite
<1>2. PICK T \in W : \A U \in W : <<U, T>> \notin StrictSubsetOrdering(S)
  BY <1>1, FS_StrictSubsetOrderingWellFounded, WFMin
<1> QED
  BY <1>2 DEF StrictSubsetOrdering, IsMinimal

(* A nonempty finite set of integers has a greatest member.                *)
LEMMA GreatestExists ==
  ASSUME NEW S, S \subseteq Int, S # {}, IsFiniteSet(S)
  PROVE  \E x \in S : \A y \in S : y <= x
<1> DEFINE W == {T \in SUBSET S : T # {} /\ ~\E x \in T : \A y \in T : y <= x}
<1> SUFFICES ASSUME W # {} PROVE FALSE
  OBVIOUS
<1>1. PICK T \in W : \A U \in W : U \subseteq T => U = T
  <2>1. W \subseteq SUBSET S
    OBVIOUS
  <2>2. \E T : IsMinimal(T, W)
    <3> HIDE DEF W
    <3> QED
      BY <2>1, MinimalSubset
  <2> HIDE DEF W
  <2> QED
    BY <2>2 DEF IsMinimal
<1>2. PICK t \in T : TRUE
  OBVIOUS
<1>3. T \ {t} # {}
  BY <1>2
<1>4. T \ {t} \notin W
  BY <1>1, <1>2
<1>5. PICK x \in T \ {t} : \A y \in T \ {t} : y <= x
  BY <1>3, <1>4
<1>6. x \in Int /\ t \in Int /\ T \subseteq Int
  BY <1>2, <1>5
<1>7. CASE t <= x
  BY <1>5, <1>6, <1>7
<1>8. CASE ~(t <= x)
  <2>1. \A y \in T : y <= t
    BY <1>5, <1>6, <1>8
  <2> QED
    BY <1>2, <2>1
<1> QED
  BY <1>7, <1>8

-----------------------------------------------------------------------------
(* The sum of one field of the records c[x], x \in S.                      *)

FieldSum(c, field, S) == MapThenSumSet(LAMBDA x : c[x][field], S)

(* What one step of the fold makes of a set, with g for the smaller ones.  *)
Fold(c, field, g, s) ==
  IF s = {} THEN 0
  ELSE LET x == CHOOSE x \in s : TRUE IN c[x][field] + g[s \ {x}]

PartSums(c, field, S) == CHOOSE g : g = [s \in SUBSET S |-> Fold(c, field, g, s)]

LEMMA FieldSumIsPartSum == \A c, field, S : FieldSum(c, field, S) = PartSums(c, field, S)[S]
  BY DEF FieldSum, PartSums, Fold, MapThenSumSet, MapThenFoldSet

Sums(p, c, field, S) == \A s \in SUBSET S : p[s] = Fold(c, field, p, s)

LEMMA PartSumsDefined ==
  ASSUME NEW S, IsFiniteSet(S), NEW c, NEW field
  PROVE  Sums(PartSums(c, field, S), c, field, S)
<1> DEFINE Upto(n) == {s \in SUBSET S : Cardinality(s) <= n}
           SumsUpto(g, n) == g = [s \in Upto(n) |-> Fold(c, field, g, s)]
           W == {n \in Nat : ~\E g : SumsUpto(g, n)}
<1>1. \A s \in SUBSET S : IsFiniteSet(s) /\ Cardinality(s) \in Nat /\ (Cardinality(s) = 0 <=> s = {})
  BY FS_Subset, FS_CardinalityType, FS_EmptySet
<1>2. ASSUME NEW s \in SUBSET S, s # {}
      PROVE  LET x == CHOOSE x \in s : TRUE IN
               /\ x \in s /\ s \ {x} \in SUBSET S
               /\ Cardinality(s \ {x}) = Cardinality(s) - 1
  BY <1>1, <1>2, FS_RemoveElement
<1>3. 0 \notin W
  <2>1. SumsUpto([s \in Upto(0) |-> 0], 0)
    BY <1>1 DEF Fold
  <2> QED
    BY <2>1
<1>4. ASSUME NEW n \in Nat, n \notin W PROVE n + 1 \notin W
  <2>1. PICK g : SumsUpto(g, n)
    BY <1>4
  <2> DEFINE h == [s \in Upto(n + 1) |-> Fold(c, field, g, s)]
  <2>2. ASSUME NEW s \in Upto(n) PROVE s \in Upto(n + 1) /\ h[s] = g[s]
    BY <1>1, <2>1
  <2>3. ASSUME NEW s \in Upto(n + 1) PROVE Fold(c, field, g, s) = Fold(c, field, h, s)
    <3>1. CASE s = {}
      BY <3>1 DEF Fold
    <3>2. CASE s # {}
      <4> DEFINE x == CHOOSE x \in s : TRUE
      <4>1. s \ {x} \in Upto(n)
        BY <1>1, <1>2, <3>2
      <4>2. h[s \ {x}] = g[s \ {x}]
        BY <2>2, <4>1
      <4> QED
        BY <4>2 DEF Fold
    <3> QED
      BY <3>1, <3>2
  <2>4. SumsUpto(h, n + 1)
    BY <2>3
  <2> QED
    BY <2>4
<1>5. W = {}
  <2> SUFFICES ASSUME W # {} PROVE FALSE
    OBVIOUS
  <2>1. PICK n \in W : \A m \in W : n <= m
    <3> HIDE DEF W
    <3>1. W \subseteq Nat
      BY DEF W
    <3> QED
      BY <3>1, SmallestExists
  <2>2. W \subseteq Nat
    OBVIOUS
  <2> HIDE DEF W
  <2>3. n - 1 \in Nat /\ n - 1 \notin W
    BY <1>3, <2>1, <2>2
  <2> QED
    BY <1>4, <2>1, <2>2, <2>3
<1>6. Cardinality(S) \in Nat /\ Upto(Cardinality(S)) = SUBSET S
  BY <1>1, FS_Subset, FS_CardinalityType
<1>7. \E g : g = [s \in SUBSET S |-> Fold(c, field, g, s)]
  <2>1. \E g : SumsUpto(g, Cardinality(S))
    BY <1>5, <1>6
  <2> QED
    BY <1>6, <2>1
<1> QED
  BY <1>7 DEF PartSums, Sums

(* The sum over a set is that over a smaller one and the member left out,  *)
(* whichever that is.                                                      *)
LEMMA PartSumsType ==
  ASSUME NEW S, IsFiniteSet(S), NEW c, NEW field, \A x \in S : c[x][field] \in Int
  PROVE  \A s \in SUBSET S : PartSums(c, field, S)[s] \in Int
<1> DEFINE p == PartSums(c, field, S)
           W == {s \in SUBSET S : p[s] \notin Int}
<1>1. Sums(p, c, field, S)
  BY PartSumsDefined
<1> HIDE DEF p
<1> SUFFICES ASSUME W # {} PROVE FALSE
  BY DEF p
<1>2. PICK s \in W : \A u \in W : u \subseteq s => u = s
  <2>1. W \subseteq SUBSET S
    OBVIOUS
  <2>2. \E s : IsMinimal(s, W)
    <3> HIDE DEF W
    <3> QED
      BY <2>1, MinimalSubset
  <2> HIDE DEF W
  <2> QED
    BY <2>2 DEF IsMinimal
<1>3. s \in SUBSET S /\ p[s] = Fold(c, field, p, s)
  BY <1>1 DEF Sums
<1>4. s # {}
  BY <1>3 DEF Fold
<1> DEFINE x == CHOOSE x \in s : TRUE
<1>5. x \in s /\ s \ {x} \in SUBSET S /\ s \ {x} # s
  BY <1>4
<1>6. p[s \ {x}] \in Int
  BY <1>2, <1>5
<1> QED
  BY <1>3, <1>4, <1>5, <1>6 DEF Fold

LEMMA PartSumsRemove ==
  ASSUME NEW S, IsFiniteSet(S), NEW c, NEW field, \A x \in S : c[x][field] \in Int
  PROVE  \A s \in SUBSET S : \A x \in s :
           PartSums(c, field, S)[s] = c[x][field] + PartSums(c, field, S)[s \ {x}]
<1> DEFINE p == PartSums(c, field, S)
           W == {s \in SUBSET S : \E x \in s : p[s] # c[x][field] + p[s \ {x}]}
<1>1. /\ Sums(p, c, field, S)
      /\ \A s \in SUBSET S : p[s] \in Int
  BY PartSumsDefined, PartSumsType
<1> HIDE DEF p
<1> SUFFICES ASSUME W # {} PROVE FALSE
  BY DEF p
<1>2. PICK s \in W : \A u \in W : u \subseteq s => u = s
  <2>1. W \subseteq SUBSET S
    OBVIOUS
  <2>2. \E s : IsMinimal(s, W)
    <3> HIDE DEF W
    <3> QED
      BY <2>1, MinimalSubset
  <2> HIDE DEF W
  <2> QED
    BY <2>2 DEF IsMinimal
<1>3. PICK x \in s : p[s] # c[x][field] + p[s \ {x}]
  OBVIOUS
<1> DEFINE y == CHOOSE y \in s : TRUE
<1>4. y \in s /\ p[s] = c[y][field] + p[s \ {y}]
  BY <1>1, <1>3 DEF Fold, Sums
<1>5. x # y
  BY <1>3, <1>4
<1>6. p[s \ {y}] = c[x][field] + p[(s \ {y}) \ {x}]
  <2>1. s \ {y} \notin W /\ s \ {y} \in SUBSET S /\ x \in s \ {y}
    BY <1>2, <1>3, <1>4, <1>5
  <2> QED
    BY <2>1
<1>7. p[s \ {x}] = c[y][field] + p[(s \ {x}) \ {y}]
  <2>1. s \ {x} \notin W /\ s \ {x} \in SUBSET S /\ y \in s \ {x}
    BY <1>2, <1>3, <1>4, <1>5
  <2> QED
    BY <2>1
<1>8. (s \ {x}) \ {y} = (s \ {y}) \ {x} /\ (s \ {x}) \ {y} \in SUBSET S
  OBVIOUS
<1>9. c[x][field] \in Int /\ c[y][field] \in Int /\ p[(s \ {x}) \ {y}] \in Int
  BY <1>1, <1>3, <1>4, <1>8
<1> HIDE DEF y, W
<1>10. p[s] = c[y][field] + (c[x][field] + p[(s \ {x}) \ {y}])
  BY <1>4, <1>6, <1>8
<1>11. c[x][field] + p[s \ {x}] = c[x][field] + (c[y][field] + p[(s \ {x}) \ {y}])
  BY <1>7
<1> QED
  BY <1>3, <1>9, <1>10, <1>11

LEMMA PartSumsCongruent ==
  ASSUME NEW S, IsFiniteSet(S), NEW c, NEW e, NEW field, NEW T, T \subseteq S,
         \A x \in T : c[x][field] = e[x][field]
  PROVE  PartSums(c, field, S)[T] = PartSums(e, field, S)[T]
<1> DEFINE p == PartSums(c, field, S)
           q == PartSums(e, field, S)
           W == {s \in SUBSET T : p[s] # q[s]}
<1>1. /\ Sums(p, c, field, S)
      /\ Sums(q, e, field, S)
  BY PartSumsDefined
<1> HIDE DEF p, q
<1> SUFFICES ASSUME W # {} PROVE FALSE
  BY DEF p, q
<1>2. PICK s \in W : \A u \in W : u \subseteq s => u = s
  <2>1. W \subseteq SUBSET S
    OBVIOUS
  <2>2. \E s : IsMinimal(s, W)
    <3> HIDE DEF W
    <3> QED
      BY <2>1, MinimalSubset
  <2> HIDE DEF W
  <2> QED
    BY <2>2 DEF IsMinimal
<1>3. s \in SUBSET S /\ s \subseteq T /\ p[s] = Fold(c, field, p, s) /\ q[s] = Fold(e, field, q, s)
  BY <1>1 DEF Sums
<1>4. s # {}
  BY <1>3 DEF Fold
<1> DEFINE x == CHOOSE x \in s : TRUE
<1>5. x \in s /\ s \ {x} \subseteq T /\ s \ {x} # s
  BY <1>3, <1>4
<1>6. p[s \ {x}] = q[s \ {x}]
  BY <1>2, <1>5
<1> QED
  BY <1>3, <1>4, <1>5, <1>6 DEF Fold

(* When one record changes, the sum changes by as much.                    *)
LEMMA FieldSumChanges ==
  ASSUME NEW S, IsFiniteSet(S), NEW c, NEW e, NEW field, NEW d \in S,
         \A x \in S : c[x][field] \in Int /\ e[x][field] \in Int,
         \A x \in S : x # d => e[x][field] = c[x][field]
  PROVE  /\ FieldSum(c, field, S) \in Int
         /\ FieldSum(e, field, S) \in Int
         /\ FieldSum(e, field, S) = FieldSum(c, field, S) + e[d][field] - c[d][field]
<1> DEFINE p == PartSums(c, field, S)
           q == PartSums(e, field, S)
<1>1. p[S] = c[d][field] + p[S \ {d}] /\ q[S] = e[d][field] + q[S \ {d}]
  BY PartSumsRemove
<1>2. p[S \ {d}] = q[S \ {d}]
  <2>1. S \ {d} \subseteq S /\ \A x \in S \ {d} : c[x][field] = e[x][field]
    OBVIOUS
  <2> QED
    BY <2>1, PartSumsCongruent
<1>3. p[S \ {d}] \in Int /\ p[S] \in Int /\ q[S] \in Int
  BY PartSumsType
<1> HIDE DEF p, q
<1>4. FieldSum(c, field, S) = p[S] /\ FieldSum(e, field, S) = q[S]
  BY FieldSumIsPartSum DEF p, q
<1> QED
  BY <1>1, <1>2, <1>3, <1>4

LEMMA FieldSumSame ==
  ASSUME NEW S, IsFiniteSet(S), NEW c, NEW e, NEW field,
         \A x \in S : e[x][field] = c[x][field]
  PROVE  FieldSum(e, field, S) = FieldSum(c, field, S)
  BY PartSumsCongruent, FieldSumIsPartSum

LEMMA FieldSumZero ==
  ASSUME NEW S, IsFiniteSet(S), NEW c, NEW field, \A x \in S : c[x][field] = 0
  PROVE  FieldSum(c, field, S) = 0
<1> DEFINE p == PartSums(c, field, S)
           W == {s \in SUBSET S : p[s] # 0}
<1>1. Sums(p, c, field, S)
  BY PartSumsDefined
<1> HIDE DEF p
<1> SUFFICES ASSUME W # {} PROVE FALSE
  BY FieldSumIsPartSum DEF p
<1>2. PICK s \in W : \A u \in W : u \subseteq s => u = s
  <2>1. W \subseteq SUBSET S
    OBVIOUS
  <2>2. \E s : IsMinimal(s, W)
    <3> HIDE DEF W
    <3> QED
      BY <2>1, MinimalSubset
  <2> HIDE DEF W
  <2> QED
    BY <2>2 DEF IsMinimal
<1>3. s \in SUBSET S /\ p[s] = Fold(c, field, p, s)
  BY <1>1 DEF Sums
<1>4. s # {}
  BY <1>3 DEF Fold
<1> DEFINE x == CHOOSE x \in s : TRUE
<1>5. x \in s /\ s \ {x} \in SUBSET S /\ s \ {x} # s
  BY <1>4
<1>6. p[s \ {x}] = 0
  BY <1>2, <1>5
<1> QED
  BY <1>3, <1>4, <1>5, <1>6 DEF Fold

-----------------------------------------------------------------------------
(* Counting modulo n.                                                      *)

LEMMA ModuloUnique ==
  ASSUME NEW n \in Nat \ {0}, NEW q \in Int, NEW r \in 0..(n - 1), NEW a \in Int, a = n * q + r
  PROVE  a % n = r
<1> DEFINE k == a \div n
           m == a % n
<1>1. k \in Int /\ m \in 0..(n - 1) /\ a = n * k + m
  OBVIOUS
<1> HIDE DEF k, m
<1>2. n * (q - k) = m - r
  BY <1>1
<1>3. CASE q - k >= 1
  <2>1. n * (q - k) >= n
    BY <1>1, <1>3
  <2> QED
    BY <1>1, <1>2, <2>1
<1>4. CASE q - k <= -1
  <2>1. n * (q - k) <= -n
    BY <1>1, <1>4
  <2> QED
    BY <1>1, <1>2, <2>1
<1>5. CASE q - k = 0
  BY <1>1, <1>5 DEF m
<1> QED
  BY <1>1, <1>3, <1>4, <1>5

LEMMA ModuloSucc ==
  ASSUME NEW n \in Nat \ {0}, NEW a \in Int
  PROVE  /\ (a + 1) % n = ((a % n) + 1) % n
         /\ (a + 1 - n) % n = ((a % n) + 1) % n
<1> DEFINE k == a \div n
           m == a % n
           r == IF m + 1 = n THEN 0 ELSE m + 1
           j == IF m + 1 = n THEN k + 1 ELSE k
<1>1. k \in Int /\ m \in 0..(n - 1) /\ a = n * k + m
  OBVIOUS
<1> HIDE DEF k, m
<1>2. r \in 0..(n - 1) /\ j \in Int /\ j - 1 \in Int
  BY <1>1
<1>3. a + 1 = n * j + r
  BY <1>1
<1> HIDE DEF r, j
<1>4. a + 1 - n = n * (j - 1) + r
  <2>1. n * (j - 1) = n * j - n
    BY <1>2
  <2> QED
    BY <1>2, <1>3, <2>1
<1>5. m + 1 = n * (j - k) + r /\ j - k \in Int
  BY <1>1 DEF r, j
<1>6. (a + 1) % n = r /\ (a + 1 - n) % n = r /\ (m + 1) % n = r
  BY <1>1, <1>2, <1>3, <1>4, <1>5, ModuloUnique
<1> QED
  BY <1>6 DEF m

=============================================================================
