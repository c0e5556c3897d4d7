----------------------------- MODULE DataProofs -----------------------------
(***************************************************************************)
(* Induction for the other proof modules, and what they need to know of    *)
(* the folds of the community modules, of strings of digits and of orders. *)
(* A property that is proved by induction is given as the set of the       *)
(* values that have it, and a fold by its recursive equation.  For strings *)
(* of any length, decimal_less is the order of the numbers they stand for, *)
(* and add_decimal_strings and scale_raw_amount_string are their sum and   *)
(* their product with a power of ten.                                      *)
(***************************************************************************)
EXTENDS Integers, DecimalStrings, SequenceTheorems, FiniteSetTheorems, WellFoundedInduction, TLAPS

-----------------------------------------------------------------------------
(* Small numbers.                                                          *)

LEMMA DigitIsNat == \A a \in 0 .. 9 : a \in Nat
OBVIOUS

LEMMA DigitsDiffer == \A a, b \in 0 .. 9 : a = b \/ a < b \/ b < a
OBVIOUS

LEMMA SmallSums == \A a, b \in 0 .. 9, x \in {0, 1} : a + b + x \in 0 .. 19
OBVIOUS

LEMMA ShiftType == \A a, b \in Nat : a * 10 + b \in Nat
OBVIOUS

LEMMA ProductType == \A a, b \in Nat : a * b \in Nat
OBVIOUS

-----------------------------------------------------------------------------
(* Induction.                                                              *)

\* A set of naturals has a least element.
LEMMA LeastOfNat ==
  ASSUME NEW S \in SUBSET Nat, S # {}
  PROVE  Min(S) \in S /\ \A y \in S : Min(S) <= y
<1> DEFINE R == {ss \in Nat \X Nat : ss[1] < ss[2]}
<1>1. IsWellFoundedOn(R, Nat)
  BY NatLessThanWellFounded DEF OpToRel
<1> HIDE DEF R
<1>2. PICK x \in S : \A y \in S : ~ (<<y, x>> \in R)
  BY <1>1, WFMin
<1>3. \A y \in S : ~(y < x)
  BY <1>2 DEF R
<1>4. \A y \in S : x <= y
  BY <1>3
<1> QED
  BY <1>4 DEF Min

LEMMA InductionOnNat ==
  ASSUME NEW T, 0 \in T, \A n \in Nat : n \in T => n + 1 \in T
  PROVE  Nat \subseteq T
<1> DEFINE S == Nat \ T
<1> SUFFICES ASSUME S # {} PROVE FALSE
  OBVIOUS
<1>1. Min(S) \in S /\ \A y \in S : Min(S) <= y
  BY LeastOfNat
<1>2. Min(S) - 1 \in Nat /\ Min(S) - 1 \notin S
  BY <1>1
<1> QED
  BY <1>1, <1>2

\* A finite set is built one element at a time.
LEMMA InductionOnSubsets ==
  ASSUME NEW S, IsFiniteSet(S), NEW T, {} \in T,
         \A s \in SUBSET S, x \in S : s \in T /\ x \notin s => s \cup {x} \in T
  PROVE  S \in T
<1> DEFINE N == {n \in Nat : \A s \in SUBSET S : Cardinality(s) = n => s \in T}
<1>0. \A s \in SUBSET S : IsFiniteSet(s) /\ Cardinality(s) \in Nat
  BY FS_Subset, FS_CardinalityType
<1>1. 0 \in N
  BY <1>0, FS_EmptySet
<1>2. ASSUME NEW n \in Nat, n \in N PROVE n + 1 \in N
  <2> SUFFICES ASSUME NEW s \in SUBSET S, Cardinality(s) = n + 1 PROVE s \in T
    OBVIOUS
  <2>1. PICK x \in s : TRUE
    BY <1>0, FS_EmptySet
  <2>2. Cardinality(s \ {x}) = n /\ s \ {x} \in SUBSET S
    <3>1. IsFiniteSet(s) /\ x \in s
      BY <1>0, <2>1
    <3>2. Cardinality(s \ {x}) = Cardinality(s) - 1
      BY ONLY <3>1, FS_RemoveElement
    <3> QED
      BY <3>2
  <2>3. s \ {x} \in T
    BY <1>2, <2>2
  <2>4. (s \ {x}) \cup {x} = s
    BY <2>1
  <2> QED
    BY <2>1, <2>2, <2>3, <2>4
<1>3. Nat \subseteq N
  <2> HIDE DEF N
  <2> QED
    BY <1>1, <1>2, InductionOnNat
<1> QED
  BY <1>0, <1>3

-----------------------------------------------------------------------------
(***************************************************************************)
(* Sums.  MapThenSumSet(op, S) folds the subsets of S: g is that fold if   *)
(* it satisfies its recursive equation.                                    *)
(***************************************************************************)

First(s) == CHOOSE x \in s : TRUE

IsSum(g, f, S) ==
  g = [s \in SUBSET S |-> IF s = {} THEN 0 ELSE f[First(s)] + g[s \ {First(s)}]]

SumOf(f, S) == (CHOOSE g : IsSum(g, f, S))[S]

LEMMA FirstIn == \A s : s # {} => First(s) \in s
BY DEF First

LEMMA FirstRemoved ==
  \A s : IsFiniteSet(s) /\ First(s) \in s => Cardinality(s \ {First(s)}) = Cardinality(s) - 1
BY FS_RemoveElement

LEMMA FoldExists ==
  ASSUME NEW S, IsFiniteSet(S), NEW f
  PROVE  \E g : IsSum(g, f, S)
<1> DEFINE Upto(n) == {s \in SUBSET S : Cardinality(s) <= n}
           Approx(g, n) ==
             g = [s \in Upto(n) |->
                    IF s = {} THEN 0 ELSE f[First(s)] + g[s \ {First(s)}]]
           N == {n \in Nat : \E g : Approx(g, n)}
<1>0. \A s \in SUBSET S : IsFiniteSet(s) /\ Cardinality(s) \in Nat
  BY FS_Subset, FS_CardinalityType
<1>1. 0 \in N
  <2>1. Upto(0) = {{}}
    BY <1>0, FS_EmptySet
  <2>2. Approx([s \in Upto(0) |-> 0], 0)
    BY <2>1
  <2> QED
    BY <2>2
<1>2. ASSUME NEW n \in Nat, n \in N PROVE n + 1 \in N
  <2>1. PICK g : Approx(g, n)
    BY <1>2
  <2> DEFINE h == [s \in Upto(n + 1) |->
                     IF s = {} THEN 0 ELSE f[First(s)] + g[s \ {First(s)}]]
  <2>2. ASSUME NEW s \in Upto(n + 1), s # {}
        PROVE  s \ {First(s)} \in Upto(n)
    BY <1>0, <2>2, FirstIn, FS_RemoveElement
  <2>3. \A s \in Upto(n) : s \in Upto(n + 1) /\ g[s] = h[s]
    <3>1. \A s \in Upto(n) : s \in Upto(n + 1)
      BY <1>0
    <3> QED
      BY <2>1, <3>1
  <2>4. \A s \in Upto(n + 1) :
          h[s] = IF s = {} THEN 0 ELSE f[First(s)] + h[s \ {First(s)}]
    BY <2>2, <2>3
  <2>5. Approx(h, n + 1)
    <3> HIDE DEF Upto
    <3>1. h = [s \in Upto(n + 1) |-> h[s]]
      OBVIOUS
    <3> QED
      BY <2>4, <3>1
  <2> HIDE DEF Approx, h
  <2> QED
    BY <2>5
<1>3. Nat \subseteq N
  <2> HIDE DEF N
  <2> QED
    BY <1>1, <1>2, InductionOnNat
<1>4. PICK g : Approx(g, Cardinality(S))
  BY <1>0, <1>3
<1>5. Upto(Cardinality(S)) = SUBSET S
  BY FS_Subset
<1> QED
  BY <1>4, <1>5 DEF IsSum

LEMMA FoldUnique ==
  ASSUME NEW S, IsFiniteSet(S), NEW f, NEW g, NEW h, IsSum(g, f, S), IsSum(h, f, S)
  PROVE  g = h
<1> DEFINE N == {n \in Nat : \A s \in SUBSET S : Cardinality(s) = n => g[s] = h[s]}
<1>0. \A s \in SUBSET S : IsFiniteSet(s) /\ Cardinality(s) \in Nat
  BY FS_Subset, FS_CardinalityType
<1>a. \A s \in SUBSET S :
        /\ g[s] = IF s = {} THEN 0 ELSE f[First(s)] + g[s \ {First(s)}]
        /\ h[s] = IF s = {} THEN 0 ELSE f[First(s)] + h[s \ {First(s)}]
  BY DEF IsSum
<1>1. 0 \in N
  BY <1>0, <1>a, FS_EmptySet
<1>2. ASSUME NEW n \in Nat, n \in N PROVE n + 1 \in N
  <2> SUFFICES ASSUME NEW s \in SUBSET S, Cardinality(s) = n + 1 PROVE g[s] = h[s]
    OBVIOUS
  <2>1. s # {} /\ First(s) \in s
    BY <1>0, FS_EmptySet, FirstIn
  <2>2. Cardinality(s \ {First(s)}) = n /\ s \ {First(s)} \in SUBSET S
    <3>1. IsFiniteSet(s) /\ First(s) \in s
      BY <1>0, <2>1
    <3>2. Cardinality(s \ {First(s)}) = Cardinality(s) - 1
      BY ONLY <3>1, FS_RemoveElement
    <3> QED
      BY <3>2
  <2> QED
    BY <1>2, <1>a, <2>1, <2>2
<1>3. Nat \subseteq N
  <2> HIDE DEF N
  <2> QED
    BY <1>1, <1>2, InductionOnNat
<1>4. \A s \in SUBSET S : g[s] = h[s]
  BY <1>0, <1>3
<1> QED
  BY <1>4 DEF IsSum

LEMMA SumIsFold ==
  ASSUME NEW S, IsFiniteSet(S), NEW f, NEW g, IsSum(g, f, S)
  PROVE  SumOf(f, S) = g[S]
<1>1. IsSum(CHOOSE h : IsSum(h, f, S), f, S)
  OBVIOUS
<1> QED
  BY <1>1, FoldUnique DEF SumOf

LEMMA SumEquation ==
  ASSUME NEW S, IsFiniteSet(S), NEW f
  PROVE  SumOf(f, S) = IF S = {} THEN 0 ELSE f[First(S)] + SumOf(f, S \ {First(S)})
<1>1. PICK g : IsSum(g, f, S)
  BY FoldExists
<1>2. SumOf(f, S) = g[S]
  BY <1>1, SumIsFold
<1>3. CASE S = {}
  BY <1>1, <1>2, <1>3 DEF IsSum
<1>4. CASE S # {}
  <2> DEFINE T == S \ {First(S)}
             h == [s \in SUBSET T |-> g[s]]
  <2>1. IsFiniteSet(T) /\ SUBSET T \subseteq SUBSET S
    BY FS_Subset
  <2>2. \A s \in SUBSET T :
          g[s] = IF s = {} THEN 0 ELSE f[First(s)] + g[s \ {First(s)}]
    BY <1>1, <2>1 DEF IsSum
  <2>3. \A s \in SUBSET T : s \ {First(s)} \in SUBSET T
    OBVIOUS
  <2>4. IsSum(h, f, T)
    <3> HIDE DEF T
    <3> QED
      BY <2>2, <2>3 DEF IsSum
  <2>5. SumOf(f, T) = g[T]
    <3>1. SumOf(f, T) = h[T]
      BY <2>1, <2>4, SumIsFold
    <3> QED
      BY <3>1
  <2>6. g[S] = f[First(S)] + g[T]
    BY <1>1, <1>4 DEF IsSum
  <2> QED
    BY <1>2, <1>4, <2>5, <2>6
<1> QED
  BY <1>3, <1>4

LEMMA SumEmpty == ASSUME NEW f PROVE SumOf(f, {}) = 0
BY SumEquation, FS_EmptySet

LEMMA SumType ==
  ASSUME NEW S, IsFiniteSet(S), NEW f, \A x \in S : f[x] \in Nat
  PROVE  SumOf(f, S) \in Nat
<1> DEFINE N == {n \in Nat : \A s \in SUBSET S : Cardinality(s) = n => SumOf(f, s) \in Nat}
<1>0. \A s \in SUBSET S : IsFiniteSet(s) /\ Cardinality(s) \in Nat
  BY FS_Subset, FS_CardinalityType
<1>1. 0 \in N
  BY <1>0, SumEmpty, FS_EmptySet
<1>2. ASSUME NEW n \in Nat, n \in N PROVE n + 1 \in N
  <2> SUFFICES ASSUME NEW s \in SUBSET S, Cardinality(s) = n + 1 PROVE SumOf(f, s) \in Nat
    OBVIOUS
  <2>1. s # {} /\ First(s) \in s
    BY <1>0, FS_EmptySet, FirstIn
  <2>2. Cardinality(s \ {First(s)}) = n /\ s \ {First(s)} \in SUBSET S
    <3>1. IsFiniteSet(s) /\ First(s) \in s
      BY <1>0, <2>1
    <3>2. Cardinality(s \ {First(s)}) = Cardinality(s) - 1
      BY ONLY <3>1, FS_RemoveElement
    <3> QED
      BY <3>2
  <2>3. SumOf(f, s) = f[First(s)] + SumOf(f, s \ {First(s)})
    BY <1>0, <2>1, SumEquation
  <2> QED
    BY <1>2, <2>1, <2>2, <2>3
<1>3. Nat \subseteq N
  <2> HIDE DEF N
  <2> QED
    BY <1>1, <1>2, InductionOnNat
<1> QED
  BY <1>0, <1>3

\* The order in which the elements are added is of no importance.
LEMMA SumRemove ==
  ASSUME NEW S, IsFiniteSet(S), NEW f, \A x \in S : f[x] \in Nat, NEW a \in S
  PROVE  SumOf(f, S) = f[a] + SumOf(f, S \ {a})
<1> DEFINE P(s) == \A x \in s : SumOf(f, s) = f[x] + SumOf(f, s \ {x})
           N == {n \in Nat : \A s \in SUBSET S : Cardinality(s) = n => P(s)}
<1>0. \A s \in SUBSET S : IsFiniteSet(s) /\ Cardinality(s) \in Nat /\ SumOf(f, s) \in Nat
  BY FS_Subset, FS_CardinalityType, SumType
<1>1. 0 \in N
  BY <1>0, FS_EmptySet
<1>2. ASSUME NEW n \in Nat, n \in N PROVE n + 1 \in N
  <2> SUFFICES ASSUME NEW s \in SUBSET S, Cardinality(s) = n + 1, NEW x \in s
               PROVE  SumOf(f, s) = f[x] + SumOf(f, s \ {x})
    OBVIOUS
  <2> DEFINE y == First(s)
  <2>1. y \in s
    BY FirstIn
  <2>2. SumOf(f, s) = f[y] + SumOf(f, s \ {y})
    BY <1>0, <2>1, SumEquation
  <2> HIDE DEF y
  <2>3. CASE x = y
    BY <2>2, <2>3
  <2>4. CASE x # y
    <3>1. ASSUME NEW z \in s, NEW w \in s, z # w
          PROVE  SumOf(f, s \ {z}) = f[w] + SumOf(f, (s \ {z}) \ {w})
      <4>1. Cardinality(s \ {z}) = Cardinality(s) - 1
        BY <1>0, FS_RemoveElement
      <4> QED
        BY <1>2, <3>1, <4>1
    <3>2. (s \ {x}) \ {y} = (s \ {y}) \ {x}
      OBVIOUS
    <3>3. /\ SumOf(f, s \ {y}) = f[x] + SumOf(f, (s \ {y}) \ {x})
          /\ SumOf(f, s \ {x}) = f[y] + SumOf(f, (s \ {y}) \ {x})
      BY <2>1, <2>4, <3>1, <3>2
    <3>4. f[x] \in Nat /\ f[y] \in Nat /\ SumOf(f, (s \ {y}) \ {x}) \in Nat
      BY <1>0, <2>1
    <3> QED
      BY <2>2, <3>3, <3>4
  <2> QED
    BY <2>3, <2>4
<1>3. Nat \subseteq N
  <2> HIDE DEF N
  <2> QED
    BY <1>1, <1>2, InductionOnNat
<1> QED
  BY <1>0, <1>3

LEMMA SumAdd ==
  ASSUME NEW S, IsFiniteSet(S), NEW a, a \notin S,
         NEW f, \A x \in S \cup {a} : f[x] \in Nat
  PROVE  SumOf(f, S \cup {a}) = f[a] + SumOf(f, S)
<1>1. IsFiniteSet(S \cup {a}) /\ (S \cup {a}) \ {a} = S
  BY FS_AddElement
<1> QED
  BY <1>1, SumRemove

\* Only what f is on S matters.
LEMMA SumSame ==
  ASSUME NEW S, IsFiniteSet(S), NEW f, NEW g,
         \A x \in S : f[x] \in Nat /\ f[x] = g[x]
  PROVE  SumOf(f, S) = SumOf(g, S)
<1> DEFINE T == {s \in SUBSET S : SumOf(f, s) = SumOf(g, s)}
<1>1. {} \in T
  BY SumEmpty
<1>2. ASSUME NEW s \in SUBSET S, NEW x \in S, s \in T, x \notin s PROVE s \cup {x} \in T
  <2>1. IsFiniteSet(s) /\ s \cup {x} \in SUBSET S
    BY FS_Subset
  <2>2. SumOf(f, s \cup {x}) = f[x] + SumOf(f, s)
    BY <1>2, <2>1, SumAdd
  <2>3. SumOf(g, s \cup {x}) = g[x] + SumOf(g, s)
    BY <1>2, <2>1, SumAdd
  <2> QED
    BY <1>2, <2>1, <2>2, <2>3
<1> HIDE DEF T
<1>3. S \in T
  BY <1>1, <1>2, InductionOnSubsets
<1> QED
  BY <1>3 DEF T

LEMMA SumUnion ==
  ASSUME NEW S, NEW R, IsFiniteSet(S), IsFiniteSet(R), S \cap R = {},
         NEW f, \A x \in S \cup R : f[x] \in Nat
  PROVE  SumOf(f, S \cup R) = SumOf(f, S) + SumOf(f, R)
<1> DEFINE T == {s \in SUBSET S : SumOf(f, s \cup R) = SumOf(f, s) + SumOf(f, R)}
<1>0. \A s \in SUBSET S : /\ IsFiniteSet(s) /\ IsFiniteSet(s \cup R)
                          /\ SumOf(f, s) \in Nat /\ SumOf(f, R) \in Nat
  <2> SUFFICES ASSUME NEW s \in SUBSET S
               PROVE  /\ IsFiniteSet(s) /\ IsFiniteSet(s \cup R)
                      /\ SumOf(f, s) \in Nat /\ SumOf(f, R) \in Nat
    OBVIOUS
  <2>1. IsFiniteSet(s)
    BY FS_Subset
  <2>2. IsFiniteSet(s \cup R)
    BY <2>1, FS_Union
  <2> QED
    BY <2>1, <2>2, SumType
<1>1. {} \in T
  BY <1>0, SumEmpty
<1>2. ASSUME NEW s \in SUBSET S, NEW x \in S, s \in T, x \notin s PROVE s \cup {x} \in T
  <2>1. x \notin s \cup R /\ s \cup {x} \in SUBSET S /\ f[x] \in Nat
    BY <1>2
  <2>2. SumOf(f, s \cup {x}) = f[x] + SumOf(f, s)
    BY <1>0, <1>2, <2>1, SumAdd
  <2>3. SumOf(f, (s \cup R) \cup {x}) = f[x] + SumOf(f, s \cup R)
    BY <1>0, <2>1, SumAdd
  <2>4. (s \cup R) \cup {x} = (s \cup {x}) \cup R
    OBVIOUS
  <2> QED
    BY <1>0, <1>2, <2>1, <2>2, <2>3, <2>4
<1> HIDE DEF T
<1>3. S \in T
  BY <1>1, <1>2, InductionOnSubsets
<1> QED
  BY <1>3 DEF T

\* A part sums up to no more than the whole.
LEMMA SumSubset ==
  ASSUME NEW S, NEW R \in SUBSET S, IsFiniteSet(S), NEW f, \A x \in S : f[x] \in Nat
  PROVE  SumOf(f, R) <= SumOf(f, S)
<1>1. IsFiniteSet(R) /\ IsFiniteSet(S \ R) /\ R \cup (S \ R) = S
  BY FS_Subset
<1>2. SumOf(f, R \cup (S \ R)) = SumOf(f, R) + SumOf(f, S \ R)
  BY <1>1, SumUnion
<1>3. SumOf(f, R) \in Nat /\ SumOf(f, S \ R) \in Nat
  BY <1>1, SumType
<1>4. SumOf(f, S) = SumOf(f, R) + SumOf(f, S \ R)
  BY <1>1, <1>2
<1> QED
  BY <1>3, <1>4

\* The same number for everybody.
LEMMA SumConstant ==
  ASSUME NEW S, IsFiniteSet(S), NEW c \in Nat, NEW f, \A x \in S : f[x] = c
  PROVE  SumOf(f, S) = c * Cardinality(S)
<1> DEFINE T == {s \in SUBSET S : SumOf(f, s) = c * Cardinality(s)}
<1>0. \A s \in SUBSET S : IsFiniteSet(s) /\ Cardinality(s) \in Nat
  BY FS_Subset, FS_CardinalityType
<1>1. {} \in T
  BY SumEmpty, FS_EmptySet
<1>2. ASSUME NEW s \in SUBSET S, NEW x \in S, s \in T, x \notin s PROVE s \cup {x} \in T
  <2>1. SumOf(f, s \cup {x}) = c + SumOf(f, s)
    <3>1. \A y \in s \cup {x} : f[y] \in Nat
      OBVIOUS
    <3> QED
      BY <1>0, <1>2, <3>1, SumAdd
  <2>2. Cardinality(s \cup {x}) = Cardinality(s) + 1
    BY <1>0, <1>2, FS_AddElement
  <2>3. c * (Cardinality(s) + 1) = c + c * Cardinality(s)
    BY <1>0
  <2> QED
    BY <1>2, <2>1, <2>2, <2>3
<1> HIDE DEF T
<1>3. S \in T
  BY <1>1, <1>2, InductionOnSubsets
<1> QED
  BY <1>3 DEF T

\* Instead of the elements, what an injective h makes of them.
LEMMA SumImage ==
  ASSUME NEW S, IsFiniteSet(S), NEW h, NEW f, \A x \in S : f[h[x]] \in Nat,
         \A x, y \in S : h[x] = h[y] => x = y
  PROVE  SumOf(f, {h[x] : x \in S}) = SumOf([x \in S |-> f[h[x]]], S)
<1> DEFINE k == [x \in S |-> f[h[x]]]
           Image(s) == {h[x] : x \in s}
           T == {s \in SUBSET S : /\ IsFiniteSet(Image(s))
                                  /\ SumOf(f, Image(s)) = SumOf(k, s)}
<1>1. {} \in T
  BY SumEmpty, FS_EmptySet
<1>2. ASSUME NEW s \in SUBSET S, NEW x \in S, s \in T, x \notin s PROVE s \cup {x} \in T
  <2>1. IsFiniteSet(s) /\ IsFiniteSet(Image(s)) /\ s \cup {x} \in SUBSET S
    BY <1>2, FS_Subset
  <2>2. Image(s \cup {x}) = Image(s) \cup {h[x]} /\ h[x] \notin Image(s)
    BY <1>2
  <2>3. \A y \in Image(s) \cup {h[x]} : f[y] \in Nat
    OBVIOUS
  <2>4. \A y \in s \cup {x} : k[y] \in Nat
    OBVIOUS
  <2>5. k[x] = f[h[x]]
    OBVIOUS
  <2> HIDE DEF Image, k
  <2>6. SumOf(f, Image(s) \cup {h[x]}) = f[h[x]] + SumOf(f, Image(s))
    BY <2>1, <2>2, <2>3, SumAdd
  <2>7. SumOf(k, s \cup {x}) = k[x] + SumOf(k, s)
    BY <1>2, <2>1, <2>4, SumAdd
  <2>8. IsFiniteSet(Image(s) \cup {h[x]})
    BY <2>1, FS_AddElement
  <2>9. SumOf(f, Image(s)) = SumOf(k, s)
    BY <1>2 DEF Image, k
  <2>a. /\ IsFiniteSet(Image(s \cup {x}))
        /\ SumOf(f, Image(s \cup {x})) = SumOf(k, s \cup {x})
    BY <2>2, <2>5, <2>6, <2>7, <2>8, <2>9
  <2> QED
    BY <2>1, <2>a DEF Image, k
<1> HIDE DEF T
<1>3. S \in T
  BY <1>1, <1>2, InductionOnSubsets
<1> QED
  BY <1>3 DEF T

-----------------------------------------------------------------------------
(* Sizes.                                                                  *)

UnionOf(f, S) == UNION {f[x] : x \in S}

\* Sets that have nothing in common are together as large as one by one.
LEMMA SumOfSizes ==
  ASSUME NEW S, IsFiniteSet(S), NEW f, \A x \in S : IsFiniteSet(f[x]),
         \A x, y \in S : x # y => f[x] \cap f[y] = {},
         NEW g, \A x \in S : g[x] = Cardinality(f[x])
  PROVE  /\ IsFiniteSet(UnionOf(f, S))
         /\ SumOf(g, S) = Cardinality(UnionOf(f, S))
<1> DEFINE All(s) == UnionOf(f, s)
           T == {s \in SUBSET S : IsFiniteSet(All(s)) /\ SumOf(g, s) = Cardinality(All(s))}
<1>0. \A x \in S : g[x] = Cardinality(f[x]) /\ g[x] \in Nat
  BY FS_CardinalityType
<1>1. {} \in T
  <2>1. All({}) = {}
    BY DEF UnionOf
  <2> QED
    BY <2>1, SumEmpty, FS_EmptySet
<1>2. ASSUME NEW s \in SUBSET S, NEW x \in S, s \in T, x \notin s PROVE s \cup {x} \in T
  <2>1. All(s \cup {x}) = All(s) \cup f[x] /\ All(s) \cap f[x] = {}
    BY <1>2 DEF UnionOf
  <2>2. IsFiniteSet(s) /\ \A y \in s \cup {x} : g[y] \in Nat
    BY <1>0, FS_Subset
  <2>3. SumOf(g, s \cup {x}) = g[x] + SumOf(g, s)
    BY <1>2, <2>2, SumAdd
  <2>4. IsFiniteSet(All(s)) /\ IsFiniteSet(f[x]) /\ SumOf(g, s) = Cardinality(All(s))
    BY <1>2
  <2> HIDE DEF All, T
  <2>5. /\ IsFiniteSet(All(s) \cup f[x])
        /\ Cardinality(All(s) \cup f[x])
             = Cardinality(All(s)) + Cardinality(f[x]) - Cardinality(All(s) \cap f[x])
    BY <2>4, FS_Union
  <2>6. Cardinality(All(s)) \in Nat /\ Cardinality({}) = 0
    BY <2>4, FS_CardinalityType, FS_EmptySet
  <2>7. Cardinality(All(s) \cap f[x]) = 0
    BY <2>1, <2>6, Zenon
  <2>8. g[x] = Cardinality(f[x]) /\ g[x] \in Nat
    BY <1>0
  <2>9. g[x] + SumOf(g, s) = Cardinality(All(s) \cup f[x])
    BY <2>4, <2>5, <2>6, <2>7, <2>8
  <2> QED
    BY <2>1, <2>3, <2>5, <2>9 DEF T
<1> HIDE DEF T
<1>3. S \in T
  BY <1>1, <1>2, InductionOnSubsets
<1> QED
  BY <1>3 DEF T

LEMMA TwoElements ==
  ASSUME NEW x, NEW y, x # y
  PROVE  IsFiniteSet({x} \cup {y}) /\ Cardinality({x} \cup {y}) = 2
<1>1. IsFiniteSet({x}) /\ Cardinality({x}) = 1
  BY FS_Singleton
<1>2. y \notin {x}
  OBVIOUS
<1>3. IsFiniteSet({x} \cup {y}) /\ Cardinality({x} \cup {y}) = Cardinality({x}) + 1
  BY <1>1, <1>2, FS_AddElement, Zenon
<1> QED
  BY ONLY <1>1, <1>3

LEMMA AtMostOne ==
  ASSUME NEW S, IsFiniteSet(S), Cardinality(S) <= 1, NEW x \in S, NEW y \in S
  PROVE  x = y
<1> SUFFICES ASSUME x # y PROVE FALSE
  OBVIOUS
<1>1. Cardinality({x} \cup {y}) = 2
  BY TwoElements
<1>2. Cardinality({x} \cup {y}) <= Cardinality(S) /\ Cardinality(S) \in Nat
  BY FS_Subset, FS_CardinalityType
<1> QED
  BY <1>1, <1>2

\* An injection does not lose anything.
LEMMA ImageSize ==
  ASSUME NEW S, IsFiniteSet(S), NEW h, \A x, y \in S : h[x] = h[y] => x = y
  PROVE  /\ IsFiniteSet({h[x] : x \in S})
         /\ Cardinality({h[x] : x \in S}) = Cardinality(S)
<1> DEFINE T == {h[x] : x \in S}
           g == [x \in S |-> h[x]]
<1>1. g \in Bijection(S, T)
  BY DEF Bijection, Injection, Surjection, IsInjective
<1> HIDE DEF g
<1>2. ExistsBijection(S, T)
  BY <1>1 DEF ExistsBijection
<1> HIDE DEF T
<1>3. IsFiniteSet(T) /\ Cardinality(T) = Cardinality(S)
  BY <1>2, FS_Bijection
<1> QED
  BY <1>3 DEF T

LEMMA DisjointUnion ==
  ASSUME NEW S, IsFiniteSet(S), NEW T, IsFiniteSet(T), S \cap T = {}
  PROVE  IsFiniteSet(S \cup T) /\ Cardinality(S \cup T) = Cardinality(S) + Cardinality(T)
<1>1. Cardinality(S) \in Nat /\ Cardinality(T) \in Nat
  BY FS_CardinalityType
<1>2. Cardinality(S \cap T) = 0
  BY FS_EmptySet, Zenon
<1>3. /\ IsFiniteSet(S \cup T)
      /\ Cardinality(S \cup T) = Cardinality(S) + Cardinality(T) - Cardinality(S \cap T)
  BY FS_Union
<1> QED
  BY <1>1, <1>2, <1>3

LEMMA FourDiffer ==
  ASSUME NEW a, NEW b, NEW c, NEW d, a # b, a # c, a # d, b # c, b # d, c # d
  PROVE  IsFiniteSet({a, b, c, d}) /\ Cardinality({a, b, c, d}) = 4
<1>1. IsFiniteSet({a}) /\ Cardinality({a}) = 1
  BY FS_Singleton
<1>2. IsFiniteSet({a} \cup {b}) /\ Cardinality({a} \cup {b}) = 2
  BY <1>1, FS_AddElement
<1>3. IsFiniteSet(({a} \cup {b}) \cup {c}) /\ Cardinality(({a} \cup {b}) \cup {c}) = 3
  BY <1>2, FS_AddElement
<1>4. /\ IsFiniteSet((({a} \cup {b}) \cup {c}) \cup {d})
      /\ Cardinality((({a} \cup {b}) \cup {c}) \cup {d}) = 4
  BY <1>3, FS_AddElement
<1>5. {a, b, c, d} = (({a} \cup {b}) \cup {c}) \cup {d}
  OBVIOUS
<1> QED
  BY <1>4, <1>5

-----------------------------------------------------------------------------
(***************************************************************************)
(* Folds of a sequence, FoldLeft(op, base, seq): the fold of its indices,  *)
(* the last one outermost.  op is given as a function step of the value so *)
(* far and of an index.                                                    *)
(***************************************************************************)

IsFold(g, step, base, n) ==
  g = [s \in SUBSET (1 .. n) |->
         IF s = {} THEN base ELSE step[<<g[s \ {Max(s)}], Max(s)>>]]

LEMMA MaxIn ==
  ASSUME NEW n \in Nat
  PROVE  /\ \A s \in SUBSET (1 .. n) : s # {} => Max(s) \in s
         /\ n > 0 => Max(1 .. n) = n
<1>1. ASSUME NEW s \in SUBSET (1 .. n), s # {} PROVE Max(s) \in s
  <2> DEFINE below == {n - x : x \in s}
  <2>1. below \in SUBSET Nat /\ below # {}
    <3>1. \A x \in s : n - x \in Nat
      OBVIOUS
    <3> QED
      BY <1>1, <3>1
  <2>2. PICK m \in below : \A y \in below : m <= y
    <3> HIDE DEF below
    <3> QED
      BY <2>1, LeastOfNat
  <2>3. PICK x \in s : m = n - x
    BY <2>2
  <2>4. \A y \in s : x >= y
    BY <2>2, <2>3
  <2> QED
    BY <2>4 DEF Max
<1>2. ASSUME n > 0 PROVE Max(1 .. n) = n
  BY <1>2 DEF Max
<1> QED
  BY <1>1, <1>2

LEMMA FoldLeftExists ==
  ASSUME NEW A, NEW base \in A, NEW n \in Nat, NEW step \in [A \X (1 .. n) -> A]
  PROVE  \E g \in [SUBSET (1 .. n) -> A] : IsFold(g, step, base, n)
<1> DEFINE S == 1 .. n
           Upto(k) == {s \in SUBSET S : Cardinality(s) <= k}
           Value(g, s) == IF s = {} THEN base ELSE step[<<g[s \ {Max(s)}], Max(s)>>]
           Approx(g, k) == g = [s \in Upto(k) |-> Value(g, s)]
           N == {k \in Nat : \E g \in [Upto(k) -> A] : Approx(g, k)}
<1>a. IsFiniteSet(S) /\ Cardinality(S) = n
  BY FS_Interval
<1>0. \A s \in SUBSET S : IsFiniteSet(s) /\ Cardinality(s) \in Nat
  BY <1>a, FS_Subset, FS_CardinalityType
<1>b. \A s \in SUBSET S : s # {} => Max(s) \in s
  BY MaxIn
<1>1. 0 \in N
  <2>1. Upto(0) = {{}}
    BY <1>0, FS_EmptySet
  <2>2. Approx([s \in Upto(0) |-> base], 0)
    BY <2>1
  <2> QED
    BY <2>2
<1>2. ASSUME NEW k \in Nat, k \in N PROVE k + 1 \in N
  <2>1. PICK g \in [Upto(k) -> A] : Approx(g, k)
    BY <1>2
  <2> DEFINE h == [s \in Upto(k + 1) |-> Value(g, s)]
  <2>2. ASSUME NEW s \in Upto(k + 1), s # {}
        PROVE  s \ {Max(s)} \in Upto(k) /\ Max(s) \in S
    <3>1. IsFiniteSet(s) /\ Max(s) \in s /\ s \in SUBSET S
      BY <1>0, <1>b, <2>2
    <3>2. Cardinality(s \ {Max(s)}) = Cardinality(s) - 1
      BY ONLY <3>1, FS_RemoveElement
    <3>3. Cardinality(s) <= k + 1 /\ Cardinality(s) \in Nat
      BY <1>0
    <3>4. Cardinality(s \ {Max(s)}) <= k
      BY <3>2, <3>3
    <3> QED
      BY <3>1, <3>4
  <2>3. \A s \in Upto(k) : s \in Upto(k + 1) /\ g[s] = h[s]
    <3>1. \A s \in Upto(k) : s \in Upto(k + 1)
      BY <1>0
    <3> QED
      BY <2>1, <3>1
  <2>4. \A s \in Upto(k + 1) : h[s] = Value(h, s) /\ h[s] \in A
    <3> SUFFICES ASSUME NEW s \in Upto(k + 1) PROVE h[s] = Value(h, s) /\ h[s] \in A
      OBVIOUS
    <3>1. CASE s = {}
      BY <3>1
    <3>2. CASE s # {}
      <4>1. s \ {Max(s)} \in Upto(k) /\ Max(s) \in S
        BY <2>2, <3>2
      <4>2. g[s \ {Max(s)}] \in A /\ g[s \ {Max(s)}] = h[s \ {Max(s)}]
        <5> HIDE DEF Upto, h
        <5> QED
          BY <2>1, <2>3, <4>1
      <4>3. <<g[s \ {Max(s)}], Max(s)>> \in A \X S
        BY <4>1, <4>2
      <4>4. step[<<g[s \ {Max(s)}], Max(s)>>] \in A
        BY <4>3
      <4>5. h[s] = step[<<g[s \ {Max(s)}], Max(s)>>]
        BY <3>2
      <4> QED
        BY <3>2, <4>2, <4>4, <4>5
    <3> QED
      BY <3>1, <3>2
  <2>5. Approx(h, k + 1) /\ h \in [Upto(k + 1) -> A]
    <3> HIDE DEF Upto, Value
    <3>1. h = [s \in Upto(k + 1) |-> h[s]]
      OBVIOUS
    <3> QED
      BY <2>4, <3>1
  <2> HIDE DEF Approx, Upto, h
  <2>6. \E q \in [Upto(k + 1) -> A] : Approx(q, k + 1)
    BY <2>5
  <2> QED
    BY <2>6
<1>3. Nat \subseteq N
  <2> HIDE DEF N
  <2> QED
    BY <1>1, <1>2, InductionOnNat
<1>4. PICK g \in [Upto(n) -> A] : Approx(g, n)
  BY <1>3
<1>5. Upto(n) = SUBSET S
  BY <1>a, FS_Subset
<1> QED
  BY <1>4, <1>5 DEF IsFold

-----------------------------------------------------------------------------
(***************************************************************************)
(* Lists of different things, as functions on 1 .. N, and a place n in     *)
(* them: taking one thing out, putting one in, or moving one carries at    *)
(* most one of the others over the place, either way.                      *)
(***************************************************************************)

UpTo(s, N, n) == {s[k] : k \in {i \in 1 .. N : i <= n}}
Behind(s, N, n)  == {s[k] : k \in {i \in 1 .. N : i > n}}

AllDiffer(s, N) == \A k, m \in 1 .. N : s[k] = s[m] => k = m

\* q is s without its i-th thing, and with new as its j-th.
Without(q, s, N, i) ==
  /\ \A k \in 1 .. i - 1 : q[k] = s[k]
  /\ \A k \in i .. N - 1 : q[k] = s[k + 1]
With(q, s, N, j, new) ==
  /\ \A k \in 1 .. j - 1 : q[k] = s[k]
  /\ q[j] = new
  /\ \A k \in j + 1 .. N + 1 : q[k] = s[k - 1]

LEMMA TakenOut ==
  ASSUME NEW N \in Nat, NEW i \in 1 .. N, NEW n \in Nat, NEW s, NEW q,
         Without(q, s, N, i), AllDiffer(s, N)
  PROVE  /\ AllDiffer(q, N - 1)
         /\ UpTo(q, N - 1, n) \subseteq UpTo(s, N, n) \cup {s[n + 1]}
         /\ Behind(q, N - 1, n) \subseteq Behind(s, N, n)
<1>1. AllDiffer(q, N - 1)
  BY DEF AllDiffer, Without
<1>2. \A k \in 1 .. N - 1 : k <= n => q[k] \in UpTo(s, N, n) \cup {s[n + 1]}
  BY DEF UpTo, Without
<1>3. \A k \in 1 .. N - 1 : k > n => q[k] \in Behind(s, N, n)
  BY DEF Behind, Without
<1> QED
  BY <1>1, <1>2, <1>3 DEF UpTo, Behind

LEMMA PutIn ==
  ASSUME NEW N \in Nat, NEW j \in 1 .. N + 1, NEW n \in Nat, NEW s, NEW q, NEW new,
         With(q, s, N, j, new), AllDiffer(s, N), \A k \in 1 .. N : s[k] # new
  PROVE  /\ AllDiffer(q, N + 1)
         /\ UpTo(q, N + 1, n) \subseteq UpTo(s, N, n) \cup {new}
         /\ Behind(q, N + 1, n) \subseteq Behind(s, N, n) \cup {s[n], new}
<1>1. AllDiffer(q, N + 1)
  BY DEF AllDiffer, With
<1>2. \A k \in 1 .. N + 1 : k <= n => q[k] \in UpTo(s, N, n) \cup {new}
  BY DEF UpTo, With
<1>3. \A k \in 1 .. N + 1 : k > n => q[k] \in Behind(s, N, n) \cup {s[n], new}
  BY DEF Behind, With
<1> QED
  BY <1>1, <1>2, <1>3 DEF UpTo, Behind

CarriesOne(q, s, N, n) ==
  /\ \E x : UpTo(q, N, n) \subseteq UpTo(s, N, n) \cup {x}
  /\ \E y : Behind(q, N, n) \subseteq Behind(s, N, n) \cup {y}

LEMMA MovedOver ==
  ASSUME NEW N \in Nat, NEW i \in 1 .. N, NEW j \in 1 .. N, NEW n \in Nat,
         NEW s, NEW t, NEW q, NEW M, M = N - 1,
         Without(t, s, N, i), With(q, t, M, j, s[i]), AllDiffer(s, N)
  PROVE  /\ AllDiffer(q, N)
         /\ CarriesOne(q, s, N, n)
<1> DEFINE from == [k \in 1 .. N |->
                      IF k = j THEN i
                      ELSE IF k < j THEN (IF k < i THEN k ELSE k + 1)
                      ELSE (IF k - 1 < i THEN k - 1 ELSE k)]
<1>1. /\ from[j] = i
      /\ \A k \in 1 .. N : k < j /\ k < i => from[k] = k
      /\ \A k \in 1 .. N : k < j /\ k >= i => from[k] = k + 1
      /\ \A k \in 1 .. N : k > j /\ k <= i => from[k] = k - 1
      /\ \A k \in 1 .. N : k > j /\ k > i => from[k] = k
  OBVIOUS
<1> HIDE DEF from
<1>2. \A k \in 1 .. N : q[k] = s[from[k]] /\ from[k] \in 1 .. N
  <2>1. M + 1 = N
    OBVIOUS
  <2>2. \A k \in j + 1 .. N : q[k] = t[k - 1]
    BY <2>1 DEF With
  <2> QED
    BY <1>1, <2>2 DEF Without, With
<1>3. \A k, m \in 1 .. N : from[k] = from[m] => k = m
  BY <1>1
<1>4. AllDiffer(q, N)
  BY <1>2, <1>3 DEF AllDiffer
<1>5. \E x : \A k \in 1 .. N : k <= n => from[k] <= n \/ from[k] = x
  <2>1. CASE j <= n
    <3>1. \A k \in 1 .. N : k <= n => from[k] <= n \/ from[k] = i
      BY <1>1, <2>1
    <3> QED
      BY <3>1
  <2>2. CASE ~(j <= n)
    <3>1. \A k \in 1 .. N : k <= n => from[k] <= n \/ from[k] = n + 1
      BY <1>1, <2>2
    <3> QED
      BY <3>1
  <2> QED
    BY <2>1, <2>2
<1>6. \E y : \A k \in 1 .. N : k > n => from[k] > n \/ from[k] = y
  <2>1. CASE j <= n
    <3>1. \A k \in 1 .. N : k > n => from[k] > n \/ from[k] = n
      BY <1>1, <2>1
    <3> QED
      BY <3>1
  <2>2. CASE ~(j <= n)
    <3>1. \A k \in 1 .. N : k > n => from[k] > n \/ from[k] = i
      BY <1>1, <2>2
    <3> QED
      BY <3>1
  <2> QED
    BY <2>1, <2>2
<1>7. \E x : UpTo(q, N, n) \subseteq UpTo(s, N, n) \cup {x}
  <2>1. PICK x : \A k \in 1 .. N : k <= n => from[k] <= n \/ from[k] = x
    BY <1>5
  <2>2. \A k \in 1 .. N : k <= n => q[k] \in UpTo(s, N, n) \cup {s[x]}
    BY <1>2, <2>1 DEF UpTo
  <2>3. UpTo(q, N, n) \subseteq UpTo(s, N, n) \cup {s[x]}
    BY <2>2 DEF UpTo
  <2> QED
    BY <2>3
<1>8. \E y : Behind(q, N, n) \subseteq Behind(s, N, n) \cup {y}
  <2>1. PICK y : \A k \in 1 .. N : k > n => from[k] > n \/ from[k] = y
    BY <1>6
  <2>2. \A k \in 1 .. N : k > n => q[k] \in Behind(s, N, n) \cup {s[y]}
    BY <1>2, <2>1 DEF Behind
  <2>3. Behind(q, N, n) \subseteq Behind(s, N, n) \cup {s[y]}
    BY <2>2 DEF Behind
  <2> QED
    BY <2>3
<1> QED
  BY <1>4, <1>7, <1>8 DEF CarriesOne

\* Adding one thing to a set, or a new one, makes what it has in common with
\* another at most one larger.
LEMMA OneMore ==
  ASSUME NEW A, NEW S, NEW T, NEW x, NEW new, IsFiniteSet(A), new \notin A,
         T \subseteq S \cup {x, new}
  PROVE  /\ Cardinality(A \cap T) <= Cardinality(A \cap S) + 1
         /\ Cardinality(A \cap T) \in Nat /\ Cardinality(A \cap S) \in Nat
<1>1. IsFiniteSet(A \cap T) /\ IsFiniteSet(A \cap S)
  BY FS_Subset
<1>2. (A \cap T) \subseteq (A \cap S) \cup {x}
  OBVIOUS
<1>3. IsFiniteSet((A \cap S) \cup {x}) /\ Cardinality((A \cap S) \cup {x}) <= Cardinality(A \cap S) + 1
  <2>1. /\ IsFiniteSet((A \cap S) \cup {x})
        /\ Cardinality((A \cap S) \cup {x}) = IF x \in A \cap S THEN Cardinality(A \cap S)
                                             ELSE Cardinality(A \cap S) + 1
    BY <1>1, FS_AddElement
  <2>2. Cardinality(A \cap S) \in Nat
    BY <1>1, FS_CardinalityType
  <2> QED
    BY <2>1, <2>2
<1>4. Cardinality(A \cap T) <= Cardinality((A \cap S) \cup {x})
  BY <1>2, <1>3, FS_Subset
<1>5. Cardinality((A \cap S) \cup {x}) \in Nat /\ Cardinality(A \cap T) \in Nat /\ Cardinality(A \cap S) \in Nat
  BY <1>1, <1>3, FS_CardinalityType
<1> QED
  BY <1>3, <1>4, <1>5

\* A finite set of naturals has a greatest element.
LEMMA GreatestOfFinite ==
  ASSUME NEW S \in SUBSET Nat, IsFiniteSet(S), S # {}
  PROVE  Max(S) \in S /\ \A y \in S : y <= Max(S)
<1> DEFINE T == {s \in SUBSET S : \E n \in Nat : \A x \in s : x <= n}
<1>1. {} \in T
  OBVIOUS
<1>2. ASSUME NEW s \in SUBSET S, NEW x \in S, s \in T PROVE s \cup {x} \in T
  <2>1. PICK n \in Nat : \A y \in s : y <= n
    BY <1>2
  <2>2. \A y \in s \cup {x} : y <= n + x
    BY <2>1
  <2>3. n + x \in Nat
    OBVIOUS
  <2> QED
    BY <2>2, <2>3
<1>3. S \in T
  <2> HIDE DEF T
  <2> QED
    BY <1>1, <1>2, InductionOnSubsets
<1>4. PICK n \in Nat : \A x \in S : x <= n
  BY <1>3
<1> DEFINE below == {n - x : x \in S}
<1>5. below \in SUBSET Nat /\ below # {}
  <2>1. \A x \in S : n - x \in Nat
    BY <1>4
  <2> QED
    BY <2>1
<1>6. PICK m \in below : \A y \in below : m <= y
  <2> HIDE DEF below
  <2> QED
    BY <1>5, LeastOfNat
<1>7. PICK x \in S : m = n - x
  BY <1>6
<1>8. \A y \in S : x >= y
  <2> SUFFICES ASSUME NEW y \in S PROVE x >= y
    OBVIOUS
  <2>1. n - y \in below
    OBVIOUS
  <2> HIDE DEF below
  <2>2. n - x <= n - y
    BY <1>6, <1>7, <2>1
  <2> QED
    BY <2>2
<1> QED
  BY <1>8 DEF Max

-----------------------------------------------------------------------------
(* A slice of a sequence, and one sequence behind another one.             *)

LEMMA SliceOf ==
  ASSUME NEW S, NEW s \in Seq(S), NEW m \in 1 .. Len(s) + 1, NEW n \in m - 1 .. Len(s)
  PROVE  /\ SubSeq(s, m, n) \in Seq(S) /\ Len(SubSeq(s, m, n)) = n - m + 1
         /\ \A k \in 1 .. n - m + 1 : SubSeq(s, m, n)[k] = s[m + k - 1]
<1>1. Len(s) \in Nat /\ m \in Int /\ n \in Int
  BY LenProperties
<1>2. \A k \in m .. n : s[k] \in S
  <2> SUFFICES ASSUME NEW k \in m .. n PROVE s[k] \in S
    OBVIOUS
  <2>1. k \in 1 .. Len(s)
    BY <1>1
  <2> QED
    BY <2>1, ElementOfSeq
<1> DEFINE q == SubSeq(s, m, n)
<1>3. /\ q \in Seq(S) /\ Len(q) = (IF m <= n THEN n - m + 1 ELSE 0)
      /\ \A k \in 1 .. n - m + 1 : q[k] = s[m + k - 1]
  BY <1>1, <1>2, SubSeqProperties
<1> HIDE DEF q
<1>4. Len(q) = n - m + 1
  BY <1>1, <1>3
<1> QED
  BY <1>3, <1>4 DEF q

\* The first k elements, and the others.
LEMMA TwoSlices ==
  ASSUME NEW S, NEW s \in Seq(S), NEW k \in 0 .. Len(s)
  PROVE  /\ SubSeq(s, 1, k) \in Seq(S) /\ Len(SubSeq(s, 1, k)) = k
         /\ \A i \in 1 .. k : SubSeq(s, 1, k)[i] = s[i]
         /\ SubSeq(s, k + 1, Len(s)) \in Seq(S) /\ Len(SubSeq(s, k + 1, Len(s))) = Len(s) - k
         /\ \A i \in 1 .. Len(s) - k : SubSeq(s, k + 1, Len(s))[i] = s[k + i]
<1> DEFINE m == k + 1
           n == Len(s)
<1>1. n \in Nat /\ k \in Nat /\ k <= n
  BY LenProperties
<1>2. /\ 1 \in 1 .. Len(s) + 1 /\ k \in 1 - 1 .. Len(s)
      /\ m \in 1 .. Len(s) + 1 /\ n \in m - 1 .. Len(s)
  BY <1>1
<1>3. /\ k - 1 + 1 = k /\ n - m + 1 = n - k
      /\ \A i \in Nat : 1 + i - 1 = i /\ m + i - 1 = k + i
  BY <1>1
<1>4. \A i : (i \in 1 .. k \/ i \in 1 .. n - k) => i \in Nat
  BY <1>1
<1>5. /\ SubSeq(s, 1, k) \in Seq(S) /\ Len(SubSeq(s, 1, k)) = k - 1 + 1
      /\ \A i \in 1 .. k - 1 + 1 : SubSeq(s, 1, k)[i] = s[1 + i - 1]
  BY <1>2, SliceOf, Zenon
<1> HIDE DEF m, n
<1>6. /\ SubSeq(s, m, n) \in Seq(S) /\ Len(SubSeq(s, m, n)) = n - m + 1
      /\ \A i \in 1 .. n - m + 1 : SubSeq(s, m, n)[i] = s[m + i - 1]
  BY <1>2, SliceOf, Zenon
<1>7. /\ SubSeq(s, m, n) \in Seq(S) /\ Len(SubSeq(s, m, n)) = n - k
      /\ \A i \in 1 .. n - k : SubSeq(s, m, n)[i] = s[k + i]
  BY ONLY <1>3, <1>4, <1>6, Zenon
<1>8. /\ SubSeq(s, 1, k) \in Seq(S) /\ Len(SubSeq(s, 1, k)) = k
      /\ \A i \in 1 .. k : SubSeq(s, 1, k)[i] = s[i]
  BY ONLY <1>3, <1>4, <1>5, Zenon
<1> QED
  BY <1>7, <1>8 DEF m, n

LEMMA ConcatAt ==
  ASSUME NEW S, NEW s \in Seq(S), NEW t \in Seq(S)
  PROVE  /\ s \o t \in Seq(S) /\ Len(s \o t) = Len(s) + Len(t)
         /\ \A k \in 1 .. Len(s) : (s \o t)[k] = s[k]
         /\ \A k \in Len(s) + 1 .. Len(s) + Len(t) : (s \o t)[k] = t[k - Len(s)]
<1>1. Len(s) \in Nat /\ Len(t) \in Nat
  BY LenProperties
<1> DEFINE q == s \o t
<1>2. /\ q \in Seq(S) /\ Len(q) = Len(s) + Len(t)
      /\ \A k \in 1 .. Len(s) + Len(t) : q[k] = IF k <= Len(s) THEN s[k] ELSE t[k - Len(s)]
  BY ConcatProperties
<1> HIDE DEF q
<1>3. \A k \in 1 .. Len(s) : q[k] = s[k]
  BY <1>1, <1>2
<1>4. \A k \in Len(s) + 1 .. Len(s) + Len(t) : q[k] = t[k - Len(s)]
  BY <1>1, <1>2
<1> QED
  BY <1>2, <1>3, <1>4 DEF q

\* A sequence that is one in front and another one behind it.
LEMMA JoinedIs ==
  ASSUME NEW S, NEW s \in Seq(S), NEW t \in Seq(S), NEW u \in Seq(S),
         Len(u) = Len(s) + Len(t), \A i \in 1 .. Len(s) : u[i] = s[i],
         \A i \in 1 .. Len(t) : u[Len(s) + i] = t[i]
  PROVE  s \o t = u
<1> DEFINE v == s \o t
           m == Len(s)
           n == Len(t)
<1>1. m \in Nat /\ n \in Nat
  OBVIOUS
<1>2. /\ v \in Seq(S) /\ Len(v) = m + n
      /\ \A i \in 1 .. m : v[i] = s[i]
      /\ \A i \in m + 1 .. m + n : v[i] = t[i - m]
  BY ConcatAt
<1>3. Len(u) = m + n /\ (\A i \in 1 .. m : u[i] = s[i]) /\ \A i \in 1 .. n : u[m + i] = t[i]
  OBVIOUS
<1> HIDE DEF v, m, n
<1>4. ASSUME NEW i \in 1 .. m + n PROVE v[i] = u[i]
  <2>1. CASE i <= m
    <3>1. i \in 1 .. m
      BY ONLY <1>1, <2>1, i \in 1 .. m + n
    <3> QED
      BY ONLY <1>2, <1>3, <3>1
  <2>2. CASE ~(i <= m)
    <3>1. i \in m + 1 .. m + n /\ i - m \in 1 .. n /\ m + (i - m) = i
      BY ONLY <1>1, <2>2, i \in 1 .. m + n
    <3>2. u[m + (i - m)] = t[i - m]
      BY ONLY <1>3, <3>1
    <3> QED
      BY ONLY <1>2, <3>1, <3>2
  <2> QED
    BY <2>1, <2>2
<1>5. v = u
  BY ONLY <1>2, <1>3, <1>4, u \in Seq(S), SeqEqual
<1> QED
  BY <1>5 DEF v

-----------------------------------------------------------------------------
(***************************************************************************)
(* Strings of digits.  A function on 0 .. n whose values are given one by  *)
(* the other is a run of step, from base.                                  *)
(***************************************************************************)

IsRun(g, step, base, n) ==
  g = [i \in 0 .. n |-> IF i = 0 THEN base ELSE step[<<g[i - 1], i>>]]

LEMMA RunExists ==
  ASSUME NEW A, NEW base \in A, NEW n \in Nat, NEW step \in [A \X (1 .. n) -> A]
  PROVE  \E g \in [0 .. n -> A] : IsRun(g, step, base, n)
<1> DEFINE N == {k \in Nat : k <= n => \E g \in [0 .. k -> A] : IsRun(g, step, base, k)}
<1>1. 0 \in N
  <2> DEFINE g == [i \in 0 .. 0 |-> base]
  <2>1. g \in [0 .. 0 -> A] /\ IsRun(g, step, base, 0)
    BY DEF IsRun
  <2> HIDE DEF g
  <2>2. \E f \in [0 .. 0 -> A] : IsRun(f, step, base, 0)
    BY <2>1
  <2> QED
    BY <2>2
<1>2. ASSUME NEW k \in Nat, k \in N PROVE k + 1 \in N
  <2> SUFFICES ASSUME k + 1 <= n
               PROVE  \E g \in [0 .. k + 1 -> A] : IsRun(g, step, base, k + 1)
    OBVIOUS
  <2>1. PICK g \in [0 .. k -> A] : IsRun(g, step, base, k)
    BY <1>2
  <2> DEFINE h == [i \in 0 .. k + 1 |-> IF i <= k THEN g[i] ELSE step[<<g[k], k + 1>>]]
  <2>2. \A i \in 0 .. k : h[i] = g[i] /\ g[i] \in A
    OBVIOUS
  <2>3. h[k + 1] = step[<<g[k], k + 1>>] /\ h[k + 1] \in A
    <3>1. h[k + 1] = step[<<g[k], k + 1>>]
      OBVIOUS
    <3>2. g[k] \in A /\ k + 1 \in 1 .. n
      OBVIOUS
    <3>3. <<g[k], k + 1>> \in A \X (1 .. n)
      BY <3>2
    <3> QED
      BY <3>1, <3>3
  <2>4. \A i \in 0 .. k : g[i] = IF i = 0 THEN base ELSE step[<<g[i - 1], i>>]
    BY <2>1 DEF IsRun
  <2>5. \A i \in 0 .. k + 1 : h[i] = (IF i = 0 THEN base ELSE step[<<h[i - 1], i>>]) /\ h[i] \in A
    <3> SUFFICES ASSUME NEW i \in 0 .. k + 1
                 PROVE  h[i] = (IF i = 0 THEN base ELSE step[<<h[i - 1], i>>]) /\ h[i] \in A
      OBVIOUS
    <3> HIDE DEF h
    <3>1. CASE i = k + 1
      <4>1. i # 0 /\ i - 1 = k /\ h[k] = g[k]
        BY <2>2, <3>1
      <4> QED
        BY <2>3, <3>1, <4>1
    <3>2. CASE i \in 1 .. k
      <4>1. i - 1 \in 0 .. k /\ i \in 0 .. k /\ i # 0
        BY <3>2
      <4> QED
        BY <2>2, <2>4, <4>1
    <3>3. CASE i = 0
      <4>1. 0 \in 0 .. k
        OBVIOUS
      <4> QED
        BY <2>2, <2>4, <3>3, <4>1
    <3> QED
      BY <3>1, <3>2, <3>3
  <2>6. h = [i \in 0 .. k + 1 |-> h[i]]
    OBVIOUS
  <2> HIDE DEF h
  <2>7. h \in [0 .. k + 1 -> A] /\ IsRun(h, step, base, k + 1)
    BY <2>5, <2>6 DEF IsRun
  <2> QED
    BY <2>7
<1> HIDE DEF N
<1>3. n \in N
  BY <1>1, <1>2, InductionOnNat
<1> QED
  BY <1>3 DEF N

\* Each digit makes ten times as much of the number before it.
LEMMA NumberRun ==
  ASSUME NEW s \in Seq(Digits)
  PROVE  \E v \in [0 .. Len(s) -> Nat] :
           /\ Number(s) = v[Len(s)]
           /\ v[0] = 0
           /\ \A i \in 1 .. Len(s) : v[i] = v[i - 1] * 10 + s[i]
<1> DEFINE n == Len(s)
           step == [x \in Nat \X (1 .. n) |-> x[1] * 10 + s[x[2]]]
           Value(v) == v = [i \in 0 .. n |-> IF i = 0 THEN 0 ELSE v[i - 1] * 10 + s[i]]
<1>1. n \in Nat /\ \A i \in 1 .. n : s[i] \in Nat
  BY LenProperties, ElementOfSeq DEF Digits
<1>2. step \in [Nat \X (1 .. n) -> Nat]
  <2>1. \A x \in Nat \X (1 .. n) : x[1] * 10 + s[x[2]] \in Nat
    BY <1>1
  <2> QED
    BY <2>1
<1> HIDE DEF n
<1>3. PICK g \in [0 .. n -> Nat] : IsRun(g, step, 0, n)
  <2> HIDE DEF step
  <2> QED
    BY <1>1, <1>2, RunExists
<1>4. ASSUME NEW i \in 1 .. n, NEW x \in Nat PROVE step[<<x, i>>] = x * 10 + s[i]
  OBVIOUS
<1>5. g[0] = 0 /\ \A i \in 1 .. n : g[i] = g[i - 1] * 10 + s[i]
  <2>0. \A i \in 0 .. n : g[i] = IF i = 0 THEN 0 ELSE step[<<g[i - 1], i>>]
    BY <1>3 DEF IsRun
  <2> HIDE DEF step
  <2>1. ASSUME NEW i \in 1 .. n PROVE g[i] = g[i - 1] * 10 + s[i]
    <3>1. i \in 0 .. n /\ i # 0 /\ i - 1 \in 0 .. n
      BY <1>1
    <3>2. g[i - 1] \in Nat
      BY <3>1
    <3> QED
      BY <1>4, <2>0, <3>1, <3>2
  <2>2. 0 \in 0 .. n
    BY <1>1
  <2> QED
    BY <2>0, <2>1, <2>2
<1>6. Value(g)
  BY <1>5
<1> HIDE DEF Value
<1>7. \E v : Value(v)
  BY <1>6
<1> DEFINE v == CHOOSE u : Value(u)
<1>8. Value(v)
  BY <1>7
<1>9. Number(s) = v[n]
  BY DEF Number, Value, n
<1> HIDE DEF v
<1>10. \A i \in 0 .. n : v[i] = IF i = 0 THEN 0 ELSE v[i - 1] * 10 + s[i]
  BY <1>8 DEF Value
<1> QED
  <2>1. v[0] = 0
    BY <1>1, <1>10
  <2>2. \A i \in 1 .. n : v[i] = v[i - 1] * 10 + s[i]
    BY <1>1, <1>10
  <2> DEFINE N == {k \in Nat : k <= n => v[k] \in Nat}
  <2>3. 0 \in N
    BY <2>1
  <2>4. ASSUME NEW k \in Nat, k \in N PROVE k + 1 \in N
    <3> SUFFICES ASSUME k + 1 <= n PROVE v[k + 1] \in Nat
      OBVIOUS
    <3>1. v[k] \in Nat /\ k + 1 \in 1 .. n /\ (k + 1) - 1 = k
      BY <1>1, <2>4
    <3>2. v[k + 1] = v[k] * 10 + s[k + 1]
      BY <2>2, <3>1
    <3>3. s[k + 1] \in Nat
      BY <1>1, <3>1
    <3> QED
      BY <3>1, <3>2, <3>3, ShiftType, Zenon
  <2> HIDE DEF N
  <2>5. \A k \in Nat : k \in N
    BY <2>3, <2>4, InductionOnNat
  <2>6. \A k \in 0 .. n : v[k] \in Nat
    BY <1>1, <2>5 DEF N
  <2>7. v = [i \in 0 .. n |-> IF i = 0 THEN 0 ELSE v[i - 1] * 10 + s[i]]
    BY <1>8 DEF Value
  <2>8. v \in [0 .. n -> Nat]
    BY <2>6, <2>7
  <2> QED
    BY <1>9, <2>1, <2>2, <2>8 DEF n

LEMMA NumberIs ==
  ASSUME NEW s \in Seq(Digits), NEW u, u[0] = 0,
         \A i \in 1 .. Len(s) : u[i] = u[i - 1] * 10 + s[i]
  PROVE  Number(s) = u[Len(s)]
<1> DEFINE n == Len(s)
           N(v) == {k \in Nat : k <= n => v[k] = u[k]}
<1>0. n \in Nat
  BY LenProperties
<1>1. PICK v \in [0 .. n -> Nat] :
        Number(s) = v[n] /\ v[0] = 0 /\ \A i \in 1 .. n : v[i] = v[i - 1] * 10 + s[i]
  BY NumberRun
<1>2. 0 \in N(v)
  BY <1>1
<1>3. ASSUME NEW k \in Nat, k \in N(v) PROVE k + 1 \in N(v)
  <2> SUFFICES ASSUME k + 1 <= n PROVE v[k + 1] = u[k + 1]
    OBVIOUS
  <2>1. v[k] = u[k] /\ k + 1 \in 1 .. n /\ (k + 1) - 1 = k
    BY <1>0, <1>3
  <2> QED
    BY <1>1, <2>1
<1> HIDE DEF N
<1>4. n \in N(v)
  BY <1>0, <1>2, <1>3, InductionOnNat
<1> QED
  BY <1>0, <1>1, <1>4 DEF N

LEMMA NumberType == ASSUME NEW s \in Seq(Digits) PROVE Number(s) \in Nat
<1>1. PICK v \in [0 .. Len(s) -> Nat] : Number(s) = v[Len(s)]
  BY NumberRun
<1>2. Len(s) \in 0 .. Len(s)
  BY LenProperties
<1> QED
  BY <1>1, <1>2

LEMMA NumberEmpty == Number(<<>>) = 0
<1>1. <<>> \in Seq(Digits) /\ Len(<<>>) = 0
  OBVIOUS
<1>2. PICK v \in [0 .. Len(<<>>) -> Nat] : Number(<<>>) = v[Len(<<>>)] /\ v[0] = 0
  BY <1>1, NumberRun
<1> QED
  BY <1>1, <1>2

LEMMA NumberAppend ==
  ASSUME NEW s \in Seq(Digits), NEW d \in Digits
  PROVE  Number(Append(s, d)) = Number(s) * 10 + d
<1> DEFINE n == Len(s)
           q == Append(s, d)
<1>0. n \in Nat /\ d \in Nat
  BY LenProperties DEF Digits
<1>1. /\ q \in Seq(Digits) /\ Len(q) = n + 1 /\ q[n + 1] = d
      /\ \A i \in 1 .. n : q[i] = s[i]
  BY AppendProperties
<1>2. PICK v \in [0 .. n -> Nat] :
        Number(s) = v[n] /\ v[0] = 0 /\ \A i \in 1 .. n : v[i] = v[i - 1] * 10 + s[i]
  BY NumberRun
<1> DEFINE u == [i \in 0 .. n + 1 |-> IF i <= n THEN v[i] ELSE v[n] * 10 + d]
<1>3. /\ \A i \in 0 .. n : u[i] = v[i]
      /\ u[n + 1] = v[n] * 10 + d
  BY <1>0
<1> HIDE DEF u, q
<1>4. \A i \in 1 .. n + 1 : u[i] = u[i - 1] * 10 + q[i]
  <2> SUFFICES ASSUME NEW i \in 1 .. n + 1 PROVE u[i] = u[i - 1] * 10 + q[i]
    OBVIOUS
  <2>1. CASE i = n + 1
    <3>1. i - 1 = n /\ n \in 0 .. n
      BY <1>0, <2>1
    <3> QED
      BY <1>1, <1>3, <2>1, <3>1
  <2>2. CASE i # n + 1
    <3>1. i \in 1 .. n /\ i \in 0 .. n /\ i - 1 \in 0 .. n
      BY <1>0, <2>2
    <3> QED
      BY <1>1, <1>2, <1>3, <3>1
  <2> QED
    BY <2>1, <2>2
<1>5. u[0] = 0
  BY <1>0, <1>2, <1>3
<1>6. Number(q) = u[n + 1]
  BY <1>1, <1>4, <1>5, NumberIs
<1> QED
  BY <1>2, <1>3, <1>6 DEF q

\* A string of any length is reached by appending digits.
LEMMA InductionOnSeq ==
  ASSUME NEW S, NEW T, <<>> \in T,
         \A s \in Seq(S), e \in S : s \in T => Append(s, e) \in T
  PROVE  Seq(S) \subseteq T
<1> DEFINE N == {n \in Nat : \A s \in Seq(S) : Len(s) = n => s \in T}
<1>1. 0 \in N
  <2>1. \A s \in Seq(S) : Len(s) = 0 => s = <<>>
    BY EmptySeq
  <2> QED
    BY <2>1
<1>2. ASSUME NEW n \in Nat, n \in N PROVE n + 1 \in N
  <2> SUFFICES ASSUME NEW s \in Seq(S), Len(s) = n + 1 PROVE s \in T
    OBVIOUS
  <2>1. s # <<>>
    BY EmptySeq
  <2>2. PICK t \in Seq(S), e \in S : s = Append(t, e)
    BY <2>1, SequenceEmptyOrAppend
  <2>3. Len(Append(t, e)) = Len(t) + 1 /\ Len(t) \in Nat
    BY AppendProperties, LenProperties
  <2>4. Len(t) = n
    BY <2>2, <2>3
  <2>5. t \in T
    BY <1>2, <2>4
  <2> QED
    BY <2>2, <2>5
<1> HIDE DEF N
<1>3. \A n \in Nat : n \in N
  BY <1>1, <1>2, InductionOnNat
<1>4. \A s \in Seq(S) : Len(s) \in Nat
  BY LenProperties
<1> QED
  BY <1>3, <1>4 DEF N

\* The powers of ten.
LEMMA PowerRun ==
  ASSUME NEW n \in Nat
  PROVE  \E v \in [0 .. n -> Nat] :
           /\ PowerOfTen(n) = v[n] /\ v[0] = 1
           /\ \A i \in 1 .. n : v[i] = v[i - 1] * 10
<1> DEFINE step == [x \in Nat \X (1 .. n) |-> x[1] * 10]
           Value(v) == v = [i \in 0 .. n |-> IF i = 0 THEN 1 ELSE v[i - 1] * 10]
<1>1. step \in [Nat \X (1 .. n) -> Nat]
  OBVIOUS
<1>2. PICK g \in [0 .. n -> Nat] : IsRun(g, step, 1, n)
  <2> HIDE DEF step
  <2> QED
    BY <1>1, RunExists
<1>3. ASSUME NEW i \in 1 .. n, NEW x \in Nat PROVE step[<<x, i>>] = x * 10
  OBVIOUS
<1>4. \A i \in 0 .. n : g[i] = IF i = 0 THEN 1 ELSE step[<<g[i - 1], i>>]
  BY <1>2 DEF IsRun
<1> HIDE DEF step
<1>5. ASSUME NEW i \in 1 .. n PROVE g[i] = g[i - 1] * 10
  <2>1. i \in 0 .. n /\ i # 0 /\ i - 1 \in 0 .. n
    OBVIOUS
  <2>2. g[i - 1] \in Nat
    BY <2>1
  <2> QED
    BY <1>3, <1>4, <2>1, <2>2
<1>6. g[0] = 1
  <2>1. 0 \in 0 .. n
    OBVIOUS
  <2> QED
    BY <1>4, <2>1
<1>7. Value(g)
  BY <1>5, <1>6
<1> HIDE DEF Value
<1>8. \E v : Value(v)
  BY <1>7
<1> DEFINE v == CHOOSE u : Value(u)
<1>9. Value(v)
  BY <1>8
<1>10. PowerOfTen(n) = v[n]
  BY DEF PowerOfTen, Value
<1> HIDE DEF v
<1>11. v = [i \in 0 .. n |-> IF i = 0 THEN 1 ELSE v[i - 1] * 10]
  BY <1>9 DEF Value
<1>12. v[0] = 1 /\ \A i \in 1 .. n : v[i] = v[i - 1] * 10
  <2>1. \A i \in 0 .. n : v[i] = IF i = 0 THEN 1 ELSE v[i - 1] * 10
    BY <1>11
  <2> QED
    BY <2>1
<1> DEFINE N == {k \in Nat : k <= n => v[k] \in Nat}
<1>13. 0 \in N
  BY <1>12
<1>14. ASSUME NEW k \in Nat, k \in N PROVE k + 1 \in N
  <2> SUFFICES ASSUME k + 1 <= n PROVE v[k + 1] \in Nat
    OBVIOUS
  <2>1. v[k] \in Nat /\ k + 1 \in 1 .. n /\ (k + 1) - 1 = k
    BY <1>14
  <2>2. v[k + 1] = v[k] * 10
    BY <1>12, <2>1
  <2> QED
    BY <2>1, <2>2
<1> HIDE DEF N
<1>15. \A k \in Nat : k \in N
  BY <1>13, <1>14, InductionOnNat
<1>16. v \in [0 .. n -> Nat]
  <2>1. \A k \in 0 .. n : v[k] \in Nat
    BY <1>15 DEF N
  <2> QED
    BY <1>11, <2>1
<1> QED
  BY <1>10, <1>12, <1>16

LEMMA PowerIs ==
  ASSUME NEW n \in Nat, NEW u, u[0] = 1, \A i \in 1 .. n : u[i] = u[i - 1] * 10
  PROVE  PowerOfTen(n) = u[n]
<1>1. PICK v \in [0 .. n -> Nat] :
        PowerOfTen(n) = v[n] /\ v[0] = 1 /\ \A i \in 1 .. n : v[i] = v[i - 1] * 10
  BY PowerRun
<1> DEFINE N == {k \in Nat : k <= n => v[k] = u[k]}
<1>2. 0 \in N
  BY <1>1
<1>3. ASSUME NEW k \in Nat, k \in N PROVE k + 1 \in N
  <2> SUFFICES ASSUME k + 1 <= n PROVE v[k + 1] = u[k + 1]
    OBVIOUS
  <2>1. v[k] = u[k] /\ k + 1 \in 1 .. n /\ (k + 1) - 1 = k
    BY <1>3
  <2> QED
    BY <1>1, <2>1
<1> HIDE DEF N
<1>4. n \in N
  BY <1>2, <1>3, InductionOnNat
<1> QED
  BY <1>1, <1>4 DEF N

LEMMA PowerNext ==
  /\ PowerOfTen(0) = 1
  /\ \A n \in Nat : PowerOfTen(n + 1) = PowerOfTen(n) * 10
<1>1. PowerOfTen(0) = 1
  <2>1. PICK v \in [0 .. 0 -> Nat] : PowerOfTen(0) = v[0] /\ v[0] = 1
    BY PowerRun
  <2> QED
    BY <2>1
<1>2. ASSUME NEW n \in Nat PROVE PowerOfTen(n + 1) = PowerOfTen(n) * 10
  <2>1. PICK v \in [0 .. n + 1 -> Nat] :
          PowerOfTen(n + 1) = v[n + 1] /\ v[0] = 1 /\ \A i \in 1 .. n + 1 : v[i] = v[i - 1] * 10
    <3>1. n + 1 \in Nat
      OBVIOUS
    <3> QED
      BY <3>1, PowerRun
  <2>2. PowerOfTen(n) = v[n]
    <3>1. \A i \in 1 .. n : i \in 1 .. n + 1
      OBVIOUS
    <3>2. v[0] = 1 /\ \A i \in 1 .. n : v[i] = v[i - 1] * 10
      BY <2>1, <3>1
    <3> QED
      BY <3>2, PowerIs
  <2>3. n + 1 \in 1 .. n + 1 /\ (n + 1) - 1 = n
    OBVIOUS
  <2> QED
    BY <2>1, <2>2, <2>3
<1> QED
  BY <1>1, <1>2

LEMMA PowerType == \A n \in Nat : PowerOfTen(n) \in Nat /\ PowerOfTen(n) >= 1 /\ PowerOfTen(n) > n
<1> DEFINE N == {n \in Nat : PowerOfTen(n) \in Nat /\ PowerOfTen(n) >= 1 /\ PowerOfTen(n) > n}
<1>1. 0 \in N
  BY PowerNext
<1>2. ASSUME NEW n \in Nat, n \in N PROVE n + 1 \in N
  BY <1>2, PowerNext
<1> HIDE DEF N
<1>3. \A n \in Nat : n \in N
  BY <1>1, <1>2, InductionOnNat
<1> QED
  BY <1>3 DEF N

LEMMA PowerSum ==
  ASSUME NEW m \in Nat, NEW n \in Nat
  PROVE  PowerOfTen(m + n) = PowerOfTen(m) * PowerOfTen(n)
<1> DEFINE N == {k \in Nat : PowerOfTen(m + k) = PowerOfTen(m) * PowerOfTen(k)}
<1>1. 0 \in N
  BY PowerNext, PowerType
<1>2. ASSUME NEW k \in Nat, k \in N PROVE k + 1 \in N
  <2> DEFINE a == PowerOfTen(m)
             b == PowerOfTen(k)
             c == PowerOfTen(m + k)
  <2>1. a \in Nat /\ b \in Nat /\ c = a * b
    BY <1>2, PowerType
  <2>2. PowerOfTen(m + (k + 1)) = c * 10 /\ PowerOfTen(k + 1) = b * 10
    <3>1. m + (k + 1) = (m + k) + 1 /\ m + k \in Nat
      OBVIOUS
    <3> QED
      BY <3>1, PowerNext
  <2> HIDE DEF a, b, c
  <2>3. (a * b) * 10 = a * (b * 10)
    BY <2>1
  <2> QED
    BY <2>1, <2>2, <2>3 DEF a
<1> HIDE DEF N
<1>3. n \in N
  BY <1>1, <1>2, InductionOnNat
<1> QED
  BY <1>3 DEF N

\* One string behind another one.
LEMMA NumberConcat ==
  ASSUME NEW s \in Seq(Digits), NEW t \in Seq(Digits)
  PROVE  Number(s \o t) = Number(s) * PowerOfTen(Len(t)) + Number(t)
<1> DEFINE T == {u \in Seq(Digits) : Number(s \o u) = Number(s) * PowerOfTen(Len(u)) + Number(u)}
<1>1. <<>> \in T
  <2>1. <<>> \in Seq(Digits) /\ Len(<<>>) = 0 /\ s \o <<>> = s
    BY ConcatEmptySeq
  <2>2. Number(s) \in Nat /\ Number(s) * 1 + 0 = Number(s)
    BY NumberType
  <2> QED
    BY <2>1, <2>2, NumberEmpty, PowerNext
<1>2. ASSUME NEW u \in Seq(Digits), NEW d \in Digits, u \in T PROVE Append(u, d) \in T
  <2> DEFINE a == Number(s)
             b == Number(u)
             p == PowerOfTen(Len(u))
  <2>1. Append(u, d) \in Seq(Digits) /\ Len(Append(u, d)) = Len(u) + 1 /\ Len(u) \in Nat
    BY AppendProperties, LenProperties
  <2>2. s \o u \in Seq(Digits)
    BY ConcatProperties
  <2>3. s \o Append(u, d) = Append(s \o u, d)
    <3>1. Append(u, d) = u \o <<d>> /\ Append(s \o u, d) = (s \o u) \o <<d>> /\ <<d>> \in Seq(Digits)
      BY <2>2, AppendIsConcat
    <3> QED
      BY <3>1, ConcatAssociative
  <2>4. Number(s \o Append(u, d)) = (a * p + b) * 10 + d
    BY <1>2, <2>2, <2>3, NumberAppend
  <2>5. Number(Append(u, d)) = b * 10 + d /\ PowerOfTen(Len(Append(u, d))) = p * 10
    BY <2>1, NumberAppend, PowerNext
  <2>6. a \in Nat /\ b \in Nat /\ p \in Nat /\ d \in Nat
    BY <2>1, NumberType, PowerType DEF Digits
  <2> HIDE DEF a, b, p
  <2>7. (a * p + b) * 10 + d = a * (p * 10) + (b * 10 + d)
    BY <2>6
  <2> QED
    BY <2>1, <2>4, <2>5, <2>7 DEF a
<1> HIDE DEF T
<1>3. t \in T
  BY <1>1, <1>2, InductionOnSeq
<1> QED
  BY <1>3 DEF T

LEMMA NumberBound == ASSUME NEW s \in Seq(Digits) PROVE Number(s) < PowerOfTen(Len(s))
<1> DEFINE T == {u \in Seq(Digits) : Number(u) < PowerOfTen(Len(u))}
<1>1. <<>> \in T
  <2>1. <<>> \in Seq(Digits) /\ Len(<<>>) = 0
    OBVIOUS
  <2> QED
    BY <2>1, NumberEmpty, PowerNext
<1>2. ASSUME NEW u \in Seq(Digits), NEW d \in Digits, u \in T PROVE Append(u, d) \in T
  <2>1. Append(u, d) \in Seq(Digits) /\ Len(Append(u, d)) = Len(u) + 1 /\ Len(u) \in Nat
    BY AppendProperties, LenProperties
  <2>2. Number(Append(u, d)) = Number(u) * 10 + d /\ PowerOfTen(Len(Append(u, d))) = PowerOfTen(Len(u)) * 10
    BY <2>1, NumberAppend, PowerNext
  <2>3. Number(u) \in Nat /\ PowerOfTen(Len(u)) \in Nat /\ d \in 0 .. 9 /\ Number(u) < PowerOfTen(Len(u))
    BY <1>2, <2>1, NumberType, PowerType DEF Digits
  <2>4. Number(u) * 10 + d < PowerOfTen(Len(u)) * 10
    BY <2>3
  <2> QED
    BY <2>1, <2>2, <2>4
<1> HIDE DEF T
<1>3. s \in T
  BY <1>1, <1>2, InductionOnSeq
<1> QED
  BY <1>3 DEF T

\* Zeros, in front of a number and behind it.
LEMMA ZerosIn ==
  ASSUME NEW n \in Nat
  PROVE  Zeros(n) \in Seq(Digits) /\ Len(Zeros(n)) = n /\ \A i \in 1 .. n : Zeros(n)[i] = 0
BY DEF Zeros, Digits

LEMMA NumberOfZeros ==
  ASSUME NEW s \in Seq(Digits), \A i \in 1 .. Len(s) : s[i] = 0
  PROVE  Number(s) = 0
<1> DEFINE u == [i \in 0 .. Len(s) |-> 0]
<1>1. Len(s) \in Nat
  BY LenProperties
<1>2. \A i \in 0 .. Len(s) : u[i] = 0
  OBVIOUS
<1> HIDE DEF u
<1>3. u[0] = 0 /\ \A i \in 1 .. Len(s) : u[i] = u[i - 1] * 10 + s[i]
  BY <1>1, <1>2
<1> QED
  BY <1>1, <1>2, <1>3, NumberIs

LEMMA NumberScaled ==
  ASSUME NEW s \in Seq(Digits), NEW n \in Nat
  PROVE  Number(s \o Zeros(n)) = Number(s) * PowerOfTen(n)
<1>1. Zeros(n) \in Seq(Digits) /\ Len(Zeros(n)) = n /\ Number(Zeros(n)) = 0
  BY ZerosIn, NumberOfZeros
<1>2. Number(s) * PowerOfTen(n) \in Nat
  BY NumberType, PowerType, ProductType, Zenon
<1>3. Number(s \o Zeros(n)) = Number(s) * PowerOfTen(n) + 0
  BY <1>1, NumberConcat
<1> QED
  BY <1>2, <1>3

\* The digits before a place and those behind it.
LEMMA NumberSplit ==
  ASSUME NEW s \in Seq(Digits), NEW k \in 0 .. Len(s)
  PROVE  LET p == SubSeq(s, 1, k)
             q == SubSeq(s, k + 1, Len(s))
         IN  /\ p \in Seq(Digits) /\ Len(p) = k /\ \A i \in 1 .. k : p[i] = s[i]
             /\ q \in Seq(Digits) /\ Len(q) = Len(s) - k
             /\ \A i \in 1 .. Len(s) - k : q[i] = s[k + i]
             /\ Number(s) = Number(p) * PowerOfTen(Len(s) - k) + Number(q)
<1> DEFINE p == SubSeq(s, 1, k)
           q == SubSeq(s, k + 1, Len(s))
<1>0. Len(s) \in Nat /\ k \in Nat /\ k <= Len(s)
  BY LenProperties
<1>1. p \in Seq(Digits) /\ Len(p) = k /\ \A i \in 1 .. k : p[i] = s[i]
  BY TwoSlices, Zenon
<1>2. /\ q \in Seq(Digits) /\ Len(q) = Len(s) - k
      /\ \A i \in 1 .. Len(s) - k : q[i] = s[k + i]
  BY TwoSlices, Zenon
<1>3. p \o q = s
  <2>1. /\ 1 \in 1 .. Len(s) + 1 /\ k \in 1 - 1 .. Len(s) /\ Len(s) \in k .. Len(s)
    BY <1>0
  <2>2. p \o q = SubSeq(s, 1, Len(s))
    BY <2>1, ConcatAdjacentSubSeq
  <2> QED
    BY <2>2, SubSeqFull
<1> HIDE DEF p, q
<1>4. Number(s) = Number(p) * PowerOfTen(Len(q)) + Number(q)
  BY <1>1, <1>2, <1>3, NumberConcat
<1> QED
  BY <1>1, <1>2, <1>4 DEF p, q

\* The first digit decides on the order of magnitude.
LEMMA FirstDigit ==
  ASSUME NEW s \in Seq(Digits), NEW k \in Nat, Len(s) = k + 1
  PROVE  /\ s[1] \in Digits
         /\ s[1] * PowerOfTen(k) <= Number(s)
         /\ Number(s) < (s[1] + 1) * PowerOfTen(k)
<1> DEFINE p == SubSeq(s, 1, 1)
           q == SubSeq(s, 1 + 1, Len(s))
           a == s[1]
           m == PowerOfTen(k)
           y == Number(q)
<1>1. 1 \in 0 .. Len(s) /\ Len(s) - 1 = k /\ 1 \in 1 .. Len(s) /\ 1 \in 1 .. 1
  OBVIOUS
<1>2. /\ p \in Seq(Digits) /\ Len(p) = 1 /\ p[1] = s[1]
      /\ q \in Seq(Digits) /\ Len(q) = k
      /\ Number(s) = Number(p) * PowerOfTen(k) + Number(q)
  BY <1>1, NumberSplit
<1>3. s[1] \in Digits
  BY <1>1, ElementOfSeq
<1> HIDE DEF p, q
<1>4. Number(p) = s[1]
  <2>1. p = Append(<<>>, s[1])
    <3>1. Append(<<>>, s[1]) = <<s[1]>>
      OBVIOUS
    <3>2. <<s[1]>> \in Seq(Digits) /\ Len(<<s[1]>>) = 1 /\ <<s[1]>>[1] = s[1]
      BY <1>3
    <3>3. p = <<s[1]>>
      BY <1>2, <3>2, SeqEqual
    <3> QED
      BY <3>1, <3>3
  <2>2. <<>> \in Seq(Digits)
    OBVIOUS
  <2>3. Number(Append(<<>>, s[1])) = Number(<<>>) * 10 + s[1]
    BY <1>3, <2>2, NumberAppend
  <2>4. s[1] \in Nat
    BY <1>3 DEF Digits
  <2> QED
    BY <2>1, <2>3, <2>4, NumberEmpty
<1>5. /\ a \in Nat /\ m \in Nat /\ y \in Nat /\ y < m /\ Number(s) = a * m + y
  BY <1>2, <1>3, <1>4, NumberType, NumberBound, PowerType DEF Digits
<1> HIDE DEF a, m, y
<1>6. a * m <= Number(s) /\ Number(s) < (a + 1) * m
  <2>1. (a + 1) * m = a * m + m /\ a * m \in Nat
    BY <1>5
  <2> QED
    BY <1>5, <2>1
<1> QED
  BY <1>3, <1>6 DEF a, m

\* What is behind the leading zeros.
LEMMA TrimZeros ==
  ASSUME NEW s \in Seq(Digits)
  PROVE  LET q == trim_zeros(s)
         IN  /\ q \in Seq(Digits) /\ Number(q) = Number(s)
             /\ Len(q) \in Nat \ {0}
             /\ IF Number(s) = 0 THEN q = <<0>> ELSE q[1] # 0
<1> DEFINE others == {i \in DOMAIN s : s[i] # 0}
           q == trim_zeros(s)
<1>0. DOMAIN s = 1 .. Len(s) /\ Len(s) \in Nat /\ \A i \in 1 .. Len(s) : s[i] \in Digits
  BY LenProperties, ElementOfSeq
<1>1. CASE others = {}
  <2>1. q = <<0>>
    BY <1>1 DEF trim_zeros
  <2>2. Number(s) = 0
    BY <1>0, <1>1, NumberOfZeros
  <2>3. <<0>> \in Seq(Digits) /\ Len(<<0>>) = 1 /\ \A i \in 1 .. 1 : <<0>>[i] = 0
    BY DEF Digits
  <2>4. Number(<<0>>) = 0
    BY <2>3, NumberOfZeros
  <2> QED
    BY <2>1, <2>2, <2>3, <2>4
<1>2. CASE others # {}
  <2> DEFINE m == Min(others)
             k == m - 1
  <2>1. m \in others /\ \A y \in others : m <= y
    <3>1. others \in SUBSET Nat
      BY <1>0
    <3> HIDE DEF others
    <3> QED
      BY <1>2, <3>1, LeastOfNat
  <2>2. q = SubSeq(s, m, Len(s))
    BY <1>2 DEF trim_zeros
  <2>3. k \in 0 .. Len(s) /\ k + 1 = m /\ m \in 1 .. Len(s) /\ s[m] # 0
    BY <1>0, <2>1
  <2>4. \A i \in 1 .. k : s[i] = 0
    <3> SUFFICES ASSUME NEW i \in 1 .. k, s[i] # 0 PROVE FALSE
      OBVIOUS
    <3>1. i \in others /\ ~(m <= i)
      BY <1>0, <2>3
    <3> QED
      BY <2>1, <3>1
  <2> HIDE DEF others, m, q
  <2> DEFINE p == SubSeq(s, 1, k)
  <2>5. /\ p \in Seq(Digits) /\ Len(p) = k /\ \A i \in 1 .. k : p[i] = s[i]
        /\ q \in Seq(Digits) /\ Len(q) = Len(s) - k
        /\ \A i \in 1 .. Len(s) - k : q[i] = s[k + i]
        /\ Number(s) = Number(p) * PowerOfTen(Len(s) - k) + Number(q)
    BY <2>2, <2>3, NumberSplit
  <2> HIDE DEF p, k
  <2>6. Number(p) = 0
    BY <2>4, <2>5, NumberOfZeros
  <2>7. Number(q) = Number(s)
    <3>1. PowerOfTen(Len(s) - k) \in Nat /\ Number(q) \in Nat
      BY <1>0, <2>3, <2>5, NumberType, PowerType
    <3> QED
      BY <2>5, <2>6, <3>1
  <2>8. Len(q) \in Nat \ {0} /\ q[1] # 0
    <3>1. 1 \in 1 .. Len(s) - k
      BY <1>0, <2>3
    <3>2. q[1] = s[m]
      BY <2>3, <2>5, <3>1
    <3>3. Len(s) - k \in Nat \ {0}
      <4>1. k + 1 = m /\ m \in 1 .. Len(s) /\ k \in 0 .. Len(s) /\ Len(s) \in Nat
        BY <1>0, <2>3
      <4> QED
        BY ONLY <4>1
    <3> QED
      BY <2>3, <2>5, <3>2, <3>3
  <2>9. Number(s) # 0
    <3> DEFINE n == Len(q) - 1
    <3>1. n \in Nat /\ Len(q) = n + 1
      BY <2>8
    <3> HIDE DEF n
    <3>2. q[1] \in Digits /\ q[1] * PowerOfTen(n) <= Number(q) /\ PowerOfTen(n) \in Nat /\ PowerOfTen(n) >= 1
      BY <2>5, <3>1, FirstDigit, PowerType
    <3>3. q[1] \in Nat /\ q[1] >= 1
      BY <2>8, <3>2 DEF Digits
    <3>4. q[1] * PowerOfTen(n) >= 1
      BY <3>2, <3>3
    <3> QED
      BY <2>5, <2>7, <3>2, <3>3, <3>4, NumberType
  <2> QED
    BY <2>5, <2>7, <2>8, <2>9 DEF q
<1> QED
  BY <1>1, <1>2

\* Where two strings of one length differ first, the numbers differ.
LEMMA FirstDifference ==
  ASSUME NEW s \in Seq(Digits), NEW t \in Seq(Digits), Len(s) = Len(t),
         NEW i \in 1 .. Len(s), s[i] < t[i], \A j \in 1 .. i - 1 : s[j] = t[j]
  PROVE  Number(s) < Number(t)
<1> DEFINE k == i - 1
           n == Len(s) - i
           p == SubSeq(s, 1, k)
           q == SubSeq(s, k + 1, Len(s))
           u == SubSeq(t, 1, k)
           v == SubSeq(t, k + 1, Len(t))
<1>0. /\ Len(s) \in Nat /\ k \in 0 .. Len(s) /\ k \in 0 .. Len(t) /\ n \in Nat
      /\ Len(s) - k = n + 1 /\ k + 1 = i /\ 1 \in 1 .. Len(s) - k
  BY LenProperties
<1>1. /\ p \in Seq(Digits) /\ Len(p) = k /\ \A j \in 1 .. k : p[j] = s[j]
      /\ q \in Seq(Digits) /\ Len(q) = n + 1 /\ q[1] = s[i]
      /\ Number(s) = Number(p) * PowerOfTen(n + 1) + Number(q)
  BY <1>0, NumberSplit, SMTT(30)
<1>2. /\ u \in Seq(Digits) /\ Len(u) = k /\ \A j \in 1 .. k : u[j] = t[j]
      /\ v \in Seq(Digits) /\ Len(v) = n + 1 /\ v[1] = t[i]
      /\ Number(t) = Number(u) * PowerOfTen(n + 1) + Number(v)
  BY <1>0, NumberSplit, SMTT(30)
<1> HIDE DEF p, q, u, v
<1>3. p = u
  <2>1. \A j \in 1 .. k : p[j] = u[j]
    BY <1>1, <1>2
  <2> QED
    BY <1>1, <1>2, <2>1, SeqEqual
<1> HIDE DEF k, n
<1>4. /\ s[i] \in Digits /\ t[i] \in Digits
      /\ Number(q) < (s[i] + 1) * PowerOfTen(n)
      /\ t[i] * PowerOfTen(n) <= Number(v)
  BY <1>0, <1>1, <1>2, FirstDigit
<1>5. Number(q) < Number(v)
  <2> DEFINE a == s[i]
             b == t[i]
             m == PowerOfTen(n)
             x == Number(q)
             y == Number(v)
  <2>1. m \in Nat /\ x \in Nat /\ y \in Nat
    BY <1>0, <1>1, <1>2, PowerType, NumberType
  <2>0. a \in Nat /\ b \in Nat /\ a + 1 <= b
    BY <1>4 DEF Digits
  <2>5. x < (a + 1) * m /\ b * m <= y
    BY <1>4
  <2> HIDE DEF a, b, m, x, y
  <2>2. PICK d \in Nat : b = (a + 1) + d
    <3>1. b - (a + 1) \in Nat /\ b = (a + 1) + (b - (a + 1))
      BY <2>0
    <3> QED
      BY <3>1
  <2>3. b * m = (a + 1) * m + d * m /\ d * m \in Nat /\ (a + 1) * m \in Nat
    BY <2>0, <2>1, <2>2
  <2>4. x < y
    BY <2>1, <2>3, <2>5
  <2> QED
    BY <2>4 DEF x, y
<1>6. Number(p) * PowerOfTen(n + 1) \in Nat /\ Number(q) \in Nat /\ Number(v) \in Nat
  <2>1. Number(p) \in Nat /\ Number(q) \in Nat /\ Number(v) \in Nat
    BY <1>1, <1>2, NumberType
  <2>2. PowerOfTen(n + 1) \in Nat
    <3>1. n + 1 \in Nat
      BY <1>0
    <3> QED
      BY <3>1, PowerType
  <2> QED
    BY <2>1, <2>2
<1> QED
  BY <1>1, <1>2, <1>3, <1>5, <1>6

\* A longer number without leading zeros is larger.
LEMMA LongerIsMore ==
  ASSUME NEW s \in Seq(Digits), NEW t \in Seq(Digits), Len(s) < Len(t), t[1] # 0
  PROVE  Number(s) < Number(t)
<1> DEFINE k == Len(t) - 1
           d == k - Len(s)
<1>1. k \in Nat /\ Len(t) = k + 1 /\ Len(s) \in Nat /\ d \in Nat /\ k = Len(s) + d
  BY LenProperties
<1> HIDE DEF k, d
<1>2. t[1] \in Digits /\ t[1] * PowerOfTen(k) <= Number(t)
  BY <1>1, FirstDigit
<1>3. Number(s) < PowerOfTen(Len(s)) /\ PowerOfTen(k) = PowerOfTen(Len(s)) * PowerOfTen(d)
  BY <1>1, NumberBound, PowerSum
<1> DEFINE a == t[1]
           x == PowerOfTen(Len(s))
           y == PowerOfTen(d)
<1>4. a \in Nat /\ a >= 1 /\ x \in Nat /\ y \in Nat /\ y >= 1
  <2>1. x \in Nat /\ y \in Nat /\ y >= 1
    BY <1>1, PowerType
  <2>2. a \in Nat /\ a >= 1
    BY <1>2 DEF Digits
  <2> QED
    BY <2>1, <2>2
<1>5. x <= a * (x * y)
  <2> HIDE DEF a, x, y
  <2>1. x * y >= x /\ x * y \in Nat
    BY <1>4
  <2>2. a * (x * y) >= x * y
    BY <1>4, <2>1
  <2>3. a * (x * y) \in Nat
    BY <1>4, <2>1
  <2> QED
    BY <1>4, <2>1, <2>2, <2>3
<1>6. a * (x * y) \in Nat /\ Number(s) \in Nat /\ Number(t) \in Nat
  BY <1>4, NumberType
<1> QED
  BY <1>2, <1>3, <1>4, <1>5, <1>6

\* compare_decimal_strings compares the numbers.
DigitsLess(s, t) ==
  \/ Len(s) < Len(t)
  \/ Len(s) = Len(t) /\ \E i \in 1 .. Len(s) : s[i] < t[i] /\ \A j \in 1 .. i - 1 : s[j] = t[j]

LEMMA DigitsLessOrSame ==
  ASSUME NEW s \in Seq(Digits), NEW t \in Seq(Digits)
  PROVE  DigitsLess(s, t) \/ DigitsLess(t, s) \/ s = t
<1>0. Len(s) \in Nat /\ Len(t) \in Nat
  BY LenProperties
<1>1. CASE Len(s) # Len(t)
  BY <1>0, <1>1 DEF DigitsLess
<1>2. CASE Len(s) = Len(t)
  <2> DEFINE D == {i \in 1 .. Len(s) : s[i] # t[i]}
  <2>1. CASE D = {}
    <3>1. \A i \in 1 .. Len(s) : s[i] = t[i]
      BY <2>1
    <3> QED
      BY <1>2, <3>1, SeqEqual
  <2>2. CASE D # {}
    <3> DEFINE i == Min(D)
    <3>1. i \in D /\ \A j \in D : i <= j
      <4>1. D \in SUBSET Nat
        OBVIOUS
      <4> HIDE DEF D
      <4> QED
        BY <2>2, <4>1, LeastOfNat
    <3>2. i \in 1 .. Len(s) /\ s[i] # t[i]
      BY <3>1
    <3>3. ASSUME NEW j \in 1 .. i - 1 PROVE s[j] = t[j]
      <4>1. s[j] # t[j] => j \in D /\ ~(i <= j)
        BY <1>0, <3>2
      <4> QED
        BY <3>1, <4>1
    <3>4. s[i] \in 0 .. 9 /\ t[i] \in 0 .. 9
      BY <1>2, <3>2, ElementOfSeq DEF Digits
    <3>5. s[i] < t[i] \/ t[i] < s[i]
      BY ONLY <3>2, <3>4, DigitsDiffer, Zenon
    <3> HIDE DEF D, i
    <3> QED
      BY <1>2, <3>2, <3>3, <3>5 DEF DigitsLess
  <2> QED
    BY <2>1, <2>2
<1> QED
  BY <1>1, <1>2

LEMMA DecimalLess ==
  ASSUME NEW s \in Seq(Digits), NEW t \in Seq(Digits)
  PROVE  decimal_less(s, t) <=> Number(s) < Number(t)
<1> DEFINE l == trim_zeros(s)
           r == trim_zeros(t)
<1>1. /\ l \in Seq(Digits) /\ Number(l) = Number(s) /\ Len(l) \in Nat \ {0}
      /\ IF Number(s) = 0 THEN l = <<0>> ELSE l[1] # 0
      /\ r \in Seq(Digits) /\ Number(r) = Number(t) /\ Len(r) \in Nat \ {0}
      /\ IF Number(t) = 0 THEN r = <<0>> ELSE r[1] # 0
  BY TrimZeros
<1>2. decimal_less(s, t) <=> DigitsLess(l, r)
  <2>1. DOMAIN l = 1 .. Len(l)
    BY <1>1, LenProperties
  <2> QED
    BY <2>1 DEF decimal_less, DigitsLess
<1> HIDE DEF l, r
<1>3. ASSUME NEW x \in Seq(Digits), NEW y \in Seq(Digits), Len(x) \in Nat \ {0},
             Len(y) = 1 \/ y[1] # 0, DigitsLess(x, y)
      PROVE  Number(x) < Number(y)
  <2>1. CASE Len(x) < Len(y)
    <3>1. y[1] # 0
      BY <1>3, <2>1, LenProperties
    <3> QED
      BY <1>3, <2>1, <3>1, LongerIsMore
  <2>2. CASE ~(Len(x) < Len(y))
    <3>1. PICK i \in 1 .. Len(x) : Len(x) = Len(y) /\ x[i] < y[i] /\ \A j \in 1 .. i - 1 : x[j] = y[j]
      BY <1>3, <2>2 DEF DigitsLess
    <3> QED
      BY <3>1, FirstDifference
  <2> QED
    BY <2>1, <2>2
<1>4. (Len(l) = 1 \/ l[1] # 0) /\ (Len(r) = 1 \/ r[1] # 0)
  BY <1>1
<1>5. /\ DigitsLess(l, r) => Number(l) < Number(r)
      /\ DigitsLess(r, l) => Number(r) < Number(l)
  BY <1>1, <1>3, <1>4
<1>6. DigitsLess(l, r) \/ DigitsLess(r, l) \/ l = r
  BY <1>1, DigitsLessOrSame
<1>7. Number(l) \in Nat /\ Number(r) \in Nat
  BY <1>1, NumberType
<1> QED
  BY <1>1, <1>2, <1>5, <1>6, <1>7

\* The number is also the sum of what its digits are worth at their places.
Worth(w, s, places) ==
  /\ w[0] = 0
  /\ \A p \in 1 .. places : w[p] = w[p - 1] + digit_at(s, p) * PowerOfTen(p - 1)

LEMMA DigitAt ==
  ASSUME NEW s \in Seq(Digits), NEW p \in Nat \ {0}
  PROVE  digit_at(s, p) \in 0 .. 9
<1>1. Len(s) \in Nat
  BY LenProperties
<1>2. CASE p <= Len(s)
  <2>1. Len(s) + 1 - p \in 1 .. Len(s)
    BY <1>1, <1>2
  <2>2. s[Len(s) + 1 - p] \in 0 .. 9
    BY <2>1, ElementOfSeq DEF Digits
  <2> QED
    BY <1>2, <2>2 DEF digit_at
<1>3. CASE ~(p <= Len(s))
  BY <1>3 DEF digit_at
<1> QED
  BY <1>2, <1>3

LEMMA WorthExists ==
  ASSUME NEW s \in Seq(Digits), NEW places \in Nat
  PROVE  \E w \in [0 .. places -> Nat] : Worth(w, s, places)
<1> DEFINE step == [x \in Nat \X (1 .. places) |-> x[1] + digit_at(s, x[2]) * PowerOfTen(x[2] - 1)]
<1>1. step \in [Nat \X (1 .. places) -> Nat]
  <2> SUFFICES ASSUME NEW x \in Nat, NEW p \in 1 .. places
               PROVE  x + digit_at(s, p) * PowerOfTen(p - 1) \in Nat
    OBVIOUS
  <2>1. p \in Nat \ {0} /\ p - 1 \in Nat
    OBVIOUS
  <2>2. digit_at(s, p) \in Nat /\ PowerOfTen(p - 1) \in Nat
    <3> HIDE DEF step
    <3>1. digit_at(s, p) \in 0 .. 9
      BY <2>1, DigitAt
    <3>2. PowerOfTen(p - 1) \in Nat
      BY ONLY <2>1, PowerType
    <3> QED
      BY <3>1, <3>2
  <2> QED
    BY <2>2
<1>2. ASSUME NEW p \in 1 .. places, NEW x \in Nat
      PROVE  step[<<x, p>>] = x + digit_at(s, p) * PowerOfTen(p - 1)
  OBVIOUS
<1> HIDE DEF step
<1>3. PICK w \in [0 .. places -> Nat] : IsRun(w, step, 0, places)
  BY <1>1, RunExists
<1>4. \A p \in 0 .. places : w[p] = IF p = 0 THEN 0 ELSE step[<<w[p - 1], p>>]
  BY <1>3 DEF IsRun
<1>5. w[0] = 0
  <2>1. 0 \in 0 .. places
    OBVIOUS
  <2> QED
    BY <1>4, <2>1
<1>6. ASSUME NEW p \in 1 .. places PROVE w[p] = w[p - 1] + digit_at(s, p) * PowerOfTen(p - 1)
  <2>1. p \in 0 .. places /\ p # 0 /\ p - 1 \in 0 .. places
    OBVIOUS
  <2>2. w[p - 1] \in Nat
    BY <2>1
  <2> QED
    BY <1>2, <1>4, <2>1, <2>2
<1> QED
  BY <1>5, <1>6 DEF Worth

LEMMA NumberIsWorth ==
  ASSUME NEW s \in Seq(Digits), NEW places \in Nat, Len(s) <= places,
         NEW w \in [0 .. places -> Nat], Worth(w, s, places)
  PROVE  Number(s) = w[places]
<1> DEFINE n == Len(s)
<1>0. n \in Nat /\ n <= places /\ \A i \in 1 .. n : s[i] \in Nat
  <2>1. \A i \in 1 .. n : s[i] \in 0 .. 9
    BY ElementOfSeq DEF Digits
  <2>2. n \in Nat
    BY LenProperties
  <2>3. \A i \in 1 .. n : s[i] \in Nat
    BY ONLY <2>1, DigitIsNat, Zenon
  <2> QED
    BY <2>2, <2>3
<1>1. PICK v \in [0 .. n -> Nat] :
        Number(s) = v[n] /\ v[0] = 0 /\ \A i \in 1 .. n : v[i] = v[i - 1] * 10 + s[i]
  BY NumberRun
<1> HIDE DEF n
<1> DEFINE N == {p \in Nat : p <= n => w[p] + v[n - p] * PowerOfTen(p) = Number(s)}
<1>2. 0 \in N
  <2>1. v[n] \in Nat /\ n - 0 = n
    BY <1>0
  <2>2. w[0] = 0 /\ PowerOfTen(0) = 1
    BY PowerNext DEF Worth
  <2>3. w[0] + v[n - 0] * PowerOfTen(0) = Number(s)
    BY <1>1, <2>1, <2>2
  <2> QED
    BY <2>3
<1>3. ASSUME NEW p \in Nat, p \in N PROVE p + 1 \in N
  <2> SUFFICES ASSUME p + 1 <= n
               PROVE  w[p + 1] + v[n - (p + 1)] * PowerOfTen(p + 1) = Number(s)
    OBVIOUS
  <2> DEFINE a == w[p]
             b == v[n - (p + 1)]
             d == s[n - p]
             m == PowerOfTen(p)
  <2>1. /\ p + 1 \in 1 .. places /\ (p + 1) - 1 = p /\ p \in 0 .. places
        /\ n - p \in 1 .. n /\ (n - p) - 1 = n - (p + 1) /\ n - (p + 1) \in 0 .. n
        /\ n + 1 - (p + 1) = n - p
    BY <1>0
  <2>2. a \in Nat /\ b \in Nat /\ d \in Nat /\ m \in Nat
    BY <1>0, <2>1, PowerType
  <2>3. digit_at(s, p + 1) = d
    BY <2>1 DEF digit_at, n
  <2>4. w[p + 1] = a + d * m
    BY <2>1, <2>3 DEF Worth
  <2>5. v[n - p] = b * 10 + d
    BY <1>1, <2>1
  <2>6. a + (b * 10 + d) * m = Number(s)
    <3>1. p <= n
      BY <1>0
    <3>2. w[p] + v[n - p] * PowerOfTen(p) = Number(s)
      BY <1>3, <3>1
    <3> QED
      BY <2>5, <3>2
  <2>7. PowerOfTen(p + 1) = m * 10
    BY PowerNext
  <2> HIDE DEF a, b, d, m
  <2>8. (a + d * m) + b * (m * 10) = a + (b * 10 + d) * m
    BY <2>2
  <2> QED
    BY <2>4, <2>6, <2>7, <2>8 DEF b
<1>4. \A p \in Nat : p \in N
  <2> HIDE DEF N
  <2> QED
    BY <1>2, <1>3, InductionOnNat
<1>5. w[n] = Number(s)
  <2>1. w[n] + v[n - n] * PowerOfTen(n) = Number(s) /\ n - n = 0
    BY <1>0, <1>4
  <2>2. w[n] \in Nat /\ PowerOfTen(n) \in Nat
    BY <1>0, PowerType
  <2> QED
    BY <1>1, <2>1, <2>2
<1> DEFINE M == {p \in Nat : n <= p /\ p <= places => w[p] = Number(s)}
<1>6. 0 \in M
  BY <1>0, <1>5
<1>7. ASSUME NEW p \in Nat, p \in M PROVE p + 1 \in M
  <2> SUFFICES ASSUME n <= p + 1, p + 1 <= places PROVE w[p + 1] = Number(s)
    OBVIOUS
  <2>1. CASE n = p + 1
    BY <1>5, <2>1
  <2>2. CASE n <= p
    <3>1. w[p] = Number(s) /\ p + 1 \in 1 .. places /\ (p + 1) - 1 = p /\ ~(p + 1 <= n)
      BY <1>0, <1>7, <2>2
    <3>2. digit_at(s, p + 1) = 0
      BY <3>1 DEF digit_at, n
    <3>3. w[p + 1] = w[p] + 0 * PowerOfTen(p)
      BY <3>1, <3>2 DEF Worth
    <3>4. PowerOfTen(p) \in Nat /\ Number(s) \in Nat
      BY PowerType, NumberType
    <3> QED
      BY <3>1, <3>3, <3>4
  <2> QED
    BY <1>0, <2>1, <2>2
<1>8. \A p \in Nat : p \in M
  <2> HIDE DEF M
  <2> QED
    BY <1>6, <1>7, InductionOnNat
<1> QED
  BY <1>0, <1>8

LEMMA TenFold ==
  \A t \in 0 .. 19 : /\ t \div 10 \in {0, 1} /\ t % 10 \in 0 .. 9
                     /\ t = (t % 10) + (t \div 10) * 10
OBVIOUS

\* What is carried out of each place, and the digits that are left.
CarryAt(c, l, r, p) == digit_at(l, p) + digit_at(r, p) + c[p - 1]
IsCarry(c, l, r, places) ==
  c = [p \in 0 .. places |-> IF p = 0 THEN 0 ELSE CarryAt(c, l, r, p) \div 10]
SumDigits(c, l, r, places) ==
  [i \in 1 .. places + c[places] |->
     LET p == (places + c[places]) + 1 - i
     IN  IF p > places THEN c[places] ELSE CarryAt(c, l, r, p) % 10]

LEMMA CarryExists ==
  ASSUME NEW l \in Seq(Digits), NEW r \in Seq(Digits), NEW places \in Nat
  PROVE  \E c \in [0 .. places -> {0, 1}] : IsCarry(c, l, r, places)
<1> DEFINE step == [x \in {0, 1} \X (1 .. places) |-> (digit_at(l, x[2]) + digit_at(r, x[2]) + x[1]) \div 10]
<1>1. step \in [{0, 1} \X (1 .. places) -> {0, 1}]
  <2> SUFFICES ASSUME NEW x \in {0, 1}, NEW p \in 1 .. places
               PROVE  (digit_at(l, p) + digit_at(r, p) + x) \div 10 \in {0, 1}
    OBVIOUS
  <2>1. digit_at(l, p) \in 0 .. 9 /\ digit_at(r, p) \in 0 .. 9
    <3>1. p \in Nat \ {0}
      OBVIOUS
    <3> QED
      BY <3>1, DigitAt
  <2>2. digit_at(l, p) + digit_at(r, p) + x \in 0 .. 19
    <3>1. x \in {0, 1}
      OBVIOUS
    <3> QED
      BY ONLY <2>1, <3>1, SmallSums, Zenon
  <2> QED
    BY <2>2, TenFold
<1>2. ASSUME NEW p \in 1 .. places, NEW x \in {0, 1}
      PROVE  step[<<x, p>>] = (digit_at(l, p) + digit_at(r, p) + x) \div 10
  OBVIOUS
<1> HIDE DEF step
<1>3. PICK c \in [0 .. places -> {0, 1}] : IsRun(c, step, 0, places)
  BY <1>1, RunExists
<1>4. c = [p \in 0 .. places |-> IF p = 0 THEN 0 ELSE step[<<c[p - 1], p>>]]
  BY <1>3 DEF IsRun
<1>5. ASSUME NEW p \in 1 .. places PROVE step[<<c[p - 1], p>>] = CarryAt(c, l, r, p) \div 10
  <2>1. c[p - 1] \in {0, 1}
    OBVIOUS
  <2> QED
    BY <1>2, <2>1 DEF CarryAt
<1>6. \A p \in 0 .. places : (IF p = 0 THEN 0 ELSE step[<<c[p - 1], p>>])
                               = (IF p = 0 THEN 0 ELSE CarryAt(c, l, r, p) \div 10)
  <2> SUFFICES ASSUME NEW p \in 0 .. places, p # 0
               PROVE  step[<<c[p - 1], p>>] = CarryAt(c, l, r, p) \div 10
    OBVIOUS
  <2>1. p \in 1 .. places
    OBVIOUS
  <2> QED
    BY <1>5, <2>1
<1> QED
  BY <1>4, <1>6 DEF IsCarry

LEMMA CarryType ==
  ASSUME NEW l \in Seq(Digits), NEW r \in Seq(Digits), NEW places \in Nat,
         NEW c, IsCarry(c, l, r, places)
  PROVE  c \in [0 .. places -> {0, 1}]
<1>1. c = [p \in 0 .. places |-> IF p = 0 THEN 0 ELSE CarryAt(c, l, r, p) \div 10]
  BY DEF IsCarry
<1>2. \A p \in 0 .. places : c[p] = IF p = 0 THEN 0 ELSE CarryAt(c, l, r, p) \div 10
  BY <1>1
<1> DEFINE N == {p \in Nat : p <= places => c[p] \in {0, 1}}
<1>3. 0 \in N
  <2>1. 0 \in 0 .. places
    OBVIOUS
  <2> QED
    BY <1>2, <2>1
<1>4. ASSUME NEW p \in Nat, p \in N PROVE p + 1 \in N
  <2> SUFFICES ASSUME p + 1 <= places PROVE c[p + 1] \in {0, 1}
    OBVIOUS
  <2>1. p + 1 \in 0 .. places /\ p + 1 # 0 /\ p + 1 \in Nat \ {0} /\ (p + 1) - 1 = p /\ p <= places
    OBVIOUS
  <2>2. c[p] \in {0, 1}
    BY <1>4, <2>1
  <2>3. digit_at(l, p + 1) \in 0 .. 9 /\ digit_at(r, p + 1) \in 0 .. 9
    BY <2>1, DigitAt
  <2>4. CarryAt(c, l, r, p + 1) = digit_at(l, p + 1) + digit_at(r, p + 1) + c[p]
    BY <2>1 DEF CarryAt
  <2>5. CarryAt(c, l, r, p + 1) \in 0 .. 19
    BY ONLY <2>2, <2>3, <2>4, SmallSums, Zenon
  <2>6. c[p + 1] = CarryAt(c, l, r, p + 1) \div 10
    BY <1>2, <2>1
  <2> QED
    BY <2>5, <2>6, TenFold
<1>5. \A p \in Nat : p \in N
  <2> HIDE DEF N
  <2> QED
    BY <1>3, <1>4, InductionOnNat
<1>6. \A p \in 0 .. places : c[p] \in {0, 1}
  BY <1>5
<1> QED
  BY <1>1, <1>6

\* add_decimal_strings adds the numbers, whatever lengths they have.
LEMMA SumOfDigits ==
  ASSUME NEW l \in Seq(Digits), NEW r \in Seq(Digits), NEW places \in Nat,
         Len(l) <= places, Len(r) <= places,
         NEW c \in [0 .. places -> {0, 1}], IsCarry(c, l, r, places)
  PROVE  /\ SumDigits(c, l, r, places) \in Seq(Digits)
         /\ Number(SumDigits(c, l, r, places)) = Number(l) + Number(r)
<1> DEFINE n == places + c[places]
           q == SumDigits(c, l, r, places)
<1>0. n \in Nat /\ c[places] \in {0, 1} /\ (n = places \/ n = places + 1)
  <2>1. c[places] \in {0, 1}
    OBVIOUS
  <2> QED
    BY <2>1
<1>1. /\ c[0] = 0
      /\ \A p \in 1 .. places : /\ CarryAt(c, l, r, p) \in 0 .. 19
                                /\ c[p] = CarryAt(c, l, r, p) \div 10
  <2>1. \A p \in 0 .. places : c[p] = IF p = 0 THEN 0 ELSE CarryAt(c, l, r, p) \div 10
    BY DEF IsCarry
  <2>2. ASSUME NEW p \in 1 .. places PROVE CarryAt(c, l, r, p) \in 0 .. 19
    <3>1. p \in Nat \ {0} /\ p - 1 \in 0 .. places
      OBVIOUS
    <3>2. digit_at(l, p) \in 0 .. 9 /\ digit_at(r, p) \in 0 .. 9 /\ c[p - 1] \in {0, 1}
      BY <3>1, DigitAt
    <3>3. CarryAt(c, l, r, p) = digit_at(l, p) + digit_at(r, p) + c[p - 1]
      BY ONLY DEF CarryAt
    <3> QED
      BY ONLY <3>2, <3>3, SmallSums, Zenon
  <2>3. \A p \in 1 .. places : p \in 0 .. places /\ p # 0
    OBVIOUS
  <2>4. 0 \in 0 .. places
    OBVIOUS
  <2> QED
    BY <2>1, <2>2, <2>3, <2>4
<1>2. q = [i \in 1 .. n |-> IF (n + 1 - i) > places THEN c[places] ELSE CarryAt(c, l, r, n + 1 - i) % 10]
  BY DEF SumDigits
<1> HIDE DEF n, q
<1>3. \A i \in 1 .. n : q[i] \in Digits
  <2> SUFFICES ASSUME NEW i \in 1 .. n PROVE q[i] \in Digits
    OBVIOUS
  <2>1. n + 1 - i \in 1 .. n
    BY <1>0
  <2>2. CASE n + 1 - i > places
    BY <1>0, <1>2, <2>2 DEF Digits
  <2>3. CASE ~(n + 1 - i > places)
    <3>1. n + 1 - i \in 1 .. places
      BY <1>0, <2>1, <2>3
    <3>2. CarryAt(c, l, r, n + 1 - i) % 10 \in 0 .. 9
      BY <1>1, <3>1, TenFold
    <3> QED
      BY <1>2, <2>3, <3>2 DEF Digits
  <2> QED
    BY <2>2, <2>3
<1>4. q \in Seq(Digits) /\ Len(q) = n
  BY <1>0, <1>2, <1>3
<1>5. /\ \A p \in 1 .. places : digit_at(q, p) = CarryAt(c, l, r, p) % 10
      /\ n = places + 1 => digit_at(q, n) = c[places]
  <2>1. ASSUME NEW p \in 1 .. n PROVE digit_at(q, p) = IF p > places THEN c[places] ELSE CarryAt(c, l, r, p) % 10
    <3>1. n + 1 - p \in 1 .. n /\ n + 1 - (n + 1 - p) = p /\ p <= n
      BY <1>0
    <3>2. q[n + 1 - p] = IF p > places THEN c[places] ELSE CarryAt(c, l, r, p) % 10
      BY <1>2, <3>1
    <3> QED
      BY <1>4, <3>1, <3>2 DEF digit_at
  <2>2. \A p \in 1 .. places : p \in 1 .. n /\ ~(p > places)
    BY <1>0
  <2>3. n = places + 1 => n \in 1 .. n /\ n > places
    BY <1>0
  <2> QED
    BY <2>1, <2>2, <2>3
<1>6. PICK wl \in [0 .. places -> Nat] : Worth(wl, l, places)
  BY WorthExists
<1>7. PICK wr \in [0 .. places -> Nat] : Worth(wr, r, places)
  BY WorthExists
<1>8. PICK wq \in [0 .. n -> Nat] : Worth(wq, q, n)
  BY <1>0, <1>4, WorthExists
<1>9. Number(l) = wl[places] /\ Number(r) = wr[places] /\ Number(q) = wq[n]
  <2>1. Number(l) = wl[places]
    BY <1>6, NumberIsWorth
  <2>2. Number(r) = wr[places]
    BY <1>7, NumberIsWorth
  <2>3. n <= n
    BY <1>0
  <2>4. Number(q) = wq[n]
    BY <1>0, <1>4, <1>8, <2>3, NumberIsWorth
  <2> QED
    BY <2>1, <2>2, <2>4
<1> DEFINE N == {p \in Nat : p <= places => wq[p] + c[p] * PowerOfTen(p) = wl[p] + wr[p]}
<1>10. 0 \in N
  <2>1. wq[0] = 0 /\ wl[0] = 0 /\ wr[0] = 0 /\ c[0] = 0 /\ PowerOfTen(0) = 1
    BY <1>1, <1>6, <1>7, <1>8, PowerNext DEF Worth
  <2>2. wq[0] + c[0] * PowerOfTen(0) = wl[0] + wr[0]
    BY ONLY <2>1
  <2> QED
    BY <2>2
<1>11. ASSUME NEW p \in Nat, p \in N PROVE p + 1 \in N
  <2> SUFFICES ASSUME p + 1 <= places
               PROVE  wq[p + 1] + c[p + 1] * PowerOfTen(p + 1) = wl[p + 1] + wr[p + 1]
    BY SMTT(30)
  <2> DEFINE m == PowerOfTen(p)
             dl == digit_at(l, p + 1)
             dr == digit_at(r, p + 1)
             t  == CarryAt(c, l, r, p + 1)
             k  == c[p]
             a  == wq[p]
             b  == wl[p]
             d  == wr[p]
             lo == t % 10
             hi == t \div 10
  <2>1. /\ p + 1 \in 1 .. places /\ p + 1 \in 1 .. n /\ (p + 1) - 1 = p /\ p + 1 \in Nat \ {0}
        /\ p \in 0 .. places /\ p \in 0 .. n /\ p <= places
    BY <1>0
  <2>2. m \in Nat /\ PowerOfTen(p + 1) = m * 10
    BY PowerType, PowerNext
  <2>3. dl \in 0 .. 9 /\ dr \in 0 .. 9 /\ k \in {0, 1} /\ a \in Nat /\ b \in Nat /\ d \in Nat
    BY <2>1, DigitAt
  <2>4. t = dl + dr + k /\ t \in 0 .. 19 /\ c[p + 1] = hi
    BY <1>1, <2>1 DEF CarryAt
  <2>5. lo \in 0 .. 9 /\ hi \in {0, 1} /\ t = lo + hi * 10
    BY <2>4, TenFold
  <2>6. wq[p + 1] = a + lo * m
    BY <1>5, <1>8, <2>1 DEF Worth
  <2>7. wl[p + 1] = b + dl * m
    BY <1>6, <2>1 DEF Worth
  <2>8. wr[p + 1] = d + dr * m
    BY <1>7, <2>1 DEF Worth
  <2>9. a + k * m = b + d
    BY <1>11, <2>1
  <2> HIDE DEF m, dl, dr, t, k, a, b, d, lo, hi
  <2>10. (a + lo * m) + hi * (m * 10) = (b + dl * m) + (d + dr * m)
    <3>1. lo + hi * 10 = dl + dr + k
      BY <2>4, <2>5
    <3>2. lo * m + hi * (m * 10) = (lo + hi * 10) * m
      BY <2>2, <2>5
    <3>3. (dl + dr + k) * m = dl * m + dr * m + k * m
      BY <2>2, <2>3
    <3>4. lo * m \in Nat /\ hi * (m * 10) \in Nat /\ dl * m \in Nat /\ dr * m \in Nat /\ k * m \in Nat
      BY <2>2, <2>3, <2>5, SMTT(30)
    <3>5. lo * m + hi * (m * 10) = dl * m + dr * m + k * m
      BY <3>1, <3>2, <3>3
    <3> DEFINE lm == lo * m
               hm == hi * (m * 10)
               dm == dl * m
               em == dr * m
               km == k * m
    <3>6. lm \in Nat /\ hm \in Nat /\ dm \in Nat /\ em \in Nat /\ km \in Nat
      BY <3>4
    <3>7. lm + hm = dm + em + km
      BY <3>5
    <3>8. a + km = b + d
      BY <2>9
    <3> HIDE DEF lm, hm, dm, em, km
    <3>9. (a + lm) + hm = (b + dm) + (d + em)
      BY ONLY <2>3, <3>6, <3>7, <3>8
    <3> QED
      BY <3>9 DEF lm, hm, dm, em
  <2> QED
    BY <2>2, <2>4, <2>6, <2>7, <2>8, <2>10
<1>12. \A p \in Nat : p \in N
  <2> HIDE DEF N
  <2> QED
    BY <1>10, <1>11, InductionOnNat
<1>13. wq[places] + c[places] * PowerOfTen(places) = wl[places] + wr[places]
  BY <1>12
<1>14. wq[n] = wq[places] + c[places] * PowerOfTen(places)
  <2>0. PowerOfTen(places) \in Nat /\ wq[places] \in Nat
    <3>1. places \in 0 .. n
      BY <1>0
    <3> QED
      BY <3>1, PowerType
  <2>1. CASE n = places
    <3>1. c[places] = 0
      BY <1>0, <2>1 DEF n
    <3> QED
      BY <2>0, <2>1, <3>1
  <2>2. CASE n = places + 1
    <3>1. n \in 1 .. n /\ n - 1 = places
      BY <1>0, <2>2
    <3> QED
      BY <1>5, <1>8, <2>2, <3>1 DEF Worth
  <2> QED
    BY <1>0, <2>1, <2>2
<1> QED
  BY <1>4, <1>9, <1>13, <1>14 DEF q

LEMMA MaxOfTwo ==
  ASSUME NEW m \in Nat, NEW n \in Nat
  PROVE  Max({m, n}) \in {m, n} /\ m <= Max({m, n}) /\ n <= Max({m, n})
<1>1. \E x \in {m, n} : \A y \in {m, n} : x >= y
  <2>1. m >= n \/ n >= m
    OBVIOUS
  <2> QED
    BY <2>1
<1> QED
  BY <1>1 DEF Max

LEMMA AddDecimals ==
  ASSUME NEW l \in Seq(Digits), NEW r \in Seq(Digits)
  PROVE  /\ add_decimal_strings(l, r) \in Seq(Digits)
         /\ Number(add_decimal_strings(l, r)) = Number(l) + Number(r)
<1> DEFINE places == Max({Len(l), Len(r)})
           carry == CHOOSE c : IsCarry(c, l, r, places)
<1>1. places \in Nat /\ Len(l) <= places /\ Len(r) <= places
  BY MaxOfTwo, LenProperties
<1>2. add_decimal_strings(l, r) = SumDigits(carry, l, r, places)
  BY DEF add_decimal_strings, SumDigits, IsCarry, CarryAt
<1> HIDE DEF places, carry
<1>3. \E c : IsCarry(c, l, r, places)
  BY <1>1, CarryExists
<1>4. IsCarry(carry, l, r, places)
  BY <1>3 DEF carry
<1>5. carry \in [0 .. places -> {0, 1}]
  BY <1>1, <1>4, CarryType
<1> QED
  BY <1>1, <1>2, <1>4, <1>5, SumOfDigits

\* Zeros behind a number, none behind 0.
LEMMA ScaledAmount ==
  ASSUME NEW s \in Seq(Digits), NEW n \in Nat
  PROVE  /\ scale_raw_amount_string(s, n) \in Seq(Digits)
         /\ Number(scale_raw_amount_string(s, n)) = Number(s) * PowerOfTen(n)
<1> DEFINE q == trim_zeros(s)
<1>1. /\ q \in Seq(Digits) /\ Number(q) = Number(s)
      /\ IF Number(s) = 0 THEN q = <<0>> ELSE q[1] # 0
  BY TrimZeros
<1>2. <<0>> \in Seq(Digits) /\ Number(<<0>>) = 0
  <2>1. <<0>> \in Seq(Digits) /\ Len(<<0>>) = 1 /\ \A i \in 1 .. 1 : <<0>>[i] = 0
    BY DEF Digits
  <2> QED
    BY <2>1, NumberOfZeros
<1>3. PowerOfTen(n) \in Nat
  BY PowerType
<1>4. CASE q = <<0>>
  <2>1. scale_raw_amount_string(s, n) = <<0>>
    BY <1>4 DEF scale_raw_amount_string
  <2>2. Number(s) = 0
    BY <1>1, <1>2, <1>4
  <2>3. 0 * PowerOfTen(n) = 0
    BY <1>3
  <2> QED
    BY <1>2, <2>1, <2>2, <2>3
<1>5. CASE q # <<0>>
  <2>1. scale_raw_amount_string(s, n) = q \o Zeros(n)
    BY <1>5 DEF scale_raw_amount_string
  <2>2. q \o Zeros(n) \in Seq(Digits)
    BY <1>1, ZerosIn, ConcatProperties
  <2>3. Number(q \o Zeros(n)) = Number(q) * PowerOfTen(n)
    BY <1>1, NumberScaled
  <2> QED
    BY <1>1, <2>1, <2>2, <2>3
<1> QED
  BY <1>4, <1>5

\* A fold over a finite set that takes its elements as CHOOSE does.
IsSetFold(g, step, base, S) ==
  g = [s \in SUBSET S |-> IF s = {} THEN base ELSE step[<<g[s \ {First(s)}], First(s)>>]]

LEMMA SetFoldExists ==
  ASSUME NEW A, NEW base \in A, NEW S, IsFiniteSet(S), NEW step \in [A \X S -> A]
  PROVE  \E g \in [SUBSET S -> A] : IsSetFold(g, step, base, S)
<1> DEFINE Upto(k) == {s \in SUBSET S : Cardinality(s) <= k}
           Value(g, s) == IF s = {} THEN base ELSE step[<<g[s \ {First(s)}], First(s)>>]
           Approx(g, k) == g = [s \in Upto(k) |-> Value(g, s)]
           N == {k \in Nat : \E g \in [Upto(k) -> A] : Approx(g, k)}
<1>0. \A s \in SUBSET S : IsFiniteSet(s) /\ Cardinality(s) \in Nat
  BY FS_Subset, FS_CardinalityType
<1>1. 0 \in N
  <2>1. Upto(0) = {{}}
    BY <1>0, FS_EmptySet
  <2>2. Approx([s \in Upto(0) |-> base], 0)
    BY <2>1
  <2> QED
    BY <2>2
<1>2. ASSUME NEW k \in Nat, k \in N PROVE k + 1 \in N
  <2>1. PICK g \in [Upto(k) -> A] : Approx(g, k)
    BY <1>2
  <2> DEFINE h == [s \in Upto(k + 1) |-> Value(g, s)]
  <2>2. ASSUME NEW s \in Upto(k + 1), s # {}
        PROVE  s \ {First(s)} \in Upto(k) /\ First(s) \in S
    <3>1. IsFiniteSet(s) /\ First(s) \in s /\ s \in SUBSET S
      BY <1>0, <2>2, FirstIn
    <3>2. Cardinality(s \ {First(s)}) = Cardinality(s) - 1
      BY ONLY <3>1, FS_RemoveElement
    <3>3. Cardinality(s) <= k + 1 /\ Cardinality(s) \in Nat
      BY <1>0
    <3>4. Cardinality(s \ {First(s)}) <= k
      BY <3>2, <3>3
    <3> QED
      BY <3>1, <3>4
  <2>3. \A s \in Upto(k) : s \in Upto(k + 1) /\ g[s] = h[s]
    <3>1. \A s \in Upto(k) : s \in Upto(k + 1)
      BY <1>0
    <3> QED
      BY <2>1, <3>1
  <2>4. \A s \in Upto(k + 1) : h[s] = Value(h, s) /\ h[s] \in A
    <3> SUFFICES ASSUME NEW s \in Upto(k + 1) PROVE h[s] = Value(h, s) /\ h[s] \in A
      OBVIOUS
    <3>1. CASE s = {}
      BY <3>1
    <3>2. CASE s # {}
      <4>1. s \ {First(s)} \in Upto(k) /\ First(s) \in S
        BY <2>2, <3>2
      <4>2. g[s \ {First(s)}] \in A /\ g[s \ {First(s)}] = h[s \ {First(s)}]
        <5> HIDE DEF Upto, h
        <5> QED
          BY <2>1, <2>3, <4>1
      <4>3. <<g[s \ {First(s)}], First(s)>> \in A \X S
        BY <4>1, <4>2
      <4>4. step[<<g[s \ {First(s)}], First(s)>>] \in A
        BY <4>3
      <4>5. h[s] = step[<<g[s \ {First(s)}], First(s)>>]
        BY <3>2
      <4> QED
        BY <3>2, <4>2, <4>4, <4>5
    <3> QED
      BY <3>1, <3>2
  <2>5. Approx(h, k + 1) /\ h \in [Upto(k + 1) -> A]
    <3> HIDE DEF Upto, Value
    <3>1. h = [s \in Upto(k + 1) |-> h[s]]
      OBVIOUS
    <3> QED
      BY <2>4, <3>1
  <2> HIDE DEF Approx, Upto, h
  <2>6. \E q \in [Upto(k + 1) -> A] : Approx(q, k + 1)
    BY <2>5
  <2> QED
    BY <2>6
<1>3. Nat \subseteq N
  <2> HIDE DEF N
  <2> QED
    BY <1>1, <1>2, InductionOnNat
<1>4. PICK g \in [Upto(Cardinality(S)) -> A] : Approx(g, Cardinality(S))
  BY <1>0, <1>3
<1>5. Upto(Cardinality(S)) = SUBSET S
  BY FS_Subset
<1> QED
  BY <1>4, <1>5 DEF IsSetFold

\* The texts of numbers added up, and the sum of the numbers.
IsTextSum(g, f, S) ==
  g = [s \in SUBSET S |-> IF s = {} THEN <<0>>
                          ELSE add_decimal_strings(g[s \ {First(s)}], f[First(s)])]
TextSum(f, S) == (CHOOSE g : IsTextSum(g, f, S))[S]

LEMMA TextSums ==
  ASSUME NEW S, IsFiniteSet(S), NEW f \in [S -> Seq(Digits)],
         NEW v, \A x \in S : v[x] = Number(f[x])
  PROVE  TextSum(f, S) \in Seq(Digits) /\ Number(TextSum(f, S)) = SumOf(v, S)
<1> DEFINE A == Seq(Digits)
           step == [x \in A \X S |-> add_decimal_strings(x[1], f[x[2]])]
<1>0. <<0>> \in A /\ Number(<<0>>) = 0
  <2>1. <<0>> \in Seq(Digits) /\ Len(<<0>>) = 1 /\ \A i \in 1 .. 1 : <<0>>[i] = 0
    BY DEF Digits
  <2> QED
    BY <2>1, NumberOfZeros
<1>1. \A x \in A, y \in S : add_decimal_strings(x, f[y]) \in A
  BY AddDecimals
<1> HIDE DEF A
<1>2. step \in [A \X S -> A] /\ \A x \in A, y \in S : step[<<x, y>>] = add_decimal_strings(x, f[y])
  BY <1>1
<1> HIDE DEF step
<1>3. PICK g \in [SUBSET S -> A] : IsSetFold(g, step, <<0>>, S)
  BY <1>0, <1>2, SetFoldExists
<1>4. IsTextSum(g, f, S)
  <2>1. g = [s \in SUBSET S |-> IF s = {} THEN <<0>> ELSE step[<<g[s \ {First(s)}], First(s)>>]]
    BY <1>3 DEF IsSetFold
  <2>2. ASSUME NEW s \in SUBSET S, s # {}
        PROVE  step[<<g[s \ {First(s)}], First(s)>>] = add_decimal_strings(g[s \ {First(s)}], f[First(s)])
    <3>1. First(s) \in S /\ g[s \ {First(s)}] \in A
      BY <2>2, FirstIn
    <3> QED
      BY <1>2, <3>1
  <2> QED
    BY <2>1, <2>2 DEF IsTextSum
<1> DEFINE h == CHOOSE k : IsTextSum(k, f, S)
<1>5. IsTextSum(h, f, S)
  BY <1>4
<1> HIDE DEF h
<1>6. \A s \in SUBSET S : h[s] = IF s = {} THEN <<0>>
                                 ELSE add_decimal_strings(h[s \ {First(s)}], f[First(s)])
  BY <1>5 DEF IsTextSum
<1> DEFINE N == {n \in Nat : \A s \in SUBSET S : Cardinality(s) = n => h[s] \in A /\ Number(h[s]) = SumOf(v, s)}
<1>7. \A s \in SUBSET S : IsFiniteSet(s) /\ Cardinality(s) \in Nat
  BY FS_Subset, FS_CardinalityType
<1>8. 0 \in N
  <2>1. SumOf(v, {}) = 0
    BY SumEmpty
  <2>2. \A s \in SUBSET S : Cardinality(s) = 0 => s = {}
    BY <1>7, FS_EmptySet
  <2>3. h[{}] = <<0>>
    BY <1>6
  <2> QED
    BY <1>0, <2>1, <2>2, <2>3
<1>9. ASSUME NEW n \in Nat, n \in N PROVE n + 1 \in N
  <2> SUFFICES ASSUME NEW s \in SUBSET S, Cardinality(s) = n + 1
               PROVE  h[s] \in A /\ Number(h[s]) = SumOf(v, s)
    OBVIOUS
  <2>1. s # {} /\ First(s) \in s
    BY <1>7, FS_EmptySet, FirstIn
  <2>2. Cardinality(s \ {First(s)}) = n /\ s \ {First(s)} \in SUBSET S
    <3>1. IsFiniteSet(s)
      BY <1>7
    <3>2. Cardinality(s \ {First(s)}) = Cardinality(s) - 1
      BY ONLY <2>1, <3>1, FirstRemoved, Zenon
    <3> QED
      BY <3>2
  <2> DEFINE r == s \ {First(s)}
             x == First(s)
  <2>3. h[r] \in A /\ Number(h[r]) = SumOf(v, r)
    BY <1>9, <2>2
  <2>4. SumOf(v, s) = v[x] + SumOf(v, r)
    BY <1>7, <2>1, SumEquation
  <2>5. h[s] = add_decimal_strings(h[r], f[x])
    BY <1>6, <2>1
  <2>6. x \in S /\ f[x] \in A /\ v[x] = Number(f[x])
    BY <2>1 DEF A
  <2> HIDE DEF r, x
  <2>7. add_decimal_strings(h[r], f[x]) \in A /\ Number(add_decimal_strings(h[r], f[x])) = Number(h[r]) + Number(f[x])
    BY <2>3, <2>6, AddDecimals DEF A
  <2>8. Number(h[r]) \in Nat /\ Number(f[x]) \in Nat
    BY <2>3, <2>6, NumberType DEF A
  <2> QED
    BY <2>3, <2>4, <2>5, <2>6, <2>7, <2>8
<1>10. \A n \in Nat : n \in N
  <2> HIDE DEF N
  <2> QED
    BY <1>8, <1>9, InductionOnNat
<1> QED
  BY <1>7, <1>10 DEF TextSum, h, A

LEMMA TimesIsMonotone ==
  ASSUME NEW k \in Nat, k >= 1
  PROVE  \A a, b \in Nat : k * a \in Nat /\ (a < b <=> k * a < k * b)
<1> SUFFICES ASSUME NEW a \in Nat, NEW b \in Nat
             PROVE  k * a \in Nat /\ (a < b <=> k * a < k * b)
  OBVIOUS
<1>1. k * a \in Nat /\ k * b \in Nat
  OBVIOUS
<1>2. CASE a < b
  <2> DEFINE e == b - a
  <2>1. e \in Nat /\ e >= 1 /\ b = a + e
    BY <1>2
  <2> HIDE DEF e
  <2>2. k * b = k * a + k * e /\ k * e >= 1
    BY <2>1
  <2> QED
    BY <1>1, <1>2, <2>1, <2>2
<1>3. CASE ~(a < b)
  <2> DEFINE e == a - b
  <2>1. e \in Nat /\ a = b + e
    BY <1>3
  <2> HIDE DEF e
  <2>2. k * a = k * b + k * e /\ k * e \in Nat
    BY <2>1
  <2> QED
    BY <1>1, <1>3, <2>2
<1> QED
  BY <1>2, <1>3

\* All the values times the same number.
LEMMA SumScaled ==
  ASSUME NEW S, IsFiniteSet(S), NEW k \in Nat, NEW f, \A x \in S : f[x] \in Nat,
         NEW g, \A x \in S : g[x] = k * f[x]
  PROVE  SumOf(g, S) = k * SumOf(f, S)
<1> DEFINE T == {s \in SUBSET S : SumOf(g, s) = k * SumOf(f, s)}
<1>0. \A s \in SUBSET S : IsFiniteSet(s) /\ SumOf(f, s) \in Nat
  BY FS_Subset, SumType
<1>1. {} \in T
  BY SumEmpty
<1>2. ASSUME NEW s \in SUBSET S, NEW x \in S, s \in T, x \notin s PROVE s \cup {x} \in T
  <2>1. SumOf(f, s \cup {x}) = f[x] + SumOf(f, s)
    BY <1>0, <1>2, SumAdd
  <2>2. SumOf(g, s \cup {x}) = g[x] + SumOf(g, s)
    <3>1. \A y \in S : g[y] \in Nat
      OBVIOUS
    <3> QED
      BY <1>0, <1>2, <3>1, SumAdd
  <2>3. SumOf(g, s) = k * SumOf(f, s) /\ g[x] = k * f[x]
    BY <1>2
  <2> DEFINE a == f[x]
             b == SumOf(f, s)
  <2>4. a \in Nat /\ b \in Nat
    BY <1>0
  <2> HIDE DEF a, b
  <2>5. k * a + k * b = k * (a + b)
    BY <2>4
  <2> QED
    BY <2>1, <2>2, <2>3, <2>5 DEF a, b
<1> HIDE DEF T
<1>3. S \in T
  BY <1>1, <1>2, InductionOnSubsets
<1> QED
  BY <1>3 DEF T

-----------------------------------------------------------------------------
(* The first elements of a finite set in a strict total order Lt.          *)

IsOrder(Lt, F) ==
  /\ \A v \in F : <<v, v>> \notin Lt
  /\ \A u, v, w \in F : <<u, v>> \in Lt /\ <<v, w>> \in Lt => <<u, w>> \in Lt
  /\ \A v, w \in F : v = w \/ <<v, w>> \in Lt \/ <<w, v>> \in Lt

Below(w, Lt, F) == {v \in F : <<v, w>> \in Lt}

LEMMA PlacesDiffer ==
  ASSUME NEW F, IsFiniteSet(F), NEW Lt, IsOrder(Lt, F), NEW v \in F, NEW w \in F, <<v, w>> \in Lt
  PROVE  Cardinality(Below(v, Lt, F)) < Cardinality(Below(w, Lt, F))
<1> DEFINE V == Below(v, Lt, F)
           W == Below(w, Lt, F)
<1>1. V \subseteq W /\ W \subseteq F /\ v \in W /\ v \notin V
  BY DEF IsOrder, Below
<1> HIDE DEF V, W
<1>2. IsFiniteSet(W)
  BY <1>1, FS_Subset
<1>3. IsFiniteSet(V) /\ Cardinality(V) <= Cardinality(W) /\ Cardinality(V) # Cardinality(W)
  <2>1. V \in SUBSET W
    BY <1>1
  <2>2. IsFiniteSet(V) /\ Cardinality(V) <= Cardinality(W) /\ (Cardinality(W) = Cardinality(V) => W = V)
    BY ONLY <1>2, <2>1, FS_Subset
  <2> QED
    BY <1>1, <2>2
<1>4. Cardinality(V) \in Nat /\ Cardinality(W) \in Nat
  BY <1>2, <1>3, FS_CardinalityType
<1>5. Cardinality(V) < Cardinality(W)
  BY <1>3, <1>4
<1> QED
  BY <1>5 DEF V, W

LEMMA FirstOfOrder ==
  ASSUME NEW F, IsFiniteSet(F), NEW Lt, IsOrder(Lt, F), NEW m \in Nat
  PROVE  LET R == {w \in F : Cardinality(Below(w, Lt, F)) < m}
         IN  /\ IsFiniteSet(R)
             /\ Cardinality(R) = IF Cardinality(F) < m THEN Cardinality(F) ELSE m
<1> DEFINE R == {w \in F : Cardinality(Below(w, Lt, F)) < m}
           n == Cardinality(F)
           place == [w \in F |-> Cardinality(Below(w, Lt, F))]
           taken == {place[w] : w \in F}
           k == IF n < m THEN n ELSE m
<1>1. n \in Nat /\ k \in Nat /\ k <= n /\ k <= m /\ (k = n \/ k = m)
  BY FS_CardinalityType
<1>2. \A w \in F : place[w] = Cardinality(Below(w, Lt, F))
  OBVIOUS
<1>3. \A w \in F : place[w] \in 0 .. n - 1
  <2> SUFFICES ASSUME NEW w \in F PROVE Cardinality(Below(w, Lt, F)) \in 0 .. n - 1
    BY <1>2
  <2>1. Below(w, Lt, F) \in SUBSET (F \ {w})
    BY DEF IsOrder, Below
  <2>2. IsFiniteSet(F \ {w}) /\ Cardinality(F \ {w}) = n - 1
    BY FS_RemoveElement
  <2> HIDE DEF n
  <2>3. IsFiniteSet(Below(w, Lt, F)) /\ Cardinality(Below(w, Lt, F)) <= n - 1
    BY <2>1, <2>2, FS_Subset
  <2>4. Cardinality(Below(w, Lt, F)) \in Nat
    BY <2>3, FS_CardinalityType
  <2> QED
    BY <1>1, <2>3, <2>4
<1>4. \A v, w \in F : place[v] = place[w] => v = w
  <2> SUFFICES ASSUME NEW v \in F, NEW w \in F, v # w PROVE place[v] # place[w]
    OBVIOUS
  <2>1. <<v, w>> \in Lt \/ <<w, v>> \in Lt
    BY DEF IsOrder
  <2>2. place[v] \in Int /\ place[w] \in Int
    BY <1>3
  <2>3. <<v, w>> \in Lt => place[v] < place[w]
    BY <1>2, PlacesDiffer
  <2>4. <<w, v>> \in Lt => place[w] < place[v]
    BY <1>2, PlacesDiffer
  <2> HIDE DEF place
  <2> QED
    BY <2>1, <2>2, <2>3, <2>4
<1> HIDE DEF place
<1>5. IsFiniteSet(taken) /\ Cardinality(taken) = n
  BY <1>4, ImageSize
<1>6. taken = 0 .. n - 1
  <2>1. taken \in SUBSET (0 .. n - 1)
    BY <1>3
  <2>2. IsFiniteSet(0 .. n - 1) /\ Cardinality(0 .. n - 1) = n
    <3> HIDE DEF n
    <3>1. 0 \in Int /\ n - 1 \in Int
      BY <1>1
    <3>2. IsFiniteSet(0 .. n - 1) /\ Cardinality(0 .. n - 1) = IF 0 > n - 1 THEN 0 ELSE (n - 1) - 0 + 1
      BY <3>1, FS_Interval
    <3> QED
      BY <1>1, <3>2
  <2> HIDE DEF taken, n
  <2> QED
    BY <1>5, <2>1, <2>2, FS_Subset
<1>7. {place[w] : w \in R} = 0 .. k - 1
  <2>1. \A w \in R : place[w] \in 0 .. k - 1
    <3> SUFFICES ASSUME NEW w \in R PROVE place[w] \in 0 .. k - 1
      OBVIOUS
    <3>1. place[w] \in 0 .. n - 1 /\ place[w] < m
      BY <1>2, <1>3
    <3> HIDE DEF n, k
    <3> QED
      BY <1>1, <3>1
  <2>2. \A i \in 0 .. k - 1 : \E w \in R : place[w] = i
    <3> SUFFICES ASSUME NEW i \in 0 .. k - 1 PROVE \E w \in R : place[w] = i
      OBVIOUS
    <3>1. i \in 0 .. n - 1 /\ i < m
      <4> HIDE DEF n, k
      <4> QED
        BY <1>1
    <3>2. PICK w \in F : place[w] = i
      BY <1>6, <3>1
    <3> QED
      BY <1>2, <3>1, <3>2
  <2> HIDE DEF R, k
  <2> QED
    BY <2>1, <2>2
<1>8. IsFiniteSet(R) /\ Cardinality(R) = k
  <2>1. IsFiniteSet(R) /\ \A v, w \in R : place[v] = place[w] => v = w
    BY <1>4, FS_Subset
  <2> HIDE DEF R, k
  <2>2. Cardinality({place[w] : w \in R}) = Cardinality(R)
    BY <2>1, ImageSize
  <2>3. 0 \in Int /\ k - 1 \in Int
    BY <1>1
  <2>4. Cardinality(0 .. k - 1) = IF 0 > k - 1 THEN 0 ELSE (k - 1) - 0 + 1
    BY <2>3, FS_Interval
  <2>5. Cardinality(0 .. k - 1) = k
    BY <1>1, <2>4
  <2> QED
    BY <1>7, <2>1, <2>2, <2>5
<1> QED
  BY <1>8
=============================================================================
