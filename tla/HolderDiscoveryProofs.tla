------------------------ MODULE HolderDiscoveryProofs ------------------------
(***************************************************************************)
(* Proofs about HolderDiscovery: for any number of wallets, tokens and     *)
(* changes, lists, limits and clients, the requests keep within their      *)
(* limits, the pages come to an end, a change of the list costs at most    *)
(* one account, nobody who was known to have the token is taken, every     *)
(* candidate is accounted for, wallets of one rank are ordered by what     *)
(* they hold, and as many are taken as the limit and the lists allow.      *)
(***************************************************************************)
EXTENDS HolderDiscovery, SequenceTheorems, DataProofs

-----------------------------------------------------------------------------
(* Sequences of accounts.                                                  *)

Different(s) == AllDiffer(s, Len(s))

LEMMA ToSetOf ==
  ASSUME NEW s \in Seq(Nat)
  PROVE  /\ P!ToSet(s) = {s[i] : i \in 1 .. Len(s)} /\ P!ToSet(s) \subseteq Nat
         /\ IsFiniteSet(P!ToSet(s)) /\ Cardinality(P!ToSet(s)) \in Nat
         /\ Cardinality(P!ToSet(s)) <= Len(s) /\ Len(s) \in Nat
<1>1. DOMAIN s = 1 .. Len(s) /\ Len(s) \in Nat /\ \A i \in 1 .. Len(s) : s[i] \in Nat
  BY LenProperties, ElementOfSeq
<1>2. P!ToSet(s) = {s[i] : i \in 1 .. Len(s)} /\ P!ToSet(s) \subseteq Nat
  BY <1>1 DEF P!ToSet
<1>3. IsFiniteSet(1 .. Len(s)) /\ Cardinality(1 .. Len(s)) = Len(s)
  BY <1>1, FS_Interval
<1> DEFINE f == [i \in 1 .. Len(s) |-> s[i]]
<1>4. f \in Surjection(1 .. Len(s), P!ToSet(s))
  BY <1>2 DEF Surjection
<1>5. IsFiniteSet(P!ToSet(s)) /\ Cardinality(P!ToSet(s)) <= Cardinality(1 .. Len(s))
  BY <1>3, <1>4, FS_Surjection
<1>6. Cardinality(P!ToSet(s)) \in Nat
  BY <1>5, FS_CardinalityType
<1> QED
  BY <1>1, <1>2, <1>3, <1>5, <1>6

\* A list whose accounts are all different has as many of them as entries.
LEMMA DifferentSize ==
  ASSUME NEW s \in Seq(Nat), Different(s)
  PROVE  Cardinality(P!ToSet(s)) = Len(s)
<1>1. DOMAIN s = 1 .. Len(s) /\ Len(s) \in Nat /\ P!ToSet(s) = {s[i] : i \in 1 .. Len(s)}
  BY LenProperties, ToSetOf
<1>2. IsFiniteSet(1 .. Len(s)) /\ Cardinality(1 .. Len(s)) = Len(s)
  BY <1>1, FS_Interval, SMTT(30)
<1>3. \A i, j \in 1 .. Len(s) : s[i] = s[j] => i = j
  BY DEF Different, AllDiffer
<1>4. Cardinality({s[i] : i \in 1 .. Len(s)}) = Cardinality(1 .. Len(s))
  BY <1>2, <1>3, ImageSize
<1> QED
  BY <1>1, <1>2, <1>4

LEMMA ToSetOfConcat ==
  ASSUME NEW s \in Seq(Nat), NEW t \in Seq(Nat)
  PROVE  P!ToSet(s \o t) = P!ToSet(s) \cup P!ToSet(t)
<1> DEFINE q == s \o t
<1>1. Len(s) \in Nat /\ Len(t) \in Nat
  BY LenProperties
<1>2. /\ q \in Seq(Nat) /\ Len(q) = Len(s) + Len(t)
      /\ \A k \in 1 .. Len(s) : q[k] = s[k]
      /\ \A k \in Len(s) + 1 .. Len(s) + Len(t) : q[k] = t[k - Len(s)]
  BY ConcatAt
<1> HIDE DEF q
<1>3. /\ P!ToSet(s) = {s[i] : i \in 1 .. Len(s)}
      /\ P!ToSet(t) = {t[i] : i \in 1 .. Len(t)}
      /\ P!ToSet(q) = {q[i] : i \in 1 .. Len(q)}
  BY <1>2, ToSetOf
<1>4. \A k \in 1 .. Len(s) : s[k] \in P!ToSet(q)
  BY <1>1, <1>2, <1>3
<1>5. ASSUME NEW k \in 1 .. Len(t) PROVE t[k] \in P!ToSet(q)
  <2>1. Len(s) + k \in Len(s) + 1 .. Len(s) + Len(t) /\ (Len(s) + k) - Len(s) = k
    BY <1>1
  <2>2. Len(s) + k \in 1 .. Len(q)
    BY <1>1, <1>2
  <2>3. q[Len(s) + k] = t[k]
    BY <1>2, <2>1
  <2> QED
    BY <1>3, <2>2, <2>3
<1>6. ASSUME NEW k \in 1 .. Len(q) PROVE q[k] \in P!ToSet(s) \cup P!ToSet(t)
  <2>1. CASE k <= Len(s)
    BY <1>1, <1>2, <1>3, <2>1, SMTT(30)
  <2>2. CASE k > Len(s)
    <3>1. k \in Len(s) + 1 .. Len(s) + Len(t) /\ k - Len(s) \in 1 .. Len(t)
      BY <1>1, <1>2, <2>2
    <3> QED
      BY <1>2, <1>3, <3>1
  <2> QED
    BY <1>1, <2>1, <2>2
<1> QED
  BY <1>3, <1>4, <1>5, <1>6 DEF q

LEMMA Removed ==
  ASSUME NEW s \in Seq(Nat), NEW i \in 1 .. Len(s)
  PROVE  LET q == P!RemoveAt(s, i)
         IN  /\ q \in Seq(Nat) /\ Len(q) = Len(s) - 1
             /\ Without(q, s, Len(s), i)
<1> DEFINE left  == SubSeq(s, 1, i - 1)
           right == SubSeq(s, i + 1, Len(s))
           q     == left \o right
<1>1. Len(s) \in Nat /\ i \in Int
  BY LenProperties
<1>2. /\ left \in Seq(Nat) /\ Len(left) = i - 1
      /\ \A k \in 1 .. i - 1 : left[k] = s[k]
  <2>1. 1 \in 1 .. Len(s) + 1 /\ i - 1 \in 1 - 1 .. Len(s)
    BY <1>1
  <2>2. /\ left \in Seq(Nat) /\ Len(left) = i - 1 - 1 + 1
        /\ \A k \in 1 .. i - 1 - 1 + 1 : left[k] = s[1 + k - 1]
    BY <2>1, SliceOf
  <2> HIDE DEF left
  <2> QED
    BY <1>1, <2>2
<1>3. /\ right \in Seq(Nat) /\ Len(right) = Len(s) - i
      /\ \A k \in 1 .. Len(s) - i : right[k] = s[i + k]
  <2>1. i + 1 \in 1 .. Len(s) + 1 /\ Len(s) \in (i + 1) - 1 .. Len(s)
    BY <1>1
  <2>2. /\ right \in Seq(Nat) /\ Len(right) = Len(s) - (i + 1) + 1
        /\ \A k \in 1 .. Len(s) - (i + 1) + 1 : right[k] = s[(i + 1) + k - 1]
    BY <2>1, SliceOf
  <2> HIDE DEF right
  <2> QED
    BY <1>1, <2>2, SMTT(30)
<1>4. P!RemoveAt(s, i) = q
  BY DEF P!RemoveAt
<1> HIDE DEF left, right
<1>5. /\ q \in Seq(Nat) /\ Len(q) = Len(left) + Len(right)
      /\ \A k \in 1 .. Len(left) : q[k] = left[k]
      /\ \A k \in Len(left) + 1 .. Len(left) + Len(right) : q[k] = right[k - Len(left)]
  BY <1>2, <1>3, ConcatAt, ZenonT(60)
<1> HIDE DEF q
<1>6. \A k \in 1 .. i - 1 : q[k] = s[k]
  BY <1>2, <1>5
<1>7. ASSUME NEW k \in i .. Len(s) - 1 PROVE q[k] = s[k + 1]
  <2>1. k \in Len(left) + 1 .. Len(left) + Len(right)
    BY <1>1, <1>2, <1>3
  <2>2. k - Len(left) \in 1 .. Len(s) - i /\ i + (k - Len(left)) = k + 1
    BY <1>1, <1>2
  <2> QED
    BY <1>3, <1>5, <2>1, <2>2
<1>8. Len(q) = Len(s) - 1
  BY <1>1, <1>2, <1>3, <1>5
<1> QED
  BY <1>4, <1>5, <1>6, <1>7, <1>8 DEF Without

LEMMA Inserted ==
  ASSUME NEW s \in Seq(Nat), NEW j \in 1 .. Len(s) + 1, NEW x \in Nat
  PROVE  LET q == P!InsertAt(s, j, x)
         IN  /\ q \in Seq(Nat) /\ Len(q) = Len(s) + 1
             /\ With(q, s, Len(s), j, x)
<1> DEFINE left  == SubSeq(s, 1, j - 1)
           right == SubSeq(s, j, Len(s))
           front == left \o <<x>>
           q     == front \o right
<1>1. Len(s) \in Nat /\ j \in Int
  BY LenProperties
<1>2. /\ left \in Seq(Nat) /\ Len(left) = j - 1
      /\ \A k \in 1 .. j - 1 : left[k] = s[k]
  <2>1. 1 \in 1 .. Len(s) + 1 /\ j - 1 \in 1 - 1 .. Len(s)
    BY <1>1
  <2>2. /\ left \in Seq(Nat) /\ Len(left) = j - 1 - 1 + 1
        /\ \A k \in 1 .. j - 1 - 1 + 1 : left[k] = s[1 + k - 1]
    BY <2>1, SliceOf
  <2> HIDE DEF left
  <2> QED
    BY <1>1, <2>2
<1>3. /\ right \in Seq(Nat) /\ Len(right) = Len(s) - j + 1
      /\ \A k \in 1 .. Len(s) - j + 1 : right[k] = s[j + k - 1]
  <2>1. Len(s) \in j - 1 .. Len(s)
    BY <1>1
  <2> QED
    BY <2>1, SliceOf
<1>4. P!InsertAt(s, j, x) = q
  BY DEF P!InsertAt
<1>5. <<x>> \in Seq(Nat) /\ Len(<<x>>) = 1 /\ <<x>>[1] = x
  OBVIOUS
<1> HIDE DEF left, right
<1>6. /\ front \in Seq(Nat) /\ Len(front) = j
      /\ \A k \in 1 .. j - 1 : front[k] = s[k]
      /\ front[j] = x
  <2>1. /\ front \in Seq(Nat) /\ Len(front) = Len(left) + Len(<<x>>)
        /\ \A k \in 1 .. Len(left) : front[k] = left[k]
        /\ \A k \in Len(left) + 1 .. Len(left) + Len(<<x>>) : front[k] = <<x>>[k - Len(left)]
    BY <1>2, <1>5, ConcatAt, ZenonT(60)
  <2>2. j \in Len(left) + 1 .. Len(left) + Len(<<x>>) /\ j - Len(left) = 1
    BY <1>1, <1>2, <1>5
  <2> HIDE DEF front
  <2>3. front[j] = x
    BY <1>5, <2>1, <2>2
  <2> QED
    BY <1>1, <1>2, <1>5, <2>1, <2>3
<1> HIDE DEF front
<1>7. /\ q \in Seq(Nat) /\ Len(q) = Len(front) + Len(right)
      /\ \A k \in 1 .. Len(front) : q[k] = front[k]
      /\ \A k \in Len(front) + 1 .. Len(front) + Len(right) : q[k] = right[k - Len(front)]
  BY <1>3, <1>6, ConcatAt, ZenonT(60)
<1> HIDE DEF q
<1>8. ASSUME NEW k \in j + 1 .. Len(s) + 1 PROVE q[k] = s[k - 1]
  <2>1. k \in Len(front) + 1 .. Len(front) + Len(right)
    BY <1>1, <1>3, <1>6
  <2>2. k - Len(front) \in 1 .. Len(s) - j + 1 /\ j + (k - Len(front)) - 1 = k - 1
    BY <1>1, <1>6
  <2> QED
    BY <1>3, <1>7, <2>1, <2>2
<1>10. q[j] = x /\ \A k \in 1 .. j - 1 : q[k] = s[k]
  BY <1>1, <1>6, <1>7
<1>9. Len(q) = Len(s) + 1
  BY <1>1, <1>3, <1>6, <1>7
<1> QED
  BY <1>4, <1>7, <1>8, <1>9, <1>10 DEF With

\* A change of a list moves at most one account over a place, either way,
\* besides a new one.
Shifted(s, q, n, new) ==
  \E x, y : /\ UpTo(q, Len(q), n) \subseteq UpTo(s, Len(s), n) \cup {x, new}
            /\ Behind(q, Len(q), n) \subseteq Behind(s, Len(s), n) \cup {y, new}

LEMMA RemoveShifts ==
  ASSUME NEW s \in Seq(Nat), Different(s), NEW i \in 1 .. Len(s), NEW n \in Nat, NEW new
  PROVE  LET q == P!RemoveAt(s, i)
         IN  q \in Seq(Nat) /\ Different(q) /\ Shifted(s, q, n, new)
<1> DEFINE q == P!RemoveAt(s, i)
           N == Len(s)
<1>1. /\ q \in Seq(Nat) /\ Len(q) = N - 1
      /\ Without(q, s, N, i)
  BY Removed
<1>2. N \in Nat /\ i \in 1 .. N /\ AllDiffer(s, N)
  BY LenProperties DEF Different
<1> HIDE DEF q, N
<1>4. /\ AllDiffer(q, N - 1)
      /\ UpTo(q, N - 1, n) \subseteq UpTo(s, N, n) \cup {s[n + 1]}
      /\ Behind(q, N - 1, n) \subseteq Behind(s, N, n)
  BY ONLY <1>1, <1>2, TakenOut, n \in Nat
<1>5. Different(q)
  BY <1>1, <1>4 DEF Different
<1>6. Shifted(s, q, n, new)
  <2>1. /\ UpTo(q, N - 1, n) \subseteq UpTo(s, N, n) \cup {s[n + 1], new}
        /\ Behind(q, N - 1, n) \subseteq Behind(s, N, n) \cup {new, new}
    BY <1>4
  <2> QED
    BY <1>1, <2>1 DEF Shifted, N
<1> QED
  BY <1>1, <1>5, <1>6 DEF q

LEMMA InsertShifts ==
  ASSUME NEW s \in Seq(Nat), Different(s), NEW j \in 1 .. Len(s) + 1, NEW n \in Nat,
         NEW new \in Nat, new \notin P!ToSet(s)
  PROVE  LET q == P!InsertAt(s, j, new)
         IN  q \in Seq(Nat) /\ Different(q) /\ Shifted(s, q, n, new)
<1> DEFINE q == P!InsertAt(s, j, new)
           N == Len(s)
<1>1. /\ q \in Seq(Nat) /\ Len(q) = N + 1
      /\ With(q, s, N, j, new)
  BY Inserted
<1>2. /\ N \in Nat /\ j \in 1 .. N + 1 /\ AllDiffer(s, N)
      /\ \A k \in 1 .. N : s[k] # new
  BY LenProperties, ToSetOf DEF Different
<1> HIDE DEF q, N
<1>4. /\ AllDiffer(q, N + 1)
      /\ UpTo(q, N + 1, n) \subseteq UpTo(s, N, n) \cup {new}
      /\ Behind(q, N + 1, n) \subseteq Behind(s, N, n) \cup {s[n], new}
  BY ONLY <1>1, <1>2, PutIn, n \in Nat
<1>5. Different(q)
  BY <1>1, <1>4 DEF Different
<1>6. Shifted(s, q, n, new)
  BY <1>1, <1>4 DEF Shifted, N
<1> QED
  BY <1>1, <1>5, <1>6 DEF q

LEMMA MoveShifts ==
  ASSUME NEW s \in Seq(Nat), Different(s), NEW i \in 1 .. Len(s), NEW j \in 1 .. Len(s),
         NEW n \in Nat, NEW new
  PROVE  LET q == P!InsertAt(P!RemoveAt(s, i), j, s[i])
         IN  q \in Seq(Nat) /\ Different(q) /\ Shifted(s, q, n, new)
<1> DEFINE t == P!RemoveAt(s, i)
           q == P!InsertAt(t, j, s[i])
           N == Len(s)
<1>1. /\ t \in Seq(Nat) /\ Len(t) = N - 1
      /\ Without(t, s, N, i)
  BY Removed
<1>2. /\ N \in Nat /\ i \in 1 .. N /\ j \in 1 .. N /\ s[i] \in Nat
      /\ AllDiffer(s, N)
  BY LenProperties, ElementOfSeq DEF Different
<1> HIDE DEF t, N
<1>3. Len(t) + 1 = N /\ j \in 1 .. Len(t) + 1
  BY <1>1, <1>2
<1>4. /\ q \in Seq(Nat) /\ Len(q) = N
      /\ With(q, t, N - 1, j, s[i])
  BY <1>1, <1>2, <1>3, Inserted
<1> HIDE DEF q
<1>6. /\ AllDiffer(q, N)
      /\ CarriesOne(q, s, N, n)
  <2> DEFINE M == N - 1
  <2>1. Without(t, s, N, i) /\ With(q, t, M, j, s[i]) /\ M = N - 1
    BY <1>1, <1>4
  <2> HIDE DEF M
  <2> QED
    BY ONLY <1>2, <2>1, MovedOver, n \in Nat
<1>7. Different(q)
  BY <1>4, <1>6 DEF Different
<1>8. Shifted(s, q, n, new)
  <2>1. PICK x : UpTo(q, N, n) \subseteq UpTo(s, N, n) \cup {x}
    BY <1>6 DEF CarriesOne
  <2>2. PICK y : Behind(q, N, n) \subseteq Behind(s, N, n) \cup {y}
    BY <1>6 DEF CarriesOne
  <2>3. /\ UpTo(q, N, n) \subseteq UpTo(s, N, n) \cup {x, new}
        /\ Behind(q, N, n) \subseteq Behind(s, N, n) \cup {y, new}
    BY <2>1, <2>2
  <2> QED
    BY <1>4, <2>3 DEF Shifted, N
<1> QED
  BY <1>4, <1>7, <1>8 DEF q, t

\* How many accounts of o, which was the list, were on the first n places of
\* the list s and are not among the collected h, and how many h has twice, or
\* may take again from the places behind them.
Missed(o, h, s, n) == Cardinality((P!ToSet(o) \ P!ToSet(h)) \cap UpTo(s, Len(s), n))
Twice(h, s, n)     == Len(h) - Cardinality(P!ToSet(h)) + Cardinality(P!ToSet(h) \cap Behind(s, Len(s), n))

LEMMA CountTypes ==
  ASSUME NEW o \in Seq(Nat), NEW h \in Seq(Nat), NEW s, NEW n
  PROVE  /\ Missed(o, h, s, n) \in Nat
         /\ Cardinality(P!ToSet(h) \cap Behind(s, Len(s), n)) \in Nat
         /\ Cardinality(P!ToSet(h)) \in Nat /\ Len(h) \in Nat /\ Twice(h, s, n) \in Nat
<1>1. IsFiniteSet(P!ToSet(o)) /\ IsFiniteSet(P!ToSet(h))
  BY ToSetOf
<1>2. IsFiniteSet((P!ToSet(o) \ P!ToSet(h)) \cap UpTo(s, Len(s), n))
  BY <1>1, FS_Subset
<1>3. IsFiniteSet(P!ToSet(h) \cap Behind(s, Len(s), n))
  BY <1>1, FS_Subset
<1>4. /\ Cardinality((P!ToSet(o) \ P!ToSet(h)) \cap UpTo(s, Len(s), n)) \in Nat
      /\ Cardinality(P!ToSet(h) \cap Behind(s, Len(s), n)) \in Nat
  BY <1>2, <1>3, FS_CardinalityType
<1>5. Cardinality(P!ToSet(h)) \in Nat /\ Cardinality(P!ToSet(h)) <= Len(h) /\ Len(h) \in Nat
  BY ToSetOf
<1> QED
  BY <1>4, <1>5 DEF Missed, Twice

\* A change makes each of them at most one larger.
LEMMA ShiftCounts ==
  ASSUME NEW o \in Seq(Nat), NEW h \in Seq(Nat), NEW s, NEW q, NEW n, NEW new,
         new \notin P!ToSet(o), new \notin P!ToSet(h), Shifted(s, q, n, new)
  PROVE  /\ Missed(o, h, q, n) <= Missed(o, h, s, n) + 1
         /\ Twice(h, q, n) <= Twice(h, s, n) + 1
<1>1. PICK x : UpTo(q, Len(q), n) \subseteq UpTo(s, Len(s), n) \cup {x, new}
  BY DEF Shifted
<1>2. PICK y : Behind(q, Len(q), n) \subseteq Behind(s, Len(s), n) \cup {y, new}
  BY DEF Shifted
<1> DEFINE A == P!ToSet(o) \ P!ToSet(h)
           H == P!ToSet(h)
<1>3. IsFiniteSet(A) /\ IsFiniteSet(H) /\ new \notin A /\ new \notin H
  BY ToSetOf, FS_Subset
<1> HIDE DEF A, H
<1>4. Cardinality(A \cap UpTo(q, Len(q), n)) <= Cardinality(A \cap UpTo(s, Len(s), n)) + 1
  BY <1>1, <1>3, OneMore
<1>5. Cardinality(H \cap Behind(q, Len(q), n)) <= Cardinality(H \cap Behind(s, Len(s), n)) + 1
  BY <1>2, <1>3, OneMore
<1>6. /\ Cardinality(H \cap Behind(q, Len(q), n)) \in Nat
      /\ Cardinality(H \cap Behind(s, Len(s), n)) \in Nat
      /\ Cardinality(H) \in Nat /\ Len(h) \in Nat
  BY CountTypes DEF H
<1>7. Twice(h, q, n) <= Twice(h, s, n) + 1
  BY <1>5, <1>6 DEF Twice, H
<1> QED
  BY <1>4, <1>7 DEF Missed, A

\* What is on a page, in terms of the list.
LEMMA PageOf ==
  ASSUME NEW s \in Seq(Nat), Different(s), NEW n \in Nat, NEW size \in Nat \ {0},
         NEW e \in Nat, e = n + size \/ e = Len(s), e <= n + size, e <= Len(s)
  PROVE  LET items == SubSeq(s, n + 1, e)
             I     == P!ToSet(items)
         IN  /\ items \in Seq(Nat) /\ Len(items) <= size
             /\ Cardinality(I) = Len(items)
             /\ n < Len(s) => Len(items) = e - n /\ \A k \in 1 .. e - n : items[k] = s[n + k]
             /\ UpTo(s, Len(s), n + size) \subseteq UpTo(s, Len(s), n) \cup I
             /\ I \subseteq Behind(s, Len(s), n)
             /\ Behind(s, Len(s), n + size) \subseteq Behind(s, Len(s), n) \ I
<1> DEFINE N == Len(s)
           items == SubSeq(s, n + 1, e)
           I == P!ToSet(items)
<1>1. N \in Nat /\ AllDiffer(s, N)
  BY LenProperties DEF Different
<1>0. e = n + size \/ e = N
  OBVIOUS
<1>2. CASE n < N
  <2>1. n + 1 \in 1 .. N + 1 /\ e \in (n + 1) - 1 .. N
    BY <1>1, <1>2
  <2>2. /\ items \in Seq(Nat) /\ Len(items) = e - (n + 1) + 1
        /\ \A k \in 1 .. e - (n + 1) + 1 : items[k] = s[(n + 1) + k - 1]
    BY <2>1, SliceOf
  <2> HIDE DEF items, N
  <2>3. e - (n + 1) + 1 = e - n /\ \A k \in 1 .. e - n : (n + 1) + k - 1 = n + k
    BY <1>1, <2>1
  <2>4. Len(items) = e - n /\ \A k \in 1 .. e - n : items[k] = s[n + k]
    BY <2>2, <2>3
  <2>5. I = {items[k] : k \in 1 .. e - n}
    BY <2>2, <2>4, ToSetOf
  <2>6. \A k \in 1 .. e - n : n + k \in 1 .. N /\ n + k > n /\ n + k <= e
    BY <1>1, <2>1
  <2>7. I \subseteq Behind(s, N, n)
    BY <2>4, <2>5, <2>6 DEF Behind
  <2>8. ASSUME NEW k \in 1 .. N, k > n, k <= n + size PROVE s[k] \in I
    <3>0. k <= e
      BY ONLY <1>1, <1>0, <2>8, n \in Nat, size \in Nat \ {0}
    <3>1. k - n \in 1 .. e - n /\ n + (k - n) = k
      BY ONLY <1>1, <2>8, <3>0, n \in Nat, e \in Nat, k \in 1 .. N
    <3> QED
      BY <2>4, <2>5, <3>1
  <2>9. UpTo(s, N, n + size) \subseteq UpTo(s, N, n) \cup I
    <3>1. \A k \in 1 .. N : k <= n \/ k > n
      BY <1>1
    <3> QED
      BY <2>8, <3>1 DEF UpTo
  <2>10. Behind(s, N, n + size) \subseteq Behind(s, N, n) \ I
    <3>1. ASSUME NEW k \in 1 .. N, k > n + size PROVE s[k] \notin I
      <4>1. \A i \in 1 .. e - n : n + i # k
        BY <1>1, <2>1, <3>1
      <4>2. \A i \in 1 .. e - n : s[n + i] # s[k]
        BY <1>1, <2>6, <4>1 DEF AllDiffer
      <4> QED
        BY <2>4, <2>5, <4>2
    <3>2. \A k \in 1 .. N : k > n + size => k > n
      BY <1>1
    <3> QED
      BY <3>1, <3>2 DEF Behind
  <2>11. AllDiffer(items, Len(items))
    <3> SUFFICES ASSUME NEW i \in 1 .. e - n, NEW k \in 1 .. e - n, items[i] = items[k]
                 PROVE  i = k
      BY <2>4 DEF AllDiffer
    <3>1. s[n + i] = s[n + k]
      BY <2>4
    <3>2. n + i = n + k
      BY <1>1, <2>6, <3>1 DEF AllDiffer
    <3> QED
      BY <2>1, <3>2
  <2>12. Cardinality(I) = Len(items)
    BY <2>2, <2>11, DifferentSize DEF Different
  <2>13. Len(items) <= size
    BY <1>1, <2>1, <2>4
  <2> QED
    BY <1>2, <2>2, <2>4, <2>7, <2>9, <2>10, <2>12, <2>13 DEF N, items
<1>3. CASE ~(n < N)
  <2>1. items = <<>> /\ items \in Seq(Nat) /\ Len(items) = 0
    <3>1. n + 1 \in Int /\ e \in Int /\ e < n + 1
      BY <1>1, <1>3
    <3>2. items = <<>>
      BY <3>1, SubSeqEmpty
    <3> HIDE DEF items
    <3> QED
      BY <3>2
  <2> HIDE DEF items, N
  <2>2. I = {}
    BY <2>1 DEF P!ToSet
  <2>3. UpTo(s, N, n + size) \subseteq UpTo(s, N, n)
    <3>1. \A k \in 1 .. N : k <= n
      BY <1>1, <1>3
    <3> QED
      BY <3>1 DEF UpTo
  <2>4. Behind(s, N, n + size) = {}
    <3>1. \A k \in 1 .. N : ~(k > n + size)
      BY <1>1, <1>3
    <3> QED
      BY <3>1 DEF Behind
  <2>5. Cardinality(I) = 0
    BY <2>2, FS_EmptySet
  <2> QED
    BY <1>3, <2>1, <2>2, <2>3, <2>4, <2>5 DEF N, items
<1> QED
  BY <1>2, <1>3

\* What a page adds, to what is missed and to what is there twice.
LEMMA PageJoined ==
  ASSUME NEW s \in Seq(Nat), Different(s), NEW n \in Nat, NEW size \in Nat \ {0},
         NEW e \in Nat, e = n + size \/ e = Len(s), e <= n + size, e <= Len(s),
         NEW o \in Seq(Nat), NEW h \in Seq(Nat), Len(h) <= n
  PROVE  LET all == h \o SubSeq(s, n + 1, e)
         IN  /\ Len(all) <= n + size
             /\ Missed(o, all, s, n + size) <= Missed(o, h, s, n)
             /\ Twice(all, s, n + size) <= Twice(h, s, n)
<1> DEFINE items == SubSeq(s, n + 1, e)
           all   == h \o items
           H == P!ToSet(h)
           I == P!ToSet(items)
           A == P!ToSet(all)
           O == P!ToSet(o)
           F == UpTo(s, Len(s), n)
           R == Behind(s, Len(s), n)
           F2 == UpTo(s, Len(s), n + size)
           R2 == Behind(s, Len(s), n + size)
<1>1. /\ items \in Seq(Nat) /\ Len(items) <= size /\ Cardinality(I) = Len(items)
      /\ F2 \subseteq F \cup I /\ I \subseteq R /\ R2 \subseteq R \ I
  BY PageOf
<1> HIDE DEF items
<1>2. all \in Seq(Nat) /\ Len(all) = Len(h) + Len(items) /\ Len(h) \in Nat /\ Len(items) \in Nat
  BY <1>1, ConcatAt, LenProperties
<1>3. A = H \cup I
  BY <1>1, ToSetOfConcat
<1>4. IsFiniteSet(H) /\ IsFiniteSet(I) /\ IsFiniteSet(O) /\ IsFiniteSet(A)
  <2> HIDE DEF all
  <2> QED
    BY <1>1, <1>2, ToSetOf
<1> HIDE DEF all, H, I, A, O, F, R, F2, R2
<1>5. Cardinality((O \ A) \cap F2) <= Cardinality((O \ H) \cap F)
  <2>1. (O \ A) \cap F2 \subseteq (O \ H) \cap F
    BY <1>1, <1>3
  <2>2. IsFiniteSet((O \ H) \cap F)
    BY <1>4, FS_Subset
  <2> QED
    BY <2>1, <2>2, FS_Subset
<1>6. Cardinality(A) = Cardinality(H) + Cardinality(I) - Cardinality(H \cap I)
  BY <1>3, <1>4, FS_Union
<1>7. Cardinality(H \cap I) + Cardinality(A \cap R2) <= Cardinality(H \cap R)
  <2>1. /\ (H \cap I) \cap (A \cap R2) = {}
        /\ (H \cap I) \cup (A \cap R2) \subseteq H \cap R
    BY <1>1, <1>3
  <2>2. IsFiniteSet(H \cap I) /\ IsFiniteSet(A \cap R2) /\ IsFiniteSet(H \cap R)
    BY <1>4, FS_Subset
  <2>3. Cardinality((H \cap I) \cup (A \cap R2)) = Cardinality(H \cap I) + Cardinality(A \cap R2)
    BY <2>1, <2>2, DisjointUnion
  <2>4. Cardinality((H \cap I) \cup (A \cap R2)) <= Cardinality(H \cap R)
    BY <2>1, <2>2, FS_Subset
  <2> QED
    BY <2>3, <2>4
<1>8. /\ Cardinality(A) \in Nat /\ Cardinality(H) \in Nat /\ Cardinality(I) \in Nat
      /\ Cardinality(H \cap I) \in Nat /\ Cardinality(H \cap R) \in Nat
      /\ Cardinality(A \cap R2) \in Nat
  BY <1>4, FS_Subset, FS_CardinalityType
<1>9. Len(all) - Cardinality(A) + Cardinality(A \cap R2)
        <= Len(h) - Cardinality(H) + Cardinality(H \cap R)
  <2> DEFINE a == Cardinality(A)
             b == Cardinality(H)
             d == Cardinality(I)
             x == Cardinality(H \cap I)
             y == Cardinality(A \cap R2)
             z == Cardinality(H \cap R)
  <2>1. /\ a \in Nat /\ b \in Nat /\ d \in Nat /\ x \in Nat /\ y \in Nat /\ z \in Nat
        /\ a = b + d - x /\ x + y <= z /\ Len(all) = Len(h) + d
        /\ Len(h) \in Nat
    BY <1>1, <1>2, <1>6, <1>7, <1>8
  <2> HIDE DEF a, b, d, x, y, z
  <2>2. Len(all) - a + y <= Len(h) - b + z
    BY ONLY <2>1
  <2> QED
    BY <2>2 DEF a, b, d, x, y, z
<1>10. Missed(o, all, s, n + size) <= Missed(o, h, s, n)
  BY <1>5 DEF Missed, O, A, H, F, F2
<1>11. Twice(all, s, n + size) <= Twice(h, s, n)
  BY <1>9 DEF Twice, A, H, R, R2
<1> QED
  BY <1>1, <1>2, <1>10, <1>11 DEF all, items

\* The beginning of a list has no more accounts twice than the list.
LEMMA PrefixTwice ==
  ASSUME NEW s \in Seq(Nat), NEW c \in 0 .. Len(s)
  PROVE  LET p == SubSeq(s, 1, c)
         IN  Len(p) - Cardinality(P!ToSet(p)) <= Len(s) - Cardinality(P!ToSet(s))
<1> DEFINE p == SubSeq(s, 1, c)
           r == SubSeq(s, c + 1, Len(s))
<1>0. Len(s) \in Nat
  BY LenProperties
<1>1. p \in Seq(Nat) /\ Len(p) = c
  <2>1. 1 \in 1 .. Len(s) + 1 /\ c \in 1 - 1 .. Len(s) /\ c - 1 + 1 = c
    BY <1>0
  <2> QED
    BY <2>1, SliceOf
<1>2. r \in Seq(Nat) /\ Len(r) = Len(s) - c
  <2>1. /\ c + 1 \in 1 .. Len(s) + 1 /\ Len(s) \in (c + 1) - 1 .. Len(s)
        /\ Len(s) - (c + 1) + 1 = Len(s) - c
    BY <1>0
  <2> QED
    BY <2>1, SliceOf
<1>3. p \o r = s
  <2>1. /\ 1 \in 1 .. Len(s) + 1 /\ c \in 1 - 1 .. Len(s) /\ Len(s) \in c .. Len(s)
    BY <1>0
  <2>2. p \o r = SubSeq(s, 1, Len(s))
    BY <2>1, ConcatAdjacentSubSeq
  <2> QED
    BY <2>2, SubSeqFull
<1> HIDE DEF p, r
<1>4. P!ToSet(s) = P!ToSet(p) \cup P!ToSet(r)
  BY <1>1, <1>2, <1>3, ToSetOfConcat
<1>5. /\ IsFiniteSet(P!ToSet(p)) /\ IsFiniteSet(P!ToSet(r))
      /\ Cardinality(P!ToSet(r)) <= Len(r)
      /\ Cardinality(P!ToSet(p)) \in Nat /\ Cardinality(P!ToSet(r)) \in Nat
      /\ Cardinality(P!ToSet(s)) \in Nat
  BY <1>1, <1>2, ToSetOf
<1>6. Cardinality(P!ToSet(s)) <= Cardinality(P!ToSet(p)) + Cardinality(P!ToSet(r))
  <2>1. Cardinality(P!ToSet(p) \cup P!ToSet(r))
          = Cardinality(P!ToSet(p)) + Cardinality(P!ToSet(r)) - Cardinality(P!ToSet(p) \cap P!ToSet(r))
    BY <1>5, FS_Union
  <2>2. Cardinality(P!ToSet(p) \cap P!ToSet(r)) \in Nat
    BY <1>5, FS_Subset, FS_CardinalityType
  <2> QED
    BY <1>4, <1>5, <2>1, <2>2
<1>7. Len(p) - Cardinality(P!ToSet(p)) <= Len(s) - Cardinality(P!ToSet(s))
  BY <1>0, <1>1, <1>2, <1>5, <1>6
<1> QED
  BY <1>7 DEF p

\* What is missed at the end: the limit is reached, or the list is at its end.
LEMMA EndMisses ==
  ASSUME NEW s \in Seq(Nat), Different(s), NEW n \in Nat, NEW size \in Nat \ {0},
         NEW e \in Nat, e = n + size \/ e = Len(s), e <= n + size, e <= Len(s),
         NEW o \in Seq(Nat), NEW h \in Seq(Nat), Len(h) <= n,
         NEW limit \in Nat, Len(h) <= limit,
         NEW all, all = h \o SubSeq(s, n + 1, e),
         NEW c \in Nat, c <= Len(all), c <= limit, c = Len(all) \/ c = limit,
         \/ c >= limit
         \/ Len(SubSeq(s, n + 1, e)) = 0
         \/ c >= Len(s)
  PROVE  Cardinality((P!ToSet(o) \cap UpTo(s, Len(s), limit)) \ P!ToSet(SubSeq(all, 1, c)))
           <= Missed(o, h, s, n)
<1> DEFINE items == SubSeq(s, n + 1, e)
           N    == Len(s)
           kept == SubSeq(all, 1, c)
<1>1. /\ items \in Seq(Nat) /\ Len(items) <= size
      /\ n < N => Len(items) = e - n /\ \A k \in 1 .. e - n : items[k] = s[n + k]
  BY PageOf
<1>2. /\ e = n + size \/ e = N
      /\ c >= limit \/ Len(items) = 0 \/ c >= N
      /\ N \in Nat /\ Len(h) \in Nat /\ e <= N
  BY LenProperties
<1>3. all = h \o items
  OBVIOUS
<1> HIDE DEF items, N
<1>4. /\ all \in Seq(Nat) /\ Len(all) = Len(h) + Len(items) /\ Len(items) \in Nat
      /\ \A k \in 1 .. Len(h) : all[k] = h[k]
      /\ \A k \in Len(h) + 1 .. Len(h) + Len(items) : all[k] = items[k - Len(h)]
  <2>1. Len(items) \in Nat
    BY <1>1, LenProperties
  <2>2. /\ h \o items \in Seq(Nat) /\ Len(h \o items) = Len(h) + Len(items)
        /\ \A k \in 1 .. Len(h) : (h \o items)[k] = h[k]
        /\ \A k \in Len(h) + 1 .. Len(h) + Len(items) : (h \o items)[k] = items[k - Len(h)]
    BY <1>1, ConcatAt
  <2> QED
    BY ONLY <1>3, <2>1, <2>2
<1>5. /\ kept \in Seq(Nat) /\ Len(kept) = c /\ \A k \in 1 .. c : kept[k] = all[k]
  <2>1. /\ 1 \in 1 .. Len(all) + 1 /\ c \in 1 - 1 .. Len(all) /\ c - 1 + 1 = c
        /\ \A k \in 1 .. c : 1 + k - 1 = k
    BY <1>2, <1>4
  <2>2. /\ kept \in Seq(Nat) /\ Len(kept) = c - 1 + 1
        /\ \A k \in 1 .. c - 1 + 1 : kept[k] = all[1 + k - 1]
    <3>1. all \in Seq(Nat)
      BY <1>4
    <3> QED
      BY ONLY <2>1, <3>1, SliceOf DEF kept
  <2> HIDE DEF kept
  <2> QED
    BY <2>1, <2>2
<1> HIDE DEF kept
<1>6. P!ToSet(kept) = {kept[k] : k \in 1 .. c} /\ P!ToSet(h) = {h[k] : k \in 1 .. Len(h)}
  BY <1>5, ToSetOf
<1>7. P!ToSet(h) \subseteq P!ToSet(kept)
  <2>1. Len(h) <= c
    BY <1>2, <1>4
  <2>2. \A k \in 1 .. Len(h) : k \in 1 .. c
    BY ONLY <1>2, <2>1, c \in Nat
  <2> QED
    BY <1>4, <1>5, <1>6, <2>2
<1>8. ASSUME NEW k \in 1 .. N, k <= limit, k > n, k <= e PROVE s[k] \in P!ToSet(kept)
  <2>1. n < N /\ k - n \in 1 .. e - n /\ n + (k - n) = k
    BY <1>2, <1>8
  <2>2. items[k - n] = s[k] /\ Len(items) = e - n
    BY <1>1, <2>1
  <2>3. /\ Len(h) + (k - n) \in Len(h) + 1 .. Len(h) + Len(items)
        /\ (Len(h) + (k - n)) - Len(h) = k - n
        /\ Len(h) + (k - n) \in 1 .. c
    <3>1. Len(h) + (k - n) <= k /\ Len(h) + (k - n) <= Len(all) /\ Len(h) + (k - n) >= 1
      BY <1>2, <1>4, <1>8, <2>1, <2>2, SMTT(30)
    <3>2. Len(h) + (k - n) <= c
      BY <1>2, <1>4, <1>8, <3>1, SMTT(30)
    <3> QED
      BY <1>2, <1>4, <1>8, <2>1, <2>2, <3>1, <3>2
  <2>4. all[Len(h) + (k - n)] = s[k]
    BY <1>4, <2>2, <2>3
  <2> QED
    BY <1>5, <1>6, <2>3, <2>4
<1>9. ASSUME NEW k \in 1 .. N, k <= limit, k > e, k > n PROVE FALSE
  <2>1. e = n + size /\ n < N
    BY <1>2, <1>9
  <2>2. Len(items) = size /\ Len(all) <= e
    BY <1>1, <1>2, <1>4, <2>1
  <2>3. c <= e /\ c < limit /\ c < N
    BY <1>2, <1>9, <2>1, <2>2
  <2> QED
    BY <1>2, <2>2, <2>3
<1>10. (P!ToSet(o) \cap UpTo(s, N, limit)) \ P!ToSet(kept)
         \subseteq (P!ToSet(o) \ P!ToSet(h)) \cap UpTo(s, N, n)
  <2> SUFFICES ASSUME NEW k \in 1 .. N, k <= limit, s[k] \in P!ToSet(o), s[k] \notin P!ToSet(kept)
               PROVE  s[k] \notin P!ToSet(h) /\ k <= n
    BY DEF UpTo
  <2>1. k > n => k <= e \/ k > e
    BY <1>2
  <2>2. k <= n \/ k > n
    BY <1>2
  <2> QED
    BY <1>7, <1>8, <1>9, <2>1, <2>2
<1>11. IsFiniteSet((P!ToSet(o) \ P!ToSet(h)) \cap UpTo(s, N, n))
  BY ToSetOf, FS_Subset
<1> QED
  BY <1>10, <1>11, FS_Subset DEF Missed, N, kept

\* The beginning of a list whose accounts are all different.
LEMMA PrefixDiffers ==
  ASSUME NEW s \in Seq(Nat), Different(s), NEW c \in 0 .. Len(s)
  PROVE  LET p == SubSeq(s, 1, c)
         IN  p \in Seq(Nat) /\ Len(p) = c /\ Len(p) <= Cardinality(P!ToSet(p))
<1> DEFINE p == SubSeq(s, 1, c)
<1>1. Len(s) \in Nat
  BY LenProperties
<1>2. /\ 1 \in 1 .. Len(s) + 1 /\ c \in 1 - 1 .. Len(s) /\ c - 1 + 1 = c
  BY <1>1
<1>3. p \in Seq(Nat) /\ Len(p) = c
  BY <1>2, SliceOf
<1>4. Len(p) - Cardinality(P!ToSet(p)) <= Len(s) - Cardinality(P!ToSet(s))
  BY PrefixTwice
<1>5. Cardinality(P!ToSet(s)) = Len(s)
  BY DifferentSize
<1> HIDE DEF p
<1>6. Cardinality(P!ToSet(p)) \in Nat
  BY <1>3, ToSetOf
<1>7. Len(p) <= Cardinality(P!ToSet(p))
  BY <1>1, <1>3, <1>4, <1>5, <1>6
<1> QED
  BY <1>3, <1>7 DEF p

\* What is wanted of a list is its beginning.
LEMMA FrontOf ==
  ASSUME NEW s \in Seq(Nat), NEW limit \in Nat
  PROVE  P!ToSet(SubSeq(s, 1, P!min(Len(s), limit))) = UpTo(s, Len(s), limit)
<1> DEFINE c == P!min(Len(s), limit)
           p == SubSeq(s, 1, c)
<1>1. Len(s) \in Nat /\ c \in Nat /\ c <= Len(s) /\ \A k \in 1 .. Len(s) : k <= limit <=> k <= c
  BY LenProperties DEF P!min
<1> HIDE DEF c
<1>2. /\ 1 \in 1 .. Len(s) + 1 /\ c \in 1 - 1 .. Len(s) /\ c - 1 + 1 = c
      /\ \A k \in 1 .. c : 1 + k - 1 = k
  BY <1>1
<1>3. /\ p \in Seq(Nat) /\ Len(p) = c /\ \A k \in 1 .. c : p[k] = s[k]
  <2>1. /\ p \in Seq(Nat) /\ Len(p) = c - 1 + 1
        /\ \A k \in 1 .. c - 1 + 1 : p[k] = s[1 + k - 1]
    BY <1>2, SliceOf
  <2> HIDE DEF p
  <2> QED
    BY <1>2, <2>1
<1> HIDE DEF p
<1>4. P!ToSet(p) = {p[k] : k \in 1 .. c}
  BY <1>3, ToSetOf
<1>5. \A k \in 1 .. c : k \in 1 .. Len(s) /\ k <= limit
  BY <1>1
<1>6. \A k \in 1 .. Len(s) : k <= limit => k \in 1 .. c
  BY <1>1
<1> QED
  BY <1>3, <1>4, <1>5, <1>6 DEF UpTo, c, p

\* EachChangeCostsOne, with the lists it is about.
CostsOne(o, s, h, limit, n) ==
  /\ Cardinality((P!ToSet(o) \cap UpTo(s, Len(s), limit)) \ P!ToSet(h)) <= n
  /\ Len(h) - Cardinality(P!ToSet(h)) <= n

LEMMA Costs ==
  ASSUME NEW o \in Seq(Nat), NEW s \in Seq(Nat), NEW h, NEW limit \in Nat, NEW n \in Nat,
         CostsOne(o, s, h, limit, n)
  PROVE  LET first(list) == P!ToSet(SubSeq(list, 1, P!min(Len(list), limit)))
         IN  /\ Cardinality((first(o) \cap first(s)) \ P!ToSet(h)) <= n
             /\ Len(h) - Cardinality(P!ToSet(h)) <= n
<1> DEFINE first(list) == P!ToSet(SubSeq(list, 1, P!min(Len(list), limit)))
           S == (P!ToSet(o) \cap UpTo(s, Len(s), limit)) \ P!ToSet(h)
           T == (first(o) \cap first(s)) \ P!ToSet(h)
<1>1. first(s) = UpTo(s, Len(s), limit) /\ first(o) = UpTo(o, Len(o), limit)
  BY FrontOf
<1>2. first(o) \subseteq P!ToSet(o)
  BY <1>1, ToSetOf DEF UpTo
<1>3. T \subseteq S
  BY <1>1, <1>2
<1>4. IsFiniteSet(S)
  BY ToSetOf, FS_Subset
<1>5. Cardinality(S) <= n
  BY DEF CostsOne
<1> HIDE DEF S, T
<1>6. Cardinality(T) <= Cardinality(S) /\ Cardinality(T) \in Nat /\ Cardinality(S) \in Nat
  BY <1>3, <1>4, FS_Subset, FS_CardinalityType
<1>7. Cardinality(T) <= n
  BY <1>5, <1>6
<1> QED
  BY <1>7 DEF T, CostsOne

LEMMA SameSizes == \A S : P!Cardinality(S) = Cardinality(S)
BY DEF P!Cardinality, Cardinality

USE ListsAssumption, DiscoveryAssumption, HolderDiscoveryAssumption

-----------------------------------------------------------------------------
(* The requests.                                                           *)

LEMMA MinBound ==
  ASSUME NEW m \in Nat, NEW n \in Nat
  PROVE  P!min(m, n) <= n /\ P!min(m, n) <= m /\ P!min(m, n) \in {m, n}
BY DEF P!min

LEMMA Limits ==
  /\ \A c \in {SolscanClient, HttpRpcClient} :
       /\ c.attempts \in Nat \ {0} /\ c.initial_delay \in Nat \ {0}
       /\ c.max_delay \in Nat \ {0} /\ c.initial_delay <= c.max_delay
  /\ RetryAfters \subseteq Nat
BY DEF P!HolderPagesAssumption, P!RequestsAssumption, P!Clients

\* RetriesAreBounded, with the types its arithmetic needs.
RequestInv ==
  /\ client \in {SolscanClient, HttpRpcClient}
  /\ attempt \in Nat \ {0} /\ attempt <= client.attempts
  /\ retry_delay \in Nat \ {0} /\ retry_delay <= client.max_delay
  /\ slept \in Nat /\ asked \in Nat
  /\ attempt - 1 <= slept /\ slept <= (attempt - 1) * client.max_delay
  /\ attempt > 1 => slept >= P!min(asked, client.max_delay)

LEMMA StartRequestInv ==
  ASSUME NEW c \in {SolscanClient, HttpRpcClient}, P!StartRequest(c)
  PROVE  RequestInv'
<1>1. /\ attempt' = 1 /\ slept' = 0 /\ asked' = 0 /\ client' = c
      /\ retry_delay' = c.initial_delay
  BY DEF P!StartRequest
<1>2. (1 - 1) * c.max_delay = 0
  BY Limits
<1> QED
  BY <1>1, <1>2, Limits DEF RequestInv

\* What a retry sleeps: a second or more, no more than the client allows, and
\* as long as the server asks, up to that.
LEMMA DelayBounds ==
  ASSUME RequestInv, NEW retry_after \in RetryAfters
  PROVE  /\ P!Delay(retry_after) \in Nat /\ 1 <= P!Delay(retry_after)
         /\ P!Delay(retry_after) <= client.max_delay
         /\ P!Delay(retry_after) >= P!min(retry_after, client.max_delay)
<1> DEFINE delay == IF retry_after = 0 THEN retry_delay ELSE retry_after
<1>1. client.max_delay \in Nat \ {0} /\ delay \in Nat \ {0} /\ retry_after \in Nat
  BY Limits DEF RequestInv
<1>2. P!Delay(retry_after) = P!min(delay, client.max_delay)
  BY DEF P!Delay
<1>3. retry_after <= delay
  BY <1>1
<1> QED
  BY <1>1, <1>2, <1>3 DEF P!min

LEMMA RetryInv ==
  ASSUME RequestInv, NEW retry_after \in RetryAfters, P!Retry(retry_after)
  PROVE  RequestInv'
<1> DEFINE d == P!Delay(retry_after)
           m == client.max_delay
<1>1. /\ m \in Nat \ {0} /\ client.attempts \in Nat \ {0} /\ retry_after \in Nat
      /\ client' = client
  BY Limits DEF RequestInv, P!Retry
<1>2. /\ d \in Nat /\ 1 <= d /\ d <= m /\ d >= P!min(retry_after, m)
  BY DelayBounds
<1>3. /\ attempt < client.attempts /\ attempt' = attempt + 1
      /\ slept' = slept + d /\ asked' = retry_after
      /\ retry_delay' = P!min(retry_delay * 2, m)
  BY DEF P!Retry, P!MayRetry
<1> HIDE DEF d, m
<1>4. retry_delay' \in Nat \ {0} /\ retry_delay' <= m
  BY <1>1, <1>3 DEF RequestInv, P!min
<1>5. slept' <= (attempt' - 1) * m
  <2>1. /\ attempt - 1 \in Nat /\ slept \in Nat /\ slept <= (attempt - 1) * m
        /\ attempt' - 1 = (attempt - 1) + 1
    BY <1>3 DEF RequestInv, m
  <2>2. \A k \in Nat : (k + 1) * m = k * m + m
    BY <1>1
  <2>3. (attempt' - 1) * m = (attempt - 1) * m + m
    BY <2>1, <2>2
  <2>4. (attempt - 1) * m \in Nat
    BY <1>1, <2>1
  <2> QED
    BY <1>1, <1>2, <1>3, <2>1, <2>3, <2>4
<1>6. attempt' \in Nat \ {0} /\ slept' \in Nat /\ attempt' - 1 <= slept' /\ asked' \in Nat
  BY <1>1, <1>2, <1>3 DEF RequestInv
<1>7. slept' >= P!min(asked', m)
  BY <1>1, <1>2, <1>3 DEF RequestInv, P!min
<1> QED
  BY <1>1, <1>3, <1>4, <1>5, <1>6, <1>7 DEF RequestInv, m, P!min

\* The steps of the discovery, by what they do to the list that is read.
LEMMA ListStep ==
  ASSUME [Next]_vars
  PROVE  \/ UNCHANGED listVars
         \/ \E list \in P!Lists : P!StartReading(client, list)
         \/ P!StartReading(HttpRpcClient, <<>>)
         \/ phase = "fetch" /\ P!ReadStep
         \/ phase = "fetch" /\ P!Change
<1>1. CASE ValidateDistribution \/ Preload \/ ListFails \/ BeginScan \/ ScanStep \/ Acquire
  BY <1>1 DEF ValidateDistribution, Preload, ListFails, BeginScan, ScanStep, Acquire
<1>2. CASE ValidateTargets
  BY <1>2 DEF ValidateTargets, StartNextList
<1>3. CASE NextList
  BY <1>3 DEF NextList, StartNextList
<1>4. CASE ReadList \/ ListChanges
  BY <1>4 DEF ReadList, ListChanges
<1>5. CASE UNCHANGED vars
  BY <1>5 DEF vars
<1> QED
  BY <1>1, <1>2, <1>3, <1>4, <1>5 DEF Next, Step

LEMMA RequestStep == ASSUME RequestInv, [Next]_vars PROVE RequestInv'
<1> USE DEF P!requestVars
<1>1. CASE UNCHANGED listVars
  BY <1>1 DEF listVars, RequestInv, P!min
<1>2. CASE \E list \in P!Lists : P!StartReading(client, list)
  BY <1>2, StartRequestInv DEF P!StartReading, RequestInv
<1>3. CASE P!StartReading(HttpRpcClient, <<>>)
  BY <1>3, StartRequestInv DEF P!StartReading
<1>4. CASE P!ReadStep
  <2>1. CASE \E retry_after \in RetryAfters : P!RetryPage(retry_after)
    BY <2>1, RetryInv DEF P!RetryPage
  <2>2. CASE P!RequestFails \/ P!ReadLargest
    BY <2>2 DEF P!RequestFails, P!ReadLargest, RequestInv, P!min
  <2>3. CASE \E total \in {{}, {Len(ranking)}} : P!ReadPage(total)
    <3>1. UNCHANGED <<client, attempt, retry_delay, slept, asked>> \/ P!StartRequest(client)
      BY <2>3 DEF P!ReadPage
    <3> QED
      BY <3>1, StartRequestInv DEF RequestInv, P!min
  <2> QED
    BY <1>4, <2>1, <2>2, <2>3 DEF P!ReadStep
<1>5. CASE P!Change
  BY <1>5 DEF P!Change, RequestInv, P!min
<1> QED
  BY <1>1, <1>2, <1>3, <1>4, <1>5, ListStep

LEMMA RequestInit == Init => RequestInv
<1> SUFFICES ASSUME Init PROVE RequestInv
  OBVIOUS
<1>1. /\ client \in {SolscanClient, HttpRpcClient} /\ attempt = 1
      /\ retry_delay = client.initial_delay /\ slept = 0 /\ asked = 0
  BY DEF Init
<1>2. (1 - 1) * client.max_delay = 0
  BY <1>1, Limits
<1> QED
  BY <1>1, <1>2, Limits DEF RequestInv

\* No request of either client (solscan.rs:106, rpc.rs:95) is repeated more
\* often or sleeps longer than its limits allow, the loop over the attempts
\* never ends without an answer, and every retry waits for a second or more,
\* and for what the server asked.
THEOREM RetriesBounded == Spec => []RetriesAreBounded
<1>1. RequestInv => RetriesAreBounded
  BY DEF RequestInv, RetriesAreBounded, P!RetriesAreBounded
<1> QED
  BY <1>1, RequestInit, RequestStep, PTL DEF Spec
-----------------------------------------------------------------------------
(* The pages of a list.                                                    *)

LEMMA ListLimits ==
  /\ PageSize \in Nat \ {0} /\ FetchLimit \in Nat \ {0} /\ LargestAccounts \in Nat
BY DEF P!HolderPagesAssumption

\* How many accounts are on the pages before the one that is asked for.
Before == (page - 1) * PageSize

\* An unchanged list is read up to the page that is asked for.
StillInv ==
  changes = 0 =>
    /\ reading = "request" /\ P!FromSolscan =>
         /\ holders = SubSeq(ranking, 1, P!min(Before, Len(ranking)))
         /\ P!min(Before, Len(ranking)) < FetchLimit
    /\ reading = "done" => holders = SubSeq(ranking, 1, P!min(Len(ranking), P!Wanted))

\* Both lists are sequences of the same accounts, whatever those are.
ListTypeOK ==
  /\ \E S : ranking \in Seq(S) /\ holders \in Seq(S)
  /\ page \in Nat \ {0} /\ changes \in Nat

ListInv ==
  /\ ListTypeOK
  /\ page <= Len(holders) + 1
  /\ P!FromSolscan => Len(holders) <= FetchLimit
  /\ ~P!FromSolscan => page = 1
  /\ StillInv

\* A beginning of a list, and what a page adds to it.
LEMMA PrefixLength ==
  ASSUME NEW S, NEW s \in Seq(S), NEW n \in 0 .. Len(s)
  PROVE  SubSeq(s, 1, n) \in Seq(S) /\ Len(SubSeq(s, 1, n)) = n
<1>1. \A i \in 1 .. n : s[i] \in S
  BY ElementOfSeq, LenProperties
<1> QED
  BY <1>1, LenProperties, SubSeqProperties

LEMMA PrefixOfPrefix ==
  ASSUME NEW S, NEW s \in Seq(S), NEW n \in 0 .. Len(s), NEW m \in 0 .. n
  PROVE  SubSeq(SubSeq(s, 1, n), 1, m) = SubSeq(s, 1, m)
<1>1. /\ SubSeq(s, 1, n) \in Seq(S) /\ Len(SubSeq(s, 1, n)) = n
      /\ \A i \in 1 .. n : s[i] \in S
  BY PrefixLength, ElementOfSeq, LenProperties
<1>2. \A i \in 1 .. n : SubSeq(s, 1, n)[i] = s[i]
  BY <1>1, LenProperties, SubSeqProperties
<1>3. \A i \in 1 .. m : SubSeq(s, 1, m)[i] = s[i]
  BY <1>1, LenProperties, SubSeqProperties
<1>4. m \in 0 .. Len(s) /\ m \in 0 .. Len(SubSeq(s, 1, n))
  BY <1>1, LenProperties
<1>5. /\ SubSeq(SubSeq(s, 1, n), 1, m) \in Seq(S) /\ Len(SubSeq(SubSeq(s, 1, n), 1, m)) = m
      /\ SubSeq(s, 1, m) \in Seq(S) /\ Len(SubSeq(s, 1, m)) = m
  BY <1>1, <1>4, PrefixLength
<1>6. \A i \in 1 .. m : SubSeq(SubSeq(s, 1, n), 1, m)[i] = SubSeq(s, 1, n)[i]
  BY <1>1, LenProperties, SubSeqProperties
<1>7. \A i \in 1 .. m : SubSeq(SubSeq(s, 1, n), 1, m)[i] = SubSeq(s, 1, m)[i]
  BY <1>2, <1>3, <1>6, LenProperties
<1> QED
  BY <1>5, <1>7, SeqEqual

LEMMA NextBefore ==
  ASSUME NEW p \in Nat \ {0}
  PROVE  /\ (p - 1) * PageSize \in Nat
         /\ p * PageSize = (p - 1) * PageSize + PageSize
<1>1. p - 1 \in Nat /\ p = (p - 1) + 1 /\ PageSize \in Nat
  BY ListLimits
<1>2. \A k \in Nat : k * PageSize \in Nat /\ (k + 1) * PageSize = k * PageSize + PageSize
  BY <1>1
<1> QED
  BY <1>1, <1>2

\* What a page holds.
LEMMA ItemsOfPage ==
  ASSUME NEW S, ranking \in Seq(S), page \in Nat \ {0}
  PROVE  /\ P!Items \in Seq(S) /\ Before \in Nat
         /\ P!Items = SubSeq(ranking, Before + 1, P!min(Before + PageSize, Len(ranking)))
         /\ Len(P!Items) = IF Before < Len(ranking)
                             THEN P!min(Before + PageSize, Len(ranking)) - Before ELSE 0
<1>1. Before \in Nat /\ page * PageSize = Before + PageSize /\ Len(ranking) \in Nat
  BY NextBefore, LenProperties DEF Before
<1>2. P!Items = SubSeq(ranking, Before + 1, P!min(Before + PageSize, Len(ranking)))
  BY <1>1 DEF P!Items, Before
<1>3. /\ P!min(Before + PageSize, Len(ranking)) \in Nat
      /\ P!min(Before + PageSize, Len(ranking)) <= Len(ranking)
      /\ P!min(Before + PageSize, Len(ranking)) \in {Before + PageSize, Len(ranking)}
  BY <1>1, ListLimits DEF P!min
<1>4. \A i \in Before + 1 .. P!min(Before + PageSize, Len(ranking)) : ranking[i] \in S
  BY <1>1, <1>3, ElementOfSeq
<1>5. /\ P!Items \in Seq(S)
      /\ Len(P!Items) = IF Before + 1 <= P!min(Before + PageSize, Len(ranking))
           THEN P!min(Before + PageSize, Len(ranking)) - (Before + 1) + 1 ELSE 0
  BY <1>1, <1>2, <1>3, <1>4, SubSeqProperties
<1>6. Before + 1 <= P!min(Before + PageSize, Len(ranking)) <=> Before < Len(ranking)
  BY <1>1, <1>3, ListLimits
<1> QED
  BY <1>1, <1>2, <1>3, <1>5, <1>6

LEMMA StartListInv ==
  ASSUME NEW c, NEW S, NEW list \in Seq(S), P!StartReading(c, list)
  PROVE  ListInv'
<1>1. /\ ranking' = list /\ changes' = 0 /\ page' = 1 /\ holders' = <<>>
      /\ reading' = "request"
  BY DEF P!StartReading
<1>2. <<>> \in Seq(S) /\ Len(<<>>) = 0 /\ Len(list) \in Nat
  BY LenProperties
<1>3. Before' = 0
  BY <1>1, ListLimits DEF Before
<1>4. P!min(0, Len(list)) = 0 /\ SubSeq(list, 1, 0) = <<>>
  BY <1>2, SubSeqEmpty DEF P!min
<1>5. ListTypeOK'
  BY <1>1, <1>2 DEF ListTypeOK
<1>6. StillInv'
  BY <1>1, <1>3, <1>4, ListLimits DEF StillInv
<1> QED
  BY <1>1, <1>2, <1>5, <1>6, ListLimits DEF ListInv

LEMMA ReadLargestInv == ASSUME ListInv, P!ReadLargest PROVE ListInv'
<1>1. PICK S : ranking \in Seq(S) /\ holders \in Seq(S)
  BY DEF ListInv, ListTypeOK
<1> DEFINE n == P!min(Len(ranking), LargestAccounts)
<1>2. /\ ~P!FromSolscan /\ holders' = SubSeq(ranking, 1, n) /\ reading' = "done"
      /\ UNCHANGED <<ranking, changes, page, client>>
  BY DEF P!ReadLargest, P!requestVars
<1>3. n \in 0 .. Len(ranking)
  BY <1>1, LenProperties, ListLimits DEF P!min
<1> HIDE DEF n
<1>4. holders' \in Seq(S) /\ Len(holders') = n
  BY <1>1, <1>2, <1>3, PrefixLength
<1>5. ~P!FromSolscan' /\ page' = 1 /\ n = P!min(Len(ranking), P!Wanted)'
  BY <1>2 DEF ListInv, P!FromSolscan, P!Wanted, n
<1>6. StillInv'
  BY <1>2, <1>5 DEF StillInv
<1>7. ListTypeOK'
  BY <1>1, <1>2, <1>4 DEF ListInv, ListTypeOK
<1> QED
  BY <1>3, <1>4, <1>5, <1>6, <1>7, LenProperties DEF ListInv

\* A page of an unchanged list continues what was read before it.
LEMMA PageContinues ==
  ASSUME NEW S, ranking \in Seq(S), page \in Nat \ {0},
         holders = SubSeq(ranking, 1, P!min(Before, Len(ranking)))
  PROVE  holders \o P!Items = SubSeq(ranking, 1, P!min(Before + PageSize, Len(ranking)))
<1> DEFINE n == Len(ranking)
           e == P!min(Before + PageSize, n)
<1>1. /\ Before \in Nat /\ P!Items = SubSeq(ranking, Before + 1, e) /\ n \in Nat
      /\ PageSize \in Nat \ {0}
  BY ItemsOfPage, LenProperties, ListLimits
<1>2. CASE Before <= n
  <2>1. P!min(Before, n) = Before /\ e \in Before .. n
    BY <1>1, <1>2 DEF P!min
  <2>2. SubSeq(ranking, 1, Before) \o SubSeq(ranking, Before + 1, e) = SubSeq(ranking, 1, e)
    <3>1. 1 \in 1 .. Len(ranking) + 1 /\ Before \in 1 - 1 .. Len(ranking) /\ e \in Before .. Len(ranking)
      BY <1>1, <1>2, <2>1
    <3> HIDE DEF e
    <3> QED
      BY <3>1, ConcatAdjacentSubSeq
  <2> QED
    BY <1>1, <2>1, <2>2
<1>3. CASE Before > n
  <2>1. P!min(Before, n) = n /\ e = n
    BY <1>1, <1>3 DEF P!min
  <2>2. P!Items = <<>>
    BY <1>1, <1>3, <2>1, SubSeqEmpty
  <2>3. SubSeq(ranking, 1, n) = ranking /\ ranking \o <<>> = ranking
    BY SubSeqFull, ConcatEmptySeq
  <2> QED
    BY <2>1, <2>2, <2>3
<1>4. Before <= n \/ Before > n
  BY <1>1
<1> QED
  BY <1>2, <1>3, <1>4

LEMMA ConcatLength ==
  ASSUME NEW S, NEW s \in Seq(S), NEW t \in Seq(S)
  PROVE  s \o t \in Seq(S) /\ Len(s \o t) = Len(s) + Len(t)
BY ConcatProperties

LEMMA ReadPageInv ==
  ASSUME ListInv, NEW total \in {{}, {Len(ranking)}}, P!ReadPage(total)
  PROVE  ListInv'
<1> DEFINE n == Len(ranking)
           e == P!min(Before + PageSize, n)
           all == holders \o P!Items
           c == P!min(Len(all), FetchLimit)
           ends == \/ c >= FetchLimit
                   \/ P!should_stop_pagination(Len(P!Items), c, total)
<1>1. PICK S : ranking \in Seq(S) /\ holders \in Seq(S)
  BY DEF ListInv, ListTypeOK
<1>2. /\ page \in Nat \ {0} /\ changes \in Nat /\ n \in Nat /\ Len(holders) \in Nat
      /\ page <= Len(holders) + 1 /\ Len(holders) <= FetchLimit
      /\ reading = "request" /\ P!FromSolscan
      /\ FetchLimit \in Nat \ {0} /\ PageSize \in Nat \ {0}
  BY <1>1, ListLimits, LenProperties DEF ListInv, ListTypeOK, P!ReadPage
<1>3. /\ P!Items \in Seq(S) /\ Before \in Nat
      /\ Len(P!Items) = IF Before < n THEN e - Before ELSE 0
  BY <1>1, <1>2, ItemsOfPage
<1>4. all \in Seq(S) /\ Len(all) = Len(holders) + Len(P!Items) /\ Len(P!Items) \in Nat
  <2>1. P!Items \in Seq(S) /\ holders \in Seq(S)
    BY <1>1, <1>3
  <2>2. Len(P!Items) \in Nat
    BY <2>1, LenProperties
  <2> QED
    BY ONLY <2>1, <2>2, ConcatLength DEF all
<1>5. c \in 0 .. Len(all) /\ c <= FetchLimit /\ c \in {Len(all), FetchLimit}
  BY <1>2, <1>4 DEF P!min
<1>6. SubSeq(all, 1, c) \in Seq(S) /\ Len(SubSeq(all, 1, c)) = c
  <2> HIDE DEF all, c
  <2> QED
    BY <1>4, <1>5, PrefixLength
<1>7. /\ holders' = SubSeq(all, 1, c) /\ UNCHANGED <<ranking, changes>>
      /\ client' = client
      /\ ends => reading' = "done" /\ page' = page
      /\ ~ends => reading' = "request" /\ page' = page + 1
  BY <1>6 DEF P!ReadPage, P!requestVars, P!StartRequest
<1> HIDE DEF all, c
<1>8. ListTypeOK'
  <2>1. page' \in Nat \ {0}
    BY <1>2, <1>7
  <2> QED
    BY <1>1, <1>2, <1>6, <1>7, <2>1 DEF ListTypeOK
<1>9. page' <= Len(holders') + 1
  <2>1. Len(holders') = c /\ Len(holders) <= c /\ c \in Nat
    BY <1>2, <1>4, <1>5, <1>6, <1>7
  <2>2. CASE ends
    <3>1. page' = page
      BY <1>7, <2>2
    <3> QED
      BY <1>2, <2>1, <3>1
  <2>3. CASE ~ends
    <3>1. page' = page + 1 /\ Len(P!Items) # 0 /\ c # FetchLimit
      BY <1>2, <1>7, <2>1, <2>3 DEF P!should_stop_pagination
    <3>2. c = Len(holders) + Len(P!Items) /\ Len(P!Items) \in Nat
      BY <1>4, <1>5, <3>1
    <3> HIDE DEF ends
    <3> QED
      BY <1>2, <2>1, <3>1, <3>2
  <2> QED
    BY <2>2, <2>3
<1>10. StillInv'
  <2> SUFFICES ASSUME changes = 0
               PROVE  /\ reading' = "request" =>
                           /\ holders' = SubSeq(ranking, 1, P!min(Before', n))
                           /\ P!min(Before', n) < FetchLimit
                      /\ reading' = "done" =>
                           holders' = SubSeq(ranking, 1, P!min(n, P!Wanted'))
    BY <1>7 DEF StillInv
  <2>1. holders = SubSeq(ranking, 1, P!min(Before, n))
    BY <1>2 DEF ListInv, StillInv
  <2>2. all = SubSeq(ranking, 1, e)
    BY <1>1, <1>2, <2>1, PageContinues DEF all
  <2>3. e \in 0 .. n /\ e \in {Before + PageSize, n}
    BY <1>2, <1>3 DEF P!min
  <2>4. Len(all) = e /\ c \in 0 .. e
    <3> HIDE DEF e
    <3> QED
      BY <1>1, <1>5, <2>2, <2>3, PrefixLength
  <2>5. holders' = SubSeq(ranking, 1, c)
    <3> HIDE DEF e
    <3> QED
      BY <1>1, <1>7, <2>2, <2>3, <2>4, PrefixOfPrefix
  <2>6. P!Wanted' = FetchLimit /\ P!FromSolscan'
    BY <1>2, <1>7 DEF P!Wanted, P!FromSolscan
  <2>7. CASE ends
    <3>1. c >= FetchLimit \/ Len(P!Items) = 0 \/ c >= n
      BY <2>7 DEF P!should_stop_pagination
    <3>2. Len(P!Items) = 0 => e = n
      <4> HIDE DEF e
      <4>1. CASE Before < n
        <5>1. Len(P!Items) = e - Before
          BY <1>3, <4>1
        <5>2. e \in {Before + PageSize, n} /\ e \in 0 .. n
          BY <2>3
        <5> QED
          BY <1>2, <1>3, <5>1, <5>2
      <4>2. CASE n <= Before
        <5>1. e = n
          BY ONLY <1>2, <1>3, <4>2, n \in Nat DEF e, P!min
        <5> QED
          BY <5>1
      <4>3. Before < n \/ n <= Before
        <5>1. n \in Nat /\ Before \in Nat
          BY <1>2, <1>3
        <5> HIDE DEF n
        <5> QED
          BY ONLY <5>1
      <4> QED
        BY <4>1, <4>2, <4>3
    <3>3. c = P!min(n, FetchLimit)
      BY <1>2, <1>5, <2>3, <2>4, <3>1, <3>2 DEF P!min
    <3> QED
      BY <1>7, <2>5, <2>6, <2>7, <3>3
  <2>8. CASE ~ends
    <3>1. Before' = Before + PageSize
      BY <1>2, <1>7, <2>8, NextBefore DEF Before
    <3>2. c < FetchLimit /\ c = e
      BY <1>2, <1>5, <2>4, <2>8
    <3> QED
      BY <1>7, <2>5, <2>8, <3>1, <3>2
  <2> QED
    BY <2>7, <2>8
<1>11. Len(holders') <= FetchLimit /\ P!FromSolscan'
  BY <1>2, <1>5, <1>6, <1>7 DEF P!FromSolscan
<1> QED
  BY <1>8, <1>9, <1>10, <1>11 DEF ListInv

\* A change leaves both lists sequences, and is counted.
LEMMA ChangeInv == ASSUME ListInv, P!Change PROVE ListInv'
<1>1. PICK S : ranking \in Seq(S) /\ holders \in Seq(S)
  BY DEF ListInv, ListTypeOK
<1> DEFINE T == S \cup {P!Fresh}
<1>2. ranking \in Seq(T) /\ holders \in Seq(T) /\ Len(ranking) \in Nat
  BY <1>1, SeqMonotonic, LenProperties
<1>3. DOMAIN ranking = 1 .. Len(ranking) /\ \A i \in 1 .. Len(ranking) : ranking[i] \in T
  BY <1>2, LenProperties, ElementOfSeq
<1> HIDE DEF T
<1>4. \A i, j \in Int : 1 <= i /\ j <= Len(ranking) => SubSeq(ranking, i, j) \in Seq(T)
  BY <1>2, <1>3, SubSeqProperties
<1>5. ASSUME NEW i \in 1 .. Len(ranking)
      PROVE  /\ P!RemoveAt(ranking, i) \in Seq(T)
             /\ Len(P!RemoveAt(ranking, i)) = Len(ranking) - 1
  <2> DEFINE left  == SubSeq(ranking, 1, i - 1)
             right == SubSeq(ranking, i + 1, Len(ranking))
  <2>1. left \in Seq(T) /\ Len(left) = i - 1
    <3>1. i - 1 \in 0 .. Len(ranking)
      BY <1>2
    <3> QED
      BY <1>2, <3>1, PrefixLength
  <2>2. right \in Seq(T) /\ Len(right) = Len(ranking) - i
    <3>1. i + 1 \in Int /\ Len(ranking) \in Int /\ \A k \in i + 1 .. Len(ranking) : ranking[k] \in T
      BY <1>2, <1>3
    <3>2. /\ right \in Seq(T)
          /\ Len(right) = IF i + 1 <= Len(ranking) THEN Len(ranking) - (i + 1) + 1 ELSE 0
      BY <3>1, SubSeqProperties
    <3> HIDE DEF right
    <3> QED
      BY <1>2, <3>2
  <2>3. P!RemoveAt(ranking, i) = left \o right
    BY DEF P!RemoveAt
  <2> HIDE DEF left, right
  <2>4. left \o right \in Seq(T) /\ Len(left \o right) = Len(left) + Len(right)
    BY <2>1, <2>2, ConcatLength
  <2>5. (i - 1) + (Len(ranking) - i) = Len(ranking) - 1
    BY <1>2
  <2> QED
    BY <2>1, <2>2, <2>3, <2>4, <2>5
<1>6. ASSUME NEW s \in Seq(T), NEW i \in 1 .. Len(s) + 1, NEW x \in T
      PROVE  P!InsertAt(s, i, x) \in Seq(T)
  <2>1. Len(s) \in Nat /\ \A j \in 1 .. Len(s) : s[j] \in T
    BY LenProperties, ElementOfSeq
  <2>2. SubSeq(s, 1, i - 1) \in Seq(T) /\ SubSeq(s, i, Len(s)) \in Seq(T)
    BY <2>1, SubSeqProperties
  <2>3. <<x>> \in Seq(T)
    OBVIOUS
  <2>4. SubSeq(s, 1, i - 1) \o <<x>> \in Seq(T)
    BY <2>2, <2>3, ConcatProperties
  <2> QED
    BY <2>2, <2>4, ConcatProperties DEF P!InsertAt
<1>7. ranking' \in Seq(T)
  <2>1. CASE \E i \in DOMAIN ranking : ranking' = P!RemoveAt(ranking, i)
    BY <1>3, <1>5, <2>1
  <2>2. CASE \E i \in 1 .. Len(ranking) + 1 : ranking' = P!InsertAt(ranking, i, P!Fresh)
    <3>1. P!Fresh \in T
      BY DEF T
    <3> QED
      BY <1>2, <1>6, <2>2, <3>1
  <2>3. CASE \E i, j \in DOMAIN ranking :
               ranking' = P!InsertAt(P!RemoveAt(ranking, i), j, ranking[i])
    <3>1. PICK i \in 1 .. Len(ranking), j \in 1 .. Len(ranking) :
            ranking' = P!InsertAt(P!RemoveAt(ranking, i), j, ranking[i])
      BY <1>3, <2>3
    <3>2. j \in 1 .. Len(P!RemoveAt(ranking, i)) + 1 /\ P!RemoveAt(ranking, i) \in Seq(T)
      BY <1>2, <1>5
    <3> QED
      BY <1>3, <1>6, <3>1, <3>2
  <2> QED
    BY <2>1, <2>2, <2>3, SMTT(30) DEF P!Change
<1>8. /\ changes \in Nat /\ changes' = changes + 1
      /\ UNCHANGED <<page, holders, reading, client>>
  BY DEF P!Change, P!requestVars, ListInv, ListTypeOK
<1>9. ListTypeOK'
  BY <1>2, <1>7, <1>8 DEF ListInv, ListTypeOK
<1> QED
  BY <1>8, <1>9 DEF ListInv, StillInv, P!FromSolscan

LEMMA ListInvStep == ASSUME ListInv, RequestInv, [Next]_vars PROVE ListInv'
<1>1. CASE UNCHANGED listVars
  BY <1>1 DEF listVars, ListInv, ListTypeOK, StillInv, P!FromSolscan, P!Wanted, Before, P!min
<1>2. CASE \E list \in P!Lists : P!StartReading(client, list)
  <2>1. PICK list \in P!Lists : P!StartReading(client, list)
    BY <1>2
  <2>2. PICK n \in Nat : list = [i \in 1 .. n |-> i]
    BY <2>1 DEF P!Lists, P!HolderPagesAssumption
  <2>3. list \in Seq(Nat)
    BY <2>2
  <2> QED
    BY <2>1, <2>3, StartListInv
<1>3. CASE P!StartReading(HttpRpcClient, <<>>)
  <2>1. <<>> \in Seq(Nat)
    OBVIOUS
  <2> QED
    BY <1>3, <2>1, StartListInv
<1>4. CASE P!ReadStep
  <2>1. CASE \E retry_after \in RetryAfters : P!RetryPage(retry_after)
    <3>1. UNCHANGED <<ranking, original, changes, page, holders, reading, client>>
      BY <2>1 DEF P!RetryPage, P!Retry, P!pageVars
    <3> QED
      BY <3>1 DEF ListInv, ListTypeOK, StillInv, P!FromSolscan, P!Wanted, Before, P!min
  <2>2. CASE P!RequestFails
    <3>1. UNCHANGED <<ranking, changes, page, holders, client>> /\ reading' = "error"
      BY <2>2 DEF P!RequestFails, P!requestVars
    <3> QED
      BY <3>1 DEF ListInv, ListTypeOK, StillInv, P!FromSolscan
  <2>3. CASE P!ReadLargest
    BY <2>3, ReadLargestInv
  <2>4. CASE \E total \in {{}, {Len(ranking)}} : P!ReadPage(total)
    BY <2>4, ReadPageInv
  <2> QED
    BY <1>4, <2>1, <2>2, <2>3, <2>4 DEF P!ReadStep
<1>5. CASE P!Change
  BY <1>5, ChangeInv
<1> QED
  BY <1>1, <1>2, <1>3, <1>4, <1>5, ListStep

LEMMA ListInit == Init => ListInv
<1> SUFFICES ASSUME Init PROVE ListInv
  OBVIOUS
<1>1. /\ ranking = <<>> /\ holders = <<>> /\ changes = 0 /\ page = 1 /\ reading = "done"
  BY DEF Init
<1>2. <<>> \in Seq(Nat) /\ Len(<<>>) = 0 /\ SubSeq(<<>>, 1, 0) = <<>>
  BY SubSeqEmpty
<1>3. P!min(Len(ranking), P!Wanted) = 0
  BY <1>1, <1>2, ListLimits DEF P!min, P!Wanted
<1>4. ListTypeOK
  BY <1>1, <1>2 DEF ListTypeOK
<1>5. StillInv
  BY <1>1, <1>2, <1>3 DEF StillInv
<1> QED
  BY <1>1, <1>2, <1>4, <1>5, ListLimits DEF ListInv

\* Whatever the list, the requests and their answers do, the loop over the
\* pages (solscan.rs:62) and its requests keep their inductive invariant.
THEOREM ListInvariance == Spec => [](RequestInv /\ ListInv)
<1>1. Init => RequestInv /\ ListInv
  BY RequestInit, ListInit
<1>2. RequestInv /\ ListInv /\ [Next]_vars => (RequestInv /\ ListInv)'
  BY RequestStep, ListInvStep
<1> QED
  BY <1>1, <1>2, PTL DEF Spec

\* The loop over the pages (solscan.rs:62) comes to an end: every page that
\* another follows brought an account, with a total in the answers or without
\* and however the list changes under the reader, and no more accounts are
\* taken than were asked for.
THEOREM PagesEnd == Spec => []EveryPageBringsOne
<1>1. ListInv => EveryPageBringsOne
  BY DEF ListInv, EveryPageBringsOne, P!EveryPageBringsOne
<1> QED
  BY <1>1, ListInvariance, PTL

\* A list that does not change while it is read is read in its order, each
\* account once, up to the limit (get_token_holders, solscan.rs:66), with any
\* page size, any retries, and with or without a total.
THEOREM StillListsAreRead == Spec => []StillListIsRead
<1>1. ListInv => StillListIsRead
  BY DEF ListInv, StillInv, StillListIsRead, P!StillListIsRead
<1> QED
  BY <1>1, ListInvariance, PTL

-----------------------------------------------------------------------------
(* The pages of a list that moves.                                         *)

\* What a change makes be missed, or be taken twice, is at most one account
\* each: of those that were read past, and of those that are still to come.
MoveInv ==
  /\ ranking \in Seq(Nat) /\ original \in Seq(Nat) /\ holders \in Seq(Nat)
  /\ Different(ranking)
  /\ reading = "request" =>
       /\ Len(holders) <= Before
       /\ Missed(original, holders, ranking, Before) <= changes
       /\ Twice(holders, ranking, Before) <= changes
  /\ EachChangeCostsOne

LEMMA CostsNext ==
  ASSUME ranking' \in Seq(Nat), original' \in Seq(Nat), changes' \in Nat,
         CostsOne(original', ranking', holders', P!Wanted', changes')
  PROVE  EachChangeCostsOne'
<1>1. P!Wanted' \in Nat
  BY ListLimits DEF P!Wanted
<1> DEFINE first(list) == P!ToSet(SubSeq(list, 1, P!min(Len(list), P!Wanted')))
<1>2. /\ Cardinality((first(original') \cap first(ranking')) \ P!ToSet(holders')) <= changes'
      /\ Len(holders') - Cardinality(P!ToSet(holders')) <= changes'
  BY <1>1, Costs
<1>3. P!Steady' = first(original') \cap first(ranking')
  BY DEF P!Steady, P!Wanted0
<1> HIDE DEF first
<1>4. /\ Cardinality(P!Steady' \ P!ToSet(holders')) <= changes'
      /\ Len(holders') - Cardinality(P!ToSet(holders')) <= changes'
  BY <1>2, <1>3
<1> QED
  BY <1>4, SameSizes DEF EachChangeCostsOne, P!EachChangeCostsOne

LEMMA FreshIs ==
  ASSUME ranking \in Seq(Nat), original \in Seq(Nat), holders \in Seq(Nat)
  PROVE  /\ P!Fresh \in Nat /\ P!Fresh \notin P!ToSet(ranking)
         /\ P!Fresh \notin P!ToSet(original) /\ P!Fresh \notin P!ToSet(holders)
<1> DEFINE S == P!ToSet(ranking) \cup P!ToSet(original) \cup P!ToSet(holders) \cup {0}
<1>1. S \in SUBSET Nat /\ S # {}
  BY ToSetOf
<1>2. IsFiniteSet(S)
  <2>1. IsFiniteSet(P!ToSet(ranking)) /\ IsFiniteSet(P!ToSet(original)) /\ IsFiniteSet(P!ToSet(holders))
    BY ToSetOf
  <2>2. IsFiniteSet(P!ToSet(ranking) \cup P!ToSet(original) \cup P!ToSet(holders))
    BY <2>1, FS_Union
  <2> QED
    BY <2>2, FS_AddElement
<1>3. P!Fresh = P!Max(S) + 1 /\ P!Max(S) = Max(S)
  BY DEF P!Fresh, P!Max, Max
<1> HIDE DEF S
<1>4. Max(S) \in S /\ \A y \in S : y <= Max(S)
  BY <1>1, <1>2, GreatestOfFinite
<1>5. Max(S) \in Nat /\ \A y \in S : y \in Nat /\ y <= Max(S)
  BY <1>1, <1>4
<1> DEFINE m == Max(S)
<1>6. P!Fresh = m + 1 /\ m \in Nat /\ \A y \in S : y \in Nat /\ y <= m
  BY <1>3, <1>5
<1> HIDE DEF m
<1>7. P!Fresh \in Nat /\ P!Fresh \notin S
  BY ONLY <1>6
<1> QED
  BY <1>7 DEF S

\* A page is read, and either another one follows or the list is at its end.
LEMMA MoveReadPage ==
  ASSUME MoveInv, ListInv, NEW total \in {{}, {Len(ranking)}}, P!ReadPage(total)
  PROVE  MoveInv'
<1> DEFINE n == Len(ranking)
           e == P!min(Before + PageSize, n)
           items == SubSeq(ranking, Before + 1, e)
           all == holders \o items
           c == P!min(Len(all), FetchLimit)
           ends == c >= FetchLimit \/ Len(items) = 0 \/ c >= n
           kept == SubSeq(all, 1, c)
<1>1. /\ ranking \in Seq(Nat) /\ original \in Seq(Nat) /\ holders \in Seq(Nat)
      /\ Different(ranking) /\ reading = "request" /\ P!FromSolscan
      /\ Len(holders) <= Before
      /\ Missed(original, holders, ranking, Before) <= changes
      /\ Twice(holders, ranking, Before) <= changes
      /\ Len(holders) <= FetchLimit /\ page \in Nat \ {0} /\ changes \in Nat
  BY DEF MoveInv, ListInv, ListTypeOK, P!ReadPage
<1>2. /\ n \in Nat /\ Len(holders) \in Nat /\ Before \in Nat
      /\ FetchLimit \in Nat \ {0} /\ PageSize \in Nat \ {0}
      /\ P!Items = items
  BY <1>1, ItemsOfPage, LenProperties, ListLimits
<1>3. e \in Nat /\ (e = Before + PageSize \/ e = n)
  BY <1>2 DEF P!min
<1>4. e \in Nat /\ e <= Before + PageSize /\ e <= n
  BY <1>2 DEF P!min
<1> HIDE DEF e
<1>5. items \in Seq(Nat)
  BY <1>1, <1>2, <1>3, <1>4, PageOf
<1>6. /\ Len(all) <= Before + PageSize
      /\ Missed(original, all, ranking, Before + PageSize) <= Missed(original, holders, ranking, Before)
      /\ Twice(all, ranking, Before + PageSize) <= Twice(holders, ranking, Before)
  BY <1>1, <1>2, <1>3, <1>4, PageJoined
<1> HIDE DEF n
<1>7. all \in Seq(Nat) /\ Len(all) = Len(holders) + Len(items) /\ Len(items) \in Nat
  <2> HIDE DEF items
  <2> QED
    BY <1>1, <1>5, ConcatAt, LenProperties
<1> HIDE DEF items, all
<1>8. c \in 0 .. Len(all) /\ c <= FetchLimit /\ (c = Len(all) \/ c = FetchLimit)
  BY <1>2, <1>7 DEF P!min
<1>9. /\ holders' = kept /\ UNCHANGED <<ranking, original, changes>>
      /\ reading' = "request" => c < FetchLimit /\ page' = page + 1
      /\ reading' = "done" => ends
      /\ client' = client /\ reading' \in {"request", "done"}
  <2>1. Len(kept) = c
    BY <1>7, <1>8, PrefixLength
  <2>2. holders \o P!Items = all
    BY <1>2 DEF all
  <2>3. \A k : P!should_stop_pagination(Len(items), k, total) => Len(items) = 0 \/ k >= n
    BY DEF P!should_stop_pagination, n
  <2> DEFINE stops == c >= FetchLimit \/ P!should_stop_pagination(Len(items), c, total)
  <2>4. /\ holders' = kept /\ UNCHANGED <<ranking, original, changes>> /\ client' = client
        /\ stops => reading' = "done"
        /\ ~stops => reading' = "request" /\ page' = page + 1
    <3>1. /\ holders' = kept /\ UNCHANGED <<ranking, original, changes>>
          /\ IF c >= FetchLimit \/ P!should_stop_pagination(Len(items), c, total)
               THEN reading' = "done" /\ UNCHANGED <<page, P!requestVars>>
               ELSE reading' = "request" /\ page' = page + 1 /\ P!StartRequest(client)
      BY <1>2, <2>1, <2>2 DEF P!ReadPage, kept, c
    <3> HIDE DEF c, kept
    <3> QED
      BY <3>1 DEF P!requestVars, P!StartRequest
  <2>5. ~stops => c < FetchLimit
    BY <1>2, <1>7, <1>8
  <2>6. stops => ends
    BY <2>3
  <2> HIDE DEF stops, ends, c, kept
  <2> QED
    BY <2>4, <2>5, <2>6
<1>10. CASE reading' = "request"
  <2>1. c = Len(all) /\ kept = all
    <3>1. c = Len(all)
      BY <1>2, <1>8, <1>9, <1>10
    <3> HIDE DEF c
    <3> QED
      BY <1>7, <3>1, SubSeqFull
  <2>2. Before' = Before + PageSize
    BY <1>1, <1>9, <1>10, NextBefore DEF Before
  <2>3. /\ Missed(original, all, ranking, Before + PageSize) <= changes
        /\ Twice(all, ranking, Before + PageSize) <= changes
    <3>1. /\ Missed(original, all, ranking, Before + PageSize) \in Nat
          /\ Twice(all, ranking, Before + PageSize) \in Nat
          /\ Missed(original, holders, ranking, Before) \in Nat
          /\ Twice(holders, ranking, Before) \in Nat
      BY <1>1, <1>7, CountTypes
    <3> QED
      BY <1>1, <1>6, <3>1
  <2>4. UNCHANGED <<ranking, original, changes>> /\ holders' = all
    BY <1>9, <2>1
  <2>5. EachChangeCostsOne'
    BY <1>10 DEF EachChangeCostsOne, P!EachChangeCostsOne
  <2> HIDE DEF ends, kept, c
  <2> QED
    BY <1>1, <1>6, <1>7, <2>2, <2>3, <2>4, <2>5 DEF MoveInv
<1>11. CASE reading' = "done"
  <2>1. ends
    BY <1>9, <1>11
  <2>2. kept \in Seq(Nat)
    <3> HIDE DEF c
    <3> QED
      BY <1>7, <1>8, PrefixLength
  <2>3. Cardinality((P!ToSet(original) \cap UpTo(ranking, Len(ranking), FetchLimit)) \ P!ToSet(kept))
          <= Missed(original, holders, ranking, Before)
    <3>1. /\ c \in Nat /\ c <= Len(all) /\ FetchLimit \in Nat
          /\ all = holders \o SubSeq(ranking, Before + 1, e)
          /\ c >= FetchLimit \/ Len(SubSeq(ranking, Before + 1, e)) = 0 \/ c >= Len(ranking)
          /\ e = Before + PageSize \/ e = Len(ranking)
          /\ e <= Len(ranking)
      BY <1>2, <1>3, <1>4, <1>7, <1>8, <2>1 DEF n, items, all
    <3> HIDE DEF c
    <3> QED
      BY <1>1, <1>2, <1>4, <1>8, <3>1, EndMisses
  <2>4. Len(kept) - Cardinality(P!ToSet(kept)) <= Len(all) - Cardinality(P!ToSet(all))
    <3> HIDE DEF c
    <3> QED
      BY <1>7, <1>8, PrefixTwice
  <2>5. /\ Cardinality(P!ToSet(kept)) \in Nat /\ Len(kept) \in Nat
        /\ Cardinality(P!ToSet(all)) \in Nat /\ Len(all) \in Nat
        /\ Cardinality(P!ToSet(all) \cap Behind(ranking, Len(ranking), Before + PageSize)) \in Nat
    <3> HIDE DEF kept
    <3> QED
      BY <1>7, <2>2, ToSetOf, CountTypes, <1>1
  <2>6. Len(kept) - Cardinality(P!ToSet(kept)) <= Twice(all, ranking, Before + PageSize)
    <3> DEFINE k == Len(kept)
               x == Cardinality(P!ToSet(kept))
               a == Len(all)
               y == Cardinality(P!ToSet(all))
               z == Cardinality(P!ToSet(all) \cap Behind(ranking, Len(ranking), Before + PageSize))
    <3>1. k \in Nat /\ x \in Nat /\ a \in Nat /\ y \in Nat /\ z \in Nat /\ k - x <= a - y
      BY <2>4, <2>5
    <3> HIDE DEF k, x, a, y, z
    <3>2. k - x <= a - y + z
      BY ONLY <3>1
    <3> QED
      BY <3>2 DEF Twice, k, x, a, y, z
  <2>7. Cardinality((P!ToSet(original) \cap UpTo(ranking, Len(ranking), FetchLimit)) \ P!ToSet(kept)) \in Nat
    BY <1>1, ToSetOf, FS_Subset, FS_CardinalityType
  <2>8. /\ Missed(original, holders, ranking, Before) \in Nat
        /\ Twice(all, ranking, Before + PageSize) \in Nat
        /\ Twice(holders, ranking, Before) \in Nat
    BY <1>1, <1>7, CountTypes
  <2> HIDE DEF kept, ends, c
  <2>9. CostsOne(original, ranking, kept, FetchLimit, changes)
    <3>1. Cardinality((P!ToSet(original) \cap UpTo(ranking, Len(ranking), FetchLimit)) \ P!ToSet(kept)) <= changes
      BY <1>1, <2>3, <2>7, <2>8
    <3>2. Len(kept) - Cardinality(P!ToSet(kept)) <= changes
      BY <1>1, <1>6, <2>5, <2>6, <2>8
    <3> QED
      BY <3>1, <3>2 DEF CostsOne
  <2>10. P!Wanted' = FetchLimit
    BY <1>1, <1>9 DEF P!Wanted, P!FromSolscan
  <2>11. EachChangeCostsOne'
    BY <1>1, <1>9, <2>9, <2>10, CostsNext
  <2> QED
    BY <1>1, <1>9, <1>11, <2>2, <2>11 DEF MoveInv
<1> QED
  BY <1>9, <1>10, <1>11

\* The answer with the largest accounts has each of them once.
LEMMA MoveReadLargest ==
  ASSUME MoveInv, ListInv, P!ReadLargest
  PROVE  MoveInv'
<1> DEFINE c == P!min(Len(ranking), LargestAccounts)
           kept == SubSeq(ranking, 1, c)
<1>1. /\ ranking \in Seq(Nat) /\ original \in Seq(Nat) /\ changes \in Nat /\ Different(ranking)
      /\ Len(ranking) \in Nat
  BY LenProperties DEF MoveInv, ListInv, ListTypeOK
<1>2. /\ ~P!FromSolscan /\ holders' = kept /\ reading' = "done"
      /\ UNCHANGED <<ranking, original, changes, client>>
  BY DEF P!ReadLargest, P!requestVars
<1>3. c \in 0 .. Len(ranking)
  BY <1>1, ListLimits DEF P!min
<1>4. P!ToSet(kept) = UpTo(ranking, Len(ranking), LargestAccounts)
  BY <1>1, FrontOf, ListLimits
<1> HIDE DEF c
<1>5. kept \in Seq(Nat) /\ Len(kept) <= Cardinality(P!ToSet(kept))
  BY <1>1, <1>3, PrefixDiffers
<1>6. Cardinality(P!ToSet(kept)) \in Nat /\ Len(kept) \in Nat
  BY <1>5, ToSetOf
<1> HIDE DEF kept
<1>7. (P!ToSet(original) \cap UpTo(ranking, Len(ranking), LargestAccounts)) \ P!ToSet(kept) = {}
  BY <1>4
<1>8. CostsOne(original, ranking, kept, LargestAccounts, changes)
  <2>1. Cardinality((P!ToSet(original) \cap UpTo(ranking, Len(ranking), LargestAccounts)) \ P!ToSet(kept)) = 0
    BY <1>7, FS_EmptySet
  <2>2. Len(kept) - Cardinality(P!ToSet(kept)) <= changes
    BY <1>1, <1>5, <1>6
  <2> QED
    BY <1>1, <2>1, <2>2 DEF CostsOne
<1>9. P!Wanted' = LargestAccounts
  BY <1>2 DEF P!Wanted, P!FromSolscan
<1>10. EachChangeCostsOne'
  BY <1>1, <1>2, <1>8, <1>9, CostsNext
<1> QED
  BY <1>1, <1>2, <1>5, <1>10 DEF MoveInv

\* Nothing is collected yet, and nothing was read past.
LEMMA MoveStart ==
  ASSUME NEW c, NEW list \in Seq(Nat), Different(list), P!StartReading(c, list)
  PROVE  MoveInv'
<1>1. /\ ranking' = list /\ original' = list /\ changes' = 0 /\ page' = 1 /\ holders' = <<>>
      /\ reading' = "request" /\ Before' = 0
  BY ListLimits DEF P!StartReading, Before
<1>2. <<>> \in Seq(Nat) /\ Len(<<>>) = 0 /\ P!ToSet(<<>>) = {} /\ Len(list) \in Nat
  BY LenProperties DEF P!ToSet
<1>3. Cardinality({}) = 0
  BY FS_EmptySet
<1>4. Missed(list, <<>>, list, 0) = 0
  <2>1. UpTo(list, Len(list), 0) = {}
    BY <1>2 DEF UpTo
  <2> QED
    BY <1>3, <2>1 DEF Missed
<1>5. Twice(<<>>, list, 0) = 0
  <2>1. P!ToSet(<<>>) \cap Behind(list, Len(list), 0) = {}
    BY <1>2
  <2>2. /\ Cardinality(P!ToSet(<<>>)) = 0
        /\ Cardinality(P!ToSet(<<>>) \cap Behind(list, Len(list), 0)) = 0
    BY <1>2, <1>3, <2>1, Zenon
  <2> DEFINE none == <<>>
             x == Cardinality(P!ToSet(none))
             y == Cardinality(P!ToSet(none) \cap Behind(list, Len(list), 0))
  <2>3. Len(none) = 0 /\ x = 0 /\ y = 0
    BY <1>2, <2>2
  <2>4. Twice(none, list, 0) = Len(none) - x + y
    BY DEF Twice
  <2> HIDE DEF none, x, y
  <2>5. Twice(none, list, 0) = 0
    BY ONLY <2>3, <2>4
  <2> QED
    BY <2>5 DEF none
<1>6. EachChangeCostsOne'
  BY <1>1 DEF EachChangeCostsOne, P!EachChangeCostsOne
<1> QED
  BY <1>1, <1>2, <1>4, <1>5, <1>6 DEF MoveInv

LEMMA ListsDiffer ==
  /\ \A list \in P!Lists : list \in Seq(Nat) /\ Different(list)
  /\ <<>> \in Seq(Nat) /\ Different(<<>>)
<1>1. ASSUME NEW list \in P!Lists PROVE list \in Seq(Nat) /\ Different(list)
  <2>1. PICK n \in Nat : list = [i \in 1 .. n |-> i]
    BY DEF P!Lists, P!HolderPagesAssumption
  <2>2. list \in Seq(Nat) /\ Len(list) = n
    BY <2>1
  <2> QED
    BY <2>1, <2>2 DEF Different, AllDiffer
<1>2. <<>> \in Seq(Nat) /\ Len(<<>>) = 0
  OBVIOUS
<1> QED
  BY <1>1, <1>2 DEF Different, AllDiffer

\* The ranking moves: one account more may be missed, and one more taken twice.
LEMMA MoveChange ==
  ASSUME MoveInv, ListInv, P!Change
  PROVE  MoveInv'
<1>1. /\ ranking \in Seq(Nat) /\ original \in Seq(Nat) /\ holders \in Seq(Nat)
      /\ Different(ranking) /\ reading = "request" /\ changes \in Nat /\ page \in Nat \ {0}
      /\ Len(holders) <= Before
      /\ Missed(original, holders, ranking, Before) <= changes
      /\ Twice(holders, ranking, Before) <= changes
      /\ DOMAIN ranking = 1 .. Len(ranking) /\ Len(ranking) \in Nat
  BY LenProperties DEF MoveInv, ListInv, ListTypeOK, P!Change
<1>2. changes' = changes + 1 /\ UNCHANGED <<original, page, holders, reading>>
  BY DEF P!Change
<1>3. Before \in Nat /\ Before' = Before
  BY <1>1, <1>2, NextBefore DEF Before
<1>4. /\ P!Fresh \in Nat /\ P!Fresh \notin P!ToSet(ranking)
      /\ P!Fresh \notin P!ToSet(original) /\ P!Fresh \notin P!ToSet(holders)
  BY <1>1, FreshIs
<1>5. ranking' \in Seq(Nat) /\ Different(ranking') /\ Shifted(ranking, ranking', Before, P!Fresh)
  <2>1. CASE \E i \in DOMAIN ranking : ranking' = P!RemoveAt(ranking, i)
    BY <1>1, <1>3, <2>1, RemoveShifts
  <2>2. CASE \E i \in 1 .. Len(ranking) + 1 : ranking' = P!InsertAt(ranking, i, P!Fresh)
    BY <1>1, <1>3, <1>4, <2>2, InsertShifts
  <2>3. CASE \E i, j \in DOMAIN ranking :
               ranking' = P!InsertAt(P!RemoveAt(ranking, i), j, ranking[i])
    <3>1. PICK i \in 1 .. Len(ranking), j \in 1 .. Len(ranking) :
            ranking' = P!InsertAt(P!RemoveAt(ranking, i), j, ranking[i])
      BY <1>1, <2>3
    <3>2. LET q == P!InsertAt(P!RemoveAt(ranking, i), j, ranking[i])
          IN  q \in Seq(Nat) /\ Different(q) /\ Shifted(ranking, q, Before, P!Fresh)
      BY <1>1, <1>3, MoveShifts
    <3> QED
      BY <3>1, <3>2
  <2> QED
    BY <2>1, <2>2, <2>3 DEF P!Change
<1>6. /\ Missed(original, holders, ranking', Before) <= Missed(original, holders, ranking, Before) + 1
      /\ Twice(holders, ranking', Before) <= Twice(holders, ranking, Before) + 1
  BY <1>1, <1>4, <1>5, ShiftCounts
<1>7. /\ Missed(original, holders, ranking', Before) \in Nat
      /\ Twice(holders, ranking', Before) \in Nat
      /\ Missed(original, holders, ranking, Before) \in Nat
      /\ Twice(holders, ranking, Before) \in Nat
  BY <1>1, CountTypes
<1>8. /\ Missed(original, holders, ranking', Before) <= changes'
      /\ Twice(holders, ranking', Before) <= changes'
  BY <1>1, <1>2, <1>6, <1>7
<1>9. EachChangeCostsOne'
  BY <1>1, <1>2 DEF EachChangeCostsOne, P!EachChangeCostsOne
<1> QED
  BY <1>1, <1>2, <1>3, <1>5, <1>8, <1>9 DEF MoveInv

LEMMA MoveKept ==
  ASSUME MoveInv, UNCHANGED <<ranking, original, changes, page, holders, client>>,
         reading' = reading \/ reading' = "error"
  PROVE  MoveInv'
<1>1. P!Wanted' = P!Wanted
  BY DEF P!Wanted, P!FromSolscan
<1>2. EachChangeCostsOne'
  BY <1>1 DEF MoveInv, EachChangeCostsOne, P!EachChangeCostsOne, P!Steady, P!Wanted0
<1>3. Before' = Before
  BY DEF Before
<1> QED
  BY <1>2, <1>3 DEF MoveInv

LEMMA MoveStep == ASSUME MoveInv, ListInv, [Next]_vars PROVE MoveInv'
<1>1. CASE UNCHANGED listVars
  BY <1>1, MoveKept DEF listVars
<1>2. CASE \E list \in P!Lists : P!StartReading(client, list)
  BY <1>2, ListsDiffer, MoveStart
<1>3. CASE P!StartReading(HttpRpcClient, <<>>)
  BY <1>3, ListsDiffer, MoveStart
<1>4. CASE P!ReadStep
  <2>1. CASE \E retry_after \in RetryAfters : P!RetryPage(retry_after)
    BY <2>1, MoveKept DEF P!RetryPage, P!Retry, P!pageVars
  <2>2. CASE P!RequestFails
    BY <2>2, MoveKept DEF P!RequestFails, P!requestVars
  <2>3. CASE P!ReadLargest
    BY <2>3, MoveReadLargest
  <2>4. CASE \E total \in {{}, {Len(ranking)}} : P!ReadPage(total)
    BY <2>4, MoveReadPage
  <2> QED
    BY <1>4, <2>1, <2>2, <2>3, <2>4 DEF P!ReadStep
<1>5. CASE P!Change
  BY <1>5, MoveChange
<1> QED
  BY <1>1, <1>2, <1>3, <1>4, <1>5, ListStep

LEMMA MoveInit == Init => MoveInv
<1> SUFFICES ASSUME Init PROVE MoveInv
  OBVIOUS
<1>1. ranking = <<>> /\ original = <<>> /\ holders = <<>> /\ changes = 0 /\ reading = "done"
  BY DEF Init
<1>2. P!Wanted \in Nat
  BY ListLimits DEF P!Wanted
<1>3. <<>> \in Seq(Nat) /\ Len(<<>>) = 0 /\ P!ToSet(<<>>) = {} /\ Cardinality({}) = 0
  BY FS_EmptySet DEF P!ToSet
<1>4. CostsOne(<<>>, <<>>, <<>>, P!Wanted, 0)
  <2> DEFINE none == <<>>
  <2>1. (P!ToSet(none) \cap UpTo(none, Len(none), P!Wanted)) \ P!ToSet(none) = {}
    BY <1>3
  <2>2. Len(none) = 0 /\ P!ToSet(none) = {} /\ Cardinality({}) = 0
    BY <1>3
  <2> HIDE DEF none
  <2>3. Cardinality(P!ToSet(none)) = 0
    BY <2>2
  <2>4. CostsOne(none, none, none, P!Wanted, 0)
    BY <2>1, <2>2, <2>3 DEF CostsOne
  <2> QED
    BY <2>4 DEF none
<1> DEFINE first(list) == P!ToSet(SubSeq(list, 1, P!min(Len(list), P!Wanted)))
<1>5. /\ Cardinality((first(<<>>) \cap first(<<>>)) \ P!ToSet(<<>>)) <= 0
      /\ Len(<<>>) - Cardinality(P!ToSet(<<>>)) <= 0
  BY <1>2, <1>3, <1>4, Costs
<1>6. P!Steady = first(<<>>) \cap first(<<>>)
  BY <1>1 DEF P!Steady, P!Wanted0
<1> HIDE DEF first
<1>7. EachChangeCostsOne
  BY <1>1, <1>5, <1>6, SameSizes DEF EachChangeCostsOne, P!EachChangeCostsOne
<1> QED
  BY <1>1, <1>3, <1>7, ListsDiffer DEF MoveInv

\* The pages are asked for by number while the list moves on (solscan.rs:70):
\* whatever the provider's transfers do to the ranking between two requests,
\* with any page size and any limit, each of them makes the read miss at most
\* one account that was wanted all the time, and take at most one twice.
THEOREM ChangesCostOne == Spec => []EachChangeCostsOne
<1>1. Init => ListInv /\ MoveInv
  BY ListInit, MoveInit
<1>2. MoveInv => EachChangeCostsOne
  BY DEF MoveInv
<1>3. ListInv /\ MoveInv /\ [Next]_vars => MoveInv'
  BY MoveStep
<1> QED
  BY <1>1, <1>2, <1>3, ListInvariance, PTL DEF Spec

-----------------------------------------------------------------------------
(***************************************************************************)
(* The scan: whatever the cluster says of the wallets, nobody who was      *)
(* known to have the token is taken, and the report accounts for every     *)
(* candidate once.                                                         *)
(***************************************************************************)

-----------------------------------------------------------------------------
(* What is known of the wallets.                                           *)

ReasonNames == {ExclusionOrder[i] : i \in DOMAIN ExclusionOrder}

\* The first reason of a wallet that has one is a reason.
LEMMA ReasonsExclude ==
  ASSUME NEW w \in Wallets, facts[w] \subseteq ReasonNames, facts[w] # {}
  PROVE  exclusion_reason(w) # "None"
<1> DEFINE S == {i \in DOMAIN ExclusionOrder : ExclusionOrder[i] \in facts[w]}
<1>1. DOMAIN ExclusionOrder = 1 .. 7 /\ \A i \in 1 .. 7 : ExclusionOrder[i] # "None"
  BY DEF ExclusionOrder
<1>2. S \subseteq 1 .. 7 /\ S # {}
  <2>1. PICK i \in DOMAIN ExclusionOrder : ExclusionOrder[i] \in facts[w]
    BY DEF ReasonNames
  <2> QED
    BY <1>1, <2>1
<1> HIDE DEF S
<1>3. \E i \in S : \A j \in S : i =< j
  <2>1. CASE 1 \in S
    BY <1>2, <2>1
  <2>2. CASE 1 \notin S /\ 2 \in S
    BY <1>2, <2>2
  <2>3. CASE 1 \notin S /\ 2 \notin S /\ 3 \in S
    BY <1>2, <2>3
  <2>4. CASE 1 \notin S /\ 2 \notin S /\ 3 \notin S /\ 4 \in S
    BY <1>2, <2>4
  <2>5. CASE 1 \notin S /\ 2 \notin S /\ 3 \notin S /\ 4 \notin S
    <3>1. S \subseteq {5, 6, 7}
      BY <1>2, <2>5
    <3>2. CASE 5 \in S
      BY <3>1, <3>2
    <3>3. CASE 5 \notin S /\ 6 \in S
      BY <3>1, <3>3
    <3>4. CASE 5 \notin S /\ 6 \notin S
      <4>1. \A j \in S : j = 7
        BY <3>1, <3>4
      <4>2. 7 \in S
        BY <1>2, <4>1
      <4> QED
        BY <4>1, <4>2
    <3> QED
      BY <3>2, <3>3, <3>4
  <2> QED
    BY <2>1, <2>2, <2>3, <2>4, <2>5
<1>4. Min(S) \in S
  BY <1>3 DEF Min
<1> QED
  BY <1>1, <1>2, <1>4 DEF exclusion_reason, S

Amounts == {"none", "empty", "funded"}

\* What the accounts of the distribution token, read before the lists, tell of
\* the wallets, and that nothing is merged of a wallet with a reason.
FactsInv ==
  /\ accounts \in [Wallets -> Amounts] /\ preloaded \in [Wallets -> Amounts]
  /\ \A w \in Wallets : facts[w] \subseteq ReasonNames
  /\ phase \notin {"mint", "preload"} =>
       \A w \in Wallets : preloaded[w] # "none" => facts[w] # {}
  /\ \A w \in Wallets : holdings[w] # {} => phase = "scan" /\ facts[w] = {}

\* A candidate that is kept is one of a wallet against which there is nothing.
LEMMA KeptAreFree ==
  ASSUME FactsInv, NEW w \in Wallets, NEW c, Owner(c) = w, skip_reason(c) = "None"
  PROVE  facts[w] = {}
<1>1. Verified(c)
  BY DEF Verified, NoOwner, Wallets
<1> QED
  BY <1>1, ReasonsExclude DEF skip_reason, FactsInv

LEMMA FactsInit == Init => FactsInv
BY DEF Init, FactsInv, NoHoldings, Amounts, ReasonNames

LEMMA FactsStep == ASSUME FactsInv, [Next]_vars PROVE FactsInv'
<1> USE DEF FactsInv, scanVars, given
<1>1. CASE ValidateDistribution \/ ValidateTargets \/ ReadList \/ NextList \/ ListFails \/ ListChanges
  <2>1. /\ UNCHANGED <<facts, holdings, accounts, preloaded>>
        /\ phase' \notin {"mint", "preload"} => phase \notin {"mint", "preload"}
        /\ phase = "scan" => phase' = "scan"
    BY <1>1 DEF ValidateDistribution, ValidateTargets, ReadList, NextList, ListFails,
                ListChanges, Give_up
  <2> QED
    BY <2>1
<1>2. CASE Preload
  <2>1. /\ facts' = [w \in Wallets |-> ExistingReasons(w)] /\ preloaded' = accounts
        /\ phase = "preload" /\ UNCHANGED <<holdings, accounts>>
    BY <1>2 DEF Preload
  <2>2. \A w \in Wallets : /\ ExistingReasons(w) \subseteq ReasonNames
                           /\ accounts[w] # "none" => ExistingReasons(w) # {}
    BY DEF ExistingReasons, ReasonNames, ExclusionOrder
  <2> QED
    BY <2>1, <2>2
<1>3. CASE BeginScan
  <2>1. PICK other \in WalletFacts : facts' = [w \in Wallets |-> facts[w] \cup other[w]]
    BY <1>3 DEF BeginScan
  <2>2. /\ phase = "verify" /\ phase' = "scan" /\ UNCHANGED <<holdings, accounts, preloaded>>
        /\ \A w \in Wallets : other[w] \subseteq ReasonNames
    BY <1>3, <2>1 DEF BeginScan, ReasonNames
  <2> QED
    BY <2>1, <2>2
<1>4. CASE ScanStep
  <2>1. phase = "scan" /\ UNCHANGED <<phase, accounts, preloaded, facts>>
    BY <1>4 DEF ScanStep, Scan, ReadRank, NoRanks, ReadFails, Rank
  <2>2. \A w \in Wallets : holdings'[w] # {} => facts[w] = {}
    <3>1. CASE ReadRank
      BY <2>1, <3>1, KeptAreFree DEF ReadRank
    <3>2. CASE NoRanks \/ ReadFails
      BY <3>2 DEF NoRanks, ReadFails
    <3>3. CASE Rank
      BY <3>3 DEF Rank
    <3> QED
      BY <1>4, <3>1, <3>2, <3>3 DEF ScanStep, Scan
  <2> QED
    BY <2>1, <2>2
<1>5. CASE Acquire
  <2>1. UNCHANGED <<facts, holdings, phase, preloaded>> /\ accounts' \in [Wallets -> Amounts]
    BY <1>5 DEF Acquire, Amounts
  <2> QED
    BY <2>1
<1>6. CASE UNCHANGED vars
  BY <1>6 DEF vars
<1> QED
  BY <1>1, <1>2, <1>3, <1>4, <1>5, <1>6 DEF Next, Step

\* Nobody whose account of the distribution token existed when the accounts
\* were loaded (discovery.rs:51) is among the recipients, whatever happens
\* between that and the report.
THEOREM KnownHoldersAreExcluded == Spec => []NoKnownHolder
<1>1. FactsInv => \A w \in Wallets : holdings[w] # {} => preloaded[w] = "none"
  BY DEF FactsInv
<1>2. FactsInv => NoKnownHolder
  BY <1>1 DEF NoKnownHolder, Found
<1> QED
  BY <1>2, FactsInit, FactsStep, PTL DEF Spec

-----------------------------------------------------------------------------
(* The entries of the lists.                                               *)

\* Until the scan there is nothing in the report, and the lists that are
\* scanned are those of the target tokens, one of each.
ListsInv ==
  /\ \E S : lengths \in Seq(S)
  /\ phase \in {"mint", "preload", "targets", "fetch", "verify", "scan"}
  /\ phase \in {"mint", "preload", "targets"} => lengths = <<>>
  /\ phase = "fetch" => Len(lengths) < Len(TargetTokens)
  /\ phase \in {"verify", "scan"} => Len(lengths) = Len(TargetTokens)
  /\ phase = "scan" => \A t \in Tokens : lists[t] \in Seq(Entries) /\ Len(lists[t]) <= FetchLimit
  /\ phase # "scan" => /\ index = 0 /\ skipped = {} /\ result # "ranking" /\ result # "report"
                       /\ \A w \in Wallets : holdings[w] = {}

LEMMA ListsInit == Init => ListsInv
<1> SUFFICES ASSUME Init PROVE ListsInv
  OBVIOUS
<1>1. <<>> \in Seq({}) /\ lengths = <<>>
  BY DEF Init
<1> QED
  BY <1>1 DEF Init, ListsInv, NoHoldings

LEMMA ListsStep == ASSUME ListsInv, [Next]_vars PROVE ListsInv'
<1> USE DEF ListsInv, scanVars, given
<1>1. CASE ValidateDistribution \/ ReadList \/ ListFails \/ ListChanges \/ Acquire
  BY <1>1 DEF ValidateDistribution, ReadList, ListFails, ListChanges, Acquire, Give_up
<1>2. CASE Preload
  BY <1>2 DEF Preload
<1>3. CASE ValidateTargets
  <2>1. Len(TargetTokens) \in Nat \ {0} /\ Len(<<>>) = 0
    OBVIOUS
  <2> QED
    BY <1>3, <2>1 DEF ValidateTargets, Give_up
<1>4. CASE NextList
  <2>1. PICK S : lengths \in Seq(S)
    OBVIOUS
  <2>2. lengths \in Seq(S \cup {Len(holders)})
    BY <2>1
  <2>3. /\ lengths' \in Seq(S \cup {Len(holders)})
        /\ Len(lengths') = Len(lengths) + 1 /\ Len(lengths) \in Nat
    BY <1>4, <2>2 DEF NextList
  <2> QED
    BY <1>4, <2>3 DEF NextList
<1>5. CASE BeginScan
  <2>1. PICK read \in [1 .. Len(lengths) -> UNION {[1 .. n -> Entries] : n \in 0 .. FetchLimit}] :
          lists' = [t \in Tokens |-> read[CHOOSE i \in DOMAIN read : TargetTokens[i] = t]]
    BY <1>5 DEF BeginScan
  <2>2. ASSUME NEW t \in Tokens PROVE lists'[t] \in Seq(Entries) /\ Len(lists'[t]) <= FetchLimit
    <3>1. \E i \in DOMAIN TargetTokens : TargetTokens[i] = t
      OBVIOUS
    <3>2. DOMAIN read = 1 .. Len(TargetTokens) /\ DOMAIN TargetTokens = 1 .. Len(TargetTokens)
      BY <1>5, <2>1 DEF BeginScan
    <3>3. PICK i \in DOMAIN read : lists'[t] = read[i]
      BY <2>1, <3>1, <3>2
    <3>4. PICK n \in 0 .. FetchLimit : read[i] \in [1 .. n -> Entries]
      BY <2>1, <3>3
    <3>5. lists'[t] \in Seq(Entries) /\ Len(lists'[t]) = n
      <4>1. lists'[t] \in [1 .. n -> Entries] /\ n \in Nat
        BY <3>3, <3>4
      <4> QED
        BY <4>1
    <3> QED
      BY <3>4, <3>5
  <2> QED
    BY <1>5, <2>2 DEF BeginScan
<1>6. CASE ScanStep
  BY <1>6 DEF ScanStep, Scan, ReadRank, NoRanks, ReadFails, Rank
<1>7. CASE UNCHANGED vars
  BY <1>7 DEF vars
<1> QED
  BY <1>1, <1>2, <1>3, <1>4, <1>5, <1>6, <1>7 DEF Next, Step

-----------------------------------------------------------------------------
(* The report accounts for every candidate.                                *)

\* Every candidate that was read is held by its owner or skipped, once.
AccountInv ==
  /\ index \in Nat /\ IsFiniteSet(Read)
  /\ \A w \in Wallets : \A h \in holdings[w] : h \in Read /\ Owner(h) = w
  /\ \A s \in skipped : /\ s.candidate \in Read
                        /\ \A w \in Wallets : s.candidate \notin holdings[w]
  /\ \A s, t \in skipped : s.candidate = t.candidate => s = t
  /\ \A c \in Read : \/ \E w \in Wallets : c \in holdings[w]
                     \/ \E s \in skipped : s.candidate = c

LEMMA CandidatesFinite == ASSUME NEW r PROVE IsFiniteSet(CandidatesAt(r))
<1> DEFINE S == {u \in Tokens : Len(lists[u]) >= r}
           f == [t \in S |-> [token |-> t, rank |-> r]]
<1>1. IsFiniteSet(S)
  BY FS_Subset
<1>2. f \in Surjection(S, CandidatesAt(r))
  BY DEF CandidatesAt, Surjection
<1> QED
  BY <1>1, <1>2, FS_Surjection

\* A candidate is read at its own rank.
LEMMA RanksDiffer ==
  ASSUME index \in Nat
  PROVE  /\ \A c \in Read : c.rank \in 1 .. index
         /\ \A c \in CandidatesAt(index + 1) : c.rank = index + 1 /\ c \notin Read
BY DEF Read, CandidatesAt

\* Of every candidate it is known whether it has an owner.
LEMMA OwnerOfCandidate ==
  ASSUME ListsInv, phase = "scan", NEW r \in Nat \ {0}, NEW c \in CandidatesAt(r)
  PROVE  skip_reason(c) = "None" => Owner(c) \in Wallets
<1>1. PICK t \in Tokens : c = [token |-> t, rank |-> r] /\ Len(lists[t]) >= r
  BY DEF CandidatesAt
<1>2. lists[t] \in Seq(Entries) /\ r \in 1 .. Len(lists[t])
  BY <1>1 DEF ListsInv
<1>3. lists[c.token][c.rank] \in Entries
  BY <1>1, <1>2
<1> QED
  BY <1>3 DEF skip_reason, Verified, Owner, Entries, NoOwner

LEMMA ReadRankAccounts ==
  ASSUME AccountInv, ListsInv, phase = "scan", ReadRank
  PROVE  AccountInv'
<1> DEFINE candidates == CandidatesAt(index + 1)
           kept == {c \in candidates : skip_reason(c) = "None"}
<1>1. /\ holdings' = [w \in Wallets |-> holdings[w] \cup {c \in kept : Owner(c) = w}]
      /\ skipped' = skipped \cup {Skip(c, skip_reason(c)) : c \in candidates \ kept}
      /\ index' = index + 1 /\ lists' = lists
  BY DEF ReadRank, given
<1>2. index \in Nat /\ index + 1 \in Nat \ {0}
  BY DEF AccountInv
<1>3. \A r : CandidatesAt(r)' = CandidatesAt(r)
  BY <1>1 DEF CandidatesAt
<1>4. Read' = Read \cup candidates
  <2>1. 1 .. index' = (1 .. index) \cup {index + 1}
    BY <1>1, <1>2
  <2> QED
    BY <1>3, <2>1 DEF Read
<1>5. \A c \in candidates : c \notin Read
  BY <1>2, RanksDiffer
<1>6. \A c \in kept : Owner(c) \in Wallets
  BY <1>2, OwnerOfCandidate
<1>7. \A c : Owner(c)' = Owner(c)
  BY <1>1 DEF Owner
<1>8. \A c : Skip(c, skip_reason(c)).candidate = c
  BY DEF Skip
<1>9. IsFiniteSet(Read')
  BY <1>4, CandidatesFinite, FS_Union DEF AccountInv
<1> HIDE DEF candidates
<1>10. \A w \in Wallets : \A h \in holdings'[w] : h \in Read' /\ Owner(h)' = w
  BY <1>1, <1>4, <1>7 DEF AccountInv
<1>11. \A s \in skipped' : /\ s.candidate \in Read'
                           /\ \A w \in Wallets : s.candidate \notin holdings'[w]
  <2>1. ASSUME NEW s \in skipped
        PROVE  /\ s.candidate \in Read'
               /\ \A w \in Wallets : s.candidate \notin holdings'[w]
    BY <1>1, <1>4, <1>5, <2>1 DEF AccountInv
  <2>2. ASSUME NEW c \in candidates \ kept
        PROVE  c \in Read' /\ \A w \in Wallets : c \notin holdings'[w]
    BY <1>1, <1>4, <1>5, <2>2 DEF AccountInv
  <2> QED
    BY <1>1, <1>8, <2>1, <2>2
<1>12. \A s, t \in skipped' : s.candidate = t.candidate => s = t
  <2>1. \A s \in skipped : s.candidate \in Read
    BY DEF AccountInv
  <2> QED
    BY <1>1, <1>5, <1>8, <2>1 DEF AccountInv
<1>13. \A c \in Read' : \/ \E w \in Wallets : c \in holdings'[w]
                        \/ \E s \in skipped' : s.candidate = c
  <2>1. ASSUME NEW c \in Read
        PROVE  (\E w \in Wallets : c \in holdings'[w]) \/ \E s \in skipped' : s.candidate = c
    BY <1>1, <2>1 DEF AccountInv
  <2>2. ASSUME NEW c \in kept PROVE \E w \in Wallets : c \in holdings'[w]
    BY <1>1, <1>6, <2>2
  <2>3. ASSUME NEW c \in candidates \ kept PROVE \E s \in skipped' : s.candidate = c
    BY <1>1, <1>8, <2>3
  <2> QED
    BY <1>4, <2>1, <2>2, <2>3
<1> QED
  BY <1>1, <1>2, <1>9, <1>10, <1>11, <1>12, <1>13 DEF AccountInv

LEMMA RankAccounts == ASSUME AccountInv, Rank PROVE AccountInv'
<1> DEFINE cut == UNION {holdings[w] : w \in Found \ Recipients}
<1>1. /\ holdings' = [w \in Wallets |-> IF w \in Recipients THEN holdings[w] ELSE {}]
      /\ skipped' = skipped \cup {Skip(c, "RecipientLimit") : c \in cut}
      /\ index' = index /\ lists' = lists
  BY DEF Rank, given
<1>2. Read' = Read /\ \A c : Owner(c)' = Owner(c)
  BY <1>1 DEF Read, CandidatesAt, Owner
<1>3. \A c : Skip(c, "RecipientLimit").candidate = c
  BY DEF Skip
<1>4. \A c \in cut : \E w \in Wallets \ Recipients : c \in holdings[w]
  BY DEF Found
<1>5. \A w \in Wallets \ Recipients : holdings[w] \subseteq cut
  BY DEF Found
<1>6. \A c \in cut : /\ c \in Read /\ \A w \in Wallets : c \notin holdings'[w]
                     /\ \A s \in skipped : s.candidate # c
  BY <1>1, <1>4 DEF AccountInv
<1> HIDE DEF cut
<1>7. \A w \in Wallets : \A h \in holdings'[w] : h \in Read /\ Owner(h) = w
  BY <1>1 DEF AccountInv
<1>8. \A s \in skipped' : /\ s.candidate \in Read
                          /\ \A w \in Wallets : s.candidate \notin holdings'[w]
  BY <1>1, <1>3, <1>6 DEF AccountInv
<1>9. \A s, t \in skipped' : s.candidate = t.candidate => s = t
  BY <1>1, <1>3, <1>6 DEF AccountInv
<1>10. \A c \in Read : \/ \E w \in Wallets : c \in holdings'[w]
                       \/ \E s \in skipped' : s.candidate = c
  BY <1>1, <1>3, <1>5 DEF AccountInv
<1> QED
  BY <1>1, <1>2, <1>7, <1>8, <1>9, <1>10 DEF AccountInv

\* Until the scan there is no candidate, and none of them is in the report.
LEMMA NothingRead ==
  ASSUME ListsInv, phase # "scan"
  PROVE  AccountInv
<1>1. 1 .. 0 = {}
  OBVIOUS
<1>2. index = 0 /\ Read = {}
  BY <1>1 DEF ListsInv, Read
<1>3. IsFiniteSet(Read)
  BY <1>2, FS_EmptySet
<1> QED
  BY <1>2, <1>3 DEF ListsInv, AccountInv

LEMMA AccountInit == Init => AccountInv
<1> SUFFICES ASSUME Init PROVE AccountInv
  OBVIOUS
<1>1. ListsInv
  BY ListsInit
<1>2. phase # "scan"
  BY DEF Init
<1> QED
  BY <1>1, <1>2, NothingRead

\* A step that leaves the report and the lists alone.
LEMMA AccountKept ==
  ASSUME AccountInv, UNCHANGED <<lists, index, holdings, skipped>>
  PROVE  AccountInv'
<1>1. Read' = Read /\ \A c : Owner(c)' = Owner(c)
  BY DEF Read, CandidatesAt, Owner
<1> QED
  BY <1>1 DEF AccountInv

LEMMA AccountStep == ASSUME AccountInv, ListsInv, [Next]_vars PROVE AccountInv'
<1> USE DEF scanVars, given
<1>1. CASE ValidateDistribution \/ Preload \/ ValidateTargets \/ ReadList \/ NextList
             \/ ListFails \/ ListChanges \/ Acquire \/ UNCHANGED vars
  <2>1. UNCHANGED <<lists, index, holdings, skipped>>
    BY <1>1 DEF ValidateDistribution, Preload, ValidateTargets, ReadList, NextList,
                ListFails, ListChanges, Acquire, Give_up, vars
  <2> QED
    BY <2>1, AccountKept
<1>2. CASE BeginScan
  <2>1. /\ index = 0 /\ skipped = {} /\ \A w \in Wallets : holdings[w] = {}
        /\ UNCHANGED <<index, holdings, skipped>>
    BY <1>2 DEF BeginScan, ListsInv
  <2>2. 1 .. 0 = {}
    OBVIOUS
  <2>3. Read' = {}
    BY <2>1, <2>2 DEF Read
  <2>4. IsFiniteSet(Read')
    BY <2>3, FS_EmptySet
  <2> QED
    BY <2>1, <2>3, <2>4 DEF AccountInv
<1>3. CASE ScanStep
  <2>1. CASE ReadRank
    BY <1>3, <2>1, ReadRankAccounts DEF ScanStep
  <2>2. CASE NoRanks \/ ReadFails
    BY <2>2, AccountKept DEF NoRanks, ReadFails
  <2>3. CASE Rank
    BY <2>3, RankAccounts
  <2> QED
    BY <1>3, <2>1, <2>2, <2>3 DEF ScanStep, Scan
<1> QED
  BY <1>1, <1>2, <1>3 DEF Next, Step

\* The report has as many skipped entries as skipped candidates.
LEMMA OneEntryEach ==
  ASSUME AccountInv
  PROVE  Cardinality({s.candidate : s \in skipped}) = Cardinality(skipped)
<1> DEFINE entries == {s.candidate : s \in skipped}
           f == [s \in skipped |-> s.candidate]
<1>1. entries \subseteq Read
  BY DEF AccountInv
<1>2. IsFiniteSet(entries)
  BY <1>1, FS_Subset DEF AccountInv
<1>3. f \in [skipped -> entries]
  OBVIOUS
<1>4. \A s, t \in skipped : f[s] = f[t] => s = t
  BY DEF AccountInv
<1>5. \A c \in entries : \E s \in skipped : f[s] = c
  OBVIOUS
<1>6. ExistsBijection(skipped, entries)
  BY <1>3, <1>4, <1>5 DEF ExistsBijection, Bijection, Injection, IsInjective, Surjection
<1>7. ExistsBijection(entries, skipped)
  <2> DEFINE g == [c \in entries |-> CHOOSE s \in skipped : f[s] = c]
  <2>1. g \in [entries -> skipped]
    BY <1>5
  <2>2. \A c, d \in entries : g[c] = g[d] => c = d
    BY <1>5
  <2>3. \A s \in skipped : \E c \in entries : g[c] = s
    <3> SUFFICES ASSUME NEW s \in skipped PROVE g[f[s]] = s /\ f[s] \in entries
      OBVIOUS
    <3> QED
      BY <1>4, <1>5
  <2> QED
    BY <2>1, <2>2, <2>3 DEF ExistsBijection, Bijection, Injection, IsInjective, Surjection
<1> QED
  BY <1>2, <1>7, FS_Bijection

\* Every candidate that a scan reads is exactly once in what it reports, as a
\* holding of its owner or skipped for one reason (discovery.rs:94): after every
\* rank, and after the cut at max_recipients.
THEOREM EveryCandidateIsAccounted == Spec => []EveryCandidateAccounted
<1>1. ASSUME AccountInv PROVE EveryCandidateAccounted
  <2>1. \A w \in Wallets : holdings[w] \subseteq Read
    BY <1>1 DEF AccountInv
  <2>2. /\ (UNION {holdings[w] : w \in Wallets}) \cup {s.candidate : s \in skipped} = Read
        /\ (UNION {holdings[w] : w \in Wallets}) \cap {s.candidate : s \in skipped} = {}
    BY <1>1 DEF AccountInv
  <2>3. \A p \in {p \in Read \X Wallets : p[1] \in holdings[p[2]]} : Owner(p[1]) = p[2]
    BY <1>1 DEF AccountInv
  <2> QED
    BY <1>1, <2>2, <2>3, OneEntryEach DEF EveryCandidateAccounted
<1> QED
  BY <1>1, ListsInit, ListsStep, AccountInit, AccountStep, PTL DEF Spec

-----------------------------------------------------------------------------
(* The early stop and the cut.                                             *)

AllMerged(w) == \A c \in Read : Owner(c) = w => c \in holdings[w]

\* Before the cut every recipient has all that was read of it; after it, who
\* was left out has no candidate before the first one of anybody who was taken.
MergeInv ==
  /\ max_recipients \in Nat
  /\ phase = "scan" /\ result # "report" =>
       \A w \in Wallets : facts[w] = {} => AllMerged(w)
  /\ result = "report" =>
       \A w \in Found, v \in Wallets \ Found : facts[v] = {} =>
         \A d \in Read : Owner(d) = v => \E c \in holdings[w] : c.rank <= d.rank

LEMMA RankOfHolding ==
  ASSUME AccountInv, NEW w \in Found
  PROVE  /\ best_rank(w) \in 1 .. index
         /\ \E c \in holdings[w] : c.rank = best_rank(w)
         /\ \A c \in holdings[w] : best_rank(w) <= c.rank
<1> DEFINE S == {h.rank : h \in holdings[w]}
<1>1. S \subseteq 1 .. index /\ S # {} /\ index \in Nat
  BY RanksDiffer DEF Found, AccountInv
<1>2. Min(S) \in S /\ \A y \in S : Min(S) <= y
  <2> HIDE DEF S
  <2> QED
    BY <1>1, LeastOfNat
<1>3. best_rank(w) = Min(S)
  BY DEF best_rank
<1>4. best_rank(w) \in S /\ (\A y \in S : best_rank(w) <= y) /\ best_rank(w) \in 1 .. index
  <2> HIDE DEF S
  <2> QED
    BY <1>1, <1>2, <1>3
<1>5. \E c \in holdings[w] : c.rank = best_rank(w)
  BY <1>4
<1>6. \A c \in holdings[w] : best_rank(w) <= c.rank
  BY <1>4
<1> QED
  BY <1>4, <1>5, <1>6

\* Whoever is ahead of one wallet is ahead of all with a worse rank.
LEMMA AheadByRank ==
  ASSUME AccountInv, NEW v \in Found, NEW w \in Found, best_rank(v) < best_rank(w)
  PROVE  Ahead(v) \subseteq Ahead(w)
<1> SUFFICES ASSUME NEW u \in Ahead(v) PROVE u \in Ahead(w)
  OBVIOUS
<1>1. u \in Found /\ best_rank(u) <= best_rank(v)
  <2>1. u \in Found /\ compare_recipient_order(u, v)
    BY DEF Ahead
  <2>2. best_rank(u) \in Int /\ best_rank(v) \in Int
    BY <2>1, RankOfHolding
  <2> QED
    BY <2>1, <2>2 DEF compare_recipient_order
<1>2. best_rank(u) \in Int /\ best_rank(v) \in Int /\ best_rank(w) \in Int
  BY <1>1, RankOfHolding
<1>3. best_rank(u) < best_rank(w)
  BY <1>1, <1>2
<1> QED
  BY <1>1, <1>3 DEF Ahead, compare_recipient_order

LEMMA BetterIsTaken ==
  ASSUME AccountInv, MergeInv, NEW w \in Recipients, NEW v \in Found \ Recipients
  PROVE  best_rank(w) <= best_rank(v)
<1>1. w \in Found /\ best_rank(w) \in Int /\ best_rank(v) \in Int
  BY RankOfHolding DEF Recipients
<1> SUFFICES ASSUME best_rank(v) < best_rank(w) PROVE FALSE
  BY <1>1
<1>2. Ahead(v) \subseteq Ahead(w)
  BY <1>1, AheadByRank
<1>3. IsFiniteSet(Ahead(w))
  <2>1. IsFiniteSet(Wallets) /\ Ahead(w) \subseteq Wallets
    BY FS_Interval DEF Wallets, Ahead, Found
  <2> QED
    BY <2>1, FS_Subset
<1>4. Cardinality(Ahead(v)) <= Cardinality(Ahead(w)) /\ IsFiniteSet(Ahead(v))
  BY <1>2, <1>3, FS_Subset
<1>5. Cardinality(Ahead(v)) \in Nat /\ Cardinality(Ahead(w)) \in Nat
  BY <1>3, <1>4, FS_CardinalityType
<1>6. Cardinality(Ahead(w)) < max_recipients /\ ~(Cardinality(Ahead(v)) < max_recipients)
  BY DEF Recipients
<1> QED
  BY <1>4, <1>5, <1>6 DEF MergeInv

LEMMA MergeInit == Init => MergeInv
BY DEF Init, MergeInv

LEMMA ReadRankMerges ==
  ASSUME FactsInv, ListsInv, AccountInv, MergeInv, phase = "scan", phase' = "scan", ReadRank
  PROVE  MergeInv'
<1> DEFINE candidates == CandidatesAt(index + 1)
           kept == {c \in candidates : skip_reason(c) = "None"}
<1>1. /\ holdings' = [w \in Wallets |-> holdings[w] \cup {c \in kept : Owner(c) = w}]
      /\ index' = index + 1
      /\ result = "scanning" /\ result' # "report"
      /\ UNCHANGED <<max_recipients, lists, facts>>
  BY DEF ReadRank, given
<1>2. Read' = Read \cup candidates /\ \A c : Owner(c)' = Owner(c)
  <2>1. index \in Nat
    BY DEF AccountInv
  <2>2. 1 .. index' = (1 .. index) \cup {index + 1}
    BY <1>1, <2>1
  <2> QED
    BY <1>1, <2>2 DEF Read, CandidatesAt, Owner
<1> HIDE DEF candidates
<1>3. ASSUME NEW w \in Wallets, facts[w] = {}, NEW c \in Read', Owner(c) = w
      PROVE  c \in holdings'[w]
  <2>1. CASE c \in Read
    BY <1>1, <1>3, <2>1 DEF MergeInv, AllMerged
  <2>2. CASE c \in candidates
    <3>1. skip_reason(c) = "None"
      BY <1>3 DEF skip_reason, Verified, NoOwner, Wallets, exclusion_reason
    <3> QED
      BY <1>1, <1>3, <2>2, <3>1
  <2> QED
    BY <1>2, <1>3, <2>1, <2>2
<1> QED
  BY <1>1, <1>2, <1>3 DEF MergeInv, AllMerged

LEMMA RankMerges ==
  ASSUME FactsInv, AccountInv, MergeInv, phase = "scan", Rank
  PROVE  MergeInv'
<1>1. /\ holdings' = [w \in Wallets |-> IF w \in Recipients THEN holdings[w] ELSE {}]
      /\ result = "ranking" /\ result' = "report"
      /\ UNCHANGED <<max_recipients, lists, facts, index>>
  BY DEF Rank, given
<1>2. Read' = Read /\ \A c : Owner(c)' = Owner(c)
  BY <1>1 DEF Read, CandidatesAt, Owner
<1>3. Found' = Recipients
  BY <1>1 DEF Found, Recipients
<1>4. ASSUME NEW w \in Recipients, NEW v \in Wallets \ Recipients, facts[v] = {},
             NEW d \in Read, Owner(d) = v
      PROVE  \E c \in holdings'[w] : c.rank <= d.rank
  <2>1. d \in holdings[v]
    BY <1>1, <1>4 DEF MergeInv, AllMerged
  <2>2. v \in Found \ Recipients /\ w \in Found
    BY <1>4, <2>1 DEF Found, Recipients
  <2>3. best_rank(v) <= d.rank /\ best_rank(v) \in Int /\ d.rank \in Int
    BY <2>1, <2>2, RankOfHolding, RanksDiffer DEF AccountInv
  <2>4. PICK c \in holdings[w] : c.rank = best_rank(w) /\ best_rank(w) \in Int
    BY <2>2, RankOfHolding
  <2>5. best_rank(w) <= best_rank(v)
    BY <1>4, <2>2, BetterIsTaken
  <2>6. c \in holdings'[w] /\ c.rank <= d.rank
    BY <1>1, <1>4, <2>2, <2>3, <2>4, <2>5 DEF Found
  <2> QED
    BY <2>6
<1>5. \A w \in Found', v \in Wallets \ Found' : facts'[v] = {} =>
        \A d \in Read' : Owner(d)' = v => \E c \in holdings'[w] : c.rank <= d.rank
  <2> SUFFICES ASSUME NEW w \in Found', NEW v \in Wallets \ Found', facts'[v] = {},
                      NEW d \in Read', Owner(d)' = v
               PROVE  \E c \in holdings'[w] : c.rank <= d.rank
    OBVIOUS
  <2>1. w \in Recipients /\ v \in Wallets \ Recipients /\ facts[v] = {}
    BY <1>1, <1>3
  <2>2. d \in Read /\ Owner(d) = v
    BY <1>2
  <2> QED
    BY <1>4, <2>1, <2>2
<1>6. max_recipients' \in Nat /\ result' = "report"
  BY <1>1 DEF MergeInv
<1> QED
  BY <1>5, <1>6 DEF MergeInv

\* A step that leaves the report, the wallets and the lists alone.
LEMMA MergeKept ==
  ASSUME MergeInv, UNCHANGED <<max_recipients, lists, facts, index, holdings>>,
         phase' = phase, result' = result \/ (result # "report" /\ result' # "report")
  PROVE  MergeInv'
<1>1. Read' = Read /\ Found' = Found /\ \A c : Owner(c)' = Owner(c)
  BY DEF Read, CandidatesAt, Owner, Found
<1> QED
  BY <1>1 DEF MergeInv, AllMerged

LEMMA MergeStep ==
  ASSUME FactsInv, ListsInv, AccountInv, MergeInv, [Next]_vars
  PROVE  MergeInv'
<1> USE DEF scanVars, given
<1>1. CASE ValidateDistribution \/ Preload \/ ValidateTargets \/ NextList \/ ListFails
  <2>1. phase # "scan" /\ phase' # "scan" /\ result' # "report" /\ max_recipients' = max_recipients
    BY <1>1 DEF ValidateDistribution, Preload, ValidateTargets, NextList, ListFails, Give_up, ListsInv
  <2> QED
    BY <2>1 DEF MergeInv
<1>2. CASE BeginScan
  <2>1. index' = 0 /\ result' # "report" /\ max_recipients' = max_recipients
    BY <1>2 DEF BeginScan, ListsInv
  <2>2. 1 .. 0 = {}
    OBVIOUS
  <2>3. Read' = {}
    BY <2>1, <2>2 DEF Read
  <2> QED
    BY <2>1, <2>3 DEF MergeInv, AllMerged
<1>3. CASE ScanStep
  <2>1. phase = "scan" /\ phase' = "scan"
    BY <1>3 DEF ScanStep
  <2>2. CASE ReadRank
    BY <2>1, <2>2, ReadRankMerges
  <2>3. CASE NoRanks \/ ReadFails
    BY <2>1, <2>3, MergeKept DEF NoRanks, ReadFails
  <2>4. CASE Rank
    BY <2>1, <2>4, RankMerges
  <2> QED
    BY <1>3, <2>2, <2>3, <2>4 DEF ScanStep, Scan
<1>4. CASE ReadList \/ ListChanges \/ Acquire \/ UNCHANGED vars
  <2>1. UNCHANGED <<max_recipients, lists, facts, index, holdings, phase, result>>
    BY <1>4 DEF ReadList, ListChanges, Acquire, vars
  <2> QED
    BY <2>1, MergeKept
<1> QED
  BY <1>1, <1>2, <1>3, <1>4 DEF Next, Step

\* Where the lists name a wallet, the ranks of it are its.
RanksOf(w) == {r \in Ranks : \E t \in Tokens : r <= Len(lists[t]) /\ lists[t][r].owner = w}

LEMMA RanksAreInts == \A w : RanksOf(w) \subseteq Int
BY DEF RanksOf, Ranks

\* What was read of a wallet is a rank of it on a list, and the ranks as far
\* as they were read are candidates.
LEMMA RanksRead ==
  ASSUME ListsInv, phase = "scan", index \in Nat
  PROVE  /\ \A d \in Read : d.rank \in RanksOf(Owner(d)) /\ d.rank <= index
         /\ \A w \in Wallets : \A r \in RanksOf(w) :
              r <= index => \E d \in Read : d.rank = r /\ Owner(d) = w
<1>1. ASSUME NEW d \in Read PROVE d.rank \in RanksOf(Owner(d)) /\ d.rank <= index
  <2>1. PICK r \in 1 .. index, t \in Tokens : d = [token |-> t, rank |-> r] /\ Len(lists[t]) >= r
    BY DEF Read, CandidatesAt
  <2>2. Len(lists[t]) \in Nat /\ Len(lists[t]) <= FetchLimit /\ FetchLimit \in Nat
    BY DEF ListsInv
  <2>3. r \in Ranks /\ r <= Len(lists[t]) /\ r <= index
    BY <2>1, <2>2 DEF Ranks
  <2>4. d.rank = r /\ lists[t][r].owner = Owner(d)
    BY <2>1 DEF Owner
  <2> QED
    BY <2>3, <2>4 DEF RanksOf
<1>2. ASSUME NEW w \in Wallets, NEW r \in RanksOf(w), r <= index
      PROVE  \E d \in Read : d.rank = r /\ Owner(d) = w
  <2>1. PICK t \in Tokens : r <= Len(lists[t]) /\ lists[t][r].owner = w
    BY DEF RanksOf
  <2>2. r \in 1 .. index /\ Len(lists[t]) \in Nat
    BY <1>2 DEF RanksOf, Ranks, ListsInv
  <2>3. [token |-> t, rank |-> r] \in CandidatesAt(r)
    BY <2>1, <2>2 DEF CandidatesAt
  <2> QED
    BY <2>1, <2>2, <2>3 DEF Read, Owner
<1> QED
  BY <1>1, <1>2

\* The scan stops in the middle of the lists, and yet misses nobody better:
\* of all the wallets that the lists name at any rank, and that nothing is
\* held against, the ones that are taken are the first by their best rank
\* (discovery.rs:150, and the cut behind it).
THEOREM TheBestAreTaken == Spec => []BestAreTaken
<1>1. ASSUME FactsInv, ListsInv, AccountInv, MergeInv PROVE BestAreTaken
  <2> SUFFICES ASSUME result = "report"
               PROVE  /\ Found \subseteq Eligible
                      /\ \A w \in Found, v \in Eligible \ Found : BestOfAll(w) <= BestOfAll(v)
    BY DEF BestAreTaken
  <2>1. phase = "scan" /\ index \in Nat
    BY <1>1 DEF ListsInv, AccountInv
  <2>2. \A w \in Wallets : /\ BestOfAll(w) = Min(RanksOf(w))
                           /\ w \in Eligible <=> facts[w] = {} /\ RanksOf(w) # {}
    BY DEF BestOfAll, RanksOf, Eligible
  <2>3. ASSUME NEW w \in Wallets, RanksOf(w) # {}
        PROVE  BestOfAll(w) \in RanksOf(w) /\ \A r \in RanksOf(w) : BestOfAll(w) <= r
    <3>1. RanksOf(w) \in SUBSET Nat
      BY DEF RanksOf, Ranks
    <3> QED
      BY <2>2, <2>3, <3>1, LeastOfNat
  <2>4. ASSUME NEW w \in Found
        PROVE  /\ w \in Eligible
               /\ \A c \in holdings[w] : c.rank \in RanksOf(w) /\ c.rank <= index
    <3>1. w \in Wallets /\ facts[w] = {} /\ holdings[w] # {}
      BY <1>1 DEF Found, FactsInv
    <3>2. \A c \in holdings[w] : c.rank \in RanksOf(w) /\ c.rank <= index
      BY <1>1, <2>1, <3>1, RanksRead DEF AccountInv
    <3> QED
      BY <2>2, <3>1, <3>2
  <2>5. ASSUME NEW w \in Found, NEW v \in Eligible \ Found
        PROVE  BestOfAll(w) <= BestOfAll(v)
    <3> DEFINE rv == BestOfAll(v)
               rw == BestOfAll(w)
    <3>1. v \in Wallets \ Found /\ facts[v] = {} /\ RanksOf(v) # {}
      BY <2>2 DEF Eligible
    <3>2. rv \in RanksOf(v) /\ RanksOf(v) \subseteq Int
      BY <2>3, <3>1, RanksAreInts
    <3>3. /\ w \in Wallets /\ holdings[w] # {} /\ RanksOf(w) \subseteq Int
          /\ \A c \in holdings[w] : c.rank \in RanksOf(w) /\ c.rank <= index
      BY <2>4, RanksAreInts DEF Found
    <3>4. rw \in RanksOf(w) /\ \A r \in RanksOf(w) : rw <= r
      BY <2>3, <3>3
    <3>5. \E c \in holdings[w] : c.rank <= rv
      <4>1. CASE rv <= index
        <5>1. PICK d \in Read : d.rank = rv /\ Owner(d) = v
          BY <1>1, <2>1, <3>1, <3>2, <4>1, RanksRead
        <5> QED
          BY <1>1, <3>1, <5>1 DEF MergeInv
      <4>2. CASE ~(rv <= index)
        BY <2>1, <3>2, <3>3, <4>2
      <4> QED
        BY <4>1, <4>2
    <3> HIDE DEF rv, rw
    <3>6. rw <= rv
      BY <3>2, <3>3, <3>4, <3>5
    <3> QED
      BY <3>6 DEF rv, rw
  <2> QED
    BY <2>4, <2>5
<1> QED
  BY <1>1, FactsInit, FactsStep, ListsInit, ListsStep, AccountInit, AccountStep, MergeInit,
     MergeStep, PTL DEF Spec

-----------------------------------------------------------------------------
(* The ranking.                                                            *)

\* What the holdings of a wallet are worth at some number of decimals.
ValueAt(D) == [h \in [token : Tokens, rank : Ranks] |->
                 Number(Balance[h.token][h.rank]) * PowerOfTen(D - Decimals[h.token])]
Shown(D) == \A t \in Tokens : Decimals[t] <= D
ShownOf(w, D) == \A h \in holdings[w] : Decimals[h.token] <= D

LEMMA ReadParts ==
  ASSUME ListsInv, phase = "scan", NEW h \in Read
  PROVE  /\ h \in [token : Tokens, rank : Ranks]
         /\ Balance[h.token][h.rank] \in Seq(Digits) /\ Decimals[h.token] \in Nat
         /\ Number(Balance[h.token][h.rank]) \in Nat
<1>1. PICK r \in 1 .. index, t \in Tokens : h = [token |-> t, rank |-> r] /\ Len(lists[t]) >= r
  BY DEF Read, CandidatesAt
<1>2. lists[t] \in Seq(Entries) /\ Len(lists[t]) <= FetchLimit /\ FetchLimit \in Nat
  BY DiscoveryAssumption DEF ListsInv
<1>3. Len(lists[t]) \in Nat
  BY <1>2, LenProperties
<1>4. r \in Ranks
  BY <1>1, <1>2, <1>3 DEF Ranks
<1>5. Balance[t][r] \in Seq(Digits) /\ Decimals[t] \in Nat
  BY <1>4, DiscoveryAssumption
<1> QED
  BY <1>1, <1>4, <1>5, NumberType

\* A recipient has everything that was read of it.
LEMMA HoldsWhatWasRead ==
  ASSUME FactsInv, ListsInv, AccountInv, MergeInv, result = "ranking", NEW w \in Found
  PROVE  /\ phase = "scan" /\ w \in Wallets /\ holdings[w] # {}
         /\ holdings[w] = {c \in Read : Owner(c) = w} /\ IsFiniteSet(holdings[w])
<1>1. phase = "scan" /\ w \in Wallets /\ holdings[w] # {}
  BY DEF ListsInv, Found
<1>2. facts[w] = {}
  BY <1>1 DEF FactsInv
<1>3. holdings[w] = {c \in Read : Owner(c) = w}
  BY <1>1, <1>2 DEF MergeInv, AllMerged, AccountInv
<1>4. IsFiniteSet(Read)
  BY DEF AccountInv
<1> QED
  BY <1>1, <1>3, <1>4, FS_Subset

LEMMA AggregateIsSum ==
  ASSUME ListsInv, phase = "scan", NEW w, holdings[w] \subseteq Read, IsFiniteSet(holdings[w]),
         NEW D \in Nat, ShownOf(w, D)
  PROVE  /\ aggregate_scaled_amount(w, D) \in Seq(Digits)
         /\ Number(aggregate_scaled_amount(w, D)) = SumOf(ValueAt(D), holdings[w])
<1> DEFINE S == holdings[w]
           f == [h \in S |-> scaled_amount(h, D)]
           v == ValueAt(D)
           C(g) == g = [s \in SUBSET S |->
                          IF s = {} THEN <<0>>
                          ELSE add_decimal_strings(g[s \ {First(s)}], scaled_amount(First(s), D))]
<1>1. aggregate_scaled_amount(w, D) = (CHOOSE g : C(g))[S]
  BY DEF aggregate_scaled_amount, FoldSet, MapThenFoldSet, First
<1>2. \A g : C(g) <=> IsTextSum(g, f, S)
  <2>1. \A s \in SUBSET S : s # {} => f[First(s)] = scaled_amount(First(s), D)
    BY FirstIn
  <2> HIDE DEF S, f
  <2> QED
    BY <2>1 DEF IsTextSum
<1>3. aggregate_scaled_amount(w, D) = TextSum(f, S)
  <2> HIDE DEF S, f, C
  <2>1. (CHOOSE g : C(g)) = (CHOOSE g : IsTextSum(g, f, S))
    BY <1>2
  <2> QED
    BY <1>1, <2>1 DEF TextSum
<1>4. ASSUME NEW h \in S
      PROVE  scaled_amount(h, D) \in Seq(Digits) /\ v[h] = Number(scaled_amount(h, D))
  <2>1. /\ h \in [token : Tokens, rank : Ranks] /\ Balance[h.token][h.rank] \in Seq(Digits)
        /\ Decimals[h.token] \in Nat /\ Decimals[h.token] <= D
    BY ReadParts DEF ShownOf
  <2>2. D - Decimals[h.token] \in Nat
    BY <2>1
  <2>3. /\ scaled_amount(h, D) \in Seq(Digits)
        /\ Number(scaled_amount(h, D)) = Number(Balance[h.token][h.rank]) * PowerOfTen(D - Decimals[h.token])
    BY <2>1, <2>2, ScaledAmount DEF scaled_amount
  <2>4. v[h] = Number(Balance[h.token][h.rank]) * PowerOfTen(D - Decimals[h.token])
    BY <2>1 DEF ValueAt
  <2> QED
    BY <2>3, <2>4
<1>5. f \in [S -> Seq(Digits)] /\ \A h \in S : v[h] = Number(f[h])
  BY <1>4
<1> HIDE DEF f, v
<1>6. TextSum(f, S) \in Seq(Digits) /\ Number(TextSum(f, S)) = SumOf(v, S)
  BY <1>5, TextSums
<1> QED
  BY <1>3, <1>6 DEF v

\* At more decimals the same holdings are a larger number.
LEMMA BalanceIsAggregate ==
  ASSUME FactsInv, ListsInv, AccountInv, MergeInv, result = "ranking", NEW w \in Found,
         NEW D \in Nat, ShownOf(w, D), Widest \in Nat, D <= Widest
  PROVE  /\ aggregate_scaled_amount(w, D) \in Seq(Digits)
         /\ BalanceRead(w) = PowerOfTen(Widest - D) * Number(aggregate_scaled_amount(w, D))
<1> DEFINE S == {c \in Read : Owner(c) = w}
           k == PowerOfTen(Widest - D)
           wide == ValueAt(Widest)
           part == ValueAt(D)
<1>1. phase = "scan" /\ holdings[w] = S /\ IsFiniteSet(S) /\ S \subseteq Read
  BY HoldsWhatWasRead
<1>2. /\ aggregate_scaled_amount(w, D) \in Seq(Digits)
      /\ Number(aggregate_scaled_amount(w, D)) = SumOf(part, S)
  BY <1>1, AggregateIsSum
<1>3. Widest - D \in Nat /\ k \in Nat
  <2>1. Widest - D \in Nat
    OBVIOUS
  <2> QED
    BY <2>1, PowerType
<1>4. ASSUME NEW h \in S PROVE part[h] \in Nat /\ wide[h] = k * part[h]
  <2> DEFINE n == Number(Balance[h.token][h.rank])
             d == Decimals[h.token]
  <2>1. h \in [token : Tokens, rank : Ranks] /\ n \in Nat /\ d \in Nat /\ d <= D
    BY <1>1, ReadParts DEF ShownOf
  <2>2. wide[h] = n * PowerOfTen(Widest - d) /\ part[h] = n * PowerOfTen(D - d)
    BY <2>1 DEF ValueAt
  <2> HIDE DEF n, d, wide, part
  <2>3. D - d \in Nat /\ Widest - d = (Widest - D) + (D - d)
    BY <2>1
  <2> DEFINE m == PowerOfTen(D - d)
  <2>4. PowerOfTen(Widest - d) = k * m /\ m \in Nat
    BY <1>3, <2>3, PowerSum, PowerType
  <2> HIDE DEF m, k
  <2>5. n * m \in Nat /\ n * (k * m) = k * (n * m)
    BY <1>3, <2>1, <2>4
  <2> QED
    BY <2>2, <2>4, <2>5 DEF m
<1>5. SumOf(wide, S) = k * SumOf(part, S)
  <2>1. IsFiniteSet(S) /\ k \in Nat
    BY <1>1, <1>3
  <2>2. \A h \in S : part[h] \in Nat
    BY <1>4
  <2>3. \A h \in S : wide[h] = k * part[h]
    BY <1>4
  <2> HIDE DEF S, k, wide, part
  <2> QED
    BY ONLY <2>1, <2>2, <2>3, SumScaled
<1>6. BalanceRead(w) = SumOf(wide, S)
  <2> DEFINE value(c) == Number(Balance[c.token][c.rank]) * PowerOfTen(Widest - Decimals[c.token])
             C(g) == g = [s \in SUBSET S |-> IF s = {} THEN 0 ELSE value(First(s)) + g[s \ {First(s)}]]
  <2>1. BalanceRead(w) = (CHOOSE g : C(g))[S]
    BY DEF BalanceRead, MapThenSumSet, MapThenFoldSet, First
  <2>2. \A c \in S : wide[c] = value(c)
    BY <1>1, ReadParts DEF ValueAt
  <2> HIDE DEF S, wide, value
  <2>3. \A g : C(g) <=> IsSum(g, wide, S)
    <3>1. \A s \in SUBSET S : s # {} => wide[First(s)] = value(First(s))
      BY <2>2, FirstIn
    <3> QED
      BY <3>1, ZenonT(60) DEF IsSum
  <2> HIDE DEF C
  <2>4. C(CHOOSE g : C(g))
    BY <1>1, <2>3, FoldExists
  <2> QED
    BY <1>1, <2>1, <2>3, <2>4, SumIsFold
<1> QED
  BY <1>2, <1>5, <1>6

LEMMA Scales ==
  ASSUME FactsInv, ListsInv, AccountInv, MergeInv, result = "ranking",
         NEW v \in Found, NEW w \in Found
  PROVE  /\ scale(v, w) \in Nat /\ Widest \in Nat /\ scale(v, w) <= Widest
         /\ ShownOf(v, scale(v, w)) /\ ShownOf(w, scale(v, w)) /\ scale(v, w) = scale(w, v)
<1> DEFINE H == holdings[v] \cup holdings[w]
           S == {Decimals[h.token] : h \in H}
           T == {Decimals[t] : t \in Tokens}
<1>1. H \subseteq Read /\ H # {} /\ IsFiniteSet(H) /\ phase = "scan"
  <2>1. holdings[v] \subseteq Read /\ IsFiniteSet(holdings[v]) /\ holdings[v] # {} /\ phase = "scan"
    BY HoldsWhatWasRead
  <2>2. holdings[w] \subseteq Read /\ IsFiniteSet(holdings[w])
    BY HoldsWhatWasRead
  <2> QED
    BY <2>1, <2>2, FS_Union
<1>2. \A h \in H : h.token \in Tokens
  BY <1>1, ReadParts
<1>3. T \in SUBSET Nat /\ IsFiniteSet(T)
  <2>1. T = {Decimals[t] : t \in Tokens} /\ IsFiniteSet(Tokens)
    BY DiscoveryAssumption
  <2>2. IsFiniteSet(T)
    <3> DEFINE f == [t \in Tokens |-> Decimals[t]]
    <3>1. f \in Surjection(Tokens, T)
      BY DEF Surjection
    <3> QED
      BY <2>1, <3>1, FS_Surjection
  <2> QED
    BY <2>2, DiscoveryAssumption
<1>4. S \subseteq T /\ S # {}
  <2>1. S \subseteq T
    BY <1>2
  <2>2. PICK h \in H : TRUE
    BY <1>1
  <2>3. Decimals[h.token] \in S
    BY <2>2
  <2> QED
    BY <2>1, <2>3
<1>5. IsFiniteSet(S)
  BY <1>3, <1>4, FS_Subset
<1>6. scale(v, w) = Max(S) /\ Widest = Max(T) /\ scale(w, v) = Max(S)
  <2>1. holdings[w] \cup holdings[v] = H
    OBVIOUS
  <2> QED
    BY <2>1 DEF scale, Widest
<1>7. \A h \in holdings[v] \cup holdings[w] : Decimals[h.token] \in S
  OBVIOUS
<1> HIDE DEF S, T, H
<1>8. /\ Max(S) \in S /\ \A y \in S : y <= Max(S)
      /\ Max(T) \in T /\ \A y \in T : y <= Max(T)
  BY <1>3, <1>4, <1>5, GreatestOfFinite
<1> QED
  BY <1>3, <1>4, <1>6, <1>7, <1>8 DEF ShownOf

\* The comparison of the strings is the one of the balances.
LEMMA HoldsMoreIs ==
  ASSUME FactsInv, ListsInv, AccountInv, MergeInv, result = "ranking",
         NEW v \in Found, NEW w \in Found
  PROVE  /\ HoldsMore(v, w) <=> BalanceRead(v) > BalanceRead(w)
         /\ BalanceRead(v) \in Nat /\ BalanceRead(w) \in Nat
<1> DEFINE D == scale(v, w)
           k == PowerOfTen(Widest - D)
           x == aggregate_scaled_amount(v, D)
           y == aggregate_scaled_amount(w, D)
<1>1. D \in Nat /\ Widest \in Nat /\ D <= Widest /\ ShownOf(v, D) /\ ShownOf(w, D)
  BY Scales
<1>2. HoldsMore(v, w) <=> decimal_less(y, x)
  BY DEF HoldsMore
<1> HIDE DEF D
<1>3. x \in Seq(Digits) /\ BalanceRead(v) = k * Number(x)
  BY <1>1, BalanceIsAggregate
<1>4. y \in Seq(Digits) /\ BalanceRead(w) = k * Number(y)
  BY <1>1, BalanceIsAggregate
<1>5. k \in Nat /\ k >= 1
  <2>1. Widest - D \in Nat
    BY <1>1
  <2> QED
    BY <2>1, PowerType
<1> HIDE DEF k, x, y
<1>6. decimal_less(y, x) <=> Number(y) < Number(x)
  BY <1>3, <1>4, DecimalLess
<1>7. Number(x) \in Nat /\ Number(y) \in Nat
  BY <1>3, <1>4, NumberType
<1>8. \A a, b \in Nat : k * a \in Nat /\ (a < b <=> k * a < k * b)
  BY <1>5, TimesIsMonotone
<1>9. k * Number(x) \in Nat /\ k * Number(y) \in Nat /\ (Number(y) < Number(x) <=> k * Number(y) < k * Number(x))
  BY <1>7, <1>8
<1> QED
  BY <1>2, <1>3, <1>4, <1>6, <1>9

\* The comparison of strings of digits, at scales that differ from pair to
\* pair, is the order by rank, then by what was read of the balance, then by
\* address (compare_aggregate_balances_desc, discovery.rs:227), for all
\* decimals and lengths, those no u64 can hold among them.
THEOREM TiesAreByBalance == Spec => []TiesByBalance
<1>1. ASSUME FactsInv, ListsInv, AccountInv, MergeInv PROVE TiesByBalance
  <2> SUFFICES ASSUME result = "ranking", NEW v \in Found, NEW w \in Found,
                      v # w, best_rank(v) = best_rank(w)
               PROVE  compare_recipient_order(v, w) <=>
                        \/ BalanceRead(v) > BalanceRead(w)
                        \/ BalanceRead(v) = BalanceRead(w) /\ v < w
    BY DEF TiesByBalance
  <2>1. /\ HoldsMore(v, w) <=> BalanceRead(v) > BalanceRead(w)
        /\ BalanceRead(v) \in Nat /\ BalanceRead(w) \in Nat
    BY <1>1, HoldsMoreIs
  <2>2. HoldsMore(w, v) <=> BalanceRead(w) > BalanceRead(v)
    BY <1>1, HoldsMoreIs
  <2>3. best_rank(v) \in Int
    BY <1>1, RankOfHolding
  <2>4. ~(best_rank(v) < best_rank(w))
    BY <2>3
  <2>5. compare_recipient_order(v, w) <=> HoldsMore(v, w) \/ (~HoldsMore(w, v) /\ v < w)
    BY <2>4 DEF compare_recipient_order
  <2> QED
    BY <2>1, <2>2, <2>5
<1> QED
  BY <1>1, FactsInit, FactsStep, ListsInit, ListsStep, AccountInit, AccountStep, MergeInit,
     MergeStep, PTL DEF Spec

-----------------------------------------------------------------------------
(* As many recipients as the limit and the lists allow.                    *)

\* compare_recipient_order as a set of pairs.
Order == {p \in Wallets \X Wallets : compare_recipient_order(p[1], p[2])}

LEMMA OrderIs ==
  ASSUME FactsInv, ListsInv, AccountInv, MergeInv, result = "ranking",
         NEW v \in Found, NEW w \in Found
  PROVE  /\ <<v, w>> \in Order <=>
              \/ best_rank(v) < best_rank(w)
              \/ /\ best_rank(v) = best_rank(w)
                 /\ \/ BalanceRead(v) > BalanceRead(w)
                    \/ BalanceRead(v) = BalanceRead(w) /\ v < w
         /\ best_rank(v) \in Int /\ BalanceRead(v) \in Int /\ v \in Int
<1>1. v \in Wallets /\ w \in Wallets /\ v \in Int
  BY DEF Found, Wallets
<1>2. <<v, w>> \in Order <=> compare_recipient_order(v, w)
  BY <1>1 DEF Order
<1>3. best_rank(v) \in Int /\ best_rank(w) \in Int
  BY RankOfHolding
<1>4. /\ HoldsMore(v, w) <=> BalanceRead(v) > BalanceRead(w)
      /\ BalanceRead(v) \in Nat /\ BalanceRead(w) \in Nat
  BY HoldsMoreIs
<1>5. HoldsMore(w, v) <=> BalanceRead(w) > BalanceRead(v)
  BY HoldsMoreIs
<1>6. compare_recipient_order(v, w) <=>
        \/ best_rank(v) < best_rank(w)
        \/ best_rank(v) = best_rank(w) /\ (HoldsMore(v, w) \/ (~HoldsMore(w, v) /\ v < w))
  BY DEF compare_recipient_order
<1> QED
  BY <1>1, <1>2, <1>3, <1>4, <1>5, <1>6

\* sort_by gets a strict total order.
LEMMA RankingIsOrder ==
  ASSUME FactsInv, ListsInv, AccountInv, MergeInv, result = "ranking"
  PROVE  IsOrder(Order, Found)
<1> DEFINE a == [w \in Found |-> best_rank(w)]
           b == [w \in Found |-> BalanceRead(w)]
           Precedes(v, w) == \/ a[v] < a[w]
                             \/ a[v] = a[w] /\ (b[v] > b[w] \/ (b[v] = b[w] /\ v < w))
<1>1. \A v, w \in Found : <<v, w>> \in Order <=> Precedes(v, w)
  BY OrderIs
<1>2. \A v \in Found : a[v] \in Int /\ b[v] \in Int /\ v \in Int
  BY OrderIs
<1> HIDE DEF a, b
<1>3. \A v \in Found : ~Precedes(v, v)
  BY <1>2
<1>4. \A u, v, w \in Found : Precedes(u, v) /\ Precedes(v, w) => Precedes(u, w)
  BY <1>2
<1>5. \A v, w \in Found : v = w \/ Precedes(v, w) \/ Precedes(w, v)
  BY <1>2
<1> HIDE DEF Precedes
<1> QED
  BY <1>1, <1>3, <1>4, <1>5 DEF IsOrder

LEMMA WalletsFinite == IsFiniteSet(Wallets) /\ IsFiniteSet(Found) /\ IsFiniteSet(Eligible)
<1>1. IsFiniteSet(Wallets)
  BY FS_Interval, DiscoveryAssumption DEF Wallets
<1>2. Found \in SUBSET Wallets /\ Eligible \in SUBSET Wallets
  BY DEF Found, Eligible
<1> QED
  BY <1>1, <1>2, FS_Subset

\* The cut takes the limit, or all that there are.
LEMMA CutSize ==
  ASSUME FactsInv, ListsInv, AccountInv, MergeInv, result = "ranking"
  PROVE  Cardinality(Recipients) = IF Cardinality(Found) < max_recipients
                                     THEN Cardinality(Found) ELSE max_recipients
<1>1. IsOrder(Order, Found) /\ IsFiniteSet(Found) /\ max_recipients \in Nat
  BY RankingIsOrder, WalletsFinite DEF MergeInv
<1>2. \A w \in Found : Ahead(w) = Below(w, Order, Found)
  BY DEF Ahead, Below, Order, Found
<1>3. Recipients = {w \in Found : Cardinality(Below(w, Order, Found)) < max_recipients}
  BY <1>2 DEF Recipients
<1> DEFINE R == {w \in Found : Cardinality(Below(w, Order, Found)) < max_recipients}
<1>4. Cardinality(R) = IF Cardinality(Found) < max_recipients
                         THEN Cardinality(Found) ELSE max_recipients
  BY ONLY <1>1, FirstOfOrder
<1> QED
  BY ONLY <1>3, <1>4

\* Who is found is eligible, and once all lists are read, the other way round.
LEMMA FoundIsEligible ==
  ASSUME FactsInv, ListsInv, AccountInv, MergeInv, phase = "scan"
  PROVE  Found \subseteq Eligible
<1> SUFFICES ASSUME NEW w \in Found PROVE w \in Eligible
  OBVIOUS
<1>1. w \in Wallets /\ holdings[w] # {} /\ facts[w] = {}
  BY DEF Found, FactsInv
<1>2. PICK h \in holdings[w] : h \in Read /\ Owner(h) = w
  BY <1>1 DEF AccountInv
<1>3. h.rank \in RanksOf(w)
  BY <1>2, RanksRead DEF AccountInv
<1> QED
  BY <1>1, <1>3 DEF RanksOf, Eligible

LEMMA LongestList ==
  ASSUME ListsInv, phase = "scan"
  PROVE  max_rank \in Nat /\ \A t \in Tokens : Len(lists[t]) \in Nat /\ Len(lists[t]) <= max_rank
<1> DEFINE f == [t \in Tokens |-> Len(lists[t])]
           T == {f[t] : t \in Tokens}
           S == T \cup {0}
<1>1. \A t \in Tokens : f[t] \in Nat
  <2> SUFFICES ASSUME NEW t \in Tokens PROVE Len(lists[t]) \in Nat
    OBVIOUS
  <2>1. lists[t] \in Seq(Entries)
    BY DEF ListsInv
  <2> QED
    BY <2>1, LenProperties
<1>2. max_rank = Max(S)
  BY DEF max_rank
<1>3. IsFiniteSet(Tokens) /\ f \in Surjection(Tokens, T)
  BY DiscoveryAssumption DEF Surjection
<1>4. \A t \in Tokens : f[t] = Len(lists[t])
  OBVIOUS
<1> HIDE DEF f
<1>5. S \in SUBSET Nat /\ S # {}
  BY <1>1
<1>6. \A t \in Tokens : f[t] \in S
  OBVIOUS
<1> HIDE DEF T
<1>7. IsFiniteSet(T)
  BY <1>3, FS_Surjection
<1>8. IsFiniteSet(S)
  BY <1>7, FS_AddElement
<1> HIDE DEF S
<1>9. Max(S) \in S /\ \A y \in S : y <= Max(S)
  BY <1>5, <1>8, GreatestOfFinite
<1> QED
  BY <1>1, <1>2, <1>4, <1>5, <1>6, <1>9

LEMMA AllRead ==
  ASSUME FactsInv, ListsInv, AccountInv, MergeInv, phase = "scan", result # "report",
         index >= max_rank
  PROVE  Found = Eligible
<1>1. Found \subseteq Eligible
  BY FoundIsEligible
<1>2. ASSUME NEW w \in Eligible PROVE w \in Found
  <2>1. PICK t \in Tokens, r \in Ranks : r <= Len(lists[t]) /\ lists[t][r].owner = w
    BY DEF Eligible
  <2>2. w \in Wallets /\ facts[w] = {} /\ r \in RanksOf(w)
    BY <2>1 DEF Eligible, RanksOf
  <2>3. r <= index /\ index \in Nat
    <3>1. /\ max_rank \in Nat /\ Len(lists[t]) \in Nat /\ Len(lists[t]) <= max_rank /\ r \in Int
          /\ index \in Nat /\ r <= Len(lists[t])
      BY <2>1, LongestList DEF Ranks, AccountInv
    <3> QED
      BY <3>1
  <2>4. PICK d \in Read : Owner(d) = w
    BY <2>2, <2>3, RanksRead
  <2>5. d \in holdings[w]
    BY <2>2, <2>4 DEF MergeInv, AllMerged
  <2> QED
    BY <2>2, <2>5 DEF Found
<1> QED
  BY <1>1, <1>2

\* The scan does not end before there are recipients enough or no ranks left.
LimitInv ==
  /\ result = "ranking" => phase = "scan" /\ (Cardinality(Found) >= max_recipients \/ index >= max_rank)
  /\ result = "report" => phase = "scan"
  /\ LimitIsUsed

LEMMA MinOfTwo ==
  ASSUME NEW m \in Nat, NEW n \in Nat
  PROVE  Min({m, n}) = IF n < m THEN n ELSE m
<1>1. \A x \in {m, n} : (\A y \in {m, n} : x =< y) <=> x = IF n < m THEN n ELSE m
  OBVIOUS
<1>2. (IF n < m THEN n ELSE m) \in {m, n}
  OBVIOUS
<1> QED
  BY <1>1, <1>2 DEF Min

LEMMA RankLimits ==
  ASSUME FactsInv, ListsInv, AccountInv, MergeInv, LimitInv, phase' = phase, Rank
  PROVE  LimitInv'
<1>1. /\ holdings' = [w \in Wallets |-> IF w \in Recipients THEN holdings[w] ELSE {}]
      /\ result = "ranking" /\ result' = "report" /\ phase = "scan"
      /\ UNCHANGED <<max_recipients, lists, facts, index>>
  BY DEF Rank, given, LimitInv
<1>2. Found' = Recipients
  BY <1>1 DEF Found, Recipients
<1>3. Eligible' = Eligible
  BY <1>1 DEF Eligible
<1>4. /\ Cardinality(Found) \in Nat /\ Cardinality(Eligible) \in Nat /\ max_recipients \in Nat
      /\ Cardinality(Found) <= Cardinality(Eligible)
  <2>1. Found \in SUBSET Eligible /\ IsFiniteSet(Eligible)
    BY <1>1, FoundIsEligible, WalletsFinite
  <2>2. IsFiniteSet(Found) /\ Cardinality(Found) <= Cardinality(Eligible)
    BY <2>1, FS_Subset
  <2> QED
    BY <2>1, <2>2, FS_CardinalityType DEF MergeInv
<1>5. Cardinality(Recipients) = IF Cardinality(Found) < max_recipients
                                  THEN Cardinality(Found) ELSE max_recipients
  BY <1>1, CutSize
<1>6. Cardinality(Found) >= max_recipients \/ Found = Eligible
  <2>1. Cardinality(Found) >= max_recipients \/ index >= max_rank
    BY <1>1 DEF LimitInv
  <2> QED
    BY <1>1, <2>1, AllRead
<1>7. Min({max_recipients, Cardinality(Eligible)})
        = IF Cardinality(Eligible) < max_recipients THEN Cardinality(Eligible) ELSE max_recipients
  BY <1>4, MinOfTwo
<1> DEFINE e == Cardinality(Eligible)
           f == Cardinality(Found)
<1>8. (f >= max_recipients \/ f = e) /\ f <= e /\ f \in Nat /\ e \in Nat /\ max_recipients \in Nat
  BY <1>4, <1>6
<1>9. Cardinality(Recipients) = Min({max_recipients, e})
  <2> HIDE DEF e, f
  <2>1. (IF f < max_recipients THEN f ELSE max_recipients) = (IF e < max_recipients THEN e ELSE max_recipients)
    BY <1>8
  <2> QED
    BY <1>5, <1>7, <2>1 DEF e, f
<1> QED
  BY <1>1, <1>2, <1>3, <1>9 DEF LimitInv, LimitIsUsed

LEMMA LimitInit == Init => LimitInv
BY DEF Init, LimitInv, LimitIsUsed

LEMMA LimitStep ==
  ASSUME FactsInv, ListsInv, AccountInv, MergeInv, LimitInv, [Next]_vars
  PROVE  LimitInv'
<1> USE DEF scanVars, given
<1>1. CASE ValidateDistribution \/ Preload \/ ValidateTargets \/ NextList \/ ListFails \/ BeginScan
  <2>1. result' # "ranking" /\ result' # "report"
    BY <1>1 DEF ValidateDistribution, Preload, ValidateTargets, NextList, ListFails, BeginScan,
                Give_up, ListsInv
  <2> QED
    BY <2>1 DEF LimitInv, LimitIsUsed
<1>2. CASE ScanStep
  <2>1. phase = "scan" /\ phase' = phase
    BY <1>2 DEF ScanStep
  <2>2. CASE ReadRank
    <3> DEFINE candidates == CandidatesAt(index + 1)
               kept       == {c \in candidates : skip_reason(c) = "None"}
               merged     == [w \in Wallets |-> holdings[w] \cup {c \in kept : Owner(c) = w}]
               found      == {w \in Wallets : merged[w] # {}}
               skips      == skipped \cup {Skip(c, skip_reason(c)) : c \in candidates \ kept}
    <3>1. /\ holdings' = merged /\ index' = index + 1
          /\ result' = IF StopsEarly(found, skips) \/ index + 1 = max_rank THEN "ranking" ELSE "scanning"
          /\ UNCHANGED <<max_recipients, lists, facts>>
      BY <2>2 DEF ReadRank
    <3>2. Found' = found /\ max_rank' = max_rank
      <4> HIDE DEF merged
      <4> QED
        BY <3>1 DEF Found, max_rank
    <3> HIDE DEF found, skips, merged
    <3>3. result' # "report"
      BY <3>1
    <3>4. result' = "ranking" => Cardinality(found) >= max_recipients \/ index + 1 = max_rank
      BY <3>1 DEF StopsEarly
    <3>5. index + 1 = max_rank => index' >= max_rank'
      <4>1. index + 1 \in Nat
        BY DEF AccountInv
      <4> QED
        BY <3>1, <3>2, <4>1
    <3>6. result' = "ranking" => Cardinality(Found)' >= max_recipients' \/ index' >= max_rank'
      BY <3>1, <3>2, <3>4, <3>5
    <3> QED
      BY <2>1, <3>3, <3>6 DEF LimitInv, LimitIsUsed
  <2>3. CASE NoRanks
    <3>1. result' = "ranking" /\ max_rank = 0 /\ UNCHANGED <<lists, index>> /\ index \in Nat
      BY <2>3 DEF NoRanks, AccountInv
    <3>2. max_rank' = max_rank
      BY <3>1 DEF max_rank
    <3>3. index' >= max_rank'
      BY <3>1, <3>2
    <3> QED
      BY <2>1, <3>1, <3>3 DEF LimitInv, LimitIsUsed
  <2>4. CASE ReadFails
    BY <2>4 DEF ReadFails, LimitInv, LimitIsUsed
  <2>5. CASE Rank
    BY <2>1, <2>5, RankLimits
  <2> QED
    BY <1>2, <2>2, <2>3, <2>4, <2>5 DEF ScanStep, Scan
<1>3. CASE ReadList \/ ListChanges \/ Acquire \/ UNCHANGED vars
  <2>1. UNCHANGED <<max_recipients, lists, facts, index, holdings, phase, result>>
    BY <1>3 DEF ReadList, ListChanges, Acquire, vars
  <2>2. Found' = Found /\ Eligible' = Eligible /\ max_rank' = max_rank
    BY <2>1 DEF Found, Eligible, max_rank
  <2> QED
    BY <2>1, <2>2 DEF LimitInv, LimitIsUsed
<1> QED
  BY <1>1, <1>2, <1>3 DEF Next, Step

\* Stopping early costs nobody its place: the report has max_recipients
\* recipients, or all the eligible wallets of the lists in full if there are
\* fewer (discovery.rs:150).  The cut by counting who is ahead is exact because
\* compare_recipient_order is a strict total order.
THEOREM TheLimitIsUsed == Spec => []LimitIsUsed
<1>1. LimitInv => LimitIsUsed
  BY DEF LimitInv
<1> QED
  BY <1>1, FactsInit, FactsStep, ListsInit, ListsStep, AccountInit, AccountStep, MergeInit,
     MergeStep, LimitInit, LimitStep, PTL DEF Spec
=============================================================================
