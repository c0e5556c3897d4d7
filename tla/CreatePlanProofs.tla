-------------------------- MODULE CreatePlanProofs --------------------------
(***************************************************************************)
(* Proofs about Packing, for every number of recipients, every choice of   *)
(* the accounts to create and every value of the three limits, and about   *)
(* CreatePlan, for every size of the chunks and whatever the               *)
(* configuration, the environment and the node say.                        *)
(***************************************************************************)
EXTENDS CreatePlan, SequenceTheorems, DataProofs

-----------------------------------------------------------------------------
(* Numbers and their digits.                                               *)

\* f is the value of the first i digits of s, for every i.
IsValue(f, s, n) ==
  f = [i \in 0 .. n |-> IF i = 0 THEN 0 ELSE f[i - 1] * 10 + s[i]]

LEMMA ValueExists == ASSUME NEW s PROVE \A n \in Nat : \E f : IsValue(f, s, n)
<1> DEFINE T == {n \in Nat : \E f : IsValue(f, s, n)}
<1>1. 0 \in T
  <2> DEFINE f == [i \in 0 .. 0 |-> 0]
  <2>1. IsValue(f, s, 0)
    BY DEF IsValue
  <2> QED
    BY <2>1
<1>2. ASSUME NEW n \in Nat, n \in T PROVE n + 1 \in T
  <2>1. PICK f : IsValue(f, s, n)
    BY <1>2
  <2> DEFINE g == [i \in 0 .. n + 1 |-> IF i = n + 1 THEN f[n] * 10 + s[i] ELSE f[i]]
  <2>2. \A i \in 0 .. n + 1 : g[i] = IF i = 0 THEN 0 ELSE g[i - 1] * 10 + s[i]
    <3> SUFFICES ASSUME NEW i \in 0 .. n + 1
                 PROVE  g[i] = IF i = 0 THEN 0 ELSE g[i - 1] * 10 + s[i]
      OBVIOUS
    <3>1. CASE i = n + 1
      <4>1. i # 0 /\ i - 1 = n /\ n \in 0 .. n + 1 /\ n # n + 1
        BY <3>1
      <4> QED
        BY <3>1, <4>1
    <3>2. CASE i \in 0 .. n
      <4>1. f[i] = IF i = 0 THEN 0 ELSE f[i - 1] * 10 + s[i]
        BY <2>1, <3>2 DEF IsValue
      <4>2. g[i] = f[i] /\ (i # 0 => g[i - 1] = f[i - 1])
        BY <3>2
      <4> QED
        BY <4>1, <4>2
    <3> QED
      BY <3>1, <3>2
  <2>3. g = [i \in 0 .. n + 1 |-> g[i]]
    OBVIOUS
  <2> HIDE DEF g
  <2>4. IsValue(g, s, n + 1)
    BY <2>2, <2>3 DEF IsValue
  <2> QED
    BY <2>4
<1> HIDE DEF T
<1>3. Nat \subseteq T
  BY <1>1, <1>2, InductionOnNat
<1> QED
  BY <1>3 DEF T

\* Number, by the recursive equation it is defined with.
LEMMA NumberIsValue ==
  ASSUME NEW s, Len(s) \in Nat
  PROVE  \E f : IsValue(f, s, Len(s)) /\ Number(s) = f[Len(s)]
<1> DEFINE v == CHOOSE f : IsValue(f, s, Len(s))
<1>1. IsValue(v, s, Len(s))
  BY ValueExists
<1>2. Number(s) = v[Len(s)]
  BY DEF Number, IsValue
<1> QED
  BY <1>1, <1>2

\* A number is zero only if its digits are.
LEMMA NumberOfText ==
  ASSUME NEW s \in Seq(Nat)
  PROVE  /\ Number(s) \in Nat
         /\ (\E i \in 1 .. Len(s) : s[i] # 0) => Number(s) > 0
<1>1. PICK f : IsValue(f, s, Len(s)) /\ Number(s) = f[Len(s)]
  BY NumberIsValue
<1> DEFINE Good(n) == f[n] \in Nat /\ ((\E i \in 1 .. n : s[i] # 0) => f[n] > 0)
           T == {n \in Nat : n <= Len(s) => Good(n)}
<1>0. \A n \in 0 .. Len(s) : f[n] = IF n = 0 THEN 0 ELSE f[n - 1] * 10 + s[n]
  BY <1>1 DEF IsValue
<1>2. 0 \in T
  <2>1. f[0] = 0
    BY <1>0
  <2> QED
    BY <2>1
<1>3. ASSUME NEW n \in Nat, n \in T PROVE n + 1 \in T
  <2> SUFFICES ASSUME n + 1 <= Len(s) PROVE Good(n + 1)
    OBVIOUS
  <2>1. Good(n) /\ s[n + 1] \in Nat
    BY <1>3
  <2>2. f[n + 1] = f[n] * 10 + s[n + 1]
    BY <1>0
  <2>3. f[n + 1] \in Nat /\ f[n + 1] >= f[n] /\ f[n + 1] >= s[n + 1]
    BY <2>1, <2>2
  <2>4. ASSUME NEW i \in 1 .. n + 1, s[i] # 0 PROVE f[n + 1] > 0
    BY <2>1, <2>3, <2>4
  <2> QED
    BY <2>3, <2>4
<1> HIDE DEF T
<1>4. Nat \subseteq T
  BY <1>2, <1>3, InductionOnNat
<1> QED
  BY <1>1, <1>4 DEF T

-----------------------------------------------------------------------------
(* The parts of a text.                                                    *)

LEMMA ZerosType == ASSUME NEW n \in Int PROVE Zeros(n) \in Seq(Nat)
<1>1. CASE n \in Nat
  BY <1>1 DEF Zeros
<1>2. CASE n \notin Nat
  <2>1. 1 .. n = {} /\ 1 .. 0 = {}
    BY <1>2
  <2>2. Zeros(n) = [i \in 1 .. 0 |-> 0]
    BY <2>1 DEF Zeros
  <2> QED
    BY <2>2
<1> QED
  BY <1>1, <1>2

\* The zeros in front are all that is taken away.
LEMMA TrimmedText ==
  ASSUME NEW s \in Seq(Nat)
  PROVE  /\ trim_zeros(s) \in Seq(Nat)
         /\ (\E i \in 1 .. Len(s) : s[i] # 0) => \E i \in 1 .. Len(trim_zeros(s)) : trim_zeros(s)[i] # 0
<1> DEFINE others == {i \in DOMAIN s : s[i] # 0}
<1>1. CASE others = {}
  <2>1. trim_zeros(s) = <<0>>
    BY <1>1 DEF trim_zeros
  <2> QED
    BY <1>1, <2>1
<1>2. CASE others # {}
  <2>1. others \in SUBSET Nat
    OBVIOUS
  <2> DEFINE m == Min(others)
  <2>2. m \in others
    BY <1>2, <2>1, LeastOfNat
  <2>3. trim_zeros(s) = SubSeq(s, m, Len(s))
    BY <1>2 DEF trim_zeros
  <2>4. m \in 1 .. Len(s) /\ s[m] # 0
    BY <2>2
  <2> HIDE DEF others, m
  <2>5. /\ SubSeq(s, m, Len(s)) \in Seq(Nat)
        /\ Len(SubSeq(s, m, Len(s))) = Len(s) - m + 1
        /\ SubSeq(s, m, Len(s))[1] = s[m]
    BY <2>4, SubSeqProperties
  <2>6. 1 \in 1 .. Len(SubSeq(s, m, Len(s)))
    BY <2>4, <2>5
  <2> QED
    BY <2>3, <2>4, <2>5, <2>6
<1> QED
  BY <1>1, <1>2

LEMMA SplitAt ==
  ASSUME NEW text \in Seq(Nat)
  PROVE  /\ Whole(text) \in Seq(Nat) /\ Fractional(text) \in Seq(Nat)
         /\ Dots(text) = {} => Whole(text) = text /\ Fractional(text) = <<>>
         /\ Dots(text) # {} =>
              \E d \in Dots(text) :
                /\ Len(Whole(text)) = d - 1 /\ Len(Fractional(text)) = Len(text) - d
                /\ \A i \in 1 .. d - 1 : Whole(text)[i] = text[i]
                /\ \A i \in 1 .. Len(text) - d : Fractional(text)[i] = text[d + i]
<1>1. CASE Dots(text) = {}
  BY <1>1 DEF Whole, Fractional
<1>2. CASE Dots(text) # {}
  <2> DEFINE d == Min(Dots(text))
  <2>1. Dots(text) \in SUBSET Nat
    BY DEF Dots
  <2>2. d \in Dots(text) /\ Dots(text) \subseteq 1 .. Len(text)
    <3>1. Dots(text) \subseteq 1 .. Len(text)
      BY DEF Dots
    <3> QED
      BY <1>2, <2>1, <3>1, LeastOfNat
  <2>3. Whole(text) = SubSeq(text, 1, d - 1) /\ Fractional(text) = SubSeq(text, d + 1, Len(text))
    BY <1>2 DEF Whole, Fractional
  <2> HIDE DEF d
  <2>4. d \in 1 .. Len(text) /\ Len(text) \in Nat
    BY <2>2
  <2>5. /\ SubSeq(text, 1, d - 1) \in Seq(Nat) /\ Len(SubSeq(text, 1, d - 1)) = d - 1
        /\ \A i \in 1 .. d - 1 : SubSeq(text, 1, d - 1)[i] = text[i]
    BY <2>4, SubSeqProperties
  <2>6. /\ SubSeq(text, d + 1, Len(text)) \in Seq(Nat)
        /\ Len(SubSeq(text, d + 1, Len(text))) = Len(text) - d
        /\ \A i \in 1 .. Len(text) - d : SubSeq(text, d + 1, Len(text))[i] = text[d + i]
    BY <2>4, SubSeqProperties
  <2> QED
    BY <1>2, <2>2, <2>3, <2>5, <2>6
<1> QED
  BY <1>1, <1>2

\* The blanks that are taken away are before and after the rest.
LEMMA TrimIsPart ==
  ASSUME NEW text \in Seq(Nat)
  PROVE  trim(text) \in Seq(Nat)
<1> DEFINE others == {i \in DOMAIN text : text[i] # Blank}
<1>1. CASE others = {}
  BY <1>1 DEF trim
<1>2. CASE others # {}
  <2>1. others \in SUBSET Nat /\ \A i \in others : i \in 1 .. Len(text)
    OBVIOUS
  <2> DEFINE mirrored == {Len(text) - i : i \in others}
  <2>2. mirrored \in SUBSET Nat /\ mirrored # {}
    BY <1>2, <2>1
  <2> HIDE DEF mirrored
  <2>3. Min(mirrored) \in mirrored /\ \A y \in mirrored : Min(mirrored) <= y
    BY <2>2, LeastOfNat
  <2>4. PICK m \in others : Min(mirrored) = Len(text) - m
    BY <2>3 DEF mirrored
  <2>5. \A i \in others : m >= i
    <3> SUFFICES ASSUME NEW i \in others PROVE m >= i
      OBVIOUS
    <3>1. Len(text) - i \in mirrored
      BY DEF mirrored
    <3>2. Len(text) - m <= Len(text) - i
      BY <2>3, <2>4, <3>1
    <3> QED
      BY <2>1, <3>2
  <2>6. Max(others) \in others
    BY <2>5 DEF Max
  <2>7. Min(others) \in others
    BY <1>2, <2>1, LeastOfNat
  <2>8. trim(text) = SubSeq(text, Min(others), Max(others))
    BY <1>2 DEF trim
  <2>9. Min(others) \in 1 .. Len(text) /\ Max(others) \in 1 .. Len(text)
    BY <2>1, <2>6, <2>7
  <2> HIDE DEF others
  <2>10. \A i \in 1 .. Len(text) : text[i] \in Nat
    OBVIOUS
  <2> DEFINE first == Min(others)
             last  == Max(others)
  <2>11. first \in 1 .. Len(text) /\ last \in 1 .. Len(text)
    BY <2>9
  <2> HIDE DEF first, last
  <2>12. SubSeq(text, first, last) \in Seq(Nat)
    BY <2>11
  <2> QED
    BY <2>8, <2>12 DEF first, last
<1> QED
  BY <1>1, <1>2

\* What is converted is a u64, if anything is.
LEMMA RawType ==
  ASSUME NEW text \in Seq(Nat), NEW d \in Nat
  PROVE  /\ ui_amount_to_raw(text, d).error = "None" =>
              \E n \in 0 .. MaxRaw : ui_amount_to_raw(text, d) = Raw(n)
         /\ parse_u64_token_amount(text).error = "None" => Number(text) \in 0 .. MaxRaw
         /\ \A n : ui_amount_to_raw(text, d) = Raw(n) =>
              LET fractional == Fractional(text)
                  digits == Whole(text) \o fractional \o Zeros(d - Len(fractional))
              IN  /\ IsDigits(Whole(text)) /\ IsDigits(fractional) /\ Len(fractional) <= d
                  /\ n = Number(trim_zeros(digits))
<1> DEFINE s == Whole(text) \o Fractional(text) \o Zeros(d - Len(Fractional(text)))
<1>1. Whole(text) \in Seq(Nat) /\ Fractional(text) \in Seq(Nat)
  BY SplitAt
<1>2. Zeros(d - Len(Fractional(text))) \in Seq(Nat)
  BY <1>1, ZerosType
<1>3. s \in Seq(Nat)
  BY <1>1, <1>2
<1> HIDE DEF s
<1>4. Number(trim_zeros(s)) \in Nat /\ Number(text) \in Nat
  BY <1>3, TrimmedText, NumberOfText
<1> DEFINE n == Number(trim_zeros(s))
           read == /\ IsDigits(Whole(text)) /\ IsDigits(Fractional(text))
                   /\ ~(Len(Fractional(text)) > d) /\ ~(n > MaxRaw)
<1>5. \/ ui_amount_to_raw(text, d) = RawError("InvalidUiAmount")
      \/ ui_amount_to_raw(text, d) = RawError("TooManyFractionalDigits")
      \/ ui_amount_to_raw(text, d) = RawError("AmountExceedsSplTokenLimit")
      \/ ui_amount_to_raw(text, d) = Raw(n) /\ read
  BY DEF ui_amount_to_raw, s
<1>6. /\ \A m : Raw(m).error = "None" /\ Raw(m).raw = m
      /\ \A why : RawError(why).error = why
  BY DEF Raw, RawError
<1>7. ui_amount_to_raw(text, d).error = "None" => ui_amount_to_raw(text, d) = Raw(n) /\ read
  BY <1>5, <1>6
<1>8. n \in Nat /\ MaxRaw \in Nat /\ Len(Fractional(text)) \in Nat
  BY <1>1, <1>4, AmountsAssumption
<1>9. ui_amount_to_raw(text, d).error = "None" => \E m \in 0 .. MaxRaw : ui_amount_to_raw(text, d) = Raw(m)
  BY <1>7, <1>8
<1>10. parse_u64_token_amount(text).error = "None" => Number(text) \in 0 .. MaxRaw
  <2>1. \/ parse_u64_token_amount(text) = RawError("InvalidRawAmount")
        \/ ~(Number(text) > MaxRaw)
    BY DEF parse_u64_token_amount
  <2> QED
    BY <1>4, <1>6, <1>8, <2>1
<1>11. ASSUME NEW m, ui_amount_to_raw(text, d) = Raw(m)
       PROVE  read /\ m = n /\ Len(Fractional(text)) <= d
  <2>1. ui_amount_to_raw(text, d).error = "None"
    BY <1>6, <1>11
  <2>2. Raw(m) = Raw(n) /\ read
    BY <1>7, <1>11, <2>1
  <2>3. Raw(m).raw = m /\ Raw(n).raw = n
    BY ONLY <1>6
  <2> HIDE DEF n
  <2> QED
    BY <1>8, <2>2, <2>3
<1> QED
  BY <1>9, <1>10, <1>11 DEF s

-----------------------------------------------------------------------------
(* What validate_amount takes, ui_amount_to_raw can read.                  *)

LEMMA ValidIsReadable ==
  ASSUME NEW text \in Seq(Nat), text # <<>>, validate_amount(text)
  PROVE  /\ Whole(text) # <<>> /\ IsDigits(Whole(text)) /\ IsDigits(Fractional(text))
         /\ \/ \E i \in 1 .. Len(Whole(text)) : Whole(text)[i] # 0
            \/ \E i \in 1 .. Len(Fractional(text)) : Fractional(text)[i] # 0
<1>1. /\ Len(text) \in Nat \ {0} /\ DOMAIN text = 1 .. Len(text)
      /\ \A i \in 1 .. Len(text) : text[i] \in Digits \/ text[i] = Dot
      /\ \E i \in 1 .. Len(text) : text[i] \in Digits /\ text[i] # 0
      /\ text[1] # Dot
  BY DEF validate_amount
<1>2. /\ Whole(text) \in Seq(Nat) /\ DOMAIN Whole(text) = 1 .. Len(Whole(text))
      /\ Fractional(text) \in Seq(Nat) /\ DOMAIN Fractional(text) = 1 .. Len(Fractional(text))
  BY SplitAt
<1>3. CASE Dots(text) = {}
  <2>1. Whole(text) = text /\ Fractional(text) = <<>>
    BY <1>3, SplitAt
  <2>2. \A i \in 1 .. Len(text) : text[i] \in Digits
    BY <1>1, <1>3 DEF Dots
  <2> QED
    BY <1>1, <2>1, <2>2 DEF IsDigits
<1>4. CASE Dots(text) # {}
  <2>1. PICK d \in Dots(text) :
          /\ Len(Whole(text)) = d - 1 /\ Len(Fractional(text)) = Len(text) - d
          /\ \A i \in 1 .. d - 1 : Whole(text)[i] = text[i]
          /\ \A i \in 1 .. Len(text) - d : Fractional(text)[i] = text[d + i]
    BY <1>4, SplitAt
  <2>2. d \in 1 .. Len(text) /\ text[d] = Dot
    BY <1>1 DEF Dots
  <2>3. \A e \in Dots(text) : e = d
    <3>1. Dots(text) \subseteq 1 .. Len(text) /\ IsFiniteSet(1 .. Len(text))
      BY <1>1, FS_Interval DEF Dots
    <3>2. IsFiniteSet(Dots(text)) /\ Cardinality(Dots(text)) <= 1
      BY <3>1, FS_Subset DEF validate_amount
    <3> QED
      BY <3>2, AtMostOne
  <2>4. \A i \in 1 .. Len(text) : i # d => text[i] \in Digits
    BY <1>1, <2>3 DEF Dots
  <2>5. d > 1
    BY <1>1, <2>2
  <2>6. Whole(text) # <<>> /\ IsDigits(Whole(text))
    <3>1. \A i \in 1 .. d - 1 : Whole(text)[i] \in Digits
      BY <2>1, <2>2, <2>4
    <3>2. IsDigits(Whole(text))
      BY <1>2, <2>1, <3>1 DEF IsDigits
    <3>3. Len(Whole(text)) # 0
      BY <2>1, <2>2, <2>5
    <3> QED
      BY <3>2, <3>3
  <2>7. IsDigits(Fractional(text))
    <3>1. \A i \in 1 .. Len(text) - d : d + i \in 1 .. Len(text) /\ d + i # d
      BY <2>2
    <3>2. \A i \in 1 .. Len(text) - d : Fractional(text)[i] \in Digits
      BY <2>1, <2>4, <3>1
    <3> QED
      BY <1>2, <2>1, <3>2 DEF IsDigits
  <2>8. PICK i \in 1 .. Len(text) : text[i] \in Digits /\ text[i] # 0
    BY <1>1
  <2>9. i # d
    BY <2>2, <2>8 DEF Digits, Dot
  <2>10. CASE i < d
    BY <2>1, <2>2, <2>6, <2>7, <2>8, <2>10
  <2>11. CASE i > d
    <3>1. i - d \in 1 .. Len(text) - d /\ d + (i - d) = i
      BY <2>2, <2>8, <2>11
    <3> QED
      BY <2>1, <2>6, <2>7, <2>8, <3>1
  <2> QED
    BY <2>2, <2>8, <2>9, <2>10, <2>11
<1> QED
  BY <1>3, <1>4

LEMMA ValidIsPositive ==
  ASSUME NEW text \in Seq(Nat), text # <<>>, validate_amount(text), NEW d \in Nat
  PROVE  LET converted == ui_amount_to_raw(text, d)
         IN  /\ converted.error # "InvalidUiAmount"
             /\ converted.error = "None" => converted.raw > 0
<1> DEFINE w == Whole(text)
           f == Fractional(text)
           z == Zeros(d - Len(f))
           s == w \o f \o z
<1>1. /\ w # <<>> /\ IsDigits(w) /\ IsDigits(f)
      /\ (\E i \in 1 .. Len(w) : w[i] # 0) \/ (\E i \in 1 .. Len(f) : f[i] # 0)
  BY ValidIsReadable
<1>2. w \in Seq(Nat) /\ f \in Seq(Nat)
  BY SplitAt
<1> HIDE DEF w, f
<1>3. z \in Seq(Nat)
  BY <1>2, ZerosType
<1> HIDE DEF z
<1>4. s \in Seq(Nat) /\ \E i \in 1 .. Len(s) : s[i] # 0
  <2>1. /\ s \in Seq(Nat) /\ Len(s) = Len(w) + Len(f) + Len(z)
        /\ \A i \in 1 .. Len(w) : s[i] = w[i]
        /\ \A i \in 1 .. Len(f) : s[Len(w) + i] = f[i]
    <3> DEFINE wf == w \o f
    <3>1. /\ wf \in Seq(Nat) /\ Len(wf) = Len(w) + Len(f) /\ Len(w) \in Nat /\ Len(f) \in Nat
          /\ \A i \in 1 .. Len(w) : wf[i] = w[i]
          /\ \A i \in Len(w) + 1 .. Len(w) + Len(f) : wf[i] = f[i - Len(w)]
      BY <1>2, ConcatAt, LenProperties
    <3> HIDE DEF wf
    <3>2. /\ wf \o z \in Seq(Nat) /\ Len(wf \o z) = Len(wf) + Len(z)
          /\ \A i \in 1 .. Len(wf) : (wf \o z)[i] = wf[i]
      <4>1. wf \in Seq(Nat)
        BY <3>1
      <4> QED
        BY ONLY <1>3, <4>1, ConcatAt
    <3>3. s = wf \o z
      BY DEF wf
    <3> HIDE DEF s
    <3>4. \A i \in 1 .. Len(w) : i \in 1 .. Len(wf)
      BY <3>1
    <3>5. \A i \in 1 .. Len(f) : /\ Len(w) + i \in Len(w) + 1 .. Len(w) + Len(f)
                                 /\ Len(w) + i \in 1 .. Len(wf) /\ (Len(w) + i) - Len(w) = i
      BY <3>1
    <3> QED
      BY <3>1, <3>2, <3>3, <3>4, <3>5
  <2>2. Len(w) \in Nat /\ Len(f) \in Nat /\ Len(z) \in Nat
    BY <1>2, <1>3
  <2> HIDE DEF s
  <2>3. CASE \E i \in 1 .. Len(w) : w[i] # 0
    BY <2>1, <2>2, <2>3
  <2>4. ASSUME NEW i \in 1 .. Len(f), f[i] # 0 PROVE \E j \in 1 .. Len(s) : s[j] # 0
    <3>1. Len(w) + i \in 1 .. Len(s) /\ s[Len(w) + i] # 0
      BY <2>1, <2>2, <2>4, SMTT(30)
    <3> QED
      BY <3>1
  <2> QED
    BY <1>1, <2>1, <2>3, <2>4
<1> HIDE DEF s
<1>5. Number(trim_zeros(s)) > 0
  BY <1>4, TrimmedText, NumberOfText
<1>6. \/ ui_amount_to_raw(text, d) = RawError("TooManyFractionalDigits")
      \/ ui_amount_to_raw(text, d) = RawError("AmountExceedsSplTokenLimit")
      \/ ui_amount_to_raw(text, d) = Raw(Number(trim_zeros(s)))
  BY <1>1 DEF ui_amount_to_raw, s, w, f, z
<1> QED
  BY <1>5, <1>6 DEF Raw, RawError

-----------------------------------------------------------------------------
(* What is written and read again.                                         *)

LEMMA EachIsInjective ==
  ASSUME NEW f, NEW g, f = [i \in DOMAIN f |-> f[i]], g = [i \in DOMAIN g |-> g[i]],
         Each(to_string, f) = Each(to_string, g)
  PROVE  f = g
<1> DEFINE F == Each(to_string, f)
           G == Each(to_string, g)
<1>1. DOMAIN F = DOMAIN f /\ DOMAIN G = DOMAIN g
  BY DEF Each
<1>2. \A i \in DOMAIN f : F[i] = [base58 |-> f[i]]
  BY DEF Each, to_string
<1>3. \A i \in DOMAIN g : G[i] = [base58 |-> g[i]]
  BY DEF Each, to_string
<1>4. \A x, y : [base58 |-> x] = [base58 |-> y] => x = y
  OBVIOUS
<1> HIDE DEF F, G
<1>5. F = G
  BY DEF F, G
<1>6. \A i \in DOMAIN f : f[i] = g[i]
  BY <1>1, <1>2, <1>3, <1>4, <1>5
<1> QED
  BY <1>1, <1>5, <1>6

\* What Settings keeps of a configuration.
LEMMA SettingsParts ==
  ASSUME NEW file
  PROVE  LET c == Validated(file)
             q == Settings(c)
         IN  /\ q.cluster_name = c.cluster_name
             /\ q.distribution_token_address = c.distribution_token_address
             /\ q.total_amount_ui = c.total_amount_ui
             /\ q.target_token_addresses = c.target_token_addresses
             /\ q.max_recipients = c.max_recipients
             /\ q.manual_exclude_wallets = c.manual_exclude_wallets
             /\ q.solscan.enabled = c.solscan.enabled
             /\ q.solscan.holder_fetch_limit = c.solscan.holder_fetch_limit
             /\ q = [cluster_name |-> q.cluster_name, rpc_url_env |-> "",
                     distribution_token_address |-> q.distribution_token_address,
                     total_amount_ui |-> q.total_amount_ui,
                     target_token_addresses |-> q.target_token_addresses,
                     max_recipients |-> q.max_recipients,
                     manual_exclude_wallets |-> q.manual_exclude_wallets,
                     solscan |-> [enabled |-> q.solscan.enabled, api_key_env |-> "",
                                  holder_fetch_limit |-> q.solscan.holder_fetch_limit]]
<1> DEFINE c == Validated(file)
           q == Settings(c)
<1>1. /\ q.cluster_name = c.cluster_name
      /\ q.distribution_token_address = c.distribution_token_address
      /\ q.total_amount_ui = c.total_amount_ui
      /\ q.target_token_addresses = c.target_token_addresses
      /\ q.max_recipients = c.max_recipients
      /\ q.manual_exclude_wallets = c.manual_exclude_wallets
  BY DEF Settings, Validated
<1>2. /\ q.solscan.enabled = c.solscan.enabled
      /\ q.solscan.holder_fetch_limit = c.solscan.holder_fetch_limit
      /\ q.solscan.api_key_env = "" /\ q.rpc_url_env = ""
  BY DEF Settings, Validated
<1>3. q = [cluster_name |-> q.cluster_name, rpc_url_env |-> q.rpc_url_env,
           distribution_token_address |-> q.distribution_token_address,
           total_amount_ui |-> q.total_amount_ui,
           target_token_addresses |-> q.target_token_addresses,
           max_recipients |-> q.max_recipients,
           manual_exclude_wallets |-> q.manual_exclude_wallets,
           solscan |-> q.solscan]
  <2>1. /\ DOMAIN q = {"cluster_name", "rpc_url_env", "distribution_token_address",
                       "total_amount_ui", "target_token_addresses", "max_recipients",
                       "manual_exclude_wallets", "solscan"}
        /\ q = [x \in DOMAIN q |-> q[x]]
    BY DEF Settings, Validated
  <2> HIDE DEF q
  <2> QED
    BY <2>1
<1>4. q.solscan = [enabled |-> q.solscan.enabled, api_key_env |-> q.solscan.api_key_env,
                   holder_fetch_limit |-> q.solscan.holder_fetch_limit]
  BY DEF Settings, Validated
<1> HIDE DEF c, q
<1>5. q = [cluster_name |-> q.cluster_name, rpc_url_env |-> "",
           distribution_token_address |-> q.distribution_token_address,
           total_amount_ui |-> q.total_amount_ui,
           target_token_addresses |-> q.target_token_addresses,
           max_recipients |-> q.max_recipients,
           manual_exclude_wallets |-> q.manual_exclude_wallets,
           solscan |-> [enabled |-> q.solscan.enabled, api_key_env |-> "",
                        holder_fetch_limit |-> q.solscan.holder_fetch_limit]]
  BY <1>2, <1>3, <1>4, Zenon
<1> QED
  BY <1>1, <1>2, <1>5 DEF c, q

LEMMA SettingsAreWritten ==
  ASSUME NEW file, NEW another
  PROVE  LET c == Validated(file)
             d == Validated(another)
         IN  validate_matches(PlanConfigJson(c), d) <=> Settings(d) = Settings(c)
<1> DEFINE c == Validated(file)
           d == Validated(another)
           Same == /\ c.cluster_name = d.cluster_name
                   /\ c.distribution_token_address = d.distribution_token_address
                   /\ c.total_amount_ui = d.total_amount_ui
                   /\ c.target_token_addresses = d.target_token_addresses
                   /\ c.max_recipients = d.max_recipients
                   /\ c.manual_exclude_wallets = d.manual_exclude_wallets
                   /\ c.solscan.enabled = d.solscan.enabled
                   /\ c.solscan.holder_fetch_limit = d.solscan.holder_fetch_limit
<1>2. Settings(d) = Settings(c) <=> Same
  <2>1. Settings(d) = Settings(c) => Same
    BY SettingsParts
  <2>2. ASSUME Same PROVE Settings(d) = Settings(c)
    <3> DEFINE p == Settings(d)
               q == Settings(c)
    <3>1. /\ q.cluster_name = p.cluster_name
          /\ q.distribution_token_address = p.distribution_token_address
          /\ q.total_amount_ui = p.total_amount_ui
          /\ q.target_token_addresses = p.target_token_addresses
          /\ q.max_recipients = p.max_recipients
          /\ q.manual_exclude_wallets = p.manual_exclude_wallets
          /\ q.solscan.enabled = p.solscan.enabled
          /\ q.solscan.holder_fetch_limit = p.solscan.holder_fetch_limit
      BY <2>2, SettingsParts
    <3>2. /\ p = [cluster_name |-> p.cluster_name, rpc_url_env |-> "",
                  distribution_token_address |-> p.distribution_token_address,
                  total_amount_ui |-> p.total_amount_ui,
                  target_token_addresses |-> p.target_token_addresses,
                  max_recipients |-> p.max_recipients,
                  manual_exclude_wallets |-> p.manual_exclude_wallets,
                  solscan |-> [enabled |-> p.solscan.enabled, api_key_env |-> "",
                               holder_fetch_limit |-> p.solscan.holder_fetch_limit]]
          /\ q = [cluster_name |-> q.cluster_name, rpc_url_env |-> "",
                  distribution_token_address |-> q.distribution_token_address,
                  total_amount_ui |-> q.total_amount_ui,
                  target_token_addresses |-> q.target_token_addresses,
                  max_recipients |-> q.max_recipients,
                  manual_exclude_wallets |-> q.manual_exclude_wallets,
                  solscan |-> [enabled |-> q.solscan.enabled, api_key_env |-> "",
                               holder_fetch_limit |-> q.solscan.holder_fetch_limit]]
      BY SettingsParts
    <3> HIDE DEF p, q
    <3>3. p = q
      BY <3>1, <3>2, Zenon
    <3> QED
      BY <3>3 DEF p, q
  <2> QED
    BY <2>1, <2>2
<1>3. validate_matches(PlanConfigJson(c), d) <=> Same
  <2>1. /\ c.target_token_addresses = [i \in DOMAIN c.target_token_addresses |-> c.target_token_addresses[i]]
        /\ d.target_token_addresses = [i \in DOMAIN d.target_token_addresses |-> d.target_token_addresses[i]]
        /\ c.manual_exclude_wallets = [i \in DOMAIN c.manual_exclude_wallets |-> c.manual_exclude_wallets[i]]
        /\ d.manual_exclude_wallets = [i \in DOMAIN d.manual_exclude_wallets |-> d.manual_exclude_wallets[i]]
    BY DEF Validated, KeysOf
  <2> HIDE DEF c, d
  <2>2. /\ Each(to_string, c.target_token_addresses) = Each(to_string, d.target_token_addresses)
             <=> c.target_token_addresses = d.target_token_addresses
        /\ Each(to_string, c.manual_exclude_wallets) = Each(to_string, d.manual_exclude_wallets)
             <=> c.manual_exclude_wallets = d.manual_exclude_wallets
    BY <2>1, EachIsInjective
  <2>3. to_string(c.distribution_token_address) = to_string(d.distribution_token_address)
          <=> c.distribution_token_address = d.distribution_token_address
    BY DEF to_string
  <2>4. DOMAIN PlanConfigJson(d) =
          {"cluster_name", "distribution_token_address", "total_amount_ui",
           "target_token_addresses", "max_recipients", "manual_exclude_wallets",
           "solscan_enabled", "holder_fetch_limit"}
    BY DEF PlanConfigJson
  <2>5. \A e : /\ PlanConfigJson(e).cluster_name = e.cluster_name
               /\ PlanConfigJson(e).distribution_token_address = to_string(e.distribution_token_address)
               /\ PlanConfigJson(e).total_amount_ui = e.total_amount_ui
               /\ PlanConfigJson(e).target_token_addresses = Each(to_string, e.target_token_addresses)
               /\ PlanConfigJson(e).max_recipients = e.max_recipients
               /\ PlanConfigJson(e).manual_exclude_wallets = Each(to_string, e.manual_exclude_wallets)
               /\ PlanConfigJson(e).solscan_enabled = e.solscan.enabled
               /\ PlanConfigJson(e).holder_fetch_limit = e.solscan.holder_fetch_limit
    BY DEF PlanConfigJson
  <2>6. validate_matches(PlanConfigJson(c), d) <=>
          /\ PlanConfigJson(c).cluster_name = PlanConfigJson(d).cluster_name
          /\ PlanConfigJson(c).distribution_token_address = PlanConfigJson(d).distribution_token_address
          /\ PlanConfigJson(c).total_amount_ui = PlanConfigJson(d).total_amount_ui
          /\ PlanConfigJson(c).target_token_addresses = PlanConfigJson(d).target_token_addresses
          /\ PlanConfigJson(c).max_recipients = PlanConfigJson(d).max_recipients
          /\ PlanConfigJson(c).manual_exclude_wallets = PlanConfigJson(d).manual_exclude_wallets
          /\ PlanConfigJson(c).solscan_enabled = PlanConfigJson(d).solscan_enabled
          /\ PlanConfigJson(c).holder_fetch_limit = PlanConfigJson(d).holder_fetch_limit
    BY <2>4 DEF validate_matches
  <2> QED
    BY <2>2, <2>3, <2>5, <2>6, ZenonT(60)
<1> QED
  BY <1>2, <1>3

\* A value that is made of fields or entries is a function of them.
OfParts(f) == f = [x \in DOMAIN f |-> f[x]]

LEMMA SameParts ==
  ASSUME NEW f, NEW g, OfParts(f), OfParts(g), DOMAIN f = DOMAIN g,
         \A x \in DOMAIN f : f[x] = g[x]
  PROVE  f = g
BY DEF OfParts

LEMMA KeyReadsBack == \A key : parse_plan_pubkey(to_string(key)) = key
BY DEF parse_plan_pubkey, to_string

LEMMA HoldingReadsBack ==
  ASSUME NEW h, OfParts(h), {"target_token_address", "token_account"} \subseteq DOMAIN h
  PROVE  into_target_holding(HoldingJson(h)) = h
<1> DEFINE j == HoldingJson(h)
           q == into_target_holding(j)
<1>1. /\ OfParts(j) /\ DOMAIN j = DOMAIN h
      /\ j.target_token_address = to_string(h.target_token_address)
      /\ j.token_account = to_string(h.token_account)
      /\ \A x \in DOMAIN h \ {"target_token_address", "token_account"} : j[x] = h[x]
  BY DEF HoldingJson, OfParts
<1> HIDE DEF j
<1>2. /\ OfParts(q) /\ DOMAIN q = DOMAIN j
      /\ q.target_token_address = parse_plan_pubkey(j.target_token_address)
      /\ q.token_account = parse_plan_pubkey(j.token_account)
      /\ \A x \in DOMAIN j \ {"target_token_address", "token_account"} : q[x] = j[x]
  BY <1>1 DEF into_target_holding, OfParts
<1> HIDE DEF q
<1>3. \A x \in DOMAIN h : q[x] = h[x]
  BY <1>1, <1>2, KeyReadsBack
<1>4. q = h
  BY <1>1, <1>2, <1>3, SameParts
<1> QED
  BY <1>4 DEF q, j

LEMMA RecipientReadsBack ==
  ASSUME NEW r, OfParts(r), {"wallet", "recipient_ata", "holdings"} \subseteq DOMAIN r,
         OfParts(r.holdings),
         \A i \in DOMAIN r.holdings :
           /\ OfParts(r.holdings[i])
           /\ {"target_token_address", "token_account"} \subseteq DOMAIN r.holdings[i]
  PROVE  into_planned_recipient(RecipientJson(r)) = r
<1> DEFINE j == RecipientJson(r)
           q == into_planned_recipient(j)
<1>1. /\ OfParts(j) /\ DOMAIN j = DOMAIN r
      /\ j.wallet = to_string(r.wallet) /\ j.recipient_ata = to_string(r.recipient_ata)
      /\ j.holdings = Each(HoldingJson, r.holdings)
      /\ \A x \in DOMAIN r \ {"wallet", "recipient_ata", "holdings"} : j[x] = r[x]
  BY DEF RecipientJson, OfParts
<1> HIDE DEF j
<1>2. /\ OfParts(q) /\ DOMAIN q = DOMAIN j
      /\ q.wallet = parse_plan_pubkey(j.wallet)
      /\ q.recipient_ata = parse_plan_pubkey(j.recipient_ata)
      /\ q.holdings = Each(into_target_holding, j.holdings)
      /\ \A x \in DOMAIN j \ {"wallet", "recipient_ata", "holdings"} : q[x] = j[x]
  BY <1>1 DEF into_planned_recipient, OfParts
<1> HIDE DEF q
<1>3. Each(into_target_holding, Each(HoldingJson, r.holdings)) = r.holdings
  <2>1. \A i \in DOMAIN r.holdings : into_target_holding(HoldingJson(r.holdings[i])) = r.holdings[i]
    BY HoldingReadsBack
  <2> QED
    BY <2>1 DEF Each, OfParts
<1>4. \A x \in DOMAIN r : q[x] = r[x]
  BY <1>1, <1>2, <1>3, KeyReadsBack
<1>5. q = r
  BY <1>1, <1>2, <1>4, SameParts
<1> QED
  BY <1>5 DEF q, j

LEMMA ReasonReadsBack ==
  \A reason \in SkipReasons :
    DebugNames[reason] \in DOMAIN parse_skip_reason /\ parse_skip_reason[DebugNames[reason]] = reason
BY DEF SkipReasons, DebugNames, parse_skip_reason

LEMMA SkippedReadsBack ==
  ASSUME NEW s, OfParts(s),
         {"target_token_address", "token_account", "owner_wallet", "reason"} \subseteq DOMAIN s,
         s.reason \in SkipReasons
  PROVE  into_skipped_candidate(SkippedJson(s)) = s
<1> DEFINE j == SkippedJson(s)
           q == into_skipped_candidate(j)
           parsed == {"target_token_address", "token_account", "owner_wallet", "reason"}
<1>1. /\ OfParts(j) /\ DOMAIN j = DOMAIN s
      /\ j.target_token_address = to_string(s.target_token_address)
      /\ j.token_account = to_string(s.token_account)
      /\ j.owner_wallet = {to_string(key) : key \in s.owner_wallet}
      /\ j.reason = DebugNames[s.reason]
      /\ \A x \in DOMAIN s \ parsed : j[x] = s[x]
  BY DEF SkippedJson, OfParts
<1> HIDE DEF j
<1>2. /\ OfParts(q) /\ DOMAIN q = DOMAIN j
      /\ q.target_token_address = parse_plan_pubkey(j.target_token_address)
      /\ q.token_account = parse_plan_pubkey(j.token_account)
      /\ q.owner_wallet = {parse_plan_pubkey(text) : text \in j.owner_wallet}
      /\ q.reason = parse_skip_reason[j.reason]
      /\ \A x \in DOMAIN j \ parsed : q[x] = j[x]
  BY <1>1 DEF into_skipped_candidate, OfParts
<1> HIDE DEF q
<1>3. q.owner_wallet = s.owner_wallet
  BY <1>1, <1>2, KeyReadsBack
<1>4. q.reason = s.reason
  BY <1>1, <1>2, ReasonReadsBack
<1>5. \A x \in DOMAIN s : q[x] = s[x]
  BY <1>1, <1>2, <1>3, <1>4, KeyReadsBack
<1>6. q = s
  BY <1>1, <1>2, <1>5, SameParts
<1> QED
  BY <1>6 DEF q, j

LEMMA BatchReadsBack ==
  ASSUME NEW b, OfParts(b), "recipients" \in DOMAIN b, OfParts(b.recipients),
         \A i \in DOMAIN b.recipients :
           /\ OfParts(b.recipients[i])
           /\ {"wallet", "recipient_ata"} \subseteq DOMAIN b.recipients[i]
  PROVE  into_planned_batch(BatchJson(b)) = b
<1> DEFINE Back(r) == [r EXCEPT !.wallet = parse_plan_pubkey(@),
                                !.recipient_ata = parse_plan_pubkey(@)]
<1>1. ASSUME NEW i \in DOMAIN b.recipients
      PROVE  Back(BatchRecipientJson(b.recipients[i])) = b.recipients[i]
  <2> DEFINE r == b.recipients[i]
             j == BatchRecipientJson(r)
             q == Back(j)
  <2>0. OfParts(r) /\ {"wallet", "recipient_ata"} \subseteq DOMAIN r
    OBVIOUS
  <2> HIDE DEF r
  <2>1. /\ OfParts(j) /\ DOMAIN j = DOMAIN r
        /\ j.wallet = to_string(r.wallet) /\ j.recipient_ata = to_string(r.recipient_ata)
        /\ \A x \in DOMAIN r \ {"wallet", "recipient_ata"} : j[x] = r[x]
    BY <2>0 DEF BatchRecipientJson, OfParts
  <2> HIDE DEF j
  <2>2. /\ OfParts(q) /\ DOMAIN q = DOMAIN j
        /\ q.wallet = parse_plan_pubkey(j.wallet)
        /\ q.recipient_ata = parse_plan_pubkey(j.recipient_ata)
        /\ \A x \in DOMAIN j \ {"wallet", "recipient_ata"} : q[x] = j[x]
    BY <2>0, <2>1 DEF OfParts
  <2> HIDE DEF q
  <2>3. \A x \in DOMAIN r : q[x] = r[x]
    BY <2>0, <2>1, <2>2, KeyReadsBack
  <2>4. q = r
    BY <2>0, <2>1, <2>2, <2>3, SameParts
  <2> QED
    BY <2>4 DEF q, j, r
<1> DEFINE k == BatchJson(b)
           p == into_planned_batch(k)
<1>2. /\ OfParts(k) /\ DOMAIN k = DOMAIN b
      /\ k.recipients = Each(BatchRecipientJson, b.recipients)
      /\ \A x \in DOMAIN b \ {"recipients"} : k[x] = b[x]
  BY DEF BatchJson, OfParts
<1> HIDE DEF k
<1>3. /\ OfParts(p) /\ DOMAIN p = DOMAIN k
      /\ p.recipients = [i \in DOMAIN k.recipients |-> Back(k.recipients[i])]
      /\ \A x \in DOMAIN k \ {"recipients"} : p[x] = k[x]
  BY <1>2, ZenonT(60) DEF into_planned_batch, Each, OfParts
<1> HIDE DEF p
<1>4. p.recipients = b.recipients
  <2>1. /\ DOMAIN k.recipients = DOMAIN b.recipients
        /\ \A i \in DOMAIN b.recipients : k.recipients[i] = BatchRecipientJson(b.recipients[i])
    BY <1>2 DEF Each
  <2>2. \A i \in DOMAIN b.recipients : Back(k.recipients[i]) = b.recipients[i]
    BY <1>1, <2>1
  <2> HIDE DEF Back
  <2> QED
    BY <1>3, <2>1, <2>2 DEF OfParts
<1>5. \A x \in DOMAIN b : p[x] = b[x]
  BY <1>2, <1>3, <1>4
<1>6. p = b
  BY <1>2, <1>3, <1>5, SameParts
<1> QED
  BY <1>6 DEF p, k

-----------------------------------------------------------------------------
(* The packing.                                                            *)

USE PackingAssumption

\* What no step of the loop changes.
SamePlan == recipients' = recipients /\ limits' = limits
USE DEF SamePlan

-----------------------------------------------------------------------------
(* The limits are monotone: what is left of a batch that fits, fits.       *)

LEMMA Sizes == CreateSize = 10 /\ TransferSize = 17
BY DEF CreateSize, TransferSize, compiled_instruction_size, short_vec_size

LEMMA LimitsMonotone ==
  ASSUME NEW t \in Nat, NEW c \in Nat, NEW t1 \in Nat, NEW c1 \in Nat,
         t1 =< t, c1 =< c, limits \in Limits, WithinLimits(t, c)
  PROVE  WithinLimits(t1, c1)
<1>0. limits.size \in Nat /\ limits.locks \in Nat /\ limits.instructions \in Nat
  OBVIOUS
<1>1. account_locks(t1, c1) =< account_locks(t, c)
  BY DEF account_locks
<1>2. account_locks(t1, c1) \in Nat /\ account_locks(t, c) \in Nat
  BY DEF account_locks
<1>3. serialized_size(t1, c1) =< serialized_size(t, c)
  BY <1>1, <1>2, Sizes DEF serialized_size, short_vec_size
<1>4. serialized_size(t1, c1) \in Nat /\ serialized_size(t, c) \in Nat
  BY <1>2, Sizes DEF serialized_size, short_vec_size
<1>5. executed_instructions(t1, c1) =< executed_instructions(t, c)
  BY DEF executed_instructions
<1>6. executed_instructions(t1, c1) \in Nat /\ executed_instructions(t, c) \in Nat
  BY DEF executed_instructions
<1> QED
  BY <1>0, <1>1, <1>2, <1>3, <1>4, <1>5, <1>6 DEF WithinLimits

LEMMA PartFits ==
  ASSUME limits \in Limits, NEW whole, NEW part, IsFiniteSet(whole), part \subseteq whole,
         within_limits(whole)
  PROVE  within_limits(part)
<1> DEFINE creates(batch) == {i \in batch : recipients[i]}
<1>1. IsFiniteSet(part) /\ Cardinality(part) =< Cardinality(whole)
  BY FS_Subset
<1>2. IsFiniteSet(creates(whole)) /\ IsFiniteSet(creates(part))
  BY <1>1, FS_Subset
<1>3. Cardinality(creates(part)) =< Cardinality(creates(whole))
  BY <1>2, FS_Subset
<1>4. /\ Cardinality(part) \in Nat /\ Cardinality(whole) \in Nat
      /\ Cardinality(creates(part)) \in Nat /\ Cardinality(creates(whole)) \in Nat
  BY <1>1, <1>2, FS_CardinalityType
<1>5. /\ ata_creations(part) = Cardinality(creates(part))
      /\ ata_creations(whole) = Cardinality(creates(whole))
  BY DEF ata_creations
<1> HIDE DEF creates
<1> QED
  BY <1>1, <1>3, <1>4, <1>5, LimitsMonotone DEF within_limits

-----------------------------------------------------------------------------
(* Types.                                                                  *)

LEMMA TypeStep == TypeOK /\ [Next]_vars => TypeOK'
<1> SUFFICES ASSUME TypeOK, [Next]_vars PROVE TypeOK'
  OBVIOUS
<1> USE DEF TypeOK
<1>1. CASE Fits
  BY <1>1 DEF Fits, Candidate, Indexes
<1>2. CASE Opens
  BY <1>2 DEF Opens, Opened, Indexes
<1>3. CASE DoesNotFit
  BY <1>3 DEF DoesNotFit
<1>4. CASE Finish
  BY <1>4 DEF Finish, LastBatch
<1>5. CASE UNCHANGED vars
  BY <1>5 DEF vars
<1> QED
  BY <1>1, <1>2, <1>3, <1>4, <1>5 DEF Next

\* The packing keeps its types.
THEOREM TypeCorrect == Spec => []TypeOK
<1>1. Init => TypeOK
  BY DEF Init, TypeOK, Indexes
<1> QED
  BY <1>1, TypeStep, PTL DEF Spec

-----------------------------------------------------------------------------
(* Everyone is in one batch.                                               *)

\* A batch that is closed holds whom `current` held.
LEMMA Closing ==
  ASSUME TypeOK, TypeOK', EveryoneOnce,
         current # {}, batches' = Append(batches, current),
         \/ current' = {} /\ index' = index
         \/ current' = {index} /\ index \in Indexes /\ index' = index + 1,
         result' = "ok" => current' = {} /\ Packed' = Indexes
  PROVE  EveryoneOnce'
<1> USE DEF TypeOK
<1>0. \A i \in Packed : i < index
  BY DEF Packed
<1>1. DOMAIN batches' = DOMAIN batches \cup {Len(batches) + 1}
  OBVIOUS
<1>2. /\ \A k \in DOMAIN batches : batches'[k] = batches[k] /\ k < Len(batches) + 1
      /\ batches'[Len(batches) + 1] = current
      /\ Len(batches) + 1 \notin DOMAIN batches
  OBVIOUS
<1>3. UNION {batches'[k] : k \in DOMAIN batches'} = Packed
  BY <1>1, <1>2 DEF EveryoneOnce
<1>4. Packed' = Packed \cup current'
  <2>1. CASE current' = {} /\ index' = index
    BY <2>1 DEF Packed
  <2>2. CASE current' = {index} /\ index \in Indexes /\ index' = index + 1
    BY <2>2 DEF Packed, Indexes
  <2> QED
    BY <2>1, <2>2
<1>5. current' \cup UNION {batches'[k] : k \in DOMAIN batches'} = Packed'
  BY <1>3, <1>4
<1>6. \A k \in DOMAIN batches' : \A i \in batches'[k] : \A j \in current' : i < j
  BY <1>3, <1>0
<1>7. \A k, l \in DOMAIN batches' : k < l =>
        \A i \in batches'[k], j \in batches'[l] : i < j
  <2> SUFFICES ASSUME NEW k \in DOMAIN batches', NEW l \in DOMAIN batches', k < l,
                      NEW i \in batches'[k], NEW j \in batches'[l]
               PROVE  i < j
    OBVIOUS
  <2>1. k \in DOMAIN batches /\ i \in batches[k]
    BY <1>1, <1>2
  <2>2. CASE l \in DOMAIN batches
    BY <2>1, <2>2, <1>2 DEF EveryoneOnce
  <2>3. CASE l = Len(batches) + 1
    BY <2>1, <2>3, <1>2 DEF EveryoneOnce
  <2> QED
    BY <1>1, <2>2, <2>3
<1>8. \A k \in DOMAIN batches' : \A i \in batches'[k] :
        /\ \A j \in current' : i < j
        /\ \A l \in DOMAIN batches' : k < l => \A j \in batches'[l] : i < j
  BY <1>6, <1>7, Zenon
<1>9. result' = "ok" => current' = {} /\ Packed' = Indexes
  OBVIOUS
<1> QED
  BY <1>5, <1>8, <1>9, Zenon DEF EveryoneOnce, Indexes

\* While the loop runs there is no end to speak of; when it has ended in
\* Finish there is nothing left in `current`.
LEMMA EveryoneStep ==
  ASSUME TypeOK, TypeOK', EveryoneOnce, [Next]_vars PROVE EveryoneOnce'
<1> USE DEF TypeOK
<1>0. \A k \in DOMAIN batches : batches[k] \subseteq Packed
  BY DEF EveryoneOnce
<1>a. \A i \in Packed : i < index
  BY DEF Packed
<1>1. CASE Fits
  <2>1. Packed' = Packed \cup {index} /\ result' # "ok"
    BY <1>1 DEF Fits, Packed, Indexes
  <2>2. batches' = batches /\ current' = current \cup {index}
    BY <1>1 DEF Fits, Candidate
  <2>3. current' \cup UNION {batches'[k] : k \in DOMAIN batches'} = Packed'
    BY <2>1, <2>2 DEF EveryoneOnce
  <2>4. \A k \in DOMAIN batches : \A i \in batches[k] : \A j \in current' : i < j
    BY <2>2, <1>0, <1>a DEF EveryoneOnce
  <2>5. \A k \in DOMAIN batches : \A i \in batches[k] :
          \A l \in DOMAIN batches : k < l => \A j \in batches[l] : i < j
    BY DEF EveryoneOnce
  <2> QED
    BY <2>1, <2>2, <2>3, <2>4, <2>5 DEF EveryoneOnce
<1>3. CASE Opens
  BY <1>3, Closing DEF Opens, Opened
<1>4. CASE DoesNotFit
  BY <1>4 DEF DoesNotFit, EveryoneOnce, Packed
<1>5. CASE Finish
  <2>1. index = NumRecipients + 1 /\ Packed' = Indexes
    BY <1>5 DEF Finish, Packed, Indexes
  <2>2. CASE current # {}
    <3>1. batches' = Append(batches, current) /\ current' = {} /\ index' = index
      BY <1>5, <2>2 DEF Finish, LastBatch
    <3>2. result' = "ok" => current' = {} /\ Packed' = Indexes
      BY <2>1, <3>1, Zenon
    <3>3. batches' = Append(batches, current)
      BY <3>1
    <3>4. \/ current' = {} /\ index' = index
          \/ current' = {index} /\ index \in Indexes /\ index' = index + 1
      BY <3>1, Zenon
    <3> HIDE DEF TypeOK
    <3> QED
      BY <2>2, <3>2, <3>3, <3>4, Closing
  <2>3. CASE current = {}
    BY <1>5, <2>1, <2>3 DEF Finish, LastBatch, EveryoneOnce, Packed
  <2> QED
    BY <2>2, <2>3
<1>6. CASE UNCHANGED vars
  BY <1>6 DEF vars, EveryoneOnce, Packed
<1> QED
  BY <1>1, <1>3, <1>4, <1>5, <1>6 DEF Next

\* Nobody is left out of a plan's batches and nobody is in two of them.
THEOREM EveryoneIsPackedOnce == Spec => []EveryoneOnce
<1>1. Init => EveryoneOnce
  BY DEF Init, EveryoneOnce, Packed
<1> QED
  BY <1>1, EveryoneStep, TypeCorrect, PTL DEF Spec

-----------------------------------------------------------------------------
(* Every batch fits.                                                       *)

LEMMA FitStep == ASSUME TypeOK, TypeOK', BatchesFit, [Next]_vars PROVE BatchesFit'
<1> USE DEF TypeOK
<1>0. \A batch : SamePlan => (within_limits(batch))' = within_limits(batch)
  BY DEF within_limits, WithinLimits, ata_creations
<1>1. CASE Fits
  BY <1>1 DEF Fits, CandidateFits, Candidate, BatchesFit, within_limits, WithinLimits, ata_creations
<1>2. CASE Opens
  <2>1. within_limits({index}) /\ SamePlan /\ current' = {index}
    BY <1>2 DEF Opens, Opened, Alone
  <2>2. current # {} /\ batches' = Append(batches, current)
    BY <1>2 DEF Opens, Opened
  <2>3. \A k \in DOMAIN batches' : batches'[k] # {} /\ within_limits(batches'[k])
    BY <2>2 DEF BatchesFit
  <2> QED
    BY <2>1, <2>3 DEF BatchesFit, within_limits, WithinLimits, ata_creations
<1>3. CASE DoesNotFit
  BY <1>3 DEF DoesNotFit, BatchesFit, within_limits, WithinLimits, ata_creations
<1>4. CASE Finish
  <2>1. SamePlan /\ current' = {} /\ batches' = LastBatch
    BY <1>4 DEF Finish
  <2>2. \A k \in DOMAIN batches' : batches'[k] # {} /\ within_limits(batches'[k])
    BY <2>1 DEF LastBatch, BatchesFit
  <2> QED
    BY <2>1, <2>2 DEF BatchesFit, within_limits, WithinLimits, ata_creations
<1>5. CASE UNCHANGED vars
  BY <1>5 DEF vars, BatchesFit, within_limits, WithinLimits, ata_creations
<1> QED
  BY <1>1, <1>2, <1>3, <1>4, <1>5 DEF Next

\* Every batch of a plan fits a legacy transaction, whatever the limits are.
THEOREM EveryBatchFits == Spec => []BatchesFit
<1>1. Init => BatchesFit
  BY DEF Init, BatchesFit
<1> QED
  BY <1>1, FitStep, TypeCorrect, PTL DEF Spec

-----------------------------------------------------------------------------
(***************************************************************************)
(* The packing is the shortest.  `lo` is the first recipient of the batch  *)
(* that is being filled; no packing with as many batches as are closed has *)
(* got past lo - 1, and the greedy loop takes all that fits after it.      *)
(***************************************************************************)
Ahead(lo) ==
  /\ lo \in 1 .. index /\ (index > 1 => lo < index)
  /\ current = lo .. (index - 1)
  /\ \A m \in 0 .. Len(batches) : \A cuts \in Packings(m) : cuts[m] < lo

AheadInv == result = "packing" => \E lo \in Nat : Ahead(lo)

\* What a packing has done before its last batch is a packing.
LEMMA Prefix ==
  ASSUME NEW m \in Nat, NEW cuts \in Packings(m + 1)
  PROVE  [k \in 0 .. m |-> cuts[k]] \in Packings(m)
BY DEF Packings, IsPacking

\* A batch that starts no later than lo and fits does not reach past the
\* first recipient that did not fit.
LEMMA NoFurther ==
  ASSUME NEW lo \in Nat, NEW a \in Nat, NEW b \in Nat, index \in Nat,
         limits \in Limits, lo =< index, a < lo, within_limits(a + 1 .. b), ~within_limits(lo .. index)
  PROVE  b < index
<1> SUFFICES ASSUME b >= index PROVE FALSE
  OBVIOUS
<1>1. lo .. index \subseteq a + 1 .. b
  OBVIOUS
<1>2. IsFiniteSet(a + 1 .. b)
  BY FS_Interval
<1> QED
  BY <1>1, <1>2, PartFits

LEMMA AheadInit == Init => AheadInv
<1> SUFFICES ASSUME Init PROVE Ahead(1)
  BY DEF AheadInv
<1>1. \A cuts \in Packings(0) : cuts[0] = 0
  BY DEF Packings, IsPacking
<1>2. Len(batches) = 0 /\ index = 1 /\ current = {}
  BY DEF Init
<1>3. \A m \in 0 .. Len(batches) : m = 0
  BY <1>2
<1> QED
  BY <1>1, <1>2, <1>3 DEF Ahead

LEMMA PackingsKept == ASSUME SamePlan, NEW m PROVE Packings(m)' = Packings(m)
BY DEF Packings, IsPacking, within_limits, WithinLimits, ata_creations

LEMMA AheadStep == ASSUME TypeOK, AheadInv, [Next]_vars PROVE AheadInv'
<1> SUFFICES ASSUME result' = "packing" PROVE (\E lo \in Nat : Ahead(lo))'
  BY DEF AheadInv
<1> USE DEF TypeOK
<1>0. PICK lo \in Nat : Ahead(lo)
  BY DEF AheadInv, Next, Fits, Opens, Opened, DoesNotFit, Finish, vars
<1>1. CASE Fits
  <2>1. current' = lo .. (index' - 1) /\ lo \in 1 .. index' /\ lo < index'
    BY <1>0, <1>1 DEF Fits, Candidate, Ahead, Indexes
  <2>2. Len(batches') = Len(batches) /\ SamePlan
    BY <1>1 DEF Fits
  <2> QED
    BY <1>0, <2>1, <2>2, PackingsKept DEF Ahead
<1>2. CASE Opens
  <2>1. /\ index \in Nat /\ index' = index + 1 /\ current' = {index}
        /\ SamePlan /\ Len(batches') = Len(batches) + 1
    BY <1>2 DEF Opens, Opened, Indexes
  <2>2. lo < index /\ Candidate = lo .. index
    BY <1>0, <1>2 DEF Opens, Opened, Ahead, Candidate
  <2>3. ~within_limits(lo .. index)
    BY <1>2, <2>2 DEF Opens, Opened, CandidateFits
  <2>4. ASSUME NEW m \in 0 .. Len(batches) + 1, NEW cuts \in Packings(m)
        PROVE  cuts[m] < index
    <3>1. CASE m =< Len(batches)
      <4>1. cuts[m] < lo /\ cuts[m] \in Nat
        BY <1>0, <3>1 DEF Ahead, Packings
      <4> QED
        BY <4>1, <2>1, <2>2
    <3>2. CASE m = Len(batches) + 1
      <4> DEFINE L == Len(batches)
      <4>1. L \in Nat /\ cuts \in Packings(L + 1)
        BY <3>2
      <4> DEFINE prefix == [k \in 0 .. L |-> cuts[k]]
      <4>a. prefix \in Packings(L)
        BY <4>1, Prefix
      <4>b. prefix[L] = cuts[L] /\ L \in 0 .. Len(batches)
        BY <4>1
      <4> HIDE DEF prefix
      <4>2. cuts[L] < lo
        BY <1>0, <4>a, <4>b DEF Ahead
      <4>3. cuts[L] \in Nat /\ cuts[L + 1] \in Nat /\ within_limits(cuts[L] + 1 .. cuts[L + 1])
        BY <4>1 DEF Packings, IsPacking
      <4>4. limits \in Limits
        OBVIOUS
      <4>5. cuts[m] = cuts[L + 1] /\ L + 1 \in Nat
        BY <3>2
      <4> HIDE DEF L
      <4>6. cuts[L + 1] < index
        BY <2>1, <2>2, <2>3, <4>2, <4>3, <4>4, NoFurther
      <4> QED
        BY <4>5, <4>6
    <3> QED
      BY <3>1, <3>2
  <2>5. ASSUME NEW next \in Nat, next = index PROVE Ahead(next)'
    <3>1. \A m \in 0 .. Len(batches') : \A cuts \in Packings(m)' : cuts[m] < next
      BY <2>1, <2>4, <2>5, PackingsKept
    <3>2. next \in 1 .. index' /\ next < index' /\ current' = next .. (index' - 1)
      BY <2>1, <2>5
    <3> QED
      BY <3>1, <3>2 DEF Ahead
  <2> QED
    BY <2>1, <2>5
<1>3. CASE DoesNotFit
  BY <1>3 DEF DoesNotFit
<1>4. CASE Finish
  BY <1>4 DEF Finish
<1>5. CASE UNCHANGED vars
  BY <1>0, <1>5, PackingsKept DEF vars, Ahead
<1> QED
  BY <1>1, <1>2, <1>3, <1>4, <1>5 DEF Next

LEMMA FewestStep ==
  ASSUME TypeOK, AheadInv, Fewest, [Next]_vars PROVE Fewest'
<1> USE DEF TypeOK
<1>1. CASE Finish
  <2>1. PICK lo \in Nat : Ahead(lo)
    BY <1>1 DEF Finish, AheadInv
  <2>2. index = NumRecipients + 1 /\ SamePlan /\ batches' = LastBatch
    BY <1>1 DEF Finish, Indexes
  <2>3. \A m \in 0 .. Len(batches') - 1 : m \in 0 .. Len(batches)
    BY <2>2 DEF LastBatch
  <2>4. lo =< NumRecipients
    BY <2>1, <2>2 DEF Ahead
  <2>5. \A m \in 0 .. Len(batches') - 1 : \A cuts \in Packings(m) : cuts[m] < NumRecipients
    <3> SUFFICES ASSUME NEW m \in 0 .. Len(batches') - 1, NEW cuts \in Packings(m)
                 PROVE  cuts[m] < NumRecipients
      OBVIOUS
    <3>1. m \in 0 .. Len(batches)
      BY <2>3
    <3>2. cuts[m] < lo
      BY <2>1, <3>1 DEF Ahead
    <3>3. cuts[m] \in Nat
      BY <3>1 DEF Packings
    <3> QED
      BY <2>4, <3>2, <3>3
  <2> QED
    BY <2>2, <2>5, PackingsKept DEF Fewest
<1>2. CASE Fits \/ Opens \/ DoesNotFit
  BY <1>2 DEF Fits, Opens, Opened, DoesNotFit, Fewest
<1>3. CASE UNCHANGED vars
  BY <1>3, PackingsKept DEF vars, Fewest
<1> QED
  BY <1>1, <1>2, <1>3 DEF Next

\* No packing of the recipients in their order needs fewer transactions than
\* the plan has, for every plan and all limits.
THEOREM PackingIsShortest == Spec => []Fewest
<1>1. Init => Fewest
  BY DEF Init, Fewest
<1> QED
  BY <1>1, AheadInit, AheadStep, FewestStep, TypeCorrect, PTL DEF Spec

-----------------------------------------------------------------------------
(* A refusal.                                                              *)

\* The recipient at which the loop gave up does not even fit by itself.
TooLarge == result = "does_not_fit" => index \in Indexes /\ ~within_limits({index})

LEMMA TooLargeStep == TypeOK /\ TooLarge /\ [Next]_vars => TooLarge'
<1> SUFFICES ASSUME TypeOK, TooLarge, [Next]_vars PROVE TooLarge'
  OBVIOUS
<1> USE DEF TooLarge
<1>1. CASE Fits
  BY <1>1 DEF Fits
<1>2. CASE Opens
  BY <1>2 DEF Opens, Opened
<1>3. CASE DoesNotFit
  <2>1. ~within_limits({index})
    BY <1>3 DEF DoesNotFit, CandidateFits, Candidate, Alone
  <2>2. SamePlan /\ index' = index /\ index \in Indexes
    BY <1>3 DEF DoesNotFit
  <2>3. within_limits({index})' <=> within_limits({index})
    BY <2>2 DEF within_limits, WithinLimits, ata_creations
  <2> QED
    BY <2>1, <2>2, <2>3
<1>4. CASE Finish
  BY <1>4 DEF Finish
<1>5. CASE UNCHANGED vars
  <2>1. within_limits({index})' <=> within_limits({index})
    BY <1>5 DEF vars, within_limits, WithinLimits, ata_creations
  <2> QED
    BY <1>5, <2>1 DEF vars
<1> QED
  BY <1>1, <1>2, <1>3, <1>4, <1>5 DEF Next

LEMMA TooLargeRefused == TypeOK /\ TooLarge => RefusedIsTooLarge
<1> SUFFICES ASSUME limits \in Limits, TooLarge, result = "does_not_fit",
                    NEW batch \in SUBSET Indexes, index \in batch,
                    within_limits(batch)
             PROVE  FALSE
  BY DEF RefusedIsTooLarge, TypeOK
<1>1. IsFiniteSet(Indexes)
  BY FS_Interval DEF Indexes
<1>2. IsFiniteSet(batch)
  BY <1>1, FS_Subset
<1>3. within_limits({index})
  BY <1>2, PartFits
<1> QED
  BY <1>3 DEF TooLarge

\* pack_recipients returns RecipientDoesNotFit only for a recipient that fits
\* no transaction, alone or together with others.
THEOREM RefusalIsJustified == Spec => []RefusedIsTooLarge
<1>1. Init => TooLarge
  BY DEF Init, TooLarge
<1> QED
  BY <1>1, TooLargeRefused, TypeCorrect, TooLargeStep, PTL DEF Spec

-----------------------------------------------------------------------------
(* What is paid.                                                           *)

LEMMA Division ==
  ASSUME NEW a \in Nat, NEW n \in Nat \ {0}
  PROVE  /\ a \div n \in Nat /\ a % n \in Nat /\ a % n < n
         /\ (a \div n) * n + (a % n) = a
         /\ a >= n => a \div n > 0
<1>1. a \div n \in Nat /\ a % n \in Nat /\ a % n < n
  OBVIOUS
<1>2. (n * (a \div n)) + (a % n) = a
  OBVIOUS
<1>3. n * (a \div n) = (a \div n) * n
  BY <1>1
<1>4. a >= n => a \div n > 0
  OBVIOUS
<1> QED
  BY <1>1, <1>2, <1>3, <1>4

\* There are as many transfers as recipients.
LEMMA OneTransferEach ==
  ASSUME TypeOK, EveryoneOnce, result = "ok"
  PROVE  LET transfers(k) == Cardinality(batches[k])
         IN  MapThenSumSet(transfers, DOMAIN batches) = NumRecipients
<1> DEFINE transfers(k) == Cardinality(batches[k])
           S == DOMAIN batches
           f == [k \in S |-> Cardinality(batches[k])]
           C(g) == g = [s \in SUBSET S |->
                          IF s = {} THEN 0 ELSE transfers(First(s)) + g[s \ {First(s)}]]
<1>1. MapThenSumSet(transfers, S) = (CHOOSE g : C(g))[S]
  BY DEF MapThenSumSet, MapThenFoldSet, First
<1>2. \A g : C(g) <=> IsSum(g, f, S)
  <2>1. \A s \in SUBSET S : s # {} => f[First(s)] = transfers(First(s))
    BY FirstIn
  <2> HIDE DEF S, f
  <2> QED
    BY <2>1 DEF IsSum
<1>3. S = 1 .. Len(batches) /\ IsFiniteSet(S)
  BY FS_Interval DEF TypeOK
<1>4. \A k \in S : batches[k] \subseteq Indexes /\ IsFiniteSet(batches[k])
  <2>1. IsFiniteSet(Indexes)
    BY FS_Interval, PackingAssumption DEF Indexes
  <2>2. \A k \in S : batches[k] \subseteq Indexes
    BY DEF TypeOK
  <2> QED
    BY <2>1, <2>2, FS_Subset
<1>5. \A k, l \in S : k # l => batches[k] \cap batches[l] = {}
  <2> SUFFICES ASSUME NEW k \in S, NEW l \in S, k # l, NEW i \in batches[k] \cap batches[l]
               PROVE  FALSE
    OBVIOUS
  <2>1. k < l \/ l < k
    BY <1>3
  <2>2. ~(i < i)
    BY <1>4, PackingAssumption DEF Indexes
  <2> QED
    BY <2>1, <2>2 DEF EveryoneOnce
<1>6. UnionOf(batches, S) = Indexes
  BY DEF EveryoneOnce, UnionOf
<1>7. Cardinality(Indexes) = NumRecipients
  BY FS_Interval, PackingAssumption DEF Indexes
<1> HIDE DEF C
<1>8. C(CHOOSE g : C(g))
  <2> HIDE DEF f, S
  <2> QED
    BY <1>2, <1>3, FoldExists
<1>9. MapThenSumSet(transfers, S) = SumOf(f, S)
  <2> HIDE DEF f, S
  <2> QED
    BY <1>1, <1>2, <1>3, <1>8, SumIsFold
<1>10. SumOf(f, S) = Cardinality(UnionOf(batches, S))
  <2>1. \A k \in S : f[k] = Cardinality(batches[k])
    OBVIOUS
  <2> HIDE DEF f, S
  <2> QED
    BY <1>3, <1>4, <1>5, <2>1, SumOfSizes
<1> QED
  BY <1>6, <1>7, <1>9, <1>10

-----------------------------------------------------------------------------
(***************************************************************************)
(* The plan around the packing: the accounts that it creates are those     *)
(* that are missing, and what is proved of the packing is so of its        *)
(* batches.                                                                *)
(***************************************************************************)

HIDE DEF SamePlan
USE DEF At, EndWith, packVars, readVars, simVars

-----------------------------------------------------------------------------
(* The packing, as a step of prepare_run.                                  *)

\* Nothing is packed until all accounts are known.
Fresh == phase \in {"load", "discover", "amount", "source", "accounts"} => Init

\* The steps before the packing and after it do not touch what is packed.
LEMMA PlanStep ==
  ASSUME [PlanNext]_planVars, ~PlanRecipients
  PROVE  /\ [Next]_vars
         /\ phase' \in {"load", "discover", "amount", "source", "accounts"} =>
              /\ phase \in {"load", "discover", "amount", "source", "accounts"}
              /\ UNCHANGED vars
         /\ Pack \/ UNCHANGED vars
<1>1. CASE Load \/ Discover \/ ConvertAmount \/ ReadSource
  BY <1>1 DEF Load, Discover, ConvertAmount, ReadSource, vars
<1>2. CASE ReadChunk
  BY <1>2 DEF ReadChunk, vars
<1>3. CASE Pack
  BY <1>3 DEF Pack
<1>4. CASE ReadRent \/ WriteArtifacts \/ ReadBlockhash
  BY <1>4 DEF ReadRent, WriteArtifacts, ReadBlockhash, vars
<1>5. CASE SimulateBatch \/ WriteSimulation \/ RequestFails
  BY <1>5 DEF SimulateBatch, WriteSimulation, RequestFails, vars
<1>6. CASE UNCHANGED planVars
  BY <1>6 DEF planVars, vars
<1> QED
  BY <1>1, <1>2, <1>3, <1>4, <1>5, <1>6 DEF PlanNext

LEMMA FreshInit == PlanInit => Fresh
BY DEF PlanInit, Fresh, Init

\* The recipients are given to the packing once, before it begins.
LEMMA RecipientsGiven ==
  ASSUME Fresh, PlanRecipients
  PROVE  UNCHANGED <<vars, phase, exists>> \/ (Init' /\ phase' = "pack")
<1>1. Init
  BY DEF PlanRecipients, Fresh
<1>2. CASE UNCHANGED <<packVars, phase, readVars>>
  BY <1>2 DEF vars
<1>3. CASE /\ recipients' = [i \in Indexes |-> answers[i] = {}] /\ phase' = "pack"
           /\ UNCHANGED <<limits, index, current, batches, result>>
  BY <1>1, <1>3 DEF Init
<1> QED
  BY <1>2, <1>3 DEF PlanRecipients

LEMMA FreshStep == ASSUME Fresh, [PlanNext]_planVars PROVE Fresh'
<1>1. CASE PlanRecipients
  BY <1>1, RecipientsGiven DEF Fresh, Init, vars
<1>2. CASE ~PlanRecipients
  BY <1>2, PlanStep DEF Fresh, Init, vars
<1> QED
  BY <1>1, <1>2

PackingInv == TypeOK /\ EveryoneOnce /\ BatchesFit /\ AheadInv /\ Fewest /\ TooLarge

LEMMA PackingInit == Init => PackingInv
<1>1. Init => TypeOK
  BY DEF Init, TypeOK, Indexes
<1>2. Init => EveryoneOnce
  BY DEF Init, EveryoneOnce, Packed
<1>3. Init => BatchesFit /\ Fewest /\ TooLarge
  BY DEF Init, BatchesFit, Fewest, TooLarge
<1> QED
  BY <1>1, <1>2, <1>3, AheadInit DEF PackingInv

LEMMA PackingStep == ASSUME PackingInv, [Next]_vars PROVE PackingInv'
<1> USE DEF PackingInv
<1>1. TypeOK'
  BY TypeStep
<1>2. EveryoneOnce' /\ BatchesFit'
  BY <1>1, EveryoneStep, FitStep
<1>3. AheadInv' /\ Fewest'
  BY AheadStep, FewestStep
<1>4. TooLarge'
  BY TooLargeStep
<1> QED
  BY <1>1, <1>2, <1>3, <1>4

LEMMA PackingInvariant == PlanSpec => [](Fresh /\ PackingInv)
<1>1. PlanInit => Fresh /\ PackingInv
  <2>1. PlanInit => Init
    BY DEF PlanInit, Init
  <2> QED
    BY <2>1, FreshInit, PackingInit
<1>2. Fresh /\ PackingInv /\ [PlanNext]_planVars => Fresh' /\ PackingInv'
  <2> SUFFICES ASSUME Fresh, PackingInv, [PlanNext]_planVars PROVE Fresh' /\ PackingInv'
    OBVIOUS
  <2>1. CASE PlanRecipients
    <3>1. [Next]_vars \/ Init'
      BY <2>1, RecipientsGiven DEF vars
    <3>2. (Init => PackingInv)'
      BY PackingInit, PTL
    <3> QED
      BY <3>1, <3>2, FreshStep, PackingStep
  <2>2. CASE ~PlanRecipients
    BY <2>2, PlanStep, FreshStep, PackingStep
  <2> QED
    BY <2>1, <2>2
<1> QED
  BY <1>1, <1>2, PTL DEF PlanSpec

\* What pack_recipients promises holds of the batches of every plan that
\* create_distribution_plan (planning.rs:40) makes: everyone is in one batch,
\* every batch fits a transaction, no packing has fewer, and a refused
\* recipient fits none.
THEOREM PlansArePacked ==
  PlanSpec => [](EveryoneOnce /\ BatchesFit /\ Fewest /\ RefusedIsTooLarge)
<1>1. PackingInv => EveryoneOnce /\ BatchesFit /\ Fewest /\ RefusedIsTooLarge
  BY TooLargeRefused DEF PackingInv
<1> QED
  BY <1>1, PackingInvariant, PTL

-----------------------------------------------------------------------------
(* The accounts that are missing.                                          *)

\* The recipients that are asked for are the next ones, and there are some.
LEMMA ChunkIsNext ==
  ASSUME asked \in Nat, asked < NumRecipients
  PROVE  \E n \in Nat \ {0} : /\ Chunk = asked + 1 .. asked + n
                              /\ asked + n <= NumRecipients
                              /\ Cardinality(Chunk) = n
<1> DEFINE S == {asked + AccountsLimit, NumRecipients}
<1>0. AccountsLimit \in Nat \ {0}
  BY CreatePlanAssumption
<1>1. \E m \in S : \A k \in S : m =< k
  BY <1>0
<1>2. Min(S) \in S /\ \A k \in S : Min(S) =< k
  BY <1>1 DEF Min
<1>3. Min(S) \in Nat /\ asked < Min(S) /\ Min(S) =< NumRecipients
  BY <1>0, <1>2
<1> HIDE DEF S
<1>4. PICK n \in Nat \ {0} : Min(S) = asked + n
  <2>1. Min(S) - asked \in Nat \ {0} /\ Min(S) = asked + (Min(S) - asked)
    BY <1>3
  <2> QED
    BY <2>1
<1>5. Chunk = asked + 1 .. asked + n
  BY <1>4 DEF Chunk, S
<1>6. Cardinality(asked + 1 .. asked + n) = n
  BY FS_Interval
<1> QED
  BY <1>3, <1>4, <1>5, <1>6

\* An answer of the right length has an account exactly where there is one:
\* the answers that lack an entry, or have one too many, are of another length.
LEMMA AnswerShows ==
  ASSUME asked \in Nat, NEW n \in Nat \ {0}, Cardinality(Chunk) = n,
         NEW there, NEW answer \in Answered(there), RightLength(answer)
  PROVE  /\ \E S : answer \in Seq(S)
         /\ Len(answer) = n
         /\ \A j \in 1 .. n : answer[j] = {} <=> asked + j \notin there
<1> DEFINE right == Answer(there)
           S == {right[j] : j \in 1 .. n}
<1>1. /\ right \in Seq(S) /\ Len(right) = n /\ DOMAIN right = 1 .. n
      /\ \A j \in 1 .. n : right[j] = {} <=> asked + j \notin there
  <2>1. right = [j \in 1 .. n |-> IF asked + j \in there
                                    THEN {TokenAccount(Wallet(asked + j), <<0>>, decimals)}
                                    ELSE {}]
    BY DEF Answer
  <2>2. DOMAIN right = 1 .. n /\ \A j \in 1 .. n : right[j] = {} <=> asked + j \notin there
    BY <2>1
  <2>3. right = [j \in 1 .. n |-> right[j]]
    BY <2>1
  <2> HIDE DEF right
  <2>4. right \in [1 .. n -> S]
    BY <2>3
  <2> HIDE DEF S
  <2>5. right \in Seq(S) /\ Len(right) = n
    BY <2>2, <2>4, LenProperties, IsASeq
  <2> QED
    BY <2>2, <2>5
<1>2. Len(answer) = n
  BY DEF RightLength
<1> HIDE DEF right
<1>3. CASE answer = right
  BY <1>1, <1>3
<1>4. ASSUME NEW j \in 1 .. n, right[j] # {}, NEW other, answer = [right EXCEPT ![j] = {other}]
      PROVE  /\ \E T : answer \in Seq(T)
             /\ \A k \in 1 .. n : answer[k] = {} <=> right[k] = {}
  <2>1. answer \in Seq(S \cup {{other}})
    BY <1>1, <1>4
  <2> QED
    BY <1>1, <1>4, <2>1
<1>5. ASSUME NEW j \in 1 .. n
      PROVE  /\ SubSeq(right, 1, j - 1) \in Seq(S) /\ Len(SubSeq(right, 1, j - 1)) = j - 1
             /\ SubSeq(right, j + 1, n) \in Seq(S) /\ Len(SubSeq(right, j + 1, n)) = n - j
             /\ SubSeq(right, 1, j) \in Seq(S) /\ Len(SubSeq(right, 1, j)) = j
  <2>1. \A i \in 1 .. n : right[i] \in S
    OBVIOUS
  <2> HIDE DEF S
  <2> QED
    BY <2>1, SubSeqProperties
<1>6. ASSUME NEW j \in 1 .. n, answer = SubSeq(right, 1, j - 1) \o SubSeq(right, j + 1, n)
      PROVE  FALSE
  <2>1. Len(answer) = (j - 1) + (n - j)
    BY <1>5, <1>6, ConcatProperties
  <2> QED
    BY <1>2, <2>1
<1>7. ASSUME NEW j \in 1 .. n, answer = SubSeq(right, 1, j) \o <<{}>> \o SubSeq(right, j + 1, n)
      PROVE  FALSE
  <2> DEFINE T == S \cup {{}}
             front == SubSeq(right, 1, j) \o <<{}>>
  <2>1. /\ SubSeq(right, 1, j) \in Seq(T) /\ SubSeq(right, j + 1, n) \in Seq(T)
        /\ <<{}>> \in Seq(T) /\ Len(<<{}>>) = 1
    BY <1>5
  <2> HIDE DEF T
  <2>2. front \in Seq(T) /\ Len(front) = j + 1
    BY <1>5, <2>1, ConcatProperties
  <2>3. Len(front \o SubSeq(right, j + 1, n)) = (j + 1) + (n - j)
    BY <1>5, <2>1, <2>2, ConcatProperties
  <2> QED
    BY <1>2, <1>7, <2>3
<1>8. \/ answer = right
      \/ \E j \in 1 .. n : right[j] # {} /\ \E other : answer = [right EXCEPT ![j] = {other}]
      \/ \E j \in 1 .. n : answer = SubSeq(right, 1, j - 1) \o SubSeq(right, j + 1, n)
      \/ \E j \in 1 .. n : answer = SubSeq(right, 1, j) \o <<{}>> \o SubSeq(right, j + 1, n)
  <2> DEFINE Replaced(j) == {[right EXCEPT ![j] = {other}] : other \in UNION {Others(a) : a \in right[j]}}
             Short(j) == SubSeq(right, 1, j - 1) \o SubSeq(right, j + 1, Len(right))
             Long(j)  == SubSeq(right, 1, j) \o <<{}>> \o SubSeq(right, j + 1, Len(right))
  <2>1. answer \in {right} \cup (UNION {Replaced(j) : j \in DOMAIN right})
                   \cup {Short(j) : j \in DOMAIN right} \cup {Long(j) : j \in DOMAIN right}
    BY DEF Answered, right
  <2>2. \A j : answer \in Replaced(j) =>
                 right[j] # {} /\ \E other : answer = [right EXCEPT ![j] = {other}]
    OBVIOUS
  <2>3. Len(right) = n /\ DOMAIN right = 1 .. n
    BY <1>1
  <2> HIDE DEF Replaced, Short, Long
  <2>4. \/ answer = right
        \/ \E j \in 1 .. n : answer \in Replaced(j) \/ answer = Short(j) \/ answer = Long(j)
    BY <2>1, <2>3
  <2> QED
    BY <2>2, <2>3, <2>4, Zenon DEF Short, Long
<1> QED
  BY <1>1, <1>2, <1>3, <1>4, <1>6, <1>7, <1>8

\* The n-th account that has been answered is that of the n-th recipient.
AnswersInv ==
  /\ asked \in Nat /\ asked <= NumRecipients
  /\ \E S : answers \in Seq(S)
  /\ Len(answers) = asked
  /\ exists \subseteq 1 .. asked
  /\ \A i \in 1 .. asked : answers[i] = {} <=> i \notin exists

LEMMA AnswersInit == PlanInit => AnswersInv
<1> SUFFICES ASSUME PlanInit PROVE AnswersInv
  OBVIOUS
<1>1. <<>> \in Seq({}) /\ Len(<<>>) = 0
  OBVIOUS
<1> QED
  BY <1>1 DEF PlanInit, AnswersInv

LEMMA ChunkKeepsAnswers ==
  ASSUME AnswersInv, ReadChunk
  PROVE  AnswersInv'
<1> USE DEF AnswersInv
<1>1. PICK n \in Nat \ {0} : /\ Chunk = asked + 1 .. asked + n
                             /\ asked + n <= NumRecipients
                             /\ Cardinality(Chunk) = n
  BY ChunkIsNext DEF ReadChunk
<1>2. CASE UNCHANGED readVars
  BY <1>2
<1>3. ASSUME NEW there \in SUBSET Chunk, NEW answer \in Answered(there), RightLength(answer),
             asked' = asked + Cardinality(Chunk), answers' = answers \o answer,
             exists' = exists \cup there
      PROVE  AnswersInv'
  <2>1. /\ \E S : answer \in Seq(S)
        /\ Len(answer) = n
        /\ \A j \in 1 .. n : answer[j] = {} <=> asked + j \notin there
    BY <1>1, <1>3, AnswerShows
  <2>2. PICK S, T : answers \in Seq(S) /\ answer \in Seq(T)
    BY <2>1
  <2>3. /\ answers' \in Seq(S \cup T) /\ Len(answers') = asked + n
        /\ \A i \in 1 .. asked + n :
             answers'[i] = IF i <= asked THEN answers[i] ELSE answer[i - asked]
    <3>1. answers \in Seq(S \cup T) /\ answer \in Seq(S \cup T)
      BY <2>2
    <3> DEFINE U == S \cup T
    <3>2. answers \in Seq(U) /\ answer \in Seq(U)
      BY <3>1
    <3> HIDE DEF U
    <3>3. /\ answers \o answer \in Seq(U) /\ Len(answers \o answer) = Len(answers) + Len(answer)
          /\ \A i \in 1 .. Len(answers) + Len(answer) :
               (answers \o answer)[i] =
                 IF i <= Len(answers) THEN answers[i] ELSE answer[i - Len(answers)]
      BY <3>2, ConcatProperties
    <3> QED
      BY <1>3, <2>1, <3>3 DEF U
  <2>4. asked' = asked + n /\ there \subseteq asked + 1 .. asked + n
    BY <1>1, <1>3
  <2>5. \A i \in 1 .. asked' : answers'[i] = {} <=> i \notin exists'
    <3> SUFFICES ASSUME NEW i \in 1 .. asked'
                 PROVE  answers'[i] = {} <=> i \notin exists'
      OBVIOUS
    <3>1. CASE i <= asked
      <4>1. i \in 1 .. asked /\ i \notin there
        BY <2>4, <3>1
      <4> QED
        BY <1>3, <2>3, <2>4, <3>1, <4>1
    <3>2. CASE i > asked
      <4>1. i \notin exists /\ i - asked \in 1 .. n /\ asked + (i - asked) = i
        BY <2>4, <3>2
      <4> QED
        BY <1>3, <2>1, <2>3, <2>4, <3>2, <4>1
    <3> QED
      BY <2>4, <3>1, <3>2
  <2>6. exists' \subseteq 1 .. asked' /\ asked' \in Nat /\ asked' <= NumRecipients
    BY <1>1, <1>3, <2>4
  <2>7. \E U : answers' \in Seq(U)
    BY <2>3
  <2> QED
    BY <2>3, <2>4, <2>5, <2>6, <2>7
<1> QED
  BY <1>2, <1>3 DEF ReadChunk

LEMMA AnswersStep == ASSUME AnswersInv, [PlanNext]_planVars PROVE AnswersInv'
<1>1. CASE ReadChunk
  BY <1>1, ChunkKeepsAnswers
<1>2. CASE UNCHANGED <<asked, answers, exists>>
  BY <1>2 DEF AnswersInv
<1>3. CASE Load \/ Discover \/ ConvertAmount \/ ReadSource \/ PlanRecipients
  BY <1>2, <1>3 DEF Load, Discover, ConvertAmount, ReadSource, PlanRecipients
<1>4. CASE Pack \/ ReadRent \/ WriteArtifacts \/ ReadBlockhash
  BY <1>2, <1>4 DEF Pack, ReadRent, WriteArtifacts, ReadBlockhash
<1>5. CASE SimulateBatch \/ WriteSimulation \/ RequestFails \/ UNCHANGED planVars
  BY <1>2, <1>5 DEF SimulateBatch, WriteSimulation, RequestFails, planVars
<1> QED
  BY <1>1, <1>3, <1>4, <1>5 DEF PlanNext

LEMMA CreatesStep ==
  ASSUME AnswersInv, CreatesWhatIsMissing, [PlanNext]_planVars PROVE CreatesWhatIsMissing'
<1> USE DEF CreatesWhatIsMissing
<1>1. CASE PlanRecipients
  <2>1. CASE UNCHANGED <<phase, recipients, exists>>
    BY <2>1
  <2>2. CASE /\ recipients' = [i \in Indexes |-> answers[i] = {}]
             /\ asked = NumRecipients /\ UNCHANGED exists
    BY <2>2 DEF AnswersInv, Indexes
  <2> QED
    BY <1>1, <2>1, <2>2 DEF PlanRecipients
<1>2. CASE Load \/ Discover \/ ConvertAmount \/ ReadSource
  BY <1>2 DEF Load, Discover, ConvertAmount, ReadSource
<1>3. CASE ReadChunk
  BY <1>3 DEF ReadChunk
<1>4. CASE Pack
  BY <1>4 DEF Pack, Next, Fits, Opens, DoesNotFit, Finish
<1>5. CASE ReadRent \/ WriteArtifacts \/ ReadBlockhash
  BY <1>5 DEF ReadRent, WriteArtifacts, ReadBlockhash
<1>6. CASE SimulateBatch \/ WriteSimulation \/ RequestFails \/ UNCHANGED planVars
  BY <1>6 DEF SimulateBatch, WriteSimulation, RequestFails, planVars
<1> QED
  BY <1>1, <1>2, <1>3, <1>4, <1>5, <1>6 DEF PlanNext

\* The accounts a plan creates are those of the recipients who have none, over
\* all the chunks that get_multiple_accounts asks for (rpc.rs:181): an answer
\* that is short or long, or has another account in it, makes no plan.
THEOREM MissingAreCreated == PlanSpec => []CreatesWhatIsMissing
<1>1. PlanInit => CreatesWhatIsMissing
  BY DEF PlanInit, CreatesWhatIsMissing
<1> QED
  BY <1>1, AnswersInit, AnswersStep, CreatesStep, PTL DEF PlanSpec


-----------------------------------------------------------------------------
(* What is paid, of what there is.                                         *)

\* The phases there are.
Phases == {"load", "discover", "amount", "source", "accounts", "pack", "rent",
           "write", "blockhash", "simulate"}

PhaseOK == phase \in Phases

LEMMA PhaseStep == ASSUME PhaseOK, [PlanNext]_planVars PROVE PhaseOK'
<1> USE DEF PhaseOK, Phases
<1>1. CASE Load \/ Discover \/ ConvertAmount \/ ReadSource
  BY <1>1 DEF Load, Discover, ConvertAmount, ReadSource
<1>2. CASE ReadChunk \/ PlanRecipients
  BY <1>2 DEF ReadChunk, PlanRecipients
<1>3. CASE Pack \/ ReadRent \/ WriteArtifacts \/ ReadBlockhash
  BY <1>3 DEF Pack, ReadRent, WriteArtifacts, ReadBlockhash
<1>4. CASE SimulateBatch \/ WriteSimulation \/ RequestFails \/ UNCHANGED planVars
  BY <1>4 DEF SimulateBatch, WriteSimulation, RequestFails, planVars
<1> QED
  BY <1>1, <1>2, <1>3, <1>4 DEF PlanNext

\* The amounts are checked before anything is made of them.
Converted  == {"source", "accounts", "pack", "rent", "write", "blockhash", "simulate"}
SourceRead == Converted \ {"source"}

ConfigInv ==
  /\ config = {} \/ \E file \in Files : validate(file) /\ config = {Validated(file)}
  /\ phase # "load" => config # {}
  /\ decimals \in Nat

AmountInv ==
  /\ total \in 0 .. MaxRaw /\ balance \in 0 .. MaxRaw
  /\ phase \in Converted =>
       /\ total >= NumRecipients
       /\ ui_amount_to_raw(Config.total_amount_ui, decimals) = Raw(total)
  /\ phase \notin Converted => total = 0
  /\ phase \in SourceRead => total <= balance

\* The configuration of a run is one that was accepted.
LEMMA ConfigIsValidated ==
  ASSUME ConfigInv, phase # "load"
  PROVE  \E file \in Files : validate(file) /\ Config = Validated(file)
BY DEF ConfigInv, Config

LEMMA TotalIsText ==
  ASSUME ConfigInv, phase # "load"
  PROVE  Config.total_amount_ui \in Seq(Nat) /\ decimals \in Nat
<1>1. PICK file \in Files : Config = Validated(file)
  BY ConfigIsValidated
<1>2. Config.total_amount_ui = trim(file.total_amount_ui)
  BY <1>1 DEF Validated
<1> QED
  BY <1>2, TrimIsPart, CreatePlanAssumption DEF ConfigInv

LEMMA ConfigStep == ASSUME ConfigInv, [PlanNext]_planVars PROVE ConfigInv'
<1> USE DEF ConfigInv
<1>1. CASE UNCHANGED <<config, decimals>> /\ (phase' = phase \/ phase # "load")
  BY <1>1
<1>2. CASE Load
  <2>1. CASE UNCHANGED <<config, decimals, phase>>
    BY <2>1
  <2>2. ASSUME NEW file \in Files, validate(file), config' = {Validated(file)},
               UNCHANGED decimals
        PROVE  ConfigInv'
    BY <2>2
  <2> QED
    BY <1>2, <2>1, <2>2 DEF Load
<1>3. CASE Discover
  BY <1>3, CreatePlanAssumption DEF Discover
<1>4. CASE ConvertAmount
  BY <1>1, <1>4 DEF ConvertAmount
<1>5. CASE ReadSource
  BY <1>1, <1>5 DEF ReadSource
<1>6. CASE ReadChunk \/ PlanRecipients
  BY <1>1, <1>6 DEF ReadChunk, PlanRecipients
<1>7. CASE Pack \/ ReadRent \/ WriteArtifacts \/ ReadBlockhash
  BY <1>1, <1>7 DEF Pack, ReadRent, WriteArtifacts, ReadBlockhash
<1>8. CASE SimulateBatch \/ WriteSimulation \/ RequestFails \/ UNCHANGED planVars
  BY <1>1, <1>8 DEF SimulateBatch, WriteSimulation, RequestFails, planVars
<1> QED
  BY <1>2, <1>3, <1>4, <1>5, <1>6, <1>7, <1>8 DEF PlanNext

LEMMA AmountStep ==
  ASSUME ConfigInv, AmountInv, [PlanNext]_planVars PROVE AmountInv'
<1> USE DEF AmountInv, Converted, SourceRead
<1>1. CASE /\ UNCHANGED <<total, balance, config, decimals>>
           /\ phase' = phase \/ {phase, phase'} \cap Converted = {}
                             \/ {phase, phase'} \subseteq SourceRead
  BY <1>1 DEF Config
<1>2. CASE Load \/ Discover
  BY <1>2 DEF Load, Discover, Config
<1>3. CASE ConvertAmount
  <2> DEFINE converted == ui_amount_to_raw(Config.total_amount_ui, decimals)
  <2>1. converted.error = "None" => \E n \in 0 .. MaxRaw : converted = Raw(n)
    <3>1. Config.total_amount_ui \in Seq(Nat) /\ decimals \in Nat
      BY <1>3, TotalIsText DEF ConvertAmount
    <3> QED
      BY <3>1, RawType
  <2> HIDE DEF converted
  <2>2. CASE UNCHANGED <<total, balance, config, decimals, phase>>
    BY <1>1, <2>2
  <2>3. CASE converted.error = "None" /\ converted.raw >= NumRecipients
             /\ total' = converted.raw /\ phase' = "source" /\ UNCHANGED <<balance, config, decimals>>
    <3>1. PICK n \in 0 .. MaxRaw : converted = Raw(n)
      BY <2>1, <2>3
    <3>2. total' = n /\ Raw(total') = converted /\ total' >= NumRecipients
      BY <2>3, <3>1 DEF Raw
    <3>3. converted' = converted
      BY <2>3 DEF converted, Config
    <3> QED
      BY <2>3, <3>2, <3>3 DEF converted
  <2> QED
    BY <1>3, <2>2, <2>3 DEF ConvertAmount, converted
<1>4. CASE ReadSource
  <2>1. CASE UNCHANGED <<total, balance, config, decimals, phase>>
    BY <1>1, <2>1
  <2>2. ASSUME NEW found \in SourceAnswers, parse_optional_token_account(found, SourceWallet, decimals),
               NEW account \in found, Number(account.amount) >= total,
               balance' = Number(account.amount), UNCHANGED <<total, config, decimals>>,
               phase = "source", phase' = "accounts"
        PROVE  AmountInv'
    <3>1. parse_u64_token_amount(account.amount).error = "None"
      BY <2>2 DEF parse_optional_token_account
    <3>2. account.amount \in Seq(Nat)
      <4> DEFINE expected == {TokenAccount(SourceWallet, amount, decimals) : amount \in Balances}
      <4>1. \/ account \in expected
            \/ \E a \in expected : account \in Spoiled(a)
        BY <2>2 DEF SourceAnswers
      <4>2. \A a \in expected : a.amount \in Balances
        BY DEF TokenAccount
      <4>3. \A a \in expected : \A b \in Spoiled(a) : b.amount = a.amount \/ b.amount = <<>>
        BY DEF Spoiled, TokenAccount
      <4>4. <<>> \in Seq(Nat)
        OBVIOUS
      <4> HIDE DEF expected
      <4> QED
        BY <4>1, <4>2, <4>3, <4>4, CreatePlanAssumption
    <3>3. Number(account.amount) \in 0 .. MaxRaw
      BY <3>1, <3>2, RawType
    <3>4. Config' = Config
      BY <2>2 DEF Config
    <3> QED
      BY <2>2, <3>3, <3>4
  <2> QED
    BY <1>4, <2>1, <2>2 DEF ReadSource
<1>5. CASE ReadChunk \/ PlanRecipients
  BY <1>1, <1>5 DEF ReadChunk, PlanRecipients
<1>6. CASE Pack \/ ReadRent \/ WriteArtifacts \/ ReadBlockhash
  BY <1>1, <1>6 DEF Pack, ReadRent, WriteArtifacts, ReadBlockhash
<1>7. CASE SimulateBatch \/ WriteSimulation \/ RequestFails \/ UNCHANGED planVars
  BY <1>1, <1>7 DEF SimulateBatch, WriteSimulation, RequestFails, planVars
<1> QED
  BY <1>2, <1>3, <1>4, <1>5, <1>6, <1>7 DEF PlanNext

LEMMA TotalIsPaid ==
  ASSUME Fresh, PackingInv, AmountInv, PhaseOK PROVE PaysTheTotal
<1> SUFFICES ASSUME result = "ok" PROVE PaysTheTotal
  BY DEF PaysTheTotal
<1>1. phase \in SourceRead
  BY DEF Fresh, Init, PhaseOK, Phases, SourceRead, Converted
<1>2. total \in Nat /\ total >= NumRecipients /\ total <= balance
  BY <1>1 DEF AmountInv, SourceRead
<1> DEFINE transfers(k) == Cardinality(batches[k])
<1>3. MapThenSumSet(transfers, DOMAIN batches) = NumRecipients
  BY OneTransferEach DEF PackingInv
<1>4. /\ amount_per_recipient_raw \in Nat /\ remainder_raw < NumRecipients
      /\ amount_per_recipient_raw * NumRecipients + remainder_raw = total
      /\ amount_per_recipient_raw > 0
  BY <1>2, Division, PackingAssumption DEF amount_per_recipient_raw, remainder_raw
<1>5. amount_per_recipient_raw * NumRecipients > 0
  BY <1>4, PackingAssumption
<1> QED
  BY <1>2, <1>3, <1>4, <1>5 DEF PaysTheTotal

\* The transfers of a plan and its remainder are the amount of the
\* configuration, and the source account had it (create_distribution_plan,
\* planning.rs:40): for every amount, every number of decimals and of
\* recipients, however they are packed.
THEOREM TheTotalIsPaid == PlanSpec => []PaysTheTotal
<1>1. PlanInit => PhaseOK /\ ConfigInv /\ AmountInv
  BY AmountsAssumption DEF PlanInit, PhaseOK, Phases, ConfigInv, AmountInv, Converted, SourceRead
<1> QED
  BY <1>1, ConfigStep, AmountStep, PhaseStep, PackingInvariant, TotalIsPaid, PTL DEF PlanSpec
-----------------------------------------------------------------------------
(* The estimate of a batch and the transaction that is built of it.        *)

Creates(batch) == {i \in batch : recipients[i]}

LEMMA AccountsDiffer ==
  /\ \A i : /\ Ata(i) \notin {SourceWallet, SourceAta, Mint, TokenProgram, AtaProgram, SystemProgram}
            /\ Wallet(i) \notin {SourceWallet, SourceAta, Mint, TokenProgram, AtaProgram, SystemProgram}
  /\ \A i, j : Ata(i) # Wallet(j)
  /\ \A i, j : Ata(i) = Ata(j) => i = j
  /\ \A i, j : Wallet(i) = Wallet(j) => i = j
BY DEF Ata, Wallet, SourceWallet, SourceAta, Mint, TokenProgram, AtaProgram, SystemProgram

LEMMA ProgramsDiffer ==
  /\ SourceWallet # SourceAta /\ SourceWallet # Mint /\ SourceWallet # TokenProgram
  /\ SourceAta # Mint /\ SourceAta # TokenProgram /\ Mint # TokenProgram
  /\ AtaProgram \notin {SourceWallet, SourceAta, Mint, TokenProgram}
  /\ SystemProgram \notin {SourceWallet, SourceAta, Mint, TokenProgram}
  /\ AtaProgram # SystemProgram
BY DEF SourceWallet, SourceAta, Mint, TokenProgram, AtaProgram, SystemProgram

\* What an instruction has to do with accounts.
LEMMA InstructionSizes ==
  \A i : /\ Cardinality(Transfer(i).accounts) = 4 /\ Transfer(i).data = 10
         /\ Cardinality(CreateAta(i).accounts) = 6 /\ CreateAta(i).data = 1
<1> SUFFICES ASSUME NEW i
             PROVE  /\ Cardinality(Transfer(i).accounts) = 4 /\ Transfer(i).data = 10
                    /\ Cardinality(CreateAta(i).accounts) = 6 /\ CreateAta(i).data = 1
  OBVIOUS
<1>1. Cardinality({SourceAta, Mint, Ata(i), SourceWallet}) = 4
  BY FourDiffer, AccountsDiffer, ProgramsDiffer
<1> DEFINE four == {SourceWallet, Ata(i), Wallet(i), Mint}
<1>2. IsFiniteSet(four) /\ Cardinality(four) = 4
  <2> HIDE DEF four
  <2>1. SourceWallet # Ata(i) /\ SourceWallet # Wallet(i) /\ SourceWallet # Mint
    BY AccountsDiffer, ProgramsDiffer
  <2>2. Ata(i) # Wallet(i) /\ Ata(i) # Mint /\ Wallet(i) # Mint
    BY AccountsDiffer
  <2> QED
    BY <2>1, <2>2, FourDiffer DEF four
<1>3. SystemProgram \notin four /\ TokenProgram \notin four \cup {SystemProgram}
  BY AccountsDiffer, ProgramsDiffer
<1> HIDE DEF four
<1>4. IsFiniteSet(four \cup {SystemProgram}) /\ Cardinality(four \cup {SystemProgram}) = 5
  BY <1>2, <1>3, FS_AddElement
<1>5. Cardinality((four \cup {SystemProgram}) \cup {TokenProgram}) = 6
  BY <1>3, <1>4, FS_AddElement
<1>6. (four \cup {SystemProgram}) \cup {TokenProgram}
        = {SourceWallet, Ata(i), Wallet(i), Mint, SystemProgram, TokenProgram}
  BY DEF four
<1> QED
  BY <1>1, <1>5, <1>6 DEF Transfer, CreateAta

\* The accounts of a batch: what every batch has, an account for everyone,
\* and what creating some of them takes.
Shared == {SourceWallet, SourceAta, Mint, TokenProgram}
Atas(batch) == {Ata(i) : i \in batch}
Wallets(batch) == {Wallet(i) : i \in Creates(batch)}
Programs(batch) == IF Creates(batch) = {} THEN {} ELSE {AtaProgram, SystemProgram}

LEMMA KeysOfBatch ==
  ASSUME NEW batch, batch # {}
  PROVE  account_keys(batch) = ((Shared \cup Atas(batch)) \cup Wallets(batch)) \cup Programs(batch)
<1> DEFINE Named(instruction) == {instruction.program} \cup instruction.accounts
           transfers == {Transfer(i) : i \in batch}
           creations == {CreateAta(i) : i \in Creates(batch)}
<1>1. account_keys(batch) = {SourceWallet} \cup (UNION {Named(x) : x \in transfers})
                                           \cup UNION {Named(x) : x \in creations}
  BY DEF account_keys, Instructions, Creates
<1>2. UNION {Named(x) : x \in transfers} = Shared \cup Atas(batch)
  <2>1. \A i : Named(Transfer(i)) = Shared \cup {Ata(i)}
    BY DEF Transfer, Shared
  <2>2. UNION {Named(x) : x \in transfers} = UNION {Named(Transfer(i)) : i \in batch}
    OBVIOUS
  <2> HIDE DEF Named
  <2>3. UNION {Named(Transfer(i)) : i \in batch} = UNION {Shared \cup {Ata(i)} : i \in batch}
    BY <2>1
  <2> QED
    BY <2>2, <2>3 DEF Atas
<1>3. \A i : Named(CreateAta(i)) =
             (Shared \ {SourceAta}) \cup {Ata(i), Wallet(i), AtaProgram, SystemProgram}
  BY AccountsDiffer, ProgramsDiffer DEF CreateAta, Shared
<1>4. /\ UNION {Named(x) : x \in creations} \subseteq
           ((Shared \cup Atas(batch)) \cup Wallets(batch)) \cup Programs(batch)
      /\ Wallets(batch) \cup Programs(batch) \subseteq UNION {Named(x) : x \in creations}
  <2>1. UNION {Named(x) : x \in creations} = UNION {Named(CreateAta(i)) : i \in Creates(batch)}
    OBVIOUS
  <2> HIDE DEF Named, creations
  <2>2. \A i \in Creates(batch) :
          /\ Named(CreateAta(i)) \subseteq
               ((Shared \cup Atas(batch)) \cup Wallets(batch)) \cup Programs(batch)
          /\ {Wallet(i)} \cup Programs(batch) \subseteq Named(CreateAta(i))
    BY <1>3, AccountsDiffer, ProgramsDiffer DEF Shared, Atas, Wallets, Programs, Creates
  <2>3. Creates(batch) = {} => Programs(batch) = {}
    BY DEF Programs
  <2> QED
    BY <2>1, <2>2, <2>3 DEF Wallets
<1>5. SourceWallet \in Shared
  BY DEF Shared
<1> HIDE DEF transfers, creations, Named
<1> QED
  BY <1>1, <1>2, <1>4, <1>5

LEMMA KeysAreEstimated ==
  ASSUME NEW batch, IsFiniteSet(batch), batch # {}
  PROVE  Cardinality(account_keys(batch)) = account_locks(Cardinality(batch), ata_creations(batch))
<1>1. IsFiniteSet(Creates(batch))
  BY FS_Subset DEF Creates
<1>2. IsFiniteSet(Shared) /\ Cardinality(Shared) = 4
  BY FourDiffer, ProgramsDiffer DEF Shared
<1>3. IsFiniteSet(Atas(batch)) /\ Cardinality(Atas(batch)) = Cardinality(batch)
  <2> DEFINE h == [i \in batch |-> Ata(i)]
  <2>1. \A x, y \in batch : h[x] = h[y] => x = y
    BY AccountsDiffer
  <2>2. Atas(batch) = {h[i] : i \in batch}
    BY DEF Atas
  <2> HIDE DEF h
  <2> QED
    BY <2>1, <2>2, ImageSize
<1>4. /\ IsFiniteSet(Wallets(batch))
      /\ Cardinality(Wallets(batch)) = ata_creations(batch)
  <2> DEFINE C == Creates(batch)
             h == [i \in C |-> Wallet(i)]
  <2>1. \A x, y \in C : h[x] = h[y] => x = y
    BY AccountsDiffer
  <2>2. Wallets(batch) = {h[i] : i \in C}
    BY DEF Wallets
  <2>3. ata_creations(batch) = Cardinality(C) /\ IsFiniteSet(C)
    BY <1>1 DEF ata_creations, Creates
  <2> HIDE DEF h, C
  <2> QED
    BY <2>1, <2>2, <2>3, ImageSize
<1>5. /\ IsFiniteSet(Programs(batch))
      /\ Cardinality(Programs(batch)) = IF ata_creations(batch) > 0 THEN 2 ELSE 0
  <2>1. ata_creations(batch) = Cardinality(Creates(batch)) /\ Cardinality(Creates(batch)) \in Nat
    BY <1>1, FS_CardinalityType DEF ata_creations, Creates
  <2>2. CASE Creates(batch) = {}
    BY <2>1, <2>2, FS_EmptySet DEF Programs
  <2>3. CASE Creates(batch) # {}
    <3>1. ata_creations(batch) > 0
      BY <1>1, <2>1, <2>3, FS_EmptySet
    <3>2. IsFiniteSet({AtaProgram} \cup {SystemProgram}) /\ Cardinality({AtaProgram} \cup {SystemProgram}) = 2
      BY ProgramsDiffer, TwoElements, Zenon
    <3>3. Programs(batch) = {AtaProgram} \cup {SystemProgram}
      BY <2>3 DEF Programs
    <3> QED
      BY <3>1, <3>2, <3>3
  <2> QED
    BY <2>2, <2>3
<1>6. /\ Shared \cap Atas(batch) = {}
      /\ (Shared \cup Atas(batch)) \cap Wallets(batch) = {}
      /\ ((Shared \cup Atas(batch)) \cup Wallets(batch)) \cap Programs(batch) = {}
  BY AccountsDiffer, ProgramsDiffer DEF Shared, Atas, Wallets, Programs
<1>7. Cardinality({}) = 0 /\ Cardinality(batch) \in Nat /\ ata_creations(batch) \in Nat
  BY <1>1, FS_EmptySet, FS_CardinalityType DEF ata_creations, Creates
<1>8. /\ IsFiniteSet(Shared \cup Atas(batch))
      /\ Cardinality(Shared \cup Atas(batch)) = 4 + Cardinality(batch)
  BY <1>2, <1>3, <1>6, <1>7, DisjointUnion
<1>9. /\ IsFiniteSet((Shared \cup Atas(batch)) \cup Wallets(batch))
      /\ Cardinality((Shared \cup Atas(batch)) \cup Wallets(batch))
           = (4 + Cardinality(batch)) + ata_creations(batch)
  BY <1>4, <1>6, <1>7, <1>8, DisjointUnion
<1>10. Cardinality(((Shared \cup Atas(batch)) \cup Wallets(batch)) \cup Programs(batch))
         = ((4 + Cardinality(batch)) + ata_creations(batch))
           + (IF ata_creations(batch) > 0 THEN 2 ELSE 0)
  BY <1>5, <1>6, <1>7, <1>9, DisjointUnion
<1> QED
  BY <1>7, <1>10, KeysOfBatch DEF account_locks

LEMMA BytesAreEstimated ==
  ASSUME NEW batch, IsFiniteSet(batch)
  PROVE  LET bytes(instruction) ==
               compiled_instruction_size(Cardinality(instruction.accounts), instruction.data)
         IN  /\ Cardinality(Instructions(batch)) = Cardinality(batch) + ata_creations(batch)
             /\ MapThenSumSet(bytes, Instructions(batch))
                  = ata_creations(batch) * CreateSize + Cardinality(batch) * TransferSize
<1> DEFINE bytes(instruction) ==
             compiled_instruction_size(Cardinality(instruction.accounts), instruction.data)
           T == {Transfer(i) : i \in batch}
           N == {CreateAta(i) : i \in Creates(batch)}
           I == Instructions(batch)
           f == [x \in I |-> bytes(x)]
           C(g) == g = [s \in SUBSET I |->
                          IF s = {} THEN 0 ELSE bytes(First(s)) + g[s \ {First(s)}]]
<1>1. I = T \cup N
  BY DEF Instructions, Creates
<1>2. IsFiniteSet(T) /\ Cardinality(T) = Cardinality(batch)
  <2> DEFINE h == [i \in batch |-> Transfer(i)]
  <2>1. \A x, y \in batch : Transfer(x) = Transfer(y) => x = y
    <3> SUFFICES ASSUME NEW x \in batch, NEW y \in batch, Transfer(x) = Transfer(y) PROVE x = y
      OBVIOUS
    <3>1. {SourceAta, Mint, Ata(x), SourceWallet} = {SourceAta, Mint, Ata(y), SourceWallet}
      BY DEF Transfer
    <3> QED
      BY <3>1, AccountsDiffer
  <2>2. \A x, y \in batch : h[x] = h[y] => x = y
    BY <2>1
  <2>3. T = {h[i] : i \in batch}
    OBVIOUS
  <2> HIDE DEF h, T
  <2> QED
    BY <2>2, <2>3, ImageSize
<1>3. IsFiniteSet(N) /\ Cardinality(N) = ata_creations(batch)
  <2> DEFINE K == Creates(batch)
             h == [i \in K |-> CreateAta(i)]
  <2>1. \A x, y \in K : CreateAta(x) = CreateAta(y) => x = y
    <3> SUFFICES ASSUME NEW x \in K, NEW y \in K, CreateAta(x) = CreateAta(y) PROVE x = y
      OBVIOUS
    <3>1. CreateAta(x).accounts = CreateAta(y).accounts
      OBVIOUS
    <3>2. Wallet(x) \in {SourceWallet, Ata(y), Wallet(y), Mint, SystemProgram, TokenProgram}
      BY <3>1 DEF CreateAta
    <3> QED
      BY <3>2, AccountsDiffer
  <2>2. \A x, y \in K : h[x] = h[y] => x = y
    BY <2>1
  <2>3. N = {h[i] : i \in K}
    OBVIOUS
  <2>4. IsFiniteSet(K) /\ Cardinality(K) = ata_creations(batch)
    BY FS_Subset DEF Creates, ata_creations
  <2> HIDE DEF h, N, K
  <2> QED
    BY <2>2, <2>3, <2>4, ImageSize
<1>4. T \cap N = {}
  BY ProgramsDiffer DEF Transfer, CreateAta
<1>5. IsFiniteSet(I) /\ Cardinality(I) = Cardinality(batch) + ata_creations(batch)
  <2> HIDE DEF T, N, I
  <2> QED
    BY <1>1, <1>2, <1>3, <1>4, DisjointUnion
<1>6. (\A x \in T : f[x] = TransferSize) /\ (\A x \in N : f[x] = CreateSize)
  <2>1. \A x \in T : bytes(x) = TransferSize
    BY InstructionSizes DEF TransferSize
  <2>2. \A x \in N : bytes(x) = CreateSize
    BY InstructionSizes DEF CreateSize
  <2> HIDE DEF bytes, T, N, I
  <2> QED
    BY <1>1, <2>1, <2>2
<1>7. MapThenSumSet(bytes, I) = SumOf(f, I)
  <2>1. MapThenSumSet(bytes, I) = (CHOOSE g : C(g))[I]
    BY DEF MapThenSumSet, MapThenFoldSet, First
  <2> HIDE DEF I, bytes
  <2>2. \A g : C(g) <=> IsSum(g, f, I)
    <3>1. \A s \in SUBSET I : s # {} => f[First(s)] = bytes(First(s))
      BY FirstIn
    <3> HIDE DEF f
    <3> QED
      BY <3>1 DEF IsSum
  <2> HIDE DEF f, C
  <2>3. C(CHOOSE g : C(g))
    BY <1>5, <2>2, FoldExists
  <2> QED
    BY <1>5, <2>1, <2>2, <2>3, SumIsFold
<1> HIDE DEF f, T, N, I
<1>8. SumOf(f, I) = SumOf(f, T) + SumOf(f, N)
  <2>1. \A x \in T \cup N : f[x] \in Nat
    BY <1>6, Sizes
  <2> QED
    BY <1>1, <1>2, <1>3, <1>4, <2>1, SumUnion
<1>9. /\ SumOf(f, T) = TransferSize * Cardinality(batch)
      /\ SumOf(f, N) = CreateSize * ata_creations(batch)
  BY <1>2, <1>3, <1>6, Sizes, SumConstant
<1>10. Cardinality(batch) \in Nat /\ ata_creations(batch) \in Nat
  BY <1>2, <1>3, FS_CardinalityType
<1>11. SumOf(f, I) = ata_creations(batch) * CreateSize + Cardinality(batch) * TransferSize
  BY <1>8, <1>9, <1>10, Sizes
<1> QED
  BY <1>5, <1>7, <1>11 DEF I

LEMMA BatchesAreEstimated == ASSUME TypeOK, BatchesFit PROVE EstimateIsExact
<1> SUFFICES ASSUME NEW k \in DOMAIN batches
             PROVE  /\ built_size(batches[k])
                         = serialized_size(Cardinality(batches[k]), ata_creations(batches[k]))
                    /\ Cardinality(account_keys(batches[k]))
                         = account_locks(Cardinality(batches[k]), ata_creations(batches[k]))
  BY DEF EstimateIsExact
<1> DEFINE batch == batches[k]
<1>1. batch # {} /\ IsFiniteSet(batch)
  <2>1. IsFiniteSet(Indexes)
    BY FS_Interval, PackingAssumption DEF Indexes
  <2>2. batch \subseteq Indexes /\ batch # {}
    BY DEF TypeOK, BatchesFit
  <2> QED
    BY <2>1, <2>2, FS_Subset
<1> HIDE DEF batch
<1>2. Cardinality(account_keys(batch)) = account_locks(Cardinality(batch), ata_creations(batch))
  BY <1>1, KeysAreEstimated
<1> DEFINE bytes(instruction) ==
             compiled_instruction_size(Cardinality(instruction.accounts), instruction.data)
<1>3. /\ Cardinality(Instructions(batch)) = Cardinality(batch) + ata_creations(batch)
      /\ MapThenSumSet(bytes, Instructions(batch))
           = ata_creations(batch) * CreateSize + Cardinality(batch) * TransferSize
  BY <1>1, BytesAreEstimated
<1>4. Cardinality(batch) \in Nat /\ ata_creations(batch) \in Nat
  BY <1>1, FS_CardinalityType, FS_Subset DEF ata_creations
<1>5. built_size(batch) = serialized_size(Cardinality(batch), ata_creations(batch))
  BY <1>2, <1>3, <1>4, Sizes DEF built_size, serialized_size, account_locks, short_vec_size
<1> QED
  BY <1>2, <1>5 DEF batch

\* No transaction is larger than the estimate its batch was packed by, or
\* smaller: build_signed_batch_transaction (simulation.rs:69) and the simulation
\* refuse no batch that pack_recipients made for its size, whoever is in it.
THEOREM EstimatesAreExact == PlanSpec => []EstimateIsExact
<1>1. PackingInv => EstimateIsExact
  BY BatchesAreEstimated DEF PackingInv
<1> QED
  BY <1>1, PackingInvariant, PTL

NoneTooLarge == outcome # "TransactionLimitExceeded"

LEMMA BuildsAreWithin ==
  ASSUME EstimateIsExact, BatchesFit
  PROVE  \A k \in DOMAIN batches : BuiltWithinLimits(batches[k])
<1> SUFFICES ASSUME NEW k \in DOMAIN batches PROVE BuiltWithinLimits(batches[k])
  OBVIOUS
<1> DEFINE batch == batches[k]
<1>1. /\ built_size(batch) = serialized_size(Cardinality(batch), ata_creations(batch))
      /\ Cardinality(account_keys(batch))
           = account_locks(Cardinality(batch), ata_creations(batch))
  BY DEF EstimateIsExact
<1>2. within_limits(batch)
  BY DEF BatchesFit
<1> HIDE DEF batch
<1>3. BuiltWithinLimits(batch)
  BY <1>1, <1>2 DEF within_limits, WithinLimits, BuiltWithinLimits
<1> QED
  BY <1>3 DEF batch

SimulationInv == simulated \in Nat /\ NoneTooLarge

LEMMA SimulationStep ==
  ASSUME PackingInv, SimulationInv, [PlanNext]_planVars PROVE SimulationInv'
<1> USE DEF SimulationInv, NoneTooLarge
<1>1. CASE Load \/ Discover \/ ReadSource
  BY <1>1 DEF Load, Discover, ReadSource
<1>2. CASE ConvertAmount
  <2>1. \A text, d : ui_amount_to_raw(text, d).error # "TransactionLimitExceeded"
    BY DEF ui_amount_to_raw, Raw, RawError
  <2> QED
    BY <1>2, <2>1 DEF ConvertAmount
<1>3. CASE ReadChunk \/ PlanRecipients
  BY <1>3 DEF ReadChunk, PlanRecipients
<1>4. CASE Pack \/ ReadRent \/ WriteArtifacts \/ ReadBlockhash
  BY <1>4 DEF Pack, ReadRent, WriteArtifacts, ReadBlockhash
<1>5. CASE SimulateBatch
  <2>1. \A k \in DOMAIN batches : BuiltWithinLimits(batches[k])
    BY BatchesAreEstimated, BuildsAreWithin DEF PackingInv
  <2>2. simulated + 1 \in DOMAIN batches
    BY <1>5 DEF SimulateBatch, PackingInv, TypeOK
  <2>3. BuiltWithinLimits(batches[simulated + 1])
    BY <2>1, <2>2
  <2>4. simulated' = simulated + 1 /\ outcome' = outcome
    BY <1>5, <2>3, Zenon DEF SimulateBatch
  <2> QED
    BY <2>4
<1>6. CASE WriteSimulation \/ RequestFails \/ UNCHANGED planVars
  BY <1>6 DEF WriteSimulation, RequestFails, planVars
<1> QED
  BY <1>1, <1>2, <1>3, <1>4, <1>5, <1>6 DEF PlanNext

\* The simulation never ends with TransactionLimitExceeded
\* (simulation.rs:126): the check is a safeguard that no plan needs.
THEOREM NoPlanIsTooLarge == PlanSpec => []NoneTooLarge
<1>1. PlanInit => SimulationInv
  BY DEF PlanInit, SimulationInv, NoneTooLarge
<1>2. SimulationInv => NoneTooLarge
  BY DEF SimulationInv
<1> QED
  BY <1>1, <1>2, SimulationStep, PackingInvariant, PTL DEF PlanSpec
-----------------------------------------------------------------------------
(* What is read is what was written.                                       *)

LEMMA PlanParts ==
  /\ OfParts(Plan)
  /\ {"source_wallet", "source_ata", "distribution_token_address", "distribution_token_program",
      "recipients", "skipped", "batches"} \subseteq DOMAIN Plan
  /\ Plan.recipients = [i \in Indexes |-> PlannedRecipient(i)]
  /\ Plan.skipped = Skipped
  /\ Plan.batches = [k \in DOMAIN batches |-> PlannedBatch(k)]
BY DEF Plan, OfParts

LEMMA RecipientsReadBack ==
  Each(into_planned_recipient, Each(RecipientJson, Plan.recipients)) = Plan.recipients
<1>1. ASSUME NEW i PROVE into_planned_recipient(RecipientJson(PlannedRecipient(i))) = PlannedRecipient(i)
  <2> DEFINE r == PlannedRecipient(i)
  <2>1. OfParts(r) /\ {"wallet", "recipient_ata", "holdings"} \subseteq DOMAIN r
    BY DEF PlannedRecipient, OfParts
  <2>2. /\ OfParts(r.holdings)
        /\ \A k \in DOMAIN r.holdings :
             /\ OfParts(r.holdings[k])
             /\ {"target_token_address", "token_account"} \subseteq DOMAIN r.holdings[k]
    BY DEF PlannedRecipient, OfParts
  <2> HIDE DEF r
  <2>3. into_planned_recipient(RecipientJson(r)) = r
    BY <2>1, <2>2, RecipientReadsBack
  <2> QED
    BY <2>3 DEF r
<1>2. Plan.recipients = [i \in Indexes |-> PlannedRecipient(i)]
  BY PlanParts
<1> QED
  BY <1>1, <1>2 DEF Each

LEMMA SkippedAllReadBack ==
  /\ Each(into_skipped_candidate, Each(SkippedJson, Skipped)) = Skipped
  /\ \A i \in DOMAIN Skipped : SkippedJson(Skipped[i]).reason \in DOMAIN parse_skip_reason
<1>1. /\ OfParts(Skipped) /\ DOMAIN Skipped = SkipReasons
      /\ \A i \in SkipReasons :
           /\ OfParts(Skipped[i])
           /\ {"target_token_address", "token_account", "owner_wallet", "reason"}
                \subseteq DOMAIN Skipped[i]
           /\ Skipped[i].reason = i
  BY DEF Skipped, OfParts
<1>2. \A i \in SkipReasons : into_skipped_candidate(SkippedJson(Skipped[i])) = Skipped[i]
  BY <1>1, SkippedReadsBack
<1>3. \A i \in SkipReasons : SkippedJson(Skipped[i]).reason = DebugNames[i]
  BY <1>1 DEF SkippedJson, OfParts
<1> QED
  BY <1>1, <1>2, <1>3, ReasonReadsBack DEF Each, OfParts

LEMMA BatchesReadBack ==
  Each(into_planned_batch, Each(BatchJson, Plan.batches)) = Plan.batches
<1>1. ASSUME NEW k PROVE into_planned_batch(BatchJson(PlannedBatch(k))) = PlannedBatch(k)
  <2> DEFINE b == PlannedBatch(k)
  <2>1. OfParts(b) /\ "recipients" \in DOMAIN b
    BY DEF PlannedBatch, OfParts
  <2>2. /\ OfParts(b.recipients)
        /\ \A j \in DOMAIN b.recipients :
             /\ OfParts(b.recipients[j])
             /\ {"wallet", "recipient_ata"} \subseteq DOMAIN b.recipients[j]
    <3> DEFINE nth(j) == CHOOSE i \in batches[k] : Cardinality({l \in batches[k] : l =< i}) = j
               member(j) == [recipient_index |-> nth(j), wallet |-> Wallet(nth(j)),
                             recipient_ata |-> Ata(nth(j)),
                             create_recipient_ata |-> recipients[nth(j)]]
    <3>1. b.recipients = [j \in 1 .. Cardinality(batches[k]) |-> member(j)]
      BY DEF PlannedBatch
    <3>2. \A j : OfParts(member(j)) /\ {"wallet", "recipient_ata"} \subseteq DOMAIN member(j)
      BY DEF OfParts
    <3> HIDE DEF member, b
    <3> QED
      BY <3>1, <3>2 DEF OfParts
  <2> HIDE DEF b
  <2>3. into_planned_batch(BatchJson(b)) = b
    BY <2>1, <2>2, BatchReadsBack
  <2> QED
    BY <2>3 DEF b
<1>2. Plan.batches = [k \in DOMAIN batches |-> PlannedBatch(k)]
  BY PlanParts
<1> QED
  BY <1>1, <1>2 DEF Each

LEMMA PlanIsReadBack == PlanReadsBack
<1> DEFINE json == from_plan(Plan, Config)
           p == Plan
           s == json.summary
           q == into_plan(json)
           parsed == {"source_wallet", "source_ata", "distribution_token_address",
                      "distribution_token_program", "recipients", "skipped", "batches"}
<1>1. /\ json.summary = PlanSummaryJson(p)
      /\ json.recipients = Each(RecipientJson, p.recipients)
      /\ json.skipped = Each(SkippedJson, p.skipped)
      /\ json.batches = Each(BatchJson, p.batches)
  BY DEF from_plan
<1>2. OfParts(p) /\ parsed \subseteq DOMAIN p /\ p.skipped = Skipped
  BY PlanParts
<1>3. Parses(json)
  BY <1>1, <1>2, SkippedAllReadBack DEF Parses, Each
<1>4. /\ Each(into_planned_recipient, json.recipients) = p.recipients
      /\ Each(into_skipped_candidate, json.skipped) = p.skipped
      /\ Each(into_planned_batch, json.batches) = p.batches
  BY <1>1, <1>2, RecipientsReadBack, SkippedAllReadBack, BatchesReadBack
<1> HIDE DEF p, json
<1>5. /\ OfParts(s) /\ DOMAIN s = DOMAIN p
      /\ s.source_wallet = to_string(p.source_wallet) /\ s.source_ata = to_string(p.source_ata)
      /\ s.distribution_token_address = to_string(p.distribution_token_address)
      /\ s.distribution_token_program = to_string(p.distribution_token_program)
      /\ \A x \in DOMAIN p \ parsed : s[x] = p[x]
  BY <1>1, <1>2, ZenonT(60) DEF PlanSummaryJson, OfParts
<1> HIDE DEF s
<1>6. /\ OfParts(q) /\ DOMAIN q = DOMAIN s
      /\ q.source_wallet = parse_plan_pubkey(s.source_wallet)
      /\ q.source_ata = parse_plan_pubkey(s.source_ata)
      /\ q.distribution_token_address = parse_plan_pubkey(s.distribution_token_address)
      /\ q.distribution_token_program = parse_plan_pubkey(s.distribution_token_program)
      /\ q.recipients = Each(into_planned_recipient, json.recipients)
      /\ q.skipped = Each(into_skipped_candidate, json.skipped)
      /\ q.batches = Each(into_planned_batch, json.batches)
      /\ \A x \in DOMAIN s \ parsed : q[x] = s[x]
  BY <1>2, <1>5 DEF into_plan, OfParts, s
<1> HIDE DEF q
<1>7. \A x \in DOMAIN p : q[x] = p[x]
  BY <1>2, <1>4, <1>5, <1>6, KeyReadsBack
<1>8. q = p
  BY <1>2, <1>5, <1>6, <1>7, SameParts
<1> QED
  BY <1>3, <1>8 DEF PlanReadsBack, q, p, json

\* What plan.json says of a plan is the plan: into_plan gives back every
\* recipient, skipped candidate and batch that from_plan was given, of every
\* plan there can be, and no reason has a name that it does not know.
LEMMA PlansReadBack == PlanSpec => []PlanReadsBack
BY PlanIsReadBack, PTL

LEMMA SnapshotIsDecisive == ConfigInv => SnapshotDecides
<1> SUFFICES ASSUME ConfigInv, phase = "discover", NEW other \in Configs
             PROVE  validate_matches(PlanConfigJson(Config), other)
                      <=> Settings(other) = Settings(Config)
  BY DEF SnapshotDecides
<1>1. PICK file \in Files : Config = Validated(file)
  BY ConfigIsValidated
<1>2. PICK another : other = Validated(another)
  BY DEF Configs
<1> QED
  BY <1>1, <1>2, SettingsAreWritten

\* validate_matches takes a cached plan under exactly the settings it was made
\* with, whatever the two configuration files say: no setting is left out of
\* the comparison, and the names of the environment variables are.
LEMMA SnapshotsDecide == PlanSpec => []SnapshotDecides
<1>1. PlanInit => ConfigInv
  BY DEF PlanInit, ConfigInv
<1> QED
  BY <1>1, ConfigStep, SnapshotIsDecisive, PTL DEF PlanSpec

\* A process that finds plan.json reads the plan that was made, and takes it up
\* under the settings it was made with and no others (planning.rs:242, 1058).
THEOREM PlanJsonsAreTrue == PlanSpec => []PlanJsonIsTrue
<1>1. PlanReadsBack /\ SnapshotDecides => PlanJsonIsTrue
  BY DEF PlanJsonIsTrue
<1> QED
  BY <1>1, PlansReadBack, SnapshotsDecide, PTL

-----------------------------------------------------------------------------
(* The digits of a number.                                                 *)

LEMMA QuotientIs ==
  ASSUME NEW n \in Nat, NEW m \in Nat \ {0}, NEW q \in Nat, NEW r \in Nat,
         n = m * q + r, r < m
  PROVE  n \div m = q
<1> DEFINE Q == n \div m
           R == n % m
<1>1. Q \in Nat /\ R \in Nat /\ R < m /\ m * Q + R = n
  OBVIOUS
<1> HIDE DEF Q, R
<1>2. CASE Q < q
  <2> DEFINE e == q - Q
  <2>1. e \in Nat /\ e >= 1 /\ q = Q + e
    BY <1>1, <1>2
  <2> HIDE DEF e
  <2>2. m * q = m * Q + m * e /\ m * e >= m /\ m * Q \in Nat /\ m * e \in Nat
    BY <1>1, <2>1
  <2> QED
    BY <1>1, <2>2
<1>3. CASE Q > q
  <2> DEFINE e == Q - q
  <2>1. e \in Nat /\ e >= 1 /\ Q = q + e
    BY <1>1, <1>3
  <2> HIDE DEF e
  <2>2. m * Q = m * q + m * e /\ m * e >= m /\ m * q \in Nat /\ m * e \in Nat
    BY <1>1, <2>1
  <2> QED
    BY <1>1, <2>2
<1>4. Q = q
  BY <1>1, <1>2, <1>3
<1> QED
  BY <1>4 DEF Q

LEMMA DividedTwice ==
  ASSUME NEW n \in Nat, NEW k \in Nat \ {0}
  PROVE  /\ k * 10 \in Nat \ {0} /\ n \div (k * 10) \in Nat
         /\ n \div k = (n \div (k * 10)) * 10 + ((n \div k) % 10)
<1> DEFINE q == n \div k
           r == n % k
           s == q \div 10
           t == q % 10
<1>1. q \in Nat /\ r \in Nat /\ r < k /\ k * q + r = n
  OBVIOUS
<1> HIDE DEF q, r
<1>2. s \in Nat /\ t \in Nat /\ t < 10 /\ 10 * s + t = q
  BY <1>1
<1> HIDE DEF s, t
<1>3. k * q = k * (10 * s) + k * t
  BY <1>2
<1>4. k * (10 * s) = (k * 10) * s /\ k * t \in Nat /\ k * 10 \in Nat \ {0}
  BY <1>2
<1>5. k * t <= k * 9
  <2>1. t \in 0 .. 9
    BY <1>2
  <2> QED
    BY <2>1
<1> DEFINE m == k * 10
           rest == k * t + r
<1>6. rest \in Nat /\ rest < m /\ n = m * s + rest /\ m \in Nat \ {0}
  <2>1. k * 10 = k * 9 + k /\ k * 9 \in Nat /\ (k * 10) * s \in Nat
    BY <1>2
  <2> QED
    BY <1>1, <1>3, <1>4, <1>5, <2>1
<1> HIDE DEF m, rest
<1>7. n \div m = s
  BY ONLY <1>2, <1>6, n \in Nat, QuotientIs
<1>8. q = s * 10 + t
  BY <1>2
<1> QED
  BY <1>2, <1>4, <1>7, <1>8 DEF m, q, t

\* The quotients by the powers of ten are what is read up to each place.
LEMMA NumberOfQuotients ==
  ASSUME NEW n \in Nat, NEW p \in Nat, n < PowerOfTen(p)
  PROVE  LET s == [i \in 1 .. p |-> (n \div PowerOfTen(p - i)) % 10]
         IN  s \in Seq(Digits) /\ Len(s) = p /\ Number(s) = n
<1> DEFINE s == [i \in 1 .. p |-> (n \div PowerOfTen(p - i)) % 10]
           u == [i \in 0 .. p |-> n \div PowerOfTen(p - i)]
<1>1. \A i \in 0 .. p : p - i \in Nat /\ PowerOfTen(p - i) \in Nat \ {0} /\ u[i] \in Nat
  <2> SUFFICES ASSUME NEW i \in 0 .. p
               PROVE  p - i \in Nat /\ PowerOfTen(p - i) \in Nat \ {0} /\ u[i] \in Nat
    OBVIOUS
  <2>1. p - i \in Nat
    OBVIOUS
  <2>2. PowerOfTen(p - i) \in Nat \ {0}
    BY <2>1, PowerType
  <2> DEFINE k == PowerOfTen(p - i)
  <2>3. u[i] = n \div k
    OBVIOUS
  <2> HIDE DEF k, u
  <2>4. n \div k \in Nat
    BY <2>2 DEF k
  <2> QED
    BY <2>1, <2>2, <2>3, <2>4
<1>2. \A i \in 1 .. p : s[i] = u[i] % 10
  OBVIOUS
<1>3. \A i \in 1 .. p : s[i] \in Digits
  <2> SUFFICES ASSUME NEW i \in 1 .. p PROVE s[i] \in Digits
    OBVIOUS
  <2>1. u[i] \in Nat /\ s[i] = u[i] % 10
    BY <1>1, <1>2
  <2> HIDE DEF u, s
  <2> QED
    BY <2>1 DEF Digits
<1>4. s \in Seq(Digits) /\ Len(s) = p
  BY <1>3
<1>5. u[0] = 0
  <2> DEFINE k == PowerOfTen(p)
  <2>1. k \in Nat \ {0} /\ n < k
    BY PowerType
  <2>2. u[0] = n \div k
    BY p - 0 = p
  <2> HIDE DEF k, u
  <2>3. k * 0 + n = n
    BY <2>1
  <2>4. n \div k = 0
    BY <2>1, <2>3, QuotientIs
  <2> QED
    BY <2>2, <2>4
<1>6. u[p] = n
  <2>1. p - p = 0 /\ PowerOfTen(0) = 1 /\ p \in 0 .. p
    BY PowerNext
  <2>2. u[p] = n \div 1
    BY <2>1
  <2> QED
    BY <2>2
<1>7. ASSUME NEW i \in 1 .. p PROVE u[i] = u[i - 1] * 10 + s[i]
  <2>1. i - 1 \in 0 .. p /\ i \in 0 .. p /\ p - (i - 1) = (p - i) + 1 /\ p - i \in Nat
    OBVIOUS
  <2> DEFINE k == PowerOfTen(p - i)
  <2>2. k \in Nat \ {0} /\ PowerOfTen(p - (i - 1)) = k * 10
    BY <1>1, <2>1, PowerNext
  <2>3. u[i] = n \div k /\ u[i - 1] = n \div PowerOfTen(p - (i - 1))
    BY <2>1
  <2>4. s[i] = (n \div k) % 10
    OBVIOUS
  <2> HIDE DEF k, u, s
  <2> QED
    BY <2>2, <2>3, <2>4, DividedTwice, ZenonT(60)
<1> HIDE DEF s, u
<1>8. Number(s) = u[p]
  BY <1>4, <1>5, <1>7, NumberIs
<1> QED
  BY <1>4, <1>6, <1>8 DEF s

LEMMA DigitsOf ==
  ASSUME NEW n \in Nat
  PROVE  ToDigits(n) \in Seq(Digits) /\ Len(ToDigits(n)) \in Nat \ {0} /\ Number(ToDigits(n)) = n
<1> DEFINE IsPlaces(p) == n < PowerOfTen(p) /\ (p = 1 \/ n >= PowerOfTen(p - 1))
           places == CHOOSE p \in 1 .. n + 1 : IsPlaces(p)
           S == {p \in Nat : p >= 1 /\ n < PowerOfTen(p)}
           m == Min(S)
<1>1. n + 1 \in S
  <2>1. n + 1 \in Nat /\ PowerOfTen(n + 1) \in Nat /\ PowerOfTen(n + 1) > n + 1
    BY PowerType
  <2> QED
    BY <2>1
<1>2. m \in S /\ \A y \in S : m <= y
  <2>1. S \in SUBSET Nat /\ S # {}
    BY <1>1
  <2> HIDE DEF S
  <2> QED
    BY <2>1, LeastOfNat
<1>3. m \in 1 .. n + 1 /\ n < PowerOfTen(m)
  BY <1>1, <1>2
<1>4. m = 1 \/ n >= PowerOfTen(m - 1)
  <2> SUFFICES ASSUME m # 1 PROVE n >= PowerOfTen(m - 1)
    OBVIOUS
  <2>1. m - 1 \in Nat /\ m - 1 >= 1 /\ ~(m <= m - 1)
    BY <1>2
  <2>2. m - 1 \notin S
    BY <1>2, <2>1
  <2>3. PowerOfTen(m - 1) \in Nat
    BY <2>1, PowerType
  <2> QED
    BY <2>1, <2>2, <2>3
<1> HIDE DEF S, m
<1>5. \E p \in 1 .. n + 1 : IsPlaces(p)
  BY <1>3, <1>4
<1>6. places \in 1 .. n + 1 /\ n < PowerOfTen(places)
  BY <1>5
<1>7. ToDigits(n) = [i \in 1 .. places |-> (n \div PowerOfTen(places - i)) % 10]
  BY DEF ToDigits
<1> HIDE DEF places
<1>8. places \in Nat \ {0}
  BY <1>6, SMTT(30)
<1> QED
  BY <1>6, <1>7, <1>8, NumberOfQuotients

\* The zeros at the end are all that is taken away.
LEMMA TrimEnd ==
  ASSUME NEW s \in Seq(Digits)
  PROVE  LET t == trim_end(s)
         IN  /\ t \in Seq(Digits) /\ Len(t) \in 0 .. Len(s)
             /\ t \o Zeros(Len(s) - Len(t)) = s
<1> DEFINE others == {i \in DOMAIN s : s[i] # 0}
           t == trim_end(s)
<1>1. Len(s) \in Nat /\ DOMAIN s = 1 .. Len(s)
  OBVIOUS
<1>2. PICK m \in 0 .. Len(s) :
        /\ t = SubSeq(s, 1, m) /\ \A i \in m + 1 .. Len(s) : s[i] = 0
  <2>1. CASE others = {}
    <3>1. t = <<>> /\ SubSeq(s, 1, 0) = <<>>
      BY <1>1, <2>1 DEF trim_end
    <3> QED
      BY <1>1, <2>1, <3>1
  <2>2. CASE others # {}
    <3>1. others \in SUBSET (1 .. Len(s)) /\ IsFiniteSet(others)
      <4>1. others \in SUBSET (1 .. Len(s))
        BY <1>1
      <4>2. IsFiniteSet(1 .. Len(s))
        BY <1>1, FS_Interval
      <4> HIDE DEF others
      <4> QED
        BY ONLY <4>1, <4>2, FS_Subset
    <3> DEFINE m == Max(others)
    <3>2. m \in others /\ \A y \in others : y <= m
      <4> HIDE DEF others
      <4> QED
        BY <1>1, <2>2, <3>1, GreatestOfFinite
    <3>3. t = SubSeq(s, 1, m)
      BY <2>2 DEF trim_end
    <3> HIDE DEF m
    <3>4. \A i \in m + 1 .. Len(s) : s[i] = 0
      BY <1>1, <3>1, <3>2
    <3> QED
      BY <1>1, <3>1, <3>2, <3>3, <3>4
  <2> QED
    BY <2>1, <2>2
<1> HIDE DEF t, others
<1>3. t \in Seq(Digits) /\ Len(t) = m /\ \A i \in 1 .. m : t[i] = s[i]
  <2>1. 1 \in 1 .. Len(s) + 1 /\ m \in 1 - 1 .. Len(s)
    BY <1>1
  <2>2. /\ SubSeq(s, 1, m) \in Seq(Digits) /\ Len(SubSeq(s, 1, m)) = m - 1 + 1
        /\ \A k \in 1 .. m - 1 + 1 : SubSeq(s, 1, m)[k] = s[1 + k - 1]
    BY <2>1, SliceOf
  <2>3. m - 1 + 1 = m /\ \A k \in 1 .. m : 1 + k - 1 = k
    BY <1>1
  <2> QED
    BY <1>2, <2>2, <2>3
<1> DEFINE n == Len(s) - m
           z == Zeros(n)
<1>4. n \in Nat /\ z \in Seq(Digits) /\ Len(z) = n /\ \A i \in 1 .. n : z[i] = 0
  <2>1. n \in Nat
    BY <1>1
  <2> QED
    BY <2>1, ZerosIn
<1> HIDE DEF z
<1>5. \A i \in 1 .. n : s[m + i] = z[i]
  <2> SUFFICES ASSUME NEW i \in 1 .. n PROVE s[m + i] = z[i]
    OBVIOUS
  <2>1. m + i \in m + 1 .. Len(s)
    BY <1>1
  <2> QED
    BY <1>2, <1>4, <2>1
<1>6. m + n = Len(s)
  BY <1>1
<1>7. Len(s) = Len(t) + Len(z) /\ (\A i \in 1 .. Len(t) : s[i] = t[i]) /\ \A i \in 1 .. Len(z) : s[Len(t) + i] = z[i]
  BY <1>3, <1>4, <1>5, <1>6
<1>8. t \o z = s
  BY ONLY <1>3, <1>4, <1>7, s \in Seq(Digits), JoinedIs
<1> QED
  BY <1>1, <1>3, <1>8 DEF t, z

\* The digits of a number, in front and behind the dot.
LEMMA PaddedDigits ==
  ASSUME NEW n \in Nat, NEW d \in Nat
  PROVE  LET digits == ToDigits(n)
             padded == IF Len(digits) > d THEN digits
                       ELSE <<0>> \o Zeros(d - Len(digits)) \o digits
         IN  padded \in Seq(Digits) /\ Len(padded) > d /\ Number(padded) = n
<1> DEFINE digits == ToDigits(n)
           padded == IF Len(digits) > d THEN digits
                     ELSE <<0>> \o Zeros(d - Len(digits)) \o digits
<1>1. digits \in Seq(Digits) /\ Len(digits) \in Nat /\ Number(digits) = n
  BY DigitsOf
<1> HIDE DEF digits
<1>2. CASE Len(digits) > d
  BY <1>1, <1>2 DEF digits
<1>3. CASE ~(Len(digits) > d)
  <2> DEFINE k == d - Len(digits)
             z == Zeros(k)
             front == <<0>> \o z
  <2>1. k \in Nat
    BY <1>1, <1>3
  <2>2. z \in Seq(Digits) /\ Len(z) = k /\ \A i \in 1 .. k : z[i] = 0
    BY <2>1, ZerosIn
  <2>3. <<0>> \in Seq(Digits) /\ Len(<<0>>) = 1 /\ <<0>>[1] = 0
    BY DEF Digits
  <2>4. padded = front \o digits
    BY <1>3
  <2> HIDE DEF z, k, padded
  <2>5. /\ front \in Seq(Digits) /\ Len(front) = 1 + k
        /\ \A i \in 1 .. 1 : front[i] = <<0>>[i]
        /\ \A i \in 1 + 1 .. 1 + k : front[i] = z[i - 1]
    BY <2>2, <2>3, ConcatAt
  <2>6. \A i \in 1 .. Len(front) : front[i] = 0
    <3> SUFFICES ASSUME NEW i \in 1 .. 1 + k PROVE front[i] = 0
      BY <2>5
    <3>1. CASE i = 1
      BY <2>3, <2>5, <3>1
    <3>2. CASE i # 1
      <4>1. i \in 1 + 1 .. 1 + k /\ i - 1 \in 1 .. k
        BY <2>1, <3>2
      <4> QED
        BY <2>2, <2>5, <4>1
    <3> QED
      BY <3>1, <3>2
  <2> HIDE DEF front
  <2>7. Number(front) = 0
    BY <2>5, <2>6, NumberOfZeros
  <2>8. Number(front \o digits) = Number(front) * PowerOfTen(Len(digits)) + Number(digits)
    BY <1>1, <2>5, NumberConcat
  <2>9. PowerOfTen(Len(digits)) \in Nat
    BY <1>1, PowerType
  <2>10. Number(front \o digits) = n
    BY <1>1, <2>7, <2>8, <2>9
  <2>11. front \o digits \in Seq(Digits) /\ Len(front \o digits) = 1 + k + Len(digits)
    BY <1>1, <2>5, ConcatAt
  <2>12. 1 + k + Len(digits) > d
    BY <1>1, <1>3 DEF k
  <2> QED
    BY <2>4, <2>10, <2>11, <2>12 DEF padded, digits
<1> QED
  BY <1>2, <1>3

\* A text is taken apart at its only dot.
LEMMA AtTheDot ==
  ASSUME NEW w \in Seq(Digits), NEW r \in Seq(Digits)
  PROVE  /\ Whole(w) = w /\ Fractional(w) = <<>>
         /\ Whole(w \o <<Dot>> \o r) = w /\ Fractional(w \o <<Dot>> \o r) = r
<1>1. Len(w) \in Nat /\ Len(r) \in Nat /\ \A i \in 1 .. Len(w) : w[i] \in Digits
  OBVIOUS
<1>2. \A x \in Digits : x # Dot /\ x \in Nat
  BY DEF Digits, Dot
<1>3. Dots(w) = {}
  BY <1>1, <1>2 DEF Dots
<1>4. Whole(w) = w /\ Fractional(w) = <<>>
  BY <1>3 DEF Whole, Fractional
<1> DEFINE p == w \o <<Dot>>
           text == p \o r
           d == Len(w) + 1
<1>5. w \in Seq(Nat) /\ r \in Seq(Nat) /\ <<Dot>> \in Seq(Nat) /\ Len(<<Dot>>) = 1 /\ <<Dot>>[1] = Dot
  BY <1>2 DEF Dot
<1>6. /\ p \in Seq(Nat) /\ Len(p) = Len(w) + 1
      /\ \A k \in 1 .. Len(w) : p[k] = w[k]
      /\ \A k \in Len(w) + 1 .. Len(w) + 1 : p[k] = <<Dot>>[k - Len(w)]
  BY <1>5, ConcatAt
<1>7. p[d] = Dot /\ d \in Nat
  BY <1>1, <1>5, <1>6
<1> HIDE DEF p
<1>8. /\ text \in Seq(Nat) /\ Len(text) = d + Len(r)
      /\ \A k \in 1 .. d : text[k] = p[k]
      /\ \A k \in d + 1 .. d + Len(r) : text[k] = r[k - d]
  <2>1. p \in Seq(Nat) /\ r \in Seq(Nat) /\ Len(p) = d
    BY <1>5, <1>6
  <2> HIDE DEF d
  <2> QED
    BY ONLY <2>1, ConcatAt, ZenonT(60)
<1> HIDE DEF text
<1>9. \A k \in 1 .. d - 1 : text[k] = w[k]
  <2>1. \A k \in 1 .. d - 1 : k \in 1 .. Len(w) /\ k \in 1 .. d
    BY <1>1
  <2> QED
    BY ONLY <1>6, <1>8, <2>1
<1>10. \A k \in 1 .. Len(r) : text[d + k] = r[k]
  <2> SUFFICES ASSUME NEW k \in 1 .. Len(r) PROVE text[d + k] = r[k]
    OBVIOUS
  <2>1. d + k \in d + 1 .. d + Len(r) /\ (d + k) - d = k
    BY <1>1
  <2> QED
    BY <1>8, <2>1
<1>11. Dots(text) = {d}
  <2>1. DOMAIN text = 1 .. d + Len(r)
    BY <1>8
  <2>2. d \in 1 .. d + Len(r) /\ text[d] = Dot
    <3>1. d \in 1 .. d /\ d \in 1 .. d + Len(r)
      BY <1>1
    <3> QED
      BY ONLY <1>7, <1>8, <3>1
  <2>3. ASSUME NEW i \in 1 .. d + Len(r), i # d PROVE text[i] # Dot
    <3>1. CASE i < d
      <4>1. i \in 1 .. Len(w)
        BY <1>1, <3>1
      <4> QED
        BY <1>1, <1>2, <1>6, <1>8, <4>1
    <3>2. CASE i > d
      <4>1. i \in d + 1 .. d + Len(r) /\ i - d \in 1 .. Len(r)
        BY <1>1, <3>2
      <4>2. r[i - d] \in Digits
        BY <4>1
      <4> QED
        BY <1>2, <1>8, <4>1, <4>2
    <3> QED
      BY <1>1, <2>3, <3>1, <3>2
  <2> QED
    BY <2>1, <2>2, <2>3 DEF Dots
<1> HIDE DEF d
<1>12. PICK e \in Dots(text) :
         /\ Len(Whole(text)) = e - 1 /\ Len(Fractional(text)) = Len(text) - e
         /\ \A i \in 1 .. e - 1 : Whole(text)[i] = text[i]
         /\ \A i \in 1 .. Len(text) - e : Fractional(text)[i] = text[e + i]
         /\ Whole(text) \in Seq(Nat) /\ Fractional(text) \in Seq(Nat)
  BY <1>8, <1>11, SplitAt
<1>13. e = d /\ d - 1 = Len(w) /\ Len(text) - d = Len(r)
  BY <1>1, <1>7, <1>8, <1>11, <1>12 DEF d
<1> DEFINE a == Whole(text)
           b == Fractional(text)
<1>14. a \in Seq(Nat) /\ Len(a) = Len(w) /\ \A i \in 1 .. Len(w) : a[i] = w[i]
  BY <1>9, <1>12, <1>13
<1>15. b \in Seq(Nat) /\ Len(b) = Len(r) /\ \A i \in 1 .. Len(r) : b[i] = r[i]
  BY <1>10, <1>12, <1>13
<1> HIDE DEF a, b
<1>16. a = w /\ b = r
  BY ONLY <1>5, <1>14, <1>15, SeqEqual
<1> QED
  BY <1>4, <1>16 DEF a, b, text, p

\* What is shown of an amount reads back as the amount.
LEMMA ShownReadsBack ==
  ASSUME NEW n \in Nat, n <= MaxRaw, NEW d \in Nat
  PROVE  ui_amount_to_raw(format_raw_amount(n, d), d) = Raw(n)
<1> DEFINE digits == ToDigits(n)
           padded == IF Len(digits) > d THEN digits
                     ELSE <<0>> \o Zeros(d - Len(digits)) \o digits
           w == SubSeq(padded, 1, Len(padded) - d)
           tail == SubSeq(padded, Len(padded) - d + 1, Len(padded))
           r == trim_end(tail)
           text == format_raw_amount(n, d)
<1>1. text = IF r = <<>> THEN w ELSE w \o <<Dot>> \o r
  BY DEF format_raw_amount
<1>2. padded \in Seq(Digits) /\ Len(padded) > d /\ Number(padded) = n
  BY PaddedDigits
<1> HIDE DEF digits, padded, text
<1> DEFINE k == Len(padded) - d
<1>3. Len(padded) \in Nat /\ k \in Nat \ {0} /\ k \in 0 .. Len(padded) /\ Len(padded) - k = d
  BY <1>2
<1> HIDE DEF k
<1>4. /\ w = SubSeq(padded, 1, k) /\ tail = SubSeq(padded, k + 1, Len(padded))
  BY DEF k
<1> HIDE DEF w, tail
<1>5. /\ w \in Seq(Digits) /\ Len(w) = k /\ \A i \in 1 .. k : w[i] = padded[i]
      /\ tail \in Seq(Digits) /\ Len(tail) = d
      /\ \A i \in 1 .. d : tail[i] = padded[k + i]
  BY <1>2, <1>3, <1>4, NumberSplit
<1>6. r \in Seq(Digits) /\ Len(r) \in 0 .. d /\ r \o Zeros(d - Len(r)) = tail
  BY <1>5, TrimEnd
<1> HIDE DEF r
<1>7. Whole(text) = w /\ Fractional(text) = r
  <2>1. CASE r = <<>>
    BY <1>1, <1>5, <1>6, <2>1, AtTheDot
  <2>2. CASE r # <<>>
    BY <1>1, <1>5, <1>6, <2>2, AtTheDot
  <2> QED
    BY <2>1, <2>2
<1>8. w \o tail = padded
  <2>1. Len(padded) = Len(w) + Len(tail)
    BY <1>3, <1>5
  <2>2. (\A i \in 1 .. Len(w) : padded[i] = w[i]) /\ \A i \in 1 .. Len(tail) : padded[Len(w) + i] = tail[i]
    BY ONLY <1>5
  <2> QED
    BY ONLY <1>2, <1>5, <2>1, <2>2, JoinedIs
<1> DEFINE z == Zeros(d - Len(r))
<1>9. z \in Seq(Digits)
  <2>1. d - Len(r) \in Nat
    BY <1>6
  <2> QED
    BY <2>1, ZerosIn
<1> HIDE DEF z
<1>10. w \o r \o z = padded
  <2>1. w \in Seq(Digits) /\ r \in Seq(Digits) /\ z \in Seq(Digits)
    BY <1>5, <1>6, <1>9
  <2>2. w \o r \o z = w \o (r \o z)
    BY ONLY <2>1, ConcatAssociative
  <2> QED
    BY <1>6, <1>8, <2>2 DEF z
<1>11. Number(trim_zeros(padded)) = n
  BY <1>2, TrimZeros
<1>12. w # <<>> /\ IsDigits(w) /\ IsDigits(r) /\ ~(Len(r) > d) /\ ~(n > MaxRaw)
  <2>1. w # <<>>
    BY <1>3, <1>5
  <2>2. IsDigits(w) /\ IsDigits(r)
    BY <1>5, <1>6 DEF IsDigits
  <2>3. ~(Len(r) > d) /\ ~(n > MaxRaw)
    BY <1>6, AmountsAssumption
  <2> QED
    BY <2>1, <2>2, <2>3
<1>13. ui_amount_to_raw(text, d) =
         LET digs == trim_zeros(w \o r \o z)
         IN  IF w = <<>> \/ ~IsDigits(w) \/ ~IsDigits(r) THEN RawError("InvalidUiAmount")
             ELSE IF Len(r) > d THEN RawError("TooManyFractionalDigits")
             ELSE IF Number(digs) > MaxRaw THEN RawError("AmountExceedsSplTokenLimit")
             ELSE Raw(Number(digs))
  BY <1>7 DEF ui_amount_to_raw, z
<1> QED
  BY <1>10, <1>11, <1>12, <1>13 DEF text

LEMMA DigitsIn ==
  ASSUME NEW s \in Seq(Nat), IsDigits(s)
  PROVE  s \in Seq(Digits) /\ Len(s) \in Nat
<1> DEFINE n == Len(s)
<1>1. n \in Nat /\ DOMAIN s = 1 .. n /\ s = [i \in 1 .. n |-> s[i]]
  OBVIOUS
<1>2. \A i \in 1 .. n : s[i] \in Digits
  BY <1>1 DEF IsDigits
<1> HIDE DEF n
<1>3. s \in [1 .. n -> Digits]
  BY ONLY <1>1, <1>2
<1>4. s \in Seq(Digits)
  BY ONLY <1>1, <1>3
<1> QED
  BY <1>1, <1>4 DEF n

\* The zeros that widen the fraction make it the amount in raw units.
LEMMA WidenedAmount ==
  ASSUME NEW text \in Seq(Nat), NEW d \in Nat, IsDigits(Whole(text)), IsDigits(Fractional(text)),
         Len(Fractional(text)) <= d
  PROVE  LET v == Whole(text) \o Fractional(text)
             k == d - Len(Fractional(text))
         IN  /\ Number(trim_zeros(v \o Zeros(k))) = Number(v) * PowerOfTen(k)
             /\ v \in Seq(Digits) /\ k \in Nat /\ k + Len(Fractional(text)) = d
<1> DEFINE w == Whole(text)
           f == Fractional(text)
           v == w \o f
           k == d - Len(f)
<1>1. w \in Seq(Nat) /\ f \in Seq(Nat) /\ IsDigits(w) /\ IsDigits(f) /\ Len(f) <= d
  BY SplitAt
<1> HIDE DEF w, f
<1>2. w \in Seq(Digits) /\ f \in Seq(Digits) /\ Len(f) \in Nat
  BY <1>1, DigitsIn
<1>3. k \in Nat /\ k + Len(f) = d
  BY <1>1, <1>2
<1>4. v \in Seq(Digits)
  BY ONLY <1>2, ConcatAt
<1>5. v \o Zeros(k) \in Seq(Digits) /\ Number(v \o Zeros(k)) = Number(v) * PowerOfTen(k)
  <2>1. Zeros(k) \in Seq(Digits)
    BY ONLY <1>3, ZerosIn
  <2>2. v \o Zeros(k) \in Seq(Digits)
    BY ONLY <1>4, <2>1, ConcatAt
  <2> HIDE DEF v, k
  <2> QED
    BY ONLY <1>3, <1>4, <2>2, NumberScaled
<1>6. Number(trim_zeros(v \o Zeros(k))) = Number(v) * PowerOfTen(k)
  <2> HIDE DEF v, k
  <2> QED
    BY ONLY <1>5, TrimZeros
<1> QED
  BY <1>3, <1>4, <1>6 DEF w, f

LEMMA RawIsAmount ==
  ASSUME NEW text \in Seq(Nat), NEW d \in Nat, NEW n, ui_amount_to_raw(text, d) = Raw(n)
  PROVE  n * PowerOfTen(Len(Fractional(text)))
           = Number(Whole(text) \o Fractional(text)) * PowerOfTen(d)
<1> DEFINE w == Whole(text)
           f == Fractional(text)
           k == d - Len(f)
           v == w \o f
<1>1. IsDigits(w) /\ IsDigits(f) /\ Len(f) <= d /\ n = Number(trim_zeros(w \o f \o Zeros(k)))
  BY RawType
<1>2. /\ Number(trim_zeros(v \o Zeros(k))) = Number(v) * PowerOfTen(k)
      /\ v \in Seq(Digits) /\ k \in Nat /\ k + Len(f) = d
  BY <1>1, WidenedAmount
<1>3. Len(f) \in Nat
  BY SplitAt
<1> HIDE DEF w, f
<1>4. PowerOfTen(d) = PowerOfTen(k) * PowerOfTen(Len(f))
  BY <1>2, <1>3, PowerSum
<1> DEFINE a == Number(v)
           b == PowerOfTen(k)
           c == PowerOfTen(Len(f))
<1>5. a \in Nat /\ b \in Nat /\ c \in Nat /\ n = a * b
  BY <1>1, <1>2, <1>3, NumberType, PowerType
<1> HIDE DEF a, b, c
<1>6. (a * b) * c = a * (b * c)
  BY ONLY <1>5
<1> QED
  BY <1>4, <1>5, <1>6 DEF a, b, c, f, w

LEMMA ConversionsAreExact == ASSUME ConfigInv, AmountInv, PhaseOK PROVE ConversionIsExact
<1> DEFINE text == Config.total_amount_ui
<1> SUFFICES ASSUME total > 0
             PROVE  /\ total * PowerOfTen(Len(Fractional(text)))
                         = Number(Whole(text) \o Fractional(text)) * PowerOfTen(decimals)
                    /\ \A raw \in {total, balance, amount_per_recipient_raw, remainder_raw} :
                         ui_amount_to_raw(format_raw_amount(raw, decimals), decimals) = Raw(raw)
  BY DEF ConversionIsExact
<1>1. phase \in Converted /\ phase # "load" /\ ui_amount_to_raw(text, decimals) = Raw(total)
  BY DEF AmountInv, Converted
<1>2. text \in Seq(Nat) /\ decimals \in Nat
  BY <1>1, TotalIsText
<1>3. total \in Nat /\ total <= MaxRaw /\ balance \in Nat /\ balance <= MaxRaw
  BY AmountsAssumption DEF AmountInv
<1> DEFINE a == amount_per_recipient_raw
           r == remainder_raw
<1>4. a \in Nat /\ r \in Nat /\ r < NumRecipients /\ a * NumRecipients + r = total
  BY <1>3, Division, PackingAssumption DEF amount_per_recipient_raw, remainder_raw
<1> HIDE DEF a, r
<1>5. a <= total /\ r <= total
  <2> DEFINE e == a * (NumRecipients - 1)
  <2>1. NumRecipients - 1 \in Nat /\ NumRecipients \in Nat
    BY PackingAssumption
  <2>2. e \in Nat /\ a * NumRecipients = a + e
    BY <1>4, <2>1
  <2> HIDE DEF e
  <2> QED
    BY <1>3, <1>4, <2>2
<1>6. \A raw \in {total, balance, a, r} : raw \in Nat /\ raw <= MaxRaw
  BY <1>3, <1>4, <1>5, AmountsAssumption
<1>7. \A raw \in {total, balance, a, r} :
        ui_amount_to_raw(format_raw_amount(raw, decimals), decimals) = Raw(raw)
  BY ONLY <1>2, <1>6, ShownReadsBack
<1> HIDE DEF text
<1>8. total * PowerOfTen(Len(Fractional(text)))
        = Number(Whole(text) \o Fractional(text)) * PowerOfTen(decimals)
  BY ONLY <1>1, <1>2, RawIsAmount
<1> QED
  BY <1>7, <1>8 DEF a, r

\* The amount that is sent is the amount of the configuration, and what is
\* shown of an amount reads back as the amount (ui_amount_to_raw and
\* format_raw_amount, planning.rs:619 and 653): for every text and every number
\* of decimals, not only those of which a unit test thinks.
THEOREM AmountsAreExact == PlanSpec => []ConversionIsExact
<1>1. PlanInit => PhaseOK /\ ConfigInv /\ AmountInv
  BY AmountsAssumption DEF PlanInit, PhaseOK, Phases, ConfigInv, AmountInv, Converted, SourceRead
<1> QED
  BY <1>1, ConfigStep, AmountStep, PhaseStep, ConversionsAreExact, PTL DEF PlanSpec
-----------------------------------------------------------------------------
(* What a process starts with.                                             *)

StartInv ==
  \/ config = {} /\ runtime = {}
  \/ \E file \in Files, env \in Envs :
       /\ validate(file) /\ HasEnv(Validated(file), env)
       /\ config = {Validated(file)} /\ runtime = {Runtime(Validated(file), env)}

LEMMA StartStep == ASSUME StartInv, [PlanNext]_planVars PROVE StartInv'
<1>1. CASE UNCHANGED <<config, runtime>>
  BY <1>1 DEF StartInv
<1>2. CASE Load
  <2>1. ASSUME NEW file \in Files, NEW env \in Envs,
               validate(file), HasEnv(Validated(file), env),
               config' = {Validated(file)}, runtime' = {Runtime(Validated(file), env)}
        PROVE  StartInv'
    BY <2>1 DEF StartInv
  <2> QED
    BY <1>1, <1>2, <2>1 DEF Load
<1>3. CASE Discover \/ ConvertAmount \/ ReadSource \/ ReadChunk \/ PlanRecipients
  BY <1>1, <1>3 DEF Discover, ConvertAmount, ReadSource, ReadChunk, PlanRecipients
<1>4. CASE Pack \/ ReadRent \/ WriteArtifacts \/ ReadBlockhash
  BY <1>1, <1>4 DEF Pack, ReadRent, WriteArtifacts, ReadBlockhash
<1>5. CASE SimulateBatch \/ WriteSimulation \/ RequestFails \/ UNCHANGED planVars
  BY <1>1, <1>5 DEF SimulateBatch, WriteSimulation, RequestFails, planVars
<1> QED
  BY <1>2, <1>3, <1>4, <1>5 DEF PlanNext

LEMMA KeysAreDistinct ==
  ASSUME NEW addresses, parse_unique_addresses(addresses)
  PROVE  Distinct(KeysOf(addresses))
BY DEF parse_unique_addresses, Unique, Distinct, KeysOf

\* An amount that validate_amount took is refused for the decimals alone.
LEMMA RefusedForTheDecimals ==
  ASSUME NEW text \in Seq(Nat), text # <<>>, validate_amount(text), NEW d \in Nat
  PROVE  ui_amount_to_raw(text, d).error = WrongFor(text, d)
<1> DEFINE w == Whole(text)
           f == Fractional(text)
           k == d - Len(f)
           s == w \o f \o Zeros(k)
<1>1. w # <<>> /\ IsDigits(w) /\ IsDigits(f)
  BY ValidIsReadable
<1>2. Len(f) \in Nat
  BY SplitAt
<1>3. CASE Len(f) > d
  BY <1>1, <1>3 DEF ui_amount_to_raw, WrongFor, RawError
<1>4. CASE ~(Len(f) > d)
  <2>1. Len(f) <= d
    BY <1>2, <1>4
  <2>2. Number(trim_zeros(s)) = Number(w \o f) * PowerOfTen(k)
    BY <1>1, <2>1, WidenedAmount
  <2>3. ui_amount_to_raw(text, d)
          = IF Number(trim_zeros(s)) > MaxRaw THEN RawError("AmountExceedsSplTokenLimit")
                                              ELSE Raw(Number(trim_zeros(s)))
    BY <1>1, <1>4 DEF ui_amount_to_raw
  <2>4. WrongFor(text, d) = IF Number(w \o f) * PowerOfTen(k) > MaxRaw
                              THEN "AmountExceedsSplTokenLimit" ELSE "None"
    BY <1>4 DEF WrongFor
  <2> HIDE DEF s, w, f, k
  <2> QED
    BY <2>2, <2>3, <2>4 DEF Raw, RawError
<1> QED
  BY <1>3, <1>4

LEMMA StartIsUsable == ASSUME StartInv PROVE UsableStart
<1> SUFFICES ASSUME NEW c \in config, NEW r \in runtime
             PROVE  /\ Distinct(c.target_token_addresses) /\ Distinct(c.manual_exclude_wallets)
                    /\ \A d \in Decimals :
                         LET converted == ui_amount_to_raw(c.total_amount_ui, d)
                         IN  /\ converted.error = WrongFor(c.total_amount_ui, d)
                             /\ converted.error = "None" => converted.raw > 0
                    /\ c.solscan.enabled <=> HolderClient(r) = "solscan"
                    /\ "" \notin {r.rpc_url} \cup r.solscan_api_key
  BY DEF UsableStart
<1>1. PICK file \in Files, env \in Envs :
        /\ validate(file) /\ HasEnv(Validated(file), env)
        /\ c = Validated(file) /\ r = Runtime(Validated(file), env)
  BY DEF StartInv
<1>2. Distinct(c.target_token_addresses) /\ Distinct(c.manual_exclude_wallets)
  BY <1>1, KeysAreDistinct DEF validate, Validated
<1>3. ASSUME NEW d \in Decimals
      PROVE  LET converted == ui_amount_to_raw(c.total_amount_ui, d)
             IN  /\ converted.error = WrongFor(c.total_amount_ui, d)
                 /\ converted.error = "None" => converted.raw > 0
  <2>1. c.total_amount_ui = trim(file.total_amount_ui) /\ trim(file.total_amount_ui) \in Seq(Nat)
    BY <1>1, TrimIsPart, CreatePlanAssumption DEF Validated
  <2>2. trim(file.total_amount_ui) # <<>> /\ validate_amount(trim(file.total_amount_ui))
    BY <1>1 DEF validate
  <2>3. d \in Nat
    BY CreatePlanAssumption
  <2> QED
    BY <2>1, <2>2, <2>3, ValidIsPositive, RefusedForTheDecimals
<1>4. c.solscan.enabled <=> HolderClient(r) = "solscan"
  <2>1. c.solscan.enabled = file.solscan_enabled /\ file.solscan_enabled \in BOOLEAN
    BY <1>1, CreatePlanAssumption DEF Validated
  <2>2. r.solscan_api_key = IF c.solscan.enabled THEN {env.api_key.word} ELSE {}
    BY <1>1 DEF Runtime
  <2> QED
    BY <2>1, <2>2 DEF HolderClient
<1>5. "" \notin {r.rpc_url} \cup r.solscan_api_key
  <2>1. \A word \in Words : IsSet(word) => word.word # ""
    BY DEF Words, IsSet
  <2>2. env.rpc_url \in Words /\ env.api_key \in Words
    BY CreatePlanAssumption
  <2>3. IsSet(env.rpc_url) /\ (c.solscan.enabled => IsSet(env.api_key))
    BY <1>1 DEF HasEnv
  <2>4. /\ r.rpc_url = env.rpc_url.word
        /\ r.solscan_api_key = IF c.solscan.enabled THEN {env.api_key.word} ELSE {}
    BY <1>1 DEF Runtime
  <2> QED
    BY <2>1, <2>2, <2>3, <2>4
<1> QED
  BY <1>2, <1>3, <1>4, <1>5

\* Of a configuration and an environment that load_runtime (cli.rs:500)
\* accepts, later steps can read everything, and they refuse the amount for
\* the decimals of the token alone, exactly if these cannot hold it
\* (planning.rs:633, 648): whatever the file and the environment hold.
THEOREM AcceptedStartIsUsable == PlanSpec => []UsableStart
<1>1. PlanInit => StartInv
  BY DEF PlanInit, StartInv
<1> QED
  BY <1>1, StartStep, StartIsUsable, PTL DEF PlanSpec
=============================================================================
