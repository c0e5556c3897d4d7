--------------------------- MODULE DecimalStrings ---------------------------
(***************************************************************************)
(* Amounts as the strings of digits that the program computes with, where  *)
(* the numbers may be too large for any integer: scale_raw_amount_string,  *)
(* add_decimal_strings and compare_decimal_strings of discovery.rs.        *)
(***************************************************************************)
EXTENDS Naturals, FiniteSets, Sequences, FiniteSetsExt

Digits == 0 .. 9

\* What a string of digits stands for; 0 for the empty one.
Number(s) ==
  LET value[i \in 0 .. Len(s)] == IF i = 0 THEN 0 ELSE value[i - 1] * 10 + s[i]
  IN  value[Len(s)]

\* What a place is worth, n places from the right.
PowerOfTen(n) ==
  LET power[i \in 0 .. n] == IF i = 0 THEN 1 ELSE power[i - 1] * 10
  IN  power[n]

Zeros(n) == [i \in 1 .. n |-> 0]

\* trim_start_matches('0'), with "0" for what would be empty.
trim_zeros(s) ==
  LET others == {i \in DOMAIN s : s[i] # 0}
  IN  IF others = {} THEN <<0>> ELSE SubSeq(s, Min(others), Len(s))

scale_raw_amount_string(s, zero_count) ==
  IF trim_zeros(s) = <<0>> THEN <<0>> ELSE trim_zeros(s) \o Zeros(zero_count)

\* The digit at a place from the right, 0 beyond the first.
digit_at(s, place) == IF place <= Len(s) THEN s[Len(s) + 1 - place] ELSE 0

\* A wrong sum, which drops what is carried out of the first place.
add_decimal_strings_NoCarryOut(left, right) ==
  LET places == Max({Len(left), Len(right)})
      carry[place \in 0 .. places] ==
        IF place = 0 THEN 0
        ELSE (digit_at(left, place) + digit_at(right, place) + carry[place - 1]) \div 10
  IN  [i \in 1 .. places |->
         LET place == places + 1 - i
         IN  (digit_at(left, place) + digit_at(right, place) + carry[place - 1]) % 10]

\* The loop over the places, which ends after both strings and the carry.
add_decimal_strings(left, right) ==
  LET places == Max({Len(left), Len(right)})
      carry[place \in 0 .. places] ==
        IF place = 0 THEN 0
        ELSE (digit_at(left, place) + digit_at(right, place) + carry[place - 1]) \div 10
      length == places + carry[places]
  IN  [i \in 1 .. length |->
         LET place == length + 1 - i
         IN  IF place > places THEN carry[places]
             ELSE (digit_at(left, place) + digit_at(right, place) + carry[place - 1]) % 10]

\* compare_decimal_strings(left, right) = Ordering::Less.
decimal_less(left, right) ==
  LET l == trim_zeros(left)
      r == trim_zeros(right)
  IN  \/ Len(l) < Len(r)
      \/ /\ Len(l) = Len(r)
         /\ \E i \in DOMAIN l : l[i] < r[i] /\ \A j \in 1 .. i - 1 : l[j] = r[j]
=============================================================================
