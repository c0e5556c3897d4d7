------------------------------- MODULE Amounts -------------------------------
(***************************************************************************)
(* Token amounts between the text of the configuration, the u64 that is    *)
(* sent, and the text that is shown: validate_amount of config.rs and      *)
(* ui_amount_to_raw and format_raw_amount of planning.rs.  A text is a     *)
(* sequence of characters: a digit is its value, others are numbers above. *)
(***************************************************************************)
EXTENDS DecimalStrings

CONSTANT MaxRaw   \* u64::MAX

ASSUME AmountsAssumption == MaxRaw \in Nat \ {0}

Dot    == 10
Blank  == 11   \* any white space
Letter == 12   \* any other character

IsDigits(text) == \A i \in DOMAIN text : text[i] \in Digits

\* The part of a text between its first and last character that is no blank.
trim(text) ==
  LET others == {i \in DOMAIN text : text[i] # Blank}
  IN  IF others = {} THEN <<>> ELSE SubSeq(text, Min(others), Max(others))

\* The trimmed text without the first of its dots, and what is behind it.
Dots(text)  == {i \in DOMAIN text : text[i] = Dot}
Whole(text) == IF Dots(text) = {} THEN text ELSE SubSeq(text, 1, Min(Dots(text)) - 1)
Fractional(text) ==
  IF Dots(text) = {} THEN <<>> ELSE SubSeq(text, Min(Dots(text)) + 1, Len(text))

\* A wrong check, which takes ".5" for an amount.
validate_amount_NoWhole(text) ==
  /\ Cardinality(Dots(text)) <= 1
  /\ \A i \in DOMAIN text : text[i] \in Digits \cup {Dot}
  /\ \E i \in DOMAIN text : text[i] \in Digits \ {0}
  /\ text[Len(text)] # Dot

validate_amount(text) ==
  /\ Cardinality(Dots(text)) <= 1
  /\ \A i \in DOMAIN text : text[i] \in Digits \cup {Dot}
  /\ \E i \in DOMAIN text : text[i] \in Digits \ {0}
  /\ text[1] # Dot /\ text[Len(text)] # Dot

\* A raw amount, or why there is none.
Raw(amount)   == [error |-> "None", raw |-> amount]
RawError(why) == [error |-> why, raw |-> 0]

\* A wrong conversion, which does not widen the fraction to all decimals.
ui_amount_to_raw_Unscaled(text, decimals) ==
  IF Whole(text) = <<>> \/ ~IsDigits(Whole(text)) \/ ~IsDigits(Fractional(text))
    THEN RawError("InvalidUiAmount")
  ELSE IF Len(Fractional(text)) > decimals THEN RawError("TooManyFractionalDigits")
  ELSE IF Number(Whole(text) \o Fractional(text)) > MaxRaw
    THEN RawError("AmountExceedsSplTokenLimit")
  ELSE Raw(Number(Whole(text) \o Fractional(text)))

\* The digits before and behind the dot and zeros up to the decimals, parsed
\* as a u64.
ui_amount_to_raw(text, decimals) ==
  LET fractional == Fractional(text)
      digits == trim_zeros(Whole(text) \o fractional \o Zeros(decimals - Len(fractional)))
  IN  IF Whole(text) = <<>> \/ ~IsDigits(Whole(text)) \/ ~IsDigits(fractional)
        THEN RawError("InvalidUiAmount")
      ELSE IF Len(fractional) > decimals THEN RawError("TooManyFractionalDigits")
      ELSE IF Number(digits) > MaxRaw    THEN RawError("AmountExceedsSplTokenLimit")
      ELSE Raw(Number(digits))

\* The digits of a number.
ToDigits(n) ==
  LET places == CHOOSE p \in 1 .. n + 1 : n < PowerOfTen(p) /\ (p = 1 \/ n >= PowerOfTen(p - 1))
  IN  [i \in 1 .. places |-> (n \div PowerOfTen(places - i)) % 10]

\* trim_end_matches('0')
trim_end(text) ==
  LET others == {i \in DOMAIN text : text[i] # 0}
  IN  IF others = {} THEN <<>> ELSE SubSeq(text, 1, Max(others))

format_raw_amount(raw, decimals) ==
  LET digits == ToDigits(raw)
      padded == IF Len(digits) > decimals THEN digits
                ELSE <<0>> \o Zeros(decimals - Len(digits)) \o digits
      whole  == SubSeq(padded, 1, Len(padded) - decimals)
      rest   == trim_end(SubSeq(padded, Len(padded) - decimals + 1, Len(padded)))
  IN  IF rest = <<>> THEN whole ELSE whole \o <<Dot>> \o rest

\* parse_u64_token_amount of what the RPC node says a token account holds.
parse_u64_token_amount(text) ==
  IF text = <<>> \/ ~IsDigits(text) \/ Number(text) > MaxRaw
    THEN RawError("InvalidRawAmount") ELSE Raw(Number(text))
=============================================================================
