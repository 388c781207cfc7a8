------------------------------- MODULE Amounts -------------------------------
(***************************************************************************)
(* ParseAmount and FormatAmount of both languages: between the text of an  *)
(* amount, as a price is configured or shown, and the token's atomic units. *)
(*                                                                         *)
(* A text is its part before the first point, whether there is a point,    *)
(* and its part after it.  The parts are sequences of characters: digits,  *)
(* signs, further points and anything else.  White space around the text,  *)
(* which both parsers trim, is left out.  A parser's result is a set: of   *)
(* one number, or empty for an error.                                      *)
(***************************************************************************)
EXTENDS Integers, Sequences, SequencesExt

CONSTANT Decimals  \* the decimals that a token may have

ASSUME DecimalsAssumption == Decimals \subseteq Nat

Digit == 0..9
Minus == 10
Plus  == 11
Point == 12
Other == 13

Character == Digit \cup {Minus, Plus, Point, Other}

Text(whole, point, frac) == [whole |-> whole, point |-> point, frac |-> frac]

\* The point between the two parts is the first one, and without it there is one part.
IsText(text) ==
  /\ text = Text(text.whole, text.point, text.frac)
  /\ text.point \in BOOLEAN
  /\ text.whole \in Seq(Character \ {Point})
  /\ text.frac \in Seq(Character)
  /\ ~text.point => text.frac = <<>>

Fail == {}

AllDigits(s) == s # <<>> /\ ToSet(s) \subseteq Digit   \* /^\d+$/

DigitsValue(s) ==
  LET value[i \in 0..Len(s)] == IF i = 0 THEN 0 ELSE 10 * value[i - 1] + s[i]
  IN  value[Len(s)]

\* 10^n
PowerOfTen[n \in Nat] == IF n = 0 THEN 1 ELSE 10 * PowerOfTen[n - 1]

DigitsOf[n \in Nat] == IF n < 10 THEN <<n>> ELSE Append(DigitsOf[n \div 10], n % 10)

Zeros(n) == [i \in 1..n |-> 0]

\* The text of an integer: big.Int.String(), BigInt.prototype.toString().
IntegerText(n) == IF n < 0 THEN <<Minus>> \o DigitsOf[-n] ELSE DigitsOf[n]

\* big.Int.SetString(s, 10): digits that may have one sign before them.
SetString(s) ==
  IF AllDigits(s) THEN {DigitsValue(s)}
  ELSE IF s # <<>> /\ Head(s) \in {Minus, Plus} /\ AllDigits(Tail(s))
       THEN {IF Head(s) = Minus THEN -DigitsValue(Tail(s)) ELSE DigitsValue(Tail(s))}
       ELSE Fail

\* The first `decimals` characters of a fraction, filled up with zeros.
Scaled(frac, decimals) ==
  IF Len(frac) > decimals THEN SubSeq(frac, 1, decimals)
  ELSE frac \o Zeros(decimals - Len(frac))

-----------------------------------------------------------------------------
(* Parsing.  A text without a point is in atomic units already.            *)

\* Mutation: a fraction longer than the decimals is not cut.
GoParseAmountUncut(text, decimals) ==
  IF ~text.point THEN SetString(text.whole)
  ELSE {n * PowerOfTen[decimals] + f : n \in SetString(text.whole),
                              f \in SetString(text.frac \o Zeros(decimals - Len(text.frac)))}

GoParseAmount(text, decimals) ==
  IF ~text.point THEN SetString(text.whole)
  ELSE IF text.frac = <<>> THEN {n * PowerOfTen[decimals] : n \in SetString(text.whole)}
  ELSE {n * PowerOfTen[decimals] + f : n \in SetString(text.whole),
                              f \in SetString(Scaled(text.frac, decimals))}

\* trimmed.split(".") is taken for its first two parts.
FirstFraction(frac) ==
  LET points == {i \in DOMAIN frac : frac[i] = Point}
  IN  IF points = {} THEN frac
      ELSE SubSeq(frac, 1, (CHOOSE i \in points : \A j \in points : i <= j) - 1)

\* Mutation: the fraction is not filled up to the decimals.
JsParseAmountUnpadded(text, decimals) ==
  IF ~text.point THEN (IF AllDigits(text.whole) THEN {DigitsValue(text.whole)} ELSE Fail)
  ELSE LET frac == FirstFraction(text.frac)
       IN  IF \A part \in {text.whole, frac} : part = <<>> \/ AllDigits(part)
           THEN {DigitsValue(text.whole) * PowerOfTen[decimals] + DigitsValue(frac)}
           ELSE Fail

JsParseAmount(text, decimals) ==
  IF ~text.point THEN (IF AllDigits(text.whole) THEN {DigitsValue(text.whole)} ELSE Fail)
  ELSE LET frac == FirstFraction(text.frac)
       IN  IF \A part \in {text.whole, frac} : part = <<>> \/ AllDigits(part)
           THEN {DigitsValue(text.whole) * PowerOfTen[decimals] + DigitsValue(Scaled(frac, decimals))}
           ELSE Fail

-----------------------------------------------------------------------------
(* Formatting.                                                             *)

\* strings.TrimRight(s, "0"), replace(/0+$/, "").
TrimZeros(s) ==
  LET kept == {i \in DOMAIN s : s[i] # 0}
  IN  IF kept = {} THEN <<>> ELSE SubSeq(s, 1, CHOOSE i \in kept : \A j \in kept : i >= j)

\* padStart(width, "0"), %0*s.
PadStart(s, width) == Zeros(width - Len(s)) \o s

FormatParts(quotient, remainder, decimals) ==
  IF remainder = 0 THEN Text(IntegerText(quotient), FALSE, <<>>)
  ELSE Text(IntegerText(quotient), TRUE,
            TrimZeros(PadStart(IntegerText(remainder), decimals)))

\* Mutation: the remainder is written without its leading zeros.
GoFormatAmountUnpadded(n, decimals) ==
  FormatParts(n \div PowerOfTen[decimals], n % PowerOfTen[decimals], 0)

\* big.Int.DivMod is Euclidean, as \div and % are for a positive divisor.
GoFormatAmount(n, decimals) == FormatParts(n \div PowerOfTen[decimals], n % PowerOfTen[decimals], decimals)

\* The operators / and % of BigInt round towards zero.
Truncated(n, divisor) == IF n < 0 THEN -((-n) \div divisor) ELSE n \div divisor

JsFormatAmount(n, decimals) ==
  LET quotient == Truncated(n, PowerOfTen[decimals])
  IN  FormatParts(quotient, n - quotient * PowerOfTen[decimals], decimals)

-----------------------------------------------------------------------------
(* The payment page of the CSPR.click example, which signs an amount as a  *)
(* number and shows it in groups of three digits.                          *)

Characters(text) ==
  IF text.point THEN text.whole \o <<Point>> \o text.frac ELSE text.whole

UnsignedPart(s) == IF s # <<>> /\ Head(s) \in {Minus, Plus} THEN Tail(s) ELSE s

Signed(s, n) == IF s # <<>> /\ Head(s) = Minus THEN -n ELSE n

\* BigInt(s): as big.Int.SetString, and an empty text is zero.
BigIntOf(s) == IF s = <<>> THEN {0} ELSE SetString(s)

\* Number(s), where it is a whole number: nothing but zeros after the point.
NumberOf(text) ==
  LET digits == UnsignedPart(text.whole) \o text.frac
  IN  {n \in {Signed(text.whole, DigitsValue(UnsignedPart(text.whole)))} :
         /\ AllDigits(digits) \/ Characters(text) = <<>>
         /\ ToSet(text.frac) \subseteq {0}}

\* Mutation: no look at isSafeInteger; beyond it only even numbers exist.
PageParseAmountRounded(text, maxSafe) ==
  {IF n > maxSafe THEN n - (n % 2) ELSE n : n \in {m \in NumberOf(text) : m >= 0}}

PageParseAmount(text, maxSafe) == NumberOf(text) \cap 0..maxSafe

\* replace(/\B(?=(\d{3})+(?!\d))/g, "."): a point where a multiple of three follows.
Grouped(digits) ==
  FlattenSeq([i \in DOMAIN digits |->
    IF i > 1 /\ (Len(digits) - i + 1) % 3 = 0 THEN <<Point, digits[i]>> ELSE <<digits[i]>>])

\* replace(/^0+(?=\d)/, "")
TrimLeadingZeros(s) ==
  LET kept == {i \in DOMAIN s : s[i] # 0} \cup {Len(s)}
  IN  SubSeq(s, CHOOSE i \in kept : \A j \in kept : i <= j, Len(s))

\* Mutation: the amount is not filled up to one digit more than the decimals.
FormatDisplayUnpadded(digits, decimals) ==
  LET padded == PadStart(digits, decimals)
      cut    == Len(padded) - decimals
  IN  Text(IF cut = 0 THEN <<>> ELSE Grouped(TrimLeadingZeros(SubSeq(padded, 1, cut))),
           decimals > 0, SubSeq(padded, cut + 1, Len(padded)))

\* formatDisplayAmount of digits; here the point of a text stands for a comma.
FormatDisplay(digits, decimals) ==
  LET padded == PadStart(digits, decimals + 1)
      cut    == Len(padded) - decimals
  IN  Text(Grouped(TrimLeadingZeros(SubSeq(padded, 1, cut))),
           decimals > 0, SubSeq(padded, cut + 1, Len(padded)))
=============================================================================
