--------------------------- MODULE AmountExchange ----------------------------
(***************************************************************************)
(* One amount that is read and written by Go and TypeScript programs in    *)
(* turn: a text is parsed into atomic units, those are formatted, and the  *)
(* new text is parsed again, by either; and what the payment page signs    *)
(* and shows for the text, when it stands in payment requirements.         *)
(***************************************************************************)
EXTENDS Amounts

CONSTANTS
  Texts,   \* the texts that a price may be configured with
  MaxSafe  \* Number.MAX_SAFE_INTEGER: 2^53 - 1

ASSUME MaxSafeAssumption == MaxSafe \in Nat
ASSUME TextsAssumption == \A t \in Texts : IsText(t)

VARIABLES
  decimals,  \* of the token
  text,      \* the amount as it is written
  goUnits,   \* what the Go parser last made of the text, Fail if nothing
  jsUnits,   \* and the TypeScript parser
  origin,    \* the units that the text was formatted from, Fail if it was configured
  signed,    \* the amount that the page last signed for the text, likewise
  shown      \* how it displayed the text, a set of at most one

exchangeVars == <<decimals, text, goUnits, jsUnits, origin, signed, shown>>

ExchangeInit ==
  /\ decimals \in Decimals
  /\ text \in Texts
  /\ goUnits = Fail
  /\ jsUnits = Fail
  /\ origin = Fail
  /\ signed = Fail
  /\ shown = {}

GoReads ==
  /\ goUnits' = GoParseAmount(text, decimals)
  /\ UNCHANGED <<decimals, text, jsUnits, origin, signed, shown>>

JsReads ==
  /\ jsUnits' = JsParseAmount(text, decimals)
  /\ UNCHANGED <<decimals, text, goUnits, origin, signed, shown>>

Write(n, newText) ==
  /\ origin' = {n}
  /\ text' = newText
  /\ goUnits' = Fail
  /\ jsUnits' = Fail
  /\ signed' = Fail
  /\ shown' = {}
  /\ UNCHANGED decimals

GoWrites(n) == Write(n, GoFormatAmount(n, decimals))

JsWrites(n) == Write(n, JsFormatAmount(n, decimals))

PageSigns ==
  /\ signed' = PageParseAmount(text, MaxSafe)
  /\ UNCHANGED <<decimals, text, goUnits, jsUnits, origin, shown>>

\* An amount that is no string of digits is shown as it is.
PageShows ==
  /\ shown' = {IF AllDigits(Characters(text)) THEN FormatDisplay(text.whole, decimals) ELSE text}
  /\ UNCHANGED <<decimals, text, goUnits, jsUnits, origin, signed>>

ExchangeNext ==
  \/ GoReads
  \/ JsReads
  \/ PageSigns
  \/ PageShows
  \/ \E n \in goUnits : GoWrites(n)
  \/ \E n \in jsUnits : JsWrites(n)

ExchangeSpec == ExchangeInit /\ [][ExchangeNext]_exchangeVars

-----------------------------------------------------------------------------
(* Properties.                                                             *)

\* A price in plain decimals, digits around one point, is read by both languages as
\* its multiple of 10^decimals rounded down, never up; only without any decimals does
\* the Go parser refuse what is left of the fraction.
PlainTextIsRoundedDown ==
  /\ text.point /\ AllDigits(text.whole) /\ AllDigits(text.frac)
  => LET exact    == DigitsValue(text.whole \o text.frac) * PowerOfTen[decimals]
         expected == {exact \div PowerOfTen[Len(text.frac)]}
     IN  /\ JsParseAmount(text, decimals) = expected
         /\ GoParseAmount(text, decimals) = IF decimals = 0 THEN Fail ELSE expected

\* No text means two amounts: where both parsers accept one, however oddly written,
\* they read the same units, so a merchant cannot ask for one amount from a Go server
\* and another from a TypeScript server with the same configuration.
ReadersAgree ==
  goUnits # Fail /\ jsUnits # Fail => goUnits = jsUnits

\* An amount that was formatted with a fraction is read back as the same units, by both
\* parsers and whichever program wrote it.  One without is written without a point, and
\* may be read back as its quotient by the unit, but as nothing else: a merchant may end
\* up asking for too little, and no payer is asked for too much.
NeverReadsBackAsMore ==
  \A n \in origin : n >= 0 =>
    /\ text.point => GoParseAmount(text, decimals) = {n} /\ JsParseAmount(text, decimals) = {n}
    /\ \A m \in goUnits \cup jsUnits : m = n \/ m * PowerOfTen[decimals] = n

\* The page signs the number that the verifiers read from the same text, where they read
\* one: a double, a BigInt and a big.Int never are three amounts (SignTypedData.tsx,
\* lines 105, 133 and 158, where the text itself goes into the payload).
PageSignsWhatIsRead ==
  \A n \in signed :
    SetString(Characters(text)) \subseteq {n} /\ BigIntOf(Characters(text)) \subseteq {n}

WithoutPoints(s) ==
  FlattenSeq([i \in DOMAIN s |-> IF s[i] = Point THEN <<>> ELSE <<s[i]>>])

\* What the page displays of an amount in atomic units reads back as that amount: there
\* is a digit before the comma, as many digits after it as the token has decimals, and
\* the points before it stand at the thousands.
DisplayReadsBack ==
  AllDigits(Characters(text)) => \A x \in shown :
    LET digits == WithoutPoints(x.whole)
    IN  /\ AllDigits(digits) /\ Len(x.frac) = decimals
        /\ DigitsValue(digits \o x.frac) = DigitsValue(text.whole)
        /\ \A i \in DOMAIN x.whole : x.whole[i] = Point <=> (Len(x.whole) - i) % 4 = 3
=============================================================================
