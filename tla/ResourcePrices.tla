--------------------------- MODULE ResourcePrices ----------------------------
(***************************************************************************)
(* What a resource server's exact scheme makes of a price, in Go and in    *)
(* TypeScript: ParsePrice turns it into an amount of an asset, and         *)
(* EnhancePaymentRequirements checks and completes what is published.      *)
(*                                                                         *)
(* A route has a network, a payTo and a price: either "explicit", an asset *)
(* amount, or "money", which the registered money parsers are asked about. *)
(* The extra of an asset amount is a reference to a map of strings, or     *)
(* NoMap: who shares a map with whom is what the languages differ in.  A   *)
(* result is a set: of one asset amount, or empty for an error.            *)
(***************************************************************************)
EXTENDS ExactClient, Amounts

CONSTANTS
  NoMap,             \* extra is missing
  DefaultDecimals,   \* of an asset nobody has registered: 9 in the code
  ExtensionKeys,     \* the extensions the resource server supports
  SupportedExtra     \* for each network, the extra of the facilitator's kind

ASSUME DefaultDecimalsAssumption == DefaultDecimals \in Nat

AssetAmount(amount, asset, extra) == [amount |-> amount, asset |-> asset, extra |-> extra]

\* A map without entries; "" is a key that is missing or has no string.
EmptyExtra == [name |-> "", version |-> "", feePayer |-> ""]

GetAssetDecimals(assetDecimals, asset, network) ==
  IF <<network, asset>> \in DOMAIN assetDecimals
  THEN assetDecimals[<<network, asset>>]
  ELSE DefaultDecimals

\* The outcomes of a money parser: an answer, nil or null, an error.
Answers == "answers"
Skips   == "skips"
Errs    == "errs"

\* The answer of the first parser whose outcome is not among those passed over.
AskParsers(parsers, network, passedOver) ==
  LET heard == {i \in DOMAIN parsers : parsers[i].outcome[network] \notin passedOver}
  IN  {parsers[i].answer :
         i \in {k \in heard : /\ \A j \in heard : k <= j
                              /\ parsers[k].outcome[network] = Answers}}

GoParsePrice(route, parsers) ==
  LET price == route.price
  IN  IF price.kind = "explicit"
      THEN {a \in {price.asked} : price.isString /\ IsValidContractPackageHash(a.asset)}
      ELSE IF price.readable
           THEN AskParsers(parsers, route.network, {Skips, Errs})
           ELSE Fail

\* The error of a parser is not caught.  (Nor is the amount's type looked at here:
\* enhancePaymentRequirements throws when the amount has no includes.)
JsParsePrice(route, parsers) ==
  LET price == route.price
  IN  IF price.kind = "explicit"
      THEN {a \in {price.asked} : IsValidContractPackageHash(a.asset)}
      ELSE IF price.readable
           THEN AskParsers(parsers, route.network, {Skips})
           ELSE Fail

-----------------------------------------------------------------------------
(* EnhancePaymentRequirements.                                             *)

InUnits(units) == {Text(IntegerText(n), FALSE, <<>>) : n \in units}

GoAmount(amount, decimals) ==
  IF amount.point THEN InUnits(GoParseAmount(amount, decimals)) ELSE {amount}

\* Mutation: the digits before and after the point are written one after the other.
JsAmountConcatenated(amount, decimals) ==
  IF amount.point THEN {Text(amount.whole \o Scaled(FirstFraction(amount.frac), decimals), FALSE, <<>>)}
  ELSE {amount}

JsAmount(amount, decimals) ==
  IF amount.point THEN InUnits(JsParseAmount(amount, decimals)) ELSE {amount}

\* Mutation: the token's name is not looked for.
PublishableUnnamed(asset, payTo, extra) ==
  IsValidContractPackageHash(asset) /\ IsValidAddress(payTo) /\ extra.version # ""

\* The checks both languages make around the conversion of the amount.
Publishable(asset, payTo, extra) ==
  /\ IsValidContractPackageHash(asset)
  /\ IsValidAddress(payTo)
  /\ extra.name # ""
  /\ extra.version # ""

ForwardedKeys(network) == ExtensionKeys \cap DOMAIN SupportedExtra[network]

\* Requirements as they are published, with what their extra map holds by then.
Publication(route, asset, amount, extra) ==
  [scheme |-> Exact, network |-> route.network, payTo |-> route.payTo,
   asset |-> asset, amount |-> amount, maxTimeout |-> route.maxTimeout,
   name |-> extra.name, version |-> extra.version, feePayer |-> extra.feePayer]
=============================================================================
