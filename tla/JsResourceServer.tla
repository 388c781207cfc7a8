-------------------------- MODULE JsResourceServer ---------------------------
(***************************************************************************)
(* The TypeScript exact scheme in a resource server.  Requests interleave  *)
(* at the awaits only: after parsePrice, and before the answer is written. *)
(* Their requirements get a copy of the price's extra object.              *)
(***************************************************************************)
EXTENDS ResourceServer

jsVars == <<config, requests>>

JsInit == ServerInit /\ maps = PriceMaps

registerMoneyParser(parser) == AddParser(parser)

registerAsset(key, d) == AddDecimals(key, d)

listen == Serve

\* The parsers decide at once here: nothing they see can change between their awaits.
parsePrice(c, rt) ==
  /\ serving /\ pc[c] = "idle"
  /\ route' = [route EXCEPT ![c] = {rt}]
  /\ wanted' = [wanted EXCEPT ![c] = JsParsePrice(rt, moneyParsers)]
  /\ Goes(c, IF JsParsePrice(rt, moneyParsers) = Fail THEN "refused" ELSE "priced")
  /\ UNCHANGED <<config, maps, answer>>

Forwarded(extra, network) ==
  [key \in DOMAIN extra |->
     IF key \in ForwardedKeys(network) THEN SupportedExtra[network][key] ELSE extra[key]]

\* amount.includes needs a string.
JsUnits(rt, a) ==
  IF rt.price.kind = "explicit" /\ ~rt.price.isString THEN Fail
  ELSE JsAmount(a.amount, GetAssetDecimals(assetDecimals, a.asset, rt.network))

Refuses(rt, a) == ~Publishable(a.asset, rt.payTo, Contents(a)) \/ JsUnits(rt, a) = Fail

\* Mutation: the values go into the price's own object, if it has none yet.
enhanceInPlace(c) ==
  /\ pc[c] = "priced"
  /\ \E rt \in route[c], a \in wanted[c] :
       LET extra == IF Contents(a).feePayer = "" THEN Forwarded(Contents(a), rt.network)
                    ELSE Contents(a)
       IN  IF Refuses(rt, a)
           THEN Goes(c, "refused") /\ UNCHANGED <<maps, answer>>
           ELSE /\ \E u \in JsUnits(rt, a) :
                     answer' = [answer EXCEPT ![c] = {Publication(rt, a.asset, u, extra)}]
                /\ maps' = [m \in DOMAIN maps |-> IF m = a.extra THEN extra ELSE maps[m]]
                /\ Goes(c, "answered")
  /\ UNCHANGED <<config, route, wanted>>

enhancePaymentRequirements(c) ==
  /\ pc[c] = "priced"
  /\ \E rt \in route[c], a \in wanted[c] :
       IF Refuses(rt, a)
       THEN Goes(c, "refused") /\ UNCHANGED answer
       ELSE /\ \E u \in JsUnits(rt, a) : answer' = [answer EXCEPT ![c] =
                 {Publication(rt, a.asset, u, Forwarded(Contents(a), rt.network))}]
            /\ Goes(c, "answered")
  /\ UNCHANGED <<config, maps, route, wanted>>

JsNext ==
  \/ \E parser \in Parsers : registerMoneyParser(parser)
  \/ \E key \in Registrable, d \in Decimals : registerAsset(key, d)
  \/ listen
  \/ \E c \in Requests :
       \/ \E rt \in Routes : parsePrice(c, rt)
       \/ enhancePaymentRequirements(c)

JsSpec == JsInit /\ [][JsNext]_jsVars

-----------------------------------------------------------------------------
(* Properties.                                                             *)

\* A client is told the fee payer, and whatever else the facilitator announces, of the
\* network it is to pay on, even by routes whose prices share one object: the values are
\* written into a copy.
JsForwardsItsOwnNetwork ==
  \A c \in Requests : \A x \in answer[c], rt \in route[c] :
    \A key \in ForwardedKeys(rt.network) : x[key] = SupportedExtra[rt.network][key]

\* A Go server with the same configuration never publishes something else: for a route
\* that this server has answered it parses the same price, unless that is explicit and
\* malformed, and converts the amount to the same units, unless it refuses the text.
GoServerPublishesTheSame ==
  \A c \in Requests : \A x \in answer[c], rt \in route[c], a \in wanted[c] :
    /\ GoParsePrice(rt, moneyParsers) = {a}
    /\ \A u \in GoAmount(a.amount, GetAssetDecimals(assetDecimals, a.asset, rt.network)) :
         u = x.amount

\* A price that is less than one atomic unit is rounded down to nothing, and published
\* as the "0" that every verifier refuses, never as a zero that they do not recognise,
\* for they look at its spelling only (AmountPresent; facilitator scheme.ts, line 188).
ConvertedZeroIsRefused ==
  \A c \in Requests : \A x \in answer[c], a \in wanted[c] :
    a.amount.point /\ DigitsValue(x.amount.whole) = 0 => x.amount.whole = <<0>>
=============================================================================
