-------------------------- MODULE GoResourceServer ---------------------------
(***************************************************************************)
(* The Go exact scheme in a resource server: it is configured, and then    *)
(* concurrent requests for its routes are answered with payment            *)
(* requirements.  A request parses the route's price and completes the     *)
(* requirements, writing extension values into their Extra map.  That map  *)
(* is not copied: when an explicit price was given one, or a money parser  *)
(* hands out one it keeps, all requests so priced write into it.           *)
(***************************************************************************)
EXTENDS ResourceServer

CONSTANT
  FreshMaps  \* of PriceMaps, those that a money parser makes anew for each answer

\* What an explicit price was given is never one of them.
ASSUME FreshAssumption ==
  /\ FreshMaps \subseteq DOMAIN PriceMaps
  /\ \A rt \in Routes : rt.price.kind = "explicit" => rt.price.asked.extra \notin FreshMaps

VARIABLES
  pending,  \* extension keys each request has yet to write
  crashed,  \* whether the Go runtime has ended the process
  writers   \* auxiliary: who has written into the map of a request since it was checked

goVars == <<config, requests, pending, crashed, writers>>

\* Each request has an Extra map of its own beside those of the prices.
GoInit ==
  /\ ServerInit
  /\ maps = [m \in DOMAIN PriceMaps \cup Requests |->
               IF m \in Requests THEN EmptyExtra ELSE PriceMaps[m]]
  /\ pending = [c \in Requests |-> {}]
  /\ crashed = FALSE
  /\ writers = [c \in Requests |-> {}]

RegisterMoneyParser(parser) == AddParser(parser) /\ UNCHANGED <<pending, crashed, writers>>

RegisterAsset(key, d) == AddDecimals(key, d) /\ UNCHANGED <<pending, crashed, writers>>

Listen == Serve /\ UNCHANGED <<pending, crashed, writers>>

-----------------------------------------------------------------------------
(* Requests.                                                               *)

\* Mutation: such a parser makes its map once, when it is made itself.
OwnMapOnceMade(a) == a.extra = NoMap

\* Whether the map is this request's own: without an extra the scheme makes one, and a
\* parser may, as the example's does.  Any other is used as it is.
OwnMap(a) == a.extra = NoMap \/ a.extra \in FreshMaps

ParsePrice(c, rt) ==
  /\ serving /\ ~crashed /\ pc[c] = "idle"
  /\ route' = [route EXCEPT ![c] = {rt}]
  /\ \/ /\ GoParsePrice(rt, moneyParsers) = Fail
        /\ Goes(c, "refused")
        /\ UNCHANGED <<maps, wanted>>
     \/ \E a \in GoParsePrice(rt, moneyParsers) :
          /\ Goes(c, "priced")
          /\ IF OwnMap(a)
             THEN /\ maps' = [maps EXCEPT ![c] = Contents(a)]
                  /\ wanted' = [wanted EXCEPT ![c] = {[a EXCEPT !.extra = c]}]
             ELSE /\ maps' = maps
                  /\ wanted' = [wanted EXCEPT ![c] = {a}]
  /\ UNCHANGED <<config, pending, answer, crashed, writers>>

GoUnits(rt, a) == GoAmount(a.amount, GetAssetDecimals(assetDecimals, a.asset, rt.network))

EnhancePaymentRequirements(c) ==
  /\ ~crashed /\ pc[c] = "priced"
  /\ \E rt \in route[c], a \in wanted[c] :
       IF Publishable(a.asset, rt.payTo, maps[a.extra]) /\ GoUnits(rt, a) # Fail
       THEN /\ \E u \in GoUnits(rt, a) : wanted' = [wanted EXCEPT ![c] = {[a EXCEPT !.amount = u]}]
            /\ pending' = [pending EXCEPT ![c] = ForwardedKeys(rt.network)]
            /\ Goes(c, "forwarding")
       ELSE /\ Goes(c, "refused")
            /\ UNCHANGED <<wanted, pending>>
  /\ UNCHANGED <<config, maps, route, answer, crashed, writers>>

Forwards(d, m) == pc[d] = "forwarding" /\ \E b \in wanted[d] : b.extra = m

Written(c, m) ==
  writers' = [d \in Requests |-> writers[d] \cup (IF Forwards(d, m) THEN {c} ELSE {})]

\* Mutation: a value that is there already is left alone.
ForwardMissingKey(c, key) ==
  /\ ~crashed /\ pc[c] = "forwarding" /\ key \in pending[c]
  /\ \E rt \in route[c], a \in wanted[c] :
       /\ maps' = [maps EXCEPT ![a.extra][key] =
                     IF @ = "" THEN SupportedExtra[rt.network][key] ELSE @]
       /\ Written(c, a.extra)
  /\ pending' = [pending EXCEPT ![c] = @ \ {key}]
  /\ UNCHANGED <<config, pc, route, wanted, answer, crashed>>

\* requirements.Extra[key] = value, the next time around the loop.
ForwardKey(c, key) ==
  /\ ~crashed /\ pc[c] = "forwarding" /\ key \in pending[c]
  /\ \E rt \in route[c], a \in wanted[c] :
       /\ maps' = [maps EXCEPT ![a.extra][key] = SupportedExtra[rt.network][key]]
       /\ Written(c, a.extra)
  /\ pending' = [pending EXCEPT ![c] = @ \ {key}]
  /\ UNCHANGED <<config, pc, route, wanted, answer, crashed>>

\* The x402 library writes the requirements out, reading the map.
Publish(c) ==
  /\ ~crashed /\ pc[c] = "forwarding" /\ pending[c] = {}
  /\ \E rt \in route[c], a \in wanted[c] :
       answer' = [answer EXCEPT ![c] = {Publication(rt, a.asset, a.amount, maps[a.extra])}]
  /\ Goes(c, "answered")
  /\ UNCHANGED <<config, maps, route, wanted, pending, crashed, writers>>

UsesMap(c, m) == pc[c] \in {"priced", "forwarding"} /\ \E a \in wanted[c] : a.extra = m

\* One request writes into a map that another is about to use, with nothing between
\* them: when the runtime notices, it ends the process.
MapRace(c, d) ==
  /\ ~crashed /\ c # d
  /\ pc[c] = "forwarding" /\ pending[c] # {}
  /\ \E a \in wanted[c] : UsesMap(d, a.extra)
  /\ crashed' = TRUE
  /\ UNCHANGED <<config, maps, pc, route, wanted, pending, answer, writers>>

GoNext ==
  \/ \E parser \in Parsers : RegisterMoneyParser(parser)
  \/ \E key \in Registrable, d \in Decimals : RegisterAsset(key, d)
  \/ Listen
  \/ \E c \in Requests :
       \/ \E rt \in Routes : ParsePrice(c, rt)
       \/ EnhancePaymentRequirements(c)
       \/ \E key \in ExtensionKeys : ForwardKey(c, key)
       \/ Publish(c)
       \/ \E d \in Requests : MapRace(c, d)

GoSpec == GoInit /\ [][GoNext]_goVars

-----------------------------------------------------------------------------
(* Properties.                                                             *)

\* The maps that outlive a request: those of explicit prices, and those that parsers keep.
LongLived == DOMAIN PriceMaps \ FreshMaps

\* A request for a route on another network has written into the map of request c, which
\* outlives both, while c was under way.
WrittenFromElsewhere(c) ==
  /\ \E a \in wanted[c] : a.extra \in LongLived
  /\ \E d \in writers[c] : \E rt \in route[c], other \in route[d] : other.network # rt.network

\* A client is told the fee payer, and whatever else the facilitator announces, of the
\* network it is to pay on, whatever earlier requests have left in the map.  Only into a
\* map that outlives the request can another network's values come, and only from a
\* request that runs beside this one.
GoForwardsItsOwnNetwork ==
  \A c \in Requests : \A x \in answer[c], rt \in route[c] :
    \/ \A key \in ForwardedKeys(rt.network) : x[key] = SupportedExtra[rt.network][key]
    \/ WrittenFromElsewhere(c)

\* What is published can be paid: both clients take any requirements whose amount has
\* no sign, so it was converted if it had a point, and names the token.
PublishedIsPayable ==
  \A c \in Requests : \A x \in answer[c] :
    AllDigits(x.amount.whole) => GoClientAccepts(x) /\ JsClientAccepts(x)
=============================================================================
