--------------------------- MODULE ResourceServer ----------------------------
(***************************************************************************)
(* What the exact schemes of a Go and of a TypeScript resource server have *)
(* in common: the configuration, and the requests for its routes, each     *)
(* answered with payment requirements.                                     *)
(***************************************************************************)
EXTENDS ResourcePrices

CONSTANTS
  Requests,     \* requests, each answered on its own
  Routes,       \* the routes of the server
  PriceMaps,    \* for each extra map made by the configuration, what it holds
  Parsers,      \* money parsers that may be registered
  Registrable,  \* networks and assets, in pairs, whose decimals may be registered
  MaxParsers    \* bound: parsers registered

\* References are told apart: a request stands for the map made to answer it.
ASSUME ReferencesAssumption ==
  /\ Requests \cap DOMAIN PriceMaps = {}
  /\ NoMap \notin Requests \cup DOMAIN PriceMaps

\* The asset amounts that prices and money parsers were made with.
Priced ==
  {rt.price.asked : rt \in {r \in Routes : r.price.kind = "explicit"}}
  \cup {parser.answer : parser \in Parsers}

ASSUME PricesAssumption ==
  /\ \A m \in DOMAIN PriceMaps : DOMAIN PriceMaps[m] = DOMAIN EmptyExtra
  /\ \A a \in Priced :
       /\ a = AssetAmount(a.amount, a.asset, a.extra)
       /\ a.extra \in DOMAIN PriceMaps \cup {NoMap}
       /\ IsText(a.amount)

\* AmountOf knows every decimal text that the prices come to.
ASSUME AmountsAssumption ==
  \A a \in Priced, d \in Decimals \cup {DefaultDecimals} :
    \A t \in GoAmount(a.amount, d) \cup JsAmount(a.amount, d) :
      AllDigits(t.whole) => IsDecimal(t)

\* Routes are on networks that the facilitator announced; of the keys that it may
\* announce only those of EmptyExtra are modelled; and it announces no empty name.
ASSUME ExtensionsAssumption ==
  /\ \A rt \in Routes : rt.network \in DOMAIN SupportedExtra
  /\ \A network \in DOMAIN SupportedExtra :
       /\ ForwardedKeys(network) \subseteq DOMAIN EmptyExtra
       /\ \A key \in ForwardedKeys(network) \cap {"name", "version"} :
            SupportedExtra[network][key] # ""

-----------------------------------------------------------------------------

VARIABLES
  serving,        \* whether the configuration is over
  moneyParsers,
  assetDecimals,  \* decimals by network and asset
  maps,           \* what each extra map holds
  pc,
  route,          \* of each request, a set of at most one
  wanted,         \* the asset amount of each request, likewise
  answer          \* published requirements of each request, likewise

config == <<serving, moneyParsers, assetDecimals>>
requests == <<maps, pc, route, wanted, answer>>

ServerInit ==
  /\ serving = FALSE
  /\ moneyParsers = <<>>
  /\ assetDecimals = <<>>
  /\ pc = [c \in Requests |-> "idle"]
  /\ route = [c \in Requests |-> {}]
  /\ wanted = [c \in Requests |-> {}]
  /\ answer = [c \in Requests |-> {}]

(* Configuration, before the server listens.                               *)

AddParser(parser) ==
  /\ ~serving
  /\ Len(moneyParsers) < MaxParsers
  /\ moneyParsers' = Append(moneyParsers, parser)
  /\ UNCHANGED <<serving, assetDecimals, requests>>

AddDecimals(key, d) ==
  /\ ~serving
  /\ assetDecimals' = [k \in DOMAIN assetDecimals \cup {key} |->
                         IF k = key THEN d ELSE assetDecimals[k]]
  /\ UNCHANGED <<serving, moneyParsers, requests>>

Serve ==
  /\ ~serving
  /\ serving' = TRUE
  /\ UNCHANGED <<moneyParsers, assetDecimals, requests>>

Goes(c, to) == pc' = [pc EXCEPT ![c] = to]

Contents(a) == IF a.extra = NoMap THEN EmptyExtra ELSE maps[a.extra]
=============================================================================
