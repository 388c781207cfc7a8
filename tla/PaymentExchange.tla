--------------------------- MODULE PaymentExchange ---------------------------
(***************************************************************************)
(* One payment from the requirements to the token contract: a Go or        *)
(* TypeScript client, or the payment page, signs it, time passes, a Go or  *)
(* TypeScript facilitator verifies it by a clock of its own and builds the *)
(* transaction, and the contract judges that.                              *)
(***************************************************************************)
EXTENDS GoExact, JsExact, ExactClient, Cep18

CONSTANTS
  Challenges,   \* what a resource server may publish: sequences of requirements
  Keys,         \* payers' keys
  Lags,         \* how far the facilitators' clock may be ahead of the client's
  MaxTime       \* bound: the clock stops here

ASSUME MaxTimeAssumption == MaxTime \in Nat /\ Backdate <= MaxTime
ASSUME KeysAssumption == Keys \subseteq DOMAIN AccountOf
\* No public key or nonce is the empty string, no amount a missing one, and a token
\* names itself.
ASSUME StringsAssumption ==
  /\ "" \notin DOMAIN AccountOf \cup ValidNonce
  /\ Absent \notin DOMAIN AmountOf
  /\ DOMAIN TokenDomain \subseteq ValidAsset
  /\ \A a \in DOMAIN TokenDomain : TokenDomain[a].name # "" /\ TokenDomain[a].version # ""
\* The requirements that one of the clients may pick from a challenge.
Picked(challenge) ==
  {PageSelects(challenge)} \cup
  (IF Supported(challenge) = << >> THEN {}
   ELSE {Head(Supported(challenge)), PreferredNetwork(Supported(challenge))})

\* The times of the model are below 2^53.
ASSUME TimesAssumption ==
  \A t \in 0..MaxTime, challenge \in Challenges : \A r \in Picked(challenge) :
    {t - Backdate, t, t + PageWindow, t + r.maxTimeout} \cap DOMAIN DoubleOf = {}

ASSUME LagsAssumption == Lags \subseteq Int /\ \A lag \in Lags : -lag <= Backdate

VARIABLES
  now,      \* the client's clock
  lag,      \* how far the facilitators' clock is ahead of it
  maker,    \* who made the payload: "go", "js" or "page"
  madeAt,   \* when, by the client's clock
  q,        \* the request, once a client has made its payload: a set of at most one
  sent      \* transactions facilitators have built from it

vars == <<now, lag, maker, madeAt, q, sent>>

FacilitatorNow == now + lag

Init ==
  /\ now = Backdate      \* Unix time is long past the first 600 seconds
  /\ lag \in Lags
  /\ maker = "nobody"
  /\ madeAt = 0
  /\ q = {}
  /\ sent = {}

Offer(who, r, payload) ==
  /\ q = {}
  /\ q' = {[p |-> payload, r |-> r]}
  /\ maker' = who
  /\ madeAt' = now
  /\ UNCHANGED <<now, lag, sent>>

GoClientPays(r, key, nonce) ==
  GoClientAccepts(r) /\ Offer("go", r, GoClientPayload(r, key, now, nonce))

JsClientPays(r, key, nonce) ==
  JsClientAccepts(r) /\ Offer("js", r, JsClientPayload(r, key, now, nonce))

\* The payer may have switched to another account while the wallet was asking.
PagePays(r, key, signer, nonce) ==
  PageAccepts(r) /\ Offer("page", r, PagePayload(r, key, signer, now, nonce))

GoSettles(x) ==
  /\ Accepts(GoChecks(x, FacilitatorNow))
  /\ Accepts(GoBuildChecks(x))
  /\ sent' = sent \cup {GoTxOf(x, FacilitatorNow)}
  /\ UNCHANGED <<now, lag, maker, madeAt, q>>

JsSettles(x) ==
  /\ Accepts(JsChecks(x, FacilitatorNow))
  /\ JsArgsBuild(x.p)
  /\ sent' = sent \cup {JsTxOf(x, FacilitatorNow)}
  /\ UNCHANGED <<now, lag, maker, madeAt, q>>

PassTime ==
  /\ now < MaxTime
  /\ now' = now + 1
  /\ UNCHANGED <<lag, maker, madeAt, q, sent>>

Next ==
  \/ \E challenge \in Challenges, key \in Keys, nonce \in ValidNonce :
       \/ /\ Supported(challenge) # << >>
          /\ \/ GoClientPays(Head(Supported(challenge)), key, nonce)
             \/ JsClientPays(PreferredNetwork(Supported(challenge)), key, nonce)
       \/ \E signer \in Keys : PagePays(PageSelects(challenge), key, signer, nonce)
  \/ \E x \in q : GoSettles(x) \/ JsSettles(x)
  \/ PassTime

Spec == Init /\ [][Next]_vars

-----------------------------------------------------------------------------
(* Properties.                                                             *)

\* Requirements that can be paid at all: an exact payment of some amount to an
\* account, on a network the facilitator serves, naming the token as it names itself.
Servable(r) ==
  /\ r.scheme = Exact
  /\ r.network \in KeyNetworks
  /\ GoGetNetworkConfig(r.network)
  /\ r.payTo = AccountAddress(r.payTo.hash)
  /\ AmountPresent(r.amount) /\ IsDecimal(r.amount)
  /\ r.maxTimeout \in Int
  /\ r.asset \in DOMAIN TokenDomain
  /\ r.name = TokenDomain[r.asset].name
  /\ r.version = TokenDomain[r.asset].version

SignedByPayer(x) == JsAccountAddress(x.p.publicKey) = x.p.from

\* The library's clients open the window early enough for any of the Lags, and close it
\* when the requirements say; the page does neither.
InWindow(x) ==
  IF maker = "page"
  THEN madeAt <= FacilitatorNow /\ FacilitatorNow <= madeAt + PageWindow - Margin
  ELSE FacilitatorNow <= madeAt + x.r.maxTimeout - Margin

\* "A client built against one interoperates with a server or facilitator written in
\* the other": what either client makes for servable requirements, both facilitators
\* verify, and can build a transaction from, until Margin seconds before its end, even
\* if their clock is as much as Backdate behind.  They do the same with what the page
\* makes, but only from the second on at which it was made, by their own clock.
HonestPaymentIsAccepted ==
  \A x \in q : Servable(x.r) /\ SignedByPayer(x) /\ InWindow(x) =>
    /\ Accepts(GoChecks(x, FacilitatorNow)) /\ Accepts(GoBuildChecks(x))
    /\ Accepts(JsChecks(x, FacilitatorNow)) /\ JsArgsBuild(x.p)

\* The digest is the same at all three places it is computed, whatever the language:
\* the contract finds an honest payment, built by either facilitator, to be signed as
\* asked, and inside its window when it is sent.
HonestPaymentConvinces ==
  \A x \in q, t \in sent : Servable(x.r) /\ SignedByPayer(x) =>
    /\ SignedAsAsked(t)
    /\ t.validAfter <= t.stamp /\ t.stamp + Margin <= t.validBefore

\* Whoever settles a request, and whenever, asks the contract for the same transfer:
\* the Go and the TypeScript facilitator build it with equal arguments, so that an
\* authorization submitted to both is one authorization on the chain.
SettlersAgree ==
  \A t, u \in sent : [t EXCEPT !.stamp = 0] = [u EXCEPT !.stamp = 0]
=============================================================================
