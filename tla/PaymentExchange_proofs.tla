----------------------- MODULE PaymentExchange_proofs ------------------------
(***************************************************************************)
(* One payment between any client and any facilitator of the repository,   *)
(* for any requirements, keys, window and skew of the clocks.              *)
(***************************************************************************)
EXTENDS PaymentExchange, Exact_proofs

-----------------------------------------------------------------------------
(* The inductive invariant.                                                *)

\* What all three clients make of requirements, whatever those are.
Made(x) ==
  /\ x.p.scheme = x.r.scheme /\ x.p.network = x.r.network
  /\ x.p.to = x.r.payTo /\ x.p.value = x.r.amount /\ BigIntReads(x.r.amount)
  /\ \E key \in Keys : x.p.from = AccountAddress(AccountOf[key])
  /\ x.p.nonce \in ValidNonce /\ x.p.publicKey \in Keys
  /\ x.p.spelling = "plain"
  /\ JsNumber(x.p.validAfter) = x.p.validAfter.n /\ JsNumber(x.p.validBefore) = x.p.validBefore.n
  /\ x.r.name # "" /\ x.r.version # "" =>
       x.p.signature = Sign(x.p.publicKey, GoDigestOf(x.p, x.r))

\* The window is the page's or the library's.
WindowOf(x, who, t) ==
  /\ x.p.validAfter = FormatInt(IF who = "page" THEN t ELSE t - Backdate)
  /\ x.p.validBefore = FormatInt(t + (IF who = "page" THEN PageWindow ELSE x.r.maxTimeout))

Window(x) == WindowOf(x, maker, madeAt)

\* A transaction is made of the request, and the checks of the window have let it pass.
SentFrom(x, t) ==
  /\ t = GoTxOf(x, t.stamp)
  /\ t.stamp \in Int
  /\ t.validAfter <= t.stamp /\ t.validBefore - t.stamp >= Margin

IInv ==
  /\ now \in 0..MaxTime /\ Backdate <= now
  /\ lag \in Lags
  /\ madeAt \in Nat
  /\ \A x, y \in q : x = y
  /\ \A x \in q : Made(x) /\ Window(x) /\ Backdate <= madeAt /\ madeAt <= now
  /\ \A t \in sent : \E x \in q : SentFrom(x, t)

\* The initial states satisfy the invariant.
LEMMA InitIInv ==
  ASSUME Init
  PROVE  IInv
  BY BackdateAssumption, MaxTimeAssumption DEF Init, IInv

\* A number written out.
LEMMA Written ==
  ASSUME NEW n \in Int
  PROVE  /\ FormatInt(n).n = n
         /\ n >= 0 => FormatInt(n).form = "digits"
  BY DEF FormatInt

\* The address of an account.
LEMMA AddressReads ==
  ASSUME NEW hash
  PROVE  AccountAddress(hash).kind = "account" /\ AccountAddress(hash).hash = hash
  BY DEF AccountAddress

\* A payload with nothing missing.
LEMMA NothingMissing ==
  ASSUME NEW p, p.from.kind = "account", p.to.kind = "account", p.spelling = "plain",
         p.validAfter.form = "digits", p.validBefore.form = "digits",
         p.nonce # "", p.publicKey # ""
  PROVE  ~MissingField(p)
<1>1. "empty" \notin {p.from.kind, p.to.kind, p.validAfter.form, p.validBefore.form}
  <2>1. "empty" # "account" /\ "empty" # "digits"
    OBVIOUS
  <2> QED
    BY <2>1
<1>2. "" \notin {p.nonce, p.publicKey}
  OBVIOUS
<1>3. p.spelling # "empty"
  OBVIOUS
<1> QED
  BY <1>1, <1>2, <1>3 DEF MissingField

\* A time below 2^53 is read as it was written.
LEMMA ReadAsWritten ==
  ASSUME NEW n, n \notin DOMAIN DoubleOf
  PROVE  JsNumber(FormatInt(n)) = FormatInt(n).n
  BY DEF JsNumber, FormatInt

\* The payloads of the three clients.
LEMMA ClientsMake ==
  ASSUME NEW r, NEW key \in Keys, NEW signer \in Keys, NEW nonce \in ValidNonce,
         NEW t \in 0..MaxTime, BigIntReads(r.amount),
         {t - Backdate, t, t + PageWindow, t + r.maxTimeout} \cap DOMAIN DoubleOf = {}
  PROVE  /\ Made([p |-> GoClientPayload(r, key, t, nonce), r |-> r])
         /\ Made([p |-> JsClientPayload(r, key, t, nonce), r |-> r])
         /\ Made([p |-> PagePayload(r, key, signer, t, nonce), r |-> r])
<1>1. /\ JsNumber(FormatInt(t - Backdate)) = FormatInt(t - Backdate).n
      /\ JsNumber(FormatInt(t + r.maxTimeout)) = FormatInt(t + r.maxTimeout).n
      /\ JsNumber(FormatInt(t)) = FormatInt(t).n
      /\ JsNumber(FormatInt(t + PageWindow)) = FormatInt(t + PageWindow).n
  BY ReadAsWritten
<1>2. /\ FormatInt(t - Backdate).n = t - Backdate
      /\ FormatInt(t + r.maxTimeout).n = t + r.maxTimeout
      /\ FormatInt(t).n = t
      /\ FormatInt(t + PageWindow).n = t + PageWindow
  BY DEF FormatInt
<1>3. Made([p |-> GoClientPayload(r, key, t, nonce), r |-> r])
  BY <1>1, <1>2 DEF Made, GoClientPayload, GoAccountAddress, GoDigestOf
<1>4. Made([p |-> JsClientPayload(r, key, t, nonce), r |-> r])
  BY <1>1, <1>2 DEF Made, JsClientPayload, JsAccountAddress, GoDigestOf
<1>5. Made([p |-> PagePayload(r, key, signer, t, nonce), r |-> r])
  BY <1>1, <1>2 DEF Made, PagePayload, JsAccountAddress, GoDigestOf, OrNotAvailable
<1> QED
  BY <1>3, <1>4, <1>5

\* A payload made by any of the clients keeps the invariant.
LEMMA OfferStep ==
  ASSUME IInv, NEW challenge \in Challenges, NEW r \in Picked(challenge),
         NEW key \in Keys, NEW signer \in Keys, NEW nonce \in ValidNonce,
         \/ GoClientPays(r, key, nonce)
         \/ JsClientPays(r, key, nonce)
         \/ PagePays(r, key, signer, nonce)
  PROVE  IInv'
<1>1. /\ q = {} /\ madeAt' = now /\ UNCHANGED <<now, lag, sent>>
      /\ now \in 0..MaxTime /\ Backdate <= now
      /\ {now - Backdate, now, now + PageWindow, now + r.maxTimeout} \cap DOMAIN DoubleOf = {}
  BY TimesAssumption DEF IInv, GoClientPays, JsClientPays, PagePays, Offer
<1>2. sent = {}
  BY <1>1 DEF IInv
<1>3. ASSUME NEW who, NEW p, Offer(who, r, p),
             Made([p |-> p, r |-> r]), WindowOf([p |-> p, r |-> r], who, now)
      PROVE  IInv'
  <2>1. PICK x : x = [p |-> p, r |-> r]
    OBVIOUS
  <2>2. q' = {x} /\ maker' = who /\ Made(x) /\ WindowOf(x, who, now)
    BY <1>3, <2>1 DEF Offer
  <2>3. Window(x)'
    BY <1>1, <2>2 DEF Window, WindowOf
  <2>4. sent' = {} /\ now' = now /\ lag' = lag /\ madeAt' = now
    BY <1>1, <1>2
  <2>5. now' \in 0..MaxTime /\ Backdate <= now' /\ madeAt' \in Nat /\ Backdate <= madeAt'
        /\ madeAt' <= now'
    BY <1>1, <2>4 DEF IInv
  <2>6. lag' \in Lags
    BY <2>4 DEF IInv
  <2>7. \A y \in q' : y = x
    BY <2>2
  <2>8. \A y \in q' : Made(y) /\ Window(y)'
    BY <2>2, <2>3, <2>7
  <2> QED
    BY <2>4, <2>5, <2>6, <2>7, <2>8 DEF IInv
<1>4. CASE GoClientPays(r, key, nonce)
  <2> DEFINE p == GoClientPayload(r, key, now, nonce)
  <2>1. Offer("go", r, p) /\ BigIntReads(r.amount)
    BY <1>4 DEF GoClientPays, GoClientAccepts, IsDecimal, BigIntReads
  <2>2. WindowOf([p |-> p, r |-> r], "go", now)
    BY DEF WindowOf, GoClientPayload
  <2> QED
    BY <1>1, <1>3, <2>1, <2>2, ClientsMake
<1>5. CASE JsClientPays(r, key, nonce)
  <2> DEFINE p == JsClientPayload(r, key, now, nonce)
  <2>1. Offer("js", r, p) /\ BigIntReads(r.amount)
    BY <1>5 DEF JsClientPays, JsClientAccepts
  <2>2. WindowOf([p |-> p, r |-> r], "js", now)
    BY DEF WindowOf, JsClientPayload
  <2> QED
    BY <1>1, <1>3, <2>1, <2>2, ClientsMake
<1>6. CASE PagePays(r, key, signer, nonce)
  <2> DEFINE p == PagePayload(r, key, signer, now, nonce)
  <2>1. Offer("page", r, p) /\ BigIntReads(r.amount)
    BY <1>6 DEF PagePays, PageAccepts
  <2>2. WindowOf([p |-> p, r |-> r], "page", now)
    BY DEF WindowOf, PagePayload
  <2> QED
    BY <1>1, <1>3, <2>1, <2>2, ClientsMake
<1> QED
  BY <1>4, <1>5, <1>6

\* Both facilitators build the same transaction, and only inside the window.
LEMMA SettleStep ==
  ASSUME IInv, NEW x \in q, GoSettles(x) \/ JsSettles(x)
  PROVE  IInv'
<1>1. /\ FacilitatorNow \in Int /\ UNCHANGED <<now, lag, maker, madeAt, q>>
  BY LagsAssumption DEF IInv, FacilitatorNow, GoSettles, JsSettles
<1>0. /\ JsNumber(x.p.validAfter) = x.p.validAfter.n
      /\ JsNumber(x.p.validBefore) = x.p.validBefore.n
  BY DEF IInv, Made
<1>2. /\ x.p.validAfter.n <= FacilitatorNow
      /\ x.p.validBefore.n - FacilitatorNow >= Margin
  BY <1>0, AcceptsInParts, ClocksAccept DEF GoSettles, JsSettles
<1>3. sent' = sent \cup {GoTxOf(x, FacilitatorNow)}
  BY <1>0 DEF GoSettles, JsSettles, GoTxOf, JsTxOf
<1>4. SentFrom(x, GoTxOf(x, FacilitatorNow))
  BY <1>1, <1>2 DEF SentFrom, GoTxOf
<1>5. \A t \in sent' : \E y \in q : SentFrom(y, t)
  BY <1>3, <1>4 DEF IInv
<1> QED
  BY <1>1, <1>5 DEF IInv, Window, WindowOf

\* Every step keeps the invariant.
LEMMA NextStep ==
  ASSUME IInv, [Next]_vars
  PROVE  IInv'
<1>1. ASSUME NEW challenge \in Challenges, NEW key \in Keys, NEW nonce \in ValidNonce,
             Supported(challenge) # << >>,
             \/ GoClientPays(Head(Supported(challenge)), key, nonce)
             \/ JsClientPays(PreferredNetwork(Supported(challenge)), key, nonce)
      PROVE  IInv'
  <2>1. /\ Head(Supported(challenge)) \in Picked(challenge)
        /\ PreferredNetwork(Supported(challenge)) \in Picked(challenge)
    BY <1>1 DEF Picked
  <2> QED
    BY <1>1, <2>1, OfferStep
<1>2. ASSUME NEW challenge \in Challenges, NEW key \in Keys, NEW signer \in Keys,
             NEW nonce \in ValidNonce, PagePays(PageSelects(challenge), key, signer, nonce)
      PROVE  IInv'
  <2>1. PageSelects(challenge) \in Picked(challenge)
    BY DEF Picked
  <2> QED
    BY <1>2, <2>1, OfferStep
<1>3. ASSUME NEW x \in q, GoSettles(x) \/ JsSettles(x)
      PROVE  IInv'
  BY <1>3, SettleStep
<1>4. CASE PassTime
  <2>1. /\ now' = now + 1 /\ now < MaxTime
        /\ UNCHANGED <<lag, maker, madeAt, q, sent>>
    BY <1>4 DEF PassTime
  <2> QED
    BY <2>1, BackdateAssumption, MaxTimeAssumption DEF IInv, Window, WindowOf
<1>5. CASE UNCHANGED vars
  BY <1>5 DEF vars, IInv, Window, WindowOf
<1> QED
  BY <1>1, <1>2, <1>3, <1>4, <1>5 DEF Next

-----------------------------------------------------------------------------
(* What follows from it.                                                   *)

\* The payload is the one a client has made, and the transactions are made of it.
THEOREM Invariance == Spec => []IInv
<1>1. Init => IInv
  BY InitIInv
<1>2. IInv /\ [Next]_vars => IInv'
  BY NextStep
<1> QED
  BY <1>1, <1>2, PTL DEF Spec

\* An authorization submitted to both facilitators is one authorization on the chain.
THEOREM SettlersBuildTheSame == Spec => []SettlersAgree
<1>1. ASSUME IInv, NEW t \in sent, NEW u \in sent
      PROVE  [t EXCEPT !.stamp = 0] = [u EXCEPT !.stamp = 0]
  <2>1. PICK x \in q : SentFrom(x, t)
    BY <1>1 DEF IInv
  <2>2. SentFrom(x, u)
    BY <1>1 DEF IInv
  <2>3. t = GoTxOf(x, t.stamp) /\ u = GoTxOf(x, u.stamp)
    BY <2>1, <2>2 DEF SentFrom
  <2>4. \A s : [GoTxOf(x, s) EXCEPT !.stamp = 0] = GoTxOf(x, 0)
    BY DEF GoTxOf
  <2> QED
    BY <2>3, <2>4
<1>2. IInv => SettlersAgree
  BY <1>1 DEF SettlersAgree
<1> QED
  BY <1>2, Invariance, PTL

\* A servable payment signed by its payer: its fields, as every check reads them.
LEMMA HonestSays ==
  ASSUME NEW x, Made(x), Servable(x.r), SignedByPayer(x)
  PROVE  /\ x.p.scheme = Exact /\ x.r.scheme = Exact /\ x.p.network = x.r.network
         /\ x.p.to = x.r.payTo /\ x.p.value = x.r.amount
         /\ IsDecimal(x.p.value) /\ x.p.value \notin {"", Absent} /\ AmountPresent(x.p.value)
         /\ x.p.from = AccountAddress(AccountOf[x.p.publicKey])
         /\ x.p.to = AccountAddress(x.p.to.hash) /\ x.p.to.kind = "account"
         /\ x.p.nonce \in ValidNonce /\ x.p.nonce # ""
         /\ x.p.publicKey \in DOMAIN AccountOf /\ x.p.publicKey # ""
         /\ x.r.asset \in DOMAIN TokenDomain /\ x.r.asset \in ValidAsset
         /\ x.r.name = TokenDomain[x.r.asset].name /\ x.r.name # ""
         /\ x.r.version = TokenDomain[x.r.asset].version /\ x.r.version # ""
         /\ x.p.signature = Sign(x.p.publicKey, GoDigestOf(x.p, x.r))
         /\ GoDigestOf(x.p, x.r) = JsDigestOf(x.p, x.r)
         /\ x.p.spelling = "plain" /\ BigIntReads(x.p.value)
         /\ JsNumber(x.p.validAfter) = x.p.validAfter.n
         /\ JsNumber(x.p.validBefore) = x.p.validBefore.n
<1>1. /\ x.r.asset \in DOMAIN TokenDomain /\ x.r.asset \in ValidAsset
      /\ x.r.name = TokenDomain[x.r.asset].name /\ x.r.name # ""
      /\ x.r.version = TokenDomain[x.r.asset].version /\ x.r.version # ""
  BY StringsAssumption DEF Servable
<1>2. /\ IsDecimal(x.p.value) /\ AmountPresent(x.p.value)
      /\ x.p.value \notin {"", Absent}
  BY StringsAssumption DEF Made, Servable, AmountPresent, IsDecimal
<1>8. GoDigestOf(x.p, x.r) = JsDigestOf(x.p, x.r)
  BY DEF Made, GoDigestOf, JsDigestOf
<1>3. /\ x.p.nonce \in ValidNonce /\ x.p.nonce # ""
      /\ x.p.publicKey \in DOMAIN AccountOf /\ x.p.publicKey # ""
  BY StringsAssumption, KeysAssumption DEF Made
<1>4. x.p.from = AccountAddress(AccountOf[x.p.publicKey])
  BY DEF SignedByPayer, JsAccountAddress
<1>5. x.p.signature = Sign(x.p.publicKey, GoDigestOf(x.p, x.r))
  BY <1>1 DEF Made
<1>6. x.p.to = AccountAddress(x.p.to.hash) /\ x.p.to = x.r.payTo
  BY DEF Made, Servable
<1>7. x.p.to.kind = "account"
  BY <1>6 DEF AccountAddress
<1> QED
  BY <1>1, <1>2, <1>3, <1>4, <1>5, <1>6, <1>7, <1>8 DEF Made, Servable

\* What an honest client makes, both facilitators take, in its window.
THEOREM HonestIsAccepted == Spec => []HonestPaymentIsAccepted
<1>1. ASSUME IInv, NEW x \in q, Servable(x.r), SignedByPayer(x), InWindow(x)
      PROVE  /\ Accepts(GoChecks(x, FacilitatorNow)) /\ Accepts(GoBuildChecks(x))
             /\ Accepts(JsChecks(x, FacilitatorNow)) /\ JsArgsBuild(x.p)
  <2> DEFINE p == x.p
             r == x.r
             t == FacilitatorNow
  <2>1. Made(x) /\ Window(x) /\ Backdate <= madeAt /\ madeAt <= now
    BY <1>1 DEF IInv
  <2>2. /\ now \in Nat /\ madeAt \in Nat /\ lag \in Int /\ -lag <= Backdate
        /\ Backdate \in Nat /\ PageWindow \in Nat /\ Margin \in Nat /\ r.maxTimeout \in Int
    BY <1>1, LagsAssumption, BackdateAssumption, PageWindowAssumption, MarginAssumption
       DEF IInv, Servable
  <2>3. /\ p.validAfter.n \in Nat /\ p.validAfter.n <= t
        /\ p.validBefore.n \in Nat /\ t <= p.validBefore.n /\ p.validBefore.n - t >= Margin
        /\ p.validAfter.form = "digits" /\ p.validBefore.form = "digits"
    <3>1. CASE maker = "page"
      <4>1. p.validAfter = FormatInt(madeAt) /\ p.validBefore = FormatInt(madeAt + PageWindow)
        BY <2>1, <3>1 DEF Window, WindowOf
      <4>2. /\ p.validAfter.n = madeAt /\ p.validAfter.form = "digits"
            /\ p.validBefore.n = madeAt + PageWindow /\ p.validBefore.form = "digits"
        BY <2>2, <4>1, Written
      <4>3. madeAt <= t /\ t <= madeAt + PageWindow - Margin /\ t \in Int
        BY <1>1, <2>2, <3>1 DEF InWindow, FacilitatorNow
      <4> HIDE DEF t
      <4> QED
        BY <2>2, <4>2, <4>3
    <3>2. CASE maker # "page"
      <4>1. /\ p.validAfter = FormatInt(madeAt - Backdate)
            /\ p.validBefore = FormatInt(madeAt + r.maxTimeout)
        BY <2>1, <3>2 DEF Window, WindowOf
      <4>2. t <= madeAt + r.maxTimeout - Margin /\ t = now + lag
        BY <1>1, <3>2 DEF InWindow, FacilitatorNow
      <4>3. /\ madeAt - Backdate >= 0 /\ madeAt - Backdate <= t /\ madeAt + r.maxTimeout >= 0
            /\ t \in Int
        BY <2>1, <2>2, <4>2
      <4>4. /\ p.validAfter.n = madeAt - Backdate /\ p.validAfter.form = "digits"
            /\ p.validBefore.n = madeAt + r.maxTimeout /\ p.validBefore.form = "digits"
        BY <2>2, <4>1, <4>3, Written
      <4> HIDE DEF t
      <4> QED
        BY <2>2, <4>2, <4>3, <4>4
    <3> QED
      BY <3>1, <3>2
  <2>4. /\ p.scheme = Exact /\ r.scheme = Exact /\ p.network = r.network
        /\ p.to = r.payTo /\ p.value = r.amount
        /\ IsDecimal(p.value) /\ p.value \notin {"", Absent} /\ AmountPresent(p.value)
        /\ p.from = AccountAddress(AccountOf[p.publicKey])
        /\ p.to.kind = "account"
        /\ p.nonce \in ValidNonce /\ p.nonce # ""
        /\ p.publicKey \in DOMAIN AccountOf /\ p.publicKey # ""
        /\ r.asset \in ValidAsset
        /\ r.name # "" /\ r.version # ""
        /\ p.signature = Sign(p.publicKey, JsDigestOf(p, r))
        /\ GoDigestOf(p, r) = JsDigestOf(p, r)
        /\ p.spelling = "plain" /\ BigIntReads(p.value)
        /\ JsNumber(p.validAfter) = p.validAfter.n /\ JsNumber(p.validBefore) = p.validBefore.n
    BY <1>1, <2>1, HonestSays
  <2>5. /\ p.from.kind = "account" /\ p.from.hash = AccountOf[p.publicKey]
        /\ p.signature.size = 65
        /\ VerifySignature(p.signature, p.publicKey, JsDigestOf(p, r))
    <3>1. p.from.kind = "account" /\ p.from.hash = AccountOf[p.publicKey]
      BY <2>4, AddressReads
    <3>2. p.signature.size = 65 /\ p.signature.by = p.publicKey
          /\ p.signature.over = JsDigestOf(p, r)
      <4> DEFINE d == JsDigestOf(p, r)
      <4>1. p.signature = Sign(p.publicKey, d)
        BY <2>4
      <4> HIDE DEF d, p
      <4>2. p.signature.size = 65 /\ p.signature.by = p.publicKey /\ p.signature.over = d
        BY <4>1 DEF Sign
      <4> QED
        BY <4>2 DEF d
    <3> QED
      BY <3>1, <3>2 DEF VerifySignature
  <2>6. GoHexDecodes(p.spelling) /\ JsHexDecodes(p.spelling)
    BY <2>4 DEF GoHexDecodes, JsHexDecodes
  <2>7. GoGetNetworkConfig(r.network) /\ r.network \in KeyNetworks
    BY <1>1 DEF Servable
  <2>8. /\ IsValidAddress(p.to) /\ IsValidAddress(p.from) /\ IsTypedAddress(p.from)
        /\ IsValidContractPackageHash(r.asset) /\ ~MissingField(p)
    <3>1. ~MissingField(p)
      BY <2>3, <2>4, <2>5, NothingMissing
    <3> QED
      BY <2>4, <2>5, <3>1 DEF IsValidAddress, IsTypedAddress, IsValidContractPackageHash
  <2> HIDE DEF p, r, t
  <2>9. Accepts(GoShapeChecks(p, r)) /\ Accepts(JsShapeChecks(p, r))
    BY <2>4, <2>8, GoAccepts, JsAccepts
  <2>10. Accepts(GoClockChecks(p, t)) /\ Accepts(JsClockChecks(p, t))
    BY <2>3, <2>4, ClocksAccept DEF ParseInt, JsParseInt
  <2>11. Accepts(GoSignatureChecks(p, r)) /\ Accepts(JsSignatureChecks(p, r))
    BY <2>4, <2>5, <2>6, <2>7, <2>8, GoAccepts, JsAccepts
  <2>12. Accepts(GoBuildChecks(x))
    BY <2>3, <2>4, <2>5, <2>7, GoBuilds DEF GoKeyBuilds, ParseUint, p, r
  <2>13. JsArgsBuild(p)
    <3>1. JsNumber(p.validAfter) = p.validAfter.n /\ JsNumber(p.validBefore) = p.validBefore.n
      BY <2>4
    <3>2. p.validAfter.n >= 0 /\ p.validBefore.n >= 0
      BY <2>3
    <3> QED
      BY <3>1, <3>2 DEF JsArgsBuild
  <2> QED
    BY <2>9, <2>10, <2>11, <2>12, <2>13, AcceptsInParts DEF p, r, t
<1>2. IInv => HonestPaymentIsAccepted
  BY <1>1 DEF HonestPaymentIsAccepted
<1> QED
  BY <1>2, Invariance, PTL

\* And the contract finds it signed as asked, and in its window.
THEOREM HonestConvinces == Spec => []HonestPaymentConvinces
<1>1. ASSUME IInv, NEW x \in q, NEW t \in sent, Servable(x.r), SignedByPayer(x)
      PROVE  /\ SignedAsAsked(t)
             /\ t.validAfter <= t.stamp /\ t.stamp + Margin <= t.validBefore
  <2>1. SentFrom(x, t) /\ Made(x) /\ Window(x)
    BY <1>1 DEF IInv
  <2>2. /\ t = GoTxOf(x, t.stamp) /\ t.stamp \in Int
        /\ t.validAfter <= t.stamp /\ t.validBefore - t.stamp >= Margin
    BY <2>1 DEF SentFrom
  <2>3. /\ t.from = x.p.from.hash /\ t.to = x.p.to.hash /\ t.value = AmountOf[x.p.value]
        /\ t.validAfter = x.p.validAfter.n /\ t.validBefore = x.p.validBefore.n
        /\ t.nonce = x.p.nonce /\ t.publicKey = x.p.publicKey
        /\ t.signature = x.p.signature /\ t.asset = x.r.asset /\ t.network = x.r.network
    BY <2>2 DEF GoTxOf
  <2>4. /\ x.r.asset \in DOMAIN TokenDomain
        /\ x.r.name = TokenDomain[x.r.asset].name
        /\ x.r.version = TokenDomain[x.r.asset].version
        /\ x.p.publicKey \in DOMAIN AccountOf
        /\ x.p.from = AccountAddress(AccountOf[x.p.publicKey])
        /\ x.p.signature = Sign(x.p.publicKey, GoDigestOf(x.p, x.r))
    BY <1>1, <2>1, HonestSays
  <2>5. x.p.to = AccountAddress(x.p.to.hash)
    BY <1>1, <2>1, HonestSays
  <2>6. SignedAsAsked(t)
    BY <2>3, <2>4, <2>5
       DEF SignedAsAsked, VerifySignature, Sign, GoDigestOf, AccountAddress
  <2>7. t.validBefore \in Int
    BY <1>1, <2>1, <2>3, PageWindowAssumption DEF IInv, Window, WindowOf, FormatInt, Servable
  <2> QED
    BY <2>2, <2>6, <2>7, MarginAssumption
<1>2. IInv => HonestPaymentConvinces
  BY <1>1 DEF HonestPaymentConvinces
<1> QED
  BY <1>2, Invariance, PTL
=============================================================================
