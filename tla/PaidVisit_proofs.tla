-------------------------- MODULE PaidVisit_proofs ---------------------------
(***************************************************************************)
(* The safety of a paid visit for any number of clicks, accounts and       *)
(* restarts of the server, on nothing but the facilitator's promise.       *)
(***************************************************************************)
EXTENDS PaidVisit, TLAPS

-----------------------------------------------------------------------------
(* The inductive invariant.                                                *)

Stages   == {"none", "sent", "verified", "settling", "replied"}
Statuses == {"none", "goods", "refused", "lost"}
Receipts == {"none", "settled", "failed"}
Outcomes == {"none", "open", "success", "failure"}
Phases   == {"idle", "prompt", "fetching", "done"}
Offers   == Terms \cup {NoTerms}

RouteTypeOK ==
  /\ offer \in Terms
  /\ request \in [Visits -> SUBSET [auth : Authorization, signed : Authorization]]
  /\ stage \in [Visits -> Stages]
  /\ reply \in [Visits -> [status : Statuses, receipt : Receipts]]
  /\ asked \in [Visits -> SUBSET Authorization]
  /\ outcome \in [Visits -> Outcomes]
  /\ paid \subseteq Authorization

PageTypeOK ==
  /\ account \in Accounts \cup {Nobody}
  /\ load \in [Mounts -> {"asked", "answered", "ended"}]
  /\ answer \in [Mounts -> Offers]
  /\ requirement \in Offers
  /\ phase \in [Clicks -> Phases]
  /\ closure \in [Clicks -> [from : Accounts \cup {Nobody}, terms : Offers]]
  /\ DOMAIN typed = Clicks
  /\ concluded \in [Clicks -> SUBSET Clicks]
  /\ result = Says(result.of, result.says)
  /\ receipt = Says(receipt.of, receipt.says)

\* What a handler that has asked its wallet was rendered with.
ClickInv(k) ==
  /\ phase[k] \in {"prompt", "fetching"} =>
       closure[k].from \in Accounts /\ closure[k].terms \in Terms
  /\ phase[k] = "prompt" => typed[k] = PayloadAuthorization(k)
  /\ \A j \in concluded[k] : phase[j] = "done"
  /\ phase[k] \in {"prompt", "fetching"} /\ receipt.says # "nothing" =>
       receipt.of \notin concluded[k]

\* A visit's payment is the one its click was charged for, and nothing of it is with
\* the facilitator before it is being settled.
VisitInv(v) ==
  /\ phase[v] \in {"idle", "prompt"} => stage[v] = "none"
  /\ stage[v] = "none" => request[v] = {}
  /\ \A q \in request[v] :
       q.auth = PayloadAuthorization(v) /\ q.signed = q.auth
  /\ \A a \in asked[v] : \E q \in request[v] : q.auth = a
  /\ stage[v] \in {"none", "sent", "verified"} => outcome[v] = "none"
  /\ outcome[v] = "none" => asked[v] = {}
  /\ outcome[v] # "none" => asked[v] # {}
  /\ outcome[v] = "success" => asked[v] \subseteq paid
  /\ stage[v] # "replied" => reply[v] = NoReply
  /\ reply[v].receipt = "settled" => reply[v].status = "goods"
  /\ reply[v].status = "goods" => reply[v].receipt = "settled" /\ PaidBy(v) # {}

PaidWasAsked == \A a \in paid : \E v \in Visits : a \in asked[v]

\* The messages on display that name a click are of a click.
MessagesAreOfClicks ==
  /\ result.says \in {"requesting", "submitting", "goods"} => result.of \in Clicks
  /\ receipt.says # "nothing" => receipt.of \in Clicks

NothingShownYet == load[Mounted] = "asked" => requirement = NoTerms

RouteInv ==
  /\ RouteTypeOK
  /\ \A v \in Visits : VisitInv(v)
  /\ PaidWasAsked
  /\ SettlesItsOwnTerms

PageInv ==
  /\ PageTypeOK
  /\ \A k \in Clicks : ClickInv(k)
  /\ MessagesAreOfClicks
  /\ NothingShownYet
  /\ ShownGoodsArePaid
  /\ GoodsHaveTheirReceipt
  /\ ReceiptIsNotOlder
  /\ ProgressIsLive
  /\ OfferIsOfThisMount

IInv == RouteInv /\ PageInv

-----------------------------------------------------------------------------
(* It holds initially.                                                     *)

\* The initial states satisfy the invariant.
LEMMA InitIInv ==
  ASSUME Init
  PROVE  IInv
<1>1. RouteTypeOK /\ PageTypeOK
  BY MaxStartsAssumption
     DEF Init, RouteInit, PageInit, Facilitator!Init, RouteTypeOK, PageTypeOK, Terms,
         NoReply, Stages, Statuses, Receipts, Outcomes, Phases, Offers, Mounts, Says, Blank
<1>2. (\A v \in Visits : VisitInv(v)) /\ PaidWasAsked /\ SettlesItsOwnTerms
  BY VisitsAssumption
     DEF Init, RouteInit, PageInit, Facilitator!Init, VisitInv, PaidWasAsked,
         SettlesItsOwnTerms, NoReply
<1>3. (\A k \in Clicks : ClickInv(k)) /\ MessagesAreOfClicks /\ NothingShownYet
  BY DEF Init, PageInit, ClickInv, MessagesAreOfClicks, NothingShownYet, Blank, Says
<1>4. /\ ShownGoodsArePaid /\ GoodsHaveTheirReceipt /\ ReceiptIsNotOlder
      /\ ProgressIsLive /\ OfferIsOfThisMount
  BY DEF Init, PageInit, ShownGoodsArePaid, GoodsHaveTheirReceipt, ReceiptIsNotOlder,
         ProgressIsLive, OfferIsOfThisMount, Blank, Says
<1> QED
  BY <1>1, <1>2, <1>3, <1>4 DEF IInv, RouteInv, PageInv

-----------------------------------------------------------------------------
(* The page's steps, as the route sees them.                               *)

\* A page that sends nothing and captures nothing leaves the route's part alone.
LEMMA RouteKept ==
  ASSUME RouteInv, UNCHANGED <<routeVars, closure>>,
         \A k \in Clicks : phase'[k] \in {"idle", "prompt"} => phase[k] \in {"idle", "prompt"}
  PROVE  RouteInv'
<1>1. RouteTypeOK' /\ PaidWasAsked' /\ SettlesItsOwnTerms'
  BY DEF RouteInv, routeVars, serverVars, facilitatorVars, RouteTypeOK, PaidWasAsked,
         SettlesItsOwnTerms
<1>2. ASSUME NEW v \in Visits
      PROVE  VisitInv(v)'
  BY VisitsAssumption
     DEF RouteInv, routeVars, serverVars, facilitatorVars, VisitInv, PayloadAuthorization,
         PaidBy
<1> QED
  BY <1>1, <1>2 DEF RouteInv

\* A click sends nothing to the route.
LEMMA ClickKeepsRoute ==
  ASSUME IInv, NEW k \in Clicks, Click(k)
  PROVE  RouteInv'
<1>1. RouteTypeOK' /\ PaidWasAsked' /\ SettlesItsOwnTerms'
  BY DEF IInv, RouteInv, Click, routeVars, serverVars, facilitatorVars, RouteTypeOK,
         PaidWasAsked, SettlesItsOwnTerms
<1>2. ASSUME NEW v \in Visits
      PROVE  VisitInv(v)'
  <2>1. CASE v = k
    <3>1. stage[v] = "none" /\ request[v] = {}
      BY <2>1 DEF IInv, RouteInv, VisitInv, Click, Begins
    <3> QED
      BY <3>1 DEF IInv, RouteInv, VisitInv, Click, routeVars, serverVars, facilitatorVars,
                  PaidBy
  <2>2. CASE v # k
    BY <2>2, VisitsAssumption
       DEF IInv, RouteInv, PageInv, PageTypeOK, VisitInv, Click, routeVars, serverVars,
           facilitatorVars, PayloadAuthorization, PaidBy
  <2> QED
    BY <2>1, <2>2
<1> QED
  BY <1>1, <1>2 DEF RouteInv

\* A payment arrives as the page has signed it.
LEMMA SignAndFetchKeepsRoute ==
  ASSUME IInv, NEW k \in Clicks, SignAndFetch(k)
  PROVE  RouteInv'
<1> DEFINE a == PayloadAuthorization(k)
<1>1. a \in Authorization /\ a = typed[k]
  BY VisitsAssumption, PageAssumption
     DEF IInv, PageInv, PageTypeOK, ClickInv, SignAndFetch, PayloadAuthorization, Authorization
<1>2. /\ request' = [request EXCEPT ![k] = {[auth |-> a, signed |-> a]}]
      /\ stage' = [stage EXCEPT ![k] = "sent"]
  BY <1>1 DEF SignAndFetch, Send
<1>3. RouteTypeOK'
  <2>1. {[auth |-> a, signed |-> a]} \in SUBSET [auth : Authorization, signed : Authorization]
    BY <1>1
  <2> HIDE DEF a
  <2> QED
    BY <1>2, <2>1, VisitsAssumption
       DEF IInv, RouteInv, SignAndFetch, RouteTypeOK, facilitatorVars, Stages
<1>4. PaidWasAsked' /\ SettlesItsOwnTerms'
  BY <1>2, VisitsAssumption
     DEF IInv, RouteInv, RouteTypeOK, SignAndFetch, PaidWasAsked, SettlesItsOwnTerms,
         facilitatorVars
<1>5. ASSUME NEW v \in Visits
      PROVE  VisitInv(v)'
  <2>1. CASE v = k
    <3>1. stage[k] = "none" /\ asked[k] = {} /\ outcome[k] = "none" /\ VisitInv(k)
      BY <2>1 DEF IInv, RouteInv, VisitInv, SignAndFetch
    <3>2. request'[k] = {[auth |-> a, signed |-> a]} /\ stage'[k] = "sent" /\ a' = a
      BY <1>2, <2>1 DEF IInv, RouteInv, RouteTypeOK, SignAndFetch, PayloadAuthorization
    <3>3. phase'[k] = "fetching"
      BY DEF IInv, PageInv, PageTypeOK, SignAndFetch
    <3> HIDE DEF a
    <3> QED
      BY <2>1, <3>1, <3>2, <3>3 DEF VisitInv, SignAndFetch, facilitatorVars, PaidBy, a
  <2>2. CASE v # k
    <3>1. /\ request'[v] = request[v] /\ stage'[v] = stage[v] /\ phase'[v] = phase[v]
          /\ UNCHANGED <<closure, asked, outcome, paid, reply>>
      BY <1>2, <2>2, VisitsAssumption
         DEF IInv, RouteInv, RouteTypeOK, PageInv, PageTypeOK, SignAndFetch, facilitatorVars
    <3>2. VisitInv(v)
      BY DEF IInv, RouteInv
    <3> HIDE DEF a
    <3> QED
      BY <3>1, <3>2 DEF VisitInv, PayloadAuthorization, PaidBy
  <2> QED
    BY <2>1, <2>2
<1> QED
  BY <1>3, <1>4, <1>5 DEF RouteInv

\* No step of the page disturbs the route's half of the invariant.
LEMMA PageKeepsRoute ==
  ASSUME IInv, Page
  PROVE  RouteInv'
<1>1. CASE \E a \in Accounts : onSignedIn(a)
  BY <1>1, RouteKept DEF IInv, onSignedIn, clickVars
<1>2. CASE onSignedOut
  BY <1>2, RouteKept DEF IInv, onSignedOut, clickVars
<1>3. CASE \E m \in Mounts : Challenge(m) \/ ShowOffer(m)
  BY <1>3, RouteKept DEF IInv, Challenge, ShowOffer, clickVars
<1>4. CASE \E m \in Mounts : LoadFails(m)
  BY <1>4, RouteKept DEF IInv, LoadFails
<1>5. CASE \E k \in Clicks : Click(k)
  BY <1>5, ClickKeepsRoute
<1>6. CASE \E k \in Clicks : SignAndFetch(k)
  BY <1>6, SignAndFetchKeepsRoute
<1>7. ASSUME NEW k \in Clicks,
             ClickTooEarly(k) \/ WalletDeclines(k) \/ ShowResponse(k) \/ FetchFails(k)
      PROVE  RouteInv'
  <2>1. phase' = [phase EXCEPT ![k] = "done"] /\ UNCHANGED <<routeVars, closure>>
    BY <1>7 DEF ClickTooEarly, WalletDeclines, ShowResponse, FetchFails, Conclude
  <2> QED
    BY <2>1, RouteKept DEF IInv, PageInv, PageTypeOK
<1> QED
  BY <1>1, <1>2, <1>3, <1>4, <1>5, <1>6, <1>7 DEF Page

-----------------------------------------------------------------------------
(* The page's steps, as the page sees them.                                *)

\* A step that leaves the page alone only makes more of what it shows be paid.
LEMMA PageKept ==
  ASSUME PageInv, UNCHANGED pageVars, paid \subseteq paid'
  PROVE  PageInv'
<1>1. /\ PageTypeOK' /\ (\A k \in Clicks : ClickInv(k)') /\ MessagesAreOfClicks'
      /\ NothingShownYet' /\ GoodsHaveTheirReceipt' /\ ReceiptIsNotOlder'
      /\ ProgressIsLive' /\ OfferIsOfThisMount'
  BY DEF PageInv, pageVars, PageTypeOK, ClickInv, PayloadAuthorization, MessagesAreOfClicks, NothingShownYet,
         GoodsHaveTheirReceipt, ReceiptIsNotOlder, ProgressIsLive, OfferIsOfThisMount
<1>2. ShownGoodsArePaid'
  BY DEF PageInv, pageVars, ShownGoodsArePaid, PaidBy
<1> QED
  BY <1>1, <1>2 DEF PageInv

\* The account events and the loads touch no click.
LEMMA LoadsKeepPage ==
  ASSUME IInv,
         \/ \E a \in Accounts : onSignedIn(a)
         \/ onSignedOut
         \/ \E m \in Mounts : Challenge(m) \/ ShowOffer(m) \/ LoadFails(m)
  PROVE  PageInv'
<1>1. /\ UNCHANGED <<receipt, phase, closure, typed, concluded, routeVars>>
      /\ result' = result \/ result' = Says(0, "error")
  BY DEF onSignedIn, onSignedOut, Challenge, ShowOffer, LoadFails, clickVars
<1>2. PageTypeOK'
  <2>1. PageTypeOK /\ offer \in Offers
    BY DEF IInv, PageInv, RouteInv, RouteTypeOK, Offers
  <2>2. account' \in Accounts \cup {Nobody}
    BY <2>1 DEF PageTypeOK, onSignedIn, onSignedOut, Challenge, ShowOffer, LoadFails
  <2>3. load' \in [Mounts -> {"asked", "answered", "ended"}]
    BY <2>1 DEF PageTypeOK, onSignedIn, onSignedOut, Challenge, ShowOffer, LoadFails
  <2>4. answer' \in [Mounts -> Offers] /\ requirement' \in Offers
    BY <2>1 DEF PageTypeOK, onSignedIn, onSignedOut, Challenge, ShowOffer, LoadFails
  <2>5. result' = Says(result'.of, result'.says) /\ receipt' = Says(receipt'.of, receipt'.says)
    BY <1>1, <2>1 DEF PageTypeOK, Says
  <2> QED
    BY <1>1, <2>1, <2>2, <2>3, <2>4, <2>5 DEF PageTypeOK
<1>3. OfferIsOfThisMount' /\ NothingShownYet'
  BY DEF IInv, PageInv, PageTypeOK, onSignedIn, onSignedOut, Challenge, ShowOffer,
         LoadFails, OfferIsOfThisMount, NothingShownYet, Mounts, Mounted
<1>4. /\ \A k \in Clicks : ClickInv(k)'
      /\ MessagesAreOfClicks' /\ GoodsHaveTheirReceipt' /\ ProgressIsLive'
  BY <1>1 DEF IInv, PageInv, ClickInv, PayloadAuthorization, MessagesAreOfClicks, GoodsHaveTheirReceipt,
              ProgressIsLive, Says
<1>5. ReceiptIsNotOlder' /\ ShownGoodsArePaid'
  BY <1>1 DEF IInv, PageInv, ReceiptIsNotOlder, ShownGoodsArePaid, PaidBy, Says, Clicks,
              routeVars, facilitatorVars
<1> QED
  BY <1>2, <1>3, <1>4, <1>5 DEF PageInv

\* A click that begins takes the receipt off the page.
LEMMA ClicksKeepPage ==
  ASSUME IInv, NEW k \in Clicks, Click(k) \/ ClickTooEarly(k)
  PROVE  PageInv'
<1>1. /\ phase[k] = "idle" /\ receipt' = Blank
      /\ concluded' = [concluded EXCEPT ![k] = {j \in Clicks : phase[j] = "done"}]
      /\ UNCHANGED <<account, load, answer, requirement, routeVars>>
      /\ \/ /\ result' = Says(k, "requesting")
            /\ phase' = [phase EXCEPT ![k] = "prompt"]
            /\ closure' = [closure EXCEPT ![k] = [from |-> account, terms |-> requirement]]
            /\ typed' = [typed EXCEPT ![k] =
                           [from |-> account, terms |-> requirement, nonce |-> k]]
            /\ account # Nobody /\ requirement # NoTerms
         \/ /\ result' = Says(k, "loading")
            /\ phase' = [phase EXCEPT ![k] = "done"]
            /\ UNCHANGED <<closure, typed>>
  BY DEF Click, ClickTooEarly, TypedData, Begins, NoteConcluded, Conclude
<1>2. PageTypeOK'
  <2>1. PageTypeOK
    BY DEF IInv, PageInv
  <2>2. phase' \in [Clicks -> Phases]
    BY <1>1, <2>1 DEF PageTypeOK, Phases
  <2>3. closure' \in [Clicks -> [from : Accounts \cup {Nobody}, terms : Offers]]
    BY <1>1, <2>1 DEF PageTypeOK
  <2>4. concluded' \in [Clicks -> SUBSET Clicks]
    BY <1>1, <2>1 DEF PageTypeOK
  <2>5. result' = Says(result'.of, result'.says) /\ receipt' = Says(receipt'.of, receipt'.says)
    BY <1>1 DEF Says, Blank
  <2> QED
    BY <1>1, <2>1, <2>2, <2>3, <2>4, <2>5 DEF PageTypeOK
<1>3. ASSUME NEW j \in Clicks
      PROVE  ClickInv(j)'
  BY <1>1 DEF IInv, PageInv, PageTypeOK, ClickInv, PayloadAuthorization, Says, Blank, Offers
<1>4. MessagesAreOfClicks' /\ NothingShownYet' /\ OfferIsOfThisMount'
  BY <1>1 DEF IInv, PageInv, MessagesAreOfClicks, NothingShownYet, OfferIsOfThisMount, Says,
              Blank
<1>5. /\ ShownGoodsArePaid' /\ GoodsHaveTheirReceipt' /\ ReceiptIsNotOlder'
      /\ ProgressIsLive'
  BY <1>1 DEF IInv, PageInv, PageTypeOK, ShownGoodsArePaid, GoodsHaveTheirReceipt,
              ReceiptIsNotOlder, ProgressIsLive, Says, Blank
<1> QED
  BY <1>2, <1>3, <1>4, <1>5 DEF PageInv

\* What a handler writes on its way, and on its way out without an answer.
LEMMA HandlersKeepPage ==
  ASSUME IInv, NEW k \in Clicks, SignAndFetch(k) \/ WalletDeclines(k) \/ FetchFails(k)
  PROVE  PageInv'
<1>1. /\ phase[k] \in {"prompt", "fetching"}
      /\ UNCHANGED <<account, load, answer, requirement, receipt, closure, typed, concluded, paid>>
      /\ \/ result' = Says(k, "submitting") /\ phase' = [phase EXCEPT ![k] = "fetching"]
         \/ result' = Says(k, "error") /\ phase' = [phase EXCEPT ![k] = "done"]
  BY DEF SignAndFetch, WalletDeclines, FetchFails, Conclude, routeVars, facilitatorVars
<1>2. PageTypeOK'
  BY <1>1 DEF IInv, PageInv, PageTypeOK, Says, Phases
<1>3. ASSUME NEW j \in Clicks
      PROVE  ClickInv(j)'
  BY <1>1 DEF IInv, PageInv, PageTypeOK, ClickInv, PayloadAuthorization
<1>4. MessagesAreOfClicks' /\ NothingShownYet' /\ OfferIsOfThisMount'
  BY <1>1 DEF IInv, PageInv, MessagesAreOfClicks, NothingShownYet, OfferIsOfThisMount, Says
<1>5. ReceiptIsNotOlder' /\ GoodsHaveTheirReceipt' /\ ProgressIsLive'
  BY <1>1 DEF IInv, PageInv, PageTypeOK, ClickInv, ReceiptIsNotOlder,
              GoodsHaveTheirReceipt, ProgressIsLive, Says
<1>6. ShownGoodsArePaid'
  BY <1>1 DEF IInv, PageInv, ShownGoodsArePaid, PaidBy, Says
<1> QED
  BY <1>2, <1>3, <1>4, <1>5, <1>6 DEF PageInv

\* An answer that hands out goods comes with the receipt of a transfer.
LEMMA ResponseKeepsPage ==
  ASSUME IInv, NEW k \in Clicks, ShowResponse(k)
  PROVE  PageInv'
<1>1. /\ phase[k] = "fetching" /\ phase' = [phase EXCEPT ![k] = "done"]
      /\ UNCHANGED <<account, load, answer, requirement, closure, typed, concluded, paid>>
      /\ reply[k].status \in {"goods", "refused"} /\ result' = Says(k, reply[k].status)
      /\ receipt' = IF reply[k].receipt # "none" THEN Says(k, reply[k].receipt) ELSE receipt
  BY DEF ShowResponse, Conclude, ExposedHeaders, routeVars, facilitatorVars
<1>2. /\ reply[k].receipt = "settled" => reply[k].status = "goods"
      /\ reply[k].status = "goods" => reply[k].receipt = "settled" /\ PaidBy(k) # {}
      /\ reply[k].receipt \in Receipts
  BY VisitsAssumption DEF IInv, RouteInv, RouteTypeOK, VisitInv
<1>3. PageTypeOK'
  BY <1>1 DEF IInv, PageInv, PageTypeOK, Says, Phases
<1>4. ASSUME NEW j \in Clicks
      PROVE  ClickInv(j)'
  BY <1>1 DEF IInv, PageInv, PageTypeOK, ClickInv, PayloadAuthorization, Says
<1>5. MessagesAreOfClicks' /\ NothingShownYet' /\ OfferIsOfThisMount'
  BY <1>1 DEF IInv, PageInv, MessagesAreOfClicks, NothingShownYet, OfferIsOfThisMount, Says
<1>6. ReceiptIsNotOlder'
  BY <1>1 DEF IInv, PageInv, PageTypeOK, ClickInv, ReceiptIsNotOlder, Says
<1>7. GoodsHaveTheirReceipt' /\ ProgressIsLive'
  BY <1>1, <1>2 DEF IInv, PageInv, PageTypeOK, GoodsHaveTheirReceipt, ProgressIsLive, Says
<1>8. ShownGoodsArePaid'
  BY <1>1, <1>2 DEF IInv, PageInv, ShownGoodsArePaid, PaidBy, Says, Receipts
<1> QED
  BY <1>3, <1>4, <1>5, <1>6, <1>7, <1>8 DEF PageInv

\* Every step of the page keeps the invariant.
LEMMA PageStep ==
  ASSUME IInv, Page
  PROVE  IInv'
  BY PageKeepsRoute, LoadsKeepPage, ClicksKeepPage, HandlersKeepPage, ResponseKeepsPage
     DEF Page, IInv

-----------------------------------------------------------------------------
(* The server's and the facilitator's steps.                               *)

\* A visit the step is not about stands where it stood.
LEMMA OtherVisitKept ==
  ASSUME RouteInv, NEW v \in Visits, UNCHANGED <<request, closure, phase>>,
         stage'[v] = stage[v], reply'[v] = reply[v], asked'[v] = asked[v],
         outcome'[v] = outcome[v], paid \subseteq paid'
  PROVE  VisitInv(v)'
  BY DEF RouteInv, VisitInv, PayloadAuthorization, PaidBy

\* Verify keeps the invariant.
LEMMA VerifyStep ==
  ASSUME IInv, NEW v \in Visits, Verify(v), UNCHANGED pageVars
  PROVE  RouteInv'
<1>1. /\ stage[v] = "sent"
      /\ UNCHANGED <<offer, request, asked, outcome, paid, closure, phase>>
      /\ \/ /\ \A q \in request[v] : Matches(q)
            /\ stage' = [stage EXCEPT ![v] = "verified"] /\ reply' = reply
         \/ /\ stage' = [stage EXCEPT ![v] = "replied"]
            /\ reply' = [reply EXCEPT ![v] = [status |-> "refused", receipt |-> "none"]]
  BY DEF Verify, Reply, facilitatorVars, pageVars
<1>2. RouteTypeOK' /\ PaidWasAsked'
  BY <1>1 DEF IInv, RouteInv, RouteTypeOK, PaidWasAsked, Stages, Statuses, Receipts
<1>3. SettlesItsOwnTerms'
  BY <1>1 DEF IInv, RouteInv, RouteTypeOK, SettlesItsOwnTerms, Matches
<1>4. ASSUME NEW u \in Visits, u # v
      PROVE  VisitInv(u)'
  BY <1>1, <1>4, OtherVisitKept DEF IInv, RouteInv, RouteTypeOK
<1>5. VisitInv(v)'
  BY <1>1, VisitsAssumption
     DEF IInv, RouteInv, RouteTypeOK, VisitInv, PayloadAuthorization, PaidBy
<1> QED
  BY <1>2, <1>3, <1>4, <1>5 DEF RouteInv

\* Settling a request keeps the invariant.
LEMMA SettleStep ==
  ASSUME IInv, NEW v \in Visits, Settle(v), UNCHANGED pageVars
  PROVE  RouteInv'
<1>1. PICK q \in request[v] : Facilitator!Ask(v, q.auth)
  BY DEF Settle
<1>2. /\ stage[v] = "verified" /\ stage' = [stage EXCEPT ![v] = "settling"]
      /\ asked' = [asked EXCEPT ![v] = {q.auth}] /\ outcome' = [outcome EXCEPT ![v] = "open"]
      /\ asked[v] = {}
      /\ UNCHANGED <<offer, request, reply, paid, closure, phase>>
  BY <1>1 DEF Settle, Facilitator!Ask, pageVars, IInv, RouteInv, VisitInv
<1>3. RouteTypeOK' /\ PaidWasAsked' /\ SettlesItsOwnTerms'
  <2>1. q.auth \in Authorization
    BY <1>1 DEF IInv, RouteInv, RouteTypeOK
  <2>2. RouteTypeOK'
    BY <1>2, <2>1 DEF IInv, RouteInv, RouteTypeOK, Stages, Outcomes
  <2>3. PaidWasAsked' /\ SettlesItsOwnTerms'
    BY <1>2 DEF IInv, RouteInv, RouteTypeOK, PaidWasAsked, SettlesItsOwnTerms
  <2> QED
    BY <2>2, <2>3
<1>4. ASSUME NEW u \in Visits, u # v
      PROVE  VisitInv(u)'
  BY <1>2, <1>4, OtherVisitKept DEF IInv, RouteInv, RouteTypeOK
<1>5. VisitInv(v)'
  BY <1>1, <1>2
     DEF IInv, RouteInv, RouteTypeOK, VisitInv, PayloadAuthorization, PaidBy
<1> QED
  BY <1>3, <1>4, <1>5 DEF RouteInv

\* Goods are handed out after a success, and a success is a transfer of what was asked.
LEMMA AnswerStep ==
  ASSUME IInv, NEW v \in Visits, HandOut(v) \/ HoldBack(v), UNCHANGED pageVars
  PROVE  RouteInv'
<1>1. PICK s \in {"goods", "refused"}, r \in Receipts :
        /\ stage' = [stage EXCEPT ![v] = "replied"]
        /\ reply' = [reply EXCEPT ![v] = [status |-> s, receipt |-> r]]
        /\ s = "goods" => outcome[v] = "success"
        /\ s = "goods" <=> r = "settled"
  BY DEF HandOut, HoldBack, Reply, Receipts
<1>2. stage[v] = "settling" /\ UNCHANGED <<offer, request, asked, outcome, paid, closure, phase>>
  BY DEF HandOut, HoldBack, facilitatorVars, pageVars
<1>3. RouteTypeOK' /\ PaidWasAsked' /\ SettlesItsOwnTerms'
  BY <1>1, <1>2
     DEF IInv, RouteInv, RouteTypeOK, PaidWasAsked, SettlesItsOwnTerms, Stages, Statuses
<1>4. ASSUME NEW u \in Visits, u # v
      PROVE  VisitInv(u)'
  BY <1>1, <1>2, <1>4, OtherVisitKept DEF IInv, RouteInv, RouteTypeOK
<1>5. VisitInv(v)'
  <2>1. VisitInv(v) /\ stage'[v] = "replied" /\ reply'[v] = [status |-> s, receipt |-> r]
    BY <1>1 DEF IInv, RouteInv, RouteTypeOK
  <2>2. ASSUME s = "goods"
        PROVE  PaidBy(v) # {}
    <3>1. PICK a \in asked[v] : a \in paid
      BY <1>1, <2>1, <2>2 DEF VisitInv
    <3>2. a.nonce = v
      BY <2>1, <3>1 DEF VisitInv, PayloadAuthorization
    <3> QED
      BY <3>1, <3>2 DEF PaidBy
  <2> QED
    BY <1>1, <1>2, <2>1, <2>2, VisitsAssumption
       DEF VisitInv, PayloadAuthorization, PaidBy, IInv, RouteInv
<1> QED
  BY <1>3, <1>4, <1>5 DEF RouteInv

\* A restart makes a new offer, and leaves no visit with the old one in hand.
LEMMA RestartStep ==
  ASSUME IInv, Restart, UNCHANGED pageVars
  PROVE  RouteInv'
<1>1. RouteTypeOK'
  <2>1. offer + 1 \in Terms
    BY MaxStartsAssumption DEF IInv, RouteInv, RouteTypeOK, Restart, Terms
  <2> QED
    BY <2>1 DEF IInv, RouteInv, RouteTypeOK, Restart, facilitatorVars, Stages, Statuses, Receipts
<1>2. PaidWasAsked' /\ SettlesItsOwnTerms'
  BY DEF IInv, RouteInv, PaidWasAsked, SettlesItsOwnTerms, Restart, facilitatorVars
<1>3. ASSUME NEW v \in Visits
      PROVE  VisitInv(v)'
  BY DEF IInv, RouteInv, RouteTypeOK, VisitInv, Restart, facilitatorVars, pageVars, NoReply,
         PayloadAuthorization, PaidBy
<1> QED
  BY <1>1, <1>2, <1>3 DEF RouteInv

\* Every step of the facilitator keeps the invariant.
LEMMA FacilitatorStep ==
  ASSUME IInv, Facilitate, UNCHANGED pageVars
  PROVE  RouteInv'
<1>0. UNCHANGED <<offer, stage, reply, request, closure, phase>>
  BY DEF Facilitate, serverVars, pageVars
<1>1. CASE \E a \in Authorization : Facilitator!Transfer(a)
  <2>1. PICK a \in Authorization : Facilitator!Transfer(a)
    BY <1>1
  <2>2. RouteTypeOK' /\ PaidWasAsked' /\ SettlesItsOwnTerms'
    BY <1>0, <2>1 DEF IInv, RouteInv, RouteTypeOK, PaidWasAsked, SettlesItsOwnTerms,
                      Facilitator!Transfer
  <2>3. ASSUME NEW v \in Visits
        PROVE  VisitInv(v)'
    BY <1>0, <2>1, OtherVisitKept DEF IInv, Facilitator!Transfer
  <2> QED
    BY <2>2, <2>3 DEF RouteInv
<1>2. ASSUME NEW u \in Visits, Facilitator!Succeed(u) \/ Facilitator!Fail(u)
      PROVE  RouteInv'
  <2>1. PICK o \in {"success", "failure"} :
          /\ outcome[u] = "open" /\ outcome' = [outcome EXCEPT ![u] = o]
          /\ o = "success" => asked[u] \subseteq paid
          /\ UNCHANGED <<asked, paid>>
    BY <1>2 DEF Facilitator!Succeed, Facilitator!Fail
  <2>2. RouteTypeOK' /\ PaidWasAsked' /\ SettlesItsOwnTerms'
    BY <1>0, <2>1
       DEF IInv, RouteInv, RouteTypeOK, PaidWasAsked, SettlesItsOwnTerms, Outcomes
  <2>3. ASSUME NEW v \in Visits, v # u
        PROVE  VisitInv(v)'
    BY <1>0, <2>1, <2>3, OtherVisitKept DEF IInv, RouteInv, RouteTypeOK
  <2>4. VisitInv(u)'
    BY <1>0, <2>1 DEF IInv, RouteInv, RouteTypeOK, VisitInv, PayloadAuthorization,
                      PaidBy
  <2> QED
    BY <2>2, <2>3, <2>4 DEF RouteInv
<1> QED
  BY <1>1, <1>2 DEF Facilitate

-----------------------------------------------------------------------------
(* The invariant, and what follows from it.                                *)

\* Every step keeps the invariant.
LEMMA NextStep ==
  ASSUME IInv, [Next]_vars
  PROVE  IInv'
<1>1. CASE Page
  BY <1>1, PageStep
<1>2. ASSUME NEW v \in Visits, Serve(v)
      PROVE  IInv'
  <2>1. RouteInv' /\ UNCHANGED pageVars
    BY <1>2, VerifyStep, SettleStep, AnswerStep DEF Serve, Server
  <2>2. paid' = paid
    BY <1>2 DEF Serve, Server, Verify, Settle, HandOut, HoldBack, Facilitator!Ask,
                facilitatorVars
  <2> QED
    BY <2>1, <2>2, PageKept DEF IInv
<1>3. CASE Restart /\ UNCHANGED pageVars
  <2>1. paid' = paid
    BY <1>3 DEF Restart, facilitatorVars
  <2> QED
    BY <1>3, <2>1, RestartStep, PageKept DEF IInv
<1>4. CASE Facilitate /\ UNCHANGED pageVars
  <2>1. paid \subseteq paid'
    BY <1>4 DEF Facilitate, Facilitator!Succeed, Facilitator!Fail, Facilitator!Transfer
  <2> QED
    BY <1>4, <2>1, FacilitatorStep, PageKept DEF IInv
<1>5. CASE UNCHANGED vars
  <2>1. UNCHANGED <<routeVars, closure, pageVars, phase, paid>>
    BY <1>5 DEF vars, pageVars, routeVars, facilitatorVars
  <2> QED
    BY <2>1, RouteKept, PageKept DEF IInv
<1> QED
  BY <1>1, <1>2, <1>3, <1>4, <1>5 DEF Next

\* Every reachable state of a visit satisfies the inductive invariant.
THEOREM Invariance == Spec => []IInv
<1>1. Init => IInv
  BY InitIInv
<1>2. IInv /\ [Next]_vars => IInv'
  BY NextStep
<1> QED
  BY <1>1, <1>2, PTL DEF Spec

\* What is on display as bought has been paid for (SignTypedData.tsx, lines 190-195).
THEOREM ShownIsPaid == Spec => []ShownGoodsArePaid
<1>1. IInv => ShownGoodsArePaid
  BY DEF IInv, PageInv
<1> QED
  BY <1>1, Invariance, PTL

\* What a click sends is what its wallet was given to sign, and was on display; and what
\* is charged was sent: a transfer was asked for, and what is asked for is in the request.
THEOREM SignedIsPaid == Spec => []PaysWhatWasSigned
<1>1. ASSUME IInv, NEW k \in Clicks
      PROVE  /\ \A q \in request[k] :
                  /\ q.auth = q.signed
                  /\ q.auth.from = closure[k].from /\ q.auth.terms = closure[k].terms
             /\ \A a \in PaidBy(k) : \E q \in request[k] : q.auth = a
  <2>1. VisitInv(k)
    BY <1>1, VisitsAssumption DEF IInv, RouteInv
  <2>2. ASSUME NEW q \in request[k]
        PROVE  /\ q.auth = q.signed
               /\ q.auth.from = closure[k].from /\ q.auth.terms = closure[k].terms
    BY <2>1, <2>2 DEF VisitInv, PayloadAuthorization
  <2>3. ASSUME NEW a \in PaidBy(k)
        PROVE  \E q \in request[k] : q.auth = a
    <3>1. PICK v \in Visits : a \in asked[v]
      BY <1>1, <2>3 DEF IInv, RouteInv, PaidWasAsked, PaidBy
    <3>2. PICK q \in request[v] : q.auth = a /\ q.auth = PayloadAuthorization(v)
      BY <1>1, <3>1 DEF IInv, RouteInv, VisitInv
    <3>3. v = k
      BY <2>3, <3>2 DEF PaidBy, PayloadAuthorization
    <3> QED
      BY <3>2, <3>3
  <2> QED
    BY <2>2, <2>3
<1>2. IInv => PaysWhatWasSigned
  BY <1>1 DEF PaysWhatWasSigned
<1> QED
  BY <1>2, Invariance, PTL

\* No payment of an earlier offer is settled after a restart.
THEOREM OwnTermsOnly == Spec => []SettlesItsOwnTerms
<1>1. IInv => SettlesItsOwnTerms
  BY DEF IInv, RouteInv
<1> QED
  BY <1>1, Invariance, PTL

\* Goods, receipt, messages and requirement on display belong together, whatever clicks,
\* mounts and answers overlap (lines 24-61, 86-87 and 190-195).
THEOREM DisplayFits == Spec => []DisplayIsCoherent
<1>1. IInv => DisplayIsCoherent
  BY DEF IInv, PageInv, DisplayIsCoherent
<1> QED
  BY <1>1, Invariance, PTL
=============================================================================
