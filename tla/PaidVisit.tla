----------------------------- MODULE PaidVisit ------------------------------
(***************************************************************************)
(* A visit to a paid route from end to end: the page with its wallet, the  *)
(* server that may be restarted under it with other terms, and a           *)
(* facilitator of which no more is known than its promise.                 *)
(***************************************************************************)
EXTENDS WalletPage

ASSUME VisitsAssumption == Visits = Clicks

vars == <<routeVars, pageVars>>

Init == RouteInit /\ PageInit

Serve(v) == Server(v) /\ UNCHANGED pageVars

AnswerAsPromised(v) ==
  /\ Facilitator!Succeed(v) \/ Facilitator!Fail(v)
  /\ UNCHANGED <<serverVars, request, pageVars>>

ConnectionLost(k) == reply[k].status = "lost" /\ FetchFails(k)

Next ==
  \/ Page
  \/ \E v \in Visits : Serve(v)
  \/ Restart /\ UNCHANGED pageVars
  \/ Facilitate /\ UNCHANGED pageVars

\* The event loops run what is ready, and the facilitator answers, as promised.  A
\* lost connection is noticed; the user may leave the wallet's prompt open for ever.
Fairness ==
  \A k \in Clicks :
    /\ WF_vars(Serve(k))
    /\ WF_vars(AnswerAsPromised(k))
    /\ WF_vars(ShowResponse(k) \/ ConnectionLost(k))

Spec == Init /\ [][Next]_vars /\ Fairness

-----------------------------------------------------------------------------
(* Properties.                                                             *)

PaidBy(v) == {a \in paid : a.nonce = v}

\* Goods, or a receipt that says settled, are on display only for a click whose
\* payment has been transferred: the README's step 5 comes after its step 4.
ShownGoodsArePaid ==
  \A shown \in {result, receipt} :
    shown.says \in {"goods", "settled"} => PaidBy(shown.of) # {}

\* However often the wallet's account is switched and the server restarted while the
\* prompt is open, the payment that a click sends (lines 152-170 of SignTypedData.tsx)
\* is the one that the wallet was given to sign (lines 106-143), else it would be refused;
\* it is of the account and the terms on display at the click, and all that is charged.
PaysWhatWasSigned ==
  \A k \in Clicks :
    /\ \A q \in request[k] :
         /\ q.auth = q.signed
         /\ q.auth.from = closure[k].from /\ q.auth.terms = closure[k].terms
    /\ \A a \in PaidBy(k) : \E q \in request[k] : q.auth = a

\* A server asks for the settlement of its own terms only: a payment signed for
\* the terms of an earlier run, from a page loaded before, is never charged.
SettlesItsOwnTerms ==
  \A v \in Visits : stage[v] \in {"verified", "settling"} =>
    \A q \in request[v] : q.auth.terms = offer

\* No page line may mix two visits up: goods are shown with the receipt of the same
\* click, also when clicks overlap (both set in one turn, lines 190-195, and the
\* header is readable across origins).
GoodsHaveTheirReceipt ==
  result.says = "goods" => receipt = Says(result.of, "settled")

\* A receipt beside a result is never of a click that had concluded when the click
\* of the result began (line 87); it may be of one that overlapped with it.
ReceiptIsNotOlder ==
  receipt.says # "nothing" /\ result.of \in Clicks => receipt.of \notin concluded[result.of]

\* A progress message on display is that of a handler still running: every way out
\* of the handler replaces it, whatever other clicks write meanwhile.
ProgressIsLive ==
  /\ result.says = "requesting" => phase[result.of] = "prompt"
  /\ result.says = "submitting" => phase[result.of] = "fetching"

\* The requirement on display, which the user is charged by, was fetched by the
\* mount that is there, in whatever order the answers to two mounts arrive.
OfferIsOfThisMount ==
  requirement \in {NoTerms, answer[Mounted]}

\* What stands on the page fits together, however clicks, mounts and answers overlap.
DisplayIsCoherent ==
  /\ GoodsHaveTheirReceipt
  /\ ReceiptIsNotOlder
  /\ ProgressIsLive
  /\ OfferIsOfThisMount

\* Once it is sent, every payment ends with an answer or an error on the page, on
\* nothing but the facilitator's promise to answer.
EveryVisitConcludes ==
  \A k \in Clicks : phase[k] = "fetching" ~> phase[k] = "done"
=============================================================================
