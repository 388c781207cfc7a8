----------------------------- MODULE WalletPage -----------------------------
(***************************************************************************)
(* The CSPR.click page: its state (React), the loads of the challenge when *)
(* it is mounted, the account events of the wallet, and handleSignTypedData*)
(* running once for each click, several at a time: the button is never     *)
(* disabled while one runs.  An action is what runs between two awaits.    *)
(***************************************************************************)
EXTENDS PaidRoute

CONSTANTS
  MaxClicks,  \* bound: how often "Get paid resource" is clicked
  Accounts,   \* the wallet's accounts
  Nobody      \* no account: signed out

Clicks == 1..MaxClicks
NoTerms == 0    \* no requirement loaded

ASSUME PageAssumption ==
  /\ MaxClicks \in Nat
  /\ Clicks \subseteq Visits /\ Accounts \subseteq Payers /\ Nobody \notin Accounts

\* StrictMode (main.tsx) mounts the page, unmounts it and mounts it again at once:
\* the first mount's isMounted is false.  A production build has one mount only,
\* as if the fetch of the other one were never answered.
Mounts == {1, 2}
Mounted == 2

VARIABLES
  account,      \* activeAccount
  load,         \* where each mount's fetch of the challenge is
  answer,       \* the terms it was answered with
  requirement,  \* paymentRequirement, and with it paymentInfo
  result,       \* verifyResult: the click (0: the load) that wrote it, and what
  receipt,      \* paymentResponse: the click that wrote it, and what
  phase,        \* where each click's handler is
  closure,      \* the account and requirement each click's handler was rendered with
  typed,        \* the message each click's handler has given to the wallet
  concluded     \* history: the clicks already concluded when each one began

pageVars == <<account, load, answer, requirement, result, receipt, phase, closure, typed,
              concluded>>
clickVars == <<result, receipt, phase, closure, typed, concluded>>

Says(k, what) == [of |-> k, says |-> what]
Blank == Says(0, "nothing")

PageInit ==
  /\ account = Nobody
  /\ load = [m \in Mounts |-> "asked"]
  /\ answer = [m \in Mounts |-> NoTerms]
  /\ requirement = NoTerms
  /\ result = Blank
  /\ receipt = Blank
  /\ phase = [k \in Clicks |-> "idle"]
  /\ closure = [k \in Clicks |-> [from |-> Nobody, terms |-> NoTerms]]
  /\ typed = [k \in Clicks |-> [from |-> Nobody, terms |-> NoTerms, nonce |-> k]]
  /\ concluded = [k \in Clicks |-> {}]

-----------------------------------------------------------------------------
(* App: the wallet's account events.                                       *)

\* csprclick:signed_in and csprclick:switched_account, the first of them also the
\* end of the signInWithAccount by which an unsolicited change is answered.
onSignedIn(a) ==
  /\ account' = a
  /\ UNCHANGED <<load, answer, requirement, clickVars, routeVars>>

\* csprclick:signed_out and csprclick:disconnected.
onSignedOut ==
  /\ account' = Nobody
  /\ UNCHANGED <<load, answer, requirement, clickVars, routeVars>>

-----------------------------------------------------------------------------
(* loadPaymentInfo, once for each mount.                                   *)

\* The server answers 402 with the offer of that moment.
Challenge(m) ==
  /\ load[m] = "asked"
  /\ load' = [load EXCEPT ![m] = "answered"]
  /\ answer' = [answer EXCEPT ![m] = offer]
  /\ UNCHANGED <<account, requirement, clickVars, routeVars>>

\* The answer to a fetch of an earlier mount is dropped.
ShowOffer(m) ==
  /\ load[m] = "answered"
  /\ load' = [load EXCEPT ![m] = "ended"]
  /\ requirement' = IF m = Mounted THEN answer[m] ELSE requirement
  /\ UNCHANGED <<account, answer, clickVars, routeVars>>

\* No answer, or not a challenge: nothing is loaded, and nothing will be.
LoadFails(m) ==
  /\ load[m] \in {"asked", "answered"}
  /\ load' = [load EXCEPT ![m] = "ended"]
  /\ result' = IF m = Mounted THEN Says(0, "error") ELSE result
  /\ UNCHANGED <<account, answer, requirement, receipt, phase, closure, typed,
                 concluded, routeVars>>

-----------------------------------------------------------------------------
(* handleSignTypedData.                                                    *)

\* The button is enabled, and k is the number of the next click.
Begins(k) ==
  /\ account # Nobody
  /\ phase[k] = "idle"
  /\ \A j \in 1..(k - 1) : phase[j] # "idle"

Conclude(k) == phase' = [phase EXCEPT ![k] = "done"]

\* The history of the clicks that had concluded when k began.
NoteConcluded(k) ==
  concluded' = [concluded EXCEPT ![k] = {j \in Clicks : phase[j] = "done"}]

\* The message that is built with what is on display.
TypedData(k) == [from |-> account, terms |-> requirement, nonce |-> k]

\* Mutation: the receipt of the last visit is left on display.
ClickKeepingReceipt(k) ==
  /\ Begins(k)
  /\ requirement # NoTerms
  /\ result' = Says(k, "requesting")
  /\ closure' = [closure EXCEPT ![k] = [from |-> account, terms |-> requirement]]
  /\ typed' = [typed EXCEPT ![k] = TypedData(k)]
  /\ phase' = [phase EXCEPT ![k] = "prompt"]
  /\ NoteConcluded(k)
  /\ UNCHANGED <<account, load, answer, requirement, receipt, routeVars>>

\* The wallet is asked with the account and the requirement on display.
Click(k) ==
  /\ Begins(k)
  /\ requirement # NoTerms
  /\ result' = Says(k, "requesting")
  /\ receipt' = Blank
  /\ closure' = [closure EXCEPT ![k] = [from |-> account, terms |-> requirement]]
  /\ typed' = [typed EXCEPT ![k] = TypedData(k)]
  /\ phase' = [phase EXCEPT ![k] = "prompt"]
  /\ NoteConcluded(k)
  /\ UNCHANGED <<account, load, answer, requirement, routeVars>>

\* "Payment information is still loading."
ClickTooEarly(k) ==
  /\ Begins(k)
  /\ requirement = NoTerms
  /\ result' = Says(k, "loading")
  /\ receipt' = Blank
  /\ Conclude(k)
  /\ NoteConcluded(k)
  /\ UNCHANGED <<account, load, answer, requirement, closure, typed, routeVars>>

\* Mutation: after the prompt the page's state is read again.
PayloadAuthorizationLate(k) == [from |-> account, terms |-> requirement, nonce |-> k]

\* What a handler puts into the payload is what its button was rendered with.
PayloadAuthorization(k) ==
  [from |-> closure[k].from, terms |-> closure[k].terms, nonce |-> k]

\* The wallet has signed what it was given: the payload is built and sent in one turn.
SignAndFetch(k) ==
  /\ phase[k] = "prompt"
  /\ Send(k, PayloadAuthorization(k), typed[k])
  /\ result' = Says(k, "submitting")
  /\ phase' = [phase EXCEPT ![k] = "fetching"]
  /\ UNCHANGED <<account, load, answer, requirement, receipt, closure, typed, concluded,
                 offer, reply, facilitatorVars>>

\* Cancelled, in error, or signTypedData throws.
WalletDeclines(k) ==
  /\ phase[k] = "prompt"
  /\ result' = Says(k, "error")
  /\ Conclude(k)
  /\ UNCHANGED <<account, load, answer, requirement, receipt, closure, typed, concluded,
                 routeVars>>

\* CORS: what a page of another origin may read of an answer.
ExposedHeaders == {"PAYMENT-REQUIRED", "PAYMENT-RESPONSE"}

\* Any status is shown, with the receipt if the answer has one.
ShowResponse(k) ==
  /\ phase[k] = "fetching"
  /\ reply[k].status \in {"goods", "refused"}
  /\ result' = Says(k, reply[k].status)
  /\ receipt' = IF reply[k].receipt # "none" /\ "PAYMENT-RESPONSE" \in ExposedHeaders
                THEN Says(k, reply[k].receipt)
                ELSE receipt
  /\ Conclude(k)
  /\ UNCHANGED <<account, load, answer, requirement, closure, typed, concluded, routeVars>>

\* The connection is lost, whatever the server has done or will do.
FetchFails(k) ==
  /\ phase[k] = "fetching"
  /\ result' = Says(k, "error")
  /\ Conclude(k)
  /\ UNCHANGED <<account, load, answer, requirement, receipt, closure, typed, concluded,
                 routeVars>>

Page ==
  \/ \E a \in Accounts : onSignedIn(a)
  \/ onSignedOut
  \/ \E m \in Mounts : Challenge(m) \/ ShowOffer(m) \/ LoadFails(m)
  \/ \E k \in Clicks :
       \/ Click(k) \/ ClickTooEarly(k) \/ SignAndFetch(k) \/ WalletDeclines(k)
       \/ ShowResponse(k) \/ FetchFails(k)
=============================================================================
