-------------------------- MODULE TwoFacilitators ---------------------------
(***************************************************************************)
(* A Go and a TypeScript facilitator that serve the same payments side by  *)
(* side: the two example services take one environment, so one signing key *)
(* and one node.  They know nothing of each other and meet on the chain.   *)
(***************************************************************************)
EXTENDS CasperChain

CONSTANTS
  GoCalls, JsCalls,                              \* the calls each one gets
  Requests, Millis, NoTx, NoRequest,             \* as in GoFacilitator
  RequestTimeout, WaitTimeout, Margin,
  KeyNetworks, RpcNetworks, DefaultNetworks

ASSUME CallsAssumption == GoCalls \cap JsCalls = {}

VARIABLES goPc, goReq, goDeadline, goGone, goTx, goRpc, goResp,
          jsPc, jsReq, jsStart, jsTx, jsRpc, jsResp

goVars == <<goPc, goReq, goDeadline, goGone, goTx, goRpc, goResp>>
jsVars == <<jsPc, jsReq, jsStart, jsTx, jsRpc, jsResp>>
pairVars == <<chainVars, goVars, jsVars>>

Go == INSTANCE GoFacilitator WITH
  Calls <- GoCalls, pc <- goPc, req <- goReq, deadline <- goDeadline,
  gone <- goGone, tx <- goTx, rpc <- goRpc, resp <- goResp

Js == INSTANCE JsFacilitator WITH
  Calls <- JsCalls, pc <- jsPc, req <- jsReq, start <- jsStart,
  tx <- jsTx, rpc <- jsRpc, resp <- jsResp

\* What stands for no transaction is none of either facilitator.
ASSUME NoTxIsNone == NoTx \notin Go!Tx \cup Js!Tx

-----------------------------------------------------------------------------

PairInit == Go!Init /\ Js!Init

GoStep ==
  /\ \/ \E c \in GoCalls :
          Go!Handler(c) \/ Go!Disconnect(c) \/ Go!NodeTakesIn(c) \/ Go!NodeRefuses(c)
     \/ \E c \in GoCalls, q \in Requests : Go!HandleSettle(c, q)
  /\ UNCHANGED jsVars

JsStep ==
  /\ \/ \E c \in JsCalls : Js!Handler(c) \/ Js!NodeTakesIn(c) \/ Js!NodeRefuses(c)
     \/ \E c \in JsCalls, q \in Requests : Js!PostSettle(c, q)
  /\ UNCHANGED goVars

\* The chain and the clock are shared.
ChainStep ==
  /\ (\E t \in accepted : ExecuteWell(t) \/ ExecuteBadly(t)) \/ Tick
  /\ UNCHANGED <<goVars, jsVars>>

Finished ==
  /\ now = MaxTime
  /\ \A c \in GoCalls : goPc[c] \in {"idle", "done"}
  /\ \A c \in JsCalls : jsPc[c] = "done"
  /\ UNCHANGED pairVars

PairNext == GoStep \/ JsStep \/ ChainStep \/ Finished

PairSafetySpec == PairInit /\ [][PairNext]_pairVars
PairSpec == PairSafetySpec /\ Go!Fairness /\ Js!Fairness

-----------------------------------------------------------------------------
(* Properties.                                                             *)

\* Every call that reaches the Go facilitator is answered even if the node never
\* replies, since the put and the wait end with the handler's context; one that
\* reaches the TypeScript facilitator is, as long as every RPC request ends.
EveryCallAnswered == Go!EveryCallAnswered /\ Js!EveryCallAnswered

-----------------------------------------------------------------------------
(* Together they implement one settlement promise.                         *)

\* What is seen of a call: the payment it asks for, and how far its answer is.
AskedBy ==
  [c \in GoCalls \cup JsCalls |-> IF c \in GoCalls THEN Go!Asked[c] ELSE Js!Asked[c]]

OutcomeOf ==
  [c \in GoCalls \cup JsCalls |-> IF c \in GoCalls THEN Go!Outcome(c) ELSE Js!Outcome(c)]

PaidByEither == {Authorization(t) : t \in succeeded}

Promise == INSTANCE Settlement WITH
  Calls    <- GoCalls \cup JsCalls,
  Payments <- {Go!AuthorizationOf(q) : q \in Requests},
  asked    <- AskedBy,
  outcome  <- OutcomeOf,
  paid     <- PaidByEither

\* Whichever facilitator a payment goes to, and if it goes to both: at most one
\* transfer for an authorization, none unasked for, success only after the transfer,
\* and to every call an answer, given once, that stands.
KeepsPromise == Promise!Spec
=============================================================================
