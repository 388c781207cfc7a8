----------------------------- MODULE PaidRoute ------------------------------
(***************************************************************************)
(* The example resource servers' paid route GET /weather.  The payment     *)
(* middleware around it is a library: it is modelled from how the servers  *)
(* configure it and what the clients of this repository read back.  The    *)
(* facilitator behind it is what its promise says of it (Settlement).      *)
(***************************************************************************)
EXTENDS Integers

CONSTANTS
  Visits,      \* paid requests, each with the fresh nonce of its payment
  Payers,      \* accounts that pay
  MaxStarts    \* bound: how often the server is started

ASSUME MaxStartsAssumption == MaxStarts \in Nat \ {0}

\* What the route asks for is made of the environment the server is started with:
\* the terms of its n-th start are n.
Terms == 1..MaxStarts

VARIABLES
  offer,       \* what the route asks for
  request,     \* the payment each visit has sent, a set of at most one
  stage,       \* how far the server is with it
  reply,       \* its answer: status, and what the PAYMENT-RESPONSE header says
  asked, outcome, paid   \* the facilitator, see Settlement

serverVars == <<offer, stage, reply>>
facilitatorVars == <<asked, outcome, paid>>
routeVars == <<serverVars, request, facilitatorVars>>

Authorization == [from : Payers, terms : Terms, nonce : Visits]

Facilitator == INSTANCE Settlement WITH Calls <- Visits, Payments <- Authorization

NoReply == [status |-> "none", receipt |-> "none"]

RouteInit ==
  /\ offer = 1
  /\ request = [v \in Visits |-> {}]
  /\ stage = [v \in Visits |-> "none"]
  /\ reply = [v \in Visits |-> NoReply]
  /\ Facilitator!Init

\* A client sends payment a, for which it holds a signature over signed.
Send(v, a, signed) ==
  /\ request' = [request EXCEPT ![v] = {[auth |-> a, signed |-> signed]}]
  /\ stage' = [stage EXCEPT ![v] = "sent"]

Reply(v, status, receipt) ==
  /\ stage' = [stage EXCEPT ![v] = "replied"]
  /\ reply' = [reply EXCEPT ![v] = [status |-> status, receipt |-> receipt]]

-----------------------------------------------------------------------------

\* Mutation: a payment for the terms of an earlier run of the server will do.
MatchesAnyTerms(q) == q.auth.terms \in Terms

\* The requirements a payment names are compared with those of the route.
Matches(q) == q.auth.terms = offer

\* Matched and verified by the facilitator, which may refuse a good one (its
\* clock, its configuration) or not be there.
Verify(v) ==
  /\ stage[v] = "sent"
  /\ \/ /\ \A q \in request[v] : Matches(q) /\ q.signed = q.auth
        /\ stage' = [stage EXCEPT ![v] = "verified"]
        /\ UNCHANGED reply
     \/ Reply(v, "refused", "none")
  /\ UNCHANGED <<offer, request, facilitatorVars>>

\* The goods are made, and before they are handed out the payment is settled.
Settle(v) ==
  /\ stage[v] = "verified"
  /\ \E q \in request[v] : Facilitator!Ask(v, q.auth)
  /\ stage' = [stage EXCEPT ![v] = "settling"]
  /\ UNCHANGED <<offer, reply, request>>

\* Mutation: the goods are handed out while the payment is being settled.
HandOutEarly(v) ==
  /\ stage[v] = "settling"
  /\ outcome[v] \in {"open", "success"}
  /\ Reply(v, "goods", "settled")
  /\ UNCHANGED <<offer, request, facilitatorVars>>

HandOut(v) ==
  /\ stage[v] = "settling"
  /\ outcome[v] = "success"
  /\ Reply(v, "goods", "settled")
  /\ UNCHANGED <<offer, request, facilitatorVars>>

\* Mutation: a facilitator that fails leaves the request without an answer.
HoldBackInSilence(v) == FALSE /\ HandOut(v)

\* Settlement has failed, or its answer does not arrive: no goods.
HoldBack(v) ==
  /\ stage[v] = "settling"
  /\ \/ outcome[v] = "failure" /\ Reply(v, "refused", "failed")
     \/ Reply(v, "refused", "none")
  /\ UNCHANGED <<offer, request, facilitatorVars>>

\* The server ends with the connections it holds and starts from its environment:
\* what it was doing is lost, also if the facilitator goes on with it.
Restart ==
  /\ offer < MaxStarts
  /\ offer' = offer + 1
  /\ stage' = [v \in Visits |-> IF stage[v] = "none" THEN "none" ELSE "replied"]
  /\ reply' = [v \in Visits |->
                 IF stage[v] \in {"none", "replied"} THEN reply[v]
                 ELSE [status |-> "lost", receipt |-> "none"]]
  /\ UNCHANGED <<request, facilitatorVars>>

Server(v) == Verify(v) \/ Settle(v) \/ HandOut(v) \/ HoldBack(v)

\* It keeps its promise towards the server, whatever that does meanwhile.
Facilitate ==
  /\ \/ \E v \in Visits : Facilitator!Succeed(v) \/ Facilitator!Fail(v)
     \/ \E a \in Authorization : Facilitator!Transfer(a)
  /\ UNCHANGED <<serverVars, request>>
=============================================================================
