----------------------------- MODULE Settlement ------------------------------
(***************************************************************************)
(* What a facilitator's /settle promises, without saying how: a call asks  *)
(* for one payment, a payment is transferred at most once and only if some *)
(* call asked for it, and a call is answered with success only for a       *)
(* payment that has been transferred.  A failure promises nothing about    *)
(* the transfer: it may already have happened, or happen later.            *)
(***************************************************************************)
CONSTANTS Calls, Payments

VARIABLES
  asked,     \* the payment each call asks for, a set of at most one
  outcome,   \* each call's: "none" before it arrives, then "open", then the answer
  paid       \* payments transferred so far

settlementVars == <<asked, outcome, paid>>

Init ==
  /\ asked = [c \in Calls |-> {}]
  /\ outcome = [c \in Calls |-> "none"]
  /\ paid = {}

Ask(c, a) ==
  /\ outcome[c] = "none"
  /\ asked' = [asked EXCEPT ![c] = {a}]
  /\ outcome' = [outcome EXCEPT ![c] = "open"]
  /\ UNCHANGED paid

Transfer(a) ==
  /\ a \notin paid
  /\ \E c \in Calls : a \in asked[c]
  /\ paid' = paid \cup {a}
  /\ UNCHANGED <<asked, outcome>>

Succeed(c) ==
  /\ outcome[c] = "open"
  /\ asked[c] \subseteq paid
  /\ outcome' = [outcome EXCEPT ![c] = "success"]
  /\ UNCHANGED <<asked, paid>>

Fail(c) ==
  /\ outcome[c] = "open"
  /\ outcome' = [outcome EXCEPT ![c] = "failure"]
  /\ UNCHANGED <<asked, paid>>

Next ==
  \/ \E c \in Calls, a \in Payments : Ask(c, a)
  \/ \E c \in Calls : Succeed(c) \/ Fail(c)
  \/ \E a \in Payments : Transfer(a)

\* What may happen.
SafetySpec == Init /\ [][Next]_settlementVars

\* And every call that arrives is answered.
Spec ==
  /\ SafetySpec
  /\ \A c \in Calls : WF_settlementVars(Succeed(c) \/ Fail(c))
=============================================================================
