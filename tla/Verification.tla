---------------------------- MODULE Verification ----------------------------
(***************************************************************************)
(* How a verifier is written down here, for the Go and the TypeScript one: *)
(* as the set of its checks.  A check has the line it stands at, the       *)
(* reason it answers with, and the condition under which it lets the       *)
(* payment through.  The answer is the reason of the first check that      *)
(* fails, without the prefix that all the error codes of a scheme share.   *)
(*                                                                         *)
(* A request q is a record: q.p is the payload with the scheme and network *)
(* its client accepted, q.r the payment requirements.  A condition that    *)
(* reads a field only parsed by an earlier check is guarded by that parse. *)
(***************************************************************************)
EXTENDS ExactScheme

CONSTANT Margin   \* seconds that must be left to settle: 6 in the code

ASSUME MarginAssumption == Margin \in Nat

Valid == "valid"

Check(line, reason, ok) == [at |-> line, reason |-> reason, ok |-> ok]

Accepts(checks) == \A k \in checks : k.ok

Verdict(checks) ==
  IF Accepts(checks) THEN Valid
  ELSE LET failing == {k \in checks : ~k.ok}
       IN  (CHOOSE k \in failing : \A j \in failing : k.at <= j.at).reason

MissingField(p) ==
  \/ "empty" \in {p.from.kind, p.to.kind, p.validAfter.form, p.validBefore.form}
  \/ "" \in {p.nonce, p.publicKey}
  \/ p.spelling = "empty"

AmountPresent(value) == value \notin {"", "0"}
=============================================================================
