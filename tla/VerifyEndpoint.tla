--------------------------- MODULE VerifyEndpoint ----------------------------
(***************************************************************************)
(* POST /verify of both facilitators: one request verified again and again *)
(* while time passes, as a resource server and then /settle do.  The       *)
(* handlers keep nothing between calls; the variables below remember what  *)
(* each last answered.                                                     *)
(***************************************************************************)
EXTENDS GoExact, JsExact

CONSTANTS
  Requests,   \* requests [p, r] that may be posted
  MaxTime     \* bound: the clock stops here

ASSUME MaxTimeAssumption == MaxTime \in Nat
ASSUME TimesAssumption ==
  \A x \in Requests : x.p.validAfter.n \in Int /\ x.p.validBefore.n \in Int

VARIABLES
  now,
  q,        \* the request
  goSaid,   \* the last answer of the Go facilitator, "none" before the first
  jsSaid    \* and of the TypeScript one

vars == <<now, q, goSaid, jsSaid>>

Init ==
  /\ now = 0
  /\ q \in Requests
  /\ goSaid = "none"
  /\ jsSaid = "none"

HandleVerify ==
  /\ goSaid' = GoVerify(q, now)
  /\ UNCHANGED <<now, q, jsSaid>>

PostVerify ==
  /\ jsSaid' = JsVerify(q, now)
  /\ UNCHANGED <<now, q, goSaid>>

PassTime ==
  /\ now < MaxTime
  /\ now' = now + 1
  /\ UNCHANGED <<q, goSaid, jsSaid>>

Next == HandleVerify \/ PostVerify \/ PassTime

Spec == Init /\ [][Next]_vars

-----------------------------------------------------------------------------
(* Properties.                                                             *)

\* Each endpoint answers with a reason that one of its own checks has, as it is: the
\* handlers pass the verifier's error code through (handleVerify, lines 143-164).
TypeOK ==
  /\ now \in 0..MaxTime
  /\ q \in Requests
  /\ goSaid \in {k.reason : k \in GoChecks(q, now)} \cup {Valid, "none"}
  /\ jsSaid \in {k.reason : k \in JsChecks(q, now)} \cup {Valid, "none"}

GoTooLate == {"insufficient_time_to_settle", "payload_expired"}

\* A payment that has been verified is refused later for one reason only, that its
\* window is closing, and never becomes good again after that; so between /verify
\* and /settle nothing but the clock can turn the answer (Verify, lines 130-139).
GoVerdictOnlyAges ==
  [][ /\ goSaid = Valid => goSaid' \in {Valid} \cup GoTooLate
      /\ goSaid \in GoTooLate => goSaid' \in GoTooLate ]_vars

\* The same of the TypeScript verifier, whose two late reasons have one name
\* (verify, lines 226-250).
JsVerdictOnlyAges ==
  [][ /\ jsSaid = Valid => jsSaid' \in {Valid, "expired"}
      /\ jsSaid = "expired" => jsSaid' = "expired" ]_vars

\* A valid payment is signed, by the key it names, as this transfer to the payee of the
\* requirements, of their amount and token and on their network, in the window and with
\* the nonce that go into the transaction: nothing of that is outside the digest.  The
\* key is the payer's own where TypeScript verified it (line 313); Go does not compare
\* it with the payer (line 205) and leaves that to the contract.
ValidIsSigned ==
  LET by     == q.p.signature.by
      signed == q.p.signature.over
      Terms(after, before) ==
        [from |-> q.p.from, to |-> q.r.payTo, value |-> AmountOf[q.r.amount],
         validAfter |-> after, validBefore |-> before, nonce |-> q.p.nonce]
  IN  /\ goSaid = Valid \/ jsSaid = Valid =>
           /\ by = q.p.publicKey
           /\ signed.domain = [name |-> q.r.name, version |-> q.r.version,
                               network |-> q.r.network, asset |-> q.r.asset]
      /\ goSaid = Valid =>
           signed.message = Terms(q.p.validAfter.n, q.p.validBefore.n)
      /\ jsSaid = Valid =>
           /\ signed.message = Terms(JsNumber(q.p.validAfter), JsNumber(q.p.validBefore))
           /\ AccountOf[by] = q.p.from.hash

\* Every text of a payload, written as the library's clients write it: time stamps that
\* int64 and a double hold, a decimal amount, a signature in plain hex.
PlainlyWritten(p) ==
  /\ ParseInt(p.validAfter) /\ JsNumber(p.validAfter) = p.validAfter.n
  /\ ParseInt(p.validBefore) /\ JsNumber(p.validBefore) = p.validBefore.n
  /\ IsDecimal(p.value)
  /\ GoHexDecodes(p.spelling)

\* For payloads so written the TypeScript verifier is the stricter one: what it accepts
\* the Go verifier accepts at the same second, provided it knows a node for the network.
\* For others neither is: TypeScript takes a signature written 0x..., an amount written
\* 0x5, a time stamp 123abc (scheme.ts, lines 26, 212 and 281) and Go does not, and of a
\* time stamp beyond 2^53 they read two numbers, only one of which was signed.
JsValidIsGoValid ==
  /\ PlainlyWritten(q.p)
  /\ GoGetNetworkConfig(q.r.network)
  /\ Accepts(JsChecks(q, now))
  => Accepts(GoChecks(q, now))

-----------------------------------------------------------------------------
(* What the documentation says of Go's Verify, and the code does not do.   *)

\* "verify we have a signer for the network in requirements": a valid payment is on a
\* network the facilitator has a key for.
ValidHasASigner == goSaid = Valid => q.r.network \in KeyNetworks
=============================================================================
