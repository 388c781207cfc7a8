------------------------------ MODULE JsExact -------------------------------
(***************************************************************************)
(* The pure part of the TypeScript ExactCasperScheme: what verify answers, *)
(* and the transaction settle builds.  The signer's getNetworkConfig never *)
(* fails, so that call is no check.                                        *)
(***************************************************************************)
EXTENDS Verification

JsShapeChecks(p, r) ==
  { Check(123, "invalid_scheme", p.scheme = Exact /\ r.scheme = Exact),
    Check(127, "network_mismatch", p.network = r.network),
    Check(137, "invalid_scheme", ~MissingField(p) /\ p.value # Absent),
    Check(160, "payto_mismatch", p.to = r.payTo),
    Check(169, "amount_mismatch", p.value = r.amount),
    Check(178, "invalid_payto", IsValidAddress(r.payTo) /\ IsValidAddress(p.to)),
    Check(182, "invalid_payer", IsValidAddress(p.from)),
    Check(186, "amount_mismatch", AmountPresent(r.amount) /\ AmountPresent(p.value)),
    Check(200, "invalid_asset", IsValidContractPackageHash(r.asset)) }

\* Mutation: the start of the window is compared the wrong way round.
JsClockChecksFlipped(p, now) ==
  { Check(214, "invalid_scheme", JsParseInt(p.validAfter) /\ JsParseInt(p.validBefore)),
    Check(227, "not_yet_valid", JsNumber(p.validAfter) >= now),
    Check(235, "expired", now <= JsNumber(p.validBefore)),
    Check(243, "expired", JsNumber(p.validBefore) - now >= Margin) }

JsClockChecks(p, now) ==
  { Check(214, "invalid_scheme", JsParseInt(p.validAfter) /\ JsParseInt(p.validBefore)),
    Check(227, "not_yet_valid", JsNumber(p.validAfter) <= now),
    Check(235, "expired", now <= JsNumber(p.validBefore)),
    Check(243, "expired", JsNumber(p.validBefore) - now >= Margin) }

\* What verify recomputes from a payload p offered for requirements r.
JsDigestOf(p, r) ==
  HashTypedData(Domain(r.name, r.version, r.network, r.asset),
                Message(p.from, p.to, AmountOf[p.value],
                        JsNumber(p.validAfter), JsNumber(p.validBefore), p.nonce))

\* Mutation: the public key need not be the payer's, as in the Go verifier.
JsSignatureChecksAnyKey(p, r) ==
  { Check(254, "missing_token_name", r.name # ""),
    Check(257, "missing_token_version", r.version # ""),
    Check(273, "invalid_signature", p.nonce \in ValidNonce \cup UnhashableNonce),
    Check(291, "failed_to_hash", p.nonce \in ValidNonce /\ BigIntReads(p.value)),
    Check(307, "invalid_signature", p.publicKey \in DOMAIN AccountOf),
    Check(325, "invalid_signature", JsHexDecodes(p.spelling) /\ p.signature.size = 65),
    Check(339, "invalid_signature",
          BigIntReads(p.value) =>
            VerifySignature(p.signature, p.publicKey, JsDigestOf(p, r))) }

JsSignatureChecks(p, r) ==
  { Check(254, "missing_token_name", r.name # ""),
    Check(257, "missing_token_version", r.version # ""),
    Check(273, "invalid_signature", p.nonce \in ValidNonce \cup UnhashableNonce),
    Check(291, "failed_to_hash", p.nonce \in ValidNonce /\ BigIntReads(p.value)),
    Check(307, "invalid_signature", p.publicKey \in DOMAIN AccountOf),
    Check(313, "publickey_mismatch",
          p.publicKey \in DOMAIN AccountOf => AccountOf[p.publicKey] = p.from.hash),
    Check(325, "invalid_signature", JsHexDecodes(p.spelling) /\ p.signature.size = 65),
    Check(339, "invalid_signature",
          BigIntReads(p.value) =>
            VerifySignature(p.signature, p.publicKey, JsDigestOf(p, r))) }

JsChecks(q, now) ==
  JsShapeChecks(q.p, q.r) \cup JsClockChecks(q.p, now) \cup JsSignatureChecks(q.p, q.r)

JsVerify(q, now) == Verdict(JsChecks(q, now))
-----------------------------------------------------------------------------
(* settle, between a good verification and the put.                        *)

\* A CLUint64 argument cannot be negative.
JsArgsBuild(p) == JsNumber(p.validAfter) >= 0 /\ JsNumber(p.validBefore) >= 0

\* Mutation: the two time stamps change places.
JsTxOfSwapped(q, stamp) ==
  [from        |-> q.p.from.hash,
   to          |-> q.p.to.hash,
   value       |-> AmountOf[q.p.value],
   validAfter  |-> JsNumber(q.p.validBefore),
   validBefore |-> JsNumber(q.p.validAfter),
   nonce       |-> q.p.nonce,
   publicKey   |-> q.p.publicKey,
   signature   |-> q.p.signature,
   asset       |-> q.r.asset,
   network     |-> q.r.network,
   stamp       |-> stamp]

\* buildTransferWithAuthorizationArgs and the ContractCallBuilder around it.
JsTxOf(q, stamp) ==
  [from        |-> q.p.from.hash,
   to          |-> q.p.to.hash,
   value       |-> AmountOf[q.p.value],
   validAfter  |-> JsNumber(q.p.validAfter),
   validBefore |-> JsNumber(q.p.validBefore),
   nonce       |-> q.p.nonce,
   publicKey   |-> q.p.publicKey,
   signature   |-> q.p.signature,
   asset       |-> q.r.asset,
   network     |-> q.r.network,
   stamp       |-> stamp]
=============================================================================
