------------------------------ MODULE GoExact -------------------------------
(***************************************************************************)
(* The pure part of the Go ExactCasperScheme with its FacilitatorSigner:   *)
(* what Verify answers, and the transaction Settle builds.                 *)
(***************************************************************************)
EXTENDS Verification

CONSTANTS
  KeyNetworks,      \* networks the facilitator holds a signing key for
  RpcNetworks,      \* networks it is given a node URL for
  DefaultNetworks   \* networks with a built-in node URL (NetworkConfigs)

\* FacilitatorSigner.GetNetworkConfig: it needs a node URL, not a key.
GoGetNetworkConfig(network) == network \in RpcNetworks \cup DefaultNetworks

\* Mutation: the payee of the authorization is not compared.
GoShapeChecksAnyPayee(p, r) ==
  { Check(88, "unsupported_scheme", p.scheme = Exact),
    Check(92, "network_mismatch", p.network = r.network),
    Check(96, "malformed_payload", ~MissingField(p) /\ p.value \notin {"", Absent}),
    Check(105, "amount_mismatch", p.value = r.amount),
    Check(109, "invalid_payto", IsValidAddress(r.payTo) /\ IsValidAddress(p.to)),
    Check(113, "invalid_amount", AmountPresent(r.amount) /\ AmountPresent(p.value)),
    Check(117, "invalid_asset", IsValidContractPackageHash(r.asset)) }

GoShapeChecks(p, r) ==
  { Check(88, "unsupported_scheme", p.scheme = Exact),
    Check(92, "network_mismatch", p.network = r.network),
    Check(96, "malformed_payload", ~MissingField(p) /\ p.value \notin {"", Absent}),
    Check(101, "payto_mismatch", p.to = r.payTo),
    Check(105, "amount_mismatch", p.value = r.amount),
    Check(109, "invalid_payto", IsValidAddress(r.payTo) /\ IsValidAddress(p.to)),
    Check(113, "invalid_amount", AmountPresent(r.amount) /\ AmountPresent(p.value)),
    Check(117, "invalid_asset", IsValidContractPackageHash(r.asset)) }

\* Mutation: the start of the window is compared the wrong way round.
GoClockChecksFlipped(p, now) ==
  { Check(121, "malformed_payload", ParseInt(p.validAfter)),
    Check(125, "malformed_payload", ParseInt(p.validBefore)),
    Check(131, "not_yet_valid", p.validAfter.n >= now),
    Check(134, "payload_expired", now <= p.validBefore.n),
    Check(137, "insufficient_time_to_settle", p.validBefore.n - now >= Margin) }

\* Mutation: exactly Margin seconds are no longer enough.
GoClockChecksStrict(p, now) ==
  { Check(121, "malformed_payload", ParseInt(p.validAfter)),
    Check(125, "malformed_payload", ParseInt(p.validBefore)),
    Check(131, "not_yet_valid", p.validAfter.n <= now),
    Check(134, "payload_expired", now <= p.validBefore.n),
    Check(137, "insufficient_time_to_settle", p.validBefore.n - now > Margin) }

GoClockChecks(p, now) ==
  { Check(121, "malformed_payload", ParseInt(p.validAfter)),
    Check(125, "malformed_payload", ParseInt(p.validBefore)),
    Check(131, "not_yet_valid", p.validAfter.n <= now),
    Check(134, "payload_expired", now <= p.validBefore.n),
    Check(137, "insufficient_time_to_settle", p.validBefore.n - now >= Margin) }

\* What Verify recomputes from a payload p offered for requirements r.
GoDigestOf(p, r) ==
  HashTypedData(Domain(r.name, r.version, r.network, r.asset),
                Message(p.from, p.to, AmountOf[p.value],
                        p.validAfter.n, p.validBefore.n, p.nonce))

GoSignatureChecks(p, r) ==
  { Check(142, "network_mismatch", GoGetNetworkConfig(r.network)),
    Check(147, "missing_token_name", r.name # ""),
    Check(151, "missing_token_version", r.version # ""),
    Check(163, "malformed_payload", IsTypedAddress(p.from)),
    Check(172, "malformed_payload", IsDecimal(p.value)),
    Check(177, "malformed_payload", p.nonce \in ValidNonce),
    Check(198, "invalid_signature", GoHexDecodes(p.spelling) /\ p.signature.size = 65),
    Check(205, "invalid_signature", p.publicKey \in DOMAIN AccountOf),
    Check(209, "invalid_signature",
          IsDecimal(p.value) =>
            VerifySignature(p.signature, p.publicKey, GoDigestOf(p, r))) }

GoChecks(q, now) ==
  GoShapeChecks(q.p, q.r) \cup GoClockChecks(q.p, now) \cup GoSignatureChecks(q.p, q.r)

GoVerify(q, now) == Verdict(GoChecks(q, now))
-----------------------------------------------------------------------------
(* Settle, between a good verification and the put.                        *)

\* key.NewKey("account-hash-" + address[2:])
GoKeyBuilds(address) == address.kind \in {"account", "package"}

GoBuildChecks(q) ==
  { Check(248, "build_deploy_failed", GoKeyBuilds(q.p.from)),
    Check(252, "build_deploy_failed", GoKeyBuilds(q.p.to)),
    Check(256, "build_deploy_failed", IsDecimal(q.p.value)),
    Check(260, "build_deploy_failed", ParseUint(q.p.validAfter)),
    Check(264, "build_deploy_failed", ParseUint(q.p.validBefore)),
    Check(276, "build_deploy_failed", q.p.publicKey \in DOMAIN AccountOf),
    Check(296, "build_deploy_failed", q.r.network \in KeyNetworks),
    Check(306, "network_mismatch", GoGetNetworkConfig(q.r.network)) }

\* Mutation: the two time stamps change places.
GoTxOfSwapped(q, stamp) ==
  [from        |-> q.p.from.hash,
   to          |-> q.p.to.hash,
   value       |-> AmountOf[q.p.value],
   validAfter  |-> q.p.validBefore.n,
   validBefore |-> q.p.validAfter.n,
   nonce       |-> q.p.nonce,
   publicKey   |-> q.p.publicKey,
   signature   |-> q.p.signature,
   asset       |-> q.r.asset,
   network     |-> q.r.network,
   stamp       |-> stamp]

\* The transaction of lines 281-351: its hash is a function of these fields, so
\* equal fields are one transaction.  The keys drop the prefix of the addresses.
GoTxOf(q, stamp) ==
  [from        |-> q.p.from.hash,
   to          |-> q.p.to.hash,
   value       |-> AmountOf[q.p.value],
   validAfter  |-> q.p.validAfter.n,
   validBefore |-> q.p.validBefore.n,
   nonce       |-> q.p.nonce,
   publicKey   |-> q.p.publicKey,
   signature   |-> q.p.signature,
   asset       |-> q.r.asset,
   network     |-> q.r.network,
   stamp       |-> stamp]
=============================================================================
