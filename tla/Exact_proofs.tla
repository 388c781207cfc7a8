---------------------------- MODULE Exact_proofs -----------------------------
(***************************************************************************)
(* What the answer of a verifier is worth, for any set of checks; and that *)
(* acceptance is acceptance by each check, the sets of checks of the Go    *)
(* and the TypeScript scheme spelled out.                                  *)
(***************************************************************************)
EXTENDS GoExact, JsExact, TLAPS, WellFoundedInduction

\* A set of natural numbers, such as the lines at which checks stand, has a first one.
LEMMA FirstOf ==
  ASSUME NEW lines, lines \subseteq Nat, lines # {}
  PROVE  \E n \in lines : \A m \in lines : n <= m
<1> DEFINE Less == {ss \in Nat \X Nat : ss[1] < ss[2]}
<1>1. IsWellFoundedOn(Less, Nat)
  BY NatLessThanWellFounded, Zenon DEF OpToRel
<1>2. ASSUME NEW m \in Nat, NEW n \in Nat, m < n
      PROVE  <<m, n>> \in Less
  <2>1. <<m, n>> \in Nat \X Nat /\ <<m, n>>[1] < <<m, n>>[2]
    BY <1>2
  <2> QED
    BY <2>1, Zenon
<1> HIDE DEF Less
<1>3. PICK n \in lines : \A m \in lines : <<m, n>> \notin Less
  BY <1>1, WFMin
<1>4. n \in Nat /\ \A m \in lines : m \in Nat /\ ~(m < n)
  BY <1>2, <1>3
<1> QED
  BY <1>4

\* A verifier that does not accept answers with the reason of a check that fails,
\* before which none does.
LEMMA VerdictIsFirst ==
  ASSUME NEW checks, \A k \in checks : k.at \in Nat, ~Accepts(checks)
  PROVE  \E k \in checks :
           /\ ~k.ok /\ Verdict(checks) = k.reason
           /\ \A j \in checks : ~j.ok => k.at <= j.at
<1> DEFINE failing == {k \in checks : ~k.ok}
           lines   == {k.at : k \in failing}
           first   == CHOOSE k \in failing : \A j \in failing : k.at <= j.at
<1>1. failing # {} /\ lines \subseteq Nat
  BY DEF Accepts
<1>2. \E n \in lines : \A m \in lines : n <= m
  BY <1>1, FirstOf
<1>3. \E k \in failing : \A j \in failing : k.at <= j.at
  BY <1>2
<1>4. first \in failing /\ \A j \in failing : first.at <= j.at
  BY <1>3
<1>5. Verdict(checks) = first.reason
  BY DEF Verdict
<1> QED
  BY <1>4, <1>5

\* It accepts with "valid" only if no check fails.
LEMMA VerdictIsSound ==
  ASSUME NEW checks, \A k \in checks : k.at \in Nat
  PROVE  \/ Accepts(checks) /\ Verdict(checks) = Valid
         \/ \E k \in checks : ~k.ok /\ Verdict(checks) = k.reason
<1>1. CASE Accepts(checks)
  BY <1>1 DEF Verdict
<1>2. CASE ~Accepts(checks)
  BY <1>2, VerdictIsFirst
<1> QED
  BY <1>1, <1>2

-----------------------------------------------------------------------------
(* The two verifiers.                                                      *)

\* Acceptance by the Go verifier is acceptance by each of its checks.
LEMMA GoAccepts ==
  ASSUME NEW p, NEW r
  PROVE  /\ Accepts(GoShapeChecks(p, r)) <=>
              /\ p.scheme = Exact
              /\ p.network = r.network
              /\ ~MissingField(p) /\ p.value \notin {"", Absent}
              /\ p.to = r.payTo
              /\ p.value = r.amount
              /\ IsValidAddress(r.payTo) /\ IsValidAddress(p.to)
              /\ AmountPresent(r.amount) /\ AmountPresent(p.value)
              /\ IsValidContractPackageHash(r.asset)
         /\ Accepts(GoSignatureChecks(p, r)) <=>
              /\ GoGetNetworkConfig(r.network)
              /\ r.name # ""
              /\ r.version # ""
              /\ IsTypedAddress(p.from)
              /\ IsDecimal(p.value)
              /\ p.nonce \in ValidNonce
              /\ GoHexDecodes(p.spelling) /\ p.signature.size = 65
              /\ p.publicKey \in DOMAIN AccountOf
              /\ (IsDecimal(p.value) =>
                     VerifySignature(p.signature, p.publicKey, GoDigestOf(p, r)))
<1>1. Accepts(GoShapeChecks(p, r)) <=>
              /\ p.scheme = Exact
              /\ p.network = r.network
              /\ ~MissingField(p) /\ p.value \notin {"", Absent}
              /\ p.to = r.payTo
              /\ p.value = r.amount
              /\ IsValidAddress(r.payTo) /\ IsValidAddress(p.to)
              /\ AmountPresent(r.amount) /\ AmountPresent(p.value)
              /\ IsValidContractPackageHash(r.asset)
  <2> DEFINE c1 == p.scheme = Exact
             c2 == p.network = r.network
             c3 == ~MissingField(p) /\ p.value \notin {"", Absent}
             c4 == p.to = r.payTo
             c5 == p.value = r.amount
             c6 == IsValidAddress(r.payTo) /\ IsValidAddress(p.to)
             c7 == AmountPresent(r.amount) /\ AmountPresent(p.value)
             c8 == IsValidContractPackageHash(r.asset)
  <2>1. GoShapeChecks(p, r) =
          { Check(88, "unsupported_scheme", c1),
            Check(92, "network_mismatch", c2),
            Check(96, "malformed_payload", c3),
            Check(101, "payto_mismatch", c4),
            Check(105, "amount_mismatch", c5),
            Check(109, "invalid_payto", c6),
            Check(113, "invalid_amount", c7),
            Check(117, "invalid_asset", c8) }
    BY DEF GoShapeChecks
  <2> HIDE DEF c1, c2, c3, c4, c5, c6, c7, c8
  <2>2. Accepts(GoShapeChecks(p, r)) <=> (c1 /\ c2 /\ c3 /\ c4 /\ c5 /\ c6 /\ c7 /\ c8)
    BY <2>1 DEF Accepts, Check
  <2> QED
    BY <2>2 DEF c1, c2, c3, c4, c5, c6, c7, c8
<1>2. Accepts(GoSignatureChecks(p, r)) <=>
              /\ GoGetNetworkConfig(r.network)
              /\ r.name # ""
              /\ r.version # ""
              /\ IsTypedAddress(p.from)
              /\ IsDecimal(p.value)
              /\ p.nonce \in ValidNonce
              /\ GoHexDecodes(p.spelling) /\ p.signature.size = 65
              /\ p.publicKey \in DOMAIN AccountOf
              /\ (IsDecimal(p.value) =>
                     VerifySignature(p.signature, p.publicKey, GoDigestOf(p, r)))
  <2> DEFINE c1 == GoGetNetworkConfig(r.network)
             c2 == r.name # ""
             c3 == r.version # ""
             c4 == IsTypedAddress(p.from)
             c5 == IsDecimal(p.value)
             c6 == p.nonce \in ValidNonce
             c7 == GoHexDecodes(p.spelling) /\ p.signature.size = 65
             c8 == p.publicKey \in DOMAIN AccountOf
             c9 == IsDecimal(p.value) =>
                     VerifySignature(p.signature, p.publicKey, GoDigestOf(p, r))
  <2>1. GoSignatureChecks(p, r) =
          { Check(142, "network_mismatch", c1),
            Check(147, "missing_token_name", c2),
            Check(151, "missing_token_version", c3),
            Check(163, "malformed_payload", c4),
            Check(172, "malformed_payload", c5),
            Check(177, "malformed_payload", c6),
            Check(198, "invalid_signature", c7),
            Check(205, "invalid_signature", c8),
            Check(209, "invalid_signature", c9) }
    BY DEF GoSignatureChecks
  <2> HIDE DEF c1, c2, c3, c4, c5, c6, c7, c8, c9
  <2>2. Accepts(GoSignatureChecks(p, r)) <=> (c1 /\ c2 /\ c3 /\ c4 /\ c5 /\ c6 /\ c7 /\ c8 /\ c9)
    BY <2>1 DEF Accepts, Check
  <2> QED
    BY <2>2 DEF c1, c2, c3, c4, c5, c6, c7, c8, c9
<1> QED
  BY <1>1, <1>2

\* And by the TypeScript verifier.
LEMMA JsAccepts ==
  ASSUME NEW p, NEW r
  PROVE  /\ Accepts(JsShapeChecks(p, r)) <=>
              /\ p.scheme = Exact /\ r.scheme = Exact
              /\ p.network = r.network
              /\ ~MissingField(p) /\ p.value # Absent
              /\ p.to = r.payTo
              /\ p.value = r.amount
              /\ IsValidAddress(r.payTo) /\ IsValidAddress(p.to)
              /\ IsValidAddress(p.from)
              /\ AmountPresent(r.amount) /\ AmountPresent(p.value)
              /\ IsValidContractPackageHash(r.asset)
         /\ Accepts(JsSignatureChecks(p, r)) <=>
              /\ r.name # ""
              /\ r.version # ""
              /\ p.nonce \in ValidNonce \cup UnhashableNonce
              /\ p.nonce \in ValidNonce /\ BigIntReads(p.value)
              /\ p.publicKey \in DOMAIN AccountOf
              /\ (p.publicKey \in DOMAIN AccountOf => AccountOf[p.publicKey] = p.from.hash)
              /\ JsHexDecodes(p.spelling) /\ p.signature.size = 65
              /\ (BigIntReads(p.value) =>
                     VerifySignature(p.signature, p.publicKey, JsDigestOf(p, r)))
<1>1. Accepts(JsShapeChecks(p, r)) <=>
              /\ p.scheme = Exact /\ r.scheme = Exact
              /\ p.network = r.network
              /\ ~MissingField(p) /\ p.value # Absent
              /\ p.to = r.payTo
              /\ p.value = r.amount
              /\ IsValidAddress(r.payTo) /\ IsValidAddress(p.to)
              /\ IsValidAddress(p.from)
              /\ AmountPresent(r.amount) /\ AmountPresent(p.value)
              /\ IsValidContractPackageHash(r.asset)
  <2> DEFINE c1 == p.scheme = Exact /\ r.scheme = Exact
             c2 == p.network = r.network
             c3 == ~MissingField(p) /\ p.value # Absent
             c4 == p.to = r.payTo
             c5 == p.value = r.amount
             c6 == IsValidAddress(r.payTo) /\ IsValidAddress(p.to)
             c7 == IsValidAddress(p.from)
             c8 == AmountPresent(r.amount) /\ AmountPresent(p.value)
             c9 == IsValidContractPackageHash(r.asset)
  <2>1. JsShapeChecks(p, r) =
          { Check(123, "invalid_scheme", c1),
            Check(127, "network_mismatch", c2),
            Check(137, "invalid_scheme", c3),
            Check(160, "payto_mismatch", c4),
            Check(169, "amount_mismatch", c5),
            Check(178, "invalid_payto", c6),
            Check(182, "invalid_payer", c7),
            Check(186, "amount_mismatch", c8),
            Check(200, "invalid_asset", c9) }
    BY DEF JsShapeChecks
  <2> HIDE DEF c1, c2, c3, c4, c5, c6, c7, c8, c9
  <2>2. Accepts(JsShapeChecks(p, r)) <=> (c1 /\ c2 /\ c3 /\ c4 /\ c5 /\ c6 /\ c7 /\ c8 /\ c9)
    BY <2>1 DEF Accepts, Check
  <2> QED
    BY <2>2 DEF c1, c2, c3, c4, c5, c6, c7, c8, c9
<1>2. Accepts(JsSignatureChecks(p, r)) <=>
              /\ r.name # ""
              /\ r.version # ""
              /\ p.nonce \in ValidNonce \cup UnhashableNonce
              /\ p.nonce \in ValidNonce /\ BigIntReads(p.value)
              /\ p.publicKey \in DOMAIN AccountOf
              /\ (p.publicKey \in DOMAIN AccountOf => AccountOf[p.publicKey] = p.from.hash)
              /\ JsHexDecodes(p.spelling) /\ p.signature.size = 65
              /\ (BigIntReads(p.value) =>
                     VerifySignature(p.signature, p.publicKey, JsDigestOf(p, r)))
  <2> DEFINE c1 == r.name # ""
             c2 == r.version # ""
             c3 == p.nonce \in ValidNonce \cup UnhashableNonce
             c4 == p.nonce \in ValidNonce /\ BigIntReads(p.value)
             c5 == p.publicKey \in DOMAIN AccountOf
             c6 == p.publicKey \in DOMAIN AccountOf => AccountOf[p.publicKey] = p.from.hash
             c7 == JsHexDecodes(p.spelling) /\ p.signature.size = 65
             c8 == BigIntReads(p.value) =>
                     VerifySignature(p.signature, p.publicKey, JsDigestOf(p, r))
  <2>1. JsSignatureChecks(p, r) =
          { Check(254, "missing_token_name", c1),
            Check(257, "missing_token_version", c2),
            Check(273, "invalid_signature", c3),
            Check(291, "failed_to_hash", c4),
            Check(307, "invalid_signature", c5),
            Check(313, "publickey_mismatch", c6),
            Check(325, "invalid_signature", c7),
            Check(339, "invalid_signature", c8) }
    BY DEF JsSignatureChecks
  <2> HIDE DEF c1, c2, c3, c4, c5, c6, c7, c8
  <2>2. Accepts(JsSignatureChecks(p, r)) <=> (c1 /\ c2 /\ c3 /\ c4 /\ c5 /\ c6 /\ c7 /\ c8)
    BY <2>1 DEF Accepts, Check
  <2> QED
    BY <2>2 DEF c1, c2, c3, c4, c5, c6, c7, c8
<1> QED
  BY <1>1, <1>2


\* A request is accepted by its shape, at its time, and for its signature.
LEMMA AcceptsInParts ==
  ASSUME NEW x, NEW t
  PROVE  /\ Accepts(GoChecks(x, t)) <=>
              /\ Accepts(GoShapeChecks(x.p, x.r))
              /\ Accepts(GoClockChecks(x.p, t))
              /\ Accepts(GoSignatureChecks(x.p, x.r))
         /\ Accepts(JsChecks(x, t)) <=>
              /\ Accepts(JsShapeChecks(x.p, x.r))
              /\ Accepts(JsClockChecks(x.p, t))
              /\ Accepts(JsSignatureChecks(x.p, x.r))
  BY DEF Accepts, GoChecks, JsChecks

\* The window is open, and does not close before Margin seconds.
LEMMA ClocksAccept ==
  ASSUME NEW p, NEW t
  PROVE  /\ Accepts(GoClockChecks(p, t)) <=>
              /\ ParseInt(p.validAfter) /\ ParseInt(p.validBefore)
              /\ p.validAfter.n <= t
              /\ t <= p.validBefore.n /\ p.validBefore.n - t >= Margin
         /\ Accepts(JsClockChecks(p, t)) <=>
              /\ JsParseInt(p.validAfter) /\ JsParseInt(p.validBefore)
              /\ JsNumber(p.validAfter) <= t
              /\ t <= JsNumber(p.validBefore) /\ JsNumber(p.validBefore) - t >= Margin
<1> DEFINE g1 == ParseInt(p.validAfter)
           g2 == ParseInt(p.validBefore)
           j1 == JsParseInt(p.validAfter) /\ JsParseInt(p.validBefore)
           c1 == p.validAfter.n <= t
           c2 == t <= p.validBefore.n
           c3 == p.validBefore.n - t >= Margin
           d1 == JsNumber(p.validAfter) <= t
           d2 == t <= JsNumber(p.validBefore)
           d3 == JsNumber(p.validBefore) - t >= Margin
<1>1. GoClockChecks(p, t) =
        { Check(121, "malformed_payload", g1), Check(125, "malformed_payload", g2),
          Check(131, "not_yet_valid", c1), Check(134, "payload_expired", c2),
          Check(137, "insufficient_time_to_settle", c3) }
  BY DEF GoClockChecks
<1>2. JsClockChecks(p, t) =
        { Check(214, "invalid_scheme", j1), Check(227, "not_yet_valid", d1),
          Check(235, "expired", d2), Check(243, "expired", d3) }
  BY DEF JsClockChecks
<1> HIDE DEF g1, g2, j1, c1, c2, c3, d1, d2, d3
<1>3. Accepts(GoClockChecks(p, t)) <=> (g1 /\ g2 /\ c1 /\ c2 /\ c3)
  BY <1>1 DEF Accepts, Check
<1>4. Accepts(JsClockChecks(p, t)) <=> (j1 /\ d1 /\ d2 /\ d3)
  BY <1>2 DEF Accepts, Check
<1> QED
  BY <1>3, <1>4 DEF g1, g2, j1, c1, c2, c3, d1, d2, d3

\* What the Go scheme needs to build a transaction.
LEMMA GoBuilds ==
  ASSUME NEW x
  PROVE  Accepts(GoBuildChecks(x)) <=>
           /\ GoKeyBuilds(x.p.from)
           /\ GoKeyBuilds(x.p.to)
           /\ IsDecimal(x.p.value)
           /\ ParseUint(x.p.validAfter)
           /\ ParseUint(x.p.validBefore)
           /\ x.p.publicKey \in DOMAIN AccountOf
           /\ x.r.network \in KeyNetworks
           /\ GoGetNetworkConfig(x.r.network)
<1> DEFINE c1 == GoKeyBuilds(x.p.from)
           c2 == GoKeyBuilds(x.p.to)
           c3 == IsDecimal(x.p.value)
           c4 == ParseUint(x.p.validAfter)
           c5 == ParseUint(x.p.validBefore)
           c6 == x.p.publicKey \in DOMAIN AccountOf
           c7 == x.r.network \in KeyNetworks
           c8 == GoGetNetworkConfig(x.r.network)
<1>1. GoBuildChecks(x) =
        { Check(248, "build_deploy_failed", c1), Check(252, "build_deploy_failed", c2),
          Check(256, "build_deploy_failed", c3), Check(260, "build_deploy_failed", c4),
          Check(264, "build_deploy_failed", c5), Check(276, "build_deploy_failed", c6),
          Check(296, "build_deploy_failed", c7), Check(306, "network_mismatch", c8) }
  BY DEF GoBuildChecks
<1> HIDE DEF c1, c2, c3, c4, c5, c6, c7, c8
<1>2. Accepts(GoBuildChecks(x)) <=> (c1 /\ c2 /\ c3 /\ c4 /\ c5 /\ c6 /\ c7 /\ c8)
  BY <1>1 DEF Accepts, Check
<1> QED
  BY <1>2 DEF c1, c2, c3, c4, c5, c6, c7, c8
=============================================================================
