----------------------- MODULE VerifyEndpoint_proofs -------------------------
(***************************************************************************)
(* What /verify says of a payment, for any request and any clock: a valid  *)
(* one is signed, and only its age can turn the answer.                    *)
(***************************************************************************)
EXTENDS VerifyEndpoint, Exact_proofs

-----------------------------------------------------------------------------
(* The Go verifier: the checks before, at and after the closing of the     *)
(* window.                                                                 *)

\* Line 131 and all checks before it let the payment through.
GoOpened(x, t) ==
  /\ Accepts(GoShapeChecks(x.p, x.r))
  /\ ParseInt(x.p.validAfter) /\ ParseInt(x.p.validBefore)
  /\ x.p.validAfter.n <= t

Closing(x, t) == ~(t <= x.p.validBefore.n /\ x.p.validBefore.n - t >= Margin)

\* The checks of the shape come first and never say that it is too late.
LEMMA GoShapeRows ==
  ASSUME NEW p, NEW r, NEW k \in GoShapeChecks(p, r)
  PROVE  k.at \in 0..130 /\ k.reason \notin GoTooLate \cup {Valid}
<1> DEFINE c1 == p.scheme = Exact
           c2 == p.network = r.network
           c3 == ~MissingField(p) /\ p.value \notin {"", Absent}
           c4 == p.to = r.payTo
           c5 == p.value = r.amount
           c6 == IsValidAddress(r.payTo) /\ IsValidAddress(p.to)
           c7 == AmountPresent(r.amount) /\ AmountPresent(p.value)
           c8 == IsValidContractPackageHash(r.asset)
<1>1. GoShapeChecks(p, r) =
        { Check(88, "unsupported_scheme", c1), Check(92, "network_mismatch", c2),
          Check(96, "malformed_payload", c3), Check(101, "payto_mismatch", c4),
          Check(105, "amount_mismatch", c5), Check(109, "invalid_payto", c6),
          Check(113, "invalid_amount", c7), Check(117, "invalid_asset", c8) }
  BY DEF GoShapeChecks
<1> HIDE DEF c1, c2, c3, c4, c5, c6, c7, c8
<1> QED
  BY <1>1 DEF Check, GoTooLate, Valid

\* The checks of the signature come last and never say that it is too late.
LEMMA GoSignatureRows ==
  ASSUME NEW p, NEW r, NEW k \in GoSignatureChecks(p, r)
  PROVE  k.at \in 138..220 /\ k.reason \notin GoTooLate \cup {Valid}
<1> DEFINE c1 == GoGetNetworkConfig(r.network)
           c2 == r.name # ""
           c3 == r.version # ""
           c4 == IsTypedAddress(p.from)
           c5 == IsDecimal(p.value)
           c6 == p.nonce \in ValidNonce
           c7 == GoHexDecodes(p.spelling) /\ p.signature.size = 65
           c8 == p.publicKey \in DOMAIN AccountOf
           c9 == IsDecimal(p.value) =>
                   VerifySignature(p.signature, p.publicKey, GoDigestOf(p, r))
<1>1. GoSignatureChecks(p, r) =
        { Check(142, "network_mismatch", c1), Check(147, "missing_token_name", c2),
          Check(151, "missing_token_version", c3), Check(163, "malformed_payload", c4),
          Check(172, "malformed_payload", c5), Check(177, "malformed_payload", c6),
          Check(198, "invalid_signature", c7), Check(205, "invalid_signature", c8),
          Check(209, "invalid_signature", c9) }
  BY DEF GoSignatureChecks
<1> HIDE DEF c1, c2, c3, c4, c5, c6, c7, c8, c9
<1> QED
  BY <1>1 DEF Check, GoTooLate, Valid

\* Of the checks of the clock, from line 134 on they say that it is too late.
LEMMA GoClockRows ==
  ASSUME NEW p, NEW t
  PROVE  /\ \A k \in GoClockChecks(p, t) : k.at \in 121..137 /\ k.reason # Valid
         /\ {k.reason : k \in GoClockChecks(p, t)} = {"malformed_payload", "not_yet_valid"} \cup GoTooLate
         /\ \A k \in GoClockChecks(p, t) : k.at < 134 =>
              /\ k.reason \notin GoTooLate
              /\ ParseInt(p.validAfter) /\ ParseInt(p.validBefore) /\ p.validAfter.n <= t
                   => k.ok
         /\ \A k \in GoClockChecks(p, t) : k.at >= 134 => k.reason \in GoTooLate
         /\ (\A k \in GoClockChecks(p, t) : k.at < 134 => k.ok) =>
              ParseInt(p.validAfter) /\ ParseInt(p.validBefore) /\ p.validAfter.n <= t
         /\ (\A k \in GoClockChecks(p, t) : k.at >= 134 => k.ok) <=>
              (t <= p.validBefore.n /\ p.validBefore.n - t >= Margin)
<1> DEFINE c1 == ParseInt(p.validAfter)
           c2 == ParseInt(p.validBefore)
           c3 == p.validAfter.n <= t
           c4 == t <= p.validBefore.n
           c5 == p.validBefore.n - t >= Margin
<1>1. GoClockChecks(p, t) =
        { Check(121, "malformed_payload", c1), Check(125, "malformed_payload", c2),
          Check(131, "not_yet_valid", c3), Check(134, "payload_expired", c4),
          Check(137, "insufficient_time_to_settle", c5) }
  BY DEF GoClockChecks
<1> HIDE DEF c1, c2, c3, c4, c5
<1>2. /\ \A k \in GoClockChecks(p, t) : k.at \in 121..137 /\ k.reason # Valid
      /\ \A k \in GoClockChecks(p, t) :
           k.at < 134 => k.reason \notin GoTooLate /\ (c1 /\ c2 /\ c3 => k.ok)
      /\ \A k \in GoClockChecks(p, t) : k.at >= 134 => k.reason \in GoTooLate
  BY <1>1 DEF Check, GoTooLate, Valid
<1>3. {k.reason : k \in GoClockChecks(p, t)} = {"malformed_payload", "not_yet_valid"} \cup GoTooLate
  BY <1>1 DEF Check, GoTooLate
<1>4. (\A k \in GoClockChecks(p, t) : k.at < 134 => k.ok) => c1 /\ c2 /\ c3
  BY <1>1 DEF Check
<1>5. (\A k \in GoClockChecks(p, t) : k.at >= 134 => k.ok) <=> (c4 /\ c5)
  BY <1>1 DEF Check
<1> QED
  BY <1>2, <1>3, <1>4, <1>5 DEF c1, c2, c3, c4, c5

\* The Go verdict is the reason of a check, or valid if all accept.
LEMMA GoRows ==
  ASSUME NEW x, NEW t
  PROVE  /\ \A k \in GoChecks(x, t) : k.at \in Nat /\ k.reason # Valid
         /\ GoVerify(x, t) \in {k.reason : k \in GoChecks(x, t)} \cup {Valid}
         /\ GoVerify(x, t) = Valid <=> Accepts(GoChecks(x, t))
<1>1. \A k \in GoChecks(x, t) : k.at \in Nat /\ k.reason # Valid
  <2>1. \A k \in GoChecks(x, t) : k.at \in 0..220 /\ k.reason # Valid
    BY GoShapeRows, GoSignatureRows, GoClockRows DEF GoChecks
  <2> QED
    BY <2>1
<1> QED
  BY <1>1, VerdictIsSound DEF GoVerify, Verdict

\* The answer is that of a closing window exactly when everything before the window's
\* end is in order.
LEMMA GoLateness ==
  ASSUME NEW x, NEW t
  PROVE  /\ GoVerify(x, t) \in GoTooLate <=> GoOpened(x, t) /\ Closing(x, t)
         /\ GoVerify(x, t) = Valid <=>
              /\ GoOpened(x, t) /\ ~Closing(x, t)
              /\ Accepts(GoSignatureChecks(x.p, x.r))
<1> DEFINE shape == GoShapeChecks(x.p, x.r)
           clock == GoClockChecks(x.p, t)
           sig   == GoSignatureChecks(x.p, x.r)
<1>1. GoChecks(x, t) = shape \cup clock \cup sig
  BY DEF GoChecks
<1>2. /\ \A k \in shape : k.at \in 0..130 /\ k.reason \notin GoTooLate
      /\ \A k \in sig : k.at \in 138..220 /\ k.reason \notin GoTooLate
  BY GoShapeRows, GoSignatureRows
<1>3. /\ \A k \in clock : k.at \in 121..137
      /\ \A k \in clock : k.at < 134 => k.reason \notin GoTooLate
      /\ \A k \in clock : k.at >= 134 => k.reason \in GoTooLate
      /\ (\A k \in clock : k.at >= 134 => k.ok) <=> ~Closing(x, t)
      /\ GoOpened(x, t) <=> Accepts(shape) /\ (\A k \in clock : k.at < 134 => k.ok)
  BY GoClockRows DEF GoOpened, Closing
<1> HIDE DEF shape, clock, sig
<1>4. Accepts(GoChecks(x, t)) <=> GoOpened(x, t) /\ ~Closing(x, t) /\ Accepts(sig)
  BY <1>1, <1>3 DEF Accepts
<1>5. ASSUME GoVerify(x, t) \in GoTooLate
      PROVE  GoOpened(x, t) /\ Closing(x, t)
  <2>1. ~Accepts(GoChecks(x, t))
    BY <1>5, GoRows DEF GoTooLate, Valid
  <2>2. PICK k \in GoChecks(x, t) :
          ~k.ok /\ GoVerify(x, t) = k.reason /\ \A j \in GoChecks(x, t) : ~j.ok => k.at <= j.at
    BY <2>1, GoRows, VerdictIsFirst DEF GoVerify
  <2>3. k \in clock /\ k.at >= 134
    BY <1>1, <1>2, <1>3, <1>5, <2>2
  <2>4. Accepts(shape) /\ (\A j \in clock : j.at < 134 => j.ok)
    BY <1>1, <1>2, <1>3, <2>2, <2>3 DEF Accepts
  <2> QED
    BY <1>3, <2>2, <2>3, <2>4
<1>6. ASSUME GoOpened(x, t), Closing(x, t)
      PROVE  GoVerify(x, t) \in GoTooLate
  <2>1. PICK e \in clock : e.at >= 134 /\ ~e.ok
    BY <1>3, <1>6
  <2>2. ~Accepts(GoChecks(x, t))
    BY <1>1, <2>1 DEF Accepts
  <2>3. PICK k \in GoChecks(x, t) :
          ~k.ok /\ GoVerify(x, t) = k.reason /\ \A j \in GoChecks(x, t) : ~j.ok => k.at <= j.at
    BY <2>2, GoRows, VerdictIsFirst DEF GoVerify
  <2>4. k.at <= e.at /\ e.at \in 121..137
    BY <1>1, <1>3, <2>1, <2>3
  <2>5. k \notin shape /\ k \notin sig
    BY <1>2, <1>3, <1>6, <2>3, <2>4 DEF Accepts
  <2>6. k \in clock /\ ~(k.at < 134)
    BY <1>1, <1>3, <1>6, <2>3, <2>5
  <2>7. k.at >= 134
    BY <1>3, <2>6
  <2> QED
    BY <1>3, <2>3, <2>6, <2>7
<1> QED
  BY <1>4, <1>5, <1>6, GoRows DEF sig

-----------------------------------------------------------------------------
(* The TypeScript verifier.                                                *)

JsTooLate == {"expired"}

\* Line 227 and all checks before it let the payment through.
JsOpened(x, t) ==
  /\ Accepts(JsShapeChecks(x.p, x.r))
  /\ JsParseInt(x.p.validAfter) /\ JsParseInt(x.p.validBefore)
  /\ JsNumber(x.p.validAfter) <= t

JsClosing(x, t) ==
  ~(t <= JsNumber(x.p.validBefore) /\ JsNumber(x.p.validBefore) - t >= Margin)

\* The checks of the shape come first and never say that it is too late.
LEMMA JsShapeRows ==
  ASSUME NEW p, NEW r, NEW k \in JsShapeChecks(p, r)
  PROVE  k.at \in 0..213 /\ k.reason \notin JsTooLate \cup {Valid}
<1> DEFINE c1 == p.scheme = Exact /\ r.scheme = Exact
           c2 == p.network = r.network
           c3 == ~MissingField(p) /\ p.value # Absent
           c4 == p.to = r.payTo
           c5 == p.value = r.amount
           c6 == IsValidAddress(r.payTo) /\ IsValidAddress(p.to)
           c7 == IsValidAddress(p.from)
           c8 == AmountPresent(r.amount) /\ AmountPresent(p.value)
           c9 == IsValidContractPackageHash(r.asset)
<1>1. JsShapeChecks(p, r) =
        { Check(123, "invalid_scheme", c1), Check(127, "network_mismatch", c2),
          Check(137, "invalid_scheme", c3), Check(160, "payto_mismatch", c4),
          Check(169, "amount_mismatch", c5), Check(178, "invalid_payto", c6),
          Check(182, "invalid_payer", c7), Check(186, "amount_mismatch", c8),
          Check(200, "invalid_asset", c9) }
  BY DEF JsShapeChecks
<1> HIDE DEF c1, c2, c3, c4, c5, c6, c7, c8, c9
<1> QED
  BY <1>1 DEF Check, JsTooLate, Valid

\* The checks of the signature come last and never say that it is too late.
LEMMA JsSignatureRows ==
  ASSUME NEW p, NEW r, NEW k \in JsSignatureChecks(p, r)
  PROVE  k.at \in 244..350 /\ k.reason \notin JsTooLate \cup {Valid}
<1> DEFINE c1 == r.name # ""
           c2 == r.version # ""
           c3 == p.nonce \in ValidNonce \cup UnhashableNonce
           c4 == p.nonce \in ValidNonce /\ BigIntReads(p.value)
           c5 == p.publicKey \in DOMAIN AccountOf
           c6 == p.publicKey \in DOMAIN AccountOf => AccountOf[p.publicKey] = p.from.hash
           c7 == JsHexDecodes(p.spelling) /\ p.signature.size = 65
           c8 == BigIntReads(p.value) =>
                   VerifySignature(p.signature, p.publicKey, JsDigestOf(p, r))
<1>1. JsSignatureChecks(p, r) =
        { Check(254, "missing_token_name", c1), Check(257, "missing_token_version", c2),
          Check(273, "invalid_signature", c3), Check(291, "failed_to_hash", c4),
          Check(307, "invalid_signature", c5), Check(313, "publickey_mismatch", c6),
          Check(325, "invalid_signature", c7), Check(339, "invalid_signature", c8) }
  BY DEF JsSignatureChecks
<1> HIDE DEF c1, c2, c3, c4, c5, c6, c7, c8
<1> QED
  BY <1>1 DEF Check, JsTooLate, Valid

\* Of the checks of the clock, the last two say that it is too late.
LEMMA JsClockRows ==
  ASSUME NEW p, NEW t
  PROVE  /\ \A k \in JsClockChecks(p, t) : k.at \in 214..243 /\ k.reason # Valid
         /\ {k.reason : k \in JsClockChecks(p, t)} = {"invalid_scheme", "not_yet_valid"} \cup JsTooLate
         /\ \A k \in JsClockChecks(p, t) : k.at < 235 =>
              /\ k.reason \notin JsTooLate
              /\ JsParseInt(p.validAfter) /\ JsParseInt(p.validBefore) /\ JsNumber(p.validAfter) <= t
                   => k.ok
         /\ \A k \in JsClockChecks(p, t) : k.at >= 235 => k.reason \in JsTooLate
         /\ (\A k \in JsClockChecks(p, t) : k.at < 235 => k.ok) =>
              JsParseInt(p.validAfter) /\ JsParseInt(p.validBefore) /\ JsNumber(p.validAfter) <= t
         /\ (\A k \in JsClockChecks(p, t) : k.at >= 235 => k.ok) <=>
              (t <= JsNumber(p.validBefore) /\ JsNumber(p.validBefore) - t >= Margin)
<1> DEFINE c1 == JsParseInt(p.validAfter) /\ JsParseInt(p.validBefore)
           c2 == JsNumber(p.validAfter) <= t
           c3 == t <= JsNumber(p.validBefore)
           c4 == JsNumber(p.validBefore) - t >= Margin
<1>1. JsClockChecks(p, t) =
        { Check(214, "invalid_scheme", c1), Check(227, "not_yet_valid", c2),
          Check(235, "expired", c3), Check(243, "expired", c4) }
  BY DEF JsClockChecks
<1> HIDE DEF c1, c2, c3, c4
<1>2. /\ \A k \in JsClockChecks(p, t) : k.at \in 214..243 /\ k.reason # Valid
      /\ \A k \in JsClockChecks(p, t) :
           k.at < 235 => k.reason \notin JsTooLate /\ (c1 /\ c2 => k.ok)
      /\ \A k \in JsClockChecks(p, t) : k.at >= 235 => k.reason \in JsTooLate
  BY <1>1 DEF Check, JsTooLate, Valid
<1>3. {k.reason : k \in JsClockChecks(p, t)} = {"invalid_scheme", "not_yet_valid"} \cup JsTooLate
  BY <1>1 DEF Check, JsTooLate
<1>4. (\A k \in JsClockChecks(p, t) : k.at < 235 => k.ok) => c1 /\ c2
  BY <1>1 DEF Check
<1>5. (\A k \in JsClockChecks(p, t) : k.at >= 235 => k.ok) <=> (c3 /\ c4)
  BY <1>1 DEF Check
<1> QED
  BY <1>2, <1>3, <1>4, <1>5 DEF c1, c2, c3, c4

\* The TypeScript verdict is the reason of a check, or valid if all accept.
LEMMA JsRows ==
  ASSUME NEW x, NEW t
  PROVE  /\ \A k \in JsChecks(x, t) : k.at \in Nat /\ k.reason # Valid
         /\ JsVerify(x, t) \in {k.reason : k \in JsChecks(x, t)} \cup {Valid}
         /\ JsVerify(x, t) = Valid <=> Accepts(JsChecks(x, t))
<1>1. \A k \in JsChecks(x, t) : k.at \in Nat /\ k.reason # Valid
  <2>1. \A k \in JsChecks(x, t) : k.at \in 0..350 /\ k.reason # Valid
    BY JsShapeRows, JsSignatureRows, JsClockRows DEF JsChecks
  <2> QED
    BY <2>1
<1> QED
  BY <1>1, VerdictIsSound DEF JsVerify, Verdict

\* Likewise the TypeScript verifier's answer.
LEMMA JsLateness ==
  ASSUME NEW x, NEW t
  PROVE  /\ JsVerify(x, t) \in JsTooLate <=> JsOpened(x, t) /\ JsClosing(x, t)
         /\ JsVerify(x, t) = Valid <=>
              /\ JsOpened(x, t) /\ ~JsClosing(x, t)
              /\ Accepts(JsSignatureChecks(x.p, x.r))
<1> DEFINE shape == JsShapeChecks(x.p, x.r)
           clock == JsClockChecks(x.p, t)
           sig   == JsSignatureChecks(x.p, x.r)
<1>1. JsChecks(x, t) = shape \cup clock \cup sig
  BY DEF JsChecks
<1>2. /\ \A k \in shape : k.at \in 0..213 /\ k.reason \notin JsTooLate
      /\ \A k \in sig : k.at \in 244..350 /\ k.reason \notin JsTooLate
  BY JsShapeRows, JsSignatureRows
<1>3. /\ \A k \in clock : k.at \in 214..243
      /\ \A k \in clock : k.at < 235 => k.reason \notin JsTooLate
      /\ \A k \in clock : k.at >= 235 => k.reason \in JsTooLate
      /\ (\A k \in clock : k.at >= 235 => k.ok) <=> ~JsClosing(x, t)
      /\ JsOpened(x, t) <=> Accepts(shape) /\ (\A k \in clock : k.at < 235 => k.ok)
  BY JsClockRows DEF JsOpened, JsClosing
<1> HIDE DEF shape, clock, sig
<1>4. Accepts(JsChecks(x, t)) <=> JsOpened(x, t) /\ ~JsClosing(x, t) /\ Accepts(sig)
  BY <1>1, <1>3 DEF Accepts
<1>5. ASSUME JsVerify(x, t) \in JsTooLate
      PROVE  JsOpened(x, t) /\ JsClosing(x, t)
  <2>1. ~Accepts(JsChecks(x, t))
    BY <1>5, JsRows DEF JsTooLate, Valid
  <2>2. PICK k \in JsChecks(x, t) :
          ~k.ok /\ JsVerify(x, t) = k.reason /\ \A j \in JsChecks(x, t) : ~j.ok => k.at <= j.at
    BY <2>1, JsRows, VerdictIsFirst DEF JsVerify
  <2>3. k \in clock /\ k.at >= 235
    BY <1>1, <1>2, <1>3, <1>5, <2>2
  <2>4. Accepts(shape) /\ (\A j \in clock : j.at < 235 => j.ok)
    BY <1>1, <1>2, <1>3, <2>2, <2>3 DEF Accepts
  <2> QED
    BY <1>3, <2>2, <2>3, <2>4
<1>6. ASSUME JsOpened(x, t), JsClosing(x, t)
      PROVE  JsVerify(x, t) \in JsTooLate
  <2>1. PICK e \in clock : e.at >= 235 /\ ~e.ok
    BY <1>3, <1>6
  <2>2. ~Accepts(JsChecks(x, t))
    BY <1>1, <2>1 DEF Accepts
  <2>3. PICK k \in JsChecks(x, t) :
          ~k.ok /\ JsVerify(x, t) = k.reason /\ \A j \in JsChecks(x, t) : ~j.ok => k.at <= j.at
    BY <2>2, JsRows, VerdictIsFirst DEF JsVerify
  <2>4. k.at <= e.at /\ e.at \in 214..243
    BY <1>1, <1>3, <2>1, <2>3
  <2>5. k \notin shape /\ k \notin sig
    BY <1>2, <1>3, <1>6, <2>3, <2>4 DEF Accepts
  <2>6. k \in clock /\ ~(k.at < 235)
    BY <1>1, <1>3, <1>6, <2>3, <2>5
  <2>7. k.at >= 235
    BY <1>3, <2>6
  <2> QED
    BY <1>3, <2>3, <2>6, <2>7
<1> QED
  BY <1>4, <1>5, <1>6, JsRows DEF sig

-----------------------------------------------------------------------------
(* The inductive invariant: what an answer, once given, still says.        *)

GoInv ==
  /\ goSaid \in {k.reason : k \in GoChecks(q, now)} \cup {Valid, "none"}
  /\ goSaid = Valid => GoOpened(q, now) /\ Accepts(GoSignatureChecks(q.p, q.r))
  /\ goSaid \in GoTooLate => GoOpened(q, now) /\ Closing(q, now)

JsInv ==
  /\ jsSaid \in {k.reason : k \in JsChecks(q, now)} \cup {Valid, "none"}
  /\ jsSaid = Valid => JsOpened(q, now) /\ Accepts(JsSignatureChecks(q.p, q.r))
  /\ jsSaid \in JsTooLate => JsOpened(q, now) /\ JsClosing(q, now)

IInv ==
  /\ now \in 0..MaxTime
  /\ q \in Requests
  /\ GoInv
  /\ JsInv

\* The initial states satisfy the invariant.
LEMMA InitIInv ==
  ASSUME Init
  PROVE  IInv
  BY MaxTimeAssumption DEF Init, IInv, GoInv, JsInv, Valid, GoTooLate, JsTooLate

\* The reasons of three sets of checks together.
LEMMA ReasonsOfUnion ==
  ASSUME NEW A, NEW B, NEW C
  PROVE  {k.reason : k \in A \cup B \cup C}
         = {k.reason : k \in A} \cup {k.reason : k \in B} \cup {k.reason : k \in C}
  OBVIOUS

\* The checks of a request have the same reasons at any time.
LEMMA ReasonsStay ==
  ASSUME NEW x, NEW t, NEW u
  PROVE  /\ {k.reason : k \in GoChecks(x, t)} = {k.reason : k \in GoChecks(x, u)}
         /\ {k.reason : k \in JsChecks(x, t)} = {k.reason : k \in JsChecks(x, u)}
<1>1. \A s : {k.reason : k \in GoChecks(x, s)}
               = {k.reason : k \in GoShapeChecks(x.p, x.r)}
                 \cup ({"malformed_payload", "not_yet_valid"} \cup GoTooLate)
                 \cup {k.reason : k \in GoSignatureChecks(x.p, x.r)}
  <2> TAKE s
  <2>1. GoChecks(x, s) = GoShapeChecks(x.p, x.r) \cup GoClockChecks(x.p, s)
                           \cup GoSignatureChecks(x.p, x.r)
    BY DEF GoChecks
  <2>2. {k.reason : k \in GoClockChecks(x.p, s)}
        = {"malformed_payload", "not_yet_valid"} \cup GoTooLate
    BY GoClockRows
  <2> QED
    BY <2>1, <2>2, ReasonsOfUnion
<1>2. \A s : {k.reason : k \in JsChecks(x, s)}
               = {k.reason : k \in JsShapeChecks(x.p, x.r)}
                 \cup ({"invalid_scheme", "not_yet_valid"} \cup JsTooLate)
                 \cup {k.reason : k \in JsSignatureChecks(x.p, x.r)}
  <2> TAKE s
  <2>1. JsChecks(x, s) = JsShapeChecks(x.p, x.r) \cup JsClockChecks(x.p, s)
                           \cup JsSignatureChecks(x.p, x.r)
    BY DEF JsChecks
  <2>2. {k.reason : k \in JsClockChecks(x.p, s)}
        = {"invalid_scheme", "not_yet_valid"} \cup JsTooLate
    BY JsClockRows
  <2> QED
    BY <2>1, <2>2, ReasonsOfUnion
<1> QED
  BY <1>1, <1>2

\* What is open stays open, and what closes stays closed.
LEMMA Ages ==
  ASSUME NEW x \in Requests, NEW t \in Nat, NEW u \in Nat, t <= u
  PROVE  /\ GoOpened(x, t) => GoOpened(x, u)
         /\ JsOpened(x, t) => JsOpened(x, u)
         /\ Closing(x, t) => Closing(x, u)
         /\ JsClosing(x, t) => JsClosing(x, u)
<1>1. x.p.validAfter.n \in Int /\ x.p.validBefore.n \in Int /\ Margin \in Nat
  BY TimesAssumption, MarginAssumption
<1>2. JsNumber(x.p.validAfter) \in Int /\ JsNumber(x.p.validBefore) \in Int
  BY <1>1, DoubleAssumption DEF JsNumber
<1> QED
  BY <1>1, <1>2 DEF GoOpened, JsOpened, Closing, JsClosing

\* Every step keeps the invariant.
LEMMA NextStep ==
  ASSUME IInv, [Next]_vars
  PROVE  IInv'
<1>1. CASE HandleVerify
  <2>1. goSaid' = GoVerify(q, now) /\ UNCHANGED <<now, q, jsSaid>>
    BY <1>1 DEF HandleVerify
  <2>2. GoInv'
    BY <2>1, GoRows, GoLateness DEF GoInv
  <2>3. JsInv'
    BY <2>1 DEF IInv, JsInv
  <2> QED
    BY <2>1, <2>2, <2>3 DEF IInv
<1>2. CASE PostVerify
  <2>1. jsSaid' = JsVerify(q, now) /\ UNCHANGED <<now, q, goSaid>>
    BY <1>2 DEF PostVerify
  <2>2. JsInv'
    BY <2>1, JsRows, JsLateness DEF JsInv
  <2>3. GoInv'
    BY <2>1 DEF IInv, GoInv
  <2> QED
    BY <2>1, <2>2, <2>3 DEF IInv
<1>3. CASE PassTime
  <2>1. /\ now' = now + 1 /\ UNCHANGED <<q, goSaid, jsSaid>>
        /\ now \in Nat /\ now + 1 \in 0..MaxTime /\ q \in Requests
    BY <1>3, MaxTimeAssumption DEF PassTime, IInv
  <2>2. /\ GoOpened(q, now) => GoOpened(q, now + 1)
        /\ JsOpened(q, now) => JsOpened(q, now + 1)
        /\ Closing(q, now) => Closing(q, now + 1)
        /\ JsClosing(q, now) => JsClosing(q, now + 1)
    BY <2>1, Ages
  <2>3. /\ {k.reason : k \in GoChecks(q, now)} = {k.reason : k \in GoChecks(q, now + 1)}
        /\ {k.reason : k \in JsChecks(q, now)} = {k.reason : k \in JsChecks(q, now + 1)}
    BY ReasonsStay
  <2>4. GoInv'
    BY <2>1, <2>2, <2>3 DEF IInv, GoInv
  <2>5. JsInv'
    BY <2>1, <2>2, <2>3 DEF IInv, JsInv
  <2> QED
    BY <2>1, <2>4, <2>5 DEF IInv
<1>4. CASE UNCHANGED vars
  BY <1>4 DEF vars, IInv, GoInv, JsInv
<1> QED
  BY <1>1, <1>2, <1>3, <1>4 DEF Next

\* What an answer of /verify said when it was given, it says of the request now.
THEOREM Invariance == Spec => []IInv
<1>1. Init => IInv
  BY InitIInv
<1>2. IInv /\ [Next]_vars => IInv'
  BY NextStep
<1> QED
  BY <1>1, <1>2, PTL DEF Spec

\* Every answer is the reason of one of the verifier's own checks.
THEOREM TypeCorrect == Spec => []TypeOK
<1>1. IInv => TypeOK
  BY DEF IInv, GoInv, JsInv, TypeOK
<1> QED
  BY <1>1, Invariance, PTL

\* What each verifier has called valid is signed, as it reads it, for what is asked.
THEOREM ValidMeansSigned == Spec => []ValidIsSigned
<1> DEFINE Terms(after, before) ==
             [from |-> q.p.from, to |-> q.r.payTo, value |-> AmountOf[q.r.amount],
              validAfter |-> after, validBefore |-> before, nonce |-> q.p.nonce]
           domain == [name |-> q.r.name, version |-> q.r.version,
                      network |-> q.r.network, asset |-> q.r.asset]
<1>1. ASSUME IInv, goSaid = Valid
      PROVE  /\ q.p.signature.by = q.p.publicKey
             /\ q.p.signature.over.domain = domain
             /\ q.p.signature.over.message = Terms(q.p.validAfter.n, q.p.validBefore.n)
  <2>1. /\ IsDecimal(q.p.value) /\ q.p.to = q.r.payTo /\ q.p.value = q.r.amount
        /\ VerifySignature(q.p.signature, q.p.publicKey, GoDigestOf(q.p, q.r))
    BY <1>1, GoAccepts DEF IInv, GoInv, GoOpened
  <2> QED
    BY <2>1 DEF VerifySignature, GoDigestOf, HashTypedData, Domain, Message
<1>2. ASSUME IInv, jsSaid = Valid
      PROVE  /\ q.p.signature.by = q.p.publicKey
             /\ AccountOf[q.p.publicKey] = q.p.from.hash
             /\ q.p.signature.over.domain = domain
             /\ q.p.signature.over.message =
                  Terms(JsNumber(q.p.validAfter), JsNumber(q.p.validBefore))
  <2>1. /\ BigIntReads(q.p.value) /\ q.p.to = q.r.payTo /\ q.p.value = q.r.amount
        /\ AccountOf[q.p.publicKey] = q.p.from.hash
        /\ VerifySignature(q.p.signature, q.p.publicKey, JsDigestOf(q.p, q.r))
    BY <1>2, JsAccepts DEF IInv, JsInv, JsOpened
  <2> QED
    BY <2>1 DEF VerifySignature, JsDigestOf, HashTypedData, Domain, Message
<1>3. IInv => ValidIsSigned
  BY <1>1, <1>2 DEF ValidIsSigned
<1> QED
  BY <1>3, Invariance, PTL

\* For plainly written payloads the TypeScript verifier is the stricter one.
THEOREM JsIsStricter == Spec => []JsValidIsGoValid
<1>1. ASSUME PlainlyWritten(q.p), GoGetNetworkConfig(q.r.network), Accepts(JsChecks(q, now))
      PROVE  Accepts(GoChecks(q, now))
  <2>1. /\ Accepts(JsShapeChecks(q.p, q.r)) /\ Accepts(JsClockChecks(q.p, now))
        /\ Accepts(JsSignatureChecks(q.p, q.r))
    BY <1>1, AcceptsInParts
  <2>2. /\ ParseInt(q.p.validAfter) /\ JsNumber(q.p.validAfter) = q.p.validAfter.n
        /\ ParseInt(q.p.validBefore) /\ JsNumber(q.p.validBefore) = q.p.validBefore.n
        /\ IsDecimal(q.p.value) /\ GoHexDecodes(q.p.spelling)
    BY <1>1 DEF PlainlyWritten
  <2>3. GoDigestOf(q.p, q.r) = JsDigestOf(q.p, q.r)
    BY <2>2 DEF GoDigestOf, JsDigestOf
  <2>4. Accepts(GoShapeChecks(q.p, q.r)) /\ IsTypedAddress(q.p.from)
    <3>1. /\ q.p.scheme = Exact /\ q.p.network = q.r.network
          /\ ~MissingField(q.p) /\ q.p.value # Absent
          /\ q.p.to = q.r.payTo /\ q.p.value = q.r.amount
          /\ IsValidAddress(q.r.payTo) /\ IsValidAddress(q.p.to) /\ IsValidAddress(q.p.from)
          /\ AmountPresent(q.r.amount) /\ AmountPresent(q.p.value)
          /\ IsValidContractPackageHash(q.r.asset)
      BY <2>1, JsAccepts
    <3>2. q.p.value \notin {"", Absent} /\ IsTypedAddress(q.p.from)
      BY <3>1 DEF AmountPresent, IsValidAddress, IsTypedAddress
    <3> QED
      BY <3>1, <3>2, GoAccepts
  <2>5. Accepts(GoSignatureChecks(q.p, q.r))
    <3>1. /\ q.r.name # "" /\ q.r.version # "" /\ q.p.nonce \in ValidNonce
          /\ q.p.publicKey \in DOMAIN AccountOf /\ q.p.signature.size = 65
          /\ BigIntReads(q.p.value) =>
               VerifySignature(q.p.signature, q.p.publicKey, JsDigestOf(q.p, q.r))
      BY <2>1, JsAccepts
    <3>2. BigIntReads(q.p.value)
      BY <2>2 DEF IsDecimal, BigIntReads
    <3> QED
      BY <1>1, <2>2, <2>3, <2>4, <3>1, <3>2, GoAccepts
  <2>6. Accepts(GoClockChecks(q.p, now))
    BY <2>1, <2>2, ClocksAccept
  <2> QED
    BY <2>4, <2>5, <2>6, AcceptsInParts
<1>2. IInv => JsValidIsGoValid
  BY <1>1 DEF JsValidIsGoValid
<1> QED
  BY <1>2, Invariance, PTL

\* A verdict of the Go verifier that was good, or late, can only grow later.
THEOREM GoOnlyAges == Spec => GoVerdictOnlyAges
<1> DEFINE Ageing == /\ goSaid = Valid => goSaid' \in {Valid} \cup GoTooLate
                     /\ goSaid \in GoTooLate => goSaid' \in GoTooLate
<1>1. ASSUME IInv, Next
      PROVE  Ageing
  <2>1. CASE HandleVerify
    BY <1>1, <2>1, GoLateness DEF HandleVerify, IInv, GoInv, GoTooLate, Valid
  <2>2. CASE PostVerify \/ PassTime
    BY <2>2 DEF PostVerify, PassTime
  <2> QED
    BY <1>1, <2>1, <2>2 DEF Next
<1>2. IInv /\ [Next]_vars => [Ageing]_vars
  BY <1>1
<1> QED
  BY <1>2, Invariance, PTL DEF Spec, GoVerdictOnlyAges

\* And one of the TypeScript verifier.
THEOREM JsOnlyAges == Spec => JsVerdictOnlyAges
<1> DEFINE Ageing == /\ jsSaid = Valid => jsSaid' \in {Valid, "expired"}
                     /\ jsSaid = "expired" => jsSaid' = "expired"
<1>1. ASSUME IInv, Next
      PROVE  Ageing
  <2>1. CASE PostVerify
    BY <1>1, <2>1, JsLateness DEF PostVerify, IInv, JsInv, JsTooLate, Valid
  <2>2. CASE HandleVerify \/ PassTime
    BY <2>2 DEF HandleVerify, PassTime
  <2> QED
    BY <1>1, <2>1, <2>2 DEF Next
<1>2. IInv /\ [Next]_vars => [Ageing]_vars
  BY <1>1
<1> QED
  BY <1>2, Invariance, PTL DEF Spec, JsVerdictOnlyAges
=============================================================================
