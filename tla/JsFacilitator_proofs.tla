------------------------ MODULE JsFacilitator_proofs ------------------------
(***************************************************************************)
(* The safety of the TypeScript facilitator's /settle, for any number of   *)
(* calls, any requests, any clock bound and any node.                      *)
(***************************************************************************)
EXTENDS JsFacilitator, Exact_proofs

-----------------------------------------------------------------------------
(* The inductive invariant.                                                *)

\* What a verification establishes of a request that no later clock can undo.
Checked(q) ==
  /\ Accepts(JsShapeChecks(q.p, q.r))
  /\ Accepts(JsSignatureChecks(q.p, q.r))

\* t is what settle builds from a verified request.
BuiltFrom(q, t) ==
  /\ Checked(q)
  /\ \E stamp \in Stamp : t = JsTxOf(q, stamp)

CallInv(c) ==
  /\ pc[c] # "idle" => req[c] \in Requests
  /\ pc[c] \in {"idle", "verify", "build"} => tx[c] = NoTx
  /\ tx[c] = NoTx => rpc[c] = "none"
  /\ pc[c] = "build" => Checked(req[c])
  /\ tx[c] # NoTx => BuiltFrom(req[c], tx[c])
  /\ pc[c] = "done" /\ resp[c].success => resp[c].tx = tx[c] /\ tx[c] \in succeeded
  /\ pc[c] = "done" /\ ~resp[c].success /\ resp[c].reason # "settle_failed" => tx[c] = NoTx

\* Nothing but the calls puts transactions, and the contract is as it is.
ChainInv ==
  /\ \A t \in accepted : \E c \in Calls : tx[c] = t
  /\ \A t \in succeeded : SignedAsAsked(t)
  /\ \A t, u \in succeeded : Authorization(t) = Authorization(u) => t = u

IInv ==
  /\ TypeOK
  /\ \A c \in Calls : CallInv(c)
  /\ ChainInv

-----------------------------------------------------------------------------
(* What acceptance says of a request.                                      *)

\* A verification that accepts has checked everything that does not age.
LEMMA AcceptedIsChecked ==
  ASSUME NEW q, NEW t, Accepts(JsChecks(q, t))
  PROVE  Checked(q)
  BY DEF Accepts, JsChecks, Checked

\* A checked request pays what is asked for, to whom, and is signed by the payer.
LEMMA CheckedSays ==
  ASSUME NEW q, Checked(q)
  PROVE  /\ q.p.to = q.r.payTo
         /\ q.p.value = q.r.amount
         /\ BigIntReads(q.p.value)
         /\ AccountOf[q.p.publicKey] = q.p.from.hash
         /\ VerifySignature(q.p.signature, q.p.publicKey, JsDigestOf(q.p, q.r))
<1>1. /\ Check(160, "payto_mismatch", q.p.to = q.r.payTo).ok
      /\ Check(169, "amount_mismatch", q.p.value = q.r.amount).ok
  BY DEF Checked, Accepts, JsShapeChecks
<1>2. /\ Check(291, "failed_to_hash", q.p.nonce \in ValidNonce /\ BigIntReads(q.p.value)).ok
      /\ Check(307, "invalid_signature", q.p.publicKey \in DOMAIN AccountOf).ok
      /\ Check(313, "publickey_mismatch",
               q.p.publicKey \in DOMAIN AccountOf
                 => AccountOf[q.p.publicKey] = q.p.from.hash).ok
      /\ Check(339, "invalid_signature",
               BigIntReads(q.p.value) =>
                 VerifySignature(q.p.signature, q.p.publicKey, JsDigestOf(q.p, q.r))).ok
  <2>1. \A k \in JsSignatureChecks(q.p, q.r) : k.ok
    BY DEF Checked, Accepts
  <2>2. Check(291, "failed_to_hash", q.p.nonce \in ValidNonce /\ BigIntReads(q.p.value))
          \in JsSignatureChecks(q.p, q.r)
    BY DEF JsSignatureChecks
  <2>3. Check(307, "invalid_signature", q.p.publicKey \in DOMAIN AccountOf)
          \in JsSignatureChecks(q.p, q.r)
    BY DEF JsSignatureChecks
  <2>4. Check(313, "publickey_mismatch",
              q.p.publicKey \in DOMAIN AccountOf
                => AccountOf[q.p.publicKey] = q.p.from.hash)
          \in JsSignatureChecks(q.p, q.r)
    BY DEF JsSignatureChecks
  <2>5. Check(339, "invalid_signature",
              BigIntReads(q.p.value) =>
                VerifySignature(q.p.signature, q.p.publicKey, JsDigestOf(q.p, q.r)))
          \in JsSignatureChecks(q.p, q.r)
    BY DEF JsSignatureChecks
  <2> QED
    BY <2>1, <2>2, <2>3, <2>4, <2>5
<1> QED
  BY <1>1, <1>2 DEF Check

\* The answer to a request that does not verify is one of verify's error codes.
LEMMA VerifyFailureHasReason ==
  ASSUME NEW q, NEW t, ~Accepts(JsChecks(q, t))
  PROVE  JsVerify(q, t) \in VerifyReason
<1>1. \A k \in JsChecks(q, t) : k.at \in Nat /\ k.reason \in VerifyReason
  <2>1. \A k \in JsShapeChecks(q.p, q.r) : k.at \in Nat /\ k.reason \in VerifyReason
    BY DEF JsShapeChecks, Check, VerifyReason
  <2>2. \A k \in JsClockChecks(q.p, t) : k.at \in Nat /\ k.reason \in VerifyReason
    BY DEF JsClockChecks, Check, VerifyReason
  <2>3. \A k \in JsSignatureChecks(q.p, q.r) : k.at \in Nat /\ k.reason \in VerifyReason
    <3> DEFINE named    == q.r.name # ""
               dated    == q.r.version # ""
               sized    == q.p.nonce \in ValidNonce \cup UnhashableNonce
               hashed   == q.p.nonce \in ValidNonce /\ BigIntReads(q.p.value)
               keyed    == q.p.publicKey \in DOMAIN AccountOf
               owned    == q.p.publicKey \in DOMAIN AccountOf
                             => AccountOf[q.p.publicKey] = q.p.from.hash
               sixtyFive == JsHexDecodes(q.p.spelling) /\ q.p.signature.size = 65
               signed   == BigIntReads(q.p.value) =>
                             VerifySignature(q.p.signature, q.p.publicKey,
                                             JsDigestOf(q.p, q.r))
    <3>1. JsSignatureChecks(q.p, q.r) =
            { Check(254, "missing_token_name", named),
              Check(257, "missing_token_version", dated),
              Check(273, "invalid_signature", sized),
              Check(291, "failed_to_hash", hashed),
              Check(307, "invalid_signature", keyed),
              Check(313, "publickey_mismatch", owned),
              Check(325, "invalid_signature", sixtyFive),
              Check(339, "invalid_signature", signed) }
      BY DEF JsSignatureChecks
    <3> HIDE DEF named, dated, sized, hashed, keyed, owned, sixtyFive, signed
    <3> QED
      BY <3>1 DEF Check, VerifyReason
  <2> QED
    BY <2>1, <2>2, <2>3 DEF JsChecks
<1> QED
  BY <1>1, VerdictIsSound DEF JsVerify

\* The digest covers every field of the payload that reaches the transaction.
LEMMA DigestCovers ==
  ASSUME NEW p, NEW r
  PROVE  LET digest == JsDigestOf(p, r)
         IN  /\ digest.message.from = p.from
             /\ digest.message.to = p.to
             /\ digest.message.value = AmountOf[p.value]
             /\ digest.message.validAfter = JsNumber(p.validAfter)
             /\ digest.message.validBefore = JsNumber(p.validBefore)
             /\ digest.message.nonce = p.nonce
             /\ digest.domain.asset = r.asset
             /\ digest.domain.network = r.network
  BY DEF JsDigestOf, HashTypedData, Domain, Message

\* What settle builds from a checked request carries the payer's signature over it.
LEMMA BuiltIsSigned ==
  ASSUME NEW q, NEW t, BuiltFrom(q, t)
  PROVE  /\ t.from = q.p.from.hash
         /\ t.to = q.p.to.hash
         /\ t.value = AmountOf[q.p.value]
         /\ t.asset = q.r.asset
         /\ t.network = q.r.network
         /\ t.publicKey = q.p.publicKey
         /\ t.signature.by = t.publicKey
         /\ t.signature.over = JsDigestOf(q.p, q.r)
         /\ t.validAfter = JsNumber(q.p.validAfter)
         /\ t.validBefore = JsNumber(q.p.validBefore)
         /\ t.nonce = q.p.nonce
<1>1. VerifySignature(q.p.signature, q.p.publicKey, JsDigestOf(q.p, q.r))
  BY CheckedSays DEF BuiltFrom
<1>2. PICK stamp \in Stamp : t = JsTxOf(q, stamp)
  BY DEF BuiltFrom
<1> QED
  BY <1>1, <1>2 DEF JsTxOf, VerifySignature

-----------------------------------------------------------------------------
(* The invariant holds initially and every action keeps it.                *)

\* The initial states satisfy the invariant.
LEMMA InitIInv ==
  ASSUME Init
  PROVE  IInv
<1>1. TypeOK
  BY MaxTimeAssumption DEF Init, ChainInit, TypeOK, NoAnswer
<1> QED
  BY <1>1 DEF Init, ChainInit, IInv, CallInv, ChainInv, NoAnswer

\* An answer is well typed, whatever it says.
LEMMA AnswerTyped ==
  ASSUME TypeOK, NEW c \in Calls, NEW ok \in BOOLEAN,
         NEW reason \in VerifyReason \cup {"none", "settle_failed"},
         NEW named \in Tx \cup {NoTx},
         Answer(c, ok, reason, named),
         UNCHANGED <<chainVars, req, start, tx, rpc>>
  PROVE  TypeOK'
  BY DEF TypeOK, Answer, chainVars

\* PostSettle keeps the invariant.
LEMMA PostSettleStep ==
  ASSUME IInv, NEW c \in Calls, NEW q \in Requests, PostSettle(c, q)
  PROVE  IInv'
<1>1. TypeOK'
  BY DEF IInv, TypeOK, PostSettle, chainVars
<1>2. ASSUME NEW d \in Calls
      PROVE  CallInv(d)'
  BY DEF IInv, TypeOK, CallInv, PostSettle, chainVars
<1>3. ChainInv'
  BY DEF IInv, ChainInv, PostSettle, chainVars
<1> QED
  BY <1>1, <1>2, <1>3 DEF IInv

\* Verify keeps the invariant.
LEMMA VerifyStep ==
  ASSUME IInv, NEW c \in Calls, Verify(c)
  PROVE  IInv'
<1>1. TypeOK'
  <2>1. CASE Accepts(JsChecks(req[c], now))
    BY <2>1 DEF IInv, TypeOK, Verify, chainVars
  <2>2. CASE ~Accepts(JsChecks(req[c], now))
    <3>1. /\ Answer(c, FALSE, JsVerify(req[c], now), NoTx)
          /\ UNCHANGED <<chainVars, req, start, tx, rpc>>
      BY <2>2 DEF Verify
    <3>2. JsVerify(req[c], now) \in VerifyReason
      BY <2>2, VerifyFailureHasReason
    <3> QED
      BY <3>1, <3>2, AnswerTyped DEF IInv
  <2> QED
    BY <2>1, <2>2
<1>2. ASSUME NEW d \in Calls
      PROVE  CallInv(d)'
  BY AcceptedIsChecked DEF IInv, TypeOK, CallInv, Verify, Answer, chainVars
<1>3. ChainInv'
  BY DEF IInv, ChainInv, Verify, chainVars
<1> QED
  BY <1>1, <1>2, <1>3 DEF IInv

\* BuildSignAndSend keeps the invariant.
LEMMA BuildSignAndSendStep ==
  ASSUME IInv, NEW c \in Calls, BuildSignAndSend(c)
  PROVE  IInv'
<1>1. Checked(req[c]) /\ req[c] \in Requests /\ tx[c] = NoTx /\ rpc[c] = "none"
  BY DEF IInv, TypeOK, CallInv, BuildSignAndSend
<1>2. BigIntReads(req[c].p.value)
  BY <1>1, CheckedSays
<1>3. \A ms \in Millis : [sec |-> now, ms |-> ms] \in Stamp
  BY DEF IInv, TypeOK, Stamp
<1>4. \A ms \in Millis : JsTxOf(req[c], [sec |-> now, ms |-> ms]) \in Tx
  BY <1>1, <1>2, <1>3 DEF Tx
<1>5. CASE CatchSettleFailed(c) /\ UNCHANGED <<tx, rpc>>
  <2>1. Answer(c, FALSE, "settle_failed", NoTx) /\ UNCHANGED <<chainVars, req, start, tx, rpc>>
    BY <1>5 DEF CatchSettleFailed, BuildSignAndSend
  <2>2. TypeOK'
    BY <2>1, AnswerTyped DEF IInv
  <2>3. ASSUME NEW d \in Calls
        PROVE  CallInv(d)'
    BY <1>1, <2>1 DEF IInv, TypeOK, CallInv, Answer, chainVars
  <2>4. ChainInv'
    BY <2>1 DEF IInv, ChainInv, chainVars
  <2> QED
    BY <2>2, <2>3, <2>4 DEF IInv
<1>6. CASE ~(CatchSettleFailed(c) /\ UNCHANGED <<tx, rpc>>)
  <2>1. PICK ms \in Millis : tx' = [tx EXCEPT ![c] = JsTxOf(req[c], [sec |-> now, ms |-> ms])]
    BY <1>6 DEF BuildSignAndSend
  <2>2. /\ rpc' = [rpc EXCEPT ![c] = "sent"]
        /\ pc' = [pc EXCEPT ![c] = "put"]
        /\ UNCHANGED <<chainVars, req, start, resp>>
    BY <1>6 DEF BuildSignAndSend
  <2>3. TypeOK'
    BY <1>4, <2>1, <2>2 DEF IInv, TypeOK, chainVars
  <2>4. tx'[c] \in Tx /\ BuiltFrom(req[c], tx'[c])
    BY <1>1, <1>3, <1>4, <2>1 DEF IInv, TypeOK, BuiltFrom
  <2>5. ASSUME NEW d \in Calls
        PROVE  CallInv(d)'
    <3>1. CASE d = c
      BY <1>1, <2>1, <2>2, <2>4, <3>1, NoTxAssumption DEF IInv, TypeOK, CallInv, chainVars
    <3>2. CASE d # c
      <4>1. /\ pc'[d] = pc[d] /\ tx'[d] = tx[d] /\ rpc'[d] = rpc[d]
            /\ UNCHANGED <<succeeded, req, resp>>
        BY <2>1, <2>2, <3>2 DEF IInv, TypeOK, chainVars
      <4> QED
        BY <4>1 DEF IInv, CallInv
    <3> QED
      BY <3>1, <3>2
  <2>6. ChainInv'
    <3>1. ASSUME NEW t \in accepted
          PROVE  \E d \in Calls : tx'[d] = t
      <4>1. PICK d \in Calls : tx[d] = t
        BY DEF IInv, ChainInv
      <4>2. t \in Tx /\ d # c
        BY <1>1, <4>1, NoTxAssumption DEF IInv, TypeOK
      <4> QED
        BY <2>1, <4>1, <4>2 DEF IInv, TypeOK
    <3> QED
      BY <2>2, <3>1 DEF IInv, ChainInv, chainVars
  <2> QED
    BY <2>3, <2>5, <2>6 DEF IInv
<1> QED
  BY <1>5, <1>6

\* PutReturns keeps the invariant.
LEMMA PutReturnsStep ==
  ASSUME IInv, NEW c \in Calls, PutReturns(c)
  PROVE  IInv'
<1>1. TypeOK'
  BY DEF IInv, TypeOK, PutReturns, chainVars
<1>2. ASSUME NEW d \in Calls
      PROVE  CallInv(d)'
  BY DEF IInv, TypeOK, CallInv, PutReturns, chainVars
<1>3. ChainInv'
  BY DEF IInv, ChainInv, PutReturns, chainVars
<1> QED
  BY <1>1, <1>2, <1>3 DEF IInv

\* The turns of the loop change nothing but where the call stands.
LEMMA LoopStep ==
  ASSUME IInv, NEW c \in Calls, StartPoll(c) \/ PollFindsNothing(c)
  PROVE  IInv'
<1>1. TypeOK'
  BY DEF IInv, TypeOK, StartPoll, PollFindsNothing, chainVars
<1>2. ASSUME NEW d \in Calls
      PROVE  CallInv(d)'
  BY DEF IInv, TypeOK, CallInv, StartPoll, PollFindsNothing, chainVars
<1>3. ChainInv'
  BY DEF IInv, ChainInv, StartPoll, PollFindsNothing, chainVars
<1> QED
  BY <1>1, <1>2, <1>3 DEF IInv

\* Whatever ends in the catch says settle_failed, and no more.
LEMMA CatchStep ==
  ASSUME IInv, NEW c \in Calls, pc[c] \in {"put", "wait", "poll"}, CatchSettleFailed(c),
         UNCHANGED <<chainVars, req, start, tx, rpc>>
  PROVE  IInv'
<1>1. TypeOK'
  BY AnswerTyped DEF IInv, CatchSettleFailed
<1>2. ASSUME NEW d \in Calls
      PROVE  CallInv(d)'
  BY DEF IInv, TypeOK, CallInv, CatchSettleFailed, Answer, chainVars
<1>3. ChainInv'
  BY DEF IInv, ChainInv, chainVars
<1> QED
  BY <1>1, <1>2, <1>3 DEF IInv

\* PollFindsSuccess keeps the invariant.
LEMMA PollFindsSuccessStep ==
  ASSUME IInv, NEW c \in Calls, PollFindsSuccess(c)
  PROVE  IInv'
<1>1. tx[c] \in Tx
  BY DEF IInv, TypeOK, PollFindsSuccess
<1>2. TypeOK'
  BY <1>1, AnswerTyped DEF IInv, PollFindsSuccess
<1>3. ASSUME NEW d \in Calls
      PROVE  CallInv(d)'
  BY DEF IInv, TypeOK, CallInv, PollFindsSuccess, Answer, chainVars
<1>4. ChainInv'
  BY DEF IInv, ChainInv, PollFindsSuccess, chainVars
<1> QED
  BY <1>2, <1>3, <1>4 DEF IInv

\* NodeTakesIn keeps the invariant.
LEMMA NodeTakesInStep ==
  ASSUME IInv, NEW c \in Calls, NodeTakesIn(c)
  PROVE  IInv'
<1>1. tx[c] \in Tx
  BY DEF IInv, TypeOK, CallInv, NodeTakesIn
<1>2. TypeOK'
  BY <1>1 DEF IInv, TypeOK, NodeTakesIn, TakeIn
<1>3. ASSUME NEW d \in Calls
      PROVE  CallInv(d)'
  BY <1>1, NoTxAssumption DEF IInv, TypeOK, CallInv, NodeTakesIn, TakeIn
<1>4. ChainInv'
  BY DEF IInv, ChainInv, NodeTakesIn, TakeIn
<1> QED
  BY <1>2, <1>3, <1>4 DEF IInv

\* NodeRefuses keeps the invariant.
LEMMA NodeRefusesStep ==
  ASSUME IInv, NEW c \in Calls, NodeRefuses(c)
  PROVE  IInv'
<1>1. TypeOK'
  BY DEF IInv, TypeOK, NodeRefuses, chainVars
<1>2. ASSUME NEW d \in Calls
      PROVE  CallInv(d)'
  BY DEF IInv, TypeOK, CallInv, NodeRefuses, chainVars
<1>3. ChainInv'
  BY DEF IInv, ChainInv, NodeRefuses, chainVars
<1> QED
  BY <1>1, <1>2, <1>3 DEF IInv

\* Execute keeps the invariant.
LEMMA ExecuteStep ==
  ASSUME IInv, NEW t \in accepted, Execute(t)
  PROVE  IInv'
<1>1. /\ accepted' = accepted
      /\ succeeded \subseteq succeeded'
      /\ UNCHANGED callVars
  BY DEF Execute, ExecuteWell, ExecuteBadly
<1>2. TypeOK'
  BY DEF IInv, TypeOK, Execute, ExecuteWell, ExecuteBadly, callVars
<1>3. ASSUME NEW d \in Calls
      PROVE  CallInv(d)'
  BY <1>1 DEF IInv, CallInv, callVars
<1>4. ChainInv'
  BY DEF IInv, ChainInv, Execute, ExecuteWell, ExecuteBadly, callVars, Transferable, Used
<1> QED
  BY <1>2, <1>3, <1>4 DEF IInv

\* PassTime keeps the invariant.
LEMMA PassTimeStep ==
  ASSUME IInv, PassTime
  PROVE  IInv'
<1>1. TypeOK'
  BY MaxTimeAssumption DEF IInv, TypeOK, PassTime, Tick, callVars
<1>2. ASSUME NEW d \in Calls
      PROVE  CallInv(d)'
  BY DEF IInv, CallInv, PassTime, Tick, callVars
<1>3. ChainInv'
  BY DEF IInv, ChainInv, PassTime, Tick, callVars
<1> QED
  BY <1>1, <1>2, <1>3 DEF IInv

\* Every step of a handler keeps the invariant.
LEMMA HandlerStep ==
  ASSUME IInv, NEW c \in Calls, Handler(c)
  PROVE  IInv'
<1>1. CASE Verify(c) \/ BuildSignAndSend(c) \/ PutReturns(c)
  BY <1>1, VerifyStep, BuildSignAndSendStep, PutReturnsStep
<1>2. CASE StartPoll(c) \/ PollFindsNothing(c)
  BY <1>2, LoopStep
<1>3. CASE PollFindsSuccess(c)
  BY <1>3, PollFindsSuccessStep
<1>4. CASE PutThrows(c) \/ WaitTimesOut(c) \/ PollFindsError(c) \/ PollThrows(c)
  BY <1>4, CatchStep DEF PutThrows, WaitTimesOut, PollFindsError, PollThrows
<1> QED
  BY <1>1, <1>2, <1>3, <1>4 DEF Handler, RpcAnswers

\* Every step keeps the invariant.
LEMMA NextIInv ==
  ASSUME IInv, [Next]_vars
  PROVE  IInv'
<1>1. CASE \E c \in Calls : Handler(c) \/ NodeTakesIn(c) \/ NodeRefuses(c)
  BY <1>1, HandlerStep, NodeTakesInStep, NodeRefusesStep
<1>2. CASE \E c \in Calls, q \in Requests : PostSettle(c, q)
  BY <1>2, PostSettleStep
<1>3. CASE \E t \in accepted : Execute(t)
  BY <1>3, ExecuteStep
<1>4. CASE PassTime
  BY <1>4, PassTimeStep
<1>5. CASE UNCHANGED vars
  BY <1>5 DEF vars, chainVars, callVars, IInv, TypeOK, CallInv, ChainInv
<1> QED
  BY <1>1, <1>2, <1>3, <1>4, <1>5 DEF Next, Finished

\* Every reachable state satisfies the inductive invariant.
THEOREM Invariance == SafetySpec => []IInv
  BY InitIInv, NextIInv, PTL DEF SafetySpec

-----------------------------------------------------------------------------
(* What follows from it.                                                   *)

\* Type correctness: in particular every answer of /settle has one of the error codes
\* of verify or settle_failed (scheme.ts, lines 415-462).
THEOREM TypeCorrect == SafetySpec => []TypeOK
<1>1. IInv => TypeOK
  BY DEF IInv
<1> QED
  BY <1>1, Invariance, PTL

\* A call that reports success has its own transaction executed.
LEMMA SuccessIsOwn ==
  ASSUME IInv, NEW c \in Calls, Succeeded(c)
  PROVE  resp[c].tx = tx[c] /\ tx[c] \in succeeded /\ BuiltFrom(req[c], tx[c])
<1>1. resp[c].tx = tx[c] /\ tx[c] \in succeeded
  BY DEF IInv, CallInv, Succeeded
<1>2. tx[c] # NoTx
  BY <1>1, NoTxAssumption DEF IInv, TypeOK
<1> QED
  BY <1>1, <1>2 DEF IInv, CallInv, Succeeded

\* Success is paid: the payer of the payload has paid the payee of the requirements
\* their amount of their asset, the prefixes of the addresses included, which the
\* arguments drop and the signature restores.
THEOREM SuccessPays == SafetySpec => []SuccessIsPaid
<1>1. ASSUME IInv
      PROVE  SuccessIsPaid
  <2> SUFFICES ASSUME NEW c \in Calls, Succeeded(c)
               PROVE  /\ resp[c].tx \in succeeded
                      /\ AccountAddress(resp[c].tx.from) = req[c].p.from
                      /\ AccountAddress(resp[c].tx.to) = req[c].r.payTo
                      /\ resp[c].tx.value = AmountOf[req[c].r.amount]
                      /\ resp[c].tx.asset = req[c].r.asset
                      /\ resp[c].tx.network = req[c].r.network
    BY DEF SuccessIsPaid
  <2> DEFINE t == resp[c].tx
             q == req[c]
  <2>1. t \in succeeded /\ BuiltFrom(q, t)
    BY <1>1, SuccessIsOwn
  <2>2. SignedAsAsked(t)
    BY <1>1, <2>1 DEF IInv, ChainInv
  <2>3. /\ t.signature.over.message.from = AccountAddress(t.from)
        /\ t.signature.over.message.to = AccountAddress(t.to)
    BY <2>2 DEF SignedAsAsked, VerifySignature, HashTypedData, Message
  <2>4. /\ t.signature.over.message.from = q.p.from
        /\ t.signature.over.message.to = q.p.to
    <3>1. t.signature.over = JsDigestOf(q.p, q.r)
      BY <2>1, BuiltIsSigned
    <3> QED
      BY <3>1, DigestCovers
  <2>5. q.p.to = q.r.payTo /\ q.p.value = q.r.amount
    BY <2>1, CheckedSays DEF BuiltFrom
  <2>6. /\ t.value = AmountOf[q.p.value]
        /\ t.asset = q.r.asset
        /\ t.network = q.r.network
    BY <2>1, BuiltIsSigned
  <2> HIDE DEF t, q
  <2>7. /\ t \in succeeded
        /\ AccountAddress(t.from) = q.p.from
        /\ AccountAddress(t.to) = q.r.payTo
        /\ t.value = AmountOf[q.r.amount]
        /\ t.asset = q.r.asset
        /\ t.network = q.r.network
    BY <2>1, <2>3, <2>4, <2>5, <2>6
  <2> QED
    BY <2>7 DEF t, q
<1> QED
  BY <1>1, Invariance, PTL

\* One authorization, one transfer, whatever number of calls report it.
THEOREM OneTransferReported == SafetySpec => []SuccessesShareTransfer
<1>1. ASSUME IInv
      PROVE  SuccessesShareTransfer
  <2>1. \A c \in Calls : Succeeded(c) => resp[c].tx \in succeeded
    BY <1>1, SuccessIsOwn
  <2> QED
    BY <1>1, <2>1 DEF IInv, ChainInv, SuccessesShareTransfer
<1> QED
  BY <1>1, Invariance, PTL

\* A transaction the node has was built from a verified request, hence carries the
\* payer's signature over its own arguments.
THEOREM SignedIsSent == SafetySpec => []SentIsWhatWasSigned
<1>1. ASSUME IInv
      PROVE  SentIsWhatWasSigned
  <2>1. ASSUME NEW t \in accepted
        PROVE  /\ t.signature.by = t.publicKey
               /\ AccountOf[t.publicKey] = t.from
               /\ t.signature.over.message.from.hash = t.from
               /\ t.signature.over.message.to.hash = t.to
               /\ t.signature.over.message.value = t.value
               /\ t.signature.over.message.validAfter = t.validAfter
               /\ t.signature.over.message.validBefore = t.validBefore
               /\ t.signature.over.message.nonce = t.nonce
               /\ t.signature.over.domain.asset = t.asset
               /\ t.signature.over.domain.network = t.network
    <3>1. PICK c \in Calls : tx[c] = t
      BY <1>1 DEF IInv, ChainInv
    <3>2. t # NoTx
      BY <1>1, NoTxAssumption DEF IInv, TypeOK
    <3>3. BuiltFrom(req[c], t)
      BY <1>1, <3>1, <3>2 DEF IInv, CallInv
    <3>4. t.signature.over = JsDigestOf(req[c].p, req[c].r)
      BY <3>3, BuiltIsSigned
    <3>5. AccountOf[req[c].p.publicKey] = req[c].p.from.hash
      BY <3>3, CheckedSays DEF BuiltFrom
    <3> QED
      BY <3>3, <3>4, <3>5, BuiltIsSigned, DigestCovers
  <2> QED
    BY <2>1 DEF SentIsWhatWasSigned
<1> QED
  BY <1>1, Invariance, PTL

\* A failure with any reason but settle_failed comes from a call that has sent nothing.
THEOREM DoubtIsNamed == SafetySpec => []OnlySettleFailedIsInDoubt
<1>1. ASSUME IInv
      PROVE  OnlySettleFailedIsInDoubt
  <2>1. NoTx \notin accepted
    BY <1>1, NoTxAssumption DEF IInv, TypeOK
  <2> QED
    BY <1>1, <2>1 DEF IInv, CallInv, OnlySettleFailedIsInDoubt
<1> QED
  BY <1>1, Invariance, PTL

-----------------------------------------------------------------------------
(* Refinement: every step is one the settlement promise allows.            *)

\* A transaction transfers the authorization its call was asked to settle.
LEMMA BuiltPaysTheAsked ==
  ASSUME NEW q, NEW t, BuiltFrom(q, t)
  PROVE  Authorization(t) = AuthorizationOf(q)
  BY BuiltIsSigned DEF Authorization, AuthorizationOf

\* The initial states are initial states of the promise.
LEMMA InitRefines ==
  ASSUME Init
  PROVE  Promise!Init
  BY DEF Init, ChainInit, Promise!Init, Asked, Outcomes, Outcome, Paid

\* What leaves requests, answers and transfers alone is invisible.
LEMMA Invisible ==
  ASSUME IInv, req' = req, resp' = resp, succeeded' = succeeded,
         \A c \in Calls : ((pc'[c] = "idle") <=> (pc[c] = "idle")),
         \A c \in Calls : ((pc'[c] = "done") <=> (pc[c] = "done"))
  PROVE  UNCHANGED Promise!settlementVars
<1>1. Paid' = Paid
  BY DEF Paid
<1>2. Asked' = Asked
  <2> DEFINE A(c) == IF pc[c] = "idle" THEN {} ELSE {AuthorizationOf(req[c])}
             B(c) == IF pc'[c] = "idle" THEN {} ELSE {AuthorizationOf(req'[c])}
  <2>1. \A c \in Calls : A(c) = B(c)
    OBVIOUS
  <2>2. Asked = [c \in Calls |-> A(c)] /\ Asked' = [c \in Calls |-> B(c)]
    BY DEF Asked
  <2> HIDE DEF A, B
  <2> QED
    BY <2>1, <2>2
<1>3. Outcomes' = Outcomes
  <2> DEFINE O(c) == Outcome(c)
             P(c) == Outcome(c)'
  <2>1. \A c \in Calls : O(c) = P(c)
    BY DEF Outcome
  <2>2. Outcomes = [c \in Calls |-> O(c)] /\ Outcomes' = [c \in Calls |-> P(c)]
    BY DEF Outcomes
  <2> HIDE DEF O, P
  <2> QED
    BY <2>1, <2>2
<1> QED
  BY <1>1, <1>2, <1>3 DEF Promise!settlementVars

\* The arrival of a call asks for its payment.
LEMMA ArrivalRefines ==
  ASSUME IInv, NEW c \in Calls, NEW q \in Requests, PostSettle(c, q)
  PROVE  Promise!Next
<1>1. Outcomes[c] = "none"
  BY DEF PostSettle, Outcomes, Outcome
<1>2. Asked' = [Asked EXCEPT ![c] = {AuthorizationOf(q)}]
  BY DEF IInv, TypeOK, PostSettle, Asked
<1>3. Outcomes' = [Outcomes EXCEPT ![c] = "open"]
  BY DEF IInv, TypeOK, PostSettle, Outcomes, Outcome
<1>4. Paid' = Paid
  BY DEF PostSettle, chainVars, Paid
<1>5. Promise!Ask(c, AuthorizationOf(q))
  BY <1>1, <1>2, <1>3, <1>4 DEF Promise!Ask
<1> QED
  BY <1>5 DEF Promise!Next

\* An answer is a success after the transfer, or a failure.
LEMMA AnswerRefines ==
  ASSUME IInv, NEW c \in Calls, pc[c] \notin {"idle", "done"},
         NEW ok \in BOOLEAN, NEW reason, NEW named,
         ok => tx[c] \in succeeded,
         Answer(c, ok, reason, named), UNCHANGED <<chainVars, req>>
  PROVE  Promise!Next
<1>1. Outcomes[c] = "open"
  BY DEF Outcomes, Outcome
<1>2. Asked' = Asked /\ Paid' = Paid
  BY DEF IInv, TypeOK, Answer, chainVars, Asked, Paid
<1>3. Outcomes' = [Outcomes EXCEPT ![c] = IF ok THEN "success" ELSE "failure"]
  BY DEF IInv, TypeOK, Answer, Outcomes, Outcome
<1>4. CASE ok
  <2>1. tx[c] # NoTx
    BY <1>4, NoTxAssumption DEF IInv, TypeOK
  <2>2. Authorization(tx[c]) = AuthorizationOf(req[c])
    BY <2>1, BuiltPaysTheAsked DEF IInv, CallInv
  <2>3. Asked[c] \subseteq Paid
    BY <1>4, <2>2 DEF Asked, Paid
  <2>4. Promise!Succeed(c)
    BY <1>1, <1>2, <1>3, <1>4, <2>3 DEF Promise!Succeed
  <2> QED
    BY <2>4 DEF Promise!Next
<1>5. CASE ~ok
  <2>1. Promise!Fail(c)
    BY <1>1, <1>2, <1>3, <1>5 DEF Promise!Fail
  <2> QED
    BY <2>1 DEF Promise!Next
<1> QED
  BY <1>4, <1>5

\* A good execution is the transfer of a payment some call has asked for.
LEMMA ExecutionRefines ==
  ASSUME IInv, NEW t \in accepted, ExecuteWell(t), UNCHANGED callVars
  PROVE  Promise!Next
<1> DEFINE a == Authorization(t)
<1>1. PICK c \in Calls : tx[c] = t
  BY DEF IInv, ChainInv
<1>2. t # NoTx
  BY NoTxAssumption DEF IInv, TypeOK
<1>3. pc[c] # "idle" /\ BuiltFrom(req[c], t)
  BY <1>1, <1>2 DEF IInv, CallInv
<1>4. a \in Asked[c] /\ a = AuthorizationOf(req[c]) /\ req[c] \in Requests
  BY <1>3, BuiltPaysTheAsked DEF Asked, IInv, CallInv
<1>5. a \notin Paid
  BY DEF ExecuteWell, Transferable, Used, Paid
<1>6. Paid' = Paid \cup {a}
  BY DEF ExecuteWell, Paid
<1>7. UNCHANGED <<Asked, Outcomes>>
  BY DEF callVars, Asked, Outcomes, Outcome
<1>8. Promise!Transfer(a)
  BY <1>4, <1>5, <1>6, <1>7 DEF Promise!Transfer
<1> QED
  BY <1>4, <1>8 DEF Promise!Next

\* A step of a handler is a step of the promise, or invisible to it.
LEMMA HandlerRefines ==
  ASSUME IInv, NEW c \in Calls, Handler(c)
  PROVE  Promise!Next \/ UNCHANGED Promise!settlementVars
<1>1. CASE Verify(c)
  <2>1. CASE Accepts(JsChecks(req[c], now))
    BY <1>1, <2>1, Invisible DEF Verify, chainVars, IInv, TypeOK
  <2>2. CASE ~Accepts(JsChecks(req[c], now))
    BY <1>1, <2>2, AnswerRefines DEF Verify
  <2> QED
    BY <2>1, <2>2
<1>2. CASE BuildSignAndSend(c)
  <2>1. CASE CatchSettleFailed(c)
    BY <1>2, <2>1, AnswerRefines DEF BuildSignAndSend, CatchSettleFailed
  <2>2. CASE ~CatchSettleFailed(c)
    BY <1>2, <2>2, Invisible DEF BuildSignAndSend, chainVars, IInv, TypeOK
  <2> QED
    BY <2>1, <2>2
<1>3. CASE PutReturns(c) \/ StartPoll(c) \/ PollFindsNothing(c)
  BY <1>3, Invisible DEF PutReturns, StartPoll, PollFindsNothing, chainVars, IInv, TypeOK
<1>4. CASE PutThrows(c) \/ WaitTimesOut(c) \/ PollFindsError(c) \/ PollThrows(c)
  BY <1>4, AnswerRefines
     DEF PutThrows, WaitTimesOut, PollFindsError, PollThrows, CatchSettleFailed
<1>5. CASE PollFindsSuccess(c)
  BY <1>5, AnswerRefines DEF PollFindsSuccess
<1> QED
  BY <1>1, <1>2, <1>3, <1>4, <1>5 DEF Handler, RpcAnswers

\* Every step is a step of the promise, or invisible to it.
LEMMA NextRefines ==
  ASSUME IInv, [Next]_vars
  PROVE  [Promise!Next]_(Promise!settlementVars)
<1>1. CASE \E c \in Calls : Handler(c)
  BY <1>1, HandlerRefines
<1>2. CASE \E c \in Calls : NodeTakesIn(c) \/ NodeRefuses(c)
  BY <1>2, Invisible DEF NodeTakesIn, NodeRefuses, TakeIn, chainVars
<1>3. CASE \E c \in Calls, q \in Requests : PostSettle(c, q)
  BY <1>3, ArrivalRefines
<1>4. CASE \E t \in accepted : Execute(t)
  <2>1. PICK t \in accepted : Execute(t)
    BY <1>4
  <2>2. CASE ExecuteWell(t)
    BY <2>1, <2>2, ExecutionRefines DEF Execute
  <2>3. CASE ExecuteBadly(t)
    BY <2>1, <2>3, Invisible DEF Execute, ExecuteBadly, callVars
  <2> QED
    BY <2>1, <2>2, <2>3 DEF Execute
<1>5. CASE PassTime
  BY <1>5, Invisible DEF PassTime, Tick, callVars
<1>6. CASE UNCHANGED vars
  BY <1>6, Invisible DEF vars, chainVars, callVars
<1> QED
  BY <1>1, <1>2, <1>3, <1>4, <1>5, <1>6 DEF Next, Finished

\* The TypeScript /settle implements the same promise, for any number of calls.
THEOREM Refinement == SafetySpec => KeepsPromise
  BY InitRefines, NextRefines, Invariance, PTL
     DEF SafetySpec, KeepsPromise, Promise!SafetySpec
=============================================================================
