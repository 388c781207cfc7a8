------------------------ MODULE GoFacilitator_proofs ------------------------
(***************************************************************************)
(* The safety of the Go facilitator's /settle, for any number of calls, any *)
(* requests, any clock bound and any node: the invariants that the model   *)
(* checker checks for two calls, proved from one inductive invariant.      *)
(***************************************************************************)
EXTENDS GoFacilitator, Exact_proofs

-----------------------------------------------------------------------------
(* The inductive invariant.                                                *)

\* What a verification establishes of a request that no later clock can undo.
Checked(q) ==
  /\ Accepts(GoShapeChecks(q.p, q.r))
  /\ Accepts(GoSignatureChecks(q.p, q.r))

\* t is what Settle builds from a verified request.
BuiltFrom(q, t) ==
  /\ Checked(q)
  /\ Accepts(GoBuildChecks(q))
  /\ \E stamp \in Stamp : t = GoTxOf(q, stamp)

CallInv(c) ==
  /\ pc[c] # "idle" => req[c] \in Requests
  /\ pc[c] \in {"idle", "verify", "build"} => tx[c] = NoTx
  /\ pc[c] \in {"put", "wait"} => tx[c] # NoTx
  /\ tx[c] = NoTx => rpc[c] = "none"
  /\ pc[c] = "build" => Checked(req[c])
  /\ tx[c] # NoTx => BuiltFrom(req[c], tx[c])
  /\ pc[c] = "done" /\ tx[c] # NoTx => resp[c].tx = tx[c]
  /\ pc[c] = "done" /\ resp[c].success => tx[c] \in succeeded

\* Nothing but the calls puts transactions, and the contract is as it is.
ChainInv ==
  /\ \A t \in accepted : \E c \in Calls : tx[c] = t
  /\ \A t \in succeeded : SignedAsAsked(t)
  /\ \A t, u \in succeeded : Authorization(t) = Authorization(u) => t = u

IInv ==
  /\ TypeOK
  /\ \A c \in Calls : CallInv(c)
  /\ ChainInv

-----------------------------------------------------------------------------
(* What acceptance says of a request.                                      *)

\* A verification that accepts has checked everything that does not age.
LEMMA AcceptedIsChecked ==
  ASSUME NEW q, NEW t, Accepts(GoChecks(q, t))
  PROVE  Checked(q)
  BY DEF Accepts, GoChecks, Checked

\* A checked request pays what is asked for, to whom, and is signed as it stands.
LEMMA CheckedSays ==
  ASSUME NEW q, Checked(q)
  PROVE  /\ q.p.to = q.r.payTo
         /\ q.p.value = q.r.amount
         /\ IsDecimal(q.p.value)
         /\ VerifySignature(q.p.signature, q.p.publicKey, GoDigestOf(q.p, q.r))
<1>1. /\ Check(101, "payto_mismatch", q.p.to = q.r.payTo).ok
      /\ Check(105, "amount_mismatch", q.p.value = q.r.amount).ok
  BY DEF Checked, Accepts, GoShapeChecks
<1>2. /\ Check(172, "malformed_payload", IsDecimal(q.p.value)).ok
      /\ Check(209, "invalid_signature",
               IsDecimal(q.p.value) =>
                 VerifySignature(q.p.signature, q.p.publicKey, GoDigestOf(q.p, q.r))).ok
  BY DEF Checked, Accepts, GoSignatureChecks
<1> QED
  BY <1>1, <1>2 DEF Check

\* The answer to a request that cannot be built is one of Settle's error codes.
LEMMA BuildFailureHasReason ==
  ASSUME NEW q, ~Accepts(GoBuildChecks(q))
  PROVE  Verdict(GoBuildChecks(q)) \in {"build_deploy_failed", "network_mismatch"}
<1>1. \A k \in GoBuildChecks(q) :
        k.at \in Nat /\ k.reason \in {"build_deploy_failed", "network_mismatch"}
  BY DEF GoBuildChecks, Check
<1> QED
  BY <1>1, VerdictIsSound

\* The digest covers every field of the payload that reaches the transaction.
LEMMA DigestCovers ==
  ASSUME NEW p, NEW r
  PROVE  LET digest == GoDigestOf(p, r)
         IN  /\ digest.message.from = p.from
             /\ digest.message.to = p.to
             /\ digest.message.value = AmountOf[p.value]
             /\ digest.message.validAfter = p.validAfter.n
             /\ digest.message.validBefore = p.validBefore.n
             /\ digest.message.nonce = p.nonce
             /\ digest.domain.asset = r.asset
             /\ digest.domain.network = r.network
  BY DEF GoDigestOf, HashTypedData, Domain, Message

\* What Settle builds from a checked request carries the payer's signature over it.
LEMMA BuiltIsSigned ==
  ASSUME NEW q, NEW t, BuiltFrom(q, t)
  PROVE  /\ t.from = q.p.from.hash
         /\ t.to = q.p.to.hash
         /\ t.value = AmountOf[q.p.value]
         /\ t.asset = q.r.asset
         /\ t.network = q.r.network
         /\ t.signature.by = t.publicKey
         /\ t.signature.over = GoDigestOf(q.p, q.r)
         /\ t.validAfter = q.p.validAfter.n
         /\ t.validBefore = q.p.validBefore.n
         /\ t.nonce = q.p.nonce
<1>1. VerifySignature(q.p.signature, q.p.publicKey, GoDigestOf(q.p, q.r))
  BY CheckedSays DEF BuiltFrom
<1>2. PICK stamp \in Stamp : t = GoTxOf(q, stamp)
  BY DEF BuiltFrom
<1> QED
  BY <1>1, <1>2 DEF GoTxOf, VerifySignature

-----------------------------------------------------------------------------
(* The invariant holds initially and every action keeps it.                *)

\* The initial states satisfy the invariant.
LEMMA InitIInv ==
  ASSUME Init
  PROVE  IInv
<1>1. TypeOK
  BY MillisAssumption, MaxTimeAssumption DEF Init, ChainInit, TypeOK, NoAnswer, Reason
<1> QED
  BY <1>1 DEF Init, ChainInit, IInv, CallInv, ChainInv, NoAnswer

\* An answer is well typed, whatever it says.
LEMMA AnswerTyped ==
  ASSUME TypeOK, NEW c \in Calls,
         NEW ok \in BOOLEAN, NEW reason \in Reason, NEW named \in Tx \cup {NoTx},
         Answer(c, ok, reason, named),
         UNCHANGED <<chainVars, req, deadline, gone, tx, rpc>>
  PROVE  TypeOK'
  BY DEF TypeOK, Answer, chainVars

\* HandleSettle keeps the invariant.
LEMMA HandleSettleStep ==
  ASSUME IInv, NEW c \in Calls, NEW q \in Requests, HandleSettle(c, q)
  PROVE  IInv'
<1>1. TypeOK'
  BY RequestTimeoutAssumption, MaxTimeAssumption
     DEF IInv, TypeOK, HandleSettle, chainVars
<1>2. ASSUME NEW d \in Calls
      PROVE  CallInv(d)'
  BY <1>1 DEF IInv, TypeOK, CallInv, HandleSettle, chainVars
<1>3. ChainInv'
  BY DEF IInv, ChainInv, HandleSettle, chainVars
<1> QED
  BY <1>1, <1>2, <1>3 DEF IInv

\* Verify keeps the invariant.
LEMMA VerifyStep ==
  ASSUME IInv, NEW c \in Calls, Verify(c)
  PROVE  IInv'
<1>1. TypeOK'
  <2>1. CASE Accepts(GoChecks(req[c], now))
    BY <2>1 DEF IInv, TypeOK, Verify, chainVars
  <2>2. CASE ~Accepts(GoChecks(req[c], now))
    <3>1. /\ Answer(c, FALSE, "verification_failed", NoTx)
          /\ UNCHANGED <<chainVars, req, deadline, gone, tx, rpc>>
      BY <2>2 DEF Verify
    <3>2. "verification_failed" \in Reason
      BY DEF Reason
    <3> QED
      BY <3>1, <3>2, AnswerTyped DEF IInv
  <2> QED
    BY <2>1, <2>2
<1>2. ASSUME NEW d \in Calls
      PROVE  CallInv(d)'
  BY AcceptedIsChecked DEF IInv, TypeOK, CallInv, Verify, Answer, chainVars
<1>3. ChainInv'
  BY DEF IInv, ChainInv, Verify, chainVars
<1> QED
  BY <1>1, <1>2, <1>3 DEF IInv

\* BuildAndSign keeps the invariant.
LEMMA BuildAndSignStep ==
  ASSUME IInv, NEW c \in Calls, BuildAndSign(c)
  PROVE  IInv'
<1>1. Checked(req[c]) /\ req[c] \in Requests /\ tx[c] = NoTx
  BY DEF IInv, TypeOK, CallInv, BuildAndSign
<1>2. IsDecimal(req[c].p.value)
  BY <1>1, CheckedSays
<1>3. \A ms \in Millis : [sec |-> now, ms |-> ms] \in Stamp
  BY DEF IInv, TypeOK, Stamp
<1>4. \A ms \in Millis : GoTxOf(req[c], [sec |-> now, ms |-> ms]) \in Tx
  BY <1>1, <1>2, <1>3 DEF Tx
<1>5. TypeOK'
  <2>1. CASE pc'[c] = "put"
    <3>1. PICK ms \in Millis : tx' = [tx EXCEPT ![c] = GoTxOf(req[c], [sec |-> now, ms |-> ms])]
      BY <2>1 DEF IInv, TypeOK, BuildAndSign, Answer
    <3>2. /\ pc' = [pc EXCEPT ![c] = "put"]
          /\ UNCHANGED <<chainVars, req, deadline, gone, rpc, resp>>
      BY <2>1 DEF IInv, TypeOK, BuildAndSign, Answer
    <3> QED
      BY <1>4, <3>1, <3>2 DEF IInv, TypeOK, chainVars
  <2>2. CASE pc'[c] # "put"
    <3>1. PICK reason \in Reason : Answer(c, FALSE, reason, NoTx)
      BY <2>2, BuildFailureHasReason DEF IInv, TypeOK, Reason, BuildAndSign
    <3>2. UNCHANGED <<chainVars, req, deadline, gone, tx, rpc>>
      BY <2>2 DEF IInv, TypeOK, BuildAndSign
    <3> QED
      BY <3>1, <3>2, AnswerTyped DEF IInv
  <2> QED
    BY <2>1, <2>2
<1>6. ASSUME NEW d \in Calls
      PROVE  CallInv(d)'
  <2>1. CASE d = c /\ pc'[c] = "put"
    <3>1. BuiltFrom(req[c], tx'[c]) /\ tx'[c] \in Tx
      <4>1. PICK ms \in Millis : tx' = [tx EXCEPT ![c] = GoTxOf(req[c], [sec |-> now, ms |-> ms])]
        BY <2>1 DEF IInv, TypeOK, BuildAndSign, Answer
      <4>2. tx'[c] = GoTxOf(req[c], [sec |-> now, ms |-> ms])
        BY <4>1 DEF IInv, TypeOK
      <4>3. Accepts(GoBuildChecks(req[c]))
        BY <2>1 DEF IInv, TypeOK, BuildAndSign, Answer
      <4> QED
        BY <1>1, <1>3, <1>4, <4>2, <4>3 DEF BuiltFrom
    <3> QED
      BY <2>1, <3>1, NoTxAssumption DEF IInv, TypeOK, CallInv, BuildAndSign, Answer, chainVars
  <2>2. CASE d = c /\ pc'[c] # "put"
    BY <1>1, <2>2 DEF IInv, TypeOK, CallInv, BuildAndSign, Answer, chainVars
  <2>3. CASE d # c
    <3>1. /\ pc'[d] = pc[d] /\ tx'[d] = tx[d] /\ resp'[d] = resp[d]
          /\ UNCHANGED <<succeeded, req, rpc>>
      BY <2>3 DEF IInv, TypeOK, BuildAndSign, Answer, chainVars
    <3> QED
      BY <3>1 DEF IInv, CallInv
  <2> QED
    BY <2>1, <2>2, <2>3
<1>7. ChainInv'
  <2>1. ASSUME NEW t \in accepted
        PROVE  \E d \in Calls : tx'[d] = t
    <3>1. PICK d \in Calls : tx[d] = t
      BY DEF IInv, ChainInv
    <3>2. t \in Tx /\ d # c
      BY <1>1, <3>1, NoTxAssumption DEF IInv, TypeOK
    <3> QED
      BY <3>1, <3>2 DEF IInv, TypeOK, BuildAndSign
  <2> QED
    BY <2>1 DEF IInv, ChainInv, BuildAndSign, chainVars
<1> QED
  BY <1>5, <1>6, <1>7 DEF IInv

\* SendPut keeps the invariant.
LEMMA SendPutStep ==
  ASSUME IInv, NEW c \in Calls, SendPut(c)
  PROVE  IInv'
<1>1. TypeOK'
  BY DEF IInv, TypeOK, SendPut, chainVars
<1>2. ASSUME NEW d \in Calls
      PROVE  CallInv(d)'
  BY DEF IInv, TypeOK, CallInv, SendPut, chainVars
<1>3. ChainInv'
  BY DEF IInv, ChainInv, SendPut, chainVars
<1> QED
  BY <1>1, <1>2, <1>3 DEF IInv

\* PutReturns keeps the invariant.
LEMMA PutReturnsStep ==
  ASSUME IInv, NEW c \in Calls, PutReturns(c)
  PROVE  IInv'
<1>1. TypeOK'
  BY DEF IInv, TypeOK, PutReturns, chainVars
<1>2. ASSUME NEW d \in Calls
      PROVE  CallInv(d)'
  BY DEF IInv, TypeOK, CallInv, PutReturns, chainVars
<1>3. ChainInv'
  BY DEF IInv, ChainInv, PutReturns, chainVars
<1> QED
  BY <1>1, <1>2, <1>3 DEF IInv

\* The four ways a call with a transaction is answered differ in what they say, and
\* all name the transaction.
LEMMA AnswerStep ==
  ASSUME IInv, NEW c \in Calls, pc[c] \in {"put", "wait"},
         NEW ok \in BOOLEAN, NEW reason \in Reason,
         ok => tx[c] \in succeeded,
         Answer(c, ok, reason, tx[c]),
         UNCHANGED <<chainVars, req, deadline, gone, tx, rpc>>
  PROVE  IInv'
<1>1. TypeOK'
  BY AnswerTyped DEF IInv, TypeOK
<1>2. ASSUME NEW d \in Calls
      PROVE  CallInv(d)'
  BY DEF IInv, TypeOK, CallInv, Answer, chainVars
<1>3. ChainInv'
  BY DEF IInv, ChainInv, chainVars
<1> QED
  BY <1>1, <1>2, <1>3 DEF IInv

\* So do the four ways of answering after the put.
LEMMA AnswersStep ==
  ASSUME IInv, NEW c \in Calls,
         PutFails(c) \/ PollFindsSuccess(c) \/ PollFindsError(c) \/ ContextEnds(c)
  PROVE  IInv'
<1>1. CASE PutFails(c)
  BY <1>1, AnswerStep DEF PutFails, Reason
<1>2. CASE PollFindsSuccess(c)
  BY <1>2, AnswerStep DEF PollFindsSuccess, Reason
<1>3. CASE PollFindsError(c)
  BY <1>3, AnswerStep DEF PollFindsError, Reason
<1>4. CASE ContextEnds(c)
  BY <1>4, AnswerStep DEF ContextEnds, Reason
<1> QED
  BY <1>1, <1>2, <1>3, <1>4

\* Disconnect keeps the invariant.
LEMMA DisconnectStep ==
  ASSUME IInv, NEW c \in Calls, Disconnect(c)
  PROVE  IInv'
<1>1. TypeOK'
  BY DEF IInv, TypeOK, Disconnect, chainVars
<1>2. ASSUME NEW d \in Calls
      PROVE  CallInv(d)'
  BY DEF IInv, CallInv, Disconnect, chainVars
<1>3. ChainInv'
  BY DEF IInv, ChainInv, Disconnect, chainVars
<1> QED
  BY <1>1, <1>2, <1>3 DEF IInv

\* NodeTakesIn keeps the invariant.
LEMMA NodeTakesInStep ==
  ASSUME IInv, NEW c \in Calls, NodeTakesIn(c)
  PROVE  IInv'
<1>1. tx[c] \in Tx
  BY DEF IInv, TypeOK, CallInv, NodeTakesIn
<1>2. TypeOK'
  BY <1>1 DEF IInv, TypeOK, NodeTakesIn, TakeIn
<1>3. ASSUME NEW d \in Calls
      PROVE  CallInv(d)'
  BY <1>1, NoTxAssumption DEF IInv, TypeOK, CallInv, NodeTakesIn, TakeIn
<1>4. ChainInv'
  BY DEF IInv, ChainInv, NodeTakesIn, TakeIn
<1> QED
  BY <1>2, <1>3, <1>4 DEF IInv

\* NodeRefuses keeps the invariant.
LEMMA NodeRefusesStep ==
  ASSUME IInv, NEW c \in Calls, NodeRefuses(c)
  PROVE  IInv'
<1>1. TypeOK'
  BY DEF IInv, TypeOK, NodeRefuses, chainVars
<1>2. ASSUME NEW d \in Calls
      PROVE  CallInv(d)'
  BY DEF IInv, TypeOK, CallInv, NodeRefuses, chainVars
<1>3. ChainInv'
  BY DEF IInv, ChainInv, NodeRefuses, chainVars
<1> QED
  BY <1>1, <1>2, <1>3 DEF IInv

\* Execute keeps the invariant.
LEMMA ExecuteStep ==
  ASSUME IInv, NEW t \in accepted, Execute(t)
  PROVE  IInv'
<1>1. /\ accepted' = accepted
      /\ succeeded \subseteq succeeded'
      /\ UNCHANGED callVars
  BY DEF Execute, ExecuteWell, ExecuteBadly
<1>2. TypeOK'
  BY DEF IInv, TypeOK, Execute, ExecuteWell, ExecuteBadly, callVars
<1>3. ASSUME NEW d \in Calls
      PROVE  CallInv(d)'
  BY <1>1 DEF IInv, CallInv, callVars
<1>4. ChainInv'
  BY DEF IInv, ChainInv, Execute, ExecuteWell, ExecuteBadly, callVars, Transferable, Used
<1> QED
  BY <1>2, <1>3, <1>4 DEF IInv

\* PassTime keeps the invariant.
LEMMA PassTimeStep ==
  ASSUME IInv, PassTime
  PROVE  IInv'
<1>1. TypeOK'
  BY MaxTimeAssumption DEF IInv, TypeOK, PassTime, Tick, callVars
<1>2. ASSUME NEW d \in Calls
      PROVE  CallInv(d)'
  BY DEF IInv, CallInv, PassTime, Tick, callVars
<1>3. ChainInv'
  BY DEF IInv, ChainInv, PassTime, Tick, callVars
<1> QED
  BY <1>1, <1>2, <1>3 DEF IInv

\* Every step keeps the invariant.
LEMMA NextIInv ==
  ASSUME IInv, [Next]_vars
  PROVE  IInv'
<1>1. CASE \E c \in Calls : Handler(c)
  BY <1>1, VerifyStep, BuildAndSignStep, SendPutStep, PutReturnsStep, AnswersStep DEF Handler
<1>2. CASE \E c \in Calls : Disconnect(c) \/ NodeTakesIn(c) \/ NodeRefuses(c)
  BY <1>2, DisconnectStep, NodeTakesInStep, NodeRefusesStep
<1>3. CASE \E c \in Calls, q \in Requests : HandleSettle(c, q)
  BY <1>3, HandleSettleStep
<1>4. CASE \E t \in accepted : Execute(t)
  BY <1>4, ExecuteStep
<1>5. CASE PassTime
  BY <1>5, PassTimeStep
<1>6. CASE UNCHANGED vars
  BY <1>6 DEF vars, chainVars, callVars, IInv, TypeOK, CallInv, ChainInv
<1> QED
  BY <1>1, <1>2, <1>3, <1>4, <1>5, <1>6 DEF Next, Finished

\* Every reachable state satisfies the inductive invariant.
THEOREM Invariance == SafetySpec => []IInv
  BY InitIInv, NextIInv, PTL DEF SafetySpec

-----------------------------------------------------------------------------
(* What follows from it.                                                   *)

\* Type correctness: in particular every answer of /settle has one of the error codes
\* of Settle, whichever check or call fails (scheme.go, lines 232-367).
THEOREM TypeCorrect == SafetySpec => []TypeOK
<1>1. IInv => TypeOK
  BY DEF IInv
<1> QED
  BY <1>1, Invariance, PTL

\* A call that reports success has its own transaction executed.
LEMMA SuccessIsOwn ==
  ASSUME IInv, NEW c \in Calls, Succeeded(c)
  PROVE  resp[c].tx = tx[c] /\ tx[c] \in succeeded /\ BuiltFrom(req[c], tx[c])
<1>1. tx[c] \in succeeded
  BY DEF IInv, CallInv, Succeeded
<1>2. tx[c] # NoTx
  BY <1>1, NoTxAssumption DEF IInv, TypeOK
<1> QED
  BY <1>1, <1>2 DEF IInv, CallInv, Succeeded

\* Success is paid: the payer of the payload has paid the payee of the requirements
\* their amount of their asset.  The payee and the payer are compared as addresses: the
\* facilitator drops their prefixes (lines 248-252), and what restores the equality is
\* that the contract accepted a signature over the same digest that Verify computed.
THEOREM SuccessPays == SafetySpec => []SuccessIsPaid
<1>1. ASSUME IInv
      PROVE  SuccessIsPaid
  <2> SUFFICES ASSUME NEW c \in Calls, Succeeded(c)
               PROVE  /\ resp[c].tx \in succeeded
                      /\ AccountAddress(resp[c].tx.from) = req[c].p.from
                      /\ AccountAddress(resp[c].tx.to) = req[c].r.payTo
                      /\ resp[c].tx.value = AmountOf[req[c].r.amount]
                      /\ resp[c].tx.asset = req[c].r.asset
                      /\ resp[c].tx.network = req[c].r.network
    BY DEF SuccessIsPaid
  <2> DEFINE t == resp[c].tx
             q == req[c]
  <2>1. t \in succeeded /\ BuiltFrom(q, t)
    BY <1>1, SuccessIsOwn
  <2>2. SignedAsAsked(t)
    BY <1>1, <2>1 DEF IInv, ChainInv
  <2>3. /\ t.signature.over.message.from = AccountAddress(t.from)
        /\ t.signature.over.message.to = AccountAddress(t.to)
    BY <2>2 DEF SignedAsAsked, VerifySignature, HashTypedData, Message
  <2>4. /\ t.signature.over.message.from = q.p.from
        /\ t.signature.over.message.to = q.p.to
    <3>1. t.signature.over = GoDigestOf(q.p, q.r)
      BY <2>1, BuiltIsSigned
    <3> QED
      BY <3>1, DigestCovers
  <2>5. q.p.to = q.r.payTo /\ q.p.value = q.r.amount
    BY <2>1, CheckedSays DEF BuiltFrom
  <2>6. /\ t.value = AmountOf[q.p.value]
        /\ t.asset = q.r.asset
        /\ t.network = q.r.network
    BY <2>1, BuiltIsSigned
  <2> HIDE DEF t, q
  <2>7. /\ t \in succeeded
        /\ AccountAddress(t.from) = q.p.from
        /\ AccountAddress(t.to) = q.r.payTo
        /\ t.value = AmountOf[q.r.amount]
        /\ t.asset = q.r.asset
        /\ t.network = q.r.network
    BY <2>1, <2>3, <2>4, <2>5, <2>6
  <2> QED
    BY <2>7 DEF t, q
<1> QED
  BY <1>1, Invariance, PTL

\* One authorization, one transfer, whatever number of calls report it.
THEOREM OneTransferReported == SafetySpec => []SuccessesShareTransfer
<1>1. ASSUME IInv
      PROVE  SuccessesShareTransfer
  <2>1. \A c \in Calls : Succeeded(c) => resp[c].tx \in succeeded
    BY <1>1, SuccessIsOwn
  <2> QED
    BY <1>1, <2>1 DEF IInv, ChainInv, SuccessesShareTransfer
<1> QED
  BY <1>1, Invariance, PTL

\* A transaction the node has was built from a verified request, hence carries the
\* signature of its public key over its own arguments.
THEOREM SignedIsSent == SafetySpec => []SentIsWhatWasSigned
<1>1. ASSUME IInv
      PROVE  SentIsWhatWasSigned
  <2>1. ASSUME NEW t \in accepted
        PROVE  /\ t.signature.by = t.publicKey
               /\ t.signature.over.message.from.hash = t.from
               /\ t.signature.over.message.to.hash = t.to
               /\ t.signature.over.message.value = t.value
               /\ t.signature.over.message.validAfter = t.validAfter
               /\ t.signature.over.message.validBefore = t.validBefore
               /\ t.signature.over.message.nonce = t.nonce
               /\ t.signature.over.domain.asset = t.asset
               /\ t.signature.over.domain.network = t.network
    <3>1. PICK c \in Calls : tx[c] = t
      BY <1>1 DEF IInv, ChainInv
    <3>2. t # NoTx
      BY <1>1, NoTxAssumption DEF IInv, TypeOK
    <3>3. BuiltFrom(req[c], t)
      BY <1>1, <3>1, <3>2 DEF IInv, CallInv
    <3>4. t.signature.over = GoDigestOf(req[c].p, req[c].r)
      BY <3>3, BuiltIsSigned
    <3> QED
      BY <3>3, <3>4, BuiltIsSigned, DigestCovers
  <2> QED
    BY <2>1 DEF SentIsWhatWasSigned
<1> QED
  BY <1>1, Invariance, PTL

\* No transfer is out of sight: the answer to the call that sent a transaction names
\* it, in success and in failure.
THEOREM Traceable == SafetySpec => []EveryTransferIsTraceable
<1>1. ASSUME IInv
      PROVE  EveryTransferIsTraceable
  <2>1. ASSUME NEW t \in accepted
        PROVE  \E c \in Calls : tx[c] = t /\ (pc[c] = "done" => resp[c].tx = t)
    <3>1. PICK c \in Calls : tx[c] = t
      BY <1>1 DEF IInv, ChainInv
    <3>2. t # NoTx
      BY <1>1, NoTxAssumption DEF IInv, TypeOK
    <3> QED
      BY <1>1, <3>1, <3>2 DEF IInv, CallInv
  <2> QED
    BY <2>1 DEF EveryTransferIsTraceable
<1> QED
  BY <1>1, Invariance, PTL

-----------------------------------------------------------------------------
(* Refinement: every step is one the settlement promise allows.            *)

\* A transaction transfers the authorization its call was asked to settle.
LEMMA BuiltPaysTheAsked ==
  ASSUME NEW q, NEW t, BuiltFrom(q, t)
  PROVE  Authorization(t) = AuthorizationOf(q)
  BY BuiltIsSigned DEF Authorization, AuthorizationOf

\* The initial states are initial states of the promise.
LEMMA InitRefines ==
  ASSUME Init
  PROVE  Promise!Init
  BY DEF Init, ChainInit, Promise!Init, Asked, Outcomes, Outcome, Paid

\* What leaves requests, answers and transfers alone is invisible.
LEMMA Invisible ==
  ASSUME IInv, req' = req, resp' = resp, succeeded' = succeeded,
         \A c \in Calls : ((pc'[c] = "idle") <=> (pc[c] = "idle")),
         \A c \in Calls : ((pc'[c] = "done") <=> (pc[c] = "done"))
  PROVE  UNCHANGED Promise!settlementVars
<1>1. Paid' = Paid
  BY DEF Paid
<1>2. Asked' = Asked
  <2> DEFINE A(c) == IF pc[c] = "idle" THEN {} ELSE {AuthorizationOf(req[c])}
             B(c) == IF pc'[c] = "idle" THEN {} ELSE {AuthorizationOf(req'[c])}
  <2>1. \A c \in Calls : A(c) = B(c)
    OBVIOUS
  <2>2. Asked = [c \in Calls |-> A(c)] /\ Asked' = [c \in Calls |-> B(c)]
    BY DEF Asked
  <2> HIDE DEF A, B
  <2> QED
    BY <2>1, <2>2
<1>3. Outcomes' = Outcomes
  <2> DEFINE O(c) == Outcome(c)
             P(c) == Outcome(c)'
  <2>1. \A c \in Calls : O(c) = P(c)
    BY DEF Outcome
  <2>2. Outcomes = [c \in Calls |-> O(c)] /\ Outcomes' = [c \in Calls |-> P(c)]
    BY DEF Outcomes
  <2> HIDE DEF O, P
  <2> QED
    BY <2>1, <2>2
<1> QED
  BY <1>1, <1>2, <1>3 DEF Promise!settlementVars

\* The arrival of a call asks for its payment.
LEMMA ArrivalRefines ==
  ASSUME IInv, NEW c \in Calls, NEW q \in Requests, HandleSettle(c, q)
  PROVE  Promise!Next
<1>1. Outcomes[c] = "none"
  BY DEF HandleSettle, Outcomes, Outcome
<1>2. Asked' = [Asked EXCEPT ![c] = {AuthorizationOf(q)}]
  BY DEF IInv, TypeOK, HandleSettle, Asked
<1>3. Outcomes' = [Outcomes EXCEPT ![c] = "open"]
  BY DEF IInv, TypeOK, HandleSettle, Outcomes, Outcome
<1>4. Paid' = Paid
  BY DEF HandleSettle, chainVars, Paid
<1>5. Promise!Ask(c, AuthorizationOf(q))
  BY <1>1, <1>2, <1>3, <1>4 DEF Promise!Ask
<1> QED
  BY <1>5 DEF Promise!Next

\* An answer is a success after the transfer, or a failure.
LEMMA AnswerRefines ==
  ASSUME IInv, NEW c \in Calls, pc[c] \notin {"idle", "done"},
         NEW ok \in BOOLEAN, NEW reason, NEW named,
         ok => tx[c] \in succeeded,
         Answer(c, ok, reason, named), UNCHANGED <<chainVars, req>>
  PROVE  Promise!Next
<1>1. Outcomes[c] = "open"
  BY DEF Outcomes, Outcome
<1>2. Asked' = Asked /\ Paid' = Paid
  BY DEF IInv, TypeOK, Answer, chainVars, Asked, Paid
<1>3. Outcomes' = [Outcomes EXCEPT ![c] = IF ok THEN "success" ELSE "failure"]
  BY DEF IInv, TypeOK, Answer, Outcomes, Outcome
<1>4. CASE ok
  <2>1. tx[c] # NoTx
    BY <1>4, NoTxAssumption DEF IInv, TypeOK
  <2>2. Authorization(tx[c]) = AuthorizationOf(req[c])
    BY <2>1, BuiltPaysTheAsked DEF IInv, CallInv
  <2>3. Asked[c] \subseteq Paid
    BY <1>4, <2>2 DEF Asked, Paid
  <2>4. Promise!Succeed(c)
    BY <1>1, <1>2, <1>3, <1>4, <2>3 DEF Promise!Succeed
  <2> QED
    BY <2>4 DEF Promise!Next
<1>5. CASE ~ok
  <2>1. Promise!Fail(c)
    BY <1>1, <1>2, <1>3, <1>5 DEF Promise!Fail
  <2> QED
    BY <2>1 DEF Promise!Next
<1> QED
  BY <1>4, <1>5

\* A good execution is the transfer of a payment some call has asked for.
LEMMA ExecutionRefines ==
  ASSUME IInv, NEW t \in accepted, ExecuteWell(t), UNCHANGED callVars
  PROVE  Promise!Next
<1> DEFINE a == Authorization(t)
<1>1. PICK c \in Calls : tx[c] = t
  BY DEF IInv, ChainInv
<1>2. t # NoTx
  BY NoTxAssumption DEF IInv, TypeOK
<1>3. pc[c] # "idle" /\ BuiltFrom(req[c], t)
  BY <1>1, <1>2 DEF IInv, CallInv
<1>4. a \in Asked[c] /\ a = AuthorizationOf(req[c]) /\ req[c] \in Requests
  BY <1>3, BuiltPaysTheAsked DEF Asked, IInv, CallInv
<1>5. a \notin Paid
  BY DEF ExecuteWell, Transferable, Used, Paid
<1>6. Paid' = Paid \cup {a}
  BY DEF ExecuteWell, Paid
<1>7. UNCHANGED <<Asked, Outcomes>>
  BY DEF callVars, Asked, Outcomes, Outcome
<1>8. Promise!Transfer(a)
  BY <1>4, <1>5, <1>6, <1>7 DEF Promise!Transfer
<1> QED
  BY <1>4, <1>8 DEF Promise!Next

\* A step of a handler is a step of the promise, or invisible to it.
LEMMA HandlerRefines ==
  ASSUME IInv, NEW c \in Calls, Handler(c)
  PROVE  Promise!Next \/ UNCHANGED Promise!settlementVars
<1>1. CASE Verify(c)
  <2>1. CASE Accepts(GoChecks(req[c], now))
    BY <1>1, <2>1, Invisible DEF Verify, chainVars, IInv, TypeOK
  <2>2. CASE ~Accepts(GoChecks(req[c], now))
    BY <1>1, <2>2, AnswerRefines DEF Verify
  <2> QED
    BY <2>1, <2>2
<1>2. CASE BuildAndSign(c)
  <2>1. CASE \E reason : Answer(c, FALSE, reason, NoTx)
    BY <1>2, <2>1, AnswerRefines DEF BuildAndSign
  <2>2. CASE ~\E reason : Answer(c, FALSE, reason, NoTx)
    BY <1>2, <2>2, Invisible DEF BuildAndSign, chainVars, IInv, TypeOK
  <2> QED
    BY <2>1, <2>2
<1>3. CASE SendPut(c) \/ PutReturns(c)
  BY <1>3, Invisible DEF SendPut, PutReturns, chainVars, IInv, TypeOK
<1>4. CASE PutFails(c)
  BY <1>4, AnswerRefines DEF PutFails
<1>5. CASE PollFindsSuccess(c)
  BY <1>5, AnswerRefines DEF PollFindsSuccess
<1>6. CASE PollFindsError(c)
  BY <1>6, AnswerRefines DEF PollFindsError
<1>7. CASE ContextEnds(c)
  BY <1>7, AnswerRefines DEF ContextEnds
<1> QED
  BY <1>1, <1>2, <1>3, <1>4, <1>5, <1>6, <1>7 DEF Handler

\* Every step is a step of the promise, or invisible to it.
LEMMA NextRefines ==
  ASSUME IInv, [Next]_vars
  PROVE  [Promise!Next]_(Promise!settlementVars)
<1>1. CASE \E c \in Calls : Handler(c)
  BY <1>1, HandlerRefines
<1>2. CASE \E c \in Calls : Disconnect(c) \/ NodeTakesIn(c) \/ NodeRefuses(c)
  BY <1>2, Invisible DEF Disconnect, NodeTakesIn, NodeRefuses, TakeIn, chainVars
<1>3. CASE \E c \in Calls, q \in Requests : HandleSettle(c, q)
  BY <1>3, ArrivalRefines
<1>4. CASE \E t \in accepted : Execute(t)
  <2>1. PICK t \in accepted : Execute(t)
    BY <1>4
  <2>2. CASE ExecuteWell(t)
    BY <2>1, <2>2, ExecutionRefines DEF Execute
  <2>3. CASE ExecuteBadly(t)
    BY <2>1, <2>3, Invisible DEF Execute, ExecuteBadly, callVars
  <2> QED
    BY <2>1, <2>2, <2>3 DEF Execute
<1>5. CASE PassTime
  BY <1>5, Invisible DEF PassTime, Tick, callVars
<1>6. CASE UNCHANGED vars
  BY <1>6, Invisible DEF vars, chainVars, callVars
<1> QED
  BY <1>1, <1>2, <1>3, <1>4, <1>5, <1>6 DEF Next, Finished

\* The Go /settle implements the promise, for any number of calls: it transfers an
\* authorization at most once and only if asked, and says success only afterwards.
THEOREM Refinement == SafetySpec => KeepsPromise
  BY InitRefines, NextRefines, Invariance, PTL
     DEF SafetySpec, KeepsPromise, Promise!SafetySpec
=============================================================================
