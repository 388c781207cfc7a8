---------------------------- MODULE JsFacilitator ----------------------------
(***************************************************************************)
(* The TypeScript facilitator's POST /settle: concurrent calls of the      *)
(* Express handler and of ExactCasperScheme.settle, interleaved at their   *)
(* awaits, talking to one Casper node through toFacilitatorCasperSigner.   *)
(* No call has a deadline: only the wait for the execution result is       *)
(* timed, and that at the head of its loop, between two polls.             *)
(***************************************************************************)
EXTENDS JsExact, CasperChain

CONSTANTS
  Calls,          \* the HTTP calls to /settle
  Requests,       \* what their bodies may hold: records [p, r]
  Millis,         \* milliseconds within a second that a time stamp tells apart
  WaitTimeout,    \* seconds waitForTransaction polls for: 60 in the code
  NoTx, NoRequest

ASSUME MillisAssumption == Millis # {}
ASSUME WaitTimeoutAssumption == WaitTimeout \in Nat
ASSUME NoRequestAssumption == NoRequest \notin Requests

VARIABLES
  pc,        \* where each call stands in settle and waitForTransaction
  req,       \* its request
  start,     \* when its wait began
  tx,        \* the transaction it has built, signed and sent
  rpc,       \* its put: none, sent, taken (in by the node) or refused
  resp       \* its answer

callVars == <<pc, req, start, tx, rpc, resp>>
vars == <<chainVars, callVars>>

-----------------------------------------------------------------------------

Stamp == [sec : 0..MaxTime, ms : Millis]

Tx == {JsTxOf(q, stamp) : q \in {x \in Requests : BigIntReads(x.p.value)}, stamp \in Stamp}

ASSUME NoTxAssumption == NoTx \notin Tx

Answer(c, ok, reason, named) ==
  /\ pc' = [pc EXCEPT ![c] = "done"]
  /\ resp' = [resp EXCEPT ![c] = [success |-> ok, reason |-> reason, tx |-> named]]

\* The one catch around building, sending and waiting: the hash is not reported.
CatchSettleFailed(c) == Answer(c, FALSE, "settle_failed", NoTx)

NoAnswer == [success |-> FALSE, reason |-> "none", tx |-> NoTx]

-----------------------------------------------------------------------------

Init ==
  /\ ChainInit
  /\ pc = [c \in Calls |-> "idle"]
  /\ req = [c \in Calls |-> NoRequest]
  /\ start = [c \in Calls |-> 0]
  /\ tx = [c \in Calls |-> NoTx]
  /\ rpc = [c \in Calls |-> "none"]
  /\ resp = [c \in Calls |-> NoAnswer]

PostSettle(c, q) ==
  /\ pc[c] = "idle"
  /\ pc' = [pc EXCEPT ![c] = "verify"]
  /\ req' = [req EXCEPT ![c] = q]
  /\ UNCHANGED <<chainVars, start, tx, rpc, resp>>

\* Mutation: every failed verification has one reason, as in Go.
VerifyWithoutReason(c) ==
  /\ pc[c] = "verify"
  /\ \/ /\ Accepts(JsChecks(req[c], now))
        /\ pc' = [pc EXCEPT ![c] = "build"]
        /\ UNCHANGED resp
     \/ /\ ~Accepts(JsChecks(req[c], now))
        /\ Answer(c, FALSE, "verification_failed", NoTx)
  /\ UNCHANGED <<chainVars, req, start, tx, rpc>>

\* A failed verification is answered with the verifier's own reason.
Verify(c) ==
  /\ pc[c] = "verify"
  /\ \/ /\ Accepts(JsChecks(req[c], now))
        /\ pc' = [pc EXCEPT ![c] = "build"]
        /\ UNCHANGED resp
     \/ /\ ~Accepts(JsChecks(req[c], now))
        /\ Answer(c, FALSE, JsVerify(req[c], now), NoTx)
  /\ UNCHANGED <<chainVars, req, start, tx, rpc>>

\* Building, signing and handing over to fetch are one turn of the event loop
\* apart from resolved promises.
BuildSignAndSend(c) ==
  /\ pc[c] = "build"
  /\ \/ /\ JsArgsBuild(req[c].p)
        /\ \E ms \in Millis :
             tx' = [tx EXCEPT ![c] = JsTxOf(req[c], [sec |-> now, ms |-> ms])]
        /\ rpc' = [rpc EXCEPT ![c] = "sent"]
        /\ pc' = [pc EXCEPT ![c] = "put"]
        /\ UNCHANGED resp
     \/ /\ CatchSettleFailed(c)     \* an argument or the SDK throws
        /\ UNCHANGED <<tx, rpc>>
  /\ UNCHANGED <<chainVars, req, start>>

PutReturns(c) ==
  /\ pc[c] = "put"
  /\ rpc[c] = "taken"
  /\ pc' = [pc EXCEPT ![c] = "wait"]
  /\ start' = [start EXCEPT ![c] = now]
  /\ UNCHANGED <<chainVars, req, tx, rpc, resp>>

\* Mutation: a failed put is taken for a misconfigured network.
PutBlamesNetwork(c) ==
  /\ pc[c] = "put"
  /\ Answer(c, FALSE, "network_mismatch", NoTx)
  /\ UNCHANGED <<chainVars, req, start, tx, rpc>>

\* Refused by the node, no connection, or the reply is lost.
PutThrows(c) ==
  /\ pc[c] = "put"
  /\ CatchSettleFailed(c)
  /\ UNCHANGED <<chainVars, req, start, tx, rpc>>

\* The bound MaxTime stands for every later moment: at it each wait is over.
WaitIsOver(c) == now - start[c] >= WaitTimeout \/ now = MaxTime

\* The head of the loop, first right after the put and then after every sleep.
StartPoll(c) ==
  /\ pc[c] = "wait"
  /\ ~WaitIsOver(c)
  /\ pc' = [pc EXCEPT ![c] = "poll"]
  /\ UNCHANGED <<chainVars, req, start, tx, rpc, resp>>

WaitTimesOut(c) ==
  /\ pc[c] = "wait"
  /\ WaitIsOver(c)
  /\ CatchSettleFailed(c)
  /\ UNCHANGED <<chainVars, req, start, tx, rpc>>

\* Mutation: the execution's error message is not looked at.
PollIgnoresError(c) ==
  /\ pc[c] = "poll"
  /\ tx[c] \in succeeded \cup failed
  /\ Answer(c, TRUE, "none", tx[c])
  /\ UNCHANGED <<chainVars, req, start, tx, rpc>>

\* Mutation: a transaction the node knows counts before it is executed.
PollIgnoresExecution(c) ==
  /\ pc[c] = "poll"
  /\ tx[c] \in accepted
  /\ Answer(c, TRUE, "none", tx[c])
  /\ UNCHANGED <<chainVars, req, start, tx, rpc>>

\* Mutation: an authorization transferred by another transaction counts.
PollAcceptsUsed(c) ==
  /\ pc[c] = "poll"
  /\ Used(Authorization(tx[c]))
  /\ Answer(c, TRUE, "none", tx[c])
  /\ UNCHANGED <<chainVars, req, start, tx, rpc>>

\* A poll that has begun may be answered after the timeout, and still counts.
PollFindsSuccess(c) ==
  /\ pc[c] = "poll"
  /\ tx[c] \in succeeded
  /\ Answer(c, TRUE, "none", tx[c])
  /\ UNCHANGED <<chainVars, req, start, tx, rpc>>

PollFindsError(c) ==
  /\ pc[c] = "poll"
  /\ tx[c] \in failed
  /\ CatchSettleFailed(c)
  /\ UNCHANGED <<chainVars, req, start, tx, rpc>>

\* No result in a block yet, or one the asked node has not seen: sleep.
PollFindsNothing(c) ==
  /\ pc[c] = "poll"
  /\ pc' = [pc EXCEPT ![c] = "wait"]
  /\ UNCHANGED <<chainVars, req, start, tx, rpc, resp>>

\* Unlike the Go loop, one poll that errs ends the wait.
PollThrows(c) ==
  /\ pc[c] = "poll"
  /\ CatchSettleFailed(c)
  /\ UNCHANGED <<chainVars, req, start, tx, rpc>>

-----------------------------------------------------------------------------
(* The node, which may take in a put whose caller has given up.            *)

NodeTakesIn(c) ==
  /\ rpc[c] = "sent"
  /\ TakeIn(tx[c])
  /\ rpc' = [rpc EXCEPT ![c] = "taken"]
  /\ UNCHANGED <<pc, req, start, tx, resp>>

NodeRefuses(c) ==
  /\ rpc[c] = "sent"
  /\ rpc' = [rpc EXCEPT ![c] = "refused"]
  /\ UNCHANGED <<chainVars, pc, req, start, tx, resp>>

Execute(t) == (ExecuteWell(t) \/ ExecuteBadly(t)) /\ UNCHANGED callVars

PassTime == Tick /\ UNCHANGED callVars

Finished ==
  /\ now = MaxTime
  /\ \A c \in Calls : pc[c] = "done"
  /\ UNCHANGED vars

RpcAnswers(c) ==
  \/ PutReturns(c) \/ PutThrows(c)
  \/ PollFindsSuccess(c) \/ PollFindsError(c) \/ PollFindsNothing(c) \/ PollThrows(c)

Handler(c) ==
  Verify(c) \/ BuildSignAndSend(c) \/ StartPoll(c) \/ WaitTimesOut(c) \/ RpcAnswers(c)

Next ==
  \/ \E c \in Calls : Handler(c) \/ NodeTakesIn(c) \/ NodeRefuses(c)
  \/ \E c \in Calls, q \in Requests : PostSettle(c, q)
  \/ \E t \in accepted : Execute(t)
  \/ PassTime
  \/ Finished

\* The event loop runs what is ready, time passes, and every RPC request is
\* answered or fails: without the last, a hung node hangs the call for ever.
Fairness ==
  /\ \A c \in Calls : WF_vars(Handler(c))
  /\ WF_vars(PassTime)

SafetySpec == Init /\ [][Next]_vars
Spec == SafetySpec /\ Fairness

-----------------------------------------------------------------------------
(* Properties.                                                             *)

VerifyReason ==
  {"invalid_scheme", "network_mismatch", "payto_mismatch", "amount_mismatch",
   "invalid_payto", "invalid_payer", "invalid_asset", "not_yet_valid", "expired",
   "missing_token_name", "missing_token_version", "invalid_signature",
   "failed_to_hash", "publickey_mismatch"}

\* Every variable keeps its type; the answer's reason is one of verify or settle.
TypeOK ==
  /\ now \in 0..MaxTime
  /\ accepted \subseteq Tx /\ succeeded \subseteq accepted /\ failed \subseteq accepted
  /\ pc \in [Calls -> {"idle", "verify", "build", "put", "wait", "poll", "done"}]
  /\ req \in [Calls -> Requests \cup {NoRequest}]
  /\ start \in [Calls -> 0..MaxTime]
  /\ tx \in [Calls -> Tx \cup {NoTx}]
  /\ rpc \in [Calls -> {"none", "sent", "taken", "refused"}]
  /\ resp \in [Calls -> [success : BOOLEAN,
                         reason : VerifyReason \cup {"none", "settle_failed"},
                         tx : Tx \cup {NoTx}]]

Succeeded(c) == pc[c] = "done" /\ resp[c].success

\* A call answered with success names a transaction that the chain executed, and
\* that moved the amount its requirements ask for, of their asset, on their
\* network, from the payer of its payload to their payTo (settle, lines 441-450).
SuccessIsPaid ==
  \A c \in Calls : Succeeded(c) =>
    LET t == resp[c].tx
    IN  /\ t \in succeeded
        /\ AccountAddress(t.from) = req[c].p.from
        /\ AccountAddress(t.to) = req[c].r.payTo
        /\ t.value = AmountOf[req[c].r.amount]
        /\ t.asset = req[c].r.asset
        /\ t.network = req[c].r.network

\* However often one authorization is submitted, by retries or by concurrent calls,
\* the calls that report success for it all report the one transfer.
SuccessesShareTransfer ==
  \A c, d \in Calls :
    /\ Succeeded(c)
    /\ Succeeded(d)
    /\ Authorization(resp[c].tx) = Authorization(resp[d].tx)
    => resp[c].tx = resp[d].tx

\* What reaches the node is what was signed: a transaction the node took in carries
\* a signature by its public key, which is the payer's, over its own arguments.
\* verify recomputes the digest from the payload (line 291), settle builds the
\* arguments from it again (lines 471-493); the two must agree.
SentIsWhatWasSigned ==
  \A t \in accepted :
    LET signed == t.signature.over.message
        domain == t.signature.over.domain
    IN  /\ t.signature.by = t.publicKey
        /\ AccountOf[t.publicKey] = t.from
        /\ signed.from.hash = t.from /\ signed.to.hash = t.to
        /\ signed.value = t.value
        /\ signed.validAfter = t.validAfter /\ signed.validBefore = t.validBefore
        /\ signed.nonce = t.nonce
        /\ domain.asset = t.asset /\ domain.network = t.network

\* The answer hides the hash of a transaction that may still transfer behind one
\* reason only: a call that failed for any reason but settle_failed sent nothing,
\* so that payment can be retried without paying twice.
OnlySettleFailedIsInDoubt ==
  \A c \in Calls :
    pc[c] = "done" /\ ~resp[c].success /\ resp[c].reason # "settle_failed"
      => ~\E t \in accepted : tx[c] = t

\* Every call that arrives is answered, as long as every RPC request ends.
EveryCallAnswered ==
  \A c \in Calls : pc[c] = "verify" ~> pc[c] = "done"

-----------------------------------------------------------------------------
(* The facilitator implements the abstract settlement promise.             *)

AuthorizationOf(q) ==
  [asset |-> q.r.asset, from |-> q.p.from.hash, nonce |-> q.p.nonce]

Outcome(c) ==
  IF pc[c] = "idle" THEN "none"
  ELSE IF pc[c] # "done" THEN "open"
  ELSE IF resp[c].success THEN "success" ELSE "failure"

Asked == [c \in Calls |-> IF pc[c] = "idle" THEN {} ELSE {AuthorizationOf(req[c])}]
Outcomes == [c \in Calls |-> Outcome(c)]
Paid == {Authorization(t) : t \in succeeded}

Promise == INSTANCE Settlement WITH
  Payments <- {AuthorizationOf(q) : q \in Requests},
  asked    <- Asked,
  outcome  <- Outcomes,
  paid     <- Paid

\* Seen through that mapping every behaviour is one the promise allows: at most one
\* transfer for an authorization, none unasked for, success only after the transfer,
\* and an answer, given once, that stands.
KeepsPromise == Promise!SafetySpec
=============================================================================
