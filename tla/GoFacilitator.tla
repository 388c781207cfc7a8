---------------------------- MODULE GoFacilitator ----------------------------
(***************************************************************************)
(* The Go facilitator's POST /settle: concurrent calls of handleSettle and *)
(* of ExactCasperScheme.Settle, each with its own context, talking to one  *)
(* Casper node through the FacilitatorSigner.  The calls share nothing in  *)
(* the process; they meet on the chain.                                    *)
(***************************************************************************)
EXTENDS GoExact, CasperChain

CONSTANTS
  Calls,           \* the HTTP calls to /settle
  Requests,        \* what their bodies may hold: records [p, r]
  Millis,          \* milliseconds within a second that a time stamp tells apart
  RequestTimeout,  \* seconds of the handler's context: 60 in the code
  NoTx, NoRequest

ASSUME MillisAssumption == Millis # {}
ASSUME RequestTimeoutAssumption == RequestTimeout \in Nat
ASSUME NoRequestAssumption == NoRequest \notin Requests

VARIABLES
  pc,        \* where each call stands in Settle
  req,       \* its request
  deadline,  \* when its context expires
  gone,      \* whether its HTTP client has disconnected
  tx,        \* the transaction it has built and signed
  rpc,       \* its put: none, sent, taken (in by the node) or refused
  resp       \* its answer

callVars == <<pc, req, deadline, gone, tx, rpc, resp>>
vars == <<chainVars, callVars>>

-----------------------------------------------------------------------------

Stamp == [sec : 0..MaxTime, ms : Millis]

Tx == {GoTxOf(q, stamp) : q \in {x \in Requests : IsDecimal(x.p.value)}, stamp \in Stamp}

ASSUME NoTxAssumption == NoTx \notin Tx

Answer(c, ok, reason, named) ==
  /\ pc' = [pc EXCEPT ![c] = "done"]
  /\ resp' = [resp EXCEPT ![c] = [success |-> ok, reason |-> reason, tx |-> named]]

NoAnswer == [success |-> FALSE, reason |-> "none", tx |-> NoTx]

ContextDone(c) == gone[c] \/ now >= deadline[c]

-----------------------------------------------------------------------------

Init ==
  /\ ChainInit
  /\ pc = [c \in Calls |-> "idle"]
  /\ req = [c \in Calls |-> NoRequest]
  /\ deadline = [c \in Calls |-> 0]
  /\ gone = [c \in Calls |-> FALSE]
  /\ tx = [c \in Calls |-> NoTx]
  /\ rpc = [c \in Calls |-> "none"]
  /\ resp = [c \in Calls |-> NoAnswer]

\* A call arrives early enough for its deadline to come before MaxTime.
HandleSettle(c, q) ==
  /\ pc[c] = "idle"
  /\ now + RequestTimeout <= MaxTime
  /\ pc' = [pc EXCEPT ![c] = "verify"]
  /\ req' = [req EXCEPT ![c] = q]
  /\ deadline' = [deadline EXCEPT ![c] = now + RequestTimeout]
  /\ UNCHANGED <<chainVars, gone, tx, rpc, resp>>

\* Mutation: a failed verification is answered with the verifier's reason.
VerifyWithReason(c) ==
  /\ pc[c] = "verify"
  /\ \/ /\ Accepts(GoChecks(req[c], now))
        /\ pc' = [pc EXCEPT ![c] = "build"]
        /\ UNCHANGED resp
     \/ /\ ~Accepts(GoChecks(req[c], now))
        /\ Answer(c, FALSE, GoVerify(req[c], now), NoTx)
  /\ UNCHANGED <<chainVars, req, deadline, gone, tx, rpc>>

\* Settle verifies again, whatever an earlier /verify answered.
Verify(c) ==
  /\ pc[c] = "verify"
  /\ \/ /\ Accepts(GoChecks(req[c], now))
        /\ pc' = [pc EXCEPT ![c] = "build"]
        /\ UNCHANGED resp
     \/ /\ ~Accepts(GoChecks(req[c], now))
        /\ Answer(c, FALSE, "verification_failed", NoTx)
  /\ UNCHANGED <<chainVars, req, deadline, gone, tx, rpc>>

\* The clock is read again for the time stamp; signing cannot be cancelled.
BuildAndSign(c) ==
  /\ pc[c] = "build"
  /\ \/ /\ Accepts(GoBuildChecks(req[c]))
        /\ \E ms \in Millis :
             tx' = [tx EXCEPT ![c] = GoTxOf(req[c], [sec |-> now, ms |-> ms])]
        /\ pc' = [pc EXCEPT ![c] = "put"]
        /\ UNCHANGED resp
     \/ /\ ~Accepts(GoBuildChecks(req[c]))
        /\ Answer(c, FALSE, Verdict(GoBuildChecks(req[c])), NoTx)
        /\ UNCHANGED tx
     \/ /\ Accepts(GoBuildChecks(req[c]))    \* the SDK fails to make or sign it
        /\ Answer(c, FALSE, "sign_deploy_failed", NoTx)
        /\ UNCHANGED tx
  /\ UNCHANGED <<chainVars, req, deadline, gone, rpc>>

\* The HTTP client does not send for a context that is already done.
SendPut(c) ==
  /\ pc[c] = "put"
  /\ rpc[c] = "none"
  /\ ~ContextDone(c)
  /\ rpc' = [rpc EXCEPT ![c] = "sent"]
  /\ UNCHANGED <<chainVars, pc, req, deadline, gone, tx, resp>>

PutReturns(c) ==
  /\ pc[c] = "put"
  /\ rpc[c] = "taken"
  /\ pc' = [pc EXCEPT ![c] = "wait"]
  /\ UNCHANGED <<chainVars, req, deadline, gone, tx, rpc, resp>>

\* Mutation: a failed put reports no hash.
PutFailsUnnamed(c) ==
  /\ pc[c] = "put"
  /\ Answer(c, FALSE, "put_deploy_failed", NoTx)
  /\ UNCHANGED <<chainVars, req, deadline, gone, tx, rpc>>

\* Refused by the node, no connection, or the reply is lost.
PutFails(c) ==
  /\ pc[c] = "put"
  /\ Answer(c, FALSE, "put_deploy_failed", tx[c])
  /\ UNCHANGED <<chainVars, req, deadline, gone, tx, rpc>>

\* Mutation: the execution's error message is not looked at.
PollIgnoresError(c) ==
  /\ pc[c] = "wait"
  /\ ~ContextDone(c)
  /\ tx[c] \in succeeded \cup failed
  /\ Answer(c, TRUE, "none", tx[c])
  /\ UNCHANGED <<chainVars, req, deadline, gone, tx, rpc>>

\* Mutation: a transaction the node knows counts before it is executed.
PollIgnoresExecution(c) ==
  /\ pc[c] = "wait"
  /\ ~ContextDone(c)
  /\ tx[c] \in accepted
  /\ Answer(c, TRUE, "none", tx[c])
  /\ UNCHANGED <<chainVars, req, deadline, gone, tx, rpc>>

\* Mutation: an authorization transferred by another transaction counts.
PollAcceptsUsed(c) ==
  /\ pc[c] = "wait"
  /\ ~ContextDone(c)
  /\ Used(Authorization(tx[c]))
  /\ Answer(c, TRUE, "none", tx[c])
  /\ UNCHANGED <<chainVars, req, deadline, gone, tx, rpc>>

\* A poll that errs, or finds no execution result yet, changes nothing.
PollFindsSuccess(c) ==
  /\ pc[c] = "wait"
  /\ ~ContextDone(c)
  /\ tx[c] \in succeeded
  /\ Answer(c, TRUE, "none", tx[c])
  /\ UNCHANGED <<chainVars, req, deadline, gone, tx, rpc>>

PollFindsError(c) ==
  /\ pc[c] = "wait"
  /\ ~ContextDone(c)
  /\ tx[c] \in failed
  /\ Answer(c, FALSE, "wait_deploy_failed", tx[c])
  /\ UNCHANGED <<chainVars, req, deadline, gone, tx, rpc>>

\* Mutation: the put does not get the handler's context.
ContextEndsWaitOnly(c) ==
  /\ pc[c] = "wait"
  /\ ContextDone(c)
  /\ Answer(c, FALSE, "wait_deploy_failed", tx[c])
  /\ UNCHANGED <<chainVars, req, deadline, gone, tx, rpc>>

\* The put and the wait are the two places that watch the context.
ContextEnds(c) ==
  /\ pc[c] \in {"put", "wait"}
  /\ ContextDone(c)
  /\ Answer(c, FALSE,
            IF pc[c] = "put" THEN "put_deploy_failed" ELSE "wait_deploy_failed", tx[c])
  /\ UNCHANGED <<chainVars, req, deadline, gone, tx, rpc>>

Disconnect(c) ==
  /\ pc[c] \notin {"idle", "done"}
  /\ gone' = [gone EXCEPT ![c] = TRUE]
  /\ UNCHANGED <<chainVars, pc, req, deadline, tx, rpc, resp>>

-----------------------------------------------------------------------------
(* The node, which may take in a put whose caller has long given up.       *)

NodeTakesIn(c) ==
  /\ rpc[c] = "sent"
  /\ TakeIn(tx[c])
  /\ rpc' = [rpc EXCEPT ![c] = "taken"]
  /\ UNCHANGED <<pc, req, deadline, gone, tx, resp>>

\* Past its TTL, already known, unpayable, or for another chain.
NodeRefuses(c) ==
  /\ rpc[c] = "sent"
  /\ rpc' = [rpc EXCEPT ![c] = "refused"]
  /\ UNCHANGED <<chainVars, pc, req, deadline, gone, tx, resp>>

Execute(t) == (ExecuteWell(t) \/ ExecuteBadly(t)) /\ UNCHANGED callVars

PassTime == Tick /\ UNCHANGED callVars

\* Nothing is left to do but to execute what the node holds, which it need not.
Finished ==
  /\ now = MaxTime
  /\ \A c \in Calls : pc[c] \in {"idle", "done"}
  /\ UNCHANGED vars

Handler(c) ==
  \/ Verify(c) \/ BuildAndSign(c) \/ SendPut(c) \/ PutReturns(c) \/ PutFails(c)
  \/ PollFindsSuccess(c) \/ PollFindsError(c) \/ ContextEnds(c)

Next ==
  \/ \E c \in Calls : Handler(c) \/ Disconnect(c) \/ NodeTakesIn(c) \/ NodeRefuses(c)
  \/ \E c \in Calls, q \in Requests : HandleSettle(c, q)
  \/ \E t \in accepted : Execute(t)
  \/ PassTime
  \/ Finished

\* A goroutine that can run does, its context expires, and time passes.  Nothing
\* is assumed of the node or of the network.
Fairness ==
  /\ \A c \in Calls : WF_vars(Verify(c)) /\ WF_vars(BuildAndSign(c)) /\ WF_vars(ContextEnds(c))
  /\ WF_vars(PassTime)

SafetySpec == Init /\ [][Next]_vars
Spec == SafetySpec /\ Fairness

-----------------------------------------------------------------------------
(* Properties.                                                             *)

Reason == {"none", "verification_failed", "build_deploy_failed", "network_mismatch",
           "sign_deploy_failed", "put_deploy_failed", "wait_deploy_failed"}

\* Every variable keeps its type; the answer's reason is an error code of Settle.
TypeOK ==
  /\ now \in 0..MaxTime
  /\ accepted \subseteq Tx /\ succeeded \subseteq accepted /\ failed \subseteq accepted
  /\ pc \in [Calls -> {"idle", "verify", "build", "put", "wait", "done"}]
  /\ req \in [Calls -> Requests \cup {NoRequest}]
  /\ deadline \in [Calls -> 0..MaxTime]
  /\ gone \in [Calls -> BOOLEAN]
  /\ tx \in [Calls -> Tx \cup {NoTx}]
  /\ rpc \in [Calls -> {"none", "sent", "taken", "refused"}]
  /\ resp \in [Calls -> [success : BOOLEAN, reason : Reason, tx : Tx \cup {NoTx}]]

Succeeded(c) == pc[c] = "done" /\ resp[c].success

\* A call answered with success names a transaction that the chain executed, and
\* that moved the amount its requirements ask for, of their asset, on their
\* network, from the payer of its payload to their payTo (Settle, lines 365-374).
SuccessIsPaid ==
  \A c \in Calls : Succeeded(c) =>
    LET t == resp[c].tx
    IN  /\ t \in succeeded
        /\ AccountAddress(t.from) = req[c].p.from
        /\ AccountAddress(t.to) = req[c].r.payTo
        /\ t.value = AmountOf[req[c].r.amount]
        /\ t.asset = req[c].r.asset
        /\ t.network = req[c].r.network

\* However often one authorization is submitted, by retries or by concurrent calls,
\* the calls that report success for it all report the one transfer.
SuccessesShareTransfer ==
  \A c, d \in Calls :
    /\ Succeeded(c)
    /\ Succeeded(d)
    /\ Authorization(resp[c].tx) = Authorization(resp[d].tx)
    => resp[c].tx = resp[d].tx

\* What reaches the node is what was signed: a transaction the node took in carries
\* a signature by its public key over exactly its own arguments.  Verify recomputes
\* the digest from the payload (line 193), Settle builds the arguments from it again
\* (lines 246-288); the two must agree.
SentIsWhatWasSigned ==
  \A t \in accepted :
    LET signed == t.signature.over.message
        domain == t.signature.over.domain
    IN  /\ t.signature.by = t.publicKey
        /\ signed.from.hash = t.from /\ signed.to.hash = t.to
        /\ signed.value = t.value
        /\ signed.validAfter = t.validAfter /\ signed.validBefore = t.validBefore
        /\ signed.nonce = t.nonce
        /\ domain.asset = t.asset /\ domain.network = t.network

\* No transfer is out of sight: a transaction the node took in, however late, was
\* sent by a call that is still open or whose answer, success or failure, names it.
\* So a failure that names no transaction can be retried without paying twice.
EveryTransferIsTraceable ==
  \A t \in accepted : \E c \in Calls :
    tx[c] = t /\ (pc[c] = "done" => resp[c].tx = t)

\* Every call that arrives is answered, even if the node never replies: the put and
\* the wait both end with the handler's context.
EveryCallAnswered ==
  \A c \in Calls : pc[c] = "verify" ~> pc[c] = "done"

-----------------------------------------------------------------------------
(* The facilitator implements the abstract settlement promise.             *)

AuthorizationOf(q) ==
  [asset |-> q.r.asset, from |-> q.p.from.hash, nonce |-> q.p.nonce]

Outcome(c) ==
  IF pc[c] = "idle" THEN "none"
  ELSE IF pc[c] # "done" THEN "open"
  ELSE IF resp[c].success THEN "success" ELSE "failure"

Asked == [c \in Calls |-> IF pc[c] = "idle" THEN {} ELSE {AuthorizationOf(req[c])}]
Outcomes == [c \in Calls |-> Outcome(c)]
Paid == {Authorization(t) : t \in succeeded}

Promise == INSTANCE Settlement WITH
  Payments <- {AuthorizationOf(q) : q \in Requests},
  asked    <- Asked,
  outcome  <- Outcomes,
  paid     <- Paid

\* Seen through that mapping every behaviour is one the promise allows: at most one
\* transfer for an authorization, none unasked for, success only after the transfer,
\* and an answer, given once, that stands.
KeepsPromise == Promise!SafetySpec
=============================================================================
