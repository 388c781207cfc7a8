----------------------------- MODULE ExactClient -----------------------------
(***************************************************************************)
(* The payer's side of the exact scheme: the Go CreatePaymentPayload and   *)
(* the TypeScript createPaymentPayload, with the signers they use.  Both   *)
(* sign one authorization for the requirements they are given, from a      *)
(* little before the present to maxTimeoutSeconds after it.  The payment   *)
(* page of the CSPR.click example signs with a wallet, from the present on *)
(* and for a time of its own.                                              *)
(***************************************************************************)
EXTENDS ExactScheme, Sequences

CONSTANTS
  CasperNetworks,  \* network names that start with "casper:"
  Backdate,    \* seconds the window opens before the present: 600 in the code
  PageWindow   \* seconds the page's window stays open: 3600 in the code

ASSUME BackdateAssumption == Backdate \in Nat
ASSUME PageWindowAssumption == PageWindow \in Nat

\* fmt.Sprintf("%d", n), String(n)
FormatInt(n) == [form |-> IF n >= 0 THEN "digits" ELSE "signed", n |-> n]

\* ClientSigner.AccountAddress and toClientCasperSigner: "00" and the account hash.
GoAccountAddress(key) == AccountAddress(AccountOf[key])
JsAccountAddress(key) == AccountAddress(AccountOf[key])

-----------------------------------------------------------------------------
(* Which of the requirements of a challenge, a sequence, is paid.          *)

\* x402Client.register("casper:*", scheme): what the client can pay at all.
Supported(challenge) ==
  SelectSeq(challenge, LAMBDA r : r.scheme = Exact /\ r.network \in CasperNetworks)

\* preferredNetworkSelector: the first option of the preferred family, or the first.
PreferredNetwork(options) ==
  LET preferred == SelectSeq(options, LAMBDA r : r.network \in CasperNetworks)
  IN  Head(IF preferred = << >> THEN options ELSE preferred)

\* The page takes the first requirements, whatever they are for.
PageSelects(challenge) == Head(challenge)

-----------------------------------------------------------------------------
(* Go.  The payload is the one that the payer with this key makes at       *)
(* second t for requirements r, once the client has not refused them; the  *)
(* scheme and network it accepts are filled in by the x402 client around.  *)

GoClientAccepts(r) ==
  /\ IsValidContractPackageHash(r.asset)
  /\ r.name # ""
  /\ r.version # ""
  /\ IsTypedAddress(r.payTo)
  /\ IsDecimal(r.amount)

\* Mutation: the window opens Backdate seconds ahead.
GoClientPayloadAhead(r, key, t, nonce) ==
  LET after   == t + Backdate
      before  == t + r.maxTimeout
      domain  == Domain(r.name, r.version, r.network, r.asset)
      message == Message(GoAccountAddress(key), r.payTo, AmountOf[r.amount], after, before, nonce)
  IN  [scheme      |-> r.scheme,
       network     |-> r.network,
       from        |-> GoAccountAddress(key),
       to          |-> r.payTo,
       value       |-> r.amount,
       validAfter  |-> FormatInt(after),
       validBefore |-> FormatInt(before),
       nonce       |-> nonce,
       publicKey   |-> key,
       spelling    |-> "plain",
       signature   |-> Sign(key, HashTypedData(domain, message))]

GoClientPayload(r, key, t, nonce) ==
  LET after   == t - Backdate
      before  == t + r.maxTimeout
      domain  == Domain(r.name, r.version, r.network, r.asset)
      message == Message(GoAccountAddress(key), r.payTo, AmountOf[r.amount], after, before, nonce)
  IN  [scheme      |-> r.scheme,
       network     |-> r.network,
       from        |-> GoAccountAddress(key),
       to          |-> r.payTo,
       value       |-> r.amount,
       validAfter  |-> FormatInt(after),
       validBefore |-> FormatInt(before),
       nonce       |-> nonce,
       publicKey   |-> key,
       spelling    |-> "plain",
       signature   |-> Sign(key, HashTypedData(domain, message))]

-----------------------------------------------------------------------------
(* TypeScript, which also refuses a payTo that is no Casper address.       *)

JsClientAccepts(r) ==
  /\ IsValidContractPackageHash(r.asset)
  /\ IsValidAddress(r.payTo)
  /\ r.name # ""
  /\ r.version # ""
  /\ BigIntReads(r.amount)

JsClientPayload(r, key, t, nonce) ==
  LET after   == t - Backdate
      before  == t + r.maxTimeout
      domain  == Domain(r.name, r.version, r.network, r.asset)
      message == Message(JsAccountAddress(key), r.payTo, AmountOf[r.amount], after, before, nonce)
  IN  [scheme      |-> r.scheme,
       network     |-> r.network,
       from        |-> JsAccountAddress(key),
       to          |-> r.payTo,
       value       |-> r.amount,
       validAfter  |-> FormatInt(after),
       validBefore |-> FormatInt(before),
       nonce       |-> nonce,
       publicKey   |-> key,
       spelling    |-> "plain",
       signature   |-> Sign(key, HashTypedData(domain, message))]

-----------------------------------------------------------------------------
(* The page, which checks nothing of the requirements but their amount.    *)
(* The account was shown when the button was clicked; signer is the key    *)
(* that the wallet says it has signed with.                                *)

PageAccepts(r) == BigIntReads(r.amount)

OrNotAvailable(text) == IF text = "" THEN "n/a" ELSE text

PagePayload(r, key, signer, t, nonce) ==
  LET from    == JsAccountAddress(key)
      before  == t + PageWindow
      domain  == Domain(OrNotAvailable(r.name), OrNotAvailable(r.version), r.network, r.asset)
      message == Message(from, r.payTo, AmountOf[r.amount], t, before, nonce)
  IN  [scheme      |-> r.scheme,
       network     |-> r.network,
       from        |-> from,
       to          |-> r.payTo,
       value       |-> r.amount,
       validAfter  |-> FormatInt(t),
       validBefore |-> FormatInt(before),
       nonce       |-> nonce,
       publicKey   |-> signer,
       spelling    |-> "plain",
       signature   |-> Sign(signer, HashTypedData(domain, message))]
=============================================================================
