# Casper x402: a verification project

x402 is a protocol for paying for HTTP resources. A resource server answers an
unpaid request with *payment requirements*; the client signs an authorization
for them and sends it along; the server has a *facilitator* verify it
(`POST /verify`) and settle it (`POST /settle`). This repository holds the
*exact* scheme for Casper: the payer signs an EIP-712 message
`TransferWithAuthorization`, and the facilitator submits it, as its own
transaction, to the entry point `transfer_with_authorization` of a CEP-18 token
contract. Everything exists twice, in Go and in TypeScript, and the two are
meant to interoperate.

Money moves in `settle`, between one process that may give up at any time, a
network that may lose an answer, and a chain that may execute a transaction
long after anybody waited for it. The project starts there, and goes out to both
ends: to the page on which a payer clicks, and to the environment a facilitator
is started from.

## Inventory

| Component | State | Operations | Hard behaviour | What makes it correct |
|---|---|---|---|---|
| Go facilitator scheme and signer (`go/x402/mechanisms/casper/exact/facilitator`, `go/x402/signers/casper/facilitator.go`) | keys and URLs per network, fixed; each call's context, payload, transaction | `Verify`, `Settle`, `GetNetworkConfig`, `PutTransaction`, `WaitForTransaction` | concurrent calls with one authorization; lost replies; a context that expires in the put or the wait; execution after the answer | success only for an executed transfer of what was asked for; one transfer per authorization; a failure names what may still happen; every call is answered |
| Go facilitator service (`go/examples/facilitator/main.go`) | none between calls | `handleVerify`, `handleSettle` | client disconnects cancel the context | reasons pass through unchanged |
| TypeScript facilitator scheme and signer (`js/packages/mechanisms/casper/src/exact/facilitator`, `src/signer.ts`) | key and URL; each call's payload, transaction, start of its wait | `verify`, `settle`, `putTransaction`, `waitForTransaction` | calls interleave at every await; one catch for building, sending, waiting; the timeout is looked at between polls only | as for Go; only `settle_failed` hides a transaction |
| TypeScript facilitator service (`js/examples/facilitator/index.ts`) | none between calls | `POST /verify`, `POST /settle` | | |
| Clients (`exact/client`, both languages) | a key | `CreatePaymentPayload` | clock, window, margin; the digest must be the one the other side computes | what a client signs is accepted by both facilitators and by the contract |
| Resource server schemes (`exact/server`, both) | money parsers, decimals per asset | `ParsePrice`, `EnhancePaymentRequirements` | Go writes into the `Extra` map of its caller; parsers that fail | requirements that are published can be paid |
| Amounts (`utils.go`, `utils.ts`) | none | `ParseAmount`, `FormatAmount` | signs, leading and repeated dots, truncation | both languages read one amount from a string; formatting inverts parsing |
| Facilitator configuration (`config.go`, `config.ts`) | environment | per-network keys and URLs | several networks misconfigured at once | one error lists all of them |
| Casper node, CEP-18 contract | mempool, executed transactions, used authorizations | put, query, execution | all of its timing | external |
| Example resource servers (`go/examples/server`, `js/examples/server`) | the terms of the route, from the environment | the paid route, the payment middleware around it (x402 library), CORS | restart with other terms while payments are under way; a facilitator that does not answer | goods only after settlement; only the server's own terms are settled |
| Example clients (`js/examples/client`, `go/examples/client`) | a key | choice among the requirements offered, the paying fetch (x402 library) | | a choice the scheme can pay |
| CSPR.click page (`go/examples/csprclick-x402/src`) | the active account, the loaded requirement, two text fields; what each handler has captured | account events, load of the challenge by each mount, `handleSignTypedData`, `parseAmount`, `formatDisplayAmount` | the wallet's prompt stays open while the account changes; overlapping clicks; two mounts under StrictMode; lost connections | what was on display is what is signed and charged; goods, receipt and messages on display belong together |
| Logger and request middleware, infrastructure | | | | not about payments |

## Modules

| Module | Models |
|---|---|
| `ExactScheme` | the shared vocabulary: addresses, time stamps, the digest, signatures, and which strings the parsers of each language accept |
| `Verification` | a verifier as a set of checks, each with its line, reason and condition; `Verdict` is the reason of the first one that fails |
| `GoExact` | Go: the checks of `Verify`, the checks and the transaction of `Settle` |
| `JsExact` | TypeScript: the same |
| `Cep18`, `CasperChain` | external: the contract's judgement of a transaction; clock, mempool and execution |
| `GoFacilitator` | `handleSettle`, `Settle`, `PutTransaction`, `WaitForTransaction` for any number of concurrent calls |
| `JsFacilitator` | `POST /settle`, `settle`, `putTransaction`, `waitForTransaction`, likewise |
| `Settlement` | abstract: what `/settle` promises |
| `TwoFacilitators` | a Go and a TypeScript facilitator with one key and one node, each an instance of its module over the shared chain |
| `VerifyEndpoint` | `/verify` of both, one request posted again and again while time passes |
| `ExactClient` | what the two clients and the page choose, refuse and sign |
| `PaymentExchange` | client or page, time, facilitator with a clock of its own, and contract composed, in every mixture of languages |
| `Amounts` | `ParseAmount` and `FormatAmount` of both languages, and the page's `parseAmount` and `formatDisplayAmount`, over sequences of characters |
| `AmountExchange` | one amount parsed and formatted in turn by programs of both, signed and displayed by the page |
| `ResourcePrices` | a resource server's scheme: `ParsePrice` with its parser chain, the checks and the conversion of `EnhancePaymentRequirements` |
| `ResourceServer` | what the resource servers of both languages have in common: configuration and state, and what is assumed of a configuration |
| `GoResourceServer`, `JsResourceServer` | concurrent requests for payment requirements in either |
| `PaidRoute` | the example server's paid route, between its clients and a facilitator that is an instance of `Settlement` |
| `WalletPage` | the CSPR.click page: its React state, the loads of its mounts, and a handler for each click |
| `PaidVisit` | the page, the route and the facilitator's promise composed |
| `FacilitatorStartup` | how the two facilitator services resolve their networks and start |
| `*_proofs` | theorems, see Proofs; `Exact_proofs` holds the lemmas about the checks that others use |
| `MC*` | the instances for the model checker; `MCRequests` holds their payers, token and payloads |

`PaidVisit` needs no detail of a facilitator: `GoFacilitator`, `JsFacilitator` and
`TwoFacilitators` each implement `Settlement` (their property `KeepsPromise`), and
`PaidRoute` builds on `Settlement` alone.

### How the state and the actions correspond to the code

`GoFacilitator` has, for each call, a program counter (`pc`), the request, the
deadline of the context made at `main.go:170`, whether the client has gone (the
context's parent), the signed transaction, the state of the put on its way to
the node, and the response. `Verify`, `BuildAndSign`, `SendPut`, `PutReturns`,
`PutFails`, `PollFindsSuccess`, `PollFindsError` and `ContextEnds` are the steps
of `Settle` between the points where another goroutine, the node or the clock
can intervene. A poll that errs or that finds no result changes nothing
(`continue`), so it is no action. The calls share no variable in the process,
as in the code; they meet in the node.

`JsFacilitator` has the same shape with the differences that matter: no
deadline, building, signing and sending in one action (there is only resolved
promises between them), a poll that is begun (`StartPoll`) and answered later,
one `catch` (`CatchSettleFailed`) and a poll whose error ends the wait.

A request is a record `[p, r]` of payload and requirements. Strings are abstracted
to what the code tells apart: an address to its prefix and hash, a time stamp to its
form (which parsers take it) and number, an amount to its spelling, with `AmountOf`
for the number, a signature to its spelling in hex (`spelling`: plain, with a
leading `0x`, or with pairs that are not hex) and to the bytes that are read from
it: how many, whose, over which digest. The two languages do not read alike. Go's
`hex.DecodeString` takes plain hex, `hexToBytes` all three (`GoHexDecodes`,
`JsHexDecodes`); `parseInt` gives a double, so a time stamp beyond 2^53 is another
number to TypeScript (`JsNumber`; `DoubleOf` says which); `BigInt` reads `0x5`
(`BigIntOnly`) and `big.Int` does not. A digest is a record of what is hashed, so
two are equal exactly when all fields are. The transaction is a record of its
arguments and time stamp, because its hash is a function of them: two calls that
build from one payload in one millisecond build *one* transaction, and `Millis`
makes both cases happen.

The resource servers differ in who owns the `extra` of a price. `maps` is the heap
that matters: in `GoResourceServer` it has a map for every price of the
configuration, explicit or of a money parser, and one for every request;
`wanted[c].extra` says which one a request uses. `ParsePrice` copies none: the map
is the request's own if there was none and the scheme made it, or if the parser
makes one for each answer (`FreshMaps`), as the parser of the example server does;
otherwise it is the price's or the one that the parser keeps (`OwnMap`).
`ForwardKey` writes into it one key at a time, and `Publish`, the x402 library's,
reads it at the end. Go orders nothing between two requests, so a write into a map
that another request is using may also end the process: `MapRace`.
`JsResourceServer` copies, and runs without interruption between awaits. The
auxiliary variable `writers` remembers who has written into the map of a request
since that was checked. Registration of parsers and decimals precedes `Listen`, as
in the examples.

In `Amounts` a text is what stands before the first point, whether there is one,
and what stands after; its characters are digits, signs, further points, and
anything else. `FacilitatorStartup` walks both services through one environment;
each step is one turn of a loop, or what stands before and after it. A port is a
whole number, a number with something behind it, or no number (`Ports`): Go reads
the first only and finds out in `main` whether it can listen there, TypeScript reads
the first two and wants 1 to 65535.

`WalletPage` has one action for what runs between two awaits. A handler of
`handleSignTypedData` is a closure: it goes on with the account and the requirement
its button was rendered with (`closure`), whatever the page's state has become, and
it writes the page's state as it then is. The message is built and given to the
wallet at the click (`TypedData`, kept in `typed`), the payload is built after the
prompt (`PayloadAuthorization`). The button is enabled whenever an account is
active, also while a handler runs, so `Begins` does not ask for that. `result` and
`receipt` are the page's two text fields, each with the click that wrote it; React
applies the two sets of lines 190-195 in one turn, hence one action `ShowResponse`.
`concluded` is a history variable. In `PaidRoute` a server's terms are the number of
its start: all that a route asks for comes from the environment, so a restart may
change any of it. `Restart` loses what the server was doing and not what the
facilitator is doing. The `n`-th click's nonce is `n`, as 32 random bytes are taken
to be fresh.

In `PaymentExchange` the facilitators' clock is `lag` ahead of the client's. The
library's clients open their window `Backdate` before the present and close it
`maxTimeoutSeconds` after it; the page opens it at the present and keeps it open
for an hour, whatever was asked. `InWindow` says what that means for each.

Choices that a reader may want to check:

- that the x402 library passes the extra of a parsed price on, as it is, to
  `EnhancePaymentRequirements` and publishes what that returns is external, and
  taken from the signatures of the two functions;
- the `0` flag of Go's `%0*s` fills strings with zeros, as in the Go release of
  `go.mod`;
- in `Amounts` and in prices, amounts are decimal strings; the notations that only
  `BigInt` or `Number` take (`0x5`, `1e3`) are left out there. The verifiers know the
  first kind (`BigIntOnly`);
- public keys are texts that both languages read, or neither does (`AccountOf`): their
  decoding is in the Casper libraries, which are external;
- the payload's `accepted` is there: without it the TypeScript `verify` throws at its
  first check (`scheme.ts:123`) and the service answers 500, which is not modelled;
- `formatDisplayAmount` shows an amount without any decimals if the requirements name
  none, or none that are a number (`x402-utils.ts:44-46`). The model's decimals are
  those that were used, as both example servers publish theirs; with the fallback the
  page shows atomic units, which is `FormatDisplay` for no decimals;
- the gas budget is a natural number: any other text stops the Go service, and stops
  the TypeScript service or is read up to its first letter;
- an unsolicited change of account is answered with `signInWithAccount`, so the page
  sees it as `signed_in`; the wallet may sign with another account than the page
  has on display (`signer` in `PagePays`), and the contract then refuses;
- an empty name or version in the requirements stands for a missing one;
- the payment middleware verifies before the route's handler and settles after it,
  before the answer goes out, and matches a payment with the requirements of the
  route as it is then: external, from the configuration at
  `js/examples/server/index.ts:92` and from what the page reads back;
- a negative time stamp is taken to be hashed by the EIP-712 libraries
  (external), so `failed_to_hash` never arises in the Go model; such payloads
  are instead stopped when the transaction is built, by `ParseUint` in Go and by
  the unsigned argument in TypeScript;
- a body that is not JSON or lacks a part is answered with 400 before the
  scheme is reached, and networks that are not registered are turned away by
  the x402 library: neither is modelled;
- the spacing of polls (2 and 3 seconds) is left out, they may happen at any
  moment;
- transactions of one facilitator key are compared; its key and gas are not part
  of a transaction's record;
- the contract transfers an authorization at most once, within its window, if
  the account of the given public key signed exactly the given arguments; it may
  also fail for reasons of its own. The node takes a transaction in, or refuses
  it, and executes it before its TTL or never. These are assumptions.

## Runs

| Run | Asks | Bounds |
|---|---|---|
| `go_settle` | `TypeOK`, `SuccessIsPaid`, `SuccessesShareTransfer`, `SentIsWhatWasSigned`, `EveryTransferIsTraceable`; `KeepsPromise`: every step is one of `Settlement`, or invisible there | 2 calls, 5 requests, clock to 4, context of 2, TTL 3, margin 1, 2 milliseconds |
| `js_settle` | the same, with `OnlySettleFailedIsInDoubt` for the last invariant | as `go_settle`, wait of 2 |
| `two_facilitators` | `EveryCallAnswered`, of both; `KeepsPromise` with liveness: together they implement `Settlement` | a Go and a TypeScript call, 2 requests, clock to 3, 1 millisecond |
| `verify` | `ValidIsSigned`, `JsValidIsGoValid`, `GoVerdictOnlyAges`, `JsVerdictOnlyAges` | all requests that differ from an honest one in up to two of 33 ways, signed anew (over the numbers written, or over those that TypeScript reads) or not; clock to 6; 101 stands for 2^53 + 1 and 100 for the double next to it |
| `exchange` | `HonestPaymentIsAccepted`, `HonestPaymentConvinces`, `SettlersAgree` | 2 payers, 2 nonces, 9 challenges, clock to 6, window opened 1 back, or for 4 by the page, clocks up to 1 apart |
| `amounts` | `PlainTextIsRoundedDown`, `ReadersAgree`, `NeverReadsBackAsMore`, `PageSignsWhatIsRead`, `DisplayReadsBack` | all texts of up to 2 characters before and 3 after the point, and some of up to 7 digits; 0 to 3 decimals; safe integers to 9998 |
| `go_prices` | `GoForwardsItsOwnNetwork`, `PublishedIsPayable` | 2 requests, 13 routes on 2 networks, up to 2 of 4 parsers, half of which keep their map, decimals 1 or the default of 2 |
| `js_prices` | `JsForwardsItsOwnNetwork`, `GoServerPublishesTheSame`, `ConvertedZeroIsRefused` | as `go_prices` |
| `startup` | `ServesAllOrNothing`, `JsStartsWhereGoDoes`, `ReportIsComplete` | lists of up to 3 entries from 2 networks and blanks, 24 environments per network, gas budgets 0 and another, ports 4022, 0, 65536, `4022x` and a text |
| `paid_visit` | `ShownGoodsArePaid`, `PaysWhatWasSigned`, `SettlesItsOwnTerms`, `DisplayIsCoherent`, `EveryVisitConcludes` | 2 clicks, 2 accounts, 2 mounts, 1 restart |
| `gas_is_as_configured` | a statement about the gas budget that the Go service does not keep | as `startup` |
| `valid_has_a_signer` | a comment in Go's `Verify` that the code does not keep | as `verify` |

Two calls are enough for the properties of `/settle` because each speaks of one call
or of a pair, and for `two_facilitators` one of each. The clock bounds are the least
at which everything happens: a context expires before the TTL, so a transaction can
execute after its call has been answered, a payload can expire between verification
and execution, and a transaction can outlive its TTL in the mempool. The constants
6, 60, 600 and 900 seconds of the code are scaled down; only their order matters,
and the theorems below do not depend on it.

Two requests are enough for the resource servers: a map is published wrongly when
one other request writes into it. `GoForwardsItsOwnNetwork` says of every route that
what a client is told is its own network's, or that a request for another network,
running beside it, has written into a map that outlives both
(`WrittenFromElsewhere`). The latter happens: with an `extra` map given to explicit
prices on two networks, or kept by a money parser that serves both, the Go server
does publish the other network's fee payer. A merchant should give each price a map
of its own and have parsers make one for each answer. What the property excludes is
every other way: a value that an earlier request has left in the map, or a stranger's
in a map that was made for the request. Its two mutants are a `ForwardKey` that leaves
a value alone that is there already, and parsers that make their map only once.

`ValidIsSigned` lists every field of the digest, with the numbers that the verifying
language has read, and that the key is the payer's own where TypeScript verified;
Go does not compare it with `from` (`scheme.go:205`), so there the contract is the one
to notice (`SuccessIsPaid` covers such calls). `JsValidIsGoValid` is about payloads
written as the repository's clients write them (`PlainlyWritten`); for others it would
be false, as TypeScript takes a signature that begins with `0x`. A startup in
`JsStartsWhereGoDoes` is one with a gas budget and a port other than 0: with either
being 0 Go serves and TypeScript throws, although `config.ts` is said to mirror
`config.go`.

The texts of `amounts` are long enough
for a fraction to be shorter than, as long as and longer than the decimals, and
for a second point or a sign on either side.

Two clicks are enough for the page: each property is about one, or about two that
overlap or follow each other. One restart makes terms of before and after; two
accounts let the active one differ from the one captured. `PaysWhatWasSigned` says that
what a click sends is what its wallet signed, and that nothing else is charged for it: a
handler that reads the page's state after the prompt would send a payment that every
verifier refuses, though the user has confirmed it. `DisplayIsCoherent` joins
four statements about what stands on the page at one time: goods have the receipt of
the same click (`GoodsHaveTheirReceipt`), no receipt is older than the result
(`ReceiptIsNotOlder`), a progress message is that of a running handler
(`ProgressIsLive`), and the offer is that of the mount that is there
(`OfferIsOfThisMount`).

The two runs that end in a violation are real disagreements between a text and
the code:

- *"verify we have a signer for the network in requirements"*
  (`scheme.go:141`): the signer is asked for a URL, not for a key, and has
  default URLs for the two public networks;
- *"Gas budget (motes) for each settlement transaction"* (`user-guide.md:113`):
  the Go service makes its scheme without the budget it has read (`main.go:74`).

Other sentences that the models had to depart from, because the code does:

- *"both Casper account hashes `00<64 hex>`"* (`api-reference.md:105`): an `01`
  address is accepted, and settled to the account with that hash (the run `verify`
  and the theorem `SuccessPays` know such addresses);
- *"both non-zero"* (`api-reference.md:107`): `"00"` is not `"0"`
  (`AmountPresent`);
- *"a single error listing every network that is missing"* its variables
  (`user-guide.md:131`, and likewise `config.ts:88`): a key that does not load
  ends the loop first (`GoResolve`, `JsResolve`);
- *"interoperates with a server or facilitator written in the other"*: for the
  page only from the second on at which the payment was made, by the
  facilitator's clock, as it does not backdate its window
  (`SignTypedData.tsx:100`; the clients do, by 600 seconds);
- *"Payment information is still loading. Please try again in a moment."*
  (`SignTypedData.tsx:92`) is also the answer after a load has failed, which is
  not repeated;
- *"Convert an atomic amount back to a decimal string"* (`utils.ts:97`): `100` at
  two decimals becomes `1`, which is parsed as one unit; `NeverReadsBackAsMore`
  says that this is the only way in which the amount changes, so that a merchant may
  ask for too little, and never for too much.

### Fairness

`two_facilitators`: in the Go service a goroutine that can run does (weak fairness
of `Verify`, `BuildAndSign`), an expired context is noticed (`ContextEnds`, the
runtime's timer), and time passes. Nothing is assumed of the node, of the network
or of the client. In the TypeScript service the event loop runs what is ready, and
every RPC request is answered or fails. The code does not ensure the latter, as
neither `fetch` nor the signer sets a timeout: it is listed among the hazards. At
the clock's last value every TypeScript wait counts as over, as that value stands
for all later ones.

`paid_visit`: the event loops of page and server run what is ready, a connection
that is lost is noticed, and the facilitator answers, which is what it promises.
Nothing is assumed of the user: the wallet's prompt may stay open for ever, which
is why `EveryVisitConcludes` begins with the payment sent.

The other runs state safety only, under specifications without fairness.

## Proofs

All theorems hold for every value of the constants. Their assumptions are the named
ones of the modules: bounds are natural numbers, there is at least one millisecond,
`NoTx` and `NoRequest` are no transactions or requests (`NoTxIsNone` says so of both
facilitators), no call belongs to both (`CallsAssumption`), time stamps are integers
(`TimesAssumption`), as are the numbers beyond 2^53 and their doubles
(`DoubleAssumption`), which the times of `exchange` are below (its own
`TimesAssumption`), ports have one of three forms (`PortsAssumption`), lists of
networks are finite sequences of networks and blanks (`ListsAssumption`), keys,
nonces and the names of tokens are not the empty string (`StringsAssumption`), and
no facilitator's clock is further behind than the clients backdate
(`LagsAssumption`).

**`Exact_proofs`** holds lemmas only: that the first failing check of a set exists and
is what a verifier answers with (`VerdictIsSound`), and what it is to be accepted by
the checks of either language.

**`GoFacilitator_proofs`**, **`JsFacilitator_proofs`** prove the five invariants of
`go_settle` and of `js_settle` for every number of calls, every set of requests,
any clock bound and time-outs. None of the invariants is inductive by itself.
`IInv` adds

- per call (`CallInv`): what each program counter implies of the request, the
  transaction and the put, above all that a transaction was built from a request
  that passed every check that does not age (`Checked`), and that an answer
  given after the put names it (Go), or hides it behind `settle_failed` only
  (TypeScript);
- of the chain (`ChainInv`): whatever the node has, some call has sent; whatever
  was executed was signed as asked; no two executed transactions share an
  authorization.

`SuccessPays` then joins two readings of the one signature: `Verify` accepted it
over the digest of the payload, the contract over the digest of the arguments.
So the two digests are equal, and with them payee and payer, although `Settle`
drops the prefixes of the addresses on the way. `Refinement` shows, under the same
invariant, that each step is a step of `Settlement` or changes nothing it sees:
arrival is `Ask`, execution of a transaction `Transfer`, which some call has asked
for and which is the first of its authorization by `ChainInv`, and an answer
`Succeed` or `Fail`.

**`VerifyEndpoint_proofs`** prove the invariants and action properties of `verify`.
The checks of one request have the same outcome at any time but for the clock's;
of those, the ones that a later clock turns to failing are the last. So the first
failing check, if it was none, can only become one of these. `JsIsStricter` goes
through the two sets of checks, line by line, for plainly written payloads.

**`PaymentExchange_proofs`** prove those of `exchange`. `IInv` says what all three
clients make of requirements, whatever those are (`Made`), which window each
opens (`Window`), and that a transaction was built from the request when its
window let it pass (`SentFrom`). For servable requirements every check of both
languages then follows from `Made`, and the clock's from `Window`.

**`PaidVisit_proofs`** prove the four invariants of `paid_visit`, for any number of
clicks, accounts and restarts. `RouteInv` ties each request to the handler that
sent it, `paid` to what was asked, and a reply with goods to a payment; `PageInv`
ties each phase of a handler to what it has sent and to what the fields say.

**`Services_proofs`** prove the three invariants of `startup` for any list
of networks, and that the Go `main` never finds a listed network without its key
(`KeysAreResolvedBefore`), by an invariant about the entries walked so far (`Walked`).

They also prove that a Go and a TypeScript facilitator over one chain implement
`Settlement` together, for any number of calls of each (`PairRefinement`). The
theorems about either one do not give this, as their invariants say that the node
holds nothing but that one's transactions, which is no longer true. `PairInv`
says that it holds what some call of one or the other has built (`NodeInv`), and of
each call only what the promise needs: from when on it has a transaction, and that
this is for the payment it was asked for. Every step of a facilitator, and of the
node with one of its puts, touches one call (`GoTouches`, `JsTouches`), which is all
that its neighbours need to know of it. That an authorization given to both is
transferred once is then the contract's doing alone (`TransferRefines`), and needs
no invariant about what was executed. The run `two_facilitators` checks the same
mapping with liveness.

**`Prices_proofs`** prove the invariants of `amounts`, `go_prices` and
`js_prices`, for texts of any length, any decimals, any configuration and any
number of requests, in three parts.

1. *What the operators compute.* `DigitsOf`, `DigitsValue` and `PowerOfTen` are
   recursive functions. The library's induction theorems cannot be used, so the
   module has its own: a nonempty set of numbers has a first one (`FirstOf`, from
   the well-foundedness of the naturals), hence induction for membership in a
   *set* (`Induction`), and that a definition by recursion, given as sets and
   functions, has a solution (`Recursion`). With these: the value of two texts
   written one after the other (`ValueOfConcat`), a lemma that the digits of a number
   have that number for their value (`DigitsOfNumber`), what cutting, filling up and
   trimming of a fraction do to its value (`CutInTwo`, `TrimmedText`), and the five
   facts about parsing and formatting: `PlainText`, `ParsersAgree`, `ReadBack`,
   `PageReads` and `DisplayOfDigits`. For the last one the display is described
   without recursion (`GroupedText`: a point at every fourth place from the end),
   and both the page's grouping and its inverse are shown to be a sequence cut into
   pieces and put together again (`FlattenedPieces`).
2. *An amount that is read and written in turn.* `ExchangeInv` says that what each
   reader holds is what it makes of the text that is there now, and that a text
   that was written is the format of the units it was written from. The five
   invariants follow from the five facts.
3. *The resource servers.* `GoInv` says in whose map the amount of a request lies
   (`Whose`): its own, or one that outlives it, whether an explicit price's or a
   parser's. Into a request's own map no other writes. Into the others any may, and
   while the writer's network is the reader's the values are the same; once it is not,
   `WrittenFromElsewhere` holds, and it stays (`StaysWritten`). This, and that only
   values still pending may be missing from the map, makes `GoForwardsItsOwnNetwork`
   inductive. `JsInv` says that a request's amount is what
   its price is parsed to by the parsers there are, which holds because all are
   registered before it comes; `GoServerPublishesTheSame` then needs that the
   parser that answers the TypeScript server is the one that answers the Go server
   (`SameParser`), and `ParsersAgree`.

They assume of a configuration what is named in `ResourceServer` and TLC evaluates
on the instances: prices are asset amounts with texts for amounts
(`PricesAssumption`), maps made anew are of parsers, not of explicit prices
(`FreshAssumption`, in `GoResourceServer`), the maps made for requests are not the prices'
(`ReferencesAssumption`), `AmountOf` covers what prices come to
(`AmountsAssumption`), and the facilitator announces no empty name
(`ExtensionsAssumption`).

Only checked by TLC: liveness (fairness and ENABLED are out of the prover's reach),
hence also the liveness half of the refinements.

## Not modelled

- The logger and its middleware write only logs. The local infrastructure
  deploys a test network and a token once.
- The x402 library (routing, middleware, the paying fetch) and `casper-js-sdk`,
  `casper-go-sdk` and the EIP-712 libraries are not in this repository; they are
  modelled where the code in `src/` depends on them, and marked external.
- `/supported`, `/health`, printing and layout change no state. `LOG_LEVEL` is read
  by the logger only.
- The example clients' paying fetch, and the message of success that the TypeScript
  one prints whatever the status of the answer; of that script only the choice of
  requirements is modelled.
- The loading of the wallet's script by the page, its listener for
  `csprclick:loaded` (never removed, so both mounts' handlers stay registered; both
  write the same account), and hot reloads of a development
  server.

What could be added: a third concurrent request and several extension keys in the
resource servers.
