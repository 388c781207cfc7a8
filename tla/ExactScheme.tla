----------------------------- MODULE ExactScheme -----------------------------
(***************************************************************************)
(* The vocabulary of the x402 "exact" scheme on Casper, shared by the Go   *)
(* and the TypeScript mechanism: payloads, payment requirements, the       *)
(* EIP-712 digest that a payer signs, and the reading of the strings that  *)
(* travel in them.  A string is abstracted to what the checks can tell     *)
(* apart: which regular expressions and parsers accept it, and as what.    *)
(***************************************************************************)
EXTENDS Integers

CONSTANTS
  ValidAsset,       \* strings matching ^[0-9a-fA-F]{64}$
  ValidNonce,       \* strings that are the hex of 32 bytes
  UnhashableNonce,  \* others that hexToBytes makes 32 bytes of, or throws at
  AmountOf,         \* strings BigInt reads, each with the number it denotes
  BigIntOnly,       \* those of them, such as 0x5, that are not decimal
  DoubleOf,         \* numbers beyond 2^53, each with the double that is nearest
  AccountOf         \* public key strings, each with its account hash

ASSUME DoubleAssumption == \A n \in DOMAIN DoubleOf : n \in Int /\ DoubleOf[n] \in Int

Exact  == "exact"
Absent == "undefined"   \* a value missing from the JSON object

(***************************************************************************)
(* An address is 00 or 01 followed by 64 hex characters: the prefix is its *)
(* kind ("account" or "package"), the rest its hash.  Of the other strings *)
(* the EIP-712 library reads some ("short", 20 bytes) and some it does not *)
(* ("text"); "empty" is a missing field.                                   *)
(***************************************************************************)
AccountAddress(hash) == [kind |-> "account", hash |-> hash]

IsValidAddress(address) == address.kind \in {"account", "package"}
IsTypedAddress(address) == address.kind \in {"account", "package", "short"}

IsValidContractPackageHash(asset) == asset \in ValidAsset

(***************************************************************************)
(* A timestamp is a string: its form says which parsers accept it, n is    *)
(* the number it denotes.  "digits" is 123, "signed" +123 or -123, "huge"  *)
(* digits that do not fit into 64 bits, "suffixed" 123abc, "text" has no   *)
(* leading number, "empty" is missing.                                     *)
(***************************************************************************)
ParseInt(ts)   == ts.form \in {"digits", "signed"}              \* strconv.ParseInt
ParseUint(ts)  == ts.form = "digits"                            \* strconv.ParseUint
JsParseInt(ts) == ts.form \in {"digits", "signed", "huge", "suffixed"}  \* parseInt(_, 10)

\* parseInt gives a double, which past 2^53 is not always the number written.
JsNumber(ts) == IF ts.n \in DOMAIN DoubleOf THEN DoubleOf[ts.n] ELSE ts.n

IsDecimal(value)   == value \in DOMAIN AmountOf \ BigIntOnly   \* big.Int SetString
BigIntReads(value) == value \in DOMAIN AmountOf                \* BigInt(_)

(***************************************************************************)
(* The hex of a signature is "plain", "prefixed" by 0x, "lenient" (some    *)
(* pairs of characters are not hex), or "empty".  Go takes plain hex, the  *)
(* TypeScript hexToBytes drops the prefix and reads such a pair as 0: the  *)
(* bytes that are then the signature.  An odd number of characters neither *)
(* decodes, which is like a wrong size to both.                            *)
(***************************************************************************)
GoHexDecodes(spelling) == spelling = "plain"
JsHexDecodes(spelling) == spelling \in {"plain", "prefixed", "lenient"}

(***************************************************************************)
(* What is signed: the EIP-712 domain and the TransferWithAuthorization    *)
(* message.  Two digests are equal exactly when every field is.            *)
(***************************************************************************)
Domain(name, version, network, asset) ==
  [name |-> name, version |-> version, network |-> network, asset |-> asset]

Message(from, to, value, validAfter, validBefore, nonce) ==
  [from |-> from, to |-> to, value |-> value, validAfter |-> validAfter,
   validBefore |-> validBefore, nonce |-> nonce]

HashTypedData(domain, message) == [domain |-> domain, message |-> message]

\* A signature is abstracted to its bytes: how many, the key that made them and what
\* they cover.
Sign(key, digest) == [size |-> 65, by |-> key, over |-> digest]

VerifySignature(sig, key, digest) == sig.by = key /\ sig.over = digest
=============================================================================
