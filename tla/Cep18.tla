-------------------------------- MODULE Cep18 --------------------------------
(***************************************************************************)
(* What the CEP-18 token contract makes of a transfer_with_authorization   *)
(* transaction t, whatever the state it meets.  The contract is a wasm     *)
(* file of the repository without its source: it is modelled from the      *)
(* arguments the facilitators pass and the payer's signature over them.    *)
(***************************************************************************)
EXTENDS ExactScheme

CONSTANT TokenDomain   \* assets, each with the EIP-712 name and version of its contract

\* An authorization is identified by its asset, payer and nonce.
Authorization(t) == [asset |-> t.asset, from |-> t.from, nonce |-> t.nonce]

\* The payer named in the arguments signed them, to and from being accounts, for
\* this contract on this network.
SignedAsAsked(t) ==
  /\ t.asset \in DOMAIN TokenDomain
  /\ t.publicKey \in DOMAIN AccountOf
  /\ AccountOf[t.publicKey] = t.from
  /\ VerifySignature(t.signature, t.publicKey,
       HashTypedData(
         Domain(TokenDomain[t.asset].name, TokenDomain[t.asset].version, t.network, t.asset),
         Message(AccountAddress(t.from), AccountAddress(t.to), t.value,
                 t.validAfter, t.validBefore, t.nonce)))
=============================================================================
