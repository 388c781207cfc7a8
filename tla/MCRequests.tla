----------------------------- MODULE MCRequests ------------------------------
(***************************************************************************)
(* Concrete payments for the model checker: two payers, one token contract *)
(* and one merchant, and the ways a request can differ from an honest one. *)
(***************************************************************************)
EXTENDS Integers

MCValidAsset == {"cep18"}
MCValidNonce == {"n1", "n2"}
MCUnhashableNonce == {"zz"}
MCAmountOf == [v \in {"0", "00", "5", "7", "0x5"} |->
                 CASE v \in {"0", "00"} -> 0 [] v \in {"5", "0x5"} -> 5 [] v = "7" -> 7]
MCBigIntOnly == {"0x5"}
\* 101 stands for 2^53 + 1, which is no double, and 100 for 2^53.
MCDoubleOf == [n \in {101} |-> 100]
MCAccountOf == [k \in {"alice.key", "bob.key"} |-> IF k = "alice.key" THEN "alice" ELSE "bob"]
MCTokenDomain == [a \in MCValidAsset |-> [name |-> "Cep18x402", version |-> "1"]]

Account(h) == [kind |-> "account", hash |-> h]
Seconds(n) == [form |-> "digits", n |-> n]

\* What the payer with this key signs for payload fields p under requirements r.
SignedBy(key, p, r) ==
  [size |-> 65, by |-> key,
   over |-> [domain |-> [name |-> r.name, version |-> r.version,
                         network |-> r.network, asset |-> r.asset],
             message |-> [from |-> p.from, to |-> p.to, value |-> MCAmountOf[p.value],
                          validAfter |-> p.validAfter.n, validBefore |-> p.validBefore.n,
                          nonce |-> p.nonce]]]

Goods == [scheme |-> "exact", network |-> "casper:test", payTo |-> Account("shop"),
          amount |-> "5", asset |-> "cep18", name |-> "Cep18x402", version |-> "1",
          maxTimeout |-> 3]

Unsigned(nonce, after, before) ==
  [scheme |-> "exact", network |-> "casper:test",
   from |-> Account("alice"), to |-> Account("shop"), value |-> "5",
   validAfter |-> after, validBefore |-> before,
   nonce |-> nonce, publicKey |-> "alice.key", spelling |-> "empty",
   signature |-> [size |-> 0, by |-> "", over |-> ""]]

\* A request whose payload is signed, as it stands, by the key it names.
Request(p, r) ==
  [p |-> [p EXCEPT !.signature = SignedBy(p.publicKey, p, r), !.spelling = "plain"], r |-> r]
=============================================================================
