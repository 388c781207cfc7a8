-------------------------- MODULE MCVerifyEndpoint ---------------------------
(***************************************************************************)
(* Every payload that differs from an honest one in at most two places,    *)
(* signed as it stands or with the honest signature kept.                  *)
(***************************************************************************)
EXTENDS VerifyEndpoint, MCRequests

At(form, n) == [form |-> form, n |-> n]
BadAddress(kind) == [kind |-> kind, hash |-> "shop"]

HonestP == Unsigned("n1", Seconds(1), Seconds(5))
Honest == Request(HonestP, Goods)

Alter(x, f) ==
  LET p == x.p  r == x.r
      Altered(pp, rr) == [p |-> pp, r |-> rr]
  IN CASE f = 1 -> Altered([p EXCEPT !.scheme = "upto"], r)
       [] f = 2 -> Altered([p EXCEPT !.network = "casper:main"], r)
       [] f = 3 -> Altered([p EXCEPT !.network = "casper:main"], [r EXCEPT !.network = "casper:main"])
       [] f = 4 -> Altered([p EXCEPT !.to = Account("bob")], r)
       [] f = 5 -> Altered([p EXCEPT !.value = "7"], r)
       [] f = 6 -> Altered([p EXCEPT !.value = "00"], [r EXCEPT !.amount = "00"])
       [] f = 7 -> Altered([p EXCEPT !.value = "0"], [r EXCEPT !.amount = "0"])
       [] f = 8 -> Altered([p EXCEPT !.to = BadAddress("package")],
                           [r EXCEPT !.payTo = BadAddress("package")])
       [] f = 9 -> Altered([p EXCEPT !.to = BadAddress("short")],
                           [r EXCEPT !.payTo = BadAddress("short")])
       [] f = 10 -> Altered(p, [r EXCEPT !.asset = "none"])
       [] f = 11 -> Altered([p EXCEPT !.validAfter = At("signed", -1)], r)
       [] f = 12 -> Altered([p EXCEPT !.validAfter = At("suffixed", 1)], r)
       [] f = 13 -> Altered([p EXCEPT !.validBefore = At("text", 0)], r)
       [] f = 14 -> Altered([p EXCEPT !.validBefore = Seconds(3)], r)
       [] f = 15 -> Altered([p EXCEPT !.validBefore = At("empty", 0)], r)
       [] f = 16 -> Altered(p, [r EXCEPT !.name = ""])
       [] f = 17 -> Altered(p, [r EXCEPT !.version = ""])
       [] f = 18 -> Altered([p EXCEPT !.from = BadAddress("short")], r)
       [] f = 19 -> Altered([p EXCEPT !.from = BadAddress("text")], r)
       [] f = 20 -> Altered([p EXCEPT !.nonce = "zz"], r)
       [] f = 21 -> Altered([p EXCEPT !.nonce = "n"], r)
       [] f = 22 -> Altered([p EXCEPT !.publicKey = "bob.key"], r)
       [] f = 23 -> Altered([p EXCEPT !.publicKey = "?"], r)
       [] f = 24 -> Altered([p EXCEPT !.signature.size = 64], r)
       [] f = 25 -> Altered(p, [r EXCEPT !.scheme = "upto"])
       [] f = 26 -> Altered([p EXCEPT !.network = "casper:other"], [r EXCEPT !.network = "casper:other"])
       [] f = 27 -> Altered([p EXCEPT !.value = "x"], [r EXCEPT !.amount = "x"])
       [] f = 28 -> Altered([p EXCEPT !.value = "0x5"], [r EXCEPT !.amount = "0x5"])
       [] f = 29 -> Altered([p EXCEPT !.spelling = "prefixed"], r)
       [] f = 30 -> Altered([p EXCEPT !.spelling = "lenient"], r)
       [] f = 31 -> Altered([p EXCEPT !.validBefore = Seconds(101)], r)
       [] f = 32 -> Altered([p EXCEPT !.validBefore = Seconds(100)], r)
       [] f = 33 -> Altered([p EXCEPT !.validBefore = At("huge", 101)], r)

Signable(x) == BigIntReads(x.p.value) /\ x.p.signature.size = 65

\* Written as before and signed, over its time stamps or over what TypeScript reads.
Signed(x) ==
  LET Read(ts) == [ts EXCEPT !.n = JsNumber(ts)]
      read == [x.p EXCEPT !.validAfter = Read(@), !.validBefore = Read(@)]
  IN  {[x EXCEPT !.p.signature = SignedBy(p.publicKey, p, x.r)] : p \in {x.p, read}}

MCRequestsAltered ==
  LET once == {Honest} \cup {Alter(Honest, f) : f \in 1..33}
      twice == once \cup {Alter(q0, f) : q0 \in once, f \in 1..33}
  IN  twice \cup UNION {Signed(x) : x \in {y \in twice : Signable(y)}}
=============================================================================
