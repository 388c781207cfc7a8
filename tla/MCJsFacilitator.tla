-------------------------- MODULE MCJsFacilitator ---------------------------
(***************************************************************************)
(* Two concurrent calls of the TypeScript facilitator over requests that   *)
(* exercise every branch of settle: an honest payment two calls may both   *)
(* carry, one about to expire, one whose time stamp no CLUint64 can hold,  *)
(* one the contract refuses, and one whose key is not the payer's.         *)
(***************************************************************************)
EXTENDS JsFacilitator, MCRequests, TLC

HonestP == Unsigned("n1", Seconds(0), Seconds(3))

MCRequestsJs ==
  { Request(HonestP, Goods),
    Request(Unsigned("n2", Seconds(0), Seconds(1)), Goods),
    Request(Unsigned("n2", [form |-> "signed", n |-> -1], Seconds(3)), Goods),
    Request([HonestP EXCEPT !.nonce = "n2"], [Goods EXCEPT !.name = "Other"]),
    Request([HonestP EXCEPT !.publicKey = "bob.key"], Goods) }

Symmetry == Permutations(Calls)
=============================================================================
