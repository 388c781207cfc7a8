-------------------------- MODULE MCGoFacilitator ---------------------------
(***************************************************************************)
(* Two concurrent calls over requests that exercise every branch of        *)
(* Settle: an honest payment that two calls may both carry, one about to   *)
(* expire, one that verifies but cannot be built, one the contract refuses *)
(* because the requirements misname the token, and one for another amount. *)
(***************************************************************************)
EXTENDS GoFacilitator, MCRequests, TLC

HonestP == Unsigned("n1", Seconds(0), Seconds(3))

MCRequestsGo ==
  { Request(HonestP, Goods),
    Request(Unsigned("n2", Seconds(0), Seconds(1)), Goods),
    Request(Unsigned("n2", [form |-> "signed", n |-> -1], Seconds(3)), Goods),
    Request([HonestP EXCEPT !.nonce = "n2"], [Goods EXCEPT !.name = "Other"]),
    Request([HonestP EXCEPT !.nonce = "n2"], [Goods EXCEPT !.amount = "7"]) }

Symmetry == Permutations(Calls)
=============================================================================
