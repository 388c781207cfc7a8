------------------------- MODULE MCTwoFacilitators --------------------------
(***************************************************************************)
(* One call of each facilitator over an honest payment both may carry and  *)
(* one whose window is short.                                              *)
(***************************************************************************)
EXTENDS TwoFacilitators, MCRequests

MCRequestsFew ==
  { Request(Unsigned("n1", Seconds(0), Seconds(3)), Goods),
    Request(Unsigned("n2", Seconds(0), Seconds(1)), Goods) }
=============================================================================
