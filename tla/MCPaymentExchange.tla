------------------------- MODULE MCPaymentExchange --------------------------
(***************************************************************************)
(* Challenges of one requirement: servable ones with a long and with a     *)
(* short timeout, and ones that some party along the way must refuse.  And *)
(* one of two, of which the first is not for Casper.                       *)
(***************************************************************************)
EXTENDS PaymentExchange, MCRequests

MCOffers ==
  { Goods, [Goods EXCEPT !.maxTimeout = 2], [Goods EXCEPT !.amount = "7"],
    [Goods EXCEPT !.amount = "0"], [Goods EXCEPT !.name = "Other"],
    [Goods EXCEPT !.payTo.kind = "short"], [Goods EXCEPT !.payTo.kind = "package"],
    [Goods EXCEPT !.network = "casper:main"] }

MCChallenges ==
  {<<r>> : r \in MCOffers} \cup {<<[Goods EXCEPT !.network = "eip155:1"], Goods>>}

MCCasperNetworks == {"casper:test", "casper:main"}

\* The facilitators' clock is behind by as much as the clients allow, right, or ahead.
MCLags == -1 .. 1
=============================================================================
