---------------------------- MODULE MCPaidVisit -----------------------------
(***************************************************************************)
(* Two clicks, which may overlap, two accounts of the wallet, and a server *)
(* that is restarted once.                                                 *)
(***************************************************************************)
EXTENDS PaidVisit

MCVisits == 1..MaxClicks
=============================================================================
