------------------------ MODULE MCFacilitatorStartup -------------------------
(***************************************************************************)
(* Up to three entries out of two networks and blanks, all environments    *)
(* for the two, and ports that both, either or none of the services take.  *)
(***************************************************************************)
EXTENDS FacilitatorStartup

MCNetworks == {"casper:casper", "casper:casper-test"}
MCSuffixOf == [n \in MCNetworks |->
                 IF n = "casper:casper" THEN "CASPER_CASPER" ELSE "CASPER_CASPER_TEST"]

MCVariables ==
  [pem : {"unset", "good", "broken"},
   algo : {"unset", "secp256k1", "ED25519", "dsa"},
   url : BOOLEAN]

MCEnvironments == [{MCSuffixOf[n] : n \in MCNetworks} -> MCVariables]
MCPort(form, n) == [form |-> form, n |-> n]
MCPorts == {MCPort("digits", 4022), MCPort("digits", 0), MCPort("digits", 65536),
            MCPort("suffixed", 4022), MCPort("text", 0)}
MCNetworkLists == SeqOf(MCNetworks \cup {""}, 3) \ {<<>>}
=============================================================================
