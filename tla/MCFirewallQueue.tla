--------------------------- MODULE MCFirewallQueue ---------------------------
(***************************************************************************)
(* FirewallQueue on small instances.                                       *)
(***************************************************************************)
EXTENDS FirewallQueue, TLC

CONSTANTS dash, api, ip1, ip2

OneProducer  == {dash}
TwoProducers == {dash, api}
OneIP        == {ip1}
TwoIPs       == {ip1, ip2}
TwoScopes    == {"permanent", "device"}

IPSymmetry   == Permutations(TwoIPs)

=============================================================================
