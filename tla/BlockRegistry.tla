---------------------------- MODULE BlockRegistry ----------------------------
(***************************************************************************)
(* What the firewall pipeline promises, with no queue, no files and no     *)
(* processes: an address is denied by the firewall exactly while somebody  *)
(* holds it.  There are two independent holders, the permanent list (the   *)
(* operator's bans) and the device list (the device policy); releasing one *)
(* hold never lifts the rule the other hold still needs.                   *)
(***************************************************************************)

CONSTANT IPs        \* the addresses that can be blocked

VARIABLES
  permanent,        \* addresses held by the permanent list
  device,           \* addresses held by the device policy
  rules             \* addresses the firewall denies

registryVars == <<permanent, device, rules>>

RegistryType ==
  /\ permanent \subseteq IPs
  /\ device \subseteq IPs
  /\ rules \subseteq IPs

Init ==
  /\ permanent \subseteq IPs
  /\ device \subseteq IPs
  /\ rules = permanent \cup device

\* One hold is taken or released, and the firewall denies what is held.
Hold(ip)          == permanent' = permanent \cup {ip} /\ device' = device
Release(ip)       == permanent' = permanent \ {ip} /\ device' = device
HoldDevice(ip)    == device' = device \cup {ip} /\ permanent' = permanent
ReleaseDevice(ip) == device' = device \ {ip} /\ permanent' = permanent

Next ==
  /\ \E ip \in IPs :
       Hold(ip) \/ Release(ip) \/ HoldDevice(ip) \/ ReleaseDevice(ip)
  /\ rules' = permanent' \cup device'

Spec == Init /\ [][Next]_registryVars

=============================================================================
