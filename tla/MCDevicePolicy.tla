--------------------------- MODULE MCDevicePolicy ---------------------------
(***************************************************************************)
(* DevicePolicy on small instances.                                        *)
(***************************************************************************)
EXTENDS DevicePolicy, TLC

CONSTANTS dash, api, u1, u2, ip1, ip2

BothWorkers   == {dash, api}
OneUser       == {u1}
TwoUsers      == {u1, u2}
OneIP         == {ip1}
TwoIPs        == {ip1, ip2}

\* Both keys from one address, or one key from both addresses.
SharedAddress == [u \in TwoUsers |-> OneIP]
UsedByOneUser == u1 :> TwoIPs

NoNetworks    == [ip \in IPs |-> NoIsp]

\* DEVICE_LIMIT is 6 in the dashboard and 2 in the vpn-api.
Defaults      == dash :> 2 @@ api :> 1
LowDefaults   == [w \in BothWorkers |-> 1]

Approvals     == {"approve", "clear", "reset"}
Verdicts      == AllOperations \ {"reset"}
NoLimits      == {}
OneLimit      == {1}

SameUsers     == Permutations(TwoUsers)
=============================================================================
