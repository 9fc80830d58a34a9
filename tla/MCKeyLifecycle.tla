--------------------------- MODULE MCKeyLifecycle ---------------------------
(***************************************************************************)
(* KeyLifecycle on small instances.                                        *)
(***************************************************************************)
EXTENDS KeyLifecycle

CONSTANTS alice, bob, k1, k2, reality, trojan, run1, run2

TwoEmails    == {alice, bob}
TwoUuids     == {k1, k2}
TwoInbounds  == {reality, trojan}
TwoRuns      == {run1, run2}

\* The profile "standard", and the two kinds of inbounds "universal" has: both contain the first
\* inbound's protocol.
WithPrimary  == {{reality}, {reality, trojan}}

=============================================================================
