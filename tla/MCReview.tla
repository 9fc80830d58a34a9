------------------------------ MODULE MCReview ------------------------------
(***************************************************************************)
(* Review on a small instance: one key at three addresses of two providers *)
(* and two countries.                                                      *)
(***************************************************************************)
EXTENDS Review, TLC

CONSTANTS k1, ispA, ispB, home, away, family

ThreeIPs == 1 .. 3

UsedBy    == k1 :> ThreeIPs
KnownOf   == k1 :> {}
Providers == <<ispA, ispB, ispA>>
Countries == <<home, home, away>>
Far       == {<<2, 3>>, <<3, 2>>}
OneProxy  == {2}
Nobody    == {}
OnlyStrict == {"strict"}
TwoGroups == {Ungrouped, family}
=============================================================================
