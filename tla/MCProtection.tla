---------------------------- MODULE MCProtection ----------------------------
(***************************************************************************)
(* Protection on a small instance.                                         *)
(***************************************************************************)
EXTENDS Protection, TLC

CONSTANTS dash, ip1

OneProducer == {dash}
OneIP       == {ip1}
ForGood     == {"permanent"}
BothKinds   == {"security", "stats"}

=============================================================================
