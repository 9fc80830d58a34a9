----------------------------- MODULE MCKeyPanel -----------------------------
(***************************************************************************)
(* KeyPanel on a small instance: two keys, with uuids of their own or      *)
(* without any.                                                            *)
(***************************************************************************)
EXTENDS KeyPanel, TLC

CONSTANTS e1, e2

TwoKeys     == {e1, e2}
OwnOrBlank  == {e1 :> 1 @@ e2 :> 2, e1 :> Blank @@ e2 :> Blank}
OneShares   == e1 :> 2 @@ e2 :> 1
OneExpires  == e1 :> 3 @@ e2 :> Never
=============================================================================
