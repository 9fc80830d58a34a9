----------------------------- MODULE MCAccounts -----------------------------
(***************************************************************************)
(* Accounts on a small instance: two browsers, three accounts with two     *)
(* usernames, so that names are used again.                                *)
(***************************************************************************)
EXTENDS Accounts

CONSTANTS id1, id2, id3, ann, ben, b1, b2

MCIds       == {id1, id2, id3}
MCUsernames == {ann, ben}
MCRoles     == {"admin", "owner"}
MCBrowsers  == {b1, b2}

=============================================================================
