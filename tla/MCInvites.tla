----------------------------- MODULE MCInvites -----------------------------
(***************************************************************************)
(* Invites on a small instance: two invites, two visitors, two names, and  *)
(* a profile without the first inbound's protocol.                         *)
(***************************************************************************)
EXTENDS Invites

CONSTANTS t1, t2, ann, ben, u1, u2, u3, v1, v2

MCTokens   == {t1, t2}
MCEmails   == {ann, ben}
MCUuids    == {u1, u2, u3}
MCVisitors == {v1, v2}

=============================================================================
