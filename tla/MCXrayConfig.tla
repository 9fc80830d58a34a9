---------------------------- MODULE MCXrayConfig ----------------------------
(***************************************************************************)
(* XrayConfig on a small instance: the installed config has inbounds of    *)
(* two protocols around the system inbound, so that positions shift.       *)
(***************************************************************************)
EXTENDS XrayConfig

CONSTANTS ann, b1, b2

MCEmails   == {ann}
MCBrowsers == {b1, b2}
Installed(tag, kind) == [tag |-> tag, kind |-> kind, good |-> TRUE, clients |-> {}]
MCInitial  == << Installed("in1", "reality"), System, Installed("in2", "ws") >>

=============================================================================
