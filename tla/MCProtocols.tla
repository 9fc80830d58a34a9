---------------------------- MODULE MCProtocols ----------------------------
(***************************************************************************)
(* Protocols for TLC: every protocol, preset and client app of the source, *)
(* two changes by hand of an inbound or of a key.                          *)
(***************************************************************************)
EXTENDS Protocols

MCNetworks   == {"tcp", "ws", "grpc", "kcp", "mkcp", "httpupgrade"}
MCSecurities == {"none", "tls", "reality"}

=============================================================================
