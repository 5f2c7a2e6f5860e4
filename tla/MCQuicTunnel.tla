---------------------------- MODULE MCQuicTunnel ----------------------------
(***************************************************************************)
(* Instances of QuicTunnel for TLC.                                        *)
(***************************************************************************)
EXTENDS QuicTunnel
=============================================================================
