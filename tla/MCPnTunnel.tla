---------------------------- MODULE MCPnTunnel ----------------------------
(* PnTunnel for TLC: one tunnel, a channel opened by either end, a listener   *)
(* at each end or at one, and a heartbeat of A.                               *)
EXTENDS PnTunnel

OnePing == [e \in Ends |-> IF e = "A" THEN 1 ELSE 0]
=============================================================================
