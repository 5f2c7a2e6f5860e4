---------------------------- MODULE MCTunnelSetup ----------------------------
(* How two peers come by a tunnel, for TLC: their rendezvous, in which each    *)
(* starts one attempt; the TCP listener of one of them while the other dials   *)
(* it twice; the NAT-aware open that falls back from a rendezvous to a call;   *)
(* or the tunnel manager of one of them with an open beside an upgrade. The    *)
(* four share no state, so a behaviour is one of them.                         *)
EXTENDS Rendezvous, TcpListener, NatCall, TunnelManager, TLC

CONSTANTS c1, c2

VARIABLE part

setupVars == <<rendezvousVars, listenerVars, natVars, managerVars, part>>

OneEach == Small :> 1 @@ Large :> 1
LargeTwice == Small :> 1 @@ Large :> 2

\* Each part makes its choices only where it moves
SetupInit ==
  /\ part \in {"rendezvous", "listener", "call", "manager"}
  /\ RendezvousInit /\ ListenerInit /\ NatInit /\ ManagerInit
  /\ part # "rendezvous" => connector = [a \in Attempt |-> "caller"]
  /\ part # "call" => /\ profile = [e \in End |-> unknown] /\ clock = [e \in End |-> 0]
                      /\ public = [caller |-> FALSE, callee |-> FALSE, looked |-> FALSE]
  /\ part # "listener" => ~reverse /\ via = [c \in Controls |-> CHOOSE l \in Ports : TRUE]

SetupNext ==
  /\ UNCHANGED part
  /\ \/ part = "rendezvous" /\ RendezvousNext /\ UNCHANGED <<listenerVars, natVars, managerVars>>
     \/ part = "listener" /\ ListenerNext /\ UNCHANGED <<rendezvousVars, natVars, managerVars>>
     \/ part = "call" /\ NatNext /\ UNCHANGED <<rendezvousVars, listenerVars, managerVars>>
     \/ part = "manager" /\ ManagerNext /\ UNCHANGED <<rendezvousVars, listenerVars, natVars>>

SetupSpec == SetupInit /\ [][SetupNext]_setupVars

\* The control connections are interchangeable
Symmetry == Permutations(Controls)
=============================================================================
