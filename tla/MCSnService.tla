---------------------------- MODULE MCSnService ----------------------------
(***************************************************************************)
(* The SN service for TLC: its rendezvous bookkeeping (RendezvousService)  *)
(* and the way requests find the SN that serves their target (SnRelay).    *)
(* The two share no state; `part` says which of them a behaviour exercises *)
(* while the other keeps its initial state.                                *)
(***************************************************************************)
EXTENDS RendezvousService, SnRelay, TLC

CONSTANTS a, b, k1, k2, k3
Initiators == k1 :> a @@ k2 :> a @@ k3 :> b

\* Every request is received by SN 1, so SN 2 is the one to relay to.
Receivers == [r \in Jobs |-> 1]

Two(first, second) == [r \in Jobs |-> IF r = 1 THEN first ELSE second]

\* A query while SN 2 publishes to one healthy owner; two copies of a call; a
\* rendezvous.
RelaySettings ==
    {[kind |-> Two("query", "none"), publishers |-> {2}, owners |-> {"o1"}]}
    \cup {[kind |-> k, publishers |-> {}, owners |-> Owners] :
             k \in {Two("call", "call"), Two("rendezvous", "none")}}

Symmetry == Permutations(Calls)

VARIABLE part
snVars == <<part, serviceVars, relayVars>>

RelayAtRest ==
    RelayInit /\ registered = {} /\ caller = {}
              /\ routes = [o \in Owners |-> [s \in Sns |-> 0]]
              /\ request = [r \in Jobs |-> NewRequest(Two("rendezvous", "none")[r])]

SnInit ==
    \/ part = "rendezvous" /\ ServiceInit /\ RelayAtRest
    \/ part = "relay" /\ ServiceInit /\ RelayInit

RendezvousMoves == part = "rendezvous" /\ ServiceNext /\ UNCHANGED <<part, relayVars>>
RelayMoves == part = "relay" /\ RelayNext /\ UNCHANGED <<part, serviceVars>>

SnNext == RendezvousMoves \/ RelayMoves
SnSpec == SnInit /\ [][SnNext]_snVars
=============================================================================
