------------------------------- MODULE MCServing -------------------------------
(* The parts of a process that serve tunnels and share no state with each     *)
(* other in these models, for TLC: the relay server, the QUIC listener and    *)
(* its network, the TTP client, the delivery of incoming tunnels, and the     *)
(* purpose listeners. A behaviour is one of one of them; the others stay in   *)
(* their initial state.                                                       *)
(* Relay: a tunnel from u to v with its control connection and a business     *)
(* connection in each direction, and one from u to itself.                    *)
EXTENDS PnService, QuicListener, TtpClient, IncomingTunnels, PurposeListeners

CONSTANTS u, v

Req(kind_, tunnel, from, to) ==
  [kind |-> kind_, tunnel |-> tunnel, from |-> from, to |-> to]
MCRequest == <<Req("control", 1, u, v), Req("data", 1, u, v),
               Req("data", 1, v, u), Req("data", 2, u, u)>>
MCKeyOf == [t \in CacheTunnels |-> IF t = 2 THEN 2 ELSE 1]
MCEndpointsOf == [t \in Arrivals |-> IF t = 3 THEN 2 ELSE 1]

VARIABLE part   \* the part that moves

servingVars == <<part, pnServiceVars, quicListenerVars, ttpVars, incomingVars, purposeVars>>

ServingInit ==
  /\ part \in {"relay", "quic", "ttp", "incoming", "purpose"}
  /\ PnServiceInit /\ QuicListenerInit /\ TtpInit /\ IncomingInit /\ PurposeInit
  /\ part # "purpose" => kind = "stream"

RelayNext ==
  /\ part = "relay" /\ PnServiceNext
  /\ UNCHANGED <<part, quicListenerVars, ttpVars, incomingVars, purposeVars>>
QuicNext ==
  /\ part = "quic" /\ QuicListenerNext
  /\ UNCHANGED <<part, pnServiceVars, ttpVars, incomingVars, purposeVars>>
ClientNext ==
  /\ part = "ttp" /\ TtpNext
  /\ UNCHANGED <<part, pnServiceVars, quicListenerVars, incomingVars, purposeVars>>
ArrivalNext ==
  /\ part = "incoming" /\ IncomingNext
  /\ UNCHANGED <<part, pnServiceVars, quicListenerVars, ttpVars, purposeVars>>
ListenerNext ==
  /\ part = "purpose" /\ PurposeNext
  /\ UNCHANGED <<part, pnServiceVars, quicListenerVars, ttpVars, incomingVars>>

ServingNext == RelayNext \/ QuicNext \/ ClientNext \/ ArrivalNext \/ ListenerNext

\* The runtime keeps driving the relay's cleanup task, accept() and callbacks
ServingSpec ==
  /\ ServingInit /\ [][ServingNext]_servingVars
  /\ WF_pnServiceVars(part = "relay" /\ Cleanup)
  /\ PurposeFairness

\* AcceptReturns: an accept() whose listener is no longer registered returns. The
\* listen calls are interchangeable, so it is checked of the first.
FirstAcceptReturns == AcceptReturns(1)
=============================================================================
