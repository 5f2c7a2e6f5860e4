-------------------------- MODULE MCTunnelProgress --------------------------
(* Two liveness questions, for TLC: a peer reached through a proxy while its   *)
(* upgrades come and go, or the data connections of one TCP tunnel from the    *)
(* request to the first claim. The two share no state, so a behaviour is one   *)
(* of the tunnel manager or one of the TCP tunnel.                             *)
EXTENDS TunnelManager, TcpDataConn

VARIABLE part

progressVars == <<managerVars, vars, part>>

ProgressInit == part \in {"manager", "data"} /\ ManagerInit /\ Init

Manager(A) == part = "manager" /\ A /\ UNCHANGED <<vars, part>>
Data(A) == part = "data" /\ A /\ UNCHANGED <<managerVars, part>>

ProgressNext == Manager(ManagerNext) \/ Data(Next)

\* ManagerFairness and Fairness, each of the part that moves
ProgressFairness ==
  /\ \A k \in Task : WF_progressVars(Manager(TaskStep(k)))
  /\ \A t \in Tunnel : /\ WF_progressVars(Manager(IncomingRegister(t)))
                        /\ WF_progressVars(Manager(IncomingPublish(t)))
  /\ WF_progressVars(Manager(Cleanup({}))) /\ WF_progressVars(Manager(LoopCompute))
  /\ WF_progressVars(Manager(Due)) /\ SF_progressVars(Manager(ProcessUpgrades))
  /\ \A c \in Conn :
       /\ WF_progressVars(Data(Accepting(c))) /\ WF_progressVars(Data(Creating(c)))
       /\ WF_progressVars(Data(SendRequest(c))) /\ WF_progressVars(Data(Consume(c)))
       /\ WF_progressVars(Data(Claim(c)))
  /\ \A c \in Conn, e \in End2 : WF_progressVars(Data(FirstClaimTimeout(c, e)))
  /\ \A e \in End2 : /\ WF_progressVars(Data(Receive(e)))
                      /\ WF_progressVars(Data(Close(e) /\ ~up))

ProgressSpec == ProgressInit /\ [][ProgressNext]_progressVars /\ ProgressFairness
=============================================================================
