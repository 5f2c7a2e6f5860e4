----------------------------- MODULE TcpListener -----------------------------
(* How a TCP tunnel comes in (networks/tcp/network.rs, listener.rs): the      *)
(* listeners of a network, the control connections they accept, the verdict   *)
(* of the net manager and the tunnel manager, and the registry in which a     *)
(* data connection finds its tunnel.                                          *)
(*                                                                            *)
(* All control connections carry one key (peers, tunnel id, candidate id), as *)
(* when a peer dials a candidate again: the registry and the manager's table  *)
(* then have one slot each to argue about. A connection and the tunnel made   *)
(* of it have the same name. What a tunnel does with a data connection is     *)
(* TcpDataConn's; addresses, certificates and ids are left out.               *)
EXTENDS Naturals, FiniteSets

CONSTANTS
  Ports,       \* endpoints the network may listen on
  Controls,    \* control connections the peer dials
  DataConns,   \* data connections the peer dials
  NoTunnel

ASSUME ListenerAssumption == NoTunnel \notin Controls

VARIABLES
  port,       \* port[l]: the listener there
  listed,     \* network.listeners
  dialled,    \* dialled[c]: the dialling end's progress ...
  via,        \* ... and the listener it reached
  handling,   \* handling[c]: where handle_accepted_stream is
  alive,      \* tunnels of this end that are not closed
  verdict,    \* tunnels the acceptance callback returned Accepted for
  waiting,    \* a reverse waiter for the key is registered
  reverse,    \* the peer's dials answer a reverse call
  entry,      \* the tunnel manager's table entry for the key ...
  published,  \* ... and its published flag
  registry,   \* TcpTunnelRegistry.by_tunnel[key]
  data        \* data[d]: the tunnel a data connection was handed to

listenerVars == <<port, listed, dialled, via, handling, alive, verdict, waiting,
                  reverse, entry, published, registry, data>>

managerTable == <<waiting, reverse, entry, published>>

ListenerInit ==
  /\ port = [l \in Ports |-> "off"]
  /\ listed = {}
  /\ dialled = [c \in Controls |-> "idle"]
  /\ via \in [Controls -> Ports]
  /\ handling = [c \in Controls |-> "none"]
  /\ alive = {} /\ verdict = {}
  /\ reverse \in BOOLEAN /\ waiting = reverse
  /\ entry = NoTunnel /\ published = FALSE
  /\ registry = NoTunnel
  /\ data = [d \in DataConns |-> "idle"]

-----------------------------------------------------------------------------
(* Listeners *)

\* TcpTunnelListener::start; the server accepts before listen lists it
Start(l) ==
  /\ port[l] = "off"
  /\ port' \in {[port EXCEPT ![l] = "serving"], [port EXCEPT ![l] = "failed"]}
  /\ UNCHANGED <<listed, dialled, via, handling, alive, verdict, managerTable, registry, data>>

List(l) ==
  /\ port[l] = "serving" /\ l \notin listed
  /\ listed' = listed \cup {l}
  /\ UNCHANGED <<port, dialled, via, handling, alive, verdict, managerTable, registry, data>>

\* close_all_listener; a listener between its start and its listing is missed
CloseAll ==
  /\ listed # {}
  /\ listed' = {}
  /\ port' = [l \in Ports |-> IF l \in listed THEN "closed" ELSE port[l]]
  /\ UNCHANGED <<dialled, via, handling, alive, verdict, managerTable, registry, data>>

-----------------------------------------------------------------------------
(* The dialling end *)

Connect(c) ==
  /\ dialled[c] = "idle" /\ port[via[c]] = "serving"
  /\ dialled' = [dialled EXCEPT ![c] = "waiting"]
  /\ handling' = [handling EXCEPT ![c] = "accepting"]
  /\ UNCHANGED <<port, listed, via, alive, verdict, managerTable, registry, data>>

\* connect_with_optional_local fails, or no ControlConnReady arrives in time;
\* what the other end has made of the connection ends by itself
ConnectFails(c) ==
  /\ dialled[c] \in {"idle", "waiting"}
  /\ dialled' = [dialled EXCEPT ![c] = "failed"]
  /\ UNCHANGED <<port, listed, via, handling, alive, verdict, managerTable, registry, data>>

\* open_tunnel_inner reads the Success; from now on it dials data connections
ReadReady(c) ==
  /\ dialled[c] = "waiting" /\ handling[c] \notin {"accepting", "refused"}
  /\ dialled' = [dialled EXCEPT ![c] = "up"]
  /\ UNCHANGED <<port, listed, via, handling, alive, verdict, managerTable, registry, data>>

-----------------------------------------------------------------------------
(* handle_accepted_stream for a control connection *)

Goes(c, step) == handling' = [handling EXCEPT ![c] = step]

\* accept_connection fails: the handshake, the hello or a certificate
Refuse(c) ==
  /\ handling[c] = "accepting"
  /\ Goes(c, "refused")
  /\ UNCHANGED <<port, listed, dialled, via, alive, verdict, managerTable, registry, data>>

\* on_control_connection refuses: no identity, a hello with data fields, or a
\* ready frame that cannot be written; the callback is told of an error at most
RefuseHello(c) ==
  /\ handling[c] = "accepting"
  /\ Goes(c, "refused")
  /\ UNCHANGED <<port, listed, dialled, via, alive, verdict, managerTable, registry, data>>

\* Mutant: the registry has the tunnel before anybody accepted it
RegisterFirst(c) ==
  /\ handling[c] = "accepting"
  /\ Goes(c, "deliver")
  /\ alive' = alive \cup {c}
  /\ registry' = c
  /\ UNCHANGED <<port, listed, dialled, via, verdict, managerTable, data>>

\* accept_control_connection writes the Success and makes the tunnel
AcceptControl(c) ==
  /\ handling[c] = "accepting"
  /\ Goes(c, "deliver")
  /\ alive' = alive \cup {c}
  /\ UNCHANGED <<port, listed, dialled, via, verdict, managerTable, registry, data>>

\* The callback's verdict is Rejected: whoever says so has closed the tunnel
Reject(c) ==
  /\ Goes(c, "done")
  /\ alive' = alive \ {c}
  /\ UNCHANGED <<port, listed, dialled, via, verdict, registry, data>>

\* deliver_incoming of a listener that was closed in the meantime
DeliverClosed(c) ==
  /\ handling[c] = "deliver"
  /\ port[via[c]] = "closed"
  /\ Reject(c) /\ UNCHANGED managerTable

\* The validator's verdict, or no subscriber
Dispatch(c) ==
  /\ handling[c] = "deliver"
  /\ \/ Reject(c)
     \/ Goes(c, "incoming") /\ UNCHANGED <<port, listed, dialled, via, alive, verdict, registry, data>>
  /\ UNCHANGED managerTable

Accept(c) ==
  /\ Goes(c, "accepted")
  /\ verdict' = verdict \cup {c}
  /\ UNCHANGED <<port, listed, dialled, via, alive, registry, data>>

\* on_incoming_tunnel: a waiter takes a reverse tunnel, and without one it is closed
TakeReverse(c) ==
  /\ handling[c] = "incoming" /\ reverse
  /\ IF waiting THEN Accept(c) ELSE Reject(c)
  /\ waiting' = FALSE
  /\ UNCHANGED <<reverse, entry, published>>

\* Mutant: the later tunnel takes the entry of the key
TakesAnyway(c) == TRUE

\* register_tunnel finds no usable tunnel with the same ids
NoDuplicate(c) == entry \notin alive

RegisterControl(c) ==
  /\ handling[c] = "incoming" /\ ~reverse
  /\ \/ /\ NoDuplicate(c)
        /\ entry' = c /\ published' = FALSE
        /\ Goes(c, "publish")
        /\ UNCHANGED <<port, listed, dialled, via, alive, verdict, registry, data>>
     \/ ~NoDuplicate(c) /\ Reject(c) /\ UNCHANGED <<entry, published>>
  /\ UNCHANGED <<waiting, reverse>>

\* publish_registered_tunnel looks for an entry with the tunnel's ids, whosever it is
PublishControl(c) ==
  /\ handling[c] = "publish"
  /\ IF entry = NoTunnel
     THEN Reject(c) /\ UNCHANGED published
     ELSE Accept(c) /\ published' = TRUE
  /\ UNCHANGED <<waiting, reverse, entry>>

\* Accepted, the listener open and the tunnel alive; the commit is a step of its own
CheckCommit(c) ==
  /\ handling[c] = "accepted"
  /\ Goes(c, IF port[via[c]] # "closed" /\ c \in alive THEN "commit" ELSE "done")
  /\ UNCHANGED <<port, listed, dialled, via, alive, verdict, managerTable, registry, data>>

Commit(c) ==
  /\ handling[c] = "commit"
  /\ registry' = c
  /\ Goes(c, "done")
  /\ UNCHANGED <<port, listed, dialled, via, alive, verdict, managerTable, data>>

-----------------------------------------------------------------------------
(* The end of tunnels *)

\* The control connection breaks, or an end closes the tunnel
TunnelEnds(c) ==
  /\ c \in alive
  /\ alive' = alive \ {c}
  /\ UNCHANGED <<port, listed, dialled, via, handling, verdict, managerTable, registry, data>>

\* The manager's cleanup drops an entry that is unusable, or idle and then closed
CleanupTable ==
  /\ entry # NoTunnel
  /\ entry' = NoTunnel /\ published' = FALSE
  /\ alive' = alive \ {entry}
  /\ UNCHANGED <<port, listed, dialled, via, handling, verdict, waiting, reverse, registry, data>>

Kept == IF registry \in alive THEN registry ELSE NoTunnel

\* The registry's cleanup task
CleanupStale ==
  /\ registry' = Kept
  /\ UNCHANGED <<port, listed, dialled, via, handling, alive, verdict, managerTable, data>>

-----------------------------------------------------------------------------
(* Data connections: find_tunnel, and TunnelNotFound without one *)

DataConnection(d, c) ==
  /\ dialled[c] = "up" /\ port[via[c]] = "serving" /\ data[d] = "idle"
  /\ data' = [data EXCEPT ![d] = IF Kept = NoTunnel THEN "refused" ELSE Kept]
  /\ registry' = Kept
  /\ UNCHANGED <<port, listed, dialled, via, handling, alive, verdict, managerTable>>

ControlStep(c) ==
  \/ Connect(c) \/ ConnectFails(c) \/ ReadReady(c) \/ Refuse(c) \/ RefuseHello(c)
  \/ AcceptControl(c) \/ DeliverClosed(c)
  \/ Dispatch(c) \/ TakeReverse(c) \/ RegisterControl(c) \/ PublishControl(c)
  \/ CheckCommit(c) \/ Commit(c) \/ TunnelEnds(c)

ListenerNext ==
  \/ \E l \in Ports : Start(l) \/ List(l)
  \/ CloseAll \/ CleanupTable \/ CleanupStale
  \/ \E c \in Controls : ControlStep(c)
  \/ \E d \in DataConns, c \in Controls : DataConnection(d, c)

ListenerSpec == ListenerInit /\ [][ListenerNext]_listenerVars

-----------------------------------------------------------------------------
(* Properties *)

\* A tunnel the managers did not accept is never found: the registry has no
\* tunnel before Accepted came back for it, no data connection is handed to one,
\* and one that was refused, by whomever, is closed
UnacceptedIsUnreachable ==
  /\ registry \in verdict \cup {NoTunnel}
  /\ \A d \in DataConns : data[d] \in verdict \cup {"idle", "refused"}
  /\ \A c \in Controls : handling[c] = "done" /\ c \notin verdict => c \notin alive

\* A duplicate does not take the mapping of a live tunnel, whatever order the
\* accepts, refusals, cleanups and commits come in. (What can take it is the
\* late commit of a tunnel that died between its last check and the commit.)
MappingKept ==
  [][registry' # registry /\ registry \in alive \cap alive'
       => registry' \in Controls \ alive']_listenerVars
=============================================================================
