------------------------------ MODULE PnTunnel ------------------------------
(***************************************************************************)
(* A proxy tunnel between two peers through a relay (PN) server:           *)
(* p2p-frame/src/pn/client/.  The active end A asks the relay for a        *)
(* control channel to the passive end P; once it is bridged, each end      *)
(* reads control commands and sends heartbeats on it, and either end opens *)
(* business channels (streams, datagrams) through the relay under the same *)
(* tunnel.  Each end counts its channels as queued, pending and active     *)
(* under one lock, and closes itself when the count stayed at zero for the *)
(* idle timeout.                                                           *)
(*                                                                         *)
(* The tunnel id is fresh for every tunnel, so one key of each end's       *)
(* registry is modelled.  The elapse of a timeout is a step that is        *)
(* enabled as long as the thing it waits for has not happened.             *)
(***************************************************************************)
EXTENDS Naturals, Sequences, FiniteSets

Ends == {"A", "P"}
Other(e) == IF e = "A" THEN "P" ELSE "A"

CONSTANTS Channels,   \* the business channels opened over the tunnel
          Openers,    \* the ends whose users open channels
          Listeners,  \* the ends whose users listen for channels
          MaxPings    \* bound on the heartbeats each end sends

ASSUME PnAssumption == /\ IsFiniteSet(Channels)
                       /\ Openers \subseteq Ends /\ Listeners \subseteq Ends
                       /\ MaxPings \in [Ends -> Nat]

VARIABLES step,       \* how far each end has built its tunnel
          life,       \* PnTunnelLifecycleState of each end
          reason,     \* why it closed
          closing,    \* how far its close has run
          timers,     \* generations of the sleeping idle checks
          registered, \* PnShared::tunnels still finds this tunnel
          write,      \* control_write holds the write half
          recv,       \* control_recv_loop is running
          beat,       \* control_heartbeat_loop: where it is, seq, pending ping
          ponged,     \* history: sequence numbers of the pongs received
          vports,     \* stream_vports is set
          callback,   \* stream_callback is set
          relay,      \* the relay's handling of the control channel
          answer,     \* what the relay told A
          pipe,       \* control commands on their way to each end
          chan        \* business channels

vars == <<step, life, reason, closing, timers, registered, write, recv, beat,
          ponged, vports, callback, relay, answer, pipe, chan>>

control == <<write, recv, beat, ponged>>
listen  == <<vports, callback>>
bridge  == <<relay, answer, pipe>>

Reasons == {"none", "IdleTimeout", "Manual", "RemoteControl", "ControlError",
            "HeartbeatTimeout"}
Commands == {"ping", "pong", "close", "eof"}

TypeOK ==
  /\ step \in [Ends -> {"none", "asking", "asked", "registered", "looping",
                        "ready", "done", "failed"}]
  /\ life \in [Ends -> [status : {"absent", "OpeningControl", "Open", "Retired",
                                  "Closing", "Closed"},
                        active : Nat, pending : Nat, queued : Nat,
                        zero : BOOLEAN, gen : Nat]]
  /\ reason \in [Ends -> Reasons]
  /\ closing \in [Ends -> {"no", "local", "control", "done"}]
  /\ timers \in [Ends -> SUBSET Nat]
  /\ registered \in [Ends -> BOOLEAN]
  /\ write \in [Ends -> BOOLEAN]
  /\ recv \in [Ends -> BOOLEAN]
  /\ beat \in [Ends -> [at : {"off", "sleep", "sent"},
                        seq : Nat, pend : Nat]]
  /\ ponged \in [Ends -> SUBSET Nat]
  /\ vports \in [Ends -> BOOLEAN]
  /\ callback \in [Ends -> BOOLEAN]
  /\ relay \in {"none", "requested", "forwarded", "answered", "bridged", "ended"}
  /\ answer \in {"none", "ok", "err"}
  /\ pipe \in [Ends -> Seq([cmd : Commands, seq : Nat])]
  /\ chan \in [Channels -> [from : Ends,
                            at : {"idle", "asking", "held", "done"},
                            peer : {"idle", "queued", "rejecting", "accepting",
                                    "securing", "leased", "held", "done"},
                            verdict : {"none", "ok", "err"}]]

-----------------------------------------------------------------------------
(* The lifecycle state of one end *)

NewLife(status) == [status |-> status, active |-> 0, pending |-> 0,
                    queued |-> 0, zero |-> FALSE, gen |-> 0]

is_open(l) == l.status = "Open"
total_channels(l) == l.active + l.pending + l.queued
Sub1(n) == IF n = 0 THEN 0 ELSE n - 1

refresh_idle_state(l) ==
  IF is_open(l) /\ (total_channels(l) = 0) # l.zero
    THEN [l EXCEPT !.zero = ~@, !.gen = @ + 1]
    ELSE l

Closed(e) == closing[e] # "no"
Exists(e) == life[e].status # "absent"
Alive(e)  == Exists(e) /\ ~Closed(e)

(* The lifecycle of e becomes the refreshed l; an idle check is scheduled    *)
(* when that starts a period without channels.                               *)
SetLife(e, l) ==
  LET n == refresh_idle_state(l) IN
  /\ life' = [life EXCEPT ![e] = n]
  /\ timers' = IF n.zero /\ ~l.zero
                 THEN [timers EXCEPT ![e] = @ \cup {n.gen}]
                 ELSE timers

\* Mutant: a pending use that ends after the close keeps its count
PendingLeakedOnClose(l) ==
  IF is_open(l) THEN [l EXCEPT !.pending = Sub1(@), !.active = @ + 1] ELSE l

begin_pending(l) == [l EXCEPT !.pending = @ + 1]
pending_to_active(l) ==
  [l EXCEPT !.pending = Sub1(@), !.active = IF is_open(l) THEN @ + 1 ELSE @]
release_pending(l) == [l EXCEPT !.pending = Sub1(@)]
queued_to_pending(l) == [l EXCEPT !.queued = Sub1(@), !.pending = @ + 1]
release_active(l) == [l EXCEPT !.active = Sub1(@)]

\* Mutant: the state is closed, and finish_close never runs
CloseUnfinished(e, why) ==
  /\ life' = [life EXCEPT ![e].status = "Closing", ![e].queued = 0,
                          ![e].zero = FALSE, ![e].gen = @ + 1]
  /\ reason' = [reason EXCEPT ![e] = why]
  /\ closing' = [closing EXCEPT ![e] = "done"]
  /\ callback' = [callback EXCEPT ![e] = FALSE]

(* close_lifecycle_locked: the first close decides; a later one does nothing. *)
close_lifecycle_locked(e, why) ==
  IF Closed(e)
    THEN UNCHANGED <<life, reason, closing, callback>>
    ELSE /\ life' = [life EXCEPT ![e].status = "Closing", ![e].queued = 0,
                                 ![e].zero = FALSE, ![e].gen = @ + 1]
         /\ reason' = [reason EXCEPT ![e] = why]
         /\ closing' = [closing EXCEPT ![e] = "local"]
         /\ callback' = [callback EXCEPT ![e] = FALSE]

(* One command written to the control stream of e arrives at the other end   *)
(* unless the relay has dropped the bridge; a closed end reads no more.       *)
Cmd(c, n) == [cmd |-> c, seq |-> n]
CanSend(e) == ~Closed(e) /\ write[e] /\ relay # "ended"
Sent(p, e, cmds) == IF relay = "ended" \/ Closed(Other(e)) THEN p
                    ELSE [p EXCEPT ![Other(e)] = @ \o cmds]

-----------------------------------------------------------------------------
Init ==
  /\ step = [e \in Ends |-> "none"]
  /\ life = [e \in Ends |-> NewLife("absent")]
  /\ reason = [e \in Ends |-> "none"]
  /\ closing = [e \in Ends |-> "no"]
  /\ timers = [e \in Ends |-> {}]
  /\ registered = [e \in Ends |-> FALSE]
  /\ write = [e \in Ends |-> FALSE]
  /\ recv = [e \in Ends |-> FALSE]
  /\ beat = [e \in Ends |-> [at |-> "off", seq |-> 0, pend |-> 0]]
  /\ ponged = [e \in Ends |-> {}]
  /\ vports = [e \in Ends |-> FALSE]
  /\ callback = [e \in Ends |-> FALSE]
  /\ relay = "none"
  /\ answer = "none"
  /\ pipe = [e \in Ends |-> <<>>]
  /\ chan = [c \in Channels |-> [from |-> "A", at |-> "idle", peer |-> "idle",
                                 verdict |-> "none"]]

-----------------------------------------------------------------------------
(* Opening the control channel *)

(* create_tunnel_via_relay_with_options up to the request on the wire. *)
CreateTunnel ==
  /\ step["A"] = "none"
  /\ step' = [step EXCEPT !["A"] = "asking"]
  /\ life' = [life EXCEPT !["A"] = NewLife("OpeningControl")]
  /\ relay' = "requested"
  /\ UNCHANGED <<reason, closing, timers, registered, control, listen, answer,
                 pipe, chan>>

(* handle_proxy_control_open_req: the target is validated and asked ...       *)
RelayForwards ==
  /\ relay = "requested"
  /\ relay' = "forwarded"
  /\ step' = [step EXCEPT !["P"] = "asked"]
  /\ UNCHANGED <<life, reason, closing, timers, registered, control, listen,
                 answer, pipe, chan>>

(* ... or A is told at once that it is not possible.                          *)
RelayRefuses ==
  /\ relay = "requested"
  /\ relay' = "ended"
  /\ answer' = "err"
  /\ UNCHANGED <<step, life, reason, closing, timers, registered, control,
                 listen, pipe, chan>>

(* P's answer is passed to A and the two streams are bridged.                 *)
RelayBridges ==
  /\ relay = "answered"
  /\ relay' = "bridged"
  /\ answer' = "ok"
  /\ UNCHANGED <<step, life, reason, closing, timers, registered, control,
                 listen, pipe, chan>>

(* P did not answer within PN_OPEN_TIMEOUT: its stream is dropped.            *)
RelayTimeout ==
  /\ relay = "forwarded"
  /\ relay' = "ended"
  /\ answer' = "err"
  /\ pipe' = [pipe EXCEPT !["P"] = <<Cmd("eof", 0)>>]
  /\ UNCHANGED <<step, life, reason, closing, timers, registered, control,
                 listen, chan>>

(* The bridge breaks: both ends read the end of the stream.                   *)
RelayBreaks ==
  /\ relay = "bridged"
  /\ relay' = "ended"
  /\ pipe' = [e \in Ends |-> <<Cmd("eof", 0)>>]
  /\ UNCHANGED <<step, life, reason, closing, timers, registered, control,
                 listen, answer, chan>>

(* register_control_tunnel_if_absent, after the relay said yes.               *)
ActiveRegisters ==
  /\ step["A"] = "asking"
  /\ answer = "ok"
  /\ registered' = [registered EXCEPT !["A"] = TRUE]
  /\ step' = [step EXCEPT !["A"] = "registered"]
  /\ UNCHANGED <<life, reason, closing, timers, control, listen, bridge, chan>>

(* The relay said no, or A stopped waiting: the tunnel is closed and its      *)
(* stream dropped, which P sees once the relay bridges.                       *)
ActiveFails ==
  /\ step["A"] = "asking"
  /\ close_lifecycle_locked("A", "Manual")
  /\ step' = [step EXCEPT !["A"] = "failed"]
  /\ pipe' = Sent(pipe, "A", <<Cmd("eof", 0)>>)
  /\ UNCHANGED <<timers, registered, control, vports, relay, answer, chan>>

(* register_passive_control_tunnel: P's listener read the request.            *)
PassiveRegisters ==
  /\ step["P"] = "asked"
  /\ life' = [life EXCEPT !["P"] = NewLife("OpeningControl")]
  /\ registered' = [registered EXCEPT !["P"] = TRUE]
  /\ step' = [step EXCEPT !["P"] = "registered"]
  /\ UNCHANGED <<reason, closing, timers, control, listen, bridge, chan>>

(* set_control_channel: the write half is stored and the loops start ...      *)
SetControl(e) ==
  /\ step[e] = "registered"
  /\ write' = [write EXCEPT ![e] = TRUE]
  /\ recv' = [recv EXCEPT ![e] = TRUE]
  /\ beat' = [beat EXCEPT ![e].at = "sleep"]
  /\ step' = [step EXCEPT ![e] = "looping"]
  /\ UNCHANGED <<life, reason, closing, timers, registered, ponged, listen,
                 bridge, chan>>

(* ... and only then the tunnel opens, unless a loop has closed it already.   *)
mark_control_ready(e) ==
  /\ step[e] = "looping"
  /\ step' = [step EXCEPT ![e] = IF e = "A" THEN "done" ELSE "ready"]
  /\ IF life[e].status = "OpeningControl"
       THEN SetLife(e, [life[e] EXCEPT !.status = "Open"])
       ELSE UNCHANGED <<life, timers>>
  /\ UNCHANGED <<reason, closing, registered, control, listen, bridge, chan>>

(* send_control_open_response; a failure closes the tunnel.                   *)
PassiveAnswers ==
  /\ step["P"] = "ready"
  /\ IF CanSend("P")
       THEN /\ relay' = "answered"
            /\ step' = [step EXCEPT !["P"] = "done"]
            /\ UNCHANGED <<life, reason, closing, callback>>
       ELSE /\ close_lifecycle_locked("P", "Manual")
            /\ step' = [step EXCEPT !["P"] = "failed"]
            /\ UNCHANGED relay
  /\ UNCHANGED <<timers, registered, control, vports, answer, pipe, chan>>

-----------------------------------------------------------------------------
(* Closing *)

(* finish_close_local: out of the registry. *)
FinishLocal(e) ==
  /\ closing[e] = "local"
  /\ registered' = [registered EXCEPT ![e] = FALSE]
  /\ life' = [life EXCEPT ![e].status = "Closed"]
  /\ closing' = [closing EXCEPT ![e] = "control"]
  /\ UNCHANGED <<step, reason, timers, control, listen, bridge, chan>>

(* close_control_channel: Close is sent unless the peer sent it first, then   *)
(* the write half is shut down.                                               *)
CloseControl(e) ==
  /\ closing[e] = "control"
  /\ write' = [write EXCEPT ![e] = FALSE]
  /\ pipe' = IF write[e]
               THEN Sent(pipe, e, IF reason[e] = "RemoteControl"
                                    THEN <<Cmd("eof", 0)>>
                                    ELSE <<Cmd("close", 0), Cmd("eof", 0)>>)
               ELSE pipe
  /\ closing' = [closing EXCEPT ![e] = "done"]
  /\ UNCHANGED <<step, life, reason, timers, registered, recv, beat, ponged,
                 listen, relay, answer, chan>>

(* Tunnel::close by the owner of the tunnel. *)
UserClose(e) ==
  /\ step[e] = "done"
  /\ life[e].status \in {"Open", "Retired"}
  /\ close_lifecycle_locked(e, "Manual")
  /\ UNCHANGED <<step, timers, registered, control, vports, bridge, chan>>

(* try_retire_idle by the tunnel manager, which closes what it retired. *)
Retire(e) ==
  /\ step[e] = "done"
  /\ is_open(life[e]) /\ total_channels(life[e]) = 0 /\ life[e].zero
  /\ life' = [life EXCEPT ![e].status = "Retired", ![e].zero = FALSE,
                          ![e].gen = @ + 1]
  /\ UNCHANGED <<step, reason, closing, timers, registered, control, listen,
                 bridge, chan>>

(* close_if_idle: the idle check of generation g wakes up. *)
close_if_idle(e, g) ==
  /\ g \in timers[e]
  /\ timers' = [timers EXCEPT ![e] = @ \ {g}]
  /\ IF /\ is_open(life[e]) /\ life[e].zero
        /\ life[e].gen = g /\ total_channels(life[e]) = 0
       THEN close_lifecycle_locked(e, "IdleTimeout")
       ELSE UNCHANGED <<life, reason, closing, callback>>
  /\ UNCHANGED <<step, registered, control, vports, bridge, chan>>

-----------------------------------------------------------------------------
(* The control loops *)

(* Both loops leave once the tunnel is closed. *)
Readable(e) == /\ recv[e] /\ ~Closed(e) /\ pipe[e] # <<>>
               /\ e = "P" => relay \in {"bridged", "ended"}

(* A ping is answered; the tunnel closes when that fails. *)
RecvPing(e) ==
  /\ Readable(e) /\ Head(pipe[e]).cmd = "ping"
  /\ LET rest == [pipe EXCEPT ![e] = Tail(@)] IN
     IF CanSend(e)
       THEN /\ pipe' = Sent(rest, e, <<Cmd("pong", Head(pipe[e]).seq)>>)
            /\ UNCHANGED <<life, reason, closing, callback, recv>>
       ELSE /\ pipe' = rest
            /\ close_lifecycle_locked(e, "ControlError")
            /\ recv' = [recv EXCEPT ![e] = FALSE]
  /\ UNCHANGED <<step, timers, registered, write, beat, ponged, vports, relay,
                 answer, chan>>

(* mark_control_pong clears the pending ping it answers. *)
RecvPong(e) ==
  /\ Readable(e) /\ Head(pipe[e]).cmd = "pong"
  /\ LET n == Head(pipe[e]).seq IN
     /\ beat' = [beat EXCEPT ![e].pend = IF @ = n THEN 0 ELSE @]
     /\ ponged' = [ponged EXCEPT ![e] = @ \cup {n}]
  /\ pipe' = [pipe EXCEPT ![e] = Tail(@)]
  /\ UNCHANGED <<step, life, reason, closing, timers, registered, write, recv,
                 listen, relay, answer, chan>>

(* Close, or the end of the stream, closes this end too. *)
RecvClose(e) ==
  /\ Readable(e) /\ Head(pipe[e]).cmd \in {"close", "eof"}
  /\ close_lifecycle_locked(e, IF Head(pipe[e]).cmd = "close"
                                 THEN "RemoteControl" ELSE "ControlError")
  /\ recv' = [recv EXCEPT ![e] = FALSE]
  /\ pipe' = [pipe EXCEPT ![e] = Tail(@)]
  /\ UNCHANGED <<step, timers, registered, write, beat, ponged, vports, relay,
                 answer, chan>>

(* No ping is out: one is sent; a failure to send closes the tunnel. *)
SendPing(e) ==
  /\ beat[e].at = "sleep" /\ ~Closed(e) /\ step[e] = "done"
  /\ beat[e].pend = 0 /\ beat[e].seq < MaxPings[e]
  /\ IF CanSend(e)
       THEN /\ beat' = [beat EXCEPT ![e].at = "sent", ![e].seq = @ + 1]
            /\ pipe' = Sent(pipe, e, <<Cmd("ping", beat[e].seq + 1)>>)
            /\ UNCHANGED <<life, reason, closing, callback>>
       ELSE /\ close_lifecycle_locked(e, "ControlError")
            /\ beat' = [beat EXCEPT ![e].at = "off"]
            /\ UNCHANGED pipe
  /\ UNCHANGED <<step, timers, registered, write, recv, ponged, vports, relay,
                 answer, chan>>

(* mark_control_ping_sent, after the write has finished. *)
MarkPingSent(e) ==
  /\ beat[e].at = "sent"
  /\ beat' = [beat EXCEPT ![e].at = "sleep", ![e].pend = beat[e].seq]
  /\ UNCHANGED <<step, life, reason, closing, timers, registered, write, recv,
                 ponged, listen, bridge, chan>>

(* The pending ping is older than the heartbeat timeout. *)
HeartbeatTimeout(e) ==
  /\ beat[e].at = "sleep" /\ ~Closed(e) /\ beat[e].pend # 0
  /\ close_lifecycle_locked(e, "HeartbeatTimeout")
  /\ beat' = [beat EXCEPT ![e].at = "off"]
  /\ UNCHANGED <<step, timers, registered, write, recv, ponged, vports, bridge,
                 chan>>

-----------------------------------------------------------------------------
(* Listening and business channels *)

(* listen_stream stores the ports ... *)
ListenPorts(e) ==
  /\ e \in Listeners
  /\ Alive(e) /\ life[e].status # "Retired" /\ ~vports[e]
  /\ vports' = [vports EXCEPT ![e] = TRUE]
  /\ UNCHANGED <<step, life, reason, closing, timers, registered, control,
                 callback, bridge, chan>>

(* ... and then the callback, under another lock. *)
ListenCallback(e) ==
  /\ vports[e] /\ ~callback[e] /\ ~Closed(e)
  /\ callback' = [callback EXCEPT ![e] = TRUE]
  /\ UNCHANGED <<step, life, reason, closing, timers, registered, control,
                 vports, bridge, chan>>

Peer(c) == Other(chan[c].from)
Move(c, e, l, ch) == SetLife(e, l) /\ chan' = [chan EXCEPT ![c] = ch]
Elsewhere == <<step, reason, closing, control, listen, bridge>>

(* open_stream or open_datagram at e: begin_pending_channel, then the request. *)
OpenChannel(c, e) ==
  /\ e \in Openers
  /\ chan[c].at = "idle" /\ step[e] = "done" /\ is_open(life[e])
  /\ Move(c, e, begin_pending(life[e]),
          [chan[c] EXCEPT !.from = e, !.at = "asking"])
  /\ UNCHANGED <<Elsewhere, registered>>

(* The request reaches the other end's listener: dispatch_passive_channel     *)
(* finds the tunnel and queues the channel, or refuses it.                    *)
Dispatch(c) ==
  LET e == Peer(c) IN
  /\ chan[c].at # "idle" /\ chan[c].peer = "idle"
  /\ IF registered[e] /\ is_open(life[e])
       THEN /\ Move(c, e, [life[e] EXCEPT !.queued = @ + 1],
                    [chan[c] EXCEPT !.peer = "queued"])
            /\ UNCHANGED registered
       ELSE /\ chan' = [chan EXCEPT ![c].peer = "done", ![c].verdict = "err"]
            /\ registered' = [registered EXCEPT ![e] = @ /\ ~Closed(e)]
            /\ UNCHANGED <<life, timers>>
  /\ UNCHANGED Elsewhere

(* accept_passive_channel up to queued_to_pending_channel: the wait for the   *)
(* first listen is over and the ports are looked up.                          *)
Accept(c) ==
  LET e == Peer(c) IN
  /\ chan[c].peer = "queued"
  /\ IF is_open(life[e])
       THEN Move(c, e, queued_to_pending(life[e]),
                 [chan[c] EXCEPT !.peer = IF vports[e] THEN "accepting"
                                          ELSE "rejecting"])
       ELSE /\ chan' = [chan EXCEPT ![c].peer = "done", ![c].verdict = "err"]
            /\ UNCHANGED <<life, timers>>
  /\ UNCHANGED <<Elsewhere, registered>>

(* The rejection is written and the pending channel dropped. *)
Reject(c) ==
  LET e == Peer(c) IN
  /\ chan[c].peer = "rejecting"
  /\ Move(c, e, release_pending(life[e]),
          [chan[c] EXCEPT !.peer = "done", !.verdict = "err"])
  /\ UNCHANGED <<Elsewhere, registered>>

(* Success is written; the channel is still pending. *)
Respond(c) ==
  /\ chan[c].peer = "accepting"
  /\ chan' = [chan EXCEPT ![c].peer = "securing", ![c].verdict = "ok"]
  /\ UNCHANGED <<Elsewhere, registered, life, timers>>

(* The opener has gone: the write or the TLS handshake fails. *)
PeerFails(c) ==
  LET e == Peer(c) IN
  /\ chan[c].peer \in {"accepting", "securing"} /\ chan[c].at = "done"
  /\ Move(c, e, release_pending(life[e]), [chan[c] EXCEPT !.peer = "done"])
  /\ UNCHANGED <<Elsewhere, registered>>

(* into_active: a lease, unless the tunnel closed meanwhile. *)
PeerActive(c) ==
  LET e == Peer(c) IN
  /\ chan[c].peer = "securing"
  /\ Move(c, e, pending_to_active(life[e]),
          [chan[c] EXCEPT !.peer = IF is_open(life[e]) THEN "leased" ELSE "done"])
  /\ UNCHANGED <<Elsewhere, registered>>

(* dispatch_passive_channel hands the channel to the callback, or drops it    *)
(* when the tunnel is closed or has none.                                     *)
HandOver(c) ==
  LET e == Peer(c) IN
  /\ chan[c].peer = "leased"
  /\ IF ~Closed(e) /\ callback[e]
       THEN /\ chan' = [chan EXCEPT ![c].peer = "held"]
            /\ UNCHANGED <<life, timers>>
       ELSE Move(c, e, release_active(life[e]), [chan[c] EXCEPT !.peer = "done"])
  /\ UNCHANGED <<Elsewhere, registered>>

(* The opener reads the answer. *)
Answered(c) ==
  LET e == chan[c].from IN
  /\ chan[c].at = "asking" /\ chan[c].verdict # "none"
  /\ IF chan[c].verdict = "ok"
       THEN Move(c, e, pending_to_active(life[e]),
                 [chan[c] EXCEPT !.at = IF is_open(life[e]) THEN "held" ELSE "done"])
       ELSE Move(c, e, release_pending(life[e]), [chan[c] EXCEPT !.at = "done"])
  /\ UNCHANGED <<Elsewhere, registered>>

(* PN_OPEN_TIMEOUT, a broken stream, or a caller that dropped the future. *)
OpenTimeout(c) ==
  LET e == chan[c].from IN
  /\ chan[c].at = "asking"
  /\ Move(c, e, release_pending(life[e]), [chan[c] EXCEPT !.at = "done"])
  /\ UNCHANGED <<Elsewhere, registered>>

(* The last handle of a channel is dropped: PnChannelLease::drop. *)
OpenerDrops(c) ==
  LET e == chan[c].from IN
  /\ chan[c].at = "held"
  /\ Move(c, e, release_active(life[e]), [chan[c] EXCEPT !.at = "done"])
  /\ UNCHANGED <<Elsewhere, registered>>
PeerDrops(c) ==
  LET e == Peer(c) IN
  /\ chan[c].peer = "held"
  /\ Move(c, e, release_active(life[e]), [chan[c] EXCEPT !.peer = "done"])
  /\ UNCHANGED <<Elsewhere, registered>>

-----------------------------------------------------------------------------
Setup == \/ CreateTunnel \/ RelayForwards \/ RelayRefuses \/ RelayBridges
         \/ RelayTimeout \/ ActiveRegisters \/ ActiveFails
         \/ PassiveRegisters \/ PassiveAnswers
         \/ \E e \in Ends : SetControl(e) \/ mark_control_ready(e)

EndStep(e) ==
  \/ FinishLocal(e) \/ CloseControl(e) \/ UserClose(e) \/ Retire(e)
  \/ \E g \in timers[e] : close_if_idle(e, g)
  \/ RecvPing(e) \/ RecvPong(e) \/ RecvClose(e)
  \/ SendPing(e) \/ MarkPingSent(e) \/ HeartbeatTimeout(e)
  \/ ListenPorts(e) \/ ListenCallback(e)

ChannelStep(c) ==
  \/ \E e \in Ends : OpenChannel(c, e)
  \/ Dispatch(c) \/ Accept(c) \/ Reject(c) \/ Respond(c) \/ PeerFails(c)
  \/ PeerActive(c) \/ HandOver(c) \/ Answered(c) \/ OpenTimeout(c)
  \/ OpenerDrops(c) \/ PeerDrops(c)

Next == \/ Setup \/ RelayBreaks
        \/ \E e \in Ends : EndStep(e)
        \/ \E c \in Channels : ChannelStep(c)

(* What the runtime drives to completion once it can: the setup (each wait   *)
(* has PN_OPEN_TIMEOUT), the tasks of a close, the two control loops, the     *)
(* idle checks, the task of an accepted channel and the answer or timeout of  *)
(* an open.  The manager closes the tunnels it retired.  Opening, listening,  *)
(* dropping a handle and closing are the user's choice; a bridge need not     *)
(* break and a heartbeat need not time out.                                   *)
Fairness ==
  /\ WF_vars(Setup)
  /\ \A e \in Ends :
       /\ WF_vars(FinishLocal(e)) /\ WF_vars(CloseControl(e))
       /\ WF_vars(RecvPing(e) \/ RecvPong(e) \/ RecvClose(e))
       /\ WF_vars(\E g \in timers[e] : close_if_idle(e, g))
       /\ WF_vars(life[e].status = "Retired" /\ UserClose(e))
  /\ \A c \in Channels :
       /\ WF_vars(Accept(c) \/ Reject(c) \/ Respond(c) \/ PeerActive(c) \/ HandOver(c))
       /\ WF_vars(Answered(c) \/ OpenTimeout(c))

Spec == Init /\ [][Next]_vars /\ Fairness

-----------------------------------------------------------------------------
(* Properties *)

Count(S) == Cardinality(S)
Asking(e)  == {c \in Channels : chan[c].at = "asking" /\ chan[c].from = e}
Held(e)    == {c \in Channels : chan[c].at = "held" /\ chan[c].from = e}
PeerAt(e, S) == {c \in Channels : chan[c].peer \in S /\ Peer(c) = e}

InUse(e) == \/ Asking(e) # {} \/ Held(e) # {}
            \/ PeerAt(e, {"queued", "rejecting", "accepting", "securing",
                          "leased", "held"}) # {}

(* The three counters of an end are the guards, leases and queued tasks that  *)
(* exist: no path through a failure, a timeout or a close forgets one or      *)
(* releases it twice, so the debug_assert on the pending count never fires.   *)
(* (A close forgets the queued tasks at once; each of them ends by itself.)   *)
(* So an open end runs its idle clock exactly while no channel exists there,  *)
(* with an idle check of the current generation asleep: no channel is cut by  *)
(* an idle close, and no idle period is missed.                               *)
CountsExact ==
  \A e \in Ends :
    /\ life[e].pending = Count(Asking(e))
                           + Count(PeerAt(e, {"rejecting", "accepting", "securing"}))
    /\ life[e].active = Count(Held(e)) + Count(PeerAt(e, {"leased", "held"}))
    /\ life[e].queued = IF Closed(e) THEN 0 ELSE Count(PeerAt(e, {"queued"}))
    /\ is_open(life[e]) => /\ life[e].zero <=> ~InUse(e)
                           /\ life[e].zero => life[e].gen \in timers[e]

(* An end whose peer has closed closes too: whoever closes, and however far   *)
(* the other had come, nobody is left with half a tunnel.                     *)
CloseSpreads ==
  \A e \in Ends : (Closed(e) /\ Alive(Other(e))) ~> ~Alive(Other(e))

(* A ping whose pong was received is not pending: the heartbeat timeout       *)
(* closes a tunnel only when the peer failed to answer.                       *)
AnsweredNotPending == \A e \in Ends : beat[e].pend \notin ponged[e]
=============================================================================
