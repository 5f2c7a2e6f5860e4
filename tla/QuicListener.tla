------------------------------ MODULE QuicListener ------------------------------
(* The QUIC listeners of a process and the calls that use their sockets        *)
(* (networks/quic/listener.rs, networks/quic/network.rs): start and close with *)
(* the worker endpoints that register meanwhile, NAT probing, connecting with  *)
(* retries, and the UDP punch burst beside it. Listeners are numbered by their *)
(* socket_binding_generation; all are of one IP version.                       *)
EXTENDS PunchSchedule, Sequences, FiniteSets

CONSTANTS
  Listeners,     \* generations of the listeners a run may create
  Workers,       \* workers of a listener's QuicServer
  Tokens,        \* NAT probe tokens
  Owners,        \* identities of waiter registrations (the Arc<()> pointers)
  Signers,       \* certificates of the probed servers
  Targets,       \* number of probe targets
  PunchOnlyTime  \* max_duration of a punch-only burst

VARIABLES
  lst,         \* listener -> its start() position, closed flag and QuicTunnelListenerState
  worker,      \* listener -> worker -> position of run_worker_endpoint
  listed,      \* QuicTunnelNetwork.listeners
  closing,     \* what close_all_listener has still to close
  waiters,     \* listener -> NatProbeResponseWaiters.pending
  wire,        \* probe responses on their way
  checking,    \* dispatch calls between their two lock regions
  probe,       \* the NAT probe in progress
  dial         \* the connect or punch-only call in progress

listenerVars == <<lst, worker, listed, closing>>
probeVars == <<waiters, wire, checking, probe>>
quicListenerVars == <<listenerVars, probeVars, dial>>

NoProbe == [pc |-> "off", l |-> None, i |-> 0, owner |-> None, token |-> None,
            signer |-> None, got |-> "none", by |-> None]
NoDial == [pc |-> "off", rest |-> <<>>, l |-> None, punch |-> FALSE, offset |-> None, max |-> 0,
           burst |-> "off", w |-> None, until |-> 0, elapsed |-> 0]

\* QuicTunnelListener::new
NewListener == [pc |-> "new", closed |-> FALSE, server |-> FALSE, endpoints |-> {},
                punch |-> FALSE, open |-> {}]

QuicListenerInit ==
  /\ lst = [l \in Listeners |-> NewListener]
  /\ worker = [l \in Listeners |-> [w \in Workers |-> "off"]]
  /\ listed = <<>> /\ closing = <<>>
  /\ waiters = [l \in Listeners |-> {}]
  /\ wire = {} /\ checking = {}
  /\ probe = NoProbe /\ dial = NoDial

Position(l, pc) == lst' = [lst EXCEPT ![l].pc = pc]
WorkerAt(l, w, pc) == worker' = [worker EXCEPT ![l][w] = pc]

\* ensure_worker_endpoints_available
Usable(l) == ~lst[l].closed /\ lst[l].endpoints # {}

----------------------------------------------------------------------------
(* Starting and closing                                                     *)

\* QuicTunnelNetwork::listen: bind, then start() up to serve_socket, which
\* starts the workers; a bind error leaves nothing
ServeListener(l) ==
  /\ lst[l].pc = "new" /\ \A k \in Listeners : k < l => lst[k].pc # "new"
  /\ \/ /\ Position(l, "serving")
        /\ worker' = [worker EXCEPT ![l] = [w \in Workers |-> "starting"]]
     \/ Position(l, "failed") /\ UNCHANGED worker
  /\ UNCHANGED <<listed, closing, probeVars, dial>>

StoreServer(l) ==
  /\ lst[l].pc = "serving"
  /\ lst' = [lst EXCEPT ![l].pc = "readying", ![l].server = TRUE]
  /\ UNCHANGED <<worker, listed, closing, probeVars, dial>>

\* wait_quic_endpoint_ready: a notification missed before it is awaited is made
\* good by the look at the endpoints after the timeout
EndpointReady(l) ==
  /\ lst[l].pc = "readying" /\ lst[l].endpoints # {}
  /\ Position(l, "started")
  /\ UNCHANGED <<worker, listed, closing, probeVars, dial>>

EndpointNotReady(l) ==
  /\ lst[l].pc = "readying" /\ lst[l].endpoints = {}
  /\ Position(l, "undoing")
  /\ UNCHANGED <<worker, listed, closing, probeVars, dial>>

\* The state taken by a failed start() or by close(), its endpoints closed
Emptied(s) == [s EXCEPT !.server = FALSE, !.punch = FALSE, !.endpoints = {},
                        !.open = @ \ s.endpoints]

UndoStart(l) ==
  /\ lst[l].pc = "undoing"
  /\ lst' = [lst EXCEPT ![l] = [Emptied(@) EXCEPT !.pc = "failed"]]
  /\ UNCHANGED <<worker, listed, closing, probeVars, dial>>

\* The listener goes into the network's list once start() has returned
ListListener(l) ==
  /\ lst[l].pc = "started"
  /\ Position(l, "listed") /\ listed' = Append(listed, l)
  /\ UNCHANGED <<worker, closing, probeVars, dial>>

\* close_all_listener takes the list, then closes one listener after the other
CloseAllListeners ==
  /\ closing = <<>> /\ listed # <<>>
  /\ closing' = listed /\ listed' = <<>>
  /\ UNCHANGED <<lst, worker, probeVars, dial>>

\* close(): the flag and its notification, the waiters, then the state
SetClosed ==
  /\ closing # <<>>
  /\ LET l == Head(closing)
     IN lst[l].pc = "listed" /\ lst' = [lst EXCEPT ![l].closed = TRUE, ![l].pc = "closing"]
  /\ UNCHANGED <<worker, listed, closing, probeVars, dial>>

\* Dropping a waiter drops its sender: the probe that waits for it is woken
ClearWaiters ==
  /\ closing # <<>>
  /\ LET l == Head(closing)
     IN /\ lst[l].pc = "closing" /\ Position(l, "cleared")
        /\ probe' = IF \E e \in waiters[l] : e.owner = probe.owner
                    THEN [probe EXCEPT !.got = "closed"] ELSE probe
        /\ waiters' = [waiters EXCEPT ![l] = {}]
  /\ UNCHANGED <<worker, listed, closing, wire, checking, dial>>

TakeState ==
  /\ closing # <<>>
  /\ LET l == Head(closing)
     IN lst[l].pc = "cleared" /\ lst' = [lst EXCEPT ![l] = [Emptied(@) EXCEPT !.pc = "closed"]]
  /\ closing' = Tail(closing)
  /\ UNCHANGED <<worker, listed, probeVars, dial>>

----------------------------------------------------------------------------
(* A worker of a listener                                                   *)

\* run_worker_endpoint, up to the endpoint it creates
BuildEndpoint(l, w) ==
  /\ worker[l][w] = "starting"
  /\ WorkerAt(l, w, IF lst[l].closed THEN "ended" ELSE "built")
  /\ UNCHANGED <<lst, listed, closing, probeVars, dial>>

\* register_worker_endpoint reads the flag before it takes the lock
CheckOpen(l, w) ==
  /\ worker[l][w] = "built"
  /\ WorkerAt(l, w, IF lst[l].closed THEN "ended" ELSE "checked")
  /\ UNCHANGED <<lst, listed, closing, probeVars, dial>>

RegisterWorkerEndpoint(l, w) ==
  /\ worker[l][w] = "checked"
  /\ lst' = [lst EXCEPT ![l].punch = TRUE, ![l].endpoints = @ \cup {w}, ![l].open = @ \cup {w}]
  /\ WorkerAt(l, w, "accepting")
  /\ UNCHANGED <<listed, closing, probeVars, dial>>

\* wait_quic_endpoint_loop ends with its endpoint
AcceptLoopEnds(l, w) ==
  /\ worker[l][w] = "accepting" /\ w \notin lst[l].open
  /\ WorkerAt(l, w, "ended")
  /\ UNCHANGED <<lst, listed, closing, probeVars, dial>>

----------------------------------------------------------------------------
(* NAT probing                                                              *)

\* One call uses the sockets at a time
NoCall == probe.pc = "off" /\ dial.pc = "off"

\* Connecting does not look at probe responses: none is left when it begins
Quiet == NoCall /\ wire = {} /\ checking = {}

\* The registration dropped with the receiver removes its own waiter only
DropRegistration == waiters' = [waiters EXCEPT ![probe.l] = {e \in @ : e.owner # probe.owner}]

EndProbe == probe' = NoProbe /\ DropRegistration

\* probe_nat_profile and predict_traversal_endpoints probe from the first listener
BeginProbe ==
  /\ NoCall /\ listed # <<>>
  /\ \E s \in Signers : probe' = [NoProbe EXCEPT !.pc = "begin", !.l = Head(listed), !.signer = s]
  /\ UNCHANGED <<listenerVars, waiters, wire, checking, dial>>

TakePunchSocket ==
  /\ probe.pc = "begin"
  /\ probe' = IF Usable(probe.l) /\ lst[probe.l].punch THEN [probe EXCEPT !.pc = "next"] ELSE NoProbe
  /\ UNCHANGED <<listenerVars, waiters, wire, checking, dial>>

OwnersInUse == {e.owner : e \in (UNION {waiters[l] : l \in Listeners}) \cup checking}

\* The next target: a waiter is registered and the request sent; the response,
\* signed by the probed server, may be lost
ProbeTarget ==
  /\ probe.pc = "next" /\ probe.i < Targets
  /\ IF lst[probe.l].closed THEN probe' = NoProbe /\ UNCHANGED <<waiters, wire>>
     ELSE \E t \in Tokens, o \in Owners \ OwnersInUse, answered \in BOOLEAN :
       IF \E e \in waiters[probe.l] : e.token = t
       THEN probe' = NoProbe /\ UNCHANGED <<waiters, wire>>
       ELSE /\ waiters' = [waiters EXCEPT ![probe.l] = @ \cup
                 {[token |-> t, owner |-> o, source |-> probe.i, signer |-> probe.signer]}]
            /\ probe' = [probe EXCEPT !.pc = "wait", !.token = t, !.owner = o,
                                      !.got = "none", !.by = None]
            /\ wire' = IF answered
                       THEN wire \cup {[l |-> probe.l, token |-> t, source |-> probe.i,
                                        signer |-> probe.signer]}
                       ELSE wire
  /\ UNCHANGED <<listenerVars, checking, dial>>

\* NatProbeResponseWaiters::dispatch, first lock region and the verification;
\* a response nobody waits for, from elsewhere or not verified is dropped
DispatchResponse(r) ==
  /\ wire' = wire \ {r}
  /\ checking' = checking \cup
       {[l |-> r.l, token |-> r.token, owner |-> e.owner, signer |-> r.signer] :
          e \in {e \in waiters[r.l] : e.token = r.token /\ e.source = r.source
                                                        /\ e.signer = r.signer}}
  /\ UNCHANGED <<listenerVars, waiters, probe, dial>>

\* Mutant: whoever waits for the token now gets the response
OwnedWaiterByToken(c) == {e \in waiters[c.l] : e.token = c.token}

OwnedWaiter(c) == {e \in waiters[c.l] : e.token = c.token /\ e.owner = c.owner}

\* dispatch, second lock region: the waiter must still be the verified one
DeliverResponse(c) ==
  /\ checking' = checking \ {c}
  /\ waiters' = [waiters EXCEPT ![c.l] = @ \ OwnedWaiter(c)]
  /\ probe' = IF \E e \in OwnedWaiter(c) : e.owner = probe.owner
              THEN [probe EXCEPT !.got = "answer", !.by = c.signer] ELSE probe
  /\ UNCHANGED <<listenerVars, wire, dial>>

TakeResponse ==
  /\ probe.pc = "wait" /\ probe.got # "none"
  /\ IF probe.got = "answer"
     THEN /\ probe' = [probe EXCEPT !.pc = "next", !.i = @ + 1, !.owner = None,
                                    !.token = None, !.got = "none", !.by = None]
          /\ DropRegistration
     ELSE EndProbe
  /\ UNCHANGED <<listenerVars, wire, checking, dial>>

\* The timeout for a target, a failed send, or the caller dropping the probe
GiveUpProbe ==
  /\ probe.pc # "off" /\ probe.got = "none"
  /\ EndProbe
  /\ UNCHANGED <<listenerVars, wire, checking, dial>>

\* All targets have answered: the observations go to the caller unless the
\* listener was closed meanwhile
PredictTraversal ==
  /\ probe.pc = "next" /\ probe.i = Targets
  /\ probe' = NoProbe
  /\ UNCHANGED <<listenerVars, waiters, wire, checking, dial>>

----------------------------------------------------------------------------
(* Connecting and punching                                                  *)

\* create_tunnel_with_intent tries every listener, create_tunnel_with_local_ep
\* the one named; with none the client endpoint is used, which has no part here
BeginDial ==
  /\ Quiet /\ listed # <<>>
  /\ \E punch \in BOOLEAN, rest \in {listed} \cup {<<listed[i]>> : i \in DOMAIN listed} :
       dial' = [NoDial EXCEPT !.pc = "next", !.rest = rest, !.punch = punch]
  /\ UNCHANGED <<listenerVars, probeVars>>

\* run_udp_punch_burst up to its loop: where the burst begins
Burst(l, reverse, max) ==
  IF StartOffset(reverse) > max \/ ~lst[l].punch THEN "off" ELSE "wait"

\* open_or_connect on the next listener; one with no bound address is skipped
OpenOrConnect ==
  /\ dial.pc = "next"
  /\ IF dial.rest = <<>> THEN dial' = NoDial
     ELSE LET l == Head(dial.rest)
              max == ConnectTimeout(dial.punch)
          IN IF ~Usable(l) THEN dial' = [dial EXCEPT !.rest = Tail(@)]
             ELSE \E reverse \in BOOLEAN :
               dial' = [dial EXCEPT !.pc = "loop", !.rest = Tail(@), !.l = l, !.max = max,
                          !.offset = StartOffset(reverse), !.elapsed = 0,
                          !.burst = IF dial.punch THEN Burst(l, reverse, max) ELSE "off"]
  /\ UNCHANGED <<listenerVars, probeVars>>

\* punch_only: a burst from the first listener, with no connect beside it
PunchOnly ==
  /\ Quiet /\ listed # <<>>
  /\ \E reverse \in BOOLEAN :
       LET l == Head(listed)
       IN /\ Burst(l, reverse, PunchOnlyTime) = "wait"
          /\ dial' = [NoDial EXCEPT !.pc = "punch", !.l = l, !.burst = "wait", !.punch = TRUE,
                                    !.offset = StartOffset(reverse), !.max = PunchOnlyTime]
  /\ UNCHANGED <<listenerVars, probeVars>>

\* The attempt's failure: retried while the punch window is open, else the
\* burst is dropped with the connect and the next listener is tried
Failed(d) ==
  LET delay == RetryDelay(d.elapsed, d.max, d.punch)
  IN IF delay = None THEN [NoDial EXCEPT !.pc = "next", !.rest = d.rest, !.punch = d.punch]
     ELSE [d EXCEPT !.pc = "sleep", !.until = d.elapsed + delay]

\* The head of the connect loop: connect_with_owner_runtime on a worker endpoint
StartAttempt ==
  /\ dial.pc = "loop"
  /\ IF dial.elapsed >= dial.max
     THEN dial' = [NoDial EXCEPT !.pc = "next", !.rest = dial.rest, !.punch = dial.punch]
     ELSE IF ~Usable(dial.l) THEN dial' = Failed(dial)
     ELSE \E w \in lst[dial.l].endpoints : dial' = [dial EXCEPT !.pc = "attempt", !.w = w]
  /\ UNCHANGED <<listenerVars, probeVars>>

AttemptFails ==
  /\ dial.pc = "attempt" /\ dial' = Failed(dial)
  /\ UNCHANGED <<listenerVars, probeVars>>

\* finish_connect ends the call when it makes a tunnel of the connection
AttemptSucceeds ==
  /\ dial.pc = "attempt" /\ dial.w \in lst[dial.l].open /\ dial.elapsed < dial.max
  /\ dial' \in {NoDial, [NoDial EXCEPT !.pc = "next", !.rest = dial.rest, !.punch = dial.punch]}
  /\ UNCHANGED <<listenerVars, probeVars>>

RetryConnect ==
  /\ dial.pc = "sleep" /\ dial.elapsed >= dial.until
  /\ dial' = [dial EXCEPT !.pc = "loop"]
  /\ UNCHANGED <<listenerVars, probeVars>>

\* The burst over: a punch-only call returns, a connect goes on alone
BurstOver(d) == IF d.pc = "punch" THEN NoDial ELSE [d EXCEPT !.burst = "off"]

\* The looks at the flag and the deadline before a packet is sent
StopsBurst(d) == lst[d.l].closed \/ d.elapsed > d.max

\* The wait for the next offset: ended by the close notification, or over
PunchWait ==
  /\ dial.burst = "wait" /\ (dial.elapsed >= dial.offset \/ StopsBurst(dial))
  /\ dial' = IF StopsBurst(dial) THEN BurstOver(dial) ELSE [dial EXCEPT !.burst = "send"]
  /\ UNCHANGED <<listenerVars, probeVars>>

\* The select of the send and the close notification: either may come first
PunchSend ==
  /\ dial.burst = "send"
  /\ LET next == NextOffset(dial.offset, dial.elapsed, dial.max)
     IN \/ dial' = IF next = None THEN BurstOver(dial)
                   ELSE [dial EXCEPT !.burst = "wait", !.offset = next]
        \/ lst[dial.l].closed /\ dial' = BurstOver(dial)
  /\ UNCHANGED <<listenerVars, probeVars>>

\* Time goes by in a call, one step past its deadline
Elapse ==
  /\ dial.l # None /\ dial.elapsed <= dial.max
  /\ dial' = [dial EXCEPT !.elapsed = @ + 1]
  /\ UNCHANGED <<listenerVars, probeVars>>

QuicListenerNext ==
  \/ \E l \in Listeners :
       \/ ServeListener(l) \/ StoreServer(l) \/ EndpointReady(l) \/ EndpointNotReady(l)
       \/ UndoStart(l) \/ ListListener(l)
       \/ \E w \in Workers : \/ BuildEndpoint(l, w) \/ CheckOpen(l, w)
                             \/ RegisterWorkerEndpoint(l, w) \/ AcceptLoopEnds(l, w)
  \/ CloseAllListeners \/ SetClosed \/ ClearWaiters \/ TakeState
  \/ BeginProbe \/ TakePunchSocket \/ ProbeTarget \/ TakeResponse \/ GiveUpProbe
  \/ PredictTraversal
  \/ \E r \in wire : DispatchResponse(r)
  \/ \E c \in checking : DeliverResponse(c)
  \/ BeginDial \/ OpenOrConnect \/ PunchOnly \/ StartAttempt \/ AttemptFails
  \/ AttemptSucceeds \/ RetryConnect \/ PunchWait \/ PunchSend \/ Elapse

----------------------------------------------------------------------------

\* Probe waiters and probes match: a waiter belongs to the probe in progress
\* (its drop leaves none behind), the probe that waits still has its waiter or has
\* been told, and what it is told was verified for the signer it expects, although
\* dispatch() verifies outside the lock and a token may be registered again meanwhile.
ProbeHasItsWaiter ==
  /\ \A l \in Listeners : \A e \in waiters[l] : l = probe.l /\ e.owner = probe.owner
  /\ probe.pc = "wait" /\ probe.got = "none" => \E e \in waiters[probe.l] : e.owner = probe.owner
  /\ probe.got = "answer" => probe.by = probe.signer

================================================================================
