---------------------------- MODULE ServingProofs ----------------------------
(***************************************************************************)
(* The safety properties of the parts of a process that serve tunnels, for *)
(* any number of listeners, tunnels, callers, connections and users.       *)
(***************************************************************************)
EXTENDS QuicListener, TtpClient, IncomingTunnels, PurposeListeners,
        FiniteSetTheorems, TLAPS

-----------------------------------------------------------------------------
(* Purpose listeners *)

Listener == [pc : {"idle", "checked", "listening", "stopped", "dropped"}, stop : BOOLEAN,
             rxClosed : BOOLEAN, queue : Seq(Openings),
             accept : {"no", "entering", "waiting", "woken"}]

\* A call that overlapped no other is alone from its check to the drop of its guard
AloneOK(g) ==
  listener[g].pc \in {"checked", "listening", "stopped"} =>
    /\ \A h \in ListenCalls : h # g => listener[h].pc \in {"idle", "dropped"}
    /\ listener[g].pc # "checked" => registered = g

PurposeInv ==
  /\ listener \in [ListenCalls -> Listener]
  /\ registered # Unregistered =>
       registered \in ListenCalls /\ listener[registered].pc \in {"listening", "stopped"}
  /\ \A g \in ListenCalls : listener[g].pc \in {"idle", "checked"} => ~listener[g].stop
  /\ \A g \in ListenCalls \ raced : AloneOK(g)
  /\ ListenerStaysRegistered

\* A step that touches no call's position, no stop flag and no registration
LEMMA PurposeSame ==
  ASSUME PurposeInv, listener' \in [ListenCalls -> Listener], registered' = registered, raced' = raced,
         \A g \in ListenCalls : listener'[g].pc = listener[g].pc /\ listener'[g].stop = listener[g].stop
  PROVE  PurposeInv'
BY DEF PurposeInv, AloneOK, ListenerStaysRegistered

LEMMA ListenForKeeps ==
  ASSUME PurposeInv, NEW g \in ListenCalls, ListenFor(g)
  PROVE  PurposeInv'
<1>1. CASE listener[g].pc = "idle"
  <2>1. /\ registered = Unregistered /\ registered' = registered
        /\ listener' = [listener EXCEPT ![g].pc = "checked"]
        /\ raced' = IF Overlapping = {} THEN raced ELSE raced \cup Overlapping \cup {g}
    BY Zenon, <1>1 DEF ListenFor, Free
  <2>2. /\ listener' \in [ListenCalls -> Listener]
        /\ listener'[g].pc = "checked" /\ listener'[g].stop = listener[g].stop
        /\ \A h \in ListenCalls : h # g => listener'[h] = listener[h]
    BY Zenon, <2>1 DEF PurposeInv, Listener
  <2>3. ASSUME NEW h \in ListenCalls \ raced' PROVE AloneOK(h)'
    <3>1. CASE h = g
      <4>1. Overlapping = {}
        BY Zenon, <2>1, <3>1
      <4>2. ASSUME NEW i \in ListenCalls, i # g PROVE listener[i].pc \in {"idle", "dropped"}
        <5>1. listener[i].pc # "checked" /\ (i \in raced => listener[i].pc = "dropped")
          BY Zenon, <4>1 DEF Overlapping
        <5>2. i \notin raced => listener[i].pc \notin {"listening", "stopped"}
          BY Zenon, <2>1, ListenCallsAssumption DEF PurposeInv, AloneOK
        <5> QED BY Zenon, <5>1, <5>2 DEF PurposeInv, Listener
      <4> QED BY Zenon, <2>2, <3>1, <4>2 DEF AloneOK
    <3>2. CASE h # g
      <4>1. h \notin raced /\ listener[h].pc # "checked"
        BY Zenon, <2>1 DEF Overlapping
      <4>2. listener[h].pc \notin {"checked", "listening", "stopped"}
        BY Zenon, <2>1, <4>1, ListenCallsAssumption DEF PurposeInv, AloneOK
      <4> QED BY Zenon, <2>2, <3>2, <4>2 DEF AloneOK
    <3> QED BY Zenon, <3>1, <3>2
  <2>4. ListenerStaysRegistered'
    BY Zenon, <2>1, <2>2 DEF PurposeInv, ListenerStaysRegistered
  <2> QED BY Zenon, <1>1, <2>1, <2>2, <2>3, <2>4 DEF PurposeInv
<1>2. CASE listener[g].pc = "checked"
  <2>1. registered' = g /\ raced' = raced /\ listener' = [listener EXCEPT ![g].pc = "listening"]
    BY Zenon, <1>2 DEF ListenFor
  <2>2. /\ listener' \in [ListenCalls -> Listener]
        /\ listener'[g].pc = "listening" /\ ~listener'[g].stop
        /\ \A h \in ListenCalls : h # g => listener'[h] = listener[h]
    BY Zenon, <1>2, <2>1 DEF PurposeInv, Listener
  <2>3. ASSUME NEW h \in ListenCalls \ raced' PROVE AloneOK(h)'
    BY Zenon, <1>2, <2>1, <2>2 DEF PurposeInv, AloneOK
  <2>4. ListenerStaysRegistered'
    BY Zenon, <1>2, <2>1, <2>2 DEF PurposeInv, AloneOK, ListenerStaysRegistered
  <2> QED BY Zenon, <2>1, <2>2, <2>3, <2>4 DEF PurposeInv
<1> QED BY Zenon, <1>1, <1>2 DEF ListenFor

LEMMA StoppedOK ==
  ASSUME NEW ls \in [ListenCalls -> Listener], NEW g \in ListenCalls
  PROVE  /\ Stopped(ls, g) \in [ListenCalls -> Listener]
         /\ Stopped(ls, g)[g].pc = ls[g].pc /\ Stopped(ls, g)[g].stop = TRUE
         /\ \A h \in ListenCalls : h # g => Stopped(ls, g)[h] = ls[h]
BY DEF Stopped, Listener

LEMMA DropGuardKeeps ==
  ASSUME PurposeInv, NEW g \in ListenCalls, DropGuard(g)
  PROVE  PurposeInv'
<1> listener \in [ListenCalls -> Listener]
  BY Zenon DEF PurposeInv
<1>1. CASE listener[g].pc = "listening"
  <2>1. PICK ls : ls = Stopped(listener, g)
    BY Zenon
  <2>2. /\ listener' = [ls EXCEPT ![g].pc = "stopped", ![g].rxClosed = TRUE]
        /\ registered' = registered /\ raced' = raced
    BY Zenon, <1>1, <2>1 DEF DropGuard
  <2>3. /\ ls \in [ListenCalls -> Listener]
        /\ \A h \in ListenCalls : h # g => ls[h] = listener[h]
    BY Zenon, <2>1, StoppedOK
  <2>4. /\ listener' \in [ListenCalls -> Listener] /\ listener'[g].pc = "stopped"
        /\ \A h \in ListenCalls : h # g => listener'[h] = listener[h]
    <3>1. PICK q : q = [ls[g] EXCEPT !.pc = "stopped", !.rxClosed = TRUE]
      BY Zenon
    <3>2. listener' = [ls EXCEPT ![g] = q]
      BY Zenon, <2>2, <2>3, <3>1
    <3>3. q \in Listener /\ q.pc = "stopped"
      <4>1. ls[g] \in Listener
        BY Zenon, <2>3
      <4> QED BY Zenon, <3>1, <4>1 DEF Listener
    <3> QED BY Zenon, <2>3, <3>2, <3>3
  <2> QED BY <1>1, <2>2, <2>4 DEF PurposeInv, AloneOK, ListenerStaysRegistered
<1>2. CASE listener[g].pc = "stopped"
  <2>1. PICK ls : ls = IF registered = Unregistered THEN listener ELSE Stopped(listener, registered)
    BY Zenon
  <2>2. listener' = [ls EXCEPT ![g].pc = "dropped"] /\ registered' = Unregistered /\ raced' = raced
    BY Zenon, <1>2, <2>1 DEF DropGuard
  <2>3. /\ ls \in [ListenCalls -> Listener]
        /\ \A h \in ListenCalls : ls[h].pc = listener[h].pc /\ (h # registered => ls[h] = listener[h])
    <3>1. CASE registered = Unregistered
      BY Zenon, <2>1, <3>1
    <3>2. CASE registered # Unregistered
      <4>1. registered \in ListenCalls
        BY Zenon, <3>2 DEF PurposeInv
      <4>2. ls = Stopped(listener, registered)
        BY Zenon, <2>1, <3>2
      <4>3. /\ ls \in [ListenCalls -> Listener] /\ ls[registered].pc = listener[registered].pc
            /\ \A h \in ListenCalls : h # registered => ls[h] = listener[h]
        BY Zenon, <4>1, <4>2, StoppedOK
      <4> QED BY Zenon, <4>3
    <3> QED BY Zenon, <3>1, <3>2
  <2>4. /\ listener' \in [ListenCalls -> Listener] /\ listener'[g].pc = "dropped"
        /\ \A h \in ListenCalls : h # g => listener'[h] = ls[h]
    <3>1. PICK q : q = [ls[g] EXCEPT !.pc = "dropped"]
      BY Zenon
    <3>2. listener' = [ls EXCEPT ![g] = q]
      BY Zenon, <2>2, <2>3, <3>1
    <3>3. q \in Listener /\ q.pc = "dropped"
      <4>1. ls[g] \in Listener
        BY Zenon, <2>3
      <4> QED BY Zenon, <3>1, <4>1 DEF Listener
    <3> QED BY Zenon, <2>3, <3>2, <3>3
  <2>5. ASSUME NEW h \in ListenCalls \ raced' PROVE AloneOK(h)' /\ listener'[h].pc # "listening"
    <3>1. CASE h = g
      BY Zenon, <2>4, <3>1 DEF AloneOK
    <3>2. CASE h # g
      <4>1. listener[h].pc \notin {"checked", "listening", "stopped"}
        BY Zenon, <1>2, <2>2, <3>2 DEF PurposeInv, AloneOK
      <4> QED BY Zenon, <2>3, <2>4, <3>2, <4>1 DEF AloneOK
    <3> QED BY Zenon, <3>1, <3>2
  <2>6. \A h \in ListenCalls : listener'[h].pc \in {"idle", "checked"} => ~listener'[h].stop
    BY Zenon, <2>3, <2>4, ListenCallsAssumption DEF PurposeInv
  <2> QED BY Zenon, <2>2, <2>4, <2>5, <2>6 DEF PurposeInv, ListenerStaysRegistered
<1> QED BY Zenon, <1>1, <1>2 DEF DropGuard

LEMMA PurposeNextKeeps ==
  ASSUME PurposeInv, [PurposeNext]_purposeVars
  PROVE  PurposeInv'
<1> listener \in [ListenCalls -> Listener]
  BY Zenon DEF PurposeInv
<1>1. CASE UNCHANGED <<listener, registered, raced>>
  BY Zenon, <1>1, PurposeSame
<1>2. CASE SubscribeStreams \/ SubscribeControlStreams \/ SubscribeDatagrams
  BY Zenon, <1>1, <1>2 DEF SubscribeStreams, SubscribeControlStreams, SubscribeDatagrams
<1>3. ASSUME NEW g \in ListenCalls,
             ListenStream(g) \/ ListenControlStream(g) \/ ListenDatagram(g)
      PROVE  PurposeInv'
  BY Zenon, <1>3, ListenForKeeps DEF ListenStream, ListenControlStream, ListenDatagram
<1>4. ASSUME NEW g \in ListenCalls,
             DropStreamGuard(g) \/ DropControlGuard(g) \/ DropDatagramGuard(g)
      PROVE  PurposeInv'
  BY Zenon, <1>4, DropGuardKeeps DEF DropStreamGuard, DropControlGuard, DropDatagramGuard
<1>5. ASSUME NEW g \in ListenCalls, NEW pc \in {"no", "entering", "waiting"}, AcceptAt(g, pc),
             UNCHANGED <<registered, raced>>
      PROVE  PurposeInv'
  <2>1. /\ listener' \in [ListenCalls -> Listener]
        /\ \A h \in ListenCalls : listener'[h].pc = listener[h].pc /\ listener'[h].stop = listener[h].stop
    BY Zenon, <1>5 DEF AcceptAt, Listener
  <2> QED BY Zenon, <1>5, <2>1, PurposeSame
<1>6. ASSUME NEW g \in ListenCalls, BeginAccept(g) \/ AwaitAccept(g) \/ AcceptFails(g) PROVE PurposeInv'
  BY Zenon, <1>5, <1>6 DEF BeginAccept, AwaitAccept, AcceptFails
<1>7. ASSUME NEW g \in ListenCalls, TakeAccepted(g) PROVE PurposeInv'
  <2>1. /\ listener' = [listener EXCEPT ![g].accept = "no", ![g].queue = Tail(@)]
        /\ listener[g].queue # <<>> /\ UNCHANGED <<registered, raced>>
    BY Zenon, <1>7 DEF TakeAccepted
  <2>2. listener[g].queue \in Seq(Openings) /\ Tail(listener[g].queue) \in Seq(Openings)
    BY <2>1 DEF Listener
  <2>3. /\ listener' \in [ListenCalls -> Listener]
        /\ \A h \in ListenCalls : listener'[h].pc = listener[h].pc /\ listener'[h].stop = listener[h].stop
    BY <2>1, <2>2 DEF Listener
  <2> QED BY Zenon, <2>1, <2>3, PurposeSame
<1>8. ASSUME NEW x \in Openings, StreamArrives(x) \/ ControlStreamArrives(x) \/ DatagramArrives(x)
      PROVE  PurposeInv'
  BY Zenon, <1>1, <1>8 DEF StreamArrives, ControlStreamArrives, DatagramArrives, TakeSender
<1>9. ASSUME NEW x \in Openings, PushAccepted(x) PROVE PurposeInv'
  <2>1. PICK g : g = opening[x].sender
    BY Zenon
  <2>2. /\ listener' = listener \/ listener' = [listener EXCEPT ![g].queue = Append(@, x)]
        /\ UNCHANGED <<registered, raced>>
    BY Zenon, <1>9, <2>1 DEF PushAccepted
  <2>3. CASE g \in ListenCalls
    <3>1. PICK q : q = [listener[g] EXCEPT !.queue = Append(@, x)]
      BY Zenon
    <3>2. listener[g] \in Listener /\ Append(listener[g].queue, x) \in Seq(Openings)
      BY <2>3 DEF Listener
    <3>3. q \in Listener /\ q.pc = listener[g].pc /\ q.stop = listener[g].stop
      BY Zenon, <3>1, <3>2 DEF Listener
    <3>4. listener' = listener \/ listener' = [listener EXCEPT ![g] = q]
      BY Zenon, <2>2, <3>1
    <3> QED BY Zenon, <2>2, <2>3, <3>3, <3>4, PurposeSame
  <2>4. CASE g \notin ListenCalls
    <3>1. listener' = listener
      BY Zenon, <2>2, <2>4
    <3> QED BY Zenon, <1>1, <2>2, <3>1
  <2> QED BY Zenon, <2>3, <2>4
<1> QED BY Zenon, <1>1, <1>2, <1>3, <1>4, <1>6, <1>7, <1>8, <1>9 DEF PurposeNext, purposeVars

LEMMA PurposeStarts == PurposeInit => PurposeInv
<1> SUFFICES ASSUME PurposeInit PROVE PurposeInv
  BY Zenon
<1>1. /\ listener \in [ListenCalls -> Listener] /\ registered = Unregistered
      /\ \A g \in ListenCalls : listener[g].pc = "idle" /\ ~listener[g].stop
  BY DEF PurposeInit, Listener
<1> QED BY Zenon, <1>1 DEF PurposeInv, AloneOK, ListenerStaysRegistered

\* Whatever calls come, from whomever and for whichever of the three registries: a listener whose
\* listen() overlapped no other stays registered and running until its own guard is dropped, though
\* the drop removes by purpose (listen and remove_listener in stream_manager.rs, datagram_manager.rs).
THEOREM ListenersStayRegistered ==
  PurposeInit /\ [][PurposeNext]_purposeVars => []ListenerStaysRegistered
<1>1. PurposeInv => ListenerStaysRegistered
  BY Zenon DEF PurposeInv
<1> QED BY <1>1, PurposeStarts, PurposeNextKeeps, PTL

-----------------------------------------------------------------------------
(* Incoming tunnels *)

Delivery == [pc : {"none", "validate", "publish", "call", "admit", "streams", "controls", "datagrams",
                   "remember", "accepted", "rejected"},
             with : Subscribers \cup {Nobody}]

\* A tunnel that is over has an owner
OwnedOK(t) ==
  delivery[t].pc \in {"accepted", "rejected"} =>
    \/ t \in closed
    \/ delivery[t].with \in Acceptors
    \/ delivery[t].with \in Runtimes
         /\ \/ t \in cached[delivery[t].with] \cup displaced
            \/ core[delivery[t].with] = "gone"

IncomingInv ==
  /\ delivery \in [Arrivals -> Delivery]
  /\ core \in [Subscribers -> {"absent", "alive", "dying", "gone"}]
  /\ cached \in [Runtimes -> SUBSET Arrivals]
  /\ \A t \in Arrivals :
       delivery[t].pc \in {"admit", "streams", "controls", "datagrams", "remember"} =>
         delivery[t].with \in Runtimes
  /\ \A t \in Arrivals : delivery[t].pc = "call" => delivery[t].with \in Subscribers
  /\ \A t \in Arrivals : OwnedOK(t)
  /\ \A s \in Subscribers : core[s] = "alive" => subscription = s

\* Nothing an owned tunnel depends on goes away
StaysOwned(t) ==
  /\ delivery'[t] = delivery[t] /\ closed \subseteq closed'
  /\ delivery[t].with \in Runtimes /\ core[delivery[t].with] = "gone" => core'[delivery[t].with] = "gone"
  /\ delivery[t].with \in Runtimes /\ t \in cached[delivery[t].with] =>
       t \in closed' \/ t \in cached'[delivery[t].with] \cup displaced' \/ core'[delivery[t].with] = "gone"
  /\ displaced \subseteq displaced'

LEMMA OwnedKeeps ==
  ASSUME NEW t, OwnedOK(t), StaysOwned(t)
  PROVE  OwnedOK(t)'
BY Zenon DEF OwnedOK, StaysOwned

\* A step of the delivery of t: what it does to the others, and to t
LEMMA DeliveryStep ==
  ASSUME IncomingInv, NEW t \in Arrivals, NEW d \in Delivery, delivery' = [delivery EXCEPT ![t] = d],
         d.pc \in {"admit", "streams", "controls", "datagrams", "remember"} => d.with \in Runtimes,
         d.pc = "call" => d.with \in Subscribers,
         OwnedOK(t)', closed \subseteq closed', displaced' = displaced, core' = core, cached' = cached,
         \A s \in Subscribers : core[s] = "alive" => subscription' = s
  PROVE  IncomingInv'
<1>1. ASSUME NEW s \in Arrivals, s # t PROVE OwnedOK(s)'
  <2>1. StaysOwned(s)
    BY Zenon, <1>1 DEF StaysOwned, IncomingInv
  <2> QED BY Zenon, <2>1, OwnedKeeps DEF IncomingInv
<1>2. \A s \in Arrivals : delivery'[s] = IF s = t THEN d ELSE delivery[s]
  BY Zenon DEF IncomingInv
<1>3. delivery' \in [Arrivals -> Delivery]
  BY Zenon DEF IncomingInv
<1> QED BY Zenon, <1>1, <1>2, <1>3 DEF IncomingInv

\* The steps that leave the tunnel's delivery alone
LEMMA SubscriberStep ==
  ASSUME IncomingInv, delivery' = delivery, \A t \in Arrivals : StaysOwned(t),
         core' \in [Subscribers -> {"absent", "alive", "dying", "gone"}],
         cached' \in [Runtimes -> SUBSET Arrivals],
         \A s \in Subscribers : core'[s] = "alive" => subscription' = s
  PROVE  IncomingInv'
<1>1. \A t \in Arrivals : OwnedOK(t)'
  BY Zenon, OwnedKeeps DEF IncomingInv
<1> QED BY Zenon, <1>1 DEF IncomingInv

LEMMA StepOK ==
  ASSUME IncomingInv, NEW t \in Arrivals,
         NEW pc \in {"validate", "publish", "admit", "streams", "controls", "datagrams", "remember",
                     "accepted", "rejected"},
         Step(t, pc)
  PROVE  \E d \in Delivery : /\ delivery' = [delivery EXCEPT ![t] = d]
                             /\ d.pc = pc /\ d.with = delivery[t].with
                             /\ delivery'[t] = d
<1>1. PICK d : d = [delivery[t] EXCEPT !.pc = pc]
  BY Zenon
<1>2. delivery[t] \in Delivery
  BY Zenon DEF IncomingInv
<1>3. d \in Delivery /\ d.pc = pc /\ d.with = delivery[t].with
  BY Zenon, <1>1, <1>2 DEF Delivery
<1>4. delivery' = [delivery EXCEPT ![t] = d]
  BY Zenon, <1>1 DEF Step
<1>5. delivery'[t] = d
  BY Zenon, <1>4 DEF IncomingInv
<1> QED BY Zenon, <1>3, <1>4, <1>5

\* A step on which the delivery goes on, with the tunnel closed if it is over
LEMMA DeliveryGoesOn ==
  ASSUME IncomingInv, NEW t \in Arrivals,
         NEW pc \in {"validate", "publish", "admit", "streams", "controls", "datagrams", "remember",
                     "accepted", "rejected"},
         Step(t, pc), closed \subseteq closed',
         pc \in {"accepted", "rejected"} => t \in closed' \/ delivery[t].with \in Acceptors,
         pc \in {"admit", "streams", "controls", "datagrams", "remember"} => delivery[t].with \in Runtimes,
         \A s \in Subscribers : core[s] = "alive" => subscription' = s,
         UNCHANGED <<core, cached, displaced>>
  PROVE  IncomingInv'
<1>1. PICK d \in Delivery : /\ delivery' = [delivery EXCEPT ![t] = d]
                            /\ d.pc = pc /\ d.with = delivery[t].with
                            /\ delivery'[t] = d
  BY StepOK
<1>2. OwnedOK(t)'
  BY Zenon, <1>1 DEF OwnedOK
<1> QED BY Zenon, <1>1, <1>2, DeliveryStep

LEMMA DeliverKeeps ==
  ASSUME IncomingInv, NEW t \in Arrivals,
         \/ TunnelArrives(t) \/ ValidateTunnel(t) \/ AdmitTunnel(t) \/ ListenForStreams(t)
         \/ ListenForControlStreams(t) \/ ListenForDatagrams(t) \/ CallAcceptor(t)
  PROVE  IncomingInv'
<1>1. \A s \in Subscribers : core[s] = "alive" => subscription = s
  BY Zenon DEF IncomingInv
<1>2. \/ delivery[t].pc \notin {"admit", "streams", "controls", "datagrams"}
      \/ delivery[t].with \in Runtimes
  BY Zenon DEF IncomingInv
<1>3. CASE TunnelArrives(t)
  BY Zenon, <1>1, <1>3, DeliveryGoesOn DEF TunnelArrives
<1>4. CASE ValidateTunnel(t)
  BY Zenon, <1>1, <1>4, DeliveryGoesOn DEF ValidateTunnel
<1>5. CASE AdmitTunnel(t)
  BY Zenon, <1>1, <1>2, <1>5, DeliveryGoesOn DEF AdmitTunnel
<1>6. CASE ListenForStreams(t)
  BY Zenon, <1>1, <1>2, <1>6, DeliveryGoesOn DEF ListenForStreams, ListenOn
<1>7. CASE ListenForControlStreams(t)
  BY Zenon, <1>1, <1>2, <1>7, DeliveryGoesOn DEF ListenForControlStreams, ListenOn
<1>8. CASE ListenForDatagrams(t)
  BY Zenon, <1>1, <1>2, <1>8, DeliveryGoesOn DEF ListenForDatagrams, ListenOn
<1>9. CASE CallAcceptor(t)
  BY Zenon, <1>1, <1>9, DeliveryGoesOn DEF CallAcceptor
<1> QED BY Zenon, <1>3, <1>4, <1>5, <1>6, <1>7, <1>8, <1>9

LEMMA SelectSubscriberKeeps ==
  ASSUME IncomingInv, NEW t \in Arrivals, SelectSubscriber(t), subscription \in Subscribers \cup {Nobody}
  PROVE  IncomingInv'
<1>1. \A s \in Subscribers : core[s] = "alive" => subscription' = s
  BY Zenon DEF IncomingInv, SelectSubscriber
<1>2. CASE subscription = Nobody
  BY Zenon, <1>1, <1>2, DeliveryGoesOn DEF SelectSubscriber
<1>3. CASE subscription # Nobody
  <2>1. PICK d : d = [pc |-> "call", with |-> subscription]
    BY Zenon
  <2>2. /\ delivery' = [delivery EXCEPT ![t] = d] /\ UNCHANGED <<closed, core, cached, displaced>>
    BY Zenon, <1>3, <2>1 DEF SelectSubscriber
  <2>3. d \in Delivery /\ d.pc = "call" /\ d.with \in Subscribers
    BY Zenon, <1>3, <2>1 DEF Delivery
  <2>4. OwnedOK(t)'
    BY Zenon, <2>2, <2>3 DEF OwnedOK, IncomingInv
  <2> QED BY Zenon, <1>1, <2>2, <2>3, <2>4, DeliveryStep
<1> QED BY Zenon, <1>2, <1>3

LEMMA CallRuntimeKeeps ==
  ASSUME IncomingInv, NEW t \in Arrivals, CallRuntime(t)
  PROVE  IncomingInv'
<1>1. PICK r \in Runtimes : r = delivery[t].with
  BY Zenon DEF CallRuntime
<1>2. UNCHANGED <<core, cached, displaced>>
  BY Zenon DEF CallRuntime
<1>3. CASE core[r] = "alive"
  <2>1. Step(t, "admit") /\ UNCHANGED <<subscription, closed>>
    BY Zenon, <1>1, <1>3 DEF CallRuntime
  <2> QED BY Zenon, <1>1, <1>2, <2>1, DeliveryGoesOn DEF IncomingInv
<1>4. CASE core[r] # "alive"
  <2>1. Step(t, "rejected") /\ closed' = closed \cup {t} /\ subscription' = Unsubscribed(r)
    BY Zenon, <1>1, <1>4 DEF CallRuntime
  <2>2. \A s \in Subscribers : core[s] = "alive" => subscription' = s
    BY Zenon, <1>4, <2>1 DEF IncomingInv, Unsubscribed
  <2> QED BY Zenon, <1>2, <2>1, <2>2, DeliveryGoesOn
<1> QED BY Zenon, <1>3, <1>4

LEMMA RememberTunnelKeeps ==
  ASSUME IncomingInv, NEW t \in Arrivals, RememberTunnel(t)
  PROVE  IncomingInv'
<1>1. PICK r \in Runtimes : r = delivery[t].with
  BY Zenon DEF RememberTunnel, IncomingInv
<1>2. /\ cached' = [cached EXCEPT ![r] = Remembered(@, t)]
      /\ displaced' = displaced \cup ({s \in cached[r] : EndpointsOf[s] = EndpointsOf[t]} \ {t})
      /\ UNCHANGED <<subscription, core, closed>> /\ Step(t, "accepted")
  BY Zenon, <1>1 DEF RememberTunnel
<1>3. PICK d \in Delivery : /\ delivery' = [delivery EXCEPT ![t] = d]
                            /\ d.pc = "accepted" /\ d.with = delivery[t].with
                            /\ delivery'[t] = d
  BY Zenon, <1>2, StepOK
<1>4. cached' \in [Runtimes -> SUBSET Arrivals] /\ cached'[r] = Remembered(cached[r], t)
      /\ \A q \in Runtimes : q # r => cached'[q] = cached[q]
  BY Zenon, <1>2 DEF Remembered, IncomingInv
<1>5. OwnedOK(t)'
  BY Zenon, <1>1, <1>3, <1>4 DEF OwnedOK, Remembered
<1>6. ASSUME NEW s \in Arrivals, s # t PROVE OwnedOK(s)'
  <2>1. delivery'[s] = delivery[s]
    BY Zenon, <1>3, <1>6 DEF IncomingInv
  <2>2. ASSUME s \in cached[r] PROVE s \in closed' \/ s \in cached'[r] \cup displaced'
    BY Zenon, <1>2, <1>4, <1>6, <2>2 DEF Remembered
  <2>3. StaysOwned(s)
    <3>1. CASE delivery[s].with = r
      BY Zenon, <1>2, <2>1, <2>2, <3>1 DEF StaysOwned
    <3>2. CASE delivery[s].with # r
      BY Zenon, <1>2, <1>4, <2>1, <3>2 DEF StaysOwned
    <3> QED BY Zenon, <3>1, <3>2
  <2> QED BY Zenon, <2>3, OwnedKeeps DEF IncomingInv
<1>7. delivery' \in [Arrivals -> Delivery] /\ \A s \in Arrivals : s # t => delivery'[s] = delivery[s]
  BY Zenon, <1>3 DEF IncomingInv
<1> QED BY Zenon, <1>2, <1>3, <1>4, <1>5, <1>6, <1>7 DEF IncomingInv

LEMMA SubscribersKeep ==
  ASSUME IncomingInv, NEW s \in Subscribers,
         Subscribe(s) \/ LastReference(s) \/ DropSubscriber(s)
  PROVE  IncomingInv'
<1>1. CASE Subscribe(s)
  <2>1. /\ core[s] = "absent" /\ core' = [core EXCEPT ![s] = "alive"] /\ subscription' = s
        /\ subscription = Nobody /\ UNCHANGED <<delivery, closed, cached, displaced>>
    BY Zenon, <1>1 DEF Subscribe
  <2>2. \A q \in Subscribers : core[q] # "alive"
    BY Zenon, <2>1, SubscribersAssumption DEF IncomingInv
  <2>3. /\ core' \in [Subscribers -> {"absent", "alive", "dying", "gone"}]
        /\ \A q \in Subscribers : core'[q] = "alive" => q = s
        /\ \A q \in Subscribers : core[q] = "gone" => core'[q] = "gone"
    BY Zenon, <2>1, <2>2 DEF IncomingInv
  <2>4. \A t \in Arrivals : StaysOwned(t)
    BY Zenon, <2>1, <2>3 DEF StaysOwned, Subscribers
  <2> QED BY Zenon, <2>1, <2>3, <2>4, SubscriberStep DEF IncomingInv
<1>2. CASE LastReference(s)
  <2>1. /\ core[s] = "alive" /\ core' = [core EXCEPT ![s] = "dying"]
        /\ UNCHANGED <<subscription, delivery, closed, cached, displaced>>
    BY Zenon, <1>2 DEF LastReference
  <2>2. /\ core' \in [Subscribers -> {"absent", "alive", "dying", "gone"}]
        /\ \A q \in Subscribers : core'[q] = "alive" => core[q] = "alive"
        /\ \A q \in Subscribers : core[q] = "gone" => core'[q] = "gone"
    BY Zenon, <2>1 DEF IncomingInv
  <2>3. \A t \in Arrivals : StaysOwned(t)
    BY Zenon, <2>1, <2>2 DEF StaysOwned, Subscribers
  <2> QED BY Zenon, <2>1, <2>2, <2>3, SubscriberStep DEF IncomingInv
<1>3. CASE DropSubscriber(s)
  <2>1. /\ core[s] = "dying" /\ core' = [core EXCEPT ![s] = "gone"] /\ subscription' = Unsubscribed(s)
        /\ cached' = IF s \in Runtimes THEN [cached EXCEPT ![s] = {}] ELSE cached
        /\ UNCHANGED <<delivery, closed, displaced>>
    BY Zenon, <1>3 DEF DropSubscriber
  <2>2. /\ core' \in [Subscribers -> {"absent", "alive", "dying", "gone"}] /\ core'[s] = "gone"
        /\ \A q \in Subscribers : q # s => core'[q] = core[q]
        /\ cached' \in [Runtimes -> SUBSET Arrivals]
        /\ \A q \in Runtimes : q # s => cached'[q] = cached[q]
    BY Zenon, <2>1 DEF IncomingInv
  <2>3. \A q \in Subscribers : core'[q] = "alive" => subscription' = q
    BY Zenon, <2>1, <2>2 DEF IncomingInv, Unsubscribed
  <2>4. \A t \in Arrivals : StaysOwned(t)
    BY Zenon, <2>1, <2>2 DEF StaysOwned, Subscribers
  <2> QED BY Zenon, <2>1, <2>2, <2>3, <2>4, SubscriberStep
<1> QED BY Zenon, <1>1, <1>2, <1>3

LEMMA RuntimesKeep ==
  ASSUME IncomingInv, NEW r \in Runtimes
  PROVE  /\ FindExisting(r) => IncomingInv'
         /\ \A t \in Arrivals : CreateForTarget(r, t) => IncomingInv'
<1>1. ASSUME FindExisting(r) PROVE IncomingInv'
  <2>1. /\ cached' = [cached EXCEPT ![r] = @ \ closed]
        /\ UNCHANGED <<subscription, core, delivery, closed, displaced>>
    BY Zenon, <1>1 DEF FindExisting
  <2>2. /\ cached' \in [Runtimes -> SUBSET Arrivals] /\ cached'[r] = cached[r] \ closed
        /\ \A q \in Runtimes : q # r => cached'[q] = cached[q]
    BY Zenon, <2>1 DEF IncomingInv
  <2>3. \A t \in Arrivals : StaysOwned(t)
    BY Zenon, <2>1, <2>2 DEF StaysOwned
  <2> QED BY Zenon, <2>1, <2>2, <2>3, SubscriberStep DEF IncomingInv
<1>2. ASSUME NEW t \in Arrivals, CreateForTarget(r, t) PROVE IncomingInv'
  <2>1. PICK d : d = [pc |-> "streams", with |-> r]
    BY Zenon
  <2>2. /\ cached[r] \ closed = {} /\ delivery' = [delivery EXCEPT ![t] = d]
        /\ cached' = [cached EXCEPT ![r] = {}] /\ delivery[t].pc = "none"
        /\ UNCHANGED <<subscription, core, closed, displaced>>
    BY Zenon, <1>2, <2>1 DEF CreateForTarget
  <2>3. d \in Delivery /\ d.pc = "streams" /\ d.with = r
    BY Zenon, <2>1 DEF Delivery, Subscribers
  <2>4. /\ cached' \in [Runtimes -> SUBSET Arrivals] /\ cached'[r] = {}
        /\ \A q \in Runtimes : q # r => cached'[q] = cached[q]
        /\ delivery' \in [Arrivals -> Delivery] /\ delivery'[t] = d
        /\ \A s \in Arrivals : s # t => delivery'[s] = delivery[s]
    BY Zenon, <2>2, <2>3 DEF IncomingInv
  <2>5. ASSUME NEW s \in Arrivals PROVE OwnedOK(s)'
    <3>1. CASE s = t
      BY Zenon, <2>3, <2>4, <3>1 DEF OwnedOK
    <3>2. CASE s # t
      <4>1. StaysOwned(s)
        BY Zenon, <2>2, <2>4, <3>2 DEF StaysOwned
      <4> QED BY Zenon, <4>1, OwnedKeeps DEF IncomingInv
    <3> QED BY Zenon, <3>1, <3>2
  <2> QED BY Zenon, <2>2, <2>3, <2>4, <2>5 DEF IncomingInv
<1> QED BY Zenon, <1>1, <1>2

LEMMA TunnelClosesKeeps ==
  ASSUME IncomingInv, NEW t \in Arrivals, TunnelCloses(t)
  PROVE  IncomingInv'
<1>1. closed \subseteq closed' /\ UNCHANGED <<subscription, core, delivery, cached, displaced>>
  BY Zenon DEF TunnelCloses
<1>2. \A s \in Arrivals : StaysOwned(s)
  BY Zenon, <1>1 DEF StaysOwned
<1> QED BY Zenon, <1>1, <1>2, SubscriberStep DEF IncomingInv

SubscriptionOK == subscription \in Subscribers \cup {Nobody}

LEMMA SubscriptionKeeps ==
  ASSUME SubscriptionOK, IncomingNext
  PROVE  SubscriptionOK'
<1>1. ASSUME NEW s \in Subscribers, Subscribe(s) \/ LastReference(s) \/ DropSubscriber(s)
      PROVE  SubscriptionOK'
  BY Zenon, <1>1 DEF SubscriptionOK, Subscribe, LastReference, DropSubscriber, Unsubscribed
<1>2. ASSUME NEW t \in Arrivals, CallRuntime(t)
      PROVE  SubscriptionOK'
  BY Zenon, <1>2 DEF SubscriptionOK, CallRuntime, Unsubscribed
<1>3. CASE subscription' = subscription
  BY Zenon, <1>3 DEF SubscriptionOK
<1>4. ASSUME NEW t \in Arrivals,
             \/ TunnelArrives(t) \/ ValidateTunnel(t) \/ SelectSubscriber(t)
             \/ CallAcceptor(t) \/ AdmitTunnel(t) \/ ListenForStreams(t) \/ ListenForControlStreams(t)
             \/ ListenForDatagrams(t) \/ RememberTunnel(t) \/ TunnelCloses(t)
      PROVE  SubscriptionOK'
  BY Zenon, <1>3, <1>4 DEF TunnelArrives, ValidateTunnel, SelectSubscriber, CallAcceptor, AdmitTunnel,
     ListenForStreams, ListenForControlStreams, ListenForDatagrams, ListenOn, RememberTunnel, TunnelCloses
<1>5. ASSUME NEW r \in Runtimes, FindExisting(r) \/ \E t \in Arrivals : CreateForTarget(r, t)
      PROVE  SubscriptionOK'
  BY Zenon, <1>3, <1>5 DEF FindExisting, CreateForTarget
<1> QED BY Zenon, <1>1, <1>2, <1>4, <1>5 DEF IncomingNext

LEMMA IncomingNextKeeps ==
  ASSUME SubscriptionOK, IncomingInv, [IncomingNext]_incomingVars
  PROVE  SubscriptionOK' /\ IncomingInv'
<1>1. CASE UNCHANGED incomingVars
  <2>1. UNCHANGED <<subscription, core, delivery, closed, cached, displaced>>
    BY Zenon, <1>1 DEF incomingVars
  <2>2. \A s \in Arrivals : StaysOwned(s)
    BY Zenon, <2>1 DEF StaysOwned
  <2> QED BY Zenon, <2>1, <2>2, SubscriberStep DEF IncomingInv, SubscriptionOK
<1>2. CASE IncomingNext
  <2>1. ASSUME NEW t \in Arrivals,
             \/ TunnelArrives(t) \/ ValidateTunnel(t) \/ SelectSubscriber(t) \/ CallRuntime(t)
             \/ CallAcceptor(t) \/ AdmitTunnel(t) \/ ListenForStreams(t) \/ ListenForControlStreams(t)
             \/ ListenForDatagrams(t) \/ RememberTunnel(t) \/ TunnelCloses(t)
        PROVE  IncomingInv'
    BY Zenon, <2>1, DeliverKeeps, SelectSubscriberKeeps, CallRuntimeKeeps, RememberTunnelKeeps,
       TunnelClosesKeeps DEF SubscriptionOK
  <2>2. IncomingInv'
    BY Zenon, <1>2, <2>1, SubscribersKeep, RuntimesKeep DEF IncomingNext
  <2> QED BY Zenon, <1>2, <2>2, SubscriptionKeeps
<1> QED BY Zenon, <1>1, <1>2

LEMMA IncomingStarts == IncomingInit => SubscriptionOK /\ IncomingInv
<1> SUFFICES ASSUME IncomingInit PROVE SubscriptionOK /\ IncomingInv
  BY Zenon
<1>1. PICK d : d = [pc |-> "none", with |-> Nobody]
  BY Zenon
<1>2. d \in Delivery /\ d.pc = "none"
  BY Zenon, <1>1 DEF Delivery
<1>3. delivery = [t \in Arrivals |-> d]
  BY Zenon, <1>1 DEF IncomingInit
<1> QED BY Zenon, <1>2, <1>3 DEF IncomingInit, SubscriptionOK, IncomingInv, OwnedOK

\* However subscribers come and go while tunnels are being delivered: no tunnel whose delivery is over
\* is left open without an owner, and a living subscriber is the one tunnels are delivered to
\* (publish_tunnel and the owned unregistration of net_manager.rs, accept_incoming_tunnel of ttp/runtime).
THEOREM DeliveredTunnelsHaveOwners ==
  IncomingInit /\ [][IncomingNext]_incomingVars => []DeliveredHasOwner
<1>1. IncomingInv => DeliveredHasOwner
  BY Zenon DEF IncomingInv, OwnedOK, DeliveredHasOwner
<1> QED BY <1>1, IncomingStarts, IncomingNextKeeps, PTL

-----------------------------------------------------------------------------
(* The tunnel cache of a TTP client *)

Entry == [tunnel : CacheTunnels \cup {NoTunnel}, maintained : BOOLEAN, leases : Nat, old : BOOLEAN]
User == [pc : {"idle", "search", "create", "attach", "insert", "got", "opening", "using", "refresh",
               "release"},
         tunnel : CacheTunnels \cup {NoTunnel}, key : CacheKeys \cup {NoKey}, snap : BOOLEAN]

TtpTypes ==
  /\ tunnelState \in [CacheTunnels -> {"unused", "open", "closed"}]
  /\ entry \in [CacheKeys -> Entry]
  /\ user \in [TtpUsers -> User]
  /\ target \in BOOLEAN

\* Who holds a lease, and who has a tunnel; a tunnel that is referred to was created
UserOK(u) ==
  /\ user[u].pc \in {"opening", "using"} => u \in Openers /\ user[u].key # NoKey
  /\ user[u].key # NoKey => user[u].pc \in {"opening", "using"}
  /\ user[u].pc \in {"attach", "insert", "got", "opening", "using"} => user[u].tunnel # NoTunnel
  /\ user[u].tunnel # NoTunnel => tunnelState[user[u].tunnel] # "unused"

\* An entry that was never replaced under a lease counts its leases
LeasesOK ==
  \A k \in CacheKeys \ blurred : Cached(k) => entry[k].leases = Cardinality(LeaseHolders(k))

KeptOK ==
  \A u \in Openers \ mixed :
    user[u].pc \in {"opening", "using"} /\ Available(user[u].tunnel) /\ user[u].key \notin blurred
      => entry[user[u].key].tunnel = user[u].tunnel

EntriesMade ==
  \A k \in CacheKeys : entry[k].tunnel # NoTunnel => tunnelState[entry[k].tunnel] # "unused"

TtpInv ==
  TtpTypes /\ EntriesMade /\ (\A u \in TtpUsers : UserOK(u)) /\ LeasesOK /\ KeptOK

LEMMA HoldersCounted ==
  ASSUME NEW k
  PROVE  /\ IsFiniteSet(LeaseHolders(k)) /\ Cardinality(LeaseHolders(k)) \in Nat
         /\ LeaseHolders(k) # {} => Cardinality(LeaseHolders(k)) > 0
<1>1. LeaseHolders(k) \in SUBSET Openers
  BY Zenon DEF LeaseHolders
<1>2. IsFiniteSet(LeaseHolders(k)) /\ Cardinality(LeaseHolders(k)) \in Nat
  BY Zenon, <1>1, CacheAssumption, FS_Subset, FS_CardinalityType
<1>3. LeaseHolders(k) # {} => Cardinality(LeaseHolders(k)) # 0
  BY Zenon, <1>2, FS_EmptySet
<1> QED BY <1>2, <1>3

\* What a release, and any other step that takes and returns no lease, does to the cache
CacheShrinks ==
  \A k \in CacheKeys :
    /\ entry'[k].tunnel \in {entry[k].tunnel, NoTunnel}
    /\ entry'[k].tunnel # NoTunnel => entry'[k].leases = entry[k].leases
    /\ Available(entry[k].tunnel) /\ entry[k].leases > 0 => entry'[k].tunnel = entry[k].tunnel

\* ... and to the callers and the tunnels
CallersKeep ==
  \A u \in Openers : /\ user'[u].key = user[u].key
                     /\ user'[u].pc \in {"opening", "using"} =>
                          user[u].pc \in {"opening", "using"} /\ user'[u].tunnel = user[u].tunnel

TunnelsAge ==
  \A t \in CacheTunnels : tunnelState[t] # "unused" =>
    tunnelState'[t] # "unused" /\ (tunnelState'[t] = "open" => tunnelState[t] = "open")

LEMMA LeasesKept ==
  ASSUME TtpInv, TtpTypes', CacheShrinks, CallersKeep, TunnelsAge, UNCHANGED <<blurred, mixed>>
  PROVE  LeasesOK' /\ KeptOK'
<1>1. \A k \in CacheKeys : LeaseHolders(k)' = LeaseHolders(k)
  BY Zenon DEF LeaseHolders, CallersKeep
<1>2. LeasesOK'
  BY Zenon, <1>1 DEF LeasesOK, CacheShrinks, Cached, TtpInv
<1>3. ASSUME NEW u \in Openers \ mixed', user'[u].pc \in {"opening", "using"},
             Available(user[u].tunnel)', user'[u].key \notin blurred'
      PROVE  entry'[user'[u].key].tunnel = user'[u].tunnel
  <2>1. /\ user[u].pc \in {"opening", "using"} /\ user'[u].tunnel = user[u].tunnel
        /\ user'[u].key = user[u].key /\ u \in TtpUsers
    BY Zenon, <1>3 DEF CallersKeep, TtpUsers
  <2>2. user[u].tunnel \in CacheTunnels /\ tunnelState[user[u].tunnel] # "unused"
        /\ user[u].key \in CacheKeys
    BY Zenon, <2>1, CacheAssumption DEF TtpInv, TtpTypes, User, UserOK
  <2>3. Available(user[u].tunnel)
    BY Zenon, <1>3, <2>1, <2>2 DEF Available, TunnelsAge
  <2>4. entry[user[u].key].tunnel = user[u].tunnel
    BY Zenon, <1>3, <2>1, <2>3 DEF TtpInv, KeptOK
  <2>5. entry[user[u].key].leases > 0
    <3>1. u \in LeaseHolders(user[u].key)
      BY Zenon DEF LeaseHolders
    <3>2. Cached(user[u].key)
      BY Zenon, <2>2, <2>4, CacheAssumption DEF Cached
    <3> QED BY Zenon, <1>3, <2>1, <2>2, <3>1, <3>2, HoldersCounted DEF TtpInv, LeasesOK
  <2> QED BY Zenon, <2>1, <2>2, <2>3, <2>4, <2>5 DEF CacheShrinks
<1> QED BY Zenon, <1>2, <1>3 DEF KeptOK

LEMMA ReleasedOK ==
  ASSUME TtpTypes, NEW snap \in BOOLEAN, NEW e, e = Released(snap)
  PROVE  /\ e \in [CacheKeys -> Entry]
         /\ \A k \in CacheKeys :
              /\ e[k].tunnel \in {entry[k].tunnel, NoTunnel}
              /\ e[k].tunnel # NoTunnel => e[k].leases = entry[k].leases
              /\ Available(entry[k].tunnel) /\ entry[k].leases > 0 => e[k].tunnel = entry[k].tunnel
<1>1. NoEntry \in Entry /\ NoEntry.tunnel = NoTunnel
  BY Zenon DEF NoEntry, Entry
<1>2. ASSUME NEW k \in CacheKeys
      PROVE  /\ e[k] \in Entry
             /\ e[k].tunnel \in {entry[k].tunnel, NoTunnel}
             /\ e[k].tunnel # NoTunnel => e[k].leases = entry[k].leases
             /\ Available(entry[k].tunnel) /\ entry[k].leases > 0 => e[k].tunnel = entry[k].tunnel
  <2>1. CASE Available(entry[k].tunnel) /\ (snap \/ entry[k].leases > 0 \/ ~entry[k].old)
    <3>1. e[k] = [entry[k] EXCEPT !.maintained = snap]
      BY Zenon, <2>1 DEF Released
    <3>2. entry[k] \in Entry
      BY Zenon DEF TtpTypes
    <3> QED BY Zenon, <3>1, <3>2 DEF Entry
  <2>2. CASE ~ (Available(entry[k].tunnel) /\ (snap \/ entry[k].leases > 0 \/ ~entry[k].old))
    <3>1. e[k] = NoEntry
      BY Zenon, <2>2 DEF Released
    <3> QED BY Zenon, <1>1, <2>2, <3>1
  <2> QED BY Zenon, <2>1, <2>2
<1>3. e = [k \in CacheKeys |-> e[k]]
  BY Zenon DEF Released
<1> QED BY Zenon, <1>2, <1>3

\* A caller without a lease goes on without one
LEMMA CallerMoves ==
  ASSUME TtpInv, TunnelsAge, NEW w \in TtpUsers, NEW q \in User,
         user' = [user EXCEPT ![w] = q],
         user[w].pc \notin {"opening", "using"}, q.pc \notin {"opening", "using"}, q.key = NoKey,
         q.pc \in {"attach", "insert", "got"} => q.tunnel # NoTunnel,
         q.tunnel # NoTunnel => tunnelState'[q.tunnel] # "unused"
  PROVE  user' \in [TtpUsers -> User] /\ (\A u \in TtpUsers : UserOK(u)') /\ CallersKeep
<1>1. user' \in [TtpUsers -> User] /\ user'[w] = q
      /\ \A u \in TtpUsers \ {w} : user'[u] = user[u]
  BY Zenon DEF TtpInv, TtpTypes
<1>2. ASSUME NEW u \in TtpUsers
      PROVE  UserOK(u)'
  <2>1. CASE u = w
    BY Zenon, <1>1, <2>1 DEF UserOK
  <2>2. CASE u # w
    <3>1. user'[u] = user[u] /\ UserOK(u) /\ user[u] \in User
      BY Zenon, <1>1, <2>2 DEF TtpInv, TtpTypes
    <3>2. user[u].tunnel # NoTunnel => user[u].tunnel \in CacheTunnels
      BY Zenon, <3>1 DEF User
    <3> QED BY Zenon, <3>1, <3>2 DEF UserOK, TunnelsAge
  <2> QED BY Zenon, <2>1, <2>2
<1>3. user[w].key = NoKey
  BY Zenon DEF TtpInv, UserOK
<1>4. CallersKeep
  BY Zenon, <1>1, <1>3 DEF CallersKeep, TtpUsers
<1> QED BY Zenon, <1>1, <1>2, <1>4

LEMMA CacheStands ==
  ASSUME TtpInv, UNCHANGED entry
  PROVE  CacheShrinks
BY Zenon DEF CacheShrinks

LEMMA TunnelsStand ==
  ASSUME UNCHANGED tunnelState
  PROVE  TunnelsAge
BY Zenon DEF TunnelsAge

LEMMA EntriesStayMade ==
  ASSUME TtpInv, TunnelsAge,
         \A k \in CacheKeys : entry'[k].tunnel \in {entry[k].tunnel, NoTunnel}
  PROVE  EntriesMade'
BY Zenon DEF EntriesMade, TunnelsAge, TtpInv, TtpTypes, Entry

\* A step that takes and returns no lease
LEMMA NoLeaseStep ==
  ASSUME TtpInv, CacheShrinks, CallersKeep, TunnelsAge, TtpTypes', \A u \in TtpUsers : UserOK(u)',
         UNCHANGED <<blurred, mixed>>
  PROVE  TtpInv'
<1>1. EntriesMade'
  BY Zenon, EntriesStayMade DEF CacheShrinks
<1> QED BY Zenon, <1>1, LeasesKept DEF TtpInv

LEMMA IdleUserOK ==
  /\ IdleUser \in User /\ IdleUser.pc = "idle" /\ IdleUser.key = NoKey
  /\ IdleUser.tunnel = NoTunnel
BY Zenon DEF IdleUser, User

LEMMA FindExistingTunnelKeeps ==
  ASSUME TtpInv, NEW u \in TtpUsers, FindExistingTunnel(u)
  PROVE  TtpInv'
<1>1. PICK left : left = Released(target)
  BY Zenon
<1>2. /\ left \in [CacheKeys -> Entry]
      /\ \A k \in CacheKeys :
           /\ left[k].tunnel \in {entry[k].tunnel, NoTunnel}
           /\ left[k].tunnel # NoTunnel => left[k].leases = entry[k].leases
           /\ Available(entry[k].tunnel) /\ entry[k].leases > 0 => left[k].tunnel = entry[k].tunnel
  <2>1. TtpTypes /\ target \in BOOLEAN
    BY Zenon DEF TtpInv, TtpTypes
  <2> QED BY Zenon, <1>1, <2>1, ReleasedOK
<1>3. user[u] \in User /\ user[u].pc = "search" /\ UserOK(u)
  BY Zenon DEF TtpInv, TtpTypes, FindExistingTunnel, At
<1>4. user[u].key = NoKey /\ TunnelsAge
  BY Zenon, <1>3 DEF UserOK, TunnelsAge, FindExistingTunnel
<1>5. CASE First(left) = {}
  <2>1. entry' = left /\ GoTo(u, "create")
    BY Zenon, <1>1, <1>5 DEF FindExistingTunnel
  <2>2. PICK q : q = [user[u] EXCEPT !.pc = "create"]
    BY Zenon
  <2>3. /\ q \in User /\ q.pc = "create" /\ q.key = NoKey /\ q.tunnel = user[u].tunnel
        /\ user' = [user EXCEPT ![u] = q]
    BY Zenon, <1>3, <1>4, <2>1, <2>2 DEF User, GoTo
  <2>4. q.tunnel # NoTunnel => tunnelState'[q.tunnel] # "unused"
    BY Zenon, <1>3, <2>3 DEF UserOK, FindExistingTunnel
  <2>5. user' \in [TtpUsers -> User] /\ (\A v \in TtpUsers : UserOK(v)') /\ CallersKeep
    BY Zenon, <1>3, <1>4, <2>3, <2>4, CallerMoves
  <2>6. CacheShrinks
    BY Zenon, <1>2, <2>1 DEF CacheShrinks
  <2>7. TtpTypes' /\ UNCHANGED <<blurred, mixed>>
    BY Zenon, <1>2, <2>1, <2>5 DEF TtpTypes, TtpInv, FindExistingTunnel
  <2> QED BY Zenon, <1>4, <2>5, <2>6, <2>7, NoLeaseStep
<1>6. CASE First(left) # {}
  <2>1. PICK k \in First(left) :
          /\ entry' = [left EXCEPT ![k].old = FALSE]
          /\ user' = [user EXCEPT ![u].pc = "got", ![u].tunnel = left[k].tunnel]
    BY Zenon, <1>1, <1>6 DEF FindExistingTunnel
  <2>2. k \in CacheKeys /\ left[k].tunnel # NoTunnel /\ left[k].tunnel = entry[k].tunnel
        /\ left[k] \in Entry
    BY Zenon, <1>2 DEF First
  <2>3. PICK q : q = [user[u] EXCEPT !.pc = "got", !.tunnel = left[k].tunnel]
    BY Zenon
  <2>4. /\ q \in User /\ q.pc = "got" /\ q.key = NoKey /\ q.tunnel = left[k].tunnel
        /\ user' = [user EXCEPT ![u] = q]
    BY Zenon, <1>3, <1>4, <2>1, <2>2, <2>3 DEF User, Entry
  <2>5. q.tunnel # NoTunnel /\ tunnelState'[q.tunnel] # "unused"
    BY Zenon, <2>2, <2>4 DEF EntriesMade, TtpInv, FindExistingTunnel
  <2>6. user' \in [TtpUsers -> User] /\ (\A v \in TtpUsers : UserOK(v)') /\ CallersKeep
    BY Zenon, <1>3, <1>4, <2>4, <2>5, CallerMoves
  <2>7. PICK r : r = [left[k] EXCEPT !.old = FALSE]
    BY Zenon
  <2>8. r \in Entry /\ r.tunnel = left[k].tunnel /\ r.leases = left[k].leases
        /\ entry' = [left EXCEPT ![k] = r]
    BY Zenon, <2>1, <2>2, <2>7 DEF Entry
  <2>9. CacheShrinks
    BY Zenon, <1>2, <2>8, <2>2 DEF CacheShrinks
  <2>10. TtpTypes' /\ UNCHANGED <<blurred, mixed>>
    BY Zenon, <1>2, <2>8, <2>6 DEF TtpTypes, TtpInv, FindExistingTunnel
  <2> QED BY Zenon, <1>4, <2>6, <2>9, <2>10, NoLeaseStep
<1> QED BY Zenon, <1>5, <1>6

\* A step of a caller that leaves the cache alone
LEMMA CallerStep ==
  ASSUME TtpInv, TunnelsAge, NEW w \in TtpUsers, NEW q \in User,
         user' = [user EXCEPT ![w] = q],
         user[w].pc \notin {"opening", "using"}, q.pc \notin {"opening", "using"}, q.key = NoKey,
         q.pc \in {"attach", "insert", "got"} => q.tunnel # NoTunnel,
         q.tunnel # NoTunnel => tunnelState'[q.tunnel] # "unused",
         tunnelState' \in [CacheTunnels -> {"unused", "open", "closed"}], target' \in BOOLEAN,
         UNCHANGED <<entry, blurred, mixed>>
  PROVE  TtpInv'
<1>1. user' \in [TtpUsers -> User] /\ (\A v \in TtpUsers : UserOK(v)') /\ CallersKeep
  BY Zenon, CallerMoves
<1>2. CacheShrinks
  BY Zenon, CacheStands
<1>3. TtpTypes'
  BY Zenon, <1>1 DEF TtpTypes, TtpInv
<1> QED BY Zenon, <1>1, <1>2, <1>3, NoLeaseStep

\* ... when no tunnel changes either and it keeps the tunnel it has
LEMMA CallerGoesOn ==
  ASSUME TtpInv, NEW w \in TtpUsers, NEW pc \in {"idle", "search", "create", "insert", "refresh", "release"},
         NEW snap \in BOOLEAN,
         user' = [user EXCEPT ![w] = [user[w] EXCEPT !.pc = pc, !.snap = snap]],
         user[w].pc \notin {"opening", "using"},
         pc = "insert" => user[w].pc = "attach",
         target' \in BOOLEAN, UNCHANGED <<tunnelState, entry, blurred, mixed>>
  PROVE  TtpInv'
<1>1. user[w] \in User /\ UserOK(w) /\ user[w].key = NoKey
  BY Zenon DEF TtpInv, TtpTypes, UserOK
<1>2. PICK q : q = [user[w] EXCEPT !.pc = pc, !.snap = snap]
  BY Zenon
<1>3. q \in User /\ q.pc = pc /\ q.key = NoKey /\ q.tunnel = user[w].tunnel
      /\ user' = [user EXCEPT ![w] = q]
  BY Zenon, <1>1, <1>2 DEF User
<1>4. /\ q.pc \in {"attach", "insert", "got"} => q.tunnel # NoTunnel
      /\ q.tunnel # NoTunnel => tunnelState'[q.tunnel] # "unused"
  BY Zenon, <1>1, <1>3 DEF UserOK
<1>5. TunnelsAge /\ tunnelState' \in [CacheTunnels -> {"unused", "open", "closed"}]
  BY Zenon DEF TunnelsAge, TtpInv, TtpTypes
<1> QED BY Zenon, <1>3, <1>4, <1>5, CallerStep

\* ... or is done
LEMMA CallerEnds ==
  ASSUME TtpInv, TunnelsAge, NEW w \in TtpUsers, user' = [user EXCEPT ![w] = IdleUser],
         user[w].pc \notin {"opening", "using"},
         tunnelState' \in [CacheTunnels -> {"unused", "open", "closed"}], target' \in BOOLEAN,
         UNCHANGED <<entry, blurred, mixed>>
  PROVE  TtpInv'
BY Zenon, IdleUserOK, CallerStep

LEMMA CreateTunnelKeeps ==
  ASSUME TtpInv, NEW u \in TtpUsers, CreateTunnel(u)
  PROVE  TtpInv'
<1>1. /\ user[u] \in User /\ user[u].pc = "create" /\ UserOK(u) /\ user[u].key = NoKey
      /\ target' \in BOOLEAN /\ UNCHANGED <<entry, blurred, mixed>>
      /\ tunnelState \in [CacheTunnels -> {"unused", "open", "closed"}]
  BY Zenon DEF TtpInv, TtpTypes, UserOK, CreateTunnel, At
<1>2. CASE user' = [user EXCEPT ![u] = IdleUser] /\ UNCHANGED tunnelState
  BY Zenon, <1>1, <1>2, TunnelsStand, CallerEnds
<1>3. CASE \E t \in CacheTunnels :
             /\ tunnelState[t] = "unused"
             /\ tunnelState' = [tunnelState EXCEPT ![t] = "open"]
             /\ user' = [user EXCEPT ![u].pc = "attach", ![u].tunnel = t]
  <2>1. PICK t \in CacheTunnels :
             /\ tunnelState[t] = "unused"
             /\ tunnelState' = [tunnelState EXCEPT ![t] = "open"]
             /\ user' = [user EXCEPT ![u].pc = "attach", ![u].tunnel = t]
    BY Zenon, <1>3
  <2>2. PICK q : q = [user[u] EXCEPT !.pc = "attach", !.tunnel = t]
    BY Zenon
  <2>3. q \in User /\ q.pc = "attach" /\ q.key = NoKey /\ q.tunnel = t
        /\ user' = [user EXCEPT ![u] = q]
    BY Zenon, <1>1, <2>1, <2>2 DEF User
  <2>4. t # NoTunnel /\ tunnelState'[t] = "open" /\ TunnelsAge
        /\ tunnelState' \in [CacheTunnels -> {"unused", "open", "closed"}]
    BY Zenon, <1>1, <2>1, CacheAssumption DEF TunnelsAge
  <2> QED BY Zenon, <1>1, <2>3, <2>4, CallerStep
<1> QED BY Zenon, <1>2, <1>3 DEF CreateTunnel

LEMMA AttachTunnelKeeps ==
  ASSUME TtpInv, NEW u \in TtpUsers, AttachTunnel(u)
  PROVE  TtpInv'
<1>1. /\ user[u] \in User /\ user[u].pc = "attach" /\ UserOK(u) /\ user[u].key = NoKey
      /\ target' \in BOOLEAN /\ UNCHANGED <<entry, blurred, mixed>>
      /\ tunnelState \in [CacheTunnels -> {"unused", "open", "closed"}]
  BY Zenon DEF TtpInv, TtpTypes, UserOK, AttachTunnel, At
<1>2. CASE GoTo(u, "insert") /\ UNCHANGED tunnelState
  <2>1. user' = [user EXCEPT ![u] = [user[u] EXCEPT !.pc = "insert", !.snap = user[u].snap]]
        /\ user[u].snap \in BOOLEAN
    BY Zenon, <1>1, <1>2 DEF GoTo, User
  <2>2. "insert" \in {"idle", "search", "create", "insert", "refresh", "release"}
    BY Zenon
  <2> QED BY Zenon, <1>1, <1>2, <2>1, <2>2, CallerGoesOn
<1>3. CASE /\ tunnelState' = [tunnelState EXCEPT ![user[u].tunnel] = "closed"]
           /\ user' = [user EXCEPT ![u] = IdleUser]
  <2>1. TunnelsAge /\ tunnelState' \in [CacheTunnels -> {"unused", "open", "closed"}]
    BY Zenon, <1>1, <1>3 DEF TunnelsAge
  <2> QED BY Zenon, <1>1, <1>3, <2>1, CallerEnds
<1> QED BY Zenon, <1>2, <1>3 DEF AttachTunnel

LEMMA RememberTunnelEntryKeeps ==
  ASSUME TtpInv, NEW u \in TtpUsers, RememberTunnelEntry(u)
  PROVE  TtpInv'
<1>1. /\ user[u] \in User /\ user[u].pc = "insert" /\ UserOK(u) /\ user[u].key = NoKey
      /\ target \in BOOLEAN /\ TtpTypes /\ user[u].tunnel # NoTunnel
  BY Zenon DEF TtpInv, TtpTypes, UserOK, RememberTunnelEntry, At
<1>2. PICK t : t = user[u].tunnel
  BY Zenon
<1>3. t \in CacheTunnels /\ tunnelState[t] # "unused" /\ t # NoTunnel
  BY Zenon, <1>1, <1>2 DEF User, UserOK
<1>4. PICK k \in CacheKeys : k = KeyOf[t]
  BY Zenon, <1>3, CacheAssumption
<1>5. PICK left : left = Released(target)
  BY Zenon
<1>6. PICK e : e = [tunnel |-> t, maintained |-> target, leases |-> 0, old |-> FALSE]
  BY Zenon
<1>7. /\ left \in [CacheKeys -> Entry]
      /\ \A j \in CacheKeys :
           /\ left[j].tunnel \in {entry[j].tunnel, NoTunnel}
           /\ left[j].tunnel # NoTunnel => left[j].leases = entry[j].leases
           /\ Available(entry[j].tunnel) /\ entry[j].leases > 0 => left[j].tunnel = entry[j].tunnel
  BY <1>1, <1>5, ReleasedOK
<1>8. e \in Entry /\ e.tunnel = t /\ e.leases = 0
  BY Zenon, <1>1, <1>3, <1>6 DEF Entry
<1>9. /\ entry' = [left EXCEPT ![k] = e]
      /\ blurred' = IF LeaseHolders(k) = {} THEN blurred ELSE blurred \cup {k}
      /\ UNCHANGED <<tunnelState, target, mixed>>
  BY Zenon, <1>2, <1>4, <1>5, <1>6 DEF RememberTunnelEntry
<1>10. PICK q : q = [user[u] EXCEPT !.pc = "got"]
  BY Zenon
<1>11. q \in User /\ q.pc = "got" /\ q.key = NoKey /\ q.tunnel = t /\ user' = [user EXCEPT ![u] = q]
  BY Zenon, <1>1, <1>2, <1>10 DEF RememberTunnelEntry, GoTo, User
<1>12. TunnelsAge /\ tunnelState'[t] # "unused"
  BY Zenon, <1>3, <1>9 DEF TunnelsAge
<1>13. user' \in [TtpUsers -> User] /\ (\A v \in TtpUsers : UserOK(v)') /\ CallersKeep
  BY Zenon, <1>1, <1>3, <1>11, <1>12, CallerMoves
<1>14. TtpTypes' /\ EntriesMade'
  <2>1. TtpTypes'
    BY Zenon, <1>1, <1>7, <1>8, <1>9, <1>13 DEF TtpTypes
  <2>2. EntriesMade'
    BY Zenon, <1>3, <1>7, <1>8, <1>9 DEF EntriesMade, TtpInv
  <2> QED BY Zenon, <2>1, <2>2
<1>15. \A j \in CacheKeys : LeaseHolders(j)' = LeaseHolders(j)
  BY Zenon, <1>13 DEF LeaseHolders, CallersKeep
<1>16. /\ blurred \subseteq blurred' /\ entry'[k] = e
       /\ \A j \in CacheKeys : j # k => entry'[j] = left[j]
       /\ k \notin blurred' => LeaseHolders(k) = {}
  BY Zenon, <1>7, <1>9
<1>17. LeasesOK'
  <2>1. ASSUME NEW j \in CacheKeys \ blurred', Cached(j)'
        PROVE  entry'[j].leases = Cardinality(LeaseHolders(j)')
    <3>1. CASE j = k
      BY Zenon, <1>8, <1>15, <1>16, <3>1, FS_EmptySet
    <3>2. CASE j # k
      <4>1. entry'[j] = left[j] /\ j \notin blurred
        BY Zenon, <1>16, <3>2
      <4>2. left[j].tunnel # NoTunnel
        BY Zenon, <2>1, <4>1 DEF Cached
      <4>3. Cached(j) /\ left[j].leases = entry[j].leases
        BY Zenon, <1>7, <4>2 DEF Cached
      <4> QED BY Zenon, <1>15, <4>1, <4>3 DEF TtpInv, LeasesOK
    <3> QED BY Zenon, <3>1, <3>2
  <2> QED BY Zenon, <2>1 DEF LeasesOK
<1>18. KeptOK'
  <2>1. ASSUME NEW v \in Openers \ mixed', user'[v].pc \in {"opening", "using"},
               Available(user[v].tunnel)', user'[v].key \notin blurred'
        PROVE  entry'[user'[v].key].tunnel = user'[v].tunnel
    <3>1. v \in TtpUsers /\ v # u /\ user'[v] = user[v]
      BY Zenon, <1>1, <1>11, <2>1 DEF TtpUsers, TtpTypes
    <3>2. PICK j : j = user[v].key
      BY Zenon
    <3>3. j \in CacheKeys /\ v \in LeaseHolders(j) /\ j \notin blurred /\ Available(user[v].tunnel)
      BY Zenon, <1>9, <1>16, <2>1, <3>1, <3>2 DEF LeaseHolders, TtpInv, TtpTypes, UserOK, User, Available
    <3>4. j # k
      BY Zenon, <1>16, <2>1, <3>1, <3>2, <3>3
    <3>5. entry[j].tunnel = user[v].tunnel
      BY Zenon, <1>9, <2>1, <3>1, <3>2, <3>3 DEF TtpInv, KeptOK
    <3>6. entry[j].leases > 0
      <4>1. Cached(j)
        BY Zenon, <3>3, <3>5 DEF Cached, Available
      <4> QED BY Zenon, <3>3, <4>1, HoldersCounted DEF TtpInv, LeasesOK
    <3>7. left[j].tunnel = entry[j].tunnel
      BY Zenon, <1>7, <3>3, <3>5, <3>6
    <3> QED BY Zenon, <1>16, <3>1, <3>2, <3>3, <3>4, <3>5, <3>7
  <2> QED BY Zenon, <2>1 DEF KeptOK
<1> QED BY Zenon, <1>13, <1>14, <1>17, <1>18 DEF TtpInv

LEMMA AcquireLeaseKeeps ==
  ASSUME TtpInv, NEW u \in TtpUsers, AcquireLease(u)
  PROVE  TtpInv'
<1>1. /\ u \in Openers /\ user[u] \in User /\ user[u].pc = "got" /\ UserOK(u) /\ user[u].key = NoKey
      /\ user[u].tunnel # NoTunnel /\ target' \in BOOLEAN /\ TtpTypes /\ TunnelsAge
      /\ UNCHANGED <<tunnelState, target, blurred>>
  BY Zenon DEF TtpInv, TtpTypes, UserOK, AcquireLease, At, TunnelsAge
<1>2. CASE First(entry) = {}
  <2>1. user' = [user EXCEPT ![u] = IdleUser] /\ UNCHANGED <<entry, mixed>>
    BY Zenon, <1>2 DEF AcquireLease
  <2>2. tunnelState' \in [CacheTunnels -> {"unused", "open", "closed"}]
    BY Zenon, <1>1 DEF TtpTypes
  <2> QED BY Zenon, <1>1, <2>1, <2>2, CallerEnds
<1>3. CASE First(entry) # {}
  <2>1. PICK k \in First(entry) :
       /\ entry' = [entry EXCEPT ![k].leases = @ + 1, ![k].old = FALSE]
       /\ user' = [user EXCEPT ![u].pc = "opening", ![u].key = k]
       /\ mixed' = IF entry[k].tunnel = user[u].tunnel THEN mixed ELSE mixed \cup {u}
    BY Zenon, <1>3 DEF AcquireLease
  <2>2. k \in CacheKeys /\ Cached(k) /\ entry[k] \in Entry /\ k # NoKey
    BY Zenon, <1>1, CacheAssumption DEF First, Cached, TtpTypes
  <2>a. entry[k].leases \in Nat
    BY Zenon, <2>2 DEF Entry
  <2>b. PICK n \in Nat : n = entry[k].leases + 1
    BY <2>a
  <2>3. PICK e : e = [entry[k] EXCEPT !.leases = n, !.old = FALSE]
    BY Zenon
  <2>4. e \in Entry /\ e.tunnel = entry[k].tunnel /\ e.leases = entry[k].leases + 1
        /\ entry' = [entry EXCEPT ![k] = e] /\ entry[k].leases \in Nat
    <3>1. e \in Entry /\ e.tunnel = entry[k].tunnel /\ e.leases = entry[k].leases + 1
          /\ entry[k].leases \in Nat
      BY Zenon, <2>2, <2>3, <2>a, <2>b DEF Entry
    <3>2. entry \in [CacheKeys -> Entry]
      BY Zenon, <1>1 DEF TtpTypes
    <3>3. entry' = [entry EXCEPT ![k] = e]
      BY Zenon, <2>1, <2>2, <2>3, <2>b, <3>2
    <3> QED BY Zenon, <3>1, <3>3
  <2>5. PICK q : q = [user[u] EXCEPT !.pc = "opening", !.key = k]
    BY Zenon
  <2>6. q \in User /\ q.pc = "opening" /\ q.key = k /\ q.tunnel = user[u].tunnel
        /\ user' = [user EXCEPT ![u] = q]
    BY Zenon, <1>1, <2>1, <2>2, <2>5 DEF User
  <2>7. /\ entry' \in [CacheKeys -> Entry] /\ entry'[k] = e
        /\ \A j \in CacheKeys : j # k => entry'[j] = entry[j]
    BY Zenon, <1>1, <2>2, <2>4 DEF TtpTypes
  <2>8. /\ user' \in [TtpUsers -> User] /\ user'[u] = q
        /\ \A v \in TtpUsers : v # u => user'[v] = user[v]
    BY Zenon, <1>1, <2>6 DEF TtpTypes
  <2>9. TtpTypes'
    BY Zenon, <1>1, <2>7, <2>8 DEF TtpTypes
  <2>10. EntriesMade'
    BY Zenon, <1>1, <2>4, <2>7 DEF EntriesMade, TtpInv
  <2>11. ASSUME NEW v \in TtpUsers
         PROVE  UserOK(v)'
    <3>1. CASE v = u
      BY Zenon, <1>1, <2>2, <2>6, <2>8, <3>1 DEF UserOK
    <3>2. CASE v # u
      BY Zenon, <1>1, <2>8, <3>2 DEF UserOK, TtpInv
    <3> QED BY Zenon, <3>1, <3>2
  <2>12. /\ LeaseHolders(k)' = LeaseHolders(k) \cup {u} /\ u \notin LeaseHolders(k)
         /\ \A j \in CacheKeys : j # k => LeaseHolders(j)' = LeaseHolders(j)
    <3>1. \A v \in Openers : v \in TtpUsers
      BY Zenon DEF TtpUsers
    <3>2. \A j \in CacheKeys : j # NoKey
      BY Zenon, CacheAssumption
    <3> QED BY Zenon, <1>1, <2>2, <2>6, <2>8, <3>1, <3>2 DEF LeaseHolders
  <2>13. Cardinality(LeaseHolders(k)') = Cardinality(LeaseHolders(k)) + 1
    BY Zenon, <2>12, HoldersCounted, FS_AddElement
  <2>14. LeasesOK'
    <3>1. ASSUME NEW j \in CacheKeys \ blurred', Cached(j)'
          PROVE  entry'[j].leases = Cardinality(LeaseHolders(j)')
      <4>1. CASE j = k
        BY Zenon, <1>1, <2>2, <2>4, <2>7, <2>13, <4>1 DEF TtpInv, LeasesOK
      <4>2. CASE j # k
        <5>1. entry'[j] = entry[j] /\ Cached(j) /\ j \notin blurred
          BY Zenon, <1>1, <2>7, <3>1, <4>2 DEF Cached
        <5> QED BY Zenon, <2>12, <4>2, <5>1 DEF TtpInv, LeasesOK
      <4> QED BY Zenon, <4>1, <4>2
    <3> QED BY Zenon, <3>1 DEF LeasesOK
  <2>15. \A j \in CacheKeys : entry'[j].tunnel = entry[j].tunnel
    BY Zenon, <2>4, <2>7
  <2>16. KeptOK'
    <3>1. ASSUME NEW v \in Openers \ mixed', user'[v].pc \in {"opening", "using"},
                 Available(user[v].tunnel)', user'[v].key \notin blurred'
          PROVE  entry'[user'[v].key].tunnel = user'[v].tunnel
      <4>1. CASE v = u
        BY Zenon, <2>1, <2>4, <2>6, <2>7, <2>8, <3>1, <4>1
      <4>2. CASE v # u
        <5>1. v \in TtpUsers /\ user'[v] = user[v] /\ v \notin mixed
          BY Zenon, <2>1, <2>8, <3>1, <4>2 DEF TtpUsers
        <5>2. user[v].key \in CacheKeys
          BY Zenon, <3>1, <5>1 DEF TtpInv, UserOK, TtpTypes, User
        <5>3. Available(user[v].tunnel)
          BY Zenon, <1>1, <3>1, <5>1 DEF Available
        <5>4. entry[user[v].key].tunnel = user[v].tunnel
          BY Zenon, <1>1, <3>1, <5>1, <5>3 DEF TtpInv, KeptOK
        <5> QED BY Zenon, <2>15, <5>1, <5>2, <5>4
      <4> QED BY Zenon, <4>1, <4>2
    <3> QED BY Zenon, <3>1 DEF KeptOK
  <2> QED BY Zenon, <2>9, <2>10, <2>11, <2>14, <2>16 DEF TtpInv
<1> QED BY Zenon, <1>2, <1>3

LEMMA DropLeaseKeeps ==
  ASSUME TtpInv, NEW u \in TtpUsers, DropLease(u)
  PROVE  TtpInv'
<1>1. /\ u \in Openers /\ user[u] \in User /\ UserOK(u) /\ user[u].key # NoKey
      /\ TtpTypes /\ UNCHANGED <<tunnelState, target, blurred>>
      /\ user' = [user EXCEPT ![u] = IdleUser] /\ mixed' = mixed \ {u}
  BY Zenon DEF TtpInv, TtpTypes, UserOK, DropLease
<1>2. PICK k \in CacheKeys : k = user[u].key
  BY Zenon, <1>1 DEF User
<1>3. /\ user' \in [TtpUsers -> User] /\ user'[u] = IdleUser
      /\ \A v \in TtpUsers : v # u => user'[v] = user[v]
  BY Zenon, <1>1, IdleUserOK DEF TtpTypes
<1>4. /\ entry' \in [CacheKeys -> Entry]
      /\ \A j \in CacheKeys : j # k => entry'[j] = entry[j]
      /\ entry'[k].tunnel = entry[k].tunnel
      /\ Cached(k) => entry'[k].leases = IF entry[k].leases = 0 THEN 0 ELSE entry[k].leases - 1
  <2>1. entry' = LeaseDropped(k)
    BY Zenon, <1>2 DEF DropLease
  <2>2. CASE ~Cached(k)
    BY Zenon, <1>1, <2>1, <2>2 DEF LeaseDropped, TtpTypes
  <2>3. CASE Cached(k)
    <3>1. entry[k] \in Entry /\ entry[k].leases \in Nat
      BY Zenon, <1>1 DEF TtpTypes, Entry
    <3>2. PICK n \in Nat : n = IF entry[k].leases = 0 THEN 0 ELSE entry[k].leases - 1
      BY <3>1
    <3>3. PICK e : e = [entry[k] EXCEPT !.leases = n, !.old = FALSE]
      BY Zenon
    <3>4. e \in Entry /\ e.leases = n /\ e.tunnel = entry[k].tunnel
      BY Zenon, <3>1, <3>3 DEF Entry
    <3>5. entry' = [entry EXCEPT ![k] = e]
      BY Zenon, <2>1, <2>3, <3>1, <3>2, <3>3 DEF LeaseDropped, Entry
    <3> QED BY Zenon, <1>1, <3>2, <3>4, <3>5 DEF TtpTypes
  <2> QED BY Zenon, <2>2, <2>3
<1>5. \A j \in CacheKeys : entry'[j].tunnel = entry[j].tunnel
  BY Zenon, <1>4
<1>6. TtpTypes' /\ EntriesMade'
  BY Zenon, <1>1, <1>3, <1>4, <1>5 DEF TtpTypes, EntriesMade, TtpInv
<1>7. ASSUME NEW v \in TtpUsers
      PROVE  UserOK(v)'
  <2>1. CASE v = u
    BY Zenon, <1>3, <2>1, IdleUserOK DEF UserOK
  <2>2. CASE v # u
    BY Zenon, <1>1, <1>3, <2>2 DEF UserOK, TtpInv
  <2> QED BY Zenon, <2>1, <2>2
<1>8. /\ LeaseHolders(k)' = LeaseHolders(k) \ {u} /\ u \in LeaseHolders(k)
      /\ \A j \in CacheKeys : j # k => LeaseHolders(j)' = LeaseHolders(j)
  <2>1. \A v \in Openers : v \in TtpUsers
    BY Zenon DEF TtpUsers
  <2>2. \A j \in CacheKeys : j # NoKey
    BY Zenon, CacheAssumption
  <2> QED BY Zenon, <1>1, <1>2, <1>3, <2>1, <2>2, IdleUserOK DEF LeaseHolders
<1>9. /\ Cardinality(LeaseHolders(k)') = Cardinality(LeaseHolders(k)) - 1
      /\ Cardinality(LeaseHolders(k)) \in Nat /\ Cardinality(LeaseHolders(k)) > 0
  BY Zenon, <1>8, HoldersCounted, FS_RemoveElement
<1>10. LeasesOK'
  <2>1. ASSUME NEW j \in CacheKeys \ blurred', Cached(j)'
        PROVE  entry'[j].leases = Cardinality(LeaseHolders(j)')
    <3>1. Cached(j) /\ j \notin blurred
      BY Zenon, <1>1, <1>5, <2>1 DEF Cached
    <3>2. entry[j].leases = Cardinality(LeaseHolders(j))
      BY Zenon, <3>1 DEF TtpInv, LeasesOK
    <3>3. CASE j = k
      BY <1>4, <1>9, <3>1, <3>2, <3>3
    <3>4. CASE j # k
      BY Zenon, <1>4, <1>8, <3>2, <3>4
    <3> QED BY Zenon, <3>3, <3>4
  <2> QED BY Zenon, <2>1 DEF LeasesOK
<1>11. KeptOK'
  <2>1. ASSUME NEW v \in Openers \ mixed', user'[v].pc \in {"opening", "using"},
               Available(user[v].tunnel)', user'[v].key \notin blurred'
        PROVE  entry'[user'[v].key].tunnel = user'[v].tunnel
    <3>1. v \in TtpUsers /\ v # u /\ user'[v] = user[v] /\ v \notin mixed
      BY Zenon, <1>1, <1>3, <2>1, IdleUserOK DEF TtpUsers
    <3>2. user[v].key \in CacheKeys
      BY Zenon, <2>1, <3>1 DEF TtpInv, UserOK, TtpTypes, User
    <3>3. Available(user[v].tunnel)
      BY Zenon, <1>1, <2>1, <3>1 DEF Available
    <3>4. user[v].pc \in {"opening", "using"} /\ user[v].key \notin blurred /\ v \in Openers \ mixed
      BY <1>1, <2>1, <3>1
    <3>5. entry[user[v].key].tunnel = user[v].tunnel
      BY Zenon, <3>3, <3>4 DEF TtpInv, KeptOK
    <3> QED BY Zenon, <1>5, <3>1, <3>2, <3>5
  <2> QED BY Zenon, <2>1 DEF KeptOK
<1> QED BY Zenon, <1>6, <1>7, <1>10, <1>11 DEF TtpInv

LEMMA OpenChannelKeeps ==
  ASSUME TtpInv, NEW u \in TtpUsers, OpenChannel(u)
  PROVE  TtpInv'
<1>1. /\ user[u] \in User /\ UserOK(u) /\ user[u].pc = "opening" /\ TtpTypes
      /\ UNCHANGED <<tunnelState, entry, target, maintaining, blurred, mixed>>
  BY Zenon DEF TtpInv, TtpTypes, OpenChannel, At
<1>2. PICK q : q = [user[u] EXCEPT !.pc = "using"]
  BY Zenon
<1>3. q \in User /\ q.pc = "using" /\ q.key = user[u].key /\ q.tunnel = user[u].tunnel
      /\ user' = [user EXCEPT ![u] = q]
  BY Zenon, <1>1, <1>2 DEF OpenChannel, GoTo, User
<1>4. /\ user' \in [TtpUsers -> User] /\ user'[u] = q
      /\ \A v \in TtpUsers : v # u => user'[v] = user[v]
  BY Zenon, <1>1, <1>3 DEF TtpTypes
<1>5. CallersKeep
  BY Zenon, <1>1, <1>3, <1>4 DEF CallersKeep, TtpUsers
<1>6. ASSUME NEW v \in TtpUsers
      PROVE  UserOK(v)'
  <2>1. CASE v = u
    BY Zenon, <1>1, <1>3, <1>4, <2>1 DEF UserOK
  <2>2. CASE v # u
    BY Zenon, <1>1, <1>4, <2>2 DEF UserOK, TtpInv
  <2> QED BY Zenon, <2>1, <2>2
<1>7. TtpTypes'
  BY Zenon, <1>1, <1>4 DEF TtpTypes
<1>8. CacheShrinks /\ TunnelsAge
  BY Zenon, <1>1, CacheStands, TunnelsStand
<1> QED BY Zenon, <1>1, <1>5, <1>6, <1>7, <1>8, NoLeaseStep

\* A caller is done, and what it did to the cache took nothing out under a lease
LEMMA CallerEndsOnCache ==
  ASSUME TtpInv, NEW w \in TtpUsers, user' = [user EXCEPT ![w] = IdleUser],
         user[w].pc \notin {"opening", "using"},
         entry' \in [CacheKeys -> Entry], CacheShrinks,
         UNCHANGED <<tunnelState, target, blurred, mixed>>
  PROVE  TtpInv'
<1>1. TunnelsAge
  BY Zenon, TunnelsStand
<1>2. user' \in [TtpUsers -> User] /\ (\A v \in TtpUsers : UserOK(v)') /\ CallersKeep
  BY Zenon, <1>1, IdleUserOK, CallerMoves
<1>3. TtpTypes'
  BY Zenon, <1>2 DEF TtpTypes, TtpInv
<1> QED BY Zenon, <1>1, <1>2, <1>3, NoLeaseStep

LEMMA RefreshMaintainedKeeps ==
  ASSUME TtpInv, NEW u \in TtpUsers, RefreshMaintained(u)
  PROVE  TtpInv'
<1>1. user[u].pc = "refresh" /\ user' = [user EXCEPT ![u] = IdleUser] /\ TtpTypes
      /\ UNCHANGED <<tunnelState, target, blurred, mixed>>
  BY Zenon DEF RefreshMaintained, At, TtpInv
<1>2. ASSUME NEW k \in CacheKeys
      PROVE  entry'[k] \in Entry /\ entry'[k].tunnel = entry[k].tunnel
             /\ (entry[k].tunnel # NoTunnel => entry'[k].leases = entry[k].leases)
  <2>1. entry[k] \in Entry /\ target \in BOOLEAN
    BY Zenon, <1>1 DEF TtpTypes
  <2>2. CASE Cached(k)
    <3>1. entry'[k] = [entry[k] EXCEPT !.maintained = target, !.old = FALSE]
      BY Zenon, <2>2 DEF RefreshMaintained
    <3> QED BY Zenon, <2>1, <3>1 DEF Entry
  <2>3. CASE ~Cached(k)
    <3>1. entry'[k] = NoEntry /\ entry[k].tunnel = NoTunnel
      BY Zenon, <2>3 DEF RefreshMaintained, Cached
    <3> QED BY <3>1 DEF NoEntry, Entry
  <2> QED BY Zenon, <2>2, <2>3
<1>3. entry' = [k \in CacheKeys |-> entry'[k]]
  BY Zenon DEF RefreshMaintained
<1>4. entry' \in [CacheKeys -> Entry] /\ CacheShrinks
  BY Zenon, <1>2, <1>3 DEF CacheShrinks
<1> QED BY Zenon, <1>1, <1>4, CallerEndsOnCache

LEMMA SweepReleasesKeeps ==
  ASSUME TtpInv, SweepReleases
  PROVE  TtpInv'
<1>1. /\ Sweeper \in TtpUsers /\ user[Sweeper].pc = "release" /\ user[Sweeper] \in User /\ TtpTypes
      /\ user' = [user EXCEPT ![Sweeper] = IdleUser]
      /\ UNCHANGED <<tunnelState, target, blurred, mixed>>
  BY Zenon DEF SweepReleases, At, TtpInv, TtpTypes, TtpUsers
<1>2. PICK snap \in BOOLEAN : snap = user[Sweeper].snap
  BY Zenon, <1>1 DEF User
<1>3. PICK e : e = Released(snap)
  BY Zenon
<1>4. entry' = e
  BY Zenon, <1>2, <1>3 DEF SweepReleases
<1>5. entry' \in [CacheKeys -> Entry] /\ CacheShrinks
  BY Zenon, <1>1, <1>3, <1>4, ReleasedOK DEF CacheShrinks
<1> QED BY Zenon, <1>1, <1>5, CallerEndsOnCache

LEMMA GrowKeeps ==
  ASSUME TtpInv, NEW k \in CacheKeys, Grow(k)
  PROVE  TtpInv'
<1>1. entry[k] \in Entry /\ UNCHANGED <<tunnelState, target, user, blurred, mixed>> /\ TtpTypes
  BY Zenon DEF Grow, TtpInv, TtpTypes
<1>2. PICK e : e = [entry[k] EXCEPT !.old = TRUE]
  BY Zenon
<1>3. e \in Entry /\ e.tunnel = entry[k].tunnel /\ e.leases = entry[k].leases
      /\ entry' = [entry EXCEPT ![k] = e]
  BY Zenon, <1>1, <1>2 DEF Entry, Grow
<1>4. TtpTypes'
  BY Zenon, <1>1, <1>3 DEF TtpTypes
<1>5. CacheShrinks
  BY Zenon, <1>1, <1>3 DEF CacheShrinks, TtpTypes
<1>6. CallersKeep /\ TunnelsAge
  BY Zenon, <1>1 DEF CallersKeep, TunnelsAge
<1>7. \A v \in TtpUsers : UserOK(v)'
  BY Zenon, <1>1 DEF UserOK, TtpInv
<1> QED BY Zenon, <1>1, <1>4, <1>5, <1>6, <1>7, NoLeaseStep

LEMMA TunnelDiesKeeps ==
  ASSUME TtpInv, NEW t \in CacheTunnels, TunnelDies(t)
  PROVE  TtpInv'
<1>1. UNCHANGED <<entry, target, user, blurred, mixed>> /\ TtpTypes
  BY Zenon DEF TunnelDies, TtpInv
<1>2. TtpTypes' /\ TunnelsAge
  BY Zenon, <1>1 DEF TunnelDies, TtpTypes, TunnelsAge
<1>3. CallersKeep /\ CacheShrinks
  BY Zenon, <1>1, CacheStands DEF CallersKeep
<1>4. \A v \in TtpUsers : UserOK(v)'
  <2>1. ASSUME NEW v \in TtpUsers
        PROVE  UserOK(v)'
    <3>1. user'[v] = user[v] /\ UserOK(v) /\ user[v] \in User
      BY Zenon, <1>1 DEF TtpInv, TtpTypes
    <3>2. user[v].tunnel # NoTunnel => user[v].tunnel \in CacheTunnels
      BY Zenon, <3>1 DEF User
    <3> QED BY Zenon, <1>2, <3>1, <3>2 DEF UserOK, TunnelsAge
  <2> QED BY Zenon, <2>1
<1> QED BY Zenon, <1>1, <1>2, <1>3, <1>4, NoLeaseStep

LEMMA TtpNextKeeps ==
  ASSUME TtpInv, [TtpNext]_ttpVars
  PROVE  TtpInv'
<1>1. ASSUME NEW u \in TtpUsers, BeginCall(u)
      PROVE  TtpInv'
  <2>1. user[u] \in User /\ user[u].pc = "idle" /\ target' \in BOOLEAN
        /\ UNCHANGED <<tunnelState, entry, blurred, mixed>>
    BY Zenon, <1>1 DEF BeginCall, At, TtpInv, TtpTypes
  <2>2. user' = [user EXCEPT ![u] = [user[u] EXCEPT !.pc = "search", !.snap = user[u].snap]]
        /\ user[u].snap \in BOOLEAN
    BY Zenon, <1>1, <2>1 DEF BeginCall, GoTo, User
  <2> QED BY Zenon, <2>1, <2>2, CallerGoesOn
<1>2. ASSUME PushTarget
      PROVE  TtpInv'
  <2>1. Connector \in TtpUsers /\ user[Connector] \in User /\ user[Connector].pc = "got"
        /\ target' \in BOOLEAN /\ UNCHANGED <<tunnelState, entry, blurred, mixed>>
    BY Zenon, <1>2 DEF PushTarget, At, TtpInv, TtpTypes, TtpUsers
  <2>2. user' = [user EXCEPT ![Connector] =
                   [user[Connector] EXCEPT !.pc = "refresh", !.snap = user[Connector].snap]]
        /\ user[Connector].snap \in BOOLEAN
    BY Zenon, <1>2, <2>1 DEF PushTarget, GoTo, User
  <2> QED BY Zenon, <2>1, <2>2, CallerGoesOn
<1>3. ASSUME RemoveServer
      PROVE  TtpInv'
  <2>1. Remover \in TtpUsers /\ user[Remover] \in User /\ user[Remover].pc = "idle"
        /\ target' \in BOOLEAN /\ UNCHANGED <<tunnelState, entry, blurred, mixed>>
    BY Zenon, <1>3 DEF RemoveServer, At, TtpInv, TtpTypes, TtpUsers
  <2>2. user' = [user EXCEPT ![Remover] =
                   [user[Remover] EXCEPT !.pc = "refresh", !.snap = user[Remover].snap]]
        /\ user[Remover].snap \in BOOLEAN
    BY Zenon, <1>3, <2>1 DEF RemoveServer, GoTo, User
  <2> QED BY Zenon, <2>1, <2>2, CallerGoesOn
<1>4. ASSUME MaintainRound
      PROVE  TtpInv'
  <2>1. Connector \in TtpUsers /\ user[Connector].pc = "got" /\ target' \in BOOLEAN
        /\ tunnelState' \in [CacheTunnels -> {"unused", "open", "closed"}]
        /\ UNCHANGED <<tunnelState, entry, blurred, mixed>>
        /\ user' = [user EXCEPT ![Connector] = IdleUser]
    BY Zenon, <1>4 DEF MaintainRound, At, TtpInv, TtpTypes, TtpUsers
  <2> QED BY Zenon, <2>1, TunnelsStand, CallerEnds
<1>5. ASSUME SweepBegins
      PROVE  TtpInv'
  <2>1. Sweeper \in TtpUsers /\ user[Sweeper] \in User /\ user[Sweeper].pc = "idle"
        /\ target \in BOOLEAN /\ target' \in BOOLEAN
        /\ UNCHANGED <<tunnelState, entry, blurred, mixed>> /\ TtpTypes
    BY Zenon, <1>5 DEF SweepBegins, At, TtpInv, TtpTypes, TtpUsers
  <2>2. user' = [user EXCEPT ![Sweeper] =
                   [user[Sweeper] EXCEPT !.pc = "release", !.snap = target]]
    BY Zenon, <1>5, <2>1 DEF SweepBegins, TtpTypes
  <2> QED BY Zenon, <2>1, <2>2, CallerGoesOn
<1>6. CASE UNCHANGED ttpVars
  BY <1>6 DEF ttpVars, TtpInv, TtpTypes, EntriesMade, UserOK, LeasesOK, KeptOK, Cached, Available,
              LeaseHolders
<1> QED
  BY Zenon, <1>1, <1>2, <1>3, <1>4, <1>5, <1>6, FindExistingTunnelKeeps, CreateTunnelKeeps,
     AttachTunnelKeeps, RememberTunnelEntryKeeps, AcquireLeaseKeeps, OpenChannelKeeps,
     DropLeaseKeeps, RefreshMaintainedKeeps, SweepReleasesKeeps, GrowKeeps, TunnelDiesKeeps
  DEF TtpNext

LEMMA TtpStarts == TtpInit => TtpInv
<1> SUFFICES ASSUME TtpInit PROVE TtpInv
  BY Zenon
<1>1. NoEntry \in Entry /\ NoEntry.tunnel = NoTunnel
  BY Zenon DEF NoEntry, Entry
<1>2. \A k \in CacheKeys : entry[k] = NoEntry
  BY Zenon DEF TtpInit
<1>3. \A u \in TtpUsers : user[u] = IdleUser
  BY Zenon DEF TtpInit
<1>4. TtpTypes
  BY Zenon, <1>1, IdleUserOK DEF TtpTypes, TtpInit
<1>5. EntriesMade /\ LeasesOK
  BY Zenon, <1>1, <1>2 DEF EntriesMade, LeasesOK, Cached
<1>6. \A u \in TtpUsers : UserOK(u)
  BY Zenon, <1>3, IdleUserOK DEF UserOK
<1>7. KeptOK
  BY Zenon, <1>3, IdleUserOK DEF KeptOK, TtpUsers
<1> QED BY Zenon, <1>4, <1>5, <1>6, <1>7 DEF TtpInv

\* A lease keeps its tunnel cached: the idle release leaves the entry alone as long
\* as a stream under a lease of it is open on a live tunnel, for any number of
\* callers, tunnels and keys. An entry not replaced under a lease counts its leases.
THEOREM LeasesKeepTunnels == TtpInit /\ [][TtpNext]_ttpVars => []LeaseKeepsTunnel
<1>1. TtpInv => LeaseKeepsTunnel
  BY Zenon DEF TtpInv, KeptOK, LeaseKeepsTunnel, At
<1> QED BY <1>1, TtpStarts, TtpNextKeeps, PTL

\* What a release with no maintained target leaves alone: entries used lately or leased
InUse == \A k \in CacheKeys : Available(entry[k].tunnel) /\ entry[k].old => entry[k].leases > 0

\* A sweep that began before connect_server added the target finds every entry in use:
\* get_or_create_tunnel released the others, or remove_server has refreshed them
MaintainInv ==
  ~At(Remover, "refresh") =>
    /\ target /\ At(Sweeper, "release") /\ ~user[Sweeper].snap => InUse
    /\ ~target /\ At(Connector, "got") => InUse

\* No entry grows old
NoneAges ==
  \A k \in CacheKeys : entry'[k].tunnel # NoTunnel /\ entry'[k].old =>
    entry'[k].tunnel = entry[k].tunnel /\ entry[k].old /\ entry'[k].leases >= entry[k].leases

\* No entry with a live tunnel goes
NoneGoes == \A k \in CacheKeys : Available(entry[k].tunnel) => entry'[k].tunnel # NoTunnel

LEMMA InUseStays ==
  ASSUME TtpInv, TtpInv', InUse, TunnelsAge, NoneAges
  PROVE  InUse'
<1> SUFFICES ASSUME NEW k \in CacheKeys, Available(entry[k].tunnel)', entry'[k].old
             PROVE  entry'[k].leases > 0
  BY Zenon DEF InUse
<1>1. entry'[k].tunnel # NoTunnel /\ tunnelState'[entry'[k].tunnel] = "open"
  BY Zenon DEF Available
<1>2. entry'[k].tunnel = entry[k].tunnel /\ entry[k].old /\ entry'[k].leases >= entry[k].leases
  BY Zenon, <1>1 DEF NoneAges
<1>3. entry[k].tunnel \in CacheTunnels /\ tunnelState[entry[k].tunnel] # "unused"
  BY Zenon, <1>1, <1>2 DEF TtpInv, TtpTypes, Entry, EntriesMade
<1>4. Available(entry[k].tunnel)
  BY Zenon, <1>1, <1>2, <1>3 DEF Available, TunnelsAge
<1>5. entry[k].leases > 0 /\ entry[k].leases \in Nat /\ entry'[k].leases \in Nat
  BY Zenon, <1>2, <1>4 DEF InUse, TtpInv, TtpTypes, Entry
<1> QED BY <1>2, <1>5

LEMMA ReleasedInUse ==
  ASSUME TtpTypes, NEW snap \in BOOLEAN, NEW e, e = Released(snap), NEW k \in CacheKeys
  PROVE  /\ e[k].tunnel # NoTunnel =>
              e[k].tunnel = entry[k].tunnel /\ e[k].old = entry[k].old /\ e[k].leases = entry[k].leases
         /\ Available(entry[k].tunnel) /\ (snap \/ ~entry[k].old \/ entry[k].leases > 0)
              => e[k].tunnel # NoTunnel
         /\ ~snap /\ e[k].tunnel # NoTunnel => entry[k].leases > 0 \/ ~entry[k].old
<1>1. entry[k] \in Entry
  BY Zenon DEF TtpTypes
<1>2. CASE Available(entry[k].tunnel) /\ (snap \/ entry[k].leases > 0 \/ ~entry[k].old)
  <2>1. e[k] = [entry[k] EXCEPT !.maintained = snap]
    BY Zenon, <1>2 DEF Released
  <2>2. e[k].tunnel = entry[k].tunnel /\ e[k].old = entry[k].old /\ e[k].leases = entry[k].leases
    BY Zenon, <1>1, <2>1 DEF Entry
  <2> QED BY Zenon, <1>2, <2>2 DEF Available
<1>3. CASE ~ (Available(entry[k].tunnel) /\ (snap \/ entry[k].leases > 0 \/ ~entry[k].old))
  <2>1. e[k].tunnel = NoTunnel
    BY Zenon, <1>3 DEF Released, NoEntry
  <2> QED BY Zenon, <1>3, <2>1
<1> QED BY Zenon, <1>2, <1>3

\* A caller's step that does not begin a sweep, nor finds a tunnel for connect_server
\* while the target is not maintained
LEMMA MaintainGoesOn ==
  ASSUME TtpInv, MaintainInv, NEW u \in TtpUsers, NEW q, user' = [user EXCEPT ![u] = q],
         user[u].pc # "refresh", q.pc # "release", q.pc = "got" => u # Connector \/ target,
         UNCHANGED target, InUse => InUse'
  PROVE  MaintainInv'
<1>1. /\ user'[u] = q /\ \A w \in TtpUsers : w # u => user'[w] = user[w]
      /\ Connector \in TtpUsers /\ Remover \in TtpUsers /\ Sweeper \in TtpUsers
  BY Zenon DEF TtpInv, TtpTypes, TtpUsers
<1>2. At(Remover, "refresh") => At(Remover, "refresh")'
  BY Zenon, <1>1 DEF At
<1>3. At(Sweeper, "release")' => At(Sweeper, "release") /\ user'[Sweeper] = user[Sweeper]
  BY Zenon, <1>1 DEF At
<1>4. At(Connector, "got")' /\ ~target => At(Connector, "got")
  BY Zenon, <1>1 DEF At
<1> QED BY Zenon, <1>2, <1>3, <1>4 DEF MaintainInv

LEMMA MaintainFindsInUse ==
  ASSUME InUse'
  PROVE  MaintainInv'
BY Zenon DEF MaintainInv

LEMMA MaintainFind ==
  ASSUME TtpInv, TtpInv', MaintainInv, NEW u \in TtpUsers, FindExistingTunnel(u)
  PROVE  MaintainInv' /\ (target => NoneGoes)
<1>1. TtpTypes /\ target \in BOOLEAN /\ TunnelsAge /\ user[u].pc = "search" /\ UNCHANGED target
  BY Zenon DEF TtpInv, TtpTypes, FindExistingTunnel, TunnelsAge, At
<1>2. PICK left : left = Released(target)
  BY Zenon
<1>3. left \in [CacheKeys -> Entry]
  BY Zenon, <1>1, <1>2, ReleasedOK
<1>4. \A k \in CacheKeys : entry'[k].tunnel = left[k].tunnel
                           /\ (entry'[k].old => left[k].old) /\ entry'[k].leases = left[k].leases
  <2>1. CASE entry' = left
    BY Zenon, <2>1
  <2>2. ASSUME NEW k \in CacheKeys, entry' = [left EXCEPT ![k].old = FALSE]
        PROVE  \A j \in CacheKeys : entry'[j].tunnel = left[j].tunnel
                           /\ (entry'[j].old => left[j].old) /\ entry'[j].leases = left[j].leases
    <3>1. entry'[k] = [left[k] EXCEPT !.old = FALSE] /\ left[k] \in Entry
          /\ \A j \in CacheKeys : j # k => entry'[j] = left[j]
      BY Zenon, <1>3, <2>2
    <3>2. entry'[k].tunnel = left[k].tunnel /\ ~entry'[k].old /\ entry'[k].leases = left[k].leases
      BY Zenon, <3>1 DEF Entry
    <3> QED BY Zenon, <3>1, <3>2
  <2> QED BY Zenon, <1>2, <2>1, <2>2 DEF FindExistingTunnel, First
<1>5. \A k \in CacheKeys : entry[k].leases \in Nat /\ left[k].leases \in Nat
  BY Zenon, <1>1, <1>3 DEF TtpTypes, Entry
<1>6. NoneAges
  BY <1>1, <1>2, <1>4, <1>5, ReleasedInUse DEF NoneAges
<1>7. target => NoneGoes
  <2> SUFFICES ASSUME target, NEW k \in CacheKeys, Available(entry[k].tunnel)
               PROVE  entry'[k].tunnel # NoTunnel
    BY Zenon DEF NoneGoes
  <2>1. left[k].tunnel # NoTunnel
    BY Zenon, <1>1, <1>2, ReleasedInUse
  <2> QED BY Zenon, <1>4, <2>1
<1>8. CASE ~target
  <2>1. InUse'
    BY <1>1, <1>2, <1>4, <1>5, <1>8, ReleasedInUse DEF InUse, Available
  <2> QED BY Zenon, <1>8, <2>1, MaintainFindsInUse
<1>9. CASE target
  <2>1. InUse => InUse'
    BY Zenon, <1>1, <1>6, InUseStays
  <2>2. PICK q : user' = [user EXCEPT ![u] = q] /\ q.pc \in {"create", "got"}
    <3>1. CASE GoTo(u, "create")
      <4>1. user' = [user EXCEPT ![u] = [user[u] EXCEPT !.pc = "create"]]
            /\ [user[u] EXCEPT !.pc = "create"].pc = "create"
        BY Zenon, <1>1, <3>1 DEF GoTo, TtpTypes, User
      <4> QED BY Zenon, <4>1
    <3>2. ASSUME NEW k, user' = [user EXCEPT ![u].pc = "got", ![u].tunnel = left[k].tunnel]
          PROVE  \E q : user' = [user EXCEPT ![u] = q] /\ q.pc \in {"create", "got"}
      <4>1. PICK q : q = [user[u] EXCEPT !.pc = "got", !.tunnel = left[k].tunnel]
        BY Zenon
      <4>2. user' = [user EXCEPT ![u] = q] /\ q.pc = "got"
        BY Zenon, <1>1, <3>2, <4>1 DEF TtpTypes, User
      <4> QED BY Zenon, <4>2
    <3> QED BY Zenon, <1>2, <3>1, <3>2 DEF FindExistingTunnel
  <2>3. MaintainInv'
    BY Zenon, <1>1, <1>9, <2>1, <2>2, MaintainGoesOn
  <2> QED BY Zenon, <1>7, <2>3
<1> QED BY Zenon, <1>1, <1>8, <1>9

LEMMA MaintainRemember ==
  ASSUME TtpInv, TtpInv', MaintainInv, NEW u \in TtpUsers, RememberTunnelEntry(u)
  PROVE  MaintainInv' /\ (target => NoneGoes)
<1>1. TtpTypes /\ target \in BOOLEAN /\ TunnelsAge /\ user[u].pc = "insert" /\ UNCHANGED target
      /\ UserOK(u) /\ user[u] \in User
  BY Zenon DEF TtpInv, TtpTypes, RememberTunnelEntry, TunnelsAge, At
<1>2. PICK left : left = Released(target)
  BY Zenon
<1>3. left \in [CacheKeys -> Entry]
  BY Zenon, <1>1, <1>2, ReleasedOK
<1>4. PICK k : k = KeyOf[user[u].tunnel]
  BY Zenon
<1>5. /\ k \in CacheKeys => entry'[k].tunnel # NoTunnel /\ ~entry'[k].old
      /\ \A j \in CacheKeys : j # k => entry'[j] = left[j]
  <2>1. PICK e : e = [tunnel |-> user[u].tunnel, maintained |-> target, leases |-> 0, old |-> FALSE]
    BY Zenon
  <2>2. e.tunnel # NoTunnel /\ ~e.old
    BY Zenon, <1>1, <2>1 DEF UserOK
  <2>3. entry' = [left EXCEPT ![k] = e]
    BY Zenon, <1>2, <1>4, <2>1 DEF RememberTunnelEntry
  <2>4. (k \in CacheKeys => entry'[k] = e) /\ \A j \in CacheKeys : j # k => entry'[j] = left[j]
    BY Zenon, <1>3, <2>3
  <2> QED BY Zenon, <2>2, <2>4
<1>6. \A j \in CacheKeys : entry[j].leases \in Nat /\ left[j].leases \in Nat
  BY Zenon, <1>1, <1>3 DEF TtpTypes, Entry
<1>7. NoneAges
  BY <1>1, <1>2, <1>5, <1>6, ReleasedInUse DEF NoneAges
<1>8. target => NoneGoes
  <2> SUFFICES ASSUME target, NEW j \in CacheKeys, Available(entry[j].tunnel)
               PROVE  entry'[j].tunnel # NoTunnel
    BY Zenon DEF NoneGoes
  <2>1. left[j].tunnel # NoTunnel
    BY Zenon, <1>1, <1>2, ReleasedInUse
  <2> QED BY Zenon, <1>5, <2>1
<1>9. CASE ~target
  <2>1. InUse'
    BY <1>1, <1>2, <1>5, <1>6, <1>9, ReleasedInUse DEF InUse, Available
  <2> QED BY Zenon, <1>9, <2>1, MaintainFindsInUse
<1>10. CASE target
  <2>1. InUse => InUse'
    BY Zenon, <1>1, <1>7, InUseStays
  <2>2. PICK q : q = [user[u] EXCEPT !.pc = "got"]
    BY Zenon
  <2>3. user' = [user EXCEPT ![u] = q] /\ q.pc = "got"
    BY Zenon, <1>1, <2>2 DEF RememberTunnelEntry, GoTo, User
  <2> QED BY Zenon, <1>1, <1>8, <1>10, <2>1, <2>3, MaintainGoesOn
<1> QED BY Zenon, <1>9, <1>10

LEMMA MaintainRefresh ==
  ASSUME TtpInv, NEW u \in TtpUsers, RefreshMaintained(u)
  PROVE  MaintainInv' /\ NoneGoes
<1>1. ASSUME NEW k \in CacheKeys
      PROVE  entry'[k].tunnel = entry[k].tunnel /\ ~entry'[k].old
  <2>1. entry[k] \in Entry
    BY Zenon DEF TtpInv, TtpTypes
  <2>2. CASE Cached(k)
    <3>1. entry'[k] = [entry[k] EXCEPT !.maintained = target, !.old = FALSE]
      BY Zenon, <2>2 DEF RefreshMaintained
    <3> QED BY Zenon, <2>1, <3>1 DEF Entry
  <2>3. CASE ~Cached(k)
    BY Zenon, <2>3 DEF RefreshMaintained, Cached, NoEntry
  <2> QED BY Zenon, <2>2, <2>3
<1>2. InUse'
  BY Zenon, <1>1 DEF InUse
<1>3. NoneGoes
  BY Zenon, <1>1 DEF NoneGoes, Available
<1> QED BY Zenon, <1>2, <1>3, MaintainFindsInUse

\* Steps that leave the cache alone
LEMMA MaintainElsewhere ==
  ASSUME TtpInv, TtpInv', MaintainInv, TunnelsAge, UNCHANGED entry
  PROVE  (InUse => InUse') /\ NoneGoes
<1>1. \A k \in CacheKeys : entry[k].leases \in Nat
  BY Zenon DEF TtpInv, TtpTypes, Entry
<1>2. NoneAges
  BY <1>1 DEF NoneAges
<1>3. NoneGoes
  BY Zenon DEF NoneGoes, Available
<1> QED BY Zenon, <1>2, <1>3, InUseStays

LEMMA MaintainCaller ==
  ASSUME TtpInv, TtpInv', MaintainInv, NEW u \in TtpUsers,
         BeginCall(u) \/ CreateTunnel(u) \/ AttachTunnel(u) \/ OpenChannel(u)
  PROVE  MaintainInv' /\ NoneGoes
<1>1. user[u] \in User /\ TtpTypes /\ UserOK(u) /\ user[u].pc # "refresh"
      /\ UNCHANGED <<entry, target>>
  BY Zenon DEF TtpInv, TtpTypes, BeginCall, CreateTunnel, AttachTunnel, OpenChannel, At
<1>2. TunnelsAge
  BY Zenon, <1>1 DEF TunnelsAge, BeginCall, CreateTunnel, AttachTunnel, OpenChannel, TtpTypes
<1>3. (InUse => InUse') /\ NoneGoes
  BY Zenon, <1>1, <1>2, MaintainElsewhere
<1>4. PICK q : user' = [user EXCEPT ![u] = q] /\ q.pc \notin {"release", "got"}
  <2>1. ASSUME NEW pc \in {"search", "insert", "using"}, GoTo(u, pc)
        PROVE  \E q : user' = [user EXCEPT ![u] = q] /\ q.pc \notin {"release", "got"}
    <3>1. PICK q : q = [user[u] EXCEPT !.pc = pc]
      BY Zenon
    <3>2. user' = [user EXCEPT ![u] = q] /\ q.pc = pc
      BY Zenon, <1>1, <2>1, <3>1 DEF GoTo, User
    <3> QED BY Zenon, <3>2
  <2>2. ASSUME NEW t, user' = [user EXCEPT ![u].pc = "attach", ![u].tunnel = t]
        PROVE  \E q : user' = [user EXCEPT ![u] = q] /\ q.pc \notin {"release", "got"}
    <3>1. PICK q : q = [user[u] EXCEPT !.pc = "attach", !.tunnel = t]
      BY Zenon
    <3>2. user' = [user EXCEPT ![u] = q] /\ q.pc = "attach"
      BY Zenon, <1>1, <2>2, <3>1 DEF User, TtpTypes
    <3> QED BY Zenon, <3>2
  <2>3. IdleUser.pc \notin {"release", "got"}
    BY Zenon, IdleUserOK
  <2> QED BY Zenon, <2>1, <2>2, <2>3 DEF BeginCall, CreateTunnel, AttachTunnel, OpenChannel
<1> QED BY Zenon, <1>1, <1>3, <1>4, MaintainGoesOn

LEMMA MaintainLease ==
  ASSUME TtpInv, TtpInv', MaintainInv, NEW u \in TtpUsers, AcquireLease(u) \/ DropLease(u)
  PROVE  MaintainInv' /\ NoneGoes
<1>1. user[u] \in User /\ TtpTypes /\ UserOK(u) /\ user[u].pc # "refresh" /\ TunnelsAge
      /\ UNCHANGED target
  BY Zenon DEF TtpInv, TtpTypes, AcquireLease, DropLease, At, TunnelsAge
<1>2. ASSUME NEW k \in CacheKeys
      PROVE  entry'[k].tunnel = entry[k].tunnel
             /\ (entry'[k].old => entry[k].old /\ entry'[k].leases >= entry[k].leases)
  <2>1. entry[k] \in Entry /\ entry[k].leases \in Nat /\ entry \in [CacheKeys -> Entry]
    BY Zenon, <1>1 DEF TtpTypes, Entry
  <2>2. ASSUME NEW j, NEW n, entry' = [entry EXCEPT ![j].leases = n, ![j].old = FALSE]
        PROVE  entry'[k].tunnel = entry[k].tunnel
               /\ (entry'[k].old => entry[k].old /\ entry'[k].leases >= entry[k].leases)
    <3>1. CASE j # k
      BY <2>1, <2>2, <3>1
    <3>2. CASE j = k
      <4>1. entry'[k] = [entry[k] EXCEPT !.leases = n, !.old = FALSE]
        BY Zenon, <2>1, <2>2, <3>2
      <4>2. entry'[k].tunnel = entry[k].tunnel /\ ~entry'[k].old
        BY Zenon, <2>1, <4>1 DEF Entry
      <4> QED BY Zenon, <4>2
    <3> QED BY Zenon, <3>1, <3>2
  <2>3. CASE UNCHANGED entry
    BY <2>1, <2>3
  <2> QED BY Zenon, <2>2, <2>3 DEF AcquireLease, DropLease, LeaseDropped
<1>3. NoneAges /\ NoneGoes
  BY Zenon, <1>2 DEF NoneAges, NoneGoes, Available
<1>4. InUse => InUse'
  BY Zenon, <1>1, <1>3, InUseStays
<1>5. PICK q : user' = [user EXCEPT ![u] = q] /\ q.pc \notin {"release", "got"}
  <2>1. ASSUME NEW k, user' = [user EXCEPT ![u].pc = "opening", ![u].key = k]
        PROVE  \E q : user' = [user EXCEPT ![u] = q] /\ q.pc \notin {"release", "got"}
    <3>1. PICK q : q = [user[u] EXCEPT !.pc = "opening", !.key = k]
      BY Zenon
    <3>2. user' = [user EXCEPT ![u] = q] /\ q.pc = "opening"
      BY Zenon, <1>1, <2>1, <3>1 DEF User, TtpTypes
    <3> QED BY Zenon, <3>2
  <2>2. IdleUser.pc \notin {"release", "got"}
    BY Zenon, IdleUserOK
  <2> QED BY Zenon, <2>1, <2>2 DEF AcquireLease, DropLease
<1> QED BY Zenon, <1>1, <1>3, <1>4, <1>5, MaintainGoesOn

\* The steps of connect_server, remove_server and the maintain loop
LEMMA MaintainTargets ==
  ASSUME TtpInv, TtpInv', MaintainInv, PushTarget \/ RemoveServer \/ MaintainRound
  PROVE  MaintainInv' /\ NoneGoes
<1>1. TtpTypes /\ TunnelsAge /\ UNCHANGED entry
  BY Zenon DEF TtpInv, PushTarget, RemoveServer, MaintainRound, TunnelsAge
<1>2. (InUse => InUse') /\ NoneGoes
  BY Zenon, <1>1, MaintainElsewhere
<1>3. CASE PushTarget
  <2>1. /\ Connector \in TtpUsers /\ Remover \in TtpUsers /\ Sweeper \in TtpUsers
        /\ user'[Remover] = user[Remover] /\ user'[Sweeper] = user[Sweeper]
        /\ At(Connector, "got") /\ target'
    BY Zenon, <1>1, <1>3 DEF PushTarget, GoTo, TtpUsers, TtpTypes, Connector, Remover, Sweeper
  <2> QED BY Zenon, <1>2, <2>1 DEF MaintainInv, At
<1>4. CASE RemoveServer
  <2>1. At(Remover, "refresh")'
    BY Zenon, <1>1, <1>4 DEF RemoveServer, GoTo, At, TtpTypes, TtpUsers, User
  <2> QED BY Zenon, <1>2, <2>1 DEF MaintainInv
<1>5. CASE MaintainRound
  <2>1. Connector \in TtpUsers /\ user[Connector].pc # "refresh" /\ UNCHANGED target
        /\ user' = [user EXCEPT ![Connector] = IdleUser] /\ IdleUser.pc \notin {"release", "got"}
    BY Zenon, <1>5, IdleUserOK DEF MaintainRound, TtpUsers, At
  <2> QED BY Zenon, <1>2, <2>1, MaintainGoesOn
<1> QED BY Zenon, <1>3, <1>4, <1>5

LEMMA MaintainSweep ==
  ASSUME TtpInv, TtpInv', MaintainInv, SweepBegins \/ SweepReleases
  PROVE  /\ MaintainInv'
         /\ target /\ ~At(Remover, "refresh") => NoneGoes
<1>1. TtpTypes /\ TunnelsAge /\ UNCHANGED target /\ Sweeper \in TtpUsers /\ Connector \in TtpUsers
      /\ Remover \in TtpUsers /\ user[Sweeper] \in User
  BY Zenon DEF TtpInv, TtpTypes, SweepBegins, SweepReleases, TunnelsAge, TtpUsers
<1>2. CASE SweepBegins
  <2>1. (InUse => InUse') /\ NoneGoes
    BY Zenon, <1>1, <1>2, MaintainElsewhere DEF SweepBegins
  <2>2. PICK q : q = [user[Sweeper] EXCEPT !.pc = "release", !.snap = target]
    BY Zenon
  <2>3. user' = [user EXCEPT ![Sweeper] = q] /\ q.snap = target
    BY Zenon, <1>1, <1>2, <2>2 DEF SweepBegins, User, TtpTypes
  <2>4. user'[Sweeper].snap = target /\ user'[Remover] = user[Remover]
        /\ user'[Connector] = user[Connector]
    BY Zenon, <1>1, <2>3 DEF TtpTypes, Connector, Remover, Sweeper
  <2> QED BY Zenon, <1>1, <2>1, <2>4 DEF MaintainInv, At
<1>3. CASE SweepReleases
  <2>1. PICK snap \in BOOLEAN : snap = user[Sweeper].snap
    BY Zenon, <1>1 DEF User
  <2>2. PICK e : e = Released(snap)
    BY Zenon
  <2>3. entry' = e
    BY Zenon, <1>3, <2>1, <2>2 DEF SweepReleases
  <2>4. e \in [CacheKeys -> Entry]
    BY Zenon, <1>1, <2>2, ReleasedOK
  <2>5. \A k \in CacheKeys : entry[k].leases \in Nat /\ e[k].leases \in Nat
    BY Zenon, <1>1, <2>4 DEF TtpTypes, Entry
  <2>6. NoneAges
    BY <1>1, <2>2, <2>3, <2>5, ReleasedInUse DEF NoneAges
  <2>7. InUse => InUse'
    BY Zenon, <1>1, <2>6, InUseStays
  <2>8. user[Sweeper].pc = "release" /\ user' = [user EXCEPT ![Sweeper] = IdleUser]
        /\ IdleUser.pc \notin {"release", "got"}
    BY Zenon, <1>3, IdleUserOK DEF SweepReleases, At
  <2>9. MaintainInv'
    BY Zenon, <1>1, <2>7, <2>8, MaintainGoesOn
  <2>10. ASSUME target, ~At(Remover, "refresh"), NEW k \in CacheKeys, Available(entry[k].tunnel)
         PROVE  entry'[k].tunnel # NoTunnel
    <3>1. snap \/ InUse
      BY Zenon, <2>1, <2>8, <2>10 DEF MaintainInv, At
    <3>2. snap \/ ~entry[k].old \/ entry[k].leases > 0
      BY Zenon, <2>10, <3>1 DEF InUse
    <3>3. e[k].tunnel # NoTunnel
      BY Zenon, <1>1, <2>2, <2>10, <3>2, ReleasedInUse
    <3> QED BY Zenon, <2>3, <3>3
  <2> QED BY Zenon, <2>9, <2>10 DEF NoneGoes
<1> QED BY Zenon, <1>2, <1>3

LEMMA MaintainElse ==
  ASSUME TtpInv, TtpInv', MaintainInv,
         (\E k \in CacheKeys : Grow(k)) \/ (\E t \in CacheTunnels : TunnelDies(t)) \/ UNCHANGED ttpVars
  PROVE  MaintainInv' /\ NoneGoes
<1>1. UNCHANGED <<target, user>> /\ TtpTypes /\ TunnelsAge
  BY Zenon DEF Grow, TunnelDies, ttpVars, TunnelsAge, TtpInv, TtpTypes
<1>2. ASSUME NEW k \in CacheKeys, Grow(k)
      PROVE  MaintainInv' /\ NoneGoes
  <2>1. ~At(Sweeper, "release")' /\ ~At(Connector, "got")'
    BY Zenon, <1>1, <1>2 DEF Grow, At, TtpUsers
  <2>2. MaintainInv'
    BY Zenon, <2>1 DEF MaintainInv
  <2>3. \A j \in CacheKeys : entry'[j].tunnel = entry[j].tunnel
    <3>1. entry[k] \in Entry /\ entry'[k] = [entry[k] EXCEPT !.old = TRUE]
          /\ \A j \in CacheKeys : j # k => entry'[j] = entry[j]
      BY Zenon, <1>1, <1>2 DEF Grow, TtpTypes
    <3>2. entry'[k].tunnel = entry[k].tunnel
      BY Zenon, <3>1 DEF Entry
    <3> QED BY Zenon, <3>1, <3>2
  <2> QED BY Zenon, <2>2, <2>3 DEF NoneGoes, Available
<1>3. CASE UNCHANGED entry
  <2>1. (InUse => InUse') /\ NoneGoes
    BY Zenon, <1>1, <1>3, MaintainElsewhere
  <2> QED BY Zenon, <1>1, <2>1 DEF MaintainInv, At
<1> QED BY Zenon, <1>2, <1>3 DEF TunnelDies, ttpVars

LEMMA MaintainStep ==
  ASSUME TtpInv, TtpInv', MaintainInv, [TtpNext]_ttpVars
  PROVE  MaintainInv' /\ (target /\ ~At(Remover, "refresh") => NoneGoes)
BY Zenon, MaintainFind, MaintainRemember, MaintainRefresh, MaintainCaller, MaintainLease, MaintainTargets,
   MaintainSweep, MaintainElse
DEF TtpNext

\* A maintained target with a live tunnel keeps an entry: for any number of callers,
\* tunnels and keys no release takes the last one, not even by a sweep that copied
\* maintained_targets before connect_server added the target, unless a remove_server
\* has taken it out and not yet refreshed the entries.
THEOREM MaintainedStaysCached == TtpInit /\ [][TtpNext]_ttpVars => MaintainedIsKept
<1>1. TtpInit => MaintainInv
  <2>1. ASSUME TtpInit PROVE MaintainInv
    <3>1. ~target /\ user[Connector].pc = "idle"
      BY Zenon, <2>1, IdleUserOK DEF TtpInit, TtpUsers
    <3> QED BY Zenon, <3>1 DEF MaintainInv, At
  <2> QED BY Zenon, <2>1
<1>2. ASSUME TtpInv, TtpInv', MaintainInv, [TtpNext]_ttpVars
      PROVE  [target /\ target' /\ ~At(Remover, "refresh")
                /\ (\E k \in CacheKeys : Available(entry[k].tunnel))
                => \E k \in CacheKeys : entry'[k].tunnel # NoTunnel]_ttpVars
  BY Zenon, <1>2, MaintainStep DEF NoneGoes
<1> QED BY <1>1, <1>2, TtpStarts, TtpNextKeeps, MaintainStep, PTL DEF MaintainedIsKept

-----------------------------------------------------------------------------
(* NAT probes of a QUIC listener *)

Probe == [pc : {"off", "begin", "next", "wait"}, l : Listeners \cup {None}, i : Nat,
          owner : Owners \cup {None}, token : Tokens \cup {None}, signer : Signers \cup {None},
          got : {"none", "answer", "closed"}, by : Signers \cup {None}]

ProbeTypes ==
  /\ listed \in Seq(Listeners) /\ closing \in Seq(Listeners)
  /\ waiters = [l \in Listeners |-> waiters[l]]
  /\ probe \in Probe
  /\ probe.pc # "off" => probe.l \in Listeners /\ probe.signer \in Signers
  /\ \A r \in wire : r.l \in Listeners /\ r.signer \in Signers
  /\ \A c \in checking : c.l \in Listeners /\ c.signer \in Signers

\* Waiters are those of the probe that waits; what is verified for its owner was
\* verified for its signer, since a registration's owner is not in use elsewhere
WaitersOK ==
  /\ \A l \in Listeners : \A e \in waiters[l] :
       l = probe.l /\ e.owner = probe.owner /\ e.signer = probe.signer
  /\ probe.pc # "wait" => \A l \in Listeners : waiters[l] = {}
  /\ probe.pc # "wait" => probe.got = "none"
  /\ probe.pc = "wait" => \A c \in checking : c.owner = probe.owner => c.signer = probe.signer
  /\ probe.pc = "wait" /\ probe.got = "none" => \E e \in waiters[probe.l] : e.owner = probe.owner
  /\ probe.got = "answer" => probe.by = probe.signer

ProbeInv == ProbeTypes /\ WaitersOK

LEMMA NoProbeOK ==
  NoProbe \in Probe /\ NoProbe.pc = "off" /\ NoProbe.got = "none" /\ NoProbe.l = None
BY Zenon DEF NoProbe, Probe

\* Steps that are none of a probe's
LEMMA ProbeElsewhere ==
  ASSUME ProbeInv, UNCHANGED probeVars, listed' \in Seq(Listeners), closing' \in Seq(Listeners)
  PROVE  ProbeInv'
BY Zenon DEF ProbeInv, ProbeTypes, WaitersOK, probeVars

LEMMA ListenersKeepProbe ==
  ASSUME ProbeInv, NEW l \in Listeners,
         \/ ServeListener(l) \/ StoreServer(l) \/ EndpointReady(l) \/ EndpointNotReady(l)
         \/ UndoStart(l) \/ ListListener(l)
         \/ \E w \in Workers : \/ BuildEndpoint(l, w) \/ CheckOpen(l, w)
                               \/ RegisterWorkerEndpoint(l, w) \/ AcceptLoopEnds(l, w)
  PROVE  ProbeInv'
<1>1. listed \in Seq(Listeners) /\ closing \in Seq(Listeners)
  BY Zenon DEF ProbeInv, ProbeTypes
<1>2. UNCHANGED <<closing, probeVars>> /\ listed' \in {listed, Append(listed, l)}
  BY Zenon DEF ServeListener, StoreServer, EndpointReady, EndpointNotReady, UndoStart, ListListener,
         BuildEndpoint, CheckOpen, RegisterWorkerEndpoint, AcceptLoopEnds
<1>3. Append(listed, l) \in Seq(Listeners)
  BY <1>1
<1> QED BY Zenon, <1>1, <1>2, <1>3, ProbeElsewhere

LEMMA ClosingKeepsProbe ==
  ASSUME ProbeInv, CloseAllListeners \/ SetClosed \/ TakeState
  PROVE  ProbeInv'
<1>1. listed \in Seq(Listeners) /\ closing \in Seq(Listeners) /\ <<>> \in Seq(Listeners)
  BY DEF ProbeInv, ProbeTypes
<1>2. closing # <<>> => Tail(closing) \in Seq(Listeners)
  BY <1>1
<1>3. UNCHANGED probeVars
  BY Zenon DEF CloseAllListeners, SetClosed, TakeState
<1>4. listed' \in Seq(Listeners) /\ closing' \in Seq(Listeners)
  BY Zenon, <1>1, <1>2 DEF CloseAllListeners, SetClosed, TakeState
<1> QED BY Zenon, <1>3, <1>4, ProbeElsewhere

LEMMA DialKeepsProbe ==
  ASSUME ProbeInv,
         \/ BeginDial \/ OpenOrConnect \/ PunchOnly \/ StartAttempt \/ AttemptFails
         \/ AttemptSucceeds \/ RetryConnect \/ PunchWait \/ PunchSend \/ Elapse
  PROVE  ProbeInv'
<1>1. UNCHANGED <<listenerVars, probeVars>>
  BY Zenon DEF BeginDial, OpenOrConnect, PunchOnly, StartAttempt, AttemptFails, AttemptSucceeds,
         RetryConnect, PunchWait, PunchSend, Elapse
<1>2. listed' \in Seq(Listeners) /\ closing' \in Seq(Listeners)
  BY Zenon, <1>1 DEF listenerVars, ProbeInv, ProbeTypes
<1> QED BY Zenon, <1>1, <1>2, ProbeElsewhere

LEMMA ClearWaitersKeeps ==
  ASSUME ProbeInv, ClearWaiters
  PROVE  ProbeInv'
<1>1. closing \in Seq(Listeners) /\ closing # <<>>
  BY Zenon DEF ProbeInv, ProbeTypes, ClearWaiters
<1>2. PICK l \in Listeners : l = Head(closing)
  BY <1>1
<1>3. /\ probe' = IF \E e \in waiters[l] : e.owner = probe.owner
                  THEN [probe EXCEPT !.got = "closed"] ELSE probe
      /\ waiters' = [waiters EXCEPT ![l] = {}]
      /\ UNCHANGED <<listed, closing, wire, checking>>
  BY Zenon, <1>2 DEF ClearWaiters
<1>4. /\ waiters' = [k \in Listeners |-> waiters'[k]] /\ waiters'[l] = {}
      /\ \A k \in Listeners : k # l => waiters'[k] = waiters[k]
  BY Zenon, <1>3 DEF ProbeInv, ProbeTypes
<1>5. probe \in Probe
  BY Zenon DEF ProbeInv, ProbeTypes
<1>6. CASE \E e \in waiters[l] : e.owner = probe.owner
  <2>1. probe' \in Probe /\ probe'.got = "closed" /\ probe'.pc = probe.pc /\ probe'.l = probe.l
        /\ probe'.owner = probe.owner /\ probe'.signer = probe.signer
    BY Zenon, <1>3, <1>5, <1>6 DEF Probe
  <2>2. probe.pc = "wait"
    BY Zenon, <1>6 DEF ProbeInv, WaitersOK
  <2> QED BY <1>3, <1>4, <2>1, <2>2 DEF ProbeInv, ProbeTypes, WaitersOK
<1>7. CASE ~ \E e \in waiters[l] : e.owner = probe.owner
  <2>1. probe' = probe
    BY Zenon, <1>3, <1>7
  <2>2. waiters[l] = {}
    BY Zenon, <1>7 DEF ProbeInv, WaitersOK
  <2>3. \A k \in Listeners : waiters'[k] = waiters[k]
    BY Zenon, <1>4, <2>2
  <2>4. waiters' = waiters
    BY Zenon, <1>4, <2>3 DEF ProbeInv, ProbeTypes
  <2> QED BY <1>3, <2>1, <2>4 DEF ProbeInv, ProbeTypes, WaitersOK
<1> QED BY Zenon, <1>6, <1>7

\* A probe that waits for nothing moves on
LEMMA ProbeMoves ==
  ASSUME ProbeInv, probe.pc # "wait", probe' \in Probe, probe'.pc # "wait", probe'.got = "none",
         probe'.pc # "off" => probe'.l \in Listeners /\ probe'.signer \in Signers,
         UNCHANGED <<listed, closing, waiters, wire, checking>>
  PROVE  ProbeInv'
BY Zenon DEF ProbeInv, ProbeTypes, WaitersOK

LEMMA BeginProbeKeeps ==
  ASSUME ProbeInv, BeginProbe \/ TakePunchSocket \/ PredictTraversal
  PROVE  ProbeInv'
<1>1. probe \in Probe /\ listed \in Seq(Listeners)
      /\ (probe.pc # "off" => probe.l \in Listeners /\ probe.signer \in Signers)
      /\ (probe.pc # "wait" => probe.got = "none")
      /\ UNCHANGED <<listed, closing, waiters, wire, checking>>
  BY Zenon DEF ProbeInv, ProbeTypes, WaitersOK, BeginProbe, TakePunchSocket, PredictTraversal, listenerVars
<1>2. CASE BeginProbe
  <2>1. PICK s \in Signers : probe' = [NoProbe EXCEPT !.pc = "begin", !.l = Head(listed), !.signer = s]
    BY Zenon, <1>2 DEF BeginProbe
  <2>2. listed # <<>> /\ probe.pc = "off"
    BY Zenon, <1>2 DEF BeginProbe, NoCall
  <2>3. PICK l \in Listeners : l = Head(listed)
    BY <1>1, <2>2
  <2>4. probe' \in Probe /\ probe'.pc = "begin" /\ probe'.got = "none" /\ probe'.l \in Listeners
        /\ probe'.signer \in Signers
    BY Zenon, <2>1, <2>3 DEF Probe, NoProbe
  <2> QED BY Zenon, <1>1, <2>2, <2>4, ProbeMoves
<1>3. CASE TakePunchSocket
  <2>1. probe.pc = "begin" /\ probe' \in {NoProbe, [probe EXCEPT !.pc = "next"]}
    BY Zenon, <1>3 DEF TakePunchSocket
  <2>2. probe' \in Probe /\ probe'.pc # "wait" /\ probe'.got = "none"
        /\ (probe'.pc # "off" => probe'.l \in Listeners /\ probe'.signer \in Signers)
    <3>1. CASE probe' = NoProbe
      BY Zenon, <3>1, NoProbeOK
    <3>2. CASE probe' = [probe EXCEPT !.pc = "next"]
      BY Zenon, <1>1, <2>1, <3>2 DEF Probe
    <3> QED BY Zenon, <2>1, <3>1, <3>2
  <2> QED BY Zenon, <1>1, <2>1, <2>2, ProbeMoves
<1>4. CASE PredictTraversal
  <2>1. probe.pc = "next" /\ probe' = NoProbe
    BY Zenon, <1>4 DEF PredictTraversal
  <2> QED BY Zenon, <1>1, <2>1, NoProbeOK, ProbeMoves
<1> QED BY Zenon, <1>2, <1>3, <1>4

LEMMA ProbeTargetKeeps ==
  ASSUME ProbeInv, ProbeTarget
  PROVE  ProbeInv'
<1>1. /\ probe \in Probe /\ probe.pc = "next" /\ probe.l \in Listeners /\ probe.got = "none"
      /\ UNCHANGED <<listed, closing, checking>>
      /\ \A l \in Listeners : waiters[l] = {}
  BY Zenon DEF ProbeInv, ProbeTypes, WaitersOK, ProbeTarget, listenerVars
<1>2. CASE probe' = NoProbe /\ UNCHANGED <<waiters, wire>>
  BY Zenon, <1>1, <1>2, NoProbeOK, ProbeMoves
<1>3. CASE ~ (probe' = NoProbe /\ UNCHANGED <<waiters, wire>>)
  <2>1. PICK t \in Tokens, o \in Owners \ OwnersInUse, answered \in BOOLEAN :
          /\ waiters' = [waiters EXCEPT ![probe.l] = @ \cup
               {[token |-> t, owner |-> o, source |-> probe.i, signer |-> probe.signer]}]
          /\ probe' = [probe EXCEPT !.pc = "wait", !.token = t, !.owner = o,
                                    !.got = "none", !.by = None]
          /\ wire' = IF answered
                     THEN wire \cup {[l |-> probe.l, token |-> t, source |-> probe.i,
                                      signer |-> probe.signer]}
                     ELSE wire
    BY Zenon, <1>3 DEF ProbeTarget
  <2>2. PICK e : e = [token |-> t, owner |-> o, source |-> probe.i, signer |-> probe.signer]
    BY Zenon
  <2>3. e.owner = o /\ e.signer = probe.signer
    BY Zenon, <2>2
  <2>4. /\ waiters' = [l \in Listeners |-> waiters'[l]] /\ waiters'[probe.l] = {e}
        /\ \A l \in Listeners : l # probe.l => waiters'[l] = {}
    BY Zenon, <1>1, <2>1, <2>2 DEF ProbeInv, ProbeTypes
  <2>5. /\ probe' \in Probe /\ probe'.pc = "wait" /\ probe'.owner = o /\ probe'.l = probe.l
        /\ probe'.signer = probe.signer /\ probe'.got = "none"
    BY Zenon, <1>1, <2>1 DEF Probe
  <2>6. \A c \in checking : c.owner # o
    BY Zenon, <2>1 DEF OwnersInUse
  <2>7. probe.signer \in Signers
    BY Zenon, <1>1 DEF ProbeInv, ProbeTypes
  <2>8. \A r \in wire' : r.l \in Listeners /\ r.signer \in Signers
    <3>1. PICK n : n = [l |-> probe.l, token |-> t, source |-> probe.i, signer |-> probe.signer]
      BY Zenon
    <3>2. n.l = probe.l /\ n.signer = probe.signer
      BY Zenon, <3>1
    <3>3. wire' \subseteq wire \cup {n}
      BY Zenon, <2>1, <3>1
    <3> QED BY Zenon, <1>1, <2>7, <3>2, <3>3 DEF ProbeInv, ProbeTypes
  <2>9. ProbeTypes'
    BY Zenon, <1>1, <2>4, <2>5, <2>7, <2>8 DEF ProbeInv, ProbeTypes
  <2>10. WaitersOK'
    BY Zenon, <1>1, <2>3, <2>4, <2>5, <2>6 DEF WaitersOK
  <2> QED BY Zenon, <2>9, <2>10 DEF ProbeInv
<1> QED BY Zenon, <1>2, <1>3

LEMMA DispatchResponseKeeps ==
  ASSUME ProbeInv, NEW r \in wire, DispatchResponse(r)
  PROVE  ProbeInv'
<1>1. /\ UNCHANGED <<listed, closing, waiters, probe>> /\ wire' \subseteq wire
      /\ r.l \in Listeners /\ r.signer \in Signers
  BY Zenon DEF DispatchResponse, listenerVars, ProbeInv, ProbeTypes
<1>2. ASSUME NEW c \in checking', c \notin checking
      PROVE  c.l \in Listeners /\ c.signer \in Signers
             /\ c.signer = probe.signer /\ c.owner = probe.owner
  <2>1. PICK e \in waiters[r.l] :
          /\ e.signer = r.signer
          /\ c = [l |-> r.l, token |-> r.token, owner |-> e.owner, signer |-> r.signer]
    BY Zenon, <1>2 DEF DispatchResponse
  <2>2. e.owner = probe.owner /\ e.signer = probe.signer
    BY Zenon, <1>1, <2>1 DEF ProbeInv, WaitersOK
  <2>3. c.l = r.l /\ c.signer = r.signer /\ c.owner = e.owner
    BY Zenon, <2>1
  <2> QED BY Zenon, <1>1, <2>1, <2>2, <2>3
<1>3. ProbeTypes'
  BY Zenon, <1>1, <1>2 DEF ProbeInv, ProbeTypes
<1>4. WaitersOK'
  BY Zenon, <1>1, <1>2 DEF ProbeInv, WaitersOK
<1> QED BY Zenon, <1>3, <1>4 DEF ProbeInv

LEMMA DeliverResponseKeeps ==
  ASSUME ProbeInv, NEW c \in checking, DeliverResponse(c)
  PROVE  ProbeInv'
<1>1. /\ c.l \in Listeners /\ c.signer \in Signers /\ probe \in Probe
      /\ UNCHANGED <<listed, closing, wire>> /\ checking' \subseteq checking
  BY Zenon DEF ProbeInv, ProbeTypes, DeliverResponse, listenerVars
<1>2. PICK own : own = OwnedWaiter(c)
  BY Zenon
<1>3. /\ waiters' = [waiters EXCEPT ![c.l] = @ \ own]
      /\ probe' = IF \E e \in own : e.owner = probe.owner
                  THEN [probe EXCEPT !.got = "answer", !.by = c.signer] ELSE probe
      /\ own \subseteq waiters[c.l] /\ \A e \in own : e.owner = c.owner
  BY Zenon, <1>2 DEF DeliverResponse, OwnedWaiter
<1>4. /\ waiters' = [l \in Listeners |-> waiters'[l]]
      /\ waiters'[c.l] = waiters[c.l] \ own
      /\ \A l \in Listeners : l # c.l => waiters'[l] = waiters[l]
  BY Zenon, <1>1, <1>3 DEF ProbeInv, ProbeTypes
<1>5. CASE \E e \in own : e.owner = probe.owner
  <2>1. /\ probe' \in Probe /\ probe'.pc = probe.pc /\ probe'.owner = probe.owner
        /\ probe'.l = probe.l /\ probe'.signer = probe.signer /\ probe'.got = "answer"
        /\ probe'.by = c.signer
    BY Zenon, <1>1, <1>3, <1>5 DEF Probe
  <2>2. probe.pc = "wait" /\ c.owner = probe.owner
    BY Zenon, <1>1, <1>3, <1>5 DEF ProbeInv, WaitersOK
  <2>3. c.signer = probe.signer
    BY Zenon, <2>2 DEF ProbeInv, WaitersOK
  <2>4. ProbeTypes'
    BY Zenon, <1>1, <1>4, <2>1 DEF ProbeInv, ProbeTypes
  <2>5. WaitersOK'
    BY <1>1, <1>4, <2>1, <2>2, <2>3 DEF ProbeInv, WaitersOK
  <2> QED BY Zenon, <2>4, <2>5 DEF ProbeInv
<1>6. CASE ~ \E e \in own : e.owner = probe.owner
  <2>1. own = {} /\ probe' = probe
    BY Zenon, <1>1, <1>3, <1>6 DEF ProbeInv, WaitersOK
  <2>2. \A l \in Listeners : waiters'[l] = waiters[l]
    BY Zenon, <1>4, <2>1
  <2>3. ProbeTypes'
    BY Zenon, <1>1, <1>4, <2>1 DEF ProbeInv, ProbeTypes
  <2>4. WaitersOK'
    BY Zenon, <1>1, <2>1, <2>2 DEF ProbeInv, ProbeTypes, WaitersOK
  <2> QED BY Zenon, <2>3, <2>4 DEF ProbeInv
<1> QED BY Zenon, <1>5, <1>6

\* The registration of a probe that ends or goes on takes its waiter along
LEMMA DropRegistrationKeeps ==
  ASSUME ProbeInv, probe.pc # "off", DropRegistration, probe' \in Probe, probe'.pc # "wait",
         probe'.got = "none",
         probe'.pc # "off" => probe'.l \in Listeners /\ probe'.signer \in Signers,
         UNCHANGED <<listed, closing, wire, checking>>
  PROVE  ProbeInv'
<1>1. probe.l \in Listeners
  BY Zenon DEF ProbeInv, ProbeTypes
<1>2. /\ waiters' = [l \in Listeners |-> waiters'[l]]
      /\ waiters'[probe.l] = {e \in waiters[probe.l] : e.owner # probe.owner}
      /\ \A l \in Listeners : l # probe.l => waiters'[l] = waiters[l]
  BY Zenon, <1>1 DEF ProbeInv, ProbeTypes, DropRegistration
<1>3. \A l \in Listeners : waiters'[l] = {}
  BY Zenon, <1>1, <1>2 DEF ProbeInv, WaitersOK
<1>4. ProbeTypes'
  BY Zenon, <1>2 DEF ProbeInv, ProbeTypes
<1>5. WaitersOK'
  BY Zenon, <1>3 DEF WaitersOK
<1> QED BY Zenon, <1>4, <1>5 DEF ProbeInv

LEMMA EndProbeKeeps ==
  ASSUME ProbeInv, TakeResponse \/ GiveUpProbe
  PROVE  ProbeInv'
<1>1. probe \in Probe /\ probe.pc # "off" /\ probe.l \in Listeners /\ probe.signer \in Signers
      /\ UNCHANGED <<listed, closing, wire, checking>>
  BY Zenon DEF ProbeInv, ProbeTypes, TakeResponse, GiveUpProbe, listenerVars
<1>2. CASE EndProbe
  BY Zenon, <1>1, <1>2, NoProbeOK, DropRegistrationKeeps DEF EndProbe
<1>3. CASE ~EndProbe
  <2>1. /\ probe' = [probe EXCEPT !.pc = "next", !.i = @ + 1, !.owner = None,
                                  !.token = None, !.got = "none", !.by = None]
        /\ DropRegistration
    BY Zenon, <1>3 DEF TakeResponse, GiveUpProbe
  <2>2. PICK i \in Nat : i = probe.i + 1
    BY <1>1 DEF Probe
  <2>3. probe' \in Probe /\ probe'.pc = "next" /\ probe'.got = "none" /\ probe'.l = probe.l
        /\ probe'.signer = probe.signer
    BY Zenon, <1>1, <2>1, <2>2 DEF Probe
  <2> QED BY Zenon, <1>1, <2>1, <2>3, DropRegistrationKeeps
<1> QED BY Zenon, <1>2, <1>3

LEMMA ProbeNextKeeps ==
  ASSUME ProbeInv, [QuicListenerNext]_quicListenerVars
  PROVE  ProbeInv'
<1>1. CASE UNCHANGED quicListenerVars
  BY Zenon, <1>1 DEF quicListenerVars, probeVars, listenerVars, ProbeInv, ProbeTypes, WaitersOK
<1> QED
  BY Zenon, <1>1, ListenersKeepProbe, ClosingKeepsProbe, ClearWaitersKeeps, BeginProbeKeeps,
     ProbeTargetKeeps, EndProbeKeeps, DispatchResponseKeeps, DeliverResponseKeeps, DialKeepsProbe
  DEF QuicListenerNext

LEMMA ProbeStarts == QuicListenerInit => ProbeInv
<1> SUFFICES ASSUME QuicListenerInit PROVE ProbeInv
  BY Zenon
<1>1. \A l \in Listeners : waiters[l] = {}
  BY Zenon DEF QuicListenerInit
<1>2. waiters = [l \in Listeners |-> waiters[l]]
  BY Zenon, <1>1 DEF QuicListenerInit
<1>3. listed \in Seq(Listeners) /\ closing \in Seq(Listeners) /\ wire = {} /\ checking = {}
      /\ probe = NoProbe
  BY DEF QuicListenerInit
<1>4. ProbeTypes
  BY Zenon, <1>2, <1>3, NoProbeOK DEF ProbeTypes
<1>5. WaitersOK
  BY Zenon, <1>1, NoProbeOK DEF QuicListenerInit, WaitersOK
<1> QED BY Zenon, <1>4, <1>5 DEF ProbeInv

\* Probe waiters and probes match, for any number of listeners, tokens, owners and
\* servers: a waiter belongs to the probe in progress, a probe that waits has its
\* waiter or has been told, and what it is told was verified for the signer it expects.
THEOREM ProbesHaveTheirWaiters ==
  QuicListenerInit /\ [][QuicListenerNext]_quicListenerVars => []ProbeHasItsWaiter
<1>1. ProbeInv => ProbeHasItsWaiter
  BY Zenon DEF ProbeInv, WaitersOK, ProbeHasItsWaiter
<1> QED BY <1>1, ProbeStarts, ProbeNextKeeps, PTL
=============================================================================
