---------------------------- MODULE PurposeListeners ----------------------------
(* Listening for a purpose: the listeners of the stream and datagram managers  *)
(* (stream/stream_manager.rs, datagram/datagram_manager.rs) over the registry  *)
(* of networks/tunnel.rs, for one purpose. The stream, control stream and      *)
(* datagram registries work alike; a behaviour is about one of them.           *)
EXTENDS Naturals, Sequences, FiniteSets

CONSTANTS
  ListenCalls,    \* calls of listen(), each with the guard it returns
  Openings,       \* streams or datagrams that reach the process
  QueueCapacity   \* LISTENER_CHANNEL_CAPACITY

Unregistered == 0

ASSUME ListenCallsAssumption == ListenCalls \subseteq Nat \ {Unregistered}

ListenKinds == {"stream", "control", "datagram"}

VARIABLES
  kind,        \* the registry the behaviour is about
  subscribed,  \* kinds the tunnel's callback is installed for
  registered,  \* the purpose's entry: the listener whose sender it holds
  listener,    \* call -> its position, shared stop flag, queue and accept() position
  opening,     \* opening -> its position and the listener whose sender it holds
  raced        \* listen calls that overlapped another, or came while such a one was held

purposeVars == <<kind, subscribed, registered, listener, opening, raced>>

PurposeInit ==
  /\ kind \in ListenKinds /\ subscribed = {}
  /\ registered = Unregistered /\ raced = {}
  /\ listener = [g \in ListenCalls |->
       [pc |-> "idle", stop |-> FALSE, rxClosed |-> FALSE, queue |-> <<>>, accept |-> "no"]]
  /\ opening = [x \in Openings |-> [pc |-> "none", sender |-> Unregistered]]

----------------------------------------------------------------------------
(* The subscription loop installs the callbacks on a tunnel                 *)

\* listen_stream; when it fails control streams are not listened for either
SubscribeStreams ==
  /\ kind = "stream" /\ subscribed = {}
  /\ subscribed' = {"stream"}
  /\ UNCHANGED <<kind, registered, listener, opening, raced>>

SubscribeControlStreams ==
  /\ kind = "control"
  /\ \/ subscribed = {} /\ subscribed' = {"stream"}
     \/ subscribed = {"stream"} /\ subscribed' = {"stream", "control"}
  /\ UNCHANGED <<kind, registered, listener, opening, raced>>

SubscribeDatagrams ==
  /\ kind = "datagram" /\ subscribed = {}
  /\ subscribed' = {"datagram"}
  /\ UNCHANGED <<kind, registered, listener, opening, raced>>

----------------------------------------------------------------------------
(* listen() and the drop of its guard                                       *)

\* Mutant: a listener that was stopped does not count
FreeOfLive == IF registered = Unregistered THEN TRUE ELSE listener[registered].stop

\* ListenPurposeRegistry::contains
Free == registered = Unregistered

\* Calls between their check and their insertion, and overlapped ones still held
Overlapping == {g \in ListenCalls : \/ listener[g].pc = "checked"
                                    \/ g \in raced /\ listener[g].pc # "dropped"}

\* The check and the insertion are two lock regions; an occupied purpose is an error
ListenFor(g) ==
  \/ /\ listener[g].pc = "idle" /\ Free
     /\ listener' = [listener EXCEPT ![g].pc = "checked"]
     /\ raced' = IF Overlapping = {} THEN raced ELSE raced \cup Overlapping \cup {g}
     /\ UNCHANGED registered
  \/ /\ listener[g].pc = "checked"
     /\ listener' = [listener EXCEPT ![g].pc = "listening"]
     /\ registered' = g
     /\ UNCHANGED raced

Stopped(ls, g) ==
  [ls EXCEPT ![g].stop = TRUE, ![g].accept = IF @ = "waiting" THEN "woken" ELSE @]

\* stop() of the listener, then remove_listener: by purpose, whoever is registered,
\* and the one removed is stopped
DropGuard(g) ==
  \/ /\ listener[g].pc = "listening" /\ listener[g].accept = "no"
     /\ listener' = [Stopped(listener, g) EXCEPT ![g].pc = "stopped", ![g].rxClosed = TRUE]
     /\ UNCHANGED <<registered, raced>>
  \/ /\ listener[g].pc = "stopped"
     /\ listener' = [(IF registered = Unregistered THEN listener ELSE Stopped(listener, registered))
                       EXCEPT ![g].pc = "dropped"]
     /\ registered' = Unregistered
     /\ UNCHANGED raced

ListenStream(g) == kind = "stream" /\ ListenFor(g) /\ UNCHANGED <<kind, subscribed, opening>>
ListenControlStream(g) == kind = "control" /\ ListenFor(g) /\ UNCHANGED <<kind, subscribed, opening>>
ListenDatagram(g) == kind = "datagram" /\ ListenFor(g) /\ UNCHANGED <<kind, subscribed, opening>>

DropStreamGuard(g) == kind = "stream" /\ DropGuard(g) /\ UNCHANGED <<kind, subscribed, opening>>
DropControlGuard(g) == kind = "control" /\ DropGuard(g) /\ UNCHANGED <<kind, subscribed, opening>>
DropDatagramGuard(g) == kind = "datagram" /\ DropGuard(g) /\ UNCHANGED <<kind, subscribed, opening>>

----------------------------------------------------------------------------
(* Delivering what comes in                                                 *)

\* The tunnel calls the callback, which takes the purpose's sender; with none
\* what came in is dropped
TakeSender(x) ==
  /\ opening[x].pc = "none" /\ \A y \in Openings : y < x => opening[y].pc # "none"
  /\ opening' = [opening EXCEPT ![x] = [pc |-> IF Free THEN "dropped" ELSE "pushing",
                                       sender |-> registered]]
  /\ UNCHANGED <<kind, subscribed, registered, listener, raced>>

StreamArrives(x) == kind = "stream" /\ kind \in subscribed /\ TakeSender(x)
ControlStreamArrives(x) == kind = "control" /\ kind \in subscribed /\ TakeSender(x)
DatagramArrives(x) == kind = "datagram" /\ kind \in subscribed /\ TakeSender(x)

\* push_accepted: a listener that is stopped, full or gone gets nothing
PushAccepted(x) ==
  /\ opening[x].pc = "pushing"
  /\ LET g == opening[x].sender
         taken == ~listener[g].stop /\ ~listener[g].rxClosed
                  /\ Len(listener[g].queue) < QueueCapacity
     IN /\ listener' = IF taken THEN [listener EXCEPT ![g].queue = Append(@, x)] ELSE listener
        /\ opening' = [opening EXCEPT ![x] = [pc |-> IF taken THEN "queued" ELSE "dropped",
                                              sender |-> Unregistered]]
  /\ UNCHANGED <<kind, subscribed, registered, raced>>

----------------------------------------------------------------------------
(* accept()                                                                 *)

AcceptAt(g, pc) == listener' = [listener EXCEPT ![g].accept = pc]

\* The stop flag is read before the notification is awaited
BeginAccept(g) ==
  /\ listener[g].pc = "listening" /\ listener[g].accept = "no" /\ ~listener[g].stop
  /\ AcceptAt(g, "entering")
  /\ UNCHANGED <<kind, subscribed, registered, opening, raced>>

AwaitAccept(g) ==
  /\ listener[g].accept = "entering"
  /\ AcceptAt(g, "waiting")
  /\ UNCHANGED <<kind, subscribed, registered, opening, raced>>

\* recv(): an item taken after a stop is dropped
TakeAccepted(g) ==
  /\ listener[g].accept = "waiting" /\ listener[g].queue # <<>>
  /\ opening' = [opening EXCEPT ![Head(listener[g].queue)].pc =
                   IF listener[g].stop THEN "dropped" ELSE "accepted"]
  /\ listener' = [listener EXCEPT ![g].accept = "no", ![g].queue = Tail(@)]
  /\ UNCHANGED <<kind, subscribed, registered, raced>>

\* Mutant: only the stop notification ends a wait
SendersGoneNever(g) == FALSE

\* The registry's sender is dropped and no callback holds a clone: recv() is None
SendersGone(g) == registered # g /\ \A x \in Openings : opening[x].sender # g

\* The stop notification, or the closed channel
AcceptFails(g) ==
  /\ \/ listener[g].accept = "woken"
     \/ listener[g].accept = "waiting" /\ listener[g].queue = <<>> /\ SendersGone(g)
  /\ AcceptAt(g, "no")
  /\ UNCHANGED <<kind, subscribed, registered, opening, raced>>

PurposeNext ==
  \/ SubscribeStreams \/ SubscribeControlStreams \/ SubscribeDatagrams
  \/ \E g \in ListenCalls :
       \/ ListenStream(g) \/ ListenControlStream(g) \/ ListenDatagram(g)
       \/ DropStreamGuard(g) \/ DropControlGuard(g) \/ DropDatagramGuard(g)
       \/ BeginAccept(g) \/ AwaitAccept(g) \/ TakeAccepted(g) \/ AcceptFails(g)
  \/ \E x \in Openings : StreamArrives(x) \/ ControlStreamArrives(x) \/ DatagramArrives(x)
                         \/ PushAccepted(x)

\* A task that can go on does: accept() is polled when it is woken, a callback
\* pushes once it has the sender (each opening does so once)
PurposeFairness ==
  /\ \A g \in ListenCalls : WF_purposeVars(AwaitAccept(g) \/ TakeAccepted(g) \/ AcceptFails(g))
  /\ WF_purposeVars(\E x \in Openings : PushAccepted(x))

----------------------------------------------------------------------------

\* A listener stays the purpose's listener, and is not stopped, until its guard is
\* dropped: what comes in reaches it. Listen calls that overlap are the exception:
\* each may find the purpose free, and the drop of the guard that lost removes and
\* stops the listener that won (or the one that came after).
ListenerStaysRegistered ==
  \A g \in ListenCalls \ raced :
    listener[g].pc = "listening" => registered = g /\ ~listener[g].stop

\* An accept() whose listener is no longer registered returns, though the stop
\* notification may come before it is awaited and a displaced listener gets none.
AcceptReturns(g) ==
  (listener[g].accept # "no" /\ registered # g) ~> (listener[g].accept = "no")
================================================================================
