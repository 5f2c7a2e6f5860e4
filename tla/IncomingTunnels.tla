---------------------------- MODULE IncomingTunnels ----------------------------
(* How a tunnel that reaches a process finds its owner: NetManager validates   *)
(* it and hands it to the subscriber of its local identity                     *)
(* (networks/net_manager.rs); a TTP runtime validates it again, listens on it  *)
(* and caches it beside the tunnels it opens itself (ttp/runtime/, and the     *)
(* shared cache of ttp/client.rs). One local identity and one remote are       *)
(* modelled.                                                                   *)
EXTENDS Naturals, FiniteSets

CONSTANTS
  Runtimes,    \* TTP runtimes: subscribers that answer whether they still exist
  Acceptors,   \* acceptance subscribers (a TunnelManager): they answer with a verdict
  Arrivals,    \* tunnels
  EndpointsOf  \* TtpTunnelCacheKey of each tunnel

Nobody == "nobody"
Subscribers == Runtimes \cup Acceptors

ASSUME SubscribersAssumption == Nobody \notin Subscribers

VARIABLES
  subscription,  \* owner of the identity's entry in NetManager.subscriptions
  core,          \* subscriber -> absent, alive, dying (no strong reference left) or gone
  delivery,      \* tunnel -> position of its delivery and the subscriber it is with
  closed,        \* tunnels that are closed
  cached,        \* runtime -> RuntimeCore.tunnels
  displaced      \* tunnels whose cache entry went to another with the same endpoints

incomingVars == <<subscription, core, delivery, closed, cached, displaced>>

IncomingInit ==
  /\ subscription = Nobody
  /\ core = [s \in Subscribers |-> "absent"]
  /\ delivery = [t \in Arrivals |-> [pc |-> "none", with |-> Nobody]]
  /\ closed = {} /\ displaced = {}
  /\ cached = [r \in Runtimes |-> {}]

Step(t, pc) == delivery' = [delivery EXCEPT ![t].pc = pc]

\* A strong reference to the subscriber is held by the call in progress
Busy(s) == \E t \in Arrivals : delivery[t].with = s
             /\ delivery[t].pc \in {"admit", "streams", "controls", "datagrams", "remember"}

----------------------------------------------------------------------------
(* Subscribing                                                              *)

\* RuntimeCore::new or an acceptance subscriber: an occupied identity is refused
\* (AlreadyExists) and leaves nothing
Subscribe(s) ==
  /\ core[s] = "absent" /\ subscription = Nobody
  /\ subscription' = s
  /\ core' = [core EXCEPT ![s] = "alive"]
  /\ UNCHANGED <<delivery, closed, cached, displaced>>

\* The last reference goes: the weak one of the callback fails from here on
LastReference(s) ==
  /\ core[s] = "alive" /\ ~Busy(s)
  /\ core' = [core EXCEPT ![s] = "dying"]
  /\ UNCHANGED <<subscription, delivery, closed, cached, displaced>>

\* Only the owner's own entry is removed (Arc::ptr_eq on the owner)
Unsubscribed(s) == IF subscription = s THEN Nobody ELSE subscription

\* The guard is dropped with the subscriber: unregister_owned_incoming_tunnel_subscriber
DropSubscriber(s) ==
  /\ core[s] = "dying"
  /\ core' = [core EXCEPT ![s] = "gone"]
  /\ subscription' = Unsubscribed(s)
  /\ cached' = IF s \in Runtimes THEN [cached EXCEPT ![s] = {}] ELSE cached
  /\ UNCHANGED <<delivery, closed, displaced>>

----------------------------------------------------------------------------
(* Dispatching a tunnel                                                     *)

\* accept_connection of a listener, then dispatch_tunnel
TunnelArrives(t) ==
  /\ delivery[t].pc = "none" /\ \A s \in Arrivals : s < t => delivery[s].pc # "none"
  /\ Step(t, "validate")
  /\ UNCHANGED <<subscription, core, closed, cached, displaced>>

\* The validator accepts, or the tunnel is closed
ValidateTunnel(t) ==
  /\ delivery[t].pc = "validate"
  /\ \/ Step(t, "publish") /\ UNCHANGED closed
     \/ Step(t, "rejected") /\ closed' = closed \cup {t}
  /\ UNCHANGED <<subscription, core, cached, displaced>>

\* Mutant: a tunnel nobody subscribed to is left alone
SelectSubscriberSilently(t) ==
  /\ delivery[t].pc = "publish"
  /\ delivery' = [delivery EXCEPT ![t] =
       IF subscription = Nobody THEN [pc |-> "rejected", with |-> Nobody]
       ELSE [pc |-> "call", with |-> subscription]]
  /\ UNCHANGED <<subscription, core, closed, cached, displaced>>

\* publish_tunnel: the callback is cloned under the read lock and called outside
SelectSubscriber(t) ==
  /\ delivery[t].pc = "publish"
  /\ IF subscription = Nobody
     THEN Step(t, "rejected") /\ closed' = closed \cup {t}
     ELSE /\ delivery' = [delivery EXCEPT ![t] = [pc |-> "call", with |-> subscription]]
          /\ UNCHANGED closed
  /\ UNCHANGED <<subscription, core, cached, displaced>>

\* The callback of a runtime: the runtime is reached, or its entry is removed
\* and the tunnel closed
CallRuntime(t) ==
  /\ delivery[t].pc = "call" /\ delivery[t].with \in Runtimes
  /\ LET r == delivery[t].with
     IN IF core[r] = "alive"
        THEN Step(t, "admit") /\ UNCHANGED <<subscription, closed>>
        ELSE /\ Step(t, "rejected") /\ closed' = closed \cup {t}
             /\ subscription' = Unsubscribed(r)
  /\ UNCHANGED <<core, cached, displaced>>

\* The callback of an acceptance subscriber: its verdict decides
CallAcceptor(t) ==
  /\ delivery[t].pc = "call" /\ delivery[t].with \in Acceptors
  /\ \/ /\ core[delivery[t].with] = "alive"
        /\ Step(t, "accepted") /\ UNCHANGED closed
     \/ Step(t, "rejected") /\ closed' = closed \cup {t}
  /\ UNCHANGED <<subscription, core, cached, displaced>>

----------------------------------------------------------------------------
(* A runtime takes a tunnel                                                 *)

\* accept_incoming_tunnel: the runtime's own validator; NetManager is told
\* "accepted" whatever it says
AdmitTunnel(t) ==
  /\ delivery[t].pc = "admit"
  /\ \/ Step(t, "streams") /\ UNCHANGED closed
     \/ Step(t, "accepted") /\ closed' = closed \cup {t}
  /\ UNCHANGED <<subscription, core, cached, displaced>>

\* attach_tunnel listens for streams, control streams and datagrams, one after
\* the other; an error (other than NotSupport) closes the tunnel: close_failed_attach
ListenOn(t, from, to) ==
  /\ delivery[t].pc = from
  /\ \/ Step(t, to) /\ UNCHANGED closed
     \/ Step(t, "accepted") /\ closed' = closed \cup {t}
  /\ UNCHANGED <<subscription, core, cached, displaced>>

ListenForStreams(t) == ListenOn(t, "streams", "controls")
ListenForControlStreams(t) == ListenOn(t, "controls", "datagrams")
ListenForDatagrams(t) == ListenOn(t, "datagrams", "remember")

\* remember_tunnel_in_multi: closed ones go, and the one with the same endpoints
Remembered(old, t) ==
  {s \in old \ closed : EndpointsOf[s] # EndpointsOf[t]} \cup {t}

RememberTunnel(t) ==
  /\ delivery[t].pc = "remember"
  /\ LET r == delivery[t].with
     IN /\ cached' = [cached EXCEPT ![r] = Remembered(@, t)]
        /\ displaced' = displaced \cup ({s \in cached[r] : EndpointsOf[s] = EndpointsOf[t]} \ {t})
  /\ Step(t, "accepted")
  /\ UNCHANGED <<subscription, core, closed>>

----------------------------------------------------------------------------
(* A runtime opens                                                          *)

\* find_existing_tunnel_in_multi, for get_existing_tunnel and get_or_create_tunnel:
\* closed tunnels leave the cache on the way
FindExisting(r) ==
  /\ core[r] = "alive" /\ cached[r] \cap closed # {}
  /\ cached' = [cached EXCEPT ![r] = @ \ closed]
  /\ UNCHANGED <<subscription, core, delivery, closed, displaced>>

\* get_or_create_tunnel_for_multi with no tunnel there: the network makes one,
\* which is attached and remembered like one that came in
CreateForTarget(r, t) ==
  /\ core[r] = "alive" /\ cached[r] \ closed = {}
  /\ delivery[t].pc = "none" /\ \A s \in Arrivals : s < t => delivery[s].pc # "none"
  /\ delivery' = [delivery EXCEPT ![t] = [pc |-> "streams", with |-> r]]
  /\ cached' = [cached EXCEPT ![r] = {}]
  /\ UNCHANGED <<subscription, core, closed, displaced>>

TunnelCloses(t) ==
  /\ delivery[t].pc # "none" /\ t \notin closed
  /\ closed' = closed \cup {t}
  /\ UNCHANGED <<subscription, core, delivery, cached, displaced>>

IncomingNext ==
  \/ \E s \in Subscribers : Subscribe(s) \/ LastReference(s) \/ DropSubscriber(s)
  \/ \E t \in Arrivals :
       \/ TunnelArrives(t) \/ ValidateTunnel(t) \/ SelectSubscriber(t) \/ CallRuntime(t)
       \/ CallAcceptor(t) \/ AdmitTunnel(t) \/ ListenForStreams(t) \/ ListenForControlStreams(t)
       \/ ListenForDatagrams(t) \/ RememberTunnel(t) \/ TunnelCloses(t)
  \/ \E r \in Runtimes : FindExisting(r) \/ \E t \in Arrivals : CreateForTarget(r, t)

----------------------------------------------------------------------------

\* A tunnel whose delivery is over is not left open without an owner: it is closed,
\* or an acceptance subscriber took it, or it is in the cache of the runtime that
\* took it, unless a tunnel between the same endpoints has its place there or the
\* runtime itself is gone. And a living subscriber is the one tunnels are delivered
\* to: NetManager's entry is its own, although an earlier subscriber's guard is
\* dropped, or a delivery to it fails, after the new one has registered.
DeliveredHasOwner ==
  /\ \A t \in Arrivals : delivery[t].pc \in {"accepted", "rejected"} =>
       \/ t \in closed
       \/ delivery[t].with \in Acceptors
       \/ delivery[t].with \in Runtimes
            /\ \/ t \in cached[delivery[t].with] \cup displaced
               \/ core[delivery[t].with] = "gone"
  /\ \A s \in Subscribers : core[s] = "alive" => subscription = s
================================================================================
