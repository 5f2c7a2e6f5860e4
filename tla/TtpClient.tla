------------------------------- MODULE TtpClient -------------------------------
(* The tunnel cache of a TTP client (ttp/client.rs): streams and datagrams are *)
(* opened on cached tunnels under a lease, servers the client is connected to  *)
(* are maintained, and an entry nobody needs is released once it is idle. One  *)
(* target is modelled, which every tunnel below matches.                       *)
EXTENDS Naturals, FiniteSets

CONSTANTS
  Openers,       \* callers of open_stream, open_control_stream, open_datagram
  CacheTunnels,  \* tunnels the network may create
  CacheKeys,     \* TtpClientTunnelKey: local and remote endpoint of a tunnel
  KeyOf          \* key of each tunnel

Connector == "connect"   \* the caller of connect_server, and then the maintain loop
Remover == "remove"      \* a caller of remove_server
Sweeper == "sweep"       \* the idle loop
TtpUsers == Openers \cup {Connector, Remover, Sweeper}

NoTunnel == 0
NoEntry == [tunnel |-> NoTunnel, maintained |-> FALSE, leases |-> 0, old |-> FALSE]

VARIABLES
  tunnelState,  \* tunnel -> not created, open or closed
  entry,        \* key -> TtpClientTunnelEntry; old: unused for idle_timeout
  target,       \* the target is in maintained_targets
  maintaining,  \* maintain_started
  user,         \* caller -> its position, tunnel, lease key, and copy of target
  blurred,      \* keys remembered while a lease of an earlier tunnel was out
  mixed         \* openers whose lease is on another tunnel than the one they use

ttpVars == <<tunnelState, entry, target, maintaining, user, blurred, mixed>>

NoKey == 0

ASSUME CacheAssumption ==
  /\ IsFiniteSet(Openers)
  /\ CacheTunnels \subseteq Nat \ {NoTunnel} /\ CacheKeys \subseteq Nat \ {NoKey}
  /\ KeyOf \in [CacheTunnels -> CacheKeys]

IdleUser == [pc |-> "idle", tunnel |-> NoTunnel, key |-> NoKey, snap |-> FALSE]

TtpInit ==
  /\ tunnelState = [t \in CacheTunnels |-> "unused"]
  /\ entry = [k \in CacheKeys |-> NoEntry]
  /\ target = FALSE /\ maintaining = FALSE
  /\ user = [u \in TtpUsers |-> IdleUser]
  /\ blurred = {} /\ mixed = {}

\* is_tunnel_available
Available(t) == t # NoTunnel /\ tunnelState[t] = "open"
Cached(k) == entry[k].tunnel # NoTunnel
At(u, pc) == user[u].pc = pc
GoTo(u, pc) == user' = [user EXCEPT ![u].pc = pc]

\* Mutant: leases do not count
ReleasedLeased(snap) ==
  [k \in CacheKeys |-> IF Available(entry[k].tunnel) /\ (snap \/ ~entry[k].old)
                       THEN [entry[k] EXCEPT !.maintained = snap] ELSE NoEntry]

\* release_idle_tunnels_locked, with a snapshot of the maintained targets
Released(snap) ==
  [k \in CacheKeys |->
     IF Available(entry[k].tunnel) /\ (snap \/ entry[k].leases > 0 \/ ~entry[k].old)
     THEN [entry[k] EXCEPT !.maintained = snap] ELSE NoEntry]

\* The matching entry a walk over the map meets first
First(e) == {k \in CacheKeys : e[k].tunnel # NoTunnel
                               /\ \A j \in CacheKeys : e[j].tunnel # NoTunnel => k <= j}

----------------------------------------------------------------------------
(* get_or_create_tunnel                                                     *)

\* An open, connect_server or a round of the maintain loop begins
BeginCall(u) ==
  /\ At(u, "idle") /\ u \in Openers \cup {Connector}
  /\ GoTo(u, "search")
  /\ UNCHANGED <<tunnelState, entry, target, maintaining, blurred, mixed>>

\* find_existing_tunnel
FindExistingTunnel(u) ==
  /\ At(u, "search")
  /\ LET left == Released(target)
     IN IF First(left) = {} THEN entry' = left /\ GoTo(u, "create")
        ELSE \E k \in First(left) :
          /\ entry' = [left EXCEPT ![k].old = FALSE]
          /\ user' = [user EXCEPT ![u].pc = "got", ![u].tunnel = left[k].tunnel]
  /\ UNCHANGED <<tunnelState, target, maintaining, blurred, mixed>>

\* create_tunnel: an error ends the call
CreateTunnel(u) ==
  /\ At(u, "create")
  /\ \/ /\ user' = [user EXCEPT ![u] = IdleUser] /\ UNCHANGED tunnelState
     \/ \E t \in CacheTunnels :
          /\ tunnelState[t] = "unused"
          /\ \A s \in CacheTunnels : tunnelState[s] = "unused" => t <= s
          /\ tunnelState' = [tunnelState EXCEPT ![t] = "open"]
          /\ user' = [user EXCEPT ![u].pc = "attach", ![u].tunnel = t]
  /\ UNCHANGED <<entry, target, maintaining, blurred, mixed>>

\* attach_tunnel: a failed attach closes the tunnel
AttachTunnel(u) ==
  /\ At(u, "attach")
  /\ \/ GoTo(u, "insert") /\ UNCHANGED tunnelState
     \/ /\ tunnelState' = [tunnelState EXCEPT ![user[u].tunnel] = "closed"]
        /\ user' = [user EXCEPT ![u] = IdleUser]
  /\ UNCHANGED <<entry, target, maintaining, blurred, mixed>>

LeaseHolders(k) == {u \in Openers : user[u].key = k}

\* remember_tunnel_entry: an entry of the same key is replaced, its leases with it
RememberTunnelEntry(u) ==
  /\ At(u, "insert")
  /\ LET t == user[u].tunnel
         k == KeyOf[t]
     IN /\ entry' = [Released(target) EXCEPT ![k] =
                       [tunnel |-> t, maintained |-> target, leases |-> 0, old |-> FALSE]]
        /\ blurred' = IF LeaseHolders(k) = {} THEN blurred ELSE blurred \cup {k}
  /\ GoTo(u, "got")
  /\ UNCHANGED <<tunnelState, target, maintaining, mixed>>

----------------------------------------------------------------------------
(* Opening under a lease                                                    *)

\* acquire_lease: on the entry that matches now; with none the open fails
AcquireLease(u) ==
  /\ u \in Openers /\ At(u, "got")
  /\ IF First(entry) = {}
     THEN user' = [user EXCEPT ![u] = IdleUser] /\ UNCHANGED <<entry, mixed>>
     ELSE \E k \in First(entry) :
       /\ entry' = [entry EXCEPT ![k].leases = @ + 1, ![k].old = FALSE]
       /\ user' = [user EXCEPT ![u].pc = "opening", ![u].key = k]
       /\ mixed' = IF entry[k].tunnel = user[u].tunnel THEN mixed ELSE mixed \cup {u}
  /\ UNCHANGED <<tunnelState, target, maintaining, blurred>>

\* Drop of TtpClientTunnelLeaseInner: the entry that has the key by now
LeaseDropped(k) ==
  IF Cached(k) THEN [entry EXCEPT ![k].leases = IF @ = 0 THEN 0 ELSE @ - 1, ![k].old = FALSE]
  ELSE entry

OpenChannel(u) ==
  /\ At(u, "opening") /\ tunnelState[user[u].tunnel] = "open"
  /\ GoTo(u, "using")
  /\ UNCHANGED <<tunnelState, entry, target, maintaining, blurred, mixed>>

\* The open fails, or the last half of the stream is dropped
DropLease(u) ==
  /\ user[u].pc \in {"opening", "using"}
  /\ entry' = LeaseDropped(user[u].key)
  /\ user' = [user EXCEPT ![u] = IdleUser]
  /\ mixed' = mixed \ {u}
  /\ UNCHANGED <<tunnelState, target, maintaining, blurred>>

----------------------------------------------------------------------------
(* Maintained targets                                                       *)

\* connect_server, once it has a tunnel
PushTarget ==
  /\ At(Connector, "got")
  /\ target' = TRUE
  /\ GoTo(Connector, "refresh")
  /\ UNCHANGED <<tunnelState, entry, maintaining, blurred, mixed>>

RemoveServer ==
  /\ At(Remover, "idle") /\ target
  /\ target' = FALSE
  /\ GoTo(Remover, "refresh")
  /\ UNCHANGED <<tunnelState, entry, maintaining, blurred, mixed>>

\* Mutant: last_used is left as it was
RefreshMaintainedOnly(u) ==
  /\ At(u, "refresh")
  /\ entry' = [k \in CacheKeys |-> IF Cached(k)
                 THEN [entry[k] EXCEPT !.maintained = target] ELSE NoEntry]
  /\ maintaining' = (maintaining \/ u = Connector)
  /\ user' = [user EXCEPT ![u] = IdleUser]
  /\ UNCHANGED <<tunnelState, target, blurred, mixed>>

\* refresh_maintained_cache_state; connect_server then starts the maintain loop
RefreshMaintained(u) ==
  /\ At(u, "refresh")
  /\ entry' = [k \in CacheKeys |-> IF Cached(k)
                 THEN [entry[k] EXCEPT !.maintained = target, !.old = FALSE] ELSE NoEntry]
  /\ maintaining' = (maintaining \/ u = Connector)
  /\ user' = [user EXCEPT ![u] = IdleUser]
  /\ UNCHANGED <<tunnelState, target, blurred, mixed>>

\* start_maintain_loop: a tunnel there again, the round is done
MaintainRound ==
  /\ At(Connector, "got") /\ maintaining
  /\ user' = [user EXCEPT ![Connector] = IdleUser]
  /\ UNCHANGED <<tunnelState, entry, target, maintaining, blurred, mixed>>

\* start_idle_loop clones maintained_targets before it locks the cache (so do the
\* callers above: one step there)
SweepBegins ==
  /\ At(Sweeper, "idle") /\ \E k \in CacheKeys : Cached(k)
  /\ user' = [user EXCEPT ![Sweeper].pc = "release", ![Sweeper].snap = target]
  /\ UNCHANGED <<tunnelState, entry, target, maintaining, blurred, mixed>>

SweepReleases ==
  /\ At(Sweeper, "release")
  /\ entry' = Released(user[Sweeper].snap)
  /\ user' = [user EXCEPT ![Sweeper] = IdleUser]
  /\ UNCHANGED <<tunnelState, target, maintaining, blurred, mixed>>

\* Idle time: never in the moments between two steps with no await between them
Grow(k) ==
  /\ Cached(k) /\ ~entry[k].old
  /\ \A u \in TtpUsers : user[u].pc \notin {"got", "insert", "refresh", "release"}
  /\ entry' = [entry EXCEPT ![k].old = TRUE]
  /\ UNCHANGED <<tunnelState, target, maintaining, user, blurred, mixed>>

\* The tunnel is lost
TunnelDies(t) ==
  /\ tunnelState[t] = "open"
  /\ tunnelState' = [tunnelState EXCEPT ![t] = "closed"]
  /\ UNCHANGED <<entry, target, maintaining, user, blurred, mixed>>

TtpNext ==
  \/ \E u \in TtpUsers :
       \/ BeginCall(u) \/ FindExistingTunnel(u) \/ CreateTunnel(u)
       \/ AttachTunnel(u) \/ RememberTunnelEntry(u) \/ AcquireLease(u) \/ OpenChannel(u)
       \/ DropLease(u) \/ RefreshMaintained(u)
  \/ PushTarget \/ RemoveServer \/ MaintainRound \/ SweepBegins \/ SweepReleases
  \/ \E k \in CacheKeys : Grow(k)
  \/ \E t \in CacheTunnels : TunnelDies(t)

----------------------------------------------------------------------------

\* A lease keeps its tunnel in the cache: while a stream is open on a live tunnel,
\* idle release leaves the entry alone and later opens share the tunnel. It holds
\* for a lease taken on the tunnel in use, and as long as the key was not
\* remembered again while one of its leases was out: both happen, and there the
\* drop of one lease takes another's away.
LeaseKeepsTunnel ==
  \A u \in Openers \ mixed :
    At(u, "using") /\ Available(user[u].tunnel) /\ user[u].key \notin blurred
      => entry[user[u].key].tunnel = user[u].tunnel

\* A maintained target with a live tunnel keeps an entry: no release takes the last
\* one, not even a sweep that copied maintained_targets before connect_server added it.
\* The exception is a remove_server that has taken the target out and not yet refreshed
\* the entries: connect_server puts the target back, its tunnel dies, and a sweep that
\* copied the targets in between releases another entry, idle since before.
MaintainedIsKept ==
  [][target /\ target' /\ ~At(Remover, "refresh")
       /\ (\E k \in CacheKeys : Available(entry[k].tunnel))
       => \E k \in CacheKeys : entry'[k].tunnel # NoTunnel]_ttpVars
================================================================================
