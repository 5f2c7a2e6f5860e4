--------------------------- MODULE TunnelManager ---------------------------
(***************************************************************************)
(* The tunnel manager of one peer, for one remote peer: the table of       *)
(* tunnel candidates, the tasks that open tunnels (application opens,      *)
(* reverse dials the SN asks for, proxy upgrades), the waiters for reverse *)
(* tunnels, and the background loops that clean the table and upgrade a    *)
(* peer that is reached only through a proxy.                              *)
(*                                                                         *)
(* Source: p2p-frame/src/tunnel/tunnel_manager.rs.  A step is what one     *)
(* task does between two awaits or two lock regions; register_tunnel and   *)
(* publish_registered_tunnel are two lock regions, hence two steps.        *)
(***************************************************************************)
EXTENDS Naturals, FiniteSets

CONSTANTS
  Openers,        \* tasks of the application and of the SN's calls
  Upgraders,      \* slots for the tasks that attempt a proxy upgrade
  DirectTunnels,  \* candidates with a form other than TunnelForm::Proxy
  ProxyTunnels,   \* candidates with TunnelForm::Proxy
  HasSn,          \* an SN service is configured (sn_service.is_some())
  EarlyDeath,     \* a candidate may die before it is registered
  MaxArrivals,    \* bound: tunnels the remote peer opens
  None

Tunnel == DirectTunnels \cup ProxyTunnels
Task == Openers \cup Upgraders

\* Names for proxy-upgrade generations: one more than tasks can carry
Gens == 1 .. Cardinality(Upgraders) + 1

ASSUME ConstantsDiffer ==
  /\ IsFiniteSet(Upgraders)
  /\ Openers \cap Upgraders = {}
  /\ DirectTunnels \cap ProxyTunnels = {}
  /\ None \notin Tunnel \cup Task \cup Nat
  /\ HasSn \in BOOLEAN
  /\ EarlyDeath \in BOOLEAN
  /\ MaxArrivals \in Nat

VARIABLES
  life,       \* how far each candidate's connection is
  pool,       \* self.tunnels[remote]: absent, registered or published
  accepted,   \* on_incoming_tunnel's progress for a tunnel no waiter took
  waiters,    \* pending_reverse_waiters, by the task that registered it
  lock,       \* the task holding the lock network-tunnel-<remote>
  task,       \* the open tasks
  abandoned,  \* dials left to spawn_abandoned_direct_candidate_cleanup
  upgrade,    \* proxy_upgrade_states[remote]
  loop,       \* the proxy-upgrade task's position
  arrivals,   \* how many tunnels the remote peer opened
  permit      \* the permit stored in proxy_upgrade_notify

managerVars == <<life, pool, accepted, waiters, lock, task, abandoned,
                 upgrade, loop, arrivals, permit>>

NoUpgrade == [on |-> FALSE, gen |-> 0, due |-> FALSE, in_progress |-> FALSE]

\* A task: what it is for, where it is, the paths that are running (the dials
\* of open_direct_path, the reverse path, the proxy path), the tunnel its
\* waiter was given, and the tunnel it is registering or finalizing.
IdleTask == [kind |-> "none", pc |-> "idle", stage |-> "none", dials |-> {},
             rev |-> "off", proxy |-> FALSE, given |-> None, got |-> None,
             path |-> "none", gen |-> 0]

TaskRecord ==
  [kind : {"none", "open", "called", "upgrade"},
   pc : {"idle", "check", "lookup", "lock", "existing", "paths", "register",
         "publish", "finalize"},
   stage : {"none", "cached", "race", "proxy"},
   dials : SUBSET Tunnel,
   rev : {"off", "delay", "call", "wait"},
   proxy : BOOLEAN,
   given : Tunnel \cup {None},
   got : Tunnel \cup {None},
   path : {"none", "direct", "reverse", "proxy"},
   gen : Gens \cup {0}]

ManagerTypeOK ==
  /\ life \in [Tunnel -> {"down", "dialing", "up", "dropped"}]
  /\ pool \in [Tunnel -> {"out", "hidden", "published"}]
  /\ accepted \in [Tunnel -> {"no", "arrived", "registered"}]
  /\ waiters \subseteq Task
  /\ lock \in Task \cup {None}
  /\ task \in [Task -> TaskRecord]
  /\ abandoned \subseteq Tunnel
  /\ upgrade \in [on : BOOLEAN, gen : Gens \cup {0}, due : BOOLEAN,
                  in_progress : BOOLEAN]
  /\ loop \in {"compute", "timed", "forever"}
  /\ arrivals \in 0 .. MaxArrivals
  /\ permit \in BOOLEAN

-----------------------------------------------------------------------------
\* The table and the upgrade state

\* is_tunnel_available
Available(t) == life[t] = "up"

\* entries.retain(is_tunnel_available)
Pruned == [t \in Tunnel |-> IF Available(t) THEN pool[t] ELSE "out"]

AvailableEntries(p) == {t \in Tunnel : p[t] # "out" /\ Available(t)}

\* A generation number no running task carries; the code counts up, and a
\* number is only ever compared with the one a running task was given.
FreshGen == CHOOSE g \in Gens : \A u \in Upgraders : task[u].gen # g

\* ManagerState::insert_proxy_upgrade with ProxyUpgradeState::new
InsertUpgrade ==
  upgrade' = [on |-> TRUE, gen |-> FreshGen, due |-> FALSE,
              in_progress |-> FALSE]

\* removal of the state, and the notification the caller makes for it
RemoveUpgrade ==
  /\ upgrade' = NoUpgrade
  /\ permit' = (permit \/ upgrade.on)

\* reconcile_proxy_upgrade_state on table p, and the caller's notify_one
Reconcile(p) ==
  LET live == AvailableEntries(p) IN
  \/ /\ live = {} \/ live \cap DirectTunnels # {}
     /\ RemoveUpgrade
  \/ /\ live # {} /\ live \subseteq ProxyTunnels
     /\ (\A t \in live : p[t] = "published") /\ ~upgrade.on
     /\ InsertUpgrade
     /\ permit' = TRUE
  \/ /\ live # {} /\ live \subseteq ProxyTunnels
     /\ (\E t \in live : p[t] # "published") \/ upgrade.on
     /\ UNCHANGED <<upgrade, permit>>

\* The part every table lookup shares: drop unavailable entries, reconcile.
PruneAndReconcile ==
  /\ pool' = Pruned
  /\ Reconcile(Pruned)

\* select_preferred_tunnel_entry up to the order of activity and recency:
\* candidates other than proxies before proxies.
Preferred(S) == IF S \cap DirectTunnels # {} THEN S \cap DirectTunnels ELSE S

\* get_tunnel: published entries first, then hidden ones
GetTunnel ==
  LET published == {t \in AvailableEntries(pool) : pool[t] = "published"} IN
  Preferred(IF published # {} THEN published ELSE AvailableEntries(pool))

\* get_non_proxy_tunnel: no hidden fallback
GetNonProxyTunnel ==
  {t \in AvailableEntries(pool) \cap DirectTunnels : pool[t] = "published"}

\* Mutant: a proxy schedules an upgrade whatever else the table holds
RegisterTunnelEager(t) ==
  LET p == [Pruned EXCEPT ![t] = "hidden"] IN
  /\ pool' = p
  /\ \/ t \in ProxyTunnels /\ InsertUpgrade /\ permit' = TRUE
     \/ t \notin ProxyTunnels /\ Reconcile(p)

\* register_tunnel's table and upgrade-state update.  Candidate ids are fresh,
\* so the duplicate branch is not taken.
RegisterTunnel(t) ==
  LET p == [Pruned EXCEPT ![t] = "hidden"] IN
  /\ pool' = p
  /\ \/ /\ AvailableEntries(p) \cap DirectTunnels # {}
        /\ RemoveUpgrade
     \/ /\ AvailableEntries(p) \cap DirectTunnels = {}
        /\ t \in ProxyTunnels /\ Available(t)
        /\ InsertUpgrade
        /\ permit' = TRUE
     \/ /\ AvailableEntries(p) \cap DirectTunnels = {}
        /\ ~(t \in ProxyTunnels /\ Available(t))
        /\ Reconcile(p)

-----------------------------------------------------------------------------
\* Task bookkeeping

\* The guard of the per-remote lock is dropped when the call returns.
Unlocked(k) == IF lock = k THEN None ELSE lock

\* The candidate t is not referred to by anything: its name can stand for a
\* new tunnel.
Unused(t) ==
  /\ life[t] \notin {"up", "dialing"}
  /\ pool[t] = "out"
  /\ accepted[t] = "no"
  /\ \A k \in Task : task[k].given # t /\ task[k].got # t

Finish(k) == task' = [task EXCEPT ![k] = IdleTask]

SetPc(k, pc) == task' = [task EXCEPT ![k].pc = pc]

\* Mutant: a failure is charged to whatever generation is current
FailAnyGeneration(g) ==
  IF upgrade.on
    THEN /\ upgrade' = [upgrade EXCEPT !.in_progress = FALSE, !.due = FALSE]
         /\ permit' = TRUE
    ELSE UNCHANGED <<upgrade, permit>>

\* Mutant: the failed attempt stays marked as in progress
FailStillInProgress(g) ==
  IF upgrade.on /\ upgrade.gen = g
    THEN /\ upgrade' = [upgrade EXCEPT !.due = FALSE]
         /\ permit' = TRUE
    ELSE UNCHANGED <<upgrade, permit>>

\* on_proxy_upgrade_failed_generation
FailGeneration(g) ==
  IF upgrade.on /\ upgrade.gen = g
    THEN /\ upgrade' = [upgrade EXCEPT !.in_progress = FALSE, !.due = FALSE]
         /\ permit' = TRUE
    ELSE UNCHANGED <<upgrade, permit>>

-----------------------------------------------------------------------------
\* Starting a task

Untouched == <<life, accepted, waiters, abandoned, loop, arrivals>>

\* open_tunnel_from_id and open_direct_tunnel look at the table before they
\* take the lock; open_tunnel does not.
StartOpen(k) ==
  /\ k \in Openers /\ task[k].pc = "idle"
  /\ \E pc \in {"lookup", "lock"} :
       task' = [task EXCEPT ![k] = [IdleTask EXCEPT !.kind = "open", !.pc = pc]]
  /\ UNCHANGED <<pool, lock, upgrade, permit, Untouched>>

\* on_sn_called: the remote peer asks to be dialled
StartCalled(k) ==
  /\ k \in Openers /\ task[k].pc = "idle" /\ HasSn
  /\ task' = [task EXCEPT ![k] =
                [IdleTask EXCEPT !.kind = "called", !.pc = "lookup"]]
  /\ UNCHANGED <<pool, lock, upgrade, permit, Untouched>>

\* attempt_proxy_upgrade_generation: a stale generation ends the task
Check(k) ==
  /\ task[k].pc = "check"
  /\ IF upgrade.on /\ upgrade.gen = task[k].gen THEN SetPc(k, "lookup") ELSE Finish(k)
  /\ UNCHANGED <<pool, lock, upgrade, permit, Untouched>>

\* What a task takes from the table instead of opening a tunnel.  For a call,
\* an entry with the caller's tunnel_id may or may not be among the available.
Found(k) ==
  CASE task[k].kind = "open" -> GetTunnel
    [] task[k].kind = "upgrade" -> GetNonProxyTunnel
    [] task[k].kind = "called" -> AvailableEntries(pool)

Finalizing(k, t) ==
  [IdleTask EXCEPT !.kind = "upgrade", !.pc = "finalize", !.got = t,
                   !.gen = task[k].gen]

\* Done with a tunnel of the table: an upgrade goes on to finalize it.
UseExisting(k) ==
  \E t \in Found(k) :
    IF task[k].kind = "upgrade"
      THEN task' = [task EXCEPT ![k] = Finalizing(k, t)]
      ELSE Finish(k)

\* The lookup before the lock.  When the finder knows no endpoints, an open
\* goes to the proxy path and an upgrade to the reverse path, without the lock.
Lookup(k) ==
  /\ task[k].pc = "lookup"
  /\ PruneAndReconcile
  /\ \/ UseExisting(k)
     \/ /\ Found(k) = {} \/ task[k].kind = "called"
        /\ SetPc(k, "lock")
     \/ /\ Found(k) = {} /\ task[k].kind = "open"
        /\ task' = [task EXCEPT ![k].pc = "paths", ![k].stage = "proxy",
                                ![k].proxy = TRUE]
     \/ /\ Found(k) = {} /\ task[k].kind = "upgrade"
        /\ task' = [task EXCEPT ![k].pc = "paths", ![k].stage = "race",
                                ![k].rev = IF HasSn THEN "delay" ELSE "off"]
  /\ UNCHANGED <<lock, Untouched>>

\* Locker::get_locker(network-tunnel-<remote>)
TakeLock(k) ==
  /\ task[k].pc = "lock" /\ lock = None
  /\ lock' = k
  /\ SetPc(k, "existing")
  /\ UNCHANGED <<pool, upgrade, permit, Untouched>>

-----------------------------------------------------------------------------
\* Under the lock: the table again, then the paths

\* The candidates open_direct_path dials at once
DialSets == SUBSET {t \in DirectTunnels : Unused(t)}

DialAll(S) ==
  life' = [t \in Tunnel |-> IF t \in S THEN "dialing" ELSE life[t]]

\* The head of open_known_tunnel_with_options: an existing tunnel, else the
\* path that conn_info_cache remembers (one endpoint, the reverse path, or the
\* proxy where it is allowed), which may also be absent or degraded.  A call
\* dials at once.
Existing(k) ==
  /\ task[k].pc = "existing"
  /\ PruneAndReconcile
  /\ \/ /\ UseExisting(k)
        /\ lock' = None
        /\ UNCHANGED life
     \/ /\ task[k].kind = "called"
        /\ \E S \in DialSets :
             /\ DialAll(S)
             /\ task' = [task EXCEPT ![k].pc = "paths", ![k].stage = "race",
                                     ![k].dials = S]
        /\ UNCHANGED lock
     \/ /\ task[k].kind # "called" /\ Found(k) = {}
        /\ \E S \in {D \in DialSets : Cardinality(D) <= 1},
              rev \in {"off", "delay"}, proxy \in BOOLEAN :
             /\ (rev = "delay") => (HasSn /\ S = {} /\ ~proxy)
             /\ proxy => (task[k].kind = "open" /\ S = {})
             /\ DialAll(S)
             /\ task' = [task EXCEPT ![k].pc = "paths", ![k].stage = "cached",
                                     ![k].dials = S, ![k].rev = rev,
                                     ![k].proxy = proxy]
        /\ UNCHANGED lock
  /\ UNCHANGED <<arrivals, accepted, waiters, abandoned, loop>>

\* No path of the current stage is left running
PathsFailed(k) ==
  /\ task[k].pc = "paths"
  /\ task[k].dials = {} /\ task[k].rev = "off" /\ ~task[k].proxy

\* After the cached path: direct and reverse, hedged (race_with_delay)
StartRace(k) ==
  /\ PathsFailed(k) /\ task[k].stage = "cached"
  /\ \E S \in DialSets :
       /\ DialAll(S)
       /\ task' = [task EXCEPT ![k].stage = "race", ![k].dials = S,
                               ![k].rev = IF HasSn THEN "delay" ELSE "off"]
  /\ UNCHANGED <<arrivals, pool, accepted, waiters, lock, abandoned, upgrade, loop, permit>>

\* After the race: the proxy, for an open only (allow_proxy_fallback)
StartProxy(k) ==
  /\ PathsFailed(k) /\ task[k].stage = "race" /\ task[k].kind = "open"
  /\ task' = [task EXCEPT ![k].stage = "proxy", ![k].proxy = TRUE]
  /\ UNCHANGED <<pool, lock, upgrade, permit, Untouched>>

\* Nothing worked: the task ends with an error, an upgrade backs off.
OpenFails(k) ==
  /\ PathsFailed(k)
  /\ task[k].stage = IF task[k].kind = "open" THEN "proxy" ELSE "race"
  /\ Finish(k)
  /\ lock' = Unlocked(k)
  /\ IF task[k].kind = "upgrade" THEN FailGeneration(task[k].gen)
                                 ELSE UNCHANGED <<upgrade, permit>>
  /\ UNCHANGED <<pool, Untouched>>

-----------------------------------------------------------------------------
\* The paths

\* A dial returns a tunnel; open_direct_path goes on to register it.
DialOk(k, t) ==
  /\ task[k].pc = "paths" /\ t \in task[k].dials
  /\ life' = [life EXCEPT ![t] = "up"]
  /\ task' = [task EXCEPT ![k].pc = "register", ![k].path = "direct",
                          ![k].dials = @ \ {t}, ![k].got = t]
  /\ UNCHANGED <<arrivals, pool, accepted, waiters, lock, abandoned, upgrade, loop,
                 permit>>

DialErr(k, t) ==
  /\ task[k].pc = "paths" /\ t \in task[k].dials
  /\ life' = [life EXCEPT ![t] = "down"]
  /\ task' = [task EXCEPT ![k].dials = @ \ {t}]
  /\ UNCHANGED <<arrivals, pool, accepted, waiters, lock, abandoned, upgrade, loop,
                 permit>>

\* open_proxy_path: the PN network returns a tunnel, or an error
ProxyOk(k) ==
  /\ task[k].pc = "paths" /\ task[k].proxy
  /\ \E t \in {p \in ProxyTunnels : Unused(p)} :
       /\ life' = [life EXCEPT ![t] = "up"]
       /\ task' = [task EXCEPT ![k].pc = "register", ![k].path = "proxy",
                               ![k].proxy = FALSE, ![k].got = t]
  /\ UNCHANGED <<arrivals, pool, accepted, waiters, lock, abandoned, upgrade, loop, permit>>

ProxyErr(k) ==
  /\ task[k].pc = "paths" /\ task[k].proxy
  /\ task' = [task EXCEPT ![k].proxy = FALSE]
  /\ UNCHANGED <<pool, lock, upgrade, permit, Untouched>>

\* open_reverse_path: the waiter is in place before the SN is called
ReverseStart(k) ==
  /\ task[k].pc = "paths" /\ task[k].rev = "delay"
  /\ waiters' = waiters \cup {k}
  /\ task' = [task EXCEPT ![k].rev = "call"]
  /\ UNCHANGED <<arrivals, life, pool, accepted, lock, abandoned, upgrade, loop,
                 permit>>

ReverseCallOk(k) ==
  /\ task[k].pc = "paths" /\ task[k].rev = "call"
  /\ task' = [task EXCEPT ![k].rev = "wait"]
  /\ UNCHANGED <<pool, lock, upgrade, permit, Untouched>>

\* ReverseWaitRegistration's drop removes the task's own waiter.
WaiterRemoved(k) == waiters \ {k}

\* The call fails, or the wait times out before a tunnel is delivered; the
\* registration's drop removes the waiter.  A tunnel the waiter already holds
\* when the call fails is let go of.
ReverseFails(k) ==
  /\ task[k].pc = "paths"
  /\ \/ task[k].rev = "call"
     \/ task[k].rev = "wait" /\ task[k].given = None
  /\ waiters' = WaiterRemoved(k)
  /\ task' = [task EXCEPT ![k].rev = "off", ![k].given = None]
  /\ UNCHANGED <<arrivals, life, pool, accepted, lock, abandoned, upgrade, loop,
                 permit>>

\* The waiter resolves; the reverse path goes on to register the tunnel.
ReverseTake(k) ==
  /\ task[k].pc = "paths" /\ task[k].rev = "wait" /\ task[k].given # None
  /\ task' = [task EXCEPT ![k].pc = "register", ![k].path = "reverse",
                          ![k].rev = "off", ![k].given = None,
                          ![k].got = task[k].given]
  /\ UNCHANGED <<pool, lock, upgrade, permit, Untouched>>

\* register_tunnel
Register(k) ==
  /\ task[k].pc = "register"
  /\ RegisterTunnel(task[k].got)
  /\ SetPc(k, "publish")
  /\ UNCHANGED <<lock, Untouched>>

\* The path that published its tunnel ends the race.  A direct winner hands
\* its other dials to the cleanup task; any other winner drops the direct
\* future with its dials; the reverse future's drop removes the waiter.
Winner(k, t) ==
  /\ waiters' = WaiterRemoved(k)
  /\ IF task[k].path = "direct"
       THEN /\ abandoned' = abandoned \cup task[k].dials
            /\ UNCHANGED life
       ELSE /\ life' = [d \in Tunnel |->
                          IF d \in task[k].dials THEN "dropped" ELSE life[d]]
            /\ UNCHANGED abandoned
  /\ lock' = Unlocked(k)
  /\ IF task[k].kind = "upgrade"
       THEN task' = [task EXCEPT ![k] = Finalizing(k, t)]
       ELSE Finish(k)

\* publish_registered_tunnel; when the entry is gone, the path fails, and the
\* direct path closes the candidate and waits for its other dials.
Publish(k) ==
  /\ task[k].pc = "publish"
  /\ LET t == task[k].got IN
     \/ /\ pool[t] # "out"
        /\ pool' = [pool EXCEPT ![t] = "published"]
        /\ Winner(k, t)
     \/ /\ pool[t] = "out"
        /\ life' = IF task[k].path = "direct" /\ Available(t)
                     THEN [life EXCEPT ![t] = "down"] ELSE life
        /\ task' = [task EXCEPT ![k].pc = "paths", ![k].path = "none",
                                ![k].got = None]
        /\ UNCHANGED <<pool, waiters, lock, abandoned>>
  /\ UNCHANGED <<arrivals, accepted, upgrade, loop, permit>>

\* finalize_proxy_upgrade_success: only a registered, available tunnel
\* replaces the proxies.
Finalize(k) ==
  /\ task[k].pc = "finalize"
  /\ LET t == task[k].got
         proxies == {p \in ProxyTunnels : pool[p] # "out"} IN
     \/ /\ pool[t] # "out" /\ Available(t)
        /\ pool' = [p \in Tunnel |-> IF p \in proxies THEN "out" ELSE pool[p]]
        /\ life' = [p \in Tunnel |->
                      IF p \in proxies /\ Available(p) THEN "down" ELSE life[p]]
        /\ RemoveUpgrade
     \/ /\ ~(pool[t] # "out" /\ Available(t))
        /\ Reconcile(pool)
        /\ UNCHANGED <<pool, life>>
  /\ Finish(k)
  /\ UNCHANGED <<arrivals, accepted, waiters, lock, abandoned, loop>>

\* spawn_abandoned_direct_candidate_cleanup: a losing dial ends, and the
\* tunnel it may have produced is closed.
CloseAbandoned(t) ==
  /\ t \in abandoned
  /\ abandoned' = abandoned \ {t}
  /\ life' = [life EXCEPT ![t] = "down"]
  /\ UNCHANGED <<arrivals, pool, accepted, waiters, lock, task, upgrade, loop, permit>>

-----------------------------------------------------------------------------
\* Incoming tunnels (on_incoming_tunnel)

\* A reverse tunnel for the tunnel_id of k's call: the waiter takes it, or it
\* is closed.
IncomingReverse(k, t) ==
  /\ HasSn /\ t \in DirectTunnels /\ Unused(t)
  /\ IF k \in waiters
       THEN /\ waiters' = waiters \ {k}
            /\ task' = [task EXCEPT ![k].given = t]
            /\ life' = [life EXCEPT ![t] = "up"]
       ELSE /\ life' = [life EXCEPT ![t] = "down"]
            /\ UNCHANGED <<waiters, task>>
  /\ UNCHANGED <<arrivals, pool, accepted, lock, abandoned, upgrade, loop, permit>>

\* A tunnel the remote peer opened, direct or through the proxy
IncomingPlain(t) ==
  /\ Unused(t) /\ arrivals < MaxArrivals
  /\ arrivals' = arrivals + 1
  /\ life' = [life EXCEPT ![t] = "up"]
  /\ accepted' = [accepted EXCEPT ![t] = "arrived"]
  /\ UNCHANGED <<pool, waiters, lock, task, abandoned, upgrade, loop, permit>>

IncomingRegister(t) ==
  /\ accepted[t] = "arrived"
  /\ RegisterTunnel(t)
  /\ accepted' = [accepted EXCEPT ![t] = "registered"]
  /\ UNCHANGED <<arrivals, life, waiters, lock, task, abandoned, loop>>

\* An entry that is gone by now makes the manager reject the tunnel, and the
\* net manager closes it.
IncomingPublish(t) ==
  /\ accepted[t] = "registered"
  /\ IF pool[t] # "out"
       THEN /\ pool' = [pool EXCEPT ![t] = "published"]
            /\ UNCHANGED life
       ELSE /\ life' = [life EXCEPT ![t] = "down"]
            /\ UNCHANGED pool
  /\ accepted' = [accepted EXCEPT ![t] = "no"]
  /\ UNCHANGED <<arrivals, waiters, lock, task, abandoned, upgrade, loop, permit>>

-----------------------------------------------------------------------------
\* Connections end; the background loops

\* The candidate is in the hands of a task that has yet to register it.
AboutToRegister(t) ==
  \/ accepted[t] = "arrived"
  \/ \E k \in Task : \/ task[k].given = t
                     \/ task[k].got = t /\ task[k].pc = "register"

\* The connection is lost or the remote peer closes it.
Die(t) ==
  /\ Available(t)
  /\ EarlyDeath \/ ~AboutToRegister(t)
  /\ life' = [life EXCEPT ![t] = "down"]
  /\ UNCHANGED <<arrivals, pool, accepted, waiters, lock, task, abandoned, upgrade,
                 loop, permit>>

\* cleanup_closed_tunnels: entries that are unavailable, or that
\* try_retire_idle retires, leave the table and are closed.
Cleanup(idle) ==
  LET kept == [t \in Tunnel |-> IF t \in idle THEN "out" ELSE Pruned[t]] IN
  /\ idle \subseteq {t \in AvailableEntries(pool) : pool[t] = "published"}
  /\ \E t \in Tunnel : pool[t] # "out"
  /\ pool' = kept
  /\ life' = [t \in Tunnel |-> IF t \in idle THEN "down" ELSE life[t]]
  /\ Reconcile(kept)
  /\ UNCHANGED <<arrivals, accepted, waiters, lock, task, abandoned, loop>>

\* The proxy-upgrade task: next_proxy_upgrade_wait, then sleep or wait
LoopCompute ==
  /\ loop = "compute"
  /\ loop' = IF upgrade.on /\ ~upgrade.in_progress THEN "timed" ELSE "forever"
  /\ UNCHANGED <<arrivals, life, pool, accepted, waiters, lock, task, abandoned,
                 upgrade, permit>>

\* The retry interval passes.
Due ==
  /\ upgrade.on /\ ~upgrade.due
  /\ upgrade' = [upgrade EXCEPT !.due = TRUE]
  /\ UNCHANGED <<arrivals, life, pool, accepted, waiters, lock, task, abandoned, loop,
                 permit>>

\* collect_due_proxy_upgrades and process_proxy_upgrade_attempts, after the
\* sleep ends or a permit is taken
ProcessUpgrades ==
  /\ \/ loop = "timed" /\ UNCHANGED permit
     \/ loop \in {"timed", "forever"} /\ permit /\ permit' = FALSE
  /\ loop' = "compute"
  /\ IF upgrade.on /\ upgrade.due /\ ~upgrade.in_progress
       THEN /\ upgrade' = [upgrade EXCEPT !.in_progress = TRUE]
            /\ \E k \in {u \in Upgraders : task[u].pc = "idle"} :
                 task' = [task EXCEPT ![k] =
                            [IdleTask EXCEPT !.kind = "upgrade", !.pc = "check",
                                             !.gen = upgrade.gen]]
       ELSE UNCHANGED <<upgrade, task>>
  /\ UNCHANGED <<arrivals, life, pool, accepted, waiters, lock, abandoned>>

-----------------------------------------------------------------------------
ManagerInit ==
  /\ life = [t \in Tunnel |-> "down"]
  /\ pool = [t \in Tunnel |-> "out"]
  /\ accepted = [t \in Tunnel |-> "no"]
  /\ waiters = {}
  /\ lock = None
  /\ task = [k \in Task |-> IdleTask]
  /\ abandoned = {}
  /\ upgrade = NoUpgrade
  /\ loop = "compute"
  /\ arrivals = 0
  /\ permit = FALSE

\* Every step by which a task gets on with its work
TaskStep(k) ==
  \/ Check(k) \/ Lookup(k) \/ TakeLock(k) \/ Existing(k)
  \/ StartRace(k) \/ StartProxy(k) \/ OpenFails(k)
  \/ \E t \in Tunnel : DialOk(k, t) \/ DialErr(k, t)
  \/ ProxyOk(k) \/ ProxyErr(k)
  \/ ReverseStart(k) \/ ReverseCallOk(k) \/ ReverseFails(k) \/ ReverseTake(k)
  \/ Register(k) \/ Publish(k) \/ Finalize(k)

ManagerNext ==
  \/ \E k \in Task : StartOpen(k) \/ StartCalled(k) \/ TaskStep(k)
  \/ \E k \in Task, t \in Tunnel : IncomingReverse(k, t)
  \/ \E t \in Tunnel :
       \/ CloseAbandoned(t)
       \/ IncomingPlain(t) \/ IncomingRegister(t) \/ IncomingPublish(t)
       \/ Die(t)
  \/ \E idle \in SUBSET Tunnel : Cleanup(idle)
  \/ LoopCompute \/ Due \/ ProcessUpgrades

ManagerSpec == ManagerInit /\ [][ManagerNext]_managerVars

\* The runtime polls every task; every path ends within its timeout; the
\* housekeeping timer and the upgrade timer fire.  Fairness of
\* ProcessUpgrades is strong because it has to wait here for a free slot in
\* Upgraders, where the code spawns a task.
ManagerFairness ==
  /\ \A k \in Task : WF_managerVars(TaskStep(k))
  /\ \A t \in Tunnel : WF_managerVars(IncomingRegister(t)) /\ WF_managerVars(IncomingPublish(t))
  /\ WF_managerVars(Cleanup({})) /\ WF_managerVars(LoopCompute) /\ WF_managerVars(Due)
  /\ SF_managerVars(ProcessUpgrades)

ManagerLiveSpec == ManagerSpec /\ ManagerFairness

-----------------------------------------------------------------------------
\* Properties

\* While the peer has an upgrade scheduled, no direct candidate of the table is
\* usable: the state is removed in the same lock region that makes one usable
\* (register_tunnel, reconcile_proxy_upgrade_state).
UpgradeMeansNoDirect ==
  upgrade.on => AvailableEntries(pool) \cap DirectTunnels = {}

\* A generation has at most one attempt: while one runs for the current
\* generation, in_progress keeps collect_due_proxy_upgrades from starting
\* another, and a stale attempt's failure never clears it.
AttemptIsExclusive ==
  LET current == {u \in Upgraders : upgrade.on /\ task[u].gen = upgrade.gen} IN
  /\ Cardinality(current) <= 1
  /\ current # {} => upgrade.in_progress

\* A losing direct candidate is closed explicitly once its attempt finishes;
\* its attempt is never just dropped.
LosersClosedExplicitly == \A t \in Tunnel : life[t] # "dropped"

\* Every usable tunnel the manager accepted or opened is in the table, or some
\* task is still about to put it there.
NoOrphan ==
  \A t \in Tunnel :
    Available(t) => \/ pool[t] # "out" \/ accepted[t] # "no"
                    \/ \E k \in Task : t \in {task[k].given, task[k].got}

\* The peer is reached over published proxies only.
ProxyOnly ==
  /\ AvailableEntries(pool) # {}
  /\ AvailableEntries(pool) \subseteq ProxyTunnels
  /\ \A t \in AvailableEntries(pool) : pool[t] = "published"

\* A peer that is reached only through proxies keeps being upgraded: an
\* attempt runs sooner or later, however the earlier ones ended. Checked with
\* EarlyDeath = FALSE: when the tunnel an upgrade brought dies before
\* register_tunnel, the attempt counts as a success and its generation's
\* in_progress stays set over the proxies that are left.
ProxyOnlyKeepsTrying ==
  ProxyOnly ~> (~ProxyOnly \/ \E u \in Upgraders : task[u].pc # "idle")

=============================================================================
