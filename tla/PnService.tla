----------------------------- MODULE PnService -----------------------------
(***************************************************************************)
(* The relay (PN) server: p2p-frame/src/pn/service/pn_server.rs.  Every    *)
(* accepted stream is a connection task that is admitted, opens the target *)
(* side, and bridges the two streams while a traffic session counts it for *)
(* both users.  A user's traffic entry outlives its last session by the    *)
(* retention time; one cleanup task removes the expired ones.  A business  *)
(* connection that succeeded registers its logical tunnel, and later       *)
(* connections of a registered tunnel skip the admission policy.           *)
(*                                                                         *)
(* Time is a counter.  An entry (an Arc) is its creation number; byte      *)
(* counts and rates are left out, a limit is one value per user.           *)
(***************************************************************************)
EXTENDS Naturals, FiniteSets

CONSTANTS Conns,      \* accepted streams
          Request,    \* the first command of each: [kind, tunnel, from, to]
          Users,      \* their sources and targets
          Retentions, \* what set_user_traffic_retention is called with
          Limits,     \* what set_user_traffic_limit is called with
          MaxTime     \* bound on the clock

Tunnels == {Request[c].tunnel : c \in Conns}

ASSUME PnServiceAssumption ==
  /\ IsFiniteSet(Conns)
  /\ \A c \in Conns : /\ Request[c].kind \in {"control", "data"}
                      /\ Request[c].from \in Users /\ Request[c].to \in Users
  /\ Retentions \subseteq Nat /\ Limits \subseteq Nat \ {0} /\ MaxTime \in Nat

VARIABLES conn,      \* where each connection task is, and the entries it holds
          sessions,  \* relay_sessions
          users,     \* traffic state of each user: users of the manager
          configs,   \* limit_configs, 0 when absent
          retention, \* retention
          deadlines, \* cleanup_deadlines
          shutdown,  \* shutdown
          entries,   \* number of entries created so far
          task,      \* the cleanup task
          permit,    \* cleanup_wakeup holds a permit
          now        \* the clock

pnServiceVars == <<conn, sessions, users, configs, retention, deadlines,
          shutdown, entries, task, permit, now>>

Absent == [entry |-> 0, active |-> 0, deadline |-> 0, limit |-> 0]
Present(u) == users[u].entry # 0

PnServiceTypeOK ==
  /\ conn \in [Conns -> [at : {"idle", "opening", "bridged", "stopped", "done"},
                         source : Nat, target : Nat]]
  /\ sessions \subseteq Tunnels \X Users \X Users
  /\ users \in [Users -> [entry : Nat, active : Nat, deadline : Nat, limit : Nat]]
  /\ configs \in [Users -> Nat]
  /\ retention \in Nat
  /\ deadlines \subseteq Nat \X Users
  /\ shutdown \in BOOLEAN /\ permit \in BOOLEAN
  /\ entries \in Nat
  /\ task \in {"run", "notified", "sleep", "stopped"}
  /\ now \in Nat

PnServiceInit ==
  /\ conn = [c \in Conns |-> [at |-> "idle", source |-> 0, target |-> 0]]
  /\ sessions = {}
  /\ users = [u \in Users |-> Absent]
  /\ configs = [u \in Users |-> 0]
  /\ retention = 0
  /\ deadlines = {}
  /\ shutdown = FALSE
  /\ entries = 0
  /\ task = "run"
  /\ permit = FALSE
  /\ now = 1

-----------------------------------------------------------------------------
(* Admission *)

From(c) == Request[c].from
To(c)   == Request[c].to
Tunnel(c) == Request[c].tunnel

has_relay_session(c) == \/ <<Tunnel(c), From(c), To(c)>> \in sessions
                        \/ <<Tunnel(c), To(c), From(c)>> \in sessions
register_relay_session(c) == sessions \cup {<<Tunnel(c), From(c), To(c)>>}
unregister_relay_session(c) ==
  sessions \ {<<Tunnel(c), From(c), To(c)>>, <<Tunnel(c), To(c), From(c)>>}

traffic == <<users, configs, retention, deadlines, entries, permit>>

(* A business connection of a registered tunnel needs no verdict; for any     *)
(* other the validator decides.                                               *)
Validate(c) ==
  /\ conn[c].at = "idle" /\ ~shutdown
  /\ \/ /\ Request[c].kind = "data" /\ has_relay_session(c)
        /\ conn' = [conn EXCEPT ![c].at = "opening"]
     \/ /\ ~(Request[c].kind = "data" /\ has_relay_session(c))
        /\ \E verdict \in {"opening", "done"} : conn' = [conn EXCEPT ![c].at = verdict]
  /\ UNCHANGED <<sessions, traffic, shutdown, task, now>>

(* The target cannot be opened, does not answer in time, or refuses. *)
OpenFails(c) ==
  /\ conn[c].at = "opening"
  /\ conn' = [conn EXCEPT ![c].at = "done"]
  /\ UNCHANGED <<sessions, traffic, shutdown, task, now>>

-----------------------------------------------------------------------------
(* Traffic sessions.  A state of the manager is a record of what one critical *)
(* section changes.                                                           *)

Manager == [users |-> users, deadlines |-> deadlines, entries |-> entries,
            wake |-> FALSE]

\* Mutant: the deadline of a user who is back stays in the list
AcquireKeepsDeadline(m, u) ==
  LET s == m.users[u] IN
  IF s.entry # 0
    THEN [m EXCEPT !.users[u] = [s EXCEPT !.active = @ + 1, !.deadline = 0]]
    ELSE [m EXCEPT !.users[u] = [entry |-> m.entries + 1, active |-> 1,
                                 deadline |-> 0, limit |-> configs[u]],
                   !.entries = @ + 1]

\* Mutant: the cleanup task is not told of the new deadline
ReleaseUnnoticed(m, u, entry) ==
  LET s == m.users[u] IN
  IF s.entry # entry \/ s.active = 0 THEN m
  ELSE IF s.active > 1 THEN [m EXCEPT !.users[u] = [s EXCEPT !.active = @ - 1]]
  ELSE IF retention = 0 \/ shutdown THEN [m EXCEPT !.users[u] = Absent]
  ELSE [m EXCEPT !.users[u] = [s EXCEPT !.active = 0, !.deadline = now + retention],
                 !.deadlines = @ \cup {<<now + retention, u>>}]

acquire_user(m, u) ==
  LET s == m.users[u] IN
  IF s.entry # 0
    THEN [m EXCEPT !.users[u] = [s EXCEPT !.active = @ + 1, !.deadline = 0],
                   !.deadlines = @ \ {<<s.deadline, u>>},
                   !.wake = @ \/ <<s.deadline, u>> \in m.deadlines]
    ELSE [m EXCEPT !.users[u] = [entry |-> m.entries + 1, active |-> 1,
                                 deadline |-> 0, limit |-> configs[u]],
                   !.entries = @ + 1]

release_user(m, u, entry) ==
  LET s == m.users[u]
      held == s.entry = entry /\ s.active > 0
      idle == held /\ s.active = 1 IN
  IF idle /\ (retention = 0 \/ shutdown)
    THEN [m EXCEPT !.users[u] = Absent]
  ELSE IF idle
    THEN [m EXCEPT !.users[u] = [s EXCEPT !.active = 0,
                                          !.deadline = now + retention],
                   !.deadlines = @ \cup {<<now + retention, u>>},
                   !.wake = TRUE]
  ELSE IF held
    THEN [m EXCEPT !.users[u] = [s EXCEPT !.active = @ - 1]]
    ELSE m

Commit(m) ==
  /\ users' = m.users /\ deadlines' = m.deadlines /\ entries' = m.entries
  /\ permit' = (permit \/ m.wake)

acquire_both(c) ==
  IF From(c) = To(c) THEN acquire_user(Manager, From(c))
                     ELSE acquire_user(acquire_user(Manager, From(c)), To(c))

release_both(c) ==
  LET m == release_user(Manager, From(c), conn[c].source) IN
  IF From(c) = To(c) THEN m ELSE release_user(m, To(c), conn[c].target)

(* The target said yes: the source is told, a business connection registers   *)
(* its tunnel, and begin_session counts the bridge unless the server stopped. *)
Bridge(c) ==
  /\ conn[c].at = "opening"
  /\ sessions' = IF Request[c].kind = "data" THEN register_relay_session(c)
                                              ELSE sessions
  /\ IF shutdown
       THEN /\ conn' = [conn EXCEPT ![c].at = "bridged"]
            /\ UNCHANGED <<users, deadlines, entries, permit>>
       ELSE LET m == acquire_both(c) IN
            /\ Commit(m)
            /\ conn' = [conn EXCEPT ![c] = [at |-> "bridged",
                                            source |-> m.users[From(c)].entry,
                                            target |-> m.users[To(c)].entry]]
  /\ UNCHANGED <<configs, retention, shutdown, task, now>>

(* Either side ended the copy: a control connection unregisters its tunnel,   *)
(* and the guard of the session is dropped.                                   *)
Stop(c) ==
  /\ conn[c].at = "bridged"
  /\ sessions' = IF Request[c].kind = "control" THEN unregister_relay_session(c)
                                                 ELSE sessions
  /\ conn' = [conn EXCEPT ![c] = [at |-> "stopped", source |-> 0, target |-> 0]]
  /\ IF conn[c].source = 0
       THEN UNCHANGED <<users, deadlines, entries, permit>>
       ELSE Commit(release_both(c))
  /\ UNCHANGED <<configs, retention, shutdown, task, now>>

set_retention(r) ==
  /\ ~shutdown
  /\ retention' = r
  /\ UNCHANGED <<conn, sessions, users, configs, deadlines, shutdown,
                 entries, task, permit, now>>

set_user_limit(u, n) ==
  /\ ~shutdown
  /\ configs' = [configs EXCEPT ![u] = n]
  /\ users' = IF Present(u) THEN [users EXCEPT ![u].limit = n] ELSE users
  /\ UNCHANGED <<conn, sessions, retention, deadlines, shutdown,
                 entries, task, permit, now>>

(* PnServer::stop, or its drop. *)
Shutdown ==
  /\ ~shutdown
  /\ shutdown' = TRUE
  /\ users' = [u \in Users |-> Absent]
  /\ configs' = [u \in Users |-> 0]
  /\ deadlines' = {}
  /\ retention' = 0
  /\ permit' = TRUE
  /\ UNCHANGED <<conn, sessions, entries, task, now>>

-----------------------------------------------------------------------------
(* The cleanup task *)

Expired == {d \in deadlines : d[1] <= now}

(* cleanup_action, one deadline of a batch at a time: the earliest expired    *)
(* deadline goes, and with it the user it was set for if that is still idle   *)
(* since then.                                                                *)
CleanupOne ==
  /\ task = "run" /\ ~shutdown
  /\ \E d \in Expired :
       /\ \A o \in Expired : d[1] <= o[1]
       /\ deadlines' = deadlines \ {d}
       /\ users' = IF /\ Present(d[2]) /\ users[d[2]].active = 0
                      /\ users[d[2]].deadline = d[1]
                     THEN [users EXCEPT ![d[2]] = Absent]
                     ELSE users
  /\ UNCHANGED <<conn, sessions, configs, retention, shutdown,
                 entries, task, permit, now>>

(* Nothing is expired: the task waits for a change, or for the next deadline. *)
CleanupWaits ==
  /\ task = "run" /\ ~shutdown /\ Expired = {}
  /\ task' = IF deadlines = {} THEN "notified" ELSE "sleep"
  /\ UNCHANGED <<conn, sessions, traffic, shutdown, now>>

CleanupStops ==
  /\ task = "run" /\ shutdown
  /\ task' = "stopped"
  /\ UNCHANGED <<conn, sessions, traffic, shutdown, now>>

CleanupNotified ==
  /\ task \in {"notified", "sleep"} /\ permit
  /\ task' = "run"
  /\ permit' = FALSE
  /\ UNCHANGED <<conn, sessions, users, configs, retention, deadlines,
                 shutdown, entries, now>>

(* The sleep ends at the first deadline, or after PN_TRAFFIC_CLEANUP_MAX_WAIT. *)
CleanupWakes ==
  /\ task = "sleep"
  /\ task' = "run"
  /\ UNCHANGED <<conn, sessions, traffic, shutdown, now>>

Tick ==
  /\ now < MaxTime
  /\ now' = now + 1
  /\ UNCHANGED <<conn, sessions, traffic, shutdown, task>>

Cleanup == CleanupOne \/ CleanupWaits \/ CleanupStops \/ CleanupNotified
           \/ CleanupWakes

PnServiceNext ==
  \/ \E c \in Conns : Validate(c) \/ OpenFails(c) \/ Bridge(c) \/ Stop(c)
  \/ \E r \in Retentions : set_retention(r)
  \/ \E u \in Users, n \in Limits : set_user_limit(u, n)
  \/ Shutdown \/ Cleanup \/ Tick

(* The runtime keeps driving the cleanup task. *)
PnServiceSpec == PnServiceInit /\ [][PnServiceNext]_pnServiceVars /\ WF_pnServiceVars(Cleanup)

-----------------------------------------------------------------------------
(* Properties *)

(* The bridges whose guard holds entry n of user u. *)
Guards(u, n) == {c \in Conns : /\ conn[c].at = "bridged"
                               /\ \/ From(c) = u /\ conn[c].source = n
                                  \/ To(c) = u /\ conn[c].target = n}

(* A user's session count is the number of bridges it takes part in, on       *)
(* either side, and until the server stops no such user has been removed or   *)
(* replaced: traffic of a bridge is never counted on a forgotten entry. The   *)
(* cleanup deadlines are those of the idle users, one for each.               *)
SessionsCounted ==
  /\ \A u \in Users : Present(u) =>
       users[u].active = Cardinality(Guards(u, users[u].entry))
  /\ ~shutdown => \A c \in Conns : conn[c].at = "bridged" =>
       /\ conn[c].source # 0 /\ conn[c].source = users[From(c)].entry
       /\ conn[c].target = users[To(c)].entry
  /\ deadlines = {<<users[u].deadline, u>> :
                    u \in {v \in Users : Present(v) /\ users[v].active = 0}}
  /\ \A u \in Users : Present(u) => (users[u].active = 0 <=> users[u].deadline # 0)

(* An expired idle user goes, however the wakeups of the cleanup task race    *)
(* with sessions that begin and end.                                          *)
ExpiredGoes ==
  \A u \in Users :
    (Present(u) /\ users[u].deadline \in 1..now)
       ~> ~(Present(u) /\ users[u].deadline \in 1..now)

(* When the control connection of a tunnel has stopped, the tunnel is not     *)
(* registered any more.                                                       *)
StoppedIsForgotten ==
  \A c \in Conns : Request[c].kind = "control" /\ conn[c].at = "stopped" =>
    \A s \in sessions : s[1] # Tunnel(c)
=============================================================================
