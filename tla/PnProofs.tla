------------------------------- MODULE PnProofs -------------------------------
(***************************************************************************)
(* The safety properties of relayed tunnels and of the relay server, for   *)
(* any number of users and connections.                                    *)
(***************************************************************************)
EXTENDS PnService, PnTunnel, FiniteSetTheorems, TLAPS

-----------------------------------------------------------------------------
(* Traffic sessions of the relay server *)

UserTraffic == [entry : Nat, active : Nat, deadline : Nat, limit : Nat]
RelayConn == [at : {"idle", "opening", "bridged", "stopped", "done"}, source : Nat, target : Nat]

\* A user is in use or waits for its deadline; one that is absent is not counted
TrafficOK(s) ==
  /\ s.entry # 0 => (s.active = 0 <=> s.deadline # 0)
  /\ s.entry = 0 => s.active = 0

IdleIn(us, v) == us[v].entry # 0 /\ us[v].active = 0
DeadlinesOf(us) == {<<us[v].deadline, v>> : v \in {w \in Users : IdleIn(us, w)}}

\* The deadline of a user in state s
OwnDeadline(s, u) == IF s.entry # 0 /\ s.active = 0 THEN {<<s.deadline, u>>} ELSE {}

ManagerType == [users : [Users -> UserTraffic], deadlines : SUBSET (Nat \X Users), entries : Nat,
                wake : BOOLEAN]

ManagerOK(m) ==
  /\ m \in ManagerType
  /\ \A v \in Users : TrafficOK(m.users[v])
  /\ m.deadlines = DeadlinesOf(m.users)

\* The bridges a user takes part in
BridgesOf(v) == {c \in Conns : conn[c].at = "bridged" /\ v \in {From(c), To(c)}}

\* A bridge holds the present entries of its users
BridgeOK(c) ==
  conn[c].at = "bridged" =>
    /\ conn[c].source = users[From(c)].entry /\ users[From(c)].entry # 0
    /\ conn[c].target = users[To(c)].entry /\ users[To(c)].entry # 0

RelayTypes ==
  /\ conn \in [Conns -> RelayConn]
  /\ configs \in [Users -> Nat] /\ retention \in Nat /\ now \in Nat \ {0}
  /\ shutdown \in BOOLEAN

RelayCounts ==
  IF shutdown THEN \A v \in Users : users[v].entry = 0
  ELSE (\A v \in Users : users[v].active = Cardinality(BridgesOf(v))) /\ \A c \in Conns : BridgeOK(c)

RelayInv == RelayTypes /\ ManagerOK(Manager) /\ RelayCounts

LEMMA ManagerFields ==
  /\ Manager.users = users /\ Manager.deadlines = deadlines /\ Manager.entries = entries
  /\ Manager.wake = FALSE
BY Zenon DEF Manager

LEMMA RequestUsers ==
  ASSUME NEW c \in Conns
  PROVE  From(c) \in Users /\ To(c) \in Users
BY Zenon, PnServiceAssumption DEF From, To

LEMMA BridgesCounted ==
  ASSUME NEW v
  PROVE  /\ IsFiniteSet(BridgesOf(v)) /\ Cardinality(BridgesOf(v)) \in Nat
         /\ BridgesOf(v) # {} => Cardinality(BridgesOf(v)) > 0
<1>1. BridgesOf(v) \in SUBSET Conns
  BY Zenon DEF BridgesOf
<1>2. IsFiniteSet(Conns)
  BY Zenon, PnServiceAssumption
<1>3. IsFiniteSet(BridgesOf(v)) /\ Cardinality(BridgesOf(v)) \in Nat
  BY Zenon, <1>1, <1>2, FS_Subset, FS_CardinalityType
<1>4. BridgesOf(v) # {} => Cardinality(BridgesOf(v)) # 0
  BY Zenon, <1>3, FS_EmptySet
<1> QED BY <1>3, <1>4

\* The deadlines when one user changes
LEMMA DeadlinesMove ==
  ASSUME NEW us \in [Users -> UserTraffic], NEW u \in Users, NEW s \in UserTraffic, NEW new,
         new[u] = s, \A v \in Users : v # u => new[v] = us[v]
  PROVE  DeadlinesOf(new) = (DeadlinesOf(us) \ {<<us[u].deadline, u>>})
                              \cup OwnDeadline(s, u)
<1> DEFINE rest == DeadlinesOf(us) \ {<<us[u].deadline, u>>}
           own == OwnDeadline(s, u)
<1>2. ASSUME NEW d \in DeadlinesOf(new) PROVE d \in rest \cup own
  <2>1. PICK v \in Users : IdleIn(new, v) /\ d = <<new[v].deadline, v>>
    BY Zenon, <1>2 DEF DeadlinesOf
  <2>2. CASE v = u
    BY Zenon, <2>1, <2>2 DEF IdleIn, OwnDeadline
  <2>3. CASE v # u
    <3>1. IdleIn(us, v) /\ d = <<us[v].deadline, v>>
      BY Zenon, <2>1, <2>3 DEF IdleIn
    <3>2. d \in DeadlinesOf(us)
      BY Zenon, <3>1 DEF DeadlinesOf
    <3>3. d # <<us[u].deadline, u>>
      BY Zenon, <2>3, <3>1
    <3> QED BY Zenon, <3>2, <3>3
  <2> QED BY Zenon, <2>2, <2>3
<1>3. ASSUME NEW d \in rest PROVE d \in DeadlinesOf(new)
  <2>1. PICK v \in Users : IdleIn(us, v) /\ d = <<us[v].deadline, v>>
    BY Zenon, <1>3 DEF DeadlinesOf
  <2>2. v # u
    BY Zenon, <1>3, <2>1
  <2>3. IdleIn(new, v) /\ d = <<new[v].deadline, v>>
    BY Zenon, <2>1, <2>2 DEF IdleIn
  <2> QED BY Zenon, <2>3 DEF DeadlinesOf
<1>4. ASSUME NEW d \in own PROVE d \in DeadlinesOf(new)
  <2>1. IdleIn(new, u) /\ d = <<new[u].deadline, u>>
    BY Zenon, <1>4 DEF IdleIn, OwnDeadline
  <2> QED BY Zenon, <2>1 DEF DeadlinesOf
<1> QED BY Zenon, <1>2, <1>3, <1>4

\* One user of the manager changes, with its deadline
Moved(m, n, u, s) ==
  /\ n \in ManagerType /\ n.users = [m.users EXCEPT ![u] = s]
  /\ n.deadlines = (m.deadlines \ {<<m.users[u].deadline, u>>}) \cup OwnDeadline(s, u)

Follows(m, n, u, s) ==
  ManagerOK(n) /\ n.users[u] = s /\ \A v \in Users : v # u => n.users[v] = m.users[v]

LEMMA ManagerChanges ==
  ASSUME NEW m, ManagerOK(m), NEW u \in Users, NEW s \in UserTraffic, TrafficOK(s),
         NEW n, Moved(m, n, u, s)
  PROVE  Follows(m, n, u, s)
<1>0. /\ n \in ManagerType /\ n.users = [m.users EXCEPT ![u] = s]
      /\ n.deadlines = (m.deadlines \ {<<m.users[u].deadline, u>>}) \cup OwnDeadline(s, u)
  BY Zenon DEF Moved
<1>1. m.users \in [Users -> UserTraffic] /\ m.deadlines = DeadlinesOf(m.users)
      /\ \A v \in Users : TrafficOK(m.users[v])
  BY Zenon DEF ManagerOK, ManagerType
<1>2. n.users[u] = s /\ \A v \in Users : v # u => n.users[v] = m.users[v]
  BY Zenon, <1>0, <1>1
<1>3. n.deadlines = DeadlinesOf(n.users)
  <2>1. PICK us \in [Users -> UserTraffic] : us = m.users
    BY Zenon, <1>1
  <2>2. PICK new : new = n.users
    BY Zenon
  <2>3. new[u] = s /\ \A v \in Users : v # u => new[v] = us[v]
    BY Zenon, <1>2, <2>1, <2>2
  <2>4. DeadlinesOf(new) = (DeadlinesOf(us) \ {<<us[u].deadline, u>>}) \cup OwnDeadline(s, u)
    BY Zenon, <2>3, DeadlinesMove
  <2>5. n.deadlines = (DeadlinesOf(us) \ {<<us[u].deadline, u>>}) \cup OwnDeadline(s, u)
    BY Zenon, <1>0, <1>1, <2>1
  <2> QED BY Zenon, <2>2, <2>4, <2>5
<1>4. \A v \in Users : TrafficOK(n.users[v])
  BY Zenon, <1>1, <1>2
<1> QED BY Zenon, <1>0, <1>2, <1>3, <1>4 DEF ManagerOK, Follows

LEMMA NotIdleNoDeadline ==
  ASSUME NEW m, ManagerOK(m), NEW u \in Users, ~IdleIn(m.users, u), NEW d
  PROVE  <<d, u>> \notin m.deadlines
<1> SUFFICES ASSUME <<d, u>> \in m.deadlines PROVE FALSE
  BY Zenon
<1>1. PICK v \in Users : IdleIn(m.users, v) /\ <<d, u>> = <<m.users[v].deadline, v>>
  BY Zenon DEF ManagerOK, DeadlinesOf
<1> QED BY Zenon, <1>1

\* One more session of user u
Acquired(m, n, u) ==
  /\ ManagerOK(n)
  /\ n.users[u].entry # 0 /\ n.users[u].active = m.users[u].active + 1
  /\ m.users[u].entry # 0 => n.users[u].entry = m.users[u].entry
  /\ \A v \in Users : v # u => n.users[v] = m.users[v]

LEMMA AcquireOK ==
  ASSUME NEW m, ManagerOK(m), NEW u \in Users, configs \in [Users -> Nat],
         NEW n, n = acquire_user(m, u)
  PROVE  Acquired(m, n, u)
<1>1. /\ m \in ManagerType
      /\ TrafficOK(m.users[u])
  BY Zenon DEF ManagerOK
<1>2. PICK s \in UserTraffic : s = m.users[u]
  BY Zenon, <1>1 DEF ManagerType
<1>3. s.entry \in Nat /\ s.active \in Nat /\ s.deadline \in Nat /\ s.limit \in Nat
  BY Zenon DEF UserTraffic
<1>4. CASE s.entry # 0
  <2>1. PICK k \in Nat : k = s.active + 1
    BY <1>3
  <2>2. PICK t : t = [s EXCEPT !.active = k, !.deadline = 0]
    BY Zenon
  <2>3. t \in UserTraffic /\ t.entry = s.entry /\ t.active = k /\ t.deadline = 0
    BY Zenon, <2>2 DEF UserTraffic
  <2>4. PICK wake \in BOOLEAN : wake = (m.wake \/ <<s.deadline, u>> \in m.deadlines)
    BY Zenon, <1>1 DEF ManagerType
  <2>5. n = [m EXCEPT !.users[u] = t, !.deadlines = @ \ {<<s.deadline, u>>}, !.wake = wake]
    BY Zenon, <1>2, <1>4, <2>1, <2>2, <2>4 DEF acquire_user
  <2>6. /\ n \in ManagerType
        /\ n.users = [m.users EXCEPT ![u] = t] /\ n.deadlines = m.deadlines \ {<<s.deadline, u>>}
    <3>1. PICK us \in [Users -> UserTraffic] : us = [m.users EXCEPT ![u] = t]
      BY Zenon, <1>1, <2>3 DEF ManagerType
    <3>2. PICK ds \in SUBSET (Nat \X Users) : ds = m.deadlines \ {<<s.deadline, u>>}
      BY Zenon, <1>1 DEF ManagerType
    <3>3. n = [m EXCEPT !.users = us, !.deadlines = ds, !.wake = wake]
      BY Zenon, <2>5, <3>1, <3>2
    <3>4. n \in ManagerType /\ n.users = us /\ n.deadlines = ds
      BY Zenon, <1>1, <3>3 DEF ManagerType
    <3> QED BY Zenon, <3>1, <3>2, <3>4
  <2>7. OwnDeadline(t, u) = {} /\ TrafficOK(t)
    BY <1>3, <1>4, <2>1, <2>3 DEF OwnDeadline, TrafficOK
  <2>8. n.deadlines = (m.deadlines \ {<<m.users[u].deadline, u>>}) \cup OwnDeadline(t, u)
    BY Zenon, <1>2, <2>6, <2>7
  <2>9. Moved(m, n, u, t)
    BY Zenon, <2>6, <2>8 DEF Moved
  <2>10. Follows(m, n, u, t)
    BY Zenon, <2>3, <2>7, <2>9, ManagerChanges
  <2> QED BY Zenon, <1>2, <1>4, <2>1, <2>3, <2>10 DEF Acquired, Follows
<1>5. CASE s.entry = 0
  <2>1. PICK k \in Nat : k = m.entries + 1
    BY <1>1 DEF ManagerType
  <2>2. PICK t : t = [entry |-> k, active |-> 1, deadline |-> 0, limit |-> configs[u]]
    BY Zenon
  <2>3. t \in UserTraffic /\ t.entry = k /\ t.active = 1 /\ t.deadline = 0 /\ k # 0
    BY <1>1, <2>1, <2>2 DEF UserTraffic, ManagerType
  <2>4. n = [m EXCEPT !.users[u] = t, !.entries = k]
    BY Zenon, <1>2, <1>5, <2>1, <2>2 DEF acquire_user
  <2>5. /\ n \in ManagerType
        /\ n.users = [m.users EXCEPT ![u] = t] /\ n.deadlines = m.deadlines
    <3>1. PICK us \in [Users -> UserTraffic] : us = [m.users EXCEPT ![u] = t]
      BY Zenon, <1>1, <2>3 DEF ManagerType
    <3>2. n = [m EXCEPT !.users = us, !.entries = k]
      BY Zenon, <2>4, <3>1
    <3>3. n \in ManagerType /\ n.users = us /\ n.deadlines = m.deadlines
      BY Zenon, <1>1, <3>2 DEF ManagerType
    <3> QED BY Zenon, <3>1, <3>3
  <2>6. OwnDeadline(t, u) = {} /\ TrafficOK(t)
    BY <2>3 DEF OwnDeadline, TrafficOK
  <2>7. ~IdleIn(m.users, u) /\ s.active = 0
    BY Zenon, <1>1, <1>2, <1>5 DEF IdleIn, TrafficOK
  <2>8. <<m.users[u].deadline, u>> \notin m.deadlines
    BY Zenon, <2>7, NotIdleNoDeadline
  <2>9. n.deadlines = (m.deadlines \ {<<m.users[u].deadline, u>>}) \cup OwnDeadline(t, u)
    BY Zenon, <2>5, <2>6, <2>8
  <2>10. Moved(m, n, u, t)
    BY Zenon, <2>5, <2>9 DEF Moved
  <2>11. Follows(m, n, u, t)
    BY Zenon, <2>3, <2>6, <2>10, ManagerChanges
  <2> QED BY <1>2, <1>5, <2>3, <2>7, <2>11 DEF Acquired, Follows
<1> QED BY Zenon, <1>4, <1>5

\* One session of user u less, of those of its entry
Released(m, n, u, entry_) ==
  /\ ManagerOK(n) /\ n.users[u].active = m.users[u].active - 1
  /\ n.users[u].active # 0 => n.users[u].entry = entry_
  /\ \A v \in Users : v # u => n.users[v] = m.users[v]

LEMMA ReleaseOK ==
  ASSUME NEW m, ManagerOK(m), NEW u \in Users, retention \in Nat, now \in Nat \ {0}, NEW entry_,
         m.users[u].entry = entry_, entry_ # 0, m.users[u].active > 0,
         NEW n, n = release_user(m, u, entry_)
  PROVE  Released(m, n, u, entry_)
<1>1. /\ m \in ManagerType
      /\ TrafficOK(m.users[u])
  BY Zenon DEF ManagerOK
<1>2. PICK s \in UserTraffic : s = m.users[u]
  BY Zenon, <1>1 DEF ManagerType
<1>3. s.entry = entry_ /\ s.active \in Nat /\ s.deadline \in Nat /\ s.active > 0
  BY Zenon, <1>2 DEF UserTraffic
<1>4. <<m.users[u].deadline, u>> \notin m.deadlines
  <2>1. ~IdleIn(m.users, u)
    BY <1>2, <1>3 DEF IdleIn
  <2> QED BY Zenon, <2>1, NotIdleNoDeadline
<1>5. ASSUME NEW t \in UserTraffic, TrafficOK(t), NEW k \in ManagerType, k.users = [m.users EXCEPT ![u] = t],
             k.deadlines = m.deadlines \cup OwnDeadline(t, u)
      PROVE  Follows(m, k, u, t)
  <2>1. k.deadlines = (m.deadlines \ {<<m.users[u].deadline, u>>}) \cup OwnDeadline(t, u)
    BY Zenon, <1>4, <1>5
  <2>2. Moved(m, k, u, t)
    BY Zenon, <1>5, <2>1 DEF Moved
  <2> QED BY Zenon, <1>5, <2>2, ManagerChanges
<1>6. CASE s.active = 1 /\ (retention = 0 \/ shutdown)
  <2>1. n = [m EXCEPT !.users[u] = Absent]
    BY Zenon, <1>2, <1>3, <1>6 DEF release_user
  <2>2. Absent \in UserTraffic /\ Absent.entry = 0 /\ Absent.active = 0 /\ TrafficOK(Absent)
        /\ OwnDeadline(Absent, u) = {}
    BY Zenon DEF Absent, UserTraffic, TrafficOK, OwnDeadline
  <2>3. /\ n \in ManagerType
        /\ n.users = [m.users EXCEPT ![u] = Absent] /\ n.deadlines = m.deadlines
    BY <1>1, <2>1, <2>2 DEF ManagerType
  <2>4. n.deadlines = m.deadlines \cup OwnDeadline(Absent, u)
    BY Zenon, <2>2, <2>3
  <2>5. Follows(m, n, u, Absent)
    BY Zenon, <1>5, <2>2, <2>3, <2>4
  <2> QED BY <1>2, <1>6, <2>2, <2>5 DEF Follows, Released
<1>7. CASE s.active = 1 /\ ~(retention = 0 \/ shutdown)
  <2>1. PICK d \in Nat : d = now + retention
    OBVIOUS
  <2>2. PICK t : t = [s EXCEPT !.active = 0, !.deadline = d]
    BY Zenon
  <2>3. t \in UserTraffic /\ t.entry = entry_ /\ t.active = 0 /\ t.deadline = d /\ d # 0
    <3>1. d # 0
      BY <2>1
    <3>2. t \in UserTraffic /\ t.entry = s.entry /\ t.active = 0 /\ t.deadline = d
      BY Zenon, <2>2 DEF UserTraffic
    <3> QED BY Zenon, <1>3, <3>1, <3>2
  <2>4. TrafficOK(t) /\ OwnDeadline(t, u) = {<<d, u>>}
    BY Zenon, <2>3 DEF TrafficOK, OwnDeadline
  <2>5. n = [m EXCEPT !.users[u] = t, !.deadlines = @ \cup {<<d, u>>}, !.wake = TRUE]
    BY Zenon, <1>2, <1>3, <1>7, <2>1, <2>2 DEF release_user
  <2>6. /\ n \in ManagerType
        /\ n.users = [m.users EXCEPT ![u] = t] /\ n.deadlines = m.deadlines \cup {<<d, u>>}
    <3>1. PICK us \in [Users -> UserTraffic] : us = [m.users EXCEPT ![u] = t]
      BY Zenon, <1>1, <2>3 DEF ManagerType
    <3>2. PICK ds \in SUBSET (Nat \X Users) : ds = m.deadlines \cup {<<d, u>>}
      <4>1. <<d, u>> \in Nat \X Users /\ m.deadlines \in SUBSET (Nat \X Users)
        BY Zenon, <1>1 DEF ManagerType
      <4>2. m.deadlines \cup {<<d, u>>} \in SUBSET (Nat \X Users)
        BY Zenon, <4>1
      <4> QED BY Zenon, <4>2
    <3>3. n = [m EXCEPT !.users = us, !.deadlines = ds, !.wake = TRUE]
      BY Zenon, <2>5, <3>1, <3>2
    <3>4. n \in ManagerType /\ n.users = us /\ n.deadlines = ds
      BY Zenon, <1>1, <3>3 DEF ManagerType
    <3> QED BY Zenon, <3>1, <3>2, <3>4
  <2>7. n.deadlines = m.deadlines \cup OwnDeadline(t, u)
    BY Zenon, <2>4, <2>6
  <2>8. Follows(m, n, u, t)
    BY Zenon, <1>5, <2>3, <2>4, <2>6, <2>7
  <2> QED BY <1>2, <1>7, <2>3, <2>8 DEF Follows, Released
<1>8. CASE s.active # 1
  <2>1. PICK k \in Nat : k = s.active - 1 /\ k # 0
    BY <1>3, <1>8
  <2>2. PICK t : t = [s EXCEPT !.active = k]
    BY Zenon
  <2>3. t \in UserTraffic /\ t.entry = entry_ /\ t.active = k /\ t.deadline = s.deadline
    BY Zenon, <1>3, <2>2 DEF UserTraffic
  <2>4. TrafficOK(t) /\ OwnDeadline(t, u) = {}
    BY <1>1, <1>2, <1>3, <2>1, <2>3 DEF TrafficOK, OwnDeadline
  <2>5. n = [m EXCEPT !.users[u] = t]
    BY Zenon, <1>2, <1>3, <1>8, <2>1, <2>2 DEF release_user
  <2>6. /\ n \in ManagerType
        /\ n.users = [m.users EXCEPT ![u] = t] /\ n.deadlines = m.deadlines
    BY <1>1, <2>3, <2>5 DEF ManagerType
  <2>7. n.deadlines = m.deadlines \cup OwnDeadline(t, u)
    BY Zenon, <2>4, <2>6
  <2>8. Follows(m, n, u, t)
    BY Zenon, <1>5, <2>3, <2>4, <2>6, <2>7
  <2> QED BY Zenon, <1>2, <1>8, <2>1, <2>3, <2>8 DEF Follows, Released
<1> QED BY Zenon, <1>6, <1>7, <1>8

LEMMA ReleaseNothing ==
  ASSUME NEW m, NEW u, NEW entry_, m.users[u].active = 0
  PROVE  release_user(m, u, entry_) = m
BY DEF release_user

\* What a bridge acquires, and what it releases
LEMMA AcquireBothOK ==
  ASSUME RelayInv, NEW c \in Conns, NEW m, m = acquire_both(c)
  PROVE  /\ ManagerOK(m)
         /\ \A v \in Users :
              IF v \in {From(c), To(c)}
                THEN /\ m.users[v].entry # 0 /\ m.users[v].active = users[v].active + 1
                     /\ users[v].entry # 0 => m.users[v].entry = users[v].entry
                ELSE m.users[v] = users[v]
<1>1. PICK k : k = Manager
  BY Zenon
<1>2. ManagerOK(k) /\ k.users = users /\ configs \in [Users -> Nat]
  BY Zenon, <1>1, ManagerFields DEF RelayInv, RelayTypes
<1>3. PICK f, t : f = From(c) /\ t = To(c)
  BY Zenon
<1>4. f \in Users /\ t \in Users
  BY Zenon, <1>3, RequestUsers
<1>5. PICK n : n = acquire_user(k, f)
  BY Zenon
<1>6. /\ ManagerOK(n) /\ n.users[f].entry # 0 /\ n.users[f].active = k.users[f].active + 1
      /\ k.users[f].entry # 0 => n.users[f].entry = k.users[f].entry
      /\ \A v \in Users : v # f => n.users[v] = k.users[v]
  <2>1. Acquired(k, n, f)
    BY Zenon, <1>2, <1>4, <1>5, AcquireOK
  <2> QED BY Zenon, <2>1 DEF Acquired
<1>7. CASE f = t
  <2>1. m = n
    BY Zenon, <1>1, <1>3, <1>5, <1>7 DEF acquire_both
  <2> QED BY Zenon, <1>2, <1>3, <1>6, <1>7, <2>1
<1>8. CASE f # t
  <2>1. m = acquire_user(n, t)
    BY Zenon, <1>1, <1>3, <1>5, <1>8 DEF acquire_both
  <2>2. /\ ManagerOK(m) /\ m.users[t].entry # 0 /\ m.users[t].active = n.users[t].active + 1
        /\ n.users[t].entry # 0 => m.users[t].entry = n.users[t].entry
        /\ \A v \in Users : v # t => m.users[v] = n.users[v]
    <3>1. Acquired(n, m, t)
      BY Zenon, <1>2, <1>4, <1>6, <2>1, AcquireOK
    <3> QED BY Zenon, <3>1 DEF Acquired
  <2>3. n.users[t] = users[t] /\ m.users[f] = n.users[f]
    BY Zenon, <1>2, <1>4, <1>6, <1>8, <2>2
  <2> QED BY <1>2, <1>3, <1>6, <2>2, <2>3
<1> QED BY Zenon, <1>7, <1>8

LEMMA BridgeInUse ==
  ASSUME RelayInv, NEW c \in Conns, conn[c].at = "bridged", ~shutdown, NEW v \in {From(c), To(c)}
  PROVE  users[v].active > 0 /\ users[v].entry # 0 /\ v \in Users
<1>1. v \in Users
  BY Zenon, RequestUsers
<1>2. c \in BridgesOf(v)
  BY Zenon DEF BridgesOf
<1>3. users[v].active = Cardinality(BridgesOf(v)) /\ BridgeOK(c)
  BY Zenon, <1>1 DEF RelayInv, RelayCounts
<1>4. users[v].active > 0
  BY Zenon, <1>2, <1>3, BridgesCounted
<1> QED BY Zenon, <1>1, <1>3, <1>4 DEF BridgeOK

LEMMA ReleaseBothOK ==
  ASSUME RelayInv, NEW c \in Conns, conn[c].at = "bridged", ~shutdown, NEW m, m = release_both(c)
  PROVE  /\ ManagerOK(m)
         /\ \A v \in Users :
              IF v \in {From(c), To(c)}
                THEN /\ m.users[v].active = users[v].active - 1
                     /\ m.users[v].active # 0 => m.users[v].entry = users[v].entry
                ELSE m.users[v] = users[v]
<1>1. PICK k : k = Manager
  BY Zenon
<1>2. ManagerOK(k) /\ k.users = users /\ retention \in Nat /\ now \in Nat \ {0}
  BY Zenon, <1>1, ManagerFields DEF RelayInv, RelayTypes
<1>3. PICK f, t : f = From(c) /\ t = To(c)
  BY Zenon
<1>4. f \in Users /\ t \in Users
  BY Zenon, <1>3, RequestUsers
<1>5. users[f].active > 0 /\ users[f].entry # 0 /\ users[t].active > 0 /\ users[t].entry # 0
  BY Zenon, <1>3, BridgeInUse
<1>6. conn[c].source = users[f].entry /\ conn[c].target = users[t].entry
  BY Zenon, <1>3 DEF RelayInv, RelayCounts, BridgeOK
<1>7. PICK ef, et : ef = users[f].entry /\ et = users[t].entry
  BY Zenon
<1>8. PICK n : n = release_user(k, f, ef)
  BY Zenon
<1>9. /\ ManagerOK(n) /\ n.users[f].active = k.users[f].active - 1
      /\ n.users[f].active # 0 => n.users[f].entry = ef
      /\ \A v \in Users : v # f => n.users[v] = k.users[v]
  <2>1. k.users[f].entry = ef /\ ef # 0 /\ k.users[f].active > 0
    BY Zenon, <1>2, <1>5, <1>7
  <2>2. Released(k, n, f, ef)
    BY Zenon, <1>2, <1>4, <1>8, <2>1, ReleaseOK
  <2> QED BY Zenon, <2>2 DEF Released
<1>10. CASE f = t
  <2>1. m = n
    BY Zenon, <1>1, <1>3, <1>6, <1>7, <1>8, <1>10 DEF release_both
  <2> QED BY Zenon, <1>2, <1>3, <1>7, <1>9, <1>10, <2>1
<1>11. CASE f # t
  <2>1. m = release_user(n, t, et)
    BY Zenon, <1>1, <1>3, <1>6, <1>7, <1>8, <1>11 DEF release_both
  <2>2. n.users[t] = users[t]
    BY Zenon, <1>2, <1>4, <1>9, <1>11
  <2>3. n.users[t].entry = et /\ et # 0 /\ n.users[t].active > 0
    BY Zenon, <1>5, <1>7, <2>2
  <2>4. /\ ManagerOK(m) /\ m.users[t].active = n.users[t].active - 1
        /\ m.users[t].active # 0 => m.users[t].entry = et
        /\ \A v \in Users : v # t => m.users[v] = n.users[v]
    <3>1. Released(n, m, t, et)
      BY Zenon, <1>2, <1>4, <1>9, <2>1, <2>3, ReleaseOK
    <3> QED BY Zenon, <3>1 DEF Released
  <2>5. m.users[f] = n.users[f]
    BY Zenon, <1>4, <1>11, <2>4
  <2> QED BY Zenon, <1>2, <1>3, <1>7, <1>9, <2>2, <2>4, <2>5
<1> QED BY Zenon, <1>10, <1>11

LEMMA ManagerCommits ==
  ASSUME NEW m, ManagerOK(m), users' = m.users, deadlines' = m.deadlines, entries' = m.entries
  PROVE  ManagerOK(Manager)'
<1>1. Manager' = [users |-> m.users, deadlines |-> m.deadlines, entries |-> m.entries,
                  wake |-> FALSE]
  BY Zenon DEF Manager
<1>2. PICK n : n = Manager'
  BY Zenon
<1>3. n.users = m.users /\ n.deadlines = m.deadlines
  BY Zenon, <1>1, <1>2
<1>4. n \in ManagerType
  BY Zenon, <1>1, <1>2 DEF ManagerOK, ManagerType
<1>5. ManagerOK(n)
  BY Zenon, <1>3, <1>4 DEF ManagerOK
<1>6. ManagerOK(n) <=> ManagerOK(Manager)'
  BY Zenon, <1>2 DEF ManagerOK, ManagerType, TrafficOK, DeadlinesOf, IdleIn
<1> QED BY Zenon, <1>5, <1>6

LEMMA ManagerStays ==
  ASSUME RelayInv, UNCHANGED <<users, deadlines, entries>>
  PROVE  ManagerOK(Manager)'
<1>1. PICK m : m = Manager
  BY Zenon
<1>2. ManagerOK(m) /\ users' = m.users /\ deadlines' = m.deadlines /\ entries' = m.entries
  BY Zenon, <1>1, ManagerFields DEF RelayInv
<1> QED BY Zenon, <1>2, ManagerCommits

\* A step that leaves the traffic and the bridges alone
LEMMA RelayRest ==
  ASSUME RelayInv, RelayTypes', UNCHANGED <<users, deadlines, entries, shutdown>>,
         \A c \in Conns : /\ conn'[c].at = "bridged" <=> conn[c].at = "bridged"
                          /\ conn[c].at = "bridged" => conn'[c] = conn[c]
  PROVE  RelayInv'
<1>1. \A v : BridgesOf(v)' = BridgesOf(v)
  BY Zenon DEF BridgesOf
<1>2. \A c \in Conns : BridgeOK(c) => BridgeOK(c)'
  BY Zenon DEF BridgeOK
<1>3. RelayCounts'
  BY Zenon, <1>1, <1>2 DEF RelayInv, RelayCounts
<1> QED BY Zenon, <1>3, ManagerStays DEF RelayInv

LEMMA ValidateRelay ==
  ASSUME RelayInv, NEW c \in Conns, Validate(c) \/ OpenFails(c)
  PROVE  RelayInv'
<1>1. PICK w \in {"opening", "done"} : conn' = [conn EXCEPT ![c].at = w]
  BY Zenon DEF Validate, OpenFails
<1>2. conn[c].at # "bridged" /\ conn \in [Conns -> RelayConn]
  BY Zenon DEF Validate, OpenFails, RelayInv, RelayTypes
<1>3. PICK q : q = [conn[c] EXCEPT !.at = w]
  BY Zenon
<1>4. q \in RelayConn /\ q.at = w
  BY Zenon, <1>2, <1>3 DEF RelayConn
<1>5. conn' = [conn EXCEPT ![c] = q]
  BY Zenon, <1>1, <1>3
<1>6. conn' \in [Conns -> RelayConn] /\ conn'[c] = q /\ \A k \in Conns : k # c => conn'[k] = conn[k]
  BY Zenon, <1>2, <1>4, <1>5
<1>7. UNCHANGED <<users, configs, retention, deadlines, entries, shutdown, now>>
  BY Zenon DEF Validate, OpenFails, traffic
<1>8. RelayTypes'
  BY Zenon, <1>6, <1>7 DEF RelayInv, RelayTypes
<1> QED BY Zenon, <1>2, <1>4, <1>6, <1>7, <1>8, RelayRest

\* The bridges of each user when c becomes one, or ends
LEMMA BridgeJoins ==
  ASSUME NEW c \in Conns, conn[c].at # "bridged", conn'[c].at = "bridged",
         \A k \in Conns : k # c => conn'[k] = conn[k], NEW v
  PROVE  Cardinality(BridgesOf(v)') = IF v \in {From(c), To(c)} THEN Cardinality(BridgesOf(v)) + 1
                                                              ELSE Cardinality(BridgesOf(v))
<1>1. CASE v \in {From(c), To(c)}
  <2>1. BridgesOf(v)' = BridgesOf(v) \cup {c} /\ c \notin BridgesOf(v)
    BY <1>1 DEF BridgesOf
  <2> QED BY Zenon, <1>1, <2>1, BridgesCounted, FS_AddElement
<1>2. CASE v \notin {From(c), To(c)}
  BY Zenon, <1>2 DEF BridgesOf
<1> QED BY Zenon, <1>1, <1>2

LEMMA BridgeLeaves ==
  ASSUME NEW c \in Conns, conn[c].at = "bridged", conn'[c].at # "bridged",
         \A k \in Conns : k # c => conn'[k] = conn[k], NEW v
  PROVE  Cardinality(BridgesOf(v)') = IF v \in {From(c), To(c)} THEN Cardinality(BridgesOf(v)) - 1
                                                              ELSE Cardinality(BridgesOf(v))
<1>1. CASE v \in {From(c), To(c)}
  <2>1. BridgesOf(v)' = BridgesOf(v) \ {c} /\ c \in BridgesOf(v)
    BY Zenon, <1>1 DEF BridgesOf
  <2> QED BY Zenon, <1>1, <2>1, BridgesCounted, FS_RemoveElement
<1>2. CASE v \notin {From(c), To(c)}
  BY Zenon, <1>2 DEF BridgesOf
<1> QED BY Zenon, <1>1, <1>2

LEMMA BridgeRelay ==
  ASSUME RelayInv, NEW c \in Conns, Bridge(c)
  PROVE  RelayInv'
<1>1. /\ conn[c].at = "opening" /\ UNCHANGED <<configs, retention, shutdown, now>>
      /\ conn \in [Conns -> RelayConn] /\ shutdown \in BOOLEAN
  BY Zenon DEF Bridge, RelayInv, RelayTypes
<1>2. CASE shutdown
  <2>1. conn' = [conn EXCEPT ![c].at = "bridged"] /\ UNCHANGED <<users, deadlines, entries>>
    BY Zenon, <1>2 DEF Bridge
  <2>2. conn' \in [Conns -> RelayConn]
    BY Zenon, <1>1, <2>1 DEF RelayConn
  <2>3. RelayTypes' /\ RelayCounts'
    BY Zenon, <1>1, <1>2, <2>1, <2>2 DEF RelayInv, RelayTypes, RelayCounts
  <2> QED BY Zenon, <2>1, <2>3, ManagerStays DEF RelayInv
<1>3. CASE ~shutdown
  <2>1. PICK m : m = acquire_both(c)
    BY Zenon
  <2>2. /\ users' = m.users /\ deadlines' = m.deadlines /\ entries' = m.entries
        /\ conn' = [conn EXCEPT ![c] = [at |-> "bridged", source |-> m.users[From(c)].entry,
                                        target |-> m.users[To(c)].entry]]
    BY Zenon, <1>3, <2>1 DEF Bridge, Commit
  <2>3. /\ ManagerOK(m)
        /\ \A v \in Users :
             IF v \in {From(c), To(c)}
               THEN /\ m.users[v].entry # 0 /\ m.users[v].active = users[v].active + 1
                    /\ users[v].entry # 0 => m.users[v].entry = users[v].entry
               ELSE m.users[v] = users[v]
    BY Zenon, <2>1, AcquireBothOK
  <2>4. From(c) \in Users /\ To(c) \in Users
    BY Zenon, RequestUsers
  <2>5. m.users[From(c)].entry \in Nat /\ m.users[To(c)].entry \in Nat
    BY Zenon, <2>3, <2>4 DEF ManagerOK, ManagerType, UserTraffic
  <2>6. PICK q : q = [at |-> "bridged", source |-> m.users[From(c)].entry,
                      target |-> m.users[To(c)].entry]
    BY Zenon
  <2>7. /\ q \in RelayConn /\ q.at = "bridged" /\ q.source = m.users[From(c)].entry
        /\ q.target = m.users[To(c)].entry
    BY Zenon, <2>5, <2>6 DEF RelayConn
  <2>8. conn' \in [Conns -> RelayConn] /\ conn'[c] = q /\ \A k \in Conns : k # c => conn'[k] = conn[k]
    BY Zenon, <1>1, <2>2, <2>6, <2>7
  <2>9. ASSUME NEW v \in Users PROVE users'[v].active = Cardinality(BridgesOf(v)')
    <3>1. Cardinality(BridgesOf(v)') = IF v \in {From(c), To(c)}
            THEN Cardinality(BridgesOf(v)) + 1 ELSE Cardinality(BridgesOf(v))
      BY Zenon, <1>1, <2>7, <2>8, BridgeJoins
    <3>2. users[v].active = Cardinality(BridgesOf(v))
      BY Zenon, <1>3 DEF RelayInv, RelayCounts
    <3> QED BY Zenon, <2>2, <2>3, <3>1, <3>2
  <2>10. ASSUME NEW k \in Conns PROVE BridgeOK(k)'
    <3>1. CASE k = c
      BY Zenon, <2>2, <2>3, <2>4, <2>7, <2>8, <3>1 DEF BridgeOK
    <3>2. CASE k # c
      <4>1. From(k) \in Users /\ To(k) \in Users /\ BridgeOK(k) /\ conn'[k] = conn[k]
        BY Zenon, <1>3, <2>8, <3>2, RequestUsers DEF RelayInv, RelayCounts
      <4>2. \A v \in Users : users[v].entry # 0 => users'[v].entry = users[v].entry
        BY Zenon, <2>2, <2>3
      <4> QED BY Zenon, <4>1, <4>2 DEF BridgeOK
    <3> QED BY Zenon, <3>1, <3>2
  <2>11. RelayCounts'
    BY Zenon, <1>1, <1>3, <2>9, <2>10 DEF RelayCounts
  <2>12. ManagerOK(Manager)'
    BY Zenon, <2>2, <2>3, ManagerCommits
  <2>13. RelayTypes'
    BY Zenon, <1>1, <2>8 DEF RelayInv, RelayTypes
  <2> QED BY Zenon, <2>11, <2>12, <2>13 DEF RelayInv
<1> QED BY Zenon, <1>1, <1>2, <1>3

LEMMA StopRelay ==
  ASSUME RelayInv, NEW c \in Conns, Stop(c)
  PROVE  RelayInv'
<1>1. /\ conn[c].at = "bridged" /\ UNCHANGED <<configs, retention, shutdown, now>>
      /\ conn \in [Conns -> RelayConn] /\ shutdown \in BOOLEAN
      /\ conn' = [conn EXCEPT ![c] = [at |-> "stopped", source |-> 0, target |-> 0]]
  BY Zenon DEF Stop, RelayInv, RelayTypes
<1>2. PICK q : q = [at |-> "stopped", source |-> 0, target |-> 0]
  BY Zenon
<1>3. q \in RelayConn /\ q.at = "stopped"
  BY Zenon, <1>2 DEF RelayConn
<1>4. conn' \in [Conns -> RelayConn] /\ conn'[c] = q /\ \A k \in Conns : k # c => conn'[k] = conn[k]
  BY Zenon, <1>1, <1>2, <1>3
<1>5. RelayTypes'
  BY Zenon, <1>1, <1>4 DEF RelayInv, RelayTypes
<1>6. CASE shutdown
  <2>1. PICK m : m = Manager
    BY Zenon
  <2>2. \A v \in Users : m.users[v].active = 0
    BY Zenon, <1>6, <2>1, ManagerFields DEF RelayInv, RelayCounts, ManagerOK, TrafficOK
  <2>3. From(c) \in Users /\ To(c) \in Users
    BY Zenon, RequestUsers
  <2>4. release_user(m, From(c), conn[c].source) = m /\ release_user(m, To(c), conn[c].target) = m
    BY Zenon, <2>2, <2>3, ReleaseNothing
  <2>5. release_both(c) = Manager
    BY Zenon, <2>1, <2>4 DEF release_both
  <2>6. UNCHANGED <<users, deadlines, entries>>
    BY Zenon, <2>5, ManagerFields DEF Stop, Commit
  <2>7. RelayCounts'
    BY Zenon, <1>1, <1>6, <2>6 DEF RelayInv, RelayCounts
  <2> QED BY Zenon, <1>5, <2>6, <2>7, ManagerStays DEF RelayInv
<1>7. CASE ~shutdown
  <2>1. PICK m : m = release_both(c)
    BY Zenon
  <2>2. conn[c].source # 0
    BY Zenon, <1>1, <1>7 DEF RelayInv, RelayCounts, BridgeOK
  <2>3. users' = m.users /\ deadlines' = m.deadlines /\ entries' = m.entries
    BY Zenon, <2>1, <2>2 DEF Stop, Commit
  <2>4. /\ ManagerOK(m)
        /\ \A v \in Users :
             IF v \in {From(c), To(c)}
               THEN /\ m.users[v].active = users[v].active - 1
                    /\ m.users[v].active # 0 => m.users[v].entry = users[v].entry
               ELSE m.users[v] = users[v]
    BY Zenon, <1>1, <1>7, <2>1, ReleaseBothOK
  <2>5. ASSUME NEW v \in Users PROVE users'[v].active = Cardinality(BridgesOf(v)')
    <3>1. Cardinality(BridgesOf(v)') = IF v \in {From(c), To(c)}
            THEN Cardinality(BridgesOf(v)) - 1 ELSE Cardinality(BridgesOf(v))
      BY Zenon, <1>1, <1>3, <1>4, BridgeLeaves
    <3>2. users[v].active = Cardinality(BridgesOf(v))
      BY Zenon, <1>7 DEF RelayInv, RelayCounts
    <3> QED BY Zenon, <2>3, <2>4, <3>1, <3>2
  <2>6. ASSUME NEW k \in Conns PROVE BridgeOK(k)'
    <3>1. CASE conn'[k].at # "bridged"
      BY Zenon, <3>1 DEF BridgeOK
    <3>2. CASE conn'[k].at = "bridged"
      <4>1. From(k) \in Users /\ To(k) \in Users /\ BridgeOK(k) /\ conn'[k] = conn[k]
        BY Zenon, <1>3, <1>4, <1>7, <3>2, RequestUsers DEF RelayInv, RelayCounts
      <4>2. ASSUME NEW v \in {From(k), To(k)} PROVE users'[v].entry = users[v].entry
        <5>1. k \in BridgesOf(v)' /\ v \in Users
          BY Zenon, <3>2, <4>1 DEF BridgesOf
        <5>2. IsFiniteSet(BridgesOf(v)')
          <6>1. BridgesOf(v)' \in SUBSET Conns
            BY Zenon DEF BridgesOf
          <6> QED BY Zenon, <6>1, PnServiceAssumption, FS_Subset
        <5>3. Cardinality(BridgesOf(v)') # 0
          BY Zenon, <5>1, <5>2, FS_EmptySet
        <5> QED BY Zenon, <2>3, <2>4, <2>5, <5>1, <5>3
      <4> QED BY Zenon, <4>1, <4>2 DEF BridgeOK
    <3> QED BY Zenon, <3>1, <3>2
  <2>7. RelayCounts'
    BY Zenon, <1>1, <1>7, <2>5, <2>6 DEF RelayCounts
  <2>8. ManagerOK(Manager)'
    BY Zenon, <2>3, <2>4, ManagerCommits
  <2> QED BY Zenon, <1>5, <2>7, <2>8 DEF RelayInv
<1> QED BY Zenon, <1>1, <1>6, <1>7

LEMMA LimitRelay ==
  ASSUME RelayInv, NEW u \in Users, NEW x \in Limits, set_user_limit(u, x)
  PROVE  RelayInv'
<1>1. /\ UNCHANGED <<conn, retention, deadlines, shutdown, entries, now>> /\ ~shutdown /\ x \in Nat
      /\ users' = IF users[u].entry # 0 THEN [users EXCEPT ![u].limit = x] ELSE users
      /\ configs' \in [Users -> Nat]
  BY Zenon, PnServiceAssumption DEF set_user_limit, Present, RelayInv, RelayTypes
<1>2. PICK m : m = Manager
  BY Zenon
<1>3. /\ m \in ManagerType
      /\ ManagerOK(m) /\ m.users = users /\ m.deadlines = deadlines /\ m.entries = entries
      /\ TrafficOK(users[u])
  BY Zenon, <1>2, ManagerFields DEF RelayInv, ManagerOK
<1>4. RelayTypes'
  BY Zenon, <1>1 DEF RelayInv, RelayTypes
<1>5. PICK t : t = IF users[u].entry # 0 THEN [users[u] EXCEPT !.limit = x] ELSE users[u]
  BY Zenon
<1>6. t \in UserTraffic /\ t.entry = users[u].entry /\ t.active = users[u].active
      /\ t.deadline = users[u].deadline
  BY Zenon, <1>1, <1>3, <1>5 DEF UserTraffic, ManagerType
<1>7. PICK us \in [Users -> UserTraffic] : us = [users EXCEPT ![u] = t]
  BY Zenon, <1>3, <1>6 DEF ManagerType
<1>8. users' = us
  BY Zenon, <1>1, <1>3, <1>5, <1>7 DEF ManagerType
<1>9. PICK n : n = [m EXCEPT !.users = us]
  BY Zenon
<1>10. /\ n \in ManagerType
       /\ n.users = us /\ n.deadlines = m.deadlines /\ n.entries = m.entries
  BY Zenon, <1>3, <1>9 DEF ManagerType
<1>11. TrafficOK(t)
  BY Zenon, <1>3, <1>6 DEF TrafficOK
<1>12. n.deadlines = (m.deadlines \ {<<m.users[u].deadline, u>>}) \cup OwnDeadline(t, u)
  <2>1. CASE IdleIn(users, u)
    <3>1. OwnDeadline(t, u) = {<<users[u].deadline, u>>}
      BY Zenon, <1>6, <2>1 DEF OwnDeadline, IdleIn
    <3>2. <<users[u].deadline, u>> \in m.deadlines
      BY Zenon, <1>3, <2>1 DEF ManagerOK, DeadlinesOf
    <3> QED BY Zenon, <1>3, <1>10, <3>1, <3>2
  <2>2. CASE ~IdleIn(users, u)
    <3>1. OwnDeadline(t, u) = {}
      BY Zenon, <1>6, <2>2 DEF OwnDeadline, IdleIn
    <3>2. <<users[u].deadline, u>> \notin m.deadlines
      BY Zenon, <1>3, <2>2, NotIdleNoDeadline
    <3> QED BY Zenon, <1>3, <1>10, <3>1, <3>2
  <2> QED BY Zenon, <2>1, <2>2
<1>13. ManagerOK(n)
  <2>1. n.users = [m.users EXCEPT ![u] = t]
    BY Zenon, <1>3, <1>7, <1>10
  <2>2. Moved(m, n, u, t)
    BY Zenon, <1>10, <1>12, <2>1 DEF Moved
  <2>3. Follows(m, n, u, t)
    BY Zenon, <1>3, <1>6, <1>11, <2>2, ManagerChanges
  <2> QED BY Zenon, <2>3 DEF Follows
<1>14. ManagerOK(Manager)'
  <2>1. users' = n.users /\ deadlines' = n.deadlines /\ entries' = n.entries
    BY Zenon, <1>1, <1>3, <1>8, <1>10
  <2> QED BY Zenon, <1>13, <2>1, ManagerCommits
<1>15. RelayCounts'
  <2>1. \A v \in Users : users'[v].active = users[v].active /\ users'[v].entry = users[v].entry
    BY Zenon, <1>3, <1>6, <1>7, <1>8 DEF ManagerType
  <2>2. \A v : BridgesOf(v)' = BridgesOf(v)
    BY Zenon, <1>1 DEF BridgesOf
  <2>3. ASSUME NEW c \in Conns PROVE BridgeOK(c)'
    <3>1. From(c) \in Users /\ To(c) \in Users
      BY Zenon, RequestUsers
    <3> QED BY Zenon, <1>1, <2>1, <3>1 DEF RelayInv, RelayCounts, BridgeOK
  <2> QED BY Zenon, <1>1, <2>1, <2>2, <2>3 DEF RelayInv, RelayCounts
<1> QED BY Zenon, <1>4, <1>14, <1>15 DEF RelayInv

LEMMA CleanupRelay ==
  ASSUME RelayInv, CleanupOne
  PROVE  RelayInv'
<1>1. /\ UNCHANGED <<conn, retention, configs, shutdown, entries, now>> /\ ~shutdown
  BY Zenon DEF CleanupOne
<1>2. PICK m : m = Manager
  BY Zenon
<1>3. /\ m \in ManagerType
      /\ ManagerOK(m) /\ m.users = users /\ m.deadlines = deadlines /\ m.entries = entries
      /\ deadlines = DeadlinesOf(users)
  BY Zenon, <1>2, ManagerFields DEF RelayInv, ManagerOK
<1>4. PICK d \in deadlines :
        /\ deadlines' = deadlines \ {d}
        /\ users' = IF /\ users[d[2]].entry # 0 /\ users[d[2]].active = 0
                       /\ users[d[2]].deadline = d[1]
                      THEN [users EXCEPT ![d[2]] = Absent] ELSE users
  BY Zenon DEF CleanupOne, Expired, Present
<1>5. PICK u \in Users : IdleIn(users, u) /\ d = <<users[u].deadline, u>>
  BY Zenon, <1>3, <1>4 DEF DeadlinesOf
<1>6. users' = [users EXCEPT ![u] = Absent] /\ deadlines' = deadlines \ {<<users[u].deadline, u>>}
  BY Zenon, <1>4, <1>5 DEF IdleIn
<1>7. Absent \in UserTraffic /\ Absent.entry = 0 /\ Absent.active = 0 /\ TrafficOK(Absent)
      /\ OwnDeadline(Absent, u) = {}
  BY Zenon DEF Absent, UserTraffic, TrafficOK, OwnDeadline
<1>8. PICK us \in [Users -> UserTraffic] : us = [users EXCEPT ![u] = Absent]
  BY Zenon, <1>3, <1>7 DEF ManagerType
<1>9. PICK ds \in SUBSET (Nat \X Users) : ds = deadlines \ {<<users[u].deadline, u>>}
  BY Zenon, <1>3 DEF ManagerType
<1>10. PICK n : n = [m EXCEPT !.users = us, !.deadlines = ds]
  BY Zenon
<1>11. /\ n \in ManagerType
       /\ n.users = us /\ n.deadlines = ds /\ n.entries = m.entries
  BY Zenon, <1>3, <1>10 DEF ManagerType
<1>12. ManagerOK(n)
  <2>1. n.users = [m.users EXCEPT ![u] = Absent]
    BY Zenon, <1>3, <1>8, <1>11
  <2>2. n.deadlines = (m.deadlines \ {<<m.users[u].deadline, u>>}) \cup OwnDeadline(Absent, u)
    BY Zenon, <1>3, <1>7, <1>9, <1>11
  <2>3. PICK s \in UserTraffic : s = Absent
    BY Zenon, <1>7
  <2>4. n.users = [m.users EXCEPT ![u] = s] /\ TrafficOK(s)
        /\ n.deadlines = (m.deadlines \ {<<m.users[u].deadline, u>>}) \cup OwnDeadline(s, u)
    BY Zenon, <1>7, <2>1, <2>2, <2>3
  <2>5. Moved(m, n, u, s)
    BY Zenon, <1>11, <2>4 DEF Moved
  <2>6. Follows(m, n, u, s)
    BY Zenon, <1>3, <2>4, <2>5, ManagerChanges
  <2> QED BY Zenon, <2>6 DEF Follows
<1>13. ManagerOK(Manager)'
  <2>1. users' = n.users /\ deadlines' = n.deadlines /\ entries' = n.entries
    BY Zenon, <1>1, <1>3, <1>6, <1>8, <1>9, <1>11
  <2> QED BY Zenon, <1>12, <2>1, ManagerCommits
<1>14. RelayCounts'
  <2>1. users'[u] = Absent /\ \A v \in Users : v # u => users'[v] = users[v]
    BY Zenon, <1>3, <1>6 DEF ManagerType
  <2>2. \A v : BridgesOf(v)' = BridgesOf(v)
    BY Zenon, <1>1 DEF BridgesOf
  <2>3. \A v \in Users : users'[v].active = users[v].active
    BY Zenon, <1>5, <1>7, <2>1 DEF IdleIn
  <2>4. ASSUME NEW c \in Conns PROVE BridgeOK(c)'
    <3>1. SUFFICES ASSUME conn[c].at = "bridged" PROVE BridgeOK(c)'
      BY Zenon, <1>1 DEF BridgeOK
    <3>2. \A v \in {From(c), To(c)} : users[v].active > 0 /\ v \in Users
      BY Zenon, <1>1, <3>1, BridgeInUse
    <3>3. From(c) # u /\ To(c) # u
      BY <1>5, <3>2 DEF IdleIn
    <3> QED BY Zenon, <1>1, <2>1, <3>2, <3>3 DEF RelayInv, RelayCounts, BridgeOK
  <2> QED BY Zenon, <1>1, <2>2, <2>3, <2>4 DEF RelayInv, RelayCounts
<1>15. RelayTypes'
  BY Zenon, <1>1 DEF RelayInv, RelayTypes
<1> QED BY Zenon, <1>13, <1>14, <1>15 DEF RelayInv

LEMMA ShutdownRelay ==
  ASSUME RelayInv, Shutdown
  PROVE  RelayInv'
<1>1. /\ users' = [u \in Users |-> Absent] /\ configs' = [u \in Users |-> 0] /\ deadlines' = {}
      /\ retention' = 0 /\ shutdown' = TRUE /\ UNCHANGED <<conn, entries, now>>
  BY Zenon DEF Shutdown
<1>2. entries \in Nat
  BY Zenon, ManagerFields DEF RelayInv, ManagerOK, ManagerType
<1>3. Absent \in UserTraffic /\ Absent.entry = 0 /\ Absent.active = 0 /\ TrafficOK(Absent)
  BY Zenon DEF Absent, UserTraffic, TrafficOK
<1>4. PICK us \in [Users -> UserTraffic] : us = [u \in Users |-> Absent]
  BY Zenon, <1>3
<1>5. PICK m : m = [users |-> us, deadlines |-> {}, entries |-> entries, wake |-> FALSE]
  BY Zenon
<1>6. m.users = us /\ m.deadlines = {} /\ m.entries = entries
  BY Zenon, <1>5
<1>7. m \in ManagerType
  BY Zenon, <1>2, <1>5 DEF ManagerType
<1>8. DeadlinesOf(us) = {}
  BY Zenon, <1>3, <1>4 DEF DeadlinesOf, IdleIn
<1>9. ManagerOK(m)
  BY Zenon, <1>3, <1>4, <1>6, <1>7, <1>8 DEF ManagerOK
<1>10. ManagerOK(Manager)'
  <2>1. users' = m.users /\ deadlines' = m.deadlines /\ entries' = m.entries
    BY Zenon, <1>1, <1>4, <1>6
  <2> QED BY Zenon, <1>9, <2>1, ManagerCommits
<1>11. RelayCounts'
  BY Zenon, <1>1, <1>3 DEF RelayCounts
<1>12. RelayTypes'
  BY Zenon, <1>1 DEF RelayInv, RelayTypes
<1> QED BY Zenon, <1>10, <1>11, <1>12 DEF RelayInv

LEMMA RelayStart ==
  ASSUME PnServiceInit
  PROVE  RelayInv
<1>1. Absent \in UserTraffic /\ Absent.entry = 0 /\ Absent.active = 0 /\ TrafficOK(Absent)
  BY Zenon DEF Absent, UserTraffic, TrafficOK
<1>2. users = [u \in Users |-> Absent] /\ deadlines = {} /\ entries = 0 /\ ~shutdown
      /\ conn = [c \in Conns |-> [at |-> "idle", source |-> 0, target |-> 0]]
  BY Zenon DEF PnServiceInit
<1>3. users \in [Users -> UserTraffic]
  BY Zenon, <1>1, <1>2
<1>4. DeadlinesOf(users) = {}
  BY Zenon, <1>1, <1>2 DEF DeadlinesOf, IdleIn
<1>5. ManagerOK(Manager)
  <2>1. Manager \in ManagerType
    BY Zenon, <1>2, <1>3 DEF Manager, ManagerType
  <2> QED BY Zenon, <1>1, <1>2, <1>3, <1>4, <2>1, ManagerFields DEF ManagerOK
<1>6. \A v : BridgesOf(v) = {}
  BY Zenon, <1>2 DEF BridgesOf
<1>7. \A c \in Conns : BridgeOK(c)
  BY Zenon, <1>2 DEF BridgeOK
<1>8. RelayCounts
  BY Zenon, <1>1, <1>2, <1>6, <1>7, FS_EmptySet DEF RelayCounts
<1>9. conn \in [Conns -> RelayConn]
  BY Zenon, <1>2 DEF RelayConn
<1>10. RelayTypes
  <2>1. configs = [u \in Users |-> 0] /\ retention = 0 /\ now = 1
    BY Zenon DEF PnServiceInit
  <2>2. configs \in [Users -> Nat]
    BY Zenon, <2>1
  <2>3. retention \in Nat /\ now \in Nat \ {0}
    BY <2>1
  <2>4. shutdown \in BOOLEAN
    BY Zenon DEF PnServiceInit
  <2> QED BY Zenon, <1>9, <2>2, <2>3, <2>4 DEF RelayTypes
<1> QED BY Zenon, <1>5, <1>8, <1>10 DEF RelayInv

LEMMA RelayNext ==
  ASSUME RelayInv, [PnServiceNext]_pnServiceVars
  PROVE  RelayInv'
<1>1. CASE \E c \in Conns : Validate(c) \/ OpenFails(c) \/ Bridge(c) \/ Stop(c)
  BY Zenon, <1>1, ValidateRelay, BridgeRelay, StopRelay
<1>2. CASE \E u \in Users, x \in Limits : set_user_limit(u, x)
  BY Zenon, <1>2, LimitRelay
<1>3. CASE Shutdown \/ CleanupOne
  BY Zenon, <1>3, ShutdownRelay, CleanupRelay
<1>4. CASE \/ \E r \in Retentions : set_retention(r)
           \/ CleanupWaits \/ CleanupStops \/ CleanupNotified \/ CleanupWakes \/ Tick
           \/ UNCHANGED pnServiceVars
  <2>1. UNCHANGED <<conn, users, configs, deadlines, entries, shutdown>>
    BY Zenon, <1>4 DEF set_retention, CleanupWaits, CleanupStops, CleanupNotified, CleanupWakes, Tick,
                pnServiceVars, traffic
  <2>2. retention' \in Nat
    BY Zenon, <1>4, PnServiceAssumption DEF set_retention, CleanupWaits, CleanupStops, CleanupNotified,
                CleanupWakes, Tick, pnServiceVars, traffic, RelayInv, RelayTypes
  <2>3. now' \in Nat \ {0}
    BY <1>4 DEF set_retention, CleanupWaits, CleanupStops, CleanupNotified, CleanupWakes, Tick,
                pnServiceVars, traffic, RelayInv, RelayTypes
  <2>4. RelayTypes'
    BY Zenon, <2>1, <2>2, <2>3 DEF RelayInv, RelayTypes
  <2> QED BY Zenon, <2>1, <2>4, RelayRest
<1> QED BY Zenon, <1>1, <1>2, <1>3, <1>4 DEF PnServiceNext, Cleanup

LEMMA RelayCounted ==
  ASSUME RelayInv
  PROVE  SessionsCounted
<1>1. /\ \A u \in Users : TrafficOK(users[u])
      /\ deadlines = DeadlinesOf(users) /\ shutdown \in BOOLEAN
  BY Zenon, ManagerFields DEF RelayInv, ManagerOK, RelayTypes
<1>2. \A u \in Users : Present(u) => ~shutdown
  BY Zenon DEF RelayInv, RelayCounts, Present
<1>3. ASSUME ~shutdown PROVE \A u \in Users : Guards(u, users[u].entry) = BridgesOf(u)
  BY Zenon, <1>3 DEF RelayInv, RelayCounts, BridgeOK, Guards, BridgesOf
<1>4. \A u \in Users : Present(u) => users[u].active = Cardinality(Guards(u, users[u].entry))
  BY Zenon, <1>2, <1>3 DEF RelayInv, RelayCounts
<1>5. ~shutdown => \A c \in Conns : conn[c].at = "bridged" =>
        /\ conn[c].source # 0 /\ conn[c].source = users[From(c)].entry
        /\ conn[c].target = users[To(c)].entry
  BY Zenon DEF RelayInv, RelayCounts, BridgeOK
<1>6. deadlines = {<<users[u].deadline, u>> :
                     u \in {v \in Users : Present(v) /\ users[v].active = 0}}
  BY Zenon, <1>1 DEF DeadlinesOf, IdleIn, Present
<1>7. \A u \in Users : Present(u) => (users[u].active = 0 <=> users[u].deadline # 0)
  BY Zenon, <1>1 DEF TrafficOK, Present
<1> QED BY Zenon, <1>4, <1>5, <1>6, <1>7 DEF SessionsCounted

(* The relay server counts every bridge for its users, on the entries the     *)
(* users have now, and the cleanup deadlines are exactly those of the idle    *)
(* users: begin_session, its guard's drop, the cleanup task and the shutdown  *)
(* keep it so in every order.                                                 *)
THEOREM SessionsAreCounted == PnServiceInit /\ [][PnServiceNext]_pnServiceVars => []SessionsCounted
<1>1. PnServiceInit => RelayInv
  BY Zenon, RelayStart
<1>2. RelayInv /\ [PnServiceNext]_pnServiceVars => RelayInv'
  BY Zenon, RelayNext
<1>3. RelayInv => SessionsCounted
  BY Zenon, RelayCounted
<1> QED BY <1>1, <1>2, <1>3, PTL

-----------------------------------------------------------------------------
(***************************************************************************)
(* The channel counts of a proxy tunnel, for any channels.  At each end a  *)
(* channel is queued, pending, active or not in use, and a step moves it   *)
(* from one to another together with the counter.                          *)
(***************************************************************************)

Life == [status : {"absent", "OpeningControl", "Open", "Retired", "Closing", "Closed"},
         active : Nat, pending : Nat, queued : Nat, zero : BOOLEAN, gen : Nat]
Channel == [from : Ends, at : {"idle", "asking", "held", "done"},
            peer : {"idle", "queued", "rejecting", "accepting", "securing", "leased", "held", "done"},
            verdict : {"none", "ok", "err"}]

\* The use of a channel at end e
UseAt(x, e) ==
  IF x.from = e
    THEN CASE x.at = "asking" -> "pending" [] x.at = "held" -> "active" [] OTHER -> "none"
    ELSE CASE x.peer = "queued" -> "queued"
           [] x.peer \in {"rejecting", "accepting", "securing"} -> "pending"
           [] x.peer \in {"leased", "held"} -> "active"
           [] OTHER -> "none"

Members(ch, e, use) == {c \in Channels : UseAt(ch[c], e) = use}

\* An end that is open runs its idle clock while it has no channel
EndOK(l, tm, cl) ==
  /\ cl # "no" => l.status \in {"Closing", "Closed"}
  /\ l.status # "Open" => l.queued = 0
  /\ l.status \in {"absent", "OpeningControl"} => ~l.zero
  /\ l.status = "absent" => l.active = 0 /\ l.pending = 0
  /\ l.status = "Open" => (l.zero <=> total_channels(l) = 0) /\ (l.zero => l.gen \in tm)

CountOK(l, cl, ch, e) ==
  /\ l.pending = Cardinality(Members(ch, e, "pending"))
  /\ l.active = Cardinality(Members(ch, e, "active"))
  /\ cl = "no" => l.queued = Cardinality(Members(ch, e, "queued"))

EndsOK(li, tm, cl, ch) ==
  /\ li \in [Ends -> Life] /\ tm \in [Ends -> SUBSET Nat]
  /\ cl \in [Ends -> {"no", "local", "control", "done"}]
  /\ ch \in [Channels -> Channel]
  /\ \A e \in Ends : EndOK(li[e], tm[e], cl[e]) /\ CountOK(li[e], cl[e], ch, e)
  /\ \A c \in Channels : ch[c].at = "idle" => ch[c].peer = "idle"

LifeInv == EndsOK(life, timers, closing, chan)

\* An end is built once, and nothing runs there before
BuildInv ==
  /\ step = [e \in Ends |-> step[e]] /\ recv = [e \in Ends |-> recv[e]]
  /\ beat = [e \in Ends |-> beat[e]]
  /\ \A e \in Ends : step[e] \in {"none", "asked"} =>
       life[e].status = "absent" /\ closing[e] = "no" /\ ~recv[e] /\ beat[e].at = "off"
  /\ relay \in {"none", "requested"} => step["P"] = "none"
  /\ step["A"] = "none" => relay = "none"

PnInv == LifeInv /\ BuildInv

\* EndOK, but for the idle state that refresh_idle_state brings up to date
BeforeRefresh(l, tm, cl) ==
  /\ cl # "no" => l.status \in {"Closing", "Closed"}
  /\ l.status # "Open" => l.queued = 0
  /\ l.status \in {"absent", "OpeningControl"} => ~l.zero
  /\ l.status = "absent" => l.active = 0 /\ l.pending = 0
  /\ l.status = "Open" /\ l.zero => l.gen \in tm

SameCounts(n, l) == n.status = l.status /\ n.active = l.active
                      /\ n.pending = l.pending /\ n.queued = l.queued

\* refresh_idle_state changes no count, and makes the idle state that of them.
LEMMA RefreshFacts ==
  ASSUME NEW l \in Life, NEW tm \in SUBSET Nat, NEW cl, BeforeRefresh(l, tm, cl),
         NEW n, n = refresh_idle_state(l)
  PROVE  /\ n \in Life /\ SameCounts(n, l)
         /\ EndOK(n, IF n.zero /\ ~l.zero THEN tm \cup {n.gen} ELSE tm, cl)
<1>1. l = [status |-> l.status, active |-> l.active, pending |-> l.pending,
           queued |-> l.queued, zero |-> l.zero, gen |-> l.gen]
  BY Zenon DEF Life
<1>2. /\ l.active \in Nat /\ l.pending \in Nat /\ l.queued \in Nat
      /\ l.zero \in BOOLEAN /\ l.gen \in Nat
  BY Zenon DEF Life
<1>3. PICK g \in Nat : g = l.gen + 1
  BY <1>2
<1>4. PICK z \in BOOLEAN : z = ~l.zero
  BY Zenon, <1>2
<1>5. CASE is_open(l) /\ (total_channels(l) = 0) # l.zero
  <2>1. n = [l EXCEPT !.zero = z, !.gen = g]
    BY Zenon, <1>3, <1>4, <1>5 DEF refresh_idle_state
  <2>2. /\ n \in Life /\ SameCounts(n, l)
    BY Zenon, <2>1, <1>1, <1>2 DEF Life, SameCounts
  <2>3. n.zero = z /\ n.gen = g /\ n.status = "Open" /\ n.queued = l.queued
    BY Zenon, <2>1, <1>1, <1>2, <1>5 DEF is_open, Life
  <2>4. total_channels(n) = total_channels(l)
    BY Zenon, <2>2 DEF SameCounts, total_channels
  <2>5. n.zero <=> total_channels(n) = 0
    BY Zenon, <2>3, <2>4, <1>2, <1>4, <1>5 DEF total_channels
  <2>6. n.zero => n.gen \in (IF n.zero /\ ~l.zero THEN tm \cup {n.gen} ELSE tm)
    BY Zenon, <2>3, <1>4, <1>2
  <2> QED
    BY Zenon, <2>2, <2>3, <2>5, <2>6, <1>5 DEF EndOK, BeforeRefresh, is_open
<1>6. CASE ~(is_open(l) /\ (total_channels(l) = 0) # l.zero)
  <2>1. n = l
    BY Zenon, <1>6 DEF refresh_idle_state
  <2>2. l.status = "Open" => (l.zero <=> total_channels(l) = 0)
    BY Zenon, <1>6, <1>2 DEF is_open, total_channels
  <2> QED
    BY Zenon, <2>1, <2>2, <1>2 DEF EndOK, BeforeRefresh, SameCounts
<1> QED
  BY Zenon, <1>5, <1>6

\* How many channels have use w when one goes from use u to use v.
Joins(n, m, u, v, w) ==
  /\ u # w /\ v = w => n = m + 1
  /\ u = w /\ v # w => m > 0 /\ n = m - 1
  /\ (u = w <=> v = w) => n = m

\* One channel that changes moves between the sets it is in.
LEMMA Recount ==
  ASSUME NEW ch \in [Channels -> Channel], NEW c \in Channels, NEW x \in Channel,
         NEW e, NEW w
  PROVE  /\ Cardinality(Members(ch, e, w)) \in Nat
         /\ Joins(Cardinality(Members([ch EXCEPT ![c] = x], e, w)),
                  Cardinality(Members(ch, e, w)), UseAt(ch[c], e), UseAt(x, e), w)
<1>1. PICK S : S = Members(ch, e, w)
  BY Zenon
<1>2. PICK T : T = Members([ch EXCEPT ![c] = x], e, w)
  BY Zenon
<1>3. IsFiniteSet(S) /\ IsFiniteSet(T)
  BY Zenon, <1>1, <1>2, PnAssumption, FS_Subset DEF Members
<1>4. Cardinality(S) \in Nat /\ Cardinality(T) \in Nat
  BY Zenon, <1>3, FS_CardinalityType
<1>5. \A d \in Channels : d # c => ([ch EXCEPT ![c] = x])[d] = ch[d]
  BY Zenon
<1>6. ([ch EXCEPT ![c] = x])[c] = x
  BY Zenon
<1>7. CASE UseAt(ch[c], e) # w /\ UseAt(x, e) = w
  <2>1. T = S \cup {c} /\ c \notin S
    BY Zenon, <1>1, <1>2, <1>5, <1>6, <1>7 DEF Members
  <2>2. Cardinality(T) = Cardinality(S) + 1
    BY Zenon, <2>1, <1>3, FS_AddElement
  <2> QED
    BY Zenon, <2>2, <1>1, <1>2, <1>4, <1>7 DEF Joins
<1>8. CASE UseAt(ch[c], e) = w /\ UseAt(x, e) # w
  <2>1. S = T \cup {c} /\ c \notin T
    BY Zenon, <1>1, <1>2, <1>5, <1>6, <1>8 DEF Members
  <2>2. Cardinality(S) = Cardinality(T) + 1
    BY Zenon, <2>1, <1>3, FS_AddElement
  <2> QED
    BY <2>2, <1>1, <1>2, <1>4, <1>8 DEF Joins
<1>9. CASE UseAt(ch[c], e) = w <=> UseAt(x, e) = w
  <2>1. T = S
    BY Zenon, <1>1, <1>2, <1>5, <1>6, <1>9 DEF Members
  <2> QED
    BY Zenon, <2>1, <1>1, <1>2, <1>4, <1>9 DEF Joins
<1> QED
  BY Zenon, <1>7, <1>8, <1>9

\* What an operation does to a count when a channel goes from use u to use v
Shift(n, m, u, v, w) ==
  /\ u # w /\ v = w => n = m + 1
  /\ u = w /\ v # w => n = Sub1(m)
  /\ (u = w <=> v = w) => n = m

Shifts(l, k, u, v) == /\ Shift(l.pending, k.pending, u, v, "pending")
                      /\ Shift(l.active, k.active, u, v, "active")
                      /\ Shift(l.queued, k.queued, u, v, "queued")

\* A count that shifts like its set stays exact.
LEMMA ShiftCounts ==
  ASSUME NEW n, NEW m, NEW k \in Nat, NEW j, NEW u, NEW v, NEW w,
         Shift(n, m, u, v, w), Joins(j, k, u, v, w), m = k
  PROVE  n = j
BY DEF Shift, Joins, Sub1

\* The parts of the inductive invariant, for one end and one channel.
LEMMA LifeTypes ==
  ASSUME LifeInv, NEW e \in Ends
  PROVE  /\ life[e] \in Life /\ timers[e] \in SUBSET Nat
         /\ life \in [Ends -> Life] /\ timers \in [Ends -> SUBSET Nat]
         /\ closing \in [Ends -> {"no", "local", "control", "done"}]
         /\ chan \in [Channels -> Channel]
         /\ EndOK(life[e], timers[e], closing[e])
         /\ CountOK(life[e], closing[e], chan, e)
BY Zenon DEF LifeInv, EndsOK

\* An end changes by itself, and no channel does.
LEMMA ReplaceEnd ==
  ASSUME LifeInv, NEW e \in Ends, NEW n \in Life, NEW t \in SUBSET Nat,
         NEW k \in {"no", "local", "control", "done"},
         life' = [life EXCEPT ![e] = n], timers' = [timers EXCEPT ![e] = t],
         closing' = [closing EXCEPT ![e] = k], chan' = chan,
         EndOK(n, t, k), CountOK(n, k, chan, e)
  PROVE  LifeInv'
<1>1. /\ life' \in [Ends -> Life] /\ timers' \in [Ends -> SUBSET Nat]
      /\ closing' \in [Ends -> {"no", "local", "control", "done"}]
      /\ chan' \in [Channels -> Channel]
  BY Zenon, LifeTypes
<1>2. \A c \in Channels : chan'[c].at = "idle" => chan'[c].peer = "idle"
  BY Zenon DEF LifeInv, EndsOK
<1>3. ASSUME NEW f \in Ends
      PROVE  EndOK(life'[f], timers'[f], closing'[f]) /\ CountOK(life'[f], closing'[f], chan', f)
  <2>1. CASE f = e
    <3>1. life'[f] = n /\ timers'[f] = t /\ closing'[f] = k
      BY Zenon, <2>1, LifeTypes
    <3> QED
      BY Zenon, <3>1, <2>1
  <2>2. CASE f # e
    <3>1. life'[f] = life[f] /\ timers'[f] = timers[f] /\ closing'[f] = closing[f]
      BY Zenon, <2>2, LifeTypes
    <3> QED
      BY Zenon, <3>1, LifeTypes
  <2> QED
    BY Zenon, <2>1, <2>2
<1> QED
  BY Zenon, <1>1, <1>2, <1>3 DEF LifeInv, EndsOK

\* A channel that keeps its use at an end leaves the counts there exact.
LEMMA CountsKept ==
  ASSUME LifeInv, NEW c \in Channels, NEW x \in Channel, NEW e \in Ends,
         UseAt(x, e) = UseAt(chan[c], e)
  PROVE  CountOK(life[e], closing[e], [chan EXCEPT ![c] = x], e)
<1>1. \A w : Cardinality(Members([chan EXCEPT ![c] = x], e, w))
               = Cardinality(Members(chan, e, w))
  BY LifeTypes, Recount DEF Joins
<1> QED
  BY Zenon, <1>1, LifeTypes DEF CountOK

\* The counts of an end follow a channel whose use changes there.
LEMMA CountsFollow ==
  ASSUME LifeInv, NEW c \in Channels, NEW x \in Channel, NEW e \in Ends, NEW n \in Life,
         NEW l \in Life, SameCounts(n, l),
         Shifts(l, life[e], UseAt(chan[c], e), UseAt(x, e))
  PROVE  CountOK(n, closing[e], [chan EXCEPT ![c] = x], e)
<1>1. PICK ch : ch = [chan EXCEPT ![c] = x]
  BY Zenon
<1>2. \A w : /\ Cardinality(Members(chan, e, w)) \in Nat
             /\ Joins(Cardinality(Members(ch, e, w)), Cardinality(Members(chan, e, w)),
                      UseAt(chan[c], e), UseAt(x, e), w)
  BY Zenon, <1>1, LifeTypes, Recount
<1>3. n.pending = Cardinality(Members(ch, e, "pending"))
  BY <1>2, LifeTypes, ShiftCounts DEF CountOK, Shifts, SameCounts
<1>4. n.active = Cardinality(Members(ch, e, "active"))
  BY <1>2, LifeTypes, ShiftCounts DEF CountOK, Shifts, SameCounts
<1>5. closing[e] = "no" => n.queued = Cardinality(Members(ch, e, "queued"))
  BY <1>2, LifeTypes, ShiftCounts DEF CountOK, Shifts, SameCounts
<1> QED
  BY Zenon, <1>1, <1>3, <1>4, <1>5 DEF CountOK

StatusKept == \A e \in Ends : life'[e].status = life[e].status

\* A move of a channel at one end, with the counts of that end.
LEMMA MoveOK ==
  ASSUME LifeInv, NEW c \in Channels, NEW x \in Channel, NEW e \in Ends, NEW l \in Life,
         Move(c, e, l, x), closing' = closing, BeforeRefresh(l, timers[e], closing[e]),
         Shifts(l, life[e], UseAt(chan[c], e), UseAt(x, e)),
         l.status = life[e].status,
         UseAt(x, Other(e)) = UseAt(chan[c], Other(e)),
         x.at = "idle" => x.peer = "idle"
  PROVE  LifeInv' /\ StatusKept
<1>1. PICK n : n = refresh_idle_state(l)
  BY Zenon
<1>2. PICK t : t = IF n.zero /\ ~l.zero THEN timers[e] \cup {n.gen} ELSE timers[e]
  BY Zenon
<1>3. n \in Life /\ SameCounts(n, l) /\ EndOK(n, t, closing[e])
  BY Zenon, <1>1, <1>2, LifeTypes, RefreshFacts
<1>4. t \in SUBSET Nat
  BY Zenon, <1>2, <1>3, LifeTypes DEF Life
<1>5. life' = [life EXCEPT ![e] = n]
  BY Zenon, <1>1 DEF Move, SetLife
<1>6. timers' = [timers EXCEPT ![e] = t]
  BY Zenon, <1>1, <1>2, LifeTypes DEF Move, SetLife
<1>7. chan' = [chan EXCEPT ![c] = x]
  BY Zenon DEF Move
<1>8. /\ life' \in [Ends -> Life] /\ timers' \in [Ends -> SUBSET Nat]
      /\ closing' \in [Ends -> {"no", "local", "control", "done"}]
      /\ chan' \in [Channels -> Channel]
  BY Zenon, <1>3, <1>4, <1>5, <1>6, <1>7, LifeTypes
<1>9. \A d \in Channels : chan'[d].at = "idle" => chan'[d].peer = "idle"
  BY Zenon, <1>7, LifeTypes DEF LifeInv, EndsOK
<1>10. ASSUME NEW f \in Ends
       PROVE  EndOK(life'[f], timers'[f], closing'[f]) /\ CountOK(life'[f], closing'[f], chan', f)
  <2>1. CASE f = e
    <3>1. life'[f] = n /\ timers'[f] = t /\ closing'[f] = closing[e]
      BY Zenon, <2>1, <1>5, <1>6, LifeTypes
    <3>2. CountOK(n, closing[e], [chan EXCEPT ![c] = x], e)
      BY Zenon, <1>3, CountsFollow
    <3> QED
      BY Zenon, <3>1, <3>2, <2>1, <1>3, <1>7
  <2>2. CASE f # e
    <3>1. life'[f] = life[f] /\ timers'[f] = timers[f] /\ closing'[f] = closing[f]
      BY Zenon, <2>2, <1>5, <1>6, LifeTypes
    <3>2. f = Other(e)
      BY Zenon, <2>2 DEF Other, Ends
    <3>3. CountOK(life[f], closing[f], [chan EXCEPT ![c] = x], f)
      BY Zenon, <3>2, CountsKept
    <3> QED
      BY Zenon, <3>1, <3>3, <1>7, LifeTypes
  <2> QED
    BY Zenon, <2>1, <2>2
<1>11. StatusKept
  BY Zenon, <1>3, <1>5, LifeTypes DEF StatusKept, SameCounts
<1> QED
  BY Zenon, <1>8, <1>9, <1>10, <1>11 DEF LifeInv, EndsOK

\* What an operation on the lifecycle of an end must do for a channel whose use
\* there goes from u to v.
Carries(l, k, tm, cl, u, v) ==
  l \in Life /\ l.status = k.status /\ BeforeRefresh(l, tm, cl) /\ Shifts(l, k, u, v)

\* begin_pending_channel, at an open end.
LEMMA BeginCarries ==
  ASSUME NEW k \in Life, NEW tm, NEW cl, EndOK(k, tm, cl), is_open(k)
  PROVE  Carries(begin_pending(k), k, tm, cl, "none", "pending")
<1>1. k = [status |-> k.status, active |-> k.active, pending |-> k.pending,
           queued |-> k.queued, zero |-> k.zero, gen |-> k.gen]
  BY Zenon DEF Life
<1>2. /\ k.active \in Nat /\ k.pending \in Nat /\ k.queued \in Nat
      /\ k.zero \in BOOLEAN /\ k.gen \in Nat
  BY Zenon DEF Life
<1>3. PICK p \in Nat : p = k.pending + 1
  BY <1>2 DEF Sub1
<1>4. PICK l : l = [k EXCEPT !.pending = p]
  BY Zenon
<1>5. l = begin_pending(k)
  BY Zenon, <1>3, <1>4, <1>1 DEF begin_pending, is_open, Sub1
<1>6. l \in Life
  BY Zenon, <1>4, <1>1, <1>2 DEF Life
<1>7. /\ l.status = k.status /\ l.zero = k.zero /\ l.gen = k.gen
      /\ l.active = k.active /\ l.pending = p /\ l.queued = k.queued
  BY Zenon, <1>4, <1>1
<1>8. BeforeRefresh(l, tm, cl)
  BY Zenon, <1>7, <1>3, <1>2 DEF EndOK, BeforeRefresh, Sub1, is_open
<1>9. Shifts(l, k, "none", "pending")
  BY Zenon, <1>7, <1>3, <1>2 DEF Shifts, Shift, Sub1, is_open
<1> QED
  BY Zenon, <1>5, <1>6, <1>7, <1>8, <1>9 DEF Carries

\* A channel is queued, at an open end.
LEMMA QueueCarries ==
  ASSUME NEW k \in Life, NEW tm, NEW cl, EndOK(k, tm, cl), is_open(k)
  PROVE  Carries([k EXCEPT !.queued = @ + 1], k, tm, cl, "none", "queued")
<1>1. k = [status |-> k.status, active |-> k.active, pending |-> k.pending,
           queued |-> k.queued, zero |-> k.zero, gen |-> k.gen]
  BY Zenon DEF Life
<1>2. /\ k.active \in Nat /\ k.pending \in Nat /\ k.queued \in Nat
      /\ k.zero \in BOOLEAN /\ k.gen \in Nat
  BY Zenon DEF Life
<1>3. PICK q \in Nat : q = k.queued + 1
  BY <1>2 DEF Sub1
<1>4. PICK l : l = [k EXCEPT !.queued = q]
  BY Zenon
<1>5. l = [k EXCEPT !.queued = @ + 1]
  BY Zenon, <1>3, <1>4, <1>1 DEF Life, is_open, Sub1
<1>6. l \in Life
  BY Zenon, <1>4, <1>1, <1>2 DEF Life
<1>7. /\ l.status = k.status /\ l.zero = k.zero /\ l.gen = k.gen
      /\ l.active = k.active /\ l.pending = k.pending /\ l.queued = q
  BY Zenon, <1>4, <1>1
<1>8. BeforeRefresh(l, tm, cl)
  BY Zenon, <1>7, <1>3, <1>2 DEF EndOK, BeforeRefresh, Sub1, is_open
<1>9. Shifts(l, k, "none", "queued")
  BY Zenon, <1>7, <1>3, <1>2 DEF Shifts, Shift, Sub1, is_open
<1> QED
  BY Zenon, <1>5, <1>6, <1>7, <1>8, <1>9 DEF Carries

\* queued_to_pending_channel, at an open end.
LEMMA AcceptCarries ==
  ASSUME NEW k \in Life, NEW tm, NEW cl, EndOK(k, tm, cl), is_open(k)
  PROVE  Carries(queued_to_pending(k), k, tm, cl, "queued", "pending")
<1>1. k = [status |-> k.status, active |-> k.active, pending |-> k.pending,
           queued |-> k.queued, zero |-> k.zero, gen |-> k.gen]
  BY Zenon DEF Life
<1>2. /\ k.active \in Nat /\ k.pending \in Nat /\ k.queued \in Nat
      /\ k.zero \in BOOLEAN /\ k.gen \in Nat
  BY Zenon DEF Life
<1>3. PICK q \in Nat : q = Sub1(k.queued)
  BY <1>2 DEF Sub1
<1>4. PICK p \in Nat : p = k.pending + 1
  BY <1>2 DEF Sub1
<1>5. PICK l : l = [k EXCEPT !.queued = q, !.pending = p]
  BY Zenon
<1>6. l = queued_to_pending(k)
  BY Zenon, <1>3, <1>4, <1>5, <1>1 DEF queued_to_pending, is_open, Sub1
<1>7. l \in Life
  BY Zenon, <1>5, <1>1, <1>2 DEF Life
<1>8. /\ l.status = k.status /\ l.zero = k.zero /\ l.gen = k.gen
      /\ l.active = k.active /\ l.pending = p /\ l.queued = q
  BY Zenon, <1>5, <1>1
<1>9. BeforeRefresh(l, tm, cl)
  BY Zenon, <1>8, <1>3, <1>4, <1>2 DEF EndOK, BeforeRefresh, Sub1, is_open
<1>10. Shifts(l, k, "queued", "pending")
  BY Zenon, <1>8, <1>3, <1>4, <1>2 DEF Shifts, Shift, Sub1, is_open
<1> QED
  BY Zenon, <1>6, <1>7, <1>8, <1>9, <1>10 DEF Carries

\* A pending channel is released, at any end.
LEMMA ReleaseCarries ==
  ASSUME NEW k \in Life, NEW tm, NEW cl, EndOK(k, tm, cl)
  PROVE  Carries(release_pending(k), k, tm, cl, "pending", "none")
<1>1. k = [status |-> k.status, active |-> k.active, pending |-> k.pending,
           queued |-> k.queued, zero |-> k.zero, gen |-> k.gen]
  BY Zenon DEF Life
<1>2. /\ k.active \in Nat /\ k.pending \in Nat /\ k.queued \in Nat
      /\ k.zero \in BOOLEAN /\ k.gen \in Nat
  BY Zenon DEF Life
<1>3. PICK p \in Nat : p = Sub1(k.pending)
  BY <1>2 DEF Sub1
<1>4. PICK l : l = [k EXCEPT !.pending = p]
  BY Zenon
<1>5. l = release_pending(k)
  BY Zenon, <1>3, <1>4, <1>1 DEF release_pending, is_open, Sub1
<1>6. l \in Life
  BY Zenon, <1>4, <1>1, <1>2 DEF Life
<1>7. /\ l.status = k.status /\ l.zero = k.zero /\ l.gen = k.gen
      /\ l.active = k.active /\ l.pending = p /\ l.queued = k.queued
  BY Zenon, <1>4, <1>1
<1>8. BeforeRefresh(l, tm, cl)
  BY Zenon, <1>7, <1>3, <1>2 DEF EndOK, BeforeRefresh, Sub1, is_open
<1>9. Shifts(l, k, "pending", "none")
  BY Zenon, <1>7, <1>3, <1>2 DEF Shifts, Shift, Sub1, is_open
<1> QED
  BY Zenon, <1>5, <1>6, <1>7, <1>8, <1>9 DEF Carries

\* A pending channel becomes a lease while the end is open, and is released else.
LEMMA ActivateCarries ==
  ASSUME NEW k \in Life, NEW tm, NEW cl, EndOK(k, tm, cl)
  PROVE  Carries(pending_to_active(k), k, tm, cl, "pending", IF is_open(k) THEN "active" ELSE "none")
<1>1. k = [status |-> k.status, active |-> k.active, pending |-> k.pending,
           queued |-> k.queued, zero |-> k.zero, gen |-> k.gen]
  BY Zenon DEF Life
<1>2. /\ k.active \in Nat /\ k.pending \in Nat /\ k.queued \in Nat
      /\ k.zero \in BOOLEAN /\ k.gen \in Nat
  BY Zenon DEF Life
<1>3. PICK p \in Nat : p = Sub1(k.pending)
  BY <1>2 DEF Sub1
<1>4. PICK a \in Nat : a = IF is_open(k) THEN k.active + 1 ELSE k.active
  BY <1>2 DEF Sub1
<1>5. PICK l : l = [k EXCEPT !.pending = p, !.active = a]
  BY Zenon
<1>6. l = pending_to_active(k)
  BY Zenon, <1>3, <1>4, <1>5, <1>1 DEF pending_to_active, is_open, Sub1
<1>7. l \in Life
  BY Zenon, <1>5, <1>1, <1>2 DEF Life
<1>8. /\ l.status = k.status /\ l.zero = k.zero /\ l.gen = k.gen
      /\ l.active = a /\ l.pending = p /\ l.queued = k.queued
  BY Zenon, <1>5, <1>1
<1>9. BeforeRefresh(l, tm, cl)
  BY Zenon, <1>8, <1>3, <1>4, <1>2 DEF EndOK, BeforeRefresh, Sub1, is_open
<1>10. Shifts(l, k, "pending", IF is_open(k) THEN "active" ELSE "none")
  BY Zenon, <1>8, <1>3, <1>4, <1>2 DEF Shifts, Shift, Sub1, is_open
<1> QED
  BY Zenon, <1>6, <1>7, <1>8, <1>9, <1>10 DEF Carries

\* A lease is dropped, at any end.
LEMMA DropCarries ==
  ASSUME NEW k \in Life, NEW tm, NEW cl, EndOK(k, tm, cl)
  PROVE  Carries(release_active(k), k, tm, cl, "active", "none")
<1>1. k = [status |-> k.status, active |-> k.active, pending |-> k.pending,
           queued |-> k.queued, zero |-> k.zero, gen |-> k.gen]
  BY Zenon DEF Life
<1>2. /\ k.active \in Nat /\ k.pending \in Nat /\ k.queued \in Nat
      /\ k.zero \in BOOLEAN /\ k.gen \in Nat
  BY Zenon DEF Life
<1>3. PICK a \in Nat : a = Sub1(k.active)
  BY <1>2 DEF Sub1
<1>4. PICK l : l = [k EXCEPT !.active = a]
  BY Zenon
<1>5. l = release_active(k)
  BY Zenon, <1>3, <1>4, <1>1 DEF release_active, is_open, Sub1
<1>6. l \in Life
  BY Zenon, <1>4, <1>1, <1>2 DEF Life
<1>7. /\ l.status = k.status /\ l.zero = k.zero /\ l.gen = k.gen
      /\ l.active = a /\ l.pending = k.pending /\ l.queued = k.queued
  BY Zenon, <1>4, <1>1
<1>8. BeforeRefresh(l, tm, cl)
  BY Zenon, <1>7, <1>3, <1>2 DEF EndOK, BeforeRefresh, Sub1, is_open
<1>9. Shifts(l, k, "active", "none")
  BY Zenon, <1>7, <1>3, <1>2 DEF Shifts, Shift, Sub1, is_open
<1> QED
  BY Zenon, <1>5, <1>6, <1>7, <1>8, <1>9 DEF Carries

\* MoveOK, for an operation that carries the channel's use.
LEMMA CarryOK ==
  ASSUME LifeInv, NEW c \in Channels, NEW x \in Channel, NEW e \in Ends, NEW l, NEW u, NEW v,
         Move(c, e, l, x), closing' = closing,
         Carries(l, life[e], timers[e], closing[e], u, v),
         UseAt(chan[c], e) = u, UseAt(x, e) = v,
         UseAt(x, Other(e)) = UseAt(chan[c], Other(e)),
         x.at = "idle" => x.peer = "idle"
  PROVE  LifeInv' /\ StatusKept
BY Zenon, MoveOK DEF Carries

\* The channel as a record, its two ends and its life at each.
LEMMA ChannelFacts ==
  ASSUME LifeInv, NEW c \in Channels
  PROVE  /\ chan[c] \in Channel
         /\ chan[c] = [from |-> chan[c].from, at |-> chan[c].at, peer |-> chan[c].peer,
                       verdict |-> chan[c].verdict]
         /\ chan[c].from \in Ends /\ Peer(c) \in Ends /\ Peer(c) # chan[c].from
         /\ Other(Peer(c)) = chan[c].from /\ Other(chan[c].from) = Peer(c)
         /\ chan[c].at = "idle" => chan[c].peer = "idle"
<1>1. chan[c] \in Channel
  BY Zenon, LifeTypes DEF LifeInv, EndsOK
<1>2. chan[c].from \in Ends
  BY Zenon, <1>1 DEF Channel
<1>3. /\ Peer(c) \in Ends /\ Peer(c) # chan[c].from
      /\ Other(Peer(c)) = chan[c].from /\ Other(chan[c].from) = Peer(c)
  BY Zenon, <1>2 DEF Peer, Other, Ends
<1> QED
  BY Zenon, <1>1, <1>2, <1>3 DEF LifeInv, EndsOK, Channel

\* A rejection releases the pending channel.
LEMMA RejectCounts ==
  ASSUME LifeInv, NEW c \in Channels, Reject(c)
  PROVE  LifeInv' /\ StatusKept
<1>1. closing' = closing
  BY Zenon DEF Reject, Elsewhere
<1>2. PICK x : x = [chan[c] EXCEPT !.peer = "done", !.verdict = "err"]
  BY Zenon
<1>3. Move(c, Peer(c), release_pending(life[Peer(c)]), x)
  BY Zenon, <1>2 DEF Reject
<1>4. x.from = chan[c].from /\ x.at = chan[c].at /\ x.peer = "done" /\ x.verdict = "err"
  BY <1>2, ChannelFacts
<1>5. x \in Channel
  BY Zenon, <1>2, ChannelFacts DEF Channel, Reject
<1>6. UseAt(chan[c], Peer(c)) = "pending" /\ UseAt(x, Peer(c)) = "none"
  BY Zenon, <1>4, ChannelFacts DEF UseAt, Reject
<1>7. UseAt(x, Other(Peer(c))) = UseAt(chan[c], Other(Peer(c)))
  BY Zenon, <1>4, ChannelFacts DEF UseAt, Reject
<1>8. x.at = "idle" => x.peer = "idle"
  BY Zenon, <1>4, ChannelFacts DEF Reject
<1>9. Carries(release_pending(life[Peer(c)]), life[Peer(c)], timers[Peer(c)], closing[Peer(c)], "pending", "none")
  BY Zenon, ChannelFacts, LifeTypes, ReleaseCarries DEF Reject
<1> QED
  BY Zenon, <1>1, <1>3, <1>5, <1>6, <1>7, <1>8, <1>9, ChannelFacts, CarryOK

\* A failed handshake releases the pending channel.
LEMMA PeerFailsCounts ==
  ASSUME LifeInv, NEW c \in Channels, PeerFails(c)
  PROVE  LifeInv' /\ StatusKept
<1>1. closing' = closing
  BY Zenon DEF PeerFails, Elsewhere
<1>2. PICK x : x = [chan[c] EXCEPT !.peer = "done"]
  BY Zenon
<1>3. Move(c, Peer(c), release_pending(life[Peer(c)]), x)
  BY Zenon, <1>2 DEF PeerFails
<1>4. x.from = chan[c].from /\ x.at = chan[c].at /\ x.peer = "done" /\ x.verdict = chan[c].verdict
  BY <1>2, ChannelFacts
<1>5. x \in Channel
  BY Zenon, <1>2, ChannelFacts DEF Channel, PeerFails
<1>6. UseAt(chan[c], Peer(c)) = "pending" /\ UseAt(x, Peer(c)) = "none"
  BY Zenon, <1>4, ChannelFacts DEF UseAt, PeerFails
<1>7. UseAt(x, Other(Peer(c))) = UseAt(chan[c], Other(Peer(c)))
  BY Zenon, <1>4, ChannelFacts DEF UseAt, PeerFails
<1>8. x.at = "idle" => x.peer = "idle"
  BY Zenon, <1>4, ChannelFacts DEF PeerFails
<1>9. Carries(release_pending(life[Peer(c)]), life[Peer(c)], timers[Peer(c)], closing[Peer(c)], "pending", "none")
  BY Zenon, ChannelFacts, LifeTypes, ReleaseCarries DEF PeerFails
<1> QED
  BY Zenon, <1>1, <1>3, <1>5, <1>6, <1>7, <1>8, <1>9, ChannelFacts, CarryOK

\* The accepted channel becomes a lease of an open end.
LEMMA PeerActiveCounts ==
  ASSUME LifeInv, NEW c \in Channels, PeerActive(c)
  PROVE  LifeInv' /\ StatusKept
<1>1. closing' = closing
  BY Zenon DEF PeerActive, Elsewhere
<1>2. PICK x : x = [chan[c] EXCEPT !.peer = IF is_open(life[Peer(c)]) THEN "leased" ELSE "done"]
  BY Zenon
<1>3. Move(c, Peer(c), pending_to_active(life[Peer(c)]), x)
  BY Zenon, <1>2 DEF PeerActive
<1>4. x.from = chan[c].from /\ x.at = chan[c].at /\ x.peer = (IF is_open(life[Peer(c)]) THEN "leased" ELSE "done") /\ x.verdict = chan[c].verdict
  BY <1>2, ChannelFacts
<1>5. x \in Channel
  BY Zenon, <1>2, ChannelFacts DEF Channel, PeerActive
<1>6. UseAt(chan[c], Peer(c)) = "pending" /\ UseAt(x, Peer(c)) = (IF is_open(life[Peer(c)]) THEN "active" ELSE "none")
  BY Zenon, <1>4, ChannelFacts DEF UseAt, PeerActive
<1>7. UseAt(x, Other(Peer(c))) = UseAt(chan[c], Other(Peer(c)))
  BY Zenon, <1>4, ChannelFacts DEF UseAt, PeerActive
<1>8. x.at = "idle" => x.peer = "idle"
  BY Zenon, <1>4, ChannelFacts DEF PeerActive
<1>9. Carries(pending_to_active(life[Peer(c)]), life[Peer(c)], timers[Peer(c)], closing[Peer(c)], "pending", (IF is_open(life[Peer(c)]) THEN "active" ELSE "none"))
  BY Zenon, ChannelFacts, LifeTypes, ActivateCarries DEF PeerActive
<1> QED
  BY Zenon, <1>1, <1>3, <1>5, <1>6, <1>7, <1>8, <1>9, ChannelFacts, CarryOK

\* The opener gives up.
LEMMA OpenTimeoutCounts ==
  ASSUME LifeInv, NEW c \in Channels, OpenTimeout(c)
  PROVE  LifeInv' /\ StatusKept
<1>1. closing' = closing
  BY Zenon DEF OpenTimeout, Elsewhere
<1>2. PICK x : x = [chan[c] EXCEPT !.at = "done"]
  BY Zenon
<1>3. Move(c, chan[c].from, release_pending(life[chan[c].from]), x)
  BY Zenon, <1>2 DEF OpenTimeout
<1>4. x.from = chan[c].from /\ x.at = "done" /\ x.peer = chan[c].peer /\ x.verdict = chan[c].verdict
  BY <1>2, ChannelFacts
<1>5. x \in Channel
  BY Zenon, <1>2, ChannelFacts DEF Channel, OpenTimeout
<1>6. UseAt(chan[c], chan[c].from) = "pending" /\ UseAt(x, chan[c].from) = "none"
  BY Zenon, <1>4, ChannelFacts DEF UseAt, OpenTimeout
<1>7. UseAt(x, Other(chan[c].from)) = UseAt(chan[c], Other(chan[c].from))
  BY Zenon, <1>4, ChannelFacts DEF UseAt, OpenTimeout
<1>8. x.at = "idle" => x.peer = "idle"
  BY Zenon, <1>4, ChannelFacts DEF OpenTimeout
<1>9. Carries(release_pending(life[chan[c].from]), life[chan[c].from], timers[chan[c].from], closing[chan[c].from], "pending", "none")
  BY Zenon, ChannelFacts, LifeTypes, ReleaseCarries DEF OpenTimeout
<1> QED
  BY Zenon, <1>1, <1>3, <1>5, <1>6, <1>7, <1>8, <1>9, ChannelFacts, CarryOK

\* The opener drops its lease.
LEMMA OpenerDropsCounts ==
  ASSUME LifeInv, NEW c \in Channels, OpenerDrops(c)
  PROVE  LifeInv' /\ StatusKept
<1>1. closing' = closing
  BY Zenon DEF OpenerDrops, Elsewhere
<1>2. PICK x : x = [chan[c] EXCEPT !.at = "done"]
  BY Zenon
<1>3. Move(c, chan[c].from, release_active(life[chan[c].from]), x)
  BY Zenon, <1>2 DEF OpenerDrops
<1>4. x.from = chan[c].from /\ x.at = "done" /\ x.peer = chan[c].peer /\ x.verdict = chan[c].verdict
  BY <1>2, ChannelFacts
<1>5. x \in Channel
  BY Zenon, <1>2, ChannelFacts DEF Channel, OpenerDrops
<1>6. UseAt(chan[c], chan[c].from) = "active" /\ UseAt(x, chan[c].from) = "none"
  BY Zenon, <1>4, ChannelFacts DEF UseAt, OpenerDrops
<1>7. UseAt(x, Other(chan[c].from)) = UseAt(chan[c], Other(chan[c].from))
  BY Zenon, <1>4, ChannelFacts DEF UseAt, OpenerDrops
<1>8. x.at = "idle" => x.peer = "idle"
  BY Zenon, <1>4, ChannelFacts DEF OpenerDrops
<1>9. Carries(release_active(life[chan[c].from]), life[chan[c].from], timers[chan[c].from], closing[chan[c].from], "active", "none")
  BY Zenon, ChannelFacts, LifeTypes, DropCarries DEF OpenerDrops
<1> QED
  BY Zenon, <1>1, <1>3, <1>5, <1>6, <1>7, <1>8, <1>9, ChannelFacts, CarryOK

\* The other end drops its lease.
LEMMA PeerDropsCounts ==
  ASSUME LifeInv, NEW c \in Channels, PeerDrops(c)
  PROVE  LifeInv' /\ StatusKept
<1>1. closing' = closing
  BY Zenon DEF PeerDrops, Elsewhere
<1>2. PICK x : x = [chan[c] EXCEPT !.peer = "done"]
  BY Zenon
<1>3. Move(c, Peer(c), release_active(life[Peer(c)]), x)
  BY Zenon, <1>2 DEF PeerDrops
<1>4. x.from = chan[c].from /\ x.at = chan[c].at /\ x.peer = "done" /\ x.verdict = chan[c].verdict
  BY <1>2, ChannelFacts
<1>5. x \in Channel
  BY Zenon, <1>2, ChannelFacts DEF Channel, PeerDrops
<1>6. UseAt(chan[c], Peer(c)) = "active" /\ UseAt(x, Peer(c)) = "none"
  BY Zenon, <1>4, ChannelFacts DEF UseAt, PeerDrops
<1>7. UseAt(x, Other(Peer(c))) = UseAt(chan[c], Other(Peer(c)))
  BY Zenon, <1>4, ChannelFacts DEF UseAt, PeerDrops
<1>8. x.at = "idle" => x.peer = "idle"
  BY Zenon, <1>4, ChannelFacts DEF PeerDrops
<1>9. Carries(release_active(life[Peer(c)]), life[Peer(c)], timers[Peer(c)], closing[Peer(c)], "active", "none")
  BY Zenon, ChannelFacts, LifeTypes, DropCarries DEF PeerDrops
<1> QED
  BY Zenon, <1>1, <1>3, <1>5, <1>6, <1>7, <1>8, <1>9, ChannelFacts, CarryOK

\* An open begins a pending channel.
LEMMA OpenChannelCounts ==
  ASSUME LifeInv, NEW c \in Channels, NEW e \in Ends, OpenChannel(c, e)
  PROVE  LifeInv' /\ StatusKept
<1>1. closing' = closing
  BY Zenon DEF OpenChannel, Elsewhere
<1>2. PICK x : x = [chan[c] EXCEPT !.from = e, !.at = "asking"]
  BY Zenon
<1>3. Move(c, e, begin_pending(life[e]), x)
  BY Zenon, <1>2 DEF OpenChannel
<1>4. x.from = e /\ x.at = "asking" /\ x.peer = chan[c].peer /\ x.verdict = chan[c].verdict
  BY <1>2, ChannelFacts
<1>5. x \in Channel
  BY Zenon, <1>2, ChannelFacts DEF Channel, OpenChannel
<1>6. UseAt(chan[c], e) = "none" /\ UseAt(x, e) = "pending"
  BY Zenon, <1>4, ChannelFacts DEF UseAt, OpenChannel
<1>7. UseAt(x, Other(e)) = UseAt(chan[c], Other(e))
  <2>1. Other(e) # e
    BY Zenon DEF Other, Ends
  <2>2. chan[c].at = "idle" /\ chan[c].peer = "idle" /\ x.peer = "idle"
    BY Zenon, <1>4, ChannelFacts DEF OpenChannel
  <2> QED
    BY Zenon, <2>1, <2>2, <1>4 DEF UseAt
<1>8. x.at = "idle" => x.peer = "idle"
  BY Zenon, <1>4, ChannelFacts DEF OpenChannel
<1>9. Carries(begin_pending(life[e]), life[e], timers[e], closing[e], "none", "pending")
  BY Zenon, ChannelFacts, LifeTypes, BeginCarries DEF OpenChannel
<1> QED
  BY Zenon, <1>1, <1>3, <1>5, <1>6, <1>7, <1>8, <1>9, ChannelFacts, CarryOK

\* A channel changes and no lifecycle does.
LEMMA ChannelOnly ==
  ASSUME LifeInv, NEW c \in Channels, NEW x \in Channel, chan' = [chan EXCEPT ![c] = x],
         life' = life, timers' = timers, closing' = closing,
         \A e \in Ends : UseAt(x, e) = UseAt(chan[c], e),
         x.at = "idle" => x.peer = "idle"
  PROVE  LifeInv' /\ StatusKept
<1>1. chan' \in [Channels -> Channel]
  BY Zenon, LifeTypes DEF LifeInv, EndsOK
<1>2. \A d \in Channels : chan'[d].at = "idle" => chan'[d].peer = "idle"
  BY Zenon DEF LifeInv, EndsOK
<1>3. \A e \in Ends : CountOK(life[e], closing[e], [chan EXCEPT ![c] = x], e)
  BY Zenon, CountsKept
<1>4. StatusKept
  BY Zenon DEF StatusKept
<1> QED
  BY Zenon, <1>1, <1>2, <1>3, <1>4 DEF LifeInv, EndsOK

\* A request is queued at an open end that is registered, and refused else.
LEMMA DispatchCounts ==
  ASSUME LifeInv, NEW c \in Channels, Dispatch(c)
  PROVE  LifeInv' /\ StatusKept
<1>1. closing' = closing
  BY Zenon DEF Dispatch, Elsewhere
<1>2. CASE registered[Peer(c)] /\ is_open(life[Peer(c)])
  <2>1. PICK x : x = [chan[c] EXCEPT !.peer = "queued"]
    BY Zenon
  <2>2. Move(c, Peer(c), [life[Peer(c)] EXCEPT !.queued = @ + 1], x)
    BY Zenon, <2>1, <1>2 DEF Dispatch
  <2>3. x.from = chan[c].from /\ x.at = chan[c].at /\ x.peer = "queued" /\ x.verdict = chan[c].verdict
    BY <2>1, ChannelFacts
  <2>4. x \in Channel
    BY Zenon, <2>1, ChannelFacts DEF Channel
  <2>5. UseAt(chan[c], Peer(c)) = "none" /\ UseAt(x, Peer(c)) = "queued"
    BY Zenon, <2>3, ChannelFacts DEF UseAt, Dispatch
  <2>6. UseAt(x, Other(Peer(c))) = UseAt(chan[c], Other(Peer(c)))
    BY Zenon, <2>3, ChannelFacts DEF UseAt, Dispatch
  <2>7. x.at = "idle" => x.peer = "idle"
    BY Zenon, <2>3, ChannelFacts DEF Dispatch
  <2>8. Carries([life[Peer(c)] EXCEPT !.queued = @ + 1], life[Peer(c)], timers[Peer(c)], closing[Peer(c)], "none", "queued")
    BY Zenon, <1>2, ChannelFacts, LifeTypes, QueueCarries
  <2> QED
    BY Zenon, <1>1, <2>2, <2>4, <2>5, <2>6, <2>7, <2>8, ChannelFacts, CarryOK
<1>3. CASE ~(registered[Peer(c)] /\ is_open(life[Peer(c)]))
  <2>1. PICK x : x = [chan[c] EXCEPT !.peer = "done", !.verdict = "err"]
    BY Zenon
  <2>2. /\ chan' = [chan EXCEPT ![c] = x]
        /\ life' = life /\ timers' = timers
    BY Zenon, <2>1, <1>3, LifeTypes, ChannelFacts DEF Dispatch
  <2>3. x.from = chan[c].from /\ x.at = chan[c].at /\ x.peer = "done" /\ x.verdict = "err"
    BY <2>1, ChannelFacts
  <2>4. x \in Channel
    BY Zenon, <2>1, ChannelFacts DEF Channel
  <2>5. ASSUME NEW e \in Ends PROVE UseAt(x, e) = UseAt(chan[c], e)
    BY Zenon, <2>3, ChannelFacts DEF UseAt, Dispatch
  <2>6. x.at = "idle" => x.peer = "idle"
    BY Zenon, <2>3, ChannelFacts DEF Dispatch
  <2> QED
    BY Zenon, <1>1, <2>2, <2>4, <2>5, <2>6, ChannelOnly
<1> QED
  BY Zenon, <1>2, <1>3

\* The answer changes no count.
LEMMA RespondCounts ==
  ASSUME LifeInv, NEW c \in Channels, Respond(c)
  PROVE  LifeInv' /\ StatusKept
<1>1. closing' = closing
  BY Zenon DEF Respond, Elsewhere
<1>2. CASE TRUE
  <2>1. PICK x : x = [chan[c] EXCEPT !.peer = "securing", !.verdict = "ok"]
    BY Zenon
  <2>2. /\ chan' = [chan EXCEPT ![c] = x]
        /\ life' = life /\ timers' = timers
    BY Zenon, <2>1, <1>2, LifeTypes, ChannelFacts DEF Respond
  <2>3. x.from = chan[c].from /\ x.at = chan[c].at /\ x.peer = "securing" /\ x.verdict = "ok"
    BY <2>1, ChannelFacts
  <2>4. x \in Channel
    BY Zenon, <2>1, ChannelFacts DEF Channel
  <2>5. ASSUME NEW e \in Ends PROVE UseAt(x, e) = UseAt(chan[c], e)
    BY Zenon, <2>3, ChannelFacts DEF UseAt, Respond
  <2>6. x.at = "idle" => x.peer = "idle"
    BY Zenon, <2>3, ChannelFacts DEF Respond
  <2> QED
    BY Zenon, <1>1, <2>2, <2>4, <2>5, <2>6, ChannelOnly
<1> QED
  BY Zenon, <1>2

\* The lease goes to the callback, or is dropped.
LEMMA HandOverCounts ==
  ASSUME LifeInv, NEW c \in Channels, HandOver(c)
  PROVE  LifeInv' /\ StatusKept
<1>1. closing' = closing
  BY Zenon DEF HandOver, Elsewhere
<1>2. CASE ~Closed(Peer(c)) /\ callback[Peer(c)]
  <2>1. PICK x : x = [chan[c] EXCEPT !.peer = "held"]
    BY Zenon
  <2>2. /\ chan' = [chan EXCEPT ![c] = x]
        /\ life' = life /\ timers' = timers
    BY Zenon, <2>1, <1>2, LifeTypes, ChannelFacts DEF HandOver
  <2>3. x.from = chan[c].from /\ x.at = chan[c].at /\ x.peer = "held" /\ x.verdict = chan[c].verdict
    BY <2>1, ChannelFacts
  <2>4. x \in Channel
    BY Zenon, <2>1, ChannelFacts DEF Channel
  <2>5. ASSUME NEW e \in Ends PROVE UseAt(x, e) = UseAt(chan[c], e)
    BY Zenon, <2>3, ChannelFacts DEF UseAt, HandOver
  <2>6. x.at = "idle" => x.peer = "idle"
    BY Zenon, <2>3, ChannelFacts DEF HandOver
  <2> QED
    BY Zenon, <1>1, <2>2, <2>4, <2>5, <2>6, ChannelOnly
<1>3. CASE ~(~Closed(Peer(c)) /\ callback[Peer(c)])
  <2>1. PICK x : x = [chan[c] EXCEPT !.peer = "done"]
    BY Zenon
  <2>2. Move(c, Peer(c), release_active(life[Peer(c)]), x)
    BY Zenon, <2>1, <1>3 DEF HandOver
  <2>3. x.from = chan[c].from /\ x.at = chan[c].at /\ x.peer = "done" /\ x.verdict = chan[c].verdict
    BY <2>1, ChannelFacts
  <2>4. x \in Channel
    BY Zenon, <2>1, ChannelFacts DEF Channel
  <2>5. UseAt(chan[c], Peer(c)) = "active" /\ UseAt(x, Peer(c)) = "none"
    BY Zenon, <2>3, ChannelFacts DEF UseAt, HandOver
  <2>6. UseAt(x, Other(Peer(c))) = UseAt(chan[c], Other(Peer(c)))
    BY Zenon, <2>3, ChannelFacts DEF UseAt, HandOver
  <2>7. x.at = "idle" => x.peer = "idle"
    BY Zenon, <2>3, ChannelFacts DEF HandOver
  <2>8. Carries(release_active(life[Peer(c)]), life[Peer(c)], timers[Peer(c)], closing[Peer(c)], "active", "none")
    BY Zenon, <1>3, ChannelFacts, LifeTypes, DropCarries
  <2> QED
    BY Zenon, <1>1, <2>2, <2>4, <2>5, <2>6, <2>7, <2>8, ChannelFacts, CarryOK
<1> QED
  BY Zenon, <1>2, <1>3

\* The opener holds the channel, or has been refused.
LEMMA AnsweredCounts ==
  ASSUME LifeInv, NEW c \in Channels, Answered(c)
  PROVE  LifeInv' /\ StatusKept
<1>1. closing' = closing
  BY Zenon DEF Answered, Elsewhere
<1>2. CASE chan[c].verdict = "ok"
  <2>1. PICK x : x = [chan[c] EXCEPT !.at = IF is_open(life[chan[c].from]) THEN "held" ELSE "done"]
    BY Zenon
  <2>2. Move(c, chan[c].from, pending_to_active(life[chan[c].from]), x)
    BY Zenon, <2>1, <1>2 DEF Answered
  <2>3. x.from = chan[c].from /\ x.at = (IF is_open(life[chan[c].from]) THEN "held" ELSE "done") /\ x.peer = chan[c].peer /\ x.verdict = chan[c].verdict
    BY <2>1, ChannelFacts
  <2>4. x \in Channel
    BY Zenon, <2>1, ChannelFacts DEF Channel
  <2>5. UseAt(chan[c], chan[c].from) = "pending" /\ UseAt(x, chan[c].from) = (IF is_open(life[chan[c].from]) THEN "active" ELSE "none")
    BY Zenon, <2>3, ChannelFacts DEF UseAt, Answered
  <2>6. UseAt(x, Other(chan[c].from)) = UseAt(chan[c], Other(chan[c].from))
    BY Zenon, <2>3, ChannelFacts DEF UseAt, Answered
  <2>7. x.at = "idle" => x.peer = "idle"
    BY Zenon, <2>3, ChannelFacts DEF Answered
  <2>8. Carries(pending_to_active(life[chan[c].from]), life[chan[c].from], timers[chan[c].from], closing[chan[c].from], "pending", (IF is_open(life[chan[c].from]) THEN "active" ELSE "none"))
    BY Zenon, <1>2, ChannelFacts, LifeTypes, ActivateCarries
  <2> QED
    BY Zenon, <1>1, <2>2, <2>4, <2>5, <2>6, <2>7, <2>8, ChannelFacts, CarryOK
<1>3. CASE chan[c].verdict # "ok"
  <2>1. PICK x : x = [chan[c] EXCEPT !.at = "done"]
    BY Zenon
  <2>2. Move(c, chan[c].from, release_pending(life[chan[c].from]), x)
    BY Zenon, <2>1, <1>3 DEF Answered
  <2>3. x.from = chan[c].from /\ x.at = "done" /\ x.peer = chan[c].peer /\ x.verdict = chan[c].verdict
    BY <2>1, ChannelFacts
  <2>4. x \in Channel
    BY Zenon, <2>1, ChannelFacts DEF Channel
  <2>5. UseAt(chan[c], chan[c].from) = "pending" /\ UseAt(x, chan[c].from) = "none"
    BY Zenon, <2>3, ChannelFacts DEF UseAt, Answered
  <2>6. UseAt(x, Other(chan[c].from)) = UseAt(chan[c], Other(chan[c].from))
    BY Zenon, <2>3, ChannelFacts DEF UseAt, Answered
  <2>7. x.at = "idle" => x.peer = "idle"
    BY Zenon, <2>3, ChannelFacts DEF Answered
  <2>8. Carries(release_pending(life[chan[c].from]), life[chan[c].from], timers[chan[c].from], closing[chan[c].from], "pending", "none")
    BY Zenon, <1>3, ChannelFacts, LifeTypes, ReleaseCarries
  <2> QED
    BY Zenon, <1>1, <2>2, <2>4, <2>5, <2>6, <2>7, <2>8, ChannelFacts, CarryOK
<1> QED
  BY Zenon, <1>2, <1>3

\* A queued channel that ends by itself, which its closed end has forgotten.
LEMMA QueuedForgotten ==
  ASSUME LifeInv, NEW c \in Channels, NEW x \in Channel, NEW e \in Ends,
         closing[e] # "no", UseAt(chan[c], e) = "queued", UseAt(x, e) = "none"
  PROVE  CountOK(life[e], closing[e], [chan EXCEPT ![c] = x], e)
<1>1. \A w \in {"pending", "active"} :
         Cardinality(Members([chan EXCEPT ![c] = x], e, w)) = Cardinality(Members(chan, e, w))
  BY LifeTypes, Recount DEF Joins
<1> QED
  BY Zenon, <1>1, LifeTypes DEF CountOK

\* An end that is alive has a queued count for every queued channel.
LEMMA QueuedIsCounted ==
  ASSUME LifeInv, NEW c \in Channels, NEW e \in Ends, UseAt(chan[c], e) = "queued",
         ~is_open(life[e])
  PROVE  closing[e] # "no"
<1>1. PICK S : S = Members(chan, e, "queued")
  BY Zenon
<1>2. IsFiniteSet(S) /\ c \in S
  BY Zenon, <1>1, PnAssumption, FS_Subset DEF Members
<1>3. Cardinality(S) # 0
  BY Zenon, <1>2, FS_EmptySet
<1>4. life[e].queued = 0
  BY Zenon, LifeTypes DEF EndOK, is_open
<1> QED
  BY Zenon, <1>1, <1>3, <1>4, LifeTypes DEF CountOK

\* A queued channel is accepted at an open end; a closed one drops it.
LEMMA AcceptCounts ==
  ASSUME LifeInv, NEW c \in Channels, Accept(c)
  PROVE  LifeInv' /\ StatusKept
<1>1. closing' = closing
  BY Zenon DEF Accept, Elsewhere
<1>2. CASE is_open(life[Peer(c)])
  <2>1. PICK x : x = [chan[c] EXCEPT !.peer = IF vports[Peer(c)] THEN "accepting" ELSE "rejecting"]
    BY Zenon
  <2>2. Move(c, Peer(c), queued_to_pending(life[Peer(c)]), x)
    BY Zenon, <2>1, <1>2 DEF Accept
  <2>3. /\ x.from = chan[c].from /\ x.at = chan[c].at /\ x.verdict = chan[c].verdict
        /\ x.peer \in {"accepting", "rejecting"}
    BY <2>1, ChannelFacts
  <2>4. x \in Channel
    BY Zenon, <2>1, ChannelFacts DEF Channel
  <2>5. UseAt(chan[c], Peer(c)) = "queued" /\ UseAt(x, Peer(c)) = "pending"
    BY Zenon, <2>3, ChannelFacts DEF UseAt, Accept
  <2>6. UseAt(x, Other(Peer(c))) = UseAt(chan[c], Other(Peer(c)))
    BY Zenon, <2>3, ChannelFacts DEF UseAt, Accept
  <2>7. x.at = "idle" => x.peer = "idle"
    BY Zenon, <2>3, ChannelFacts DEF Accept
  <2>8. Carries(queued_to_pending(life[Peer(c)]), life[Peer(c)], timers[Peer(c)],
                closing[Peer(c)], "queued", "pending")
    BY Zenon, <1>2, ChannelFacts, LifeTypes, AcceptCarries
  <2> QED
    BY Zenon, <1>1, <2>2, <2>4, <2>5, <2>6, <2>7, <2>8, ChannelFacts, CarryOK
<1>3. CASE ~is_open(life[Peer(c)])
  <2>1. PICK x : x = [chan[c] EXCEPT !.peer = "done", !.verdict = "err"]
    BY Zenon
  <2>2. /\ chan' = [chan EXCEPT ![c] = x]
        /\ life' = life /\ timers' = timers
    BY Zenon, <2>1, <1>3, LifeTypes, ChannelFacts DEF Accept
  <2>3. x.from = chan[c].from /\ x.at = chan[c].at /\ x.peer = "done" /\ x.verdict = "err"
    BY <2>1, ChannelFacts
  <2>4. x \in Channel
    BY Zenon, <2>1, ChannelFacts DEF Channel
  <2>5. UseAt(chan[c], Peer(c)) = "queued" /\ UseAt(x, Peer(c)) = "none"
    BY Zenon, <2>3, ChannelFacts DEF UseAt, Accept
  <2>6. closing[Peer(c)] # "no"
    BY Zenon, <2>5, <1>3, ChannelFacts, QueuedIsCounted
  <2>7. CountOK(life[Peer(c)], closing[Peer(c)], chan', Peer(c))
    BY Zenon, <2>2, <2>4, <2>5, <2>6, ChannelFacts, QueuedForgotten
  <2>8. UseAt(x, chan[c].from) = UseAt(chan[c], chan[c].from)
    BY Zenon, <2>3 DEF UseAt
  <2>9. CountOK(life[chan[c].from], closing[chan[c].from], chan', chan[c].from)
    BY Zenon, <2>2, <2>4, <2>8, ChannelFacts, CountsKept
  <2>10. \A e \in Ends : e = Peer(c) \/ e = chan[c].from
    BY Zenon, ChannelFacts DEF Ends
  <2>11. \A e \in Ends : CountOK(life[e], closing[e], chan', e)
    BY Zenon, <2>7, <2>9, <2>10
  <2>12. chan' \in [Channels -> Channel]
    BY Zenon, <2>2, <2>4, LifeTypes DEF LifeInv, EndsOK
  <2>13. \A d \in Channels : chan'[d].at = "idle" => chan'[d].peer = "idle"
    <3>1. chan[c].at # "idle"
      BY Zenon, ChannelFacts DEF Accept
    <3> QED
      BY Zenon, <3>1, <2>2, <2>3 DEF LifeInv, EndsOK
  <2>14. StatusKept
    BY Zenon, <2>2 DEF StatusKept
  <2> QED
    BY Zenon, <1>1, <2>2, <2>11, <2>12, <2>13, <2>14 DEF LifeInv, EndsOK
<1> QED
  BY Zenon, <1>2, <1>3

\* Every step of a channel.
LEMMA ChannelStepCounts ==
  ASSUME LifeInv, NEW c \in Channels, ChannelStep(c)
  PROVE  LifeInv' /\ StatusKept
BY Zenon, OpenChannelCounts, DispatchCounts, AcceptCounts, RejectCounts, RespondCounts,
   PeerFailsCounts, PeerActiveCounts, HandOverCounts, AnsweredCounts, OpenTimeoutCounts,
   OpenerDropsCounts, PeerDropsCounts DEF ChannelStep

LifeUnchanged == life' = life /\ timers' = timers /\ closing' = closing /\ chan' = chan

\* A step that leaves the lifecycles and the channels alone.
LEMMA LifeUnchangedOK ==
  ASSUME LifeInv, LifeUnchanged
  PROVE  LifeInv'
BY Zenon DEF LifeInv, LifeUnchanged

\* close_lifecycle_locked; the sleeping idle checks of a closed end do not matter.
LEMMA CloseCounts ==
  ASSUME LifeInv, NEW e \in Ends, NEW why, NEW t \in SUBSET Nat, close_lifecycle_locked(e, why),
         timers' = [timers EXCEPT ![e] = t], chan' = chan
  PROVE  LifeInv' /\ \A f \in Ends : f # e => life'[f] = life[f] /\ closing'[f] = closing[f]
<1>1. life[e] = [status |-> life[e].status, active |-> life[e].active,
                 pending |-> life[e].pending, queued |-> life[e].queued,
                 zero |-> life[e].zero, gen |-> life[e].gen]
  BY Zenon, LifeTypes DEF Life
<1>2. CASE Closed(e)
  <2>1. life' = [life EXCEPT ![e] = life[e]] /\ closing' = [closing EXCEPT ![e] = closing[e]]
    BY Zenon, <1>2, LifeTypes DEF close_lifecycle_locked
  <2>2. EndOK(life[e], t, closing[e])
    BY Zenon, <1>2, LifeTypes DEF EndOK, Closed
  <2>3. closing[e] \in {"no", "local", "control", "done"}
    BY Zenon, LifeTypes
  <2>4. LifeInv'
    BY Zenon, <2>1, <2>2, <2>3, LifeTypes, ReplaceEnd
  <2> QED
    BY <2>1, <2>4
<1>3. CASE ~Closed(e)
  <2>1. PICK g \in Nat : g = life[e].gen + 1
    BY LifeTypes DEF Life
  <2>2. PICK n : n = [life[e] EXCEPT !.status = "Closing", !.queued = 0, !.zero = FALSE, !.gen = g]
    BY Zenon
  <2>3. life' = [life EXCEPT ![e] = n] /\ closing' = [closing EXCEPT ![e] = "local"]
    BY Zenon, <1>3, <2>1, <2>2, LifeTypes DEF close_lifecycle_locked
  <2>4. /\ n \in Life /\ n.status = "Closing" /\ n.queued = 0
        /\ n.pending = life[e].pending /\ n.active = life[e].active
    BY Zenon, <2>2, <1>1, LifeTypes DEF Life
  <2>5. EndOK(n, t, "local")
    BY Zenon, <2>4 DEF EndOK
  <2>6. CountOK(n, "local", chan, e)
    BY Zenon, <2>4, LifeTypes DEF CountOK
  <2>7. LifeInv'
    BY Zenon, <2>3, <2>4, <2>5, <2>6, ReplaceEnd
  <2> QED
    BY <2>3, <2>7
<1> QED
  BY Zenon, <1>2, <1>3

\* The same, for the operations that do not touch the idle checks.
LEMMA CloseCountsOnly ==
  ASSUME LifeInv, NEW e \in Ends, NEW why, close_lifecycle_locked(e, why),
         timers' = timers, chan' = chan
  PROVE  LifeInv' /\ \A f \in Ends : f # e => life'[f] = life[f] /\ closing'[f] = closing[f]
<1>1. timers' = [timers EXCEPT ![e] = timers[e]]
  BY Zenon, LifeTypes
<1> QED
  BY Zenon, <1>1, LifeTypes, CloseCounts

\* An end starts, with nothing counted.
LEMMA StartCounts ==
  ASSUME LifeInv, NEW e \in Ends, life[e].status = "absent", closing[e] = "no",
         life' = [life EXCEPT ![e] = NewLife("OpeningControl")],
         timers' = timers, closing' = closing, chan' = chan
  PROVE  LifeInv'
<1>1. PICK n : n = NewLife("OpeningControl")
  BY Zenon
<1>2. /\ n \in Life /\ n.status = "OpeningControl" /\ n.queued = 0 /\ n.pending = 0
      /\ n.active = 0 /\ n.zero = FALSE
  BY Zenon, <1>1 DEF NewLife, Life
<1>3. EndOK(n, timers[e], "no")
  BY Zenon, <1>2 DEF EndOK
<1>4. CountOK(n, "no", chan, e)
  BY Zenon, <1>2, LifeTypes DEF CountOK, EndOK
<1>5. timers' = [timers EXCEPT ![e] = timers[e]] /\ closing' = [closing EXCEPT ![e] = "no"]
  BY Zenon, LifeTypes
<1> QED
  BY Zenon, <1>1, <1>2, <1>3, <1>4, <1>5, LifeTypes, ReplaceEnd

\* finish_close_local of an end that is closing.
LEMMA FinishLocalCounts ==
  ASSUME LifeInv, NEW e \in Ends, FinishLocal(e)
  PROVE  LifeInv'
<1>1. life[e] = [status |-> life[e].status, active |-> life[e].active,
                 pending |-> life[e].pending, queued |-> life[e].queued,
                 zero |-> life[e].zero, gen |-> life[e].gen]
  BY Zenon, LifeTypes DEF Life
<1>2. PICK n : n = [life[e] EXCEPT !.status = "Closed"]
  BY Zenon
<1>3. /\ life' = [life EXCEPT ![e] = n] /\ closing' = [closing EXCEPT ![e] = "control"]
      /\ timers' = [timers EXCEPT ![e] = timers[e]] /\ chan' = chan
  BY Zenon, <1>2, LifeTypes DEF FinishLocal
<1>4. /\ n \in Life /\ n.status = "Closed" /\ n.queued = life[e].queued
      /\ n.pending = life[e].pending /\ n.active = life[e].active
  BY Zenon, <1>1, <1>2, LifeTypes DEF Life
<1>5. life[e].queued = 0
  BY Zenon, LifeTypes DEF EndOK, FinishLocal
<1>6. EndOK(n, timers[e], "control") /\ CountOK(n, "control", chan, e)
  BY Zenon, <1>4, <1>5, LifeTypes DEF EndOK, CountOK
<1> QED
  BY Zenon, <1>3, <1>4, <1>6, LifeTypes, ReplaceEnd

\* close_control_channel changes no lifecycle.
LEMMA CloseControlCounts ==
  ASSUME LifeInv, NEW e \in Ends, CloseControl(e)
  PROVE  LifeInv'
<1>1. /\ life' = [life EXCEPT ![e] = life[e]] /\ closing' = [closing EXCEPT ![e] = "done"]
      /\ timers' = [timers EXCEPT ![e] = timers[e]] /\ chan' = chan
  BY Zenon, LifeTypes DEF CloseControl
<1>2. EndOK(life[e], timers[e], "done") /\ CountOK(life[e], "done", chan, e)
  BY Zenon, LifeTypes DEF EndOK, CountOK, CloseControl
<1> QED
  BY Zenon, <1>1, <1>2, LifeTypes, ReplaceEnd

\* try_retire_idle takes an end that has no channel.
LEMMA RetireCounts ==
  ASSUME LifeInv, NEW e \in Ends, Retire(e)
  PROVE  LifeInv'
<1>1. life[e] = [status |-> life[e].status, active |-> life[e].active,
                 pending |-> life[e].pending, queued |-> life[e].queued,
                 zero |-> life[e].zero, gen |-> life[e].gen]
  BY Zenon, LifeTypes DEF Life
<1>2. PICK g \in Nat : g = life[e].gen + 1
  BY LifeTypes DEF Life
<1>3. PICK n : n = [life[e] EXCEPT !.status = "Retired", !.zero = FALSE, !.gen = g]
  BY Zenon
<1>4. /\ life' = [life EXCEPT ![e] = n] /\ closing' = [closing EXCEPT ![e] = closing[e]]
      /\ timers' = [timers EXCEPT ![e] = timers[e]] /\ chan' = chan
  BY Zenon, <1>2, <1>3, LifeTypes DEF Retire
<1>5. /\ n \in Life /\ n.status = "Retired" /\ n.queued = life[e].queued
      /\ n.pending = life[e].pending /\ n.active = life[e].active
  BY Zenon, <1>1, <1>3, LifeTypes DEF Life
<1>6. life[e].queued = 0 /\ closing[e] = "no"
  <2>1. life[e].status = "Open" /\ life[e].active + life[e].pending + life[e].queued = 0
    BY Zenon DEF Retire, is_open, total_channels
  <2>2. life[e].active \in Nat /\ life[e].pending \in Nat /\ life[e].queued \in Nat
    BY Zenon, LifeTypes DEF Life
  <2>3. closing[e] = "no"
    BY Zenon, <2>1, LifeTypes DEF EndOK
  <2> QED
    BY <2>1, <2>2, <2>3
<1>7. EndOK(n, timers[e], "no") /\ CountOK(n, "no", chan, e)
  BY Zenon, <1>5, <1>6, LifeTypes DEF EndOK, CountOK
<1>8. closing' = [closing EXCEPT ![e] = "no"]
  BY Zenon, <1>4, <1>6
<1> QED
  BY Zenon, <1>4, <1>5, <1>7, <1>8, LifeTypes, ReplaceEnd

\* The end opens, unless a loop has closed it already.
LEMMA ReadyCounts ==
  ASSUME LifeInv, NEW e \in Ends, mark_control_ready(e)
  PROVE  LifeInv' /\ \A f \in Ends : f # e => life'[f] = life[f] /\ closing'[f] = closing[f]
<1>1. closing' = [closing EXCEPT ![e] = closing[e]] /\ closing' = closing /\ chan' = chan
  BY Zenon, LifeTypes DEF mark_control_ready
<1>2. CASE life[e].status = "OpeningControl"
  <2>1. life[e] = [status |-> life[e].status, active |-> life[e].active,
                   pending |-> life[e].pending, queued |-> life[e].queued,
                   zero |-> life[e].zero, gen |-> life[e].gen]
    BY Zenon, LifeTypes DEF Life
  <2>2. PICK l : l = [life[e] EXCEPT !.status = "Open"]
    BY Zenon
  <2>3. /\ l \in Life /\ l.status = "Open" /\ l.queued = life[e].queued /\ l.zero = life[e].zero
        /\ l.pending = life[e].pending /\ l.active = life[e].active
    BY Zenon, <2>1, <2>2, LifeTypes DEF Life
  <2>4. ~l.zero /\ closing[e] = "no"
    BY Zenon, <2>3, <1>2, LifeTypes DEF EndOK
  <2>5. BeforeRefresh(l, timers[e], "no")
    BY Zenon, <2>3, <2>4 DEF BeforeRefresh
  <2>6. PICK n : n = refresh_idle_state(l)
    BY Zenon
  <2>7. PICK t : t = IF n.zero /\ ~l.zero THEN timers[e] \cup {n.gen} ELSE timers[e]
    BY Zenon
  <2>8. n \in Life /\ SameCounts(n, l) /\ EndOK(n, t, "no")
    BY Zenon, <2>3, <2>5, <2>6, <2>7, LifeTypes, RefreshFacts
  <2>9. t \in SUBSET Nat
    BY Zenon, <2>7, <2>8, LifeTypes DEF Life
  <2>10. life' = [life EXCEPT ![e] = n]
    BY Zenon, <1>2, <2>2, <2>6 DEF mark_control_ready, SetLife
  <2>11. timers' = [timers EXCEPT ![e] = t]
    BY Zenon, <1>2, <2>2, <2>6, <2>7, LifeTypes DEF mark_control_ready, SetLife
  <2>12. CountOK(n, "no", chan, e)
    BY Zenon, <2>3, <2>4, <2>8, LifeTypes DEF CountOK, SameCounts
  <2>13. closing' = [closing EXCEPT ![e] = "no"]
    BY Zenon, <1>1, <2>4
  <2>14. LifeInv'
    BY Zenon, <1>1, <2>8, <2>9, <2>10, <2>11, <2>12, <2>13, ReplaceEnd
  <2> QED
    BY <1>1, <2>10, <2>14
<1>3. CASE life[e].status # "OpeningControl"
  <2>1. LifeUnchanged
    BY Zenon, <1>1, <1>3 DEF mark_control_ready, LifeUnchanged
  <2> QED
    BY Zenon, <2>1, LifeUnchangedOK DEF LifeUnchanged
<1> QED
  BY Zenon, <1>2, <1>3

\* The idle check of an old generation finds the end with a newer one.
LEMMA IdleCheckCounts ==
  ASSUME LifeInv, NEW e \in Ends, NEW g, close_if_idle(e, g)
  PROVE  LifeInv' /\ \A f \in Ends : f # e => life'[f] = life[f] /\ closing'[f] = closing[f]
<1>1. PICK t \in SUBSET Nat : t = timers[e] \ {g}
  BY Zenon, LifeTypes
<1>2. timers' = [timers EXCEPT ![e] = t] /\ chan' = chan
  BY Zenon, <1>1, LifeTypes DEF close_if_idle
<1>3. CASE is_open(life[e]) /\ life[e].zero /\ life[e].gen = g /\ total_channels(life[e]) = 0
  <2>1. close_lifecycle_locked(e, "IdleTimeout")
    BY Zenon, <1>3 DEF close_if_idle
  <2> QED
    BY Zenon, <1>2, <2>1, CloseCounts
<1>4. CASE ~(is_open(life[e]) /\ life[e].zero /\ life[e].gen = g /\ total_channels(life[e]) = 0)
  <2>1. life' = life /\ closing' = closing
    BY Zenon, <1>4 DEF close_if_idle
  <2>2. life' = [life EXCEPT ![e] = life[e]] /\ closing' = [closing EXCEPT ![e] = closing[e]]
    BY Zenon, <2>1, LifeTypes
  <2>3. EndOK(life[e], t, closing[e])
    BY Zenon, <1>1, <1>4, LifeTypes DEF EndOK, is_open
  <2>4. closing[e] \in {"no", "local", "control", "done"}
    BY Zenon, LifeTypes
  <2>5. LifeInv'
    BY Zenon, <1>2, <2>2, <2>3, <2>4, LifeTypes, ReplaceEnd
  <2> QED
    BY Zenon, <2>1, <2>5
<1> QED
  BY Zenon, <1>3, <1>4

Built(e) == step[e] \notin {"none", "asked"}

\* Only end e changes, which has been built before, and the relay goes on from there.
Alone(e) ==
  /\ \A f \in Ends : f # e => /\ step'[f] = step[f] /\ life'[f] = life[f]
                              /\ closing'[f] = closing[f] /\ recv'[f] = recv[f]
                              /\ beat'[f] = beat[f]
  /\ step' = [f \in Ends |-> step'[f]] /\ recv' = [f \in Ends |-> recv'[f]]
  /\ beat' = [f \in Ends |-> beat'[f]]
  /\ relay' = relay \/ relay' \notin {"none", "requested"}

\* What is not built stays so when another end moves.
LEMMA BuildKept ==
  ASSUME BuildInv, NEW e \in Ends, Built(e), Built(e)', Alone(e)
  PROVE  BuildInv'
<1>1. \A f \in Ends : step'[f] \in {"none", "asked"} =>
        life'[f].status = "absent" /\ closing'[f] = "no" /\ ~recv'[f] /\ beat'[f].at = "off"
  BY Zenon DEF BuildInv, Built, Alone
<1>2. "A" \in Ends /\ "P" \in Ends /\ (e = "A" \/ e = "P")
  BY Zenon DEF Ends
<1>3. relay' \in {"none", "requested"} => step'["P"] = "none"
  BY Zenon, <1>2 DEF BuildInv, Built, Alone
<1>4. step'["A"] = "none" => relay' = "none"
  BY Zenon, <1>2 DEF BuildInv, Built, Alone
<1> QED
  BY Zenon, <1>1, <1>3, <1>4 DEF BuildInv, Alone

\* The steps of a channel build nothing.
LEMMA ChannelStepBuild ==
  ASSUME PnInv, NEW c \in Channels, ChannelStep(c)
  PROVE  PnInv'
<1>1. LifeInv' /\ StatusKept
  BY Zenon, ChannelStepCounts DEF PnInv
<1>2. UNCHANGED <<step, closing, recv, beat, relay>>
  BY Zenon DEF ChannelStep, OpenChannel, Dispatch, Accept, Reject, Respond, PeerFails, PeerActive,
         HandOver, Answered, OpenTimeout, OpenerDrops, PeerDrops, Elsewhere, control, bridge
<1>3. BuildInv'
  BY Zenon, <1>1, <1>2 DEF PnInv, BuildInv, StatusKept
<1> QED
  BY Zenon, <1>1, <1>3 DEF PnInv

\* A gives up.
LEMMA ActiveFailsOK ==
  ASSUME PnInv, ActiveFails
  PROVE  PnInv'
<1>1. LifeInv /\ BuildInv /\ "A" \in Ends
  BY Zenon DEF PnInv, Ends
<1>2. chan' = chan /\ timers' = timers
  BY Zenon DEF ActiveFails, control
<1>3. LifeInv' /\ \A f \in Ends : f # "A" => life'[f] = life[f] /\ closing'[f] = closing[f]
  <2>1. close_lifecycle_locked("A", "Manual")
    BY Zenon DEF ActiveFails, control
  <2> QED
    BY Zenon, <1>1, <1>2, <2>1, CloseCountsOnly
<1>4. Built("A") /\ Built("A")'
  BY Zenon, <1>1 DEF BuildInv, Built, ActiveFails, control
<1>5. Alone("A")
  BY Zenon, <1>1, <1>3 DEF BuildInv, Alone, ActiveFails, control
<1> QED
  BY Zenon, <1>1, <1>3, <1>4, <1>5, BuildKept DEF PnInv

\* P answers, or fails to.
LEMMA PassiveAnswersOK ==
  ASSUME PnInv, PassiveAnswers
  PROVE  PnInv'
<1>1. LifeInv /\ BuildInv /\ "P" \in Ends
  BY Zenon DEF PnInv, Ends
<1>2. chan' = chan /\ timers' = timers
  BY Zenon DEF PassiveAnswers, control
<1>3. LifeInv' /\ \A f \in Ends : f # "P" => life'[f] = life[f] /\ closing'[f] = closing[f]
  <2>1. CASE CanSend("P")
    <3>1. LifeUnchanged
      BY Zenon, <1>2, <2>1 DEF PassiveAnswers, control, LifeUnchanged
    <3> QED
      BY Zenon, <1>1, <3>1, LifeUnchangedOK DEF LifeUnchanged
  <2>2. CASE ~(CanSend("P"))
    <3>1. close_lifecycle_locked("P", "Manual")
      BY Zenon, <2>2 DEF PassiveAnswers, control
    <3> QED
      BY Zenon, <1>1, <1>2, <3>1, CloseCountsOnly
  <2> QED
    BY Zenon, <2>1, <2>2
<1>4. Built("P") /\ Built("P")'
  BY Zenon, <1>1 DEF BuildInv, Built, PassiveAnswers, control
<1>5. Alone("P")
  BY Zenon, <1>1, <1>3 DEF BuildInv, Alone, PassiveAnswers, control
<1> QED
  BY Zenon, <1>1, <1>3, <1>4, <1>5, BuildKept DEF PnInv

\* The owner closes.
LEMMA UserCloseOK ==
  ASSUME PnInv, NEW e \in Ends, UserClose(e)
  PROVE  PnInv'
<1>1. LifeInv /\ BuildInv /\ e \in Ends
  BY Zenon DEF PnInv, Ends
<1>2. chan' = chan /\ timers' = timers
  BY Zenon DEF UserClose, control, bridge
<1>3. LifeInv' /\ \A f \in Ends : f # e => life'[f] = life[f] /\ closing'[f] = closing[f]
  <2>1. close_lifecycle_locked(e, "Manual")
    BY Zenon DEF UserClose, control, bridge
  <2> QED
    BY Zenon, <1>1, <1>2, <2>1, CloseCountsOnly
<1>4. Built(e) /\ Built(e)'
  BY Zenon, <1>1 DEF BuildInv, Built, UserClose, control, bridge
<1>5. Alone(e)
  BY Zenon, <1>1, <1>3 DEF BuildInv, Alone, UserClose, control, bridge
<1> QED
  BY Zenon, <1>1, <1>3, <1>4, <1>5, BuildKept DEF PnInv

\* A ping is answered, or the end closes.
LEMMA RecvPingOK ==
  ASSUME PnInv, NEW e \in Ends, RecvPing(e)
  PROVE  PnInv'
<1>1. LifeInv /\ BuildInv /\ e \in Ends
  BY Zenon DEF PnInv, Ends
<1>2. chan' = chan /\ timers' = timers
  BY Zenon DEF RecvPing, Readable
<1>3. LifeInv' /\ \A f \in Ends : f # e => life'[f] = life[f] /\ closing'[f] = closing[f]
  <2>1. CASE CanSend(e)
    <3>1. LifeUnchanged
      BY Zenon, <1>2, <2>1 DEF RecvPing, Readable, LifeUnchanged
    <3> QED
      BY Zenon, <1>1, <3>1, LifeUnchangedOK DEF LifeUnchanged
  <2>2. CASE ~(CanSend(e))
    <3>1. close_lifecycle_locked(e, "ControlError")
      BY Zenon, <2>2 DEF RecvPing, Readable
    <3> QED
      BY Zenon, <1>1, <1>2, <3>1, CloseCountsOnly
  <2> QED
    BY Zenon, <2>1, <2>2
<1>4. Built(e) /\ Built(e)'
  BY Zenon, <1>1 DEF BuildInv, Built, RecvPing, Readable
<1>5. Alone(e)
  BY Zenon, <1>1, <1>3 DEF BuildInv, Alone, RecvPing, Readable
<1> QED
  BY Zenon, <1>1, <1>3, <1>4, <1>5, BuildKept DEF PnInv

\* The peer closed, or the stream ended.
LEMMA RecvCloseOK ==
  ASSUME PnInv, NEW e \in Ends, RecvClose(e)
  PROVE  PnInv'
<1>1. LifeInv /\ BuildInv /\ e \in Ends
  BY Zenon DEF PnInv, Ends
<1>2. chan' = chan /\ timers' = timers
  BY Zenon DEF RecvClose, Readable
<1>3. LifeInv' /\ \A f \in Ends : f # e => life'[f] = life[f] /\ closing'[f] = closing[f]
  <2>1. close_lifecycle_locked(e, IF Head(pipe[e]).cmd = "close" THEN "RemoteControl" ELSE "ControlError")
    BY Zenon DEF RecvClose, Readable
  <2> QED
    BY Zenon, <1>1, <1>2, <2>1, CloseCountsOnly
<1>4. Built(e) /\ Built(e)'
  BY Zenon, <1>1 DEF BuildInv, Built, RecvClose, Readable
<1>5. Alone(e)
  BY Zenon, <1>1, <1>3 DEF BuildInv, Alone, RecvClose, Readable
<1> QED
  BY Zenon, <1>1, <1>3, <1>4, <1>5, BuildKept DEF PnInv

\* A ping is sent, or the end closes.
LEMMA SendPingOK ==
  ASSUME PnInv, NEW e \in Ends, SendPing(e)
  PROVE  PnInv'
<1>1. LifeInv /\ BuildInv /\ e \in Ends
  BY Zenon DEF PnInv, Ends
<1>2. chan' = chan /\ timers' = timers
  BY Zenon DEF SendPing
<1>3. LifeInv' /\ \A f \in Ends : f # e => life'[f] = life[f] /\ closing'[f] = closing[f]
  <2>1. CASE CanSend(e)
    <3>1. LifeUnchanged
      BY Zenon, <1>2, <2>1 DEF SendPing, LifeUnchanged
    <3> QED
      BY Zenon, <1>1, <3>1, LifeUnchangedOK DEF LifeUnchanged
  <2>2. CASE ~(CanSend(e))
    <3>1. close_lifecycle_locked(e, "ControlError")
      BY Zenon, <2>2 DEF SendPing
    <3> QED
      BY Zenon, <1>1, <1>2, <3>1, CloseCountsOnly
  <2> QED
    BY Zenon, <2>1, <2>2
<1>4. Built(e) /\ Built(e)'
  BY Zenon, <1>1 DEF BuildInv, Built, SendPing
<1>5. Alone(e)
  BY Zenon, <1>1, <1>3 DEF BuildInv, Alone, SendPing
<1> QED
  BY Zenon, <1>1, <1>3, <1>4, <1>5, BuildKept DEF PnInv

\* The peer did not answer.
LEMMA HeartbeatTimeoutOK ==
  ASSUME PnInv, NEW e \in Ends, HeartbeatTimeout(e)
  PROVE  PnInv'
<1>1. LifeInv /\ BuildInv /\ e \in Ends
  BY Zenon DEF PnInv, Ends
<1>2. chan' = chan /\ timers' = timers
  BY Zenon DEF HeartbeatTimeout, bridge
<1>3. LifeInv' /\ \A f \in Ends : f # e => life'[f] = life[f] /\ closing'[f] = closing[f]
  <2>1. close_lifecycle_locked(e, "HeartbeatTimeout")
    BY Zenon DEF HeartbeatTimeout, bridge
  <2> QED
    BY Zenon, <1>1, <1>2, <2>1, CloseCountsOnly
<1>4. Built(e) /\ Built(e)'
  BY Zenon, <1>1 DEF BuildInv, Built, HeartbeatTimeout, bridge
<1>5. Alone(e)
  BY Zenon, <1>1, <1>3 DEF BuildInv, Alone, HeartbeatTimeout, bridge
<1> QED
  BY Zenon, <1>1, <1>3, <1>4, <1>5, BuildKept DEF PnInv

\* The close goes on.
LEMMA FinishLocalOK ==
  ASSUME PnInv, NEW e \in Ends, FinishLocal(e)
  PROVE  PnInv'
<1>1. LifeInv /\ BuildInv
  BY Zenon DEF PnInv
<1>2. LifeInv'
  BY Zenon, <1>1, FinishLocalCounts
<1>3. LifeInv' /\ \A f \in Ends : f # e => life'[f] = life[f] /\ closing'[f] = closing[f]
  BY Zenon, <1>1, <1>2, LifeTypes DEF FinishLocal
<1>4. Built(e) /\ Built(e)'
  BY Zenon, <1>1 DEF BuildInv, Built, FinishLocal, control, bridge
<1>5. Alone(e)
  BY Zenon, <1>1, <1>3 DEF BuildInv, Alone, FinishLocal, control, bridge
<1> QED
  BY Zenon, <1>1, <1>3, <1>4, <1>5, BuildKept DEF PnInv

\* The control stream is shut down.
LEMMA CloseControlOK ==
  ASSUME PnInv, NEW e \in Ends, CloseControl(e)
  PROVE  PnInv'
<1>1. LifeInv /\ BuildInv
  BY Zenon DEF PnInv
<1>2. LifeInv'
  BY Zenon, <1>1, CloseControlCounts
<1>3. LifeInv' /\ \A f \in Ends : f # e => life'[f] = life[f] /\ closing'[f] = closing[f]
  BY Zenon, <1>1, <1>2, LifeTypes DEF CloseControl
<1>4. Built(e) /\ Built(e)'
  BY Zenon, <1>1 DEF BuildInv, Built, CloseControl
<1>5. Alone(e)
  BY Zenon, <1>1, <1>3 DEF BuildInv, Alone, CloseControl
<1> QED
  BY Zenon, <1>1, <1>3, <1>4, <1>5, BuildKept DEF PnInv

\* An idle end is retired.
LEMMA RetireOK ==
  ASSUME PnInv, NEW e \in Ends, Retire(e)
  PROVE  PnInv'
<1>1. LifeInv /\ BuildInv
  BY Zenon DEF PnInv
<1>2. LifeInv'
  BY Zenon, <1>1, RetireCounts
<1>3. LifeInv' /\ \A f \in Ends : f # e => life'[f] = life[f] /\ closing'[f] = closing[f]
  BY Zenon, <1>1, <1>2, LifeTypes DEF Retire
<1>4. Built(e) /\ Built(e)'
  BY Zenon, <1>1 DEF BuildInv, Built, Retire, control, bridge, is_open
<1>5. Alone(e)
  BY Zenon, <1>1, <1>3 DEF BuildInv, Alone, Retire, control, bridge, is_open
<1> QED
  BY Zenon, <1>1, <1>3, <1>4, <1>5, BuildKept DEF PnInv

\* The end opens.
LEMMA mark_control_readyOK ==
  ASSUME PnInv, NEW e \in Ends, mark_control_ready(e)
  PROVE  PnInv'
<1>1. LifeInv /\ BuildInv
  BY Zenon DEF PnInv
<1>3. LifeInv' /\ \A f \in Ends : f # e => life'[f] = life[f] /\ closing'[f] = closing[f]
  BY Zenon, <1>1, ReadyCounts
<1>4. Built(e) /\ Built(e)'
  BY Zenon, <1>1 DEF BuildInv, Built, mark_control_ready, control, bridge
<1>5. Alone(e)
  BY Zenon, <1>1, <1>3 DEF BuildInv, Alone, mark_control_ready, control, bridge
<1> QED
  BY Zenon, <1>1, <1>3, <1>4, <1>5, BuildKept DEF PnInv

\* The control loops start.
LEMMA SetControlOK ==
  ASSUME PnInv, NEW e \in Ends, SetControl(e)
  PROVE  PnInv'
<1>1. LifeInv /\ BuildInv /\ e \in Ends
  BY Zenon DEF PnInv, Ends
<1>2. LifeUnchanged
  BY Zenon DEF SetControl, bridge, LifeUnchanged
<1>3. LifeInv' /\ \A f \in Ends : f # e => life'[f] = life[f] /\ closing'[f] = closing[f]
  BY Zenon, <1>1, <1>2, LifeUnchangedOK DEF LifeUnchanged
<1>4. Built(e) /\ Built(e)'
  BY Zenon, <1>1 DEF BuildInv, Built, SetControl, bridge
<1>5. Alone(e)
  BY Zenon, <1>1, <1>3 DEF BuildInv, Alone, SetControl, bridge
<1> QED
  BY Zenon, <1>1, <1>3, <1>4, <1>5, BuildKept DEF PnInv

\* A registers its tunnel.
LEMMA ActiveRegistersOK ==
  ASSUME PnInv, ActiveRegisters
  PROVE  PnInv'
<1>1. LifeInv /\ BuildInv /\ "A" \in Ends
  BY Zenon DEF PnInv, Ends
<1>2. LifeUnchanged
  BY Zenon DEF ActiveRegisters, control, bridge, LifeUnchanged
<1>3. LifeInv' /\ \A f \in Ends : f # "A" => life'[f] = life[f] /\ closing'[f] = closing[f]
  BY Zenon, <1>1, <1>2, LifeUnchangedOK DEF LifeUnchanged
<1>4. Built("A") /\ Built("A")'
  BY Zenon, <1>1 DEF BuildInv, Built, ActiveRegisters, control, bridge
<1>5. Alone("A")
  BY Zenon, <1>1, <1>3 DEF BuildInv, Alone, ActiveRegisters, control, bridge
<1> QED
  BY Zenon, <1>1, <1>3, <1>4, <1>5, BuildKept DEF PnInv

\* A pong is read.
LEMMA RecvPongOK ==
  ASSUME PnInv, NEW e \in Ends, RecvPong(e)
  PROVE  PnInv'
<1>1. LifeInv /\ BuildInv /\ e \in Ends
  BY Zenon DEF PnInv, Ends
<1>2. LifeUnchanged
  BY Zenon DEF RecvPong, Readable, LifeUnchanged
<1>3. LifeInv' /\ \A f \in Ends : f # e => life'[f] = life[f] /\ closing'[f] = closing[f]
  BY Zenon, <1>1, <1>2, LifeUnchangedOK DEF LifeUnchanged
<1>4. Built(e) /\ Built(e)'
  BY Zenon, <1>1 DEF BuildInv, Built, RecvPong, Readable
<1>5. Alone(e)
  BY Zenon, <1>1, <1>3 DEF BuildInv, Alone, RecvPong, Readable
<1> QED
  BY Zenon, <1>1, <1>3, <1>4, <1>5, BuildKept DEF PnInv

\* The ping is recorded.
LEMMA MarkPingSentOK ==
  ASSUME PnInv, NEW e \in Ends, MarkPingSent(e)
  PROVE  PnInv'
<1>1. LifeInv /\ BuildInv /\ e \in Ends
  BY Zenon DEF PnInv, Ends
<1>2. LifeUnchanged
  BY Zenon DEF MarkPingSent, bridge, LifeUnchanged
<1>3. LifeInv' /\ \A f \in Ends : f # e => life'[f] = life[f] /\ closing'[f] = closing[f]
  BY Zenon, <1>1, <1>2, LifeUnchangedOK DEF LifeUnchanged
<1>4. Built(e) /\ Built(e)'
  BY Zenon, <1>1 DEF BuildInv, Built, MarkPingSent, bridge
<1>5. Alone(e)
  BY Zenon, <1>1, <1>3 DEF BuildInv, Alone, MarkPingSent, bridge
<1> QED
  BY Zenon, <1>1, <1>3, <1>4, <1>5, BuildKept DEF PnInv

\* The idle check wakes up.
LEMMA close_if_idleOK ==
  ASSUME PnInv, NEW e \in Ends, NEW g, close_if_idle(e, g)
  PROVE  PnInv'
<1>1. LifeInv /\ BuildInv
  BY Zenon DEF PnInv
<1>2. LifeInv' /\ \A f \in Ends : f # e => life'[f] = life[f] /\ closing'[f] = closing[f]
  BY Zenon, <1>1, IdleCheckCounts
<1>3. UNCHANGED <<step, recv, beat, relay>>
  BY Zenon DEF close_if_idle, control, bridge
<1>4. CASE Built(e)
  <2>1. Built(e)' /\ Alone(e)
    BY Zenon, <1>1, <1>2, <1>3, <1>4 DEF BuildInv, Built, Alone
  <2> QED
    BY Zenon, <1>1, <1>2, <1>4, <2>1, BuildKept DEF PnInv
<1>5. CASE ~Built(e)
  <2>1. ~is_open(life[e])
    BY Zenon, <1>1, <1>5 DEF BuildInv, Built, is_open
  <2>2. life' = life /\ closing' = closing
    BY Zenon, <2>1 DEF close_if_idle
  <2> QED
    BY Zenon, <1>1, <1>2, <1>3, <2>2 DEF PnInv, BuildInv
<1> QED
  BY Zenon, <1>4, <1>5

\* A asks for a tunnel that did not exist.
LEMMA CreateTunnelOK ==
  ASSUME PnInv, CreateTunnel
  PROVE  PnInv'
<1>1. LifeInv /\ BuildInv /\ "A" \in Ends /\ "P" \in Ends
  BY Zenon DEF PnInv, Ends
<1>2. life["A"].status = "absent" /\ closing["A"] = "no"
  BY Zenon, <1>1 DEF BuildInv, CreateTunnel
<1>3. LifeInv'
  BY Zenon, <1>1, <1>2, StartCounts DEF CreateTunnel
<1>4. step["P"] = "none"
  BY Zenon, <1>1 DEF BuildInv, CreateTunnel
<1>5. /\ step'["A"] = "asking" /\ step'["P"] = "none" /\ life'["P"] = life["P"]
      /\ closing' = closing /\ recv' = recv /\ beat' = beat /\ relay' = "requested"
      /\ step' = [f \in Ends |-> step'[f]]
  BY Zenon, <1>1, <1>4, LifeTypes DEF BuildInv, CreateTunnel, control
<1>6. \A f \in Ends : f = "A" \/ f = "P"
  BY Zenon DEF Ends
<1>7. \A f \in Ends : step'[f] \in {"none", "asked"} =>
        life'[f].status = "absent" /\ closing'[f] = "no" /\ ~recv'[f] /\ beat'[f].at = "off"
  BY <1>1, <1>4, <1>5, <1>6 DEF BuildInv
<1>8. BuildInv'
  BY Zenon, <1>1, <1>5, <1>7 DEF BuildInv
<1> QED
  BY Zenon, <1>3, <1>8 DEF PnInv

\* P is asked once, before it has anything of this tunnel.
LEMMA RelayForwardsOK ==
  ASSUME PnInv, RelayForwards
  PROVE  PnInv'
<1>1. LifeInv /\ BuildInv /\ "A" \in Ends /\ "P" \in Ends
  BY Zenon DEF PnInv, Ends
<1>2. LifeUnchanged
  BY Zenon DEF RelayForwards, LifeUnchanged
<1>3. step["P"] = "none" /\ step["A"] # "none"
  BY Zenon, <1>1 DEF BuildInv, RelayForwards
<1>4. /\ step' = [step EXCEPT !["P"] = "asked"] /\ recv' = recv /\ beat' = beat
      /\ relay' = "forwarded"
  BY Zenon DEF RelayForwards, control
<1>5. step' = [f \in Ends |-> step'[f]] /\ step'["A"] = step["A"]
  BY Zenon, <1>1, <1>4 DEF BuildInv
<1>6. \A f \in Ends : step'[f] \in {"none", "asked"} => step[f] \in {"none", "asked"}
  BY Zenon, <1>1, <1>3, <1>4 DEF BuildInv
<1>7. BuildInv'
  BY Zenon, <1>1, <1>2, <1>3, <1>4, <1>5, <1>6 DEF BuildInv, LifeUnchanged
<1> QED
  BY Zenon, <1>1, <1>2, <1>7, LifeUnchangedOK DEF PnInv

\* P registers the tunnel it was asked for.
LEMMA PassiveRegistersOK ==
  ASSUME PnInv, PassiveRegisters
  PROVE  PnInv'
<1>1. LifeInv /\ BuildInv /\ "A" \in Ends /\ "P" \in Ends
  BY Zenon DEF PnInv, Ends
<1>2. life["P"].status = "absent" /\ closing["P"] = "no"
  BY Zenon, <1>1 DEF BuildInv, PassiveRegisters
<1>3. LifeInv'
  BY Zenon, <1>1, <1>2, StartCounts DEF PassiveRegisters
<1>4. /\ step' = [step EXCEPT !["P"] = "registered"] /\ life'["A"] = life["A"]
      /\ closing' = closing /\ recv' = recv /\ beat' = beat /\ relay' = relay
  BY Zenon, <1>1, LifeTypes DEF PassiveRegisters, control, bridge
<1>5. step' = [f \in Ends |-> step'[f]] /\ step'["A"] = step["A"] /\ step'["P"] = "registered"
  BY Zenon, <1>1, <1>4 DEF BuildInv
<1>6. relay \notin {"none", "requested"}
  BY Zenon, <1>1 DEF BuildInv, PassiveRegisters
<1>7. \A f \in Ends : f = "A" \/ f = "P"
  BY Zenon DEF Ends
<1>8. \A f \in Ends : step'[f] \in {"none", "asked"} =>
        life'[f].status = "absent" /\ closing'[f] = "no" /\ ~recv'[f] /\ beat'[f].at = "off"
  BY <1>1, <1>4, <1>5, <1>7 DEF BuildInv
<1>9. BuildInv'
  BY Zenon, <1>1, <1>4, <1>5, <1>6, <1>8 DEF BuildInv
<1> QED
  BY Zenon, <1>3, <1>9 DEF PnInv

\* The relay refuses.
LEMMA RelayRefusesOK ==
  ASSUME PnInv, RelayRefuses
  PROVE  PnInv'
<1>1. LifeInv /\ BuildInv
  BY Zenon DEF PnInv
<1>2. LifeUnchanged
  BY Zenon DEF RelayRefuses, LifeUnchanged
<1>3. step' = step /\ recv' = recv /\ beat' = beat /\ relay' \notin {"none", "requested"}
  BY Zenon DEF RelayRefuses, control
<1>4. step["A"] # "none"
  BY Zenon, <1>1 DEF BuildInv, RelayRefuses
<1>5. BuildInv'
  BY Zenon, <1>1, <1>2, <1>3, <1>4 DEF BuildInv, LifeUnchanged
<1> QED
  BY Zenon, <1>1, <1>2, <1>5, LifeUnchangedOK DEF PnInv

\* The relay bridges.
LEMMA RelayBridgesOK ==
  ASSUME PnInv, RelayBridges
  PROVE  PnInv'
<1>1. LifeInv /\ BuildInv
  BY Zenon DEF PnInv
<1>2. LifeUnchanged
  BY Zenon DEF RelayBridges, LifeUnchanged
<1>3. step' = step /\ recv' = recv /\ beat' = beat /\ relay' \notin {"none", "requested"}
  BY Zenon DEF RelayBridges, control
<1>4. step["A"] # "none"
  BY Zenon, <1>1 DEF BuildInv, RelayBridges
<1>5. BuildInv'
  BY Zenon, <1>1, <1>2, <1>3, <1>4 DEF BuildInv, LifeUnchanged
<1> QED
  BY Zenon, <1>1, <1>2, <1>5, LifeUnchangedOK DEF PnInv

\* P did not answer the relay.
LEMMA RelayTimeoutOK ==
  ASSUME PnInv, RelayTimeout
  PROVE  PnInv'
<1>1. LifeInv /\ BuildInv
  BY Zenon DEF PnInv
<1>2. LifeUnchanged
  BY Zenon DEF RelayTimeout, LifeUnchanged
<1>3. step' = step /\ recv' = recv /\ beat' = beat /\ relay' \notin {"none", "requested"}
  BY Zenon DEF RelayTimeout, control
<1>4. step["A"] # "none"
  BY Zenon, <1>1 DEF BuildInv, RelayTimeout
<1>5. BuildInv'
  BY Zenon, <1>1, <1>2, <1>3, <1>4 DEF BuildInv, LifeUnchanged
<1> QED
  BY Zenon, <1>1, <1>2, <1>5, LifeUnchangedOK DEF PnInv

\* The bridge breaks.
LEMMA RelayBreaksOK ==
  ASSUME PnInv, RelayBreaks
  PROVE  PnInv'
<1>1. LifeInv /\ BuildInv
  BY Zenon DEF PnInv
<1>2. LifeUnchanged
  BY Zenon DEF RelayBreaks, LifeUnchanged
<1>3. step' = step /\ recv' = recv /\ beat' = beat /\ relay' \notin {"none", "requested"}
  BY Zenon DEF RelayBreaks, control
<1>4. step["A"] # "none"
  BY Zenon, <1>1 DEF BuildInv, RelayBreaks
<1>5. BuildInv'
  BY Zenon, <1>1, <1>2, <1>3, <1>4 DEF BuildInv, LifeUnchanged
<1> QED
  BY Zenon, <1>1, <1>2, <1>5, LifeUnchangedOK DEF PnInv

\* Ports are listened on.
LEMMA ListenPortsOK ==
  ASSUME PnInv, NEW e \in Ends, ListenPorts(e)
  PROVE  PnInv'
<1>1. LifeUnchanged /\ UNCHANGED <<step, recv, beat, relay>>
  BY Zenon DEF ListenPorts, LifeUnchanged, control, bridge
<1> QED
  BY Zenon, <1>1, LifeUnchangedOK DEF PnInv, BuildInv, LifeUnchanged

\* The callback is set.
LEMMA ListenCallbackOK ==
  ASSUME PnInv, NEW e \in Ends, ListenCallback(e)
  PROVE  PnInv'
<1>1. LifeUnchanged /\ UNCHANGED <<step, recv, beat, relay>>
  BY Zenon DEF ListenCallback, LifeUnchanged, control, bridge
<1> QED
  BY Zenon, <1>1, LifeUnchangedOK DEF PnInv, BuildInv, LifeUnchanged

\* No channel is in use at first.
LEMMA PnInitInv ==
  ASSUME Init
  PROVE  PnInv
<1>1. PICK n, x : /\ n = NewLife("absent")
                  /\ x = [from |-> "A", at |-> "idle", peer |-> "idle", verdict |-> "none"]
  BY Zenon
<1>2. /\ n \in Life /\ n.status = "absent" /\ n.active = 0 /\ n.pending = 0 /\ n.queued = 0
      /\ n.zero = FALSE
  BY Zenon, <1>1 DEF NewLife, Life
<1>3. x \in Channel /\ x.at = "idle" /\ x.peer = "idle"
  BY Zenon, <1>1 DEF Channel, Ends
<1>4. /\ life = [e \in Ends |-> n] /\ chan = [c \in Channels |-> x]
      /\ closing = [e \in Ends |-> "no"] /\ timers = [e \in Ends |-> {}]
  BY Zenon, <1>1 DEF Init
<1>5. ASSUME NEW e \in Ends
      PROVE  EndOK(life[e], timers[e], closing[e]) /\ CountOK(life[e], closing[e], chan, e)
  <2>1. life[e] = n /\ timers[e] = {} /\ closing[e] = "no"
    BY Zenon, <1>4
  <2>2. \A c \in Channels : UseAt(chan[c], e) = "none"
    BY Zenon, <1>3, <1>4 DEF UseAt
  <2>3. \A w \in {"pending", "active", "queued"} : Members(chan, e, w) = {}
    BY Zenon, <2>2 DEF Members
  <2>4. \A w \in {"pending", "active", "queued"} : Cardinality(Members(chan, e, w)) = 0
    BY Zenon, <2>3, FS_EmptySet
  <2> QED
    BY Zenon, <2>1, <2>4, <1>2 DEF EndOK, CountOK
<1>6. LifeInv
  BY Zenon, <1>2, <1>3, <1>4, <1>5 DEF LifeInv, EndsOK
<1>7. BuildInv
  BY Zenon, <1>2, <1>4 DEF BuildInv, Init, Ends
<1> QED
  BY Zenon, <1>6, <1>7 DEF PnInv

\* Every step of the tunnel keeps the invariant.
LEMMA PnNextInv ==
  ASSUME PnInv, [Next]_vars
  PROVE  PnInv'
<1>1. CASE Setup
  BY Zenon, <1>1, CreateTunnelOK, RelayForwardsOK, RelayRefusesOK, RelayBridgesOK, RelayTimeoutOK,
     ActiveRegistersOK, ActiveFailsOK, PassiveRegistersOK, PassiveAnswersOK, SetControlOK,
     mark_control_readyOK DEF Setup
<1>2. CASE RelayBreaks
  BY Zenon, <1>2, RelayBreaksOK
<1>3. ASSUME NEW e \in Ends, EndStep(e)
      PROVE  PnInv'
  BY Zenon, <1>3, FinishLocalOK, CloseControlOK, UserCloseOK, RetireOK, close_if_idleOK, RecvPingOK,
     RecvPongOK, RecvCloseOK, SendPingOK, MarkPingSentOK, HeartbeatTimeoutOK, ListenPortsOK,
     ListenCallbackOK DEF EndStep
<1>4. ASSUME NEW c \in Channels, ChannelStep(c)
      PROVE  PnInv'
  BY Zenon, <1>4, ChannelStepBuild
<1>5. CASE UNCHANGED vars
  <2>1. LifeUnchanged /\ UNCHANGED <<step, recv, beat, relay>>
    BY Zenon, <1>5 DEF vars, LifeUnchanged
  <2> QED
    BY Zenon, <2>1, LifeUnchangedOK DEF PnInv, BuildInv, LifeUnchanged
<1> QED
  BY Zenon, <1>1, <1>2, <1>3, <1>4, <1>5 DEF Next

\* The sets the counters are compared with are the uses of the channels.
LEMMA UsesSplit ==
  ASSUME LifeInv, NEW e \in Ends
  PROVE  /\ Cardinality(Members(chan, e, "pending"))
              = Count(Asking(e)) + Count(PeerAt(e, {"rejecting", "accepting", "securing"}))
         /\ Cardinality(Members(chan, e, "active"))
              = Count(Held(e)) + Count(PeerAt(e, {"leased", "held"}))
         /\ Members(chan, e, "queued") = PeerAt(e, {"queued"})
         /\ InUse(e) <=> \E w \in {"pending", "active", "queued"} : Members(chan, e, w) # {}
<1>1. \A c \in Channels : Peer(c) = e <=> chan[c].from # e
  BY Zenon, ChannelFacts DEF Peer, Other, Ends
<1>2. ASSUME NEW S, NEW T, S \subseteq Channels, T \subseteq Channels, S \cap T = {}
      PROVE  Cardinality(S \cup T) = Cardinality(S) + Cardinality(T)
  <2>1. IsFiniteSet(S) /\ IsFiniteSet(T)
    BY Zenon, <1>2, PnAssumption, FS_Subset
  <2>2. Cardinality(S) \in Nat /\ Cardinality(T) \in Nat /\ Cardinality(S \cap T) = 0
    BY Zenon, <1>2, <2>1, FS_CardinalityType, FS_EmptySet
  <2>3. Cardinality(S \cup T) = Cardinality(S) + Cardinality(T) - Cardinality(S \cap T)
    BY Zenon, <2>1, FS_Union
  <2> QED
    BY <2>2, <2>3
<1>3. PICK S, T : S = Asking(e) /\ T = PeerAt(e, {"rejecting", "accepting", "securing"})
  BY Zenon
<1>4. /\ S \subseteq Channels /\ T \subseteq Channels /\ S \cap T = {}
      /\ Members(chan, e, "pending") = S \cup T
  BY Zenon, <1>1, <1>3 DEF Asking, PeerAt, Members, UseAt
<1>5. PICK U, V : U = Held(e) /\ V = PeerAt(e, {"leased", "held"})
  BY Zenon
<1>6. /\ U \subseteq Channels /\ V \subseteq Channels /\ U \cap V = {}
      /\ Members(chan, e, "active") = U \cup V
  BY Zenon, <1>1, <1>5 DEF Held, PeerAt, Members, UseAt
<1>7. Members(chan, e, "queued") = PeerAt(e, {"queued"})
  BY Zenon, <1>1 DEF PeerAt, Members, UseAt
<1>8. PeerAt(e, {"queued", "rejecting", "accepting", "securing", "leased", "held"})
        = PeerAt(e, {"queued"}) \cup T \cup V
  BY Zenon, <1>3, <1>5 DEF PeerAt
<1>9. InUse(e) <=> \E w \in {"pending", "active", "queued"} : Members(chan, e, w) # {}
  <2>1. InUse(e) <=> S # {} \/ U # {} \/ (PeerAt(e, {"queued"}) \cup T \cup V) # {}
    BY Zenon, <1>3, <1>5, <1>8 DEF InUse
  <2> QED
    BY Zenon, <2>1, <1>4, <1>6, <1>7
<1> QED
  BY Zenon, <1>2, <1>3, <1>4, <1>5, <1>6, <1>7, <1>9 DEF Count

\* The inductive invariant says what CountsExact does.
LEMMA PnInvCounts ==
  ASSUME PnInv
  PROVE  CountsExact
<1> SUFFICES ASSUME NEW e \in Ends
             PROVE  /\ life[e].pending = Count(Asking(e))
                                 + Count(PeerAt(e, {"rejecting", "accepting", "securing"}))
                    /\ life[e].active = Count(Held(e)) + Count(PeerAt(e, {"leased", "held"}))
                    /\ life[e].queued = IF Closed(e) THEN 0 ELSE Count(PeerAt(e, {"queued"}))
                    /\ is_open(life[e]) => /\ life[e].zero <=> ~InUse(e)
                                           /\ life[e].zero => life[e].gen \in timers[e]
  BY Zenon DEF CountsExact
<1>1. LifeInv
  BY Zenon DEF PnInv
<1>2. /\ EndOK(life[e], timers[e], closing[e]) /\ CountOK(life[e], closing[e], chan, e)
      /\ life[e] \in Life
  BY Zenon, <1>1, LifeTypes
<1>3. /\ life[e].pending = Count(Asking(e)) + Count(PeerAt(e, {"rejecting", "accepting", "securing"}))
      /\ life[e].active = Count(Held(e)) + Count(PeerAt(e, {"leased", "held"}))
  BY Zenon, <1>1, <1>2, UsesSplit DEF CountOK
<1>4. life[e].queued = IF Closed(e) THEN 0 ELSE Count(PeerAt(e, {"queued"}))
  BY Zenon, <1>1, <1>2, UsesSplit DEF CountOK, EndOK, Closed, Count
<1>5. ASSUME is_open(life[e])
      PROVE  (life[e].zero <=> ~InUse(e)) /\ (life[e].zero => life[e].gen \in timers[e])
  <2>1. /\ closing[e] = "no" /\ (life[e].zero <=> total_channels(life[e]) = 0)
        /\ life[e].zero => life[e].gen \in timers[e]
    BY Zenon, <1>2, <1>5 DEF EndOK, is_open
  <2>2. ASSUME NEW w
        PROVE  /\ Cardinality(Members(chan, e, w)) \in Nat
               /\ Cardinality(Members(chan, e, w)) = 0 <=> Members(chan, e, w) = {}
    <3>1. IsFiniteSet(Members(chan, e, w))
      BY Zenon, PnAssumption, FS_Subset DEF Members
    <3> QED
      BY Zenon, <3>1, FS_CardinalityType, FS_EmptySet
  <2>3. /\ life[e].pending = Cardinality(Members(chan, e, "pending"))
        /\ life[e].active = Cardinality(Members(chan, e, "active"))
        /\ life[e].queued = Cardinality(Members(chan, e, "queued"))
    BY Zenon, <1>2, <2>1 DEF CountOK
  <2>4. total_channels(life[e]) = 0 <=> \A w \in {"pending", "active", "queued"} : Members(chan, e, w) = {}
    BY <2>2, <2>3 DEF total_channels
  <2> QED
    BY Zenon, <1>1, <2>1, <2>4, UsesSplit
<1> QED
  BY Zenon, <1>3, <1>4, <1>5

\* The three counters of each end of a proxy tunnel are the channels that are
\* pending, active and queued there, and an open end has its idle clock running,
\* with a check of the current generation asleep, exactly while no channel is in
\* use (PnTunnelLifecycleState and its guards), for any channels, openers and
\* listeners and any number of heartbeats.
THEOREM ChannelCountsAreExact == Spec => []CountsExact
<1>1. Init => PnInv
  BY Zenon, PnInitInv
<1>2. PnInv /\ [Next]_vars => PnInv'
  BY Zenon, PnNextInv
<1>3. PnInv => CountsExact
  BY Zenon, PnInvCounts
<1> QED
  BY <1>1, <1>2, <1>3, PTL DEF Spec
=============================================================================
