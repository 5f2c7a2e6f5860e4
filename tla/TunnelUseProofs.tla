-------------------------- MODULE TunnelUseProofs --------------------------
(***************************************************************************)
(* The safety of a tunnel in use, for any number of users, tasks,          *)
(* candidates and claims: the activity of a tunnel, the tunnel manager,    *)
(* and the leases of a TCP data connection.                                *)
(***************************************************************************)
EXTENDS TunnelManager, ActivityUse, TcpLease, FiniteSetTheorems, TLAPS

-----------------------------------------------------------------------------
(***************************************************************************)
(* Proofs about ActivityUse: the counters are exact for any set of users,  *)
(* and ActivityUse implements UseGate.                                     *)
(***************************************************************************)

\* The counters of TunnelActivity are the numbers of guards that exist, and
\* only users have guards.
Exact ==
  /\ activity \in Activity
  /\ pend \subseteq User /\ IsFiniteSet(pend)
  /\ held \subseteq User \X Half /\ IsFiniteSet(held)
  /\ activity.pending = Cardinality(pend)
  /\ activity.work = Cardinality(held)
  /\ \A u \in pend : Halves(u) = {}

\* Adding a new element to a finite set adds one to its size.
LEMMA AddOne ==
  ASSUME NEW S, IsFiniteSet(S), NEW x, x \notin S
  PROVE  /\ IsFiniteSet(S \cup {x})
         /\ Cardinality(S) \in Nat
         /\ Cardinality(S \cup {x}) = Cardinality(S) + 1
BY Zenon, FS_AddElement, FS_CardinalityType

\* Removing an element takes one away, and there was one to take.
LEMMA RemoveOne ==
  ASSUME NEW S, IsFiniteSet(S), NEW x \in S
  PROVE  /\ IsFiniteSet(S \ {x})
         /\ Cardinality(S) \in Nat
         /\ Cardinality(S) > 0
         /\ Cardinality(S \ {x}) = Cardinality(S) - 1
<1>1. /\ IsFiniteSet(S \ {x})
      /\ Cardinality(S \ {x}) = Cardinality(S) - 1
  BY Zenon, FS_RemoveElement
<1>2. Cardinality(S) \in Nat /\ Cardinality(S \ {x}) \in Nat
  BY Zenon, <1>1, FS_CardinalityType
<1> QED  BY <1>1, <1>2

\* One half of a channel is one guard, both halves are two.
LEMMA HalfCounts ==
  /\ Cardinality({"r"}) = 1
  /\ Cardinality({"w"}) = 1
  /\ Cardinality(Half) = 2
<1>1. Cardinality({"r"}) = 1 /\ Cardinality({"w"}) = 1 /\ IsFiniteSet({"r"})
  BY Zenon, FS_Singleton
<1>2. Half = {"r"} \cup {"w"} /\ "w" \notin {"r"}
  BY Zenon DEF Half
<1>3. Cardinality({"r"} \cup {"w"}) = Cardinality({"r"}) + 1
  BY Zenon, <1>1, <1>2, AddOne
<1> QED  BY <1>1, <1>2, <1>3

\* Handing the halves H of a channel to a user that has none adds as many
\* guards as H has halves.
LEMMA AddHalves ==
  ASSUME NEW u \in User, NEW H \in {{"r"}, {"w"}, Half}, Exact, Halves(u) = {}
  PROVE  /\ IsFiniteSet(held \cup ({u} \X H))
         /\ held \cup ({u} \X H) \subseteq User \X Half
         /\ Cardinality(held \cup ({u} \X H)) = Cardinality(held) + Cardinality(H)
         /\ Cardinality(H) \in Nat
<1> DEFINE more == held \cup ({u} \X H)
<1>1. <<u, "r">> \notin held /\ <<u, "w">> \notin held
  BY Zenon DEF Halves, Half
<1>2. more \subseteq User \X Half
  BY Zenon DEF Exact, Half
<1>3. ASSUME H = Half
      PROVE  IsFiniteSet(more) /\ Cardinality(more) = Cardinality(held) + 2
  <2> DEFINE one == held \cup {<<u, "r">>}
  <2>1. more = one \cup {<<u, "w">>}
    BY <1>3 DEF Half
  <2>2. /\ IsFiniteSet(one)
        /\ Cardinality(one) = Cardinality(held) + 1
        /\ Cardinality(held) \in Nat
    BY Zenon, <1>1, AddOne DEF Exact
  <2>3. <<u, "w">> \notin one
    BY Zenon, <1>1
  <2> HIDE DEF more, one
  <2>4. /\ IsFiniteSet(one \cup {<<u, "w">>})
        /\ Cardinality(one \cup {<<u, "w">>}) = Cardinality(one) + 1
    BY Zenon, <2>2, <2>3, AddOne
  <2> QED  BY <2>1, <2>2, <2>4
<1>4. ASSUME NEW h \in Half, H = {h}
      PROVE  IsFiniteSet(more) /\ Cardinality(more) = Cardinality(held) + 1
  <2>1. more = held \cup {<<u, h>>} /\ <<u, h>> \notin held
    BY <1>1, <1>4 DEF Half
  <2> HIDE DEF more
  <2> QED  BY Zenon, <2>1, AddOne DEF Exact
<1>5. \/ H = {"r"} /\ Cardinality(H) = 1
      \/ H = {"w"} /\ Cardinality(H) = 1
      \/ H = Half /\ Cardinality(H) = 2
  BY Zenon, HalfCounts
<1>6. "r" \in Half /\ "w" \in Half
  BY Zenon DEF Half
<1> HIDE DEF more
<1>7. IsFiniteSet(more) /\ Cardinality(more) = Cardinality(held) + Cardinality(H)
  BY Zenon, <1>3, <1>4, <1>5, <1>6
<1> QED  BY <1>2, <1>5, <1>7 DEF more

-----------------------------------------------------------------------------
(* The counters stay exact: one lemma per way of using the counter.        *)

\* begin_pending counts the new pending open.
LEMMA BeginExact ==
  ASSUME Exact, NEW u \in User, Begin(u)
  PROVE  Exact'
<1>1. /\ IsFiniteSet(pend')
      /\ Cardinality(pend') = Cardinality(pend) + 1
      /\ Cardinality(pend) \in Nat
  BY Zenon, AddOne DEF Exact, Begin
<1>2. activity' \in Activity /\ activity'.pending = activity.pending + 1
      /\ activity'.work = activity.work
  BY DEF Exact, Begin, BeginPending, Activity
<1>3. \A x \in pend' : Halves(x)' = {}
  BY Zenon DEF Exact, Begin, Halves
<1> QED  BY Zenon, <1>1, <1>2, <1>3 DEF Exact, Begin

\* What promote does to the counters.
LEMMA PromoteCounts ==
  ASSUME NEW a \in Activity, NEW n \in Nat, a.pending > 0
  PROVE  /\ Promote(a, n) \in Activity
         /\ Promote(a, n).pending = a.pending - 1
         /\ Promote(a, n).work = IF Live(a) THEN a.work + n ELSE a.work
<1> DEFINE w == IF Live(a) THEN a.work + n ELSE a.work
<1>1. w \in Nat /\ Less(a.pending) \in Nat /\ Less(a.pending) = a.pending - 1
  BY DEF Activity, Less
<1>2. Promote(a, n) = [a EXCEPT !.pending = Less(@), !.work = w]
  BY Zenon DEF Promote
<1> HIDE DEF w
<1>3. /\ Promote(a, n) \in Activity
      /\ Promote(a, n).pending = Less(a.pending)
      /\ Promote(a, n).work = w
  BY Zenon, <1>1, <1>2 DEF Activity
<1> QED  BY Zenon, <1>1, <1>3 DEF w

\* promote turns a pending open into the halves of its channel, or, on a
\* retired tunnel, into nothing.
LEMMA EstablishExact ==
  ASSUME Exact, NEW u \in User, NEW H \in {{"r"}, {"w"}, Half}, Establish(u, H)
  PROVE  Exact'
<1>1. /\ IsFiniteSet(pend')
      /\ Cardinality(pend) > 0 /\ Cardinality(pend) \in Nat
      /\ Cardinality(pend') = Cardinality(pend) - 1
  BY Zenon, RemoveOne DEF Exact, Establish
<1>2. Halves(u) = {}
  BY Zenon DEF Exact, Establish
<1>3. /\ IsFiniteSet(held \cup ({u} \X H))
      /\ held \cup ({u} \X H) \subseteq User \X Half
      /\ Cardinality(held \cup ({u} \X H)) = Cardinality(held) + Cardinality(H)
      /\ Cardinality(H) \in Nat
  BY Zenon, <1>2, AddHalves
<1>4. /\ activity' \in Activity
      /\ activity'.pending = activity.pending - 1
      /\ activity'.work = IF Live(activity) THEN activity.work + Cardinality(H)
                          ELSE activity.work
  <2> DEFINE n == Cardinality(H)
  <2>1. n \in Nat /\ activity' = Promote(activity, n)
    BY Zenon, <1>3 DEF Establish
  <2>2. activity \in Activity /\ activity.pending > 0
    BY Zenon, <1>1 DEF Exact
  <2> HIDE DEF n
  <2>3. /\ Promote(activity, n) \in Activity
        /\ Promote(activity, n).pending = activity.pending - 1
        /\ Promote(activity, n).work = IF Live(activity) THEN activity.work + n
                                       ELSE activity.work
    BY Zenon, <2>1, <2>2, PromoteCounts
  <2> QED  BY Zenon, <2>1, <2>3 DEF n
<1>5. \A x \in pend' : Halves(x)' = {}
  BY Zenon DEF Exact, Establish, Halves
<1>6. /\ IsFiniteSet(held') /\ held' \subseteq User \X Half
      /\ activity'.work = Cardinality(held')
  BY Zenon, <1>3, <1>4 DEF Exact, Establish
<1> QED  BY Zenon, <1>1, <1>4, <1>5, <1>6 DEF Exact, Establish

\* Drop of PendingTunnelActivity.
LEMMA GiveUpExact ==
  ASSUME Exact, NEW u \in User, GiveUp(u)
  PROVE  Exact'
<1>1. /\ IsFiniteSet(pend')
      /\ Cardinality(pend) > 0 /\ Cardinality(pend) \in Nat
      /\ Cardinality(pend') = Cardinality(pend) - 1
  BY Zenon, RemoveOne DEF Exact, GiveUp
<1>2. /\ activity' \in Activity
      /\ activity'.pending = activity.pending - 1
      /\ activity'.work = activity.work
  BY <1>1 DEF Exact, GiveUp, DropPending, Less, Activity
<1>3. \A x \in pend' : Halves(x)' = {}
  BY Zenon DEF Exact, GiveUp, Halves
<1> QED  BY Zenon, <1>1, <1>2, <1>3 DEF Exact, GiveUp

\* track_stream_result counts both halves of an accepted control stream.
LEMMA TrackExact ==
  ASSUME Exact, NEW u \in User, Track(u)
  PROVE  Exact'
<1>1. /\ IsFiniteSet(held') /\ held' \subseteq User \X Half
      /\ Cardinality(held') = Cardinality(held) + 2
  BY Zenon, AddHalves, HalfCounts DEF Track
<1>2. /\ activity' \in Activity
      /\ activity'.pending = activity.pending
      /\ activity'.work = activity.work + 2
  BY DEF Exact, Track, AcquireWork, Activity
<1>3. \A x \in pend' : Halves(x)' = {}
  BY Zenon DEF Exact, Track, Halves
<1> QED  BY Zenon, <1>1, <1>2, <1>3 DEF Exact, Track

\* Drop of TunnelWorkActivity.
LEMMA ReleaseExact ==
  ASSUME Exact, NEW u \in User, NEW h \in Half, Release(u, h)
  PROVE  Exact'
<1>1. /\ IsFiniteSet(held')
      /\ Cardinality(held) > 0 /\ Cardinality(held) \in Nat
      /\ Cardinality(held') = Cardinality(held) - 1
  BY Zenon, RemoveOne DEF Exact, Release
<1>2. /\ activity' \in Activity
      /\ activity'.pending = activity.pending
      /\ activity'.work = activity.work - 1
  BY <1>1 DEF Exact, Release, DropWork, Less, Activity
<1>3. \A x \in pend' : Halves(x)' = {}
  BY Zenon DEF Exact, Release, Halves
<1>4. held' \subseteq User \X Half
  BY Zenon DEF Exact, Release
<1> QED  BY Zenon, <1>1, <1>2, <1>3, <1>4 DEF Exact, Release

\* Retirement, of either kind, moves no counter.
LEMMA RetireExact ==
  ASSUME Exact, RetireIdle \/ Retire
  PROVE  Exact'
<1>1. /\ activity' \in Activity
      /\ activity'.pending = activity.pending
      /\ activity'.work = activity.work
  BY Zenon DEF Exact, RetireIdle, Retire, RetiredIdle, Retired, Activity, Lives
<1>2. pend' = pend /\ held' = held
  BY Zenon DEF RetireIdle, Retire
<1> QED  BY Zenon, <1>1, <1>2 DEF Exact, Halves

LEMMA NextExact ==
  ASSUME Exact, [UseNext]_useVars
  PROVE  Exact'
<1>1. CASE UNCHANGED useVars
  BY Zenon, <1>1 DEF Exact, useVars, Halves
<1>2. CASE UseNext
  BY Zenon, <1>2, BeginExact, EstablishExact, GiveUpExact, TrackExact, ReleaseExact,
     RetireExact DEF UseNext
<1> QED  BY Zenon, <1>1, <1>2

LEMMA InitExact ==
  ASSUME UseInit
  PROVE  Exact
BY Zenon, FS_EmptySet DEF UseInit, Exact, NewActivity, Activity, Lives, Halves

\* Whoever the users are and however many: the counters of TunnelActivity are
\* the numbers of guards in existence (no guard is counted twice, none is
\* forgotten, and the saturating decrements never saturate).
THEOREM CountersExact == UseSpec => []Exact
BY InitExact, NextExact, PTL DEF UseSpec

-----------------------------------------------------------------------------
(* ActivityUse implements UseGate.                                         *)

\* Two users never share a guard: what one takes or drops leaves the halves of
\* another as they are.
LEMMA OthersHalves ==
  ASSUME NEW u, NEW H, NEW x, x # u,
         held' = held \cup ({u} \X H) \/ held' = held \/ (\E h : held' = held \ {<<u, h>>})
  PROVE  Halves(x)' = Halves(x)
BY Zenon DEF Halves

\* A user that starts is new to the gate.
LEMMA Entering ==
  ASSUME Exact, NEW u \in User, Begin(u) \/ Track(u)
  PROVE  Gate!Enter(u)
<1>1. u \notin Users /\ activity'.life = activity.life /\ activity.life = "Live"
  BY Zenon DEF Begin, Track, Users, Exact, Activity, BeginPending, AcquireWork, Live
<1>2. \A x \in User : x # u => Halves(x)' = Halves(x)
  BY Zenon, OthersHalves DEF Begin, Track
<1>3. CASE Begin(u)
  <2>1. \A x \in User : Halves(x)' = Halves(x)
    BY Zenon, <1>3 DEF Begin, Halves
  <2>2. Users' = Users \cup {u}
    BY Zenon, <1>3, <2>1 DEF Begin, Users
  <2> QED  BY Zenon, <1>1, <2>2 DEF Gate!Enter
<1>4. CASE Track(u)
  <2>1. Halves(u)' # {}
    BY Zenon, <1>4 DEF Track, Halves, Half
  <2>2. Users' = Users \cup {u}
    BY Zenon, <1>2, <1>4, <2>1 DEF Track, Users
  <2> QED  BY Zenon, <1>1, <2>2 DEF Gate!Enter
<1> QED  BY Zenon, <1>3, <1>4

\* A pending open that ends without a channel leaves the gate.
LEMMA LeavingPending ==
  ASSUME Exact, NEW u \in User, u \in pend, pend' = pend \ {u}, held' = held,
         activity'.life = activity.life
  PROVE  Gate!Leave(u)
<1>1. Halves(u) = {} /\ \A x \in User : Halves(x)' = Halves(x)
  BY Zenon DEF Exact, Halves
<1>2. Users' = Users \ {u} /\ u \in Users
  BY Zenon, <1>1 DEF Users
<1> QED  BY Zenon, <1>2 DEF Gate!Leave

\* A pending open that becomes a channel stays inside, or, on a retired tunnel,
\* leaves.
LEMMA Establishing ==
  ASSUME Exact, NEW u \in User, NEW H \in {{"r"}, {"w"}, Half}, Establish(u, H)
  PROVE  [Gate!Next]_(Gate!gate)
<1>1. activity'.life = activity.life
  BY Zenon DEF Establish, Promote, Exact, Activity
<1>2. CASE Live(activity)
  <2>1. \A x \in User : x # u => Halves(x)' = Halves(x)
    BY Zenon, <1>2, OthersHalves DEF Establish
  <2>2. Halves(u)' # {}
    BY Zenon, <1>2 DEF Establish, Halves, Half
  <2>3. Users' = Users
    BY Zenon, <2>1, <2>2 DEF Establish, Users, Exact
  <2> QED  BY Zenon, <1>1, <2>3 DEF Gate!gate
<1>3. CASE ~Live(activity)
  <2>1. Gate!Leave(u)
    BY Zenon, <1>1, <1>3, LeavingPending DEF Establish
  <2> QED  BY Zenon, <2>1 DEF Gate!Next
<1> QED  BY Zenon, <1>2, <1>3

\* A half that is dropped is the last one of its user, or changes nothing.
LEMMA Releasing ==
  ASSUME Exact, NEW u \in User, NEW h \in Half, Release(u, h)
  PROVE  [Gate!Next]_(Gate!gate)
<1>1. activity'.life = activity.life
  BY Zenon DEF Release, DropWork, Exact, Activity
<1>2. \A x \in User : x # u => Halves(x)' = Halves(x)
  BY Zenon, OthersHalves DEF Release
<1>3. u \notin pend /\ Halves(u) # {}
  BY Zenon DEF Exact, Release, Halves
<1>4. CASE Halves(u)' = {}
  <2>1. Users' = Users \ {u} /\ u \in Users
    BY Zenon, <1>2, <1>3, <1>4 DEF Release, Users
  <2> QED  BY Zenon, <1>1, <2>1 DEF Gate!Next, Gate!Leave
<1>5. CASE Halves(u)' # {}
  <2>1. Users' = Users
    BY Zenon, <1>2, <1>3, <1>5 DEF Release, Users
  <2> QED  BY Zenon, <1>1, <2>1 DEF Gate!gate
<1> QED  BY Zenon, <1>4, <1>5

\* try_retire_idle finds both counters at zero: there is no user.
LEMMA RetiringIdle ==
  ASSUME Exact, RetireIdle
  PROVE  Gate!RetireIdle
<1>1. pend = {} /\ held = {}
  BY Zenon, FS_EmptySet DEF Exact, RetireIdle, MayRetireIdle
<1>2. Users = {} /\ Users' = {}
  BY Zenon, <1>1 DEF Users, Halves, RetireIdle
<1>3. activity.life = "Live" /\ activity'.life = "Idle"
  BY Zenon DEF RetireIdle, MayRetireIdle, RetiredIdle, Live, Exact, Activity
<1> QED  BY Zenon, <1>2, <1>3 DEF Gate!RetireIdle

\* retire changes the lifecycle only, and only once.
LEMMA Retiring ==
  ASSUME Exact, Retire
  PROVE  [Gate!Next]_(Gate!gate)
<1>1. Users' = Users
  BY Zenon DEF Users, Halves, Retire
<1>2. activity'.life = IF Live(activity) THEN "Forced" ELSE activity.life
  BY Zenon DEF Retire, Retired, Exact, Activity
<1> QED  BY Zenon, <1>1, <1>2 DEF Gate!Next, Gate!Retire, Gate!gate, Live

\* Every step of ActivityUse is a step of the gate or changes nothing there.
LEMMA GateStep ==
  ASSUME Exact, [UseNext]_useVars
  PROVE  [Gate!Next]_(Gate!gate)
<1>1. CASE UNCHANGED useVars
  BY Zenon, <1>1 DEF useVars, Gate!gate, Users, Halves
<1>2. ASSUME NEW u \in User, Begin(u) \/ Track(u)
      PROVE  Gate!Next
  BY Zenon, <1>2, Entering DEF Gate!Next
<1>3. ASSUME NEW u \in User, GiveUp(u)
      PROVE  Gate!Next
  <2>1. activity'.life = activity.life
    BY Zenon, <1>3 DEF GiveUp, DropPending, Exact, Activity
  <2> QED  BY Zenon, <1>3, <2>1, LeavingPending DEF GiveUp, Gate!Next
<1>4. CASE RetireIdle
  BY Zenon, <1>4, RetiringIdle DEF Gate!Next
<1> QED  BY Zenon, <1>1, <1>2, <1>3, <1>4, Establishing, Releasing, Retiring DEF UseNext

\* For any users: a tunnel that uses its counter as ActivityUse says is
\* entered only while it is live, and is retired for idleness only when
\* nobody uses it (TunnelActivity implements the gate).
THEOREM ActivityImplementsGate == UseSpec => ImplementsGate
<1>1. UseInit => Gate!Init
  BY DEF UseInit, Gate!Init, NewActivity, Users, Halves
<1>2. Exact /\ [UseNext]_useVars => [Gate!Next]_(Gate!gate)
  BY Zenon, GateStep
<1> QED  BY <1>1, <1>2, CountersExact, PTL DEF UseSpec, ImplementsGate, Gate!Spec

\* For any users: a tunnel that try_retire_idle has retired has no pending open
\* and no channel, neither then nor later.
THEOREM IdleRetirementCutsNobody == UseSpec => []Gate!IdleIsUnused
<1>1. UseInit => Gate!IdleIsUnused
  BY DEF UseInit, NewActivity, Gate!IdleIsUnused
<1>2. Gate!IdleIsUnused /\ [Gate!Next]_(Gate!gate) => Gate!IdleIsUnused'
  BY Zenon DEF Gate!IdleIsUnused, Gate!Next, Gate!gate, Gate!Enter, Gate!Leave,
         Gate!RetireIdle, Gate!Retire
<1> QED  BY <1>1, <1>2, ActivityImplementsGate, PTL
         DEF UseSpec, ImplementsGate, Gate!Spec

-----------------------------------------------------------------------------
(***************************************************************************)
(* The proxy-upgrade state of the tunnel manager, for any number of tasks  *)
(* and candidates: while an upgrade is scheduled no direct candidate of    *)
(* the table is usable, and a generation has at most one attempt.  The     *)
(* first rests on who owns a dial: a candidate that is being dialled is in *)
(* one task's dials or abandoned, and in nobody's table or hands, so that  *)
(* a dial that succeeds adds no usable entry.                              *)
(***************************************************************************)

\* The fields the argument is about have their types
TableTypes ==
  /\ life \in [Tunnel -> {"down", "dialing", "up", "dropped"}]
  /\ pool \in [Tunnel -> {"out", "hidden", "published"}]
  /\ accepted \in [Tunnel -> {"no", "arrived", "registered"}]
  /\ task \in [Task -> TaskRecord]
  /\ abandoned \subseteq Tunnel
  /\ upgrade \in [on : BOOLEAN, gen : Gens \cup {0}, due : BOOLEAN, in_progress : BOOLEAN]

\* From register_tunnel on a task has a tunnel
Holds(r) == r.pc \in {"register", "publish", "finalize"} => r.got \in Tunnel

HoldsItsTunnel == \A k \in Task : Holds(task[k])

\* A dial belongs to one task or to the cleanup, and nobody has its tunnel yet
DialsOwned ==
  /\ \A t \in Tunnel : life[t] = "dialing" =>
       /\ pool[t] = "out" /\ accepted[t] = "no"
       /\ \A k \in Task : task[k].given # t /\ task[k].got # t
  /\ \A k \in Task : \A t \in task[k].dials :
       /\ life[t] = "dialing" /\ t \notin abandoned
       /\ \A j \in Task : t \in task[j].dials => j = k
  /\ \A t \in abandoned : life[t] = "dialing"

\* UpgradeMeansNoDirect of a table p and connections l
NoDirect(upg, p, l) == upg.on => \A t \in DirectTunnels : l[t] = "up" => p[t] = "out"

\* AttemptIsExclusive, with what makes it inductive: a generation is not 0
OneAttempt(upg, tasks) ==
  upg.on =>
    /\ upg.gen \in Gens
    /\ \A u \in Upgraders : tasks[u].gen = upg.gen =>
         /\ upg.in_progress
         /\ \A v \in Upgraders : tasks[v].gen = upg.gen => v = u

\* Only upgrades carry a generation
OpenersHaveNone == \A k \in Openers : task[k].gen = 0

\* The inductive invariant
ManagerInv ==
  /\ TableTypes /\ HoldsItsTunnel /\ DialsOwned /\ OpenersHaveNone
  /\ NoDirect(upgrade, pool, life) /\ OneAttempt(upgrade, task)

-----------------------------------------------------------------------------

\* There are more generations than tasks to carry them
LEMMA GenerationLeft ==
  ASSUME task \in [Task -> TaskRecord]
  PROVE  \E g \in Gens : \A u \in Upgraders : task[u].gen # g
<1> DEFINE n == Cardinality(Upgraders)
           carried == {g \in Gens : \E u \in Upgraders : task[u].gen = g}
           carriers == {u \in Upgraders : task[u].gen \in Gens}
           carries == [u \in carriers |-> task[u].gen]
<1>1. n \in Nat
  BY Zenon, FS_CardinalityType, ConstantsDiffer
<1>2. IsFiniteSet(carriers) /\ Cardinality(carriers) <= n
  <2>1. carriers \in SUBSET Upgraders
    BY Zenon
  <2> QED BY Zenon, <2>1, FS_Subset, ConstantsDiffer
<1>3. carries \in Surjection(carriers, carried)
  BY Zenon DEF Surjection
<1>4. IsFiniteSet(carried) /\ Cardinality(carried) <= Cardinality(carriers)
  <2> HIDE DEF carries, carriers, carried
  <2> QED BY Zenon, <1>2, <1>3, FS_Surjection
<1>5. IsFiniteSet(Gens) /\ Cardinality(Gens) = n + 1
  BY <1>1, FS_Interval DEF Gens
<1>6. SUFFICES ASSUME carried = Gens PROVE FALSE
  BY Zenon
<1>7. Cardinality(carriers) \in Nat /\ Cardinality(carried) \in Nat
  <2> HIDE DEF carriers, carried
  <2> QED BY Zenon, <1>2, <1>4, FS_CardinalityType
<1> HIDE DEF carriers, carried
<1> QED BY <1>1, <1>2, <1>4, <1>5, <1>6, <1>7

\* A fresh generation is carried by no task
LEMMA FreshGenIsFresh ==
  ASSUME task \in [Task -> TaskRecord]
  PROVE  FreshGen \in Gens /\ \A u \in Upgraders : task[u].gen # FreshGen
BY Zenon, GenerationLeft DEF FreshGen

\* A generation is a positive number
LEMMA GensPositive == 0 \notin Gens
BY FS_CardinalityType, ConstantsDiffer DEF Gens

\* What a step may do to the upgrade state besides changing an attempt's flags:
\* keep it, remove it, or put one of a fresh generation in its place
Renewed ==
  \/ upgrade' = upgrade
  \/ ~upgrade'.on
  \/ upgrade'.gen \in Gens /\ \A u \in Upgraders : task[u].gen # upgrade'.gen

UpgradeTyped ==
  upgrade \in [on : BOOLEAN, gen : Gens \cup {0}, due : BOOLEAN, in_progress : BOOLEAN]

\* reconcile_proxy_upgrade_state leaves no upgrade beside a usable direct entry
LEMMA ReconcileEffect ==
  ASSUME TableTypes, NEW p \in [Tunnel -> {"out", "hidden", "published"}], Reconcile(p)
  PROVE  UpgradeTyped' /\ Renewed /\ NoDirect(upgrade', p, life)
<1>1. FreshGen \in Gens /\ \A u \in Upgraders : task[u].gen # FreshGen
  BY Zenon, FreshGenIsFresh DEF TableTypes
<1>2. AvailableEntries(p) \cap DirectTunnels = {} => NoDirect(upgrade', p, life)
  BY Zenon DEF NoDirect, AvailableEntries, Available, Tunnel
<1>3. CASE RemoveUpgrade
  BY Zenon, <1>3 DEF RemoveUpgrade, NoUpgrade, UpgradeTyped, Renewed, NoDirect
<1>4. CASE InsertUpgrade /\ AvailableEntries(p) \subseteq ProxyTunnels
  BY Zenon, <1>1, <1>2, <1>4, ConstantsDiffer DEF InsertUpgrade, UpgradeTyped, Renewed
<1>5. CASE upgrade' = upgrade /\ AvailableEntries(p) \subseteq ProxyTunnels
  BY <1>2, <1>5, ConstantsDiffer DEF TableTypes, UpgradeTyped, Renewed
<1> QED BY Zenon, <1>3, <1>4, <1>5 DEF Reconcile

\* retain(is_tunnel_available) adds no entry
LEMMA PrunedEffect ==
  ASSUME TableTypes
  PROVE  /\ Pruned \in [Tunnel -> {"out", "hidden", "published"}]
         /\ \A t \in Tunnel : Pruned[t] # "out" => life[t] = "up" /\ pool[t] # "out"
BY Zenon DEF TableTypes, Pruned, Available

\* register_tunnel adds its own entry, and leaves no upgrade beside a usable direct one
LEMMA RegisterEffect ==
  ASSUME TableTypes, NEW t \in Tunnel, RegisterTunnel(t)
  PROVE  /\ pool' \in [Tunnel -> {"out", "hidden", "published"}]
         /\ \A d \in Tunnel : pool'[d] # "out" => d = t \/ pool[d] # "out"
         /\ UpgradeTyped' /\ Renewed /\ NoDirect(upgrade', pool', life)
<1> DEFINE p == [Pruned EXCEPT ![t] = "hidden"]
<1>1. /\ p \in [Tunnel -> {"out", "hidden", "published"}]
      /\ \A d \in Tunnel : p[d] # "out" => d = t \/ pool[d] # "out"
  BY Zenon, PrunedEffect
<1>2. pool' = p
  BY Zenon DEF RegisterTunnel
<1>3. FreshGen \in Gens /\ \A u \in Upgraders : task[u].gen # FreshGen
  BY Zenon, FreshGenIsFresh DEF TableTypes
<1> HIDE DEF p
<1>4. CASE RemoveUpgrade
  BY Zenon, <1>1, <1>2, <1>4 DEF RemoveUpgrade, NoUpgrade, UpgradeTyped, Renewed, NoDirect
<1>5. CASE InsertUpgrade /\ AvailableEntries(p) \cap DirectTunnels = {}
  <2>1. NoDirect(upgrade', p, life)
    BY Zenon, <1>5 DEF NoDirect, AvailableEntries, Available, Tunnel
  <2> QED BY Zenon, <1>1, <1>2, <1>3, <1>5, <2>1 DEF InsertUpgrade, UpgradeTyped, Renewed
<1>6. CASE Reconcile(p)
  BY Zenon, <1>1, <1>2, <1>6, ReconcileEffect
<1>7. RemoveUpgrade \/ (InsertUpgrade /\ AvailableEntries(p) \cap DirectTunnels = {}) \/ Reconcile(p)
  BY Zenon DEF RegisterTunnel, p
<1> QED BY Zenon, <1>1, <1>2, <1>4, <1>5, <1>6, <1>7

\* Tasks keep their generation or drop it
GensKept == \A k \in Task : task'[k].gen \in {task[k].gen, 0}

\* Then a renewed upgrade state has no attempt, and a kept one no further attempt
LEMMA OneAttemptKept ==
  ASSUME OneAttempt(upgrade, task), Renewed, GensKept
  PROVE  OneAttempt(upgrade', task')
BY Zenon, GensPositive DEF OneAttempt, Renewed, GensKept, Task

-----------------------------------------------------------------------------

\* The tunnels a task may be handed: not one that is being dialled
Free == {t \in Tunnel : life[t] # "dialing"} \cup {None}

\* The task of k may give up dials and its generation, and gains none
Keeps(k) ==
  /\ task' \in [Task -> TaskRecord]
  /\ \A j \in Task : j # k => task'[j] = task[j]
  /\ task'[k].dials \subseteq task[k].dials
  /\ task'[k].given \in Free /\ task'[k].got \in Free
  /\ task'[k].gen \in {task[k].gen, 0}
  /\ Holds(task'[k])

\* What a task has is free
LEMMA HasFree ==
  ASSUME ManagerInv, NEW k \in Task
  PROVE  task[k].given \in Free /\ task[k].got \in Free
BY Zenon DEF ManagerInv, TableTypes, TaskRecord, DialsOwned, Free

\* A step that starts and ends no dial, up to the upgrade state
LEMMA TableKeeps ==
  ASSUME ManagerInv, task' = task \/ \E k \in Task : Keeps(k), abandoned' = abandoned,
         life' \in [Tunnel -> {"down", "dialing", "up", "dropped"}],
         pool' \in [Tunnel -> {"out", "hidden", "published"}],
         accepted' \in [Tunnel -> {"no", "arrived", "registered"}],
         \A t \in Tunnel : /\ life'[t] = "dialing" <=> life[t] = "dialing"
                           /\ life[t] = "dialing" => pool'[t] = "out" /\ accepted'[t] = "no",
         UpgradeTyped'
  PROVE  TableTypes' /\ HoldsItsTunnel' /\ OpenersHaveNone' /\ DialsOwned' /\ GensKept
<1>0. /\ task' \in [Task -> TaskRecord]
      /\ \A k \in Task : /\ task'[k].dials \subseteq task[k].dials
                          /\ task'[k].given \in Free /\ task'[k].got \in Free
                          /\ task'[k].gen \in {task[k].gen, 0} /\ Holds(task'[k])
  <2>1. CASE task' = task
    BY Zenon, <2>1, HasFree DEF ManagerInv, TableTypes, HoldsItsTunnel, Holds
  <2>2. CASE \E k \in Task : Keeps(k)
    <3> PICK k \in Task : Keeps(k)
      BY Zenon, <2>2
    <3> QED BY Zenon, HasFree DEF ManagerInv, HoldsItsTunnel, Keeps, Holds
  <2> QED BY Zenon, <2>1, <2>2
<1>1. TableTypes'
  BY Zenon, <1>0 DEF ManagerInv, TableTypes, UpgradeTyped
<1>2. HoldsItsTunnel' /\ OpenersHaveNone'
  BY Zenon, <1>0 DEF ManagerInv, HoldsItsTunnel, OpenersHaveNone, Task, Holds
<1>3. DialsOwned'
  <2>1. \A k \in Task : task'[k].dials \subseteq Tunnel
    BY Zenon, <1>0 DEF TaskRecord
  <2> QED BY <1>0, <2>1, ConstantsDiffer DEF ManagerInv, TableTypes, DialsOwned, Free
<1> QED BY Zenon, <1>0, <1>1, <1>2, <1>3 DEF GensKept

\* A step that starts and ends no dial
LEMMA StepKeeps ==
  ASSUME ManagerInv, task' = task \/ \E k \in Task : Keeps(k), abandoned' = abandoned,
         life' \in [Tunnel -> {"down", "dialing", "up", "dropped"}],
         pool' \in [Tunnel -> {"out", "hidden", "published"}],
         accepted' \in [Tunnel -> {"no", "arrived", "registered"}],
         \A t \in Tunnel : /\ life'[t] = "dialing" <=> life[t] = "dialing"
                           /\ life[t] = "dialing" => pool'[t] = "out" /\ accepted'[t] = "no",
         UpgradeTyped', Renewed, NoDirect(upgrade', pool', life')
  PROVE  ManagerInv'
<1>1. TableTypes' /\ HoldsItsTunnel' /\ OpenersHaveNone' /\ DialsOwned' /\ GensKept
  BY Zenon, TableKeeps
<1>2. OneAttempt(upgrade', task')
  BY Zenon, <1>1, OneAttemptKept DEF ManagerInv
<1> QED BY Zenon, <1>1, <1>2 DEF ManagerInv

\* A step of one task that touches neither table nor upgrade state
LEMMA QuietKeeps ==
  ASSUME ManagerInv, NEW k \in Task, Keeps(k), UNCHANGED <<life, pool, accepted, abandoned, upgrade>>
  PROVE  ManagerInv'
<1>1. UpgradeTyped' /\ Renewed /\ NoDirect(upgrade', pool', life')
  BY Zenon DEF ManagerInv, TableTypes, UpgradeTyped, Renewed, NoDirect
<1>2. \A t \in Tunnel : life[t] = "dialing" => pool[t] = "out" /\ accepted[t] = "no"
  BY Zenon DEF ManagerInv, DialsOwned
<1> QED BY Zenon, <1>1, <1>2, StepKeeps DEF ManagerInv, TableTypes

\* The task record after a new one or an EXCEPT of some fields is in place
LEMMA IdleTyped == IdleTask \in TaskRecord /\ Holds(IdleTask)
BY Zenon, ConstantsDiffer DEF IdleTask, TaskRecord, Holds

LEMMA TaskSet ==
  ASSUME task \in [Task -> TaskRecord], NEW k \in Task, NEW r \in TaskRecord,
         task' = [task EXCEPT ![k] = r]
  PROVE  /\ task' \in [Task -> TaskRecord] /\ task'[k] = r
         /\ \A j \in Task : j # k => task'[j] = task[j]
BY Zenon

\* Starting an open or a call
LEMMA StartKeeps ==
  ASSUME ManagerInv, NEW k \in Task, StartOpen(k) \/ StartCalled(k)
  PROVE  ManagerInv'
<1>1. PICK kind \in {"open", "called"}, pc \in {"lookup", "lock"} :
        task' = [task EXCEPT ![k] = [IdleTask EXCEPT !.kind = kind, !.pc = pc]]
  BY Zenon DEF StartOpen, StartCalled
<1> DEFINE r == [IdleTask EXCEPT !.kind = kind, !.pc = pc]
<1>2. /\ r \in TaskRecord /\ Holds(r)
      /\ r.dials = {} /\ r.given = None /\ r.got = None /\ r.gen = 0
  BY Zenon, ConstantsDiffer DEF IdleTask, TaskRecord, Holds
<1> HIDE DEF r
<1>3. Keeps(k)
  <2>1. task' = [task EXCEPT ![k] = r]
    BY Zenon, <1>1 DEF r
  <2>2. task \in [Task -> TaskRecord]
    BY Zenon DEF ManagerInv, TableTypes
  <2>3. /\ task' \in [Task -> TaskRecord] /\ task'[k] = r
        /\ \A j \in Task : j # k => task'[j] = task[j]
    BY Zenon, <1>2, <2>1, <2>2, TaskSet
  <2> QED BY Zenon, <1>2, <2>3 DEF Keeps, Free
<1> QED BY Zenon, <1>3, QuietKeeps DEF StartOpen, StartCalled, Untouched

\* Ending a task
LEMMA FinishKeeps ==
  ASSUME task \in [Task -> TaskRecord], NEW k \in Task, Finish(k)
  PROVE  Keeps(k) /\ task'[k] = IdleTask
<1>1. /\ task' \in [Task -> TaskRecord] /\ task'[k] = IdleTask
      /\ \A j \in Task : j # k => task'[j] = task[j]
  BY Zenon, IdleTyped, TaskSet DEF Finish
<1>2. IdleTask.dials = {} /\ IdleTask.given = None /\ IdleTask.got = None /\ IdleTask.gen = 0
  BY Zenon DEF IdleTask
<1> QED BY Zenon, <1>1, <1>2, IdleTyped DEF Keeps, Free

\* Moving a task to a place where it need not hold a tunnel, or holds one
LEMMA SetPcKeeps ==
  ASSUME task \in [Task -> TaskRecord], NEW k \in Task,
         NEW pc \in {"check", "lookup", "lock", "existing", "paths", "publish"},
         SetPc(k, pc), pc = "publish" => task[k].got \in Tunnel,
         task[k].given \in Free, task[k].got \in Free
  PROVE  Keeps(k)
BY DEF SetPc, Keeps, TaskRecord, Holds

\* The steps of a task that touch neither table nor upgrade state
LEMMA WaitingKeeps ==
  ASSUME ManagerInv, NEW k \in Task,
         \/ Check(k) \/ TakeLock(k) \/ StartProxy(k) \/ ProxyErr(k) \/ ReverseStart(k)
         \/ ReverseCallOk(k) \/ ReverseFails(k) \/ ReverseTake(k)
  PROVE  ManagerInv'
<1> USE DEF Untouched
<1>0. task \in [Task -> TaskRecord] /\ task[k].given \in Free /\ task[k].got \in Free
  BY Zenon, HasFree DEF ManagerInv, TableTypes
<1>1. CASE Check(k)
  BY Zenon, <1>0, <1>1, FinishKeeps, SetPcKeeps, QuietKeeps DEF Check
<1>2. CASE TakeLock(k)
  BY Zenon, <1>0, <1>2, SetPcKeeps, QuietKeeps DEF TakeLock
<1>3. CASE StartProxy(k)
  <2>1. Keeps(k)
    BY <1>0, <1>3 DEF StartProxy, PathsFailed, Keeps, TaskRecord, Holds
  <2> QED BY Zenon, <1>3, <2>1, QuietKeeps DEF StartProxy
<1>4. CASE ProxyErr(k)
  <2>0. task[k].pc = "paths" /\ task' = [task EXCEPT ![k].proxy = FALSE]
    BY Zenon, <1>4 DEF ProxyErr
  <2> DEFINE r == [task[k] EXCEPT !.proxy = FALSE]
  <2>1. r \in TaskRecord /\ r.pc = "paths" /\ r.dials = task[k].dials /\ r.given = task[k].given
        /\ r.got = task[k].got /\ r.gen = task[k].gen
    BY <1>0, <2>0 DEF TaskRecord
  <2>2. task' = [task EXCEPT ![k] = r]
    BY Zenon, <2>0
  <2> HIDE DEF r
  <2>3. Keeps(k)
    BY Zenon, <1>0, <2>1, <2>2, TaskSet DEF Keeps, Holds, Free
  <2> QED BY Zenon, <1>4, <2>3, QuietKeeps DEF ProxyErr
<1>5. CASE ReverseStart(k)
  <2>1. Keeps(k)
    BY <1>0, <1>5 DEF ReverseStart, Keeps, TaskRecord, Holds
  <2> QED BY Zenon, <1>5, <2>1, QuietKeeps DEF ReverseStart
<1>6. CASE ReverseCallOk(k)
  <2>1. Keeps(k)
    BY <1>0, <1>6 DEF ReverseCallOk, Keeps, TaskRecord, Holds
  <2> QED BY Zenon, <1>6, <2>1, QuietKeeps DEF ReverseCallOk
<1>7. CASE ReverseFails(k)
  <2>0. task[k].pc = "paths" /\ task' = [task EXCEPT ![k].rev = "off", ![k].given = None]
    BY Zenon, <1>7 DEF ReverseFails
  <2> DEFINE r == [task[k] EXCEPT !.rev = "off", !.given = None]
  <2>1. r \in TaskRecord /\ r.pc = "paths" /\ r.dials = task[k].dials /\ r.given = None
        /\ r.got = task[k].got /\ r.gen = task[k].gen
    BY <1>0, <2>0 DEF TaskRecord
  <2>2. task' = [task EXCEPT ![k] = r]
    BY Zenon, <2>0
  <2> HIDE DEF r
  <2>3. Keeps(k)
    BY Zenon, <1>0, <2>1, <2>2, TaskSet DEF Keeps, Holds, Free
  <2> QED BY Zenon, <1>7, <2>3, QuietKeeps DEF ReverseFails
<1>8. CASE ReverseTake(k)
  <2>1. Keeps(k)
    BY <1>0, <1>8 DEF ReverseTake, Keeps, TaskRecord, Holds
  <2> QED BY Zenon, <1>8, <2>1, QuietKeeps DEF ReverseTake
<1> QED BY Zenon, <1>1, <1>2, <1>3, <1>4, <1>5, <1>6, <1>7, <1>8

-----------------------------------------------------------------------------

\* An upgrade that finds a tunnel in the table finds a usable one
LEMMA FoundUp ==
  ASSUME NEW k \in Task, task[k].kind = "upgrade", NEW t \in Found(k)
  PROVE  t \in Tunnel /\ life[t] = "up"
<1>1. Found(k) = GetNonProxyTunnel
  BY Zenon DEF Found
<1> QED BY Zenon, <1>1 DEF GetNonProxyTunnel, AvailableEntries, Available

\* Handing a usable tunnel to the finalization of an upgrade
LEMMA FinalizingKeeps ==
  ASSUME task \in [Task -> TaskRecord], NEW k \in Task, NEW t \in Tunnel, t \in Free,
         task' = [task EXCEPT ![k] = Finalizing(k, t)]
  PROVE  Keeps(k) /\ task'[k].dials = {}
<1> DEFINE r == Finalizing(k, t)
<1>1. /\ r \in TaskRecord /\ Holds(r)
      /\ r.dials = {} /\ r.given = None /\ r.got = t /\ r.gen = task[k].gen
  BY Zenon DEF Finalizing, IdleTask, TaskRecord, Holds
<1> HIDE DEF r
<1>2. /\ task' \in [Task -> TaskRecord] /\ task'[k] = r
      /\ \A j \in Task : j # k => task'[j] = task[j]
  BY Zenon, <1>1, TaskSet DEF r
<1> QED BY Zenon, <1>1, <1>2 DEF Keeps, Free

\* Done with a tunnel of the table
LEMMA UseExistingKeeps ==
  ASSUME ManagerInv, NEW k \in Task, UseExisting(k)
  PROVE  Keeps(k)
<1>1. task \in [Task -> TaskRecord]
  BY Zenon DEF ManagerInv, TableTypes
<1>2. CASE task[k].kind = "upgrade"
  <2>1. PICK t \in Found(k) : task' = [task EXCEPT ![k] = Finalizing(k, t)]
    BY Zenon, <1>2 DEF UseExisting
  <2>2. t \in Tunnel /\ t \in Free
    BY Zenon, <1>2, FoundUp DEF Free
  <2> QED BY Zenon, <1>1, <2>1, <2>2, FinalizingKeeps
<1>3. CASE task[k].kind # "upgrade"
  BY Zenon, <1>1, <1>3, FinishKeeps DEF UseExisting
<1> QED BY Zenon, <1>2, <1>3

\* A lookup of the table by a task that starts no dial
LEMMA PruneKeeps ==
  ASSUME ManagerInv, NEW k \in Task, Keeps(k), PruneAndReconcile,
         UNCHANGED <<life, accepted, abandoned>>
  PROVE  ManagerInv'
<1>1. TableTypes
  BY Zenon DEF ManagerInv
<1>2. /\ pool' \in [Tunnel -> {"out", "hidden", "published"}]
      /\ \A t \in Tunnel : pool'[t] # "out" => life[t] = "up"
  BY Zenon, <1>1, PrunedEffect DEF PruneAndReconcile
<1>3. UpgradeTyped' /\ Renewed /\ NoDirect(upgrade', pool', life')
  BY Zenon, <1>1, PrunedEffect, ReconcileEffect DEF PruneAndReconcile
<1>4. \A t \in Tunnel : life[t] = "dialing" => pool'[t] = "out" /\ accepted[t] = "no"
  BY Zenon, <1>2 DEF ManagerInv, DialsOwned
<1> QED BY Zenon, <1>1, <1>2, <1>3, <1>4, StepKeeps DEF TableTypes

LEMMA LookupKeeps ==
  ASSUME ManagerInv, NEW k \in Task, Lookup(k)
  PROVE  ManagerInv'
<1>0. task \in [Task -> TaskRecord] /\ task[k].given \in Free /\ task[k].got \in Free
  BY Zenon, HasFree DEF ManagerInv, TableTypes
<1>1. Keeps(k)
  <2>1. CASE UseExisting(k)
    BY Zenon, <2>1, UseExistingKeeps
  <2>2. CASE SetPc(k, "lock")
    BY Zenon, <1>0, <2>2, SetPcKeeps
  <2>3. CASE task' = [task EXCEPT ![k].pc = "paths", ![k].stage = "proxy", ![k].proxy = TRUE]
    <3> DEFINE r == [task[k] EXCEPT !.pc = "paths", !.stage = "proxy", !.proxy = TRUE]
    <3>1. /\ r \in TaskRecord /\ r.pc = "paths" /\ r.dials = task[k].dials
          /\ r.given = task[k].given /\ r.got = task[k].got /\ r.gen = task[k].gen
      <4>1. task[k] \in TaskRecord
        BY Zenon, <1>0
      <4> QED BY Zenon, <4>1 DEF TaskRecord
    <3>2. task' = [task EXCEPT ![k] = r]
      BY Zenon, <2>3
    <3> HIDE DEF r
    <3> QED BY Zenon, <1>0, <3>1, <3>2, TaskSet DEF Keeps, Holds
  <2>4. CASE task' = [task EXCEPT ![k].pc = "paths", ![k].stage = "race",
                                  ![k].rev = IF HasSn THEN "delay" ELSE "off"]
    <3> DEFINE r == [task[k] EXCEPT !.pc = "paths", !.stage = "race",
                                    !.rev = IF HasSn THEN "delay" ELSE "off"]
    <3>1. /\ r \in TaskRecord /\ r.pc = "paths" /\ r.dials = task[k].dials
          /\ r.given = task[k].given /\ r.got = task[k].got /\ r.gen = task[k].gen
      <4>1. task[k] \in TaskRecord
        BY Zenon, <1>0
      <4> QED BY <4>1 DEF TaskRecord
    <3>2. task' = [task EXCEPT ![k] = r]
      BY Zenon, <2>4
    <3> HIDE DEF r
    <3> QED BY Zenon, <1>0, <3>1, <3>2, TaskSet DEF Keeps, Holds
  <2> QED BY Zenon, <2>1, <2>2, <2>3, <2>4 DEF Lookup
<1> QED BY Zenon, <1>1, PruneKeeps DEF Lookup, Untouched

\* The dials of a task start: their candidates are in nobody's hands
LEMMA DialAllKeeps ==
  ASSUME ManagerInv, NEW k \in Task, NEW S \in DialSets, DialAll(S),
         task' \in [Task -> TaskRecord], \A j \in Task : j # k => task'[j] = task[j],
         task'[k].dials = S, task'[k].pc = "paths", task'[k].gen = task[k].gen,
         task'[k].given = task[k].given, task'[k].got = task[k].got,
         pool' \in [Tunnel -> {"out", "hidden", "published"}],
         \A t \in Tunnel : pool'[t] # "out" => pool[t] # "out",
         UNCHANGED <<accepted, abandoned>>,
         UpgradeTyped', Renewed, NoDirect(upgrade', pool', life)
  PROVE  ManagerInv'
<1>1. /\ life' \in [Tunnel -> {"down", "dialing", "up", "dropped"}]
      /\ \A t \in Tunnel : life'[t] = IF t \in S THEN "dialing" ELSE life[t]
  BY Zenon DEF DialAll, ManagerInv, TableTypes
<1>2. \A t \in S : t \in Tunnel /\ Unused(t)
  BY Zenon DEF DialSets, Tunnel
<1>3. TableTypes'
  BY Zenon, <1>1 DEF ManagerInv, TableTypes, UpgradeTyped
<1>4. HoldsItsTunnel' /\ OpenersHaveNone'
  BY Zenon DEF ManagerInv, HoldsItsTunnel, OpenersHaveNone, Task, Holds
<1>5. DialsOwned'
  <2>1. \A t \in Tunnel : life'[t] = "dialing" =>
          /\ pool'[t] = "out" /\ accepted'[t] = "no"
          /\ \A j \in Task : task'[j].given # t /\ task'[j].got # t
    BY <1>1, <1>2 DEF ManagerInv, DialsOwned, Unused
  <2>2. \A j \in Task : task[j].dials \subseteq Tunnel
    BY Zenon DEF ManagerInv, TableTypes, TaskRecord
  <2>3. \A t \in S : t \notin abandoned /\ \A j \in Task : t \notin task[j].dials
    BY Zenon, <1>2 DEF ManagerInv, DialsOwned, Unused
  <2>4. \A j \in Task : \A t \in task'[j].dials :
          /\ life'[t] = "dialing" /\ t \notin abandoned'
          /\ \A i \in Task : t \in task'[i].dials => i = j
    <3> TAKE j \in Task
    <3> TAKE t \in task'[j].dials
    <3>1. CASE j = k
      BY Zenon, <1>1, <1>2, <2>3, <3>1
    <3>2. CASE j # k
      BY <1>1, <2>2, <2>3, <3>2 DEF ManagerInv, DialsOwned
    <3> QED BY Zenon, <3>1, <3>2
  <2>5. \A t \in abandoned' : life'[t] = "dialing"
    BY <1>1, <2>3 DEF ManagerInv, TableTypes, DialsOwned
  <2> QED BY Zenon, <2>1, <2>4, <2>5 DEF DialsOwned
<1>6. NoDirect(upgrade', pool', life')
  BY Zenon, <1>1 DEF NoDirect, Tunnel
<1>7. OneAttempt(upgrade', task')
  BY Zenon, OneAttemptKept DEF ManagerInv, GensKept
<1> QED BY Zenon, <1>3, <1>4, <1>5, <1>6, <1>7 DEF ManagerInv

LEMMA ExistingKeeps ==
  ASSUME ManagerInv, NEW k \in Task, Existing(k)
  PROVE  ManagerInv'
<1>0. TableTypes /\ task \in [Task -> TaskRecord] /\ task[k] \in TaskRecord
  BY Zenon DEF ManagerInv, TableTypes
<1>1. CASE UseExisting(k) /\ UNCHANGED life
  BY Zenon, <1>1, UseExistingKeeps, PruneKeeps DEF Existing
<1>2. /\ pool' \in [Tunnel -> {"out", "hidden", "published"}]
      /\ \A t \in Tunnel : pool'[t] # "out" => pool[t] # "out"
      /\ UpgradeTyped' /\ Renewed /\ NoDirect(upgrade', pool', life)
      /\ UNCHANGED <<accepted, abandoned>>
  BY Zenon, <1>0, PrunedEffect, ReconcileEffect DEF Existing, PruneAndReconcile
<1>3. ASSUME NEW S \in DialSets, DialAll(S),
             task' = [task EXCEPT ![k].pc = "paths", ![k].stage = "race", ![k].dials = S]
      PROVE  ManagerInv'
  <2> DEFINE r == [task[k] EXCEPT !.pc = "paths", !.stage = "race", !.dials = S]
  <2>0. S \subseteq Tunnel
    BY Zenon DEF DialSets, Tunnel
  <2>1. /\ r \in TaskRecord /\ r.pc = "paths" /\ r.dials = S
        /\ r.given = task[k].given /\ r.got = task[k].got /\ r.gen = task[k].gen
    BY Zenon, <1>0, <2>0 DEF TaskRecord
  <2>2. task' = [task EXCEPT ![k] = r]
    BY Zenon, <1>3
  <2> HIDE DEF r
  <2>3. /\ task' \in [Task -> TaskRecord] /\ task'[k] = r
        /\ \A j \in Task : j # k => task'[j] = task[j]
    BY Zenon, <1>0, <2>1, <2>2, TaskSet
  <2> QED BY Zenon, <1>2, <1>3, <2>1, <2>3, DialAllKeeps
<1>4. ASSUME NEW S \in DialSets, DialAll(S), NEW rev \in {"off", "delay"}, NEW proxy \in BOOLEAN,
             task' = [task EXCEPT ![k].pc = "paths", ![k].stage = "cached",
                                  ![k].dials = S, ![k].rev = rev, ![k].proxy = proxy]
      PROVE  ManagerInv'
  <2> DEFINE r == [task[k] EXCEPT !.pc = "paths", !.stage = "cached",
                                  !.dials = S, !.rev = rev, !.proxy = proxy]
  <2>0. S \subseteq Tunnel
    BY Zenon DEF DialSets, Tunnel
  <2>1. /\ r \in TaskRecord /\ r.pc = "paths" /\ r.dials = S
        /\ r.given = task[k].given /\ r.got = task[k].got /\ r.gen = task[k].gen
    BY <1>0, <2>0 DEF TaskRecord
  <2>2. task' = [task EXCEPT ![k] = r]
    BY Zenon, <1>4
  <2> HIDE DEF r
  <2>3. /\ task' \in [Task -> TaskRecord] /\ task'[k] = r
        /\ \A j \in Task : j # k => task'[j] = task[j]
    BY Zenon, <1>0, <2>1, <2>2, TaskSet
  <2> QED BY <1>2, <1>4, <2>1, <2>3, DialAllKeeps
<1>5. CASE \E S \in DialSets :
             /\ DialAll(S)
             /\ task' = [task EXCEPT ![k].pc = "paths", ![k].stage = "race", ![k].dials = S]
  BY Zenon, <1>3, <1>5
<1>6. CASE \E S \in DialSets, rev \in {"off", "delay"}, proxy \in BOOLEAN :
             /\ DialAll(S)
             /\ task' = [task EXCEPT ![k].pc = "paths", ![k].stage = "cached",
                                     ![k].dials = S, ![k].rev = rev, ![k].proxy = proxy]
  BY Zenon, <1>4, <1>6
<1> QED BY Zenon, <1>1, <1>5, <1>6 DEF Existing

LEMMA StartRaceKeeps ==
  ASSUME ManagerInv, NEW k \in Task, StartRace(k)
  PROVE  ManagerInv'
<1>0. TableTypes /\ task \in [Task -> TaskRecord] /\ task[k] \in TaskRecord
  BY Zenon DEF ManagerInv, TableTypes
<1>1. UpgradeTyped' /\ Renewed /\ NoDirect(upgrade', pool', life)
  BY Zenon DEF StartRace, ManagerInv, TableTypes, UpgradeTyped, Renewed, NoDirect
<1>2. PICK S \in DialSets :
        /\ DialAll(S)
        /\ task' = [task EXCEPT ![k].stage = "race", ![k].dials = S,
                                ![k].rev = IF HasSn THEN "delay" ELSE "off"]
  BY Zenon DEF StartRace
<1> DEFINE r == [task[k] EXCEPT !.stage = "race", !.dials = S,
                                !.rev = IF HasSn THEN "delay" ELSE "off"]
<1>3. S \subseteq Tunnel
  BY Zenon DEF DialSets, Tunnel
<1>4. task[k].pc = "paths"
  BY Zenon DEF StartRace, PathsFailed
<1>5. /\ r \in TaskRecord /\ r.pc = "paths" /\ r.dials = S
      /\ r.given = task[k].given /\ r.got = task[k].got /\ r.gen = task[k].gen
  BY Zenon, <1>0, <1>3, <1>4 DEF TaskRecord
<1>6. task' = [task EXCEPT ![k] = r]
  BY Zenon, <1>2
<1> HIDE DEF r
<1>7. /\ task' \in [Task -> TaskRecord] /\ task'[k] = r
      /\ \A j \in Task : j # k => task'[j] = task[j]
  BY Zenon, <1>0, <1>5, <1>6, TaskSet
<1> QED BY <1>0, <1>1, <1>2, <1>5, <1>7, DialAllKeeps DEF StartRace, TableTypes

\* A dial ends: its candidate is not in the table, so no usable entry is added
LEMMA DialEnds ==
  ASSUME ManagerInv, NEW k \in Task, NEW t \in Tunnel, t \in task[k].dials,
         NEW how \in {"up", "down"}, life' = [life EXCEPT ![t] = how],
         task' \in [Task -> TaskRecord], \A j \in Task : j # k => task'[j] = task[j],
         task'[k].dials = task[k].dials \ {t}, task'[k].gen = task[k].gen,
         task'[k].given = task[k].given, task'[k].got \in {task[k].got, t}, Holds(task'[k]),
         UNCHANGED <<pool, accepted, abandoned, upgrade>>
  PROVE  ManagerInv'
<1>1. /\ life' \in [Tunnel -> {"down", "dialing", "up", "dropped"}]
      /\ \A d \in Tunnel : life'[d] = IF d = t THEN how ELSE life[d]
  BY Zenon DEF ManagerInv, TableTypes
<1>2. TableTypes'
  BY Zenon, <1>1 DEF ManagerInv, TableTypes
<1>3. HoldsItsTunnel' /\ OpenersHaveNone'
  BY Zenon DEF ManagerInv, HoldsItsTunnel, OpenersHaveNone, Task, Holds
<1>4. pool[t] = "out" /\ t \notin abandoned
  BY DEF ManagerInv, DialsOwned
<1>5. DialsOwned'
  <2>1. \A d \in Tunnel : life'[d] = "dialing" =>
          /\ pool'[d] = "out" /\ accepted'[d] = "no"
          /\ \A j \in Task : task'[j].given # d /\ task'[j].got # d
    BY <1>1 DEF ManagerInv, DialsOwned
  <2>2. \A j \in Task : task[j].dials \subseteq Tunnel
    BY Zenon DEF ManagerInv, TableTypes, TaskRecord
  <2>3. \A j \in Task : \A d \in task'[j].dials :
          d \in task[j].dials /\ d # t
    BY DEF ManagerInv, DialsOwned
  <2>4. \A j \in Task : \A d \in task'[j].dials :
          /\ life'[d] = "dialing" /\ d \notin abandoned'
          /\ \A i \in Task : d \in task'[i].dials => i = j
    BY <1>1, <2>2, <2>3 DEF ManagerInv, DialsOwned
  <2>5. \A d \in abandoned' : life'[d] = "dialing"
    BY <1>1, <1>4 DEF ManagerInv, TableTypes, DialsOwned
  <2> QED BY Zenon, <2>1, <2>4, <2>5 DEF DialsOwned
<1>6. NoDirect(upgrade', pool', life')
  BY Zenon, <1>1, <1>4 DEF NoDirect, ManagerInv, Tunnel
<1>7. OneAttempt(upgrade', task')
  BY Zenon, OneAttemptKept DEF ManagerInv, GensKept, Renewed
<1> QED BY Zenon, <1>2, <1>3, <1>5, <1>6, <1>7 DEF ManagerInv

LEMMA DialKeeps ==
  ASSUME ManagerInv, NEW k \in Task, NEW t \in Tunnel, DialOk(k, t) \/ DialErr(k, t)
  PROVE  ManagerInv'
<1>0. task \in [Task -> TaskRecord] /\ task[k] \in TaskRecord
  BY Zenon DEF ManagerInv, TableTypes
<1>1. CASE DialOk(k, t)
  <2> DEFINE r == [task[k] EXCEPT !.pc = "register", !.path = "direct",
                                  !.dials = task[k].dials \ {t}, !.got = t]
  <2>1. /\ r \in TaskRecord /\ r.dials = task[k].dials \ {t}
        /\ r.given = task[k].given /\ r.got = t /\ r.gen = task[k].gen
    BY <1>0 DEF TaskRecord
  <2>2. task' = [task EXCEPT ![k] = r]
    BY Zenon, <1>0, <1>1 DEF DialOk
  <2> HIDE DEF r
  <2>3. /\ task' \in [Task -> TaskRecord] /\ task'[k] = r
        /\ \A j \in Task : j # k => task'[j] = task[j]
    BY Zenon, <1>0, <2>1, <2>2, TaskSet
  <2> QED BY <1>1, <2>1, <2>3, DialEnds DEF DialOk, Holds
<1>2. CASE DialErr(k, t)
  <2> DEFINE r == [task[k] EXCEPT !.dials = task[k].dials \ {t}]
  <2>1. /\ r \in TaskRecord /\ r.dials = task[k].dials \ {t} /\ r.pc = task[k].pc
        /\ r.given = task[k].given /\ r.got = task[k].got /\ r.gen = task[k].gen
    BY Zenon, <1>0 DEF TaskRecord
  <2>2. task' = [task EXCEPT ![k] = r]
    BY Zenon, <1>0, <1>2 DEF DialErr
  <2> HIDE DEF r
  <2>3. /\ task' \in [Task -> TaskRecord] /\ task'[k] = r
        /\ \A j \in Task : j # k => task'[j] = task[j]
    BY Zenon, <1>0, <2>1, <2>2, TaskSet
  <2> QED BY Zenon, <1>2, <2>1, <2>3, DialEnds DEF DialErr, Holds
<1> QED BY Zenon, <1>1, <1>2

\* A candidate that nobody has comes up or is turned away: it is not in the table either
LEMMA UnusedKeeps ==
  ASSUME ManagerInv, NEW t \in Tunnel, Unused(t), NEW how \in {"up", "down"},
         life' = [life EXCEPT ![t] = how], task' = task \/ \E k \in Task : Keeps(k),
         accepted' \in [Tunnel -> {"no", "arrived", "registered"}],
         \A d \in Tunnel : d # t => accepted'[d] = accepted[d],
         UNCHANGED <<pool, abandoned, upgrade>>
  PROVE  ManagerInv'
<1>1. /\ life' \in [Tunnel -> {"down", "dialing", "up", "dropped"}]
      /\ \A d \in Tunnel : life'[d] = IF d = t THEN how ELSE life[d]
  BY Zenon DEF ManagerInv, TableTypes
<1>2. life[t] # "dialing" /\ pool[t] = "out"
  BY Zenon DEF Unused
<1>3. UpgradeTyped' /\ Renewed /\ NoDirect(upgrade', pool', life')
  BY Zenon, <1>1, <1>2 DEF ManagerInv, TableTypes, UpgradeTyped, Renewed, NoDirect, Tunnel
<1>4. \A d \in Tunnel : /\ life'[d] = "dialing" <=> life[d] = "dialing"
                        /\ life[d] = "dialing" => pool'[d] = "out" /\ accepted'[d] = "no"
  BY <1>1, <1>2 DEF ManagerInv, DialsOwned
<1> QED BY Zenon, <1>1, <1>3, <1>4, StepKeeps DEF ManagerInv, TableTypes

LEMMA ProxyOkKeeps ==
  ASSUME ManagerInv, NEW k \in Task, ProxyOk(k)
  PROVE  ManagerInv'
<1>0. task \in [Task -> TaskRecord] /\ task[k] \in TaskRecord /\ task[k].given \in Free
  BY Zenon, HasFree DEF ManagerInv, TableTypes
<1>1. PICK t \in ProxyTunnels :
        /\ Unused(t) /\ life' = [life EXCEPT ![t] = "up"]
        /\ task' = [task EXCEPT ![k].pc = "register", ![k].path = "proxy",
                                ![k].proxy = FALSE, ![k].got = t]
  BY Zenon DEF ProxyOk
<1> DEFINE r == [task[k] EXCEPT !.pc = "register", !.path = "proxy", !.proxy = FALSE, !.got = t]
<1>2. t \in Tunnel /\ t \in Free
  BY Zenon, <1>1 DEF Tunnel, Free, Unused
<1>3. /\ r \in TaskRecord /\ r.dials = task[k].dials
      /\ r.given = task[k].given /\ r.got = t /\ r.gen = task[k].gen
  BY <1>0, <1>2 DEF TaskRecord
<1>4. task' = [task EXCEPT ![k] = r]
  BY Zenon, <1>1
<1> HIDE DEF r
<1>5. Keeps(k)
  BY Zenon, <1>0, <1>2, <1>3, <1>4, TaskSet DEF Keeps, Holds
<1>6. UNCHANGED <<pool, accepted, abandoned, upgrade>>
  BY Zenon DEF ProxyOk
<1> QED BY Zenon, <1>1, <1>2, <1>5, <1>6, UnusedKeeps DEF ManagerInv, TableTypes

\* A failed upgrade ends with its task, so its generation has no attempt left
LEMMA OpenFailsKeeps ==
  ASSUME ManagerInv, NEW k \in Task, OpenFails(k)
  PROVE  ManagerInv'
<1>0. TableTypes /\ task \in [Task -> TaskRecord] /\ task[k] \in TaskRecord
  BY Zenon DEF ManagerInv, TableTypes
<1>1. Keeps(k) /\ task'[k] = IdleTask /\ task'[k].gen = 0
  <2>1. Keeps(k) /\ task'[k] = IdleTask
    BY Zenon, <1>0, FinishKeeps DEF OpenFails
  <2>2. IdleTask.gen = 0
    BY Zenon DEF IdleTask
  <2> QED BY Zenon, <2>1, <2>2
<1>2. UNCHANGED <<life, pool, accepted, abandoned>>
  BY Zenon DEF OpenFails, Untouched
<1>3. CASE upgrade' = upgrade
  BY Zenon, <1>1, <1>2, <1>3, QuietKeeps
<1>4. CASE /\ upgrade.on /\ upgrade.gen = task[k].gen
           /\ upgrade' = [upgrade EXCEPT !.in_progress = FALSE, !.due = FALSE]
  <2>1. UpgradeTyped' /\ upgrade'.on /\ upgrade'.gen = upgrade.gen
    BY Zenon, <1>0, <1>4 DEF TableTypes, UpgradeTyped
  <2>2. \A t \in Tunnel : life[t] = "dialing" => pool[t] = "out" /\ accepted[t] = "no"
    BY Zenon DEF ManagerInv, DialsOwned
  <2>3. TableTypes' /\ HoldsItsTunnel' /\ OpenersHaveNone' /\ DialsOwned' /\ GensKept
    BY Zenon, <1>0, <1>1, <1>2, <2>1, <2>2, TableKeeps DEF TableTypes
  <2>4. NoDirect(upgrade', pool', life')
    BY Zenon, <1>2, <1>4 DEF ManagerInv, NoDirect
  <2>5. upgrade.gen \in Gens /\ k \in Upgraders
    BY Zenon, <1>4, GensPositive DEF ManagerInv, OneAttempt, OpenersHaveNone, Task
  <2>6. \A u \in Upgraders : task'[u].gen # upgrade.gen
    BY Zenon, <1>1, <1>4, <2>5, GensPositive DEF ManagerInv, OneAttempt, Keeps, Task
  <2>7. OneAttempt(upgrade', task')
    BY Zenon, <2>1, <2>5, <2>6 DEF OneAttempt
  <2> QED BY Zenon, <2>3, <2>4, <2>7 DEF ManagerInv
<1> QED BY Zenon, <1>3, <1>4 DEF OpenFails, FailGeneration

\* register_tunnel, by a task and by on_incoming_tunnel
LEMMA RegisterKeeps ==
  ASSUME ManagerInv, NEW k \in Task, Register(k)
  PROVE  ManagerInv'
<1>0. /\ TableTypes /\ task \in [Task -> TaskRecord]
      /\ task[k].given \in Free /\ task[k].got \in Free
  BY Zenon, HasFree DEF ManagerInv, TableTypes
<1>1. task[k].got \in Tunnel
  BY Zenon DEF Register, ManagerInv, HoldsItsTunnel, Holds
<1>2. /\ pool' \in [Tunnel -> {"out", "hidden", "published"}]
      /\ \A d \in Tunnel : pool'[d] # "out" => d = task[k].got \/ pool[d] # "out"
      /\ UpgradeTyped' /\ Renewed /\ NoDirect(upgrade', pool', life)
  BY Zenon, <1>0, <1>1, RegisterEffect DEF Register
<1>3. UNCHANGED <<life, accepted, abandoned>>
  BY Zenon DEF Register, Untouched
<1>4. Keeps(k)
  BY Zenon, <1>0, <1>1, SetPcKeeps DEF Register
<1>5. \A t \in Tunnel : life[t] = "dialing" => pool'[t] = "out" /\ accepted[t] = "no"
  BY Zenon, <1>2 DEF ManagerInv, DialsOwned
<1> QED BY Zenon, <1>0, <1>2, <1>3, <1>4, <1>5, StepKeeps DEF TableTypes

LEMMA IncomingRegisterKeeps ==
  ASSUME ManagerInv, NEW t \in Tunnel, IncomingRegister(t)
  PROVE  ManagerInv'
<1>0. TableTypes
  BY Zenon DEF ManagerInv
<1>1. /\ pool' \in [Tunnel -> {"out", "hidden", "published"}]
      /\ \A d \in Tunnel : pool'[d] # "out" => d = t \/ pool[d] # "out"
      /\ UpgradeTyped' /\ Renewed /\ NoDirect(upgrade', pool', life)
  BY Zenon, <1>0, RegisterEffect DEF IncomingRegister
<1>2. UNCHANGED <<life, task, abandoned>>
  BY Zenon DEF IncomingRegister
<1>3. accepted' \in [Tunnel -> {"no", "arrived", "registered"}]
  BY Zenon, <1>0 DEF IncomingRegister, TableTypes
<1>4. \A d \in Tunnel : life[d] = "dialing" => pool'[d] = "out" /\ accepted'[d] = "no"
  BY Zenon, <1>0, <1>1 DEF ManagerInv, DialsOwned, IncomingRegister, TableTypes
<1> QED BY Zenon, <1>0, <1>1, <1>2, <1>3, <1>4, StepKeeps DEF TableTypes

\* A tunnel nobody is dialling is closed, or leaves or changes its state in the table
LEMMA SinkKeeps ==
  ASSUME ManagerInv, task' = task \/ \E k \in Task : Keeps(k),
         life' \in [Tunnel -> {"down", "dialing", "up", "dropped"}],
         \A t \in Tunnel : life'[t] = life[t] \/ (life[t] # "dialing" /\ life'[t] = "down"),
         pool' \in [Tunnel -> {"out", "hidden", "published"}],
         \A t \in Tunnel : pool'[t] # "out" => pool[t] # "out",
         accepted' \in [Tunnel -> {"no", "arrived", "registered"}],
         \A t \in Tunnel : accepted'[t] \in {accepted[t], "no"},
         UNCHANGED abandoned, UpgradeTyped', Renewed, upgrade' = upgrade \/ NoDirect(upgrade', pool', life')
  PROVE  ManagerInv'
<1>1. \A t \in Tunnel : /\ life'[t] = "dialing" <=> life[t] = "dialing"
                        /\ life[t] = "dialing" => pool'[t] = "out" /\ accepted'[t] = "no"
  BY Zenon DEF ManagerInv, DialsOwned
<1>2. NoDirect(upgrade', pool', life')
  <2>1. CASE upgrade' = upgrade
    BY Zenon, <2>1 DEF ManagerInv, NoDirect, Tunnel
  <2> QED BY Zenon, <2>1
<1> QED BY Zenon, <1>1, <1>2, StepKeeps

LEMMA DieKeeps ==
  ASSUME ManagerInv, NEW t \in Tunnel, Die(t)
  PROVE  ManagerInv'
<1>1. /\ life' \in [Tunnel -> {"down", "dialing", "up", "dropped"}]
      /\ \A d \in Tunnel : life'[d] = life[d] \/ (life[d] # "dialing" /\ life'[d] = "down")
  BY Zenon DEF ManagerInv, TableTypes, Die, Available
<1>2. UNCHANGED <<pool, accepted, task, abandoned, upgrade>>
  BY Zenon DEF Die
<1>3. UpgradeTyped' /\ Renewed
  BY Zenon, <1>2 DEF ManagerInv, TableTypes, UpgradeTyped, Renewed
<1> QED BY Zenon, <1>1, <1>2, <1>3, SinkKeeps DEF ManagerInv, TableTypes

LEMMA IncomingPublishKeeps ==
  ASSUME ManagerInv, NEW t \in Tunnel, IncomingPublish(t)
  PROVE  ManagerInv'
<1>0. TableTypes /\ life[t] # "dialing"
  BY Zenon DEF ManagerInv, DialsOwned, IncomingPublish
<1>1. /\ life' \in [Tunnel -> {"down", "dialing", "up", "dropped"}]
      /\ \A d \in Tunnel : life'[d] = life[d] \/ (life[d] # "dialing" /\ life'[d] = "down")
  BY Zenon, <1>0 DEF TableTypes, IncomingPublish
<1>2. /\ pool' \in [Tunnel -> {"out", "hidden", "published"}]
      /\ \A d \in Tunnel : pool'[d] # "out" => pool[d] # "out"
  BY Zenon, <1>0 DEF TableTypes, IncomingPublish
<1>3. /\ accepted' \in [Tunnel -> {"no", "arrived", "registered"}]
      /\ \A d \in Tunnel : accepted'[d] \in {accepted[d], "no"}
  BY Zenon, <1>0 DEF TableTypes, IncomingPublish
<1>4. UNCHANGED <<task, abandoned, upgrade>>
  BY Zenon DEF IncomingPublish
<1>5. UpgradeTyped' /\ Renewed
  BY Zenon, <1>0, <1>4 DEF TableTypes, UpgradeTyped, Renewed
<1> QED BY Zenon, <1>1, <1>2, <1>3, <1>4, <1>5, SinkKeeps

LEMMA CleanupKeeps ==
  ASSUME ManagerInv, NEW idle \in SUBSET Tunnel, Cleanup(idle)
  PROVE  ManagerInv'
<1> DEFINE kept == [t \in Tunnel |-> IF t \in idle THEN "out" ELSE Pruned[t]]
<1>0. TableTypes
  BY Zenon DEF ManagerInv
<1>1. /\ kept \in [Tunnel -> {"out", "hidden", "published"}]
      /\ \A t \in Tunnel : kept[t] # "out" => pool[t] # "out" /\ t \notin idle
  BY Zenon, <1>0, PrunedEffect
<1>2. pool' = kept /\ Reconcile(kept)
  BY Zenon DEF Cleanup
<1> HIDE DEF kept
<1>3. UpgradeTyped' /\ Renewed /\ NoDirect(upgrade', pool', life)
  BY Zenon, <1>0, <1>1, <1>2, ReconcileEffect
<1>4. \A t \in idle : life[t] = "up"
  BY Zenon DEF Cleanup, AvailableEntries, Available
<1>5. /\ life' \in [Tunnel -> {"down", "dialing", "up", "dropped"}]
      /\ \A t \in Tunnel : life'[t] = life[t] \/ (life[t] # "dialing" /\ life'[t] = "down")
  BY Zenon, <1>0, <1>4 DEF Cleanup, TableTypes
<1>6. NoDirect(upgrade', pool', life')
  BY Zenon, <1>3, <1>5 DEF NoDirect, Tunnel
<1>7. UNCHANGED <<accepted, task, abandoned>>
  BY Zenon DEF Cleanup
<1> QED BY Zenon, <1>0, <1>1, <1>2, <1>3, <1>5, <1>6, <1>7, SinkKeeps DEF TableTypes

\* Incoming tunnels come up out of nobody's hands
LEMMA IncomingKeeps ==
  ASSUME ManagerInv, NEW t \in Tunnel, IncomingPlain(t) \/ \E k \in Task : IncomingReverse(k, t)
  PROVE  ManagerInv'
<1>0. TableTypes /\ task \in [Task -> TaskRecord]
  BY Zenon DEF ManagerInv, TableTypes
<1>1. CASE IncomingPlain(t)
  <2>1. /\ accepted' \in [Tunnel -> {"no", "arrived", "registered"}]
        /\ \A d \in Tunnel : d # t => accepted'[d] = accepted[d]
    BY Zenon, <1>0, <1>1 DEF IncomingPlain, TableTypes
  <2> QED BY Zenon, <1>1, <2>1, UnusedKeeps DEF IncomingPlain
<1>2. CASE \E k \in Task : IncomingReverse(k, t)
  <2> PICK k \in Task : IncomingReverse(k, t)
    BY Zenon, <1>2
  <2>1. Unused(t) /\ UNCHANGED <<pool, accepted, abandoned, upgrade>> /\ t \in Free
    BY Zenon DEF IncomingReverse, Unused, Free
  <2>2. CASE k \in waiters
    <3> DEFINE r == [task[k] EXCEPT !.given = t]
    <3>1. task[k] \in TaskRecord /\ task[k].got \in Free /\ Holds(task[k])
      BY Zenon, <1>0, HasFree DEF ManagerInv, HoldsItsTunnel
    <3>2. /\ r \in TaskRecord /\ r.dials = task[k].dials /\ r.pc = task[k].pc
          /\ r.given = t /\ r.got = task[k].got /\ r.gen = task[k].gen
      BY Zenon, <3>1 DEF TaskRecord
    <3>3. task' = [task EXCEPT ![k] = r] /\ life' = [life EXCEPT ![t] = "up"]
      BY Zenon, <2>2 DEF IncomingReverse
    <3> HIDE DEF r
    <3>4. Keeps(k)
      BY Zenon, <1>0, <2>1, <3>1, <3>2, <3>3, TaskSet DEF Keeps, Holds
    <3> QED BY Zenon, <1>0, <2>1, <3>3, <3>4, UnusedKeeps DEF TableTypes
  <2>3. CASE k \notin waiters
    <3>1. task' = task /\ life' = [life EXCEPT ![t] = "down"]
      BY Zenon, <2>3 DEF IncomingReverse
    <3> QED BY Zenon, <1>0, <2>1, <3>1, UnusedKeeps DEF TableTypes
  <2> QED BY Zenon, <2>2, <2>3
<1> QED BY Zenon, <1>1, <1>2

\* The dials of the winner's task are abandoned or dropped with it
LEMMA WinnerKeeps ==
  ASSUME ManagerInv, NEW k \in Task, NEW t \in Tunnel, t \in Free, Winner(k, t),
         pool' \in [Tunnel -> {"out", "hidden", "published"}],
         \A d \in Tunnel : pool'[d] # "out" => pool[d] # "out",
         UNCHANGED <<accepted, upgrade>>
  PROVE  ManagerInv'
<1>0. TableTypes /\ task \in [Task -> TaskRecord] /\ task[k] \in TaskRecord
  BY Zenon DEF ManagerInv, TableTypes
<1>1. Keeps(k) /\ task'[k].dials = {}
  <2>1. CASE task[k].kind = "upgrade"
    BY Zenon, <1>0, <2>1, FinalizingKeeps DEF Winner
  <2>2. CASE task[k].kind # "upgrade"
    <3>1. IdleTask.dials = {}
      BY Zenon DEF IdleTask
    <3> QED BY Zenon, <1>0, <2>2, <3>1, FinishKeeps DEF Winner
  <2> QED BY Zenon, <2>1, <2>2
<1>2. task[k].dials \subseteq Tunnel /\ \A d \in task[k].dials : life[d] = "dialing"
  BY <1>0 DEF TaskRecord, ManagerInv, DialsOwned
<1>3. /\ life' \in [Tunnel -> {"down", "dialing", "up", "dropped"}]
      /\ \/ /\ life' = life /\ abandoned' = abandoned \cup task[k].dials
         \/ /\ \A d \in Tunnel : life'[d] = IF d \in task[k].dials THEN "dropped" ELSE life[d]
            /\ abandoned' = abandoned
  BY Zenon, <1>0 DEF Winner, TableTypes
<1>4. TableTypes'
  BY Zenon, <1>0, <1>1, <1>2, <1>3 DEF TableTypes, Keeps
<1>5. HoldsItsTunnel' /\ OpenersHaveNone'
  BY Zenon, <1>1 DEF ManagerInv, HoldsItsTunnel, OpenersHaveNone, Task, Holds, Keeps
<1>6. DialsOwned'
  <2>1. \A d \in Tunnel : life'[d] = "dialing" => life[d] = "dialing"
    BY Zenon, <1>3
  <2>2. \A d \in Tunnel : life'[d] = "dialing" =>
          /\ pool'[d] = "out" /\ accepted'[d] = "no"
          /\ \A j \in Task : task'[j].given # d /\ task'[j].got # d
    <3>1. /\ None \notin Tunnel /\ DialsOwned
          /\ task'[k].given \in Free /\ task'[k].got \in Free
          /\ \A j \in Task : j # k => task'[j] = task[j]
      BY Zenon, <1>1, ConstantsDiffer DEF ManagerInv, Keeps
    <3>2. ASSUME NEW d \in Tunnel, life'[d] = "dialing"
          PROVE  /\ pool'[d] = "out" /\ accepted'[d] = "no"
                 /\ \A j \in Task : task'[j].given # d /\ task'[j].got # d
      <4>1. life[d] = "dialing"
        BY Zenon, <2>1, <3>2
      <4>2. /\ pool[d] = "out" /\ accepted[d] = "no"
            /\ \A j \in Task : task[j].given # d /\ task[j].got # d
        BY Zenon, <3>1, <4>1 DEF DialsOwned
      <4>3. d \notin Free
        BY Zenon, <3>1, <4>1 DEF Free
      <4>4. pool'[d] = "out" /\ accepted'[d] = "no"
        BY Zenon, <4>2
      <4> QED BY Zenon, <3>1, <4>2, <4>3, <4>4
    <3> QED BY Zenon, <3>2
  <2>3. \A j \in Task : \A d \in task'[j].dials :
          j # k /\ d \in task[j].dials /\ d \in Tunnel /\ d \notin task[k].dials
    BY <1>0, <1>1 DEF Keeps, TaskRecord, ManagerInv, DialsOwned
  <2>4. \A j \in Task : \A d \in task'[j].dials :
          /\ life'[d] = "dialing" /\ d \notin abandoned'
          /\ \A i \in Task : d \in task'[i].dials => i = j
    BY Zenon, <1>3, <2>3 DEF ManagerInv, DialsOwned
  <2>5. \A d \in abandoned' : life'[d] = "dialing"
    BY <1>0, <1>2, <1>3 DEF ManagerInv, TableTypes, DialsOwned
  <2> QED BY Zenon, <2>2, <2>4, <2>5 DEF DialsOwned
<1>7. NoDirect(upgrade', pool', life')
  BY Zenon, <1>3 DEF ManagerInv, NoDirect, Tunnel
<1>8. OneAttempt(upgrade', task')
  BY Zenon, <1>1, OneAttemptKept DEF ManagerInv, GensKept, Renewed, Keeps
<1> QED BY Zenon, <1>4, <1>5, <1>6, <1>7, <1>8 DEF ManagerInv

LEMMA PublishKeeps ==
  ASSUME ManagerInv, NEW k \in Task, Publish(k)
  PROVE  ManagerInv'
<1> DEFINE t == task[k].got
<1>0. TableTypes /\ task \in [Task -> TaskRecord] /\ task[k] \in TaskRecord
  BY Zenon DEF ManagerInv, TableTypes
<1>1. t \in Tunnel /\ t \in Free /\ task[k].given \in Free
  BY Zenon, HasFree DEF Publish, ManagerInv, HoldsItsTunnel, Holds
<1>2. UNCHANGED <<accepted, upgrade>>
  BY Zenon DEF Publish
<1>3. CASE pool[t] # "out" /\ pool' = [pool EXCEPT ![t] = "published"] /\ Winner(k, t)
  <2>1. /\ pool' \in [Tunnel -> {"out", "hidden", "published"}]
        /\ \A d \in Tunnel : pool'[d] # "out" => pool[d] # "out"
    BY Zenon, <1>0, <1>1, <1>3 DEF TableTypes
  <2> QED BY Zenon, <1>1, <1>2, <1>3, <2>1, WinnerKeeps
<1>4. CASE /\ life' = IF task[k].path = "direct" /\ Available(t)
                        THEN [life EXCEPT ![t] = "down"] ELSE life
           /\ task' = [task EXCEPT ![k].pc = "paths", ![k].path = "none", ![k].got = None]
           /\ UNCHANGED <<pool, abandoned>>
  <2> DEFINE r == [task[k] EXCEPT !.pc = "paths", !.path = "none", !.got = None]
  <2>1. /\ r \in TaskRecord /\ r.dials = task[k].dials /\ r.pc = "paths"
        /\ r.given = task[k].given /\ r.got = None /\ r.gen = task[k].gen
    BY <1>0 DEF TaskRecord
  <2>2. task' = [task EXCEPT ![k] = r]
    BY Zenon, <1>4
  <2> HIDE DEF r
  <2>3. Keeps(k)
    BY Zenon, <1>0, <1>1, <2>1, <2>2, TaskSet DEF Keeps, Holds, Free
  <2>4. /\ life' \in [Tunnel -> {"down", "dialing", "up", "dropped"}]
        /\ \A d \in Tunnel : life'[d] = life[d] \/ (life[d] # "dialing" /\ life'[d] = "down")
    BY Zenon, <1>0, <1>1, <1>4 DEF TableTypes, Available
  <2>5. UpgradeTyped' /\ Renewed
    BY Zenon, <1>0, <1>2 DEF TableTypes, UpgradeTyped, Renewed
  <2> QED BY Zenon, <1>0, <1>2, <1>4, <2>3, <2>4, <2>5, SinkKeeps DEF TableTypes
<1> QED BY Zenon, <1>3, <1>4 DEF Publish

LEMMA FinalizeKeeps ==
  ASSUME ManagerInv, NEW k \in Task, Finalize(k)
  PROVE  ManagerInv'
<1> DEFINE t == task[k].got
           proxies == {p \in ProxyTunnels : pool[p] # "out"}
<1>0. TableTypes /\ task \in [Task -> TaskRecord]
  BY Zenon DEF ManagerInv, TableTypes
<1>1. Keeps(k) /\ UNCHANGED <<accepted, abandoned>>
  BY Zenon, <1>0, FinishKeeps DEF Finalize
<1>2. CASE /\ pool' = [p \in Tunnel |-> IF p \in proxies THEN "out" ELSE pool[p]]
           /\ life' = [p \in Tunnel |->
                         IF p \in proxies /\ Available(p) THEN "down" ELSE life[p]]
           /\ RemoveUpgrade
  <2>1. UpgradeTyped' /\ Renewed /\ NoDirect(upgrade', pool', life')
    BY Zenon, <1>2 DEF RemoveUpgrade, NoUpgrade, UpgradeTyped, Renewed, NoDirect
  <2>2. /\ pool' \in [Tunnel -> {"out", "hidden", "published"}]
        /\ \A d \in Tunnel : pool'[d] # "out" => pool[d] # "out"
    BY Zenon, <1>0, <1>2 DEF TableTypes
  <2>3. /\ life' \in [Tunnel -> {"down", "dialing", "up", "dropped"}]
        /\ \A d \in Tunnel : life'[d] = life[d] \/ (life[d] # "dialing" /\ life'[d] = "down")
    BY Zenon, <1>0, <1>2 DEF TableTypes, Available
  <2> QED BY Zenon, <1>0, <1>1, <2>1, <2>2, <2>3, SinkKeeps DEF TableTypes
<1>3. CASE Reconcile(pool) /\ UNCHANGED <<pool, life>>
  <2>1. UpgradeTyped' /\ Renewed /\ NoDirect(upgrade', pool', life')
    BY Zenon, <1>0, <1>3, ReconcileEffect DEF TableTypes
  <2> QED BY Zenon, <1>0, <1>1, <1>3, <2>1, SinkKeeps DEF TableTypes
<1> QED BY Zenon, <1>2, <1>3 DEF Finalize

LEMMA CloseAbandonedKeeps ==
  ASSUME ManagerInv, NEW t \in Tunnel, CloseAbandoned(t)
  PROVE  ManagerInv'
<1>1. /\ t \in abandoned /\ abandoned' = abandoned \ {t}
      /\ UNCHANGED <<pool, accepted, task, upgrade>>
  BY Zenon DEF CloseAbandoned
<1>2. /\ life' \in [Tunnel -> {"down", "dialing", "up", "dropped"}]
      /\ \A d \in Tunnel : life'[d] = IF d = t THEN "down" ELSE life[d]
  BY Zenon DEF CloseAbandoned, ManagerInv, TableTypes
<1>3. TableTypes'
  BY Zenon, <1>1, <1>2 DEF ManagerInv, TableTypes
<1>4. HoldsItsTunnel' /\ OpenersHaveNone'
  BY Zenon, <1>1 DEF ManagerInv, HoldsItsTunnel, OpenersHaveNone, Holds
<1>5. DialsOwned'
  <2>1. \A k \in Task : task[k].dials \subseteq Tunnel
    BY Zenon DEF ManagerInv, TableTypes, TaskRecord
  <2> QED BY <1>1, <1>2, <2>1 DEF ManagerInv, TableTypes, DialsOwned
<1>6. NoDirect(upgrade', pool', life')
  BY Zenon, <1>1, <1>2 DEF ManagerInv, NoDirect, Tunnel
<1>7. OneAttempt(upgrade', task')
  BY Zenon, <1>1 DEF ManagerInv, OneAttempt
<1> QED BY Zenon, <1>3, <1>4, <1>5, <1>6, <1>7 DEF ManagerInv

\* The upgrade loop: an attempt starts only while the generation has none
LEMMA LoopKeeps ==
  ASSUME ManagerInv, LoopCompute \/ Due \/ ProcessUpgrades
  PROVE  ManagerInv'
<1>0. /\ TableTypes /\ task \in [Task -> TaskRecord]
      /\ UpgradeTyped /\ UNCHANGED <<life, pool, accepted, abandoned>>
  BY Zenon DEF ManagerInv, TableTypes, UpgradeTyped, LoopCompute, Due, ProcessUpgrades
<1>1. \A t \in Tunnel : life[t] = "dialing" => pool[t] = "out" /\ accepted[t] = "no"
  BY Zenon DEF ManagerInv, DialsOwned
<1>2. ASSUME UpgradeTyped', task' = task, upgrade'.on => upgrade.on,
             upgrade'.gen = upgrade.gen, upgrade'.in_progress = upgrade.in_progress
      PROVE  ManagerInv'
  <2>1. TableTypes' /\ HoldsItsTunnel' /\ OpenersHaveNone' /\ DialsOwned'
    BY Zenon, <1>0, <1>1, <1>2, TableKeeps DEF TableTypes
  <2>2. NoDirect(upgrade', pool', life')
    BY Zenon, <1>0, <1>2 DEF ManagerInv, NoDirect
  <2>3. OneAttempt(upgrade', task')
    BY Zenon, <1>2 DEF ManagerInv, OneAttempt
  <2> QED BY Zenon, <2>1, <2>2, <2>3 DEF ManagerInv
<1>3. CASE LoopCompute
  BY Zenon, <1>0, <1>2, <1>3 DEF LoopCompute, UpgradeTyped
<1>4. CASE Due
  <2>1. UpgradeTyped' /\ task' = task /\ upgrade'.on = upgrade.on
        /\ upgrade'.gen = upgrade.gen /\ upgrade'.in_progress = upgrade.in_progress
    BY Zenon, <1>0, <1>4 DEF Due, UpgradeTyped
  <2> QED BY Zenon, <1>2, <2>1
<1>5. CASE ProcessUpgrades
  <2>1. CASE upgrade' = upgrade /\ task' = task
    BY Zenon, <1>0, <1>2, <2>1 DEF UpgradeTyped
  <2>2. CASE /\ upgrade.on /\ ~upgrade.in_progress
             /\ upgrade' = [upgrade EXCEPT !.in_progress = TRUE]
             /\ \E k \in {u \in Upgraders : task[u].pc = "idle"} :
                  task' = [task EXCEPT ![k] = [IdleTask EXCEPT !.kind = "upgrade", !.pc = "check",
                                                               !.gen = upgrade.gen]]
    <3>1. PICK k \in Upgraders :
            task' = [task EXCEPT ![k] = [IdleTask EXCEPT !.kind = "upgrade", !.pc = "check",
                                                         !.gen = upgrade.gen]]
      BY Zenon, <2>2
    <3> DEFINE r == [IdleTask EXCEPT !.kind = "upgrade", !.pc = "check", !.gen = upgrade.gen]
    <3>2. UpgradeTyped' /\ upgrade'.on /\ upgrade'.gen = upgrade.gen /\ upgrade'.in_progress
      BY Zenon, <1>0, <2>2 DEF UpgradeTyped
    <3>3. /\ r \in TaskRecord /\ r.pc = "check" /\ r.dials = {} /\ r.given = None /\ r.got = None
          /\ r.gen = upgrade.gen
      BY Zenon, <1>0, ConstantsDiffer DEF IdleTask, TaskRecord, UpgradeTyped
    <3> HIDE DEF r
    <3>4. /\ k \in Task /\ task' \in [Task -> TaskRecord] /\ task'[k] = r
          /\ \A j \in Task : j # k => task'[j] = task[j]
      BY Zenon, <1>0, <3>1, <3>3, TaskSet DEF r, Task
    <3>5. TableTypes'
      BY Zenon, <1>0, <3>2, <3>4 DEF TableTypes, UpgradeTyped
    <3>6. HoldsItsTunnel'
      BY Zenon, <3>3, <3>4 DEF ManagerInv, HoldsItsTunnel, Holds
    <3>7. OpenersHaveNone'
      BY Zenon, <3>4, ConstantsDiffer DEF ManagerInv, OpenersHaveNone, Task
    <3>8. DialsOwned'
      <4>1. DialsOwned /\ \A t \in Tunnel : t # None
        BY Zenon, ConstantsDiffer DEF ManagerInv
      <4>2. \A j \in Task : /\ task'[j].dials \subseteq task[j].dials
                            /\ \A t \in Tunnel : /\ task[j].given # t => task'[j].given # t
                                                 /\ task[j].got # t => task'[j].got # t
        BY Zenon, <3>3, <3>4, <4>1
      <4>3. life' = life /\ pool' = pool /\ accepted' = accepted /\ abandoned' = abandoned
        BY Zenon, <1>0
      <4>4. \A t \in Tunnel : life[t] = "dialing" =>
              /\ pool[t] = "out" /\ accepted[t] = "no"
              /\ \A j \in Task : task'[j].given # t /\ task'[j].got # t
        BY <4>1, <4>2 DEF DialsOwned
      <4>5. \A j \in Task : \A t \in task'[j].dials :
              /\ life[t] = "dialing" /\ t \notin abandoned
              /\ \A i \in Task : t \in task'[i].dials => i = j
        BY Zenon, <4>1, <4>2 DEF DialsOwned
      <4>6. \A t \in abandoned : life[t] = "dialing"
        BY Zenon, <4>1 DEF DialsOwned
      <4> QED  BY Zenon, <4>3, <4>4, <4>5, <4>6 DEF DialsOwned
    <3>9. NoDirect(upgrade', pool', life')
      BY Zenon, <1>0, <2>2 DEF ManagerInv, NoDirect
    <3>10. \A u \in Upgraders : u # k => task'[u].gen # upgrade.gen
      BY Zenon, <2>2, <3>4 DEF ManagerInv, OneAttempt, Task
    <3>11. OneAttempt(upgrade', task')
      BY Zenon, <2>2, <3>2, <3>10 DEF ManagerInv, OneAttempt
    <3> QED BY Zenon, <3>5, <3>6, <3>7, <3>8, <3>9, <3>11 DEF ManagerInv
  <2> QED BY Zenon, <1>5, <2>1, <2>2 DEF ProcessUpgrades
<1> QED BY Zenon, <1>3, <1>4, <1>5

-----------------------------------------------------------------------------

\* Nothing is dialled or scheduled at first
LEMMA ManagerInvInit == ManagerInit => ManagerInv
<1> SUFFICES ASSUME ManagerInit PROVE ManagerInv
  BY Zenon
<1>1. \A k \in Task : task[k] = IdleTask
  BY Zenon DEF ManagerInit
<1>2. /\ IdleTask.dials = {} /\ IdleTask.given = None /\ IdleTask.got = None
      /\ IdleTask.gen = 0 /\ Holds(IdleTask) /\ ~upgrade.on
  BY Zenon DEF IdleTask, Holds, ManagerInit, NoUpgrade
<1>3. TableTypes
  BY Zenon, IdleTyped DEF ManagerInit, TableTypes, NoUpgrade
<1>4. HoldsItsTunnel /\ OpenersHaveNone
  BY Zenon, <1>1, <1>2 DEF HoldsItsTunnel, OpenersHaveNone, Task
<1>5. DialsOwned
  BY Zenon, <1>1, <1>2 DEF DialsOwned, ManagerInit
<1>6. NoDirect(upgrade, pool, life) /\ OneAttempt(upgrade, task)
  BY Zenon, <1>2 DEF NoDirect, OneAttempt
<1> QED BY Zenon, <1>3, <1>4, <1>5, <1>6 DEF ManagerInv

\* Every step of the manager keeps the invariant
LEMMA ManagerInvStep == ManagerInv /\ [ManagerNext]_managerVars => ManagerInv'
<1> SUFFICES ASSUME ManagerInv, [ManagerNext]_managerVars PROVE ManagerInv'
  BY Zenon
<1>1. CASE UNCHANGED managerVars
  BY Zenon, <1>1 DEF managerVars, ManagerInv, TableTypes, HoldsItsTunnel, Holds, DialsOwned,
              OpenersHaveNone, NoDirect, OneAttempt
<1>2. ASSUME NEW k \in Task, StartOpen(k) \/ StartCalled(k) \/ TaskStep(k)
      PROVE  ManagerInv'
  <2>1. CASE StartOpen(k) \/ StartCalled(k)
    BY Zenon, <2>1, StartKeeps
  <2>2. CASE TaskStep(k)
    BY Zenon, <2>2, WaitingKeeps, LookupKeeps, ExistingKeeps, StartRaceKeeps, OpenFailsKeeps,
       DialKeeps, ProxyOkKeeps, RegisterKeeps, PublishKeeps, FinalizeKeeps DEF TaskStep
  <2> QED BY Zenon, <1>2, <2>1, <2>2
<1>3. ASSUME NEW k \in Task, NEW t \in Tunnel, IncomingReverse(k, t)
      PROVE  ManagerInv'
  BY Zenon, <1>3, IncomingKeeps
<1>4. ASSUME NEW t \in Tunnel,
             CloseAbandoned(t) \/ IncomingPlain(t) \/ IncomingRegister(t) \/ IncomingPublish(t) \/ Die(t)
      PROVE  ManagerInv'
  BY Zenon, <1>4, CloseAbandonedKeeps, IncomingKeeps, IncomingRegisterKeeps, IncomingPublishKeeps, DieKeeps
<1>5. ASSUME NEW idle \in SUBSET Tunnel, Cleanup(idle)
      PROVE  ManagerInv'
  BY Zenon, <1>5, CleanupKeeps
<1>6. CASE LoopCompute \/ Due \/ ProcessUpgrades
  BY Zenon, <1>6, LoopKeeps
<1> QED BY Zenon, <1>1, <1>2, <1>3, <1>4, <1>5, <1>6 DEF ManagerNext

\* Two different attempts would make two elements
LEMMA OneAttemptExclusive == UpgradeTyped /\ OneAttempt(upgrade, task) => AttemptIsExclusive
<1> SUFFICES ASSUME UpgradeTyped, OneAttempt(upgrade, task) PROVE AttemptIsExclusive
  BY Zenon
<1> DEFINE current == {u \in Upgraders : upgrade.on /\ task[u].gen = upgrade.gen}
<1>1. CASE current = {}
  BY <1>1, FS_EmptySet DEF AttemptIsExclusive
<1>2. CASE current # {}
  <2>1. PICK u \in Upgraders : u \in current
    BY Zenon, <1>2
  <2>2. current = {u} /\ upgrade.in_progress
    BY Zenon, <2>1 DEF OneAttempt
  <2>3. Cardinality(current) = 1
    BY Zenon, <2>2, FS_Singleton
  <2> QED BY <2>2, <2>3 DEF AttemptIsExclusive
<1> QED BY Zenon, <1>1, <1>2

\* The invariant holds of every behaviour of the manager
LEMMA ManagerInvHolds == ManagerSpec => []ManagerInv
BY ManagerInvInit, ManagerInvStep, PTL DEF ManagerSpec

\* UpgradeMeansNoDirect for any tasks, candidates, arrivals and deaths: while
\* proxy_upgrade_states has the peer, its table has no usable direct candidate.
THEOREM UpgradeOnlyWithoutDirect == ManagerSpec => []UpgradeMeansNoDirect
<1>1. ManagerInv => UpgradeMeansNoDirect
  BY Zenon DEF ManagerInv, NoDirect, UpgradeMeansNoDirect, AvailableEntries, Available
<1> QED BY <1>1, ManagerInvHolds, PTL

\* AttemptIsExclusive for any number of attempts left over from earlier
\* generations: collect_due_proxy_upgrades never starts a second attempt of one.
THEOREM OneAttemptPerGeneration == ManagerSpec => []AttemptIsExclusive
<1>1. ManagerInv => AttemptIsExclusive
  BY Zenon, OneAttemptExclusive DEF ManagerInv, TableTypes, UpgradeTyped
<1> QED BY <1>1, ManagerInvHolds, PTL

-----------------------------------------------------------------------------
(***************************************************************************)
(* The leases of a TCP data connection: the type invariant, from one lemma *)
(* per operation, and the sequence of leases.                              *)
(***************************************************************************)

LEMMA OtherSide == \A s \in Side : Other(s) \in Side
BY Zenon DEF Side, Other

\* The operations on one end return a state of one end

LEMMA LeaseType ==
  /\ \A ch, seq \in Nat, kind \in Kind, init \in BOOLEAN : NewLease(ch, seq, kind, init) \in Lease
  /\ NoLease \in Lease
BY DEF NewLease, NoLease, NoChannel, Lease, Kind, Unknown

LEMMA ConstType == /\ NoClaim \in Claim /\ NoRecent \in Recent /\ NoReq \in Req /\ NoAck \in Ack
BY Zenon DEF NoClaim, NoRecent, NoReq, NoAck, NoChannel, Claim, Recent, Req, Ack, Kind, Result

LEMMA SendPendingType ==
  ASSUME NEW p \in Peer, NEW ch PROVE SendPendingClaimResult(p, ch) \in Peer
BY Zenon DEF Peer, SendPendingClaimResult

LEMMA DropStreamType ==
  ASSUME NEW p \in Peer, NEW h PROVE DropStream(p, h) \in {"entry", "lease", "dropped"}
BY Zenon DEF Peer, DropStream

LEMMA RetiredLeaseType == ASSUME NEW l \in Lease PROVE [l EXCEPT !.retired = TRUE] \in Lease
BY Zenon DEF Lease

LEMMA RetirePlainEntryType ==
  ASSUME NEW p \in Peer PROVE RetirePlainEntry(p) \in Peer
<1>1. [p EXCEPT !.st = "Retired", !.registered = FALSE, !.pending = {}, !.claim = NoClaim,
                !.stream = DropStream(p, "entry")] \in Peer
  BY Zenon, ConstType, DropStreamType DEF Peer, EntryState
<1>. QED BY Zenon, <1>1, SendPendingType DEF RetirePlainEntry

LEMMA RetireLeaseArcType ==
  ASSUME NEW p \in Peer PROVE RetireLeaseArc(p) \in Peer
<1>. DEFINE q == [p EXCEPT !.lease.retired = TRUE, !.st = "Retired", !.registered = FALSE,
                   !.pending = {}, !.claim = NoClaim,
                   !.stream = DropStream(p, "lease")]
<1>1. q \in Peer
  BY Zenon, ConstType, DropStreamType, RetiredLeaseType DEF Peer, EntryState
<1>. QED BY Zenon, <1>1, SendPendingType DEF RetireLeaseArc

LEMMA MarkDrainingType == ASSUME NEW p \in Peer PROVE MarkDraining(p) \in Peer
BY Zenon DEF Peer, MarkDraining, EntryState

LEMMA MaybeFinalizeLeaseType == ASSUME NEW p \in Peer PROVE MaybeFinalizeLease(p) \in Peer
<1>1. [p EXCEPT !.st = "Idle", !.stream = "entry", !.lease = NoLease] \in Peer
  BY Zenon, LeaseType DEF Peer, EntryState
<1>2. [p EXCEPT !.stream = "dropped", !.lease = NoLease] \in Peer
  BY Zenon, LeaseType DEF Peer
<1>3. [p EXCEPT !.lease.retired = TRUE, !.st = "Retired", !.registered = FALSE,
                !.stream = DropStream(p, "lease")] \in Peer
  BY Zenon, DropStreamType, RetiredLeaseType DEF Peer, EntryState
<1>. QED BY Zenon, <1>1, <1>2, <1>3 DEF MaybeFinalizeLease

LEMMA LeaseFactType ==
  ASSUME NEW l \in Lease, NEW type \in {"fin", "done"}, NEW n \in Nat
  PROVE  LeaseFact(l, type, n) \in Fact
BY Zenon DEF Lease, Fact, LeaseFact

LEMMA PeerLeaseType == ASSUME NEW p \in Peer PROVE p.lease \in Lease
BY Zenon DEF Peer

\* queueing a command keeps the type
LEMMA QueueType == ASSUME NEW p \in Peer, NEW m \in Cmd PROVE [p EXCEPT !.out = @ \cup {m}] \in Peer
BY Zenon DEF Peer

LEMMA SpawnSendWriteFinType == ASSUME NEW p \in Peer PROVE SpawnSendWriteFin(p) \in Peer
<1>. DEFINE l == p.lease
            r == [p EXCEPT !.lease.finSent = TRUE, !.lease.early = Unknown,
                           !.lease.peerDone = @ \/ l.early = l.tx]
            q == MarkDraining(r)
<1>1. r \in Peer BY Zenon DEF Peer, Lease
<1>2. q \in Peer BY Zenon, <1>1, MarkDrainingType
<1>3. RetireLeaseArc(q) \in Peer BY Zenon, <1>2, RetireLeaseArcType
<1>4. LeaseFact(l, "fin", l.tx) \in Cmd
  BY Zenon, PeerLeaseType, LeaseFactType DEF Cmd, Lease
<1>5. [q EXCEPT !.out = @ \cup {LeaseFact(l, "fin", l.tx)}] \in Peer
  BY Zenon, <1>2, <1>4, QueueType
<1>. HIDE DEF q
<1>. QED BY Zenon, <1>3, <1>5 DEF SpawnSendWriteFin, q

LEMMA SpawnSendReadDoneType == ASSUME NEW p \in Peer PROVE SpawnSendReadDone(p) \in Peer
<1>. DEFINE r == [p EXCEPT !.lease.doneSent = TRUE,
                           !.out = @ \cup {LeaseFact(p.lease, "done", p.lease.rx)}]
<1>1. LeaseFact(p.lease, "done", p.lease.rx) \in Cmd
  BY Zenon, PeerLeaseType, LeaseFactType DEF Cmd, Lease
<1>2. r \in Peer BY Zenon, <1>1 DEF Peer, Lease
<1>. QED BY Zenon, <1>2, MarkDrainingType DEF SpawnSendReadDone

LEMMA ReleaseReadHalfType == ASSUME NEW p \in Peer PROVE ReleaseReadHalf(p) \in Peer
<1>. DEFINE q == [p EXCEPT !.lease.readReleased = TRUE]
<1>1. q \in Peer BY Zenon DEF Peer, Lease
<1>. HIDE DEF q
<1>2. RetireLeaseArc(q) \in Peer /\ SpawnSendReadDone(q) \in Peer
  BY Zenon, <1>1, RetireLeaseArcType, SpawnSendReadDoneType
<1>. QED BY Zenon, <1>2, MaybeFinalizeLeaseType DEF ReleaseReadHalf, q

LEMMA ReleaseWriteHalfType == ASSUME NEW p \in Peer PROVE ReleaseWriteHalf(p) \in Peer
<1>1. [p EXCEPT !.lease.writeReleased = TRUE] \in Peer BY Zenon DEF Peer, Lease
<1>. QED BY Zenon, <1>1, SpawnSendWriteFinType, MaybeFinalizeLeaseType DEF ReleaseWriteHalf

LEMMA AfterReadType == ASSUME NEW p \in Peer PROVE AfterRead(p) \in Peer
<1>. DEFINE q == [p EXCEPT !.lease.rx = @ + 1]
<1>1. q \in Peer BY DEF Peer, Lease
<1>. HIDE DEF q
<1>. QED BY Zenon, <1>1, RetireLeaseArcType, SpawnSendReadDoneType DEF AfterRead, q

LEMMA BindEntryToLeaseType ==
  ASSUME NEW p \in Peer, NEW ch \in Nat, NEW seq \in Nat, NEW kind \in Kind, NEW init \in BOOLEAN
  PROVE  BindEntryToLease(p, ch, seq, kind, init) \in Peer
<1>. DEFINE l0 == NewLease(ch, seq, kind, init)
            own == {f \in p.pending : f.ch = ch /\ f.seq = seq}
            count(type) == IF \E f \in own : f.type = type
                           THEN (CHOOSE f \in own : f.type = type).n ELSE Unknown
            l == [l0 EXCEPT !.final = count("fin"), !.early = count("done")]
            bound == [p EXCEPT !.committed = seq, !.stream = "lease", !.claim = NoClaim,
                               !.pending = {},
                               !.st = IF p.pending = {} THEN "Bound" ELSE "Draining",
                               !.lease = l]
            fin == IF kind = "Datagram" /\ ~init THEN SpawnSendWriteFin(bound) ELSE bound
<1>1. ASSUME NEW type PROVE count(type) \in Nat \cup {Unknown}
  <2>1. own \subseteq Fact BY Zenon DEF Peer
  <2>. HIDE DEF own
  <2>2. CASE \E f \in own : f.type = type
    <3>1. (CHOOSE f \in own : f.type = type) \in own BY Zenon, <2>2
    <3>. QED BY Zenon, <3>1, <2>1, <2>2 DEF Fact
  <2>3. CASE ~ \E f \in own : f.type = type BY Zenon, <2>3
  <2>. QED BY Zenon, <2>2, <2>3
<1>2. l \in Lease
  <2>1. l0 \in Lease BY Zenon, LeaseType
  <2>. HIDE DEF l0, count
  <2>. QED BY Zenon, <1>1, <2>1 DEF Lease
<1>. HIDE DEF l
<1>3. bound \in Peer BY Zenon, <1>2, ConstType DEF Peer, EntryState
<1>. HIDE DEF bound
<1>4. fin \in Peer BY Zenon, <1>3, SpawnSendWriteFinType
<1>5. RetireLeaseArc(fin) \in Peer /\ SpawnSendReadDone(fin) \in Peer
  BY Zenon, <1>4, RetireLeaseArcType, SpawnSendReadDoneType
<1>. HIDE DEF fin
<1>. QED BY Zenon, <1>5 DEF BindEntryToLease, fin, bound, l

LEMMA CloseLocalType == ASSUME NEW p \in Peer PROVE CloseLocal(p) \in Peer
<1>. DEFINE q == [p EXCEPT !.open = FALSE, !.pending = {}, !.waiters = {}]
            r == [q EXCEPT !.lease.noReuse = TRUE]
<1>1. q \in Peer BY Zenon DEF Peer
<1>. HIDE DEF q
<1>2. r \in Peer BY Zenon, <1>1 DEF Peer, Lease
<1>3. [q EXCEPT !.st = "Retired", !.claim = NoClaim, !.stream = DropStream(p, "entry")] \in Peer
  BY Zenon, <1>1, ConstType, DropStreamType DEF Peer, EntryState
<1>. HIDE DEF r
<1>4. RetireLeaseArc(r) \in Peer BY Zenon, <1>2, RetireLeaseArcType
<1>. QED BY Zenon, <1>1, <1>2, <1>3, <1>4 DEF CloseLocal, q, r

LEMMA CloseImplType == ASSUME NEW p \in Peer PROVE CloseImpl(p) \in Peer
<1>1. CloseLocal(p) \in Peer BY Zenon, CloseLocalType
<1>. QED BY Zenon, <1>1 DEF CloseImpl, Peer

LEMMA ClaimDecisionType ==
  ASSUME NEW s \in Side, NEW p \in Peer, NEW m \in Req
  PROVE  ClaimDecision(s, p, m) \in Decision \cup Result
<1>1. ValidateRemoteFirstClaim(s, m.seq) \in Decision \cup Result
  BY Zenon DEF ValidateRemoteFirstClaim, Decision, Result
<1>2. p.recent.res \in Result BY Zenon DEF Peer, Recent
<1>3. p.st \in EntryState BY Zenon DEF Peer
<1>. QED BY <1>1, <1>2, <1>3 DEF ClaimDecision, Decision, Result, EntryState

LEMMA AnswerType ==
  ASSUME NEW p \in Peer, NEW m \in Req, NEW res \in Result
  PROVE  Answer(p, m, res) \in Peer
<1>1. [type |-> "ack", ch |-> m.ch, seq |-> m.seq, res |-> res] \in Ack BY Zenon DEF Req, Ack
<1>2. [ch |-> m.ch, seq |-> m.seq, res |-> res] \in Recent BY Zenon DEF Req, Recent
<1>. QED BY Zenon, <1>1, <1>2, ConstType DEF Answer, Peer, Decision, NoChannel

LEMMA ProcessClaimReqType ==
  ASSUME NEW s \in Side, NEW p \in Peer, NEW m \in Req
  PROVE  ProcessClaimReq(s, p, m) \in Peer
<1>. DEFINE d == ClaimDecision(s, p, m)
<1>0. d \in Decision \cup Result BY Zenon, ClaimDecisionType
<1>. HIDE DEF d
<1>1. CASE ~p.open BY Zenon, <1>1, CloseImplType DEF ProcessClaimReq
<1>2. CASE p.open /\ d \in Decision
  <2>1. [p EXCEPT !.pc = "check", !.req = m, !.dec = d,
                  !.lost = IF d = "ConflictLose" THEN p.claim.ch ELSE NoChannel] \in Peer
    BY Zenon, <1>2 DEF Peer, Claim, NoChannel
  <2>. QED BY Zenon, <1>2, <2>1 DEF ProcessClaimReq, d
<1>3. CASE p.open /\ d \notin Decision
  <2>1. Answer(p, m, d) \in Peer BY Zenon, <1>0, <1>3, AnswerType
  <2>. QED BY Zenon, <1>3, <2>1 DEF ProcessClaimReq, d
<1>. QED BY Zenon, <1>1, <1>2, <1>3

LEMMA AcceptClaimReqType ==
  ASSUME NEW p \in Peer, NEW target \in {"Ok"} \cup Rejection
  PROVE  AcceptClaimReq(p, target) \in Peer
<1>. DEFINE m == p.req
            b == BindEntryToLease(p, m.ch, m.seq, m.kind, FALSE)
<1>1. m \in Req BY Zenon DEF Peer
<1>2. b \in Peer BY Zenon, <1>1, BindEntryToLeaseType DEF Req
<1>. HIDE DEF m, b
<1>3. Answer(b, m, "Success") \in Peer BY Zenon, <1>1, <1>2, AnswerType DEF Result
<1>4. SendPendingClaimResult(Answer(b, m, "Success"), p.lost) \in Peer
  BY Zenon, <1>3, SendPendingType
<1>5. Answer(p, m, "ListenerClosed") \in Peer /\ Answer(p, m, "ConflictLost") \in Peer
  BY Zenon, <1>1, AnswerType DEF Result, Rejection
<1>6. SendPendingClaimResult(Answer(p, m, "ListenerClosed"), p.lost) \in Peer
  BY Zenon, <1>5, SendPendingType
<1>7. target # "Ok" => Answer(p, m, target) \in Peer BY Zenon, <1>1, AnswerType DEF Result
<1>. QED BY Zenon, <1>4, <1>5, <1>6, <1>7, CloseImplType DEF AcceptClaimReq, m, b

LEMMA HandleClaimAckType ==
  ASSUME NEW s \in Side, NEW p \in Peer, NEW m \in Ack
  PROVE  HandleClaimAck(s, p, m) \in Peer
<1>. DEFINE u == [p EXCEPT !.st = Unclaimed(s, p), !.claim = NoClaim]
            b == BindEntryToLease(p, m.ch, m.seq, p.claim.kind, TRUE)
<1>1. u \in Peer BY Zenon, ConstType DEF Peer, Unclaimed, EntryState
<1>2. b \in Peer BY Zenon, BindEntryToLeaseType DEF Ack, Peer, Claim
<1>. HIDE DEF u, b
<1>3. /\ SendPendingClaimResult(u, m.ch) \in Peer
      /\ SendPendingClaimResult(b, m.ch) \in Peer
      /\ SendPendingClaimResult(p, m.ch) \in Peer
  BY Zenon, <1>1, <1>2, SendPendingType
<1>. QED BY Zenon, <1>3, CloseImplType DEF HandleClaimAck, u, b

LEMMA InsertPendingType ==
  ASSUME NEW p \in Peer, NEW m \in Fact PROVE InsertPending(p, m) \in Peer
<1>1. [p EXCEPT !.pending = @ \cup {m}] \in Peer BY Zenon DEF Peer
<1>. QED BY Zenon, <1>1, RetirePlainEntryType DEF InsertPending

LEMMA FactTargetType ==
  ASSUME NEW p \in Peer, NEW m \in Fact
  PROVE  FactTarget(p, m) \in {"unknown", "impossible", "stale", "claiming", "contradiction", "lease"}
<1>1. p.st \in EntryState BY Zenon DEF Peer
<1>. QED BY Zenon, <1>1 DEF FactTarget, EntryState

LEMMA HandleWriteFinType ==
  ASSUME NEW p \in Peer, NEW m \in Fact PROVE HandleWriteFin(p, m) \in Peer
<1>. DEFINE known == [p EXCEPT !.lease.final = m.n]
<1>1. known \in Peer BY DEF Peer, Lease, Fact
<1>. HIDE DEF known
<1>2. /\ MaybeFinalizeLease(RetireLeaseArc(MarkDraining(p))) \in Peer
      /\ MaybeFinalizeLease(RetireLeaseArc(MarkDraining(known))) \in Peer
      /\ MaybeFinalizeLease(SpawnSendReadDone(MarkDraining(known))) \in Peer
  BY Zenon, <1>1, MarkDrainingType, RetireLeaseArcType, SpawnSendReadDoneType, MaybeFinalizeLeaseType
<1>. QED
  BY Zenon, <1>2, FactTargetType, CloseImplType, RetirePlainEntryType, InsertPendingType
  DEF HandleWriteFin, known

LEMMA HandleReadDoneType ==
  ASSUME NEW p \in Peer, NEW m \in Fact PROVE HandleReadDone(p, m) \in Peer
<1>1. [p EXCEPT !.lease.early = m.n] \in Peer BY DEF Peer, Lease, Fact
<1>2. [p EXCEPT !.lease.peerDone = TRUE] \in Peer BY Zenon DEF Peer, Lease
<1>3. /\ MarkDraining([p EXCEPT !.lease.early = m.n]) \in Peer
      /\ MaybeFinalizeLease([p EXCEPT !.lease.peerDone = TRUE]) \in Peer
  BY Zenon, <1>1, <1>2, MarkDrainingType, MaybeFinalizeLeaseType
<1>. QED
  BY Zenon, <1>3, FactTargetType, CloseImplType, RetirePlainEntryType, RetireLeaseArcType, InsertPendingType
  DEF HandleReadDone

LEMMA FreeOrphanType == ASSUME NEW p \in Peer PROVE FreeOrphan(p) \in Peer
BY Zenon, DropStreamType DEF FreeOrphan, Peer

-----------------------------------------------------------------------------
(* The actions keep the type invariant *)

LEMMA BecomeType ==
  ASSUME TypeOK, NEW s \in Side, NEW q \in Peer, Become(s, q)
  PROVE  peer' \in [Side -> Peer]
BY Zenon DEF TypeOK, Become

LEMMA SendType ==
  ASSUME TypeOK, NEW s \in Side, NEW m \in Cmd, control' = [control EXCEPT ![s] = Append(@, m)]
  PROVE  control' \in [Side -> Seq(Cmd)]
BY DEF TypeOK

LEMMA TakeType ==
  ASSUME TypeOK, NEW s \in Side, control[s] # <<>>, control' = [control EXCEPT ![s] = Tail(@)]
  PROVE  /\ Head(control[s]) \in Cmd
         /\ control' \in [Side -> Seq(Cmd)]
BY DEF TypeOK

LEMMA SystemType == ASSUME TypeOK, NEW s \in Side, System(s) PROVE TypeOK'
<1>. DEFINE p == peer[s]
<1>0. p \in Peer /\ Other(s) \in Side BY Zenon, OtherSide DEF TypeOK
<1>1. CASE AddWaiter(s)
  <2>1. [p EXCEPT !.opening = NoReq, !.waiters = @ \cup {p.opening.ch},
                  !.out = @ \cup {p.opening}] \in Peer
    BY <1>0, ConstType DEF Peer, Req, Cmd
  <2>. QED BY Zenon, <1>1, <2>1, BecomeType DEF AddWaiter, TypeOK
<1>2. CASE Send(s)
  <2>. PICK m \in p.out :
         LET q == [p EXCEPT !.out = @ \ {m}]
         IN /\ control' = [control EXCEPT ![s] = Append(@, m)]
            /\ Become(s, IF m.type # "req" /\ m.seq = q.lease.seq THEN MaybeFinalizeLease(q) ELSE q)
            /\ UNCHANGED wire
    BY Zenon, <1>2 DEF Send
  <2>. DEFINE q == [p EXCEPT !.out = @ \ {m}]
  <2>1. m \in Cmd /\ q \in Peer BY Zenon, <1>0 DEF Peer
  <2>. HIDE DEF q
  <2>2. (IF m.type # "req" /\ m.seq = q.lease.seq THEN MaybeFinalizeLease(q) ELSE q) \in Peer
    BY Zenon, <2>1, MaybeFinalizeLeaseType
  <2>3. peer' \in [Side -> Peer] BY Zenon, <2>2, BecomeType DEF q
  <2>4. control' \in [Side -> Seq(Cmd)] BY Zenon, <2>1, SendType
  <2>. QED BY Zenon, <2>3, <2>4 DEF TypeOK
<1>3. CASE SendFails(s)
  <2>. DEFINE q(m) == [p EXCEPT !.out = @ \ {m}]
              f(m) == [q(m) EXCEPT !.waiters = @ \ {m.ch}, !.claim = NoClaim,
                                   !.st = Unclaimed(s, q(m))]
              g(m) == [q(m) EXCEPT !.st = "Retired", !.registered = FALSE, !.claim = NoClaim,
                                   !.stream = DropStream(q(m), "entry")]
              r(m) == CASE m.type = "req" -> f(m)
                        [] m.type # "req" /\ m.seq = q(m).lease.seq -> RetireLeaseArc(q(m))
                        [] OTHER -> g(m)
  <2>1. PICK m \in p.out : Become(s, r(m)) BY Zenon, <1>3 DEF SendFails
  <2>2. q(m) \in Peer BY Zenon, <1>0 DEF Peer
  <2>. HIDE DEF q
  <2>3. f(m) \in Peer BY Zenon, <2>2, ConstType DEF Peer, Unclaimed, EntryState
  <2>4. g(m) \in Peer BY Zenon, <2>2, ConstType, DropStreamType DEF Peer, EntryState
  <2>. HIDE DEF f, g
  <2>5. r(m) \in Peer BY Zenon, <2>2, <2>3, <2>4, RetireLeaseArcType
  <2>. HIDE DEF r
  <2>. QED BY Zenon, <1>3, <2>1, <2>5, BecomeType DEF SendFails, TypeOK
<1>4. CASE Receive(s)
  <2>. DEFINE m == Head(control[Other(s)])
              r == CASE m.type = "req" -> ProcessClaimReq(s, p, m)
                     [] m.type = "ack" -> HandleClaimAck(s, p, m)
                     [] m.type = "fin" -> HandleWriteFin(p, m)
                     [] m.type = "done" -> HandleReadDone(p, m)
  <2>1. m \in Cmd /\ control' \in [Side -> Seq(Cmd)] BY Zenon, <1>0, <1>4, TakeType DEF Receive
  <2>2. Become(s, r) /\ UNCHANGED wire BY Zenon, <1>4 DEF Receive
  <2>. HIDE DEF m
  <2>3. CASE m \in Req
    <3>1. r = ProcessClaimReq(s, p, m) BY Zenon, <2>3 DEF Req
    <3>. QED BY Zenon, <3>1, <2>1, <2>2, <2>3, <1>0, ProcessClaimReqType, BecomeType DEF TypeOK
  <2>4. CASE m \in Ack
    <3>1. r = HandleClaimAck(s, p, m) BY Zenon, <2>4 DEF Ack
    <3>. QED BY Zenon, <3>1, <2>1, <2>2, <2>4, <1>0, HandleClaimAckType, BecomeType DEF TypeOK
  <2>5. CASE m \in Fact /\ m.type = "fin"
    <3>1. r = HandleWriteFin(p, m) BY Zenon, <2>5
    <3>. QED BY Zenon, <3>1, <2>1, <2>2, <2>5, <1>0, HandleWriteFinType, BecomeType DEF TypeOK
  <2>6. CASE m \in Fact /\ m.type = "done"
    <3>1. r = HandleReadDone(p, m) BY Zenon, <2>6
    <3>. QED BY Zenon, <3>1, <2>1, <2>2, <2>6, <1>0, HandleReadDoneType, BecomeType DEF TypeOK
  <2>. QED BY Zenon, <2>1, <2>3, <2>4, <2>5, <2>6 DEF Cmd, Fact
<1>5. CASE CheckAcceptTarget(s)
  <2>1. PICK target \in {"Ok"} \cup Rejection : Become(s, AcceptClaimReq(p, target))
    BY Zenon, <1>5, ConstantsAssumption DEF CheckAcceptTarget, Rejection
  <2>2. AcceptClaimReq(p, target) \in Peer BY Zenon, <1>0, AcceptClaimReqType
  <2>. QED BY Zenon, <1>5, <2>1, <2>2, BecomeType DEF CheckAcceptTarget, TypeOK
<1>6. CASE Reply(s)
  <2>1. [p EXCEPT !.pc = "recv", !.ack = NoAck] \in Peer BY Zenon, <1>0, ConstType DEF Peer
  <2>2. CloseImpl(p) \in Peer BY Zenon, <1>0, CloseImplType
  <2>3. [CloseImpl(p) EXCEPT !.ack = NoAck] \in Peer BY Zenon, <2>2, ConstType DEF Peer
  <2>4. p.ack \in Cmd BY Zenon, <1>0 DEF Peer, Cmd
  <2>5. CASE /\ control' = [control EXCEPT ![s] = Append(@, p.ack)]
             /\ Become(s, [p EXCEPT !.pc = "recv", !.ack = NoAck])
    <3>1. control' \in [Side -> Seq(Cmd)] BY Zenon, <2>4, <2>5, SendType
    <3>2. peer' \in [Side -> Peer] BY Zenon, <2>1, <2>5, BecomeType
    <3>. QED BY Zenon, <3>1, <3>2, <1>6 DEF Reply, TypeOK
  <2>6. CASE Become(s, [CloseImpl(p) EXCEPT !.ack = NoAck]) /\ UNCHANGED control
    <3>1. peer' \in [Side -> Peer] BY Zenon, <2>3, <2>6, BecomeType
    <3>. QED BY Zenon, <3>1, <2>6, <1>6 DEF Reply, TypeOK
  <2>. QED BY Zenon, <1>6, <2>5, <2>6 DEF Reply
<1>7. CASE ReceiveEof(s)
  BY Zenon, <1>0, <1>7, CloseImplType, BecomeType DEF ReceiveEof, TypeOK
<1>. QED BY Zenon, <1>1, <1>2, <1>3, <1>4, <1>5, <1>6, <1>7 DEF System

LEMMA UserType == ASSUME TypeOK, NEW s \in Side, Application(s) PROVE TypeOK'
<1>. DEFINE p == peer[s]
<1>0. p \in Peer /\ Other(s) \in Side BY Zenon, OtherSide DEF TypeOK
<1>1. CASE ClaimEntry(s)
  <2>1. PICK kind \in Kinds, nonce \in Nonces :
          LET claim == [ch |-> ChannelId(s, p.claims + 1), nonce |-> nonce, kind |-> kind,
                        seq |-> IF p.st = "FirstClaimPending" THEN 1 ELSE NextLeaseSeq(p.committed)]
          IN Become(s, [p EXCEPT !.st = "Claiming", !.claims = @ + 1, !.claim = claim,
                          !.opening = [type |-> "req", ch |-> claim.ch, seq |-> claim.seq,
                                       nonce |-> nonce, kind |-> kind]])
    BY Zenon, <1>1 DEF ClaimEntry
  <2>. DEFINE claim == [ch |-> ChannelId(s, p.claims + 1), nonce |-> nonce, kind |-> kind,
                        seq |-> IF p.st = "FirstClaimPending" THEN 1 ELSE NextLeaseSeq(p.committed)]
              req == [type |-> "req", ch |-> claim.ch, seq |-> claim.seq,
                      nonce |-> nonce, kind |-> kind]
              q == [p EXCEPT !.st = "Claiming", !.claims = @ + 1, !.claim = claim, !.opening = req]
  <2>2. kind \in Kind /\ nonce \in Nat BY Zenon, ConstantsAssumption
  <2>3. claim \in Claim
    <3>. HIDE DEF p
    <3>1. p.claims \in Nat /\ p.committed \in Nat BY Zenon, <1>0 DEF Peer
    <3>2. PICK ch : ch = ChannelId(s, p.claims + 1) BY Zenon
    <3>3. ch \in Nat BY <3>1, <3>2 DEF ChannelId
    <3>4. PICK seq : seq = IF p.st = "FirstClaimPending" THEN 1 ELSE NextLeaseSeq(p.committed)
      BY Zenon
    <3>5. seq \in Nat BY <3>1, <3>4 DEF NextLeaseSeq
    <3>. QED BY Zenon, <2>2, <3>2, <3>3, <3>4, <3>5 DEF Claim
  <2>4. req \in Req
    <3>. HIDE DEF claim
    <3>. QED BY Zenon, <2>2, <2>3 DEF Claim, Req
  <2>5. q \in Peer
    <3>. HIDE DEF claim, req, p
    <3>1. p.claims + 1 \in Nat BY <1>0 DEF Peer
    <3>2. [p EXCEPT !.st = "Claiming", !.claims = p.claims + 1] \in Peer
      BY Zenon, <1>0, <3>1 DEF Peer, EntryState
    <3>3. [[p EXCEPT !.st = "Claiming", !.claims = p.claims + 1]
             EXCEPT !.claim = claim, !.opening = req] \in Peer
      BY Zenon, <3>2, <2>3, <2>4 DEF Peer
    <3>. QED BY Zenon, <3>3
  <2>6. Become(s, q) BY Zenon, <2>1
  <2>. QED BY Zenon, <1>1, <2>5, <2>6, BecomeType DEF ClaimEntry, TypeOK
<1>2. CASE Write(s)
  <2>1. [p EXCEPT !.lease.tx = @ + 1] \in Peer BY <1>0 DEF Peer, Lease
  <2>2. peer' \in [Side -> Peer] BY Zenon, <1>0, <1>2, <2>1, RetireLeaseArcType, BecomeType DEF Write
  <2>3. p.lease.ch \in Nat BY Zenon, <1>0 DEF Peer, Lease
  <2>4. wire' = wire \/ wire' = [wire EXCEPT ![s] = Append(@, p.lease.ch)] BY Zenon, <1>2 DEF Write
  <2>5. wire' \in [Side -> Seq(Nat)]
    <3>1. wire \in [Side -> Seq(Nat)] BY Zenon DEF TypeOK
    <3>. HIDE DEF p
    <3>2. CASE wire' = wire BY Zenon, <3>1, <3>2
    <3>3. CASE wire' = [wire EXCEPT ![s] = Append(@, p.lease.ch)]
      <4>. DEFINE b == p.lease.ch
      <4>1. b \in Nat BY Zenon, <2>3
      <4>. HIDE DEF b
      <4>2. wire' = [wire EXCEPT ![s] = Append(@, b)] BY Zenon, <3>3 DEF b
      <4>. QED BY <3>1, <4>1, <4>2
    <3>. QED BY Zenon, <2>4, <3>2, <3>3
  <2>. QED BY Zenon, <1>2, <2>2, <2>5 DEF Write, TypeOK
<1>3. CASE Read(s)
  <2>1. peer' \in [Side -> Peer] BY Zenon, <1>0, <1>3, AfterReadType, BecomeType DEF Read
  <2>2. wire' \in [Side -> Seq(Nat)] BY <1>0, <1>3 DEF Read, TypeOK
  <2>. QED BY Zenon, <1>3, <2>1, <2>2 DEF Read, TypeOK
<1>4. CASE ReadFails(s) BY Zenon, <1>0, <1>4, RetireLeaseArcType, BecomeType DEF ReadFails, TypeOK
<1>5. CASE DropRead(s)
  BY Zenon, <1>0, <1>5, ReleaseReadHalfType, FreeOrphanType, BecomeType DEF DropRead, TypeOK
<1>6. CASE DropWrite(s)
  BY Zenon, <1>0, <1>6, ReleaseWriteHalfType, FreeOrphanType, BecomeType DEF DropWrite, TypeOK
<1>7. CASE Close(s) BY Zenon, <1>0, <1>7, CloseLocalType, BecomeType DEF Close, TypeOK
<1>8. CASE DropTunnel(s)
  <2>1. [p EXCEPT !.writeOpen = FALSE] \in Peer BY Zenon, <1>0 DEF Peer
  <2>. QED BY Zenon, <1>8, <2>1, BecomeType DEF DropTunnel, TypeOK
<1>. QED BY Zenon, <1>1, <1>2, <1>3, <1>4, <1>5, <1>6, <1>7, <1>8 DEF Application

LEMMA TimerType == ASSUME TypeOK, NEW s \in Side, Timer(s) PROVE TypeOK'
<1>. DEFINE p == peer[s]
<1>0. p \in Peer BY Zenon DEF TypeOK
<1>1. CASE ClaimTimeout(s)
  <2>1. PICK ch : Become(s, RetirePlainEntry([p EXCEPT !.waiters = @ \ {ch}]))
    BY Zenon, <1>1 DEF ClaimTimeout
  <2>2. [p EXCEPT !.waiters = @ \ {ch}] \in Peer BY Zenon, <1>0 DEF Peer
  <2>. QED BY Zenon, <1>1, <2>1, <2>2, RetirePlainEntryType, BecomeType DEF ClaimTimeout, TypeOK
<1>2. CASE FirstClaimTimeout(s)
  <2>1. [p EXCEPT !.firstTimer = FALSE] \in Peer BY Zenon, <1>0 DEF Peer
  <2>. QED BY Zenon, <1>2, <2>1, RetirePlainEntryType, BecomeType DEF FirstClaimTimeout, TypeOK
<1>3. CASE DrainTimeout(s)
  <2>1. peer' \in [Side -> Peer]
    BY Zenon, <1>0, <1>3, RetireLeaseArcType, RetirePlainEntryType, BecomeType DEF DrainTimeout
  <2>. QED BY Zenon, <1>3, <2>1 DEF DrainTimeout, TypeOK
<1>. QED BY Zenon, <1>1, <1>2, <1>3 DEF Timer

\* Every reachable state of the lease protocol is well typed, whatever the
\* bounds, the owner of the first claim, the order of the peer ids and the
\* faults switched on
THEOREM TypeCorrect == Spec => []TypeOK
<1>1. Init => TypeOK
  <2>. SUFFICES ASSUME Init PROVE TypeOK BY Zenon
  <2>1. ASSUME NEW s \in Side PROVE InitPeer(s) \in Peer
    BY Zenon, ConstType, LeaseType DEF InitPeer, Peer, EntryState, Decision, NoChannel
  <2>. QED BY <2>1 DEF Init, TypeOK
<1>2. TypeOK /\ [Next]_vars => TypeOK'
  <2>. SUFFICES ASSUME TypeOK, [Next]_vars PROVE TypeOK' BY Zenon
  <2>1. CASE Next BY Zenon, <2>1, SystemType, UserType, TimerType DEF Next
  <2>2. CASE UNCHANGED vars BY Zenon, <2>2 DEF TypeOK, vars
  <2>. QED BY Zenon, <2>1, <2>2
<1>. QED BY <1>1, <1>2, PTL DEF Spec

\* local_simultaneous_claim_wins: of two claims that meet, exactly one wins,
\* each end judging by its own view of the two nonces
THEOREM ExactlyOneClaimWins ==
  ASSUME NEW s \in Side, NEW m \in Nat, NEW n \in Nat
  PROVE  LocalSimultaneousClaimWins(s, m, n) # LocalSimultaneousClaimWins(Other(s), n, m)
BY ConstantsAssumption DEF LocalSimultaneousClaimWins, Other, Side

-----------------------------------------------------------------------------
(* committed_lease_seq moves by single steps. SeqOK is the invariant of one    *)
(* end; an operation that makes no claim, decides none and binds none is       *)
(* Quiet, and Quiet operations keep SeqOK.                                     *)

SeqOK(p) ==
  /\ p.st = "FirstClaimPending" => p.committed = 0
  /\ p.st = "Claiming" => p.claim.seq = p.committed + 1
  /\ p.pc = "check" => p.req.seq = p.committed + 1

Quiet(p, q) ==
  /\ q.committed = p.committed
  /\ q.st = "FirstClaimPending" => p.st = "FirstClaimPending" \/ p.committed = 0
  /\ q.st = "Claiming" => p.st = "Claiming" /\ q.claim = p.claim
  /\ q.pc = "check" => p.pc = "check" /\ q.req = p.req

LEMMA QuietKeepsSeqOK ==
  ASSUME NEW p, NEW q, SeqOK(p), Quiet(p, q) PROVE SeqOK(q)
BY Zenon DEF SeqOK, Quiet

LEMMA QuietTrans ==
  ASSUME NEW p, NEW q, NEW r, Quiet(p, q), Quiet(q, r) PROVE Quiet(p, r)
BY Zenon DEF Quiet

LEMMA QuietRefl == ASSUME NEW p PROVE Quiet(p, p)
BY Zenon DEF Quiet

LEMMA SendPendingQuiet ==
  ASSUME NEW p \in Peer, NEW ch PROVE Quiet(p, SendPendingClaimResult(p, ch))
BY Zenon DEF Peer, SendPendingClaimResult, Quiet

LEMMA RetirePlainEntryQuiet ==
  ASSUME NEW p \in Peer PROVE Quiet(p, RetirePlainEntry(p))
BY Zenon DEF RetirePlainEntry, SendPendingClaimResult, Quiet, Peer

LEMMA RetireLeaseArcQuiet ==
  ASSUME NEW p \in Peer PROVE Quiet(p, RetireLeaseArc(p))
BY Zenon DEF RetireLeaseArc, SendPendingClaimResult, Quiet, Peer

LEMMA MarkDrainingQuiet ==
  ASSUME NEW p \in Peer PROVE Quiet(p, MarkDraining(p))
BY Zenon DEF MarkDraining, Quiet, Peer

LEMMA MaybeFinalizeLeaseQuiet ==
  ASSUME NEW p \in Peer PROVE Quiet(p, MaybeFinalizeLease(p))
BY Zenon DEF MaybeFinalizeLease, Quiet, Peer

LEMMA SpawnSendWriteFinQuiet ==
  ASSUME NEW p \in Peer PROVE Quiet(p, SpawnSendWriteFin(p))
<1>. DEFINE l == p.lease
            r == [p EXCEPT !.lease.finSent = TRUE, !.lease.early = Unknown,
                           !.lease.peerDone = @ \/ l.early = l.tx]
            q == MarkDraining(r)
<1>1. r \in Peer /\ Quiet(p, r) BY Zenon DEF Peer, Lease, Quiet
<1>. HIDE DEF r
<1>2. q \in Peer /\ Quiet(p, q) BY Zenon, <1>1, MarkDrainingType, MarkDrainingQuiet, QuietTrans
<1>. HIDE DEF q
<1>3. Quiet(p, RetireLeaseArc(q)) BY Zenon, <1>2, RetireLeaseArcQuiet, QuietTrans
<1>4. Quiet(p, [q EXCEPT !.out = @ \cup {LeaseFact(l, "fin", l.tx)}]) BY Zenon, <1>2 DEF Quiet, Peer
<1>. QED BY Zenon, <1>3, <1>4, QuietRefl DEF SpawnSendWriteFin, q, r

LEMMA SpawnSendReadDoneQuiet ==
  ASSUME NEW p \in Peer PROVE Quiet(p, SpawnSendReadDone(p))
BY Zenon DEF SpawnSendReadDone, MarkDraining, Quiet, Peer

LEMMA ReleaseReadHalfQuiet == ASSUME NEW p \in Peer PROVE Quiet(p, ReleaseReadHalf(p))
<1>. DEFINE q == [p EXCEPT !.lease.readReleased = TRUE]
            r == IF p.lease.final \notin {Unknown, p.lease.rx}
                 THEN RetireLeaseArc(q) ELSE SpawnSendReadDone(q)
<1>1. q \in Peer /\ Quiet(p, q) BY Zenon DEF Peer, Lease, Quiet
<1>. HIDE DEF q
<1>2. r \in Peer /\ Quiet(q, r)
  BY Zenon, <1>1, RetireLeaseArcType, SpawnSendReadDoneType, RetireLeaseArcQuiet, SpawnSendReadDoneQuiet
<1>. HIDE DEF r
<1>3. Quiet(r, MaybeFinalizeLease(r)) BY Zenon, <1>2, MaybeFinalizeLeaseQuiet
<1>. QED BY Zenon, <1>1, <1>2, <1>3, QuietTrans DEF ReleaseReadHalf, q, r

LEMMA ReleaseWriteHalfQuiet == ASSUME NEW p \in Peer PROVE Quiet(p, ReleaseWriteHalf(p))
<1>. DEFINE q == [p EXCEPT !.lease.writeReleased = TRUE]
            r == SpawnSendWriteFin(q)
<1>1. q \in Peer /\ Quiet(p, q) BY Zenon DEF Peer, Lease, Quiet
<1>. HIDE DEF q
<1>2. r \in Peer /\ Quiet(q, r) BY Zenon, <1>1, SpawnSendWriteFinType, SpawnSendWriteFinQuiet
<1>. HIDE DEF r
<1>3. Quiet(r, MaybeFinalizeLease(r)) BY Zenon, <1>2, MaybeFinalizeLeaseQuiet
<1>. QED BY Zenon, <1>1, <1>2, <1>3, QuietTrans DEF ReleaseWriteHalf, q, r

LEMMA AfterReadQuiet == ASSUME NEW p \in Peer PROVE Quiet(p, AfterRead(p))
<1>. DEFINE q == [p EXCEPT !.lease.rx = @ + 1]
<1>1. q \in Peer /\ Quiet(p, q) BY DEF Peer, Lease, Quiet
<1>. HIDE DEF q
<1>2. Quiet(q, RetireLeaseArc(q)) /\ Quiet(q, SpawnSendReadDone(q))
  BY Zenon, <1>1, RetireLeaseArcQuiet, SpawnSendReadDoneQuiet
<1>. QED BY Zenon, <1>1, <1>2, QuietTrans DEF AfterRead, q

\* binding is not Quiet: it commits seq, and leaves the loop where it was
LEMMA BindCommits ==
  ASSUME NEW p \in Peer, NEW ch \in Nat, NEW seq \in Nat, NEW kind \in Kind, NEW init \in BOOLEAN
  PROVE  /\ BindEntryToLease(p, ch, seq, kind, init).committed = seq
         /\ BindEntryToLease(p, ch, seq, kind, init).st \notin {"FirstClaimPending", "Claiming"}
         /\ BindEntryToLease(p, ch, seq, kind, init).pc = p.pc
<1>. DEFINE own == {f \in p.pending : f.ch = ch /\ f.seq = seq}
            count(type) == IF \E f \in own : f.type = type
                           THEN (CHOOSE f \in own : f.type = type).n ELSE Unknown
            l == [NewLease(ch, seq, kind, init) EXCEPT !.final = count("fin"), !.early = count("done")]
            bound == [p EXCEPT !.committed = seq, !.stream = "lease", !.claim = NoClaim,
                               !.pending = {},
                               !.st = IF p.pending = {} THEN "Bound" ELSE "Draining",
                               !.lease = l]
            fin == IF kind = "Datagram" /\ ~init THEN SpawnSendWriteFin(bound) ELSE bound
            Committed(q) == q.committed = seq /\ q.st \in {"Bound", "Draining", "Retired"} /\ q.pc = p.pc
<1>1. Committed(bound)
  <2>. HIDE DEF l
  <2>. QED BY Zenon DEF Peer
<1>. HIDE DEF bound
<1>2. Committed(fin) BY <1>1 DEF SpawnSendWriteFin, MarkDraining, RetireLeaseArc, SendPendingClaimResult
<1>. HIDE DEF fin
<1>3. Committed(RetireLeaseArc(fin)) /\ Committed(SpawnSendReadDone(fin))
  BY <1>2 DEF SpawnSendReadDone, MarkDraining, RetireLeaseArc, SendPendingClaimResult
<1>. QED BY <1>3 DEF BindEntryToLease, fin, bound

LEMMA CloseQuiet ==
  ASSUME NEW p \in Peer PROVE Quiet(p, CloseLocal(p)) /\ Quiet(p, CloseImpl(p))
<1>. DEFINE q == [p EXCEPT !.open = FALSE, !.pending = {}, !.waiters = {}]
            r == [q EXCEPT !.lease.noReuse = TRUE]
<1>1. q \in Peer /\ Quiet(p, q) BY Zenon DEF Peer, Quiet
<1>. HIDE DEF q
<1>2. r \in Peer /\ Quiet(p, r)
  <2>1. r \in Peer BY Zenon, <1>1 DEF Peer, Lease
  <2>2. Quiet(q, r) BY Zenon, <1>1 DEF Peer, Quiet
  <2>. QED BY Zenon, <1>1, <2>1, <2>2, QuietTrans
<1>. HIDE DEF r
<1>3. Quiet(p, [q EXCEPT !.st = "Retired", !.claim = NoClaim, !.stream = DropStream(p, "entry")])
  BY Zenon, <1>1 DEF Peer, Quiet
<1>4. Quiet(p, RetireLeaseArc(r)) BY Zenon, <1>2, RetireLeaseArcQuiet, QuietTrans
<1>5. Quiet(p, CloseLocal(p))
  BY Zenon, <1>1, <1>2, <1>3, <1>4, QuietRefl DEF CloseLocal, q, r
<1>6. CloseLocal(p) \in Peer BY Zenon, CloseLocalType
<1>7. Quiet(CloseLocal(p), CloseImpl(p))
  BY Zenon, <1>6 DEF CloseImpl, Quiet, Peer
<1>. QED BY Zenon, <1>5, <1>7, QuietTrans

LEMMA AnswerQuiet ==
  ASSUME NEW p \in Peer, NEW m \in Req, NEW res \in Result PROVE Quiet(p, Answer(p, m, res))
BY Zenon DEF Answer, Quiet, Peer

LEMMA InsertPendingQuiet ==
  ASSUME NEW p \in Peer, NEW m \in Fact PROVE Quiet(p, InsertPending(p, m))
BY Zenon, RetirePlainEntryQuiet DEF InsertPending, Quiet, Peer

LEMMA HandleWriteFinQuiet ==
  ASSUME NEW p \in Peer, NEW m \in Fact PROVE Quiet(p, HandleWriteFin(p, m))
<1>. DEFINE known == [p EXCEPT !.lease.final = m.n]
            Ok(q) == q \in Peer /\ Quiet(p, q)
<1>1. Ok(known) BY DEF Peer, Lease, Fact, Quiet
<1>. HIDE DEF known
<1>2. Ok(MarkDraining(p)) /\ Ok(MarkDraining(known))
  BY Zenon, <1>1, MarkDrainingType, MarkDrainingQuiet, QuietTrans
<1>3. /\ Ok(RetireLeaseArc(MarkDraining(p))) /\ Ok(RetireLeaseArc(MarkDraining(known)))
      /\ Ok(SpawnSendReadDone(MarkDraining(known)))
  BY Zenon, <1>2, RetireLeaseArcType, RetireLeaseArcQuiet, SpawnSendReadDoneType,
     SpawnSendReadDoneQuiet, QuietTrans
<1>4. /\ Quiet(p, MaybeFinalizeLease(RetireLeaseArc(MarkDraining(p))))
      /\ Quiet(p, MaybeFinalizeLease(RetireLeaseArc(MarkDraining(known))))
      /\ Quiet(p, MaybeFinalizeLease(SpawnSendReadDone(MarkDraining(known))))
  BY Zenon, <1>3, MaybeFinalizeLeaseQuiet, QuietTrans
<1>. QED
  BY Zenon, <1>4, FactTargetType, CloseQuiet, RetirePlainEntryQuiet, InsertPendingQuiet, QuietRefl
  DEF HandleWriteFin, known

LEMMA HandleReadDoneQuiet ==
  ASSUME NEW p \in Peer, NEW m \in Fact PROVE Quiet(p, HandleReadDone(p, m))
<1>. DEFINE e == [p EXCEPT !.lease.early = m.n]
            d == [p EXCEPT !.lease.peerDone = TRUE]
<1>1. e \in Peer /\ Quiet(p, e) BY DEF Peer, Lease, Fact, Quiet
<1>2. d \in Peer /\ Quiet(p, d) BY Zenon DEF Peer, Lease, Quiet
<1>. HIDE DEF e, d
<1>3. Quiet(p, MarkDraining(e)) /\ Quiet(p, MaybeFinalizeLease(d))
  BY Zenon, <1>1, <1>2, MarkDrainingQuiet, MaybeFinalizeLeaseQuiet, QuietTrans
<1>. QED
  BY Zenon, <1>3, FactTargetType, CloseQuiet, RetirePlainEntryQuiet, RetireLeaseArcQuiet,
     InsertPendingQuiet, QuietRefl
  DEF HandleReadDone, e, d

LEMMA FreeOrphanQuiet == ASSUME NEW p \in Peer PROVE Quiet(p, FreeOrphan(p))
BY Zenon DEF FreeOrphan, Quiet, Peer

-----------------------------------------------------------------------------
(* What a step does to the end that takes it *)

Advances(p, q) == SeqOK(q) /\ q.committed \in {p.committed, p.committed + 1}

LEMMA QuietAdvances == ASSUME NEW p, NEW q, SeqOK(p), Quiet(p, q) PROVE Advances(p, q)
BY Zenon, QuietKeepsSeqOK DEF Advances, Quiet

LEMMA ProcessClaimReqAdvances ==
  ASSUME NEW s \in Side, NEW p \in Peer, NEW m \in Req, SeqOK(p)
  PROVE  Advances(p, ProcessClaimReq(s, p, m))
<1>. DEFINE d == ClaimDecision(s, p, m)
<1>1. d \in Decision => m.seq = p.committed + 1
  <2>1. p.st \in EntryState /\ p.recent.res \in Result /\ p.committed \in Nat BY Zenon DEF Peer, Recent
  <2>. QED
    BY <2>1 DEF ClaimDecision, ValidateRemoteFirstClaim, NextLeaseSeq, Decision, Result,
                Rejection, EntryState, SeqOK
<1>2. d \in Decision \cup Result BY Zenon, ClaimDecisionType
<1>. HIDE DEF d
<1>3. CASE ~p.open BY Zenon, <1>3, CloseQuiet, QuietAdvances DEF ProcessClaimReq
<1>4. CASE p.open /\ d \in Decision
  <2>. DEFINE q == [p EXCEPT !.pc = "check", !.req = m, !.dec = d,
                             !.lost = IF d = "ConflictLose" THEN p.claim.ch ELSE NoChannel]
  <2>1. ProcessClaimReq(s, p, m) = q BY Zenon, <1>4 DEF ProcessClaimReq, d
  <2>2. Advances(p, q) BY Zenon, <1>1, <1>4 DEF Advances, SeqOK, Peer
  <2>. QED BY Zenon, <2>1, <2>2
<1>5. CASE p.open /\ d \notin Decision
  <2>1. ProcessClaimReq(s, p, m) = Answer(p, m, d) BY Zenon, <1>5 DEF ProcessClaimReq, d
  <2>. QED BY Zenon, <1>2, <1>5, <2>1, AnswerQuiet, QuietAdvances
<1>. QED BY Zenon, <1>3, <1>4, <1>5

LEMMA AcceptClaimReqAdvances ==
  ASSUME NEW p \in Peer, NEW target \in {"Ok"} \cup Rejection, SeqOK(p), p.pc = "check"
  PROVE  Advances(p, AcceptClaimReq(p, target))
<1>. DEFINE m == p.req
            b == BindEntryToLease(p, m.ch, m.seq, m.kind, FALSE)
            Ok(q) == q \in Peer /\ Quiet(p, q)
<1>1. m \in Req BY Zenon DEF Peer
<1>2. b \in Peer /\ b.committed = m.seq /\ b.st \notin {"FirstClaimPending", "Claiming"}
  <2>1. m.ch \in Nat /\ m.seq \in Nat /\ m.kind \in Kind BY Zenon, <1>1 DEF Req
  <2>. HIDE DEF m
  <2>. QED BY Zenon, <2>1, BindEntryToLeaseType, BindCommits
<1>3. m.seq = p.committed + 1 BY Zenon DEF SeqOK
<1>. HIDE DEF m, b
<1>4. Advances(p, SendPendingClaimResult(Answer(b, m, "Success"), p.lost))
  <2>. DEFINE a == Answer(b, m, "Success")
  <2>1. a \in Peer BY Zenon, <1>1, <1>2, AnswerType DEF Result
  <2>2. a.committed = m.seq /\ a.st \notin {"FirstClaimPending", "Claiming"} /\ a.pc = "reply"
    BY Zenon, <1>2 DEF Answer, Peer
  <2>. HIDE DEF a
  <2>3. Advances(p, a) BY Zenon, <1>3, <2>2 DEF Advances, SeqOK
  <2>4. Quiet(a, SendPendingClaimResult(a, p.lost)) BY Zenon, <2>1, SendPendingQuiet
  <2>. QED BY Zenon, <2>3, <2>4, QuietKeepsSeqOK DEF Advances, Quiet, a
<1>5. /\ Ok(Answer(p, m, "ConflictLost")) /\ Ok(Answer(p, m, "ListenerClosed"))
      /\ target # "Ok" => Ok(Answer(p, m, target))
  BY Zenon, <1>1, AnswerType, AnswerQuiet DEF Result, Rejection
<1>6. Quiet(p, SendPendingClaimResult(Answer(p, m, "ListenerClosed"), p.lost))
  BY Zenon, <1>5, SendPendingQuiet, QuietTrans
<1>7. Quiet(p, CloseImpl(p)) BY Zenon, CloseQuiet
<1>. QED BY Zenon, <1>4, <1>5, <1>6, <1>7, QuietAdvances DEF AcceptClaimReq, m, b

LEMMA HandleClaimAckAdvances ==
  ASSUME NEW s \in Side, NEW p \in Peer, NEW m \in Ack, SeqOK(p), p.pc = "recv"
  PROVE  Advances(p, HandleClaimAck(s, p, m))
<1>. DEFINE mine == p.st = "Claiming" /\ p.claim.ch = m.ch /\ p.claim.seq = m.seq
            u == [p EXCEPT !.st = Unclaimed(s, p), !.claim = NoClaim]
            b == BindEntryToLease(p, m.ch, m.seq, p.claim.kind, TRUE)
<1>1. u \in Peer /\ Quiet(p, u)
  BY Zenon, ConstType DEF Peer, Unclaimed, EntryState, Quiet
<1>2. /\ b \in Peer /\ b.committed = m.seq /\ b.st \notin {"FirstClaimPending", "Claiming"}
      /\ b.pc = "recv"
  <2>1. m.ch \in Nat /\ m.seq \in Nat /\ p.claim.kind \in Kind BY Zenon DEF Ack, Peer, Claim
  <2>. QED BY <2>1, BindEntryToLeaseType, BindCommits
<1>3. mine => m.seq = p.committed + 1 BY Zenon DEF SeqOK
<1>. HIDE DEF mine, u, b
<1>4. Quiet(p, SendPendingClaimResult(u, m.ch)) /\ Quiet(p, SendPendingClaimResult(p, m.ch))
  BY Zenon, <1>1, SendPendingQuiet, QuietTrans
<1>5. mine => Advances(p, SendPendingClaimResult(b, m.ch))
  <2>. SUFFICES ASSUME mine PROVE Advances(p, SendPendingClaimResult(b, m.ch)) BY Zenon
  <2>1. Advances(p, b) BY Zenon, <1>2, <1>3 DEF Advances, SeqOK
  <2>2. Quiet(b, SendPendingClaimResult(b, m.ch)) BY Zenon, <1>2, SendPendingQuiet
  <2>. QED BY Zenon, <2>1, <2>2, QuietKeepsSeqOK DEF Advances, Quiet
<1>6. Quiet(p, p) /\ Quiet(p, CloseImpl(p)) BY Zenon, QuietRefl, CloseQuiet
<1>. QED BY Zenon, <1>4, <1>5, <1>6, QuietAdvances DEF HandleClaimAck, mine, u, b

\* every step is one end's, and advances it
LEMMA BecomeAdvances ==
  ASSUME TypeOK, ClaimIsNextLease, NEW s \in Side, NEW q, Become(s, q), Advances(peer[s], q)
  PROVE  \A e \in Side : Advances(peer[e], peer'[e])
BY Zenon DEF Become, TypeOK, ClaimIsNextLease, Advances, SeqOK

LEMMA SystemAdvances ==
  ASSUME TypeOK, ClaimIsNextLease, NEW s \in Side, System(s)
  PROVE  \A e \in Side : Advances(peer[e], peer'[e])
<1>. DEFINE p == peer[s]
<1>0. p \in Peer /\ SeqOK(p) /\ Other(s) \in Side BY Zenon, OtherSide DEF TypeOK, ClaimIsNextLease, SeqOK
<1>1. CASE AddWaiter(s)
  <2>1. Quiet(p, [p EXCEPT !.opening = NoReq, !.waiters = @ \cup {p.opening.ch},
                           !.out = @ \cup {p.opening}])
    BY Zenon, <1>0 DEF Peer, Quiet
  <2>. QED BY Zenon, <1>0, <1>1, <2>1, QuietAdvances, BecomeAdvances DEF AddWaiter
<1>2. CASE Send(s)
  <2>. PICK m \in p.out :
         LET q == [p EXCEPT !.out = @ \ {m}]
         IN Become(s, IF m.type # "req" /\ m.seq = q.lease.seq THEN MaybeFinalizeLease(q) ELSE q)
    BY Zenon, <1>2 DEF Send
  <2>. DEFINE q == [p EXCEPT !.out = @ \ {m}]
              r == IF m.type # "req" /\ m.seq = q.lease.seq THEN MaybeFinalizeLease(q) ELSE q
  <2>1. q \in Peer /\ Quiet(p, q) BY Zenon, <1>0 DEF Peer, Quiet
  <2>2. Become(s, r) BY Zenon
  <2>. HIDE DEF q
  <2>3. Quiet(p, r) BY Zenon, <2>1, MaybeFinalizeLeaseQuiet, QuietTrans
  <2>. HIDE DEF r
  <2>. QED BY Zenon, <1>0, <2>2, <2>3, QuietAdvances, BecomeAdvances
<1>3. CASE SendFails(s)
  <2>. DEFINE q(m) == [p EXCEPT !.out = @ \ {m}]
              f(m) == [q(m) EXCEPT !.waiters = @ \ {m.ch}, !.claim = NoClaim,
                                   !.st = Unclaimed(s, q(m))]
              g(m) == [q(m) EXCEPT !.st = "Retired", !.registered = FALSE, !.claim = NoClaim,
                                   !.stream = DropStream(q(m), "entry")]
              r(m) == CASE m.type = "req" -> f(m)
                        [] m.type # "req" /\ m.seq = q(m).lease.seq -> RetireLeaseArc(q(m))
                        [] OTHER -> g(m)
  <2>1. PICK m \in p.out : Become(s, r(m)) BY Zenon, <1>3 DEF SendFails
  <2>2. q(m) \in Peer /\ Quiet(p, q(m)) BY Zenon, <1>0 DEF Peer, Quiet
  <2>. HIDE DEF q
  <2>3. Quiet(p, f(m)) BY Zenon, <2>2 DEF Peer, Unclaimed, Quiet
  <2>4. Quiet(p, g(m)) BY Zenon, <2>2 DEF Peer, Quiet
  <2>5. Quiet(p, RetireLeaseArc(q(m))) BY Zenon, <2>2, RetireLeaseArcQuiet, QuietTrans
  <2>. HIDE DEF f, g
  <2>6. Quiet(p, r(m)) BY Zenon, <2>3, <2>4, <2>5
  <2>. HIDE DEF r
  <2>. QED BY Zenon, <1>0, <2>1, <2>6, QuietAdvances, BecomeAdvances
<1>4. CASE Receive(s)
  <2>. DEFINE m == Head(control[Other(s)])
              r == CASE m.type = "req" -> ProcessClaimReq(s, p, m)
                     [] m.type = "ack" -> HandleClaimAck(s, p, m)
                     [] m.type = "fin" -> HandleWriteFin(p, m)
                     [] m.type = "done" -> HandleReadDone(p, m)
  <2>1. m \in Cmd BY Zenon, <1>0, <1>4, TakeType DEF Receive
  <2>2. Become(s, r) /\ p.pc = "recv" BY Zenon, <1>4 DEF Receive
  <2>. HIDE DEF m
  <2>3. CASE m \in Req
    <3>1. r = ProcessClaimReq(s, p, m) BY Zenon, <2>3 DEF Req
    <3>. QED BY Zenon, <3>1, <2>2, <2>3, <1>0, ProcessClaimReqAdvances, BecomeAdvances
  <2>4. CASE m \in Ack
    <3>1. r = HandleClaimAck(s, p, m) BY Zenon, <2>4 DEF Ack
    <3>. QED BY Zenon, <3>1, <2>2, <2>4, <1>0, HandleClaimAckAdvances, BecomeAdvances
  <2>5. CASE m \in Fact /\ m.type = "fin"
    <3>1. r = HandleWriteFin(p, m) BY Zenon, <2>5
    <3>. QED BY Zenon, <3>1, <2>2, <2>5, <1>0, HandleWriteFinQuiet, QuietAdvances, BecomeAdvances
  <2>6. CASE m \in Fact /\ m.type = "done"
    <3>1. r = HandleReadDone(p, m) BY Zenon, <2>6
    <3>. QED BY Zenon, <3>1, <2>2, <2>6, <1>0, HandleReadDoneQuiet, QuietAdvances, BecomeAdvances
  <2>. QED BY Zenon, <2>1, <2>3, <2>4, <2>5, <2>6 DEF Cmd, Fact
<1>5. CASE CheckAcceptTarget(s)
  <2>1. PICK target \in {"Ok"} \cup Rejection : Become(s, AcceptClaimReq(p, target))
    BY Zenon, <1>5, ConstantsAssumption DEF CheckAcceptTarget, Rejection
  <2>2. Advances(p, AcceptClaimReq(p, target))
    BY Zenon, <1>0, <1>5, AcceptClaimReqAdvances DEF CheckAcceptTarget
  <2>. QED BY Zenon, <2>1, <2>2, BecomeAdvances
<1>6. CASE Reply(s)
  <2>1. Quiet(p, [p EXCEPT !.pc = "recv", !.ack = NoAck]) BY Zenon, <1>0 DEF Peer, Quiet
  <2>2. CloseImpl(p) \in Peer /\ Quiet(p, CloseImpl(p)) BY Zenon, <1>0, CloseImplType, CloseQuiet
  <2>3. Quiet(p, [CloseImpl(p) EXCEPT !.ack = NoAck]) BY Zenon, <2>2 DEF Peer, Quiet
  <2>. QED BY Zenon, <1>0, <1>6, <2>1, <2>3, QuietAdvances, BecomeAdvances DEF Reply
<1>7. CASE ReceiveEof(s)
  BY Zenon, <1>0, <1>7, CloseQuiet, QuietAdvances, BecomeAdvances DEF ReceiveEof
<1>. QED BY Zenon, <1>1, <1>2, <1>3, <1>4, <1>5, <1>6, <1>7 DEF System

LEMMA UserAdvances ==
  ASSUME TypeOK, ClaimIsNextLease, NEW s \in Side, Application(s)
  PROVE  \A e \in Side : Advances(peer[e], peer'[e])
<1>. DEFINE p == peer[s]
<1>0. p \in Peer /\ SeqOK(p) BY Zenon DEF TypeOK, ClaimIsNextLease, SeqOK
<1>1. CASE ClaimEntry(s)
  <2>1. PICK kind \in Kinds, nonce \in Nonces :
          LET claim == [ch |-> ChannelId(s, p.claims + 1), nonce |-> nonce, kind |-> kind,
                        seq |-> IF p.st = "FirstClaimPending" THEN 1 ELSE NextLeaseSeq(p.committed)]
          IN Become(s, [p EXCEPT !.st = "Claiming", !.claims = @ + 1, !.claim = claim,
                          !.opening = [type |-> "req", ch |-> claim.ch, seq |-> claim.seq,
                                       nonce |-> nonce, kind |-> kind]])
    BY Zenon, <1>1 DEF ClaimEntry
  <2>. DEFINE claim == [ch |-> ChannelId(s, p.claims + 1), nonce |-> nonce, kind |-> kind,
                        seq |-> IF p.st = "FirstClaimPending" THEN 1 ELSE NextLeaseSeq(p.committed)]
              req == [type |-> "req", ch |-> claim.ch, seq |-> claim.seq,
                      nonce |-> nonce, kind |-> kind]
              q == [p EXCEPT !.st = "Claiming", !.claims = @ + 1, !.claim = claim, !.opening = req]
  <2>2. claim.seq = p.committed + 1 BY <1>0 DEF NextLeaseSeq, SeqOK
  <2>3. Become(s, q) BY Zenon, <2>1
  <2>. HIDE DEF claim, req
  <2>4. q.st = "Claiming" /\ q.claim = claim /\ q.committed = p.committed
        /\ q.pc = p.pc /\ q.req = p.req
    BY Zenon, <1>0 DEF Peer
  <2>. HIDE DEF q
  <2>5. Advances(p, q) BY Zenon, <1>0, <2>2, <2>4 DEF Advances, SeqOK
  <2>. QED BY Zenon, <2>3, <2>5, BecomeAdvances
<1>2. CASE Write(s)
  <2>1. Quiet(p, [p EXCEPT !.lease.tx = @ + 1]) BY Zenon, <1>0 DEF Peer, Quiet
  <2>. QED BY Zenon, <1>0, <1>2, <2>1, RetireLeaseArcQuiet, QuietAdvances, BecomeAdvances DEF Write
<1>3. CASE Read(s) BY Zenon, <1>0, <1>3, AfterReadQuiet, QuietAdvances, BecomeAdvances DEF Read
<1>4. CASE ReadFails(s)
  BY Zenon, <1>0, <1>4, RetireLeaseArcQuiet, QuietAdvances, BecomeAdvances DEF ReadFails
<1>5. CASE DropRead(s)
  <2>1. Quiet(p, FreeOrphan(ReleaseReadHalf(p)))
    BY Zenon, <1>0, ReleaseReadHalfType, ReleaseReadHalfQuiet, FreeOrphanQuiet, QuietTrans
  <2>. QED BY Zenon, <1>0, <1>5, <2>1, QuietAdvances, BecomeAdvances DEF DropRead
<1>6. CASE DropWrite(s)
  <2>1. Quiet(p, FreeOrphan(ReleaseWriteHalf(p)))
    BY Zenon, <1>0, ReleaseWriteHalfType, ReleaseWriteHalfQuiet, FreeOrphanQuiet, QuietTrans
  <2>. QED BY <1>0, <1>6, <2>1, QuietAdvances, BecomeAdvances DEF DropWrite
<1>7. CASE Close(s) BY Zenon, <1>0, <1>7, CloseQuiet, QuietAdvances, BecomeAdvances DEF Close
<1>8. CASE DropTunnel(s)
  <2>1. Quiet(p, [p EXCEPT !.writeOpen = FALSE]) BY Zenon, <1>0 DEF Peer, Quiet
  <2>. QED BY Zenon, <1>0, <1>8, <2>1, QuietAdvances, BecomeAdvances DEF DropTunnel
<1>. QED BY Zenon, <1>1, <1>2, <1>3, <1>4, <1>5, <1>6, <1>7, <1>8 DEF Application

LEMMA TimerAdvances ==
  ASSUME TypeOK, ClaimIsNextLease, NEW s \in Side, Timer(s)
  PROVE  \A e \in Side : Advances(peer[e], peer'[e])
<1>. DEFINE p == peer[s]
<1>0. p \in Peer /\ SeqOK(p) BY Zenon DEF TypeOK, ClaimIsNextLease, SeqOK
<1>1. CASE ClaimTimeout(s)
  <2>1. PICK ch : Become(s, RetirePlainEntry([p EXCEPT !.waiters = @ \ {ch}]))
    BY Zenon, <1>1 DEF ClaimTimeout
  <2>. DEFINE q == [p EXCEPT !.waiters = @ \ {ch}]
  <2>2. q \in Peer /\ Quiet(p, q) BY Zenon, <1>0 DEF Peer, Quiet
  <2>. HIDE DEF q
  <2>3. Quiet(p, RetirePlainEntry(q)) BY Zenon, <2>2, RetirePlainEntryQuiet, QuietTrans
  <2>. QED BY Zenon, <1>0, <2>1, <2>3, QuietAdvances, BecomeAdvances DEF q
<1>2. CASE FirstClaimTimeout(s)
  <2>. DEFINE q == [p EXCEPT !.firstTimer = FALSE]
              r == IF q.st = "FirstClaimPending" THEN RetirePlainEntry(q) ELSE q
  <2>1. q \in Peer /\ Quiet(p, q) BY Zenon, <1>0 DEF Peer, Quiet
  <2>2. Become(s, r) BY Zenon, <1>2 DEF FirstClaimTimeout
  <2>. HIDE DEF q
  <2>3. Quiet(p, r) BY Zenon, <2>1, RetirePlainEntryQuiet, QuietTrans
  <2>. QED BY Zenon, <1>0, <2>2, <2>3, QuietAdvances, BecomeAdvances
<1>3. CASE DrainTimeout(s)
  BY Zenon, <1>0, <1>3, RetireLeaseArcQuiet, RetirePlainEntryQuiet, QuietAdvances, BecomeAdvances
  DEF DrainTimeout
<1>. QED BY Zenon, <1>1, <1>2, <1>3 DEF Timer

LEMMA NextAdvances ==
  ASSUME TypeOK, ClaimIsNextLease, [Next]_vars
  PROVE  \A e \in Side : Advances(peer[e], peer'[e])
<1>1. CASE Next BY Zenon, <1>1, SystemAdvances, UserAdvances, TimerAdvances DEF Next
<1>2. CASE UNCHANGED vars BY Zenon, <1>2 DEF vars, Advances, SeqOK, ClaimIsNextLease
<1>. QED BY Zenon, <1>1, <1>2

\* A claim in progress at either end, its own or the peer's, is always for the
\* lease after the committed one, whatever runs between the decision of
\* process_claim_req and its bind
THEOREM ClaimsAreForTheNextLease == Spec => []ClaimIsNextLease
<1>1. Init => ClaimIsNextLease BY DEF Init, InitPeer, ClaimIsNextLease
<1>2. TypeOK /\ ClaimIsNextLease /\ [Next]_vars => ClaimIsNextLease'
  BY Zenon, NextAdvances DEF Advances, SeqOK, ClaimIsNextLease
<1>. QED BY <1>1, <1>2, TypeCorrect, PTL DEF Spec

\* committed_lease_seq of an end never skips a lease, repeats one or goes
\* back, for all bounds and with every fault and preemption switched on
THEOREM LeaseSeqsAdvance == Spec => LeaseSeqAdvances
<1>1. TypeOK /\ ClaimIsNextLease /\ [Next]_vars =>
        [\A s \in Side :
           peer'[s].committed \in {peer[s].committed, peer[s].committed + 1}]_vars
  BY Zenon, NextAdvances DEF Advances
<1>. QED BY <1>1, TypeCorrect, ClaimsAreForTheNextLease, PTL DEF Spec, LeaseSeqAdvances
=============================================================================
