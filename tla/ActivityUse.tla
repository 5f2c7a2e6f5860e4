----------------------------- MODULE ActivityUse -----------------------------
(***************************************************************************)
(* The ways in which a tunnel uses its TunnelActivity                      *)
(* (p2p-frame/src/networks/tunnel.rs): the guards of one open or one       *)
(* accepted channel, which it takes and drops, and the counters they move. *)
(* QuicTunnel is checked to use the counter in these ways only, and        *)
(* ActivityUse is proved to implement UseGate.                             *)
(***************************************************************************)
EXTENDS TunnelActivity, FiniteSets

CONSTANT User  \* the opens and accepted channels of the tunnel

Half == {"r", "w"}

VARIABLES activity,  \* the counter
          pend,      \* who holds a PendingTunnelActivity
          held       \* who holds a TunnelWorkActivity, for which half

useVars == <<activity, pend, held>>

Halves(u) == {h \in Half : <<u, h>> \in held}

UseInit ==
  /\ activity = NewActivity
  /\ pend = {}
  /\ held = {}

Begin(u) ==
  /\ Live(activity)
  /\ u \notin pend
  /\ Halves(u) = {}
  /\ activity' = BeginPending(activity)
  /\ pend' = pend \cup {u}
  /\ UNCHANGED held

Establish(u, H) ==
  /\ u \in pend
  /\ activity' = Promote(activity, Cardinality(H))
  /\ pend' = pend \ {u}
  /\ held' = IF Live(activity) THEN held \cup ({u} \X H) ELSE held

GiveUp(u) ==
  /\ u \in pend
  /\ activity' = DropPending(activity)
  /\ pend' = pend \ {u}
  /\ UNCHANGED held

Track(u) ==
  /\ Live(activity)
  /\ u \notin pend
  /\ Halves(u) = {}
  /\ activity' = AcquireWork(activity, 2)
  /\ held' = held \cup ({u} \X Half)
  /\ UNCHANGED pend

Release(u, h) ==
  /\ <<u, h>> \in held
  /\ activity' = DropWork(activity)
  /\ held' = held \ {<<u, h>>}
  /\ UNCHANGED pend

RetireIdle ==
  /\ MayRetireIdle(activity)
  /\ activity' = RetiredIdle(activity)
  /\ UNCHANGED <<pend, held>>

Retire ==
  /\ activity' = Retired(activity)
  /\ UNCHANGED <<pend, held>>

UseNext ==
  \/ \E u \in User : Begin(u) \/ GiveUp(u) \/ Track(u)
  \/ \E u \in User, H \in {{"r"}, {"w"}, Half} : Establish(u, H)
  \/ \E u \in User, h \in Half : Release(u, h)
  \/ RetireIdle
  \/ Retire

UseSpec == UseInit /\ [][UseNext]_useVars

\* The users that the gate knows of.
Users == pend \cup {u \in User : Halves(u) # {}}

Gate == INSTANCE UseGate WITH life <- activity.life, users <- Users

\* Everybody who holds a guard keeps the tunnel from being retired for
\* idleness, and nobody gets a guard of a retired tunnel (TunnelActivity).
ImplementsGate == Gate!Spec
=============================================================================
