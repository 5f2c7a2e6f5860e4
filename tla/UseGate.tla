------------------------------- MODULE UseGate -------------------------------
(***************************************************************************)
(* What the activity counter of a tunnel promises to the tunnel's users:   *)
(* somebody may start to use the tunnel only while it is live, and it is   *)
(* retired for idleness only at a moment when nobody uses it.  How the     *)
(* users are counted is the business of ActivityUse, which implements this *)
(* specification.                                                          *)
(***************************************************************************)
CONSTANT User

VARIABLES life,  \* "Live", or how the tunnel was retired: "Idle" or "Forced"
          users  \* who uses the tunnel now

gate == <<life, users>>

Init == life = "Live" /\ users = {}

Enter(u) ==
  /\ life = "Live"
  /\ u \notin users
  /\ users' = users \cup {u}
  /\ UNCHANGED life

Leave(u) ==
  /\ u \in users
  /\ users' = users \ {u}
  /\ UNCHANGED life

RetireIdle ==
  /\ life = "Live"
  /\ users = {}
  /\ life' = "Idle"
  /\ UNCHANGED users

Retire ==
  /\ life = "Live"
  /\ life' = "Forced"
  /\ UNCHANGED users

Next ==
  \/ \E u \in User : Enter(u) \/ Leave(u)
  \/ RetireIdle
  \/ Retire

Spec == Init /\ [][Next]_gate

\* Retirement for idleness cuts nobody off, then or later: a tunnel that was
\* retired because nobody used it has no user (try_retire_idle).
IdleIsUnused == life = "Idle" => users = {}
=============================================================================
