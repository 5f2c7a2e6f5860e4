--------------------------- MODULE TunnelActivity ---------------------------
(***************************************************************************)
(* TunnelActivity of p2p-frame/src/networks/tunnel.rs: the counter that a  *)
(* TCP or QUIC tunnel keeps under one lock.  An open under way holds a     *)
(* PendingTunnelActivity, every half of an established channel holds a     *)
(* TunnelWorkActivity, and the tunnel manager may retire the tunnel when   *)
(* there is neither.                                                       *)
(*                                                                         *)
(* Each operator is one region under the lock, applied to the value of the *)
(* state.  The clock is left out: that the idle timeout has passed since   *)
(* latest_active_at is a choice of the caller of TryRetireIdle.  life      *)
(* tells the two ways into TunnelActivityLifecycle::Retired apart, which   *)
(* the code does not.                                                      *)
(***************************************************************************)
EXTENDS Naturals

Lives == {"Live", "Idle", "Forced"}

Activity == [life : Lives, pending : Nat, work : Nat]

NewActivity == [life |-> "Live", pending |-> 0, work |-> 0]

Live(a) == a.life = "Live"

Less(n) == IF n > 0 THEN n - 1 ELSE n

BeginPending(a) == [a EXCEPT !.pending = @ + 1]

AcquireWork(a, n) == [a EXCEPT !.work = @ + n]

\* The pending open becomes n halves of a channel, unless the tunnel was
\* retired meanwhile.
Promote(a, n) ==
  [a EXCEPT !.pending = Less(@),
            !.work = IF Live(a) THEN @ + n ELSE @]

DropPending(a) == [a EXCEPT !.pending = Less(@)]

DropWork(a) == [a EXCEPT !.work = Less(@)]

MayRetireIdle(a) == Live(a) /\ a.pending = 0 /\ a.work = 0

RetiredIdle(a) == [a EXCEPT !.life = "Idle"]

Retired(a) == [a EXCEPT !.life = IF Live(a) THEN "Forced" ELSE @]
=============================================================================
