------------------------------- MODULE NatCall -------------------------------
(***************************************************************************)
(* A NAT-aware open between two peers (nat_connect_plan.rs, nat_type.rs,   *)
(* tunnel_manager.rs).  The caller looks the callee up, turns the two NAT  *)
(* profiles into a plan that says who dials, and tries a rendezvous; when  *)
(* that fails it calls the callee through the SN.  The callee is told what *)
(* to do by a rendezvous notify, but works a call's plan out for itself,   *)
(* later, by its own clock and from what it knows of its own address.      *)
(*                                                                         *)
(* The rendezvous is taken by its ends only (module Rendezvous has the     *)
(* rest), and so is the proxy (PnTunnel).  A tunnel of the call is         *)
(* "active" when the caller dialled it, "reverse" when the callee did.     *)
(***************************************************************************)
EXTENDS Naturals

CONSTANT MaxTime  \* the clocks run from 0 to MaxTime

ASSUME MaxTimeAssumption == MaxTime \in Nat

End == {"caller", "callee"}
Path == {"rendezvous", "call"}

VARIABLES
  profile,    \* NatTraversalContext: the NatProfile of each end
  public,     \* static WAN evidence: of each end's own certificate, and as the lookup has it
  clock,      \* each end's bucky_time_now
  step,       \* where the caller is
  plan,       \* the caller's ConnectPlan
  call,       \* the SnCall of open_nat_aware_tunnel_legacy
  handler,    \* where the callee's on_sn_called is
  does,       \* path -> end -> what it does on it
  expecting,  \* the ends with the call's entry in pending_reverse_waiters
  notified,   \* the ends whose waiter has been given the tunnel
  coming,   \* tunnels dialled and not yet seen by the other end's on_incoming_tunnel
  chosen,     \* the callee's PlanAction for the call
  table       \* end -> the call's tunnels in its table

natVars == <<profile, public, clock, step, plan, call, handler, does, expecting, notified,
             coming, chosen, table>>
context == <<profile, public, clock>>

-----------------------------------------------------------------------------
(* Profiles *)

\* NatProfile of the current version; hint: its prediction_hint is usable
Profile == [seen : {"unknown", "plain", "symmetric"}, hint : BOOLEAN,
            from : 0..MaxTime, until : 0..MaxTime]
unknown == [seen |-> "unknown", hint |-> FALSE, from |-> 0, until |-> 0]

\* what from_observations returns; only a symmetric mapping comes with a hint
from_observations ==
  {unknown} \cup {p \in Profile : /\ p.seen # "unknown" /\ p.from <= p.until
                                  /\ p.hint => p.seen = "symmetric"}

is_fresh(p, now) == p.seen # "unknown" /\ p.from <= now /\ now <= p.until
mapping_at(p, now) == IF is_fresh(p, now) THEN p.seen ELSE "unknown"
usable_prediction_hint(p, now) == mapping_at(p, now) = "symmetric" /\ p.hint

is_valid_for(now) == \A e \in End : is_fresh(profile[e], now)

-----------------------------------------------------------------------------
(* The plan *)

\* who dials and to which endpoints, and where the other end punches
Mode == {"base", "predicted"}
ConnectPlan == [connector : End \cup {"none"}, dials : Mode, punches : Mode \cup {"none"}]

legacy == [connector |-> "none", dials |-> "base", punches |-> "none"]
public_plan(e) == [connector |-> e, dials |-> "base", punches |-> "none"]
matrix_plan(e, m, n) == [connector |-> e, dials |-> m, punches |-> n]
prediction_or_base(usable) == IF usable THEN "predicted" ELSE "base"

select_connect_plan(now, caller_public, callee_public) ==
  LET maps == [e \in End |-> mapping_at(profile[e], now)]
      predictable == [e \in End |-> \/ maps[e] # "symmetric"
                                    \/ usable_prediction_hint(profile[e], now)]
      at(e) == IF maps[e] = "symmetric" THEN prediction_or_base(predictable[e]) ELSE "base"
  IN CASE callee_public -> public_plan("caller")
       [] ~callee_public /\ caller_public -> public_plan("callee")
       [] ~callee_public /\ ~caller_public /\ "unknown" \in {maps[e] : e \in End} -> legacy
       [] OTHER -> IF maps["caller"] = "plain" /\ maps["callee"] = "symmetric"
                     THEN matrix_plan("callee", "base", at("callee"))
                     ELSE matrix_plan("caller", at("callee"), at("caller"))

\* PlanAction of one end
action_for(p, e) ==
  CASE p.connector = "none" -> [do |-> "legacy", mode |-> "base"]
    [] p.connector = e -> [do |-> "connect", mode |-> p.dials]
    [] p.connector \notin {e, "none"} /\ p.punches = "none" -> [do |-> "wait", mode |-> "base"]
    [] OTHER -> [do |-> "punch", mode |-> p.punches]

\* The operation a rendezvous asks of the callee, and the caller's own part
rendezvous_plan(p) ==
  IF p.connector = "caller"
    THEN [operation |-> IF p.punches = "none" THEN "WaitIncoming" ELSE "PunchOnly",
          caller |-> "connect"]
    ELSE [operation |-> IF p.punches = "none" THEN "ReverseConnectOnly"
                        ELSE "PunchAndReverseConnect",
          caller |-> IF p.punches = "none" THEN "wait" ELSE "punch"]

\* What on_sn_rendezvous makes of the operation
Operated(operation) ==
  CASE operation = "PunchOnly" -> "punch"
    [] operation = "WaitIncoming" -> "wait"
    [] OTHER -> "connect"

\* execute_nat_action: nat_candidates has no predicted endpoints outside a
\* rendezvous, so an action that asks for them fails at once
Executed(action) == IF action.mode = "predicted" THEN "fails" ELSE action.do

Does == {"none", "connect", "punch", "wait", "dial", "fails", "over"}
Passive(do) == do \in {"punch", "wait"}

NatTypeOK ==
  /\ profile \in [End -> Profile]
  /\ public \in [caller : BOOLEAN, callee : BOOLEAN, looked : BOOLEAN]
  /\ clock \in [End -> 0..MaxTime]
  /\ step \in {"lookup", "rendezvous", "fallback", "call", "proxy", "end"}
  /\ plan \in ConnectPlan
  /\ call \in {"none", "ready", "sent", "over"}
  /\ handler \in {"none", "locking", "acting", "end"}
  /\ does \in [Path -> [End -> Does]]
  /\ expecting \subseteq End /\ notified \subseteq End
  /\ chosen \in [do : Does, mode : Mode]
  /\ coming \subseteq {"active", "reverse"}
  /\ table \in [End -> SUBSET {"active", "reverse"}]

\* The lookup adds the endpoints the SN knows to the callee's certificate, so it
\* may find static WAN evidence that the callee's own certificate has not
NatInit ==
  /\ profile \in [End -> from_observations]
  /\ public \in [caller : BOOLEAN, callee : BOOLEAN, looked : BOOLEAN]
  /\ public.callee => public.looked
  /\ clock \in [End -> 0..MaxTime]
  /\ step = "lookup" /\ plan = legacy /\ call = "none" /\ handler = "none"
  /\ does = [a \in Path |-> [e \in End |-> "none"]]
  /\ expecting = {} /\ notified = {} /\ coming = {}
  /\ chosen = [do |-> "none", mode |-> "base"]
  /\ table = [e \in End |-> {}]

-----------------------------------------------------------------------------
(* The caller *)

\* open_tunnel_from_lookup: the legacy plan is left to open_known_tunnel
LookedUp ==
  /\ step = "lookup"
  /\ LET now == clock["caller"]
         selected == select_connect_plan(now, public.caller, public.looked)
     IN IF ~is_valid_for(now) \/ action_for(selected, "caller").do = "legacy"
          THEN step' = "end" /\ UNCHANGED <<plan, does>>
          ELSE /\ step' = "rendezvous"
               /\ plan' = selected
               /\ does' = [does EXCEPT !["rendezvous"]["caller"] = rendezvous_plan(selected).caller]
  /\ UNCHANGED <<context, call, handler, expecting, notified, coming, chosen, table>>

RendezvousEnds ==
  /\ step = "rendezvous"
  /\ step' \in {"end", "fallback"}
  /\ does' = [does EXCEPT !["rendezvous"]["caller"] = "over"]
  /\ UNCHANGED <<context, plan, call, handler, expecting, notified, coming, chosen, table>>

\* open_nat_aware_tunnel_legacy, once it has the lock of the remote: the waiter
\* is registered before the call is sent.  There may be a tunnel already.
BeginCall ==
  /\ step = "fallback"
  /\ \/ step' = "end" /\ UNCHANGED <<call, does, expecting>>
     \/ LET action == action_for(plan, "caller")
        IN /\ step' = "call"
           /\ call' = "ready"
           /\ does' = [does EXCEPT !["call"]["caller"] = Executed(action)]
           /\ expecting' = IF Passive(action.do) THEN expecting \cup {"caller"} ELSE expecting
  /\ UNCHANGED <<context, plan, handler, notified, coming, chosen, table>>

\* call_inner asks the one SN of the lookup; nobody looks at its answer.  The
\* call is dropped with the open when the action ends first.
SendCall ==
  /\ step = "call" /\ call = "ready"
  /\ call' \in {"sent", "over"}
  /\ UNCHANGED <<context, step, plan, handler, does, expecting, notified, coming, chosen, table>>

CallLost ==
  /\ call = "sent"
  /\ call' = "over"
  /\ UNCHANGED <<context, step, plan, handler, does, expecting, notified, coming, chosen, table>>

\* The dial succeeds; open_direct_path registers the tunnel
CallerDials ==
  /\ step = "call" /\ does["call"]["caller"] = "connect"
  /\ coming' = coming \cup {"active"}
  /\ table' = [table EXCEPT !["caller"] = @ \cup {"active"}]
  /\ does' = [does EXCEPT !["call"]["caller"] = "over"]
  /\ step' = "end"
  /\ UNCHANGED <<context, plan, call, handler, expecting, notified, chosen>>

\* The waiter was notified; finish_planned_incoming registers the tunnel
CallerReceives ==
  /\ step = "call" /\ Passive(does["call"]["caller"]) /\ "caller" \in notified
  /\ table' = [table EXCEPT !["caller"] = @ \cup {"reverse"}]
  /\ does' = [does EXCEPT !["call"]["caller"] = "over"]
  /\ step' = "end"
  /\ UNCHANGED <<context, plan, call, handler, expecting, notified, coming, chosen>>

\* The action fails or times out; the waiter stays in the table meanwhile
CallerFails ==
  /\ step = "call"
  /\ does' = [does EXCEPT !["call"]["caller"] = "over"]
  /\ step' = "proxy"
  /\ UNCHANGED <<context, plan, call, handler, expecting, notified, coming, chosen, table>>

\* The proxy has been opened or not, or the open's total deadline is over:
\* IncomingPlanWaitRegistration is dropped
OpenEnds ==
  /\ step \in {"call", "proxy"}
  /\ expecting' = expecting \ {"caller"}
  /\ does' = [does EXCEPT !["call"]["caller"] = "over"]
  /\ step' = "end"
  /\ UNCHANGED <<context, plan, call, handler, notified, coming, chosen, table>>

-----------------------------------------------------------------------------
(* The callee *)

\* on_sn_rendezvous acts by the operation of the notify, however late
Notified ==
  /\ plan # legacy /\ does["rendezvous"]["callee"] = "none"
  /\ does' = [does EXCEPT !["rendezvous"]["callee"] = Operated(rendezvous_plan(plan).operation)]
  /\ UNCHANGED <<context, step, plan, call, handler, expecting, notified, coming, chosen, table>>

NotifiedEnds ==
  /\ does["rendezvous"]["callee"] \notin {"none", "over"}
  /\ does' = [does EXCEPT !["rendezvous"]["callee"] = "over"]
  /\ UNCHANGED <<context, step, plan, call, handler, expecting, notified, coming, chosen, table>>

\* Mutant: the two certificates change places
CalleeActionSwapped(listed) ==
  LET now == clock["callee"]
      action == action_for(select_connect_plan(now, public.callee, public.caller), "callee")
  IN IF listed /\ is_valid_for(now) /\ action.do # "legacy" THEN action
     ELSE [do |-> "dial", mode |-> "base"]

\* nat_action of on_sn_called; listed: the SN is in the callee's active_sn_list.
\* Without a plan it dials back
CalleeAction(listed) ==
  LET now == clock["callee"]
      action == action_for(select_connect_plan(now, public.caller, public.callee), "callee")
  IN IF listed /\ is_valid_for(now) /\ action.do # "legacy" THEN action
     ELSE [do |-> "dial", mode |-> "base"]

\* on_sn_called up to the lock of the remote
OnSnCalled ==
  /\ call = "sent" /\ handler = "none"
  /\ IF table["callee"] # {} THEN handler' = "end" /\ UNCHANGED chosen
     ELSE /\ handler' = "locking"
          /\ \E listed \in BOOLEAN : chosen' = CalleeAction(listed)
  /\ call' = "over"
  /\ UNCHANGED <<context, step, plan, does, expecting, notified, coming, table>>

\* ... with the lock: the tunnel may have come meanwhile
CalleeLocks ==
  /\ handler = "locking"
  /\ IF table["callee"] # {} THEN handler' = "end" /\ UNCHANGED <<does, expecting>>
     ELSE /\ handler' = "acting"
          /\ does' = [does EXCEPT !["call"]["callee"] = Executed(chosen)]
          /\ expecting' = IF Passive(chosen.do) THEN expecting \cup {"callee"} ELSE expecting
  /\ UNCHANGED <<context, step, plan, call, notified, coming, chosen, table>>

CalleeDials ==
  /\ handler = "acting" /\ does["call"]["callee"] \in {"connect", "dial"}
  /\ coming' = coming \cup {"reverse"}
  /\ table' = [table EXCEPT !["callee"] = @ \cup {"reverse"}]
  /\ does' = [does EXCEPT !["call"]["callee"] = "over"]
  /\ handler' = "end"
  /\ UNCHANGED <<context, step, plan, call, expecting, notified, chosen>>

CalleeReceives ==
  /\ handler = "acting" /\ Passive(does["call"]["callee"]) /\ "callee" \in notified
  /\ table' = [table EXCEPT !["callee"] = @ \cup {"active"}]
  /\ does' = [does EXCEPT !["call"]["callee"] = "over"]
  /\ handler' = "end"
  /\ UNCHANGED <<context, step, plan, call, expecting, notified, coming, chosen>>

CalleeFails ==
  /\ handler = "acting"
  /\ does' = [does EXCEPT !["call"]["callee"] = "over"]
  /\ expecting' = expecting \ {"callee"}
  /\ handler' = "end"
  /\ UNCHANGED <<context, step, plan, call, notified, coming, chosen, table>>

-----------------------------------------------------------------------------
(* on_incoming_tunnel at either end: to the waiter of its direction, else a   *)
(* reverse tunnel is closed and an active one registered                       *)

ReverseArrives ==
  /\ "reverse" \in coming
  /\ coming' = coming \ {"reverse"}
  /\ notified' = IF "caller" \in expecting THEN notified \cup {"caller"} ELSE notified
  /\ expecting' = expecting \ {"caller"}
  /\ UNCHANGED <<context, step, plan, call, handler, does, chosen, table>>

ActiveArrives ==
  /\ "active" \in coming
  /\ coming' = coming \ {"active"}
  /\ IF "callee" \in expecting
       THEN /\ notified' = notified \cup {"callee"}
            /\ expecting' = expecting \ {"callee"}
            /\ UNCHANGED table
       ELSE /\ table' = [table EXCEPT !["callee"] = @ \cup {"active"}]
            /\ UNCHANGED <<notified, expecting>>
  /\ UNCHANGED <<context, step, plan, call, handler, does, chosen>>

\* the clocks of the two ends
Tick(e) ==
  /\ clock[e] < MaxTime
  /\ clock' = [clock EXCEPT ![e] = @ + 1]
  /\ UNCHANGED <<profile, public, step, plan, call, handler, does, expecting, notified, coming,
                 chosen, table>>

NatNext ==
  \/ LookedUp \/ RendezvousEnds \/ BeginCall \/ SendCall \/ CallLost
  \/ CallerDials \/ CallerReceives \/ CallerFails \/ OpenEnds
  \/ Notified \/ NotifiedEnds \/ OnSnCalled \/ CalleeLocks
  \/ CalleeDials \/ CalleeReceives \/ CalleeFails
  \/ ReverseArrives \/ ActiveArrives
  \/ \E e \in End : Tick(e)

NatSpec == NatInit /\ [][NatNext]_natVars

-----------------------------------------------------------------------------
(* Properties *)

\* The two ends of a path never both wait for the other to dial, whatever
\* their clocks say and whichever of them has let a profile expire meanwhile
\* (select_connect_plan, open_nat_aware_tunnel_legacy, on_sn_called, on_sn_rendezvous)
NotBothWait ==
  \A a \in Path : \E e \in End : ~Passive(does[a][e])

\* Two ends that both follow the plan follow the same one: one dials and the
\* other waits for it. It does not hold: the lookup counts endpoints the SN
\* reported as static WAN evidence of the callee, the callee's own certificate
\* has none, and both dial.
PlansAgree ==
  \A a \in Path : ~\A e \in End : does[a][e] = "connect"
=============================================================================
