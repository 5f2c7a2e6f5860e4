-------------------------- MODULE TunnelSetupProofs --------------------------
(***************************************************************************)
(* Theorems about how two peers come by a tunnel: the TCP tunnel registry, *)
(* the NAT-aware open, and the rendezvous.                                 *)
(***************************************************************************)
EXTENDS Rendezvous, TcpListener, NatCall, TLAPS

-----------------------------------------------------------------------------
(***************************************************************************)
(* The two ends of a NAT-aware open never both wait, for any profiles, any *)
(* clocks and any length of time.  The argument: while the profiles are    *)
(* valid, who dials depends on the clock no more (Dialler); the caller     *)
(* waits only if its evidence says that the callee dials, and the callee   *)
(* waits only if its own says that the caller does.  The callee's evidence *)
(* about itself is part of the caller's.                                   *)
(***************************************************************************)


\* Who dials while both profiles are fresh
Dialler(p, caller_public, callee_public) ==
  IF callee_public THEN "caller"
  ELSE IF caller_public THEN "callee"
  ELSE IF p["caller"].seen = "plain" /\ p["callee"].seen = "symmetric"
    THEN "callee" ELSE "caller"

\* The names of what an end may do
Named == Does \cup {"legacy"}

\* The inductive invariant: an end that waits has it from a plan of the other's dial
WaitsByPlan ==
  /\ does \in [Path -> [End -> Named]] /\ chosen.do \in Named
  /\ public.callee => public.looked
  /\ public.caller \in BOOLEAN /\ public.callee \in BOOLEAN /\ public.looked \in BOOLEAN
  /\ step = "lookup" => \A q \in Path, e \in End : does[q][e] = "none"
  /\ step = "lookup" => plan = legacy /\ call = "none" /\ handler = "none"
  /\ plan # legacy => plan.connector = Dialler(profile, public.caller, public.looked)
  /\ \A q \in Path : Passive(does[q]["caller"]) => plan.connector = "callee"
  /\ Passive(does["rendezvous"]["callee"]) => plan.connector = "caller"
  /\ Passive(chosen.do) => Dialler(profile, public.caller, public.callee) = "caller"
  /\ Passive(does["call"]["callee"]) => Dialler(profile, public.caller, public.callee) = "caller"

-----------------------------------------------------------------------------

\* A natural number is not below zero.
LEMMA NatsAreNotNegative == \A k \in Nat : ~(0 > k)
BY Zenon, SMT

\* While the context is valid, select_connect_plan names the same dialler at any time
LEMMA SelectedDialler ==
  ASSUME NEW now, NEW a \in BOOLEAN, NEW b \in BOOLEAN, is_valid_for(now)
  PROVE  select_connect_plan(now, a, b).connector = Dialler(profile, a, b)
<1>1. \A e \in End : mapping_at(profile[e], now) = profile[e].seen /\ profile[e].seen # "unknown"
  BY Zenon DEF is_valid_for, mapping_at, is_fresh
<1>2. "unknown" \notin {mapping_at(profile[e], now) : e \in End}
  BY Zenon, <1>1
<1>3. mapping_at(profile["caller"], now) = profile["caller"].seen
      /\ mapping_at(profile["callee"], now) = profile["callee"].seen
  BY Zenon, <1>1 DEF End
<1>4. CASE b
  BY Zenon, <1>4 DEF select_connect_plan, public_plan, Dialler
<1>5. CASE ~b /\ a
  BY Zenon, <1>5 DEF select_connect_plan, public_plan, Dialler
<1>6. CASE ~b /\ ~a
  BY Zenon, <1>6, <1>2, <1>3 DEF select_connect_plan, matrix_plan, Dialler, End
<1> QED  BY Zenon, <1>4, <1>5, <1>6

\* An end waits by action_for exactly when the other one dials
LEMMA ActionWaits ==
  ASSUME NEW p, NEW e \in End
  PROVE  Passive(action_for(p, e).do) <=> p.connector \notin {e, "none"}
BY Zenon DEF action_for, Passive, End

\* The invariant gives the property
LEMMA WaitsByPlanSuffices == WaitsByPlan => NotBothWait
<1> SUFFICES ASSUME WaitsByPlan, NEW q \in Path
             PROVE  \E e \in End : ~Passive(does[q][e])
  BY Zenon DEF NotBothWait
<1>1. CASE q = "rendezvous"
  BY Zenon, <1>1 DEF WaitsByPlan, End
<1>2. CASE q = "call"
  BY <1>2 DEF WaitsByPlan, Dialler, End, legacy
<1> QED  BY Zenon, <1>1, <1>2 DEF Path

\* What the callee chooses for a call is to wait only if its own evidence says
\* that the caller dials
LEMMA CalleeChoice ==
  ASSUME NEW known \in BOOLEAN, WaitsByPlan, Passive(CalleeAction(known).do)
  PROVE  Dialler(profile, public.caller, public.callee) = "caller"
<1> DEFINE now == clock["callee"]
           selected == select_connect_plan(now, public.caller, public.callee)
<1>1. is_valid_for(now) /\ Passive(action_for(selected, "callee").do)
  BY Zenon DEF CalleeAction, Passive
<1>2. selected.connector = Dialler(profile, public.caller, public.callee)
  BY <1>1, SelectedDialler DEF WaitsByPlan
<1>3. selected.connector \notin {"callee", "none"}
  BY Zenon, <1>1, ActionWaits DEF End
<1> QED  BY Zenon, <1>2, <1>3 DEF Dialler

\* The plan names an end or none
LEMMA PlanNames == WaitsByPlan => plan.connector \in {"caller", "callee", "none"}
BY DEF WaitsByPlan, Dialler, legacy

\* What the ends do has a name
LEMMA ActionsNamed ==
  /\ \A p : rendezvous_plan(p).caller \in Named
  /\ \A p, e : action_for(p, e).do \in Named
  /\ \A o : Operated(o) \in Named
  /\ \A known : CalleeAction(known).do \in Named
<1>1. \A p : rendezvous_plan(p).caller \in Named
  BY Zenon DEF rendezvous_plan, Named, Does
<1>2. \A p, e : action_for(p, e).do \in Named
  BY Zenon DEF action_for, Named, Does
<1>3. \A o : Operated(o) \in Named
  BY Zenon DEF Operated, Named, Does
<1>4. \A known : CalleeAction(known).do \in Named
  BY Zenon, <1>2 DEF CalleeAction, Named, Does
<1> QED  BY Zenon, <1>1, <1>2, <1>3, <1>4

\* An action that execute_nat_action waits by is one that asks to
LEMMA ExecutedWaits ==
  ASSUME NEW action, action.do \in Named
  PROVE  /\ Executed(action) \in Named
         /\ Passive(Executed(action)) => Passive(action.do)
BY Zenon DEF Executed, Passive, Named, Does

-----------------------------------------------------------------------------

\* Before the lookup nobody waits
LEMMA WaitsByPlanInit == NatInit => WaitsByPlan
BY DEF NatInit, WaitsByPlan, Path, End, Passive, Named, Does

\* A step that leaves the plans alone and gives no end anything to wait for
LEMMA NoNewWait ==
  ASSUME WaitsByPlan, UNCHANGED <<profile, public, plan, chosen>>,
         does' \in [Path -> [End -> Named]],
         \A q \in Path, e \in End : Passive(does[q][e])' => Passive(does[q][e]),
         step' = "lookup" => step = "lookup" /\ UNCHANGED <<does, call, handler>>
  PROVE  WaitsByPlan'
BY Zenon DEF WaitsByPlan, Path, End

\* ... the only change being what one end does on one path
LEMMA OneEndStops ==
  ASSUME WaitsByPlan, UNCHANGED <<profile, public, plan, chosen>>,
         NEW q \in Path, NEW e \in End, NEW d \in Named, ~Passive(d),
         does' = [does EXCEPT ![q][e] = d],
         step' # "lookup"
  PROVE  WaitsByPlan'
<1>1. does' \in [Path -> [End -> Named]]
  BY Zenon DEF WaitsByPlan
<1>2. \A r \in Path, f \in End : does'[r][f] = IF r = q /\ f = e THEN d ELSE does[r][f]
  BY Zenon DEF WaitsByPlan
<1>3. \A r \in Path, f \in End : Passive(does[r][f])' => Passive(does[r][f])
  BY <1>2 DEF Passive
<1> QED  BY Zenon, <1>1, <1>3, NoNewWait

\* The caller waits by its new plan only if that lets the callee dial
LEMMA LookedUpStep == WaitsByPlan /\ LookedUp => WaitsByPlan'
<1> SUFFICES ASSUME WaitsByPlan, LookedUp
             PROVE  WaitsByPlan'
  BY Zenon
<1> DEFINE now == clock["caller"]
           selected == select_connect_plan(now, public.caller, public.looked)
           ends == ~is_valid_for(now) \/ action_for(selected, "caller").do = "legacy"
<1>1. CASE ends
  BY Zenon, <1>1, NoNewWait DEF LookedUp, WaitsByPlan, context
<1>2. CASE ~ends
  <2>1. /\ step' = "rendezvous" /\ plan' = selected /\ step = "lookup"
        /\ does' = [does EXCEPT !["rendezvous"]["caller"] = rendezvous_plan(selected).caller]
        /\ profile' = profile /\ public' = public /\ chosen' = chosen
    BY Zenon, <1>2 DEF LookedUp, context
  <2>2. selected.connector = Dialler(profile, public.caller, public.looked)
    BY Zenon, <1>2, SelectedDialler DEF WaitsByPlan
  <2> HIDE DEF selected
  <2>3. selected.connector \in End
    BY Zenon, <2>2 DEF Dialler, End
  <2>4. Passive(rendezvous_plan(selected).caller) => selected.connector = "callee"
    BY Zenon, <2>3 DEF rendezvous_plan, Passive, End
  <2>5. does' \in [Path -> [End -> Named]]
    BY Zenon, <2>1, ActionsNamed DEF WaitsByPlan
  <2>6. /\ does'["rendezvous"]["caller"] = rendezvous_plan(selected).caller
        /\ does'["call"]["caller"] = "none" /\ does'["call"]["callee"] = "none"
        /\ does'["rendezvous"]["callee"] = "none"
    BY Zenon, <2>1 DEF WaitsByPlan, Path, End
  <2>7. ~Passive("none")
    BY Zenon DEF Passive
  <2>8. \A q \in Path : Passive(does'[q]["caller"]) => selected.connector = "callee"
    BY Zenon, <2>4, <2>6, <2>7 DEF Path
  <2> QED  BY Zenon, <2>1, <2>2, <2>5, <2>6, <2>7, <2>8 DEF WaitsByPlan
<1> QED  BY Zenon, <1>1, <1>2

\* ... and so it does in the fallback call
LEMMA BeginCallStep == WaitsByPlan /\ BeginCall => WaitsByPlan'
<1> SUFFICES ASSUME WaitsByPlan, BeginCall
             PROVE  WaitsByPlan'
  BY Zenon
<1> DEFINE action == action_for(plan, "caller")
<1>1. CASE UNCHANGED does /\ step' = "end"
  BY Zenon, <1>1, NoNewWait DEF BeginCall, WaitsByPlan, context
<1>2. CASE step' = "call" /\ does' = [does EXCEPT !["call"]["caller"] = Executed(action)]
  <2>1. Executed(action) \in Named
    BY Zenon, ActionsNamed, ExecutedWaits
  <2>2. Passive(Executed(action)) => plan.connector = "callee"
    <3>1. Passive(Executed(action)) => Passive(action.do)
      BY Zenon, ActionsNamed, ExecutedWaits
    <3> QED  BY Zenon, <3>1, ActionWaits, PlanNames DEF End
  <2> HIDE DEF action
  <2>3. does' \in [Path -> [End -> Named]]
    BY Zenon, <1>2, <2>1 DEF WaitsByPlan
  <2>4. /\ does'["call"]["caller"] = Executed(action)
        /\ does'["rendezvous"] = does["rendezvous"]
        /\ does'["call"]["callee"] = does["call"]["callee"]
    BY Zenon, <1>2 DEF WaitsByPlan, Path, End
  <2>5. UNCHANGED <<profile, public, plan, chosen>>
    BY Zenon DEF BeginCall, context
  <2>6. \A q \in Path : Passive(does'[q]["caller"]) => plan.connector = "callee"
    BY Zenon, <2>2, <2>4 DEF WaitsByPlan, Path
  <2> QED  BY Zenon, <1>2, <2>3, <2>4, <2>5, <2>6 DEF WaitsByPlan
<1> QED  BY Zenon, <1>1, <1>2 DEF BeginCall

\* A notified callee waits only if the caller's plan lets the caller dial
LEMMA NotifiedStep == WaitsByPlan /\ Notified => WaitsByPlan'
<1> SUFFICES ASSUME WaitsByPlan, Notified
             PROVE  WaitsByPlan'
  BY Zenon
<1> DEFINE d == Operated(rendezvous_plan(plan).operation)
<1>1. /\ does' = [does EXCEPT !["rendezvous"]["callee"] = d] /\ plan # legacy
      /\ UNCHANGED <<profile, public, plan, chosen, step>>
  BY Zenon DEF Notified, context
<1>2. d \in Named
  BY Zenon, ActionsNamed
<1>3. Passive(d) => plan.connector = "caller"
  BY Zenon DEF Operated, rendezvous_plan, Passive
<1> HIDE DEF d
<1>4. does' \in [Path -> [End -> Named]]
  BY Zenon, <1>1, <1>2 DEF WaitsByPlan
<1>5. /\ does'["rendezvous"]["callee"] = d
      /\ does'["call"] = does["call"]
      /\ does'["rendezvous"]["caller"] = does["rendezvous"]["caller"]
  BY Zenon, <1>1 DEF WaitsByPlan, Path, End
<1>6. \A q \in Path : Passive(does'[q]["caller"]) => plan.connector = "callee"
  BY Zenon, <1>5 DEF WaitsByPlan, Path
<1> QED  BY Zenon, <1>1, <1>3, <1>4, <1>5, <1>6 DEF WaitsByPlan

\* A called callee chooses by its own plan
LEMMA OnSnCalledStep == WaitsByPlan /\ OnSnCalled => WaitsByPlan'
<1> SUFFICES ASSUME WaitsByPlan, OnSnCalled
             PROVE  WaitsByPlan'
  BY Zenon
<1>1. UNCHANGED <<profile, public, plan, does, step>> /\ step # "lookup"
  BY Zenon DEF OnSnCalled, context, WaitsByPlan
<1>2. CASE UNCHANGED chosen
  BY Zenon, <1>1, <1>2, NoNewWait DEF WaitsByPlan
<1>3. ASSUME NEW known \in BOOLEAN, chosen' = CalleeAction(known)
      PROVE  WaitsByPlan'
  <2>1. chosen'.do \in Named
    BY Zenon, <1>3, ActionsNamed
  <2>2. Passive(chosen'.do) => Dialler(profile, public.caller, public.callee) = "caller"
    BY Zenon, <1>3, CalleeChoice
  <2> QED  BY Zenon, <1>1, <2>1, <2>2 DEF WaitsByPlan
<1> QED  BY Zenon, <1>2, <1>3 DEF OnSnCalled

\* ... and waits by what it chose, however late it gets the lock
LEMMA CalleeLocksStep == WaitsByPlan /\ CalleeLocks => WaitsByPlan'
<1> SUFFICES ASSUME WaitsByPlan, CalleeLocks
             PROVE  WaitsByPlan'
  BY Zenon
<1>1. UNCHANGED <<profile, public, plan, chosen, step>> /\ step # "lookup"
  BY Zenon DEF CalleeLocks, context, WaitsByPlan
<1>2. CASE UNCHANGED does
  BY Zenon, <1>1, <1>2, NoNewWait DEF WaitsByPlan
<1>3. CASE does' = [does EXCEPT !["call"]["callee"] = Executed(chosen)]
  <2>1. Executed(chosen) \in Named /\ (Passive(Executed(chosen)) => Passive(chosen.do))
    BY Zenon, ExecutedWaits DEF WaitsByPlan
  <2>2. does' \in [Path -> [End -> Named]]
    BY Zenon, <1>3, <2>1 DEF WaitsByPlan
  <2>3. /\ does'["call"]["callee"] = Executed(chosen)
        /\ does'["rendezvous"] = does["rendezvous"]
        /\ does'["call"]["caller"] = does["call"]["caller"]
    BY Zenon, <1>3 DEF WaitsByPlan, Path, End
  <2>4. \A q \in Path : Passive(does'[q]["caller"]) => plan.connector = "callee"
    BY Zenon, <2>3 DEF WaitsByPlan, Path
  <2> QED  BY Zenon, <1>1, <1>3, <2>1, <2>2, <2>3, <2>4 DEF WaitsByPlan
<1> QED  BY Zenon, <1>2, <1>3 DEF CalleeLocks

\* Every step keeps the invariant
LEMMA WaitsByPlanStep == WaitsByPlan /\ [NatNext]_natVars => WaitsByPlan'
<1> SUFFICES ASSUME WaitsByPlan, [NatNext]_natVars
             PROVE  WaitsByPlan'
  BY Zenon
<1>1. "over" \in Named /\ ~Passive("over")
  BY Zenon DEF Named, Does, Passive
<1>2. "call" \in Path /\ "rendezvous" \in Path /\ "caller" \in End /\ "callee" \in End
  BY Zenon DEF Path, End
<1>3. CASE /\ UNCHANGED <<profile, public, plan, chosen, does, step>>
           /\ step = "lookup" => UNCHANGED <<call, handler>>
  BY Zenon, <1>3, NoNewWait DEF WaitsByPlan
<1>4. CASE SendCall \/ CallLost \/ ReverseArrives \/ ActiveArrives
  BY Zenon, <1>3, <1>4
     DEF SendCall, CallLost, ReverseArrives, ActiveArrives, context, WaitsByPlan
<1>5. CASE \E e \in End : Tick(e)
  BY Zenon, <1>3, <1>5 DEF Tick
<1>6. CASE RendezvousEnds
  BY Zenon, <1>1, <1>2, <1>6, OneEndStops DEF RendezvousEnds, context
<1>7. CASE CallerDials \/ CallerReceives \/ CallerFails \/ OpenEnds
  BY Zenon, <1>1, <1>2, <1>7, OneEndStops
     DEF CallerDials, CallerReceives, CallerFails, OpenEnds, context
<1>8. CASE NotifiedEnds
  <2>1. step # "lookup"
    BY Zenon, <1>2, <1>8 DEF NotifiedEnds, WaitsByPlan
  <2> QED  BY Zenon, <1>1, <1>2, <1>8, <2>1, OneEndStops DEF NotifiedEnds, context
<1>9. CASE CalleeDials \/ CalleeReceives \/ CalleeFails
  <2>1. step # "lookup"
    BY Zenon, <1>9 DEF CalleeDials, CalleeReceives, CalleeFails, WaitsByPlan
  <2> QED  BY Zenon, <1>1, <1>2, <1>9, <2>1, OneEndStops
              DEF CalleeDials, CalleeReceives, CalleeFails, context
<1>10. CASE UNCHANGED natVars
  BY Zenon, <1>3, <1>10 DEF natVars
<1> QED  BY Zenon, <1>4, <1>5, <1>6, <1>7, <1>8, <1>9, <1>10, LookedUpStep, BeginCallStep,
            NotifiedStep, OnSnCalledStep, CalleeLocksStep DEF NatNext

\* For every MaxTime, whatever the profiles, the certificates and the clocks of
\* the two ends, and however late a call or a notify arrives: the two ends of a
\* path never both wait for the other one's dial
\* (open_nat_aware_tunnel_legacy, on_sn_called, on_sn_rendezvous)
THEOREM NeverBothWait == NatSpec => []NotBothWait
<1>1. NatInit => WaitsByPlan
  BY Zenon, WaitsByPlanInit
<1>2. WaitsByPlan /\ [NatNext]_natVars => WaitsByPlan'
  BY Zenon, WaitsByPlanStep
<1>3. WaitsByPlan => NotBothWait
  BY Zenon, WaitsByPlanSuffices
<1> QED  BY <1>1, <1>2, <1>3, PTL DEF NatSpec

-----------------------------------------------------------------------------
(***************************************************************************)
(* The TCP tunnel registry, for any number of ports, control and data      *)
(* connections: it leads to accepted tunnels only, and a duplicate does    *)
(* not take the mapping of a live tunnel.  The second rests on the tunnel  *)
(* manager: a live tunnel that was registered there holds the entry of the *)
(* key until it dies, and of reverse tunnels only the waiter's is accepted. *)
(***************************************************************************)


\* Where handle_accepted_stream may be
Stage == {"none", "accepting", "refused", "deliver", "incoming", "publish", "accepted",
          "commit", "done"}

\* The fields the argument is about have their types
ListenerTypes ==
  /\ handling \in [Controls -> Stage]
  /\ alive \subseteq Controls /\ verdict \subseteq Controls
  /\ entry \in Controls \cup {NoTunnel}
  /\ data \in [DataConns -> Controls \cup {"idle", "refused"}]
  /\ reverse \in BOOLEAN /\ waiting \in BOOLEAN

\* A connection is handled once it has been dialled
DialledFirst ==
  /\ dialled \in [Controls -> {"idle", "waiting", "failed", "up"}]
  /\ \A c \in Controls : dialled[c] = "idle" => handling[c] = "none"

\* A verdict is given on the way from publish to commit
VerdictAtStage ==
  \A c \in Controls :
    /\ c \in verdict => handling[c] \in {"accepted", "commit", "done"}
    /\ handling[c] \in {"accepted", "commit"} => c \in verdict

\* A live tunnel the manager has registered holds the entry; one reverse tunnel at most is accepted
OneHolds ==
  /\ ~reverse => \A c \in alive : c \in verdict \/ handling[c] = "publish" => entry = c
  /\ reverse => /\ \A c, d \in verdict : c = d
                /\ waiting => verdict = {}
                /\ \A c \in Controls : handling[c] # "publish"

\* The inductive invariant
ListenerInv == ListenerTypes /\ UnacceptedIsUnreachable /\ VerdictAtStage /\ OneHolds

-----------------------------------------------------------------------------

\* Nothing is accepted at first
LEMMA ListenerInvInit == ListenerInit => ListenerInv
BY Zenon DEF ListenerInit, ListenerInv, ListenerTypes, UnacceptedIsUnreachable, VerdictAtStage,
       OneHolds, Stage

\* What EXCEPT does to one connection's stage
LEMMA OneGoes ==
  ASSUME ListenerTypes, NEW c \in Controls, NEW s \in Stage, Goes(c, s)
  PROVE  /\ handling' \in [Controls -> Stage]
         /\ handling'[c] = s
         /\ \A d \in Controls : d # c => handling'[d] = handling[d]
BY Zenon DEF Goes, ListenerTypes

\* There is no tunnel without a connection
LEMMA NoTunnelDead == ListenerTypes => NoTunnel \notin alive
BY Zenon, ListenerAssumption DEF ListenerTypes

\* A step that leaves what the invariant is about alone
LEMMA Untouched ==
  ASSUME ListenerInv,
         UNCHANGED <<handling, alive, verdict, managerTable, registry, data>>
  PROVE  ListenerInv'
BY Zenon DEF ListenerInv, ListenerTypes, UnacceptedIsUnreachable, VerdictAtStage, OneHolds, managerTable

\* A connection goes on before any verdict
LEMMA EarlyGoes ==
  ASSUME ListenerInv, NEW c \in Controls, NEW s \in {"accepting", "refused", "deliver", "incoming"},
         handling[c] \in {"none", "accepting", "deliver"}, Goes(c, s),
         alive' \in {alive, alive \cup {c}},
         UNCHANGED <<verdict, managerTable, registry, data>>
  PROVE  ListenerInv'
<1>1. c \notin verdict
  BY Zenon DEF ListenerInv, VerdictAtStage
<1>2. /\ handling' \in [Controls -> Stage] /\ handling'[c] = s
      /\ \A d \in Controls : d # c => handling'[d] = handling[d]
  BY Zenon, OneGoes DEF ListenerInv, Stage
<1>3. ListenerTypes'
  BY Zenon, <1>2 DEF ListenerInv, ListenerTypes, managerTable
<1>4. UnacceptedIsUnreachable'
  BY Zenon, <1>2 DEF ListenerInv, UnacceptedIsUnreachable
<1>5. VerdictAtStage'
  BY Zenon, <1>1, <1>2 DEF ListenerInv, VerdictAtStage
<1>6. OneHolds'
  BY Zenon, <1>1, <1>2 DEF ListenerInv, OneHolds, managerTable, ListenerTypes
<1> QED  BY Zenon, <1>3, <1>4, <1>5, <1>6 DEF ListenerInv

\* A refused tunnel is closed
LEMMA RejectKeeps ==
  ASSUME ListenerInv, NEW c \in Controls, handling[c] \in {"deliver", "incoming", "publish"},
         Reject(c), UNCHANGED <<reverse, entry>>, waiting' \in BOOLEAN,
         waiting' => waiting
  PROVE  ListenerInv'
<1>1. c \notin verdict
  BY Zenon DEF ListenerInv, VerdictAtStage
<1>2. /\ handling' \in [Controls -> Stage] /\ handling'[c] = "done"
      /\ \A d \in Controls : d # c => handling'[d] = handling[d]
      /\ alive' = alive \ {c} /\ UNCHANGED <<verdict, registry, data>>
  BY Zenon, OneGoes DEF ListenerInv, Stage, Reject
<1>3. ListenerTypes'
  BY Zenon, <1>2 DEF ListenerInv, ListenerTypes
<1>4. UnacceptedIsUnreachable'
  BY Zenon, <1>2 DEF ListenerInv, UnacceptedIsUnreachable
<1>5. VerdictAtStage'
  BY Zenon, <1>1, <1>2 DEF ListenerInv, VerdictAtStage
<1>6. OneHolds'
  BY Zenon, <1>1, <1>2 DEF ListenerInv, OneHolds, ListenerTypes
<1> QED  BY Zenon, <1>3, <1>4, <1>5, <1>6 DEF ListenerInv

\* The waiter's tunnel is the only reverse one that is accepted
LEMMA IncomingReverseKeeps ==
  ASSUME ListenerInv, NEW c \in Controls, TakeReverse(c)
  PROVE  ListenerInv'
<1>1. CASE ~waiting
  BY Zenon, <1>1, RejectKeeps DEF TakeReverse
<1>2. CASE waiting
  <2>1. /\ handling[c] = "incoming" /\ reverse /\ waiting' = FALSE
        /\ UNCHANGED <<reverse, entry, alive, registry, data>>
        /\ verdict' = verdict \cup {c} /\ Goes(c, "accepted")
    BY Zenon, <1>2 DEF TakeReverse, Accept
  <2>2. /\ handling' \in [Controls -> Stage] /\ handling'[c] = "accepted"
        /\ \A d \in Controls : d # c => handling'[d] = handling[d]
    BY Zenon, <2>1, OneGoes DEF ListenerInv, Stage
  <2>3. ListenerTypes'
    BY Zenon, <2>1, <2>2 DEF ListenerInv, ListenerTypes
  <2>4. UnacceptedIsUnreachable'
    BY Zenon, <2>1, <2>2 DEF ListenerInv, UnacceptedIsUnreachable
  <2>5. VerdictAtStage'
    BY Zenon, <2>1, <2>2 DEF ListenerInv, VerdictAtStage
  <2>6. OneHolds'
    BY Zenon, <1>2, <2>1, <2>2 DEF ListenerInv, OneHolds
  <2> QED  BY Zenon, <2>3, <2>4, <2>5, <2>6 DEF ListenerInv
<1> QED  BY Zenon, <1>1, <1>2 DEF ListenerInv, ListenerTypes

\* register_tunnel takes the entry only from a tunnel that is dead
LEMMA RegisterKeeps ==
  ASSUME ListenerInv, NEW c \in Controls, RegisterControl(c)
  PROVE  ListenerInv'
<1>1. CASE ~NoDuplicate(c)
  BY Zenon, <1>1, RejectKeeps DEF RegisterControl, ListenerInv, ListenerTypes
<1>2. CASE NoDuplicate(c)
  <2>1. /\ handling[c] = "incoming" /\ ~reverse /\ entry \notin alive
        /\ entry' = c /\ Goes(c, "publish")
        /\ UNCHANGED <<waiting, reverse, alive, verdict, registry, data>>
    BY Zenon, <1>2 DEF RegisterControl, NoDuplicate
  <2>2. /\ handling' \in [Controls -> Stage] /\ handling'[c] = "publish"
        /\ \A d \in Controls : d # c => handling'[d] = handling[d]
    BY Zenon, <2>1, OneGoes DEF ListenerInv, Stage
  <2>3. ListenerTypes'
    BY Zenon, <2>1, <2>2 DEF ListenerInv, ListenerTypes
  <2>4. UnacceptedIsUnreachable'
    BY Zenon, <2>1, <2>2 DEF ListenerInv, UnacceptedIsUnreachable
  <2>5. VerdictAtStage'
    BY Zenon, <2>1, <2>2 DEF ListenerInv, VerdictAtStage
  <2>6. OneHolds'
    BY Zenon, <2>1, <2>2 DEF ListenerInv, OneHolds, ListenerTypes
  <2> QED  BY Zenon, <2>3, <2>4, <2>5, <2>6 DEF ListenerInv
<1> QED  BY Zenon, <1>1, <1>2

\* publish_registered_tunnel accepts a tunnel that holds the entry or is dead
LEMMA PublishKeeps ==
  ASSUME ListenerInv, NEW c \in Controls, PublishControl(c)
  PROVE  ListenerInv'
<1>1. CASE entry = NoTunnel
  BY Zenon, <1>1, RejectKeeps DEF PublishControl, ListenerInv, ListenerTypes
<1>2. CASE entry # NoTunnel
  <2>1. /\ handling[c] = "publish"
        /\ UNCHANGED <<waiting, reverse, entry, alive, registry, data>>
        /\ verdict' = verdict \cup {c} /\ Goes(c, "accepted")
    BY Zenon, <1>2 DEF PublishControl, Accept
  <2>2. /\ handling' \in [Controls -> Stage] /\ handling'[c] = "accepted"
        /\ \A d \in Controls : d # c => handling'[d] = handling[d]
    BY Zenon, <2>1, OneGoes DEF ListenerInv, Stage
  <2>3. ListenerTypes'
    BY Zenon, <2>1, <2>2 DEF ListenerInv, ListenerTypes
  <2>4. UnacceptedIsUnreachable'
    BY Zenon, <2>1, <2>2 DEF ListenerInv, UnacceptedIsUnreachable
  <2>5. VerdictAtStage'
    BY Zenon, <2>1, <2>2 DEF ListenerInv, VerdictAtStage
  <2>6. OneHolds'
    BY Zenon, <2>1, <2>2 DEF ListenerInv, OneHolds, ListenerTypes
  <2> QED  BY Zenon, <2>3, <2>4, <2>5, <2>6 DEF ListenerInv
<1> QED  BY Zenon, <1>1, <1>2

\* The listener's check and its commit come after the verdict
LEMMA CommitKeeps ==
  ASSUME ListenerInv, NEW c \in Controls, CheckCommit(c) \/ Commit(c)
  PROVE  ListenerInv'
<1>1. /\ handling[c] \in {"accepted", "commit"} /\ registry' \in {registry, c}
      /\ \E s \in {"commit", "done"} : Goes(c, s)
      /\ UNCHANGED <<waiting, reverse, entry, alive, verdict, data>>
  BY Zenon DEF CheckCommit, Commit, managerTable
<1>2. c \in verdict
  BY Zenon, <1>1 DEF ListenerInv, VerdictAtStage
<1>3. /\ handling' \in [Controls -> Stage] /\ handling'[c] \in {"commit", "done"}
      /\ \A d \in Controls : d # c => handling'[d] = handling[d]
  BY Zenon, <1>1, OneGoes DEF ListenerInv, Stage
<1>4. ListenerTypes'
  BY Zenon, <1>1, <1>3 DEF ListenerInv, ListenerTypes
<1>5. UnacceptedIsUnreachable'
  BY Zenon, <1>1, <1>2, <1>3 DEF ListenerInv, UnacceptedIsUnreachable
<1>6. VerdictAtStage'
  BY Zenon, <1>1, <1>2, <1>3 DEF ListenerInv, VerdictAtStage
<1>7. OneHolds'
  BY Zenon, <1>1, <1>2, <1>3 DEF ListenerInv, OneHolds, ListenerTypes
<1> QED  BY Zenon, <1>4, <1>5, <1>6, <1>7 DEF ListenerInv

\* Tunnels that end and the two cleanups
LEMMA EndKeeps ==
  ASSUME ListenerInv,
         (\E c \in Controls : TunnelEnds(c)) \/ CleanupTable \/ CleanupStale
  PROVE  ListenerInv'
<1>1. /\ UNCHANGED <<handling, verdict, waiting, reverse, data>>
      /\ alive' \subseteq alive
      /\ entry' = entry \/ (entry' = NoTunnel /\ entry \notin alive')
      /\ registry' \in {registry, NoTunnel}
  BY Zenon DEF TunnelEnds, CleanupTable, CleanupStale, Kept, managerTable
<1>2. ListenerTypes'
  BY Zenon, <1>1 DEF ListenerInv, ListenerTypes
<1>3. UnacceptedIsUnreachable'
  BY Zenon, <1>1 DEF ListenerInv, UnacceptedIsUnreachable
<1>4. VerdictAtStage'
  BY Zenon, <1>1 DEF ListenerInv, VerdictAtStage
<1>5. OneHolds'
  BY Zenon, <1>1 DEF ListenerInv, OneHolds, ListenerTypes
<1> QED  BY Zenon, <1>2, <1>3, <1>4, <1>5 DEF ListenerInv

\* A data connection gets what the registry has, and that was accepted
LEMMA DataConnectionKeeps ==
  ASSUME ListenerInv, NEW d \in DataConns, NEW c \in Controls, DataConnection(d, c)
  PROVE  ListenerInv'
<1>1. /\ UNCHANGED <<handling, verdict, alive, managerTable>>
      /\ registry' = Kept
      /\ data' = [data EXCEPT ![d] = IF Kept = NoTunnel THEN "refused" ELSE Kept]
  BY Zenon DEF DataConnection
<1>2. Kept \in verdict \cup {NoTunnel}
  BY Zenon DEF Kept, ListenerInv, UnacceptedIsUnreachable
<1>3. ListenerTypes'
  BY Zenon, <1>1, <1>2 DEF ListenerInv, ListenerTypes, managerTable
<1>4. UnacceptedIsUnreachable'
  BY Zenon, <1>1, <1>2 DEF ListenerInv, ListenerTypes, UnacceptedIsUnreachable
<1>5. VerdictAtStage'
  BY Zenon, <1>1 DEF ListenerInv, VerdictAtStage
<1>6. OneHolds'
  BY Zenon, <1>1 DEF ListenerInv, OneHolds, managerTable
<1> QED  BY Zenon, <1>3, <1>4, <1>5, <1>6 DEF ListenerInv

\* A handler only starts with its dial
LEMMA DialledFirstStep ==
  ASSUME ListenerTypes, DialledFirst, [ListenerNext]_listenerVars
  PROVE  DialledFirst'
<1>1. CASE UNCHANGED <<dialled, handling>>
  BY Zenon, <1>1 DEF DialledFirst
<1>2. ASSUME NEW c \in Controls, NEW s \in Stage, Goes(c, s), handling[c] # "none",
             UNCHANGED dialled
      PROVE  DialledFirst'
  BY Zenon, <1>2, OneGoes DEF DialledFirst
<1>3. ASSUME NEW c \in Controls, ControlStep(c)
      PROVE  DialledFirst'
  <2>1. CASE Connect(c)
    BY Zenon, <2>1 DEF Connect, DialledFirst, ListenerTypes
  <2>2. CASE ConnectFails(c) \/ ReadReady(c)
    BY Zenon, <2>2 DEF ConnectFails, ReadReady, DialledFirst
  <2>3. CASE Refuse(c) \/ RefuseHello(c) \/ AcceptControl(c)
    BY Zenon, <1>2, <2>3 DEF Refuse, RefuseHello, AcceptControl, Stage
  <2>4. CASE DeliverClosed(c) \/ Dispatch(c) \/ TakeReverse(c)
    BY Zenon, <1>2, <2>4 DEF DeliverClosed, Dispatch, TakeReverse, Reject, Accept, Stage
  <2>5. CASE RegisterControl(c) \/ PublishControl(c)
    BY Zenon, <1>2, <2>5 DEF RegisterControl, PublishControl, Reject, Accept, Stage
  <2>6. CASE CheckCommit(c) \/ Commit(c)
    BY Zenon, <1>2, <2>6 DEF CheckCommit, Commit, Stage
  <2>7. CASE TunnelEnds(c)
    BY Zenon, <1>1, <2>7 DEF TunnelEnds
  <2> QED  BY Zenon, <1>3, <2>1, <2>2, <2>3, <2>4, <2>5, <2>6, <2>7 DEF ControlStep
<1>4. CASE CloseAll \/ CleanupTable \/ CleanupStale \/ \E l \in Ports : Start(l) \/ List(l)
  BY Zenon, <1>1, <1>4 DEF CloseAll, CleanupTable, CleanupStale, Start, List
<1>5. CASE \E d \in DataConns, c \in Controls : DataConnection(d, c)
  BY Zenon, <1>1, <1>5 DEF DataConnection
<1>6. CASE UNCHANGED listenerVars
  BY Zenon, <1>1, <1>6 DEF listenerVars
<1> QED  BY Zenon, <1>3, <1>4, <1>5, <1>6 DEF ListenerNext

\* Every step keeps the invariant
LEMMA ListenerInvStep ==
  ListenerInv /\ DialledFirst /\ [ListenerNext]_listenerVars => ListenerInv'
<1> SUFFICES ASSUME ListenerInv, DialledFirst, [ListenerNext]_listenerVars
             PROVE  ListenerInv'
  BY Zenon
<1>1. CASE UNCHANGED listenerVars
  BY Zenon, <1>1, Untouched DEF listenerVars, managerTable
<1>2. CASE CloseAll \/ \E l \in Ports : Start(l) \/ List(l)
  BY Zenon, <1>2, Untouched DEF CloseAll, Start, List
<1>3. CASE CleanupTable \/ CleanupStale
  BY Zenon, <1>3, EndKeeps
<1>4. ASSUME NEW c \in Controls, ControlStep(c)
      PROVE  ListenerInv'
  <2>1. CASE ConnectFails(c) \/ ReadReady(c)
    BY Zenon, <2>1, Untouched DEF ConnectFails, ReadReady
  <2>2. CASE Connect(c)
    <3>1. handling[c] = "none"
      BY Zenon, <2>2 DEF Connect, DialledFirst
    <3> QED  BY Zenon, <2>2, <3>1, EarlyGoes DEF Connect, Goes
  <2>3. CASE Refuse(c) \/ RefuseHello(c)
    BY Zenon, <2>3, EarlyGoes DEF Refuse, RefuseHello
  <2>4. CASE AcceptControl(c)
    BY Zenon, <2>4, EarlyGoes DEF AcceptControl
  <2>5. CASE DeliverClosed(c)
    BY Zenon, <2>5, RejectKeeps DEF DeliverClosed, managerTable, ListenerInv, ListenerTypes
  <2>6. CASE Dispatch(c)
    <3>1. CASE Reject(c)
      BY Zenon, <2>6, <3>1, RejectKeeps DEF Dispatch, managerTable, ListenerInv, ListenerTypes
    <3>2. CASE Goes(c, "incoming") /\ UNCHANGED <<alive, verdict, registry, data>>
      BY Zenon, <2>6, <3>2, EarlyGoes DEF Dispatch
    <3> QED  BY Zenon, <2>6, <3>1, <3>2 DEF Dispatch
  <2>7. CASE TakeReverse(c)
    BY Zenon, <2>7, IncomingReverseKeeps
  <2>8. CASE RegisterControl(c)
    BY Zenon, <2>8, RegisterKeeps
  <2>9. CASE PublishControl(c)
    BY Zenon, <2>9, PublishKeeps
  <2>10. CASE CheckCommit(c) \/ Commit(c)
    BY Zenon, <2>10, CommitKeeps
  <2>11. CASE TunnelEnds(c)
    BY Zenon, <2>11, EndKeeps
  <2> QED  BY Zenon, <1>4, <2>1, <2>2, <2>3, <2>4, <2>5, <2>6, <2>7, <2>8, <2>9, <2>10, <2>11
              DEF ControlStep
<1>5. CASE \E d \in DataConns, c \in Controls : DataConnection(d, c)
  BY Zenon, <1>5, DataConnectionKeeps
<1> QED  BY Zenon, <1>1, <1>2, <1>3, <1>4, <1>5 DEF ListenerNext

\* For any ports, control and data connections: the registry leads to accepted
\* tunnels only, no data connection is handed to another, and a refused tunnel
\* is closed (handle_accepted_stream, find_tunnel, NetManager, register_tunnel)
THEOREM OnlyAcceptedIsReachable == ListenerSpec => []UnacceptedIsUnreachable
<1>1. ListenerInit => ListenerInv /\ DialledFirst
  BY Zenon, ListenerInvInit DEF ListenerInit, DialledFirst
<1>2. ListenerInv /\ DialledFirst /\ [ListenerNext]_listenerVars => (ListenerInv /\ DialledFirst)'
  BY Zenon, ListenerInvStep, DialledFirstStep DEF ListenerInv
<1>3. ListenerInv => UnacceptedIsUnreachable
  BY Zenon DEF ListenerInv
<1> QED  BY <1>1, <1>2, <1>3, PTL DEF ListenerSpec

\* One step takes the mapping of a live tunnel only for a tunnel that has died
LEMMA MappingStep ==
  ASSUME ListenerInv, [ListenerNext]_listenerVars,
         registry' # registry, registry \in alive, registry \in alive'
  PROVE  registry' \in Controls \ alive'
<1>1. CASE \E c \in Controls : Commit(c)
  <2>1. PICK c \in Controls : Commit(c)
    BY Zenon, <1>1
  <2>2. registry' = c /\ alive' = alive /\ handling[c] = "commit"
    BY Zenon, <2>1 DEF Commit
  <2>3. c \in verdict /\ registry \in verdict
    BY Zenon, <2>2, NoTunnelDead DEF ListenerInv, VerdictAtStage, UnacceptedIsUnreachable
  <2>4. c \in alive => c = registry
    BY Zenon, <2>3 DEF ListenerInv, OneHolds, ListenerTypes
  <2> QED  BY Zenon, <2>2, <2>4
<1>2. CASE CleanupStale \/ \E d \in DataConns, c \in Controls : DataConnection(d, c)
  BY Zenon, <1>2 DEF CleanupStale, DataConnection, Kept
<1>3. CASE ~(\E c \in Controls : Commit(c)) /\ ~CleanupStale
           /\ ~\E d \in DataConns, c \in Controls : DataConnection(d, c)
  <2>1. registry' = registry
    BY Zenon, <1>3 DEF ListenerNext, listenerVars, ControlStep, CloseAll, CleanupTable, Start, List,
                Connect, ConnectFails, ReadReady, Refuse, RefuseHello, AcceptControl, Reject,
                DeliverClosed, Dispatch, Accept, TakeReverse, RegisterControl, PublishControl, CheckCommit,
                TunnelEnds
  <2> QED  BY Zenon, <2>1
<1> QED  BY Zenon, <1>1, <1>2, <1>3

\* For any number of connections of one key, in any order of accepts, refusals,
\* cleanups and commits: a duplicate does not take the mapping of a live tunnel
\* (TcpTunnelRegistry::register behind register_tunnel and the reverse waiter)
THEOREM LiveMappingStays == ListenerSpec => MappingKept
<1>1. ListenerInit => ListenerInv /\ DialledFirst
  BY Zenon, ListenerInvInit DEF ListenerInit, DialledFirst
<1>2. ListenerInv /\ DialledFirst /\ [ListenerNext]_listenerVars => (ListenerInv /\ DialledFirst)'
  BY Zenon, ListenerInvStep, DialledFirstStep DEF ListenerInv
<1>3. ListenerInv /\ [ListenerNext]_listenerVars =>
        [registry' # registry /\ registry \in alive \cap alive'
           => registry' \in Controls \ alive']_listenerVars
  BY Zenon, MappingStep
<1> QED  BY <1>1, <1>2, <1>3, PTL DEF ListenerSpec, MappingKept

-----------------------------------------------------------------------------
(***************************************************************************)
(* The rendezvous, for any number of attempts and deliveries.  A slot is   *)
(* held by a live task that has not yielded, and a target's action in the  *)
(* slot is attached, so whoever displaces it also ends it.  A success is   *)
(* passed on to the opens of the same peer only.                           *)
(***************************************************************************)

RendezvousTypes ==
  /\ party \in [Token -> Party] /\ slot \in [Peer -> Owner \cup {NoOwner}]
  /\ expected \in [Peer -> SUBSET Token] /\ registered \in [Peer -> SUBSET Token]
  /\ sn \in [Attempt -> Request]

\* The owner of a slot, its waiter and its heirs
SlotOK(p) ==
  /\ slot[p].tok # NoToken =>
       /\ At(slot[p].tok) = p /\ party[slot[p].tok].pc \in Live /\ ~party[slot[p].tok].yielded
       /\ ~IsLocal(slot[p].tok) /\ party[slot[p].tok].pc = "acting" => slot[p].attached
  /\ \A w \in expected[p] : w = slot[p].tok
  /\ \A h \in slot[p].heirs : At(h) = p

\* A token that was never delivered names no task; a success has its tunnel
NotDelivered(t) == t[2] > sn[t[1]].k => party[t].pc = "none"
Succeeds(x) == x.connected \/ x.result = "ok" \/ x.won = "ok"
TokenOK(t) ==
  /\ ~IsLocal(t) /\ party[t].pc = "acting" => slot[At(t)].tok = t
  /\ party[t].pc \in {"none", "arrived"} => ~party[t].yielded
  /\ NotDelivered(t)
  /\ Succeeds(party[t]) => registered[At(t)] # {}

RendezvousInv ==
  /\ RendezvousTypes
  /\ \A p \in Peer : SlotOK(p)
  /\ \A t \in Token : TokenOK(t)

LEMMA AttemptFacts ==
  ASSUME NEW a \in Attempt
  PROVE  a[1] \in Peer /\ Deliveries[a[1]] \in Nat
BY BoundsAssumption DEF Attempt, Peer

LEMMA TokenFacts ==
  ASSUME NEW t \in Token
  PROVE  /\ t[1] \in Attempt /\ t[2] \in Nat /\ t[1][1] \in Peer
         /\ At(t) \in Peer /\ Other(At(t)) \in Peer /\ t # NoToken
<1>1. PICK a \in Attempt : t \in {a} \X (0..Deliveries[a[1]])
  BY Zenon DEF Token
<1>2. t[1] = a /\ t[2] \in 0..Deliveries[a[1]] /\ t # NoToken
  <2>1. PICK k \in 0..Deliveries[a[1]] : t = <<a, k>>
    BY <1>1
  <2>2. t # <<>>
    BY Zenon, <2>1
  <2> QED BY Zenon, <2>1, <2>2 DEF NoToken
<1>3. a[1] \in Peer /\ Deliveries[a[1]] \in Nat
  BY Zenon, AttemptFacts
<1>4. \A p \in Peer : Other(p) \in Peer
  BY Zenon DEF Other, Peer
<1>5. At(t) \in Peer
  BY Zenon, <1>2, <1>3, <1>4 DEF At
<1> QED BY <1>2, <1>3, <1>4, <1>5

LEMMA DeliveredToken ==
  ASSUME NEW a \in Attempt, NEW k \in Nat, k < Deliveries[a[1]], NEW t, t = <<a, k + 1>>
  PROVE  t \in Token /\ t[1] = a /\ t[2] = k + 1 /\ ~IsLocal(t)
<1>1. Deliveries[a[1]] \in Nat
  BY Zenon, AttemptFacts
<1>2. t \in {a} \X (0..Deliveries[a[1]])
  BY <1>1
<1> QED BY <1>2 DEF Token, IsLocal

LEMMA EndedFacts ==
  ASSUME NEW r \in Result
  PROVE  /\ Ended(r) \in Party /\ Ended(r).pc = "done" /\ ~Ended(r).yielded
         /\ ~Ended(r).connected /\ Ended(r).won = "none" /\ Ended(r).result = r
BY Zenon DEF Ended, NewParty, Party, Pc, Result, NoToken

\* A step that leaves the slots alone
LEMMA SlotsStay ==
  ASSUME RendezvousInv, RendezvousTypes', slot' = slot,
         \A p \in Peer : expected'[p] \subseteq expected[p],
         \A t \in Token : /\ party'[t].yielded = party[t].yielded
                          /\ party[t].pc \in Live => party'[t].pc \in Live \/ party[t].yielded
                          /\ party'[t].pc = "acting" => party[t].pc = "acting" \/ IsLocal(t)
                          /\ party'[t].pc \in {"none", "arrived"} =>
                               party[t].pc \in {"none", "arrived"}
                          /\ NotDelivered(t)'
                          /\ Succeeds(party'[t]) => registered'[At(t)] # {}
  PROVE  RendezvousInv'
<1>1. ASSUME NEW p \in Peer PROVE SlotOK(p)'
  <2>1. SlotOK(p) /\ (slot[p].tok # NoToken => slot[p].tok \in Token)
    BY DEF RendezvousInv, RendezvousTypes, Owner, NoOwner
  <2> QED BY Zenon, <2>1 DEF SlotOK
<1>2. ASSUME NEW t \in Token PROVE TokenOK(t)'
  <2>1. TokenOK(t)
    BY Zenon DEF RendezvousInv
  <2> QED BY Zenon, <2>1 DEF TokenOK
<1> QED BY Zenon, <1>1, <1>2 DEF RendezvousInv

LEMMA SuccessKept ==
  ASSUME RendezvousInv, NEW t \in Token, \A p \in Peer : registered[p] \subseteq registered'[p],
         Succeeds(party[t])
  PROVE  registered'[At(t)] # {}
<1>1. At(t) \in Peer /\ registered[At(t)] # {}
  BY Zenon, TokenFacts DEF RendezvousInv, TokenOK
<1> QED BY Zenon, <1>1

SnStates == {"idle", "sent", "delivering", "ok", "refused", "over"}

LEMMA SnStatus ==
  ASSUME sn \in [Attempt -> Request], NEW a \in Attempt, NEW v \in SnStates,
         sn' = [sn EXCEPT ![a].st = v]
  PROVE  sn' \in [Attempt -> Request] /\ \A b \in Attempt : sn'[b].k = sn[b].k
<1>1. PICK r : r = [sn[a] EXCEPT !.st = v]
  BY Zenon
<1>2. r \in Request /\ r.k = sn[a].k
  BY Zenon, <1>1 DEF Request, SnStates
<1>3. sn' = [sn EXCEPT ![a] = r]
  BY Zenon, <1>1
<1> QED BY Zenon, <1>2, <1>3

LEMMA NotDeliveredYet ==
  ASSUME RendezvousInv, NEW t \in Token, \A b \in Attempt : sn'[b].k = sn[b].k,
         party[t].pc = "none" => party'[t].pc = "none"
  PROVE  NotDelivered(t)'
<1>1. t[1] \in Attempt /\ NotDelivered(t)
  BY Zenon, TokenFacts DEF RendezvousInv, TokenOK
<1> QED BY Zenon, <1>1 DEF NotDelivered

\* A step of task t that leaves the slots alone
LEMMA OneMoves ==
  ASSUME RendezvousInv, NEW t \in Token, NEW q \in Party, party' = [party EXCEPT ![t] = q],
         UNCHANGED <<slot, expected>>,
         registered' \in [Peer -> SUBSET Token], \A p \in Peer : registered[p] \subseteq registered'[p],
         sn' \in [Attempt -> Request], \A a \in Attempt : sn'[a].k = sn[a].k,
         q.yielded = party[t].yielded, party[t].pc # "none", q.pc \notin {"none", "arrived"},
         party[t].pc \in Live => q.pc \in Live \/ party[t].yielded,
         q.pc = "acting" => party[t].pc = "acting" \/ IsLocal(t),
         Succeeds(q) => registered'[At(t)] # {}
  PROVE  RendezvousInv'
<1>1. party \in [Token -> Party] /\ RendezvousTypes
  BY Zenon DEF RendezvousInv, RendezvousTypes
<1>2. party'[t] = q /\ \A u \in Token : u # t => party'[u] = party[u]
  BY Zenon, <1>1
<1>3. RendezvousTypes'
  BY Zenon, <1>1 DEF RendezvousTypes
<1>4. ASSUME NEW u \in Token
      PROVE  /\ party'[u].yielded = party[u].yielded
             /\ party[u].pc \in Live => party'[u].pc \in Live \/ party[u].yielded
             /\ party'[u].pc = "acting" => party[u].pc = "acting" \/ IsLocal(u)
             /\ party'[u].pc \in {"none", "arrived"} => party[u].pc \in {"none", "arrived"}
             /\ NotDelivered(u)'
             /\ Succeeds(party'[u]) => registered'[At(u)] # {}
  <2>1. NotDelivered(u)'
    BY Zenon, <1>2, NotDeliveredYet
  <2>2. CASE u = t
    BY Zenon, <1>2, <2>1, <2>2
  <2>3. CASE u # t
    BY Zenon, <1>2, <2>1, <2>3, SuccessKept
  <2> QED BY Zenon, <2>2, <2>3
<1> QED BY Zenon, <1>3, <1>4, SlotsStay

LEMMA SendRequestOK ==
  ASSUME RendezvousInv, NEW a \in Attempt, NEW v \in SnStates, sn' = [sn EXCEPT ![a].st = v],
         UNCHANGED <<slot, expected, party, registered>>
  PROVE  RendezvousInv'
<1>1. sn' \in [Attempt -> Request] /\ \A b \in Attempt : sn'[b].k = sn[b].k
  BY Zenon, SnStatus DEF RendezvousInv, RendezvousTypes
<1>2. RendezvousTypes'
  BY Zenon, <1>1 DEF RendezvousInv, RendezvousTypes
<1>3. \A u \in Token : NotDelivered(u)'
  BY Zenon, <1>1, NotDeliveredYet
<1>4. \A u \in Token : Succeeds(party'[u]) => registered'[At(u)] # {}
  BY Zenon, SuccessKept
<1> QED BY Zenon, <1>2, <1>3, <1>4, SlotsStay

LEMMA ActsOK ==
  ASSUME RendezvousInv, NEW t \in Token, IsLocal(t), party[t].pc = "requesting", Acts(t)
  PROVE  RendezvousInv'
<1>1. party[t] \in Party /\ t[1] \in Attempt /\ sn[t[1]] \in Request /\ party \in [Token -> Party]
  BY Zenon, TokenFacts DEF RendezvousInv, RendezvousTypes
<1>2. PICK q : q = [party[t] EXCEPT !.pc = "acting"]
  BY Zenon
<1>3. /\ q \in Party /\ q.pc = "acting" /\ q.yielded = party[t].yielded
      /\ q.connected = party[t].connected /\ q.result = party[t].result /\ q.won = party[t].won
  BY Zenon, <1>1, <1>2 DEF Party, Pc
<1>4. party' = [party EXCEPT ![t] = q] /\ UNCHANGED <<slot, expected, registered>>
  BY Zenon, <1>1, <1>2 DEF Acts
<1>5. PICK v \in SnStates : sn' = [sn EXCEPT ![t[1]].st = v]
  BY Zenon, <1>1 DEF Acts, SnStates, Request
<1>6. sn' \in [Attempt -> Request] /\ \A b \in Attempt : sn'[b].k = sn[b].k
  BY Zenon, <1>1, <1>5, SnStatus DEF RendezvousInv, RendezvousTypes
<1>7. registered' \in [Peer -> SUBSET Token] /\ \A p \in Peer : registered[p] \subseteq registered'[p]
  BY Zenon, <1>4 DEF RendezvousInv, RendezvousTypes
<1>8. Succeeds(q) => registered'[At(t)] # {}
  BY Zenon, <1>3, <1>7, SuccessKept DEF Succeeds
<1>9. q.pc \in Live /\ q.pc \notin {"none", "arrived"} /\ party[t].pc # "none"
  BY Zenon, <1>3 DEF Live
<1> QED BY Zenon, <1>3, <1>4, <1>6, <1>7, <1>8, <1>9, OneMoves

LEMMA SeesCancelOK ==
  ASSUME RendezvousInv, NEW t \in Token, SeesCancel(t)
  PROVE  RendezvousInv'
<1>1. party[t] \in Party /\ party \in [Token -> Party] /\ sn \in [Attempt -> Request]
  BY Zenon DEF RendezvousInv, RendezvousTypes
<1>2. PICK q : q = [party[t] EXCEPT !.pc = "yielded", !.permit = FALSE]
  BY Zenon
<1>3. /\ q \in Party /\ q.pc = "yielded" /\ q.yielded = party[t].yielded
      /\ q.connected = party[t].connected /\ q.result = party[t].result /\ q.won = party[t].won
  BY Zenon, <1>1, <1>2 DEF Party, Pc
<1>4. /\ party' = [party EXCEPT ![t] = q] /\ UNCHANGED <<slot, expected, registered, sn>>
      /\ party[t].pc # "none" /\ party[t].yielded
  BY Zenon, <1>1, <1>2 DEF SeesCancel
<1>5. registered' \in [Peer -> SUBSET Token] /\ \A p \in Peer : registered[p] \subseteq registered'[p]
  BY Zenon, <1>4 DEF RendezvousInv, RendezvousTypes
<1>6. Succeeds(q) => registered'[At(t)] # {}
  BY Zenon, <1>3, <1>5, SuccessKept DEF Succeeds
<1> QED BY Zenon, <1>1, <1>3, <1>4, <1>5, <1>6, OneMoves

LEMMA ConnectsOK ==
  ASSUME RendezvousInv, NEW t \in Token, Dials(t) \/ TakesIncoming(t)
  PROVE  RendezvousInv'
<1>1. /\ party[t] \in Party /\ party \in [Token -> Party] /\ sn \in [Attempt -> Request]
      /\ registered \in [Peer -> SUBSET Token] /\ At(t) \in Peer
  BY Zenon, TokenFacts DEF RendezvousInv, RendezvousTypes
<1>2. PICK d \in Token, g \in Token \cup {NoToken} :
        /\ party' = [party EXCEPT ![t].connected = TRUE, ![t].got = g]
        /\ registered' = [registered EXCEPT ![At(t)] = @ \cup {d}]
  <2>1. CASE Dials(t)
    <3>1. party' = [party EXCEPT ![t].connected = TRUE, ![t].got = party[t].got]
      BY Zenon, <1>1, <2>1 DEF Dials, Party
    <3>2. party[t].got \in Token \cup {NoToken}
      BY Zenon, <1>1 DEF Party
    <3> QED BY Zenon, <2>1, <3>1, <3>2 DEF Dials
  <2>2. CASE TakesIncoming(t)
    <3>1. party[t].got \in Token
      BY Zenon, <1>1, <2>2 DEF TakesIncoming, Party
    <3> QED BY Zenon, <2>2, <3>1 DEF TakesIncoming
  <2> QED BY Zenon, <2>1, <2>2
<1>3. party[t].pc = "acting" /\ UNCHANGED <<slot, expected, sn>>
  BY Zenon DEF Dials, TakesIncoming
<1>4. PICK q : q = [party[t] EXCEPT !.connected = TRUE, !.got = g]
  BY Zenon
<1>5. q \in Party /\ q.pc = "acting" /\ q.yielded = party[t].yielded
  BY Zenon, <1>1, <1>3, <1>4 DEF Party, Pc
<1>6. party' = [party EXCEPT ![t] = q]
  BY Zenon, <1>1, <1>2, <1>4
<1>7. /\ registered' \in [Peer -> SUBSET Token] /\ registered'[At(t)] # {}
      /\ \A p \in Peer : registered[p] \subseteq registered'[p]
  BY Zenon, <1>1, <1>2
<1>8. "acting" \in Live
  BY Zenon DEF Live
<1> QED BY Zenon, <1>1, <1>3, <1>5, <1>6, <1>7, <1>8, OneMoves

LEMMA FinishingOK ==
  ASSUME RendezvousInv, NEW t \in Token, ActionEnds(t) \/ ActionFails(t)
  PROVE  RendezvousInv'
<1>1. party[t] \in Party /\ party \in [Token -> Party] /\ sn \in [Attempt -> Request]
  BY Zenon DEF RendezvousInv, RendezvousTypes
<1>2. PICK r \in {"ok", "err"} : Finishing(t, r) /\ (r = "ok" => party[t].connected)
  BY Zenon DEF ActionEnds, ActionFails
<1>3. party[t].pc = "acting" /\ UNCHANGED <<slot, expected, registered, sn>>
  BY Zenon, <1>2 DEF ActionEnds, ActionFails, Finishing
<1>4. PICK q : q = [party[t] EXCEPT !.pc = "finishing", !.result = r, !.connected = FALSE,
                                    !.got = NoToken, !.permit = FALSE]
  BY Zenon
<1>5. /\ q \in Party /\ q.pc = "finishing" /\ q.yielded = party[t].yielded
      /\ q.connected = FALSE /\ q.result = r /\ q.won = party[t].won
  BY Zenon, <1>1, <1>4 DEF Party, Pc, Result
<1>6. party' = [party EXCEPT ![t] = q]
  BY Zenon, <1>1, <1>2, <1>4 DEF Finishing
<1>7. registered' \in [Peer -> SUBSET Token] /\ \A p \in Peer : registered[p] \subseteq registered'[p]
  BY Zenon, <1>3 DEF RendezvousInv, RendezvousTypes
<1>8. Succeeds(q) => registered'[At(t)] # {}
  BY Zenon, <1>2, <1>5, <1>7, SuccessKept DEF Succeeds
<1>9. "finishing" \in Live
  BY Zenon DEF Live
<1> QED BY Zenon, <1>1, <1>3, <1>5, <1>6, <1>7, <1>8, <1>9, OneMoves

LEMMA IncomingOK ==
  ASSUME RendezvousInv, NEW t \in Token, Incoming(t)
  PROVE  RendezvousInv'
<1>1. /\ party \in [Token -> Party] /\ sn \in [Attempt -> Request] /\ slot' = slot /\ sn' = sn
      /\ registered \in [Peer -> SUBSET Token] /\ expected \in [Peer -> SUBSET Token]
      /\ slot \in [Peer -> Owner \cup {NoOwner}]
  BY Zenon DEF RendezvousInv, RendezvousTypes, Incoming
<1>2. PICK p, m : /\ p = Other(At(t)) /\ m = {w \in expected[p] : SameAttempt(w, t)}
                  /\ expected' = [expected EXCEPT ![p] = @ \ m]
                  /\ party' = [u \in Token |-> IF u \in m THEN [party[u] EXCEPT !.got = t]
                                                          ELSE party[u]]
                  /\ registered' = IF m = {} /\ IsLocal(t)
                                   THEN [registered EXCEPT ![p] = @ \cup {t}] ELSE registered
  BY Zenon DEF Incoming
<1>3. p \in Peer
  BY Zenon, <1>2, TokenFacts
<1>4. /\ registered' \in [Peer -> SUBSET Token] /\ expected' \in [Peer -> SUBSET Token]
      /\ \A v \in Peer : registered[v] \subseteq registered'[v]
      /\ \A v \in Peer : expected'[v] \subseteq expected[v]
  BY Zenon, <1>1, <1>2, <1>3
<1>5. ASSUME NEW u \in Token
      PROVE  /\ party'[u] \in Party /\ party'[u].pc = party[u].pc
             /\ party'[u].yielded = party[u].yielded /\ party'[u].connected = party[u].connected
             /\ party'[u].result = party[u].result /\ party'[u].won = party[u].won
  BY <1>1, <1>2 DEF Party
<1>6. RendezvousTypes'
  BY Zenon, <1>1, <1>2, <1>4, <1>5 DEF RendezvousTypes
<1>7. \A u \in Token : NotDelivered(u)'
  BY Zenon, <1>1, <1>5, NotDeliveredYet
<1>8. \A u \in Token : Succeeds(party'[u]) => registered'[At(u)] # {}
  BY Zenon, <1>4, <1>5, SuccessKept DEF Succeeds
<1> QED BY Zenon, <1>1, <1>4, <1>5, <1>6, <1>7, <1>8, SlotsStay

LEMMA DeliverOK ==
  ASSUME RendezvousInv, NEW a \in Attempt, Deliver(a)
  PROVE  RendezvousInv'
<1>1. /\ party \in [Token -> Party] /\ sn \in [Attempt -> Request] /\ sn[a].k \in Nat
      /\ UNCHANGED <<slot, expected, registered>>
  BY Zenon DEF RendezvousInv, RendezvousTypes, Deliver, Request
<1>2. PICK k \in Nat : k = sn[a].k
  BY Zenon, <1>1
<1>3. PICK t : t = <<a, k + 1>>
  BY Zenon
<1>4. /\ k < Deliveries[a[1]] /\ party' = [party EXCEPT ![t].pc = "arrived"]
      /\ sn' = [sn EXCEPT ![a] = [st |-> "delivering", k |-> k + 1]]
  BY Zenon, <1>2, <1>3 DEF Deliver
<1>5. t \in Token /\ t[1] = a /\ t[2] = k + 1 /\ ~IsLocal(t)
  BY Zenon, <1>3, <1>4, DeliveredToken
<1>6. party[t].pc = "none"
  <2>1. NotDelivered(t)
    BY Zenon, <1>5 DEF RendezvousInv, TokenOK
  <2>2. t[2] > sn[t[1]].k
    <3>1. k + 1 > k
      OBVIOUS
    <3> QED BY Zenon, <3>1, <1>2, <1>5
  <2> QED BY Zenon, <2>1, <2>2 DEF NotDelivered
<1>7. PICK q : q = [party[t] EXCEPT !.pc = "arrived"]
  BY Zenon
<1>8. /\ q \in Party /\ q.pc = "arrived" /\ q.yielded = party[t].yielded
      /\ q.connected = party[t].connected /\ q.result = party[t].result /\ q.won = party[t].won
  BY Zenon, <1>1, <1>5, <1>7 DEF Party, Pc
<1>9. party' = [party EXCEPT ![t] = q]
  BY Zenon, <1>1, <1>4, <1>5, <1>7
<1>10. party' \in [Token -> Party] /\ party'[t] = q /\ \A u \in Token : u # t => party'[u] = party[u]
  BY Zenon, <1>1, <1>5, <1>8, <1>9
<1>11. PICK r : r = [st |-> "delivering", k |-> k + 1]
  BY Zenon
<1>12. r \in Request /\ r.k = k + 1
  BY <1>11 DEF Request
<1>13. sn' \in [Attempt -> Request] /\ sn'[a] = r /\ \A b \in Attempt : b # a => sn'[b] = sn[b]
  BY Zenon, <1>1, <1>4, <1>11, <1>12
<1>14. RendezvousTypes'
  BY Zenon, <1>1, <1>10, <1>13 DEF RendezvousInv, RendezvousTypes
<1>15. ASSUME NEW u \in Token PROVE NotDelivered(u)'
  <2>1. u[1] \in Attempt /\ u[2] \in Nat /\ NotDelivered(u)
    BY Zenon, TokenFacts DEF RendezvousInv, TokenOK
  <2>2. CASE u = t
    BY <1>5, <1>12, <1>13, <2>2 DEF NotDelivered
  <2>3. CASE u # t
    BY <1>2, <1>10, <1>12, <1>13, <2>1, <2>3 DEF NotDelivered
  <2> QED BY Zenon, <2>2, <2>3
<1>16. \A u \in Token : Succeeds(party'[u]) => registered'[At(u)] # {}
  BY Zenon, <1>1, <1>8, <1>10, SuccessKept DEF Succeeds
<1>17. ASSUME NEW u \in Token
       PROVE  /\ party'[u].yielded = party[u].yielded
              /\ party[u].pc \in Live => party'[u].pc \in Live \/ party[u].yielded
              /\ party'[u].pc = "acting" => party[u].pc = "acting" \/ IsLocal(u)
              /\ party'[u].pc \in {"none", "arrived"} => party[u].pc \in {"none", "arrived"}
  BY Zenon, <1>6, <1>8, <1>10 DEF Live
<1> QED BY Zenon, <1>1, <1>14, <1>15, <1>16, <1>17, SlotsStay

\* What a step at a peer does to the tasks of others: they may hear a result
Hears(x, y) ==
  /\ y \in Party /\ y.pc = x.pc /\ y.yielded = x.yielded /\ y.connected = x.connected
  /\ y.result = x.result

LEMMA NoOwnerFacts == NoOwner.tok = NoToken /\ NoOwner.heirs = {} /\ NoOwner \in Owner \cup {NoOwner}
BY Zenon DEF NoOwner

LEMMA OwnerFacts ==
  ASSUME RendezvousInv, NEW p \in Peer
  PROVE  /\ slot[p].tok # NoToken => slot[p].tok \in Token /\ slot[p] \in Owner
         /\ SlotOK(p) /\ expected[p] \subseteq {slot[p].tok} /\ slot[p].heirs \subseteq Token
<1>1. slot[p] \in Owner \cup {NoOwner} /\ expected[p] \in SUBSET Token /\ SlotOK(p)
  BY Zenon DEF RendezvousInv, RendezvousTypes
<1>2. expected[p] \subseteq {slot[p].tok}
  BY Zenon, <1>1 DEF SlotOK
<1>3. CASE slot[p] \in Owner
  BY Zenon, <1>1, <1>2, <1>3 DEF Owner
<1>4. CASE slot[p] = NoOwner
  BY Zenon, <1>1, <1>2, <1>4, NoOwnerFacts
<1> QED BY Zenon, <1>1, <1>3, <1>4

\* A task ends, and releases the slot if it is its own
LEMMA SlotFreed ==
  ASSUME RendezvousInv, NEW t \in Token, NEW r \in Result, r = "ok" => registered[At(t)] # {},
         party[t].pc # "none", ReleaseSlot(At(t), t), registered' = registered,
         sn' \in [Attempt -> Request], \A a \in Attempt : sn'[a].k = sn[a].k,
         party' \in [Token -> Party], party'[t] = Ended(r),
         \A u \in Token : u # t =>
           /\ party'[u].pc = party[u].pc /\ party'[u].yielded = party[u].yielded
           /\ Succeeds(party'[u]) => registered[At(u)] # {}
  PROVE  RendezvousInv'
<1>1. PICK p \in Peer : p = At(t)
  BY Zenon, TokenFacts
<1>2. /\ slot \in [Peer -> Owner \cup {NoOwner}] /\ expected \in [Peer -> SUBSET Token]
      /\ RendezvousTypes
  BY Zenon DEF RendezvousInv, RendezvousTypes
<1>3. slot' \in [Peer -> Owner \cup {NoOwner}] /\ expected' \in [Peer -> SUBSET Token]
  <2>1. PICK n \in Owner \cup {NoOwner} : n = NoOwner
    BY Zenon, NoOwnerFacts
  <2>2. slot' = [slot EXCEPT ![p] = n] \/ slot' = slot
    BY Zenon, <1>1, <2>1 DEF ReleaseSlot
  <2>3. expected' = [expected EXCEPT ![p] = expected[p] \ {slot[p].tok}] \/ expected' = expected
    BY Zenon, <1>1 DEF ReleaseSlot
  <2> QED BY Zenon, <1>2, <2>2, <2>3
<1>4. RendezvousTypes'
  BY Zenon, <1>2, <1>3 DEF RendezvousTypes
<1>5. ASSUME NEW v \in Peer
      PROVE  \/ slot'[v] = NoOwner /\ slot[v].tok = t /\ expected'[v] = {}
             \/ slot'[v] = slot[v] /\ slot[v].tok # t /\ expected'[v] = expected[v]
  <2>1. expected[v] \subseteq {slot[v].tok} /\ SlotOK(v) /\ t # NoToken
    BY Zenon, OwnerFacts, TokenFacts
  <2>2. CASE v = p /\ slot[p].tok = t
    BY Zenon, <1>1, <1>2, <2>1, <2>2 DEF ReleaseSlot, Owns
  <2>3. CASE v = p /\ slot[p].tok # t
    BY Zenon, <1>1, <2>3 DEF ReleaseSlot, Owns
  <2>4. CASE v # p
    <3>1. slot[v].tok # t
      BY Zenon, <1>1, <2>1, <2>4 DEF SlotOK
    <3>2. slot'[v] = slot[v] /\ expected'[v] = expected[v]
      BY Zenon, <1>1, <1>2, <2>4 DEF ReleaseSlot
    <3> QED BY Zenon, <3>1, <3>2
  <2> QED BY Zenon, <2>2, <2>3, <2>4
<1>6. ASSUME NEW v \in Peer PROVE SlotOK(v)'
  <2>1. CASE slot'[v] = NoOwner /\ expected'[v] = {}
    BY Zenon, <2>1, NoOwnerFacts DEF SlotOK
  <2>2. CASE slot'[v] = slot[v] /\ slot[v].tok # t /\ expected'[v] = expected[v]
    <3>1. SlotOK(v) /\ (slot[v].tok # NoToken => slot[v].tok \in Token)
      BY Zenon, OwnerFacts
    <3> QED BY Zenon, <2>2, <3>1 DEF SlotOK
  <2> QED BY Zenon, <1>5, <2>1, <2>2
<1>7. ASSUME NEW u \in Token PROVE TokenOK(u)'
  <2>1. Ended(r).pc = "done" /\ Ended(r).result = r /\ ~Ended(r).connected /\ Ended(r).won = "none"
    BY Zenon, EndedFacts
  <2>2. At(u) \in Peer /\ TokenOK(u)
    BY Zenon, TokenFacts DEF RendezvousInv
  <2>3. CASE u = t
    <3>1. NotDelivered(u)'
      <4>1. u[1] \in Attempt /\ ~(u[2] > sn[u[1]].k)
        BY Zenon, <2>2, <2>3, TokenFacts DEF TokenOK, NotDelivered
      <4>2. sn'[u[1]].k = sn[u[1]].k
        BY Zenon, <4>1
      <4> QED BY Zenon, <4>1, <4>2 DEF NotDelivered
    <3>2. Succeeds(party'[u]) => registered'[At(u)] # {}
      BY Zenon, <2>1, <2>3 DEF Succeeds
    <3> QED BY Zenon, <2>1, <2>3, <3>1, <3>2 DEF TokenOK
  <2>4. CASE u # t
    <3>1. NotDelivered(u)'
      BY Zenon, <2>4, NotDeliveredYet
    <3>2. ~IsLocal(u) /\ party'[u].pc = "acting" => slot'[At(u)].tok = u
      BY Zenon, <1>5, <2>2, <2>4 DEF TokenOK
    <3> QED BY Zenon, <2>2, <2>4, <3>1, <3>2 DEF TokenOK
  <2> QED BY Zenon, <2>3, <2>4
<1> QED BY Zenon, <1>4, <1>6, <1>7 DEF RendezvousInv

LEMMA AbortedFacts ==
  ASSUME party \in [Token -> Party], NEW o, NEW h, NEW u \in Token
  PROVE  /\ Aborted(party, o, h)[u] \in Party
         /\ u # o.tok => /\ Hears(party[u], Aborted(party, o, h)[u])
                         /\ Aborted(party, o, h)[u].won \in {party[u].won, "err"}
         /\ u = o.tok => IF o.attached /\ party[u].pc = "acting"
                           THEN Aborted(party, o, h)[u] = Ended("none")
                           ELSE /\ Hears(party[u], Aborted(party, o, h)[u])
                                /\ Aborted(party, o, h)[u].won = party[u].won
<1>1. PICK x \in Party : x = party[u]
  BY Zenon
<1>2. PICK y, z : y = [x EXCEPT !.permit = TRUE] /\ z = [x EXCEPT !.won = "err"]
  BY Zenon
<1>3. Hears(x, y) /\ y.won = x.won
  BY Zenon, <1>1, <1>2 DEF Hears, Party
<1>4. Hears(x, z) /\ z.won = "err"
  BY Zenon, <1>1, <1>2 DEF Hears, Party, Result
<1>5. Hears(x, x)
  BY Zenon DEF Hears
<1>6. PICK e : e = Ended("none")
  BY Zenon
<1>7. e \in Party
  BY Zenon, <1>6, EndedFacts DEF Result
<1>8. Aborted(party, o, h)[u] = CASE u = o.tok /\ o.attached /\ x.pc = "acting" -> e
       [] u = o.tok /\ ~(o.attached /\ x.pc = "acting") -> y
       [] u # o.tok /\ u \in h /\ x.pc # "done" -> z
       [] OTHER -> x
  BY Zenon, <1>1, <1>2, <1>6 DEF Aborted
<1>9. CASE u = o.tok /\ o.attached /\ x.pc = "acting"
  <2>1. Aborted(party, o, h)[u] = e
    BY Zenon, <1>8, <1>9
  <2> QED BY Zenon, <1>1, <1>6, <1>7, <1>9, <2>1
<1>10. CASE u = o.tok /\ ~(o.attached /\ x.pc = "acting")
  <2>1. Aborted(party, o, h)[u] = y
    BY Zenon, <1>8, <1>10
  <2> QED BY Zenon, <1>1, <1>3, <1>10, <2>1 DEF Hears
<1>11. CASE u # o.tok
  <2>1. Aborted(party, o, h)[u] \in {x, z}
    BY Zenon, <1>8, <1>11
  <2> QED BY Zenon, <1>1, <1>4, <1>5, <1>11, <2>1 DEF Hears
<1> QED BY Zenon, <1>9, <1>10, <1>11

LEMMA ReturnOK ==
  ASSUME RendezvousInv, NEW t \in Token, NEW r \in Result, r = "ok" => registered[At(t)] # {},
         party[t].pc # "none", Return(t, r)
  PROVE  RendezvousInv'
<1>1. PICK p \in Peer : p = At(t)
  BY Zenon, TokenFacts
<1>2. /\ party \in [Token -> Party] /\ sn \in [Attempt -> Request]
      /\ ReleaseSlot(At(t), t) /\ UNCHANGED <<registered, sn>>
      /\ party' = [AfterCancel(p, t) EXCEPT ![t] = Ended(r)]
  BY Zenon, <1>1 DEF RendezvousInv, RendezvousTypes, Return
<1>3. ASSUME NEW u \in Token
      PROVE  /\ AfterCancel(p, t)[u] \in Party
             /\ u # t => /\ Hears(party[u], AfterCancel(p, t)[u])
                         /\ AfterCancel(p, t)[u].won \in {party[u].won, "err"}
  <2>1. CASE Owns(p, t)
    <3>1. AfterCancel(p, t)[u] = Aborted(party, slot[p], slot[p].heirs)[u] /\ slot[p].tok = t
      BY Zenon, <2>1 DEF AfterCancel, Owns
    <3>2. PICK b, o : o = slot[p] /\ b = Aborted(party, o, o.heirs)
      BY Zenon
    <3>3. /\ b[u] \in Party
          /\ u # o.tok => Hears(party[u], b[u]) /\ b[u].won \in {party[u].won, "err"}
      BY Zenon, <1>2, <3>2, AbortedFacts
    <3> QED BY Zenon, <3>1, <3>2, <3>3
  <2>2. CASE ~Owns(p, t)
    BY Zenon, <1>2, <2>2 DEF AfterCancel, Hears
  <2> QED BY Zenon, <2>1, <2>2
<1>4. AfterCancel(p, t) = [u \in Token |-> AfterCancel(p, t)[u]]
  BY Zenon, <1>2 DEF AfterCancel, Aborted
<1>5. Ended(r) \in Party
  BY Zenon, EndedFacts
<1>6. PICK e : e = Ended(r)
  BY Zenon
<1>7. PICK a \in [Token -> Party] : a = AfterCancel(p, t)
  BY Zenon, <1>3, <1>4
<1>8. party' \in [Token -> Party] /\ party'[t] = e /\ \A u \in Token : u # t => party'[u] = a[u]
  BY Zenon, <1>2, <1>5, <1>6, <1>7
<1>9. ASSUME NEW u \in Token, u # t
      PROVE  /\ party'[u].pc = party[u].pc /\ party'[u].yielded = party[u].yielded
             /\ Succeeds(party'[u]) => registered[At(u)] # {}
  <2>1. Hears(party[u], party'[u]) /\ party'[u].won \in {party[u].won, "err"}
    BY Zenon, <1>3, <1>7, <1>8, <1>9
  <2>2. Succeeds(party'[u]) => Succeeds(party[u])
    BY Zenon, <2>1 DEF Succeeds, Hears
  <2> QED BY Zenon, <2>1, <2>2 DEF Hears, RendezvousInv, TokenOK
<1> QED BY Zenon, <1>2, <1>6, <1>8, <1>9, SlotFreed

LEMMA CompletesOK ==
  ASSUME RendezvousInv, NEW t \in Token, Completes(t)
  PROVE  RendezvousInv'
<1>1. PICK p \in Peer : p = At(t)
  BY Zenon, TokenFacts
<1>2. /\ party \in [Token -> Party] /\ sn \in [Attempt -> Request] /\ party[t].pc = "finishing"
      /\ ReleaseSlot(At(t), t) /\ UNCHANGED <<registered, sn>>
  BY Zenon DEF RendezvousInv, RendezvousTypes, Completes, CompleteOwner
<1>3. PICK s \in Result : s = party[t].result
  BY Zenon, <1>2 DEF Party
<1>4. PICK a : a = AfterComplete(p, t, s)
  BY Zenon
<1>5. ASSUME NEW u \in Token
      PROVE  /\ Hears(party[u], a[u])
             /\ a[u].won = party[u].won \/ (a[u].won = s /\ At(u) = p)
  <2>1. PICK x \in Party : x = party[u]
    BY Zenon, <1>2
  <2>2. PICK y : y = [x EXCEPT !.won = s]
    BY Zenon
  <2>3. Hears(x, y) /\ y.won = s /\ Hears(x, x)
    BY Zenon, <2>2 DEF Hears, Party
  <2>4. \/ a[u] = x
        \/ a[u] = y /\ u \in slot[p].heirs
    BY Zenon, <1>4, <2>1, <2>2 DEF AfterComplete
  <2>5. u \in slot[p].heirs => At(u) = p
    BY Zenon, OwnerFacts DEF SlotOK
  <2> QED BY Zenon, <2>1, <2>3, <2>4, <2>5
<1>6. a = [u \in Token |-> a[u]]
  BY Zenon, <1>4 DEF AfterComplete
<1>7. a \in [Token -> Party]
  BY Zenon, <1>5, <1>6 DEF Hears
<1>8. PICK r \in Result : r = (IF IsLocal(t) THEN s ELSE "none")
  BY Zenon DEF Result
<1>9. party' = [a EXCEPT ![t] = Ended(r)]
  <2>1. a[t].result = s
    BY Zenon, <1>3, <1>5 DEF Hears
  <2> QED BY Zenon, <1>1, <1>3, <1>4, <1>7, <1>8, <2>1 DEF Completes
<1>10. PICK e : e = Ended(r)
  BY Zenon
<1>11. e \in Party
  BY Zenon, <1>10, EndedFacts
<1>12. party' \in [Token -> Party] /\ party'[t] = e /\ \A u \in Token : u # t => party'[u] = a[u]
  BY Zenon, <1>7, <1>9, <1>10, <1>11
<1>13. s = "ok" => registered[p] # {}
  BY Zenon, <1>1, <1>3 DEF RendezvousInv, TokenOK, Succeeds
<1>14. ASSUME NEW u \in Token, u # t
       PROVE  /\ party'[u].pc = party[u].pc /\ party'[u].yielded = party[u].yielded
              /\ Succeeds(party'[u]) => registered[At(u)] # {}
  <2>1. /\ Hears(party[u], party'[u])
        /\ party'[u].won = party[u].won \/ (party'[u].won = s /\ At(u) = p)
    BY Zenon, <1>5, <1>12, <1>14
  <2>2. Succeeds(party[u]) => registered[At(u)] # {}
    BY Zenon DEF RendezvousInv, TokenOK
  <2> QED BY Zenon, <1>13, <2>1, <2>2 DEF Succeeds, Hears
<1>15. r = "ok" => registered[At(t)] # {}
  BY Zenon, <1>1, <1>8, <1>13
<1> QED BY Zenon, <1>2, <1>10, <1>12, <1>14, <1>15, SlotFreed

LEMMA VerdictFacts ==
  ASSUME NEW p, NEW t
  PROVE  /\ Verdict(p, t) = "displaces" => slot[p].tok # NoToken
         /\ Verdict(p, t) = "vacant" => slot[p].tok = NoToken
         /\ Verdict(p, t) = "yields" => IsLocal(t)
BY Zenon DEF Verdict

\* What installing t at p does to task u
InstallKeeps(a, u, p, t) ==
  /\ Succeeds(a[u]) => Succeeds(party[u])
  /\ u # slot[p].tok /\ u # t => a[u].pc = party[u].pc /\ a[u].yielded = party[u].yielded
  /\ u = t /\ Verdict(p, t) # "yields" => a[u].yielded = party[u].yielded
  /\ u = slot[p].tok /\ Verdict(p, t) # "displaces" => a[u] = party[u]
  /\ u = slot[p].tok /\ Verdict(p, t) = "displaces" =>
       /\ a[u].pc \in {party[u].pc, "done"}
       /\ ~IsLocal(u) => a[u].pc # "acting"

\* What install_rendezvous_owner does to the tasks: the displaced one ends or goes on without the slot
LEMMA AfterInstallFacts ==
  ASSUME RendezvousInv, NEW t \in Token, NEW p \in Peer, party[t].pc \in {"none", "arrived"},
         NEW a, a = AfterInstall(p, t), NEW u \in Token
  PROVE  a[u] \in Party /\ InstallKeeps(a, u, p, t)
<1> USE DEF InstallKeeps
<1>1. PICK o : o = slot[p]
  BY Zenon
<1>2. party \in [Token -> Party] /\ slot[p].tok # t /\ SlotOK(p)
      /\ (slot[p].tok # NoToken => slot[p].tok \in Token)
  <2>1. SlotOK(p) /\ (slot[p].tok # NoToken => slot[p].tok \in Token)
    BY Zenon, OwnerFacts
  <2>2. slot[p].tok # t
    BY Zenon, <2>1, TokenFacts DEF SlotOK, Live
  <2> QED BY Zenon, <2>1, <2>2 DEF RendezvousInv, RendezvousTypes
<1>3. ASSUME NEW b, NEW h, b = Aborted(party, o, h)
      PROVE  /\ b[u] \in Party /\ (Succeeds(b[u]) => Succeeds(party[u]))
             /\ u # o.tok => b[u].pc = party[u].pc /\ b[u].yielded = party[u].yielded
             /\ u = o.tok => /\ b[u].pc \in {party[u].pc, "done"}
                             /\ o.attached /\ party[u].pc = "acting" => b[u].pc = "done"
  <2>1. /\ b[u] \in Party
        /\ u # o.tok => Hears(party[u], b[u]) /\ b[u].won \in {party[u].won, "err"}
        /\ u = o.tok => IF o.attached /\ party[u].pc = "acting"
                          THEN b[u] = Ended("none")
                          ELSE Hears(party[u], b[u]) /\ b[u].won = party[u].won
    BY Zenon, <1>2, <1>3, AbortedFacts
  <2>2. "none" \in Result
    BY Zenon DEF Result
  <2>3. /\ Ended("none").pc = "done" /\ ~Ended("none").connected /\ Ended("none").won = "none"
        /\ Ended("none").result = "none"
    BY Zenon, <2>2, EndedFacts
  <2> QED BY Zenon, <2>1, <2>3 DEF Hears, Succeeds
<1>4. ASSUME u = o.tok, Verdict(p, t) = "displaces", ~IsLocal(u), party[u].pc = "acting"
      PROVE  o.attached
  <2>1. slot[p].tok # NoToken
    BY Zenon, <1>4, VerdictFacts
  <2> QED BY Zenon, <1>1, <1>2, <1>4, <2>1 DEF SlotOK
<1>5. CASE Verdict(p, t) = "displaces" /\ HandsOver(o, t)
  <2>1. PICK b : b = Aborted(party, o, {})
    BY Zenon
  <2>2. b = [v \in Token |-> b[v]]
    BY Zenon, <2>1 DEF Aborted
  <2>3. a = [b EXCEPT ![o.tok].yielded = TRUE]
    BY Zenon, <1>1, <1>5, <2>1 DEF AfterInstall
  <2>4. CASE u # o.tok
    <3>1. a[u] = b[u]
      BY Zenon, <2>2, <2>3, <2>4
    <3> QED BY Zenon, <1>1, <1>3, <1>5, <2>1, <2>4, <3>1
  <2>5. CASE u = o.tok
    <3>1. PICK x \in Party : x = b[u]
      BY Zenon, <1>3, <2>1
    <3>2. a[u] = [x EXCEPT !.yielded = TRUE]
      BY Zenon, <2>2, <2>3, <2>5, <3>1
    <3>3. /\ a[u] \in Party /\ a[u].pc = x.pc /\ a[u].connected = x.connected
          /\ a[u].result = x.result /\ a[u].won = x.won
      BY Zenon, <3>2 DEF Party
    <3>4. IsLocal(u) /\ u # t
      BY Zenon, <1>1, <1>2, <1>5, <2>5 DEF HandsOver
    <3> QED BY <1>1, <1>3, <1>5, <2>1, <2>5, <3>1, <3>3, <3>4 DEF Succeeds
  <2> QED BY Zenon, <2>4, <2>5
<1>6. CASE Verdict(p, t) = "displaces" /\ ~HandsOver(o, t)
  <2>1. a = Aborted(party, o, o.heirs)
    BY Zenon, <1>1, <1>6 DEF AfterInstall
  <2>2. /\ a[u] \in Party /\ (Succeeds(a[u]) => Succeeds(party[u]))
        /\ u # o.tok => a[u].pc = party[u].pc /\ a[u].yielded = party[u].yielded
        /\ u = o.tok => /\ a[u].pc \in {party[u].pc, "done"}
                        /\ o.attached /\ party[u].pc = "acting" => a[u].pc = "done"
    BY Zenon, <1>3, <2>1
  <2> QED BY Zenon, <1>1, <1>2, <1>4, <1>6, <2>2
<1>7. CASE Verdict(p, t) = "yields"
  <2>1. a = [party EXCEPT ![t].yielded = TRUE, ![t].permit = TRUE]
    BY Zenon, <1>1, <1>7 DEF AfterInstall
  <2>2. CASE u # t
    <3>1. a[u] = party[u]
      BY Zenon, <1>2, <2>1, <2>2
    <3> QED BY Zenon, <1>2, <1>7, <2>2, <3>1
  <2>3. CASE u = t
    <3>1. PICK x \in Party : x = party[u]
      BY Zenon, <1>2
    <3>2. a[u] = [x EXCEPT !.yielded = TRUE, !.permit = TRUE]
      BY Zenon, <1>2, <2>1, <2>3, <3>1
    <3>3. /\ a[u] \in Party /\ a[u].connected = x.connected
          /\ a[u].result = x.result /\ a[u].won = x.won
      BY Zenon, <3>2 DEF Party
    <3> QED BY Zenon, <1>2, <1>7, <2>3, <3>1, <3>3 DEF Succeeds
  <2> QED BY Zenon, <2>2, <2>3
<1>8. CASE Verdict(p, t) \notin {"displaces", "yields"}
  <2>1. a = party
    BY Zenon, <1>8 DEF AfterInstall
  <2> QED BY Zenon, <1>2, <1>8, <2>1
<1> QED BY Zenon, <1>5, <1>6, <1>7, <1>8

LEMMA AfterInstallParties ==
  ASSUME RendezvousInv, NEW t \in Token, NEW p \in Peer, party[t].pc \in {"none", "arrived"}
  PROVE  AfterInstall(p, t) \in [Token -> Party]
<1>1. PICK a : a = AfterInstall(p, t)
  BY Zenon
<1>2. \A u \in Token : a[u] \in Party
  BY Zenon, <1>1, AfterInstallFacts
<1>3. party = [u \in Token |-> party[u]]
  BY Zenon DEF RendezvousInv, RendezvousTypes
<1>4. \A o, h : Aborted(party, o, h) = [u \in Token |-> Aborted(party, o, h)[u]]
  BY DEF Aborted
<1>5. a = [u \in Token |-> a[u]]
  <2>1. CASE Verdict(p, t) = "displaces" /\ HandsOver(slot[p], t)
    <3>1. PICK b : b = Aborted(party, slot[p], {})
      BY Zenon
    <3>2. b = [u \in Token |-> b[u]]
      BY Zenon, <1>4, <3>1
    <3>3. a = [b EXCEPT ![slot[p].tok].yielded = TRUE]
      BY Zenon, <1>1, <2>1, <3>1 DEF AfterInstall
    <3> QED BY Zenon, <3>2, <3>3
  <2>2. CASE Verdict(p, t) = "displaces" /\ ~HandsOver(slot[p], t)
    <3>1. a = Aborted(party, slot[p], slot[p].heirs)
      BY Zenon, <1>1, <2>2 DEF AfterInstall
    <3> QED BY Zenon, <1>4, <3>1
  <2>3. CASE Verdict(p, t) = "yields"
    <3>1. a = [party EXCEPT ![t].yielded = TRUE, ![t].permit = TRUE]
      BY Zenon, <1>1, <2>3 DEF AfterInstall
    <3> QED BY Zenon, <1>3, <3>1
  <2>4. CASE Verdict(p, t) \notin {"displaces", "yields"}
    <3>1. a = party
      BY Zenon, <1>1, <2>4 DEF AfterInstall
    <3> QED BY Zenon, <1>3, <3>1
  <2> QED BY Zenon, <2>1, <2>2, <2>3, <2>4
<1> QED BY Zenon, <1>1, <1>2, <1>5

\* The slot of p after install_rendezvous_owner
LEMMA InstalledSlot ==
  ASSUME RendezvousInv, NEW t \in Token, NEW p \in Peer, p = At(t), InstallOwner(p, t)
  PROVE  /\ slot' \in [Peer -> Owner \cup {NoOwner}] /\ expected' \in [Peer -> SUBSET Token]
         /\ \A v \in Peer : v # p => slot'[v] = slot[v] /\ expected'[v] = expected[v]
         /\ \A h \in slot'[p].heirs : At(h) = p
         /\ Installs(p, t) => slot'[p].tok = t /\ expected'[p] \subseteq {t}
         /\ ~Installs(p, t) => /\ slot'[p].tok = slot[p].tok /\ slot'[p].attached = slot[p].attached
                               /\ expected'[p] = expected[p]
<1>1. /\ slot \in [Peer -> Owner \cup {NoOwner}] /\ expected \in [Peer -> SUBSET Token]
      /\ expected[p] \subseteq {slot[p].tok} /\ slot[p].heirs \subseteq Token
      /\ \A h \in slot[p].heirs : At(h) = p
  BY Zenon, OwnerFacts DEF RendezvousInv, RendezvousTypes, SlotOK
<1>2. CASE Installs(p, t)
  <2>1. PICK hs : hs = Heirs(p, t)
    BY Zenon
  <2>2. hs \subseteq Token /\ \A h \in hs : At(h) = p
    BY Zenon, <1>1, <2>1 DEF Heirs
  <2>3. PICK o : o = [tok |-> t, attached |-> FALSE, heirs |-> hs]
    BY Zenon
  <2>4. o \in Owner \cup {NoOwner} /\ o.tok = t /\ o.heirs = hs
    BY Zenon, <2>2, <2>3 DEF Owner
  <2>5. PICK w : w = WaitersAfter(p, t)
    BY Zenon
  <2>6. w \subseteq {t}
    BY Zenon, <1>1, <2>5 DEF WaitersAfter
  <2>7. slot' = [slot EXCEPT ![p] = o] /\ expected' = [expected EXCEPT ![p] = w]
    BY Zenon, <1>2, <2>1, <2>3, <2>5 DEF InstallOwner
  <2> QED BY Zenon, <1>1, <1>2, <2>2, <2>4, <2>6, <2>7
<1>3. CASE ~Installs(p, t) /\ Verdict(p, t) = "yields"
  <2>1. slot' = [slot EXCEPT ![p].heirs = @ \cup {t}] /\ expected' = expected
    BY Zenon, <1>3 DEF InstallOwner
  <2>2. slot[p] \in Owner
    BY Zenon, <1>3, OwnerFacts DEF Verdict
  <2>3. PICK hs : hs = slot[p].heirs \cup {t}
    BY Zenon
  <2>4. hs \subseteq Token /\ \A h \in hs : At(h) = p
    BY Zenon, <1>1, <2>3
  <2>5. PICK o : o = [slot[p] EXCEPT !.heirs = hs]
    BY Zenon
  <2>6. /\ o \in Owner \cup {NoOwner} /\ o.tok = slot[p].tok /\ o.attached = slot[p].attached
        /\ o.heirs = hs
    BY Zenon, <2>2, <2>4, <2>5 DEF Owner
  <2>7. slot' = [slot EXCEPT ![p] = o]
    BY Zenon, <2>1, <2>3, <2>5
  <2> QED BY Zenon, <1>1, <1>3, <2>1, <2>4, <2>6, <2>7
<1>4. CASE ~Installs(p, t) /\ Verdict(p, t) # "yields"
  BY Zenon, <1>1, <1>4 DEF InstallOwner
<1> QED BY Zenon, <1>2, <1>3, <1>4

\* A task asks for the slot: it owns it now, or goes on or ends without it
LEMMA InstallOK ==
  ASSUME RendezvousInv, NEW t \in Token, NEW p \in Peer, p = At(t), InstallOwner(p, t),
         party[t].pc \in {"none", "arrived"}, party[t].pc = "none" => IsLocal(t),
         NEW a, a = AfterInstall(p, t), NEW q \in Party, party' = [a EXCEPT ![t] = q],
         Succeeds(q) => Succeeds(a[t]),
         IF Installs(p, t) THEN q.pc \in {"requesting", "installed"} /\ q.yielded = a[t].yielded
                           ELSE q.pc \in {"requesting", "done"},
         registered' = registered, sn' \in [Attempt -> Request],
         \A b \in Attempt : sn'[b].k = sn[b].k
  PROVE  RendezvousInv'
<1>1. /\ slot' \in [Peer -> Owner \cup {NoOwner}] /\ expected' \in [Peer -> SUBSET Token]
      /\ \A v \in Peer : v # p => slot'[v] = slot[v] /\ expected'[v] = expected[v]
      /\ \A h \in slot'[p].heirs : At(h) = p
      /\ Installs(p, t) => slot'[p].tok = t /\ expected'[p] \subseteq {t}
      /\ ~Installs(p, t) => /\ slot'[p].tok = slot[p].tok /\ slot'[p].attached = slot[p].attached
                            /\ expected'[p] = expected[p]
  BY InstalledSlot
<1>2. a \in [Token -> Party]
  BY Zenon, AfterInstallParties
<1>3. party' \in [Token -> Party] /\ party'[t] = q /\ \A u \in Token : u # t => party'[u] = a[u]
  BY Zenon, <1>2
<1>4. RendezvousTypes'
  BY Zenon, <1>1, <1>3 DEF RendezvousInv, RendezvousTypes
<1>5. \A v \in Peer : /\ SlotOK(v) /\ slot[v].tok # t
                      /\ slot[v].tok # NoToken => slot[v].tok \in Token
  <2>1. \A v \in Peer : SlotOK(v) /\ (slot[v].tok # NoToken => slot[v].tok \in Token)
    BY Zenon, OwnerFacts
  <2>2. t # NoToken
    BY Zenon, TokenFacts
  <2> QED BY Zenon, <2>1, <2>2 DEF SlotOK, Live
<1>6. ASSUME NEW u \in Token
      PROVE  /\ (Succeeds(a[u]) => Succeeds(party[u]))
             /\ u # slot[p].tok /\ u # t => a[u].pc = party[u].pc /\ a[u].yielded = party[u].yielded
             /\ u = t /\ Verdict(p, t) # "yields" => a[u].yielded = party[u].yielded
             /\ u = slot[p].tok /\ Verdict(p, t) # "displaces" => a[u] = party[u]
             /\ u = slot[p].tok /\ Verdict(p, t) = "displaces" =>
                  /\ a[u].pc \in {party[u].pc, "done"}
                  /\ ~IsLocal(u) => a[u].pc # "acting"
  <2>1. InstallKeeps(a, u, p, t)
    BY Zenon, AfterInstallFacts
  <2> QED BY Zenon, <2>1 DEF InstallKeeps
<1>7. ASSUME NEW v \in Peer PROVE SlotOK(v)'
  <2>1. CASE v # p
    <3>1. slot'[v] = slot[v] /\ expected'[v] = expected[v] /\ SlotOK(v)
      BY Zenon, <1>1, <1>5, <2>1
    <3>2. ASSUME slot[v].tok # NoToken
          PROVE  /\ slot[v].tok \in Token /\ slot[v].tok # t /\ slot[v].tok # slot[p].tok
      BY Zenon, <1>5, <2>1, <3>2 DEF SlotOK
    <3>3. ASSUME slot[v].tok # NoToken
          PROVE  /\ party'[slot[v].tok].pc = party[slot[v].tok].pc
                 /\ party'[slot[v].tok].yielded = party[slot[v].tok].yielded
      BY Zenon, <1>3, <1>6, <3>2, <3>3
    <3> QED BY Zenon, <3>1, <3>3 DEF SlotOK
  <2>2. CASE v = p /\ Installs(p, t)
    <3>1. ~q.yielded /\ q.pc \in Live /\ q.pc # "acting"
      <4>1. Verdict(p, t) # "yields"
        BY Zenon, <2>2 DEF Installs
      <4>2. ~party[t].yielded
        BY Zenon DEF RendezvousInv, TokenOK
      <4> QED BY Zenon, <1>6, <2>2, <4>1, <4>2 DEF Live
    <3> QED BY Zenon, <1>1, <1>3, <2>2, <3>1 DEF SlotOK
  <2>3. CASE v = p /\ ~Installs(p, t)
    <3>1. Verdict(p, t) # "displaces"
      BY Zenon, <2>3 DEF Installs
    <3>2. slot[p].tok # NoToken => party'[slot[p].tok] = party[slot[p].tok]
      BY Zenon, <1>3, <1>5, <1>6, <3>1
    <3>3. SlotOK(p)
      BY Zenon, <1>5
    <3> QED BY Zenon, <1>1, <2>3, <3>2, <3>3 DEF SlotOK
  <2> QED BY Zenon, <2>1, <2>2, <2>3
<1>8. ASSUME NEW u \in Token PROVE TokenOK(u)'
  <2>1. TokenOK(u) /\ At(u) \in Peer /\ u[1] \in Attempt /\ u[2] \in Nat
    BY Zenon, TokenFacts DEF RendezvousInv
  <2>2. Succeeds(party'[u]) => registered'[At(u)] # {}
    BY Zenon, <1>3, <1>6, <2>1 DEF TokenOK
  <2>3. CASE u = t
    <3>1. NotDelivered(u)'
      <4>1. sn'[u[1]].k = sn[u[1]].k /\ sn[u[1]].k \in Nat
        BY Zenon, <2>1 DEF RendezvousInv, RendezvousTypes, Request
      <4>2. ~(u[2] > sn[u[1]].k)
        <5>1. party[u].pc = "none" => u[2] = 0
          BY Zenon, <2>3 DEF IsLocal
        <5>2. NotDelivered(u)
          BY Zenon, <2>1 DEF TokenOK
        <5>3. ~(0 > sn[u[1]].k)
          BY Zenon, <4>1, NatsAreNotNegative
        <5> QED BY Zenon, <5>1, <5>2, <5>3 DEF NotDelivered
      <4> QED BY Zenon, <4>1, <4>2 DEF NotDelivered
    <3>2. q.pc \notin {"none", "arrived", "acting"}
      BY Zenon
    <3> QED BY Zenon, <1>3, <2>2, <2>3, <3>1, <3>2 DEF TokenOK
  <2>4. CASE u # t /\ u = slot[p].tok
    <3>1. At(u) = p /\ party[u].pc \in Live /\ ~party[u].yielded
      BY Zenon, <1>5, <2>1, <2>4, TokenFacts DEF SlotOK
    <3>2. NotDelivered(u)'
      <4>1. ~(u[2] > sn[u[1]].k) /\ sn'[u[1]].k = sn[u[1]].k
        BY Zenon, <2>1, <3>1 DEF TokenOK, NotDelivered, Live
      <4> QED BY Zenon, <4>1 DEF NotDelivered
    <3>3. CASE Verdict(p, t) = "displaces"
      BY Zenon, <1>3, <1>6, <2>2, <2>4, <3>1, <3>2, <3>3 DEF TokenOK, Live
    <3>4. CASE Verdict(p, t) # "displaces"
      <4>1. ~Installs(p, t)
        BY Zenon, <2>4, <3>4, TokenFacts, VerdictFacts DEF Installs
      <4>2. party'[u] = party[u] /\ slot'[At(u)].tok = u
        BY Zenon, <1>1, <1>3, <1>6, <2>4, <3>1, <3>4, <4>1
      <4> QED BY Zenon, <2>1, <2>2, <3>2, <4>2 DEF TokenOK
    <3> QED BY Zenon, <3>3, <3>4
  <2>5. CASE u # t /\ u # slot[p].tok
    <3>1. party'[u].pc = party[u].pc /\ party'[u].yielded = party[u].yielded
      BY Zenon, <1>3, <1>6, <2>5
    <3>2. NotDelivered(u)'
      BY Zenon, <3>1, NotDeliveredYet
    <3>3. ~IsLocal(u) /\ party'[u].pc = "acting" => slot'[At(u)].tok = u
      BY Zenon, <1>1, <2>1, <2>5, <3>1 DEF TokenOK
    <3> QED BY Zenon, <2>1, <2>2, <3>1, <3>2, <3>3 DEF TokenOK
  <2> QED BY Zenon, <2>3, <2>4, <2>5
<1> QED BY Zenon, <1>4, <1>7, <1>8 DEF RendezvousInv

LEMMA ReplyOK ==
  ASSUME RendezvousInv, NEW t \in Token, NEW s \in SnStates, Reply(t, s)
  PROVE  sn' \in [Attempt -> Request] /\ \A b \in Attempt : sn'[b].k = sn[b].k
<1>1. t[1] \in Attempt /\ sn \in [Attempt -> Request] /\ sn[t[1]].st \in SnStates
  BY Zenon, TokenFacts DEF RendezvousInv, RendezvousTypes, Request, SnStates
<1>2. PICK v \in SnStates : sn' = [sn EXCEPT ![t[1]].st = v]
  <2>1. "over" \in SnStates
    BY Zenon DEF SnStates
  <2> QED BY Zenon, <1>1, <2>1 DEF Reply
<1> QED BY Zenon, <1>1, <1>2, SnStatus

LEMMA OpenOK ==
  ASSUME RendezvousInv, NEW t \in Token, Open(t)
  PROVE  RendezvousInv'
<1>1. PICK p \in Peer : p = At(t)
  BY Zenon, TokenFacts
<1>2. /\ IsLocal(t) /\ party[t].pc = "none" /\ InstallOwner(p, t) /\ UNCHANGED <<sn, registered>>
      /\ sn \in [Attempt -> Request]
  BY Zenon, <1>1 DEF Open, RendezvousInv, RendezvousTypes
<1>3. PICK a : a = AfterInstall(p, t)
  BY Zenon
<1>4. a \in [Token -> Party]
  BY Zenon, <1>2, <1>3, AfterInstallParties
<1>5. PICK q : q = IF Verdict(p, t) \in {"exists", "conflict"} THEN Ended("err")
                   ELSE [a[t] EXCEPT !.pc = "requesting"]
  BY Zenon
<1>6. party' = [a EXCEPT ![t] = q]
  BY Zenon, <1>1, <1>3, <1>4, <1>5 DEF Open
<1>7. CASE Verdict(p, t) \in {"exists", "conflict"}
  <2>1. q \in Party /\ q.pc = "done" /\ ~Succeeds(q)
    BY Zenon, <1>5, <1>7, EndedFacts DEF Succeeds, Result
  <2>2. ~Installs(p, t)
    BY Zenon, <1>7 DEF Installs
  <2> QED BY Zenon, <1>1, <1>2, <1>3, <1>6, <2>1, <2>2, InstallOK
<1>8. CASE Verdict(p, t) \notin {"exists", "conflict"}
  <2>1. PICK x \in Party : x = a[t]
    BY Zenon, <1>4
  <2>2. q = [x EXCEPT !.pc = "requesting"]
    BY Zenon, <1>5, <1>8, <2>1
  <2>3. /\ q \in Party /\ q.pc = "requesting" /\ q.yielded = x.yielded /\ q.connected = x.connected
        /\ q.result = x.result /\ q.won = x.won
    BY Zenon, <2>2 DEF Party, Pc
  <2>4. (Succeeds(q) => Succeeds(a[t])) /\ q.yielded = a[t].yielded
    BY Zenon, <2>1, <2>3 DEF Succeeds
  <2> QED BY Zenon, <1>1, <1>2, <1>3, <1>6, <2>3, <2>4, InstallOK
<1> QED BY Zenon, <1>7, <1>8

LEMMA HandlerInstallsOK ==
  ASSUME RendezvousInv, NEW t \in Token, HandlerInstalls(t)
  PROVE  RendezvousInv'
<1>1. PICK p \in Peer : p = At(t)
  BY Zenon, TokenFacts
<1>2. party[t].pc = "arrived" /\ InstallOwner(p, t) /\ UNCHANGED registered
  BY Zenon, <1>1 DEF HandlerInstalls
<1>3. PICK a : a = AfterInstall(p, t)
  BY Zenon
<1>4. a \in [Token -> Party]
  BY Zenon, <1>2, <1>3, AfterInstallParties
<1>5. PICK q : q = IF Installs(p, t) THEN [a[t] EXCEPT !.pc = "installed"] ELSE Ended("none")
  BY Zenon
<1>6. party' = [a EXCEPT ![t] = q]
  BY Zenon, <1>1, <1>3, <1>4, <1>5 DEF HandlerInstalls
<1>7. sn' \in [Attempt -> Request] /\ \A b \in Attempt : sn'[b].k = sn[b].k
  <2>1. sn' = sn \/ Reply(t, "refused") \/ Reply(t, "over")
    BY Zenon DEF HandlerInstalls
  <2>2. "refused" \in SnStates /\ "over" \in SnStates
    BY Zenon DEF SnStates
  <2> QED BY Zenon, <2>1, <2>2, ReplyOK DEF RendezvousInv, RendezvousTypes
<1>8. CASE ~Installs(p, t)
  <2>1. q \in Party /\ q.pc = "done" /\ ~Succeeds(q)
    BY Zenon, <1>5, <1>8, EndedFacts DEF Succeeds, Result
  <2> QED BY Zenon, <1>1, <1>2, <1>3, <1>6, <1>7, <1>8, <2>1, InstallOK
<1>9. CASE Installs(p, t)
  <2>1. PICK x \in Party : x = a[t]
    BY Zenon, <1>4
  <2>2. q = [x EXCEPT !.pc = "installed"]
    BY Zenon, <1>5, <1>9, <2>1
  <2>3. /\ q \in Party /\ q.pc = "installed" /\ q.yielded = x.yielded /\ q.connected = x.connected
        /\ q.result = x.result /\ q.won = x.won
    BY Zenon, <2>2 DEF Party, Pc
  <2>4. (Succeeds(q) => Succeeds(a[t])) /\ q.yielded = a[t].yielded
    BY Zenon, <2>1, <2>3 DEF Succeeds
  <2> QED BY Zenon, <1>1, <1>2, <1>3, <1>6, <1>7, <1>9, <2>3, <2>4, InstallOK
<1> QED BY Zenon, <1>8, <1>9

LEMMA HandlerAttachesOK ==
  ASSUME RendezvousInv, NEW t \in Token, HandlerAttaches(t)
  PROVE  RendezvousInv'
<1>1. PICK p \in Peer : p = At(t)
  BY Zenon, TokenFacts
<1>2. /\ party[t].pc = "installed" /\ UNCHANGED <<registered, expected>> /\ RendezvousTypes
      /\ party \in [Token -> Party] /\ slot \in [Peer -> Owner \cup {NoOwner}] /\ t # NoToken
  BY Zenon, TokenFacts DEF HandlerAttaches, RendezvousInv, RendezvousTypes
<1>3. sn' \in [Attempt -> Request] /\ \A b \in Attempt : sn'[b].k = sn[b].k
  <2>1. Reply(t, "ok") \/ Reply(t, "over")
    BY Zenon DEF HandlerAttaches
  <2>2. "ok" \in SnStates /\ "over" \in SnStates
    BY Zenon DEF SnStates
  <2> QED BY Zenon, <2>1, <2>2, ReplyOK
<1>4. CASE ~Owns(p, t)
  <2>1. "none" \in Result /\ "none" # "ok"
    BY Zenon DEF Result
  <2>2. PICK e : e = Ended("none")
    BY Zenon
  <2>3. e \in Party
    BY Zenon, <2>1, <2>2, EndedFacts
  <2>4. party' = [party EXCEPT ![t] = e] /\ slot' = slot
    BY Zenon, <1>1, <1>4, <2>2 DEF HandlerAttaches
  <2>5. party' \in [Token -> Party] /\ party'[t] = e /\ \A u \in Token : u # t => party'[u] = party[u]
    BY Zenon, <1>2, <2>3, <2>4
  <2>6. ReleaseSlot(At(t), t)
    BY Zenon, <1>1, <1>2, <1>4, <2>4 DEF ReleaseSlot
  <2>7. \A u \in Token : Succeeds(party[u]) => registered[At(u)] # {}
    BY Zenon DEF RendezvousInv, TokenOK
  <2> QED BY Zenon, <1>2, <1>3, <2>1, <2>2, <2>5, <2>6, <2>7, SlotFreed
<1>5. CASE Owns(p, t)
  <2>1. slot[p].tok = t /\ slot[p] \in Owner /\ SlotOK(p)
    BY Zenon, <1>2, <1>5, OwnerFacts DEF Owns
  <2>2. PICK q, o : q = [party[t] EXCEPT !.pc = "acting"] /\ o = [slot[p] EXCEPT !.attached = TRUE]
    BY Zenon
  <2>3. /\ q \in Party /\ q.pc = "acting" /\ q.yielded = party[t].yielded
        /\ q.connected = party[t].connected /\ q.result = party[t].result /\ q.won = party[t].won
    BY Zenon, <1>2, <2>2 DEF Party, Pc
  <2>4. /\ o \in Owner \cup {NoOwner} /\ o.tok = t /\ o.attached = TRUE /\ o.heirs = slot[p].heirs
    BY Zenon, <2>1, <2>2 DEF Owner
  <2>5. party' = [party EXCEPT ![t] = q] /\ slot' = [slot EXCEPT ![p] = o]
    BY Zenon, <1>1, <1>2, <1>5, <2>2 DEF HandlerAttaches
  <2>6. party' \in [Token -> Party] /\ party'[t] = q /\ \A u \in Token : u # t => party'[u] = party[u]
    BY Zenon, <1>2, <2>3, <2>5
  <2>7. /\ slot' \in [Peer -> Owner \cup {NoOwner}] /\ slot'[p] = o
        /\ \A v \in Peer : v # p => slot'[v] = slot[v]
    BY Zenon, <1>2, <2>4, <2>5
  <2>8. RendezvousTypes'
    BY Zenon, <1>2, <1>3, <2>6, <2>7 DEF RendezvousTypes
  <2>9. ASSUME NEW v \in Peer PROVE SlotOK(v)'
    <3>1. SlotOK(v) /\ (slot[v].tok # NoToken => slot[v].tok \in Token)
      BY Zenon, OwnerFacts
    <3>2. CASE v = p
      BY <1>2, <2>1, <2>3, <2>4, <2>6, <2>7, <3>2 DEF SlotOK, Live
    <3>3. CASE v # p
      <4>1. slot[v].tok # t
        BY Zenon, <1>1, <1>2, <3>1, <3>3 DEF SlotOK
      <4> QED BY Zenon, <1>2, <2>6, <2>7, <3>1, <3>3, <4>1 DEF SlotOK
    <3> QED BY Zenon, <3>2, <3>3
  <2>10. ASSUME NEW u \in Token PROVE TokenOK(u)'
    <3>1. TokenOK(u) /\ At(u) \in Peer
      BY Zenon, TokenFacts DEF RendezvousInv
    <3>2. NotDelivered(u)'
      BY Zenon, <1>2, <1>3, <2>6, NotDeliveredYet
    <3>3. CASE u = t
      BY Zenon, <1>1, <1>2, <2>3, <2>4, <2>6, <2>7, <3>1, <3>2, <3>3 DEF TokenOK, Succeeds
    <3>4. CASE u # t
      BY Zenon, <1>2, <2>1, <2>6, <2>7, <3>1, <3>2, <3>4 DEF TokenOK
    <3> QED BY Zenon, <3>3, <3>4
  <2> QED BY Zenon, <2>8, <2>9, <2>10 DEF RendezvousInv
<1> QED BY Zenon, <1>4, <1>5

LEMMA RendezvousStart ==
  ASSUME RendezvousInit
  PROVE  RendezvousInv
<1>1. /\ NewParty \in Party /\ NewParty.pc = "none" /\ ~NewParty.yielded /\ ~NewParty.connected
      /\ NewParty.result = "none" /\ NewParty.won = "none"
  BY Zenon DEF NewParty, Party, Pc, Result
<1>2. RendezvousTypes
  BY Zenon, <1>1, NoOwnerFacts DEF RendezvousInit, RendezvousTypes, Request
<1>3. \A p \in Peer : slot[p] = NoOwner /\ expected[p] = {}
  BY Zenon DEF RendezvousInit
<1>4. \A p \in Peer : SlotOK(p)
  BY Zenon, <1>3, NoOwnerFacts DEF SlotOK
<1>5. \A t \in Token : party[t] = NewParty
  BY Zenon DEF RendezvousInit
<1>6. \A t \in Token : TokenOK(t)
  BY Zenon, <1>1, <1>5 DEF TokenOK, NotDelivered, Succeeds
<1> QED BY Zenon, <1>2, <1>4, <1>6 DEF RendezvousInv

LEMMA RendezvousStep ==
  ASSUME RendezvousInv, [RendezvousNext]_rendezvousVars
  PROVE  RendezvousInv'
<1>1. ASSUME NEW t \in Token, SendRequest(t)
      PROVE  RendezvousInv'
  <2>1. "sent" \in SnStates /\ t[1] \in Attempt
    BY Zenon, TokenFacts DEF SnStates
  <2> QED BY Zenon, <1>1, <2>1, SendRequestOK DEF SendRequest
<1>2. ASSUME NEW a \in Attempt, SnFails(a)
      PROVE  RendezvousInv'
  <2>1. "over" \in SnStates
    BY Zenon DEF SnStates
  <2> QED BY Zenon, <1>2, <2>1, SendRequestOK DEF SnFails
<1>3. ASSUME NEW t \in Token, ResponseOk(t) \/ ResponseLost(t)
      PROVE  RendezvousInv'
  BY Zenon, <1>3, ActsOK DEF ResponseOk, ResponseLost
<1>4. ASSUME NEW t \in Token, ResponseFailed(t) \/ WinnerEnded(t) \/ OpenDropped(t)
      PROVE  RendezvousInv'
  <2>1. PICK r \in Result : Return(t, r) /\ (r = "ok" => party[t].won = "ok")
    BY Zenon, <1>4 DEF ResponseFailed, WinnerEnded, OpenDropped, Result, RendezvousInv, RendezvousTypes, Party
  <2>2. party[t].pc # "none"
    BY Zenon, <1>4 DEF ResponseFailed, WinnerEnded, OpenDropped
  <2>3. r = "ok" => registered[At(t)] # {}
    BY Zenon, <2>1 DEF RendezvousInv, TokenOK, Succeeds
  <2> QED BY Zenon, <2>1, <2>2, <2>3, ReturnOK
<1>5. CASE UNCHANGED rendezvousVars
  <2>1. RendezvousTypes'
    BY Zenon, <1>5 DEF rendezvousVars, RendezvousInv, RendezvousTypes
  <2>2. \A p \in Peer : SlotOK(p)'
    BY Zenon, <1>5 DEF rendezvousVars, RendezvousInv, SlotOK
  <2>3. \A t \in Token : TokenOK(t)'
    BY Zenon, <1>5 DEF rendezvousVars, RendezvousInv, TokenOK, NotDelivered
  <2> QED BY Zenon, <2>1, <2>2, <2>3 DEF RendezvousInv
<1>6. CASE \E t \in Token :
             \/ Open(t) \/ SendRequest(t)
             \/ ResponseOk(t) \/ ResponseLost(t) \/ ResponseFailed(t)
             \/ SeesCancel(t) \/ WinnerEnded(t) \/ OpenDropped(t)
             \/ Dials(t) \/ Incoming(t) \/ TakesIncoming(t)
             \/ ActionEnds(t) \/ ActionFails(t) \/ Completes(t)
             \/ HandlerInstalls(t) \/ HandlerAttaches(t)
  BY Zenon, <1>1, <1>3, <1>4, <1>6, OpenOK, SeesCancelOK, ConnectsOK, IncomingOK, FinishingOK,
     CompletesOK, HandlerInstallsOK, HandlerAttachesOK
<1>7. CASE \E a \in Attempt : Deliver(a) \/ SnFails(a)
  BY Zenon, <1>2, <1>7, DeliverOK
<1> QED BY Zenon, <1>5, <1>6, <1>7 DEF RendezvousNext

\* However the attempts of the two peers collide, are displaced, time out or are dropped, and for any
\* number of attempts and repeated notifies: the owner in rendezvous_attempts is a task that will still
\* complete or cancel it, and a target's action runs only while it is that owner.
THEOREM AttemptsAreOwned == RendezvousSpec => []AttemptOwned
<1>1. RendezvousInit => RendezvousInv
  BY Zenon, RendezvousStart
<1>2. RendezvousInv /\ [RendezvousNext]_rendezvousVars => RendezvousInv'
  BY Zenon, RendezvousStep
<1>3. RendezvousInv => AttemptOwned
  BY Zenon DEF RendezvousInv, SlotOK, TokenOK, AttemptOwned
<1> QED BY <1>1, <1>2, <1>3, PTL DEF RendezvousSpec

\* An open of open_rendezvous_tunnel that returns a tunnel, its own or the one of the attempt it yielded
\* to, leaves a tunnel in the table of its peer.
THEOREM SuccessIsRegistered == RendezvousSpec => []SuccessMeansRegistered
<1>1. RendezvousInit => RendezvousInv
  BY Zenon, RendezvousStart
<1>2. RendezvousInv /\ [RendezvousNext]_rendezvousVars => RendezvousInv'
  BY Zenon, RendezvousStep
<1>3. RendezvousInv => SuccessMeansRegistered
  BY Zenon DEF RendezvousInv, TokenOK, Succeeds, SuccessMeansRegistered
<1> QED BY <1>1, <1>2, <1>3, PTL DEF RendezvousSpec
=============================================================================
