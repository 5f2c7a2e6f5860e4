------------------------------ MODULE Rendezvous ------------------------------
(* Tunnel rendezvous of two peers through an SN (tunnel_manager.rs).           *)
(*                                                                             *)
(* open_rendezvous_tunnel asks an SN to notify the other peer, then dials or   *)
(* waits for the dial; on_sn_rendezvous is the notified side. Each peer has    *)
(* one slot per remote, rendezvous_attempts[remote], holding the owner of the  *)
(* attempt in progress; when both peers start at once the order of their ids   *)
(* decides who keeps it, and the loser yields: it waits for the winner.        *)
(*                                                                             *)
(* A token <<attempt, k>> is the Arc<()> of one installation and names its     *)
(* task: k = 0 is the initiator's open, k > 0 the target's handler and action  *)
(* of the k-th delivery of the notify. A tunnel is named by the task that      *)
(* dialled it. The SN is external: it delivers a notify once or, when a        *)
(* command stream breaks, again; it answers, fails or is never heard of.       *)
EXTENDS Naturals, FiniteSets

CONSTANTS
  Small, Large,      \* the two peers: Small's id is the smaller one
  Opens,             \* how many attempts each peer starts
  Deliveries         \* how often the SN may deliver one notify of each peer

ASSUME PeersAssumption == Small # Large
ASSUME BoundsAssumption ==
  Opens \in [{Small, Large} -> Nat] /\ Deliveries \in [{Small, Large} -> Nat]

Peer == {Small, Large}
Other(p) == IF p = Small THEN Large ELSE Small

Attempt == UNION {{p} \X (1..Opens[p]) : p \in Peer}
Token == UNION {{a} \X (0..Deliveries[a[1]]) : a \in Attempt}
NoToken == <<>>

IsLocal(t) == t[2] = 0
At(t) == IF IsLocal(t) THEN t[1][1] ELSE Other(t[1][1])
SameAttempt(t, u) == t[1] = u[1]

VARIABLES
  connector,   \* attempt -> who dials by its NatConnectPlan
  slot,        \* peer -> rendezvous_attempts[remote]
  expected,    \* peer -> tokens with an entry in pending_reverse_waiters
  party,       \* token -> the open or handler that owns the token
  sn,          \* attempt -> the request at the SN
  arriving,    \* tunnels dialled and not yet seen by on_incoming_tunnel
  registered,  \* peer -> tunnels put into the table
  closed       \* tunnels on_incoming_tunnel closed

rendezvousVars == <<connector, slot, expected, party, sn, arriving, registered, closed>>

-----------------------------------------------------------------------------
(* Types *)

Result == {"none", "ok", "err"}

\* RendezvousAttemptOwner; heirs are the opens whose winner_completions it has
NoOwner == [tok |-> NoToken, attached |-> FALSE, heirs |-> {}]
Owner == [tok : Token, attached : BOOLEAN, heirs : SUBSET Token]

Pc == {"none", "requesting", "yielded", "arrived", "installed", "acting",
       "finishing", "done"}

\* permit: a stored AsyncNotify permit of cancel; got: what the incoming waiter
\* was notified with; connected: the action has registered a tunnel; won: the
\* completion received from the winner
Party == [pc : Pc, permit : BOOLEAN, yielded : BOOLEAN, got : Token \cup {NoToken},
         connected : BOOLEAN, won : Result, result : Result]

NewParty == [pc |-> "none", permit |-> FALSE, yielded |-> FALSE, got |-> NoToken,
            connected |-> FALSE, won |-> "none", result |-> "none"]

\* a task that has ended
Ended(result) == [NewParty EXCEPT !.pc = "done", !.result = result]

\* a request at the SN; "refused": the other peer answered Conflict, "over": it
\* failed otherwise or its answer has been read
Request == [st : {"idle", "sent", "delivering", "ok", "refused", "over"}, k : Nat]

\* what the installation expects: the initiator waits for a reverse tunnel when
\* the target dials, the target for an active one when the initiator dials
Waits(t) == connector[t[1]] = IF IsLocal(t) THEN "target" ELSE "caller"

RendezvousTypeOK ==
  /\ connector \in [Attempt -> {"caller", "target"}]
  /\ slot \in [Peer -> Owner \cup {NoOwner}]
  /\ expected \in [Peer -> SUBSET Token]
  /\ party \in [Token -> Party]
  /\ sn \in [Attempt -> Request]
  /\ arriving \subseteq Token
  /\ registered \in [Peer -> SUBSET Token]
  /\ closed \subseteq Token

RendezvousInit ==
  /\ connector \in [Attempt -> {"caller", "target"}]
  /\ slot = [p \in Peer |-> NoOwner]
  /\ expected = [p \in Peer |-> {}]
  /\ party = [t \in Token |-> NewParty]
  /\ sn = [a \in Attempt |-> [st |-> "idle", k |-> 0]]
  /\ arriving = {}
  /\ registered = [p \in Peer |-> {}]
  /\ closed = {}

-----------------------------------------------------------------------------
(* The owner slot *)

\* local_initiator_wins
LocalInitiatorWins(p) == p = Small

\* what install_rendezvous_owner does with a new owner t of p's slot
Verdict(p, t) ==
  LET held == slot[p].tok
      wins == IsLocal(t) = LocalInitiatorWins(p)
  IN CASE held = NoToken                                  -> "vacant"
       [] held # NoToken /\ SameAttempt(held, t)          -> "exists"
       [] held # NoToken /\ ~SameAttempt(held, t) /\ wins -> "displaces"
       [] held # NoToken /\ ~SameAttempt(held, t) /\ ~wins
            /\ IsLocal(t) /\ ~IsLocal(held)               -> "yields"
       [] OTHER                                           -> "conflict"

Installs(p, t) == Verdict(p, t) \in {"vacant", "displaces"}

\* a local attempt displaced by a remote one hands its completion over
HandsOver(o, t) == o.tok # NoToken /\ IsLocal(o.tok) /\ ~IsLocal(t)

\* abort_rendezvous_owner: the cancel permit, abort() of an attached task, and
\* UserCanceled for the opens that waited for it
Aborted(tk, o, heirs) ==
  [t \in Token |->
     CASE t = o.tok /\ o.attached /\ tk[t].pc = "acting" -> Ended("none")
       [] t = o.tok /\ ~(o.attached /\ tk[t].pc = "acting") -> [tk[t] EXCEPT !.permit = TRUE]
       [] t # o.tok /\ t \in heirs /\ tk[t].pc # "done" -> [tk[t] EXCEPT !.won = "err"]
       [] OTHER -> tk[t]]

\* publish_rendezvous_waiter, after the waiter of a displaced owner is removed
WaitersAfter(p, t) ==
  LET rest == expected[p] \ {slot[p].tok}
  IN IF Waits(t) THEN {w \in rest : ~SameAttempt(w, t)} \cup {t} ELSE rest

\* winner_completions of a new owner
Heirs(p, t) ==
  (IF IsLocal(t) THEN {t} ELSE {}) \cup (IF HandsOver(slot[p], t) THEN slot[p].heirs ELSE {})

\* install_rendezvous_owner: the slot and the waiters
InstallOwner(p, t) ==
  IF Installs(p, t)
  THEN /\ slot' = [slot EXCEPT ![p] =
                     [tok |-> t, attached |-> FALSE, heirs |-> Heirs(p, t)]]
       /\ expected' = [expected EXCEPT ![p] = WaitersAfter(p, t)]
  ELSE /\ slot' = IF Verdict(p, t) = "yields" THEN [slot EXCEPT ![p].heirs = @ \cup {t}] ELSE slot
       /\ UNCHANGED expected

\* install_rendezvous_owner: the tasks, the displaced owner's among them
AfterInstall(p, t) ==
  LET o == slot[p]
  IN CASE Verdict(p, t) = "displaces" /\ HandsOver(o, t) ->
            [Aborted(party, o, {}) EXCEPT ![o.tok].yielded = TRUE]
       [] Verdict(p, t) = "displaces" /\ ~HandsOver(o, t) -> Aborted(party, o, o.heirs)
       [] Verdict(p, t) = "yields" ->
            [party EXCEPT ![t].yielded = TRUE, ![t].permit = TRUE]
       [] OTHER -> party

\* Mutant: seq and tunnel_id are compared, the token is not
OwnsByAttempt(p, t) == slot[p].tok # NoToken /\ SameAttempt(slot[p].tok, t)

\* the owner of the slot has this token
Owns(p, t) == slot[p].tok = t

ReleaseSlot(p, t) ==
  IF Owns(p, t)
  THEN /\ slot' = [slot EXCEPT ![p] = NoOwner]
       /\ expected' = [expected EXCEPT ![p] = @ \ {slot[p].tok}]
  ELSE UNCHANGED <<slot, expected>>

\* complete_rendezvous_owner: the slot, and the opens that hear the result
CompleteOwner(p, t) == ReleaseSlot(p, t)

AfterComplete(p, t, result) ==
  [u \in Token |->
     IF Owns(p, t) /\ u \in slot[p].heirs /\ party[u].pc # "done"
     THEN [party[u] EXCEPT !.won = result] ELSE party[u]]

\* cancel_rendezvous_owner
AfterCancel(p, t) == IF Owns(p, t) THEN Aborted(party, slot[p], slot[p].heirs) ELSE party

-----------------------------------------------------------------------------
(* open_rendezvous_tunnel *)

Usable(p) == registered[p] \ closed

\* the lock "network-tunnel-<remote>" is held by one open at a time
Idle(p) == \A t \in Token : IsLocal(t) /\ At(t) = p => party[t].pc \in {"none", "done"}

\* a tunnel is looked for, then the owner is installed; an error returns
Open(t) ==
  /\ IsLocal(t) /\ party[t].pc = "none"
  /\ Idle(At(t)) /\ Usable(At(t)) = {}
  /\ \A n \in 1..(t[1][2] - 1) : party[<<<<t[1][1], n>>, 0>>].pc = "done"
  /\ InstallOwner(At(t), t)
  /\ party' = [AfterInstall(At(t), t) EXCEPT
                ![t] = IF Verdict(At(t), t) \in {"exists", "conflict"}
                       THEN Ended("err") ELSE [@ EXCEPT !.pc = "requesting"]]
  /\ UNCHANGED <<connector, sn, arriving, registered, closed>>

\* rendezvous_via_sn writes the request when it is first polled; a yielded open
\* may have polled it before it sees its cancel permit
SendRequest(t) ==
  /\ IsLocal(t) /\ party[t].pc = "requesting" /\ sn[t[1]].st = "idle"
  /\ sn' = [sn EXCEPT ![t[1]].st = "sent"]
  /\ UNCHANGED <<connector, slot, expected, party, arriving, registered, closed>>

Acts(t) ==
  /\ party' = [party EXCEPT ![t].pc = "acting"]
  /\ sn' = [sn EXCEPT ![t[1]].st = IF @ = "ok" THEN "over" ELSE @]
  /\ UNCHANGED <<connector, slot, expected, arriving, registered, closed>>

\* the open returns without completing its owner: RendezvousOwnerRegistration
\* is dropped and cancels it
Return(t, result) ==
  /\ ReleaseSlot(At(t), t)
  /\ party' = [AfterCancel(At(t), t) EXCEPT ![t] = Ended(result)]
  /\ UNCHANGED <<connector, sn, arriving, registered, closed>>

ResponseOk(t) ==
  /\ IsLocal(t) /\ party[t].pc = "requesting" /\ sn[t[1]].st = "ok"
  /\ Acts(t)

\* is_ambiguous_rendezvous_failure: the notify may have arrived, so the action
\* is tried all the same
ResponseLost(t) ==
  /\ IsLocal(t) /\ party[t].pc = "requesting"
  /\ Acts(t)

\* the SN says no, or is not an active one
ResponseFailed(t) ==
  /\ IsLocal(t) /\ party[t].pc = "requesting" /\ sn[t[1]].st \in {"idle", "refused", "over"}
  /\ Return(t, "err")

\* the select arm of cancel.notified(); only a displaced open is cancelled, as
\* its own guard is the other one to do it, so it has yielded
SeesCancel(t) ==
  /\ IsLocal(t) /\ party[t].pc \in {"requesting", "acting"} /\ party[t].permit
  /\ party[t].yielded
  /\ party' = [party EXCEPT ![t].pc = "yielded", ![t].permit = FALSE]
  /\ UNCHANGED <<connector, slot, expected, sn, arriving, registered, closed>>

WinnerEnded(t) ==
  /\ party[t].pc = "yielded" /\ party[t].won # "none"
  /\ Return(t, party[t].won)

\* the caller's future is dropped: open_nat_aware_tunnel's deadline
OpenDropped(t) ==
  /\ IsLocal(t) /\ party[t].pc \in {"requesting", "acting", "yielded"}
  /\ Return(t, "none")

-----------------------------------------------------------------------------
(* The action, at either end: dial, or wait for the other end's dial *)

\* open_direct_path registers and publishes the tunnel it returns
Dials(t) ==
  /\ party[t].pc = "acting" /\ ~Waits(t) /\ ~party[t].connected
  /\ party' = [party EXCEPT ![t].connected = TRUE]
  /\ registered' = [registered EXCEPT ![At(t)] = @ \cup {t}]
  /\ arriving' = arriving \cup {t}
  /\ UNCHANGED <<connector, slot, expected, sn, closed>>

\* on_incoming_tunnel at the other end
Incoming(t) ==
  LET q == Other(At(t))
      matching == {w \in expected[q] : SameAttempt(w, t)}
  IN /\ t \in arriving
     /\ arriving' = arriving \ {t}
     /\ expected' = [expected EXCEPT ![q] = @ \ matching]
     /\ party' = [u \in Token |-> IF u \in matching THEN [party[u] EXCEPT !.got = t] ELSE party[u]]
     /\ closed' = IF matching = {} /\ ~IsLocal(t) THEN closed \cup {t} ELSE closed
     /\ registered' = IF matching = {} /\ IsLocal(t)
                      THEN [registered EXCEPT ![q] = @ \cup {t}] ELSE registered
     /\ UNCHANGED <<connector, slot, sn>>

\* Mutant: the tunnel is returned and not registered
TakesUnregistered(t) ==
  /\ party[t].pc = "acting" /\ Waits(t) /\ party[t].got # NoToken
  /\ party' = [party EXCEPT ![t].connected = TRUE, ![t].got = NoToken]
  /\ UNCHANGED <<connector, slot, expected, sn, arriving, registered, closed>>

\* wait_planned_incoming, punch_and_wait_incoming, finish_planned_incoming
TakesIncoming(t) ==
  /\ party[t].pc = "acting" /\ Waits(t) /\ party[t].got # NoToken
  /\ party' = [party EXCEPT ![t].connected = TRUE, ![t].got = NoToken]
  /\ registered' = [registered EXCEPT ![At(t)] = @ \cup {party[t].got}]
  /\ UNCHANGED <<connector, slot, expected, sn, arriving, closed>>

Finishing(t, result) ==
  /\ party' = [party EXCEPT ![t].pc = "finishing", ![t].result = result, ![t].connected = FALSE,
                          ![t].got = NoToken, ![t].permit = FALSE]
  /\ UNCHANGED <<connector, slot, expected, sn, arriving, registered, closed>>

ActionEnds(t) == party[t].pc = "acting" /\ party[t].connected /\ Finishing(t, "ok")

\* every dial has failed, or the local timeout has run out
ActionFails(t) == party[t].pc = "acting" /\ Finishing(t, "err")

\* complete_rendezvous_owner, after the select has its result
Completes(t) ==
  /\ party[t].pc = "finishing"
  /\ CompleteOwner(At(t), t)
  /\ party' = [AfterComplete(At(t), t, party[t].result) EXCEPT
                ![t] = Ended(IF IsLocal(t) THEN @.result ELSE "none")]
  /\ UNCHANGED <<connector, sn, arriving, registered, closed>>

-----------------------------------------------------------------------------
(* on_sn_rendezvous, and the SN between the peers *)

Deliver(a) ==
  /\ sn[a].st \in {"sent", "delivering"} /\ sn[a].k < Deliveries[a[1]]
  /\ sn' = [sn EXCEPT ![a] = [st |-> "delivering", k |-> @.k + 1]]
  /\ party' = [party EXCEPT ![<<a, sn[a].k + 1>>].pc = "arrived"]
  /\ UNCHANGED <<connector, slot, expected, arriving, registered, closed>>

\* the answer to the latest delivery goes back to an initiator that waits
Reply(t, st) ==
  sn' = [sn EXCEPT ![t[1]].st =
           CASE @ # "delivering" \/ sn[t[1]].k # t[2] -> @
             [] party[<<t[1], 0>>].pc # "requesting" -> "over"
             [] OTHER -> st]

HandlerInstalls(t) ==
  /\ party[t].pc = "arrived"
  /\ InstallOwner(At(t), t)
  /\ party' = [AfterInstall(At(t), t) EXCEPT
                ![t] = IF Installs(At(t), t) THEN [@ EXCEPT !.pc = "installed"] ELSE Ended("none")]
  /\ CASE Verdict(At(t), t) = "conflict" -> Reply(t, "refused")
       [] Verdict(At(t), t) = "exists" -> Reply(t, "over")
       [] OTHER -> UNCHANGED sn
  /\ UNCHANGED <<connector, arriving, registered, closed>>

\* attach_rendezvous_task: the spawned action starts if the slot is still its own
HandlerAttaches(t) ==
  /\ party[t].pc = "installed"
  /\ slot' = IF Owns(At(t), t) THEN [slot EXCEPT ![At(t)].attached = TRUE] ELSE slot
  /\ party' = [party EXCEPT ![t] = IF Owns(At(t), t) THEN [@ EXCEPT !.pc = "acting"] ELSE Ended("none")]
  /\ Reply(t, IF Owns(At(t), t) THEN "ok" ELSE "over")
  /\ UNCHANGED <<connector, expected, arriving, registered, closed>>

SnFails(a) ==
  /\ sn[a].st \in {"sent", "delivering"}
  /\ sn' = [sn EXCEPT ![a].st = "over"]
  /\ UNCHANGED <<connector, slot, expected, party, arriving, registered, closed>>

RendezvousNext ==
  \/ \E t \in Token :
       \/ Open(t) \/ SendRequest(t)
       \/ ResponseOk(t) \/ ResponseLost(t) \/ ResponseFailed(t)
       \/ SeesCancel(t) \/ WinnerEnded(t) \/ OpenDropped(t)
       \/ Dials(t) \/ Incoming(t) \/ TakesIncoming(t)
       \/ ActionEnds(t) \/ ActionFails(t) \/ Completes(t)
       \/ HandlerInstalls(t) \/ HandlerAttaches(t)
  \/ \E a \in Attempt : Deliver(a) \/ SnFails(a)

RendezvousSpec == RendezvousInit /\ [][RendezvousNext]_rendezvousVars

-----------------------------------------------------------------------------
(* Properties *)

Live == {"requesting", "installed", "acting", "finishing"}

\* The owner in a peer's slot is a task that will still complete or cancel it:
\* no order of collision, displacement, late completion, timeout and dropped
\* open leaves an owner nobody removes, which would refuse later attempts; a
\* waiter for an incoming tunnel belongs to that owner, so that an attempt that
\* is gone leaves none behind to swallow a tunnel; and a target's action runs
\* only while its owner is in the slot, which is what lets a collision, a cancel
\* or a newer attempt stop it
AttemptOwned ==
  /\ \A p \in Peer :
       /\ slot[p].tok # NoToken =>
            At(slot[p].tok) = p /\ party[slot[p].tok].pc \in Live
       /\ \A w \in expected[p] : slot[p].tok = w
  /\ \A t \in Token : ~IsLocal(t) /\ party[t].pc = "acting" => slot[At(t)].tok = t

\* An open that reports success, its own or the winner's it yielded to, leaves
\* a tunnel in its peer's table
SuccessMeansRegistered ==
  \A t \in Token : IsLocal(t) /\ party[t].pc = "done" /\ party[t].result = "ok" =>
    registered[At(t)] # {}

\* The acceptance report: collision losers wait for the winner before fallback.
\* An open whose notify was refused because the other peer's own attempt holds
\* the slot does not end with an error while that attempt is in progress
LoserWaits ==
  \A t \in Token :
    /\ IsLocal(t) /\ sn[t[1]].st = "refused"
    /\ party[t].pc = "done" /\ party[t].result = "err"
    => ~ \E u \in Token : IsLocal(u) /\ slot[Other(At(t))].tok = u
=============================================================================
