----------------------------- MODULE SnRegistration -----------------------------
(* A client's registration at its SN: the client's ping loop                     *)
(* (sn/client/sn_service.rs), the SN's report and control handlers and its       *)
(* maintenance loop (sn/service/service.rs), and the NAT probe scheduler they    *)
(* share (sn/service/nat_probe_scheduler.rs).                                    *)
(*                                                                               *)
(* The client reports on a command stream; the SN registers the observed path of *)
(* the stream and may answer with a directive to probe the NAT, whose result the *)
(* client sends in a second report. Handlers await the connection list between   *)
(* their steps, so handlers, the maintenance loop, configuration changes and the *)
(* end of streams interleave; a handler outlives a client that gave up on it.    *)
(*                                                                               *)
(* Time is abstract: a directive may have expired whenever that is looked at,    *)
(* and a report may always be due. The measured profiles are left out: who is    *)
(* registered, on which path, and which probe is in flight does not depend on    *)
(* them.                                                                         *)
EXTENDS Naturals, FiniteSets

CONSTANTS
  Streams,       \* command streams, numbered from 1 in the order they are opened
  Paths,         \* observed UDP endpoints of the client
  OpensOn,       \* stream -> the paths it may be opened on
  Handlers,      \* SN handlers that run at the same time, numbered from 1
  MaxFaults,     \* bound: streams that end, requests that fail, addresses that change
  MaxMisses,     \* bound: streams that cannot be acquired
  MaxExtras      \* bound: changes of the probe ports, and queries beside the ping loop

ASSUME SnAssumption ==
  /\ Streams \subseteq Nat \ {0} /\ IsFiniteSet(Streams)
  /\ Handlers \subseteq Nat \ {0} /\ IsFiniteSet(Handlers)
  /\ OpensOn \in [Streams -> SUBSET Paths] /\ {"new", "dead", "none"} \cap Paths = {}
  /\ MaxFaults \in Nat /\ MaxMisses \in Nat /\ MaxExtras \in Nat

VARIABLES
  stream,     \* stream -> "new", "dead" or the path it is observed on
  reg,        \* the scheduler's PeerProbeState of the client
  sn,         \* the rest of the scheduler: configuration and counters
  peer,       \* whether the SN's peer cache holds the client
  handler,    \* handler -> its place
  keeper,     \* maintain_nat_probe_state: its place
  gone,       \* on_peer_disconnected is due
  client,     \* the ping loop
  used        \* what has been used of the bounds

vars == <<stream, reg, sn, peer, handler, keeper, gone, client, used>>

NoPath == "none"

\* PeerProbeState; gen 0: no registration, req 0: no probe in flight
Registration == [tunnel : Streams \cup {0}, path : Paths \cup {NoPath}, gen : Nat, req : Nat,
                 trigger : BOOLEAN]
NoReg == [tunnel |-> 0, path |-> NoPath, gen |-> 0, req |-> 0, trigger |-> FALSE]

\* what identifies a NatProbeDirective, and the NatProbeResult for it
Directive == [gen : Nat, cfg : Nat, req : Nat]
NoDirective == [gen |-> 0, cfg |-> 0, req |-> 0]

\* a reconciliation: the registration it looked at and whether its path has a stream
Snapshot == [tunnel : Streams \cup {0}, path : Paths \cup {NoPath}, gen : Nat, present : BOOLEAN]
NoSnapshot == [tunnel |-> 0, path |-> NoPath, gen |-> 0, present |-> TRUE]

\* a report or control handler; directive is the one in its answer
Handler == [pc : {"idle", "start", "known", "snap", "scan", "observe", "done"},
            kind : {"report", "control"}, stream : Streams \cup {0}, seen : Paths \cup {NoPath},
            look : Snapshot, result : Directive, directive : Directive]
NoHandler == [pc |-> "idle", kind |-> "report", stream |-> 0, seen |-> NoPath, look |-> NoSnapshot,
              result |-> NoDirective, directive |-> NoDirective]

\* the ping loop: whether the SN is in active_sn_list, the directive last carried out, the one
\* in hand, the handler whose answer it awaits, and report_stream_failures
Client == [pc : {"turn", "wait", "directive", "result", "waitresult"}, active : BOOLEAN,
           gen : Nat, req : Nat, result : Directive, handler : Handlers \cup {0}, failures : 0..1]

TypeOK ==
  /\ stream \in [Streams -> Paths \cup {"new", "dead"}]
  /\ reg \in Registration
  /\ sn \in [ports : BOOLEAN, cfg : Nat, nextGen : Nat, nextReq : Nat]
  /\ peer \in BOOLEAN
  /\ handler \in [Handlers -> Handler]
  /\ keeper \in [pc : {"idle", "snap", "scan", "expire"}, look : Snapshot]
  /\ gone \in BOOLEAN
  /\ client \in Client
  /\ used \in [faults : 0..MaxFaults, misses : 0..MaxMisses, extras : 0..MaxExtras]

Init ==
  /\ stream = [s \in Streams |-> "new"]
  /\ reg = NoReg
  /\ sn = [ports |-> TRUE, cfg |-> 1, nextGen |-> 1, nextReq |-> 1]
  /\ peer = FALSE
  /\ handler = [h \in Handlers |-> NoHandler]
  /\ keeper = [pc |-> "idle", look |-> NoSnapshot]
  /\ gone = FALSE
  /\ client = [pc |-> "turn", active |-> FALSE, gen |-> 0, req |-> 0, result |-> NoDirective,
               handler |-> 0, failures |-> 0]
  /\ used = [faults |-> 0, misses |-> 0, extras |-> 0]

Alive(s) == stream[s] \in Paths
Live == {s \in Streams : Alive(s)}
Fault == used.faults < MaxFaults /\ used' = [used EXCEPT !.faults = @ + 1]
Miss == used.misses < MaxMisses /\ used' = [used EXCEPT !.misses = @ + 1]
Extra == used.extras < MaxExtras /\ used' = [used EXCEPT !.extras = @ + 1]

-------------------------------------------------------------------------------
(* The scheduler                                                               *)

\* is_authoritative_report
Authoritative(r, s, path) == r.tunnel = s \/ r.path = path

\* the registration a report or control observation starts from: a new one when there is none,
\* or when the observed address has changed
Registers(r, path) == r.gen = 0 \/ r.path # path
Registered(r, s, path) ==
  IF Registers(r, path)
  THEN [tunnel |-> s, path |-> path, gen |-> sn.nextGen, req |-> 0, trigger |-> TRUE]
  ELSE r

\* finish_expired
\* an expiry that leaves the probe in flight
AfterExpiryKeepsProbe(r, late) == r
AfterExpiry(r, late) == IF late /\ r.req # 0 THEN [r EXCEPT !.req = 0, !.trigger = FALSE] ELSE r

\* accept_result: for the probe in flight, of this registration and configuration
Accepts(r, result) ==
  /\ result.req # 0
  /\ result.gen = r.gen /\ result.cfg = sn.cfg
  /\ r.req = result.req
AfterResult(r, result) == IF Accepts(r, result) THEN [r EXCEPT !.req = 0, !.trigger = FALSE] ELSE r

\* issue_if_due
Issues(r) == r.trigger /\ sn.ports /\ r.req = 0
AfterIssue(r) == IF Issues(r) THEN [r EXCEPT !.req = sn.nextReq, !.trigger = FALSE] ELSE r

\* the handler has told the scheduler, and has its answer
Told(h, directive) == [NoHandler EXCEPT !.pc = "done", !.stream = handler[h].stream, !.directive = directive]

\* observe_capable_report; late is what the clock says of the probe in flight
ObserveReport(h, late) ==
  LET m == handler[h]
      r1 == AfterExpiry(Registered(reg, m.stream, m.seen), late)
      r2 == AfterResult(r1, m.result)
      r3 == AfterIssue(r2)
  IN /\ reg' = r3
     /\ sn' = [sn EXCEPT !.nextGen = IF Registers(reg, m.seen) THEN @ + 1 ELSE @,
                         !.nextReq = IF Issues(r2) THEN @ + 1 ELSE @]
     /\ handler' = [handler EXCEPT ![h] = Told(h, IF Issues(r2) THEN [gen |-> r3.gen, cfg |-> sn.cfg, req |-> r3.req]
                                                  ELSE NoDirective)]

\* observe_control: registers, but issues no directive
ObserveControl(h, late) ==
  LET m == handler[h]
  IN /\ reg' = AfterExpiry(Registered(reg, m.stream, m.seen), late)
     /\ sn' = [sn EXCEPT !.nextGen = IF Registers(reg, m.seen) THEN @ + 1 ELSE @]
     /\ handler' = [handler EXCEPT ![h] = Told(h, NoDirective)]

\* set_nat_probe_ports: other ports, or none
SetPorts ==
  /\ Extra
  /\ \E on \in BOOLEAN : /\ on \/ sn.ports
                        /\ sn' = [sn EXCEPT !.ports = on, !.cfg = @ + 1]
  /\ reg' = [reg EXCEPT !.req = 0]
  /\ UNCHANGED <<stream, peer, handler, keeper, gone, client>>

-------------------------------------------------------------------------------
(* reconcile_nat_probe_authority, in handlers and in the maintenance loop      *)

Looks == [tunnel |-> reg.tunnel, path |-> reg.path, gen |-> reg.gen, present |-> TRUE]

\* whether the registered path still has a stream; if so there is nothing more to do
Scanned(look) ==
  IF look.gen = 0 \/ \E s \in Live : s = look.tunnel \/ stream[s] = look.path
  THEN NoSnapshot
  ELSE [look EXCEPT !.path = NoPath, !.present = FALSE]

\* a cleanup that trusts its snapshot
RemovesAnything(look) == ~ look.present /\ reg.gen # 0
\* a registration that is only removed when the peer disconnects
RemovesNothing(look) == FALSE
\* remove_peer_if_authority: the registration must still be the one that was looked at
Removes(look) == ~ look.present /\ reg.gen # 0 /\ reg.tunnel = look.tunnel /\ reg.gen = look.gen

Reconciles(look) == reg' = IF Removes(look) THEN NoReg ELSE reg

-------------------------------------------------------------------------------
(* A handler at the SN                                                         *)

\* a new handler takes the first place that is free
Free == {h \in Handlers : handler[h].pc = "idle" /\ \A g \in Handlers : g < h => handler[g].pc # "idle"}

\* the endpoint the command stream is observed at, if it is still there
HandlerSees(h) ==
  /\ handler[h].pc = "start" /\ handler[h].kind = "report"
  /\ handler' = [handler EXCEPT ![h].pc = "known",
                   ![h].seen = IF Alive(handler[h].stream) THEN stream[handler[h].stream] ELSE NoPath]
  /\ UNCHANGED <<stream, reg, sn, peer, keeper, gone, client, used>>

\* handle_report_sn: add_or_update_peer, then the registration is looked at
HandlerAdds(h) ==
  /\ handler[h].pc = "known"
  /\ peer' = TRUE
  /\ handler' = [handler EXCEPT ![h].pc = "snap", ![h].look = Looks]
  /\ UNCHANGED <<stream, reg, sn, keeper, gone, client, used>>

\* observe_nat_probe_control begins by looking at the registration
ControlLooks(h) ==
  /\ handler[h].pc = "start" /\ handler[h].kind = "control"
  /\ handler' = [handler EXCEPT ![h].pc = "snap", ![h].look = Looks]
  /\ UNCHANGED <<stream, reg, sn, peer, keeper, gone, client, used>>

HandlerScans(h) ==
  /\ handler[h].pc = "snap"
  /\ handler' = [handler EXCEPT ![h].pc = "scan", ![h].look = Scanned(@)]
  /\ UNCHANGED <<stream, reg, sn, peer, keeper, gone, client, used>>

\* the decision is applied; a control handler then asks for the stream's endpoint
HandlerReconciles(h) ==
  /\ handler[h].pc = "scan"
  /\ Reconciles(handler[h].look)
  /\ LET s == handler[h].stream
         control == handler[h].kind = "control"
     IN handler' = [handler EXCEPT
                      ![h].pc = IF control /\ ~ Alive(s) THEN "done" ELSE "observe",
                      ![h].seen = IF control /\ Alive(s) THEN stream[s] ELSE @,
                      ![h].look = NoSnapshot]
  /\ UNCHANGED <<stream, sn, peer, keeper, gone, client, used>>

\* the scheduler takes note of a report, or of a control command, on the registered path
HandlerObserves(h) ==
  /\ handler[h].pc = "observe"
  /\ LET m == handler[h]
         heard == m.seen # NoPath /\ (reg.gen = 0 \/ Authoritative(reg, m.stream, m.seen))
     IN \/ /\ heard
           /\ \E late \in BOOLEAN : IF m.kind = "report" THEN ObserveReport(h, late) ELSE ObserveControl(h, late)
        \/ /\ ~ heard
           /\ handler' = [handler EXCEPT ![h] = Told(h, NoDirective)]
           /\ UNCHANGED <<reg, sn>>
  /\ UNCHANGED <<stream, peer, keeper, gone, client, used>>

\* a handler nobody waits for any more is over
HandlerEnds(h) ==
  /\ handler[h].pc = "done" /\ client.handler # h
  /\ handler' = [handler EXCEPT ![h] = NoHandler]
  /\ UNCHANGED <<stream, reg, sn, peer, keeper, gone, client, used>>

-------------------------------------------------------------------------------
(* maintain_nat_probe_state, and the peer's disconnection                      *)

KeeperLooks ==
  /\ keeper.pc = "idle"
  /\ keeper' = [pc |-> "snap", look |-> Looks]
  /\ UNCHANGED <<stream, reg, sn, peer, handler, gone, client, used>>

KeeperScans ==
  /\ keeper.pc = "snap"
  /\ keeper' = [pc |-> "scan", look |-> Scanned(keeper.look)]
  /\ UNCHANGED <<stream, reg, sn, peer, handler, gone, client, used>>

KeeperReconciles ==
  /\ keeper.pc = "scan"
  /\ Reconciles(keeper.look)
  /\ keeper' = [pc |-> "expire", look |-> NoSnapshot]
  /\ UNCHANGED <<stream, sn, peer, handler, gone, client, used>>

\* expire_due: the probe in flight is over once its deadline has passed
KeeperExpires(late) ==
  /\ keeper.pc = "expire"
  /\ keeper' = [keeper EXCEPT !.pc = "idle"]
  /\ reg' = AfterExpiry(reg, late)
  /\ UNCHANGED <<stream, sn, peer, handler, gone, client, used>>

\* on_peer_disconnected, which the command server calls after the last stream has ended
Disconnected ==
  /\ gone
  /\ gone' = FALSE
  /\ reg' = NoReg
  /\ peer' = FALSE
  /\ UNCHANGED <<stream, sn, handler, keeper, client, used>>

\* a stream ends; the last one takes the peer with it
Ends(s) ==
  /\ stream' = [stream EXCEPT ![s] = "dead"]
  /\ gone' = (gone \/ Live = {s})

StreamBreaks(s) ==
  /\ Alive(s) /\ Fault
  /\ Ends(s)
  /\ UNCHANGED <<reg, sn, peer, handler, keeper, client>>

\* the client's external address changes under a stream
AddressChanges(s) ==
  /\ Alive(s) /\ Fault
  /\ \E p \in Paths \ {stream[s]} : stream' = [stream EXCEPT ![s] = p]
  /\ UNCHANGED <<reg, sn, peer, handler, keeper, gone, client>>

-------------------------------------------------------------------------------
(* The client's ping loop                                                      *)

\* the stream a report goes out on: one that is there, or the next one, on some path
Usable(s) == Alive(s) \/ (stream[s] = "new" /\ \A t \in Streams : t < s => stream[t] # "new")

\* report: a command stream is acquired and the report is sent; the answer is awaited
Sends(s, result) ==
  /\ Usable(s)
  /\ \E h \in Free :
       /\ handler' = [handler EXCEPT ![h] = [NoHandler EXCEPT !.pc = "start", !.stream = s,
                                               !.result = result]]
       /\ client' = [client EXCEPT !.pc = IF result.req = 0 THEN "wait" ELSE "waitresult",
                                   !.handler = h, !.failures = 0]
  /\ \/ Alive(s) /\ UNCHANGED stream
     \/ ~ Alive(s) /\ \E p \in OpensOn[s] : stream' = [stream EXCEPT ![s] = p]
  /\ UNCHANGED <<reg, sn, peer, keeper, gone, used>>

\* remove_active_sn
Evicted == [client EXCEPT !.pc = "turn", !.active = FALSE, !.gen = 0, !.req = 0, !.result = NoDirective, !.failures = 0]

\* record_report_stream_failure: the second failure in a row evicts the SN
AcquireFails ==
  /\ client.pc \in {"turn", "result"}
  /\ Miss
  /\ client' = IF client.failures = 1 THEN Evicted
               ELSE [client EXCEPT !.pc = "turn", !.result = NoDirective, !.failures = @ + 1]
  /\ UNCHANGED <<stream, reg, sn, peer, handler, keeper, gone>>

\* a report that is due, or the report that registers
SendReport(s) ==
  /\ client.pc = "turn"
  /\ Sends(s, NoDirective)

\* the result of a probe is reported
ReportResult(s) ==
  /\ client.pc = "result"
  /\ Sends(s, client.result)

\* validate_probe_directive: neither carried out before nor expired
Carries(d, late) ==
  /\ d.req # 0 /\ ~ late
  /\ d.gen > client.gen \/ (d.gen = client.gen /\ d.req > client.req)

Released == [handler EXCEPT ![client.handler] = NoHandler]

\* the answer to a report: an unknown SN becomes active, a directive is carried out
ReportAnswered(late) ==
  /\ client.pc = "wait" /\ handler[client.handler].pc = "done"
  /\ LET d == handler[client.handler].directive
         carries == Carries(d, late)
     IN client' = [client EXCEPT !.active = TRUE, !.handler = 0,
                     !.pc = IF carries THEN "directive" ELSE "turn",
                     !.result = IF carries THEN d ELSE NoDirective]
  /\ handler' = Released
  /\ UNCHANGED <<stream, reg, sn, peer, keeper, gone, used>>

\* the probe ends; apply_completed_probe
ProbeEnds ==
  /\ client.pc = "directive"
  /\ client' = [client EXCEPT !.pc = "result", !.gen = client.result.gen, !.req = client.result.req]
  /\ UNCHANGED <<stream, reg, sn, peer, handler, keeper, gone, used>>

\* the answer to the report of a result; a directive in it is not looked at
ResultAnswered ==
  /\ client.pc = "waitresult" /\ handler[client.handler].pc = "done"
  /\ client' = [client EXCEPT !.pc = "turn", !.handler = 0, !.result = NoDirective]
  /\ handler' = Released
  /\ UNCHANGED <<stream, reg, sn, peer, keeper, gone, used>>

\* send_sn_qa_on fails or times out: the stream is disabled, the loop goes on
QaFails ==
  /\ client.pc \in {"wait", "waitresult"} /\ Fault
  /\ client' = [client EXCEPT !.pc = "turn", !.handler = 0, !.result = NoDirective]
  /\ LET s == handler[client.handler].stream
     IN IF s # 0 /\ Alive(s) THEN Ends(s) ELSE UNCHANGED <<stream, gone>>
  /\ UNCHANGED <<reg, sn, peer, handler, keeper>>

\* a query of the client's, beside the ping loop
SendControl(s) ==
  /\ Alive(s) /\ Extra
  /\ \E h \in Free : handler' = [handler EXCEPT ![h] = [NoHandler EXCEPT !.pc = "start", !.kind = "control", !.stream = s]]
  /\ UNCHANGED <<stream, reg, sn, peer, keeper, gone, client>>

HandlerStep(h) ==
  \/ HandlerSees(h)
  \/ HandlerAdds(h)
  \/ ControlLooks(h)
  \/ HandlerScans(h)
  \/ HandlerReconciles(h)
  \/ HandlerObserves(h)
  \/ HandlerEnds(h)

KeeperStep ==
  \/ KeeperLooks
  \/ KeeperScans
  \/ KeeperReconciles
  \/ KeeperExpires(TRUE)

ClientStep ==
  \/ \E s \in Streams : SendReport(s) \/ ReportResult(s)
  \/ \E late \in BOOLEAN : ReportAnswered(late)
  \/ ProbeEnds
  \/ ResultAnswered

Next ==
  \/ \E h \in Handlers : HandlerStep(h)
  \/ KeeperStep
  \/ KeeperExpires(FALSE)
  \/ ClientStep
  \/ AcquireFails
  \/ QaFails
  \/ SetPorts
  \/ Disconnected
  \/ \E s \in Streams : StreamBreaks(s) \/ AddressChanges(s) \/ SendControl(s)

Spec == Init /\ [][Next]_vars

\* tokio runs every task that is ready, the ping and maintenance loops go round for ever, and
\* the deadline of a probe passes
Fairness ==
  /\ \A h \in Handlers : WF_vars(HandlerStep(h))
  /\ WF_vars(KeeperStep) /\ SF_vars(KeeperExpires(TRUE))
  /\ WF_vars(ClientStep) /\ WF_vars(Disconnected)

FairSpec == Spec /\ Fairness

-------------------------------------------------------------------------------
(* Properties                                                                  *)

\* Cleanup never takes a registration whose own command stream is alive: whatever handlers,
\* streams and re-registrations come between the snapshot and the decision of
\* reconcile_nat_probe_authority, only the peer's disconnection may remove such a registration.
LiveAuthorityKept ==
  [][(reg.gen # 0 /\ reg'.gen = 0 /\ Alive(reg.tunnel)) => (gone /\ ~ gone')]_vars

\* The SN's registration follows the client: once streams stop failing, the client has the SN
\* active, the SN knows it, and the registered path is one the client has a stream on. It takes
\* the ping loop's retry and re-registration, and the reconciliation that frees a registration
\* whose path is gone (handle_report_sn ignores reports from any other path until then).
RegistrationFollows ==
  []<>(/\ client.active /\ peer /\ reg.gen # 0
       /\ \E s \in Live : s = reg.tunnel \/ stream[s] = reg.path)

\* A probe in flight ends, by its result, its deadline or the end of the registration, even when
\* the answer that carried the directive is lost or the client does not look at it
\* (finish_expired, expire_due): the slot it holds is given back.
ProbeSlotFreed == []<>(reg.req = 0)
===============================================================================
