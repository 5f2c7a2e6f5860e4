------------------------------- MODULE TcpLease -------------------------------
(***************************************************************************)
(* One data connection of a TCP tunnel, seen from both of its ends          *)
(* (networks/tcp/tunnel.rs).  The control connection carries the claim,     *)
(* WriteFin and ReadDone commands in order; the data connection carries     *)
(* bare bytes; the two are not ordered against each other.  A lease is one  *)
(* use of the data connection by one channel, keyed by lease_seq.           *)
(*                                                                          *)
(* The code's operations on an entry and its lease are functions from the   *)
(* state of one end to its next state; each action applies one of them.     *)
(***************************************************************************)
EXTENDS Integers, Sequences, FiniteSets

CONSTANTS
  Owner,       \* the end with first_claim_local
  Larger,      \* the end whose P2pId is the larger one
  Kinds,       \* channel kinds that are opened
  Nonces,      \* values claim_nonce may take
  Rejections,  \* outcomes check_accept_target may have besides Ok
  MaxClaims,   \* bound: claims sent by one end
  MaxBytes,    \* bound: bytes written by one end in one lease
  Preemption,  \* may another task run inside a window left by two locks
  Timeouts,    \* may the claim, first-claim and drain timers fire
  Closes,      \* may the user close the tunnel
  EarlyDrop    \* may a reader be dropped before the peer's last byte is read

Side == {"A", "B"}                   \* A: the active end of the control connection
Other(s) == IF s = "A" THEN "B" ELSE "A"

Kind == {"Stream", "Datagram"}
Rejection == {"VportNotFound", "ListenerClosed", "AcceptQueueFull"}
Result == Rejection \cup {"Success", "NotIdle", "LeaseMismatch", "ConflictLost",
                          "Retired", "ProtocolError"}

ASSUME ConstantsAssumption ==
  /\ Owner \in Side /\ Larger \in Side
  /\ Kinds \subseteq Kind /\ Nonces \subseteq Nat /\ Rejections \subseteq Rejection
  /\ MaxClaims \in Nat /\ MaxBytes \in Nat
  /\ {Preemption, Timeouts, Closes, EarlyDrop} \subseteq BOOLEAN

\* next_local_id_value: the passive end sets the high bit, here the parity
ChannelId(s, n) == IF s = "A" THEN 2 * n ELSE 2 * n + 1

\* next_lease_seq, below the point where the counter wraps
NextLeaseSeq(seq) == seq + 1

Unknown == -1        \* an Option<u64> byte count that is None
NoChannel == 0

\* ClaimingState; ch = NoChannel when the entry is not Claiming
Claim == [ch : Nat, seq : Nat, nonce : Nat, kind : Kind]
NoClaim == [ch |-> NoChannel, seq |-> 0, nonce |-> 0, kind |-> "Stream"]

\* RecentClaimRecord; the channel id stands for nonce, kind and purpose too
Recent == [ch : Nat, seq : Nat, res : Result]
NoRecent == [ch |-> NoChannel, seq |-> 0, res |-> "Success"]

\* LeaseContext; final # Unknown is peer_write_fin_received
Lease == [seq : Nat, ch : Nat, kind : Kind, init : BOOLEAN,
          tx : Nat, rx : Nat, final : Nat \cup {Unknown}, early : Nat \cup {Unknown},
          finSent : BOOLEAN, doneSent : BOOLEAN, peerDone : BOOLEAN,
          readReleased : BOOLEAN, writeReleased : BOOLEAN,
          retired : BOOLEAN, noReuse : BOOLEAN]

NewLease(ch, seq, kind, init) ==
  [seq |-> seq, ch |-> ch, kind |-> kind, init |-> init,
   tx |-> 0, rx |-> 0, final |-> Unknown, early |-> Unknown,
   finSent |-> FALSE, doneSent |-> FALSE, peerDone |-> FALSE,
   readReleased |-> kind = "Datagram" /\ init,
   writeReleased |-> kind = "Datagram" /\ ~init,
   retired |-> FALSE, noReuse |-> FALSE]
NoLease == NewLease(NoChannel, 0, "Stream", FALSE)

\* Commands on the control connection
Req  == [type : {"req"}, ch : Nat, seq : Nat, nonce : Nat, kind : Kind]
Ack  == [type : {"ack"}, ch : Nat, seq : Nat, res : Result]
Fact == [type : {"fin", "done"}, ch : Nat, seq : Nat, n : Nat]
Cmd  == Req \cup Ack \cup Fact

NoReq == [type |-> "req", ch |-> NoChannel, seq |-> 0, nonce |-> 0, kind |-> "Stream"]
NoAck == [type |-> "ack", ch |-> NoChannel, seq |-> 0, res |-> "Success"]

EntryState == {"FirstClaimPending", "Idle", "Claiming", "Bound", "Draining", "Retired"}
Decision == {"Accept", "ConflictWin", "ConflictLose"}

\* One end: its entry for the connection, the tunnel state the entry meets,
\* and the places where its tasks stand
Peer == [
  open : BOOLEAN,                    \* ~TcpTunnel.closed
  writeOpen : BOOLEAN,               \* control_write not shut down
  registered : BOOLEAN,              \* entry in data_conns
  st : EntryState,
  committed : Nat,                   \* committed_lease_seq
  stream : {"entry", "lease", "dropped"},  \* who holds the TLS stream
  claim : Claim,
  recent : Recent,
  pending : SUBSET Fact,             \* pending_fin, pending_read_done, pending_drains
  waiters : SUBSET Nat,              \* pending_claims
  lease : Lease,
  out : SUBSET Cmd,                  \* commands of spawned tasks, not yet written
  opening : Req,                     \* claim_entry before its waiter exists
  pc : {"recv", "check", "reply", "ended"},  \* control_recv_loop
  req : Req, dec : Decision, ack : Ack,      \* ... and the claim it is handling
  lost : Nat,                        \* local_channel_id of a ConflictLose decision
  claims : Nat,                      \* claims made so far
  firstTimer : BOOLEAN ]             \* start_first_claim_timeout still sleeping

VARIABLES peer,     \* Side -> Peer
          control,  \* control[s]: commands written by s, not yet read by Other(s)
          wire      \* wire[s]: bytes written by s, each tagged with its channel
vars == <<peer, control, wire>>

-----------------------------------------------------------------------------
(* The lease: predicates and functions of one end *)

Hidden(l) == l.kind = "Datagram" /\ l.init

CanSendReadDone(l) == l.final = l.rx /\ ~l.doneSent

\* Mutant: the peer's WriteFin and the local drain are not waited for
ReadyForIdleUndrained(l) ==
  l.finSent /\ l.peerDone /\ l.readReleased /\ l.writeReleased /\ ~l.retired /\ ~l.noReuse

ReadyForIdle(l) ==
  /\ l.finSent /\ l.final # Unknown /\ l.doneSent /\ l.peerDone
  /\ l.readReleased /\ l.writeReleased /\ ~l.retired /\ ~l.noReuse
ReadyForClose(l) == l.readReleased /\ l.writeReleased /\ (l.retired \/ l.noReuse)

\* the entry's stream is dropped with the entry, a lease's with the lease
DropStream(p, holder) == IF p.stream = holder THEN "dropped" ELSE p.stream

\* Mutant: the waiter is not told
KeepPendingClaim(p, ch) == p

\* send_pending_claim_result
SendPendingClaimResult(p, ch) == [p EXCEPT !.waiters = @ \ {ch}]

RetirePlainEntry(p) ==
  SendPendingClaimResult(
    [p EXCEPT !.st = "Retired", !.registered = FALSE, !.pending = {}, !.claim = NoClaim,
              !.stream = DropStream(p, "entry")], p.claim.ch)

RetireLeaseArc(p) ==
  IF p.lease.retired THEN p
  ELSE SendPendingClaimResult(
         [p EXCEPT !.lease.retired = TRUE, !.st = "Retired", !.registered = FALSE,
                   !.pending = {}, !.claim = NoClaim,
                   !.stream = DropStream(p, "lease")], p.lease.ch)

\* back to Idle only if the entry is still in its map; otherwise the
\* entry is gone and the stream goes with it
MaybeFinalizeLease(p) ==
  CASE ReadyForIdle(p.lease) /\ p.stream = "lease" ->
         IF p.st \in {"Bound", "Draining"}
         THEN [p EXCEPT !.st = "Idle", !.stream = "entry", !.lease = NoLease]
         ELSE [p EXCEPT !.stream = "dropped", !.lease = NoLease]
    [] ReadyForClose(p.lease) ->
         [p EXCEPT !.lease.retired = TRUE, !.st = "Retired", !.registered = FALSE,
                   !.stream = DropStream(p, "lease")]
    [] OTHER -> p

MarkDraining(p) == [p EXCEPT !.st = IF @ = "Bound" THEN "Draining" ELSE @]

LeaseFact(l, type, n) == [type |-> type, ch |-> l.ch, seq |-> l.seq, n |-> n]

\* the sent flag is set before the command is written; a ReadDone that came
\* before the WriteFin it answers is settled here
SpawnSendWriteFin(p) ==
  LET l == p.lease
      q == MarkDraining([p EXCEPT !.lease.finSent = TRUE, !.lease.early = Unknown,
                                  !.lease.peerDone = @ \/ l.early = l.tx])
  IN CASE l.finSent \/ l.retired -> p
       [] ~l.finSent /\ ~l.retired /\ l.early \notin {Unknown, l.tx} -> RetireLeaseArc(q)
       [] OTHER -> [q EXCEPT !.out = @ \cup {LeaseFact(l, "fin", l.tx)}]

SpawnSendReadDone(p) ==
  IF ~CanSendReadDone(p.lease) \/ p.lease.retired THEN p
  ELSE MarkDraining([p EXCEPT !.lease.doneSent = TRUE,
                              !.out = @ \cup {LeaseFact(p.lease, "done", p.lease.rx)}])

ReleaseReadHalf(p) ==
  LET q == [p EXCEPT !.lease.readReleased = TRUE]
  IN MaybeFinalizeLease(IF p.lease.final \notin {Unknown, p.lease.rx}
                        THEN RetireLeaseArc(q)
                        ELSE SpawnSendReadDone(q))

ReleaseWriteHalf(p) ==
  MaybeFinalizeLease(SpawnSendWriteFin([p EXCEPT !.lease.writeReleased = TRUE]))

\* after_read and spawn_hidden_zero_read_observer, for one byte
AfterRead(p) ==
  LET q == [p EXCEPT !.lease.rx = @ + 1]
  IN IF Hidden(q.lease) \/ (q.lease.final # Unknown /\ q.lease.rx > q.lease.final)
     THEN RetireLeaseArc(q)
     ELSE SpawnSendReadDone(q)

\* facts that came while Claiming are applied to the new lease
BindEntryToLease(p, ch, seq, kind, init) ==
  LET l0 == NewLease(ch, seq, kind, init)
      own == {f \in p.pending : f.ch = ch /\ f.seq = seq}
      count(type) == IF \E f \in own : f.type = type
                     THEN (CHOOSE f \in own : f.type = type).n ELSE Unknown
      bound == [p EXCEPT !.committed = seq, !.stream = "lease", !.claim = NoClaim,
                         !.pending = {},
                         !.st = IF p.pending = {} THEN "Bound" ELSE "Draining",
                         !.lease = [l0 EXCEPT !.final = count("fin"), !.early = count("done")]]
      fin == IF kind = "Datagram" /\ ~init THEN SpawnSendWriteFin(bound) ELSE bound
  IN IF own # p.pending \/ (l0.readReleased /\ count("fin") \notin {Unknown, 0})
     THEN RetireLeaseArc(fin)
     ELSE SpawnSendReadDone(fin)

CloseLocal(p) ==
  LET q == [p EXCEPT !.open = FALSE, !.pending = {}, !.waiters = {}]
  IN CASE ~p.open -> p
       [] p.open /\ ~p.registered -> q
       [] p.open /\ p.registered /\ p.st \in {"Bound", "Draining"} ->
            LET r == [q EXCEPT !.lease.noReuse = TRUE]
            IN IF ReadyForClose(r.lease) THEN RetireLeaseArc(r) ELSE r
       [] OTHER -> [q EXCEPT !.st = "Retired", !.claim = NoClaim,
                             !.stream = DropStream(p, "entry")]

\* close_impl, then the receive loop breaks
CloseImpl(p) ==
  [CloseLocal(p) EXCEPT !.writeOpen = @ /\ ~p.open, !.pc = "ended"]

-----------------------------------------------------------------------------
(* Claims: functions of one end *)

\* validate_remote_first_claim
ValidateRemoteFirstClaim(s, seq) ==
  CASE seq # 1 -> "LeaseMismatch"
    [] seq = 1 /\ s = Owner -> "ProtocolError"
    [] OTHER -> "Accept"

\* Mutant: equal nonces make both ends lose
LocalClaimWinsByNonce(s, localNonce, remoteNonce) == localNonce > remoteNonce

LocalSimultaneousClaimWins(s, localNonce, remoteNonce) ==
  IF localNonce = remoteNonce THEN s = Larger ELSE localNonce > remoteNonce

\* process_claim_req, the part under the entry's lock: a final result, or a
\* decision that still depends on check_accept_target
ClaimDecision(s, p, m) ==
  CASE ~p.registered -> "ProtocolError"
    [] p.registered /\ p.recent.seq = m.seq ->
         IF p.recent.ch = m.ch THEN p.recent.res ELSE "ProtocolError"
    [] p.registered /\ p.recent.seq # m.seq ->
         CASE p.st = "Retired" -> "Retired"
           [] p.st = "FirstClaimPending" -> ValidateRemoteFirstClaim(s, m.seq)
           [] p.st = "Idle" ->
                IF m.seq = NextLeaseSeq(p.committed) THEN "Accept" ELSE "LeaseMismatch"
           [] p.st = "Claiming" ->
                CASE m.seq # p.claim.seq -> "LeaseMismatch"
                  [] m.seq = p.claim.seq /\ LocalSimultaneousClaimWins(s, p.claim.nonce, m.nonce) -> "ConflictWin"
                  [] OTHER -> "ConflictLose"
           [] p.st \in {"Bound", "Draining"} -> "NotIdle"

\* the answer to m is res: recorded in recent_claim, then written by the loop
Answer(p, m, res) ==
  [p EXCEPT !.pc = "reply", !.req = NoReq, !.dec = "Accept", !.lost = NoChannel,
            !.ack = [type |-> "ack", ch |-> m.ch, seq |-> m.seq, res |-> res],
            !.recent = IF p.registered THEN [ch |-> m.ch, seq |-> m.seq, res |-> res] ELSE @]

ProcessClaimReq(s, p, m) ==
  LET d == ClaimDecision(s, p, m)
  IN CASE ~p.open -> CloseImpl(p)             \* begin_pending fails
       [] p.open /\ d \in Decision ->
            [p EXCEPT !.pc = "check", !.req = m, !.dec = d,
                      !.lost = IF d = "ConflictLose" THEN p.claim.ch ELSE NoChannel]
       [] OTHER -> Answer(p, m, d)

\* process_claim_req after check_accept_target returned target
AcceptClaimReq(p, target) ==
  LET m == p.req
  IN CASE target # "Ok" -> Answer(p, m, target)
       [] target = "Ok" /\ p.dec = "ConflictWin" -> Answer(p, m, "ConflictLost")
       [] target = "Ok" /\ p.dec # "ConflictWin" /\ ~p.open ->     \* reserve_accept_slot
            SendPendingClaimResult(Answer(p, m, "ListenerClosed"), p.lost)
       [] target = "Ok" /\ p.dec # "ConflictWin" /\ p.open /\ p.stream # "entry" ->
            CloseImpl(p)                                          \* take_stream fails
       [] OTHER ->
            LET b == BindEntryToLease(p, m.ch, m.seq, m.kind, FALSE)
            IN SendPendingClaimResult(Answer(b, m, "Success"), p.lost)

\* Mutant: the owner always returns to the state before the first claim
UnclaimedByOwner(s, p) == IF s = Owner THEN "FirstClaimPending" ELSE "Idle"

\* the state a failed claim returns to
Unclaimed(s, p) == IF s = Owner /\ p.committed = 0 THEN "FirstClaimPending" ELSE "Idle"

HandleClaimAck(s, p, m) ==
  LET mine == p.st = "Claiming" /\ p.claim.ch = m.ch /\ p.claim.seq = m.seq
      done(q) == SendPendingClaimResult(q, m.ch)
  IN CASE m.ch \notin p.waiters -> p
       [] m.ch \in p.waiters /\ ~p.registered -> done(p)
       [] m.ch \in p.waiters /\ p.registered /\ ~mine -> p
       [] m.ch \in p.waiters /\ p.registered /\ mine /\ m.res # "Success" ->
            done([p EXCEPT !.st = Unclaimed(s, p), !.claim = NoClaim])
       [] m.ch \in p.waiters /\ p.registered /\ mine /\ m.res = "Success" /\ p.stream # "entry" ->
            CloseImpl(p)
       [] OTHER -> done(BindEntryToLease(p, m.ch, m.seq, p.claim.kind, TRUE))

-----------------------------------------------------------------------------
(* WriteFin and ReadDone: functions of one end *)

\* Mutant: a fact of a lease that is not Bound yet is a protocol error
InsertPendingRefused(p, m) == RetirePlainEntry(p)

\* insert_pending_write_fin, insert_pending_read_done: a fact of the lease
\* being claimed waits for the ClaimConnAck
InsertPending(p, m) ==
  IF m.ch # p.claim.ch \/ \E f \in p.pending : f.type = m.type /\ f.n # m.n
  THEN RetirePlainEntry(p)
  ELSE [p EXCEPT !.pending = @ \cup {m}]

\* where a fact goes: the lease it meets, or the reason it meets none
FactTarget(p, m) ==
  CASE ~p.registered -> "unknown"
    [] p.registered /\ p.st \in {"FirstClaimPending", "Idle", "Retired"} ->
         IF m.seq > p.committed THEN "impossible" ELSE "stale"
    [] p.registered /\ p.st = "Claiming" -> IF m.seq = p.claim.seq THEN "claiming" ELSE "stale"
    [] p.registered /\ p.st \in {"Bound", "Draining"} ->
         CASE m.seq < p.lease.seq -> "stale"
           [] m.seq = p.lease.seq /\ m.ch = p.lease.ch -> "lease"
           [] OTHER -> "contradiction"

HandleWriteFin(p, m) ==
  LET l == p.lease
      known == [p EXCEPT !.lease.final = m.n]
      wrong == \/ l.final \notin {Unknown, m.n}
               \/ Hidden(l) /\ m.n # 0
               \/ l.readReleased /\ l.rx # m.n
  IN CASE FactTarget(p, m) = "unknown" -> CloseImpl(p)
       [] FactTarget(p, m) = "impossible" -> RetirePlainEntry(p)
       [] FactTarget(p, m) = "stale" -> p
       [] FactTarget(p, m) = "claiming" -> InsertPending(p, m)
       [] FactTarget(p, m) = "contradiction" -> MaybeFinalizeLease(RetireLeaseArc(MarkDraining(p)))
       [] FactTarget(p, m) = "lease" ->
            MaybeFinalizeLease(IF wrong THEN RetireLeaseArc(MarkDraining(known))
                               ELSE SpawnSendReadDone(MarkDraining(known)))

\* a ReadDone before the local WriteFin is kept for SpawnSendWriteFin
HandleReadDone(p, m) ==
  LET l == p.lease
  IN CASE FactTarget(p, m) = "unknown" -> CloseImpl(p)
       [] FactTarget(p, m) = "impossible" -> RetirePlainEntry(p)
       [] FactTarget(p, m) = "stale" -> p
       [] FactTarget(p, m) = "claiming" -> InsertPending(p, m)
       [] FactTarget(p, m) = "contradiction" -> RetireLeaseArc(p)
       [] FactTarget(p, m) = "lease" /\ ~l.finSent ->
            CASE l.early = Unknown -> MarkDraining([p EXCEPT !.lease.early = m.n])
              [] l.early = m.n -> p
              [] OTHER -> RetireLeaseArc(p)
       [] FactTarget(p, m) = "lease" /\ l.finSent ->
            IF m.n # l.tx THEN RetireLeaseArc(p)
            ELSE MaybeFinalizeLease([p EXCEPT !.lease.peerDone = TRUE])

-----------------------------------------------------------------------------
(* Steps *)

\* No task of s stands between two critical sections of one handler, or
\* other tasks of s may run while it does
Undisturbed(s) == Preemption \/ (peer[s].opening = NoReq /\ peer[s].pc # "check")

Become(s, p) == peer' = [peer EXCEPT ![s] = p]

\* claim_entry: the entry becomes Claiming ...
ClaimEntry(s) ==
  \E kind \in Kinds, nonce \in Nonces :
    LET p == peer[s]
        claim == [ch |-> ChannelId(s, p.claims + 1), nonce |-> nonce, kind |-> kind,
                  seq |-> IF p.st = "FirstClaimPending" THEN 1 ELSE NextLeaseSeq(p.committed)]
    IN /\ Undisturbed(s) /\ p.open /\ p.registered /\ p.opening = NoReq
       /\ p.st = "Idle" \/ (p.st = "FirstClaimPending" /\ s = Owner)
       /\ p.claims < MaxClaims
       /\ Become(s, [p EXCEPT !.st = "Claiming", !.claims = @ + 1, !.claim = claim,
                      !.opening = [type |-> "req", ch |-> claim.ch, seq |-> claim.seq,
                                   nonce |-> nonce, kind |-> kind]])
       /\ UNCHANGED <<control, wire>>

\* ... then its waiter is put into pending_claims and the request is sent,
\* whatever became of the entry in between
AddWaiter(s) ==
  LET p == peer[s]
  IN /\ p.opening # NoReq
     /\ Become(s, [p EXCEPT !.opening = NoReq, !.waiters = @ \cup {p.opening.ch},
                            !.out = @ \cup {p.opening}])
     /\ UNCHANGED <<control, wire>>

\* send_control by a spawned task or by claim_entry
Send(s) ==
  \E m \in peer[s].out :
    LET p == [peer[s] EXCEPT !.out = @ \ {m}]
    IN /\ Undisturbed(s) /\ p.writeOpen
       /\ control' = [control EXCEPT ![s] = Append(@, m)]
       /\ Become(s, IF m.type # "req" /\ m.seq = p.lease.seq THEN MaybeFinalizeLease(p) ELSE p)
       /\ UNCHANGED wire

\* ... which fails once the control connection is shut down
SendFails(s) ==
  \E m \in peer[s].out :
    LET p == [peer[s] EXCEPT !.out = @ \ {m}]
    IN /\ Undisturbed(s)
       /\ ~p.writeOpen \/ ~peer[Other(s)].writeOpen
       /\ Become(s, CASE m.type = "req" ->
                            [p EXCEPT !.waiters = @ \ {m.ch}, !.claim = NoClaim,
                                      !.st = Unclaimed(s, p)]
                      [] m.type # "req" /\ m.seq = p.lease.seq -> RetireLeaseArc(p)
                      [] OTHER -> [p EXCEPT !.st = "Retired", !.registered = FALSE,
                                            !.claim = NoClaim,
                                            !.stream = DropStream(p, "entry")])
       /\ UNCHANGED <<control, wire>>

\* control_recv_loop, handle_control_cmd
Receive(s) ==
  LET p == peer[s]
      m == Head(control[Other(s)])
  IN /\ Undisturbed(s) /\ p.pc = "recv" /\ control[Other(s)] # <<>>
     /\ control' = [control EXCEPT ![Other(s)] = Tail(@)]
     /\ Become(s, CASE m.type = "req" -> ProcessClaimReq(s, p, m)
                    [] m.type = "ack" -> HandleClaimAck(s, p, m)
                    [] m.type = "fin" -> HandleWriteFin(p, m)
                    [] m.type = "done" -> HandleReadDone(p, m))
     /\ UNCHANGED wire

\* check_accept_target returns and the claim is decided
CheckAcceptTarget(s) ==
  /\ peer[s].pc = "check"
  /\ \E target \in {"Ok"} \cup Rejections \cup (IF peer[s].open THEN {} ELSE {"ListenerClosed"}) :
       Become(s, AcceptClaimReq(peer[s], target))
  /\ UNCHANGED <<control, wire>>

\* handle_claim_req writes its ClaimConnAck
Reply(s) ==
  LET p == peer[s]
  IN /\ Undisturbed(s) /\ p.pc = "reply"
     /\ \/ /\ p.writeOpen
           /\ control' = [control EXCEPT ![s] = Append(@, p.ack)]
           /\ Become(s, [p EXCEPT !.pc = "recv", !.ack = NoAck])
        \/ /\ ~p.writeOpen \/ ~peer[Other(s)].writeOpen
           /\ Become(s, [CloseImpl(p) EXCEPT !.ack = NoAck])
           /\ UNCHANGED control
     /\ UNCHANGED wire

\* the peer shut its side of the control connection down
ReceiveEof(s) ==
  /\ Undisturbed(s) /\ peer[s].pc = "recv"
  /\ control[Other(s)] = <<>> /\ ~peer[Other(s)].writeOpen
  /\ Become(s, CloseImpl(peer[s]))
  /\ UNCHANGED <<control, wire>>

\* TcpTunnel::drop, once the receive loop is over and the user let go
DropTunnel(s) ==
  /\ ~peer[s].open /\ peer[s].pc = "ended" /\ peer[s].writeOpen
  /\ Become(s, [peer[s] EXCEPT !.writeOpen = FALSE])
  /\ UNCHANGED <<control, wire>>

\* The user of s holds a channel of the lease
InUse(s) == peer[s].lease.seq > 0 /\ peer[s].stream = "lease"

\* poll_write: a byte, or the error of a stream the peer dropped
Write(s) ==
  LET p == peer[s]
      gone == peer[Other(s)].stream = "dropped"
  IN /\ Undisturbed(s) /\ InUse(s) /\ ~p.lease.writeReleased
     /\ p.lease.tx < MaxBytes
     /\ \/ /\ Become(s, [p EXCEPT !.lease.tx = @ + 1])
           /\ wire' = IF gone THEN wire ELSE [wire EXCEPT ![s] = Append(@, p.lease.ch)]
        \/ /\ gone
           /\ Become(s, RetireLeaseArc(p))
           /\ UNCHANGED wire
     /\ UNCHANGED control

\* poll_read by the user, or the read of the hidden observer
Read(s) ==
  LET p == peer[s]
  IN /\ Undisturbed(s) /\ InUse(s)
     /\ ~p.lease.readReleased \/ Hidden(p.lease)
     /\ wire[Other(s)] # <<>>
     /\ wire' = [wire EXCEPT ![Other(s)] = Tail(@)]
     /\ Become(s, AfterRead(p))
     /\ UNCHANGED control

\* ... which ends or fails when the peer dropped its stream
ReadFails(s) ==
  LET p == peer[s]
  IN /\ Undisturbed(s) /\ InUse(s)
     /\ ~p.lease.readReleased \/ Hidden(p.lease)
     /\ peer[Other(s)].stream = "dropped"
     /\ Become(s, RetireLeaseArc(p))
     /\ UNCHANGED <<control, wire>>

\* with its handles a lease the entry no longer holds is freed, unless the
\* hidden observer holds it
FreeOrphan(p) ==
  IF /\ p.lease.readReleased /\ p.lease.writeReleased /\ ~Hidden(p.lease)
     /\ p.st = "Retired"
  THEN [p EXCEPT !.stream = DropStream(p, "lease")] ELSE p

\* drop of TcpLeaseRead
DropRead(s) ==
  LET p == peer[s]
  IN /\ Undisturbed(s) /\ p.lease.seq > 0 /\ ~p.lease.readReleased
     /\ EarlyDrop \/ p.lease.final = p.lease.rx \/ p.lease.retired \/ p.lease.noReuse
     /\ Become(s, FreeOrphan(ReleaseReadHalf(p)))
     /\ UNCHANGED <<control, wire>>

\* drop of TcpLeaseWrite
DropWrite(s) ==
  LET p == peer[s]
  IN /\ Undisturbed(s) /\ p.lease.seq > 0 /\ ~p.lease.writeReleased
     /\ Become(s, FreeOrphan(ReleaseWriteHalf(p)))
     /\ UNCHANGED <<control, wire>>

\* Tunnel::close
Close(s) ==
  /\ Closes /\ Undisturbed(s) /\ peer[s].open
  /\ Become(s, CloseLocal(peer[s]))
  /\ UNCHANGED <<control, wire>>

\* claim_entry gave up waiting; the request has been sent
ClaimTimeout(s) ==
  \E ch \in peer[s].waiters :
    LET p == peer[s]
    IN /\ Timeouts /\ Undisturbed(s)
       /\ \A m \in p.out : m.ch # ch
       /\ Become(s, RetirePlainEntry([p EXCEPT !.waiters = @ \ {ch}]))
       /\ UNCHANGED <<control, wire>>

\* start_first_claim_timeout: fires once, whatever the state is then
FirstClaimTimeout(s) ==
  LET p == [peer[s] EXCEPT !.firstTimer = FALSE]
  IN /\ Timeouts /\ Undisturbed(s) /\ peer[s].firstTimer
     /\ Become(s, IF p.st = "FirstClaimPending" THEN RetirePlainEntry(p) ELSE p)
     /\ UNCHANGED <<control, wire>>

\* note_drain_progress and schedule_pending_drain_timeout
DrainTimeout(s) ==
  LET p == peer[s]
  IN /\ Timeouts /\ Undisturbed(s)
     /\ \/ /\ p.lease.final > p.lease.rx /\ ~p.lease.retired
           /\ Become(s, RetireLeaseArc(p))
        \/ /\ p.pending # {}
           /\ Become(s, RetirePlainEntry(p))
     /\ UNCHANGED <<control, wire>>

-----------------------------------------------------------------------------
InitPeer(s) ==
  [open |-> TRUE, writeOpen |-> TRUE, registered |-> TRUE, st |-> "FirstClaimPending",
   committed |-> 0, stream |-> "entry", claim |-> NoClaim, recent |-> NoRecent,
   pending |-> {}, waiters |-> {}, lease |-> NoLease, out |-> {}, opening |-> NoReq,
   pc |-> "recv", req |-> NoReq, dec |-> "Accept", ack |-> NoAck, lost |-> NoChannel,
   claims |-> 0, firstTimer |-> TRUE]

\* Both ends registered the connection (create_data_connection on one,
\* on_incoming_data_connection on the other)
Init == /\ peer = [s \in Side |-> InitPeer(s)]
        /\ control = [s \in Side |-> <<>>]
        /\ wire = [s \in Side |-> <<>>]

System(s) == AddWaiter(s) \/ Send(s) \/ SendFails(s) \/ Receive(s)
             \/ CheckAcceptTarget(s) \/ Reply(s) \/ ReceiveEof(s)
Application(s) == ClaimEntry(s) \/ Write(s) \/ Read(s) \/ ReadFails(s) \/ DropRead(s)
           \/ DropWrite(s) \/ Close(s) \/ DropTunnel(s)
Timer(s) == ClaimTimeout(s) \/ FirstClaimTimeout(s) \/ DrainTimeout(s)

Next == \E s \in Side : System(s) \/ Application(s) \/ Timer(s)
Spec == Init /\ [][Next]_vars

\* The runtime polls every ready task and the control connection delivers, so
\* no enabled step of the tunnel's own tasks is put off for ever; timers fire.
\* check_accept_target waits for a listener with a timeout and then returns.
Fairness ==
  \A s \in Side : /\ WF_vars(AddWaiter(s)) /\ WF_vars(Send(s)) /\ WF_vars(SendFails(s))
                  /\ WF_vars(Receive(s)) /\ WF_vars(CheckAcceptTarget(s))
                  /\ WF_vars(Reply(s)) /\ WF_vars(ReceiveEof(s))
                  /\ WF_vars(ClaimTimeout(s)) /\ WF_vars(FirstClaimTimeout(s))
                  /\ WF_vars(DrainTimeout(s))

-----------------------------------------------------------------------------
(* Properties *)

\* The type invariant: every field keeps its type; the receive loop remembers
\* a claim only while it stands in check_accept_target
TypeOK ==
  /\ peer \in [Side -> Peer]
  /\ control \in [Side -> Seq(Cmd)]
  /\ wire \in [Side -> Seq(Nat)]

\* Neither end has shut the control connection down
ControlUp == \A s \in Side : peer[s].writeOpen

\* Two ends that both hold the stream for a channel hold it for the same
\* channel under the same lease_seq, one as claimer and one as acceptor, and
\* their committed_lease_seq differs by at most the one lease that is being
\* acknowledged, which the end behind is still Claiming or has retired:
\* process_claim_req and handle_claim_ack never bind the two ends apart
LeaseAgreement ==
  /\ InUse("A") /\ InUse("B") =>
       LET a == peer["A"].lease
           b == peer["B"].lease
       IN a.seq = b.seq /\ a.ch = b.ch /\ a.kind = b.kind /\ a.init = ~b.init
  /\ \A s \in Side :
       LET p == peer[s]
           q == peer[Other(s)]
       IN p.committed > q.committed =>
            /\ p.committed = q.committed + 1
            /\ q.st \in {"Claiming", "Retired"} \/ ~ControlUp

\* tcp_tunnel_protocol_design.md:491: one lease_seq of a connection does not
\* serve two channels. With Preemption, process_claim_req may accept a claim it
\* decided before a local claim_entry that the other end accepts as well.
OneChannelPerLease ==
  InUse("A") /\ InUse("B") /\ peer["A"].lease.seq = peer["B"].lease.seq =>
    peer["A"].lease.ch = peer["B"].lease.ch

\* A byte is read by the channel it was written for: bind_entry_to_lease hands
\* the stream to a new channel only after maybe_finalize_lease has seen the
\* last byte of the one before, although the data connection carries no
\* channel id and is not ordered against the control connection
LeaseIsolation ==
  \A s \in Side :
    LET bytes == {wire[Other(s)][i] : i \in 1..Len(wire[Other(s)])}
        p == peer[s]
    IN CASE p.stream = "lease" -> bytes \subseteq {p.lease.ch}
         [] p.stream = "entry" /\ p.st = "Claiming" -> bytes \subseteq {p.claim.ch}
         [] p.stream = "entry" /\ p.st \in {"FirstClaimPending", "Idle"} -> bytes = {}
         [] OTHER -> TRUE

\* The claim an end makes and the claim it is deciding are for the lease after
\* its committed one, also when other tasks run between the decision of
\* process_claim_req and the bind that follows check_accept_target
ClaimIsNextLease ==
  \A s \in Side :
    LET p == peer[s]
    IN /\ p.st = "FirstClaimPending" => p.committed = 0
       /\ p.st = "Claiming" => p.claim.seq = p.committed + 1
       /\ p.pc = "check" => p.req.seq = p.committed + 1

\* bind_entry_to_lease, the one place that writes committed_lease_seq, never
\* skips a lease, repeats one or goes back
LeaseSeqAdvances ==
  [][\A s \in Side :
       peer'[s].committed \in {peer[s].committed, peer[s].committed + 1}]_vars

\* Without timeouts, closes and early drops no connection is retired and no
\* tunnel closes: no legal order of claims, bytes, WriteFin and ReadDone looks
\* like a protocol error to the handlers
HealthyConnectionKept ==
  \A s \in Side : peer[s].st # "Retired" /\ peer[s].open

\* Every claim_entry is answered without its timeout: no exchange of claims,
\* conflicts and rejections leaves both ends waiting for the other
ClaimAnswered ==
  \A s \in Side : \A ch \in 1..(2 * MaxClaims + 1) :
    (ch \in peer[s].waiters) ~> (ch \notin peer[s].waiters)

Released(s) ==
  LET l == peer[s].lease
  IN peer[s].st \in {"Bound", "Draining"} /\ l.readReleased /\ l.writeReleased

\* A connection whose channel both users dropped after reading everything goes
\* back to the pool at both ends: the WriteFin and ReadDone exchange completes
\* whatever order facts, acknowledgements and bytes arrive in
LeaseReturned ==
  \A s \in Side : Released("A") /\ Released("B") ~> peer[s].st = "Idle"

-----------------------------------------------------------------------------
(* What the protocol's design document says and the code does otherwise *)

\* "进入 `Retired` 后没有后续迁移": a connection that is Retired stays Retired
RetiredIsFinal ==
  [][\A s \in Side : peer[s].st = "Retired" => peer'[s].st = "Retired"]_vars

\* The timeout of an opening that lost a claim conflict does not retire the
\* connection, which goes on serving the accepted channel of the peer
TimeoutSparesAccepted ==
  [][\A s \in Side :
       /\ peer[s].st = "Bound" /\ ~peer[s].lease.init
       /\ \E ch \in peer[s].waiters : ch \notin peer'[s].waiters
       => peer'[s].st # "Retired"]_vars

\* An acceptor that is Bound but cannot send its ClaimConnAck retires the
\* connection at once: no half-committed channel is kept
HalfCommitRetired ==
  [][\A s \in Side :
       /\ peer[s].pc = "reply" /\ peer[s].ack.res = "Success" /\ peer'[s].pc = "ended"
       => peer'[s].st = "Retired"]_vars

\* A reader dropped before the peer's last byte costs the data connection, not
\* the healthy control connection: both tunnels stay open
EarlyDropSparesTunnel == \A s \in Side : peer[s].open

\* An end that still serves a lease which the other end has retired notices
\* it, by a read or write error, an EOF or a timeout
RetirementNoticed ==
  \A s \in Side :
    (peer[s].st = "Retired" /\ peer[Other(s)].st \in {"Bound", "Draining"})
      ~> peer[Other(s)].st \notin {"Bound", "Draining"}
=============================================================================
