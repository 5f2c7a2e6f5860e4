----------------------------- MODULE TcpDataConn -----------------------------
(***************************************************************************)
(* How the data connections of one TCP tunnel come to be registered at both *)
(* ends and first claimed (networks/tcp/tunnel.rs).  The creating end dials *)
(* and sends TcpConnectionHello, the accepting end answers DataConnReady on *)
(* the new connection.  A direct connection is dialled by the end that      *)
(* wants it and claimed by it.  A reverse connection is dialled because the *)
(* accepting end sent OpenDataConnReq; it is claimed by that end, which     *)
(* first waits for OpenDataConnResp on the control connection.              *)
(*                                                                          *)
(* Connection ids are never reused and every request is answered by one     *)
(* connection, so a request and its connection have the same number here.   *)
(***************************************************************************)
EXTENDS ReverseOpenCorrelation, Sequences

CONSTANTS
  Direct,     \* connections the creating end dials for itself
  Reverse,    \* requests of the accepting end
  Stealing,   \* may another open_channel of the owner look for a connection
  Failures,   \* may dialling or the ready exchange fail or time out
  Timeouts,   \* may requests and first claims time out, or an opener be dropped
  Closes      \* may an end close the tunnel or the control connection break

ASSUME ConnectionsAssumption ==
  /\ Direct \subseteq Nat \ {NoConn} /\ Reverse \subseteq Nat \ {NoConn}
  /\ Direct \cap Reverse = {}
  /\ {Stealing, Failures, Timeouts, Closes} \subseteq BOOLEAN

Conn == Direct \cup Reverse
End2 == {"acceptor", "creator"}
Owner(c) == IF c \in Direct THEN "creator" ELSE "acceptor"     \* first_claim_local
Peer(e) == IF e = "acceptor" THEN "creator" ELSE "acceptor"

\* PendingOpenRequest; in = FALSE when the request is not in its map
Pending == [in : BOOLEAN, sender : BOOLEAN, staged : BOOLEAN, corr : Correlation]
NoPending == [in |-> FALSE, sender |-> FALSE, staged |-> FALSE, corr |-> NewCorrelation]

\* DataConnEntry as far as the first claim takes it; "none" before it exists
EntryState == {"none", "FirstClaimPending", "Claiming", "Bound", "Retired"}
Entry == [st : EntryState, reg : BOOLEAN, stream : {"none", "entry", "handler", "dropped"},
          timer : BOOLEAN]
NoEntry == [st |-> "none", reg |-> FALSE, stream |-> "none", timer |-> FALSE]

\* open_channel of the end that wants c: its call of create_data_connection or
\* request_remote_data_connection, then claim_entry
Opener == {"idle", "sending", "waiting", "owner", "claiming", "opened", "failed",
           "rejected"}        \* failed: no connection; rejected: no claim

\* on_incoming_data_connection and create_data_connection for c
Incoming == {"none", "staged", "writing", "written", "end"}
Making == {"none", "dialling", "awaiting", "respond", "refuse", "end"}

\* the data connection: what its next reader finds
Link == {"none", "hello", "ready", "refused", "closed"}

VARIABLES
  open,      \* End2 -> BOOLEAN: ~TcpTunnel.closed
  up,        \* the control connection works
  control,   \* control[e]: commands written by e, not yet read
  opener, pending, oneshot, entry, incoming, making, link
vars == <<open, up, control, opener, pending, oneshot, entry, incoming, making, link>>

Cmd == [type : {"open", "success", "failure", "claim", "ack", "nack"}, conn : Conn]
Msg(type, c) == [type |-> type, conn |-> c]
SetEntry(c, e, n) == entry' = [entry EXCEPT ![c][e] = n]
SetPending(c, p) == pending' = [pending EXCEPT ![c] = p]
Put(e, m) == control' = [control EXCEPT ![e] = Append(@, m)]

-----------------------------------------------------------------------------
(* Entries *)

\* DataConnEntry::new and register_entry
NewEntry(reg, timer) ==
  [st |-> "FirstClaimPending", reg |-> reg, stream |-> "entry", timer |-> timer]

DropStream(n) == IF n.stream = "handler" THEN "handler" ELSE "dropped"

RetirePlainEntry(n) == [n EXCEPT !.st = "Retired", !.reg = FALSE, !.stream = DropStream(n)]

\* close_local on a registered entry: a bound one is left to its lease
RetireOnClose(n) ==
  IF n.reg /\ n.st # "Bound" THEN [n EXCEPT !.st = "Retired", !.stream = DropStream(n)] ELSE n

\* Mutant: the staged entry is left behind
KeepStaged(n, p) == n

\* A request that ends without success takes its staged entry with it:
\* fail_pending_open_request, cancel_pending_open_request, the two cleanups in
\* request_remote_data_connection
EndStaged(n, p) == IF p.in /\ p.staged THEN RetirePlainEntry(n) ELSE n

\* Mutant: the request is removed and its opener not told
FailPendingSilently(c) ==
  /\ SetPending(c, NoPending)
  /\ SetEntry(c, "acceptor", EndStaged(entry[c]["acceptor"], pending[c]))
  /\ UNCHANGED oneshot

\* fail_pending_open_request
FailPending(c) ==
  /\ SetPending(c, NoPending)
  /\ SetEntry(c, "acceptor", EndStaged(entry[c]["acceptor"], pending[c]))
  /\ oneshot' = [oneshot EXCEPT ![c] = IF pending[c].in /\ pending[c].sender THEN "error" ELSE @]

-----------------------------------------------------------------------------
(* The accepting end: requests *)

\* request_remote_data_connection up to send_control.  The opener has passed
\* wait_until_connected some time ago: the tunnel may be closed by now
Request(c) ==
  /\ c \in Reverse /\ opener[c] = "idle"
  /\ opener' = [opener EXCEPT ![c] = "sending"]
  /\ SetPending(c, [NoPending EXCEPT !.in = TRUE, !.sender = TRUE])
  /\ UNCHANGED <<open, up, control, oneshot, entry, incoming, making, link>>

SendRequest(c) ==
  /\ c \in Reverse /\ opener[c] = "sending" /\ up
  /\ Put("acceptor", Msg("open", c))
  /\ opener' = [opener EXCEPT ![c] = "waiting"]
  /\ UNCHANGED <<open, up, pending, oneshot, entry, incoming, making, link>>

\* The opener ends without a connection: its request cannot be sent, it is
\* dropped (PendingOpenRequestGuard), or the timeout fires before an answer
GiveUp(c) ==
  /\ c \in Reverse
  /\ \/ opener[c] = "sending" /\ ~up
     \/ opener[c] \in {"sending", "waiting"} /\ Timeouts
  /\ opener' = [opener EXCEPT ![c] = "failed"]
  /\ SetPending(c, NoPending)
  /\ SetEntry(c, "acceptor", EndStaged(entry[c]["acceptor"], pending[c]))
  /\ UNCHANGED <<open, up, control, oneshot, incoming, making, link>>

\* consume_completed_pending_open_request
CanConsume(c) ==
  pending[c].in /\ ~pending[c].sender /\ pending[c].staged /\ pending[c].corr.completed = c

\* the oneshot is answered: the entry is taken if the request still holds it
Consume(c) ==
  LET n == entry[c]["acceptor"]
  IN /\ c \in Reverse /\ opener[c] = "waiting" /\ oneshot[c] # "none"
     /\ IF oneshot[c] = "entry" /\ CanConsume(c)
        THEN /\ opener' = [opener EXCEPT ![c] = "owner"]
             /\ SetPending(c, NoPending)
             /\ SetEntry(c, "acceptor", [n EXCEPT !.timer = TRUE])
        ELSE /\ opener' = [opener EXCEPT ![c] = "failed"]
             /\ SetEntry(c, "acceptor", IF oneshot[c] = "entry" THEN RetirePlainEntry(n) ELSE n)
             /\ UNCHANGED pending
     /\ UNCHANGED <<open, up, control, oneshot, incoming, making, link>>

-----------------------------------------------------------------------------
(* The accepting end: on_incoming_data_connection *)

\* The hello arrives.  TcpTunnelRegistry::find_tunnel knows no closed tunnel;
\* a reverse connection is staged under its request, if that still waits
Accept(c) ==
  LET p == pending[c]
      known == open["acceptor"] /\ (c \in Direct \/ (p.in /\ Outcome(p.corr, Arrival(c)) = "Wait"))
  IN /\ link[c] = "hello" /\ incoming[c] = "none"
     /\ CASE ~known -> /\ link' = [link EXCEPT ![c] = "refused"]
                       /\ incoming' = [incoming EXCEPT ![c] = "end"]
                       /\ UNCHANGED <<pending, entry>>
          [] known /\ c \in Direct -> /\ incoming' = [incoming EXCEPT ![c] = "writing"]
                                      /\ UNCHANGED <<link, pending, entry>>
          [] known /\ c \in Reverse ->
               /\ incoming' = [incoming EXCEPT ![c] = "staged"]
               /\ SetPending(c, [p EXCEPT !.staged = TRUE, !.corr = Apply(p.corr, Arrival(c))])
               /\ SetEntry(c, "acceptor", NewEntry(FALSE, FALSE))
               /\ UNCHANGED link
     /\ UNCHANGED <<open, up, control, opener, oneshot, making>>

\* take_stream fails if the request ended meanwhile
TakeStream(c) ==
  LET n == entry[c]["acceptor"]
  IN /\ incoming[c] = "staged"
     /\ IF n.stream = "entry"
        THEN /\ incoming' = [incoming EXCEPT ![c] = "writing"]
             /\ SetEntry(c, "acceptor", [n EXCEPT !.stream = "handler"])
             /\ UNCHANGED link
        ELSE /\ incoming' = [incoming EXCEPT ![c] = "end"]
             /\ link' = [link EXCEPT ![c] = "closed"]
             /\ UNCHANGED entry
     /\ UNCHANGED <<open, up, control, opener, pending, oneshot, making>>

\* DataConnReady(Success) is written; the creating end may have gone
WriteReady(c) ==
  /\ incoming[c] = "writing"
  /\ incoming' = [incoming EXCEPT ![c] = "written"]
  /\ link' = [link EXCEPT ![c] = IF @ = "hello" THEN "ready" ELSE @]
  /\ UNCHANGED <<open, up, control, opener, pending, oneshot, entry, making>>

WriteReadyFails(c) ==
  /\ incoming[c] = "writing" /\ Failures
  /\ incoming' = [incoming EXCEPT ![c] = "end"]
  /\ link' = [link EXCEPT ![c] = "closed"]
  /\ SetPending(c, NoPending)
  /\ oneshot' = [oneshot EXCEPT ![c] = IF pending[c].in /\ pending[c].sender THEN "error" ELSE @]
  /\ LET n == EndStaged(entry[c]["acceptor"], pending[c])
     IN SetEntry(c, "acceptor", IF c \in Direct THEN n ELSE [n EXCEPT !.stream = "dropped"])
  /\ UNCHANGED <<open, up, control, opener, making>>

RegisterDirect(c) ==
  /\ c \in Direct /\ incoming[c] = "written"
  /\ incoming' = [incoming EXCEPT ![c] = "end"]
  /\ SetEntry(c, "acceptor", NewEntry(TRUE, TRUE))
  /\ UNCHANGED <<open, up, control, opener, pending, oneshot, making, link>>

\* put_stream, then the entry is registered under the lock that also guards the
\* request; the request may be gone, or this may complete it
RegisterReverse(c) ==
  LET p == pending[c]
      e == ArrivalRegistered(c)
      n == entry[c]["acceptor"]
      done == Outcome(p.corr, e) = "Complete"
  IN /\ c \in Reverse /\ incoming[c] = "written"
     /\ incoming' = [incoming EXCEPT ![c] = "end"]
     /\ IF p.in /\ p.staged
        THEN /\ SetEntry(c, "acceptor", [n EXCEPT !.reg = TRUE, !.stream = "entry"])
             /\ SetPending(c, [p EXCEPT !.corr = Apply(p.corr, e), !.sender = @ /\ ~done])
             /\ oneshot' = [oneshot EXCEPT ![c] = IF done THEN "entry" ELSE @]
        ELSE /\ SetEntry(c, "acceptor", [n EXCEPT !.stream = "dropped"])
             /\ UNCHANGED <<pending, oneshot>>
     /\ UNCHANGED <<open, up, control, opener, making, link>>

\* handle_open_data_conn_resp
Response(m) ==
  LET c == m.conn
      p == pending[c]
      e == SuccessResponse(c)
      done == Outcome(p.corr, e) = "Complete"
  IN CASE m.type = "failure" -> FailPending(c)
       [] m.type = "success" /\ p.in ->
            /\ SetPending(c, [p EXCEPT !.corr = Apply(p.corr, e), !.sender = @ /\ ~done])
            /\ oneshot' = [oneshot EXCEPT ![c] = IF done THEN "entry" ELSE @]
            /\ UNCHANGED entry
       [] OTHER -> UNCHANGED <<pending, oneshot, entry>>

-----------------------------------------------------------------------------
(* The creating end: create_data_connection, spawn_reverse_data_connection *)

\* a dial for itself starts the opener; a dial for the peer was requested
Dial(c) ==
  /\ making[c] = "dialling" \/ (c \in Direct /\ opener[c] = "idle")
  /\ making' = [making EXCEPT ![c] = "awaiting"]
  /\ link' = [link EXCEPT ![c] = "hello"]
  /\ opener' = [opener EXCEPT ![c] = IF c \in Direct THEN "waiting" ELSE @]
  /\ UNCHANGED <<open, up, control, pending, oneshot, entry, incoming>>

\* dialling failed, or DataConnReady was a refusal, an EOF or too late
CreateFails(c) ==
  /\ \/ making[c] = "dialling" /\ Failures
     \/ making[c] = "awaiting" /\ (link[c] \in {"refused", "closed"} \/ Failures)
  /\ making' = [making EXCEPT ![c] = IF c \in Direct THEN "end" ELSE "refuse"]
  /\ link' = [link EXCEPT ![c] = "closed"]
  /\ opener' = [opener EXCEPT ![c] = IF c \in Direct THEN "failed" ELSE @]
  /\ UNCHANGED <<open, up, control, pending, oneshot, entry, incoming>>

\* Mutant: the request is answered without the entry being registered
CreatedUnregistered(c) ==
  /\ making[c] = "awaiting" /\ link[c] = "ready"
  /\ making' = [making EXCEPT ![c] = IF c \in Direct THEN "end" ELSE "respond"]
  /\ opener' = [opener EXCEPT ![c] = IF c \in Direct THEN "owner" ELSE @]
  /\ UNCHANGED <<open, up, control, pending, oneshot, entry, incoming, link>>

\* DataConnReady(Success): the entry is registered before anything else
Created(c) ==
  /\ making[c] = "awaiting" /\ link[c] = "ready"
  /\ making' = [making EXCEPT ![c] = IF c \in Direct THEN "end" ELSE "respond"]
  /\ SetEntry(c, "creator", NewEntry(TRUE, c \in Direct))
  /\ opener' = [opener EXCEPT ![c] = IF c \in Direct THEN "owner" ELSE @]
  /\ UNCHANGED <<open, up, control, pending, oneshot, incoming, link>>

\* OpenDataConnResp; after a success the first-claim timer starts
Respond(c) ==
  LET ok == making[c] = "respond"
      n == entry[c]["creator"]
  IN /\ making[c] \in {"respond", "refuse"}
     /\ making' = [making EXCEPT ![c] = "end"]
     /\ IF up
        THEN /\ Put("creator", Msg(IF ok THEN "success" ELSE "failure", c))
             /\ SetEntry(c, "creator", [n EXCEPT !.timer = ok])
        ELSE /\ SetEntry(c, "creator", IF ok THEN RetirePlainEntry(n) ELSE n)
             /\ UNCHANGED control
     /\ UNCHANGED <<open, up, opener, pending, oneshot, incoming, link>>

-----------------------------------------------------------------------------
(* The first claim *)

\* claim_entry of the opener that got the connection
Claim(c) ==
  LET o == Owner(c)
      free == entry[c][o].st = "FirstClaimPending"
  IN /\ opener[c] = "owner"
     /\ IF free /\ up
        THEN /\ opener' = [opener EXCEPT ![c] = "claiming"]
             /\ SetEntry(c, o, [entry[c][o] EXCEPT !.st = "Claiming"])
             /\ Put(o, Msg("claim", c))
        ELSE /\ opener' = [opener EXCEPT ![c] = "rejected"]
             /\ UNCHANGED <<entry, control>>
     /\ UNCHANGED <<open, up, pending, oneshot, incoming, making, link>>

\* find_claimable_entry and claim_entry of another opener of the same end
Steal(c) ==
  LET o == Owner(c)
  IN /\ Stealing /\ open[o] /\ up
     /\ entry[c][o].reg /\ entry[c][o].st = "FirstClaimPending"
     /\ SetEntry(c, o, [entry[c][o] EXCEPT !.st = "Claiming"])
     /\ Put(o, Msg("claim", c))
     /\ UNCHANGED <<open, up, opener, pending, oneshot, incoming, making, link>>

\* claim_entry gives up
ClaimTimeout(c) ==
  /\ Timeouts /\ opener[c] = "claiming"
  /\ opener' = [opener EXCEPT ![c] = "rejected"]
  /\ SetEntry(c, Owner(c), RetirePlainEntry(entry[c][Owner(c)]))
  /\ UNCHANGED <<open, up, control, pending, oneshot, incoming, making, link>>

\* start_first_claim_timeout fires
FirstClaimTimeout(c, e) ==
  /\ Timeouts /\ entry[c][e].timer
  /\ LET n == [entry[c][e] EXCEPT !.timer = FALSE]
     IN SetEntry(c, e, IF n.st = "FirstClaimPending" THEN RetirePlainEntry(n) ELSE n)
  /\ UNCHANGED <<open, up, control, opener, pending, oneshot, incoming, making, link>>

\* process_claim_req at the end that may not claim first
ClaimReq(e, m) ==
  LET c == m.conn
      ok == entry[c][e].reg /\ entry[c][e].st = "FirstClaimPending"
  IN /\ SetEntry(c, e, [entry[c][e] EXCEPT !.st = IF ok THEN "Bound" ELSE @])
     /\ control' = [control EXCEPT ![Peer(e)] = Tail(@),
                                   ![e] = Append(@, Msg(IF ok THEN "ack" ELSE "nack", c))]

\* handle_claim_ack; the opener, if the claim was its own, gets the result
ClaimAck(e, m) ==
  LET c == m.conn
      mine == entry[c][e].st = "Claiming"
      ok == m.type = "ack"
  IN /\ SetEntry(c, e, [entry[c][e] EXCEPT !.st =
                        CASE ~mine -> @ [] mine /\ ok -> "Bound" [] OTHER -> "FirstClaimPending"])
     /\ opener' = [opener EXCEPT ![c] =
                     IF mine /\ @ = "claiming" THEN (IF ok THEN "opened" ELSE "rejected") ELSE @]

-----------------------------------------------------------------------------
(* The control connection and the end of the tunnel *)

\* control_recv_loop: it goes on after Tunnel::close until a handler fails; a
\* claim that reaches a closed tunnel is such a failure
Receive(e) ==
  LET m == Head(control[Peer(e)])
  IN /\ control[Peer(e)] # <<>>
     /\ CASE m.type = "open" ->
               /\ making' = [making EXCEPT ![m.conn] = "dialling"]
               /\ control' = [control EXCEPT ![Peer(e)] = Tail(@)]
               /\ UNCHANGED <<up, opener, pending, oneshot, entry>>
          [] m.type \in {"success", "failure"} ->
               /\ Response(m)
               /\ control' = [control EXCEPT ![Peer(e)] = Tail(@)]
               /\ UNCHANGED <<up, opener, making>>
          [] m.type = "claim" /\ open[e] ->
               /\ ClaimReq(e, m)
               /\ UNCHANGED <<up, opener, pending, oneshot, making>>
          [] m.type = "claim" /\ ~open[e] ->
               /\ up' = FALSE
               /\ control' = [x \in End2 |-> <<>>]
               /\ UNCHANGED <<opener, pending, oneshot, entry, making>>
          [] m.type \in {"ack", "nack"} ->
               /\ ClaimAck(e, m)
               /\ control' = [control EXCEPT ![Peer(e)] = Tail(@)]
               /\ UNCHANGED <<up, pending, oneshot, making>>
     /\ UNCHANGED <<open, incoming, link>>

\* the control connection breaks: what was on it is lost
Break ==
  /\ Closes /\ up
  /\ up' = FALSE
  /\ control' = [e \in End2 |-> <<>>]
  /\ UNCHANGED <<open, opener, pending, oneshot, entry, incoming, making, link>>

\* close_local, by the user or because the control connection is gone: every
\* request ends, every entry that serves no channel is retired, every claim
\* that waits is told
Close(e) ==
  LET mine(c) == e = "acceptor" /\ pending[c].in
  IN /\ open[e] /\ (Closes \/ ~up)
     /\ open' = [open EXCEPT ![e] = FALSE]
     /\ pending' = [c \in Conn |-> IF mine(c) THEN NoPending ELSE pending[c]]
     /\ oneshot' = [c \in Conn |-> IF mine(c) /\ pending[c].sender THEN "error" ELSE oneshot[c]]
     /\ entry' = [c \in Conn |->
                    [entry[c] EXCEPT ![e] =
                       RetireOnClose(IF mine(c) THEN EndStaged(@, pending[c]) ELSE @)]]
     /\ opener' = [c \in Conn |->
                     IF Owner(c) = e /\ opener[c] = "claiming" THEN "rejected" ELSE opener[c]]
     /\ UNCHANGED <<up, control, incoming, making, link>>

-----------------------------------------------------------------------------
Init ==
  /\ open = [e \in End2 |-> TRUE] /\ up = TRUE
  /\ control = [e \in End2 |-> <<>>]
  /\ opener = [c \in Conn |-> "idle"]
  /\ pending = [c \in Conn |-> NoPending]
  /\ oneshot = [c \in Conn |-> "none"]
  /\ entry = [c \in Conn |-> [e \in End2 |-> NoEntry]]
  /\ incoming = [c \in Conn |-> "none"]
  /\ making = [c \in Conn |-> "none"]
  /\ link = [c \in Conn |-> "none"]

Opening(c) == Request(c) \/ SendRequest(c) \/ GiveUp(c) \/ Consume(c)
              \/ Claim(c) \/ Steal(c) \/ ClaimTimeout(c)
Accepting(c) == Accept(c) \/ TakeStream(c) \/ WriteReady(c) \/ WriteReadyFails(c)
                \/ RegisterDirect(c) \/ RegisterReverse(c)
Creating(c) == Dial(c) \/ CreateFails(c) \/ Created(c) \/ Respond(c)

Next == \/ \E c \in Conn : Opening(c) \/ Accepting(c) \/ Creating(c)
        \/ \E c \in Conn, e \in End2 : FirstClaimTimeout(c, e)
        \/ \E e \in End2 : Receive(e) \/ Close(e)
        \/ Break
Spec == Init /\ [][Next]_vars

\* Every task of the tunnel that can run runs, the control connection delivers
\* and the first-claim timer fires; whether a request or a claim times out
\* before its answer is left open
Fairness ==
  /\ \A c \in Conn : WF_vars(Accepting(c)) /\ WF_vars(Creating(c))
                      /\ WF_vars(SendRequest(c)) /\ WF_vars(Consume(c)) /\ WF_vars(Claim(c))
  /\ \A c \in Conn, e \in End2 : WF_vars(FirstClaimTimeout(c, e))
  /\ \A e \in End2 : WF_vars(Receive(e)) /\ WF_vars(Close(e) /\ ~up)
FairSpec == Spec /\ Fairness

-----------------------------------------------------------------------------
(* Properties *)

\* The type invariant
TypeOK ==
  /\ open \in [End2 -> BOOLEAN] /\ up \in BOOLEAN
  /\ control \in [End2 -> Seq(Cmd)]
  /\ opener \in [Conn -> Opener] /\ pending \in [Conn -> Pending]
  /\ oneshot \in [Conn -> {"none", "entry", "error"}]
  /\ entry \in [Conn -> [End2 -> Entry]]
  /\ incoming \in [Conn -> Incoming] /\ making \in [Conn -> Making]
  /\ link \in [Conn -> Link]

\* The registration barrier of a reverse connection: the opener that
\* request_remote_data_connection hands the entry to claims a connection that
\* the creating end has registered, in whatever order the connection, its
\* local registration and the response came
BarrierHolds ==
  \A c \in Reverse : opener[c] \in {"owner", "claiming", "opened"} =>
                       entry[c]["creator"].st # "none"

\* A request that ended without a connection leaves nothing behind once the
\* handler of the arriving connection is through: no entry waits for a claim,
\* and a retired one has let go of its stream and of its place in the map
RequestLeavesNothing ==
  \A c \in Reverse :
    LET n == entry[c]["acceptor"]
    IN opener[c] = "failed" /\ incoming[c] \in {"none", "end"} =>
         /\ n.st # "FirstClaimPending"
         /\ n.st = "Retired" => n.stream = "dropped" /\ ~(n.reg /\ open["acceptor"])

\* A request made on an open tunnel is answered without its own timeout:
\* failures of the dial, of the ready exchange on either side and of the
\* control connection all come back to the oneshot
RequestAnswered ==
  \A c \in Reverse : (opener[c] = "waiting" /\ open["acceptor"]) ~> opener[c] # "waiting"

-----------------------------------------------------------------------------
(* What the protocol's design document says and the code does otherwise *)

\* A reverse connection is not claimed before the matching OpenDataConnResp
\* arrived: no end claims what its peer has not registered
ClaimWaitsForResponse ==
  \A c \in Reverse : entry[c]["acceptor"].st = "Claiming" => entry[c]["creator"].st # "none"

\* FirstClaimPending is no state to stay in: an end that owns the first claim
\* leaves it, by a claim or by the timeout
FirstClaimTransient ==
  \A c \in Conn : LET e == Owner(c)
                  IN entry[c][e].st = "FirstClaimPending" ~> entry[c][e].st # "FirstClaimPending"

\* DataConnReady(Success) on a direct connection says that the accepting end
\* has registered it
ReadyMeansRegistered ==
  \A c \in Direct : link[c] = "ready" => entry[c]["acceptor"].st # "none"
=============================================================================
