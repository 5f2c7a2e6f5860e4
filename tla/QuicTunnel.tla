----------------------------- MODULE QuicTunnel -----------------------------
(***************************************************************************)
(* One QUIC tunnel, seen from its two ends: QuicTunnel of                  *)
(* p2p-frame/src/networks/quic/tunnel.rs.  The ends exchange a hello on a  *)
(* command stream, then each reads commands and sends heartbeats on it;    *)
(* either end opens streams (a QUIC stream of their own, answered on that  *)
(* stream), datagram channels (a one-way QUIC stream, answered on the      *)
(* command stream) and control streams (frames on the command stream,      *)
(* module ControlStream).  Each end counts opens and channels in its       *)
(* TunnelActivity, which the tunnel manager retires when it is idle.       *)
(*                                                                         *)
(* The commands of one end arrive in order.  A connection may go down at   *)
(* either end at any time, and an end that is closed stays silent to the   *)
(* other until QUIC or the heartbeat notices.  A timeout may elapse as     *)
(* long as what it waits for has not happened.                             *)
(***************************************************************************)
EXTENDS ControlStream, TunnelActivity, FiniteSets

CONSTANTS StreamOpens,   \* the opens of streams, odd for the active end
          DatagramOpens, \* the opens of datagram channels, likewise
          Unserved,      \* opens for a purpose that nobody listens to
          Lossy,         \* the ends at which the connection may just break
          Writers,       \* the ends whose users write to control streams
          Budget         \* bound on opens, Data frames and heartbeats together

ASSUME QuicAssumption ==
  /\ StreamOpens \subseteq Nat /\ DatagramOpens \subseteq Nat
  /\ StreamOpens \cap DatagramOpens = {}
  /\ StreamId \cap (StreamOpens \cup DatagramOpens) = {}
  /\ Lossy \subseteq End /\ Writers \subseteq End /\ Budget \in Nat

ChannelOpens == StreamOpens \cup DatagramOpens
Opens == ChannelOpens \cup StreamId
Kind(o) == IF o \in StreamOpens THEN "stream"
           ELSE IF o \in DatagramOpens THEN "datagram" ELSE "control"
Server(o) == Peer(Opener(o))

VARIABLES up,       \* the ends whose tunnel object exists
          sock,     \* the ends whose connection has no close_reason
          closed,   \* the ends whose tunnel is closed
          act,      \* TunnelActivity of each end
          pings,    \* heartbeats sent by each end
          listens,  \* the kinds of channels each end accepts
          open,     \* how far the opener of a channel is
          serve,    \* how far the other end is with it
          reply,    \* what the opener of a stream or datagram was answered
          requests, \* pending_open_requests of the ends
          hold,     \* the halves of channels in the hands of users
          wrote,    \* Data frames written to a control stream by an end
          shut,     \* the ends that have shut a control stream down
          got,      \* the last Data frame read from it by an end
          ended     \* how it ended for the reader

tunnel   == <<up, sock, closed>>
channels == <<open, serve, reply, requests, hold>>
payload  == <<wrote, shut, got, ended>>
vars == <<cmd, control, tunnel, act, pings, listens, channels, payload>>

Init ==
  /\ ControlInit
  /\ cmd = [e \in End |-> IF e = "active" THEN <<Frame("Hello", NoStream, 0)>> ELSE <<>>]
  /\ up = {} /\ sock = End /\ closed = {}
  /\ act = [e \in End |-> NewActivity]
  /\ pings = [e \in End |-> 0]
  /\ listens = [e \in End |-> {}]
  /\ open = [o \in Opens |-> "idle"]
  /\ serve = [o \in Opens |-> "none"]
  /\ reply = [o \in ChannelOpens |-> "none"]
  /\ requests = {}
  /\ hold = [e \in End |-> {}]
  /\ wrote = [e \in End |-> [c \in StreamId |-> 0]]
  /\ shut = [e \in End |-> {}]
  /\ got = [e \in End |-> [c \in StreamId |-> 0]]
  /\ ended = [e \in End |-> [c \in StreamId |-> "no"]]

\* What the users and the heartbeats have done so far: a stream or datagram
\* open and a heartbeat are charged 2, a control open and a Data frame 1.
Spent ==
  Cardinality({o \in Opens : open[o] # "idle"})
  + Cardinality({o \in ChannelOpens : open[o] # "idle"})
  + Cardinality({x \in End \X StreamId \X (1..Budget) : x[3] <= wrote[x[1]][x[2]]})
  + 2 * (pings["active"] + pings["passive"])

Cost(o) == IF o \in ChannelOpens THEN 2 ELSE 1

IsClosed(e) == e \in closed \/ e \notin sock

Running(e) == e \in up /\ ~IsClosed(e)

\* What an end writes reaches the other as long as that one still reads.
Sent(e, f) ==
  IF Peer(e) \in closed THEN cmd ELSE [cmd EXCEPT ![e] = Append(@, f)]

-----------------------------------------------------------------------------
(* Setup and close.                                                        *)

Accept ==
  /\ "passive" \in sock \ up
  /\ cmd["active"] # <<>>
  /\ cmd' = [active |-> Tail(cmd["active"]),
             passive |-> Append(cmd["passive"], Frame("HelloResp", NoStream, 0))]
  /\ up' = up \cup {"passive"}
  /\ UNCHANGED <<control, sock, closed, act, pings, listens, channels, payload>>

Connect ==
  /\ "active" \in sock \ up
  /\ cmd["passive"] # <<>>
  /\ cmd' = [cmd EXCEPT !["passive"] = Tail(@)]
  /\ up' = up \cup {"active"}
  /\ UNCHANGED <<control, sock, closed, act, pings, listens, channels, payload>>

\* close_with_error.
Close(e) ==
  /\ act' = [act EXCEPT ![e] = Retired(@)]
  /\ closed' = closed \cup {e}
  /\ sock' = sock \ {e}
  /\ CloseAll(e)
  /\ cmd' = [cmd EXCEPT ![Peer(e)] = <<>>]
  /\ reply' = [o \in ChannelOpens |->
                 IF o \in requests /\ Opener(o) = e THEN "err" ELSE reply[o]]
  /\ requests' = {o \in requests : Opener(o) # e}
  /\ UNCHANGED <<up, pings, listens, hold, payload>>

CloseTunnel(e) == e \in up /\ e \notin closed /\ Close(e)
                  /\ UNCHANGED <<open, serve>>

\* QUIC reports the connection lost, or closed by the other end.
ConnectionLost(e) ==
  /\ e \in sock
  /\ e \in Lossy \/ Peer(e) \notin sock
  /\ sock' = sock \ {e}
  /\ UNCHANGED <<cmd, control, up, closed, act, pings, listens, channels, payload>>

\* The command receive loop, and the accept loops, fail.
NoticeLoss(e) == e \in up \ closed /\ e \notin sock /\ Close(e)
                  /\ UNCHANGED <<open, serve>>

\* heartbeat_loop: an end that hears commands or pongs stays up, so its
\* timeout needs the other end to be gone.
HeartbeatTimeout(e) ==
  /\ Running(e)
  /\ Peer(e) \notin sock
  /\ Close(e)
  /\ UNCHANGED <<open, serve>>

Ping(e) ==
  /\ Running(e)
  /\ Spent + 2 <= Budget
  /\ pings' = [pings EXCEPT ![e] = @ + 1]
  /\ cmd' = Sent(e, Frame("Ping", NoStream, pings'[e]))
  /\ UNCHANGED <<control, tunnel, act, listens, channels, payload>>

TryRetireIdle(e) ==
  /\ e \in up
  /\ MayRetireIdle(act[e])
  /\ act' = [act EXCEPT ![e] = RetiredIdle(@)]
  /\ UNCHANGED <<cmd, control, tunnel, pings, listens, channels, payload>>

-----------------------------------------------------------------------------
(* Listening and opening.                                                  *)

\* Only the listeners that some open asks for matter.
Asked(e) == {Kind(o) : o \in {x \in Opens : Server(x) = e}}

ListenChannel(e, k) ==
  /\ Live(act[e]) /\ Running(e)
  /\ k \in Asked(e) \ listens[e]
  /\ listens' = [listens EXCEPT ![e] = @ \cup {k}]
  /\ UNCHANGED <<cmd, control, tunnel, act, pings, channels, payload>>

ListenControl(e) ==
  /\ Live(act[e]) /\ Running(e)
  /\ "control" \in Asked(e) /\ e \notin listener
  /\ Listen(e)
  /\ UNCHANGED <<cmd, tunnel, act, pings, listens, channels, payload>>

BeginOpen(o) ==
  LET e == Opener(o) IN
  /\ e \in up /\ open[o] = "idle"
  /\ Spent + Cost(o) <= Budget
  /\ IF Live(act[e])
     THEN /\ act' = [act EXCEPT ![e] = BeginPending(@)]
          /\ open' = [open EXCEPT ![o] = "begun"]
     ELSE /\ open' = [open EXCEPT ![o] = "err"]
          /\ UNCHANGED act
  /\ UNCHANGED <<cmd, control, tunnel, pings, listens, serve, reply, requests,
                 hold, payload>>

\* The request is written; on a connection that is down this fails.
SendOpen(o) ==
  LET e == Opener(o) IN
  /\ open[o] = "begun" /\ ~IsClosed(e)
  /\ open' = [open EXCEPT ![o] = "sent"]
  /\ IF Kind(o) = "control"
     THEN /\ RegisterOpen(e, o)
          /\ cmd' = Sent(e, Frame("Open", o, 0))
          /\ UNCHANGED <<serve, requests>>
     ELSE /\ serve' = [serve EXCEPT ![o] = "queued"]
          /\ requests' = IF Kind(o) = "datagram" THEN requests \cup {o} ELSE requests
          /\ UNCHANGED <<cmd, control>>
  /\ UNCHANGED <<tunnel, act, pings, listens, reply, hold, payload>>

\* What the opener waits for: the response on its stream, or what the
\* command loop sent to its waiter.
Answer(o) == IF Kind(o) = "control" THEN told[o] ELSE reply[o]

\* Mutant: the guard of a failed open is forgotten.
FailOpenLeaks(o) ==
  /\ open' = [open EXCEPT ![o] = "err"]
  /\ UNCHANGED <<act, cmd, control, tunnel, pings, listens, serve, reply,
                 requests, hold, payload>>

\* An open that fails drops its PendingTunnelActivity.
FailOpen(o) ==
  /\ open' = [open EXCEPT ![o] = "err"]
  /\ act' = [act EXCEPT ![Opener(o)] = DropPending(@)]
  /\ UNCHANGED <<cmd, control, tunnel, pings, listens, serve, reply, requests,
                 hold, payload>>

OpenGivesUp(o) ==
  /\ \/ open[o] = "begun" /\ IsClosed(Opener(o))
     \/ open[o] = "sent" /\ Answer(o) = "err"
     \/ open[o] = "sent" /\ Kind(o) = "stream" /\ Opener(o) \notin sock
     \/ open[o] = "late"
  /\ FailOpen(o)

HalvesOf(o, e) ==
  IF Kind(o) # "datagram" THEN {"r", "w"} ELSE IF e = Opener(o) THEN {"w"} ELSE {"r"}

\* promote_stream and promote_datagram: the halves go to the user, unless the
\* tunnel was retired.
Established(o, e) ==
  /\ act' = [act EXCEPT ![e] = Promote(@, Cardinality(HalvesOf(o, e)))]
  /\ hold' = [hold EXCEPT ![e] =
                IF Live(act[e]) THEN @ \cup ({o} \X HalvesOf(o, e)) ELSE @]

OpenSucceeds(o) ==
  LET e == Opener(o) IN
  /\ open[o] = "sent" /\ Answer(o) = "ok"
  /\ Kind(o) = "stream" => e \in sock
  /\ Established(o, e)
  /\ open' = [open EXCEPT ![o] = IF Live(act[e]) THEN "ok" ELSE "err"]
  /\ UNCHANGED <<cmd, control, tunnel, pings, listens, serve, reply, requests, payload>>

\* Ten seconds without an answer: a stream or datagram open closes the whole
\* tunnel, a control open only gives up.
OpenTimeout(o) ==
  LET e == Opener(o) IN
  /\ open[o] = "sent" /\ Answer(o) = "none"
  /\ open' = [open EXCEPT ![o] = "late"]
  /\ IF Kind(o) = "control"
     THEN /\ DropOpen(e, o)
          /\ UNCHANGED <<cmd, tunnel, act, pings, listens, serve, reply,
                         requests, hold, payload>>
     ELSE Close(e) /\ UNCHANGED serve

DropHalf(e, o, h) ==
  /\ <<o, h>> \in hold[e]
  /\ hold' = [hold EXCEPT ![e] = @ \ {<<o, h>>}]
  /\ act' = [act EXCEPT ![e] = DropWork(@)]
  /\ IF Kind(o) = "control" /\ h = "r" THEN DropReader(e, o) ELSE UNCHANGED control
  /\ UNCHANGED <<cmd, tunnel, pings, listens, open, serve, reply, requests, payload>>

-----------------------------------------------------------------------------
(* Accepting streams and datagrams.                                        *)

\* bi_accept_loop and uni_accept_loop hand the stream to a task of its own.
AcceptChannel(o) ==
  LET p == Server(o) IN
  /\ serve[o] = "queued" /\ Running(p) /\ Kind(o) \in listens[p]
  /\ serve' = [serve EXCEPT ![o] = "accepted"]
  /\ UNCHANGED <<cmd, control, tunnel, act, pings, listens, open, reply,
                 requests, hold, payload>>

\* The task answers: on the stream, or by a command.
Respond(o, ok) ==
  IF Kind(o) = "stream"
  THEN /\ reply' = [reply EXCEPT ![o] = IF ok THEN "ok" ELSE "err"]
       /\ UNCHANGED cmd
  ELSE /\ cmd' = Sent(Server(o), Frame("OpenChannelResp", o, IF ok THEN 1 ELSE 0))
       /\ UNCHANGED reply

\* Mutant: the channel is counted only when the callback gets it.
AnswerOpenUncounted(o) ==
  LET p == Server(o) IN
  /\ serve[o] = "accepted" /\ Running(p)
  /\ IF o \in Unserved \/ ~Live(act[p])
     THEN serve' = [serve EXCEPT ![o] = "refused"] /\ Respond(o, FALSE)
     ELSE serve' = [serve EXCEPT ![o] = "granted"] /\ Respond(o, TRUE)
  /\ UNCHANGED <<act, control, tunnel, pings, listens, open, requests, hold, payload>>

AnswerOpen(o) ==
  LET p == Server(o) IN
  /\ serve[o] = "accepted" /\ Running(p)
  /\ IF o \in Unserved \/ ~Live(act[p])
     THEN /\ serve' = [serve EXCEPT ![o] = "refused"]
          /\ Respond(o, FALSE)
          /\ UNCHANGED act
     ELSE /\ serve' = [serve EXCEPT ![o] = "granted"]
          /\ act' = [act EXCEPT ![p] = BeginPending(@)]
          /\ Respond(o, TRUE)
  /\ UNCHANGED <<control, tunnel, pings, listens, open, requests, hold, payload>>

\* handle_incoming_stream_open and handle_incoming_datagram_open
HandleOpenReq(o) == Kind(o) = "stream" /\ AnswerOpen(o)
HandleDatagramOpenReq(o) == Kind(o) = "datagram" /\ AnswerOpen(o)

\* The request cannot be read from a connection that is down, which closes
\* the tunnel.
HandleOpenReqFails(o) ==
  LET p == Server(o) IN
  /\ serve[o] = "accepted" /\ IsClosed(p)
  /\ serve' = [serve EXCEPT ![o] = "gone"]
  /\ Close(p)
  /\ UNCHANGED open

\* The acknowledged channel goes to the callback, unless the tunnel was
\* retired since.
ServeChannel(o) ==
  LET p == Server(o) IN
  /\ serve[o] = "granted"
  /\ Established(o, p)
  /\ serve' = [serve EXCEPT ![o] = IF Live(act[p]) THEN "served" ELSE "gone"]
  /\ UNCHANGED <<cmd, control, tunnel, pings, listens, open, reply, requests, payload>>

-----------------------------------------------------------------------------
(* The command receive loop.                                               *)

Head1(e) == Head(cmd[Peer(e)])

Receiving(e, k) ==
  /\ Running(e)
  /\ arriving[e] = NoStream
  /\ cmd[Peer(e)] # <<>>
  /\ Head1(e).kind = k

\* The commands after the head of the queue is taken and f is answered.
Taken(e) == [cmd EXCEPT ![Peer(e)] = Tail(@)]
Replied(e, f) ==
  IF Peer(e) \in closed THEN Taken(e) ELSE [Taken(e) EXCEPT ![e] = Append(@, f)]

RecvPing(e) ==
  /\ Receiving(e, "Ping")
  /\ cmd' = Replied(e, Frame("Pong", NoStream, Head1(e).arg))
  /\ UNCHANGED <<control, tunnel, act, pings, listens, channels, payload>>

RecvPong(e) ==
  /\ Receiving(e, "Pong")
  /\ cmd' = Taken(e)
  /\ UNCHANGED <<control, tunnel, act, pings, listens, channels, payload>>

RecvOpenChannelResp(e) ==
  LET o == Head1(e).id IN
  /\ Receiving(e, "OpenChannelResp")
  /\ cmd' = Taken(e)
  /\ requests' = requests \ {o}
  /\ reply' = [reply EXCEPT ![o] = IF o \notin requests THEN @
                                   ELSE IF Head1(e).arg = 1 THEN "ok" ELSE "err"]
  /\ UNCHANGED <<control, tunnel, act, pings, listens, open, serve, hold, payload>>

\* handle_open, with track_stream_result as its prepare step: the stream is
\* counted before its opener is told.
RecvOpen(e) ==
  LET c == Head1(e).id
      ok == MayAccept(e, c, c \notin Unserved) /\ Live(act[e])
  IN
  /\ Receiving(e, "Open")
  /\ HandleOpen(e, c, c \notin Unserved, Live(act[e]))
  /\ cmd' = Replied(e, Frame("OpenResp", c, IF ok THEN 1 ELSE 0))
  /\ act' = [act EXCEPT ![e] = IF ok THEN AcquireWork(@, 2) ELSE @]
  /\ hold' = [hold EXCEPT ![e] = IF ok THEN @ \cup {<<c, "r">>, <<c, "w">>} ELSE @]
  /\ serve' = [serve EXCEPT ![c] = IF ok THEN "served" ELSE "refused"]
  /\ UNCHANGED <<tunnel, pings, listens, open, reply, requests, payload>>

RecvOpenResp(e) ==
  /\ Receiving(e, "OpenResp")
  /\ HandleOpenResp(e, Head1(e).id, Head1(e).arg = 1)
  /\ cmd' = Taken(e)
  /\ UNCHANGED <<tunnel, act, pings, listens, channels, payload>>

\* The second half of handle_open_resp; the tunnel may have been closed.
RecvOpenRespInsert(e) ==
  /\ arriving[e] # NoStream
  /\ InsertStream(e)
  /\ UNCHANGED <<cmd, tunnel, act, pings, listens, channels, payload>>

\* The reading half, which the opener has before it is established.
HasReader(e, c) == <<c, "r">> \in hold[e] \/ (Opener(c) = e /\ open[c] = "sent")

\* Mutant: a frame that does not fit is dropped.
RecvDataDrops(e) ==
  LET c == Head1(e).id IN
  /\ Receiving(e, "Data")
  /\ cmd' = Taken(e)
  /\ IF c \in streams[e] /\ HasReader(e, c) /\ Fits(e, c)
     THEN Deliver(e, c, Head1(e).arg) ELSE UNCHANGED control
  /\ UNCHANGED <<tunnel, act, pings, listens, channels, payload>>

RecvData(e) ==
  LET c == Head1(e).id IN
  /\ Receiving(e, "Data")
  /\ \/ /\ c \notin streams[e]
        /\ cmd' = Taken(e)
        /\ UNCHANGED control
     \/ /\ c \in streams[e] /\ HasReader(e, c) /\ Fits(e, c)
        /\ Deliver(e, c, Head1(e).arg)
        /\ cmd' = Taken(e)
     \/ /\ c \in streams[e] /\ HasReader(e, c) /\ ~Fits(e, c)
        /\ EndStream(e, c, Reset)
        /\ cmd' = Replied(e, Frame("Reset", c, 0))
     \/ /\ c \in streams[e] /\ ~HasReader(e, c)
        /\ Forget(e, c)
        /\ cmd' = Replied(e, Frame("Reset", c, 0))
  /\ UNCHANGED <<tunnel, act, pings, listens, channels, payload>>

RecvFin(e) ==
  /\ Receiving(e, "Fin")
  /\ EndStream(e, Head1(e).id, Fin)
  /\ cmd' = Taken(e)
  /\ UNCHANGED <<tunnel, act, pings, listens, channels, payload>>

RecvReset(e) ==
  /\ Receiving(e, "Reset")
  /\ EndStream(e, Head1(e).id, Reset)
  /\ cmd' = Taken(e)
  /\ UNCHANGED <<tunnel, act, pings, listens, channels, payload>>

-----------------------------------------------------------------------------
(* The users of control streams.                                           *)

MayWrite(e, c) ==
  /\ e \in Writers
  /\ <<c, "w">> \in hold[e] /\ c \notin shut[e]
  /\ e \notin ctlClosed /\ e \in sock

Write(e, c) ==
  /\ MayWrite(e, c)
  /\ Spent < Budget
  /\ wrote' = [wrote EXCEPT ![e][c] = @ + 1]
  /\ cmd' = Sent(e, Frame("Data", c, wrote[e][c] + 1))
  /\ UNCHANGED <<control, tunnel, act, pings, listens, channels, shut, got, ended>>

Shutdown(e, c) ==
  /\ MayWrite(e, c)
  /\ shut' = [shut EXCEPT ![e] = @ \cup {c}]
  /\ cmd' = Sent(e, Frame("Fin", c, 0))
  /\ UNCHANGED <<control, tunnel, act, pings, listens, channels, wrote, got, ended>>

Read(e, c) ==
  /\ <<c, "r">> \in hold[e] /\ ended[e][c] = "no"
  /\ TakeItem(e, c)
  /\ LET item == Head(inbox[e][c]) IN
     IF item.kind = "Data"
     THEN got' = [got EXCEPT ![e][c] = item.arg] /\ UNCHANGED ended
     ELSE ended' = [ended EXCEPT ![e][c] = item.kind] /\ UNCHANGED got
  /\ UNCHANGED <<cmd, tunnel, act, pings, listens, channels, wrote, shut>>

-----------------------------------------------------------------------------
Receive(e) ==
  \/ RecvPing(e) \/ RecvPong(e) \/ RecvOpenChannelResp(e)
  \/ RecvOpen(e) \/ RecvOpenResp(e) \/ RecvOpenRespInsert(e)
  \/ RecvData(e) \/ RecvFin(e) \/ RecvReset(e)

OpenStep(o) ==
  \/ SendOpen(o) \/ OpenGivesUp(o) \/ OpenSucceeds(o) \/ OpenTimeout(o)

ServeStep(o) ==
  \/ AcceptChannel(o) \/ HandleOpenReq(o) \/ HandleDatagramOpenReq(o)
  \/ HandleOpenReqFails(o) \/ ServeChannel(o)

Next ==
  \/ Accept \/ Connect
  \/ \E e \in End :
        \/ CloseTunnel(e) \/ ConnectionLost(e) \/ NoticeLoss(e)
        \/ HeartbeatTimeout(e) \/ Ping(e) \/ TryRetireIdle(e)
        \/ ListenControl(e) \/ Receive(e)
        \/ \E k \in {"stream", "datagram"} : ListenChannel(e, k)
        \/ \E c \in StreamId : Write(e, c) \/ Shutdown(e, c) \/ Read(e, c)
        \/ \E o \in Opens, h \in {"r", "w"} : DropHalf(e, o, h)
  \/ \E o \in Opens : BeginOpen(o) \/ OpenStep(o)
  \/ \E o \in ChannelOpens : ServeStep(o)

Spec == Init /\ [][Next]_vars

Fairness ==
  /\ \A e \in End :
        /\ WF_vars(Receive(e)) /\ WF_vars(NoticeLoss(e)) /\ WF_vars(HeartbeatTimeout(e))
        /\ \A c \in StreamId : WF_vars(Read(e, c))
  /\ \A o \in Opens : WF_vars(OpenStep(o))

LiveSpec == Spec /\ Fairness

-----------------------------------------------------------------------------
(* Properties.                                                             *)

TypeOK ==
  /\ ControlTypeOK
  /\ up \subseteq End /\ sock \subseteq End /\ closed \subseteq up
  /\ act \in [End -> Activity]
  /\ listens \in [End -> SUBSET {"stream", "datagram"}]
  /\ open \in [Opens -> {"idle", "begun", "sent", "late", "ok", "err"}]
  /\ serve \in [Opens -> {"none", "queued", "accepted", "granted", "served",
                          "refused", "gone"}]
  /\ reply \in [ChannelOpens -> {"none", "ok", "err"}]
  /\ requests \subseteq DatagramOpens
  /\ hold \in [End -> SUBSET (Opens \X {"r", "w"})]

\* Who holds a PendingTunnelActivity of end e: its own opens until they end,
\* and the opens it has acknowledged but not yet handed to its callback.
Pending(e) ==
  {o \in Opens : \/ Opener(o) = e /\ open[o] \in {"begun", "sent", "late"}
                 \/ Server(o) = e /\ serve[o] = "granted"}

ActiveUse == INSTANCE ActivityUse
               WITH User <- Opens, activity <- act["active"],
                    pend <- Pending("active"), held <- hold["active"]
PassiveUse == INSTANCE ActivityUse
                WITH User <- Opens, activity <- act["passive"],
                     pend <- Pending("passive"), held <- hold["passive"]

\* Each end takes and drops the guards of its TunnelActivity as ActivityUse
\* says: every open and every half of a channel is counted from its begin to
\* its end, on every error path (QuicTunnel's use of begin_pending, promote_*
\* and track_stream_result, and the guards' Drop).
CountsUses == ActiveUse!UseSpec /\ PassiveUse!UseSpec

\* An open that succeeded has been, or is being, given to the callback of the
\* other end, unless that end was closed: in particular the retirement of an
\* idle tunnel never takes back an acknowledgement (handle_incoming_stream_open,
\* handle_incoming_datagram_open, handle_open with its prepare step).
OpenedIsServed ==
  \A o \in Opens : open[o] = "ok" =>
    serve[o] \in {"granted", "served"} \/ Server(o) \in closed

IsData(item) == item.kind = "Data"

\* A reader of a control stream gets the frames of the writer in order and
\* without a gap, and if it is told that the stream has finished, it has got
\* all of them: overflow, a dropped reader and a close end the stream by a
\* Reset (deliver, finish_stream, reset_stream, close_all).
NothingSkipped ==
  \A e \in End, c \in StreamId : <<c, "r">> \in hold[e] =>
    LET waiting == SelectSeq(inbox[e][c], IsData) IN
    /\ \A i \in 1..Len(waiting) : waiting[i].arg = got[e][c] + i
    /\ (\/ ended[e][c] = "Fin"
        \/ \E i \in 1..Len(inbox[e][c]) : inbox[e][c][i] = Fin)
         => got[e][c] + Len(waiting) = wrote[Peer(e)][c]

\* The stream was inserted after close_all had emptied the table: nobody will
\* ever tell its reader (the window inside handle_open_resp).
MissedClose(e, c) == c \in streams[e] /\ e \in ctlClosed

\* A reader learns of the end of its control stream: after the writer has shut
\* it down, or after the tunnel of the reader was closed, it is told Fin or
\* Reset, however full its queue is.  The exception is the stream that missed
\* the close.
ReaderEnds ==
  \A e \in End, c \in StreamId :
    <<c, "r">> \in hold[e] /\ (c \in shut[Peer(e)] \/ e \in closed)
      ~> <<c, "r">> \notin hold[e] \/ ended[e][c] # "no" \/ MissedClose(e, c)
=============================================================================
