---------------------------- MODULE ControlStream ----------------------------
(***************************************************************************)
(* The control streams that two ends of a tunnel multiplex over their      *)
(* command connection: ControlStreamRuntime, ControlStreamRead and         *)
(* ControlStreamWrite of p2p-frame/src/networks/control_stream.rs.  An     *)
(* end opens a stream by an Open frame that the other end answers, and the *)
(* two then exchange Data frames and a Fin; what arrives waits in a        *)
(* bounded queue for the reader.                                           *)
(*                                                                         *)
(* A stream is its id.  Data frames carry their number in place of bytes,  *)
(* so that a gap shows.  The runtime is used by a tunnel (QuicTunnel),     *)
(* which delivers the frames and owns the variable cmd they travel in;     *)
(* each operator below says what happens to the runtime's own variables.   *)
(***************************************************************************)
EXTENDS Naturals, Sequences

End == {"active", "passive"}
Peer(e) == IF e = "active" THEN "passive" ELSE "active"

CONSTANTS StreamId,   \* the ids of the control streams that are opened
          Capacity    \* Data items an inbound queue takes

ASSUME ControlAssumption == StreamId \subseteq Nat /\ Capacity \in Nat \ {0}

VARIABLES cmd,        \* commands on their way from an end to the other
          listener,   \* the ends with a listener for control streams
          pendingOpens, \* pending_opens of the ends
          streams,    \* ids whose inbound queue an end delivers to
          inbox,      \* the inbound queue of each end and id
          told,       \* what the waiter of an open was sent
          arriving,   \* the id between waiter.send and streams.insert
          ctlClosed   \* the ends whose runtime is closed

control == <<listener, pendingOpens, streams, inbox, told, arriving, ctlClosed>>

NoStream == 0

Frame(k, c, n) == [kind |-> k, id |-> c, arg |-> n]
Data(n) == [kind |-> "Data", arg |-> n]
Fin == [kind |-> "Fin", arg |-> 0]
Reset == [kind |-> "Reset", arg |-> 0]

ControlTypeOK ==
  /\ listener \subseteq End
  /\ pendingOpens \in [End -> SUBSET StreamId]
  /\ streams \in [End -> SUBSET StreamId]
  /\ \A e \in End, c \in StreamId :
        /\ inbox[e][c] \in Seq([kind : {"Data", "Fin", "Reset"}, arg : Nat])
        /\ Len(inbox[e][c]) <= Capacity + 1
  /\ told \in [StreamId -> {"none", "ok", "err"}]
  /\ arriving \in [End -> StreamId \cup {NoStream}]
  /\ ctlClosed \subseteq End

ControlInit ==
  /\ listener = {}
  /\ pendingOpens = [e \in End |-> {}]
  /\ streams = [e \in End |-> {}]
  /\ inbox = [e \in End |-> [c \in StreamId |-> <<>>]]
  /\ told = [c \in StreamId |-> "none"]
  /\ arriving = [e \in End |-> NoStream]
  /\ ctlClosed = {}

\* The initiator's ids are odd, those of the other end are even.
Opener(c) == IF c % 2 = 1 THEN "active" ELSE "passive"
IsPeerStreamId(e, c) == Opener(c) # e

Listen(e) ==
  /\ e \notin ctlClosed
  /\ listener' = listener \cup {e}
  /\ UNCHANGED <<pendingOpens, streams, inbox, told, arriving, ctlClosed>>

\* open, up to the wait for the answer; its frame is the tunnel's to send.
RegisterOpen(e, c) ==
  /\ e \notin ctlClosed
  /\ pendingOpens' = [pendingOpens EXCEPT ![e] = @ \cup {c}]
  /\ UNCHANGED <<listener, streams, inbox, told, arriving, ctlClosed>>

\* open gives up the wait: only the local entry is removed.
DropOpen(e, c) ==
  /\ pendingOpens' = [pendingOpens EXCEPT ![e] = @ \ {c}]
  /\ UNCHANGED <<listener, streams, inbox, told, arriving, ctlClosed>>

\* handle_open answers with Success or with one of the refusals; prepared
\* says whether the tunnel still takes the stream (its activity is live).
MayAccept(e, c, served) ==
  /\ IsPeerStreamId(e, c)
  /\ c \notin pendingOpens[e] \cup streams[e]
  /\ e \in listener
  /\ served

HandleOpen(e, c, served, prepared) ==
  /\ streams' = [streams EXCEPT ![e] =
                   IF MayAccept(e, c, served) /\ prepared THEN @ \cup {c} ELSE @]
  /\ UNCHANGED <<listener, pendingOpens, inbox, told, arriving, ctlClosed>>

\* handle_open_resp takes the pending entry and tells the opener; the
\* stream is inserted after that, in a second critical section.
HandleOpenResp(e, c, ok) ==
  IF c \notin pendingOpens[e]
  THEN UNCHANGED control
  ELSE /\ pendingOpens' = [pendingOpens EXCEPT ![e] = @ \ {c}]
       /\ told' = [told EXCEPT ![c] = IF ok THEN "ok" ELSE "err"]
       /\ arriving' = [arriving EXCEPT ![e] = IF ok THEN c ELSE NoStream]
       /\ UNCHANGED <<listener, streams, inbox, ctlClosed>>

InsertStream(e) ==
  /\ streams' = [streams EXCEPT ![e] = @ \cup {arriving[e]}]
  /\ arriving' = [arriving EXCEPT ![e] = NoStream]
  /\ UNCHANGED <<listener, pendingOpens, inbox, told, ctlClosed>>

\* Mutant: no place of the queue is kept for the terminal item.
TerminateIfRoom(q, item) == IF Len(q) < Capacity THEN Append(q, item) ELSE q

\* try_send of a terminal item (Fin or Reset).
Terminate(q, item) == IF Len(q) <= Capacity THEN Append(q, item) ELSE q

EndStream(e, c, item) ==
  /\ streams' = [streams EXCEPT ![e] = @ \ {c}]
  /\ inbox' = [inbox EXCEPT ![e][c] = IF c \in streams[e] THEN Terminate(@, item) ELSE @]
  /\ UNCHANGED <<listener, pendingOpens, told, arriving, ctlClosed>>

\* deliver keeps one place of the queue for the terminal item.
Fits(e, c) == Len(inbox[e][c]) < Capacity

Deliver(e, c, n) ==
  /\ inbox' = [inbox EXCEPT ![e][c] = Append(@, Data(n))]
  /\ UNCHANGED <<listener, pendingOpens, streams, told, arriving, ctlClosed>>

\* The reader is gone: the stream is forgotten.
Forget(e, c) ==
  /\ streams' = [streams EXCEPT ![e] = @ \ {c}]
  /\ UNCHANGED <<listener, pendingOpens, inbox, told, arriving, ctlClosed>>

\* poll_read takes the first item.
TakeItem(e, c) ==
  /\ inbox[e][c] # <<>>
  /\ inbox' = [inbox EXCEPT ![e][c] = Tail(@)]
  /\ UNCHANGED <<listener, pendingOpens, streams, told, arriving, ctlClosed>>

\* The reading half is dropped with what waits in its queue.
DropReader(e, c) ==
  /\ inbox' = [inbox EXCEPT ![e][c] = <<>>]
  /\ UNCHANGED <<listener, pendingOpens, streams, told, arriving, ctlClosed>>

\* close_all: every stream is reset, every waiter is refused.
CloseAll(e) ==
  IF e \in ctlClosed
  THEN UNCHANGED control
  ELSE /\ ctlClosed' = ctlClosed \cup {e}
       /\ inbox' = [inbox EXCEPT ![e] = [c \in StreamId |->
                      IF c \in streams[e] THEN Terminate(@[c], Reset) ELSE @[c]]]
       /\ streams' = [streams EXCEPT ![e] = {}]
       /\ told' = [c \in StreamId |->
                     IF c \in pendingOpens[e] THEN "err" ELSE told[c]]
       /\ pendingOpens' = [pendingOpens EXCEPT ![e] = {}]
       /\ listener' = listener \ {e}
       /\ UNCHANGED arriving
=============================================================================
