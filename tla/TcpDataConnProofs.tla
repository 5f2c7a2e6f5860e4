-------------------------- MODULE TcpDataConnProofs --------------------------
(***************************************************************************)
(* Type correctness of TcpDataConn, the registration barrier of reverse     *)
(* connections and what a failed request leaves behind, for any set of      *)
(* connections and any of the faults.                                       *)
(***************************************************************************)
EXTENDS TcpDataConn, CorrelationHistory, TLAPS

LEMMA OwnerPeerType ==
  /\ \A c \in Conn : Owner(c) \in End2
  /\ \A e \in End2 : Peer(e) \in End2
BY Zenon DEF Owner, Peer, End2

LEMMA ConnIsNat == Conn \subseteq Nat \ {NoConn}
BY Zenon, ConnectionsAssumption DEF Conn

LEMMA EntryFunctionsType ==
  /\ NoEntry \in Entry
  /\ \A reg, timer \in BOOLEAN : NewEntry(reg, timer) \in Entry
  /\ \A n \in Entry : RetirePlainEntry(n) \in Entry /\ RetireOnClose(n) \in Entry
  /\ \A n \in Entry, p \in Pending : EndStaged(n, p) \in Entry
<1>1. NoEntry \in Entry
  BY Zenon DEF NoEntry, Entry, EntryState
<1>2. \A reg, timer \in BOOLEAN : NewEntry(reg, timer) \in Entry
  BY Zenon DEF NewEntry, Entry, EntryState
<1>3. \A n \in Entry : DropStream(n) \in {"none", "entry", "handler", "dropped"}
  BY Zenon DEF DropStream
<1>4. \A n \in Entry : RetirePlainEntry(n) \in Entry /\ RetireOnClose(n) \in Entry
  BY Zenon, <1>3 DEF RetirePlainEntry, RetireOnClose, Entry, EntryState
<1>5. \A n \in Entry, p \in Pending : EndStaged(n, p) \in Entry
  BY Zenon, <1>4 DEF EndStaged
<1> QED BY Zenon, <1>1, <1>2, <1>4, <1>5

LEMMA PendingType ==
  /\ NoPending \in Pending
  /\ [NoPending EXCEPT !.in = TRUE, !.sender = TRUE] \in Pending
BY Zenon DEF NoPending, Pending, NewCorrelation, Correlation, NoConn

LEMMA ApplyType ==
  ASSUME NEW k \in Correlation, NEW c \in Nat
  PROVE  /\ Apply(k, Arrival(c)) \in Correlation
         /\ Apply(k, ArrivalRegistered(c)) \in Correlation
         /\ Apply(k, SuccessResponse(c)) \in Correlation
<1>1. /\ ApplyArrival(k, c) \in Correlation
      /\ ApplyArrivalRegistered(k, c) \in Correlation
      /\ ApplySuccessResponse(k, c) \in Correlation
  BY Zenon DEF ApplyArrival, ApplyArrivalRegistered, ApplySuccessResponse, Complete, Fail, Correlation
<1>2. Apply(k, Arrival(c)) \in {k, ApplyArrival(k, c)}
  BY Zenon DEF Apply, Arrival
<1>3. Apply(k, ArrivalRegistered(c)) \in {k, ApplyArrivalRegistered(k, c)}
  BY Zenon DEF Apply, ArrivalRegistered
<1>4. Apply(k, SuccessResponse(c)) \in {k, ApplySuccessResponse(k, c)}
  BY Zenon DEF Apply, SuccessResponse
<1> QED BY Zenon, <1>1, <1>2, <1>3, <1>4

LEMMA InitType == Init => TypeOK
BY EntryFunctionsType, PendingType
   DEF Init, TypeOK, Opener, Incoming, Making, Link

LEMMA PutType ==
  ASSUME TypeOK, NEW e \in End2, NEW m \in Cmd, Put(e, m)
  PROVE  control' \in [End2 -> Seq(Cmd)]
BY DEF Put, TypeOK

LEMMA EmptyControlType == [e \in End2 |-> <<>>] \in [End2 -> Seq(Cmd)]
OBVIOUS

LEMMA SetEntryType ==
  ASSUME TypeOK, NEW c \in Conn, NEW e \in End2, NEW n \in Entry, SetEntry(c, e, n)
  PROVE  entry' \in [Conn -> [End2 -> Entry]]
BY Zenon DEF TypeOK, SetEntry

LEMMA SetPendingType ==
  ASSUME TypeOK, NEW c \in Conn, NEW p \in Pending, SetPending(c, p)
  PROVE  pending' \in [Conn -> Pending]
BY Zenon DEF TypeOK, SetPending

LEMMA EntryFieldsType ==
  ASSUME NEW n \in Entry
  PROVE  /\ \A b \in BOOLEAN : [n EXCEPT !.timer = b] \in Entry
         /\ \A x \in EntryState : [n EXCEPT !.st = x] \in Entry
         /\ \A x \in {"entry", "handler", "dropped"} : [n EXCEPT !.stream = x] \in Entry
         /\ [n EXCEPT !.reg = TRUE, !.stream = "entry"] \in Entry
BY Zenon DEF Entry

LEMMA ComponentsType ==
  ASSUME TypeOK, NEW c \in Conn
  PROVE  /\ c \in Nat /\ pending[c] \in Pending /\ pending[c].corr \in Correlation
         /\ \A e \in End2 : entry[c][e] \in Entry
         /\ \A t \in {"open", "success", "failure", "claim", "ack", "nack"} : Msg(t, c) \in Cmd
         /\ "acceptor" \in End2 /\ "creator" \in End2
BY ConnIsNat DEF TypeOK, Pending, Msg, Cmd, End2

LEMMA OpeningType ==
  ASSUME TypeOK, NEW c \in Conn, Opening(c)
  PROVE  TypeOK'
<1> USE OwnerPeerType, EntryFunctionsType, PendingType, ComponentsType
<1>e. \A e \in End2 : /\ [entry[c][e] EXCEPT !.timer = TRUE] \in Entry
                      /\ [entry[c][e] EXCEPT !.st = "Claiming"] \in Entry
  BY Zenon, EntryFieldsType DEF EntryState
<1>1. CASE Request(c)
  <2>1. pending' \in [Conn -> Pending]
    BY Zenon, <1>1, SetPendingType DEF Request
  <2> QED BY Zenon, <1>1, <2>1 DEF Request, TypeOK, Opener
<1>2. CASE SendRequest(c)
  <2>1. control' \in [End2 -> Seq(Cmd)]
    BY Zenon, <1>2, PutType DEF SendRequest
  <2> QED BY Zenon, <1>2, <2>1 DEF SendRequest, TypeOK, Opener
<1>3. CASE GiveUp(c)
  <2>1. entry' \in [Conn -> [End2 -> Entry]]
    BY Zenon, <1>3, SetEntryType DEF GiveUp
  <2>2. pending' \in [Conn -> Pending]
    BY Zenon, <1>3, SetPendingType DEF GiveUp
  <2> QED BY Zenon, <1>3, <2>1, <2>2 DEF GiveUp, TypeOK, Opener
<1>4. CASE Consume(c)
  <2>1. \E n \in Entry : SetEntry(c, "acceptor", n)
    BY Zenon, <1>4, <1>e DEF Consume
  <2>2. entry' \in [Conn -> [End2 -> Entry]]
    BY Zenon, <2>1, SetEntryType
  <2>3. pending' \in [Conn -> Pending]
    BY Zenon, <1>4, SetPendingType DEF Consume, TypeOK
  <2> QED BY Zenon, <1>4, <2>2, <2>3 DEF Consume, TypeOK, Opener
<1>5. CASE Claim(c)
  <2>1. entry' \in [Conn -> [End2 -> Entry]]
    BY Zenon, <1>5, <1>e, SetEntryType DEF Claim, TypeOK
  <2>2. control' \in [End2 -> Seq(Cmd)]
    BY Zenon, <1>5, PutType DEF Claim, TypeOK
  <2> QED BY Zenon, <1>5, <2>1, <2>2 DEF Claim, TypeOK, Opener
<1>6. CASE Steal(c)
  <2>1. entry' \in [Conn -> [End2 -> Entry]]
    BY Zenon, <1>6, <1>e, SetEntryType DEF Steal
  <2>2. control' \in [End2 -> Seq(Cmd)]
    BY Zenon, <1>6, PutType DEF Steal
  <2> QED BY Zenon, <1>6, <2>1, <2>2 DEF Steal, TypeOK
<1>7. CASE ClaimTimeout(c)
  <2>1. entry' \in [Conn -> [End2 -> Entry]]
    BY Zenon, <1>7, SetEntryType DEF ClaimTimeout
  <2> QED BY Zenon, <1>7, <2>1 DEF ClaimTimeout, TypeOK, Opener
<1> QED BY Zenon, <1>1, <1>2, <1>3, <1>4, <1>5, <1>6, <1>7 DEF Opening

LEMMA AcceptingType ==
  ASSUME TypeOK, NEW c \in Conn, Accepting(c)
  PROVE  TypeOK'
<1> USE EntryFunctionsType, PendingType, ComponentsType
<1> DEFINE n == entry[c]["acceptor"]
           p == pending[c]
<1>e. /\ \A x \in {"entry", "handler", "dropped"} : [n EXCEPT !.stream = x] \in Entry
      /\ [n EXCEPT !.reg = TRUE, !.stream = "entry"] \in Entry
  BY Zenon, EntryFieldsType
<1>1. CASE Accept(c)
  <2>1. [p EXCEPT !.staged = TRUE, !.corr = Apply(p.corr, Arrival(c))] \in Pending
    BY Zenon, ApplyType DEF Pending
  <2>2. pending' \in [Conn -> Pending]
    BY Zenon, <1>1, <2>1, SetPendingType DEF Accept, TypeOK, Conn
  <2>3. entry' \in [Conn -> [End2 -> Entry]]
    BY Zenon, <1>1, SetEntryType DEF Accept, TypeOK, Conn
  <2> QED BY Zenon, <1>1, <2>2, <2>3 DEF Accept, TypeOK, Incoming, Link, Conn
<1>2. CASE TakeStream(c)
  <2>1. entry' \in [Conn -> [End2 -> Entry]]
    BY Zenon, <1>2, <1>e, SetEntryType DEF TakeStream, TypeOK
  <2> QED BY Zenon, <1>2, <2>1 DEF TakeStream, TypeOK, Incoming, Link
<1>3. CASE WriteReady(c)
  BY Zenon, <1>3 DEF WriteReady, TypeOK, Incoming, Link
<1>4. CASE WriteReadyFails(c)
  <2>1. EndStaged(n, p) \in Entry
    BY Zenon
  <2>2. [EndStaged(n, p) EXCEPT !.stream = "dropped"] \in Entry
    BY Zenon, <2>1, EntryFieldsType
  <2>3. \E x \in Entry : SetEntry(c, "acceptor", x)
    BY Zenon, <1>4, <2>1, <2>2 DEF WriteReadyFails
  <2>4. entry' \in [Conn -> [End2 -> Entry]]
    BY Zenon, <2>3, SetEntryType
  <2>5. pending' \in [Conn -> Pending]
    BY Zenon, <1>4, SetPendingType DEF WriteReadyFails
  <2> QED BY Zenon, <1>4, <2>4, <2>5 DEF WriteReadyFails, TypeOK, Incoming, Link
<1>5. CASE RegisterDirect(c)
  <2>1. entry' \in [Conn -> [End2 -> Entry]]
    BY Zenon, <1>5, SetEntryType DEF RegisterDirect
  <2> QED BY Zenon, <1>5, <2>1 DEF RegisterDirect, TypeOK, Incoming
<1>6. CASE RegisterReverse(c)
  <2>1. \A b \in BOOLEAN :
          [p EXCEPT !.corr = Apply(p.corr, ArrivalRegistered(c)), !.sender = @ /\ ~b] \in Pending
    BY Zenon, ApplyType DEF Pending
  <2>2. \E x \in Entry : SetEntry(c, "acceptor", x)
    BY Zenon, <1>6, <1>e DEF RegisterReverse
  <2>3. entry' \in [Conn -> [End2 -> Entry]]
    BY Zenon, <2>2, SetEntryType
  <2>4. pending' \in [Conn -> Pending]
    BY Zenon, <1>6, <2>1, SetPendingType DEF RegisterReverse, TypeOK
  <2> QED BY Zenon, <1>6, <2>3, <2>4 DEF RegisterReverse, TypeOK, Incoming
<1> QED BY Zenon, <1>1, <1>2, <1>3, <1>4, <1>5, <1>6 DEF Accepting

LEMMA CreatingType ==
  ASSUME TypeOK, NEW c \in Conn, Creating(c)
  PROVE  TypeOK'
<1> USE EntryFunctionsType, ComponentsType
<1>1. CASE Dial(c)
  BY Zenon, <1>1 DEF Dial, TypeOK, Making, Link, Opener
<1>2. CASE CreateFails(c)
  BY Zenon, <1>2 DEF CreateFails, TypeOK, Making, Link, Opener
<1>3. CASE Created(c)
  <2>1. entry' \in [Conn -> [End2 -> Entry]]
    <3>1. NewEntry(TRUE, c \in Direct) \in Entry
      BY DEF NewEntry, Entry, EntryState
    <3> QED BY Zenon, <1>3, <3>1, SetEntryType DEF Created
  <2> QED BY Zenon, <1>3, <2>1 DEF Created, TypeOK, Making, Opener
<1>4. CASE Respond(c)
  <2>1. \A b \in BOOLEAN : [entry[c]["creator"] EXCEPT !.timer = b] \in Entry
    BY Zenon, EntryFieldsType
  <2>2. \E x \in Entry : SetEntry(c, "creator", x)
    BY Zenon, <1>4, <2>1 DEF Respond
  <2>3. entry' \in [Conn -> [End2 -> Entry]]
    BY Zenon, <2>2, SetEntryType
  <2>4. control' \in [End2 -> Seq(Cmd)]
    BY Zenon, <1>4, PutType DEF Respond, TypeOK
  <2> QED BY Zenon, <1>4, <2>3, <2>4 DEF Respond, TypeOK, Making
<1> QED BY Zenon, <1>1, <1>2, <1>3, <1>4 DEF Creating

LEMMA FirstClaimTimeoutType ==
  ASSUME TypeOK, NEW c \in Conn, NEW e \in End2, FirstClaimTimeout(c, e)
  PROVE  TypeOK'
<1>1. [entry[c][e] EXCEPT !.timer = FALSE] \in Entry
  BY Zenon, ComponentsType, EntryFieldsType
<1>2. \E n \in Entry : SetEntry(c, e, n)
  BY Zenon, <1>1, EntryFunctionsType DEF FirstClaimTimeout
<1>3. entry' \in [Conn -> [End2 -> Entry]]
  BY Zenon, <1>2, SetEntryType
<1> QED BY Zenon, <1>3 DEF FirstClaimTimeout, TypeOK

LEMMA HeadType ==
  ASSUME TypeOK, NEW e \in End2, Receive(e)
  PROVE  LET m == Head(control[Peer(e)])
         IN  m.conn \in Conn /\ m.type \in {"open", "success", "failure", "claim", "ack", "nack"}
<1>1. control[Peer(e)] \in Seq(Cmd) /\ control[Peer(e)] # <<>>
  BY Zenon, OwnerPeerType DEF Receive, TypeOK
<1>2. Head(control[Peer(e)]) \in Cmd
  BY <1>1
<1> QED BY Zenon, <1>2 DEF Cmd

LEMMA ReceiveType ==
  ASSUME TypeOK, NEW e \in End2, Receive(e)
  PROVE  TypeOK'
<1> DEFINE q == control[Peer(e)]
           m == Head(q)
           c == m.conn
<1>1. /\ Peer(e) \in End2 /\ q \in Seq(Cmd) /\ q # <<>>
      /\ m \in Cmd /\ Tail(q) \in Seq(Cmd)
  BY OwnerPeerType DEF Receive, TypeOK
<1>2. c \in Conn /\ m.type \in {"open", "success", "failure", "claim", "ack", "nack"}
  BY Zenon, <1>1 DEF Cmd
<1>3. [control EXCEPT ![Peer(e)] = Tail(@)] \in [End2 -> Seq(Cmd)]
  BY Zenon, <1>1 DEF TypeOK
<1>a. /\ entry[c][e] \in Entry /\ "acceptor" \in End2 /\ Msg("ack", c) \in Cmd /\ Msg("nack", c) \in Cmd
      /\ pending[c] \in Pending /\ pending[c].corr \in Correlation /\ c \in Nat
  BY Zenon, <1>2, ComponentsType
<1> HIDE DEF c
<1>4. CASE m.type = "open"
  BY Zenon, <1>2, <1>3, <1>4 DEF Receive, TypeOK, Making, c
<1>5. CASE m.type \in {"success", "failure"}
  <2>1. Response(m) /\ control' = [control EXCEPT ![Peer(e)] = Tail(@)]
        /\ UNCHANGED <<open, up, opener, incoming, making, link>>
    BY Zenon, <1>5 DEF Receive
  <2>2. CASE m.type = "failure"
    <3>1. FailPending(c)
      BY Zenon, <2>1, <2>2 DEF Response, c
    <3>2. /\ entry' \in [Conn -> [End2 -> Entry]] /\ pending' \in [Conn -> Pending]
          /\ oneshot' \in [Conn -> {"none", "entry", "error"}]
      <4>1. EndStaged(entry[c]["acceptor"], pending[c]) \in Entry
        BY Zenon, <1>a, <1>2, ComponentsType, EntryFunctionsType
      <4>2. entry' \in [Conn -> [End2 -> Entry]]
        BY Zenon, <3>1, <4>1, <1>2, <1>a, SetEntryType DEF FailPending
      <4>3. pending' \in [Conn -> Pending]
        BY Zenon, <3>1, <1>2, PendingType, SetPendingType DEF FailPending
      <4> QED BY Zenon, <3>1, <4>2, <4>3, <1>2 DEF FailPending, TypeOK
    <3> QED BY Zenon, <2>1, <3>2, <1>3 DEF TypeOK
  <2>3. CASE m.type = "success" /\ pending[c].in
    <3>1. \A b \in BOOLEAN :
            [pending[c] EXCEPT !.corr = Apply(pending[c].corr, SuccessResponse(c)),
                               !.sender = @ /\ ~b] \in Pending
      BY Zenon, <1>a, ApplyType DEF Pending
    <3>2. /\ \E b \in BOOLEAN :
               SetPending(c, [pending[c] EXCEPT !.corr = Apply(pending[c].corr, SuccessResponse(c)),
                                                !.sender = @ /\ ~b])
          /\ oneshot' = [oneshot EXCEPT ![c] =
               IF Outcome(pending[c].corr, SuccessResponse(c)) = "Complete" THEN "entry" ELSE @]
          /\ entry' = entry
      BY Zenon, <2>1, <2>3 DEF Response, c
    <3>3. pending' \in [Conn -> Pending]
      BY Zenon, <3>1, <3>2, <1>2, SetPendingType
    <3> QED BY Zenon, <2>1, <3>2, <3>3, <1>3, <1>2 DEF TypeOK
  <2>4. CASE m.type = "success" /\ ~pending[c].in
    BY Zenon, <2>1, <2>4, <1>3 DEF Response, TypeOK, c
  <2> QED BY Zenon, <1>5, <2>2, <2>3, <2>4
<1>6. CASE m.type = "claim" /\ open[e]
  <2>1. ClaimReq(e, m) /\ UNCHANGED <<open, up, opener, pending, oneshot, incoming, making, link>>
    BY Zenon, <1>6 DEF Receive
  <2>2. \A x \in EntryState : [entry[c][e] EXCEPT !.st = x] \in Entry
    BY Zenon, <1>a, EntryFieldsType
  <2>3. \E x \in EntryState : SetEntry(c, e, [entry[c][e] EXCEPT !.st = x])
    <3>1. entry[c][e].st \in EntryState /\ "Bound" \in EntryState
      BY Zenon, <1>a DEF Entry, EntryState
    <3> QED BY Zenon, <2>1, <3>1 DEF ClaimReq, c
  <2>4. entry' \in [Conn -> [End2 -> Entry]]
    BY Zenon, <2>2, <2>3, <1>2, SetEntryType
  <2>5. \E x \in Cmd : control' = [control EXCEPT ![Peer(e)] = Tail(@), ![e] = Append(@, x)]
    BY Zenon, <2>1, <1>a DEF ClaimReq, c
  <2>6. control' \in [End2 -> Seq(Cmd)]
    <3>1. PICK x \in Cmd : control' = [control EXCEPT ![Peer(e)] = Tail(@), ![e] = Append(@, x)]
      BY Zenon, <2>5
    <3>2. control[e] \in Seq(Cmd) /\ control \in [End2 -> Seq(Cmd)] /\ e # Peer(e)
      BY Zenon DEF TypeOK, Peer, End2
    <3>3. Append(control[e], x) \in Seq(Cmd)
      BY <3>2
    <3>4. /\ DOMAIN control' = End2 /\ control' = [z \in End2 |-> control'[z]]
          /\ \A z \in End2 : control'[z] = IF z = e THEN Append(control[e], x)
                                          ELSE IF z = Peer(e) THEN Tail(q) ELSE control[z]
      BY Zenon, <3>1, <3>2
    <3> QED BY Zenon, <3>2, <3>3, <3>4, <1>1
  <2> QED BY Zenon, <2>1, <2>4, <2>6 DEF TypeOK
<1>7. CASE m.type = "claim" /\ ~open[e]
  BY Zenon, <1>7, EmptyControlType DEF Receive, TypeOK
<1>8. CASE m.type \in {"ack", "nack"}
  <2>1. /\ ClaimAck(e, m) /\ control' = [control EXCEPT ![Peer(e)] = Tail(@)]
        /\ UNCHANGED <<open, up, pending, oneshot, incoming, making, link>>
    BY Zenon, <1>8 DEF Receive
  <2>2. \A x \in EntryState : [entry[c][e] EXCEPT !.st = x] \in Entry
    BY Zenon, <1>a, EntryFieldsType
  <2>3. \E x \in EntryState : SetEntry(c, e, [entry[c][e] EXCEPT !.st = x])
    <3>1. entry[c][e].st \in EntryState /\ "Bound" \in EntryState /\ "FirstClaimPending" \in EntryState
      BY Zenon, <1>a DEF Entry, EntryState
    <3> QED BY Zenon, <2>1, <3>1 DEF ClaimAck, c
  <2>4. entry' \in [Conn -> [End2 -> Entry]]
    BY Zenon, <2>2, <2>3, <1>2, SetEntryType
  <2>5. opener' \in [Conn -> Opener]
    BY Zenon, <2>1, <1>2 DEF ClaimAck, TypeOK, Opener, c
  <2> QED BY Zenon, <2>1, <2>4, <2>5, <1>3 DEF TypeOK
<1> QED BY Zenon, <1>2, <1>4, <1>5, <1>6, <1>7, <1>8

LEMMA CloseType ==
  ASSUME TypeOK, NEW e \in End2, Close(e)
  PROVE  TypeOK'
<1>1. pending' \in [Conn -> Pending]
  BY Zenon, PendingType DEF Close, TypeOK
<1>2. entry' \in [Conn -> [End2 -> Entry]]
  <2>1. \A c \in Conn : \E n \in Entry : entry'[c] = [entry[c] EXCEPT ![e] = n]
    BY Zenon, EntryFunctionsType, ComponentsType DEF Close
  <2>2. \A c \in Conn : entry'[c] \in [End2 -> Entry]
    <3> SUFFICES ASSUME NEW c \in Conn PROVE entry'[c] \in [End2 -> Entry]
      BY Zenon
    <3>1. PICK n \in Entry : entry'[c] = [entry[c] EXCEPT ![e] = n]
      BY Zenon, <2>1
    <3>2. entry[c] \in [End2 -> Entry]
      BY Zenon DEF TypeOK
    <3> QED BY Zenon, <3>1, <3>2
  <2> QED BY Zenon, <2>2 DEF Close
<1> QED BY Zenon, <1>1, <1>2 DEF Close, TypeOK, Opener

\* Every step of a tunnel's two ends keeps every table well formed
THEOREM TypeCorrect == Spec => []TypeOK
<1>1. TypeOK /\ [Next]_vars => TypeOK'
  <2> SUFFICES ASSUME TypeOK, [Next]_vars PROVE TypeOK'
    BY Zenon
  <2>1. CASE UNCHANGED vars
    BY Zenon, <2>1 DEF vars, TypeOK
  <2>2. CASE Break
    BY Zenon, <2>2, EmptyControlType DEF Break, TypeOK
  <2> QED BY Zenon, <2>1, <2>2, OpeningType, AcceptingType, CreatingType, FirstClaimTimeoutType,
             ReceiveType, CloseType DEF Next
<1> QED BY InitType, <1>1, PTL DEF Spec

-----------------------------------------------------------------------------
(* The registration barrier.  What makes it inductive: wherever the news of  *)
(* a success has got to (the creating end's task, a message, the request,    *)
(* the oneshot, the opener), the creating end's entry exists, and it never   *)
(* ceases to.                                                                *)

Told(c) == entry[c]["creator"].st # "none"

Heard(c) ==
  \/ making[c] = "respond" \/ pending[c].corr.response # NoConn
  \/ oneshot[c] = "entry" \/ opener[c] \in {"owner", "claiming", "opened"}

SuccessesTold ==
  \A e \in End2 : \A i \in DOMAIN control[e] :
    control[e][i].type = "success" => Told(control[e][i].conn)

OpenRequest(c) == ~pending[c].corr.terminal => pending[c].corr.completed = NoConn

BarrierInv ==
  /\ SuccessesTold
  /\ \A c \in Conn : (Heard(c) => Told(c)) /\ OpenRequest(c)

LEMMA SetEntryTold ==
  ASSUME TypeOK, NEW c \in Conn, NEW e \in End2, NEW n \in Entry, SetEntry(c, e, n),
         e = "creator" /\ Told(c) => n.st # "none"
  PROVE  \A d \in Conn : Told(d) => Told(d)'
BY Zenon DEF TypeOK, SetEntry, Told, End2

LEMMA EntryFieldsKept ==
  ASSUME NEW n \in Entry
  PROVE  /\ \A b \in BOOLEAN : [n EXCEPT !.timer = b].st = n.st
         /\ \A x \in EntryState : [n EXCEPT !.st = x].st = x
         /\ RetirePlainEntry(n).st = "Retired"
         /\ RetireOnClose(n).st \in {n.st, "Retired"}
BY Zenon DEF Entry, RetirePlainEntry, RetireOnClose

LEMMA OpeningTold ==
  ASSUME TypeOK, NEW c \in Conn, Opening(c)
  PROVE  \A d \in Conn : Told(d) => Told(d)'
<1> USE OwnerPeerType, EntryFunctionsType, ComponentsType
<1>a. ASSUME NEW n \in Entry, SetEntry(c, "acceptor", n)
      PROVE  \A d \in Conn : Told(d) => Told(d)'
  BY Zenon, <1>a, SetEntryTold
<1>b. /\ [entry[c]["acceptor"] EXCEPT !.timer = TRUE] \in Entry
      /\ [entry[c][Owner(c)] EXCEPT !.st = "Claiming"] \in Entry
      /\ [entry[c][Owner(c)] EXCEPT !.st = "Claiming"].st = "Claiming"
      /\ RetirePlainEntry(entry[c][Owner(c)]).st = "Retired"
  BY Zenon, EntryFieldsType, EntryFieldsKept DEF EntryState
<1>1. CASE Request(c) \/ SendRequest(c)
  BY Zenon, <1>1 DEF Request, SendRequest, Told
<1>2. CASE GiveUp(c)
  BY Zenon, <1>2, <1>a DEF GiveUp
<1>3. CASE Consume(c)
  <2>1. \E n \in Entry : SetEntry(c, "acceptor", n)
    BY Zenon, <1>3, <1>b DEF Consume
  <2> QED BY Zenon, <2>1, <1>a
<1>4. CASE Claim(c) \/ Steal(c)
  <2>1. UNCHANGED entry \/ SetEntry(c, Owner(c), [entry[c][Owner(c)] EXCEPT !.st = "Claiming"])
    BY Zenon, <1>4 DEF Claim, Steal
  <2>2. CASE UNCHANGED entry
    BY Zenon, <2>2 DEF Told
  <2> QED BY Zenon, <2>1, <2>2, <1>b, SetEntryTold
<1>5. CASE ClaimTimeout(c)
  BY Zenon, <1>5, <1>b, SetEntryTold DEF ClaimTimeout
<1> QED BY Zenon, <1>1, <1>2, <1>3, <1>4, <1>5 DEF Opening

LEMMA AcceptingTold ==
  ASSUME TypeOK, NEW c \in Conn, Accepting(c)
  PROVE  \A d \in Conn : Told(d) => Told(d)'
<1> USE EntryFunctionsType, ComponentsType
<1> DEFINE n == entry[c]["acceptor"]
<1>e. /\ \A x \in {"entry", "handler", "dropped"} : [n EXCEPT !.stream = x] \in Entry
      /\ [n EXCEPT !.reg = TRUE, !.stream = "entry"] \in Entry
      /\ EndStaged(n, pending[c]) \in Entry
      /\ [EndStaged(n, pending[c]) EXCEPT !.stream = "dropped"] \in Entry
  BY Zenon, EntryFieldsType
<1>1. UNCHANGED entry \/ \E x \in Entry : SetEntry(c, "acceptor", x)
  <2>1. CASE Accept(c)
    BY Zenon, <2>1 DEF Accept, Conn
  <2>2. CASE TakeStream(c)
    BY Zenon, <2>2, <1>e DEF TakeStream
  <2>3. CASE WriteReady(c)
    BY Zenon, <2>3 DEF WriteReady
  <2>4. CASE WriteReadyFails(c)
    BY Zenon, <2>4, <1>e DEF WriteReadyFails
  <2>5. CASE RegisterDirect(c)
    BY Zenon, <2>5 DEF RegisterDirect
  <2>6. CASE RegisterReverse(c)
    BY Zenon, <2>6, <1>e DEF RegisterReverse
  <2> QED BY Zenon, <2>1, <2>2, <2>3, <2>4, <2>5, <2>6 DEF Accepting
<1>2. CASE UNCHANGED entry
  BY Zenon, <1>2 DEF Told
<1> QED BY Zenon, <1>1, <1>2, SetEntryTold

LEMMA CreatedTold ==
  ASSUME TypeOK, NEW c \in Conn, Created(c)
  PROVE  Told(c)' /\ \A d \in Conn : Told(d) => Told(d)'
<1>1. NewEntry(TRUE, c \in Direct) \in Entry /\ NewEntry(TRUE, c \in Direct).st = "FirstClaimPending"
  BY DEF NewEntry, Entry, EntryState
<1>2. SetEntry(c, "creator", NewEntry(TRUE, c \in Direct)) /\ "creator" \in End2
  BY Zenon DEF Created, End2
<1>3. Told(c)'
  BY Zenon, <1>1, <1>2 DEF SetEntry, Told, TypeOK
<1> QED BY Zenon, <1>1, <1>2, <1>3, SetEntryTold

LEMMA CreatingTold ==
  ASSUME TypeOK, NEW c \in Conn, Creating(c)
  PROVE  \A d \in Conn : Told(d) => Told(d)'
<1> USE EntryFunctionsType, ComponentsType
<1>1. CASE Dial(c) \/ CreateFails(c)
  BY Zenon, <1>1 DEF Dial, CreateFails, Told
<1>2. CASE Created(c)
  BY Zenon, <1>2, CreatedTold
<1>3. CASE Respond(c)
  <2> DEFINE n == entry[c]["creator"]
  <2>1. \A b \in BOOLEAN : [n EXCEPT !.timer = b] \in Entry /\ [n EXCEPT !.timer = b].st = n.st
    BY Zenon, EntryFieldsType, EntryFieldsKept
  <2>2. RetirePlainEntry(n) \in Entry /\ RetirePlainEntry(n).st = "Retired" /\ n \in Entry
    BY Zenon, EntryFieldsKept
  <2>3. \E x \in Entry : SetEntry(c, "creator", x) /\ x.st \in {n.st, "Retired"}
    BY Zenon, <1>3, <2>1, <2>2 DEF Respond
  <2> QED BY Zenon, <2>3, SetEntryTold DEF Told
<1> QED BY Zenon, <1>1, <1>2, <1>3 DEF Creating

LEMMA ReceiveTold ==
  ASSUME TypeOK, NEW e \in End2, Receive(e)
  PROVE  \A d \in Conn : Told(d) => Told(d)'
<1> DEFINE m == Head(control[Peer(e)])
           c == m.conn
<1>1. c \in Conn /\ m.type \in {"open", "success", "failure", "claim", "ack", "nack"}
  BY Zenon, HeadType
<1>2. /\ entry[c][e] \in Entry /\ entry[c]["acceptor"] \in Entry /\ "acceptor" \in End2
      /\ pending[c] \in Pending
  BY Zenon, <1>1, ComponentsType
<1>3. UNCHANGED entry \/ \E f \in End2, x \in Entry :
        SetEntry(c, f, x) /\ (f = "creator" /\ Told(c) => x.st # "none")
  <2>1. CASE m.type \in {"success", "failure"}
    <3>1. EndStaged(entry[c]["acceptor"], pending[c]) \in Entry
      BY Zenon, <1>2, EntryFunctionsType
    <3>2. UNCHANGED entry \/ SetEntry(c, "acceptor", EndStaged(entry[c]["acceptor"], pending[c]))
      BY Zenon, <2>1 DEF Receive, Response, FailPending
    <3> QED BY Zenon, <3>1, <3>2, <1>2
  <2>2. CASE m.type \in {"ack", "nack"} \/ (m.type = "claim" /\ open[e])
    <3>1. \A x \in EntryState : /\ [entry[c][e] EXCEPT !.st = x] \in Entry
                                /\ [entry[c][e] EXCEPT !.st = x].st = x
      BY Zenon, <1>2, EntryFieldsType, EntryFieldsKept
    <3>2. \E x \in EntryState : /\ SetEntry(c, e, [entry[c][e] EXCEPT !.st = x])
                                /\ x \in {entry[c][e].st, "Bound", "FirstClaimPending"}
      <4>1. entry[c][e].st \in EntryState /\ "Bound" \in EntryState /\ "FirstClaimPending" \in EntryState
        BY Zenon, <1>2 DEF Entry, EntryState
      <4>2. CASE m.type = "claim" /\ open[e]
        BY Zenon, <4>1, <4>2 DEF Receive, ClaimReq
      <4>3. CASE m.type \in {"ack", "nack"}
        BY Zenon, <4>1, <4>3 DEF Receive, ClaimAck
      <4> QED BY Zenon, <2>2, <4>2, <4>3
    <3> QED BY Zenon, <3>1, <3>2 DEF Told
  <2>3. CASE m.type = "open" \/ (m.type = "claim" /\ ~open[e])
    BY Zenon, <2>3 DEF Receive
  <2> QED BY Zenon, <1>1, <2>1, <2>2, <2>3
<1>4. CASE UNCHANGED entry
  BY Zenon, <1>4 DEF Told
<1> QED BY Zenon, <1>1, <1>3, <1>4, SetEntryTold

LEMMA NextTold ==
  ASSUME TypeOK, Next
  PROVE  \A d \in Conn : Told(d) => Told(d)'
<1>1. ASSUME NEW c \in Conn, NEW e \in End2, FirstClaimTimeout(c, e)
      PROVE  \A d \in Conn : Told(d) => Told(d)'
  <2> DEFINE n == [entry[c][e] EXCEPT !.timer = FALSE]
  <2>1. n \in Entry /\ n.st = entry[c][e].st
    BY Zenon, ComponentsType, EntryFieldsType, EntryFieldsKept
  <2>2. RetirePlainEntry(n) \in Entry /\ RetirePlainEntry(n).st = "Retired"
    BY Zenon, <2>1, EntryFunctionsType, EntryFieldsKept
  <2>3. SetEntry(c, e, n) \/ SetEntry(c, e, RetirePlainEntry(n))
    BY Zenon, <1>1 DEF FirstClaimTimeout
  <2> QED BY Zenon, <2>1, <2>2, <2>3, SetEntryTold DEF Told
<1>2. ASSUME NEW e \in End2, Close(e), NEW d \in Conn, Told(d)
      PROVE  Told(d)'
  <2> DEFINE n == entry[d][e]
  <2>1. n \in Entry /\ EndStaged(n, pending[d]) \in Entry
        /\ EndStaged(n, pending[d]).st \in {n.st, "Retired"}
    BY Zenon, ComponentsType, EntryFunctionsType, EntryFieldsKept DEF EndStaged
  <2>2. \E x \in {n, EndStaged(n, pending[d])} : entry'[d] = [entry[d] EXCEPT ![e] = RetireOnClose(x)]
    BY Zenon, <1>2 DEF Close
  <2>3. \E x \in Entry : entry'[d] = [entry[d] EXCEPT ![e] = x] /\ x.st \in {n.st, "Retired"}
    <3>1. PICK x \in {n, EndStaged(n, pending[d])} : entry'[d] = [entry[d] EXCEPT ![e] = RetireOnClose(x)]
      BY Zenon, <2>2
    <3>2. x \in Entry /\ x.st \in {n.st, "Retired"}
      BY Zenon, <2>1
    <3>3. RetireOnClose(x) \in Entry /\ RetireOnClose(x).st \in {n.st, "Retired"}
      BY Zenon, <3>2, EntryFunctionsType, EntryFieldsKept
    <3> QED BY Zenon, <3>1, <3>3
  <2> QED BY Zenon, <2>3, <1>2 DEF Told, TypeOK, End2
<1>3. CASE Break
  BY Zenon, <1>3 DEF Break, Told
<1> QED BY Zenon, <1>1, <1>2, <1>3, OpeningTold, AcceptingTold, CreatingTold, ReceiveTold DEF Next

LEMMA PutSuccesses ==
  ASSUME TypeOK, SuccessesTold, \A d \in Conn : Told(d) => Told(d)',
         NEW e \in End2, NEW m \in Cmd, Put(e, m),
         m.type = "success" => Told(m.conn)'
  PROVE  SuccessesTold'
<1> SUFFICES ASSUME NEW f \in End2, NEW i \in DOMAIN control'[f], control'[f][i].type = "success"
             PROVE  entry'[control'[f][i].conn]["creator"].st # "none"
  BY Zenon DEF SuccessesTold, Told
<1>1. /\ control[f] \in Seq(Cmd)
      /\ control'[f] = IF f = e THEN Append(control[f], m) ELSE control[f]
  BY Zenon DEF TypeOK, Put
<1>2. \/ i \in DOMAIN control[f] /\ control'[f][i] = control[f][i]
      \/ control'[f][i] = m
  BY <1>1
<1>3. CASE i \in DOMAIN control[f] /\ control'[f][i] = control[f][i]
  <2>1. control[f][i] \in Cmd
    BY <1>1, <1>3
  <2>2. control[f][i].conn \in Conn
    BY Zenon, <2>1 DEF Cmd
  <2>3. Told(control[f][i].conn)
    BY Zenon, <1>3 DEF SuccessesTold
  <2> QED BY Zenon, <1>3, <2>2, <2>3 DEF Told
<1> QED BY Zenon, <1>2, <1>3 DEF Told

LEMMA ReadSuccesses ==
  ASSUME TypeOK, SuccessesTold, \A d \in Conn : Told(d) => Told(d)',
         \A f \in End2 : \A i \in DOMAIN control'[f] :
           control'[f][i].type = "success" =>
             \E j \in DOMAIN control[f] : control'[f][i] = control[f][j]
  PROVE  SuccessesTold'
<1> SUFFICES ASSUME NEW f \in End2, NEW i \in DOMAIN control'[f], control'[f][i].type = "success"
             PROVE  entry'[control'[f][i].conn]["creator"].st # "none"
  BY Zenon DEF SuccessesTold, Told
<1>1. PICK j \in DOMAIN control[f] : control'[f][i] = control[f][j]
  BY Zenon
<1>2. control[f][j] \in Cmd
  BY DEF TypeOK
<1>3. control[f][j].conn \in Conn
  BY Zenon, <1>2 DEF Cmd
<1>4. Told(control[f][j].conn)
  BY Zenon, <1>1 DEF SuccessesTold
<1> QED BY Zenon, <1>1, <1>3, <1>4 DEF Told

LEMMA ApplyOutcome ==
  ASSUME NEW k \in Correlation, NEW c \in Nat \ {NoConn}, ~k.terminal => k.completed = NoConn
  PROVE  /\ \A v \in {Arrival(c), ArrivalRegistered(c), SuccessResponse(c)} :
              ~Apply(k, v).terminal => Apply(k, v).completed = NoConn
         /\ Apply(k, Arrival(c)).response = k.response
         /\ Apply(k, ArrivalRegistered(c)).response = k.response
         /\ Outcome(k, ArrivalRegistered(c)) = "Complete" => k.response # NoConn
<1>1. Apply(k, Arrival(c)) = IF k.terminal THEN k ELSE ApplyArrival(k, c)
  BY Zenon DEF Apply, Arrival
<1>2. Apply(k, ArrivalRegistered(c)) = IF k.terminal THEN k ELSE ApplyArrivalRegistered(k, c)
  BY Zenon DEF Apply, ArrivalRegistered
<1>3. Apply(k, SuccessResponse(c)) = IF k.terminal THEN k ELSE ApplySuccessResponse(k, c)
  BY Zenon DEF Apply, SuccessResponse
<1>4. /\ ApplyArrival(k, c).response = k.response
      /\ ~k.terminal /\ ~ApplyArrival(k, c).terminal => ApplyArrival(k, c).completed = NoConn
  BY Zenon DEF ApplyArrival, Fail, Correlation
<1>5. /\ ApplyArrivalRegistered(k, c).response = k.response
      /\ ~k.terminal /\ ~ApplyArrivalRegistered(k, c).terminal =>
           ApplyArrivalRegistered(k, c).completed = NoConn
      /\ ~k.terminal /\ ApplyArrivalRegistered(k, c).completed # NoConn => k.response # NoConn
  BY Zenon DEF ApplyArrivalRegistered, Complete, Fail, Correlation
<1>6. ~k.terminal /\ ~ApplySuccessResponse(k, c).terminal =>
        ApplySuccessResponse(k, c).completed = NoConn
  BY Zenon DEF ApplySuccessResponse, Complete, Fail, Correlation
<1>7. Outcome(k, ArrivalRegistered(c)) = "Complete" =>
        ~k.terminal /\ Apply(k, ArrivalRegistered(c)).completed # NoConn
  BY Zenon DEF Outcome, ArrivalRegistered
<1> QED BY Zenon, <1>1, <1>2, <1>3, <1>4, <1>5, <1>6, <1>7

LEMMA OpeningHeard ==
  ASSUME TypeOK, BarrierInv, NEW c \in Conn, Opening(c), NEW d \in Conn
  PROVE  (Heard(d)' => Heard(d)) /\ OpenRequest(d)'
<1>0. OpenRequest(d) /\ pending \in [Conn -> Pending] /\ opener \in [Conn -> Opener]
  BY Zenon DEF BarrierInv, TypeOK
<1>p. /\ NoPending.corr.response = NoConn /\ NoPending.corr.completed = NoConn
      /\ [NoPending EXCEPT !.in = TRUE, !.sender = TRUE].corr = NoPending.corr
  BY Zenon DEF NoPending, NewCorrelation
<1>1. CASE Request(c)
  BY Zenon, <1>0, <1>1, <1>p DEF Request, SetPending, Heard, OpenRequest
<1>2. CASE SendRequest(c)
  BY Zenon, <1>0, <1>2 DEF SendRequest, Heard, OpenRequest
<1>3. CASE GiveUp(c)
  BY Zenon, <1>0, <1>3, <1>p DEF GiveUp, SetPending, Heard, OpenRequest
<1>4. CASE Consume(c)
  BY Zenon, <1>0, <1>4, <1>p DEF Consume, SetPending, Heard, OpenRequest
<1>5. CASE Claim(c)
  BY Zenon, <1>0, <1>5 DEF Claim, Heard, OpenRequest
<1>6. CASE Steal(c)
  BY Zenon, <1>0, <1>6 DEF Steal, Heard, OpenRequest
<1>7. CASE ClaimTimeout(c)
  BY Zenon, <1>0, <1>7 DEF ClaimTimeout, Heard, OpenRequest
<1> QED BY Zenon, <1>1, <1>2, <1>3, <1>4, <1>5, <1>6, <1>7 DEF Opening

LEMMA AcceptingHeard ==
  ASSUME TypeOK, BarrierInv, NEW c \in Conn, Accepting(c), NEW d \in Conn
  PROVE  (Heard(d)' => Heard(d)) /\ OpenRequest(d)'
<1> DEFINE p == pending[c]
<1>0. /\ OpenRequest(d) /\ OpenRequest(c)
      /\ pending \in [Conn -> Pending] /\ oneshot \in [Conn -> {"none", "entry", "error"}]
      /\ p \in Pending /\ p.corr \in Correlation /\ c \in Nat \ {NoConn}
  BY Zenon, ComponentsType, ConnIsNat DEF BarrierInv, TypeOK
<1>p. NoPending.corr.response = NoConn /\ NoPending.corr.completed = NoConn
  BY Zenon DEF NoPending, NewCorrelation
<1>1. CASE Accept(c)
  <2> DEFINE q == [p EXCEPT !.staged = TRUE, !.corr = Apply(p.corr, Arrival(c))]
  <2>1. q.corr = Apply(p.corr, Arrival(c))
    BY Zenon, <1>0 DEF Pending
  <2>2. q.corr.response = p.corr.response /\ (~q.corr.terminal => q.corr.completed = NoConn)
    BY <1>0, <2>1, ApplyOutcome DEF OpenRequest
  <2>3. UNCHANGED <<making, oneshot, opener>> /\ (UNCHANGED pending \/ SetPending(c, q))
    BY Zenon, <1>1 DEF Accept, Conn
  <2> HIDE DEF q
  <2> QED BY Zenon, <1>0, <2>2, <2>3 DEF SetPending, Heard, OpenRequest
<1>2. CASE TakeStream(c) \/ WriteReady(c) \/ RegisterDirect(c)
  BY Zenon, <1>0, <1>2 DEF TakeStream, WriteReady, RegisterDirect, Heard, OpenRequest
<1>3. CASE WriteReadyFails(c)
  BY Zenon, <1>0, <1>3, <1>p DEF WriteReadyFails, SetPending, Heard, OpenRequest
<1>4. CASE RegisterReverse(c)
  <2> DEFINE done == Outcome(p.corr, ArrivalRegistered(c)) = "Complete"
             q == [p EXCEPT !.corr = Apply(p.corr, ArrivalRegistered(c)), !.sender = @ /\ ~done]
  <2>1. q.corr = Apply(p.corr, ArrivalRegistered(c))
    BY Zenon, <1>0 DEF Pending
  <2>2. /\ q.corr.response = p.corr.response /\ (~q.corr.terminal => q.corr.completed = NoConn)
        /\ done => p.corr.response # NoConn
    BY <1>0, <2>1, ApplyOutcome DEF OpenRequest
  <2>3. /\ UNCHANGED <<making, opener>>
        /\ \/ UNCHANGED <<pending, oneshot>>
           \/ SetPending(c, q) /\ oneshot' = [oneshot EXCEPT ![c] = IF done THEN "entry" ELSE @]
    BY Zenon, <1>4 DEF RegisterReverse
  <2> HIDE DEF q, done
  <2> QED BY Zenon, <1>0, <2>2, <2>3 DEF SetPending, Heard, OpenRequest
<1> QED BY Zenon, <1>1, <1>2, <1>3, <1>4 DEF Accepting

LEMMA CreatingHeard ==
  ASSUME TypeOK, BarrierInv, NEW c \in Conn, Creating(c), NEW d \in Conn
  PROVE  (Heard(d)' => Heard(d) \/ Told(d)') /\ OpenRequest(d)'
<1>0. OpenRequest(d) /\ opener \in [Conn -> Opener] /\ making \in [Conn -> Making]
  BY Zenon DEF BarrierInv, TypeOK
<1>1. CASE Dial(c)
  BY Zenon, <1>0, <1>1 DEF Dial, Heard, OpenRequest
<1>2. CASE CreateFails(c)
  BY Zenon, <1>0, <1>2 DEF CreateFails, Heard, OpenRequest
<1>3. CASE Created(c)
  <2>1. Told(c)'
    BY Zenon, <1>3, CreatedTold
  <2>2. OpenRequest(d)' /\ (d # c /\ Heard(d)' => Heard(d))
    BY Zenon, <1>0, <1>3 DEF Created, Heard, OpenRequest
  <2> QED BY Zenon, <2>1, <2>2
<1>4. CASE Respond(c)
  BY Zenon, <1>0, <1>4 DEF Respond, Heard, OpenRequest
<1> QED BY Zenon, <1>1, <1>2, <1>3, <1>4 DEF Creating

LEMMA ReceiveHeard ==
  ASSUME TypeOK, BarrierInv, NEW e \in End2, Receive(e), NEW d \in Conn
  PROVE  (Heard(d)' => Heard(d) \/ Told(d)) /\ OpenRequest(d)'
<1> DEFINE m == Head(control[Peer(e)])
           c == m.conn
           p == pending[c]
<1>1. c \in Conn /\ m.type \in {"open", "success", "failure", "claim", "ack", "nack"}
  BY Zenon, HeadType
<1>0. /\ OpenRequest(d) /\ OpenRequest(c)
      /\ pending \in [Conn -> Pending] /\ oneshot \in [Conn -> {"none", "entry", "error"}]
      /\ opener \in [Conn -> Opener] /\ making \in [Conn -> Making]
      /\ p \in Pending /\ p.corr \in Correlation /\ c \in Nat \ {NoConn}
  BY Zenon, <1>1, ComponentsType, ConnIsNat DEF BarrierInv, TypeOK
<1>t. m.type = "success" => Told(c)
  <2>1. control[Peer(e)] \in Seq(Cmd) /\ control[Peer(e)] # <<>> /\ Peer(e) \in End2
    BY Zenon, OwnerPeerType DEF Receive, TypeOK
  <2>2. 1 \in DOMAIN control[Peer(e)] /\ m = control[Peer(e)][1]
    BY <2>1
  <2> QED BY Zenon, <2>1, <2>2 DEF BarrierInv, SuccessesTold
<1>p. NoPending.corr.response = NoConn /\ NoPending.corr.completed = NoConn
  BY Zenon DEF NoPending, NewCorrelation
<1>2. CASE m.type = "open"
  BY Zenon, <1>0, <1>1, <1>2 DEF Receive, Heard, OpenRequest
<1>3. CASE m.type = "failure"
  <2>1. FailPending(c) /\ UNCHANGED <<opener, making>>
    BY Zenon, <1>3 DEF Receive, Response
  <2> QED BY Zenon, <1>0, <1>1, <1>p, <2>1 DEF FailPending, SetPending, Heard, OpenRequest
<1>4. CASE m.type = "success"
  <2> DEFINE done == Outcome(p.corr, SuccessResponse(c)) = "Complete"
             q == [p EXCEPT !.corr = Apply(p.corr, SuccessResponse(c)), !.sender = @ /\ ~done]
  <2>1. q.corr = Apply(p.corr, SuccessResponse(c))
    BY Zenon, <1>0 DEF Pending
  <2>2. ~q.corr.terminal => q.corr.completed = NoConn
    BY <1>0, <2>1, ApplyOutcome DEF OpenRequest
  <2>3. /\ UNCHANGED <<making, opener>>
        /\ \/ UNCHANGED <<pending, oneshot>>
           \/ SetPending(c, q) /\ oneshot' = [oneshot EXCEPT ![c] = IF done THEN "entry" ELSE @]
    BY Zenon, <1>4 DEF Receive, Response
  <2> HIDE DEF q, done, p, m
  <2>4. d # c => (Heard(d)' => Heard(d)) /\ OpenRequest(d)'
    BY Zenon, <1>0, <1>1, <2>3 DEF SetPending, Heard, OpenRequest
  <2>5. d = c => OpenRequest(d)'
    BY Zenon, <1>0, <1>1, <2>2, <2>3 DEF SetPending, OpenRequest
  <2>6. d = c => Told(d)
    BY Zenon, <1>4, <1>t DEF Told
  <2> QED BY Zenon, <2>4, <2>5, <2>6
<1>5. CASE m.type = "claim"
  <2>1. UNCHANGED <<opener, pending, oneshot, making>>
    BY Zenon, <1>5 DEF Receive
  <2> QED BY Zenon, <1>0, <2>1 DEF Heard, OpenRequest
<1>6. CASE m.type \in {"ack", "nack"}
  <2>1. ClaimAck(e, m) /\ UNCHANGED <<pending, oneshot, making>>
    BY Zenon, <1>6 DEF Receive
  <2> QED BY Zenon, <1>0, <1>1, <2>1 DEF ClaimAck, Heard, OpenRequest
<1> QED BY Zenon, <1>1, <1>2, <1>3, <1>4, <1>5, <1>6

LEMMA CloseHeard ==
  ASSUME TypeOK, BarrierInv, NEW e \in End2, Close(e), NEW d \in Conn
  PROVE  (Heard(d)' => Heard(d)) /\ OpenRequest(d)'
<1>1. OpenRequest(d) /\ NoPending.corr.response = NoConn /\ NoPending.corr.completed = NoConn
  BY Zenon DEF BarrierInv, NoPending, NewCorrelation
<1> QED BY Zenon, <1>1 DEF Close, Heard, OpenRequest

LEMMA NextSuccesses ==
  ASSUME TypeOK, BarrierInv, Next
  PROVE  SuccessesTold'
<1>0. SuccessesTold /\ \A d \in Conn : Told(d) => Told(d)'
  BY Zenon, NextTold DEF BarrierInv
<1>k. ASSUME UNCHANGED control PROVE SuccessesTold'
  BY Zenon, <1>0, <1>k, ReadSuccesses
<1>1. ASSUME NEW c \in Conn, Opening(c) PROVE SuccessesTold'
  <2>1. \/ UNCHANGED control
        \/ \E e \in End2, t \in {"open", "claim"} : Put(e, Msg(t, c))
    <3>1. Owner(c) \in End2 /\ "acceptor" \in End2
      BY Zenon, OwnerPeerType DEF End2
    <3> QED BY Zenon, <1>1, <3>1 DEF Opening, Request, SendRequest, GiveUp, Consume, Claim, Steal, ClaimTimeout
  <2>2. ASSUME NEW e \in End2, NEW t \in {"open", "claim"}, Put(e, Msg(t, c)) PROVE SuccessesTold'
    <3>1. Msg(t, c) \in Cmd /\ Msg(t, c).type # "success"
      BY Zenon DEF Msg, Cmd
    <3> QED BY Zenon, <1>0, <2>2, <3>1, PutSuccesses
  <2> QED BY Zenon, <1>k, <2>1, <2>2
<1>2. ASSUME NEW c \in Conn, Accepting(c) PROVE SuccessesTold'
  BY Zenon, <1>2, <1>k DEF Accepting, Accept, TakeStream, WriteReady, WriteReadyFails, RegisterDirect,
     RegisterReverse
<1>3. ASSUME NEW c \in Conn, Creating(c) PROVE SuccessesTold'
  <2>1. CASE UNCHANGED control
    BY Zenon, <2>1, <1>k
  <2>2. CASE Put("creator", Msg("failure", c))
    <3>1. Msg("failure", c) \in Cmd /\ Msg("failure", c).type # "success" /\ "creator" \in End2
      BY Zenon DEF Msg, Cmd, End2
    <3> QED BY Zenon, <1>0, <2>2, <3>1, PutSuccesses
  <2>3. CASE making[c] = "respond" /\ Put("creator", Msg("success", c))
    <3>1. Msg("success", c) \in Cmd /\ Msg("success", c).conn = c /\ "creator" \in End2
      BY Zenon DEF Msg, Cmd, End2
    <3>2. Told(c)'
      BY Zenon, <1>0, <2>3 DEF BarrierInv, Heard
    <3> QED BY Zenon, <1>0, <2>3, <3>1, <3>2, PutSuccesses
  <2> QED BY Zenon, <1>3, <2>1, <2>2, <2>3 DEF Creating, Dial, CreateFails, Created, Respond
<1>4. ASSUME NEW c \in Conn, NEW e \in End2, FirstClaimTimeout(c, e) PROVE SuccessesTold'
  BY Zenon, <1>4, <1>k DEF FirstClaimTimeout
<1>5. ASSUME NEW e \in End2, Receive(e) PROVE SuccessesTold'
  <2> DEFINE q == control[Peer(e)]
             m == Head(q)
  <2>1. /\ \A f \in End2 : control[f] \in Seq(Cmd)
        /\ Peer(e) \in End2 /\ e # Peer(e) /\ control \in [End2 -> Seq(Cmd)] /\ q # <<>>
    BY Zenon, <1>5 DEF Receive, TypeOK, Peer, End2
  <2>2. m.type \in {"open", "success", "failure", "claim", "ack", "nack"}
    BY Zenon, <1>5, HeadType
  <2>t. \A i \in DOMAIN Tail(q) : \E j \in DOMAIN q : Tail(q)[i] = q[j]
    <3>1. q \in Seq(Cmd) /\ q # <<>>
      BY Zenon, <2>1
    <3> QED BY <3>1
  <2>3. CASE control' = [control EXCEPT ![Peer(e)] = Tail(@)]
    BY <1>0, <2>1, <2>3, <2>t, ReadSuccesses
  <2>4. CASE control' = [x \in End2 |-> <<>>]
    BY <1>0, <2>4, ReadSuccesses
  <2>5. CASE ClaimReq(e, m)
    <3>1. PICK x : x.type # "success"
                   /\ control' = [control EXCEPT ![Peer(e)] = Tail(@), ![e] = Append(@, x)]
      BY Zenon, <2>5 DEF ClaimReq, Msg
    <3>2. /\ control'[Peer(e)] = Tail(q) /\ control'[e] = Append(control[e], x)
          /\ \A f \in End2 : f \in {e, Peer(e)}
      BY Zenon, <2>1, <3>1 DEF End2, Peer
    <3>3. \A i \in DOMAIN control'[e] : control'[e][i].type = "success" =>
            \E j \in DOMAIN control[e] : control'[e][i] = control[e][j]
      BY <2>1, <3>1, <3>2
    <3>4. \A f \in End2 : \A i \in DOMAIN control'[f] : control'[f][i].type = "success" =>
            \E j \in DOMAIN control[f] : control'[f][i] = control[f][j]
      <4> SUFFICES ASSUME NEW f \in End2, NEW i \in DOMAIN control'[f],
                          control'[f][i].type = "success"
                   PROVE  \E j \in DOMAIN control[f] : control'[f][i] = control[f][j]
        BY Zenon
      <4>1. CASE f = e
        BY Zenon, <4>1, <3>3
      <4>2. CASE f = Peer(e)
        BY Zenon, <4>2, <3>2, <2>t
      <4> QED BY Zenon, <4>1, <4>2, <3>2
    <3> QED BY Zenon, <1>0, <3>4, ReadSuccesses
  <2> QED BY Zenon, <1>5, <2>2, <2>3, <2>4, <2>5 DEF Receive
<1>6. ASSUME NEW e \in End2, Close(e) PROVE SuccessesTold'
  BY Zenon, <1>6, <1>k DEF Close
<1>7. CASE Break
  BY <1>0, <1>7, ReadSuccesses DEF Break
<1> QED BY Zenon, <1>1, <1>2, <1>3, <1>4, <1>5, <1>6, <1>7 DEF Next

\* request_remote_data_connection hands its opener a connection that the peer
\* has registered: whatever the order of the connection, its registration here
\* and the response, and whichever of them fails, times out or meets a close
THEOREM RegistrationBarrier == Spec => []BarrierHolds
<1>1. Init => BarrierInv
  BY DEF Init, BarrierInv, SuccessesTold, Heard, OpenRequest, NoPending, NewCorrelation, NoConn
<1>2. TypeOK /\ BarrierInv /\ [Next]_vars => BarrierInv'
  <2> SUFFICES ASSUME TypeOK, BarrierInv, [Next]_vars PROVE BarrierInv'
    BY Zenon
  <2>1. CASE UNCHANGED vars
    BY Zenon, <2>1 DEF vars, BarrierInv, SuccessesTold, Heard, OpenRequest, Told
  <2>2. CASE Next
    <3>1. \A d \in Conn : Told(d) => Told(d)'
      BY Zenon, <2>2, NextTold
    <3>2. \A d \in Conn : (Heard(d)' => Heard(d) \/ Told(d) \/ Told(d)') /\ OpenRequest(d)'
      <4>1. ASSUME NEW c \in Conn, NEW e \in End2, FirstClaimTimeout(c, e), NEW d \in Conn
            PROVE  (Heard(d)' => Heard(d)) /\ OpenRequest(d)'
        BY Zenon, <4>1 DEF FirstClaimTimeout, Heard, OpenRequest, BarrierInv
      <4>2. ASSUME Break, NEW d \in Conn
            PROVE  (Heard(d)' => Heard(d)) /\ OpenRequest(d)'
        BY Zenon, <4>2 DEF Break, Heard, OpenRequest, BarrierInv
      <4> QED BY Zenon, <2>2, <4>1, <4>2, OpeningHeard, AcceptingHeard, CreatingHeard, ReceiveHeard,
                 CloseHeard DEF Next
    <3> QED BY Zenon, <2>2, <3>1, <3>2, NextSuccesses DEF BarrierInv
  <2> QED BY Zenon, <2>1, <2>2
<1>3. BarrierInv => BarrierHolds
  BY Zenon DEF BarrierInv, BarrierHolds, Heard, Told, Conn
<1> QED BY TypeCorrect, <1>1, <1>2, <1>3, PTL DEF Spec

-----------------------------------------------------------------------------
(* What a request that failed leaves behind *)

\* A reverse connection c at the accepting end: n its entry, p its request, i
\* the handler of the arriving connection, o and s the opener and its oneshot,
\* a whether the tunnel is open.  The entry is in use only while the request
\* holds it or after the opener has got it; the stream is with the handler only
\* while that writes; and a oneshot that was answered says so in the request
Rest(n, p, i, o, s, a, c) ==
  /\ p.in => o \in {"sending", "waiting"}
  /\ p.in /\ p.staged => n.st \in {"FirstClaimPending", "Claiming", "Bound"} /\ ~n.timer
  /\ (o \in {"idle", "sending", "waiting", "failed"} /\ ~(p.in /\ p.staged))
       => n.st \in {"none", "Retired"}
  /\ i = "none" => /\ n.st = "none" /\ ~n.reg /\ ~n.timer
                    /\ o \notin {"owner", "claiming"}
  /\ n.stream = "handler" => i \in {"writing", "written"}
  /\ n.st = "Retired" => n.stream \in {"dropped", "handler"} /\ ~(n.reg /\ a)
  /\ s = "entry" => i # "none" /\ (p.in => ~p.sender /\ p.staged /\ p.corr.completed = c)
  /\ s = "error" => ~p.in
  /\ s # "none" => o # "idle"
  /\ p.corr.registered => p.staged
  /\ ~p.corr.terminal => p.corr.completed = NoConn

RestAt(c) == Rest(entry[c]["acceptor"], pending[c], incoming[c], opener[c], oneshot[c],
                  open["acceptor"], c)
RestInv == \A c \in Reverse : RestAt(c)

Here(c) == <<entry[c]["acceptor"], pending[c], incoming[c], opener[c], oneshot[c]>>

LEMMA RestFrame ==
  ASSUME NEW d, RestAt(d), UNCHANGED Here(d), open'["acceptor"] => open["acceptor"]
  PROVE  RestAt(d)'
BY Zenon DEF RestAt, Rest, Here

LEMMA RestTypes ==
  ASSUME TypeOK, NEW d \in Reverse
  PROVE  /\ d \in Conn /\ d \in Nat /\ d # NoConn /\ Owner(d) = "acceptor"
         /\ entry[d]["acceptor"] \in Entry /\ pending[d] \in Pending
         /\ pending[d].corr \in Correlation
BY Zenon, ConnectionsAssumption, ComponentsType, ConnIsNat DEF Conn, Owner

\* What the functions on entries do to the fields that Rest speaks of
LEMMA EntryResults ==
  ASSUME NEW n \in Entry
  PROVE  /\ RetirePlainEntry(n).st = "Retired" /\ ~RetirePlainEntry(n).reg
         /\ RetirePlainEntry(n).timer = n.timer
         /\ RetirePlainEntry(n).stream = IF n.stream = "handler" THEN "handler" ELSE "dropped"
         /\ \A b \in BOOLEAN : LET x == [n EXCEPT !.timer = b] IN
              x.st = n.st /\ x.reg = n.reg /\ x.stream = n.stream /\ x.timer = b
         /\ \A v \in EntryState : LET x == [n EXCEPT !.st = v] IN
              x.st = v /\ x.reg = n.reg /\ x.stream = n.stream /\ x.timer = n.timer
         /\ \A v \in {"entry", "handler", "dropped"} : LET x == [n EXCEPT !.stream = v] IN
              x.st = n.st /\ x.reg = n.reg /\ x.stream = v /\ x.timer = n.timer
         /\ LET x == [n EXCEPT !.reg = TRUE, !.stream = "entry"] IN
              x.st = n.st /\ x.reg = TRUE /\ x.stream = "entry" /\ x.timer = n.timer
<1>1. DropStream(n) = IF n.stream = "handler" THEN "handler" ELSE "dropped"
  BY Zenon DEF DropStream
<1> QED BY Zenon, <1>1 DEF Entry, RetirePlainEntry

\* A step that changes only the entry of c, at end e
LEMMA SetEntryHere ==
  ASSUME TypeOK, NEW c \in Conn, NEW e \in End2, NEW n, SetEntry(c, e, n), NEW d \in Conn
  PROVE  entry'[d]["acceptor"] = IF c = d /\ e = "acceptor" THEN n ELSE entry[d]["acceptor"]
BY Zenon DEF TypeOK, SetEntry, End2

NoPendingFacts == ~NoPending.in /\ ~NoPending.staged /\ ~NoPending.corr.registered
                  /\ NoPending.corr.completed = NoConn /\ ~NoPending.corr.terminal

LEMMA NoPendingIs == NoPendingFacts
BY Zenon DEF NoPendingFacts, NoPending, NewCorrelation

\* A request that ends without success, at any place: its opener is told or
\* ends, and the entry it holds is retired
LEMMA EndStagedRest ==
  ASSUME NEW n \in Entry, NEW p \in Pending, NEW i, NEW o, NEW s, NEW a \in BOOLEAN, NEW c,
         Rest(n, p, i, o, s, a, c)
  PROVE  /\ Rest(EndStaged(n, p), NoPending, i, o,
                 IF p.in /\ p.sender THEN "error" ELSE s, a, c)
         /\ o \in {"sending", "waiting"} =>
              Rest(EndStaged(n, p), NoPending, i, "failed", s, a, c)
<1>1. /\ EndStaged(n, p) = IF p.in /\ p.staged THEN RetirePlainEntry(n) ELSE n
      /\ RetirePlainEntry(n).st = "Retired" /\ ~RetirePlainEntry(n).reg
      /\ RetirePlainEntry(n).timer = n.timer
      /\ RetirePlainEntry(n).stream = IF n.stream = "handler" THEN "handler" ELSE "dropped"
  BY EntryResults DEF EndStaged
<1>2. NoPendingFacts
  BY Zenon, NoPendingIs
<1> HIDE DEF NoPending
<1> QED BY Zenon, <1>1, <1>2 DEF Rest, NoPendingFacts

\* A step that leaves the reverse connection d as it is at the accepting end
LEMMA OtherRest ==
  ASSUME TypeOK, NEW d \in Reverse, RestAt(d), NEW c \in Conn, c # d,
         Opening(c) \/ Accepting(c) \/ Creating(c) \/ (\E e \in End2 : FirstClaimTimeout(c, e))
  PROVE  RestAt(d)'
<1>1. d \in Conn /\ UNCHANGED open
  BY Zenon, RestTypes DEF Opening, Request, SendRequest, GiveUp, Consume, Claim, Steal, ClaimTimeout,
     Accepting, Accept, TakeStream, WriteReady, WriteReadyFails, RegisterDirect, RegisterReverse,
     Creating, Dial, CreateFails, Created, Respond, FirstClaimTimeout, Conn
<1>2. UNCHANGED entry \/ \E e \in End2 : \E n : SetEntry(c, e, n)
  <2>0. "acceptor" \in End2 /\ "creator" \in End2 /\ Owner(c) \in End2
    BY Zenon DEF End2, Owner
  <2>1. CASE Opening(c)
    BY Zenon, <2>0, <2>1 DEF Opening, Request, SendRequest, GiveUp, Consume, Claim, Steal, ClaimTimeout
  <2>2. CASE Accepting(c)
    BY Zenon, <2>0, <2>2 DEF Accepting, Accept, TakeStream, WriteReady, WriteReadyFails, RegisterDirect,
       RegisterReverse, Conn
  <2>3. CASE Creating(c)
    BY Zenon, <2>0, <2>3 DEF Creating, Dial, CreateFails, Created, Respond
  <2>4. CASE \E e \in End2 : FirstClaimTimeout(c, e)
    BY Zenon, <2>4 DEF FirstClaimTimeout
  <2> QED BY Zenon, <2>1, <2>2, <2>3, <2>4
<1>3. entry'[d]["acceptor"] = entry[d]["acceptor"]
  BY Zenon, <1>1, <1>2, SetEntryHere
<1>4. /\ pending'[d] = pending[d] /\ incoming'[d] = incoming[d]
      /\ opener'[d] = opener[d] /\ oneshot'[d] = oneshot[d]
  <2>0. /\ pending \in [Conn -> Pending] /\ opener \in [Conn -> Opener]
        /\ incoming \in [Conn -> Incoming] /\ oneshot \in [Conn -> {"none", "entry", "error"}]
    BY Zenon DEF TypeOK
  <2>1. CASE Opening(c)
    BY Zenon, <2>0, <2>1, <1>1 DEF Opening, Request, SendRequest, GiveUp, Consume, Claim, Steal,
       ClaimTimeout, SetPending
  <2>2. CASE Accepting(c)
    BY Zenon, <2>0, <2>2, <1>1 DEF Accepting, Accept, TakeStream, WriteReady, WriteReadyFails,
       RegisterDirect, RegisterReverse, SetPending, Conn
  <2>3. CASE Creating(c)
    BY Zenon, <2>0, <2>3, <1>1 DEF Creating, Dial, CreateFails, Created, Respond
  <2>4. CASE \E e \in End2 : FirstClaimTimeout(c, e)
    BY Zenon, <2>4 DEF FirstClaimTimeout
  <2> QED BY Zenon, <2>1, <2>2, <2>3, <2>4
<1> QED BY Zenon, <1>1, <1>3, <1>4, RestFrame DEF Here

\* The opener of d: request_remote_data_connection and claim_entry
LEMMA OpeningRest ==
  ASSUME TypeOK, NEW d \in Reverse, RestAt(d), Opening(d)
  PROVE  RestAt(d)'
<1> DEFINE n == entry[d]["acceptor"]
           p == pending[d]
           a == open["acceptor"]
<1>0. /\ n \in Entry /\ p \in Pending /\ a \in BOOLEAN /\ d \in Conn /\ Owner(d) = "acceptor"
      /\ "acceptor" \in End2
      /\ Rest(n, p, incoming[d], opener[d], oneshot[d], a, d)
  BY Zenon, RestTypes DEF RestAt, TypeOK, End2
<1>t. /\ pending \in [Conn -> Pending] /\ opener \in [Conn -> Opener]
  BY Zenon DEF TypeOK
<1>s. UNCHANGED entry => entry'[d]["acceptor"] = n
  BY Zenon
<1>1. CASE Request(d)
  <2>1. PICK r : r = [NoPending EXCEPT !.in = TRUE, !.sender = TRUE]
    BY Zenon
  <2>2. r.in /\ r.sender /\ ~r.staged /\ ~r.corr.registered /\ r.corr.completed = NoConn
    BY Zenon, <2>1 DEF NoPending, NewCorrelation
  <2>3. /\ opener[d] = "idle" /\ pending'[d] = r /\ opener'[d] = "sending"
        /\ UNCHANGED <<entry, incoming, oneshot, open>>
    BY Zenon, <1>0, <1>1, <1>t, <2>1 DEF Request, SetPending
  <2>4. Rest(n, r, incoming[d], "sending", oneshot[d], a, d)
    BY Zenon, <1>0, <2>2, <2>3 DEF Rest
  <2> QED BY Zenon, <2>3, <2>4 DEF RestAt
<1>2. CASE SendRequest(d)
  <2>1. /\ opener[d] = "sending" /\ opener'[d] = "waiting"
        /\ UNCHANGED <<entry, pending, incoming, oneshot, open>>
    BY Zenon, <1>0, <1>2, <1>t DEF SendRequest
  <2>2. Rest(n, p, incoming[d], "waiting", oneshot[d], a, d)
    BY Zenon, <1>0, <2>1 DEF Rest
  <2> QED BY Zenon, <2>1, <2>2 DEF RestAt
<1>3. CASE GiveUp(d)
  <2>1. /\ opener[d] \in {"sending", "waiting"} /\ opener'[d] = "failed" /\ pending'[d] = NoPending
        /\ SetEntry(d, "acceptor", EndStaged(n, p)) /\ UNCHANGED <<incoming, oneshot, open>>
    BY Zenon, <1>0, <1>3, <1>t DEF GiveUp, SetPending
  <2>2. entry'[d]["acceptor"] = EndStaged(n, p)
    BY Zenon, <1>0, <2>1, SetEntryHere
  <2>3. Rest(EndStaged(n, p), NoPending, incoming[d], "failed", oneshot[d], a, d)
    BY Zenon, <1>0, <2>1, EndStagedRest
  <2> QED BY Zenon, <2>1, <2>2, <2>3 DEF RestAt
<1>4. CASE Consume(d)
  <2>0. opener[d] = "waiting" /\ oneshot[d] \in {"entry", "error"} /\ UNCHANGED <<incoming, oneshot, open>>
    BY Zenon, <1>0, <1>4 DEF Consume, TypeOK
  <2>1. CASE oneshot[d] = "entry" /\ CanConsume(d)
    <3>1. PICK x : x = [n EXCEPT !.timer = TRUE]
      BY Zenon
    <3>2. x.st = n.st /\ x.reg = n.reg /\ x.stream = n.stream
      BY <1>0, <3>1, EntryResults
    <3>3. /\ opener'[d] = "owner" /\ pending'[d] = NoPending /\ SetEntry(d, "acceptor", x)
      BY Zenon, <1>0, <1>4, <1>t, <2>1, <3>1 DEF Consume, SetPending
    <3>4. entry'[d]["acceptor"] = x
      BY Zenon, <1>0, <3>3, SetEntryHere
    <3>5. Rest(x, NoPending, incoming[d], "owner", oneshot[d], a, d)
      BY Zenon, <1>0, <2>1, <3>2, NoPendingIs DEF Rest, NoPendingFacts, CanConsume
    <3> QED BY Zenon, <2>0, <3>3, <3>4, <3>5 DEF RestAt
  <2>2. CASE oneshot[d] = "entry" /\ ~CanConsume(d)
    <3>1. PICK x : x = RetirePlainEntry(n)
      BY Zenon
    <3>2. /\ x.st = "Retired" /\ ~x.reg /\ x.timer = n.timer
          /\ x.stream = IF n.stream = "handler" THEN "handler" ELSE "dropped"
      BY <1>0, <3>1, EntryResults
    <3>3. opener'[d] = "failed" /\ pending' = pending /\ SetEntry(d, "acceptor", x)
      BY Zenon, <1>0, <1>4, <1>t, <2>2, <3>1 DEF Consume
    <3>4. entry'[d]["acceptor"] = x
      BY Zenon, <1>0, <3>3, SetEntryHere
    <3>5. ~p.in
      BY Zenon, <1>0, <2>2 DEF Rest, CanConsume
    <3>6. Rest(x, p, incoming[d], "failed", oneshot[d], a, d)
      BY Zenon, <1>0, <2>2, <3>2, <3>5 DEF Rest
    <3> QED BY Zenon, <2>0, <3>3, <3>4, <3>6 DEF RestAt
  <2>3. CASE oneshot[d] = "error"
    <3>1. opener'[d] = "failed" /\ pending' = pending /\ SetEntry(d, "acceptor", n)
      BY Zenon, <1>0, <1>4, <1>t, <2>3 DEF Consume
    <3>2. entry'[d]["acceptor"] = n
      BY Zenon, <1>0, <3>1, SetEntryHere
    <3>3. Rest(n, p, incoming[d], "failed", oneshot[d], a, d)
      BY Zenon, <1>0, <2>0, <2>3 DEF Rest
    <3> QED BY Zenon, <2>0, <3>1, <3>2, <3>3 DEF RestAt
  <2> QED BY Zenon, <2>0, <2>1, <2>2, <2>3
<1>5. CASE Claim(d)
  <2>1. PICK x : x = [n EXCEPT !.st = "Claiming"]
    BY Zenon
  <2>2. x.st = "Claiming" /\ x.reg = n.reg /\ x.stream = n.stream /\ x.timer = n.timer
    BY <1>0, <2>1, EntryResults DEF EntryState
  <2>3. /\ opener[d] = "owner" /\ UNCHANGED <<pending, incoming, oneshot, open>>
        /\ \/ n.st = "FirstClaimPending" /\ opener'[d] = "claiming" /\ SetEntry(d, "acceptor", x)
           \/ opener'[d] = "rejected" /\ UNCHANGED entry
    BY Zenon, <1>0, <1>5, <1>t, <2>1 DEF Claim
  <2>4. \/ n.st = "FirstClaimPending" /\ opener'[d] = "claiming" /\ entry'[d]["acceptor"] = x
        \/ opener'[d] = "rejected" /\ entry'[d]["acceptor"] = n
    BY Zenon, <1>0, <1>s, <2>3, SetEntryHere
  <2>5. /\ Rest(n, p, incoming[d], "rejected", oneshot[d], a, d)
        /\ n.st = "FirstClaimPending" => Rest(x, p, incoming[d], "claiming", oneshot[d], a, d)
    BY Zenon, <1>0, <2>2, <2>3 DEF Rest
  <2> QED BY Zenon, <2>3, <2>4, <2>5 DEF RestAt
<1>6. CASE Steal(d)
  <2>1. PICK x : x = [n EXCEPT !.st = "Claiming"]
    BY Zenon
  <2>2. x.st = "Claiming" /\ x.reg = n.reg /\ x.stream = n.stream /\ x.timer = n.timer
    BY <1>0, <2>1, EntryResults DEF EntryState
  <2>3. /\ UNCHANGED <<pending, incoming, oneshot, open, opener>>
        /\ n.st = "FirstClaimPending" /\ SetEntry(d, "acceptor", x)
    BY Zenon, <1>0, <1>6, <2>1 DEF Steal
  <2>4. entry'[d]["acceptor"] = x
    BY Zenon, <1>0, <2>3, SetEntryHere
  <2>5. Rest(x, p, incoming[d], opener[d], oneshot[d], a, d)
    BY Zenon, <1>0, <2>2, <2>3 DEF Rest
  <2> QED BY Zenon, <2>3, <2>4, <2>5 DEF RestAt
<1>7. CASE ClaimTimeout(d)
  <2>1. PICK x : x = RetirePlainEntry(n)
    BY Zenon
  <2>2. /\ x.st = "Retired" /\ ~x.reg /\ x.timer = n.timer
        /\ x.stream = IF n.stream = "handler" THEN "handler" ELSE "dropped"
    BY <1>0, <2>1, EntryResults
  <2>3. /\ UNCHANGED <<pending, incoming, oneshot, open>> /\ opener[d] = "claiming"
        /\ opener'[d] = "rejected" /\ SetEntry(d, "acceptor", x)
    BY Zenon, <1>0, <1>7, <1>t, <2>1 DEF ClaimTimeout
  <2>4. entry'[d]["acceptor"] = x
    BY Zenon, <1>0, <2>3, SetEntryHere
  <2>5. Rest(x, p, incoming[d], "rejected", oneshot[d], a, d)
    BY Zenon, <1>0, <2>2, <2>3 DEF Rest
  <2> QED BY Zenon, <2>3, <2>4, <2>5 DEF RestAt
<1> QED BY Zenon, <1>1, <1>2, <1>3, <1>4, <1>5, <1>6, <1>7 DEF Opening

\* The events that may complete a request complete it with their connection,
\* and the response does so only after the connection was registered
LEMMA RegisteredCompletes ==
  ASSUME NEW k \in Correlation, NEW c \in Nat \ {NoConn}, ~k.terminal => k.completed = NoConn
  PROVE  /\ \A v \in {ArrivalRegistered(c), SuccessResponse(c)} :
              /\ Outcome(k, v) = "Complete" => Apply(k, v).completed = c
              /\ k.completed = c => Apply(k, v).completed = c
              /\ ~Apply(k, v).terminal => Apply(k, v).completed = NoConn
         /\ Outcome(k, SuccessResponse(c)) = "Complete" => k.registered
         /\ Apply(k, SuccessResponse(c)).registered = k.registered
<1>1. Apply(k, ArrivalRegistered(c)) = IF k.terminal THEN k ELSE ApplyArrivalRegistered(k, c)
  BY Zenon DEF Apply, ArrivalRegistered
<1>2. Apply(k, SuccessResponse(c)) = IF k.terminal THEN k ELSE ApplySuccessResponse(k, c)
  BY Zenon DEF Apply, SuccessResponse
<1>3. /\ Outcome(k, ArrivalRegistered(c)) = "Complete" =>
           ~k.terminal /\ Apply(k, ArrivalRegistered(c)).completed # NoConn
      /\ Outcome(k, SuccessResponse(c)) = "Complete" =>
           ~k.terminal /\ Apply(k, SuccessResponse(c)).completed # NoConn
  BY Zenon DEF Outcome, ArrivalRegistered, SuccessResponse
<1>4. ~k.terminal => /\ ApplyArrivalRegistered(k, c).completed \in {NoConn, c}
                     /\ ~ApplyArrivalRegistered(k, c).terminal =>
                          ApplyArrivalRegistered(k, c).completed = NoConn
  BY Zenon DEF ApplyArrivalRegistered, Complete, Fail, Correlation
<1>5. ~k.terminal => /\ ApplySuccessResponse(k, c).completed \in {NoConn, c}
                     /\ ApplySuccessResponse(k, c).completed # NoConn => k.registered
                     /\ ApplySuccessResponse(k, c).registered = k.registered
                     /\ ~ApplySuccessResponse(k, c).terminal =>
                          ApplySuccessResponse(k, c).completed = NoConn
  BY Zenon DEF ApplySuccessResponse, Complete, Fail, Correlation
<1> QED BY Zenon, <1>1, <1>2, <1>3, <1>4, <1>5

\* The handler of the arriving connection d: on_incoming_data_connection
LEMMA AcceptingRest ==
  ASSUME TypeOK, NEW d \in Reverse, RestAt(d), Accepting(d)
  PROVE  RestAt(d)'
<1> DEFINE n == entry[d]["acceptor"]
           p == pending[d]
           a == open["acceptor"]
           k == p.corr
<1>0. /\ n \in Entry /\ p \in Pending /\ a \in BOOLEAN /\ d \in Conn /\ d \notin Direct
      /\ "acceptor" \in End2 /\ k \in Correlation /\ d \in Nat \ {NoConn}
      /\ Rest(n, p, incoming[d], opener[d], oneshot[d], a, d)
  BY Zenon, RestTypes, ConnectionsAssumption DEF RestAt, TypeOK, End2
<1>t. /\ pending \in [Conn -> Pending] /\ incoming \in [Conn -> Incoming]
      /\ oneshot \in [Conn -> {"none", "entry", "error"}]
  BY Zenon DEF TypeOK
<1>u. UNCHANGED <<open, opener>>
  BY Zenon DEF Accepting, Accept, TakeStream, WriteReady, WriteReadyFails, RegisterDirect, RegisterReverse
<1>1. CASE Accept(d)
  <2>0. incoming[d] = "none" /\ UNCHANGED oneshot
    BY Zenon, <1>1 DEF Accept
  <2>1. CASE incoming'[d] = "end" /\ UNCHANGED <<pending, entry>>
    <3>1. Rest(n, p, "end", opener[d], oneshot[d], a, d)
      BY Zenon, <1>0, <2>0 DEF Rest
    <3> QED BY Zenon, <1>u, <2>0, <2>1, <3>1 DEF RestAt
  <2>2. CASE ~(incoming'[d] = "end" /\ UNCHANGED <<pending, entry>>)
    <3>1. PICK j : j = Apply(k, Arrival(d))
      BY Zenon
    <3>2. PICK q : q = [p EXCEPT !.staged = TRUE, !.corr = j]
      BY Zenon
    <3>3. /\ p.in /\ Outcome(k, Arrival(d)) = "Wait" /\ incoming'[d] = "staged"
          /\ pending'[d] = q /\ SetEntry(d, "acceptor", NewEntry(FALSE, FALSE))
      BY Zenon, <1>0, <1>1, <1>t, <2>2, <3>1, <3>2 DEF Accept, SetPending
    <3>4. q.in /\ q.staged /\ q.sender = p.sender /\ q.corr = j
      BY Zenon, <1>0, <3>2, <3>3 DEF Pending
    <3>5. j.terminal => k.terminal
      BY Zenon, <3>1, <3>3 DEF Outcome, Arrival
    <3>6. ~j.terminal => j.completed = NoConn
      BY Zenon, <1>0, <3>1, ApplyOutcome DEF Rest
    <3>7. ~k.terminal
      BY Zenon, <3>3 DEF Outcome, Arrival
    <3>8. PICK x : x = NewEntry(FALSE, FALSE)
      BY Zenon
    <3>9. x.st = "FirstClaimPending" /\ ~x.timer /\ x.stream = "entry"
      BY Zenon, <3>8 DEF NewEntry
    <3>10. entry'[d]["acceptor"] = x
      BY Zenon, <1>0, <3>3, <3>8, SetEntryHere
    <3>11. oneshot[d] # "entry"
      BY Zenon, <1>0, <2>0 DEF Rest
    <3>12. Rest(x, q, "staged", opener[d], oneshot[d], a, d)
      BY Zenon, <1>0, <3>3, <3>4, <3>5, <3>6, <3>7, <3>9, <3>11 DEF Rest
    <3> QED BY Zenon, <1>u, <2>0, <3>3, <3>10, <3>12 DEF RestAt
  <2> QED BY Zenon, <2>1, <2>2
<1>2. CASE TakeStream(d)
  <2>1. PICK x : x = [n EXCEPT !.stream = "handler"]
    BY Zenon
  <2>2. x.st = n.st /\ x.reg = n.reg /\ x.stream = "handler" /\ x.timer = n.timer
    BY <1>0, <2>1, EntryResults
  <2>3. /\ incoming[d] = "staged" /\ UNCHANGED <<pending, oneshot>>
        /\ \/ n.stream = "entry" /\ incoming'[d] = "writing" /\ SetEntry(d, "acceptor", x)
           \/ incoming'[d] = "end" /\ UNCHANGED entry
    BY Zenon, <1>0, <1>2, <1>t, <2>1 DEF TakeStream
  <2>4. \/ n.stream = "entry" /\ incoming'[d] = "writing" /\ entry'[d]["acceptor"] = x
        \/ incoming'[d] = "end" /\ entry'[d]["acceptor"] = n
    BY Zenon, <1>0, <2>3, SetEntryHere
  <2>5. /\ n.stream = "entry" => Rest(x, p, "writing", opener[d], oneshot[d], a, d)
        /\ Rest(n, p, "end", opener[d], oneshot[d], a, d)
    BY Zenon, <1>0, <2>2, <2>3 DEF Rest
  <2> QED BY Zenon, <1>u, <2>3, <2>4, <2>5 DEF RestAt
<1>3. CASE WriteReady(d)
  <2>1. /\ incoming[d] = "writing" /\ incoming'[d] = "written"
        /\ UNCHANGED <<pending, oneshot, entry>>
    BY Zenon, <1>0, <1>3, <1>t DEF WriteReady
  <2>2. Rest(n, p, "written", opener[d], oneshot[d], a, d)
    BY Zenon, <1>0, <2>1 DEF Rest
  <2> QED BY Zenon, <1>u, <2>1, <2>2 DEF RestAt
<1>4. CASE WriteReadyFails(d)
  <2> DEFINE s == IF p.in /\ p.sender THEN "error" ELSE oneshot[d]
  <2>1. PICK y : y = EndStaged(n, p)
    BY Zenon
  <2>2. PICK x : x = [y EXCEPT !.stream = "dropped"]
    BY Zenon
  <2>3. y \in Entry
    BY Zenon, <1>0, <2>1, EntryFunctionsType
  <2>4. x.st = y.st /\ x.reg = y.reg /\ x.stream = "dropped" /\ x.timer = y.timer
    BY Zenon, <2>2, <2>3, EntryResults
  <2>5. /\ incoming[d] = "writing" /\ incoming'[d] = "end" /\ pending'[d] = NoPending
        /\ oneshot'[d] = s /\ SetEntry(d, "acceptor", x)
    BY Zenon, <1>0, <1>4, <1>t, <2>1, <2>2 DEF WriteReadyFails, SetPending
  <2>6. entry'[d]["acceptor"] = x
    BY Zenon, <1>0, <2>5, SetEntryHere
  <2>7. Rest(y, NoPending, incoming[d], opener[d], s, a, d)
    BY Zenon, <1>0, <2>1, EndStagedRest
  <2> HIDE DEF s
  <2>8. Rest(x, NoPending, "end", opener[d], s, a, d)
    BY Zenon, <2>4, <2>5, <2>7, NoPendingIs DEF Rest, NoPendingFacts
  <2> QED BY Zenon, <1>u, <2>5, <2>6, <2>8 DEF RestAt
<1>5. CASE RegisterDirect(d)
  BY Zenon, <1>0, <1>5 DEF RegisterDirect
<1>6. CASE RegisterReverse(d)
  <2>0. incoming[d] = "written" /\ incoming'[d] = "end"
    BY Zenon, <1>0, <1>6, <1>t DEF RegisterReverse
  <2>1. CASE p.in /\ p.staged
    <3>1. PICK done \in BOOLEAN : done <=> (Outcome(k, ArrivalRegistered(d)) = "Complete")
      BY Zenon
    <3>2. PICK j : j = Apply(k, ArrivalRegistered(d))
      BY Zenon
    <3>3. PICK q : q = [p EXCEPT !.corr = j, !.sender = @ /\ ~done]
      BY Zenon
    <3>4. PICK x : x = [n EXCEPT !.reg = TRUE, !.stream = "entry"]
      BY Zenon
    <3>5. x.st = n.st /\ x.stream = "entry" /\ x.timer = n.timer
      BY Zenon, <1>0, <3>4, EntryResults
    <3>6. /\ pending'[d] = q /\ SetEntry(d, "acceptor", x)
          /\ oneshot'[d] = IF done THEN "entry" ELSE oneshot[d]
      BY Zenon, <1>0, <1>6, <1>t, <2>1, <3>1, <3>2, <3>3, <3>4 DEF RegisterReverse, SetPending
    <3>7. q.in /\ q.staged /\ q.corr = j /\ (q.sender <=> p.sender /\ ~done)
      BY Zenon, <1>0, <2>1, <3>3 DEF Pending
    <3>8. /\ done => j.completed = d
          /\ k.completed = d => j.completed = d
          /\ ~j.terminal => j.completed = NoConn
      BY Zenon, <1>0, <3>1, <3>2, RegisteredCompletes DEF Rest
    <3>9. entry'[d]["acceptor"] = x
      BY Zenon, <1>0, <3>6, SetEntryHere
    <3>10. Rest(x, q, "end", opener[d], IF done THEN "entry" ELSE oneshot[d], a, d)
      BY Zenon, <1>0, <2>1, <3>5, <3>7, <3>8 DEF Rest
    <3> QED BY Zenon, <1>u, <2>0, <3>6, <3>9, <3>10 DEF RestAt
  <2>2. CASE ~(p.in /\ p.staged)
    <3>1. PICK x : x = [n EXCEPT !.stream = "dropped"]
      BY Zenon
    <3>2. x.st = n.st /\ x.reg = n.reg /\ x.stream = "dropped" /\ x.timer = n.timer
      BY <1>0, <3>1, EntryResults
    <3>3. SetEntry(d, "acceptor", x) /\ UNCHANGED <<pending, oneshot>>
      BY Zenon, <1>6, <2>2, <3>1 DEF RegisterReverse
    <3>4. entry'[d]["acceptor"] = x
      BY Zenon, <1>0, <3>3, SetEntryHere
    <3>5. Rest(x, p, "end", opener[d], oneshot[d], a, d)
      BY Zenon, <1>0, <2>0, <3>2 DEF Rest
    <3> QED BY Zenon, <1>u, <2>0, <3>3, <3>4, <3>5 DEF RestAt
  <2> QED BY Zenon, <2>1, <2>2
<1> QED BY Zenon, <1>1, <1>2, <1>3, <1>4, <1>5, <1>6 DEF Accepting

\* The creating end does not touch the accepting end's side of d
LEMMA CreatingRest ==
  ASSUME TypeOK, NEW d \in Reverse, RestAt(d), Creating(d)
  PROVE  RestAt(d)'
<1>0. d \in Conn /\ d \notin Direct /\ "creator" \in End2 /\ opener \in [Conn -> Opener]
  BY Zenon, RestTypes, ConnectionsAssumption DEF TypeOK, End2
<1>1. UNCHANGED <<open, pending, oneshot, incoming>> /\ opener'[d] = opener[d]
  BY Zenon, <1>0 DEF Creating, Dial, CreateFails, Created, Respond
<1>2. UNCHANGED entry \/ \E n : SetEntry(d, "creator", n)
  BY Zenon DEF Creating, Dial, CreateFails, Created, Respond
<1>3. entry'[d]["acceptor"] = entry[d]["acceptor"]
  BY Zenon, <1>0, <1>2, SetEntryHere
<1> QED BY Zenon, <1>1, <1>3, RestFrame DEF Here

\* start_first_claim_timeout: an entry whose timer runs is no request's
LEMMA FirstClaimTimeoutRest ==
  ASSUME TypeOK, NEW d \in Reverse, RestAt(d), NEW e \in End2, FirstClaimTimeout(d, e)
  PROVE  RestAt(d)'
<1> DEFINE n == entry[d]["acceptor"]
           p == pending[d]
           a == open["acceptor"]
<1>0. /\ n \in Entry /\ p \in Pending /\ a \in BOOLEAN /\ d \in Conn
      /\ Rest(n, p, incoming[d], opener[d], oneshot[d], a, d)
      /\ UNCHANGED <<open, opener, pending, oneshot, incoming>>
  <2>1. a \in BOOLEAN
    BY Zenon DEF TypeOK, End2
  <2>2. UNCHANGED <<open, opener, pending, oneshot, incoming>>
    BY Zenon DEF FirstClaimTimeout
  <2> QED BY Zenon, <2>1, <2>2, RestTypes DEF RestAt
<1>1. CASE e # "acceptor"
  <2>1. \E x : SetEntry(d, e, x)
    BY Zenon DEF FirstClaimTimeout
  <2>2. entry'[d]["acceptor"] = n
    BY Zenon, <1>0, <1>1, <2>1, SetEntryHere
  <2> QED BY Zenon, <1>0, <2>2, RestFrame DEF Here
<1>2. CASE e = "acceptor"
  <2>1. PICK y : y = [n EXCEPT !.timer = FALSE]
    BY Zenon
  <2>2. y \in Entry /\ y.st = n.st /\ y.reg = n.reg /\ y.stream = n.stream /\ ~y.timer
    BY Zenon, <1>0, <2>1 DEF Entry
  <2>3. PICK x : x = RetirePlainEntry(y)
    BY Zenon
  <2>4. /\ x.st = "Retired" /\ ~x.reg /\ x.timer = y.timer
        /\ x.stream = IF y.stream = "handler" THEN "handler" ELSE "dropped"
    BY Zenon, <2>2, <2>3, EntryResults
  <2>5. n.timer /\ SetEntry(d, "acceptor", IF y.st = "FirstClaimPending" THEN x ELSE y)
    BY Zenon, <1>2, <2>1, <2>3 DEF FirstClaimTimeout
  <2>6. entry'[d]["acceptor"] = IF y.st = "FirstClaimPending" THEN x ELSE y
    BY Zenon, <1>0, <1>2, <2>5, SetEntryHere
  <2>7. /\ Rest(y, p, incoming[d], opener[d], oneshot[d], a, d)
        /\ y.st = "FirstClaimPending" => Rest(x, p, incoming[d], opener[d], oneshot[d], a, d)
    BY Zenon, <1>0, <2>2, <2>4, <2>5 DEF Rest
  <2> QED BY Zenon, <1>0, <2>6, <2>7 DEF RestAt
<1> QED BY Zenon, <1>1, <1>2

\* control_recv_loop: responses end or complete a request, claims and their
\* answers move an entry that is in use
LEMMA ReceiveRest ==
  ASSUME TypeOK, NEW d \in Reverse, RestAt(d), NEW e \in End2, Receive(e)
  PROVE  RestAt(d)'
<1> DEFINE m == Head(control[Peer(e)])
           c == m.conn
           n == entry[d]["acceptor"]
           p == pending[d]
           k == p.corr
           a == open["acceptor"]
<1>0. /\ n \in Entry /\ p \in Pending /\ a \in BOOLEAN /\ d \in Conn /\ "acceptor" \in End2
      /\ k \in Correlation /\ d \in Nat \ {NoConn}
      /\ Rest(n, p, incoming[d], opener[d], oneshot[d], a, d)
      /\ UNCHANGED <<open, incoming>>
  BY Zenon, RestTypes DEF RestAt, TypeOK, Receive, End2
<1>t. /\ pending \in [Conn -> Pending] /\ opener \in [Conn -> Opener]
      /\ oneshot \in [Conn -> {"none", "entry", "error"}]
  BY Zenon DEF TypeOK
<1>c. c \in Conn /\ m.type \in {"open", "success", "failure", "claim", "ack", "nack"}
  BY Zenon, HeadType
<1>1. CASE m.type = "open" \/ (m.type = "claim" /\ ~open[e])
  <2>1. UNCHANGED <<opener, pending, oneshot, entry>>
    BY Zenon, <1>1 DEF Receive
  <2> QED BY Zenon, <1>0, <2>1, RestFrame DEF Here
<1>2. CASE m.type = "failure"
  <2> DEFINE s == IF p.in /\ p.sender THEN "error" ELSE oneshot[d]
  <2>1. FailPending(c) /\ UNCHANGED opener
    BY Zenon, <1>2 DEF Receive, Response
  <2>2. CASE c # d
    <3>1. entry'[d]["acceptor"] = n
      <4>1. PICK y : SetEntry(c, "acceptor", y)
        BY Zenon, <2>1 DEF FailPending
      <4> HIDE DEF c
      <4> QED BY <1>0, <1>c, <2>2, <4>1, SetEntryHere
    <3>2. pending'[d] = p /\ oneshot'[d] = oneshot[d]
      BY Zenon, <1>0, <1>c, <1>t, <2>1, <2>2 DEF FailPending, SetPending
    <3> QED BY Zenon, <1>0, <2>1, <3>1, <3>2, RestFrame DEF Here
  <2>3. CASE c = d
    <3>1. entry'[d]["acceptor"] = EndStaged(n, p)
      BY Zenon, <1>0, <2>1, <2>3, SetEntryHere DEF FailPending
    <3>2. pending'[d] = NoPending /\ oneshot'[d] = s
      BY Zenon, <1>0, <1>t, <2>1, <2>3 DEF FailPending, SetPending
    <3>3. Rest(EndStaged(n, p), NoPending, incoming[d], opener[d], s, a, d)
      BY Zenon, <1>0, EndStagedRest
    <3> QED BY Zenon, <1>0, <2>1, <3>1, <3>2, <3>3 DEF RestAt
  <2> QED BY Zenon, <2>2, <2>3
<1>3. CASE m.type = "success"
  <2>1. UNCHANGED <<opener, entry>>
    BY Zenon, <1>3 DEF Receive, Response
  <2>2. CASE c # d \/ ~p.in
    <3>1. pending'[d] = p /\ oneshot'[d] = oneshot[d]
      BY Zenon, <1>0, <1>3, <1>c, <1>t, <2>2 DEF Receive, Response, SetPending
    <3> QED BY Zenon, <1>0, <2>1, <3>1, RestFrame DEF Here
  <2>3. CASE c = d /\ p.in
    <3>1. PICK done \in BOOLEAN : done <=> (Outcome(k, SuccessResponse(d)) = "Complete")
      BY Zenon
    <3>2. PICK j : j = Apply(k, SuccessResponse(d))
      BY Zenon
    <3>3. PICK q : q = [p EXCEPT !.corr = j, !.sender = @ /\ ~done]
      BY Zenon
    <3>4. pending'[d] = q /\ oneshot'[d] = IF done THEN "entry" ELSE oneshot[d]
      <4>1. SetPending(d, q) /\ oneshot' = [oneshot EXCEPT ![d] = IF done THEN "entry" ELSE @]
        BY Zenon, <1>3, <2>3, <3>1, <3>2, <3>3 DEF Receive, Response
      <4> QED BY Zenon, <1>0, <1>t, <4>1 DEF SetPending
    <3>5. q.in /\ q.staged = p.staged /\ q.corr = j /\ (q.sender <=> p.sender /\ ~done)
      BY Zenon, <1>0, <2>3, <3>3 DEF Pending
    <3>6. /\ done => j.completed = d /\ k.registered
          /\ k.completed = d => j.completed = d
          /\ ~j.terminal => j.completed = NoConn
          /\ j.registered = k.registered
      BY Zenon, <1>0, <3>1, <3>2, RegisteredCompletes DEF Rest
    <3>7. Rest(n, q, incoming[d], opener[d], IF done THEN "entry" ELSE oneshot[d], a, d)
      BY Zenon, <1>0, <2>3, <3>5, <3>6 DEF Rest
    <3> QED BY Zenon, <1>0, <2>1, <3>4, <3>7 DEF RestAt
  <2> QED BY Zenon, <2>2, <2>3
<1>4. CASE m.type \in {"ack", "nack"} \/ (m.type = "claim" /\ open[e])
  <2>1. PICK v : /\ SetEntry(c, e, [entry[c][e] EXCEPT !.st = v])
                 /\ \/ v = entry[c][e].st
                    \/ /\ entry[c][e].st \in {"FirstClaimPending", "Claiming"}
                       /\ v \in {"Bound", "FirstClaimPending"}
    <3>1. CASE m.type = "claim" /\ open[e]
      BY Zenon, <3>1 DEF Receive, ClaimReq
    <3>2. CASE m.type \in {"ack", "nack"}
      BY Zenon, <3>2 DEF Receive, ClaimAck
    <3> QED BY Zenon, <1>4, <3>1, <3>2
  <2>2. /\ UNCHANGED <<pending, oneshot>>
        /\ opener'[d] = opener[d] \/ (opener[d] = "claiming" /\ opener'[d] \in {"opened", "rejected"})
    BY Zenon, <1>0, <1>4, <1>c, <1>t DEF Receive, ClaimAck
  <2>3. \A o : /\ o = opener[d] \/ (opener[d] = "claiming" /\ o \in {"opened", "rejected"})
               => Rest(n, p, incoming[d], o, oneshot[d], a, d)
    BY Zenon, <1>0 DEF Rest
  <2>4. CASE c # d \/ e # "acceptor"
    <3>1. entry'[d]["acceptor"] = n
      BY <1>0, <1>c, <2>1, <2>4, SetEntryHere
    <3> QED BY Zenon, <1>0, <2>2, <2>3, <3>1 DEF RestAt
  <2>5. CASE c = d /\ e = "acceptor"
    <3>1. PICK x : x = [n EXCEPT !.st = v]
      BY Zenon
    <3>2. v \in EntryState
      BY Zenon, <1>0, <2>1, <2>5 DEF Entry, EntryState
    <3>3. x.st = v /\ x.reg = n.reg /\ x.stream = n.stream /\ x.timer = n.timer
      BY <1>0, <3>1, <3>2, EntryResults
    <3>4. entry'[d]["acceptor"] = x
      BY <1>0, <2>1, <2>5, <3>1, SetEntryHere
    <3>5. Rest(n, p, incoming[d], opener'[d], oneshot[d], a, d)
      BY Zenon, <2>2, <2>3
    <3>6. Rest(x, p, incoming[d], opener'[d], oneshot[d], a, d)
      BY Zenon, <2>1, <2>5, <3>3, <3>5 DEF Rest
    <3> QED BY Zenon, <1>0, <2>2, <3>4, <3>6 DEF RestAt
  <2> QED BY Zenon, <2>4, <2>5
<1> QED BY Zenon, <1>1, <1>2, <1>3, <1>4, <1>c

\* close_local ends the request with its entry, and retires what is registered
LEMMA CloseRest ==
  ASSUME TypeOK, NEW d \in Reverse, RestAt(d), NEW e \in End2, Close(e)
  PROVE  RestAt(d)'
<1> DEFINE n == entry[d]["acceptor"]
           p == pending[d]
           a == open["acceptor"]
<1>0. /\ n \in Entry /\ p \in Pending /\ a \in BOOLEAN /\ d \in Conn /\ "acceptor" \in End2
      /\ Rest(n, p, incoming[d], opener[d], oneshot[d], a, d)
      /\ entry \in [Conn -> [End2 -> Entry]] /\ open \in [End2 -> BOOLEAN]
  BY Zenon, RestTypes DEF RestAt, TypeOK, End2
<1>1. CASE e # "acceptor"
  <2>1. /\ UNCHANGED incoming /\ pending'[d] = p /\ oneshot'[d] = oneshot[d]
        /\ opener'[d] = opener[d] /\ open'["acceptor"] = a
    BY Zenon, <1>0, <1>1, RestTypes DEF Close
  <2>2. entry'[d]["acceptor"] = n
    BY Zenon, <1>0, <1>1 DEF Close
  <2> QED BY Zenon, <2>1, <2>2, RestFrame DEF Here
<1>2. CASE e = "acceptor"
  <2>1. PICK y : y = IF p.in THEN EndStaged(n, p) ELSE n
    BY Zenon
  <2>2. PICK s : s = IF p.in /\ p.sender THEN "error" ELSE oneshot[d]
    BY Zenon
  <2>3. PICK q : q = IF p.in THEN NoPending ELSE p
    BY Zenon
  <2>4. PICK o : o = IF opener[d] = "claiming" THEN "rejected" ELSE opener[d]
    BY Zenon
  <2>5. y \in Entry
    BY Zenon, <1>0, <2>1, EntryFunctionsType
  <2>6. Rest(y, q, incoming[d], opener[d], s, a, d)
    <3>1. CASE p.in
      BY Zenon, <1>0, <2>1, <2>2, <2>3, <3>1, EndStagedRest
    <3>2. CASE ~p.in
      BY Zenon, <1>0, <2>1, <2>2, <2>3, <3>2
    <3> QED BY Zenon, <3>1, <3>2
  <2>7. PICK x : x = RetireOnClose(y)
    BY Zenon
  <2>8. \/ x = y
        \/ /\ x.st = "Retired" /\ x.reg = y.reg /\ x.timer = y.timer /\ y.reg
           /\ x.stream = IF y.stream = "handler" THEN "handler" ELSE "dropped"
    <3>1. DropStream(y) = IF y.stream = "handler" THEN "handler" ELSE "dropped"
      BY Zenon DEF DropStream
    <3> QED BY Zenon, <2>5, <2>7, <3>1 DEF RetireOnClose, Entry
  <2>9. /\ UNCHANGED incoming /\ pending'[d] = q /\ oneshot'[d] = s /\ opener'[d] = o
        /\ open'["acceptor"] = FALSE
    BY Zenon, <1>0, <1>2, <2>2, <2>3, <2>4, RestTypes DEF Close
  <2>10. entry'[d]["acceptor"] = x
    BY Zenon, <1>0, <1>2, <2>1, <2>7 DEF Close
  <2>11. ~q.in
    BY Zenon, <2>3, NoPendingIs DEF NoPendingFacts
  <2>12. Rest(x, q, incoming[d], o, s, FALSE, d)
    BY <2>4, <2>6, <2>8, <2>11 DEF Rest
  <2> QED BY Zenon, <2>9, <2>10, <2>12 DEF RestAt
<1> QED BY Zenon, <1>1, <1>2

\* A request of the accepting end that got no connection leaves no entry that
\* waits for a claim and no stream that nobody closes, whichever of its own
\* timeout, a failed dial, a lost response, a failed write and a close ends it,
\* and at whatever point of the arriving connection's handler
THEOREM FailedRequestLeavesNothing == Spec => []RequestLeavesNothing
<1>1. Init => RestInv
  <2> SUFFICES ASSUME Init, NEW d \in Reverse PROVE RestAt(d)
    BY Zenon DEF RestInv
  <2>1. /\ entry[d]["acceptor"] = NoEntry /\ pending[d] = NoPending /\ incoming[d] = "none"
        /\ opener[d] = "idle" /\ oneshot[d] = "none"
    BY Zenon DEF Init, Conn, End2
  <2>2. Rest(NoEntry, NoPending, "none", "idle", "none", open["acceptor"], d)
    BY Zenon, NoPendingIs DEF NoPendingFacts, Rest, NoEntry
  <2> QED BY Zenon, <2>1, <2>2 DEF RestAt
<1>2. TypeOK /\ RestInv /\ [Next]_vars => RestInv'
  <2> SUFFICES ASSUME TypeOK, RestInv, [Next]_vars, NEW d \in Reverse PROVE RestAt(d)'
    BY Zenon DEF RestInv
  <2>0. RestAt(d) /\ d \in Conn
    BY Zenon DEF RestInv, Conn
  <2>1. CASE UNCHANGED vars
    BY Zenon, <2>0, <2>1, RestFrame DEF vars, Here
  <2>2. ASSUME NEW c \in Conn, Opening(c) \/ Accepting(c) \/ Creating(c) PROVE RestAt(d)'
    BY Zenon, <2>0, <2>2, OtherRest, OpeningRest, AcceptingRest, CreatingRest
  <2>3. ASSUME NEW c \in Conn, NEW e \in End2, FirstClaimTimeout(c, e) PROVE RestAt(d)'
    BY Zenon, <2>0, <2>3, OtherRest, FirstClaimTimeoutRest
  <2>4. ASSUME NEW e \in End2, Receive(e) \/ Close(e) PROVE RestAt(d)'
    BY Zenon, <2>0, <2>4, ReceiveRest, CloseRest
  <2>5. CASE Break
    BY Zenon, <2>0, <2>5, RestFrame DEF Break, Here
  <2> QED BY Zenon, <2>1, <2>2, <2>3, <2>4, <2>5 DEF Next
<1>3. RestInv => RequestLeavesNothing
  <2> SUFFICES ASSUME NEW d \in Reverse, RestAt(d), opener[d] = "failed",
                      incoming[d] \in {"none", "end"}
               PROVE  LET n == entry[d]["acceptor"]
                      IN /\ n.st # "FirstClaimPending"
                         /\ n.st = "Retired" => n.stream = "dropped" /\ ~(n.reg /\ open["acceptor"])
    BY Zenon DEF RestInv, RequestLeavesNothing
  <2> QED BY Zenon DEF RestAt, Rest
<1> QED BY TypeCorrect, <1>1, <1>2, <1>3, PTL DEF Spec

-----------------------------------------------------------------------------
(* What a ReverseOpenCorrelation guarantees for every sequence of events.      *)

\* The state between events: a request is registered only after its connection
\* arrived, arrival and response agree until the request ends, and only a
\* request that has ended is completed
CorrOK(k) ==
  /\ k \in Correlation
  /\ k.registered => k.arrival # NoConn
  /\ k.arrival # NoConn /\ k.response # NoConn => k.arrival = k.response
  /\ k.completed # NoConn =>
       k.terminal /\ k.registered /\ k.arrival = k.completed /\ k.response = k.completed

LEMMA NewCorrelationOK == CorrOK(NewCorrelation)
  BY Zenon DEF CorrOK, NewCorrelation, Correlation, NoConn

\* apply() keeps the correlation consistent, whatever event it is given
LEMMA ApplyOK ==
  ASSUME ConnsAssumption, NEW k, CorrOK(k), NEW e \in Event
  PROVE  CorrOK(Apply(k, e))
<1>1. CASE k.terminal
  BY Zenon, <1>1 DEF Apply
<1>2. CASE ~k.terminal /\ e = End
  BY Zenon, <1>2 DEF Apply, Fail, CorrOK, Correlation, End
<1>3. CASE ~k.terminal /\ \E c \in Conns : e = Arrival(c)
  <2>1. PICK c \in Conns : e = Arrival(c)
    BY Zenon, <1>3
  <2>2. Apply(k, e) = ApplyArrival(k, c)
    BY Zenon, <1>3, <2>1 DEF Apply, Arrival
  <2>3. CorrOK(ApplyArrival(k, c))
    BY Zenon, <1>3, ConnsAssumption DEF ConnsAssumption, ApplyArrival, Fail, CorrOK, Correlation, NoConn
  <2> QED BY Zenon, <2>2, <2>3
<1>4. CASE ~k.terminal /\ \E c \in Conns : e = ArrivalRegistered(c)
  <2>1. PICK c \in Conns : e = ArrivalRegistered(c)
    BY Zenon, <1>4
  <2>2. Apply(k, e) = ApplyArrivalRegistered(k, c)
    BY Zenon, <1>4, <2>1 DEF Apply, ArrivalRegistered
  <2>3. CorrOK(ApplyArrivalRegistered(k, c))
    BY Zenon, <1>4, ConnsAssumption
       DEF ConnsAssumption, ApplyArrivalRegistered, Complete, Fail, CorrOK, Correlation, NoConn
  <2> QED BY Zenon, <2>2, <2>3
<1>5. CASE ~k.terminal /\ \E c \in Conns : e = SuccessResponse(c)
  <2>1. PICK c \in Conns : e = SuccessResponse(c)
    BY Zenon, <1>5
  <2>2. Apply(k, e) = ApplySuccessResponse(k, c)
    BY Zenon, <1>5, <2>1 DEF Apply, SuccessResponse
  <2>3. CorrOK(ApplySuccessResponse(k, c))
    BY Zenon, <1>5, ConnsAssumption
       DEF ConnsAssumption, ApplySuccessResponse, Complete, Fail, CorrOK, Correlation, NoConn
  <2> QED BY Zenon, <2>2, <2>3
<1> QED BY Zenon, <1>1, <1>2, <1>3, <1>4, <1>5 DEF Event

\* The consistency of the correlation is an inductive invariant
LEMMA CorrInvariant == ASSUME ConnsAssumption PROVE HistorySpec => []CorrOK(corr)
<1>1. HistoryInit => CorrOK(corr)
  BY Zenon, NewCorrelationOK DEF HistoryInit
<1>2. CorrOK(corr) /\ [HistoryNext]_historyVars => CorrOK(corr)'
  <2>1. ASSUME CorrOK(corr), NEW e \in Event, Feed(e) PROVE CorrOK(corr)'
    BY Zenon, <2>1, ApplyOK DEF Feed
  <2>2. ASSUME CorrOK(corr), UNCHANGED historyVars PROVE CorrOK(corr)'
    BY Zenon, <2>2 DEF historyVars
  <2> QED BY Zenon, <2>1, <2>2 DEF HistoryNext
<1> QED BY <1>1, <1>2, PTL DEF HistorySpec

\* apply() completes a request only when arrival, registration and response
\* have all named the same connection, for all ids and all orders of events
THEOREM CompletedMatches == ASSUME ConnsAssumption PROVE HistorySpec => []CompletedIsMatched
<1>1. CorrOK(corr) => CompletedIsMatched
  BY Zenon DEF CorrOK, CompletedIsMatched
<1> QED BY <1>1, CorrInvariant, PTL

\* No event changes a request that has ended
THEOREM EndStays == HistorySpec => EndIsFinal
<1>1. [HistoryNext]_historyVars => [corr.terminal => corr' = corr]_historyVars
  BY Zenon DEF HistoryNext, Feed, Apply, historyVars
<1> QED BY <1>1, PTL DEF HistorySpec, EndIsFinal
=============================================================================
