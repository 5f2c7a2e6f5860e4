-------------------------- MODULE QuicTunnelProofs --------------------------
(***************************************************************************)
(* The safety of the two ends of a QUIC tunnel, for any number of opens.   *)
(***************************************************************************)
EXTENDS QuicTunnel, FiniteSetTheorems, TLAPS

-----------------------------------------------------------------------------
(***************************************************************************)
(* The QUIC tunnel, for any number of opens: each end uses its counter as  *)
(* ActivityUse says, and what an end has granted it serves, unless it is   *)
(* closed.  The argument follows an "ok" back to its origin: what the      *)
(* opener was told, or a command on its way says so, is granted (CmdInv,   *)
(* AnswerInv); what is granted is counted as pending (PendInv), so that    *)
(* the tunnel cannot be retired for idleness before it is served.  That a  *)
(* stream is asked for once needs that its Open frame is unique.           *)
(***************************************************************************)

\* The halves of a stream
Half == {"r", "w"}

\* The frames of a command stream
FrameKinds == {"Hello", "HelloResp", "Ping", "Pong", "Open", "OpenResp",
               "OpenChannelResp", "Data", "Fin", "Reset"}
CmdFrame == [kind : FrameKinds, id : Nat, arg : Nat]

\* The fields the argument is about have their types
QuicTypes ==
  /\ cmd \in [End -> Seq(CmdFrame)]
  /\ told \in [StreamId -> {"none", "ok", "err"}]
  /\ closed \subseteq End
  /\ act \in [End -> Activity]
  /\ pings \in [End -> Nat]
  /\ wrote \in [End -> [StreamId -> Nat]]
  /\ open \in [Opens -> {"idle", "begun", "sent", "late", "ok", "err"}]
  /\ serve \in [Opens -> {"none", "queued", "accepted", "granted", "served",
                          "refused", "gone"}]
  /\ reply \in [ChannelOpens -> {"none", "ok", "err"}]
  /\ requests \subseteq DatagramOpens
  /\ hold \in [End -> SUBSET (Opens \X {"r", "w"})]

\* What an opener that is told "ok" relies on
Granted(o) == serve[o] \in {"granted", "served"} \/ Server(o) \in closed

\* The Open frame of a control stream has been written and not yet read
Asking(c) == serve[c] = "none" /\ open[c] \notin {"idle", "begun"}

\* A frame f that end e has written and the other has not read
FrameOK(e, f) ==
  /\ f.kind = "Open" => f.id \in StreamId /\ Opener(f.id) = e /\ Asking(f.id)
  /\ f.kind = "OpenResp" => f.id \in StreamId /\ (f.arg = 1 => Granted(f.id))
  /\ f.kind = "OpenChannelResp" => f.id \in DatagramOpens /\ (f.arg = 1 => Granted(f.id))

SameOpen(f, g) == f.kind = "Open" /\ g.kind = "Open" /\ f.id = g.id

\* Every frame on its way is in order, and no stream is asked for twice
CmdInv ==
  \A e \in End : \A i \in DOMAIN cmd[e] :
    /\ FrameOK(e, cmd[e][i])
    /\ \A j \in DOMAIN cmd[e] : SameOpen(cmd[e][i], cmd[e][j]) => i = j

\* Nobody is told "ok" before the other end has granted it
AnswerInv ==
  /\ \A o \in ChannelOpens : reply[o] = "ok" => Granted(o)
  /\ \A c \in StreamId : told[c] = "ok" => Granted(c)
  /\ \A o \in Opens : /\ open[o] = "ok" => Granted(o)
                      /\ open[o] \in {"idle", "begun"} => serve[o] = "none"

\* Only the two ends of an established channel hold its halves
HoldInv ==
  \A e \in End, o \in Opens, h \in {"r", "w"} : <<o, h>> \in hold[e] =>
    \/ e = Opener(o) /\ open[o] = "ok"
    \/ e = Server(o) /\ serve[o] = "served"

\* The pending opens of an end are counted exactly, none outlives a
\* retirement for idleness, and a forced retirement comes with a close
PendInv ==
  \A e \in End :
    /\ IsFiniteSet(Pending(e))
    /\ act[e].pending = Cardinality(Pending(e))
    /\ act[e].life = "Idle" => Pending(e) = {}
    /\ act[e].life = "Forced" => e \in closed

QuicInv == QuicTypes /\ CmdInv /\ AnswerInv /\ HoldInv /\ PendInv

\* One end's counter moves as in a step of ActivityUse, or not at all
UseMoves(e) ==
  \/ act'[e] = act[e] /\ Pending(e)' = Pending(e) /\ hold'[e] = hold[e]
  \/ \E u \in Opens :
       /\ Live(act[e]) /\ u \notin Pending(e)
       /\ \A h \in Half : <<u, h>> \notin hold[e]
       /\ act'[e] = BeginPending(act[e])
       /\ Pending(e)' = Pending(e) \cup {u}
       /\ hold'[e] = hold[e]
  \/ \E u \in Opens, H \in {{"r"}, {"w"}, Half} :
       /\ u \in Pending(e)
       /\ act'[e] = Promote(act[e], Cardinality(H))
       /\ Pending(e)' = Pending(e) \ {u}
       /\ hold'[e] = IF Live(act[e]) THEN hold[e] \cup ({u} \X H) ELSE hold[e]
  \/ \E u \in Opens :
       /\ u \in Pending(e)
       /\ act'[e] = DropPending(act[e])
       /\ Pending(e)' = Pending(e) \ {u}
       /\ hold'[e] = hold[e]
  \/ \E u \in Opens :
       /\ Live(act[e]) /\ u \notin Pending(e)
       /\ \A h \in Half : <<u, h>> \notin hold[e]
       /\ act'[e] = AcquireWork(act[e], 2)
       /\ hold'[e] = hold[e] \cup ({u} \X Half)
       /\ Pending(e)' = Pending(e)
  \/ \E u \in Opens, h \in Half :
       /\ <<u, h>> \in hold[e]
       /\ act'[e] = DropWork(act[e])
       /\ hold'[e] = hold[e] \ {<<u, h>>}
       /\ Pending(e)' = Pending(e)
  \/ /\ MayRetireIdle(act[e])
     /\ act'[e] = RetiredIdle(act[e])
     /\ Pending(e)' = Pending(e) /\ hold'[e] = hold[e]
  \/ /\ act'[e] = Retired(act[e])
     /\ Pending(e)' = Pending(e) /\ hold'[e] = hold[e]

Forced == \A e \in End : act[e].life = "Forced" => e \in closed

\* The two ends, and which of them opens a channel
LEMMA Ends ==
  /\ \A e \in End : Peer(e) \in End /\ Peer(e) # e /\ Peer(Peer(e)) = e
  /\ \A o : /\ Opener(o) \in End /\ Server(o) \in End
            /\ Server(o) # Opener(o) /\ Peer(Server(o)) = Opener(o)
            /\ \A e \in End : e # Opener(o) <=> e = Server(o)
BY Zenon DEF End, Peer, Opener, Server

\* What is not a channel is a control stream
LEMMA OpenKinds ==
  /\ StreamId \subseteq Opens /\ ChannelOpens \subseteq Opens /\ Opens \subseteq Nat
  /\ \A o \in Opens : /\ Kind(o) = "control" <=> o \in StreamId
                      /\ Kind(o) = "stream" <=> o \in StreamOpens
                      /\ Kind(o) = "datagram" <=> o \in DatagramOpens
                      /\ o \in ChannelOpens <=> Kind(o) # "control"
BY Zenon, QuicAssumption, ControlAssumption DEF Opens, ChannelOpens, Kind

\* The counter stays exact whenever it moves as ActivityUse says
LEMMA PendNext ==
  ASSUME QuicTypes, PendInv, \A e \in End : UseMoves(e), Forced'
  PROVE  PendInv'
<1> SUFFICES ASSUME NEW e \in End
             PROVE  /\ IsFiniteSet(Pending(e)')
                    /\ act'[e].pending = Cardinality(Pending(e)')
                    /\ act'[e].life = "Idle" => Pending(e)' = {}
  BY Zenon DEF PendInv, Forced
<1>1. /\ act[e] \in Activity
      /\ IsFiniteSet(Pending(e)) /\ act[e].pending = Cardinality(Pending(e))
      /\ act[e].life = "Idle" => Pending(e) = {}
      /\ UseMoves(e)
  BY Zenon DEF QuicTypes, PendInv
<1> PICK P : P = Pending(e)
  BY Zenon
<1> PICK Q : Q = Pending(e)'
  BY Zenon
<1> PICK a : a = act[e]
  BY Zenon
<1> PICK b : b = act'[e]
  BY Zenon
<1>2. \/ b \in {a, Retired(a)} /\ Q = P
      \/ \E u : u \notin P /\ Q = P \cup {u} /\ b = BeginPending(a) /\ Live(a)
      \/ \E u : /\ u \in P /\ Q = P \ {u}
                /\ b = DropPending(a) \/ \E n : b = Promote(a, n)
      \/ Q = P /\ (b = DropWork(a) \/ b = AcquireWork(a, 2))
      \/ Q = P /\ MayRetireIdle(a) /\ b = RetiredIdle(a)
  BY Zenon, <1>1 DEF UseMoves
<1>3. IsFiniteSet(P) /\ a.pending = Cardinality(P) /\ Cardinality(P) \in Nat
  BY Zenon, <1>1, FS_CardinalityType
<1>4. a \in Activity /\ (a.life = "Idle" => P = {})
  BY Zenon, <1>1
<1> SUFFICES /\ IsFiniteSet(Q) /\ b.pending = Cardinality(Q)
             /\ b.life = "Idle" => Q = {}
  BY Zenon
<1>5. CASE b \in {a, Retired(a)} /\ Q = P
  BY Zenon, <1>3, <1>4, <1>5 DEF Retired, Live, Activity
<1>6. ASSUME NEW u, u \notin P, Q = P \cup {u}, b = BeginPending(a), Live(a)
      PROVE  /\ IsFiniteSet(Q) /\ b.pending = Cardinality(Q)
             /\ b.life = "Idle" => Q = {}
  <2>1. IsFiniteSet(Q) /\ Cardinality(Q) = Cardinality(P) + 1
    BY <1>3, <1>6, FS_AddElement
  <2> QED  BY Zenon, <1>3, <1>4, <1>6, <2>1 DEF BeginPending, Live, Activity
<1>7. ASSUME NEW u, u \in P, Q = P \ {u},
             b = DropPending(a) \/ \E n : b = Promote(a, n)
      PROVE  /\ IsFiniteSet(Q) /\ b.pending = Cardinality(Q)
             /\ b.life = "Idle" => Q = {}
  <2>1. IsFiniteSet(Q) /\ Cardinality(Q) = Cardinality(P) - 1
    BY <1>3, <1>7, FS_RemoveElement
  <2>2. Cardinality(P) # 0
    BY Zenon, <1>3, <1>7, FS_EmptySet
  <2>3. b.pending = Less(a.pending) /\ b.life = a.life
    BY Zenon, <1>4, <1>7 DEF DropPending, Promote, Activity
  <2> QED  BY <1>3, <1>4, <1>7, <2>1, <2>2, <2>3 DEF Less
<1>8. CASE Q = P /\ (b = DropWork(a) \/ b = AcquireWork(a, 2))
  BY Zenon, <1>3, <1>4, <1>8 DEF DropWork, AcquireWork, Activity
<1>9. CASE Q = P /\ MayRetireIdle(a) /\ b = RetiredIdle(a)
  <2>1. P = {}
    BY Zenon, <1>3, <1>9, FS_EmptySet DEF MayRetireIdle
  <2> QED  BY Zenon, <1>3, <1>4, <1>9, <2>1 DEF RetiredIdle, Activity
<1> QED  BY Zenon, <1>2, <1>5, <1>6, <1>7, <1>8, <1>9

\* What an end may do to the commands it has written
CmdMoves(e) ==
  \/ cmd'[e] \in {cmd[e], <<>>}
  \/ cmd[e] # <<>> /\ cmd'[e] = Tail(cmd[e])
  \/ \E f \in CmdFrame :
       /\ cmd'[e] = Append(cmd[e], f)
       /\ FrameOK(e, f)'
       /\ f.kind = "Open" => \A i \in DOMAIN cmd[e] : ~SameOpen(f, cmd[e][i])

\* A step takes back no grant, and asks for nothing a second time
Stays ==
  /\ \A o \in Opens : Granted(o) => Granted(o)'
  /\ \A c \in StreamId : Asking(c) => Asking(c)'

\* A frame stays in order as long as its claim does
LEMMA FrameStays ==
  ASSUME Stays, NEW e, NEW f, FrameOK(e, f)
  PROVE  FrameOK(e, f)'
<1>1. DatagramOpens \subseteq Opens /\ StreamId \subseteq Opens
  BY Zenon DEF Opens, ChannelOpens
<1> QED  BY Zenon, <1>1 DEF Stays, FrameOK

\* Commands that are kept, dropped, read or written stay in order
LEMMA CmdNext ==
  ASSUME QuicTypes, CmdInv, cmd' \in [End -> Seq(CmdFrame)], Stays,
         \A e \in End : CmdMoves(e)
  PROVE  CmdInv'
<1> SUFFICES ASSUME NEW e \in End, NEW i \in DOMAIN cmd'[e]
             PROVE  /\ \A f : f = cmd'[e][i] => FrameOK(e, f)'
                    /\ \A j \in DOMAIN cmd'[e] : SameOpen(cmd'[e][i], cmd'[e][j]) => i = j
  BY Zenon DEF CmdInv, FrameOK, Granted, Asking
<1> PICK s : s = cmd[e]
  BY Zenon
<1> PICK t : t = cmd'[e]
  BY Zenon
<1>1. s \in Seq(CmdFrame) /\ t \in Seq(CmdFrame)
  BY Zenon DEF QuicTypes
<1>2. \A k \in DOMAIN s : /\ \A f : f = s[k] => FrameOK(e, f)'
                          /\ \A j \in DOMAIN s : SameOpen(s[k], s[j]) => k = j
  <2> TAKE k \in DOMAIN s
  <2> PICK f : f = s[k]
    BY Zenon
  <2>1. FrameOK(e, f) /\ \A j \in DOMAIN s : SameOpen(s[k], s[j]) => k = j
    BY Zenon DEF CmdInv
  <2>2. FrameOK(e, f)'
    BY Zenon, <2>1, FrameStays
  <2> QED  BY Zenon, <2>1, <2>2
<1> SUFFICES /\ \A f : f = t[i] => FrameOK(e, f)'
             /\ \A j \in DOMAIN t : SameOpen(t[i], t[j]) => i = j
  BY Zenon
<1>3. CASE t = s
  BY Zenon, <1>2, <1>3
<1>4. CASE t = <<>>
  BY <1>4
<1>5. CASE s # <<>> /\ t = Tail(s)
  <2>1. /\ \A j \in DOMAIN t : j + 1 \in DOMAIN s /\ t[j] = s[j + 1]
        /\ \A j \in DOMAIN t : j \in Int
    BY <1>1, <1>5
  <2> QED  BY <1>2, <2>1
<1>6. ASSUME NEW f \in CmdFrame, t = Append(s, f), FrameOK(e, f)',
             f.kind = "Open" => \A k \in DOMAIN s : ~SameOpen(f, s[k])
      PROVE  /\ \A g : g = t[i] => FrameOK(e, g)'
             /\ \A j \in DOMAIN t : SameOpen(t[i], t[j]) => i = j
  <2>1. \A j \in DOMAIN t : \/ j \in DOMAIN s /\ t[j] = s[j]
                            \/ j = Len(s) + 1 /\ t[j] = f
    BY <1>1, <1>6
  <2>2. \A g : g = t[i] => FrameOK(e, g)'
    BY <1>2, <1>6, <2>1
  <2>3. ASSUME NEW j \in DOMAIN t, SameOpen(t[i], t[j])  PROVE i = j
    BY Zenon, <1>2, <1>6, <2>1, <2>3 DEF SameOpen
  <2> QED  BY Zenon, <2>2, <2>3
<1> QED  BY Zenon, <1>3, <1>4, <1>5, <1>6 DEF CmdMoves

\* What every step is shown to do
StepOK ==
  /\ \A e \in End : UseMoves(e)
  /\ QuicTypes' /\ CmdInv' /\ AnswerInv' /\ HoldInv' /\ Forced'

\* The frames that promise nothing
Plain(f) == f \in CmdFrame /\ f.kind \notin {"Open", "OpenResp", "OpenChannelResp"}

LEMMA FrameTyped ==
  ASSUME NEW k \in FrameKinds, NEW c \in Nat, NEW n \in Nat
  PROVE  /\ Frame(k, c, n) \in CmdFrame
         /\ Frame(k, c, n).kind = k /\ Frame(k, c, n).id = c /\ Frame(k, c, n).arg = n
BY Zenon DEF Frame, CmdFrame

LEMMA PlainOK ==
  ASSUME NEW e, NEW f, Plain(f)
  PROVE  f \in CmdFrame /\ f.kind # "Open" /\ FrameOK(e, f)'
BY Zenon DEF Plain, FrameOK

\* The command an end reads next is in order
LEMMA HeadOK ==
  ASSUME QuicInv, NEW e \in End, cmd[Peer(e)] # <<>>
  PROVE  /\ Head1(e) \in CmdFrame /\ FrameOK(Peer(e), Head1(e))
         /\ Head1(e) = cmd[Peer(e)][1] /\ 1 \in DOMAIN cmd[Peer(e)]
<1> PICK s : s = cmd[Peer(e)]
  BY Zenon
<1>1. s \in Seq(CmdFrame) /\ Peer(e) \in End
  BY Zenon, Ends DEF QuicInv, QuicTypes
<1>2. Head(s) = s[1] /\ 1 \in DOMAIN s /\ Head(s) \in CmdFrame
  BY <1>1
<1>3. FrameOK(Peer(e), s[1])
  BY Zenon, <1>1, <1>2 DEF QuicInv, CmdInv
<1> QED  BY Zenon, <1>2, <1>3 DEF Head1

\* The commands after an end has written one
LEMMA SentMoves ==
  ASSUME QuicTypes, NEW e \in End, NEW f \in CmdFrame, cmd' = Sent(e, f),
         FrameOK(e, f)',
         f.kind = "Open" => \A i \in DOMAIN cmd[e] : ~SameOpen(f, cmd[e][i])
  PROVE  cmd' \in [End -> Seq(CmdFrame)] /\ \A x \in End : CmdMoves(x)
<1>1. cmd \in [End -> Seq(CmdFrame)]
  BY Zenon DEF QuicTypes
<1>2. CASE cmd' = cmd
  BY Zenon, <1>1, <1>2 DEF CmdMoves
<1>3. CASE cmd' = [cmd EXCEPT ![e] = Append(cmd[e], f)]
  <2>1. Append(cmd[e], f) \in Seq(CmdFrame)
    BY <1>1
  <2>2. cmd'[e] = Append(cmd[e], f) /\ \A x \in End : x # e => cmd'[x] = cmd[x]
    BY Zenon, <1>1, <1>3
  <2>3. CmdMoves(e)
    BY Zenon, <2>2 DEF CmdMoves
  <2>4. \A x \in End : x # e => CmdMoves(x)
    BY Zenon, <2>2 DEF CmdMoves
  <2> QED  BY Zenon, <1>1, <1>3, <2>1, <2>3, <2>4
<1> QED  BY Zenon, <1>2, <1>3 DEF Sent

\* The commands after an end has read one
LEMMA TakenMoves ==
  ASSUME QuicTypes, NEW e \in End, cmd[Peer(e)] # <<>>, cmd' = Taken(e)
  PROVE  cmd' \in [End -> Seq(CmdFrame)] /\ \A x \in End : CmdMoves(x)
<1>1. cmd \in [End -> Seq(CmdFrame)] /\ Peer(e) \in End
  BY Zenon, Ends DEF QuicTypes
<1>2. Tail(cmd[Peer(e)]) \in Seq(CmdFrame)
  BY <1>1
<1>3. /\ cmd'[Peer(e)] = Tail(cmd[Peer(e)])
      /\ \A x \in End : x # Peer(e) => cmd'[x] = cmd[x]
  BY Zenon, <1>1 DEF Taken
<1>4. \A x \in End : CmdMoves(x)
  BY Zenon, <1>3 DEF CmdMoves
<1> QED  BY Zenon, <1>1, <1>2, <1>4 DEF Taken

\* The commands after an end has read one and answered it
LEMMA RepliedMoves ==
  ASSUME QuicTypes, NEW e \in End, cmd[Peer(e)] # <<>>, NEW f \in CmdFrame,
         cmd' = Replied(e, f), FrameOK(e, f)', f.kind # "Open"
  PROVE  /\ cmd' \in [End -> Seq(CmdFrame)] /\ \A x \in End : CmdMoves(x)
         /\ cmd'[Peer(e)] = Tail(cmd[Peer(e)])
         /\ cmd'[e] = cmd[e] \/ cmd'[e] = Append(cmd[e], f)
<1>1. cmd \in [End -> Seq(CmdFrame)] /\ Peer(e) \in End /\ Peer(e) # e
  BY Zenon, Ends DEF QuicTypes
<1>2. CASE cmd' = Taken(e)
  BY Zenon, <1>1, <1>2, TakenMoves DEF Taken
<1>3. CASE cmd' = [Taken(e) EXCEPT ![e] = Append(Taken(e)[e], f)]
  <2>1. Tail(cmd[Peer(e)]) \in Seq(CmdFrame) /\ Append(cmd[e], f) \in Seq(CmdFrame)
    BY <1>1
  <2>2. Taken(e) \in [End -> Seq(CmdFrame)] /\ Taken(e)[e] = cmd[e]
    BY Zenon, <1>1, <2>1 DEF Taken
  <2>3. cmd' \in [End -> Seq(CmdFrame)]
    BY Zenon, <1>3, <2>1, <2>2
  <2>4. cmd'[Peer(e)] = Tail(cmd[Peer(e)]) /\ cmd'[e] = Append(cmd[e], f)
    BY Zenon, <1>1, <1>3, <2>1, <2>2 DEF Taken
  <2>5. CmdMoves(e) /\ CmdMoves(Peer(e))
    BY Zenon, <2>4 DEF CmdMoves
  <2>6. \A x \in End : x = e \/ x = Peer(e)
    BY DEF End, Peer
  <2> QED  BY Zenon, <2>3, <2>4, <2>5, <2>6
<1> QED  BY Zenon, <1>2, <1>3 DEF Replied

\* A step that leaves the counters, the opens and the closes alone
LEMMA QuietOK ==
  ASSUME QuicInv, UNCHANGED <<act, open, serve, hold, closed>>,
         cmd' \in [End -> Seq(CmdFrame)], \A e \in End : CmdMoves(e),
         pings' \in [End -> Nat], wrote' \in [End -> [StreamId -> Nat]],
         told' \in [StreamId -> {"none", "ok", "err"}],
         reply' \in [ChannelOpens -> {"none", "ok", "err"}],
         requests' \subseteq DatagramOpens,
         \A c \in StreamId : told'[c] = "ok" => told[c] = "ok" \/ Granted(c),
         \A o \in ChannelOpens : reply'[o] = "ok" => reply[o] = "ok" \/ Granted(o)
  PROVE  StepOK
<1>1. \A e \in End : UseMoves(e)
  <2> TAKE e \in End
  <2>1. Pending(e)' = Pending(e)
    BY Zenon DEF Pending
  <2> QED  BY Zenon, <2>1 DEF UseMoves
<1>2. QuicTypes'
  BY Zenon DEF QuicInv, QuicTypes
<1>3. /\ \A o : Granted(o)' = Granted(o)
      /\ \A c : Asking(c)' = Asking(c)
  BY Zenon DEF Granted, Asking
<1>4. CmdInv'
  <2>1. Stays
    BY Zenon, <1>3 DEF Stays
  <2> QED  BY Zenon, <2>1, CmdNext DEF QuicInv
<1>5. AnswerInv'
  <2>1. AnswerInv /\ \A o \in Opens : Granted(o) <=> Granted(o)'
    BY Zenon, <1>3 DEF QuicInv
  <2>2. StreamId \subseteq Opens /\ ChannelOpens \subseteq Opens
    BY Zenon DEF Opens
  <2> QED  BY Zenon, <2>1, <2>2 DEF AnswerInv
<1>6. HoldInv' /\ Forced'
  BY Zenon DEF QuicInv, HoldInv, PendInv, Forced
<1> QED  BY Zenon, <1>1, <1>2, <1>4, <1>5, <1>6 DEF StepOK

\* A step that moves commands only
LEMMA CommandsOK ==
  ASSUME QuicInv, UNCHANGED <<act, open, serve, hold, closed, told, reply, requests>>,
         cmd' \in [End -> Seq(CmdFrame)], \A e \in End : CmdMoves(e),
         pings' \in [End -> Nat], wrote' \in [End -> [StreamId -> Nat]]
  PROVE  StepOK
BY Zenon, QuietOK DEF QuicInv, QuicTypes

LEMMA CmdSame ==
  ASSUME QuicInv, cmd' = cmd
  PROVE  cmd' \in [End -> Seq(CmdFrame)] /\ \A e \in End : CmdMoves(e)
BY Zenon DEF QuicInv, QuicTypes, CmdMoves

LEMMA SetupOK ==
  ASSUME QuicInv, Accept \/ Connect
  PROVE  StepOK
<1>1. /\ cmd \in [End -> Seq(CmdFrame)] /\ "active" \in End /\ "passive" \in End
      /\ pings \in [End -> Nat] /\ wrote \in [End -> [StreamId -> Nat]]
  BY Zenon DEF QuicInv, QuicTypes, End
<1>2. UNCHANGED <<act, open, serve, hold, closed, told, reply, requests, pings, wrote>>
  BY Zenon DEF Accept, Connect, control, channels, payload, tunnel
<1>3. CASE Accept
  <2> PICK f : f = Frame("HelloResp", NoStream, 0)
    BY Zenon
  <2>1. Plain(f)
    BY Zenon, FrameTyped DEF Plain, FrameKinds, NoStream
  <2>2. f \in CmdFrame /\ FrameOK("passive", f)' /\ f.kind # "Open"
    BY Zenon, <2>1, PlainOK
  <2>3. /\ cmd["active"] # <<>> /\ DOMAIN cmd' = End
        /\ cmd' = [x \in End |-> cmd'[x]]
        /\ cmd'["active"] = Tail(cmd["active"])
        /\ cmd'["passive"] = Append(cmd["passive"], f)
    BY Zenon, <1>3 DEF Accept, End
  <2>4. Tail(cmd["active"]) \in Seq(CmdFrame) /\ Append(cmd["passive"], f) \in Seq(CmdFrame)
    BY <1>1, <2>2, <2>3
  <2>5. cmd' \in [End -> Seq(CmdFrame)]
    BY Zenon, <2>3, <2>4 DEF End
  <2>6. CmdMoves("active")
    BY Zenon, <2>3 DEF CmdMoves
  <2>7. CmdMoves("passive")
    BY Zenon, <2>2, <2>3 DEF CmdMoves
  <2> QED  BY Zenon, <1>1, <1>2, <2>5, <2>6, <2>7, CommandsOK DEF End
<1>4. CASE Connect
  <2>1. Peer("active") = "passive"
    BY Zenon DEF Peer
  <2>2. cmd["passive"] # <<>> /\ cmd' = Taken("active")
    BY Zenon, <1>4, <2>1 DEF Connect, Taken
  <2>3. cmd' \in [End -> Seq(CmdFrame)] /\ \A e \in End : CmdMoves(e)
    BY Zenon, <1>1, <2>1, <2>2, TakenMoves DEF QuicInv
  <2> QED  BY Zenon, <1>1, <1>2, <2>3, CommandsOK
<1> QED  BY Zenon, <1>3, <1>4

LEMMA LocalOK ==
  ASSUME QuicInv, NEW e \in End,
         \/ ConnectionLost(e) \/ ListenControl(e) \/ RecvOpenRespInsert(e)
         \/ \E k \in {"stream", "datagram"} : ListenChannel(e, k)
         \/ \E c \in StreamId : Read(e, c)
  PROVE  StepOK
<1>1. UNCHANGED <<cmd, act, open, serve, hold, closed, told, reply, requests, pings, wrote>>
  BY Zenon DEF ConnectionLost, ListenControl, Listen, RecvOpenRespInsert, InsertStream,
         ListenChannel, Read, TakeItem, control, channels, payload, tunnel
<1> QED  BY Zenon, <1>1, CmdSame, CommandsOK DEF QuicInv, QuicTypes

LEMMA WritesOK ==
  ASSUME QuicInv, NEW e \in End,
         Ping(e) \/ \E c \in StreamId : Write(e, c) \/ Shutdown(e, c)
  PROVE  StepOK
<1>1. /\ pings \in [End -> Nat] /\ wrote \in [End -> [StreamId -> Nat]]
      /\ QuicTypes /\ StreamId \subseteq Nat
  BY Zenon, ControlAssumption DEF QuicInv, QuicTypes
<1>2. UNCHANGED <<act, open, serve, hold, closed, told, reply, requests>>
  BY Zenon DEF Ping, Write, Shutdown, control, channels, payload, tunnel
<1>3. pings' \in [End -> Nat] /\ wrote' \in [End -> [StreamId -> Nat]]
  <2>1. CASE Ping(e)
    BY <1>1, <2>1 DEF Ping, payload
  <2>2. ASSUME NEW c \in StreamId, Write(e, c)
        PROVE  pings' \in [End -> Nat] /\ wrote' \in [End -> [StreamId -> Nat]]
    BY <1>1, <2>2 DEF Write
  <2>3. ASSUME NEW c \in StreamId, Shutdown(e, c)
        PROVE  pings' \in [End -> Nat] /\ wrote' \in [End -> [StreamId -> Nat]]
    BY Zenon, <1>1, <2>3 DEF Shutdown
  <2> QED  BY Zenon, <2>1, <2>2, <2>3
<1>4. \E f : Plain(f) /\ cmd' = Sent(e, f)
  <2>1. CASE Ping(e)
    <3>1. pings'[e] \in Nat
      BY Zenon, <1>3
    <3>2. Plain(Frame("Ping", NoStream, pings'[e]))
      BY Zenon, <3>1, FrameTyped DEF Plain, FrameKinds, NoStream
    <3> QED  BY Zenon, <2>1, <3>2 DEF Ping
  <2>2. ASSUME NEW c \in StreamId, Write(e, c)
        PROVE  \E f : Plain(f) /\ cmd' = Sent(e, f)
    <3>1. wrote[e][c] \in Nat
      <4>1. wrote[e] \in [StreamId -> Nat]
        BY Zenon, <1>1
      <4> QED  BY Zenon, <4>1
    <3>2. c \in Nat
      BY Zenon, <1>1
    <3>3. PICK n : n = wrote[e][c] + 1
      BY Zenon
    <3>4. n \in Nat
      BY <3>1, <3>3
    <3>5. Plain(Frame("Data", c, n))
      BY <3>2, <3>4, FrameTyped DEF Plain, FrameKinds
    <3> QED  BY Zenon, <2>2, <3>3, <3>5 DEF Write
  <2>3. ASSUME NEW c \in StreamId, Shutdown(e, c)
        PROVE  \E f : Plain(f) /\ cmd' = Sent(e, f)
    <3>1. c \in Nat
      BY Zenon, <1>1
    <3>2. Plain(Frame("Fin", c, 0))
      BY <3>1, FrameTyped DEF Plain, FrameKinds
    <3> QED  BY Zenon, <2>3, <3>2 DEF Shutdown
  <2> QED  BY Zenon, <2>1, <2>2, <2>3
<1>5. PICK f : Plain(f) /\ cmd' = Sent(e, f)
  BY Zenon, <1>4
<1>6. cmd' \in [End -> Seq(CmdFrame)] /\ \A x \in End : CmdMoves(x)
  BY Zenon, <1>1, <1>5, PlainOK, SentMoves
<1> QED  BY Zenon, <1>2, <1>3, <1>6, CommandsOK

LEMMA ReadsOK ==
  ASSUME QuicInv, NEW e \in End,
         RecvPing(e) \/ RecvPong(e) \/ RecvData(e) \/ RecvFin(e) \/ RecvReset(e)
  PROVE  StepOK
<1>1. /\ QuicTypes /\ NoStream \in Nat
      /\ pings \in [End -> Nat] /\ wrote \in [End -> [StreamId -> Nat]]
  BY Zenon DEF QuicInv, QuicTypes, NoStream
<1>2. UNCHANGED <<act, open, serve, hold, closed, told, reply, requests, pings, wrote>>
  BY Zenon DEF RecvPing, RecvPong, RecvData, RecvFin, RecvReset, Deliver, EndStream, Forget,
         control, channels, payload, tunnel
<1>3. cmd[Peer(e)] # <<>>
  BY Zenon DEF RecvPing, RecvPong, RecvData, RecvFin, RecvReset, Receiving
<1>4. Head1(e).id \in Nat /\ Head1(e).arg \in Nat
  BY Zenon, <1>3, HeadOK DEF CmdFrame
<1>5. /\ Plain(Frame("Pong", NoStream, Head1(e).arg))
      /\ Plain(Frame("Reset", Head1(e).id, 0))
  BY <1>1, <1>4, FrameTyped DEF Plain, FrameKinds
<1>6. \/ cmd' = Taken(e)
      \/ \E f : Plain(f) /\ cmd' = Replied(e, f)
  BY Zenon, <1>5 DEF RecvPing, RecvPong, RecvData, RecvFin, RecvReset
<1>7. cmd' \in [End -> Seq(CmdFrame)] /\ \A x \in End : CmdMoves(x)
  <2>1. CASE cmd' = Taken(e)
    BY Zenon, <1>1, <1>3, <2>1, TakenMoves
  <2>2. ASSUME NEW f, Plain(f), cmd' = Replied(e, f)
        PROVE  cmd' \in [End -> Seq(CmdFrame)] /\ \A x \in End : CmdMoves(x)
    BY Zenon, <1>1, <1>3, <2>2, PlainOK, RepliedMoves
  <2> QED  BY Zenon, <1>6, <2>1, <2>2
<1> QED  BY Zenon, <1>1, <1>2, <1>7, CommandsOK

\* The answers that the command loop hands on
LEMMA AnswersOK ==
  ASSUME QuicInv, NEW e \in End, RecvOpenChannelResp(e) \/ RecvOpenResp(e)
  PROVE  StepOK
<1>1. /\ QuicTypes /\ pings \in [End -> Nat] /\ wrote \in [End -> [StreamId -> Nat]]
      /\ told \in [StreamId -> {"none", "ok", "err"}]
      /\ reply \in [ChannelOpens -> {"none", "ok", "err"}]
      /\ requests \subseteq DatagramOpens
  BY Zenon DEF QuicInv, QuicTypes
<1>2. UNCHANGED <<act, open, serve, hold, closed, pings, wrote>>
  BY Zenon DEF RecvOpenChannelResp, RecvOpenResp, channels, payload, tunnel
<1>3. cmd[Peer(e)] # <<>> /\ cmd' = Taken(e)
  BY Zenon DEF RecvOpenChannelResp, RecvOpenResp, Receiving
<1>4. cmd' \in [End -> Seq(CmdFrame)] /\ \A x \in End : CmdMoves(x)
  BY Zenon, <1>1, <1>3, TakenMoves
<1>5. PICK f : f = Head1(e)
  BY Zenon
<1>6. FrameOK(Peer(e), f)
  BY Zenon, <1>3, <1>5, HeadOK
<1>7. CASE RecvOpenChannelResp(e)
  <2>1. /\ f.id \in DatagramOpens /\ (f.arg = 1 => Granted(f.id))
        /\ UNCHANGED told /\ requests' \subseteq DatagramOpens
        /\ reply' = [reply EXCEPT ![f.id] = IF f.id \notin requests THEN reply[f.id]
                                   ELSE IF f.arg = 1 THEN "ok" ELSE "err"]
    BY Zenon, <1>1, <1>5, <1>6, <1>7 DEF RecvOpenChannelResp, Receiving, FrameOK, control
  <2>2. /\ reply' \in [ChannelOpens -> {"none", "ok", "err"}]
        /\ \A o \in ChannelOpens : reply'[o] = "ok" => reply[o] = "ok" \/ Granted(o)
    BY Zenon, <1>1, <2>1 DEF ChannelOpens
  <2> QED  BY Zenon, <1>1, <1>2, <1>4, <2>1, <2>2, QuietOK
<1>8. CASE RecvOpenResp(e)
  <2>1. /\ f.id \in StreamId /\ (f.arg = 1 => Granted(f.id))
        /\ UNCHANGED <<reply, requests>>
        /\ \/ told' = told
           \/ told' = [told EXCEPT ![f.id] = IF f.arg = 1 THEN "ok" ELSE "err"]
    BY Zenon, <1>1, <1>5, <1>6, <1>8
       DEF RecvOpenResp, Receiving, FrameOK, HandleOpenResp, control, channels
  <2>2. /\ told' \in [StreamId -> {"none", "ok", "err"}]
        /\ \A c \in StreamId : told'[c] = "ok" => told[c] = "ok" \/ Granted(c)
    BY Zenon, <1>1, <2>1
  <2> QED  BY Zenon, <1>1, <1>2, <1>4, <2>1, <2>2, QuietOK
<1> QED  BY Zenon, <1>7, <1>8

\* An end that closes its tunnel forces its activity out of use
LEMMA CloseOK ==
  ASSUME QuicInv, NEW e \in End, Close(e),
         open' \in [Opens -> {"idle", "begun", "sent", "late", "ok", "err"}],
         serve' \in [Opens -> {"none", "queued", "accepted", "granted", "served",
                               "refused", "gone"}],
         \A o \in Opens : open'[o] # open[o] => open[o] = "sent" /\ open'[o] = "late",
         \A o \in Opens : serve'[o] # serve[o] => serve[o] = "accepted" /\ serve'[o] = "gone"
  PROVE  StepOK
<1>1. QuicTypes /\ Peer(e) \in End /\ Peer(e) # e
  BY Zenon, Ends DEF QuicInv
<1>2. /\ act' = [act EXCEPT ![e] = Retired(act[e])]
      /\ closed' = closed \cup {e}
      /\ cmd' = [cmd EXCEPT ![Peer(e)] = <<>>]
      /\ reply' = [o \in ChannelOpens |->
                     IF o \in requests /\ Opener(o) = e THEN "err" ELSE reply[o]]
      /\ requests' \subseteq requests
      /\ UNCHANGED <<hold, pings, wrote>>
  BY Zenon DEF Close, payload
<1>3. \/ told' = told
      \/ told' = [c \in StreamId |-> IF c \in pendingOpens[e] THEN "err" ELSE told[c]]
  BY Zenon DEF Close, CloseAll, control
<1>4. /\ told' \in [StreamId -> {"none", "ok", "err"}]
      /\ \A c \in StreamId : told'[c] = "ok" => told[c] = "ok"
  BY <1>1, <1>3 DEF QuicTypes
<1>5. /\ reply' \in [ChannelOpens -> {"none", "ok", "err"}]
      /\ \A o \in ChannelOpens : reply'[o] = "ok" => reply[o] = "ok"
  BY Zenon, <1>1, <1>2 DEF QuicTypes
<1>6. \A x \in End : Pending(x)' = Pending(x)
  <2> TAKE x \in End
  <2>1. \A o \in Opens : /\ open'[o] \in {"begun", "sent", "late"} <=> open[o] \in {"begun", "sent", "late"}
                         /\ serve'[o] = "granted" <=> serve[o] = "granted"
    BY Zenon
  <2> QED  BY Zenon, <2>1 DEF Pending
<1>7. /\ act'[e] = Retired(act[e]) /\ act'[Peer(e)] = act[Peer(e)]
      /\ \A x \in End : x = e \/ x = Peer(e)
      /\ act[e] \in Activity /\ Retired(act[e]) \in Activity
  <2>1. act[e] \in Activity
    BY Zenon, <1>1 DEF QuicTypes
  <2>2. Retired(act[e]) \in Activity
    BY Zenon, <2>1 DEF Retired, Activity, Lives
  <2> QED  BY Zenon, <1>1, <1>2, <2>1, <2>2 DEF QuicTypes, End, Peer
<1>8. \A x \in End : UseMoves(x)
  BY Zenon, <1>2, <1>6, <1>7 DEF UseMoves
<1>9. cmd' \in [End -> Seq(CmdFrame)] /\ \A x \in End : CmdMoves(x)
  <2>1. cmd \in [End -> Seq(CmdFrame)] /\ <<>> \in Seq(CmdFrame)
    BY <1>1 DEF QuicTypes
  <2>2. cmd'[Peer(e)] = <<>> /\ cmd'[e] = cmd[e]
    BY Zenon, <1>1, <1>2, <2>1
  <2> QED  BY Zenon, <1>1, <1>2, <1>7, <2>1, <2>2 DEF CmdMoves
<1>10. QuicTypes'
  BY <1>1, <1>2, <1>4, <1>5, <1>7, <1>9 DEF QuicTypes
<1>11. Stays
  <2>1. StreamId \subseteq Opens
    BY Zenon DEF Opens
  <2>2. \A o \in Opens : Granted(o) => Granted(o)'
    BY Zenon, <1>2 DEF Granted
  <2>3. \A c \in StreamId : Asking(c) => Asking(c)'
    BY Zenon, <2>1 DEF Asking
  <2> QED  BY Zenon, <2>2, <2>3 DEF Stays
<1>12. CmdInv'
  BY Zenon, <1>9, <1>11, CmdNext DEF QuicInv
<1>13. AnswerInv'
  <2>1. StreamId \subseteq Opens /\ ChannelOpens \subseteq Opens
    BY Zenon DEF Opens
  <2>2. AnswerInv /\ \A o \in Opens : Granted(o) => Granted(o)'
    BY Zenon, <1>11 DEF Stays, QuicInv
  <2> QED  BY <1>4, <1>5, <2>1, <2>2 DEF AnswerInv
<1>14. HoldInv'
  BY <1>2 DEF QuicInv, HoldInv
<1>15. Forced'
  BY <1>2, <1>7 DEF QuicInv, PendInv, Forced
<1> QED  BY Zenon, <1>8, <1>10, <1>12, <1>13, <1>14, <1>15 DEF StepOK

LEMMA ClosesOK ==
  ASSUME QuicInv, NEW e \in End, CloseTunnel(e) \/ NoticeLoss(e) \/ HeartbeatTimeout(e)
  PROVE  StepOK
<1>1. Close(e) /\ UNCHANGED <<open, serve>>
  BY Zenon DEF CloseTunnel, NoticeLoss, HeartbeatTimeout
<1> QED  BY Zenon, <1>1, CloseOK DEF QuicInv, QuicTypes

LEMMA RequestFailsOK ==
  ASSUME QuicInv, NEW o \in ChannelOpens, HandleOpenReqFails(o)
  PROVE  StepOK
<1>1. /\ o \in Opens /\ Server(o) \in End /\ Close(Server(o)) /\ UNCHANGED open
      /\ serve[o] = "accepted" /\ serve' = [serve EXCEPT ![o] = "gone"]
  BY Zenon, Ends DEF HandleOpenReqFails, Opens
<1> QED  BY Zenon, <1>1, CloseOK DEF QuicInv, QuicTypes

\* A step that takes back no grant, and says "ok" only of what is granted
LEMMA AnsweredOK ==
  ASSUME QuicInv, UNCHANGED <<told, closed, pings, wrote>>,
         requests' \subseteq DatagramOpens,
         reply' \in [ChannelOpens -> {"none", "ok", "err"}],
         \A o \in ChannelOpens : reply'[o] = "ok" => reply[o] = "ok" \/ Granted(o)',
         cmd' \in [End -> Seq(CmdFrame)], \A e \in End : CmdMoves(e),
         Stays, act' \in [End -> Activity], Forced', \A e \in End : UseMoves(e),
         open' \in [Opens -> {"idle", "begun", "sent", "late", "ok", "err"}],
         serve' \in [Opens -> {"none", "queued", "accepted", "granted", "served",
                               "refused", "gone"}],
         hold' \in [End -> SUBSET (Opens \X {"r", "w"})], HoldInv',
         \A o \in Opens : /\ open'[o] = "ok" => open[o] = "ok" \/ Granted(o)
                          /\ open'[o] \in {"idle", "begun"} => serve'[o] = "none"
  PROVE  StepOK
<1>1. QuicTypes'
  BY Zenon DEF QuicInv, QuicTypes
<1>2. CmdInv'
  BY Zenon, CmdNext DEF QuicInv
<1>3. AnswerInv'
  <2>1. StreamId \subseteq Opens /\ ChannelOpens \subseteq Opens
    BY Zenon DEF Opens
  <2>2. AnswerInv /\ \A o \in Opens : Granted(o) => Granted(o)'
    BY Zenon DEF Stays, QuicInv
  <2> QED  BY Zenon, <2>1, <2>2 DEF AnswerInv
<1> QED  BY Zenon, <1>1, <1>2, <1>3 DEF StepOK

\* A step that leaves the answers alone and takes back no grant
LEMMA KeptOK ==
  ASSUME QuicInv, UNCHANGED <<reply, told, closed, pings, wrote>>,
         requests' \subseteq DatagramOpens,
         cmd' \in [End -> Seq(CmdFrame)], \A e \in End : CmdMoves(e),
         Stays, act' \in [End -> Activity], Forced', \A e \in End : UseMoves(e),
         open' \in [Opens -> {"idle", "begun", "sent", "late", "ok", "err"}],
         serve' \in [Opens -> {"none", "queued", "accepted", "granted", "served",
                               "refused", "gone"}],
         hold' \in [End -> SUBSET (Opens \X {"r", "w"})], HoldInv',
         \A o \in Opens : /\ open'[o] = "ok" => open[o] = "ok" \/ Granted(o)
                          /\ open'[o] \in {"idle", "begun"} => serve'[o] = "none"
  PROVE  StepOK
BY Zenon, AnsweredOK DEF QuicInv, QuicTypes

LEMMA TryRetireIdleOK ==
  ASSUME QuicInv, NEW e \in End, TryRetireIdle(e)
  PROVE  StepOK
<1>1. /\ UNCHANGED <<cmd, told, closed, pings, wrote, open, serve, reply, requests, hold>>
      /\ act' = [act EXCEPT ![e] = RetiredIdle(act[e])] /\ MayRetireIdle(act[e])
  BY Zenon DEF TryRetireIdle, control, tunnel, channels, payload
<1>2. /\ QuicTypes /\ act[e] \in Activity /\ RetiredIdle(act[e]) \in Activity
      /\ RetiredIdle(act[e]).life # "Forced"
  BY Zenon DEF QuicInv, QuicTypes, RetiredIdle, Activity, Lives
<1>3. act' \in [End -> Activity] /\ act'[e] = RetiredIdle(act[e])
  BY Zenon, <1>1, <1>2 DEF QuicTypes
<1>4. \A x \in End : Pending(x)' = Pending(x)
  BY Zenon, <1>1 DEF Pending
<1>5. \A x \in End : UseMoves(x)
  BY Zenon, <1>1, <1>2, <1>3, <1>4 DEF UseMoves, QuicTypes
<1>6. Forced'
  BY Zenon, <1>1, <1>2 DEF Forced, QuicInv, PendInv, QuicTypes
<1>7. Stays
  BY Zenon, <1>1 DEF Stays, Granted, Asking
<1>8. HoldInv'
  BY Zenon, <1>1 DEF QuicInv, HoldInv
<1>9. \A o \in Opens : /\ open'[o] = "ok" => open[o] = "ok"
                       /\ open'[o] \in {"idle", "begun"} => serve'[o] = "none"
  BY Zenon, <1>1 DEF QuicInv, AnswerInv
<1> QED
  BY Zenon, <1>1, <1>2, <1>3, <1>5, <1>6, <1>7, <1>8, <1>9, CmdSame, KeptOK DEF QuicTypes

\* Who is pending after the opener of o has moved on
LEMMA PendingOpen ==
  ASSUME QuicTypes, NEW o \in Opens, NEW v,
         open' = [open EXCEPT ![o] = v], UNCHANGED serve
  PROVE  /\ o \in Pending(Opener(o)) <=> open[o] \in {"begun", "sent", "late"}
         /\ v \in {"begun", "sent", "late"}
              => Pending(Opener(o))' = Pending(Opener(o)) \cup {o}
         /\ v \notin {"begun", "sent", "late"}
              => Pending(Opener(o))' = Pending(Opener(o)) \ {o}
         /\ \A x \in End : x # Opener(o) => Pending(x)' = Pending(x)
<1>1. open'[o] = v /\ \A u \in Opens : u # o => open'[u] = open[u]
  BY Zenon DEF QuicTypes
<1>2. Server(o) # Opener(o)
  BY Zenon, Ends
<1>3. \A x \in End : x # Opener(o) => Pending(x)' = Pending(x)
  <2> SUFFICES ASSUME NEW x \in End, x # Opener(o)  PROVE Pending(x)' = Pending(x)
    BY Zenon
  <2>1. \A u \in Opens : u \in Pending(x)' <=> u \in Pending(x)
    BY Zenon, <1>1 DEF Pending
  <2> QED  BY Zenon, <2>1 DEF Pending
<1>4. o \in Pending(Opener(o)) <=> open[o] \in {"begun", "sent", "late"}
  BY Zenon, <1>2 DEF Pending
<1>5. /\ o \in Pending(Opener(o))' <=> v \in {"begun", "sent", "late"}
      /\ \A u \in Opens : u # o => (u \in Pending(Opener(o))' <=> u \in Pending(Opener(o)))
  BY Zenon, <1>1, <1>2 DEF Pending
<1>6. Pending(Opener(o))' \subseteq Opens /\ Pending(Opener(o)) \subseteq Opens
  BY Zenon DEF Pending
<1> QED  BY Zenon, <1>3, <1>4, <1>5, <1>6

\* Who is pending after the other end has moved on
LEMMA PendingServe ==
  ASSUME QuicTypes, NEW o \in Opens, NEW v,
         serve' = [serve EXCEPT ![o] = v], UNCHANGED open
  PROVE  /\ o \in Pending(Server(o)) <=> serve[o] = "granted"
         /\ v = "granted" => Pending(Server(o))' = Pending(Server(o)) \cup {o}
         /\ v # "granted" => Pending(Server(o))' = Pending(Server(o)) \ {o}
         /\ \A x \in End : x # Server(o) => Pending(x)' = Pending(x)
<1>1. serve'[o] = v /\ \A u \in Opens : u # o => serve'[u] = serve[u]
  BY Zenon DEF QuicTypes
<1>2. Server(o) # Opener(o)
  BY Zenon, Ends
<1>3. \A x \in End : x # Server(o) => Pending(x)' = Pending(x)
  <2> SUFFICES ASSUME NEW x \in End, x # Server(o)  PROVE Pending(x)' = Pending(x)
    BY Zenon
  <2>1. \A u \in Opens : u \in Pending(x)' <=> u \in Pending(x)
    BY Zenon, <1>1 DEF Pending
  <2> QED  BY Zenon, <2>1 DEF Pending
<1>4. o \in Pending(Server(o)) <=> serve[o] = "granted"
  BY Zenon, <1>2 DEF Pending
<1>5. /\ o \in Pending(Server(o))' <=> v = "granted"
      /\ \A u \in Opens : u # o => (u \in Pending(Server(o))' <=> u \in Pending(Server(o)))
  BY Zenon, <1>1, <1>2 DEF Pending
<1>6. Pending(Server(o))' \subseteq Opens /\ Pending(Server(o)) \subseteq Opens
  BY Zenon DEF Pending
<1> QED  BY Zenon, <1>3, <1>4, <1>5, <1>6

\* The activity after one of the operations on it
LEMMA ActivityOps ==
  ASSUME QuicInv, NEW e \in End, NEW b,
         \/ b = BeginPending(act[e]) \/ b = DropPending(act[e]) \/ b = DropWork(act[e])
         \/ \E n \in Nat : b = AcquireWork(act[e], n) \/ b = Promote(act[e], n),
         act' = [act EXCEPT ![e] = b], UNCHANGED closed
  PROVE  /\ act' \in [End -> Activity] /\ Forced' /\ act'[e] = b
         /\ \A x \in End : x # e => act'[x] = act[x]
<1>1. act[e] \in Activity /\ act \in [End -> Activity]
  BY Zenon DEF QuicInv, QuicTypes
<1>2. b \in Activity /\ b.life = act[e].life
  <2>1. act[e].pending \in Nat /\ act[e].work \in Nat
    BY Zenon, <1>1 DEF Activity
  <2>2. Less(act[e].pending) \in Nat /\ Less(act[e].work) \in Nat
    BY <2>1 DEF Less
  <2>3. CASE b \in {BeginPending(act[e]), DropPending(act[e]), DropWork(act[e])}
    BY <1>1, <2>1, <2>2, <2>3 DEF BeginPending, DropPending, DropWork, Activity
  <2>4. ASSUME NEW n \in Nat, b = AcquireWork(act[e], n)
        PROVE  b \in Activity /\ b.life = act[e].life
    BY <1>1, <2>1, <2>4 DEF AcquireWork, Activity
  <2>5. ASSUME NEW n \in Nat, b = Promote(act[e], n)
        PROVE  b \in Activity /\ b.life = act[e].life
    <3> PICK w \in Nat : w = IF Live(act[e]) THEN act[e].work + n ELSE act[e].work
      BY <2>1
    <3> PICK r : r = [act[e] EXCEPT !.pending = Less(act[e].pending)]
      BY Zenon
    <3>1. r \in Activity /\ r.life = act[e].life
      BY Zenon, <1>1, <2>2 DEF Activity
    <3>2. b = [r EXCEPT !.work = w]
      BY Zenon, <2>5 DEF Promote
    <3> QED  BY Zenon, <3>1, <3>2 DEF Activity
  <2> QED  BY Zenon, <2>3, <2>4, <2>5
<1> QED  BY Zenon, <1>1, <1>2 DEF Forced, QuicInv, PendInv

\* What the invariant says of one open
LEMMA OpenFacts ==
  ASSUME QuicInv
  PROVE  /\ \A o \in Opens : open[o] \in {"idle", "begun"} => serve[o] = "none"
         /\ \A o \in Opens : open[o] # "ok" =>
              \A h \in {"r", "w"} : <<o, h>> \notin hold[Opener(o)]
         /\ \A o \in Opens : serve[o] # "served" =>
              \A h \in {"r", "w"} : <<o, h>> \notin hold[Server(o)]
BY Zenon, Ends DEF QuicInv, AnswerInv, HoldInv

LEMMA BeginOpenOK ==
  ASSUME QuicInv, NEW o \in Opens, BeginOpen(o)
  PROVE  StepOK
<1> PICK e : e = Opener(o)
  BY Zenon
<1>1. /\ e \in End /\ open[o] = "idle" /\ serve[o] = "none"
      /\ UNCHANGED <<cmd, told, closed, pings, wrote, serve, reply, requests, hold>>
  BY Zenon, Ends, OpenFacts DEF BeginOpen, control, tunnel, payload
<1>2. QuicTypes
  BY Zenon DEF QuicInv
<1>3. PICK v \in {"begun", "err"} :
         /\ open' = [open EXCEPT ![o] = v]
         /\ v = "begun" => Live(act[e]) /\ act' = [act EXCEPT ![e] = BeginPending(act[e])]
         /\ v = "err" => UNCHANGED act
  BY Zenon DEF BeginOpen
<1>4. open'[o] = v /\ \A u \in Opens : u # o => open'[u] = open[u]
  BY Zenon, <1>2, <1>3 DEF QuicTypes
<1>5. /\ act' \in [End -> Activity] /\ Forced'
      /\ v = "begun" => act'[e] = BeginPending(act[e])
      /\ \A x \in End : x # e \/ v = "err" => act'[x] = act[x]
  <2>1. CASE v = "begun"
    BY Zenon, <1>1, <1>3, <2>1, ActivityOps
  <2>2. CASE v = "err"
    BY Zenon, <1>1, <1>2, <1>3, <2>2 DEF Forced, QuicInv, PendInv, QuicTypes
  <2> QED  BY Zenon, <2>1, <2>2
<1>6. \A x \in End : UseMoves(x)
  <2>1. /\ o \notin Pending(e)
        /\ v = "begun" => Pending(e)' = Pending(e) \cup {o}
        /\ v = "err" => Pending(e)' = Pending(e) \ {o}
        /\ \A x \in End : x # e => Pending(x)' = Pending(x)
    BY Zenon, <1>1, <1>2, <1>3, PendingOpen
  <2>2. \A h \in Half : <<o, h>> \notin hold[e]
    BY Zenon, <1>1, OpenFacts DEF Half
  <2>3. UseMoves(e)
    <3>1. CASE v = "begun"
      BY Zenon, <1>1, <1>3, <1>5, <2>1, <2>2, <3>1 DEF UseMoves
    <3>2. CASE v = "err"
      BY <1>1, <1>5, <2>1, <3>2 DEF UseMoves
    <3> QED  BY Zenon, <3>1, <3>2
  <2>4. \A x \in End : x # e => UseMoves(x)
    BY Zenon, <1>1, <1>5, <2>1 DEF UseMoves
  <2> QED  BY Zenon, <2>3, <2>4
<1>7. Stays
  BY Zenon, <1>1, <1>4 DEF Stays, Granted, Asking, Opens
<1>8. HoldInv'
  BY Zenon, <1>1, <1>4 DEF QuicInv, HoldInv
<1>9. \A u \in Opens : /\ open'[u] = "ok" => open[u] = "ok"
                       /\ open'[u] \in {"idle", "begun"} => serve'[u] = "none"
  BY Zenon, <1>1, <1>4, OpenFacts
<1>10. open' \in [Opens -> {"idle", "begun", "sent", "late", "ok", "err"}]
  BY Zenon, <1>2, <1>3 DEF QuicTypes
<1> QED
  BY <1>1, <1>2, <1>5, <1>6, <1>7, <1>8, <1>9, <1>10, CmdSame, KeptOK DEF QuicTypes

LEMMA SendOpenOK ==
  ASSUME QuicInv, NEW o \in Opens, SendOpen(o)
  PROVE  StepOK
<1> PICK e : e = Opener(o)
  BY Zenon
<1>1. /\ e \in End /\ open[o] = "begun" /\ serve[o] = "none"
      /\ open' = [open EXCEPT ![o] = "sent"]
      /\ UNCHANGED <<told, act, closed, pings, wrote, reply, hold>>
  BY Zenon, Ends, OpenFacts DEF SendOpen, RegisterOpen, control, tunnel, payload
<1>2. QuicTypes
  BY Zenon DEF QuicInv
<1>3. open'[o] = "sent" /\ \A u \in Opens : u # o => open'[u] = open[u]
  BY Zenon, <1>1, <1>2 DEF QuicTypes
<1>4. /\ serve' \in [Opens -> {"none", "queued", "accepted", "granted", "served",
                               "refused", "gone"}]
      /\ serve'[o] \in {"none", "queued"} /\ \A u \in Opens : u # o => serve'[u] = serve[u]
      /\ requests' \subseteq DatagramOpens
      /\ o \in StreamId => serve'[o] = "none" /\ cmd' = Sent(e, Frame("Open", o, 0))
      /\ o \notin StreamId => cmd' = cmd
  <2>1. /\ serve \in [Opens -> {"none", "queued", "accepted", "granted", "served",
                                "refused", "gone"}]
        /\ requests \subseteq DatagramOpens
    BY Zenon, <1>2 DEF QuicTypes
  <2>2. CASE o \in StreamId
    <3>1. Kind(o) = "control"
      BY Zenon, <2>2, OpenKinds
    <3>2. cmd' = Sent(e, Frame("Open", o, 0)) /\ UNCHANGED <<serve, requests>>
      BY Zenon, <3>1 DEF SendOpen
    <3> QED  BY Zenon, <1>1, <2>1, <2>2, <3>2
  <2>3. CASE o \notin StreamId
    <3>1. Kind(o) # "control" /\ (Kind(o) = "datagram" => o \in DatagramOpens)
      BY Zenon, <2>3, OpenKinds
    <3>2. /\ cmd' = cmd /\ serve' = [serve EXCEPT ![o] = "queued"]
          /\ requests' = IF Kind(o) = "datagram" THEN requests \cup {o} ELSE requests
      BY Zenon, <3>1 DEF SendOpen
    <3> QED  BY Zenon, <2>1, <2>3, <3>1, <3>2
  <2> QED  BY Zenon, <2>2, <2>3
<1>5. \A x \in End : UseMoves(x)
  <2> TAKE x \in End
  <2>1. \A u \in Opens : u \in Pending(x)' <=> u \in Pending(x)
    BY Zenon, <1>1, <1>3, <1>4 DEF Pending
  <2>2. Pending(x)' = Pending(x)
    BY Zenon, <2>1 DEF Pending
  <2> QED  BY Zenon, <1>1, <2>2 DEF UseMoves
<1>6. Stays
  BY Zenon, <1>1, <1>3, <1>4 DEF Stays, Granted, Asking, Opens
<1>7. cmd' \in [End -> Seq(CmdFrame)] /\ \A x \in End : CmdMoves(x)
  <2>1. CASE o \notin StreamId
    BY Zenon, <1>4, <2>1, CmdSame
  <2>2. CASE o \in StreamId
    <3> PICK f : f = Frame("Open", o, 0)
      BY Zenon
    <3>1. f \in CmdFrame /\ f.kind = "Open" /\ f.id = o
      BY OpenKinds, FrameTyped DEF FrameKinds
    <3>2. Asking(o)' /\ ~Asking(o)
      BY Zenon, <1>1, <1>3, <1>4, <2>2 DEF Asking
    <3>3. FrameOK(e, f)'
      BY Zenon, <2>2, <3>1, <3>2 DEF FrameOK
    <3>4. \A i \in DOMAIN cmd[e] : ~SameOpen(f, cmd[e][i])
      BY Zenon, <1>1, <3>1, <3>2 DEF QuicInv, CmdInv, FrameOK, SameOpen
    <3> QED  BY Zenon, <1>1, <1>2, <1>4, <2>2, <3>1, <3>3, <3>4, SentMoves
  <2> QED  BY Zenon, <2>1, <2>2
<1>8. HoldInv'
  BY Zenon, <1>1, <1>3, <1>4 DEF QuicInv, HoldInv
<1>9. \A u \in Opens : /\ open'[u] = "ok" => open[u] = "ok"
                       /\ open'[u] \in {"idle", "begun"} => serve'[u] = "none"
  BY Zenon, <1>3, <1>4, OpenFacts
<1>10. open' \in [Opens -> {"idle", "begun", "sent", "late", "ok", "err"}]
  BY Zenon, <1>1, <1>2 DEF QuicTypes
<1>11. act' \in [End -> Activity] /\ Forced' /\ hold' \in [End -> SUBSET (Opens \X {"r", "w"})]
  BY Zenon, <1>1 DEF QuicInv, PendInv, Forced, QuicTypes
<1> QED  BY <1>1, <1>4, <1>5, <1>6, <1>7, <1>8, <1>9, <1>10, <1>11, KeptOK

LEMMA GivesUpOK ==
  ASSUME QuicInv, NEW o \in Opens, OpenGivesUp(o)
  PROVE  StepOK
<1> PICK e : e = Opener(o)
  BY Zenon
<1>1. /\ e \in End /\ open[o] \in {"begun", "sent", "late"}
      /\ open' = [open EXCEPT ![o] = "err"]
      /\ act' = [act EXCEPT ![e] = DropPending(act[e])]
      /\ UNCHANGED <<cmd, told, closed, pings, wrote, serve, reply, requests, hold>>
  BY Zenon, Ends DEF OpenGivesUp, FailOpen, control, tunnel, payload
<1>2. QuicTypes
  BY Zenon DEF QuicInv
<1>3. open'[o] = "err" /\ \A u \in Opens : u # o => open'[u] = open[u]
  BY Zenon, <1>1, <1>2 DEF QuicTypes
<1>4. /\ act' \in [End -> Activity] /\ Forced' /\ act'[e] = DropPending(act[e])
      /\ \A x \in End : x # e => act'[x] = act[x]
  BY Zenon, <1>1, ActivityOps
<1>5. \A x \in End : UseMoves(x)
  <2>1. /\ o \in Pending(e) /\ Pending(e)' = Pending(e) \ {o}
        /\ \A x \in End : x # e => Pending(x)' = Pending(x)
    <3> PICK v : v = "err"
      BY Zenon
    <3>1. v \notin {"begun", "sent", "late"} /\ open' = [open EXCEPT ![o] = v]
      BY Zenon, <1>1
    <3> QED  BY Zenon, <1>1, <1>2, <3>1, PendingOpen
  <2>2. UseMoves(e)
    BY Zenon, <1>1, <1>4, <2>1 DEF UseMoves
  <2>3. \A x \in End : x # e => UseMoves(x)
    BY Zenon, <1>1, <1>4, <2>1 DEF UseMoves
  <2> QED  BY Zenon, <2>2, <2>3
<1>6. Stays
  BY Zenon, <1>1, <1>3 DEF Stays, Granted, Asking, Opens
<1>7. HoldInv'
  BY Zenon, <1>1, <1>3 DEF QuicInv, HoldInv
<1>8. \A u \in Opens : /\ open'[u] = "ok" => open[u] = "ok"
                       /\ open'[u] \in {"idle", "begun"} => serve'[u] = "none"
  BY Zenon, <1>1, <1>3, OpenFacts
<1>9. open' \in [Opens -> {"idle", "begun", "sent", "late", "ok", "err"}]
  BY Zenon, <1>1, <1>2 DEF QuicTypes
<1> QED
  BY <1>1, <1>2, <1>4, <1>5, <1>6, <1>7, <1>8, <1>9, CmdSame, KeptOK DEF QuicTypes

\* The halves a user gets of a channel
LEMMA HalvesFacts ==
  ASSUME NEW o, NEW e
  PROVE  /\ HalvesOf(o, e) \in {{"r"}, {"w"}, Half}
         /\ HalvesOf(o, e) \subseteq {"r", "w"}
         /\ Cardinality(HalvesOf(o, e)) \in Nat
<1>1. HalvesOf(o, e) \in {{"r"}, {"w"}, {"r", "w"}}
  BY Zenon DEF HalvesOf
<1>2. IsFiniteSet({"r"}) /\ IsFiniteSet({"w"})
  BY Zenon, FS_Singleton
<1>3. IsFiniteSet({"r"} \cup {"w"}) /\ {"r"} \cup {"w"} = {"r", "w"}
  BY Zenon, <1>2, FS_Union
<1>4. IsFiniteSet(HalvesOf(o, e))
  BY Zenon, <1>1, <1>2, <1>3
<1> QED  BY Zenon, <1>1, <1>4, FS_CardinalityType DEF Half

\* promote: an end that had the open pending gets the halves, if it is live
LEMMA EstablishedFacts ==
  ASSUME QuicInv, NEW e \in End, NEW o \in Opens, Established(o, e), UNCHANGED closed
  PROVE  /\ act' \in [End -> Activity] /\ Forced'
         /\ \A x \in End : x # e => act'[x] = act[x] /\ hold'[x] = hold[x]
         /\ hold' \in [End -> SUBSET (Opens \X {"r", "w"})]
         /\ \A x \in hold'[e] : x \in hold[e] \/ (x[1] = o /\ Live(act[e]))
         /\ o \in Pending(e) /\ Pending(e)' = Pending(e) \ {o} => UseMoves(e)
<1> PICK H : H = HalvesOf(o, e)
  BY Zenon
<1>1. H \in {{"r"}, {"w"}, Half} /\ H \subseteq {"r", "w"} /\ Cardinality(H) \in Nat
  BY Zenon, HalvesFacts
<1>2. act' = [act EXCEPT ![e] = Promote(act[e], Cardinality(H))]
  BY Zenon DEF Established
<1>3. /\ act' \in [End -> Activity] /\ Forced'
      /\ act'[e] = Promote(act[e], Cardinality(H))
      /\ \A x \in End : x # e => act'[x] = act[x]
  BY Zenon, <1>1, <1>2, ActivityOps
<1>4. hold \in [End -> SUBSET (Opens \X {"r", "w"})]
  BY Zenon DEF QuicInv, QuicTypes
<1>5. PICK g : g = IF Live(act[e]) THEN hold[e] \cup ({o} \X H) ELSE hold[e]
  BY Zenon
<1>6. g \in SUBSET (Opens \X {"r", "w"}) /\ \A x \in g : x \in hold[e] \/ (x[1] = o /\ Live(act[e]))
  BY Zenon, <1>1, <1>4, <1>5
<1>7. hold' = [hold EXCEPT ![e] = g]
  BY Zenon, <1>5 DEF Established
<1>8. /\ hold'[e] = g /\ hold' \in [End -> SUBSET (Opens \X {"r", "w"})]
      /\ \A x \in End : x # e => hold'[x] = hold[x]
  BY Zenon, <1>4, <1>6, <1>7
<1>9. ASSUME o \in Pending(e), Pending(e)' = Pending(e) \ {o}
      PROVE  UseMoves(e)
  <2>1. hold'[e] = IF Live(act[e]) THEN hold[e] \cup ({o} \X H) ELSE hold[e]
    BY Zenon, <1>5, <1>8
  <2> QED  BY Zenon, <1>1, <1>3, <1>9, <2>1 DEF UseMoves
<1> QED  BY Zenon, <1>3, <1>6, <1>8, <1>9

\* The opener is told what the other end has granted
LEMMA AnswerMeans ==
  ASSUME QuicInv, NEW o \in Opens, Answer(o) = "ok"
  PROVE  Granted(o)
<1>1. CASE o \in StreamId
  BY Zenon, <1>1, OpenKinds DEF Answer, QuicInv, AnswerInv
<1>2. CASE o \in ChannelOpens
  BY Zenon, <1>2, OpenKinds DEF Answer, QuicInv, AnswerInv
<1> QED  BY Zenon, <1>1, <1>2 DEF Opens

LEMMA OpenSucceedsOK ==
  ASSUME QuicInv, NEW o \in Opens, OpenSucceeds(o)
  PROVE  StepOK
<1> PICK e : e = Opener(o)
  BY Zenon
<1>1. /\ e \in End /\ open[o] = "sent" /\ Granted(o) /\ Established(o, e)
      /\ open' = [open EXCEPT ![o] = IF Live(act[e]) THEN "ok" ELSE "err"]
      /\ UNCHANGED <<cmd, told, closed, pings, wrote, serve, reply, requests>>
  BY Zenon, Ends, AnswerMeans DEF OpenSucceeds, control, tunnel, payload
<1>2. QuicTypes
  BY Zenon DEF QuicInv
<1>3. PICK v \in {"ok", "err"} :
        v = (IF Live(act[e]) THEN "ok" ELSE "err") /\ open' = [open EXCEPT ![o] = v]
  BY Zenon, <1>1
<1>4. open'[o] = v /\ \A u \in Opens : u # o => open'[u] = open[u]
  BY Zenon, <1>2, <1>3 DEF QuicTypes
<1>5. /\ act' \in [End -> Activity] /\ Forced'
      /\ \A x \in End : x # e => act'[x] = act[x] /\ hold'[x] = hold[x]
      /\ hold' \in [End -> SUBSET (Opens \X {"r", "w"})]
      /\ \A x \in hold'[e] : x \in hold[e] \/ (x[1] = o /\ Live(act[e]))
      /\ o \in Pending(e) /\ Pending(e)' = Pending(e) \ {o} => UseMoves(e)
  BY Zenon, <1>1, EstablishedFacts
<1>6. \A x \in End : UseMoves(x)
  <2>1. /\ o \in Pending(e) /\ Pending(e)' = Pending(e) \ {o}
        /\ \A x \in End : x # e => Pending(x)' = Pending(x)
    <3>1. v \notin {"begun", "sent", "late"}
      BY Zenon
    <3> QED  BY Zenon, <1>1, <1>2, <1>3, <3>1, PendingOpen
  <2>2. \A x \in End : x # e => UseMoves(x)
    BY Zenon, <1>5, <2>1 DEF UseMoves
  <2> QED  BY Zenon, <1>5, <2>1, <2>2
<1>7. Stays
  BY Zenon, <1>1, <1>4 DEF Stays, Granted, Asking, Opens
<1>8. HoldInv'
  <2> SUFFICES ASSUME NEW x \in End, NEW u \in Opens, NEW h \in {"r", "w"},
                      <<u, h>> \in hold'[x]
               PROVE  \/ x = Opener(u) /\ open'[u] = "ok"
                      \/ x = Server(u) /\ serve'[u] = "served"
    BY Zenon DEF HoldInv
  <2>1. CASE <<u, h>> \in hold[x]
    BY Zenon, <1>1, <1>4, <2>1 DEF QuicInv, HoldInv
  <2>2. CASE <<u, h>> \notin hold[x]
    <3>1. x = e
      BY Zenon, <1>5, <2>2
    <3>2. <<u, h>>[1] = o /\ Live(act[e])
      BY Zenon, <1>5, <2>2, <3>1
    <3> QED  BY Zenon, <1>3, <1>4, <3>1, <3>2
  <2> QED  BY Zenon, <2>1, <2>2
<1>9. \A u \in Opens : /\ open'[u] = "ok" => open[u] = "ok" \/ Granted(u)
                       /\ open'[u] \in {"idle", "begun"} => serve'[u] = "none"
  BY Zenon, <1>1, <1>4, OpenFacts
<1>10. open' \in [Opens -> {"idle", "begun", "sent", "late", "ok", "err"}]
  BY Zenon, <1>2, <1>3 DEF QuicTypes
<1>11. /\ serve' \in [Opens -> {"none", "queued", "accepted", "granted", "served",
                                "refused", "gone"}]
       /\ requests' \subseteq DatagramOpens
  BY Zenon, <1>1, <1>2 DEF QuicTypes
<1> QED  BY <1>1, <1>5, <1>6, <1>7, <1>8, <1>9, <1>10, <1>11, CmdSame, KeptOK

LEMMA OpenTimeoutOK ==
  ASSUME QuicInv, NEW o \in Opens, OpenTimeout(o)
  PROVE  StepOK
<1> PICK e : e = Opener(o)
  BY Zenon
<1>1. e \in End /\ open[o] = "sent" /\ open' = [open EXCEPT ![o] = "late"]
  BY Zenon, Ends DEF OpenTimeout
<1>2. QuicTypes
  BY Zenon DEF QuicInv
<1>3. /\ open' \in [Opens -> {"idle", "begun", "sent", "late", "ok", "err"}]
      /\ open'[o] = "late" /\ \A u \in Opens : u # o => open'[u] = open[u]
  BY Zenon, <1>1, <1>2 DEF QuicTypes
<1>4. CASE Kind(o) # "control"
  <2>1. Close(e) /\ UNCHANGED serve
    BY Zenon, <1>4 DEF OpenTimeout
  <2> QED  BY Zenon, <1>1, <1>2, <1>3, <2>1, CloseOK DEF QuicTypes
<1>5. CASE Kind(o) = "control"
  <2>1. UNCHANGED <<cmd, told, closed, act, pings, wrote, serve, reply, requests, hold>>
    BY Zenon, <1>5 DEF OpenTimeout, DropOpen, tunnel, payload
  <2>2. \A x \in End : UseMoves(x)
    <3> TAKE x \in End
    <3>1. \A u \in Opens : u \in Pending(x)' <=> u \in Pending(x)
      BY Zenon, <1>1, <1>3, <2>1 DEF Pending
    <3>2. Pending(x)' = Pending(x)
      BY Zenon, <3>1 DEF Pending
    <3> QED  BY Zenon, <2>1, <3>2 DEF UseMoves
  <2>3. Stays
    BY Zenon, <1>1, <1>3, <2>1 DEF Stays, Granted, Asking, Opens
  <2>4. HoldInv' /\ Forced'
    BY <1>1, <1>3, <2>1 DEF QuicInv, HoldInv, PendInv, Forced
  <2>5. \A u \in Opens : /\ open'[u] = "ok" => open[u] = "ok"
                         /\ open'[u] \in {"idle", "begun"} => serve'[u] = "none"
    BY Zenon, <1>3, <2>1, OpenFacts
  <2> QED  BY Zenon, <1>2, <1>3, <2>1, <2>2, <2>3, <2>4, <2>5, CmdSame, KeptOK DEF QuicTypes
<1> QED  BY Zenon, <1>4, <1>5

LEMMA DropHalfOK ==
  ASSUME QuicInv, NEW e \in End, NEW o \in Opens, NEW h \in {"r", "w"}, DropHalf(e, o, h)
  PROVE  StepOK
<1>1. /\ <<o, h>> \in hold[e]
      /\ hold' = [hold EXCEPT ![e] = hold[e] \ {<<o, h>>}]
      /\ act' = [act EXCEPT ![e] = DropWork(act[e])]
      /\ UNCHANGED <<cmd, told, closed, pings, wrote, open, serve, reply, requests>>
  BY Zenon DEF DropHalf, DropReader, control, tunnel, payload
<1>2. QuicTypes
  BY Zenon DEF QuicInv
<1>3. /\ hold' \in [End -> SUBSET (Opens \X {"r", "w"})]
      /\ hold'[e] = hold[e] \ {<<o, h>>} /\ \A x \in End : hold'[x] \subseteq hold[x]
      /\ \A x \in End : x # e => hold'[x] = hold[x]
  BY Zenon, <1>1, <1>2 DEF QuicTypes
<1>4. /\ act' \in [End -> Activity] /\ Forced' /\ act'[e] = DropWork(act[e])
      /\ \A x \in End : x # e => act'[x] = act[x]
  BY Zenon, <1>1, ActivityOps
<1>5. \A x \in End : UseMoves(x)
  <2>1. \A x \in End : Pending(x)' = Pending(x)
    BY Zenon, <1>1 DEF Pending
  <2>2. UseMoves(e)
    BY Zenon, <1>1, <1>3, <1>4, <2>1 DEF UseMoves, Half
  <2>3. \A x \in End : x # e => UseMoves(x)
    BY Zenon, <1>3, <1>4, <2>1 DEF UseMoves
  <2> QED  BY Zenon, <2>2, <2>3
<1>6. Stays
  BY Zenon, <1>1 DEF Stays, Granted, Asking
<1>7. HoldInv'
  BY Zenon, <1>1, <1>3 DEF QuicInv, HoldInv
<1>8. \A u \in Opens : /\ open'[u] = "ok" => open[u] = "ok"
                       /\ open'[u] \in {"idle", "begun"} => serve'[u] = "none"
  BY Zenon, <1>1, OpenFacts
<1> QED
  BY Zenon, <1>1, <1>2, <1>3, <1>4, <1>5, <1>6, <1>7, <1>8, CmdSame, KeptOK DEF QuicTypes

LEMMA AcceptChannelOK ==
  ASSUME QuicInv, NEW o \in ChannelOpens, AcceptChannel(o)
  PROVE  StepOK
<1>1. /\ o \in Opens /\ serve[o] = "queued" /\ serve' = [serve EXCEPT ![o] = "accepted"]
      /\ UNCHANGED <<cmd, told, closed, act, pings, wrote, open, reply, requests, hold>>
  BY Zenon DEF AcceptChannel, Opens, control, tunnel, payload
<1>2. QuicTypes
  BY Zenon DEF QuicInv
<1>3. /\ serve' \in [Opens -> {"none", "queued", "accepted", "granted", "served",
                               "refused", "gone"}]
      /\ serve'[o] = "accepted" /\ \A u \in Opens : u # o => serve'[u] = serve[u]
  BY Zenon, <1>1, <1>2 DEF QuicTypes
<1>4. \A x \in End : UseMoves(x)
  <2> TAKE x \in End
  <2>1. \A u \in Opens : u \in Pending(x)' <=> u \in Pending(x)
    BY Zenon, <1>1, <1>3 DEF Pending
  <2>2. Pending(x)' = Pending(x)
    BY Zenon, <2>1 DEF Pending
  <2> QED  BY Zenon, <1>1, <2>2 DEF UseMoves
<1>5. Stays
  BY Zenon, <1>1, <1>3 DEF Stays, Granted, Asking, Opens
<1>6. HoldInv' /\ Forced'
  BY Zenon, <1>1, <1>3 DEF QuicInv, HoldInv, PendInv, Forced
<1>7. \A u \in Opens : /\ open'[u] = "ok" => open[u] = "ok"
                       /\ open'[u] \in {"idle", "begun"} => serve'[u] = "none"
  BY Zenon, <1>1, <1>3, OpenFacts
<1> QED  BY Zenon, <1>1, <1>2, <1>3, <1>4, <1>5, <1>6, <1>7, CmdSame, KeptOK DEF QuicTypes

\* An open is granted by an end that counts it at once
LEMMA AnswerOpenOK ==
  ASSUME QuicInv, NEW o \in ChannelOpens, AnswerOpen(o)
  PROVE  StepOK
<1> PICK p : p = Server(o)
  BY Zenon
<1>1. PICK ok \in BOOLEAN :
        /\ Respond(o, ok) /\ serve[o] = "accepted"
        /\ serve' = [serve EXCEPT ![o] = IF ok THEN "granted" ELSE "refused"]
        /\ ok => Live(act[p]) /\ act' = [act EXCEPT ![p] = BeginPending(act[p])]
        /\ ~ok => UNCHANGED act
  <2>1. CASE o \in Unserved \/ ~Live(act[p])
    BY Zenon, <2>1 DEF AnswerOpen
  <2>2. CASE ~(o \in Unserved \/ ~Live(act[p]))
    BY Zenon, <2>2 DEF AnswerOpen
  <2> QED  BY Zenon, <2>1, <2>2
<1>2. /\ o \in Opens /\ p \in End /\ QuicTypes
      /\ UNCHANGED <<told, closed, pings, wrote, open, requests, hold>>
  BY Zenon, Ends DEF AnswerOpen, Opens, control, tunnel, payload, QuicInv
<1>3. PICK v \in {"granted", "refused"} :
        v = (IF ok THEN "granted" ELSE "refused") /\ serve' = [serve EXCEPT ![o] = v]
  BY Zenon, <1>1
<1>4. /\ serve' \in [Opens -> {"none", "queued", "accepted", "granted", "served",
                               "refused", "gone"}]
      /\ serve'[o] = v /\ \A u \in Opens : u # o => serve'[u] = serve[u]
  BY Zenon, <1>2, <1>3 DEF QuicTypes
<1>5. ok => Granted(o)'
  BY Zenon, <1>3, <1>4 DEF Granted
<1>6. /\ reply' \in [ChannelOpens -> {"none", "ok", "err"}]
      /\ \A u \in ChannelOpens : reply'[u] = "ok" => reply[u] = "ok" \/ Granted(u)'
      /\ cmd' \in [End -> Seq(CmdFrame)] /\ \A x \in End : CmdMoves(x)
  <2>1. reply \in [ChannelOpens -> {"none", "ok", "err"}]
    BY Zenon, <1>2 DEF QuicTypes
  <2>2. CASE Kind(o) = "stream"
    <3>1. reply' = [reply EXCEPT ![o] = IF ok THEN "ok" ELSE "err"] /\ UNCHANGED cmd
      BY Zenon, <1>1, <2>2 DEF Respond
    <3>2. /\ reply' \in [ChannelOpens -> {"none", "ok", "err"}]
          /\ reply'[o] = "ok" => ok
          /\ \A u \in ChannelOpens : u # o => reply'[u] = reply[u]
      BY Zenon, <2>1, <3>1
    <3> QED  BY Zenon, <1>5, <3>1, <3>2, CmdSame
  <2>3. CASE Kind(o) # "stream"
    <3> PICK n \in Nat : n = IF ok THEN 1 ELSE 0
      BY Zenon
    <3> PICK f : f = Frame("OpenChannelResp", o, n)
      BY Zenon
    <3>1. reply' = reply /\ cmd' = Sent(p, f)
      BY Zenon, <1>1, <2>3 DEF Respond
    <3>2. f \in CmdFrame /\ f.kind = "OpenChannelResp" /\ f.id = o /\ f.arg = n
      BY <1>2, OpenKinds, FrameTyped DEF FrameKinds
    <3>3. o \in DatagramOpens
      BY Zenon, <1>2, <2>3, OpenKinds DEF ChannelOpens
    <3>4. FrameOK(p, f)'
      BY <1>5, <3>2, <3>3 DEF FrameOK
    <3> QED  BY Zenon, <1>2, <2>1, <3>1, <3>2, <3>4, SentMoves
  <2> QED  BY Zenon, <2>2, <2>3
<1>7. /\ act' \in [End -> Activity] /\ Forced'
      /\ ok => act'[p] = BeginPending(act[p])
      /\ \A x \in End : x # p \/ ~ok => act'[x] = act[x]
  <2>1. CASE ok
    BY Zenon, <1>1, <1>2, <2>1, ActivityOps
  <2>2. CASE ~ok
    BY Zenon, <1>1, <1>2, <2>2 DEF Forced, QuicInv, PendInv, QuicTypes
  <2> QED  BY Zenon, <2>1, <2>2
<1>8. \A x \in End : UseMoves(x)
  <2>1. /\ o \notin Pending(p)
        /\ v = "granted" => Pending(p)' = Pending(p) \cup {o}
        /\ v # "granted" => Pending(p)' = Pending(p) \ {o}
        /\ \A x \in End : x # p => Pending(x)' = Pending(x)
    BY Zenon, <1>1, <1>2, <1>3, PendingServe
  <2>2. \A h \in Half : <<o, h>> \notin hold[p]
    BY Zenon, <1>1, <1>2, OpenFacts DEF Half
  <2>3. CASE ok
    <3>1. UseMoves(p)
      BY Zenon, <1>1, <1>2, <1>3, <1>7, <2>1, <2>2, <2>3 DEF UseMoves
    <3> QED  BY Zenon, <1>2, <1>7, <2>1, <3>1 DEF UseMoves
  <2>4. CASE ~ok
    <3>1. Pending(p)' = Pending(p)
      BY Zenon, <1>3, <2>1, <2>4
    <3> QED  BY Zenon, <1>2, <1>7, <2>1, <2>4, <3>1 DEF UseMoves
  <2> QED  BY Zenon, <2>3, <2>4
<1>9. Stays
  BY Zenon, <1>1, <1>2, <1>4 DEF Stays, Granted, Asking, Opens
<1>10. HoldInv'
  BY Zenon, <1>1, <1>2, <1>4 DEF QuicInv, HoldInv
<1>11. \A u \in Opens : /\ open'[u] = "ok" => open[u] = "ok"
                        /\ open'[u] \in {"idle", "begun"} => serve'[u] = "none"
  BY Zenon, <1>1, <1>2, <1>4, OpenFacts
<1>12. /\ open' \in [Opens -> {"idle", "begun", "sent", "late", "ok", "err"}]
       /\ hold' \in [End -> SUBSET (Opens \X {"r", "w"})]
       /\ requests' \subseteq DatagramOpens
  BY Zenon, <1>2 DEF QuicTypes
<1> QED
  BY <1>2, <1>4, <1>6, <1>7, <1>8, <1>9, <1>10, <1>11, <1>12, AnsweredOK

\* A granted channel that is not handed on was cut by a close: the pending
\* guard rules the retirement for idleness out
LEMMA ServeChannelOK ==
  ASSUME QuicInv, NEW o \in ChannelOpens, ServeChannel(o)
  PROVE  StepOK
<1> PICK p : p = Server(o)
  BY Zenon
<1>1. /\ p \in End /\ o \in Opens /\ QuicTypes /\ serve[o] = "granted" /\ Established(o, p)
      /\ serve' = [serve EXCEPT ![o] = IF Live(act[p]) THEN "served" ELSE "gone"]
      /\ UNCHANGED <<cmd, told, closed, pings, wrote, open, reply, requests>>
  BY Zenon, Ends DEF ServeChannel, Opens, control, tunnel, payload, QuicInv
<1>2. PICK v \in {"served", "gone"} :
        v = (IF Live(act[p]) THEN "served" ELSE "gone") /\ serve' = [serve EXCEPT ![o] = v]
  BY Zenon, <1>1
<1>3. /\ serve' \in [Opens -> {"none", "queued", "accepted", "granted", "served",
                               "refused", "gone"}]
      /\ serve'[o] = v /\ \A u \in Opens : u # o => serve'[u] = serve[u]
  BY Zenon, <1>1, <1>2 DEF QuicTypes
<1>4. /\ act' \in [End -> Activity] /\ Forced'
      /\ \A x \in End : x # p => act'[x] = act[x] /\ hold'[x] = hold[x]
      /\ hold' \in [End -> SUBSET (Opens \X {"r", "w"})]
      /\ \A x \in hold'[p] : x \in hold[p] \/ (x[1] = o /\ Live(act[p]))
      /\ o \in Pending(p) /\ Pending(p)' = Pending(p) \ {o} => UseMoves(p)
  BY Zenon, <1>1, EstablishedFacts
<1>5. /\ o \in Pending(p) /\ Pending(p)' = Pending(p) \ {o}
      /\ \A x \in End : x # p => Pending(x)' = Pending(x)
  <2>1. v # "granted"
    BY Zenon
  <2> QED  BY Zenon, <1>1, <1>2, <2>1, PendingServe
<1>6. \A x \in End : UseMoves(x)
  <2>1. \A x \in End : x # p => UseMoves(x)
    BY Zenon, <1>4, <1>5 DEF UseMoves
  <2> QED  BY Zenon, <1>4, <1>5, <2>1
<1>7. v = "gone" => p \in closed
  <2>1. act[p].life \in Lives /\ act[p].life # "Idle"
    BY Zenon, <1>1, <1>5 DEF QuicInv, PendInv, QuicTypes, Activity
  <2>2. act[p].life = "Forced" => p \in closed
    BY Zenon, <1>1 DEF QuicInv, PendInv
  <2> QED  BY Zenon, <1>2, <2>1, <2>2 DEF Live, Lives
<1>8. Stays
  BY Zenon, <1>1, <1>3, <1>7 DEF Stays, Granted, Asking, Opens
<1>9. HoldInv'
  <2> SUFFICES ASSUME NEW x \in End, NEW u \in Opens, NEW h \in {"r", "w"},
                      <<u, h>> \in hold'[x]
               PROVE  \/ x = Opener(u) /\ open'[u] = "ok"
                      \/ x = Server(u) /\ serve'[u] = "served"
    BY Zenon DEF HoldInv
  <2>1. CASE <<u, h>> \in hold[x]
    BY Zenon, <1>1, <1>3, <2>1 DEF QuicInv, HoldInv
  <2>2. CASE <<u, h>> \notin hold[x]
    <3>1. x = p
      BY Zenon, <1>4, <2>2
    <3>2. <<u, h>>[1] = o /\ Live(act[p])
      BY Zenon, <1>4, <2>2, <3>1
    <3> QED  BY Zenon, <1>2, <1>3, <3>1, <3>2
  <2> QED  BY Zenon, <2>1, <2>2
<1>10. \A u \in Opens : /\ open'[u] = "ok" => open[u] = "ok"
                        /\ open'[u] \in {"idle", "begun"} => serve'[u] = "none"
  BY Zenon, <1>1, <1>3, OpenFacts
<1>11. /\ open' \in [Opens -> {"idle", "begun", "sent", "late", "ok", "err"}]
       /\ requests' \subseteq DatagramOpens
  BY Zenon, <1>1 DEF QuicTypes
<1> QED  BY <1>1, <1>3, <1>4, <1>6, <1>8, <1>9, <1>10, <1>11, CmdSame, KeptOK

\* The Open frame that is read is the only one of its stream: the frames that
\* stay behind, in both directions, stay in order
LEMMA CmdAfterOpen ==
  ASSUME QuicInv, NEW e \in End, cmd[Peer(e)] # <<>>, Head1(e).kind = "Open",
         NEW c \in StreamId, c = Head1(e).id,
         cmd' \in [End -> Seq(CmdFrame)],
         cmd'[Peer(e)] = Tail(cmd[Peer(e)]),
         NEW g \in CmdFrame, g.kind # "Open", FrameOK(e, g)',
         cmd'[e] = cmd[e] \/ cmd'[e] = Append(cmd[e], g),
         \A o \in Opens : Granted(o) => Granted(o)',
         \A x \in StreamId : x # c /\ Asking(x) => Asking(x)'
  PROVE  CmdInv'
<1>1. /\ Peer(e) \in End /\ Peer(e) # e /\ \A x \in End : x = e \/ x = Peer(e)
      /\ StreamId \subseteq Opens /\ DatagramOpens \subseteq Opens
  BY Zenon, Ends DEF End, Peer, Opens, ChannelOpens
<1>2. /\ FrameOK(Peer(e), Head1(e)) /\ Head1(e) = cmd[Peer(e)][1]
      /\ 1 \in DOMAIN cmd[Peer(e)]
  BY Zenon, HeadOK
<1>3. Opener(c) # e
  BY Zenon, <1>1, <1>2 DEF FrameOK
<1>4. ASSUME NEW x, NEW f, FrameOK(x, f), ~(f.kind = "Open" /\ f.id = c)
      PROVE  FrameOK(x, f)'
  BY Zenon, <1>1, <1>4 DEF FrameOK
<1> SUFFICES ASSUME NEW x \in End, NEW i \in DOMAIN cmd'[x]
             PROVE  /\ \A f : f = cmd'[x][i] => FrameOK(x, f)'
                    /\ \A j \in DOMAIN cmd'[x] : SameOpen(cmd'[x][i], cmd'[x][j]) => i = j
  BY Zenon DEF CmdInv, FrameOK, Granted, Asking
<1> PICK s : s = cmd[x]
  BY Zenon
<1> PICK t : t = cmd'[x]
  BY Zenon
<1>5. s \in Seq(CmdFrame) /\ t \in Seq(CmdFrame)
  BY Zenon DEF QuicInv, QuicTypes
<1>6. \A k \in DOMAIN s : /\ FrameOK(x, s[k])
                          /\ \A j \in DOMAIN s : SameOpen(s[k], s[j]) => k = j
  BY Zenon DEF QuicInv, CmdInv
<1> SUFFICES /\ \A f : f = t[i] => FrameOK(x, f)'
             /\ \A j \in DOMAIN t : SameOpen(t[i], t[j]) => i = j
  BY Zenon
<1>7. CASE x = Peer(e)
  <2>1. s # <<>> /\ t = Tail(s)
    BY Zenon, <1>7
  <2>2. /\ \A j \in DOMAIN t : j + 1 \in DOMAIN s /\ t[j] = s[j + 1]
        /\ \A j \in DOMAIN t : j \in Int /\ j + 1 # 1
    BY <1>5, <2>1
  <2>3. s[1].kind = "Open" /\ s[1].id = c /\ 1 \in DOMAIN s
    BY Zenon, <1>2, <1>7
  <2>4. ~(t[i].kind = "Open" /\ t[i].id = c)
    BY <1>6, <2>2, <2>3 DEF SameOpen
  <2>5. \A f : f = t[i] => FrameOK(x, f)'
    BY <1>4, <1>6, <2>2, <2>4
  <2>6. ASSUME NEW j \in DOMAIN t, SameOpen(t[i], t[j]) PROVE i = j
    <3>1. /\ i + 1 \in DOMAIN s /\ t[i] = s[i + 1] /\ i \in Int
          /\ j + 1 \in DOMAIN s /\ t[j] = s[j + 1] /\ j \in Int
      BY Zenon, <2>2
    <3>2. SameOpen(s[i + 1], s[j + 1])
      BY Zenon, <2>6, <3>1
    <3>3. i + 1 = j + 1
      BY Zenon, <1>6, <3>1, <3>2
    <3> QED  BY <3>1, <3>3
  <2> QED  BY Zenon, <2>5, <2>6
<1>8. CASE x = e
  <2>1. \A k \in DOMAIN s : ~(s[k].kind = "Open" /\ s[k].id = c)
    BY Zenon, <1>3, <1>6, <1>8 DEF FrameOK
  <2>2. \A k \in DOMAIN s : \A f : f = s[k] => FrameOK(x, f)'
    BY Zenon, <1>4, <1>6, <2>1
  <2>3. \A j \in DOMAIN t : \/ j \in DOMAIN s /\ t[j] = s[j]
                            \/ t[j] = g
    BY <1>5, <1>8
  <2>4. \A f : f = t[i] => FrameOK(x, f)'
    BY Zenon, <1>8, <2>2, <2>3
  <2>5. \A j \in DOMAIN t : SameOpen(t[i], t[j]) => i = j
    BY Zenon, <1>6, <2>3 DEF SameOpen
  <2> QED  BY Zenon, <2>4, <2>5
<1> QED  BY Zenon, <1>1, <1>7, <1>8

LEMMA RecvOpenOK ==
  ASSUME QuicInv, NEW e \in End, RecvOpen(e)
  PROVE  StepOK
<1>1. PICK c : c = Head1(e).id
  BY Zenon
<1>2. PICK ok \in BOOLEAN : ok <=> MayAccept(e, c, c \notin Unserved) /\ Live(act[e])
  BY Zenon
<1>3. cmd[Peer(e)] # <<>> /\ Head1(e).kind = "Open"
  BY Zenon DEF RecvOpen, Receiving
<1>4. /\ c \in StreamId /\ Server(c) = e /\ Opener(c) # e /\ Asking(c) /\ c \in Opens
      /\ QuicTypes
  BY <1>1, <1>3, HeadOK, Ends DEF FrameOK, Opens, QuicInv
<1>5. PICK n \in Nat : n = IF ok THEN 1 ELSE 0
  BY Zenon
<1>6. PICK g : g = Frame("OpenResp", c, n)
  BY Zenon
<1>7. PICK v \in {"served", "refused"} : v = IF ok THEN "served" ELSE "refused"
  BY Zenon
<1>8. /\ cmd' = Replied(e, g) /\ serve' = [serve EXCEPT ![c] = v]
      /\ act' = [act EXCEPT ![e] = IF ok THEN AcquireWork(act[e], 2) ELSE act[e]]
      /\ hold' = [hold EXCEPT ![e] = IF ok THEN hold[e] \cup {<<c, "r">>, <<c, "w">>} ELSE hold[e]]
      /\ UNCHANGED <<told, closed, pings, wrote, open, reply, requests>>
  BY Zenon, <1>1, <1>2, <1>5, <1>6, <1>7 DEF RecvOpen, HandleOpen, tunnel, payload
<1>9. /\ serve' \in [Opens -> {"none", "queued", "accepted", "granted", "served",
                               "refused", "gone"}]
      /\ serve'[c] = v /\ \A u \in Opens : u # c => serve'[u] = serve[u]
  BY Zenon, <1>4, <1>8 DEF QuicTypes
<1>10. g \in CmdFrame /\ g.kind # "Open" /\ FrameOK(e, g)'
  <2>1. g \in CmdFrame /\ g.kind = "OpenResp" /\ g.id = c /\ g.arg = n
    BY <1>4, <1>6, OpenKinds, FrameTyped DEF FrameKinds
  <2>2. n = 1 => Granted(c)'
    <3>1. n = 1 => ok
      BY <1>5
    <3>2. n = 1 => serve'[c] = "served"
      BY Zenon, <1>7, <1>9, <3>1
    <3> QED  BY Zenon, <3>2 DEF Granted
  <2> QED  BY Zenon, <1>4, <2>1, <2>2 DEF FrameOK
<1>11. /\ \A o \in Opens : Granted(o) => Granted(o)'
       /\ \A x \in StreamId : x # c /\ Asking(x) => Asking(x)'
  BY Zenon, <1>4, <1>8, <1>9 DEF Granted, Asking, Opens
<1>12. /\ cmd' \in [End -> Seq(CmdFrame)]
       /\ cmd'[Peer(e)] = Tail(cmd[Peer(e)])
       /\ cmd'[e] = cmd[e] \/ cmd'[e] = Append(cmd[e], g)
  BY Zenon, <1>3, <1>4, <1>8, <1>10, RepliedMoves
<1>13. CmdInv'
  BY Zenon, <1>1, <1>3, <1>4, <1>10, <1>11, <1>12, CmdAfterOpen
<1>14. /\ act' \in [End -> Activity] /\ Forced'
       /\ ok => act'[e] = AcquireWork(act[e], 2)
       /\ \A x \in End : x # e \/ ~ok => act'[x] = act[x]
  <2>1. CASE ok
    BY Zenon, <1>8, <2>1, ActivityOps
  <2>2. CASE ~ok
    <3>1. act' = act
      BY Zenon, <1>4, <1>8, <2>2 DEF QuicTypes
    <3> QED  BY Zenon, <1>4, <1>8, <2>2, <3>1 DEF Forced, QuicInv, PendInv, QuicTypes
  <2> QED  BY Zenon, <2>1, <2>2
<1>15. /\ hold' \in [End -> SUBSET (Opens \X {"r", "w"})]
       /\ ok => hold'[e] = hold[e] \cup ({c} \X Half)
       /\ \A x \in End : x # e \/ ~ok => hold'[x] = hold[x]
  <2>1. hold \in [End -> SUBSET (Opens \X {"r", "w"})]
    BY Zenon, <1>4 DEF QuicTypes
  <2>2. /\ {<<c, "r">>, <<c, "w">>} = {c} \X Half
        /\ {<<c, "r">>, <<c, "w">>} \in SUBSET (Opens \X {"r", "w"})
    BY <1>4 DEF Half
  <2> QED  BY Zenon, <1>8, <2>1, <2>2
<1>16. \A x \in End : UseMoves(x)
  <2>1. /\ c \notin Pending(e) /\ Pending(e)' = Pending(e) \ {c}
        /\ \A x \in End : x # e => Pending(x)' = Pending(x)
    <3>1. v # "granted" /\ serve[c] # "granted"
      BY Zenon, <1>4 DEF Asking
    <3> QED  BY Zenon, <1>4, <1>8, <3>1, PendingServe
  <2>2. Pending(e)' = Pending(e)
    BY Zenon, <2>1
  <2>3. \A h \in Half : <<c, h>> \notin hold[e]
    BY Zenon, <1>4, OpenFacts DEF Half, Asking
  <2>4. UseMoves(e)
    <3>1. CASE ok
      BY <1>2, <1>4, <1>14, <1>15, <2>1, <2>2, <2>3, <3>1 DEF UseMoves
    <3>2. CASE ~ok
      BY Zenon, <1>14, <1>15, <2>2, <3>2 DEF UseMoves
    <3> QED  BY Zenon, <3>1, <3>2
  <2>5. \A x \in End : x # e => UseMoves(x)
    BY Zenon, <1>14, <1>15, <2>1 DEF UseMoves
  <2> QED  BY Zenon, <2>4, <2>5
<1>17. HoldInv'
  <2> SUFFICES ASSUME NEW x \in End, NEW u \in Opens, NEW h \in {"r", "w"},
                      <<u, h>> \in hold'[x]
               PROVE  \/ x = Opener(u) /\ open'[u] = "ok"
                      \/ x = Server(u) /\ serve'[u] = "served"
    BY Zenon DEF HoldInv
  <2>1. CASE <<u, h>> \in hold[x]
    BY Zenon, <1>4, <1>8, <1>9, <2>1 DEF QuicInv, HoldInv, Asking
  <2>2. CASE <<u, h>> \notin hold[x]
    <3>1. x = e /\ ok
      BY Zenon, <1>15, <2>2
    <3>2. u = c
      BY Zenon, <1>15, <2>2, <3>1
    <3> QED  BY Zenon, <1>4, <1>7, <1>9, <3>1, <3>2
  <2> QED  BY Zenon, <2>1, <2>2
<1>18. QuicTypes'
  BY Zenon, <1>4, <1>8, <1>9, <1>12, <1>14, <1>15 DEF QuicTypes
<1>19. AnswerInv'
  <2>1. AnswerInv /\ StreamId \subseteq Opens /\ ChannelOpens \subseteq Opens
    BY Zenon DEF QuicInv, Opens
  <2>2. open[c] \notin {"idle", "begun"}
    BY Zenon, <1>4 DEF Asking
  <2> QED  BY Zenon, <1>8, <1>9, <1>11, <2>1, <2>2 DEF AnswerInv
<1> QED  BY Zenon, <1>13, <1>14, <1>16, <1>17, <1>18, <1>19 DEF StepOK

\* Every step moves the counters as it should and keeps the invariant
LEMMA QuicNext ==
  ASSUME QuicInv, [Next]_vars
  PROVE  QuicInv' /\ \A e \in End : UseMoves(e)
<1>1. StepOK
  <2>1. CASE UNCHANGED vars
    <3>1. UNCHANGED <<cmd, act, open, serve, hold, closed, told, reply, requests, pings, wrote>>
      BY Zenon, <2>1 DEF vars, control, tunnel, channels, payload
    <3> QED  BY Zenon, <3>1, CmdSame, CommandsOK DEF QuicInv, QuicTypes
  <2>2. CASE Accept \/ Connect
    BY Zenon, <2>2, SetupOK
  <2>3. ASSUME NEW e \in End,
               \/ CloseTunnel(e) \/ ConnectionLost(e) \/ NoticeLoss(e)
               \/ HeartbeatTimeout(e) \/ Ping(e) \/ TryRetireIdle(e)
               \/ ListenControl(e) \/ Receive(e)
               \/ \E k \in {"stream", "datagram"} : ListenChannel(e, k)
               \/ \E c \in StreamId : Write(e, c) \/ Shutdown(e, c) \/ Read(e, c)
               \/ \E o \in Opens, h \in {"r", "w"} : DropHalf(e, o, h)
        PROVE  StepOK
    BY <2>3, ClosesOK, LocalOK, WritesOK, TryRetireIdleOK, ReadsOK, AnswersOK,
       RecvOpenOK, DropHalfOK DEF Receive
  <2>4. ASSUME NEW o \in Opens, BeginOpen(o) \/ OpenStep(o)
        PROVE  StepOK
    BY Zenon, <2>4, BeginOpenOK, SendOpenOK, GivesUpOK, OpenSucceedsOK, OpenTimeoutOK
       DEF OpenStep
  <2>5. ASSUME NEW o \in ChannelOpens, ServeStep(o)
        PROVE  StepOK
    BY Zenon, <2>5, AcceptChannelOK, AnswerOpenOK, RequestFailsOK, ServeChannelOK
       DEF ServeStep, HandleOpenReq, HandleDatagramOpenReq
  <2> QED  BY Zenon, <2>1, <2>2, <2>3, <2>4, <2>5 DEF Next
<1>2. PendInv'
  BY Zenon, <1>1, PendNext DEF StepOK, QuicInv
<1> QED  BY Zenon, <1>1, <1>2 DEF StepOK, QuicInv

LEMMA QuicStart ==
  ASSUME Init
  PROVE  QuicInv /\ \A e \in End : Pending(e) = {}
<1> USE DEF Init
<1>1. /\ closed = {} /\ told = [c \in StreamId |-> "none"]
      /\ Frame("Hello", NoStream, 0) \in CmdFrame
      /\ Frame("Hello", NoStream, 0).kind = "Hello"
  BY FrameTyped DEF ControlInit, FrameKinds, NoStream
<1>2. NewActivity \in Activity /\ NewActivity.pending = 0 /\ NewActivity.life = "Live"
  BY Zenon DEF NewActivity, Activity, Lives
<1>3. /\ cmd \in [End -> Seq(CmdFrame)]
      /\ \A e \in End : \A i \in DOMAIN cmd[e] :
           i = 1 /\ cmd[e][i] = Frame("Hello", NoStream, 0)
  BY <1>1
<1>4. QuicTypes
  BY Zenon, <1>1, <1>2, <1>3 DEF QuicTypes
<1>5. CmdInv
  BY Zenon, <1>1, <1>3 DEF CmdInv, FrameOK
<1>6. AnswerInv /\ HoldInv
  BY Zenon, <1>1 DEF AnswerInv, HoldInv, Opens
<1>7. \A e \in End : Pending(e) = {}
  BY Zenon DEF Pending
<1>8. PendInv
  BY Zenon, <1>2, <1>7, FS_EmptySet DEF PendInv
<1> QED  BY Zenon, <1>4, <1>5, <1>6, <1>7, <1>8 DEF QuicInv

LEMMA QuicAlways == Spec => []QuicInv
<1>1. Init => QuicInv
  BY Zenon, QuicStart
<1>2. QuicInv /\ [Next]_vars => QuicInv'
  BY Zenon, QuicNext
<1> QED  BY <1>1, <1>2, PTL DEF Spec

\* For any number of opens: an open that succeeded has been, or is being, given
\* to the callback of the other end, unless that end was closed.  The answer
\* of the other end (AnswerOpen, RecvOpen) is a promise that a close alone can
\* break: the guard taken before the answer keeps idleness from retiring it.
THEOREM GrantsAreServed == Spec => []OpenedIsServed
<1>1. QuicInv => OpenedIsServed
  BY Zenon DEF QuicInv, AnswerInv, Granted, OpenedIsServed
<1> QED  BY <1>1, QuicAlways, PTL

\* The words of ActivityUse at the active end are those of QuicTunnel
LEMMA ActiveWords ==
  /\ ActiveUse!NewActivity = NewActivity
  /\ \A a : /\ ActiveUse!Live(a) <=> Live(a)
            /\ ActiveUse!MayRetireIdle(a) <=> MayRetireIdle(a)
            /\ ActiveUse!BeginPending(a) = BeginPending(a)
            /\ ActiveUse!DropPending(a) = DropPending(a)
            /\ ActiveUse!DropWork(a) = DropWork(a)
            /\ ActiveUse!RetiredIdle(a) = RetiredIdle(a)
            /\ ActiveUse!Retired(a) = Retired(a)
            /\ \A n : /\ ActiveUse!AcquireWork(a, n) = AcquireWork(a, n)
                      /\ ActiveUse!Promote(a, n) = Promote(a, n)
  /\ \A S : ActiveUse!Cardinality(S) = Cardinality(S)
<1>1. ActiveUse!NewActivity = NewActivity
  BY Zenon DEF ActiveUse!NewActivity, NewActivity
<1>2. \A a : (ActiveUse!Live(a) <=> Live(a)) /\ (ActiveUse!MayRetireIdle(a) <=> MayRetireIdle(a))
  BY Zenon DEF ActiveUse!Live, Live, ActiveUse!MayRetireIdle, MayRetireIdle
<1>3. \A a : /\ ActiveUse!BeginPending(a) = BeginPending(a)
            /\ \A n : ActiveUse!AcquireWork(a, n) = AcquireWork(a, n)
            /\ ActiveUse!RetiredIdle(a) = RetiredIdle(a)
  BY Zenon DEF ActiveUse!BeginPending, BeginPending, ActiveUse!AcquireWork, AcquireWork,
         ActiveUse!RetiredIdle, RetiredIdle
<1>4. \A a : ActiveUse!DropPending(a) = DropPending(a) /\ ActiveUse!DropWork(a) = DropWork(a)
  BY Zenon DEF ActiveUse!DropPending, DropPending, ActiveUse!DropWork, DropWork, ActiveUse!Less, Less
<1>5. \A a : ActiveUse!Retired(a) = Retired(a)
  BY Zenon DEF ActiveUse!Retired, Retired, ActiveUse!Live, Live
<1>6. \A a, n : ActiveUse!Promote(a, n) = Promote(a, n)
  BY Zenon DEF ActiveUse!Promote, Promote, ActiveUse!Live, Live, ActiveUse!Less, Less
<1>7. \A S : ActiveUse!Cardinality(S) = Cardinality(S)
  BY DEF ActiveUse!Cardinality, Cardinality, ActiveUse!IsFiniteSet, IsFiniteSet
<1> QED  BY Zenon, <1>1, <1>2, <1>3, <1>4, <1>5, <1>6, <1>7

\* The words of ActivityUse at the passive end are those of QuicTunnel
LEMMA PassiveWords ==
  /\ PassiveUse!NewActivity = NewActivity
  /\ \A a : /\ PassiveUse!Live(a) <=> Live(a)
            /\ PassiveUse!MayRetireIdle(a) <=> MayRetireIdle(a)
            /\ PassiveUse!BeginPending(a) = BeginPending(a)
            /\ PassiveUse!DropPending(a) = DropPending(a)
            /\ PassiveUse!DropWork(a) = DropWork(a)
            /\ PassiveUse!RetiredIdle(a) = RetiredIdle(a)
            /\ PassiveUse!Retired(a) = Retired(a)
            /\ \A n : /\ PassiveUse!AcquireWork(a, n) = AcquireWork(a, n)
                      /\ PassiveUse!Promote(a, n) = Promote(a, n)
  /\ \A S : PassiveUse!Cardinality(S) = Cardinality(S)
<1>1. PassiveUse!NewActivity = NewActivity
  BY Zenon DEF PassiveUse!NewActivity, NewActivity
<1>2. \A a : (PassiveUse!Live(a) <=> Live(a)) /\ (PassiveUse!MayRetireIdle(a) <=> MayRetireIdle(a))
  BY Zenon DEF PassiveUse!Live, Live, PassiveUse!MayRetireIdle, MayRetireIdle
<1>3. \A a : /\ PassiveUse!BeginPending(a) = BeginPending(a)
            /\ \A n : PassiveUse!AcquireWork(a, n) = AcquireWork(a, n)
            /\ PassiveUse!RetiredIdle(a) = RetiredIdle(a)
  BY Zenon DEF PassiveUse!BeginPending, BeginPending, PassiveUse!AcquireWork, AcquireWork,
         PassiveUse!RetiredIdle, RetiredIdle
<1>4. \A a : PassiveUse!DropPending(a) = DropPending(a) /\ PassiveUse!DropWork(a) = DropWork(a)
  BY Zenon DEF PassiveUse!DropPending, DropPending, PassiveUse!DropWork, DropWork, PassiveUse!Less, Less
<1>5. \A a : PassiveUse!Retired(a) = Retired(a)
  BY Zenon DEF PassiveUse!Retired, Retired, PassiveUse!Live, Live
<1>6. \A a, n : PassiveUse!Promote(a, n) = Promote(a, n)
  BY Zenon DEF PassiveUse!Promote, Promote, PassiveUse!Live, Live, PassiveUse!Less, Less
<1>7. \A S : PassiveUse!Cardinality(S) = Cardinality(S)
  BY Zenon DEF PassiveUse!Cardinality, Cardinality, PassiveUse!IsFiniteSet, IsFiniteSet
<1> QED  BY Zenon, <1>1, <1>2, <1>3, <1>4, <1>5, <1>6, <1>7

\* For any number of opens: each end of a QUIC tunnel takes and drops the
\* guards of its TunnelActivity as ActivityUse says, on every path of
\* QuicTunnel, so that what is proved of ActivityUse holds of both ends.
THEOREM QuicCountsUses == Spec => CountsUses
<1>1. Init => ActiveUse!UseInit /\ PassiveUse!UseInit
  <2> SUFFICES ASSUME Init  PROVE ActiveUse!UseInit /\ PassiveUse!UseInit
    BY Zenon
  <2>1. Pending("active") = {} /\ Pending("passive") = {}
    BY Zenon, QuicStart DEF End
  <2> QED  BY Zenon, <2>1, ActiveWords, PassiveWords DEF Init, ActiveUse!UseInit, PassiveUse!UseInit, End
<1>2. QuicInv /\ [Next]_vars => [ActiveUse!UseNext]_(ActiveUse!useVars)
  <2> SUFFICES ASSUME QuicInv, [Next]_vars  PROVE [ActiveUse!UseNext]_(ActiveUse!useVars)
    BY Zenon
  <2>1. UseMoves("active")
    BY Zenon, QuicNext DEF End
  <2> QED  BY Zenon, <2>1, ActiveWords DEF UseMoves, ActiveUse!UseNext, ActiveUse!useVars, ActiveUse!Begin,
              ActiveUse!Establish, ActiveUse!GiveUp, ActiveUse!Track, ActiveUse!Release,
              ActiveUse!RetireIdle, ActiveUse!Retire, ActiveUse!Halves, ActiveUse!Half, Half
<1>3. QuicInv /\ [Next]_vars => [PassiveUse!UseNext]_(PassiveUse!useVars)
  <2> SUFFICES ASSUME QuicInv, [Next]_vars  PROVE [PassiveUse!UseNext]_(PassiveUse!useVars)
    BY Zenon
  <2>1. UseMoves("passive")
    BY Zenon, QuicNext DEF End
  <2> QED  BY Zenon, <2>1, PassiveWords DEF UseMoves, PassiveUse!UseNext, PassiveUse!useVars, PassiveUse!Begin,
              PassiveUse!Establish, PassiveUse!GiveUp, PassiveUse!Track, PassiveUse!Release,
              PassiveUse!RetireIdle, PassiveUse!Retire, PassiveUse!Halves, PassiveUse!Half, Half
<1> QED  BY <1>1, <1>2, <1>3, QuicAlways, PTL
         DEF Spec, CountsUses, ActiveUse!UseSpec, PassiveUse!UseSpec
=============================================================================
