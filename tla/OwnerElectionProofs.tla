------------------------- MODULE OwnerElectionProofs -------------------------
(***************************************************************************)
(* Whoever leads was elected by a quorum, and whoever applies an entry has *)
(* it from a leader whose quorum accepted it, for any number of owners,    *)
(* entries, terms and faults.  Both rest on what a round of requests has   *)
(* counted so far: every vote or acceptance it counts was given, in the    *)
(* round's own term, by another of the members it has already asked.       *)
(***************************************************************************)
EXTENDS OwnerElection, FiniteSetTheorems, WellFoundedInduction, TLAPS

-----------------------------------------------------------------------------
(* The inductive invariant *)

ElectionTypes ==
  /\ state \in [Members -> State]
  /\ plane \in [Members -> Plane]
  /\ loop \in [Members -> Round]
  /\ task \in [Entries -> Round]
  /\ net \subseteq Request

\* A leader that is named together with term t won an election by then
KnownLeader(l, t) == l # NoMember => \E u \in 0..t : <<l, u>> \in elected

\* yes counts me and some of those in S that me has asked
Tally(yes, S, todo, me) == yes <= Cardinality((S \cap (Others(me) \ todo)) \cup {me})

\* A round of me: whom it still asks, and the answer it holds
RoundOK(r, me) ==
  /\ r.todo \subseteq Others(me)
  /\ r.answered => r.todo # {}
  /\ r.got.ok => r.answered
  /\ KnownLeader(r.got.leader, r.got.term)

\* A round of me that collects the agreement of those in S
Counts(r, me, S) ==
  /\ Tally(r.yes, S, r.todo, me)
  /\ r.got.ok => Min(r.todo) \in S

\* An entry that a quorum accepted from one elected leader in one term
Chosen(e) ==
  \E w \in elected : Cardinality(Acceptors(w[1], w[2], e) \cup {w[1]}) >= Quorum

LoopOK(n) ==
  /\ RoundOK(loop[n], n)
  /\ loop[n].pc \in {"idle", "vote", "beat"}
  /\ loop[n].pc = "idle" => loop[n].todo = {}
  /\ loop[n].pc = "vote" => Counts(loop[n], n, Voters(n, loop[n].term))
  /\ loop[n].pc = "beat" => <<n, loop[n].term>> \in elected

TaskOK(e) ==
  /\ RoundOK(task[e], task[e].at)
  /\ task[e].pc \in {"new", "decide", "prepare", "commit", "end"}
  /\ task[e].pc \in {"decide", "prepare", "commit"} => task[e].at \in Members
  /\ task[e].pc \in {"new", "decide", "end"} => task[e].todo = {}
  /\ task[e].pc \in {"prepare", "commit"} => <<task[e].at, task[e].term>> \in elected
  /\ task[e].pc = "prepare" =>
       Counts(task[e], task[e].at, Acceptors(task[e].at, task[e].term, e))
  /\ task[e].pc = "commit" => Chosen(e)

\* A request under way: whose it is, and that its sender was elected unless it asks for a vote
TaskRequestOK(r, e) ==
  /\ r.by = TaskOf(e)
  /\ task[e].pc \in {"prepare", "commit", "end"}
  /\ task[e].pc \in {"prepare", "commit"} => r.from = task[e].at /\ r.term = task[e].term
  /\ r.kind = "commit" => task[e].pc # "prepare" /\ Chosen(e)

RequestOK(r) ==
  /\ r.kind \in {"vote", "beat"} => r.by = LoopOf(r.from)
  /\ r.kind # "vote" => <<r.from, r.term>> \in elected
  /\ r.kind \in {"prepare", "commit"} => \E e \in Entries : TaskRequestOK(r, e)

LeadersElected ==
  \A n \in Members : /\ state[n].role = "leader" => <<n, state[n].term>> \in elected
                     /\ KnownLeader(state[n].leader, state[n].term)

ElectedByQuorum ==
  /\ \A w \in elected : Cardinality(Voters(w[1], w[2]) \cup {w[1]}) >= Quorum
  /\ \A n \in Members : Members = {n} => <<n, 1>> \in elected

ElectionInv ==
  /\ ElectionTypes
  /\ LeadersElected
  /\ ElectedByQuorum
  /\ \A n \in Members : LoopOK(n)
  /\ \A e \in Entries : TaskOK(e)
  /\ \A r \in net : RequestOK(r)
  /\ AppliedByQuorum

-----------------------------------------------------------------------------
(* Numbers and counts *)

\* The members are asked in order, and the next one is one of those left to ask
LEMMA MinIsMember ==
  ASSUME NEW S \in SUBSET Nat, S # {}
  PROVE  Min(S) \in S
<1> DEFINE R == {ss \in Nat \X Nat : ss[1] < ss[2]}
<1>1. IsWellFoundedOn(R, Nat)
  <2>1. OpToRel(<, Nat) = R
    BY Zenon DEF OpToRel
  <2> QED BY Zenon, <2>1, NatLessThanWellFounded
<1>2. PICK x \in S : \A y \in S : ~ (<<y, x>> \in R)
  <2> HIDE DEF R
  <2> QED BY Zenon, <1>1, WFMin
<1>3. \A y \in S : x =< y
  <2> TAKE y \in S
  <2>1. <<y, x>> \in Nat \X Nat /\ ~ (<<y, x>>[1] < <<y, x>>[2])
    BY Zenon, <1>2
  <2> QED BY <2>1
<1> QED BY Zenon, <1>3 DEF Min

LEMMA NextIsAsked ==
  ASSUME NEW S \in SUBSET Members, S # {}
  PROVE  Min(S) \in S
BY Zenon, MinIsMember, MembersAssumption

LEMMA MaxOfTwo ==
  ASSUME NEW a \in Nat, NEW b \in Nat
  PROVE  Max({a, b}) \in Nat /\ Max({a, b}) >= a /\ Max({a, b}) >= b
BY DEF Max

\* The sets that are counted are finite
LEMMA FiniteMembers ==
  ASSUME NEW S \in SUBSET Members, NEW me \in Members
  PROVE  /\ IsFiniteSet(S) /\ IsFiniteSet(S \cup {me})
         /\ Cardinality(S) \in Nat /\ Cardinality(S \cup {me}) \in Nat
<1>1. IsFiniteSet(Members)
  BY Zenon, MembersAssumption
<1>2. S \cup {me} \in SUBSET Members
  BY Zenon
<1>3. IsFiniteSet(S) /\ IsFiniteSet(S \cup {me})
  BY Zenon, <1>1, <1>2, FS_Subset
<1> QED BY Zenon, <1>3, FS_CardinalityType

LEMMA TallyStarts ==
  ASSUME NEW S, NEW me \in Members
  PROVE  Tally(1, S, Others(me), me)
<1>1. (S \cap (Others(me) \ Others(me))) \cup {me} = {me}
  BY Zenon
<1> QED BY <1>1, FS_Singleton DEF Tally

LEMMA TallyGrows ==
  ASSUME NEW S \in SUBSET Members, NEW T \in SUBSET Members, S \subseteq T,
         NEW todo, NEW me \in Members, NEW yes \in Nat, Tally(yes, S, todo, me)
  PROVE  Tally(yes, T, todo, me)
<1> DEFINE A == (S \cap (Others(me) \ todo)) \cup {me}
           B == (T \cap (Others(me) \ todo)) \cup {me}
<1>1. A \subseteq B /\ B \subseteq Members
  BY Zenon
<1>2. IsFiniteSet(B)
  BY Zenon, <1>1, MembersAssumption, FS_Subset
<1>3. Cardinality(A) <= Cardinality(B) /\ Cardinality(A) \in Nat /\ Cardinality(B) \in Nat
  BY Zenon, <1>1, <1>2, FS_Subset, FS_CardinalityType
<1> QED BY <1>3 DEF Tally

\* A member that was asked and agreed is counted; one that did not agree is not
LEMMA TallyAdds ==
  ASSUME NEW S \in SUBSET Members, NEW me \in Members, NEW todo \in SUBSET Others(me),
         NEW x \in todo, NEW yes \in Nat, Tally(yes, S, todo, me)
  PROVE  /\ Tally(yes, S, todo \ {x}, me)
         /\ x \in S => Tally(yes + 1, S, todo \ {x}, me)
<1> DEFINE A == (S \cap (Others(me) \ todo)) \cup {me}
           B == (S \cap (Others(me) \ (todo \ {x}))) \cup {me}
<1>1. A \subseteq B /\ B \subseteq Members
  BY Zenon DEF Others
<1>2. IsFiniteSet(A) /\ IsFiniteSet(B)
  BY Zenon, <1>1, MembersAssumption, FS_Subset
<1>3. Cardinality(A) <= Cardinality(B) /\ Cardinality(A) \in Nat /\ Cardinality(B) \in Nat
  BY Zenon, <1>1, <1>2, FS_Subset, FS_CardinalityType
<1>4. ASSUME x \in S PROVE Cardinality(B) = Cardinality(A) + 1
  <2>1. x \notin A /\ B = A \cup {x}
    BY Zenon, <1>4 DEF Others
  <2> HIDE DEF A, B
  <2> QED BY Zenon, <2>1, <1>2, FS_AddElement
<1>5. yes <= Cardinality(A)
  BY Zenon DEF Tally
<1>6. yes <= Cardinality(B) /\ (x \in S => yes + 1 <= Cardinality(B))
  <2> HIDE DEF A, B
  <2> QED BY <1>3, <1>4, <1>5
<1> QED BY Zenon, <1>6 DEF Tally

LEMMA QuorumReached ==
  ASSUME NEW S \in SUBSET Members, NEW me \in Members, NEW yes \in Nat,
         Tally(yes, S, {}, me), yes >= Quorum
  PROVE  Cardinality(S \cup {me}) >= Quorum
<1> DEFINE A == (S \cap (Others(me) \ {})) \cup {me}
<1>1. A = S \cup {me}
  BY Zenon DEF Others
<1>2. Cardinality(A) \in Nat /\ Cardinality(Members) \in Nat
  BY Zenon, <1>1, FiniteMembers, MembersAssumption, FS_CardinalityType
<1>3. yes <= Cardinality(A)
  BY Zenon DEF Tally
<1>4. Quorum \in Nat
  BY <1>2 DEF Quorum
<1> HIDE DEF A
<1> QED BY <1>1, <1>2, <1>3, <1>4

-----------------------------------------------------------------------------
(* What a step leaves as it was *)

\* The histories only grow
Grows == grants \subseteq grants' /\ elected \subseteq elected' /\ prepared \subseteq prepared'

LEMMA QuorumKept ==
  ASSUME NEW S \in SUBSET Members, NEW T \in SUBSET Members, S \subseteq T, NEW x,
         Cardinality(S \cup {x}) >= Quorum
  PROVE  Cardinality(T \cup {x}) >= Quorum
<1>1. IsFiniteSet(T \cup {x})
  BY Zenon, MembersAssumption, FS_Subset, FS_AddElement
<1>2. /\ Cardinality(S \cup {x}) <= Cardinality(T \cup {x})
      /\ Cardinality(S \cup {x}) \in Nat /\ Cardinality(T \cup {x}) \in Nat
  <2>1. S \cup {x} \in SUBSET (T \cup {x})
    BY Zenon
  <2> QED BY Zenon, <1>1, <2>1, FS_Subset, FS_CardinalityType
<1>3. Quorum \in Nat
  BY MembersAssumption, FS_CardinalityType DEF Quorum
<1> QED BY <1>2, <1>3

LEMMA HistoryGrows ==
  ASSUME Grows
  PROVE  /\ \A l, t : KnownLeader(l, t) => KnownLeader(l, t)'
         /\ \A n, t : Voters(n, t) \subseteq Voters(n, t)'
         /\ \A l, t, e : Acceptors(l, t, e) \subseteq Acceptors(l, t, e)'
         /\ \A e : Chosen(e) => Chosen(e)'
<1>1. \A l, t : KnownLeader(l, t) => KnownLeader(l, t)'
  BY Zenon DEF Grows, KnownLeader
<1>2. \A n, t : Voters(n, t) \subseteq Voters(n, t)'
  BY Zenon DEF Grows, Voters
<1>3. \A l, t, e : Acceptors(l, t, e) \subseteq Acceptors(l, t, e)'
  BY Zenon DEF Grows, Acceptors
<1>4. ASSUME NEW e, Chosen(e) PROVE Chosen(e)'
  <2>1. PICK w \in elected : Cardinality(Acceptors(w[1], w[2], e) \cup {w[1]}) >= Quorum
    BY Zenon, <1>4 DEF Chosen
  <2>2. Acceptors(w[1], w[2], e) \subseteq Members /\ Acceptors(w[1], w[2], e)' \subseteq Members
    BY Zenon DEF Acceptors
  <2>3. Cardinality(Acceptors(w[1], w[2], e)' \cup {w[1]}) >= Quorum
    BY Zenon, <2>1, <2>2, <1>3, QuorumKept
  <2>4. w \in elected'
    BY Zenon DEF Grows
  <2> QED BY Zenon, <2>3, <2>4 DEF Chosen
<1> QED BY Zenon, <1>1, <1>2, <1>3, <1>4

LEMMA RoundKeeps ==
  ASSUME Grows, NEW r, NEW me, RoundOK(r, me)
  PROVE  RoundOK(r, me)'
BY Zenon, HistoryGrows DEF RoundOK

LEMMA CountsKeeps ==
  ASSUME NEW r \in Round, NEW me \in Members,
         NEW S \in SUBSET Members, NEW T \in SUBSET Members, S \subseteq T, Counts(r, me, S)
  PROVE  Counts(r, me, T)
BY Zenon, TallyGrows DEF Counts, Round

LEMMA LoopKeeps ==
  ASSUME Grows, ElectionTypes, NEW n \in Members, LoopOK(n), loop'[n] = loop[n]
  PROVE  LoopOK(n)'
<1>1. RoundOK(loop[n], n)'
  BY Zenon, RoundKeeps DEF LoopOK
<1>2. ASSUME loop[n].pc = "vote" PROVE Counts(loop[n], n, Voters(n, loop[n].term)')
  BY Zenon, <1>2, HistoryGrows, CountsKeeps DEF LoopOK, ElectionTypes, Voters
<1>3. loop[n].pc = "beat" => <<n, loop[n].term>> \in elected'
  BY Zenon DEF LoopOK, Grows
<1> QED BY Zenon, <1>1, <1>2, <1>3 DEF LoopOK, RoundOK

LEMMA TaskKeeps ==
  ASSUME Grows, ElectionTypes, NEW e \in Entries, TaskOK(e), task'[e] = task[e]
  PROVE  TaskOK(e)'
<1>1. RoundOK(task[e], task[e].at)'
  BY Zenon, RoundKeeps DEF TaskOK
<1>2. ASSUME task[e].pc = "prepare"
      PROVE  Counts(task[e], task[e].at, Acceptors(task[e].at, task[e].term, e)')
  BY <1>2, HistoryGrows, CountsKeeps DEF TaskOK, ElectionTypes, Acceptors
<1>3. task[e].pc = "commit" => Chosen(e)'
  BY Zenon, HistoryGrows DEF TaskOK
<1> QED BY Zenon, <1>1, <1>2, <1>3 DEF TaskOK, RoundOK, Grows

\* How a task with requests under way may move
Moves(e) ==
  task[e].pc \in {"prepare", "commit", "end"} =>
    /\ task'[e].pc \in {"prepare", "commit", "end"}
    /\ task'[e].pc \in {"prepare", "commit"} =>
         /\ task[e].pc \in {"prepare", "commit"}
         /\ task'[e].at = task[e].at /\ task'[e].term = task[e].term
    /\ task'[e].pc = "prepare" => task[e].pc = "prepare"

LEMMA RequestKeeps ==
  ASSUME Grows, NEW r, RequestOK(r), \A e \in Entries : Moves(e)
  PROVE  RequestOK(r)'
<1>1. r.kind # "vote" => <<r.from, r.term>> \in elected'
  BY Zenon DEF RequestOK, Grows
<1>2. ASSUME NEW e \in Entries, TaskRequestOK(r, e) PROVE TaskRequestOK(r, e)'
  BY Zenon, <1>2, HistoryGrows DEF TaskRequestOK, Moves
<1> QED BY Zenon, <1>1, <1>2 DEF RequestOK

LEMMA AppliedKeeps ==
  ASSUME Grows, AppliedByQuorum, plane' = plane,
         \A e \in Entries : task[e].pc \in {"commit", "end"} => task'[e].pc \in {"commit", "end"},
         ElectionTypes
  PROVE  AppliedByQuorum'
<1> SUFFICES ASSUME NEW n \in Members, NEW e \in ToSet(plane[n].log)
             PROVE  task'[e].pc \in {"commit", "end"} /\ Chosen(e)'
  BY Zenon DEF AppliedByQuorum, Chosen
<1>1. e \in Entries
  BY DEF ElectionTypes, Plane, ToSet
<1>2. task[e].pc \in {"commit", "end"} /\ Chosen(e)
  BY Zenon DEF AppliedByQuorum, Chosen
<1> QED BY Zenon, <1>1, <1>2, HistoryGrows

LEMMA StateKeeps ==
  ASSUME Grows, LeadersElected, NEW n \in Members, NEW s \in State,
         state \in [Members -> State], state' = [state EXCEPT ![n] = s],
         s.role = "leader" => <<n, s.term>> \in elected', KnownLeader(s.leader, s.term)'
  PROVE  LeadersElected' /\ state' \in [Members -> State]
<1>1. ASSUME NEW m \in Members
      PROVE  /\ state'[m].role = "leader" => <<m, state'[m].term>> \in elected'
             /\ KnownLeader(state[m].leader, state[m].term)'
  <2>1. CASE m = n
    <3>1. state'[m] = s
      BY Zenon, <2>1
    <3> QED BY Zenon, <3>1, <2>1 DEF KnownLeader
  <2>2. CASE m # n
    <3>1. state'[m] = state[m]
      BY Zenon, <2>2
    <3> QED BY Zenon, <3>1, HistoryGrows DEF LeadersElected, Grows, KnownLeader
  <2> QED BY Zenon, <2>1, <2>2
<1> QED BY Zenon, <1>1 DEF LeadersElected

LEMMA ElectedKeeps ==
  ASSUME Grows, ElectedByQuorum, elected' = elected
  PROVE  ElectedByQuorum'
<1>1. ASSUME NEW w \in elected PROVE Cardinality(Voters(w[1], w[2])' \cup {w[1]}) >= Quorum
  <2>1. Voters(w[1], w[2]) \subseteq Members /\ Voters(w[1], w[2])' \subseteq Members
    BY Zenon DEF Voters
  <2>2. Cardinality(Voters(w[1], w[2]) \cup {w[1]}) >= Quorum
    BY Zenon DEF ElectedByQuorum
  <2>3. Voters(w[1], w[2]) \subseteq Voters(w[1], w[2])'
    BY Zenon, HistoryGrows
  <2> QED BY Zenon, <2>1, <2>2, <2>3, QuorumKept
<1> QED BY Zenon, <1>1 DEF ElectedByQuorum

-----------------------------------------------------------------------------
(* Rounds of requests *)

LEMMA NoRounds ==
  /\ NoRound \in Round /\ Ended \in Round
  /\ \A me : RoundOK(NoRound, me) /\ RoundOK(Ended, me)
BY Zenon DEF NoRound, Ended, Round, NoAnswer, Answer, Known, RoundOK, KnownLeader

LEMMA NoRoundFields ==
  /\ NoRound.pc = "idle" /\ NoRound.todo = {} /\ NoRound.answered = FALSE
  /\ NoRound.got.ok = FALSE /\ NoRound.got.leader = NoMember
BY Zenon DEF NoRound, NoAnswer

\* A loop with no round
LEMMA NoRoundLoops ==
  ASSUME NEW n
  PROVE  /\ loop[n] = NoRound => LoopOK(n)
         /\ loop'[n] = NoRound => LoopOK(n)'
<1>1. RoundOK(NoRound, n) /\ RoundOK(NoRound, n)'
  BY Zenon, NoRoundFields DEF RoundOK, KnownLeader
<1>2. ASSUME loop[n] = NoRound PROVE LoopOK(n)
  BY Zenon, <1>1, <1>2, NoRoundFields DEF LoopOK
<1>3. ASSUME loop'[n] = NoRound PROVE LoopOK(n)'
  <2>1. RoundOK(loop[n], n)'
    BY Zenon, <1>1, <1>3 DEF RoundOK, KnownLeader
  <2> QED BY Zenon, <1>3, <2>1, NoRoundFields DEF LoopOK
<1> QED BY Zenon, <1>2, <1>3

\* A round goes on after an answer, which is counted if the member agreed
LEMMA AnsweredOK ==
  ASSUME NEW r \in Round, NEW me \in Members, RoundOK(r, me), r.todo # {}
  PROVE  /\ Answered(r) \in Round
         /\ Answered(r).pc = r.pc /\ Answered(r).at = r.at /\ Answered(r).term = r.term
         /\ RoundOK(Answered(r), me)
         /\ \A S \in SUBSET Members : r.pc \in {"vote", "prepare"} /\ Counts(r, me, S)
                                        => Counts(Answered(r), me, S)
<1> DEFINE q == Answered(r)
<1>1. /\ q \in Round /\ q.pc = r.pc /\ q.at = r.at /\ q.term = r.term
      /\ q.todo = r.todo \ {Min(r.todo)} /\ q.answered = FALSE /\ q.got = NoAnswer
  <2> DEFINE y == IF r.got.ok /\ r.pc \in {"vote", "prepare"} THEN r.yes + 1 ELSE r.yes
  <2>1. y \in Nat /\ NoAnswer \in Answer
    BY DEF Round, NoAnswer, Answer, Known
  <2>2. q = [r EXCEPT !.todo = @ \ {Min(@)}, !.answered = FALSE, !.got = NoAnswer, !.yes = y]
    BY Zenon DEF Answered
  <2> HIDE DEF y, q
  <2> QED BY Zenon, <2>1, <2>2 DEF Round
<1>2. q.yes = IF r.got.ok /\ r.pc \in {"vote", "prepare"} THEN r.yes + 1 ELSE r.yes
  BY Zenon DEF Answered, Round
<1>3. RoundOK(q, me)
  BY <1>1 DEF RoundOK, NoAnswer, KnownLeader
<1>4. ASSUME NEW S \in SUBSET Members, r.pc \in {"vote", "prepare"}, Counts(r, me, S)
      PROVE  Counts(q, me, S)
  <2>1. Min(r.todo) \in r.todo
    BY Zenon, NextIsAsked DEF RoundOK, Others
  <2>2. /\ Tally(r.yes, S, q.todo, me)
        /\ Min(r.todo) \in S => Tally(r.yes + 1, S, q.todo, me)
    BY <1>1, <1>4, <2>1, TallyAdds DEF Counts, RoundOK, Round
  <2>3. Tally(q.yes, S, q.todo, me)
    <3>1. CASE r.got.ok
      BY Zenon, <3>1, <1>2, <1>4, <2>2 DEF Counts
    <3>2. CASE ~r.got.ok
      BY Zenon, <3>2, <1>2, <2>2
    <3> QED BY Zenon, <3>1, <3>2
  <2> QED BY <1>1, <2>3 DEF Counts, NoAnswer
<1> QED BY Zenon, <1>1, <1>3, <1>4

\* The caller takes the answer of the member it waits for
LEMMA GetsOK ==
  ASSUME NEW r \in Round, NEW a \in Answer
  PROVE  /\ Gets(r, a) \in Round
         /\ Gets(r, a).pc = r.pc /\ Gets(r, a).at = r.at /\ Gets(r, a).term = r.term
         /\ Gets(r, a).todo = r.todo /\ Gets(r, a).yes = r.yes /\ Gets(r, a).got = a
         /\ Gets(r, a).answered = TRUE
BY Zenon DEF Gets, Round

LEMMA AskingOK ==
  ASSUME NEW kind \in {"vote", "beat", "prepare", "commit"}, NEW n \in Members,
         NEW r \in Round, r.todo \subseteq Members, r.todo # {}, NEW by \in Callers
  PROVE  /\ Asking(kind, n, r, by) \in Request
         /\ Asking(kind, n, r, by).kind = kind /\ Asking(kind, n, r, by).from = n
         /\ Asking(kind, n, r, by).term = r.term /\ Asking(kind, n, r, by).by = by
         /\ Asking(kind, n, r, by).to = Min(r.todo)
BY Zenon, NextIsAsked DEF Asking, Request, Round

LEMMA CallersOK ==
  /\ \A n \in Members : LoopOf(n) \in Callers
  /\ \A e \in Entries : TaskOf(e) \in Callers
  /\ \A n, m : LoopOf(n) = LoopOf(m) => n = m
  /\ \A e, d : TaskOf(e) = TaskOf(d) => e = d
  /\ \A n, e : LoopOf(n) # TaskOf(e)
BY Zenon DEF LoopOf, TaskOf, Callers

\* The requests after a step that sends the next one of a round
LEMMA SendsOK ==
  ASSUME Grows, \A e \in Entries : Moves(e), net \subseteq Request, \A r \in net : RequestOK(r),
         NEW kind \in {"vote", "beat", "prepare", "commit"}, NEW n \in Members,
         NEW round \in Round, round.todo \subseteq Members, NEW by \in Callers,
         Sends(kind, n, round, by),
         round.todo # {} => RequestOK(Asking(kind, n, round, by))'
  PROVE  net' \subseteq Request /\ \A r \in net' : RequestOK(r)'
<1>1. \A r \in net : RequestOK(r)'
  BY Zenon, RequestKeeps
<1>2. CASE round.todo = {}
  BY Zenon, <1>1, <1>2 DEF Sends
<1>3. CASE round.todo # {}
  <2>1. net' = net \cup {Asking(kind, n, round, by)}
    BY Zenon, <1>3 DEF Sends
  <2>2. Asking(kind, n, round, by) \in Request
    BY Zenon, <1>3, AskingOK
  <2> QED BY Zenon, <1>1, <1>3, <2>1, <2>2
<1> QED BY Zenon, <1>2, <1>3

-----------------------------------------------------------------------------
(* The control loop *)

LEMMA StateSame ==
  ASSUME Grows, LeadersElected, state' = state
  PROVE  LeadersElected'
BY Zenon, HistoryGrows DEF LeadersElected, Grows, KnownLeader

LEMMA TasksSame == (task' = task) => \A e \in Entries : Moves(e)
BY Zenon DEF Moves

\* A step of the loop of n keeps the invariant if what it changes is all right
LEMMA LoopStep ==
  ASSUME ElectionInv, Grows, NEW n \in Members, NEW q \in Round,
         loop' = [loop EXCEPT ![n] = q], LoopOK(n)',
         LeadersElected', state' \in [Members -> State], ElectedByQuorum',
         plane' = plane, task' = task,
         net' \subseteq Request, \A r \in net' : RequestOK(r)'
  PROVE  ElectionInv'
<1>1. ElectionTypes'
  BY Zenon DEF ElectionInv, ElectionTypes
<1>2. ASSUME NEW m \in Members PROVE LoopOK(m)'
  <2>1. CASE m = n
    BY Zenon, <2>1
  <2>2. CASE m # n
    BY Zenon, <2>2, LoopKeeps DEF ElectionInv, ElectionTypes
  <2> QED BY Zenon, <2>1, <2>2
<1>3. \A e \in Entries : TaskOK(e)'
  BY Zenon, TaskKeeps DEF ElectionInv
<1>4. AppliedByQuorum'
  BY Zenon, AppliedKeeps DEF ElectionInv
<1> QED BY Zenon, <1>1, <1>2, <1>3, <1>4 DEF ElectionInv

LEMMA StartElectionKeeps ==
  ASSUME ElectionInv, NEW n \in Members, StartElection(n)
  PROVE  ElectionInv'
<1>1. PICK term \in Nat : term = Max({state[n].term + 1, 1})
  BY MaxOfTwo DEF ElectionInv, ElectionTypes, State
<1>2. PICK round : round = [NoRound EXCEPT !.pc = "vote", !.term = term, !.todo = Others(n), !.yes = 1]
  BY Zenon
<1>3. PICK s : s = [role |-> "candidate", term |-> term, voted |-> n, leader |-> NoMember]
  BY Zenon
<1>4. /\ state' = [state EXCEPT ![n] = s] /\ loop' = [loop EXCEPT ![n] = round]
      /\ Sends("vote", n, round, LoopOf(n))
      /\ UNCHANGED <<plane, task, faults, grants, elected, prepared>>
  BY Zenon, <1>1, <1>2, <1>3 DEF StartElection
<1>5. Grows
  BY Zenon, <1>4 DEF Grows
<1>6. /\ round \in Round /\ round.pc = "vote" /\ round.term = term /\ round.todo = Others(n)
      /\ round.yes = 1 /\ ~round.answered /\ round.got = NoAnswer /\ RoundOK(round, n)'
  <2>1. /\ round \in Round /\ round.pc = "vote" /\ round.term = term /\ round.todo = Others(n)
        /\ round.yes = 1 /\ ~round.answered /\ round.got = NoAnswer
    BY Zenon, <1>2 DEF NoRound, Round, NoAnswer, Answer, Known, Others
  <2> QED BY <2>1 DEF RoundOK, NoAnswer, KnownLeader
<1>7. LeadersElected' /\ state' \in [Members -> State]
  <2>1. s \in State /\ s.role # "leader" /\ s.leader = NoMember
    BY Zenon, <1>3 DEF State, Known
  <2> QED BY Zenon, <2>1, <1>4, <1>5, StateKeeps DEF ElectionInv, ElectionTypes, KnownLeader
<1>8. LoopOK(n)'
  <2>1. loop'[n] = round
    BY Zenon, <1>4 DEF ElectionInv, ElectionTypes
  <2>2. Counts(round, n, Voters(n, term)')
    BY <1>6, TallyStarts DEF Counts, NoAnswer
  <2> QED BY Zenon, <1>6, <2>1, <2>2 DEF LoopOK, RoundOK
<1>9. net' \subseteq Request /\ \A r \in net' : RequestOK(r)'
  <2>1. ASSUME round.todo # {} PROVE RequestOK(Asking("vote", n, round, LoopOf(n)))'
    BY <2>1, <1>6, AskingOK, CallersOK DEF RequestOK, Others
  <2> QED BY Zenon, <1>4, <1>5, <1>6, <2>1, SendsOK, TasksSame, CallersOK DEF ElectionInv, ElectionTypes, Others
<1>10. ElectedByQuorum'
  BY Zenon, <1>4, <1>5, ElectedKeeps DEF ElectionInv
<1> QED BY Zenon, <1>4, <1>5, <1>6, <1>7, <1>8, <1>9, <1>10, LoopStep

\* The answer counts, or nobody answered, and the next member is asked
LEMMA LoopGoesOn ==
  ASSUME ElectionInv, NEW n \in Members, loop[n].pc \in {"vote", "beat"}, loop[n].todo # {},
         NEW q, q \in {Answered(loop[n]), NoRound},
         loop' = [loop EXCEPT ![n] = q],
         Sends(loop[n].pc, n, Answered(loop[n]), LoopOf(n)),
         UNCHANGED <<state, plane, task, grants, elected, prepared>>
  PROVE  ElectionInv'
<1>1. Grows
  BY Zenon DEF Grows
<1>2. PICK next : next = Answered(loop[n])
  BY Zenon
<1>3. loop[n] \in Round /\ LoopOK(n) /\ RoundOK(loop[n], n)
  BY Zenon DEF ElectionInv, ElectionTypes, LoopOK
<1>4. /\ next \in Round /\ next.pc = loop[n].pc /\ next.at = loop[n].at /\ next.term = loop[n].term
      /\ RoundOK(next, n)
      /\ \A S \in SUBSET Members : next.pc = "vote" /\ Counts(loop[n], n, S) => Counts(next, n, S)
  BY Zenon, <1>2, <1>3, AnsweredOK
<1>5. RoundOK(next, n)'
  BY Zenon, <1>1, <1>4, RoundKeeps
<1>6. q \in Round
  BY Zenon, <1>2, <1>4, NoRounds
<1>7. LoopOK(n)'
  <2>1. loop'[n] = q
    BY Zenon DEF ElectionInv, ElectionTypes
  <2>2. CASE q = NoRound
    BY <2>1, <2>2, NoRounds DEF LoopOK, NoRound, RoundOK, KnownLeader, NoAnswer
  <2>3. CASE q = next
    <3>1. next.pc = "vote" => Counts(next, n, Voters(n, next.term))
      BY Zenon, <1>3, <1>4 DEF LoopOK, Voters
    <3>2. Voters(n, next.term)' = Voters(n, next.term)
      BY Zenon DEF Voters
    <3>3. next.pc = "beat" => <<n, next.term>> \in elected'
      BY Zenon, <1>3, <1>4 DEF LoopOK
    <3> QED BY Zenon, <2>1, <2>3, <1>3, <1>4, <1>5, <3>1, <3>2, <3>3 DEF LoopOK, RoundOK
  <2> QED BY Zenon, <1>2, <2>2, <2>3
<1>8. net' \subseteq Request /\ \A r \in net' : RequestOK(r)'
  <2>1. next.todo \subseteq Members
    BY Zenon, <1>4 DEF Round
  <2>2. ASSUME next.todo # {} PROVE RequestOK(Asking(next.pc, n, next, LoopOf(n)))'
    <3>1. next.pc # "vote" => <<n, next.term>> \in elected'
      BY Zenon, <1>3, <1>4 DEF LoopOK
    <3> QED BY <2>1, <2>2, <3>1, <1>4, AskingOK, CallersOK DEF RequestOK
  <2>3. Sends(next.pc, n, next, LoopOf(n))
    BY Zenon, <1>2, <1>4
  <2> QED BY <1>1, <1>4, <2>1, <2>2, <2>3, SendsOK, TasksSame, CallersOK DEF ElectionInv, ElectionTypes
<1>9. LeadersElected' /\ ElectedByQuorum' /\ state' \in [Members -> State]
  BY Zenon, <1>1, StateSame, ElectedKeeps DEF ElectionInv, ElectionTypes
<1> QED BY Zenon, <1>1, <1>6, <1>7, <1>8, <1>9, LoopStep

\* An owner steps down and names a leader it has heard of with some term
LEMMA SteppedDownOK ==
  ASSUME NEW s \in State, NEW term \in Nat, NEW leader \in Known, KnownLeader(leader, term)
  PROVE  /\ SteppedDown(s, term, leader) \in State
         /\ SteppedDown(s, term, leader).role = "follower"
         /\ KnownLeader(SteppedDown(s, term, leader).leader, SteppedDown(s, term, leader).term)
<1>1. PICK m \in Nat : m = Max({s.term, term}) /\ m >= term
  BY Zenon, MaxOfTwo DEF State
<1>2. SteppedDown(s, term, leader) = [role |-> "follower", term |-> m, voted |-> NoMember, leader |-> leader]
  BY Zenon, <1>1 DEF SteppedDown
<1>3. KnownLeader(leader, m)
  BY <1>1 DEF KnownLeader
<1> QED BY <1>2, <1>3 DEF State, Known

LEMMA LoopEnds ==
  ASSUME ElectionInv, NEW n \in Members, NEW s \in State, s.role # "leader", KnownLeader(s.leader, s.term),
         state' = [state EXCEPT ![n] = s], loop' = [loop EXCEPT ![n] = NoRound],
         UNCHANGED <<plane, task, net, grants, elected, prepared>>
  PROVE  ElectionInv'
<1>1. Grows
  BY Zenon DEF Grows
<1>2. LeadersElected' /\ state' \in [Members -> State]
  BY Zenon, <1>1, StateKeeps, HistoryGrows DEF ElectionInv, ElectionTypes
<1>3. LoopOK(n)'
  <2>1. loop'[n] = NoRound
    BY Zenon DEF ElectionInv, ElectionTypes
  <2> QED BY <2>1, NoRounds DEF LoopOK, NoRound, RoundOK, KnownLeader, NoAnswer
<1>4. net' \subseteq Request /\ \A r \in net' : RequestOK(r)'
  BY Zenon, <1>1, RequestKeeps, TasksSame DEF ElectionInv, ElectionTypes
<1>5. ElectedByQuorum'
  BY Zenon, <1>1, ElectedKeeps DEF ElectionInv
<1> QED BY Zenon, <1>1, <1>2, <1>3, <1>4, <1>5, NoRounds, LoopStep

\* An answer with a later term, to a candidate or to a leader
LEMMA DeposedKeeps ==
  ASSUME ElectionInv, NEW n \in Members,
         state' = [state EXCEPT ![n] = SteppedDown(@, loop[n].got.term, loop[n].got.leader)],
         loop' = [loop EXCEPT ![n] = NoRound],
         UNCHANGED <<plane, task, net, grants, elected, prepared>>
  PROVE  ElectionInv'
<1>1. loop[n].got.term \in Nat /\ loop[n].got.leader \in Known /\ state[n] \in State
  BY Zenon DEF ElectionInv, ElectionTypes, Round, Answer
<1>2. KnownLeader(loop[n].got.leader, loop[n].got.term)
  BY Zenon DEF ElectionInv, LoopOK, RoundOK
<1>3. PICK s : s = SteppedDown(state[n], loop[n].got.term, loop[n].got.leader)
  BY Zenon
<1>4. s \in State /\ s.role # "leader" /\ KnownLeader(s.leader, s.term)
  BY Zenon, <1>1, <1>2, <1>3, SteppedDownOK
<1>5. state' = [state EXCEPT ![n] = s]
  BY Zenon, <1>3 DEF ElectionInv, ElectionTypes
<1> QED BY Zenon, <1>4, <1>5, LoopEnds

LEMMA VoteAnsweredKeeps ==
  ASSUME ElectionInv, NEW n \in Members, VoteAnswered(n)
  PROVE  ElectionInv'
<1>1. UNCHANGED <<plane, task, grants, elected, prepared>>
  BY Zenon DEF VoteAnswered
<1>2. CASE Deposed(loop[n])
  BY Zenon, <1>1, <1>2, DeposedKeeps DEF VoteAnswered
<1>3. CASE ~ Deposed(loop[n])
  <2>1. PICK q : q = Answered(loop[n])
    BY Zenon
  <2>2. loop' = [loop EXCEPT ![n] = q] /\ Sends("vote", n, Answered(loop[n]), LoopOf(n))
    BY Zenon, <1>3, <2>1 DEF VoteAnswered
  <2>3. loop[n].pc = "vote" /\ loop[n].todo # {} /\ state' = state
    BY Zenon, <1>3 DEF VoteAnswered, ElectionInv, LoopOK, RoundOK
  <2> QED BY Zenon, <1>1, <2>1, <2>2, <2>3, LoopGoesOn
<1> QED BY Zenon, <1>2, <1>3

LEMMA HeartbeatAnsweredKeeps ==
  ASSUME ElectionInv, NEW n \in Members, HeartbeatAnswered(n)
  PROVE  ElectionInv'
<1>1. UNCHANGED <<plane, task, grants, elected, prepared>>
  BY Zenon DEF HeartbeatAnswered
<1>2. CASE Deposed(loop[n])
  BY Zenon, <1>1, <1>2, DeposedKeeps DEF HeartbeatAnswered
<1>3. CASE ~ Deposed(loop[n])
  <2>1. PICK q : q = EndsWith(Answered(loop[n]), NoRound)
    BY Zenon
  <2>2. loop' = [loop EXCEPT ![n] = q] /\ Sends("beat", n, Answered(loop[n]), LoopOf(n))
    BY Zenon, <1>3, <2>1 DEF HeartbeatAnswered
  <2>3. loop[n].pc = "beat" /\ loop[n].todo # {} /\ state' = state
    BY Zenon, <1>3 DEF HeartbeatAnswered, ElectionInv, LoopOK, RoundOK
  <2>4. q \in {Answered(loop[n]), NoRound}
    BY Zenon, <2>1 DEF EndsWith
  <2> QED BY Zenon, <1>1, <2>2, <2>3, <2>4, LoopGoesOn
<1> QED BY Zenon, <1>2, <1>3

LEMMA LoopGivesUpKeeps ==
  ASSUME ElectionInv, NEW n \in Members, LoopGivesUp(n)
  PROVE  ElectionInv'
<1>1. UNCHANGED <<state, plane, task, grants, elected, prepared>>
  BY Zenon DEF LoopGivesUp
<1>2. PICK q : q = IF Answered(loop[n]).pc = "beat" THEN EndsWith(Answered(loop[n]), NoRound)
                   ELSE Answered(loop[n])
  BY Zenon
<1>3. loop' = [loop EXCEPT ![n] = q] /\ Sends(Answered(loop[n]).pc, n, Answered(loop[n]), LoopOf(n))
  BY Zenon, <1>2 DEF LoopGivesUp
<1>4. loop[n].todo # {} /\ loop[n] \in Round /\ RoundOK(loop[n], n) /\ Members \subseteq Nat
  BY Zenon, MembersAssumption DEF LoopGivesUp, Waiting, ElectionInv, ElectionTypes, LoopOK
<1>5. Answered(loop[n]).pc = loop[n].pc
  BY Zenon, <1>4, AnsweredOK
<1>6. q \in {Answered(loop[n]), NoRound}
  BY Zenon, <1>2 DEF EndsWith
<1>7. CASE loop[n].pc \in {"vote", "beat"}
  BY Zenon, <1>1, <1>3, <1>4, <1>5, <1>6, <1>7, LoopGoesOn
<1>8. CASE loop[n].pc = "idle"
  BY Zenon, <1>4, <1>8 DEF ElectionInv, LoopOK
<1> QED BY Zenon, <1>7, <1>8 DEF ElectionInv, LoopOK

LEMMA ElectionEndsKeeps ==
  ASSUME ElectionInv, NEW n \in Members, ElectionEnds(n)
  PROVE  ElectionInv'
<1>1. UNCHANGED <<plane, task, net, grants, prepared>> /\ loop' = [loop EXCEPT ![n] = NoRound]
  BY Zenon DEF ElectionEnds
<1>2. PICK term \in Nat : term = loop[n].term
  BY Zenon DEF ElectionInv, ElectionTypes, Round
<1>3. CASE loop[n].yes < Quorum
  <2>1. elected' = elected /\ state' = [state EXCEPT ![n] = SteppedDown(@, term, NoMember)]
    BY <1>2, <1>3, MembersAssumption, FS_CardinalityType DEF ElectionEnds, Quorum, ElectionInv, ElectionTypes, Round
  <2>2. PICK s : s = SteppedDown(state[n], term, NoMember)
    BY Zenon
  <2>3. s \in State /\ s.role # "leader" /\ KnownLeader(s.leader, s.term)
    <3>1. state[n] \in State /\ NoMember \in Known /\ KnownLeader(NoMember, term)
      BY Zenon DEF ElectionInv, ElectionTypes, Known, KnownLeader
    <3> QED BY Zenon, <2>2, <3>1, SteppedDownOK
  <2>4. state' = [state EXCEPT ![n] = s]
    BY Zenon, <2>1, <2>2 DEF ElectionInv, ElectionTypes
  <2> QED BY Zenon, <1>1, <2>1, <2>3, <2>4, LoopEnds
<1>4. CASE ~ (loop[n].yes < Quorum)
  <2>1. /\ loop[n].yes >= Quorum /\ elected' = elected \cup {<<n, term>>}
        /\ state' = [state EXCEPT ![n] = BecomesLeader(n, term)]
    BY Zenon, <1>2, <1>4 DEF ElectionEnds
  <2>2. Grows
    BY Zenon, <1>1, <2>1 DEF Grows
  <2>3. PICK s : s = BecomesLeader(n, term)
    BY Zenon
  <2>4. LeadersElected' /\ state' \in [Members -> State]
    <3>1. s \in State /\ s.role = "leader" /\ s.leader = n /\ s.term = term
      BY Zenon, <2>3 DEF BecomesLeader, State, Known
    <3>2. KnownLeader(s.leader, s.term)' /\ <<n, s.term>> \in elected'
      BY <2>1, <3>1 DEF KnownLeader
    <3>3. state' = [state EXCEPT ![n] = s]
      BY Zenon, <2>1, <2>3
    <3> QED BY Zenon, <2>2, <3>1, <3>2, <3>3, StateKeeps DEF ElectionInv, ElectionTypes
  <2>5. LoopOK(n)'
    <3>1. loop'[n] = NoRound
      BY Zenon, <1>1 DEF ElectionInv, ElectionTypes
    <3> QED BY <3>1, NoRounds DEF LoopOK, NoRound, RoundOK, KnownLeader, NoAnswer
  <2>6. net' \subseteq Request /\ \A r \in net' : RequestOK(r)'
    BY Zenon, <1>1, <2>2, RequestKeeps, TasksSame DEF ElectionInv, ElectionTypes
  <2>7. ElectedByQuorum'
    <3>1. \A m, t : Voters(m, t)' = Voters(m, t)
      BY Zenon, <1>1 DEF Voters
    <3>2. Cardinality(Voters(n, term) \cup {n}) >= Quorum
      <4>1. /\ Tally(loop[n].yes, Voters(n, term), {}, n)
            /\ loop[n].yes \in Nat /\ Voters(n, term) \subseteq Members
        <5>1. loop[n].pc = "vote" /\ loop[n].todo = {} /\ LoopOK(n) /\ loop[n] \in Round
          BY Zenon DEF ElectionEnds, ElectionInv, ElectionTypes
        <5>2. Counts(loop[n], n, Voters(n, term))
          BY Zenon, <1>2, <5>1 DEF LoopOK
        <5> QED BY Zenon, <5>1, <5>2 DEF Counts, Round, Voters
      <4> QED BY Zenon, <2>1, <4>1, QuorumReached
    <3>3. ASSUME NEW w \in elected' PROVE Cardinality(Voters(w[1], w[2])' \cup {w[1]}) >= Quorum
      <4>1. CASE w \in elected
        BY Zenon, <3>1, <4>1 DEF ElectionInv, ElectedByQuorum
      <4>2. CASE w = <<n, term>>
        <5>1. w[1] = n /\ w[2] = term
          BY Zenon, <4>2
        <5> QED BY Zenon, <3>1, <3>2, <5>1
      <4> QED BY Zenon, <2>1, <4>1, <4>2
    <3> QED BY Zenon, <2>2, <3>3 DEF ElectionInv, ElectedByQuorum, Grows
  <2> QED BY Zenon, <1>1, <2>2, <2>4, <2>5, <2>6, <2>7, NoRounds, LoopStep
<1> QED BY Zenon, <1>3, <1>4

LEMMA StartHeartbeatKeeps ==
  ASSUME ElectionInv, NEW n \in Members, StartHeartbeat(n)
  PROVE  ElectionInv'
<1>1. PICK term \in Nat : term = state[n].term
  BY Zenon DEF ElectionInv, ElectionTypes, State
<1>2. PICK round : round = [NoRound EXCEPT !.pc = "beat", !.term = term, !.todo = Others(n)]
  BY Zenon
<1>3. PICK q : q = EndsWith(round, NoRound)
  BY Zenon
<1>4. /\ loop' = [loop EXCEPT ![n] = q] /\ Sends("beat", n, round, LoopOf(n))
      /\ UNCHANGED <<state, plane, task, faults, grants, elected, prepared>>
  BY Zenon, <1>1, <1>2, <1>3 DEF StartHeartbeat
<1>5. Grows
  BY Zenon, <1>4 DEF Grows
<1>6. <<n, term>> \in elected'
  BY Zenon, <1>1, <1>4 DEF StartHeartbeat, ElectionInv, LeadersElected
<1>7. /\ round \in Round /\ round.pc = "beat" /\ round.term = term /\ round.todo = Others(n)
      /\ RoundOK(round, n)'
  <2>1. /\ round \in Round /\ round.pc = "beat" /\ round.term = term /\ round.todo = Others(n)
        /\ ~round.answered /\ round.got = NoAnswer
    BY Zenon, <1>2 DEF NoRound, Round, NoAnswer, Answer, Known, Others
  <2> QED BY <2>1 DEF RoundOK, NoAnswer, KnownLeader
<1>8. q \in Round /\ LoopOK(n)'
  <2>1. loop'[n] = q
    BY Zenon, <1>4 DEF ElectionInv, ElectionTypes
  <2>2. CASE q = NoRound
    BY Zenon, <2>1, <2>2, NoRounds, NoRoundLoops
  <2>3. CASE q = round
    BY Zenon, <1>6, <1>7, <2>1, <2>3 DEF LoopOK, RoundOK
  <2> QED BY Zenon, <1>3, <2>2, <2>3, <1>7, NoRounds DEF EndsWith
<1>9. net' \subseteq Request /\ \A r \in net' : RequestOK(r)'
  <2>1. ASSUME round.todo # {} PROVE RequestOK(Asking("beat", n, round, LoopOf(n)))'
    BY <2>1, <1>6, <1>7, AskingOK, CallersOK DEF RequestOK, Others
  <2> QED BY Zenon, <1>4, <1>5, <1>7, <2>1, SendsOK, TasksSame, CallersOK DEF ElectionInv, ElectionTypes, Others
<1>10. LeadersElected' /\ ElectedByQuorum' /\ state' \in [Members -> State]
  BY Zenon, <1>4, <1>5, StateSame, ElectedKeeps DEF ElectionInv, ElectionTypes
<1> QED BY Zenon, <1>4, <1>5, <1>8, <1>9, <1>10, LoopStep

-----------------------------------------------------------------------------
(* What an owner receives *)

\* A request is answered truthfully: a granted vote and an accepted entry are on record
Truthful(r, a) ==
  /\ KnownLeader(a.leader, a.term)
  /\ r.kind = "vote" /\ a.ok => r.to \in Voters(r.from, r.term)
  /\ r.kind = "prepare" /\ a.ok =>
       \A e \in Entries : r.by = TaskOf(e) => r.to \in Acceptors(r.from, r.term, e)

LEMMA LoopGets ==
  ASSUME ElectionInv, Grows, NEW r \in net, NEW a \in Answer, Truthful(r, a)', NEW n \in Members,
         r.by = LoopOf(n), Awaits(loop[n], r), loop'[n] = Gets(loop[n], a)
  PROVE  loop'[n] \in Round /\ LoopOK(n)'
<1>1. loop[n] \in Round /\ LoopOK(n) /\ RoundOK(loop[n], n) /\ r \in Request /\ RequestOK(r)
  BY Zenon DEF ElectionInv, ElectionTypes, LoopOK
<1>2. PICK q : q = Gets(loop[n], a)
  BY Zenon
<1>3. /\ q \in Round /\ q.pc = loop[n].pc /\ q.term = loop[n].term /\ q.todo = loop[n].todo
      /\ q.yes = loop[n].yes /\ q.got = a /\ q.answered = TRUE
  BY Zenon, <1>1, <1>2, GetsOK
<1>4. /\ r.to = Min(loop[n].todo) /\ r.term = loop[n].term /\ loop[n].pc = r.kind /\ loop[n].todo # {}
  BY DEF Awaits, Asking, Waiting
<1>5. RoundOK(q, n)'
  BY Zenon, <1>1, <1>3, <1>4 DEF RoundOK, Truthful
<1>6. ASSUME q.pc = "vote" PROVE Counts(q, n, Voters(n, q.term)')
  <2>1. r.from = n
    BY Zenon, <1>1, <1>3, <1>4, <1>6, CallersOK DEF RequestOK
  <2>2. Tally(loop[n].yes, Voters(n, q.term)', loop[n].todo, n)
    <3>1. Voters(n, q.term) \subseteq Voters(n, q.term)' /\ Voters(n, q.term)' \subseteq Members
      BY Zenon, HistoryGrows DEF Voters
    <3>2. PICK S \in SUBSET Members : S = Voters(n, q.term)
      BY Zenon, <3>1
    <3>3. PICK T \in SUBSET Members : T = Voters(n, q.term)'
      BY Zenon, <3>1
    <3>4. Tally(loop[n].yes, S, loop[n].todo, n) /\ loop[n].yes \in Nat
      BY Zenon, <1>1, <1>3, <1>6, <3>2 DEF LoopOK, Counts, Round
    <3>5. S \subseteq T
      BY Zenon, <3>1, <3>2, <3>3
    <3>6. Tally(loop[n].yes, T, loop[n].todo, n)
      BY Zenon, <3>4, <3>5, TallyGrows
    <3> QED BY Zenon, <3>3, <3>6
  <2>3. a.ok => Min(q.todo) \in Voters(n, q.term)'
    BY Zenon, <1>3, <1>4, <1>6, <2>1 DEF Truthful
  <2> QED BY Zenon, <1>3, <2>2, <2>3 DEF Counts
<1>7. q.pc = "beat" => <<n, q.term>> \in elected'
  BY Zenon, <1>1, <1>3 DEF LoopOK, Grows
<1>8. loop'[n] = q /\ q.pc \in {"vote", "beat"}
  BY Zenon, <1>1, <1>2, <1>3, <1>4 DEF LoopOK
<1> QED BY Zenon, <1>3, <1>5, <1>6, <1>7, <1>8 DEF LoopOK, RoundOK

LEMMA TaskGets ==
  ASSUME ElectionInv, Grows, NEW r \in net, NEW a \in Answer, Truthful(r, a)', NEW e \in Entries,
         r.by = TaskOf(e), Awaits(task[e], r), task'[e] = Gets(task[e], a)
  PROVE  /\ task'[e] \in Round /\ TaskOK(e)'
         /\ task'[e].pc = task[e].pc /\ task'[e].at = task[e].at /\ task'[e].term = task[e].term
<1>1. task[e] \in Round /\ TaskOK(e) /\ RoundOK(task[e], task[e].at) /\ r \in Request /\ RequestOK(r)
  BY Zenon DEF ElectionInv, ElectionTypes, TaskOK
<1>2. PICK q : q = Gets(task[e], a)
  BY Zenon
<1>3. /\ q \in Round /\ q.pc = task[e].pc /\ q.term = task[e].term /\ q.todo = task[e].todo
      /\ q.yes = task[e].yes /\ q.got = a /\ q.answered = TRUE /\ q.at = task[e].at
  BY Zenon, <1>1, <1>2, GetsOK
<1>4. /\ r.to = Min(task[e].todo) /\ r.term = task[e].term /\ task[e].pc = r.kind /\ task[e].todo # {}
  BY DEF Awaits, Asking, Waiting
<1>5. RoundOK(q, q.at)'
  BY Zenon, <1>1, <1>3, <1>4 DEF RoundOK, Truthful
<1>6. q.pc \in {"prepare", "commit"} /\ q.at \in Members
  BY Zenon, <1>1, <1>3, <1>4 DEF TaskOK
<1>7. ASSUME q.pc = "prepare" PROVE Counts(q, q.at, Acceptors(q.at, q.term, e)')
  <2>1. r.from = q.at
    BY Zenon, <1>1, <1>3, <1>4, <1>7, CallersOK DEF RequestOK, TaskRequestOK
  <2>2. Tally(task[e].yes, Acceptors(q.at, q.term, e)', task[e].todo, q.at)
    <3>1. /\ Acceptors(q.at, q.term, e) \subseteq Acceptors(q.at, q.term, e)'
          /\ Acceptors(q.at, q.term, e)' \subseteq Members
      BY Zenon, HistoryGrows DEF Acceptors
    <3>2. PICK S \in SUBSET Members : S = Acceptors(q.at, q.term, e)
      BY Zenon, <3>1
    <3>3. PICK T \in SUBSET Members : T = Acceptors(q.at, q.term, e)'
      BY Zenon, <3>1
    <3>4. Tally(task[e].yes, S, task[e].todo, q.at) /\ task[e].yes \in Nat
      BY Zenon, <1>1, <1>3, <1>6, <1>7, <3>2 DEF TaskOK, Counts, Round
    <3>5. S \subseteq T
      BY Zenon, <3>1, <3>2, <3>3
    <3>6. Tally(task[e].yes, T, task[e].todo, q.at)
      BY Zenon, <1>6, <3>4, <3>5, TallyGrows
    <3> QED BY Zenon, <3>3, <3>6
  <2>3. a.ok => Min(q.todo) \in Acceptors(q.at, q.term, e)'
    BY Zenon, <1>3, <1>4, <1>7, <2>1 DEF Truthful
  <2> QED BY Zenon, <1>3, <2>2, <2>3 DEF Counts
<1>8. <<q.at, q.term>> \in elected' /\ (q.pc = "commit" => Chosen(e)')
  BY Zenon, <1>1, <1>3, <1>6, HistoryGrows DEF TaskOK, Grows
<1>9. task'[e] = q
  BY Zenon, <1>2
<1> QED BY Zenon, <1>3, <1>5, <1>6, <1>7, <1>8, <1>9 DEF TaskOK, RoundOK

\* The answer changes nothing but the round that waits for it
LEMMA RespondsOK ==
  ASSUME ElectionInv, Grows, NEW r \in net, NEW a \in Answer, Truthful(r, a)', Responds(r, a)
  PROVE  /\ loop' \in [Members -> Round] /\ \A n \in Members : LoopOK(n)'
         /\ task' \in [Entries -> Round] /\ \A e \in Entries : TaskOK(e)' /\ task'[e].pc = task[e].pc
         /\ net' \subseteq Request /\ \A q \in net' : RequestOK(q)'
<1>1. ASSUME NEW n \in Members PROVE loop'[n] \in Round /\ LoopOK(n)'
  <2>1. CASE r.by = LoopOf(n) /\ Awaits(loop[n], r)
    BY Zenon, <2>1, LoopGets DEF Responds
  <2>2. CASE ~ (r.by = LoopOf(n) /\ Awaits(loop[n], r))
    <3>1. loop'[n] = loop[n]
      BY Zenon, <2>2 DEF Responds
    <3> QED BY Zenon, <3>1, LoopKeeps DEF ElectionInv, ElectionTypes
  <2> QED BY Zenon, <2>1, <2>2
<1>2. ASSUME NEW e \in Entries
      PROVE  /\ task'[e] \in Round /\ TaskOK(e)' /\ task'[e].pc = task[e].pc
             /\ task'[e].at = task[e].at /\ task'[e].term = task[e].term
  <2>1. CASE r.by = TaskOf(e) /\ Awaits(task[e], r)
    <3>1. task'[e] = Gets(task[e], a)
      BY Zenon, <2>1 DEF Responds
    <3> QED BY Zenon, <2>1, <3>1, TaskGets
  <2>2. CASE ~ (r.by = TaskOf(e) /\ Awaits(task[e], r))
    <3>1. task'[e] = task[e]
      BY Zenon, <2>2 DEF Responds
    <3> QED BY Zenon, <3>1, TaskKeeps DEF ElectionInv, ElectionTypes
  <2> QED BY Zenon, <2>1, <2>2
<1>3. \A e \in Entries : Moves(e)
  BY Zenon, <1>2 DEF Moves
<1>4. net' \subseteq Request /\ \A q \in net' : RequestOK(q)'
  BY Zenon, <1>3, RequestKeeps DEF Responds, ElectionInv, ElectionTypes
<1>5. loop' \in [Members -> Round] /\ task' \in [Entries -> Round]
  BY Zenon, <1>1, <1>2 DEF Responds
<1> QED BY Zenon, <1>1, <1>2, <1>4, <1>5

\* What a handler of r leaves as the state of its owner, whichever request it is
HandledOK(s, n) ==
  /\ s.role = "leader" => <<n, s.term>> \in elected
  /\ KnownLeader(s.leader, s.term)

LEMMA AfterVoteOK ==
  ASSUME NEW s \in State, NEW r \in Request, HandledOK(s, r.to)
  PROVE  AfterVote(s, r) \in State /\ HandledOK(AfterVote(s, r), r.to)
<1>1. PICK v : v = VoteState(s, r)
  BY Zenon
<1>2. v \in State /\ HandledOK(v, r.to)
  <2>1. CASE r.term > s.term
    <3>1. v = [role |-> "follower", term |-> r.term, voted |-> NoMember, leader |-> NoMember]
      BY Zenon, <1>1, <2>1 DEF VoteState
    <3> QED BY Zenon, <3>1 DEF State, Known, HandledOK, KnownLeader, Request
  <2>2. CASE ~ (r.term > s.term)
    BY Zenon, <1>1, <2>2 DEF VoteState
  <2> QED BY Zenon, <2>1, <2>2
<1>3. CASE Grants(s, r)
  <2>1. AfterVote(s, r) = [v EXCEPT !.voted = r.from]
    BY Zenon, <1>1, <1>3 DEF AfterVote
  <2>2. PICK q : q = AfterVote(s, r)
    BY Zenon
  <2>3. q \in State /\ q.role = v.role /\ q.term = v.term /\ q.leader = v.leader
    BY Zenon, <1>2, <2>1, <2>2 DEF State, Known, Request
  <2> QED BY Zenon, <1>2, <2>2, <2>3 DEF HandledOK
<1>4. CASE ~ Grants(s, r)
  BY Zenon, <1>1, <1>2, <1>4 DEF AfterVote
<1> QED BY Zenon, <1>3, <1>4

LEMMA AfterHeartbeatOK ==
  ASSUME NEW s \in State, NEW r \in Request, HandledOK(s, r.to), <<r.from, r.term>> \in elected
  PROVE  AfterHeartbeat(s, r) \in State /\ HandledOK(AfterHeartbeat(s, r), r.to)
<1>1. CASE Accepts(s, r)
  <2>1. PICK q : q = [role |-> "follower", term |-> r.term, voted |-> NoMember, leader |-> r.from]
    BY Zenon
  <2>2. AfterHeartbeat(s, r) = q
    BY Zenon, <1>1, <2>1 DEF AfterHeartbeat
  <2>3. q \in State /\ q.role = "follower" /\ q.leader = r.from /\ q.term = r.term /\ r.term \in 0..r.term
    BY <2>1 DEF State, Known, Request
  <2> QED BY Zenon, <2>2, <2>3 DEF HandledOK, KnownLeader
<1>2. CASE ~ Accepts(s, r)
  BY Zenon, <1>2 DEF AfterHeartbeat
<1> QED BY Zenon, <1>1, <1>2

LEMMA HandledBefore ==
  ASSUME ElectionInv, NEW r \in net
  PROVE  /\ r \in Request /\ r.to \in Members /\ RequestOK(r)
         /\ state[r.to] \in State /\ HandledOK(state[r.to], r.to)
BY Zenon DEF ElectionInv, ElectionTypes, LeadersElected, HandledOK, Request

\* A handler that answers truthfully and leaves its owner a state that is all right
LEMMA HandledKeeps ==
  ASSUME ElectionInv, NEW r \in net, NEW s \in State, NEW ok \in BOOLEAN, Grows, elected' = elected,
         HandledOK(s, r.to), state' = [state EXCEPT ![r.to] = s],
         Truthful(r, AnswerOf(s, ok))', Responds(r, AnswerOf(s, ok)),
         plane' \in [Members -> Plane],
         plane' = plane \/ AppliedByQuorum'
  PROVE  ElectionInv'
<1>1. PICK a : a = AnswerOf(s, ok)
  BY Zenon
<1>2. a \in Answer
  BY Zenon, <1>1 DEF AnswerOf, Answer, State
<1>3. /\ loop' \in [Members -> Round] /\ \A n \in Members : LoopOK(n)'
      /\ task' \in [Entries -> Round] /\ \A e \in Entries : TaskOK(e)' /\ task'[e].pc = task[e].pc
      /\ net' \subseteq Request /\ \A q \in net' : RequestOK(q)'
  <2>1. Truthful(r, a)' /\ Responds(r, a)
    BY Zenon, <1>1
  <2> QED BY Zenon, <1>2, <2>1, RespondsOK
<1>4. LeadersElected' /\ state' \in [Members -> State]
  <2>1. (s.role = "leader" => <<r.to, s.term>> \in elected') /\ KnownLeader(s.leader, s.term)'
    BY Zenon, HistoryGrows DEF HandledOK
  <2> QED BY Zenon, <2>1, HandledBefore, StateKeeps DEF ElectionInv, ElectionTypes
<1>5. ElectedByQuorum'
  BY Zenon, ElectedKeeps DEF ElectionInv
<1>6. AppliedByQuorum'
  BY Zenon, <1>3, AppliedKeeps DEF ElectionInv
<1> QED BY Zenon, <1>3, <1>4, <1>5, <1>6 DEF ElectionInv, ElectionTypes

LEMMA ReceiveVoteKeeps ==
  ASSUME ElectionInv, NEW r \in net, ReceiveVote(r)
  PROVE  ElectionInv'
<1>1. PICK s : s = AfterVote(state[r.to], r)
  BY Zenon
<1>2. PICK ok \in BOOLEAN : ok = Grants(state[r.to], r)
  BY Zenon DEF Grants
<1>3. s \in State /\ HandledOK(s, r.to)
  BY Zenon, <1>1, HandledBefore, AfterVoteOK
<1>4. Grows /\ UNCHANGED <<plane, elected>>
  BY Zenon DEF ReceiveVote, Grows
<1>5. state' = [state EXCEPT ![r.to] = s] /\ Responds(r, AnswerOf(s, ok))
  BY Zenon, <1>1, <1>2 DEF ReceiveVote
<1>6. Truthful(r, AnswerOf(s, ok))'
  <2>1. AnswerOf(s, ok).term = s.term /\ AnswerOf(s, ok).leader = s.leader /\ AnswerOf(s, ok).ok = ok
    BY Zenon DEF AnswerOf
  <2>2. KnownLeader(s.leader, s.term)'
    BY Zenon, <1>3, <1>4, HistoryGrows DEF HandledOK
  <2>3. ok => r.to \in Voters(r.from, r.term)'
    BY Zenon, <1>2, HandledBefore DEF ReceiveVote, Voters
  <2>4. r.kind # "prepare"
    BY Zenon DEF ReceiveVote
  <2> QED BY Zenon, <2>1, <2>2, <2>3, <2>4 DEF Truthful
<1>7. plane' \in [Members -> Plane]
  BY Zenon, <1>4 DEF ElectionInv, ElectionTypes
<1> QED BY Zenon, <1>3, <1>4, <1>5, <1>6, <1>7, HandledKeeps

LEMMA ReceiveHeartbeatKeeps ==
  ASSUME ElectionInv, NEW r \in net, ReceiveHeartbeat(r)
  PROVE  ElectionInv'
<1>1. PICK s : s = AfterHeartbeat(state[r.to], r)
  BY Zenon
<1>2. PICK ok \in BOOLEAN : ok = Accepts(state[r.to], r)
  <2>1. Accepts(state[r.to], r) \in BOOLEAN
    BY HandledBefore DEF Accepts, Request, State
  <2> QED BY Zenon, <2>1
<1>3. s \in State /\ HandledOK(s, r.to)
  BY Zenon, <1>1, HandledBefore, AfterHeartbeatOK DEF ReceiveHeartbeat, RequestOK
<1>4. Grows /\ UNCHANGED <<plane, elected>>
  BY Zenon DEF ReceiveHeartbeat, Grows
<1>5. state' = [state EXCEPT ![r.to] = s] /\ Responds(r, AnswerOf(s, ok))
  BY Zenon, <1>1, <1>2 DEF ReceiveHeartbeat
<1>6. Truthful(r, AnswerOf(s, ok))'
  <2>1. AnswerOf(s, ok).term = s.term /\ AnswerOf(s, ok).leader = s.leader
    BY Zenon DEF AnswerOf
  <2>2. KnownLeader(s.leader, s.term)'
    BY Zenon, <1>3, <1>4, HistoryGrows DEF HandledOK
  <2>3. r.kind = "beat"
    BY Zenon DEF ReceiveHeartbeat
  <2> QED BY Zenon, <2>1, <2>2, <2>3 DEF Truthful
<1>7. plane' \in [Members -> Plane]
  BY Zenon, <1>4 DEF ElectionInv, ElectionTypes
<1> QED BY Zenon, <1>3, <1>4, <1>5, <1>6, <1>7, HandledKeeps

\* A committed entry is applied at the end of the log
LEMMA AfterCommitOK ==
  ASSUME NEW p \in Plane, NEW e \in Entries
  PROVE  /\ AfterCommit(p, e) \in Plane
         /\ ToSet(AfterCommit(p, e).log) = ToSet(p.log) \cup {e}
<1>1. Applied(p.session, e) \in Session
  BY EntriesAssumption DEF Applied, Session, Plane
<1>2. p.log \in Seq(Entries) /\ Append(p.log, e) \in Seq(Entries)
  BY DEF Plane
<1>3. /\ AfterCommit(p, e) \in Plane
      /\ AfterCommit(p, e).log = Append(p.log, e)
  BY Zenon, <1>1, <1>2 DEF AfterCommit, Plane
<1>4. ToSet(Append(p.log, e)) = ToSet(p.log) \cup {e}
  BY <1>2 DEF ToSet
<1> QED BY Zenon, <1>3, <1>4

\* An owner applies an entry that a quorum accepted
LEMMA AppliedOK ==
  ASSUME ElectionInv, Grows, NEW n \in Members, NEW e \in Entries, Chosen(e)',
         task'[e].pc \in {"commit", "end"},
         \A d \in Entries : task[d].pc \in {"commit", "end"} => task'[d].pc \in {"commit", "end"},
         plane' = [plane EXCEPT ![n] = AfterCommit(@, e)]
  PROVE  plane' \in [Members -> Plane] /\ AppliedByQuorum'
<1>1. plane[n] \in Plane /\ plane \in [Members -> Plane]
  BY Zenon DEF ElectionInv, ElectionTypes
<1>2. PICK p : p = AfterCommit(plane[n], e)
  BY Zenon
<1>3. p \in Plane /\ ToSet(p.log) = ToSet(plane[n].log) \cup {e}
  BY Zenon, <1>1, <1>2, AfterCommitOK
<1>4. plane' = [plane EXCEPT ![n] = p]
  BY Zenon, <1>1, <1>2
<1>5. ASSUME NEW m \in Members, NEW d \in ToSet(plane'[m].log)
      PROVE  task'[d].pc \in {"commit", "end"} /\ Chosen(d)'
  <2>1. CASE d \in ToSet(plane[m].log)
    <3>1. d \in Entries
      BY <1>1, <2>1 DEF Plane, ToSet
    <3>2. task[d].pc \in {"commit", "end"} /\ Chosen(d)
      BY Zenon, <2>1 DEF ElectionInv, AppliedByQuorum, Chosen
    <3> QED BY Zenon, <3>1, <3>2, HistoryGrows
  <2>2. CASE d \notin ToSet(plane[m].log)
    <3>1. d = e
      BY Zenon, <1>1, <1>3, <1>4, <2>2
    <3> QED BY Zenon, <3>1
  <2> QED BY Zenon, <2>1, <2>2
<1>6. AppliedByQuorum'
  BY Zenon, <1>5 DEF AppliedByQuorum, Chosen
<1> QED BY Zenon, <1>1, <1>3, <1>4, <1>6

LEMMA ReceiveReplicationKeeps ==
  ASSUME ElectionInv, NEW r \in net, ReceiveReplication(r)
  PROVE  ElectionInv'
<1>1. PICK s : s = AfterHeartbeat(state[r.to], r)
  BY Zenon
<1>2. PICK ok \in BOOLEAN : ok = Accepts(state[r.to], r)
  <2>1. Accepts(state[r.to], r) \in BOOLEAN
    BY HandledBefore DEF Accepts, Request, State
  <2> QED BY Zenon, <2>1
<1>3. s \in State /\ HandledOK(s, r.to)
  BY Zenon, <1>1, HandledBefore, AfterHeartbeatOK DEF ReceiveReplication, RequestOK
<1>4. Grows /\ elected' = elected
  BY Zenon DEF ReceiveReplication, Grows
<1>5. state' = [state EXCEPT ![r.to] = s] /\ Responds(r, AnswerOf(s, ok))
  BY Zenon, <1>1, <1>2 DEF ReceiveReplication
<1>6. PICK e \in Entries : TaskRequestOK(r, e)
  BY Zenon, HandledBefore DEF ReceiveReplication, RequestOK
<1>7. EntryIn(r) = e /\ \A d \in Entries : r.by = TaskOf(d) => d = e
  BY <1>6, CallersOK DEF TaskRequestOK, EntryIn, TaskOf
<1>8. Truthful(r, AnswerOf(s, ok))'
  <2>1. AnswerOf(s, ok).term = s.term /\ AnswerOf(s, ok).leader = s.leader /\ AnswerOf(s, ok).ok = ok
    BY Zenon DEF AnswerOf
  <2>2. KnownLeader(s.leader, s.term)'
    BY Zenon, <1>3, <1>4, HistoryGrows DEF HandledOK
  <2>3. r.kind # "vote"
    BY Zenon DEF ReceiveReplication
  <2>4. r.kind = "prepare" /\ ok => r.to \in Acceptors(r.from, r.term, e)'
    BY Zenon, <1>2, <1>7, HandledBefore DEF ReceiveReplication, Acceptors
  <2> QED BY Zenon, <1>7, <2>1, <2>2, <2>3, <2>4 DEF Truthful
<1>9. CASE r.kind = "commit" /\ ok
  <2>1. plane' = [plane EXCEPT ![r.to] = AfterCommit(@, e)]
    BY Zenon, <1>2, <1>7, <1>9 DEF ReceiveReplication
  <2>2. \A d \in Entries : task'[d].pc = task[d].pc
    <3>1. AnswerOf(s, ok) \in Answer
      BY Zenon, <1>3 DEF AnswerOf, Answer, State
    <3> QED BY Zenon, <1>4, <1>5, <1>8, <3>1, RespondsOK
  <2>3. Chosen(e)' /\ task[e].pc \in {"commit", "end"}
    BY Zenon, <1>4, <1>6, <1>9, HistoryGrows DEF TaskRequestOK
  <2>4. plane' \in [Members -> Plane] /\ AppliedByQuorum'
    BY Zenon, <1>4, <2>1, <2>2, <2>3, HandledBefore, AppliedOK
  <2> QED BY Zenon, <1>3, <1>4, <1>5, <1>8, <2>4, HandledKeeps
<1>10. CASE ~ (r.kind = "commit" /\ ok)
  <2>1. plane' = plane
    BY Zenon, <1>2, <1>10 DEF ReceiveReplication
  <2>2. plane' \in [Members -> Plane]
    BY Zenon, <2>1 DEF ElectionInv, ElectionTypes
  <2> QED BY Zenon, <1>3, <1>4, <1>5, <1>8, <2>1, <2>2, HandledKeeps
<1> QED BY Zenon, <1>9, <1>10

LEMMA LoseKeeps ==
  ASSUME ElectionInv, NEW r \in net, Lose(r)
  PROVE  ElectionInv'
<1>1. UNCHANGED <<state, plane, loop, task, grants, elected, prepared>> /\ net' \subseteq net
  BY Zenon DEF Lose
<1>2. Grows
  BY Zenon, <1>1 DEF Grows
<1>3. \A n \in Members : LoopOK(n)'
  BY Zenon, <1>1, <1>2, LoopKeeps DEF ElectionInv
<1>4. \A e \in Entries : TaskOK(e)'
  BY Zenon, <1>1, <1>2, TaskKeeps DEF ElectionInv
<1>5. \A q \in net' : RequestOK(q)'
  BY Zenon, <1>1, <1>2, TasksSame, RequestKeeps DEF ElectionInv
<1>6. LeadersElected' /\ ElectedByQuorum' /\ AppliedByQuorum'
  BY Zenon, <1>1, <1>2, StateSame, ElectedKeeps, AppliedKeeps DEF ElectionInv
<1> QED BY Zenon, <1>1, <1>3, <1>4, <1>5, <1>6 DEF ElectionInv, ElectionTypes

-----------------------------------------------------------------------------
(* Session mutations *)

LEMMA TaskMoves ==
  ASSUME ElectionInv, NEW e \in Entries, NEW q, task' = [task EXCEPT ![e] = q],
         task[e].pc \in {"prepare", "commit", "end"} =>
           /\ q.pc \in {"prepare", "commit", "end"}
           /\ q.pc \in {"prepare", "commit"} =>
                task[e].pc \in {"prepare", "commit"} /\ q.at = task[e].at /\ q.term = task[e].term
           /\ q.pc = "prepare" => task[e].pc = "prepare"
  PROVE  \A d \in Entries : Moves(d)
<1> TAKE d \in Entries
<1>1. CASE d = e
  <2>1. task'[d] = q
    BY Zenon, <1>1 DEF ElectionInv, ElectionTypes
  <2> QED BY Zenon, <1>1, <2>1 DEF Moves
<1>2. CASE d # e
  <2>1. task'[d] = task[d]
    BY Zenon, <1>2 DEF ElectionInv, ElectionTypes
  <2> QED BY Zenon, <2>1 DEF Moves
<1> QED BY Zenon, <1>1, <1>2

\* A step of the task of e keeps the invariant if what it changes is all right
LEMMA TaskStepOK ==
  ASSUME ElectionInv, Grows, elected' = elected, NEW e \in Entries, NEW q \in Round,
         task' = [task EXCEPT ![e] = q], TaskOK(e)',
         task[e].pc \in {"commit", "end"} => q.pc \in {"commit", "end"},
         LeadersElected', state' \in [Members -> State], loop' = loop,
         plane' = plane \/ (plane' \in [Members -> Plane] /\ AppliedByQuorum'),
         net' \subseteq Request, \A r \in net' : RequestOK(r)'
  PROVE  ElectionInv'
<1>1. ElectionTypes'
  BY Zenon DEF ElectionInv, ElectionTypes
<1>2. ASSUME NEW d \in Entries PROVE TaskOK(d)'
  <2>1. CASE d = e
    BY Zenon, <2>1
  <2>2. CASE d # e
    BY Zenon, <2>2, TaskKeeps DEF ElectionInv, ElectionTypes
  <2> QED BY Zenon, <2>1, <2>2
<1>3. \A n \in Members : LoopOK(n)'
  BY Zenon, LoopKeeps DEF ElectionInv
<1>4. AppliedByQuorum'
  <2>1. \A d \in Entries : task[d].pc \in {"commit", "end"} => task'[d].pc \in {"commit", "end"}
    BY Zenon DEF ElectionInv, ElectionTypes
  <2> QED BY Zenon, <2>1, AppliedKeeps DEF ElectionInv
<1> QED BY Zenon, <1>1, <1>2, <1>3, <1>4, ElectedKeeps DEF ElectionInv

LEMMA TaskEnds ==
  ASSUME ElectionInv, NEW e \in Entries, task' = [task EXCEPT ![e] = Ended],
         state' \in [Members -> State], LeadersElected',
         UNCHANGED <<plane, loop, net, grants, elected, prepared>>
  PROVE  ElectionInv'
<1>1. Grows
  BY Zenon DEF Grows
<1>2. TaskOK(e)'
  <2>1. task'[e] = Ended
    BY Zenon DEF ElectionInv, ElectionTypes
  <2> QED BY <2>1 DEF TaskOK, Ended, NoRound, RoundOK, KnownLeader, NoAnswer
<1>3. Ended.pc = "end" /\ Ended \in Round
  BY Zenon, NoRounds DEF Ended, NoRound
<1>4. \A r \in net' : RequestOK(r)'
  BY Zenon, <1>1, <1>3, TaskMoves, RequestKeeps DEF ElectionInv
<1> QED BY Zenon, <1>1, <1>2, <1>3, <1>4, TaskStepOK DEF ElectionInv, ElectionTypes

\* A mutation that is submitted, or forwarded
LEMMA TaskDecides ==
  ASSUME ElectionInv, NEW e \in Entries, NEW n \in Members, task[e].pc \in {"new", "decide"},
         NEW q \in Round, q.pc = "decide", q.at = n, q.todo = task[e].todo,
         q.answered = task[e].answered, q.got = task[e].got,
         task' = [task EXCEPT ![e] = q],
         UNCHANGED <<state, plane, loop, net, grants, elected, prepared>>
  PROVE  ElectionInv'
<1>1. Grows
  BY Zenon DEF Grows
<1>2. task[e] \in Round /\ TaskOK(e)
  BY Zenon DEF ElectionInv, ElectionTypes
<1>3. TaskOK(e)'
  <2>1. task'[e] = q
    BY Zenon DEF ElectionInv, ElectionTypes
  <2>2. q.todo = {} /\ ~ q.answered /\ ~ q.got.ok /\ KnownLeader(q.got.leader, q.got.term)'
    BY Zenon, <1>1, <1>2, HistoryGrows DEF TaskOK, RoundOK, Round, Answer
  <2> QED BY Zenon, <2>1, <2>2 DEF TaskOK, RoundOK, KnownLeader
<1>4. \A r \in net' : RequestOK(r)'
  BY Zenon, <1>1, TaskMoves, RequestKeeps DEF ElectionInv
<1>5. LeadersElected' /\ state' \in [Members -> State] /\ net' \subseteq Request
  BY Zenon, <1>1, StateSame DEF ElectionInv, ElectionTypes
<1> QED BY Zenon, <1>1, <1>3, <1>4, <1>5, TaskStepOK

LEMMA SubmitKeeps ==
  ASSUME ElectionInv, NEW e \in Entries, NEW n \in Members, Submit(e, n)
  PROVE  ElectionInv'
<1>1. PICK q : q = [task[e] EXCEPT !.pc = "decide", !.at = n]
  BY Zenon
<1>2. task' = [task EXCEPT ![e] = q]
  BY Zenon, <1>1 DEF Submit, ElectionInv, ElectionTypes, Round
<1>3. task[e].pc \in {"new", "decide"} /\ UNCHANGED <<state, plane, loop, net, grants, elected, prepared>>
  BY Zenon DEF Submit
<1>4. /\ q \in Round /\ q.pc = "decide" /\ q.at = n /\ q.todo = task[e].todo
      /\ q.answered = task[e].answered /\ q.got = task[e].got
  <2>1. task[e] \in Round
    BY Zenon DEF ElectionInv, ElectionTypes
  <2> QED BY Zenon, <1>1, <2>1 DEF Round, Known
<1> QED BY Zenon, <1>2, <1>3, <1>4, TaskDecides

LEMMA ForwardKeeps ==
  ASSUME ElectionInv, NEW e \in Entries, Forward(e)
  PROVE  ElectionInv'
<1>1. PICK n \in Members : n = state[task[e].at].leader
  BY Zenon DEF Forward, Others
<1>2. PICK q : q = [task[e] EXCEPT !.pc = "decide", !.at = n]
  BY Zenon
<1>3. task' = [task EXCEPT ![e] = q]
  BY Zenon, <1>1, <1>2 DEF Forward, ElectionInv, ElectionTypes, Round
<1>4. task[e].pc \in {"new", "decide"} /\ UNCHANGED <<state, plane, loop, net, grants, elected, prepared>>
  BY Zenon DEF Forward
<1>5. /\ q \in Round /\ q.pc = "decide" /\ q.at = n /\ q.todo = task[e].todo
      /\ q.answered = task[e].answered /\ q.got = task[e].got
  <2>1. task[e] \in Round
    BY Zenon DEF ElectionInv, ElectionTypes
  <2> QED BY Zenon, <1>2, <2>1 DEF Round, Known
<1> QED BY Zenon, <1>3, <1>4, <1>5, TaskDecides

LEMMA ForwardFailsKeeps ==
  ASSUME ElectionInv, NEW e \in Entries, ForwardFails(e)
  PROVE  ElectionInv'
<1>1. UNCHANGED <<state, plane, loop, net, grants, elected, prepared>> /\ task' = [task EXCEPT ![e] = Ended]
  BY Zenon DEF ForwardFails
<1>2. LeadersElected' /\ state' \in [Members -> State]
  BY Zenon, <1>1, StateSame DEF ElectionInv, ElectionTypes, Grows
<1> QED BY Zenon, <1>1, <1>2, TaskEnds

LEMMA PrepareKeeps ==
  ASSUME ElectionInv, NEW e \in Entries, Prepare(e)
  PROVE  ElectionInv'
<1>1. PICK n \in Members : n = task[e].at
  BY Zenon DEF Prepare, ElectionInv, TaskOK
<1>2. PICK term \in Nat : term = state[n].term
  BY Zenon DEF ElectionInv, ElectionTypes, State
<1>3. PICK q : q = [NoRound EXCEPT !.pc = "prepare", !.at = n, !.term = term, !.todo = Others(n), !.yes = 1]
  BY Zenon
<1>4. /\ task' = [task EXCEPT ![e] = q] /\ Sends("prepare", n, q, TaskOf(e)) /\ task[e].pc = "decide"
      /\ UNCHANGED <<state, plane, loop, grants, elected, prepared>>
  BY Zenon, <1>1, <1>2, <1>3 DEF Prepare
<1>5. Grows
  BY Zenon, <1>4 DEF Grows
<1>6. /\ q \in Round /\ q.pc = "prepare" /\ q.at = n /\ q.term = term /\ q.todo = Others(n)
      /\ q.yes = 1 /\ q.answered = FALSE /\ q.got = NoAnswer
  BY Zenon, <1>3 DEF NoRound, Round, NoAnswer, Answer, Known, Others
<1>7. <<n, term>> \in elected'
  BY Zenon, <1>1, <1>2, <1>4 DEF Prepare, ElectionInv, LeadersElected
<1>8. TaskOK(e)'
  <2>1. task'[e] = q
    BY Zenon, <1>4 DEF ElectionInv, ElectionTypes
  <2>2. Counts(q, n, Acceptors(n, term, e)')
    BY <1>6, TallyStarts DEF Counts, NoAnswer
  <2>3. RoundOK(q, n)'
    BY <1>6 DEF RoundOK, NoAnswer, KnownLeader
  <2> QED BY Zenon, <1>6, <1>7, <2>1, <2>2, <2>3 DEF TaskOK, RoundOK
<1>9. \A d \in Entries : Moves(d)
  BY Zenon, <1>4, TaskMoves
<1>10. net' \subseteq Request /\ \A r \in net' : RequestOK(r)'
  <2>1. ASSUME q.todo # {} PROVE RequestOK(Asking("prepare", n, q, TaskOf(e)))'
    <3>1. PICK r : r = Asking("prepare", n, q, TaskOf(e))
      BY Zenon
    <3>2. r.kind = "prepare" /\ r.from = n /\ r.term = term /\ r.by = TaskOf(e)
      BY Zenon, <3>1, <1>6 DEF Asking
    <3>3. task'[e] = q
      BY Zenon, <1>4 DEF ElectionInv, ElectionTypes
    <3>4. TaskRequestOK(r, e)'
      BY Zenon, <3>2, <3>3, <1>6 DEF TaskRequestOK
    <3>5. RequestOK(r)'
      BY Zenon, <3>2, <3>4, <1>7 DEF RequestOK
    <3> QED BY Zenon, <3>1, <3>5
  <2>2. q.todo \subseteq Members /\ TaskOf(e) \in Callers
    BY Zenon, <1>6, CallersOK DEF Others
  <2> QED BY Zenon, <1>4, <1>5, <1>6, <1>9, <2>1, <2>2, SendsOK DEF ElectionInv, ElectionTypes
<1>11. LeadersElected' /\ state' \in [Members -> State]
  BY Zenon, <1>4, <1>5, StateSame DEF ElectionInv, ElectionTypes
<1> QED BY Zenon, <1>4, <1>5, <1>6, <1>8, <1>10, <1>11, TaskStepOK

\* The request that a round of e sends next
LEMMA TaskAsks ==
  ASSUME ElectionInv, Grows, NEW e \in Entries, NEW n \in Members, NEW next \in Round, NEW q,
         task' = [task EXCEPT ![e] = q], q = next \/ (q = Ended /\ next.todo = {}),
         next.pc \in {"prepare", "commit"}, next.at = n, next.todo \subseteq Members,
         <<n, next.term>> \in elected', next.pc = "commit" => Chosen(e)',
         \A d \in Entries : Moves(d),
         Sends(next.pc, n, next, TaskOf(e))
  PROVE  net' \subseteq Request /\ \A r \in net' : RequestOK(r)'
<1>1. ASSUME next.todo # {} PROVE RequestOK(Asking(next.pc, n, next, TaskOf(e)))'
  <2>1. PICK r : r = Asking(next.pc, n, next, TaskOf(e))
    BY Zenon
  <2>2. r.kind = next.pc /\ r.from = n /\ r.term = next.term /\ r.by = TaskOf(e)
    BY Zenon, <2>1 DEF Asking
  <2>3. task'[e] = next
    BY Zenon, <1>1 DEF ElectionInv, ElectionTypes
  <2>4. TaskRequestOK(r, e)'
    BY Zenon, <2>2, <2>3 DEF TaskRequestOK
  <2>5. RequestOK(r)'
    BY Zenon, <2>2, <2>4 DEF RequestOK
  <2> QED BY Zenon, <2>1, <2>5
<1>2. TaskOf(e) \in Callers
  BY Zenon, CallersOK
<1>3. net \subseteq Request /\ \A r \in net : RequestOK(r)
  BY Zenon DEF ElectionInv, ElectionTypes
<1>4. next.pc \in {"vote", "beat", "prepare", "commit"}
  BY Zenon
<1> QED BY Zenon, <1>1, <1>2, <1>3, <1>4, SendsOK

\* An answer to a task counts, or nobody answered, and the next member is asked
LEMMA TaskGoesOn ==
  ASSUME ElectionInv, NEW e \in Entries, task[e].pc \in {"prepare", "commit"}, task[e].todo # {},
         NEW q, q = Answered(task[e]) \/ (q = Ended /\ task[e].pc = "commit" /\ Answered(task[e]).todo = {}),
         task' = [task EXCEPT ![e] = q],
         Sends(task[e].pc, task[e].at, Answered(task[e]), TaskOf(e)),
         UNCHANGED <<state, plane, loop, grants, elected, prepared>>
  PROVE  ElectionInv'
<1>1. Grows
  BY Zenon DEF Grows
<1>2. PICK next : next = Answered(task[e])
  BY Zenon
<1>3. /\ task[e] \in Round /\ TaskOK(e) /\ task[e].at \in Members /\ RoundOK(task[e], task[e].at)
  BY Zenon DEF ElectionInv, ElectionTypes, TaskOK
<1>4. PICK n \in Members : n = task[e].at
  BY Zenon, <1>3
<1>5. /\ next \in Round /\ next.pc = task[e].pc /\ next.at = n /\ next.term = task[e].term
      /\ RoundOK(next, n)
      /\ \A S \in SUBSET Members : next.pc = "prepare" /\ Counts(task[e], n, S) => Counts(next, n, S)
  BY Zenon, <1>2, <1>3, <1>4, AnsweredOK
<1>6. RoundOK(next, n)'
  BY Zenon, <1>1, <1>5, RoundKeeps
<1>7. <<n, next.term>> \in elected' /\ (next.pc = "commit" => Chosen(e)')
  BY Zenon, <1>1, <1>3, <1>4, <1>5, HistoryGrows DEF TaskOK
<1>8. q \in Round /\ (q = Ended => q.pc = "end")
  BY Zenon, <1>2, <1>5, NoRounds DEF Ended, NoRound
<1>9. TaskOK(e)'
  <2>1. task'[e] = q
    BY Zenon DEF ElectionInv, ElectionTypes
  <2>2. CASE q = Ended
    BY <2>1, <2>2 DEF TaskOK, Ended, NoRound, RoundOK, KnownLeader, NoAnswer
  <2>3. CASE q = next
    <3>1. next.pc = "prepare" => Counts(next, n, Acceptors(n, next.term, e))
      BY Zenon, <1>3, <1>4, <1>5 DEF TaskOK, Acceptors
    <3>2. Acceptors(n, next.term, e)' = Acceptors(n, next.term, e)
      BY Zenon DEF Acceptors
    <3> QED BY Zenon, <2>1, <2>3, <1>5, <1>6, <1>7, <3>1, <3>2 DEF TaskOK, RoundOK
  <2> QED BY Zenon, <1>2, <2>2, <2>3
<1>10. \A d \in Entries : Moves(d)
  BY Zenon, <1>2, <1>4, <1>5, <1>8, TaskMoves
<1>11. net' \subseteq Request /\ \A r \in net' : RequestOK(r)'
  <2>1. next.todo \subseteq Members /\ Sends(next.pc, n, next, TaskOf(e))
    BY Zenon, <1>2, <1>4, <1>5 DEF Round
  <2>2. q = next \/ (q = Ended /\ next.todo = {})
    BY Zenon, <1>2
  <2> QED BY Zenon, <1>1, <1>5, <1>7, <1>10, <2>1, <2>2, TaskAsks
<1>12. LeadersElected' /\ state' \in [Members -> State]
  BY Zenon, <1>1, StateSame DEF ElectionInv, ElectionTypes
<1>13. task[e].pc \in {"commit", "end"} => q.pc \in {"commit", "end"}
  BY Zenon, <1>2, <1>5, <1>8
<1> QED BY Zenon, <1>1, <1>8, <1>9, <1>11, <1>12, <1>13, TaskStepOK

LEMMA PrepareAnsweredKeeps ==
  ASSUME ElectionInv, NEW e \in Entries, PrepareAnswered(e)
  PROVE  ElectionInv'
<1>1. UNCHANGED <<plane, loop, grants, elected, prepared>> /\ task[e].pc = "prepare" /\ task[e].answered
  BY Zenon DEF PrepareAnswered
<1>2. PICK n \in Members : n = task[e].at
  BY Zenon, <1>1 DEF ElectionInv, TaskOK
<1>3. CASE Deposed(task[e])
  <2>1. /\ state' = [state EXCEPT ![n] = SteppedDown(@, task[e].got.term, task[e].got.leader)]
        /\ task' = [task EXCEPT ![e] = Ended] /\ net' = net
    BY Zenon, <1>2, <1>3 DEF PrepareAnswered
  <2>2. task[e].got.term \in Nat /\ task[e].got.leader \in Known /\ state[n] \in State
    BY Zenon DEF ElectionInv, ElectionTypes, Round, Answer
  <2>3. KnownLeader(task[e].got.leader, task[e].got.term)
    BY Zenon DEF ElectionInv, TaskOK, RoundOK
  <2>4. PICK s : s = SteppedDown(state[n], task[e].got.term, task[e].got.leader)
    BY Zenon
  <2>5. s \in State /\ s.role = "follower" /\ KnownLeader(s.leader, s.term)
    BY Zenon, <2>2, <2>3, <2>4, SteppedDownOK
  <2>6. state' = [state EXCEPT ![n] = s] /\ Grows
    BY Zenon, <1>1, <2>1, <2>4 DEF ElectionInv, ElectionTypes, Grows
  <2>7. LeadersElected' /\ state' \in [Members -> State]
    BY Zenon, <2>5, <2>6, HistoryGrows, StateKeeps DEF ElectionInv, ElectionTypes
  <2> QED BY Zenon, <1>1, <2>1, <2>7, TaskEnds
<1>4. CASE ~ Deposed(task[e])
  <2>1. PICK q : q = Answered(task[e])
    BY Zenon
  <2>2. /\ task' = [task EXCEPT ![e] = q] /\ state' = state
        /\ Sends(task[e].pc, task[e].at, Answered(task[e]), TaskOf(e))
    BY Zenon, <1>4, <2>1 DEF PrepareAnswered
  <2>3. task[e].todo # {}
    BY Zenon, <1>1 DEF ElectionInv, TaskOK, RoundOK
  <2> QED BY Zenon, <1>1, <2>1, <2>2, <2>3, TaskGoesOn
<1> QED BY Zenon, <1>3, <1>4

LEMMA CommitAnsweredKeeps ==
  ASSUME ElectionInv, NEW e \in Entries, CommitAnswered(e)
  PROVE  ElectionInv'
<1>1. /\ UNCHANGED <<state, plane, loop, grants, elected, prepared>>
      /\ task[e].pc = "commit" /\ task[e].answered
  BY Zenon DEF CommitAnswered
<1>2. PICK q : q = EndsWith(Answered(task[e]), Ended)
  BY Zenon
<1>3. task' = [task EXCEPT ![e] = q] /\ Sends(task[e].pc, task[e].at, Answered(task[e]), TaskOf(e))
  BY Zenon, <1>2 DEF CommitAnswered
<1>4. task[e].todo # {}
  BY Zenon, <1>1 DEF ElectionInv, TaskOK, RoundOK
<1>5. q = Answered(task[e]) \/ (q = Ended /\ task[e].pc = "commit" /\ Answered(task[e]).todo = {})
  BY Zenon, <1>1, <1>2 DEF EndsWith
<1> QED BY Zenon, <1>1, <1>3, <1>4, <1>5, TaskGoesOn

LEMMA TaskGivesUpKeeps ==
  ASSUME ElectionInv, NEW e \in Entries, TaskGivesUp(e)
  PROVE  ElectionInv'
<1>1. UNCHANGED <<state, plane, loop, grants, elected, prepared>> /\ task[e].todo # {}
  BY Zenon DEF TaskGivesUp, Waiting
<1>2. PICK q : q = IF Answered(task[e]).pc = "commit" THEN EndsWith(Answered(task[e]), Ended)
                   ELSE Answered(task[e])
  BY Zenon
<1>3. /\ task' = [task EXCEPT ![e] = q]
      /\ Sends(Answered(task[e]).pc, Answered(task[e]).at, Answered(task[e]), TaskOf(e))
  BY Zenon, <1>2 DEF TaskGivesUp
<1>4. /\ task[e] \in Round /\ task[e].pc \in {"prepare", "commit"} /\ task[e].at \in Members
      /\ RoundOK(task[e], task[e].at)
  BY Zenon, <1>1 DEF ElectionInv, ElectionTypes, TaskOK
<1>5. Answered(task[e]).pc = task[e].pc /\ Answered(task[e]).at = task[e].at
  BY Zenon, <1>1, <1>4, AnsweredOK
<1>6. q = Answered(task[e]) \/ (q = Ended /\ task[e].pc = "commit" /\ Answered(task[e]).todo = {})
  BY Zenon, <1>2, <1>5 DEF EndsWith
<1> QED BY Zenon, <1>1, <1>3, <1>4, <1>5, <1>6, TaskGoesOn

LEMMA CommitKeeps ==
  ASSUME ElectionInv, NEW e \in Entries, Commit(e)
  PROVE  ElectionInv'
<1>1. UNCHANGED <<state, loop, grants, elected, prepared>> /\ task[e].pc = "prepare" /\ task[e].todo = {}
  BY Zenon DEF Commit
<1>2. Grows /\ LeadersElected' /\ state' \in [Members -> State]
  BY Zenon, <1>1, StateSame DEF ElectionInv, ElectionTypes, Grows
<1>3. PICK n \in Members : n = task[e].at
  BY Zenon, <1>1 DEF ElectionInv, TaskOK
<1>4. task[e] \in Round /\ TaskOK(e) /\ Quorum \in Nat
  BY MembersAssumption, FS_CardinalityType DEF ElectionInv, ElectionTypes, Quorum
<1>5. CASE task[e].yes < Quorum
  <2>1. task' = [task EXCEPT ![e] = Ended] /\ UNCHANGED <<plane, net>>
    BY <1>4, <1>5 DEF Commit, Round
  <2> QED BY Zenon, <1>1, <1>2, <2>1, TaskEnds
<1>6. CASE ~ (task[e].yes < Quorum)
  <2>1. PICK next : next = [task[e] EXCEPT !.pc = "commit", !.todo = Others(n)]
    BY Zenon
  <2>2. PICK q : q = EndsWith(next, Ended)
    BY Zenon
  <2>3. /\ task[e].yes >= Quorum /\ plane' = [plane EXCEPT ![n] = AfterCommit(@, e)]
        /\ task' = [task EXCEPT ![e] = q] /\ Sends("commit", n, next, TaskOf(e))
    BY Zenon, <1>3, <1>6, <2>1, <2>2 DEF Commit
  <2>4. Chosen(e) /\ Chosen(e)' /\ <<n, task[e].term>> \in elected'
    <3>1. /\ Tally(task[e].yes, Acceptors(n, task[e].term, e), {}, n) /\ task[e].yes \in Nat
          /\ <<n, task[e].term>> \in elected
      BY Zenon, <1>1, <1>3, <1>4 DEF TaskOK, Counts, Round
    <3>2. Cardinality(Acceptors(n, task[e].term, e) \cup {n}) >= Quorum
      BY Zenon, <2>3, <3>1, QuorumReached DEF Acceptors
    <3>3. PICK w \in elected : w = <<n, task[e].term>>
      BY Zenon, <3>1
    <3>4. w[1] = n /\ w[2] = task[e].term
      BY Zenon, <3>3
    <3>5. Chosen(e)
      BY Zenon, <3>2, <3>4 DEF Chosen
    <3> QED BY Zenon, <1>1, <1>2, <3>1, <3>5, HistoryGrows
  <2>5. /\ next \in Round /\ next.pc = "commit" /\ next.at = n /\ next.term = task[e].term
        /\ next.todo = Others(n) /\ next.answered = task[e].answered /\ next.got = task[e].got
    BY Zenon, <1>3, <1>4, <2>1 DEF Round, Others
  <2>6. /\ q \in Round /\ q.pc \in {"commit", "end"} /\ (q = next \/ (q = Ended /\ next.todo = {}))
        /\ q = Ended => q.pc = "end"
    BY Zenon, <2>2, <2>5, NoRounds DEF EndsWith, Ended, NoRound
  <2>7. task'[e] = q
    BY Zenon, <2>3 DEF ElectionInv, ElectionTypes
  <2>8. TaskOK(e)'
    <3>1. CASE q = Ended
      BY <2>7, <3>1 DEF TaskOK, Ended, NoRound, RoundOK, KnownLeader, NoAnswer
    <3>2. CASE q = next
      <4>1. ~ next.answered /\ ~ next.got.ok /\ KnownLeader(next.got.leader, next.got.term)'
        BY Zenon, <1>1, <1>2, <1>4, <2>5, HistoryGrows DEF TaskOK, RoundOK, Round, Answer
      <4> QED BY Zenon, <2>4, <2>5, <2>7, <3>2, <4>1 DEF TaskOK, RoundOK, KnownLeader
    <3> QED BY Zenon, <2>6, <3>1, <3>2
  <2>9. \A d \in Entries : Moves(d)
    BY Zenon, <1>1, <1>3, <2>3, <2>5, <2>6, TaskMoves
  <2>10. net' \subseteq Request /\ \A r \in net' : RequestOK(r)'
    <3>1. next.todo \subseteq Members /\ Sends(next.pc, n, next, TaskOf(e))
      BY Zenon, <2>3, <2>5 DEF Others
    <3> QED BY Zenon, <1>2, <2>3, <2>4, <2>5, <2>6, <2>9, <3>1, TaskAsks
  <2>11. plane' \in [Members -> Plane] /\ AppliedByQuorum'
    <3>1. \A d \in Entries : task[d].pc \in {"commit", "end"} => task'[d].pc \in {"commit", "end"}
      BY Zenon, <1>1, <2>3 DEF ElectionInv, ElectionTypes
    <3> QED BY Zenon, <1>2, <2>3, <2>4, <2>6, <2>7, <3>1, AppliedOK
  <2> QED BY Zenon, <1>1, <1>2, <2>3, <2>6, <2>8, <2>10, <2>11, TaskStepOK
<1> QED BY Zenon, <1>5, <1>6

-----------------------------------------------------------------------------
(* Restarts, and the theorems *)

LEMMA NewStateOK ==
  ASSUME NEW n \in Members, Members = {n} => <<n, 1>> \in elected
  PROVE  NewState(n) \in State /\ HandledOK(NewState(n), n)
<1>1. CASE Members = {n}
  <2>1. PICK s : s = [role |-> "leader", term |-> 1, voted |-> n, leader |-> n]
    BY Zenon
  <2>2. NewState(n) = s
    BY Zenon, <1>1, <2>1 DEF NewState
  <2>3. s \in State /\ s.leader = n /\ s.term = 1 /\ 1 \in 0..1
    BY <2>1 DEF State, Known
  <2> QED BY Zenon, <1>1, <2>2, <2>3 DEF HandledOK, KnownLeader
<1>2. CASE Members # {n}
  <2>1. PICK s : s = [role |-> "follower", term |-> 0, voted |-> NoMember, leader |-> NoMember]
    BY Zenon
  <2>2. NewState(n) = s
    BY Zenon, <1>2, <2>1 DEF NewState
  <2>3. s \in State /\ s.leader = NoMember /\ s.role = "follower"
    BY Zenon, <2>1 DEF State, Known
  <2> QED BY Zenon, <2>2, <2>3 DEF HandledOK, KnownLeader
<1> QED BY Zenon, <1>1, <1>2

LEMMA NewPlaneOK == NewPlane \in Plane /\ ToSet(NewPlane.log) = {}
<1>1. <<>> \in Seq(Entries) /\ ToSet(<<>>) = {}
  BY DEF ToSet
<1>2. NewPlane.log = <<>> /\ NewPlane.session = [state |-> "none", expires |-> 0]
  BY Zenon DEF NewPlane
<1> QED BY Zenon, <1>1, <1>2 DEF NewPlane, Plane, Session

LEMMA RestartKeeps ==
  ASSUME ElectionInv, NEW n \in Members, Restart(n)
  PROVE  ElectionInv'
<1>1. UNCHANGED <<net, grants, elected, prepared>>
  BY Zenon DEF Restart
<1>2. Grows
  BY Zenon, <1>1 DEF Grows
<1>3. LeadersElected' /\ state' \in [Members -> State]
  <2>1. PICK s : s = NewState(n)
    BY Zenon
  <2>2. s \in State /\ HandledOK(s, n)
    BY Zenon, <2>1, NewStateOK DEF ElectionInv, ElectedByQuorum
  <2>3. state' = [state EXCEPT ![n] = s]
    BY Zenon, <2>1 DEF Restart
  <2>4. (s.role = "leader" => <<n, s.term>> \in elected') /\ KnownLeader(s.leader, s.term)'
    BY Zenon, <1>1, <1>2, <2>2, HistoryGrows DEF HandledOK
  <2> QED BY Zenon, <1>2, <2>2, <2>3, <2>4, StateKeeps DEF ElectionInv, ElectionTypes
<1>4. ASSUME NEW m \in Members PROVE loop'[m] \in Round /\ LoopOK(m)'
  <2>1. CASE m = n
    <3>1. loop'[m] = NoRound
      BY Zenon, <2>1 DEF Restart, ElectionInv, ElectionTypes
    <3> QED BY Zenon, <3>1, NoRounds, NoRoundLoops
  <2>2. CASE m # n
    <3>1. loop'[m] = loop[m]
      BY Zenon, <2>2 DEF Restart, ElectionInv, ElectionTypes
    <3> QED BY Zenon, <1>2, <3>1, LoopKeeps DEF ElectionInv, ElectionTypes
  <2> QED BY Zenon, <2>1, <2>2
<1>5. Ended.pc = "end" /\ Ended \in Round
  BY Zenon, NoRounds DEF Ended, NoRound
<1>6. ASSUME NEW e \in Entries
      PROVE  task'[e] \in Round /\ TaskOK(e)' /\ (task'[e] = Ended \/ task'[e] = task[e])
  <2>1. CASE task[e].at = n
    <3>1. task'[e] = Ended
      BY Zenon, <2>1 DEF Restart
    <3> QED BY <3>1, <1>5 DEF TaskOK, Ended, NoRound, RoundOK, KnownLeader, NoAnswer
  <2>2. CASE task[e].at # n
    <3>1. task'[e] = task[e]
      BY Zenon, <2>2 DEF Restart
    <3> QED BY Zenon, <1>2, <3>1, TaskKeeps DEF ElectionInv, ElectionTypes
  <2> QED BY Zenon, <2>1, <2>2
<1>7. \A e \in Entries : Moves(e)
  BY Zenon, <1>5, <1>6 DEF Moves
<1>8. \A r \in net' : RequestOK(r)'
  BY Zenon, <1>1, <1>2, <1>7, RequestKeeps DEF ElectionInv
<1>9. plane' \in [Members -> Plane] /\ AppliedByQuorum'
  <2>1. plane \in [Members -> Plane] /\ plane' = [plane EXCEPT ![n] = NewPlane]
    BY Zenon DEF Restart, ElectionInv, ElectionTypes
  <2>2. ASSUME NEW m \in Members, NEW e \in ToSet(plane'[m].log)
        PROVE  task'[e].pc \in {"commit", "end"} /\ Chosen(e)'
    <3>1. e \in ToSet(plane[m].log)
      BY Zenon, <2>1, NewPlaneOK
    <3>2. e \in Entries
      BY <2>1, <3>1 DEF Plane, ToSet
    <3>3. task[e].pc \in {"commit", "end"} /\ Chosen(e)
      BY Zenon, <3>1 DEF ElectionInv, AppliedByQuorum, Chosen
    <3> QED BY Zenon, <1>2, <1>5, <1>6, <3>2, <3>3, HistoryGrows
  <2> QED BY Zenon, <2>1, <2>2, NewPlaneOK DEF AppliedByQuorum, Chosen
<1>10. loop' \in [Members -> Round] /\ task' \in [Entries -> Round]
  BY Zenon, <1>4, <1>6 DEF Restart, ElectionInv, ElectionTypes
<1>11. ElectedByQuorum' /\ net' \subseteq Request
  BY Zenon, <1>1, <1>2, ElectedKeeps DEF ElectionInv, ElectionTypes
<1> QED BY Zenon, <1>3, <1>4, <1>6, <1>8, <1>9, <1>10, <1>11 DEF ElectionInv, ElectionTypes

LEMMA ElectionInit == Init => ElectionInv
<1> SUFFICES ASSUME Init PROVE ElectionInv
  BY Zenon
<1>1. ASSUME NEW n \in Members PROVE (Members = {n}) = (<<n, 1>> \in elected)
  BY DEF Init
<1>2. ASSUME NEW n \in Members PROVE state[n] \in State /\ HandledOK(state[n], n)
  BY Zenon, <1>1, NewStateOK DEF Init
<1>3. LeadersElected /\ state \in [Members -> State]
  BY Zenon, <1>2 DEF LeadersElected, HandledOK, Init
<1>4. ElectedByQuorum
  <2>1. ASSUME NEW w \in elected PROVE Cardinality(Voters(w[1], w[2]) \cup {w[1]}) >= Quorum
    <3>1. PICK n \in Members : Members = {n} /\ w = <<n, 1>>
      BY Zenon DEF Init
    <3>2. w[1] = n /\ Voters(w[1], w[2]) = {}
      BY Zenon, <3>1 DEF Voters, Init
    <3>3. Cardinality({n}) = 1
      BY Zenon, FS_Singleton
    <3>4. Quorum = 1 \div 2 + 1
      BY Zenon, <3>1, <3>3 DEF Quorum
    <3> QED BY <3>2, <3>3, <3>4
  <2> QED BY Zenon, <1>1, <2>1 DEF ElectedByQuorum
<1>5. loop \in [Members -> Round] /\ \A n \in Members : LoopOK(n)
  <2>1. \A n \in Members : loop[n] = NoRound
    BY Zenon DEF Init
  <2>2. \A n \in Members : LoopOK(n)
    BY Zenon, <2>1, NoRoundLoops
  <2> QED BY Zenon, <2>2, NoRounds DEF Init
<1>6. task \in [Entries -> Round] /\ \A e \in Entries : TaskOK(e)
  <2>1. PICK q : q = [NoRound EXCEPT !.pc = "new"]
    BY Zenon
  <2>2. /\ q \in Round /\ q.pc = "new" /\ q.todo = {} /\ q.answered = FALSE /\ q.got = NoAnswer
    BY Zenon, <2>1 DEF NoRound, Round, NoAnswer, Answer, Known
  <2>3. task = [e \in Entries |-> q]
    BY Zenon, <2>1 DEF Init
  <2>4. \A e \in Entries : TaskOK(e)
    BY <2>2, <2>3 DEF TaskOK, RoundOK, KnownLeader, NoAnswer
  <2> QED BY Zenon, <2>2, <2>3, <2>4
<1>7. plane \in [Members -> Plane] /\ AppliedByQuorum
  BY Zenon, NewPlaneOK DEF Init, AppliedByQuorum
<1>8. net = {}
  BY Zenon DEF Init
<1> QED BY Zenon, <1>3, <1>4, <1>5, <1>6, <1>7, <1>8 DEF ElectionInv, ElectionTypes

LEMMA ElectionNext == ElectionInv /\ [Next]_vars => ElectionInv'
<1> SUFFICES ASSUME ElectionInv, [Next]_vars PROVE ElectionInv'
  BY Zenon
<1>1. ASSUME NEW n \in Members, ElectionStep(n) \/ LoopGivesUp(n) \/ Restart(n) PROVE ElectionInv'
  BY Zenon, <1>1, StartElectionKeeps, VoteAnsweredKeeps, ElectionEndsKeeps, StartHeartbeatKeeps,
     HeartbeatAnsweredKeeps, LoopGivesUpKeeps, RestartKeeps DEF ElectionStep
<1>2. ASSUME NEW e \in Entries, TaskStep(e) PROVE ElectionInv'
  BY Zenon, <1>2, SubmitKeeps, PrepareKeeps, ForwardKeeps, ForwardFailsKeeps, PrepareAnsweredKeeps,
     CommitKeeps, CommitAnsweredKeeps, TaskGivesUpKeeps DEF TaskStep
<1>3. ASSUME NEW r \in net, Deliver(r) \/ Lose(r) PROVE ElectionInv'
  BY Zenon, <1>3, ReceiveVoteKeeps, ReceiveHeartbeatKeeps, ReceiveReplicationKeeps, LoseKeeps DEF Deliver
<1>4. CASE UNCHANGED vars
  <2>1. UNCHANGED <<state, plane, loop, task, net, grants, elected, prepared>>
    BY Zenon, <1>4 DEF vars
  <2>2. Grows
    BY Zenon, <2>1 DEF Grows
  <2>3. (\A n \in Members : LoopOK(n)') /\ (\A e \in Entries : TaskOK(e)')
    BY Zenon, <2>1, <2>2, LoopKeeps, TaskKeeps DEF ElectionInv
  <2>4. \A q \in net' : RequestOK(q)'
    BY Zenon, <2>1, <2>2, TasksSame, RequestKeeps DEF ElectionInv
  <2>5. LeadersElected' /\ ElectedByQuorum' /\ AppliedByQuorum'
    BY Zenon, <2>1, <2>2, StateSame, ElectedKeeps, AppliedKeeps DEF ElectionInv
  <2> QED BY Zenon, <2>1, <2>3, <2>4, <2>5 DEF ElectionInv, ElectionTypes
<1> QED BY Zenon, <1>1, <1>2, <1>3, <1>4 DEF Next

\* However votes, answers and terms interleave, are lost or arrive late, and whoever restarts: an owner
\* that leads was elected by a majority of the members in its very term, and the leader an owner names,
\* after a heartbeat or a rejection, won an election by then (receive_vote_request, receive_heartbeat,
\* start_election and become_leader in election.rs).
THEOREM LeadersAreElected == Spec => []LeaderWasElected
<1>1. ElectionInv => LeaderWasElected
  BY Zenon DEF ElectionInv, LeadersElected, ElectedByQuorum, KnownLeader, LeaderWasElected
<1> QED BY <1>1, ElectionInit, ElectionNext, PTL DEF Spec

\* No owner, follower or leader, has applied an entry unless a quorum accepted it from one elected
\* leader in one term, and none has while the entry is still being prepared (replicate_and_commit and
\* receive_session_replication in control_plane.rs and server.rs).
THEOREM AppliedAfterQuorum == Spec => []AppliedByQuorum
<1>1. ElectionInv => AppliedByQuorum
  BY Zenon DEF ElectionInv
<1> QED BY <1>1, ElectionInit, ElectionNext, PTL DEF Spec
=============================================================================
