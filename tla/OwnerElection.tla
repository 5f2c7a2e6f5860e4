----------------------------- MODULE OwnerElection -----------------------------
(* The owner SNs' election and their replicated serving-session state           *)
(* (sn/directory/election.rs and control_plane.rs, driven by the control loop   *)
(* of sn/directory/server.rs).                                                  *)
(*                                                                              *)
(* Every owner runs one control loop: a leader sends heartbeats, another owner  *)
(* starts an election when it knows no leader or has not heard from it in time. *)
(* A loop asks the other members one after the other and awaits each answer, so *)
(* whatever the owner receives meanwhile is applied between two of its steps. A *)
(* session mutation is a task of its own: it is forwarded to the known leader,  *)
(* prepared on a quorum, applied by the leader and then sent out as committed.  *)
(*                                                                              *)
(* Any time may pass between two steps, so a heartbeat may always be overdue    *)
(* (last_heartbeat_at is left out). A request whose caller gave up may still    *)
(* arrive.                                                                      *)
EXTENDS Naturals, Sequences, FiniteSets, FiniteSetsExt, SequencesExt

CONSTANTS
  Members,       \* the owner SNs, in the order of OwnerMembership::members
  Candidates,    \* the members whose loop is scheduled to start elections
  Entries,       \* session mutations, each submitted at most once
  KindOf,        \* entry -> "renew" or "revoke" of the serving SN's session
  NowOf,         \* entry -> the time its submitter stamped it with
  Ttl,
  MaxTerm,       \* bound: no election is started beyond this term
  Submitters,    \* bound: the members mutations are submitted at
  Restarting,    \* bound: the members that may restart
  MaxFaults      \* bound: how many owners restart, and requests or answers are lost or late

NoMember == 0

ASSUME MembersAssumption == IsFiniteSet(Members) /\ Members \subseteq Nat \ {NoMember} /\ Candidates \subseteq Members
ASSUME EntriesAssumption ==
  /\ KindOf \in [Entries -> {"renew", "revoke"}]
  /\ NowOf \in [Entries -> Nat]
  /\ Ttl \in Nat /\ MaxTerm \in Nat /\ MaxFaults \in Nat
  /\ Submitters \subseteq Members /\ Restarting \subseteq Members

VARIABLES
  state,      \* owner -> OwnerElectionState
  plane,      \* owner -> its control plane: the applied entries and the session
  loop,       \* owner -> the control loop's place
  task,       \* entry -> the place of the mutation that carries it
  net,        \* requests under way
  faults,
  grants,     \* history: <<voter, candidate, term>> of every vote granted on request
  elected,    \* history: <<leader, term>> of every election won
  prepared    \* history: <<member, leader, term, entry>> of every entry accepted before its commit

vars == <<state, plane, loop, task, net, faults, grants, elected, prepared>>

Known == Members \cup {NoMember}

Quorum == Cardinality(Members) \div 2 + 1
Others(n) == Members \ {n}

\* OwnerElectionState
State == [role : {"follower", "candidate", "leader"}, term : Nat, voted : Known, leader : Known]

\* the one serving SN's ServingSnSession
Session == [state : {"none", "online", "offline"}, expires : Nat]
Plane == [log : Seq(Entries), session : Session]

\* the answer of a member: its term, whether it agreed, and the leader it knows
Answer == [term : Nat, ok : BOOLEAN, leader : Known]
NoAnswer == [term |-> 0, ok |-> FALSE, leader |-> NoMember]

\* a round of requests to the other members, in order; yes counts the agreement
Round == [pc : {"idle", "vote", "beat", "new", "decide", "prepare", "commit", "end"}, at : Known,
          term : Nat, todo : SUBSET Members, yes : Nat, answered : BOOLEAN, got : Answer]
NoRound == [pc |-> "idle", at |-> NoMember, term |-> 0, todo |-> {}, yes |-> 0, answered |-> FALSE,
            got |-> NoAnswer]

\* a request: the caller it answers to is the sender's loop or an entry's task
LoopOf(n) == <<"loop", n>>
TaskOf(e) == <<"task", e>>
Callers == {LoopOf(n) : n \in Members} \cup {TaskOf(e) : e \in Entries}
Request == [kind : {"vote", "beat", "prepare", "commit"}, from : Members, to : Members, term : Nat,
            by : Callers]

\* the loops and the tasks have their types, and so do the owners
TypeOK ==
  /\ state \in [Members -> State]
  /\ plane \in [Members -> Plane]
  /\ loop \in [Members -> Round]
  /\ task \in [Entries -> Round]
  /\ net \subseteq Request
  /\ faults \in 0..MaxFaults
  /\ grants \subseteq (Members \X Members \X (1..MaxTerm))
  /\ elected \subseteq (Members \X (1..MaxTerm))
  /\ prepared \subseteq (Members \X Members \X (1..MaxTerm) \X Entries)

\* OwnerElectionNode::new; a lone member leads from the start
NewState(n) ==
  IF Members = {n}
  THEN [role |-> "leader", term |-> 1, voted |-> n, leader |-> n]
  ELSE [role |-> "follower", term |-> 0, voted |-> NoMember, leader |-> NoMember]

\* OwnerControlPlane::new
NewPlane == [log |-> <<>>, session |-> [state |-> "none", expires |-> 0]]

Init ==
  /\ state = [n \in Members |-> NewState(n)]
  /\ plane = [n \in Members |-> NewPlane]
  /\ loop = [n \in Members |-> NoRound]
  /\ task = [e \in Entries |-> [NoRound EXCEPT !.pc = "new"]]
  /\ net = {}
  /\ faults = 0
  /\ grants = {}
  /\ elected = {<<n, 1>> : n \in {m \in Members : Members = {m}}}
  /\ prepared = {}

-------------------------------------------------------------------------------
(* What the handlers do to the state                                           *)

\* step_down
SteppedDown(s, term, leader) ==
  [role |-> "follower", term |-> Max({s.term, term}), voted |-> NoMember, leader |-> leader]

\* become_leader: the role and the term the owner has by now are not looked at
BecomesLeader(n, term) == [role |-> "leader", term |-> term, voted |-> n, leader |-> n]

\* receive_vote_request: the state when the vote is considered, the grant and the state after it
VoteStateKeepsRole(s, r) ==
  IF r.term > s.term
  THEN [s EXCEPT !.term = r.term, !.voted = NoMember, !.leader = NoMember]
  ELSE s
VoteState(s, r) ==
  IF r.term > s.term
  THEN [role |-> "follower", term |-> r.term, voted |-> NoMember, leader |-> NoMember]
  ELSE s
Grants(s, r) == r.term >= s.term /\ VoteState(s, r).voted \in {NoMember, r.from}
AfterVote(s, r) ==
  IF Grants(s, r) THEN [VoteState(s, r) EXCEPT !.voted = r.from] ELSE VoteState(s, r)

\* receive_heartbeat; receive_session_replication begins with it
Accepts(s, r) == r.term >= s.term
AfterHeartbeatKeepsRole(s, r) ==
  IF Accepts(s, r)
  THEN [s EXCEPT !.term = r.term, !.voted = NoMember, !.leader = IF s.role = "leader" THEN @ ELSE r.from]
  ELSE s
AfterHeartbeat(s, r) ==
  IF Accepts(s, r)
  THEN [role |-> "follower", term |-> r.term, voted |-> NoMember, leader |-> r.from]
  ELSE s

\* apply_entry
Applied(session, e) ==
  CASE KindOf[e] = "renew" ->
         IF session.state # "online" \/ session.expires <= NowOf[e] + Ttl
         THEN [state |-> "online", expires |-> NowOf[e] + Ttl]
         ELSE session
    [] KindOf[e] = "revoke" ->
         IF session.state # "none" /\ session.expires > NowOf[e]
         THEN [state |-> "offline", expires |-> NowOf[e]]
         ELSE session

\* apply_committed_session_entry
AfterCommit(p, e) == [log |-> Append(p.log, e), session |-> Applied(p.session, e)]

-------------------------------------------------------------------------------
(* Rounds of requests                                                          *)

\* the request a round is waiting for, and its next one; the members are asked in order
Asking(kind, n, round, by) ==
  [kind |-> kind, from |-> n, to |-> Min(round.todo), term |-> round.term, by |-> by]

\* the requests of a round that begins, or goes on after an answer
Sends(kind, n, round, by) ==
  net' = IF round.todo = {} THEN net ELSE net \cup {Asking(kind, n, round, by)}

\* the round after the answer of the member it asked; agreement counts while votes or
\* acceptances are collected
Answered(round) ==
  [round EXCEPT !.todo = @ \ {Min(@)}, !.answered = FALSE, !.got = NoAnswer,
                !.yes = IF round.got.ok /\ round.pc \in {"vote", "prepare"} THEN @ + 1 ELSE @]

\* ... which is over when there is nobody left to ask and nothing left to do
EndsWith(round, end) == IF round.todo = {} THEN end ELSE round

Waiting(round) == round.todo # {} /\ ~ round.answered

\* an answer that makes the caller step down and end the round
Deposed(round) == round.answered /\ round.got.term > round.term

\* the round whose request r is, if its caller still waits for the answer
Awaits(round, r) == Waiting(round) /\ Asking(r.kind, r.from, round, r.by) = r /\ round.pc = r.kind
Gets(round, a) == [round EXCEPT !.answered = TRUE, !.got = a]

\* the response goes back to the caller, if it is still there
Responds(r, a) ==
  /\ net' = net \ {r}
  /\ loop' = [n \in Members |-> IF r.by = LoopOf(n) /\ Awaits(loop[n], r) THEN Gets(loop[n], a) ELSE loop[n]]
  /\ task' = [e \in Entries |-> IF r.by = TaskOf(e) /\ Awaits(task[e], r) THEN Gets(task[e], a) ELSE task[e]]

-------------------------------------------------------------------------------
(* The control loop                                                            *)

\* run_owner_control_loop without a leader, or tick with an overdue one: start_election
StartElection(n) ==
  /\ n \in Candidates
  /\ loop[n].pc = "idle" /\ state[n].role # "leader"
  /\ state[n].term < MaxTerm
  /\ LET term == Max({state[n].term + 1, 1})
         round == [NoRound EXCEPT !.pc = "vote", !.term = term, !.todo = Others(n), !.yes = 1]
     IN /\ state' = [state EXCEPT ![n] = [role |-> "candidate", term |-> term, voted |-> n, leader |-> NoMember]]
        /\ loop' = [loop EXCEPT ![n] = round]
        /\ Sends("vote", n, round, LoopOf(n))
  /\ UNCHANGED <<plane, task, faults, grants, elected, prepared>>

\* the answer of one member to a candidate
VoteAnswered(n) ==
  /\ loop[n].pc = "vote" /\ loop[n].answered
  /\ IF Deposed(loop[n])
     THEN /\ state' = [state EXCEPT ![n] = SteppedDown(@, loop[n].got.term, loop[n].got.leader)]
          /\ loop' = [loop EXCEPT ![n] = NoRound]
          /\ UNCHANGED net
     ELSE /\ loop' = [loop EXCEPT ![n] = Answered(@)]
          /\ Sends("vote", n, Answered(loop[n]), LoopOf(n))
          /\ UNCHANGED state
  /\ UNCHANGED <<plane, task, faults, grants, elected, prepared>>

\* all members have answered: lead, or step down (no answer had a term above the election's)
ElectionEnds(n) ==
  /\ loop[n].pc = "vote" /\ loop[n].todo = {}
  /\ loop' = [loop EXCEPT ![n] = NoRound]
  /\ \/ /\ loop[n].yes >= Quorum
        /\ state' = [state EXCEPT ![n] = BecomesLeader(n, loop[n].term)]
        /\ elected' = elected \cup {<<n, loop[n].term>>}
     \/ /\ loop[n].yes < Quorum
        /\ state' = [state EXCEPT ![n] = SteppedDown(@, loop[n].term, NoMember)]
        /\ UNCHANGED elected
  /\ UNCHANGED <<plane, task, net, faults, grants, prepared>>

\* send_heartbeat, right after an election won and then by every turn of the loop
StartHeartbeat(n) ==
  /\ loop[n].pc = "idle" /\ state[n].role = "leader"
  /\ LET round == [NoRound EXCEPT !.pc = "beat", !.term = state[n].term, !.todo = Others(n)]
     IN /\ loop' = [loop EXCEPT ![n] = EndsWith(round, NoRound)]
        /\ Sends("beat", n, round, LoopOf(n))
  /\ UNCHANGED <<state, plane, task, faults, grants, elected, prepared>>

\* the answer of one member to a heartbeat
HeartbeatAnswered(n) ==
  /\ loop[n].pc = "beat" /\ loop[n].answered
  /\ IF Deposed(loop[n])
     THEN /\ state' = [state EXCEPT ![n] = SteppedDown(@, loop[n].got.term, loop[n].got.leader)]
          /\ loop' = [loop EXCEPT ![n] = NoRound]
          /\ UNCHANGED net
     ELSE /\ loop' = [loop EXCEPT ![n] = EndsWith(Answered(@), NoRound)]
          /\ Sends("beat", n, Answered(loop[n]), LoopOf(n))
          /\ UNCHANGED state
  /\ UNCHANGED <<plane, task, faults, grants, elected, prepared>>

-------------------------------------------------------------------------------
(* What an owner receives                                                      *)

AnswerOf(s, ok) == [term |-> s.term, ok |-> ok, leader |-> s.leader]

\* receive_vote_request
ReceiveVote(r) ==
  /\ r.kind = "vote"
  /\ state' = [state EXCEPT ![r.to] = AfterVote(@, r)]
  /\ grants' = IF Grants(state[r.to], r) THEN grants \cup {<<r.to, r.from, r.term>>} ELSE grants
  /\ Responds(r, AnswerOf(AfterVote(state[r.to], r), Grants(state[r.to], r)))
  /\ UNCHANGED <<plane, faults, elected, prepared>>

\* receive_heartbeat
ReceiveHeartbeat(r) ==
  /\ r.kind = "beat"
  /\ state' = [state EXCEPT ![r.to] = AfterHeartbeat(@, r)]
  /\ Responds(r, AnswerOf(AfterHeartbeat(state[r.to], r), Accepts(state[r.to], r)))
  /\ UNCHANGED <<plane, faults, grants, elected, prepared>>

\* the entry of a replication request
EntryIn(r) == r.by[2]

\* receive_session_replication: an accepted request that is committed is applied
ReceiveReplicationEarly(r) ==
  /\ r.kind \in {"prepare", "commit"}
  /\ state' = [state EXCEPT ![r.to] = AfterHeartbeat(@, r)]
  /\ plane' = IF Accepts(state[r.to], r)
              THEN [plane EXCEPT ![r.to] = AfterCommit(@, EntryIn(r))]
              ELSE plane
  /\ prepared' = IF r.kind = "prepare" /\ Accepts(state[r.to], r)
                 THEN prepared \cup {<<r.to, r.from, r.term, EntryIn(r)>>}
                 ELSE prepared
  /\ Responds(r, AnswerOf(AfterHeartbeat(state[r.to], r), Accepts(state[r.to], r)))
  /\ UNCHANGED <<faults, grants, elected>>
ReceiveReplication(r) ==
  /\ r.kind \in {"prepare", "commit"}
  /\ state' = [state EXCEPT ![r.to] = AfterHeartbeat(@, r)]
  /\ plane' = IF r.kind = "commit" /\ Accepts(state[r.to], r)
              THEN [plane EXCEPT ![r.to] = AfterCommit(@, EntryIn(r))]
              ELSE plane
  /\ prepared' = IF r.kind = "prepare" /\ Accepts(state[r.to], r)
                 THEN prepared \cup {<<r.to, r.from, r.term, EntryIn(r)>>}
                 ELSE prepared
  /\ Responds(r, AnswerOf(AfterHeartbeat(state[r.to], r), Accepts(state[r.to], r)))
  /\ UNCHANGED <<faults, grants, elected>>

-------------------------------------------------------------------------------
(* A session mutation                                                          *)

\* renew_serving_session or revoke_serving_session at some owner
Submit(e, n) ==
  /\ task[e].pc = "new" /\ n \in Submitters
  /\ task' = [task EXCEPT ![e].pc = "decide", ![e].at = n]
  /\ UNCHANGED <<state, plane, loop, net, faults, grants, elected, prepared>>

Ended == [NoRound EXCEPT !.pc = "end"]

\* commit_or_forward_session at the leader: replicate_and_commit
Prepare(e) ==
  /\ task[e].pc = "decide"
  /\ LET n == task[e].at
         round == [NoRound EXCEPT !.pc = "prepare", !.at = n, !.term = state[n].term,
                                  !.todo = Others(n), !.yes = 1]
     IN /\ state[n].role = "leader"
        /\ task' = [task EXCEPT ![e] = round]
        /\ Sends("prepare", n, round, TaskOf(e))
  /\ UNCHANGED <<state, plane, loop, faults, grants, elected, prepared>>

\* commit_or_forward_session elsewhere: to the leader it knows, which decides in its turn
Forward(e) ==
  /\ task[e].pc = "decide"
  /\ LET s == state[task[e].at]
     IN /\ s.role # "leader"
        /\ s.leader \in Others(task[e].at)
        /\ task' = [task EXCEPT ![e].at = s.leader]
  /\ UNCHANGED <<state, plane, loop, net, faults, grants, elected, prepared>>

\* one of the bounded number of faults: a request lost or no longer awaited, an owner restarting
Fails == faults < MaxFaults /\ faults' = faults + 1

\* no known leader, or the forward is lost: the submitter gets an error
ForwardFails(e) ==
  /\ task[e].pc = "decide"
  /\ LET s == state[task[e].at]
     IN /\ s.role # "leader"
        /\ IF s.leader \in Others(task[e].at) THEN Fails ELSE UNCHANGED faults
  /\ task' = [task EXCEPT ![e] = Ended]
  /\ UNCHANGED <<state, plane, loop, net, grants, elected, prepared>>

\* the answer of one member to the leader that prepares an entry
PrepareAnswered(e) ==
  /\ task[e].pc = "prepare" /\ task[e].answered
  /\ LET n == task[e].at
     IN IF Deposed(task[e])
        THEN /\ state' = [state EXCEPT ![n] = SteppedDown(@, task[e].got.term, task[e].got.leader)]
             /\ task' = [task EXCEPT ![e] = Ended]
             /\ UNCHANGED net
        ELSE /\ task' = [task EXCEPT ![e] = Answered(@)]
             /\ Sends("prepare", n, Answered(task[e]), TaskOf(e))
             /\ UNCHANGED state
  /\ UNCHANGED <<plane, loop, faults, grants, elected, prepared>>

\* the entry is prepared; whether the owner still leads is not looked at again
Commit(e) ==
  /\ task[e].pc = "prepare" /\ task[e].todo = {}
  /\ LET n == task[e].at
         round == [task[e] EXCEPT !.pc = "commit", !.todo = Others(n)]
     IN \/ /\ task[e].yes >= Quorum
           /\ plane' = [plane EXCEPT ![n] = AfterCommit(@, e)]
           /\ task' = [task EXCEPT ![e] = EndsWith(round, Ended)]
           /\ Sends("commit", n, round, TaskOf(e))
        \/ /\ task[e].yes < Quorum
           /\ task' = [task EXCEPT ![e] = Ended]
           /\ UNCHANGED <<plane, net>>
  /\ UNCHANGED <<state, loop, faults, grants, elected, prepared>>

\* the answers to the committed entry are not looked at
CommitAnswered(e) ==
  /\ task[e].pc = "commit" /\ task[e].answered
  /\ task' = [task EXCEPT ![e] = EndsWith(Answered(@), Ended)]
  /\ Sends("commit", task[e].at, Answered(task[e]), TaskOf(e))
  /\ UNCHANGED <<state, plane, loop, faults, grants, elected, prepared>>

-------------------------------------------------------------------------------
(* The network, and the end of an owner's process                              *)

\* TtpInterSnClient::request fails or takes longer than INTER_SN_CMD_TIMEOUT: the caller goes on
\* to the next member
LoopGivesUp(n) ==
  /\ Waiting(loop[n]) /\ Fails
  /\ LET next == Answered(loop[n])
     IN /\ loop' = [loop EXCEPT ![n] = IF next.pc = "beat" THEN EndsWith(next, NoRound) ELSE next]
        /\ Sends(next.pc, n, next, LoopOf(n))
  /\ UNCHANGED <<state, plane, task, grants, elected, prepared>>
TaskGivesUp(e) ==
  /\ Waiting(task[e]) /\ Fails
  /\ LET next == Answered(task[e])
     IN /\ task' = [task EXCEPT ![e] = IF next.pc = "commit" THEN EndsWith(next, Ended) ELSE next]
        /\ Sends(next.pc, next.at, next, TaskOf(e))
  /\ UNCHANGED <<state, plane, loop, grants, elected, prepared>>

\* a request is lost once nobody waits for it
Abandoned(r) ==
  /\ \A n \in Members : ~ (r.by = LoopOf(n) /\ Awaits(loop[n], r))
  /\ \A e \in Entries : ~ (r.by = TaskOf(e) /\ Awaits(task[e], r))
Lose(r) ==
  /\ Abandoned(r)
  /\ net' = net \ {r}
  /\ UNCHANGED <<state, plane, loop, task, faults, grants, elected, prepared>>

\* an owner's process ends and starts again: nothing is persisted
Restart(n) ==
  /\ n \in Restarting /\ Fails
  /\ state' = [state EXCEPT ![n] = NewState(n)]
  /\ plane' = [plane EXCEPT ![n] = NewPlane]
  /\ loop' = [loop EXCEPT ![n] = NoRound]
  /\ task' = [e \in Entries |-> IF task[e].at = n THEN Ended ELSE task[e]]
  /\ UNCHANGED <<net, grants, elected, prepared>>

ElectionStep(n) ==
  \/ StartElection(n)
  \/ VoteAnswered(n)
  \/ ElectionEnds(n)
  \/ StartHeartbeat(n)
  \/ HeartbeatAnswered(n)

TaskStep(e) ==
  \/ \E n \in Members : Submit(e, n)
  \/ Prepare(e)
  \/ Forward(e)
  \/ ForwardFails(e)
  \/ PrepareAnswered(e)
  \/ Commit(e)
  \/ CommitAnswered(e)
  \/ TaskGivesUp(e)

Deliver(r) ==
  \/ ReceiveVote(r)
  \/ ReceiveHeartbeat(r)
  \/ ReceiveReplication(r)

Next ==
  \/ \E n \in Members : ElectionStep(n) \/ LoopGivesUp(n) \/ Restart(n)
  \/ \E e \in Entries : TaskStep(e)
  \/ \E r \in net : Deliver(r) \/ Lose(r)

Spec == Init /\ [][Next]_vars

(* The control loops go on, answers are looked at and requests arrive; when an  *)
(* election starts is left open.                                                *)
Fairness ==
  /\ \A n \in Members :
       WF_vars(VoteAnswered(n) \/ ElectionEnds(n) \/ StartHeartbeat(n) \/ HeartbeatAnswered(n))
  /\ \A c \in Callers : WF_vars(\E r \in net : r.by = c /\ Deliver(r))

FairSpec == Spec /\ Fairness

-------------------------------------------------------------------------------
(* Properties                                                                  *)

\* who voted for n in a term, and who accepted entry e from leader l before its commit
Voters(n, term) == {v \in Members : <<v, n, term>> \in grants}
Acceptors(l, term, e) == {m \in Members : <<m, l, term, e>> \in prepared}

\* An owner that leads does so in a term it was elected in, and the leader an owner knows was
\* elected in a term no later than its own: heartbeats and the hints in rejections never name an
\* owner that did not win an election. And whoever was elected has the votes of a majority of the
\* members (itself included) in that very term, although the votes come back one by one and the
\* voters, and the candidate, go on to other terms meanwhile.
LeaderWasElected ==
  /\ \A n \in Members :
       /\ state[n].role = "leader" => <<n, state[n].term>> \in elected
       /\ state[n].leader # NoMember => \E t \in 0..state[n].term : <<state[n].leader, t>> \in elected
  /\ \A w \in elected : Cardinality(Voters(w[1], w[2]) \cup {w[1]}) >= Quorum

\* "follower must not apply a replicated online-state entry before the leader's quorum commit": while
\* an entry is still being prepared it is in nobody's control plane, and one that is in somebody's was
\* accepted by a quorum of the members from one elected leader in one term.
AppliedByQuorum ==
  \A n \in Members : \A e \in ToSet(plane[n].log) :
    /\ task[e].pc \in {"commit", "end"}
    /\ \E w \in elected : Cardinality(Acceptors(w[1], w[2], e) \cup {w[1]}) >= Quorum

\* Two leaders do not last ("higher term heartbeat/vote response steps down stale leaders"): however
\* often owners come to lead at the same time, in whatever terms, the heartbeats they send each other
\* always bring the owners back to at most one leader.
SplitBrainHeals == []<>(Cardinality({n \in Members : state[n].role = "leader"}) <= 1)

\* "no vote -> voted_for candidate in term -> reject conflicting vote" (the design's owner election
\* vote): a member never grants the requests of two candidates in one term.
OneVotePerTerm ==
  \A g, h \in grants : g[1] = h[1] /\ g[3] = h[3] => g[2] = h[2]

\* No two owners win the same term.
OneLeaderPerTerm == \A w, x \in elected : w[2] = x[2] => w[1] = x[1]
===============================================================================
