--------------------------- MODULE RendezvousService ---------------------------
(* Rendezvous requests at an SN (sn/service/rendezvous_state.rs and            *)
(* process_rendezvous_request of sn/service/service.rs).                       *)
(*                                                                             *)
(* The first call for a key leads: it delivers the notify to the target, or    *)
(* relays it to the SN serving the target, and its answer is stored for the    *)
(* calls that repeat the request. A repeated call waits for the leader or is   *)
(* given the stored answer. An answer with predicted endpoints is good for the *)
(* calls that were waiting for it and never stored.                            *)
(*                                                                             *)
(* Time is abstract: an entry may expire, and a request leave its rate window, *)
(* at any moment; the leader's and the waiters' timeouts may end them at any   *)
(* moment.                                                                     *)
EXTENDS Naturals, FiniteSets, Functions

CONSTANTS
  Peers,
  Keys,              \* (initiator, seq, tunnel_id) of a request ...
  InitiatorOf,       \* ... and the initiator in it
  Calls,             \* concurrent calls of process_rendezvous_request
  MaxLive, MaxPerPair, MaxRate, MaxWaiters    \* the limits of rendezvous_state.rs

ASSUME InitiatorAssumption == InitiatorOf \in [Keys -> Peers]
ASSUME LimitsAssumption == MaxLive \in Nat /\ MaxPerPair \in Nat /\ MaxRate \in Nat /\ MaxWaiters \in Nat

VARIABLES
  entry,   \* key -> RendezvousEntry, for the keys that have one
  rate,    \* peer -> its requests inside the rate window
  call     \* call -> its place in process_rendezvous_request

serviceVars == <<entry, rate, call>>

\* a key used again with another target or prediction is a different request
RendezvousRequest == [key : Keys, to : Peers, predict : BOOLEAN]
Requests == {r \in RendezvousRequest : InitiatorOf[r.key] # r.to}

NoRequest == [key |-> "none", to |-> "none", predict |-> FALSE]

\* SnTunnelRendezvousResp as the target gave it, or failure(seq)
Response == {"success", "failure"}

\* RendezvousEntry; gone counts the waiters that have stopped listening
Entry == [request : Requests, expired : BOOLEAN, response : Response \cup {"none"},
          waiters : SUBSET Calls, gone : Nat]

\* heard: what a waiter's oneshot holds; stale: the entry a leader made is gone
Call == [pc : {"idle", "leading", "failing", "waiting"}, request : Requests \cup {NoRequest},
         heard : Response \cup {"none"}, stale : BOOLEAN]

NoCall == [pc |-> "idle", request |-> NoRequest, heard |-> "none", stale |-> FALSE]

ServiceTypeOK ==
  /\ \E ks \in SUBSET Keys : entry \in [ks -> Entry]
  /\ rate \in [Peers -> 0..MaxRate]
  /\ call \in [Calls -> Call]

ServiceInit ==
  /\ entry = [k \in {} |-> NoCall]
  /\ rate = [p \in Peers |-> 0]
  /\ call = [c \in Calls |-> NoCall]

-----------------------------------------------------------------------------
(* RendezvousState *)

LiveKeys == DOMAIN entry

\* what the calls see of it when the entries of keys ks are removed: their
\* waiters are sent an error, their leaders have lost their entry
Dropped(ks) ==
  LET told == UNION {entry[k].waiters : k \in ks}
  IN [c \in Calls |->
        CASE c \in told -> [call[c] EXCEPT !.heard = "failure"]
          [] c \notin told /\ call[c].pc \in {"leading", "failing"} /\ call[c].request.key \in ks ->
               [call[c] EXCEPT !.stale = TRUE]
          [] OTHER -> call[c]]

\* cleanup
Expired == {k \in LiveKeys : entry[k].expired}

PairCount(kept, r) ==
  Cardinality({k \in kept : InitiatorOf[k] = InitiatorOf[r.key] /\ entry[k].request.to = r.to})

\* the live-attempt limits and the rate window
OutOfLimit(kept, r) ==
  \/ Cardinality(kept) >= MaxLive
  \/ PairCount(kept, r) >= MaxPerPair
  \/ rate[InitiatorOf[r.key]] >= MaxRate

NewEntry(r) == [request |-> r, expired |-> FALSE, response |-> "none", waiters |-> {}, gone |-> 0]

Put(f, k, e) == [x \in DOMAIN f \cup {k} |-> IF x = k THEN e ELSE f[x]]

WaiterCount(e) == Cardinality(e.waiters) + e.gone

Same(kept, r) == r.key \in kept /\ entry[r.key].request = r

\* begin: the stored response is the answer
BeginCached(c, r, kept) ==
  /\ Same(kept, r) /\ entry[r.key].response # "none"
  /\ entry' = Restrict(entry, kept)
  /\ call' = Dropped(Expired)
  /\ UNCHANGED rate

\* begin: InFlight
BeginInFlight(c, r, kept) ==
  /\ Same(kept, r) /\ entry[r.key].response = "none"
  /\ WaiterCount(entry[r.key]) < MaxWaiters
  /\ entry' = [Restrict(entry, kept) EXCEPT ![r.key].waiters = @ \cup {c}]
  /\ call' = [Dropped(Expired) EXCEPT ![c] = [NoCall EXCEPT !.pc = "waiting", !.request = r]]
  /\ UNCHANGED rate

\* begin: New
BeginNew(c, r, kept) ==
  /\ r.key \notin kept /\ ~OutOfLimit(kept, r)
  /\ entry' = Put(Restrict(entry, kept), r.key, NewEntry(r))
  /\ rate' = [rate EXCEPT ![InitiatorOf[r.key]] = @ + 1]
  /\ call' = [Dropped(Expired) EXCEPT ![c] = [NoCall EXCEPT !.pc = "leading", !.request = r]]

\* begin: Conflict or OutOfLimit, a failure for the caller
BeginRefused(c, r, kept) ==
  /\ \/ r.key \in kept /\ entry[r.key].request # r
     \/ /\ Same(kept, r) /\ entry[r.key].response = "none"
        /\ WaiterCount(entry[r.key]) >= MaxWaiters
     \/ r.key \notin kept /\ OutOfLimit(kept, r)
  /\ entry' = Restrict(entry, kept)
  /\ call' = Dropped(Expired)
  /\ UNCHANGED rate

Begin(c, r) ==
  /\ call[c].pc = "idle"
  /\ LET kept == LiveKeys \ Expired
     IN \/ BeginCached(c, r, kept) \/ BeginInFlight(c, r, kept)
        \/ BeginNew(c, r, kept) \/ BeginRefused(c, r, kept)

\* what cache_response keeps for later calls
Stored(r, response) == IF r.predict THEN "failure" ELSE response

\* the leader has the target's response and stores it
LeaderAnswers(c, response) ==
  LET r == call[c].request
  IN /\ call[c].pc = "leading" /\ Same(LiveKeys \ Expired, r)
     /\ entry' = [entry EXCEPT ![r.key].response = Stored(r, response), ![r.key].waiters = {},
                               ![r.key].gone = 0]
     /\ call' = [d \in Calls |->
                   CASE d = c -> NoCall
                     [] d # c /\ d \in entry[r.key].waiters -> [call[d] EXCEPT !.heard = response]
                     [] OTHER -> call[d]]
     /\ UNCHANGED rate

\* ... but the entry has expired, is gone, or is another request's
LeaderTooLate(c) ==
  LET k == call[c].request.key
      late == {k} \cap Expired
  IN /\ call[c].pc = "leading" /\ ~Same(LiveKeys \ Expired, call[c].request)
     /\ entry' = Restrict(entry, LiveKeys \ late)
     /\ call' = [Dropped(late) EXCEPT ![c].pc = "failing"]
     /\ UNCHANGED rate

\* RendezvousLeaderGuard::drop: fail_unanswered
FailUnanswered(c) ==
  LET r == call[c].request
      failed == IF Same(LiveKeys, r) /\ entry[r.key].response = "none" THEN {r.key} ELSE {}
  IN /\ entry' = Restrict(entry, LiveKeys \ failed)
     /\ call' = [Dropped(failed) EXCEPT ![c] = NoCall]
     /\ UNCHANGED rate

\* the target cannot be reached, the 10 s are over or the call is dropped; or
\* the response could not be stored
LeaderFails(c) == call[c].pc \in {"leading", "failing"} /\ FailUnanswered(c)

\* await_inflight_rendezvous
WaiterHears(c) ==
  /\ call[c].pc = "waiting" /\ call[c].heard # "none"
  /\ call' = [call EXCEPT ![c] = NoCall]
  /\ UNCHANGED <<entry, rate>>

\* the receiver is dropped, its sender stays in the entry
WaiterTimeout(c) ==
  LET k == call[c].request.key
  IN /\ call[c].pc = "waiting" /\ call[c].heard = "none"
     /\ entry' = [entry EXCEPT ![k].waiters = @ \ {c}, ![k].gone = @ + 1]
     /\ call' = [call EXCEPT ![c] = NoCall]
     /\ UNCHANGED rate

\* Mutant: the waiters of the removed entries are not told
Forgotten(ks) == call

\* what the waiters hear when a peer disconnects
PeerDropped(ks) == Dropped(ks)

\* remove_peer, from on_peer_disconnected
RemovePeer(p) ==
  LET ks == {k \in LiveKeys : InitiatorOf[k] = p \/ entry[k].request.to = p}
  IN /\ entry' = Restrict(entry, LiveKeys \ ks)
     /\ call' = PeerDropped(ks)
     /\ rate' = [rate EXCEPT ![p] = 0]

Expire(k) ==
  /\ k \in LiveKeys /\ ~entry[k].expired
  /\ entry' = [entry EXCEPT ![k].expired = TRUE]
  /\ UNCHANGED <<rate, call>>

\* a timestamp falls out of the rate window
RateAges(p) ==
  /\ rate[p] > 0
  /\ rate' = [rate EXCEPT ![p] = @ - 1]
  /\ UNCHANGED <<entry, call>>

ServiceNext ==
  \/ \E c \in Calls :
       \/ \E r \in Requests : Begin(c, r)
       \/ \E response \in Response : LeaderAnswers(c, response)
       \/ LeaderTooLate(c) \/ LeaderFails(c)
       \/ WaiterHears(c) \/ WaiterTimeout(c)
  \/ \E p \in Peers : RemovePeer(p) \/ RateAges(p)
  \/ \E k \in Keys : Expire(k)

ServiceSpec == ServiceInit /\ [][ServiceNext]_serviceVars

-----------------------------------------------------------------------------
(* Properties *)

\* A repeated call that waits will be told: it is listed in the entry of the
\* request it repeats, whatever was removed, expired, replaced or answered
\* since, and an entry without an answer has its leader, which will answer or
\* remove it. And just one, unless the entry behind an earlier one is gone: a
\* repeated call does not disturb the target
WaiterIsTold ==
  /\ \A c \in Calls : call[c].pc = "waiting" /\ call[c].heard = "none" =>
       /\ call[c].request.key \in LiveKeys
       /\ c \in entry[call[c].request.key].waiters
  /\ \A k \in LiveKeys : entry[k].response = "none" =>
       LET leaders == {c \in Calls : /\ call[c].pc = "leading" /\ ~call[c].stale
                                     /\ call[c].request.key = k}
       IN /\ Cardinality(leaders) = 1
          /\ \A c \in leaders : call[c].request = entry[k].request

=============================================================================
