------------------------------ MODULE SnRelay ------------------------------
(***************************************************************************)
(* How a request about one peer, the target, finds the SN that serves it.  *)
(* Serving SNs publish leases for the target to the owners of its route    *)
(* (sn/directory/client.rs); an owner keeps a route while the session of   *)
(* the serving SN is online there (store.rs, route.rs).  An SN that gets a *)
(* call, a query or a rendezvous for the target answers it from its own    *)
(* registrations, or asks the owners for leases and tries their SNs one by *)
(* one (sn/service/service.rs).                                            *)
(*                                                                         *)
(* Left out: the contents of the answers (endpoints, certificates, NAT     *)
(* profiles), wall-clock time (leases, sessions and health lapse at any    *)
(* moment) and the score that orders the owners (they are asked in any     *)
(* order).  All calls are copies of one call: same caller, same tunnel id. *)
(***************************************************************************)
EXTENDS Naturals, FiniteSets, Sequences

CONSTANTS Sns,            \* serving SNs; P2pIds, so they are ordered
          Owners,         \* the owner set of the target
          Jobs,           \* requests for the target ...
          Receiver,       \* ... and the SN that receives each
          Settings,       \* which requests come, who publishes, healthy owners
          MaxSequence,    \* bound: sequences a serving SN publishes
          MaxLinks,       \* bound: command streams of the target to an SN
          MaxEvents       \* bound: registrations, losses, lapses, crashes

Kinds == {"call", "query", "rendezvous"}

ASSUME RelayAssumption ==
    /\ Sns \subseteq Nat /\ IsFiniteSet(Sns)
    /\ Receiver \in [Jobs -> Sns]
    /\ Settings \subseteq [kind : [Jobs -> Kinds \cup {"none"}], publishers : SUBSET Sns,
                           owners : SUBSET Owners]
    /\ {MaxSequence, MaxLinks, MaxEvents} \subseteq Nat

VARIABLES
    registered, \* SNs whose peer manager holds the target
    links,      \* links[s]: the target's live command streams to s
    caller,     \* SNs whose peer manager holds the caller
    online,     \* online[o]: SNs whose session is online at owner o
    routes,     \* routes[o][s]: sequence of the target's route, 0 if none
    up,         \* owners that are reachable
    fresh,      \* fresh[s]: owners s's directory client holds to be healthy
    publish,    \* publish[s]: the publication s is carrying out
    stray,      \* publications given up on that may still reach their owner
    acked,      \* acked[o][s]: what o acknowledged in this session of s
    stub,       \* SNs whose call stub holds the call
    told,       \* told[s]: how often s sent SnCalled to the target
    late,       \* late relays: SNs a timed-out copy of the call still reaches
    request,    \* request[r]: the state of r's handler
    steady,     \* steady[r]: routes to the target open ever since r began
    events      \* events so far, at most MaxEvents

directoryVars == <<online, routes, up, fresh, publish, stray, acked>>
peerVars == <<registered, links, caller>>
relayVars == <<peerVars, directoryVars, stub, told, late, request, steady, events>>

Local == "local"    \* the route of a request whose SN serves the target itself

\* A serving SN between publications; step "off" is one that never publishes.
Idle(step) == [step |-> step, seq |-> 0, left |-> {}, at |-> Local]

NewRequest(kind) ==
    [kind |-> kind, step |-> IF kind = "none" THEN "done" ELSE "new", left |-> {}, found |-> {}, queue |-> <<>>,
     at |-> 0, tries |-> 0, heard |-> FALSE, answer |-> "none"]

(***************************************************************************)
(* The routes to the target: through owner o to s, or at the SN itself.    *)
(***************************************************************************)
Route == (Owners \cup {Local}) \X Sns

Open(r, p) ==
    /\ p[2] \in registered /\ links[p[2]] > 0
    /\ IF p[1] = Local
       THEN p[2] = Receiver[r]
       ELSE /\ p[2] # Receiver[r]
            /\ p[1] \in up /\ p[1] \in fresh[Receiver[r]]
            /\ p[2] \in online[p[1]] /\ routes[p[1]][p[2]] > 0

Through(s) == {p \in Route : p[2] = s}
Via(o) == {p \in Route : p[1] = o}

(***************************************************************************)
(* Conjunct of every action: the routes open ever since r began, less the  *)
(* ones r itself found broken.                                             *)
(***************************************************************************)
Watch(r, broken) ==
    steady' = [q \in Jobs |->
        CASE request[q].step = "new" /\ request'[q].step # "new" ->
                {p \in Route : Open(q, p)}
          [] OTHER -> {p \in steady[q] : Open(q, p)'}
                        \ (IF q = r THEN broken ELSE {})]

Unbroken == Watch(CHOOSE r \in Jobs : TRUE, {})

Happens == events < MaxEvents /\ events' = events + 1

RelayInit ==
    /\ registered \in SUBSET Sns
    /\ links = [s \in Sns |-> IF s \in registered THEN 1 ELSE 0]
    /\ caller \in SUBSET {Receiver[r] : r \in Jobs}
    /\ online = [o \in Owners |-> Sns]
    /\ routes \in [Owners -> [Sns -> {0, 1}]]
    /\ up = Owners
    /\ stray = {}
    /\ acked = [o \in Owners |-> [s \in Sns |-> 0]]
    /\ stub = {}
    /\ told = [s \in Sns |-> 0]
    /\ late = {}
    /\ \E setting \in Settings :
         /\ request = [r \in Jobs |-> NewRequest(setting.kind[r])]
         /\ fresh = [s \in Sns |-> setting.owners]
         /\ publish = [s \in Sns |-> Idle(IF s \in setting.publishers THEN "idle" ELSE "off")]
    /\ steady = [r \in Jobs |-> {}]
    /\ events = 0

(***************************************************************************)
(* The target at an SN.  A report registers it; its streams fail one by    *)
(* one; when the last is gone the command server says so.                  *)
(***************************************************************************)
Report(s) ==
    /\ Happens
    /\ links[s] < MaxLinks
    /\ links' = [links EXCEPT ![s] = @ + 1]
    /\ registered' = registered \cup {s}
    /\ UNCHANGED <<caller, directoryVars, stub, told, late, request>>
    /\ Unbroken

LinkLost(s) ==
    /\ Happens
    /\ links[s] > 0
    /\ links' = [links EXCEPT ![s] = @ - 1]
    /\ UNCHANGED <<registered, caller, directoryVars, stub, told, late, request>>
    /\ Unbroken

OnPeerDisconnected(s) ==
    /\ s \in registered /\ links[s] = 0
    /\ registered' = registered \ {s}
    /\ UNCHANGED <<links, caller, directoryVars, stub, told, late, request, events>>
    /\ Unbroken

(***************************************************************************)
(* The owners' side: sessions begin and end as the owners commit, routes   *)
(* live in memory and are lost with the process.                           *)
(***************************************************************************)
SessionRenewed(o, s) ==
    /\ Happens
    /\ o \in up /\ s \notin online[o]
    /\ online' = [online EXCEPT ![o] = @ \cup {s}]
    /\ UNCHANGED <<peerVars, routes, up, fresh, publish, stray, acked, stub, told, late, request>>
    /\ Unbroken

SessionEnds(o, s) ==
    /\ Happens
    /\ s \in online[o]
    /\ online' = [online EXCEPT ![o] = @ \ {s}]
    /\ acked' = [acked EXCEPT ![o][s] = 0]
    /\ UNCHANGED <<peerVars, routes, up, fresh, publish, stray, stub, told, late, request>>
    /\ Unbroken

OwnerCrashes(o) ==
    /\ Happens
    /\ o \in up
    /\ up' = up \ {o}
    /\ online' = [online EXCEPT ![o] = {}]
    /\ routes' = [routes EXCEPT ![o] = [s \in Sns |-> 0]]
    /\ acked' = [acked EXCEPT ![o] = [s \in Sns |-> 0]]
    /\ UNCHANGED <<peerVars, fresh, publish, stray, stub, told, late, request>>
    /\ Unbroken

OwnerRestarts(o) ==
    /\ o \notin up
    /\ up' = up \cup {o}
    /\ UNCHANGED <<peerVars, online, routes, fresh, publish, stray, acked, stub, told, late,
                   request, events>>
    /\ Unbroken

LastWins(route, seq) == seq

\* PeerRouteStore::put_route: an older sequence never replaces a newer one.
NewestOf(route, seq) == IF route > seq THEN route ELSE seq

\* PeerRouteStore::query: routes whose session is not online are dropped.
Retained(o) == [s \in Sns |-> IF s \in online[o] THEN routes[o][s] ELSE 0]

(***************************************************************************)
(* A serving SN's directory client.                                        *)
(***************************************************************************)
\* owner_set_at: the members of the owner set the client holds healthy.
OwnerSet(s) == fresh[s]

Refreshed(s, o) == [fresh EXCEPT ![s] = @ \cup {o}]

\* No publication or answer within the health TTL.
HealthLapses(s, o) ==
    /\ Happens
    /\ o \in fresh[s]
    /\ fresh' = [fresh EXCEPT ![s] = @ \ {o}]
    /\ UNCHANGED <<peerVars, online, routes, up, publish, stray, acked, stub, told, late, request>>
    /\ Unbroken

BeginPublish(s) ==
    /\ publish[s].step = "idle"
    /\ \E seq \in {publish[s].seq, publish[s].seq + 1} \cap 1..MaxSequence :
         publish' = [publish EXCEPT ![s] =
            [step |-> "asking", seq |-> seq, left |-> OwnerSet(s), at |-> Local]]
    /\ UNCHANGED <<peerVars, online, routes, up, fresh, stray, acked, stub, told, late, request,
                   events>>
    /\ Unbroken

\* put_route's first lock: is the session online?  If not, the owner says so.
PublishArrives(s, o) ==
    /\ publish[s].step = "asking" /\ o \in publish[s].left /\ o \in up
    /\ IF s \in online[o]
       THEN /\ publish' = [publish EXCEPT ![s].step = "checked", ![s].at = o]
            /\ UNCHANGED fresh
       ELSE /\ publish' = [publish EXCEPT ![s].left = @ \ {o}]
            /\ fresh' = Refreshed(s, o)
    /\ UNCHANGED <<peerVars, online, routes, up, stray, acked, stub, told, late, request, events>>
    /\ Unbroken

\* put_route's second lock.
Store(s) ==
    LET o == publish[s].at
        seq == publish[s].seq
    IN /\ publish[s].step = "checked" /\ o \in up
       /\ routes' = [routes EXCEPT ![o][s] = NewestOf(@, seq)]
       /\ acked' = IF s \in online[o] /\ routes[o][s] <= seq
                   THEN [acked EXCEPT ![o][s] = seq] ELSE acked
       /\ publish' = [publish EXCEPT ![s].step = "asking", ![s].left = @ \ {o},
                                     ![s].at = Local]
       /\ UNCHANGED <<peerVars, online, up, stray, stub, told, late, request, events>>

PublishStored(s) ==
    /\ Store(s)
    /\ fresh' = Refreshed(s, publish[s].at)
    /\ Unbroken

\* The route is stored and the answer is lost.
AnswerLost(s) == Store(s) /\ UNCHANGED fresh /\ Unbroken

\* The owner cannot be reached, crashed between the two locks, or took too
\* long: then the publication may still arrive.
PublishFails(s, o) ==
    /\ \/ /\ publish[s].step = "asking" /\ o \in publish[s].left
          /\ stray' \in {stray, stray \cup {<<o, s, publish[s].seq>>}}
       \/ /\ publish[s].step = "checked" /\ o = publish[s].at /\ o \notin up
          /\ UNCHANGED stray
    /\ publish' = [publish EXCEPT ![s].step = "asking", ![s].left = @ \ {o},
                                  ![s].at = Local]
    /\ UNCHANGED <<peerVars, online, routes, up, fresh, acked, stub, told, late, request,
                   events>>
    /\ Unbroken

StrayArrives(o, s, seq) ==
    /\ <<o, s, seq>> \in stray
    /\ stray' = stray \ {<<o, s, seq>>}
    /\ routes' = IF o \in up /\ s \in online[o]
                 THEN [routes EXCEPT ![o][s] = NewestOf(@, seq)] ELSE routes
    /\ UNCHANGED <<peerVars, online, up, fresh, publish, acked, stub, told, late, request,
                   events>>
    /\ Unbroken

EndPublish(s) ==
    /\ publish[s].step = "asking" /\ publish[s].left = {}
    /\ publish' = [publish EXCEPT ![s].step = "idle"]
    /\ UNCHANGED <<peerVars, online, routes, up, fresh, stray, acked, stub, told, late,
                   request, events>>
    /\ Unbroken

(***************************************************************************)
(* A request at the SN that receives it, and the delivery at the SN that   *)
(* has the target: the receiving one, or the one a request is relayed to.  *)
(***************************************************************************)
Answered(r, answer) == [request EXCEPT ![r].step = "done", ![r].answer = answer]

FirstLeaseOnly(r) == [request EXCEPT ![r].step = "relay", ![r].queue = <<>>, ![r].at = 0]

\* The next lease of the list; a relay that failed is only logged.
NextLease(r) == [request EXCEPT ![r].step = "relay", ![r].queue = Tail(@), ![r].at = 0]

\* A delivery that ends without an answer: an error at the receiving SN, the
\* next lease when the request was relayed.
Undelivered(r) ==
    IF request[r].at = Receiver[r] THEN Answered(r, "error") ELSE NextLease(r)

\* local_peer_detail, find_peer: the peer manager holds the target.
ServedAt(s) == s \in registered

\* query_serving_leases: the healthy owners are asked.
Lookup(r) == [request EXCEPT ![r].step = "lookup", ![r].left = OwnerSet(Receiver[r]),
                             ![r].heard = ServedAt(Receiver[r])]

\* The target is delivered to at s.
Delivering(r, s) == [request EXCEPT ![r].step = "found", ![r].at = s]

\* handle_call, handle_query_sn and process_rendezvous_request up to the
\* first await: is the target registered here?  A query always asks on.
Receive(r) ==
    LET s == Receiver[r]
    IN /\ request[r].step = "new"
       /\ request' = CASE request[r].kind = "query" -> Lookup(r)
                       [] request[r].kind = "call" /\ s \notin caller -> Answered(r, "refused")
                       [] ServedAt(s) -> Delivering(r, s)
                       [] OTHER -> Lookup(r)
       /\ UNCHANGED <<peerVars, directoryVars, stub, told, late, events>>
       /\ Watch(r, {})

\* query_owner answered.
OwnerAnswers(r, o) ==
    LET s == Receiver[r]
        leases == {[sn |-> t, seq |-> Retained(o)[t]] :
                      t \in {t \in Sns : Retained(o)[t] > 0}}
    IN /\ request[r].step = "lookup" /\ o \in request[r].left /\ o \in up
       /\ routes' = [routes EXCEPT ![o] = Retained(o)]
       /\ fresh' = Refreshed(s, o)
       /\ request' = [request EXCEPT ![r].left = @ \ {o}, ![r].found = @ \cup leases]
       /\ UNCHANGED <<peerVars, online, up, publish, stray, acked, stub, told, late, events>>
       /\ Watch(r, {})

OwnerFails(r, o) ==
    /\ request[r].step = "lookup" /\ o \in request[r].left
    /\ request' = [request EXCEPT ![r].left = @ \ {o}]
    /\ UNCHANGED <<peerVars, directoryVars, stub, told, late, events>>
    /\ Watch(r, Via(o))

\* sort_by sequence, newest first, then by SN; dedup_by drops a lease only
\* when the one before it is of the same SN.
Newer(x, y) == x.seq > y.seq \/ (x.seq = y.seq /\ x.sn < y.sn)
NewestFirst(leases) ==
    [i \in 1..Cardinality(leases) |->
        CHOOSE x \in leases : Cardinality({y \in leases : Newer(y, x)}) = i - 1]
Deduped(leases) ==
    LET kept(i) == i = 1 \/ leases[i].sn # leases[i - 1].sn
    IN [i \in 1..Cardinality({j \in DOMAIN leases : kept(j)}) |->
           leases[CHOOSE j \in DOMAIN leases :
                    kept(j) /\ Cardinality({k \in 1..j : kept(k)}) = i].sn]

LookupEnds(r) ==
    /\ request[r].step = "lookup" /\ request[r].left = {}
    /\ request' = [request EXCEPT ![r].step = "relay", ![r].found = {},
                       ![r].queue = Deduped(NewestFirst(request[r].found))]
    /\ UNCHANGED <<peerVars, directoryVars, stub, told, late, events>>
    /\ Watch(r, {})

\* The list is used up.  A query answers what it heard of here and elsewhere.
Exhausted(r) ==
    /\ request[r].step = "relay" /\ request[r].queue = <<>>
    /\ request' = Answered(r, IF request[r].heard THEN "ok" ELSE "notfound")
    /\ UNCHANGED <<peerVars, directoryVars, stub, told, late, events>>
    /\ Watch(r, {})

\* The SN's own lease is skipped.
SkipOwn(r) ==
    /\ request[r].step = "relay" /\ request[r].queue # <<>>
    /\ Head(request[r].queue) = Receiver[r]
    /\ request' = NextLease(r)
    /\ UNCHANGED <<peerVars, directoryVars, stub, told, late, events>>
    /\ Watch(r, {})

\* query_detail_from_sn, relay_call_from_sn or relay_rendezvous_from_sn at
\* the SN of a lease.
Handled(r, s) ==
    CASE request[r].kind = "query" ->
            [NextLease(r) EXCEPT ![r].heard = @ \/ ServedAt(s)]
      [] request[r].kind # "query" /\ ServedAt(s) -> Delivering(r, s)
      [] OTHER -> NextLease(r)

\* The next lease, of another SN: the request is sent to that one.
Relaying(r) == /\ request[r].step = "relay" /\ request[r].queue # <<>>
               /\ Head(request[r].queue) # Receiver[r]

Relay(r) ==
    /\ Relaying(r)
    /\ request' = Handled(r, Head(request[r].queue))
    /\ UNCHANGED <<peerVars, directoryVars, stub, told, late, events>>
    /\ Watch(r, {})

\* The other SN's validators refuse the connection or the command.
RelayRefused(r) ==
    /\ Relaying(r)
    /\ request' = NextLease(r)
    /\ UNCHANGED <<peerVars, directoryVars, stub, told, late, events>>
    /\ Watch(r, Through(Head(request[r].queue)))

\* The relay is lost, or takes too long: then it may still arrive.
RelayFails(r) ==
    /\ Relaying(r)
    /\ request' = NextLease(r)
    /\ late' \in {late} \cup (IF request[r].kind = "call"
                               THEN {late \cup {Head(request[r].queue)}} ELSE {})
    /\ UNCHANGED <<peerVars, directoryVars, stub, told, events>>
    /\ Watch(r, Through(Head(request[r].queue)))

(***************************************************************************)
(* A call at the SN that has the target.  The stub is taken before the     *)
(* send; a target that can be reached directly is not told.                *)
(***************************************************************************)
EveryCopy(s) == TRUE
FirstCopy(s) == s \notin stub

Called(r) ==
    LET s == request[r].at
    IN /\ request[r].kind = "call" /\ request[r].step = "found"
       /\ stub' = stub \cup {s}
       /\ request' \in {Answered(r, "ok")}
                        \cup (IF FirstCopy(s)
                              THEN {[request EXCEPT ![r].step = "sending"]} ELSE {})
       /\ UNCHANGED <<peerVars, directoryVars, told, late, events>>
       /\ Watch(r, {})

SendDone(r) ==
    LET s == request[r].at
    IN /\ request[r].step = "sending"
       /\ links[s] > 0
       /\ told' = [told EXCEPT ![s] = @ + 1]
       /\ request' = Answered(r, "ok")
       /\ UNCHANGED <<peerVars, directoryVars, stub, late, events>>
       /\ Watch(r, {})

SendFails(r) ==
    /\ request[r].step = "sending"
    /\ request' = Undelivered(r)
    /\ UNCHANGED <<peerVars, directoryVars, stub, told, late, events>>
    /\ Watch(r, Through(request[r].at))

\* A copy given up on arrives after all.
LateRelay(s) ==
    /\ s \in late
    /\ late' = late \ {s}
    /\ stub' = IF s \in registered THEN stub \cup {s} ELSE stub
    /\ told' \in {told} \cup (IF s \in registered /\ FirstCopy(s) /\ links[s] > 0
                              THEN {[told EXCEPT ![s] = @ + 1]} ELSE {})
    /\ UNCHANGED <<peerVars, directoryVars, request, events>>
    /\ Unbroken

(***************************************************************************)
(* deliver_rendezvous_to_local_peer: the target is asked over its command  *)
(* streams in turn; a stream that fails is shut down.                      *)
(***************************************************************************)
RendezvousBegins(r) ==
    LET s == request[r].at
    IN /\ request[r].kind = "rendezvous" /\ request[r].step = "found"
       /\ request' = IF links[s] = 0 THEN Undelivered(r)
                     ELSE [request EXCEPT ![r].step = "asking", ![r].tries = links[s]]
       /\ UNCHANGED <<peerVars, directoryVars, stub, told, late, events>>
       /\ Watch(r, {})

TargetAnswers(r) ==
    /\ request[r].step = "asking" /\ links[request[r].at] > 0
    /\ request' = Answered(r, "ok")
    /\ UNCHANGED <<peerVars, directoryVars, stub, told, late, events>>
    /\ Watch(r, {})

\* The answer is not valid, or an address in it is not the target's.
AnswerRejected(r) ==
    /\ request[r].step = "asking" /\ links[request[r].at] > 0
    /\ request' = Undelivered(r)
    /\ UNCHANGED <<peerVars, directoryVars, stub, told, late, events>>
    /\ Watch(r, Through(request[r].at))

StreamFails(r) ==
    LET s == request[r].at
    IN /\ request[r].step = "asking"
       /\ links' = [links EXCEPT ![s] = IF @ > 0 THEN @ - 1 ELSE 0]
       /\ request' = IF request[r].tries = 1 THEN Undelivered(r)
                     ELSE [request EXCEPT ![r].tries = @ - 1]
       /\ UNCHANGED <<registered, caller, directoryVars, stub, told, late, events>>
       /\ Watch(r, Through(s))

\* The ten seconds of process_rendezvous_request, wherever it waits.
RendezvousTimeout(r) ==
    /\ request[r].kind = "rendezvous" /\ request[r].step \notin {"new", "done"}
    /\ request' = Answered(r, "error")
    /\ UNCHANGED <<peerVars, directoryVars, stub, told, late, events>>
    /\ Watch(r, {})

PeerStep(s) == Report(s) \/ LinkLost(s) \/ OnPeerDisconnected(s) \/ LateRelay(s)

OwnerStep(o) ==
    \/ OwnerCrashes(o) \/ OwnerRestarts(o)
    \/ \E s \in Sns : \/ SessionRenewed(o, s) \/ SessionEnds(o, s)
                      \/ \E seq \in 1..MaxSequence : StrayArrives(o, s, seq)

PublishStep(s) ==
    \/ BeginPublish(s) \/ PublishStored(s) \/ AnswerLost(s) \/ EndPublish(s)
    \/ \E o \in Owners : PublishArrives(s, o) \/ PublishFails(s, o) \/ HealthLapses(s, o)

RequestStep(r) ==
    \/ Receive(r) \/ LookupEnds(r) \/ Exhausted(r) \/ SkipOwn(r) \/ Relay(r)
    \/ RelayRefused(r) \/ RelayFails(r)
    \/ Called(r) \/ SendDone(r) \/ SendFails(r)
    \/ RendezvousBegins(r) \/ TargetAnswers(r) \/ AnswerRejected(r) \/ StreamFails(r)
    \/ RendezvousTimeout(r)
    \/ \E o \in Owners : OwnerAnswers(r, o) \/ OwnerFails(r, o)

RelayNext ==
    \/ \E s \in Sns : PeerStep(s) \/ PublishStep(s)
    \/ \E o \in Owners : OwnerStep(o)
    \/ \E r \in Jobs : RequestStep(r)

RelaySpec == RelayInit /\ [][RelayNext]_relayVars

\* A serving SN goes on publishing, an owner that crashed comes back.
RepublishSpec ==
    /\ RelaySpec
    /\ \A s \in Sns : /\ WF_relayVars(BeginPublish(s))
                      /\ WF_relayVars(PublishStored(s))
                      /\ WF_relayVars(EndPublish(s))
                      /\ \A o \in Owners : WF_relayVars(PublishArrives(s, o))
    /\ \A o \in Owners : WF_relayVars(OwnerRestarts(o))

(***************************************************************************)
(* A request is answered "not found" only when no route to the target was  *)
(* open the whole time: a stale lease, an owner that fails or a relay that *)
(* errs never hides an SN that serves the target (service.rs:793-836,      *)
(* 985-1026, 1742-1808).                                                   *)
(***************************************************************************)
NotFoundMeansUnserved ==
    \A r \in Jobs : request[r].answer = "notfound" => steady[r] = {}

(***************************************************************************)
(* However often a call is received, retried or relayed, an SN tells the   *)
(* target of it at most once (call_stub.rs:27-34).                         *)
(***************************************************************************)
CalledOnce == \A s \in Sns : told[s] <= 1

(***************************************************************************)
(* A route an owner acknowledged stays, in that version or a newer one,    *)
(* for as long as the session of its SN is online there (route.rs:48-79).  *)
(***************************************************************************)
AckedRouteKept ==
    \A o \in Owners, s \in Sns : routes[o][s] >= acked[o][s]

(***************************************************************************)
(* An owner whose health lapsed returns to the owner set of a serving SN   *)
(* once it answers again, if the SN keeps publishing and no publication to *)
(* the owner fails any more (membership.rs:170-201, client.rs:169-194).    *)
(***************************************************************************)
OwnerComesBack ==
    \A s \in Sns, o \in Owners :
        <>[][~(PublishFails(s, o) \/ AnswerLost(s))]_relayVars => []<>(o \in fresh[s])
=============================================================================
