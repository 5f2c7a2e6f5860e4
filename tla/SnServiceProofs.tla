--------------------------- MODULE SnServiceProofs ---------------------------
(***************************************************************************)
(* Theorems about the SN service: the calls that repeat a rendezvous       *)
(* request, the routes the owners acknowledged, the answer "not found",    *)
(* the calls a target hears of, and the registration of a client.          *)
(***************************************************************************)
EXTENDS RendezvousService, SnRelay, SnRegistration, FiniteSetTheorems, TLAPS

-----------------------------------------------------------------------------
(***************************************************************************)
(* Rendezvous requests, for any limits, keys and calls.  The waiters of an *)
(* entry are the calls that wait for it, and the call that made an entry   *)
(* leads it until the entry goes; a call that has lost its entry is stale. *)
(* The invariant is over values, so that what begin does after its cleanup *)
(* is a second step.                                                       *)
(***************************************************************************)

Leads(ca, c) == ca[c].pc = "leading" /\ ~ca[c].stale

EntryOK(en, ca, k) ==
  /\ en[k].request.key = k
  /\ \A c \in en[k].waiters : ca[c].pc = "waiting" /\ ca[c].heard = "none" /\ ca[c].request.key = k
  /\ en[k].response = "none" => \E c \in Calls : Leads(ca, c) /\ ca[c].request = en[k].request

CallOK(en, ca, c) ==
  /\ ca[c].pc = "waiting" /\ ca[c].heard = "none" =>
       ca[c].request.key \in DOMAIN en /\ c \in en[ca[c].request.key].waiters
  /\ Leads(ca, c) =>
       ca[c].request.key \in DOMAIN en /\ en[ca[c].request.key].request = ca[c].request

BooksOK(en, ca) ==
  /\ en \in [DOMAIN en -> Entry] /\ ca \in [Calls -> Call]
  /\ \A k \in DOMAIN en : EntryOK(en, ca, k)
  /\ \A c \in Calls : CallOK(en, ca, c)
  /\ \A c, d \in Calls : Leads(ca, c) /\ Leads(ca, d) /\ ca[c].request.key = ca[d].request.key => c = d

ServiceInv == BooksOK(entry, call)

LEMMA BooksCommit ==
  ASSUME NEW en, NEW ca, BooksOK(en, ca), entry' = en, call' = ca
  PROVE  ServiceInv'
BY DEF ServiceInv, BooksOK, EntryOK, CallOK, Leads

\* What the calls see when entries go
LEMMA DroppedFacts ==
  ASSUME call \in [Calls -> Call], NEW ks, NEW d, d = Dropped(ks), NEW c \in Calls
  PROVE  LET hears == c \in UNION {entry[k].waiters : k \in ks} IN
         /\ d[c] \in Call /\ d[c].pc = call[c].pc /\ d[c].request = call[c].request
         /\ IF hears THEN d[c].heard = "failure" ELSE d[c].heard = call[c].heard
         /\ IF ~hears /\ call[c].pc \in {"leading", "failing"} /\ call[c].request.key \in ks
              THEN d[c].stale ELSE d[c].stale = call[c].stale
<1> DEFINE hears == c \in UNION {entry[k].waiters : k \in ks}
           lost == ~hears /\ call[c].pc \in {"leading", "failing"} /\ call[c].request.key \in ks
<1>1. PICK x \in Call : x = call[c]
  BY Zenon
<1>2. PICK y, z : y = [x EXCEPT !.heard = "failure"] /\ z = [x EXCEPT !.stale = TRUE]
  BY Zenon
<1>3. y \in Call /\ y.pc = x.pc /\ y.request = x.request /\ y.heard = "failure" /\ y.stale = x.stale
  BY Zenon, <1>2 DEF Call, Response
<1>4. z \in Call /\ z.pc = x.pc /\ z.request = x.request /\ z.heard = x.heard /\ z.stale = TRUE
  BY Zenon, <1>2 DEF Call
<1>5. d[c] = IF hears THEN y ELSE IF lost THEN z ELSE x
  BY Zenon, <1>1, <1>2 DEF Dropped
<1> QED BY Zenon, <1>1, <1>3, <1>4, <1>5

LEMMA DroppedCalls ==
  ASSUME call \in [Calls -> Call], NEW ks
  PROVE  Dropped(ks) \in [Calls -> Call]
<1>1. PICK d : d = Dropped(ks)
  BY Zenon
<1>2. \A c \in Calls : d[c] \in Call
  BY Zenon, <1>1, DroppedFacts
<1>3. d = [c \in Calls |-> d[c]]
  BY Zenon, <1>1 DEF Dropped
<1> QED BY Zenon, <1>1, <1>2, <1>3

\* Entries go, with what their waiters and leaders see of it
LEMMA DropOK ==
  ASSUME ServiceInv, NEW ks, ks \subseteq LiveKeys,
         NEW en, en = Restrict(entry, LiveKeys \ ks), NEW ca, ca = Dropped(ks)
  PROVE  BooksOK(en, ca)
<1>1. entry \in [DOMAIN entry -> Entry] /\ call \in [Calls -> Call]
  BY Zenon DEF ServiceInv, BooksOK
<1>2. DOMAIN en = (DOMAIN entry) \ ks /\ \A k \in DOMAIN en : en[k] = entry[k]
  BY Zenon DEF Restrict, LiveKeys
<1>3. en \in [DOMAIN en -> Entry]
  BY Zenon, <1>1, <1>2 DEF Restrict
<1>4. ca \in [Calls -> Call]
  BY Zenon, <1>1, DroppedCalls
<1> DEFINE hears(c) == c \in UNION {entry[k].waiters : k \in ks}
<1>5. ASSUME NEW c \in Calls
      PROVE  /\ ca[c].pc = call[c].pc /\ ca[c].request = call[c].request
             /\ IF hears(c) THEN ca[c].heard = "failure" ELSE ca[c].heard = call[c].heard
             /\ IF ~hears(c) /\ call[c].pc \in {"leading", "failing"} /\ call[c].request.key \in ks
                  THEN ca[c].stale ELSE ca[c].stale = call[c].stale
  BY <1>1, DroppedFacts
<1>6. ASSUME NEW k \in DOMAIN entry
      PROVE  EntryOK(entry, call, k) /\ entry[k].waiters \subseteq Calls
  BY Zenon, <1>1 DEF ServiceInv, BooksOK, Entry
<1>7. ASSUME NEW c \in Calls, hears(c)
      PROVE  call[c].pc = "waiting" /\ call[c].request.key \in ks
  BY <1>6, <1>7 DEF EntryOK, LiveKeys
<1>8. ASSUME NEW c \in Calls
      PROVE  Leads(ca, c) <=> Leads(call, c) /\ call[c].request.key \notin ks
  <2>1. call[c].stale \in BOOLEAN /\ ca[c].stale \in BOOLEAN
    BY Zenon, <1>1, <1>4 DEF Call
  <2> QED BY Zenon, <1>5, <1>7, <2>1 DEF Leads
<1>9. ASSUME NEW k \in DOMAIN en PROVE EntryOK(en, ca, k)
  <2>1. k \in DOMAIN entry /\ k \notin ks /\ en[k] = entry[k]
    BY Zenon, <1>2
  <2>2. EntryOK(entry, call, k) /\ entry[k].waiters \subseteq Calls
    BY Zenon, <1>6, <2>1
  <2>3. ASSUME NEW c \in en[k].waiters
        PROVE  ca[c].pc = "waiting" /\ ca[c].heard = "none" /\ ca[c].request.key = k
    <3>1. c \in Calls /\ call[c].pc = "waiting" /\ call[c].heard = "none" /\ call[c].request.key = k
      BY Zenon, <2>1, <2>2, <2>3 DEF EntryOK
    <3>2. ~hears(c)
      BY Zenon, <1>7, <2>1, <3>1
    <3> QED BY Zenon, <1>5, <3>1, <3>2
  <2>4. en[k].response = "none" => \E c \in Calls : Leads(ca, c) /\ ca[c].request = en[k].request
    <3>1. SUFFICES ASSUME en[k].response = "none"
                   PROVE  \E c \in Calls : Leads(ca, c) /\ ca[c].request = en[k].request
      BY Zenon
    <3>2. PICK c \in Calls : Leads(call, c) /\ call[c].request = entry[k].request
      BY Zenon, <2>1, <2>2, <3>1 DEF EntryOK
    <3>3. call[c].request.key = k
      BY Zenon, <2>2, <3>2 DEF EntryOK
    <3> QED BY Zenon, <1>5, <1>8, <2>1, <3>2, <3>3
  <2> QED BY Zenon, <2>1, <2>2, <2>3, <2>4 DEF EntryOK
<1>10. ASSUME NEW c \in Calls PROVE CallOK(en, ca, c)
  <2>1. CallOK(entry, call, c)
    BY Zenon DEF ServiceInv, BooksOK
  <2>2. ASSUME ca[c].pc = "waiting", ca[c].heard = "none"
        PROVE  ca[c].request.key \in DOMAIN en /\ c \in en[ca[c].request.key].waiters
    <3>1. ~hears(c) /\ call[c].pc = "waiting" /\ call[c].heard = "none"
      BY Zenon, <1>5, <2>2
    <3>2. call[c].request.key \in DOMAIN entry /\ c \in entry[call[c].request.key].waiters
      BY Zenon, <2>1, <3>1 DEF CallOK
    <3>3. call[c].request.key \notin ks
      BY Zenon, <3>1, <3>2
    <3> QED BY Zenon, <1>2, <1>5, <3>2, <3>3
  <2>3. ASSUME Leads(ca, c)
        PROVE  ca[c].request.key \in DOMAIN en /\ en[ca[c].request.key].request = ca[c].request
    <3>1. Leads(call, c) /\ call[c].request.key \notin ks
      BY Zenon, <1>8, <2>3
    <3> QED BY <1>2, <1>5, <2>1, <3>1 DEF CallOK
  <2> QED BY Zenon, <2>2, <2>3 DEF CallOK
<1>11. ASSUME NEW c \in Calls, NEW d \in Calls, Leads(ca, c), Leads(ca, d),
              ca[c].request.key = ca[d].request.key
       PROVE  c = d
  <2>1. Leads(call, c) /\ Leads(call, d) /\ call[c].request.key = call[d].request.key
    BY Zenon, <1>5, <1>8, <1>11
  <2> QED BY Zenon, <2>1 DEF ServiceInv, BooksOK
<1> QED BY Zenon, <1>3, <1>4, <1>9, <1>10, <1>11 DEF BooksOK

\* A call that is no waiter, and leads no unanswered entry, may end
LEMMA CallEnds ==
  ASSUME NEW en, NEW ca, BooksOK(en, ca), NEW c \in Calls, NEW q \in Call, q.pc \in {"idle", "failing"},
         ca[c].pc # "waiting" \/ ca[c].heard # "none",
         Leads(ca, c) => en[ca[c].request.key].response # "none",
         NEW cb, cb = [ca EXCEPT ![c] = q]
  PROVE  BooksOK(en, cb)
<1>1. en \in [DOMAIN en -> Entry] /\ ca \in [Calls -> Call]
  BY Zenon DEF BooksOK
<1>2. cb \in [Calls -> Call] /\ cb[c] = q /\ \A d \in Calls : d # c => cb[d] = ca[d]
  BY Zenon, <1>1
<1>3. ~Leads(cb, c) /\ \A d \in Calls : Leads(cb, d) => Leads(ca, d) /\ cb[d] = ca[d]
  BY Zenon, <1>2 DEF Leads
<1>4. ASSUME NEW k \in DOMAIN en PROVE EntryOK(en, cb, k)
  <2>1. EntryOK(en, ca, k) /\ en[k].waiters \subseteq Calls
    BY Zenon, <1>1 DEF BooksOK, Entry
  <2>2. c \notin en[k].waiters
    BY Zenon, <2>1 DEF EntryOK
  <2>3. en[k].response = "none" => \E d \in Calls : Leads(cb, d) /\ cb[d].request = en[k].request
    <3>1. SUFFICES ASSUME en[k].response = "none"
                   PROVE  \E d \in Calls : Leads(cb, d) /\ cb[d].request = en[k].request
      BY Zenon
    <3>2. PICK d \in Calls : Leads(ca, d) /\ ca[d].request = en[k].request
      BY Zenon, <2>1, <3>1 DEF EntryOK
    <3>3. d # c
      BY Zenon, <2>1, <3>1, <3>2 DEF EntryOK
    <3> QED BY Zenon, <1>2, <3>2, <3>3 DEF Leads
  <2> QED BY Zenon, <1>2, <2>1, <2>2, <2>3 DEF EntryOK
<1>5. ASSUME NEW d \in Calls PROVE CallOK(en, cb, d)
  <2>1. CASE d = c
    BY Zenon, <1>2, <1>3, <2>1 DEF CallOK
  <2>2. CASE d # c
    BY Zenon, <1>2, <1>3, <2>2 DEF CallOK, BooksOK
  <2> QED BY Zenon, <2>1, <2>2
<1>6. ASSUME NEW d \in Calls, NEW f \in Calls, Leads(cb, d), Leads(cb, f),
             cb[d].request.key = cb[f].request.key
      PROVE  d = f
  BY Zenon, <1>3, <1>6 DEF BooksOK
<1> QED BY Zenon, <1>1, <1>2, <1>4, <1>5, <1>6 DEF BooksOK

LEMMA NoCallFacts == NoCall \in Call /\ NoCall.pc = "idle"
BY Zenon DEF NoCall, Call

\* begin: InFlight, and New
LEMMA CallWaits ==
  ASSUME NEW en, NEW ca, BooksOK(en, ca), NEW c \in Calls, ca[c].pc = "idle", NEW r \in Requests,
         r.key \in DOMAIN en, NEW eb, eb = [en EXCEPT ![r.key].waiters = @ \cup {c}],
         NEW cb, cb = [ca EXCEPT ![c] = [NoCall EXCEPT !.pc = "waiting", !.request = r]]
  PROVE  BooksOK(eb, cb)
<1>1. en \in [DOMAIN en -> Entry] /\ ca \in [Calls -> Call]
  BY Zenon DEF BooksOK
<1>2. PICK k \in DOMAIN en : k = r.key
  BY Zenon
<1>3. PICK x \in Entry : x = en[k]
  BY Zenon, <1>1
<1>4. PICK y : y = [x EXCEPT !.waiters = x.waiters \cup {c}]
  BY Zenon
<1>5. /\ y \in Entry /\ y.request = x.request /\ y.response = x.response
      /\ y.waiters = x.waiters \cup {c}
  BY Zenon, <1>4 DEF Entry
<1>6. eb = [en EXCEPT ![k] = y]
  BY Zenon, <1>2, <1>3, <1>4
<1>7. /\ DOMAIN eb = DOMAIN en /\ eb \in [DOMAIN eb -> Entry] /\ eb[k] = y
      /\ \A j \in DOMAIN en : j # k => eb[j] = en[j]
  BY Zenon, <1>1, <1>5, <1>6
<1>8. PICK q : q = [NoCall EXCEPT !.pc = "waiting", !.request = r]
  BY Zenon
<1>9. q \in Call /\ q.pc = "waiting" /\ q.request = r /\ q.heard = "none"
  BY Zenon, <1>8 DEF NoCall, Call, Response
<1>10. cb \in [Calls -> Call] /\ cb[c] = q /\ \A d \in Calls : d # c => cb[d] = ca[d]
  BY Zenon, <1>1, <1>8, <1>9
<1>11. \A d \in Calls : (Leads(cb, d) <=> Leads(ca, d)) /\ (Leads(cb, d) => cb[d] = ca[d])
  BY Zenon, <1>9, <1>10 DEF Leads
<1>12. \A j \in DOMAIN en : eb[j].request = en[j].request /\ eb[j].response = en[j].response
  BY Zenon, <1>3, <1>5, <1>7
<1>13. ASSUME NEW j \in DOMAIN eb PROVE EntryOK(eb, cb, j)
  <2>1. EntryOK(en, ca, j) /\ en[j].waiters \subseteq Calls /\ j \in DOMAIN en
    BY Zenon, <1>1, <1>7 DEF BooksOK, Entry
  <2>2. c \notin en[j].waiters
    BY Zenon, <2>1 DEF EntryOK
  <2>3. \A d \in eb[j].waiters : d \in en[j].waiters \/ (d = c /\ j = k)
    BY Zenon, <1>3, <1>5, <1>7, <2>1
  <2>4. \A d \in eb[j].waiters : cb[d].pc = "waiting" /\ cb[d].heard = "none" /\ cb[d].request.key = j
    BY Zenon, <1>2, <1>9, <1>10, <2>1, <2>2, <2>3 DEF EntryOK
  <2>5. eb[j].response = "none" => \E d \in Calls : Leads(cb, d) /\ cb[d].request = eb[j].request
    BY Zenon, <1>11, <1>12, <2>1 DEF EntryOK
  <2> QED BY Zenon, <1>12, <2>1, <2>4, <2>5 DEF EntryOK
<1>14. ASSUME NEW d \in Calls PROVE CallOK(eb, cb, d)
  <2>1. CASE d = c
    BY Zenon, <1>2, <1>5, <1>7, <1>9, <1>10, <2>1 DEF CallOK, Leads
  <2>2. CASE d # c
    <3>1. CallOK(en, ca, d) /\ cb[d] = ca[d]
      BY Zenon, <1>10, <2>2 DEF BooksOK
    <3>2. \A j \in DOMAIN en : en[j].waiters \subseteq eb[j].waiters
      BY Zenon, <1>3, <1>5, <1>7
    <3> QED BY <1>7, <1>11, <1>12, <3>1, <3>2 DEF CallOK
  <2> QED BY Zenon, <2>1, <2>2
<1>15. ASSUME NEW d \in Calls, NEW f \in Calls, Leads(cb, d), Leads(cb, f),
              cb[d].request.key = cb[f].request.key
       PROVE  d = f
  BY Zenon, <1>11, <1>15 DEF BooksOK
<1> QED BY Zenon, <1>7, <1>10, <1>13, <1>14, <1>15 DEF BooksOK

LEMMA CallLeads ==
  ASSUME NEW en, NEW ca, BooksOK(en, ca), NEW c \in Calls, ca[c].pc = "idle", NEW r \in Requests,
         r.key \notin DOMAIN en, NEW eb, eb = Put(en, r.key, NewEntry(r)),
         NEW cb, cb = [ca EXCEPT ![c] = [NoCall EXCEPT !.pc = "leading", !.request = r]]
  PROVE  BooksOK(eb, cb)
<1>1. en \in [DOMAIN en -> Entry] /\ ca \in [Calls -> Call]
  BY Zenon DEF BooksOK
<1>2. PICK k : k = r.key
  BY Zenon
<1>3. PICK y : y = NewEntry(r)
  BY Zenon
<1>4. y \in Entry /\ y.request = r /\ y.waiters = {}
  BY Zenon, <1>3 DEF Entry, NewEntry
<1>5. /\ DOMAIN eb = DOMAIN en \cup {k} /\ eb \in [DOMAIN eb -> Entry] /\ eb[k] = y
      /\ k \notin DOMAIN en /\ \A j \in DOMAIN en : eb[j] = en[j]
  BY Zenon, <1>1, <1>2, <1>3, <1>4 DEF Put
<1>6. PICK q : q = [NoCall EXCEPT !.pc = "leading", !.request = r]
  BY Zenon
<1>7. q \in Call /\ q.pc = "leading" /\ q.request = r /\ ~q.stale
  BY Zenon, <1>6 DEF NoCall, Call
<1>8. cb \in [Calls -> Call] /\ cb[c] = q /\ \A d \in Calls : d # c => cb[d] = ca[d]
  BY Zenon, <1>1, <1>6, <1>7
<1>9. Leads(cb, c) /\ ~Leads(ca, c) /\ \A d \in Calls : d # c => (Leads(cb, d) <=> Leads(ca, d))
  BY Zenon, <1>7, <1>8 DEF Leads
<1>10. ASSUME NEW j \in DOMAIN eb PROVE EntryOK(eb, cb, j)
  <2>1. CASE j = k
    BY Zenon, <1>2, <1>4, <1>5, <1>7, <1>8, <1>9, <2>1 DEF EntryOK
  <2>2. CASE j # k
    <3>1. EntryOK(en, ca, j) /\ en[j].waiters \subseteq Calls /\ j \in DOMAIN en /\ eb[j] = en[j]
      BY Zenon, <1>1, <1>5, <2>2 DEF BooksOK, Entry
    <3>2. c \notin en[j].waiters
      BY Zenon, <3>1 DEF EntryOK
    <3>3. \A d \in eb[j].waiters : cb[d].pc = "waiting" /\ cb[d].heard = "none" /\ cb[d].request.key = j
      BY Zenon, <1>8, <3>1, <3>2 DEF EntryOK
    <3>4. eb[j].response = "none" => \E d \in Calls : Leads(cb, d) /\ cb[d].request = eb[j].request
      BY Zenon, <1>8, <1>9, <3>1 DEF EntryOK
    <3> QED BY Zenon, <3>1, <3>3, <3>4 DEF EntryOK
  <2> QED BY Zenon, <2>1, <2>2
<1>11. ASSUME NEW d \in Calls PROVE CallOK(eb, cb, d)
  <2>1. CASE d = c
    BY Zenon, <1>2, <1>4, <1>5, <1>7, <1>8, <2>1 DEF CallOK
  <2>2. CASE d # c
    <3>1. CallOK(en, ca, d) /\ cb[d] = ca[d]
      BY Zenon, <1>8, <2>2 DEF BooksOK
    <3> QED BY Zenon, <1>5, <1>9, <2>2, <3>1 DEF CallOK
  <2> QED BY Zenon, <2>1, <2>2
<1>12. ASSUME NEW d \in Calls, d # c, Leads(cb, d)
       PROVE  Leads(ca, d) /\ cb[d].request.key # k /\ cb[d] = ca[d]
  <2>1. Leads(ca, d) /\ cb[d] = ca[d]
    BY Zenon, <1>8, <1>9, <1>12
  <2>2. ca[d].request.key \in DOMAIN en
    BY Zenon, <2>1 DEF BooksOK, CallOK
  <2> QED BY Zenon, <1>5, <2>1, <2>2
<1>13. ASSUME NEW d \in Calls, NEW f \in Calls, Leads(cb, d), Leads(cb, f),
              cb[d].request.key = cb[f].request.key
       PROVE  d = f
  <2>1. cb[c].request.key = k
    BY Zenon, <1>2, <1>7, <1>8
  <2>2. CASE d = c \/ f = c
    BY Zenon, <1>12, <1>13, <2>1, <2>2
  <2>3. CASE d # c /\ f # c
    BY Zenon, <1>12, <1>13, <2>3 DEF BooksOK
  <2> QED BY Zenon, <2>2, <2>3
<1> QED BY Zenon, <1>5, <1>8, <1>10, <1>11, <1>13 DEF BooksOK

LEMMA BeginOK ==
  ASSUME ServiceInv, NEW c \in Calls, NEW r \in Requests, Begin(c, r)
  PROVE  ServiceInv'
<1>1. PICK kept : kept = LiveKeys \ Expired
  BY Zenon
<1>2. PICK en, ca : en = Restrict(entry, kept) /\ ca = Dropped(Expired)
  BY Zenon
<1>3. Expired \subseteq LiveKeys
  BY Zenon DEF Expired
<1>4. BooksOK(en, ca)
  BY Zenon, <1>1, <1>2, <1>3, DropOK
<1>5. call[c].pc = "idle" /\ call \in [Calls -> Call]
  BY Zenon DEF Begin, ServiceInv, BooksOK
<1>6. ca[c].pc = "idle"
  BY <1>2, <1>5, DroppedFacts
<1>7. DOMAIN en = kept
  BY Zenon, <1>2 DEF Restrict
<1>8. CASE BeginCached(c, r, kept) \/ BeginRefused(c, r, kept)
  <2>1. entry' = en /\ call' = ca
    BY Zenon, <1>2, <1>8 DEF BeginCached, BeginRefused
  <2> QED BY Zenon, <1>4, <2>1, BooksCommit
<1>9. CASE BeginInFlight(c, r, kept)
  <2>1. r.key \in DOMAIN en
    BY Zenon, <1>7, <1>9 DEF BeginInFlight, Same
  <2>2. PICK eb, cb : /\ eb = [en EXCEPT ![r.key].waiters = @ \cup {c}]
                      /\ cb = [ca EXCEPT ![c] = [NoCall EXCEPT !.pc = "waiting", !.request = r]]
    BY Zenon
  <2>3. BooksOK(eb, cb)
    BY Zenon, <1>4, <1>6, <2>1, <2>2, CallWaits
  <2>4. entry' = eb /\ call' = cb
    BY Zenon, <1>2, <1>9, <2>2 DEF BeginInFlight
  <2> QED BY Zenon, <2>3, <2>4, BooksCommit
<1>10. CASE BeginNew(c, r, kept)
  <2>1. r.key \notin DOMAIN en
    BY Zenon, <1>7, <1>10 DEF BeginNew
  <2>2. PICK eb, cb : /\ eb = Put(en, r.key, NewEntry(r))
                      /\ cb = [ca EXCEPT ![c] = [NoCall EXCEPT !.pc = "leading", !.request = r]]
    BY Zenon
  <2>3. BooksOK(eb, cb)
    BY Zenon, <1>4, <1>6, <2>1, <2>2, CallLeads
  <2>4. entry' = eb /\ call' = cb
    BY Zenon, <1>2, <1>10, <2>2 DEF BeginNew
  <2> QED BY Zenon, <2>3, <2>4, BooksCommit
<1> QED BY Zenon, <1>1, <1>8, <1>9, <1>10 DEF Begin

LEMMA LeaderAnswersOK ==
  ASSUME ServiceInv, NEW c \in Calls, NEW response \in Response, LeaderAnswers(c, response)
  PROVE  ServiceInv'
<1>1. /\ entry \in [DOMAIN entry -> Entry] /\ call \in [Calls -> Call] /\ call[c].pc = "leading"
      /\ call[c].request.key \in DOMAIN entry
  BY Zenon DEF ServiceInv, BooksOK, LeaderAnswers, Same, LiveKeys
<1>2. PICK k \in DOMAIN entry : k = call[c].request.key
  BY Zenon, <1>1
<1>3. PICK s \in Response : s = Stored(call[c].request, response)
  BY Zenon DEF Stored, Response
<1>4. PICK x \in Entry : x = entry[k]
  BY Zenon, <1>1
<1>5. PICK y : y = [x EXCEPT !.response = s, !.waiters = {}, !.gone = 0]
  BY Zenon
<1>6. y \in Entry /\ y.request = x.request /\ y.response = s /\ y.waiters = {}
  BY Zenon, <1>5 DEF Entry
<1>7. entry' = [entry EXCEPT ![k] = y]
  BY Zenon, <1>1, <1>2, <1>3, <1>4, <1>5 DEF LeaderAnswers
<1>8. PICK en : en = entry'
  BY Zenon
<1>9. /\ DOMAIN en = DOMAIN entry /\ en \in [DOMAIN en -> Entry] /\ en[k] = y
      /\ \A j \in DOMAIN entry : j # k => en[j] = entry[j]
  BY Zenon, <1>1, <1>6, <1>7, <1>8
<1>10. PICK ca : ca = call'
  BY Zenon
<1>11. ca = [d \in Calls |-> CASE d = c -> NoCall
                               [] d # c /\ d \in entry[k].waiters -> [call[d] EXCEPT !.heard = response]
                               [] OTHER -> call[d]]
  BY Zenon, <1>2, <1>10 DEF LeaderAnswers
<1>12. ca[c] = NoCall
  BY Zenon, <1>11
<1>13. ASSUME NEW d \in Calls, d # c
       PROVE  /\ ca[d] \in Call /\ ca[d].pc = call[d].pc /\ ca[d].request = call[d].request
              /\ ca[d].stale = call[d].stale
              /\ IF d \in entry[k].waiters THEN ca[d].heard # "none" ELSE ca[d].heard = call[d].heard
  <2>1. PICK u \in Call : u = call[d]
    BY Zenon, <1>1
  <2>2. PICK w : w = [u EXCEPT !.heard = response]
    BY Zenon
  <2>3. w \in Call /\ w.pc = u.pc /\ w.request = u.request /\ w.stale = u.stale /\ w.heard = response
    BY Zenon, <2>2 DEF Call
  <2>4. ca[d] = IF d \in entry[k].waiters THEN w ELSE u
    BY Zenon, <1>11, <1>13, <2>1, <2>2
  <2>5. response # "none"
    BY Zenon DEF Response
  <2> QED BY Zenon, <2>1, <2>3, <2>4, <2>5
<1>14. ca \in [Calls -> Call]
  <2>1. \A d \in Calls : ca[d] \in Call
    BY Zenon, <1>12, <1>13, NoCallFacts
  <2>2. ca = [d \in Calls |-> ca[d]]
    BY Zenon, <1>11
  <2> QED BY Zenon, <2>1, <2>2
<1>15. ~Leads(ca, c) /\ \A d \in Calls : d # c => (Leads(ca, d) <=> Leads(call, d))
  BY Zenon, <1>12, <1>13, NoCallFacts DEF Leads
<1>16. ASSUME NEW j \in DOMAIN en PROVE EntryOK(en, ca, j)
  <2>1. EntryOK(entry, call, j) /\ entry[j].waiters \subseteq Calls /\ j \in DOMAIN entry
    BY Zenon, <1>1, <1>9 DEF ServiceInv, BooksOK, Entry
  <2>2. CASE j = k
    <3>1. s # "none"
      BY Zenon DEF Response
    <3> QED BY Zenon, <1>4, <1>6, <1>9, <2>1, <2>2, <3>1 DEF EntryOK
  <2>3. CASE j # k
    <3>1. \A d \in entry[j].waiters : d \in Calls /\ d # c /\ d \notin entry[k].waiters
      <4>1. EntryOK(entry, call, k)
        BY Zenon DEF ServiceInv, BooksOK
      <4> QED BY Zenon, <1>1, <2>1, <2>3, <4>1 DEF EntryOK
    <3>2. en[j].response = "none" => \E d \in Calls : Leads(ca, d) /\ ca[d].request = en[j].request
      <4>1. SUFFICES ASSUME en[j].response = "none"
                     PROVE  \E d \in Calls : Leads(ca, d) /\ ca[d].request = en[j].request
        BY Zenon
      <4>2. PICK d \in Calls : Leads(call, d) /\ call[d].request = entry[j].request
        BY Zenon, <1>9, <2>1, <2>3, <4>1 DEF EntryOK
      <4>3. d # c
        BY Zenon, <1>2, <2>1, <2>3, <4>2 DEF EntryOK
      <4> QED BY Zenon, <1>9, <1>13, <1>15, <2>1, <2>3, <4>2, <4>3
    <3> QED BY Zenon, <1>9, <1>13, <2>1, <2>3, <3>1, <3>2 DEF EntryOK
  <2> QED BY Zenon, <2>2, <2>3
<1>17. ASSUME NEW d \in Calls PROVE CallOK(en, ca, d)
  <2>1. CASE d = c
    BY Zenon, <1>12, <1>15, <2>1, NoCallFacts DEF CallOK
  <2>2. CASE d # c
    <3>1. CallOK(entry, call, d)
      BY Zenon DEF ServiceInv, BooksOK
    <3>2. \A j \in DOMAIN entry : en[j].request = entry[j].request
      BY Zenon, <1>4, <1>6, <1>9
    <3>3. ASSUME ca[d].pc = "waiting", ca[d].heard = "none"
          PROVE  ca[d].request.key \in DOMAIN en /\ d \in en[ca[d].request.key].waiters
      <4>1. d \notin entry[k].waiters /\ call[d].pc = "waiting" /\ call[d].heard = "none"
        BY Zenon, <1>13, <2>2, <3>3
      <4>2. call[d].request.key \in DOMAIN entry /\ d \in entry[call[d].request.key].waiters
        BY Zenon, <3>1, <4>1 DEF CallOK
      <4>3. call[d].request.key # k
        BY Zenon, <4>1, <4>2
      <4> QED BY Zenon, <1>9, <1>13, <2>2, <4>2, <4>3
    <3> QED BY <1>9, <1>13, <1>15, <2>2, <3>1, <3>2, <3>3 DEF CallOK
  <2> QED BY Zenon, <2>1, <2>2
<1>18. ASSUME NEW d \in Calls, NEW f \in Calls, Leads(ca, d), Leads(ca, f),
              ca[d].request.key = ca[f].request.key
       PROVE  d = f
  <2>1. d # c /\ f # c
    BY Zenon, <1>15, <1>18
  <2> QED BY Zenon, <1>13, <1>15, <1>18, <2>1 DEF ServiceInv, BooksOK
<1>19. BooksOK(en, ca)
  BY Zenon, <1>9, <1>14, <1>16, <1>17, <1>18 DEF BooksOK
<1> QED BY Zenon, <1>8, <1>10, <1>19, BooksCommit

LEMMA LeaderTooLateOK ==
  ASSUME ServiceInv, NEW c \in Calls, LeaderTooLate(c)
  PROVE  ServiceInv'
<1>1. PICK ks : ks = {call[c].request.key} \cap Expired
  BY Zenon
<1>2. PICK en, ca : en = Restrict(entry, LiveKeys \ ks) /\ ca = Dropped(ks)
  BY Zenon
<1>3. ks \subseteq LiveKeys
  BY Zenon, <1>1 DEF Expired
<1>4. BooksOK(en, ca)
  BY Zenon, <1>2, <1>3, DropOK
<1>5. ca[c].pc = "leading" /\ ca[c].request = call[c].request
  <2>1. call \in [Calls -> Call] /\ call[c].pc = "leading"
    BY Zenon DEF LeaderTooLate, ServiceInv, BooksOK
  <2> QED BY <1>2, <2>1, DroppedFacts
<1>6. ~Leads(ca, c)
  <2>1. SUFFICES ASSUME Leads(ca, c) PROVE FALSE
    BY Zenon
  <2>2. call[c].request.key \in DOMAIN en /\ en[call[c].request.key].request = call[c].request
    BY Zenon, <1>4, <1>5, <2>1 DEF BooksOK, CallOK
  <2>3. call[c].request.key \in LiveKeys \ Expired /\ entry[call[c].request.key].request = call[c].request
    BY Zenon, <1>1, <1>2, <2>2 DEF Restrict
  <2> QED BY Zenon, <2>3 DEF LeaderTooLate, Same
<1>7. PICK q : q = [ca[c] EXCEPT !.pc = "failing"]
  BY Zenon
<1>8. q \in Call /\ q.pc = "failing" /\ ca \in [Calls -> Call]
  BY Zenon, <1>4, <1>7 DEF BooksOK, Call
<1>9. PICK cb : cb = [ca EXCEPT ![c] = q]
  BY Zenon
<1>10. BooksOK(en, cb)
  BY Zenon, <1>4, <1>5, <1>6, <1>8, <1>9, CallEnds
<1>11. entry' = en /\ call' = cb
  BY Zenon, <1>1, <1>2, <1>7, <1>8, <1>9 DEF LeaderTooLate
<1> QED BY Zenon, <1>10, <1>11, BooksCommit

LEMMA LeaderFailsOK ==
  ASSUME ServiceInv, NEW c \in Calls, LeaderFails(c)
  PROVE  ServiceInv'
<1>1. PICK ks : ks = IF Same(LiveKeys, call[c].request) /\ entry[call[c].request.key].response = "none"
                       THEN {call[c].request.key} ELSE {}
  BY Zenon
<1>2. PICK en, ca : en = Restrict(entry, LiveKeys \ ks) /\ ca = Dropped(ks)
  BY Zenon
<1>3. ks \subseteq LiveKeys
  BY Zenon, <1>1 DEF Same
<1>4. BooksOK(en, ca)
  BY Zenon, <1>2, <1>3, DropOK
<1>5. ca[c].pc # "waiting" /\ ca[c].request = call[c].request
  <2>1. call \in [Calls -> Call] /\ call[c].pc # "waiting"
    BY Zenon DEF LeaderFails, ServiceInv, BooksOK
  <2> QED BY <1>2, <2>1, DroppedFacts
<1>6. Leads(ca, c) => en[ca[c].request.key].response # "none"
  <2>1. SUFFICES ASSUME Leads(ca, c) PROVE en[call[c].request.key].response # "none"
    BY Zenon, <1>5
  <2>2. call[c].request.key \in DOMAIN en /\ en[call[c].request.key].request = call[c].request
    BY Zenon, <1>4, <1>5, <2>1 DEF BooksOK, CallOK
  <2> QED BY Zenon, <1>1, <1>2, <2>2 DEF Restrict, Same
<1>7. PICK cb : cb = [ca EXCEPT ![c] = NoCall]
  BY Zenon
<1>8. BooksOK(en, cb)
  <2>1. PICK q \in Call : q = NoCall /\ q.pc = "idle"
    BY Zenon, NoCallFacts
  <2>2. cb = [ca EXCEPT ![c] = q] /\ q.pc \in {"idle", "failing"}
    BY Zenon, <1>7, <2>1
  <2> QED BY Zenon, <1>4, <1>5, <1>6, <2>2, CallEnds
<1>9. entry' = en /\ call' = cb
  BY Zenon, <1>1, <1>2, <1>7 DEF LeaderFails, FailUnanswered
<1> QED BY Zenon, <1>8, <1>9, BooksCommit

LEMMA WaiterHearsOK ==
  ASSUME ServiceInv, NEW c \in Calls, WaiterHears(c)
  PROVE  ServiceInv'
<1>1. PICK en, ca : en = entry /\ ca = call
  BY Zenon
<1>2. BooksOK(en, ca) /\ ca[c].pc = "waiting" /\ ca[c].heard # "none" /\ ~Leads(ca, c)
  BY Zenon, <1>1 DEF ServiceInv, WaiterHears, Leads
<1>3. PICK q \in Call : q = NoCall /\ q.pc = "idle"
  BY Zenon, NoCallFacts
<1>4. PICK cb : cb = [ca EXCEPT ![c] = q]
  BY Zenon
<1>5. q.pc \in {"idle", "failing"}
  BY Zenon, <1>3
<1>6. BooksOK(en, cb)
  BY Zenon, <1>2, <1>4, <1>5, CallEnds
<1>7. entry' = en /\ call' = cb
  BY Zenon, <1>1, <1>3, <1>4 DEF WaiterHears
<1> QED BY Zenon, <1>6, <1>7, BooksCommit

LEMMA WaiterTimeoutOK ==
  ASSUME ServiceInv, NEW c \in Calls, WaiterTimeout(c)
  PROVE  ServiceInv'
<1>1. /\ entry \in [DOMAIN entry -> Entry] /\ call \in [Calls -> Call] /\ call[c].pc = "waiting"
      /\ CallOK(entry, call, c) /\ call[c].heard = "none"
  BY Zenon DEF ServiceInv, BooksOK, WaiterTimeout
<1>2. PICK k \in DOMAIN entry : k = call[c].request.key /\ c \in entry[k].waiters
  BY Zenon, <1>1 DEF CallOK
<1>3. PICK x \in Entry : x = entry[k]
  BY Zenon, <1>1
<1>4. PICK ws \in SUBSET Calls : ws = x.waiters \ {c}
  BY Zenon DEF Entry
<1>5. PICK n \in Nat : n = x.gone + 1
  BY DEF Entry
<1>6. PICK y : y = [x EXCEPT !.waiters = ws, !.gone = n]
  BY Zenon
<1>7. y \in Entry /\ y.request = x.request /\ y.response = x.response /\ y.waiters = ws
  BY Zenon, <1>6 DEF Entry
<1>8. entry' = [entry EXCEPT ![k] = y]
  BY Zenon, <1>1, <1>2, <1>3, <1>4, <1>5, <1>6 DEF WaiterTimeout
<1>9. PICK en, ca : en = entry' /\ ca = call'
  BY Zenon
<1>10. /\ DOMAIN en = DOMAIN entry /\ en \in [DOMAIN en -> Entry] /\ en[k] = y
       /\ \A j \in DOMAIN entry : j # k => en[j] = entry[j]
  BY Zenon, <1>1, <1>7, <1>8, <1>9
<1>11. ca \in [Calls -> Call] /\ ca[c] = NoCall /\ \A d \in Calls : d # c => ca[d] = call[d]
  BY Zenon, <1>1, <1>9, NoCallFacts DEF WaiterTimeout
<1>12. ~Leads(ca, c) /\ \A d \in Calls : d # c => (Leads(ca, d) <=> Leads(call, d))
  BY Zenon, <1>11, NoCallFacts DEF Leads
<1>13. ~Leads(call, c)
  BY Zenon, <1>1 DEF Leads
<1>14. ASSUME NEW j \in DOMAIN en PROVE EntryOK(en, ca, j)
  <2>1. EntryOK(entry, call, j) /\ EntryOK(entry, call, k) /\ entry[j].waiters \subseteq Calls /\ j \in DOMAIN entry
    BY Zenon, <1>1, <1>10 DEF ServiceInv, BooksOK, Entry
  <2>2. en[j].request = entry[j].request /\ en[j].response = entry[j].response
    BY Zenon, <1>3, <1>7, <1>10, <2>1
  <2>3. \A d \in en[j].waiters : d \in entry[j].waiters /\ d # c
    <3>1. CASE j = k
      BY Zenon, <1>3, <1>4, <1>7, <1>10, <3>1
    <3>2. CASE j # k
      BY Zenon, <1>2, <1>10, <2>1, <3>2 DEF EntryOK
    <3> QED BY Zenon, <3>1, <3>2
  <2>4. en[j].response = "none" => \E d \in Calls : Leads(ca, d) /\ ca[d].request = en[j].request
    BY Zenon, <1>11, <1>12, <1>13, <2>1, <2>2 DEF EntryOK
  <2> QED BY Zenon, <1>11, <2>1, <2>2, <2>3, <2>4 DEF EntryOK
<1>15. ASSUME NEW d \in Calls PROVE CallOK(en, ca, d)
  <2>1. CASE d = c
    BY Zenon, <1>11, <1>12, <2>1, NoCallFacts DEF CallOK
  <2>2. CASE d # c
    <3>1. CallOK(entry, call, d) /\ ca[d] = call[d]
      BY Zenon, <1>11, <2>2 DEF ServiceInv, BooksOK
    <3>2. \A j \in DOMAIN entry : en[j].request = entry[j].request
      BY Zenon, <1>3, <1>7, <1>10
    <3>3. \A j \in DOMAIN entry : d \in entry[j].waiters => d \in en[j].waiters
      BY Zenon, <1>3, <1>4, <1>7, <1>10, <2>2
    <3> QED BY Zenon, <1>10, <1>12, <2>2, <3>1, <3>2, <3>3 DEF CallOK
  <2> QED BY Zenon, <2>1, <2>2
<1>16. ASSUME NEW d \in Calls, NEW f \in Calls, Leads(ca, d), Leads(ca, f),
              ca[d].request.key = ca[f].request.key
       PROVE  d = f
  <2>1. d # c /\ f # c
    BY Zenon, <1>12, <1>16
  <2> QED BY Zenon, <1>11, <1>12, <1>16, <2>1 DEF ServiceInv, BooksOK
<1>17. BooksOK(en, ca)
  BY Zenon, <1>10, <1>11, <1>14, <1>15, <1>16 DEF BooksOK
<1> QED BY Zenon, <1>9, <1>17, BooksCommit

LEMMA RemovePeerOK ==
  ASSUME ServiceInv, NEW p \in Peers, RemovePeer(p)
  PROVE  ServiceInv'
<1>1. PICK ks : ks = {k \in LiveKeys : InitiatorOf[k] = p \/ entry[k].request.to = p}
  BY Zenon
<1>2. PICK en, ca : en = Restrict(entry, LiveKeys \ ks) /\ ca = Dropped(ks)
  BY Zenon
<1>3. ks \subseteq LiveKeys
  BY Zenon, <1>1
<1>4. BooksOK(en, ca)
  BY Zenon, <1>2, <1>3, DropOK
<1>5. entry' = en /\ call' = ca
  BY Zenon, <1>1, <1>2 DEF RemovePeer, PeerDropped
<1> QED BY Zenon, <1>4, <1>5, BooksCommit

LEMMA ExpireOK ==
  ASSUME ServiceInv, NEW k \in Keys, Expire(k)
  PROVE  ServiceInv'
<1>1. k \in DOMAIN entry /\ entry \in [DOMAIN entry -> Entry] /\ call' = call
  BY Zenon DEF Expire, LiveKeys, ServiceInv, BooksOK
<1>2. PICK x \in Entry : x = entry[k]
  BY Zenon, <1>1
<1>3. PICK y : y = [x EXCEPT !.expired = TRUE]
  BY Zenon
<1>4. y \in Entry /\ y.request = x.request /\ y.response = x.response /\ y.waiters = x.waiters
  BY Zenon, <1>3 DEF Entry
<1>5. entry' = [entry EXCEPT ![k] = y]
  BY Zenon, <1>1, <1>2, <1>3 DEF Expire
<1>6. PICK en, ca : en = entry' /\ ca = call
  BY Zenon
<1>7. /\ DOMAIN en = DOMAIN entry /\ en \in [DOMAIN en -> Entry]
      /\ \A j \in DOMAIN entry : /\ en[j].request = entry[j].request /\ en[j].response = entry[j].response
                                 /\ en[j].waiters = entry[j].waiters
  BY Zenon, <1>1, <1>2, <1>4, <1>5, <1>6
<1>8. \A j \in DOMAIN en : EntryOK(en, ca, j)
  BY <1>6, <1>7 DEF ServiceInv, BooksOK, EntryOK
<1>9. \A d \in Calls : CallOK(en, ca, d)
  BY Zenon, <1>6, <1>7 DEF ServiceInv, BooksOK, CallOK
<1>10. BooksOK(en, ca)
  BY Zenon, <1>6, <1>7, <1>8, <1>9 DEF ServiceInv, BooksOK
<1> QED BY Zenon, <1>1, <1>6, <1>10, BooksCommit

LEMMA ServiceStarts == ServiceInit => ServiceInv
<1> SUFFICES ASSUME ServiceInit PROVE BooksOK(entry, call)
  BY Zenon DEF ServiceInv
<1>1. DOMAIN entry = {} /\ entry \in [DOMAIN entry -> Entry]
  BY Zenon DEF ServiceInit
<1>2. call \in [Calls -> Call] /\ \A c \in Calls : call[c] = NoCall
  BY Zenon, NoCallFacts DEF ServiceInit
<1> QED BY Zenon, <1>1, <1>2, NoCallFacts DEF BooksOK, CallOK, Leads

LEMMA ServiceSteps == ServiceInv /\ [ServiceNext]_serviceVars => ServiceInv'
<1> SUFFICES ASSUME ServiceInv, [ServiceNext]_serviceVars PROVE ServiceInv'
  BY Zenon
<1>1. CASE UNCHANGED serviceVars
  BY Zenon, <1>1, BooksCommit DEF serviceVars, ServiceInv
<1>2. ASSUME NEW c \in Calls, NEW r \in Requests, Begin(c, r) PROVE ServiceInv'
  BY Zenon, <1>2, BeginOK
<1>3. ASSUME NEW c \in Calls, NEW response \in Response, LeaderAnswers(c, response) PROVE ServiceInv'
  BY Zenon, <1>3, LeaderAnswersOK
<1>4. ASSUME NEW c \in Calls, LeaderTooLate(c) \/ LeaderFails(c) \/ WaiterHears(c) \/ WaiterTimeout(c)
      PROVE  ServiceInv'
  BY Zenon, <1>4, LeaderTooLateOK, LeaderFailsOK, WaiterHearsOK, WaiterTimeoutOK
<1>5. ASSUME NEW p \in Peers, RemovePeer(p) PROVE ServiceInv'
  BY Zenon, <1>5, RemovePeerOK
<1>6. ASSUME NEW p \in Peers, RateAges(p) PROVE ServiceInv'
  BY Zenon, <1>6, BooksCommit DEF RateAges, ServiceInv
<1>7. ASSUME NEW k \in Keys, Expire(k) PROVE ServiceInv'
  BY Zenon, <1>7, ExpireOK
<1> QED BY Zenon, <1>1, <1>2, <1>3, <1>4, <1>5, <1>6, <1>7 DEF ServiceNext

LEMMA ServiceTells == ServiceInv => WaiterIsTold
<1> SUFFICES ASSUME ServiceInv PROVE WaiterIsTold
  BY Zenon
<1>1. ASSUME NEW c \in Calls, call[c].pc = "waiting", call[c].heard = "none"
      PROVE  call[c].request.key \in LiveKeys /\ c \in entry[call[c].request.key].waiters
  BY Zenon, <1>1 DEF ServiceInv, BooksOK, CallOK, LiveKeys
<1>2. ASSUME NEW k \in LiveKeys, entry[k].response = "none", NEW leaders,
             leaders = {c \in Calls : call[c].pc = "leading" /\ ~call[c].stale /\ call[c].request.key = k}
      PROVE  Cardinality(leaders) = 1 /\ \A c \in leaders : call[c].request = entry[k].request
  <2>1. EntryOK(entry, call, k)
    BY Zenon DEF ServiceInv, BooksOK, LiveKeys
  <2>2. PICK c \in Calls : Leads(call, c) /\ call[c].request = entry[k].request
    BY Zenon, <1>2, <2>1 DEF EntryOK
  <2>3. call[c].request.key = k
    BY Zenon, <2>1, <2>2 DEF EntryOK
  <2>4. leaders = {c}
    BY Zenon, <1>2, <2>2, <2>3 DEF ServiceInv, BooksOK, Leads
  <2> QED BY Zenon, <2>2, <2>4, FS_Singleton
<1> QED BY Zenon, <1>1, <1>2 DEF WaiterIsTold

(***************************************************************************)
(* A repeated rendezvous request that waits is listed where its answer     *)
(* will be looked for, and an entry without an answer has exactly one call *)
(* that leads it, for any limits, keys and calls and whatever expires, is  *)
(* removed, replaced or timed out (rendezvous_state.rs, service.rs).       *)
(***************************************************************************)
THEOREM WaitersAreTold == ServiceSpec => []WaiterIsTold
BY ServiceStarts, ServiceSteps, ServiceTells, PTL DEF ServiceSpec

-----------------------------------------------------------------------------
(***************************************************************************)
(* The calls a target is told of, for any SNs, owners and requests.  The   *)
(* copy of a call that takes the stub is the only one that may send, until *)
(* it has sent or given up; later copies find the stub.                    *)
(***************************************************************************)

Sending(rq, r) == rq[r].step = "sending"

\* What the SNs told, with the stubs and the requests that made them
StubsOK(st, to, rq) ==
  /\ to \in [Sns -> Nat]
  /\ rq = [r \in Jobs |-> rq[r]] /\ \A r \in Jobs : {"step", "at"} \subseteq DOMAIN rq[r]
  /\ \A s \in Sns : to[s] <= 1 /\ (s \notin st => to[s] = 0)
  /\ \A r \in Jobs : Sending(rq, r) => rq[r].at \in st /\ (rq[r].at \in Sns => to[rq[r].at] = 0)
  /\ \A r, q \in Jobs : Sending(rq, r) /\ Sending(rq, q) /\ rq[r].at = rq[q].at => r = q

StubInv == StubsOK(stub, told, request)

LEMMA StubCommit ==
  ASSUME NEW st, NEW to, NEW rq, StubsOK(st, to, rq), stub' = st, told' = to, request' = rq
  PROVE  StubInv'
BY Zenon DEF StubInv, StubsOK, Sending

\* The requests as a step of r leaves them, when r does not begin to send
Quiet(rq, r) ==
  \E x : /\ {"step", "at"} \subseteq DOMAIN x
         /\ x.step = "sending" => request[r].step = "sending" /\ x.at = request[r].at
         /\ rq = [request EXCEPT ![r] = x]

LEMMA QuietOK ==
  ASSUME StubInv, NEW r \in Jobs, NEW rq, Quiet(rq, r), NEW st, stub \subseteq st
  PROVE  StubsOK(st, told, rq)
<1>1. PICK x : /\ {"step", "at"} \subseteq DOMAIN x
               /\ x.step = "sending" => request[r].step = "sending" /\ x.at = request[r].at
               /\ rq = [request EXCEPT ![r] = x]
  BY Zenon DEF Quiet
<1>2. /\ rq = [q \in Jobs |-> rq[q]] /\ rq[r] = x
      /\ \A q \in Jobs : q # r => rq[q] = request[q]
  BY Zenon, <1>1 DEF StubInv, StubsOK
<1>3. \A q \in Jobs : {"step", "at"} \subseteq DOMAIN rq[q]
  BY Zenon, <1>1, <1>2 DEF StubInv, StubsOK
<1>4. \A q \in Jobs : Sending(rq, q) => Sending(request, q) /\ rq[q].at = request[q].at
  BY Zenon, <1>1, <1>2 DEF Sending
<1>5. told \in [Sns -> Nat] /\ \A s \in Sns : told[s] <= 1 /\ (s \notin st => told[s] = 0)
  BY Zenon DEF StubInv, StubsOK
<1>6. \A q \in Jobs : Sending(rq, q) => rq[q].at \in st /\ (rq[q].at \in Sns => told[rq[q].at] = 0)
  BY Zenon, <1>4 DEF StubInv, StubsOK
<1>7. \A q, p \in Jobs : Sending(rq, q) /\ Sending(rq, p) /\ rq[q].at = rq[p].at => q = p
  BY Zenon, <1>4 DEF StubInv, StubsOK
<1> QED BY Zenon, <1>2, <1>3, <1>5, <1>6, <1>7 DEF StubsOK

\* The updates the handlers are made of
LEMMA RequestUpdates ==
  ASSUME StubInv, NEW r \in Jobs
  PROVE  /\ \A answer : Quiet(Answered(r, answer), r)
         /\ Quiet(NextLease(r), r) /\ Quiet(Undelivered(r), r) /\ Quiet(Lookup(r), r)
         /\ \A s : Quiet(Delivering(r, s), r)
<1>1. PICK q : q = request[r]
  BY Zenon
<1>2. {"step", "at"} \subseteq DOMAIN q /\ r \in DOMAIN request
  BY Zenon, <1>1 DEF StubInv, StubsOK
<1>3. ASSUME NEW answer PROVE Quiet(Answered(r, answer), r)
  <2>1. PICK x : x = [q EXCEPT !.step = "done", !.answer = answer]
    BY Zenon
  <2>2. x.step = "done" /\ DOMAIN x = DOMAIN q
    BY Zenon, <1>2, <2>1
  <2>3. Answered(r, answer) = [request EXCEPT ![r] = x]
    BY Zenon, <1>1, <1>2, <2>1 DEF Answered
  <2> QED BY Zenon, <1>2, <2>2, <2>3 DEF Quiet
<1>4. Quiet(NextLease(r), r)
  <2>1. PICK x : x = [q EXCEPT !.step = "relay", !.queue = Tail(@), !.at = 0]
    BY Zenon
  <2>2. x.step = "relay" /\ DOMAIN x = DOMAIN q
    BY Zenon, <1>2, <2>1
  <2>3. NextLease(r) = [request EXCEPT ![r] = x]
    BY Zenon, <1>1, <1>2, <2>1 DEF NextLease
  <2> QED BY Zenon, <1>2, <2>2, <2>3 DEF Quiet
<1>5. Quiet(Undelivered(r), r)
  BY Zenon, <1>3, <1>4 DEF Undelivered
<1>6. Quiet(Lookup(r), r)
  <2>1. PICK x : x = [q EXCEPT !.step = "lookup", !.left = OwnerSet(Receiver[r]), !.heard = ServedAt(Receiver[r])]
    BY Zenon
  <2>2. x.step = "lookup" /\ DOMAIN x = DOMAIN q
    BY Zenon, <1>2, <2>1
  <2>3. Lookup(r) = [request EXCEPT ![r] = x]
    BY Zenon, <1>1, <1>2, <2>1 DEF Lookup
  <2> QED BY Zenon, <1>2, <2>2, <2>3 DEF Quiet
<1>7. ASSUME NEW s PROVE Quiet(Delivering(r, s), r)
  <2>1. PICK x : x = [q EXCEPT !.step = "found", !.at = s]
    BY Zenon
  <2>2. x.step = "found" /\ DOMAIN x = DOMAIN q
    BY Zenon, <1>2, <2>1
  <2>3. Delivering(r, s) = [request EXCEPT ![r] = x]
    BY Zenon, <1>1, <1>2, <2>1 DEF Delivering
  <2> QED BY Zenon, <1>2, <2>2, <2>3 DEF Quiet
<1> QED BY Zenon, <1>3, <1>4, <1>5, <1>6, <1>7

LEMMA QuietStep ==
  ASSUME StubInv, NEW r \in Jobs, Quiet(request', r), stub \subseteq stub', told' = told
  PROVE  StubInv'
<1>1. PICK st, rq : st = stub' /\ rq = request'
  BY Zenon
<1>2. Quiet(rq, r) /\ stub \subseteq st
  BY Zenon, <1>1
<1>3. StubsOK(st, told, rq)
  BY Zenon, <1>2, QuietOK
<1> QED BY Zenon, <1>1, <1>3, StubCommit

LEMMA HandlerSteps ==
  ASSUME StubInv, NEW r \in Jobs,
         \/ Receive(r) \/ Exhausted(r) \/ SkipOwn(r) \/ RelayRefused(r) \/ RelayFails(r)
         \/ SendFails(r) \/ TargetAnswers(r) \/ AnswerRejected(r) \/ RendezvousTimeout(r)
  PROVE  StubInv'
<1>1. PICK rq : rq = request'
  BY Zenon
<1>2. stub' = stub /\ told' = told
  BY Zenon DEF Receive, Exhausted, SkipOwn, RelayRefused, RelayFails, SendFails, TargetAnswers, AnswerRejected,
         RendezvousTimeout
<1>3. CASE Receive(r)
  <2>1. rq \in {Lookup(r), Answered(r, "refused"), Delivering(r, Receiver[r])}
    BY Zenon, <1>1, <1>3 DEF Receive
  <2> QED BY Zenon, <1>1, <1>2, <2>1, RequestUpdates, QuietStep
<1>4. CASE Exhausted(r)
  <2>1. PICK a : rq = Answered(r, a)
    BY Zenon, <1>1, <1>4 DEF Exhausted
  <2> QED BY Zenon, <1>1, <1>2, <2>1, RequestUpdates, QuietStep
<1>5. CASE SkipOwn(r) \/ RelayRefused(r) \/ RelayFails(r)
  <2>1. rq = NextLease(r)
    BY Zenon, <1>1, <1>5 DEF SkipOwn, RelayRefused, RelayFails
  <2> QED BY Zenon, <1>1, <1>2, <2>1, RequestUpdates, QuietStep
<1>6. CASE SendFails(r) \/ AnswerRejected(r)
  <2>1. rq = Undelivered(r)
    BY Zenon, <1>1, <1>6 DEF SendFails, AnswerRejected
  <2> QED BY Zenon, <1>1, <1>2, <2>1, RequestUpdates, QuietStep
<1>7. CASE TargetAnswers(r) \/ RendezvousTimeout(r)
  <2>1. rq = Answered(r, "ok") \/ rq = Answered(r, "error")
    BY Zenon, <1>1, <1>7 DEF TargetAnswers, RendezvousTimeout
  <2> QED BY Zenon, <1>1, <1>2, <2>1, RequestUpdates, QuietStep
<1> QED BY Zenon, <1>3, <1>4, <1>5, <1>6, <1>7

LEMMA LookupSteps ==
  ASSUME StubInv, NEW r \in Jobs,
         LookupEnds(r) \/ \E o \in Owners : OwnerAnswers(r, o) \/ OwnerFails(r, o)
  PROVE  StubInv'
<1>1. PICK q : q = request[r]
  BY Zenon
<1>2. {"step", "at"} \subseteq DOMAIN q /\ r \in DOMAIN request
  BY Zenon, <1>1 DEF StubInv, StubsOK
<1>3. stub' = stub /\ told' = told
  BY Zenon DEF LookupEnds, OwnerAnswers, OwnerFails
<1>4. CASE LookupEnds(r)
  <2>1. PICK d : d = Deduped(NewestFirst(request[r].found))
    BY Zenon
  <2>2. PICK x : x = [q EXCEPT !.step = "relay", !.found = {}, !.queue = d]
    BY Zenon
  <2>3. x.step = "relay" /\ DOMAIN x = DOMAIN q
    BY Zenon, <1>2, <2>2
  <2>4. request' = [request EXCEPT ![r].step = "relay", ![r].found = {}, ![r].queue = d]
    BY Zenon, <1>4, <2>1 DEF LookupEnds
  <2>5. request' = [request EXCEPT ![r] = x]
    BY Zenon, <1>1, <1>2, <2>2, <2>4
  <2>6. Quiet(request', r)
    BY Zenon, <1>2, <2>3, <2>5 DEF Quiet
  <2> QED BY Zenon, <1>3, <2>6, QuietStep
<1>5. ASSUME NEW o \in Owners, OwnerAnswers(r, o) PROVE StubInv'
  <2>1. PICK ls : request' = [request EXCEPT ![r].left = @ \ {o}, ![r].found = @ \cup ls]
    BY Zenon, <1>5 DEF OwnerAnswers
  <2>2. PICK x : x = [q EXCEPT !.left = @ \ {o}, !.found = @ \cup ls]
    BY Zenon
  <2>3. x.step = q.step /\ x.at = q.at /\ DOMAIN x = DOMAIN q
    BY Zenon, <1>2, <2>2
  <2>4. request' = [request EXCEPT ![r] = x]
    BY Zenon, <1>1, <1>2, <2>1, <2>2
  <2>5. Quiet(request', r)
    BY Zenon, <1>1, <1>2, <2>3, <2>4 DEF Quiet
  <2> QED BY Zenon, <1>3, <2>5, QuietStep
<1>6. ASSUME NEW o \in Owners, OwnerFails(r, o) PROVE StubInv'
  <2>1. request' = [request EXCEPT ![r].left = @ \ {o}]
    BY Zenon, <1>6 DEF OwnerFails
  <2>2. PICK x : x = [q EXCEPT !.left = @ \ {o}]
    BY Zenon
  <2>3. x.step = q.step /\ x.at = q.at /\ DOMAIN x = DOMAIN q
    BY Zenon, <1>2, <2>2
  <2>4. request' = [request EXCEPT ![r] = x]
    BY Zenon, <1>1, <1>2, <2>1, <2>2
  <2>5. Quiet(request', r)
    BY Zenon, <1>1, <1>2, <2>3, <2>4 DEF Quiet
  <2> QED BY Zenon, <1>3, <2>5, QuietStep
<1> QED BY Zenon, <1>4, <1>5, <1>6

LEMMA RelayQuiet ==
  ASSUME StubInv, NEW r \in Jobs, Relay(r)
  PROVE  StubInv'
<1>1. PICK s : s = Head(request[r].queue)
  BY Zenon
<1>2. PICK rq : rq = request'
  BY Zenon
<1>3. rq = Handled(r, s) /\ stub' = stub /\ told' = told
  BY Zenon, <1>1, <1>2 DEF Relay
<1>4. CASE request[r].kind = "query"
  <2>1. PICK x : /\ {"step", "at"} \subseteq DOMAIN x
                 /\ x.step = "sending" => request[r].step = "sending" /\ x.at = request[r].at
                 /\ NextLease(r) = [request EXCEPT ![r] = x]
    BY Zenon, RequestUpdates DEF Quiet
  <2>2. PICK h : h = (x.heard \/ ServedAt(s))
    BY Zenon
  <2>3. PICK y : y = [x EXCEPT !.heard = h]
    BY Zenon
  <2>4. y.step = x.step /\ y.at = x.at /\ DOMAIN y = DOMAIN x
    BY Zenon, <2>1, <2>3
  <2>5. r \in DOMAIN request
    BY Zenon DEF StubInv, StubsOK
  <2>6. PICK nl : nl = NextLease(r)
    BY Zenon
  <2>7. nl[r] = x /\ [nl EXCEPT ![r] = y] = [request EXCEPT ![r] = y]
    BY Zenon, <2>1, <2>5, <2>6
  <2>8. rq = [nl EXCEPT ![r].heard = @ \/ ServedAt(s)]
    BY Zenon, <1>3, <1>4, <2>6 DEF Handled
  <2>9. rq = [request EXCEPT ![r] = y]
    BY Zenon, <2>2, <2>3, <2>7, <2>8
  <2>10. Quiet(rq, r)
    BY Zenon, <2>1, <2>4, <2>9 DEF Quiet
  <2> QED BY Zenon, <1>2, <1>3, <2>10, QuietStep
<1>5. CASE request[r].kind # "query"
  <2>1. rq \in {Delivering(r, s), NextLease(r)}
    BY Zenon, <1>3, <1>5 DEF Handled
  <2> QED BY Zenon, <1>2, <1>3, <2>1, RequestUpdates, QuietStep
<1> QED BY Zenon, <1>4, <1>5

LEMMA AskingSteps ==
  ASSUME StubInv, NEW r \in Jobs, RendezvousBegins(r) \/ StreamFails(r)
  PROVE  StubInv'
<1>1. PICK q : q = request[r]
  BY Zenon
<1>2. {"step", "at"} \subseteq DOMAIN q /\ r \in DOMAIN request
  BY Zenon, <1>1 DEF StubInv, StubsOK
<1>3. stub' = stub /\ told' = told
  BY Zenon DEF RendezvousBegins, StreamFails
<1>4. CASE request' = Undelivered(r)
  BY Zenon, <1>3, <1>4, RequestUpdates, QuietStep
<1>5. ASSUME RendezvousBegins(r), request' # Undelivered(r) PROVE StubInv'
  <2>1. PICK n : request' = [request EXCEPT ![r].step = "asking", ![r].tries = n]
    BY Zenon, <1>5 DEF RendezvousBegins
  <2>2. PICK x : x = [q EXCEPT !.step = "asking", !.tries = n]
    BY Zenon
  <2>3. x.step = "asking" /\ DOMAIN x = DOMAIN q
    BY Zenon, <1>2, <2>2
  <2>4. request' = [request EXCEPT ![r] = x]
    BY Zenon, <1>1, <1>2, <2>1, <2>2
  <2>5. Quiet(request', r)
    BY Zenon, <1>2, <2>3, <2>4 DEF Quiet
  <2> QED BY Zenon, <1>3, <2>5, QuietStep
<1>6. ASSUME StreamFails(r), request' # Undelivered(r) PROVE StubInv'
  <2>1. request' = [request EXCEPT ![r].tries = @ - 1]
    BY Zenon, <1>6 DEF StreamFails
  <2>2. PICK n : n = q.tries - 1
    BY Zenon
  <2>3. PICK x : x = [q EXCEPT !.tries = n]
    BY Zenon
  <2>4. x.step = q.step /\ x.at = q.at /\ DOMAIN x = DOMAIN q
    BY Zenon, <1>2, <2>3
  <2>5. request' = [request EXCEPT ![r] = x]
    BY Zenon, <1>1, <1>2, <2>1, <2>2, <2>3
  <2>6. Quiet(request', r)
    BY Zenon, <1>1, <1>2, <2>4, <2>5 DEF Quiet
  <2> QED BY Zenon, <1>3, <2>6, QuietStep
<1> QED BY Zenon, <1>4, <1>5, <1>6

LEMMA CalledOK ==
  ASSUME StubInv, NEW r \in Jobs, Called(r)
  PROVE  StubInv'
<1>1. PICK q, s, st : q = request[r] /\ s = request[r].at /\ st = stub \cup {s}
  BY Zenon
<1>2. {"step", "at"} \subseteq DOMAIN q /\ r \in DOMAIN request
  BY Zenon, <1>1 DEF StubInv, StubsOK
<1>3. stub' = st /\ told' = told /\ request[r].step = "found"
  BY Zenon, <1>1 DEF Called
<1>4. CASE request' = Answered(r, "ok")
  BY Zenon, <1>1, <1>3, <1>4, RequestUpdates, QuietStep
<1>5. ASSUME request' # Answered(r, "ok") PROVE StubInv'
  <2>1. request' = [request EXCEPT ![r].step = "sending"] /\ s \notin stub
    BY Zenon, <1>1, <1>5 DEF Called, FirstCopy
  <2>2. PICK x : x = [q EXCEPT !.step = "sending"]
    BY Zenon
  <2>3. x.step = "sending" /\ x.at = s /\ DOMAIN x = DOMAIN q
    BY Zenon, <1>1, <1>2, <2>2
  <2>4. PICK rq : rq = [request EXCEPT ![r] = x]
    BY Zenon
  <2>5. request' = rq
    BY Zenon, <1>1, <1>2, <2>1, <2>2, <2>4
  <2>6. /\ rq = [p \in Jobs |-> rq[p]] /\ rq[r] = x
        /\ \A p \in Jobs : p # r => rq[p] = request[p]
    BY Zenon, <2>4 DEF StubInv, StubsOK
  <2>7. \A p \in Jobs : {"step", "at"} \subseteq DOMAIN rq[p]
    BY Zenon, <1>2, <2>3, <2>6 DEF StubInv, StubsOK
  <2>8. \A p \in Jobs : p # r /\ Sending(rq, p) => Sending(request, p) /\ rq[p].at = request[p].at /\ rq[p].at # s
    BY Zenon, <2>1, <2>6 DEF StubInv, StubsOK, Sending
  <2>9. told \in [Sns -> Nat] /\ \A t \in Sns : told[t] <= 1 /\ (t \notin st => told[t] = 0)
    BY Zenon, <1>1 DEF StubInv, StubsOK
  <2>10. \A p \in Jobs : Sending(rq, p) => rq[p].at \in st /\ (rq[p].at \in Sns => told[rq[p].at] = 0)
    <3>1. s \in st /\ (s \in Sns => told[s] = 0)
      BY Zenon, <1>1, <2>1 DEF StubInv, StubsOK
    <3> QED BY <1>1, <2>3, <2>6, <2>8, <3>1 DEF StubInv, StubsOK
  <2>11. \A p, o \in Jobs : Sending(rq, p) /\ Sending(rq, o) /\ rq[p].at = rq[o].at => p = o
    BY Zenon, <2>3, <2>6, <2>8 DEF StubInv, StubsOK
  <2>12. StubsOK(st, told, rq)
    BY Zenon, <2>6, <2>7, <2>9, <2>10, <2>11 DEF StubsOK
  <2> QED BY Zenon, <1>3, <2>5, <2>12, StubCommit
<1> QED BY Zenon, <1>4, <1>5

LEMMA SendDoneOK ==
  ASSUME StubInv, NEW r \in Jobs, SendDone(r)
  PROVE  StubInv'
<1>1. PICK s : s = request[r].at
  BY Zenon
<1>2. stub' = stub /\ told' = [told EXCEPT ![s] = @ + 1] /\ request[r].step = "sending"
  BY Zenon, <1>1 DEF SendDone
<1>3. PICK rq : rq = request'
  BY Zenon
<1>4. rq = Answered(r, "ok")
  BY Zenon, <1>3 DEF SendDone
<1>5. StubsOK(stub, told, rq)
  BY Zenon, <1>4, RequestUpdates, QuietOK
<1>6. r \in DOMAIN request /\ {"step", "at"} \subseteq DOMAIN request[r]
  BY Zenon DEF StubInv, StubsOK
<1>7. rq[r].step = "done" /\ \A q \in Jobs : q # r => rq[q] = request[q]
  BY Zenon, <1>4, <1>6 DEF Answered, StubInv, StubsOK
<1>8. PICK to : to = told'
  BY Zenon
<1>9. s \in stub /\ (s \in Sns => told[s] = 0) /\ told \in [Sns -> Nat]
  BY Zenon, <1>1, <1>2 DEF StubInv, StubsOK, Sending
<1>10. /\ to \in [Sns -> Nat] /\ \A t \in Sns : t # s => to[t] = told[t]
       /\ s \in Sns => to[s] = 1
  <2>1. CASE s \in Sns
    <3>1. told' = [told EXCEPT ![s] = 1]
      BY <1>2, <1>9, <2>1
    <3> QED BY Zenon, <1>8, <1>9, <3>1
  <2>2. CASE s \notin Sns
    BY Zenon, <1>2, <1>8, <1>9, <2>2
  <2> QED BY Zenon, <2>1, <2>2
<1>11. \A t \in Sns : to[t] <= 1 /\ (t \notin stub => to[t] = 0)
  BY <1>9, <1>10 DEF StubInv, StubsOK
<1>12. \A q \in Jobs : Sending(rq, q) => q # r /\ Sending(request, q) /\ rq[q].at = request[q].at /\ rq[q].at # s
  BY Zenon, <1>1, <1>2, <1>7 DEF StubInv, StubsOK, Sending
<1>13. \A q \in Jobs : Sending(rq, q) => rq[q].at \in stub /\ (rq[q].at \in Sns => to[rq[q].at] = 0)
  BY Zenon, <1>10, <1>12 DEF StubInv, StubsOK
<1>14. StubsOK(stub, to, rq)
  BY Zenon, <1>5, <1>10, <1>11, <1>13 DEF StubsOK
<1> QED BY Zenon, <1>2, <1>3, <1>8, <1>14, StubCommit

LEMMA LateRelayOK ==
  ASSUME StubInv, NEW s \in Sns, LateRelay(s)
  PROVE  StubInv'
<1>1. PICK st, to, rq : st = stub' /\ to = told' /\ rq = request
  BY Zenon
<1>2. /\ st = (IF s \in registered THEN stub \cup {s} ELSE stub) /\ request' = request
      /\ to # told => to = [told EXCEPT ![s] = @ + 1] /\ s \in registered /\ s \notin stub
  BY Zenon, <1>1 DEF LateRelay, FirstCopy
<1>3. StubsOK(stub, told, rq) /\ stub \subseteq st
  BY Zenon, <1>1, <1>2 DEF StubInv
<1>4. CASE to = told
  <2>1. StubsOK(st, to, rq)
    BY Zenon, <1>3, <1>4 DEF StubsOK
  <2> QED BY Zenon, <1>1, <1>2, <2>1, StubCommit
<1>5. CASE to # told
  <2>1. told \in [Sns -> Nat] /\ told[s] = 0 /\ s \in st
    BY Zenon, <1>2, <1>3, <1>5 DEF StubsOK
  <2>2. to \in [Sns -> Nat] /\ to[s] = 1 /\ \A t \in Sns : t # s => to[t] = told[t]
    BY <1>2, <1>5, <2>1
  <2>3. \A t \in Sns : to[t] <= 1 /\ (t \notin st => to[t] = 0)
    BY <1>3, <2>1, <2>2 DEF StubsOK
  <2>4. \A q \in Jobs : Sending(rq, q) => rq[q].at \in st /\ (rq[q].at \in Sns => to[rq[q].at] = 0)
    BY Zenon, <1>2, <1>3, <1>5, <2>2 DEF StubsOK
  <2>5. StubsOK(st, to, rq)
    BY Zenon, <1>3, <2>2, <2>3, <2>4 DEF StubsOK
  <2> QED BY Zenon, <1>1, <1>2, <2>5, StubCommit
<1> QED BY Zenon, <1>4, <1>5

\* The steps that are not about a call
LEMMA OtherSteps ==
  ASSUME StubInv, stub' = stub, told' = told, request' = request
  PROVE  StubInv'
BY Zenon, StubCommit DEF StubInv

LEMMA StubStarts == RelayInit => StubInv
<1> SUFFICES ASSUME RelayInit PROVE StubsOK(stub, told, request)
  BY Zenon DEF StubInv
<1>1. PICK setting \in Settings : request = [r \in Jobs |-> NewRequest(setting.kind[r])]
  BY Zenon DEF RelayInit
<1>2. \A r \in Jobs : {"step", "at"} \subseteq DOMAIN request[r] /\ request[r].step # "sending"
  BY Zenon, <1>1 DEF NewRequest
<1>3. request = [r \in Jobs |-> request[r]]
  BY Zenon, <1>1
<1>4. told \in [Sns -> Nat] /\ \A s \in Sns : told[s] = 0
  BY Zenon DEF RelayInit
<1> QED BY <1>2, <1>3, <1>4 DEF StubsOK, Sending

LEMMA StubSteps == StubInv /\ [RelayNext]_relayVars => StubInv'
<1> SUFFICES ASSUME StubInv, [RelayNext]_relayVars PROVE StubInv'
  BY Zenon
<1>1. CASE UNCHANGED relayVars
  BY Zenon, <1>1, OtherSteps DEF relayVars
<1>2. ASSUME NEW s \in Sns, PeerStep(s) PROVE StubInv'
  <2>1. CASE LateRelay(s)
    BY Zenon, <2>1, LateRelayOK
  <2>2. CASE Report(s) \/ LinkLost(s) \/ OnPeerDisconnected(s)
    BY Zenon, <2>2, OtherSteps DEF Report, LinkLost, OnPeerDisconnected
  <2> QED BY Zenon, <1>2, <2>1, <2>2 DEF PeerStep
<1>3. ASSUME NEW s \in Sns, PublishStep(s) PROVE StubInv'
  BY Zenon, <1>3, OtherSteps DEF PublishStep, BeginPublish, PublishStored, AnswerLost, Store, EndPublish, PublishArrives,
                          PublishFails, HealthLapses
<1>4. ASSUME NEW o \in Owners, OwnerStep(o) PROVE StubInv'
  BY Zenon, <1>4, OtherSteps DEF OwnerStep, OwnerCrashes, OwnerRestarts, SessionRenewed, SessionEnds, StrayArrives
<1>5. ASSUME NEW r \in Jobs, RequestStep(r) PROVE StubInv'
  BY Zenon, <1>5, HandlerSteps, LookupSteps, RelayQuiet, AskingSteps, CalledOK, SendDoneOK DEF RequestStep
<1> QED BY Zenon, <1>1, <1>2, <1>3, <1>4, <1>5 DEF RelayNext

(***************************************************************************)
(* However often a call is received, retried, relayed or arrives late, an  *)
(* SN tells the target of it at most once, for any number of SNs, owners   *)
(* and copies of the call (call_stub.rs, service.rs).                      *)
(***************************************************************************)
THEOREM TargetsAreCalledOnce == RelaySpec => []CalledOnce
<1>1. StubInv => CalledOnce
  BY Zenon DEF StubInv, StubsOK, CalledOnce
<1> QED BY <1>1, StubStarts, StubSteps, PTL DEF RelaySpec

-----------------------------------------------------------------------------
(***************************************************************************)
(* The routes the owners acknowledged, for any SNs, owners and requests.   *)
(* An acknowledgement counts while the session it was made in is online,   *)
(* so a query that drops the routes of other sessions drops none of them.  *)
(***************************************************************************)

Publication == [step : {"off", "idle", "asking", "checked"}, seq : Nat, left : SUBSET Owners,
                at : Owners \cup {Local}]

RoutesOK(on, ro, ac, pu) ==
  /\ on \in [Owners -> SUBSET Sns]
  /\ ro \in [Owners -> [Sns -> Nat]] /\ ac \in [Owners -> [Sns -> Nat]]
  /\ pu \in [Sns -> Publication]
  /\ \A s \in Sns : pu[s].step = "checked" => pu[s].at \in Owners
  /\ \A o \in Owners, s \in Sns : ro[o][s] >= ac[o][s] /\ (s \notin on[o] => ac[o][s] = 0)

RouteInv == RoutesOK(online, routes, acked, publish) /\ fresh \in [Sns -> SUBSET Owners]

LEMMA RouteCommit ==
  ASSUME NEW on, NEW ro, NEW ac, NEW pu, RoutesOK(on, ro, ac, pu), fresh' \in [Sns -> SUBSET Owners],
         online' = on, routes' = ro, acked' = ac, publish' = pu
  PROVE  RouteInv'
BY Zenon DEF RouteInv, RoutesOK

\* A step that changes at most what the SNs are publishing
LEMMA PublishingChanges ==
  ASSUME RouteInv, UNCHANGED <<online, routes, acked>>, fresh' \in [Sns -> SUBSET Owners],
         NEW s \in Sns, NEW p \in Publication, p.step = "checked" => p.at \in Owners,
         publish' = [publish EXCEPT ![s] = p]
  PROVE  RouteInv'
<1>1. PICK pu : pu = publish'
  BY Zenon
<1>2. pu \in [Sns -> Publication] /\ \A t \in Sns : pu[t].step = "checked" => pu[t].at \in Owners
  BY Zenon, <1>1 DEF RouteInv, RoutesOK
<1>3. RoutesOK(online, routes, acked, pu)
  BY Zenon, <1>2 DEF RouteInv, RoutesOK
<1> QED BY Zenon, <1>1, <1>3, RouteCommit

LEMMA DirectorySame ==
  ASSUME RouteInv, UNCHANGED <<online, routes, acked, publish>>, fresh' \in [Sns -> SUBSET Owners]
  PROVE  RouteInv'
BY Zenon, RouteCommit DEF RouteInv

LEMMA RefreshedType ==
  ASSUME RouteInv, NEW s \in Sns, NEW o \in Owners
  PROVE  Refreshed(s, o) \in [Sns -> SUBSET Owners]
<1>1. PICK x \in SUBSET Owners : x = fresh[s] \cup {o}
  BY Zenon DEF RouteInv
<1>2. Refreshed(s, o) = [fresh EXCEPT ![s] = x]
  BY Zenon, <1>1 DEF Refreshed, RouteInv
<1> QED BY Zenon, <1>2 DEF RouteInv

LEMMA BeginPublishOK ==
  ASSUME RouteInv, NEW s \in Sns, BeginPublish(s)
  PROVE  RouteInv'
<1>1. PICK seq \in 1..MaxSequence :
         publish' = [publish EXCEPT ![s] = [step |-> "asking", seq |-> seq, left |-> OwnerSet(s), at |-> Local]]
  BY Zenon DEF BeginPublish
<1>2. PICK p : p = [step |-> "asking", seq |-> seq, left |-> OwnerSet(s), at |-> Local]
  BY Zenon
<1>3. p \in Publication /\ p.step # "checked"
  <2>1. OwnerSet(s) \in SUBSET Owners /\ seq \in Nat
    BY RelayAssumption DEF OwnerSet, RouteInv
  <2> QED BY Zenon, <1>2, <2>1 DEF Publication
<1>4. UNCHANGED <<online, routes, acked, fresh>>
  BY Zenon DEF BeginPublish
<1> QED BY Zenon, <1>1, <1>2, <1>3, <1>4, PublishingChanges DEF RouteInv

LEMMA PublishArrivesOK ==
  ASSUME RouteInv, NEW s \in Sns, NEW o \in Owners, PublishArrives(s, o)
  PROVE  RouteInv'
<1>1. UNCHANGED <<online, routes, acked>>
  BY Zenon DEF PublishArrives
<1>2. PICK x \in Publication : x = publish[s] /\ x.step = "asking"
  BY Zenon DEF RouteInv, RoutesOK, PublishArrives
<1>3. publish \in [Sns -> Publication]
  BY Zenon DEF RouteInv, RoutesOK
<1>4. CASE s \in online[o]
  <2>1. PICK p : p = [x EXCEPT !.step = "checked", !.at = o]
    BY Zenon
  <2>2. p \in Publication /\ p.at \in Owners
    BY Zenon, <2>1 DEF Publication
  <2>3. publish' = [publish EXCEPT ![s] = p] /\ fresh' = fresh
    BY Zenon, <1>2, <1>3, <1>4, <2>1 DEF PublishArrives
  <2> QED BY Zenon, <1>1, <2>2, <2>3, PublishingChanges DEF RouteInv
<1>5. CASE s \notin online[o]
  <2>1. PICK left \in SUBSET Owners : left = x.left \ {o}
    BY Zenon DEF Publication
  <2>2. PICK p : p = [x EXCEPT !.left = left]
    BY Zenon
  <2>3. p \in Publication /\ p.step # "checked"
    BY Zenon, <1>2, <2>2 DEF Publication
  <2>4. publish' = [publish EXCEPT ![s] = p] /\ fresh' = Refreshed(s, o)
    BY Zenon, <1>2, <1>3, <1>5, <2>1, <2>2 DEF PublishArrives
  <2> QED BY Zenon, <1>1, <2>3, <2>4, RefreshedType, PublishingChanges
<1> QED BY Zenon, <1>4, <1>5

LEMMA PublishFailsOK ==
  ASSUME RouteInv, NEW s \in Sns, NEW o \in Owners, PublishFails(s, o)
  PROVE  RouteInv'
<1>1. UNCHANGED <<online, routes, acked, fresh>>
  BY Zenon DEF PublishFails
<1>2. PICK x \in Publication : x = publish[s]
  BY Zenon DEF RouteInv, RoutesOK
<1>3. PICK left \in SUBSET Owners : left = x.left \ {o}
  BY Zenon DEF Publication
<1>4. PICK p : p = [x EXCEPT !.step = "asking", !.left = left, !.at = Local]
  BY Zenon
<1>5. p \in Publication /\ p.step # "checked"
  BY Zenon, <1>4 DEF Publication
<1>6. publish' = [publish EXCEPT ![s] = p]
  BY Zenon, <1>2, <1>3, <1>4 DEF PublishFails, RouteInv, RoutesOK
<1> QED BY Zenon, <1>1, <1>5, <1>6, PublishingChanges DEF RouteInv

LEMMA EndPublishOK ==
  ASSUME RouteInv, NEW s \in Sns, EndPublish(s)
  PROVE  RouteInv'
<1>1. UNCHANGED <<online, routes, acked, fresh>>
  BY Zenon DEF EndPublish
<1>2. PICK x \in Publication : x = publish[s]
  BY Zenon DEF RouteInv, RoutesOK
<1>3. PICK p : p = [x EXCEPT !.step = "idle"]
  BY Zenon
<1>4. p \in Publication /\ p.step # "checked"
  BY Zenon, <1>3 DEF Publication
<1>5. publish' = [publish EXCEPT ![s] = p]
  BY Zenon, <1>2, <1>3 DEF EndPublish, RouteInv, RoutesOK
<1> QED BY Zenon, <1>1, <1>4, <1>5, PublishingChanges DEF RouteInv

LEMMA NewestOfFacts ==
  ASSUME NEW n \in Nat, NEW seq \in Nat
  PROVE  NewestOf(n, seq) \in Nat /\ NewestOf(n, seq) >= n /\ NewestOf(n, seq) >= seq
BY DEF NewestOf

\* put_route at owner o, acknowledged or not
LEMMA PutRoute ==
  ASSUME RouteInv, NEW o \in Owners, NEW s \in Sns, NEW seq \in Nat, NEW ro, NEW ac,
         ro = [routes EXCEPT ![o][s] = NewestOf(@, seq)],
         ac = acked \/ (s \in online[o] /\ ac = [acked EXCEPT ![o][s] = seq]),
         NEW pu \in [Sns -> Publication], \A t \in Sns : pu[t].step = "checked" => pu[t].at \in Owners
  PROVE  RoutesOK(online, ro, ac, pu)
<1>1. /\ routes \in [Owners -> [Sns -> Nat]] /\ acked \in [Owners -> [Sns -> Nat]]
      /\ online \in [Owners -> SUBSET Sns]
  BY Zenon DEF RouteInv, RoutesOK
<1>2. PICK f, g \in [Sns -> Nat] : f = routes[o] /\ g = acked[o]
  BY Zenon, <1>1
<1>3. PICK n \in Nat : n = NewestOf(f[s], seq) /\ n >= f[s] /\ n >= seq
  BY Zenon, NewestOfFacts
<1>4. PICK f2 : f2 = [f EXCEPT ![s] = n]
  BY Zenon
<1>5. f2 \in [Sns -> Nat] /\ f2[s] = n /\ \A t \in Sns : t # s => f2[t] = f[t]
  BY Zenon, <1>4
<1>6. ro = [routes EXCEPT ![o] = f2]
  BY Zenon, <1>1, <1>2, <1>3, <1>4
<1>7. ro \in [Owners -> [Sns -> Nat]] /\ ro[o] = f2 /\ \A p \in Owners : p # o => ro[p] = routes[p]
  BY <1>1, <1>5, <1>6
<1>8. ASSUME NEW g2 \in [Sns -> Nat], ac = [acked EXCEPT ![o] = g2],
             \A t \in Sns : g2[t] = g[t] \/ (t = s /\ g2[t] = seq /\ s \in online[o])
      PROVE  RoutesOK(online, ro, ac, pu)
  <2>1. ac \in [Owners -> [Sns -> Nat]] /\ ac[o] = g2 /\ \A p \in Owners : p # o => ac[p] = acked[p]
    BY Zenon, <1>1, <1>8
  <2>2. ASSUME NEW p \in Owners, NEW t \in Sns
        PROVE  ro[p][t] >= ac[p][t] /\ (t \notin online[p] => ac[p][t] = 0)
    <3>1. routes[p][t] >= acked[p][t] /\ (t \notin online[p] => acked[p][t] = 0)
      BY Zenon DEF RouteInv, RoutesOK
    <3>2. CASE p # o
      BY Zenon, <1>7, <2>1, <3>1, <3>2
    <3>3. CASE p = o
      <4>1. ro[p][t] = f2[t] /\ ac[p][t] = g2[t] /\ f[t] >= g[t] /\ (t \notin online[p] => g[t] = 0)
        BY Zenon, <1>2, <1>7, <2>1, <3>1, <3>3
      <4>2. f[t] \in Nat /\ g[t] \in Nat /\ f2[t] \in Nat /\ f2[t] >= f[t]
        BY <1>3, <1>5
      <4>3. CASE g2[t] = g[t]
        BY <4>1, <4>2, <4>3
      <4>4. CASE g2[t] # g[t]
        BY Zenon, <1>3, <1>5, <1>8, <3>3, <4>1, <4>4
      <4> QED BY Zenon, <4>3, <4>4
    <3> QED BY Zenon, <3>2, <3>3
  <2> QED BY Zenon, <1>1, <1>7, <2>1, <2>2 DEF RoutesOK
<1>9. CASE ac = acked
  <2>1. ac = [acked EXCEPT ![o] = g]
    BY Zenon, <1>1, <1>2, <1>9
  <2> QED BY Zenon, <1>8, <2>1
<1>10. CASE s \in online[o] /\ ac = [acked EXCEPT ![o][s] = seq]
  <2>1. PICK g2 : g2 = [g EXCEPT ![s] = seq]
    BY Zenon
  <2>2. g2 \in [Sns -> Nat] /\ \A t \in Sns : g2[t] = g[t] \/ (t = s /\ g2[t] = seq)
    BY Zenon, <2>1
  <2>3. ac = [acked EXCEPT ![o] = g2]
    BY Zenon, <1>1, <1>2, <1>10, <2>1
  <2> QED BY Zenon, <1>8, <1>10, <2>2, <2>3
<1> QED BY Zenon, <1>9, <1>10

LEMMA StoreOK ==
  ASSUME RouteInv, NEW s \in Sns, PublishStored(s) \/ AnswerLost(s)
  PROVE  RouteInv'
<1>1. Store(s)
  BY Zenon DEF PublishStored, AnswerLost
<1>2. PICK x \in Publication : x = publish[s] /\ x.step = "checked"
  BY Zenon, <1>1 DEF Store, RouteInv, RoutesOK
<1>3. PICK o \in Owners : o = x.at
  BY Zenon, <1>2 DEF RouteInv, RoutesOK
<1>4. PICK seq \in Nat : seq = x.seq
  BY Zenon DEF Publication
<1>5. PICK left \in SUBSET Owners : left = x.left \ {o}
  BY Zenon DEF Publication
<1>6. PICK p : p = [x EXCEPT !.step = "asking", !.left = left, !.at = Local]
  BY Zenon
<1>7. p \in Publication /\ p.step # "checked"
  BY Zenon, <1>6 DEF Publication
<1>8. PICK ro, ac, pu : ro = routes' /\ ac = acked' /\ pu = publish'
  BY Zenon
<1>9. pu = [publish EXCEPT ![s] = p]
  BY Zenon, <1>1, <1>2, <1>3, <1>5, <1>6, <1>8 DEF Store, RouteInv, RoutesOK
<1>10. pu \in [Sns -> Publication] /\ \A t \in Sns : pu[t].step = "checked" => pu[t].at \in Owners
  BY Zenon, <1>7, <1>9 DEF RouteInv, RoutesOK
<1>11. /\ ro = [routes EXCEPT ![o][s] = NewestOf(@, seq)] /\ online' = online
       /\ ac = acked \/ (s \in online[o] /\ ac = [acked EXCEPT ![o][s] = seq])
  BY Zenon, <1>1, <1>2, <1>3, <1>4, <1>8 DEF Store
<1>12. RoutesOK(online, ro, ac, pu)
  BY Zenon, <1>10, <1>11, PutRoute
<1>13. fresh' \in [Sns -> SUBSET Owners]
  BY <1>2, <1>3, RefreshedType DEF PublishStored, AnswerLost, RouteInv
<1> QED BY Zenon, <1>8, <1>11, <1>12, <1>13, RouteCommit

LEMMA StrayArrivesOK ==
  ASSUME RouteInv, NEW o \in Owners, NEW s \in Sns, NEW seq \in 1..MaxSequence, StrayArrives(o, s, seq)
  PROVE  RouteInv'
<1>1. UNCHANGED <<online, acked, publish, fresh>>
  BY Zenon DEF StrayArrives
<1>2. CASE routes' = routes
  BY Zenon, <1>1, <1>2, DirectorySame DEF RouteInv
<1>3. CASE routes' # routes
  <2>1. PICK ro : ro = routes'
    BY Zenon
  <2>2. ro = [routes EXCEPT ![o][s] = NewestOf(@, seq)]
    BY Zenon, <1>3, <2>1 DEF StrayArrives
  <2>3. seq \in Nat
    BY RelayAssumption
  <2>4. publish \in [Sns -> Publication] /\ \A t \in Sns : publish[t].step = "checked" => publish[t].at \in Owners
    BY Zenon DEF RouteInv, RoutesOK
  <2>5. RoutesOK(online, ro, acked, publish)
    BY Zenon, <2>2, <2>3, <2>4, PutRoute
  <2> QED BY Zenon, <1>1, <2>1, <2>5, RouteCommit DEF RouteInv
<1> QED BY Zenon, <1>2, <1>3

\* The sessions, the routes and the acknowledgements of one owner change
OwnerKeeps(x, f, g) ==
  /\ x \in SUBSET Sns /\ f \in [Sns -> Nat] /\ g \in [Sns -> Nat]
  /\ \A s \in Sns : f[s] >= g[s] /\ (s \notin x => g[s] = 0)

OwnerBecomes(o, x, f, g) ==
  /\ online' = [online EXCEPT ![o] = x] /\ routes' = [routes EXCEPT ![o] = f]
  /\ acked' = [acked EXCEPT ![o] = g] /\ publish' = publish /\ fresh' \in [Sns -> SUBSET Owners]

LEMMA OwnerChanges ==
  ASSUME RouteInv, NEW o \in Owners, NEW x, NEW f, NEW g, OwnerKeeps(x, f, g), OwnerBecomes(o, x, f, g)
  PROVE  RouteInv'
<1>1. PICK on, ro, ac : on = online' /\ ro = routes' /\ ac = acked'
  BY Zenon
<1>2. on \in [Owners -> SUBSET Sns] /\ on[o] = x /\ \A p \in Owners : p # o => on[p] = online[p]
  BY Zenon, <1>1 DEF RouteInv, RoutesOK, OwnerKeeps, OwnerBecomes
<1>3. ro \in [Owners -> [Sns -> Nat]] /\ ro[o] = f /\ \A p \in Owners : p # o => ro[p] = routes[p]
  BY Zenon, <1>1 DEF RouteInv, RoutesOK, OwnerKeeps, OwnerBecomes
<1>4. ac \in [Owners -> [Sns -> Nat]] /\ ac[o] = g /\ \A p \in Owners : p # o => ac[p] = acked[p]
  BY Zenon, <1>1 DEF RouteInv, RoutesOK, OwnerKeeps, OwnerBecomes
<1>5. \A p \in Owners, s \in Sns : ro[p][s] >= ac[p][s] /\ (s \notin on[p] => ac[p][s] = 0)
  BY <1>2, <1>3, <1>4 DEF RouteInv, RoutesOK, OwnerKeeps
<1>6. RoutesOK(on, ro, ac, publish)
  BY Zenon, <1>2, <1>3, <1>4, <1>5 DEF RouteInv, RoutesOK
<1> QED BY Zenon, <1>1, <1>6, RouteCommit DEF OwnerBecomes

LEMMA OwnerTypes ==
  ASSUME RouteInv, NEW o \in Owners
  PROVE  /\ online[o] \in SUBSET Sns /\ routes[o] \in [Sns -> Nat] /\ acked[o] \in [Sns -> Nat]
         /\ online = [online EXCEPT ![o] = online[o]] /\ routes = [routes EXCEPT ![o] = routes[o]]
         /\ acked = [acked EXCEPT ![o] = acked[o]]
         /\ \A s \in Sns : routes[o][s] >= acked[o][s] /\ (s \notin online[o] => acked[o][s] = 0)
         /\ fresh \in [Sns -> SUBSET Owners]
BY Zenon DEF RouteInv, RoutesOK

LEMMA SessionRenewedOK ==
  ASSUME RouteInv, NEW o \in Owners, NEW s \in Sns, SessionRenewed(o, s)
  PROVE  RouteInv'
<1>1. PICK x : x = online[o] \cup {s}
  BY Zenon
<1>2. PICK f, g : f = routes[o] /\ g = acked[o]
  BY Zenon
<1>3. /\ x \in SUBSET Sns /\ f \in [Sns -> Nat] /\ g \in [Sns -> Nat]
      /\ \A t \in Sns : f[t] >= g[t] /\ (t \notin x => g[t] = 0)
  BY Zenon, <1>1, <1>2, OwnerTypes
<1>4. /\ online' = [online EXCEPT ![o] = x] /\ routes' = [routes EXCEPT ![o] = f]
      /\ acked' = [acked EXCEPT ![o] = g] /\ publish' = publish /\ fresh' \in [Sns -> SUBSET Owners]
  BY Zenon, <1>1, <1>2, OwnerTypes DEF SessionRenewed
<1>5. OwnerKeeps(x, f, g) /\ OwnerBecomes(o, x, f, g)
  BY Zenon, <1>3, <1>4 DEF OwnerKeeps, OwnerBecomes
<1> QED BY Zenon, <1>5, OwnerChanges

LEMMA SessionEndsOK ==
  ASSUME RouteInv, NEW o \in Owners, NEW s \in Sns, SessionEnds(o, s)
  PROVE  RouteInv'
<1>1. PICK x : x = online[o] \ {s}
  BY Zenon
<1>2. PICK f, g : f = routes[o] /\ g = acked[o]
  BY Zenon
<1>3. PICK g2 : g2 = [g EXCEPT ![s] = 0]
  BY Zenon
<1>4. /\ f \in [Sns -> Nat] /\ g \in [Sns -> Nat]
      /\ \A t \in Sns : f[t] >= g[t] /\ (t \notin online[o] => g[t] = 0)
  BY Zenon, <1>2, OwnerTypes
<1>5. g2 \in [Sns -> Nat] /\ g2[s] = 0 /\ \A t \in Sns : t # s => g2[t] = g[t]
  BY Zenon, <1>3, <1>4
<1>6. x \in SUBSET Sns /\ \A t \in Sns : f[t] >= g2[t] /\ (t \notin x => g2[t] = 0)
  BY <1>1, <1>4, <1>5, OwnerTypes
<1>7. acked' = [acked EXCEPT ![o] = g2]
  BY Zenon, <1>2, <1>3 DEF SessionEnds, RouteInv, RoutesOK
<1>8. /\ online' = [online EXCEPT ![o] = x] /\ routes' = [routes EXCEPT ![o] = f]
      /\ publish' = publish /\ fresh' \in [Sns -> SUBSET Owners]
  BY Zenon, <1>1, <1>2, OwnerTypes DEF SessionEnds
<1>9. OwnerKeeps(x, f, g2) /\ OwnerBecomes(o, x, f, g2)
  BY Zenon, <1>4, <1>5, <1>6, <1>7, <1>8 DEF OwnerKeeps, OwnerBecomes
<1> QED BY Zenon, <1>9, OwnerChanges

LEMMA OwnerCrashesOK ==
  ASSUME RouteInv, NEW o \in Owners, OwnerCrashes(o)
  PROVE  RouteInv'
<1>1. PICK x, f : x = {} /\ f = [s \in Sns |-> 0]
  BY Zenon
<1>2. x \in SUBSET Sns /\ f \in [Sns -> Nat] /\ \A t \in Sns : f[t] >= f[t] /\ (t \notin x => f[t] = 0)
  BY <1>1
<1>3. /\ online' = [online EXCEPT ![o] = x] /\ routes' = [routes EXCEPT ![o] = f]
      /\ acked' = [acked EXCEPT ![o] = f] /\ publish' = publish /\ fresh' \in [Sns -> SUBSET Owners]
  BY Zenon, <1>1, OwnerTypes DEF OwnerCrashes
<1>4. OwnerKeeps(x, f, f) /\ OwnerBecomes(o, x, f, f)
  BY Zenon, <1>2, <1>3 DEF OwnerKeeps, OwnerBecomes
<1> QED BY Zenon, <1>4, OwnerChanges

\* A query keeps the routes of the sessions that are online
LEMMA OwnerAnswersOK ==
  ASSUME RouteInv, NEW r \in Jobs, NEW o \in Owners, OwnerAnswers(r, o)
  PROVE  RouteInv'
<1>1. PICK x, f, g : x = online[o] /\ f = Retained(o) /\ g = acked[o]
  BY Zenon
<1>2. /\ x \in SUBSET Sns /\ routes[o] \in [Sns -> Nat] /\ g \in [Sns -> Nat]
      /\ \A t \in Sns : routes[o][t] >= g[t] /\ (t \notin x => g[t] = 0)
  BY Zenon, <1>1, OwnerTypes
<1>3. f \in [Sns -> Nat] /\ \A t \in Sns : f[t] = IF t \in x THEN routes[o][t] ELSE 0
  BY Zenon, <1>1, <1>2 DEF Retained
<1>4. \A t \in Sns : f[t] >= g[t] /\ (t \notin x => g[t] = 0)
  BY <1>2, <1>3
<1>5. fresh' \in [Sns -> SUBSET Owners]
  <2>1. Receiver[r] \in Sns
    BY Zenon, RelayAssumption
  <2> QED BY Zenon, <2>1, RefreshedType DEF OwnerAnswers
<1>6. /\ online' = [online EXCEPT ![o] = x] /\ routes' = [routes EXCEPT ![o] = f]
      /\ acked' = [acked EXCEPT ![o] = g] /\ publish' = publish
  BY Zenon, <1>1, OwnerTypes DEF OwnerAnswers
<1>7. OwnerKeeps(x, f, g) /\ OwnerBecomes(o, x, f, g)
  BY Zenon, <1>2, <1>3, <1>4, <1>5, <1>6 DEF OwnerKeeps, OwnerBecomes
<1> QED BY Zenon, <1>7, OwnerChanges

LEMMA HealthLapsesOK ==
  ASSUME RouteInv, NEW s \in Sns, NEW o \in Owners, HealthLapses(s, o)
  PROVE  RouteInv'
<1>1. PICK x \in SUBSET Owners : x = fresh[s] \ {o}
  BY Zenon DEF RouteInv
<1>2. fresh' \in [Sns -> SUBSET Owners]
  BY Zenon, <1>1 DEF HealthLapses, RouteInv
<1> QED BY Zenon, <1>2, DirectorySame DEF HealthLapses

LEMMA RoutesStart == RelayInit => RouteInv
<1> SUFFICES ASSUME RelayInit PROVE RouteInv
  BY Zenon
<1>1. PICK setting \in Settings :
         /\ fresh = [s \in Sns |-> setting.owners]
         /\ publish = [s \in Sns |-> Idle(IF s \in setting.publishers THEN "idle" ELSE "off")]
  BY Zenon DEF RelayInit
<1>2. setting.owners \in SUBSET Owners
  BY Zenon, RelayAssumption
<1>3. fresh \in [Sns -> SUBSET Owners]
  BY Zenon, <1>1, <1>2
<1>4. publish \in [Sns -> Publication] /\ \A s \in Sns : publish[s].step # "checked"
  <2>1. \A step \in {"idle", "off"} : Idle(step) \in Publication /\ Idle(step).step = step
    BY Zenon DEF Idle, Publication
  <2> QED BY Zenon, <1>1, <2>1
<1>5. /\ online \in [Owners -> SUBSET Sns]
      /\ routes \in [Owners -> [Sns -> Nat]] /\ acked \in [Owners -> [Sns -> Nat]]
      /\ \A o \in Owners, s \in Sns : acked[o][s] = 0
  BY DEF RelayInit
<1> QED BY <1>3, <1>4, <1>5 DEF RouteInv, RoutesOK

LEMMA RouteSteps == RouteInv /\ [RelayNext]_relayVars => RouteInv'
<1> SUFFICES ASSUME RouteInv, [RelayNext]_relayVars PROVE RouteInv'
  BY Zenon
<1>1. ASSUME UNCHANGED directoryVars PROVE RouteInv'
  BY Zenon, <1>1, DirectorySame DEF directoryVars, RouteInv
<1>2. CASE UNCHANGED relayVars
  BY Zenon, <1>1, <1>2 DEF relayVars
<1>3. ASSUME NEW s \in Sns, PeerStep(s) PROVE RouteInv'
  BY Zenon, <1>1, <1>3 DEF PeerStep, Report, LinkLost, OnPeerDisconnected, LateRelay
<1>4. ASSUME NEW s \in Sns, PublishStep(s) PROVE RouteInv'
  BY Zenon, <1>4, BeginPublishOK, StoreOK, EndPublishOK, PublishArrivesOK, PublishFailsOK, HealthLapsesOK DEF PublishStep
<1>5. ASSUME NEW o \in Owners, OwnerStep(o) PROVE RouteInv'
  <2>1. CASE OwnerRestarts(o)
    BY Zenon, <2>1, DirectorySame DEF OwnerRestarts, RouteInv
  <2> QED BY Zenon, <1>5, <2>1, OwnerCrashesOK, SessionRenewedOK, SessionEndsOK, StrayArrivesOK DEF OwnerStep
<1>6. ASSUME NEW r \in Jobs, RequestStep(r) PROVE RouteInv'
  <2>1. ASSUME NEW o \in Owners, OwnerAnswers(r, o) PROVE RouteInv'
    BY Zenon, <2>1, OwnerAnswersOK
  <2>2. CASE \/ Receive(r) \/ LookupEnds(r) \/ Exhausted(r) \/ SkipOwn(r) \/ Relay(r)
             \/ RelayRefused(r) \/ RelayFails(r) \/ \E o \in Owners : OwnerFails(r, o)
    BY Zenon, <1>1, <2>2 DEF Receive, LookupEnds, Exhausted, SkipOwn, Relay, RelayRefused, RelayFails, OwnerFails
  <2>3. CASE \/ Called(r) \/ SendDone(r) \/ SendFails(r) \/ RendezvousBegins(r) \/ TargetAnswers(r)
             \/ AnswerRejected(r) \/ StreamFails(r) \/ RendezvousTimeout(r)
    BY Zenon, <1>1, <2>3 DEF Called, SendDone, SendFails, RendezvousBegins, TargetAnswers, AnswerRejected, StreamFails,
                      RendezvousTimeout
  <2> QED BY Zenon, <1>6, <2>1, <2>2, <2>3 DEF RequestStep
<1> QED BY Zenon, <1>2, <1>3, <1>4, <1>5, <1>6 DEF RelayNext

(***************************************************************************)
(* A route an owner acknowledged stays there, in that version or a newer   *)
(* one, while the session of its SN is online: whatever stray or repeated  *)
(* publications arrive, however a query prunes, for any number of SNs and  *)
(* owners and any sequence numbers (route.rs, store.rs, client.rs).        *)
(***************************************************************************)
THEOREM AcknowledgedRoutesStay == RelaySpec => []AckedRouteKept
<1>1. RouteInv => AckedRouteKept
  BY Zenon DEF RouteInv, RoutesOK, AckedRouteKept
<1> QED BY <1>1, RoutesStart, RouteSteps, PTL DEF RelaySpec

-----------------------------------------------------------------------------
(***************************************************************************)
(* The answer "not found", for any SNs, owners and requests.  What a       *)
(* handler has still to try names every route that has been open since the *)
(* request began: the owners it has not asked and the leases it has found  *)
(* during the lookup, then the list made of those leases, whose head is    *)
(* dropped only when the SN of it is no such route.                        *)
(***************************************************************************)

Lease == [sn : Sns, seq : Nat]

\* The request holds the target to be at the SN of a lease, or at its own
Delivers(x) == x.step \in {"found", "sending", "asking"}

\* x, the state of r's handler, has yet to try every route of st, the routes
\* open ever since r began
Trail(r, x, st) ==
  /\ {"kind", "step", "left", "found", "queue", "at", "heard", "answer"} \subseteq DOMAIN x
  /\ x.found \subseteq Lease /\ IsFiniteSet(x.found) /\ x.queue \in Seq(Sns)
  /\ x.step = "new" => st = {} /\ ~x.heard
  /\ x.step = "lookup" =>
       x.heard \/ \A p \in st : /\ p[1] # Local /\ p[2] # Receiver[r]
                                /\ p[1] \in x.left \/ \E l \in x.found : l.sn = p[2]
  /\ x.step = "relay" \/ (Delivers(x) /\ x.at # Receiver[r]) =>
       x.heard \/ \A p \in st : /\ p[2] # Receiver[r]
                                /\ \E i \in DOMAIN x.queue : x.queue[i] = p[2]
  /\ Delivers(x) /\ x.at # Receiver[r] => x.queue # <<>> /\ x.at = Head(x.queue)
  /\ x.answer = "notfound" => x.step = "done" /\ st = {}

TrailInv ==
  /\ request = [r \in Jobs |-> request[r]]
  /\ steady \in [Jobs -> SUBSET Route] /\ \A r \in Jobs : \A p \in steady[r] : Open(r, p)
  /\ \A r \in Jobs : Trail(r, request[r], steady[r])

\* R orders S, and r places every element of S behind the ones before it
Orders(R, S) ==
  /\ \A x \in S : <<x, x>> \notin R
  /\ \A x, y \in S : x # y => <<x, y>> \in R \/ <<y, x>> \in R
  /\ \A x, y, z \in S : <<x, y>> \in R /\ <<y, z>> \in R => <<x, z>> \in R
Places(R, S) == [x \in S |-> Cardinality({y \in S : <<y, x>> \in R})]

\* Every place is taken, by one element
AllTaken(f, S) ==
  /\ \A x \in S : f[x] \in Nat /\ f[x] + 1 \in 1..Cardinality(S)
  /\ \A x, y \in S : f[x] = f[y] => x = y
  /\ \A i \in 1..Cardinality(S) : \E x \in S : f[x] = i - 1

\* A finite set that is ordered has a place for each of its elements, and no other
LEMMA PlacesTaken ==
  ASSUME NEW S, IsFiniteSet(S), NEW R, Orders(R, S)
  PROVE  AllTaken(Places(R, S), S)
<1> PICK f : f = Places(R, S)
  BY Zenon
<1>1. PICK n \in Nat : n = Cardinality(S)
  BY Zenon, FS_CardinalityType
<1> DEFINE B(x) == {y \in S : <<y, x>> \in R}
<1>2. \A x \in S : f[x] = Cardinality(B(x))
  BY Zenon DEF Places
<1> HIDE DEF B
<1>3. ASSUME NEW x \in S
      PROVE  /\ B(x) \in SUBSET S /\ IsFiniteSet(B(x)) /\ x \notin B(x) /\ Cardinality(B(x)) \in Nat
  <2>1. B(x) \in SUBSET S /\ x \notin B(x)
    BY Zenon DEF B, Orders
  <2>2. IsFiniteSet(B(x))
    BY Zenon, <2>1, FS_Subset
  <2> QED  BY Zenon, <2>1, <2>2, FS_CardinalityType
<1>4. ASSUME NEW x \in S PROVE f[x] \in Nat /\ f[x] + 1 \in 1..n
  <2>1. IsFiniteSet(S \ {x}) /\ Cardinality(S \ {x}) = n - 1
    BY Zenon, <1>1, FS_RemoveElement
  <2>2. B(x) \in SUBSET (S \ {x})
    BY Zenon, <1>3
  <2>3. Cardinality(B(x)) <= n - 1
    BY Zenon, <2>1, <2>2, FS_Subset
  <2> QED  BY <1>1, <1>2, <1>3, <2>3
<1>5. ASSUME NEW x \in S, NEW y \in S, <<x, y>> \in R PROVE f[x] < f[y]
  <2>1. B(x) \cup {x} \in SUBSET B(y)
    BY Zenon, <1>5 DEF B, Orders
  <2>2. Cardinality(B(x) \cup {x}) = Cardinality(B(x)) + 1
    BY Zenon, <1>3, FS_AddElement
  <2>3. Cardinality(B(x) \cup {x}) <= Cardinality(B(y))
    BY Zenon, <1>3, <2>1, FS_Subset
  <2> QED  BY <1>2, <1>3, <2>2, <2>3
<1>6. ASSUME NEW x \in S, NEW y \in S, f[x] = f[y] PROVE x = y
  <2>1. ~(f[x] < f[y]) /\ ~(f[y] < f[x])
    BY <1>4, <1>6
  <2> QED  BY Zenon, <1>5, <2>1 DEF Orders
<1>7. PICK g : g = [x \in S |-> f[x] + 1]
  BY Zenon
<1>8. g \in [S -> 1..n] /\ \A x, y \in S : g[x] = g[y] => x = y
  <2>1. \A x \in S : g[x] = f[x] + 1
    BY Zenon, <1>7
  <2>2. g \in [S -> 1..n]
    BY Zenon, <1>4, <1>7
  <2>3. ASSUME NEW x \in S, NEW y \in S, g[x] = g[y] PROVE x = y
    <3>1. f[x] \in Nat /\ f[y] \in Nat
      BY Zenon, <1>4
    <3>2. f[x] + 1 = f[y] + 1
      BY Zenon, <2>1, <2>3
    <3>3. f[x] = f[y]
      BY <3>1, <3>2
    <3> QED  BY Zenon, <1>6, <3>3
  <2> QED  BY Zenon, <2>2, <2>3
<1>9. IsFiniteSet(1..n) /\ Cardinality(1..n) = n
  BY FS_Interval
<1>10. g \in Injection(S, 1..n)
  BY Zenon, <1>8 DEF Injection, IsInjective
<1>11. g \in Surjection(S, 1..n)
  BY Zenon, <1>1, <1>9, <1>10, FS_Injection
<1>12. ASSUME NEW i \in 1..n PROVE \E x \in S : f[x] = i - 1
  <2>1. PICK x \in S : g[x] = i
    BY Zenon, <1>11 DEF Surjection
  <2> QED  BY <1>4, <1>7, <2>1
<1> QED  BY Zenon, <1>1, <1>4, <1>6, <1>12 DEF AllTaken

\* The list a lookup ends with names every SN of a lease it found
LEMMA QueueNamesAll ==
  ASSUME NEW S, S \subseteq Lease, IsFiniteSet(S)
  PROVE  /\ Deduped(NewestFirst(S)) \in Seq(Sns)
         /\ \A l \in S : \E i \in DOMAIN Deduped(NewestFirst(S)) : Deduped(NewestFirst(S))[i] = l.sn
<1>1. \A x \in S : x.seq \in Nat /\ x.sn \in Nat /\ x.sn \in Sns /\ x = [sn |-> x.sn, seq |-> x.seq]
  <2>1. \A x \in Lease : x.seq \in Nat /\ x.sn \in Sns /\ x = [sn |-> x.sn, seq |-> x.seq]
    BY DEF Lease
  <2>2. Sns \subseteq Nat
    BY Zenon, RelayAssumption
  <2> QED  BY Zenon, <2>1, <2>2
<1>2. PICK n \in Nat : n = Cardinality(S)
  BY Zenon, FS_CardinalityType
<1>3. PICK s : s = NewestFirst(S)
  BY Zenon
<1>4. /\ s = [i \in 1..n |-> s[i]] /\ \A i \in 1..n : s[i] \in S
      /\ \A l \in S : \E i \in 1..n : s[i] = l
  <2>1. PICK R : R = {p \in S \X S : Newer(p[1], p[2])}
    BY Zenon
  <2>2. \A x, y \in S : <<x, y>> \in R <=> Newer(x, y)
    BY Zenon, <2>1
  <2>3. PICK f : f = Places(R, S)
    BY Zenon
  <2>4. \A x \in S : <<x, x>> \notin R
    BY <1>1, <2>2 DEF Newer
  <2>5. \A x, y \in S : x # y => <<x, y>> \in R \/ <<y, x>> \in R
    <3>1. ASSUME NEW x \in S, NEW y \in S, x # y PROVE Newer(x, y) \/ Newer(y, x)
      <4>1. x.sn # y.sn \/ x.seq # y.seq
        BY Zenon, <1>1, <3>1
      <4> QED  BY <1>1, <4>1 DEF Newer
    <3> QED  BY Zenon, <2>2, <3>1
  <2>6. \A x, y, z \in S : <<x, y>> \in R /\ <<y, z>> \in R => <<x, z>> \in R
    <3>1. \A x, y, z \in S : Newer(x, y) /\ Newer(y, z) => Newer(x, z)
      BY <1>1 DEF Newer
    <3> QED  BY Zenon, <2>2, <3>1
  <2>7. /\ \A x \in S : f[x] \in Nat /\ f[x] + 1 \in 1..n
        /\ \A x, y \in S : f[x] = f[y] => x = y
        /\ \A i \in 1..n : \E x \in S : f[x] = i - 1
    <3>1. Orders(R, S)
      BY Zenon, <2>4, <2>5, <2>6 DEF Orders
    <3>2. AllTaken(f, S)
      BY Zenon, <2>3, <3>1, PlacesTaken
    <3> QED  BY Zenon, <1>2, <3>2 DEF AllTaken
  <2>8. \A x \in S : f[x] = Cardinality({y \in S : Newer(y, x)})
    <3>1. \A x \in S : {y \in S : <<y, x>> \in R} = {y \in S : Newer(y, x)}
      BY Zenon, <2>2
    <3> QED  BY Zenon, <2>3, <3>1 DEF Places
  <2>9. s = [i \in 1..n |-> CHOOSE x \in S : Cardinality({y \in S : Newer(y, x)}) = i - 1]
    BY Zenon, <1>2, <1>3 DEF NewestFirst
  <2>10. ASSUME NEW i \in 1..n PROVE s[i] \in S /\ f[s[i]] = i - 1
    <3>1. s[i] = CHOOSE x \in S : Cardinality({y \in S : Newer(y, x)}) = i - 1
      BY Zenon, <2>9
    <3>2. \E x \in S : Cardinality({y \in S : Newer(y, x)}) = i - 1
      BY Zenon, <2>7, <2>8
    <3>3. s[i] \in S /\ Cardinality({y \in S : Newer(y, s[i])}) = i - 1
      BY Zenon, <3>1, <3>2
    <3> QED  BY Zenon, <2>8, <3>3
  <2>11. ASSUME NEW l \in S PROVE \E i \in 1..n : s[i] = l
    <3>1. PICK i \in 1..n : i = f[l] + 1
      BY Zenon, <2>7
    <3>2. f[l] = i - 1
      BY <2>7, <3>1
    <3> QED  BY Zenon, <2>7, <2>10, <3>2
  <2> QED  BY Zenon, <2>9, <2>10, <2>11
<1> DEFINE kept(i) == i = 1 \/ s[i].sn # s[i - 1].sn
           K == {j \in DOMAIN s : kept(j)}
<1>5. DOMAIN s = 1..n
  BY Zenon, <1>4
<1>6. K \in SUBSET (1..n) /\ IsFiniteSet(K)
  <2>1. IsFiniteSet(1..n) /\ K \in SUBSET (1..n)
    BY <1>5, FS_Interval
  <2> QED  BY Zenon, <2>1, FS_Subset
<1>7. PICK m \in Nat : m = Cardinality(K)
  BY Zenon, <1>6, FS_CardinalityType
<1> DEFINE Upto(j) == {k \in 1..j : kept(k)}
<1>8. PICK d : d = Deduped(s)
  BY Zenon
<1>9. d = [i \in 1..Cardinality(K) |->
             s[CHOOSE j \in DOMAIN s : kept(j) /\ Cardinality(Upto(j)) = i].sn]
  BY Zenon, <1>8 DEF Deduped
<1>10. /\ \A i \in 1..m : \E j \in K : Cardinality(Upto(j)) = i
       /\ \A j \in K : Cardinality(Upto(j)) \in 1..m
       /\ \A i, j \in K : Cardinality(Upto(i)) = Cardinality(Upto(j)) => i = j
  <2>1. PICK R : R = {p \in K \X K : p[1] < p[2]}
    BY Zenon
  <2>2. \A i, j \in K : <<i, j>> \in R <=> i < j
    BY Zenon, <2>1
  <2>3. \A i \in K : i \in Int
    BY <1>6
  <2>4. PICK f : f = Places(R, K)
    BY Zenon
  <2> HIDE DEF K
  <2>5. \A i \in K : <<i, i>> \notin R
    BY <2>2, <2>3
  <2>6. \A i, j \in K : i # j => <<i, j>> \in R \/ <<j, i>> \in R
    BY <2>2, <2>3
  <2>7. \A i, j, k \in K : <<i, j>> \in R /\ <<j, k>> \in R => <<i, k>> \in R
    BY <2>2, <2>3
  <2>8. /\ \A j \in K : f[j] \in Nat /\ f[j] + 1 \in 1..m
        /\ \A i, j \in K : f[i] = f[j] => i = j
        /\ \A i \in 1..m : \E j \in K : f[j] = i - 1
    <3>1. Orders(R, K)
      BY Zenon, <2>5, <2>6, <2>7 DEF Orders
    <3>2. AllTaken(f, K)
      BY Zenon, <1>6, <2>4, <3>1, PlacesTaken
    <3> QED  BY Zenon, <1>7, <3>2 DEF AllTaken
  <2>9. ASSUME NEW j \in K PROVE Cardinality(Upto(j)) = f[j] + 1
    <3>1. PICK B : B = {k \in K : <<k, j>> \in R}
      BY Zenon
    <3>2. f[j] = Cardinality(B) /\ j \notin B /\ B \in SUBSET K
      BY Zenon, <2>4, <2>5, <3>1 DEF Places
    <3>3. IsFiniteSet(B)
      BY Zenon, <1>6, <3>2, FS_Subset
    <3>4. Cardinality(B \cup {j}) = f[j] + 1
      BY Zenon, <3>2, <3>3, FS_AddElement
    <3>5. ASSUME NEW k PROVE k \in Upto(j) <=> k \in B \cup {j}
      <4>1. j \in 1..n /\ kept(j)
        BY Zenon, <1>5 DEF K
      <4>2. k \in B <=> k \in 1..n /\ kept(k) /\ k < j
        <5>1. k \in B <=> k \in K /\ k < j
          BY Zenon, <2>2, <3>1
        <5> QED  BY Zenon, <1>5, <5>1 DEF K
      <4> HIDE DEF kept
      <4>3. k \in 1..j <=> k \in 1..n /\ (k < j \/ k = j)
        BY <4>1
      <4>4. k \in Upto(j) <=> k \in 1..j /\ kept(k)
        BY Zenon
      <4> QED  BY Zenon, <4>1, <4>2, <4>3, <4>4
    <3> HIDE DEF Upto
    <3>6. Upto(j) = B \cup {j}
      BY Zenon, <3>5
    <3> QED  BY Zenon, <3>4, <3>6
  <2> HIDE DEF Upto
  <2>10. \A i \in 1..m : \E j \in K : Cardinality(Upto(j)) = i
    <3>1. ASSUME NEW i \in 1..m PROVE \E j \in K : Cardinality(Upto(j)) = i
      <4>1. PICK j \in K : f[j] = i - 1
        BY Zenon, <2>8
      <4>2. f[j] + 1 = i
        BY <4>1
      <4> QED  BY Zenon, <2>9, <4>2
    <3> QED  BY Zenon, <3>1
  <2>11. \A i, j \in K : Cardinality(Upto(i)) = Cardinality(Upto(j)) => i = j
    <3>1. ASSUME NEW i \in K, NEW j \in K, f[i] + 1 = f[j] + 1 PROVE i = j
      <4>1. f[i] = f[j]
        BY <2>8, <3>1
      <4> QED  BY Zenon, <2>8, <4>1
    <3> QED  BY Zenon, <2>9, <3>1
  <2> QED  BY Zenon, <2>8, <2>9, <2>10, <2>11
<1> HIDE DEF Upto
<1>11. ASSUME NEW i \in 1..m
       PROVE  \E j \in K : Cardinality(Upto(j)) = i /\ d[i] = s[j].sn
  <2>1. PICK j : j = CHOOSE k \in DOMAIN s : kept(k) /\ Cardinality(Upto(k)) = i
    BY Zenon
  <2>2. \E k \in DOMAIN s : kept(k) /\ Cardinality(Upto(k)) = i
    BY Zenon, <1>10
  <2>3. j \in K /\ Cardinality(Upto(j)) = i
    BY Zenon, <2>1, <2>2
  <2>4. d[i] = s[j].sn
    BY Zenon, <1>7, <1>9, <2>1
  <2> QED  BY Zenon, <2>3, <2>4
<1>12. d = [i \in 1..m |-> d[i]] /\ DOMAIN d = 1..m
  <2>1. DOMAIN d = 1..m
    BY Zenon, <1>7, <1>9
  <2>2. d = [i \in DOMAIN d |-> d[i]]
    <3> HIDE DEF K
    <3> QED  BY <1>9
  <2> QED  BY Zenon, <2>1, <2>2
<1>13. d \in Seq(Sns)
  <2>1. \A i \in 1..m : d[i] \in Sns
    BY <1>1, <1>4, <1>5, <1>11
  <2>2. d \in [1..m -> Sns]
    BY Zenon, <1>12, <2>1
  <2> QED  BY <2>2
<1>14. ASSUME NEW j \in K PROVE \E i \in DOMAIN d : d[i] = s[j].sn
  <2>1. PICK i \in 1..m : i = Cardinality(Upto(j))
    BY Zenon, <1>10
  <2>2. d[i] = s[j].sn
    BY Zenon, <1>10, <1>11, <2>1
  <2> QED  BY Zenon, <1>12, <2>2
<1>15. ASSUME NEW l \in S PROVE \E i \in DOMAIN d : d[i] = l.sn
  <2>1. PICK T : T = {j \in 1..n : s[j].sn = l.sn}
    BY Zenon
  <2>2. PICK a \in T : TRUE
    BY Zenon, <1>4, <2>1
  <2>3. T \subseteq Nat
    BY <2>1
  <2>4. PICK j \in T : \A k \in T : ~(k < j)
    <3>1. PICK j \in T : \A k \in T : <<k, j>> \notin OpToRel(<, Nat)
      BY Zenon, <2>2, <2>3, NatLessThanWellFounded, WFMin
    <3>2. \A k \in T : ~(k < j)
      BY Zenon, <2>3, <3>1 DEF OpToRel
    <3> QED  BY Zenon, <3>2
  <2>5. kept(j) /\ j \in 1..n
    <3>1. j \in 1..n /\ j \in Int /\ s[j].sn = l.sn
      BY <2>1
    <3>2. CASE j = 1
      BY Zenon, <3>1, <3>2
    <3>3. CASE j # 1
      <4>1. j - 1 \in 1..n /\ j - 1 < j
        BY <3>1, <3>3
      <4>2. j - 1 \notin T
        BY Zenon, <2>4, <4>1
      <4>3. s[j - 1].sn # l.sn
        BY Zenon, <2>1, <4>1, <4>2
      <4> QED  BY Zenon, <3>1, <4>3
    <3> QED  BY Zenon, <3>2, <3>3
  <2>6. j \in K /\ s[j].sn = l.sn
    BY Zenon, <1>5, <2>1, <2>5
  <2> QED  BY Zenon, <1>14, <2>6
<1> QED  BY Zenon, <1>3, <1>8, <1>13, <1>15

\* A route that closes leaves the rest to be tried
LEMMA TrailShrinks ==
  ASSUME NEW r, NEW x, NEW st, Trail(r, x, st), NEW few, few \subseteq st
  PROVE  Trail(r, x, few)
BY Zenon DEF Trail

\* What a step leaves of the routes open ever since a request began
LEMMA WatchMeans ==
  ASSUME TrailInv, NEW r, NEW broken, Watch(r, broken)
  PROVE  /\ steady' \in [Jobs -> SUBSET Route]
         /\ \A q \in Jobs : request[q].step = "new" /\ request'[q].step # "new" =>
              steady'[q] = {p \in Route : Open(q, p)}
         /\ \A q \in Jobs : ~(request[q].step = "new" /\ request'[q].step # "new") =>
              /\ steady'[q] \subseteq steady[q]
              /\ \A p \in steady'[q] : Open(q, p)' /\ (q = r => p \notin broken)
<1>1. ASSUME NEW q \in Jobs, request[q].step = "new", request'[q].step # "new"
      PROVE  steady'[q] = {p \in Route : Open(q, p)}
  BY Zenon, <1>1 DEF Watch
<1>2. ASSUME NEW q \in Jobs, ~(request[q].step = "new" /\ request'[q].step # "new")
      PROVE  steady'[q] = {p \in steady[q] : Open(q, p)'} \ (IF q = r THEN broken ELSE {})
  BY Zenon, <1>2 DEF Watch
<1>3. ASSUME NEW q \in Jobs PROVE steady'[q] \subseteq Route
  <2>1. steady[q] \subseteq Route
    BY Zenon DEF TrailInv
  <2> QED  BY Zenon, <1>1, <1>2, <2>1
<1>4. steady' = [q \in Jobs |-> steady'[q]]
  BY Zenon DEF Watch
<1>5. steady' \in [Jobs -> SUBSET Route]
  BY Zenon, <1>3, <1>4
<1> QED  BY Zenon, <1>1, <1>2, <1>5

\* A step of r's handler, once r has begun
LEMMA TrailStep ==
  ASSUME TrailInv, NEW r \in Jobs, NEW broken, Watch(r, broken), request[r].step # "new",
         NEW x, request' = [request EXCEPT ![r] = x], Trail(r, x, steady'[r])
  PROVE  TrailInv'
<1>1. request' = [q \in Jobs |-> request'[q]] /\ request'[r] = x
      /\ \A q \in Jobs : q # r => request'[q] = request[q]
  BY Zenon DEF TrailInv
<1>2. \A q \in Jobs : ~(request[q].step = "new" /\ request'[q].step # "new")
  BY Zenon, <1>1
<1>3. \A q \in Jobs : \A p \in steady'[q] : Open(q, p)'
  BY Zenon, <1>2, WatchMeans
<1>4. ASSUME NEW q \in Jobs PROVE Trail(q, request'[q], steady'[q])
  <2>1. CASE q = r
    BY Zenon, <1>1, <2>1
  <2>2. CASE q # r
    <3>1. steady'[q] \subseteq steady[q] /\ Trail(q, request[q], steady[q])
      BY Zenon, <1>2, WatchMeans DEF TrailInv
    <3> QED  BY Zenon, <1>1, <2>2, <3>1, TrailShrinks
  <2> QED  BY Zenon, <2>1, <2>2
<1>5. steady' \in [Jobs -> SUBSET Route]
  BY Zenon, WatchMeans
<1> QED  BY Zenon, <1>1, <1>3, <1>4, <1>5 DEF TrailInv

\* A step of the target, an owner or a publication moves no handler
LEMMA TrailSame ==
  ASSUME TrailInv, request' = request, Unbroken
  PROVE  TrailInv'
<1>1. PICK r : Watch(r, {})
  BY Zenon DEF Unbroken
<1>2. /\ steady' \in [Jobs -> SUBSET Route]
      /\ \A q \in Jobs : steady'[q] \subseteq steady[q] /\ \A p \in steady'[q] : Open(q, p)'
  BY Zenon, <1>1, WatchMeans
<1>3. \A q \in Jobs : Trail(q, request'[q], steady'[q])
  BY Zenon, <1>2, TrailShrinks DEF TrailInv
<1>4. request' = [q \in Jobs |-> request'[q]]
  BY Zenon DEF TrailInv
<1> QED  BY Zenon, <1>2, <1>3, <1>4 DEF TrailInv

-----------------------------------------------------------------------------
\* The states a handler goes through

\* The handler answers
LEMMA TrailAnswered ==
  ASSUME NEW r, NEW q, NEW st, Trail(r, q, st), NEW a, a = "notfound" => st = {},
         NEW x, x = [q EXCEPT !.step = "done", !.answer = a]
  PROVE  Trail(r, x, st)
<1>1. /\ DOMAIN x = DOMAIN q /\ x.step = "done" /\ x.answer = a
      /\ x.found = q.found /\ x.queue = q.queue /\ x.heard = q.heard
  BY Zenon DEF Trail
<1> QED  BY Zenon, <1>1 DEF Trail, Delivers

\* The list of r still names an SN for every route of st
Named(r, x, st) ==
  x.heard \/ \A p \in st : p[2] # Receiver[r] /\ \E i \in DOMAIN x.queue : x.queue[i] = p[2]

\* The handler goes through its list
Listed(r, x) == x.step = "relay" \/ (Delivers(x) /\ x.at # Receiver[r])

\* The handler goes on with a list that names what is left
LEMMA TrailListed ==
  ASSUME NEW r, NEW q, NEW st, Trail(r, q, st), q.step # "done", NEW x,
         DOMAIN x = DOMAIN q, x.found = q.found, x.queue \in Seq(Sns), x.answer = q.answer,
         x.step \in {"relay", "found", "sending", "asking"},
         Listed(r, x) => Named(r, x, st),
         Delivers(x) /\ x.at # Receiver[r] => x.queue # <<>> /\ x.at = Head(x.queue)
  PROVE  Trail(r, x, st)
BY Zenon DEF Trail, Listed, Named

\* What the invariant says of a handler that goes through its list
LEMMA ListedMeans ==
  ASSUME NEW r, NEW q, NEW st, Trail(r, q, st), Listed(r, q)
  PROVE  /\ Named(r, q, st) /\ q.queue \in Seq(Sns) /\ q.step # "done"
         /\ Delivers(q) => q.queue # <<>> /\ q.at = Head(q.queue)
BY Zenon DEF Trail, Listed, Named, Delivers

\* The SN the list begins with has been tried
LEMMA TrailNext ==
  ASSUME NEW r, NEW q, NEW st, Trail(r, q, st), Listed(r, q), q.queue # <<>>,
         NEW h, q.heard => h, h \/ \A p \in st : p[2] # Head(q.queue),
         NEW x, DOMAIN x = DOMAIN q, x.step = "relay", x.answer = q.answer,
         x.found = q.found, x.queue = Tail(q.queue), x.heard = h
  PROVE  Trail(r, x, st)
<1>1. /\ DOMAIN x = DOMAIN q /\ x.step = "relay" /\ x.answer = q.answer
      /\ x.found = q.found /\ x.queue = Tail(q.queue) /\ x.heard = h
  BY Zenon
<1>2. Named(r, q, st) /\ q.queue \in Seq(Sns) /\ q.step # "done"
  BY Zenon, ListedMeans
<1>3. PICK l \in Seq(Sns) : l = q.queue /\ l # <<>>
  BY Zenon, <1>2
<1>4. /\ Tail(l) \in Seq(Sns) /\ Head(l) = l[1]
      /\ \A i \in DOMAIN l : i # 1 => i - 1 \in DOMAIN Tail(l) /\ Tail(l)[i - 1] = l[i]
  BY <1>3
<1>5. Named(r, x, st)
  <2>1. CASE h
    BY Zenon, <1>1, <2>1 DEF Named
  <2>2. ASSUME ~h, NEW p \in st
        PROVE  p[2] # Receiver[r] /\ \E i \in DOMAIN Tail(l) : Tail(l)[i] = p[2]
    <3>1. p[2] # Receiver[r] /\ p[2] # l[1]
      BY Zenon, <1>2, <1>3, <1>4, <2>2 DEF Named
    <3>2. PICK i \in DOMAIN l : l[i] = p[2]
      BY Zenon, <1>2, <1>3, <2>2 DEF Named
    <3> QED  BY Zenon, <1>4, <3>1, <3>2
  <2> QED  BY Zenon, <1>1, <1>3, <2>1, <2>2 DEF Named
<1>6. ~Delivers(x)
  BY Zenon, <1>1 DEF Delivers
<1> QED  BY Zenon, <1>1, <1>2, <1>3, <1>4, <1>5, <1>6, TrailListed

\* A request that has begun: what a step leaves open was open before it
LEMMA Begun ==
  ASSUME TrailInv, NEW r \in Jobs, NEW broken, Watch(r, broken), request[r].step # "new"
  PROVE  /\ Trail(r, request[r], steady'[r]) /\ r \in DOMAIN request
         /\ steady'[r] \subseteq Route /\ steady'[r] \subseteq steady[r]
         /\ \A p \in steady'[r] : Open(r, p)' /\ Open(r, p) /\ p \notin broken
<1>1. /\ steady'[r] \subseteq steady[r] /\ \A p \in steady'[r] : Open(r, p)' /\ p \notin broken
  BY Zenon, WatchMeans
<1>2. /\ Trail(r, request[r], steady[r]) /\ steady[r] \subseteq Route
      /\ \A p \in steady[r] : Open(r, p)
  BY Zenon DEF TrailInv
<1>3. r \in DOMAIN request
  BY Zenon DEF TrailInv
<1>4. Trail(r, request[r], steady'[r])
  BY Zenon, <1>1, <1>2, TrailShrinks
<1> QED  BY Zenon, <1>1, <1>2, <1>3, <1>4

\* The fields of a handler's state
LEMMA TrailFields ==
  ASSUME NEW r, NEW q, NEW st, Trail(r, q, st)
  PROVE  {"kind", "step", "left", "found", "queue", "at", "heard", "answer"} \subseteq DOMAIN q
BY Zenon DEF Trail

\* Answering keeps the invariant when "not found" is true
LEMMA AnswerOK ==
  ASSUME TrailInv, NEW r \in Jobs, NEW broken, Watch(r, broken), request[r].step # "new",
         NEW a, request' = Answered(r, a), a = "notfound" => steady'[r] = {}
  PROVE  TrailInv'
<1>1. PICK q : q = request[r]
  BY Zenon
<1>2. Trail(r, q, steady'[r]) /\ r \in DOMAIN request
  BY Zenon, <1>1, Begun
<1>3. PICK x : x = [q EXCEPT !.step = "done", !.answer = a]
  BY Zenon
<1>4. request' = [request EXCEPT ![r] = x]
  BY Zenon, <1>1, <1>2, <1>3 DEF Answered
<1>5. Trail(r, x, steady'[r])
  BY Zenon, <1>2, <1>3, TrailAnswered
<1> QED  BY Zenon, <1>4, <1>5, TrailStep

\* Going on to the next lease keeps the invariant when the one tried was no route
LEMMA NextLeaseOK ==
  ASSUME TrailInv, NEW r \in Jobs, NEW broken, Watch(r, broken), request' = NextLease(r),
         Listed(r, request[r]), request[r].queue # <<>>,
         request[r].heard \/ \A p \in steady'[r] : p[2] # Head(request[r].queue)
  PROVE  TrailInv'
<1>1. PICK q : q = request[r]
  BY Zenon
<1>2. request[r].step # "new"
  BY Zenon DEF Listed, Delivers
<1>3. Trail(r, q, steady'[r]) /\ r \in DOMAIN request
  BY Zenon, <1>1, <1>2, Begun
<1>4. PICK x : x = [q EXCEPT !.step = "relay", !.queue = Tail(@), !.at = 0]
  BY Zenon
<1>5. request' = [request EXCEPT ![r] = x]
  BY Zenon, <1>1, <1>3, <1>4 DEF NextLease
<1>6. /\ DOMAIN x = DOMAIN q /\ x.step = "relay" /\ x.answer = q.answer
      /\ x.found = q.found /\ x.queue = Tail(q.queue) /\ x.heard = q.heard
  BY Zenon, <1>3, <1>4, TrailFields
<1>7. PICK h : h = q.heard
  BY Zenon
<1>8. Trail(r, x, steady'[r])
  BY Zenon, <1>1, <1>3, <1>6, TrailNext
<1> QED  BY Zenon, <1>2, <1>5, <1>8, TrailStep

\* A delivery that fails shows that its SN was no route
LEMMA UndeliveredOK ==
  ASSUME TrailInv, NEW r \in Jobs, NEW broken, Watch(r, broken), request' = Undelivered(r),
         Delivers(request[r]), \A p \in steady'[r] : p[2] # request[r].at
  PROVE  TrailInv'
<1>1. request[r].step # "new"
  BY Zenon DEF Delivers
<1>2. CASE request[r].at = Receiver[r]
  BY Zenon, <1>1, <1>2, AnswerOK DEF Undelivered
<1>3. CASE request[r].at # Receiver[r]
  <2>1. Listed(r, request[r])
    BY Zenon, <1>3 DEF Listed
  <2>2. request[r].queue # <<>> /\ request[r].at = Head(request[r].queue)
    BY Zenon, <1>1, <2>1, Begun, ListedMeans
  <2> QED  BY Zenon, <1>3, <2>1, <2>2, NextLeaseOK DEF Undelivered
<1> QED  BY Zenon, <1>2, <1>3

\* The handler stays with the SN it has found
LEMMA StaysOK ==
  ASSUME TrailInv, NEW r \in Jobs, NEW broken, Watch(r, broken), Delivers(request[r]),
         NEW x, request' = [request EXCEPT ![r] = x], DOMAIN x = DOMAIN request[r], Delivers(x),
         x.found = request[r].found, x.queue = request[r].queue, x.answer = request[r].answer,
         x.at = request[r].at, x.heard = request[r].heard
  PROVE  TrailInv'
<1>1. PICK q : q = request[r]
  BY Zenon
<1>2. q.step # "new" /\ q.step # "done"
  BY Zenon, <1>1 DEF Delivers
<1>3. Trail(r, q, steady'[r])
  BY Zenon, <1>1, <1>2, Begun
<1>4. q.queue \in Seq(Sns)
  BY Zenon, <1>3 DEF Trail
<1>5. Listed(r, x) => Named(r, x, steady'[r]) /\ x.queue # <<>> /\ x.at = Head(x.queue)
  <2>1. Listed(r, x) => Listed(r, q)
    BY Zenon, <1>1 DEF Listed, Delivers
  <2>2. Listed(r, x) => Named(r, q, steady'[r]) /\ q.queue # <<>> /\ q.at = Head(q.queue)
    BY Zenon, <1>1, <1>3, <2>1, ListedMeans
  <2>3. Named(r, q, steady'[r]) => Named(r, x, steady'[r])
    BY Zenon, <1>1 DEF Named
  <2> QED  BY Zenon, <1>1, <2>2, <2>3
<1>6. Trail(r, x, steady'[r])
  BY Zenon, <1>1, <1>2, <1>3, <1>4, <1>5, TrailListed DEF Delivers, Listed
<1> QED  BY Zenon, <1>1, <1>2, <1>6, TrailStep

\* The target is at the SN the list begins with
LEMMA DeliveringOK ==
  ASSUME TrailInv, NEW r \in Jobs, NEW broken, Watch(r, broken), request[r].step = "relay",
         request[r].queue # <<>>, request' = Delivering(r, Head(request[r].queue))
  PROVE  TrailInv'
<1>1. PICK q, s : q = request[r] /\ s = Head(request[r].queue)
  BY Zenon
<1>2. Trail(r, q, steady'[r]) /\ r \in DOMAIN request
  BY Zenon, <1>1, Begun
<1>3. Named(r, q, steady'[r]) /\ q.queue \in Seq(Sns) /\ q.step # "done"
  BY Zenon, <1>1, <1>2, ListedMeans DEF Listed
<1>4. PICK x : x = [q EXCEPT !.step = "found", !.at = s]
  BY Zenon
<1>5. request' = [request EXCEPT ![r] = x]
  BY Zenon, <1>1, <1>2, <1>4 DEF Delivering
<1>6. /\ DOMAIN x = DOMAIN q /\ x.step = "found" /\ x.at = s /\ x.answer = q.answer
      /\ x.found = q.found /\ x.queue = q.queue /\ x.heard = q.heard
  BY Zenon, <1>2, <1>4, TrailFields
<1>7. Named(r, x, steady'[r])
  BY Zenon, <1>3, <1>6 DEF Named
<1>8. Trail(r, x, steady'[r])
  BY Zenon, <1>1, <1>2, <1>3, <1>6, <1>7, TrailListed
<1> QED  BY Zenon, <1>1, <1>5, <1>8, TrailStep

\* The list is used up, begins with the SN itself, or with one that does not answer
LEMMA ListStepsOK ==
  ASSUME TrailInv, NEW r \in Jobs,
         Exhausted(r) \/ SkipOwn(r) \/ RelayRefused(r) \/ RelayFails(r)
  PROVE  TrailInv'
<1>1. PICK q, s : q = request[r] /\ s = Head(request[r].queue)
  BY Zenon
<1>2. q.step = "relay" /\ Listed(r, q)
  BY Zenon, <1>1 DEF Exhausted, SkipOwn, RelayRefused, RelayFails, Relaying, Listed
<1>3. CASE Exhausted(r)
  <2>1. PICK a : a = IF q.heard THEN "ok" ELSE "notfound"
    BY Zenon
  <2>2. q.queue = <<>> /\ request' = Answered(r, a) /\ Watch(r, {})
    BY Zenon, <1>1, <1>3, <2>1 DEF Exhausted
  <2>3. Named(r, q, steady'[r])
    BY Zenon, <1>1, <1>2, <2>2, Begun, ListedMeans
  <2>4. DOMAIN q.queue = {}
    BY <2>2
  <2>5. a = "notfound" => steady'[r] = {}
    BY Zenon, <2>1, <2>3, <2>4 DEF Named
  <2> QED  BY Zenon, <1>1, <1>2, <2>2, <2>5, AnswerOK
<1>4. CASE SkipOwn(r)
  <2>1. s = Receiver[r] /\ q.queue # <<>> /\ request' = NextLease(r) /\ Watch(r, {})
    BY Zenon, <1>1, <1>4 DEF SkipOwn
  <2>2. Named(r, q, steady'[r])
    BY Zenon, <1>1, <1>2, <2>1, Begun, ListedMeans
  <2>3. q.heard \/ \A p \in steady'[r] : p[2] # s
    BY Zenon, <2>1, <2>2 DEF Named
  <2> QED  BY Zenon, <1>1, <1>2, <2>1, <2>3, NextLeaseOK
<1>5. CASE RelayRefused(r) \/ RelayFails(r)
  <2>1. q.queue # <<>> /\ request' = NextLease(r) /\ Watch(r, Through(s))
    BY Zenon, <1>1, <1>5 DEF RelayRefused, RelayFails, Relaying
  <2>2. \A p \in steady'[r] : p \in Route /\ p \notin Through(s)
    BY Zenon, <1>1, <1>2, <2>1, Begun
  <2>3. \A p \in steady'[r] : p[2] # s
    BY Zenon, <2>2 DEF Through
  <2> QED  BY Zenon, <1>1, <1>2, <2>1, <2>3, NextLeaseOK
<1> QED  BY Zenon, <1>3, <1>4, <1>5

\* The SN the list begins with is asked
LEMMA RelayTries ==
  ASSUME TrailInv, NEW r \in Jobs, Relay(r)
  PROVE  TrailInv'
<1>1. PICK q, s : q = request[r] /\ s = Head(request[r].queue)
  BY Zenon
<1>2. /\ q.step = "relay" /\ q.queue # <<>> /\ request' = Handled(r, s) /\ Watch(r, {})
      /\ registered' = registered
  BY Zenon, <1>1 DEF Relay, Relaying, peerVars
<1>3. Listed(r, q) /\ q.step # "new"
  BY Zenon, <1>2 DEF Listed
<1>4. /\ Trail(r, q, steady'[r]) /\ r \in DOMAIN request
      /\ \A p \in steady'[r] : Open(r, p)'
  BY Zenon, <1>1, <1>2, <1>3, Begun
<1>5. (\A p \in steady'[r] : p[2] # s) \/ ServedAt(s)
  BY Zenon, <1>2, <1>4 DEF Open, ServedAt
<1>6. CASE q.kind = "query"
  <2>1. PICK x : x = [q EXCEPT !.step = "relay", !.queue = Tail(@), !.at = 0]
    BY Zenon
  <2>2. /\ DOMAIN x = DOMAIN q /\ x.step = "relay" /\ x.answer = q.answer
        /\ x.found = q.found /\ x.queue = Tail(q.queue) /\ x.heard = q.heard
    BY Zenon, <1>4, <2>1, TrailFields
  <2>3. PICK h : h = (x.heard \/ ServedAt(s))
    BY Zenon
  <2>4. PICK y : y = [x EXCEPT !.heard = h]
    BY Zenon
  <2>5. /\ DOMAIN y = DOMAIN q /\ y.step = "relay" /\ y.answer = q.answer
        /\ y.found = q.found /\ y.queue = Tail(q.queue) /\ y.heard = h
    BY Zenon, <1>4, <2>2, <2>4, TrailFields
  <2>6. PICK nl : nl = NextLease(r)
    BY Zenon
  <2>7. nl = [request EXCEPT ![r] = x]
    BY Zenon, <1>1, <1>4, <2>1, <2>6 DEF NextLease
  <2>8. nl[r] = x /\ [nl EXCEPT ![r] = y] = [request EXCEPT ![r] = y]
    BY Zenon, <1>4, <2>7
  <2>9. request' = [nl EXCEPT ![r].heard = @ \/ ServedAt(s)]
    BY Zenon, <1>1, <1>2, <1>6, <2>6 DEF Handled
  <2>10. request' = [request EXCEPT ![r] = y]
    BY Zenon, <2>3, <2>4, <2>8, <2>9
  <2>11. q.heard => h
    BY Zenon, <2>2, <2>3
  <2>12. h \/ \A p \in steady'[r] : p[2] # Head(q.queue)
    BY Zenon, <1>1, <1>5, <2>3
  <2>13. Trail(r, y, steady'[r])
    BY Zenon, <1>2, <1>3, <1>4, <2>5, <2>11, <2>12, TrailNext
  <2> QED  BY Zenon, <1>1, <1>2, <1>3, <2>10, <2>13, TrailStep
<1>7. CASE q.kind # "query" /\ ServedAt(s)
  <2>1. request' = Delivering(r, s)
    BY Zenon, <1>1, <1>2, <1>7 DEF Handled
  <2> QED  BY Zenon, <1>1, <1>2, <2>1, DeliveringOK
<1>8. CASE q.kind # "query" /\ ~ServedAt(s)
  <2>1. request' = NextLease(r)
    BY Zenon, <1>1, <1>2, <1>8 DEF Handled
  <2> QED  BY Zenon, <1>1, <1>2, <1>3, <1>5, <1>8, <2>1, NextLeaseOK
<1> QED  BY Zenon, <1>6, <1>7, <1>8

\* The delivery at the SN that was found ends
LEMMA DeliveryOK ==
  ASSUME TrailInv, NEW r \in Jobs,
         \/ SendDone(r) \/ SendFails(r) \/ TargetAnswers(r) \/ AnswerRejected(r)
         \/ RendezvousTimeout(r)
  PROVE  TrailInv'
<1>1. PICK q, s : q = request[r] /\ s = q.at
  BY Zenon
<1>2. CASE SendDone(r) \/ TargetAnswers(r) \/ RendezvousTimeout(r)
  <2>1. /\ q.step # "new" /\ Watch(r, {})
        /\ request' = Answered(r, "ok") \/ request' = Answered(r, "error")
    BY Zenon, <1>1, <1>2 DEF SendDone, TargetAnswers, RendezvousTimeout
  <2> QED  BY Zenon, <1>1, <2>1, AnswerOK
<1>3. CASE SendFails(r) \/ AnswerRejected(r)
  <2>1. Delivers(q) /\ q.step # "new" /\ request' = Undelivered(r) /\ Watch(r, Through(s))
    BY Zenon, <1>1, <1>3 DEF SendFails, AnswerRejected, Delivers
  <2>2. \A p \in steady'[r] : p \in Route /\ p \notin Through(s)
    BY Zenon, <1>1, <2>1, Begun
  <2>3. \A p \in steady'[r] : p[2] # s
    BY Zenon, <2>2 DEF Through
  <2> QED  BY Zenon, <1>1, <2>1, <2>3, UndeliveredOK
<1> QED  BY Zenon, <1>2, <1>3

\* The delivery at the SN that was found goes on
LEMMA SendingOK ==
  ASSUME TrailInv, NEW r \in Jobs, Called(r) \/ RendezvousBegins(r) \/ StreamFails(r)
  PROVE  TrailInv'
<1>1. PICK q, s : q = request[r] /\ s = q.at
  BY Zenon
<1>2. Delivers(q) /\ q.step \notin {"new", "done"}
  BY Zenon, <1>1 DEF Called, RendezvousBegins, StreamFails, Delivers
<1>3. PICK broken : Watch(r, broken)
  BY Zenon DEF Called, RendezvousBegins, StreamFails
<1>4. Trail(r, q, steady'[r]) /\ r \in DOMAIN request
  BY Zenon, <1>1, <1>2, <1>3, Begun
<1>5. CASE Called(r)
  <2>1. \/ request' = Answered(r, "ok")
        \/ request' = [request EXCEPT ![r].step = "sending"]
    BY Zenon, <1>5 DEF Called
  <2>2. CASE request' = Answered(r, "ok")
    BY Zenon, <1>1, <1>2, <1>3, <2>2, AnswerOK
  <2>3. CASE request' = [request EXCEPT ![r].step = "sending"]
    <3>1. PICK x : x = [q EXCEPT !.step = "sending"]
      BY Zenon
    <3>2. request' = [request EXCEPT ![r] = x]
      BY Zenon, <1>1, <1>4, <2>3, <3>1
    <3>3. /\ DOMAIN x = DOMAIN q /\ x.step = "sending" /\ x.at = q.at /\ x.answer = q.answer
          /\ x.found = q.found /\ x.queue = q.queue /\ x.heard = q.heard
      BY Zenon, <1>4, <3>1, TrailFields
    <3>4. Delivers(x)
      BY Zenon, <3>3 DEF Delivers
    <3> QED  BY Zenon, <1>1, <1>2, <1>3, <3>2, <3>3, <3>4, StaysOK
  <2> QED  BY Zenon, <2>1, <2>2, <2>3
<1>6. CASE RendezvousBegins(r) /\ links[s] = 0
  <2>1. request' = Undelivered(r) /\ Watch(r, {}) /\ links' = links
    BY Zenon, <1>1, <1>6 DEF RendezvousBegins, peerVars
  <2>2. \A p \in steady'[r] : links[p[2]] > 0
    BY Zenon, <1>1, <1>2, <2>1, Begun DEF Open
  <2>3. ~(0 > 0)
    OBVIOUS
  <2>4. \A p \in steady'[r] : p[2] # s
    BY Zenon, <1>6, <2>2, <2>3
  <2> QED  BY Zenon, <1>1, <1>2, <2>1, <2>4, UndeliveredOK
<1>7. CASE RendezvousBegins(r) /\ links[s] # 0
  <2>1. request' = [request EXCEPT ![r].step = "asking", ![r].tries = links[s]]
    BY Zenon, <1>1, <1>7 DEF RendezvousBegins
  <2>2. PICK x : x = [q EXCEPT !.step = "asking", !.tries = links[s]]
    BY Zenon
  <2>3. request' = [request EXCEPT ![r] = x]
    BY Zenon, <1>1, <1>4, <2>1, <2>2
  <2>4. /\ DOMAIN x = DOMAIN q /\ x.step = "asking" /\ x.at = q.at /\ x.answer = q.answer
        /\ x.found = q.found /\ x.queue = q.queue /\ x.heard = q.heard
    BY Zenon, <1>4, <2>2, TrailFields
  <2>5. Delivers(x)
    BY Zenon, <2>4 DEF Delivers
  <2> QED  BY Zenon, <1>1, <1>2, <1>3, <2>3, <2>4, <2>5, StaysOK
<1>8. CASE StreamFails(r)
  <2>1. /\ Watch(r, Through(s))
        /\ \/ request' = Undelivered(r)
           \/ request' = [request EXCEPT ![r].tries = @ - 1]
    BY Zenon, <1>1, <1>8 DEF StreamFails
  <2>2. CASE request' = Undelivered(r)
    <3>1. \A p \in steady'[r] : p \in Route /\ p \notin Through(s)
      BY Zenon, <1>1, <1>2, <2>1, Begun
    <3>2. \A p \in steady'[r] : p[2] # s
      BY Zenon, <3>1 DEF Through
    <3> QED  BY Zenon, <1>1, <1>2, <2>1, <2>2, <3>2, UndeliveredOK
  <2>3. CASE request' = [request EXCEPT ![r].tries = @ - 1]
    <3>1. PICK n : n = q.tries - 1
      BY Zenon
    <3>2. PICK x : x = [q EXCEPT !.tries = n]
      BY Zenon
    <3>3. request' = [request EXCEPT ![r] = x]
      BY Zenon, <1>1, <1>4, <2>3, <3>1, <3>2
    <3>4. /\ DOMAIN x = DOMAIN q /\ x.step = q.step /\ x.at = q.at /\ x.answer = q.answer
          /\ x.found = q.found /\ x.queue = q.queue /\ x.heard = q.heard
      BY Zenon, <1>4, <3>2, TrailFields
    <3>5. Delivers(x)
      BY Zenon, <1>2, <3>4 DEF Delivers
    <3> QED  BY Zenon, <1>1, <1>2, <1>3, <3>3, <3>4, <3>5, StaysOK
  <2> QED  BY Zenon, <2>1, <2>2, <2>3
<1> QED  BY Zenon, <1>5, <1>6, <1>7, <1>8

\* The owners that are still to be asked, or have named the SN
Sought(x, st) ==
  x.heard \/ \A p \in st : /\ p[1] # Local
                           /\ p[1] \in x.left \/ \E l \in x.found : l.sn = p[2]

\* The lookup goes on while what is open is sought
LEMMA TrailLookup ==
  ASSUME TrailInv, NEW r \in Jobs, NEW broken, Watch(r, broken), request[r].step = "lookup",
         NEW x, request' = [request EXCEPT ![r] = x], DOMAIN x = DOMAIN request[r],
         x.step = "lookup", x.found \subseteq Lease, IsFiniteSet(x.found),
         x.queue = request[r].queue, x.answer = request[r].answer, Sought(x, steady'[r])
  PROVE  TrailInv'
<1>1. PICK q : q = request[r]
  BY Zenon
<1>2. /\ Trail(r, q, steady'[r])
      /\ \A p \in steady'[r] : Open(r, p)
  BY Zenon, <1>1, Begun
<1>3. ~Delivers(x) /\ x.step \notin {"new", "relay"}
  BY Zenon DEF Delivers
<1>4. x.queue \in Seq(Sns) /\ x.answer # "notfound"
  BY Zenon, <1>1, <1>2 DEF Trail
<1>5. x.heard \/ \A p \in steady'[r] : /\ p[1] # Local /\ p[2] # Receiver[r]
                                       /\ p[1] \in x.left \/ \E l \in x.found : l.sn = p[2]
  BY Zenon, <1>2 DEF Sought, Open
<1>6. {"kind", "step", "left", "found", "queue", "at", "heard", "answer"} \subseteq DOMAIN x
  BY Zenon, <1>1, <1>2, TrailFields
<1>7. Trail(r, x, steady'[r])
  BY Zenon, <1>3, <1>4, <1>5, <1>6 DEF Trail
<1> QED  BY Zenon, <1>1, <1>7, TrailStep

\* An owner that answers names every SN it holds a route of
LEMMA OwnerTold ==
  ASSUME TrailInv, RouteInv, NEW r \in Jobs, NEW o \in Owners, OwnerAnswers(r, o)
  PROVE  TrailInv'
<1>1. PICK q : q = request[r]
  BY Zenon
<1>2. PICK T : T = {t \in Sns : Retained(o)[t] > 0}
  BY Zenon
<1>3. PICK f : f = [t \in T |-> [sn |-> t, seq |-> Retained(o)[t]]]
  BY Zenon
<1>4. PICK leases : leases = {[sn |-> t, seq |-> Retained(o)[t]] : t \in T}
  BY Zenon
<1>5. /\ q.step = "lookup" /\ Watch(r, {})
      /\ request' = [request EXCEPT ![r].left = @ \ {o}, ![r].found = @ \cup leases]
  BY Zenon, <1>1, <1>2, <1>4 DEF OwnerAnswers
<1>6. /\ Trail(r, q, steady'[r]) /\ r \in DOMAIN request
      /\ \A p \in steady'[r] : Open(r, p) /\ p \in Route
  BY Zenon, <1>1, <1>5, Begun
<1>7. leases \subseteq Lease /\ IsFiniteSet(leases)
  <2>1. \A t \in Sns : Retained(o)[t] \in Nat
    BY Zenon DEF Retained, RouteInv, RoutesOK
  <2>2. leases \subseteq Lease
    <3>1. \A t \in Sns : [sn |-> t, seq |-> Retained(o)[t]] \in Lease
      BY Zenon, <2>1 DEF Lease
    <3> QED  BY Zenon, <1>2, <1>4, <3>1
  <2>3. IsFiniteSet(T)
    <3>1. IsFiniteSet(Sns) /\ T \in SUBSET Sns
      BY Zenon, <1>2, RelayAssumption
    <3> QED  BY Zenon, <3>1, FS_Subset
  <2>4. f \in Surjection(T, leases)
    BY Zenon, <1>3, <1>4 DEF Surjection
  <2> QED  BY Zenon, <2>2, <2>3, <2>4, FS_Surjection
<1>8. PICK x : x = [q EXCEPT !.left = @ \ {o}, !.found = @ \cup leases]
  BY Zenon
<1>9. request' = [request EXCEPT ![r] = x]
  BY Zenon, <1>1, <1>5, <1>6, <1>8
<1>10. /\ DOMAIN x = DOMAIN q /\ x.step = "lookup" /\ x.answer = q.answer /\ x.heard = q.heard
       /\ x.queue = q.queue /\ x.left = q.left \ {o} /\ x.found = q.found \cup leases
  BY Zenon, <1>5, <1>6, <1>8, TrailFields
<1>11. x.found \subseteq Lease /\ IsFiniteSet(x.found)
  <2>1. q.found \subseteq Lease /\ IsFiniteSet(q.found)
    BY Zenon, <1>6 DEF Trail
  <2>2. IsFiniteSet(q.found \cup leases)
    BY Zenon, <1>7, <2>1, FS_Union
  <2> QED  BY Zenon, <1>7, <1>10, <2>1, <2>2
<1>12. Sought(x, steady'[r])
  <2>1. ASSUME NEW p \in steady'[r], p[1] # Local, p[1] = o PROVE \E l \in x.found : l.sn = p[2]
    <3>1. p[2] \in online[o] /\ routes[o][p[2]] > 0
      BY Zenon, <1>6, <2>1 DEF Open
    <3>2. p[2] \in Sns
      BY Zenon, <1>6 DEF Route
    <3>3. p[2] \in T
      BY Zenon, <1>2, <3>1, <3>2 DEF Retained
    <3>4. PICK l : l = [sn |-> p[2], seq |-> Retained(o)[p[2]]]
      BY Zenon
    <3>5. l \in leases /\ l.sn = p[2]
      BY Zenon, <1>4, <3>3, <3>4
    <3> QED  BY Zenon, <1>10, <3>5
  <2>2. q.heard \/ \A p \in steady'[r] : /\ p[1] # Local
                                         /\ p[1] \in q.left \/ \E l \in q.found : l.sn = p[2]
    BY Zenon, <1>5, <1>6 DEF Trail
  <2>3. ASSUME NEW p \in steady'[r], ~q.heard
        PROVE  p[1] # Local /\ (p[1] \in x.left \/ \E l \in x.found : l.sn = p[2])
    BY Zenon, <1>10, <2>1, <2>2, <2>3
  <2> QED  BY Zenon, <1>10, <2>3 DEF Sought
<1> QED  BY Zenon, <1>1, <1>5, <1>9, <1>10, <1>11, <1>12, TrailLookup

\* An owner that fails is no route any more
LEMMA OwnerSilent ==
  ASSUME TrailInv, NEW r \in Jobs, NEW o \in Owners, OwnerFails(r, o)
  PROVE  TrailInv'
<1>1. PICK q : q = request[r]
  BY Zenon
<1>2. /\ q.step = "lookup" /\ Watch(r, Via(o))
      /\ request' = [request EXCEPT ![r].left = @ \ {o}]
  BY Zenon, <1>1 DEF OwnerFails
<1>3. /\ Trail(r, q, steady'[r]) /\ r \in DOMAIN request
      /\ \A p \in steady'[r] : p \in Route /\ p \notin Via(o)
  BY Zenon, <1>1, <1>2, Begun
<1>4. PICK x : x = [q EXCEPT !.left = @ \ {o}]
  BY Zenon
<1>5. request' = [request EXCEPT ![r] = x]
  BY Zenon, <1>1, <1>2, <1>3, <1>4
<1>6. /\ DOMAIN x = DOMAIN q /\ x.step = "lookup" /\ x.answer = q.answer /\ x.heard = q.heard
      /\ x.queue = q.queue /\ x.left = q.left \ {o} /\ x.found = q.found
  BY Zenon, <1>2, <1>3, <1>4, TrailFields
<1>7. x.found \subseteq Lease /\ IsFiniteSet(x.found)
  BY Zenon, <1>3, <1>6 DEF Trail
<1>8. \A p \in steady'[r] : p[1] # o
  BY Zenon, <1>3 DEF Via
<1>9. Sought(x, steady'[r])
  <2>1. q.heard \/ \A p \in steady'[r] : /\ p[1] # Local
                                         /\ p[1] \in q.left \/ \E l \in q.found : l.sn = p[2]
    BY Zenon, <1>2, <1>3 DEF Trail
  <2> QED  BY Zenon, <1>6, <1>8, <2>1 DEF Sought
<1> QED  BY Zenon, <1>1, <1>2, <1>5, <1>6, <1>7, <1>9, TrailLookup

\* No owner is left to ask: the list names every SN that was found
LEMMA LookupDone ==
  ASSUME TrailInv, NEW r \in Jobs, LookupEnds(r)
  PROVE  TrailInv'
<1>1. PICK q, l : q = request[r] /\ l = Deduped(NewestFirst(request[r].found))
  BY Zenon
<1>2. /\ q.step = "lookup" /\ q.left = {} /\ Watch(r, {})
      /\ request' = [request EXCEPT ![r].step = "relay", ![r].found = {}, ![r].queue = l]
  BY Zenon, <1>1 DEF LookupEnds
<1>3. Trail(r, q, steady'[r]) /\ r \in DOMAIN request
  BY Zenon, <1>1, <1>2, Begun
<1>4. /\ q.found \subseteq Lease /\ IsFiniteSet(q.found) /\ q.answer # "notfound"
      /\ q.heard \/ \A p \in steady'[r] : /\ p[2] # Receiver[r]
                                          /\ p[1] \in q.left \/ \E k \in q.found : k.sn = p[2]
  BY Zenon, <1>2, <1>3 DEF Trail
<1>5. l \in Seq(Sns) /\ \A k \in q.found : \E i \in DOMAIN l : l[i] = k.sn
  BY Zenon, <1>1, <1>4, QueueNamesAll
<1>6. PICK x : x = [q EXCEPT !.step = "relay", !.found = {}, !.queue = l]
  BY Zenon
<1>7. request' = [request EXCEPT ![r] = x]
  BY Zenon, <1>1, <1>2, <1>3, <1>6
<1>8. /\ DOMAIN x = DOMAIN q /\ x.step = "relay" /\ x.answer = q.answer /\ x.heard = q.heard
      /\ x.queue = l /\ x.found = {}
  BY Zenon, <1>3, <1>6, TrailFields
<1>9. x.heard \/ \A p \in steady'[r] : /\ p[2] # Receiver[r]
                                       /\ \E i \in DOMAIN x.queue : x.queue[i] = p[2]
  BY Zenon, <1>2, <1>4, <1>5, <1>8
<1>10. ~Delivers(x) /\ x.step \notin {"new", "lookup"} /\ x.answer # "notfound"
  BY Zenon, <1>4, <1>8 DEF Delivers
<1>11. {"kind", "step", "left", "found", "queue", "at", "heard", "answer"} \subseteq DOMAIN x
  BY Zenon, <1>3, <1>8, TrailFields
<1>12. IsFiniteSet({}) /\ {} \subseteq Lease
  BY Zenon, FS_EmptySet
<1>13. Trail(r, x, steady'[r])
  BY Zenon, <1>5, <1>8, <1>9, <1>10, <1>11, <1>12 DEF Trail
<1> QED  BY Zenon, <1>1, <1>2, <1>7, <1>13, TrailStep

\* The first step of a request
LEMMA TrailBegins ==
  ASSUME TrailInv, NEW r \in Jobs, Watch(r, {}), request[r].step = "new",
         UNCHANGED <<peerVars, directoryVars>>,
         NEW x, request' = [request EXCEPT ![r] = x], x.step # "new", Trail(r, x, steady'[r])
  PROVE  TrailInv'
<1>1. request' = [q \in Jobs |-> request'[q]] /\ request'[r] = x
      /\ \A q \in Jobs : q # r => request'[q] = request[q]
  BY Zenon DEF TrailInv
<1>2. steady'[r] = {p \in Route : Open(r, p)}
  BY Zenon, <1>1, WatchMeans
<1>3. \A p : Open(r, p) => Open(r, p)'
  BY Zenon DEF Open, peerVars, directoryVars
<1>4. ASSUME NEW q \in Jobs
      PROVE  Trail(q, request'[q], steady'[q]) /\ \A p \in steady'[q] : Open(q, p)'
  <2>1. CASE q = r
    BY Zenon, <1>1, <1>2, <1>3, <2>1
  <2>2. CASE q # r
    <3>1. ~(request[q].step = "new" /\ request'[q].step # "new")
      BY Zenon, <1>1, <2>2
    <3>2. /\ steady'[q] \subseteq steady[q] /\ Trail(q, request[q], steady[q])
          /\ \A p \in steady'[q] : Open(q, p)'
      BY Zenon, <3>1, WatchMeans DEF TrailInv
    <3> QED  BY Zenon, <1>1, <2>2, <3>2, TrailShrinks
  <2> QED  BY Zenon, <2>1, <2>2
<1>5. steady' \in [Jobs -> SUBSET Route]
  BY Zenon, WatchMeans
<1> QED  BY Zenon, <1>1, <1>4, <1>5 DEF TrailInv

\* A request begins: every open route is a healthy owner's, or the SN's own
LEMMA ReceiveOK ==
  ASSUME TrailInv, NEW r \in Jobs, Receive(r)
  PROVE  TrailInv'
<1>1. PICK q, s : q = request[r] /\ s = Receiver[r]
  BY Zenon
<1>2. q.step = "new" /\ Watch(r, {}) /\ UNCHANGED <<peerVars, directoryVars>>
  BY Zenon, <1>1 DEF Receive
<1>3. Trail(r, q, steady[r]) /\ r \in DOMAIN request
  BY Zenon, <1>1 DEF TrailInv
<1>4. /\ {"kind", "step", "left", "found", "queue", "at", "heard", "answer"} \subseteq DOMAIN q
      /\ q.found \subseteq Lease /\ IsFiniteSet(q.found) /\ q.queue \in Seq(Sns)
      /\ q.answer # "notfound"
  BY Zenon, <1>2, <1>3 DEF Trail
<1>5. \/ request' = Answered(r, "refused")
      \/ request' = Delivering(r, s)
      \/ request' = Lookup(r)
  BY <1>1 DEF Receive
<1>6. CASE request' = Answered(r, "refused")
  <2>1. PICK x : x = [q EXCEPT !.step = "done", !.answer = "refused"]
    BY Zenon
  <2>2. request' = [request EXCEPT ![r] = x]
    BY Zenon, <1>1, <1>3, <1>6, <2>1 DEF Answered
  <2>3. /\ DOMAIN x = DOMAIN q /\ x.step = "done" /\ x.answer = "refused"
        /\ x.found = q.found /\ x.queue = q.queue
    BY Zenon, <1>4, <2>1
  <2>4. Trail(r, x, steady'[r])
    BY Zenon, <1>4, <2>3 DEF Trail, Delivers
  <2> QED  BY Zenon, <1>1, <1>2, <2>2, <2>3, <2>4, TrailBegins
<1>7. CASE request' = Delivering(r, s)
  <2>1. PICK x : x = [q EXCEPT !.step = "found", !.at = s]
    BY Zenon
  <2>2. request' = [request EXCEPT ![r] = x]
    BY Zenon, <1>1, <1>3, <1>7, <2>1 DEF Delivering
  <2>3. /\ DOMAIN x = DOMAIN q /\ x.step = "found" /\ x.answer = q.answer /\ x.at = s
        /\ x.found = q.found /\ x.queue = q.queue
    BY Zenon, <1>4, <2>1
  <2>4. Trail(r, x, steady'[r])
    BY Zenon, <1>1, <1>4, <2>3 DEF Trail, Delivers
  <2> QED  BY Zenon, <1>1, <1>2, <2>2, <2>3, <2>4, TrailBegins
<1>8. CASE request' = Lookup(r)
  <2>1. PICK h, asked : h = ServedAt(s) /\ asked = OwnerSet(s)
    BY Zenon
  <2>2. PICK x : x = [q EXCEPT !.step = "lookup", !.left = asked, !.heard = h]
    BY Zenon
  <2>3. request' = [request EXCEPT ![r] = x]
    BY Zenon, <1>1, <1>3, <1>8, <2>1, <2>2 DEF Lookup
  <2>4. /\ DOMAIN x = DOMAIN q /\ x.step = "lookup" /\ x.answer = q.answer
        /\ x.found = q.found /\ x.queue = q.queue /\ x.left = asked /\ x.heard = h
    BY Zenon, <1>4, <2>2
  <2>5. steady'[r] = {p \in Route : Open(r, p)}
    <3>1. request'[r] = x
      BY Zenon, <1>3, <2>3
    <3> QED  BY Zenon, <1>1, <1>2, <2>4, <3>1, WatchMeans
  <2>6. ASSUME ~h, NEW p, Open(r, p) PROVE p[1] # Local /\ p[2] # Receiver[r] /\ p[1] \in asked
    <3>1. p[2] # s
      BY Zenon, <2>1, <2>6 DEF Open, ServedAt
    <3> QED  BY Zenon, <1>1, <2>1, <2>6, <3>1 DEF Open, OwnerSet
  <2>7. x.heard \/ \A p \in steady'[r] : p[1] # Local /\ p[2] # Receiver[r] /\ p[1] \in x.left
    BY Zenon, <2>4, <2>5, <2>6
  <2>8. Trail(r, x, steady'[r])
    BY Zenon, <1>4, <2>4, <2>7 DEF Trail, Delivers
  <2> QED  BY Zenon, <1>1, <1>2, <2>3, <2>4, <2>8, TrailBegins
<1> QED  BY Zenon, <1>5, <1>6, <1>7, <1>8

\* The invariant holds initially ...
LEMMA TrailStarts == RelayInit => TrailInv
<1> SUFFICES ASSUME RelayInit PROVE TrailInv
  BY Zenon
<1>1. PICK setting \in Settings : request = [r \in Jobs |-> NewRequest(setting.kind[r])]
  BY Zenon DEF RelayInit
<1>2. steady = [r \in Jobs |-> {}]
  BY Zenon DEF RelayInit
<1>3. ASSUME NEW r \in Jobs PROVE Trail(r, request[r], {})
  <2>1. PICK k : k = setting.kind[r]
    BY Zenon
  <2>2. PICK x : x = NewRequest(k)
    BY Zenon
  <2>3. /\ {"kind", "step", "left", "found", "queue", "at", "heard", "answer"} \subseteq DOMAIN x
        /\ x.found = {} /\ x.queue = <<>> /\ x.heard = FALSE /\ x.answer = "none"
        /\ x.step \in {"new", "done"}
    BY Zenon, <2>2 DEF NewRequest
  <2>4. IsFiniteSet({}) /\ <<>> \in Seq(Sns)
    <3>1. <<>> \in Seq(Sns)
      OBVIOUS
    <3> QED  BY Zenon, <3>1, FS_EmptySet
  <2>5. Trail(r, x, {})
    BY Zenon, <2>3, <2>4 DEF Trail, Delivers
  <2> QED  BY Zenon, <1>1, <2>1, <2>2, <2>5
<1>4. /\ request = [r \in Jobs |-> request[r]] /\ steady \in [Jobs -> SUBSET Route]
      /\ \A r \in Jobs : steady[r] = {}
  BY Zenon, <1>1, <1>2
<1> QED  BY Zenon, <1>3, <1>4 DEF TrailInv

\* ... and every step keeps it
LEMMA TrailSteps == TrailInv /\ RouteInv /\ [RelayNext]_relayVars => TrailInv'
<1> SUFFICES ASSUME TrailInv, RouteInv, [RelayNext]_relayVars PROVE TrailInv'
  BY Zenon
<1>1. ASSUME NEW s \in Sns, PeerStep(s) PROVE TrailInv'
  <2>1. request' = request /\ Unbroken
    BY Zenon, <1>1 DEF PeerStep, Report, LinkLost, OnPeerDisconnected, LateRelay
  <2> QED  BY Zenon, <2>1, TrailSame
<1>2. ASSUME NEW s \in Sns, PublishStep(s) PROVE TrailInv'
  <2>1. request' = request /\ Unbroken
    BY Zenon, <1>2 DEF PublishStep, BeginPublish, PublishStored, AnswerLost, EndPublish, Store,
                       PublishArrives, PublishFails, HealthLapses
  <2> QED  BY Zenon, <2>1, TrailSame
<1>3. ASSUME NEW o \in Owners, OwnerStep(o) PROVE TrailInv'
  <2>1. request' = request /\ Unbroken
    BY Zenon, <1>3 DEF OwnerStep, OwnerCrashes, OwnerRestarts, SessionRenewed, SessionEnds,
                       StrayArrives
  <2> QED  BY Zenon, <2>1, TrailSame
<1>4. ASSUME NEW r \in Jobs, RequestStep(r) PROVE TrailInv'
  <2>1. CASE Receive(r)
    BY Zenon, <2>1, ReceiveOK
  <2>2. CASE LookupEnds(r)
    BY Zenon, <2>2, LookupDone
  <2>3. CASE Exhausted(r) \/ SkipOwn(r) \/ RelayRefused(r) \/ RelayFails(r)
    BY Zenon, <2>3, ListStepsOK
  <2>4. CASE Relay(r)
    BY Zenon, <2>4, RelayTries
  <2>5. CASE Called(r) \/ RendezvousBegins(r) \/ StreamFails(r)
    BY Zenon, <2>5, SendingOK
  <2>6. CASE \/ SendDone(r) \/ SendFails(r) \/ TargetAnswers(r) \/ AnswerRejected(r)
             \/ RendezvousTimeout(r)
    BY Zenon, <2>6, DeliveryOK
  <2>7. CASE \E o \in Owners : OwnerAnswers(r, o) \/ OwnerFails(r, o)
    BY Zenon, <2>7, OwnerTold, OwnerSilent
  <2> QED  BY Zenon, <1>4, <2>1, <2>2, <2>3, <2>4, <2>5, <2>6, <2>7 DEF RequestStep
<1>5. CASE UNCHANGED relayVars
  <2>1. request' = request /\ steady' = steady /\ \A r, p : Open(r, p) => Open(r, p)'
    BY Zenon, <1>5 DEF relayVars, peerVars, directoryVars, Open
  <2> QED  BY Zenon, <2>1 DEF TrailInv
<1> QED  BY Zenon, <1>1, <1>2, <1>3, <1>4, <1>5 DEF RelayNext

\* A request is answered "not found" only when no route to the target, at the SN
\* that receives it or through an owner and an SN it names, was open the whole
\* time: the lookup, the sorted and de-duplicated list and the relays along it
\* lose no SN that serves the target (service.rs:793-836, 985-1026, 1742-1808),
\* for every number of SNs, owners and requests.
THEOREM NotFoundIsTrue == RelaySpec => []NotFoundMeansUnserved
<1>1. TrailInv => NotFoundMeansUnserved
  BY Zenon DEF TrailInv, Trail, NotFoundMeansUnserved
<1> QED BY <1>1, RoutesStart, RouteSteps, TrailStarts, TrailSteps, PTL DEF RelaySpec

-----------------------------------------------------------------------------
(***************************************************************************)
(* The registration of a client at its SN, for any streams, paths and      *)
(* handlers.  A stream that was found gone never comes back, so what a     *)
(* reconciliation found out stays true until it acts on it, and a          *)
(* registration that was replaced meanwhile has another generation.        *)
(***************************************************************************)

WasOpened(s) == s \in Streams /\ stream[s] # "new"
IsOver(s) == s \in Streams /\ stream[s] = "dead"

RegOK(r) == {"tunnel", "gen"} \subseteq DOMAIN r /\ (r.gen # 0 => WasOpened(r.tunnel))
LookOK(l) ==
  /\ {"tunnel", "gen", "present"} \subseteq DOMAIN l
  /\ l.gen # 0 => WasOpened(l.tunnel)
  /\ ~l.present => IsOver(l.tunnel)
HandlerOK(m) ==
  /\ {"pc", "stream", "look"} \subseteq DOMAIN m
  /\ LookOK(m.look)
  /\ m.pc \notin {"idle", "done"} => WasOpened(m.stream)

RegistrationInv ==
  /\ stream \in [Streams -> Paths \cup {"new", "dead"}]
  /\ RegOK(reg)
  /\ {"nextGen"} \subseteq DOMAIN sn /\ sn.nextGen \in Nat \ {0}
  /\ handler = [h \in Handlers |-> handler[h]] /\ \A h \in Handlers : HandlerOK(handler[h])
  /\ {"look"} \subseteq DOMAIN keeper /\ LookOK(keeper.look)

\* Streams are opened once and end once
StreamsGoOn == \A s : (WasOpened(s) => WasOpened(s)') /\ (IsOver(s) => IsOver(s)')

LEMMA RegOKNext ==
  ASSUME StreamsGoOn, RegOK(reg), reg' = reg
  PROVE  RegOK(reg)'
BY Zenon DEF StreamsGoOn, RegOK

LEMMA KeeperNext ==
  ASSUME StreamsGoOn, LookOK(keeper.look), keeper'.look = keeper.look
  PROVE  LookOK(keeper.look)'
BY Zenon DEF StreamsGoOn, LookOK

LEMMA HandlerNext ==
  ASSUME StreamsGoOn, NEW h, HandlerOK(handler[h]), handler'[h] = handler[h]
  PROVE  HandlerOK(handler[h])'
BY Zenon DEF StreamsGoOn, HandlerOK, LookOK

LEMMA HandlersNext ==
  ASSUME StreamsGoOn, RegistrationInv, NEW x, NEW m, handler' = [handler EXCEPT ![x] = m],
         HandlerOK(m)
  PROVE  /\ handler' = [h \in Handlers |-> handler'[h]]
         /\ \A h \in Handlers : HandlerOK(handler[h])'
<1>1. /\ handler' = [h \in Handlers |-> handler'[h]]
      /\ \A h \in Handlers : handler'[h] = IF h = x THEN m ELSE handler[h]
  BY Zenon DEF RegistrationInv
<1>2. ASSUME NEW h \in Handlers PROVE HandlerOK(handler[h])'
  <2>1. CASE h = x
    <3>1. handler'[h] = m
      BY Zenon, <1>1, <2>1
    <3> QED BY Zenon, <3>1 DEF HandlerOK, LookOK, StreamsGoOn
  <2>2. CASE h # x
    BY Zenon, <1>1, <2>2, HandlerNext DEF RegistrationInv
  <2> QED BY Zenon, <2>1, <2>2
<1> QED BY Zenon, <1>1, <1>2

LEMMA SameStreams == stream' = stream => StreamsGoOn
BY Zenon DEF StreamsGoOn, WasOpened, IsOver

\* A handler that has nothing to do, or has told the scheduler
LEMMA RestingHandler ==
  /\ HandlerOK(NoHandler) /\ NoHandler.pc = "idle" /\ LookOK(NoSnapshot)
  /\ \A h, d : HandlerOK(Told(h, d))
<1>1. LookOK(NoSnapshot)
  BY Zenon DEF LookOK, NoSnapshot
<1>2. HandlerOK(NoHandler) /\ NoHandler.pc = "idle"
  BY Zenon, <1>1 DEF HandlerOK, NoHandler
<1>3. ASSUME NEW h, NEW d PROVE HandlerOK(Told(h, d))
  <2>1. PICK m : m = Told(h, d)
    BY Zenon
  <2>2. {"pc", "stream", "look"} \subseteq DOMAIN m /\ m.pc = "done" /\ m.look = NoSnapshot
    BY Zenon, <2>1 DEF Told, NoHandler
  <2>3. HandlerOK(m)
    BY Zenon, <1>1, <2>2 DEF HandlerOK
  <2> QED BY Zenon, <2>1, <2>3
<1> QED BY Zenon, <1>1, <1>2, <1>3

\* What reconcile_nat_probe_authority reads, and what it makes of it
LEMMA LooksOK ==
  ASSUME RegistrationInv
  PROVE  LookOK(Looks) /\ \A l : LookOK(l) => LookOK(Scanned(l))
<1>1. LookOK(Looks)
  BY Zenon DEF RegistrationInv, RegOK, LookOK, Looks
<1>2. ASSUME NEW l, LookOK(l) PROVE LookOK(Scanned(l))
  <2>1. CASE Scanned(l) = NoSnapshot
    BY Zenon, <2>1, RestingHandler
  <2>2. CASE Scanned(l) # NoSnapshot
    <3>1. /\ l.gen # 0 /\ \A s \in Live : s # l.tunnel
          /\ Scanned(l) = [l EXCEPT !.path = NoPath, !.present = FALSE]
      BY Zenon, <2>2 DEF Scanned
    <3>2. PICK q : q = [l EXCEPT !.path = NoPath, !.present = FALSE]
      BY Zenon
    <3>3. /\ {"tunnel", "gen", "present"} \subseteq DOMAIN q
          /\ q.tunnel = l.tunnel /\ q.gen = l.gen
      BY Zenon, <1>2, <3>2 DEF LookOK
    <3>4. WasOpened(l.tunnel) /\ l.tunnel \notin Live
      BY Zenon, <1>2, <3>1 DEF LookOK
    <3>5. IsOver(l.tunnel)
      BY Zenon, <3>4 DEF WasOpened, IsOver, Live, Alive, RegistrationInv
    <3>6. LookOK(q)
      BY Zenon, <3>3, <3>4, <3>5 DEF LookOK
    <3> QED BY Zenon, <3>1, <3>2, <3>6
  <2> QED BY Zenon, <2>1, <2>2
<1> QED BY Zenon, <1>1, <1>2

\* What the scheduler makes of a registration
LEMMA SchedulerOK ==
  ASSUME RegistrationInv
  PROVE  /\ \A s, path : WasOpened(s) =>
              RegOK(Registered(reg, s, path)) /\ (reg.gen # 0 => Registered(reg, s, path).gen # 0)
         /\ \A r, past : RegOK(r) => RegOK(AfterExpiry(r, past)) /\ AfterExpiry(r, past).gen = r.gen
         /\ \A r, v : RegOK(r) => RegOK(AfterResult(r, v)) /\ AfterResult(r, v).gen = r.gen
         /\ \A r : RegOK(r) => RegOK(AfterIssue(r)) /\ AfterIssue(r).gen = r.gen
<1>1. ASSUME NEW s, NEW path, WasOpened(s)
      PROVE  RegOK(Registered(reg, s, path)) /\ (reg.gen # 0 => Registered(reg, s, path).gen # 0)
  <2>1. PICK q : q = [tunnel |-> s, path |-> path, gen |-> sn.nextGen, req |-> 0, trigger |-> TRUE]
    BY Zenon
  <2>2. RegOK(q) /\ q.gen # 0
    BY Zenon, <1>1, <2>1 DEF RegOK, RegistrationInv
  <2>3. Registered(reg, s, path) \in {q, reg}
    BY Zenon, <2>1 DEF Registered
  <2> QED BY Zenon, <2>2, <2>3 DEF RegistrationInv
<1>2. ASSUME NEW r, RegOK(r), NEW q, NEW x, NEW y,
             q = [r EXCEPT !.req = x, !.trigger = y]
      PROVE  RegOK(q) /\ q.gen = r.gen
  <2>1. {"tunnel", "gen"} \subseteq DOMAIN q /\ q.gen = r.gen /\ q.tunnel = r.tunnel
    BY Zenon, <1>2 DEF RegOK
  <2> QED BY Zenon, <1>2, <2>1 DEF RegOK
<1>3. ASSUME NEW r, RegOK(r), NEW past
      PROVE  RegOK(AfterExpiry(r, past)) /\ AfterExpiry(r, past).gen = r.gen
  BY Zenon, <1>2, <1>3 DEF AfterExpiry
<1>4. ASSUME NEW r, RegOK(r), NEW v
      PROVE  RegOK(AfterResult(r, v)) /\ AfterResult(r, v).gen = r.gen
  BY Zenon, <1>2, <1>4 DEF AfterResult
<1>5. ASSUME NEW r, RegOK(r)
      PROVE  RegOK(AfterIssue(r)) /\ AfterIssue(r).gen = r.gen
  BY Zenon, <1>2, <1>5 DEF AfterIssue
<1> QED BY Zenon, <1>1, <1>3, <1>4, <1>5

\* Only the disconnection of the peer takes a registration with a live stream
KeepsLive == (reg.gen # 0 /\ reg'.gen = 0 /\ Alive(reg.tunnel)) => (gone /\ ~gone')

\* What every step must show: the parts of the invariant it can disturb
StepOK == RegistrationInv' /\ KeepsLive

LEMMA AssembleStep ==
  ASSUME RegistrationInv, StreamsGoOn, stream' \in [Streams -> Paths \cup {"new", "dead"}],
         sn' = sn, reg' = reg, keeper' = keeper,
         handler' = [h \in Handlers |-> handler'[h]], \A h \in Handlers : HandlerOK(handler[h])'
  PROVE  StepOK
<1>1. RegOK(reg)' /\ LookOK(keeper.look)'
  BY Zenon, RegOKNext, KeeperNext DEF RegistrationInv
<1>2. KeepsLive
  BY Zenon DEF KeepsLive
<1> QED BY Zenon, <1>1, <1>2 DEF StepOK, RegistrationInv

LEMMA AssembleReg ==
  ASSUME RegistrationInv, stream' = stream, RegOK(reg'), KeepsLive,
         {"nextGen"} \subseteq DOMAIN sn', sn'.nextGen \in Nat \ {0},
         {"look"} \subseteq DOMAIN keeper', LookOK(keeper'.look),
         handler' = [h \in Handlers |-> handler'[h]], \A h \in Handlers : HandlerOK(handler[h])'
  PROVE  StepOK
<1>1. RegOK(reg)' /\ LookOK(keeper.look)'
  BY Zenon DEF RegOK, LookOK, WasOpened, IsOver
<1> QED BY Zenon, <1>1 DEF StepOK, RegistrationInv

LEMMA SameHandlers ==
  ASSUME RegistrationInv, StreamsGoOn, handler' = handler
  PROVE  /\ handler' = [h \in Handlers |-> handler'[h]]
         /\ \A h \in Handlers : HandlerOK(handler[h])'
BY Zenon, HandlerNext DEF RegistrationInv

\* remove_peer_if_authority: the stream of what it removes is gone
LEMMA ReconcilesOK ==
  ASSUME RegistrationInv, NEW l, LookOK(l), Reconciles(l)
  PROVE  RegOK(reg') /\ KeepsLive
<1>1. CASE reg' = reg
  BY Zenon, <1>1 DEF RegistrationInv, KeepsLive
<1>2. CASE reg' = NoReg /\ Removes(l)
  <2>1. RegOK(NoReg)
    BY Zenon DEF RegOK, NoReg
  <2>2. IsOver(reg.tunnel)
    BY Zenon, <1>2 DEF Removes, LookOK
  <2>3. ~Alive(reg.tunnel)
    BY Zenon, <2>2, SnAssumption DEF IsOver, Alive
  <2> QED BY Zenon, <1>2, <2>1, <2>3 DEF KeepsLive
<1> QED BY Zenon, <1>1, <1>2 DEF Reconciles

LEMMA HandlerStepOK ==
  ASSUME RegistrationInv, NEW h \in Handlers, HandlerStep(h)
  PROVE  StepOK
<1> DEFINE m == handler[h]
<1>0. /\ StreamsGoOn /\ stream' = stream /\ stream \in [Streams -> Paths \cup {"new", "dead"}]
      /\ HandlerOK(m) /\ {"pc", "stream", "look"} \subseteq DOMAIN m
      /\ RegOK(reg) /\ {"look"} \subseteq DOMAIN keeper /\ LookOK(keeper.look)
      /\ {"nextGen"} \subseteq DOMAIN sn /\ sn.nextGen \in Nat \ {0}
      /\ handler = [g \in Handlers |-> handler[g]]
  <2>1. stream' = stream
    BY Zenon DEF HandlerStep, HandlerSees, HandlerAdds, ControlLooks, HandlerScans, HandlerReconciles,
       HandlerObserves, HandlerEnds
  <2> QED BY Zenon, <2>1, SameStreams DEF RegistrationInv, HandlerOK
<1>1. ASSUME NEW q, handler' = [handler EXCEPT ![h] = q], HandlerOK(q),
             UNCHANGED <<reg, sn, keeper>>
      PROVE  StepOK
  BY Zenon, <1>0, <1>1, HandlersNext, AssembleStep
<1>2. CASE HandlerSees(h)
  <2>1. PICK v : handler' = [handler EXCEPT ![h].pc = "known", ![h].seen = v]
    BY Zenon, <1>2 DEF HandlerSees
  <2>2. PICK q : q = [m EXCEPT !.pc = "known", !.seen = v]
    BY Zenon
  <2>3. handler' = [handler EXCEPT ![h] = q]
    BY Zenon, <1>0, <2>1, <2>2
  <2>4. {"pc", "stream", "look"} \subseteq DOMAIN q /\ q.stream = m.stream /\ q.look = m.look
    BY Zenon, <1>0, <2>2
  <2>5. HandlerOK(q)
    BY Zenon, <1>0, <1>2, <2>4 DEF HandlerOK, HandlerSees
  <2> QED BY Zenon, <1>1, <1>2, <2>3, <2>5 DEF HandlerSees
<1>3. CASE HandlerAdds(h) \/ ControlLooks(h)
  <2>1. handler' = [handler EXCEPT ![h].pc = "snap", ![h].look = Looks]
    BY Zenon, <1>3 DEF HandlerAdds, ControlLooks
  <2>2. PICK q : q = [m EXCEPT !.pc = "snap", !.look = Looks]
    BY Zenon
  <2>3. handler' = [handler EXCEPT ![h] = q]
    BY Zenon, <1>0, <2>1, <2>2
  <2>4. {"pc", "stream", "look"} \subseteq DOMAIN q /\ q.stream = m.stream /\ q.look = Looks
    BY Zenon, <1>0, <2>2
  <2>5. HandlerOK(q)
    BY Zenon, <1>0, <1>3, <2>4, LooksOK DEF HandlerOK, HandlerAdds, ControlLooks
  <2> QED BY Zenon, <1>1, <1>3, <2>3, <2>5 DEF HandlerAdds, ControlLooks
<1>4. CASE HandlerScans(h)
  <2>1. PICK v : v = Scanned(m.look)
    BY Zenon
  <2>2. PICK q : q = [m EXCEPT !.pc = "scan", !.look = v]
    BY Zenon
  <2>3. handler' = [handler EXCEPT ![h] = q]
    BY Zenon, <1>0, <1>4, <2>1, <2>2 DEF HandlerScans
  <2>4. {"pc", "stream", "look"} \subseteq DOMAIN q /\ q.stream = m.stream /\ q.look = v
    BY Zenon, <1>0, <2>2
  <2>5. LookOK(v)
    BY Zenon, <1>0, <2>1, LooksOK DEF HandlerOK
  <2>6. HandlerOK(q)
    BY Zenon, <1>0, <1>4, <2>4, <2>5 DEF HandlerOK, HandlerScans
  <2> QED BY Zenon, <1>1, <1>4, <2>3, <2>6 DEF HandlerScans
<1>5. CASE HandlerReconciles(h)
  <2>1. PICK u, v : handler' = [handler EXCEPT ![h].pc = u, ![h].seen = v, ![h].look = NoSnapshot]
    BY Zenon, <1>5 DEF HandlerReconciles
  <2>2. PICK q : q = [m EXCEPT !.pc = u, !.seen = v, !.look = NoSnapshot]
    BY Zenon
  <2>3. handler' = [handler EXCEPT ![h] = q]
    BY Zenon, <1>0, <2>1, <2>2
  <2>4. {"pc", "stream", "look"} \subseteq DOMAIN q /\ q.stream = m.stream /\ q.look = NoSnapshot
    BY Zenon, <1>0, <2>2
  <2>5. HandlerOK(q)
    BY Zenon, <1>0, <1>5, <2>4, RestingHandler DEF HandlerOK, HandlerReconciles
  <2>6. RegOK(reg') /\ KeepsLive
    BY Zenon, <1>0, <1>5, ReconcilesOK DEF HandlerReconciles, HandlerOK
  <2>7. sn' = sn /\ keeper' = keeper
    BY Zenon, <1>5 DEF HandlerReconciles
  <2> QED BY Zenon, <1>0, <2>3, <2>5, <2>6, <2>7, HandlersNext, AssembleReg
<1>6. CASE HandlerObserves(h)
  <2>0. keeper' = keeper /\ WasOpened(m.stream)
    BY Zenon, <1>0, <1>6 DEF HandlerObserves, HandlerOK
  <2>1. PICK d : handler' = [handler EXCEPT ![h] = Told(h, d)]
    BY Zenon, <1>6 DEF HandlerObserves, ObserveReport, ObserveControl
  <2>2. /\ handler' = [g \in Handlers |-> handler'[g]]
        /\ \A g \in Handlers : HandlerOK(handler[g])'
    BY Zenon, <1>0, <2>1, HandlersNext, RestingHandler
  <2>3. \/ reg' = reg
        \/ \E past \in BOOLEAN :
             \/ reg' = AfterExpiry(Registered(reg, m.stream, m.seen), past)
             \/ reg' = AfterIssue(AfterResult(AfterExpiry(Registered(reg, m.stream, m.seen), past),
                                              m.result))
    BY Zenon, <1>6 DEF HandlerObserves, ObserveReport, ObserveControl
  <2>4. RegOK(reg') /\ (reg.gen # 0 => reg'.gen # 0)
    <3>1. CASE reg' = reg
      BY Zenon, <1>0, <3>1
    <3>2. PICK r : r = Registered(reg, m.stream, m.seen)
      BY Zenon
    <3>3. RegOK(r) /\ (reg.gen # 0 => r.gen # 0)
      BY Zenon, <2>0, <3>2, SchedulerOK
    <3>4. ASSUME NEW past \in BOOLEAN
          PROVE  LET y == AfterExpiry(r, past)
                     z == AfterResult(y, m.result)
                 IN /\ RegOK(y) /\ y.gen = r.gen
                    /\ RegOK(AfterIssue(z)) /\ AfterIssue(z).gen = r.gen
      <4>1. PICK y : y = AfterExpiry(r, past)
        BY Zenon
      <4>2. RegOK(y) /\ y.gen = r.gen
        BY Zenon, <3>3, <4>1, SchedulerOK
      <4>3. PICK z : z = AfterResult(y, m.result)
        BY Zenon
      <4>4. RegOK(z) /\ z.gen = r.gen
        BY Zenon, <4>2, <4>3, SchedulerOK
      <4>5. RegOK(AfterIssue(z)) /\ AfterIssue(z).gen = r.gen
        BY Zenon, <4>4, SchedulerOK
      <4> QED BY Zenon, <4>1, <4>2, <4>3, <4>5
    <3> QED BY Zenon, <2>3, <3>1, <3>2, <3>3, <3>4
  <2>5. KeepsLive
    BY Zenon, <2>4 DEF KeepsLive
  <2>6. {"nextGen"} \subseteq DOMAIN sn' /\ sn'.nextGen \in Nat \ {0}
    <3>1. PICK g : g = IF Registers(reg, m.seen) THEN sn.nextGen + 1 ELSE sn.nextGen
      BY Zenon
    <3>2. g \in Nat \ {0}
      BY <1>0, <3>1
    <3>3. \/ sn' = sn \/ sn' = [sn EXCEPT !.nextGen = g]
          \/ \E q : sn' = [sn EXCEPT !.nextGen = g, !.nextReq = q]
      BY Zenon, <1>6, <3>1 DEF HandlerObserves, ObserveReport, ObserveControl
    <3> QED BY Zenon, <1>0, <3>2, <3>3
  <2> QED BY Zenon, <1>0, <2>0, <2>2, <2>4, <2>5, <2>6, AssembleReg
<1>7. CASE HandlerEnds(h)
  BY Zenon, <1>1, <1>7, RestingHandler DEF HandlerEnds
<1> QED BY Zenon, <1>2, <1>3, <1>4, <1>5, <1>6, <1>7 DEF HandlerStep

LEMMA KeeperStepOK ==
  ASSUME RegistrationInv, KeeperStep \/ KeeperExpires(FALSE)
  PROVE  StepOK
<1>0. /\ StreamsGoOn /\ UNCHANGED <<stream, sn, handler>>
      /\ RegOK(reg) /\ {"look"} \subseteq DOMAIN keeper /\ LookOK(keeper.look)
      /\ {"nextGen"} \subseteq DOMAIN sn /\ sn.nextGen \in Nat \ {0}
  <2>1. UNCHANGED <<stream, sn, handler>>
    BY Zenon DEF KeeperStep, KeeperLooks, KeeperScans, KeeperReconciles, KeeperExpires
  <2> QED BY Zenon, <2>1, SameStreams DEF RegistrationInv
<1>1. /\ handler' = [h \in Handlers |-> handler'[h]]
      /\ \A h \in Handlers : HandlerOK(handler[h])'
  BY Zenon, <1>0, SameHandlers
<1>2. ASSUME NEW pc, NEW l, keeper' = [pc |-> pc, look |-> l], LookOK(l), RegOK(reg'), KeepsLive
      PROVE  StepOK
  <2>1. {"look"} \subseteq DOMAIN keeper' /\ keeper'.look = l
    BY Zenon, <1>2
  <2> QED BY Zenon, <1>0, <1>1, <1>2, <2>1, AssembleReg
<1>3. reg' = reg => KeepsLive
  BY Zenon DEF KeepsLive
<1>4. CASE KeeperLooks
  BY Zenon, <1>0, <1>2, <1>3, <1>4, LooksOK DEF KeeperLooks
<1>5. CASE KeeperScans
  BY Zenon, <1>0, <1>2, <1>3, <1>5, LooksOK DEF KeeperScans
<1>6. CASE KeeperReconciles
  <2>1. RegOK(reg') /\ KeepsLive
    BY Zenon, <1>0, <1>6, ReconcilesOK DEF KeeperReconciles
  <2> QED BY Zenon, <1>2, <1>6, <2>1, RestingHandler DEF KeeperReconciles
<1>7. CASE \E past \in BOOLEAN : KeeperExpires(past)
  <2>1. PICK past \in BOOLEAN : KeeperExpires(past)
    BY Zenon, <1>7
  <2>2. RegOK(reg') /\ reg'.gen = reg.gen
    BY Zenon, <1>0, <2>1, SchedulerOK DEF KeeperExpires
  <2>3. KeepsLive
    BY Zenon, <2>2 DEF KeepsLive
  <2>4. {"look"} \subseteq DOMAIN keeper' /\ keeper'.look = keeper.look
    BY Zenon, <1>0, <2>1 DEF KeeperExpires
  <2> QED BY Zenon, <1>0, <1>1, <2>2, <2>3, <2>4, AssembleReg
<1> QED BY Zenon, <1>4, <1>5, <1>6, <1>7 DEF KeeperStep

\* A stream that ends, or changes its address
LEMMA StreamMoves ==
  ASSUME RegistrationInv, NEW s, NEW v \in Paths \cup {"dead"}, Alive(s),
         stream' = [stream EXCEPT ![s] = v]
  PROVE  StreamsGoOn /\ stream' \in [Streams -> Paths \cup {"new", "dead"}]
<1>1. stream \in [Streams -> Paths \cup {"new", "dead"}]
  BY Zenon DEF RegistrationInv
<1>2. stream[s] # "dead" /\ v # "new"
  BY Zenon, SnAssumption DEF Alive
<1> QED BY Zenon, <1>1, <1>2 DEF StreamsGoOn, WasOpened, IsOver

\* A report goes out: its stream is open from now on
LEMMA SendsOK ==
  ASSUME RegistrationInv, NEW s \in Streams, NEW v, Sends(s, v)
  PROVE  StepOK
<1>1. stream \in [Streams -> Paths \cup {"new", "dead"}]
  BY Zenon DEF RegistrationInv
<1>2. /\ StreamsGoOn /\ stream' \in [Streams -> Paths \cup {"new", "dead"}] /\ stream'[s] \in Paths
  <2>1. CASE Alive(s) /\ stream' = stream
    BY Zenon, <1>1, <2>1, SameStreams DEF Alive
  <2>2. CASE stream[s] = "new" /\ \E p \in OpensOn[s] : stream' = [stream EXCEPT ![s] = p]
    <3>1. PICK p \in OpensOn[s] : stream' = [stream EXCEPT ![s] = p]
      BY Zenon, <2>2
    <3>2. p \in Paths /\ p # "new" /\ p # "dead"
      BY Zenon, SnAssumption
    <3> QED BY Zenon, <1>1, <2>2, <3>1, <3>2 DEF StreamsGoOn, WasOpened, IsOver
  <2> QED BY Zenon, <2>1, <2>2 DEF Sends, Usable
<1>3. PICK h \in Handlers : handler' = [handler EXCEPT ![h] = [NoHandler EXCEPT !.pc = "start",
                                          !.stream = s, !.result = v]]
  BY Zenon DEF Sends, Free
<1>4. PICK q : q = [NoHandler EXCEPT !.pc = "start", !.stream = s, !.result = v]
  BY Zenon
<1>5. {"pc", "stream", "look"} \subseteq DOMAIN q /\ q.stream = s /\ q.look = NoSnapshot
  BY Zenon, <1>4 DEF NoHandler
<1>6. UNCHANGED <<reg, sn, keeper>>
  BY Zenon DEF Sends
<1>7. handler = [g \in Handlers |-> handler[g]] /\ handler' = [handler EXCEPT ![h] = q]
  BY Zenon, <1>3, <1>4 DEF RegistrationInv
<1>8. WasOpened(s)'
  BY Zenon, <1>2, SnAssumption DEF WasOpened
<1>9. ASSUME NEW g \in Handlers PROVE HandlerOK(handler[g])'
  <2>1. CASE g = h
    <3>1. handler'[g] = q
      BY Zenon, <1>7, <2>1
    <3>2. LookOK(NoSnapshot)'
      BY Zenon DEF LookOK, NoSnapshot
    <3> QED BY Zenon, <1>5, <1>8, <3>1, <3>2 DEF HandlerOK, LookOK
  <2>2. CASE g # h
    <3>1. handler'[g] = handler[g]
      BY Zenon, <1>7, <2>2
    <3> QED BY Zenon, <1>2, <3>1, HandlerNext DEF RegistrationInv
  <2> QED BY Zenon, <2>1, <2>2
<1>10. handler' = [g \in Handlers |-> handler'[g]]
  BY Zenon, <1>7
<1> QED BY Zenon, <1>2, <1>6, <1>9, <1>10, AssembleStep

\* The client, the network and the operator
LEMMA OthersOK ==
  ASSUME RegistrationInv,
         \/ ClientStep \/ AcquireFails \/ QaFails \/ SetPorts \/ Disconnected
         \/ \E s \in Streams : StreamBreaks(s) \/ AddressChanges(s) \/ SendControl(s)
  PROVE  StepOK
<1>0. /\ stream \in [Streams -> Paths \cup {"new", "dead"}]
      /\ RegOK(reg) /\ {"look"} \subseteq DOMAIN keeper /\ LookOK(keeper.look)
      /\ {"nextGen"} \subseteq DOMAIN sn /\ sn.nextGen \in Nat \ {0}
  BY Zenon DEF RegistrationInv
<1>a. ASSUME StreamsGoOn, stream' \in [Streams -> Paths \cup {"new", "dead"}],
             UNCHANGED <<reg, sn, keeper, handler>>
      PROVE  StepOK
  BY Zenon, <1>a, SameHandlers, AssembleStep
<1>b. ASSUME stream' = stream, UNCHANGED <<reg, sn, keeper>>, NEW x, NEW q,
             handler' = [handler EXCEPT ![x] = q], HandlerOK(q)
      PROVE  StepOK
  BY Zenon, <1>0, <1>b, SameStreams, HandlersNext, AssembleStep
<1>1. CASE \E s \in Streams : SendReport(s) \/ ReportResult(s)
  BY Zenon, <1>1, SendsOK DEF SendReport, ReportResult
<1>2. CASE ResultAnswered \/ \E past \in BOOLEAN : ReportAnswered(past)
  BY Zenon, <1>b, <1>2, RestingHandler DEF ResultAnswered, ReportAnswered, Released
<1>3. CASE ProbeEnds \/ AcquireFails
  BY Zenon, <1>0, <1>a, <1>3, SameStreams DEF ProbeEnds, AcquireFails
<1>4. CASE QaFails
  <2>1. UNCHANGED <<reg, sn, keeper, handler>>
    BY Zenon, <1>4 DEF QaFails
  <2>2. stream' = stream \/ \E s : Alive(s) /\ stream' = [stream EXCEPT ![s] = "dead"]
    BY Zenon, <1>4 DEF QaFails, Ends
  <2> QED BY Zenon, <1>0, <1>a, <2>1, <2>2, StreamMoves, SameStreams
<1>5. CASE SetPorts
  <2>1. PICK on : sn' = [sn EXCEPT !.ports = on, !.cfg = @ + 1]
    BY Zenon, <1>5 DEF SetPorts
  <2>2. {"nextGen"} \subseteq DOMAIN sn' /\ sn'.nextGen = sn.nextGen
    BY Zenon, <1>0, <2>1
  <2>3. reg' = [reg EXCEPT !.req = 0] /\ UNCHANGED <<stream, handler, keeper>>
    BY Zenon, <1>5 DEF SetPorts
  <2>4. RegOK(reg') /\ reg'.gen = reg.gen
    <3>1. {"tunnel", "gen"} \subseteq DOMAIN reg' /\ reg'.gen = reg.gen /\ reg'.tunnel = reg.tunnel
      BY Zenon, <1>0, <2>3 DEF RegOK
    <3> QED BY Zenon, <1>0, <3>1 DEF RegOK
  <2>5. KeepsLive
    BY Zenon, <2>4 DEF KeepsLive
  <2> QED BY <1>0, <2>2, <2>3, <2>4, <2>5, SameStreams, SameHandlers, AssembleReg
<1>6. CASE Disconnected
  <2>1. reg' = NoReg /\ gone /\ ~gone' /\ UNCHANGED <<stream, sn, handler, keeper>>
    BY Zenon, <1>6 DEF Disconnected
  <2>2. RegOK(NoReg) /\ KeepsLive
    BY Zenon, <2>1 DEF RegOK, NoReg, KeepsLive
  <2> QED BY Zenon, <1>0, <2>1, <2>2, SameStreams, SameHandlers, AssembleReg
<1>7. ASSUME NEW s \in Streams, StreamBreaks(s) \/ AddressChanges(s) PROVE StepOK
  <2>1. UNCHANGED <<reg, sn, keeper, handler>>
    BY Zenon, <1>7 DEF StreamBreaks, AddressChanges
  <2>2. Alive(s) /\ \E v \in Paths \cup {"dead"} : stream' = [stream EXCEPT ![s] = v]
    BY Zenon, <1>7 DEF StreamBreaks, AddressChanges, Ends
  <2> QED BY Zenon, <1>a, <2>1, <2>2, StreamMoves
<1>8. ASSUME NEW s \in Streams, SendControl(s) PROVE StepOK
  <2>1. PICK q : q = [NoHandler EXCEPT !.pc = "start", !.kind = "control", !.stream = s]
    BY Zenon
  <2>2. {"pc", "stream", "look"} \subseteq DOMAIN q /\ q.stream = s /\ q.look = NoSnapshot
    BY Zenon, <2>1 DEF NoHandler
  <2>3. WasOpened(s)
    BY Zenon, <1>8, SnAssumption DEF SendControl, Alive, WasOpened
  <2>4. HandlerOK(q)
    BY Zenon, <2>2, <2>3, RestingHandler DEF HandlerOK
  <2>5. PICK h : handler' = [handler EXCEPT ![h] = q]
    BY Zenon, <1>8, <2>1 DEF SendControl
  <2> QED BY Zenon, <1>8, <1>b, <2>4, <2>5 DEF SendControl
<1> QED BY <1>1, <1>2, <1>3, <1>4, <1>5, <1>6, <1>7, <1>8 DEF ClientStep

(***************************************************************************)
(* A cleanup of the SN never takes a registration whose command stream is  *)
(* alive, whatever comes between the snapshot of                           *)
(* reconcile_nat_probe_authority and its decision; only the disconnection  *)
(* of the peer may (service.rs, nat_probe_scheduler.rs).                   *)
(***************************************************************************)
THEOREM LiveAuthorityStays == Spec => LiveAuthorityKept
<1>1. Init => RegistrationInv
  <2> SUFFICES ASSUME Init PROVE RegistrationInv
    BY Zenon
  <2>1. \A h \in Handlers : handler[h] = NoHandler
    BY Zenon DEF Init
  <2>2. keeper.look = NoSnapshot /\ {"look"} \subseteq DOMAIN keeper
    BY Zenon DEF Init
  <2>3. RegOK(reg)
    BY Zenon DEF Init, RegOK, NoReg
  <2>4. stream \in [Streams -> Paths \cup {"new", "dead"}] /\ {"nextGen"} \subseteq DOMAIN sn
        /\ sn.nextGen \in Nat \ {0} /\ handler = [h \in Handlers |-> handler[h]]
    BY DEF Init
  <2> QED BY Zenon, <2>1, <2>2, <2>3, <2>4, RestingHandler DEF RegistrationInv
<1>2. RegistrationInv /\ [Next]_vars => RegistrationInv'
  <2>1. ASSUME RegistrationInv, UNCHANGED vars PROVE RegistrationInv'
    BY Zenon, <2>1 DEF vars, RegistrationInv, RegOK, HandlerOK, LookOK, WasOpened, IsOver
  <2>2. ASSUME RegistrationInv, Next PROVE StepOK
    BY Zenon, <2>2, HandlerStepOK, KeeperStepOK, OthersOK DEF Next
  <2> QED BY Zenon, <2>1, <2>2 DEF StepOK
<1>3. RegistrationInv /\ Next => KeepsLive
  BY Zenon, HandlerStepOK, KeeperStepOK, OthersOK DEF Next, StepOK
<1>4. RegistrationInv /\ [Next]_vars => [KeepsLive]_vars
  BY Zenon, <1>3
<1> QED BY <1>1, <1>2, <1>4, PTL DEF Spec, LiveAuthorityKept, KeepsLive
=============================================================================
