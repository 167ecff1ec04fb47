------------------------------ MODULE LiveFeed ------------------------------
(***************************************************************************)
(* The live attendance feed of one session: the notifications consumers    *)
(* (ws/notifications-consumer.ts), the fan-out over Redis pub/sub with its *)
(* local fallback (ws/broadcaster.ts), each replica's registry of sockets  *)
(* (ws/connection-registry.ts, ws/ws-server.ts), and the page that         *)
(* reconnects (lib/ws.ts) and reloads the list on every event.             *)
(*                                                                         *)
(* An event is named by the number of its record, so a list that was read  *)
(* when n records were committed shows events 1..n.                        *)
(***************************************************************************)
EXTENDS Naturals, Sequences, SequencesExt

CONSTANTS
  Pages,      \* session pages open in browsers
  Replicas,   \* gateway processes
  Sockets,    \* connections the pages may open, numbered
  Nobody,     \* no page, no replica
  MaxEvents,  \* bound on the records
  MaxFaults   \* bound on the faults

ASSUME LiveFeedAssumption ==
  /\ Nobody \notin Pages \cup Replicas
  /\ Sockets \cup {MaxEvents, MaxFaults} \subseteq Nat

VARIABLES
  recorded,   \* attendance records committed
  published,  \* how often the relay has published each event
  queued,     \* copies of each event in facevec.notifications
  ready,      \* replicas whose Redis client is ready
  flying,     \* PUBLISH commands of each replica that have no reply yet
  keeps,      \* replicas whose subscriber subscribes again after an outage
  listening,  \* replicas whose subscriber is connected and subscribed
  bus,        \* what Redis is bringing each subscriber
  owner,      \* the page that opened each socket
  at,         \* the replica it reached
  phase,      \* its state in the browser
  serving,    \* sockets the server sees as OPEN
  checking,   \* sockets whose subscribe is in its access check
  registry,   \* each replica's sockets subscribed to the session
  stale,      \* pages whose access token has lapsed
  loads,      \* outstanding loads of each page: 0 asked, n+1 answered with n
  shown,      \* the records each page shows
  warned,     \* pages that show the error of a failed load
  crossed,    \* history: pages that applied an answer before an older one's
  due,        \* history: events consumed while the socket was subscribed
  missed,     \* history: events a named loss kept from the socket
  got,        \* history: frames of each event that reached the page
  again,      \* history: redeliveries and repeated PUBLISHes of each event
  rejected,   \* history: sockets whose access check failed
  leaked,     \* history: sockets that closed during their access check
  faults      \* faults injected so far

queue == <<recorded, published, queued>>
redis == <<ready, flying, keeps, listening, bus>>
socket == <<owner, at, phase, serving, checking, registry>>
page == <<stale, loads, shown, warned, crossed>>
history == <<due, missed, got, again, rejected, leaked>>
vars == <<queue, redis, socket, page, history, faults>>

Events == 1..MaxEvents

TypeOK ==
  /\ recorded \in 0..MaxEvents
  /\ published \in [Events -> Nat] /\ queued \in [Events -> Nat] /\ again \in [Events -> Nat]
  /\ ready \subseteq Replicas /\ listening \subseteq keeps /\ keeps \subseteq Replicas
  /\ flying \in [Replicas -> [Events -> Nat]]
  /\ bus \in [Replicas -> Seq(Events)]
  /\ owner \in [Sockets -> Pages \cup {Nobody}]
  /\ at \in [Sockets -> Replicas \cup {Nobody}]
  /\ phase \in [Sockets -> {"unused", "connecting", "open", "closed"}]
  /\ serving \subseteq Sockets /\ checking \subseteq Sockets
  /\ registry \in [Replicas -> SUBSET Sockets]
  /\ stale \subseteq Pages /\ warned \subseteq Pages /\ crossed \subseteq Pages
  /\ rejected \subseteq Sockets /\ leaked \subseteq Sockets
  /\ loads \in [Pages -> Seq(0..(MaxEvents + 1))]
  /\ shown \in [Pages -> 0..MaxEvents]
  /\ due \in [Sockets -> SUBSET Events] /\ missed \in [Sockets -> SUBSET Events]
  /\ got \in [Sockets -> [Events -> Nat]]
  /\ faults \in 0..MaxFaults

\* Each replica is up.  Its subscriber's first SUBSCRIBE has gone through, or failed:
\* initBroadcaster logs that and never tries again, and ioredis restores only what
\* it had.
Init ==
  /\ recorded = 0
  /\ published = [e \in Events |-> 0]
  /\ queued = published /\ again = published
  /\ ready = Replicas
  /\ flying = [r \in Replicas |-> published]
  /\ keeps \in SUBSET Replicas /\ listening = keeps
  /\ bus = [r \in Replicas |-> <<>>]
  /\ owner = [k \in Sockets |-> Nobody]
  /\ at = owner
  /\ phase = [k \in Sockets |-> "unused"]
  /\ serving = {} /\ checking = {} /\ rejected = {} /\ leaked = {}
  /\ registry = [r \in Replicas |-> {}]
  /\ stale = {} /\ warned = {} /\ crossed = {}
  /\ loads = [p \in Pages |-> <<0>>]
  /\ shown = [p \in Pages |-> 0]
  /\ due = [k \in Sockets |-> {}] /\ missed = due
  /\ got = [k \in Sockets |-> published]
  /\ faults = 0

Fault == faults < MaxFaults /\ faults' = faults + 1

-----------------------------------------------------------------------------
(* From the record to the sockets.                                         *)

Record ==
  /\ recorded < MaxEvents
  /\ recorded' = recorded + 1
  /\ UNCHANGED <<published, queued, redis, socket, page, history, faults>>

\* The relay publishes attendance.recorded, in any order, and may do so again.
Publish(e) ==
  /\ e <= recorded
  /\ published[e] > 0 => Fault
  /\ published[e] = 0 => UNCHANGED faults
  /\ published' = [published EXCEPT ![e] = @ + 1]
  /\ queued' = [queued EXCEPT ![e] = @ + 1]
  /\ UNCHANGED <<recorded, redis, socket, page, history>>

\* connectionRegistry.broadcast on replica r.
Reached(r) == {k \in registry[r] \cap serving : phase[k] = "open"}

\* Seeded fault: an event that arrives during a load is taken to be in it.
ReloadIdle(S) ==
  [p \in Pages |->
     IF \E k \in S : owner[k] = p THEN (IF loads[p] = <<>> THEN <<0>> ELSE loads[p])
     ELSE loads[p]]

\* Every event makes its page load the list once more.
Reload(S) ==
  [p \in Pages |-> IF \E k \in S : owner[k] = p THEN Append(loads[p], 0) ELSE loads[p]]

Broadcast(r, e) ==
  /\ got' = [k \in Sockets |->
       IF k \in Reached(r) THEN [got[k] EXCEPT ![e] = @ + 1] ELSE got[k]]
  /\ loads' = Reload(Reached(r))

Subscribers == UNION {registry[r] : r \in Replicas}

\* The sockets of K miss the events of E, for one of the reasons below.
Miss(K, E) ==
  missed' = [k \in Sockets |-> IF k \in K THEN missed[k] \cup E ELSE missed[k]]

Pending(r) == {e \in Events : flying[r][e] > 0}

\* Seeded fault: the consuming replica serves its own sockets directly as well.
HandOverTwice(r, e) ==
  /\ flying' = [flying EXCEPT ![r][e] = @ + 1]
  /\ Broadcast(r, e)
  /\ UNCHANGED missed

\* publishAttendance with a ready client: a PUBLISH nobody waits for.
HandOver(r, e) ==
  /\ flying' = [flying EXCEPT ![r][e] = @ + 1]
  /\ UNCHANGED <<got, loads, missed>>

\* publishAttendance without one: only the sockets of this replica are served.
LocalOnly(r, e) ==
  /\ Broadcast(r, e)
  /\ Miss(Subscribers \ registry[r], {e})
  /\ UNCHANGED flying

\* NotificationsConsumer.handle: one replica passes a copy on and acks it.  An ack
\* that is lost with its connection makes the broker deliver the copy again.
Consume(r, e) ==
  /\ queued[e] > 0
  /\ \/ queued' = [queued EXCEPT ![e] = @ - 1] /\ UNCHANGED <<again, faults>>
     \/ Fault /\ again' = [again EXCEPT ![e] = @ + 1] /\ UNCHANGED queued
  /\ due' = [k \in Sockets |-> IF k \in Subscribers THEN due[k] \cup {e} ELSE due[k]]
  /\ \/ r \in ready /\ HandOver(r, e)
     \/ r \notin ready /\ LocalOnly(r, e)
  /\ UNCHANGED <<recorded, published, ready, keeps, listening, bus, socket,
                 stale, shown, warned, crossed, rejected, leaked>>

\* Redis carries out a PUBLISH: the subscribers connected now will hear of it, and
\* nothing is kept for the others.  If the reply is lost with the client's
\* connection, ioredis repeats the command on the next one.
FanOut(r, e) ==
  /\ r \in ready /\ flying[r][e] > 0
  /\ bus' = [q \in Replicas |-> IF q \in listening THEN Append(bus[q], e) ELSE bus[q]]
  /\ Miss(UNION {registry[q] : q \in Replicas \ listening}, {e})
  /\ \/ /\ flying' = [flying EXCEPT ![r][e] = @ - 1]
        /\ UNCHANGED <<ready, again, faults>>
     \/ /\ Fault /\ ready' = ready \ {r} /\ again' = [again EXCEPT ![e] = @ + 1]
        /\ UNCHANGED flying
  /\ UNCHANGED <<queue, keeps, listening, socket, page, due, got, rejected, leaked>>

\* subscriber.on('message').
Hear(r) ==
  /\ bus[r] # <<>>
  /\ bus' = [bus EXCEPT ![r] = Tail(@)]
  /\ Broadcast(r, Head(bus[r]))
  /\ UNCHANGED <<queue, ready, flying, keeps, listening, socket,
                 stale, shown, warned, crossed, due, missed, again, rejected, leaked, faults>>

\* The Redis client of r loses its connection; its commands wait for the next one.
ClientDown(r) ==
  /\ r \in ready /\ Fault
  /\ ready' = ready \ {r}
  /\ UNCHANGED <<queue, flying, keeps, listening, bus, socket, page, history>>

\* maxRetriesPerRequest: the commands that waited too long are rejected.
GiveUp(r) ==
  /\ r \notin ready /\ Pending(r) # {}
  /\ flying' = [flying EXCEPT ![r] = [e \in Events |-> 0]]
  /\ Miss(Sockets, Pending(r))
  /\ UNCHANGED <<queue, ready, keeps, listening, bus, socket, page,
                 due, got, again, rejected, leaked, faults>>

ClientUp(r) ==
  /\ r \notin ready
  /\ ready' = ready \cup {r}
  /\ UNCHANGED <<queue, flying, keeps, listening, bus, socket, page, history, faults>>

\* The subscriber of r loses its own connection, and what was on its way.
SubscriberDown(r) ==
  /\ r \in listening /\ Fault
  /\ listening' = listening \ {r}
  /\ bus' = [bus EXCEPT ![r] = <<>>]
  /\ Miss(registry[r], ToSet(bus[r]))
  /\ UNCHANGED <<queue, ready, flying, keeps, socket, page, due, got, again, rejected, leaked>>

\* autoResubscribe, or the first SUBSCRIBE going through.
Resubscribe(r) ==
  /\ r \in keeps \ listening
  /\ listening' = listening \cup {r}
  /\ UNCHANGED <<queue, ready, flying, keeps, bus, socket, page, history, faults>>

-----------------------------------------------------------------------------
(* The sockets.                                                            *)

\* Seeded fault: onclose does not reconnect.
ConnectOnce(p, k) ==
  /\ phase[k] = "unused" /\ \A j \in Sockets : j < k => phase[j] # "unused"
  /\ \A j \in Sockets : owner[j] # p
  /\ phase' = [phase EXCEPT ![k] = "connecting"]
  /\ owner' = [owner EXCEPT ![k] = p]
  /\ UNCHANGED <<queue, redis, at, serving, checking, registry, page, history, faults>>

\* connect(): a page opens a socket unless it has one.
Connect(p, k) ==
  /\ phase[k] = "unused" /\ \A j \in Sockets : j < k => phase[j] # "unused"
  /\ \A j \in Sockets : owner[j] = p => phase[j] = "closed"
  /\ phase' = [phase EXCEPT ![k] = "connecting"]
  /\ owner' = [owner EXCEPT ![k] = p]
  /\ UNCHANGED <<queue, redis, at, serving, checking, registry, page, history, faults>>

\* handleUpgrade accepts it at some replica, and onopen sends the subscribe,
\* whose access check begins.
Accept(k, r) ==
  /\ phase[k] = "connecting" /\ owner[k] \notin stale
  /\ phase' = [phase EXCEPT ![k] = "open"]
  /\ at' = [at EXCEPT ![k] = r]
  /\ serving' = serving \cup {k}
  /\ checking' = checking \cup {k}
  /\ UNCHANGED <<queue, redis, owner, registry, page, history, faults>>

\* A stale token, or an error of its check, is a 401: the page will try again, with
\* the token of then.
Refuse(k) ==
  /\ phase[k] = "connecting"
  /\ \/ owner[k] \in stale /\ UNCHANGED faults
     \/ owner[k] \notin stale /\ Fault
  /\ phase' = [phase EXCEPT ![k] = "unused"]
  /\ owner' = [owner EXCEPT ![k] = Nobody]
  /\ UNCHANGED <<queue, redis, at, serving, checking, registry, page, history>>

\* connectionRegistry.subscribe.
Registered(k) == [registry EXCEPT ![at[k]] = @ \cup {k}]

\* The check is over; the socket is not looked at again.
Subscribe(k) ==
  /\ k \in checking
  /\ checking' = checking \ {k}
  /\ registry' = Registered(k)
  /\ UNCHANGED <<queue, redis, owner, at, phase, serving, page, history, faults>>

\* The check fails: the error frame is ignored by lib/ws.ts, which subscribes again
\* only on its next socket, and this one stays open.
Reject(k) ==
  /\ k \in checking /\ Fault
  /\ checking' = checking \ {k}
  /\ rejected' = rejected \cup {k}
  /\ UNCHANGED <<queue, redis, owner, at, phase, serving, registry, page,
                 due, missed, got, again, leaked>>

\* The connection breaks; the page knows, the server may not yet.
Break(k) ==
  /\ phase[k] = "open" /\ Fault
  /\ phase' = [phase EXCEPT ![k] = "closed"]
  /\ UNCHANGED <<queue, redis, owner, at, serving, checking, registry, page, history>>

\* Seeded fault: the session's whole set goes with the first socket to leave.
RemovedAll(k) == [registry EXCEPT ![at[k]] = {}]

\* Seeded fault: a terminated socket stays in the registry.
RemovedNever(k) == registry

\* connectionRegistry.remove.
Removed(k) == [registry EXCEPT ![at[k]] = @ \ {k}]

\* The server sees the close, or the heartbeat terminates the socket.
ServerClose(k) ==
  /\ k \in serving /\ phase[k] = "closed"
  /\ serving' = serving \ {k}
  /\ registry' = Removed(k)
  /\ leaked' = leaked \cup ({k} \cap checking)
  /\ UNCHANGED <<queue, redis, owner, at, phase, checking, page, due, missed, got, again, rejected, faults>>

\* A gateway restarts: its sockets and its commands are gone, its subscriber starts
\* afresh.
Restart(r) ==
  /\ Fault
  /\ phase' = [k \in Sockets |-> IF at[k] = r THEN "closed" ELSE phase[k]]
  /\ serving' = {k \in serving : at[k] # r}
  /\ checking' = {k \in checking : at[k] # r}
  /\ registry' = [registry EXCEPT ![r] = {}]
  /\ bus' = [bus EXCEPT ![r] = <<>>]
  /\ ready' = ready \cup {r}
  /\ keeps' \in {keeps \cup {r}, keeps \ {r}}
  /\ listening' = listening \ {r}
  /\ flying' = [flying EXCEPT ![r] = [e \in Events |-> 0]]
  /\ Miss(Sockets, Pending(r))
  /\ UNCHANGED <<queue, owner, at, page, due, got, again, rejected, leaked>>

-----------------------------------------------------------------------------
(* The page.                                                               *)

\* The access token lapses; only an API call refreshes it.
Lapse(p) ==
  /\ p \notin stale /\ Fault
  /\ stale' = stale \cup {p}
  /\ UNCHANGED <<queue, redis, socket, loads, shown, warned, crossed, history>>

\* The server reads the records for the i-th outstanding load.
Read(p, i) ==
  /\ i \in DOMAIN loads[p] /\ loads[p][i] = 0
  /\ loads' = [loads EXCEPT ![p][i] = recorded + 1]
  /\ stale' = stale \ {p}
  /\ UNCHANGED <<queue, redis, socket, shown, warned, crossed, history, faults>>

\* Its answer arrives: setRecords, whatever is shown by now.
Show(p, i) ==
  /\ i \in DOMAIN loads[p] /\ loads[p][i] # 0
  /\ shown' = [shown EXCEPT ![p] = loads[p][i] - 1]
  /\ loads' = [loads EXCEPT ![p] = RemoveAt(@, i)]
  /\ crossed' = IF i > 1 THEN crossed \cup {p} ELSE crossed
  /\ UNCHANGED <<queue, redis, socket, stale, warned, history, faults>>

\* Or it fails, at the server or on its way: setError, the list stays as it is.
LoadFails(p, i) ==
  /\ i \in DOMAIN loads[p] /\ Fault
  /\ loads' = [loads EXCEPT ![p] = RemoveAt(@, i)]
  /\ warned' = warned \cup {p}
  /\ UNCHANGED <<queue, redis, socket, stale, shown, crossed, history>>

-----------------------------------------------------------------------------
Gateway(r) ==
  \/ Hear(r) \/ GiveUp(r) \/ Restart(r)
  \/ ClientDown(r) \/ ClientUp(r) \/ SubscriberDown(r) \/ Resubscribe(r)
  \/ \E e \in Events : Consume(r, e) \/ FanOut(r, e)

Socket(k) ==
  \/ Refuse(k) \/ Subscribe(k) \/ Reject(k) \/ Break(k) \/ ServerClose(k)
  \/ \E r \in Replicas : Accept(k, r)

Page(p) ==
  \/ Lapse(p) \/ \E k \in Sockets : Connect(p, k)
  \/ \E i \in 1..Len(loads[p]) : Read(p, i) \/ Show(p, i) \/ LoadFails(p, i)

Next ==
  \/ Record \/ \E e \in Events : Publish(e)
  \/ \E r \in Replicas : Gateway(r)
  \/ \E k \in Sockets : Socket(k)
  \/ \E p \in Pages : Page(p)

Spec == Init /\ [][Next]_vars

(***************************************************************************)
(* Fairness.  The page's timer reconnects every two seconds, upgrades and  *)
(* access checks are answered, the heartbeat finds dead sockets.  Loads,   *)
(* events and faults owe nothing.                                          *)
(***************************************************************************)
Fairness ==
  /\ \A p \in Pages : WF_vars(\E k \in Sockets : Connect(p, k))
  /\ \A k \in Sockets :
       /\ WF_vars(Refuse(k) \/ \E r \in Replicas : Accept(k, r))
       /\ WF_vars(Subscribe(k)) /\ WF_vars(ServerClose(k))

FairSpec == Spec /\ Fairness

-----------------------------------------------------------------------------
(* Properties.                                                             *)

\* An event that is consumed while a socket is subscribed, at whatever replica,
\* reaches it, is on its way, or was kept from it by a named loss: the socket broke;
\* its replica's subscriber was not connected when Redis carried the PUBLISH out, or
\* lost its connection before hearing of it; the command was rejected or died with
\* its gateway; or the consuming replica served its own sockets only.  Sockets that
\* come and go beside it take nothing from it (broadcaster.ts:62-90,
\* connection-registry.ts:38-58).
SubscribedMissNothing ==
  \A k \in serving, e \in Events :
    e \in due[k] =>
      \/ got[k][e] > 0 \/ e \in ToSet(bus[at[k]]) \/ \E r \in Replicas : flying[r][e] > 0
      \/ phase[k] = "closed" \/ e \in missed[k]

\* A socket gets one frame for each copy consumed, and another only for a copy the
\* broker delivered again after a lost ack, or a PUBLISH repeated after a lost reply:
\* Redis and the local fallback never both serve it (broadcaster.ts:85-89,
\* notifications-consumer.ts:37-49).
ExtraFramesHaveACause ==
  \A k \in Sockets, e \in Events : got[k][e] <= published[e] - queued[e] + again[e]

\* The registry holds a socket the server has closed only if it closed during its
\* access check (ws-server.ts:78-83, :112).
OnlyLeakedSocketsLinger ==
  \A r \in Replicas : registry[r] \subseteq serving \cup leaked

\* Once its loads are over, a page shows every event it was told of, unless one of
\* them failed, and the page has an error to show, or two answers crossed
\* (sessions/[id]/page.tsx:20-36).
PageShowsWhatItWasTold ==
  \A k \in Sockets, e \in Events :
    got[k][e] > 0 => \/ owner[k] \in crossed \cup warned \/ loads[owner[k]] # <<>>
                     \/ shown[owner[k]] >= e

OpenFor(p) == {k \in serving : owner[k] = p /\ phase[k] = "open"}

\* After breaks and restarts a page is subscribed again, for good once they stop,
\* with two exceptions: a stale token is let in only after a load has renewed it,
\* and an open socket whose access check failed is never subscribed.
FeedComesBack ==
  \A p \in Pages :
    <>[](\/ p \in stale
         \/ \E k \in OpenFor(p) : k \in registry[at[k]] \cup rejected)
=============================================================================
