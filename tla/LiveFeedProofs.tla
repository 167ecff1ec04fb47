--------------------------- MODULE LiveFeedProofs ---------------------------
(***************************************************************************)
(* Invariance proofs for LiveFeed, for every set of pages, replicas and    *)
(* sockets and every number of events and faults.                          *)
(***************************************************************************)
EXTENDS LiveFeed, SequenceTheorems, FiniteSetTheorems, TLAPS

-----------------------------------------------------------------------------
(* The inductive invariant.                                                *)

\* A socket has a page from its first request on, and a replica and events from
\* its acceptance on.
SocketInv ==
  \A k \in Sockets :
    /\ phase[k] # "unused" => owner[k] \in Pages
    /\ phase[k] \in {"unused", "connecting"} <=> at[k] = Nobody
    /\ k \in serving \cup checking => at[k] # Nobody
    /\ at[k] = Nobody => due[k] = {} /\ \A e \in Events : got[k][e] = 0

\* A replica registers sockets of its own; one that is served and owed an event is
\* still registered.
RegistryInv ==
  /\ checking \subseteq serving \cup leaked
  /\ \A r \in Replicas : \A k \in registry[r] : at[k] = r /\ k \in serving \cup leaked
  /\ \A k \in serving : due[k] # {} /\ phase[k] = "open" => k \in registry[at[k]]

\* A copy was published before it was handed over or delivered again.
QueueInv ==
  \A e \in Events :
    /\ queued[e] <= published[e]
    /\ published[e] > 0 => e <= recorded
    /\ published[e] = 0 => again[e] = 0 /\ \A r \in Replicas : flying[r][e] = 0

\* How often event e is on its way to a subscriber.
Places(s, e) == {i \in 1..Len(s) : s[i] = e}
Copies(s, e) == Cardinality(Places(s, e))

\* The PUBLISH commands of event e that have no reply yet, numbered at each replica.
Commands(F, e) == {c \in Replicas \X (Nat \ {0}) : c[2] <= F[c[1]][e]}
Orders(F, e) == Cardinality(Commands(F, e))

\* What a socket got or may yet get was consumed, or passed on again.
Owed(e) == published[e] - queued[e] + again[e]
CopiesInv ==
  \A e \in Events :
    /\ IsFiniteSet(Commands(flying, e))
    /\ \A r \in Replicas : Copies(bus[r], e) + Orders(flying, e) <= Owed(e)
    /\ \A k \in Sockets :
         at[k] # Nobody => got[k][e] + Copies(bus[at[k]], e) + Orders(flying, e) <= Owed(e)

\* A page that was told of an event shows it, or its last load will bring it, unless
\* a load failed or two answers crossed.
UpToDate(p, e) ==
  \/ loads[p] = <<>> /\ shown[p] >= e
  \/ loads[p] # <<>> /\ (loads[p][Len(loads[p])] = 0 \/ loads[p][Len(loads[p])] > e)
PageInv ==
  \A k \in Sockets, e \in Events :
    got[k][e] > 0 => owner[k] \in crossed \cup warned \/ UpToDate(owner[k], e)

IInv ==
  /\ TypeOK
  /\ SocketInv
  /\ RegistryInv
  /\ SubscribedMissNothing
  /\ QueueInv
  /\ CopiesInv
  /\ PageInv

-----------------------------------------------------------------------------
(* Constants and sequences.                                                *)

LEMMA Bounds ==
  /\ MaxEvents \in Nat /\ MaxFaults \in Nat
  /\ Nobody \notin Pages /\ Nobody \notin Replicas
BY LiveFeedAssumption

LEMMA FaultCounts ==
  ASSUME TypeOK, Fault
  PROVE  faults' \in 0..MaxFaults
BY Bounds DEF TypeOK, Fault

LEMMA PlacesAreFinite ==
  ASSUME NEW s \in Seq(Events), NEW e
  PROVE  IsFiniteSet(Places(s, e)) /\ Copies(s, e) \in Nat
<1>1. Len(s) \in Nat /\ Places(s, e) \subseteq 1..Len(s)
  BY DEF Places
<1>2. IsFiniteSet(1..Len(s))
  BY FS_Interval
<1> QED
  BY <1>1, <1>2, FS_Subset, FS_CardinalityType DEF Copies

LEMMA CopiesOfNothing ==
  ASSUME NEW e
  PROVE  Copies(<<>>, e) = 0
<1>1. Places(<<>>, e) = {}
  BY DEF Places
<1> QED
  BY <1>1, FS_EmptySet DEF Copies

LEMMA CopiesAppend ==
  ASSUME NEW s \in Seq(Events), NEW f \in Events, NEW e
  PROVE  Copies(Append(s, f), e) = Copies(s, e) + IF e = f THEN 1 ELSE 0
<1>1. CASE e = f
  <2>1. Places(Append(s, f), e) = Places(s, e) \cup {Len(s) + 1}
    BY <1>1 DEF Places
  <2>2. Len(s) + 1 \notin Places(s, e)
    BY DEF Places
  <2> QED
    BY ZenonT(20), <1>1, <2>1, <2>2, PlacesAreFinite, FS_AddElement DEF Copies
<1>2. CASE e # f
  <2>1. Places(Append(s, f), e) = Places(s, e)
    BY <1>2 DEF Places
  <2> QED
    BY <1>2, <2>1, PlacesAreFinite DEF Copies
<1> QED
  BY <1>1, <1>2

LEMMA CopiesTail ==
  ASSUME NEW s \in Seq(Events), s # <<>>, NEW e
  PROVE  Copies(s, e) = Copies(Tail(s), e) + IF e = Head(s) THEN 1 ELSE 0
<1> DEFINE later == Places(s, e) \ {1}
           shift == [i \in Places(Tail(s), e) |-> i + 1]
<1>1. /\ Len(s) \in Nat \ {0} /\ Len(Tail(s)) = Len(s) - 1 /\ Tail(s) \in Seq(Events)
      /\ \A i \in 1..Len(Tail(s)) : Tail(s)[i] = s[i + 1]
  OBVIOUS
<1>2. shift \in Bijection(Places(Tail(s), e), later)
  <2>1. shift \in [Places(Tail(s), e) -> later]
    BY DEF Places
  <2>2. ASSUME NEW j \in later
        PROVE  \E i \in Places(Tail(s), e) : shift[i] = j
    <3>1. j - 1 \in Places(Tail(s), e)
      BY DEF Places
    <3>2. j \in Int
      BY DEF Places
    <3>3. shift[j - 1] = j
      BY <3>1, <3>2
    <3> QED
      BY <3>1, <3>3
  <2> QED
    BY SMTT(20), <2>1, <2>2 DEF Bijection, Injection, Surjection, IsInjective
<1>3. Cardinality(later) = Copies(Tail(s), e)
  <2>1. ExistsBijection(Places(Tail(s), e), later)
    BY <1>2 DEF ExistsBijection
  <2>2. IsFiniteSet(Places(Tail(s), e))
    BY <1>1, PlacesAreFinite
  <2> QED
    BY <2>1, <2>2, FS_Bijection DEF Copies
<1>4. 1 \in Places(s, e) <=> e = Head(s)
  BY DEF Places
<1>5. /\ IsFiniteSet(Places(s, e)) /\ Copies(s, e) \in Nat
      /\ Cardinality(later) = Copies(s, e) - IF 1 \in Places(s, e) THEN 1 ELSE 0
  BY PlacesAreFinite, FS_RemoveElement DEF Copies
<1> QED
  BY <1>3, <1>4, <1>5

LEMMA NoCommands ==
  ASSUME NEW e, NEW F, \A r \in Replicas : F[r][e] = 0
  PROVE  IsFiniteSet(Commands(F, e)) /\ Orders(F, e) = 0
<1>1. Commands(F, e) = {}
  BY DEF Commands
<1> QED
  BY <1>1, FS_EmptySet DEF Orders

LEMMA OrdersAreCounted ==
  ASSUME NEW e, NEW F, IsFiniteSet(Commands(F, e))
  PROVE  Orders(F, e) \in Nat
BY FS_CardinalityType DEF Orders

\* One PUBLISH more.
LEMMA OrdersGrow ==
  ASSUME NEW F \in [Replicas -> [Events -> Nat]], NEW G \in [Replicas -> [Events -> Nat]],
         NEW r \in Replicas, NEW f \in Events, IsFiniteSet(Commands(F, f)),
         \A q \in Replicas : G[q][f] = F[q][f] + IF q = r THEN 1 ELSE 0
  PROVE  IsFiniteSet(Commands(G, f)) /\ Orders(G, f) = Orders(F, f) + 1
<1> DEFINE new == <<r, F[r][f] + 1>>
<1>1. \A q \in Replicas : F[q][f] \in Nat
  OBVIOUS
<1>2. new \in Replicas \X (Nat \ {0}) /\ new \notin Commands(F, f)
  BY <1>1 DEF Commands
<1>3. ASSUME NEW c \in Replicas \X (Nat \ {0})
      PROVE  c[2] <= G[c[1]][f] <=> c[2] <= F[c[1]][f] \/ c = new
  <2>1. PICK q \in Replicas, n \in Nat \ {0} : c = <<q, n>>
    BY <1>3
  <2>2. G[q][f] = F[q][f] + IF q = r THEN 1 ELSE 0
    OBVIOUS
  <2>3. n <= G[q][f] <=> n <= F[q][f] \/ (q = r /\ n = F[r][f] + 1)
    <3> DEFINE x == F[q][f]
    <3>1. x \in Nat /\ n \in Nat
      BY <1>1
    <3>2. CASE q = r
      <4>1. G[q][f] = x + 1
        BY <2>2, <3>2
      <4> HIDE DEF x
      <4>2. n <= x + 1 <=> n <= x \/ n = x + 1
        BY ONLY <3>1
      <4> QED
        BY <3>2, <4>1, <4>2 DEF x
    <3>3. CASE q # r
      <4>1. G[q][f] = x
        BY <2>2, <3>1, <3>3
      <4> QED
        BY <3>3, <4>1
    <3> QED
      BY <3>2, <3>3
  <2> QED
    BY <2>1, <2>3
<1>4. Commands(G, f) = Commands(F, f) \cup {new}
  BY <1>2, <1>3 DEF Commands
<1> HIDE DEF new
<1> QED
  BY <1>2, <1>4, FS_AddElement DEF Orders

\* One PUBLISH less.
LEMMA OrdersShrink ==
  ASSUME NEW F \in [Replicas -> [Events -> Nat]], NEW G \in [Replicas -> [Events -> Nat]],
         NEW r \in Replicas, NEW f \in Events, IsFiniteSet(Commands(F, f)), F[r][f] > 0,
         \A q \in Replicas : G[q][f] = F[q][f] - IF q = r THEN 1 ELSE 0
  PROVE  IsFiniteSet(Commands(G, f)) /\ Orders(G, f) = Orders(F, f) - 1
<1> DEFINE old == <<r, F[r][f]>>
<1>1. \A q \in Replicas : F[q][f] \in Nat
  OBVIOUS
<1>2. old \in Commands(F, f)
  BY <1>1 DEF Commands
<1>3. ASSUME NEW c \in Replicas \X (Nat \ {0})
      PROVE  c[2] <= G[c[1]][f] <=> c[2] <= F[c[1]][f] /\ c # old
  <2>1. PICK q \in Replicas, n \in Nat \ {0} : c = <<q, n>>
    BY <1>3
  <2>2. G[q][f] = F[q][f] - IF q = r THEN 1 ELSE 0
    OBVIOUS
  <2>3. n <= G[q][f] <=> n <= F[q][f] /\ ~(q = r /\ n = F[r][f])
    BY ONLY <1>1, <2>2, n \in Nat, q \in Replicas, r \in Replicas
  <2> QED
    BY <2>1, <2>3
<1>4. Commands(G, f) = Commands(F, f) \ {old}
  BY <1>2, <1>3 DEF Commands
<1> HIDE DEF old
<1> QED
  BY <1>2, <1>4, FS_RemoveElement DEF Orders

LEMMA OrdersRest ==
  ASSUME NEW F, NEW G, NEW f, \A q \in Replicas : G[q][f] = F[q][f]
  PROVE  Commands(G, f) = Commands(F, f)
<1>1. \A c \in Replicas \X (Nat \ {0}) : G[c[1]][f] = F[c[1]][f]
  OBVIOUS
<1> QED
  BY <1>1 DEF Commands

\* The commands of one replica are dropped.
LEMMA OrdersDropped ==
  ASSUME NEW F \in [Replicas -> [Events -> Nat]], NEW r \in Replicas,
         NEW f \in Events, IsFiniteSet(Commands(F, f)),
         NEW G, G = [F EXCEPT ![r] = [e \in Events |-> 0]]
  PROVE  IsFiniteSet(Commands(G, f)) /\ Orders(G, f) <= Orders(F, f)
<1>1. ASSUME NEW c \in Replicas \X (Nat \ {0}), c[2] <= G[c[1]][f]
      PROVE  c[2] <= F[c[1]][f]
  <2>1. PICK q \in Replicas, n \in Nat \ {0} : c = <<q, n>>
    BY <1>1
  <2>2. G[q][f] = IF q = r THEN 0 ELSE F[q][f]
    BY SMTT(20)
  <2>3. ~(n <= 0) /\ n <= G[q][f]
    BY <1>1, <2>1
  <2> QED
    BY ONLY <2>1, <2>2, <2>3
<1>2. Commands(G, f) \subseteq Commands(F, f)
  BY <1>1 DEF Commands
<1> QED
  BY <1>2, FS_Subset DEF Orders

LEMMA RemoveFromSeq ==
  ASSUME NEW S, NEW s \in Seq(S), NEW i \in 1..Len(s)
  PROVE  /\ RemoveAt(s, i) \in Seq(S) /\ Len(RemoveAt(s, i)) = Len(s) - 1
         /\ i = 1 => \A j \in 1..Len(s) - 1 : RemoveAt(s, i)[j] = s[j + 1]
<1> DEFINE a == SubSeq(s, 1, i - 1)
           b == SubSeq(s, i + 1, Len(s))
<1>1. /\ a \in Seq(S) /\ Len(a) = i - 1 /\ b \in Seq(S) /\ Len(b) = Len(s) - i
      /\ \A j \in 1..Len(s) - i : b[j] = s[i + j]
  OBVIOUS
<1>2. RemoveAt(s, i) = a \o b
  BY DEF RemoveAt
<1> HIDE DEF a, b
<1>3. /\ a \o b \in Seq(S) /\ Len(a \o b) = Len(a) + Len(b)
      /\ \A j \in 1..Len(a) + Len(b) :
           (a \o b)[j] = IF j <= Len(a) THEN a[j] ELSE b[j - Len(a)]
  BY <1>1, ConcatProperties
<1>4. Len(a \o b) = Len(s) - 1
  BY <1>1, <1>3
<1>5. ASSUME i = 1, NEW j \in 1..Len(s) - 1
      PROVE  (a \o b)[j] = s[j + 1]
  <2>1. Len(a) = 0 /\ Len(b) = Len(s) - 1 /\ j \in 1..Len(a) + Len(b) /\ ~(j <= Len(a))
    BY <1>1, <1>5
  <2>2. (a \o b)[j] = b[j - Len(a)] /\ j - Len(a) = j
    BY <2>1
  <2> QED
    BY <1>1, <2>2
<1> QED
  BY <1>2, <1>3, <1>4, <1>5

-----------------------------------------------------------------------------
(* A broadcast.                                                            *)

Load == 0..(MaxEvents + 1)

LEMMA ReachedAreServed ==
  ASSUME IInv, NEW r \in Replicas, NEW k \in Reached(r)
  PROVE  k \in Sockets /\ at[k] = r /\ k \in serving /\ phase[k] = "open" /\ owner[k] \in Pages
BY DEF IInv, TypeOK, Reached, RegistryInv, SocketInv

LEMMA BroadcastGives ==
  ASSUME IInv, NEW r \in Replicas, NEW e \in Events, Broadcast(r, e)
  PROVE  /\ got' \in [Sockets -> [Events -> Nat]]
         /\ \A k \in Sockets, f \in Events :
              got'[k][f] = got[k][f] + IF k \in Reached(r) /\ f = e THEN 1 ELSE 0
         /\ loads' \in [Pages -> Seq(Load)]
<1> USE LiveFeedAssumption DEF IInv, TypeOK, Broadcast, Load
<1>1. loads' \in [Pages -> Seq(Load)]
  <2>1. \A p \in Pages : loads[p] \in Seq(Load) /\ 0 \in Load
    BY Bounds
  <2>2. \A p \in Pages : Append(loads[p], 0) \in Seq(Load)
    BY <2>1
  <2> QED
    BY <2>2 DEF Reload
<1>2. /\ got \in [Sockets -> [Events -> Nat]]
      /\ got' = [k \in Sockets |->
           IF k \in Reached(r) THEN [got[k] EXCEPT ![e] = @ + 1] ELSE got[k]]
  BY Zenon
<1>3. /\ got' \in [Sockets -> [Events -> Nat]]
      /\ \A k \in Sockets, f \in Events :
           got'[k][f] = got[k][f] + IF k \in Reached(r) /\ f = e THEN 1 ELSE 0
  BY ONLY <1>2, e \in Events
<1> QED
  BY ONLY <1>1, <1>3

\* Every page it reaches will load once more.
LEMMA BroadcastPages ==
  ASSUME IInv, NEW r \in Replicas, NEW e \in Events, Broadcast(r, e),
         UNCHANGED <<owner, shown, warned, crossed>>
  PROVE  PageInv'
<1>1. \A j \in Sockets, h \in Events :
        got'[j][h] = got[j][h] + IF j \in Reached(r) /\ h = e THEN 1 ELSE 0
  BY BroadcastGives
<1> USE LiveFeedAssumption DEF IInv, TypeOK
<1> SUFFICES ASSUME NEW k \in Sockets, NEW f \in Events, got'[k][f] > 0
             PROVE  owner[k] \in crossed \cup warned \/ UpToDate(owner[k], f)'
  BY DEF PageInv
<1>2. k \notin Reached(r) => got[k][f] > 0
  <2>1. got \in [Sockets -> [Events -> Nat]]
    BY Zenon
  <2> QED
    BY ONLY <1>1, <2>1, got'[k][f] > 0, k \in Sockets, f \in Events
<1>3. owner[k] \in Pages
  <2>1. CASE k \in Reached(r)
    BY <2>1, ReachedAreServed
  <2>2. CASE k \notin Reached(r)
    <3>1. got[k][f] > 0
      BY <1>2, <2>2
    <3>2. at[k] # Nobody
      BY <3>1 DEF SocketInv
    <3> QED
      BY <3>2 DEF SocketInv
  <2> QED
    BY <2>1, <2>2
<1>4. CASE \E j \in Reached(r) : owner[j] = owner[k]
  <2>1. loads'[owner[k]] = Append(loads[owner[k]], 0)
    BY <1>3, <1>4 DEF Broadcast, Reload
  <2>2. loads[owner[k]] \in Seq(Load) /\ 0 \in Load
    BY <1>3, Bounds DEF Load
  <2>3. /\ loads'[owner[k]] # <<>>
        /\ loads'[owner[k]][Len(loads'[owner[k]])] = 0
    BY ONLY SMTT(20), <2>1, <2>2
  <2> QED
    BY <2>3 DEF UpToDate
<1>5. CASE ~\E j \in Reached(r) : owner[j] = owner[k]
  <2>1. loads'[owner[k]] = loads[owner[k]]
    BY <1>3, <1>5 DEF Broadcast, Reload
  <2>2. got[k][f] > 0
    BY Zenon, <1>2, <1>5
  <2> QED
    BY <2>1, <2>2 DEF PageInv, UpToDate
<1> QED
  BY <1>4, <1>5
-----------------------------------------------------------------------------
(* The accounts: what is owed grows by d, and what is on its way or got, by *)
(* no more.                                                                 *)

LEMMA OwedIsCounted ==
  ASSUME TypeOK, NEW f \in Events
  PROVE  Owed(f) \in Int
BY DEF TypeOK, Owed

LEMMA Accounts ==
  ASSUME IInv, NEW d \in [Events -> {0, 1}], UNCHANGED at,
         got' \in [Sockets -> [Events -> Nat]], bus' \in [Replicas -> Seq(Events)],
         \A f \in Events : Owed(f)' = Owed(f) + d[f],
         \A f \in Events : IsFiniteSet(Commands(flying', f)),
         \A q \in Replicas, f \in Events :
           Copies(bus'[q], f) + Orders(flying', f)
             <= Copies(bus[q], f) + Orders(flying, f) + d[f],
         \A k \in Sockets, f \in Events :
           at[k] \in Replicas =>
             got'[k][f] + Copies(bus'[at[k]], f) + Orders(flying', f)
               <= got[k][f] + Copies(bus[at[k]], f) + Orders(flying, f) + d[f]
  PROVE  CopiesInv'
<1> USE DEF IInv
<1> SUFFICES ASSUME NEW f \in Events
             PROVE  /\ \A q \in Replicas : Copies(bus'[q], f) + Orders(flying', f) <= Owed(f)'
                    /\ \A k \in Sockets : at[k] # Nobody =>
                         got'[k][f] + Copies(bus'[at[k]], f) + Orders(flying', f) <= Owed(f)'
  BY DEF CopiesInv
<1>1. /\ Owed(f) \in Int /\ Owed(f)' = Owed(f) + d[f] /\ d[f] \in {0, 1}
      /\ Orders(flying, f) \in Nat /\ Orders(flying', f) \in Nat
  BY OwedIsCounted, OrdersAreCounted DEF CopiesInv
<1>2. ASSUME NEW q \in Replicas
      PROVE  /\ Copies(bus[q], f) \in Nat /\ Copies(bus'[q], f) \in Nat
             /\ Copies(bus'[q], f) + Orders(flying', f) <= Owed(f)'
  <2>1. Copies(bus[q], f) \in Nat /\ Copies(bus'[q], f) \in Nat
    BY PlacesAreFinite DEF TypeOK
  <2>2. /\ Copies(bus[q], f) + Orders(flying, f) <= Owed(f)
        /\ Copies(bus'[q], f) + Orders(flying', f)
             <= Copies(bus[q], f) + Orders(flying, f) + d[f]
    BY DEF CopiesInv
  <2> QED
    BY ONLY <1>1, <2>1, <2>2
<1>3. ASSUME NEW k \in Sockets, at[k] # Nobody
      PROVE  got'[k][f] + Copies(bus'[at[k]], f) + Orders(flying', f) <= Owed(f)'
  <2>1. at[k] \in Replicas /\ got[k][f] \in Nat /\ got'[k][f] \in Nat
    BY <1>3 DEF TypeOK
  <2>2. got[k][f] + Copies(bus[at[k]], f) + Orders(flying, f) <= Owed(f)
    BY <1>3 DEF CopiesInv
  <2>3. got'[k][f] + Copies(bus'[at[k]], f) + Orders(flying', f)
          <= got[k][f] + Copies(bus[at[k]], f) + Orders(flying, f) + d[f]
    BY <2>1
  <2>4. Copies(bus[at[k]], f) \in Nat /\ Copies(bus'[at[k]], f) \in Nat
    BY <1>2, <2>1
  <2> QED
    BY ONLY <1>1, <2>1, <2>2, <2>3, <2>4
<1> QED
  BY <1>2, <1>3

\* Events and commands that are only dropped leave the accounts in order.
LEMMA Dropped ==
  ASSUME IInv, UNCHANGED <<queue, again, at, got>>, NEW r \in Replicas,
         bus' \in [Replicas -> Seq(Events)],
         \A q \in Replicas : bus'[q] = bus[q] \/ bus'[q] = <<>>,
         \/ flying' = flying
         \/ flying' = [flying EXCEPT ![r] = [e \in Events |-> 0]]
  PROVE  QueueInv' /\ CopiesInv'
<1> USE DEF IInv, queue
<1>1. QueueInv'
  <2>1. ASSUME NEW q \in Replicas, NEW f \in Events, flying[q][f] = 0
        PROVE  flying'[q][f] = 0
    <3>1. CASE flying' = flying
      BY <2>1, <3>1
    <3>2. CASE flying' = [flying EXCEPT ![r] = [e \in Events |-> 0]]
      BY <2>1, <3>2 DEF TypeOK
    <3> QED
      BY <3>1, <3>2
  <2> QED
    BY <2>1 DEF QueueInv
<1>2. ASSUME NEW f \in Events
      PROVE  /\ IsFiniteSet(Commands(flying', f))
             /\ Orders(flying, f) \in Nat /\ Orders(flying', f) \in Nat
             /\ Orders(flying', f) <= Orders(flying, f)
  <2>1. IsFiniteSet(Commands(flying, f)) /\ flying \in [Replicas -> [Events -> Nat]]
    BY DEF CopiesInv, TypeOK
  <2>2. IsFiniteSet(Commands(flying', f)) /\ Orders(flying, f) \in Nat
    BY <2>1, OrdersDropped, OrdersAreCounted
  <2>3. CASE flying' = flying
    BY <2>2, <2>3
  <2>4. CASE flying' = [flying EXCEPT ![r] = [e \in Events |-> 0]]
    BY <2>1, <2>2, <2>4, OrdersDropped, OrdersAreCounted
  <2> QED
    BY <2>2, <2>3, <2>4
<1>3. ASSUME NEW f \in Events, NEW q \in Replicas
      PROVE  /\ Copies(bus[q], f) \in Nat /\ Copies(bus'[q], f) \in Nat
             /\ Copies(bus'[q], f) <= Copies(bus[q], f)
  <2>1. Copies(bus[q], f) \in Nat /\ (bus'[q] = bus[q] \/ bus'[q] = <<>>)
    BY PlacesAreFinite DEF TypeOK
  <2> QED
    BY <2>1, CopiesOfNothing
<1> DEFINE d == [f \in Events |-> 0]
<1>4. d \in [Events -> {0, 1}] /\ \A f \in Events : d[f] = 0
  OBVIOUS
<1> HIDE DEF d
<1>5. \A f \in Events : Owed(f)' = Owed(f) + d[f]
  BY <1>4 DEF Owed, TypeOK
<1>6. \A q \in Replicas, f \in Events :
        Copies(bus'[q], f) + Orders(flying', f) <= Copies(bus[q], f) + Orders(flying, f) + d[f]
  BY <1>2, <1>3, <1>4
<1>7. ASSUME NEW k \in Sockets, NEW f \in Events, at[k] \in Replicas
      PROVE  got'[k][f] + Copies(bus'[at[k]], f) + Orders(flying', f)
               <= got[k][f] + Copies(bus[at[k]], f) + Orders(flying, f) + d[f]
  <2>1. got[k][f] \in Nat /\ got' = got /\ d[f] = 0
    BY <1>4 DEF TypeOK
  <2>2. /\ Copies(bus[at[k]], f) \in Nat /\ Copies(bus'[at[k]], f) \in Nat
        /\ Copies(bus'[at[k]], f) <= Copies(bus[at[k]], f)
    BY <1>3, <1>7
  <2>3. /\ Orders(flying, f) \in Nat /\ Orders(flying', f) \in Nat
        /\ Orders(flying', f) <= Orders(flying, f)
    BY <1>2
  <2> QED
    BY ONLY <2>1, <2>2, <2>3
<1>8. CopiesInv'
  <2>1. got' \in [Sockets -> [Events -> Nat]]
    BY DEF TypeOK
  <2> QED
    BY <1>2, <1>4, <1>5, <1>6, <1>7, <2>1, Accounts
<1> QED
  BY <1>1, <1>8

\* Nothing moves on the way to the sockets.
LEMMA AccountsRest ==
  ASSUME IInv, UNCHANGED <<queue, redis, again, got, at>>
  PROVE  QueueInv' /\ CopiesInv'
BY DEF IInv, queue, redis, QueueInv, CopiesInv, Owed

\* A socket that got an event is a page's, and the event is of a record.
LEMMA ToldSockets ==
  ASSUME IInv, NEW k \in Sockets, NEW f \in Events, got[k][f] > 0
  PROVE  at[k] \in Replicas /\ owner[k] \in Pages /\ f <= recorded
<1> USE DEF IInv
<1>1. at[k] \in Replicas
  BY DEF TypeOK, SocketInv
<1>2. owner[k] \in Pages
  BY DEF SocketInv
<1>3. /\ got[k][f] \in Nat /\ queued[f] \in Nat /\ published[f] \in Nat /\ again[f] \in Nat
      /\ Copies(bus[at[k]], f) \in Nat /\ Orders(flying, f) \in Nat
  BY <1>1, PlacesAreFinite, OrdersAreCounted DEF TypeOK, CopiesInv
<1>4. got[k][f] + Copies(bus[at[k]], f) + Orders(flying, f) <= published[f] - queued[f] + again[f]
  BY <1>1, Bounds DEF CopiesInv, Owed
<1>5. queued[f] <= published[f] /\ (published[f] = 0 => again[f] = 0)
  BY DEF QueueInv
<1>6. published[f] > 0
  BY ONLY got[k][f] > 0, <1>3, <1>4, <1>5
<1> QED
  BY <1>1, <1>2, <1>6 DEF QueueInv

\* A subscribed socket is registered at its own replica.
LEMMA SubscribersAreRegistered ==
  ASSUME IInv, NEW k \in Subscribers
  PROVE  k \in Sockets /\ at[k] \in Replicas /\ k \in registry[at[k]]
BY DEF IInv, TypeOK, RegistryInv, Subscribers

\* A socket the server serves has reached a replica and was not refused.
LEMMA ServedSockets ==
  ASSUME IInv, NEW k \in serving
  PROVE  /\ k \in Sockets /\ at[k] \in Replicas /\ phase[k] \in {"open", "closed"}
         /\ k \in registry[at[k]] => k \in Subscribers
<1>1. k \in Sockets /\ at[k] \in Replicas /\ phase[k] \in {"open", "closed"}
  BY DEF IInv, TypeOK, SocketInv
<1> QED
  BY <1>1 DEF Subscribers

\* A socket that is owed an event and neither broke nor missed it nor got it.
Waits(k, e) ==
  k \in serving /\ phase[k] = "open" /\ e \in due[k] /\ e \notin missed[k] /\ got[k][e] = 0

LEMMA WaitingSockets ==
  ASSUME IInv, NEW k, NEW e \in Events, Waits(k, e)
  PROVE  /\ k \in Sockets /\ at[k] \in Replicas /\ k \in registry[at[k]]
         /\ e \in ToSet(bus[at[k]]) \/ \E r \in Replicas : flying[r][e] > 0
<1>1. k \in Sockets /\ at[k] \in Replicas
  BY ServedSockets DEF Waits
<1>2. k \in registry[at[k]]
  BY DEF Waits, IInv, RegistryInv
<1>3. got[k][e] \in Nat /\ ~(got[k][e] > 0)
  BY <1>1 DEF Waits, IInv, TypeOK
<1> QED
  BY <1>1, <1>2, <1>3 DEF Waits, IInv, SubscribedMissNothing

\* What is left to show of a step: a socket that waits after it has its event coming.
LEMMA NobodyMisses ==
  ASSUME TypeOK', SocketInv',
         \A k \in Sockets, e \in Events :
           Waits(k, e)' => e \in ToSet(bus'[at'[k]]) \/ \E r \in Replicas : flying'[r][e] > 0
  PROVE  SubscribedMissNothing'
<1> SUFFICES ASSUME NEW k \in serving', NEW e \in Events, e \in due'[k],
                    ~(got'[k][e] > 0), phase'[k] # "closed", e \notin missed'[k]
             PROVE  e \in ToSet(bus'[at'[k]]) \/ \E r \in Replicas : flying'[r][e] > 0
  BY DEF SubscribedMissNothing
<1>1. k \in Sockets /\ got'[k][e] \in Nat /\ phase'[k] = "open"
  BY LiveFeedAssumption DEF TypeOK, SocketInv
<1> QED
  BY <1>1 DEF Waits

-----------------------------------------------------------------------------
(* One lemma per action, one step per conjunct of the invariant.           *)

LEMMA RecordStep ==
  ASSUME IInv, Record
  PROVE  IInv'
<1> USE LiveFeedAssumption DEF IInv, queue, redis, socket, page, history
<1>1. TypeOK'
  BY Bounds DEF Record, TypeOK
<1>2. SocketInv'
  BY DEF Record, SocketInv
<1>3. RegistryInv'
  BY DEF Record, RegistryInv
<1>4. SubscribedMissNothing'
  BY DEF Record, SubscribedMissNothing
<1>5. QueueInv'
  <2>1. recorded \in Nat /\ recorded' = recorded + 1
    BY DEF Record, TypeOK
  <2>2. \A e \in Events : e <= recorded => e <= recorded'
    BY <2>1 DEF Events
  <2> QED
    BY <2>2 DEF Record, QueueInv
<1>6. CopiesInv'
  BY DEF Record, CopiesInv, Owed
<1>7. PageInv'
  BY DEF Record, PageInv, UpToDate
<1> QED
  BY <1>1, <1>2, <1>3, <1>4, <1>5, <1>6, <1>7

LEMMA PublishStep ==
  ASSUME IInv, NEW e \in Events, Publish(e)
  PROVE  IInv'
<1> USE LiveFeedAssumption DEF IInv, queue, redis, socket, page, history
<1>1. TypeOK'
  <2>1. faults' \in 0..MaxFaults
    BY SMTT(20), FaultCounts DEF Publish, TypeOK
  <2> QED
    BY <2>1 DEF Publish, TypeOK
<1>2. SocketInv'
  BY DEF Publish, SocketInv
<1>3. RegistryInv'
  BY DEF Publish, RegistryInv
<1>4. SubscribedMissNothing'
  BY DEF Publish, SubscribedMissNothing
<1>5. QueueInv'
  BY DEF Publish, TypeOK, QueueInv
<1>6. CopiesInv'
  <2>1. \A f \in Events : Owed(f)' = Owed(f)
    BY DEF Publish, TypeOK, Owed
  <2> QED
    BY <2>1 DEF Publish, CopiesInv
<1>7. PageInv'
  BY DEF Publish, PageInv, UpToDate
<1> QED
  BY <1>1, <1>2, <1>3, <1>4, <1>5, <1>6, <1>7

\* What every way of consuming a copy has in common.
LEMMA ConsumeChanges ==
  ASSUME IInv, NEW r \in Replicas, NEW e \in Events, Consume(r, e)
  PROVE  /\ queued' \in [Events -> Nat] /\ again' \in [Events -> Nat]
         /\ faults' \in 0..MaxFaults
         /\ \A f \in Events :
              /\ queued'[f] <= queued[f]
              /\ again'[f] = again[f] \/ published[f] > 0
              /\ Owed(f)' = Owed(f) + IF f = e THEN 1 ELSE 0
         /\ published[e] > 0
         /\ due' \in [Sockets -> SUBSET Events]
         /\ \A k \in Sockets, f \in Events :
              f \in due'[k] <=> f \in due[k] \/ (f = e /\ k \in Subscribers)
<1> USE DEF IInv
<1>1. /\ queued[e] \in Nat /\ queued[e] > 0 /\ published[e] \in Nat /\ again[e] \in Nat
      /\ queued[e] <= published[e]
  BY DEF Consume, TypeOK, QueueInv
<1>2. published[e] > 0
  BY <1>1
<1>3. /\ due' \in [Sockets -> SUBSET Events]
      /\ \A k \in Sockets, f \in Events :
           f \in due'[k] <=> f \in due[k] \/ (f = e /\ k \in Subscribers)
  BY DEF Consume, TypeOK
<1>4. CASE queued' = [queued EXCEPT ![e] = @ - 1] /\ UNCHANGED <<again, faults>>
  <2>1. /\ queued' \in [Events -> Nat] /\ again' \in [Events -> Nat]
        /\ faults' \in 0..MaxFaults
    BY <1>1, <1>4 DEF TypeOK
  <2>2. \A f \in Events : queued'[f] = queued[f] - IF f = e THEN 1 ELSE 0
    BY <1>1, <1>4 DEF TypeOK
  <2>3. ASSUME NEW f \in Events
        PROVE  /\ queued'[f] <= queued[f] /\ again'[f] = again[f]
               /\ Owed(f)' = Owed(f) + IF f = e THEN 1 ELSE 0
    BY SMTT(20), <1>4, <2>2 DEF Consume, TypeOK, Owed
  <2> QED
    BY <1>2, <1>3, <2>1, <2>3
<1>5. CASE Fault /\ again' = [again EXCEPT ![e] = @ + 1] /\ UNCHANGED queued
  <2>1. /\ queued' \in [Events -> Nat] /\ again' \in [Events -> Nat]
        /\ faults' \in 0..MaxFaults
    BY <1>1, <1>5, FaultCounts DEF TypeOK
  <2>2. \A f \in Events : again'[f] = again[f] + IF f = e THEN 1 ELSE 0
    BY <1>1, <1>5 DEF TypeOK
  <2>3. ASSUME NEW f \in Events
        PROVE  /\ queued'[f] <= queued[f] /\ (again'[f] = again[f] \/ published[f] > 0)
               /\ Owed(f)' = Owed(f) + IF f = e THEN 1 ELSE 0
    <3>1. queued[f] \in Nat /\ queued' = queued /\ again[f] \in Nat /\ published[f] \in Nat
      BY <1>5 DEF TypeOK
    <3>2. again'[f] = again[f] + (IF f = e THEN 1 ELSE 0) /\ published' = published
      BY <2>2 DEF Consume
    <3> QED
      BY <1>2, <3>1, <3>2 DEF Owed
  <2> QED
    BY <1>2, <1>3, <2>1, <2>3
<1> QED
  BY <1>4, <1>5 DEF Consume

LEMMA ConsumeQueue ==
  ASSUME IInv, NEW r \in Replicas, NEW e \in Events, Consume(r, e),
         \A q \in Replicas, f \in Events : flying'[q][f] = flying[q][f] \/ f = e
  PROVE  QueueInv'
<1> SUFFICES ASSUME NEW f \in Events
             PROVE  /\ queued'[f] <= published'[f]
                    /\ published'[f] > 0 => f <= recorded'
                    /\ published'[f] = 0 => again'[f] = 0 /\ \A q \in Replicas : flying'[q][f] = 0
  BY DEF QueueInv
<1>1. /\ published' = published /\ recorded' = recorded
      /\ queued'[f] <= queued[f] /\ (again'[f] = again[f] \/ published[f] > 0)
      /\ published[e] > 0
      /\ queued[f] \in Nat /\ queued'[f] \in Nat /\ published[f] \in Nat
  <2>1. /\ queued' \in [Events -> Nat] /\ queued'[f] <= queued[f] /\ published[e] > 0
        /\ (again'[f] = again[f] \/ published[f] > 0)
    BY ConsumeChanges
  <2>2. queued \in [Events -> Nat] /\ published \in [Events -> Nat]
    BY DEF IInv, TypeOK
  <2>3. published' = published /\ recorded' = recorded
    BY DEF Consume
  <2> QED
    BY <2>1, <2>2, <2>3
<1>2. /\ queued[f] <= published[f] /\ (published[f] > 0 => f <= recorded)
      /\ published[f] = 0 => again[f] = 0 /\ \A q \in Replicas : flying[q][f] = 0
  BY DEF IInv, QueueInv
<1> QED
  BY <1>1, <1>2

\* The registry keeps the sockets that are owed an event.
LEMMA ConsumeRegistry ==
  ASSUME IInv, NEW r \in Replicas, NEW e \in Events, Consume(r, e)
  PROVE  RegistryInv'
<1> USE DEF IInv
<1>1. UNCHANGED <<at, phase, serving, checking, registry, leaked>>
  BY DEF Consume, socket
<1>2. ASSUME NEW k \in serving, due'[k] # {}, phase[k] = "open"
      PROVE  k \in registry[at[k]]
  <2>1. k \in Sockets
    BY DEF TypeOK
  <2>2. CASE k \in Subscribers
    BY <2>2, SubscribersAreRegistered
  <2>3. CASE k \notin Subscribers
    <3>1. due'[k] \subseteq due[k]
      BY <2>1, <2>3, ConsumeChanges
    <3> QED
      BY <1>2, <3>1 DEF RegistryInv
  <2> QED
    BY <2>2, <2>3
<1> QED
  BY <1>1, <1>2 DEF RegistryInv

\* The command waits for Redis, and every subscriber with it.
LEMMA HandOverStep ==
  ASSUME IInv, NEW r \in Replicas, NEW e \in Events, Consume(r, e), HandOver(r, e)
  PROVE  IInv'
<1> USE LiveFeedAssumption DEF IInv
<1>1. /\ flying' = [flying EXCEPT ![r][e] = @ + 1]
      /\ UNCHANGED <<recorded, published, ready, keeps, listening, bus, socket,
                     stale, shown, warned, crossed, rejected, leaked, got, loads, missed>>
  BY DEF Consume, HandOver
<1>2. /\ flying' \in [Replicas -> [Events -> Nat]]
      /\ \A q \in Replicas, f \in Events :
           /\ flying[q][f] \in Nat
           /\ flying'[q][f] = flying[q][f] + IF q = r /\ f = e THEN 1 ELSE 0
  <2>1. flying \in [Replicas -> [Events -> Nat]]
    BY DEF TypeOK
  <2> QED
    BY ONLY <1>1, <2>1, r \in Replicas, e \in Events
<1>3. TypeOK'
  BY <1>1, <1>2, ConsumeChanges DEF TypeOK, socket
<1>4. SocketInv'
  <2>1. \A k \in Sockets : at[k] = Nobody => due'[k] = {}
    BY ConsumeChanges, SubscribersAreRegistered DEF SocketInv
  <2> QED
    BY <1>1, <2>1 DEF SocketInv, socket
<1>5. RegistryInv'
  BY ConsumeRegistry
<1>6. SubscribedMissNothing'
  <2> SUFFICES ASSUME NEW k \in Sockets, NEW f \in Events, Waits(k, f)'
               PROVE  f \in ToSet(bus'[at'[k]]) \/ \E q \in Replicas : flying'[q][f] > 0
    BY <1>3, <1>4, NobodyMisses
  <2>1. CASE f = e
    <3>1. flying'[r][e] > 0
      BY ONLY <1>2, r \in Replicas, e \in Events
    <3> QED
      BY <2>1, <3>1
  <2>2. CASE f # e
    <3>1. Waits(k, f)
      BY <1>1, <2>2, ConsumeChanges DEF Waits, socket
    <3>2. \A q \in Replicas : flying[q][f] > 0 => flying'[q][f] > 0
      BY ONLY <1>2, <2>2, f \in Events
    <3> QED
      BY <1>1, <3>1, <3>2, WaitingSockets DEF socket
  <2> QED
    BY <2>1, <2>2
<1>7. QueueInv'
  <2>1. \A q \in Replicas, f \in Events : flying'[q][f] = flying[q][f] \/ f = e
    BY ONLY <1>2
  <2> QED
    BY <2>1, ConsumeQueue
<1>8. CopiesInv'
  <2> DEFINE d == [f \in Events |-> IF f = e THEN 1 ELSE 0]
  <2>1. d \in [Events -> {0, 1}] /\ \A f \in Events : d[f] = IF f = e THEN 1 ELSE 0
    OBVIOUS
  <2> HIDE DEF d
  <2>2. UNCHANGED <<at, got, bus>> /\ got \in [Sockets -> [Events -> Nat]]
        /\ bus \in [Replicas -> Seq(Events)]
    BY <1>1 DEF socket, TypeOK
  <2>3. \A f \in Events : Owed(f)' = Owed(f) + d[f]
    BY <2>1, ConsumeChanges
  <2>4. ASSUME NEW f \in Events
        PROVE  /\ IsFiniteSet(Commands(flying', f)) /\ Orders(flying, f) \in Nat
               /\ Orders(flying', f) = Orders(flying, f) + d[f]
    <3>1. IsFiniteSet(Commands(flying, f)) /\ flying \in [Replicas -> [Events -> Nat]]
      BY DEF CopiesInv, TypeOK
    <3>2. Orders(flying, f) \in Nat
      BY <3>1, OrdersAreCounted
    <3>3. CASE f = e
      <4>1. \A q \in Replicas : flying'[q][f] = flying[q][f] + IF q = r THEN 1 ELSE 0
        BY <1>2, <3>3
      <4>2. IsFiniteSet(Commands(flying', f)) /\ Orders(flying', f) = Orders(flying, f) + 1
        BY ONLY <1>2, <3>1, <4>1, OrdersGrow, r \in Replicas, f \in Events
      <4> QED
        BY <2>1, <3>2, <3>3, <4>2
    <3>4. CASE f # e
      <4>1. Commands(flying', f) = Commands(flying, f)
        BY <1>2, <3>1, <3>4, OrdersRest
      <4> QED
        BY <2>1, <3>1, <3>2, <3>4, <4>1 DEF Orders
    <3> QED
      BY <3>3, <3>4
  <2>5. ASSUME NEW f \in Events, NEW q \in Replicas
        PROVE  /\ Copies(bus[q], f) \in Nat
               /\ Copies(bus[q], f) + Orders(flying', f)
                    <= Copies(bus[q], f) + Orders(flying, f) + d[f]
    <3>1. Copies(bus[q], f) \in Nat /\ d[f] \in {0, 1}
      BY <2>1, <2>2, PlacesAreFinite
    <3> QED
      BY <2>4, <3>1
  <2>6. ASSUME NEW k \in Sockets, NEW f \in Events, at[k] \in Replicas
        PROVE  got[k][f] + Copies(bus[at[k]], f) + Orders(flying', f)
                 <= got[k][f] + Copies(bus[at[k]], f) + Orders(flying, f) + d[f]
    <3>1. got[k][f] \in Nat /\ Copies(bus[at[k]], f) \in Nat /\ d[f] \in {0, 1}
      BY <2>1, <2>2, <2>5, <2>6
    <3> QED
      BY <2>4, <3>1
  <2> QED
    BY <2>1, <2>2, <2>3, <2>4, <2>5, <2>6, Accounts
<1>9. PageInv'
  BY <1>1 DEF PageInv, UpToDate, socket
<1> QED
  BY <1>3, <1>4, <1>5, <1>6, <1>7, <1>8, <1>9

\* The local fallback: the sockets of r hear at once, the others never.
LEMMA LocalOnlyStep ==
  ASSUME IInv, NEW r \in Replicas, NEW e \in Events, Consume(r, e), LocalOnly(r, e)
  PROVE  IInv'
<1> USE LiveFeedAssumption DEF IInv
<1>1. /\ UNCHANGED <<recorded, published, ready, keeps, listening, bus, socket,
                     stale, shown, warned, crossed, rejected, leaked, flying>>
      /\ Broadcast(r, e) /\ Miss(Subscribers \ registry[r], {e})
  BY DEF Consume, LocalOnly
<1>2. /\ got' \in [Sockets -> [Events -> Nat]]
      /\ \A k \in Sockets, f \in Events :
           got'[k][f] = got[k][f] + IF k \in Reached(r) /\ f = e THEN 1 ELSE 0
      /\ loads' \in [Pages -> Seq(Load)]
  BY <1>1, BroadcastGives
<1>3. /\ missed' \in [Sockets -> SUBSET Events]
      /\ \A k \in Sockets : missed[k] \subseteq missed'[k]
      /\ \A k \in Sockets : k \in Subscribers \ registry[r] => e \in missed'[k]
  BY <1>1 DEF Miss, TypeOK
<1>4. TypeOK'
  <2>1. /\ published' \in [Events -> Nat] /\ flying' \in [Replicas -> [Events -> Nat]]
        /\ recorded' \in 0..MaxEvents /\ bus' \in [Replicas -> Seq(Events)]
    BY <1>1 DEF TypeOK
  <2>2. /\ queued' \in [Events -> Nat] /\ again' \in [Events -> Nat]
        /\ faults' \in 0..MaxFaults /\ due' \in [Sockets -> SUBSET Events]
    BY ConsumeChanges
  <2>3. loads' \in [Pages -> Seq(0..(MaxEvents + 1))]
    BY <1>2 DEF Load
  <2> QED
    BY Zenon, <1>1, <1>2, <1>3, <2>1, <2>2, <2>3 DEF TypeOK, socket
<1>5. SocketInv'
  <2>1. ASSUME NEW k \in Sockets, at[k] = Nobody
        PROVE  due'[k] = {} /\ \A f \in Events : got'[k][f] = 0
    <3>1. k \notin Subscribers /\ k \notin Reached(r)
      BY <2>1, SubscribersAreRegistered, ReachedAreServed
    <3>2. due[k] = {} /\ \A f \in Events : got[k][f] = 0
      BY <2>1 DEF SocketInv
    <3>3. due'[k] = {}
      <4>1. due'[k] \subseteq Events
        BY ConsumeChanges
      <4>2. \A f \in Events : f \notin due'[k]
        BY <3>1, <3>2, ConsumeChanges
      <4> QED
        BY <4>1, <4>2
    <3>4. \A f \in Events : got'[k][f] = 0
      BY <1>2, <3>1, <3>2
    <3> QED
      BY <3>3, <3>4
  <2> QED
    BY <1>1, <2>1 DEF SocketInv, socket
<1>6. RegistryInv'
  BY ConsumeRegistry
<1>7. SubscribedMissNothing'
  <2> SUFFICES ASSUME NEW k \in Sockets, NEW f \in Events, Waits(k, f)'
               PROVE  f \in ToSet(bus'[at'[k]]) \/ \E q \in Replicas : flying'[q][f] > 0
    BY <1>4, <1>5, NobodyMisses
  <2>1. /\ k \in serving /\ phase[k] = "open" /\ f \in due'[k]
        /\ f \notin missed'[k] /\ got'[k][f] = 0
    BY <1>1 DEF Waits, socket
  <2>2. got[k][f] \in Nat
    BY DEF TypeOK
  <2>3. got[k][f] \in Nat /\ got[k][f] = 0 /\ ~(k \in Reached(r) /\ f = e)
    BY ONLY <1>2, <2>1, <2>2, k \in Sockets, f \in Events
  <2>4. CASE f \in due[k]
    <3>1. Waits(k, f)
      BY <1>3, <2>1, <2>3, <2>4 DEF Waits
    <3> QED
      BY <1>1, <3>1, WaitingSockets DEF socket
  <2>5. CASE f \notin due[k]
    <3>1. f = e /\ k \in Subscribers
      BY <2>1, <2>5, ConsumeChanges
    <3>2. k \in registry[r]
      BY <1>3, <2>1, <3>1
    <3>3. k \in Reached(r)
      BY <2>1, <3>2 DEF Reached
    <3> QED
      BY <2>3, <3>1, <3>3
  <2> QED
    BY <2>4, <2>5
<1>8. QueueInv'
  BY <1>1, ConsumeQueue
<1>9. CopiesInv'
  <2> DEFINE d == [f \in Events |-> IF f = e THEN 1 ELSE 0]
  <2>1. d \in [Events -> {0, 1}] /\ \A f \in Events : d[f] = IF f = e THEN 1 ELSE 0
    OBVIOUS
  <2> HIDE DEF d
  <2>2. UNCHANGED <<at, bus, flying>> /\ bus \in [Replicas -> Seq(Events)]
    BY <1>1 DEF socket, TypeOK
  <2>3. \A f \in Events : Owed(f)' = Owed(f) + d[f]
    BY <2>1, ConsumeChanges
  <2>4. \A f \in Events : IsFiniteSet(Commands(flying, f)) /\ Orders(flying, f) \in Nat
    BY OrdersAreCounted DEF CopiesInv
  <2>5. \A q \in Replicas, f \in Events : Copies(bus[q], f) \in Nat
    BY <2>2, PlacesAreFinite
  <2>6. \A q \in Replicas, f \in Events :
          Copies(bus[q], f) + Orders(flying, f) <= Copies(bus[q], f) + Orders(flying, f) + d[f]
    BY <2>1, <2>4, <2>5
  <2>7. ASSUME NEW k \in Sockets, NEW f \in Events, at[k] \in Replicas
        PROVE  got'[k][f] + Copies(bus[at[k]], f) + Orders(flying, f)
                 <= got[k][f] + Copies(bus[at[k]], f) + Orders(flying, f) + d[f]
    <3>1. got[k][f] \in Nat /\ got'[k][f] \in Nat /\ d[f] \in {0, 1}
      BY <1>2, <2>1 DEF TypeOK
    <3>2. got'[k][f] <= got[k][f] + d[f]
      BY <1>2, <2>1, <3>1
    <3>3. Copies(bus[at[k]], f) \in Nat /\ Orders(flying, f) \in Nat
      BY <2>4, <2>5, <2>7
    <3> QED
      BY ONLY <3>1, <3>2, <3>3
  <2> QED
    BY <1>2, <2>1, <2>2, <2>3, <2>4, <2>6, <2>7, Accounts
<1>10. PageInv'
  BY <1>1, BroadcastPages DEF socket
<1> QED
  BY <1>4, <1>5, <1>6, <1>7, <1>8, <1>9, <1>10

LEMMA ConsumeStep ==
  ASSUME IInv, NEW r \in Replicas, NEW e \in Events, Consume(r, e)
  PROVE  IInv'
BY HandOverStep, LocalOnlyStep DEF Consume

\* Redis carries a PUBLISH out: the subscribers connected will hear, the rest miss it.
LEMMA FanOutStep ==
  ASSUME IInv, NEW r \in Replicas, NEW e \in Events, FanOut(r, e)
  PROVE  IInv'
<1> USE LiveFeedAssumption DEF IInv, queue, socket, page
<1>1. /\ r \in ready /\ flying[r][e] > 0
      /\ UNCHANGED <<queue, keeps, listening, socket, page, due, got, rejected, leaked>>
  BY DEF FanOut
<1>2. /\ bus' \in [Replicas -> Seq(Events)]
      /\ \A q \in Replicas : bus'[q] = IF q \in listening THEN Append(bus[q], e) ELSE bus[q]
  BY DEF FanOut, TypeOK
<1>3. /\ missed' \in [Sockets -> SUBSET Events]
      /\ \A k \in Sockets : missed[k] \subseteq missed'[k]
      /\ \A q \in Replicas \ listening : \A k \in registry[q] : k \in Sockets => e \in missed'[k]
  BY DEF FanOut, Miss, TypeOK
<1>4. published[e] > 0 /\ \A f \in Events : flying[r][f] \in Nat /\ published[f] \in Nat
  BY <1>1 DEF QueueInv, TypeOK
<1>5. /\ flying' \in [Replicas -> [Events -> Nat]] /\ again' \in [Events -> Nat]
      /\ ready' \subseteq Replicas /\ faults' \in 0..MaxFaults
      /\ \A q \in Replicas, f \in Events : flying[q][f] = 0 => flying'[q][f] = 0
      /\ \A q \in Replicas, f \in Events : f # e => flying'[q][f] = flying[q][f]
      /\ \A f \in Events : again'[f] = again[f] \/ f = e
  <2> DEFINE S == [Replicas -> [Events -> Nat]]
  <2>1. /\ flying \in S /\ again \in [Events -> Nat]
        /\ ready \subseteq Replicas /\ faults \in 0..MaxFaults
    BY DEF TypeOK
  <2>2. CASE /\ flying' = [flying EXCEPT ![r][e] = @ - 1] /\ UNCHANGED <<ready, again, faults>>
    <3>1. flying[r][e] - 1 \in Nat
      BY <1>1, <1>4
    <3> QED
      BY ONLY <2>2, <2>1, <3>1, r \in Replicas, e \in Events
  <2>3. CASE /\ Fault /\ ready' = ready \ {r} /\ again' = [again EXCEPT ![e] = @ + 1]
             /\ UNCHANGED flying
    <3>1. faults' \in 0..MaxFaults
      BY <2>3, FaultCounts
    <3> QED
      BY ONLY <2>3, <2>1, <3>1, r \in Replicas, e \in Events
  <2> QED
    BY <2>2, <2>3 DEF FanOut
<1>6. TypeOK'
  BY <1>1, <1>2, <1>3, <1>5 DEF TypeOK
<1>7. SocketInv' /\ RegistryInv'
  BY <1>1 DEF SocketInv, RegistryInv
<1>8. SubscribedMissNothing'
  <2> SUFFICES ASSUME NEW k \in Sockets, NEW f \in Events, Waits(k, f)'
               PROVE  f \in ToSet(bus'[at'[k]]) \/ \E q \in Replicas : flying'[q][f] > 0
    BY <1>6, <1>7, NobodyMisses
  <2>1. Waits(k, f) /\ f \notin missed'[k]
    BY <1>1, <1>3 DEF Waits
  <2>2. at[k] \in Replicas /\ k \in registry[at[k]]
    BY <2>1, WaitingSockets
  <2>3. CASE f = e
    <3>1. at[k] \in listening
      BY <1>3, <2>1, <2>2, <2>3
    <3>2. bus'[at[k]] = Append(bus[at[k]], e) /\ bus[at[k]] \in Seq(Events)
      BY <1>2, <2>2, <3>1 DEF TypeOK
    <3>3. Len(bus[at[k]]) + 1 \in DOMAIN bus'[at[k]] /\ bus'[at[k]][Len(bus[at[k]]) + 1] = e
      BY <3>2
    <3> QED
      BY <1>1, <2>3, <3>3 DEF ToSet
  <2>4. CASE f # e
    <3>1. CASE f \in ToSet(bus[at[k]])
      <4>1. bus[at[k]] \in Seq(Events) /\ (bus'[at[k]] = Append(bus[at[k]], e) \/ bus'[at[k]] = bus[at[k]])
        BY <1>2, <2>2 DEF TypeOK
      <4>2. PICK j \in DOMAIN bus[at[k]] : bus[at[k]][j] = f
        BY <3>1 DEF ToSet
      <4>3. j \in DOMAIN bus'[at[k]] /\ bus'[at[k]][j] = f
        <5>1. CASE bus'[at[k]] = bus[at[k]]
          BY ONLY <4>2, <5>1
        <5>2. CASE bus'[at[k]] = Append(bus[at[k]], e)
          BY ONLY <4>1, <4>2, <5>2
        <5> QED
          BY <4>1, <5>1, <5>2
      <4> QED
        BY <1>1, <4>3 DEF ToSet
    <3>2. CASE \E q \in Replicas : flying[q][f] > 0
      BY <1>5, <2>4, <3>2
    <3> QED
      BY <2>1, <3>1, <3>2, WaitingSockets
  <2> QED
    BY <2>3, <2>4
<1>9. QueueInv'
  BY <1>1, <1>4, <1>5 DEF QueueInv
<1>10. CopiesInv'
  <2>1. ASSUME NEW q \in Replicas, NEW f \in Events
        PROVE  /\ Copies(bus[q], f) \in Nat /\ Copies(bus'[q], f) \in Nat
               /\ Copies(bus'[q], f) <= Copies(bus[q], f) + IF f = e THEN 1 ELSE 0
    <3>1. bus[q] \in Seq(Events) /\ bus'[q] \in Seq(Events)
      BY <1>2 DEF TypeOK
    <3>2. Copies(bus[q], f) \in Nat /\ Copies(bus'[q], f) \in Nat
      BY <3>1, PlacesAreFinite
    <3>3. CASE q \in listening
      <4>1. Copies(Append(bus[q], e), f) = Copies(bus[q], f) + IF f = e THEN 1 ELSE 0
        BY <3>1, CopiesAppend
      <4>2. bus'[q] = Append(bus[q], e)
        BY <1>2, <3>3
      <4> QED
        BY ONLY <3>2, <4>1, <4>2
    <3>4. CASE q \notin listening
      BY <1>2, <3>2, <3>4
    <3> QED
      BY <3>3, <3>4
  <2>2. \A f \in Events : IsFiniteSet(Commands(flying, f)) /\ Orders(flying, f) \in Nat
    BY OrdersAreCounted DEF CopiesInv
  <2>3. PICK d \in [Events -> {0, 1}] : \A f \in Events :
          /\ IsFiniteSet(Commands(flying', f))
          /\ Owed(f)' = Owed(f) + d[f]
          /\ Orders(flying', f) = Orders(flying, f) + d[f] - IF f = e THEN 1 ELSE 0
    <3>1. CASE /\ flying' = [flying EXCEPT ![r][e] = @ - 1] /\ UNCHANGED <<ready, again, faults>>
      <4> DEFINE d == [f \in Events |-> 0]
      <4>1. d \in [Events -> {0, 1}] /\ \A f \in Events : d[f] = 0
        OBVIOUS
      <4> HIDE DEF d
      <4>2. ASSUME NEW f \in Events
            PROVE  /\ IsFiniteSet(Commands(flying', f))
                   /\ Orders(flying', f) = Orders(flying, f) + d[f] - IF f = e THEN 1 ELSE 0
        <5>1. flying \in [Replicas -> [Events -> Nat]] /\ IsFiniteSet(Commands(flying, f))
          BY <2>2 DEF TypeOK
        <5>2. \A q \in Replicas :
                flying'[q][f] = flying[q][f] - IF q = r /\ f = e THEN 1 ELSE 0
          BY SMTT(20), <3>1, <5>1
        <5>3. CASE f = e
          <6>1. \A q \in Replicas : flying'[q][f] = flying[q][f] - IF q = r THEN 1 ELSE 0
            BY <5>2, <5>3
          <6>2. flying[r][f] > 0
            BY <1>1, <5>3
          <6>3. IsFiniteSet(Commands(flying', f)) /\ Orders(flying', f) = Orders(flying, f) - 1
            <7>1. flying' \in [Replicas -> [Events -> Nat]]
              BY <1>5
            <7> QED
              BY ONLY <5>1, <6>1, <6>2, <7>1, OrdersShrink, r \in Replicas, f \in Events
          <6> QED
            BY <2>2, <4>1, <5>3, <6>3
        <5>4. CASE f # e
          <6>1. Commands(flying', f) = Commands(flying, f)
            BY <1>5, <5>4, OrdersRest
          <6> QED
            BY <2>2, <4>1, <5>1, <5>4, <6>1 DEF Orders
        <5> QED
          BY <5>3, <5>4
      <4>3. \A f \in Events : Owed(f)' = Owed(f) + d[f]
        BY <1>1, <3>1, <4>1 DEF Owed, TypeOK
      <4> QED
        BY <4>1, <4>2, <4>3
    <3>2. CASE /\ Fault /\ ready' = ready \ {r} /\ again' = [again EXCEPT ![e] = @ + 1]
               /\ UNCHANGED flying
      <4> DEFINE d == [f \in Events |-> IF f = e THEN 1 ELSE 0]
      <4>1. d \in [Events -> {0, 1}] /\ \A f \in Events : d[f] = IF f = e THEN 1 ELSE 0
        OBVIOUS
      <4> HIDE DEF d
      <4>2. ASSUME NEW f \in Events
            PROVE  Owed(f)' = Owed(f) + d[f]
        <5>1. again'[f] = again[f] + d[f] /\ published' = published /\ queued' = queued
          BY <1>1, <3>2, <4>1 DEF TypeOK
        <5>2. again[f] \in Nat /\ published[f] \in Nat /\ queued[f] \in Nat /\ d[f] \in {0, 1}
          BY <4>1 DEF TypeOK
        <5> QED
          BY <5>1, <5>2 DEF Owed
      <4>3. ASSUME NEW f \in Events
            PROVE  Orders(flying', f) = Orders(flying, f) + d[f] - IF f = e THEN 1 ELSE 0
        BY <2>2, <3>2, <4>1
      <4> QED
        BY <2>2, <3>2, <4>1, <4>2, <4>3
    <3> QED
      BY <3>1, <3>2 DEF FanOut
  <2>4. ASSUME NEW q \in Replicas, NEW f \in Events
        PROVE  Copies(bus'[q], f) + Orders(flying', f)
                 <= Copies(bus[q], f) + Orders(flying, f) + d[f]
    <3>1. d[f] \in {0, 1}
      OBVIOUS
    <3> QED
      BY <2>1, <2>2, <2>3, <3>1
  <2>5. ASSUME NEW k \in Sockets, NEW f \in Events, at[k] \in Replicas
        PROVE  got'[k][f] + Copies(bus'[at[k]], f) + Orders(flying', f)
                 <= got[k][f] + Copies(bus[at[k]], f) + Orders(flying, f) + d[f]
    <3>1. got' = got /\ got[k][f] \in Nat /\ d[f] \in {0, 1}
      BY <1>1 DEF TypeOK
    <3>2. Copies(bus'[at[k]], f) + Orders(flying', f)
            <= Copies(bus[at[k]], f) + Orders(flying, f) + d[f]
      BY <2>4, <2>5
    <3>3. Copies(bus[at[k]], f) \in Nat /\ Copies(bus'[at[k]], f) \in Nat
      BY <2>1, <2>5
    <3>4. Orders(flying, f) \in Nat
      BY <2>2
    <3>5. Orders(flying', f) = Orders(flying, f) + d[f] - IF f = e THEN 1 ELSE 0
      BY <2>3
    <3> QED
      BY ONLY <3>1, <3>2, <3>3, <3>4, <3>5
  <2>6. UNCHANGED at /\ got' \in [Sockets -> [Events -> Nat]]
    BY <1>1 DEF TypeOK
  <2> QED
    BY <1>2, <2>3, <2>4, <2>5, <2>6, Accounts
<1>11. PageInv'
  BY <1>1 DEF PageInv, UpToDate
<1> QED
  BY <1>6, <1>7, <1>8, <1>9, <1>10, <1>11

LEMMA HearStep ==
  ASSUME IInv, NEW r \in Replicas, Hear(r)
  PROVE  IInv'
<1> USE LiveFeedAssumption DEF IInv, queue, socket
<1> DEFINE e == Head(bus[r])
<1>1. /\ bus[r] # <<>> /\ bus[r] \in Seq(Events)
      /\ bus' = [bus EXCEPT ![r] = Tail(@)] /\ Broadcast(r, e)
      /\ UNCHANGED <<queue, ready, flying, keeps, listening, socket, stale, shown, warned,
                     crossed, due, missed, again, rejected, leaked, faults>>
  BY DEF Hear, TypeOK
<1>2. /\ e \in Events /\ Tail(bus[r]) \in Seq(Events)
      /\ \A f \in ToSet(bus[r]) : f = e \/ f \in ToSet(Tail(bus[r]))
  <2>1. /\ Len(bus[r]) \in Nat \ {0} /\ Len(Tail(bus[r])) = Len(bus[r]) - 1
        /\ Tail(bus[r]) \in Seq(Events) /\ e = bus[r][1] /\ e \in Events
        /\ \A i \in 1..Len(Tail(bus[r])) : Tail(bus[r])[i] = bus[r][i + 1]
    BY <1>1
  <2>2. ASSUME NEW f \in ToSet(bus[r]), f # e
        PROVE  f \in ToSet(Tail(bus[r]))
    <3>1. PICK i \in 1..Len(bus[r]) : bus[r][i] = f
      BY <1>1 DEF ToSet
    <3>2. i - 1 \in 1..Len(Tail(bus[r])) /\ Tail(bus[r])[i - 1] = f
      BY <2>2, <3>1
    <3>3. DOMAIN Tail(bus[r]) = 1..Len(Tail(bus[r]))
      OBVIOUS
    <3> QED
      BY ONLY <3>2, <3>3 DEF ToSet
  <2> QED
    BY <2>1, <2>2
<1> HIDE DEF e
<1>3. /\ got' \in [Sockets -> [Events -> Nat]]
      /\ \A k \in Sockets, f \in Events :
           got'[k][f] = got[k][f] + IF k \in Reached(r) /\ f = e THEN 1 ELSE 0
      /\ loads' \in [Pages -> Seq(Load)]
  BY <1>1, <1>2, BroadcastGives
<1>4. /\ bus' \in [Replicas -> Seq(Events)] /\ bus'[r] = Tail(bus[r])
      /\ \A q \in Replicas : q # r => bus'[q] = bus[q]
  BY <1>1, <1>2 DEF TypeOK
<1>5. TypeOK'
  BY <1>1, <1>3, <1>4 DEF TypeOK, Load
<1>6. SocketInv'
  <2>1. \A k \in Reached(r) : at[k] # Nobody
    BY ReachedAreServed
  <2>2. \A k \in Sockets : at[k] = Nobody => \A f \in Events : got'[k][f] = got[k][f]
    BY <1>3, <2>1 DEF TypeOK
  <2> QED
    BY <1>1, <2>2 DEF SocketInv
<1>7. RegistryInv'
  BY <1>1 DEF RegistryInv
<1>8. SubscribedMissNothing'
  <2> SUFFICES ASSUME NEW k \in Sockets, NEW f \in Events, Waits(k, f)'
               PROVE  f \in ToSet(bus'[at'[k]]) \/ \E q \in Replicas : flying'[q][f] > 0
    BY <1>5, <1>6, NobodyMisses
  <2>1. got[k][f] \in Nat /\ got'[k][f] = 0 /\ at' = at /\ flying' = flying
    BY <1>1 DEF Waits, TypeOK
  <2>2. got[k][f] = 0 /\ ~(k \in Reached(r) /\ f = e)
    BY <1>3, <2>1
  <2>3. Waits(k, f)
    BY <1>1, <2>2 DEF Waits
  <2>4. k \in Reached(r) \/ at[k] # r
    BY <2>3, WaitingSockets DEF Reached, Waits
  <2>5. CASE f \in ToSet(bus[at[k]])
    <3>1. CASE at[k] = r
      BY <1>2, <1>4, <2>1, <2>2, <2>4, <2>5, <3>1
    <3>2. CASE at[k] # r
      BY <1>4, <2>1, <2>3, <2>5, <3>2, WaitingSockets
    <3> QED
      BY <3>1, <3>2
  <2>6. CASE \E q \in Replicas : flying[q][f] > 0
    BY <2>1, <2>6
  <2> QED
    BY <2>3, <2>5, <2>6, WaitingSockets
<1>9. QueueInv'
  BY <1>1 DEF QueueInv
<1>10. CopiesInv'
  <2> DEFINE d == [f \in Events |-> 0]
  <2>1. d \in [Events -> {0, 1}] /\ \A f \in Events : d[f] = 0
    OBVIOUS
  <2> HIDE DEF d
  <2>2. UNCHANGED <<at, flying>> /\ \A f \in Events : Owed(f)' = Owed(f) + d[f]
    BY <1>1, <2>1 DEF TypeOK, Owed
  <2>3. \A f \in Events : IsFiniteSet(Commands(flying, f)) /\ Orders(flying, f) \in Nat
    BY OrdersAreCounted DEF CopiesInv
  <2>4. ASSUME NEW f \in Events, NEW q \in Replicas
        PROVE  /\ Copies(bus[q], f) \in Nat /\ Copies(bus'[q], f) \in Nat
               /\ Copies(bus'[q], f)
                    = Copies(bus[q], f) - IF q = r /\ f = e THEN 1 ELSE 0
    <3>1. Copies(bus[q], f) \in Nat /\ Copies(bus'[q], f) \in Nat
      BY <1>4, PlacesAreFinite DEF TypeOK
    <3>2. CASE q = r
      <4>1. Copies(bus[r], f) = Copies(Tail(bus[r]), f) + IF f = e THEN 1 ELSE 0
        BY <1>1, CopiesTail DEF e
      <4>2. bus'[q] = Tail(bus[r]) /\ bus[q] = bus[r]
        BY <1>4, <3>2
      <4> QED
        BY ONLY <3>1, <3>2, <4>1, <4>2
    <3> QED
      BY <1>4, <3>1, <3>2
  <2>5. \A q \in Replicas, f \in Events :
          Copies(bus'[q], f) + Orders(flying, f) <= Copies(bus[q], f) + Orders(flying, f) + d[f]
    BY <2>1, <2>3, <2>4
  <2>6. ASSUME NEW k \in Sockets, NEW f \in Events, at[k] \in Replicas
        PROVE  got'[k][f] + Copies(bus'[at[k]], f) + Orders(flying, f)
                 <= got[k][f] + Copies(bus[at[k]], f) + Orders(flying, f) + d[f]
    <3>1. got[k][f] \in Nat /\ d[f] = 0 /\ Orders(flying, f) \in Nat
      BY <2>1, <2>3 DEF TypeOK
    <3>2. k \in Reached(r) => at[k] = r
      BY ReachedAreServed
    <3>3. got'[k][f] = got[k][f] + IF k \in Reached(r) /\ f = e THEN 1 ELSE 0
      BY <1>3
    <3>4. /\ Copies(bus[at[k]], f) \in Nat
          /\ Copies(bus'[at[k]], f)
               = Copies(bus[at[k]], f) - IF at[k] = r /\ f = e THEN 1 ELSE 0
      BY <2>4, <2>6
    <3> QED
      BY ONLY <3>1, <3>2, <3>3, <3>4
  <2> QED
    BY <1>3, <1>4, <2>1, <2>2, <2>3, <2>5, <2>6, Accounts
<1>11. PageInv'
  BY <1>1, <1>2, BroadcastPages
<1> QED
  BY <1>5, <1>6, <1>7, <1>8, <1>9, <1>10, <1>11

\* The client's connection comes and goes; its commands wait.
LEMMA ClientStep ==
  ASSUME IInv, NEW r \in Replicas, ClientDown(r) \/ ClientUp(r)
  PROVE  IInv'
<1> USE LiveFeedAssumption DEF IInv, queue, socket, page, history
<1>1. /\ UNCHANGED <<queue, flying, keeps, listening, bus, socket, page, history>>
      /\ ready' \subseteq Replicas /\ faults' \in 0..MaxFaults
  BY FaultCounts DEF ClientDown, ClientUp, TypeOK
<1>2. TypeOK'
  BY <1>1 DEF TypeOK
<1>3. SocketInv' /\ RegistryInv' /\ SubscribedMissNothing'
  BY <1>1 DEF SocketInv, RegistryInv, SubscribedMissNothing
<1>4. QueueInv' /\ CopiesInv'
  BY <1>1 DEF QueueInv, CopiesInv, Owed
<1>5. PageInv'
  BY <1>1 DEF PageInv, UpToDate
<1> QED
  BY <1>2, <1>3, <1>4, <1>5

\* The commands are given up: no socket will hear of their events.
LEMMA GiveUpStep ==
  ASSUME IInv, NEW r \in Replicas, GiveUp(r)
  PROVE  IInv'
<1> USE LiveFeedAssumption DEF IInv, queue, socket, page
<1>1. /\ UNCHANGED <<queue, ready, keeps, listening, bus, socket, page, due, got, again,
                     rejected, leaked, faults>>
      /\ flying' = [flying EXCEPT ![r] = [e \in Events |-> 0]]
  BY DEF GiveUp
<1>2. /\ missed' \in [Sockets -> SUBSET Events]
      /\ \A k \in Sockets : missed'[k] = missed[k] \cup Pending(r)
  BY DEF GiveUp, Miss, Pending, TypeOK
<1>3. /\ flying' \in [Replicas -> [Events -> Nat]]
      /\ \A q \in Replicas, f \in Events : q # r => flying'[q][f] = flying[q][f]
  BY <1>1 DEF TypeOK
<1>4. TypeOK'
  BY <1>1, <1>2, <1>3 DEF TypeOK
<1>5. SocketInv' /\ RegistryInv'
  BY <1>1 DEF SocketInv, RegistryInv
<1>6. SubscribedMissNothing'
  <2> SUFFICES ASSUME NEW k \in Sockets, NEW f \in Events, Waits(k, f)'
               PROVE  f \in ToSet(bus'[at'[k]]) \/ \E q \in Replicas : flying'[q][f] > 0
    BY <1>4, <1>5, NobodyMisses
  <2>1. Waits(k, f) /\ f \notin Pending(r)
    BY <1>1, <1>2 DEF Waits
  <2>2. \A q \in Replicas : flying[q][f] > 0 => flying'[q][f] > 0
    BY <1>3, <2>1 DEF Pending
  <2> QED
    BY <1>1, <2>1, <2>2, WaitingSockets
<1>7. QueueInv' /\ CopiesInv'
  BY <1>1, Dropped DEF TypeOK
<1>8. PageInv'
  BY <1>1 DEF PageInv, UpToDate
<1> QED
  BY <1>4, <1>5, <1>6, <1>7, <1>8

\* The subscriber loses what was on its way: its sockets miss it.
LEMMA SubscriberDownStep ==
  ASSUME IInv, NEW r \in Replicas, SubscriberDown(r)
  PROVE  IInv'
<1> USE LiveFeedAssumption DEF IInv, queue, socket, page
<1>1. /\ UNCHANGED <<queue, ready, flying, keeps, socket, page, due, got, again, rejected,
                     leaked>>
      /\ listening' = listening \ {r} /\ faults' \in 0..MaxFaults
  BY FaultCounts DEF SubscriberDown
<1>2. /\ bus' \in [Replicas -> Seq(Events)] /\ bus'[r] = <<>>
      /\ \A q \in Replicas : q # r => bus'[q] = bus[q]
  BY DEF SubscriberDown, TypeOK
<1>3. /\ missed' \in [Sockets -> SUBSET Events]
      /\ \A k \in Sockets : missed[k] \subseteq missed'[k]
      /\ \A k \in Sockets : k \in registry[r] => ToSet(bus[r]) \subseteq missed'[k]
  <2>1. ToSet(bus[r]) \subseteq Events
    BY DEF TypeOK, ToSet
  <2> QED
    BY <2>1 DEF SubscriberDown, Miss, TypeOK
<1>4. TypeOK'
  BY <1>1, <1>2, <1>3 DEF TypeOK
<1>5. SocketInv' /\ RegistryInv'
  BY <1>1 DEF SocketInv, RegistryInv
<1>6. SubscribedMissNothing'
  <2> SUFFICES ASSUME NEW k \in Sockets, NEW f \in Events, Waits(k, f)'
               PROVE  f \in ToSet(bus'[at'[k]]) \/ \E q \in Replicas : flying'[q][f] > 0
    BY <1>4, <1>5, NobodyMisses
  <2>1. Waits(k, f) /\ f \notin missed'[k]
    BY <1>1, <1>3 DEF Waits
  <2>2. at[k] \in Replicas /\ k \in registry[at[k]]
    BY <2>1, WaitingSockets
  <2>3. f \in ToSet(bus[at[k]]) => f \in ToSet(bus'[at[k]])
    BY <1>2, <1>3, <2>1, <2>2
  <2> QED
    BY <1>1, <2>1, <2>3, WaitingSockets
<1>7. QueueInv' /\ CopiesInv'
  BY <1>1, <1>2, Dropped
<1>8. PageInv'
  BY <1>1 DEF PageInv, UpToDate
<1> QED
  BY <1>4, <1>5, <1>6, <1>7, <1>8

LEMMA ResubscribeStep ==
  ASSUME IInv, NEW r \in Replicas, Resubscribe(r)
  PROVE  IInv'
<1> USE LiveFeedAssumption DEF IInv, queue, socket, page, history
<1>1. /\ UNCHANGED <<queue, ready, flying, keeps, bus, socket, page, history, faults>>
      /\ listening' \subseteq keeps
  BY DEF Resubscribe, TypeOK
<1>2. TypeOK'
  BY <1>1 DEF TypeOK
<1>3. SocketInv' /\ RegistryInv' /\ SubscribedMissNothing'
  BY <1>1 DEF SocketInv, RegistryInv, SubscribedMissNothing
<1>4. QueueInv' /\ CopiesInv'
  BY <1>1 DEF QueueInv, CopiesInv, Owed
<1>5. PageInv'
  BY <1>1 DEF PageInv, UpToDate
<1> QED
  BY <1>2, <1>3, <1>4, <1>5

\* A gateway's sockets are closed and its commands and its part of the bus are gone.
LEMMA RestartStep ==
  ASSUME IInv, NEW r \in Replicas, Restart(r)
  PROVE  IInv'
<1> USE LiveFeedAssumption DEF IInv, queue, page
<1>1. /\ UNCHANGED <<queue, owner, at, page, due, got, again, rejected, leaked>>
      /\ flying' = [flying EXCEPT ![r] = [e \in Events |-> 0]]
      /\ faults' \in 0..MaxFaults
  BY FaultCounts DEF Restart
<1>2. /\ bus' \in [Replicas -> Seq(Events)]
      /\ \A q \in Replicas : bus'[q] = bus[q] \/ bus'[q] = <<>>
      /\ \A q \in Replicas : q # r => bus'[q] = bus[q]
  BY DEF Restart, TypeOK
<1>3. /\ missed' \in [Sockets -> SUBSET Events]
      /\ \A k \in Sockets : missed'[k] = missed[k] \cup Pending(r)
  BY DEF Restart, Miss, Pending, TypeOK
<1>4. /\ flying' \in [Replicas -> [Events -> Nat]]
      /\ \A q \in Replicas, f \in Events : q # r => flying'[q][f] = flying[q][f]
  BY <1>1 DEF TypeOK
<1>5. TypeOK'
  <2>1. ready' \subseteq Replicas /\ keeps' \subseteq Replicas /\ listening' \subseteq keeps'
    BY DEF Restart, TypeOK
  <2>2. phase' \in [Sockets -> {"unused", "connecting", "open", "closed"}]
    BY DEF Restart, TypeOK
  <2>3. registry' \in [Replicas -> SUBSET Sockets] /\ serving' \subseteq Sockets
        /\ checking' \subseteq Sockets
    BY DEF Restart, TypeOK
  <2> QED
    BY <1>1, <1>2, <1>3, <1>4, <2>1, <2>2, <2>3 DEF TypeOK
<1>6. SocketInv'
  BY <1>1 DEF Restart, SocketInv
<1>7. RegistryInv'
  BY <1>1 DEF Restart, TypeOK, RegistryInv
<1>8. SubscribedMissNothing'
  <2> SUFFICES ASSUME NEW k \in Sockets, NEW f \in Events, Waits(k, f)'
               PROVE  f \in ToSet(bus'[at'[k]]) \/ \E q \in Replicas : flying'[q][f] > 0
    BY <1>5, <1>6, NobodyMisses
  <2>1. Waits(k, f) /\ f \notin Pending(r) /\ at[k] # r
    BY <1>1, <1>3 DEF Waits, Restart
  <2>2. \A q \in Replicas : flying[q][f] > 0 => flying'[q][f] > 0
    BY <1>4, <2>1 DEF Pending
  <2> QED
    BY <1>1, <1>2, <2>1, <2>2, WaitingSockets
<1>9. QueueInv' /\ CopiesInv'
  BY <1>1, <1>2, Dropped
<1>10. PageInv'
  BY <1>1 DEF PageInv, UpToDate
<1> QED
  BY <1>5, <1>6, <1>7, <1>8, <1>9, <1>10

LEMMA ConnectStep ==
  ASSUME IInv, NEW p \in Pages, NEW k \in Sockets, Connect(p, k)
  PROVE  IInv'
<1> USE LiveFeedAssumption DEF IInv, queue, redis, socket, page, history
<1>1. TypeOK'
  BY DEF Connect, TypeOK
<1>2. SocketInv'
  BY DEF Connect, TypeOK, SocketInv
<1>3. RegistryInv'
  BY DEF Connect, RegistryInv
<1>4. SubscribedMissNothing'
  BY DEF Connect, SubscribedMissNothing
<1>5. QueueInv' /\ CopiesInv'
  BY AccountsRest DEF Connect
<1>6. PageInv'
  BY DEF Connect, SocketInv, PageInv, UpToDate
<1> QED
  BY <1>1, <1>2, <1>3, <1>4, <1>5, <1>6

LEMMA AcceptStep ==
  ASSUME IInv, NEW k \in Sockets, NEW r \in Replicas, Accept(k, r)
  PROVE  IInv'
<1> USE LiveFeedAssumption DEF IInv, queue, redis, socket, page, history
<1>1. TypeOK'
  BY DEF Accept, TypeOK
<1>2. SocketInv'
  BY DEF Accept, TypeOK, SocketInv
<1>3. RegistryInv'
  BY DEF Accept, SocketInv, RegistryInv
<1>4. SubscribedMissNothing'
  BY DEF Accept, SocketInv, SubscribedMissNothing
<1>5. QueueInv' /\ CopiesInv'
  <2>1. /\ at[k] = Nobody /\ UNCHANGED <<queue, redis, history>>
        /\ \A j \in Sockets : at'[j] = IF j = k THEN r ELSE at[j]
    BY DEF Accept, SocketInv, TypeOK
  <2>2. ASSUME NEW f \in Events
        PROVE  /\ got[k][f] = 0 /\ Copies(bus[r], f) \in Nat /\ Orders(flying, f) \in Nat
               /\ Copies(bus[r], f) + Orders(flying, f) <= Owed(f)
    BY <2>1, PlacesAreFinite, OrdersAreCounted DEF SocketInv, TypeOK, CopiesInv
  <2>3. ASSUME NEW f \in Events, NEW j \in Sockets, at'[j] # Nobody
        PROVE  got[j][f] + Copies(bus[at'[j]], f) + Orders(flying, f) <= Owed(f)
    <3>1. CASE j = k
      BY <2>1, <2>2, <3>1
    <3>2. CASE j # k
      BY <2>1, <2>3, <3>2 DEF CopiesInv
    <3> QED
      BY <3>1, <3>2
  <2>4. CopiesInv'
    BY <2>1, <2>3 DEF CopiesInv, Owed
  <2> QED
    BY <2>1, <2>4 DEF QueueInv
<1>6. PageInv'
  BY DEF Accept, PageInv, UpToDate
<1> QED
  BY <1>1, <1>2, <1>3, <1>4, <1>5, <1>6

LEMMA RefuseStep ==
  ASSUME IInv, NEW k \in Sockets, Refuse(k)
  PROVE  IInv'
<1> USE LiveFeedAssumption DEF IInv, queue, redis, socket, page, history
<1>1. TypeOK'
  <2>1. faults' \in 0..MaxFaults
    BY FaultCounts DEF Refuse, TypeOK
  <2> QED
    BY <2>1 DEF Refuse, TypeOK
<1>2. SocketInv'
  BY DEF Refuse, TypeOK, SocketInv
<1>3. RegistryInv'
  BY DEF Refuse, RegistryInv
<1>4. SubscribedMissNothing'
  BY DEF Refuse, SubscribedMissNothing
<1>5. QueueInv' /\ CopiesInv'
  BY AccountsRest DEF Refuse
<1>6. PageInv'
  BY DEF Refuse, SocketInv, PageInv, UpToDate
<1> QED
  BY <1>1, <1>2, <1>3, <1>4, <1>5, <1>6

LEMMA SubscribeStep ==
  ASSUME IInv, NEW k \in Sockets, Subscribe(k)
  PROVE  IInv'
<1> USE LiveFeedAssumption DEF IInv, queue, redis, socket, page, history
<1>1. TypeOK'
  BY DEF Subscribe, Registered, TypeOK
<1>2. SocketInv'
  BY DEF Subscribe, SocketInv
<1>3. RegistryInv'
  BY DEF Subscribe, Registered, RegistryInv
<1>4. SubscribedMissNothing'
  BY DEF Subscribe, SubscribedMissNothing
<1>5. QueueInv' /\ CopiesInv'
  BY AccountsRest DEF Subscribe
<1>6. PageInv'
  BY DEF Subscribe, PageInv, UpToDate
<1> QED
  BY <1>1, <1>2, <1>3, <1>4, <1>5, <1>6

LEMMA RejectStep ==
  ASSUME IInv, NEW k \in Sockets, Reject(k)
  PROVE  IInv'
<1> USE LiveFeedAssumption DEF IInv, queue, redis, socket, page, history
<1>1. TypeOK'
  BY FaultCounts DEF Reject, TypeOK
<1>2. SocketInv'
  BY DEF Reject, SocketInv
<1>3. RegistryInv'
  BY DEF Reject, RegistryInv
<1>4. SubscribedMissNothing'
  BY DEF Reject, SubscribedMissNothing
<1>5. QueueInv' /\ CopiesInv'
  BY AccountsRest DEF Reject
<1>6. PageInv'
  BY DEF Reject, PageInv, UpToDate
<1> QED
  BY <1>1, <1>2, <1>3, <1>4, <1>5, <1>6

LEMMA BreakStep ==
  ASSUME IInv, NEW k \in Sockets, Break(k)
  PROVE  IInv'
<1> USE LiveFeedAssumption DEF IInv, queue, redis, socket, page, history
<1>1. TypeOK'
  BY FaultCounts DEF Break, TypeOK
<1>2. SocketInv'
  BY DEF Break, SocketInv
<1>3. RegistryInv'
  BY DEF Break, RegistryInv
<1>4. SubscribedMissNothing'
  BY DEF Break, SubscribedMissNothing
<1>5. QueueInv' /\ CopiesInv'
  BY AccountsRest DEF Break
<1>6. PageInv'
  BY DEF Break, PageInv, UpToDate
<1> QED
  BY <1>1, <1>2, <1>3, <1>4, <1>5, <1>6

LEMMA ServerCloseStep ==
  ASSUME IInv, NEW k \in Sockets, ServerClose(k)
  PROVE  IInv'
<1> USE LiveFeedAssumption DEF IInv, queue, redis, socket, page, history
<1>1. TypeOK'
  BY DEF ServerClose, Removed, TypeOK
<1>2. SocketInv'
  BY DEF ServerClose, SocketInv
<1>3. RegistryInv'
  BY DEF ServerClose, Removed, TypeOK, RegistryInv
<1>4. SubscribedMissNothing'
  BY DEF ServerClose, SubscribedMissNothing
<1>5. QueueInv' /\ CopiesInv'
  BY AccountsRest DEF ServerClose
<1>6. PageInv'
  BY DEF ServerClose, PageInv, UpToDate
<1> QED
  BY <1>1, <1>2, <1>3, <1>4, <1>5, <1>6

LEMMA LapseStep ==
  ASSUME IInv, NEW p \in Pages, Lapse(p)
  PROVE  IInv'
<1> USE LiveFeedAssumption DEF IInv, queue, redis, socket, page, history
<1>1. TypeOK'
  BY FaultCounts DEF Lapse, TypeOK
<1>2. SocketInv'
  BY DEF Lapse, SocketInv
<1>3. RegistryInv'
  BY DEF Lapse, RegistryInv
<1>4. SubscribedMissNothing'
  BY DEF Lapse, SubscribedMissNothing
<1>5. QueueInv' /\ CopiesInv'
  BY AccountsRest DEF Lapse
<1>6. PageInv'
  BY DEF Lapse, PageInv, UpToDate
<1> QED
  BY <1>1, <1>2, <1>3, <1>4, <1>5, <1>6

\* The list is read after the event was recorded: it has it.
LEMMA ReadStep ==
  ASSUME IInv, NEW p \in Pages, NEW i, Read(p, i)
  PROVE  IInv'
<1> USE LiveFeedAssumption DEF IInv, queue, redis, socket, page, history
<1>1. /\ loads[p] \in Seq(Load) /\ i \in 1..Len(loads[p]) /\ Len(loads[p]) \in Nat
      /\ recorded + 1 \in Load
      /\ UNCHANGED <<queue, redis, socket, shown, warned, crossed, history, faults>>
  BY Bounds DEF Read, TypeOK, Load
<1>2. /\ loads'[p] = [loads[p] EXCEPT ![i] = recorded + 1]
      /\ \A q \in Pages : q # p => loads'[q] = loads[q]
      /\ loads' = [q \in Pages |-> loads'[q]]
  BY DEF Read, TypeOK
<1>3. /\ loads'[p] \in Seq(Load) /\ Len(loads'[p]) = Len(loads[p]) /\ loads'[p] # <<>>
      /\ loads'[p][i] = recorded + 1
      /\ \A j \in 1..Len(loads[p]) : j # i => loads'[p][j] = loads[p][j]
  <2>1. /\ loads'[p] \in Seq(Load) /\ Len(loads'[p]) = Len(loads[p])
        /\ \A j \in 1..Len(loads[p]) : loads'[p][j] = IF j = i THEN recorded + 1 ELSE loads[p][j]
    BY ONLY <1>1, <1>2
  <2> QED
    BY <1>1, <2>1
<1>4. TypeOK'
  <2>1. loads' \in [Pages -> Seq(Load)]
    BY <1>2, <1>3 DEF TypeOK, Load
  <2>2. stale' \subseteq Pages
    BY DEF Read, TypeOK
  <2> QED
    BY <1>1, <2>1, <2>2 DEF TypeOK, Load
<1>5. SocketInv' /\ RegistryInv'
  BY <1>1 DEF SocketInv, RegistryInv
<1>6. SubscribedMissNothing'
  BY <1>1 DEF SubscribedMissNothing
<1>7. QueueInv' /\ CopiesInv'
  BY <1>1, AccountsRest
<1>8. PageInv'
  <2> SUFFICES ASSUME NEW k \in Sockets, NEW f \in Events, got[k][f] > 0,
                      owner[k] \notin crossed \cup warned
               PROVE  UpToDate(owner[k], f)'
    BY <1>1 DEF PageInv
  <2>1. owner[k] \in Pages /\ f <= recorded /\ UpToDate(owner[k], f)
    BY ToldSockets DEF PageInv
  <2>2. CASE owner[k] # p
    BY <1>1, <1>2, <2>1, <2>2 DEF UpToDate
  <2>3. CASE owner[k] = p
    <3>1. loads'[p][Len(loads[p])] = 0 \/ loads'[p][Len(loads[p])] > f
      <4>1. CASE i = Len(loads[p])
        <5>1. recorded \in Nat /\ f \in Nat /\ f <= recorded
          BY <2>1 DEF TypeOK, Events
        <5>2. loads'[p][Len(loads[p])] = recorded + 1
          BY <1>3, <4>1
        <5> QED
          BY ONLY <5>1, <5>2
      <4>2. CASE i # Len(loads[p])
        BY <1>3, <2>1, <2>3, <4>2 DEF UpToDate
      <4> QED
        BY <4>1, <4>2
    <3>2. /\ loads'[owner[k]] = loads'[p] /\ owner'[k] = p
          /\ Len(loads'[p]) = Len(loads[p]) /\ loads'[p] # <<>>
      BY <1>1, <1>3, <2>3
    <3> QED
      BY <3>1, <3>2 DEF UpToDate
  <2> QED
    BY <2>2, <2>3
<1> QED
  BY <1>4, <1>5, <1>6, <1>7, <1>8

\* An answer is taken out of turn, or every load after it has its events too.
LEMMA ShowStep ==
  ASSUME IInv, NEW p \in Pages, NEW i, Show(p, i)
  PROVE  IInv'
<1> USE LiveFeedAssumption DEF IInv, queue, redis, socket, page, history
<1> DEFINE n == Len(loads[p])
<1>1. /\ loads[p] \in Seq(Load) /\ i \in 1..n /\ n \in Nat /\ loads[p][i] \in 1..(MaxEvents + 1)
      /\ UNCHANGED <<queue, redis, socket, stale, warned, history, faults>>
  <2>1. loads[p] \in Seq(Load) /\ i \in 1..n /\ n \in Nat /\ loads[p][i] # 0
    BY DEF Show, TypeOK, Load
  <2>2. loads[p][i] \in 1..(MaxEvents + 1)
    BY <2>1, Bounds DEF Load
  <2> QED
    BY <2>1, <2>2 DEF Show
<1>2. /\ loads'[p] = RemoveAt(loads[p], i) /\ shown'[p] = loads[p][i] - 1
      /\ \A q \in Pages : q # p => loads'[q] = loads[q] /\ shown'[q] = shown[q]
      /\ loads' = [q \in Pages |-> loads'[q]] /\ shown' = [q \in Pages |-> shown'[q]]
      /\ crossed \subseteq crossed' /\ crossed' \subseteq Pages /\ (i > 1 => p \in crossed')
  BY DEF Show, TypeOK
<1>3. /\ loads'[p] \in Seq(Load) /\ Len(loads'[p]) = n - 1
      /\ i = 1 => \A j \in 1..n - 1 : loads'[p][j] = loads[p][j + 1]
  <2>1. /\ RemoveAt(loads[p], i) \in Seq(Load) /\ Len(RemoveAt(loads[p], i)) = n - 1
        /\ i = 1 => \A j \in 1..n - 1 : RemoveAt(loads[p], i)[j] = loads[p][j + 1]
    BY ONLY <1>1, RemoveFromSeq
  <2> QED
    BY ONLY <1>2, <2>1
<1>4. shown'[p] \in 0..MaxEvents
  <2> DEFINE x == loads[p][i]
  <2>1. x \in 1..(MaxEvents + 1) /\ shown'[p] = x - 1
    BY <1>1, <1>2
  <2> HIDE DEF x
  <2> QED
    BY ONLY <2>1, Bounds
<1>5. TypeOK'
  <2>1. loads' \in [Pages -> Seq(Load)]
    BY <1>2, <1>3 DEF TypeOK, Load
  <2>2. \A q \in Pages : shown'[q] \in 0..MaxEvents
    BY <1>2, <1>4 DEF TypeOK
  <2>3. shown' \in [Pages -> 0..MaxEvents]
    BY ONLY <1>2, <2>2
  <2> QED
    BY <1>1, <1>2, <2>1, <2>3 DEF TypeOK, Load
<1>6. SocketInv' /\ RegistryInv'
  BY <1>1 DEF SocketInv, RegistryInv
<1>7. SubscribedMissNothing'
  BY <1>1 DEF SubscribedMissNothing
<1>8. QueueInv' /\ CopiesInv'
  BY <1>1, AccountsRest
<1>9. PageInv'
  <2> SUFFICES ASSUME NEW k \in Sockets, NEW f \in Events, got[k][f] > 0,
                      owner[k] \notin crossed' \cup warned
               PROVE  UpToDate(owner[k], f)'
    BY <1>1 DEF PageInv
  <2>1. owner[k] \in Pages /\ owner[k] \notin crossed /\ UpToDate(owner[k], f)
    BY <1>2, ToldSockets DEF PageInv
  <2>2. CASE owner[k] # p
    BY <1>1, <1>2, <2>1, <2>2 DEF UpToDate
  <2>3. CASE owner[k] = p
    <3>1. i = 1 /\ n > 0 /\ (loads[p][n] = 0 \/ loads[p][n] > f)
      BY <1>1, <1>2, <2>1, <2>3 DEF UpToDate
    <3>2. CASE n = 1
      <4>1. loads'[p] = <<>>
        BY <1>3, <3>2
      <4>2. shown'[p] >= f
        <5>1. loads[p][1] > f /\ shown'[p] = loads[p][1] - 1 /\ loads[p][1] \in Nat
          BY <1>1, <1>2, <3>1, <3>2
        <5>2. f \in Nat
          BY DEF Events
        <5> QED
          BY ONLY <5>1, <5>2
      <4> QED
        BY <1>1, <2>3, <4>1, <4>2 DEF UpToDate
    <3>3. CASE n > 1
      <4>1. n - 1 \in 1..n - 1 /\ loads'[p][n - 1] = loads[p][n] /\ loads'[p] # <<>>
        BY SMTT(20), <1>3, <3>1, <3>3
      <4> QED
        BY <1>1, <1>3, <2>3, <3>1, <4>1 DEF UpToDate
    <3>4. n = 1 \/ n > 1
      <4>1. n \in Nat /\ n > 0
        BY <3>1
      <4> HIDE DEF n
      <4> QED
        BY ONLY <4>1
    <3> QED
      BY <3>2, <3>3, <3>4
  <2> QED
    BY <2>2, <2>3
<1> QED
  BY <1>5, <1>6, <1>7, <1>8, <1>9

\* A load fails: its page has an error to show, the other pages have what they had.
LEMMA LoadFailsStep ==
  ASSUME IInv, NEW p \in Pages, NEW i, LoadFails(p, i)
  PROVE  IInv'
<1> USE LiveFeedAssumption DEF IInv, queue, redis, socket, page, history
<1>1. /\ loads[p] \in Seq(Load) /\ i \in 1..Len(loads[p])
      /\ UNCHANGED <<queue, redis, socket, stale, shown, crossed, history>>
      /\ faults' \in 0..MaxFaults
  BY FaultCounts DEF LoadFails, TypeOK, Load
<1>2. /\ loads'[p] = RemoveAt(loads[p], i)
      /\ \A q \in Pages : q # p => loads'[q] = loads[q]
      /\ loads' = [q \in Pages |-> loads'[q]]
      /\ warned' = warned \cup {p}
  BY DEF LoadFails, TypeOK
<1>3. TypeOK'
  <2>1. loads'[p] \in Seq(Load)
    BY ONLY <1>1, <1>2, RemoveFromSeq
  <2>2. loads' \in [Pages -> Seq(Load)]
    BY <1>2, <2>1 DEF TypeOK, Load
  <2> QED
    BY <1>1, <1>2, <2>2 DEF TypeOK, Load
<1>4. SocketInv' /\ RegistryInv' /\ SubscribedMissNothing'
  BY <1>1 DEF SocketInv, RegistryInv, SubscribedMissNothing
<1>5. QueueInv' /\ CopiesInv'
  BY <1>1, AccountsRest
<1>6. PageInv'
  <2> SUFFICES ASSUME NEW k \in Sockets, NEW f \in Events, got[k][f] > 0,
                      owner[k] \notin crossed \cup warned'
               PROVE  UpToDate(owner[k], f)'
    BY <1>1 DEF PageInv
  <2>1. owner[k] \in Pages /\ owner[k] # p /\ UpToDate(owner[k], f)
    BY <1>2, ToldSockets DEF PageInv
  <2> QED
    BY <1>1, <1>2, <2>1 DEF UpToDate
<1> QED
  BY <1>3, <1>4, <1>5, <1>6

-----------------------------------------------------------------------------
(* The theorems.                                                           *)

LEMMA InitStep == Init => IInv
<1> SUFFICES ASSUME Init PROVE IInv
  OBVIOUS
<1> USE LiveFeedAssumption, Bounds DEF Init
<1>1. TypeOK
  BY DEF TypeOK
<1>2. SocketInv /\ RegistryInv /\ SubscribedMissNothing
  BY DEF SocketInv, RegistryInv, SubscribedMissNothing
<1>3. QueueInv /\ CopiesInv
  <2>1. \A r \in Replicas, e \in Events : Copies(bus[r], e) = 0
    BY CopiesOfNothing
  <2>2. \A e \in Events : IsFiniteSet(Commands(flying, e)) /\ Orders(flying, e) = 0
    BY NoCommands
  <2>3. \A e \in Events : Owed(e) = 0
    BY DEF Owed
  <2>4. \A k \in Sockets : at[k] = Nobody
    OBVIOUS
  <2>5. CopiesInv
    BY ONLY <2>1, <2>2, <2>3, <2>4 DEF CopiesInv
  <2> QED
    BY <2>5 DEF QueueInv
<1>4. PageInv
  BY DEF PageInv
<1> QED
  BY <1>1, <1>2, <1>3, <1>4 DEF IInv

LEMMA StutterStep == IInv /\ UNCHANGED vars => IInv'
<1> SUFFICES ASSUME IInv, UNCHANGED vars PROVE IInv'
  OBVIOUS
<1> USE DEF IInv, vars, queue, redis, socket, page, history
<1>1. TypeOK'
  BY DEF TypeOK
<1>2. SocketInv' /\ RegistryInv' /\ SubscribedMissNothing'
  BY DEF SocketInv, RegistryInv, SubscribedMissNothing
<1>3. QueueInv' /\ CopiesInv'
  BY AccountsRest
<1>4. PageInv'
  BY DEF PageInv, UpToDate
<1> QED
  BY <1>1, <1>2, <1>3, <1>4

LEMMA NextStep == IInv /\ Next => IInv'
<1> SUFFICES ASSUME IInv, Next PROVE IInv'
  OBVIOUS
<1>1. ASSUME NEW r \in Replicas, Gateway(r) PROVE IInv'
  BY <1>1, HearStep, GiveUpStep, RestartStep, ClientStep, SubscriberDownStep,
     ResubscribeStep, ConsumeStep, FanOutStep DEF Gateway
<1>2. ASSUME NEW k \in Sockets, Socket(k) PROVE IInv'
  BY <1>2, RefuseStep, SubscribeStep, RejectStep, BreakStep, ServerCloseStep,
     AcceptStep DEF Socket
<1>3. ASSUME NEW p \in Pages, Page(p) PROVE IInv'
  BY <1>3, LapseStep, ConnectStep, ReadStep, ShowStep, LoadFailsStep DEF Page
<1> QED
  BY <1>1, <1>2, <1>3, RecordStep, PublishStep DEF Next

\* The inductive invariant holds in every reachable state.
THEOREM Invariance == Spec => []IInv
<1>1. IInv /\ [Next]_vars => IInv'
  BY NextStep, StutterStep
<1> QED
  BY InitStep, <1>1, PTL DEF Spec

\* The state of the feed keeps its types.
THEOREM TypeCorrect == Spec => []TypeOK
<1>1. IInv => TypeOK
  BY DEF IInv
<1> QED
  BY <1>1, Invariance, PTL

\* An event consumed while a socket is subscribed reaches it or is on its way, unless
\* the socket broke or one of the losses a step names (a subscriber that was away, a
\* command given up, a local fallback elsewhere) took it (broadcaster.ts:62-90,
\* connection-registry.ts:38-58).
THEOREM SubscribersHear == Spec => []SubscribedMissNothing
<1>1. IInv => SubscribedMissNothing
  BY DEF IInv
<1> QED
  BY <1>1, Invariance, PTL

\* However redeliveries, repeated PUBLISHes and local fallbacks fall, a socket gets no
\* more frames of an event than copies were consumed and passes repeated
\* (broadcaster.ts:85-89, notifications-consumer.ts:37-49).
THEOREM ExtraFramesAreOwed == Spec => []ExtraFramesHaveACause
<1>1. IInv => ExtraFramesHaveACause
  <2> SUFFICES ASSUME IInv, NEW k \in Sockets, NEW e \in Events
               PROVE  got[k][e] <= published[e] - queued[e] + again[e]
    BY DEF ExtraFramesHaveACause
  <2>1. /\ got[k][e] \in Nat /\ published[e] \in Nat /\ queued[e] \in Nat
        /\ again[e] \in Nat /\ queued[e] <= published[e]
    BY DEF IInv, TypeOK, QueueInv
  <2>2. CASE at[k] = Nobody
    <3>1. got[k][e] = 0
      BY <2>2 DEF IInv, SocketInv
    <3> QED
      BY <2>1, <3>1
  <2>3. CASE at[k] # Nobody
    <3>1. Copies(bus[at[k]], e) \in Nat /\ Orders(flying, e) \in Nat
      BY <2>3, PlacesAreFinite, OrdersAreCounted DEF IInv, TypeOK, CopiesInv
    <3>2. got[k][e] + Copies(bus[at[k]], e) + Orders(flying, e)
            <= published[e] - queued[e] + again[e]
      BY <2>3 DEF IInv, CopiesInv, Owed
    <3> QED
      BY <2>1, <3>1, <3>2
  <2> QED
    BY <2>2, <2>3
<1> QED
  BY <1>1, Invariance, PTL

\* A socket outlives its connection in the registry only if it closed during its
\* access check (ws-server.ts:78-83, :112).
THEOREM OnlyLeaksLinger == Spec => []OnlyLeakedSocketsLinger
<1>1. IInv => OnlyLeakedSocketsLinger
  BY DEF IInv, RegistryInv, OnlyLeakedSocketsLinger
<1> QED
  BY <1>1, Invariance, PTL

\* A page whose loads are over shows every event it was told of, unless one of them
\* failed or two answers crossed (sessions/[id]/page.tsx:20-36).
THEOREM PagesCatchUp == Spec => []PageShowsWhatItWasTold
<1>1. IInv => PageShowsWhatItWasTold
  BY DEF IInv, PageInv, UpToDate, PageShowsWhatItWasTold
<1> QED
  BY <1>1, Invariance, PTL
=============================================================================
