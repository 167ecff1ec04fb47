-------------------------- MODULE ConnectionProofs --------------------------
(***************************************************************************)
(* Invariance proofs for Connection, for every set of consumers and        *)
(* connections and every number of faults.                                 *)
(***************************************************************************)
EXTENDS Connection, FiniteSetTheorems, TLAPS

-----------------------------------------------------------------------------
(* The inductive invariant.                                                *)

\* connection and channel are set and cleared together, and an attempt is made
\* only without them.
FieldsInv ==
  /\ connection = channel
  /\ channel \in open \cup {0}
  /\ connecting # "none" => channel = 0
  /\ trying = 0 <=> connecting \in {"none", "tcp"}

\* Every open connection is held, being tried, leaked or orphaned; a consumer
\* that is attached, or about to be, is so to one that is or was held.
HeldInv ==
  /\ open \subseteq {connection, trying} \cup leaked \cup orphaned
  /\ \A a \in attaching \cup attached :
       a[2] \in open => a[2] \in {connection} \cup orphaned

Attempts == IF connecting = "none" THEN 0 ELSE 1

\* The close that an outage will bring to the connection being tried.
Impending == IF ~up /\ trying \in open THEN 1 ELSE 0

\* What may still schedule a reconnect: timers, the attempt, every connection that
\* may yet close.  Each has a fault to its account, but for one.
CountInv ==
  /\ IsFiniteSet(open)
  /\ timers + Attempts + Cardinality(open \ {trying}) + Impending <= 1 + faults

IInv == TypeOK /\ FieldsInv /\ HeldInv /\ CountInv

-----------------------------------------------------------------------------
(* One lemma per action, one step per conjunct of the invariant.           *)

\* Connections other than the one being tried can be counted.
LEMMA OthersAreFinite ==
  ASSUME IsFiniteSet(open)
  PROVE  Cardinality(open \ {trying}) \in Nat
BY FS_RemoveElement, FS_CardinalityType

LEMMA ConnectStep ==
  ASSUME IInv, Connect
  PROVE  IInv'
<1> USE ConnectionAssumption DEF IInv, fields, attempt, consuming, history, Connect
<1>1. TypeOK'
  BY DEF TypeOK
<1>2. FieldsInv'
  BY DEF TypeOK, FieldsInv
<1>3. HeldInv'
  BY DEF TypeOK, FieldsInv, HeldInv
<1>4. CountInv'
  <2>1. Cardinality(open \ {trying}) \in Nat /\ IsFiniteSet(open)
    BY OthersAreFinite DEF CountInv
  <2>2. trying' = trying /\ open' = open /\ faults' = faults /\ up' = up
    BY DEF FieldsInv
  <2>3. timers' + Attempts' <= timers + Attempts
    BY DEF TypeOK, Attempts
  <2> QED
    BY <2>1, <2>2, <2>3 DEF TypeOK, CountInv, Attempts, Impending
<1> QED
  BY <1>1, <1>2, <1>3, <1>4

LEMMA OpenedStep ==
  ASSUME IInv, Opened
  PROVE  IInv'
<1> USE ConnectionAssumption DEF IInv, fields, attempt, consuming, history, Opened
<1>1. TypeOK'
  BY DEF TypeOK, Unused
<1>2. FieldsInv'
  BY DEF TypeOK, FieldsInv, Unused
<1>3. HeldInv'
  BY DEF TypeOK, FieldsInv, HeldInv, Unused
<1>4. CountInv'
  <2>1. PICK c \in Conns \ open : open' = open \cup {c} /\ trying' = c
    BY DEF Unused
  <2>2. trying = 0 /\ Impending' = 0 /\ Attempts' = Attempts
    BY DEF FieldsInv, Attempts, Impending
  <2>3. open' \ {trying'} = open \ {trying}
    BY <2>1, <2>2 DEF TypeOK
  <2>4. IsFiniteSet(open')
    BY <2>1, FS_AddElement DEF CountInv
  <2>5. Cardinality(open' \ {trying'}) = Cardinality(open \ {trying})
    BY <2>3
  <2> QED
    BY <2>2, <2>4, <2>5, OthersAreFinite DEF TypeOK, CountInv, Impending
<1> QED
  BY <1>1, <1>2, <1>3, <1>4

LEMMA ChannelCreatedStep ==
  ASSUME IInv, ChannelCreated
  PROVE  IInv'
<1> USE ConnectionAssumption DEF IInv, fields, attempt, consuming, history, ChannelCreated
<1>1. TypeOK'
  BY DEF TypeOK
<1>2. FieldsInv'
  BY DEF TypeOK, FieldsInv
<1>3. HeldInv'
  BY DEF TypeOK, FieldsInv, HeldInv
<1>4. CountInv'
  BY OthersAreFinite DEF TypeOK, FieldsInv, CountInv, Attempts, Impending
<1> QED
  BY <1>1, <1>2, <1>3, <1>4

LEMMA EstablishedStep ==
  ASSUME IInv, Established
  PROVE  IInv'
<1> USE ConnectionAssumption DEF IInv, fields, attempt, consuming, history, Established
<1>1. TypeOK'
  BY DEF TypeOK
<1>2. FieldsInv'
  BY DEF TypeOK, FieldsInv
<1>3. HeldInv'
  BY DEF TypeOK, FieldsInv, HeldInv
<1>4. CountInv'
  <2>1. IsFiniteSet(open') /\ open' = open /\ trying' = 0 /\ faults' = faults /\ timers' = timers
    BY DEF CountInv
  <2>2. Cardinality(open' \ {trying'}) = Cardinality(open \ {trying}) + 1
    <3>1. open' \ {trying'} = open
      BY <2>1 DEF TypeOK
    <3>2. Cardinality(open \ {trying}) = Cardinality(open) - 1 /\ Cardinality(open) \in Nat
      BY FS_RemoveElement, FS_CardinalityType DEF CountInv
    <3>3. Cardinality(open' \ {trying'}) = Cardinality(open)
      BY <3>1
    <3> QED
      BY ONLY <3>2, <3>3
  <2>3. Attempts' = 0 /\ Attempts = 1 /\ Impending' = 0
    BY <2>1 DEF TypeOK, Attempts, Impending
  <2> QED
    BY <2>1, <2>2, <2>3, OthersAreFinite DEF TypeOK, CountInv, Impending
<1> QED
  BY <1>1, <1>2, <1>3, <1>4

LEMMA EstablishFailsStep ==
  ASSUME IInv, EstablishFails
  PROVE  IInv'
<1> USE ConnectionAssumption DEF IInv, fields, attempt, consuming, history, EstablishFails
<1>1. TypeOK'
  <2>1. faults' \in 0..MaxFaults
    BY DEF TypeOK, Fault
  <2>2. leaked' \subseteq open'
    BY DEF TypeOK
  <2> QED
    BY <2>1, <2>2 DEF TypeOK, Scheduled
<1>2. FieldsInv'
  BY DEF TypeOK, FieldsInv, Scheduled, Fault
<1>3. HeldInv'
  BY DEF TypeOK, FieldsInv, HeldInv, Scheduled, Fault
<1>4. CountInv'
  <2>1. /\ IsFiniteSet(open) /\ open' = open /\ trying' = 0
        /\ timers' <= timers + 1 /\ timers' \in Nat
    BY DEF TypeOK, CountInv, Scheduled
  <2>2. open' \ {trying'} = open /\ Impending' = 0 /\ Attempts' = 0 /\ Attempts = 1
    BY <2>1 DEF TypeOK, FieldsInv, Attempts, Impending
  <2>3. CASE trying \notin open
    <3>1. open \ {trying} = open /\ faults' = faults
      BY <2>3 DEF TypeOK, Fault
    <3> QED
      BY <2>1, <2>2, <3>1, OthersAreFinite DEF TypeOK, CountInv, Impending
  <2>4. CASE trying \in open
    <3>1. Cardinality(open \ {trying}) = Cardinality(open) - 1 /\ Cardinality(open) \in Nat
      BY <2>1, <2>4, FS_RemoveElement, FS_CardinalityType
    <3>2. faults' = faults + 1
      BY <2>4 DEF TypeOK, FieldsInv, Fault
    <3>3. Cardinality(open' \ {trying'}) = Cardinality(open \ {trying}) + 1
      BY <2>2, <3>1
    <3> QED
      BY <2>1, <2>2, <3>1, <3>2, <3>3 DEF TypeOK, CountInv, Impending
  <2> QED
    BY <2>3, <2>4
<1> QED
  BY <1>1, <1>2, <1>3, <1>4

LEMMA CloseStep ==
  ASSUME IInv, NEW c \in Conns, Close(c)
  PROVE  IInv'
<1> USE ConnectionAssumption DEF IInv, fields, attempt, consuming, history, Close
<1>1. TypeOK'
  BY DEF TypeOK, Scheduled, Cleared, Fault
<1>2. FieldsInv'
  BY DEF TypeOK, FieldsInv, Scheduled, Cleared, Fault
<1>3. HeldInv'
  BY DEF TypeOK, FieldsInv, HeldInv, Scheduled, Cleared, Fault
<1>4. CountInv'
  <2>1. /\ IsFiniteSet(open) /\ IsFiniteSet(open') /\ trying' = trying /\ Attempts' = Attempts
        /\ Cardinality(open \ {trying}) \in Nat /\ IsFiniteSet(open \ {trying})
    BY FS_RemoveElement, OthersAreFinite DEF CountInv, Attempts
  <2>2. timers' <= timers + 1 /\ timers' \in Nat /\ faults' \in Nat
    BY DEF TypeOK, Scheduled, Fault
  <2>3. CASE c = trying
    <3>1. Impending' = 0
      BY <2>1, <2>3 DEF Impending
    <3>2. \/ faults' = faults + 1 /\ Impending = 0
          \/ faults' = faults /\ Impending = 1
      BY <2>3 DEF TypeOK, Impending, Fault
    <3>3. Cardinality(open' \ {trying'}) = Cardinality(open \ {trying})
      <4>1. open' \ {trying'} = open \ {trying}
        BY <2>1, <2>3
      <4> QED
        BY <4>1
    <3>4. timers' = timers \/ timers' = timers + 1
      BY DEF Scheduled
    <3> QED
      BY <2>1, <3>1, <3>2, <3>3, <3>4 DEF TypeOK, CountInv, Attempts
  <2>4. CASE c # trying
    <3>1. Cardinality(open' \ {trying'}) = Cardinality(open \ {trying}) - 1
      <4>1. open' \ {trying'} = (open \ {trying}) \ {c} /\ c \in open \ {trying}
        BY <2>1, <2>4
      <4>2. Cardinality((open \ {trying}) \ {c}) = Cardinality(open \ {trying}) - 1
        BY <2>1, <4>1, FS_RemoveElement
      <4> QED
        BY <4>1, <4>2
    <3>2. Impending' = Impending /\ faults' >= faults
      BY <2>1, <2>4 DEF TypeOK, Impending, Fault
    <3> QED
      BY <2>1, <2>2, <3>1, <3>2 DEF TypeOK, CountInv, Attempts, Impending
  <2> QED
    BY <2>3, <2>4
<1> QED
  BY <1>1, <1>2, <1>3, <1>4

LEMMA AttachStep ==
  ASSUME IInv, NEW a \in attaching, Attach(a)
  PROVE  IInv'
<1> USE ConnectionAssumption DEF IInv, fields, attempt, consuming, history, Attach
<1>1. TypeOK'
  BY DEF TypeOK
<1>2. FieldsInv'
  BY DEF TypeOK, FieldsInv
<1>3. HeldInv'
  BY DEF TypeOK, FieldsInv, HeldInv
<1>4. CountInv'
  BY OthersAreFinite DEF TypeOK, FieldsInv, CountInv, Attempts, Impending
<1> QED
  BY <1>1, <1>2, <1>3, <1>4

LEMMA ShutdownStep ==
  ASSUME IInv, Shutdown
  PROVE  IInv'
<1> USE ConnectionAssumption DEF IInv, fields, attempt, consuming, history, Shutdown
<1>1. TypeOK'
  BY DEF TypeOK
<1>2. FieldsInv'
  BY DEF TypeOK, FieldsInv
<1>3. HeldInv'
  BY DEF TypeOK, FieldsInv, HeldInv
<1>4. CountInv'
  <2>1. /\ IsFiniteSet(open') /\ trying' = trying /\ Attempts' = Attempts
        /\ Cardinality(open \ {trying}) \in Nat /\ IsFiniteSet(open \ {trying})
    BY FS_RemoveElement, OthersAreFinite DEF CountInv, Attempts
  <2>2. /\ Cardinality(open' \ {trying'}) <= Cardinality(open \ {trying})
        /\ Cardinality(open' \ {trying'}) \in Nat
    <3>1. open' \ {trying'} \in SUBSET (open \ {trying})
      BY <2>1
    <3> QED
      BY <2>1, <3>1, FS_Subset, FS_CardinalityType
  <2>3. Impending' <= Impending
    BY <2>1 DEF Impending
  <2> QED
    BY <2>1, <2>2, <2>3 DEF TypeOK, CountInv, Attempts, Impending
<1> QED
  BY <1>1, <1>2, <1>3, <1>4

LEMMA BrokerDownStep ==
  ASSUME IInv, BrokerDown
  PROVE  IInv'
<1> USE ConnectionAssumption DEF IInv, fields, attempt, consuming, history, BrokerDown
<1>1. TypeOK'
  <2>1. faults' \in 0..MaxFaults
    BY DEF TypeOK, Fault
  <2> QED
    BY <2>1 DEF TypeOK
<1>2. FieldsInv'
  BY DEF TypeOK, FieldsInv, Fault
<1>3. HeldInv'
  BY DEF TypeOK, FieldsInv, HeldInv, Fault
<1>4. CountInv'
  BY OthersAreFinite DEF TypeOK, FieldsInv, CountInv, Attempts, Impending, Fault
<1> QED
  BY <1>1, <1>2, <1>3, <1>4

LEMMA BrokerUpStep ==
  ASSUME IInv, BrokerUp
  PROVE  IInv'
<1> USE ConnectionAssumption DEF IInv, fields, attempt, consuming, history, BrokerUp
<1>1. TypeOK'
  BY DEF TypeOK
<1>2. FieldsInv'
  BY DEF TypeOK, FieldsInv
<1>3. HeldInv'
  BY DEF TypeOK, FieldsInv, HeldInv
<1>4. CountInv'
  BY OthersAreFinite DEF TypeOK, FieldsInv, CountInv, Attempts, Impending
<1> QED
  BY <1>1, <1>2, <1>3, <1>4

-----------------------------------------------------------------------------
(* The theorems.                                                           *)

LEMMA InitStep == Init => IInv
<1> USE ConnectionAssumption DEF Init
<1> SUFFICES ASSUME Init PROVE IInv
  OBVIOUS
<1>1. TypeOK
  <2>1. faults \in 0..MaxFaults /\ timers \in Nat
    OBVIOUS
  <2>2. attaching \subseteq Consumers \X Conns /\ attached \subseteq Consumers \X open
    OBVIOUS
  <2> QED
    BY <2>1, <2>2 DEF TypeOK
<1>2. FieldsInv /\ HeldInv
  BY DEF FieldsInv, HeldInv
<1>3. CountInv
  <2>1. IsFiniteSet(open) /\ Cardinality(open \ {trying}) = 0
    BY FS_EmptySet, open \ {trying} = {}
  <2> QED
    BY <2>1 DEF CountInv, Attempts, Impending
<1> QED
  BY <1>1, <1>2, <1>3 DEF IInv

LEMMA NextStep == IInv /\ [Next]_vars => IInv'
<1> SUFFICES ASSUME IInv, [Next]_vars PROVE IInv'
  OBVIOUS
<1>1. CASE UNCHANGED vars
  BY <1>1 DEF vars, fields, attempt, consuming, history, IInv, TypeOK, FieldsInv, HeldInv,
              CountInv, Attempts, Impending
<1>2. CASE Connect
  BY <1>2, ConnectStep
<1>3. CASE Establish
  BY <1>3, OpenedStep, ChannelCreatedStep, EstablishedStep, EstablishFailsStep DEF Establish
<1>4. CASE Shutdown
  BY <1>4, ShutdownStep
<1>5. CASE BrokerDown \/ BrokerUp
  BY <1>5, BrokerDownStep, BrokerUpStep
<1>6. CASE \E c \in Conns : Close(c)
  BY <1>6, CloseStep
<1>7. CASE \E a \in attaching : Attach(a)
  BY <1>7, AttachStep
<1> QED
  BY <1>1, <1>2, <1>3, <1>4, <1>5, <1>6, <1>7 DEF Next

\* The inductive invariant holds in every reachable state.
THEOREM Invariance == Spec => []IInv
BY InitStep, NextStep, PTL DEF Spec

\* Type correctness, and with it that the counters of faults and timers never go
\* below zero, whatever number of connections has been opened (rabbitmq.ts:17-47).
THEOREM TypeCorrect == Spec => []TypeOK
<1>1. IInv => TypeOK
  BY DEF IInv
<1> QED
  BY <1>1, Invariance, PTL

\* isReady() never vouches for a connection that is closed (rabbitmq.ts:26-28).
THEOREM ReadyIsOpen == Spec => []ReadyMeansOpen
<1>1. IInv => ReadyMeansOpen
  BY DEF IInv, FieldsInv, ReadyMeansOpen
<1> QED
  BY <1>1, Invariance, PTL

\* However often connections are leaked, overtaken and closed late, a consumer that
\* is attached twice is so through a connection nobody holds (rabbitmq.ts:65-104).
THEOREM NoSecondConsumer == Spec => []AttachedTwiceOnlyAfterALeak
<1>1. IInv => AttachedTwiceOnlyAfterALeak
  BY DEF IInv, TypeOK, HeldInv, AttachedTwiceOnlyAfterALeak
<1> QED
  BY <1>1, Invariance, PTL

\* The timers of reconnects, and the attempt, are no more than the faults account for
\* (rabbitmq.ts:88-103).
THEOREM TimersAreBounded == Spec => []ReconnectsDoNotPileUp
<1>1. ASSUME IInv PROVE ReconnectsDoNotPileUp
  BY <1>1, OthersAreFinite
     DEF IInv, TypeOK, CountInv, Attempts, Impending, ReconnectsDoNotPileUp
<1> QED
  BY <1>1, Invariance, PTL
=============================================================================
