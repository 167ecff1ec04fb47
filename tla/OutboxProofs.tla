---------------------------- MODULE OutboxProofs ----------------------------
(***************************************************************************)
(* Invariance proofs for Outbox, for every set of rows and replicas, every *)
(* batch size, attempt cap and number of faults.                           *)
(***************************************************************************)
EXTENDS Outbox, TLAPS

-----------------------------------------------------------------------------
(* The inductive invariant.                                                *)

\* A relay works on rows exactly while it has a transaction, open or expired.
BatchInv ==
  \A r \in Replicas :
    /\ pc[r] \in {"idle", "claim"} <=> txn[r] = "none"
    /\ txn[r] = "none" => todo[r] = {}

\* Locked rows are due rows of an open transaction; the rows a transaction has
\* still to do are locked by it and as yet unwritten; unlocked rows have no draft.
LockInv ==
  /\ \A e \in Events, r \in Replicas :
       /\ lock[e] = r => txn[r] = "open" /\ row[e].status = "PENDING"
       /\ e \in todo[r] /\ txn[r] = "open" => lock[e] = r /\ draft[e] = row[e]
       /\ e \in todo[r] => row[e].status # "ABSENT"
  /\ \A e \in Events : lock[e] = NoReplica => draft[e] = row[e]

\* What a version of a row, committed or not, says about publishing it is true.
Honest(e, d) ==
  /\ d.status = "ABSENT" => copies[e] = 0
  /\ d.status = "PENDING" => d.attempts < MaxAttempts
  /\ d.status = "PUBLISHED" => copies[e] > 0
  /\ d.status = "FAILED" => d.attempts = MaxAttempts
  /\ d.attempts <= errors[e]

HonestInv ==
  \A e \in Events :
    /\ Honest(e, row[e])
    /\ Honest(e, draft[e])
    /\ lock[e] \in Replicas => draft[e].status # "ABSENT"

\* What the program counter says about the row the loop is at.
PublishInv ==
  \A r \in Replicas, e \in Events :
    Current(r, e) =>
      /\ pc[r] \in {"accepted", "acked"} => copies[e] > 0
      /\ pc[r] = "errored" /\ txn[r] = "open" => draft[e].attempts < errors[e]

\* One copy at most is spoken for: by the committed mark, or by the transaction
\* that has written it or is about to.
Owed(e) ==
  IF \/ row[e].status = "PUBLISHED"
     \/ lock[e] \in Replicas /\ Accounted(lock[e], e)
  THEN 1 ELSE 0

CopiesInv == \A e \in Events : copies[e] <= spoilt[e] + Owed(e)

IInv == TypeOK /\ BatchInv /\ LockInv /\ HonestInv /\ PublishInv /\ CopiesInv

-----------------------------------------------------------------------------
(* One lemma per action, one step per conjunct of the invariant.           *)

\* The loop of drainBatch is at one row at a time.
LEMMA CurrentIsUnique ==
  ASSUME NEW r \in Replicas, NEW e \in Events, NEW f \in Events,
         Current(r, e), Current(r, f)
  PROVE  e = f
BY OutboxAssumption DEF Current

LEMMA TickStep ==
  ASSUME IInv, NEW r \in Replicas, Tick(r)
  PROVE  IInv'
<1> USE OutboxAssumption DEF IInv, dbVars, relayVars, history, Row, Status, Tick
<1>1. TypeOK'
  BY DEF TypeOK, NewRow
<1>2. BatchInv'
  BY DEF TypeOK, BatchInv
<1>3. LockInv'
  BY DEF TypeOK, BatchInv, LockInv, NewRow
<1>4. HonestInv'
  BY DEF TypeOK, BatchInv, LockInv, HonestInv, Honest, PublishInv, NewRow, Current
<1>5. PublishInv'
  BY DEF TypeOK, BatchInv, LockInv, HonestInv, Honest, PublishInv, Current
<1>6. CopiesInv'
  BY DEF TypeOK, BatchInv, LockInv, HonestInv, Honest, CopiesInv, Owed, Accounted, Current, NewRow
<1> QED
  BY <1>1, <1>2, <1>3, <1>4, <1>5, <1>6

LEMMA ClaimStep ==
  ASSUME IInv, NEW r \in Replicas, Claim(r)
  PROVE  IInv'
<1> USE OutboxAssumption DEF IInv, dbVars, relayVars, history, Row, Status, Claim
<1>1. PICK S \in SUBSET Claimable :
        IF S = {}
        THEN pc' = [pc EXCEPT ![r] = "idle"] /\ UNCHANGED <<lock, txn, todo, again>>
        ELSE /\ pc' = [pc EXCEPT ![r] = "rows"]
             /\ lock' = [e \in Events |-> IF e \in S THEN r ELSE lock[e]]
             /\ txn' = [txn EXCEPT ![r] = "open"]
             /\ todo' = [todo EXCEPT ![r] = S]
             /\ again' = [again EXCEPT ![r] = Cardinality(S) = BatchSize]
  OBVIOUS
<1>2. again' \in [Replicas -> BOOLEAN]
  <2>1. (Cardinality(S) = BatchSize) \in BOOLEAN
    OBVIOUS
  <2> QED
    BY <1>1, <2>1, Zenon DEF TypeOK
<1>3. TypeOK'
  <2>1. S \subseteq Events
    BY DEF Claimable
  <2>2. /\ lock' \in [Events -> Replicas \cup {NoReplica}]
        /\ todo' \in [Replicas -> SUBSET Events]
    <3>1. CASE S = {}
      BY <1>1, <3>1 DEF TypeOK
    <3>2. CASE S # {}
      <4>1. lock' \in [Events -> Replicas \cup {NoReplica}]
        BY <1>1, <3>2 DEF TypeOK
      <4>2. todo' \in [Replicas -> SUBSET Events]
        BY ZenonT(20), <1>1, <2>1, <3>2 DEF TypeOK
      <4> QED
        BY <4>1, <4>2
    <3> QED
      BY <3>1, <3>2
  <2>3. /\ pc' \in [Replicas -> {"idle", "claim", "rows", "sent", "accepted",
                                 "acked", "errored", "hung"}]
        /\ txn' \in [Replicas -> {"none", "open", "expired"}]
    BY <1>1 DEF TypeOK
  <2> QED
    BY <1>2, <2>2, <2>3 DEF TypeOK
<1>4. BatchInv'
  BY <1>1 DEF TypeOK, BatchInv
<1>5. LockInv'
  BY <1>1 DEF TypeOK, BatchInv, LockInv, Claimable
<1>6. HonestInv'
  BY <1>1 DEF TypeOK, LockInv, HonestInv, Honest, Claimable
<1>7. PublishInv'
  BY <1>1 DEF TypeOK, BatchInv, LockInv, HonestInv, Honest, PublishInv, Current
<1>8. CopiesInv'
  <2> SUFFICES ASSUME NEW e \in Events
               PROVE  (copies[e] <= spoilt[e] + Owed(e))'
    BY DEF CopiesInv
  <2>1. CASE S = {} \/ e \notin S
    <3>1. lock'[e] = lock[e] /\ lock[e] # r
      BY <1>1, <2>1 DEF TypeOK, LockInv, BatchInv
    <3>2. ASSUME NEW q \in Replicas, q # r
          PROVE  Accounted(q, e)' <=> Accounted(q, e)
      <4>1. pc'[q] = pc[q] /\ todo'[q] = todo[q]
        BY <1>1, <3>2 DEF TypeOK
      <4> QED
        BY <3>1, <4>1 DEF Accounted, Current
    <3>3. Owed(e)' = Owed(e)
      BY <3>1, <3>2 DEF Owed
    <3> QED
      BY <3>3 DEF CopiesInv
  <2>2. CASE S # {} /\ e \in S
    <3>1. lock[e] = NoReplica /\ row[e].status = "PENDING" /\ draft[e] = row[e]
      BY <2>2 DEF Claimable, LockInv
    <3>2. Owed(e) = 0 /\ Owed(e)' = 0
      BY <1>1, <2>2, <3>1 DEF TypeOK, Owed, Accounted
    <3> QED
      BY <3>2 DEF CopiesInv
  <2> QED
    BY <2>1, <2>2
<1> QED
  BY <1>3, <1>4, <1>5, <1>6, <1>7, <1>8

LEMMA SendStep ==
  ASSUME IInv, NEW r \in Replicas, Send(r)
  PROVE  IInv'
<1> USE OutboxAssumption DEF IInv, dbVars, relayVars, history, Row, Status, Send
<1>1. TypeOK'
  BY DEF TypeOK, NewRow
<1>2. BatchInv'
  BY DEF TypeOK, BatchInv
<1>3. LockInv'
  BY DEF TypeOK, BatchInv, LockInv, NewRow
<1>4. HonestInv'
  BY DEF TypeOK, BatchInv, LockInv, HonestInv, Honest, PublishInv, NewRow, Current
<1>5. PublishInv'
  BY DEF TypeOK, BatchInv, LockInv, HonestInv, Honest, PublishInv, Current
<1>6. CopiesInv'
  BY DEF TypeOK, BatchInv, LockInv, HonestInv, Honest, CopiesInv, Owed, Accounted, Current, NewRow
<1> QED
  BY <1>1, <1>2, <1>3, <1>4, <1>5, <1>6

LEMMA SendThrowsStep ==
  ASSUME IInv, NEW r \in Replicas, SendThrows(r)
  PROVE  IInv'
<1> USE OutboxAssumption DEF IInv, dbVars, relayVars, history, Row, Status, SendThrows
<1>1. PICK e \in Events : Current(r, e) /\ errors' = [errors EXCEPT ![e] = @ + 1]
  OBVIOUS
<1>2. \A f \in Events : Current(r, f) => f = e
  BY <1>1, CurrentIsUnique
<1>3. TypeOK'
  BY DEF TypeOK
<1>4. BatchInv'
  BY DEF TypeOK, BatchInv
<1>5. LockInv'
  BY DEF TypeOK, BatchInv, LockInv
<1>6. HonestInv'
  BY <1>1 DEF TypeOK, HonestInv, Honest
<1>7. PublishInv'
  BY <1>1, <1>2 DEF TypeOK, BatchInv, HonestInv, Honest, PublishInv, Current
<1>8. CopiesInv'
  BY DEF TypeOK, BatchInv, LockInv, CopiesInv, Owed, Accounted, Current
<1> QED
  BY <1>3, <1>4, <1>5, <1>6, <1>7, <1>8

LEMMA BrokerAcceptStep ==
  ASSUME IInv, NEW r \in Replicas, BrokerAccept(r)
  PROVE  IInv'
<1> USE OutboxAssumption DEF IInv, dbVars, relayVars, history, Row, Status, BrokerAccept
<1>1. PICK e \in Events :
        /\ Current(r, e)
        /\ copies' = [copies EXCEPT ![e] = @ + 1]
        /\ spoilt' = [spoilt EXCEPT ![e] = @ + IF txn[r] = "expired" THEN 1 ELSE 0]
  OBVIOUS
<1>2. \A f \in Events : Current(r, f) => f = e
  BY <1>1, CurrentIsUnique
<1>3. TypeOK'
  BY <1>1 DEF TypeOK
<1>4. BatchInv'
  BY DEF TypeOK, BatchInv
<1>5. LockInv'
  BY DEF TypeOK, BatchInv, LockInv
<1>6. row[e].status # "ABSENT" /\ draft[e].status # "ABSENT"
  BY <1>1 DEF TypeOK, LockInv, HonestInv, Current
<1>7. HonestInv'
  BY <1>1, <1>6 DEF TypeOK, HonestInv, Honest
<1>8. PublishInv'
  BY <1>1, <1>2 DEF TypeOK, PublishInv, Current
<1>9. CopiesInv'
  <2> SUFFICES ASSUME NEW f \in Events
               PROVE  (copies[f] <= spoilt[f] + Owed(f))'
    BY DEF CopiesInv
  <2>1. CASE f = e /\ txn[r] = "open"
    <3>1. lock[e] = r /\ Owed(e) = 0
      BY <1>1, <2>1 DEF TypeOK, LockInv, Owed, Accounted, Current
    <3>2. Owed(e)' = 1
      BY <1>1, <3>1 DEF TypeOK, Owed, Accounted, Current
    <3> QED
      BY <1>1, <2>1, <3>1, <3>2 DEF TypeOK, CopiesInv
  <2>2. CASE f = e /\ txn[r] = "expired"
    <3>1. Owed(e)' = Owed(e)
      BY <1>1, <2>2 DEF TypeOK, LockInv, Owed, Accounted, Current
    <3>2. Owed(e) \in Nat
      BY DEF Owed
    <3> QED
      BY <1>1, <2>2, <3>1, <3>2 DEF TypeOK, CopiesInv
  <2>3. CASE f # e
    <3>1. Owed(f)' = Owed(f)
      BY <1>1, <1>2, <2>3 DEF TypeOK, Owed, Accounted, Current
    <3> QED
      BY <1>1, <2>3, <3>1 DEF TypeOK, CopiesInv
  <2>4. txn[r] \in {"open", "expired"}
    BY DEF TypeOK, BatchInv
  <2> QED
    BY <2>1, <2>2, <2>3, <2>4
<1> QED
  BY <1>3, <1>4, <1>5, <1>7, <1>8, <1>9

LEMMA BrokerNackStep ==
  ASSUME IInv, NEW r \in Replicas, BrokerNack(r)
  PROVE  IInv'
<1> USE OutboxAssumption DEF IInv, dbVars, relayVars, history, Row, Status, BrokerNack, Fault
<1>1. PICK e \in Events : Current(r, e) /\ errors' = [errors EXCEPT ![e] = @ + 1]
  OBVIOUS
<1>2. \A f \in Events : Current(r, f) => f = e
  BY <1>1, CurrentIsUnique
<1>3. TypeOK'
  BY DEF TypeOK
<1>4. BatchInv'
  BY DEF TypeOK, BatchInv
<1>5. LockInv'
  BY DEF TypeOK, BatchInv, LockInv
<1>6. HonestInv'
  BY <1>1 DEF TypeOK, HonestInv, Honest
<1>7. PublishInv'
  BY <1>1, <1>2 DEF TypeOK, BatchInv, HonestInv, Honest, PublishInv, Current
<1>8. CopiesInv'
  BY DEF TypeOK, BatchInv, LockInv, CopiesInv, Owed, Accounted, Current
<1> QED
  BY <1>3, <1>4, <1>5, <1>6, <1>7, <1>8

LEMMA ConfirmStep ==
  ASSUME IInv, NEW r \in Replicas, Confirm(r)
  PROVE  IInv'
<1> USE OutboxAssumption DEF IInv, dbVars, relayVars, history, Row, Status, Confirm
<1>1. TypeOK'
  BY DEF TypeOK, NewRow
<1>2. BatchInv'
  BY DEF TypeOK, BatchInv
<1>3. LockInv'
  BY DEF TypeOK, BatchInv, LockInv, NewRow
<1>4. HonestInv'
  BY DEF TypeOK, BatchInv, LockInv, HonestInv, Honest, PublishInv, NewRow, Current
<1>5. PublishInv'
  BY DEF TypeOK, BatchInv, LockInv, HonestInv, Honest, PublishInv, Current
<1>6. CopiesInv'
  BY DEF TypeOK, BatchInv, LockInv, HonestInv, Honest, CopiesInv, Owed, Accounted, Current, NewRow
<1> QED
  BY <1>1, <1>2, <1>3, <1>4, <1>5, <1>6

LEMMA MarkStep ==
  ASSUME IInv, NEW r \in Replicas, Mark(r)
  PROVE  IInv'
<1> USE OutboxAssumption DEF IInv, dbVars, relayVars, history, Row, Status
<1>1. PICK e \in Events :
        /\ Current(r, e)
        /\ todo' = [todo EXCEPT ![r] = @ \ {e}]
        /\ \/ pc[r] = "acked" /\ draft' = [draft EXCEPT ![e] = Published(@)]
           \/ pc[r] = "errored" /\ draft' = [draft EXCEPT ![e] = Backoff(@)]
  BY DEF Mark
<1>2. /\ txn[r] = "open"
      /\ pc' = [pc EXCEPT ![r] = "rows"]
      /\ UNCHANGED <<row, lock, txn, again, channel, history, faults>>
  BY DEF Mark
<1>3. \A f \in Events : Current(r, f) => f = e
  BY <1>1, CurrentIsUnique
<1>4. lock[e] = r /\ draft[e] = row[e] /\ draft[e].status = "PENDING"
  BY <1>1, <1>2 DEF LockInv, Current
<1>5. /\ draft'[e] \in Row
      /\ Honest(e, draft'[e])
      /\ draft'[e].status # "ABSENT"
      /\ pc[r] = "acked" => draft'[e].status = "PUBLISHED"
      /\ \A f \in Events \ {e} : draft'[f] = draft[f]
  <2>1. CASE pc[r] = "acked"
    <3>1. draft' = [draft EXCEPT ![e] = Published(@)]
      BY <1>1, <2>1
    <3>2. copies[e] > 0
      BY <1>1, <2>1 DEF PublishInv
    <3> QED
      <4>1. draft[e] \in Row /\ Honest(e, draft[e])
        BY DEF TypeOK, HonestInv
      <4>2. draft'[e] = [status |-> "PUBLISHED", attempts |-> draft[e].attempts,
                         due |-> draft[e].due]
        BY <3>1, <4>1 DEF Published, TypeOK
      <4>3. \A f \in Events \ {e} : draft'[f] = draft[f]
        BY <3>1 DEF TypeOK
      <4> QED
        BY <2>1, <3>2, <4>1, <4>2, <4>3 DEF Honest
  <2>2. CASE pc[r] = "errored"
    <3>1. draft' = [draft EXCEPT ![e] = Backoff(@)]
      BY <1>1, <2>2
    <3>2. draft[e].attempts < errors[e] /\ draft[e].attempts < MaxAttempts
      BY <1>1, <1>2, <1>4, <2>2 DEF PublishInv, HonestInv, Honest
    <3> QED
      BY SMTT(20), <3>1, <3>2, <1>4, <2>2 DEF Backoff, TypeOK, Honest
  <2> QED
    BY <1>1, <2>1, <2>2
<1>6. TypeOK'
  <2>1. draft' \in [Events -> Row]
    BY <1>1, <1>5 DEF TypeOK
  <2>2. todo' \in [Replicas -> SUBSET Events]
    BY <1>1 DEF TypeOK
  <2> QED
    BY <1>2, <2>1, <2>2 DEF TypeOK
<1>7. BatchInv'
  BY <1>1, <1>2 DEF TypeOK, BatchInv
<1>8. LockInv'
  BY <1>1, <1>2, <1>4, <1>5 DEF TypeOK, LockInv
<1>9. HonestInv'
  BY <1>2, <1>5 DEF HonestInv, Honest
<1>10. PublishInv'
  <2> SUFFICES ASSUME NEW q \in Replicas, NEW f \in Events, Current(q, f)'
               PROVE  (/\ pc[q] \in {"accepted", "acked"} => copies[f] > 0
                       /\ pc[q] = "errored" /\ txn[q] = "open"
                            => draft[f].attempts < errors[f])'
    BY DEF PublishInv
  <2>1. CASE q = r
    BY <1>2, <2>1 DEF TypeOK
  <2>2. CASE q # r
    <3>1. Current(q, f) /\ pc'[q] = pc[q] /\ txn'[q] = txn[q]
      BY <1>1, <1>2, <2>2 DEF TypeOK, Current
    <3>2. txn[q] = "open" => f # e
      BY ZenonT(20), <1>4, <2>2, <3>1 DEF LockInv, Current
    <3> QED
      BY <1>2, <1>5, <3>1, <3>2 DEF PublishInv
  <2> QED
    BY <2>1, <2>2
<1>11. CopiesInv'
  <2> SUFFICES ASSUME NEW f \in Events
               PROVE  (copies[f] <= spoilt[f] + Owed(f))'
    BY DEF CopiesInv
  <2>1. pc'[r] = "rows" /\ \A q \in Replicas \ {r} : pc'[q] = pc[q] /\ todo'[q] = todo[q]
    BY <1>1, <1>2 DEF TypeOK
  <2>2. Owed(f)' >= Owed(f)
    BY <1>1, <1>2, <1>3, <1>4, <1>5, <2>1 DEF TypeOK, Owed, Accounted, Current
  <2>3. Owed(f) \in Nat /\ Owed(f)' \in Nat
    BY DEF Owed
  <2> QED
    BY <1>2, <2>2, <2>3 DEF TypeOK, CopiesInv
<1> QED
  BY <1>6, <1>7, <1>8, <1>9, <1>10, <1>11

LEMMA CommitStep ==
  ASSUME IInv, NEW r \in Replicas, Commit(r)
  PROVE  IInv'
<1> USE OutboxAssumption DEF IInv, dbVars, relayVars, history, Row, Status, Commit, Unlocked, EndOfBatch
<1>1. TypeOK'
  BY DEF TypeOK, NewRow
<1>2. BatchInv'
  BY DEF TypeOK, BatchInv
<1>3. LockInv'
  BY DEF TypeOK, BatchInv, LockInv, HonestInv
<1>4. HonestInv'
  BY DEF TypeOK, BatchInv, LockInv, HonestInv, Honest, PublishInv, NewRow, Current
<1>5. PublishInv'
  BY DEF TypeOK, BatchInv, LockInv, HonestInv, Honest, PublishInv, Current
<1>6. CopiesInv'
  BY DEF TypeOK, BatchInv, LockInv, HonestInv, Honest, CopiesInv, Owed, Accounted, Current, NewRow
<1> QED
  BY <1>1, <1>2, <1>3, <1>4, <1>5, <1>6

LEMMA AbandonStep ==
  ASSUME IInv, NEW r \in Replicas, Abandon(r)
  PROVE  IInv'
<1> USE OutboxAssumption DEF IInv, dbVars, relayVars, history, Row, Status, Abandon, Unlocked, EndOfBatch, Rollback, Fault
<1>1. TypeOK'
  BY DEF TypeOK, NewRow
<1>2. BatchInv'
  BY DEF TypeOK, BatchInv
<1>3. LockInv'
  BY DEF TypeOK, BatchInv, LockInv, NewRow
<1>4. HonestInv'
  BY DEF TypeOK, BatchInv, LockInv, HonestInv, Honest, PublishInv, NewRow, Current
<1>5. PublishInv'
  BY DEF TypeOK, BatchInv, LockInv, HonestInv, Honest, PublishInv, Current
<1>6. CopiesInv'
  BY DEF TypeOK, BatchInv, LockInv, HonestInv, Honest, CopiesInv, Owed, Accounted, Current, NewRow
<1> QED
  BY <1>1, <1>2, <1>3, <1>4, <1>5, <1>6

LEMMA ExpireStep ==
  ASSUME IInv, NEW r \in Replicas, Expire(r)
  PROVE  IInv'
<1> USE OutboxAssumption DEF IInv, dbVars, relayVars, history, Row, Status, Expire, Unlocked, Rollback, Fault
<1>1. TypeOK'
  BY DEF TypeOK, NewRow
<1>2. BatchInv'
  BY DEF TypeOK, BatchInv
<1>3. LockInv'
  BY DEF TypeOK, BatchInv, LockInv, NewRow
<1>4. HonestInv'
  BY DEF TypeOK, BatchInv, LockInv, HonestInv, Honest, PublishInv, NewRow, Current
<1>5. PublishInv'
  BY DEF TypeOK, BatchInv, LockInv, HonestInv, Honest, PublishInv, Current
<1>6. CopiesInv'
  BY DEF TypeOK, BatchInv, LockInv, HonestInv, Honest, CopiesInv, Owed, Accounted, Current, NewRow
<1> QED
  BY <1>1, <1>2, <1>3, <1>4, <1>5, <1>6

LEMMA CrashStep ==
  ASSUME IInv, NEW r \in Replicas, Crash(r)
  PROVE  IInv'
<1> USE OutboxAssumption DEF IInv, dbVars, relayVars, history, Row, Status, Crash, Unlocked, Rollback, EndOfBatch, Fault
<1>1. TypeOK'
  BY DEF TypeOK, NewRow
<1>2. BatchInv'
  BY DEF TypeOK, BatchInv
<1>3. LockInv'
  BY DEF TypeOK, BatchInv, LockInv, NewRow
<1>4. HonestInv'
  BY DEF TypeOK, BatchInv, LockInv, HonestInv, Honest, PublishInv, NewRow, Current
<1>5. PublishInv'
  BY DEF TypeOK, BatchInv, LockInv, HonestInv, Honest, PublishInv, Current
<1>6. CopiesInv'
  BY DEF TypeOK, BatchInv, LockInv, HonestInv, Honest, CopiesInv, Owed, Accounted, Current, NewRow
<1> QED
  BY <1>1, <1>2, <1>3, <1>4, <1>5, <1>6

LEMMA ConnectStep ==
  ASSUME IInv, NEW r \in Replicas, Connect(r)
  PROVE  IInv'
<1> USE OutboxAssumption DEF IInv, dbVars, relayVars, history, Row, Status, Connect
<1>1. TypeOK'
  BY DEF TypeOK, NewRow
<1>2. BatchInv'
  BY DEF TypeOK, BatchInv
<1>3. LockInv'
  BY DEF TypeOK, BatchInv, LockInv, NewRow
<1>4. HonestInv'
  BY DEF TypeOK, BatchInv, LockInv, HonestInv, Honest, PublishInv, NewRow, Current
<1>5. PublishInv'
  BY DEF TypeOK, BatchInv, LockInv, HonestInv, Honest, PublishInv, Current
<1>6. CopiesInv'
  BY DEF TypeOK, BatchInv, LockInv, HonestInv, Honest, CopiesInv, Owed, Accounted, Current, NewRow
<1> QED
  BY <1>1, <1>2, <1>3, <1>4, <1>5, <1>6

LEMMA DisconnectStep ==
  ASSUME IInv, NEW r \in Replicas, Disconnect(r)
  PROVE  IInv'
<1> USE OutboxAssumption DEF IInv, dbVars, relayVars, history, Row, Status, Disconnect, Fault, InterruptPublish
<1>1. TypeOK'
  BY DEF TypeOK, NewRow
<1>2. BatchInv'
  BY DEF TypeOK, BatchInv
<1>3. LockInv'
  BY DEF TypeOK, BatchInv, LockInv, NewRow
<1>4. HonestInv'
  BY DEF TypeOK, BatchInv, LockInv, HonestInv, Honest, PublishInv, NewRow, Current
<1>5. PublishInv'
  BY SMTT(20) DEF TypeOK, BatchInv, LockInv, HonestInv, Honest, PublishInv, Current
<1>6. CopiesInv'
  BY DEF TypeOK, BatchInv, LockInv, HonestInv, Honest, CopiesInv, Owed, Accounted, Current, NewRow
<1> QED
  BY <1>1, <1>2, <1>3, <1>4, <1>5, <1>6

LEMMA ChannelCloseStep ==
  ASSUME IInv, NEW r \in Replicas, ChannelClose(r)
  PROVE  IInv'
<1> USE OutboxAssumption DEF IInv, dbVars, relayVars, history, Row, Status, ChannelClose, Fault, InterruptPublish
<1>1. TypeOK'
  BY DEF TypeOK, NewRow
<1>2. BatchInv'
  BY DEF TypeOK, BatchInv
<1>3. LockInv'
  BY DEF TypeOK, BatchInv, LockInv, NewRow
<1>4. HonestInv'
  BY DEF TypeOK, BatchInv, LockInv, HonestInv, Honest, PublishInv, NewRow, Current
<1>5. PublishInv'
  BY DEF TypeOK, BatchInv, LockInv, HonestInv, Honest, PublishInv, Current
<1>6. CopiesInv'
  BY DEF TypeOK, BatchInv, LockInv, HonestInv, Honest, CopiesInv, Owed, Accounted, Current, NewRow
<1> QED
  BY <1>1, <1>2, <1>3, <1>4, <1>5, <1>6

LEMMA RecordStep ==
  ASSUME IInv, NEW ev \in Events, Record(ev)
  PROVE  IInv'
<1> USE OutboxAssumption DEF IInv, dbVars, relayVars, history, Row, Status, Record
<1>1. TypeOK'
  BY DEF TypeOK, NewRow
<1>2. BatchInv'
  BY DEF TypeOK, BatchInv
<1>3. LockInv'
  BY DEF TypeOK, BatchInv, LockInv, NewRow
<1>4. HonestInv'
  BY DEF TypeOK, BatchInv, LockInv, HonestInv, Honest, PublishInv, NewRow, Current
<1>5. PublishInv'
  BY DEF TypeOK, BatchInv, LockInv, HonestInv, Honest, PublishInv, Current
<1>6. CopiesInv'
  BY DEF TypeOK, BatchInv, LockInv, HonestInv, Honest, CopiesInv, Owed, Accounted, Current, NewRow
<1> QED
  BY <1>1, <1>2, <1>3, <1>4, <1>5, <1>6

LEMMA BecomeDueStep ==
  ASSUME IInv, NEW ev \in Events, BecomeDue(ev)
  PROVE  IInv'
<1> USE OutboxAssumption DEF IInv, dbVars, relayVars, history, Row, Status, BecomeDue
<1>1. TypeOK'
  <2>1. row[ev] \in Row /\ draft[ev] \in Row
    BY DEF TypeOK
  <2>2. [row[ev] EXCEPT !.due = TRUE] \in Row /\ [draft[ev] EXCEPT !.due = TRUE] \in Row
    BY ONLY <2>1 DEF Row
  <2>3. row' \in [Events -> Row] /\ draft' \in [Events -> Row]
    BY <2>2 DEF TypeOK
  <2> QED
    BY <2>3 DEF TypeOK
<1>2. BatchInv'
  BY DEF TypeOK, BatchInv
<1>3. LockInv'
  <2>1. \A f \in Events : row'[f].status = row[f].status
    BY DEF TypeOK
  <2>2. \A f \in Events : draft[f] = row[f] => draft'[f] = row'[f]
    BY DEF TypeOK
  <2>3. UNCHANGED <<lock, todo, txn>>
    OBVIOUS
  <2>4. ASSUME NEW f \in Events, NEW r \in Replicas
        PROVE  /\ lock'[f] = r => txn'[r] = "open" /\ row'[f].status = "PENDING"
               /\ f \in todo'[r] /\ txn'[r] = "open" =>
                    lock'[f] = r /\ draft'[f] = row'[f]
               /\ f \in todo'[r] => row'[f].status # "ABSENT"
    <3>1. LockInv
      OBVIOUS
    <3> HIDE DEF IInv, BecomeDue
    <3> QED
      BY <2>1, <2>2, <2>3, <3>1 DEF LockInv
  <2>5. ASSUME NEW f \in Events PROVE lock'[f] = NoReplica => draft'[f] = row'[f]
    <3>1. LockInv
      OBVIOUS
    <3> HIDE DEF IInv, BecomeDue
    <3> QED
      BY <2>2, <2>3, <3>1 DEF LockInv
  <2> HIDE DEF IInv, BecomeDue
  <2> QED
    BY <2>4, <2>5 DEF LockInv
<1>4. HonestInv'
  BY DEF TypeOK, BatchInv, LockInv, HonestInv, Honest, PublishInv, NewRow, Current
<1>5. PublishInv'
  BY DEF TypeOK, BatchInv, LockInv, HonestInv, Honest, PublishInv, Current
<1>6. CopiesInv'
  BY DEF TypeOK, BatchInv, LockInv, HonestInv, Honest, CopiesInv, Owed, Accounted, Current, NewRow
<1> QED
  BY <1>1, <1>2, <1>3, <1>4, <1>5, <1>6

-----------------------------------------------------------------------------
(* The theorems.                                                           *)

LEMMA InitInv == Init => IInv
BY OutboxAssumption
   DEF Init, IInv, TypeOK, Row, Status, NoRow, BatchInv, LockInv, HonestInv,
       Honest, PublishInv, CopiesInv, Owed, Accounted, Current

LEMMA NextInv == IInv /\ [Next]_vars => IInv'
<1> SUFFICES ASSUME IInv, [Next]_vars PROVE IInv'
  OBVIOUS
<1>1. CASE UNCHANGED vars
  BY <1>1 DEF vars, dbVars, relayVars, history, IInv, TypeOK, BatchInv, LockInv,
              HonestInv, Honest, PublishInv, CopiesInv, Owed, Accounted, Current
<1>2. ASSUME NEW e \in Events, Record(e) \/ BecomeDue(e) PROVE IInv'
  BY <1>2, RecordStep, BecomeDueStep
<1>3. ASSUME NEW r \in Replicas, Relay(r) PROVE IInv'
  BY <1>3, TickStep, ClaimStep, SendStep, SendThrowsStep, MarkStep,
     CommitStep, AbandonStep DEF Relay
<1>4. ASSUME NEW r \in Replicas, Broker(r) PROVE IInv'
  BY <1>4, BrokerAcceptStep, BrokerNackStep, ConfirmStep, ConnectStep,
     DisconnectStep, ChannelCloseStep DEF Broker
<1>5. ASSUME NEW r \in Replicas, Expire(r) \/ Crash(r) PROVE IInv'
  BY <1>5, ExpireStep, CrashStep
<1> QED
  BY <1>1, <1>2, <1>3, <1>4, <1>5 DEF Next

\* The inductive invariant holds of every reachable state.
THEOREM Invariance == Spec => []IInv
<1>1. Init => IInv
  BY InitInv
<1>2. IInv /\ [Next]_vars => IInv'
  BY NextInv
<1> QED
  BY <1>1, <1>2, PTL DEF Spec

\* Every variable keeps its type; in particular no row's attempts exceed the cap.
THEOREM TypeCorrect == Spec => []TypeOK
<1>1. IInv => TypeOK
  BY DEF IInv
<1> QED
  BY <1>1, Invariance, PTL

\* No row is PUBLISHED unless the broker accepted its message (the relay awaits
\* the publisher confirm before it updates the row).
THEOREM PublishedIsDelivered == Spec => []PublishedReachedBroker
<1>1. IInv => PublishedReachedBroker
  BY DEF IInv, HonestInv, Honest, PublishedReachedBroker
<1> QED
  BY <1>1, Invariance, PTL

\* No row is FAILED before MaxAttempts publishes of it have failed.
THEOREM ParkedIsExhausted == Spec => []ParkedOnlyAfterMaxErrors
<1>1. IInv => ParkedOnlyAfterMaxErrors
  BY OutboxAssumption DEF IInv, TypeOK, HonestInv, Honest, ParkedOnlyAfterMaxErrors
<1> QED
  BY <1>1, Invariance, PTL

\* SKIP LOCKED works: replicas publish a row twice only after the PUBLISHED mark
\* of an accepted copy was lost.
THEOREM NoUncausedDuplicate == Spec => []ExtraCopiesHaveACause
<1>1. IInv => ExtraCopiesHaveACause
  <2> SUFFICES ASSUME IInv, NEW e \in Events PROVE copies[e] <= 1 + spoilt[e]
    BY DEF ExtraCopiesHaveACause
  <2>1. copies[e] <= spoilt[e] + Owed(e) /\ Owed(e) \in {0, 1}
    BY DEF IInv, CopiesInv, Owed
  <2> QED
    BY <2>1 DEF IInv, TypeOK
<1> QED
  BY <1>1, Invariance, PTL

-----------------------------------------------------------------------------
(* Outbox implements AtLeastOnce.                                          *)

fate == [e \in Events |-> row[e].status]
delivered == {e \in Events : copies[e] > 0}

\* Only three actions are visible in the abstract state.
LEMMA InvisibleSteps ==
  ASSUME IInv, [Next]_vars,
         ~ \E e \in Events : Record(e),
         ~ \E r \in Replicas : BrokerAccept(r) \/ Commit(r)
  PROVE  UNCHANGED <<fate, delivered>>
<1> USE DEF dbVars, relayVars, history
<1>1. CASE UNCHANGED vars
  BY <1>1 DEF vars, fate, delivered
<1>2. ASSUME NEW e \in Events, BecomeDue(e) PROVE UNCHANGED <<fate, delivered>>
  <2>1. \A f \in Events : row'[f].status = row[f].status
    BY <1>2 DEF BecomeDue, IInv, TypeOK, Row
  <2> QED
    BY <1>2, <2>1 DEF BecomeDue, fate, delivered
<1>3. ASSUME NEW r \in Replicas, Relay(r), ~ Commit(r)
      PROVE  UNCHANGED <<fate, delivered>>
  BY <1>3 DEF Relay, Tick, Claim, Send, SendThrows, Mark, Abandon,
              Rollback, fate, delivered
<1>4. ASSUME NEW r \in Replicas, Broker(r), ~ BrokerAccept(r)
      PROVE  UNCHANGED <<fate, delivered>>
  BY <1>4 DEF Broker, BrokerNack, Confirm, Connect, Disconnect, ChannelClose,
              fate, delivered
<1>5. ASSUME NEW r \in Replicas, Expire(r) \/ Crash(r)
      PROVE  UNCHANGED <<fate, delivered>>
  BY <1>5 DEF Expire, Crash, fate, delivered
<1> QED
  BY <1>1, <1>2, <1>3, <1>4, <1>5 DEF Next

LEMMA RecordImplements ==
  ASSUME NEW e \in Events, Record(e), IInv
  PROVE  Promise!Record(e)
BY DEF Record, IInv, TypeOK, Row, NewRow, history, Promise!Record

LEMMA BrokerAcceptImplements ==
  ASSUME NEW r \in Replicas, BrokerAccept(r), IInv
  PROVE  \E e \in Events : Promise!Deliver(e)
<1>1. PICK e \in Events : Current(r, e) /\ copies' = [copies EXCEPT ![e] = @ + 1]
  BY DEF BrokerAccept
<1>2. row[e].status # "ABSENT"
  BY <1>1 DEF IInv, LockInv, Current
<1>3. delivered' = delivered \cup {e}
  BY <1>1 DEF delivered, IInv, TypeOK
<1>4. Promise!Deliver(e)
  BY <1>2, <1>3 DEF BrokerAccept, dbVars, delivered, Promise!Deliver
<1> QED
  BY <1>4

\* A commit settles the locked rows whose drafts are final.
LEMMA CommitImplements ==
  ASSUME NEW r \in Replicas, Commit(r), IInv
  PROVE  \E published, failed \in SUBSET Events : Promise!Settle(published, failed)
<1> DEFINE published == {e \in Events : lock[e] = r /\ draft[e].status = "PUBLISHED"}
           failed == {e \in Events : lock[e] = r /\ draft[e].status = "FAILED"}
<1>1. \A e \in published \cup failed : fate[e] = "PENDING"
  BY DEF IInv, LockInv, fate
<1>2. published \subseteq delivered
  BY DEF IInv, HonestInv, Honest, delivered
<1>3. published \cap failed = {}
  OBVIOUS
<1>4. fate' = [e \in Events |-> IF e \in published THEN "PUBLISHED"
                              ELSE IF e \in failed THEN "FAILED"
                              ELSE fate[e]]
  <2>1. \A e \in Events : lock[e] = r =>
          row[e].status = "PENDING" /\ draft[e].status \in {"PENDING", "PUBLISHED", "FAILED"}
    BY DEF IInv, TypeOK, Row, Status, LockInv, HonestInv
  <2>2. \A e \in Events : row'[e] = IF lock[e] = r THEN draft[e] ELSE row[e]
    BY DEF Commit
  <2> QED
    BY <2>1, <2>2 DEF fate
<1>5. UNCHANGED delivered
  BY DEF Commit, history, delivered
<1>6. Promise!Settle(published, failed)
  BY <1>1, <1>2, <1>3, <1>4, <1>5 DEF Promise!Settle, fate, delivered
<1>7. published \in SUBSET Events /\ failed \in SUBSET Events
  OBVIOUS
<1> HIDE DEF published, failed
<1> QED
  BY <1>6, <1>7 DEF Promise!Settle

\* The relay, with its replicas, locks, batches and roll-backs, implements the
\* promise: every behaviour of Outbox is one of AtLeastOnce.
THEOREM Refinement == Spec => KeepsPromise
<1>1. Init => Promise!Init
  BY DEF Init, NoRow, Promise!Init
<1>2. IInv /\ [Next]_vars => [Promise!Next]_(Promise!vars)
  <2> SUFFICES ASSUME IInv, [Next]_vars
               PROVE  Promise!Next \/ UNCHANGED Promise!vars
    OBVIOUS
  <2>1. CASE \E e \in Events : Record(e)
    BY <2>1, RecordImplements DEF Promise!Next
  <2>2. CASE \E r \in Replicas : BrokerAccept(r)
    BY <2>2, BrokerAcceptImplements DEF Promise!Next
  <2>3. CASE \E r \in Replicas : Commit(r)
    BY <2>3, CommitImplements DEF Promise!Next
  <2>4. CASE /\ ~ \E e \in Events : Record(e)
             /\ ~ \E r \in Replicas : BrokerAccept(r) \/ Commit(r)
    BY <2>4, InvisibleSteps DEF Promise!vars, fate, delivered
  <2> QED
    BY <2>1, <2>2, <2>3, <2>4
<1> QED
  BY <1>1, <1>2, Invariance, PTL DEF Spec, KeepsPromise, Promise!Spec
=============================================================================
