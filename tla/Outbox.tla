------------------------------- MODULE Outbox -------------------------------
(***************************************************************************)
(* The transactional outbox and its relay (messaging/outbox.ts and         *)
(* messaging/outbox-relay.ts), run by several gateway replicas against one *)
(* PostgreSQL database and one RabbitMQ broker.                            *)
(*                                                                         *)
(* A row is named by its created_at stamp, so the rows are naturals and    *)
(* "ORDER BY created_at" is <.  Business transactions may commit in any    *)
(* order.  PostgreSQL is modelled by the committed rows, the row locks of  *)
(* FOR UPDATE and the uncommitted version (draft) the lock holder has      *)
(* written.  A message reaches the broker when it is counted in "copies".  *)
(***************************************************************************)
EXTENDS Naturals, FiniteSets

CONSTANTS
  Events,       \* outbox rows, each named by its created_at stamp
  Replicas,     \* gateway processes, each with its own relay and connection
  NoReplica,    \* the owner of an unlocked row
  BatchSize,    \* OUTBOX_BATCH_SIZE
  MaxAttempts,  \* OUTBOX_MAX_ATTEMPTS
  FaultKinds,   \* the kinds of fault the environment may inject
  MaxFaults     \* bound on the number of injected faults

AllFaultKinds ==
  {"crash",        \* a gateway process dies
   "timeout",      \* a batch outlives the 30 s of its transaction
   "database",     \* an UPDATE or the COMMIT fails
   "drop",         \* the connection to the broker closes
   "channel",      \* the broker closes the confirm channel alone
   "nack",         \* the broker refuses a message
   "lostConfirm"}  \* a closing channel swallows an outstanding confirm callback

ASSUME OutboxAssumption ==
  /\ Events \subseteq Nat
  /\ NoReplica \notin Replicas
  /\ BatchSize \in Nat \ {0}
  /\ MaxAttempts \in Nat \ {0}
  /\ FaultKinds \subseteq AllFaultKinds
  /\ MaxFaults \in Nat

VARIABLES
  row,      \* committed outbox rows
  lock,     \* the replica whose open transaction holds the row lock
  draft,    \* what that transaction has written; the committed row otherwise
  pc,       \* where each relay is in tick()/drainBatch()
  txn,      \* the state of each relay's interactive transaction
  todo,     \* claimed rows the loop of drainBatch has not finished with
  again,    \* the batch was full: tick() will drain another one
  channel,  \* RabbitMQ.channel: null, usable, or closed under our feet
  copies,   \* how often the broker accepted each row's message
  errors,   \* history: how often publishing a row ended in an error
  spoilt,   \* history: accepted copies whose PUBLISHED mark was lost
  faults    \* faults injected so far

dbVars == <<row, lock, draft>>
relayVars == <<pc, txn, todo, again>>
history == <<copies, errors, spoilt>>
vars == <<dbVars, relayVars, channel, history, faults>>

Status == {"ABSENT", "PENDING", "PUBLISHED", "FAILED"}
Row == [status: Status, attempts: 0..MaxAttempts, due: BOOLEAN]
NoRow == [status |-> "ABSENT", attempts |-> 0, due |-> FALSE]
NewRow == [status |-> "PENDING", attempts |-> 0, due |-> TRUE]

TypeOK ==
  /\ row \in [Events -> Row]
  /\ draft \in [Events -> Row]
  /\ lock \in [Events -> Replicas \cup {NoReplica}]
  /\ pc \in [Replicas -> {"idle", "claim", "rows", "sent", "accepted",
                          "acked", "errored", "hung"}]
  /\ txn \in [Replicas -> {"none", "open", "expired"}]
  /\ todo \in [Replicas -> SUBSET Events]
  /\ again \in [Replicas -> BOOLEAN]
  /\ channel \in [Replicas -> {"null", "open", "closed"}]
  /\ copies \in [Events -> Nat]
  /\ errors \in [Events -> Nat]
  /\ spoilt \in [Events -> Nat]
  /\ faults \in Nat

Init ==
  /\ row = [e \in Events |-> NoRow]
  /\ lock = [e \in Events |-> NoReplica]
  /\ draft = [e \in Events |-> NoRow]
  /\ pc = [r \in Replicas |-> "idle"]
  /\ txn = [r \in Replicas |-> "none"]
  /\ todo = [r \in Replicas |-> {}]
  /\ again = [r \in Replicas |-> FALSE]
  /\ channel = [r \in Replicas |-> "null"]
  /\ copies = [e \in Events |-> 0]
  /\ errors = [e \in Events |-> 0]
  /\ spoilt = [e \in Events |-> 0]
  /\ faults = 0

Fault(kind) ==
  /\ kind \in FaultKinds
  /\ faults < MaxFaults
  /\ faults' = faults + 1

-----------------------------------------------------------------------------
(* The business side and the clock.                                        *)

\* recordEvent: the row appears when the caller's transaction commits.
Record(e) ==
  /\ row[e].status = "ABSENT"
  /\ row' = [row EXCEPT ![e] = NewRow]
  /\ draft' = [draft EXCEPT ![e] = NewRow]
  /\ UNCHANGED <<lock, relayVars, channel, history, faults>>

\* The back-off of a failed row runs out: available_at <= now().
BecomeDue(e) ==
  /\ row[e].status = "PENDING" /\ ~row[e].due
  /\ row' = [row EXCEPT ![e].due = TRUE]
  /\ draft' = [draft EXCEPT ![e].due = TRUE]
  /\ UNCHANGED <<lock, relayVars, channel, history, faults>>

-----------------------------------------------------------------------------
(* One relay: tick() and the loop of drainBatch().                         *)

\* The timer fires; a relay that is draining or has no channel does nothing.
Tick(r) ==
  /\ pc[r] = "idle"
  /\ channel[r] # "null"
  /\ pc' = [pc EXCEPT ![r] = "claim"]
  /\ UNCHANGED <<dbVars, txn, todo, again, channel, history, faults>>

\* Seeded fault: the SELECT neither locks nor skips locked rows.
ClaimableUnlocked == {e \in Events : row[e].status = "PENDING" /\ row[e].due}

\* Seeded fault: a row whose publish failed once is not looked at again.
ClaimableAtFirst ==
  {e \in Events : row[e].status = "PENDING" /\ row[e].attempts = 0 /\ lock[e] = NoReplica}

\* Rows that SELECT ... FOR UPDATE SKIP LOCKED can see.
Claimable ==
  {e \in Events : row[e].status = "PENDING" /\ row[e].due /\ lock[e] = NoReplica}

\* S is what ORDER BY created_at LIMIT BatchSize keeps of the claimable rows.
IsBatch(S) ==
  /\ Cardinality(S) <= BatchSize
  /\ Cardinality(S) < BatchSize => S = Claimable
  /\ \A e \in S, f \in Claimable \ S : e < f

\* An empty batch ends the tick; any other opens the transaction of the batch.
Claim(r) ==
  /\ pc[r] = "claim"
  /\ \E S \in SUBSET Claimable :
       /\ IsBatch(S)
       /\ IF S = {}
          THEN /\ pc' = [pc EXCEPT ![r] = "idle"]
               /\ UNCHANGED <<lock, txn, todo, again>>
          ELSE /\ pc' = [pc EXCEPT ![r] = "rows"]
               /\ lock' = [e \in Events |-> IF e \in S THEN r ELSE lock[e]]
               /\ txn' = [txn EXCEPT ![r] = "open"]
               /\ todo' = [todo EXCEPT ![r] = S]
               /\ again' = [again EXCEPT ![r] = Cardinality(S) = BatchSize]
  /\ UNCHANGED <<row, draft, channel, history, faults>>

\* The row the loop is at.
Current(r, e) == e \in todo[r] /\ \A f \in todo[r] : e <= f

\* Seeded fault: publish() returns without waiting for the confirm.
SendUnconfirmed(r) ==
  /\ pc[r] = "rows" /\ todo[r] # {}
  /\ channel[r] = "open"
  /\ pc' = [pc EXCEPT ![r] = "acked"]
  /\ UNCHANGED <<dbVars, txn, todo, again, channel, history, faults>>

\* publish() hands the message to the channel and waits for the confirm.
Send(r) ==
  /\ pc[r] = "rows" /\ todo[r] # {}
  /\ channel[r] = "open"
  /\ pc' = [pc EXCEPT ![r] = "sent"]
  /\ UNCHANGED <<dbVars, txn, todo, again, channel, history, faults>>

\* publish() throws: the channel is null, or closed without our noticing.
SendThrows(r) ==
  /\ pc[r] = "rows"
  /\ channel[r] # "open"
  /\ \E e \in Events : Current(r, e) /\ errors' = [errors EXCEPT ![e] = @ + 1]
  /\ pc' = [pc EXCEPT ![r] = "errored"]
  /\ UNCHANGED <<dbVars, txn, todo, again, channel, copies, spoilt, faults>>

BrokerAccept(r) ==
  /\ pc[r] = "sent"
  /\ \E e \in Events :
       /\ Current(r, e)
       /\ copies' = [copies EXCEPT ![e] = @ + 1]
       /\ spoilt' = [spoilt EXCEPT ![e] = @ + IF txn[r] = "expired" THEN 1 ELSE 0]
  /\ pc' = [pc EXCEPT ![r] = "accepted"]
  /\ UNCHANGED <<dbVars, txn, todo, again, channel, errors, faults>>

BrokerNack(r) ==
  /\ pc[r] = "sent" /\ Fault("nack")
  /\ \E e \in Events : Current(r, e) /\ errors' = [errors EXCEPT ![e] = @ + 1]
  /\ pc' = [pc EXCEPT ![r] = "errored"]
  /\ UNCHANGED <<dbVars, txn, todo, again, channel, copies, spoilt>>

Confirm(r) ==
  /\ pc[r] = "accepted"
  /\ pc' = [pc EXCEPT ![r] = "acked"]
  /\ UNCHANGED <<dbVars, txn, todo, again, channel, history, faults>>

Published(d) == [d EXCEPT !.status = "PUBLISHED"]

\* Seeded fault: the cap parks the row one attempt too early.
BackoffEarly(d) ==
  [status |-> IF d.attempts + 2 >= MaxAttempts THEN "FAILED" ELSE "PENDING",
   attempts |-> d.attempts + 1, due |-> FALSE]

\* What the catch block writes: one attempt more, and the cap parks the row.
Backoff(d) ==
  [status |-> IF d.attempts + 1 >= MaxAttempts THEN "FAILED" ELSE "PENDING",
   attempts |-> d.attempts + 1, due |-> FALSE]

\* The update that follows publish(), or the one of the catch block.
Mark(r) ==
  /\ txn[r] = "open"
  /\ \E e \in Events :
       /\ Current(r, e)
       /\ todo' = [todo EXCEPT ![r] = @ \ {e}]
       /\ \/ pc[r] = "acked" /\ draft' = [draft EXCEPT ![e] = Published(@)]
          \/ pc[r] = "errored" /\ draft' = [draft EXCEPT ![e] = Backoff(@)]
  /\ pc' = [pc EXCEPT ![r] = "rows"]
  /\ UNCHANGED <<row, lock, txn, again, channel, history, faults>>

-----------------------------------------------------------------------------
(* How the transaction of a batch ends.                                    *)

Unlocked(r) == [e \in Events |-> IF lock[e] = r THEN NoReplica ELSE lock[e]]

\* The broker holds a copy of e that the open transaction of r marked PUBLISHED,
\* or that r would mark next.
Accounted(r, e) ==
  /\ lock[e] = r
  /\ \/ draft[e].status = "PUBLISHED"
     \/ pc[r] \in {"accepted", "acked"} /\ Current(r, e)

\* The rows' uncommitted versions vanish, and with them those marks.
Rollback(r) ==
  /\ lock' = Unlocked(r)
  /\ draft' = [e \in Events |-> IF lock[e] = r THEN row[e] ELSE draft[e]]
  /\ spoilt' = [e \in Events |-> spoilt[e] + IF Accounted(r, e) THEN 1 ELSE 0]

EndOfBatch(r, next) ==
  /\ pc' = [pc EXCEPT ![r] = next]
  /\ txn' = [txn EXCEPT ![r] = "none"]
  /\ todo' = [todo EXCEPT ![r] = {}]
  /\ again' = [again EXCEPT ![r] = FALSE]

\* COMMIT; a full batch is followed by another one without waiting for a tick.
Commit(r) ==
  /\ pc[r] = "rows" /\ todo[r] = {} /\ txn[r] = "open"
  /\ row' = [e \in Events |-> IF lock[e] = r THEN draft[e] ELSE row[e]]
  /\ lock' = Unlocked(r)
  /\ EndOfBatch(r, IF again[r] THEN "claim" ELSE "idle")
  /\ UNCHANGED <<draft, channel, history, faults>>

\* An update or the COMMIT throws.  After a failed statement, as after the
\* time-out, the transaction takes no other, so the update of the catch block
\* throws as well: $transaction rolls back and rejects, and tick() logs it and
\* stops draining.
Abandon(r) ==
  /\ pc[r] \in {"acked", "errored"} \/ (pc[r] = "rows" /\ todo[r] = {})
  /\ \/ txn[r] = "expired" /\ UNCHANGED faults
     \/ txn[r] = "open" /\ Fault("database")
  /\ Rollback(r)
  /\ EndOfBatch(r, "idle")
  /\ UNCHANGED <<row, channel, copies, errors>>

\* The 30 s of the interactive transaction pass: the database side is rolled
\* back at once, the relay learns of it at its next query.
Expire(r) ==
  /\ txn[r] = "open"
  /\ \/ pc[r] = "hung" /\ UNCHANGED faults
     \/ pc[r] # "hung" /\ Fault("timeout")
  /\ Rollback(r)
  /\ txn' = [txn EXCEPT ![r] = "expired"]
  /\ UNCHANGED <<row, pc, todo, again, channel, copies, errors>>

\* The process dies or is told to stop (nothing waits for a batch in progress)
\* and starts again.
Crash(r) ==
  /\ Fault("crash")
  /\ Rollback(r)
  /\ EndOfBatch(r, "idle")
  /\ channel' = [channel EXCEPT ![r] = "null"]
  /\ UNCHANGED <<row, copies, errors>>

-----------------------------------------------------------------------------
(* The connection to the broker, as far as the relay sees it.              *)

\* establish() succeeds.
Connect(r) ==
  /\ channel[r] = "null"
  /\ channel' = [channel EXCEPT ![r] = "open"]
  /\ UNCHANGED <<dbVars, relayVars, history, faults>>

\* What becomes of a publish that was waiting for its confirm: its callback is
\* called with an error, or (lostConfirm) never called.
InterruptPublish(r) ==
  IF pc[r] \in {"sent", "accepted"}
  THEN /\ \/ /\ pc' = [pc EXCEPT ![r] = "errored"]
             /\ errors' = [e \in Events |->
                             errors[e] + IF Current(r, e) THEN 1 ELSE 0]
          \/ /\ "lostConfirm" \in FaultKinds
             /\ pc' = [pc EXCEPT ![r] = "hung"]
             /\ UNCHANGED errors
       /\ spoilt' = [e \in Events |-> spoilt[e] +
            IF pc[r] = "accepted" /\ lock[e] = r /\ Current(r, e) THEN 1 ELSE 0]
  ELSE UNCHANGED <<pc, errors, spoilt>>

\* The connection closes (handleClose clears the channel and reconnects later).
Disconnect(r) ==
  /\ channel[r] # "null" /\ Fault("drop")
  /\ channel' = [channel EXCEPT ![r] = "null"]
  /\ InterruptPublish(r)
  /\ UNCHANGED <<dbVars, txn, todo, again, copies>>

\* The channel alone closes: its error is logged, isReady() stays true.
ChannelClose(r) ==
  /\ channel[r] = "open" /\ Fault("channel")
  /\ channel' = [channel EXCEPT ![r] = "closed"]
  /\ InterruptPublish(r)
  /\ UNCHANGED <<dbVars, txn, todo, again, copies>>

-----------------------------------------------------------------------------
Relay(r) ==
  \/ Tick(r) \/ Claim(r) \/ Send(r) \/ SendThrows(r)
  \/ Mark(r) \/ Commit(r) \/ Abandon(r)

Broker(r) ==
  \/ BrokerAccept(r) \/ BrokerNack(r) \/ Confirm(r)
  \/ Connect(r) \/ Disconnect(r) \/ ChannelClose(r)

Next ==
  \/ \E e \in Events : Record(e) \/ BecomeDue(e)
  \/ \E r \in Replicas : Relay(r) \/ Broker(r) \/ Expire(r) \/ Crash(r)

Spec == Init /\ [][Next]_vars

(***************************************************************************)
(* Fairness.  setInterval keeps firing and an async function that can go   *)
(* on does; back-offs run out; the broker answers what it received and     *)
(* accepts connections again.  Nobody is obliged to record an event, and   *)
(* no fault is.                                                            *)
(***************************************************************************)
Fairness ==
  /\ \A e \in Events : WF_vars(BecomeDue(e))
  /\ \A r \in Replicas :
       /\ WF_vars(Relay(r))
       /\ WF_vars(BrokerAccept(r) \/ Confirm(r))
       /\ WF_vars(Connect(r))
       /\ WF_vars(pc[r] = "hung" /\ Expire(r))

FairSpec == Spec /\ Fairness

-----------------------------------------------------------------------------
(* Properties.                                                             *)

\* A row is PUBLISHED only after the broker has accepted its message: the
\* publisher confirm is awaited before the update (outbox-relay.ts:80-84).
PublishedReachedBroker ==
  \A e \in Events : row[e].status = "PUBLISHED" => copies[e] > 0

\* A row is parked as FAILED only after MaxAttempts publishes of it have failed,
\* however often a roll-back made the relay forget some of them.
ParkedOnlyAfterMaxErrors ==
  \A e \in Events : row[e].status = "FAILED" => errors[e] >= MaxAttempts

\* Replicas do not double-publish: SKIP LOCKED keeps two relays off the same
\* row, so every copy beyond the first is owed to an accepted copy whose
\* PUBLISHED mark was lost (a roll-back, a crash, a swallowed confirm).
ExtraCopiesHaveACause ==
  \A e \in Events : copies[e] <= 1 + spoilt[e]

Promise == INSTANCE AtLeastOnce WITH
  fate <- [e \in Events |-> row[e].status],
  delivered <- {e \in Events : copies[e] > 0}

\* The relay implements the promise of AtLeastOnce: no event reaches the broker
\* before it is committed, none is PUBLISHED undelivered, no fate is revised.
KeepsPromise == Promise!Spec

\* Every committed event is eventually published or parked: no row is left
\* behind by a lock, a lost batch or a relay that stopped draining.
EverySettles ==
  \A e \in Events :
    row[e].status = "PENDING" ~> row[e].status \in {"PUBLISHED", "FAILED"}

\* The same while some relay still drains: locks of dead or hung relays, back-offs
\* and lost batches hold no row back for good, only relays that all wait for a
\* swallowed confirm do.
SettlesWhileARelayDrains ==
  \A e \in Events :
    row[e].status = "PENDING"
      ~> (row[e].status \in {"PUBLISHED", "FAILED"} \/ \A r \in Replicas : pc[r] = "hung")
=============================================================================
