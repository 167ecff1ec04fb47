----------------------------- MODULE Idempotency -----------------------------
(***************************************************************************)
(* One Idempotency-Key (http/middleware/idempotency.ts) in front of the    *)
(* handlers that mark, identify and enroll a face: the lock and the cached *)
(* response in Redis, and the requests of a client that retries, each on a *)
(* replica of its own.  The commands that store or remove the key are sent *)
(* without waiting.  ioredis sends a command again whose reply was lost    *)
(* with the connection (redis/redis.ts), applied or not.                   *)
(***************************************************************************)
EXTENDS Naturals

CONSTANTS
  Requests,   \* attempts with the key; an attempt stands for its response, too
  Nobody,
  MaxTerms,   \* bound on how often the key expires
  MaxFaults   \* bound on faults

ASSUME IdempotencyAssumption ==
  /\ Nobody \notin Requests
  /\ {MaxTerms, MaxFaults} \subseteq Nat

VARIABLES
  cell,     \* the key: absent, pending or done, and whose
  term,     \* how often the key has expired
  pc,       \* where each request is
  lockedIn, \* the term in which a request got the lock; 0 for never
  answer,   \* what the client was told
  replayOf, \* the request whose response was replayed
  sent,     \* the command a request has sent without waiting for the reply
  again,    \* history: requests whose stored or removed key may be sent twice
  struck,   \* history: requests hit by a fault of their own
  faults    \* faults injected so far

client == <<answer, replayOf>>
history == <<again, struck>>
vars == <<cell, term, pc, lockedIn, client, sent, history, faults>>

Absent == [is |-> "absent", of |-> Nobody]
Pending(r) == [is |-> "pending", of |-> r]
Done(r) == [is |-> "done", of |-> r]

TypeOK ==
  /\ cell \in [is: {"absent", "pending", "done"}, of: Requests \cup {Nobody}]
  /\ term \in 1..(MaxTerms + 1)
  /\ pc \in [Requests -> {"new", "get", "lock", "handler", "end"}]
  /\ lockedIn \in [Requests -> 0..(MaxTerms + 1)]
  /\ answer \in [Requests -> {"none", "ok", "failed", "replayed", "conflict", "error"}]
  /\ replayOf \in [Requests -> Requests \cup {Nobody}]
  /\ sent \in [Requests -> {"none", "set", "del"}]
  /\ {again, struck} \subseteq SUBSET Requests
  /\ faults \in 0..MaxFaults

Init ==
  /\ cell = Absent /\ term = 1
  /\ pc = [r \in Requests |-> "new"]
  /\ lockedIn = [r \in Requests |-> 0]
  /\ answer = [r \in Requests |-> "none"]
  /\ replayOf = [r \in Requests |-> Nobody]
  /\ sent = [r \in Requests |-> "none"]
  /\ again = {} /\ struck = {}
  /\ faults = 0

At(r, l) == pc[r] = l
Goto(r, l) == pc' = [pc EXCEPT ![r] = l]
Answer(r, a) == Goto(r, "end") /\ answer' = [answer EXCEPT ![r] = a]
Strike(r) ==
  /\ faults < MaxFaults /\ faults' = faults + 1
  /\ struck' = struck \cup {r}

-----------------------------------------------------------------------------
(* The middleware.                                                         *)

\* The client sends the request, again or for the first time.
Begin(r) ==
  /\ At(r, "new")
  /\ Goto(r, "get")
  /\ UNCHANGED <<cell, term, lockedIn, client, sent, history, faults>>

\* Redis is not ready: the request proceeds without the guarantee.
Skip(r) ==
  /\ At(r, "new") /\ Strike(r)
  /\ Goto(r, "handler")
  /\ UNCHANGED <<cell, term, lockedIn, client, sent, again>>

Get(r) ==
  /\ At(r, "get")
  /\ \/ cell.is = "absent" /\ Goto(r, "lock") /\ UNCHANGED client
     \/ cell.is = "pending" /\ Answer(r, "conflict") /\ UNCHANGED replayOf
     \/ /\ cell.is = "done"
        /\ Answer(r, "replayed")
        /\ replayOf' = [replayOf EXCEPT ![r] = cell.of]
  /\ UNCHANGED <<cell, term, lockedIn, sent, history, faults>>

\* Seeded fault: the lock is taken without NX.
LockAnyway(r) ==
  /\ At(r, "lock")
  /\ Goto(r, "handler")
  /\ cell' = Pending(r) /\ lockedIn' = [lockedIn EXCEPT ![r] = term]
  /\ UNCHANGED <<term, client, sent, history, faults>>

\* SET NX.
Lock(r) ==
  /\ At(r, "lock")
  /\ \/ /\ cell = Absent
        /\ cell' = Pending(r) /\ lockedIn' = [lockedIn EXCEPT ![r] = term]
        /\ Goto(r, "handler") /\ UNCHANGED answer
     \/ /\ cell # Absent
        /\ Answer(r, "conflict")
        /\ UNCHANGED <<cell, lockedIn>>
  /\ UNCHANGED <<term, replayOf, sent, history, faults>>

\* SET NX takes the lock, its reply is lost, and the client sends it again.
LockReplyLost(r) ==
  /\ At(r, "lock") /\ cell = Absent /\ Strike(r)
  /\ cell' = Pending(r)
  /\ UNCHANGED <<term, pc, lockedIn, client, sent, again>>

\* The client gives up on a command that was waited for: 500.
CommandFails(r) ==
  /\ pc[r] \in {"get", "lock"} /\ Strike(r)
  /\ Answer(r, "error")
  /\ UNCHANGED <<cell, term, lockedIn, replayOf, sent, again>>

-----------------------------------------------------------------------------
(* The handler, and cacheOnSend around its answer.                         *)

\* Seeded faults: a failure leaves the key alone; it is cached like a success.
SendsOnSuccess(r, ok) ==
  sent' = [sent EXCEPT ![r] = IF lockedIn[r] # 0 /\ ok THEN "set" ELSE @]
SendsAnyAnswer(r, ok) ==
  sent' = [sent EXCEPT ![r] = IF lockedIn[r] # 0 THEN "set" ELSE @]

Sends(r, ok) ==
  sent' = [sent EXCEPT ![r] = IF lockedIn[r] = 0 THEN @ ELSE IF ok THEN "set" ELSE "del"]

\* The handler answers; the error handler does it for one that throws.
Finish(r) ==
  /\ At(r, "handler")
  /\ \E ok \in BOOLEAN : Answer(r, IF ok THEN "ok" ELSE "failed") /\ Sends(r, ok)
  /\ UNCHANGED <<cell, term, lockedIn, replayOf, history, faults>>

\* The handler never answers, or its replica dies; whatever it has sent by then
\* is lost.
Die(r) ==
  /\ pc[r] \notin {"new", "end"} \/ sent[r] # "none"
  /\ Strike(r)
  /\ Goto(r, "end")
  /\ sent' = [sent EXCEPT ![r] = "none"]
  /\ UNCHANGED <<cell, term, lockedIn, client, again>>

-----------------------------------------------------------------------------
(* Redis.                                                                  *)

Applied(r) == cell' = IF sent[r] = "set" THEN Done(r) ELSE Absent

Apply(r) ==
  /\ sent[r] # "none"
  /\ Applied(r)
  /\ sent' = [sent EXCEPT ![r] = "none"]
  /\ UNCHANGED <<term, pc, lockedIn, client, history, faults>>

\* It is applied, its reply is lost, and it will be applied again.
ApplyReplyLost(r) ==
  /\ sent[r] # "none" /\ Strike(r)
  /\ Applied(r)
  /\ again' = again \cup {r}
  /\ UNCHANGED <<term, pc, lockedIn, client, sent>>

\* It fails, which is swallowed.
ApplyFails(r) ==
  /\ sent[r] # "none" /\ Strike(r)
  /\ sent' = [sent EXCEPT ![r] = "none"]
  /\ UNCHANGED <<cell, term, pc, lockedIn, client, again>>

\* IDEMPOTENCY_TTL_SECONDS run out, be it under a running request.
Expire ==
  /\ cell # Absent /\ term <= MaxTerms
  /\ cell' = Absent /\ term' = term + 1
  /\ UNCHANGED <<pc, lockedIn, client, sent, history, faults>>

-----------------------------------------------------------------------------
Middleware(r) == Get(r) \/ Lock(r) \/ Finish(r)
Faults(r) ==
  Skip(r) \/ LockReplyLost(r) \/ CommandFails(r) \/ Die(r) \/ ApplyReplyLost(r) \/ ApplyFails(r)
Next == Expire \/ \E r \in Requests : Begin(r) \/ Middleware(r) \/ Apply(r) \/ Faults(r)

Spec == Init /\ [][Next]_vars

\* A request in the middleware gets on and a sent command is applied; no client
\* has to retry, and the time to live is long.
FairSpec ==
  Spec /\ \A r \in Requests : WF_vars(Middleware(r)) /\ WF_vars(Apply(r))

-----------------------------------------------------------------------------
(* Properties.                                                             *)

\* "distributed lock prevents double-scan mutations": two requests that took the
\* lock in one life of the key do not both succeed, unless the removal sent by a
\* third one that failed, sent twice or delayed from an earlier life of the key,
\* came between them (idempotency.ts:10-14, :29-32).
OneSuccessPerTerm ==
  \A r, q \in Requests :
    (r # q /\ answer[r] = "ok" /\ answer[q] = "ok" /\ lockedIn[r] = lockedIn[q] /\ lockedIn[r] # 0)
      => \E o \in Requests :
           /\ answer[o] = "failed"
           /\ o \in again \/ lockedIn[o] \in 1..(lockedIn[r] - 1)

\* A pending key that nobody works on any more belongs to a request with a fault
\* of its own: it died, it lost the reply to SET NX, or its answer could not be
\* stored.  Only these make "already being processed" untrue (idempotency.ts:57,
\* :66).
OrphanHasACause ==
  cell.is = "pending" =>
    \/ At(cell.of, "handler")
    \/ sent[cell.of] # "none"
    \/ cell.of \in struck

\* "Don't cache failures - let the client retry" (idempotency.ts:31): the key of a
\* failed request comes free, unless removing it fails.
FailureFreesTheKey ==
  \A r \in Requests : answer[r] = "failed" ~> (cell.of # r \/ r \in struck)
=============================================================================
