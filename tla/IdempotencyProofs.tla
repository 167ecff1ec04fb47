------------------------- MODULE IdempotencyProofs -------------------------
(***************************************************************************)
(* Invariance proofs for Idempotency, for every set of requests, every     *)
(* number of lives of the key and every number of faults.                  *)
(***************************************************************************)
EXTENDS Idempotency, TLAPS

-----------------------------------------------------------------------------
(* The inductive invariant.                                                *)

\* What a request has told its client, and what it has sent to Redis, says where
\* it is and that it had the lock.
RequestInv ==
  \A r \in Requests :
    /\ lockedIn[r] <= term
    /\ answer[r] # "none" => At(r, "end")
    /\ pc[r] \in {"new", "get", "lock"} => lockedIn[r] = 0 /\ sent[r] = "none"
    /\ At(r, "handler") => sent[r] = "none"
    /\ sent[r] # "none" => lockedIn[r] # 0
    /\ sent[r] = "set" => answer[r] = "ok"
    /\ sent[r] = "del" => answer[r] = "failed"

\* A pending key is that of a request which will settle it, or was struck.
PendingInv ==
  cell.is = "pending" =>
    \/ cell.of \in struck
    \/ /\ cell.of \in Requests /\ lockedIn[cell.of] # 0
       /\ At(cell.of, "handler") \/ sent[cell.of] # "none"

\* A removal that may free a lock taken in life t of the key by another request.
Stray(t) ==
  \E o \in Requests :
    /\ answer[o] = "failed"
    /\ o \in again \/ lockedIn[o] \in 1..(t - 1)

\* r took the lock in life t, and its own removal has not been applied.
Holds(r, t) ==
  /\ lockedIn[r] = t
  /\ ~(answer[r] = "failed" /\ sent[r] = "none")

\* Without stray removals one request at a time holds the lock, and while one
\* does the key is there.
LockInv ==
  /\ \A r, q \in Requests, t \in 1..term :
       Holds(r, t) /\ Holds(q, t) => r = q \/ Stray(t)
  /\ \A r \in Requests : Holds(r, term) => cell # Absent \/ Stray(term)

IInv == TypeOK /\ RequestInv /\ PendingInv /\ LockInv

-----------------------------------------------------------------------------
(* One lemma per action, one step per conjunct of the invariant.           *)

LEMMA BeginStep ==
  ASSUME IInv, NEW r \in Requests, Begin(r)
  PROVE  IInv'
<1> USE IdempotencyAssumption
    DEF IInv, client, history, At, Absent, Pending, Done, Begin, Goto
<1>1. TypeOK'
  BY DEF TypeOK
<1>2. RequestInv'
  BY DEF TypeOK, RequestInv
<1>3. PendingInv'
  BY DEF TypeOK, RequestInv, PendingInv
<1>4. LockInv'
  BY DEF TypeOK, RequestInv, LockInv, Holds, Stray
<1> QED
  BY <1>1, <1>2, <1>3, <1>4

LEMMA SkipStep ==
  ASSUME IInv, NEW r \in Requests, Skip(r)
  PROVE  IInv'
<1> USE IdempotencyAssumption
    DEF IInv, client, history, At, Absent, Pending, Done, Skip, Strike, Goto
<1>1. TypeOK'
  BY DEF TypeOK
<1>2. RequestInv'
  BY DEF TypeOK, RequestInv
<1>3. PendingInv'
  BY DEF TypeOK, RequestInv, PendingInv
<1>4. LockInv'
  BY DEF TypeOK, RequestInv, LockInv, Holds, Stray
<1> QED
  BY <1>1, <1>2, <1>3, <1>4

LEMMA GetStep ==
  ASSUME IInv, NEW r \in Requests, Get(r)
  PROVE  IInv'
<1> USE IdempotencyAssumption
    DEF IInv, client, history, At, Absent, Pending, Done, Get, Answer, Goto
<1>1. TypeOK'
  BY DEF TypeOK
<1>2. RequestInv'
  BY DEF TypeOK, RequestInv
<1>3. PendingInv'
  BY DEF TypeOK, RequestInv, PendingInv
<1>4. LockInv'
  BY DEF TypeOK, RequestInv, LockInv, Holds, Stray
<1> QED
  BY <1>1, <1>2, <1>3, <1>4

LEMMA LockStep ==
  ASSUME IInv, NEW r \in Requests, Lock(r)
  PROVE  IInv'
<1> USE IdempotencyAssumption
    DEF IInv, client, history, At, Absent, Pending, Done, Lock, Answer, Goto
<1>1. TypeOK'
  BY DEF TypeOK
<1>2. RequestInv'
  BY DEF TypeOK, RequestInv
<1>3. PendingInv'
  BY DEF TypeOK, RequestInv, PendingInv
<1>4. LockInv'
  BY SMTT(30) DEF TypeOK, RequestInv, LockInv, Holds, Stray
<1> QED
  BY <1>1, <1>2, <1>3, <1>4

LEMMA LockReplyLostStep ==
  ASSUME IInv, NEW r \in Requests, LockReplyLost(r)
  PROVE  IInv'
<1> USE IdempotencyAssumption
    DEF IInv, client, history, At, Absent, Pending, Done, LockReplyLost, Strike
<1>1. TypeOK'
  BY DEF TypeOK
<1>2. RequestInv'
  BY DEF TypeOK, RequestInv
<1>3. PendingInv'
  BY DEF TypeOK, RequestInv, PendingInv
<1>4. LockInv'
  BY DEF TypeOK, RequestInv, LockInv, Holds, Stray
<1> QED
  BY <1>1, <1>2, <1>3, <1>4

LEMMA CommandFailsStep ==
  ASSUME IInv, NEW r \in Requests, CommandFails(r)
  PROVE  IInv'
<1> USE IdempotencyAssumption
    DEF IInv, client, history, At, Absent, Pending, Done, CommandFails, Strike, Answer, Goto
<1>1. TypeOK'
  BY DEF TypeOK
<1>2. RequestInv'
  BY DEF TypeOK, RequestInv
<1>3. PendingInv'
  BY DEF TypeOK, RequestInv, PendingInv
<1>4. LockInv'
  BY DEF TypeOK, RequestInv, LockInv, Holds, Stray
<1> QED
  BY <1>1, <1>2, <1>3, <1>4

LEMMA FinishStep ==
  ASSUME IInv, NEW r \in Requests, Finish(r)
  PROVE  IInv'
<1> USE IdempotencyAssumption
    DEF IInv, client, history, At, Absent, Pending, Done, Finish, Answer, Goto, Sends
<1>1. TypeOK'
  BY DEF TypeOK
<1>2. RequestInv'
  BY DEF TypeOK, RequestInv
<1>3. PendingInv'
  BY DEF TypeOK, RequestInv, PendingInv
<1>4. LockInv'
  BY DEF TypeOK, RequestInv, LockInv, Holds, Stray
<1> QED
  BY <1>1, <1>2, <1>3, <1>4

LEMMA DieStep ==
  ASSUME IInv, NEW r \in Requests, Die(r)
  PROVE  IInv'
<1> USE IdempotencyAssumption
    DEF IInv, client, history, At, Absent, Pending, Done, Die, Strike, Goto
<1>1. TypeOK'
  BY DEF TypeOK
<1>2. RequestInv'
  BY DEF TypeOK, RequestInv
<1>3. PendingInv'
  BY DEF TypeOK, RequestInv, PendingInv
<1>4. LockInv'
  BY DEF TypeOK, RequestInv, LockInv, Holds, Stray
<1> QED
  BY <1>1, <1>2, <1>3, <1>4

LEMMA ApplyStep ==
  ASSUME IInv, NEW r \in Requests, Apply(r)
  PROVE  IInv'
<1> USE IdempotencyAssumption
    DEF IInv, client, history, At, Absent, Pending, Done, Apply, Applied
<1>1. TypeOK'
  BY DEF TypeOK
<1>2. RequestInv'
  BY DEF TypeOK, RequestInv
<1>3. PendingInv'
  BY DEF TypeOK, RequestInv, PendingInv
<1>4. LockInv'
  BY DEF TypeOK, RequestInv, LockInv, Holds, Stray
<1> QED
  BY <1>1, <1>2, <1>3, <1>4

LEMMA ApplyReplyLostStep ==
  ASSUME IInv, NEW r \in Requests, ApplyReplyLost(r)
  PROVE  IInv'
<1> USE IdempotencyAssumption
    DEF IInv, client, history, At, Absent, Pending, Done, ApplyReplyLost, Strike, Applied
<1>1. TypeOK'
  BY DEF TypeOK
<1>2. RequestInv'
  BY DEF TypeOK, RequestInv
<1>3. PendingInv'
  BY DEF TypeOK, RequestInv, PendingInv
<1>4. LockInv'
  BY DEF TypeOK, RequestInv, LockInv, Holds, Stray
<1> QED
  BY <1>1, <1>2, <1>3, <1>4

LEMMA ApplyFailsStep ==
  ASSUME IInv, NEW r \in Requests, ApplyFails(r)
  PROVE  IInv'
<1> USE IdempotencyAssumption
    DEF IInv, client, history, At, Absent, Pending, Done, ApplyFails, Strike
<1>1. TypeOK'
  BY DEF TypeOK
<1>2. RequestInv'
  BY DEF TypeOK, RequestInv
<1>3. PendingInv'
  BY DEF TypeOK, RequestInv, PendingInv
<1>4. LockInv'
  BY DEF TypeOK, RequestInv, LockInv, Holds, Stray
<1> QED
  BY <1>1, <1>2, <1>3, <1>4

LEMMA ExpireStep ==
  ASSUME IInv, Expire
  PROVE  IInv'
<1> USE IdempotencyAssumption
    DEF IInv, client, history, At, Absent, Pending, Done, Expire
<1>1. TypeOK'
  BY DEF TypeOK
<1>2. RequestInv'
  BY DEF TypeOK, RequestInv
<1>3. PendingInv'
  BY DEF TypeOK, RequestInv, PendingInv
<1>4. LockInv'
  BY DEF TypeOK, RequestInv, LockInv, Holds, Stray
<1> QED
  BY <1>1, <1>2, <1>3, <1>4

-----------------------------------------------------------------------------
(* The theorems.                                                           *)

LEMMA InitStep == Init => IInv
<1> SUFFICES ASSUME Init PROVE IInv
  OBVIOUS
<1> USE IdempotencyAssumption DEF Init, Absent
<1>1. TypeOK
  BY DEF TypeOK
<1>2. RequestInv /\ PendingInv
  BY DEF RequestInv, PendingInv, At
<1>3. LockInv
  BY DEF LockInv, Holds, Stray
<1> QED
  BY <1>1, <1>2, <1>3 DEF IInv

LEMMA NextStep == IInv /\ [Next]_vars => IInv'
<1> SUFFICES ASSUME IInv, [Next]_vars PROVE IInv'
  OBVIOUS
<1>1. CASE UNCHANGED vars
  BY <1>1 DEF vars, client, history, IInv, TypeOK, RequestInv, PendingInv, LockInv, Holds,
              Stray, At, Absent
<1>2. CASE Expire
  BY <1>2, ExpireStep
<1>3. ASSUME NEW r \in Requests, Begin(r) \/ Middleware(r) \/ Apply(r)
      PROVE  IInv'
  BY <1>3, BeginStep, GetStep, LockStep, FinishStep, ApplyStep DEF Middleware
<1>4. ASSUME NEW r \in Requests, Faults(r)
      PROVE  IInv'
  BY <1>4, SkipStep, LockReplyLostStep, CommandFailsStep, DieStep, ApplyReplyLostStep,
     ApplyFailsStep DEF Faults
<1> QED
  BY <1>1, <1>2, <1>3, <1>4 DEF Next

\* The inductive invariant holds in every reachable state.
THEOREM Invariance == Spec => []IInv
BY InitStep, NextStep, PTL DEF Spec

\* Type correctness: the key, the commands sent and the answers keep their types.
THEOREM TypeCorrect == Spec => []TypeOK
<1>1. IInv => TypeOK
  BY DEF IInv
<1> QED
  BY <1>1, Invariance, PTL

\* "distributed lock prevents double-scan mutations" but for a stray removal: with
\* any number of requests, lives of the key and faults, two that took the lock in
\* one life of the key both succeed only if such a removal came between them
\* (idempotency.ts:10-14, :29-32).
THEOREM OneMutation == Spec => []OneSuccessPerTerm
<1>1. ASSUME IInv PROVE OneSuccessPerTerm
  <2> SUFFICES ASSUME NEW r \in Requests, NEW q \in Requests,
                      r # q, answer[r] = "ok", answer[q] = "ok",
                      lockedIn[r] = lockedIn[q], lockedIn[r] # 0
               PROVE  Stray(lockedIn[r])
    BY DEF OneSuccessPerTerm, Stray
  <2>1. lockedIn[r] \in 1..term
    BY <1>1, IdempotencyAssumption DEF IInv, TypeOK, RequestInv
  <2>2. Holds(r, lockedIn[r]) /\ Holds(q, lockedIn[r])
    BY DEF Holds
  <2> QED
    BY <1>1, <2>1, <2>2 DEF IInv, LockInv
<1> QED
  BY <1>1, Invariance, PTL

\* "already being processed" is untrue of no request but one that was hit by a fault
\* of its own (idempotency.ts:57, :66).
THEOREM OrphansAreExplained == Spec => []OrphanHasACause
<1>1. IInv => OrphanHasACause
  BY DEF IInv, PendingInv, OrphanHasACause
<1> QED
  BY <1>1, Invariance, PTL
=============================================================================
