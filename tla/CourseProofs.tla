---------------------------- MODULE CourseProofs ----------------------------
(***************************************************************************)
(* Invariance proofs for what happens to the roster of a course: BulkImport, *)
(* for every number of rows, every chunk size, every set of consumers and  *)
(* every number of faults; ImportPanel, for every number of imports, polls, *)
(* frames and faults; Roster, for every set of students, numbers and       *)
(* requests and every number of reloads and faults.                        *)
(***************************************************************************)
EXTENDS BulkImport, ImportPanel, Roster, FiniteSets, FiniteSetTheorems, TLAPS

-----------------------------------------------------------------------------
(* BulkImport: the inductive invariant.                                    *)

\* A handler's loop is within the roster, and its open channel owes an ack.
HandlerInv ==
  \A c \in Consumers :
    /\ pc[c] \in {"idle", "read", "start"} => report[c] = <<>>
    /\ pc[c] = "row" => Len(report[c]) < RowCount
    /\ pc[c] = "complete" => Len(report[c]) = RowCount
    /\ pc[c] # "idle" /\ open[c] => unacked[c]

\* Every message, waiting or unacked, is one that was published.
Holders == {c \in Consumers : unacked[c]}
QueueInv == IsFiniteSet(Holders) /\ queue + Cardinality(Holders) <= copies

\* A report, of a handler or of the job, claims no row that is not linked.
Honest(r) == \A i \in 1..Len(r) : r[i] = "linked" => i \in linked
RowsInv ==
  /\ \A c \in Consumers : Honest(report[c])
  /\ Honest(job.report)
  /\ job.status = "COMPLETED" => Len(job.report) = RowCount

\* Each copy but one is charged to a fault; where something went wrong, another
\* fault is to blame.
Spent == MaxFaults - left
Blamed == Spent > 0 /\ copies <= Spent
FaultInv ==
  /\ copies <= Spent + 1
  /\ job.status = "NONE" => copies = 0
  /\ \A c \in Consumers :
       /\ ~open[c] => Blamed
       /\ pc[c] = "fail" => Blamed \/ job.status = "GONE"
  /\ job.status = "FAILED" => Blamed

\* An unfinished job has a message waiting, or a handler that will finish it: one
\* that has nothing left to do but announce and ack does not count.
Working(c) == pc[c] \notin {"idle", "announce", "ack", "ackFailed"}
WorkInv ==
  copies > 0 /\ ~abandoned /\ job.status \notin Finished \cup {"GONE"}
    => queue > 0 \/ \E c \in Consumers : Working(c)

IInv == TypeOK /\ HandlerInv /\ QueueInv /\ RowsInv /\ FaultInv /\ WorkInv

-----------------------------------------------------------------------------
(* One lemma per action, one step per conjunct of the invariant.           *)

\* No channel takes or acks a message.
LEMMA QueueStays ==
  ASSUME QueueInv, UNCHANGED <<copies, queue, unacked>>
  PROVE  QueueInv'
BY DEF QueueInv, Holders

\* A consumer holds one message less.
LEMMA Released ==
  ASSUME TypeOK, QueueInv, NEW c \in Consumers,
         unacked' = [unacked EXCEPT ![c] = FALSE]
  PROVE  /\ IsFiniteSet(Holders')
         /\ Cardinality(Holders') = Cardinality(Holders) - (IF unacked[c] THEN 1 ELSE 0)
         /\ Cardinality(Holders') \in Nat
<1>1. Holders' = Holders \ {c}
  BY DEF TypeOK, Holders
<1>2. c \in Holders <=> unacked[c]
  BY DEF Holders
<1>3. Cardinality(Holders') \in Nat /\ IsFiniteSet(Holders')
  BY <1>1, FS_RemoveElement, FS_CardinalityType DEF QueueInv
<1> QED
  BY <1>1, <1>2, <1>3, FS_RemoveElement DEF QueueInv

\* What a closing channel has not acked goes back.
LEMMA Requeued ==
  ASSUME TypeOK, QueueInv, NEW c \in Consumers, CloseChannel(c)
  PROVE  QueueInv' /\ queue' \in Nat /\ queue' <= copies
<1>1. /\ IsFiniteSet(Holders') /\ Cardinality(Holders') \in Nat
      /\ Cardinality(Holders') = Cardinality(Holders) - (IF unacked[c] THEN 1 ELSE 0)
  BY Released DEF CloseChannel
<1>2. Cardinality(Holders) \in Nat
  BY FS_CardinalityType DEF QueueInv
<1> QED
  BY <1>1, <1>2 DEF CloseChannel, TypeOK, QueueInv

LEMMA CreateJobStep ==
  ASSUME IInv, CreateJob
  PROVE  IInv'
<1> USE BulkImportAssumption DEF IInv, broker
<1>1. TypeOK'
  BY DEF CreateJob, TypeOK
<1>2. HandlerInv'
  BY DEF CreateJob, HandlerInv
<1>3. QueueInv'
  BY QueueStays DEF CreateJob
<1>4. RowsInv'
  BY DEF CreateJob, RowsInv, Honest
<1>5. FaultInv'
  BY DEF CreateJob, FaultInv, Blamed, Spent
<1>6. WorkInv'
  BY DEF CreateJob, WorkInv, FaultInv
<1> QED
  BY <1>1, <1>2, <1>3, <1>4, <1>5, <1>6

LEMMA PublishStep ==
  ASSUME IInv, Publish
  PROVE  IInv'
<1> USE BulkImportAssumption DEF IInv, broker
<1>1. TypeOK'
  BY DEF Publish, Fault, TypeOK
<1>2. HandlerInv'
  BY DEF Publish, HandlerInv
<1>3. QueueInv'
  <2>1. Holders' = Holders /\ Cardinality(Holders) \in Nat
    BY FS_CardinalityType DEF Publish, Holders, QueueInv
  <2> QED
    BY <2>1 DEF Publish, TypeOK, QueueInv
<1>4. RowsInv'
  BY DEF Publish, RowsInv, Honest
<1>5. FaultInv'
  BY DEF Publish, Fault, TypeOK, FaultInv, Blamed, Spent
<1>6. WorkInv'
  BY DEF Publish, TypeOK, WorkInv
<1> QED
  BY <1>1, <1>2, <1>3, <1>4, <1>5, <1>6

LEMMA DeliverStep ==
  ASSUME IInv, NEW c \in Consumers, Deliver(c)
  PROVE  IInv'
<1> USE BulkImportAssumption DEF IInv, broker
<1>1. TypeOK'
  BY DEF Deliver, Go, TypeOK
<1>2. HandlerInv'
  BY DEF Deliver, Go, TypeOK, HandlerInv
<1>3. QueueInv'
  <2>1. Holders' = Holders \cup {c} /\ c \notin Holders
    BY DEF Deliver, TypeOK, Holders
  <2>2. /\ IsFiniteSet(Holders') /\ Cardinality(Holders) \in Nat
        /\ Cardinality(Holders') = Cardinality(Holders) + 1
    BY <2>1, FS_AddElement, FS_CardinalityType DEF QueueInv
  <2> QED
    BY <2>2 DEF Deliver, TypeOK, QueueInv
<1>4. RowsInv'
  BY DEF Deliver, RowsInv, Honest
<1>5. FaultInv'
  BY DEF Deliver, Go, FaultInv, Blamed, Spent
<1>6. WorkInv'
  BY DEF Deliver, Go, TypeOK, WorkInv, Working
<1> QED
  BY <1>1, <1>2, <1>3, <1>4, <1>5, <1>6

LEMMA DeleteCourseStep ==
  ASSUME IInv, DeleteCourse
  PROVE  IInv'
<1> USE BulkImportAssumption DEF IInv, broker
<1>1. TypeOK'
  BY DEF DeleteCourse, TypeOK
<1>2. HandlerInv'
  BY DEF DeleteCourse, HandlerInv
<1>3. QueueInv'
  BY QueueStays DEF DeleteCourse
<1>4. RowsInv'
  BY DEF DeleteCourse, RowsInv, Honest
<1>5. FaultInv'
  BY DEF DeleteCourse, FaultInv, Blamed, Spent
<1>6. WorkInv'
  BY DEF DeleteCourse, WorkInv
<1> QED
  BY <1>1, <1>2, <1>3, <1>4, <1>5, <1>6

LEMMA DbFaultStep ==
  ASSUME IInv, NEW c \in Consumers, DbFault(c)
  PROVE  IInv'
<1> USE BulkImportAssumption DEF IInv, broker
<1>1. TypeOK'
  BY DEF DbFault, Fault, Go, TypeOK
<1>2. HandlerInv'
  BY DEF DbFault, Go, HandlerInv
<1>3. QueueInv'
  BY QueueStays DEF DbFault
<1>4. RowsInv'
  BY DEF DbFault, RowsInv, Honest
<1>5. FaultInv'
  BY DEF DbFault, Fault, TypeOK, FaultInv, Blamed, Spent
<1>6. WorkInv'
  BY DEF DbFault, Go, WorkInv, Working
<1> QED
  BY <1>1, <1>2, <1>3, <1>4, <1>5, <1>6

LEMMA JobGoneStep ==
  ASSUME IInv, NEW c \in Consumers, JobGone(c)
  PROVE  IInv'
<1> USE BulkImportAssumption DEF IInv, broker
<1>1. TypeOK'
  BY DEF JobGone, Go, TypeOK
<1>2. HandlerInv'
  BY DEF JobGone, Go, HandlerInv
<1>3. QueueInv'
  BY QueueStays DEF JobGone
<1>4. RowsInv'
  BY DEF JobGone, RowsInv, Honest
<1>5. FaultInv'
  BY DEF JobGone, FaultInv, Blamed, Spent
<1>6. WorkInv'
  BY DEF JobGone, WorkInv
<1> QED
  BY <1>1, <1>2, <1>3, <1>4, <1>5, <1>6

LEMMA ReadJobStep ==
  ASSUME IInv, NEW c \in Consumers, ReadJob(c)
  PROVE  IInv'
<1> USE BulkImportAssumption DEF IInv, broker
<1>1. TypeOK'
  BY DEF ReadJob, Go, TypeOK
<1>2. HandlerInv'
  BY DEF ReadJob, Go, HandlerInv
<1>3. QueueInv'
  BY QueueStays DEF ReadJob
<1>4. RowsInv'
  BY DEF ReadJob, RowsInv, Honest
<1>5. FaultInv'
  BY DEF ReadJob, Go, FaultInv, Blamed, Spent
<1>6. WorkInv'
  BY DEF ReadJob, Go, WorkInv, Working
<1> QED
  BY <1>1, <1>2, <1>3, <1>4, <1>5, <1>6

LEMMA StartJobStep ==
  ASSUME IInv, NEW c \in Consumers, StartJob(c)
  PROVE  IInv'
<1> USE BulkImportAssumption DEF IInv, broker
<1>1. TypeOK'
  <2>1. job' = [status |-> "PROCESSING", processed |-> 0, report |-> job.report]
    BY DEF StartJob, TypeOK
  <2> QED
    BY <2>1 DEF StartJob, Go, TypeOK
<1>2. HandlerInv'
  BY DEF StartJob, Go, HandlerInv
<1>3. QueueInv'
  BY QueueStays DEF StartJob
<1>4. RowsInv'
  BY DEF StartJob, RowsInv, Honest
<1>5. FaultInv'
  BY DEF StartJob, Go, FaultInv, Blamed, Spent
<1>6. WorkInv'
  BY DEF StartJob, Go, WorkInv, Working
<1> QED
  BY <1>1, <1>2, <1>3, <1>4, <1>5, <1>6

LEMMA LinkRowStep ==
  ASSUME IInv, NEW c \in Consumers, LinkRow(c)
  PROVE  IInv'
<1> USE BulkImportAssumption DEF IInv, broker
<1>1. TypeOK'
  <2>1. Len(report[c]) \in Nat /\ Len(report[c]) + 1 \in Rows
    BY DEF LinkRow, HandlerInv, Rows
  <2>2. report' \in [Consumers -> Seq(Outcome)] /\ \A d \in Consumers : Len(report'[d]) <= RowCount
    BY <2>1 DEF LinkRow, Note, TypeOK, Outcome, Rows
  <2> QED
    BY <2>1, <2>2 DEF LinkRow, Note, Go, TypeOK
<1>2. HandlerInv'
  BY DEF LinkRow, Note, Go, Boundary, TypeOK, HandlerInv
<1>3. QueueInv'
  BY QueueStays DEF LinkRow, Note
<1>4. RowsInv'
  BY DEF LinkRow, Note, RowsInv, Honest
<1>5. FaultInv'
  BY DEF LinkRow, Note, Go, FaultInv, Blamed, Spent
<1>6. WorkInv'
  BY DEF LinkRow, Note, Go, WorkInv, Working
<1> QED
  BY <1>1, <1>2, <1>3, <1>4, <1>5, <1>6

LEMMA CommitAnswerLostStep ==
  ASSUME IInv, NEW c \in Consumers, CommitAnswerLost(c)
  PROVE  IInv'
<1> USE BulkImportAssumption DEF IInv, broker
<1>1. TypeOK'
  <2>1. Len(report[c]) \in Nat /\ Len(report[c]) + 1 \in Rows
    BY DEF CommitAnswerLost, HandlerInv, Rows
  <2>2. report' \in [Consumers -> Seq(Outcome)] /\ \A d \in Consumers : Len(report'[d]) <= RowCount
    BY <2>1 DEF CommitAnswerLost, Note, TypeOK, Outcome, Rows
  <2>3. left' \in 0..MaxFaults
    BY DEF CommitAnswerLost, Fault, TypeOK
  <2> QED
    BY <2>1, <2>2, <2>3 DEF CommitAnswerLost, Note, Go, TypeOK
<1>2. HandlerInv'
  BY DEF CommitAnswerLost, Note, Go, Boundary, TypeOK, HandlerInv
<1>3. QueueInv'
  BY QueueStays DEF CommitAnswerLost, Note
<1>4. RowsInv'
  BY DEF CommitAnswerLost, Note, RowsInv, Honest
<1>5. FaultInv'
  BY DEF CommitAnswerLost, Note, Go, Fault, TypeOK, FaultInv, Blamed, Spent
<1>6. WorkInv'
  BY DEF CommitAnswerLost, Note, Go, WorkInv, Working
<1> QED
  BY <1>1, <1>2, <1>3, <1>4, <1>5, <1>6

LEMMA RowFailsStep ==
  ASSUME IInv, NEW c \in Consumers, RowFails(c)
  PROVE  IInv'
<1> USE BulkImportAssumption DEF IInv, broker
<1>1. TypeOK'
  BY DEF RowFails, Note, Go, TypeOK, HandlerInv, Outcome
<1>2. HandlerInv'
  BY DEF RowFails, Note, Go, Boundary, TypeOK, HandlerInv
<1>3. QueueInv'
  BY QueueStays DEF RowFails, Note
<1>4. RowsInv'
  BY DEF RowFails, Note, RowsInv, Honest
<1>5. FaultInv'
  BY DEF RowFails, Note, Go, FaultInv, Blamed, Spent
<1>6. WorkInv'
  BY DEF RowFails, Note, Go, WorkInv, Working
<1> QED
  BY <1>1, <1>2, <1>3, <1>4, <1>5, <1>6

LEMMA SaveProgressStep ==
  ASSUME IInv, NEW c \in Consumers, SaveProgress(c)
  PROVE  IInv'
<1> USE BulkImportAssumption DEF IInv, broker
<1>1. TypeOK'
  <2>1. Len(report[c]) \in 0..RowCount
    BY DEF TypeOK
  <2> QED
    BY <2>1 DEF SaveProgress, Go, TypeOK
<1>2. HandlerInv'
  BY DEF SaveProgress, Go, HandlerInv
<1>3. QueueInv'
  BY QueueStays DEF SaveProgress
<1>4. RowsInv'
  BY DEF SaveProgress, RowsInv, Honest
<1>5. FaultInv'
  BY DEF SaveProgress, Go, FaultInv, Blamed, Spent
<1>6. WorkInv'
  BY DEF SaveProgress, Go, WorkInv, Working
<1> QED
  BY <1>1, <1>2, <1>3, <1>4, <1>5, <1>6

LEMMA NotifyStep ==
  ASSUME IInv, NEW c \in Consumers, Notify(c)
  PROVE  IInv'
<1> USE BulkImportAssumption DEF IInv, broker
<1>1. TypeOK'
  BY DEF Notify, Go, TypeOK
<1>2. HandlerInv'
  BY DEF Notify, Go, TypeOK, HandlerInv
<1>3. QueueInv'
  BY QueueStays DEF Notify
<1>4. RowsInv'
  BY DEF Notify, RowsInv, Honest
<1>5. FaultInv'
  BY DEF Notify, Go, FaultInv, Blamed, Spent
<1>6. WorkInv'
  BY DEF Notify, Go, WorkInv, Working
<1> QED
  BY <1>1, <1>2, <1>3, <1>4, <1>5, <1>6

LEMMA CompleteStep ==
  ASSUME IInv, NEW c \in Consumers, Complete(c)
  PROVE  IInv'
<1> USE BulkImportAssumption DEF IInv, broker
<1>1. TypeOK'
  BY DEF Complete, Go, TypeOK, HandlerInv
<1>2. HandlerInv'
  BY DEF Complete, Go, HandlerInv
<1>3. QueueInv'
  BY QueueStays DEF Complete
<1>4. RowsInv'
  BY DEF Complete, HandlerInv, RowsInv, Honest
<1>5. FaultInv'
  BY DEF Complete, Go, FaultInv, Blamed, Spent
<1>6. WorkInv'
  BY DEF Complete, WorkInv, Finished
<1> QED
  BY <1>1, <1>2, <1>3, <1>4, <1>5, <1>6

LEMMA AnnounceStep ==
  ASSUME IInv, NEW c \in Consumers, Announce(c)
  PROVE  IInv'
<1> USE BulkImportAssumption DEF IInv, broker
<1>1. TypeOK'
  BY DEF Announce, Go, TypeOK
<1>2. HandlerInv'
  BY DEF Announce, Go, HandlerInv
<1>3. QueueInv'
  BY QueueStays DEF Announce
<1>4. RowsInv'
  BY DEF Announce, RowsInv, Honest
<1>5. FaultInv'
  BY DEF Announce, Go, FaultInv, Blamed, Spent
<1>6. WorkInv'
  BY DEF Announce, Go, WorkInv, Working
<1> QED
  BY <1>1, <1>2, <1>3, <1>4, <1>5, <1>6

LEMMA RedisFaultStep ==
  ASSUME IInv, NEW c \in Consumers, RedisFault(c)
  PROVE  IInv'
<1> USE BulkImportAssumption DEF IInv, broker
<1>1. TypeOK'
  BY DEF RedisFault, Fault, Go, TypeOK
<1>2. HandlerInv'
  BY DEF RedisFault, Go, HandlerInv
<1>3. QueueInv'
  BY QueueStays DEF RedisFault
<1>4. RowsInv'
  BY DEF RedisFault, RowsInv, Honest
<1>5. FaultInv'
  BY DEF RedisFault, Fault, TypeOK, FaultInv, Blamed, Spent
<1>6. WorkInv'
  BY DEF RedisFault, Go, WorkInv, Working
<1> QED
  BY <1>1, <1>2, <1>3, <1>4, <1>5, <1>6

LEMMA AckStep ==
  ASSUME IInv, NEW c \in Consumers, Ack(c)
  PROVE  IInv'
<1> USE BulkImportAssumption DEF IInv, broker
<1>1. TypeOK'
  BY DEF Ack, EndHandler, Go, TypeOK
<1>2. HandlerInv'
  BY DEF Ack, EndHandler, Go, TypeOK, HandlerInv
<1>3. QueueInv'
  <2>1. /\ IsFiniteSet(Holders') /\ Cardinality(Holders') \in Nat
        /\ Cardinality(Holders') = Cardinality(Holders) - (IF unacked[c] THEN 1 ELSE 0)
    BY Released DEF Ack
  <2>2. Cardinality(Holders) \in Nat
    BY FS_CardinalityType DEF QueueInv
  <2> QED
    BY <2>1, <2>2 DEF Ack, TypeOK, QueueInv
<1>4. RowsInv'
  BY DEF Ack, EndHandler, RowsInv, Honest
<1>5. FaultInv'
  BY DEF Ack, EndHandler, Go, FaultInv, Blamed, Spent
<1>6. WorkInv'
  BY DEF Ack, EndHandler, Go, WorkInv, Working
<1> QED
  BY <1>1, <1>2, <1>3, <1>4, <1>5, <1>6

LEMMA AckThrowsStep ==
  ASSUME IInv, NEW c \in Consumers, AckThrows(c)
  PROVE  IInv'
<1> USE BulkImportAssumption DEF IInv, broker
<1>1. TypeOK'
  BY DEF AckThrows, Go, TypeOK
<1>2. HandlerInv'
  BY DEF AckThrows, Go, HandlerInv
<1>3. QueueInv'
  BY QueueStays DEF AckThrows
<1>4. RowsInv'
  BY DEF AckThrows, RowsInv, Honest
<1>5. FaultInv'
  BY DEF AckThrows, FaultInv, Blamed, Spent
<1>6. WorkInv'
  BY DEF AckThrows, Go, WorkInv, Working
<1> QED
  BY <1>1, <1>2, <1>3, <1>4, <1>5, <1>6

LEMMA MarkFailedStep ==
  ASSUME IInv, NEW c \in Consumers, MarkFailed(c)
  PROVE  IInv'
<1> USE BulkImportAssumption DEF IInv, broker
<1> DEFINE failed == [status |-> "FAILED", processed |-> job.processed, report |-> <<>>]
<1>1. /\ pc' = [pc EXCEPT ![c] = "ackFailed"] /\ pc[c] = "fail"
      /\ UNCHANGED <<linked, broker, report>>
  BY DEF MarkFailed, Go
<1>2. \/ job' = job /\ job.status = "GONE" /\ UNCHANGED <<abandoned, left>>
      \/ job' = failed /\ job.status # "GONE" /\ UNCHANGED <<abandoned, left>>
      \/ job' = job /\ left > 0 /\ left' = left - 1 /\ abandoned' = TRUE
  BY ZenonT(20) DEF MarkFailed, Fault, TypeOK
<1>3. left' \in 0..MaxFaults /\ (left' = left \/ left' = left - 1)
  <2>1. CASE left' = left
    BY <2>1 DEF TypeOK
  <2>2. CASE left > 0 /\ left' = left - 1
    BY <2>2 DEF TypeOK
  <2> QED
    BY <1>2, <2>1, <2>2
<1>4. TypeOK'
  <2>1. abandoned' \in BOOLEAN
    BY <1>2 DEF TypeOK
  <2>2. CASE job' = job
    BY <1>1, <1>3, <2>1, <2>2 DEF TypeOK
  <2>3. CASE job' = failed
    BY <1>1, <1>3, <2>1, <2>3 DEF TypeOK
  <2> QED
    BY <1>2, <2>2, <2>3
<1>5. HandlerInv'
  BY <1>1 DEF HandlerInv
<1>6. QueueInv'
  BY <1>1, QueueStays
<1>7. RowsInv'
  BY <1>1, <1>2 DEF RowsInv, Honest
<1>8. FaultInv'
  <2>1. copies' = copies /\ copies \in Nat /\ left \in 0..MaxFaults
    BY <1>1 DEF TypeOK
  <2>2. Blamed => Blamed'
    <3>1. CASE left' = left
      BY <2>1, <3>1 DEF Blamed, Spent
    <3>2. CASE left' = left - 1
      BY <2>1, <3>2 DEF Blamed, Spent
    <3> QED
      BY <1>3, <3>1, <3>2
  <2>3. copies' <= Spent' + 1
    <3>1. CASE left' = left
      BY <2>1, <3>1 DEF FaultInv, Spent
    <3>2. CASE left' = left - 1
      BY <2>1, <3>2 DEF FaultInv, Spent
    <3> QED
      BY <1>3, <3>1, <3>2
  <2>4. \A d \in Consumers :
          /\ ~open'[d] => Blamed
          /\ pc'[d] = "fail" => Blamed \/ job.status = "GONE"
    BY <1>1 DEF FaultInv
  <2>5. job.status # "GONE" => Blamed
    BY <1>1 DEF FaultInv
  <2>6. job.status = "GONE" => job'.status = "GONE"
    BY <1>2
  <2>7. job'.status = "NONE" => copies' = 0
    BY <1>1, <1>2 DEF FaultInv
  <2>8. job'.status = "FAILED" => Blamed
    BY <1>2, <2>5
  <2> QED
    BY <2>2, <2>3, <2>4, <2>6, <2>7, <2>8 DEF FaultInv
<1>9. WorkInv'
  BY <1>2 DEF WorkInv, Finished
<1> QED
  BY <1>4, <1>5, <1>6, <1>7, <1>8, <1>9

LEMMA AckFailedStep ==
  ASSUME IInv, NEW c \in Consumers, AckFailed(c)
  PROVE  IInv'
<1> USE BulkImportAssumption DEF IInv, broker
<1>1. TypeOK'
  BY DEF AckFailed, EndHandler, Go, TypeOK
<1>2. HandlerInv'
  BY DEF AckFailed, EndHandler, Go, TypeOK, HandlerInv
<1>3. QueueInv'
  <2>1. /\ IsFiniteSet(Holders') /\ Cardinality(Holders') \in Nat
        /\ Cardinality(Holders') = Cardinality(Holders) - (IF unacked[c] THEN 1 ELSE 0)
    BY Released DEF AckFailed
  <2>2. Cardinality(Holders) \in Nat
    BY FS_CardinalityType DEF QueueInv
  <2> QED
    BY <2>1, <2>2 DEF AckFailed, TypeOK, QueueInv
<1>4. RowsInv'
  BY DEF AckFailed, EndHandler, RowsInv, Honest
<1>5. FaultInv'
  BY DEF AckFailed, EndHandler, Go, FaultInv, Blamed, Spent
<1>6. WorkInv'
  BY DEF AckFailed, EndHandler, Go, WorkInv, Working
<1> QED
  BY <1>1, <1>2, <1>3, <1>4, <1>5, <1>6

LEMMA DropStep ==
  ASSUME IInv, NEW c \in Consumers, Drop(c)
  PROVE  IInv'
<1> USE BulkImportAssumption DEF IInv, broker
<1>1. QueueInv' /\ queue' \in Nat /\ queue' <= copies
  BY Requeued DEF Drop
<1>2. TypeOK'
  <2>1. left' \in 0..MaxFaults /\ queue' \in 0..copies'
    BY <1>1 DEF Drop, CloseChannel, Fault, TypeOK
  <2> QED
    BY <2>1 DEF Drop, CloseChannel, TypeOK
<1>3. HandlerInv'
  BY DEF Drop, CloseChannel, TypeOK, HandlerInv
<1>4. QueueInv'
  BY <1>1
<1>5. RowsInv'
  BY DEF Drop, CloseChannel, RowsInv, Honest
<1>6. FaultInv'
  BY DEF Drop, CloseChannel, Fault, TypeOK, FaultInv, Blamed, Spent
<1>7. WorkInv'
  BY DEF Drop, CloseChannel, TypeOK, WorkInv, Working
<1> QED
  BY <1>2, <1>3, <1>4, <1>5, <1>6, <1>7

LEMMA CrashStep ==
  ASSUME IInv, NEW c \in Consumers, Crash(c)
  PROVE  IInv'
<1> USE BulkImportAssumption DEF IInv, broker
<1>1. QueueInv' /\ queue' \in Nat /\ queue' <= copies
  BY Requeued DEF Crash
<1>2. TypeOK'
  <2>1. left' \in 0..MaxFaults /\ queue' \in 0..copies'
    BY <1>1 DEF Crash, CloseChannel, Fault, TypeOK
  <2> QED
    BY <2>1 DEF Crash, CloseChannel, EndHandler, Go, TypeOK
<1>3. HandlerInv'
  BY DEF Crash, CloseChannel, EndHandler, Go, TypeOK, HandlerInv
<1>4. QueueInv'
  BY <1>1
<1>5. RowsInv'
  BY DEF Crash, CloseChannel, EndHandler, RowsInv, Honest
<1>6. FaultInv'
  BY DEF Crash, CloseChannel, Fault, TypeOK, FaultInv, Blamed, Spent
<1>7. WorkInv'
  BY DEF Crash, CloseChannel, EndHandler, Go, TypeOK, HandlerInv, WorkInv, Working
<1> QED
  BY <1>2, <1>3, <1>4, <1>5, <1>6, <1>7

-----------------------------------------------------------------------------
(* The theorems.                                                           *)

LEMMA InitStep == Init => IInv
<1> SUFFICES ASSUME Init
             PROVE  IInv
  OBVIOUS
<1> USE BulkImportAssumption DEF Init
<1>1. TypeOK
  <2>1. abandoned \in BOOLEAN /\ copies \in Nat
    OBVIOUS
  <2> QED
    BY <2>1 DEF TypeOK
<1>2. HandlerInv /\ RowsInv /\ WorkInv
  BY DEF HandlerInv, RowsInv, Honest, WorkInv
<1>3. QueueInv
  <2>1. Holders = {}
    BY DEF Holders
  <2> QED
    BY <2>1, FS_EmptySet DEF QueueInv
<1>4. FaultInv
  BY DEF FaultInv, Spent
<1> QED
  BY <1>1, <1>2, <1>3, <1>4 DEF IInv

LEMMA StutterStep ==
  ASSUME IInv, UNCHANGED vars
  PROVE  IInv'
BY QueueStays
   DEF IInv, vars, broker, TypeOK, HandlerInv, RowsInv, Honest, FaultInv, Blamed,
       Spent, WorkInv, Working

LEMMA HandlerStep ==
  ASSUME IInv, NEW c \in Consumers, Handler(c)
  PROVE  IInv'
BY ReadJobStep, StartJobStep, LinkRowStep, CommitAnswerLostStep, RowFailsStep,
   SaveProgressStep, NotifyStep, CompleteStep, AnnounceStep, AckStep, AckThrowsStep, MarkFailedStep, AckFailedStep,
   DbFaultStep, JobGoneStep, RedisFaultStep
   DEF Handler

LEMMA NextStep == IInv /\ [Next]_vars => IInv'
<1> SUFFICES ASSUME IInv, [Next]_vars
             PROVE  IInv'
  OBVIOUS
<1> QED
  BY CreateJobStep, PublishStep, DeleteCourseStep, DeliverStep, HandlerStep, DropStep,
     CrashStep, StutterStep
     DEF Next

\* The inductive invariant holds in every reachable state.
THEOREM Invariance == Spec => []IInv
BY InitStep, NextStep, PTL DEF Spec

\* Type correctness: no message is waiting that was not published, and no handler
\* runs past the end of the roster.
THEOREM TypeCorrect == Spec => []TypeOK
<1>1. IInv => TypeOK
  BY DEF IInv
<1> QED
  BY <1>1, Invariance, PTL

\* A completed job has an outcome for every row, and claims no row that was not
\* linked, whatever other handlers and redeliveries did to it meanwhile
\* (bulk-import-consumer.ts, process).
THEOREM ReportsAreHonest == Spec => []CompletedCoversEveryRow
<1>1. IInv => CompletedCoversEveryRow
  BY DEF IInv, RowsInv, Honest, CompletedCoversEveryRow, Rows
<1> QED
  BY <1>1, Invariance, PTL

\* One bad row never fails the batch: a FAILED job has a fault outside the rows to
\* blame, beyond those that only made the request come again.
THEOREM FailuresAreBlamed == Spec => []OnlyFaultsFailAJob
<1>1. IInv => OnlyFaultsFailAJob
  BY DEF IInv, FaultInv, Blamed, Spent, OnlyFaultsFailAJob
<1> QED
  BY <1>1, Invariance, PTL

\* When no message is waiting and no handler runs, the job is finished, gone, or
\* could not be marked: no ack gives up an unfinished job.
THEOREM NoJobIsLeftHanging == Spec => []NothingLeftUndone
<1>1. IInv => NothingLeftUndone
  BY DEF IInv, WorkInv, Working, NothingLeftUndone
<1> QED
  BY <1>1, Invariance, PTL

-----------------------------------------------------------------------------
(* BulkImport: the import keeps its promise.                               *)

Midway == {"row", "progress", "notify", "complete"}

\* The rows a handler has claimed so far.
Tally(r) == {i \in Rows : i <= Len(r) /\ r[i] = "linked"}

\* Nobody has worked on the job.
Untouched == linked = {} /\ job.status \in {"NONE", "PENDING", "GONE"}

\* A handler has a job, and past its start one that was started.
PlaceInv ==
  \A c \in Consumers :
    /\ job.status = "NONE" => pc[c] = "idle"
    /\ pc[c] \in Midway => job.status # "PENDING"

\* Without a fault there is one handler: the job is untouched until it starts, and
\* then the linked rows are those that it claims.
SoloInv ==
  Spent = 0 =>
    /\ copies = 0 \/ queue > 0 => Untouched
    /\ \A c \in Consumers :
         /\ pc[c] \in {"read", "start"} => Untouched
         /\ pc[c] \in Midway =>
              job.status \in {"PROCESSING", "GONE"} /\ linked = Tally(report[c])

LEMMA TallyEmpty == Tally(<<>>) = {}
BY DEF Tally, Rows

LEMMA TallyAppend ==
  ASSUME NEW r \in Seq(Outcome), Len(r) + 1 \in Rows, NEW outcome \in Outcome
  PROVE  Tally(Append(r, outcome)) =
           Tally(r) \cup (IF outcome = "linked" THEN {Len(r) + 1} ELSE {})
<1> DEFINE a == Append(r, outcome)
<1>1. Len(r) \in Nat /\ Len(a) = Len(r) + 1
  OBVIOUS
<1>2. \A i \in Rows : i <= Len(a) <=> i <= Len(r) \/ i = Len(r) + 1
  BY <1>1, BulkImportAssumption DEF Rows
<1>3. \A i \in Rows : i <= Len(r) => a[i] = r[i]
  BY <1>1 DEF Rows
<1>4. a[Len(r) + 1] = outcome
  BY <1>1
<1> HIDE DEF a
<1>5. \A i \in Rows : (i <= Len(a) /\ a[i] = "linked")
        <=> (i <= Len(r) /\ r[i] = "linked") \/ (outcome = "linked" /\ i = Len(r) + 1)
  <2> SUFFICES ASSUME NEW i \in Rows
               PROVE  (i <= Len(a) /\ a[i] = "linked")
                        <=> (i <= Len(r) /\ r[i] = "linked") \/ (outcome = "linked" /\ i = Len(r) + 1)
    OBVIOUS
  <2>1. CASE i <= Len(r)
    <3>1. i # Len(r) + 1
      BY <1>1, <2>1, BulkImportAssumption DEF Rows
    <3> QED
      BY <1>2, <1>3, <2>1, <3>1
  <2>2. CASE ~(i <= Len(r))
    BY <1>2, <1>4, <2>2
  <2> QED
    BY <2>1, <2>2
<1>6. Tally(a) = Tally(r) \cup (IF outcome = "linked" THEN {Len(r) + 1} ELSE {})
  BY <1>5 DEF Tally
<1> QED
  BY <1>6 DEF a

\* Without a fault a handler has the only copy of the request.
LEMMA OneHandler ==
  ASSUME IInv, Spent = 0, NEW c \in Consumers, pc[c] # "idle"
  PROVE  queue = 0 /\ copies = 1 /\ \A d \in Consumers \ {c} : pc[d] = "idle"
<1> USE DEF IInv
<1>1. copies \in Nat /\ copies <= 1 /\ queue \in Nat
  BY BulkImportAssumption DEF TypeOK, FaultInv
<1>2. ~Blamed
  BY DEF Blamed
<1>3. \A d \in Consumers : pc[d] # "idle" => d \in Holders
  BY <1>2 DEF FaultInv, HandlerInv, Holders
<1>4. c \in Holders /\ IsFiniteSet(Holders) /\ queue + Cardinality(Holders) <= copies
  BY <1>3 DEF QueueInv
<1>5. /\ IsFiniteSet(Holders \ {c}) /\ Cardinality(Holders \ {c}) \in Nat
      /\ Cardinality(Holders) = Cardinality(Holders \ {c}) + 1
  <2>1. /\ IsFiniteSet(Holders \ {c})
        /\ Cardinality(Holders \ {c}) = Cardinality(Holders) - 1
    BY <1>4, FS_RemoveElement
  <2>2. Cardinality(Holders) \in Nat /\ Cardinality(Holders \ {c}) \in Nat
    BY <1>4, <2>1, FS_CardinalityType
  <2> QED
    BY <2>1, <2>2
<1>6. queue = 0 /\ copies = 1 /\ Cardinality(Holders \ {c}) = 0
  BY <1>1, <1>4, <1>5
<1>7. Holders \ {c} = {}
  BY <1>5, <1>6, FS_EmptySet
<1> QED
  BY <1>3, <1>6, <1>7

\* So what its step makes of the job is all that counts.
LEMMA SoloMoves ==
  ASSUME IInv, SoloInv, NEW c \in Consumers, pc[c] # "idle",
         NEW next, pc' = [pc EXCEPT ![c] = next], UNCHANGED <<copies, queue, left>>,
         next \notin {"read", "start"},
         Spent = 0 /\ next \in Midway =>
           job'.status \in {"PROCESSING", "GONE"} /\ linked' = Tally(report'[c])
  PROVE  SoloInv'
<1> SUFFICES ASSUME Spent' = 0
             PROVE  /\ copies' = 0 \/ queue' > 0 => Untouched'
                    /\ \A d \in Consumers :
                         /\ pc'[d] \in {"read", "start"} => Untouched'
                         /\ pc'[d] \in Midway =>
                              job'.status \in {"PROCESSING", "GONE"} /\ linked' = Tally(report'[d])
  BY DEF SoloInv, Tally
<1>1. Spent = 0
  BY DEF Spent
<1>2. queue = 0 /\ copies = 1 /\ \A d \in Consumers \ {c} : pc[d] = "idle"
  BY <1>1, OneHandler
<1>3. /\ pc'[c] = next
      /\ \A d \in Consumers \ {c} : pc'[d] = "idle"
  BY <1>2 DEF IInv, TypeOK
<1>4. ~(copies' = 0 \/ queue' > 0)
  BY <1>2
<1>5. \A d \in Consumers : pc'[d] \in {"read", "start"} \cup Midway => d = c /\ pc'[c] = next
  BY <1>3 DEF Midway
<1> QED
  BY <1>1, <1>3, <1>4, <1>5

\* A fault ends it.
LEMMA SoloEnds ==
  ASSUME IInv, NEW kind, Fault(kind)
  PROVE  SoloInv'
<1>1. Spent' # 0
  BY BulkImportAssumption DEF IInv, TypeOK, Fault, Spent
<1> QED
  BY <1>1 DEF SoloInv

\* A handler's step in which the job keeps its status, or may lose it to a failure.
LEMMA SoloHandler ==
  ASSUME IInv, PlaceInv, SoloInv, NEW c \in Consumers, Handler(c)
  PROVE  SoloInv'
<1> USE DEF broker
<1>1. CASE ReadJob(c)
  <2>1. CASE job.status \in Finished \cup {"GONE"}
    <3>1. pc' = [pc EXCEPT ![c] = "ack"]
      BY <1>1, <2>1 DEF ReadJob, Go
    <3> QED
      BY <1>1, <3>1, SoloMoves DEF ReadJob, Midway
  <2>2. CASE job.status \notin Finished \cup {"GONE"}
    <3>1. pc' = [pc EXCEPT ![c] = "start"] /\ pc[c] = "read"
      BY <1>1, <2>2 DEF ReadJob, Go
    <3> QED
      BY <1>1, <3>1 DEF ReadJob, SoloInv, Spent, Untouched, Midway, Tally, IInv, TypeOK
  <2> QED
    BY <2>1, <2>2
<1>2. CASE StartJob(c)
  <2>1. /\ pc' = [pc EXCEPT ![c] = "row"] /\ job'.status = "PROCESSING" /\ pc[c] = "start"
        /\ UNCHANGED <<copies, queue, left>>
    BY <1>2 DEF StartJob, Go, IInv, TypeOK
  <2>2. report'[c] = <<>> /\ linked' = linked
    BY <1>2 DEF StartJob, IInv, HandlerInv
  <2>3. Spent = 0 => linked' = Tally(report'[c])
    BY <2>1, <2>2, TallyEmpty DEF SoloInv, Untouched
  <2>4. pc[c] # "idle" /\ "row" \notin {"read", "start"}
    BY <2>1
  <2> QED
    BY ZenonT(20), <2>1, <2>3, <2>4, SoloMoves
<1>3. ASSUME NEW outcome \in Outcome, pc[c] = "row", Note(c, outcome), UNCHANGED left,
             linked' = linked \cup (IF outcome = "linked" THEN {Len(report[c]) + 1} ELSE {})
      PROVE  SoloInv'
  <2>1. PICK next \in {"progress", "row"} : pc' = [pc EXCEPT ![c] = next]
    BY <1>3 DEF Note, Go
  <2>2. report'[c] = Append(report[c], outcome) /\ report[c] \in Seq(Outcome)
    BY <1>3 DEF Note, IInv, TypeOK
  <2>3. Len(report[c]) + 1 \in Rows
    BY <1>3, <2>2, BulkImportAssumption DEF IInv, HandlerInv, Rows
  <2>4. Spent = 0 => linked' = Tally(report'[c]) /\ job'.status \in {"PROCESSING", "GONE"}
    BY <1>3, <2>2, <2>3, TallyAppend DEF SoloInv, Midway, Note
  <2> QED
    BY <1>3, <2>1, <2>4, SoloMoves DEF Note
<1>4. CASE LinkRow(c)
  BY <1>3, <1>4 DEF LinkRow, Outcome
<1>5. CASE RowFails(c)
  BY <1>3, <1>5 DEF RowFails, Outcome
<1>6. CASE SaveProgress(c)
  <2>1. /\ pc' = [pc EXCEPT ![c] = "notify"] /\ pc[c] = "progress"
        /\ job'.status = job.status /\ UNCHANGED <<linked, report, copies, queue, left>>
    BY <1>6 DEF SaveProgress, Go, IInv, TypeOK
  <2>2. Spent = 0 => job'.status \in {"PROCESSING", "GONE"} /\ linked' = Tally(report'[c])
    BY <2>1 DEF SoloInv, Midway, Tally
  <2>3. pc[c] # "idle" /\ "notify" \notin {"read", "start"}
    BY <2>1
  <2> QED
    BY ZenonT(20), <2>1, <2>2, <2>3, SoloMoves
<1>7. CASE Notify(c)
  <2>1. /\ pc[c] = "notify" /\ UNCHANGED <<job, linked, report, copies, queue, left>>
        /\ \E next \in {"complete", "row"} : pc' = [pc EXCEPT ![c] = next]
    BY <1>7 DEF Notify, Go
  <2>2. Spent = 0 => job'.status \in {"PROCESSING", "GONE"} /\ linked' = Tally(report'[c])
    BY <2>1 DEF SoloInv, Midway, Tally
  <2> QED
    BY <2>1, <2>2, SoloMoves
<1>8. CASE Complete(c) \/ Announce(c) \/ AckThrows(c) \/ JobGone(c)
  <2>1. /\ pc[c] # "idle" /\ UNCHANGED <<copies, queue, left>>
        /\ \E next \in {"announce", "ack", "fail"} : pc' = [pc EXCEPT ![c] = next]
    BY <1>8 DEF Complete, Announce, AckThrows, JobGone, Go
  <2> QED
    BY <2>1, SoloMoves DEF Midway
<1>9. CASE Ack(c) \/ AckFailed(c)
  <2>1. /\ pc[c] # "idle" /\ UNCHANGED <<copies, queue, left>>
        /\ pc' = [pc EXCEPT ![c] = "idle"]
    BY <1>9 DEF Ack, AckFailed, EndHandler, Go
  <2> QED
    BY <2>1, SoloMoves DEF Midway
<1>10. CASE MarkFailed(c)
  <2>1. CASE UNCHANGED left
    <3>1. /\ pc[c] # "idle" /\ UNCHANGED <<copies, queue, left>>
          /\ pc' = [pc EXCEPT ![c] = "ackFailed"]
      BY <1>10, <2>1 DEF MarkFailed, Go
    <3> QED
      BY <3>1, SoloMoves DEF Midway
  <2>2. CASE Fault("database")
    BY <2>2, SoloEnds
  <2> QED
    BY <1>10, <2>1, <2>2 DEF MarkFailed
<1>11. CASE CommitAnswerLost(c) \/ DbFault(c) \/ RedisFault(c)
  BY <1>11, SoloEnds DEF CommitAnswerLost, DbFault, RedisFault
<1> QED
  BY <1>1, <1>2, <1>4, <1>5, <1>6, <1>7, <1>8, <1>9, <1>10, <1>11 DEF Handler

LEMMA SoloStep ==
  ASSUME IInv, PlaceInv, SoloInv, [Next]_vars
  PROVE  SoloInv'
<1> USE DEF broker
<1>1. CASE CreateJob
  <2>1. /\ copies = 0 /\ queue = 0 /\ \A c \in Consumers : pc[c] = "idle"
    BY <1>1 DEF CreateJob, IInv, TypeOK, FaultInv, PlaceInv
  <2>2. job'.status = "PENDING" /\ UNCHANGED <<linked, copies, queue, pc, report, left>>
    BY <1>1 DEF CreateJob, IInv, TypeOK
  <2> QED
    BY <2>1, <2>2 DEF SoloInv, Untouched, Spent, Midway
<1>2. CASE Publish
  <2>1. CASE copies > 0
    BY <1>2, <2>1, SoloEnds DEF Publish
  <2>2. CASE ~(copies > 0)
    <3>1. copies = 0 /\ UNCHANGED <<job, linked, pc, report, left>>
      BY <1>2, <2>2 DEF Publish, IInv, TypeOK
    <3> QED
      BY <3>1 DEF SoloInv, Untouched, Spent, Tally
  <2> QED
    BY <2>1, <2>2
<1>3. CASE \E c \in Consumers : Deliver(c)
  <2> PICK c \in Consumers : Deliver(c)
    BY <1>3
  <2>1. /\ pc' = [pc EXCEPT ![c] = "read"] /\ queue > 0 /\ queue' = queue - 1
        /\ UNCHANGED <<job, linked, copies, report, left>>
    BY DEF Deliver, Go
  <2>2. Spent = 0 => Untouched
    BY <2>1 DEF SoloInv
  <2> QED
    BY <2>1, <2>2 DEF SoloInv, Untouched, Spent, Tally, Midway, IInv, TypeOK
<1>4. CASE DeleteCourse
  <2>1. job'.status = "GONE" /\ UNCHANGED <<linked, copies, queue, pc, report, left>>
    BY <1>4 DEF DeleteCourse
  <2> QED
    BY <2>1 DEF SoloInv, Untouched, Spent, Tally
<1>5. CASE \E c \in Consumers : Handler(c)
  BY <1>5, SoloHandler
<1>6. CASE \E c \in Consumers : Drop(c) \/ Crash(c)
  BY <1>6, SoloEnds DEF Drop, Crash
<1>7. CASE UNCHANGED vars
  BY <1>7 DEF vars, SoloInv, Untouched, Spent, Tally
<1> QED
  BY <1>1, <1>2, <1>3, <1>4, <1>5, <1>6, <1>7 DEF Next

LEMMA PlaceStep ==
  ASSUME IInv, PlaceInv, [Next]_vars
  PROVE  PlaceInv'
<1> USE DEF PlaceInv, Midway
<1>1. CASE CreateJob
  <2>1. job.status = "NONE" /\ pc' = pc
    BY <1>1 DEF CreateJob
  <2> QED
    BY <2>1, <1>1 DEF CreateJob, IInv, TypeOK
<1>2. CASE Publish
  BY <1>2 DEF Publish
<1>3. CASE DeleteCourse
  BY <1>3 DEF DeleteCourse
<1>4. CASE \E c \in Consumers : Deliver(c)
  <2> PICK c \in Consumers : Deliver(c)
    BY <1>4
  <2>1. copies # 0
    BY DEF Deliver, IInv, TypeOK
  <2>2. job.status # "NONE" /\ job' = job /\ pc' = [pc EXCEPT ![c] = "read"]
    BY <2>1 DEF Deliver, Go, IInv, FaultInv
  <2> QED
    BY <2>2 DEF IInv, TypeOK
<1>5. CASE \E c \in Consumers : StartJob(c)
  <2> PICK c \in Consumers : StartJob(c)
    BY <1>5
  <2>1. job'.status = "PROCESSING"
    BY DEF StartJob, IInv, TypeOK
  <2> QED
    BY <2>1
<1>6. CASE \E c \in Consumers : LinkRow(c) \/ RowFails(c) \/ CommitAnswerLost(c)
  <2> PICK c \in Consumers : LinkRow(c) \/ RowFails(c) \/ CommitAnswerLost(c)
    BY <1>6
  <2>1. /\ pc[c] = "row" /\ job' = job
        /\ \E next \in Midway : pc' = [pc EXCEPT ![c] = next]
    BY DEF LinkRow, RowFails, CommitAnswerLost, Note, Go
  <2> QED
    BY <2>1 DEF IInv, TypeOK
<1>7. CASE \E c \in Consumers : SaveProgress(c) \/ Notify(c)
  <2> PICK c \in Consumers : SaveProgress(c) \/ Notify(c)
    BY <1>7
  <2>1. /\ pc[c] \in Midway /\ job'.status = job.status
        /\ \E next \in Midway : pc' = [pc EXCEPT ![c] = next]
    BY DEF SaveProgress, Notify, Go, IInv, TypeOK
  <2> QED
    BY <2>1 DEF IInv, TypeOK
<1>8. CASE \E c \in Consumers : Complete(c)
  <2> PICK c \in Consumers : Complete(c)
    BY <1>8
  <2>1. job'.status = "COMPLETED"
    BY DEF Complete
  <2> QED
    BY <2>1
<1>9. CASE \E c \in Consumers : MarkFailed(c)
  <2> PICK c \in Consumers : MarkFailed(c)
    BY <1>9
  <2>1. pc[c] = "fail" /\ pc' = [pc EXCEPT ![c] = "ackFailed"]
    BY DEF MarkFailed, Go
  <2>2. job' = job \/ job'.status = "FAILED"
    BY DEF MarkFailed, IInv, TypeOK
  <2> QED
    BY <2>1, <2>2 DEF IInv, TypeOK
<1>10. CASE \E c \in Consumers :
              \/ ReadJob(c) \/ Announce(c) \/ Ack(c) \/ AckThrows(c) \/ AckFailed(c)
              \/ DbFault(c) \/ JobGone(c) \/ RedisFault(c)
  <2> PICK c \in Consumers :
              \/ ReadJob(c) \/ Announce(c) \/ Ack(c) \/ AckThrows(c) \/ AckFailed(c)
              \/ DbFault(c) \/ JobGone(c) \/ RedisFault(c)
    BY <1>10
  <2>1. /\ pc[c] # "idle" /\ job' = job
        /\ \E next \in {"idle", "start", "ack", "fail"} : pc' = [pc EXCEPT ![c] = next]
    BY DEF ReadJob, Announce, Ack, AckThrows, AckFailed, DbFault, JobGone, RedisFault,
           EndHandler, Go
  <2> QED
    BY <2>1 DEF IInv, TypeOK
<1>11. CASE \E c \in Consumers : Drop(c) \/ Crash(c)
  <2> PICK c \in Consumers : Drop(c) \/ Crash(c)
    BY <1>11
  <2>1. job' = job /\ (pc' = pc \/ pc' = [pc EXCEPT ![c] = "idle"])
    BY DEF Drop, Crash, CloseChannel, EndHandler, Go
  <2> QED
    BY <2>1 DEF IInv, TypeOK
<1>12. CASE UNCHANGED vars
  BY <1>12 DEF vars
<1> QED
  BY <1>1, <1>2, <1>3, <1>4, <1>5, <1>6, <1>7, <1>8, <1>9, <1>10, <1>11, <1>12
     DEF Next, Handler

\* The refinement's invariant.
PromiseInv == IInv /\ PlaceInv /\ SoloInv

LEMMA PromiseInvariance == Spec => []PromiseInv
<1>1. Init => PlaceInv /\ SoloInv
  BY DEF Init, PlaceInv, SoloInv, Untouched, Midway
<1>2. IInv /\ PlaceInv /\ SoloInv /\ [Next]_vars => (PlaceInv /\ SoloInv)'
  BY PlaceStep, SoloStep
<1> QED
  BY <1>1, <1>2, Invariance, PTL DEF Spec, PromiseInv

-----------------------------------------------------------------------------
(* Each step of the handlers is one of the promise, or a stutter of it.     *)

disturbed == left < MaxFaults
importVars == <<job.status, job.report, linked, disturbed>>

LEMMA DisturbedOrSpent ==
  ASSUME IInv
  PROVE  /\ disturbed <=> Spent # 0
         /\ disturbed <=> Spent > 0
BY BulkImportAssumption DEF IInv, TypeOK, disturbed, Spent

LEMMA CreateJobKeeps ==
  ASSUME PromiseInv, CreateJob
  PROVE  Import!Create
BY DEF PromiseInv, IInv, TypeOK, CreateJob, Import!Create

LEMMA DeleteCourseKeeps ==
  ASSUME PromiseInv, DeleteCourse
  PROVE  Import!Delete
BY DEF DeleteCourse, Import!Delete

\* A job is started once, or again only after a fault.
LEMMA StartJobKeeps ==
  ASSUME PromiseInv, NEW c \in Consumers, StartJob(c)
  PROVE  Import!Start
<1>1. /\ job'.status = "PROCESSING" /\ job'.report = job.report
      /\ UNCHANGED <<linked, left>> /\ pc[c] = "start" /\ job.status # "GONE"
  BY DEF PromiseInv, IInv, TypeOK, StartJob
<1>2. job.status # "NONE"
  BY <1>1 DEF PromiseInv, PlaceInv
<1>3. job.status = "PENDING" \/ disturbed
  BY <1>1, <1>2, DisturbedOrSpent DEF PromiseInv, SoloInv, Untouched
<1>4. job.status \in {"PENDING", "PROCESSING", "COMPLETED", "FAILED"}
  BY <1>1, <1>2 DEF PromiseInv, IInv, TypeOK
<1> QED
  BY <1>1, <1>3, <1>4 DEF Import!Start, Import!Underway, disturbed

\* Whoever is past the start of a job works on one that is under way.
LEMMA MidwayIsUnderway ==
  ASSUME PromiseInv, NEW c \in Consumers, pc[c] \in Midway, job.status # "GONE"
  PROVE  Import!Underway
<1>1. job.status \notin {"NONE", "PENDING", "GONE"}
  BY DEF PromiseInv, PlaceInv, Midway
<1>2. job.status \in {"PROCESSING", "COMPLETED", "FAILED"}
  BY <1>1 DEF PromiseInv, IInv, TypeOK
<1>3. job.status = "PROCESSING" \/ disturbed
  BY <1>1, DisturbedOrSpent DEF PromiseInv, SoloInv
<1> QED
  BY <1>2, <1>3 DEF Import!Underway, disturbed

LEMMA LinkRowKeeps ==
  ASSUME PromiseInv, NEW c \in Consumers, LinkRow(c) \/ CommitAnswerLost(c)
  PROVE  \E i \in Rows : Import!Link(i)
<1> DEFINE i == Len(report[c]) + 1
<1>1. /\ pc[c] = "row" /\ job.status # "GONE" /\ linked' = linked \cup {i} /\ job' = job
  BY DEF LinkRow, CommitAnswerLost, Note
<1>2. i \in Rows
  BY <1>1, BulkImportAssumption DEF PromiseInv, IInv, TypeOK, HandlerInv, Rows
<1>3. disturbed => disturbed'
  <2>1. left \in 0..MaxFaults /\ (left' = left \/ left' = left - 1)
    BY DEF LinkRow, CommitAnswerLost, Fault, PromiseInv, IInv, TypeOK
  <2> QED
    BY <2>1, BulkImportAssumption DEF disturbed
<1>4. Import!Underway
  BY <1>1, MidwayIsUnderway DEF Midway
<1> HIDE DEF i
<1>5. Import!Link(i)
  BY <1>1, <1>3, <1>4 DEF Import!Link, disturbed
<1> QED
  BY <1>2, <1>5

\* A completed job's report is its handler's, whose claims are the linked rows when
\* it was alone, and linked at any rate.
LEMMA CompleteKeeps ==
  ASSUME PromiseInv, NEW c \in Consumers, Complete(c)
  PROVE  \E r \in [Rows -> {"linked", "error"}] : Import!Complete(r)
<1> DEFINE r == report[c]
<1>1. /\ pc[c] = "complete" /\ job.status # "GONE" /\ UNCHANGED <<linked, left>>
      /\ job'.status = "COMPLETED" /\ job'.report = r
  BY DEF Complete
<1>2. r \in Seq(Outcome) /\ Len(r) = RowCount
  BY <1>1 DEF PromiseInv, IInv, TypeOK, HandlerInv
<1>3. r \in [Rows -> {"linked", "error"}]
  BY <1>2 DEF Rows, Outcome
<1>4. Import!Claimed(r) = Tally(r)
  BY <1>2, BulkImportAssumption DEF Import!Claimed, Import!Rows, Tally, Rows
<1>5. Tally(r) \subseteq linked
  BY <1>2, BulkImportAssumption DEF PromiseInv, IInv, RowsInv, Honest, Tally, Rows
<1>6. ~disturbed => Tally(r) = linked
  BY <1>1, DisturbedOrSpent DEF PromiseInv, SoloInv, Midway
<1>7. Import!Underway
  BY <1>1, MidwayIsUnderway DEF Midway
<1> HIDE DEF r
<1>8. Import!Complete(r)
  BY <1>1, <1>4, <1>5, <1>6, <1>7 DEF Import!Complete, disturbed
<1> QED
  BY <1>3, <1>8

\* A job fails for a fault.
LEMMA MarkFailedKeeps ==
  ASSUME PromiseInv, NEW c \in Consumers, MarkFailed(c)
  PROVE  Import!Fail \/ Import!Disturb \/ UNCHANGED importVars
<1>1. CASE Fault("database") /\ UNCHANGED <<job, linked>>
  <2>1. disturbed'
    BY <1>1, BulkImportAssumption DEF Fault, PromiseInv, IInv, TypeOK, disturbed
  <2> QED
    BY <1>1, <2>1 DEF Import!Disturb, disturbed
<1>2. CASE UNCHANGED <<job, linked, left>>
  BY <1>2 DEF importVars, disturbed
<1>3. CASE /\ UNCHANGED <<linked, left>> /\ job.status # "GONE"
           /\ job' = [job EXCEPT !.status = "FAILED", !.report = <<>>]
  <2>1. pc[c] = "fail"
    BY DEF MarkFailed
  <2>2. job.status # "NONE" /\ disturbed
    BY <1>3, <2>1, DisturbedOrSpent DEF PromiseInv, PlaceInv, IInv, FaultInv, Blamed
  <2>3. job'.status = "FAILED" /\ job'.report = <<>>
    BY <1>3 DEF PromiseInv, IInv, TypeOK
  <2> QED
    BY <1>3, <2>2, <2>3 DEF Import!Fail, disturbed
<1> QED
  BY <1>1, <1>2, <1>3 DEF MarkFailed, broker

\* Other faults only disturb.
LEMMA FaultKeeps ==
  ASSUME PromiseInv, NEW kind, Fault(kind), UNCHANGED <<job, linked>>
  PROVE  Import!Disturb
<1>1. disturbed'
  BY BulkImportAssumption DEF Fault, PromiseInv, IInv, TypeOK, disturbed
<1> QED
  BY <1>1 DEF Import!Disturb, disturbed

LEMMA HandlerKeeps ==
  ASSUME PromiseInv, NEW c \in Consumers, Handler(c)
  PROVE  Import!Next \/ UNCHANGED importVars
<1>1. CASE StartJob(c)
  BY <1>1, StartJobKeeps DEF Import!Next
<1>2. CASE LinkRow(c) \/ CommitAnswerLost(c)
  BY <1>2, LinkRowKeeps DEF Import!Next, Import!Rows, Rows
<1>3. CASE Complete(c)
  BY <1>3, CompleteKeeps DEF Import!Next, Import!Rows, Rows
<1>4. CASE MarkFailed(c)
  BY <1>4, MarkFailedKeeps DEF Import!Next
<1>5. CASE DbFault(c) \/ RedisFault(c)
  BY <1>5, FaultKeeps DEF DbFault, RedisFault, Import!Next
<1>6. CASE SaveProgress(c)
  <2>1. job'.status = job.status /\ job'.report = job.report /\ UNCHANGED <<linked, left>>
    BY <1>6 DEF SaveProgress, PromiseInv, IInv, TypeOK
  <2> QED
    BY <2>1 DEF importVars, disturbed
<1>7. CASE \/ ReadJob(c) \/ RowFails(c) \/ Notify(c) \/ Announce(c) \/ Ack(c)
           \/ AckThrows(c) \/ AckFailed(c) \/ JobGone(c)
  BY <1>7 DEF ReadJob, RowFails, Note, Notify, Announce, Ack, AckThrows, AckFailed,
              JobGone, importVars, disturbed
<1> QED
  BY <1>1, <1>2, <1>3, <1>4, <1>5, <1>6, <1>7 DEF Handler

\* The import, with its queue, redeliveries, handlers and their failures, implements
\* the promise of ImportJob: worked off once and reported exactly without a fault,
\* and never with a claim that is not so.
THEOREM ImportRefinement == Spec => KeepsImport
<1>1. Init => Import!Init
  BY BulkImportAssumption DEF Init, Import!Init
<1>2. PromiseInv /\ [Next]_vars => [Import!Next]_(Import!vars)
  <2> SUFFICES ASSUME PromiseInv, [Next]_vars
               PROVE  Import!Next \/ UNCHANGED importVars
    BY DEF importVars, Import!vars, disturbed
  <2>1. CASE CreateJob
    BY <2>1, CreateJobKeeps DEF Import!Next
  <2>2. CASE DeleteCourse
    BY <2>2, DeleteCourseKeeps DEF Import!Next
  <2>3. CASE Publish
    <3>1. UNCHANGED <<job, linked>> /\ (UNCHANGED left \/ Fault("duplicate"))
      BY <2>3 DEF Publish, PromiseInv, IInv, TypeOK
    <3> QED
      BY <3>1, FaultKeeps DEF importVars, disturbed, Import!Next
  <2>4. CASE \E c \in Consumers : Deliver(c)
    BY <2>4 DEF Deliver, importVars, disturbed
  <2>5. CASE \E c \in Consumers : Handler(c)
    BY <2>5, HandlerKeeps
  <2>6. CASE \E c \in Consumers : Drop(c) \/ Crash(c)
    BY <2>6, FaultKeeps DEF Drop, Crash, CloseChannel, Import!Next
  <2>7. CASE UNCHANGED vars
    BY <2>7 DEF vars, importVars, disturbed
  <2> QED
    BY <2>1, <2>2, <2>3, <2>4, <2>5, <2>6, <2>7 DEF Next
<1> QED
  BY <1>1, <1>2, PromiseInvariance, PTL DEF Spec, KeepsImport, Import!Spec

-----------------------------------------------------------------------------
(* ImportPanel: the inductive invariant.                                   *)

\* What a view says of a job's end is so, unless the job left that end.
True(v) == v.status \in Terminal => jobs[v.of] = v.status \/ v.of \in undone

\* The end that the consumer is about to publish is one the job has reached; what
\* the panel is concerned with was submitted.
JobInv ==
  /\ \A j \in Jobs :
       unsent[j] # "none" => jobs[j] # "none" /\ (unsent[j] = jobs[j] \/ j \in undone)
  /\ \A j \in Jobs : reloads[j] > 0 => jobs[j] # "none"
  /\ jobId # 0 => busy = 0 /\ jobs[jobId] # "none"
  /\ busy # 0 => jobs[busy] # "none"

\* Frames are the job's own, and true.
FrameInv ==
  /\ jobId = 0 => feed = "closed" /\ wire = <<>>
  /\ \A k \in DOMAIN wire : wire[k].of = jobId /\ True(wire[k])
  /\ progress # Unseen => True(progress)
  /\ jobId # 0 /\ progress # Unseen => progress.of = jobId

\* Polls are of submitted jobs, and their answers true; what the panel was given is
\* its job's, unless it came from a former job's poll.
PollInv ==
  /\ \A i \in DOMAIN polls : jobs[polls[i].of] # "none" /\ True(polls[i])
  /\ polled # Unseen => True(polled)
  /\ jobId # 0 /\ polled # Unseen /\ jobId \notin early => polled.of = jobId
  /\ busy # 0 /\ busy \notin early => polled = Unseen

\* A reload is remembered for as long as the panel submits and has the job; a
\* COMPLETED that is shown was reloaded for, unless a former job's poll showed it.
ReloadInv ==
  /\ \A j \in Jobs : reloads[j] <= 1
  /\ \A j \in Jobs : j = jobId \/ j = busy => (reloads[j] = 1 <=> reloaded)
  /\ \A j \in Jobs : reloads[j] = 1 /\ j \notin early \cup undone => jobs[j] = "COMPLETED"
  /\ jobId # 0 /\ jobId \notin early /\ JobStatus = "COMPLETED" => reloaded

PanelInv == PanelTypeOK /\ JobInv /\ FrameInv /\ PollInv /\ ReloadInv

-----------------------------------------------------------------------------
(* One lemma per action, one step per conjunct of the invariant.           *)

\* An end once reached is left only by a job that is marked as undone.
EndsStay ==
  /\ undone \subseteq undone'
  /\ \A j \in Jobs : jobs[j] \in Terminal => jobs'[j] = jobs[j] \/ j \in undone'

LEMMA TrueStays ==
  ASSUME NEW v, v.of \in Jobs, True(v), EndsStay
  PROVE  v.status \in Terminal => jobs'[v.of] = v.status \/ v.of \in undone'
BY DEF True, EndsStay

LEMMA AppendElements ==
  ASSUME NEW S, NEW s \in Seq(S), NEW x \in S
  PROVE  /\ Append(s, x) \in Seq(S)
         /\ \A k \in DOMAIN Append(s, x) :
              \/ Append(s, x)[k] = x
              \/ k \in DOMAIN s /\ Append(s, x)[k] = s[k]
OBVIOUS

LEMMA TailElements ==
  ASSUME NEW S, NEW s \in Seq(S), s # <<>>
  PROVE  /\ Tail(s) \in Seq(S) /\ 1 \in DOMAIN s /\ Head(s) = s[1] /\ Head(s) \in S
         /\ \A k \in DOMAIN Tail(s) : k + 1 \in DOMAIN s /\ Tail(s)[k] = s[k + 1]
OBVIOUS

LEMMA WithoutPollElements ==
  ASSUME PanelTypeOK, NEW i \in DOMAIN polls
  PROVE  /\ WithoutPoll(i) \in Seq(Poll)
         /\ \A k \in DOMAIN WithoutPoll(i) : \E l \in DOMAIN polls : WithoutPoll(i)[k] = polls[l]
<1>1. polls \in Seq(Poll) /\ Len(polls) \in Nat \ {0} /\ DOMAIN polls = 1..Len(polls)
  BY DEF PanelTypeOK
<1>2. Len(polls) - 1 \in Nat
  BY <1>1
<1>3. \A k \in 1..(Len(polls) - 1) :
        /\ k \in DOMAIN polls /\ k + 1 \in DOMAIN polls
        /\ WithoutPoll(i)[k] \in {polls[k], polls[k + 1]}
  BY <1>1 DEF WithoutPoll
<1>4. \A l \in DOMAIN polls : polls[l] \in Poll
  BY <1>1
<1>5. DOMAIN WithoutPoll(i) = 1..(Len(polls) - 1)
  BY DEF WithoutPoll
<1>6. WithoutPoll(i) \in [1..(Len(polls) - 1) -> Poll]
  BY <1>3, <1>4 DEF WithoutPoll
<1>7. WithoutPoll(i) \in Seq(Poll)
  BY ONLY <1>2, <1>6
<1>8. \A k \in 1..(Len(polls) - 1) : \E l \in DOMAIN polls : WithoutPoll(i)[k] = polls[l]
  BY <1>3
<1> QED
  BY <1>5, <1>7, <1>8

LEMMA MessagesOfJobs ==
  ASSUME PanelTypeOK
  PROVE  /\ \A k \in DOMAIN wire : wire[k] \in View /\ wire[k].of \in Jobs
         /\ \A k \in DOMAIN polls : polls[k] \in Poll /\ polls[k].of \in Jobs
         /\ progress # Unseen => progress \in View /\ progress.of \in Jobs
         /\ polled # Unseen => polled \in View /\ polled.of \in Jobs
<1>1. /\ wire \in Seq(View) /\ polls \in Seq(Poll)
      /\ progress # Unseen => progress \in View
      /\ polled # Unseen => polled \in View
  BY DEF PanelTypeOK
<1>2. /\ \A v \in View : v.of \in Jobs
      /\ \A v \in Poll : v.of \in Jobs
  BY DEF View, Poll
<1> QED
  BY <1>1, <1>2

LEMMA MishapStep ==
  ASSUME PanelTypeOK, Mishap
  PROVE  mishaps' \in 0..MaxMishaps
BY ImportPanelAssumption DEF PanelTypeOK, Mishap

\* A job moves, and the panel is not concerned yet.
LEMMA JobMoves ==
  ASSUME PanelInv, UNCHANGED <<panel, feed, wire, polls, reloads, early>>, EndsStay,
         PanelTypeOK', JobInv', \A k \in Jobs : jobs[k] # "none" => jobs'[k] # "none"
  PROVE  PanelInv'
<1> USE DEF PanelInv, panel
<1>1. FrameInv'
  <2>1. \A k \in DOMAIN wire : wire[k].of \in Jobs
    BY MessagesOfJobs
  <2>2. progress # Unseen => progress.of \in Jobs
    BY MessagesOfJobs
  <2>3. \A k \in DOMAIN wire : wire[k].of = jobId /\ True(wire[k])
    BY DEF FrameInv
  <2>4. (progress # Unseen => True(progress))'
    BY <2>2, TrueStays DEF FrameInv, True
  <2>5. (\A k \in DOMAIN wire : wire[k].of = jobId /\ True(wire[k]))'
    BY <2>1, <2>3, TrueStays DEF True
  <2> QED
    BY <2>4, <2>5 DEF FrameInv
<1>2. PollInv'
  <2>1. \A i \in DOMAIN polls : polls[i].of \in Jobs
    BY MessagesOfJobs
  <2>2. polled # Unseen => polled.of \in Jobs
    BY MessagesOfJobs
  <2>3. \A i \in DOMAIN polls : jobs[polls[i].of] # "none" /\ True(polls[i])
    BY DEF PollInv
  <2>4. (polled # Unseen => True(polled))'
    BY <2>2, TrueStays DEF PollInv, True
  <2>5. (\A i \in DOMAIN polls : jobs[polls[i].of] # "none" /\ True(polls[i]))'
    BY <2>1, <2>3, TrueStays DEF True
  <2> QED
    BY <2>4, <2>5 DEF PollInv
<1>3. ReloadInv'
  BY DEF ReloadInv, EndsStay, Terminal, JobStatus, StatusOf
<1> QED
  BY <1>1, <1>2, <1>3

\* What Refreshed adds to the reloads is right if the end it sees is the job's.
LEMMA RefreshedOnce ==
  ASSUME PanelInv, NEW pr, NEW po, Refreshed(pr, po), UNCHANGED <<jobs, undone>>,
         early \subseteq early', {jobId', busy'} = {jobId, busy},
         \A j \in Jobs :
           /\ j = jobId \/ j = busy
           /\ j \notin early' \cup undone /\ StatusOf(pr, po) = "COMPLETED"
           => jobs[j] = "COMPLETED",
         jobId' # 0 /\ jobId' \notin early' /\ JobStatus' = "COMPLETED"
           => jobId' = jobId /\ StatusOf(pr, po) = "COMPLETED"
  PROVE  /\ reloaded' \in BOOLEAN /\ reloads' \in [Jobs -> Nat]
         /\ \A j \in Jobs : reloads'[j] > 0 => jobs[j] # "none"
         /\ ReloadInv'
<1> DEFINE now == StatusOf(pr, po) = "COMPLETED" /\ JobStatus # "COMPLETED" /\ ~reloaded
<1>1. /\ reloaded' = (reloaded \/ now)
      /\ reloads' = [j \in Jobs |-> reloads[j] + IF now /\ j \in {jobId, busy} THEN 1 ELSE 0]
  BY DEF Refreshed
<1>2. reloads \in [Jobs -> Nat] /\ reloaded \in BOOLEAN
  BY DEF PanelInv, PanelTypeOK
<1>3. ASSUME NEW j \in Jobs
      PROVE  /\ reloads[j] \in {0, 1}
             /\ j = jobId \/ j = busy => (reloads[j] = 1 <=> reloaded)
             /\ reloads[j] = 1 /\ j \notin early \cup undone => jobs[j] = "COMPLETED"
  BY <1>2 DEF PanelInv, ReloadInv
<1>4. \A j \in Jobs : ~(j = jobId \/ j = busy) \/ ~now => reloads'[j] = reloads[j]
  BY <1>1, <1>2
<1>5. \A j \in Jobs : (j = jobId \/ j = busy) /\ now => reloads'[j] = 1
  <2> SUFFICES ASSUME NEW j \in Jobs, j = jobId \/ j = busy, now
               PROVE  reloads'[j] = 1
    OBVIOUS
  <2>1. reloads[j] = 0
    BY <1>3
  <2>2. reloads'[j] = reloads[j] + 1
    BY <1>1
  <2> QED
    BY ONLY <2>1, <2>2
<1>6. reloaded' \in BOOLEAN /\ reloads' \in [Jobs -> Nat]
  BY <1>1, <1>2
<1>7. /\ now => StatusOf(pr, po) = "COMPLETED" /\ ~reloaded
      /\ StatusOf(pr, po) = "COMPLETED" => now \/ reloaded \/ JobStatus = "COMPLETED"
  BY <1>2
<1> HIDE DEF now
<1>8. \A j \in Jobs : j = jobId' \/ j = busy' <=> j = jobId \/ j = busy
  OBVIOUS
<1>9. ReloadInv'
  <2>1. \A j \in Jobs : reloads'[j] <= 1
    BY <1>3, <1>4, <1>5
  <2>2. \A j \in Jobs : j = jobId' \/ j = busy' => (reloads'[j] = 1 <=> reloaded')
    BY <1>1, <1>3, <1>4, <1>5, <1>8
  <2>3. \A j \in Jobs :
          reloads'[j] = 1 /\ j \notin early' \cup undone => jobs[j] = "COMPLETED"
    BY <1>3, <1>4, <1>7
  <2>4. jobId' # 0 /\ jobId' \notin early' /\ JobStatus' = "COMPLETED" => reloaded'
    <3> SUFFICES ASSUME jobId' # 0, jobId' \notin early', JobStatus' = "COMPLETED"
                 PROVE  reloaded'
      OBVIOUS
    <3>1. jobId' = jobId /\ StatusOf(pr, po) = "COMPLETED"
      OBVIOUS
    <3>2. JobStatus = "COMPLETED" => reloaded
      BY <3>1 DEF PanelInv, ReloadInv
    <3> QED
      BY <1>1, <1>7, <3>1, <3>2
  <2> QED
    BY <2>1, <2>2, <2>3, <2>4 DEF ReloadInv
<1>10. \A j \in Jobs : reloads'[j] > 0 => jobs[j] # "none"
  <2>1. \A j \in Jobs : j = jobId \/ j = busy => jobs[j] # "none"
    BY DEF PanelInv, JobInv, Jobs
  <2> QED
    BY <1>4, <2>1 DEF PanelInv, JobInv
<1> QED
  BY <1>6, <1>9, <1>10

LEMMA PanelInitStep == PanelInit => PanelInv
<1> USE ImportPanelAssumption DEF PanelInit, Unseen, Terminal
<1>1. PanelInit => PanelTypeOK
  <2> SUFFICES ASSUME PanelInit
               PROVE  PanelTypeOK
    OBVIOUS
  <2>1. jobs \in [Jobs -> Status \cup {"none"}] /\ reloads \in [Jobs -> Nat]
    OBVIOUS
  <2>2. unsent \in [Jobs -> Terminal \cup {"none"}]
    OBVIOUS
  <2>3. wire \in Seq(View) /\ polls \in Seq(Poll) /\ mishaps \in 0..MaxMishaps
    OBVIOUS
  <2>4. /\ jobId \in Jobs \cup {0} /\ busy \in Jobs \cup {0}
        /\ {progress, polled} \subseteq View \cup {Unseen}
        /\ {early, undone} \subseteq SUBSET Jobs
    OBVIOUS
  <2>5. reloaded \in BOOLEAN /\ feed \in {"closed", "open", "subscribed", "refused"}
    OBVIOUS
  <2> QED
    BY <2>1, <2>2, <2>3, <2>4, <2>5 DEF PanelTypeOK
<1>2. PanelInit => JobInv /\ FrameInv /\ PollInv /\ ReloadInv
  BY DEF JobInv, FrameInv, PollInv, ReloadInv, True, Jobs
<1> QED
  BY <1>1, <1>2 DEF PanelInv

LEMMA StartImportStep ==
  ASSUME PanelInv, NEW j \in Jobs, StartImport(j)
  PROVE  PanelInv'
<1> USE ImportPanelAssumption DEF PanelInv, StartImport, server, panel, history, Mishap
<1>1. PanelTypeOK'
  BY DEF PanelTypeOK, View, Unseen, Poll, Status, Terminal, Jobs
<1>2. JobInv'
  <2>1. /\ jobs' \in [Jobs -> Status \cup {"none"}] /\ jobs'[j] = "PENDING" /\ jobs[j] = "none"
        /\ \A k \in Jobs : k # j => jobs'[k] = jobs[k]
        /\ jobId' = 0 /\ busy' = j /\ UNCHANGED <<unsent, reloads>>
    BY DEF PanelTypeOK, Status
  <2>2. unsent[j] = "none" /\ reloads[j] = 0
    BY DEF JobInv, PanelTypeOK
  <2> QED
    BY <2>1, <2>2 DEF JobInv, Jobs
<1>3. FrameInv'
  BY DEF FrameInv, JobInv, True, PanelTypeOK, View, Unseen, Terminal
<1>4. PollInv'
  BY SMTT(20) DEF PollInv, JobInv, PanelTypeOK, True, View, Poll, Unseen, Terminal, Jobs
<1>5. ReloadInv'
  <2>1. /\ jobId = 0 /\ busy = 0 /\ jobId' = 0 /\ busy' = j /\ reloaded' = FALSE
        /\ UNCHANGED <<reloads, early, undone>> /\ 0 \notin Jobs
    BY DEF Jobs
  <2>2. reloads[j] = 0
    BY DEF JobInv, PanelTypeOK
  <2>3. \A k \in Jobs : jobs[k] # "none" => jobs'[k] = jobs[k]
    BY DEF PanelTypeOK
  <2> QED
    BY <2>1, <2>2, <2>3 DEF ReloadInv
<1> QED
  BY <1>1, <1>2, <1>3, <1>4, <1>5

LEMMA SubmittedStep ==
  ASSUME PanelInv, Submitted
  PROVE  PanelInv'
<1> USE ImportPanelAssumption DEF PanelInv, Submitted, server, panel, history
<1>a. /\ busy \in Jobs /\ busy # 0 /\ jobId = 0 /\ jobId' = busy /\ busy' = 0
      /\ progress' = Unseen /\ Refreshed(Unseen, polled)
      /\ UNCHANGED <<jobs, unsent, polled, feed, wire, polls, early, undone, mishaps>>
  BY DEF PanelTypeOK, JobInv
<1>b. busy \notin early => polled = Unseen
  BY <1>a DEF PollInv
<1>c. /\ reloaded' \in BOOLEAN /\ reloads' \in [Jobs -> Nat]
      /\ \A j \in Jobs : reloads'[j] > 0 => jobs[j] # "none"
      /\ ReloadInv'
  <2>1. busy \notin early => StatusOf(Unseen, polled) # "COMPLETED"
    BY <1>b DEF StatusOf
  <2>2. ASSUME jobId' \notin early', JobStatus' = "COMPLETED"
        PROVE  FALSE
    BY <1>a, <1>b, <2>2 DEF JobStatus, StatusOf
  <2>3. \A j \in Jobs : j = jobId \/ j = busy => j = busy
    BY <1>a DEF Jobs
  <2>4. {jobId', busy'} = {jobId, busy} /\ early \subseteq early' /\ UNCHANGED <<jobs, undone>>
    BY <1>a
  <2> HIDE DEF Submitted
  <2> QED
    BY <1>a, <2>1, <2>2, <2>3, <2>4, RefreshedOnce
<1>1. PanelTypeOK'
  BY <1>a, <1>c DEF PanelTypeOK
<1>2. JobInv'
  BY <1>a, <1>c DEF JobInv
<1>3. FrameInv'
  <2>1. wire = <<>> /\ feed = "closed"
    BY <1>a DEF FrameInv
  <2> QED
    BY <1>a, <2>1 DEF FrameInv
<1>4. PollInv'
  BY <1>a, <1>b DEF PollInv, True
<1>5. ReloadInv'
  BY <1>c
<1> QED
  BY <1>1, <1>2, <1>3, <1>4, <1>5

LEMMA SubmitFailsStep ==
  ASSUME PanelInv, SubmitFails
  PROVE  PanelInv'
<1> USE ImportPanelAssumption DEF PanelInv, SubmitFails, server, panel, history, Mishap
<1>1. PanelTypeOK'
  BY SMTT(20) DEF PanelTypeOK, View, Unseen, Poll, Status, Terminal, Jobs
<1>2. JobInv'
  BY DEF JobInv, PanelTypeOK, Status, Terminal, Jobs
<1>3. FrameInv'
  BY DEF FrameInv, JobInv, True, PanelTypeOK, View, Unseen, Terminal
<1>4. PollInv'
  BY DEF PollInv, JobInv, PanelTypeOK, True, View, Poll, Unseen, Terminal, Jobs
<1>5. ReloadInv'
  BY DEF ReloadInv, JobInv, PanelTypeOK, Terminal, JobStatus, StatusOf
<1> QED
  BY <1>1, <1>2, <1>3, <1>4, <1>5

LEMMA ResetStep ==
  ASSUME PanelInv, Reset
  PROVE  PanelInv'
<1> USE ImportPanelAssumption DEF PanelInv, Reset, server, panel, history, Mishap
<1>1. PanelTypeOK'
  BY SMTT(20) DEF PanelTypeOK, View, Unseen, Poll, Status, Terminal, Jobs
<1>2. JobInv'
  BY DEF JobInv, PanelTypeOK, Status, Terminal, Jobs
<1>3. FrameInv'
  BY DEF FrameInv, JobInv, True, PanelTypeOK, View, Unseen, Terminal
<1>4. PollInv'
  BY DEF PollInv, JobInv, PanelTypeOK, True, View, Poll, Unseen, Terminal, Jobs
<1>5. ReloadInv'
  BY DEF ReloadInv, JobInv, PanelTypeOK, Terminal, JobStatus, StatusOf
<1> QED
  BY <1>1, <1>2, <1>3, <1>4, <1>5

\* What one step of the consumer makes of a job.
LEMMA BecomesStep ==
  ASSUME PanelTypeOK, NEW j \in Jobs, NEW status \in Status, Becomes(j, status)
  PROVE  /\ jobs' \in [Jobs -> Status \cup {"none"}] /\ undone' \subseteq Jobs
         /\ jobs'[j] = status /\ \A k \in Jobs : k # j => jobs'[k] = jobs[k]
         /\ \A k \in Jobs : jobs[k] # "none" => jobs'[k] # "none"
         /\ EndsStay
<1>1. /\ jobs \in [Jobs -> Status \cup {"none"}] /\ undone \subseteq Jobs /\ "none" \notin Status
      /\ jobs' = [jobs EXCEPT ![j] = status]
      /\ undone' = undone \cup (IF jobs[j] \in Terminal \ {status} THEN {j} ELSE {})
  BY DEF PanelTypeOK, Becomes, Status, Terminal
<1>2. jobs'[j] = status /\ \A k \in Jobs : k # j => jobs'[k] = jobs[k]
  BY <1>1
<1>3. EndsStay
  BY <1>1, <1>2 DEF EndsStay
<1> QED
  BY <1>1, <1>2, <1>3

LEMMA StartStep ==
  ASSUME PanelInv, NEW j \in Jobs, Start(j) \/ StartAgain(j)
  PROVE  PanelInv'
<1>1. /\ "PROCESSING" \in Status /\ Becomes(j, "PROCESSING") /\ jobs[j] # "none"
      /\ UNCHANGED <<unsent, panel, feed, wire, polls, reloads, early>>
      /\ mishaps' \in 0..MaxMishaps
  BY MishapStep DEF PanelInv, PanelTypeOK, Start, StartAgain, Status, Terminal
<1>2. /\ jobs' \in [Jobs -> Status \cup {"none"}] /\ undone' \subseteq Jobs
      /\ jobs'[j] = "PROCESSING" /\ \A k \in Jobs : k # j => jobs'[k] = jobs[k]
      /\ \A k \in Jobs : jobs[k] # "none" => jobs'[k] # "none"
      /\ EndsStay
  BY <1>1, BecomesStep DEF PanelInv
<1>3. PanelTypeOK'
  BY <1>1, <1>2 DEF PanelInv, PanelTypeOK, panel
<1>4. JobInv'
  <2>1. \A k \in Jobs : unsent[k] \in Terminal \cup {"none"}
    BY DEF PanelInv, PanelTypeOK
  <2> QED
    BY <1>1, <1>2, <2>1 DEF PanelInv, PanelTypeOK, JobInv, EndsStay, panel
<1> QED
  BY <1>1, <1>2, <1>3, <1>4, JobMoves

LEMMA FinishStep ==
  ASSUME PanelInv, NEW j \in Jobs, Finish(j)
  PROVE  PanelInv'
<1>1. PICK s \in Terminal :
        /\ jobs[j] # "none" /\ Becomes(j, s)
        /\ unsent' = [unsent EXCEPT ![j] = s]
        /\ UNCHANGED <<panel, feed, wire, polls, reloads, early, mishaps>>
  BY DEF Finish
<1>2. /\ jobs' \in [Jobs -> Status \cup {"none"}] /\ undone' \subseteq Jobs
      /\ jobs'[j] = s /\ \A k \in Jobs : k # j => jobs'[k] = jobs[k]
      /\ \A k \in Jobs : jobs[k] # "none" => jobs'[k] # "none"
      /\ EndsStay
  BY <1>1, BecomesStep DEF PanelInv, Status
<1>3. /\ unsent' \in [Jobs -> Terminal \cup {"none"}]
      /\ unsent'[j] = s /\ \A k \in Jobs : k # j => unsent'[k] = unsent[k]
  BY <1>1 DEF PanelInv, PanelTypeOK
<1>4. PanelTypeOK'
  BY <1>1, <1>2, <1>3 DEF PanelInv, PanelTypeOK, panel
<1>5. JobInv'
  BY <1>1, <1>2, <1>3 DEF PanelInv, PanelTypeOK, JobInv, EndsStay, panel
<1> QED
  BY <1>1, <1>2, <1>4, <1>5, JobMoves

LEMMA BroadcastFailsStep ==
  ASSUME PanelInv, NEW j \in Jobs, BroadcastFails(j)
  PROVE  PanelInv'
<1>1. /\ UNCHANGED <<panel, feed, wire, polls, reloads, early>> /\ mishaps' \in 0..MaxMishaps
      /\ jobs[j] # "none"
  BY MishapStep DEF BroadcastFails, PanelInv, JobInv
<1>2. CASE unsent' = [unsent EXCEPT ![j] = "none"] /\ UNCHANGED <<jobs, undone>>
  <2>1. /\ unsent' \in [Jobs -> Terminal \cup {"none"}]
        /\ unsent'[j] = "none" /\ \A k \in Jobs : k # j => unsent'[k] = unsent[k]
    BY <1>2 DEF PanelInv, PanelTypeOK
  <2>2. PanelTypeOK' /\ JobInv' /\ EndsStay
    BY <1>1, <1>2, <2>1 DEF PanelInv, PanelTypeOK, JobInv, EndsStay, panel
  <2> QED
    BY <1>1, <1>2, <2>2, JobMoves
<1>3. CASE unsent' = [unsent EXCEPT ![j] = "FAILED"] /\ Becomes(j, "FAILED")
  <2>1. /\ jobs' \in [Jobs -> Status \cup {"none"}] /\ undone' \subseteq Jobs
        /\ jobs'[j] = "FAILED" /\ \A k \in Jobs : k # j => jobs'[k] = jobs[k]
        /\ \A k \in Jobs : jobs[k] # "none" => jobs'[k] # "none"
        /\ EndsStay
    BY <1>3, BecomesStep DEF PanelInv, Status, Terminal
  <2>2. /\ unsent' \in [Jobs -> Terminal \cup {"none"}]
        /\ unsent'[j] = "FAILED" /\ \A k \in Jobs : k # j => unsent'[k] = unsent[k]
    BY <1>3 DEF PanelInv, PanelTypeOK, Terminal
  <2>3. PanelTypeOK'
    BY <1>1, <2>1, <2>2 DEF PanelInv, PanelTypeOK, panel
  <2>4. JobInv'
    BY <1>1, <2>1, <2>2 DEF PanelInv, PanelTypeOK, JobInv, EndsStay, panel
  <2> QED
    BY <1>1, <2>1, <2>3, <2>4, JobMoves
<1> QED
  BY <1>2, <1>3 DEF BroadcastFails

\* A true frame joins the wire of a subscribed panel.
LEMMA FramedStep ==
  ASSUME PanelInv, NEW j \in Jobs, NEW status \in Status, Framed(j, status),
         UNCHANGED <<jobs, undone, jobId, progress, feed>>,
         status \in Terminal => jobs[j] = status \/ j \in undone
  PROVE  wire' \in Seq(View) /\ FrameInv'
<1> DEFINE f == [of |-> j, status |-> status]
<1>1. f \in View /\ True(f) /\ f.of = j
  BY DEF View, True
<1>2. wire \in Seq(View) /\ 0 \notin Jobs
  BY DEF PanelInv, PanelTypeOK, Jobs
<1>3. CASE jobId = j /\ feed = "subscribed"
  <2>1. wire' = Append(wire, f)
    BY <1>3 DEF Framed
  <2> HIDE DEF f
  <2>2. /\ wire' \in Seq(View)
        /\ \A k \in DOMAIN wire' :
             \/ wire'[k] = f
             \/ k \in DOMAIN wire /\ wire'[k] = wire[k]
    BY <1>1, <1>2, <2>1, AppendElements
  <2>3. \A k \in DOMAIN wire' : wire'[k].of = jobId /\ True(wire'[k])
    BY <1>1, <1>3, <2>2 DEF PanelInv, FrameInv
  <2> QED
    BY <1>2, <1>3, <2>2, <2>3 DEF PanelInv, FrameInv, True
<1>4. CASE ~(jobId = j /\ feed = "subscribed")
  BY <1>2, <1>4 DEF PanelInv, Framed, FrameInv, True
<1> QED
  BY <1>3, <1>4

LEMMA ChunkStep ==
  ASSUME PanelInv, NEW j \in Jobs, Chunk(j)
  PROVE  PanelInv'
<1>1. wire' \in Seq(View) /\ FrameInv'
  BY FramedStep DEF Chunk, Status, Terminal, server, panel, history
<1>2. mishaps' \in 0..MaxMishaps
  BY MishapStep DEF PanelInv, PanelTypeOK, Chunk
<1>3. PanelTypeOK'
  BY <1>1, <1>2 DEF PanelInv, PanelTypeOK, Chunk, server, panel, history
<1>4. JobInv' /\ PollInv' /\ ReloadInv'
  BY DEF PanelInv, JobInv, PollInv, ReloadInv, JobStatus, StatusOf, True, Chunk, server,
     panel, history
<1> QED
  BY <1>1, <1>3, <1>4 DEF PanelInv

LEMMA BroadcastStep ==
  ASSUME PanelInv, NEW j \in Jobs, Broadcast(j)
  PROVE  PanelInv'
<1>1. unsent[j] \in Terminal /\ (jobs[j] = unsent[j] \/ j \in undone)
  BY DEF PanelInv, PanelTypeOK, JobInv, Broadcast
<1>2. wire' \in Seq(View) /\ FrameInv'
  BY <1>1, FramedStep DEF Broadcast, Status, panel, history
<1>3. /\ unsent' \in [Jobs -> Terminal \cup {"none"}]
      /\ unsent'[j] = "none" /\ \A k \in Jobs : k # j => unsent'[k] = unsent[k]
  BY DEF PanelInv, PanelTypeOK, Broadcast
<1>4. PanelTypeOK'
  BY <1>2, <1>3 DEF PanelInv, PanelTypeOK, Broadcast, panel, history
<1>5. JobInv'
  BY <1>3 DEF PanelInv, JobInv, Broadcast, panel, history
<1>6. PollInv' /\ ReloadInv'
  BY DEF PanelInv, PollInv, ReloadInv, JobStatus, StatusOf, True, Broadcast, panel, history
<1> QED
  BY <1>2, <1>4, <1>5, <1>6 DEF PanelInv

LEMMA OpenStep ==
  ASSUME PanelInv, Open
  PROVE  PanelInv'
<1> USE ImportPanelAssumption DEF PanelInv, Open, server, panel, history, Mishap
<1>1. PanelTypeOK'
  BY DEF PanelTypeOK, View, Unseen, Poll, Status, Terminal, Jobs
<1>2. JobInv'
  BY DEF JobInv, PanelTypeOK, Status, Terminal, Jobs
<1>3. FrameInv'
  BY DEF FrameInv, JobInv, True, PanelTypeOK, View, Unseen, Terminal
<1>4. PollInv'
  BY DEF PollInv, JobInv, PanelTypeOK, True, View, Poll, Unseen, Terminal, Jobs
<1>5. ReloadInv'
  BY DEF ReloadInv, JobInv, PanelTypeOK, Terminal, JobStatus, StatusOf
<1> QED
  BY <1>1, <1>2, <1>3, <1>4, <1>5

LEMMA SubscribeStep ==
  ASSUME PanelInv, Subscribe
  PROVE  PanelInv'
<1> USE ImportPanelAssumption DEF PanelInv, Subscribe, server, panel, history, Mishap
<1>1. PanelTypeOK'
  BY DEF PanelTypeOK, View, Unseen, Poll, Status, Terminal, Jobs
<1>2. JobInv'
  BY DEF JobInv, PanelTypeOK, Status, Terminal, Jobs
<1>3. FrameInv'
  BY DEF FrameInv, JobInv, True, PanelTypeOK, View, Unseen, Terminal
<1>4. PollInv'
  BY DEF PollInv, JobInv, PanelTypeOK, True, View, Poll, Unseen, Terminal, Jobs
<1>5. ReloadInv'
  BY DEF ReloadInv, JobInv, PanelTypeOK, Terminal, JobStatus, StatusOf
<1> QED
  BY <1>1, <1>2, <1>3, <1>4, <1>5

LEMMA SubscribeRefusedStep ==
  ASSUME PanelInv, SubscribeRefused
  PROVE  PanelInv'
<1> USE ImportPanelAssumption DEF PanelInv, SubscribeRefused, server, panel, history, Mishap
<1>1. PanelTypeOK'
  BY SMTT(20) DEF PanelTypeOK, View, Unseen, Poll, Status, Terminal, Jobs
<1>2. JobInv'
  BY DEF JobInv, PanelTypeOK, Status, Terminal, Jobs
<1>3. FrameInv'
  BY DEF FrameInv, JobInv, True, PanelTypeOK, View, Unseen, Terminal
<1>4. PollInv'
  BY DEF PollInv, JobInv, PanelTypeOK, True, View, Poll, Unseen, Terminal, Jobs
<1>5. ReloadInv'
  BY DEF ReloadInv, JobInv, PanelTypeOK, Terminal, JobStatus, StatusOf
<1> QED
  BY <1>1, <1>2, <1>3, <1>4, <1>5

LEMMA BreakStep ==
  ASSUME PanelInv, Break
  PROVE  PanelInv'
<1> USE ImportPanelAssumption DEF PanelInv, Break, server, panel, history, Mishap
<1>1. PanelTypeOK'
  BY SMTT(20) DEF PanelTypeOK, View, Unseen, Poll, Status, Terminal, Jobs
<1>2. JobInv'
  BY DEF JobInv, PanelTypeOK, Status, Terminal, Jobs
<1>3. FrameInv'
  BY DEF FrameInv, JobInv, True, PanelTypeOK, View, Unseen, Terminal
<1>4. PollInv'
  BY DEF PollInv, JobInv, PanelTypeOK, True, View, Poll, Unseen, Terminal, Jobs
<1>5. ReloadInv'
  BY DEF ReloadInv, JobInv, PanelTypeOK, Terminal, JobStatus, StatusOf
<1> QED
  BY <1>1, <1>2, <1>3, <1>4, <1>5

LEMMA FrameStep ==
  ASSUME PanelInv, Frame
  PROVE  PanelInv'
<1> USE ImportPanelAssumption DEF PanelInv, Frame, server, panel, history, Mishap, Refreshed
<1> DEFINE f == Head(wire)
<1>a. /\ f \in View /\ wire' \in Seq(View) /\ f.of = jobId /\ True(f) /\ f # Unseen
      /\ \A k \in DOMAIN wire' : wire'[k].of = jobId /\ True(wire'[k])
      /\ progress' = f /\ UNCHANGED <<jobs, jobId, busy, undone, early, unsent, polled, feed, polls, mishaps>>
      /\ jobId # 0
  <2>1. /\ Tail(wire) \in Seq(View) /\ 1 \in DOMAIN wire /\ f = wire[1] /\ f \in View
        /\ \A k \in DOMAIN Tail(wire) : k + 1 \in DOMAIN wire /\ Tail(wire)[k] = wire[k + 1]
    BY TailElements DEF PanelTypeOK
  <2>2. f # Unseen
    BY <2>1 DEF View, Unseen, Jobs
  <2> QED
    BY <2>1, <2>2 DEF FrameInv
<1>b. /\ reloaded' \in BOOLEAN /\ reloads' \in [Jobs -> Nat]
      /\ \A j \in Jobs : reloads'[j] > 0 => jobs[j] # "none"
      /\ ReloadInv'
  <2>1. Refreshed(f, polled)
    OBVIOUS
  <2>2. StatusOf(f, polled) = "COMPLETED" /\ jobId \notin undone => jobs[jobId] = "COMPLETED"
    BY <1>a DEF StatusOf, True, Terminal
  <2>3. busy = 0 /\ 0 \notin Jobs
    BY <1>a DEF JobInv, Jobs
  <2>4. JobStatus' = "COMPLETED" => StatusOf(f, polled) = "COMPLETED"
    BY <1>a DEF JobStatus, StatusOf
  <2> HIDE DEF f, Frame
  <2> QED
    BY <1>a, <2>1, <2>2, <2>3, <2>4, RefreshedOnce
<1> HIDE DEF f
<1>1. PanelTypeOK'
  BY <1>a, <1>b DEF PanelTypeOK
<1>2. JobInv'
  BY <1>a, <1>b DEF JobInv
<1>3. FrameInv'
  BY <1>a DEF FrameInv, True
<1>4. PollInv'
  BY <1>a DEF PollInv, True
<1>5. ReloadInv'
  BY <1>b
<1> QED
  BY <1>1, <1>2, <1>3, <1>4, <1>5

LEMMA AskStep ==
  ASSUME PanelInv, Ask
  PROVE  PanelInv'
<1> USE ImportPanelAssumption DEF PanelInv, Ask, server, panel, history, Mishap
<1>1. PanelTypeOK'
  <2>1. [of |-> jobId, status |-> "unread"] \in Poll
    BY DEF PanelTypeOK, Poll
  <2>2. polls' \in Seq(Poll)
    BY <2>1, AppendElements DEF PanelTypeOK
  <2> QED
    BY <2>2 DEF PanelTypeOK
<1>2. JobInv'
  BY DEF JobInv, PanelTypeOK, Status, Terminal, Jobs
<1>3. FrameInv'
  BY DEF FrameInv, JobInv, True, PanelTypeOK, View, Unseen, Terminal
<1>4. PollInv'
  <2> DEFINE q == [of |-> jobId, status |-> "unread"]
  <2>1. q \in Poll /\ True(q) /\ jobs[q.of] # "none"
    BY DEF PanelTypeOK, Poll, True, JobInv, Terminal
  <2>2. polls' = Append(polls, q) /\ polls \in Seq(Poll)
    BY DEF PanelTypeOK
  <2> HIDE DEF q
  <2>3. \A k \in DOMAIN polls' :
          \/ polls'[k] = q
          \/ k \in DOMAIN polls /\ polls'[k] = polls[k]
    BY ONLY <2>1, <2>2, AppendElements
  <2>4. \A k \in DOMAIN polls' : jobs[polls'[k].of] # "none" /\ True(polls'[k])
    BY <2>1, <2>3 DEF PollInv
  <2> QED
    BY <2>4 DEF PollInv, True
<1>5. ReloadInv'
  BY DEF ReloadInv, JobInv, PanelTypeOK, Terminal, JobStatus, StatusOf
<1> QED
  BY <1>1, <1>2, <1>3, <1>4, <1>5

LEMMA GetImportJobStep ==
  ASSUME PanelInv, NEW i \in 1..MaxPolls, GetImportJob(i)
  PROVE  PanelInv'
<1> USE ImportPanelAssumption DEF PanelInv, GetImportJob, server, panel, history, Mishap
<1> DEFINE q == [polls[i] EXCEPT !.status = jobs[polls[i].of]]
<1>a. /\ polls' = [polls EXCEPT ![i] = q] /\ i \in DOMAIN polls
      /\ UNCHANGED <<server, jobId, busy, progress, polled, reloaded, feed, wire, reloads,
                    early, undone, mishaps>>
  OBVIOUS
<1>b. polls[i] \in Poll /\ jobs[polls[i].of] # "none"
  BY <1>a DEF PanelTypeOK, PollInv
<1>c. q \in Poll /\ True(q) /\ q.of = polls[i].of
  BY <1>b DEF PanelTypeOK, Poll, True
<1>d. DOMAIN polls' = DOMAIN polls /\ polls'[i] = q /\ \A k \in DOMAIN polls : k # i => polls'[k] = polls[k]
  BY <1>a
<1>1. PanelTypeOK'
  <2>1. polls' \in Seq(Poll)
    BY <1>a, <1>c DEF PanelTypeOK
  <2> QED
    BY <1>a, <2>1 DEF PanelTypeOK
<1>2. JobInv'
  BY DEF JobInv, PanelTypeOK, Status, Terminal, Jobs
<1>3. FrameInv'
  BY DEF FrameInv, JobInv, True, PanelTypeOK, View, Unseen, Terminal
<1>4. PollInv'
  <2>1. \A k \in DOMAIN polls' : jobs[polls'[k].of] # "none" /\ True(polls'[k])
    BY <1>b, <1>c, <1>d DEF PollInv
  <2> QED
    BY <1>a, <2>1 DEF PollInv, True
<1>5. ReloadInv'
  BY DEF ReloadInv, JobInv, PanelTypeOK, Terminal, JobStatus, StatusOf
<1> QED
  BY <1>1, <1>2, <1>3, <1>4, <1>5

LEMMA SetPolledJobStep ==
  ASSUME PanelInv, NEW i \in 1..MaxPolls, SetPolledJob(i)
  PROVE  PanelInv'
<1> USE ImportPanelAssumption DEF PanelInv, SetPolledJob, server, panel, history, Mishap, Refreshed, WithoutPoll
<1> DEFINE q == polls[i]
<1>a. /\ q \in View /\ True(q) /\ q # Unseen
      /\ polled' = q /\ UNCHANGED <<server, jobId, busy, progress, feed, wire, undone, mishaps>>
      /\ early' = early \cup (IF q.of = jobId THEN {} ELSE Jobs \cap {jobId, busy})
      /\ Refreshed(progress, q)
  <2>1. q \in Poll /\ q.status # "unread" /\ True(q)
    BY DEF PanelTypeOK, PollInv
  <2>2. q \in View /\ q # Unseen
    BY <2>1 DEF View, Poll, Unseen, Jobs
  <2> QED
    BY <2>1, <2>2
<1>b. polls' \in Seq(Poll) /\ \A k \in DOMAIN polls' : \E l \in DOMAIN polls : polls'[k] = polls[l]
  BY WithoutPollElements
<1> HIDE DEF q, SetPolledJob
<1>c. /\ reloaded' \in BOOLEAN /\ reloads' \in [Jobs -> Nat]
      /\ \A j \in Jobs : reloads'[j] > 0 => jobs[j] # "none"
      /\ ReloadInv'
  <2>1. ASSUME NEW j \in Jobs, j = jobId \/ j = busy, j \notin early' \cup undone,
               StatusOf(progress, q) = "COMPLETED"
        PROVE  jobs[j] = "COMPLETED"
    <3>1. q.of = jobId
      BY <1>a, <2>1
    <3>2. j = jobId /\ jobId # 0
      BY <1>a, <2>1, <3>1 DEF JobInv, View, Jobs
    <3> QED
      BY <1>a, <2>1, <3>1, <3>2 DEF StatusOf, True, Terminal, FrameInv
  <2>2. JobStatus' = "COMPLETED" => StatusOf(progress, q) = "COMPLETED"
    BY <1>a DEF JobStatus, StatusOf
  <2> QED
    BY <1>a, <2>1, <2>2, RefreshedOnce
<1>1. PanelTypeOK'
  <2>1. early' \subseteq Jobs
    BY <1>a DEF PanelTypeOK
  <2> QED
    BY <1>a, <1>b, <1>c, <2>1 DEF PanelTypeOK
<1>2. JobInv'
  BY <1>a, <1>c DEF JobInv
<1>3. FrameInv'
  BY <1>a DEF FrameInv, True
<1>4. PollInv'
  <2>1. \A k \in DOMAIN polls' : jobs[polls'[k].of] # "none" /\ True(polls'[k])
    BY <1>b DEF PollInv
  <2>2. jobId # 0 /\ jobId \notin early' => q.of = jobId
    BY <1>a DEF PanelTypeOK
  <2>3. busy # 0 /\ busy \notin early' => FALSE
    BY <1>a DEF PanelTypeOK, JobInv, View, Jobs
  <2> QED
    BY <1>a, <2>1, <2>2, <2>3 DEF PollInv, True
<1>5. ReloadInv'
  BY <1>c
<1> QED
  BY <1>1, <1>2, <1>3, <1>4, <1>5

LEMMA PollFailsStep ==
  ASSUME PanelInv, NEW i \in 1..MaxPolls, PollFails(i)
  PROVE  PanelInv'
<1> USE ImportPanelAssumption DEF PanelInv, PollFails, server, panel, history, Mishap
<1>1. PanelTypeOK'
  <2>1. polls' \in Seq(Poll)
    BY WithoutPollElements
  <2> QED
    BY <2>1 DEF PanelTypeOK
<1>2. JobInv'
  BY DEF JobInv, PanelTypeOK, Status, Terminal, Jobs
<1>3. FrameInv'
  BY DEF FrameInv, JobInv, True, PanelTypeOK, View, Unseen, Terminal
<1>4. PollInv'
  <2>1. \A k \in DOMAIN polls' : \E l \in DOMAIN polls : polls'[k] = polls[l]
    <3>1. polls' = WithoutPoll(i) /\ i \in DOMAIN polls
      OBVIOUS
    <3> QED
      BY <3>1, WithoutPollElements
  <2>2. \A k \in DOMAIN polls' : jobs[polls'[k].of] # "none" /\ True(polls'[k])
    BY <2>1 DEF PollInv
  <2> QED
    BY <2>2 DEF PollInv, True
<1>5. ReloadInv'
  BY DEF ReloadInv, JobInv, PanelTypeOK, Terminal, JobStatus, StatusOf
<1> QED
  BY <1>1, <1>2, <1>3, <1>4, <1>5

LEMMA PanelStutterStep ==
  ASSUME PanelInv, UNCHANGED panelVars
  PROVE  PanelInv'
BY DEF PanelInv, panelVars, server, panel, history, PanelTypeOK, JobInv, FrameInv, PollInv, ReloadInv,
   JobStatus, StatusOf, True

LEMMA PanelNextStep == PanelInv /\ [PanelNext]_panelVars => PanelInv'
<1> SUFFICES ASSUME PanelInv, [PanelNext]_panelVars
             PROVE  PanelInv'
  OBVIOUS
<1> QED
  BY StartImportStep, SubmittedStep, SubmitFailsStep, ResetStep, StartStep, ChunkStep, FinishStep,
     BroadcastStep, BroadcastFailsStep, OpenStep, SubscribeStep, SubscribeRefusedStep, BreakStep,
     FrameStep, AskStep,
     GetImportJobStep, SetPolledJobStep, PollFailsStep, PanelStutterStep
     DEF PanelNext, Server, Hook

\* The panel's inductive invariant holds in every reachable state.
THEOREM PanelInvariance == PanelSpec => []PanelInv
BY PanelInitStep, PanelNextStep, PTL DEF PanelSpec

\* Every reachable state of the panel and its jobs is well formed.
THEOREM PanelTypeCorrect == PanelSpec => []PanelTypeOK
<1>1. PanelInv => PanelTypeOK
  BY DEF PanelInv
<1> QED
  BY <1>1, PanelInvariance, PTL

\* However pushed frames and polled answers interleave, come late or are lost, a bar
\* at its end shows the end of its own import (BulkImportPanel.tsx:115-119, :131-138).
THEOREM EndsAreReal == PanelSpec => []ShownEndIsReal
<1>1. PanelInv => ShownEndIsReal
  BY DEF PanelInv, FrameInv, PollInv, True, ShownEndIsReal, IsTerminal, JobStatus, StatusOf, Terminal
<1> QED
  BY <1>1, PanelInvariance, PTL

\* However often an end is pushed, polled and shown, the roster is reloaded at most
\* once per import, after its completion, and by the time COMPLETED is shown, unless
\* a former job's answer came between (BulkImportPanel.tsx:142-148).
THEOREM OneReload == PanelSpec => []OneReloadAfterTheEnd
<1>1. PanelInv => OneReloadAfterTheEnd
  BY DEF PanelInv, ReloadInv, OneReloadAfterTheEnd, Jobs
<1> QED
  BY <1>1, PanelInvariance, PTL

-----------------------------------------------------------------------------
(* Roster: the inductive invariant.                                        *)

Tx == [pc: {"new", "find", "create", "existing", "link", "commit", "end"},
       number: Numbers \cup {None}, id: Ids \cup {None}, created: BOOLEAN,
       answer: {"none", "enrolled", "already", "notFound", "emailTaken", "conflict", "failed"}]

\* A transaction past its look-up has a student, and a link it has inserted is not
\* there for others yet.
Placed(x) ==
  /\ x.pc \in {"existing", "link", "commit"} => x.id \in Ids
  /\ x.pc = "commit" => x.id \notin link
TxInv == \A t \in Txs : Placed(tx[t])

\* One transaction at a time holds the uncommitted link of a student.
ExclusiveInv ==
  \A t, u \in Txs : At(t, "commit") /\ At(u, "commit") /\ tx[t].id = tx[u].id => t = u

\* The youngest load on its way, or else what is shown, has what the form was told
\* of or is still to read it, unless an older load was answered last.
LoadInv ==
  told # {} /\ ~overtaken =>
    IF loads = <<>>
    THEN shown # None /\ told \subseteq shown
    ELSE loads[Len(loads)] = None \/ told \subseteq loads[Len(loads)]

RosterInv ==
  RosterTypeOK /\ TxInv /\ ExclusiveInv /\ EventPerLink /\ SubmitsWhatItShows /\ LoadInv

-----------------------------------------------------------------------------
(* What the actions have in common.                                        *)

\* What the form was told of may go; the loads stay as they are.
LEMMA LoadsStay ==
  ASSUME RosterInv, UNCHANGED <<shown, loads, overtaken>>, told' \subseteq told
  PROVE  LoadInv'
BY DEF RosterInv, LoadInv

\* One transaction moves, and nothing else.
LEMMA TxMoves ==
  ASSUME RosterInv, NEW t \in Txs, NEW x \in Tx, tx' = [tx EXCEPT ![t] = x],
         UNCHANGED <<database, page>>, failures' \in 0..MaxFailures, Placed(x),
         \A u \in Txs \ {t} : x.pc = "commit" /\ At(u, "commit") => tx[u].id # x.id
  PROVE  RosterInv'
<1>1. /\ tx' \in [Txs -> Tx] /\ tx'[t] = x
      /\ \A u \in Txs : u # t => tx'[u] = tx[u]
  BY DEF RosterInv, RosterTypeOK, Tx
<1>2. RosterTypeOK'
  BY <1>1 DEF RosterInv, RosterTypeOK, Tx, database, page
<1>3. TxInv'
  BY <1>1 DEF RosterInv, TxInv, Placed, database
<1>4. ExclusiveInv'
  BY <1>1 DEF RosterInv, ExclusiveInv, At
<1>5. EventPerLink' /\ SubmitsWhatItShows' /\ LoadInv'
  BY LoadsStay DEF RosterInv, EventPerLink, SubmitsWhatItShows, database, page
<1> QED
  BY <1>2, <1>3, <1>4, <1>5 DEF RosterInv

\* The page moves, and neither the database nor a transaction.
LEMMA PageMoves ==
  ASSUME RosterInv, UNCHANGED <<student, link, events, newLinks, tx>>,
         RosterTypeOK', SubmitsWhatItShows', LoadInv'
  PROVE  RosterInv'
BY DEF RosterInv, TxInv, Placed, ExclusiveInv, EventPerLink, At

\* A student or a link goes, and no transaction moves.
LEMMA LinkGoes ==
  ASSUME RosterInv, UNCHANGED <<events, newLinks, tx, form, picked, shown, loads, overtaken>>,
         link' \subseteq link, told' \subseteq told, RosterTypeOK'
  PROVE  RosterInv'
BY LoadsStay DEF RosterInv, TxInv, Placed, ExclusiveInv, EventPerLink, SubmitsWhatItShows, At

LEMMA FailureStep ==
  ASSUME RosterTypeOK, Failure
  PROVE  failures' \in 0..MaxFailures
BY RosterAssumption DEF RosterTypeOK, Failure

\* An answered transaction does nothing any more.
Ended(t, a) == [Idle EXCEPT !.pc = "end", !.id = tx[t].id, !.answer = a]
LEMMA AnswerIsATx ==
  ASSUME RosterTypeOK, NEW t \in Txs,
         NEW a \in {"none", "enrolled", "already", "notFound", "emailTaken", "conflict", "failed"}
  PROVE  /\ Ended(t, a) \in Tx /\ Ended(t, a).pc = "end" /\ Placed(Ended(t, a))
         /\ Ended(t, a).id = tx[t].id
<1>1. tx[t].id \in Ids \cup {None}
  BY DEF RosterTypeOK
<1>2. Idle \in Tx
  BY DEF Idle, Tx
<1>3. Ended(t, a) \in Tx /\ Ended(t, a).pc = "end" /\ Ended(t, a).id = tx[t].id
  BY <1>1, <1>2 DEF Ended, Tx
<1> QED
  BY <1>3 DEF Placed

LEMMA AnswerMoves ==
  ASSUME RosterInv, NEW t \in Txs,
         NEW a \in {"none", "enrolled", "already", "notFound", "emailTaken", "conflict", "failed"},
         Answer(t, a), UNCHANGED <<database, page>>, failures' \in 0..MaxFailures
  PROVE  RosterInv'
<1>1. Ended(t, a) \in Tx /\ Ended(t, a).pc = "end" /\ Placed(Ended(t, a))
  BY AnswerIsATx DEF RosterInv
<1>2. tx' = [tx EXCEPT ![t] = Ended(t, a)]
  BY DEF Answer, Ended
<1> QED
  BY <1>1, <1>2, TxMoves

\* A transaction goes on, to an insert of a link only if it collides with none.
LEMMA GotoMoves ==
  ASSUME RosterInv, NEW t \in Txs, NEW l \in {"create", "existing", "link", "commit"}, Goto(t, l),
         UNCHANGED <<database, page, failures>>,
         l # "create" => tx[t].id \in Ids,
         l = "commit" =>
           /\ tx[t].id \notin link
           /\ \A u \in Txs \ {t} : At(u, "commit") => tx[u].id # tx[t].id
  PROVE  RosterInv'
<1> DEFINE x == [tx[t] EXCEPT !.pc = l]
<1>1. tx[t] \in Tx
  BY DEF RosterInv, RosterTypeOK, Tx
<1>2. x \in Tx /\ x.pc = l /\ x.id = tx[t].id
  BY <1>1 DEF Tx
<1>3. tx' = [tx EXCEPT ![t] = x]
  BY DEF Goto
<1>4. Placed(x)
  BY <1>2 DEF Placed
<1>5. failures' \in 0..MaxFailures
  BY DEF RosterInv, RosterTypeOK
<1>6. \A u \in Txs \ {t} : x.pc = "commit" /\ At(u, "commit") => tx[u].id # x.id
  BY <1>2
<1> HIDE DEF x
<1> QED
  BY <1>2, <1>3, <1>4, <1>5, <1>6, TxMoves

\* Removing an element of a sequence.
LEMMA WithoutType ==
  ASSUME RosterTypeOK, NEW i \in DOMAIN loads
  PROVE  Without(i) \in Seq((SUBSET Ids) \cup {None})
<1> DEFINE S == (SUBSET Ids) \cup {None}
<1>1. loads \in Seq(S) /\ Len(loads) \in Nat \ {0} /\ DOMAIN loads = 1..Len(loads)
  BY DEF RosterTypeOK
<1>2. Len(loads) - 1 \in Nat
  BY <1>1
<1>3. \A k \in 1..(Len(loads) - 1) :
        /\ k \in DOMAIN loads /\ k + 1 \in DOMAIN loads
        /\ Without(i)[k] \in {loads[k], loads[k + 1]}
  BY <1>1 DEF Without
<1>4. \A l \in DOMAIN loads : loads[l] \in S
  BY <1>1
<1> HIDE DEF S
<1>5. Without(i) \in [1..(Len(loads) - 1) -> S]
  BY <1>3, <1>4 DEF Without
<1>6. Without(i) \in Seq(S)
  BY ONLY <1>2, <1>5
<1> QED
  BY <1>6 DEF S

-----------------------------------------------------------------------------
(* One lemma per action.                                                   *)

LEMMA RosterInitStep == RosterInit => RosterInv
<1> SUFFICES ASSUME RosterInit
             PROVE  RosterInv
  OBVIOUS
<1> USE DEF RosterInit
<1>1. Idle \in [pc: {"new", "find", "create", "existing", "link", "commit", "end"},
                number: Numbers \cup {None}, id: Ids \cup {None}, created: BOOLEAN,
                answer: {"none", "enrolled", "already", "notFound", "emailTaken", "conflict", "failed"}]
  BY DEF Idle
<1>2. student \in [Ids -> Numbers \cup {None, Gone}]
  OBVIOUS
<1>3. Cleared \in [number: Numbers \cup {None}, selected: Ids \cup {None},
                   offers: SUBSET Offer, waits: Submits \cup {None}]
  BY DEF Cleared
<1>4. RosterTypeOK
  <2>1. {events, newLinks} \subseteq [Ids -> Nat] /\ failures \in 0..MaxFailures
    BY RosterAssumption
  <2>2. loads \in Seq((SUBSET Ids) \cup {None})
    OBVIOUS
  <2>3. tx \in [Txs ->
          [pc: {"new", "find", "create", "existing", "link", "commit", "end"},
           number: Numbers \cup {None}, id: Ids \cup {None}, created: BOOLEAN,
           answer: {"none", "enrolled", "already", "notFound", "emailTaken", "conflict", "failed"}]]
    BY <1>1
  <2>4. /\ picked \in Numbers \cup {None} /\ {removal, overtaken} \subseteq BOOLEAN
        /\ shown \in (SUBSET Ids) \cup {None} /\ told \subseteq link /\ link \subseteq Ids
    OBVIOUS
  <2>5. form \in [number: Numbers \cup {None}, selected: Ids \cup {None},
                  offers: SUBSET Offer, waits: Submits \cup {None}]
    BY <1>3
  <2> HIDE DEF RosterInit
  <2> QED
    BY <1>2, <2>1, <2>2, <2>3, <2>4, <2>5 DEF RosterTypeOK
<1>5. \A t \in Txs : tx[t].pc = "new"
  BY DEF Idle
<1>6. TxInv /\ ExclusiveInv
  BY <1>5 DEF TxInv, ExclusiveInv, Placed, At
<1>7. EventPerLink /\ SubmitsWhatItShows /\ LoadInv
  BY DEF EventPerLink, SubmitsWhatItShows, Cleared, LoadInv
<1> QED
  BY <1>4, <1>6, <1>7 DEF RosterInv

LEMMA FindStep ==
  ASSUME RosterInv, NEW t \in Txs, Find(t)
  PROVE  RosterInv'
<1>1. tx[t] \in Tx /\ tx[t].id \in Ids \cup {None} /\ UNCHANGED <<database, page, failures>>
  BY DEF RosterInv, RosterTypeOK, Tx, Find
<1>2. failures' \in 0..MaxFailures
  BY <1>1 DEF RosterInv, RosterTypeOK
<1>3. CASE Goto(t, "existing") /\ tx[t].id # None
  BY <1>1, <1>3, GotoMoves
<1>4. CASE Answer(t, "notFound")
  BY <1>1, <1>2, <1>4, AnswerMoves
<1>5. CASE Goto(t, "create")
  BY <1>1, <1>5, GotoMoves
<1>6. ASSUME NEW s \in Ids, tx' = [tx EXCEPT ![t].pc = "existing", ![t].id = s]
      PROVE  RosterInv'
  <2> DEFINE x == [[tx[t] EXCEPT !.pc = "existing"] EXCEPT !.id = s]
  <2>1. x \in Tx /\ x.pc = "existing" /\ x.id = s
    BY <1>1 DEF Tx
  <2>2. tx' = [tx EXCEPT ![t] = x]
    BY <1>1, <1>6 DEF RosterInv, RosterTypeOK
  <2>3. Placed(x)
    BY <2>1 DEF Placed
  <2> QED
    BY <1>1, <1>2, <2>1, <2>2, <2>3, TxMoves
<1> QED
  BY <1>3, <1>4, <1>5, <1>6 DEF Find

LEMMA CreateStep ==
  ASSUME RosterInv, NEW t \in Txs, Create(t)
  PROVE  RosterInv'
<1>1. tx[t] \in Tx /\ UNCHANGED <<database, page, failures>>
  BY DEF RosterInv, RosterTypeOK, Tx, Create
<1>2. failures' \in 0..MaxFailures
  BY <1>1 DEF RosterInv, RosterTypeOK
<1>3. CASE Answer(t, "emailTaken")
  BY <1>1, <1>2, <1>3, AnswerMoves
<1>4. ASSUME NEW s \in Ids,
             tx' = [tx EXCEPT ![t].pc = "existing", ![t].id = s, ![t].created = TRUE]
      PROVE  RosterInv'
  <2> DEFINE x == [[[tx[t] EXCEPT !.pc = "existing"] EXCEPT !.id = s] EXCEPT !.created = TRUE]
  <2>1. x \in Tx /\ x.pc = "existing" /\ x.id = s
    BY <1>1 DEF Tx
  <2>2. tx' = [tx EXCEPT ![t] = x]
    BY <1>1, <1>4 DEF RosterInv, RosterTypeOK
  <2>3. Placed(x)
    BY <2>1 DEF Placed
  <2> QED
    BY <1>1, <1>2, <2>1, <2>2, <2>3, TxMoves
<1> QED
  BY <1>3, <1>4 DEF Create

LEMMA ExistingStep ==
  ASSUME RosterInv, NEW t \in Txs, Existing(t)
  PROVE  RosterInv'
<1>1. tx[t].id \in Ids
  BY DEF RosterInv, TxInv, Placed, Existing, At
<1>2. failures' \in 0..MaxFailures
  BY DEF RosterInv, RosterTypeOK, Existing
<1> QED
  BY <1>1, <1>2, AnswerMoves, GotoMoves DEF Existing

LEMMA LinkStep ==
  ASSUME RosterInv, NEW t \in Txs, Link(t)
  PROVE  RosterInv'
<1>1. tx[t].id \in Ids
  BY DEF RosterInv, TxInv, Placed, Link, At
<1>2. failures' \in 0..MaxFailures
  BY DEF RosterInv, RosterTypeOK, Link
<1> QED
  BY <1>1, <1>2, AnswerMoves, GotoMoves DEF Link

LEMMA CommitStep ==
  ASSUME RosterInv, NEW t \in Txs, Commit(t)
  PROVE  RosterInv'
<1> DEFINE s == tx[t].id
           x == Ended(t, "enrolled")
<1>1. /\ At(t, "commit") /\ s \in Ids /\ s \notin link
      /\ tx' = [tx EXCEPT ![t] = x]
      /\ link' = link \cup {s}
      /\ events' = [events EXCEPT ![s] = @ + 1]
      /\ newLinks' = [newLinks EXCEPT ![s] = @ + 1]
      /\ UNCHANGED <<page, failures>>
  BY DEF RosterInv, TxInv, Placed, At, Commit, Answer, Ended
<1>2. x \in Tx /\ x.pc = "end" /\ Placed(x)
  BY AnswerIsATx DEF RosterInv
<1>3. /\ tx' \in [Txs -> Tx] /\ tx'[t] = x
      /\ \A u \in Txs : u # t => tx'[u] = tx[u]
  BY <1>1, <1>2 DEF RosterInv, RosterTypeOK, Tx
<1>4. student' \in [Ids -> Numbers \cup {None, Gone}]
  <2>1. student \in [Ids -> Numbers \cup {None, Gone}] /\ tx[t].number \in Numbers \cup {None}
    BY DEF RosterInv, RosterTypeOK
  <2>2. \/ student' = [student EXCEPT ![s] = tx[t].number]
        \/ student' = student
    BY DEF Commit
  <2> QED
    BY ONLY <2>1, <2>2
<1>5. link' \subseteq Ids /\ {events', newLinks'} \subseteq [Ids -> Nat] /\ told \subseteq link'
  BY <1>1 DEF RosterInv, RosterTypeOK
<1>6. RosterTypeOK'
  BY <1>1, <1>3, <1>4, <1>5 DEF RosterInv, RosterTypeOK, Tx, page
<1>7. TxInv'
  <2>1. \A u \in Txs : u # t /\ At(u, "commit") => tx[u].id # s
    BY <1>1 DEF RosterInv, ExclusiveInv
  <2> QED
    BY <1>1, <1>2, <1>3, <2>1 DEF RosterInv, TxInv, Placed, At
<1>8. ExclusiveInv'
  BY <1>2, <1>3 DEF RosterInv, ExclusiveInv, At
<1>9. EventPerLink' /\ SubmitsWhatItShows' /\ LoadInv'
  BY <1>1, LoadsStay DEF RosterInv, EventPerLink, SubmitsWhatItShows, page
<1> QED
  BY <1>6, <1>7, <1>8, <1>9 DEF RosterInv

LEMMA RollBackStep ==
  ASSUME RosterInv, NEW t \in Txs, RollBack(t)
  PROVE  RosterInv'
BY FailureStep, AnswerMoves DEF RollBack, RosterInv

LEMMA EnrollByOtherStep ==
  ASSUME RosterInv, NEW t \in Others, EnrollByOther(t)
  PROVE  RosterInv'
<1>1. PICK n \in Numbers : tx' = [tx EXCEPT ![t] = [Idle EXCEPT !.pc = "find", !.number = n]]
  BY DEF EnrollByOther
<1> DEFINE x == [Idle EXCEPT !.pc = "find", !.number = n]
<1>2. x \in Tx /\ Placed(x) /\ x.pc = "find"
  BY DEF Tx, Idle, Placed
<1>3. t \in Txs /\ failures' \in 0..MaxFailures /\ UNCHANGED <<database, page>>
  BY DEF Txs, EnrollByOther, RosterInv, RosterTypeOK
<1> QED
  BY <1>1, <1>2, <1>3, TxMoves

LEMMA DeleteStudentStep ==
  ASSUME RosterInv, NEW s \in Ids, DeleteStudent(s)
  PROVE  RosterInv'
<1>1. student' \in [Ids -> Numbers \cup {None, Gone}]
  BY DEF DeleteStudent, RosterInv, RosterTypeOK
<1>2. RosterTypeOK'
  BY <1>1 DEF DeleteStudent, RosterInv, RosterTypeOK
<1> QED
  BY <1>2, LinkGoes DEF DeleteStudent

LEMMA NumberedStep ==
  ASSUME RosterInv, NEW s \in Ids, CreateStudent(s) \/ UpdateStudent(s)
  PROVE  RosterInv'
<1>1. PICK n \in Numbers : student' = [student EXCEPT ![s] = n]
  BY DEF CreateStudent, UpdateStudent, Numbered
<1>2. UNCHANGED <<link, events, newLinks, tx, page, failures>>
  BY DEF CreateStudent, UpdateStudent
<1>3. student' \in [Ids -> Numbers \cup {None, Gone}]
  BY <1>1 DEF RosterInv, RosterTypeOK
<1>4. RosterTypeOK'
  BY <1>2, <1>3 DEF RosterInv, RosterTypeOK, page
<1> QED
  BY <1>2, <1>4, LinkGoes DEF page

-----------------------------------------------------------------------------
(* The form and the page.                                                  *)

LEMMA TypeStep ==
  ASSUME RosterInv, NEW n \in Numbers \cup {None}, Type(n)
  PROVE  RosterInv'
<1>1. PICK kept \in SUBSET Offer :
        form' = [form EXCEPT !.number = n, !.selected = None, !.offers = kept]
  BY DEF Type, RosterInv, RosterTypeOK
<1>2. /\ form' \in [number: Numbers \cup {None}, selected: Ids \cup {None},
                    offers: SUBSET Offer, waits: Submits \cup {None}]
      /\ form'.selected = None
  BY <1>1 DEF RosterInv, RosterTypeOK
<1>3. RosterTypeOK' /\ SubmitsWhatItShows'
  BY <1>2 DEF Type, RosterInv, RosterTypeOK, SubmitsWhatItShows, database
<1> QED
  BY <1>3, LoadsStay, PageMoves DEF Type, database

LEMMA OfferedStep ==
  ASSUME RosterInv, Offered
  PROVE  RosterInv'
<1>1. PICK n \in Numbers :
        form' = [form EXCEPT !.offers = {[id |-> s, number |-> n] : s \in {i \in Ids : student[i] = n}}]
  BY DEF Offered
<1>2. {[id |-> s, number |-> n] : s \in {i \in Ids : student[i] = n}} \in SUBSET Offer
  BY DEF Offer
<1>3. /\ form' \in [number: Numbers \cup {None}, selected: Ids \cup {None},
                    offers: SUBSET Offer, waits: Submits \cup {None}]
      /\ form'.selected = form.selected /\ form'.number = form.number
  BY <1>1, <1>2 DEF RosterInv, RosterTypeOK
<1>4. RosterTypeOK' /\ SubmitsWhatItShows'
  BY <1>3 DEF Offered, RosterInv, RosterTypeOK, SubmitsWhatItShows, database
<1> QED
  BY <1>4, LoadsStay, PageMoves DEF Offered, database

LEMMA PickStep ==
  ASSUME RosterInv, Pick
  PROVE  RosterInv'
<1>1. PICK o \in form.offers :
        form' = [form EXCEPT !.selected = o.id, !.number = o.number] /\ picked' = o.number
  BY DEF Pick
<1>2. o.id \in Ids /\ o.number \in Numbers
  BY DEF RosterInv, RosterTypeOK, Offer
<1>3. /\ form' \in [number: Numbers \cup {None}, selected: Ids \cup {None},
                    offers: SUBSET Offer, waits: Submits \cup {None}]
      /\ form'.number = picked' /\ picked' \in Numbers
  BY <1>1, <1>2 DEF RosterInv, RosterTypeOK
<1>4. RosterTypeOK' /\ SubmitsWhatItShows'
  BY <1>3 DEF Pick, RosterInv, RosterTypeOK, SubmitsWhatItShows, database
<1> QED
  BY <1>4, LoadsStay, PageMoves DEF Pick, database

LEMMA SubmitStep ==
  ASSUME RosterInv, NEW t \in Submits, Submit(t)
  PROVE  RosterInv'
<1> DEFINE x == [Idle EXCEPT !.pc = "find", !.id = form.selected,
                   !.number = IF form.selected = None THEN form.number ELSE None]
<1>1. /\ form.selected \in Ids \cup {None} /\ form.number \in Numbers \cup {None}
      /\ t \in Txs
  BY DEF RosterInv, RosterTypeOK, Txs
<1>2. x \in Tx /\ x.pc = "find"
  BY <1>1 DEF Tx, Idle
<1>3. /\ tx' = [tx EXCEPT ![t] = x] /\ form' = [form EXCEPT !.waits = t]
      /\ UNCHANGED <<database, picked, shown, loads, removal, told, overtaken, failures>>
  BY DEF Submit
<1>4. /\ tx' \in [Txs -> Tx] /\ tx'[t] = x
      /\ \A u \in Txs : u # t => tx'[u] = tx[u]
  BY <1>1, <1>2, <1>3 DEF RosterInv, RosterTypeOK, Tx
<1>5. /\ form' \in [number: Numbers \cup {None}, selected: Ids \cup {None},
                    offers: SUBSET Offer, waits: Submits \cup {None}]
      /\ form'.number = form.number /\ form'.selected = form.selected
  BY <1>3 DEF RosterInv, RosterTypeOK
<1> HIDE DEF x
<1>6. RosterTypeOK'
  BY <1>3, <1>4, <1>5 DEF RosterInv, RosterTypeOK, Tx, database
<1>7. TxInv' /\ ExclusiveInv'
  BY <1>2, <1>3, <1>4 DEF RosterInv, TxInv, ExclusiveInv, Placed, At, database
<1>8. EventPerLink' /\ SubmitsWhatItShows' /\ LoadInv'
  BY <1>3, <1>5, LoadsStay DEF RosterInv, EventPerLink, SubmitsWhatItShows, database
<1> QED
  BY <1>6, <1>7, <1>8 DEF RosterInv

LEMMA ClearedForm ==
  /\ Cleared \in [number: Numbers \cup {None}, selected: Ids \cup {None},
                  offers: SUBSET Offer, waits: Submits \cup {None}]
  /\ Cleared.selected = None
BY DEF Cleared

\* A load sent now is the youngest, and is still to read.
LEMMA LoadSent ==
  ASSUME RosterTypeOK, loads' = Append(loads, None)
  PROVE  loads' \in Seq((SUBSET Ids) \cup {None}) /\ LoadInv'
<1> DEFINE S == (SUBSET Ids) \cup {None}
<1>1. loads \in Seq(S)
  BY DEF RosterTypeOK
<1>2. None \in S
  OBVIOUS
<1> HIDE DEF S
<1>3. Append(loads, None) \in Seq(S) /\ Append(loads, None) # <<>>
      /\ Append(loads, None)[Len(Append(loads, None))] = None
  BY ONLY <1>1, <1>2
<1>4. LoadInv'
  BY <1>3 DEF LoadInv
<1> QED
  BY <1>3, <1>4 DEF S

LEMMA AnsweredStep ==
  ASSUME RosterInv, NEW t \in Submits, Answered(t) \/ AnswerLost(t)
  PROVE  RosterInv'
<1>1. /\ UNCHANGED <<database, tx, shown, removal, overtaken>>
      /\ failures' \in 0..MaxFailures
  BY FailureStep DEF RosterInv, RosterTypeOK, Answered, AnswerLost
<1>2. /\ form' \in [number: Numbers \cup {None}, selected: Ids \cup {None},
                    offers: SUBSET Offer, waits: Submits \cup {None}]
      /\ \/ form'.selected = None /\ picked' = None
         \/ form'.selected = form.selected /\ form'.number = form.number /\ UNCHANGED picked
  <2>1. form \in [number: Numbers \cup {None}, selected: Ids \cup {None},
                  offers: SUBSET Offer, waits: Submits \cup {None}]
    BY DEF RosterInv, RosterTypeOK
  <2>2. CASE form' = Cleared /\ picked' = None
    BY <2>2, ClearedForm
  <2>3. CASE form' = [form EXCEPT !.waits = None] /\ UNCHANGED picked
    BY <2>1, <2>3
  <2> QED
    BY <2>2, <2>3 DEF Answered, AnswerLost, Accepted
<1>3. told' \subseteq link
  BY DEF RosterInv, RosterTypeOK, Answered, AnswerLost, Accepted
<1>4. loads' \in Seq((SUBSET Ids) \cup {None}) /\ LoadInv'
  BY LoadSent, LoadsStay DEF RosterInv, RosterTypeOK, Answered, AnswerLost, Accepted
<1>5. RosterTypeOK' /\ SubmitsWhatItShows'
  BY <1>1, <1>2, <1>3, <1>4 DEF RosterInv, RosterTypeOK, SubmitsWhatItShows, database
<1> QED
  BY <1>1, <1>4, <1>5, PageMoves DEF database

LEMMA RemoveStep ==
  ASSUME RosterInv, NEW s \in Ids, Remove(s)
  PROVE  RosterInv'
<1>1. RosterTypeOK'
  BY DEF RosterInv, RosterTypeOK, Remove, Unlinked
<1> QED
  BY <1>1, LinkGoes DEF Remove, Unlinked

LEMMA ReloadStep ==
  ASSUME RosterInv, Removed \/ Reload
  PROVE  RosterInv'
<1>1. loads' \in Seq((SUBSET Ids) \cup {None}) /\ LoadInv'
  BY LoadSent DEF RosterInv, Removed, Reload
<1>2. RosterTypeOK' /\ SubmitsWhatItShows'
  BY <1>1 DEF RosterInv, RosterTypeOK, Removed, Reload, SubmitsWhatItShows, database
<1> QED
  BY <1>1, <1>2, PageMoves DEF Removed, Reload, database

\* A load is answered: the youngest of the others, if any, is the same; an answer
\* that leaves none is shown, or else an older load is passed.
LEMMA LoadsMove ==
  ASSUME RosterInv, NEW i \in 1..MaxLoads, Read(i) \/ Shown(i) \/ LoadFails(i)
  PROVE  LoadInv'
<1>1. /\ i \in 1..Len(loads) /\ Len(loads) \in Nat \ {0} /\ told \subseteq link
      /\ loads \in Seq((SUBSET Ids) \cup {None})
  BY DEF RosterInv, RosterTypeOK, Read, Shown, LoadFails
<1>2. SUFFICES ASSUME told' # {}, ~overtaken'
               PROVE  IF loads' = <<>>
                      THEN shown' # None /\ told' \subseteq shown'
                      ELSE loads'[Len(loads')] = None \/ told' \subseteq loads'[Len(loads')]
  BY DEF LoadInv
<1>3. told' = told /\ ~overtaken /\ (Read(i) \/ Shown(i))
  BY <1>2 DEF Read, Shown, LoadFails, RosterInv, RosterTypeOK
<1>4. loads[Len(loads)] = None \/ told \subseteq loads[Len(loads)]
  BY <1>1, <1>2, <1>3 DEF RosterInv, LoadInv
<1>5. CASE Read(i)
  <2>1. loads' # <<>> /\ Len(loads') = Len(loads)
        /\ loads'[Len(loads)] = IF i = Len(loads) THEN link ELSE loads[Len(loads)]
    BY <1>1, <1>5 DEF Read
  <2> QED
    BY <1>1, <1>3, <1>4, <2>1
<1>6. CASE Shown(i)
  <2> DEFINE n == Len(loads)
  <2>1. n \in Nat \ {0} /\ i \in 1..n /\ DOMAIN loads = 1..n
    BY <1>1
  <2>2. ~(i > 1)
    BY Zenon, <1>2, <1>6 DEF Shown
  <2>3. i = 1
    BY ONLY <2>1, <2>2
  <2>4. loads[1] # None /\ shown' = loads[1] /\ loads' = Without(1)
    BY <1>6, <2>3 DEF Shown
  <2> HIDE DEF n
  <2>5. CASE n = 1
    <3>1. loads' = <<>>
      BY <2>4, <2>5 DEF Without, n
    <3> QED
      BY <1>3, <1>4, <2>4, <2>5, <3>1 DEF n
  <2>6. CASE n > 1
    <3>1. Without(1) = [k \in 1..n - 1 |-> loads[k + 1]]
      BY <2>1 DEF Without, n
    <3>2. n - 1 \in Nat /\ n - 1 \in 1..n - 1 /\ (n - 1) + 1 = n
      BY <2>1, <2>6
    <3>3. Len(loads') = n - 1 /\ loads'[n - 1] = loads[n] /\ loads' # <<>>
      BY ONLY <2>4, <3>1, <3>2
    <3> QED
      BY <1>3, <1>4, <3>3 DEF n
  <2> QED
    BY ONLY <2>1, <2>5, <2>6
<1> QED
  BY <1>3, <1>5, <1>6

LEMMA LoadSteps ==
  ASSUME RosterInv, NEW i \in 1..MaxLoads, Read(i) \/ Shown(i) \/ LoadFails(i)
  PROVE  RosterInv'
<1>1. i \in DOMAIN loads /\ UNCHANGED <<database, tx, form, picked, removal>>
  BY DEF Read, Shown, LoadFails
<1>2. loads' \in Seq((SUBSET Ids) \cup {None})
  <2>1. CASE Read(i)
    BY <2>1 DEF Read, RosterInv, RosterTypeOK
  <2>2. CASE Shown(i) \/ LoadFails(i)
    BY <1>1, <2>2, WithoutType DEF Shown, LoadFails, RosterInv
  <2> QED
    BY <2>1, <2>2
<1>3. told' \subseteq link
  BY DEF Read, Shown, LoadFails, RosterInv, RosterTypeOK
<1>4. shown' \in (SUBSET Ids) \cup {None} /\ overtaken' \in BOOLEAN /\ failures' \in 0..MaxFailures
  <2>1. loads[i] \in (SUBSET Ids) \cup {None}
    BY <1>1 DEF RosterInv, RosterTypeOK
  <2>2. shown' \in (SUBSET Ids) \cup {None}
    <3>1. CASE Shown(i)
      BY <2>1, <3>1 DEF Shown
    <3>2. CASE UNCHANGED shown
      BY <3>2 DEF RosterInv, RosterTypeOK
    <3> QED
      BY <3>1, <3>2 DEF Read, LoadFails
  <2>3. overtaken' \in BOOLEAN
    BY DEF Read, Shown, LoadFails, RosterInv, RosterTypeOK
  <2>4. failures' \in 0..MaxFailures
    BY FailureStep DEF Read, Shown, LoadFails, RosterInv, RosterTypeOK
  <2> QED
    BY <2>2, <2>3, <2>4
<1>5. RosterTypeOK' /\ SubmitsWhatItShows'
  BY <1>1, <1>2, <1>3, <1>4 DEF RosterInv, RosterTypeOK, SubmitsWhatItShows, database
<1> QED
  BY <1>1, <1>5, LoadsMove, PageMoves DEF database

LEMMA RosterStutterStep ==
  ASSUME RosterInv, UNCHANGED rosterVars
  PROVE  RosterInv'
BY DEF RosterInv, rosterVars, database, page, RosterTypeOK, TxInv, Placed, ExclusiveInv, EventPerLink,
       SubmitsWhatItShows, LoadInv, At

LEMMA RosterNextStep == RosterInv /\ [RosterNext]_rosterVars => RosterInv'
<1> SUFFICES ASSUME RosterInv, [RosterNext]_rosterVars
             PROVE  RosterInv'
  OBVIOUS
<1> QED
  BY FindStep, CreateStep, ExistingStep, LinkStep, CommitStep, RollBackStep,
     EnrollByOtherStep, NumberedStep, DeleteStudentStep, TypeStep, OfferedStep, PickStep,
     SubmitStep, AnsweredStep, RemoveStep, ReloadStep, LoadSteps, RosterStutterStep
     DEF RosterNext, Transaction, Form, Page

\* The roster's inductive invariant holds in every reachable state.
THEOREM RosterInvariance == RosterSpec => []RosterInv
BY RosterInitStep, RosterNextStep, PTL DEF RosterSpec

\* Every reachable state of the requests, the database and the page is well formed.
THEOREM RosterTypeCorrect == RosterSpec => []RosterTypeOK
<1>1. RosterInv => RosterTypeOK
  BY DEF RosterInv
<1> QED
  BY <1>1, RosterInvariance, PTL

\* However many enrollments of a student overlap, each event recorded is for a link
\* that was not there before (courses.service.ts:142-143).
THEOREM NoEventWithoutALink == RosterSpec => []EventPerLink
<1>1. RosterInv => EventPerLink
  BY DEF RosterInv
<1> QED
  BY <1>1, RosterInvariance, PTL

\* Whatever is typed, offered late and picked, the student a submission names by id
\* is one offered for the number the form shows (RosterAddForm.tsx:51-66).
THEOREM EnrollsWhoIsShown == RosterSpec => []SubmitsWhatItShows
<1>1. RosterInv => SubmitsWhatItShows
  BY DEF RosterInv
<1> QED
  BY <1>1, RosterInvariance, PTL

\* However many loads are on their way and in whatever order they read, a page at rest
\* shows the students its form reported as enrolled, unless an older load was answered
\* last (courses/[id]/page.tsx:26-38).
THEOREM OwnEnrollmentShown == RosterSpec => []OwnEnrollmentStays
<1>1. RosterInv => OwnEnrollmentStays
  BY DEF RosterInv, LoadInv, OwnEnrollmentStays
<1> QED
  BY <1>1, RosterInvariance, PTL
=============================================================================
