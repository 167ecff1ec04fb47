----------------------------- MODULE BulkImport -----------------------------
(***************************************************************************)
(* A bulk-import job (modules/courses/bulk-import.service.ts) and the      *)
(* consumers that work it off (messaging/bulk-import-consumer.ts).         *)
(*                                                                         *)
(* A consumer is one AMQP channel of one gateway process, with prefetch 1. *)
(* When its channel closes, the broker redelivers the message to another   *)
(* consumer while the handler of the first goes on, so two handlers may    *)
(* work on the job at once.  A consumer does not come back: a reconnected  *)
(* or restarted gateway is another member of Consumers.  A row is named by *)
(* its index.  What a row does to the roster (create the student, enroll   *)
(* it, or find it enrolled already) is one outcome here, "linked".         *)
(***************************************************************************)
EXTENDS Naturals, Sequences

CONSTANTS
  Consumers,
  RowCount,    \* rows of the roster, at least one (courses.schemas.ts)
  ChunkSize,   \* CHUNK_SIZE
  FaultKinds,  \* the faults the environment may inject
  MaxFaults    \* bound on how many

ASSUME BulkImportAssumption ==
  /\ RowCount \in Nat \ {0}
  /\ ChunkSize \in Nat \ {0}
  /\ FaultKinds \subseteq {"drop", "crash", "database", "redis", "duplicate"}
  /\ MaxFaults \in Nat

VARIABLES
  job,       \* the import_jobs row
  linked,    \* rows whose transaction some handler has committed
  copies,    \* how often the request was published
  queue,     \* messages waiting in the queue
  open,      \* whether a consumer's channel is open
  unacked,   \* whether a consumer's channel owes an ack
  pc,        \* where each consumer's handler is
  report,    \* the outcomes of the rows each handler has dealt with
  abandoned, \* whether the job could not even be marked as failed
  left       \* faults the environment may still inject

broker == <<copies, queue, open, unacked>>
vars == <<job, linked, broker, pc, report, abandoned, left>>

Rows == 1..RowCount
Outcome == {"linked", "error"}
Finished == {"COMPLETED", "FAILED"}

TypeOK ==
  /\ job \in [status : {"NONE", "PENDING", "PROCESSING", "COMPLETED", "FAILED", "GONE"},
               processed : 0..RowCount, report : Seq(Outcome)]
  /\ Len(job.report) \in {0, RowCount}
  /\ linked \subseteq Rows
  /\ copies \in Nat /\ queue \in 0..copies
  /\ open \in [Consumers -> BOOLEAN] /\ unacked \in [Consumers -> BOOLEAN]
  /\ pc \in [Consumers -> {"idle", "read", "start", "row", "progress", "notify",
                           "complete", "announce", "ack", "fail", "ackFailed"}]
  /\ report \in [Consumers -> Seq(Outcome)]
  /\ \A c \in Consumers : Len(report[c]) \leq RowCount
  /\ abandoned \in BOOLEAN
  /\ left \in 0..MaxFaults

Init ==
  /\ job = [status |-> "NONE", processed |-> 0, report |-> <<>>]
  /\ linked = {}
  /\ copies = 0 /\ queue = 0
  /\ open = [c \in Consumers |-> TRUE]
  /\ unacked = [c \in Consumers |-> FALSE]
  /\ pc = [c \in Consumers |-> "idle"]
  /\ report = [c \in Consumers |-> <<>>]
  /\ abandoned = FALSE
  /\ left = MaxFaults

Fault(kind) == kind \in FaultKinds /\ left > 0 /\ left' = left - 1
Go(c, next) == pc' = [pc EXCEPT ![c] = next]

-----------------------------------------------------------------------------
(* The request, its outbox row and the queue.                              *)

\* createBulkImportJob: the job and its outbox row commit together.
CreateJob ==
  /\ job.status = "NONE"
  /\ job' = [job EXCEPT !.status = "PENDING"]
  /\ UNCHANGED <<linked, broker, pc, report, abandoned, left>>

\* The relay publishes the request, and may publish it again (at-least-once).
Publish ==
  /\ job.status # "NONE"
  /\ copies > 0 => Fault("duplicate")
  /\ copies = 0 => UNCHANGED left
  /\ copies' = copies + 1 /\ queue' = queue + 1
  /\ UNCHANGED <<job, linked, open, unacked, pc, report, abandoned>>

Deliver(c) ==
  /\ open[c] /\ ~unacked[c] /\ pc[c] = "idle" /\ queue > 0
  /\ queue' = queue - 1
  /\ unacked' = [unacked EXCEPT ![c] = TRUE]
  /\ Go(c, "read")
  /\ UNCHANGED <<job, linked, copies, open, report, abandoned, left>>

\* The course is deleted, and the job with it (ON DELETE CASCADE).
DeleteCourse ==
  /\ job.status \notin {"NONE", "GONE"}
  /\ job' = [status |-> "GONE", processed |-> 0, report |-> <<>>]
  /\ UNCHANGED <<linked, broker, pc, report, abandoned, left>>

-----------------------------------------------------------------------------
(* handle() and process().                                                 *)

\* A query fails: the exception reaches the catch block of handle().
DbFault(c) ==
  /\ pc[c] \in {"read", "start", "progress", "complete"}
  /\ Fault("database")
  /\ Go(c, "fail")
  /\ UNCHANGED <<job, linked, broker, report, abandoned>>

\* The update of a job that is gone throws as well (P2025).
JobGone(c) ==
  /\ pc[c] \in {"start", "progress", "complete"} /\ job.status = "GONE"
  /\ Go(c, "fail")
  /\ UNCHANGED <<job, linked, broker, report, abandoned, left>>

\* Seeded fault: a job somebody has started is taken for done.
ReadJobSkipsStarted(c) ==
  /\ pc[c] = "read"
  /\ Go(c, IF job.status = "PENDING" THEN "start" ELSE "ack")
  /\ UNCHANGED <<job, linked, broker, report, abandoned, left>>

ReadJob(c) ==
  /\ pc[c] = "read"
  /\ Go(c, IF job.status \in Finished \cup {"GONE"} THEN "ack" ELSE "start")
  /\ UNCHANGED <<job, linked, broker, report, abandoned, left>>

StartJob(c) ==
  /\ pc[c] = "start" /\ job.status # "GONE"
  /\ job' = [job EXCEPT !.status = "PROCESSING", !.processed = 0]
  /\ Go(c, "row")
  /\ UNCHANGED <<linked, broker, report, abandoned, left>>

Boundary(i) == i % ChunkSize = 0 \/ i = RowCount

\* The row's outcome is noted and the loop goes on, at a chunk boundary after
\* the progress was saved and broadcast.
Note(c, outcome) ==
  /\ report' = [report EXCEPT ![c] = Append(@, outcome)]
  /\ Go(c, IF Boundary(Len(report[c]) + 1) THEN "progress" ELSE "row")
  /\ UNCHANGED <<job, broker, abandoned>>

\* Seeded fault: the row is given up after its transaction has committed.
LinkRowUnreported(c) ==
  /\ pc[c] = "row" /\ job.status # "GONE"
  /\ linked' = linked \cup {Len(report[c]) + 1}
  /\ \E outcome \in Outcome : Note(c, outcome)
  /\ UNCHANGED left

\* resolveAndLinkStudent in the row's own transaction.
LinkRow(c) ==
  /\ pc[c] = "row" /\ job.status # "GONE"
  /\ linked' = linked \cup {Len(report[c]) + 1}
  /\ Note(c, "linked")
  /\ UNCHANGED left

\* The answer to its commit is lost, and the catch block takes it for failed.
CommitAnswerLost(c) ==
  /\ pc[c] = "row" /\ job.status # "GONE"
  /\ Fault("database")
  /\ linked' = linked \cup {Len(report[c]) + 1}
  /\ Note(c, "error")

\* Seeded faults: the error of a row is not reported, or not caught.
RowFailsSilently(c) ==
  /\ pc[c] = "row"
  /\ Note(c, "linked")
  /\ UNCHANGED <<linked, left>>

RowFailsBatch(c) ==
  /\ pc[c] = "row"
  /\ Go(c, "fail")
  /\ UNCHANGED <<job, linked, broker, report, abandoned, left>>

\* The row's transaction rolls back: a missing name, an e-mail collision, a
\* unique key lost to another handler, a course that is gone, the database.
RowFails(c) ==
  /\ pc[c] = "row"
  /\ Note(c, "error")
  /\ UNCHANGED <<linked, left>>

SaveProgress(c) ==
  /\ pc[c] = "progress" /\ job.status # "GONE"
  /\ job' = [job EXCEPT !.processed = Len(report[c])]
  /\ Go(c, "notify")
  /\ UNCHANGED <<linked, broker, report, abandoned, left>>

Notify(c) ==
  /\ pc[c] = "notify"
  /\ Go(c, IF Len(report[c]) = RowCount THEN "complete" ELSE "row")
  /\ UNCHANGED <<job, linked, broker, report, abandoned, left>>

Complete(c) ==
  /\ pc[c] = "complete" /\ job.status # "GONE"
  /\ job' = [status |-> "COMPLETED", processed |-> RowCount, report |-> report[c]]
  /\ Go(c, "announce")
  /\ UNCHANGED <<linked, broker, report, abandoned, left>>

Announce(c) ==
  /\ pc[c] = "announce"
  /\ Go(c, "ack")
  /\ UNCHANGED <<job, linked, broker, report, abandoned, left>>

\* redis.publish rejects: the broadcast throws inside process().
RedisFault(c) ==
  /\ pc[c] \in {"notify", "announce"}
  /\ Fault("redis")
  /\ Go(c, "fail")
  /\ UNCHANGED <<job, linked, broker, report, abandoned>>

\* The handler has ended and its local variables are gone.
EndHandler(c) ==
  /\ Go(c, "idle")
  /\ report' = [report EXCEPT ![c] = <<>>]

\* Any channel.ack inside the try block.
Ack(c) ==
  /\ pc[c] = "ack" /\ open[c]
  /\ unacked' = [unacked EXCEPT ![c] = FALSE]
  /\ EndHandler(c)
  /\ UNCHANGED <<job, linked, copies, queue, open, abandoned, left>>

\* On a closed channel it throws, and the catch block takes over.
AckThrows(c) ==
  /\ pc[c] = "ack" /\ ~open[c]
  /\ Go(c, "fail")
  /\ UNCHANGED <<job, linked, broker, report, abandoned, left>>

\* markFailed: the job is FAILED and its report replaced by the error, whatever
\* they were.  What markFailed throws, by the query or the broadcast, is
\* swallowed, and a job that could not be marked is left as it is.
MarkFailed(c) ==
  /\ pc[c] = "fail"
  /\ \/ /\ job' = IF job.status = "GONE" THEN job
                  ELSE [job EXCEPT !.status = "FAILED", !.report = <<>>]
        /\ UNCHANGED <<abandoned, left>>
     \/ /\ Fault("database") /\ abandoned' = TRUE
        /\ UNCHANGED job
  /\ Go(c, "ackFailed")
  /\ UNCHANGED <<linked, broker, report>>

\* The ack of the catch block; on a closed channel it only rejects handle().
AckFailed(c) ==
  /\ pc[c] = "ackFailed"
  /\ unacked' = [unacked EXCEPT ![c] = FALSE]
  /\ EndHandler(c)
  /\ UNCHANGED <<job, linked, copies, queue, open, abandoned, left>>

-----------------------------------------------------------------------------
\* Seeded fault: the consumer runs with noAck, and nothing is redelivered.
CloseChannelNoAck(c) ==
  /\ open[c]
  /\ open' = [open EXCEPT ![c] = FALSE]
  /\ unacked' = [unacked EXCEPT ![c] = FALSE]
  /\ UNCHANGED <<queue, job, linked, copies>>

\* The broker requeues what a closing channel has not acked.
CloseChannel(c) ==
  /\ open[c]
  /\ open' = [open EXCEPT ![c] = FALSE]
  /\ unacked' = [unacked EXCEPT ![c] = FALSE]
  /\ queue' = IF unacked[c] THEN queue + 1 ELSE queue
  /\ UNCHANGED <<job, linked, copies>>

Drop(c) == CloseChannel(c) /\ Fault("drop") /\ UNCHANGED <<pc, report, abandoned>>
Crash(c) ==
  CloseChannel(c) /\ Fault("crash") /\ EndHandler(c) /\ UNCHANGED abandoned

-----------------------------------------------------------------------------
Handler(c) ==
  \/ ReadJob(c) \/ StartJob(c) \/ LinkRow(c) \/ CommitAnswerLost(c) \/ RowFails(c)
  \/ SaveProgress(c) \/ Notify(c) \/ Complete(c) \/ Announce(c) \/ Ack(c) \/ AckThrows(c)
  \/ MarkFailed(c) \/ AckFailed(c) \/ DbFault(c) \/ JobGone(c) \/ RedisFault(c)

Next ==
  \/ CreateJob \/ Publish \/ DeleteCourse
  \/ \E c \in Consumers : Deliver(c) \/ Handler(c) \/ Drop(c) \/ Crash(c)

Spec == Init /\ [][Next]_vars

(***************************************************************************)
(* Fairness: the relay publishes a committed request at least once, the    *)
(* broker delivers to an open channel, and a handler that can go on does.  *)
(***************************************************************************)
Fairness ==
  /\ WF_vars(copies = 0 /\ Publish)
  /\ \A c \in Consumers : WF_vars(Deliver(c)) /\ WF_vars(Handler(c))

FairSpec == Spec /\ Fairness

-----------------------------------------------------------------------------
(* Properties.                                                             *)

\* A completed job tells the truth about every row: each has an outcome, and one
\* that is not an error was really linked to the course, although several
\* handlers may have worked on the job and each row commits on its own.
CompletedCoversEveryRow ==
  job.status = "COMPLETED" =>
    /\ Len(job.report) = RowCount
    /\ \A i \in Rows : job.report[i] = "linked" => i \in linked

\* "so one bad row never rolls back the batch" (bulk-import-consumer.ts:27-28):
\* without a fault outside the rows no job ends FAILED; that the request comes more
\* than once (copies - 1 of the faults) is not enough.
OnlyFaultsFailAJob ==
  job.status = "FAILED" => MaxFaults - left >= copies

\* No job is left hanging: once every published message is dealt with and every
\* handler has returned, the job is in a terminal state, unless marking it as
\* failed itself met a database error.
NothingLeftUndone ==
  /\ copies > 0 /\ queue = 0 /\ \A c \in Consumers : pc[c] = "idle"
  /\ ~abandoned
  => job.status \in Finished \cup {"GONE"}

\* Redelivery and second handlers come to an end, with the job in a terminal state
\* for good (or abandoned by a database error on top of another failure):
\* schema.prisma:168-169 "driven to COMPLETED/FAILED by the consumer".
JobSettles ==
  job.status = "PENDING" ~> [](job.status \in Finished \cup {"GONE"} \/ abandoned)

\* The import keeps what it promises to whoever submitted it, whatever the queue and
\* the handlers do: worked off once and reported exactly, unless a fault disturbs it
\* ("Idempotent on redelivery: never reprocess a finished job",
\* bulk-import-consumer.ts:75).
Import == INSTANCE ImportJob WITH
            status <- job.status, report <- job.report, disturbed <- left < MaxFaults
KeepsImport == Import!Spec
=============================================================================
