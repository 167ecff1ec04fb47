------------------------------- MODULE Faces -------------------------------
(***************************************************************************)
(* Enrolling the face images of one student: the upload handler            *)
(* (modules/faces/faces.service.ts), which stores an embedding or, when    *)
(* the AI is unavailable, queues a task; and the face-task consumer        *)
(* (messaging/face-task-consumer.ts), which works the tasks off with       *)
(* delayed retries and a dead-letter queue (messaging/topology.ts).        *)
(*                                                                         *)
(* A gateway has one broker connection.  Workers are its handler slots     *)
(* (the prefetch window).  When the connection drops, the broker requeues  *)
(* the tasks of all of them, while the handlers go on with a dead channel  *)
(* and end before their slot is used again.                                *)
(***************************************************************************)
EXTENDS Naturals, FiniteSets, Inference

CONSTANTS
  Uploads,      \* upload requests; the task of a request carries its name
  Images,       \* image contents, as told apart by their SHA-256
  Workers,
  MaxAttempts,  \* FACE_TASK_MAX_ATTEMPTS
  FaultKinds,   \* the faults the environment may inject
  MaxFaults,    \* bound on how many
  NoUpload      \* the task of an idle worker

ASSUME FacesAssumption ==
  /\ MaxAttempts \in Nat \ {0}
  /\ MaxFaults \in Nat
  /\ FaultKinds \subseteq {"drop", "crash", "database"}
  /\ NoUpload \notin Uploads
  /\ Uploads \cap Workers = {} /\ IsFiniteSet(Workers)

VARIABLES
  student,    \* whether the student exists
  rows,       \* how many face_embeddings rows an image has
  upload,     \* each request: its image, where its handler is, its answer
  worker,     \* each slot: where its handler is, its task, whether its channel lives
  main,       \* facevec.face_tasks: how many copies of a task at an attempt count
  retry,      \* facevec.face_tasks.retry
  dead,       \* tasks in facevec.face_tasks.dead
  failures,   \* how often processing a task has failed, up to MaxAttempts
  settled,    \* tasks some handler has processed without an exception
  overtaken,  \* handlers whose image was stored by another since their check
  left        \* faults the environment may still inject

queues == <<main, retry, dead>>
history == <<failures, settled>>
vars == <<student, rows, upload, worker, queues, history, overtaken, left>>

Tasks == Uploads \X (0..MaxAttempts - 1)
Answers == {"none", "enrolled", "queued", "conflict", "notFound", "rejected",
            "unavailable", "failed"}

TypeOK ==
  /\ student \in BOOLEAN
  /\ rows \in [Images -> Nat]
  /\ upload \in [Uploads ->
       [image : Images, answer : Answers,
        pc : {"new", "find", "dedup", "extract", "insert", "enqueue", "confirm", "end"}]]
  /\ worker \in [Workers ->
       [pc : {"idle", "extract", "dedup", "insert", "catch", "ack"},
        task : Uploads \cup {NoUpload}, attempts : 0..MaxAttempts - 1, live : BOOLEAN]]
  /\ \A w \in Workers : worker[w].pc = "idle" <=> worker[w].task = NoUpload
  /\ main \in [Tasks -> Nat] /\ retry \in [Tasks -> Nat]
  /\ dead \subseteq Uploads /\ settled \subseteq Uploads
  /\ failures \in [Uploads -> 0..MaxAttempts]
  /\ overtaken \subseteq Uploads \cup Workers
  /\ left \in 0..MaxFaults

Idle == [pc |-> "idle", task |-> NoUpload, attempts |-> 0, live |-> TRUE]

Init ==
  /\ student = TRUE
  /\ rows = [i \in Images |-> 0]
  /\ upload \in [Uploads -> [image : Images, answer : {"none"}, pc : {"new"}]]
  /\ worker = [w \in Workers |-> Idle]
  /\ main = [t \in Tasks |-> 0] /\ retry = [t \in Tasks |-> 0] /\ dead = {}
  /\ failures = [u \in Uploads |-> 0] /\ settled = {}
  /\ overtaken = {}
  /\ left = MaxFaults

Fault(kind) == kind \in FaultKinds /\ left > 0 /\ left' = left - 1
Put(queue, task) == [queue EXCEPT ![task] = @ + 1]
Take(queue, task) == [queue EXCEPT ![task] = @ - 1]

-----------------------------------------------------------------------------
(* The embeddings.  There is no unique index on (student, hash): existsByHash *)
(* and insertEmbedding are two statements.                                    *)

ImageOf(w) == upload[worker[w].task].image

\* existsByHash
Enrolled(i) == rows[i] > 0

\* The handlers that have found no embedding of image i and may store one.
Storing(i) ==
  {u \in Uploads : upload[u].image = i /\ upload[u].pc \in {"extract", "insert"}}
    \cup {w \in Workers : worker[w].pc = "insert" /\ ImageOf(w) = i}

\* insertEmbedding; the foreign key refuses a student that is gone.
InsertEmbedding(a, i) ==
  /\ student
  /\ rows' = [rows EXCEPT ![i] = @ + 1]
  /\ overtaken' = (overtaken \cup Storing(i)) \ {a}

RemoveFace(i) ==
  /\ rows[i] > 0
  /\ rows' = [rows EXCEPT ![i] = @ - 1]
  /\ UNCHANGED <<student, upload, worker, queues, history, overtaken, left>>

\* students.service.ts deleteStudent; the embeddings go with the student.
DeleteStudent ==
  /\ student
  /\ student' = FALSE
  /\ rows' = [i \in Images |-> 0]
  /\ UNCHANGED <<upload, worker, queues, history, overtaken, left>>

-----------------------------------------------------------------------------
(* enrollFace.                                                             *)

At(u, pc) == upload[u].pc = pc
Step(u, pc) == upload' = [upload EXCEPT ![u].pc = pc]
Answer(u, answer) ==
  upload' = [upload EXCEPT ![u].pc = "end", ![u].answer = answer]

FindStudent(u) ==
  /\ At(u, "new")
  /\ IF student THEN Step(u, "dedup") ELSE Answer(u, "notFound")
  /\ UNCHANGED <<student, rows, worker, queues, history, overtaken, left>>

DedupUpload(u) ==
  /\ At(u, "dedup")
  /\ IF Enrolled(upload[u].image) THEN Answer(u, "conflict") ELSE Step(u, "extract")
  /\ UNCHANGED <<student, rows, worker, queues, history, overtaken, left>>

\* An embedding of the right length is stored; the AI's absence is no error.
ExtractUpload(u) ==
  /\ At(u, "extract")
  /\ \E result \in Results :
       \/ result = "face" /\ Step(u, "insert") /\ UNCHANGED overtaken
       \/ IsAiFailure(result) /\ Step(u, "enqueue") /\ overtaken' = overtaken \ {u}
       \/ /\ result # "face" /\ ~IsAiFailure(result)
          /\ Answer(u, "rejected") /\ overtaken' = overtaken \ {u}
  /\ UNCHANGED <<student, rows, worker, queues, history, left>>

InsertUpload(u) ==
  /\ At(u, "insert")
  /\ \/ InsertEmbedding(u, upload[u].image) /\ Answer(u, "enrolled")
     \/ /\ ~student
        /\ Answer(u, "failed") /\ overtaken' = overtaken \ {u} /\ UNCHANGED rows
  /\ UNCHANGED <<student, worker, queues, history, left>>

\* rabbit.publish: the broker has the task, the confirm is on its way.
Enqueue(u) ==
  /\ At(u, "enqueue")
  /\ main' = Put(main, <<u, 0>>)
  /\ Step(u, "confirm")
  /\ UNCHANGED <<student, rows, worker, retry, dead, history, overtaken, left>>

\* No channel, or the broker refuses.
Refuse(u) ==
  /\ At(u, "enqueue")
  /\ Answer(u, "unavailable")
  /\ UNCHANGED <<student, rows, worker, queues, history, overtaken, left>>

Confirm(u) ==
  /\ At(u, "confirm")
  /\ Answer(u, "queued")
  /\ UNCHANGED <<student, rows, worker, queues, history, overtaken, left>>

-----------------------------------------------------------------------------
(* The face-task consumer.                                                 *)

Goes(w, pc) == worker' = [worker EXCEPT ![w].pc = pc]
Held(w) == <<worker[w].task, worker[w].attempts>>
Unacked(w) == worker[w].pc # "idle" /\ worker[w].live

Deliver(w) ==
  /\ worker[w].pc = "idle"
  /\ \E t \in Tasks :
       /\ main[t] > 0
       /\ main' = Take(main, t)
       /\ worker' = [worker EXCEPT ![w] =
            [pc |-> "extract", task |-> t[1], attempts |-> t[2], live |-> TRUE]]
  /\ UNCHANGED <<student, rows, upload, retry, dead, history, overtaken, left>>

\* process() has returned: the task is dealt with.
Settle(w) ==
  /\ Goes(w, "ack")
  /\ settled' = settled \cup {worker[w].task}
  /\ UNCHANGED failures

\* process() throws: the catch block of handle().
Fail(w) ==
  /\ Goes(w, "catch")
  /\ failures' = [failures EXCEPT ![worker[w].task] = IF @ = MaxAttempts THEN @ ELSE @ + 1]
  /\ UNCHANGED settled

\* A response without a usable face is terminal.
ExtractTask(w) ==
  /\ worker[w].pc = "extract"
  /\ \E result \in Results :
       \/ result = "face" /\ Goes(w, "dedup") /\ UNCHANGED history
       \/ result \in {"noFace", "wrongSize"} /\ Settle(w)
       \/ Throws(result) /\ Fail(w)
  /\ UNCHANGED <<student, rows, upload, queues, overtaken, left>>

\* Seeded fault: the consumer does not look for the embedding.
DedupTaskNever(w) ==
  /\ worker[w].pc = "dedup"
  /\ Goes(w, "insert")
  /\ UNCHANGED <<student, rows, upload, queues, history, overtaken, left>>

DedupTask(w) ==
  /\ worker[w].pc = "dedup"
  /\ IF Enrolled(ImageOf(w)) THEN Settle(w) ELSE Goes(w, "insert") /\ UNCHANGED history
  /\ UNCHANGED <<student, rows, upload, queues, overtaken, left>>

InsertTask(w) ==
  /\ worker[w].pc = "insert"
  /\ \/ InsertEmbedding(w, ImageOf(w)) /\ Settle(w)
     \/ ~student /\ Fail(w) /\ overtaken' = overtaken \ {w} /\ UNCHANGED rows
  /\ UNCHANGED <<student, upload, queues, left>>

DatabaseFault(w) ==
  /\ worker[w].pc \in {"dedup", "insert"}
  /\ Fault("database")
  /\ Fail(w)
  /\ overtaken' = overtaken \ {w}
  /\ UNCHANGED <<student, rows, upload, queues>>

\* Seeded faults: an exhausted task is only acked; it is dead-lettered one attempt
\* early; it is dead-lettered, and then refused, which requeues it; the retry does not
\* count.
ParkDropped(w) ==
  LET next == worker[w].attempts + 1 IN
  /\ worker[w].pc = "catch" /\ worker[w].live
  /\ IF next < MaxAttempts
     THEN retry' = Put(retry, <<worker[w].task, next>>)
     ELSE UNCHANGED retry
  /\ Goes(w, "ack")
  /\ UNCHANGED <<student, rows, upload, main, dead, history, overtaken, left>>

ParkEarly(w) ==
  LET next == worker[w].attempts + 1 IN
  /\ worker[w].pc = "catch" /\ worker[w].live
  /\ IF next + 1 < MaxAttempts
     THEN retry' = Put(retry, <<worker[w].task, next>>) /\ UNCHANGED dead
     ELSE dead' = dead \cup {worker[w].task} /\ UNCHANGED retry
  /\ Goes(w, "ack")
  /\ UNCHANGED <<student, rows, upload, main, history, overtaken, left>>

ParkNacked(w) ==
  LET next == worker[w].attempts + 1 IN
  /\ worker[w].pc = "catch" /\ worker[w].live
  /\ IF next < MaxAttempts
     THEN retry' = Put(retry, <<worker[w].task, next>>) /\ UNCHANGED <<main, dead>>
     ELSE /\ dead' = dead \cup {worker[w].task}
          /\ main' = Put(main, Held(w)) /\ UNCHANGED retry
  /\ Goes(w, "ack")
  /\ UNCHANGED <<student, rows, upload, history, overtaken, left>>

ParkUncounted(w) ==
  /\ worker[w].pc = "catch" /\ worker[w].live
  /\ retry' = Put(retry, Held(w))
  /\ Goes(w, "ack")
  /\ UNCHANGED <<student, rows, upload, main, dead, history, overtaken, left>>

\* The catch block parks the task for a delayed retry, or dead-letters it.
Park(w) ==
  LET next == worker[w].attempts + 1 IN
  /\ worker[w].pc = "catch" /\ worker[w].live
  /\ IF next < MaxAttempts
     THEN retry' = Put(retry, <<worker[w].task, next>>) /\ UNCHANGED dead
     ELSE dead' = dead \cup {worker[w].task} /\ UNCHANGED retry
  /\ Goes(w, "ack")
  /\ UNCHANGED <<student, rows, upload, main, history, overtaken, left>>

\* channel.ack, the end of the handler.
Ack(w) ==
  /\ worker[w].pc = "ack" /\ worker[w].live
  /\ worker' = [worker EXCEPT ![w] = Idle]
  /\ UNCHANGED <<student, rows, upload, queues, history, overtaken, left>>

\* On a closed channel ack and sendToQueue throw, which ends the handler.
DeadChannel(w) ==
  /\ worker[w].pc \in {"catch", "ack"} /\ ~worker[w].live
  /\ worker' = [worker EXCEPT ![w] = Idle]
  /\ UNCHANGED <<student, rows, upload, queues, history, overtaken, left>>

\* The message TTL of the retry queue runs out.
Expire(t) ==
  /\ retry[t] > 0
  /\ retry' = Take(retry, t)
  /\ main' = Put(main, t)
  /\ UNCHANGED <<student, rows, upload, worker, dead, history, overtaken, left>>

-----------------------------------------------------------------------------
(* Faults of the gateway and its connection.                               *)

\* What the broker requeues when the connection goes.
Requeued(t) == Cardinality({w \in Workers : Unacked(w) /\ Held(w) = t})
Requeue == main' = [t \in Tasks |-> main[t] + Requeued(t)]

\* A query of the upload handler fails.
UploadFault(u) ==
  /\ upload[u].pc \in {"new", "dedup", "insert"}
  /\ Fault("database")
  /\ Answer(u, "failed")
  /\ overtaken' = overtaken \ {u}
  /\ UNCHANGED <<student, rows, worker, queues, history>>

\* The connection drops.  A publish without a confirm yet, arrived or not, is
\* never confirmed or rejected: its request gets no answer.
Drop ==
  /\ Fault("drop")
  /\ Requeue
  /\ worker' = [w \in Workers |-> [worker[w] EXCEPT !.live = worker[w].pc = "idle"]]
  /\ \E lost \in SUBSET {u \in Uploads : At(u, "enqueue")} :
       upload' = [u \in Uploads |->
         IF At(u, "confirm") \/ u \in lost THEN [upload[u] EXCEPT !.pc = "end"]
         ELSE upload[u]]
  /\ UNCHANGED <<student, rows, retry, dead, history, overtaken>>

\* The gateway dies and starts again.
Crash ==
  /\ Fault("crash")
  /\ Requeue
  /\ worker' = [w \in Workers |-> Idle]
  /\ upload' = [u \in Uploads |->
       IF At(u, "new") THEN upload[u] ELSE [upload[u] EXCEPT !.pc = "end"]]
  /\ overtaken' = {}
  /\ UNCHANGED <<student, rows, retry, dead, history>>

-----------------------------------------------------------------------------
Request(u) ==
  \/ FindStudent(u) \/ DedupUpload(u) \/ ExtractUpload(u) \/ InsertUpload(u)
  \/ Enqueue(u) \/ Refuse(u) \/ Confirm(u) \/ UploadFault(u)

Handler(w) ==
  \/ ExtractTask(w) \/ DedupTask(w) \/ InsertTask(w) \/ DatabaseFault(w)
  \/ Park(w) \/ Ack(w) \/ DeadChannel(w)

Next ==
  \/ \E u \in Uploads : Request(u)
  \/ \E w \in Workers : Deliver(w) \/ Handler(w)
  \/ \E t \in Tasks : Expire(t)
  \/ \E i \in Images : RemoveFace(i)
  \/ DeleteStudent \/ Drop \/ Crash

Spec == Init /\ [][Next]_vars

(***************************************************************************)
(* Fairness: the broker delivers to a free slot and expires parked tasks,  *)
(* and every step of a handler returns: the AI call has a timeout, and a   *)
(* query answers or fails.                                                 *)
(***************************************************************************)
Fairness ==
  /\ \A w \in Workers : WF_vars(Deliver(w)) /\ WF_vars(Handler(w))
  /\ \A t \in Tasks : WF_vars(Expire(t))

FairSpec == Spec /\ Fairness

-----------------------------------------------------------------------------
(* Properties.                                                             *)

InFlight(u) ==
  \/ \E t \in Tasks : t[1] = u /\ main[t] + retry[t] > 0
  \/ \E w \in Workers : Unacked(w) /\ worker[w].task = u

\* A request answered 202 is not forgotten: until its task was dealt with or
\* dead-lettered, some copy of it is in a queue or held by a live channel,
\* although a failed task moves between queues by two unconfirmed sends.
QueuedIsNeverLost ==
  \A u \in Uploads :
    upload[u].answer = "queued" => u \in settled \cup dead \/ InFlight(u)

\* "exhausted tasks land in ...dead" (topology.ts:11): only after FACE_TASK_MAX_ATTEMPTS
\* failures, also when redelivery makes copies of the task.
DeadAfterAllAttempts == \A u \in dead : failures[u] = MaxAttempts

\* A second embedding of an image is stored only by a handler that another one
\* overtook between its check and its insert; an upload or a redelivered task that
\* comes later finds the first.
DuplicateOnlyByRace ==
  [][\A i \in Images : rows[i] > 0 /\ rows'[i] > rows[i]
       => \E a \in overtaken : a \notin overtaken']_vars

\* A queued enrollment comes to an end: it is dealt with or dead-lettered, and no
\* copy of it keeps circulating.
QueuedComesToAnEnd ==
  \A u \in Uploads : upload[u].answer = "queued"
    ~> [](u \in settled \cup dead /\ ~InFlight(u))

\* A copy that something will still come of: a handler about to ack does not count,
\* for two of them would vouch for each other.
Queued(u) == \E t \in Tasks : t[1] = u /\ main[t] + retry[t] > 0
Working(w) == Unacked(w) /\ worker[w].pc # "ack"
Pending(u) == Queued(u) \/ \E w \in Workers : Working(w) /\ worker[w].task = u

pending == {u \in Uploads : Pending(u)}
disturbed == left < MaxFaults

\* The consumer keeps what the queue promises to an upload answered 202, whatever
\* becomes of slots, copies and connections: a task is worked on once, and settled or
\* dead-lettered once, until a fault disturbs it (face-task-consumer.ts, handle).
Task == INSTANCE FaceTask WITH queued <- pending
KeepsTask == Task!Spec
=============================================================================
