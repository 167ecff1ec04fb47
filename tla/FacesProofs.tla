---------------------------- MODULE FacesProofs ----------------------------
(***************************************************************************)
(* Invariance proofs for Faces, and its refinement of FaceTask, for every  *)
(* set of uploads, images and workers, every number of attempts and of     *)
(* faults.                                                                 *)
(***************************************************************************)
EXTENDS Faces, FiniteSetTheorems, TLAPS

-----------------------------------------------------------------------------
(* The inductive invariant.                                                *)

\* The attempt count of a copy never runs ahead of the failures of its task.
AttemptsInv ==
  /\ \A t \in Tasks : main[t] + retry[t] > 0 => t[2] <= failures[t[1]]
  /\ \A w \in Workers :
       /\ worker[w].pc # "idle" => worker[w].attempts <= failures[worker[w].task]
       /\ worker[w].pc = "catch" => worker[w].attempts < failures[worker[w].task]
  /\ DeadAfterAllAttempts

\* A task the broker has is dealt with, dead-lettered or pending.
Enqueued(u) == upload[u].pc = "confirm" \/ upload[u].answer = "queued"
TaskInv == \A u \in Uploads : Enqueued(u) => u \in settled \cup dead \/ Pending(u)

\* A handler that may store an image that has an embedding has been overtaken.
RaceInv == \A i \in Images : rows[i] > 0 => Storing(i) \subseteq overtaken

IInv == TypeOK /\ AttemptsInv /\ TaskInv /\ RaceInv

-----------------------------------------------------------------------------
(* What the steps of the handlers do to them.                              *)

UploadPcs == {"new", "find", "dedup", "extract", "insert", "enqueue", "confirm", "end"}
WorkerPcs == {"idle", "extract", "dedup", "insert", "catch", "ack"}
UploadRecord == [image : Images, answer : Answers, pc : UploadPcs]
WorkerRecord == [pc : WorkerPcs, task : Uploads \cup {NoUpload},
                 attempts : 0..MaxAttempts - 1, live : BOOLEAN]

\* Request u goes to pc with answer a.
RequestMoves(u, pc, a) ==
  /\ upload' \in [Uploads -> UploadRecord]
  /\ \A v \in Uploads \ {u} : upload'[v] = upload[v]
  /\ upload'[u].pc = pc /\ upload'[u].answer = a
  /\ upload'[u].image = upload[u].image

\* Worker w goes on to pc with its task.
WorkerMoves(w, pc) ==
  /\ worker' \in [Workers -> WorkerRecord]
  /\ \A v \in Workers \ {w} : worker'[v] = worker[v]
  /\ worker'[w].pc = pc
  /\ worker'[w].task = worker[w].task
  /\ worker'[w].attempts = worker[w].attempts
  /\ worker'[w].live = worker[w].live

LEMMA PutAdds ==
  ASSUME NEW queue \in [Tasks -> Nat], NEW task \in Tasks
  PROVE  /\ Put(queue, task) \in [Tasks -> Nat]
         /\ Put(queue, task)[task] = queue[task] + 1
         /\ \A t \in Tasks : queue[t] <= Put(queue, task)[t]
         /\ \A t \in Tasks \ {task} : Put(queue, task)[t] = queue[t]
BY DEF Put

LEMMA StepMoves ==
  ASSUME TypeOK, NEW u \in Uploads, NEW pc \in UploadPcs, Step(u, pc)
  PROVE  RequestMoves(u, pc, upload[u].answer)
BY DEF TypeOK, Step, RequestMoves, UploadRecord, UploadPcs

LEMMA AnswerMoves ==
  ASSUME TypeOK, NEW u \in Uploads, NEW a \in Answers, Answer(u, a)
  PROVE  RequestMoves(u, "end", a)
<1>1. upload[u] \in UploadRecord /\ DOMAIN upload = Uploads
  BY DEF TypeOK, UploadRecord, UploadPcs
<1>2. /\ upload'[u] = [upload[u] EXCEPT !.pc = "end", !.answer = a]
      /\ \A v \in Uploads \ {u} : upload'[v] = upload[v]
      /\ DOMAIN upload' = Uploads /\ upload' = [v \in Uploads |-> upload'[v]]
  BY <1>1 DEF Answer
<1>3. /\ upload'[u] \in UploadRecord /\ upload'[u].image = upload[u].image
      /\ upload'[u].pc = "end" /\ upload'[u].answer = a
  BY <1>1, <1>2 DEF UploadRecord, UploadPcs
<1>4. \A v \in Uploads \ {u} : upload'[v] \in UploadRecord
  BY <1>2 DEF TypeOK, UploadRecord, UploadPcs
<1>5. upload' \in [Uploads -> UploadRecord]
  BY <1>2, <1>3, <1>4
<1> QED
  BY <1>2, <1>5 DEF RequestMoves

LEMMA GoesMoves ==
  ASSUME TypeOK, NEW w \in Workers, NEW pc \in WorkerPcs, Goes(w, pc)
  PROVE  WorkerMoves(w, pc)
BY DEF TypeOK, Goes, WorkerMoves, WorkerRecord, WorkerPcs

-----------------------------------------------------------------------------
(* Steps of the same kind.                                                 *)

\* A step of a request that leaves the broker and its consumers alone.
LEMMA RequestSteps ==
  ASSUME IInv, NEW u \in Uploads, NEW pc, NEW a, RequestMoves(u, pc, a),
         pc = "confirm" \/ a = "queued" => Enqueued(u),
         UNCHANGED <<worker, queues, history>>,
         student' \in BOOLEAN, rows' \in [Images -> Nat],
         overtaken' \subseteq Uploads \cup Workers, left' \in 0..MaxFaults,
         RaceInv'
  PROVE  IInv'
<1> USE DEF IInv, queues, history
<1>1. TypeOK'
  BY DEF TypeOK, RequestMoves, UploadRecord, UploadPcs
<1>2. AttemptsInv'
  BY DEF AttemptsInv, DeadAfterAllAttempts
<1>3. TaskInv'
  BY DEF TaskInv, RequestMoves, Enqueued, Pending, Queued, Working, Unacked
<1> QED
  BY <1>1, <1>2, <1>3

\* A step of a worker that leaves the queues alone.
LEMMA WorkerSteps ==
  ASSUME IInv, NEW w \in Workers, NEW pc \in WorkerPcs \ {"idle"}, WorkerMoves(w, pc),
         worker[w].pc # "idle",
         UNCHANGED <<upload, queues>>, failures' \in [Uploads -> 0..MaxAttempts],
         \A u \in Uploads : failures[u] <= failures'[u],
         pc = "catch" => worker[w].attempts < failures'[worker[w].task],
         settled \subseteq settled', settled' \subseteq Uploads,
         pc = "ack" => worker[w].task \in settled',
         student' \in BOOLEAN, rows' \in [Images -> Nat],
         overtaken' \subseteq Uploads \cup Workers, left' \in 0..MaxFaults,
         RaceInv'
  PROVE  IInv'
<1> USE FacesAssumption DEF IInv, queues
<1>1. TypeOK'
  BY DEF TypeOK, WorkerMoves, WorkerRecord, WorkerPcs
<1>2. AttemptsInv'
  <2>1. \A t \in Tasks : main'[t] + retry'[t] > 0 => t[2] <= failures'[t[1]]
    BY DEF AttemptsInv, TypeOK, Tasks
  <2>2. \A v \in Workers :
          /\ worker'[v].pc # "idle" => worker'[v].attempts <= failures'[worker'[v].task]
          /\ worker'[v].pc = "catch" => worker'[v].attempts < failures'[worker'[v].task]
    BY DEF AttemptsInv, TypeOK, WorkerMoves
  <2>3. DeadAfterAllAttempts'
    BY DEF AttemptsInv, DeadAfterAllAttempts, TypeOK
  <2> QED
    BY <2>1, <2>2, <2>3 DEF AttemptsInv
<1>3. TaskInv'
  <2> SUFFICES ASSUME NEW u \in Uploads, Enqueued(u), u \notin settled' \cup dead
               PROVE  Pending(u)'
    BY DEF TaskInv, Enqueued
  <2>1. Pending(u)
    BY DEF TaskInv
  <2>2. Queued(u) => Queued(u)'
    BY DEF Queued
  <2>3. ASSUME NEW v \in Workers, Working(v), worker[v].task = u
        PROVE  Working(v)' /\ worker'[v].task = u
    BY <2>3 DEF WorkerMoves, Working, Unacked
  <2> QED
    BY <2>1, <2>2, <2>3 DEF Pending
<1> QED
  BY <1>1, <1>2, <1>3

\* A request that stores nothing, and comes past its check only if it finds nothing.
LEMMA RequestRaces ==
  ASSUME IInv, NEW u \in Uploads, NEW pc, NEW a, RequestMoves(u, pc, a),
         UNCHANGED <<rows, worker>>, overtaken \ {u} \subseteq overtaken',
         pc \in {"extract", "insert"} =>
           \/ rows[upload[u].image] = 0
           \/ upload[u].pc = "extract" /\ overtaken' = overtaken
  PROVE  RaceInv'
<1> USE FacesAssumption DEF IInv
<1>1. \A i \in Images : Storing(i)' \ {u} \subseteq Storing(i)
  BY DEF RequestMoves, Storing, ImageOf, TypeOK
<1>2. \A i \in Images : u \in Storing(i)' =>
        i = upload[u].image /\ pc \in {"extract", "insert"}
  BY DEF RequestMoves, Storing
<1>3. upload[u].pc = "extract" => u \in Storing(upload[u].image)
  BY DEF Storing
<1> QED
  BY <1>1, <1>2, <1>3 DEF RaceInv

\* An embedding is stored by a handler that was past its check.
LEMMA InsertKeepsRace ==
  ASSUME IInv, NEW i \in Images, NEW a \in Storing(i), InsertEmbedding(a, i),
         \A j \in Images : Storing(j)' \subseteq Storing(j) \ {a}
  PROVE  /\ RaceInv'
         /\ rows' \in [Images -> Nat]
         /\ overtaken' \subseteq Uploads \cup Workers
<1>1. rows' \in [Images -> Nat] /\ \A j \in Images \ {i} : rows'[j] = rows[j]
  BY DEF IInv, TypeOK, InsertEmbedding
<1>2. overtaken' = (overtaken \cup Storing(i)) \ {a}
  BY DEF InsertEmbedding
<1>3. Storing(i) \subseteq Uploads \cup Workers
  BY DEF Storing
<1> QED
  BY <1>1, <1>2, <1>3 DEF IInv, TypeOK, RaceInv

-----------------------------------------------------------------------------
(* One lemma per action.                                                   *)

LEMMA RemoveFaceStep ==
  ASSUME IInv, NEW i \in Images, RemoveFace(i)
  PROVE  IInv'
<1> USE DEF IInv, RemoveFace, queues, history
<1>1. TypeOK'
  BY DEF TypeOK
<1>2. AttemptsInv'
  BY DEF AttemptsInv, DeadAfterAllAttempts
<1>3. TaskInv'
  BY DEF TaskInv, Enqueued, Pending, Queued, Working, Unacked
<1>4. RaceInv'
  BY DEF RaceInv, Storing, ImageOf
<1> QED
  BY <1>1, <1>2, <1>3, <1>4

LEMMA DeleteStudentStep ==
  ASSUME IInv, DeleteStudent
  PROVE  IInv'
<1> USE DEF IInv, DeleteStudent, queues, history
<1>1. TypeOK'
  BY DEF TypeOK
<1>2. AttemptsInv'
  BY DEF AttemptsInv, DeadAfterAllAttempts
<1>3. TaskInv'
  BY DEF TaskInv, Enqueued, Pending, Queued, Working, Unacked
<1>4. RaceInv'
  BY DEF RaceInv
<1> QED
  BY <1>1, <1>2, <1>3, <1>4

LEMMA FindStudentStep ==
  ASSUME IInv, NEW u \in Uploads, FindStudent(u)
  PROVE  IInv'
<1> USE FacesAssumption DEF IInv, FindStudent, At, queues, history
<1>1. \/ RequestMoves(u, "dedup", upload[u].answer)
      \/ RequestMoves(u, "end", "notFound")
  BY StepMoves, AnswerMoves DEF UploadPcs, Answers
<1>2. RaceInv'
  BY <1>1, RequestRaces
<1> QED
  BY <1>1, <1>2, RequestSteps DEF TypeOK, Enqueued

LEMMA DedupUploadStep ==
  ASSUME IInv, NEW u \in Uploads, DedupUpload(u)
  PROVE  IInv'
<1> USE FacesAssumption DEF IInv, DedupUpload, At, queues, history
<1>1. CASE Enrolled(upload[u].image)
  <2>1. RequestMoves(u, "end", "conflict")
    BY <1>1, AnswerMoves DEF Answers
  <2>2. RaceInv'
    BY <2>1, RequestRaces
  <2> QED
    BY <2>1, <2>2, RequestSteps DEF TypeOK
<1>2. CASE ~Enrolled(upload[u].image)
  <2>1. RequestMoves(u, "extract", upload[u].answer)
    BY <1>2, StepMoves DEF UploadPcs
  <2>2. rows[upload[u].image] = 0
    BY <1>2 DEF Enrolled, TypeOK
  <2>3. RaceInv'
    BY <2>1, <2>2, RequestRaces
  <2> QED
    BY <2>1, <2>3, RequestSteps DEF TypeOK, Enqueued
<1> QED
  BY <1>1, <1>2

LEMMA ExtractUploadStep ==
  ASSUME IInv, NEW u \in Uploads, ExtractUpload(u)
  PROVE  IInv'
<1> USE FacesAssumption DEF IInv, ExtractUpload, At, queues, history
<1>1. \/ RequestMoves(u, "insert", upload[u].answer) /\ UNCHANGED overtaken
      \/ RequestMoves(u, "enqueue", upload[u].answer) /\ overtaken' = overtaken \ {u}
      \/ RequestMoves(u, "end", "rejected") /\ overtaken' = overtaken \ {u}
  BY StepMoves, AnswerMoves DEF UploadPcs, Answers
<1>2. RaceInv'
  <2>1. CASE RequestMoves(u, "insert", upload[u].answer) /\ UNCHANGED overtaken
    BY <2>1, RequestRaces
  <2>2. ASSUME NEW pc \in {"enqueue", "end"}, NEW a, RequestMoves(u, pc, a),
               overtaken' = overtaken \ {u}
        PROVE  RaceInv'
    BY <2>2, RequestRaces
  <2> QED
    BY <1>1, <2>1, <2>2
<1> QED
  BY <1>1, <1>2, RequestSteps DEF TypeOK, Enqueued

LEMMA InsertUploadStep ==
  ASSUME IInv, NEW u \in Uploads, InsertUpload(u)
  PROVE  IInv'
<1> USE FacesAssumption DEF IInv, InsertUpload, At, queues, history
<1>1. CASE InsertEmbedding(u, upload[u].image) /\ Answer(u, "enrolled")
  <2>1. RequestMoves(u, "end", "enrolled")
    BY <1>1, AnswerMoves DEF Answers
  <2>2. u \in Storing(upload[u].image)
    BY DEF Storing
  <2>3. \A j \in Images : Storing(j)' \subseteq Storing(j) \ {u}
    BY <2>1 DEF RequestMoves, Storing, ImageOf, TypeOK
  <2> QED
    BY <1>1, <2>1, <2>2, <2>3, InsertKeepsRace, RequestSteps DEF TypeOK
<1>2. CASE Answer(u, "failed") /\ overtaken' = overtaken \ {u} /\ UNCHANGED rows
  <2>1. RequestMoves(u, "end", "failed")
    BY <1>2, AnswerMoves DEF Answers
  <2>2. RaceInv'
    BY <1>2, <2>1 DEF RequestMoves, RaceInv, Storing, ImageOf, TypeOK
  <2> QED
    BY <1>2, <2>1, <2>2, RequestSteps DEF TypeOK
<1> QED
  BY <1>1, <1>2

LEMMA RefuseStep ==
  ASSUME IInv, NEW u \in Uploads, Refuse(u)
  PROVE  IInv'
<1> USE FacesAssumption DEF IInv, Refuse, At, queues, history
<1>1. RequestMoves(u, "end", "unavailable")
  BY AnswerMoves DEF Answers
<1>2. RaceInv'
  BY <1>1, RequestRaces
<1> QED
  BY <1>1, <1>2, RequestSteps DEF TypeOK

LEMMA ConfirmStep ==
  ASSUME IInv, NEW u \in Uploads, Confirm(u)
  PROVE  IInv'
<1> USE FacesAssumption DEF IInv, Confirm, At, queues, history
<1>1. RequestMoves(u, "end", "queued")
  BY AnswerMoves DEF Answers
<1>2. RaceInv'
  BY <1>1, RequestRaces
<1> QED
  BY <1>1, <1>2, RequestSteps DEF TypeOK, Enqueued

LEMMA UploadFaultStep ==
  ASSUME IInv, NEW u \in Uploads, UploadFault(u)
  PROVE  IInv'
<1> USE FacesAssumption DEF IInv, UploadFault, Fault, queues, history
<1>1. RequestMoves(u, "end", "failed")
  BY AnswerMoves DEF Answers
<1>2. RaceInv'
  BY <1>1, RequestRaces
<1> QED
  BY <1>1, <1>2, RequestSteps DEF TypeOK

LEMMA EnqueueStep ==
  ASSUME IInv, NEW u \in Uploads, Enqueue(u)
  PROVE  IInv'
<1> USE FacesAssumption DEF IInv, Enqueue, At, history
<1>1. RequestMoves(u, "confirm", upload[u].answer)
  BY StepMoves DEF UploadPcs
<1>2. PICK t \in Tasks : t = <<u, 0>> /\ t[1] = u /\ t[2] = 0
  BY DEF Tasks
<1>3. /\ main' \in [Tasks -> Nat] /\ main'[t] = main[t] + 1
      /\ \A s \in Tasks : main[s] <= main'[s]
      /\ \A s \in Tasks \ {t} : main'[s] = main[s]
  <2>1. main' = Put(main, t) /\ main \in [Tasks -> Nat]
    BY <1>2 DEF TypeOK
  <2> QED
    BY ONLY <2>1, PutAdds
<1>4. \A s \in Tasks : main[s] \in Nat /\ retry[s] \in Nat /\ main'[s] \in Nat
  BY <1>3 DEF TypeOK
<1>5. TypeOK'
  BY <1>1, <1>3 DEF TypeOK, RequestMoves, UploadRecord, UploadPcs
<1>6. AttemptsInv'
  <2>1. failures[u] \in Nat
    BY DEF TypeOK
  <2>2. \A s \in Tasks : main'[s] + retry'[s] > 0 => s[2] <= failures'[s[1]]
    BY <1>2, <1>3, <2>1 DEF AttemptsInv
  <2> QED
    BY <2>2 DEF AttemptsInv, DeadAfterAllAttempts
<1>7. TaskInv'
  <2> SUFFICES ASSUME NEW v \in Uploads, Enqueued(v)', v \notin settled \cup dead
               PROVE  Pending(v)'
    BY DEF TaskInv
  <2>1. CASE v = u
    BY <1>2, <1>3, <1>4, <2>1 DEF Pending, Queued
  <2>2. CASE v # u
    <3>1. Pending(v)
      BY <1>1, <2>2 DEF TaskInv, Enqueued, RequestMoves
    <3>2. Queued(v) => Queued(v)'
      BY <1>3, <1>4 DEF Queued
    <3> QED
      BY <3>1, <3>2 DEF Pending, Working, Unacked
  <2> QED
    BY <2>1, <2>2
<1>8. RaceInv'
  BY <1>1, RequestRaces
<1> QED
  BY <1>5, <1>6, <1>7, <1>8

LEMMA DeliverStep ==
  ASSUME IInv, NEW w \in Workers, Deliver(w)
  PROVE  IInv'
<1> USE FacesAssumption DEF IInv, history
<1>1. PICK t \in Tasks :
        /\ main[t] > 0
        /\ main' = Take(main, t)
        /\ worker' = [worker EXCEPT ![w] =
             [pc |-> "extract", task |-> t[1], attempts |-> t[2], live |-> TRUE]]
  BY DEF Deliver
<1>2. /\ worker[w].pc = "idle"
      /\ UNCHANGED <<student, rows, upload, retry, dead, history, overtaken, left>>
  BY DEF Deliver
<1>3. t[1] \in Uploads /\ t[2] \in 0..MaxAttempts - 1
  BY DEF Tasks
<1>4. /\ worker' \in [Workers -> WorkerRecord]
      /\ \A v \in Workers \ {w} : worker'[v] = worker[v]
      /\ worker'[w].pc = "extract" /\ worker'[w].live = TRUE
      /\ worker'[w].task = t[1] /\ worker'[w].attempts = t[2]
  BY <1>1, <1>3 DEF TypeOK, WorkerRecord, WorkerPcs
<1>5. /\ main' \in [Tasks -> Nat] /\ main'[t] = main[t] - 1
      /\ \A s \in Tasks \ {t} : main'[s] = main[s]
  BY <1>1 DEF Take, TypeOK
<1>6. TypeOK'
  <2>1. \A v \in Workers : worker'[v].pc = "idle" <=> worker'[v].task = NoUpload
    BY <1>3, <1>4 DEF TypeOK
  <2> QED
    BY <1>2, <1>4, <1>5, <2>1 DEF TypeOK, WorkerRecord
<1>7. AttemptsInv'
  <2>1. \A s \in Tasks : main'[s] + retry'[s] > 0 => s[2] <= failures'[s[1]]
    BY <1>2, <1>5 DEF AttemptsInv, TypeOK
  <2>2. t[2] <= failures[t[1]]
    BY <1>1 DEF AttemptsInv, TypeOK
  <2> QED
    BY <1>2, <1>4, <2>1, <2>2 DEF AttemptsInv, DeadAfterAllAttempts
<1>8. TaskInv'
  <2> SUFFICES ASSUME NEW u \in Uploads, Enqueued(u), u \notin settled \cup dead
               PROVE  Pending(u)'
    BY <1>2 DEF TaskInv, Enqueued
  <2>1. Working(w)' /\ worker'[w].task = t[1]
    BY <1>4 DEF Working, Unacked
  <2>2. CASE t[1] = u
    BY <2>1, <2>2 DEF Pending
  <2>3. CASE t[1] # u
    <3>1. Pending(u)
      BY DEF TaskInv
    <3>2. Queued(u) => Queued(u)'
      BY <1>2, <1>5, <2>3 DEF Queued
    <3>3. \A v \in Workers : Working(v) => v # w
      BY <1>2 DEF Working, Unacked
    <3> QED
      BY <1>4, <3>1, <3>2, <3>3 DEF Pending, Working, Unacked
  <2> QED
    BY <2>2, <2>3
<1>9. RaceInv'
  BY <1>2, <1>4 DEF RaceInv, Storing, ImageOf
<1> QED
  BY <1>6, <1>7, <1>8, <1>9

\* The ends of process().
LEMMA SettleMoves ==
  ASSUME TypeOK, NEW w \in Workers, worker[w].pc # "idle", Settle(w)
  PROVE  /\ WorkerMoves(w, "ack")
         /\ failures' = failures
         /\ settled' = settled \cup {worker[w].task} /\ settled' \subseteq Uploads
BY GoesMoves DEF Settle, WorkerPcs, TypeOK

LEMMA FailMoves ==
  ASSUME IInv, NEW w \in Workers, worker[w].pc # "idle", Fail(w)
  PROVE  /\ WorkerMoves(w, "catch")
         /\ settled' = settled
         /\ failures' \in [Uploads -> 0..MaxAttempts]
         /\ \A u \in Uploads : failures[u] <= failures'[u]
         /\ worker[w].attempts < failures'[worker[w].task]
<1> USE FacesAssumption DEF IInv
<1>1. /\ worker[w].task \in Uploads /\ worker[w].attempts \in 0..MaxAttempts - 1
      /\ worker[w].attempts <= failures[worker[w].task]
  BY DEF TypeOK, AttemptsInv
<1>2. WorkerMoves(w, "catch") /\ settled' = settled
  BY GoesMoves DEF Fail, WorkerPcs
<1>3. /\ failures' \in [Uploads -> 0..MaxAttempts]
      /\ \A u \in Uploads : failures[u] <= failures'[u]
      /\ worker[w].attempts < failures'[worker[w].task]
  <2>1. failures' = [failures EXCEPT ![worker[w].task] = IF @ = MaxAttempts THEN @ ELSE @ + 1]
    BY DEF Fail
  <2>2. failures \in [Uploads -> 0..MaxAttempts]
    BY DEF TypeOK
  <2> QED
    BY ONLY <1>1, <2>1, <2>2, FacesAssumption
<1> QED
  BY <1>2, <1>3

LEMMA ExtractTaskStep ==
  ASSUME IInv, NEW w \in Workers, ExtractTask(w)
  PROVE  IInv'
<1> USE FacesAssumption DEF IInv, ExtractTask, queues, history
<1>1. \/ WorkerMoves(w, "dedup") /\ UNCHANGED history
      \/ Settle(w) \/ Fail(w)
  BY GoesMoves DEF WorkerPcs
<1>2. ASSUME NEW pc \in {"dedup", "ack", "catch"}, WorkerMoves(w, pc)
      PROVE  RaceInv'
  BY <1>2 DEF WorkerMoves, RaceInv, Storing, ImageOf
<1>3. CASE WorkerMoves(w, "dedup") /\ UNCHANGED history
  BY <1>2, <1>3, WorkerSteps DEF TypeOK, WorkerPcs
<1>4. CASE Settle(w)
  BY <1>2, <1>4, SettleMoves, WorkerSteps DEF TypeOK, WorkerPcs
<1>5. CASE Fail(w)
  BY <1>2, <1>5, FailMoves, WorkerSteps DEF TypeOK, WorkerPcs
<1> QED
  BY <1>1, <1>3, <1>4, <1>5

LEMMA DedupTaskStep ==
  ASSUME IInv, NEW w \in Workers, DedupTask(w)
  PROVE  IInv'
<1> USE FacesAssumption DEF IInv, DedupTask, queues, history
<1>1. CASE Enrolled(ImageOf(w))
  <2>1. Settle(w)
    BY <1>1
  <2>2. WorkerMoves(w, "ack")
    BY <2>1, SettleMoves
  <2>3. RaceInv'
    BY <2>2 DEF WorkerMoves, RaceInv, Storing, ImageOf
  <2> QED
    BY <2>1, <2>3, SettleMoves, WorkerSteps DEF TypeOK, WorkerPcs
<1>2. CASE ~Enrolled(ImageOf(w))
  <2>1. WorkerMoves(w, "insert") /\ UNCHANGED history
    BY <1>2, GoesMoves DEF WorkerPcs
  <2>2. RaceInv'
    BY <1>2, <2>1 DEF WorkerMoves, RaceInv, Storing, Enrolled, ImageOf
  <2> QED
    BY <2>1, <2>2, WorkerSteps DEF TypeOK, WorkerPcs
<1> QED
  BY <1>1, <1>2

LEMMA InsertTaskStep ==
  ASSUME IInv, NEW w \in Workers, InsertTask(w)
  PROVE  IInv'
<1> USE FacesAssumption DEF IInv, InsertTask, queues, history
<1>1. ImageOf(w) \in Images
  BY DEF ImageOf, TypeOK
<1>2. CASE InsertEmbedding(w, ImageOf(w)) /\ Settle(w)
  <2>1. WorkerMoves(w, "ack")
    BY <1>2, SettleMoves
  <2>2. w \in Storing(ImageOf(w))
    BY DEF Storing
  <2>3. \A j \in Images : Storing(j)' \subseteq Storing(j) \ {w}
    BY <2>1 DEF WorkerMoves, Storing, ImageOf
  <2> QED
    BY <1>1, <1>2, <2>2, <2>3, InsertKeepsRace, SettleMoves, WorkerSteps
       DEF TypeOK, WorkerPcs
<1>3. CASE Fail(w) /\ overtaken' = overtaken \ {w} /\ UNCHANGED rows
  <2>1. WorkerMoves(w, "catch")
    BY <1>3, FailMoves
  <2>2. RaceInv'
    BY <1>3, <2>1 DEF WorkerMoves, RaceInv, Storing, ImageOf
  <2> QED
    BY <1>3, <2>2, FailMoves, WorkerSteps DEF TypeOK, WorkerPcs
<1> QED
  BY <1>2, <1>3

LEMMA DatabaseFaultStep ==
  ASSUME IInv, NEW w \in Workers, DatabaseFault(w)
  PROVE  IInv'
<1> USE FacesAssumption DEF IInv, DatabaseFault, queues, history
<1>1. WorkerMoves(w, "catch")
  BY FailMoves
<1>2. RaceInv'
  BY <1>1 DEF WorkerMoves, RaceInv, Storing, ImageOf
<1>3. left' \in 0..MaxFaults
  BY DEF Fault, TypeOK
<1> QED
  BY <1>2, <1>3, FailMoves, WorkerSteps DEF TypeOK, WorkerPcs

\* Every task vouched for by another worker, or by a queue, still is.
LEMMA ParkStep ==
  ASSUME IInv, NEW w \in Workers, Park(w)
  PROVE  IInv'
<1> USE FacesAssumption DEF IInv, Park, history
<1> DEFINE next == worker[w].attempts + 1
<1>1. /\ WorkerMoves(w, "ack")
      /\ worker[w].task \in Uploads /\ next \in 1..MaxAttempts
      /\ next <= failures[worker[w].task] /\ failures[worker[w].task] <= MaxAttempts
  BY GoesMoves DEF WorkerPcs, TypeOK, AttemptsInv
<1>2. \/ /\ <<worker[w].task, next>> \in Tasks
         /\ retry' = Put(retry, <<worker[w].task, next>>) /\ UNCHANGED dead
      \/ /\ next = MaxAttempts
         /\ dead' = dead \cup {worker[w].task} /\ UNCHANGED retry
  BY <1>1 DEF Tasks
<1>3. retry' \in [Tasks -> Nat] /\ \A t \in Tasks : retry[t] <= retry'[t]
  <2>1. CASE <<worker[w].task, next>> \in Tasks /\ retry' = Put(retry, <<worker[w].task, next>>)
    BY <2>1, PutAdds DEF TypeOK
  <2>2. CASE UNCHANGED retry
    BY <2>2 DEF TypeOK
  <2> QED
    BY <1>2, <2>1, <2>2
<1>4. TypeOK'
  BY SMTT(20), <1>1, <1>3 DEF TypeOK, WorkerMoves, WorkerRecord, WorkerPcs
<1>5. AttemptsInv'
  <2>1. \A t \in Tasks : main'[t] + retry'[t] > 0 => t[2] <= failures'[t[1]]
    BY DEF AttemptsInv, TypeOK, Put
  <2>2. DeadAfterAllAttempts'
    <3>1. CASE UNCHANGED dead
      BY <3>1 DEF AttemptsInv, DeadAfterAllAttempts
    <3>2. CASE next = MaxAttempts /\ dead' = dead \cup {worker[w].task}
      <4>1. failures[worker[w].task] = MaxAttempts
        BY <1>1, <3>2 DEF TypeOK
      <4> QED
        BY <4>1 DEF AttemptsInv, DeadAfterAllAttempts
    <3> QED
      BY <1>2, <3>1, <3>2
  <2> QED
    BY <1>1, <2>1, <2>2 DEF AttemptsInv, WorkerMoves
<1>6. TaskInv'
  <2> SUFFICES ASSUME NEW u \in Uploads, Enqueued(u), u \notin settled \cup dead'
               PROVE  Pending(u)'
    BY DEF TaskInv, Enqueued
  <2>1. CASE u = worker[w].task
    <3>1. main[<<u, next>>] + retry'[<<u, next>>] > 0 /\ <<u, next>> \in Tasks
      BY <1>2, <2>1 DEF Put, TypeOK
    <3> QED
      BY <3>1 DEF Pending, Queued
  <2>2. CASE u # worker[w].task
    <3>1. Pending(u)
      BY DEF TaskInv
    <3>2. Queued(u) => Queued(u)'
      BY <1>3 DEF Queued, TypeOK
    <3> QED
      BY <1>1, <2>2, <3>1, <3>2 DEF Pending, Working, Unacked, WorkerMoves
  <2> QED
    BY <2>1, <2>2
<1>7. RaceInv'
  BY <1>1 DEF WorkerMoves, RaceInv, Storing, ImageOf
<1> QED
  BY <1>4, <1>5, <1>6, <1>7

\* A handler ends: what it held was not what its task depended on.
LEMMA IdleSteps ==
  ASSUME IInv, NEW w \in Workers, ~Working(w), worker[w].pc # "insert",
         worker' = [worker EXCEPT ![w] = Idle],
         UNCHANGED <<student, rows, upload, queues, history, overtaken, left>>
  PROVE  IInv'
<1> USE FacesAssumption DEF IInv, Idle, queues, history
<1>1. TypeOK'
  BY DEF TypeOK
<1>2. AttemptsInv'
  BY DEF AttemptsInv, DeadAfterAllAttempts
<1>3. TaskInv'
  BY DEF TaskInv, Enqueued, Pending, Queued, Working, Unacked
<1>4. RaceInv'
  BY DEF RaceInv, Storing, ImageOf
<1> QED
  BY <1>1, <1>2, <1>3, <1>4

LEMMA AckStep ==
  ASSUME IInv, NEW w \in Workers, Ack(w)
  PROVE  IInv'
BY IdleSteps DEF Ack, Working

LEMMA DeadChannelStep ==
  ASSUME IInv, NEW w \in Workers, DeadChannel(w)
  PROVE  IInv'
BY IdleSteps DEF DeadChannel, Working, Unacked

LEMMA ExpireStep ==
  ASSUME IInv, NEW t \in Tasks, Expire(t)
  PROVE  IInv'
<1> USE FacesAssumption DEF IInv, Expire, history
<1>1. /\ main' \in [Tasks -> Nat] /\ retry' \in [Tasks -> Nat]
      /\ \A s \in Tasks : main'[s] + retry'[s] = main[s] + retry[s]
  <2>1. /\ main \in [Tasks -> Nat] /\ retry \in [Tasks -> Nat] /\ retry[t] > 0
        /\ main' = [main EXCEPT ![t] = @ + 1] /\ retry' = [retry EXCEPT ![t] = @ - 1]
    BY DEF Put, Take, TypeOK
  <2> QED
    BY ONLY <2>1
<1>2. TypeOK'
  BY <1>1 DEF TypeOK
<1>3. AttemptsInv'
  BY <1>1 DEF AttemptsInv, DeadAfterAllAttempts
<1>4. TaskInv'
  BY <1>1 DEF TaskInv, Enqueued, Pending, Queued, Working, Unacked
<1>5. RaceInv'
  BY DEF RaceInv, Storing, ImageOf
<1> QED
  BY <1>2, <1>3, <1>4, <1>5

-----------------------------------------------------------------------------
(* The connection and the gateway.                                         *)

\* The broker gives back the tasks held over live channels, and no others.
LEMMA RequeueReturns ==
  ASSUME TypeOK, Requeue
  PROVE  /\ main' \in [Tasks -> Nat]
         /\ \A t \in Tasks : main[t] <= main'[t]
         /\ \A t \in Tasks :
              main'[t] > main[t] <=> \E w \in Workers : Unacked(w) /\ Held(w) = t
<1> DEFINE Holders(t) == {w \in Workers : Unacked(w) /\ Held(w) = t}
<1>1. ASSUME NEW t \in Tasks
      PROVE  Requeued(t) \in Nat /\ (Requeued(t) > 0 <=> Holders(t) # {})
  <2>1. IsFiniteSet(Holders(t))
    BY FacesAssumption, FS_Subset
  <2>2. Cardinality(Holders(t)) \in Nat /\ (Cardinality(Holders(t)) = 0 <=> Holders(t) = {})
    BY <2>1, FS_CardinalityType, FS_EmptySet
  <2> QED
    BY <2>2 DEF Requeued
<1>2. \A t \in Tasks : main'[t] = main[t] + Requeued(t)
  BY DEF Requeue
<1>3. main' \in [Tasks -> Nat]
  BY <1>1 DEF Requeue, TypeOK
<1>4. \A t \in Tasks : main[t] <= main'[t] /\ (main'[t] > main[t] <=> Requeued(t) > 0)
  BY <1>1, <1>2 DEF TypeOK
<1> QED
  BY <1>1, <1>3, <1>4

\* So the attempt counts and the pending tasks survive it, whatever becomes of the
\* handlers.
LEMMA RequeueKeeps ==
  ASSUME IInv, Requeue, UNCHANGED <<retry, dead, history>>
  PROVE  /\ \A t \in Tasks : main'[t] + retry'[t] > 0 => t[2] <= failures'[t[1]]
         /\ \A u \in Uploads : Pending(u) => Queued(u)'
<1> USE DEF IInv, history
<1>1. \A w \in Workers : Unacked(w) =>
        /\ Held(w) \in Tasks /\ Held(w)[1] = worker[w].task
        /\ Held(w)[2] = worker[w].attempts
  BY DEF Unacked, Held, TypeOK, Tasks
<1>2. ASSUME NEW t \in Tasks, main'[t] + retry'[t] > 0
      PROVE  t[2] <= failures'[t[1]]
  <2>1. CASE main[t] + retry[t] > 0
    BY <2>1 DEF AttemptsInv
  <2>2. CASE ~(main[t] + retry[t] > 0)
    <3>1. main'[t] > main[t]
      BY <1>2, <2>2, RequeueReturns DEF TypeOK
    <3>2. PICK w \in Workers : Unacked(w) /\ Held(w) = t
      BY <3>1, RequeueReturns
    <3> QED
      BY <1>1, <3>2 DEF AttemptsInv, Unacked
  <2> QED
    BY <2>1, <2>2
<1>3. ASSUME NEW u \in Uploads, Pending(u)
      PROVE  Queued(u)'
  <2>1. CASE Queued(u)
    BY <2>1, RequeueReturns DEF Queued, TypeOK
  <2>2. ASSUME NEW w \in Workers, Working(w), worker[w].task = u
        PROVE  Queued(u)'
    <3>1. Held(w) \in Tasks /\ Held(w)[1] = u /\ main'[Held(w)] > main[Held(w)]
      BY <1>1, <2>2, RequeueReturns DEF Working
    <3> QED
      BY <3>1, RequeueReturns DEF Queued, TypeOK
  <2> QED
    BY <1>3, <2>1, <2>2 DEF Pending
<1> QED
  BY <1>2, <1>3

\* Requests may end, or go on as they were.
LEMMA OutageSteps ==
  ASSUME IInv, Requeue, UNCHANGED <<student, rows, retry, dead, history>>,
         upload' \in [Uploads -> UploadRecord],
         \A u \in Uploads :
           /\ upload'[u].image = upload[u].image /\ upload'[u].answer = upload[u].answer
           /\ upload'[u].pc \in {upload[u].pc, "end"},
         worker' \in [Workers -> WorkerRecord],
         \A w \in Workers :
           \/ /\ worker'[w].pc = worker[w].pc /\ worker'[w].task = worker[w].task
              /\ worker'[w].attempts = worker[w].attempts
           \/ worker'[w] = Idle,
         left' \in 0..MaxFaults, overtaken' \subseteq Uploads \cup Workers, RaceInv'
  PROVE  IInv'
<1> USE FacesAssumption DEF IInv, Idle, history
<1>1. TypeOK'
  BY RequeueReturns DEF TypeOK, UploadRecord, WorkerRecord
<1>2. AttemptsInv'
  BY RequeueKeeps DEF AttemptsInv, DeadAfterAllAttempts
<1>3. TaskInv'
  BY RequeueKeeps DEF TaskInv, Enqueued, Pending
<1> QED
  BY <1>1, <1>2, <1>3

LEMMA DropStep ==
  ASSUME IInv, Drop
  PROVE  IInv'
<1> USE FacesAssumption DEF IInv, Drop, history
<1>1. left' \in 0..MaxFaults /\ overtaken' = overtaken
  BY DEF Fault, TypeOK
<1>2. /\ upload' \in [Uploads -> UploadRecord]
      /\ \A u \in Uploads :
           /\ upload'[u].image = upload[u].image /\ upload'[u].answer = upload[u].answer
           /\ upload'[u].pc \in {upload[u].pc, "end"}
  BY DEF TypeOK, UploadRecord, UploadPcs
<1>3. /\ worker' \in [Workers -> WorkerRecord]
      /\ \A w \in Workers :
           /\ worker'[w].pc = worker[w].pc /\ worker'[w].task = worker[w].task
           /\ worker'[w].attempts = worker[w].attempts
  <2>1. \A w \in Workers : worker[w] \in WorkerRecord
    BY DEF TypeOK, WorkerRecord, WorkerPcs
  <2>2. ASSUME NEW w \in Workers
        PROVE  /\ worker'[w] \in WorkerRecord /\ worker'[w].pc = worker[w].pc
               /\ worker'[w].task = worker[w].task
               /\ worker'[w].attempts = worker[w].attempts
    <3>1. worker[w] \in WorkerRecord
      BY <2>1
    <3>2. CASE worker[w].pc = "idle"
      <4>1. worker'[w] = [worker[w] EXCEPT !.live = TRUE]
        BY <3>2
      <4> QED
        BY ONLY <3>1, <4>1 DEF WorkerRecord
    <3>3. CASE worker[w].pc # "idle"
      <4>1. worker'[w] = [worker[w] EXCEPT !.live = FALSE]
        BY <3>3
      <4> QED
        BY ONLY <3>1, <4>1 DEF WorkerRecord
    <3> QED
      BY <3>2, <3>3
  <2>3. DOMAIN worker' = Workers /\ worker' = [w \in Workers |-> worker'[w]]
    OBVIOUS
  <2> QED
    BY ONLY <2>2, <2>3
<1>4. RaceInv'
  <2>1. \A w \in Workers : worker[w].pc = "insert" => worker[w].task \in Uploads
    BY DEF TypeOK
  <2>2. \A w \in Workers : worker[w].pc = "insert" => ImageOf(w)' = ImageOf(w)
    BY ONLY <1>2, <1>3, <2>1 DEF ImageOf
  <2>3. \A i \in Images : Storing(i)' \subseteq Storing(i)
    BY ONLY <1>2, <1>3, <2>2 DEF Storing
  <2> QED
    BY <1>1, <2>3 DEF RaceInv
<1> QED
  BY <1>1, <1>2, <1>3, <1>4, OutageSteps DEF TypeOK

LEMMA CrashStep ==
  ASSUME IInv, Crash
  PROVE  IInv'
<1> USE FacesAssumption DEF IInv, Crash, history
<1>1. left' \in 0..MaxFaults /\ overtaken' = {}
  BY DEF Fault, TypeOK
<1>2. /\ upload' \in [Uploads -> UploadRecord]
      /\ \A u \in Uploads :
           /\ upload'[u].image = upload[u].image /\ upload'[u].answer = upload[u].answer
           /\ upload'[u].pc \in {upload[u].pc, "end"} /\ upload'[u].pc \in {"new", "end"}
  BY SMTT(20) DEF At, TypeOK, UploadRecord, UploadPcs
<1>3. worker' \in [Workers -> WorkerRecord] /\ \A w \in Workers : worker'[w] = Idle
  BY DEF Idle, WorkerRecord, WorkerPcs
<1>4. RaceInv'
  BY <1>2 DEF RaceInv, Storing, Idle
<1> QED
  BY <1>1, <1>2, <1>3, <1>4, OutageSteps

-----------------------------------------------------------------------------
(* The theorems.                                                           *)

LEMMA InitStep == Init => IInv
<1> SUFFICES ASSUME Init
             PROVE  IInv
  OBVIOUS
<1> USE FacesAssumption DEF Init
<1>1. TypeOK
  BY DEF TypeOK, Idle, Answers
<1>2. AttemptsInv /\ RaceInv
  BY DEF AttemptsInv, DeadAfterAllAttempts, RaceInv, Idle
<1>3. TaskInv
  BY DEF TaskInv, Enqueued
<1> QED
  BY <1>1, <1>2, <1>3 DEF IInv

LEMMA StutterStep ==
  ASSUME IInv, UNCHANGED vars
  PROVE  IInv'
BY DEF IInv, vars, queues, history, TypeOK, AttemptsInv, DeadAfterAllAttempts,
       TaskInv, Enqueued, Pending, Queued, Working, Unacked, RaceInv, Storing, ImageOf

LEMMA NextStep == IInv /\ [Next]_vars => IInv'
<1> SUFFICES ASSUME IInv, [Next]_vars
             PROVE  IInv'
  OBVIOUS
<1>1. ASSUME NEW u \in Uploads, Request(u)
      PROVE  IInv'
  BY <1>1, FindStudentStep, DedupUploadStep, ExtractUploadStep, InsertUploadStep,
     EnqueueStep, RefuseStep, ConfirmStep, UploadFaultStep
     DEF Request
<1>2. ASSUME NEW w \in Workers, Handler(w)
      PROVE  IInv'
  BY <1>2, ExtractTaskStep, DedupTaskStep, InsertTaskStep, DatabaseFaultStep,
     ParkStep, AckStep, DeadChannelStep
     DEF Handler
<1> QED
  BY <1>1, <1>2, DeliverStep, ExpireStep, RemoveFaceStep, DeleteStudentStep, DropStep,
     CrashStep, StutterStep
     DEF Next

\* The inductive invariant holds in every reachable state.
THEOREM Invariance == Spec => []IInv
BY InitStep, NextStep, PTL DEF Spec

\* Type correctness: queues hold no negative number of copies, and a slot has a
\* task exactly while its handler runs.
THEOREM TypeCorrect == Spec => []TypeOK
<1>1. IInv => TypeOK
  BY DEF IInv
<1> QED
  BY <1>1, Invariance, PTL

\* Once a task is published, a copy of it stays in a queue or with a live channel
\* until a handler has dealt with it or dead-lettered it, through retries, drops
\* and crashes (face-task-consumer.ts, handle).
THEOREM NoTaskIsLost == Spec => []QueuedIsNeverLost
<1>1. IInv => QueuedIsNeverLost
  BY DEF IInv, TaskInv, Enqueued, Pending, Queued, Working, InFlight,
         QueuedIsNeverLost
<1> QED
  BY <1>1, Invariance, PTL

\* A dead-lettered task has failed as often as the limit says, although its copies
\* count their attempts apart (face-task-consumer.ts, the catch block).
THEOREM DeadOnlyWhenExhausted == Spec => []DeadAfterAllAttempts
<1>1. IInv => DeadAfterAllAttempts
  BY DEF IInv, AttemptsInv
<1> QED
  BY <1>1, Invariance, PTL

\* What an insert of a further embedding shows.
LEMMA SecondInsert ==
  ASSUME IInv, NEW j \in Images, NEW a \in Storing(j), InsertEmbedding(a, j),
         NEW i \in Images, rows[i] > 0, rows'[i] > rows[i]
  PROVE  \E b \in overtaken : b \notin overtaken'
<1>1. i = j
  BY DEF IInv, TypeOK, InsertEmbedding
<1>2. a \in overtaken
  BY <1>1 DEF IInv, RaceInv
<1> QED
  BY <1>2 DEF InsertEmbedding

\* A second embedding of an image comes only from a handler that was overtaken
\* between its check and its insert (faces.service.ts, enrollFace).
THEOREM DuplicatesAreRaces == Spec => DuplicateOnlyByRace
<1>1. ASSUME IInv, [Next]_vars, NEW i \in Images, rows[i] > 0, rows'[i] > rows[i]
      PROVE  \E a \in overtaken : a \notin overtaken'
  <2>1. ASSUME NEW u \in Uploads, Request(u)
        PROVE  \E a \in overtaken : a \notin overtaken'
    <3>1. InsertUpload(u)
      BY <1>1, <2>1
         DEF IInv, TypeOK, Request, FindStudent, DedupUpload, ExtractUpload, Enqueue,
             Refuse, Confirm, UploadFault
    <3>2. InsertEmbedding(u, upload[u].image) /\ upload[u].pc = "insert"
      BY <1>1, <3>1 DEF IInv, TypeOK, InsertUpload, At
    <3>3. upload[u].image \in Images /\ u \in Storing(upload[u].image)
      BY <1>1, <3>2 DEF IInv, TypeOK, Storing
    <3> QED
      BY <1>1, <3>2, <3>3, SecondInsert
  <2>2. ASSUME NEW w \in Workers, Deliver(w) \/ Handler(w)
        PROVE  \E a \in overtaken : a \notin overtaken'
    <3>1. InsertTask(w)
      BY <1>1, <2>2
         DEF IInv, TypeOK, Deliver, Handler, ExtractTask, DedupTask, DatabaseFault,
             Park, Ack, DeadChannel
    <3>2. InsertEmbedding(w, ImageOf(w)) /\ worker[w].pc = "insert"
      BY <1>1, <3>1 DEF IInv, TypeOK, InsertTask
    <3>3. ImageOf(w) \in Images /\ w \in Storing(ImageOf(w))
      BY <1>1, <3>2 DEF IInv, TypeOK, Storing, ImageOf
    <3> QED
      BY <1>1, <3>2, <3>3, SecondInsert
  <2>3. ~\E t \in Tasks : Expire(t)
    BY <1>1 DEF IInv, TypeOK, Expire
  <2>4. ~\E j \in Images : RemoveFace(j)
    BY <1>1 DEF IInv, TypeOK, RemoveFace
  <2>5. ~DeleteStudent /\ ~Drop /\ ~Crash /\ ~UNCHANGED vars
    BY <1>1 DEF IInv, TypeOK, DeleteStudent, Drop, Crash, vars
  <2> QED
    BY <1>1, <2>1, <2>2, <2>3, <2>4, <2>5 DEF Next
<1>2. IInv /\ [Next]_vars =>
        [\A i \in Images : rows[i] > 0 /\ rows'[i] > rows[i]
           => \E a \in overtaken : a \notin overtaken']_vars
  BY <1>1
<1> QED
  BY <1>2, Invariance, PTL DEF Spec, DuplicateOnlyByRace
-----------------------------------------------------------------------------
(* The refinement of FaceTask.                                             *)

\* What a handler holds, dead channel or not, is not the last that is left of a task.
HeldInv ==
  \A w \in Workers : worker[w].pc # "idle" =>
    worker[w].task \in settled \cup dead \/ Pending(worker[w].task)

\* The broker has nothing of a task that was not published yet.
Fresh(u) == upload[u].pc \notin {"confirm", "end"}
FreshInv ==
  \A u \in Uploads : Fresh(u) =>
    /\ ~Queued(u) /\ \A w \in Workers : worker[w].task # u
    /\ u \notin settled \cup dead /\ failures[u] = 0

\* As long as no fault was spent, a task has one copy, which counts all its failures.
SoleCopy(t) ==
  /\ main[t] + retry[t] = 1 /\ t[2] = failures[t[1]]
  /\ \A w \in Workers : Working(w) => worker[w].task # t[1]
SoleHandler(w) ==
  /\ worker[w].live
  /\ \A v \in Workers :
       Working(v) /\ Working(w) /\ worker[v].task = worker[w].task => v = w
  /\ worker[w].pc \in {"extract", "dedup", "insert"} =>
       failures[worker[w].task] = worker[w].attempts
  /\ worker[w].pc = "catch" => failures[worker[w].task] = worker[w].attempts + 1

CalmInv ==
  left = MaxFaults =>
    /\ \A t \in Tasks : main[t] + retry[t] > 0 => SoleCopy(t)
    /\ \A w \in Workers : SoleHandler(w)
    /\ \A u \in settled \cup dead : ~Pending(u)

OnceInv == HeldInv /\ FreshInv /\ CalmInv

taskVars == <<pending, failures, settled, dead, disturbed>>

\* A step that concerns neither the copies of a task nor its handlers.
LEMMA OtherOnce ==
  ASSUME IInv, OnceInv, UNCHANGED <<worker, dead, history>>,
         \A t \in Tasks : main'[t] + retry'[t] = main[t] + retry[t],
         \A u \in Uploads : Fresh(u)' => Fresh(u),
         left' = left \/ left' < MaxFaults
  PROVE  OnceInv' /\ pending' = pending
<1> USE FacesAssumption DEF history
<1>1. \A u : Queued(u)' <=> Queued(u)
  BY DEF Queued
<1>2. \A u : Pending(u)' <=> Pending(u)
  BY <1>1 DEF Pending, Working, Unacked
<1>3. HeldInv'
  BY <1>2 DEF OnceInv, HeldInv
<1>4. FreshInv'
  BY <1>1 DEF OnceInv, FreshInv
<1>5. CalmInv'
  BY <1>2 DEF OnceInv, CalmInv, SoleCopy, SoleHandler, Working, Unacked
<1> QED
  BY <1>2, <1>3, <1>4, <1>5 DEF OnceInv, pending


\* Worker w goes on, at most into its catch block, and takes nothing from a queue.
LEMMA WorkOnce ==
  ASSUME IInv, OnceInv, NEW w \in Workers, NEW pc \in {"dedup", "insert", "catch"},
         worker[w].pc \in {"extract", "dedup", "insert"}, WorkerMoves(w, pc),
         UNCHANGED <<upload, queues, settled>>, failures' \in [Uploads -> Nat],
         \A u \in Uploads \ {worker[w].task} : failures'[u] = failures[u],
         left' = left \/ left' < MaxFaults,
         left' = MaxFaults =>
           failures'[worker[w].task]
             = IF pc = "catch" THEN worker[w].attempts + 1 ELSE worker[w].attempts
  PROVE  OnceInv' /\ pending' = pending
<1> USE FacesAssumption DEF queues
<1>1. \A u : Queued(u)' <=> Queued(u)
  BY DEF Queued
<1>2. \A v \in Workers :
        /\ Working(v)' <=> Working(v)
        /\ worker'[v].task = worker[v].task /\ worker'[v].live = worker[v].live
        /\ worker'[v].pc = "idle" <=> worker[v].pc = "idle"
  BY DEF WorkerMoves, Working, Unacked
<1>3. \A u : Pending(u)' <=> Pending(u)
  BY <1>1, <1>2 DEF Pending
<1>4. HeldInv'
  BY <1>2, <1>3 DEF OnceInv, HeldInv
<1>5. worker[w].task \in Uploads /\ ~Fresh(worker[w].task)
  BY DEF IInv, TypeOK, OnceInv, FreshInv
<1>6. FreshInv'
  BY <1>1, <1>2, <1>5 DEF OnceInv, FreshInv, Fresh
<1>7. CalmInv'
  <2> SUFFICES ASSUME left' = MaxFaults
               PROVE  /\ \A t \in Tasks : main'[t] + retry'[t] > 0 => SoleCopy(t)'
                      /\ \A v \in Workers : SoleHandler(v)'
                      /\ \A u \in settled' \cup dead' : ~Pending(u)'
    BY DEF CalmInv
  <2>1. left = MaxFaults /\ CalmInv
    BY DEF OnceInv
  <2>2. Working(w)
    BY <2>1 DEF CalmInv, SoleHandler, Working, Unacked
  <2>3. ASSUME NEW t \in Tasks, main'[t] + retry'[t] > 0
        PROVE  SoleCopy(t)'
    <3>1. SoleCopy(t) /\ t[1] \in Uploads
      BY <2>1, <2>3 DEF CalmInv, Tasks
    <3>2. t[1] # worker[w].task
      BY <2>2, <3>1 DEF SoleCopy
    <3> QED
      BY <1>2, <3>1, <3>2 DEF SoleCopy
  <2>4. ASSUME NEW v \in Workers
        PROVE  SoleHandler(v)'
    <3>1. SoleHandler(v)
      BY <2>1 DEF CalmInv
    <3>2. CASE v = w
      BY <1>2, <2>1, <3>1, <3>2 DEF SoleHandler, WorkerMoves
    <3>3. CASE v # w /\ worker[v].pc \in {"extract", "dedup", "insert", "catch"}
      <4>1. Working(v)
        BY <3>1, <3>3 DEF SoleHandler, Working, Unacked
      <4>2. worker[v].task # worker[w].task /\ worker[v].task \in Uploads
        BY <2>2, <3>1, <3>3, <4>1 DEF SoleHandler, IInv, TypeOK
      <4> QED
        BY <1>2, <3>1, <3>3, <4>2 DEF SoleHandler, WorkerMoves
    <3>4. CASE v # w /\ worker[v].pc \notin {"extract", "dedup", "insert", "catch"}
      BY <1>2, <3>1, <3>4 DEF SoleHandler, WorkerMoves
    <3> QED
      BY <3>2, <3>3, <3>4
  <2>5. \A u \in settled' \cup dead' : ~Pending(u)'
    BY <1>3, <2>1 DEF CalmInv
  <2> QED
    BY <2>3, <2>4, <2>5
<1> QED
  BY <1>3, <1>4, <1>6, <1>7 DEF OnceInv, pending

\* Worker w is done with its task, and only has to ack.
LEMMA EndOnce ==
  ASSUME IInv, OnceInv, NEW w \in Workers, WorkerMoves(w, "ack"),
         NEW u0 \in Uploads, worker[w].task = u0, worker[w].pc \notin {"idle", "ack"},
         UNCHANGED <<upload, main, retry, failures, left>>,
         settled' \cup dead' = settled \cup dead \cup {u0}
  PROVE  /\ OnceInv'
         /\ \A u \in Uploads \ {u0} : Pending(u)' <=> Pending(u)
         /\ Pending(u0)' => Pending(u0) /\ left < MaxFaults
<1> USE FacesAssumption
<1>1. \A u : Queued(u)' <=> Queued(u)
  BY DEF Queued
<1>2. \A v \in Workers :
        /\ Working(v)' <=> Working(v) /\ v # w
        /\ worker'[v].task = worker[v].task /\ worker'[v].live = worker[v].live
        /\ worker'[v].attempts = worker[v].attempts
        /\ worker'[v].pc = (IF v = w THEN "ack" ELSE worker[v].pc)
  BY DEF WorkerMoves, Working, Unacked
<1>3. /\ \A u \in Uploads \ {u0} : Pending(u)' <=> Pending(u)
      /\ Pending(u0)' => Pending(u0)
  BY <1>1, <1>2 DEF Pending
<1>4. ~Fresh(u0) /\ \A v \in Workers : worker[v].pc # "idle" => worker[v].task \in Uploads
  BY DEF IInv, TypeOK, OnceInv, FreshInv
<1>5. HeldInv'
  BY <1>2, <1>3, <1>4 DEF OnceInv, HeldInv
<1>6. FreshInv'
  BY <1>1, <1>2, <1>4 DEF OnceInv, FreshInv, Fresh
<1>7. ASSUME left = MaxFaults
      PROVE  ~Pending(u0)'
  <2>1. CalmInv /\ Working(w)
    BY <1>7 DEF OnceInv, CalmInv, SoleHandler, Working, Unacked
  <2>2. ~Queued(u0)
    BY <1>7, <2>1 DEF CalmInv, SoleCopy, Queued
  <2>3. \A v \in Workers : Working(v) /\ worker[v].task = u0 => v = w
    BY <1>7, <2>1 DEF CalmInv, SoleHandler
  <2> QED
    BY <1>1, <1>2, <2>2, <2>3 DEF Pending
<1>8. CalmInv'
  <2> SUFFICES ASSUME left = MaxFaults
               PROVE  /\ \A t \in Tasks : main'[t] + retry'[t] > 0 => SoleCopy(t)'
                      /\ \A v \in Workers : SoleHandler(v)'
                      /\ \A u \in settled' \cup dead' : ~Pending(u)'
    BY DEF CalmInv
  <2>1. CalmInv /\ settled \cup dead \subseteq Uploads
    BY DEF OnceInv, IInv, TypeOK
  <2>2. \A t \in Tasks : main'[t] + retry'[t] > 0 => SoleCopy(t)'
    BY <1>2, <2>1 DEF CalmInv, SoleCopy
  <2>3. \A v \in Workers : SoleHandler(v)'
    BY <1>2, <2>1 DEF CalmInv, SoleHandler
  <2>4. ASSUME NEW u \in settled' \cup dead'
        PROVE  ~Pending(u)'
    <3>1. CASE u = u0
      BY <1>7, <3>1
    <3>2. CASE u # u0
      <4>1. u \in settled \cup dead /\ u \in Uploads
        BY <2>1, <3>2
      <4>2. ~Pending(u)
        BY <2>1, <4>1 DEF CalmInv
      <4> QED
        BY <1>3, <3>2, <4>1, <4>2
    <3> QED
      BY <3>1, <3>2
  <2> QED
    BY <2>2, <2>3, <2>4
<1>9. left \in 0..MaxFaults
  BY DEF IInv, TypeOK
<1> QED
  BY <1>3, <1>5, <1>6, <1>7, <1>8, <1>9 DEF OnceInv

LEMMA RetryOnce ==
  ASSUME IInv, OnceInv, NEW w \in Workers, Park(w), worker[w].attempts + 1 < MaxAttempts
  PROVE  OnceInv' /\ pending' = pending
<1> USE FacesAssumption DEF history
<1>0. PICK u0 \in Uploads : worker[w].task = u0
  BY DEF Park, IInv, TypeOK
<1>1. /\ WorkerMoves(w, "ack") /\ Working(w) /\ worker[w].pc = "catch"
      /\ worker[w].task = u0 /\ worker[w].attempts \in Nat
      /\ UNCHANGED <<upload, main, dead, failures, settled, left>>
  BY <1>0, GoesMoves DEF Park, IInv, TypeOK, WorkerPcs, Working, Unacked
<1> DEFINE next == worker[w].attempts + 1
<1>2. PICK t0 \in Tasks : t0 = <<u0, next>> /\ t0[1] = u0 /\ t0[2] = next
  <2>1. <<u0, next>> \in Tasks /\ <<u0, next>>[1] = u0 /\ <<u0, next>>[2] = next
    BY <1>1 DEF Tasks
  <2> QED
    BY ONLY <2>1
<1>3. /\ retry' \in [Tasks -> Nat] /\ retry'[t0] = retry[t0] + 1
      /\ \A t \in Tasks \ {t0} : retry'[t] = retry[t]
  <2>1. retry' = Put(retry, t0) /\ retry \in [Tasks -> Nat]
    BY <1>1, <1>2 DEF Park, IInv, TypeOK
  <2> QED
    BY ONLY <1>2, <2>1, PutAdds
<1>4. main \in [Tasks -> Nat] /\ retry \in [Tasks -> Nat]
  BY DEF IInv, TypeOK
<1>5. \A v \in Workers :
        /\ Working(v)' <=> Working(v) /\ v # w
        /\ worker'[v].task = worker[v].task /\ worker'[v].live = worker[v].live
        /\ worker'[v].attempts = worker[v].attempts
        /\ worker'[v].pc = (IF v = w THEN "ack" ELSE worker[v].pc)
  BY <1>1 DEF WorkerMoves, Working, Unacked
<1>6. /\ Queued(u0)' /\ Pending(u0)
      /\ \A u \in Uploads \ {u0} : Queued(u)' <=> Queued(u)
  <2>1. Pending(u0)
    BY <1>1 DEF Pending
  <2>2. Queued(u0)'
    BY <1>1, <1>2, <1>3, <1>4 DEF Queued
  <2>3. \A u \in Uploads \ {u0} : Queued(u)' <=> Queued(u)
    BY <1>1, <1>2, <1>3 DEF Queued
  <2> QED
    BY <2>1, <2>2, <2>3
<1>7. \A u \in Uploads : Pending(u)' <=> Pending(u)
  <2>1. Pending(u0)'
    BY <1>6 DEF Pending
  <2>2. \A u \in Uploads \ {u0} : Pending(u)' <=> Pending(u)
    BY <1>1, <1>5, <1>6 DEF Pending
  <2> QED
    BY <1>6, <2>1, <2>2
<1>8. HeldInv'
  BY <1>1, <1>5, <1>7 DEF OnceInv, HeldInv, IInv, TypeOK
<1>9. FreshInv'
  <2>1. ~Fresh(u0)
    BY <1>1 DEF OnceInv, FreshInv
  <2> QED
    BY <1>1, <1>5, <1>6, <2>1 DEF OnceInv, FreshInv, Fresh
<1>10. CalmInv'
  <2> SUFFICES ASSUME left = MaxFaults
               PROVE  /\ \A t \in Tasks : main'[t] + retry'[t] > 0 => SoleCopy(t)'
                      /\ \A v \in Workers : SoleHandler(v)'
                      /\ \A u \in settled' \cup dead' : ~Pending(u)'
    BY <1>1 DEF CalmInv
  <2>1. CalmInv /\ settled \cup dead \subseteq Uploads
    BY DEF OnceInv, IInv, TypeOK
  <2>2. ~Queued(u0) /\ main[t0] + retry[t0] = 0
    <3>1. ~Queued(u0)
      BY <1>1, <2>1 DEF CalmInv, SoleCopy, Queued
    <3> QED
      BY <1>2, <1>4, <3>1 DEF Queued
  <2>3. SoleHandler(w)
    BY <2>1 DEF CalmInv
  <2>4. SoleCopy(t0)'
    <3>1. main'[t0] + retry'[t0] = 1
      BY <1>1, <1>2, <1>3, <1>4, <2>2
    <3>2. t0[2] = failures'[t0[1]]
      BY <1>1, <1>2, <2>3 DEF SoleHandler
    <3>3. \A v \in Workers : Working(v)' => worker'[v].task # u0
      BY <1>1, <1>5, <2>1 DEF CalmInv, SoleHandler
    <3> QED
      BY <1>2, <3>1, <3>2, <3>3 DEF SoleCopy
  <2>5. ASSUME NEW t \in Tasks \ {t0}, main'[t] + retry'[t] > 0
        PROVE  SoleCopy(t)'
    BY <1>1, <1>3, <1>5, <2>1, <2>5 DEF CalmInv, SoleCopy
  <2>6. \A v \in Workers : SoleHandler(v)'
    BY <1>1, <1>5, <2>1 DEF CalmInv, SoleHandler
  <2>7. \A u \in settled' \cup dead' : ~Pending(u)'
    BY <1>1, <1>7, <2>1 DEF CalmInv
  <2> QED
    BY <2>4, <2>5, <2>6, <2>7
<1> QED
  BY <1>7, <1>8, <1>9, <1>10 DEF OnceInv, pending

LEMMA IdleOnce ==
  ASSUME IInv, OnceInv, NEW w \in Workers, Ack(w) \/ DeadChannel(w)
  PROVE  OnceInv' /\ pending' = pending
<1> USE FacesAssumption DEF queues, history
<1>1. /\ ~Working(w) /\ worker[w].pc # "idle"
      /\ worker' = [worker EXCEPT ![w] = Idle] /\ worker \in [Workers -> WorkerRecord]
      /\ UNCHANGED <<upload, main, retry, dead, failures, settled, left>>
  BY DEF Ack, DeadChannel, Working, Unacked, IInv, TypeOK, WorkerRecord, WorkerPcs
<1>2. /\ worker'[w] = Idle /\ \A v \in Workers \ {w} : worker'[v] = worker[v]
      /\ \A v \in Workers : Working(v)' <=> Working(v)
  BY <1>1 DEF Working, Unacked, Idle
<1>3. \A u \in Uploads : Queued(u)' <=> Queued(u)
  BY <1>1 DEF Queued
<1>4. \A u \in Uploads : Pending(u)' <=> Pending(u)
  BY <1>1, <1>2, <1>3 DEF Pending
<1>5. HeldInv'
  BY <1>1, <1>2, <1>4 DEF OnceInv, HeldInv, Idle, IInv, TypeOK
<1>6. FreshInv'
  BY <1>1, <1>2, <1>3 DEF OnceInv, FreshInv, Fresh, Idle
<1>7. CalmInv'
  <2>1. ASSUME NEW v \in Workers, SoleHandler(v), \A x \in Workers : SoleHandler(x)
        PROVE  SoleHandler(v)'
    BY <1>1, <1>2, <2>1 DEF SoleHandler, Idle
  <2>2. ASSUME NEW t \in Tasks, SoleCopy(t)
        PROVE  SoleCopy(t)'
    BY <1>1, <1>2, <2>2 DEF SoleCopy
  <2>3. settled \cup dead \subseteq Uploads
    BY DEF IInv, TypeOK
  <2> QED
    BY <1>1, <1>4, <2>1, <2>2, <2>3 DEF OnceInv, CalmInv
<1> QED
  BY <1>4, <1>5, <1>6, <1>7 DEF OnceInv, pending

LEMMA EnqueueOnce ==
  ASSUME IInv, OnceInv, NEW u \in Uploads, Enqueue(u)
  PROVE  OnceInv' /\ pending' = pending \cup {u}
<1> USE FacesAssumption DEF history
<1> DEFINE t0 == <<u, 0>>
<1>1. /\ RequestMoves(u, "confirm", upload[u].answer) /\ Fresh(u)
      /\ UNCHANGED <<worker, retry, dead, failures, settled, left>>
  BY StepMoves DEF Enqueue, At, Fresh, IInv, UploadPcs
<1>2. t0 \in Tasks /\ t0[1] = u /\ t0[2] = 0
  BY DEF Tasks
<1>3. /\ main' \in [Tasks -> Nat] /\ main'[t0] = main[t0] + 1
      /\ \A t \in Tasks \ {t0} : main'[t] = main[t]
  <2>1. main' = Put(main, t0) /\ main \in [Tasks -> Nat]
    BY DEF Enqueue, IInv, TypeOK
  <2> QED
    BY ONLY <1>2, <2>1, PutAdds
<1>4. main \in [Tasks -> Nat] /\ retry \in [Tasks -> Nat]
  BY DEF IInv, TypeOK
<1>5. /\ ~Queued(u) /\ u \notin settled \cup dead /\ failures[u] = 0
      /\ \A w \in Workers : worker[w].task # u
  BY <1>1 DEF OnceInv, FreshInv
<1>6. \A w : Working(w)' <=> Working(w)
  BY <1>1 DEF Working, Unacked
<1>7. Queued(u)' /\ \A v \in Uploads \ {u} : Queued(v)' <=> Queued(v)
  BY <1>1, <1>2, <1>3, <1>4 DEF Queued
<1>8. Pending(u)' /\ \A v \in Uploads \ {u} : Pending(v)' <=> Pending(v)
  BY <1>1, <1>6, <1>7 DEF Pending
<1>9. HeldInv'
  BY <1>1, <1>8 DEF OnceInv, HeldInv, IInv, TypeOK
<1>10. FreshInv'
  BY <1>1, <1>7 DEF OnceInv, FreshInv, Fresh, RequestMoves
<1>11. CalmInv'
  <2> SUFFICES ASSUME left = MaxFaults
               PROVE  /\ \A t \in Tasks : main'[t] + retry'[t] > 0 => SoleCopy(t)'
                      /\ \A w \in Workers : SoleHandler(w)'
                      /\ \A v \in settled' \cup dead' : ~Pending(v)'
    BY <1>1 DEF CalmInv
  <2>1. CalmInv /\ settled \cup dead \subseteq Uploads
    BY DEF OnceInv, IInv, TypeOK
  <2>2. SoleCopy(t0)'
    <3>1. main[t0] + retry[t0] = 0
      BY <1>2, <1>4, <1>5 DEF Queued
    <3>2. main'[t0] + retry'[t0] = 1
      BY <1>1, <1>2, <1>3, <1>4, <3>1
    <3> QED
      BY <1>1, <1>2, <1>5, <3>2 DEF SoleCopy
  <2>3. \A t \in Tasks \ {t0} : main'[t] + retry'[t] > 0 => SoleCopy(t)'
    BY <1>1, <1>3, <1>6, <2>1 DEF CalmInv, SoleCopy
  <2>4. \A w \in Workers : SoleHandler(w)'
    BY <1>1, <1>6, <2>1 DEF CalmInv, SoleHandler
  <2>5. \A v \in settled' \cup dead' : ~Pending(v)'
    BY <1>1, <1>5, <1>8, <2>1 DEF CalmInv
  <2> QED
    BY <2>2, <2>3, <2>4, <2>5
<1> QED
  BY <1>8, <1>9, <1>10, <1>11 DEF OnceInv, pending

LEMMA DeliverOnce ==
  ASSUME IInv, OnceInv, NEW w \in Workers, Deliver(w)
  PROVE  OnceInv' /\ pending' = pending
<1> USE FacesAssumption
<1>1. PICK t0 \in Tasks :
        /\ main[t0] > 0 /\ main' = Take(main, t0)
        /\ worker' = [worker EXCEPT ![w] =
             [pc |-> "extract", task |-> t0[1], attempts |-> t0[2], live |-> TRUE]]
  BY DEF Deliver
<1> DEFINE u0 == t0[1]
<1>2. /\ worker[w].pc = "idle" /\ u0 \in Uploads
      /\ UNCHANGED <<upload, retry, dead, failures, settled, left>>
  BY DEF Deliver, history, Tasks
<1>3. main \in [Tasks -> Nat] /\ retry \in [Tasks -> Nat] /\ DOMAIN worker = Workers
  BY DEF IInv, TypeOK
<1>4. /\ \A v \in Workers \ {w} : worker'[v] = worker[v]
      /\ worker'[w].pc = "extract" /\ worker'[w].live = TRUE
      /\ worker'[w].task = u0 /\ worker'[w].attempts = t0[2]
  BY <1>1, <1>3
<1>5. /\ main'[t0] = main[t0] - 1 /\ main' \in [Tasks -> Nat]
      /\ \A t \in Tasks \ {t0} : main'[t] = main[t]
  BY <1>1, <1>3 DEF Take
<1>6. /\ Working(w)' /\ ~Working(w)
      /\ \A v \in Workers \ {w} : Working(v)' <=> Working(v)
  BY <1>2, <1>4 DEF Working, Unacked
<1>7. Queued(u0) /\ \A u \in Uploads \ {u0} : Queued(u)' <=> Queued(u)
  BY <1>1, <1>2, <1>3, <1>5 DEF Queued
<1>8. Pending(u0) /\ \A u \in Uploads : Pending(u)' <=> Pending(u)
  <2>1. Pending(u0) /\ Pending(u0)'
    BY <1>4, <1>6, <1>7 DEF Pending
  <2>2. \A u \in Uploads \ {u0} : Pending(u)' <=> Pending(u)
    BY <1>4, <1>6, <1>7 DEF Pending
  <2> QED
    BY <2>1, <2>2
<1>9. HeldInv'
  BY <1>2, <1>4, <1>8 DEF OnceInv, HeldInv, IInv, TypeOK
<1>10. FreshInv'
  <2>1. ~Fresh(u0)
    BY <1>2, <1>7 DEF OnceInv, FreshInv
  <2> QED
    BY <1>2, <1>4, <1>7, <2>1 DEF OnceInv, FreshInv, Fresh
<1>11. CalmInv'
  <2> SUFFICES ASSUME left = MaxFaults
               PROVE  /\ \A t \in Tasks : main'[t] + retry'[t] > 0 => SoleCopy(t)'
                      /\ \A v \in Workers : SoleHandler(v)'
                      /\ \A u \in settled' \cup dead' : ~Pending(u)'
    BY <1>2 DEF CalmInv
  <2>1. CalmInv /\ settled \cup dead \subseteq Uploads
    BY DEF OnceInv, IInv, TypeOK
  <2>2. SoleCopy(t0)
    BY <1>1, <1>3, <2>1 DEF CalmInv
  <2>3. main'[t0] + retry'[t0] = 0
    BY <1>1, <1>2, <1>3, <1>5, <2>2 DEF SoleCopy
  <2>4. ASSUME NEW t \in Tasks, main'[t] + retry'[t] > 0
        PROVE  SoleCopy(t)'
    <3>1. t # t0 /\ SoleCopy(t)
      BY <1>2, <1>5, <2>1, <2>3, <2>4 DEF CalmInv
    <3>2. t[1] # u0
      BY <2>2, <3>1 DEF SoleCopy, Tasks
    <3> QED
      BY <1>2, <1>4, <1>5, <1>6, <3>1, <3>2 DEF SoleCopy
  <2>5. \A v \in Workers : SoleHandler(v)'
    <3>1. \A v \in Workers : Working(v) => worker[v].task # u0
      BY <2>2 DEF SoleCopy
    <3>2. SoleHandler(w)'
      BY <1>2, <1>4, <1>6, <2>2, <3>1 DEF SoleHandler, SoleCopy
    <3>3. ASSUME NEW v \in Workers \ {w}
          PROVE  SoleHandler(v)'
      BY <1>2, <1>4, <1>6, <2>1, <3>1 DEF CalmInv, SoleHandler
    <3> QED
      BY <3>2, <3>3
  <2>6. \A u \in settled' \cup dead' : ~Pending(u)'
    BY <1>2, <1>8, <2>1 DEF CalmInv
  <2> QED
    BY <2>4, <2>5, <2>6
<1> QED
  BY <1>8, <1>9, <1>10, <1>11 DEF OnceInv, pending

\* The connection or the gateway fails.
LEMMA OutageOnce ==
  ASSUME IInv, OnceInv, Drop \/ Crash
  PROVE  OnceInv' /\ pending \subseteq pending' /\ pending' \ pending \subseteq settled \cup dead
<1> USE FacesAssumption DEF history
<1>1. Requeue /\ UNCHANGED <<retry, dead, failures, settled>> /\ left' < MaxFaults
  BY DEF Drop, Crash, Fault, IInv, TypeOK
<1>2. \A u \in Uploads : Fresh(u)' => Fresh(u)
  BY DEF Drop, Crash, Fresh, At, IInv, TypeOK
<1>3. \A w \in Workers :
        worker'[w].pc = "idle" \/ (worker[w].pc # "idle" /\ worker'[w].task = worker[w].task)
  BY DEF Drop, Crash, Idle, IInv, TypeOK
<1>4. \A u \in Uploads : Pending(u) => Pending(u)'
  BY <1>1, RequeueKeeps DEF Pending
<1>5. ASSUME NEW u \in Uploads, Pending(u)', ~Pending(u)
      PROVE  \E w \in Workers : worker[w].pc # "idle" /\ worker[w].task = u
  <2>1. CASE Queued(u)'
    <3>1. PICK t \in Tasks : t[1] = u /\ main'[t] + retry'[t] > 0
      BY <2>1 DEF Queued
    <3>2. ~(main[t] + retry[t] > 0)
      BY <1>5, <3>1 DEF Pending, Queued
    <3>3. main'[t] > main[t]
      BY <1>1, <3>1, <3>2, RequeueReturns DEF IInv, TypeOK
    <3>4. PICK w \in Workers : Unacked(w) /\ Held(w) = t
      BY <1>1, <3>3, RequeueReturns DEF IInv
    <3> QED
      BY <3>1, <3>4 DEF Unacked, Held
  <2>2. CASE \E w \in Workers : Working(w)' /\ worker'[w].task = u
    BY <1>3, <2>2 DEF Working, Unacked
  <2> QED
    BY <1>5, <2>1, <2>2 DEF Pending
<1>6. \A u \in Uploads : Pending(u)' => Pending(u) \/ u \in settled \cup dead
  BY <1>5 DEF OnceInv, HeldInv
<1>7. HeldInv'
  BY <1>1, <1>3, <1>4 DEF OnceInv, HeldInv, IInv, TypeOK
<1>8. FreshInv'
  <2> SUFFICES ASSUME NEW u \in Uploads, Fresh(u)'
               PROVE  /\ ~Queued(u)' /\ \A w \in Workers : worker'[w].task # u
                      /\ u \notin settled' \cup dead' /\ failures'[u] = 0
    BY DEF FreshInv
  <2>1. /\ ~Pending(u) /\ \A w \in Workers : worker[w].task # u
        /\ u \notin settled \cup dead /\ failures[u] = 0
    BY <1>2 DEF OnceInv, FreshInv, Pending
  <2>2. ~Queued(u)'
    BY <1>5, <2>1 DEF Pending
  <2>3. \A w \in Workers : worker'[w].task # u
    BY <2>1 DEF Drop, Crash, Idle, IInv, TypeOK
  <2> QED
    BY <1>1, <2>1, <2>2, <2>3
<1>9. CalmInv'
  BY <1>1 DEF CalmInv
<1> QED
  BY <1>4, <1>6, <1>7, <1>8, <1>9 DEF OnceInv, pending

\* A handler that is past its delivery and not done works on a task that is open.
LEMMA HeldIsOpen ==
  ASSUME IInv, OnceInv, NEW w \in Workers, worker[w].pc \notin {"idle", "ack"},
         NEW u \in Uploads, worker[w].task = u
  PROVE  Task!Open(u) /\ (left = MaxFaults => Pending(u))
<1> USE FacesAssumption
<1>1. u \in settled \cup dead \/ Pending(u)
  BY DEF OnceInv, HeldInv
<1>2. left = MaxFaults => Pending(u)
  BY DEF OnceInv, CalmInv, SoleHandler, Working, Unacked, Pending
<1>3. left = MaxFaults \/ disturbed
  BY DEF IInv, TypeOK, disturbed
<1> QED
  BY <1>1, <1>2, <1>3 DEF Task!Open, Task!Ended, pending

LEMMA SettleKeeps ==
  ASSUME IInv, OnceInv, NEW w \in Workers, worker[w].pc \notin {"idle", "ack"}, Settle(w),
         UNCHANGED <<upload, queues, left>>
  PROVE  OnceInv' /\ Task!Next
<1>1. PICK u \in Uploads : worker[w].task = u
  BY DEF IInv, TypeOK
<1>2. /\ WorkerMoves(w, "ack") /\ settled' = settled \cup {u}
      /\ UNCHANGED <<upload, main, retry, dead, failures, left>>
  BY <1>1, SettleMoves DEF IInv, queues
<1>3. /\ OnceInv' /\ \A v \in Uploads \ {u} : Pending(v)' <=> Pending(v)
      /\ Pending(u)' => Pending(u) /\ left < MaxFaults
  BY <1>1, <1>2, EndOnce
<1>4. Task!Leaves(u)
  BY <1>3 DEF Task!Leaves, pending, disturbed
<1>5. Task!Settle(u)
  BY <1>1, <1>2, <1>4, HeldIsOpen DEF Task!Settle, disturbed
<1> QED
  BY <1>3, <1>5 DEF Task!Next

LEMMA FailKeeps ==
  ASSUME IInv, OnceInv, NEW w \in Workers,
         worker[w].pc \in {"extract", "dedup", "insert"}, Fail(w),
         UNCHANGED <<upload, queues>>,
         left' = left \/ left' < MaxFaults
  PROVE  OnceInv' /\ Task!Next
<1> USE FacesAssumption
<1>1. PICK u \in Uploads : worker[w].task = u
  BY DEF IInv, TypeOK
<1>2. /\ WorkerMoves(w, "catch") /\ settled' = settled
      /\ failures' \in [Uploads -> 0..MaxAttempts]
  BY FailMoves
<1>3. /\ failures' = [failures EXCEPT ![u] = IF @ = MaxAttempts THEN @ ELSE @ + 1]
      /\ failures \in [Uploads -> 0..MaxAttempts] /\ worker[w].attempts \in 0..MaxAttempts - 1
  BY <1>1 DEF Fail, IInv, TypeOK
<1>4. left' = MaxFaults => left = MaxFaults /\ failures[u] = worker[w].attempts
  BY <1>1 DEF OnceInv, CalmInv, SoleHandler
<1>5. left' = MaxFaults => failures'[u] = worker[w].attempts + 1
  BY <1>3, <1>4
<1>6. OnceInv' /\ pending' = pending
  <2>1. failures' \in [Uploads -> Nat] /\ \A v \in Uploads \ {u} : failures'[v] = failures[v]
    BY <1>2, <1>3
  <2> QED
    BY <1>1, <1>2, <1>5, <2>1, WorkOnce
<1>7. left \in 0..MaxFaults
  BY DEF IInv, TypeOK
<1>8. Task!Fail(u)
  <2>1. \/ failures[u] < MaxAttempts /\ failures' = [failures EXCEPT ![u] = @ + 1]
        \/ left' # MaxFaults /\ failures[u] = MaxAttempts /\ failures' = failures
    <3>1. CASE failures[u] < MaxAttempts
      <4>1. failures[u] # MaxAttempts
        BY <3>1
      <4>2. failures' = [failures EXCEPT ![u] = @ + 1]
        BY ONLY <1>3, <4>1
      <4> QED
        BY <3>1, <4>2
    <3>2. CASE ~(failures[u] < MaxAttempts)
      <4>1. left' # MaxFaults /\ failures[u] = MaxAttempts
        BY <1>3, <1>4, <3>2
      <4>2. failures' = failures
        BY <1>3, <4>1
      <4> QED
        BY <4>1, <4>2
    <3> QED
      BY <3>1, <3>2
  <2>2. (left' # MaxFaults => disturbed') /\ (disturbed => disturbed')
    BY <1>7 DEF disturbed
  <2> QED
    BY <1>1, <1>2, <1>6, <2>1, <2>2, HeldIsOpen DEF Task!Fail, queues
<1> QED
  BY <1>6, <1>8 DEF Task!Next

LEMMA ParkKeeps ==
  ASSUME IInv, OnceInv, NEW w \in Workers, Park(w)
  PROVE  OnceInv' /\ (Task!Next \/ UNCHANGED taskVars)
<1> USE FacesAssumption DEF history
<1>1. CASE worker[w].attempts + 1 < MaxAttempts
  <2>1. UNCHANGED <<dead, failures, settled, left>>
    BY <1>1 DEF Park
  <2> QED
    BY <1>1, <2>1, RetryOnce DEF taskVars, disturbed
<1>2. CASE ~(worker[w].attempts + 1 < MaxAttempts)
  <2>1. PICK u \in Uploads : worker[w].task = u
    BY DEF Park, IInv, TypeOK
  <2>2. /\ worker[w].pc = "catch" /\ dead' = dead \cup {u}
        /\ UNCHANGED <<upload, main, retry, failures, settled, left>>
    BY <1>2, <2>1 DEF Park
  <2>3. WorkerMoves(w, "ack")
    BY GoesMoves DEF Park, IInv, WorkerPcs
  <2>4. /\ OnceInv' /\ \A v \in Uploads \ {u} : Pending(v)' <=> Pending(v)
        /\ Pending(u)' => Pending(u) /\ left < MaxFaults
    BY <2>1, <2>2, <2>3, EndOnce
  <2>5. Task!Leaves(u)
    BY <2>4 DEF Task!Leaves, pending, disturbed
  <2>6. failures[u] = MaxAttempts
    BY <1>2, <2>1, <2>2 DEF IInv, TypeOK, AttemptsInv
  <2>7. Task!Bury(u)
    BY <2>1, <2>2, <2>5, <2>6, HeldIsOpen DEF Task!Bury, disturbed
  <2> QED
    BY <2>4, <2>7 DEF Task!Next
<1> QED
  BY <1>1, <1>2

LEMMA HandlerKeeps ==
  ASSUME IInv, OnceInv, NEW w \in Workers, Handler(w)
  PROVE  OnceInv' /\ (Task!Next \/ UNCHANGED taskVars)
<1> USE FacesAssumption
<1> DEFINE Midway == worker[w].pc \in {"extract", "dedup", "insert"}
<1>1. ASSUME NEW pc \in {"dedup", "insert"}, Midway, Goes(w, pc),
             UNCHANGED <<upload, queues, history, left>>
      PROVE  OnceInv' /\ UNCHANGED taskVars
  <2>1. WorkerMoves(w, pc) /\ UNCHANGED <<settled, failures, dead>>
    BY <1>1, GoesMoves DEF IInv, WorkerPcs, history, queues
  <2>2. failures' \in [Uploads -> Nat] /\ worker[w].task \in Uploads
    BY <1>1, <2>1 DEF IInv, TypeOK
  <2>3. left' = MaxFaults => failures'[worker[w].task] = worker[w].attempts
    BY <1>1, <2>1 DEF OnceInv, CalmInv, SoleHandler
  <2>4. OnceInv' /\ pending' = pending
    BY <1>1, <2>1, <2>2, <2>3, WorkOnce
  <2> QED
    BY <1>1, <2>1, <2>4 DEF taskVars, disturbed
<1>2. CASE ExtractTask(w)
  BY <1>1, <1>2, SettleKeeps, FailKeeps DEF ExtractTask
<1>3. CASE DedupTask(w)
  BY <1>1, <1>3, SettleKeeps DEF DedupTask
<1>4. CASE InsertTask(w)
  BY <1>4, SettleKeeps, FailKeeps DEF InsertTask
<1>5. CASE DatabaseFault(w)
  <2>1. left' < MaxFaults
    BY <1>5 DEF DatabaseFault, Fault, IInv, TypeOK
  <2> QED
    BY <1>5, <2>1, FailKeeps DEF DatabaseFault
<1>6. CASE Park(w)
  BY <1>6, ParkKeeps
<1>7. CASE Ack(w) \/ DeadChannel(w)
  BY <1>7, IdleOnce DEF Ack, DeadChannel, queues, history, taskVars, disturbed
<1> QED
  BY <1>2, <1>3, <1>4, <1>5, <1>6, <1>7 DEF Handler

\* What neither publishes a task nor works on one.
LEMMA OtherKeeps ==
  ASSUME IInv, OnceInv, UNCHANGED <<worker, dead, history, left>>,
         \A t \in Tasks : main'[t] + retry'[t] = main[t] + retry[t],
         \A u \in Uploads : Fresh(u)' => Fresh(u)
  PROVE  OnceInv' /\ UNCHANGED taskVars
BY OtherOnce DEF history, taskVars, disturbed

\* A fault opens no task but such as have ended.
LEMMA FaultKeeps ==
  ASSUME IInv, NEW kind, Fault(kind), UNCHANGED <<dead, history>>,
         pending \subseteq pending', pending' \ pending \subseteq settled \cup dead
  PROVE  Task!Next
<1> USE FacesAssumption DEF history
<1> DEFINE us == pending' \ pending
<1>1. us \in SUBSET Uploads /\ pending' = pending \cup us
  BY DEF pending
<1>2. disturbed' = TRUE
  BY DEF Fault, IInv, TypeOK, disturbed
<1>3. Task!Disturb(us)
  BY <1>1, <1>2 DEF Task!Disturb, Task!Ended
<1> QED
  BY <1>1, <1>3 DEF Task!Next

LEMMA RequestKeeps ==
  ASSUME IInv, OnceInv, NEW u \in Uploads, Request(u)
  PROVE  OnceInv' /\ (Task!Next \/ UNCHANGED taskVars)
<1> USE FacesAssumption
<1>1. CASE Enqueue(u)
  <2>1. OnceInv' /\ pending' = pending \cup {u}
    BY <1>1, EnqueueOnce
  <2>2. Fresh(u)
    BY <1>1 DEF Enqueue, At, Fresh
  <2>3. u \notin pending \cup settled \cup dead /\ failures[u] = 0
    BY <2>2 DEF OnceInv, FreshInv, Pending, pending
  <2>4. Task!Accept(u)
    BY <1>1, <2>1, <2>3
       DEF Task!Accept, Task!Ended, Enqueue, history, disturbed
  <2> QED
    BY <2>1, <2>4 DEF Task!Next
<1>2. CASE UploadFault(u)
  <2>1. /\ UNCHANGED <<worker, queues, history>> /\ Fault("database")
        /\ left' < MaxFaults
    BY <1>2 DEF UploadFault, Fault, IInv, TypeOK
  <2>2. \A v \in Uploads : Fresh(v)' => Fresh(v)
    BY <1>2 DEF UploadFault, Answer, Fresh, IInv, TypeOK
  <2>3. OnceInv' /\ pending' = pending
    BY <2>1, <2>2, OtherOnce DEF queues
  <2> QED
    BY <2>1, <2>3, FaultKeeps DEF queues
<1>3. CASE ~Enqueue(u) /\ ~UploadFault(u)
  <2>1. UNCHANGED <<worker, queues, history, left>>
    BY <1>3 DEF Request, FindStudent, DedupUpload, ExtractUpload, InsertUpload, Refuse,
                Confirm
  <2>2. \A v \in Uploads : Fresh(v)' => Fresh(v)
    <3>1. CASE At(u, "confirm")
      BY <1>3, <3>1 DEF Request, FindStudent, DedupUpload, ExtractUpload, InsertUpload,
                        Refuse, Confirm, At, Answer, Fresh, IInv, TypeOK
    <3>2. CASE ~At(u, "confirm")
      <4>1. Fresh(u)
        BY <1>3, <3>2 DEF Request, FindStudent, DedupUpload, ExtractUpload, InsertUpload,
                          Refuse, Confirm, At, Fresh
      <4>2. \A v \in Uploads \ {u} : upload'[v] = upload[v]
        BY <1>3 DEF Request, FindStudent, DedupUpload, ExtractUpload, InsertUpload,
                    Refuse, Confirm, Step, Answer, IInv, TypeOK
      <4> QED
        BY <4>1, <4>2 DEF Fresh
    <3> QED
      BY <3>1, <3>2
  <2> QED
    BY <2>1, <2>2, OtherKeeps DEF queues
<1> QED
  BY <1>1, <1>2, <1>3

LEMMA NextKeeps ==
  ASSUME IInv, OnceInv, [Next]_vars
  PROVE  OnceInv' /\ (Task!Next \/ UNCHANGED taskVars)
<1> USE FacesAssumption
<1>1. CASE \E u \in Uploads : Request(u)
  BY <1>1, RequestKeeps
<1>2. ASSUME NEW w \in Workers, Deliver(w)
      PROVE  OnceInv' /\ UNCHANGED taskVars
  BY <1>2, DeliverOnce DEF Deliver, history, taskVars, disturbed
<1>3. CASE \E w \in Workers : Handler(w)
  BY <1>3, HandlerKeeps
<1>4. ASSUME NEW t \in Tasks, Expire(t)
      PROVE  OnceInv' /\ UNCHANGED taskVars
  <2>1. \A s \in Tasks : main'[s] + retry'[s] = main[s] + retry[s]
    <3>1. /\ main \in [Tasks -> Nat] /\ retry \in [Tasks -> Nat] /\ retry[t] > 0
          /\ main' = [main EXCEPT ![t] = @ + 1] /\ retry' = [retry EXCEPT ![t] = @ - 1]
      BY <1>4 DEF Expire, Put, Take, IInv, TypeOK
    <3> QED
      BY ONLY <3>1
  <2> QED
    BY <1>4, <2>1, OtherKeeps DEF Expire, Fresh
<1>5. CASE (\E i \in Images : RemoveFace(i)) \/ DeleteStudent \/ UNCHANGED vars
  BY <1>5, OtherKeeps DEF RemoveFace, DeleteStudent, vars, queues, Fresh
<1>6. CASE Drop \/ Crash
  <2>1. /\ OnceInv' /\ pending \subseteq pending'
        /\ pending' \ pending \subseteq settled \cup dead
    BY <1>6, OutageOnce
  <2> QED
    BY <1>6, <2>1, FaultKeeps DEF Drop, Crash
<1> QED
  BY <1>1, <1>2, <1>3, <1>4, <1>5, <1>6 DEF Next

\* The queue, with its retries, its dead-letter queue and its outages, implements
\* FaceTask: an accepted task is settled or dead-lettered, once while no fault disturbs
\* it, and dead-lettered only after all its attempts (face-task-consumer.ts, handle).
THEOREM TaskRefinement == Spec => KeepsTask
<1>1. Init => OnceInv /\ Task!Init
  <2> SUFFICES ASSUME Init
               PROVE  OnceInv /\ Task!Init
    OBVIOUS
  <2> USE FacesAssumption DEF Init, Idle
  <2>1. \A u \in Uploads : ~Queued(u) /\ ~Pending(u)
    BY DEF Queued, Pending, Working, Unacked
  <2>2. HeldInv /\ FreshInv
    BY <2>1 DEF HeldInv, FreshInv
  <2>3. CalmInv
    BY DEF CalmInv, SoleHandler, Working, Unacked
  <2>4. Task!Init
    BY <2>1 DEF Task!Init, pending, disturbed
  <2> QED
    BY <2>2, <2>3, <2>4 DEF OnceInv
<1>2. IInv /\ OnceInv /\ [Next]_vars => OnceInv'
  BY NextKeeps
<1>3. IInv /\ OnceInv /\ [Next]_vars => [Task!Next]_(Task!vars)
  BY NextKeeps DEF Task!vars, taskVars
<1> QED
  BY <1>1, <1>2, <1>3, Invariance, PTL DEF Spec, KeepsTask, Task!Spec
=============================================================================
