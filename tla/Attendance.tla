----------------------------- MODULE Attendance -----------------------------
(***************************************************************************)
(* Attendance sessions and records (modules/attendance), with the roster,  *)
(* student and face changes that race them.  One course; every HTTP        *)
(* request is a process whose steps are its awaits: the access and state   *)
(* check, the face extraction, the roster search, and the transaction of   *)
(* the write.  That transaction runs at READ COMMITTED and Prisma executes *)
(* an upsert with an "include" as a read followed by an insert or update,  *)
(* so its read and its write are two steps.                                *)
(***************************************************************************)
EXTENDS Naturals, FiniteSets, Inference

CONSTANTS
  Requests,      \* HTTP requests, each handled once
  Sessions,      \* ids of attendance sessions of the course
  Students,      \* ids of students
  Professors,    \* who may own the course; an administrator is none of them
  Admin,
  Deleted,       \* the owner of a deleted course
  Null,          \* an absent similarity or record
  Similarities,  \* cosine similarities, as ranks
  Threshold      \* FACE_MATCH_THRESHOLD, on the same scale

Statuses == {"PRESENT", "LATE", "ABSENT"}
Record == [status: Statuses, method: {"FACE", "MANUAL"},
           similarity: Similarities \cup {Null}]

ASSUME AttendanceAssumption ==
  /\ Similarities \subseteq Nat
  /\ Threshold \in Nat
  /\ Admin \notin Professors
  /\ Deleted \notin Professors
  /\ Null \notin Nat \cup Record

VARIABLES
  session,    \* SessionStatus; NONE before it is opened, GONE with its course
  owner,      \* course.professorId
  students,   \* the students that exist
  enrolled,   \* the course roster
  withFace,   \* the students with at least one embedding
  record,     \* attendance_records, by session and student
  announced,  \* sessions and students with an attendance.recorded event in the outbox
  req,        \* the request handlers
  answer,     \* what each request was answered
  inFlight    \* history: the requests past their check when a session closed

directory == <<owner, students, enrolled, withFace>>
data == <<session, record, announced, inFlight>>
vars == <<directory, data, req, answer>>

Handler == [pc: {"new", "close", "extract", "search", "upsert", "insert", "update", "done"},
            session: Sessions \cup {Null}, student: Students \cup {Null},
            write: Record \cup {Null}]
Fresh == [pc |-> "new", session |-> Null, student |-> Null, write |-> Null]

TypeOK ==
  /\ session \in [Sessions -> {"NONE", "OPEN", "CLOSED", "GONE"}]
  /\ owner \in Professors \cup {Deleted}
  /\ enrolled \subseteq students /\ withFace \subseteq students
  /\ students \subseteq Students
  /\ record \in [Sessions -> [Students -> Record \cup {Null}]]
  /\ announced \subseteq Sessions \X Students
  /\ req \in [Requests -> Handler]
  /\ answer \in [Requests -> {"none", "ok", "unmatched", "refused", "conflict", "unavailable"}]
  /\ inFlight \in [Sessions -> SUBSET Requests]

Init ==
  /\ session = [s \in Sessions |-> "NONE"]
  /\ owner \in Professors
  /\ students = Students
  /\ enrolled = Students
  /\ withFace = Students
  /\ record = [s \in Sessions |-> [st \in Students |-> Null]]
  /\ announced = {}
  /\ req = [q \in Requests |-> Fresh]
  /\ answer = [q \in Requests |-> "none"]
  /\ inFlight = [s \in Sessions |-> {}]

Go(q, pc) == req' = [req EXCEPT ![q].pc = pc]
Finish(q, a) == Go(q, "done") /\ answer' = [answer EXCEPT ![q] = a]

-----------------------------------------------------------------------------
(* The first await of every handler: who asks, and in which state.         *)

\* getSessionForActor, getCourseForActor
MayAccess(actor) == owner # Deleted /\ actor \in {Admin, owner}

\* Seeded fault: the state of the session is not looked at.
AdmittedAnyState(s, actor) == session[s] \in {"OPEN", "CLOSED"} /\ MayAccess(actor)

\* The session exists, the actor may use it, and it is OPEN.
Admitted(s, actor) == session[s] = "OPEN" /\ MayAccess(actor)

\* 401/403/404/409: an unknown session, a stranger, or a session not OPEN.
Refuse(q) ==
  /\ req[q].pc = "new"
  /\ Finish(q, "refused")
  /\ UNCHANGED <<directory, data>>

\* openSession: the check and the INSERT; a course deleted in between makes the
\* INSERT fail, which is a refusal too.
OpenSession(q, s, actor) ==
  /\ req[q].pc = "new" /\ session[s] = "NONE"
  /\ MayAccess(actor)
  /\ session' = [session EXCEPT ![s] = "OPEN"]
  /\ Finish(q, "ok")
  /\ UNCHANGED <<directory, record, announced, inFlight>>

BeginClose(q, s, actor) ==
  /\ req[q].pc = "new" /\ Admitted(s, actor)
  /\ req' = [req EXCEPT ![q] = [Fresh EXCEPT !.pc = "close", !.session = s]]
  /\ UNCHANGED <<directory, data, answer>>

BeginMark(q, s, st, status, actor) ==
  /\ req[q].pc = "new" /\ Admitted(s, actor)
  /\ req' = [req EXCEPT ![q] =
       [pc |-> "upsert", session |-> s, student |-> st,
        write |-> [status |-> status, method |-> "MANUAL", similarity |-> Null]]]
  /\ UNCHANGED <<directory, data, answer>>

BeginIdentify(q, s, actor) ==
  /\ req[q].pc = "new" /\ Admitted(s, actor)
  /\ req' = [req EXCEPT ![q] = [Fresh EXCEPT !.pc = "extract", !.session = s]]
  /\ UNCHANGED <<directory, data, answer>>

-----------------------------------------------------------------------------
(* closeSession: the update is unconditional.                              *)

PastCheck(s) == {q \in Requests : req[q].session = s /\ req[q].pc # "done"}

Close(q) ==
  LET s == req[q].session IN
  /\ req[q].pc = "close"
  /\ IF session[s] = "GONE"
     THEN Finish(q, "refused") /\ UNCHANGED <<session, inFlight>>
     ELSE /\ session' = [session EXCEPT ![s] = "CLOSED"]
          /\ inFlight' = [inFlight EXCEPT ![s] = @ \cup (PastCheck(s) \ {q})]
          /\ Finish(q, "ok")
  /\ UNCHANGED <<directory, record, announced>>

-----------------------------------------------------------------------------
(* identifyAndRecord: extraction and search.                               *)

\* A face is searched for; the AI's absence is a 503; an image without a face is a
\* 422, and an embedding of another length makes the search fail.
Extract(q) ==
  /\ req[q].pc = "extract"
  /\ \E result \in Results :
       \/ result = "face" /\ Go(q, "search") /\ UNCHANGED answer
       \/ IsAiFailure(result) /\ Finish(q, "unavailable")
       \/ result # "face" /\ ~IsAiFailure(result) /\ Finish(q, "refused")
  /\ UNCHANGED <<directory, data>>

\* searchNearestInCourse(..., 1): the roster student whose face is nearest.
Candidates == enrolled \cap withFace

NoCandidate(q) ==
  /\ req[q].pc = "search" /\ Candidates = {}
  /\ Finish(q, "unmatched")
  /\ UNCHANGED <<directory, data>>

IsMatch(similarity) == ~(similarity < Threshold)

Search(q) ==
  /\ req[q].pc = "search"
  /\ \E best \in Candidates, similarity \in Similarities :
       IF IsMatch(similarity)
       THEN /\ req' = [req EXCEPT
                 ![q].pc = "upsert", ![q].student = best,
                 ![q].write = [status |-> "PRESENT", method |-> "FACE",
                               similarity |-> similarity]]
            /\ UNCHANGED answer
       ELSE Finish(q, "unmatched")
  /\ UNCHANGED <<directory, data>>

-----------------------------------------------------------------------------
(* The transaction of markAttendance and identifyAndRecord.                *)

\* The read of the upsert decides between INSERT and UPDATE.
UpsertRead(q) ==
  /\ req[q].pc = "upsert"
  /\ Go(q, IF record[req[q].session][req[q].student] = Null THEN "insert" ELSE "update")
  /\ UNCHANGED <<directory, data, answer>>

\* Seeded fault: a manual correction leaves the method.
UpdatedStatusOnly(old, write) ==
  IF write.method = "FACE" THEN write ELSE [old EXCEPT !.status = write.status]

\* A manual update writes status and method only; a recognition also writes
\* its similarity.
Updated(old, write) ==
  IF write.method = "FACE" THEN write ELSE [write EXCEPT !.similarity = old.similarity]

\* The write, the outbox row and the commit.
Store(s, st, row) ==
  /\ record' = [record EXCEPT ![s][st] = row]
  /\ announced' = announced \cup {<<s, st>>}

\* The foreign keys of an INSERT, or the row of an UPDATE, may be gone.
Dangling(q) == session[req[q].session] = "GONE" \/ req[q].student \notin students

Insert(q) ==
  LET s == req[q].session  st == req[q].student IN
  /\ req[q].pc = "insert" /\ ~Dangling(q)
  /\ IF record[s][st] = Null
     THEN Store(s, st, req[q].write) /\ Finish(q, "ok")
     ELSE Finish(q, "conflict") /\ UNCHANGED <<record, announced>>
  /\ UNCHANGED <<directory, session, inFlight>>

Update(q) ==
  LET s == req[q].session  st == req[q].student IN
  /\ req[q].pc = "update" /\ ~Dangling(q)
  /\ Store(s, st, Updated(record[s][st], req[q].write))
  /\ Finish(q, "ok")
  /\ UNCHANGED <<directory, session, inFlight>>

\* Seeded fault: the error of the write is swallowed.
WriteDanglingSwallowed(q) ==
  /\ req[q].pc \in {"insert", "update"} /\ Dangling(q)
  /\ Finish(q, "ok")
  /\ UNCHANGED <<directory, data>>

WriteDangling(q) ==
  /\ req[q].pc \in {"insert", "update"} /\ Dangling(q)
  /\ Finish(q, "refused")
  /\ UNCHANGED <<directory, data>>

-----------------------------------------------------------------------------
(* The other modules' writes that race a request.                          *)

Enroll(st) ==
  /\ owner # Deleted /\ st \in students \ enrolled
  /\ enrolled' = enrolled \cup {st}
  /\ UNCHANGED <<owner, students, withFace, data, req, answer>>

Unenroll(st) ==
  /\ st \in enrolled
  /\ enrolled' = enrolled \ {st}
  /\ UNCHANGED <<owner, students, withFace, data, req, answer>>

AddFace(st) ==
  /\ st \in students \ withFace
  /\ withFace' = withFace \cup {st}
  /\ UNCHANGED <<owner, students, enrolled, data, req, answer>>

RemoveFaces(st) ==
  /\ st \in withFace
  /\ withFace' = withFace \ {st}
  /\ UNCHANGED <<owner, students, enrolled, data, req, answer>>

Without(st) == [s \in Sessions |-> [record[s] EXCEPT ![st] = Null]]

\* ON DELETE CASCADE takes the enrolments, embeddings and records along; the
\* outbox keeps its rows.
DeleteStudent(st) ==
  /\ st \in students
  /\ students' = students \ {st}
  /\ enrolled' = enrolled \ {st}
  /\ withFace' = withFace \ {st}
  /\ record' = Without(st)
  /\ UNCHANGED <<owner, session, announced, inFlight, req, answer>>

Reassign(p) ==
  /\ owner \notin {Deleted, p}
  /\ owner' = p
  /\ UNCHANGED <<students, enrolled, withFace, data, req, answer>>

DeleteCourse ==
  /\ owner # Deleted
  /\ owner' = Deleted
  /\ enrolled' = {}
  /\ session' = [s \in Sessions |-> IF session[s] = "NONE" THEN "NONE" ELSE "GONE"]
  /\ record' = [s \in Sessions |-> [st \in Students |-> Null]]
  /\ UNCHANGED <<students, withFace, announced, inFlight, req, answer>>

-----------------------------------------------------------------------------
Actors == Professors \cup {Admin}

Begin(q) ==
  \/ Refuse(q)
  \/ \E s \in Sessions, actor \in Actors :
       \/ OpenSession(q, s, actor)
       \/ BeginClose(q, s, actor)
       \/ BeginIdentify(q, s, actor)
       \/ \E st \in Students, status \in Statuses : BeginMark(q, s, st, status, actor)

Continue(q) ==
  \/ Close(q) \/ Extract(q) \/ NoCandidate(q) \/ Search(q)
  \/ UpsertRead(q) \/ Insert(q) \/ Update(q) \/ WriteDangling(q)

Directory ==
  \/ \E st \in Students : 
       \/ Enroll(st) \/ Unenroll(st) \/ AddFace(st) \/ RemoveFaces(st)
       \/ DeleteStudent(st)
  \/ \E p \in Professors : Reassign(p)
  \/ DeleteCourse

Next == Directory \/ \E q \in Requests : Begin(q) \/ Continue(q)

Spec == Init /\ [][Next]_vars

-----------------------------------------------------------------------------
(* Properties.                                                             *)

\* A record that claims face recognition is a PRESENT whose similarity cleared
\* the threshold, whatever manual writes came before, between or after the
\* recognition's search and its upsert.
FaceRecordsClearThreshold ==
  \A s \in Sessions, st \in Students :
    record[s][st] # Null /\ record[s][st].method = "FACE" =>
      /\ record[s][st].status = "PRESENT"
      /\ record[s][st].similarity # Null
      /\ record[s][st].similarity >= Threshold

\* Two first writes of one student race for the unique key; the loser's 409, as
\* much as the winner's success, means that the student was announced, and is
\* recorded for as long as the student and the course exist.
AnsweredIsRecorded ==
  \A q \in Requests :
    req[q].write # Null /\ answer[q] \in {"ok", "conflict"} =>
      /\ <<req[q].session, req[q].student>> \in announced
      /\ Dangling(q) \/ record[req[q].session][req[q].student] # Null

\* Closing is a barrier for new requests: once a session is CLOSED, its records
\* change only by cascade or by a request that had passed its check before.
LateWritesWereInFlight ==
  [][\A s \in Sessions, st \in Students :
       /\ session[s] = "CLOSED"
       /\ record'[s][st] \notin {Null, record[s][st]}
       => \E q \in inFlight[s] : req[q].pc # "done" /\ req'[q].pc = "done"]_vars
=============================================================================
