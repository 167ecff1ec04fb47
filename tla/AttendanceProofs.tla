-------------------------- MODULE AttendanceProofs --------------------------
(***************************************************************************)
(* Invariance proofs for Attendance, for every set of requests, sessions,  *)
(* students and professors and every scale of similarities.                *)
(***************************************************************************)
EXTENDS Attendance, TLAPS

-----------------------------------------------------------------------------
(* The inductive invariant.                                                *)

Started(q) == req[q].pc \notin {"new", "done"}
Writing(q) == req[q].pc \in {"upsert", "insert", "update"}
Sound(row) ==
  row.method = "FACE" =>
    /\ row.status = "PRESENT"
    /\ row.similarity # Null
    /\ row.similarity >= Threshold

\* A handler past its check has a session; one that writes has a row to write, and
\* a recognised row has cleared the threshold.  Nothing is answered before the end.
HandlerInv ==
  \A q \in Requests :
    /\ Started(q) => req[q].session \in Sessions /\ session[req[q].session] # "NONE"
    /\ Writing(q) => req[q].write # Null
    /\ req[q].pc \in {"new", "close", "extract", "search"} => req[q].write = Null
    /\ req[q].write # Null =>
         /\ req[q].session \in Sessions /\ req[q].student \in Students
         /\ session[req[q].session] # "NONE" /\ Sound(req[q].write)
    /\ answer[q] # "none" => req[q].pc = "done"

\* The row of an update is there as long as its session and student are.
UpdateInv ==
  \A q \in Requests :
    req[q].pc = "update" /\ ~Dangling(q) => record[req[q].session][req[q].student] # Null

\* A record has been announced.
AnnouncedInv ==
  \A s \in Sessions, st \in Students : record[s][st] # Null => <<s, st>> \in announced

\* A closed session knows every handler that may still write to it.
ClosedInv ==
  \A s \in Sessions, q \in Requests :
    session[s] = "CLOSED" /\ Started(q) /\ req[q].session = s => q \in inFlight[s]

IInv ==
  /\ TypeOK
  /\ HandlerInv
  /\ UpdateInv
  /\ ClosedInv
  /\ FaceRecordsClearThreshold
  /\ AnnouncedInv
  /\ AnsweredIsRecorded

-----------------------------------------------------------------------------
(* What the steps of a handler do to it.                                   *)

Answers == {"none", "ok", "unmatched", "refused", "conflict", "unavailable"}

\* Handler q goes to pc and answers a; everything else of the handlers stays.
Moved(q, pc, a) ==
  /\ req' \in [Requests -> Handler]
  /\ answer' \in [Requests -> Answers]
  /\ \A r \in Requests \ {q} : req'[r] = req[r] /\ answer'[r] = answer[r]
  /\ req'[q].pc = pc /\ answer'[q] = a
  /\ req'[q].session = req[q].session
  /\ req'[q].student = req[q].student
  /\ req'[q].write = req[q].write

Pcs == {"new", "close", "extract", "search", "upsert", "insert", "update", "done"}

LEMMA GoMoves ==
  ASSUME TypeOK, NEW q \in Requests, NEW pc \in Pcs, Go(q, pc), UNCHANGED answer
  PROVE  Moved(q, pc, answer[q])
BY ZenonT(20) DEF TypeOK, Go, Moved, Pcs, Answers, Handler

LEMMA FinishMoves ==
  ASSUME TypeOK, NEW q \in Requests, NEW a \in Answers, Finish(q, a)
  PROVE  Moved(q, "done", a)
BY ZenonT(20) DEF TypeOK, Go, Finish, Moved, Answers, Handler

LEMMA AnsweredStays ==
  ASSUME IInv, NEW q \in Requests, NEW pc, NEW a, Moved(q, pc, a), UNCHANGED <<students, record, announced>>,
         \A s \in Sessions : session[s] = "GONE" => session'[s] = "GONE",
         a \notin {"ok", "conflict"} \/ req[q].write = Null
  PROVE  AnsweredIsRecorded'
BY DEF IInv, Moved, HandlerInv, AnsweredIsRecorded, Dangling

LEMMA RecordsStay ==
  ASSUME IInv, UNCHANGED <<record, announced>>
  PROVE  FaceRecordsClearThreshold' /\ AnnouncedInv'
BY DEF IInv, FaceRecordsClearThreshold, AnnouncedInv

\* A change of the roster, the faces or the owner is one of types only.
LEMMA DirectorySteps ==
  ASSUME IInv, TypeOK', UNCHANGED <<students, data, req, answer>>
  PROVE  IInv'
<1> USE DEF IInv, data
<1>1. HandlerInv'
  BY DEF HandlerInv, Started, Writing
<1>2. UpdateInv' /\ ClosedInv'
  BY DEF UpdateInv, Dangling, ClosedInv, Started
<1>3. FaceRecordsClearThreshold' /\ AnnouncedInv'
  BY RecordsStay
<1>4. AnsweredIsRecorded'
  BY DEF AnsweredIsRecorded, Dangling
<1> QED
  BY <1>1, <1>2, <1>3, <1>4

-----------------------------------------------------------------------------
(* One lemma per action, one step per conjunct of the invariant.           *)

\* What a write does: q ends, and one record has a sound row that is announced.
LEMMA StoreSteps ==
  ASSUME IInv, NEW q \in Requests, req[q].pc \in {"insert", "update"},
         NEW row \in Record, Sound(row),
         Store(req[q].session, req[q].student, row), Moved(q, "done", "ok"),
         UNCHANGED <<directory, session, inFlight>>
  PROVE  IInv'
<1> USE AttendanceAssumption DEF IInv, directory
<1>1. req[q].session \in Sessions /\ req[q].student \in Students
  BY DEF HandlerInv, Writing
<1>2. /\ record' \in [Sessions -> [Students -> Record \cup {Null}]]
      /\ record'[req[q].session][req[q].student] = row
      /\ \A s \in Sessions, st \in Students :
           s # req[q].session \/ st # req[q].student => record'[s][st] = record[s][st]
  BY <1>1 DEF Store, TypeOK
<1>3. row # Null
  OBVIOUS
<1>4. /\ announced' \subseteq Sessions \X Students /\ announced \subseteq announced'
      /\ <<req[q].session, req[q].student>> \in announced'
  BY <1>1 DEF Store, TypeOK
<1>5. TypeOK'
  BY <1>2, <1>4 DEF Moved, Answers, TypeOK
<1>6. HandlerInv'
  BY DEF Moved, HandlerInv, Started, Writing
<1>7. ClosedInv'
  BY DEF Moved, ClosedInv, Started
<1>8. FaceRecordsClearThreshold'
  BY <1>2 DEF FaceRecordsClearThreshold, Sound
<1>9. AnnouncedInv'
  BY <1>2, <1>3, <1>4 DEF AnnouncedInv
<1>10. AnsweredIsRecorded'
  <2> SUFFICES ASSUME NEW r \in Requests, (req[r].write # Null)', answer'[r] \in {"ok", "conflict"}
               PROVE  /\ <<req'[r].session, req'[r].student>> \in announced'
                      /\ \/ Dangling(r)'
                         \/ record'[req'[r].session][req'[r].student] # Null
    BY DEF AnsweredIsRecorded
  <2>1. req'[r].write = req[r].write /\ req'[r].session = req[r].session
        /\ req'[r].student = req[r].student
    BY DEF Moved
  <2>2. req[r].session \in Sessions /\ req[r].student \in Students
    BY <2>1 DEF HandlerInv
  <2>3. CASE req[r].session = req[q].session /\ req[r].student = req[q].student
    BY <1>2, <1>3, <1>4, <2>1, <2>3
  <2>4. CASE req[r].session # req[q].session \/ req[r].student # req[q].student
    BY <1>2, <1>4, <2>2, <2>4 DEF Moved, AnsweredIsRecorded, Dangling
  <2> QED
    BY <2>3, <2>4
<1>11. UpdateInv'
  <2> SUFFICES ASSUME NEW r \in Requests, req'[r].pc = "update", ~Dangling(r)'
               PROVE  record'[req'[r].session][req'[r].student] # Null
    BY DEF UpdateInv
  <2>1. r # q /\ req'[r] = req[r]
    BY DEF Moved
  <2>2. req[r].session \in Sessions /\ req[r].student \in Students
    BY <2>1 DEF HandlerInv, Writing
  <2>3. record[req[r].session][req[r].student] # Null
    BY <2>1 DEF UpdateInv, Dangling
  <2> QED
    BY <1>2, <2>1, <2>2, <2>3
<1> QED
  BY <1>5, <1>6, <1>7, <1>8, <1>9, <1>10, <1>11

LEMMA RefuseStep ==
  ASSUME IInv, NEW q \in Requests, Refuse(q)
  PROVE  IInv'
<1> USE AttendanceAssumption DEF IInv, directory, data
<1>1. Moved(q, "done", "refused")
  BY FinishMoves DEF Refuse, Answers
<1>2. TypeOK'
  BY <1>1 DEF Refuse, Moved, TypeOK
<1>3. HandlerInv'
  BY <1>1 DEF Refuse, Moved, HandlerInv, Started, Writing
<1>4. UpdateInv'
  BY <1>1 DEF Refuse, Moved, UpdateInv, Dangling
<1>5. ClosedInv'
  BY <1>1 DEF Refuse, Moved, ClosedInv, Started
<1>6. FaceRecordsClearThreshold' /\ AnnouncedInv'
  BY RecordsStay DEF Refuse
<1>7. AnsweredIsRecorded'
  BY <1>1, AnsweredStays DEF Refuse
<1> QED
  BY <1>2, <1>3, <1>4, <1>5, <1>6, <1>7

LEMMA OpenSessionStep ==
  ASSUME IInv, NEW q \in Requests, NEW s \in Sessions, NEW actor,
         OpenSession(q, s, actor)
  PROVE  IInv'
<1> USE AttendanceAssumption DEF IInv, directory, data
<1>1. Moved(q, "done", "ok")
  BY FinishMoves DEF OpenSession, Answers
<1>2. TypeOK'
  BY <1>1 DEF OpenSession, Moved, TypeOK
<1>3. HandlerInv'
  BY <1>1 DEF OpenSession, Moved, HandlerInv, Started, Writing
<1>4. UpdateInv'
  BY <1>1 DEF OpenSession, Moved, UpdateInv, Dangling
<1>5. ClosedInv'
  BY <1>1 DEF OpenSession, Moved, ClosedInv, Started
<1>6. FaceRecordsClearThreshold' /\ AnnouncedInv'
  BY RecordsStay DEF OpenSession
<1>7. AnsweredIsRecorded'
  BY <1>1, AnsweredStays DEF OpenSession, HandlerInv, TypeOK
<1> QED
  BY <1>2, <1>3, <1>4, <1>5, <1>6, <1>7

LEMMA BeginCloseStep ==
  ASSUME IInv, NEW q \in Requests, NEW s \in Sessions, NEW actor,
         BeginClose(q, s, actor)
  PROVE  IInv'
<1> USE AttendanceAssumption DEF IInv, directory, data
<1>1. TypeOK'
  BY DEF BeginClose, Fresh, Handler, TypeOK
<1>2. HandlerInv'
  BY DEF BeginClose, Admitted, Fresh, HandlerInv, Started, Writing
<1>3. UpdateInv'
  BY DEF BeginClose, UpdateInv, Dangling
<1>4. ClosedInv'
  BY DEF BeginClose, Admitted, ClosedInv, Started
<1>5. FaceRecordsClearThreshold' /\ AnnouncedInv'
  BY RecordsStay DEF BeginClose
<1>6. AnsweredIsRecorded'
  BY DEF BeginClose, HandlerInv, AnsweredIsRecorded, Dangling
<1> QED
  BY <1>1, <1>2, <1>3, <1>4, <1>5, <1>6

LEMMA BeginMarkStep ==
  ASSUME IInv, NEW q \in Requests, NEW s \in Sessions, NEW st \in Students,
         NEW status \in Statuses, NEW actor, BeginMark(q, s, st, status, actor)
  PROVE  IInv'
<1> USE AttendanceAssumption DEF IInv, directory, data
<1>1. TypeOK'
  BY DEF BeginMark, Handler, Record, TypeOK
<1>2. HandlerInv'
  BY DEF BeginMark, Admitted, Record, HandlerInv, Started, Writing, Sound
<1>3. UpdateInv'
  BY DEF BeginMark, UpdateInv, Dangling
<1>4. ClosedInv'
  BY DEF BeginMark, Admitted, ClosedInv, Started
<1>5. FaceRecordsClearThreshold' /\ AnnouncedInv'
  BY RecordsStay DEF BeginMark
<1>6. AnsweredIsRecorded'
  BY DEF BeginMark, HandlerInv, AnsweredIsRecorded, Dangling
<1> QED
  BY <1>1, <1>2, <1>3, <1>4, <1>5, <1>6

LEMMA BeginIdentifyStep ==
  ASSUME IInv, NEW q \in Requests, NEW s \in Sessions, NEW actor,
         BeginIdentify(q, s, actor)
  PROVE  IInv'
<1> USE AttendanceAssumption DEF IInv, directory, data
<1>1. TypeOK'
  BY DEF BeginIdentify, Fresh, Handler, TypeOK
<1>2. HandlerInv'
  BY DEF BeginIdentify, Admitted, Fresh, HandlerInv, Started, Writing
<1>3. UpdateInv'
  BY DEF BeginIdentify, UpdateInv, Dangling
<1>4. ClosedInv'
  BY DEF BeginIdentify, Admitted, ClosedInv, Started
<1>5. FaceRecordsClearThreshold' /\ AnnouncedInv'
  BY RecordsStay DEF BeginIdentify
<1>6. AnsweredIsRecorded'
  BY DEF BeginIdentify, HandlerInv, AnsweredIsRecorded, Dangling
<1> QED
  BY <1>1, <1>2, <1>3, <1>4, <1>5, <1>6

LEMMA CloseStep ==
  ASSUME IInv, NEW q \in Requests, Close(q)
  PROVE  IInv'
<1> USE AttendanceAssumption DEF IInv, directory
<1>1. /\ Moved(q, "done", "refused") \/ Moved(q, "done", "ok")
      /\ req[q].pc = "close" /\ req[q].write = Null /\ req[q].session \in Sessions
      /\ UNCHANGED <<directory, record, announced>>
  BY FinishMoves DEF Close, Answers, HandlerInv, Started
<1>2. /\ session' \in [Sessions -> {"NONE", "OPEN", "CLOSED", "GONE"}]
      /\ \A s \in Sessions :
           /\ session[s] # "NONE" => session'[s] # "NONE"
           /\ session'[s] = "GONE" <=> session[s] = "GONE"
           /\ s # req[q].session => session'[s] = session[s]
  BY DEF Close, TypeOK
<1>3. inFlight' \in [Sessions -> SUBSET Requests]
  <2>1. PastCheck(req[q].session) \subseteq Requests
    BY DEF PastCheck
  <2> QED
    BY <2>1 DEF Close, TypeOK
<1>4. TypeOK'
  BY SMTT(20), <1>1, <1>2, <1>3 DEF Moved, TypeOK
<1>5. HandlerInv'
  BY <1>1, <1>2 DEF Moved, HandlerInv, Started, Writing
<1>6. UpdateInv'
  BY <1>1, <1>2 DEF Moved, HandlerInv, Started, UpdateInv, Dangling
<1>7. ClosedInv'
  <2> SUFFICES ASSUME NEW s \in Sessions, NEW r \in Requests,
                      session'[s] = "CLOSED", Started(r)', req'[r].session = s
               PROVE  r \in inFlight'[s]
    BY DEF ClosedInv
  <2>1. r # q /\ req'[r] = req[r] /\ Started(r)
    BY <1>1 DEF Moved, Started
  <2>2. CASE session[req[q].session] = "GONE"
    BY <2>1, <2>2 DEF Close, ClosedInv
  <2>3. CASE session[req[q].session] # "GONE"
    BY <2>1 DEF Close, PastCheck, Started, ClosedInv, TypeOK
  <2> QED
    BY <2>2, <2>3
<1>8. FaceRecordsClearThreshold' /\ AnnouncedInv'
  BY <1>1 DEF FaceRecordsClearThreshold, AnnouncedInv
<1>9. AnsweredIsRecorded'
  BY <1>1, <1>2, AnsweredStays
<1> QED
  BY <1>4, <1>5, <1>6, <1>7, <1>8, <1>9

LEMMA ExtractStep ==
  ASSUME IInv, NEW q \in Requests, Extract(q)
  PROVE  IInv'
<1> USE AttendanceAssumption DEF IInv, directory, data
<1>1. \/ Moved(q, "search", answer[q]) /\ answer[q] = "none"
      \/ Moved(q, "done", "refused")
      \/ Moved(q, "done", "unavailable")
  BY FinishMoves, GoMoves DEF Extract, Answers, Pcs, HandlerInv
<1>2. TypeOK'
  BY <1>1 DEF Extract, Moved, TypeOK
<1>3. HandlerInv'
  BY <1>1 DEF Extract, Moved, HandlerInv, Started, Writing
<1>4. UpdateInv'
  BY <1>1 DEF Extract, Moved, UpdateInv, Dangling
<1>5. ClosedInv'
  BY <1>1 DEF Extract, Moved, ClosedInv, Started
<1>6. FaceRecordsClearThreshold' /\ AnnouncedInv'
  BY RecordsStay DEF Extract
<1>7. AnsweredIsRecorded'
  BY <1>1, AnsweredStays DEF Extract
<1> QED
  BY <1>2, <1>3, <1>4, <1>5, <1>6, <1>7

LEMMA NoCandidateStep ==
  ASSUME IInv, NEW q \in Requests, NoCandidate(q)
  PROVE  IInv'
<1> USE AttendanceAssumption DEF IInv, directory, data
<1>1. Moved(q, "done", "unmatched")
  BY FinishMoves DEF NoCandidate, Answers
<1>2. TypeOK'
  BY <1>1 DEF NoCandidate, Moved, TypeOK
<1>3. HandlerInv'
  BY <1>1 DEF NoCandidate, Moved, HandlerInv, Started, Writing
<1>4. UpdateInv'
  BY <1>1 DEF NoCandidate, Moved, UpdateInv, Dangling
<1>5. ClosedInv'
  BY <1>1 DEF NoCandidate, Moved, ClosedInv, Started
<1>6. FaceRecordsClearThreshold' /\ AnnouncedInv'
  BY RecordsStay DEF NoCandidate
<1>7. AnsweredIsRecorded'
  BY <1>1, AnsweredStays DEF NoCandidate
<1> QED
  BY <1>2, <1>3, <1>4, <1>5, <1>6, <1>7

LEMMA SearchStep ==
  ASSUME IInv, NEW q \in Requests, Search(q)
  PROVE  IInv'
<1> USE AttendanceAssumption DEF IInv, directory, data
<1>1. CASE Finish(q, "unmatched") /\ UNCHANGED <<directory, data>> /\ req[q].pc = "search"
  <2>1. Moved(q, "done", "unmatched")
    BY <1>1, FinishMoves DEF Answers
  <2>2. TypeOK'
    BY <1>1, <2>1 DEF Moved, TypeOK
  <2>3. HandlerInv'
    BY <1>1, <2>1 DEF Moved, HandlerInv, Started, Writing
  <2>4. ClosedInv'
    BY <1>1, <2>1 DEF Moved, ClosedInv, Started
  <2>5. FaceRecordsClearThreshold' /\ AnnouncedInv'
    BY <1>1 DEF FaceRecordsClearThreshold, AnnouncedInv
  <2>6. AnsweredIsRecorded'
    BY <1>1, <2>1, AnsweredStays
  <2>7. UpdateInv'
    BY <1>1, <2>1 DEF Moved, UpdateInv, Dangling
  <2> QED
    BY <2>2, <2>3, <2>4, <2>5, <2>6, <2>7
<1>2. ASSUME NEW best \in Candidates, NEW similarity \in Similarities, IsMatch(similarity),
             req[q].pc = "search",
             req' = [req EXCEPT
               ![q].pc = "upsert", ![q].student = best,
               ![q].write = [status |-> "PRESENT", method |-> "FACE",
                             similarity |-> similarity]],
             UNCHANGED answer, UNCHANGED <<directory, data>>
      PROVE  IInv'
  <2> DEFINE row == [status |-> "PRESENT", method |-> "FACE", similarity |-> similarity]
  <2>1. row \in Record /\ row # Null /\ Sound(row)
    BY <1>2 DEF Record, Statuses, IsMatch, Sound
  <2>2. best \in Students
    BY DEF Candidates, TypeOK
  <2>3. /\ req' \in [Requests -> Handler]
        /\ \A r \in Requests \ {q} : req'[r] = req[r]
        /\ req'[q].pc = "upsert" /\ req'[q].session = req[q].session
        /\ req'[q].student = best /\ req'[q].write = row
    <3> HIDE DEF row
    <3>1. req' = [req EXCEPT ![q].pc = "upsert", ![q].student = best, ![q].write = row]
      BY <1>2 DEF row
    <3>2. req'[q] = [pc |-> "upsert", session |-> req[q].session, student |-> best,
                     write |-> row]
      <4>1. req[q] \in Handler /\ DOMAIN req = Requests
        BY DEF TypeOK
      <4>2. req'[q] = [req[q] EXCEPT !.pc = "upsert", !.student = best, !.write = row]
        BY <3>1, <4>1
      <4> QED
        BY <4>1, <4>2 DEF Handler
    <3>3. req'[q] \in Handler
      BY <2>1, <2>2, <3>2 DEF TypeOK, Handler
    <3> QED
      BY <3>1, <3>3 DEF TypeOK
  <2> HIDE DEF row
  <2>4. TypeOK'
    BY <1>2, <2>3 DEF TypeOK
  <2>5. HandlerInv'
    BY <1>2, <2>1, <2>2, <2>3 DEF HandlerInv, Started, Writing
  <2>6. ClosedInv'
    BY <1>2, <2>3 DEF ClosedInv, Started
  <2>7. FaceRecordsClearThreshold' /\ AnnouncedInv'
    BY <1>2 DEF FaceRecordsClearThreshold, AnnouncedInv
  <2>8. AnsweredIsRecorded'
    BY <1>2, <2>3 DEF HandlerInv, AnsweredIsRecorded, Dangling
  <2>9. UpdateInv'
    BY <1>2, <2>3 DEF UpdateInv, Dangling
  <2> QED
    BY <2>4, <2>5, <2>6, <2>7, <2>8, <2>9
<1> QED
  BY <1>1, <1>2 DEF Search

LEMMA UpsertReadStep ==
  ASSUME IInv, NEW q \in Requests, UpsertRead(q)
  PROVE  IInv'
<1> USE AttendanceAssumption DEF IInv, directory, data
<1>1. /\ \/ Moved(q, "insert", answer[q])
         \/ /\ Moved(q, "update", answer[q])
            /\ record[req[q].session][req[q].student] # Null
      /\ answer[q] = "none"
  BY GoMoves DEF UpsertRead, Pcs, HandlerInv
<1>2. TypeOK'
  BY <1>1 DEF UpsertRead, Moved, TypeOK
<1>3. HandlerInv'
  BY <1>1 DEF UpsertRead, Moved, Answers, HandlerInv, Started, Writing
<1>4. UpdateInv'
  BY SMTT(20), <1>1 DEF UpsertRead, Moved, UpdateInv, Dangling
<1>5. ClosedInv'
  BY SMTT(20), <1>1 DEF UpsertRead, Moved, ClosedInv, Started
<1>6. FaceRecordsClearThreshold' /\ AnnouncedInv'
  BY RecordsStay DEF UpsertRead
<1>7. AnsweredIsRecorded'
  BY <1>1, AnsweredStays DEF UpsertRead
<1> QED
  BY <1>2, <1>3, <1>4, <1>5, <1>6, <1>7

LEMMA InsertStep ==
  ASSUME IInv, NEW q \in Requests, Insert(q)
  PROVE  IInv'
<1> USE AttendanceAssumption DEF IInv
<1>1. /\ req[q].write \in Record /\ Sound(req[q].write)
      /\ req[q].session \in Sessions /\ req[q].student \in Students
  BY DEF Insert, HandlerInv, Writing, TypeOK, Handler
<1>2. CASE record[req[q].session][req[q].student] = Null
  <2>1. Moved(q, "done", "ok")
    BY <1>2, FinishMoves DEF Insert, Answers
  <2> QED
    BY <1>1, <1>2, <2>1, StoreSteps DEF Insert
<1>3. CASE record[req[q].session][req[q].student] # Null
  <2>1. Moved(q, "done", "conflict")
    BY <1>3, FinishMoves DEF Insert, Answers
  <2>2. req[q].pc = "insert" /\ UNCHANGED <<directory, data>>
    BY <1>3 DEF Insert, data
  <2> USE DEF directory, data
  <2>3. TypeOK'
    BY <2>1, <2>2 DEF Moved, TypeOK
  <2>4. HandlerInv'
    BY <2>1, <2>2 DEF Moved, HandlerInv, Started, Writing
  <2>5. ClosedInv'
    BY <2>1, <2>2 DEF Moved, ClosedInv, Started
  <2>6. FaceRecordsClearThreshold' /\ AnnouncedInv'
    BY <2>2 DEF FaceRecordsClearThreshold, AnnouncedInv
  <2>7. <<req[q].session, req[q].student>> \in announced
    BY <1>1, <1>3 DEF AnnouncedInv
  <2>8. AnsweredIsRecorded'
    BY <1>3, <2>1, <2>2, <2>7 DEF Moved, AnsweredIsRecorded, Dangling
  <2>9. UpdateInv'
    BY <2>1, <2>2 DEF Moved, UpdateInv, Dangling
  <2> QED
    BY <2>3, <2>4, <2>5, <2>6, <2>8, <2>9
<1> QED
  BY <1>2, <1>3

LEMMA UpdateStep ==
  ASSUME IInv, NEW q \in Requests, Update(q)
  PROVE  IInv'
<1> USE AttendanceAssumption DEF IInv
<1>1. /\ req[q].pc = "update"
      /\ req[q].write \in Record /\ Sound(req[q].write)
  BY DEF Update, HandlerInv, Writing, TypeOK, Handler
<1> DEFINE row == Updated(record[req[q].session][req[q].student], req[q].write)
<1>2. Moved(q, "done", "ok")
  BY FinishMoves DEF Update, Answers
<1>3. row \in Record /\ Sound(row)
  <2>1. record[req[q].session][req[q].student] \in Record
    BY <1>1 DEF Update, UpdateInv, HandlerInv, TypeOK
  <2> QED
    BY <1>1, <2>1 DEF Updated, Record, Sound
<1>4. Store(req[q].session, req[q].student, row) /\ UNCHANGED <<directory, session, inFlight>>
  BY DEF Update
<1> QED
  BY <1>1, <1>2, <1>3, <1>4, StoreSteps

LEMMA WriteDanglingStep ==
  ASSUME IInv, NEW q \in Requests, WriteDangling(q)
  PROVE  IInv'
<1> USE AttendanceAssumption DEF IInv, directory, data
<1>1. Moved(q, "done", "refused")
  BY FinishMoves DEF WriteDangling, Answers
<1>2. TypeOK'
  BY <1>1 DEF WriteDangling, Moved, Answers, TypeOK
<1>3. HandlerInv'
  BY <1>1 DEF WriteDangling, Moved, HandlerInv, Started, Writing
<1>4. UpdateInv'
  BY <1>1 DEF WriteDangling, Moved, UpdateInv, Dangling
<1>5. ClosedInv'
  BY <1>1 DEF WriteDangling, Moved, ClosedInv, Started
<1>6. FaceRecordsClearThreshold' /\ AnnouncedInv'
  BY RecordsStay DEF WriteDangling
<1>7. AnsweredIsRecorded'
  BY <1>1, AnsweredStays DEF WriteDangling
<1> QED
  BY <1>2, <1>3, <1>4, <1>5, <1>6, <1>7

LEMMA EnrollStep ==
  ASSUME IInv, NEW st \in Students, Enroll(st)
  PROVE  IInv'
<1>1. TypeOK'
  BY DEF IInv, TypeOK, Enroll, data
<1> QED
  BY <1>1, DirectorySteps DEF Enroll

LEMMA UnenrollStep ==
  ASSUME IInv, NEW st \in Students, Unenroll(st)
  PROVE  IInv'
<1>1. TypeOK'
  BY DEF IInv, TypeOK, Unenroll, data
<1> QED
  BY <1>1, DirectorySteps DEF Unenroll

LEMMA AddFaceStep ==
  ASSUME IInv, NEW st \in Students, AddFace(st)
  PROVE  IInv'
<1>1. TypeOK'
  BY DEF IInv, TypeOK, AddFace, data
<1> QED
  BY <1>1, DirectorySteps DEF AddFace

LEMMA RemoveFacesStep ==
  ASSUME IInv, NEW st \in Students, RemoveFaces(st)
  PROVE  IInv'
<1>1. TypeOK'
  BY DEF IInv, TypeOK, RemoveFaces, data
<1> QED
  BY <1>1, DirectorySteps DEF RemoveFaces

LEMMA DeleteStudentStep ==
  ASSUME IInv, NEW st \in Students, DeleteStudent(st)
  PROVE  IInv'
<1> USE AttendanceAssumption DEF IInv, directory, data
<1>1. TypeOK'
  BY DEF DeleteStudent, Without, TypeOK
<1>2. HandlerInv'
  BY DEF DeleteStudent, HandlerInv, Started, Writing
<1>3. UpdateInv'
  BY DEF DeleteStudent, Without, HandlerInv, UpdateInv, Dangling, Writing
<1>4. ClosedInv'
  BY DEF DeleteStudent, ClosedInv, Started
<1>5. FaceRecordsClearThreshold'
  BY DEF DeleteStudent, Without, FaceRecordsClearThreshold
<1>6. AnnouncedInv'
  BY DEF DeleteStudent, Without, AnnouncedInv
<1>7. AnsweredIsRecorded'
  BY DEF DeleteStudent, Without, HandlerInv, AnsweredIsRecorded, Dangling
<1> QED
  BY <1>1, <1>2, <1>3, <1>4, <1>5, <1>6, <1>7

LEMMA ReassignStep ==
  ASSUME IInv, NEW p \in Professors, Reassign(p)
  PROVE  IInv'
<1>1. TypeOK'
  BY DEF IInv, TypeOK, Reassign, data
<1> QED
  BY <1>1, DirectorySteps DEF Reassign

LEMMA DeleteCourseStep ==
  ASSUME IInv, DeleteCourse
  PROVE  IInv'
<1> USE AttendanceAssumption DEF IInv, directory, data
<1>1. TypeOK'
  BY DEF DeleteCourse, TypeOK
<1>2. HandlerInv'
  BY DEF DeleteCourse, HandlerInv, Started, Writing
<1>3. UpdateInv'
  BY DEF DeleteCourse, HandlerInv, UpdateInv, Dangling, Started
<1>4. ClosedInv'
  BY DEF DeleteCourse, ClosedInv
<1>5. FaceRecordsClearThreshold'
  BY DEF DeleteCourse, FaceRecordsClearThreshold
<1>6. AnnouncedInv'
  BY DEF DeleteCourse, AnnouncedInv
<1>7. AnsweredIsRecorded'
  BY DEF DeleteCourse, HandlerInv, AnsweredIsRecorded, Dangling
<1> QED
  BY <1>1, <1>2, <1>3, <1>4, <1>5, <1>6, <1>7

-----------------------------------------------------------------------------
(* The theorems.                                                           *)

LEMMA InitStep ==
  ASSUME Init
  PROVE  IInv
<1> USE AttendanceAssumption DEF Init, Fresh, Handler, Record, Statuses
<1>1. TypeOK
  BY DEF TypeOK
<1>2. HandlerInv
  BY DEF HandlerInv, Started, Writing
<1>3. ClosedInv
  BY DEF ClosedInv
<1>4. UpdateInv
  BY DEF UpdateInv
<1>5. FaceRecordsClearThreshold /\ AnnouncedInv /\ AnsweredIsRecorded
  BY DEF FaceRecordsClearThreshold, AnnouncedInv, AnsweredIsRecorded
<1> QED
  BY <1>1, <1>2, <1>3, <1>4, <1>5 DEF IInv

LEMMA StutterStep ==
  ASSUME IInv, UNCHANGED vars
  PROVE  IInv'
BY ZenonT(20) DEF IInv, vars, directory, data, TypeOK, HandlerInv, Started, Writing, UpdateInv,
       Dangling, ClosedInv, FaceRecordsClearThreshold, AnnouncedInv,
       AnsweredIsRecorded

LEMMA NextStep ==
  ASSUME IInv, [Next]_vars
  PROVE  IInv'
<1>1. ASSUME NEW q \in Requests, Begin(q)
      PROVE  IInv'
  BY <1>1, RefuseStep, OpenSessionStep, BeginCloseStep, BeginIdentifyStep,
     BeginMarkStep
     DEF Begin
<1>2. ASSUME NEW q \in Requests, Continue(q)
      PROVE  IInv'
  BY <1>2, CloseStep, ExtractStep, NoCandidateStep, SearchStep, UpsertReadStep,
     InsertStep, UpdateStep, WriteDanglingStep
     DEF Continue
<1>3. CASE Directory
  BY <1>3, EnrollStep, UnenrollStep, AddFaceStep, RemoveFacesStep, DeleteStudentStep,
     ReassignStep, DeleteCourseStep
     DEF Directory
<1> QED
  BY <1>1, <1>2, <1>3, StutterStep DEF Next

\* The inductive invariant holds of every behaviour.
THEOREM Invariance == Spec => []IInv
BY InitStep, NextStep, PTL DEF Spec

\* Every variable of the attendance module keeps its type (attendance.service.ts).
THEOREM TypeCorrect == Spec => []TypeOK
<1>1. IInv => TypeOK
  BY DEF IInv
<1> QED
  BY <1>1, Invariance, PTL

\* A record that claims face recognition is a PRESENT above the threshold, whatever
\* manual writes raced it (attendance.service.ts:107-120, :197-219).
THEOREM FaceRecordsSound == Spec => []FaceRecordsClearThreshold
<1>1. IInv => FaceRecordsClearThreshold
  BY DEF IInv
<1> QED
  BY <1>1, Invariance, PTL

\* Whoever was told of a success, or of a conflict with another write, finds the
\* student announced, and recorded unless the student or the course is gone
\* (attendance.service.ts:107-142).
THEOREM AnswersAreTrue == Spec => []AnsweredIsRecorded
<1>1. IInv => AnsweredIsRecorded
  BY DEF IInv
<1> QED
  BY <1>1, Invariance, PTL

-----------------------------------------------------------------------------
(* Closing is a barrier.                                                   *)

\* A request changes only the records of its session, and ends doing so.
LEMMA WriterEnds ==
  ASSUME IInv, NEW q \in Requests, Insert(q) \/ Update(q),
         NEW s \in Sessions, NEW st \in Students,
         session[s] = "CLOSED", record'[s][st] # record[s][st]
  PROVE  \E r \in inFlight[s] : req[r].pc # "done" /\ req'[r].pc = "done"
<1> USE DEF IInv, TypeOK, Handler
<1>1. req[q].session = s
  BY DEF Insert, Update, Store
<1>2. q \in inFlight[s]
  BY <1>1 DEF Insert, Update, ClosedInv, Started
<1>3. req[q].pc # "done" /\ req'[q].pc = "done"
  BY DEF Insert, Update, Finish, Go
<1> QED
  BY <1>2, <1>3

LEMMA LateWrite ==
  ASSUME IInv, [Next]_vars, NEW s \in Sessions, NEW st \in Students,
         session[s] = "CLOSED", record'[s][st] \notin {Null, record[s][st]}
  PROVE  \E q \in inFlight[s] : req[q].pc # "done" /\ req'[q].pc = "done"
<1>1. record' # record
  OBVIOUS
<1>2. CASE \E q \in Requests : Insert(q) \/ Update(q)
  BY <1>2, WriterEnds
<1>3. CASE \E t \in Students : DeleteStudent(t)
  BY <1>3 DEF DeleteStudent, Without
<1>4. CASE DeleteCourse
  BY <1>4 DEF DeleteCourse
<1>5. ~UNCHANGED vars
  BY <1>1 DEF vars, data
<1>6. ~\E q \in Requests : Begin(q)
  <2> SUFFICES ASSUME NEW q \in Requests PROVE ~Begin(q)
    OBVIOUS
  <2>1. ~Refuse(q)
    BY <1>1 DEF Refuse, data
  <2>2. \A t \in Sessions, actor \in Actors :
          /\ ~OpenSession(q, t, actor)
          /\ ~BeginClose(q, t, actor)
          /\ ~BeginIdentify(q, t, actor)
    BY <1>1 DEF OpenSession, BeginClose, BeginIdentify, data
  <2>3. \A t \in Sessions, actor \in Actors, u \in Students, status \in Statuses :
          ~BeginMark(q, t, u, status, actor)
    BY <1>1 DEF BeginMark, data
  <2> QED
    BY <2>1, <2>2, <2>3 DEF Begin
<1>7. ASSUME NEW q \in Requests, Continue(q)
      PROVE  Insert(q) \/ Update(q)
  <2>1. ~Close(q) /\ ~Extract(q)
    BY <1>1 DEF Close, Extract, data
  <2>2. ~NoCandidate(q) /\ ~Search(q)
    BY <1>1 DEF NoCandidate, Search, data
  <2>3. ~UpsertRead(q) /\ ~WriteDangling(q)
    BY <1>1 DEF UpsertRead, WriteDangling, data
  <2> QED
    BY <1>7, <2>1, <2>2, <2>3 DEF Continue
<1>8. Directory => (\E t \in Students : DeleteStudent(t)) \/ DeleteCourse
  BY <1>1 DEF Directory, Enroll, Unenroll, AddFace, RemoveFaces, Reassign, data
<1> QED
  BY <1>2, <1>3, <1>4, <1>5, <1>6, <1>7, <1>8 DEF Next

\* Once a session is CLOSED, its records change only by cascade or by a request that
\* had passed its check before (attendance.service.ts:82-106, :170-178).
THEOREM ClosingIsABarrier == Spec => LateWritesWereInFlight
<1>1. IInv /\ [Next]_vars =>
        [\A s \in Sessions, st \in Students :
           /\ session[s] = "CLOSED"
           /\ record'[s][st] \notin {Null, record[s][st]}
           => \E q \in inFlight[s] : req[q].pc # "done" /\ req'[q].pc = "done"]_vars
  BY LateWrite
<1> QED
  BY <1>1, Invariance, PTL DEF Spec, LateWritesWereInFlight
=============================================================================
