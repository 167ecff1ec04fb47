------------------------------- MODULE Roster -------------------------------
(***************************************************************************)
(* The roster of one course: the page with its add form                    *)
(* (components/RosterAddForm.tsx, courses/[id]/page.tsx), the transaction  *)
(* that finds or creates a student and links it (courses.service.ts,       *)
(* resolveAndLinkStudent), and what others do to students and links        *)
(* (students.service.ts).  PostgreSQL runs at READ COMMITTED: a statement  *)
(* sees what is committed, and an insert waits for an uncommitted row it   *)
(* would collide with.  Names are left out, and the e-mails are those of   *)
(* students outside the model.  skipNext and the timer of the form decide  *)
(* only whether a search is sent: here any answer may arrive.              *)
(***************************************************************************)
EXTENDS Naturals, Sequences, FiniteSets

CONSTANTS
  Ids,        \* students, those that may still be created included
  Numbers,    \* student numbers
  Submits,    \* enrollments by the form, in this order of use
  Others,     \* enrollments by others
  None,
  Gone,       \* the number of a deleted student
  MaxLoads,   \* bound on loads on their way
  MaxFailures \* bound on faults

ASSUME RosterAssumption ==
  /\ Submits \cap Others = {}
  /\ None # Gone /\ {None, Gone} \cap (Ids \cup Numbers \cup Submits \cup Others) = {}
  /\ Numbers # {} /\ {MaxLoads, MaxFailures} \subseteq Nat

VARIABLES
  student,   \* the number of each student that is committed
  link,      \* committed enrollments
  events,    \* CourseStudentEnrolled events of each student in the outbox
  newLinks,  \* history: how often each student was linked
  tx,        \* the enrollment requests
  form,      \* what the form holds, and the request it waits for
  picked,    \* history: the number offered with the selected student
  shown,     \* the roster of the page; None until its first load
  loads,     \* loads on their way, the oldest first
  removal,   \* whether the answer to a removal is on its way
  told,      \* history: students the form was told of, linked since, no load having failed
  overtaken, \* history: a load was answered before an older one
  failures   \* faults injected so far

database == <<student, link, events, newLinks>>
page == <<form, picked, shown, loads, removal, told, overtaken>>
rosterVars == <<database, tx, page, failures>>

Txs == Submits \cup Others
Exists(s) == student[s] \in Numbers
Offer == [id: Ids, number: Numbers]

RosterTypeOK ==
  /\ student \in [Ids -> Numbers \cup {None, Gone}]
  /\ link \subseteq Ids
  /\ {events, newLinks} \subseteq [Ids -> Nat]
  /\ tx \in [Txs ->
       [pc: {"new", "find", "create", "existing", "link", "commit", "end"},
        number: Numbers \cup {None}, id: Ids \cup {None}, created: BOOLEAN,
        answer: {"none", "enrolled", "already", "notFound", "emailTaken", "conflict", "failed"}]]
  /\ form \in [number: Numbers \cup {None}, selected: Ids \cup {None},
               offers: SUBSET Offer, waits: Submits \cup {None}]
  /\ picked \in Numbers \cup {None}
  /\ shown \in (SUBSET Ids) \cup {None} /\ told \subseteq link
  /\ loads \in Seq((SUBSET Ids) \cup {None})
  /\ {removal, overtaken} \subseteq BOOLEAN /\ failures \in 0..MaxFailures

Idle == [pc |-> "new", number |-> None, id |-> None, created |-> FALSE, answer |-> "none"]
Cleared == [number |-> None, selected |-> None, offers |-> {}, waits |-> None]

\* One student exists already, any, and the page has sent its first load.
RosterInit ==
  /\ \E i \in Ids, n \in Numbers : student = [s \in Ids |-> IF s = i THEN n ELSE None]
  /\ link = {}
  /\ events = [s \in Ids |-> 0] /\ newLinks = [s \in Ids |-> 0]
  /\ tx = [t \in Txs |-> Idle]
  /\ form = Cleared /\ picked = None
  /\ shown = None /\ loads = <<None>> /\ removal = FALSE
  /\ told = {} /\ overtaken = FALSE
  /\ failures = 0

Failure == failures < MaxFailures /\ failures' = failures + 1

-----------------------------------------------------------------------------
(* resolveAndLinkStudent, in the transaction of enrollStudent.             *)

At(t, l) == tx[t].pc = l
Goto(t, l) == tx' = [tx EXCEPT ![t].pc = l]
Answer(t, a) == tx' = [tx EXCEPT ![t] = [Idle EXCEPT !.pc = "end", !.id = tx[t].id, !.answer = a]]

Inserted(u) == tx[u].created /\ tx[u].pc \in {"existing", "link", "commit"}
AwaitsStudent(t) == \E u \in Txs \ {t} : Inserted(u) /\ tx[u].number = tx[t].number

\* By id, or by number.
Find(t) ==
  /\ At(t, "find")
  /\ IF tx[t].id # None
     THEN IF Exists(tx[t].id) THEN Goto(t, "existing") ELSE Answer(t, "notFound")
     ELSE \/ \E s \in Ids :
               /\ student[s] = tx[t].number
               /\ tx' = [tx EXCEPT ![t].pc = "existing", ![t].id = s]
          \/ /\ \A s \in Ids : student[s] # tx[t].number
             /\ Goto(t, "create")
  /\ UNCHANGED <<database, page, failures>>

\* Every unique violation is answered as one of the e-mail, which the form does
\* not send.
Create(t) ==
  /\ At(t, "create") /\ ~AwaitsStudent(t)
  /\ \/ /\ t \in Others \/ \E s \in Ids : student[s] = tx[t].number
        /\ Answer(t, "emailTaken")
     \/ /\ \A s \in Ids : student[s] # tx[t].number
        /\ \E s \in Ids :
             /\ student[s] = None /\ \A u \in Txs : tx[u].id # s
             /\ tx' = [tx EXCEPT ![t].pc = "existing", ![t].id = s, ![t].created = TRUE]
  /\ UNCHANGED <<database, page, failures>>

Existing(t) ==
  /\ At(t, "existing")
  /\ IF tx[t].id \in link THEN Answer(t, "already") ELSE Goto(t, "link")
  /\ UNCHANGED <<database, page, failures>>

\* Seeded fault: the link is upserted.
LinkUpserted(t) ==
  /\ At(t, "link")
  /\ IF Exists(tx[t].id) \/ tx[t].created THEN Goto(t, "commit") ELSE Answer(t, "failed")
  /\ UNCHANGED <<database, page, failures>>

\* The unique index and the foreign key answer what nothing here catches.
Link(t) ==
  /\ At(t, "link")
  /\ ~\E u \in Txs \ {t} : At(u, "commit") /\ tx[u].id = tx[t].id
  /\ \/ tx[t].id \in link /\ Answer(t, "conflict")
     \/ ~Exists(tx[t].id) /\ ~tx[t].created /\ Answer(t, "failed")
     \/ /\ tx[t].id \notin link /\ (Exists(tx[t].id) \/ tx[t].created)
        /\ Goto(t, "commit")
  /\ UNCHANGED <<database, page, failures>>

\* The student, the link and the event become durable together.
Commit(t) ==
  LET s == tx[t].id IN
  /\ At(t, "commit")
  /\ IF tx[t].created
     THEN student' = [student EXCEPT ![s] = tx[t].number]
     ELSE UNCHANGED student
  /\ link' = link \cup {s}
  /\ events' = [events EXCEPT ![s] = @ + 1]
  /\ newLinks' = [newLinks EXCEPT ![s] = @ + IF s \in link THEN 0 ELSE 1]
  /\ Answer(t, "enrolled")
  /\ UNCHANGED <<page, failures>>

\* A statement or the commit fails, and all of it is rolled back.
RollBack(t) ==
  /\ tx[t].pc \notin {"new", "end"} /\ Failure
  /\ Answer(t, "failed")
  /\ UNCHANGED <<database, page>>

-----------------------------------------------------------------------------
(* Others: enrollments by number, and single statements.                   *)

EnrollByOther(t) ==
  /\ At(t, "new")
  /\ \E n \in Numbers : tx' = [tx EXCEPT ![t] = [Idle EXCEPT !.pc = "find", !.number = n]]
  /\ UNCHANGED <<database, page, failures>>

\* An open transaction holds the student it has linked.
DeleteStudent(s) ==
  /\ Exists(s) /\ ~\E t \in Txs : At(t, "commit") /\ tx[t].id = s
  /\ student' = [student EXCEPT ![s] = Gone]
  /\ link' = link \ {s} /\ told' = told \ {s}
  /\ UNCHANGED <<events, newLinks, tx, form, picked, shown, loads, removal, overtaken, failures>>

\* createStudent and updateStudent refuse a number in use, and wait for an
\* uncommitted one.
Numbered(s, n) ==
  /\ \A o \in Ids : student[o] # n
  /\ ~\E t \in Txs : Inserted(t) /\ tx[t].number = n
  /\ student' = [student EXCEPT ![s] = n]

CreateStudent(s) ==
  /\ student[s] = None /\ \A t \in Txs : tx[t].id # s
  /\ \E n \in Numbers : Numbered(s, n)
  /\ UNCHANGED <<link, events, newLinks, tx, page, failures>>

UpdateStudent(s) ==
  /\ Exists(s)
  /\ \E n \in Numbers : Numbered(s, n)
  /\ UNCHANGED <<link, events, newLinks, tx, page, failures>>

Unlinked(s) == link' = link \ {s} /\ told' = told \ {s}

-----------------------------------------------------------------------------
(* The add form.                                                           *)

\* Seeded fault: editing the number keeps the selection.
TypeKeepingSelection(n) ==
  /\ form.number # n
  /\ form' = [form EXCEPT !.number = n]
  /\ UNCHANGED <<database, tx, picked, shown, loads, removal, told, overtaken, failures>>

\* onNumberChange; the effect after it may drop the offers of a number too short.
Type(n) ==
  /\ form.number # n
  /\ \E kept \in {form.offers} \cup (IF n = None THEN {{}} ELSE {}) :
       form' = [form EXCEPT !.number = n, !.selected = None, !.offers = kept]
  /\ picked' = None
  /\ UNCHANGED <<database, tx, shown, loads, removal, told, overtaken, failures>>

\* The answer of a search, for this number or one typed before, also after a pick.
Offered ==
  /\ \E n \in Numbers :
       form' = [form EXCEPT !.offers = {[id |-> s, number |-> n] : s \in {i \in Ids : student[i] = n}}]
  /\ UNCHANGED <<database, tx, picked, shown, loads, removal, told, overtaken, failures>>

Pick ==
  /\ \E o \in form.offers :
       /\ form' = [form EXCEPT !.selected = o.id, !.number = o.number]
       /\ picked' = o.number
  /\ UNCHANGED <<database, tx, shown, loads, removal, told, overtaken, failures>>

\* submit: by the id of the selection, or by the number typed.
Submit(t) ==
  /\ At(t, "new") /\ form.waits = None /\ form.number # None
  /\ form' = [form EXCEPT !.waits = t]
  /\ tx' = [tx EXCEPT ![t] = [Idle EXCEPT !.pc = "find", !.id = form.selected,
              !.number = IF form.selected = None THEN form.number ELSE None]]
  /\ UNCHANGED <<database, picked, shown, loads, removal, told, overtaken, failures>>

\* Seeded fault: a load on its way is taken to be enough.
AcceptedWhileLoading(t) ==
  /\ form' = Cleared /\ picked' = None
  /\ told' = told \cup (link \cap {tx[t].id})
  /\ loads' = IF loads = <<>> THEN <<None>> ELSE loads

\* The form is cleared, whatever was typed since, and the page reloads.
Accepted(t) ==
  /\ Len(loads) < MaxLoads
  /\ form' = Cleared /\ picked' = None
  /\ told' = told \cup (link \cap {tx[t].id})
  /\ loads' = Append(loads, None)

\* The answer; an error leaves the form as it is.
Answered(t) ==
  /\ form.waits = t /\ At(t, "end")
  /\ IF tx[t].answer \in {"enrolled", "already"}
     THEN Accepted(t)
     ELSE form' = [form EXCEPT !.waits = None] /\ UNCHANGED <<picked, told, loads>>
  /\ UNCHANGED <<database, tx, shown, removal, overtaken, failures>>

AnswerLost(t) ==
  /\ form.waits = t /\ At(t, "end") /\ Failure
  /\ form' = [form EXCEPT !.waits = None]
  /\ UNCHANGED <<database, tx, picked, shown, loads, removal, told, overtaken>>

-----------------------------------------------------------------------------
(* The page.                                                               *)

\* remove and unenrollStudent: a link that is gone already is an error.
Remove(s) ==
  /\ shown # None /\ s \in shown /\ ~removal
  /\ Unlinked(s)
  /\ removal' = (s \in link)
  /\ UNCHANGED <<student, events, newLinks, tx, form, picked, shown, loads, overtaken, failures>>

Removed ==
  /\ removal
  /\ removal' = FALSE
  /\ Len(loads) < MaxLoads /\ loads' = Append(loads, None)
  /\ UNCHANGED <<database, tx, form, picked, shown, told, overtaken, failures>>

\* openSession, or the import panel at its end, loads once more.
Reload ==
  /\ shown # None
  /\ Len(loads) < MaxLoads /\ loads' = Append(loads, None)
  /\ UNCHANGED <<database, tx, form, picked, shown, removal, told, overtaken, failures>>

\* load reads the roster ...
Read(i) ==
  /\ i \in DOMAIN loads /\ loads[i] = None
  /\ loads' = [loads EXCEPT ![i] = link]
  /\ UNCHANGED <<database, tx, form, picked, shown, removal, told, overtaken, failures>>

Without(i) == [k \in 1..(Len(loads) - 1) |-> IF k < i THEN loads[k] ELSE loads[k + 1]]

\* ... and its answer is shown, also when a younger one was.
Shown(i) ==
  /\ i \in DOMAIN loads /\ loads[i] # None
  /\ shown' = loads[i]
  /\ loads' = Without(i)
  /\ overtaken' = (overtaken \/ i > 1)
  /\ UNCHANGED <<database, tx, form, picked, removal, told, failures>>

LoadFails(i) ==
  /\ i \in DOMAIN loads /\ Failure
  /\ loads' = Without(i)
  /\ told' = {}
  /\ UNCHANGED <<database, tx, form, picked, shown, removal, overtaken>>

-----------------------------------------------------------------------------
Transaction(t) == Find(t) \/ Create(t) \/ Existing(t) \/ Link(t) \/ Commit(t)
\* Until its first load the page shows no form.
Form ==
  /\ shown # None
  /\ \/ Offered \/ Pick
     \/ \E n \in Numbers \cup {None} : Type(n)
     \/ \E t \in Submits : Submit(t) \/ Answered(t) \/ AnswerLost(t)
Page ==
  \/ Removed \/ Reload
  \/ \E s \in Ids : Remove(s)
  \/ \E i \in 1..MaxLoads : Read(i) \/ Shown(i) \/ LoadFails(i)
RosterNext ==
  \/ \E t \in Txs : Transaction(t) \/ RollBack(t)
  \/ \E t \in Others : EnrollByOther(t)
  \/ \E s \in Ids : CreateStudent(s) \/ UpdateStudent(s) \/ DeleteStudent(s)
  \/ Form \/ Page

RosterSpec == RosterInit /\ [][RosterNext]_rosterVars

-----------------------------------------------------------------------------
(* Properties.                                                             *)

\* The form enrolls the student whose number it shows: a selection is gone as soon
\* as the number is edited or the form is cleared, and a late list of another
\* number cannot be mistaken for it (RosterAddForm.tsx:51-66).
SubmitsWhatItShows == form.selected # None => form.number = picked

\* "recorded only for a genuinely new link" (courses.service.ts:142-143): concurrent
\* enrollments of one student, that all looked before any was committed, make one
\* link and one event.
EventPerLink == events = newLinks

\* A page at rest shows every student its form reported as enrolled, although loads
\* sent before, with and after the one for it have come and gone, unless the link is
\* gone again, a load failed since, or an older load was answered last
\* (courses/[id]/page.tsx:26-38).
OwnEnrollmentStays ==
  told # {} /\ loads = <<>> => overtaken \/ (shown # None /\ told \subseteq shown)
=============================================================================
