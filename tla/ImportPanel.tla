----------------------------- MODULE ImportPanel -----------------------------
(***************************************************************************)
(* The import panel of the course page (components/BulkImportPanel.tsx): it *)
(* merges the frames pushed for its job (useImportProgress, lib/ws.ts) with *)
(* the answers of a fallback poll, and has the roster reloaded at its end. *)
(* The jobs are those of BulkImport, here only their status and the frames  *)
(* about to be published.                                                   *)
(* An effect of React runs with the state change that causes it; a change  *)
(* of jobId discards the former job's frame before its effects look at it. *)
(***************************************************************************)
EXTENDS Naturals, Sequences, FiniteSets

CONSTANTS
  MaxJobs,    \* imports of one visit to the page
  MaxFrames,  \* bound on the frames on their way
  MaxPolls,   \* bound on polls waiting for an answer
  MaxMishaps  \* bound on faults: sockets, requests, broadcasts, redeliveries

ASSUME ImportPanelAssumption == {MaxJobs, MaxFrames, MaxPolls, MaxMishaps} \subseteq Nat

VARIABLES
  jobs,      \* status of each job on the server
  unsent,    \* the end the consumer is about to publish of each job
  jobId,     \* the panel's job; 0 for null
  busy,      \* the job whose submission is being answered; 0 for none
  progress,  \* the last frame of the hook
  polled,    \* polledJob
  reloaded,  \* reloadedRef
  feed,      \* the hook's socket: closed, open, subscribed to its job, or refused
  wire,      \* frames on their way to the panel
  polls,     \* outstanding polls, in the order they were sent
  reloads,   \* history: how often the panel reloaded the roster for each job
  early,     \* history: jobs whose panel was given the answer of a former job's poll
  undone,    \* history: jobs that left an end they had reached
  mishaps    \* faults injected so far

panel == <<jobId, busy, progress, polled, reloaded>>
history == <<reloads, early, undone>>
server == <<jobs, unsent>>
panelVars == <<server, panel, feed, wire, polls, history, mishaps>>

Jobs == 1..MaxJobs
Terminal == {"COMPLETED", "FAILED"}
Status == {"PENDING", "PROCESSING"} \cup Terminal
View == [of: Jobs, status: Status]
Unseen == [of |-> 0, status |-> "none"]
Poll == [of: Jobs, status: Status \cup {"unread"}]

PanelTypeOK ==
  /\ jobs \in [Jobs -> Status \cup {"none"}]
  /\ unsent \in [Jobs -> Terminal \cup {"none"}]
  /\ jobId \in Jobs \cup {0} /\ busy \in Jobs \cup {0}
  /\ {progress, polled} \subseteq View \cup {Unseen}
  /\ reloaded \in BOOLEAN
  /\ feed \in {"closed", "open", "subscribed", "refused"}
  /\ wire \in Seq(View) /\ polls \in Seq(Poll)
  /\ reloads \in [Jobs -> Nat] /\ {early, undone} \subseteq SUBSET Jobs
  /\ mishaps \in 0..MaxMishaps

PanelInit ==
  /\ jobs = [j \in Jobs |-> "none"]
  /\ unsent = [j \in Jobs |-> "none"]
  /\ jobId = 0 /\ busy = 0
  /\ progress = Unseen /\ polled = Unseen
  /\ reloaded = FALSE
  /\ feed = "closed"
  /\ wire = <<>> /\ polls = <<>>
  /\ reloads = [j \in Jobs |-> 0] /\ early = {} /\ undone = {}
  /\ mishaps = 0

Mishap == mishaps < MaxMishaps /\ mishaps' = mishaps + 1

-----------------------------------------------------------------------------
(* What the panel shows, and what follows from it.                         *)

\* jobStatus: the frame before the poll.
StatusOf(pr, po) ==
  IF pr # Unseen THEN pr.status
  ELSE IF po # Unseen THEN po.status
  ELSE IF jobId # 0 THEN "PENDING" ELSE "none"
JobStatus == StatusOf(progress, polled)
IsTerminal == JobStatus \in Terminal

\* Seeded fault: every change to COMPLETED reloads.
RefreshedEachTime(pr, po) ==
  LET now == StatusOf(pr, po) = "COMPLETED" /\ JobStatus # "COMPLETED"
  IN /\ UNCHANGED reloaded
     /\ reloads' = [j \in Jobs |-> reloads[j] + IF now /\ j \in {jobId, busy} THEN 1 ELSE 0]

\* The effect on jobStatus: the first COMPLETED of an import reloads the roster.
Refreshed(pr, po) ==
  LET now == StatusOf(pr, po) = "COMPLETED" /\ JobStatus # "COMPLETED" /\ ~reloaded
  IN /\ reloaded' = (reloaded \/ now)
     /\ reloads' = [j \in Jobs |-> reloads[j] + IF now /\ j \in {jobId, busy} THEN 1 ELSE 0]

-----------------------------------------------------------------------------
(* The user.                                                               *)

\* startImport: the submission creates the job ...
StartImport(j) ==
  /\ jobId = 0 /\ busy = 0
  /\ jobs[j] = "none" /\ \A i \in Jobs : i < j => jobs[i] # "none"
  /\ busy' = j
  /\ polled' = Unseen /\ reloaded' = FALSE
  /\ jobs' = [jobs EXCEPT ![j] = "PENDING"]
  /\ UNCHANGED <<unsent, jobId, progress, feed, wire, polls, history, mishaps>>

\* Seeded fault: the hook keeps the former job's frame.
SubmittedKeepingFrame ==
  /\ busy # 0
  /\ busy' = 0
  /\ jobId' = busy
  /\ UNCHANGED <<server, polled, progress, reloaded, feed, wire, polls, history, mishaps>>

\* ... and its answer brings the id; the hook forgets the former job's frame, which
\* may uncover what a late poll of that job has brought.
Submitted ==
  /\ busy # 0
  /\ busy' = 0
  /\ jobId' = busy
  /\ progress' = Unseen
  /\ Refreshed(Unseen, polled)
  /\ UNCHANGED <<server, polled, feed, wire, polls, early, undone, mishaps>>

\* The answer is an error, or lost although the job exists.
SubmitFails ==
  /\ busy # 0 /\ Mishap
  /\ busy' = 0
  /\ UNCHANGED <<server, jobId, progress, polled, reloaded, feed, wire, polls, history>>

\* "Import another file", offered at the end: the hook closes its socket.
Reset ==
  /\ jobId # 0 /\ IsTerminal
  /\ jobId' = 0
  /\ polled' = Unseen
  /\ feed' = "closed" /\ wire' = <<>>
  /\ UNCHANGED <<server, busy, progress, reloaded, polls, history, mishaps>>

-----------------------------------------------------------------------------
(* The server and its frames.                                              *)

\* A frame for job j goes to whoever is subscribed to it at that moment.
Framed(j, status) ==
  IF jobId = j /\ feed = "subscribed"
  THEN Len(wire) < MaxFrames /\ wire' = Append(wire, [of |-> j, status |-> status])
  ELSE UNCHANGED wire

\* An end that a job has reached is recorded as undone when it is left.
Becomes(j, status) ==
  /\ jobs' = [jobs EXCEPT ![j] = status]
  /\ undone' = undone \cup (IF jobs[j] \in Terminal \ {status} THEN {j} ELSE {})

\* The consumer starts a job, publishes the progress of a chunk it has saved ...
Start(j) ==
  /\ jobs[j] = "PENDING"
  /\ Becomes(j, "PROCESSING")
  /\ UNCHANGED <<unsent, panel, feed, wire, polls, reloads, early, mishaps>>

Chunk(j) ==
  /\ unsent[j] = "none"
  /\ \/ jobs[j] = "PROCESSING" /\ UNCHANGED mishaps
     \/ jobs[j] \in Terminal /\ Mishap  \* another handler has finished it
  /\ Framed(j, "PROCESSING")
  /\ UNCHANGED <<server, panel, feed, polls, history>>

\* ... saves the end, or a failure, that of a publish included ...
Finish(j) ==
  /\ unsent[j] = "none"
  /\ \E s \in Terminal :
       /\ jobs[j] = "PROCESSING" \/ (jobs[j] = "PENDING" /\ s = "FAILED")
       /\ Becomes(j, s)
       /\ unsent' = [unsent EXCEPT ![j] = s]
  /\ UNCHANGED <<panel, feed, wire, polls, reloads, early, mishaps>>

\* ... starts a finished job again, in another handler of the same request, which
\* came again while the first still worked ...
StartAgain(j) ==
  /\ jobs[j] \in Terminal /\ Mishap
  /\ Becomes(j, "PROCESSING")
  /\ UNCHANGED <<unsent, panel, feed, wire, polls, reloads, early>>

\* ... and then publishes the end.
Broadcast(j) ==
  /\ unsent[j] # "none"
  /\ Framed(j, unsent[j])
  /\ unsent' = [unsent EXCEPT ![j] = "none"]
  /\ UNCHANGED <<jobs, panel, feed, polls, history, mishaps>>

\* The consumer dies before it, or the publish fails, which fails the job, a
\* completed one too.
BroadcastFails(j) ==
  /\ unsent[j] # "none" /\ Mishap
  /\ \/ unsent' = [unsent EXCEPT ![j] = "none"] /\ UNCHANGED <<jobs, undone>>
     \/ /\ unsent[j] # "FAILED"
        /\ unsent' = [unsent EXCEPT ![j] = "FAILED"]
        /\ Becomes(j, "FAILED")
  /\ UNCHANGED <<panel, feed, wire, polls, reloads, early>>

\* The hook connects while there is a job; its subscribe is answered without the
\* state of the job.
Open ==
  /\ jobId # 0 /\ feed = "closed"
  /\ feed' = "open"
  /\ UNCHANGED <<server, panel, wire, polls, history, mishaps>>

Subscribe ==
  /\ feed = "open"
  /\ feed' = "subscribed"
  /\ UNCHANGED <<server, panel, wire, polls, history, mishaps>>

\* The access check fails: the hook ignores the error frame, and the socket stays
\* open without a subscription.
SubscribeRefused ==
  /\ feed = "open" /\ Mishap
  /\ feed' = "refused"
  /\ UNCHANGED <<server, panel, wire, polls, history>>

\* The socket breaks, and the frames on it are lost.
Break ==
  /\ feed # "closed" /\ Mishap
  /\ feed' = "closed" /\ wire' = <<>>
  /\ UNCHANGED <<server, panel, polls, history>>

\* onmessage: setProgress.
Frame ==
  /\ wire # <<>>
  /\ wire' = Tail(wire)
  /\ progress' = Head(wire)
  /\ Refreshed(Head(wire), polled)
  /\ UNCHANGED <<server, jobId, busy, polled, feed, polls, early, undone, mishaps>>

-----------------------------------------------------------------------------
(* The fallback poll.                                                      *)

\* Seeded fault: the poll rests as soon as a frame has come.
AskUnlessPushed ==
  /\ jobId # 0 /\ ~IsTerminal /\ progress = Unseen /\ feed # "subscribed"
  /\ Len(polls) < MaxPolls
  /\ polls' = Append(polls, [of |-> jobId, status |-> "unread"])
  /\ UNCHANGED <<server, panel, feed, wire, history, mishaps>>

\* The interval runs while the bar has not reached its end.
Ask ==
  /\ jobId # 0 /\ ~IsTerminal
  /\ Len(polls) < MaxPolls
  /\ polls' = Append(polls, [of |-> jobId, status |-> "unread"])
  /\ UNCHANGED <<server, panel, feed, wire, history, mishaps>>

\* getImportJob reads the job.
GetImportJob(i) ==
  /\ i \in DOMAIN polls /\ polls[i].status = "unread"
  /\ polls' = [polls EXCEPT ![i].status = jobs[polls[i].of]]
  /\ UNCHANGED <<server, panel, feed, wire, history, mishaps>>

WithoutPoll(i) == [k \in 1..(Len(polls) - 1) |-> IF k < i THEN polls[k] ELSE polls[k + 1]]

\* An answer arrives: setPolledJob, whichever job and order it is from.
SetPolledJob(i) ==
  /\ i \in DOMAIN polls /\ polls[i].status # "unread"
  /\ polls' = WithoutPoll(i)
  /\ polled' = polls[i]
  /\ early' = early \cup (IF polls[i].of = jobId THEN {} ELSE Jobs \cap {jobId, busy})
  /\ Refreshed(progress, polls[i])
  /\ UNCHANGED <<server, jobId, busy, progress, feed, wire, undone, mishaps>>

\* A poll that fails is ignored.
PollFails(i) ==
  /\ i \in DOMAIN polls /\ Mishap
  /\ polls' = WithoutPoll(i)
  /\ UNCHANGED <<server, panel, feed, wire, history>>

-----------------------------------------------------------------------------
Server(j) ==
  Start(j) \/ Chunk(j) \/ Finish(j) \/ StartAgain(j) \/ Broadcast(j) \/ BroadcastFails(j)
Hook == Open \/ Subscribe \/ SubscribeRefused \/ Break \/ Frame
PanelNext ==
  \/ Submitted \/ SubmitFails \/ Reset \/ Hook \/ Ask
  \/ \E j \in Jobs : StartImport(j) \/ Server(j)
  \/ \E i \in 1..MaxPolls : GetImportJob(i) \/ SetPolledJob(i) \/ PollFails(i)

PanelSpec == PanelInit /\ [][PanelNext]_panelVars

\* Requests and frames are answered and arrive, the interval and the reconnect
\* timer fire, the consumer gets on; the user owes nothing.
PanelFairness ==
  /\ WF_panelVars(Submitted) /\ WF_panelVars(Open \/ Subscribe) /\ WF_panelVars(Frame) /\ WF_panelVars(Ask)
  /\ WF_panelVars(\E i \in 1..MaxPolls : GetImportJob(i))
  /\ WF_panelVars(\E i \in 1..MaxPolls : SetPolledJob(i))
  /\ \A j \in Jobs :
       WF_panelVars(Start(j)) /\ WF_panelVars(Finish(j)) /\ WF_panelVars(Broadcast(j))

FairPanelSpec == PanelSpec /\ PanelFairness

-----------------------------------------------------------------------------
(* Properties.                                                             *)

\* The end the panel shows is the end of its own job, unless a poll of a former
\* job was answered during this import or the job left an end it had reached
\* (BulkImportPanel.tsx:115-119, :131-138).
ShownEndIsReal ==
  jobId # 0 /\ IsTerminal /\ jobId \notin early \cup undone => jobs[jobId] = JobStatus

\* The roster is reloaded at most once per import and only after the import has
\* completed, whichever of frame and poll comes first and however often each comes;
\* and it has been by the time COMPLETED is shown (BulkImportPanel.tsx:142-148).  A
\* former job's answer is excepted: it may have the roster reloaded too early, and
\* then the import's own end reloads nothing.
OneReloadAfterTheEnd ==
  \A j \in Jobs :
    /\ reloads[j] <= 1
    /\ reloads[j] = 1 /\ j \notin early \cup undone => jobs[j] = "COMPLETED"
    /\ jobId = j /\ JobStatus = "COMPLETED" /\ j \notin early => reloads[j] = 1

\* A finished job is shown as finished, unless a frame of an earlier state is
\* still preferred to what the poll brings.
BarEndsUnlessMasked ==
  \A j \in Jobs :
    (jobId = j /\ jobs[j] \in Terminal)
      ~> (jobId # j \/ IsTerminal \/ progress.status = "PROCESSING")

=============================================================================
