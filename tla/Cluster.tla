------------------------------ MODULE Cluster ------------------------------
(***************************************************************************)
(* A server and the workers that find it, joined by their sockets.         *)
(***************************************************************************)
EXTENDS Server, WorkerPeer

vars == <<networkVars, serverVars, workerVars>>

Init == NetworkInit /\ ServerInit /\ WorkerInit

\* Without "late_join" workers start while histograms are collected; without
\* "late_route" both dealers of a worker are known when its HELO is.
StartWorker(w) ==
  /\ "late_join" \in Faults \/ phase = "receive_histograms"
  /\ \E known \in {Sockets, {"communication"}} :
       /\ known = Sockets \/ "late_route" \in Faults
       /\ SendHelo(w, known)
  /\ UNCHANGED serverVars

\* The steps of worker w that need no fault.
WorkerStep(w) ==
  /\ \/ VisitEhlo(w)
     \/ \E job \in Jobs : VisitJob(w, job)
     \/ VisitBye(w)
     \/ \E job \in Jobs : RunJob(w, job)
     \/ AnswerHeartbeat(w)
     \/ Disconnect(w)
  /\ UNCHANGED serverVars

WorkerFault(w) ==
  /\ \/ "slow" \in Faults /\ ConnectTimeout(w)
     \/ "crash" \in Faults /\ Crash(w)
  /\ UNCHANGED serverVars

RouteFound(w) ==
  /\ RouteWork(w)
  /\ UNCHANGED <<serverVars, workerVars>>

Next ==
  \/ ServerNext /\ UNCHANGED workerVars
  \/ \E w \in Workers :
       StartWorker(w) \/ WorkerStep(w) \/ WorkerFault(w) \/ RouteFound(w)

Spec == Init /\ [][Next]_vars

(***************************************************************************)
(* Every thread that can take a step takes one: the main or work thread,   *)
(* the communication thread (which reads its peers in turn), and each      *)
(* thread of a worker.  Time passes, and the users start their workers.    *)
(***************************************************************************)
Fairness ==
  /\ WF_vars(WorkStep /\ UNCHANGED workerVars)
  /\ WF_vars(CommunicationStops /\ UNCHANGED workerVars)
  /\ \A w \in Workers :
       /\ WF_vars(VisitHelo(w) /\ UNCHANGED workerVars)
       /\ WF_vars(VisitHeartbeatReply(w) /\ UNCHANGED workerVars)
       /\ WF_vars(IntervalPasses(w) /\ UNCHANGED workerVars)
       /\ WF_vars(StartWorker(w))
       /\ WF_vars(RouteFound(w))
       /\ WF_vars(VisitEhlo(w) /\ UNCHANGED serverVars)
       /\ WF_vars((\E job \in Jobs : VisitJob(w, job)) /\ UNCHANGED serverVars)
       /\ WF_vars(VisitBye(w) /\ UNCHANGED serverVars)
       /\ WF_vars((\E job \in Jobs : RunJob(w, job)) /\ UNCHANGED serverVars)
       /\ WF_vars(AnswerHeartbeat(w) /\ UNCHANGED serverVars)
       /\ WF_vars(Disconnect(w) /\ UNCHANGED serverVars)

FairSpec == Spec /\ Fairness

-----------------------------------------------------------------------------
(* Safety *)

\* Every variable keeps the type its declaration in the code gives it.
TypeOK == NetworkTypeOK /\ ServerTypeOK /\ WorkerTypeOK

Registered == DOMAIN worker_queues

\* The job the current stage has for f.
StageJob(f) ==
  IF phase = "receive_histograms" THEN HistogramJob(f) ELSE EqualisationJob(f)

\* The places of the server that hold the job of f.
HoldersOf(f) == {w \in Registered : StageJob(f) \in worker_queues[w].work}

Waiting(f) == f \in unpushed \/ StageJob(f) \in enqueued_work

\* Neither waiting nor with a worker: no result for f is expected any more.
Completed(f) == ~ Waiting(f) /\ HoldersOf(f) = {}

CompletedFiles == {f \in Files : Completed(f)}

\* The result of f is in the server's hands.
Collected(f) == IF phase = "receive_histograms" THEN f \in workResults
                                                ELSE f \in images

\* The server neither loses a job nor hands it to two workers, over joins, lost
\* messages, dismissals and requeued work: it waits to be handed out, or is in
\* one worker's queue, or its result has been collected.
JobsConserved ==
  \A f \in Files :
    /\ ~ (f \in unpushed /\ StageJob(f) \in enqueued_work)
    /\ Waiting(f) => HoldersOf(f) = {}
    /\ \A v, w \in HoldersOf(f) : v = w
    /\ Completed(f) => Collected(f)

\* assert(enqueued_work.empty()) (server.cpp:76) cannot fail: once every file has
\* a histogram no histogram job is left anywhere on the server, nor later.
HistogramsDrained ==
  phase # "receive_histograms" \/ workResults = Files =>
    /\ \A job \in enqueued_work : job.type # "HISTOGRAM"
    /\ \A w \in Registered : \A job \in worker_queues[w].work : job.type # "HISTOGRAM"

\* The counter that ends receive_equalised counts files, not results: neither a
\* job done twice nor the late result of a dismissed worker is counted.
EqualisedCountExact ==
  phase # "receive_histograms" =>
    equalised_count = Cardinality(CompletedFiles)

\* serve_work dismisses its workers and ends only after every image is written.
ImagesComplete ==
  phase \in {"dismiss_workers", "stop_communication", "wait_communication", "exited"} =>
    images = Files

\* queue.erase(find_if(...)) (server.cpp:369, 410) always finds a job: a result of
\* the stage on its way from a registered worker answers a job in its queue.
EraseFindsJob ==
  \A w \in Registered : \A r \in work_to_server[w] :
    \E job \in worker_queues[w].work : Matches(job, r)

\* No histogram result is on its way once histograms are complete ("Should have
\* completed all histogram results already!", server.cpp:392), and no
\* equalisation result before.
ResultsOfTheStage ==
  \A w \in Workers : \A r \in work_to_server[w] :
    r.type = IF phase = "receive_histograms" /\ workResults # Files
             THEN "HISTOGRAM" ELSE "EQUALISATION"

\* A reply the server counts answers its latest request: at most one request or
\* reply is on its way, and none once the reply is recorded.
Occurrences(c, s) == Cardinality({i \in DOMAIN s : s[i] = c})

Recorded(w) == w \in Registered /\ worker_queues[w].heartbeat_reply_received

ReplyAnswersLatestRequest ==
  \A w \in Workers :
    Occurrences("HEARTBEAT_REQUEST", comm_to_worker[w])
      + Occurrences("HEARTBEAT_REPLY", comm_to_server[w])
      + (IF Recorded(w) THEN 1 ELSE 0) <= 1

\* A worker that has been told BYE is forgotten, so that nothing is sent to it
\* any more and it stops only when its jobs are no longer its own.
DismissedHoldsNoWork ==
  \A w \in Workers :
    w \in bye_to_worker \/ connection[w] = "Dying" => w \notin Registered

\* No worker is given more than it can do at once, nor more than the limit.
QueueWithinCapacity ==
  \A w \in Registered :
    Cardinality(worker_queues[w].work) <= Minimum(Concurrency[w], MAX_WORKER_QUEUE)

\* assert(currentState == Connected) (worker.cpp:129) cannot fail: the first
\* answer a connecting worker reads is the EHLO.
EhloComesFirst ==
  \A w \in Workers :
    connection[w] = "Unconnected" /\ comm_to_worker[w] # <<>> =>
      Head(comm_to_worker[w]) = "EHLO"

\* A job recorded as a running worker's is on its way to it, with it, or its
\* result is on its way back: the server waits for nothing that cannot come.
\* (Not so with "late_route".)
OutstandingReachesWorker ==
  \A w \in Registered :
    connection[w] # "Gone" =>
      \A job \in worker_queues[w].work :
        job \in work_to_worker[w] \cup jobs[w] \/ ResultOf(job) \in work_to_server[w]

\* While workers answer in time, send_heartbeats dismisses only dead ones.
\* (Not so with "slow".)
LiveWorkerKept ==
  [][phase = "send_heartbeats" =>
       \A w \in Registered \ Registered' : connection[w] = "Gone"]_vars

\* The jobs w has, or that are on their way to it or back.  (A result is known
\* by the job it answers.)
Carried(w) == work_to_worker[w] \cup jobs[w] \cup work_to_server[w]

AllAlive == \A w \in Workers : connection[w] # "Gone"

WaitingForResults == phase \in {"receive_histograms", "receive_equalised", "send_heartbeats"}

\* While results are missing and every worker is alive, something that must come
\* is under way: a job on its way to a worker, with it, or its result on its way
\* back.  So serve_work never waits with work in its queue (server.cpp:145) for
\* workers that have nothing to do.  (Not so with "slow" or "late_route".)
NoStandstill ==
  /\ WaitingForResults
  /\ CompletedFiles # Files
  /\ AllAlive
  /\ \E w \in Registered : worker_queues[w].concurrency > 0
  => \E w \in Registered : Carried(w) # {}

\* A worker the server cannot have heard of yet.
Fresh(w) == connection[w] = "NotStarted" \/ comm_to_server[w] = <<"HELO">>

\* A worker the server has heard of and knows no more has its BYE on the way, or
\* has read it: it will not wait for work for ever.  (Not so with "late_route".)
ForgottenIsReleased ==
  \A w \in Workers :
    connection[w] \in {"Unconnected", "Connected"} /\ w \notin Registered =>
      Fresh(w) \/ w \in bye_to_worker

\* What WorkerThreads takes for granted of the server: it sends a worker no job
\* that is with it already, or whose result is on its way back, no job after a BYE,
\* and no second BYE.
ServerKeepsToOrder ==
  [][\A w \in Workers :
       /\ \A job \in work_to_worker'[w] \ work_to_worker[w] :
            /\ w \notin bye_to_worker /\ connection[w] # "Dying"
            /\ job \notin jobs[w] \cup work_to_server[w]
       /\ w \in Registered \ Registered' =>
            w \notin bye_to_worker /\ connection[w] # "Dying"
       /\ w \in bye_to_worker' \ bye_to_worker => w \in Registered \ Registered']_vars

\* What can still come between a dead worker and its dismissal: an interval that
\* has not passed, a reply recorded, replies to be read.
DelaysLeft(w) ==
  (IF worker_queues[w].request_overdue THEN 0 ELSE 1)
    + (IF worker_queues[w].heartbeat_reply_received THEN 2 ELSE 0)
    + 3 * Occurrences("HEARTBEAT_REPLY", comm_to_server[w])

\* Nothing puts the dismissal of a dead worker off, and each of the steps it needs
\* brings it nearer: with no delay left, send_heartbeats cannot but dismiss it.
DismissalComesNearer ==
  [][\A w \in Registered \cap Registered' :
       connection[w] = "Gone" =>
         /\ DelaysLeft(w)' <= DelaysLeft(w)
         /\ (\/ VisitHeartbeatReply(w)
             \/ IntervalPasses(w)
             \/ SendHeartbeats /\ worker_queues[w].request_overdue)
            => DelaysLeft(w)' < DelaysLeft(w)]_vars

-----------------------------------------------------------------------------
(* The inductive invariant *)

StageType == IF phase = "receive_histograms" THEN "HISTOGRAM" ELSE "EQUALISATION"

StageOfPhase ==
  CASE phase = "receive_histograms" -> "histograms"
    [] phase \in {"dismiss_workers", "stop_communication",
                  "wait_communication", "exited"} -> "finished"
    [] OTHER -> "equalisation"

\* The loop of receive_equalised runs over registered workers.
ExistingRegistered ==
  /\ existing_workers \subseteq Registered
  /\ phase # "serve_existing" => existing_workers = {}

Queue(w) == IF w \in Registered THEN worker_queues[w].work ELSE {}

QueuesDisjoint ==
  /\ \A w \in Workers : Queue(w) \cap enqueued_work = {}
  /\ \A v, w \in Workers : v # w => Queue(v) \cap Queue(w) = {}

OnlyStageJobs ==
  /\ \A job \in enqueued_work : job.type = StageType
  /\ \A w \in Workers : \A job \in Queue(w) \cup Carried(w) : job.type = StageType

UnpushedNowhere ==
  /\ phase # "queue_equalisation" => unpushed = {}
  /\ \A f \in unpushed :
       /\ EqualisationJob(f) \notin enqueued_work
       /\ \A w \in Workers : EqualisationJob(f) \notin Queue(w)

HistogramsExact ==
  phase = "receive_histograms" =>
    /\ \A f \in Files : f \in workResults <=> Completed(f)
    /\ equalised_count = 0

ImagesExact ==
  phase # "receive_histograms" => \A f \in Files : Completed(f) => f \in images

FinishedAll ==
  StageOfPhase = "finished" => equalised_count >= Cardinality(Files)

\* What a registered worker carries is recorded in its queue, in one place each.
CarriedRecorded ==
  \A w \in Registered :
    /\ Carried(w) \subseteq Queue(w)
    /\ work_to_worker[w] \cap jobs[w] = {}
    /\ work_to_worker[w] \cap work_to_server[w] = {}
    /\ jobs[w] \cap work_to_server[w] = {}

UnregisteredIdle ==
  phase = "receive_histograms" =>
    \A w \in Workers \ Registered : Carried(w) = {}

FreshUnknown ==
  \A w \in Workers :
    /\ \A i \in DOMAIN comm_to_server[w] :
         comm_to_server[w][i] = "HELO" => comm_to_server[w] = <<"HELO">>
    /\ connection[w] = "NotStarted" => comm_to_server[w] = <<>>
    /\ Fresh(w) => /\ w \notin Registered
                   /\ Carried(w) = {}
                   /\ comm_to_worker[w] = <<>>
                   /\ w \notin bye_to_worker
                   /\ connection[w] \in {"NotStarted", "Unconnected", "Gone"}

\* JobsConserved, HistogramsDrained, EqualisedCountExact, ImagesComplete,
\* EraseFindsJob, ResultsOfTheStage and DismissedHoldsNoWork follow from this
\* conjunction, which every step preserves.
IInv ==
  /\ TypeOK
  /\ ExistingRegistered
  /\ QueuesDisjoint
  /\ OnlyStageJobs
  /\ UnpushedNowhere
  /\ HistogramsExact
  /\ EqualisedCountExact
  /\ ImagesExact
  /\ FinishedAll
  /\ CarriedRecorded
  /\ UnregisteredIdle
  /\ FreshUnknown
  /\ DismissedHoldsNoWork

(***************************************************************************)
(* A second invariant, that relies on the first: what concerns queues and  *)
(* workers' answers, not where jobs are.                                   *)
(***************************************************************************)

\* A worker's entry keeps the concurrency it was registered with.
CapacityKept ==
  \A w \in Registered :
    /\ worker_queues[w].concurrency = Minimum(Concurrency[w], MAX_WORKER_QUEUE)
    /\ Cardinality(worker_queues[w].work) <= worker_queues[w].concurrency

\* No reply of a worker that has not read its EHLO exists, nor has been recorded:
\* so it is sent no second request, which it might read first.
RepliesFollowEhlo ==
  \A w \in Workers :
    connection[w] \in {"NotStarted", "Unconnected"} =>
      /\ comm_to_worker[w] # <<>> => Head(comm_to_worker[w]) = "EHLO"
      /\ \A i \in DOMAIN comm_to_server[w] : comm_to_server[w][i] # "HEARTBEAT_REPLY"
      /\ ~ Recorded(w)

\* The server's routers know the sockets of every worker that runs.
RoutesOpen ==
  \A w \in Workers :
    connection[w] \in {"Unconnected", "Connected", "Dying"} =>
      /\ "communication" \in routes[w]
      /\ "late_route" \notin Faults => "work" \in routes[w]

\* While workers answer in time, only a dead one's answer is overdue.
OverdueIsDead ==
  "slow" \notin Faults =>
    \A w \in Registered :
      worker_queues[w].request_overdue /\ ~ worker_queues[w].heartbeat_reply_received =>
        connection[w] = "Gone"

\* While workers answer in time and none has died, jobs wait only when the queue
\* of every worker that has been served in this stage is full.
Full(w) == Cardinality(worker_queues[w].work) >= worker_queues[w].concurrency

FullWhileWaiting ==
  "slow" \notin Faults /\ AllAlive /\ enqueued_work # {} =>
    /\ WaitingForResults => \A w \in Registered : Full(w)
    /\ phase = "serve_existing" => \A w \in Registered \ existing_workers : Full(w)

AnswersInv ==
  /\ CapacityKept
  /\ RepliesFollowEhlo
  /\ ReplyAnswersLatestRequest
  /\ RoutesOpen
  /\ OverdueIsDead
  /\ FullWhileWaiting
  /\ "late_route" \notin Faults => OutstandingReachesWorker

-----------------------------------------------------------------------------
(* The abstract specification *)

\* No worker has the name of another place of JobLedger.
ASSUME PlacesAssumption == "pool" \notin Workers /\ "done" \notin Workers

\* The worker whose queue has the job of f.
WorkerOf(f) == CHOOSE w \in Workers : w \in HoldersOf(f)

HolderOf(f) ==
  CASE Waiting(f) -> "pool"
    [] HoldersOf(f) # {} -> WorkerOf(f)
    [] Completed(f) /\ Collected(f) -> "done"
    [] OTHER -> "lost"

Ledger == INSTANCE JobLedger WITH
  stage <- StageOfPhase,
  holder <- [f \in Files |-> HolderOf(f)]

\* The server keeps the promise of JobLedger: only the worker that has a job gets
\* it done, jobs return to the pool only by dismissal in the second stage, a
\* completed job stays so, and no stage ends early.
LedgerKept == Ledger!LedgerSpec

-----------------------------------------------------------------------------
(* Liveness *)

\* No worker dies while the server waits for results.
WorkersStayAlive ==
  \A w \in Workers :
    [](connection[w] = "Gone" => phase \notin {"receive_histograms", "receive_equalised"})

\* With workers that stay alive, are not slow and start early, serve_work ends
\* with every image written (or at the assertion of server.cpp:100).
ServeWorkEnds ==
  WorkersStayAlive => <>(phase = "aborted" \/ (phase = "exited" /\ images = Files))

\* A worker registered before dismiss_workers is told BYE and ends.  (One whose
\* HELO is handled later is not: nothing is sent to it any more.)
WorkersReleased ==
  WorkersStayAlive =>
    \A w \in Workers :
      (w \in Registered /\ StageOfPhase # "finished")
        ~> (phase = "aborted" \/ connection[w] = "Gone")

\* In the equalisation stage a dead worker is eventually forgotten, and its work
\* taken from it.
DeadWorkerDismissed ==
  \A w \in Workers :
    (w \in Registered /\ connection[w] = "Gone" /\ phase = "receive_equalised")
      ~> (w \notin Registered \/ phase = "aborted")

-----------------------------------------------------------------------------
(* What the code or a comment says that the code does not do.  A run refutes *)
(* each.                                                                     *)

\* "assert(enqueued_work.size() == jobCount)" (server.cpp:100).
AllEqualisationJobsEnqueued ==
  phase = "queue_equalisation" /\ unpushed = {} =>
    Cardinality(enqueued_work) = Cardinality(Files)

\* "Max interval between heartbeat request and responses before a peer is
\* considered "dead"" (config.hpp:25), while histograms are collected.
DeadWorkerDetected ==
  \A w \in Workers :
    (w \in Registered /\ connection[w] = "Gone" /\ phase = "receive_histograms")
      ~> (w \notin Registered \/ phase = "aborted")

\* "Remove worker from list, and reassign outstanding work" (server.cpp:333): work on
\* the queue is given to a connected worker that has none, unless that one stops.
RequeuedWorkReallocated ==
  \A w \in Workers, f \in Files :
    (/\ phase = "receive_equalised"
     /\ EqualisationJob(f) \in enqueued_work
     /\ w \in Registered /\ worker_queues[w].work = {} /\ connection[w] = "Connected")
      ~> (EqualisationJob(f) \notin enqueued_work \/ connection[w] # "Connected")

\* "Ignore errors sending to disconnected clients" (server.cpp:234): a job that is
\* recorded but could not be sent was for a worker that is gone.
IgnoredErrorsAreOfDisconnected ==
  [][\A w \in Registered' :
       LET recorded == worker_queues'[w].work
           before   == IF w \in Registered THEN worker_queues[w].work ELSE {}
       IN  recorded \ before \subseteq work_to_worker'[w] \/ connection[w] = "Gone"]_vars
=============================================================================
