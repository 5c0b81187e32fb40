------------------------------- MODULE Server -------------------------------
(***************************************************************************)
(* The Exposure server (server.hpp, server.cpp).  serve_work runs in the   *)
(* main thread and waits for a work thread that runs receive_histograms,   *)
(* then for one that runs receive_equalised: the three never act at the    *)
(* same time, and "phase" says where they are.  The communication thread   *)
(* runs beside them.  Every handler runs with worker_mutex held and is one *)
(* action; the pushes of serve_work hold no mutex and are one action each. *)
(*                                                                         *)
(* A job is a std::unique_ptr moved from one container to the next, never  *)
(* copied, so enqueued_work and each worker's queue are sets of jobs; which*)
(* job stands first in a queue is left open.                               *)
(*                                                                         *)
(* A definition named Wrong... is what the one after it would be with a    *)
(* plausible mistake in the code.  No specification uses it: it shows that *)
(* a property notices the mistake.                                         *)
(***************************************************************************)
EXTENDS Network, Naturals

CONSTANTS
  Concurrency,        \* the thread count each worker announces in its HELO
  MAX_WORKER_QUEUE,   \* the server's limit on a worker's queue
  Faults              \* what the surroundings may do, see FaultKind

\* "crash": a worker process may die.  "slow": an answer may take longer than
\* MAX_HEARTBEAT_INTERVAL.  "late_join": a worker may start at any time, not
\* only while histograms are collected.  "late_route": the work socket of a
\* worker may become known to the server after its HELO is handled.
FaultKind == {"crash", "slow", "late_join", "late_route"}

ASSUME ServerAssumption ==
  /\ Concurrency \in [Workers -> Nat]
  /\ MAX_WORKER_QUEUE \in Nat
  /\ Faults \subseteq FaultKind

ASSUME WorkersAssumption == IsFiniteSet(Workers)

VARIABLES
  phase,                          \* where serve_work and its work thread are
  unpushed,                       \* files whose equalisation job is to be pushed
  existing_workers,               \* workers still to be served by the loop at 193
  enqueued_work,                  \* jobs no worker has
  worker_queues,                  \* the registered workers' WorkerData
  workResults,                    \* files with a histogram
  equalised_count,                \* cumulativeWorkSamples
  images,                         \* files whose .tiff has been written
  communication_service_running,  \* the flag the communication thread polls
  communication_service           \* whether that thread is still there

serverVars == <<phase, unpushed, existing_workers, enqueued_work, worker_queues,
                workResults, equalised_count, images,
                communication_service_running, communication_service>>

\* The variables main's phases alone assign.
stageVars == <<unpushed, existing_workers, workResults, equalised_count, images,
               communication_service_running, communication_service>>

Phase == {"receive_histograms", "queue_equalisation", "start_equalising",
          "serve_existing", "receive_equalised", "send_heartbeats",
          "dismiss_workers", "stop_communication", "wait_communication",
          "exited", "aborted"}

\* WorkerData; request_overdue says that more than MAX_HEARTBEAT_INTERVAL has
\* passed since last_heartbeat_request.
WorkerData == [work : SUBSET Jobs, heartbeat_reply_received : BOOLEAN,
               request_overdue : BOOLEAN, concurrency : Nat]

ServerTypeOK ==
  /\ phase \in Phase
  /\ unpushed \in SUBSET Files
  /\ existing_workers \in SUBSET Workers
  /\ enqueued_work \in SUBSET Jobs
  /\ DOMAIN worker_queues \subseteq Workers
  /\ worker_queues \in [DOMAIN worker_queues -> WorkerData]
  /\ workResults \in SUBSET Files
  /\ equalised_count \in Nat
  /\ images \in SUBSET Files
  /\ communication_service_running \in BOOLEAN
  /\ communication_service \in {"running", "stopped"}

\* serve_work up to the start of receive_histograms.
ServerInit ==
  /\ phase = "receive_histograms"
  /\ unpushed = {}
  /\ existing_workers = {}
  /\ enqueued_work = {HistogramJob(f) : f \in Files}
  /\ worker_queues = [w \in {} |-> {}]
  /\ workResults = {}
  /\ equalised_count = 0
  /\ images = {}
  /\ communication_service_running = TRUE
  /\ communication_service = "running"

-----------------------------------------------------------------------------
(* transmit_work *)

Minimum(a, b) == IF a < b THEN a ELSE b

WrongRoom(data) ==    \* <= in the place of <
  LET held == Cardinality(data.work)
  IN  Minimum(IF held <= data.concurrency THEN data.concurrency - held + 1 ELSE 0,
              Cardinality(enqueued_work))

\* How many more jobs the loop of transmit_work moves to a worker's queue.
Room(data) ==
  LET held == Cardinality(data.work)
  IN  Minimum(IF held < data.concurrency THEN data.concurrency - held ELSE 0,
              Cardinality(enqueued_work))

\* The jobs transmit_work may take from the front of enqueued_work.
Batches(data) == {jobs \in SUBSET enqueued_work : Cardinality(jobs) = Room(data)}

WrongTransmitWork(w, data, batch) ==    \* front() without pop()
  /\ enqueued_work' = enqueued_work
  /\ worker_queues' = [v \in DOMAIN worker_queues \cup {w} |->
                         IF v = w THEN [data EXCEPT !.work = @ \cup batch]
                                  ELSE worker_queues[v]]
  /\ SendJobs(w, batch)

WrongRecord(w, data, batch) ==          \* no push_back() to the worker's queue
  /\ enqueued_work' = enqueued_work \ batch
  /\ worker_queues' = [v \in DOMAIN worker_queues \cup {w} |->
                         IF v = w THEN data ELSE worker_queues[v]]
  /\ SendJobs(w, batch)

\* transmit_work to w, whose entry of worker_queues is data by then.  The job is
\* recorded as the worker's whether or not the message could be sent.
TransmitWork(w, data, batch) ==
  /\ enqueued_work' = enqueued_work \ batch
  /\ worker_queues' = [v \in DOMAIN worker_queues \cup {w} |->
                         IF v = w THEN [data EXCEPT !.work = @ \cup batch]
                                  ELSE worker_queues[v]]
  /\ SendJobs(w, batch)

-----------------------------------------------------------------------------
(* The work thread: receive_histograms *)

WrongMoreHistograms == Cardinality(workResults) + 1 < Cardinality(Files)

\* The condition of the loop in receive_histograms.
MoreHistograms == Cardinality(workResults) < Cardinality(Files)

\* work_socket.receive of result r.
ReceiveWork(w, r) ==
  /\ r \in work_to_server[w]
  /\ work_to_server' = [work_to_server EXCEPT ![w] = @ \ {r}]

WrongErase(w, r) ==                     \* nothing erased
  \E job \in {j \in worker_queues[w].work : Matches(j, r)} :
    \E batch \in Batches(worker_queues[w]) : TransmitWork(w, worker_queues[w], batch)

WrongCompleteJob(w, r) ==               \* no transmit_work
  \E job \in {j \in worker_queues[w].work : Matches(j, r)} :
    /\ worker_queues' = [worker_queues EXCEPT ![w].work = @ \ {job}]
    /\ UNCHANGED <<enqueued_work, work_to_worker>>

\* The end of both visit_*_result: erase the job the result answers from its
\* sender's queue, then give the sender more work.
CompleteJob(w, r) ==
  \E job \in {j \in worker_queues[w].work : Matches(j, r)} :
    LET data == [worker_queues[w] EXCEPT !.work = @ \ {job}]
    IN  \E batch \in Batches(data) : TransmitWork(w, data, batch)

\* One round of receive_histograms that receives r from w.  The result of an
\* unregistered worker, or of another type, is dropped.
ReceiveHistogramResult(w, r) ==
  /\ phase = "receive_histograms"
  /\ MoreHistograms
  /\ ReceiveWork(w, r)
  /\ IF w \in DOMAIN worker_queues /\ r.type = "HISTOGRAM"
     THEN /\ workResults' = workResults \cup {r.filename}
          /\ CompleteJob(w, r)
     ELSE UNCHANGED <<workResults, enqueued_work, worker_queues, work_to_worker>>
  /\ UNCHANGED <<phase, unpushed, existing_workers, equalised_count, images,
                 communication_service_running, communication_service,
                 routes, bye_to_worker, comm_to_worker, comm_to_server>>

\* receive_histograms returns and serve_work checks assert(enqueued_work.empty()).
HistogramsComplete ==
  /\ phase = "receive_histograms"
  /\ ~ MoreHistograms
  /\ phase' = IF enqueued_work = {} THEN "queue_equalisation" ELSE "aborted"
  /\ unpushed' = Files
  /\ UNCHANGED <<existing_workers, enqueued_work, worker_queues, workResults,
                 equalised_count, images, communication_service_running,
                 communication_service, networkVars>>

-----------------------------------------------------------------------------
(* The main thread, between the two work threads *)

\* serve_work pushes one equalisation job.  No mutex is held.
PushEqualisationJob(f) ==
  /\ phase = "queue_equalisation"
  /\ f \in unpushed
  /\ unpushed' = unpushed \ {f}
  /\ enqueued_work' = enqueued_work \cup {EqualisationJob(f)}
  /\ UNCHANGED <<phase, existing_workers, worker_queues, workResults,
                 equalised_count, images, communication_service_running,
                 communication_service, networkVars>>

\* All pushed: assert(enqueued_work.size() == jobCount), then receive_equalised
\* is started in a thread of its own.
StartEqualising ==
  /\ phase = "queue_equalisation"
  /\ unpushed = {}
  /\ phase' = IF Cardinality(enqueued_work) = Cardinality(Files)
              THEN "start_equalising" ELSE "aborted"
  /\ UNCHANGED <<enqueued_work, worker_queues, stageVars, networkVars>>

-----------------------------------------------------------------------------
(* The work thread: receive_equalised *)

\* receive_equalised takes worker_mutex for the loop over worker_queues.
ServeExistingStarts ==
  /\ phase = "start_equalising"
  /\ phase' = "serve_existing"
  /\ existing_workers' = DOMAIN worker_queues
  /\ UNCHANGED <<unpushed, enqueued_work, worker_queues, workResults,
                 equalised_count, images, communication_service_running,
                 communication_service, networkVars>>

\* One round of that loop.
ServeExisting(w) ==
  /\ phase = "serve_existing"
  /\ w \in existing_workers
  /\ enqueued_work # {}
  /\ existing_workers' = existing_workers \ {w}
  /\ \E batch \in Batches(worker_queues[w]) :
       TransmitWork(w, worker_queues[w], batch)
  /\ UNCHANGED <<phase, unpushed, workResults, equalised_count, images,
                 communication_service_running, communication_service, routes,
                 bye_to_worker, work_to_server, comm_to_worker, comm_to_server>>

\* The loop ends, or breaks since no work is left, and worker_mutex is released.
ExistingServed ==
  /\ phase = "serve_existing"
  /\ existing_workers = {} \/ enqueued_work = {}
  /\ phase' = "receive_equalised"
  /\ existing_workers' = {}
  /\ UNCHANGED <<unpushed, enqueued_work, worker_queues, workResults,
                 equalised_count, images, communication_service_running,
                 communication_service, networkVars>>

WrongCountResult(w, r) ==               \* counted before the sender is looked up
  equalised_count' = IF r.type = "EQUALISATION" THEN equalised_count + 1
                                                ELSE equalised_count

\* Only a registered sender's result counts.
CountResult(w, r) ==
  equalised_count' = IF r.type = "EQUALISATION" /\ w \in DOMAIN worker_queues
                     THEN equalised_count + 1 ELSE equalised_count

\* A round of receive_equalised that receives r from w.  The image is written
\* before the sender is looked up.
ReceiveEqualisedResult(w, r) ==
  /\ phase = "receive_equalised"
  /\ ReceiveWork(w, r)
  /\ phase' = "send_heartbeats"
  /\ images' = IF r.type = "EQUALISATION" THEN images \cup {r.filename} ELSE images
  /\ IF w \in DOMAIN worker_queues /\ r.type = "EQUALISATION"
     THEN CompleteJob(w, r)
     ELSE UNCHANGED <<enqueued_work, worker_queues, work_to_worker>>
  /\ CountResult(w, r)
  /\ UNCHANGED <<unpushed, existing_workers, workResults,
                 communication_service_running, communication_service, routes,
                 bye_to_worker, comm_to_worker, comm_to_server>>

\* A round in which nothing arrives before the receive timeout.
ReceiveTimeout ==
  /\ phase = "receive_equalised"
  /\ "slow" \in Faults \/ \A w \in Workers : work_to_server[w] = {}
  /\ phase' = "send_heartbeats"
  /\ UNCHANGED <<enqueued_work, worker_queues, stageVars, networkVars>>

WrongUnanswered ==                      \* < in the place of >
  {w \in DOMAIN worker_queues :
     ~ worker_queues[w].heartbeat_reply_received /\ ~ worker_queues[w].request_overdue}

Unanswered ==
  {w \in DOMAIN worker_queues :
     ~ worker_queues[w].heartbeat_reply_received /\ worker_queues[w].request_overdue}

WrongAnswered ==                        \* the last reply is not waited for
  {w \in DOMAIN worker_queues : worker_queues[w].request_overdue}

Answered ==
  {w \in DOMAIN worker_queues :
     worker_queues[w].heartbeat_reply_received /\ worker_queues[w].request_overdue}

WrongRequested(data) ==                 \* last_heartbeat_request is not set
  [data EXCEPT !.heartbeat_reply_received = FALSE]

\* The WorkerData of a worker just sent a request.
Requested(data) ==
  [data EXCEPT !.heartbeat_reply_received = FALSE, !.request_overdue = FALSE]

WrongReleasedWork(ws) == {}             \* erased with the worker's entry

\* The work dismiss_worker moves back to enqueued_work.
ReleasedWork(ws) == UNION {worker_queues[w].work : w \in ws}

WrongMoreImages == equalised_count + 1 < Cardinality(Files)

\* The condition of the loop in receive_equalised.
MoreImages == equalised_count < Cardinality(Files)

\* send_heartbeats: request a heartbeat of each worker that answered the last
\* one, and dismiss_worker each one that did not: its work is enqueued again,
\* its entry erased, and it is told BYE.  Then the loop condition is tested.
SendHeartbeats ==
  /\ phase = "send_heartbeats"
  /\ enqueued_work' = enqueued_work \cup ReleasedWork(Unanswered)
  /\ worker_queues' =
       [w \in DOMAIN worker_queues \ Unanswered |->
          IF w \in Answered THEN Requested(worker_queues[w]) ELSE worker_queues[w]]
  /\ SendCommands(Answered, <<"HEARTBEAT_REQUEST">>)
  /\ SendByes(Unanswered)
  /\ phase' = IF MoreImages THEN "receive_equalised" ELSE "dismiss_workers"
  /\ UNCHANGED <<stageVars, routes, work_to_worker, work_to_server, comm_to_server>>

-----------------------------------------------------------------------------
(* The main thread, at the end *)

WrongDismissWorkers ==                  \* cleared before the loop sends BYE
  /\ phase = "dismiss_workers"
  /\ worker_queues' = [w \in {} |-> {}]
  /\ phase' = "stop_communication"
  /\ UNCHANGED <<enqueued_work, stageVars, networkVars>>

\* dismiss_workers
DismissWorkers ==
  /\ phase = "dismiss_workers"
  /\ SendByes(DOMAIN worker_queues)
  /\ worker_queues' = [w \in {} |-> {}]
  /\ phase' = "stop_communication"
  /\ UNCHANGED <<enqueued_work, stageVars, routes, work_to_worker,
                 work_to_server, comm_to_worker, comm_to_server>>

StopCommunication ==
  /\ phase = "stop_communication"
  /\ communication_service_running' = FALSE
  /\ phase' = "wait_communication"
  /\ UNCHANGED <<unpushed, existing_workers, enqueued_work, worker_queues,
                 workResults, equalised_count, images, communication_service,
                 networkVars>>

\* communicationServiceJob.wait() returns, and then serve_work.
Exit ==
  /\ phase = "wait_communication"
  /\ communication_service = "stopped"
  /\ phase' = "exited"
  /\ UNCHANGED <<enqueued_work, worker_queues, stageVars, networkVars>>

-----------------------------------------------------------------------------
(* The communication thread: run_communication_service *)

\* The thread reads a command of w and can take worker_mutex, which the work
\* thread holds over the whole loop of "serve_existing".
ReceiveCommand(w, command) ==
  /\ communication_service = "running"
  /\ phase \notin {"serve_existing", "aborted"}
  /\ comm_to_server[w] # <<>>
  /\ Head(comm_to_server[w]) = command
  /\ comm_to_server' = [comm_to_server EXCEPT ![w] = Tail(@)]

\* The WorkerData visit_helo inserts; insert() keeps an entry already there.
Registration(w) ==
  IF w \in DOMAIN worker_queues
  THEN worker_queues[w]
  ELSE [work |-> {}, heartbeat_reply_received |-> FALSE, request_overdue |-> FALSE,
        concurrency |-> Minimum(Concurrency[w], MAX_WORKER_QUEUE)]

WrongWelcome == <<"HEARTBEAT_REQUEST", "EHLO">>

\* What visit_helo answers.
Welcome == <<"EHLO", "HEARTBEAT_REQUEST">>

\* ServerCommunicationVisitor::visit_helo
VisitHelo(w) ==
  /\ ReceiveCommand(w, "HELO")
  /\ SendCommands({w}, Welcome)
  /\ \E batch \in Batches(Registration(w)) : TransmitWork(w, Registration(w), batch)
  /\ UNCHANGED <<phase, stageVars, routes, bye_to_worker, work_to_server>>

\* ServerCommunicationVisitor::visit_heartbeat of a reply
VisitHeartbeatReply(w) ==
  /\ ReceiveCommand(w, "HEARTBEAT_REPLY")
  /\ worker_queues' =
       [v \in DOMAIN worker_queues |->
          IF v = w THEN [worker_queues[v] EXCEPT !.heartbeat_reply_received = TRUE]
                   ELSE worker_queues[v]]
  /\ UNCHANGED <<phase, enqueued_work, stageVars, routes, work_to_worker,
                 bye_to_worker, work_to_server, comm_to_worker>>

\* receive() times out and the thread finds the flag lowered.
CommunicationStops ==
  /\ communication_service = "running"
  /\ ~ communication_service_running
  /\ "slow" \in Faults \/ \A w \in Workers : comm_to_server[w] = <<>>
  /\ communication_service' = "stopped"
  /\ UNCHANGED <<phase, unpushed, existing_workers, enqueued_work, worker_queues,
                 workResults, equalised_count, images,
                 communication_service_running, networkVars>>

-----------------------------------------------------------------------------
\* The clock: MAX_HEARTBEAT_INTERVAL passes since w was last sent a request.
\* Only with "slow" does a running worker's reply take longer than that.
IntervalPasses(w) ==
  /\ phase \notin {"exited", "aborted"}
  /\ w \in DOMAIN worker_queues
  /\ ~ worker_queues[w].request_overdue
  /\ \/ "slow" \in Faults
     \/ worker_queues[w].heartbeat_reply_received
     \/ "communication" \notin routes[w]
  /\ worker_queues' = [worker_queues EXCEPT ![w].request_overdue = TRUE]
  /\ UNCHANGED <<phase, enqueued_work, stageVars, networkVars>>

\* The steps of the main thread and of the work thread it waits for.
WorkStep ==
  \/ \E w \in Workers, r \in Results : ReceiveHistogramResult(w, r)
  \/ HistogramsComplete
  \/ \E f \in Files : PushEqualisationJob(f)
  \/ StartEqualising
  \/ ServeExistingStarts
  \/ \E w \in Workers : ServeExisting(w)
  \/ ExistingServed
  \/ \E w \in Workers, r \in Results : ReceiveEqualisedResult(w, r)
  \/ ReceiveTimeout
  \/ SendHeartbeats
  \/ DismissWorkers
  \/ StopCommunication
  \/ Exit

ServerNext ==
  \/ WorkStep
  \/ \E w \in Workers : VisitHelo(w) \/ VisitHeartbeatReply(w) \/ IntervalPasses(w)
  \/ CommunicationStops
=============================================================================
