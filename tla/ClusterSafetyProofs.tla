------------------------- MODULE ClusterSafetyProofs -------------------------
(***************************************************************************)
(* Proofs about Cluster, for every set of workers and files, every queue   *)
(* limit and every choice of faults: first its types, then that the server *)
(* neither loses nor duplicates a job (IInv, and the safety properties     *)
(* that follow from it).                                                   *)
(***************************************************************************)
EXTENDS Cluster, FiniteSetTheorems, TLAPS

-----------------------------------------------------------------------------
(* Type correctness *)

\* Minimum of two naturals is a natural.
LEMMA MinimumNat ==
  ASSUME NEW a \in Nat, NEW b \in Nat
  PROVE  Minimum(a, b) \in Nat
  BY DEF Minimum

\* transmit_work keeps the types of what it changes.
LEMMA TransmitWorkType ==
  ASSUME TypeOK, NEW w \in Workers, NEW data \in WorkerData,
         NEW batch \in SUBSET enqueued_work, TransmitWork(w, data, batch)
  PROVE  /\ enqueued_work' \in SUBSET Jobs
         /\ DOMAIN worker_queues' \subseteq Workers
         /\ worker_queues' \in [DOMAIN worker_queues' -> WorkerData]
         /\ work_to_worker' \in [Workers -> SUBSET Jobs]
<1>1. batch \in SUBSET Jobs
  BY DEF TypeOK, ServerTypeOK
<1>2. [data EXCEPT !.work = @ \cup batch] \in WorkerData
  BY <1>1 DEF WorkerData
<1>3. DOMAIN worker_queues' = DOMAIN worker_queues \cup {w}
  BY DEF TransmitWork
<1>4. worker_queues' \in [DOMAIN worker_queues \cup {w} -> WorkerData]
  BY <1>2 DEF TransmitWork, TypeOK, ServerTypeOK
<1>5. work_to_worker' \in [Workers -> SUBSET Jobs]
  BY <1>1 DEF TransmitWork, SendJobs, TypeOK, NetworkTypeOK
<1> QED
  BY <1>3, <1>4, <1>5 DEF TransmitWork, TypeOK, ServerTypeOK

\* So does the end of visit_histogram_result and of visit_equalisation_result.
LEMMA CompleteJobType ==
  ASSUME TypeOK, NEW w \in DOMAIN worker_queues, NEW r \in Results,
         CompleteJob(w, r)
  PROVE  /\ enqueued_work' \in SUBSET Jobs
         /\ DOMAIN worker_queues' \subseteq Workers
         /\ worker_queues' \in [DOMAIN worker_queues' -> WorkerData]
         /\ work_to_worker' \in [Workers -> SUBSET Jobs]
<1>1. w \in Workers /\ worker_queues[w] \in WorkerData
  BY DEF TypeOK, ServerTypeOK
<1> DEFINE Erased(job) == [worker_queues[w] EXCEPT !.work = @ \ {job}]
<1>2. PICK job \in worker_queues[w].work :
        \E batch \in Batches(Erased(job)) : TransmitWork(w, Erased(job), batch)
  BY DEF CompleteJob
<1>3. Erased(job) \in WorkerData
  BY <1>1 DEF WorkerData
<1>4. PICK batch \in Batches(Erased(job)) : TransmitWork(w, Erased(job), batch)
  BY <1>2
<1>5. batch \in SUBSET enqueued_work
  BY <1>4 DEF Batches
<1> HIDE DEF Erased
<1> QED
  BY <1>1, <1>3, <1>4, <1>5, TransmitWorkType

\* Commands sent to workers are of the type of their channels.
LEMMA SendCommandsType ==
  ASSUME TypeOK, NEW ws, NEW commands \in Seq(ToWorkerCommand),
         SendCommands(ws, commands)
  PROVE  comm_to_worker' \in [Workers -> Seq(ToWorkerCommand)]
<1>1. \A w \in Workers : comm_to_worker[w] \o commands \in Seq(ToWorkerCommand)
  BY DEF TypeOK, NetworkTypeOK
<1> QED
  BY <1>1 DEF SendCommands, TypeOK, NetworkTypeOK

\* visit_helo inserts an entry of the right type.
LEMMA RegistrationType ==
  ASSUME TypeOK, NEW w \in Workers
  PROVE  Registration(w) \in WorkerData
<1>1. Minimum(Concurrency[w], MAX_WORKER_QUEUE) \in Nat
  BY MinimumNat, ServerAssumption
<1> QED
  BY <1>1 DEF Registration, WorkerData, TypeOK, ServerTypeOK

\* Each step of the main thread and its work thread keeps the types.
LEMMA WorkStepType ==
  ASSUME TypeOK, ExistingRegistered, WorkStep, UNCHANGED workerVars
  PROVE  TypeOK'
<1> USE DEF TypeOK, NetworkTypeOK, ServerTypeOK, WorkerTypeOK, workerVars, Phase
<1>1. CASE \E w \in Workers, r \in Results : ReceiveHistogramResult(w, r)
  <2>1. PICK w \in Workers, r \in Results : ReceiveHistogramResult(w, r)
    BY <1>1
  <2>2. /\ work_to_server' \in [Workers -> SUBSET Results]
        /\ workResults' \in SUBSET Files
    BY <2>1 DEF ReceiveHistogramResult, ReceiveWork, Results
  <2>3. /\ enqueued_work' \in SUBSET Jobs
        /\ DOMAIN worker_queues' \subseteq Workers
        /\ worker_queues' \in [DOMAIN worker_queues' -> WorkerData]
        /\ work_to_worker' \in [Workers -> SUBSET Jobs]
    <3>1. CASE w \in DOMAIN worker_queues /\ r.type = "HISTOGRAM"
      BY <2>1, <3>1, CompleteJobType DEF ReceiveHistogramResult
    <3>2. CASE ~ (w \in DOMAIN worker_queues /\ r.type = "HISTOGRAM")
      BY <2>1, <3>2 DEF ReceiveHistogramResult
    <3> QED
      BY <3>1, <3>2
  <2> QED
    BY <2>1, <2>2, <2>3 DEF ReceiveHistogramResult
<1>2. CASE HistogramsComplete
  BY <1>2 DEF HistogramsComplete, networkVars
<1>3. CASE \E f \in Files : PushEqualisationJob(f)
  BY <1>3 DEF PushEqualisationJob, networkVars, EqualisationJob, Jobs, JobType
<1>4. CASE StartEqualising
  BY <1>4 DEF StartEqualising, stageVars, networkVars
<1>5. CASE ServeExistingStarts
  BY <1>5 DEF ServeExistingStarts, networkVars
<1>6. CASE \E w \in Workers : ServeExisting(w)
  <2>1. PICK w \in Workers : ServeExisting(w)
    BY <1>6
  <2>2. PICK batch \in Batches(worker_queues[w]) :
          TransmitWork(w, worker_queues[w], batch)
    BY <2>1 DEF ServeExisting
  <2>3. w \in DOMAIN worker_queues
    BY <2>1 DEF ServeExisting, ExistingRegistered, Registered
  <2> QED
    BY <2>1, <2>2, <2>3, TransmitWorkType DEF ServeExisting, Batches
<1>7. CASE ExistingServed
  BY <1>7 DEF ExistingServed, networkVars
<1>8. CASE \E w \in Workers, r \in Results : ReceiveEqualisedResult(w, r)
  <2>1. PICK w \in Workers, r \in Results : ReceiveEqualisedResult(w, r)
    BY <1>8
  <2>2. /\ work_to_server' \in [Workers -> SUBSET Results]
        /\ images' \in SUBSET Files
        /\ equalised_count' \in Nat
    BY <2>1 DEF ReceiveEqualisedResult, ReceiveWork, CountResult, Results
  <2>3. /\ enqueued_work' \in SUBSET Jobs
        /\ DOMAIN worker_queues' \subseteq Workers
        /\ worker_queues' \in [DOMAIN worker_queues' -> WorkerData]
        /\ work_to_worker' \in [Workers -> SUBSET Jobs]
    <3>1. CASE w \in DOMAIN worker_queues /\ r.type = "EQUALISATION"
      BY <2>1, <3>1, CompleteJobType DEF ReceiveEqualisedResult
    <3>2. CASE ~ (w \in DOMAIN worker_queues /\ r.type = "EQUALISATION")
      BY <2>1, <3>2 DEF ReceiveEqualisedResult
    <3> QED
      BY <3>1, <3>2
  <2> QED
    BY <2>1, <2>2, <2>3 DEF ReceiveEqualisedResult
<1>9. CASE ReceiveTimeout
  BY <1>9 DEF ReceiveTimeout, stageVars, networkVars
<1>10. CASE SendHeartbeats
  <2>1. \A w \in DOMAIN worker_queues : Requested(worker_queues[w]) \in WorkerData
    BY DEF Requested, WorkerData
  <2>2. ReleasedWork(Unanswered) \in SUBSET Jobs
    BY DEF ReleasedWork, Unanswered, WorkerData
  <2>3. <<"HEARTBEAT_REQUEST">> \in Seq(ToWorkerCommand)
    BY DEF ToWorkerCommand
  <2>4. comm_to_worker' \in [Workers -> Seq(ToWorkerCommand)]
    BY <1>10, <2>3, SendCommandsType DEF SendHeartbeats
  <2>5. bye_to_worker' \in SUBSET Workers
    BY <1>10 DEF SendHeartbeats, SendByes, Unanswered
  <2>6. /\ DOMAIN worker_queues' \subseteq Workers
        /\ worker_queues' \in [DOMAIN worker_queues' -> WorkerData]
    BY <1>10, <2>1 DEF SendHeartbeats
  <2> QED
    BY <1>10, <2>2, <2>4, <2>5, <2>6 DEF SendHeartbeats, stageVars
<1>11. CASE DismissWorkers
  BY <1>11 DEF DismissWorkers, SendByes, stageVars
<1>12. CASE StopCommunication
  BY <1>12 DEF StopCommunication, networkVars
<1>13. CASE Exit
  BY <1>13 DEF Exit, stageVars, networkVars
<1> QED
  BY <1>1, <1>2, <1>3, <1>4, <1>5, <1>6, <1>7, <1>8, <1>9, <1>10, <1>11, <1>12,
     <1>13 DEF WorkStep

\* Each step of the communication thread and of the clock keeps the types.
LEMMA CommunicationStepType ==
  ASSUME TypeOK, UNCHANGED workerVars, NEW w \in Workers,
         \/ VisitHelo(w)
         \/ VisitHeartbeatReply(w)
         \/ IntervalPasses(w)
         \/ CommunicationStops
  PROVE  TypeOK'
<1> USE DEF TypeOK, NetworkTypeOK, ServerTypeOK, WorkerTypeOK, workerVars
<1>1. CASE VisitHelo(w)
  <2>1. Welcome \in Seq(ToWorkerCommand)
    BY DEF Welcome, ToWorkerCommand
  <2>2. comm_to_worker' \in [Workers -> Seq(ToWorkerCommand)]
    BY <1>1, <2>1, SendCommandsType DEF VisitHelo
  <2>3. comm_to_server' \in [Workers -> Seq(ToServerCommand)]
    BY <1>1 DEF VisitHelo, ReceiveCommand
  <2>4. PICK batch \in Batches(Registration(w)) :
          TransmitWork(w, Registration(w), batch)
    BY <1>1 DEF VisitHelo
  <2>5. batch \in SUBSET enqueued_work
    BY <2>4 DEF Batches
  <2>6. /\ enqueued_work' \in SUBSET Jobs
        /\ DOMAIN worker_queues' \subseteq Workers
        /\ worker_queues' \in [DOMAIN worker_queues' -> WorkerData]
        /\ work_to_worker' \in [Workers -> SUBSET Jobs]
    BY <2>4, <2>5, TransmitWorkType, RegistrationType
  <2> QED
    BY <1>1, <2>2, <2>3, <2>6 DEF VisitHelo, stageVars
<1>2. CASE VisitHeartbeatReply(w)
  <2>1. comm_to_server' \in [Workers -> Seq(ToServerCommand)]
    BY <1>2 DEF VisitHeartbeatReply, ReceiveCommand
  <2>2. /\ DOMAIN worker_queues' \subseteq Workers
        /\ worker_queues' \in [DOMAIN worker_queues' -> WorkerData]
    BY <1>2 DEF VisitHeartbeatReply, WorkerData
  <2> QED
    BY <1>2, <2>1, <2>2 DEF VisitHeartbeatReply, stageVars
<1>3. CASE IntervalPasses(w)
  <2>1. /\ DOMAIN worker_queues' \subseteq Workers
        /\ worker_queues' \in [DOMAIN worker_queues' -> WorkerData]
    BY <1>3 DEF IntervalPasses, WorkerData
  <2> QED
    BY <1>3, <2>1 DEF IntervalPasses, stageVars, networkVars
<1>4. CASE CommunicationStops
  BY <1>4 DEF CommunicationStops, networkVars
<1> QED
  BY <1>1, <1>2, <1>3, <1>4

\* Closing a worker's sockets keeps the types of the channels.
LEMMA CloseSocketsType ==
  ASSUME TypeOK, NEW w \in Workers, NEW kept \in SUBSET Results,
         NEW said \in Seq(ToServerCommand), CloseSockets(w, kept, said)
  PROVE  NetworkTypeOK'
  BY DEF CloseSockets, TypeOK, NetworkTypeOK

\* Each step of a worker keeps the types.
LEMMA WorkerStepType ==
  ASSUME TypeOK, NEW w \in Workers,
         StartWorker(w) \/ WorkerStep(w) \/ WorkerFault(w) \/ RouteFound(w)
  PROVE  TypeOK'
<1> USE DEF TypeOK, NetworkTypeOK, WorkerTypeOK, ConnectionState
<1>1. CASE StartWorker(w)
  <2>1. ServerTypeOK'
    BY <1>1 DEF StartWorker, ServerTypeOK, serverVars
  <2>2. PICK known \in SUBSET Sockets : SendHelo(w, known)
    BY <1>1 DEF StartWorker, Sockets
  <2>3. <<"HELO">> \in Seq(ToServerCommand)
    BY DEF ToServerCommand
  <2>4. /\ comm_to_server' \in [Workers -> Seq(ToServerCommand)]
        /\ routes' \in [Workers -> SUBSET Sockets]
        /\ connection' \in [Workers -> ConnectionState]
    BY <2>2, <2>3 DEF SendHelo
  <2> QED
    BY <2>1, <2>2, <2>4 DEF SendHelo
<1>2. CASE WorkerStep(w)
  <2>1. ServerTypeOK'
    BY <1>2 DEF WorkerStep, ServerTypeOK, serverVars
  <2>2. CASE VisitEhlo(w)
    BY <2>1, <2>2 DEF VisitEhlo
  <2>3. CASE \E job \in Jobs : VisitJob(w, job)
    BY <2>1, <2>3 DEF VisitJob
  <2>4. CASE VisitBye(w)
    BY <2>1, <2>4 DEF VisitBye
  <2>5. CASE \E job \in Jobs : RunJob(w, job)
    BY <2>1, <2>5 DEF RunJob, ResultOf, Results, Jobs
  <2>6. CASE AnswerHeartbeat(w)
    <3>1. "HEARTBEAT_REPLY" \in ToServerCommand
      BY DEF ToServerCommand
    <3>2. Append(comm_to_server[w], "HEARTBEAT_REPLY") \in Seq(ToServerCommand)
      BY <3>1
    <3> QED
      BY <2>1, <2>6, <3>2 DEF AnswerHeartbeat
  <2>7. CASE Disconnect(w)
    BY <2>1, <2>7, CloseSocketsType DEF Disconnect
  <2> QED
    BY <1>2, <2>2, <2>3, <2>4, <2>5, <2>6, <2>7 DEF WorkerStep
<1>3. CASE WorkerFault(w)
  <2>1. ServerTypeOK'
    BY <1>3 DEF WorkerFault, ServerTypeOK, serverVars
  <2>2. CASE ConnectTimeout(w)
    BY <2>1, <2>2, CloseSocketsType DEF ConnectTimeout
  <2>3. CASE Crash(w)
    <3>1. PICK kept \in SUBSET work_to_server[w], said \in {<<>>, comm_to_server[w]} :
            CloseSockets(w, kept, said)
      BY <2>3 DEF Crash
    <3>2. /\ <<>> \in Seq(ToServerCommand)
          /\ comm_to_server[w] \in Seq(ToServerCommand)
      OBVIOUS
    <3>3. said \in Seq(ToServerCommand)
      BY <3>1, <3>2
    <3>4. NetworkTypeOK'
      BY <3>1, <3>3, CloseSocketsType
    <3> QED
      BY <2>1, <2>3, <3>4 DEF Crash
  <2> QED
    BY <1>3, <2>2, <2>3 DEF WorkerFault
<1>4. CASE RouteFound(w)
  BY <1>4 DEF RouteFound, RouteWork, Sockets, serverVars, workerVars, ServerTypeOK
<1> QED
  BY <1>1, <1>2, <1>3, <1>4

\* The loop of receive_equalised meets registered workers only: between its start
\* and its end nothing is registered or dismissed but by itself.
LEMMA ExistingRegisteredStep ==
  ASSUME TypeOK, ExistingRegistered, [Next]_vars
  PROVE  ExistingRegistered'
<1> USE DEF ExistingRegistered, Registered
<1>1. CASE ServerNext /\ UNCHANGED workerVars
  <2>1. CASE WorkStep
    <3>1. CASE \E w \in Workers, r \in Results :
                 ReceiveHistogramResult(w, r) \/ ReceiveEqualisedResult(w, r)
      BY <3>1 DEF ReceiveHistogramResult, ReceiveEqualisedResult
    <3>2. CASE HistogramsComplete \/ StartEqualising \/ ServeExistingStarts
               \/ ExistingServed \/ ReceiveTimeout
      BY <3>2 DEF HistogramsComplete, StartEqualising, ServeExistingStarts,
                  ExistingServed, ReceiveTimeout, stageVars
    <3>3. CASE \E f \in Files : PushEqualisationJob(f)
      BY <3>3 DEF PushEqualisationJob
    <3>4. CASE \E w \in Workers : ServeExisting(w)
      BY <3>4 DEF ServeExisting, TransmitWork
    <3>5. CASE SendHeartbeats \/ DismissWorkers \/ StopCommunication \/ Exit
      BY <3>5 DEF SendHeartbeats, DismissWorkers, StopCommunication, Exit, stageVars
    <3> QED
      BY <2>1, <3>1, <3>2, <3>3, <3>4, <3>5 DEF WorkStep
  <2>2. CASE \E w \in Workers :
               VisitHelo(w) \/ VisitHeartbeatReply(w) \/ IntervalPasses(w)
    <3>1. PICK w \in Workers :
                 VisitHelo(w) \/ VisitHeartbeatReply(w) \/ IntervalPasses(w)
      BY <2>2
    <3>2. phase' = phase /\ existing_workers' = existing_workers
      BY <3>1 DEF VisitHelo, VisitHeartbeatReply, IntervalPasses, stageVars
    <3>3. DOMAIN worker_queues \subseteq DOMAIN worker_queues'
      BY <3>1 DEF VisitHelo, VisitHeartbeatReply, IntervalPasses, TransmitWork
    <3> QED
      BY <3>2, <3>3
  <2>3. CASE CommunicationStops
    BY <2>3 DEF CommunicationStops
  <2> QED
    BY <1>1, <2>1, <2>2, <2>3 DEF ServerNext
<1>2. CASE \E w \in Workers :
             StartWorker(w) \/ WorkerStep(w) \/ WorkerFault(w) \/ RouteFound(w)
  BY <1>2 DEF StartWorker, WorkerStep, WorkerFault, RouteFound, serverVars
<1>3. CASE UNCHANGED vars
  BY <1>3 DEF vars, serverVars
<1> QED
  BY <1>1, <1>2, <1>3 DEF Next

\* The types alone are not inductive: receive_equalised would look up a worker
\* that is not registered.
TypeInv == TypeOK /\ ExistingRegistered

LEMMA TypeInvInit == Init => TypeInv
<1> SUFFICES ASSUME Init PROVE TypeInv
  OBVIOUS
<1>1. NetworkTypeOK
  BY DEF Init, NetworkInit, NetworkTypeOK
<1>2. ServerTypeOK
  BY DEF Init, ServerInit, ServerTypeOK, Phase, HistogramJob, Jobs, JobType
<1>3. WorkerTypeOK
  BY DEF Init, WorkerInit, WorkerTypeOK, ConnectionState
<1>4. ExistingRegistered
  BY DEF Init, ServerInit, ExistingRegistered
<1> QED
  BY <1>1, <1>2, <1>3, <1>4 DEF TypeInv, TypeOK

LEMMA TypeInvStep == TypeInv /\ [Next]_vars => TypeInv'
<1> SUFFICES ASSUME TypeOK, ExistingRegistered, [Next]_vars PROVE TypeInv'
  BY DEF TypeInv
<1>1. CASE ServerNext /\ UNCHANGED workerVars
  <2>1. CASE WorkStep
    BY <1>1, <2>1, WorkStepType, ExistingRegisteredStep DEF TypeInv
  <2>2. CASE \E w \in Workers :
               VisitHelo(w) \/ VisitHeartbeatReply(w) \/ IntervalPasses(w)
    BY <1>1, <2>2, CommunicationStepType, ExistingRegisteredStep DEF TypeInv
  <2>3. CASE CommunicationStops
    <3>1. TypeOK'
      BY <1>1, <2>3 DEF CommunicationStops, TypeOK, NetworkTypeOK, ServerTypeOK,
                        WorkerTypeOK, networkVars, workerVars
    <3> QED
      BY <3>1, ExistingRegisteredStep DEF TypeInv
  <2> QED
    BY <1>1, <2>1, <2>2, <2>3 DEF ServerNext
<1>2. CASE \E w \in Workers :
             StartWorker(w) \/ WorkerStep(w) \/ WorkerFault(w) \/ RouteFound(w)
  BY <1>2, WorkerStepType, ExistingRegisteredStep DEF TypeInv
<1>3. CASE UNCHANGED vars
  BY <1>3, ExistingRegisteredStep
     DEF vars, networkVars, serverVars, workerVars, TypeOK, NetworkTypeOK,
         ServerTypeOK, WorkerTypeOK, TypeInv
<1> QED
  BY <1>1, <1>2, <1>3 DEF Next

\* Every variable of the cluster always has the type its declaration gives it.
THEOREM TypeCorrect == Spec => []TypeOK
<1>1. TypeInv => TypeOK
  BY DEF TypeInv
<1> QED
  BY TypeInvInit, TypeInvStep, <1>1, PTL DEF Spec

-----------------------------------------------------------------------------
(* What the steps of serve_work share *)

\* serve_work stays in its stage, and pushes no more than it does in its phase.
SameStage ==
  /\ phase' = "receive_histograms" <=> phase = "receive_histograms"
  /\ phase' # "queue_equalisation" => unpushed = {}
  /\ UNCHANGED unpushed

-----------------------------------------------------------------------------
(* Jobs, results and transmit_work *)

\* A job is known by its type and its file.
LEMMA JobEquality ==
  /\ \A j, k \in Jobs : j.type = k.type /\ j.filename = k.filename => j = k
  /\ \A f \in Files : /\ HistogramJob(f) \in Jobs
                      /\ EqualisationJob(f) \in Jobs
                      /\ HistogramJob(f).type = "HISTOGRAM"
                      /\ EqualisationJob(f).type = "EQUALISATION"
                      /\ HistogramJob(f).filename = f
                      /\ EqualisationJob(f).filename = f
  /\ Results = Jobs
  /\ \A j \in Jobs : ResultOf(j) = j
  /\ \A j, r \in Jobs : Matches(j, r) <=> j = r
<1>1. \A j, k \in Jobs : j.type = k.type /\ j.filename = k.filename => j = k
  BY DEF Jobs
<1>2. \A f \in Files : /\ HistogramJob(f) \in Jobs
                       /\ EqualisationJob(f) \in Jobs
                       /\ HistogramJob(f).type = "HISTOGRAM"
                       /\ EqualisationJob(f).type = "EQUALISATION"
                       /\ HistogramJob(f).filename = f
                       /\ EqualisationJob(f).filename = f
  BY DEF Jobs, JobType, HistogramJob, EqualisationJob
<1>3. Results = Jobs
  BY DEF Results, Jobs
<1>4. \A j \in Jobs : ResultOf(j) = j
  BY DEF Jobs, ResultOf
<1>5. \A j, r \in Jobs : Matches(j, r) <=> j = r
  BY <1>1 DEF Matches
<1> QED
  BY <1>1, <1>2, <1>3, <1>4, <1>5

\* The job a stage has for a file.
LEMMA StageJobFacts ==
  \A f \in Files : /\ StageJob(f) \in Jobs
                   /\ StageJob(f).type = StageType
                   /\ StageJob(f).filename = f
  BY JobEquality DEF StageJob, StageType

\* What transmit_work does to the queues: the batch moves from enqueued_work to w's
\* queue, and perhaps to the channel to w.
LEMMA TransmitWorkEffect ==
  ASSUME TypeOK, NEW w \in Workers, NEW data \in WorkerData,
         NEW batch \in SUBSET enqueued_work, TransmitWork(w, data, batch)
  PROVE  /\ Registered' = Registered \cup {w}
         /\ enqueued_work' = enqueued_work \ batch
         /\ Queue(w)' = data.work \cup batch
         /\ \A v \in Workers : v # w => Queue(v)' = Queue(v)
         /\ \A v \in Registered \ {w} : worker_queues'[v] = worker_queues[v]
         /\ work_to_worker'[w] \subseteq work_to_worker[w] \cup batch
         /\ \A v \in Workers : v # w => work_to_worker'[v] = work_to_worker[v]
<1>1. DOMAIN worker_queues' = DOMAIN worker_queues \cup {w}
  BY DEF TransmitWork
<1>2. worker_queues'[w] = [data EXCEPT !.work = @ \cup batch]
  BY DEF TransmitWork
<1>3. worker_queues'[w].work = data.work \cup batch
  BY <1>2 DEF WorkerData
<1>4. \A v \in Registered \ {w} : worker_queues'[v] = worker_queues[v]
  BY DEF TransmitWork, Registered
<1>5. /\ work_to_worker'[w] \subseteq work_to_worker[w] \cup batch
      /\ \A v \in Workers : v # w => work_to_worker'[v] = work_to_worker[v]
  BY DEF TransmitWork, SendJobs, TypeOK, NetworkTypeOK
<1>6. Queue(w)' = data.work \cup batch
  BY <1>1, <1>3 DEF Queue, Registered
<1>7. \A v \in Workers : v # w => Queue(v)' = Queue(v)
  BY <1>1, <1>4 DEF Queue, Registered
<1> QED
  BY <1>1, <1>4, <1>5, <1>6, <1>7 DEF TransmitWork, Registered

\* A file's job is completed when no queue has it.
LEMMA CompletedByQueues ==
  ASSUME NEW f \in Files, TypeOK
  PROVE  Completed(f) <=> /\ f \notin unpushed
                          /\ StageJob(f) \notin enqueued_work
                          /\ \A w \in Workers : StageJob(f) \notin Queue(w)
  BY DEF Completed, Waiting, HoldersOf, Queue, Registered, TypeOK, ServerTypeOK

LEMMA CompletedByQueuesNext ==
  ASSUME NEW f \in Files, TypeOK'
  PROVE  Completed(f)' <=> /\ f \notin unpushed'
                           /\ StageJob(f)' \notin enqueued_work'
                           /\ \A w \in Workers : StageJob(f)' \notin Queue(w)'
  BY DEF Completed, Waiting, HoldersOf, Queue, Registered, TypeOK, ServerTypeOK

\* transmit_work to w, after the jobs of erased left its queue because their
\* results were received.
LEMMA TransmitWorkKeeps ==
  ASSUME IInv, TypeOK', NEW w \in Workers, NEW data \in WorkerData,
         NEW batch \in SUBSET enqueued_work, TransmitWork(w, data, batch),
         NEW erased \in SUBSET (Queue(w) \cap work_to_server[w]),
         data.work = Queue(w) \ erased,
         work_to_server' = [work_to_server EXCEPT ![w] = @ \ erased],
         SameStage, UNCHANGED jobs,
         w \in Registered \/ Carried(w) = {}
  PROVE  /\ QueuesDisjoint'
         /\ OnlyStageJobs'
         /\ UnpushedNowhere'
         /\ CarriedRecorded'
         /\ UnregisteredIdle'
         /\ \A f \in Files : Completed(f)' <=> Completed(f) \/ StageJob(f) \in erased
<1>1. /\ Registered' = Registered \cup {w}
      /\ enqueued_work' = enqueued_work \ batch
      /\ Queue(w)' = data.work \cup batch
      /\ \A v \in Workers : v # w => Queue(v)' = Queue(v)
      /\ work_to_worker'[w] \subseteq work_to_worker[w] \cup batch
      /\ \A v \in Workers : v # w => work_to_worker'[v] = work_to_worker[v]
  BY TransmitWorkEffect DEF IInv
<1>2. /\ work_to_server'[w] = work_to_server[w] \ erased
      /\ \A v \in Workers : v # w => work_to_server'[v] = work_to_server[v]
  BY DEF IInv, TypeOK, NetworkTypeOK
<1>3. /\ Carried(w)' \subseteq (Carried(w) \ erased) \cup batch
      /\ \A v \in Workers : v # w => Carried(v)' = Carried(v)
      /\ StageType' = StageType
      /\ \A f \in Files : StageJob(f)' = StageJob(f)
  <2>1. erased \cap work_to_worker[w] = {} /\ erased \cap jobs[w] = {}
    BY DEF IInv, CarriedRecorded, Carried
  <2> QED
    BY <1>1, <1>2, <2>1 DEF Carried, StageType, StageJob, SameStage
<1>4. QueuesDisjoint /\ QueuesDisjoint'
  BY <1>1 DEF IInv, QueuesDisjoint
<1>5. OnlyStageJobs'
  BY <1>1, <1>3 DEF IInv, OnlyStageJobs
<1>6. UnpushedNowhere'
  BY <1>1 DEF IInv, UnpushedNowhere, SameStage
<1>7. CarriedRecorded'
  <2> SUFFICES ASSUME NEW v \in Registered'
               PROVE  /\ Carried(v)' \subseteq Queue(v)'
                      /\ work_to_worker'[v] \cap jobs'[v] = {}
                      /\ work_to_worker'[v] \cap work_to_server'[v] = {}
                      /\ jobs'[v] \cap work_to_server'[v] = {}
    BY DEF CarriedRecorded
  <2>1. CASE v # w
    <3>1. v \in Registered /\ v \in Workers
      BY <1>1, <2>1 DEF IInv, TypeOK, ServerTypeOK, Registered
    <3> QED
      BY <1>1, <1>2, <1>3, <2>1, <3>1 DEF IInv, CarriedRecorded
  <2>2. CASE v = w
    <3>1. Carried(w) \subseteq Queue(w)
      BY DEF IInv, CarriedRecorded
    <3>2. /\ work_to_worker[w] \cap jobs[w] = {}
          /\ work_to_worker[w] \cap work_to_server[w] = {}
          /\ jobs[w] \cap work_to_server[w] = {}
      BY DEF IInv, CarriedRecorded, Carried
    <3>3. batch \cap Carried(w) = {}
      BY <1>4, <3>1 DEF QueuesDisjoint
    <3> QED
      BY <1>1, <1>2, <1>3, <2>2, <3>1, <3>2, <3>3 DEF Carried
  <2> QED
    BY <2>1, <2>2
<1>8. UnregisteredIdle'
  BY <1>1, <1>3 DEF IInv, UnregisteredIdle, SameStage
<1>9. ASSUME NEW f \in Files
      PROVE  Completed(f)' <=> Completed(f) \/ StageJob(f) \in erased
  <2>1. Completed(f)' <=> /\ f \notin unpushed'
                          /\ StageJob(f)' \notin enqueued_work'
                          /\ \A v \in Workers : StageJob(f)' \notin Queue(v)'
    BY CompletedByQueuesNext
  <2>2. Completed(f) <=> /\ f \notin unpushed
                         /\ StageJob(f) \notin enqueued_work
                         /\ \A v \in Workers : StageJob(f) \notin Queue(v)
    BY CompletedByQueues DEF IInv
  <2>3. StageJob(f) \in Queue(w) =>
          /\ f \notin unpushed
          /\ StageJob(f) \notin enqueued_work
          /\ \A v \in Workers : v # w => StageJob(f) \notin Queue(v)
    BY <1>4 DEF IInv, UnpushedNowhere, QueuesDisjoint, StageJob
  <2> QED
    BY <1>1, <1>3, <2>1, <2>2, <2>3 DEF SameStage
<1> QED
  BY <1>4, <1>5, <1>6, <1>7, <1>8, <1>9

-----------------------------------------------------------------------------
(* Steps that leave the jobs, the channels or the connections alone *)

\* No job moves, and the stage stays the same.
LEMMA StillJobs ==
  ASSUME IInv, TypeOK',
         UNCHANGED <<enqueued_work, workResults, equalised_count>>,
         images \subseteq images', SameStage,
         \A w \in Workers : Queue(w)' = Queue(w),
         StageOfPhase' = "finished" => equalised_count >= Cardinality(Files)
  PROVE  /\ QueuesDisjoint'
         /\ UnpushedNowhere'
         /\ HistogramsExact'
         /\ EqualisedCountExact'
         /\ ImagesExact'
         /\ FinishedAll'
         /\ StageType' = StageType
<1>1. StageType' = StageType /\ \A f \in Files : StageJob(f)' = StageJob(f)
  BY DEF StageType, StageJob, SameStage
<1>2. \A f \in Files : Completed(f)' <=> Completed(f)
  BY <1>1, CompletedByQueues, CompletedByQueuesNext DEF IInv, SameStage
<1>3. CompletedFiles' = CompletedFiles
  BY <1>2 DEF CompletedFiles
<1>4. QueuesDisjoint'
  BY DEF IInv, QueuesDisjoint
<1>5. UnpushedNowhere'
  BY DEF IInv, UnpushedNowhere, SameStage
<1>6. HistogramsExact'
  BY <1>2 DEF IInv, HistogramsExact, SameStage
<1>7. EqualisedCountExact'
  BY <1>3 DEF IInv, EqualisedCountExact, SameStage
<1>8. ImagesExact'
  BY <1>2 DEF IInv, ImagesExact, SameStage
<1>9. FinishedAll'
  BY DEF FinishedAll
<1> QED
  BY <1>1, <1>4, <1>5, <1>6, <1>7, <1>8, <1>9

\* Neither what workers carry nor what the server expects of them changes.
LEMMA StillCarried ==
  ASSUME IInv,
         UNCHANGED <<enqueued_work, work_to_worker, jobs, work_to_server>>,
         Registered' = Registered,
         \A w \in Workers : Queue(w)' = Queue(w),
         StageType' = StageType
  PROVE  OnlyStageJobs' /\ CarriedRecorded' /\ UnregisteredIdle'
<1>1. \A w \in Workers : Carried(w)' = Carried(w)
  BY DEF Carried
<1>2. Registered \subseteq Workers
  BY DEF IInv, TypeOK, ServerTypeOK, Registered
<1>3. OnlyStageJobs'
  BY <1>1 DEF IInv, OnlyStageJobs
<1>4. CarriedRecorded'
  BY <1>1, <1>2 DEF IInv, CarriedRecorded
<1>5. UnregisteredIdle'
  BY <1>1 DEF IInv, UnregisteredIdle, StageType
<1> QED
  BY <1>3, <1>4, <1>5

\* No worker is registered, or gets a command or a job.
LEMMA StillConnections ==
  ASSUME IInv,
         UNCHANGED <<connection, comm_to_server, comm_to_worker, bye_to_worker>>,
         Registered' \subseteq Registered,
         \A w \in Workers : Carried(w)' \subseteq Carried(w)
  PROVE  FreshUnknown' /\ DismissedHoldsNoWork'
<1>1. FreshUnknown'
  BY DEF IInv, FreshUnknown, Fresh
<1>2. DismissedHoldsNoWork'
  BY DEF IInv, DismissedHoldsNoWork
<1> QED
  BY <1>1, <1>2

\* The server's part of the state stays as it is.
LEMMA StillServer ==
  ASSUME IInv, TypeOK', UNCHANGED serverVars
  PROVE  /\ QueuesDisjoint'
         /\ UnpushedNowhere'
         /\ HistogramsExact'
         /\ EqualisedCountExact'
         /\ ImagesExact'
         /\ FinishedAll'
         /\ StageType' = StageType
         /\ Registered' = Registered
         /\ \A w \in Workers : Queue(w)' = Queue(w)
<1>1. Registered' = Registered /\ \A w \in Workers : Queue(w)' = Queue(w)
  BY DEF serverVars, Registered, Queue
<1>2. /\ UNCHANGED <<enqueued_work, unpushed, workResults, equalised_count, images>>
      /\ phase' = phase
      /\ StageOfPhase' = StageOfPhase
  BY DEF serverVars, StageOfPhase
<1>3. /\ SameStage
      /\ StageOfPhase' = "finished" => equalised_count >= Cardinality(Files)
  BY <1>2 DEF IInv, UnpushedNowhere, FinishedAll, SameStage
<1> QED
  BY <1>1, <1>2, <1>3, StillJobs

-----------------------------------------------------------------------------
(* When a stage is over *)

\* A set of files as large as the set of files is that set.
LEMMA AllFiles ==
  ASSUME NEW S \in SUBSET Files, Cardinality(S) >= Cardinality(Files)
  PROVE  S = Files
  BY FilesAssumption, FS_Subset, FS_CardinalityType

LEMMA CompletedFilesFinite ==
  /\ CompletedFiles \in SUBSET Files
  /\ IsFiniteSet(CompletedFiles)
  /\ Cardinality(CompletedFiles) \in Nat
  BY FilesAssumption, FS_Subset, FS_CardinalityType DEF CompletedFiles

\* Once every file is completed the server has no job, and its workers carry none.
LEMMA NothingLeft ==
  ASSUME IInv, CompletedFiles = Files
  PROVE  /\ enqueued_work = {}
         /\ \A w \in Workers : Queue(w) = {}
         /\ \A w \in Registered : Carried(w) = {}
<1>1. \A job \in Jobs : job.type = StageType => /\ job.filename \in Files
                                               /\ job = StageJob(job.filename)
  BY JobEquality, StageJobFacts DEF Jobs
<1>2. \A f \in Files : /\ StageJob(f) \notin enqueued_work
                       /\ \A w \in Workers : StageJob(f) \notin Queue(w)
  BY CompletedByQueues DEF IInv, CompletedFiles
<1>3. \A w \in Workers : Queue(w) \subseteq Jobs
  BY DEF Queue, IInv, TypeOK, ServerTypeOK, Registered, WorkerData
<1>4. enqueued_work = {}
  BY <1>1, <1>2 DEF IInv, TypeOK, ServerTypeOK, OnlyStageJobs
<1>5. \A w \in Workers : Queue(w) = {}
  BY <1>1, <1>2, <1>3 DEF IInv, OnlyStageJobs
<1>6. \A w \in Registered : w \in Workers
  BY DEF IInv, TypeOK, ServerTypeOK, Registered
<1> QED
  BY <1>4, <1>5, <1>6 DEF IInv, CarriedRecorded

\* The histogram stage is over when every file is completed ...
LEMMA HistogramsOver ==
  ASSUME IInv, phase = "receive_histograms", ~ MoreHistograms
  PROVE  /\ CompletedFiles = Files
         /\ workResults = Files
<1>1. workResults \in SUBSET Files
  BY DEF IInv, TypeOK, ServerTypeOK
<1>2. Cardinality(workResults) \in Nat /\ Cardinality(Files) \in Nat
  BY <1>1, FilesAssumption, FS_Subset, FS_CardinalityType
<1>3. workResults = Files
  BY <1>1, <1>2, AllFiles DEF MoreHistograms
<1> QED
  BY <1>3 DEF IInv, HistogramsExact, CompletedFiles

\* ... and so is the equalisation stage.
LEMMA EqualisationOver ==
  ASSUME IInv, StageOfPhase = "finished" \/ (phase = "send_heartbeats" /\ ~ MoreImages)
  PROVE  CompletedFiles = Files
<1>1. phase # "receive_histograms"
  BY DEF StageOfPhase
<1>2. equalised_count = Cardinality(CompletedFiles)
  BY <1>1 DEF IInv, EqualisedCountExact
<1>3. Cardinality(Files) \in Nat /\ Cardinality(CompletedFiles) \in Nat
  BY FilesAssumption, FS_CardinalityType, CompletedFilesFinite
<1>4. equalised_count >= Cardinality(Files)
  BY <1>2, <1>3 DEF IInv, FinishedAll, MoreImages
<1> QED
  BY <1>2, <1>4, AllFiles, CompletedFilesFinite

-----------------------------------------------------------------------------
(* The steps of the main thread and of its work thread *)

\* A result from a registered worker: its job leaves the worker's queue.
LEMMA ReceiveFromRegistered ==
  ASSUME IInv, TypeOK', NEW w \in Workers, NEW r \in Results, w \in Registered,
         ReceiveWork(w, r), CompleteJob(w, r), SameStage, UNCHANGED jobs
  PROVE  /\ QueuesDisjoint'
         /\ OnlyStageJobs'
         /\ UnpushedNowhere'
         /\ CarriedRecorded'
         /\ UnregisteredIdle'
         /\ \A f \in Files : Completed(f)' <=> Completed(f) \/ StageJob(f) = r
         /\ Registered' = Registered
         /\ \A v \in Workers : v # w => Carried(v)' = Carried(v)
<1> DEFINE Erased(job) == [worker_queues[w] EXCEPT !.work = @ \ {job}]
<1>1. worker_queues[w] \in WorkerData
  BY DEF IInv, TypeOK, ServerTypeOK, Registered
<1>2. PICK job \in worker_queues[w].work :
        /\ Matches(job, r)
        /\ \E batch \in Batches(Erased(job)) : TransmitWork(w, Erased(job), batch)
  BY DEF CompleteJob
<1>3. job = r /\ job \in Queue(w)
  BY <1>1, <1>2, JobEquality DEF WorkerData, Queue
<1>4. PICK erased \in SUBSET (Queue(w) \cap work_to_server[w]) : erased = {r}
  BY <1>3 DEF ReceiveWork
<1>5. PICK data \in WorkerData : data = Erased(job) /\ data.work = Queue(w) \ erased
  <2>1. Erased(job) \in WorkerData /\ Erased(job).work = Queue(w) \ {r}
    BY <1>1, <1>3 DEF WorkerData, Queue
  <2> QED
    BY <1>4, <2>1
<1>6. PICK batch \in SUBSET enqueued_work : TransmitWork(w, data, batch)
  BY <1>2, <1>5 DEF Batches
<1> HIDE DEF Erased
<1>7. /\ QueuesDisjoint'
      /\ OnlyStageJobs'
      /\ UnpushedNowhere'
      /\ CarriedRecorded'
      /\ UnregisteredIdle'
      /\ \A f \in Files : Completed(f)' <=> Completed(f) \/ StageJob(f) \in erased
  <2>1. work_to_server' = [work_to_server EXCEPT ![w] = @ \ erased]
    BY <1>4 DEF ReceiveWork
  <2>2. data.work = Queue(w) \ erased
    BY <1>5
  <2>3. w \in Registered \/ Carried(w) = {}
    OBVIOUS
  <2> QED
    BY <1>6, <2>1, <2>2, <2>3, TransmitWorkKeeps
<1>8. TypeOK
  BY DEF IInv
<1>9. /\ Registered' = Registered
      /\ \A v \in Workers : v # w => work_to_worker'[v] = work_to_worker[v]
  <2>1. /\ Registered' = Registered \cup {w}
        /\ \A v \in Workers : v # w => work_to_worker'[v] = work_to_worker[v]
    BY <1>6, <1>8, TransmitWorkEffect
  <2> QED
    BY <2>1
<1>10. \A v \in Workers : v # w => Carried(v)' = Carried(v)
  BY <1>8, <1>9 DEF Carried, ReceiveWork, TypeOK, NetworkTypeOK
<1> QED
  BY <1>4, <1>7, <1>9, <1>10

\* Jobs sent to a registered worker concern no fresh worker.
LEMMA ReceiveConnections ==
  ASSUME IInv, Registered' = Registered, NEW w \in Registered,
         UNCHANGED <<connection, comm_to_server, comm_to_worker, bye_to_worker>>,
         \A v \in Workers : v # w => Carried(v)' \subseteq Carried(v)
  PROVE  FreshUnknown' /\ DismissedHoldsNoWork'
<1>1. FreshUnknown'
  BY DEF IInv, FreshUnknown, Fresh
<1>2. DismissedHoldsNoWork'
  BY DEF IInv, DismissedHoldsNoWork
<1> QED
  BY <1>1, <1>2

LEMMA ReceiveHistogramResultInv ==
  ASSUME IInv, TypeInv', NEW w \in Workers, NEW r \in Results,
         ReceiveHistogramResult(w, r), UNCHANGED workerVars
  PROVE  IInv'
<1>1. /\ phase = "receive_histograms"
      /\ ReceiveWork(w, r)
      /\ UNCHANGED <<phase, unpushed, jobs, connection, equalised_count, images,
                     comm_to_server, comm_to_worker, bye_to_worker>>
      /\ SameStage
  BY DEF ReceiveHistogramResult, workerVars, SameStage, IInv, UnpushedNowhere
<1>2. r \in Carried(w)
  BY <1>1 DEF ReceiveWork, Carried
<1>3. w \in Registered /\ r.type = "HISTOGRAM"
  BY <1>1, <1>2 DEF IInv, UnregisteredIdle, OnlyStageJobs, StageType
<1>4. CompleteJob(w, r) /\ workResults' = workResults \cup {r.filename}
  BY <1>3 DEF ReceiveHistogramResult, Registered
<1>5. /\ QueuesDisjoint'
      /\ OnlyStageJobs'
      /\ UnpushedNowhere'
      /\ CarriedRecorded'
      /\ UnregisteredIdle'
      /\ \A f \in Files : Completed(f)' <=> Completed(f) \/ StageJob(f) = r
      /\ Registered' = Registered
      /\ \A v \in Workers : v # w => Carried(v)' = Carried(v)
  BY <1>1, <1>3, <1>4, ReceiveFromRegistered DEF TypeInv
<1>6. FreshUnknown' /\ DismissedHoldsNoWork'
  BY <1>1, <1>3, <1>5, ReceiveConnections
<1>7. \A f \in Files : StageJob(f) = r <=> f = r.filename
  <2>1. r \in Jobs /\ r.type = StageType
    BY <1>1, <1>3, JobEquality DEF StageType
  <2> QED
    BY <2>1, JobEquality, StageJobFacts
<1>8. HistogramsExact'
  BY <1>1, <1>4, <1>5, <1>7 DEF IInv, HistogramsExact
<1>9. EqualisedCountExact' /\ ImagesExact' /\ FinishedAll'
  BY <1>1 DEF EqualisedCountExact, ImagesExact, FinishedAll, StageOfPhase
<1> QED
  BY <1>5, <1>6, <1>8, <1>9 DEF IInv, TypeInv

LEMMA ReceiveEqualisedResultInv ==
  ASSUME IInv, TypeInv', NEW w \in Workers, NEW r \in Results,
         ReceiveEqualisedResult(w, r), UNCHANGED workerVars
  PROVE  IInv'
<1>1. /\ phase = "receive_equalised"
      /\ phase' = "send_heartbeats"
      /\ ReceiveWork(w, r)
      /\ CountResult(w, r)
      /\ UNCHANGED <<unpushed, workResults, connection, jobs, comm_to_server,
                     comm_to_worker, bye_to_worker>>
      /\ SameStage
  BY DEF ReceiveEqualisedResult, workerVars, SameStage, IInv, UnpushedNowhere
<1>2. /\ r \in Carried(w)
      /\ r \in Jobs
      /\ r.type = "EQUALISATION"
      /\ r.filename \in Files
  <2>1. r \in Carried(w)
    BY <1>1 DEF ReceiveWork, Carried
  <2> QED
    BY <1>1, <2>1, JobEquality DEF IInv, OnlyStageJobs, StageType, Results
<1>3. images' = images \cup {r.filename}
  BY <1>2 DEF ReceiveEqualisedResult
<1>4. HistogramsExact' /\ FinishedAll'
  BY <1>1 DEF HistogramsExact, FinishedAll, StageOfPhase
<1>5. CASE w \in Registered
  <2>1. CompleteJob(w, r) /\ equalised_count' = equalised_count + 1
    BY <1>1, <1>2, <1>5 DEF ReceiveEqualisedResult, CountResult, Registered
  <2>2. /\ QueuesDisjoint'
        /\ OnlyStageJobs'
        /\ UnpushedNowhere'
        /\ CarriedRecorded'
        /\ UnregisteredIdle'
        /\ \A f \in Files : Completed(f)' <=> Completed(f) \/ StageJob(f) = r
        /\ Registered' = Registered
        /\ \A v \in Workers : v # w => Carried(v)' = Carried(v)
    BY <1>1, <1>5, <2>1, ReceiveFromRegistered DEF TypeInv
  <2>3. FreshUnknown' /\ DismissedHoldsNoWork'
    BY <1>1, <1>5, <2>2, ReceiveConnections
  <2>4. \A f \in Files : StageJob(f) = r <=> f = r.filename
    BY <1>1, <1>2, JobEquality, StageJobFacts DEF StageType
  <2>5. ImagesExact'
    BY <1>1, <1>3, <2>2, <2>4 DEF IInv, ImagesExact
  <2>6. EqualisedCountExact'
    <3>1. CompletedFiles' = CompletedFiles \cup {r.filename}
      BY <1>2, <2>2, <2>4 DEF CompletedFiles
    <3>2. r.filename \notin CompletedFiles
      <4>1. r \in Queue(w)
        BY <1>2, <1>5 DEF IInv, CarriedRecorded
      <4>2. StageJob(r.filename) = r
        BY <1>2, <2>4
      <4> QED
        BY <1>2, <4>1, <4>2, CompletedByQueues DEF CompletedFiles, IInv
    <3>3. Cardinality(CompletedFiles') = Cardinality(CompletedFiles) + 1
      BY <3>1, <3>2, CompletedFilesFinite, FS_AddElement
    <3> QED
      BY <1>1, <2>1, <3>3 DEF IInv, EqualisedCountExact
  <2> QED
    BY <1>4, <2>2, <2>3, <2>5, <2>6 DEF IInv, TypeInv
<1>6. CASE w \notin Registered
  <2>1. /\ UNCHANGED <<enqueued_work, worker_queues, work_to_worker>>
        /\ equalised_count' = equalised_count
    BY <1>1, <1>2, <1>6 DEF ReceiveEqualisedResult, CountResult, Registered
  <2>2. Registered' = Registered /\ \A v \in Workers : Queue(v)' = Queue(v)
    BY <2>1 DEF Registered, Queue
  <2>3. /\ \A v \in Workers : Carried(v)' \subseteq Carried(v)
        /\ \A v \in Workers : v # w => work_to_server'[v] = work_to_server[v]
    BY <1>1, <2>1 DEF Carried, ReceiveWork, IInv, TypeOK, NetworkTypeOK
  <2>4. /\ QueuesDisjoint'
        /\ UnpushedNowhere'
        /\ EqualisedCountExact'
        /\ ImagesExact'
        /\ StageType' = StageType
    BY <1>1, <1>3, <2>1, <2>2, StillJobs DEF TypeInv, StageOfPhase
  <2>5. FreshUnknown' /\ DismissedHoldsNoWork'
    BY <1>1, <2>2, <2>3, StillConnections
  <2>6. OnlyStageJobs'
    BY <2>1, <2>2, <2>3, <2>4 DEF IInv, OnlyStageJobs
  <2>7. UnregisteredIdle'
    BY <1>1 DEF UnregisteredIdle
  <2>8. CarriedRecorded'
    <3>1. \A v \in Registered : v \in Workers /\ v # w
      BY <1>6 DEF IInv, TypeOK, ServerTypeOK, Registered
    <3> QED
      BY <1>1, <2>1, <2>2, <2>3, <3>1 DEF IInv, CarriedRecorded, Carried
  <2> QED
    BY <1>4, <2>4, <2>5, <2>6, <2>7, <2>8 DEF IInv, TypeInv
<1> QED
  BY <1>5, <1>6

\* When the histograms are complete no job is left, and so the assertion of
\* server.cpp:76 holds; the second stage starts with every job still to be pushed.
LEMMA HistogramsCompleteInv ==
  ASSUME IInv, TypeInv', HistogramsComplete, UNCHANGED workerVars
  PROVE  IInv'
<1>1. /\ phase = "receive_histograms"
      /\ unpushed' = Files
      /\ UNCHANGED <<enqueued_work, worker_queues, equalised_count, images, jobs,
                     connection, work_to_worker, work_to_server, comm_to_worker,
                     comm_to_server, bye_to_worker>>
  BY DEF HistogramsComplete, workerVars, networkVars
<1>2. CompletedFiles = Files
  BY <1>1, HistogramsOver DEF HistogramsComplete
<1>3. /\ enqueued_work = {}
      /\ \A w \in Workers : Queue(w) = {}
      /\ \A w \in Registered : Carried(w) = {}
  BY <1>2, NothingLeft
<1>4. phase' = "queue_equalisation"
  BY <1>3 DEF HistogramsComplete
<1>5. /\ Registered' = Registered
      /\ \A w \in Workers : Queue(w)' = {} /\ Carried(w)' = Carried(w)
  BY <1>1, <1>3 DEF Registered, Queue, Carried
<1>6. \A w \in Workers : Carried(w) = {}
  BY <1>1, <1>3 DEF IInv, UnregisteredIdle
<1>7. QueuesDisjoint' /\ OnlyStageJobs' /\ UnpushedNowhere'
  BY <1>1, <1>3, <1>4, <1>5, <1>6 DEF QueuesDisjoint, OnlyStageJobs, UnpushedNowhere
<1>8. HistogramsExact' /\ FinishedAll' /\ UnregisteredIdle'
  BY <1>4 DEF HistogramsExact, FinishedAll, UnregisteredIdle, StageOfPhase
<1>9. \A f \in Files : ~ Completed(f)'
  BY <1>1 DEF Completed, Waiting
<1>10. EqualisedCountExact' /\ ImagesExact'
  <2>1. CompletedFiles' = {}
    BY <1>9 DEF CompletedFiles
  <2> QED
    BY <1>1, <1>9, <2>1, FS_EmptySet
       DEF IInv, HistogramsExact, EqualisedCountExact, ImagesExact
<1>11. FreshUnknown' /\ DismissedHoldsNoWork'
  BY <1>1, <1>5, StillConnections
<1>12. CarriedRecorded'
  <2>1. Registered \subseteq Workers
    BY DEF IInv, TypeOK, ServerTypeOK, Registered
  <2> QED
    BY <1>1, <1>3, <1>5, <2>1 DEF IInv, CarriedRecorded
<1> QED
  BY <1>7, <1>8, <1>10, <1>11, <1>12 DEF IInv, TypeInv

LEMMA PushEqualisationJobInv ==
  ASSUME IInv, TypeInv', NEW f \in Files, PushEqualisationJob(f), UNCHANGED workerVars
  PROVE  IInv'
<1>1. /\ phase = "queue_equalisation"
      /\ f \in unpushed
      /\ unpushed' = unpushed \ {f}
      /\ enqueued_work' = enqueued_work \cup {EqualisationJob(f)}
      /\ UNCHANGED <<phase, worker_queues, equalised_count, images, jobs,
                     connection, work_to_worker, work_to_server, comm_to_worker,
                     comm_to_server, bye_to_worker>>
  BY DEF PushEqualisationJob, workerVars, networkVars
<1>2. /\ Registered' = Registered
      /\ \A w \in Workers : Queue(w)' = Queue(w) /\ Carried(w)' = Carried(w)
      /\ \A g \in Files : StageJob(g)' = EqualisationJob(g) /\ StageJob(g) = EqualisationJob(g)
      /\ StageType' = "EQUALISATION" /\ StageType = "EQUALISATION"
  BY <1>1 DEF Registered, Queue, Carried, StageJob, StageType
<1>3. QueuesDisjoint'
  BY <1>1, <1>2 DEF IInv, QueuesDisjoint, UnpushedNowhere
<1>4. OnlyStageJobs'
  BY <1>1, <1>2, JobEquality DEF IInv, OnlyStageJobs
<1>5. UnpushedNowhere'
  <2>1. \A g \in Files : g # f => EqualisationJob(g) # EqualisationJob(f)
    BY JobEquality
  <2>2. unpushed \subseteq Files
    BY DEF IInv, TypeOK, ServerTypeOK
  <2> QED
    BY <1>1, <1>2, <2>1, <2>2 DEF IInv, UnpushedNowhere
<1>6. HistogramsExact' /\ FinishedAll' /\ UnregisteredIdle'
  BY <1>1 DEF HistogramsExact, FinishedAll, UnregisteredIdle, StageOfPhase
<1>7. \A g \in Files : Completed(g)' <=> Completed(g)
  <2> TAKE g \in Files
  <2>1. Completed(g)' <=> /\ g \notin unpushed'
                          /\ StageJob(g)' \notin enqueued_work'
                          /\ \A w \in Workers : StageJob(g)' \notin Queue(w)'
    BY CompletedByQueuesNext DEF TypeInv
  <2>2. Completed(g) <=> /\ g \notin unpushed
                         /\ StageJob(g) \notin enqueued_work
                         /\ \A w \in Workers : StageJob(g) \notin Queue(w)
    BY CompletedByQueues DEF IInv
  <2>3. EqualisationJob(g) = EqualisationJob(f) <=> g = f
    BY JobEquality
  <2> QED
    BY <1>1, <1>2, <2>1, <2>2, <2>3
<1>8. EqualisedCountExact' /\ ImagesExact'
  <2>1. CompletedFiles' = CompletedFiles
    BY <1>7 DEF CompletedFiles
  <2> QED
    BY <1>1, <1>7, <2>1 DEF IInv, EqualisedCountExact, ImagesExact
<1>9. FreshUnknown' /\ DismissedHoldsNoWork'
  BY <1>1, <1>2, StillConnections
<1>10. CarriedRecorded'
  <2>1. Registered \subseteq Workers
    BY DEF IInv, TypeOK, ServerTypeOK, Registered
  <2> QED
    BY <1>1, <1>2, <2>1 DEF IInv, CarriedRecorded
<1> QED
  BY <1>3, <1>4, <1>5, <1>6, <1>8, <1>9, <1>10 DEF IInv, TypeInv

\* The steps of serve_work that only change its phase, its own loop or its flag.
LEMMA PhaseStepInv ==
  ASSUME IInv, TypeInv', UNCHANGED workerVars,
         \/ StartEqualising \/ ServeExistingStarts \/ ExistingServed
         \/ ReceiveTimeout \/ StopCommunication \/ Exit
  PROVE  IInv'
<1>1. /\ UNCHANGED <<enqueued_work, worker_queues, unpushed, workResults,
                     equalised_count, images, jobs, connection, work_to_worker,
                     work_to_server, comm_to_worker, comm_to_server, bye_to_worker>>
  BY DEF StartEqualising, ServeExistingStarts, ExistingServed, ReceiveTimeout,
         StopCommunication, Exit, stageVars, networkVars, workerVars
<1>2. /\ phase # "receive_histograms" /\ phase' # "receive_histograms"
      /\ StageOfPhase' = "finished" => StageOfPhase = "finished"
      /\ SameStage
  BY <1>1 DEF StartEqualising, ServeExistingStarts, ExistingServed, ReceiveTimeout,
              StopCommunication, Exit, StageOfPhase, SameStage, IInv, UnpushedNowhere
<1>3. /\ Registered' = Registered
      /\ \A w \in Workers : Queue(w)' = Queue(w) /\ Carried(w)' \subseteq Carried(w)
  BY <1>1 DEF Registered, Queue, Carried
<1>4. StageOfPhase' = "finished" => equalised_count >= Cardinality(Files)
  BY <1>2 DEF IInv, FinishedAll
<1>5. /\ QueuesDisjoint' /\ UnpushedNowhere' /\ HistogramsExact'
      /\ EqualisedCountExact' /\ ImagesExact' /\ FinishedAll'
      /\ StageType' = StageType
  BY <1>1, <1>2, <1>3, <1>4, StillJobs DEF TypeInv
<1>6. OnlyStageJobs' /\ CarriedRecorded' /\ UnregisteredIdle'
  BY <1>1, <1>3, <1>5, StillCarried
<1>7. FreshUnknown' /\ DismissedHoldsNoWork'
  BY <1>1, <1>3, StillConnections
<1> QED
  BY <1>5, <1>6, <1>7 DEF IInv, TypeInv

\* No job is completed, nor forgotten.
LEMMA StillProgress ==
  ASSUME IInv, SameStage, UNCHANGED <<workResults, equalised_count, images>>,
         \A f \in Files : Completed(f)' <=> Completed(f),
         StageOfPhase' = "finished" => equalised_count >= Cardinality(Files)
  PROVE  HistogramsExact' /\ EqualisedCountExact' /\ ImagesExact' /\ FinishedAll'
<1>1. CompletedFiles' = CompletedFiles
  BY DEF CompletedFiles
<1> QED
  BY <1>1 DEF IInv, SameStage, HistogramsExact, EqualisedCountExact, ImagesExact,
              FinishedAll

LEMMA ServeExistingInv ==
  ASSUME IInv, TypeInv', NEW w \in Workers, ServeExisting(w), UNCHANGED workerVars
  PROVE  IInv'
<1>1. /\ phase = "serve_existing"
      /\ UNCHANGED <<phase, unpushed, workResults, equalised_count, images, jobs,
                     connection, work_to_server, comm_to_worker, comm_to_server,
                     bye_to_worker>>
      /\ SameStage
  BY DEF ServeExisting, workerVars, SameStage, IInv, UnpushedNowhere
<1>2. w \in Registered
  BY DEF ServeExisting, IInv, ExistingRegistered
<1>3. TypeOK /\ worker_queues[w] \in WorkerData /\ worker_queues[w].work = Queue(w) \ {}
  BY <1>2 DEF IInv, TypeOK, ServerTypeOK, Queue, Registered
<1>4. PICK batch \in SUBSET enqueued_work : TransmitWork(w, worker_queues[w], batch)
  BY DEF ServeExisting, Batches
<1>5. work_to_server' = [work_to_server EXCEPT ![w] = @ \ {}]
  BY <1>1, <1>3 DEF TypeOK, NetworkTypeOK
<1>6. {} \in SUBSET (Queue(w) \cap work_to_server[w])
  OBVIOUS
<1>7. /\ QueuesDisjoint' /\ OnlyStageJobs' /\ UnpushedNowhere'
      /\ CarriedRecorded' /\ UnregisteredIdle'
      /\ \A f \in Files : Completed(f)' <=> Completed(f) \/ StageJob(f) \in {}
  BY <1>1, <1>2, <1>3, <1>4, <1>5, <1>6, TransmitWorkKeeps DEF TypeInv
<1>8. HistogramsExact' /\ EqualisedCountExact' /\ ImagesExact' /\ FinishedAll'
  BY <1>1, <1>7, StillProgress DEF StageOfPhase
<1>9. /\ Registered' = Registered \cup {w}
      /\ \A v \in Workers : v # w => work_to_worker'[v] = work_to_worker[v]
  BY <1>3, <1>4, TransmitWorkEffect
<1>10. /\ Registered' = Registered
       /\ \A v \in Workers : v # w => Carried(v)' \subseteq Carried(v)
  BY <1>1, <1>2, <1>9 DEF Carried
<1>11. FreshUnknown' /\ DismissedHoldsNoWork'
  BY <1>1, <1>2, <1>10, ReceiveConnections
<1> QED
  BY <1>7, <1>8, <1>11 DEF IInv, TypeInv

\* dismiss_worker moves the jobs of a worker to enqueued_work and forgets it.
LEMMA SendHeartbeatsInv ==
  ASSUME IInv, TypeInv', SendHeartbeats, UNCHANGED workerVars
  PROVE  IInv'
<1> DEFINE Left == UNION {worker_queues[w].work : w \in Unanswered}
<1>1. /\ phase = "send_heartbeats"
      /\ phase' \in {"receive_equalised", "dismiss_workers"}
      /\ enqueued_work' = enqueued_work \cup Left
      /\ UNCHANGED <<unpushed, workResults, equalised_count, images, jobs,
                     connection, work_to_worker, work_to_server, comm_to_server>>
      /\ SameStage
  BY DEF SendHeartbeats, ReleasedWork, stageVars, workerVars, SameStage, IInv,
         UnpushedNowhere
<1>2. TypeOK /\ Registered \subseteq Workers
  BY DEF IInv, TypeOK, ServerTypeOK, Registered
<1>3. /\ Registered' = Registered \ Unanswered
      /\ Unanswered \subseteq Registered
      /\ Answered \subseteq Registered
      /\ \A w \in Workers : Queue(w)' = IF w \in Unanswered THEN {} ELSE Queue(w)
  <2>1. Registered' = Registered \ Unanswered
    BY DEF SendHeartbeats, Registered
  <2>2. \A w \in Registered : Requested(worker_queues[w]).work = worker_queues[w].work
    BY <1>2 DEF Requested, TypeOK, ServerTypeOK, WorkerData, Registered
  <2>3. \A w \in Registered' : worker_queues'[w].work = worker_queues[w].work
    BY <2>1, <2>2 DEF SendHeartbeats, Registered
  <2> QED
    BY <2>1, <2>3 DEF Unanswered, Answered, Registered, Queue
<1>4. \A w \in Workers : w \in Unanswered => Queue(w) = worker_queues[w].work
  BY <1>3 DEF Queue
<1>5. \A job : job \in Left <=> \E w \in Unanswered : job \in Queue(w)
  BY <1>2, <1>3, <1>4
<1> HIDE DEF Left
<1>6. /\ \A f \in Files : StageJob(f)' = StageJob(f)
      /\ StageType' = StageType
      /\ \A w \in Workers : Carried(w)' = Carried(w)
  BY <1>1 DEF StageJob, StageType, Carried
<1>7. QueuesDisjoint'
  BY <1>1, <1>2, <1>3, <1>5 DEF IInv, QueuesDisjoint
<1>8. OnlyStageJobs'
  BY <1>1, <1>2, <1>3, <1>5, <1>6 DEF IInv, OnlyStageJobs
<1>9. UnpushedNowhere' /\ UnregisteredIdle'
  BY <1>1 DEF IInv, UnpushedNowhere, UnregisteredIdle
<1>10. CarriedRecorded'
  BY <1>1, <1>2, <1>3, <1>6 DEF IInv, CarriedRecorded
<1>11. \A f \in Files : Completed(f)' <=> Completed(f)
  <2> TAKE f \in Files
  <2>1. Completed(f)' <=> /\ f \notin unpushed'
                          /\ StageJob(f)' \notin enqueued_work'
                          /\ \A w \in Workers : StageJob(f)' \notin Queue(w)'
    BY CompletedByQueuesNext DEF TypeInv
  <2>2. Completed(f) <=> /\ f \notin unpushed
                         /\ StageJob(f) \notin enqueued_work
                         /\ \A w \in Workers : StageJob(f) \notin Queue(w)
    BY <1>2, CompletedByQueues
  <2> QED
    BY <1>1, <1>2, <1>3, <1>5, <1>6, <2>1, <2>2
<1>12. StageOfPhase' = "finished" => equalised_count >= Cardinality(Files)
  <2>1. Cardinality(Files) \in Nat /\ equalised_count \in Nat
    BY <1>2, FilesAssumption, FS_CardinalityType DEF TypeOK, ServerTypeOK
  <2> QED
    BY <2>1 DEF SendHeartbeats, MoreImages, StageOfPhase
<1>13. HistogramsExact' /\ EqualisedCountExact' /\ ImagesExact' /\ FinishedAll'
  BY <1>1, <1>11, <1>12, StillProgress
<1>14. /\ \A w \in Workers : w \notin Registered => comm_to_worker'[w] = comm_to_worker[w]
       /\ bye_to_worker' \subseteq bye_to_worker \cup Unanswered
  BY <1>3 DEF SendHeartbeats, SendCommands, SendByes
<1>15. FreshUnknown'
  BY <1>1, <1>3, <1>6, <1>14 DEF IInv, FreshUnknown, Fresh
<1>16. DismissedHoldsNoWork'
  BY <1>1, <1>3, <1>14 DEF IInv, DismissedHoldsNoWork
<1> QED
  BY <1>7, <1>8, <1>9, <1>10, <1>13, <1>15, <1>16 DEF IInv, TypeInv

LEMMA DismissWorkersInv ==
  ASSUME IInv, TypeInv', DismissWorkers, UNCHANGED workerVars
  PROVE  IInv'
<1>1. /\ phase = "dismiss_workers" /\ phase' = "stop_communication"
      /\ UNCHANGED <<unpushed, enqueued_work, workResults, equalised_count, images,
                     jobs, connection, work_to_worker, work_to_server,
                     comm_to_worker, comm_to_server>>
      /\ Registered' = {}
      /\ bye_to_worker' \subseteq bye_to_worker \cup Registered
      /\ SameStage
  BY DEF DismissWorkers, SendByes, stageVars, workerVars, SameStage, Registered, IInv,
         UnpushedNowhere
<1>2. \A w \in Workers : Queue(w) = {}
  BY <1>1, EqualisationOver, NothingLeft DEF StageOfPhase
<1>3. \A w \in Workers : Queue(w)' = Queue(w) /\ Carried(w)' = Carried(w)
  BY <1>1, <1>2 DEF Queue, Carried
<1>4. StageOfPhase' = "finished" => equalised_count >= Cardinality(Files)
  BY <1>1 DEF IInv, FinishedAll, StageOfPhase
<1>5. /\ QueuesDisjoint' /\ UnpushedNowhere' /\ HistogramsExact'
      /\ EqualisedCountExact' /\ ImagesExact' /\ FinishedAll'
      /\ StageType' = StageType
  BY <1>1, <1>3, <1>4, StillJobs DEF TypeInv
<1>6. OnlyStageJobs' /\ CarriedRecorded' /\ UnregisteredIdle'
  BY <1>1, <1>3, <1>5 DEF IInv, OnlyStageJobs, CarriedRecorded, UnregisteredIdle
<1>7. FreshUnknown' /\ DismissedHoldsNoWork'
  BY <1>1, <1>3 DEF IInv, FreshUnknown, Fresh, DismissedHoldsNoWork
<1> QED
  BY <1>5, <1>6, <1>7 DEF IInv, TypeInv

LEMMA WorkStepInv ==
  ASSUME IInv, TypeInv', WorkStep, UNCHANGED workerVars
  PROVE  IInv'
<1>1. CASE \E w \in Workers, r \in Results : ReceiveHistogramResult(w, r)
  BY <1>1, ReceiveHistogramResultInv
<1>2. CASE HistogramsComplete
  BY <1>2, HistogramsCompleteInv
<1>3. CASE \E f \in Files : PushEqualisationJob(f)
  BY <1>3, PushEqualisationJobInv
<1>4. CASE StartEqualising \/ ServeExistingStarts \/ ExistingServed
           \/ ReceiveTimeout \/ StopCommunication \/ Exit
  BY <1>4, PhaseStepInv
<1>5. CASE \E w \in Workers : ServeExisting(w)
  BY <1>5, ServeExistingInv
<1>6. CASE \E w \in Workers, r \in Results : ReceiveEqualisedResult(w, r)
  BY <1>6, ReceiveEqualisedResultInv
<1>7. CASE SendHeartbeats
  BY <1>7, SendHeartbeatsInv
<1>8. CASE DismissWorkers
  BY <1>8, DismissWorkersInv
<1> QED
  BY <1>1, <1>2, <1>3, <1>4, <1>5, <1>6, <1>7, <1>8 DEF WorkStep

-----------------------------------------------------------------------------
(* The communication thread and the clock *)

\* A HELO comes from a worker the server knows nothing of.
LEMMA VisitHeloInv ==
  ASSUME IInv, TypeInv', NEW w \in Workers, VisitHelo(w), UNCHANGED workerVars
  PROVE  IInv'
<1>1. /\ UNCHANGED <<phase, unpushed, workResults, equalised_count, images, jobs,
                     connection, work_to_server, bye_to_worker>>
      /\ StageOfPhase' = StageOfPhase
      /\ SameStage
  BY DEF VisitHelo, stageVars, workerVars, SameStage, IInv, UnpushedNowhere,
         StageOfPhase
<1>2. TypeOK
  BY DEF IInv
<1>3. /\ comm_to_server[w] = <<"HELO">>
      /\ comm_to_server' = [comm_to_server EXCEPT ![w] = <<>>]
  <2>1. /\ comm_to_server[w] # <<>>
        /\ Head(comm_to_server[w]) = "HELO"
        /\ comm_to_server' = [comm_to_server EXCEPT ![w] = Tail(@)]
    BY DEF VisitHelo, ReceiveCommand
  <2>2. 1 \in DOMAIN comm_to_server[w] /\ comm_to_server[w][1] = "HELO"
    BY <1>2, <2>1 DEF TypeOK, NetworkTypeOK
  <2>3. comm_to_server[w] = <<"HELO">>
    BY <2>2 DEF IInv, FreshUnknown
  <2> QED
    BY <2>1, <2>3
<1>4. /\ w \notin Registered
      /\ Carried(w) = {}
      /\ w \notin bye_to_worker
      /\ connection[w] \in {"Unconnected", "Gone"}
  BY <1>3 DEF IInv, FreshUnknown, Fresh
<1>5. Registration(w) \in WorkerData /\ Registration(w).work = Queue(w) \ {}
  <2>1. Registration(w).work = {} /\ Queue(w) = {}
    BY <1>4 DEF Registration, Registered, Queue
  <2> QED
    BY <1>2, <2>1, RegistrationType
<1>6. PICK batch \in SUBSET enqueued_work : TransmitWork(w, Registration(w), batch)
  BY DEF VisitHelo, Batches
<1>7. work_to_server' = [work_to_server EXCEPT ![w] = @ \ {}]
  BY <1>1, <1>2 DEF TypeOK, NetworkTypeOK
<1>8. {} \in SUBSET (Queue(w) \cap work_to_server[w])
  OBVIOUS
<1>9. /\ QueuesDisjoint' /\ OnlyStageJobs' /\ UnpushedNowhere'
      /\ CarriedRecorded' /\ UnregisteredIdle'
      /\ \A f \in Files : Completed(f)' <=> Completed(f) \/ StageJob(f) \in {}
  BY <1>1, <1>4, <1>5, <1>6, <1>7, <1>8, TransmitWorkKeeps DEF TypeInv
<1>10. StageOfPhase' = "finished" => equalised_count >= Cardinality(Files)
  BY <1>1 DEF IInv, FinishedAll
<1>11. HistogramsExact' /\ EqualisedCountExact' /\ ImagesExact' /\ FinishedAll'
  BY <1>1, <1>9, <1>10, StillProgress
<1>12. /\ Registered' = Registered \cup {w}
       /\ \A v \in Workers : v # w => work_to_worker'[v] = work_to_worker[v]
  BY <1>2, <1>5, <1>6, TransmitWorkEffect
<1>13. \A v \in Workers : v # w => /\ Carried(v)' = Carried(v)
                                   /\ comm_to_worker'[v] = comm_to_worker[v]
                                   /\ comm_to_server'[v] = comm_to_server[v]
  BY <1>1, <1>2, <1>3, <1>12 DEF Carried, VisitHelo, SendCommands, TypeOK, NetworkTypeOK
<1>14. FreshUnknown'
  <2> SUFFICES ASSUME NEW v \in Workers
               PROVE  /\ \A i \in DOMAIN comm_to_server'[v] :
                           comm_to_server'[v][i] = "HELO" => comm_to_server'[v] = <<"HELO">>
                      /\ connection'[v] = "NotStarted" => comm_to_server'[v] = <<>>
                      /\ Fresh(v)' =>
                           /\ v \notin Registered'
                           /\ Carried(v)' = {}
                           /\ comm_to_worker'[v] = <<>>
                           /\ v \notin bye_to_worker'
                           /\ connection'[v] \in {"NotStarted", "Unconnected", "Gone"}
    BY DEF FreshUnknown
  <2>1. CASE v = w
    <3>1. comm_to_server'[w] = <<>>
      BY <1>2, <1>3 DEF TypeOK, NetworkTypeOK
    <3>2. ~ Fresh(w)'
      BY <1>1, <1>4, <3>1 DEF Fresh
    <3> QED
      BY <1>1, <1>4, <2>1, <3>1, <3>2
  <2>2. CASE v # w
    BY <1>1, <1>12, <1>13, <2>2 DEF IInv, FreshUnknown, Fresh
  <2> QED
    BY <2>1, <2>2
<1>15. DismissedHoldsNoWork'
  BY <1>1, <1>4, <1>12 DEF IInv, DismissedHoldsNoWork
<1> QED
  BY <1>9, <1>11, <1>14, <1>15 DEF IInv, TypeInv

\* Neither a heartbeat's reply nor the time that passes touches a job.
LEMMA HeartbeatStepInv ==
  ASSUME IInv, TypeInv', NEW w, UNCHANGED workerVars,
         \/ w \in Workers /\ (VisitHeartbeatReply(w) \/ IntervalPasses(w))
         \/ CommunicationStops
  PROVE  IInv'
<1>1. TypeOK
  BY DEF IInv
<1>2. /\ UNCHANGED <<phase, enqueued_work, unpushed, workResults, equalised_count,
                     images, jobs, connection, work_to_worker, work_to_server,
                     comm_to_worker, bye_to_worker>>
      /\ StageOfPhase' = StageOfPhase
      /\ SameStage
  BY DEF VisitHeartbeatReply, IntervalPasses, CommunicationStops, stageVars,
         networkVars, workerVars, SameStage, IInv, UnpushedNowhere, StageOfPhase
<1>3. Registered' = Registered /\ \A v \in Workers : Queue(v)' = Queue(v)
  <2>1. CASE w \in Workers /\ VisitHeartbeatReply(w)
    BY <1>1, <2>1 DEF VisitHeartbeatReply, Registered, Queue, TypeOK, ServerTypeOK,
                      WorkerData
  <2>2. CASE w \in Workers /\ IntervalPasses(w)
    BY <1>1, <2>2 DEF IntervalPasses, Registered, Queue, TypeOK, ServerTypeOK,
                      WorkerData
  <2>3. CASE CommunicationStops
    BY <2>3 DEF CommunicationStops, Registered, Queue
  <2> QED
    BY <2>1, <2>2, <2>3
<1>4. StageOfPhase' = "finished" => equalised_count >= Cardinality(Files)
  BY <1>2 DEF IInv, FinishedAll
<1>5. /\ QueuesDisjoint' /\ UnpushedNowhere' /\ HistogramsExact'
      /\ EqualisedCountExact' /\ ImagesExact' /\ FinishedAll'
      /\ StageType' = StageType
  BY <1>2, <1>3, <1>4, StillJobs DEF TypeInv
<1>6. OnlyStageJobs' /\ CarriedRecorded' /\ UnregisteredIdle'
  BY <1>2, <1>3, <1>5, StillCarried
<1>7. \A v \in Workers : Carried(v)' = Carried(v)
  BY <1>2 DEF Carried
<1>8. FreshUnknown' /\ DismissedHoldsNoWork'
  <2>1. CASE w \in Workers /\ VisitHeartbeatReply(w)
    <3>1. /\ comm_to_server[w] # <<>>
          /\ Head(comm_to_server[w]) = "HEARTBEAT_REPLY"
          /\ comm_to_server' = [comm_to_server EXCEPT ![w] = Tail(@)]
      BY <2>1 DEF VisitHeartbeatReply, ReceiveCommand
    <3>2. comm_to_server[w] \in Seq(ToServerCommand)
      BY <1>1, <2>1 DEF TypeOK, NetworkTypeOK
    <3>3. comm_to_server[w][1] # "HELO"
      BY <3>1, <3>2
    <3>4. comm_to_server[w] # <<"HELO">>
      BY <3>3
    <3>5. \A i \in DOMAIN comm_to_server[w] : comm_to_server[w][i] # "HELO"
      BY <2>1, <3>4 DEF IInv, FreshUnknown
    <3>6. \A i \in DOMAIN comm_to_server'[w] : comm_to_server'[w][i] # "HELO"
      <4>1. comm_to_server'[w] = Tail(comm_to_server[w])
        BY <1>1, <2>1, <3>1 DEF TypeOK, NetworkTypeOK
      <4> QED
        BY <3>1, <3>2, <3>5, <4>1
    <3>7. comm_to_server'[w] # <<"HELO">>
      BY <3>6
    <3>8. connection[w] # "NotStarted"
      BY <2>1, <3>1 DEF IInv, FreshUnknown
    <3>9. \A v \in Workers : v # w => comm_to_server'[v] = comm_to_server[v]
      BY <1>1, <3>1 DEF TypeOK, NetworkTypeOK
    <3>10. FreshUnknown'
      BY <1>2, <1>3, <1>7, <3>6, <3>7, <3>8, <3>9 DEF IInv, FreshUnknown, Fresh
    <3> QED
      BY <1>2, <1>3, <3>10 DEF IInv, DismissedHoldsNoWork
  <2>2. CASE (w \in Workers /\ IntervalPasses(w)) \/ CommunicationStops
    <3>1. comm_to_server' = comm_to_server
      BY <2>2 DEF IntervalPasses, CommunicationStops, networkVars
    <3> QED
      BY <1>2, <1>3, <1>7, <3>1, StillConnections
  <2> QED
    BY <2>1, <2>2
<1> QED
  BY <1>5, <1>6, <1>8 DEF IInv, TypeInv

-----------------------------------------------------------------------------
(* The workers *)

\* A step of w that gives it no new work, dismisses nobody, and makes the server
\* hear of w for the first time only if it could not have heard of it before.
LEMMA WorkerKeeps ==
  ASSUME IInv, TypeInv', UNCHANGED serverVars, NEW w \in Workers,
         \A v \in Workers \ {w} :
           /\ connection'[v] = connection[v]
           /\ jobs'[v] = jobs[v]
           /\ work_to_worker'[v] = work_to_worker[v]
           /\ work_to_server'[v] = work_to_server[v]
           /\ comm_to_worker'[v] = comm_to_worker[v]
           /\ comm_to_server'[v] = comm_to_server[v],
         bye_to_worker' \subseteq bye_to_worker,
         Carried(w)' \subseteq Carried(w),
         w \in Registered =>
           /\ work_to_worker'[w] \cap jobs'[w] = {}
           /\ work_to_worker'[w] \cap work_to_server'[w] = {}
           /\ jobs'[w] \cap work_to_server'[w] = {},
         connection'[w] = "Dying" => connection[w] = "Dying" \/ w \in bye_to_worker,
         \A i \in DOMAIN comm_to_server'[w] :
           comm_to_server'[w][i] = "HELO" => comm_to_server'[w] = <<"HELO">>,
         connection'[w] # "NotStarted" \/ comm_to_server'[w] = <<>>,
         Fresh(w)' => /\ Fresh(w)
                      /\ comm_to_worker'[w] = <<>>
                      /\ connection'[w] \in {"NotStarted", "Unconnected", "Gone"}
  PROVE  IInv'
<1>1. /\ QueuesDisjoint' /\ UnpushedNowhere' /\ HistogramsExact'
      /\ EqualisedCountExact' /\ ImagesExact' /\ FinishedAll'
      /\ StageType' = StageType
      /\ Registered' = Registered
      /\ \A v \in Workers : Queue(v)' = Queue(v)
  BY StillServer DEF TypeInv
<1>2. enqueued_work' = enqueued_work /\ phase' = phase
  BY DEF serverVars
<1>3. \A v \in Workers \ {w} : Carried(v)' = Carried(v)
  BY DEF Carried
<1>4. \A v \in Workers : Carried(v)' \subseteq Carried(v)
  BY <1>3
<1>5. Registered \subseteq Workers
  BY DEF IInv, TypeOK, ServerTypeOK, Registered
<1>6. OnlyStageJobs'
  BY <1>1, <1>2, <1>4 DEF IInv, OnlyStageJobs
<1>7. CarriedRecorded'
  <2> SUFFICES ASSUME NEW v \in Registered
               PROVE  /\ Carried(v)' \subseteq Queue(v)'
                      /\ work_to_worker'[v] \cap jobs'[v] = {}
                      /\ work_to_worker'[v] \cap work_to_server'[v] = {}
                      /\ jobs'[v] \cap work_to_server'[v] = {}
    BY <1>1 DEF CarriedRecorded
  <2>1. Carried(v)' \subseteq Queue(v)'
    BY <1>1, <1>4, <1>5 DEF IInv, CarriedRecorded
  <2>2. CASE v = w
    BY <2>1, <2>2
  <2>3. CASE v # w
    BY <1>5, <2>1, <2>3 DEF IInv, CarriedRecorded
  <2> QED
    BY <2>2, <2>3
<1>8. UnregisteredIdle'
  BY <1>1, <1>2, <1>4 DEF IInv, UnregisteredIdle
<1>9. FreshUnknown'
  <2> SUFFICES ASSUME NEW v \in Workers
               PROVE  /\ \A i \in DOMAIN comm_to_server'[v] :
                           comm_to_server'[v][i] = "HELO" => comm_to_server'[v] = <<"HELO">>
                      /\ connection'[v] = "NotStarted" => comm_to_server'[v] = <<>>
                      /\ Fresh(v)' =>
                           /\ v \notin Registered'
                           /\ Carried(v)' = {}
                           /\ comm_to_worker'[v] = <<>>
                           /\ v \notin bye_to_worker'
                           /\ connection'[v] \in {"NotStarted", "Unconnected", "Gone"}
    BY DEF FreshUnknown
  <2>1. Fresh(v) => /\ v \notin Registered
                    /\ Carried(v) = {}
                    /\ v \notin bye_to_worker
    BY DEF IInv, FreshUnknown
  <2>2. CASE v = w
    BY <1>1, <1>4, <2>1, <2>2
  <2>3. CASE v # w
    <3>1. Fresh(v)' = Fresh(v)
      BY <2>3 DEF Fresh
    <3> QED
      BY <1>1, <1>3, <2>1, <2>3, <3>1 DEF IInv, FreshUnknown
  <2> QED
    BY <2>2, <2>3
<1>10. DismissedHoldsNoWork'
  BY <1>1 DEF IInv, DismissedHoldsNoWork
<1> QED
  BY <1>1, <1>6, <1>7, <1>8, <1>9, <1>10 DEF IInv, TypeInv

\* A worker that has had an answer is one the server has heard of.
LEMMA HeardOf ==
  ASSUME IInv, NEW w \in Workers,
         connection[w] \in {"Connected", "Dying"} \/ comm_to_worker[w] # <<>>
  PROVE  /\ ~ Fresh(w)
         /\ connection[w] # "NotStarted"
         /\ comm_to_server[w] # <<"HELO">>
         /\ \A i \in DOMAIN comm_to_server[w] : comm_to_server[w][i] # "HELO"
<1>1. ~ Fresh(w)
  BY DEF IInv, FreshUnknown
<1>2. connection[w] # "NotStarted" /\ comm_to_server[w] # <<"HELO">>
  BY <1>1 DEF Fresh
<1> QED
  BY <1>1, <1>2 DEF IInv, FreshUnknown

\* connect(): a worker says HELO, and reads the EHLO.
LEMMA ConnectInv ==
  ASSUME IInv, TypeInv', NEW w \in Workers, UNCHANGED serverVars,
         (\E known \in SUBSET Sockets : SendHelo(w, known)) \/ VisitEhlo(w)
  PROVE  IInv'
<1>1. NetworkTypeOK /\ WorkerTypeOK
  BY DEF IInv, TypeOK
<1>2. CASE \E known \in SUBSET Sockets : SendHelo(w, known)
  <2>1. /\ connection[w] = "NotStarted"
        /\ connection' = [connection EXCEPT ![w] = "Unconnected"]
        /\ comm_to_server' = [comm_to_server EXCEPT ![w] = <<"HELO">>]
        /\ UNCHANGED <<jobs, work_to_worker, bye_to_worker, work_to_server, comm_to_worker>>
    BY <1>2 DEF SendHelo
  <2>2. Fresh(w) /\ Carried(w) = {} /\ comm_to_worker[w] = <<>>
    BY <2>1 DEF IInv, FreshUnknown, Fresh
  <2>3. Carried(w)' = Carried(w)
    BY <2>1 DEF Carried
  <2>4. connection'[w] = "Unconnected" /\ comm_to_server'[w] = <<"HELO">>
    BY <1>1, <2>1 DEF NetworkTypeOK, WorkerTypeOK
  <2>5. \A v \in Workers \ {w} : /\ connection'[v] = connection[v]
                                 /\ comm_to_server'[v] = comm_to_server[v]
    BY <1>1, <2>1 DEF NetworkTypeOK, WorkerTypeOK
  <2>6. /\ work_to_worker'[w] \cap jobs'[w] = {}
        /\ work_to_worker'[w] \cap work_to_server'[w] = {}
        /\ jobs'[w] \cap work_to_server'[w] = {}
    BY <2>1, <2>2 DEF Carried
  <2> QED
    BY <2>1, <2>2, <2>3, <2>4, <2>5, <2>6, WorkerKeeps
<1>3. CASE VisitEhlo(w)
  <2>1. /\ connection' = [connection EXCEPT ![w] = "Connected"]
        /\ comm_to_worker[w] # <<>>
        /\ comm_to_worker' = [comm_to_worker EXCEPT ![w] = Tail(@)]
        /\ UNCHANGED <<jobs, work_to_worker, bye_to_worker, work_to_server, comm_to_server>>
    BY <1>3 DEF VisitEhlo
  <2>2. connection'[w] = "Connected"
    BY <1>1, <2>1 DEF WorkerTypeOK
  <2>3. ~ Fresh(w)'
    BY <2>1, <2>2, HeardOf DEF Fresh
  <2>4. Carried(w)' = Carried(w)
    BY <2>1 DEF Carried
  <2>5. \A v \in Workers \ {w} : /\ connection'[v] = connection[v]
                                 /\ comm_to_worker'[v] = comm_to_worker[v]
    BY <1>1, <2>1 DEF NetworkTypeOK, WorkerTypeOK
  <2>6. \A i \in DOMAIN comm_to_server'[w] : comm_to_server'[w][i] # "HELO"
    BY <2>1, HeardOf
  <2> QED
    BY <2>1, <2>2, <2>3, <2>4, <2>5, <2>6, WorkerKeeps DEF IInv, CarriedRecorded
<1> QED
  BY <1>2, <1>3

\* Running: a worker takes a job, does one, reads BYE or answers a heartbeat.
LEMMA RunningInv ==
  ASSUME IInv, TypeInv', NEW w \in Workers, UNCHANGED serverVars,
         \/ \E job \in Jobs : VisitJob(w, job) \/ RunJob(w, job)
         \/ VisitBye(w)
         \/ AnswerHeartbeat(w)
  PROVE  IInv'
<1>1. NetworkTypeOK /\ WorkerTypeOK
  BY DEF IInv, TypeOK
<1>2. connection[w] \in {"Connected", "Dying"}
  BY DEF VisitJob, RunJob, VisitBye, AnswerHeartbeat
<1>3. /\ connection[w] # "NotStarted"
      /\ comm_to_server[w] # <<"HELO">>
      /\ \A i \in DOMAIN comm_to_server[w] : comm_to_server[w][i] # "HELO"
  BY <1>2, HeardOf
<1>4. w \in Registered =>
        /\ work_to_worker[w] \cap jobs[w] = {}
        /\ work_to_worker[w] \cap work_to_server[w] = {}
        /\ jobs[w] \cap work_to_server[w] = {}
  BY DEF IInv, CarriedRecorded
<1>5. CASE \E job \in Jobs : VisitJob(w, job)
  <2>1. PICK job \in Jobs : VisitJob(w, job)
    BY <1>5
  <2>2. /\ job \in work_to_worker[w]
        /\ work_to_worker'[w] = work_to_worker[w] \ {job}
        /\ jobs'[w] = jobs[w] \cup {job}
        /\ \A v \in Workers \ {w} : /\ work_to_worker'[v] = work_to_worker[v]
                                    /\ jobs'[v] = jobs[v]
        /\ UNCHANGED <<connection, bye_to_worker, work_to_server, comm_to_worker,
                       comm_to_server>>
    BY <1>1, <2>1 DEF VisitJob, NetworkTypeOK, WorkerTypeOK
  <2>3. Carried(w)' \subseteq Carried(w)
    BY <2>2 DEF Carried
  <2>4. ~ Fresh(w)'
    BY <1>3, <2>2 DEF Fresh
  <2> QED
    BY <1>3, <1>4, <2>2, <2>3, <2>4, WorkerKeeps
<1>6. CASE \E job \in Jobs : RunJob(w, job)
  <2>1. PICK job \in Jobs : RunJob(w, job)
    BY <1>6
  <2>2. ResultOf(job) = job
    BY JobEquality
  <2>3. /\ job \in jobs[w]
        /\ jobs'[w] = jobs[w] \ {job}
        /\ work_to_server'[w] = work_to_server[w] \cup {job}
        /\ \A v \in Workers \ {w} : /\ work_to_server'[v] = work_to_server[v]
                                    /\ jobs'[v] = jobs[v]
        /\ UNCHANGED <<connection, bye_to_worker, work_to_worker, comm_to_worker,
                       comm_to_server>>
    BY <1>1, <2>1, <2>2 DEF RunJob, NetworkTypeOK, WorkerTypeOK
  <2>4. Carried(w)' \subseteq Carried(w)
    BY <2>3 DEF Carried
  <2>5. ~ Fresh(w)'
    BY <1>3, <2>3 DEF Fresh
  <2> QED
    BY <1>3, <1>4, <2>3, <2>4, <2>5, WorkerKeeps
<1>7. CASE VisitBye(w)
  <2>1. /\ w \in bye_to_worker
        /\ bye_to_worker' = bye_to_worker \ {w}
        /\ connection'[w] = "Dying"
        /\ \A v \in Workers \ {w} : connection'[v] = connection[v]
        /\ UNCHANGED <<jobs, work_to_worker, work_to_server, comm_to_worker,
                       comm_to_server>>
    BY <1>1, <1>7 DEF VisitBye, WorkerTypeOK
  <2>2. Carried(w)' \subseteq Carried(w)
    BY <2>1 DEF Carried
  <2>3. ~ Fresh(w)'
    BY <1>3, <2>1 DEF Fresh
  <2> QED
    BY <1>3, <1>4, <2>1, <2>2, <2>3, WorkerKeeps
<1>8. CASE AnswerHeartbeat(w)
  <2>1. /\ comm_to_server'[w] = Append(comm_to_server[w], "HEARTBEAT_REPLY")
        /\ \A v \in Workers \ {w} : /\ comm_to_server'[v] = comm_to_server[v]
                                    /\ comm_to_worker'[v] = comm_to_worker[v]
        /\ UNCHANGED <<connection, jobs, bye_to_worker, work_to_worker, work_to_server>>
    BY <1>1, <1>8 DEF AnswerHeartbeat, NetworkTypeOK
  <2>2. comm_to_server[w] \in Seq(ToServerCommand)
    BY <1>1 DEF NetworkTypeOK
  <2>3. \A i \in DOMAIN comm_to_server'[w] : comm_to_server'[w][i] # "HELO"
    BY <1>3, <2>1, <2>2
  <2>4. ~ Fresh(w)'
    <3>1. comm_to_server'[w] # <<"HELO">>
      BY <2>3
    <3> QED
      BY <1>3, <2>1, <3>1 DEF Fresh
  <2>5. Carried(w)' \subseteq Carried(w)
    BY <2>1 DEF Carried
  <2> QED
    BY <1>3, <1>4, <2>1, <2>3, <2>4, <2>5, WorkerKeeps
<1> QED
  BY <1>5, <1>6, <1>7, <1>8

\* The connection ends: it is closed, times out, or dies with its process.
LEMMA GoneInv ==
  ASSUME IInv, TypeInv', NEW w \in Workers, UNCHANGED serverVars,
         Disconnect(w) \/ ConnectTimeout(w) \/ Crash(w)
  PROVE  IInv'
<1>1. NetworkTypeOK /\ WorkerTypeOK
  BY DEF IInv, TypeOK
<1>2. PICK kept \in SUBSET work_to_server[w], said \in {<<>>, comm_to_server[w]} :
        CloseSockets(w, kept, said)
  BY DEF Disconnect, ConnectTimeout, Crash
<1>3. /\ connection[w] # "NotStarted"
      /\ connection' = [connection EXCEPT ![w] = "Gone"]
      /\ jobs' = [jobs EXCEPT ![w] = {}] \/ jobs' = jobs
  BY DEF Disconnect, ConnectTimeout, Crash
<1>4. /\ connection'[w] = "Gone"
      /\ jobs'[w] \subseteq jobs[w]
      /\ work_to_worker'[w] = {}
      /\ work_to_server'[w] = kept
      /\ comm_to_worker'[w] = <<>>
      /\ comm_to_server'[w] = said
      /\ bye_to_worker' \subseteq bye_to_worker
  BY <1>1, <1>2, <1>3 DEF CloseSockets, NetworkTypeOK, WorkerTypeOK
<1>5. \A v \in Workers \ {w} :
        /\ connection'[v] = connection[v]
        /\ jobs'[v] = jobs[v]
        /\ work_to_worker'[v] = work_to_worker[v]
        /\ work_to_server'[v] = work_to_server[v]
        /\ comm_to_worker'[v] = comm_to_worker[v]
        /\ comm_to_server'[v] = comm_to_server[v]
  BY <1>1, <1>2, <1>3 DEF CloseSockets, NetworkTypeOK, WorkerTypeOK
<1>6. Carried(w)' \subseteq Carried(w)
  BY <1>4 DEF Carried
<1>7. w \in Registered =>
        /\ work_to_worker'[w] \cap jobs'[w] = {}
        /\ work_to_worker'[w] \cap work_to_server'[w] = {}
        /\ jobs'[w] \cap work_to_server'[w] = {}
  BY <1>4 DEF IInv, CarriedRecorded
<1>8. \A i \in DOMAIN comm_to_server'[w] :
        comm_to_server'[w][i] = "HELO" => comm_to_server'[w] = <<"HELO">>
  <2>1. \A i \in DOMAIN comm_to_server[w] :
          comm_to_server[w][i] = "HELO" => comm_to_server[w] = <<"HELO">>
    BY DEF IInv, FreshUnknown
  <2>2. CASE said = <<>>
    BY <1>4, <2>2
  <2>3. CASE said = comm_to_server[w]
    BY <1>4, <2>1, <2>3
  <2> QED
    BY <2>2, <2>3
<1>9. Fresh(w)' => Fresh(w)
  <2>1. <<>> # <<"HELO">>
    OBVIOUS
  <2> QED
    BY <1>4, <2>1 DEF Fresh
<1> QED
  BY <1>4, <1>5, <1>6, <1>7, <1>8, <1>9, WorkerKeeps

\* No step of a worker, of its failures or of its routes disturbs the invariant.
LEMMA WorkerStepInv ==
  ASSUME IInv, TypeInv', NEW w \in Workers,
         StartWorker(w) \/ WorkerStep(w) \/ WorkerFault(w) \/ RouteFound(w)
  PROVE  IInv'
<1>1. UNCHANGED serverVars
  BY DEF StartWorker, WorkerStep, WorkerFault, RouteFound
<1>2. CASE StartWorker(w)
  BY <1>1, <1>2, ConnectInv DEF StartWorker, Sockets
<1>3. CASE WorkerStep(w)
  BY <1>1, <1>3, ConnectInv, RunningInv, GoneInv DEF WorkerStep
<1>4. CASE WorkerFault(w)
  BY <1>1, <1>4, GoneInv DEF WorkerFault
<1>5. CASE RouteFound(w)
  <2>1. UNCHANGED <<connection, jobs, work_to_worker, bye_to_worker, work_to_server,
                    comm_to_worker, comm_to_server>>
    BY <1>5 DEF RouteFound, RouteWork, workerVars
  <2>2. Carried(w)' = Carried(w) /\ Fresh(w)' = Fresh(w)
    BY <2>1 DEF Carried, Fresh
  <2>3. /\ \A i \in DOMAIN comm_to_server[w] :
             comm_to_server[w][i] = "HELO" => comm_to_server[w] = <<"HELO">>
        /\ connection[w] # "NotStarted" \/ comm_to_server[w] = <<>>
        /\ Fresh(w) => /\ comm_to_worker[w] = <<>>
                       /\ connection[w] \in {"NotStarted", "Unconnected", "Gone"}
    BY DEF IInv, FreshUnknown
  <2> QED
    BY <1>1, <2>1, <2>2, <2>3, WorkerKeeps DEF IInv, CarriedRecorded
<1> QED
  BY <1>2, <1>3, <1>4, <1>5

-----------------------------------------------------------------------------
(* The invariant, and what follows from it *)

LEMMA IInvInit == Init => IInv
<1> SUFFICES ASSUME Init PROVE IInv
  OBVIOUS
<1>1. TypeOK /\ ExistingRegistered
  BY TypeInvInit DEF TypeInv
<1>2. /\ phase = "receive_histograms"
      /\ unpushed = {} /\ workResults = {} /\ equalised_count = 0
      /\ enqueued_work = {HistogramJob(f) : f \in Files}
      /\ Registered = {}
      /\ bye_to_worker = {}
      /\ \A w \in Workers : /\ connection[w] = "NotStarted"
                            /\ jobs[w] = {}
                            /\ work_to_worker[w] = {}
                            /\ work_to_server[w] = {}
                            /\ comm_to_worker[w] = <<>>
                            /\ comm_to_server[w] = <<>>
  BY DEF Init, ServerInit, NetworkInit, WorkerInit, Registered
<1>3. StageType = "HISTOGRAM" /\ \A f \in Files : StageJob(f) = HistogramJob(f)
  BY <1>2 DEF StageType, StageJob
<1>4. \A w \in Workers : Queue(w) = {} /\ Carried(w) = {}
  BY <1>2 DEF Queue, Carried
<1>5. QueuesDisjoint /\ CarriedRecorded /\ UnregisteredIdle
  BY <1>2, <1>4 DEF QueuesDisjoint, CarriedRecorded, UnregisteredIdle
<1>6. OnlyStageJobs
  BY <1>2, <1>3, <1>4, JobEquality DEF OnlyStageJobs
<1>7. UnpushedNowhere /\ EqualisedCountExact /\ ImagesExact /\ FinishedAll
  BY <1>2 DEF UnpushedNowhere, EqualisedCountExact, ImagesExact, FinishedAll, StageOfPhase
<1>8. HistogramsExact
  BY <1>2, <1>3 DEF HistogramsExact, Completed, Waiting
<1>9. FreshUnknown /\ DismissedHoldsNoWork
  BY <1>2, <1>4 DEF FreshUnknown, Fresh, DismissedHoldsNoWork
<1> QED
  BY <1>1, <1>5, <1>6, <1>7, <1>8, <1>9 DEF IInv

LEMMA IInvStep == IInv /\ [Next]_vars => IInv'
<1> SUFFICES ASSUME IInv, [Next]_vars PROVE IInv'
  OBVIOUS
<1>1. TypeInv'
  BY TypeInvStep DEF IInv, TypeInv
<1>2. CASE ServerNext /\ UNCHANGED workerVars
  <2>1. CASE WorkStep
    BY <1>1, <1>2, <2>1, WorkStepInv
  <2>2. CASE \E w \in Workers : VisitHelo(w)
    BY <1>1, <1>2, <2>2, VisitHeloInv
  <2>3. CASE \E w \in Workers : VisitHeartbeatReply(w) \/ IntervalPasses(w)
    BY <1>1, <1>2, <2>3, HeartbeatStepInv
  <2>4. CASE CommunicationStops
    BY <1>1, <1>2, <2>4, HeartbeatStepInv
  <2> QED
    BY <1>2, <2>1, <2>2, <2>3, <2>4 DEF ServerNext
<1>3. CASE \E w \in Workers :
             StartWorker(w) \/ WorkerStep(w) \/ WorkerFault(w) \/ RouteFound(w)
  BY <1>1, <1>3, WorkerStepInv
<1>4. CASE UNCHANGED vars
  <2>1. /\ UNCHANGED serverVars
        /\ UNCHANGED <<connection, jobs, work_to_worker, bye_to_worker, work_to_server,
                       comm_to_worker, comm_to_server>>
    BY <1>4 DEF vars, networkVars, workerVars
  <2>2. /\ QueuesDisjoint' /\ UnpushedNowhere' /\ HistogramsExact'
        /\ EqualisedCountExact' /\ ImagesExact' /\ FinishedAll'
        /\ StageType' = StageType
        /\ Registered' = Registered
        /\ \A w \in Workers : Queue(w)' = Queue(w)
    BY <1>1, <2>1, StillServer DEF TypeInv
  <2>3. OnlyStageJobs' /\ CarriedRecorded' /\ UnregisteredIdle'
    BY <2>1, <2>2, StillCarried DEF serverVars
  <2>4. \A w \in Workers : Carried(w)' = Carried(w)
    BY <2>1 DEF Carried
  <2>5. FreshUnknown' /\ DismissedHoldsNoWork'
    BY <2>1, <2>2, <2>4, StillConnections
  <2> QED
    BY <1>1, <2>2, <2>3, <2>5 DEF IInv, TypeInv
<1> QED
  BY <1>2, <1>3, <1>4 DEF Next

\* The invariant from which the properties below follow holds in every state:
\* queues are disjoint, what a worker carries is what the server has recorded, and
\* the counters agree with the jobs left.
THEOREM InvariantHolds == Spec => []IInv
  BY IInvInit, IInvStep, PTL DEF Spec

\* The server neither loses a job nor hands it to two workers, whatever joins,
\* losses, crashes and dismissals there are.
THEOREM JobsAreConserved == Spec => []JobsConserved
<1>1. IInv => JobsConserved
  <2> SUFFICES ASSUME IInv, NEW f \in Files
               PROVE  /\ ~ (f \in unpushed /\ StageJob(f) \in enqueued_work)
                      /\ Waiting(f) => HoldersOf(f) = {}
                      /\ \A v, w \in HoldersOf(f) : v = w
                      /\ Completed(f) => Collected(f)
    BY DEF JobsConserved
  <2>1. \A w \in HoldersOf(f) : w \in Workers /\ StageJob(f) \in Queue(w)
    BY DEF HoldersOf, Queue, IInv, TypeOK, ServerTypeOK, Registered
  <2>2. f \in unpushed => /\ StageJob(f) \notin enqueued_work
                          /\ \A w \in Workers : StageJob(f) \notin Queue(w)
    BY DEF IInv, UnpushedNowhere, StageJob
  <2>3. Waiting(f) => HoldersOf(f) = {}
    BY <2>1, <2>2 DEF Waiting, IInv, QueuesDisjoint
  <2>4. \A v, w \in HoldersOf(f) : v = w
    BY <2>1 DEF IInv, QueuesDisjoint
  <2>5. Completed(f) => Collected(f)
    BY DEF IInv, HistogramsExact, ImagesExact, Collected
  <2> QED
    BY <2>2, <2>3, <2>4, <2>5
<1> QED
  BY InvariantHolds, <1>1, PTL

\* assert(enqueued_work.empty()) after receive_histograms (server.cpp:76) holds,
\* and no histogram job is left with a worker either.
THEOREM HistogramsAreDrained == Spec => []HistogramsDrained
<1>1. IInv => HistogramsDrained
  <2> SUFFICES ASSUME IInv, phase # "receive_histograms" \/ workResults = Files
               PROVE  /\ \A job \in enqueued_work : job.type # "HISTOGRAM"
                      /\ \A w \in Registered : \A job \in worker_queues[w].work :
                           job.type # "HISTOGRAM"
    BY DEF HistogramsDrained
  <2>1. \A w \in Registered : w \in Workers /\ worker_queues[w].work = Queue(w)
    BY DEF Queue, IInv, TypeOK, ServerTypeOK, Registered
  <2>2. CASE phase # "receive_histograms"
    BY <2>1, <2>2 DEF IInv, OnlyStageJobs, StageType
  <2>3. CASE phase = "receive_histograms" /\ workResults = Files
    <3>1. CompletedFiles = Files
      BY <2>3 DEF IInv, HistogramsExact, CompletedFiles
    <3> QED
      BY <2>1, <3>1, NothingLeft
  <2> QED
    BY <2>2, <2>3
<1> QED
  BY InvariantHolds, <1>1, PTL

\* The counter that ends receive_equalised is the number of files whose job is
\* completed: no repeated and no late result of a dismissed worker is counted.
THEOREM EqualisedCountIsExact == Spec => []EqualisedCountExact
<1>1. IInv => EqualisedCountExact
  BY DEF IInv
<1> QED
  BY InvariantHolds, <1>1, PTL

\* When serve_work dismisses its workers and when it ends, every image is written.
THEOREM ImagesAreComplete == Spec => []ImagesComplete
<1>1. IInv => ImagesComplete
  <2> SUFFICES ASSUME IInv, StageOfPhase = "finished" PROVE images = Files
    BY DEF ImagesComplete, StageOfPhase
  <2>1. phase # "receive_histograms"
    BY DEF StageOfPhase
  <2>2. CompletedFiles = Files
    BY <2>1, EqualisationOver
  <2> QED
    BY <2>1, <2>2 DEF IInv, ImagesExact, CompletedFiles, TypeOK, ServerTypeOK
<1> QED
  BY InvariantHolds, <1>1, PTL

\* queue.erase(find_if(...)) (server.cpp:369, 410) never erases end().
THEOREM EraseAlwaysFindsJob == Spec => []EraseFindsJob
<1>1. IInv => EraseFindsJob
  <2> SUFFICES ASSUME IInv, NEW w \in Registered, NEW r \in work_to_server[w]
               PROVE  \E job \in worker_queues[w].work : Matches(job, r)
    BY DEF EraseFindsJob
  <2>1. w \in Workers /\ r \in Jobs
    BY JobEquality DEF IInv, TypeOK, ServerTypeOK, NetworkTypeOK, Registered
  <2>2. r \in worker_queues[w].work
    BY DEF IInv, CarriedRecorded, Carried, Queue
  <2>3. Matches(r, r)
    BY <2>1, JobEquality
  <2> QED
    BY <2>2, <2>3
<1> QED
  BY InvariantHolds, <1>1, PTL

\* No result of the other stage is ever on its way to the server.
THEOREM ResultsAreOfTheStage == Spec => []ResultsOfTheStage
<1>1. IInv => ResultsOfTheStage
  <2> SUFFICES ASSUME IInv, NEW w \in Workers, NEW r \in work_to_server[w]
               PROVE  r.type = IF phase = "receive_histograms" /\ workResults # Files
                               THEN "HISTOGRAM" ELSE "EQUALISATION"
    BY DEF ResultsOfTheStage
  <2>1. r \in Carried(w) /\ r.type = StageType
    BY DEF Carried, IInv, OnlyStageJobs
  <2>2. CASE phase # "receive_histograms" \/ workResults # Files
    BY <2>1, <2>2 DEF StageType
  <2>3. CASE phase = "receive_histograms" /\ workResults = Files
    <3>1. CompletedFiles = Files
      BY <2>3 DEF IInv, HistogramsExact, CompletedFiles
    <3>2. Carried(w) = {}
      BY <2>3, <3>1, NothingLeft DEF IInv, UnregisteredIdle
    <3> QED
      BY <2>1, <3>2
  <2> QED
    BY <2>2, <2>3
<1> QED
  BY InvariantHolds, <1>1, PTL

\* A worker that has been told BYE is forgotten by the server, so that its jobs
\* are no longer its own.
THEOREM DismissedHoldNoWork == Spec => []DismissedHoldsNoWork
<1>1. IInv => DismissedHoldsNoWork
  BY DEF IInv
<1> QED
  BY InvariantHolds, <1>1, PTL
=============================================================================
