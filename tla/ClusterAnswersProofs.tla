------------------------- MODULE ClusterAnswersProofs -------------------------
(***************************************************************************)
(* Queues within their limits, answers to the requests they are for, and   *)
(* dismissals of dead workers only: proofs of AnswersInv and of the        *)
(* properties that follow from it.                                         *)
(***************************************************************************)
EXTENDS ClusterSafetyProofs, FunctionTheorems

-----------------------------------------------------------------------------
(* How often a command occurs in a channel *)

LEMMA OccurrencesNat ==
  ASSUME NEW S, NEW s \in Seq(S), NEW c
  PROVE  /\ IsFiniteSet({i \in DOMAIN s : s[i] = c})
         /\ Occurrences(c, s) \in Nat
<1>1. DOMAIN s = 1 .. Len(s) /\ Len(s) \in Nat
  OBVIOUS
<1>2. IsFiniteSet(1 .. Len(s))
  BY <1>1, FS_Interval
<1> QED
  BY <1>1, <1>2, FS_Subset, FS_CardinalityType DEF Occurrences

LEMMA OccurrencesEmpty ==
  ASSUME NEW c
  PROVE  Occurrences(c, <<>>) = 0
<1>1. {i \in DOMAIN <<>> : <<>>[i] = c} = {}
  OBVIOUS
<1> QED
  BY <1>1, FS_EmptySet DEF Occurrences

LEMMA OccurrencesAppend ==
  ASSUME NEW S, NEW s \in Seq(S), NEW c, NEW d \in S
  PROVE  Occurrences(c, Append(s, d)) = Occurrences(c, s) + (IF d = c THEN 1 ELSE 0)
<1> DEFINE Places == {i \in DOMAIN s : s[i] = c}
           After == {i \in DOMAIN Append(s, d) : Append(s, d)[i] = c}
<1>1. /\ Len(s) \in Nat /\ DOMAIN s = 1 .. Len(s)
      /\ DOMAIN Append(s, d) = 1 .. Len(s) + 1
      /\ \A i \in 1 .. Len(s) : Append(s, d)[i] = s[i]
      /\ Append(s, d)[Len(s) + 1] = d
  OBVIOUS
<1>2. After = IF d = c THEN Places \cup {Len(s) + 1} ELSE Places
  BY <1>1
<1>3. Len(s) + 1 \notin Places
  BY <1>1
<1>4. IsFiniteSet(Places) /\ Cardinality(Places) \in Nat
  BY OccurrencesNat DEF Occurrences
<1> HIDE DEF Places, After
<1>5. Cardinality(After) = Cardinality(Places) + (IF d = c THEN 1 ELSE 0)
  <2>1. CASE d = c
    <3>1. Cardinality(Places \cup {Len(s) + 1}) = Cardinality(Places) + 1
      BY <1>3, <1>4, FS_AddElement
    <3> QED
      BY <1>2, <2>1, <3>1
  <2>2. CASE d # c
    BY <1>2, <1>4, <2>2
  <2> QED
    BY <2>1, <2>2
<1> QED
  BY <1>5 DEF Occurrences, Places, After

LEMMA OccurrencesTail ==
  ASSUME NEW S, NEW s \in Seq(S), NEW c, s # <<>>
  PROVE  Occurrences(c, s) = Occurrences(c, Tail(s)) + (IF Head(s) = c THEN 1 ELSE 0)
<1> DEFINE Places == {i \in DOMAIN s : s[i] = c}
           Later == {i \in DOMAIN s : s[i] = c /\ i # 1}
           Places1 == {i \in DOMAIN Tail(s) : Tail(s)[i] = c}
           Shift == [i \in Places1 |-> i + 1]
<1>1. /\ Len(s) \in Nat \ {0} /\ DOMAIN s = 1 .. Len(s)
      /\ Tail(s) \in Seq(S)
      /\ DOMAIN Tail(s) = 1 .. Len(s) - 1
      /\ \A i \in 1 .. Len(s) - 1 : Tail(s)[i] = s[i + 1]
      /\ Head(s) = s[1]
  OBVIOUS
<1>2. Shift \in Bijection(Places1, Later)
  <2>1. Shift \in [Places1 -> Later]
    BY <1>1
  <2>2. \A i, j \in Places1 : Shift[i] = Shift[j] => i = j
    BY <1>1
  <2>3. ASSUME NEW j \in Later
        PROVE  \E i \in Places1 : Shift[i] = j
    <3>1. j - 1 \in Places1 /\ Shift[j - 1] = j
      BY <1>1
    <3> QED
      BY <3>1
  <2> QED
    BY <2>1, <2>2, <2>3 DEF Bijection, Injection, IsInjective, Surjection
<1>3. IsFiniteSet(Places1) /\ Cardinality(Places1) \in Nat
  BY <1>1, OccurrencesNat DEF Occurrences
<1>4. IsFiniteSet(Later) /\ Cardinality(Later) = Cardinality(Places1)
  <2>1. ExistsBijection(Places1, Later)
    BY <1>2 DEF ExistsBijection
  <2> HIDE DEF Places1, Later
  <2> QED
    BY <2>1, <1>3, FS_Bijection
<1>5. Places = IF Head(s) = c THEN Later \cup {1} ELSE Later
  BY <1>1
<1>6. 1 \notin Later
  OBVIOUS
<1> HIDE DEF Places, Later, Places1
<1>7. Cardinality(Places) = Cardinality(Places1) + (IF Head(s) = c THEN 1 ELSE 0)
  <2>1. CASE Head(s) = c
    <3>1. Cardinality(Later \cup {1}) = Cardinality(Later) + 1
      BY <1>4, <1>6, FS_AddElement
    <3> QED
      BY <1>4, <1>5, <2>1, <3>1
  <2>2. CASE Head(s) # c
    BY <1>3, <1>4, <1>5, <2>2
  <2> QED
    BY <2>1, <2>2
<1> QED
  BY <1>7 DEF Occurrences, Places, Places1

\* What VisitHelo answers holds one request.
LEMMA OccurrencesWelcome == Occurrences("HEARTBEAT_REQUEST", Welcome) = 1
<1>1. {i \in DOMAIN Welcome : Welcome[i] = "HEARTBEAT_REQUEST"} = {2}
  BY DEF Welcome
<1> QED
  BY <1>1, FS_Singleton DEF Occurrences

-----------------------------------------------------------------------------
(* Queues keep within their limits *)

\* The set of jobs there may be is finite.
LEMMA JobsFinite == IsFiniteSet(Jobs)
<1> DEFINE JobAt == [p \in JobType \X Files |-> [type |-> p[1], filename |-> p[2]]]
<1>1. IsFiniteSet(JobType)
  <2>1. IsFiniteSet({"HISTOGRAM"}) /\ IsFiniteSet({"EQUALISATION"})
    BY FS_Singleton
  <2>2. JobType = {"HISTOGRAM"} \cup {"EQUALISATION"}
    BY DEF JobType
  <2> QED
    BY <2>1, <2>2, FS_Union
<1>2. IsFiniteSet(JobType \X Files)
  BY <1>1, FilesAssumption, FS_Product
<1>3. JobAt \in Surjection(JobType \X Files, Jobs)
  <2>1. JobAt \in [JobType \X Files -> Jobs]
    BY DEF Jobs
  <2>2. ASSUME NEW job \in Jobs
        PROVE  \E p \in JobType \X Files : JobAt[p] = job
    <3>1. /\ <<job.type, job.filename>> \in JobType \X Files
          /\ JobAt[<<job.type, job.filename>>] = job
      BY DEF Jobs
    <3> QED
      BY <3>1
  <2> QED
    BY <2>1, <2>2 DEF Surjection
<1> QED
  BY <1>2, <1>3, FS_Surjection

\* transmit_work fills a queue up to its worker's concurrency, and no further.
LEMMA TransmitWorkCapacity ==
  ASSUME TypeOK, CapacityKept, NEW w \in Workers, NEW data \in WorkerData,
         NEW batch \in Batches(data), TransmitWork(w, data, batch),
         data.concurrency = Minimum(Concurrency[w], MAX_WORKER_QUEUE),
         Cardinality(data.work) <= data.concurrency
  PROVE  CapacityKept'
<1>1. /\ Registered' = Registered \cup {w}
      /\ worker_queues'[w] = [data EXCEPT !.work = @ \cup batch]
      /\ \A v \in Registered \ {w} : worker_queues'[v] = worker_queues[v]
  BY DEF TransmitWork, Registered
<1>2. batch \in SUBSET enqueued_work /\ Cardinality(batch) = Room(data)
  BY DEF Batches
<1>3. /\ IsFiniteSet(data.work) /\ Cardinality(data.work) \in Nat
      /\ IsFiniteSet(batch) /\ Cardinality(batch) \in Nat
      /\ IsFiniteSet(enqueued_work) /\ Cardinality(enqueued_work) \in Nat
      /\ data.concurrency \in Nat
  BY <1>2, JobsFinite, FS_Subset, FS_CardinalityType
     DEF TypeOK, ServerTypeOK, WorkerData
<1>4. Cardinality(data.work \cup batch) <= Cardinality(data.work) + Cardinality(batch)
  <2>1. /\ Cardinality(data.work \cup batch) =
             Cardinality(data.work) + Cardinality(batch) - Cardinality(data.work \cap batch)
        /\ Cardinality(data.work \cap batch) \in Nat
    BY <1>3, FS_Union, FS_Intersection, FS_CardinalityType
  <2> QED
    BY <1>3, <2>1
<1>5. Cardinality(batch) <= data.concurrency - Cardinality(data.work)
  BY <1>2, <1>3 DEF Room, Minimum
<1>6. Cardinality(data.work \cup batch) <= data.concurrency
  <2>1. Cardinality(data.work \cup batch) \in Nat
    BY <1>3, FS_Union, FS_CardinalityType
  <2> QED
    BY <1>3, <1>4, <1>5, <2>1
<1>7. /\ worker_queues'[w].work = data.work \cup batch
      /\ worker_queues'[w].concurrency = data.concurrency
  BY <1>1 DEF WorkerData
<1> QED
  BY <1>1, <1>6, <1>7 DEF CapacityKept

\* A result makes room for one more job.
LEMMA CompleteJobCapacity ==
  ASSUME TypeOK, CapacityKept, NEW w \in Registered, NEW r \in Results, CompleteJob(w, r)
  PROVE  CapacityKept'
<1> DEFINE Erased(job) == [worker_queues[w] EXCEPT !.work = @ \ {job}]
<1>1. w \in Workers /\ worker_queues[w] \in WorkerData
  BY DEF TypeOK, ServerTypeOK, Registered
<1>2. PICK job \in worker_queues[w].work :
        \E batch \in Batches(Erased(job)) : TransmitWork(w, Erased(job), batch)
  BY DEF CompleteJob
<1>3. /\ Erased(job) \in WorkerData
      /\ Erased(job).work = worker_queues[w].work \ {job}
      /\ Erased(job).concurrency = worker_queues[w].concurrency
  BY <1>1 DEF WorkerData
<1>4. IsFiniteSet(worker_queues[w].work)
  BY <1>1, JobsFinite, FS_Subset DEF WorkerData
<1>5. /\ Cardinality(Erased(job).work) <= Cardinality(worker_queues[w].work)
      /\ Cardinality(Erased(job).work) \in Nat
      /\ Cardinality(worker_queues[w].work) \in Nat
      /\ worker_queues[w].concurrency \in Nat
  <2>1. Erased(job).work \in SUBSET worker_queues[w].work
    BY <1>3
  <2> QED
    BY <1>1, <1>4, <2>1, FS_Subset, FS_CardinalityType DEF WorkerData
<1> HIDE DEF Erased
<1>6. PICK batch \in Batches(Erased(job)) : TransmitWork(w, Erased(job), batch)
  BY <1>2
<1>7. /\ Erased(job).concurrency = Minimum(Concurrency[w], MAX_WORKER_QUEUE)
      /\ Cardinality(Erased(job).work) <= Erased(job).concurrency
  BY <1>3, <1>5 DEF CapacityKept
<1> QED
  BY <1>1, <1>3, <1>6, <1>7, TransmitWorkCapacity

LEMMA CapacityStep ==
  ASSUME TypeOK, ExistingRegistered, CapacityKept, [Next]_vars
  PROVE  CapacityKept'
<1>1. CASE UNCHANGED worker_queues
  BY <1>1 DEF CapacityKept, Registered
<1>2. ASSUME NEW w \in Workers, NEW r \in Results,
             ReceiveHistogramResult(w, r) \/ ReceiveEqualisedResult(w, r),
             ~ UNCHANGED worker_queues
      PROVE  CapacityKept'
  <2>1. w \in Registered /\ CompleteJob(w, r)
    BY <1>2 DEF ReceiveHistogramResult, ReceiveEqualisedResult, Registered
  <2> QED
    BY <2>1, CompleteJobCapacity
<1>3. ASSUME NEW w \in Workers, ServeExisting(w)
      PROVE  CapacityKept'
  <2>1. w \in Registered /\ worker_queues[w] \in WorkerData
    BY <1>3 DEF ServeExisting, ExistingRegistered, Registered, TypeOK, ServerTypeOK
  <2>2. PICK batch \in Batches(worker_queues[w]) :
          TransmitWork(w, worker_queues[w], batch)
    BY <1>3 DEF ServeExisting
  <2> QED
    BY <2>1, <2>2, TransmitWorkCapacity DEF CapacityKept
<1>4. CASE SendHeartbeats
  <2>1. \A w \in Registered :
          /\ Requested(worker_queues[w]).work = worker_queues[w].work
          /\ Requested(worker_queues[w]).concurrency = worker_queues[w].concurrency
    BY DEF Requested, Registered, TypeOK, ServerTypeOK, WorkerData
  <2>2. \A w \in Registered' : /\ w \in Registered
                               /\ worker_queues'[w].work = worker_queues[w].work
                               /\ worker_queues'[w].concurrency = worker_queues[w].concurrency
    BY <1>4, <2>1 DEF SendHeartbeats, Registered
  <2> QED
    BY <2>2 DEF CapacityKept
<1>5. CASE DismissWorkers
  BY <1>5 DEF DismissWorkers, CapacityKept, Registered
<1>6. ASSUME NEW w \in Workers, VisitHelo(w)
      PROVE  CapacityKept'
  <2>1. Registration(w) \in WorkerData
    BY RegistrationType
  <2>2. Minimum(Concurrency[w], MAX_WORKER_QUEUE) \in Nat
    BY MinimumNat, ServerAssumption
  <2>3. /\ Registration(w).concurrency = Minimum(Concurrency[w], MAX_WORKER_QUEUE)
        /\ Cardinality(Registration(w).work) <= Registration(w).concurrency
    BY <2>2, FS_EmptySet DEF Registration, CapacityKept, Registered
  <2>4. PICK batch \in Batches(Registration(w)) : TransmitWork(w, Registration(w), batch)
    BY <1>6 DEF VisitHelo
  <2> QED
    BY <2>1, <2>3, <2>4, TransmitWorkCapacity
<1>7. ASSUME NEW w \in Workers, VisitHeartbeatReply(w) \/ IntervalPasses(w)
      PROVE  CapacityKept'
  <2>1. \A v \in Registered' : /\ v \in Registered
                               /\ worker_queues'[v].work = worker_queues[v].work
                               /\ worker_queues'[v].concurrency = worker_queues[v].concurrency
    BY <1>7 DEF VisitHeartbeatReply, IntervalPasses, Registered, TypeOK, ServerTypeOK,
                WorkerData
  <2> QED
    BY <2>1 DEF CapacityKept
<1>8. CASE \/ HistogramsComplete \/ StartEqualising \/ ServeExistingStarts
           \/ ExistingServed \/ ReceiveTimeout \/ StopCommunication \/ Exit
           \/ (\E f \in Files : PushEqualisationJob(f)) \/ CommunicationStops
  BY <1>1, <1>8
     DEF HistogramsComplete, StartEqualising, ServeExistingStarts, ExistingServed,
         ReceiveTimeout, StopCommunication, Exit, PushEqualisationJob, CommunicationStops
<1>9. CASE \/ (\E w \in Workers : StartWorker(w) \/ WorkerStep(w) \/ WorkerFault(w)
                                  \/ RouteFound(w))
           \/ UNCHANGED vars
  BY <1>1, <1>9 DEF StartWorker, WorkerStep, WorkerFault, RouteFound, serverVars, vars
<1> QED
  BY <1>1, <1>2, <1>3, <1>4, <1>5, <1>6, <1>7, <1>8, <1>9 DEF Next, ServerNext, WorkStep
-----------------------------------------------------------------------------
(* What the steps do to routes, commands and the records of replies *)

\* A step of the server that has nothing to do with commands: it may dismiss
\* workers, and changes no record of a reply.
Quiet ==
  /\ UNCHANGED <<comm_to_worker, comm_to_server, connection, routes>>
  /\ Registered' \subseteq Registered
  /\ \A w \in Registered' :
       /\ worker_queues'[w].heartbeat_reply_received = worker_queues[w].heartbeat_reply_received
       /\ worker_queues'[w].request_overdue = worker_queues[w].request_overdue

\* transmit_work touches neither commands nor the records of replies.
LEMMA TransmitWorkQuiet ==
  ASSUME TypeOK, NEW w \in Registered, NEW data \in WorkerData,
         NEW batch \in Batches(data), TransmitWork(w, data, batch),
         data.heartbeat_reply_received = worker_queues[w].heartbeat_reply_received,
         data.request_overdue = worker_queues[w].request_overdue,
         UNCHANGED <<comm_to_worker, comm_to_server, connection, routes>>
  PROVE  Quiet
<1>1. /\ Registered' = Registered
      /\ worker_queues'[w] = [data EXCEPT !.work = @ \cup batch]
      /\ \A v \in Registered \ {w} : worker_queues'[v] = worker_queues[v]
  BY DEF TransmitWork, Registered
<1>2. /\ worker_queues'[w].heartbeat_reply_received = data.heartbeat_reply_received
      /\ worker_queues'[w].request_overdue = data.request_overdue
  BY <1>1 DEF WorkerData
<1> QED
  BY <1>1, <1>2 DEF Quiet

\* Of the main thread and its work thread only send_heartbeats deals with commands.
LEMMA WorkStepQuiet ==
  ASSUME TypeOK, ExistingRegistered, WorkStep, UNCHANGED workerVars, ~ SendHeartbeats
  PROVE  Quiet
<1>1. ASSUME NEW w \in Workers, NEW r \in Results,
             ReceiveHistogramResult(w, r) \/ ReceiveEqualisedResult(w, r)
      PROVE  Quiet
  <2>1. UNCHANGED <<comm_to_worker, comm_to_server, connection, routes>>
    BY <1>1 DEF ReceiveHistogramResult, ReceiveEqualisedResult, workerVars
  <2>2. CASE UNCHANGED worker_queues
    BY <2>1, <2>2 DEF Quiet, Registered
  <2>3. CASE ~ UNCHANGED worker_queues
    <3> DEFINE Erased(job) == [worker_queues[w] EXCEPT !.work = @ \ {job}]
    <3>1. w \in Registered /\ CompleteJob(w, r)
      BY <1>1, <2>3 DEF ReceiveHistogramResult, ReceiveEqualisedResult, Registered
    <3>2. worker_queues[w] \in WorkerData
      BY <3>1 DEF TypeOK, ServerTypeOK, Registered
    <3>3. PICK job \in worker_queues[w].work :
            \E batch \in Batches(Erased(job)) : TransmitWork(w, Erased(job), batch)
      BY <3>1 DEF CompleteJob
    <3>4. /\ Erased(job) \in WorkerData
          /\ Erased(job).heartbeat_reply_received = worker_queues[w].heartbeat_reply_received
          /\ Erased(job).request_overdue = worker_queues[w].request_overdue
      BY <3>2 DEF WorkerData
    <3> HIDE DEF Erased
    <3> QED
      BY <2>1, <3>1, <3>3, <3>4, TransmitWorkQuiet
  <2> QED
    BY <2>2, <2>3
<1>2. ASSUME NEW w \in Workers, ServeExisting(w)
      PROVE  Quiet
  <2>1. w \in Registered /\ worker_queues[w] \in WorkerData
    BY <1>2 DEF ServeExisting, ExistingRegistered, Registered, TypeOK, ServerTypeOK
  <2>2. UNCHANGED <<comm_to_worker, comm_to_server, connection, routes>>
    BY <1>2 DEF ServeExisting, workerVars
  <2> QED
    BY <1>2, <2>1, <2>2, TransmitWorkQuiet DEF ServeExisting
<1>3. CASE DismissWorkers
  BY <1>3 DEF DismissWorkers, Quiet, Registered, workerVars
<1>4. CASE \/ HistogramsComplete \/ StartEqualising \/ ServeExistingStarts
           \/ ExistingServed \/ ReceiveTimeout \/ StopCommunication \/ Exit
           \/ (\E f \in Files : PushEqualisationJob(f))
  BY <1>4 DEF HistogramsComplete, StartEqualising, ServeExistingStarts, ExistingServed,
              ReceiveTimeout, StopCommunication, Exit, PushEqualisationJob, Quiet,
              Registered, workerVars, networkVars
<1> QED
  BY <1>1, <1>2, <1>3, <1>4 DEF WorkStep

\* send_heartbeats: who is sent a request is no longer one whose reply is recorded.
LEMMA SendHeartbeatsEffect ==
  ASSUME TypeOK, SendHeartbeats
  PROVE  /\ Registered' = Registered \ Unanswered
         /\ \A w \in Answered :
              /\ Recorded(w)
              /\ ~ Recorded(w)'
              /\ w \in Registered' => ~ worker_queues'[w].request_overdue
              /\ w \in Workers =>
                   \/ comm_to_worker'[w] = Append(comm_to_worker[w], "HEARTBEAT_REQUEST")
                   \/ comm_to_worker'[w] = comm_to_worker[w]
         /\ \A w \in Workers \ Answered :
              /\ comm_to_worker'[w] = comm_to_worker[w]
              /\ w \in Registered' => worker_queues'[w] = worker_queues[w]
         /\ UNCHANGED <<comm_to_server, routes>>
<1>1. Registered' = Registered \ Unanswered
  BY DEF SendHeartbeats, Registered
<1>2. \A w \in Registered' :
        worker_queues'[w] = IF w \in Answered THEN Requested(worker_queues[w])
                                              ELSE worker_queues[w]
  BY <1>1 DEF SendHeartbeats, Registered
<1>3. \A w \in Registered : /\ ~ Requested(worker_queues[w]).heartbeat_reply_received
                            /\ ~ Requested(worker_queues[w]).request_overdue
  BY DEF Requested, TypeOK, ServerTypeOK, WorkerData, Registered
<1>4. \A w \in Workers :
        comm_to_worker'[w] =
          IF w \in Answered /\ "communication" \in routes[w]
          THEN comm_to_worker[w] \o <<"HEARTBEAT_REQUEST">> ELSE comm_to_worker[w]
  BY DEF SendHeartbeats, SendCommands
<1>5. \A w \in Workers : comm_to_worker[w] \o <<"HEARTBEAT_REQUEST">>
                           = Append(comm_to_worker[w], "HEARTBEAT_REQUEST")
  BY DEF TypeOK, NetworkTypeOK, ToWorkerCommand
<1>6. Answered \subseteq Registered
  BY DEF Answered, Registered
<1>7. \A w \in Answered : Recorded(w) /\ ~ Recorded(w)'
  BY <1>1, <1>2, <1>3, <1>6 DEF Recorded, Answered
<1> QED
  BY <1>1, <1>2, <1>3, <1>4, <1>5, <1>6, <1>7 DEF SendHeartbeats

\* visit_helo: the worker is new to the server, and is answered by an EHLO first.
LEMMA VisitHeloEffect ==
  ASSUME IInv, NEW w \in Workers, VisitHelo(w)
  PROVE  /\ w \notin Registered
         /\ Registered' = Registered \cup {w}
         /\ connection[w] \in {"Unconnected", "Gone"}
         /\ comm_to_server[w] = <<"HELO">> /\ comm_to_server'[w] = <<>>
         /\ comm_to_worker[w] = <<>>
         /\ comm_to_worker'[w] \in {<<>>, Welcome}
         /\ ~ worker_queues'[w].heartbeat_reply_received
         /\ ~ worker_queues'[w].request_overdue
         /\ \A v \in Workers \ {w} : /\ comm_to_worker'[v] = comm_to_worker[v]
                                     /\ comm_to_server'[v] = comm_to_server[v]
         /\ \A v \in Registered : worker_queues'[v] = worker_queues[v]
         /\ UNCHANGED routes
<1>1. TypeOK
  BY DEF IInv
<1>2. /\ comm_to_server[w] # <<>> /\ Head(comm_to_server[w]) = "HELO"
      /\ comm_to_server' = [comm_to_server EXCEPT ![w] = Tail(@)]
  BY DEF VisitHelo, ReceiveCommand
<1>3. comm_to_server[w] = <<"HELO">>
  <2>1. 1 \in DOMAIN comm_to_server[w] /\ comm_to_server[w][1] = "HELO"
    BY <1>1, <1>2 DEF TypeOK, NetworkTypeOK
  <2> QED
    BY <2>1 DEF IInv, FreshUnknown
<1>4. /\ w \notin Registered
      /\ comm_to_worker[w] = <<>>
      /\ connection[w] \in {"Unconnected", "Gone"}
  BY <1>3 DEF IInv, FreshUnknown, Fresh
<1>5. /\ comm_to_server'[w] = <<>>
      /\ \A v \in Workers \ {w} : comm_to_server'[v] = comm_to_server[v]
  BY <1>1, <1>2, <1>3 DEF TypeOK, NetworkTypeOK
<1>6. /\ comm_to_worker'[w] \in {<<>>, Welcome}
      /\ \A v \in Workers \ {w} : comm_to_worker'[v] = comm_to_worker[v]
  <2>1. \A v \in Workers : comm_to_worker'[v] = IF v \in {w} /\ "communication" \in routes[v]
                                               THEN comm_to_worker[v] \o Welcome
                                               ELSE comm_to_worker[v]
    BY DEF VisitHelo, SendCommands
  <2>2. <<>> \o Welcome = Welcome
    <3>1. Welcome \in Seq(ToWorkerCommand)
      BY DEF Welcome, ToWorkerCommand
    <3> QED
      BY <3>1
  <2> QED
    BY <1>4, <2>1, <2>2
<1>7. /\ Registration(w) \in WorkerData
      /\ ~ Registration(w).heartbeat_reply_received
      /\ ~ Registration(w).request_overdue
  BY <1>1, <1>4, RegistrationType DEF Registration, Registered
<1>8. PICK batch : TransmitWork(w, Registration(w), batch)
  BY DEF VisitHelo
<1>9. /\ Registered' = Registered \cup {w}
      /\ worker_queues'[w] = [Registration(w) EXCEPT !.work = @ \cup batch]
      /\ \A v \in Registered : v # w => worker_queues'[v] = worker_queues[v]
  BY <1>8 DEF TransmitWork, Registered
<1>10. /\ ~ worker_queues'[w].heartbeat_reply_received
       /\ ~ worker_queues'[w].request_overdue
  BY <1>7, <1>9 DEF WorkerData
<1> QED
  BY <1>3, <1>4, <1>5, <1>6, <1>9, <1>10 DEF VisitHelo

\* visit_heartbeat of a reply: it is taken from the channel, and recorded.
LEMMA VisitReplyEffect ==
  ASSUME TypeOK, NEW w \in Workers, VisitHeartbeatReply(w)
  PROVE  /\ comm_to_server[w] # <<>> /\ Head(comm_to_server[w]) = "HEARTBEAT_REPLY"
         /\ comm_to_server'[w] = Tail(comm_to_server[w])
         /\ \A v \in Workers \ {w} : comm_to_server'[v] = comm_to_server[v]
         /\ Registered' = Registered
         /\ w \in Registered => worker_queues'[w].heartbeat_reply_received
         /\ \A v \in Registered \ {w} : worker_queues'[v] = worker_queues[v]
         /\ UNCHANGED <<routes, comm_to_worker>>
<1>1. /\ comm_to_server[w] # <<>> /\ Head(comm_to_server[w]) = "HEARTBEAT_REPLY"
      /\ comm_to_server' = [comm_to_server EXCEPT ![w] = Tail(@)]
      /\ UNCHANGED <<routes, comm_to_worker>>
  BY DEF VisitHeartbeatReply, ReceiveCommand
<1>2. /\ Registered' = Registered
      /\ \A v \in Registered :
           worker_queues'[v] = IF v = w
                               THEN [worker_queues[v] EXCEPT !.heartbeat_reply_received = TRUE]
                               ELSE worker_queues[v]
  BY DEF VisitHeartbeatReply, Registered
<1>3. w \in Registered => worker_queues'[w].heartbeat_reply_received
  BY <1>2 DEF TypeOK, ServerTypeOK, WorkerData, Registered
<1> QED
  BY <1>1, <1>2, <1>3 DEF TypeOK, NetworkTypeOK

\* The clock touches no record of a reply.
LEMMA IntervalPassesEffect ==
  ASSUME TypeOK, NEW w \in Workers, IntervalPasses(w)
  PROVE  /\ Registered' = Registered
         /\ \A v \in Registered :
              worker_queues'[v].heartbeat_reply_received
                = worker_queues[v].heartbeat_reply_received
         /\ \A v \in Registered \ {w} : worker_queues'[v] = worker_queues[v]
         /\ UNCHANGED networkVars
  BY DEF IntervalPasses, TypeOK, ServerTypeOK, WorkerData, Registered

\* A registered worker has started.
LEMMA RegisteredStarted ==
  ASSUME IInv, NEW w \in Registered
  PROVE  w \in Workers /\ connection[w] # "NotStarted"
  BY DEF IInv, FreshUnknown, Fresh, TypeOK, ServerTypeOK, Registered

\* A step of w, as far as its connection and its commands are concerned.
LEMMA WorkerStepEffect ==
  ASSUME TypeOK, NEW w \in Workers,
         StartWorker(w) \/ WorkerStep(w) \/ WorkerFault(w) \/ RouteFound(w)
  PROVE  /\ \A v \in Workers \ {w} : /\ connection'[v] = connection[v]
                                     /\ comm_to_worker'[v] = comm_to_worker[v]
                                     /\ comm_to_server'[v] = comm_to_server[v]
                                     /\ routes'[v] = routes[v]
         /\ connection[w] = "Gone" => connection'[w] = "Gone"
         /\ Registered' = Registered /\ worker_queues' = worker_queues
         /\ \/ /\ connection[w] = "NotStarted" /\ connection'[w] = "Unconnected"
               /\ comm_to_server'[w] = <<"HELO">> /\ comm_to_worker'[w] = comm_to_worker[w]
               /\ "communication" \in routes'[w]
               /\ "late_route" \notin Faults => "work" \in routes'[w]
            \/ /\ connection[w] = "Unconnected" /\ connection'[w] = "Connected"
               /\ comm_to_worker[w] # <<>> /\ Head(comm_to_worker[w]) = "EHLO"
               /\ comm_to_worker'[w] = Tail(comm_to_worker[w])
               /\ comm_to_server'[w] = comm_to_server[w]
               /\ routes'[w] = routes[w]
            \/ /\ connection[w] \in {"Connected", "Dying"} /\ connection'[w] = connection[w]
               /\ comm_to_worker[w] # <<>> /\ Head(comm_to_worker[w]) = "HEARTBEAT_REQUEST"
               /\ comm_to_worker'[w] = Tail(comm_to_worker[w])
               /\ comm_to_server'[w] = Append(comm_to_server[w], "HEARTBEAT_REPLY")
               /\ routes'[w] = routes[w]
            \/ /\ connection'[w] = "Gone"
               /\ comm_to_worker'[w] = <<>>
               /\ comm_to_server'[w] \in {<<>>, comm_to_server[w]}
            \/ /\ \/ connection'[w] = connection[w]
                  \/ connection[w] = "Connected" /\ connection'[w] = "Dying"
               /\ comm_to_worker'[w] = comm_to_worker[w]
               /\ comm_to_server'[w] = comm_to_server[w]
               /\ routes[w] \subseteq routes'[w]
<1>1. Registered' = Registered /\ worker_queues' = worker_queues
  BY DEF StartWorker, WorkerStep, WorkerFault, RouteFound, serverVars, Registered
<1> USE DEF TypeOK, NetworkTypeOK, WorkerTypeOK
<1>2. CASE StartWorker(w)
  BY <1>1, <1>2 DEF StartWorker, SendHelo, Sockets
<1>3. CASE VisitEhlo(w)
  BY <1>1, <1>3 DEF VisitEhlo
<1>4. CASE AnswerHeartbeat(w)
  BY <1>1, <1>4 DEF AnswerHeartbeat
<1>5. CASE (\E job \in Jobs : VisitJob(w, job) \/ RunJob(w, job)) \/ VisitBye(w)
  BY <1>1, <1>5 DEF VisitJob, RunJob, VisitBye
<1>6. CASE Disconnect(w) \/ ConnectTimeout(w) \/ Crash(w)
  BY <1>1, <1>6 DEF Disconnect, ConnectTimeout, Crash, CloseSockets
<1>7. CASE RouteFound(w)
  BY <1>1, <1>7 DEF RouteFound, RouteWork, workerVars
<1> QED
  BY <1>2, <1>3, <1>4, <1>5, <1>6, <1>7 DEF WorkerStep, WorkerFault

\* What a step may do to the commands and to what the server records of replies.
StepKind ==
  \/ Quiet
  \/ SendHeartbeats /\ UNCHANGED workerVars
  \/ \E w \in Workers : /\ VisitHelo(w) \/ VisitHeartbeatReply(w) \/ IntervalPasses(w)
                        /\ UNCHANGED workerVars
  \/ \E w \in Workers : StartWorker(w) \/ WorkerStep(w) \/ WorkerFault(w) \/ RouteFound(w)

LEMMA StepKinds ==
  ASSUME TypeOK, ExistingRegistered, [Next]_vars
  PROVE  StepKind
<1>1. CASE WorkStep /\ UNCHANGED workerVars
  BY <1>1, WorkStepQuiet DEF StepKind
<1>2. CASE CommunicationStops /\ UNCHANGED workerVars
  BY <1>2 DEF StepKind, CommunicationStops, Quiet, Registered, workerVars, networkVars
<1>3. CASE UNCHANGED vars
  BY <1>3 DEF StepKind, Quiet, Registered, vars, workerVars, networkVars, serverVars
<1> QED
  BY <1>1, <1>2, <1>3 DEF Next, ServerNext, StepKind

-----------------------------------------------------------------------------
(* Each part of AnswersInv is preserved *)

LEMMA RoutesOpenStep ==
  ASSUME IInv, RoutesOpen, StepKind
  PROVE  RoutesOpen'
<1>1. TypeOK
  BY DEF IInv
<1>2. CASE UNCHANGED <<connection, routes>>
  BY <1>2 DEF RoutesOpen
<1>3. CASE SendHeartbeats /\ UNCHANGED workerVars
  BY <1>1, <1>2, <1>3, SendHeartbeatsEffect DEF workerVars
<1>4. ASSUME NEW w \in Workers, UNCHANGED workerVars,
             VisitHelo(w) \/ VisitHeartbeatReply(w) \/ IntervalPasses(w)
      PROVE  RoutesOpen'
  BY <1>2, <1>4 DEF VisitHelo, VisitHeartbeatReply, IntervalPasses, networkVars, workerVars
<1>5. ASSUME NEW w \in Workers,
             StartWorker(w) \/ WorkerStep(w) \/ WorkerFault(w) \/ RouteFound(w)
      PROVE  RoutesOpen'
  <2>1. \A v \in Workers \ {w} : connection'[v] = connection[v] /\ routes'[v] = routes[v]
    BY <1>1, <1>5, WorkerStepEffect
  <2>2. \/ /\ "communication" \in routes'[w]
           /\ "late_route" \notin Faults => "work" \in routes'[w]
        \/ /\ connection[w] \in {"Unconnected", "Connected", "Dying"}
           /\ routes[w] \subseteq routes'[w]
        \/ connection'[w] = "Gone"
        \/ connection'[w] = connection[w] /\ routes[w] \subseteq routes'[w]
    BY <1>1, <1>5, WorkerStepEffect
  <2> QED
    BY <2>1, <2>2 DEF RoutesOpen
<1> QED
  BY <1>2, <1>3, <1>4, <1>5 DEF StepKind, Quiet

LEMMA RepliesFollowEhloStep ==
  ASSUME IInv, RepliesFollowEhlo, StepKind
  PROVE  RepliesFollowEhlo'
<1>1. TypeOK
  BY DEF IInv
<1>2. CASE Quiet
  BY <1>2 DEF Quiet, RepliesFollowEhlo, Recorded
<1>3. CASE SendHeartbeats /\ UNCHANGED workerVars
  <2>1. ASSUME NEW v \in Workers, connection[v] \in {"NotStarted", "Unconnected"}
        PROVE  /\ comm_to_worker'[v] = comm_to_worker[v]
               /\ comm_to_server'[v] = comm_to_server[v]
               /\ ~ Recorded(v)'
    <3>1. ~ Recorded(v)
      BY <2>1 DEF RepliesFollowEhlo
    <3> QED
      BY <1>1, <1>3, <3>1, SendHeartbeatsEffect DEF Recorded
  <2> QED
    BY <1>3, <2>1 DEF RepliesFollowEhlo, workerVars
<1>4. ASSUME NEW w \in Workers, VisitHelo(w), UNCHANGED workerVars
      PROVE  RepliesFollowEhlo'
  <2>1. /\ w \in Registered'
        /\ ~ worker_queues'[w].heartbeat_reply_received
        /\ comm_to_server'[w] = <<>>
        /\ comm_to_worker'[w] \in {<<>>, Welcome}
    BY <1>4, VisitHeloEffect
  <2>2. /\ comm_to_worker'[w] # <<>> => Head(comm_to_worker'[w]) = "EHLO"
        /\ DOMAIN comm_to_server'[w] = {}
        /\ ~ Recorded(w)'
    BY <2>1 DEF Recorded, Welcome
  <2>3. ASSUME NEW v \in Workers \ {w}
        PROVE  /\ comm_to_worker'[v] = comm_to_worker[v]
               /\ comm_to_server'[v] = comm_to_server[v]
               /\ Recorded(v)' => Recorded(v)
    BY <1>4, VisitHeloEffect DEF Recorded
  <2> QED
    BY <1>4, <2>2, <2>3 DEF RepliesFollowEhlo, workerVars
<1>5. ASSUME NEW w \in Workers, VisitHeartbeatReply(w), UNCHANGED workerVars
      PROVE  RepliesFollowEhlo'
  <2>1. connection[w] \notin {"NotStarted", "Unconnected"}
    <3>1. 1 \in DOMAIN comm_to_server[w] /\ comm_to_server[w][1] = "HEARTBEAT_REPLY"
      BY <1>1, <1>5, VisitReplyEffect DEF TypeOK, NetworkTypeOK
    <3> QED
      BY <3>1 DEF RepliesFollowEhlo
  <2>2. ASSUME NEW v \in Workers \ {w}
        PROVE  /\ comm_to_worker'[v] = comm_to_worker[v]
               /\ comm_to_server'[v] = comm_to_server[v]
               /\ Recorded(v)' => Recorded(v)
    BY <1>1, <1>5, VisitReplyEffect DEF Recorded
  <2> QED
    BY <1>5, <2>1, <2>2 DEF RepliesFollowEhlo, workerVars
<1>6. ASSUME NEW w \in Workers, IntervalPasses(w), UNCHANGED workerVars
      PROVE  RepliesFollowEhlo'
  <2>1. \A v \in Workers : Recorded(v)' => Recorded(v)
    BY <1>1, <1>6, IntervalPassesEffect DEF Recorded
  <2> QED
    BY <1>1, <1>6, <2>1, IntervalPassesEffect DEF RepliesFollowEhlo, workerVars, networkVars
<1>7. ASSUME NEW w \in Workers,
             StartWorker(w) \/ WorkerStep(w) \/ WorkerFault(w) \/ RouteFound(w)
      PROVE  RepliesFollowEhlo'
  <2>1. \A v \in Workers : Recorded(v)' <=> Recorded(v)
    BY <1>1, <1>7, WorkerStepEffect DEF Recorded
  <2>2. \A v \in Workers \ {w} : /\ connection'[v] = connection[v]
                                 /\ comm_to_worker'[v] = comm_to_worker[v]
                                 /\ comm_to_server'[v] = comm_to_server[v]
    BY <1>1, <1>7, WorkerStepEffect
  <2>3. \/ /\ connection[w] = "NotStarted"
           /\ comm_to_server'[w] = <<"HELO">> /\ comm_to_worker'[w] = comm_to_worker[w]
        \/ connection'[w] \notin {"NotStarted", "Unconnected"}
        \/ /\ connection'[w] = connection[w]
           /\ comm_to_worker'[w] = comm_to_worker[w]
           /\ comm_to_server'[w] = comm_to_server[w]
    BY <1>1, <1>7, WorkerStepEffect
  <2>4. \A i \in DOMAIN <<"HELO">> : <<"HELO">>[i] # "HEARTBEAT_REPLY"
    OBVIOUS
  <2> QED
    BY <2>1, <2>2, <2>3, <2>4 DEF RepliesFollowEhlo
<1> QED
  BY <1>2, <1>3, <1>4, <1>5, <1>6, <1>7 DEF StepKind

LEMMA OverdueIsDeadStep ==
  ASSUME IInv, RoutesOpen, OverdueIsDead, StepKind
  PROVE  OverdueIsDead'
<1> SUFFICES ASSUME "slow" \notin Faults, NEW v \in Registered',
                    worker_queues'[v].request_overdue,
                    ~ worker_queues'[v].heartbeat_reply_received
             PROVE  connection'[v] = "Gone"
  BY DEF OverdueIsDead
<1>1. TypeOK /\ Registered \subseteq Workers
  BY DEF IInv, TypeOK, ServerTypeOK, Registered
<1>2. ASSUME v \in Registered,
             worker_queues'[v].request_overdue = worker_queues[v].request_overdue,
             worker_queues'[v].heartbeat_reply_received
               = worker_queues[v].heartbeat_reply_received
      PROVE  connection[v] = "Gone"
  BY <1>2 DEF OverdueIsDead
<1>3. CASE Quiet
  BY <1>2, <1>3 DEF Quiet
<1>4. CASE SendHeartbeats /\ UNCHANGED workerVars
  BY <1>1, <1>2, <1>4, SendHeartbeatsEffect DEF workerVars
<1>5. ASSUME NEW w \in Workers, VisitHelo(w), UNCHANGED workerVars
      PROVE  connection'[v] = "Gone"
  BY <1>2, <1>5, VisitHeloEffect DEF workerVars
<1>6. ASSUME NEW w \in Workers, VisitHeartbeatReply(w), UNCHANGED workerVars
      PROVE  connection'[v] = "Gone"
  BY <1>1, <1>2, <1>6, VisitReplyEffect DEF workerVars
<1>7. ASSUME NEW w \in Workers, IntervalPasses(w), UNCHANGED workerVars
      PROVE  connection'[v] = "Gone"
  <2>1. v \in Registered
        /\ worker_queues'[v].heartbeat_reply_received = worker_queues[v].heartbeat_reply_received
    BY <1>1, <1>7, IntervalPassesEffect
  <2>2. CASE v = w
    <3>1. "communication" \notin routes[w]
      BY <1>7, <2>1, <2>2 DEF IntervalPasses
    <3>2. connection[w] \in ConnectionState /\ connection[w] # "NotStarted"
      BY <1>1, <2>1, <2>2, RegisteredStarted DEF TypeOK, WorkerTypeOK
    <3> QED
      BY <1>7, <2>2, <3>1, <3>2 DEF RoutesOpen, ConnectionState, workerVars
  <2>3. CASE v # w
    BY <1>1, <1>2, <1>7, <2>1, <2>3, IntervalPassesEffect DEF workerVars
  <2> QED
    BY <2>2, <2>3
<1>8. ASSUME NEW w \in Workers,
             StartWorker(w) \/ WorkerStep(w) \/ WorkerFault(w) \/ RouteFound(w)
      PROVE  connection'[v] = "Gone"
  <2>1. Registered' = Registered /\ worker_queues' = worker_queues
    BY <1>1, <1>8, WorkerStepEffect
  <2>2. v \in Workers /\ connection[v] = "Gone"
    BY <1>1, <1>2, <2>1
  <2> QED
    BY <1>1, <1>8, <2>2, WorkerStepEffect
<1> QED
  BY <1>3, <1>4, <1>5, <1>6, <1>7, <1>8 DEF StepKind

\* The two counts of ReplyAnswersLatestRequest.
Requests(w) == Occurrences("HEARTBEAT_REQUEST", comm_to_worker[w])

Replies(w) == Occurrences("HEARTBEAT_REPLY", comm_to_server[w])

LEMMA CountsNat ==
  ASSUME TypeOK, NEW w \in Workers
  PROVE  Requests(w) \in Nat /\ Replies(w) \in Nat
<1>1. /\ comm_to_worker[w] \in Seq(ToWorkerCommand)
      /\ comm_to_server[w] \in Seq(ToServerCommand)
  BY DEF TypeOK, NetworkTypeOK
<1> QED
  BY <1>1, OccurrencesNat DEF Requests, Replies

LEMMA CountsNatNext ==
  ASSUME TypeOK', NEW w \in Workers
  PROVE  Requests(w)' \in Nat /\ Replies(w)' \in Nat
<1>1. /\ comm_to_worker'[w] \in Seq(ToWorkerCommand)
      /\ comm_to_server'[w] \in Seq(ToServerCommand)
  BY DEF TypeOK, NetworkTypeOK
<1> QED
  BY <1>1, OccurrencesNat DEF Requests, Replies

\* A reply is never one too many.
LEMMA AnswersStep ==
  ASSUME IInv, TypeOK', RepliesFollowEhlo, ReplyAnswersLatestRequest, StepKind
  PROVE  ReplyAnswersLatestRequest'
<1> DEFINE Sum(w) == Requests(w)' + Replies(w)' + (IF Recorded(w)' THEN 1 ELSE 0)
<1> SUFFICES ASSUME NEW v \in Workers
             PROVE  Sum(v) <= 1
  BY DEF ReplyAnswersLatestRequest, Requests, Replies
<1>1. TypeOK
  BY DEF IInv
<1>2. /\ comm_to_worker[v] \in Seq(ToWorkerCommand)
      /\ comm_to_server[v] \in Seq(ToServerCommand)
      /\ Requests(v) \in Nat /\ Replies(v) \in Nat
      /\ Requests(v)' \in Nat /\ Replies(v)' \in Nat
  BY <1>1, CountsNat, CountsNatNext DEF TypeOK, NetworkTypeOK
<1>3. Requests(v) + Replies(v) + (IF Recorded(v) THEN 1 ELSE 0) <= 1
  BY DEF ReplyAnswersLatestRequest, Requests, Replies
<1>4. ASSUME comm_to_worker'[v] = comm_to_worker[v],
             comm_to_server'[v] = comm_to_server[v],
             Recorded(v)' => Recorded(v)
      PROVE  Sum(v) <= 1
  <2>1. Requests(v)' = Requests(v) /\ Replies(v)' = Replies(v)
    BY <1>4 DEF Requests, Replies
  <2> QED
    BY <1>2, <1>3, <1>4, <2>1
<1>5. CASE Quiet
  BY <1>4, <1>5 DEF Quiet, Recorded
<1>6. CASE SendHeartbeats /\ UNCHANGED workerVars
  <2>1. CASE v \in Answered
    <3>1. /\ Recorded(v) /\ ~ Recorded(v)'
          /\ comm_to_worker'[v] \in {Append(comm_to_worker[v], "HEARTBEAT_REQUEST"),
                                     comm_to_worker[v]}
          /\ comm_to_server'[v] = comm_to_server[v]
      BY <1>1, <1>6, <2>1, SendHeartbeatsEffect
    <3>2. Requests(v) = 0 /\ Replies(v) = 0
      BY <1>2, <1>3, <3>1
    <3>3. Requests(v)' <= Requests(v) + 1
      <4>1. Occurrences("HEARTBEAT_REQUEST", Append(comm_to_worker[v], "HEARTBEAT_REQUEST"))
              = Occurrences("HEARTBEAT_REQUEST", comm_to_worker[v]) + 1
        BY <1>2, OccurrencesAppend DEF ToWorkerCommand
      <4>2. Requests(v)' \in {Requests(v) + 1, Requests(v)}
        BY <3>1, <4>1 DEF Requests
      <4> QED
        BY <1>2, <4>2
    <3>4. Replies(v)' = Replies(v)
      BY <3>1 DEF Replies
    <3> QED
      BY <1>2, <3>1, <3>2, <3>3, <3>4
  <2>2. CASE v \notin Answered
    BY <1>1, <1>4, <1>6, <2>2, SendHeartbeatsEffect DEF Recorded
  <2> QED
    BY <2>1, <2>2
<1>7. ASSUME NEW w \in Workers, VisitHelo(w), UNCHANGED workerVars
      PROVE  Sum(v) <= 1
  <2>1. CASE v = w
    <3>1. /\ comm_to_worker'[v] \in {<<>>, Welcome}
          /\ comm_to_server'[v] = <<>>
          /\ ~ Recorded(v)'
      BY <1>7, <2>1, VisitHeloEffect DEF Recorded
    <3>2. Requests(v)' <= 1 /\ Replies(v)' = 0
      BY <3>1, OccurrencesEmpty, OccurrencesWelcome DEF Requests, Replies
    <3> QED
      BY <1>2, <3>1, <3>2
  <2>2. CASE v # w
    BY <1>4, <1>7, <2>2, VisitHeloEffect DEF Recorded
  <2> QED
    BY <2>1, <2>2
<1>8. ASSUME NEW w \in Workers, VisitHeartbeatReply(w), UNCHANGED workerVars
      PROVE  Sum(v) <= 1
  <2>1. CASE v = w
    <3>1. /\ comm_to_server[v] # <<>> /\ Head(comm_to_server[v]) = "HEARTBEAT_REPLY"
          /\ comm_to_server'[v] = Tail(comm_to_server[v])
          /\ comm_to_worker'[v] = comm_to_worker[v]
      BY <1>1, <1>8, <2>1, VisitReplyEffect
    <3>2. Replies(v) = Replies(v)' + 1
      BY <1>2, <3>1, OccurrencesTail DEF Replies
    <3>3. Requests(v)' = Requests(v)
      BY <3>1 DEF Requests
    <3> QED
      BY <1>2, <1>3, <3>2, <3>3
  <2>2. CASE v # w
    BY <1>1, <1>4, <1>8, <2>2, VisitReplyEffect DEF Recorded
  <2> QED
    BY <2>1, <2>2
<1>9. ASSUME NEW w \in Workers, IntervalPasses(w), UNCHANGED workerVars
      PROVE  Sum(v) <= 1
  BY <1>1, <1>4, <1>9, IntervalPassesEffect DEF Recorded, networkVars
<1>10. ASSUME NEW w \in Workers,
              StartWorker(w) \/ WorkerStep(w) \/ WorkerFault(w) \/ RouteFound(w)
       PROVE  Sum(v) <= 1
  <2>1. Recorded(v)' <=> Recorded(v)
    BY <1>1, <1>10, WorkerStepEffect DEF Recorded
  <2>2. CASE v # w
    BY <1>1, <1>4, <1>10, <2>1, <2>2, WorkerStepEffect
  <2>3. CASE v = w
    <3>1. \/ comm_to_server'[v] = <<"HELO">> /\ comm_to_worker'[v] = comm_to_worker[v]
          \/ /\ comm_to_worker[v] # <<>> /\ Head(comm_to_worker[v]) = "EHLO"
             /\ comm_to_worker'[v] = Tail(comm_to_worker[v])
             /\ comm_to_server'[v] = comm_to_server[v]
          \/ /\ comm_to_worker[v] # <<>> /\ Head(comm_to_worker[v]) = "HEARTBEAT_REQUEST"
             /\ comm_to_worker'[v] = Tail(comm_to_worker[v])
             /\ comm_to_server'[v] = Append(comm_to_server[v], "HEARTBEAT_REPLY")
          \/ comm_to_worker'[v] = <<>> /\ comm_to_server'[v] \in {<<>>, comm_to_server[v]}
          \/ comm_to_worker'[v] = comm_to_worker[v] /\ comm_to_server'[v] = comm_to_server[v]
      BY <1>1, <1>10, <2>3, WorkerStepEffect
    <3>2. CASE comm_to_server'[v] = <<"HELO">> /\ comm_to_worker'[v] = comm_to_worker[v]
      <4>1. {i \in DOMAIN <<"HELO">> : <<"HELO">>[i] = "HEARTBEAT_REPLY"} = {}
        OBVIOUS
      <4>2. Replies(v)' = 0 /\ Requests(v)' = Requests(v)
        BY <3>2, <4>1, FS_EmptySet DEF Replies, Requests, Occurrences
      <4> QED
        BY <1>2, <1>3, <2>1, <4>2
    <3>3. CASE /\ comm_to_worker[v] # <<>> /\ Head(comm_to_worker[v]) = "EHLO"
               /\ comm_to_worker'[v] = Tail(comm_to_worker[v])
               /\ comm_to_server'[v] = comm_to_server[v]
      <4>1. Requests(v) = Requests(v)' + 0
        BY <1>2, <3>3, OccurrencesTail DEF Requests
      <4>2. Replies(v)' = Replies(v)
        BY <3>3 DEF Replies
      <4> QED
        BY <1>2, <1>3, <2>1, <4>1, <4>2
    <3>4. CASE /\ comm_to_worker[v] # <<>> /\ Head(comm_to_worker[v]) = "HEARTBEAT_REQUEST"
               /\ comm_to_worker'[v] = Tail(comm_to_worker[v])
               /\ comm_to_server'[v] = Append(comm_to_server[v], "HEARTBEAT_REPLY")
      <4>1. Requests(v) = Requests(v)' + 1
        BY <1>2, <3>4, OccurrencesTail DEF Requests
      <4>2. Replies(v)' = Replies(v) + 1
        BY <1>2, <3>4, OccurrencesAppend DEF Replies, ToServerCommand
      <4> QED
        BY <1>2, <1>3, <2>1, <4>1, <4>2
    <3>5. CASE comm_to_worker'[v] = <<>> /\ comm_to_server'[v] \in {<<>>, comm_to_server[v]}
      <4>1. Requests(v)' = 0 /\ Replies(v)' <= Replies(v)
        BY <1>2, <3>5, OccurrencesEmpty DEF Requests, Replies
      <4> QED
        BY <1>2, <1>3, <2>1, <4>1
    <3> QED
      BY <1>4, <2>1, <3>1, <3>2, <3>3, <3>4, <3>5
  <2> QED
    BY <2>2, <2>3
<1> QED
  BY <1>5, <1>6, <1>7, <1>8, <1>9, <1>10 DEF StepKind

-----------------------------------------------------------------------------
(* The jobs recorded as a running worker's are with it or on their way *)

\* OutstandingReachesWorker, in terms of the jobs a worker carries.
Reaching(w) == connection[w] = "Gone" \/ worker_queues[w].work \subseteq Carried(w)

LEMMA OutstandingIsCarried ==
  ASSUME TypeOK
  PROVE  OutstandingReachesWorker <=> \A w \in Registered : Reaching(w)
<1>1. ASSUME NEW w \in Registered, NEW job \in worker_queues[w].work
      PROVE  ResultOf(job) = job
  <2>1. job \in Jobs
    BY <1>1 DEF TypeOK, ServerTypeOK, Registered, WorkerData
  <2> QED
    BY <2>1, JobEquality
<1> QED
  BY <1>1 DEF OutstandingReachesWorker, Reaching, Carried

LEMMA OutstandingIsCarriedNext ==
  ASSUME TypeOK'
  PROVE  OutstandingReachesWorker' <=> \A w \in Registered' : Reaching(w)'
<1>1. ASSUME NEW w \in Registered', NEW job \in worker_queues'[w].work
      PROVE  ResultOf(job) = job
  <2>1. job \in Jobs
    BY <1>1 DEF TypeOK, ServerTypeOK, Registered, WorkerData
  <2> QED
    BY <2>1, JobEquality
<1> QED
  BY <1>1 DEF OutstandingReachesWorker, Reaching, Carried

\* Nothing changes for a worker whose queue and jobs stay.
LEMMA StillReaching ==
  ASSUME NEW w, Reaching(w),
         worker_queues'[w].work = worker_queues[w].work,
         connection'[w] = connection[w],
         UNCHANGED <<work_to_worker, jobs, work_to_server>>
  PROVE  Reaching(w)'
  BY DEF Reaching, Carried

\* transmit_work sends what it records, to a worker its router knows.
LEMMA TransmitWorkReaches ==
  ASSUME TypeOK, NEW w \in Workers, NEW data \in WorkerData,
         NEW batch \in SUBSET enqueued_work, TransmitWork(w, data, batch),
         connection[w] # "Gone" => "work" \in routes[w],
         data.work \subseteq work_to_worker[w] \cup jobs[w] \cup work_to_server'[w]
           \/ connection[w] = "Gone",
         \A v \in Workers \ {w} : work_to_server'[v] = work_to_server[v],
         UNCHANGED <<connection, jobs>>,
         \A v \in Registered \ {w} : Reaching(v)
  PROVE  \A v \in Registered' : Reaching(v)'
<1>1. /\ Registered' = Registered \cup {w}
      /\ worker_queues'[w] = [data EXCEPT !.work = @ \cup batch]
      /\ \A v \in Registered \ {w} : worker_queues'[v] = worker_queues[v]
  BY DEF TransmitWork, Registered
<1>2. worker_queues'[w].work = data.work \cup batch
  BY <1>1 DEF WorkerData
<1>3. \A v \in Workers \ {w} : work_to_worker'[v] = work_to_worker[v]
  BY DEF TransmitWork, SendJobs
<1>4. connection[w] # "Gone" => work_to_worker'[w] = work_to_worker[w] \cup batch
  BY DEF TransmitWork, SendJobs, TypeOK, NetworkTypeOK
<1>5. Registered \subseteq Workers
  BY DEF TypeOK, ServerTypeOK, Registered
<1>6. Reaching(w)'
  BY <1>2, <1>4 DEF Reaching, Carried
<1>7. ASSUME NEW v \in Registered \ {w}
      PROVE  Reaching(v)'
  BY <1>1, <1>3, <1>5, <1>7 DEF Reaching, Carried
<1> QED
  BY <1>1, <1>6, <1>7

\* The routers know every registered worker that runs.
LEMMA RegisteredRouted ==
  ASSUME IInv, RoutesOpen, "late_route" \notin Faults, NEW w \in Registered,
         connection[w] # "Gone"
  PROVE  "work" \in routes[w]
<1>1. w \in Workers /\ connection[w] # "NotStarted"
  BY RegisteredStarted
<1> QED
  BY <1>1 DEF IInv, TypeOK, WorkerTypeOK, ConnectionState, RoutesOpen

LEMMA ReceiveReaches ==
  ASSUME IInv, RoutesOpen, "late_route" \notin Faults, UNCHANGED workerVars,
         \A w \in Registered : Reaching(w),
         NEW w \in Workers, NEW r \in Results,
         ReceiveHistogramResult(w, r) \/ ReceiveEqualisedResult(w, r)
  PROVE  \A v \in Registered' : Reaching(v)'
<1>1. TypeOK /\ Registered \subseteq Workers
  BY DEF IInv, TypeOK, ServerTypeOK, Registered
<1>2. /\ r \in work_to_server[w]
      /\ work_to_server' = [work_to_server EXCEPT ![w] = @ \ {r}]
      /\ UNCHANGED <<connection, jobs>>
  BY DEF ReceiveHistogramResult, ReceiveEqualisedResult, ReceiveWork, workerVars
<1>3. \A v \in Workers \ {w} : work_to_server'[v] = work_to_server[v]
  BY <1>2
<1>4. r.type = IF phase = "receive_histograms" THEN "HISTOGRAM" ELSE "EQUALISATION"
  BY <1>2 DEF IInv, OnlyStageJobs, Carried, StageType
<1>5. CASE w \in Registered
  <2> DEFINE Erased(job) == [worker_queues[w] EXCEPT !.work = @ \ {job}]
  <2>1. CompleteJob(w, r)
    BY <1>4, <1>5 DEF ReceiveHistogramResult, ReceiveEqualisedResult, Registered
  <2>2. worker_queues[w] \in WorkerData
    BY <1>1, <1>5 DEF TypeOK, ServerTypeOK, Registered
  <2>3. PICK job \in worker_queues[w].work :
          /\ Matches(job, r)
          /\ \E batch \in Batches(Erased(job)) : TransmitWork(w, Erased(job), batch)
    BY <2>1 DEF CompleteJob
  <2>4. job = r
    <3>1. job \in Jobs /\ r \in Jobs
      BY <2>2, JobEquality DEF WorkerData
    <3> QED
      BY <2>3, <3>1, JobEquality
  <2>5. Erased(job) \in WorkerData /\ Erased(job).work = worker_queues[w].work \ {r}
    BY <2>2, <2>4 DEF WorkerData
  <2> HIDE DEF Erased
  <2>6. PICK batch \in SUBSET enqueued_work : TransmitWork(w, Erased(job), batch)
    BY <2>3 DEF Batches
  <2>7. \/ connection[w] = "Gone"
        \/ Erased(job).work \subseteq work_to_worker[w] \cup jobs[w] \cup work_to_server'[w]
    <3>1. work_to_server'[w] = work_to_server[w] \ {r}
      BY <1>1, <1>2 DEF TypeOK, NetworkTypeOK
    <3> QED
      BY <1>5, <2>5, <3>1 DEF Reaching, Carried
  <2>8. connection[w] # "Gone" => "work" \in routes[w]
    BY <1>5, RegisteredRouted
  <2> QED
    BY <1>1, <1>2, <1>3, <2>5, <2>6, <2>7, <2>8, TransmitWorkReaches
<1>6. CASE w \notin Registered
  <2>1. UNCHANGED <<worker_queues, work_to_worker>>
    BY <1>6 DEF ReceiveHistogramResult, ReceiveEqualisedResult, Registered
  <2>2. Registered' = Registered
    BY <2>1 DEF Registered
  <2> QED
    BY <1>1, <1>2, <1>3, <1>6, <2>1, <2>2 DEF Reaching, Carried
<1> QED
  BY <1>5, <1>6

LEMMA WorkerReaches ==
  ASSUME IInv, \A w \in Registered : Reaching(w), NEW w \in Workers,
         StartWorker(w) \/ WorkerStep(w) \/ WorkerFault(w) \/ RouteFound(w)
  PROVE  \A v \in Registered' : Reaching(v)'
<1>1. TypeOK /\ Registered \subseteq Workers
  BY DEF IInv, TypeOK, ServerTypeOK, Registered
<1>2. /\ \A v \in Workers \ {w} : connection'[v] = connection[v]
      /\ connection[w] = "Gone" => connection'[w] = "Gone"
      /\ Registered' = Registered /\ worker_queues' = worker_queues
  BY <1>1, WorkerStepEffect
<1>3. /\ \A v \in Workers \ {w} : Carried(v)' = Carried(v)
      /\ Carried(w)' = Carried(w) \/ connection'[w] = "Gone"
  <2> USE <1>1 DEF TypeOK, NetworkTypeOK, WorkerTypeOK
  <2>1. CASE StartWorker(w)
    BY <2>1 DEF StartWorker, SendHelo, Carried
  <2>2. CASE VisitEhlo(w) \/ VisitBye(w) \/ AnswerHeartbeat(w) \/ RouteFound(w)
    BY <2>2 DEF VisitEhlo, VisitBye, AnswerHeartbeat, RouteFound, RouteWork, workerVars,
                Carried
  <2>3. ASSUME NEW job \in Jobs, VisitJob(w, job)
        PROVE  \A v \in Workers : Carried(v)' = Carried(v)
    BY <2>3 DEF VisitJob, Carried
  <2>4. ASSUME NEW job \in Jobs, RunJob(w, job)
        PROVE  \A v \in Workers : Carried(v)' = Carried(v)
    <3>1. ResultOf(job) = job
      BY JobEquality
    <3> QED
      BY <2>4, <3>1 DEF RunJob, Carried
  <2>5. CASE Disconnect(w) \/ ConnectTimeout(w) \/ Crash(w)
    BY <2>5 DEF Disconnect, ConnectTimeout, Crash, CloseSockets, Carried
  <2> QED
    BY <2>1, <2>2, <2>3, <2>4, <2>5 DEF WorkerStep, WorkerFault
<1> QED
  BY <1>1, <1>2, <1>3 DEF Reaching

LEMMA OutstandingStep ==
  ASSUME IInv, TypeOK', RoutesOpen, "late_route" \notin Faults,
         OutstandingReachesWorker, [Next]_vars
  PROVE  OutstandingReachesWorker'
<1> SUFFICES \A w \in Registered' : Reaching(w)'
  BY OutstandingIsCarriedNext
<1>1. TypeOK /\ Registered \subseteq Workers
  BY DEF IInv, TypeOK, ServerTypeOK, Registered
<1>2. \A w \in Registered : Reaching(w)
  BY <1>1, OutstandingIsCarried
<1>3. ASSUME NEW w \in Workers, NEW r \in Results, UNCHANGED workerVars,
             ReceiveHistogramResult(w, r) \/ ReceiveEqualisedResult(w, r)
      PROVE  \A v \in Registered' : Reaching(v)'
  BY <1>2, <1>3, ReceiveReaches
<1>4. ASSUME NEW w \in Workers, ServeExisting(w), UNCHANGED workerVars
      PROVE  \A v \in Registered' : Reaching(v)'
  <2>1. w \in Registered /\ worker_queues[w] \in WorkerData
    BY <1>1, <1>4 DEF ServeExisting, IInv, ExistingRegistered, Registered, TypeOK,
                      ServerTypeOK
  <2>2. PICK batch \in SUBSET enqueued_work : TransmitWork(w, worker_queues[w], batch)
    BY <1>4 DEF ServeExisting, Batches
  <2>3. UNCHANGED <<connection, jobs, work_to_server>>
    BY <1>4 DEF ServeExisting, workerVars
  <2>4. connection[w] # "Gone" => "work" \in routes[w]
    BY <2>1, RegisteredRouted
  <2>5. \/ connection[w] = "Gone"
        \/ worker_queues[w].work \subseteq work_to_worker[w] \cup jobs[w] \cup work_to_server'[w]
    BY <1>2, <2>1, <2>3 DEF Reaching, Carried
  <2> QED
    BY <1>1, <1>2, <2>1, <2>2, <2>3, <2>4, <2>5, TransmitWorkReaches
<1>5. ASSUME NEW w \in Workers, VisitHelo(w), UNCHANGED workerVars
      PROVE  \A v \in Registered' : Reaching(v)'
  <2>1. w \notin Registered /\ connection[w] \in {"Unconnected", "Gone"}
    BY <1>5, VisitHeloEffect
  <2>2. Registration(w) \in WorkerData /\ Registration(w).work = {}
    BY <1>1, <2>1, RegistrationType DEF Registration, Registered
  <2>3. PICK batch \in SUBSET enqueued_work : TransmitWork(w, Registration(w), batch)
    BY <1>5 DEF VisitHelo, Batches
  <2>4. UNCHANGED <<connection, jobs, work_to_server>>
    BY <1>5 DEF VisitHelo, workerVars
  <2>5. connection[w] # "Gone" => "work" \in routes[w]
    BY <2>1 DEF RoutesOpen
  <2> QED
    BY <1>1, <1>2, <2>2, <2>3, <2>4, <2>5, TransmitWorkReaches
<1>6. CASE UNCHANGED <<connection, jobs, work_to_worker, work_to_server>>
           /\ Registered' \subseteq Registered
           /\ \A w \in Registered' : worker_queues'[w].work = worker_queues[w].work
  BY <1>2, <1>6, StillReaching
<1>7. CASE SendHeartbeats /\ UNCHANGED workerVars
  <2>1. \A w \in Registered : Requested(worker_queues[w]).work = worker_queues[w].work
    BY <1>1 DEF Requested, Registered, TypeOK, ServerTypeOK, WorkerData
  <2>2. /\ Registered' \subseteq Registered
        /\ \A w \in Registered' : worker_queues'[w].work = worker_queues[w].work
    BY <1>7, <2>1 DEF SendHeartbeats, Registered
  <2> QED
    BY <1>6, <1>7, <2>2 DEF SendHeartbeats, workerVars
<1>8. CASE DismissWorkers /\ UNCHANGED workerVars
  BY <1>8 DEF DismissWorkers, Registered
<1>9. ASSUME NEW w \in Workers, VisitHeartbeatReply(w) \/ IntervalPasses(w),
             UNCHANGED workerVars
      PROVE  \A v \in Registered' : Reaching(v)'
  <2>1. /\ Registered' = Registered
        /\ \A v \in Registered' : worker_queues'[v].work = worker_queues[v].work
    BY <1>1, <1>9 DEF VisitHeartbeatReply, IntervalPasses, Registered, TypeOK, ServerTypeOK,
                      WorkerData
  <2> QED
    BY <1>6, <1>9, <2>1 DEF VisitHeartbeatReply, IntervalPasses, networkVars, workerVars
<1>10. CASE /\ \/ HistogramsComplete \/ StartEqualising \/ ServeExistingStarts
               \/ ExistingServed \/ ReceiveTimeout \/ StopCommunication \/ Exit
               \/ (\E f \in Files : PushEqualisationJob(f)) \/ CommunicationStops
            /\ UNCHANGED workerVars
  BY <1>6, <1>10
     DEF HistogramsComplete, StartEqualising, ServeExistingStarts, ExistingServed,
         ReceiveTimeout, StopCommunication, Exit, PushEqualisationJob,
         CommunicationStops, Registered, networkVars, workerVars
<1>11. CASE UNCHANGED vars
  BY <1>6, <1>11 DEF vars, Registered, networkVars, serverVars, workerVars
<1>12. ASSUME NEW w \in Workers,
              StartWorker(w) \/ WorkerStep(w) \/ WorkerFault(w) \/ RouteFound(w)
       PROVE  \A v \in Registered' : Reaching(v)'
  BY <1>2, <1>12, WorkerReaches
<1> QED
  BY <1>3, <1>4, <1>5, <1>7, <1>8, <1>9, <1>10, <1>11, <1>12 DEF Next, ServerNext, WorkStep

-----------------------------------------------------------------------------
(* Jobs wait only for workers that are busy *)

\* transmit_work leaves a queue full, or no job waiting.
LEMMA TransmitWorkFills ==
  ASSUME TypeOK, NEW w \in Workers, NEW data \in WorkerData,
         NEW batch \in Batches(data), TransmitWork(w, data, batch),
         data.work \cap enqueued_work = {}, enqueued_work' # {}
  PROVE  /\ enqueued_work # {}
         /\ Registered' = Registered \cup {w}
         /\ Full(w)'
         /\ \A v \in Registered \ {w} : worker_queues'[v] = worker_queues[v]
<1>1. /\ Registered' = Registered \cup {w}
      /\ worker_queues'[w] = [data EXCEPT !.work = @ \cup batch]
      /\ \A v \in Registered \ {w} : worker_queues'[v] = worker_queues[v]
      /\ enqueued_work' = enqueued_work \ batch
  BY DEF TransmitWork, Registered
<1>2. /\ worker_queues'[w].work = data.work \cup batch
      /\ worker_queues'[w].concurrency = data.concurrency
  BY <1>1 DEF WorkerData
<1>3. batch \in SUBSET enqueued_work /\ Cardinality(batch) = Room(data)
  BY DEF Batches
<1>4. /\ IsFiniteSet(data.work) /\ Cardinality(data.work) \in Nat
      /\ IsFiniteSet(batch) /\ Cardinality(batch) \in Nat
      /\ IsFiniteSet(enqueued_work) /\ Cardinality(enqueued_work) \in Nat
      /\ data.concurrency \in Nat
  BY <1>3, JobsFinite, FS_Subset, FS_CardinalityType
     DEF TypeOK, ServerTypeOK, WorkerData
<1>5. Cardinality(batch) # Cardinality(enqueued_work)
  BY <1>1, <1>3, <1>4, FS_Subset
<1>6. Cardinality(data.work) + Cardinality(batch) >= data.concurrency
  BY <1>3, <1>4, <1>5 DEF Room, Minimum
<1>7. Cardinality(data.work \cup batch) = Cardinality(data.work) + Cardinality(batch)
  <2>1. data.work \cap batch = {} /\ Cardinality({}) = 0
    BY <1>3, FS_EmptySet
  <2>2. Cardinality(data.work \cup batch) =
          Cardinality(data.work) + Cardinality(batch) - Cardinality(data.work \cap batch)
    BY <1>4, FS_Union
  <2>3. Cardinality(data.work \cap batch) = 0
    BY <2>1
  <2> QED
    BY <1>4, <2>2, <2>3
<1>8. Full(w)'
  BY <1>2, <1>6, <1>7 DEF Full
<1> QED
  BY <1>1, <1>8

\* So does the end of both result handlers.
LEMMA CompleteJobFills ==
  ASSUME IInv, NEW w \in Registered, NEW r \in Results, CompleteJob(w, r),
         enqueued_work' # {}, enqueued_work # {} => \A v \in Registered : Full(v)
  PROVE  \A v \in Registered' : Full(v)'
<1> DEFINE Erased(job) == [worker_queues[w] EXCEPT !.work = @ \ {job}]
<1>1. TypeOK /\ w \in Workers /\ worker_queues[w] \in WorkerData
  BY DEF IInv, TypeOK, ServerTypeOK, Registered
<1>2. PICK job \in worker_queues[w].work :
        \E batch \in Batches(Erased(job)) : TransmitWork(w, Erased(job), batch)
  BY DEF CompleteJob
<1>3. /\ Erased(job) \in WorkerData
      /\ Erased(job).work = worker_queues[w].work \ {job}
  BY <1>1 DEF WorkerData
<1>4. worker_queues[w].work \cap enqueued_work = {}
  BY <1>1 DEF IInv, QueuesDisjoint, Queue
<1> HIDE DEF Erased
<1>5. PICK batch \in Batches(Erased(job)) : TransmitWork(w, Erased(job), batch)
  BY <1>2
<1>6. Erased(job).work \cap enqueued_work = {}
  BY <1>3, <1>4
<1> QED
  BY <1>1, <1>3, <1>5, <1>6, TransmitWorkFills DEF Full

LEMMA FullWhileWaitingStep ==
  ASSUME IInv, OverdueIsDead, FullWhileWaiting, [Next]_vars
  PROVE  FullWhileWaiting'
<1>1. TypeOK /\ ExistingRegistered
  BY DEF IInv
<1>2. AllAlive' => AllAlive
  <2>1. CASE UNCHANGED connection
    BY <2>1 DEF AllAlive
  <2>2. CASE \E w \in Workers : StartWorker(w) \/ WorkerStep(w) \/ WorkerFault(w)
                                 \/ RouteFound(w)
    BY <1>1, <2>2, WorkerStepEffect DEF AllAlive
  <2> QED
    BY <2>1, <2>2 DEF Next, vars, workerVars
<1> SUFFICES ASSUME "slow" \notin Faults, AllAlive', enqueued_work' # {}, AllAlive
             PROVE  /\ WaitingForResults' => \A w \in Registered' : Full(w)'
                    /\ phase' = "serve_existing" =>
                         \A w \in Registered' \ existing_workers' : Full(w)'
  BY <1>2 DEF FullWhileWaiting
<1>3. enqueued_work # {} =>
        /\ WaitingForResults => \A w \in Registered : Full(w)
        /\ phase = "serve_existing" => \A w \in Registered \ existing_workers : Full(w)
  BY DEF FullWhileWaiting
<1>4. CASE UNCHANGED <<phase, existing_workers, enqueued_work, worker_queues>>
  BY <1>3, <1>4 DEF WaitingForResults, Full, Registered
<1>5. ASSUME NEW w \in Workers, NEW r \in Results,
             ReceiveHistogramResult(w, r) \/ ReceiveEqualisedResult(w, r)
      PROVE  WaitingForResults' /\ phase' # "serve_existing" /\ \A v \in Registered' : Full(v)'
  <2>1. WaitingForResults /\ WaitingForResults' /\ phase' # "serve_existing"
    BY <1>5 DEF ReceiveHistogramResult, ReceiveEqualisedResult, WaitingForResults
  <2>2. CASE UNCHANGED <<enqueued_work, worker_queues>>
    BY <1>3, <2>1, <2>2 DEF Full, Registered
  <2>3. CASE w \in Registered /\ CompleteJob(w, r)
    BY <1>3, <2>1, <2>3, CompleteJobFills
  <2> QED
    BY <1>5, <2>1, <2>2, <2>3 DEF ReceiveHistogramResult, ReceiveEqualisedResult, Registered
<1>6. ASSUME NEW w \in Workers, ServeExisting(w)
      PROVE  /\ phase' = "serve_existing"
             /\ \A v \in Registered' \ existing_workers' : Full(v)'
  <2>1. w \in Registered /\ worker_queues[w] \in WorkerData
    BY <1>1, <1>6 DEF ServeExisting, ExistingRegistered, Registered, TypeOK, ServerTypeOK
  <2>2. PICK batch \in Batches(worker_queues[w]) :
          TransmitWork(w, worker_queues[w], batch)
    BY <1>6 DEF ServeExisting
  <2>3. worker_queues[w].work \cap enqueued_work = {}
    BY <2>1 DEF IInv, QueuesDisjoint, Queue
  <2>4. /\ enqueued_work # {} /\ Registered' = Registered \cup {w} /\ Full(w)'
        /\ \A v \in Registered \ {w} : worker_queues'[v] = worker_queues[v]
    BY <1>1, <2>1, <2>2, <2>3, TransmitWorkFills
  <2>5. phase = "serve_existing" /\ phase' = phase /\ existing_workers' = existing_workers \ {w}
    BY <1>6 DEF ServeExisting
  <2> QED
    BY <1>3, <2>4, <2>5 DEF Full
<1>7. ASSUME NEW w \in Workers, VisitHelo(w)
      PROVE  /\ phase' # "serve_existing"
             /\ WaitingForResults' => \A v \in Registered' : Full(v)'
  <2>1. phase' = phase /\ phase # "serve_existing"
    BY <1>7 DEF VisitHelo, ReceiveCommand
  <2>2. w \notin Registered
    BY <1>7, VisitHeloEffect
  <2>3. Registration(w) \in WorkerData /\ Registration(w).work = {}
    BY <1>1, <2>2, RegistrationType DEF Registration, Registered
  <2>4. PICK batch \in Batches(Registration(w)) : TransmitWork(w, Registration(w), batch)
    BY <1>7 DEF VisitHelo
  <2>5. /\ enqueued_work # {} /\ Registered' = Registered \cup {w} /\ Full(w)'
        /\ \A v \in Registered \ {w} : worker_queues'[v] = worker_queues[v]
    BY <1>1, <2>3, <2>4, TransmitWorkFills
  <2> QED
    BY <1>3, <2>1, <2>5 DEF Full, WaitingForResults
<1>8. CASE SendHeartbeats
  <2>1. Unanswered = {}
    BY DEF Unanswered, OverdueIsDead, AllAlive, Registered, IInv, TypeOK, ServerTypeOK
  <2>2. enqueued_work' = enqueued_work
    BY <1>8, <2>1 DEF SendHeartbeats, ReleasedWork
  <2>3. \A w \in Registered :
          /\ Requested(worker_queues[w]).work = worker_queues[w].work
          /\ Requested(worker_queues[w]).concurrency = worker_queues[w].concurrency
    BY <1>1 DEF Requested, Registered, TypeOK, ServerTypeOK, WorkerData
  <2>4. \A w \in Registered' : /\ w \in Registered
                               /\ worker_queues'[w].work = worker_queues[w].work
                               /\ worker_queues'[w].concurrency = worker_queues[w].concurrency
    BY <1>8, <2>3 DEF SendHeartbeats, Registered
  <2>5. WaitingForResults /\ phase' # "serve_existing"
    BY <1>8 DEF SendHeartbeats, WaitingForResults
  <2> QED
    BY <1>3, <2>2, <2>4, <2>5 DEF Full
<1>9. ASSUME NEW w \in Workers, VisitHeartbeatReply(w) \/ IntervalPasses(w)
      PROVE  /\ WaitingForResults' => \A v \in Registered' : Full(v)'
             /\ phase' = "serve_existing" =>
                  \A v \in Registered' \ existing_workers' : Full(v)'
  <2>1. \A v \in Registered' : /\ v \in Registered
                               /\ worker_queues'[v].work = worker_queues[v].work
                               /\ worker_queues'[v].concurrency = worker_queues[v].concurrency
    BY <1>1, <1>9 DEF VisitHeartbeatReply, IntervalPasses, Registered, TypeOK, ServerTypeOK,
                      WorkerData
  <2>2. UNCHANGED <<phase, enqueued_work, existing_workers>>
    BY <1>9 DEF VisitHeartbeatReply, IntervalPasses, stageVars
  <2> QED
    BY <1>3, <2>1, <2>2 DEF Full, WaitingForResults
<1>10. CASE ServeExistingStarts
  BY <1>10 DEF ServeExistingStarts, WaitingForResults, Registered
<1>11. CASE ExistingServed
  BY <1>3, <1>11 DEF ExistingServed, WaitingForResults, Registered, Full
<1>12. CASE ReceiveTimeout
  BY <1>3, <1>12 DEF ReceiveTimeout, WaitingForResults, Registered, Full
<1>13. CASE \/ HistogramsComplete \/ StartEqualising \/ DismissWorkers \/ StopCommunication
            \/ Exit \/ (\E f \in Files : PushEqualisationJob(f))
  BY <1>13 DEF HistogramsComplete, StartEqualising, DismissWorkers, StopCommunication, Exit,
               PushEqualisationJob, WaitingForResults
<1>14. CASE \/ CommunicationStops \/ UNCHANGED vars
            \/ (\E w \in Workers : StartWorker(w) \/ WorkerStep(w) \/ WorkerFault(w)
                                   \/ RouteFound(w))
  BY <1>4, <1>14 DEF CommunicationStops, StartWorker, WorkerStep, WorkerFault, RouteFound,
                     serverVars, vars
<1> QED
  BY <1>5, <1>6, <1>7, <1>8, <1>9, <1>10, <1>11, <1>12, <1>13, <1>14
     DEF Next, ServerNext, WorkStep, WaitingForResults

-----------------------------------------------------------------------------
(* The theorems *)

LEMMA AnswersInvInit == Init => AnswersInv
<1> SUFFICES ASSUME Init PROVE AnswersInv
  OBVIOUS
<1>1. /\ Registered = {}
      /\ \A w \in Workers : /\ comm_to_worker[w] = <<>>
                           /\ comm_to_server[w] = <<>>
                           /\ connection[w] = "NotStarted"
  BY DEF Init, NetworkInit, ServerInit, WorkerInit, Registered
<1>2. ReplyAnswersLatestRequest
  BY <1>1, OccurrencesEmpty DEF ReplyAnswersLatestRequest, Recorded
<1>3. RepliesFollowEhlo
  BY <1>1 DEF RepliesFollowEhlo, Recorded
<1> QED
  BY <1>1, <1>2, <1>3
     DEF AnswersInv, CapacityKept, RoutesOpen, OverdueIsDead, FullWhileWaiting,
         OutstandingReachesWorker, Init, ServerInit

LEMMA AnswersInvStep == IInv /\ IInv' /\ AnswersInv /\ [Next]_vars => AnswersInv'
<1> SUFFICES ASSUME IInv, IInv', AnswersInv, [Next]_vars
             PROVE  AnswersInv'
  OBVIOUS
<1>1. TypeOK /\ TypeOK' /\ ExistingRegistered
  BY DEF IInv
<1>2. StepKind
  BY <1>1, StepKinds
<1>3. CapacityKept'
  BY <1>1, CapacityStep DEF AnswersInv
<1>4. RepliesFollowEhlo'
  BY <1>2, RepliesFollowEhloStep DEF AnswersInv
<1>5. ReplyAnswersLatestRequest'
  BY <1>1, <1>2, AnswersStep DEF AnswersInv
<1>6. RoutesOpen'
  BY <1>2, RoutesOpenStep DEF AnswersInv
<1>7. OverdueIsDead'
  BY <1>2, OverdueIsDeadStep DEF AnswersInv
<1>8. "late_route" \notin Faults => OutstandingReachesWorker'
  BY <1>1, OutstandingStep DEF AnswersInv
<1>9. FullWhileWaiting'
  BY FullWhileWaitingStep DEF AnswersInv
<1> QED
  BY <1>3, <1>4, <1>5, <1>6, <1>7, <1>8, <1>9 DEF AnswersInv

\* The second invariant holds of every behaviour, by the help of the first.
THEOREM AnswersInvariantHolds == Spec => []AnswersInv
  BY InvariantHolds, AnswersInvInit, AnswersInvStep, PTL DEF Spec

\* transmit_work never gives a worker more jobs than its thread count or the
\* server's limit allows.
THEOREM QueuesWithinCapacity == Spec => []QueueWithinCapacity
<1>1. AnswersInv => QueueWithinCapacity
  BY DEF AnswersInv, CapacityKept, QueueWithinCapacity
<1> QED
  BY AnswersInvariantHolds, <1>1, PTL

\* The first command a connecting worker reads is the EHLO, so that
\* assert(currentState == Connected) (worker.cpp:129) cannot fail.
THEOREM EhloIsFirst == Spec => []EhloComesFirst
<1>1. AnswersInv => EhloComesFirst
  BY DEF AnswersInv, RepliesFollowEhlo, EhloComesFirst
<1> QED
  BY AnswersInvariantHolds, <1>1, PTL

\* The server takes no late reply for the answer to a later request.
THEOREM RepliesAnswerLatestRequest == Spec => []ReplyAnswersLatestRequest
<1>1. AnswersInv => ReplyAnswersLatestRequest
  BY DEF AnswersInv
<1> QED
  BY AnswersInvariantHolds, <1>1, PTL

\* When the work socket of a worker is known by the time its HELO is handled, the
\* server waits for no job that a running worker never got.
THEOREM OutstandingJobsReachWorkers ==
  ASSUME "late_route" \notin Faults
  PROVE  Spec => []OutstandingReachesWorker
<1>1. AnswersInv => OutstandingReachesWorker
  BY DEF AnswersInv
<1> QED
  BY AnswersInvariantHolds, <1>1, PTL

\* While every worker is alive and answers in time, the server is never left with
\* results to wait for and nothing on its way: the safety half of the claim that
\* serve_work ends.
THEOREM WorkNeverStandsStill ==
  ASSUME "slow" \notin Faults, "late_route" \notin Faults
  PROVE  Spec => []NoStandstill
<1>1. ASSUME IInv, AnswersInv PROVE NoStandstill
  <2> SUFFICES ASSUME WaitingForResults, AllAlive, NEW f \in Files, ~ Completed(f),
                      NEW w \in Registered, worker_queues[w].concurrency > 0
               PROVE  \E v \in Registered : Carried(v) # {}
    BY DEF NoStandstill, CompletedFiles
  <2>1. /\ TypeOK /\ Registered \subseteq Workers
        /\ \A v \in Registered : worker_queues[v] \in WorkerData
    BY <1>1 DEF IInv, TypeOK, ServerTypeOK, Registered
  <2>2. ASSUME NEW v \in Registered, worker_queues[v].work # {}
        PROVE  Carried(v) # {}
    BY <1>1, <2>1, <2>2, JobEquality
       DEF AnswersInv, OutstandingReachesWorker, AllAlive, Carried, TypeOK, ServerTypeOK,
           WorkerData, Registered
  <2>3. CASE Waiting(f)
    <3>1. unpushed = {}
      BY <1>1 DEF IInv, UnpushedNowhere, WaitingForResults
    <3>2. enqueued_work # {}
      BY <2>3, <3>1 DEF Waiting
    <3>3. Full(w)
      BY <1>1, <3>2 DEF AnswersInv, FullWhileWaiting
    <3>4. worker_queues[w].work # {}
      <4>1. worker_queues[w].concurrency \in Nat
        BY <2>1 DEF WorkerData
      <4>2. worker_queues[w].work = {} => Cardinality(worker_queues[w].work) = 0
        BY FS_EmptySet
      <4> QED
        BY <3>3, <4>1, <4>2 DEF Full
    <3> QED
      BY <2>2, <3>4
  <2>4. CASE HoldersOf(f) # {}
    BY <2>2, <2>4 DEF HoldersOf
  <2> QED
    BY <2>3, <2>4 DEF Completed
<1> QED
  BY InvariantHolds, AnswersInvariantHolds, <1>1, PTL

\* When workers answer in time, send_heartbeats dismisses none that runs: each it
\* dismisses owes an overdue answer, so its sockets were closed.
THEOREM LiveWorkersAreKept ==
  ASSUME "slow" \notin Faults
  PROVE  Spec => LiveWorkerKept
<1>1. IInv /\ AnswersInv /\ [Next]_vars =>
        [phase = "send_heartbeats" =>
           \A w \in Registered \ Registered' : connection[w] = "Gone"]_vars
  <2> SUFFICES ASSUME IInv, AnswersInv, [Next]_vars, phase = "send_heartbeats",
                      NEW w \in Registered \ Registered'
               PROVE  connection[w] = "Gone"
    OBVIOUS
  <2>1. TypeOK /\ ExistingRegistered
    BY DEF IInv
  <2>2. CASE SendHeartbeats
    <3>1. w \in Unanswered
      BY <2>1, <2>2, SendHeartbeatsEffect
    <3> QED
      BY <3>1 DEF Unanswered, AnswersInv, OverdueIsDead, Registered
  <2>3. CASE WorkStep /\ ~ SendHeartbeats
    BY <2>3 DEF WorkStep, ReceiveHistogramResult, HistogramsComplete,
                PushEqualisationJob, StartEqualising, ServeExistingStarts,
                ServeExisting, ExistingServed, ReceiveEqualisedResult, ReceiveTimeout,
                DismissWorkers, StopCommunication, Exit
  <2>4. CASE (\E v \in Workers : VisitHelo(v)) /\ UNCHANGED workerVars
    BY <2>4, VisitHeloEffect
  <2>5. CASE \E v \in Workers : VisitHeartbeatReply(v) \/ IntervalPasses(v)
    BY <2>1, <2>5, VisitReplyEffect, IntervalPassesEffect
  <2>6. CASE CommunicationStops \/ UNCHANGED vars
    BY <2>6 DEF CommunicationStops, vars, serverVars, Registered
  <2>7. CASE \E v \in Workers : StartWorker(v) \/ WorkerStep(v) \/ WorkerFault(v)
                                 \/ RouteFound(v)
    BY <2>1, <2>7, WorkerStepEffect
  <2> QED
    BY <2>2, <2>3, <2>4, <2>5, <2>6, <2>7 DEF Next, ServerNext
<1> QED
  BY InvariantHolds, AnswersInvariantHolds, <1>1, PTL DEF Spec, LiveWorkerKept

-----------------------------------------------------------------------------
(* What the server and a worker may take for granted of each other *)

\* Only send_heartbeats and dismiss_workers forget a worker, and they tell it BYE.
LEMMA ServerForgets ==
  ASSUME TypeOK, ExistingRegistered, ServerNext
  PROVE  \/ /\ Registered \subseteq Registered'
            /\ UNCHANGED bye_to_worker
         \/ /\ bye_to_worker' = bye_to_worker \cup
                   {w \in Registered \ Registered' : "work" \in routes[w]}
            /\ Registered' \subseteq Registered
            /\ UNCHANGED <<work_to_worker, comm_to_server>>
<1>1. CASE SendHeartbeats
  <2>1. Registered' = Registered \ Unanswered /\ Unanswered \subseteq Registered
    BY <1>1, SendHeartbeatsEffect DEF Unanswered, Registered
  <2>2. bye_to_worker' = bye_to_worker \cup {w \in Unanswered : "work" \in routes[w]}
    BY <1>1 DEF SendHeartbeats, SendByes
  <2>3. Registered \ Registered' = Unanswered
    BY <2>1
  <2> QED
    BY <1>1, <2>1, <2>2, <2>3 DEF SendHeartbeats
<1>2. CASE DismissWorkers
  <2>1. Registered' = {}
    BY <1>2 DEF DismissWorkers, Registered
  <2>2. bye_to_worker' = bye_to_worker \cup {w \in Registered : "work" \in routes[w]}
    BY <1>2 DEF DismissWorkers, SendByes, Registered
  <2>3. Registered \ Registered' = Registered
    BY <2>1
  <2> QED
    BY <1>2, <2>1, <2>2, <2>3 DEF DismissWorkers
<1>3. ASSUME NEW w \in Workers, NEW r \in Results,
             ReceiveHistogramResult(w, r) \/ ReceiveEqualisedResult(w, r)
      PROVE  Registered \subseteq Registered' /\ UNCHANGED bye_to_worker
  BY <1>3 DEF ReceiveHistogramResult, ReceiveEqualisedResult, CompleteJob, TransmitWork,
              Registered
<1>4. ASSUME NEW w \in Workers,
             ServeExisting(w) \/ VisitHelo(w) \/ VisitHeartbeatReply(w) \/ IntervalPasses(w)
      PROVE  Registered \subseteq Registered' /\ UNCHANGED bye_to_worker
  BY <1>4 DEF ServeExisting, VisitHelo, VisitHeartbeatReply, IntervalPasses, TransmitWork,
              Registered, networkVars, TypeOK, ServerTypeOK
<1>5. CASE \/ HistogramsComplete \/ StartEqualising \/ ServeExistingStarts
           \/ ExistingServed \/ ReceiveTimeout \/ StopCommunication \/ Exit
           \/ (\E f \in Files : PushEqualisationJob(f)) \/ CommunicationStops
  BY <1>5
     DEF HistogramsComplete, StartEqualising, ServeExistingStarts, ExistingServed,
         ReceiveTimeout, StopCommunication, Exit, PushEqualisationJob, CommunicationStops,
         Registered, networkVars
<1> QED
  BY <1>1, <1>2, <1>3, <1>4, <1>5 DEF ServerNext, WorkStep

\* No step leaves a forgotten worker without its BYE.
LEMMA ForgottenStep ==
  ASSUME IInv, RoutesOpen, "late_route" \notin Faults, ForgottenIsReleased, [Next]_vars
  PROVE  ForgottenIsReleased'
<1> SUFFICES ASSUME NEW v \in Workers, connection'[v] \in {"Unconnected", "Connected"},
                    v \notin Registered', ~ (Fresh(v)')
             PROVE  v \in bye_to_worker'
  BY DEF ForgottenIsReleased
<1>1. TypeOK /\ ExistingRegistered /\ FreshUnknown
  BY DEF IInv
<1>2. connection[v] \in {"Unconnected", "Connected"} /\ v \notin Registered /\ ~ Fresh(v)
        => v \in bye_to_worker
  BY DEF ForgottenIsReleased
<1>3. CASE ServerNext /\ UNCHANGED workerVars
  <2>1. connection[v] = connection'[v]
    BY <1>3 DEF workerVars
  <2>2. CASE v \in Registered
    <3>1. "work" \in routes[v]
      BY <2>1 DEF RoutesOpen
    <3> QED
      BY <1>1, <1>3, <2>2, <3>1, ServerForgets
  <2>3. CASE v \notin Registered
    <3>1. bye_to_worker \subseteq bye_to_worker'
      BY <1>1, <1>3, ServerForgets
    <3>2. CASE Fresh(v)
      <4>1. comm_to_server[v] = <<"HELO">>
        BY <2>1, <3>2 DEF Fresh
      <4>2. comm_to_server'[v] # comm_to_server[v]
        BY <4>1 DEF Fresh
      <4>3. VisitHelo(v) \/ VisitHeartbeatReply(v)
        <5>1. \E w \in Workers : VisitHelo(w) \/ VisitHeartbeatReply(w)
          BY <1>1, <1>3, <4>2, IntervalPassesEffect
             DEF ServerNext, WorkStep, ReceiveHistogramResult, HistogramsComplete,
                 PushEqualisationJob, StartEqualising, ServeExistingStarts, ServeExisting,
                 ExistingServed, ReceiveEqualisedResult, ReceiveTimeout, SendHeartbeats,
                 DismissWorkers, StopCommunication, Exit, CommunicationStops, networkVars
        <5>2. PICK w \in Workers : VisitHelo(w) \/ VisitHeartbeatReply(w)
          BY <5>1
        <5>3. w # v => comm_to_server'[v] = comm_to_server[v]
          BY <1>1, <5>2, VisitHeloEffect, VisitReplyEffect
        <5> QED
          BY <4>2, <5>2, <5>3
      <4>4. ~ VisitHeartbeatReply(v)
        BY <1>1, <4>1, VisitReplyEffect
      <4>5. v \in Registered'
        BY <4>3, <4>4, VisitHeloEffect
      <4> QED
        BY <4>5
    <3>3. CASE ~ Fresh(v)
      BY <1>2, <2>1, <2>3, <3>1, <3>3
    <3> QED
      BY <3>2, <3>3
  <2> QED
    BY <2>2, <2>3
<1>4. ASSUME NEW w \in Workers,
             StartWorker(w) \/ WorkerStep(w) \/ WorkerFault(w) \/ RouteFound(w)
      PROVE  v \in bye_to_worker'
  <2>1. Registered' = Registered
    BY <1>1, <1>4, WorkerStepEffect
  <2> USE DEF TypeOK, NetworkTypeOK, WorkerTypeOK
  <2>2. CASE v # w
    <3>1. /\ connection'[v] = connection[v] /\ comm_to_server'[v] = comm_to_server[v]
      BY <1>1, <1>4, <2>2, WorkerStepEffect
    <3>2. v \in bye_to_worker => v \in bye_to_worker'
      BY <1>4, <2>2
         DEF StartWorker, SendHelo, WorkerStep, VisitEhlo, VisitJob, VisitBye, RunJob,
             AnswerHeartbeat, Disconnect, WorkerFault, ConnectTimeout, Crash, CloseSockets,
             RouteFound, RouteWork
    <3> QED
      BY <1>2, <2>1, <3>1, <3>2 DEF Fresh
  <2>3. CASE v = w
    <3>1. CASE StartWorker(w)
      BY <1>1, <2>3, <3>1 DEF StartWorker, SendHelo, Fresh
    <3>2. CASE VisitEhlo(w)
      BY <1>1, <1>2, <2>1, <2>3, <3>2 DEF VisitEhlo, Fresh
    <3>3. CASE \E job \in Jobs : VisitJob(w, job) \/ RunJob(w, job)
      BY <1>1, <1>2, <2>1, <2>3, <3>3 DEF VisitJob, RunJob, Fresh
    <3>4. CASE VisitBye(w)
      BY <1>1, <2>3, <3>4 DEF VisitBye
    <3>5. CASE AnswerHeartbeat(w)
      <4>1. connection[w] \in {"Connected", "Dying"} /\ UNCHANGED <<connection, bye_to_worker>>
        BY <3>5 DEF AnswerHeartbeat
      <4>2. ~ Fresh(w)
        BY <1>1, <4>1 DEF FreshUnknown
      <4> QED
        BY <1>2, <2>1, <2>3, <4>1, <4>2
    <3>6. CASE Disconnect(w) \/ WorkerFault(w)
      BY <1>1, <2>3, <3>6 DEF Disconnect, WorkerFault, ConnectTimeout, Crash
    <3>7. CASE RouteFound(w)
      BY <1>2, <2>1, <2>3, <3>7 DEF RouteFound, RouteWork, workerVars, Fresh
    <3> QED
      BY <1>4, <3>1, <3>2, <3>3, <3>4, <3>5, <3>6, <3>7 DEF WorkerStep
  <2> QED
    BY <2>2, <2>3
<1>5. CASE UNCHANGED vars
  BY <1>2, <1>5 DEF vars, networkVars, workerVars, serverVars, Fresh, Registered
<1> QED
  BY <1>3, <1>4, <1>5 DEF Next

\* send_heartbeats and dismiss_workers tell every running worker they forget, and no
\* worker's BYE is lost while it runs: none waits for a server that knows it no more.
THEOREM ForgottenAreReleased ==
  ASSUME "late_route" \notin Faults
  PROVE  Spec => []ForgottenIsReleased
<1>1. Init => ForgottenIsReleased
  BY DEF Init, WorkerInit, ForgottenIsReleased, Fresh
<1>2. IInv /\ AnswersInv /\ ForgottenIsReleased /\ [Next]_vars => ForgottenIsReleased'
  BY ForgottenStep DEF AnswersInv
<1> QED
  BY InvariantHolds, AnswersInvariantHolds, <1>1, <1>2, PTL DEF Spec

\* The work socket of w is written by transmit_work alone: with jobs that waited, for
\* a worker that is registered or whose HELO is being handled.
LEMMA JobsSentWereWaiting ==
  ASSUME IInv, [Next]_vars, NEW w \in Workers, NEW job \in work_to_worker'[w] \ work_to_worker[w]
  PROVE  job \in enqueued_work /\ (w \in Registered \/ Fresh(w))
<1>1. TypeOK /\ ExistingRegistered
  BY DEF IInv
<1>2. ASSUME NEW v \in Workers, NEW data, NEW batch \in SUBSET enqueued_work,
             TransmitWork(v, data, batch)
      PROVE  v = w /\ job \in enqueued_work
  BY <1>1, <1>2 DEF TransmitWork, SendJobs, TypeOK, NetworkTypeOK
<1>3. ~ UNCHANGED work_to_worker
  OBVIOUS
<1>4. ASSUME NEW v \in Workers, NEW r \in Results,
             ReceiveHistogramResult(v, r) \/ ReceiveEqualisedResult(v, r)
      PROVE  job \in enqueued_work /\ w \in Registered
  <2>1. v \in Registered /\ CompleteJob(v, r)
    BY <1>3, <1>4 DEF ReceiveHistogramResult, ReceiveEqualisedResult, Registered
  <2> QED
    BY <1>2, <2>1 DEF CompleteJob, Batches
<1>5. ASSUME NEW v \in Workers, ServeExisting(v)
      PROVE  job \in enqueued_work /\ w \in Registered
  BY <1>1, <1>2, <1>5 DEF ServeExisting, Batches, ExistingRegistered
<1>6. ASSUME NEW v \in Workers, VisitHelo(v)
      PROVE  job \in enqueued_work /\ Fresh(w)
  <2>1. comm_to_server[v] = <<"HELO">>
    BY <1>6, VisitHeloEffect
  <2>2. v = w /\ job \in enqueued_work
    BY <1>2, <1>6 DEF VisitHelo, Batches
  <2> QED
    BY <2>1, <2>2 DEF Fresh
<1>7. ASSUME NEW v \in Workers,
             StartWorker(v) \/ WorkerStep(v) \/ WorkerFault(v) \/ RouteFound(v)
      PROVE  FALSE
  BY <1>1, <1>3, <1>7
     DEF StartWorker, SendHelo, WorkerStep, VisitEhlo, VisitJob, VisitBye, RunJob,
         AnswerHeartbeat, Disconnect, WorkerFault, ConnectTimeout, Crash, CloseSockets,
         RouteFound, RouteWork, TypeOK, NetworkTypeOK
<1>8. ~ \/ SendHeartbeats \/ DismissWorkers \/ HistogramsComplete \/ StartEqualising
        \/ ServeExistingStarts \/ ExistingServed \/ ReceiveTimeout \/ StopCommunication
        \/ Exit \/ (\E f \in Files : PushEqualisationJob(f)) \/ CommunicationStops
        \/ (\E v \in Workers : VisitHeartbeatReply(v) \/ IntervalPasses(v))
        \/ UNCHANGED vars
  BY <1>3
     DEF SendHeartbeats, DismissWorkers, HistogramsComplete, StartEqualising,
         ServeExistingStarts, ExistingServed, ReceiveTimeout, StopCommunication, Exit,
         PushEqualisationJob, CommunicationStops, VisitHeartbeatReply, IntervalPasses, vars,
         networkVars
<1> QED
  BY <1>4, <1>5, <1>6, <1>7, <1>8 DEF Next, ServerNext, WorkStep

\* The server gives a worker what WorkerThreads takes for granted of it, under every
\* fault: no job that is with it still, nothing after BYE, and BYE once, when it
\* forgets the worker.
THEOREM ServerKeepsOrder == Spec => ServerKeepsToOrder
<1>1. IInv /\ [Next]_vars =>
        [\A w \in Workers :
           /\ \A job \in work_to_worker'[w] \ work_to_worker[w] :
                /\ w \notin bye_to_worker /\ connection[w] # "Dying"
                /\ job \notin jobs[w] \cup work_to_server[w]
           /\ w \in Registered \ Registered' =>
                w \notin bye_to_worker /\ connection[w] # "Dying"
           /\ w \in bye_to_worker' \ bye_to_worker => w \in Registered \ Registered']_vars
  <2> SUFFICES ASSUME IInv, [Next]_vars, NEW w \in Workers
               PROVE  /\ \A job \in work_to_worker'[w] \ work_to_worker[w] :
                           /\ w \notin bye_to_worker /\ connection[w] # "Dying"
                           /\ job \notin jobs[w] \cup work_to_server[w]
                      /\ w \in Registered \ Registered' =>
                           w \notin bye_to_worker /\ connection[w] # "Dying"
                      /\ w \in bye_to_worker' \ bye_to_worker => w \in Registered \ Registered'
    OBVIOUS
  <2>1. w \in Registered => w \notin bye_to_worker /\ connection[w] # "Dying"
    BY DEF IInv, DismissedHoldsNoWork
  <2>2. Fresh(w) => /\ w \notin bye_to_worker /\ connection[w] # "Dying"
                   /\ Carried(w) = {}
    BY DEF IInv, FreshUnknown
  <2>3. ASSUME NEW job \in work_to_worker'[w] \ work_to_worker[w]
        PROVE  /\ w \notin bye_to_worker /\ connection[w] # "Dying"
               /\ job \notin jobs[w] \cup work_to_server[w]
    <3>1. job \in enqueued_work /\ (w \in Registered \/ Fresh(w))
      BY JobsSentWereWaiting
    <3>2. w \in Registered => job \notin Carried(w)
      BY <3>1 DEF IInv, CarriedRecorded, QueuesDisjoint
    <3> QED
      BY <2>1, <2>2, <3>1, <3>2 DEF Carried
  <2>4. ASSUME w \in bye_to_worker' \ bye_to_worker
        PROVE  w \in Registered \ Registered'
    <3>1. CASE ServerNext
      BY <2>4, <3>1, ServerForgets DEF IInv
    <3>2. CASE \E v \in Workers : StartWorker(v) \/ WorkerStep(v) \/ WorkerFault(v)
                                   \/ RouteFound(v)
      BY <2>4, <3>2
         DEF StartWorker, SendHelo, WorkerStep, VisitEhlo, VisitJob, VisitBye, RunJob,
             AnswerHeartbeat, Disconnect, WorkerFault, ConnectTimeout, Crash, CloseSockets,
             RouteFound, RouteWork
    <3>3. CASE UNCHANGED vars
      BY <2>4, <3>3 DEF vars, networkVars
    <3> QED
      BY <3>1, <3>2, <3>3 DEF Next
  <2> QED
    BY <2>1, <2>3, <2>4
<1> QED
  BY InvariantHolds, <1>1, PTL DEF Spec, ServerKeepsToOrder

-----------------------------------------------------------------------------
(* A dead worker's dismissal *)

\* The sum of DelaysLeft, by its three parts.
LEMMA FewerDelays ==
  ASSUME NEW w \in Registered, w \in Registered', TypeOK, TypeOK',
         Replies(w)' <= Replies(w),
         \/ /\ worker_queues'[w].request_overdue = worker_queues[w].request_overdue
            /\ worker_queues'[w].heartbeat_reply_received
                 = worker_queues[w].heartbeat_reply_received
         \/ /\ ~ worker_queues[w].request_overdue /\ worker_queues'[w].request_overdue
            /\ worker_queues'[w].heartbeat_reply_received
                 = worker_queues[w].heartbeat_reply_received
         \/ /\ worker_queues[w].heartbeat_reply_received
            /\ ~ worker_queues'[w].heartbeat_reply_received
         \/ /\ Replies(w)' < Replies(w)
            /\ worker_queues'[w].request_overdue = worker_queues[w].request_overdue
  PROVE  /\ DelaysLeft(w)' <= DelaysLeft(w)
         /\ \/ Replies(w)' < Replies(w)
            \/ worker_queues'[w].request_overdue # worker_queues[w].request_overdue
            \/ worker_queues'[w].heartbeat_reply_received
                 # worker_queues[w].heartbeat_reply_received
            => DelaysLeft(w)' < DelaysLeft(w)
<1>1. w \in Workers /\ worker_queues[w] \in WorkerData /\ worker_queues'[w] \in WorkerData
  BY DEF TypeOK, ServerTypeOK, Registered
<1>2. Replies(w) \in Nat /\ Replies(w)' \in Nat
  BY <1>1, CountsNat, CountsNatNext
<1>3. /\ DelaysLeft(w) = (IF worker_queues[w].request_overdue THEN 0 ELSE 1)
                           + (IF worker_queues[w].heartbeat_reply_received THEN 2 ELSE 0)
                           + 3 * Replies(w)
      /\ DelaysLeft(w)' = (IF worker_queues'[w].request_overdue THEN 0 ELSE 1)
                            + (IF worker_queues'[w].heartbeat_reply_received THEN 2 ELSE 0)
                            + 3 * Replies(w)'
  BY DEF DelaysLeft, Replies
<1> QED
  BY <1>1, <1>2, <1>3 DEF WorkerData

\* A dead worker is heard only by the replies it has already sent, and an interval
\* passes for it once for each reply that is taken: send_heartbeats finds it
\* unanswered after as many steps as DelaysLeft says, whatever comes between.
THEOREM DismissalNeverPutOff == Spec => DismissalComesNearer
<1> DEFINE Awaited(w) == \/ VisitHeartbeatReply(w)
                         \/ IntervalPasses(w)
                         \/ SendHeartbeats /\ worker_queues[w].request_overdue
<1>1. IInv /\ IInv' /\ [Next]_vars =>
        [\A w \in Registered \cap Registered' :
           connection[w] = "Gone" =>
             /\ DelaysLeft(w)' <= DelaysLeft(w)
             /\ Awaited(w) => DelaysLeft(w)' < DelaysLeft(w)]_vars
  <2> SUFFICES ASSUME IInv, IInv', [Next]_vars, NEW w \in Registered, w \in Registered',
                      connection[w] = "Gone"
               PROVE  /\ DelaysLeft(w)' <= DelaysLeft(w)
                      /\ Awaited(w) => DelaysLeft(w)' < DelaysLeft(w)
    OBVIOUS
  <2>1. TypeOK /\ TypeOK' /\ ExistingRegistered /\ StepKind /\ w \in Workers
    BY StepKinds DEF IInv, TypeOK, ServerTypeOK, Registered
  <2>2. Replies(w) \in Nat /\ Replies(w)' \in Nat
    BY <2>1, CountsNat, CountsNatNext
  <2>3. VisitHeartbeatReply(w) => Replies(w)' < Replies(w)
    <3>1. comm_to_server[w] \in Seq(ToServerCommand)
      BY <2>1 DEF TypeOK, NetworkTypeOK
    <3> SUFFICES ASSUME VisitHeartbeatReply(w)
                 PROVE  Replies(w)' < Replies(w)
      OBVIOUS
    <3>2. /\ comm_to_server[w] # <<>> /\ Head(comm_to_server[w]) = "HEARTBEAT_REPLY"
          /\ comm_to_server'[w] = Tail(comm_to_server[w])
      BY <2>1, VisitReplyEffect
    <3>3. Replies(w) = Occurrences("HEARTBEAT_REPLY", Tail(comm_to_server[w])) + 1
      BY <3>1, <3>2, OccurrencesTail DEF Replies
    <3>4. Replies(w)' = Occurrences("HEARTBEAT_REPLY", Tail(comm_to_server[w]))
      BY <3>2 DEF Replies
    <3> QED
      BY <2>2, <3>3, <3>4
  <2>4. IntervalPasses(w) =>
          ~ worker_queues[w].request_overdue /\ worker_queues'[w].request_overdue
    BY <2>1 DEF IntervalPasses, TypeOK, ServerTypeOK, WorkerData, Registered
  <2>5. SendHeartbeats =>
          IF w \in Answered
          THEN /\ worker_queues[w].heartbeat_reply_received
               /\ ~ worker_queues'[w].heartbeat_reply_received
               /\ Replies(w)' = Replies(w)
          ELSE UNCHANGED Replies(w) /\ worker_queues'[w] = worker_queues[w]
    BY <2>1, SendHeartbeatsEffect DEF Recorded, Replies
  <2>6. Awaited(w) =>
          \/ Replies(w)' < Replies(w)
          \/ worker_queues'[w].request_overdue # worker_queues[w].request_overdue
          \/ worker_queues'[w].heartbeat_reply_received
               # worker_queues[w].heartbeat_reply_received
    <3>1. SendHeartbeats /\ worker_queues[w].request_overdue => w \in Answered
      BY <2>1, SendHeartbeatsEffect DEF Answered, Unanswered, Registered
    <3> QED
      BY <2>3, <2>4, <2>5, <3>1
  <2>7. CASE /\ Replies(w)' <= Replies(w)
             /\ worker_queues'[w].request_overdue = worker_queues[w].request_overdue
             /\ worker_queues'[w].heartbeat_reply_received
                  = worker_queues[w].heartbeat_reply_received
    BY <2>1, <2>6, <2>7, FewerDelays
  <2>8. CASE Quiet
    BY <2>2, <2>7, <2>8 DEF Quiet, Replies
  <2>9. CASE SendHeartbeats
    BY <2>1, <2>2, <2>5, <2>6, <2>7, <2>9, FewerDelays
  <2>10. ASSUME NEW v \in Workers, VisitHelo(v)
         PROVE  /\ DelaysLeft(w)' <= DelaysLeft(w)
                /\ Awaited(w) => DelaysLeft(w)' < DelaysLeft(w)
    <3>1. v # w /\ comm_to_server'[w] = comm_to_server[w] /\ worker_queues'[w] = worker_queues[w]
      BY <2>1, <2>10, VisitHeloEffect
    <3> QED
      BY <2>2, <2>7, <3>1 DEF Replies
  <2>11. ASSUME NEW v \in Workers, VisitHeartbeatReply(v)
         PROVE  /\ DelaysLeft(w)' <= DelaysLeft(w)
                /\ Awaited(w) => DelaysLeft(w)' < DelaysLeft(w)
    <3>1. CASE v = w
      <4>1. worker_queues'[w].request_overdue = worker_queues[w].request_overdue
        BY <2>1, <2>11, <3>1 DEF VisitHeartbeatReply, TypeOK, ServerTypeOK, WorkerData, Registered
      <4> QED
        BY <2>1, <2>2, <2>3, <2>6, <2>11, <3>1, <4>1, FewerDelays
    <3>2. CASE v # w
      <4>1. comm_to_server'[w] = comm_to_server[w] /\ worker_queues'[w] = worker_queues[w]
        BY <2>1, <2>11, <3>2, VisitReplyEffect
      <4> QED
        BY <2>2, <2>7, <4>1 DEF Replies
    <3> QED
      BY <3>1, <3>2
  <2>12. ASSUME NEW v \in Workers, IntervalPasses(v)
         PROVE  /\ DelaysLeft(w)' <= DelaysLeft(w)
                /\ Awaited(w) => DelaysLeft(w)' < DelaysLeft(w)
    <3>1. Replies(w)' = Replies(w)
      BY <2>1, <2>12, IntervalPassesEffect DEF Replies, networkVars
    <3>2. worker_queues'[w].heartbeat_reply_received = worker_queues[w].heartbeat_reply_received
      BY <2>1, <2>12, IntervalPassesEffect
    <3>3. v # w => worker_queues'[w] = worker_queues[w]
      BY <2>1, <2>12, IntervalPassesEffect
    <3> QED
      BY <2>1, <2>2, <2>4, <2>6, <2>7, <2>12, <3>1, <3>2, <3>3, FewerDelays
  <2>13. ASSUME NEW v \in Workers,
                StartWorker(v) \/ WorkerStep(v) \/ WorkerFault(v) \/ RouteFound(v)
         PROVE  /\ DelaysLeft(w)' <= DelaysLeft(w)
                /\ Awaited(w) => DelaysLeft(w)' < DelaysLeft(w)
    <3>1. worker_queues' = worker_queues
      BY <2>1, <2>13, WorkerStepEffect
    <3>2. comm_to_server'[w] \in {<<>>, comm_to_server[w]}
      BY <2>1, <2>13, WorkerStepEffect
    <3>3. Replies(w)' \in {0, Replies(w)}
      BY <3>2, OccurrencesEmpty DEF Replies
    <3> QED
      BY <2>2, <2>7, <3>1, <3>3
  <2> QED
    BY <2>1, <2>8, <2>9, <2>10, <2>11, <2>12, <2>13 DEF StepKind
<1> QED
  BY InvariantHolds, <1>1, PTL DEF Spec, DismissalComesNearer
=============================================================================
