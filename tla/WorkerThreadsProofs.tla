-------------------------- MODULE WorkerThreadsProofs --------------------------
(***************************************************************************)
(* Proofs about WorkerThreads, for any number of background threads and    *)
(* any set of files.                                                       *)
(***************************************************************************)
EXTENDS WorkerThreads, FiniteSetTheorems, FunctionTheorems, TLAPS

-----------------------------------------------------------------------------
(* Type correctness and the places of the threads *)

\* The part of the invariant that says where the threads are.
Control == TypeOK /\ StateOfMain /\ NothingBeforeEhlo /\ ThreadsJoined

\* A result is told apart by the job it answers.
LEMMA ResultOfJob ==
  ASSUME NEW job \in Jobs
  PROVE  ResultOf(job) = job /\ ResultOf(job) \in Results
  BY DEF ResultOf, Jobs, Results

LEMMA ThreadCount == THREAD_COUNT \in Nat
  BY ThreadsAssumption, FS_CardinalityType DEF THREAD_COUNT

LEMMA ControlInit == Init => Control
<1> SUFFICES ASSUME Init PROVE Control
  OBVIOUS
<1>1. <<"EHLO", "HEARTBEAT_REQUEST">> \in Seq(ToWorkerCommand)
  BY DEF ToWorkerCommand
<1>2. TypeOK
  <2>1. NetworkTypeOK
    BY <1>1 DEF Init, NetworkTypeOK
  <2> QED
    BY <2>1 DEF Init, TypeOK, BackgroundStep, MainStep, CommunicationStep
<1>3. StateOfMain /\ NothingBeforeEhlo
  BY SelfAssumption DEF Init, StateOfMain, NothingBeforeEhlo
<1>4. ThreadsJoined
  BY DEF Init, ThreadsJoined, At
<1> QED
  BY <1>2, <1>3, <1>4 DEF Control

\* Each step of the server keeps it.
LEMMA ServerControl ==
  ASSUME Control, (\E job \in Jobs : ServerSendsJob(job)) \/ ServerSendsBye
  PROVE  Control'
<1> USE DEF Control, TypeOK, NetworkTypeOK
<1>1. TypeOK'
  <2>1. CASE \E job \in Jobs : ServerSendsJob(job)
    <3>1. PICK job \in Jobs : ServerSendsJob(job)
      BY <2>1
    <3>2. work_to_worker' \in [Workers -> SUBSET Jobs]
      BY <3>1 DEF ServerSendsJob, SendJobs
    <3> QED
      BY <3>1, <3>2 DEF ServerSendsJob, threadVars
  <2>2. CASE ServerSendsBye
    BY <2>2, SelfAssumption DEF ServerSendsBye, SendByes, threadVars
  <2> QED
    BY <2>1, <2>2
<1>2. StateOfMain' /\ NothingBeforeEhlo' /\ ThreadsJoined'
  BY DEF ServerSendsJob, ServerSendsBye, threadVars, StateOfMain, NothingBeforeEhlo,
         ThreadsJoined, At
<1> QED
  BY <1>1, <1>2

\* Each step of the thread that calls connect() and run() keeps it.
LEMMA MainControl ==
  ASSUME Control, MainThread
  PROVE  Control'
<1> USE SelfAssumption, ThreadCount
    DEF Control, TypeOK, NetworkTypeOK, MainStep, BackgroundStep, CommunicationStep,
        serverVars, networkVars, StateOfMain, NothingBeforeEhlo, ThreadsJoined, At
<1>1. CASE Connect
  <2>1. Tail(comm_to_worker[self]) \in Seq(ToWorkerCommand)
    BY <1>1 DEF Connect
  <2> QED
    BY <1>1, <2>1 DEF Connect
<1>2. CASE RunWork
  BY <1>2 DEF RunWork
<1>3. CASE \E job \in Jobs : ReceiveJob(job)
  BY <1>3 DEF ReceiveJob, ScheduleJob
<1>4. CASE ReceiveBye
  BY <1>4 DEF ReceiveBye
<1>5. CASE NotifyDying
  BY <1>5 DEF NotifyDying
<1>6. CASE JoinBackground
  BY <1>6 DEF JoinBackground, Finish
<1>7. CASE JoinCommunication
  BY <1>7 DEF JoinCommunication
<1>8. CASE Disconnect
  BY <1>8 DEF Disconnect, CloseSockets
<1> QED
  BY <1>1, <1>2, <1>3, <1>4, <1>5, <1>6, <1>7, <1>8 DEF MainThread

\* Each step of a background thread keeps it.
LEMMA BackgroundControl ==
  ASSUME Control, NEW t \in Threads, Background(t)
  PROVE  Control'
<1> USE SelfAssumption
    DEF Control, TypeOK, NetworkTypeOK, BackgroundStep, serverVars, networkVars,
        StateOfMain, NothingBeforeEhlo, ThreadsJoined, At, GoTo
<1>1. CASE Start(t)
  BY <1>1 DEF Start
<1>2. CASE CheckState(t)
  BY <1>2 DEF CheckState
<1>3. CASE PopJob(t)
  <2>1. CASE scheduled = {}
    BY <1>3, <2>1 DEF PopJob
  <2>2. CASE scheduled # {}
    <3>1. PICK job \in scheduled : Take(t, job)
      BY <1>3, <2>2 DEF PopJob
    <3>2. TypeOK'
      BY <1>3, <2>2, <3>1 DEF PopJob, Take
    <3> QED
      BY <1>3, <2>2, <3>1, <3>2 DEF PopJob, Take
  <2> QED
    BY <2>1, <2>2
<1>4. CASE RunJob(t)
  BY <1>4, ResultOfJob DEF RunJob
<1>5. CASE Acquire(t)
  BY <1>5 DEF Acquire
<1> QED
  BY <1>1, <1>2, <1>3, <1>4, <1>5 DEF Background

\* Each step of the communication thread keeps it.
LEMMA CommunicationControl ==
  ASSUME Control, CommunicationThread
  PROVE  Control'
<1> USE SelfAssumption
    DEF Control, TypeOK, NetworkTypeOK, CommunicationStep, serverVars, networkVars,
        StateOfMain, NothingBeforeEhlo, ThreadsJoined, At
<1>1. CASE RunCommunication
  BY <1>1 DEF RunCommunication
<1>2. CASE ReceiveHeartbeat
  <2>1. comm_to_worker[self] # <<>> => Tail(comm_to_worker[self]) \in Seq(ToWorkerCommand)
    OBVIOUS
  <2>2. Append(comm_to_server[self], "HEARTBEAT_REPLY") \in Seq(ToServerCommand)
    BY DEF ToServerCommand
  <2>3. /\ comm_to_worker' \in [Workers -> Seq(ToWorkerCommand)]
        /\ comm_to_server' \in [Workers -> Seq(ToServerCommand)]
    <3>1. CASE UNCHANGED <<comm_to_worker, comm_to_server>>
      BY <3>1
    <3>2. CASE ~ UNCHANGED <<comm_to_worker, comm_to_server>>
      <4>1. /\ comm_to_worker' = [comm_to_worker EXCEPT ![self] = Tail(@)]
            /\ comm_to_server' = [comm_to_server EXCEPT ![self] = Append(@, "HEARTBEAT_REPLY")]
            /\ comm_to_worker[self] # <<>>
        BY <1>2, <3>2 DEF ReceiveHeartbeat
      <4> QED
        BY <2>1, <2>2, <4>1
    <3> QED
      BY <3>1, <3>2
  <2> QED
    BY <1>2, <2>3 DEF ReceiveHeartbeat
<1> QED
  BY <1>1, <1>2 DEF CommunicationThread

LEMMA ControlStep == Control /\ [Next]_vars => Control'
<1> SUFFICES ASSUME Control, [Next]_vars PROVE Control'
  OBVIOUS
<1>1. CASE UNCHANGED vars
  BY <1>1 DEF vars, networkVars, threadVars, serverVars, Control, TypeOK, NetworkTypeOK,
              StateOfMain, NothingBeforeEhlo, ThreadsJoined, At
<1> QED
  BY <1>1, ServerControl, MainControl, BackgroundControl, CommunicationControl DEF Next

\* Every variable of a connection always has the type its declaration gives it.
THEOREM TypeCorrect == Spec => []TypeOK
<1>1. Control => TypeOK
  BY DEF Control
<1> QED
  BY ControlInit, ControlStep, <1>1, PTL DEF Spec

-----------------------------------------------------------------------------
(* No job is in two places *)

\* A job goes from one place to the next, in one step each time.
LEMMA JobsApartStep ==
  ASSUME Control, JobsApart, [Next]_vars
  PROVE  JobsApart'
<1> USE DEF Control, TypeOK, NetworkTypeOK, JobsApart, networkVars, threadVars,
            serverVars, GoTo
<1>0. self \in Workers
  BY SelfAssumption
<1>1. CASE \E job \in Jobs : ServerSendsJob(job)
  BY <1>0, <1>1 DEF ServerSendsJob, SendJobs
<1>2. CASE ServerSendsBye
  BY <1>2 DEF ServerSendsBye
<1>3. CASE Connect \/ RunWork \/ ReceiveBye \/ NotifyDying \/ JoinBackground \/ JoinCommunication
  BY <1>3 DEF Connect, RunWork, ReceiveBye, NotifyDying, JoinBackground, JoinCommunication
<1>4. CASE \E job \in Jobs : ReceiveJob(job)
  BY <1>0, <1>4 DEF ReceiveJob, ScheduleJob
<1>5. CASE Disconnect
  BY <1>0, <1>5 DEF Disconnect, CloseSockets
<1>6. CASE \E t \in Threads : Start(t) \/ CheckState(t) \/ Acquire(t)
  BY <1>6 DEF Start, CheckState, Acquire
<1>7. ASSUME NEW t \in Threads, PopJob(t)
      PROVE  JobsApart'
  <2>1. CASE scheduled = {}
    BY <1>7, <2>1 DEF PopJob
  <2>2. CASE scheduled # {}
    <3>1. PICK job \in scheduled : Take(t, job)
      BY <1>7, <2>2 DEF PopJob
    <3>2. /\ running' = [running EXCEPT ![t] = {job}]
          /\ scheduled' = scheduled \ {job}
          /\ UNCHANGED <<unsent, work_to_worker, work_to_server>>
      BY <1>7, <3>1 DEF PopJob, Take
    <3> QED
      BY <3>2
  <2> QED
    BY <2>1, <2>2
<1>8. ASSUME NEW t \in Threads, RunJob(t)
      PROVE  JobsApart'
  <2>1. {ResultOf(job) : job \in running[t]} = running[t]
    BY ResultOfJob
  <2>2. /\ running' = [running EXCEPT ![t] = {}]
        /\ work_to_server'[self] = work_to_server[self] \cup running[t]
        /\ UNCHANGED <<unsent, work_to_worker, scheduled>>
    BY <1>0, <1>8, <2>1 DEF RunJob
  <2> QED
    BY <2>2
<1>9. CASE CommunicationThread
  BY <1>9 DEF CommunicationThread, RunCommunication, ReceiveHeartbeat
<1>10. CASE UNCHANGED vars
  BY <1>10 DEF vars
<1> QED
  BY <1>1, <1>2, <1>3, <1>4, <1>5, <1>6, <1>7, <1>8, <1>9, <1>10
     DEF Next, MainThread, Background

-----------------------------------------------------------------------------
(* Tokens for sleeping threads *)

\* The number of threads at some steps is a natural number, THREAD_COUNT at most.
LEMMA AtCount ==
  ASSUME NEW steps
  PROVE  /\ IsFiniteSet(At(steps))
         /\ Cardinality(At(steps)) \in Nat
         /\ Cardinality(At(steps)) <= THREAD_COUNT
<1>1. At(steps) \in SUBSET Threads
  BY DEF At
<1> QED
  BY <1>1, ThreadsAssumption, FS_Subset, FS_CardinalityType DEF THREAD_COUNT

\* A thread that moves changes the number of threads at some steps by one when
\* it leaves or enters them, and not else.
LEMMA AtMoves ==
  ASSUME background \in [Threads -> BackgroundStep], NEW t \in Threads,
         NEW step, GoTo(t, step), NEW steps
  PROVE  Cardinality(At(steps)') =
           IF background[t] \in steps
           THEN IF step \in steps THEN Cardinality(At(steps)) ELSE Cardinality(At(steps)) - 1
           ELSE IF step \in steps THEN Cardinality(At(steps)) + 1 ELSE Cardinality(At(steps))
<1>1. CASE step \in steps
  <2>1. At(steps)' = At(steps) \cup {t}
    BY <1>1 DEF At, GoTo
  <2> QED
    BY <1>1, <2>1, AtCount, FS_AddElement DEF At
<1>2. CASE step \notin steps
  <2>1. At(steps)' = At(steps) \ {t}
    BY <1>2 DEF At, GoTo
  <2> QED
    BY <1>2, <2>1, AtCount, FS_RemoveElement DEF At
<1> QED
  BY <1>1, <1>2

\* The set of jobs there may be is finite.
LEMMA JobsFinite == IsFiniteSet(Jobs)
<1> DEFINE JobAt == [p \in JobType \X Files |-> [type |-> p[1], filename |-> p[2]]]
<1>1. IsFiniteSet(JobType)
  <2>1. IsFiniteSet({"HISTOGRAM"}) /\ IsFiniteSet({"EQUALISATION"})
    BY FS_Singleton
  <2>2. JobType = {"HISTOGRAM"} \cup {"EQUALISATION"}
    BY DEF JobType
  <2> QED
    BY <2>1, <2>2, FS_Union
<1>2. IsFiniteSet(JobType \X Files)
  BY <1>1, FilesAssumption, FS_Product
<1>3. JobAt \in Surjection(JobType \X Files, Jobs)
  <2>1. JobAt \in [JobType \X Files -> Jobs]
    BY DEF Jobs
  <2>2. ASSUME NEW job \in Jobs
        PROVE  \E p \in JobType \X Files : JobAt[p] = job
    <3>1. /\ <<job.type, job.filename>> \in JobType \X Files
          /\ JobAt[<<job.type, job.filename>>] = job
      BY DEF Jobs
    <3> QED
      BY <3>1
  <2> QED
    BY <2>1, <2>2 DEF Surjection
<1> QED
  BY <1>2, <1>3, FS_Surjection

\* So each set of scheduled jobs is finite, and changes its size by one.
LEMMA ScheduledCount ==
  ASSUME TypeOK
  PROVE  /\ Cardinality(scheduled) \in Nat
         /\ \A job : Cardinality(scheduled \cup {job}) <= Cardinality(scheduled) + 1
         /\ \A job \in scheduled :
              Cardinality(scheduled \ {job}) = Cardinality(scheduled) - 1
<1>1. IsFiniteSet(scheduled)
  BY JobsFinite, FS_Subset DEF TypeOK
<1>2. Cardinality(scheduled) \in Nat
  BY <1>1, FS_CardinalityType
<1>3. ASSUME NEW job
      PROVE  Cardinality(scheduled \cup {job}) <= Cardinality(scheduled) + 1
  <2>1. Cardinality(scheduled \cup {job}) =
          IF job \in scheduled THEN Cardinality(scheduled) ELSE Cardinality(scheduled) + 1
    BY <1>1, FS_AddElement
  <2> QED
    BY <1>2, <2>1
<1>4. ASSUME NEW job \in scheduled
      PROVE  Cardinality(scheduled \ {job}) = Cardinality(scheduled) - 1
  BY <1>1, FS_RemoveElement
<1> QED
  BY <1>2, <1>3, <1>4

Tokens == WakeupsCoverJobs /\ DyingWakesAll

\* A step that moves no background thread keeps the tokens sufficient.
LEMMA TokensOthers ==
  ASSUME Control, Tokens, UNCHANGED background,
         \/ (\E job \in Jobs : ServerSendsJob(job)) \/ ServerSendsBye
         \/ MainThread \/ CommunicationThread \/ UNCHANGED vars
  PROVE  Tokens'
<1> USE DEF Tokens, WakeupsCoverJobs, DyingWakesAll
<1>1. \A steps : At(steps)' = At(steps)
  BY DEF At
<1>2. /\ jobsSemaphore \in Nat
      /\ \A steps : Cardinality(At(steps)) \in Nat
      /\ \A steps : Cardinality(At(steps)) <= THREAD_COUNT
  BY AtCount DEF Control, TypeOK
<1>3. Cardinality(scheduled) \in Nat
  BY ScheduledCount DEF Control
<1>4. CASE Connect
  <2>1. scheduled = {} /\ UNCHANGED scheduled
    BY <1>4 DEF Connect, Control, NothingBeforeEhlo
  <2>2. jobsSemaphore' = jobsSemaphore + 1 /\ currentState' = "Connected"
    BY <1>4 DEF Connect
  <2> QED
    BY <1>1, <1>2, <2>1, <2>2, FS_EmptySet
<1>5. CASE RunWork
  BY <1>1, <1>5 DEF RunWork, Control, StateOfMain
<1>6. CASE \E job \in Jobs : ReceiveJob(job)
  <2>1. PICK job \in Jobs : ReceiveJob(job)
    BY <1>6
  <2>2. /\ scheduled' = scheduled \cup {job}
        /\ jobsSemaphore' = jobsSemaphore + 1
        /\ currentState' = "Connected" /\ currentState = "Connected"
    BY <2>1 DEF ReceiveJob, ScheduleJob, Control, StateOfMain
  <2>3. Cardinality(scheduled') <= Cardinality(scheduled) + 1
    BY <2>2, ScheduledCount DEF Control
  <2>4. Cardinality(scheduled') \in Nat
    BY <2>2, <1>3, JobsFinite, FS_Subset, FS_CardinalityType DEF Control, TypeOK
  <2> QED
    BY <1>1, <1>2, <1>3, <2>2, <2>3, <2>4
<1>7. CASE ReceiveBye
  BY <1>7 DEF ReceiveBye
<1>8. CASE NotifyDying
  <2>1. /\ jobsSemaphore' = jobsSemaphore + THREAD_COUNT
        /\ currentState' = "Dying"
    BY <1>8 DEF NotifyDying, Control, StateOfMain
  <2> QED
    BY <1>1, <1>2, <2>1, ThreadCount
<1>9. CASE JoinBackground \/ JoinCommunication
  BY <1>1, <1>9 DEF JoinBackground, JoinCommunication
<1>10. CASE Disconnect
  BY <1>10 DEF Disconnect
<1>11. CASE \/ (\E job \in Jobs : ServerSendsJob(job)) \/ ServerSendsBye
            \/ CommunicationThread \/ UNCHANGED vars
  BY <1>1, <1>11 DEF ServerSendsJob, ServerSendsBye, CommunicationThread,
                     RunCommunication, ReceiveHeartbeat, vars, threadVars
<1> QED
  BY <1>4, <1>5, <1>6, <1>7, <1>8, <1>9, <1>10, <1>11 DEF MainThread

\* A thread that stops looking for jobs has found none, or taken one; one that is
\* woken uses up a token, and looks.
LEMMA TokensBackground ==
  ASSUME Control, Tokens, NEW t \in Threads, Background(t)
  PROVE  Tokens'
<1> USE DEF Tokens, WakeupsCoverJobs, DyingWakesAll
<1>1. /\ jobsSemaphore \in Nat
      /\ \A steps : Cardinality(At(steps)) \in Nat
      /\ Cardinality(scheduled) \in Nat
      /\ background \in [Threads -> BackgroundStep]
      /\ background[t] \in BackgroundStep
  BY AtCount, ScheduledCount DEF Control, TypeOK
<1>2. CASE Start(t)
  <2>1. GoTo(t, "check") /\ background[t] = "unstarted"
        /\ UNCHANGED <<currentState, scheduled, jobsSemaphore, main>>
    BY <1>2 DEF Start
  <2>2. /\ Cardinality(At(AboutToLook)') = Cardinality(At(AboutToLook))
        /\ Cardinality(At(MayWait)') = Cardinality(At(MayWait))
    BY <1>1, <2>1, AtMoves DEF AboutToLook, MayWait
  <2> QED
    BY <2>1, <2>2
<1>3. CASE CheckState(t)
  <2>1. /\ background[t] = "check"
        /\ UNCHANGED <<currentState, scheduled, jobsSemaphore, main>>
    BY <1>3 DEF CheckState
  <2>2. CASE currentState = "Dying"
    <3>1. GoTo(t, "done")
      BY <1>3, <2>2 DEF CheckState
    <3>2. Cardinality(At(MayWait)') = Cardinality(At(MayWait))
      BY <1>1, <2>1, <3>1, AtMoves DEF MayWait
    <3> QED
      BY <2>1, <2>2, <3>2
  <2>3. CASE currentState # "Dying"
    <3>1. GoTo(t, "pop")
      BY <1>3, <2>3 DEF CheckState
    <3>2. Cardinality(At(AboutToLook)') = Cardinality(At(AboutToLook))
      BY <1>1, <2>1, <3>1, AtMoves DEF AboutToLook
    <3> QED
      BY <2>1, <2>3, <3>2
  <2> QED
    BY <2>2, <2>3
<1>4. CASE PopJob(t)
  <2>1. /\ background[t] = "pop"
        /\ UNCHANGED <<currentState, jobsSemaphore, main>>
    BY <1>4 DEF PopJob
  <2>2. CASE scheduled = {}
    <3>1. GoTo(t, "acquire") /\ scheduled' = {}
      BY <1>4, <2>2 DEF PopJob
    <3>2. Cardinality(At(MayWait)') = Cardinality(At(MayWait))
      BY <1>1, <2>1, <3>1, AtMoves DEF MayWait
    <3>3. Cardinality(At(AboutToLook)') = Cardinality(At(AboutToLook)) - 1
      BY <1>1, <2>1, <3>1, AtMoves DEF AboutToLook
    <3>4. Cardinality(scheduled') = 0
      BY <3>1, FS_EmptySet
    <3>5. Cardinality(At(AboutToLook)) > 0
      <4>1. At(AboutToLook) # {}
        BY <2>1 DEF At, AboutToLook
      <4> QED
        BY <1>1, <4>1, AtCount, FS_EmptySet
    <3> QED
      BY <1>1, <2>1, <3>1, <3>2, <3>3, <3>4, <3>5
  <2>3. CASE scheduled # {}
    <3>1. PICK job \in scheduled : Take(t, job)
      BY <1>4, <2>3 DEF PopJob
    <3>2. GoTo(t, "run") /\ scheduled' = scheduled \ {job}
      BY <1>4, <2>3, <3>1 DEF PopJob, Take
    <3>3. /\ Cardinality(At(MayWait)') = Cardinality(At(MayWait))
          /\ Cardinality(At(AboutToLook)') = Cardinality(At(AboutToLook)) - 1
      BY <1>1, <2>1, <3>2, AtMoves DEF MayWait, AboutToLook
    <3>4. Cardinality(scheduled') = Cardinality(scheduled) - 1
      BY <3>2, ScheduledCount DEF Control
    <3> QED
      BY <1>1, <2>1, <3>3, <3>4
  <2> QED
    BY <2>2, <2>3
<1>5. CASE RunJob(t)
  <2>1. GoTo(t, "pop") /\ background[t] = "run"
        /\ UNCHANGED <<currentState, scheduled, jobsSemaphore, main>>
    BY <1>5 DEF RunJob
  <2>2. /\ Cardinality(At(AboutToLook)') = Cardinality(At(AboutToLook)) + 1
        /\ Cardinality(At(MayWait)') = Cardinality(At(MayWait))
    BY <1>1, <2>1, AtMoves DEF AboutToLook, MayWait
  <2> QED
    BY <1>1, <2>1, <2>2
<1>6. CASE Acquire(t)
  <2>1. /\ GoTo(t, "check") /\ background[t] = "acquire"
        /\ jobsSemaphore' = jobsSemaphore - 1
        /\ UNCHANGED <<currentState, scheduled, main>>
    BY <1>6 DEF Acquire
  <2>2. /\ Cardinality(At(AboutToLook)') = Cardinality(At(AboutToLook)) + 1
        /\ Cardinality(At(MayWait)') = Cardinality(At(MayWait)) - 1
    BY <1>1, <2>1, AtMoves DEF AboutToLook, MayWait
  <2> QED
    BY <1>1, <2>1, <2>2
<1> QED
  BY <1>2, <1>3, <1>4, <1>5, <1>6 DEF Background

-----------------------------------------------------------------------------
(* The invariant, and what follows from it *)

LEMMA IInvParts == IInv <=> Control /\ JobsApart /\ Tokens
  BY DEF IInv, Control, Tokens

LEMMA IInvInit == Init => IInv
<1> SUFFICES ASSUME Init PROVE IInv
  OBVIOUS
<1>1. JobsApart
  BY SelfAssumption DEF Init, JobsApart
<1>2. Tokens
  BY DEF Init, Tokens, WakeupsCoverJobs, DyingWakesAll
<1> QED
  BY <1>1, <1>2, ControlInit, IInvParts

LEMMA IInvStep == IInv /\ [Next]_vars => IInv'
<1> SUFFICES ASSUME Control, JobsApart, Tokens, [Next]_vars
             PROVE  Control' /\ JobsApart' /\ Tokens'
  BY IInvParts DEF IInv, Control, Tokens
<1>1. Tokens'
  <2>1. CASE \E t \in Threads : Background(t)
    BY <2>1, TokensBackground
  <2>2. CASE \/ (\E job \in Jobs : ServerSendsJob(job)) \/ ServerSendsBye
             \/ MainThread \/ CommunicationThread \/ UNCHANGED vars
    <3>1. UNCHANGED background
      BY <2>2 DEF ServerSendsJob, ServerSendsBye, MainThread, Connect, RunWork, ReceiveJob,
                  ReceiveBye, NotifyDying, JoinBackground, JoinCommunication, Disconnect,
                  CommunicationThread, RunCommunication, ReceiveHeartbeat, vars, threadVars
    <3> QED
      BY <2>2, <3>1, TokensOthers
  <2> QED
    BY <2>1, <2>2 DEF Next
<1> QED
  BY <1>1, ControlStep, JobsApartStep

\* The conjunction is an invariant of the threads.
THEOREM InvariantHolds == Spec => []IInv
  BY IInvInit, IInvStep, PTL DEF Spec

\* pop_job, notify_job and notify_dying never leave a job scheduled while every
\* thread that could do it sleeps without a token (schedule_job, worker.cpp:274).
THEOREM NoJobIsSleptOn == Spec => []WakeupsCoverJobs
<1>1. IInv => WakeupsCoverJobs
  BY DEF IInv
<1> QED
  BY InvariantHolds, <1>1, PTL

\* After BYE there is a token for every thread that may still wait for one.
THEOREM ByeWakesEveryThread == Spec => []DyingWakesAll
<1>1. IInv => DyingWakesAll
  BY DEF IInv
<1> QED
  BY InvariantHolds, <1>1, PTL

\* disconnect() closes the sockets only after the last thread that uses them ended.
THEOREM SocketsCloseLast == Spec => []SocketsOutliveThreads
<1>1. IInv => SocketsOutliveThreads
  BY DEF IInv, StateOfMain, ThreadsJoined, At, SocketsOutliveThreads
<1> QED
  BY InvariantHolds, <1>1, PTL

\* No job is scheduled, done or answered twice, however the threads interleave.
THEOREM NoJobIsDoneTwice == Spec => []JobsInOnePlace
<1>1. IInv => JobsInOnePlace
  BY DEF IInv, JobsApart, JobsInOnePlace
<1> QED
  BY InvariantHolds, <1>1, PTL
-----------------------------------------------------------------------------
(* The threads together are the connection of WorkerPeer *)

\* The jobs of the connection: scheduled, or in the hands of a thread.
HeldJobs == scheduled \cup UNION {running[t] : t \in Threads}

\* What WorkerPeer's variables are here.
LEMMA PeerVariables ==
  /\ Peer!workerVars = <<[w \in Workers |-> currentState], [w \in Workers |-> HeldJobs]>>
  /\ (Peer!workerVars)' = <<[w \in Workers |-> currentState'], [w \in Workers |-> HeldJobs']>>
  BY DEF Peer!workerVars, HeldJobs

\* A step of the first thread is a step of the connection, or none.
LEMMA MainIsPeer ==
  ASSUME IInv, MainThread
  PROVE  PeerStep \/ UNCHANGED <<networkVars, Peer!workerVars>>
<1> USE SelfAssumption
<1>1. CASE Connect
  <2>1. Peer!VisitEhlo(self)
    BY <1>1 DEF Connect, Peer!VisitEhlo, IInv, StateOfMain, NothingBeforeEhlo
  <2> QED
    BY <2>1 DEF PeerStep
<1>2. CASE RunWork \/ NotifyDying \/ JoinBackground \/ JoinCommunication
  BY <1>2, PeerVariables
     DEF RunWork, NotifyDying, JoinBackground, JoinCommunication, HeldJobs, serverVars
<1>3. CASE \E job \in Jobs : ReceiveJob(job)
  <2>1. PICK job \in Jobs : ReceiveJob(job)
    BY <1>3
  <2>2. HeldJobs' = HeldJobs \cup {job}
    BY <2>1 DEF ReceiveJob, ScheduleJob, HeldJobs
  <2>3. Peer!VisitJob(self, job)
    BY <2>1, <2>2 DEF ReceiveJob, Peer!VisitJob, HeldJobs, IInv, StateOfMain
  <2> QED
    BY <2>3 DEF PeerStep
<1>4. CASE ReceiveBye
  <2>1. Peer!VisitBye(self)
    BY <1>4 DEF ReceiveBye, Peer!VisitBye, IInv, StateOfMain
  <2> QED
    BY <2>1 DEF PeerStep
<1>5. CASE Disconnect
  <2>1. HeldJobs' = {}
    <3>1. \A t \in Threads : running'[t] = {}
      BY <1>5 DEF Disconnect, IInv, ThreadsJoined, At, TypeOK
    <3> QED
      BY <1>5, <3>1 DEF Disconnect, HeldJobs
  <2>2. Peer!Disconnect(self)
    BY <1>5, <2>1 DEF Disconnect, CloseSockets, Peer!Disconnect, Peer!CloseSockets, HeldJobs,
                      IInv, StateOfMain
  <2> QED
    BY <2>2 DEF PeerStep
<1> QED
  BY <1>1, <1>2, <1>3, <1>4, <1>5 DEF MainThread

\* So is a step of a background thread: only the end of a job shows.
LEMMA BackgroundIsPeer ==
  ASSUME IInv, NEW t \in Threads, Background(t)
  PROVE  PeerStep \/ UNCHANGED <<networkVars, Peer!workerVars>>
<1> USE SelfAssumption
<1>1. CASE Start(t) \/ CheckState(t) \/ Acquire(t)
  BY <1>1, PeerVariables DEF Start, CheckState, Acquire, HeldJobs
<1>2. CASE PopJob(t)
  <2>1. CASE scheduled = {}
    BY <1>2, <2>1, PeerVariables DEF PopJob, HeldJobs
  <2>2. CASE scheduled # {}
    <3>1. PICK job \in scheduled : Take(t, job)
      BY <1>2, <2>2 DEF PopJob
    <3>2. running[t] = {}
      BY <1>2 DEF PopJob, IInv, TypeOK
    <3>3. HeldJobs' = HeldJobs
      BY <3>1, <3>2 DEF Take, HeldJobs, IInv, TypeOK
    <3> QED
      BY <1>2, <3>3, PeerVariables DEF PopJob
  <2> QED
    BY <2>1, <2>2
<1>3. CASE RunJob(t)
  <2>1. PICK job \in Jobs : running[t] = {job}
    BY <1>3 DEF RunJob, IInv, TypeOK, JobsApart
  <2>2. currentState \in {"Connected", "Dying"}
    BY <1>3 DEF RunJob, IInv, TypeOK, StateOfMain, NothingBeforeEhlo, ThreadsJoined, At
  <2>3. HeldJobs' = HeldJobs \ {job}
    BY <1>3, <2>1 DEF RunJob, HeldJobs, IInv, TypeOK, JobsApart
  <2>4. work_to_server' = [work_to_server EXCEPT ![self] = @ \cup {ResultOf(job)}]
    BY <1>3, <2>1 DEF RunJob
  <2>5. Peer!RunJob(self, job)
    BY <1>3, <2>1, <2>2, <2>3, <2>4
       DEF RunJob, Peer!RunJob, Peer!ResultOf, ResultOf, HeldJobs
  <2> QED
    BY <2>1, <2>5 DEF PeerStep
<1> QED
  BY <1>1, <1>2, <1>3 DEF Background

\* So is a step of the communication thread.
LEMMA CommunicationIsPeer ==
  ASSUME IInv, CommunicationThread
  PROVE  PeerStep \/ UNCHANGED <<networkVars, Peer!workerVars>>
<1> USE SelfAssumption
<1>1. CASE RunCommunication
  BY <1>1, PeerVariables DEF RunCommunication, HeldJobs
<1>2. CASE ReceiveHeartbeat
  <2>1. CASE UNCHANGED <<comm_to_worker, comm_to_server>>
    BY <1>2, <2>1, PeerVariables DEF ReceiveHeartbeat, HeldJobs, networkVars
  <2>2. CASE ~ UNCHANGED <<comm_to_worker, comm_to_server>>
    <3>1. currentState \in {"Connected", "Dying"}
      BY <1>2 DEF ReceiveHeartbeat, IInv, TypeOK, StateOfMain, NothingBeforeEhlo,
                  ThreadsJoined
    <3>2. Peer!AnswerHeartbeat(self)
      BY <1>2, <2>2, <3>1 DEF ReceiveHeartbeat, Peer!AnswerHeartbeat
    <3> QED
      BY <3>2 DEF PeerStep
  <2> QED
    BY <2>1, <2>2
<1> QED
  BY <1>1, <1>2 DEF CommunicationThread

\* The threads of a connection do together what WorkerPeer, and so Cluster, says a
\* connection does: every step of a thread is a step of WorkerPeer or does not show.
THEOREM ThreadsImplementPeer == Spec => PeerKept
<1>1. IInv /\ [Next]_vars => [PeerStep]_<<networkVars, Peer!workerVars>>
  <2> SUFFICES ASSUME IInv, [Next]_vars
               PROVE  PeerStep \/ UNCHANGED <<networkVars, Peer!workerVars>>
    OBVIOUS
  <2>1. CASE (\E job \in Jobs : ServerSendsJob(job)) \/ ServerSendsBye
    BY <2>1 DEF PeerStep
  <2>2. CASE UNCHANGED vars
    BY <2>2, PeerVariables DEF vars, threadVars, HeldJobs
  <2> QED
    BY <2>1, <2>2, MainIsPeer, BackgroundIsPeer, CommunicationIsPeer DEF Next
<1> QED
  BY InvariantHolds, <1>1, PTL DEF Spec, PeerKept
-----------------------------------------------------------------------------
(* After BYE the threads end: none is stuck, and none goes round in a loop *)

\* communication_task is started with the loop of run(), and run_background
\* releases finishedSemaphore before run() returns.
StartedAndFinished ==
  /\ main # "connect" => communication # "unstarted"
  /\ main \in {"join_communication", "disconnect"} => finishedSemaphore > 0

\* The threads whose next step is not held up: by jobsSemaphore for a background
\* thread, by the threads it joins or finishedSemaphore for the one in run().
BackgroundCanMove(t) ==
  \/ background[t] \in {"check", "pop", "run"}
  \/ background[t] = "unstarted" /\ main # "connect"
  \/ background[t] = "acquire" /\ jobsSemaphore > 0

CommunicationCanMove == communication \in {"check", "receive"}

MainCanMove ==
  \/ main \in {"check", "notify_dying"}
  \/ main = "join_background" /\ \A t \in Threads : background[t] = "done"
  \/ main = "join_communication" /\ communication = "done"
  \/ main = "disconnect" /\ finishedSemaphore > 0

\* Once BYE is read and notify_dying has run, no thread waits but the one in run(),
\* and that one for a thread that has not ended and can move.  (Before, it is the
\* one in run() that is about to run notify_dying.)
OnlyJoinsWait ==
  currentState = "Dying" =>
    \/ main = "notify_dying"
    \/ /\ \A t \in Threads : background[t] # "done" => BackgroundCanMove(t)
       /\ communication # "done" => CommunicationCanMove
       /\ \/ MainCanMove
          \/ main = "join_background" /\ \E t \in Threads : BackgroundCanMove(t)
          \/ main = "join_communication" /\ CommunicationCanMove

\* How many steps the background threads are from their end while no job is
\* scheduled: four for one that has a job, and so on down to none.
BackgroundLeft ==
  Cardinality(At({"run", "pop", "acquire", "unstarted", "check"}))
    + Cardinality(At({"run", "pop", "acquire", "unstarted"}))
    + Cardinality(At({"run", "pop"}))
    + Cardinality(At({"run"}))

CommunicationLeft ==
  [receive |-> 2, check |-> 1, done |-> 0, unstarted |-> 0][communication]

MainLeft ==
  [notify_dying |-> 5, check |-> 4, join_background |-> 3, join_communication |-> 2,
   disconnect |-> 1, returned |-> 0, connect |-> 0, receive |-> 0][main]

\* An upper bound on the steps the threads still have, BYE read, before the
\* connection is gone; a scheduled job is two (pop_job, and the job itself).
StepsLeft ==
  2 * Cardinality(scheduled) + BackgroundLeft + (CommunicationLeft + MainLeft)

\* Each step of a thread brings the end nearer.
EachStepEnds == [][currentState = "Dying" => StepsLeft' \in Nat /\ StepsLeft' < StepsLeft]_threadVars

LEMMA ThreadCountPositive == THREAD_COUNT \in Nat /\ THREAD_COUNT > 0
  BY ThreadsAssumption, FS_CardinalityType, FS_EmptySet DEF THREAD_COUNT

LEMMA StartedAndFinishedStep ==
  ASSUME IInv, StartedAndFinished, [Next]_vars
  PROVE  StartedAndFinished'
<1> USE DEF IInv, TypeOK, StartedAndFinished, networkVars, threadVars, serverVars
<1>1. CASE (\E job \in Jobs : ServerSendsJob(job)) \/ ServerSendsBye \/ UNCHANGED vars
  BY <1>1 DEF ServerSendsJob, ServerSendsBye, vars
<1>2. CASE MainThread
  <2>1. CASE JoinBackground
    BY <2>1, ThreadCountPositive DEF JoinBackground, Finish
  <2>2. CASE ~ JoinBackground
    BY <1>2, <2>2 DEF MainThread, Connect, RunWork, ReceiveJob, ReceiveBye, NotifyDying,
                      JoinCommunication, Disconnect
  <2> QED
    BY <2>1, <2>2
<1>3. CASE \E t \in Threads : Background(t)
  BY <1>3 DEF Background, Start, CheckState, PopJob, RunJob, Acquire
<1>4. CASE CommunicationThread
  BY <1>4 DEF CommunicationThread, RunCommunication, ReceiveHeartbeat
<1> QED
  BY <1>1, <1>2, <1>3, <1>4 DEF Next

LEMMA EndingInvariant == Spec => [](IInv /\ StartedAndFinished)
<1>1. Init => StartedAndFinished
  BY DEF Init, StartedAndFinished
<1>2. IInv /\ StartedAndFinished /\ [Next]_vars => StartedAndFinished'
  BY StartedAndFinishedStep
<1> QED
  BY IInvInit, IInvStep, <1>1, <1>2, PTL DEF Spec

\* A thread at acquire is counted by DyingWakesAll.
LEMMA AcquireHasToken ==
  ASSUME IInv, currentState = "Dying", main # "notify_dying",
         NEW t \in Threads, background[t] = "acquire"
  PROVE  jobsSemaphore > 0
<1>1. At(MayWait) # {}
  BY DEF At, MayWait
<1>2. Cardinality(At(MayWait)) \in Nat /\ Cardinality(At(MayWait)) # 0
  BY <1>1, AtCount, FS_EmptySet
<1> QED
  BY <1>2 DEF IInv, TypeOK, DyingWakesAll

\* After BYE no threads wait for each other (visit_bye, run_background, run() and
\* the destructor): every thread that has not ended can move, but for the one in
\* run(), which waits for one that can.  TLC's ConnectionEnds is this with fairness.
THEOREM ThreadsNeverStuck == Spec => []OnlyJoinsWait
<1>1. IInv /\ StartedAndFinished => OnlyJoinsWait
  <2> SUFFICES ASSUME IInv, StartedAndFinished, currentState = "Dying",
                      main # "notify_dying"
               PROVE  /\ \A t \in Threads : background[t] # "done" => BackgroundCanMove(t)
                      /\ communication # "done" => CommunicationCanMove
                      /\ \/ MainCanMove
                         \/ main = "join_background" /\ \E t \in Threads : BackgroundCanMove(t)
                         \/ main = "join_communication" /\ CommunicationCanMove
    BY DEF OnlyJoinsWait
  <2>1. main \in {"check", "join_background", "join_communication", "disconnect"}
    BY DEF IInv, TypeOK, StateOfMain, MainStep
  <2>2. ASSUME NEW t \in Threads, background[t] # "done"
        PROVE  BackgroundCanMove(t)
    BY <2>1, <2>2, AcquireHasToken DEF IInv, TypeOK, BackgroundStep, BackgroundCanMove
  <2>3. communication # "done" => CommunicationCanMove
    BY <2>1 DEF IInv, TypeOK, CommunicationStep, StartedAndFinished, CommunicationCanMove
  <2>4. \/ MainCanMove
        \/ main = "join_background" /\ \E t \in Threads : BackgroundCanMove(t)
        \/ main = "join_communication" /\ CommunicationCanMove
    BY <2>1, <2>2, <2>3 DEF StartedAndFinished, MainCanMove
  <2> QED
    BY <2>2, <2>3, <2>4
<1> QED
  BY EndingInvariant, <1>1, PTL

\* The counts StepsLeft adds up are natural numbers.
LEMMA CountsAreNatural ==
  ASSUME TypeOK
  PROVE  /\ Cardinality(scheduled) \in Nat
         /\ \A steps : Cardinality(At(steps)) \in Nat
  BY ScheduledCount, AtCount

\* A background thread that moves gets nearer to its end, by one at least, or
\* takes a scheduled job.
LEMMA BackgroundGetsNearer ==
  ASSUME IInv, IInv', currentState = "Dying", main # "connect",
         NEW t \in Threads, Background(t)
  PROVE  StepsLeft' \in Nat /\ StepsLeft' < StepsLeft
<1> DEFINE Most == {"run", "pop", "acquire", "unstarted", "check"}
           More == {"run", "pop", "acquire", "unstarted"}
           Few == {"run", "pop"}
           Fewest == {"run"}
           Others == CommunicationLeft + MainLeft
<1>1. Others \in Nat
  BY DEF IInv, TypeOK, CommunicationStep, MainStep, CommunicationLeft, MainLeft
<1>2. Others' = Others
  BY DEF Background, Start, CheckState, PopJob, RunJob, Acquire, CommunicationLeft, MainLeft
<1>3. /\ Cardinality(scheduled) \in Nat /\ Cardinality(scheduled') \in Nat
      /\ \A steps : Cardinality(At(steps)) \in Nat
      /\ \A steps : Cardinality(At(steps)') \in Nat
  <2>1. TypeOK' => Cardinality(scheduled') \in Nat /\ \A steps : Cardinality(At(steps)') \in Nat
    <3>1. \A steps : Cardinality(At(steps)') \in Nat
      <4> TAKE steps
      <4>1. At(steps)' \in SUBSET Threads
        BY DEF At
      <4> QED
        BY <4>1, ThreadsAssumption, FS_Subset, FS_CardinalityType
    <3>2. TypeOK' => Cardinality(scheduled') \in Nat
      BY JobsFinite, FS_Subset, FS_CardinalityType DEF TypeOK
    <3> QED
      BY <3>1, <3>2
  <2> QED
    BY <2>1, CountsAreNatural DEF IInv
<1>4. /\ StepsLeft = 2 * Cardinality(scheduled) + BackgroundLeft + Others
      /\ StepsLeft' = 2 * Cardinality(scheduled') + BackgroundLeft' + Others'
  BY DEF StepsLeft
<1>5. BackgroundLeft \in Nat /\ BackgroundLeft' \in Nat
  BY <1>3 DEF BackgroundLeft
<1>6. background \in [Threads -> BackgroundStep]
  BY DEF IInv, TypeOK
<1>7. 2 * Cardinality(scheduled') + BackgroundLeft' < 2 * Cardinality(scheduled) + BackgroundLeft
  <2>1. CASE Start(t) \/ CheckState(t) \/ RunJob(t) \/ Acquire(t)
    <3>1. UNCHANGED scheduled
      BY <2>1 DEF Start, CheckState, RunJob, Acquire
    <3>2. \/ background[t] = "unstarted" /\ GoTo(t, "check")
          \/ background[t] = "check" /\ GoTo(t, "done")
          \/ background[t] = "run" /\ GoTo(t, "pop")
          \/ background[t] = "acquire" /\ GoTo(t, "check")
      BY <2>1 DEF Start, CheckState, RunJob, Acquire
    <3>3. BackgroundLeft' < BackgroundLeft
      <4>1. CASE background[t] = "unstarted" /\ GoTo(t, "check")
        <5>1. /\ Cardinality(At(Most)') = Cardinality(At(Most))
              /\ Cardinality(At(More)') = Cardinality(At(More)) - 1
              /\ Cardinality(At(Few)') = Cardinality(At(Few))
              /\ Cardinality(At(Fewest)') = Cardinality(At(Fewest))
          BY <1>6, <4>1, AtMoves
        <5> QED
          BY <1>3, <5>1 DEF BackgroundLeft
      <4>2. CASE background[t] = "check" /\ GoTo(t, "done")
        <5>1. /\ Cardinality(At(Most)') = Cardinality(At(Most)) - 1
              /\ Cardinality(At(More)') = Cardinality(At(More))
              /\ Cardinality(At(Few)') = Cardinality(At(Few))
              /\ Cardinality(At(Fewest)') = Cardinality(At(Fewest))
          BY <1>6, <4>2, AtMoves
        <5> QED
          BY <1>3, <5>1 DEF BackgroundLeft
      <4>3. CASE background[t] = "run" /\ GoTo(t, "pop")
        <5>1. /\ Cardinality(At(Most)') = Cardinality(At(Most))
              /\ Cardinality(At(More)') = Cardinality(At(More))
              /\ Cardinality(At(Few)') = Cardinality(At(Few))
              /\ Cardinality(At(Fewest)') = Cardinality(At(Fewest)) - 1
          BY <1>6, <4>3, AtMoves
        <5> QED
          BY <1>3, <5>1 DEF BackgroundLeft
      <4>4. CASE background[t] = "acquire" /\ GoTo(t, "check")
        <5>1. /\ Cardinality(At(Most)') = Cardinality(At(Most))
              /\ Cardinality(At(More)') = Cardinality(At(More)) - 1
              /\ Cardinality(At(Few)') = Cardinality(At(Few))
              /\ Cardinality(At(Fewest)') = Cardinality(At(Fewest))
          BY <1>6, <4>4, AtMoves
        <5> QED
          BY <1>3, <5>1 DEF BackgroundLeft
      <4> QED
        BY <3>2, <4>1, <4>2, <4>3, <4>4
    <3>4. Cardinality(scheduled') = Cardinality(scheduled)
      BY <3>1
    <3> QED
      BY <1>3, <1>5, <3>3, <3>4
  <2>2. CASE PopJob(t) /\ scheduled = {}
    <3>1. background[t] = "pop" /\ GoTo(t, "acquire") /\ UNCHANGED scheduled
      BY <2>2 DEF PopJob
    <3>2. /\ Cardinality(At(Most)') = Cardinality(At(Most))
          /\ Cardinality(At(More)') = Cardinality(At(More))
          /\ Cardinality(At(Few)') = Cardinality(At(Few)) - 1
          /\ Cardinality(At(Fewest)') = Cardinality(At(Fewest))
      BY <1>6, <3>1, AtMoves
    <3>3. Cardinality(scheduled') = Cardinality(scheduled)
      BY <3>1
    <3> QED
      BY <1>3, <3>2, <3>3 DEF BackgroundLeft
  <2>3. CASE PopJob(t) /\ scheduled # {}
    <3>1. PICK job \in scheduled : Take(t, job)
      BY <2>3 DEF PopJob
    <3>2. background[t] = "pop" /\ GoTo(t, "run") /\ scheduled' = scheduled \ {job}
      BY <2>3, <3>1 DEF PopJob, Take
    <3>3. /\ Cardinality(At(Most)') = Cardinality(At(Most))
          /\ Cardinality(At(More)') = Cardinality(At(More))
          /\ Cardinality(At(Few)') = Cardinality(At(Few))
          /\ Cardinality(At(Fewest)') = Cardinality(At(Fewest)) + 1
      BY <1>6, <3>2, AtMoves
    <3>4. Cardinality(scheduled') = Cardinality(scheduled) - 1
      BY <3>2, ScheduledCount DEF IInv
    <3> QED
      BY <1>3, <3>3, <3>4 DEF BackgroundLeft
  <2> QED
    BY <2>1, <2>2, <2>3 DEF Background
<1> HIDE DEF Others
<1> QED
  BY <1>1, <1>2, <1>3, <1>4, <1>5, <1>7

\* So do the other two: after BYE run_work and run_communication leave their loops.
LEMMA OthersGetNearer ==
  ASSUME IInv, IInv', currentState = "Dying", MainThread \/ CommunicationThread
  PROVE  StepsLeft' \in Nat /\ StepsLeft' < StepsLeft
<1> DEFINE Counts == 2 * Cardinality(scheduled) + BackgroundLeft
<1>1. CommunicationLeft \in Nat /\ MainLeft \in Nat
  BY DEF IInv, TypeOK, CommunicationStep, MainStep, CommunicationLeft, MainLeft
<1>2. CommunicationLeft' \in Nat /\ MainLeft' \in Nat
  BY DEF IInv, TypeOK, CommunicationStep, MainStep, CommunicationLeft, MainLeft
<1>3. UNCHANGED background
  BY DEF MainThread, Connect, RunWork, ReceiveJob, ReceiveBye, NotifyDying,
         JoinBackground, JoinCommunication, Disconnect,
         CommunicationThread, RunCommunication, ReceiveHeartbeat
<1>4. main \in {"notify_dying", "check", "join_background", "join_communication", "disconnect"}
  BY DEF IInv, TypeOK, StateOfMain, MainStep
<1>5. Counts \in Nat /\ Counts' \in Nat /\ Counts' <= Counts
  <2>1. \A steps : Cardinality(At(steps)') = Cardinality(At(steps))
    BY <1>3 DEF At
  <2>2. /\ Cardinality(scheduled) \in Nat
        /\ \A steps : Cardinality(At(steps)) \in Nat
    BY CountsAreNatural DEF IInv
  <2>3. \/ UNCHANGED scheduled
        \/ scheduled' = {}
    BY <1>4 DEF MainThread, Connect, RunWork, ReceiveJob, ReceiveBye, NotifyDying,
                JoinBackground, JoinCommunication, Disconnect,
                CommunicationThread, RunCommunication, ReceiveHeartbeat
  <2>4. Cardinality(scheduled') \in Nat /\ Cardinality(scheduled') <= Cardinality(scheduled)
    BY <2>2, <2>3, FS_EmptySet
  <2> QED
    BY <2>1, <2>2, <2>4 DEF BackgroundLeft
<1>6. \/ CommunicationLeft' = CommunicationLeft /\ MainLeft' < MainLeft
      \/ MainLeft' = MainLeft /\ CommunicationLeft' < CommunicationLeft
  BY <1>4 DEF MainThread, Connect, RunWork, ReceiveJob, ReceiveBye, NotifyDying,
              JoinBackground, JoinCommunication, Disconnect,
              CommunicationThread, RunCommunication, ReceiveHeartbeat,
              CommunicationLeft, MainLeft
<1>7. /\ StepsLeft = Counts + (CommunicationLeft + MainLeft)
      /\ StepsLeft' = Counts' + (CommunicationLeft' + MainLeft')
  BY DEF StepsLeft
<1>8. CASE CommunicationLeft' = CommunicationLeft /\ MainLeft' < MainLeft
  BY <1>1, <1>2, <1>5, <1>7, <1>8
<1>9. CASE MainLeft' = MainLeft /\ CommunicationLeft' < CommunicationLeft
  BY <1>1, <1>2, <1>5, <1>7, <1>9
<1> QED
  BY <1>6, <1>8, <1>9

\* After BYE every step of a thread uses up one of finitely many: no thread goes
\* round its loop for ever, in whatever order they run, however many jobs are left.
\* With ThreadsNeverStuck the connection ends as soon as the threads are scheduled.
THEOREM ByeEndsEveryLoop == Spec => EachStepEnds
<1>1. IInv /\ IInv' /\ [Next]_vars =>
        [currentState = "Dying" => StepsLeft' \in Nat /\ StepsLeft' < StepsLeft]_threadVars
  <2> SUFFICES ASSUME IInv, IInv', [Next]_vars, currentState = "Dying",
                      ~ UNCHANGED threadVars
               PROVE  StepsLeft' \in Nat /\ StepsLeft' < StepsLeft
    OBVIOUS
  <2>1. main # "connect"
    BY DEF IInv, StateOfMain
  <2>2. \/ MainThread \/ CommunicationThread
        \/ \E t \in Threads : Background(t)
    BY DEF Next, ServerSendsJob, ServerSendsBye, vars, threadVars
  <2> QED
    BY <2>1, <2>2, BackgroundGetsNearer, OthersGetNearer
<1> QED
  BY InvariantHolds, <1>1, PTL DEF Spec, EachStepEnds
=============================================================================
