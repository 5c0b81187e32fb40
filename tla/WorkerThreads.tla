---------------------------- MODULE WorkerThreads ----------------------------
(***************************************************************************)
(* The threads of one ServerConnection (worker.cpp), from the EHLO to the  *)
(* destructor: the thread that calls run() and reads the work socket, the  *)
(* communication thread, and THREAD_COUNT background threads that wait on  *)
(* jobsSemaphore.  WorkerPeer says of a connection that any job it holds   *)
(* may be done next; here it is shown that the threads keep to that, that  *)
(* none sleeps while there is work for it, and that all of them end.       *)
(*                                                                         *)
(* The vector of jobs is a set: which job pop_job takes is left open.      *)
(*                                                                         *)
(* A definition named Wrong... is what the one after it would be with a    *)
(* plausible mistake, see Server.                                          *)
(***************************************************************************)
EXTENDS Network, Naturals

CONSTANTS
  Threads,            \* the background threads, THREAD_COUNT of them
  self                \* the identity of the connection

\* std::thread::hardware_concurrency() may return 0 where it cannot tell: then no
\* thread does a job.  The model starts with at least one.
ASSUME ThreadsAssumption == IsFiniteSet(Threads) /\ Threads # {}

ASSUME SelfAssumption == Workers = {self}

VARIABLES
  currentState,       \* ServerConnection::State, and Gone once destroyed
  scheduled,          \* the vector of jobs
  jobsSemaphore,
  finishedSemaphore,
  background,         \* where each background thread is
  running,            \* the job in the hands of each background thread
  main,               \* where the thread that calls connect() and run() is
  communication,      \* where the communication thread is
  unsent,             \* jobs the server may still send
  dismissed           \* whether the server has sent BYE

threadVars == <<currentState, scheduled, jobsSemaphore, finishedSemaphore,
                background, running, main, communication>>

serverVars == <<unsent, dismissed>>

vars == <<networkVars, threadVars, serverVars>>

THREAD_COUNT == Cardinality(Threads)

BackgroundStep == {"unstarted", "check", "pop", "run", "acquire", "done"}
MainStep == {"connect", "check", "receive", "notify_dying", "join_background",
             "join_communication", "disconnect", "returned"}
CommunicationStep == {"unstarted", "check", "receive", "done"}

\* Every variable keeps the type its declaration gives it; a thread has a job
\* exactly while it runs one.
TypeOK ==
  /\ NetworkTypeOK
  /\ currentState \in {"Unconnected", "Connected", "Dying", "Gone"}
  /\ scheduled \in SUBSET Jobs
  /\ jobsSemaphore \in Nat
  /\ finishedSemaphore \in Nat
  /\ background \in [Threads -> BackgroundStep]
  /\ running \in [Threads -> SUBSET Jobs]
  /\ \A t \in Threads : background[t] = "run" <=> running[t] # {}
  /\ main \in MainStep
  /\ communication \in CommunicationStep
  /\ unsent \in SUBSET Jobs
  /\ dismissed \in BOOLEAN

\* connect() has sent its HELO, and the server has answered.
Init ==
  /\ routes = [w \in Workers |-> Sockets]
  /\ work_to_worker = [w \in Workers |-> {}]
  /\ bye_to_worker = {}
  /\ work_to_server = [w \in Workers |-> {}]
  /\ comm_to_worker = [w \in Workers |-> <<"EHLO", "HEARTBEAT_REQUEST">>]
  /\ comm_to_server = [w \in Workers |-> <<>>]
  /\ currentState = "Unconnected"
  /\ scheduled = {}
  /\ jobsSemaphore = 0
  /\ finishedSemaphore = 0
  /\ background = [t \in Threads |-> "unstarted"]
  /\ running = [t \in Threads |-> {}]
  /\ main = "connect"
  /\ communication = "unstarted"
  /\ unsent = Jobs
  /\ dismissed = FALSE

-----------------------------------------------------------------------------
(* The server *)

ServerSendsJob(job) ==
  /\ ~ dismissed
  /\ job \in unsent
  /\ unsent' = unsent \ {job}
  /\ SendJobs(self, {job})
  /\ UNCHANGED <<threadVars, dismissed, routes, bye_to_worker, work_to_server,
                 comm_to_worker, comm_to_server>>

ServerSendsBye ==
  /\ ~ dismissed
  /\ dismissed' = TRUE
  /\ SendByes({self})
  /\ UNCHANGED <<threadVars, unsent, routes, work_to_worker, work_to_server,
                 comm_to_worker, comm_to_server>>

-----------------------------------------------------------------------------
(* The thread that calls connect() and run() *)

\* connect() visits the EHLO, and run() starts the other threads.
Connect ==
  /\ main = "connect"
  /\ Head(comm_to_worker[self]) = "EHLO"
  /\ comm_to_worker' = [comm_to_worker EXCEPT ![self] = Tail(@)]
  /\ currentState' = "Connected"
  /\ jobsSemaphore' = jobsSemaphore + 1
  /\ main' = "check"
  /\ communication' = "check"
  /\ UNCHANGED <<scheduled, finishedSemaphore, background, running, serverVars,
                 routes, work_to_worker, bye_to_worker, work_to_server, comm_to_server>>

\* The condition of the loop in run_work.
RunWork ==
  /\ main = "check"
  /\ main' = IF currentState = "Dying" THEN "join_background" ELSE "receive"
  /\ UNCHANGED <<networkVars, currentState, scheduled, jobsSemaphore,
                 finishedSemaphore, background, running, communication, serverVars>>

WrongScheduleJob(job) ==    \* no notify_job
  /\ scheduled' = scheduled \cup {job}
  /\ UNCHANGED jobsSemaphore

\* schedule_job, with jobsMutex held.
ScheduleJob(job) ==
  /\ scheduled' = scheduled \cup {job}
  /\ jobsSemaphore' = jobsSemaphore + 1

ReceiveJob(job) ==
  /\ main = "receive"
  /\ job \in work_to_worker[self]
  /\ work_to_worker' = [work_to_worker EXCEPT ![self] = @ \ {job}]
  /\ ScheduleJob(job)
  /\ main' = "check"
  /\ UNCHANGED <<currentState, finishedSemaphore, background, running, communication,
                 serverVars, routes, bye_to_worker, work_to_server, comm_to_worker,
                 comm_to_server>>

\* visit_bye, up to transition_state.
ReceiveBye ==
  /\ main = "receive"
  /\ self \in bye_to_worker
  /\ work_to_worker[self] = {}
  /\ bye_to_worker' = bye_to_worker \ {self}
  /\ currentState' = "Dying"
  /\ main' = "notify_dying"
  /\ UNCHANGED <<scheduled, jobsSemaphore, finishedSemaphore, background, running,
                 communication, serverVars, routes, work_to_worker, work_to_server,
                 comm_to_worker, comm_to_server>>

WrongNotifyDying ==         \* release() in the place of release(THREAD_COUNT)
  /\ main = "notify_dying"
  /\ jobsSemaphore' = jobsSemaphore + 1
  /\ main' = "check"
  /\ UNCHANGED <<networkVars, currentState, scheduled, finishedSemaphore, background,
                 running, communication, serverVars>>

\* The rest of visit_bye.
NotifyDying ==
  /\ main = "notify_dying"
  /\ jobsSemaphore' = jobsSemaphore + THREAD_COUNT
  /\ main' = "check"
  /\ UNCHANGED <<networkVars, currentState, scheduled, finishedSemaphore, background,
                 running, communication, serverVars>>

WrongFinish == UNCHANGED finishedSemaphore

\* finishedSemaphore.release(THREAD_COUNT).  (std::binary_semaphore is a
\* POSIXSemaphore here, semaphore.hpp:23, so it counts.)
Finish == finishedSemaphore' = finishedSemaphore + THREAD_COUNT

\* run() joins the thread that has joined the background threads.
JoinBackground ==
  /\ main = "join_background"
  /\ \A t \in Threads : background[t] = "done"
  /\ Finish
  /\ main' = "join_communication"
  /\ UNCHANGED <<networkVars, currentState, scheduled, jobsSemaphore, background,
                 running, communication, serverVars>>

WrongJoinCommunication ==   \* not joined
  /\ main = "join_communication"
  /\ main' = "disconnect"
  /\ UNCHANGED <<networkVars, currentState, scheduled, jobsSemaphore,
                 finishedSemaphore, background, running, communication, serverVars>>

JoinCommunication ==
  /\ main = "join_communication"
  /\ communication = "done"
  /\ main' = "disconnect"
  /\ UNCHANGED <<networkVars, currentState, scheduled, jobsSemaphore,
                 finishedSemaphore, background, running, communication, serverVars>>

\* The destructor: disconnect(), and the end of the jobs left.
Disconnect ==
  /\ main = "disconnect"
  /\ finishedSemaphore > 0
  /\ jobsSemaphore' = jobsSemaphore + 1
  /\ finishedSemaphore' = finishedSemaphore - 1
  /\ CloseSockets(self, work_to_server[self], comm_to_server[self])
  /\ scheduled' = {}
  /\ currentState' = "Gone"
  /\ main' = "returned"
  /\ UNCHANGED <<background, running, communication, serverVars>>

-----------------------------------------------------------------------------
(* A background thread *)

GoTo(t, step) == background' = [background EXCEPT ![t] = step]

\* background_tasks starts it.
Start(t) ==
  /\ main # "connect"
  /\ background[t] = "unstarted"
  /\ GoTo(t, "check")
  /\ UNCHANGED <<networkVars, currentState, scheduled, jobsSemaphore,
                 finishedSemaphore, running, main, communication, serverVars>>

\* The condition of the loop in background_task.
CheckState(t) ==
  /\ background[t] = "check"
  /\ GoTo(t, IF currentState = "Dying" THEN "done" ELSE "pop")
  /\ UNCHANGED <<networkVars, currentState, scheduled, jobsSemaphore,
                 finishedSemaphore, running, main, communication, serverVars>>

WrongTake(t, job) ==        \* the job stays in the vector
  /\ running' = [running EXCEPT ![t] = {job}]
  /\ UNCHANGED scheduled

Take(t, job) ==
  /\ running' = [running EXCEPT ![t] = {job}]
  /\ scheduled' = scheduled \ {job}

WrongPopJob(t) ==           \* empty() is not looked at
  /\ background[t] = "pop"
  /\ GoTo(t, "run")
  /\ IF scheduled = {}
     THEN UNCHANGED <<scheduled, running>>
     ELSE \E job \in scheduled : Take(t, job)
  /\ UNCHANGED <<networkVars, currentState, jobsSemaphore, finishedSemaphore, main,
                 communication, serverVars>>

\* pop_job
PopJob(t) ==
  /\ background[t] = "pop"
  /\ IF scheduled = {}
     THEN GoTo(t, "acquire") /\ UNCHANGED <<scheduled, running>>
     ELSE GoTo(t, "run") /\ \E job \in scheduled : Take(t, job)
  /\ UNCHANGED <<networkVars, currentState, jobsSemaphore, finishedSemaphore, main,
                 communication, serverVars>>

\* RunningWorkerCommandVisitor: the job is done and its result sent.
RunJob(t) ==
  /\ background[t] = "run"
  /\ work_to_server' = [work_to_server EXCEPT
                          ![self] = @ \cup {ResultOf(job) : job \in running[t]}]
  /\ running' = [running EXCEPT ![t] = {}]
  /\ GoTo(t, "pop")
  /\ UNCHANGED <<currentState, scheduled, jobsSemaphore, finishedSemaphore, main,
                 communication, serverVars, routes, work_to_worker, bye_to_worker,
                 comm_to_worker, comm_to_server>>

\* jobsSemaphore.acquire(): sem_wait goes on only while the semaphore is not zero.
Acquire(t) ==
  /\ background[t] = "acquire"
  /\ jobsSemaphore > 0
  /\ jobsSemaphore' = jobsSemaphore - 1
  /\ GoTo(t, "check")
  /\ UNCHANGED <<networkVars, currentState, scheduled, finishedSemaphore, running,
                 main, communication, serverVars>>

Background(t) ==
  Start(t) \/ CheckState(t) \/ PopJob(t) \/ RunJob(t) \/ Acquire(t)

-----------------------------------------------------------------------------
(* The communication thread *)

RunCommunication ==
  /\ communication = "check"
  /\ communication' = IF currentState = "Dying" THEN "done" ELSE "receive"
  /\ UNCHANGED <<networkVars, currentState, scheduled, jobsSemaphore,
                 finishedSemaphore, background, running, main, serverVars>>

\* A heartbeat request is answered, or the receive times out.
ReceiveHeartbeat ==
  /\ communication = "receive"
  /\ communication' = "check"
  /\ \/ /\ comm_to_worker[self] # <<>>
        /\ Head(comm_to_worker[self]) = "HEARTBEAT_REQUEST"
        /\ comm_to_worker' = [comm_to_worker EXCEPT ![self] = Tail(@)]
        /\ comm_to_server' = [comm_to_server EXCEPT ![self] = Append(@, "HEARTBEAT_REPLY")]
     \/ UNCHANGED <<comm_to_worker, comm_to_server>>
  /\ UNCHANGED <<currentState, scheduled, jobsSemaphore, finishedSemaphore, background,
                 running, main, serverVars, routes, work_to_worker, bye_to_worker,
                 work_to_server>>

-----------------------------------------------------------------------------
MainThread ==
  \/ Connect
  \/ RunWork
  \/ \E job \in Jobs : ReceiveJob(job)
  \/ ReceiveBye
  \/ NotifyDying
  \/ JoinBackground
  \/ JoinCommunication
  \/ Disconnect

CommunicationThread == RunCommunication \/ ReceiveHeartbeat

Next ==
  \/ \E job \in Jobs : ServerSendsJob(job)
  \/ ServerSendsBye
  \/ MainThread
  \/ \E t \in Threads : Background(t)
  \/ CommunicationThread

Spec == Init /\ [][Next]_vars

\* Every thread that can take a step takes one, and a thread that waits on a
\* semaphore while it is not zero gets it.
FairSpec ==
  /\ Spec
  /\ WF_vars(MainThread)
  /\ WF_vars(CommunicationThread)
  /\ \A t \in Threads : WF_vars(Background(t))

-----------------------------------------------------------------------------
(* Safety *)

At(steps) == {t \in Threads : background[t] \in steps}

AboutToLook == {"unstarted", "check", "pop"}

MayWait == {"pop", "run", "acquire"}

\* No job waits while every thread sleeps or works for it: for each scheduled job a
\* thread is about to look for one, or about to be woken.  (semaphore.hpp:3-6 is
\* about a semaphore with which this was not so.)
WakeupsCoverJobs ==
  currentState = "Connected" =>
    Cardinality(scheduled) <=
      jobsSemaphore + Cardinality(At(AboutToLook))

\* "Allow all the threads to be woken" (worker.cpp:294): once notify_dying has run
\* there is a token for each thread that may wait on jobsSemaphore once more.
DyingWakesAll ==
  currentState = "Dying" /\ main # "notify_dying" =>
    jobsSemaphore >= Cardinality(At(MayWait))

\* The sockets are destroyed only when no thread uses them any more.
SocketsOutliveThreads ==
  currentState = "Gone" =>
    /\ communication = "done"
    /\ \A t \in Threads : background[t] = "done"

\* No job is in two places: on its way, scheduled, with one thread, or answered.
JobsInOnePlace ==
  /\ scheduled \cap (unsent \cup work_to_worker[self] \cup work_to_server[self]) = {}
  /\ \A t \in Threads :
       /\ running[t] \cap (scheduled \cup work_to_worker[self] \cup work_to_server[self]) = {}
       /\ \A u \in Threads \ {t} : running[t] \cap running[u] = {}

-----------------------------------------------------------------------------
(* The inductive invariant *)

\* What the state says of where run() is.
StateOfMain ==
  /\ currentState = "Unconnected" <=> main = "connect"
  /\ currentState = "Gone" <=> main = "returned"
  /\ main = "receive" => currentState = "Connected"
  /\ main \in {"notify_dying", "join_background", "join_communication", "disconnect"} =>
       currentState = "Dying"

\* run() starts the other threads after connect(): until then there is no work.
NothingBeforeEhlo ==
  main = "connect" =>
    /\ comm_to_worker[self] # <<>>
    /\ scheduled = {}
    /\ communication = "unstarted"
    /\ \A t \in Threads : background[t] = "unstarted"

\* No thread ends before BYE, and run() returns after all of them.
ThreadsJoined ==
  /\ communication = "done" \/ At({"done"}) # {} => currentState \in {"Dying", "Gone"}
  /\ main \in {"join_communication", "disconnect", "returned"} => At({"done"}) = Threads
  /\ main \in {"disconnect", "returned"} => communication = "done"

\* Each job is unsent, in flight, scheduled, in the hands of one thread (one job at
\* a time), or answered; or it was lost when the sockets were closed.
JobsApart ==
  /\ unsent \cap (work_to_worker[self] \cup scheduled \cup work_to_server[self]) = {}
  /\ work_to_worker[self] \cap (scheduled \cup work_to_server[self]) = {}
  /\ scheduled \cap work_to_server[self] = {}
  /\ \A t \in Threads :
       /\ running[t] \cap (unsent \cup work_to_worker[self] \cup scheduled
                             \cup work_to_server[self]) = {}
       /\ \A job, other \in running[t] : job = other
       /\ \A u \in Threads \ {t} : running[t] \cap running[u] = {}

\* SocketsOutliveThreads and JobsInOnePlace follow from this conjunction, which
\* every step preserves, and each step that preserves it is one of WorkerPeer.
IInv ==
  /\ TypeOK
  /\ StateOfMain
  /\ NothingBeforeEhlo
  /\ ThreadsJoined
  /\ JobsApart
  /\ WakeupsCoverJobs
  /\ DyingWakesAll

-----------------------------------------------------------------------------
(* The connection as WorkerPeer sees it *)

Peer == INSTANCE WorkerPeer WITH
  connection <- [w \in Workers |-> currentState],
  jobs <- [w \in Workers |-> scheduled \cup UNION {running[t] : t \in Threads}]

PeerStep ==
  \/ Peer!VisitEhlo(self)
  \/ \E job \in Jobs : Peer!VisitJob(self, job) \/ Peer!RunJob(self, job)
  \/ Peer!VisitBye(self)
  \/ Peer!AnswerHeartbeat(self)
  \/ Peer!Disconnect(self)
  \/ (\E job \in Jobs : ServerSendsJob(job)) \/ ServerSendsBye

\* What the threads do together is what WorkerPeer says of a connection: its
\* threads are left out of Cluster with reason.
PeerKept == [][PeerStep]_<<networkVars, Peer!workerVars>>

-----------------------------------------------------------------------------
(* Liveness *)

\* Once the server has said BYE, the connection ends with all its threads.
ConnectionEnds == dismissed ~> main = "returned"

\* A scheduled job is done, unless BYE is read first.
ScheduledJobsDone ==
  \A job \in Jobs :
    (job \in scheduled) ~>
      (ResultOf(job) \in work_to_server[self] \/ currentState \in {"Dying", "Gone"})
=============================================================================
