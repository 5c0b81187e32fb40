----------------------------- MODULE WorkerPeer -----------------------------
(***************************************************************************)
(* A worker process as its server meets it (worker.hpp, worker.cpp): one   *)
(* ServerConnection, from the HELO of connect() to the closing of its      *)
(* sockets.  The threads of the connection are left out: any job a worker  *)
(* holds may be the next to be done.  A process that serves a second       *)
(* server, or the same one again, draws a new identity, so it is another   *)
(* member of Workers.                                                      *)
(***************************************************************************)
EXTENDS Network

VARIABLES
  connection,         \* the state of each worker's ServerConnection
  jobs                \* the jobs scheduled or running on it

workerVars == <<connection, jobs>>

\* ServerConnection::State, before connect() and after the connection is gone.
ConnectionState == {"NotStarted", "Unconnected", "Connected", "Dying", "Gone"}

WorkerTypeOK ==
  /\ connection \in [Workers -> ConnectionState]
  /\ jobs \in [Workers -> SUBSET Jobs]

WorkerInit ==
  /\ connection = [w \in Workers |-> "NotStarted"]
  /\ jobs = [w \in Workers |-> {}]

\* connect(), up to the HELO.  Both dealers start to connect; known are those
\* the routers know when the HELO arrives.
SendHelo(w, known) ==
  /\ connection[w] = "NotStarted"
  /\ connection' = [connection EXCEPT ![w] = "Unconnected"]
  /\ routes' = [routes EXCEPT ![w] = known]
  /\ comm_to_server' = [comm_to_server EXCEPT ![w] = <<"HELO">>]
  /\ UNCHANGED <<jobs, work_to_worker, bye_to_worker, work_to_server, comm_to_worker>>

\* The rest of connect(): the first answer is an EHLO.
VisitEhlo(w) ==
  /\ connection[w] = "Unconnected"
  /\ comm_to_worker[w] # <<>>
  /\ Head(comm_to_worker[w]) = "EHLO"
  /\ connection' = [connection EXCEPT ![w] = "Connected"]
  /\ comm_to_worker' = [comm_to_worker EXCEPT ![w] = Tail(@)]
  /\ UNCHANGED <<jobs, routes, work_to_worker, bye_to_worker, work_to_server,
                 comm_to_server>>

\* run_work receives a job: schedule_job.
VisitJob(w, job) ==
  /\ connection[w] = "Connected"
  /\ job \in work_to_worker[w]
  /\ work_to_worker' = [work_to_worker EXCEPT ![w] = @ \ {job}]
  /\ jobs' = [jobs EXCEPT ![w] = @ \cup {job}]
  /\ UNCHANGED <<connection, routes, bye_to_worker, work_to_server,
                 comm_to_worker, comm_to_server>>

\* run_work receives BYE, the last message it reads.
VisitBye(w) ==
  /\ connection[w] = "Connected"
  /\ w \in bye_to_worker
  /\ work_to_worker[w] = {}
  /\ bye_to_worker' = bye_to_worker \ {w}
  /\ connection' = [connection EXCEPT ![w] = "Dying"]
  /\ UNCHANGED <<jobs, routes, work_to_worker, work_to_server, comm_to_worker,
                 comm_to_server>>

WrongRunJob(w, job) ==    \* nothing sent when the equalisation of an image fails
  /\ connection[w] \in {"Connected", "Dying"}
  /\ job \in jobs[w]
  /\ jobs' = [jobs EXCEPT ![w] = @ \ {job}]
  /\ work_to_server' = [work_to_server EXCEPT
                          ![w] = IF job.type = "HISTOGRAM" THEN @ \cup {ResultOf(job)} ELSE @]
  /\ UNCHANGED <<connection, routes, work_to_worker, bye_to_worker,
                 comm_to_worker, comm_to_server>>

\* A background thread does a job and sends its result; background_task empties
\* the list of jobs before it looks at the state again, so also when Dying.
RunJob(w, job) ==
  /\ connection[w] \in {"Connected", "Dying"}
  /\ job \in jobs[w]
  /\ jobs' = [jobs EXCEPT ![w] = @ \ {job}]
  /\ work_to_server' = [work_to_server EXCEPT ![w] = @ \cup {ResultOf(job)}]
  /\ UNCHANGED <<connection, routes, work_to_worker, bye_to_worker,
                 comm_to_worker, comm_to_server>>

WrongAnswerHeartbeat(w) ==    \* "the same heartbeat data": the request is echoed
  /\ connection[w] \in {"Connected", "Dying"}
  /\ comm_to_worker[w] # <<>>
  /\ Head(comm_to_worker[w]) = "HEARTBEAT_REQUEST"
  /\ comm_to_worker' = [comm_to_worker EXCEPT ![w] = Tail(@)]
  /\ comm_to_server' = [comm_to_server EXCEPT ![w] = Append(@, "HEARTBEAT_REQUEST")]
  /\ UNCHANGED <<connection, jobs, routes, work_to_worker, bye_to_worker,
                 work_to_server>>

\* run_communication answers a heartbeat request.
AnswerHeartbeat(w) ==
  /\ connection[w] \in {"Connected", "Dying"}
  /\ comm_to_worker[w] # <<>>
  /\ Head(comm_to_worker[w]) = "HEARTBEAT_REQUEST"
  /\ comm_to_worker' = [comm_to_worker EXCEPT ![w] = Tail(@)]
  /\ comm_to_server' = [comm_to_server EXCEPT ![w] = Append(@, "HEARTBEAT_REPLY")]
  /\ UNCHANGED <<connection, jobs, routes, work_to_worker, bye_to_worker,
                 work_to_server>>

\* run() returns once the threads have ended, the jobs no thread took are
\* dropped, and disconnect() closes the sockets.
Disconnect(w) ==
  /\ connection[w] = "Dying"
  /\ connection' = [connection EXCEPT ![w] = "Gone"]
  /\ jobs' = [jobs EXCEPT ![w] = {}]
  /\ CloseSockets(w, work_to_server[w], comm_to_server[w])

\* The receive of connect() times out and the empty answer is not a message:
\* from_serialised_string throws, nothing catches it, and the process ends.
ConnectTimeout(w) ==
  /\ connection[w] = "Unconnected"
  /\ connection' = [connection EXCEPT ![w] = "Gone"]
  /\ CloseSockets(w, {}, comm_to_server[w])
  /\ UNCHANGED jobs

\* The process dies: killed, or assert(histogram) fails on a file that is no
\* image, or image_equalise throws in a background thread.  Any of the messages
\* its sockets still held may be lost.
Crash(w) ==
  /\ connection[w] \in {"Unconnected", "Connected", "Dying"}
  /\ connection' = [connection EXCEPT ![w] = "Gone"]
  /\ jobs' = [jobs EXCEPT ![w] = {}]
  /\ \E kept \in SUBSET work_to_server[w], said \in {<<>>, comm_to_server[w]} :
       CloseSockets(w, kept, said)
=============================================================================
