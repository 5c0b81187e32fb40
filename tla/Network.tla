------------------------------- MODULE Network -------------------------------
(***************************************************************************)
(* The ZeroMQ sockets between the server and each worker, as the code uses *)
(* them: a pair of routers on the server (work and communication), a pair  *)
(* of dealers with one common identity on each worker.                     *)
(*                                                                         *)
(* The work sockets carry jobs, then at most one BYE, to a worker and      *)
(* results to the server.  The threads of a worker take jobs and send      *)
(* results in any order, so these channels are sets of messages in flight; *)
(* BYE, always the last message a worker is sent, is kept apart and read   *)
(* when no job is in front of it.  The communication sockets are FIFO.     *)
(***************************************************************************)
EXTENDS Protocol, Sequences

CONSTANT Workers      \* the identities of the connections workers make

VARIABLES
  routes,             \* the sockets of a worker the server's routers know
  work_to_worker,     \* jobs in flight
  bye_to_worker,      \* the workers a BYE is in flight to
  work_to_server,     \* results in flight
  comm_to_worker,     \* EHLO and heartbeat requests in flight
  comm_to_server      \* HELO and heartbeat replies in flight

networkVars == <<routes, work_to_worker, bye_to_worker, work_to_server,
                 comm_to_worker, comm_to_server>>

Sockets == {"work", "communication"}

NetworkTypeOK ==
  /\ routes \in [Workers -> SUBSET Sockets]
  /\ work_to_worker \in [Workers -> SUBSET Jobs]
  /\ bye_to_worker \in SUBSET Workers
  /\ work_to_server \in [Workers -> SUBSET Results]
  /\ comm_to_worker \in [Workers -> Seq(ToWorkerCommand)]
  /\ comm_to_server \in [Workers -> Seq(ToServerCommand)]

NetworkInit ==
  /\ routes = [w \in Workers |-> {}]
  /\ work_to_worker = [w \in Workers |-> {}]
  /\ bye_to_worker = {}
  /\ work_to_server = [w \in Workers |-> {}]
  /\ comm_to_worker = [w \in Workers |-> <<>>]
  /\ comm_to_server = [w \in Workers |-> <<>>]

\* Server::send_work_message of some jobs.  The router is mandatory: a message
\* for an identity it does not know raises an error, and the error is ignored.
SendJobs(w, jobs) ==
  work_to_worker' =
    IF "work" \in routes[w] THEN [work_to_worker EXCEPT ![w] = @ \cup jobs]
                            ELSE work_to_worker

\* Server::send_work_message of a BYE to each of some workers.
SendByes(ws) ==
  bye_to_worker' = bye_to_worker \cup {w \in ws : "work" \in routes[w]}

\* Server::send_communication_message of some commands to each of some workers.
SendCommands(ws, commands) ==
  comm_to_worker' =
    [w \in Workers |-> IF w \in ws /\ "communication" \in routes[w]
                       THEN comm_to_worker[w] \o commands
                       ELSE comm_to_worker[w]]

\* The server's work router learns the identity of a worker's dealer.  Each
\* socket connects by itself, in the background.
RouteWork(w) ==
  /\ "communication" \in routes[w]
  /\ "work" \notin routes[w]
  /\ routes' = [routes EXCEPT ![w] = @ \cup {"work"}]
  /\ UNCHANGED <<work_to_worker, bye_to_worker, work_to_server,
                 comm_to_worker, comm_to_server>>

\* The sockets of a worker are closed: what was in flight to it is lost, the
\* results in kept and the commands in said still reach the server.
CloseSockets(w, kept, said) ==
  /\ routes' = [routes EXCEPT ![w] = {}]
  /\ work_to_worker' = [work_to_worker EXCEPT ![w] = {}]
  /\ bye_to_worker' = bye_to_worker \ {w}
  /\ work_to_server' = [work_to_server EXCEPT ![w] = kept]
  /\ comm_to_worker' = [comm_to_worker EXCEPT ![w] = <<>>]
  /\ comm_to_server' = [comm_to_server EXCEPT ![w] = said]
=============================================================================
