----------------------------- MODULE ServerLocks -----------------------------
(***************************************************************************)
(* The two recursive mutexes of the server (server.cpp), which Server      *)
(* takes as given: its handlers are single steps there.  transmit_work     *)
(* takes work_mutex before worker_mutex, dismiss_worker and                *)
(* dismiss_workers take them in the other order, and some code takes none. *)
(* Here each operation is the sequence of what it locks and touches.       *)
(*                                                                         *)
(* Two threads count: "work" stands for the main thread and for the        *)
(* threads it starts and waits for at once, "communication" for            *)
(* run_communication_service.  What a handler does depends on its message: *)
(* on which, and with what in the queues, is left open.                    *)
(*                                                                         *)
(* A definition named Wrong... is what the one after it would be with a    *)
(* plausible mistake, see Server.                                          *)
(***************************************************************************)
EXTENDS Naturals, Sequences

VARIABLES
  owner,              \* the thread that holds a mutex, or "none"
  depth,              \* how many times
  todo,               \* what is left of the operation of each thread
  stage,              \* of serve_work
  communication_service_running

vars == <<owner, depth, todo, stage, communication_service_running>>

Threads == {"work", "communication"}
Mutexes == {"work_mutex", "worker_mutex"}
Stages == {"histograms", "pushing", "existing", "images", "dismissing", "stopping", "ended"}

Lock(m) == [do |-> "lock", on |-> m]
Unlock(m) == [do |-> "unlock", on |-> m]
Use(object) == [do |-> "use", on |-> object]
Send(socket) == [do |-> "send", on |-> socket]
Receive(socket) == [do |-> "receive", on |-> socket]

\* Some code with a mutex held.
Under(m, code) == <<Lock(m)>> \o code \o <<Unlock(m)>>

\* Code that leaves out its last part, or does not.
Perhaps(first, rest) == {first} \cup {first \o part : part \in rest}

-----------------------------------------------------------------------------
(* The operations *)

Lookup == <<Use("worker_queues"), Use("enqueued_work")>>

\* transmit_work; to send several jobs is to go round its loop more than once.
TransmitWork ==
  {Under("work_mutex", Under("worker_mutex", code)) :
     code \in Perhaps(Lookup, {<<Send("work_socket"), Use("worker_queues")>> \o Lookup})}

\* dismiss_worker
DismissWorker ==
  Under("worker_mutex", Under("work_mutex", Lookup \o <<Send("work_socket")>>))

\* dismiss_workers
DismissWorkers ==
  Under("worker_mutex",
    Under("work_mutex", <<Use("worker_queues"), Send("work_socket"), Use("worker_queues")>>))

WrongSendHeartbeats ==      \* each call it makes locks what it needs
  {Under("worker_mutex", <<Use("worker_queues")>>) \o code :
     code \in {<<>>, <<Send("communication_socket")>>, DismissWorker,
               <<Send("communication_socket")>> \o DismissWorker}}

\* send_heartbeats
SendHeartbeats ==
  {Under("worker_mutex", <<Use("worker_queues")>> \o code) :
     code \in {<<>>, <<Send("communication_socket")>>, DismissWorker,
               <<Send("communication_socket")>> \o DismissWorker}}

\* The result visitors, with worker_mutex held: the result is dropped, or the queue of
\* its worker is changed and refilled.
VisitResult ==
  Perhaps(<<Use("worker_queues")>>, Perhaps(<<Use("enqueued_work")>>, TransmitWork))

\* A result, or a timeout.
ReceiveResult ==
  Perhaps(<<Receive("work_socket")>>, {Under("worker_mutex", code) : code \in VisitResult})

\* The loop of receive_equalised over its workers, for one of them.
ServeExisting ==
  {Under("worker_mutex", code) : code \in Perhaps(Lookup, TransmitWork)}

\* visit_helo, and the visit of a heartbeat reply, with worker_mutex held
VisitCommand ==
  {Under("worker_mutex", <<Use("worker_queues")>>)}
    \cup {<<Use("worker_queues"), Send("communication_socket"), Send("communication_socket")>>
            \o code : code \in TransmitWork}

WrongReceiveCommand ==      \* the handlers lock what they need
  Perhaps(<<Receive("communication_socket")>>, VisitCommand)

\* A command, or a timeout.
ReceiveCommand ==
  Perhaps(<<Receive("communication_socket")>>,
          {Under("worker_mutex", code) : code \in VisitCommand})

-----------------------------------------------------------------------------
(* The threads *)

Init ==
  /\ owner = [m \in Mutexes |-> "none"]
  /\ depth = [m \in Mutexes |-> 0]
  /\ todo = [t \in Threads |-> <<>>]
  /\ stage = "histograms"
  /\ communication_service_running = TRUE

\* The first thing left to do.
First(t) ==
  LET m == Head(todo[t]).on
  IN \/ /\ Head(todo[t]).do = "lock"
        /\ owner[m] \in {"none", t}
        /\ owner' = [owner EXCEPT ![m] = t]
        /\ depth' = [depth EXCEPT ![m] = @ + 1]
     \/ /\ Head(todo[t]).do = "unlock"
        /\ owner' = [owner EXCEPT ![m] = IF depth[m] = 1 THEN "none" ELSE @]
        /\ depth' = [depth EXCEPT ![m] = @ - 1]
     \/ /\ Head(todo[t]).do \notin {"lock", "unlock"}
        /\ UNCHANGED <<owner, depth>>

Continue(t) ==
  /\ todo[t] # <<>>
  /\ First(t)
  /\ todo' = [todo EXCEPT ![t] = Tail(@)]
  /\ UNCHANGED <<stage, communication_service_running>>

\* What serve_work and the threads it waits for do in a stage, again and again.
Operations ==
  CASE stage = "histograms" -> ReceiveResult
    [] stage = "pushing"    -> {<<Use("enqueued_work")>>}
    [] stage = "existing"   -> ServeExisting
    [] stage = "images"     -> {received \o heartbeats :
                                  received \in ReceiveResult, heartbeats \in SendHeartbeats}
    [] stage = "dismissing" -> {DismissWorkers}
    [] OTHER                -> {}

WorkContinues ==
  /\ todo["work"] = <<>>
  /\ \E code \in Operations : todo' = [todo EXCEPT !["work"] = code]
  /\ UNCHANGED <<owner, depth, stage, communication_service_running>>

NextStage ==
  CASE stage = "histograms" -> "pushing"
    [] stage = "pushing"    -> "existing"
    [] stage = "existing"   -> "images"
    [] stage = "images"     -> "dismissing"
    [] stage = "dismissing" -> "stopping"

StageEnds ==
  /\ todo["work"] = <<>>
  /\ stage \notin {"stopping", "ended"}
  /\ stage' = NextStage
  /\ communication_service_running' = (NextStage # "stopping")
  /\ UNCHANGED <<owner, depth, todo>>

\* run_communication_service looks at its flag only when no command came in time.
CommandComes ==
  /\ stage # "ended"
  /\ todo["communication"] = <<>>
  /\ \E code \in ReceiveCommand : todo' = [todo EXCEPT !["communication"] = code]
  /\ UNCHANGED <<owner, depth, stage, communication_service_running>>

\* The communication thread ends, and serve_work with it.
ServeWorkEnds ==
  /\ stage = "stopping"
  /\ ~ communication_service_running
  /\ todo["communication"] = <<>>
  /\ stage' = "ended"
  /\ UNCHANGED <<owner, depth, todo, communication_service_running>>

Ended == stage = "ended" /\ UNCHANGED vars

Next ==
  \/ \E t \in Threads : Continue(t)
  \/ WorkContinues \/ StageEnds \/ CommandComes \/ ServeWorkEnds \/ Ended

Spec == Init /\ [][Next]_vars

-----------------------------------------------------------------------------
(* Safety *)

\* Whoever holds work_mutex holds worker_mutex: every caller of transmit_work locks it
\* first, for else the order of its two locks (server.cpp:138) would be the reverse of
\* that in dismiss_worker (server.cpp:249), and the threads could wait for each other.
WorkerMutexFirst ==
  \A t \in Threads : owner["work_mutex"] = t => owner["worker_mutex"] = t

Touches(t, object) ==
  todo[t] # <<>> /\ Head(todo[t]).on = object /\ object \notin Mutexes

\* Where both threads touch an object at once, it is enqueued_work while serve_work
\* pushes onto it (server.cpp:85), or a socket one of them receives on (server.cpp:116,
\* 163): worker_queues is never, nor do two messages mix on their way out.
RacesAreKnown ==
  \A object \in {"worker_queues", "enqueued_work", "work_socket", "communication_socket"} :
    (\A t \in Threads : Touches(t, object)) =>
      \/ object = "enqueued_work" /\ stage = "pushing"
      \/ \E t \in Threads : Head(todo[t]) = Receive(object)
=============================================================================
