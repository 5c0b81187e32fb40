----------------------------- MODULE ServerList -----------------------------
(***************************************************************************)
(* A worker process: main(), the discovery thread (mdns_find_server and    *)
(* its callbacks, network.cpp), the list of servers the callbacks fill     *)
(* (Worker, worker.cpp), and the main thread that serves them one after    *)
(* the other (run_jobs).  Cluster and WorkerThreads say what happens       *)
(* while a server is served.                                               *)
(*                                                                         *)
(* An entry of the list is one step to add or to remove, since that is     *)
(* done under serverDetailsMutex.                                          *)
(*                                                                         *)
(* A definition named Wrong... is what the one after it would be with a    *)
(* plausible mistake, see Server.                                          *)
(***************************************************************************)
EXTENDS MdnsService, Sequences

CONSTANTS
  Routes,             \* interface and IP version a service is seen on
  CommandLines        \* the arguments the worker may be started with

ASSUME CommandLinesAssumption ==
  \A line \in CommandLines : line \in Seq(STRING) /\ Len(line) >= 1

VARIABLES
  arguments,
  persist,
  place,              \* where the main thread is
  serving,            \* the name of the server it serves, or 0
  polling,            \* the loop of the discovery thread
  seen,               \* services the browser was told of, by server and route
  resolving,          \* resolvers at work
  serverDetails,      \* name -> server and route, the address
  connectionSemaphore,
  registration        \* what the server has made of the worker it serves

listVars == <<arguments, persist, place, serving, polling, seen, resolving,
              serverDetails, connectionSemaphore, registration>>

Place == {"main", "acquire", "begin", "connect", "run", "pop", "returned",
          "exited", "terminated"}

\* In worker_queues; sent BYE; or neither, and no BYE will come.
Registration == {"none", "registered", "dismissed", "forgotten"}

Details == [server : Servers, route : Routes]

\* The names in the list.
Listed == DOMAIN serverDetails

\* The process is over.
Over == place \in {"exited", "terminated"}

ListTypeOK ==
  /\ arguments \in CommandLines
  /\ persist \in BOOLEAN
  /\ place \in Place
  /\ serving \in Ids \cup {0}
  /\ polling \in LoopPlace
  /\ seen \in SUBSET (Servers \X Routes)
  /\ resolving \in SUBSET (Servers \X Routes)
  /\ Listed \subseteq Ids
  /\ serverDetails \in [Listed -> Details]
  /\ connectionSemaphore \in Nat
  /\ registration \in Registration

ListInit ==
  /\ arguments \in CommandLines
  /\ persist = FALSE
  /\ place = "main"
  /\ serving = 0
  /\ polling = "none"
  /\ seen = {}
  /\ resolving = {}
  /\ serverDetails = [id \in {} |-> 0]
  /\ connectionSemaphore = 0
  /\ registration = "none"

-----------------------------------------------------------------------------
(* The discovery thread *)

Browses == ~ Over /\ polling = "loop"

\* AVAHI_BROWSER_NEW: a resolver is started.
BrowserNew(s, r) ==
  /\ Browses
  /\ Visible(s)
  /\ <<s, r>> \notin seen
  /\ seen' = seen \cup {<<s, r>>}
  /\ resolving' = resolving \cup {<<s, r>>}
  /\ UNCHANGED <<arguments, persist, place, serving, polling, serverDetails,
                 connectionSemaphore, registration>>

\* AVAHI_BROWSER_REMOVE: nothing is done about it.
BrowserRemove(s, r) ==
  /\ Browses
  /\ ~ Visible(s)
  /\ <<s, r>> \in seen
  /\ seen' = seen \ {<<s, r>>}
  /\ UNCHANGED <<arguments, persist, place, serving, polling, resolving,
                 serverDetails, connectionSemaphore, registration>>

WrongAddServer(id, details) ==       \* the semaphore counts the instances dropped, too
  /\ serverDetails' = [name \in Listed \cup {id} |->
                         IF name \in Listed THEN serverDetails[name] ELSE details]
  /\ connectionSemaphore' = connectionSemaphore + 1

WrongNotify(id, details) ==          \* only the first entry is told of
  IF id \in Listed
  THEN UNCHANGED <<serverDetails, connectionSemaphore>>
  ELSE /\ serverDetails' = [name \in Listed \cup {id} |->
                              IF name \in Listed THEN serverDetails[name] ELSE details]
       /\ connectionSemaphore' = IF Listed = {} THEN 1 ELSE connectionSemaphore

\* add_server: an instance of a server in the list is dropped.
AddServer(id, details) ==
  IF id \in Listed
  THEN UNCHANGED <<serverDetails, connectionSemaphore>>
  ELSE /\ serverDetails' = [name \in Listed \cup {id} |->
                              IF name \in Listed THEN serverDetails[name] ELSE details]
       /\ connectionSemaphore' = connectionSemaphore + 1

WrongAfterFound == polling           \* the discovery goes on after the first server

\* The poll loop after a server was found.
AfterFound == IF persist THEN polling ELSE "quit"

\* AVAHI_RESOLVER_FOUND
ServerFound(s, r) ==
  /\ Browses
  /\ <<s, r>> \in resolving
  /\ resolving' = resolving \ {<<s, r>>}
  /\ AddServer(serverName[s], [server |-> s, route |-> r])
  /\ polling' = AfterFound
  /\ UNCHANGED <<arguments, persist, place, serving, seen, registration>>

\* AVAHI_RESOLVER_FAILURE: the resolver is freed, and not tried again.
ResolverFailure(s, r) ==
  /\ "resolver" \in Faults
  /\ Browses
  /\ <<s, r>> \in resolving
  /\ resolving' = resolving \ {<<s, r>>}
  /\ UNCHANGED <<arguments, persist, place, serving, polling, seen, serverDetails,
                 connectionSemaphore, registration>>

\* AVAHI_CLIENT_FAILURE or AVAHI_BROWSER_FAILURE
DiscoveryFailure ==
  /\ "failure" \in Faults
  /\ Browses
  /\ polling' = "quit"
  /\ UNCHANGED <<arguments, persist, place, serving, seen, resolving, serverDetails,
                 connectionSemaphore, registration>>

\* The loop returns, and mdns_find_server frees its browser and resolvers.
DiscoveryEnds ==
  /\ ~ Over
  /\ polling = "quit"
  /\ polling' = "freed"
  /\ seen' = {}
  /\ resolving' = {}
  /\ UNCHANGED <<arguments, persist, place, serving, serverDetails,
                 connectionSemaphore, registration>>

-----------------------------------------------------------------------------
(* The main thread *)

\* argv[2] is a null pointer if there is one argument only, and strcmp reads it: the
\* test that comes first, argc >= 2, holds whenever there is any argument.
Main ==
  /\ place = "main"
  /\ IF Len(arguments) < 2
     THEN place' = "terminated" /\ UNCHANGED <<persist, polling>>
     ELSE /\ persist' = (arguments[2] = "--persist")
          /\ place' = "acquire"
          /\ polling' = "loop"
  /\ UNCHANGED <<arguments, serving, seen, resolving, serverDetails, connectionSemaphore,
                 registration>>

\* next_connection waits for an entry.
AcquireConnection ==
  /\ place = "acquire"
  /\ connectionSemaphore > 0
  /\ connectionSemaphore' = connectionSemaphore - 1
  /\ place' = "begin"
  /\ UNCHANGED <<arguments, persist, serving, polling, seen, resolving, serverDetails,
                 registration>>

\* serverDetails.begin()
IsFirst(id) == id \in Listed /\ \A other \in Listed : id <= other

\* next_connection takes the first entry; its assertion stops the process if there is none.
NextConnection ==
  /\ place = "begin"
  /\ \/ /\ Listed = {}
        /\ place' = "terminated"
        /\ UNCHANGED serving
     \/ \E id \in Ids :
          /\ IsFirst(id)
          /\ serving' = id
          /\ place' = "connect"
  /\ UNCHANGED <<arguments, persist, polling, seen, resolving, serverDetails,
                 connectionSemaphore, registration>>

\* The server of the entry being served.
Served == serverDetails[serving].server

\* connect().  The server handles a HELO as long as its communication service runs, but a
\* worker registered after dismiss_workers is never told BYE.  An exception ends the
\* process when no EHLO comes in time.
ConnectTo ==
  /\ place = "connect"
  /\ \/ /\ serverMain[Served] = "serve"
        /\ place' = "run"
        /\ registration' = "registered"
     \/ /\ serverMain[Served] = "dismissed"
        /\ place' = "run"
        /\ registration' = "forgotten"
     \/ /\ serverMain[Served] # "serve" \/ "slow" \in Faults
        /\ place' = "terminated"
        /\ UNCHANGED registration
  /\ UNCHANGED <<arguments, persist, serving, polling, seen, resolving, serverDetails,
                 connectionSemaphore>>

\* run() returns when its work thread has read the BYE.
RunEnds ==
  /\ place = "run"
  /\ registration = "dismissed"
  /\ place' = "pop"
  /\ registration' = "none"
  /\ UNCHANGED <<arguments, persist, serving, polling, seen, resolving, serverDetails,
                 connectionSemaphore>>

\* pop_connection removes the first entry, as its assertion demands there is one, and
\* run_jobs goes on if the worker is to persist.
PopConnection ==
  /\ place = "pop"
  /\ \/ /\ Listed = {}
        /\ place' = "terminated"
        /\ UNCHANGED serverDetails
     \/ \E id \in Ids :
          /\ IsFirst(id)
          /\ serverDetails' = [name \in Listed \ {id} |-> serverDetails[name]]
          /\ place' = IF persist THEN "acquire" ELSE "returned"
  /\ serving' = 0
  /\ UNCHANGED <<arguments, persist, polling, seen, resolving, connectionSemaphore,
                 registration>>

\* main() returns, which waits for the discovery thread.
Return ==
  /\ place = "returned"
  /\ polling = "freed"
  /\ place' = "exited"
  /\ UNCHANGED <<arguments, persist, serving, polling, seen, resolving, serverDetails,
                 connectionSemaphore, registration>>

-----------------------------------------------------------------------------
(* The server it serves *)

\* send_work_message: that the send failed is ignored.
SendBye ==
  \/ registration' = "dismissed"
  \/ "lost_bye" \in Faults /\ registration' = "forgotten"

UnchangedButRegistration ==
  UNCHANGED <<arguments, persist, place, serving, polling, seen, resolving, serverDetails,
              connectionSemaphore>>

\* dismiss_worker, of a worker that lives but answers late: the server goes on.
DismissWorker ==
  /\ "slow" \in Faults
  /\ registration = "registered"
  /\ SendBye
  /\ UnchangedButRegistration
  /\ UNCHANGED mdnsVars

\* dismiss_workers, when the work of a server is done.
DismissWorkers(s) ==
  /\ serverMain[s] = "serve"
  /\ serverMain' = [serverMain EXCEPT ![s] = "dismissed"]
  /\ \/ registration = "registered" /\ Served = s /\ SendBye
     \/ (registration = "registered" => Served # s) /\ UNCHANGED registration
  /\ UnchangedButRegistration
  /\ UNCHANGED <<mdnsThread, client, group, serverName, drawn>>

MainStep ==
  \/ Main \/ AcquireConnection \/ NextConnection \/ ConnectTo \/ RunEnds
  \/ PopConnection \/ Return

DiscoveryStep ==
  \/ DiscoveryFailure \/ DiscoveryEnds
  \/ \E s \in Servers, r \in Routes :
       BrowserNew(s, r) \/ BrowserRemove(s, r) \/ ServerFound(s, r) \/ ResolverFailure(s, r)
=============================================================================
