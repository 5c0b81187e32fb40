------------------------------ MODULE Discovery ------------------------------
(***************************************************************************)
(* Servers that announce themselves and a worker that discovers them and   *)
(* serves them one after the other.  Cluster takes it from there: what     *)
(* comes of this module are its workers that start at any time.            *)
(***************************************************************************)
EXTENDS ServerList

vars == <<mdnsVars, listVars>>

Init == MdnsInit /\ ListInit

ServerStep(s) == MdnsStep(s) /\ UNCHANGED listVars

WorkerStep == (MainStep \/ DiscoveryStep) /\ UNCHANGED mdnsVars

Next ==
  \/ WorkerStep \/ DismissWorker
  \/ \E s \in Servers : ServerStep(s) \/ DismissWorkers(s)

Spec == Init /\ [][Next]_vars

\* Each thread goes on; Avahi gets a host name and the service established, and tells
\* browsers and resolvers.  No fault is fair, and no server need ever be done with its work
\* (DismissWorkers, StopMdns), nor handle a HELO before it is.
FairSpec ==
  /\ Spec
  /\ \A s \in Servers :
       /\ WF_vars(StartMdns(s) /\ UNCHANGED listVars)
       /\ WF_vars(MdnsStopped(s) /\ UNCHANGED listVars)
       /\ WF_vars(MdnsLoopEnds(s) /\ UNCHANGED listVars)
       /\ WF_vars(ClientRunning(s) /\ UNCHANGED listVars)
       /\ WF_vars(GroupEstablished(s) /\ UNCHANGED listVars)
       /\ \A r \in Routes : /\ WF_vars(BrowserNew(s, r) /\ UNCHANGED mdnsVars)
                            /\ WF_vars(BrowserRemove(s, r) /\ UNCHANGED mdnsVars)
                            /\ WF_vars(ServerFound(s, r) /\ UNCHANGED mdnsVars)
  /\ WF_vars(DiscoveryEnds /\ UNCHANGED mdnsVars)
  /\ WF_vars(MainStep /\ UNCHANGED mdnsVars)

-----------------------------------------------------------------------------
(* Safety *)

\* Every variable keeps its type.
TypeOK == MdnsTypeOK /\ ListTypeOK

\* The semaphore counts the entries of the list, but for the one being served: so
\* next_connection and pop_connection find an entry when they look (the assertions at
\* worker.cpp:352 and 361), however often a server is found and dropped.
ConnectionsCounted ==
  place # "terminated" =>
    connectionSemaphore + (IF place \in {"begin", "connect", "run", "pop"} THEN 1 ELSE 0)
      = Cardinality(Listed)

\* The server being served keeps its entry until it is popped, so that no instance of
\* it found meanwhile gets another.
ServedIsListed == place \in {"connect", "run", "pop"} => serving \in Listed

\* A worker that does not persist pops the server it served, since its discovery
\* thread adds no second one; a server of smaller name would be popped instead.
PopsTheServed == [][place = "pop" /\ place' = "returned" => serving \notin Listed']_vars

\* The inductive invariant: until a worker that does not persist has found a server it
\* lists none, and then one only.
DiscoveryInv ==
  /\ IsFiniteSet(Listed)
  /\ ConnectionsCounted
  /\ ServedIsListed
  /\ place = "main" => polling = "none" /\ ~ persist
  /\ ~ persist /\ polling \in {"none", "loop"} => Listed = {}
  /\ ~ persist => \A id, other \in Listed : id = other

\* stop_mdns_service finds simplePoll alive, unless Avahi failed while the server
\* worked, or was not there when it started.
ServerStopsCleanly == \A s \in Servers : serverMain[s] # "aborted"

-----------------------------------------------------------------------------
(* Liveness *)

\* A worker that persists lists every server whose Avahi client runs and stays so, unless
\* its browser had told of the service on every route before: "when the server is back in
\* AVAHI_SERVER_RUNNING state we will register them again with the new host name"
\* (network.cpp:120), and what is registered is found.  (A server that was found, and
\* dismisses the worker for being slow, loses its entry and gets no other.)  No call to Avahi
\* and no resolver fails here.
RunningServersFound ==
  \A s \in Servers, r \in Routes :
    client[s] = "running" /\ persist /\ <<s, r>> \notin seen ~>
      \/ \E id \in Listed : serverDetails[id].server = s
      \/ client[s] # "running" \/ mdnsThread[s] # "loop" \/ Over

ServersEnd == \A s \in Servers : <>(serverMain[s] = "ended")

\* run() never returns: the worker was registered after dismiss_workers (server.cpp:107), or
\* its BYE was lost (server.cpp:233).
NeverReleased == place = "run" /\ registration = "forgotten"

\* If all servers end, entries do not stay in the list for ever, be they of servers that
\* ended long ago or of one that was renamed, unless the server in front of them never
\* releases the worker.
EntriesTaken ==
  ServersEnd => \A id \in Ids : id \in Listed ~> id \notin Listed \/ Over \/ NeverReleased

\* Then a worker that does not persist and has found a server ends, which takes both of
\* its threads, unless that server never releases it.
WorkerEnds ==
  ServersEnd => (Listed # {} /\ ~ persist ~> Over \/ NeverReleased)
=============================================================================
