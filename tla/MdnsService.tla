----------------------------- MODULE MdnsService -----------------------------
(***************************************************************************)
(* How each server announces itself (network.cpp): its main thread starts  *)
(* a thread that dispatches Avahi's callbacks, serves its work, and stops  *)
(* that thread.  Avahi, the daemon and the library, is external: it says   *)
(* by callbacks what became of its own host name, and of the entry group   *)
(* that holds the service.  A callback is one step, for one loop           *)
(* dispatches them all.                                                    *)
(*                                                                         *)
(* A definition named Wrong... is what the one after it would be with a    *)
(* plausible mistake, see Server.                                          *)
(***************************************************************************)
EXTENDS Integers, FiniteSets

CONSTANTS
  Servers,            \* server processes
  Ids,                \* random server names: numbers, for the map is ordered
  Faults              \* what may go wrong, see the uses

ASSUME IdsAssumption == Ids \subseteq Nat \ {0}

VARIABLES
  serverMain,         \* where the main thread of each server is
  mdnsThread,         \* the loop of its service thread, and so simplePoll
  client,             \* the state its Avahi client was last told
  group,              \* its entry group
  serverName,         \* the server-name in the TXT record it registered last
  drawn               \* the names drawn by any server: no two are the same

mdnsVars == <<serverMain, mdnsThread, client, group, serverName, drawn>>

MainPlace == {"start", "serve", "dismissed", "wait", "ended", "aborted"}
LoopPlace == {"none", "loop", "quit", "freed"}
ClientState == {"connecting", "registering", "running", "collision", "failure", "freed"}
GroupState == {"null", "empty", "uncommitted", "registering", "established", "freed"}

MdnsTypeOK ==
  /\ serverMain \in [Servers -> MainPlace]
  /\ mdnsThread \in [Servers -> LoopPlace]
  /\ client \in [Servers -> ClientState]
  /\ group \in [Servers -> GroupState]
  /\ serverName \in [Servers -> Ids \cup {0}]
  /\ drawn \in SUBSET Ids

MdnsInit ==
  /\ serverMain = [s \in Servers |-> "start"]
  /\ mdnsThread = [s \in Servers |-> "none"]
  /\ client = [s \in Servers |-> "connecting"]
  /\ group = [s \in Servers |-> "null"]
  /\ serverName = [s \in Servers |-> 0]
  /\ drawn = {}

\* Whether browsers are told of the service.
Visible(s) ==
  group[s] = "established" /\ client[s] # "failure" /\ mdnsThread[s] \in {"loop", "quit"}

-----------------------------------------------------------------------------
(* The main thread *)

\* start_mdns_service, and its failures to make a poll object or a client.
StartMdns(s) ==
  /\ serverMain[s] = "start"
  /\ serverMain' = [serverMain EXCEPT ![s] = "serve"]
  /\ \/ mdnsThread' = [mdnsThread EXCEPT ![s] = "loop"]
     \/ "start" \in Faults /\ UNCHANGED mdnsThread
  /\ UNCHANGED <<client, group, serverName, drawn>>

\* serve_work has dismissed the workers and is over.  stop_mdns_service tells the loop to quit; it aborts if none was
\* started, and uses memory that is free if the loop has ended by itself.
StopMdns(s) ==
  /\ serverMain[s] = "dismissed"
  /\ \E next \in CASE mdnsThread[s] = "none"  -> {"aborted"}
                   [] mdnsThread[s] = "freed" -> {"wait", "aborted"}
                   [] OTHER                   -> {"wait"} :
       serverMain' = [serverMain EXCEPT ![s] = next]
  /\ mdnsThread' = [mdnsThread EXCEPT ![s] = IF @ = "loop" THEN "quit" ELSE @]
  /\ UNCHANGED <<client, group, serverName, drawn>>

\* The wait for the service thread ends.
MdnsStopped(s) ==
  /\ serverMain[s] = "wait"
  /\ mdnsThread[s] = "freed"
  /\ serverMain' = [serverMain EXCEPT ![s] = "ended"]
  /\ UNCHANGED <<mdnsThread, client, group, serverName, drawn>>

\* avahi_simple_poll_loop returns; the client, with its group, and simplePoll are freed.
MdnsLoopEnds(s) ==
  /\ mdnsThread[s] = "quit"
  /\ mdnsThread' = [mdnsThread EXCEPT ![s] = "freed"]
  /\ client' = [client EXCEPT ![s] = "freed"]
  /\ group' = [group EXCEPT ![s] = "freed"]
  /\ UNCHANGED <<serverMain, serverName, drawn>>

-----------------------------------------------------------------------------
(* The callbacks *)

Dispatches(s) ==
  serverMain[s] \in {"serve", "dismissed", "wait"} /\ mdnsThread[s] = "loop"

\* The service is added to the group, under a new random server name, and committed.
\* Each of the three calls to Avahi may fail: the first leaves no group, the second an
\* empty one, the third one with entries nobody is told of.
FillGroup(s, g) ==
  \/ \E id \in Ids \ drawn :
       /\ serverName' = [serverName EXCEPT ![s] = id]
       /\ drawn' = drawn \cup {id}
       /\ \/ group' = [group EXCEPT ![s] = "registering"]
          \/ "register" \in Faults /\ group' = [group EXCEPT ![s] = "uncommitted"]
  \/ /\ "register" \in Faults
     /\ \E left \in {g, "empty"} : group' = [group EXCEPT ![s] = left]
     /\ UNCHANGED <<serverName, drawn>>

KeepGroup(s, g) ==
  /\ group' = [group EXCEPT ![s] = g]
  /\ UNCHANGED <<serverName, drawn>>

WrongCreateServices(s, g) ==         \* only a new group is filled
  IF g = "null" THEN FillGroup(s, g) ELSE KeepGroup(s, g)

\* create_avahi_services, for a group in state g: it is left as it is if it has entries.
CreateServices(s, g) ==
  IF g \in {"null", "empty"} THEN FillGroup(s, g) ELSE KeepGroup(s, g)

\* AVAHI_CLIENT_S_RUNNING
ClientRunning(s) ==
  /\ Dispatches(s)
  /\ client[s] \in {"connecting", "registering", "collision"}
  /\ client' = [client EXCEPT ![s] = "running"]
  /\ CreateServices(s, group[s])
  /\ UNCHANGED <<serverMain, mdnsThread>>

\* Host names change, and services collide, only while names are left to draw: the
\* bound on how often they do.
NamesLeft == Cardinality(Servers) <= Cardinality(Ids \ drawn)

\* AVAHI_CLIENT_S_COLLISION, AVAHI_CLIENT_S_REGISTERING: the host name changes.
HostNameChanges(s) ==
  /\ "host_name" \in Faults
  /\ Dispatches(s)
  /\ NamesLeft
  /\ \E state \in {"registering", "collision"} :
       /\ client[s] \in {"connecting", "registering", "running", "collision"} \ {state}
       /\ client' = [client EXCEPT ![s] = state]
  /\ group' = [group EXCEPT ![s] = IF @ = "null" THEN @ ELSE "empty"]
  /\ UNCHANGED <<serverMain, mdnsThread, serverName, drawn>>

\* AVAHI_CLIENT_FAILURE, or AVAHI_ENTRY_GROUP_FAILURE of a group that is registering
AvahiFailure(s) ==
  /\ "failure" \in Faults
  /\ Dispatches(s)
  /\ \/ client' = [client EXCEPT ![s] = "failure"]
     \/ group[s] = "registering" /\ UNCHANGED client
  /\ mdnsThread' = [mdnsThread EXCEPT ![s] = "quit"]
  /\ UNCHANGED <<serverMain, group, serverName, drawn>>

\* AVAHI_ENTRY_GROUP_ESTABLISHED
GroupEstablished(s) ==
  /\ Dispatches(s)
  /\ group[s] = "registering"
  /\ group' = [group EXCEPT ![s] = "established"]
  /\ UNCHANGED <<serverMain, mdnsThread, client, serverName, drawn>>

WrongGroupCollision(s) ==            \* falls through to the failure
  /\ "collision" \in Faults
  /\ Dispatches(s)
  /\ NamesLeft
  /\ group[s] \in {"registering", "established"}
  /\ CreateServices(s, "empty")
  /\ mdnsThread' = [mdnsThread EXCEPT ![s] = "quit"]
  /\ UNCHANGED <<serverMain, client>>

\* AVAHI_ENTRY_GROUP_COLLISION: Avahi has withdrawn the entries; the service takes
\* another name of its own, and registers again.
GroupCollision(s) ==
  /\ "collision" \in Faults
  /\ Dispatches(s)
  /\ NamesLeft
  /\ group[s] \in {"registering", "established"}
  /\ CreateServices(s, "empty")
  /\ UNCHANGED <<serverMain, mdnsThread, client>>

MdnsCallback(s) ==
  \/ ClientRunning(s) \/ HostNameChanges(s) \/ AvahiFailure(s)
  \/ GroupEstablished(s) \/ GroupCollision(s)

MdnsStep(s) ==
  StartMdns(s) \/ StopMdns(s) \/ MdnsStopped(s) \/ MdnsLoopEnds(s) \/ MdnsCallback(s)
=============================================================================
