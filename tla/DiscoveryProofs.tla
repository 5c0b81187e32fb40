--------------------------- MODULE DiscoveryProofs ---------------------------
(***************************************************************************)
(* Proofs about Discovery, for any servers, routes, names, command lines   *)
(* and faults.                                                             *)
(***************************************************************************)
EXTENDS Discovery, FiniteSetTheorems, TLAPS

-----------------------------------------------------------------------------
(* Type correctness *)

\* An entry more keeps the type of the list, and so does one less.
LEMMA EntryAdded ==
  ASSUME ListTypeOK, NEW id \in Ids, NEW details \in Details,
         AddServer(id, details)
  PROVE  /\ Listed' = Listed \cup {id}
         /\ serverDetails' \in [Listed' -> Details]
         /\ connectionSemaphore' \in Nat
<1>1. CASE id \in Listed
  BY <1>1 DEF AddServer, ListTypeOK, Listed
<1>2. CASE id \notin Listed
  <2>1. serverDetails' = [name \in Listed \cup {id} |->
                            IF name \in Listed THEN serverDetails[name] ELSE details]
    BY <1>2 DEF AddServer
  <2>2. connectionSemaphore' = connectionSemaphore + 1
    BY <1>2 DEF AddServer
  <2>3. Listed' = Listed \cup {id}
    BY <2>1 DEF Listed
  <2> QED
    BY <2>1, <2>2, <2>3 DEF ListTypeOK
<1> QED
  BY <1>1, <1>2

LEMMA EntryRemoved ==
  ASSUME ListTypeOK, NEW id \in Ids,
         serverDetails' = [name \in Listed \ {id} |-> serverDetails[name]]
  PROVE  /\ Listed' = Listed \ {id}
         /\ serverDetails' \in [Listed' -> Details]
  BY DEF ListTypeOK, Listed

LEMMA EmptyList ==
  ASSUME serverDetails = [id \in {} |-> 0]
  PROVE  Listed = {} /\ serverDetails \in [Listed -> Details]
<1>1. Listed = {}
  BY DEF Listed
<1>2. \A f : f = [id \in {} |-> 0] => f \in [{} -> Details]
  OBVIOUS
<1> QED
  BY <1>1, <1>2

\* create_avahi_services keeps the types of what it changes.
LEMMA CreateServicesType ==
  ASSUME MdnsTypeOK, NEW s \in Servers, NEW g \in GroupState, CreateServices(s, g)
  PROVE  /\ group' \in [Servers -> GroupState]
         /\ serverName' \in [Servers -> Ids \cup {0}]
         /\ drawn' \in SUBSET Ids
<1>1. ASSUME NEW id \in Ids \ drawn,
             serverName' = [serverName EXCEPT ![s] = id], drawn' = drawn \cup {id},
             \/ group' = [group EXCEPT ![s] = "registering"]
             \/ group' = [group EXCEPT ![s] = "uncommitted"]
      PROVE  /\ group' \in [Servers -> GroupState]
             /\ serverName' \in [Servers -> Ids \cup {0}]
             /\ drawn' \in SUBSET Ids
  BY <1>1 DEF MdnsTypeOK, GroupState
<1>2. ASSUME NEW left \in {g, "empty"}, group' = [group EXCEPT ![s] = left],
             UNCHANGED <<serverName, drawn>>
      PROVE  /\ group' \in [Servers -> GroupState]
             /\ serverName' \in [Servers -> Ids \cup {0}]
             /\ drawn' \in SUBSET Ids
  BY <1>2 DEF MdnsTypeOK, GroupState
<1> QED
  BY <1>1, <1>2 DEF CreateServices, FillGroup, KeepGroup

LEMMA MdnsTypeStep ==
  ASSUME MdnsTypeOK, NEW s \in Servers, MdnsStep(s)
  PROVE  MdnsTypeOK'
<1>1. CASE StartMdns(s)
  BY <1>1 DEF StartMdns, MdnsTypeOK, MainPlace, LoopPlace
<1>2. CASE StopMdns(s)
  <2>1. serverMain' \in [Servers -> MainPlace]
    BY <1>2 DEF StopMdns, MdnsTypeOK, MainPlace
  <2>2. mdnsThread' \in [Servers -> LoopPlace]
    BY <1>2 DEF StopMdns, MdnsTypeOK, LoopPlace
  <2> QED
    BY <1>2, <2>1, <2>2 DEF StopMdns, MdnsTypeOK
<1>3. CASE MdnsStopped(s)
  BY <1>3 DEF MdnsStopped, MdnsTypeOK, MainPlace
<1>4. CASE MdnsLoopEnds(s)
  BY <1>4 DEF MdnsLoopEnds, MdnsTypeOK, LoopPlace, ClientState, GroupState
<1>5. CASE ClientRunning(s)
  <2>1. group[s] \in GroupState /\ CreateServices(s, group[s])
    BY <1>5 DEF ClientRunning, MdnsTypeOK
  <2> QED
    BY <1>5, <2>1, CreateServicesType DEF ClientRunning, MdnsTypeOK, ClientState
<1>6. CASE HostNameChanges(s)
  BY <1>6 DEF HostNameChanges, MdnsTypeOK, ClientState, GroupState
<1>7. CASE AvahiFailure(s)
  BY <1>7 DEF AvahiFailure, MdnsTypeOK, ClientState, LoopPlace
<1>8. CASE GroupEstablished(s)
  BY <1>8 DEF GroupEstablished, MdnsTypeOK, GroupState
<1>9. CASE GroupCollision(s)
  <2>1. "empty" \in GroupState /\ CreateServices(s, "empty")
    BY <1>9 DEF GroupCollision, GroupState
  <2> QED
    BY <1>9, <2>1, CreateServicesType DEF GroupCollision, MdnsTypeOK
<1> QED
  BY <1>1, <1>2, <1>3, <1>4, <1>5, <1>6, <1>7, <1>8, <1>9 DEF MdnsStep, MdnsCallback

\* A server has drawn its name before anyone sees its service.
NamedWhenSeen ==
  /\ \A s \in Servers : group[s] \in {"registering", "established"} => serverName[s] \in Ids
  /\ \A s \in Servers, r \in Routes : <<s, r>> \in resolving => serverName[s] \in Ids

LEMMA NamedStep ==
  ASSUME MdnsTypeOK, ListTypeOK, NamedWhenSeen, Next
  PROVE  NamedWhenSeen'
<1>1. CASE WorkerStep
  <2>1. \/ resolving' \subseteq resolving
        \/ \E s \in Servers, r \in Routes :
             Visible(s) /\ resolving' = resolving \cup {<<s, r>>}
    <3>1. CASE MainStep
      BY <3>1 DEF MainStep, Main, AcquireConnection, NextConnection, ConnectTo, RunEnds,
         PopConnection, Return
    <3>2. CASE DiscoveryFailure \/ DiscoveryEnds
      BY <3>2 DEF DiscoveryFailure, DiscoveryEnds
    <3>3. ASSUME NEW s \in Servers, NEW r \in Routes,
                 BrowserRemove(s, r) \/ ServerFound(s, r) \/ ResolverFailure(s, r)
          PROVE  resolving' \subseteq resolving
      BY <3>3 DEF BrowserRemove, ServerFound, ResolverFailure
    <3>4. ASSUME NEW s \in Servers, NEW r \in Routes, BrowserNew(s, r)
          PROVE  Visible(s) /\ resolving' = resolving \cup {<<s, r>>}
      BY <3>4 DEF BrowserNew
    <3> QED
      BY <1>1, <3>1, <3>2, <3>3, <3>4 DEF WorkerStep, DiscoveryStep
  <2>2. UNCHANGED <<group, serverName>>
    BY <1>1 DEF WorkerStep, mdnsVars
  <2>3. ASSUME NEW s \in Servers, NEW r \in Routes, <<s, r>> \in resolving'
        PROVE  serverName[s] \in Ids
    BY <2>1, <2>3 DEF Visible, NamedWhenSeen
  <2> QED
    BY <2>2, <2>3 DEF NamedWhenSeen
<1>2. ASSUME NEW t \in Servers, ServerStep(t)
      PROVE  NamedWhenSeen'
  <2>1. \/ UNCHANGED <<group, serverName>>
        \/ \E id \in Ids, g \in GroupState : /\ serverName' = [serverName EXCEPT ![t] = id]
                                            /\ group' = [group EXCEPT ![t] = g]
        \/ \E g \in GroupState \ {"registering", "established"} :
             /\ serverName' = serverName
             /\ group' = [group EXCEPT ![t] = g]
        \/ /\ serverName' = serverName /\ group[t] = "registering"
           /\ group' = [group EXCEPT ![t] = "established"]
    BY <1>2, SMTT(30) DEF ServerStep, MdnsStep, MdnsCallback, StartMdns, StopMdns, MdnsStopped,
       MdnsLoopEnds, ClientRunning, HostNameChanges, AvahiFailure, GroupEstablished,
       GroupCollision, CreateServices, FillGroup, KeepGroup, MdnsTypeOK, GroupState
  <2>2. UNCHANGED resolving
    BY <1>2 DEF ServerStep, listVars
  <2> QED
    BY <2>1, <2>2 DEF NamedWhenSeen, MdnsTypeOK
<1>3. CASE DismissWorker \/ \E t \in Servers : DismissWorkers(t)
  BY <1>3 DEF DismissWorker, DismissWorkers, UnchangedButRegistration, mdnsVars, NamedWhenSeen
<1> QED
  BY <1>1, <1>2, <1>3 DEF Next

\* A step of the server that dismisses the worker keeps all of the worker's variables
\* but one, and those of every service.
LEMMA DismissingType ==
  ASSUME TypeOK, DismissWorker \/ \E s \in Servers : DismissWorkers(s)
  PROVE  TypeOK'
<1>1. /\ UnchangedButRegistration
      /\ UNCHANGED <<mdnsThread, client, group, serverName, drawn>>
  BY DEF DismissWorker, DismissWorkers, mdnsVars
<1>2. registration' \in Registration
  BY DEF DismissWorker, DismissWorkers, SendBye, Registration, TypeOK, ListTypeOK
<1>3. serverMain' \in [Servers -> MainPlace]
  BY DEF DismissWorker, DismissWorkers, mdnsVars, MainPlace, TypeOK, MdnsTypeOK
<1> QED
  BY <1>1, <1>2, <1>3
     DEF UnchangedButRegistration, TypeOK, MdnsTypeOK, ListTypeOK, Listed

LEMMA ListTypeStep ==
  ASSUME ListTypeOK, NamedWhenSeen, WorkerStep
  PROVE  ListTypeOK'
<1>1. CASE Main
  BY <1>1 DEF Main, ListTypeOK, Place, LoopPlace, Listed
<1>2. CASE AcquireConnection
  BY <1>2 DEF AcquireConnection, ListTypeOK, Place, Listed
<1>3. CASE NextConnection
  BY <1>3 DEF NextConnection, ListTypeOK, Place, Listed
<1>4. CASE ConnectTo
  BY <1>4 DEF ConnectTo, ListTypeOK, Place, Registration, Listed
<1>5. CASE RunEnds
  BY <1>5 DEF RunEnds, ListTypeOK, Place, Registration, Listed
<1>6. CASE PopConnection
  <2>1. Listed' \subseteq Ids /\ serverDetails' \in [Listed' -> Details]
    <3>1. CASE UNCHANGED serverDetails
      BY <3>1 DEF ListTypeOK, Listed
    <3>2. ASSUME NEW id \in Ids,
                 serverDetails' = [name \in Listed \ {id} |-> serverDetails[name]]
          PROVE  Listed' \subseteq Ids /\ serverDetails' \in [Listed' -> Details]
      BY <3>2, EntryRemoved DEF ListTypeOK
    <3> QED
      BY <1>6, <3>1, <3>2 DEF PopConnection
  <2> QED
    BY <1>6, <2>1 DEF PopConnection, ListTypeOK, Place
<1>7. CASE Return
  BY <1>7 DEF Return, ListTypeOK, Place, Listed
<1>8. CASE DiscoveryFailure
  BY <1>8 DEF DiscoveryFailure, ListTypeOK, LoopPlace, Listed
<1>9. CASE DiscoveryEnds
  BY <1>9 DEF DiscoveryEnds, ListTypeOK, LoopPlace, Listed
<1>10. ASSUME NEW s \in Servers, NEW r \in Routes, BrowserNew(s, r)
       PROVE  ListTypeOK'
  BY <1>10 DEF BrowserNew, ListTypeOK, Listed
<1>11. ASSUME NEW s \in Servers, NEW r \in Routes, BrowserRemove(s, r)
       PROVE  ListTypeOK'
  BY <1>11 DEF BrowserRemove, ListTypeOK, Listed
<1>12. ASSUME NEW s \in Servers, NEW r \in Routes, ServerFound(s, r)
       PROVE  ListTypeOK'
  <2>1. serverName[s] \in Ids
    BY <1>12 DEF ServerFound, NamedWhenSeen
  <2>2. [server |-> s, route |-> r] \in Details
    BY DEF Details
  <2>3. /\ Listed' = Listed \cup {serverName[s]}
        /\ serverDetails' \in [Listed' -> Details]
        /\ connectionSemaphore' \in Nat
    BY <1>12, <2>1, <2>2, EntryAdded DEF ServerFound
  <2>4. polling' \in LoopPlace /\ resolving' \in SUBSET (Servers \X Routes)
    BY <1>12 DEF ServerFound, AfterFound, ListTypeOK, LoopPlace
  <2> QED
    BY <1>12, <2>1, <2>3, <2>4 DEF ServerFound, ListTypeOK
<1>13. ASSUME NEW s \in Servers, NEW r \in Routes, ResolverFailure(s, r)
       PROVE  ListTypeOK'
  BY <1>13 DEF ResolverFailure, ListTypeOK, Listed
<1> QED
  BY <1>1, <1>2, <1>3, <1>4, <1>5, <1>6, <1>7, <1>8, <1>9, <1>10, <1>11, <1>12, <1>13
     DEF WorkerStep, MainStep, DiscoveryStep

\* TypeOK, for Discovery.
THEOREM TypeCorrect == Spec => [](TypeOK /\ NamedWhenSeen)
<1>1. Init => TypeOK /\ NamedWhenSeen
  <2> SUFFICES ASSUME Init PROVE TypeOK /\ NamedWhenSeen
    OBVIOUS
  <2>1. MdnsTypeOK
    BY DEF Init, MdnsInit, MdnsTypeOK, MainPlace, LoopPlace, ClientState, GroupState
  <2>2. Listed = {} /\ serverDetails \in [Listed -> Details]
    BY EmptyList DEF Init, ListInit
  <2>3. ListTypeOK
    BY <2>2 DEF Init, ListInit, ListTypeOK, Place, LoopPlace, Registration
  <2>4. NamedWhenSeen
    BY DEF Init, MdnsInit, ListInit, NamedWhenSeen
  <2> QED
    BY <2>1, <2>3, <2>4 DEF TypeOK
<1>2. TypeOK /\ NamedWhenSeen /\ [Next]_vars => TypeOK' /\ NamedWhenSeen'
  <2> SUFFICES ASSUME TypeOK, NamedWhenSeen, [Next]_vars
               PROVE  TypeOK' /\ NamedWhenSeen'
    OBVIOUS
  <2>1. CASE WorkerStep
    <3>1. MdnsTypeOK'
      BY <2>1 DEF WorkerStep, mdnsVars, TypeOK, MdnsTypeOK
    <3>2. ListTypeOK'
      BY <2>1, ListTypeStep DEF TypeOK
    <3>3. NamedWhenSeen'
      BY <2>1, NamedStep DEF TypeOK, Next
    <3> QED
      BY <3>1, <3>2, <3>3 DEF TypeOK
  <2>2. ASSUME NEW s \in Servers, ServerStep(s)
        PROVE  TypeOK' /\ NamedWhenSeen'
    <3>1. MdnsTypeOK'
      BY <2>2, MdnsTypeStep DEF ServerStep, TypeOK
    <3>2. ListTypeOK'
      BY <2>2 DEF ServerStep, listVars, TypeOK, ListTypeOK, Listed
    <3>3. NamedWhenSeen'
      BY <2>2, NamedStep DEF TypeOK, Next
    <3> QED
      BY <3>1, <3>2, <3>3 DEF TypeOK
  <2>3. CASE UNCHANGED vars
    BY <2>3 DEF vars, mdnsVars, listVars, TypeOK, MdnsTypeOK, ListTypeOK, NamedWhenSeen, Listed
  <2>4. CASE DismissWorker \/ \E s \in Servers : DismissWorkers(s)
    <3>1. TypeOK'
      BY <2>4, DismissingType
    <3>2. NamedWhenSeen'
      BY <2>4, NamedStep DEF TypeOK, Next
    <3> QED
      BY <3>1, <3>2
  <2> QED
    BY <2>1, <2>2, <2>3, <2>4 DEF Next
<1> QED
  BY <1>1, <1>2, PTL DEF Spec
-----------------------------------------------------------------------------
(* The list and the semaphore *)

LEMMA CountWithEntry ==
  ASSUME IsFiniteSet(Listed), NEW id \in Ids, id \notin Listed
  PROVE  /\ IsFiniteSet(Listed \cup {id})
         /\ Cardinality(Listed \cup {id}) = Cardinality(Listed) + 1
  BY FS_AddElement

LEMMA CountWithoutEntry ==
  ASSUME IsFiniteSet(Listed), NEW id \in Listed
  PROVE  /\ IsFiniteSet(Listed \ {id})
         /\ Cardinality(Listed \ {id}) = Cardinality(Listed) - 1
  BY FS_RemoveElement

LEMMA CountedEntryExists ==
  ASSUME IsFiniteSet(Listed), ListTypeOK, connectionSemaphore + 1 = Cardinality(Listed)
  PROVE  Listed # {}
<1>1. Cardinality(Listed) # 0
  BY DEF ListTypeOK
<1> QED
  BY <1>1, FS_EmptySet

\* What the servers do changes nothing of the worker but its registration.
LEMMA OtherSteps ==
  ASSUME [Next]_vars
  PROVE  WorkerStep \/ UnchangedButRegistration
  BY DEF Next, ServerStep, DismissWorker, DismissWorkers, UnchangedButRegistration, vars,
     listVars

\* The steps of the main thread keep the list and the semaphore together.
LEMMA MainKeepsInv ==
  ASSUME ListTypeOK, DiscoveryInv, MainStep
  PROVE  DiscoveryInv'
<1> USE DEF DiscoveryInv, ConnectionsCounted, ServedIsListed
<1>1. CASE Main
  BY <1>1 DEF Main, Listed
<1>2. CASE AcquireConnection
  BY <1>2 DEF AcquireConnection, ListTypeOK, Listed
<1>3. CASE NextConnection
  BY <1>3, CountedEntryExists DEF NextConnection, IsFirst, Listed
<1>4. CASE ConnectTo
  BY <1>4 DEF ConnectTo, Listed
<1>5. CASE RunEnds
  BY <1>5 DEF RunEnds, Listed
<1>6. CASE PopConnection
  <2>1. Listed # {}
    BY <1>6, CountedEntryExists DEF PopConnection
  <2>2. PICK id \in Ids :
          /\ IsFirst(id)
          /\ serverDetails' = [name \in Listed \ {id} |-> serverDetails[name]]
          /\ place' = IF persist THEN "acquire" ELSE "returned"
    BY <1>6, <2>1 DEF PopConnection
  <2>3. Listed' = Listed \ {id}
    BY <2>2, EntryRemoved
  <2>4. /\ IsFiniteSet(Listed \ {id})
        /\ Cardinality(Listed \ {id}) = Cardinality(Listed) - 1
    BY <2>2, CountWithoutEntry DEF IsFirst
  <2>5. /\ connectionSemaphore + 1 = Cardinality(Listed)
        /\ UNCHANGED <<connectionSemaphore, persist, polling>>
    BY <1>6 DEF PopConnection
  <2> QED
    BY <2>2, <2>3, <2>4, <2>5 DEF ListTypeOK
<1>7. CASE Return
  BY <1>7 DEF Return, Listed
<1> QED
  BY <1>1, <1>2, <1>3, <1>4, <1>5, <1>6, <1>7 DEF MainStep

\* So do the callbacks of the discovery thread.
LEMMA DiscoveryKeepsInv ==
  ASSUME ListTypeOK, NamedWhenSeen, DiscoveryInv, DiscoveryStep
  PROVE  DiscoveryInv'
<1> USE DEF DiscoveryInv, ConnectionsCounted, ServedIsListed
<1>1. CASE DiscoveryFailure
  BY <1>1 DEF DiscoveryFailure, Browses, Listed
<1>2. CASE DiscoveryEnds
  BY <1>2 DEF DiscoveryEnds, Listed
<1>3. ASSUME NEW s \in Servers, NEW r \in Routes,
             BrowserNew(s, r) \/ BrowserRemove(s, r) \/ ResolverFailure(s, r)
      PROVE  DiscoveryInv'
  BY <1>3 DEF BrowserNew, BrowserRemove, ResolverFailure, Listed
<1>4. ASSUME NEW s \in Servers, NEW r \in Routes, ServerFound(s, r)
      PROVE  DiscoveryInv'
  <2>1. serverName[s] \in Ids
    BY <1>4 DEF ServerFound, NamedWhenSeen
  <2>2. [server |-> s, route |-> r] \in Details
    BY DEF Details
  <2>3. Listed' = Listed \cup {serverName[s]}
    BY <1>4, <2>1, <2>2, EntryAdded DEF ServerFound
  <2>4. /\ UNCHANGED <<place, persist, serving>>
        /\ polling = "loop"
        /\ polling' = IF persist THEN "loop" ELSE "quit"
    BY <1>4 DEF ServerFound, Browses, AfterFound
  <2>5. ~ persist => Listed = {}
    BY <2>4
  <2>6. CASE serverName[s] \in Listed
    <3>1. Listed' = Listed /\ UNCHANGED connectionSemaphore
      BY <1>4, <2>3, <2>6 DEF ServerFound, AddServer
    <3> QED
      BY <2>4, <2>5, <3>1
  <2>7. CASE serverName[s] \notin Listed
    <3>1. connectionSemaphore' = connectionSemaphore + 1
      BY <1>4, <2>7 DEF ServerFound, AddServer
    <3>2. /\ IsFiniteSet(Listed')
          /\ Cardinality(Listed') = Cardinality(Listed) + 1
      BY <2>1, <2>3, <2>7, CountWithEntry
    <3>3. ConnectionsCounted'
      BY <2>4, <3>1, <3>2, FS_CardinalityType DEF ListTypeOK
    <3>4. \A id, other \in Listed' : ~ persist' => id = other
      BY <2>3, <2>4, <2>5
    <3> QED
      BY <2>3, <2>4, <3>2, <3>3, <3>4
  <2> QED
    BY <2>6, <2>7
<1> QED
  BY <1>1, <1>2, <1>3, <1>4 DEF DiscoveryStep

\* DiscoveryInv, for Discovery.
THEOREM ListInvariant == Spec => []DiscoveryInv
<1>1. Init => DiscoveryInv
  <2> SUFFICES ASSUME Init PROVE DiscoveryInv
    OBVIOUS
  <2>1. Listed = {}
    BY EmptyList DEF Init, ListInit
  <2> QED
    BY <2>1, FS_EmptySet
       DEF Init, ListInit, DiscoveryInv, ConnectionsCounted, ServedIsListed
<1>2. /\ TypeOK /\ NamedWhenSeen
      /\ DiscoveryInv /\ [Next]_vars
      => DiscoveryInv'
  <2> SUFFICES ASSUME TypeOK, NamedWhenSeen, DiscoveryInv, [Next]_vars
               PROVE  DiscoveryInv'
    OBVIOUS
  <2>1. CASE WorkerStep
    BY <2>1, MainKeepsInv, DiscoveryKeepsInv DEF WorkerStep, TypeOK
  <2>2. CASE UnchangedButRegistration
    BY <2>2 DEF UnchangedButRegistration, DiscoveryInv, ConnectionsCounted, ServedIsListed,
       Listed
  <2> QED
    BY <2>1, <2>2, OtherSteps
<1> QED
  BY <1>1, <1>2, TypeCorrect, PTL DEF Spec

\* ConnectionsCounted, for Discovery.
THEOREM ConnectionsAreCounted == Spec => []ConnectionsCounted
<1>1. DiscoveryInv => ConnectionsCounted
  BY DEF DiscoveryInv
<1> QED
  BY <1>1, ListInvariant, PTL

\* ServedIsListed, for Discovery.
THEOREM ServedStaysListed == Spec => []ServedIsListed
<1>1. DiscoveryInv => ServedIsListed
  BY DEF DiscoveryInv
<1> QED
  BY <1>1, ListInvariant, PTL

\* PopsTheServed, for Discovery: with one entry at most, the first is the one served.
THEOREM PopsTheServedServer == Spec => PopsTheServed
<1>1. TypeOK /\ DiscoveryInv /\ [Next]_vars
      => [place = "pop" /\ place' = "returned" => serving \notin Listed']_vars
  <2> SUFFICES ASSUME TypeOK, DiscoveryInv, [Next]_vars, place = "pop", place' = "returned"
               PROVE  serving \notin Listed'
    OBVIOUS
  <2>1. PopConnection
    BY OtherSteps
       DEF WorkerStep, MainStep, DiscoveryStep, Main, AcquireConnection,
           NextConnection, ConnectTo, RunEnds, Return, DiscoveryFailure, DiscoveryEnds,
           BrowserNew, BrowserRemove, ServerFound, ResolverFailure, UnchangedButRegistration
  <2>2. PICK id \in Ids :
          /\ IsFirst(id)
          /\ serverDetails' = [name \in Listed \ {id} |-> serverDetails[name]]
          /\ ~ persist
    BY <2>1 DEF PopConnection
  <2>3. Listed' = Listed \ {id}
    BY <2>2, EntryRemoved DEF TypeOK
  <2>4. serving = id
    BY <2>2 DEF DiscoveryInv, ServedIsListed, IsFirst
  <2> QED
    BY <2>3, <2>4
<1> QED
  BY <1>1, TypeCorrect, ListInvariant, PTL DEF Spec, PopsTheServed

\* The two ends a worker may come to other than its own: started without an argument,
\* or no EHLO came in time, from a server that was done or slow.
OnlyOtherEnds ==
  [][place' = "terminated" /\ place # "terminated" =>
       \/ place = "main" /\ Len(arguments) < 2
       \/ place = "connect" /\ (serverMain[Served] # "serve" \/ "slow" \in Faults)]_vars

\* What ConnectionsCounted is for: no interleaving of the discovery thread with
\* next_connection and pop_connection makes one of their assertions
\* (worker.cpp:352 and 361) end the process.
THEOREM ListAssertionsHold == Spec => OnlyOtherEnds
<1>1. TypeOK /\ DiscoveryInv /\ [Next]_vars
      => [place' = "terminated" /\ place # "terminated" =>
            \/ place = "main" /\ Len(arguments) < 2
            \/ place = "connect" /\ (serverMain[Served] # "serve" \/ "slow" \in Faults)]_vars
  <2> SUFFICES ASSUME TypeOK, DiscoveryInv, [Next]_vars,
                      place' = "terminated", place # "terminated"
               PROVE  \/ place = "main" /\ Len(arguments) < 2
                      \/ place = "connect" /\ (serverMain[Served] # "serve" \/ "slow" \in Faults)
    OBVIOUS
  <2>1. MainStep
    BY OtherSteps
       DEF WorkerStep, DiscoveryStep, DiscoveryFailure, DiscoveryEnds, BrowserNew,
           BrowserRemove, ServerFound, ResolverFailure, UnchangedButRegistration
  <2>2. CASE NextConnection \/ PopConnection
    <3>1. connectionSemaphore + 1 = Cardinality(Listed)
      BY <2>2 DEF NextConnection, PopConnection, DiscoveryInv, ConnectionsCounted
    <3>2. Listed # {}
      BY <3>1, CountedEntryExists DEF DiscoveryInv, TypeOK
    <3> QED
      BY <2>2, <3>2 DEF NextConnection, PopConnection
  <2>3. CASE Main
    BY <2>3 DEF Main
  <2>4. CASE ConnectTo
    BY <2>4 DEF ConnectTo
  <2>5. ~ (AcquireConnection \/ RunEnds \/ Return)
    BY DEF AcquireConnection, RunEnds, Return
  <2> QED
    BY <2>1, <2>2, <2>3, <2>4, <2>5 DEF MainStep
<1> QED
  BY <1>1, TypeCorrect, ListInvariant, PTL DEF Spec, OnlyOtherEnds

\* A worker that does not persist has told its discovery thread to quit by the time it
\* returns from run_jobs.
QuitBeforeReturn ==
  place \in {"returned", "exited"} => ~ persist /\ polling \in {"quit", "freed"}

\* The main thread waits on connectionSemaphore only while no server is listed, and for
\* the discovery thread only when that was told to quit.
MainWaitsForSome ==
  /\ place = "acquire" /\ Listed # {} => connectionSemaphore > 0
  /\ place = "returned" => polling \in {"quit", "freed"}

LEMMA QuitStep ==
  ASSUME TypeOK, DiscoveryInv, QuitBeforeReturn, [Next]_vars
  PROVE  QuitBeforeReturn'
<1> USE DEF QuitBeforeReturn
<1>1. CASE PopConnection
  <2>1. Listed # {}
    BY <1>1, CountedEntryExists
       DEF PopConnection, DiscoveryInv, ConnectionsCounted, TypeOK
  <2>2. ~ persist => polling \in {"quit", "freed"}
    BY <2>1 DEF DiscoveryInv, TypeOK, ListTypeOK, LoopPlace
  <2> QED
    BY <1>1, <2>2 DEF PopConnection
<1>2. CASE MainStep /\ ~ PopConnection
  BY <1>2 DEF MainStep, Main, AcquireConnection, NextConnection, ConnectTo, RunEnds, Return
<1>3. CASE DiscoveryStep
  BY <1>3 DEF DiscoveryStep, DiscoveryFailure, DiscoveryEnds, BrowserNew, BrowserRemove,
              ServerFound, ResolverFailure, Browses
<1>4. CASE UnchangedButRegistration
  BY <1>4 DEF UnchangedButRegistration
<1> QED
  BY <1>1, <1>2, <1>3, <1>4, OtherSteps DEF WorkerStep

\* No found server is slept on, whenever its entry is added (add_server, next_connection),
\* and main() joins a discovery thread that is on its way out; a worker that persists
\* never gets there.
THEOREM WorkerNeverStuck == Spec => []MainWaitsForSome
<1>1. Init => QuitBeforeReturn
  BY DEF Init, ListInit, QuitBeforeReturn
<1>2. TypeOK /\ DiscoveryInv /\ QuitBeforeReturn => MainWaitsForSome
  <2> SUFFICES ASSUME TypeOK, DiscoveryInv, QuitBeforeReturn, place = "acquire", Listed # {}
               PROVE  connectionSemaphore > 0
    BY DEF QuitBeforeReturn, MainWaitsForSome
  <2>1. connectionSemaphore \in Nat /\ connectionSemaphore + 0 = Cardinality(Listed)
    BY DEF DiscoveryInv, ConnectionsCounted, TypeOK, ListTypeOK
  <2>2. Cardinality(Listed) # 0
    BY FS_EmptySet DEF DiscoveryInv
  <2> QED
    BY <2>1, <2>2
<1>3. TypeOK /\ DiscoveryInv /\ QuitBeforeReturn /\ [Next]_vars => QuitBeforeReturn'
  BY QuitStep
<1> QED
  BY <1>1, <1>2, <1>3, TypeCorrect, ListInvariant, PTL DEF Spec

-----------------------------------------------------------------------------
(* The end of a server *)

\* Until the server is to stop it, its service thread is in its loop.
WorksWithLoop ==
  /\ ServerStopsCleanly
  /\ \A s \in Servers : serverMain[s] \in {"serve", "dismissed"} => mdnsThread[s] = "loop"

LEMMA LoopKept ==
  ASSUME "start" \notin Faults, "failure" \notin Faults,
         MdnsTypeOK, WorksWithLoop, NEW s \in Servers, MdnsStep(s)
  PROVE  WorksWithLoop'
<1> USE DEF WorksWithLoop, ServerStopsCleanly, MdnsTypeOK
<1>1. CASE StartMdns(s)
  BY <1>1 DEF StartMdns
<1>2. CASE StopMdns(s)
  BY <1>2 DEF StopMdns
<1>3. CASE MdnsStopped(s)
  BY <1>3 DEF MdnsStopped
<1>4. CASE MdnsLoopEnds(s)
  BY <1>4 DEF MdnsLoopEnds
<1>5. CASE MdnsCallback(s)
  BY <1>5 DEF MdnsCallback, ClientRunning, HostNameChanges, AvahiFailure, GroupEstablished,
     GroupCollision
<1> QED
  BY <1>1, <1>2, <1>3, <1>4, <1>5 DEF MdnsStep

\* ServerStopsCleanly, where Avahi was there when the servers started and did not fail.
THEOREM CleanStop ==
  ASSUME "start" \notin Faults, "failure" \notin Faults
  PROVE  Spec => []ServerStopsCleanly
<1>1. Init => WorksWithLoop
  BY DEF Init, MdnsInit, WorksWithLoop, ServerStopsCleanly
<1>2. TypeOK /\ WorksWithLoop /\ [Next]_vars => WorksWithLoop'
  <2> SUFFICES ASSUME TypeOK, WorksWithLoop, [Next]_vars
               PROVE  WorksWithLoop'
    OBVIOUS
  <2>1. CASE UNCHANGED mdnsVars
    BY <2>1 DEF mdnsVars, WorksWithLoop, ServerStopsCleanly
  <2>2. ASSUME NEW s \in Servers, MdnsStep(s)
        PROVE  WorksWithLoop'
    BY <2>2, LoopKept DEF TypeOK
  <2>3. ASSUME NEW s \in Servers, DismissWorkers(s)
        PROVE  WorksWithLoop'
    BY <2>3 DEF DismissWorkers, WorksWithLoop, ServerStopsCleanly, TypeOK, MdnsTypeOK
  <2> QED
    BY <2>1, <2>2, <2>3 DEF Next, WorkerStep, ServerStep, DismissWorker, vars
<1>3. WorksWithLoop => ServerStopsCleanly
  BY DEF WorksWithLoop
<1> QED
  BY <1>1, <1>2, <1>3, TypeCorrect, PTL DEF Spec
=============================================================================
