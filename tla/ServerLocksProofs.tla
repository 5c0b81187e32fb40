--------------------------- MODULE ServerLocksProofs ---------------------------
(***************************************************************************)
(* The server's threads hold its mutexes in one order, touch what they     *)
(* share one at a time but for the known exceptions, and never wait for    *)
(* each other.                                                             *)
(*                                                                         *)
(* The argument is a proof outline of each operation: how often each mutex *)
(* is held before each of its actions.  An outline is kept when two pieces *)
(* of code follow each other and when one is put under a mutex, so every   *)
(* operation has one because its parts have; and what is left of an        *)
(* operation has the rest of its outline.                                  *)
(***************************************************************************)
EXTENDS ServerLocks, TLAPS

Shared == {"worker_queues", "enqueued_work"}
SocketNames == {"work_socket", "communication_socket"}

Actions ==
  {Lock(m) : m \in Mutexes} \cup {Unlock(m) : m \in Mutexes}
    \cup {Use(object) : object \in Shared}
    \cup {Send(socket) : socket \in SocketNames}
    \cup {Receive(socket) : socket \in SocketNames}

-----------------------------------------------------------------------------
(* Outlines *)

\* How often a thread holds each mutex: never work_mutex without worker_mutex.
Levels ==
  {held \in [Mutexes -> Nat] : held["work_mutex"] > 0 => held["worker_mutex"] > 0}

Nothing == [m \in Mutexes |-> 0]

\* What is held after action a.
After(a, held) ==
  [m \in Mutexes |-> IF a.on # m THEN held[m]
                     ELSE IF a.do = "lock" THEN held[m] + 1
                     ELSE IF a.do = "unlock" THEN held[m] - 1
                     ELSE held[m]]

\* The objects in free, the mutexes, and a socket to receive on may be touched by
\* a thread that holds nothing; the others need worker_mutex.
Careful(a, held, free) ==
  a.do \in {"use", "send"} /\ a.on \notin free => held["worker_mutex"] > 0

\* h is what is held before each action of code, and at last.
IsOutline(h, code, free) ==
  /\ h \in [1..(Len(code) + 1) -> Levels]
  /\ \A i \in 1..Len(code) : /\ Careful(code[i], h[i], free)
                             /\ h[i + 1] = After(code[i], h[i])

\* code, begun with from held, is careful throughout and leaves to held.
Outlined(code, from, to, free) ==
  /\ code \in Seq(Actions)
  /\ \E h : IsOutline(h, code, free) /\ h[1] = from /\ h[Len(code) + 1] = to

\* The code of an operation: what it locks it unlocks.
Balanced(code, held) == Outlined(code, held, held, {})

\* No code is careful.
LEMMA OutlineOfNothing ==
  ASSUME NEW held \in Levels, NEW free
  PROVE  Outlined(<<>>, held, held, free)
<1> DEFINE h == [i \in 1..1 |-> held]
<1>1. <<>> \in Seq(Actions) /\ Len(<<>>) = 0
  OBVIOUS
<1>2. IsOutline(h, <<>>, free) /\ h[1] = held
  BY <1>1 DEF IsOutline
<1> QED
  BY <1>1, <1>2 DEF Outlined

\* One action.
LEMMA OutlineOfAction ==
  ASSUME NEW a \in Actions, NEW from \in Levels, NEW free,
         Careful(a, from, free), After(a, from) \in Levels
  PROVE  Outlined(<<a>>, from, After(a, from), free)
<1> DEFINE to == After(a, from)
           h == [i \in 1..2 |-> IF i = 1 THEN from ELSE to]
<1>1. <<a>> \in Seq(Actions) /\ Len(<<a>>) = 1 /\ <<a>>[1] = a
  OBVIOUS
<1>2. h \in [1..2 -> Levels] /\ h[1] = from /\ h[2] = to
  OBVIOUS
<1> HIDE DEF h
<1>3. IsOutline(h, <<a>>, free)
  BY <1>1, <1>2 DEF IsOutline
<1> QED
  BY <1>1, <1>2, <1>3 DEF Outlined

\* Two pieces of code, one after the other.
LEMMA OutlineOfSequence ==
  ASSUME NEW first, NEW rest, NEW from, NEW between, NEW to, NEW free,
         Outlined(first, from, between, free), Outlined(rest, between, to, free)
  PROVE  Outlined(first \o rest, from, to, free)
<1>1. /\ first \in Seq(Actions) /\ rest \in Seq(Actions)
      /\ Len(first) \in Nat /\ Len(rest) \in Nat
  BY DEF Outlined
<1>2. PICK g : IsOutline(g, first, free) /\ g[1] = from /\ g[Len(first) + 1] = between
  BY DEF Outlined
<1>3. PICK k : IsOutline(k, rest, free) /\ k[1] = between /\ k[Len(rest) + 1] = to
  BY DEF Outlined
<1> DEFINE n == Len(first)
           l == Len(rest)
           code == first \o rest
           h == [i \in 1..(n + l + 1) |-> IF i <= n THEN g[i] ELSE k[i - n]]
<1>4. /\ code \in Seq(Actions) /\ Len(code) = n + l
      /\ \A i \in 1..n : code[i] = first[i]
      /\ \A i \in (n + 1)..(n + l) : code[i] = rest[i - n]
  BY <1>1
<1>5. n \in Nat /\ l \in Nat
  BY <1>1
<1>6. /\ g \in [1..(n + 1) -> Levels] /\ k \in [1..(l + 1) -> Levels]
      /\ g[n + 1] = k[1]
  BY <1>2, <1>3 DEF IsOutline
<1>7. \A i \in 1..(n + l + 1) : h[i] \in Levels
  BY <1>5, <1>6
<1>8. \A i \in 1..(n + 1) : h[i] = g[i]
  BY <1>5, <1>6
<1>9. \A i \in (n + 1)..(n + l + 1) : h[i] = k[i - n]
  BY <1>5, <1>6
<1>10. h \in [1..(n + l + 1) -> Levels]
  BY <1>7
<1>11. h[1] = from /\ h[n + l + 1] = to
  <2>1. 1 \in 1..(n + 1) /\ n + l + 1 \in (n + 1)..(n + l + 1) /\ (n + l + 1) - n = l + 1
    BY <1>5
  <2> QED
    BY <2>1, <1>2, <1>3, <1>8, <1>9
<1> HIDE DEF n, l, code, h
<1>12. ASSUME NEW i \in 1..(n + l)
       PROVE  /\ Careful(code[i], h[i], free)
              /\ h[i + 1] = After(code[i], h[i])
  <2>1. CASE i <= n
    <3>1. i \in 1..n /\ i \in 1..(n + 1) /\ i + 1 \in 1..(n + 1)
      BY <1>5, <2>1
    <3>2. Careful(first[i], g[i], free) /\ g[i + 1] = After(first[i], g[i])
      BY <1>2, <3>1 DEF IsOutline, n
    <3> QED
      BY <3>1, <3>2, <1>4, <1>8
  <2>2. CASE i > n
    <3>1. /\ i - n \in 1..l
          /\ i \in (n + 1)..(n + l) /\ i \in (n + 1)..(n + l + 1)
          /\ i + 1 \in (n + 1)..(n + l + 1) /\ (i + 1) - n = (i - n) + 1
      BY <1>5, <2>2
    <3>2. /\ Careful(rest[i - n], k[i - n], free)
          /\ k[(i - n) + 1] = After(rest[i - n], k[i - n])
      BY <1>3, <3>1 DEF IsOutline, l
    <3> QED
      BY <3>1, <3>2, <1>4, <1>9
  <2> QED
    BY <1>5, <2>1, <2>2
<1>13. IsOutline(h, code, free)
  BY <1>4, <1>10, <1>12 DEF IsOutline
<1> QED
  BY <1>4, <1>11, <1>13 DEF Outlined, code

\* What is left after the first action.
LEMMA OutlineOfRest ==
  ASSUME NEW code, NEW from, NEW to, NEW free,
         Outlined(code, from, to, free), code # <<>>
  PROVE  /\ Head(code) \in Actions
         /\ from \in Levels
         /\ Careful(Head(code), from, free)
         /\ After(Head(code), from) \in Levels
         /\ Outlined(Tail(code), After(Head(code), from), to, free)
<1>1. code \in Seq(Actions)
  BY DEF Outlined
<1>2. PICK h : IsOutline(h, code, free) /\ h[1] = from /\ h[Len(code) + 1] = to
  BY DEF Outlined
<1> DEFINE n == Len(code)
           k == [i \in 1..n |-> h[i + 1]]
<1>3. /\ n \in Nat /\ n >= 1 /\ Head(code) = code[1] /\ Head(code) \in Actions
      /\ Tail(code) \in Seq(Actions) /\ Len(Tail(code)) = n - 1
      /\ \A i \in 1..(n - 1) : Tail(code)[i] = code[i + 1]
  BY <1>1
<1>4. h \in [1..(n + 1) -> Levels]
  BY <1>2 DEF IsOutline
<1>5. 1 \in 1..n
  BY <1>3
<1>6. Careful(code[1], h[1], free) /\ h[1 + 1] = After(code[1], h[1])
  BY <1>2, <1>5 DEF IsOutline
<1>7. k \in [1..n -> Levels] /\ k[1] = h[2] /\ k[n] = h[n + 1]
  BY <1>3, <1>4
<1>8. \A i \in 1..(n - 1) : k[i] = h[i + 1] /\ k[i + 1] = h[(i + 1) + 1]
  BY <1>3
<1> HIDE DEF n, k
<1>9. ASSUME NEW i \in 1..(n - 1)
      PROVE  /\ Careful(Tail(code)[i], k[i], free)
             /\ k[i + 1] = After(Tail(code)[i], k[i])
  <2>1. i + 1 \in 1..n
    BY <1>3
  <2>2. Careful(code[i + 1], h[i + 1], free) /\ h[(i + 1) + 1] = After(code[i + 1], h[i + 1])
    BY <1>2, <2>1 DEF IsOutline, n
  <2> QED
    BY <2>2, <1>3, <1>8
<1>10. IsOutline(k, Tail(code), free)
  <2>1. (n - 1) + 1 = n
    BY <1>3
  <2> QED
    BY <2>1, <1>3, <1>7, <1>9 DEF IsOutline
<1>11. 1 + 1 = 2 /\ Len(Tail(code)) + 1 = n
  BY <1>3
<1>12. from \in Levels
  BY <1>2, <1>3, <1>4
<1>13. After(Head(code), from) = k[1] /\ k[1] \in Levels
  BY <1>2, <1>3, <1>5, <1>6, <1>7, <1>11
<1>14. Outlined(Tail(code), k[1], to, free)
  BY <1>2, <1>3, <1>7, <1>10, <1>11 DEF Outlined, n
<1> QED
  BY <1>2, <1>3, <1>6, <1>12, <1>13, <1>14

\* Code that locks nothing, where what it touches may be touched.
LEMMA OutlineOfTouches ==
  ASSUME NEW code \in Seq(Actions), NEW held \in Levels, NEW free,
         \A i \in 1..Len(code) : /\ code[i].do \notin {"lock", "unlock"}
                                 /\ Careful(code[i], held, free)
  PROVE  Outlined(code, held, held, free)
<1> DEFINE n == Len(code)
           h == [i \in 1..(n + 1) |-> held]
<1>1. n \in Nat
  OBVIOUS
<1>2. \A i \in 1..n : h[i] = held /\ h[i + 1] = held
  BY <1>1
<1>3. h \in [1..(n + 1) -> Levels] /\ h[1] = held /\ h[n + 1] = held
  BY <1>1
<1> HIDE DEF h
<1>4. \A i \in 1..n : After(code[i], held) = held
  BY DEF After, Levels
<1>5. IsOutline(h, code, free)
  BY <1>2, <1>3, <1>4 DEF IsOutline
<1> QED
  BY <1>3, <1>5 DEF Outlined

\* Code with a mutex held, in the order of the two.
LEMMA OutlineUnderMutex ==
  ASSUME NEW m \in Mutexes, NEW code, NEW held \in Levels,
         m = "work_mutex" => held["worker_mutex"] > 0,
         Balanced(code, [held EXCEPT ![m] = @ + 1])
  PROVE  Balanced(Under(m, code), held)
<1> DEFINE inside == [held EXCEPT ![m] = @ + 1]
<1>1. held \in [Mutexes -> Nat]
  BY DEF Levels
<1>2. inside \in Levels
  BY <1>1 DEF Levels, Mutexes
<1>3. After(Lock(m), held) = inside /\ After(Unlock(m), inside) = held
  <2>1. /\ Lock(m).on = m /\ Lock(m).do = "lock"
        /\ Unlock(m).on = m /\ Unlock(m).do = "unlock"
    BY DEF Lock, Unlock
  <2>2. After(Lock(m), held) = [k \in Mutexes |-> inside[k]]
    BY <1>1, <2>1 DEF After
  <2>3. After(Unlock(m), inside) = [k \in Mutexes |-> held[k]]
    BY <1>1, <2>1 DEF After
  <2> QED
    BY <1>1, <2>2, <2>3
<1>4. Lock(m) \in Actions /\ Unlock(m) \in Actions
  BY DEF Actions
<1>5. Careful(Lock(m), held, {}) /\ Careful(Unlock(m), inside, {})
  BY DEF Careful, Lock, Unlock
<1> HIDE DEF inside
<1>6. Outlined(<<Lock(m)>>, held, inside, {})
  BY <1>2, <1>3, <1>4, <1>5, OutlineOfAction
<1>7. Outlined(<<Unlock(m)>>, inside, held, {})
  BY <1>2, <1>3, <1>4, <1>5, OutlineOfAction
<1>8. Outlined(code, inside, inside, {})
  BY DEF Balanced, inside
<1>9. Outlined(<<Lock(m)>> \o code, held, inside, {})
  BY <1>6, <1>8, OutlineOfSequence
<1> QED
  BY <1>7, <1>9, OutlineOfSequence DEF Balanced, Under

-----------------------------------------------------------------------------
(* The operations *)

\* What a thread that holds worker_mutex may hold.
WithWorkerMutex == {held \in Levels : held["worker_mutex"] > 0}

\* One more of either mutex may be taken with worker_mutex held.
LEMMA LockInOrder ==
  ASSUME NEW held \in WithWorkerMutex, NEW m \in Mutexes
  PROVE  [held EXCEPT ![m] = @ + 1] \in WithWorkerMutex
  BY DEF WithWorkerMutex, Levels, Mutexes

\* worker_mutex may always be taken.
LEMMA WorkerMutexTaken ==
  ASSUME NEW held \in Levels
  PROVE  [held EXCEPT !["worker_mutex"] = @ + 1] \in WithWorkerMutex
  BY DEF WithWorkerMutex, Levels, Mutexes

\* What a thread does with what it has locked.
Touching == {a \in Actions : a.do \notin {"lock", "unlock"}}

\* With worker_mutex held everything may be touched.
LEMMA TouchesBalanced ==
  ASSUME NEW held \in WithWorkerMutex, NEW code \in Seq(Touching)
  PROVE  Balanced(code, held)
<1>1. held \in Levels
  BY DEF WithWorkerMutex
<1>2. code \in Seq(Actions) /\ \A i \in 1..Len(code) : code[i] \in Touching
  BY DEF Touching
<1>3. \A i \in 1..Len(code) : /\ code[i].do \notin {"lock", "unlock"}
                              /\ Careful(code[i], held, {})
  BY <1>2 DEF WithWorkerMutex, Careful, Touching
<1> QED
  BY <1>1, <1>2, <1>3, OutlineOfTouches DEF Balanced

\* Balanced code follows balanced code.
LEMMA BalancedSequence ==
  ASSUME NEW held, NEW first, NEW rest, Balanced(first, held), Balanced(rest, held)
  PROVE  Balanced(first \o rest, held)
  BY OutlineOfSequence DEF Balanced

\* Code with its last part or without it.
LEMMA PerhapsBalanced ==
  ASSUME NEW held, NEW first, NEW rest, Balanced(first, held),
         \A part \in rest : Balanced(part, held)
  PROVE  \A code \in Perhaps(first, rest) : Balanced(code, held)
  BY BalancedSequence DEF Perhaps

\* Code under worker_mutex, called with it or without.
LEMMA UnderWorkerMutexBalanced ==
  ASSUME NEW held \in Levels, NEW code, \A inside \in WithWorkerMutex : Balanced(code, inside)
  PROVE  Balanced(Under("worker_mutex", code), held)
  BY WorkerMutexTaken, OutlineUnderMutex DEF Mutexes

\* Code under work_mutex, called with worker_mutex held.
LEMMA UnderWorkMutexBalanced ==
  ASSUME NEW held \in WithWorkerMutex, NEW code,
         \A inside \in WithWorkerMutex : Balanced(code, inside)
  PROVE  Balanced(Under("work_mutex", code), held)
<1>1. [held EXCEPT !["work_mutex"] = @ + 1] \in WithWorkerMutex
  BY LockInOrder DEF Mutexes
<1> QED
  BY <1>1, OutlineUnderMutex DEF Mutexes, WithWorkerMutex

\* The touches the operations are made of.
LEMMA TouchingKinds ==
  /\ \A object \in Shared : Use(object) \in Touching
  /\ \A socket \in SocketNames : Send(socket) \in Touching /\ Receive(socket) \in Touching
  BY DEF Touching, Actions, Use, Send, Receive

\* One touch, two and three.
LEMMA FewTouchesBalanced ==
  ASSUME NEW held \in WithWorkerMutex,
         NEW a \in Touching, NEW b \in Touching, NEW c \in Touching
  PROVE  Balanced(<<a>>, held) /\ Balanced(<<a, b>>, held) /\ Balanced(<<a, b, c>>, held)
<1>1. /\ <<a>> \in Seq(Touching) /\ <<a, b>> \in Seq(Touching)
      /\ <<a, b, c>> \in Seq(Touching)
  OBVIOUS
<1> QED
  BY <1>1, TouchesBalanced

\* The look at the queues that precedes each message.
LEMMA LookupBalanced ==
  ASSUME NEW held \in WithWorkerMutex
  PROVE  Balanced(Lookup, held)
<1>1. Use("worker_queues") \in Touching /\ Use("enqueued_work") \in Touching
  BY TouchingKinds DEF Shared
<1> QED
  BY <1>1, FewTouchesBalanced DEF Lookup

\* transmit_work, called with worker_mutex held.
LEMMA TransmitWorkBalanced ==
  ASSUME NEW held \in WithWorkerMutex
  PROVE  \A code \in TransmitWork : Balanced(code, held)
<1> DEFINE sent == <<Send("work_socket"), Use("worker_queues")>>
           loop == Perhaps(Lookup, {sent \o Lookup})
<1>1. ASSUME NEW inside \in WithWorkerMutex
      PROVE  /\ Balanced(Lookup, inside)
             /\ Balanced(sent, inside)
  <2>1. Use("worker_queues") \in Touching /\ Send("work_socket") \in Touching
    BY TouchingKinds DEF Shared, SocketNames
  <2> QED
    BY <2>1, LookupBalanced, FewTouchesBalanced
<1>2. ASSUME NEW inside \in WithWorkerMutex
      PROVE  \A code \in loop : Balanced(code, inside)
  <2> HIDE DEF sent
  <2>1. Balanced(Lookup, inside) /\ Balanced(sent, inside)
    BY <1>1
  <2>2. \A part \in {sent \o Lookup} : Balanced(part, inside)
    BY <2>1, BalancedSequence
  <2> QED
    BY <2>1, <2>2, PerhapsBalanced
<1> HIDE DEF loop
<1>3. ASSUME NEW inside \in WithWorkerMutex, NEW code \in loop
      PROVE  Balanced(Under("worker_mutex", code), inside)
  BY <1>2, UnderWorkerMutexBalanced DEF WithWorkerMutex
<1>4. ASSUME NEW code \in loop
      PROVE  Balanced(Under("work_mutex", Under("worker_mutex", code)), held)
  BY <1>3, UnderWorkMutexBalanced
<1> QED
  BY <1>4 DEF TransmitWork, loop, sent

\* dismiss_worker and dismiss_workers.
LEMMA DismissBalanced ==
  ASSUME NEW held \in Levels
  PROVE  Balanced(DismissWorker, held) /\ Balanced(DismissWorkers, held)
<1> DEFINE one == Lookup \o <<Send("work_socket")>>
           all == <<Use("worker_queues"), Send("work_socket"), Use("worker_queues")>>
<1>1. ASSUME NEW inside \in WithWorkerMutex
      PROVE  Balanced(one, inside) /\ Balanced(all, inside)
  <2>1. Use("worker_queues") \in Touching /\ Send("work_socket") \in Touching
    BY TouchingKinds DEF Shared, SocketNames
  <2>2. Balanced(<<Send("work_socket")>>, inside) /\ Balanced(all, inside)
    BY <2>1, FewTouchesBalanced
  <2> QED
    BY <2>2, LookupBalanced, BalancedSequence
<1> HIDE DEF one, all
<1>2. ASSUME NEW inside \in WithWorkerMutex
      PROVE  /\ Balanced(Under("work_mutex", one), inside)
             /\ Balanced(Under("work_mutex", all), inside)
  BY <1>1, UnderWorkMutexBalanced
<1> QED
  BY <1>2, UnderWorkerMutexBalanced DEF DismissWorker, DismissWorkers, one, all

\* send_heartbeats and the visitors of results and of commands: code under
\* worker_mutex.
LEMMA VisitorsBalanced ==
  ASSUME NEW held \in WithWorkerMutex
  PROVE  /\ \A code \in VisitResult : Balanced(code, held)
         /\ \A code \in VisitCommand : Balanced(code, held)
<1>1. /\ Use("worker_queues") \in Touching /\ Use("enqueued_work") \in Touching
      /\ Send("communication_socket") \in Touching
  BY TouchingKinds DEF Shared, SocketNames
<1>2. \A code \in Perhaps(<<Use("enqueued_work")>>, TransmitWork) : Balanced(code, held)
  BY <1>1, FewTouchesBalanced, TransmitWorkBalanced, PerhapsBalanced
<1>3. \A code \in VisitResult : Balanced(code, held)
  BY <1>1, <1>2, FewTouchesBalanced, PerhapsBalanced DEF VisitResult
<1>4. ASSUME NEW inside \in WithWorkerMutex
      PROVE  Balanced(<<Use("worker_queues")>>, inside)
  BY <1>1, FewTouchesBalanced
<1>5. Balanced(Under("worker_mutex", <<Use("worker_queues")>>), held)
  BY <1>4, UnderWorkerMutexBalanced DEF WithWorkerMutex
<1>6. ASSUME NEW code \in TransmitWork
      PROVE  Balanced(<<Use("worker_queues"), Send("communication_socket"),
                        Send("communication_socket")>> \o code, held)
  BY <1>1, FewTouchesBalanced, TransmitWorkBalanced, BalancedSequence
<1> QED
  BY <1>3, <1>5, <1>6 DEF VisitCommand

\* A message, or a timeout: the receive holds nothing.
LEMMA ReceiveBalanced ==
  ASSUME NEW held \in Levels, NEW socket \in SocketNames, NEW visits,
         \A inside \in WithWorkerMutex : \A code \in visits : Balanced(code, inside)
  PROVE  \A code \in Perhaps(<<Receive(socket)>>,
                            {Under("worker_mutex", visit) : visit \in visits}) :
           Balanced(code, held)
<1>1. Receive(socket) \in Actions /\ Receive(socket).do = "receive"
  BY DEF Actions, Receive
<1>2. After(Receive(socket), held) = [k \in Mutexes |-> held[k]]
  BY <1>1 DEF After
<1>3. After(Receive(socket), held) = held
  BY <1>2 DEF Levels
<1>4. Balanced(<<Receive(socket)>>, held)
  BY <1>1, <1>3, OutlineOfAction DEF Careful, Balanced
<1>5. \A visit \in visits : Balanced(Under("worker_mutex", visit), held)
  BY UnderWorkerMutexBalanced
<1> QED
  BY <1>4, <1>5, PerhapsBalanced

\* Each operation of either thread.
LEMMA OperationsBalanced ==
  ASSUME NEW held \in Levels
  PROVE  /\ \A code \in ReceiveResult : Balanced(code, held)
         /\ \A code \in ServeExisting : Balanced(code, held)
         /\ \A code \in SendHeartbeats : Balanced(code, held)
         /\ \A code \in ReceiveCommand : Balanced(code, held)
<1>1. \A code \in ReceiveResult : Balanced(code, held)
  BY VisitorsBalanced, ReceiveBalanced DEF ReceiveResult, SocketNames
<1>2. \A code \in ReceiveCommand : Balanced(code, held)
  BY VisitorsBalanced, ReceiveBalanced DEF ReceiveCommand, SocketNames
<1>3. ASSUME NEW inside \in WithWorkerMutex
      PROVE  \A code \in Perhaps(Lookup, TransmitWork) : Balanced(code, inside)
  BY LookupBalanced, TransmitWorkBalanced, PerhapsBalanced
<1>4. \A code \in ServeExisting : Balanced(code, held)
  BY <1>3, UnderWorkerMutexBalanced DEF ServeExisting
<1> DEFINE request == <<Send("communication_socket")>>
           bodies == {<<>>, request, DismissWorker, request \o DismissWorker}
<1>5. ASSUME NEW inside \in WithWorkerMutex, NEW body \in bodies
      PROVE  Balanced(<<Use("worker_queues")>> \o body, inside)
  <2>1. Use("worker_queues") \in Touching /\ Send("communication_socket") \in Touching
    BY TouchingKinds DEF Shared, SocketNames
  <2>2. inside \in Levels
    BY DEF WithWorkerMutex
  <2>3. Balanced(<<>>, inside)
    BY <2>2, OutlineOfNothing DEF Balanced
  <2>4. Balanced(request, inside) /\ Balanced(<<Use("worker_queues")>>, inside)
    BY <2>1, FewTouchesBalanced
  <2>5. Balanced(DismissWorker, inside)
    BY <2>2, DismissBalanced
  <2> HIDE DEF request
  <2>6. Balanced(request \o DismissWorker, inside)
    BY <2>4, <2>5, BalancedSequence
  <2>7. Balanced(body, inside)
    BY <2>3, <2>4, <2>5, <2>6
  <2> QED
    BY <2>4, <2>7, BalancedSequence
<1> HIDE DEF bodies
<1>6. ASSUME NEW body \in bodies
      PROVE  Balanced(Under("worker_mutex", <<Use("worker_queues")>> \o body), held)
  BY <1>5, UnderWorkerMutexBalanced
<1>7. \A code \in SendHeartbeats : Balanced(code, held)
  BY <1>6 DEF SendHeartbeats, bodies
<1> QED
  BY <1>1, <1>2, <1>4, <1>7

-----------------------------------------------------------------------------
(* The inductive invariant *)

LocksTypeOK ==
  /\ owner \in [Mutexes -> Threads \cup {"none"}]
  /\ depth \in [Mutexes -> Nat]
  /\ todo \in [Threads -> Seq(Actions)]
  /\ stage \in Stages

\* How often t holds each mutex.
Held(t) == [m \in Mutexes |-> IF owner[m] = t THEN depth[m] ELSE 0]

\* What t may touch with nothing held: serve_work takes no mutex to push.
Free(t) == IF t = "work" /\ stage = "pushing" THEN {"enqueued_work"} ELSE {}

\* What is left of each thread's operation has an outline that begins with what
\* the thread holds and ends with nothing held.
LocksInv ==
  /\ LocksTypeOK
  /\ \A m \in Mutexes : owner[m] = "none" <=> depth[m] = 0
  /\ \A t \in Threads : Outlined(todo[t], Held(t), Nothing, Free(t))

\* Nobody holds anything at first.
LEMMA LocksInit == Init => LocksInv
<1> SUFFICES ASSUME Init PROVE LocksInv
  OBVIOUS
<1>1. LocksTypeOK
  BY DEF Init, LocksTypeOK, Stages
<1>2. \A t \in Threads : Held(t) = Nothing
  BY DEF Init, Held, Nothing, Threads
<1>3. Nothing \in Levels
  BY DEF Nothing, Levels, Mutexes
<1>4. \A t \in Threads : Outlined(todo[t], Held(t), Nothing, Free(t))
  BY <1>2, <1>3, OutlineOfNothing DEF Init
<1> QED
  BY <1>1, <1>4 DEF LocksInv, Init

\* A thread between two operations holds nothing.
LEMMA NothingHeldBetween ==
  ASSUME LocksInv, NEW t \in Threads, todo[t] = <<>>
  PROVE  Held(t) = Nothing /\ Nothing \in Levels
<1>1. PICK h : IsOutline(h, <<>>, Free(t)) /\ h[1] = Held(t) /\ h[Len(<<>>) + 1] = Nothing
  BY DEF LocksInv, Outlined
<1>2. Len(<<>>) + 1 = 1
  OBVIOUS
<1>3. h[1] \in Levels
  BY <1>1, <1>2 DEF IsOutline
<1> QED
  BY <1>1, <1>2, <1>3

\* A thread's action changes what it holds as the outline says, and nothing for
\* the other.
LEMMA FirstChangesHeld ==
  ASSUME LocksInv, NEW t \in Threads, todo[t] # <<>>, First(t)
  PROVE  /\ owner' \in [Mutexes -> Threads \cup {"none"}]
         /\ depth' \in [Mutexes -> Nat]
         /\ \A m \in Mutexes : owner'[m] = "none" <=> depth'[m] = 0
         /\ Held(t)' = After(Head(todo[t]), Held(t))
         /\ \A u \in Threads \ {t} : Held(u)' = Held(u)
<1> DEFINE a == Head(todo[t])
           m == a.on
<1>1. a \in Actions /\ After(a, Held(t)) \in Levels
  BY OutlineOfRest DEF LocksInv
<1>2. /\ owner \in [Mutexes -> Threads \cup {"none"}] /\ depth \in [Mutexes -> Nat]
      /\ \A k \in Mutexes : owner[k] = "none" <=> depth[k] = 0
  BY DEF LocksInv, LocksTypeOK
<1>3. t # "none"
  BY DEF Threads
<1>4. a.do \in {"lock", "unlock"} => m \in Mutexes
  BY <1>1 DEF Actions, Lock, Unlock, Use, Send, Receive
<1> HIDE DEF a, m
<1>5. \A u \in Threads : Held(u)' = [k \in Mutexes |-> IF owner'[k] = u THEN depth'[k] ELSE 0]
  BY DEF Held
<1>6. CASE a.do = "lock"
  <2>1. /\ owner[m] \in {"none", t} /\ m \in Mutexes
        /\ owner' = [owner EXCEPT ![m] = t]
        /\ depth' = [depth EXCEPT ![m] = @ + 1]
    BY <1>4, <1>6 DEF First, a, m
  <2>2. \A k \in Mutexes : /\ owner'[k] = IF k = m THEN t ELSE owner[k]
                           /\ depth'[k] = IF k = m THEN depth[k] + 1 ELSE depth[k]
    BY <1>2, <2>1
  <2>3. \A k \in Mutexes : (IF owner'[k] = t THEN depth'[k] ELSE 0) = After(a, Held(t))[k]
    BY <1>2, <1>3, <1>6, <2>1, <2>2 DEF After, Held, m
  <2>4. \A u \in Threads \ {t} : \A k \in Mutexes :
          (IF owner'[k] = u THEN depth'[k] ELSE 0) = Held(u)[k]
    BY <1>2, <1>3, <2>1, <2>2 DEF Held, Threads
  <2>5. Held(t)' = After(a, Held(t))
    BY <1>5, <2>3 DEF After
  <2>6. \A u \in Threads \ {t} : Held(u)' = Held(u)
    BY <1>5, <2>4 DEF Held
  <2> QED
    BY <1>2, <1>3, <2>1, <2>2, <2>5, <2>6 DEF a
<1>7. CASE a.do = "unlock"
  <2>1. /\ m \in Mutexes
        /\ owner' = [owner EXCEPT ![m] = IF depth[m] = 1 THEN "none" ELSE @]
        /\ depth' = [depth EXCEPT ![m] = @ - 1]
    BY <1>4, <1>7 DEF First, a, m
  <2>2. \A k \in Mutexes :
          /\ owner'[k] = IF k = m /\ depth[m] = 1 THEN "none" ELSE owner[k]
          /\ depth'[k] = IF k = m THEN depth[k] - 1 ELSE depth[k]
    BY <1>2, <2>1
  <2>3. owner[m] = t /\ depth[m] > 0
    <3>1. After(a, Held(t))[m] = Held(t)[m] - 1
      BY <1>7, <2>1 DEF After, m
    <3>2. After(a, Held(t))[m] \in Nat
      BY <1>1, <2>1 DEF Levels
    <3> QED
      BY <1>2, <2>1, <3>1, <3>2 DEF Held
  <2>4. \A k \in Mutexes : (IF owner'[k] = t THEN depth'[k] ELSE 0) = After(a, Held(t))[k]
    BY <1>2, <1>3, <1>7, <2>1, <2>2, <2>3 DEF After, Held, m
  <2>5. \A u \in Threads \ {t} : \A k \in Mutexes :
          (IF owner'[k] = u THEN depth'[k] ELSE 0) = Held(u)[k]
    BY <1>2, <2>1, <2>2, <2>3 DEF Held, Threads
  <2>6. Held(t)' = After(a, Held(t))
    BY <1>5, <2>4 DEF After
  <2>7. \A u \in Threads \ {t} : Held(u)' = Held(u)
    BY <1>5, <2>5 DEF Held
  <2>8. \A k \in Mutexes : depth'[k] \in Nat /\ (owner'[k] = "none" <=> depth'[k] = 0)
    BY <1>2, <1>3, <2>2, <2>3
  <2> QED
    BY <1>2, <1>3, <2>1, <2>6, <2>7, <2>8 DEF a
<1>8. CASE a.do \notin {"lock", "unlock"}
  <2>1. UNCHANGED <<owner, depth>>
    BY <1>8 DEF First, a
  <2>2. \A u \in Threads : Held(u)' = Held(u)
    BY <2>1 DEF Held
  <2>3. After(a, Held(t)) = Held(t)
    BY <1>8 DEF After, Held
  <2> QED
    BY <1>2, <2>1, <2>2, <2>3 DEF a
<1> QED
  BY <1>6, <1>7, <1>8

\* An outline may use less of what is free.
LEMMA LessFree ==
  ASSUME NEW code, NEW from, NEW to, NEW free, Outlined(code, from, to, {})
  PROVE  Outlined(code, from, to, free)
<1>1. PICK h : IsOutline(h, code, {}) /\ h[1] = from /\ h[Len(code) + 1] = to
  BY DEF Outlined
<1>2. IsOutline(h, code, free)
  BY <1>1 DEF IsOutline, Careful
<1> QED
  BY <1>1, <1>2 DEF Outlined

\* What serve_work and its threads do in each stage is balanced, given that the
\* main thread pushes without a mutex.
LEMMA StageOperationsOutlined ==
  ASSUME LocksInv, NEW code \in Operations
  PROVE  Outlined(code, Nothing, Nothing, Free("work"))
<1>1. Nothing \in Levels
  BY DEF Nothing, Levels, Mutexes
<1>2. CASE stage = "histograms"
  BY <1>1, <1>2, OperationsBalanced, LessFree DEF Operations, Balanced
<1>3. CASE stage = "pushing"
  <2>1. code = <<Use("enqueued_work")>> /\ Free("work") = {"enqueued_work"}
    BY <1>3 DEF Operations, Free
  <2>2. /\ Use("enqueued_work") \in Actions
        /\ Use("enqueued_work").do = "use" /\ Use("enqueued_work").on = "enqueued_work"
    BY DEF Actions, Use, Shared
  <2>3. After(Use("enqueued_work"), Nothing) = Nothing
    BY <2>2 DEF After, Nothing
  <2>4. Careful(Use("enqueued_work"), Nothing, {"enqueued_work"})
    BY <2>2 DEF Careful
  <2> QED
    BY <1>1, <2>1, <2>2, <2>3, <2>4, OutlineOfAction
<1>4. CASE stage = "existing"
  BY <1>1, <1>4, OperationsBalanced, LessFree DEF Operations, Balanced
<1>5. CASE stage = "images"
  <2>1. PICK received \in ReceiveResult, heartbeats \in SendHeartbeats :
          code = received \o heartbeats
    BY <1>5 DEF Operations
  <2> QED
    BY <1>1, <2>1, OperationsBalanced, BalancedSequence, LessFree DEF Balanced
<1>6. CASE stage = "dismissing"
  BY <1>1, <1>6, DismissBalanced, LessFree DEF Operations, Balanced
<1>7. CASE stage \in {"stopping", "ended"}
  BY <1>7 DEF Operations
<1> QED
  BY <1>2, <1>3, <1>4, <1>5, <1>6, <1>7 DEF LocksInv, LocksTypeOK, Stages

\* Every step keeps the outlines.
LEMMA LocksStep == LocksInv /\ [Next]_vars => LocksInv'
<1> SUFFICES ASSUME LocksInv, [Next]_vars PROVE LocksInv'
  OBVIOUS
<1> USE DEF LocksInv, LocksTypeOK
<1>1. ASSUME NEW t \in Threads, Continue(t) PROVE LocksInv'
  <2>1. /\ todo[t] # <<>> /\ First(t)
        /\ todo' = [todo EXCEPT ![t] = Tail(@)]
        /\ UNCHANGED stage
    BY <1>1 DEF Continue
  <2>2. Outlined(Tail(todo[t]), After(Head(todo[t]), Held(t)), Nothing, Free(t))
    BY <2>1, OutlineOfRest
  <2>3. \A u \in Threads : Free(u)' = Free(u)
    BY <2>1 DEF Free
  <2>4. \A u \in Threads : Outlined(todo[u], Held(u), Nothing, Free(u))'
    <3>1. ASSUME NEW u \in Threads PROVE Outlined(todo'[u], Held(u)', Nothing, Free(u)')
      <4>1. CASE u = t
        BY <4>1, <2>1, <2>2, <2>3, FirstChangesHeld
      <4>2. CASE u # t
        BY <4>2, <2>1, <2>3, FirstChangesHeld
      <4> QED
        BY <4>1, <4>2
    <3> QED
      BY <3>1 DEF Outlined, IsOutline, Careful, After
  <2>5. todo' \in [Threads -> Seq(Actions)]
    BY <2>1, <2>2 DEF Outlined
  <2> QED
    BY <2>1, <2>4, <2>5, FirstChangesHeld
<1>2. ASSUME WorkContinues PROVE LocksInv'
  <2>1. PICK code \in Operations : todo' = [todo EXCEPT !["work"] = code]
    BY <1>2 DEF WorkContinues
  <2>2. todo["work"] = <<>> /\ UNCHANGED <<owner, depth, stage>>
    BY <1>2 DEF WorkContinues
  <2>3. Held("work") = Nothing
    BY <2>2, NothingHeldBetween DEF Threads
  <2>4. Outlined(code, Nothing, Nothing, Free("work"))
    BY StageOperationsOutlined
  <2>5. code \in Seq(Actions)
    BY <2>4 DEF Outlined
  <2>6. \A u \in Threads : Held(u)' = Held(u) /\ Free(u)' = Free(u)
    BY <2>2 DEF Held, Free
  <2>7. \A u \in Threads : Outlined(todo'[u], Held(u)', Nothing, Free(u)')
    BY <2>1, <2>3, <2>4, <2>6 DEF Threads
  <2>8. \A u \in Threads : Outlined(todo[u], Held(u), Nothing, Free(u))'
    BY <2>7 DEF Outlined, IsOutline, Careful, After
  <2> QED
    BY <2>1, <2>2, <2>5, <2>8
<1>3. ASSUME StageEnds PROVE LocksInv'
  <2>1. todo["work"] = <<>> /\ UNCHANGED <<owner, depth, todo>>
    BY <1>3 DEF StageEnds
  <2>2. stage' \in Stages
    BY <1>3 DEF StageEnds, NextStage, Stages
  <2>3. Held("work") = Nothing /\ Nothing \in Levels
    BY <2>1, NothingHeldBetween DEF Threads
  <2>4. Outlined(<<>>, Nothing, Nothing, Free("work")')
    BY <2>3, OutlineOfNothing
  <2>5. \A u \in Threads : Held(u)' = Held(u)
    BY <2>1 DEF Held
  <2>6. Free("communication")' = Free("communication")
    BY DEF Free
  <2>7. \A u \in Threads : Outlined(todo'[u], Held(u)', Nothing, Free(u)')
    BY <2>1, <2>3, <2>4, <2>5, <2>6 DEF Threads
  <2>8. \A u \in Threads : Outlined(todo[u], Held(u), Nothing, Free(u))'
    BY <2>7 DEF Outlined, IsOutline, Careful, After
  <2> QED
    BY <2>1, <2>2, <2>8
<1>4. ASSUME CommandComes PROVE LocksInv'
  <2>1. PICK code \in ReceiveCommand : todo' = [todo EXCEPT !["communication"] = code]
    BY <1>4 DEF CommandComes
  <2>2. todo["communication"] = <<>> /\ UNCHANGED <<owner, depth, stage>>
    BY <1>4 DEF CommandComes
  <2>3. Held("communication") = Nothing /\ Nothing \in Levels
    BY <2>2, NothingHeldBetween DEF Threads
  <2>4. Outlined(code, Nothing, Nothing, Free("communication"))
    BY <2>3, OperationsBalanced, LessFree DEF Balanced
  <2>5. code \in Seq(Actions)
    BY <2>4 DEF Outlined
  <2>6. \A u \in Threads : Held(u)' = Held(u) /\ Free(u)' = Free(u)
    BY <2>2 DEF Held, Free
  <2>7. \A u \in Threads : Outlined(todo'[u], Held(u)', Nothing, Free(u)')
    BY <2>1, <2>3, <2>4, <2>6 DEF Threads
  <2>8. \A u \in Threads : Outlined(todo[u], Held(u), Nothing, Free(u))'
    BY <2>7 DEF Outlined, IsOutline, Careful, After
  <2> QED
    BY <2>1, <2>2, <2>5, <2>8
<1>5. ASSUME ServeWorkEnds PROVE LocksInv'
  <2>1. stage = "stopping" /\ stage' = "ended" /\ UNCHANGED <<owner, depth, todo>>
    BY <1>5 DEF ServeWorkEnds
  <2>2. \A u \in Threads : Held(u)' = Held(u) /\ Free(u)' = Free(u)
    BY <2>1 DEF Held, Free
  <2>3. \A u \in Threads : Outlined(todo[u], Held(u), Nothing, Free(u))'
    BY <2>1, <2>2 DEF Outlined, IsOutline, Careful, After
  <2> QED
    BY <2>1, <2>3 DEF Stages
<1>6. ASSUME UNCHANGED vars PROVE LocksInv'
  <2>1. UNCHANGED <<owner, depth, todo, stage>>
    BY <1>6 DEF vars
  <2>2. \A u \in Threads : Held(u)' = Held(u) /\ Free(u)' = Free(u)
    BY <2>1 DEF Held, Free
  <2>3. \A u \in Threads : Outlined(todo[u], Held(u), Nothing, Free(u))'
    BY <2>1, <2>2 DEF Outlined, IsOutline, Careful, After
  <2> QED
    BY <2>1, <2>3
<1> HIDE DEF LocksInv, LocksTypeOK
<1> QED
  BY <1>1, <1>2, <1>3, <1>4, <1>5, <1>6 DEF Next, Ended

\* The invariant, for any order of the two threads' steps.
LEMMA LocksInvariant == Spec => []LocksInv
  BY LocksInit, LocksStep, PTL DEF Spec

-----------------------------------------------------------------------------
(* What follows *)

\* What a thread holds, it holds with worker_mutex; and its next action is one that
\* the outline allows.
LEMMA HeldInOrder ==
  ASSUME LocksInv, NEW t \in Threads
  PROVE  /\ \A m \in Mutexes : owner[m] = t => owner["worker_mutex"] = t
         /\ Held(t)["worker_mutex"] > 0 => owner["worker_mutex"] = t
         /\ todo[t] = <<>> => \A m \in Mutexes : owner[m] # t
         /\ todo[t] # <<>> => /\ Head(todo[t]) \in Actions
                              /\ Careful(Head(todo[t]), Held(t), Free(t))
<1>1. /\ owner \in [Mutexes -> Threads \cup {"none"}] /\ depth \in [Mutexes -> Nat]
      /\ \A m \in Mutexes : owner[m] = "none" <=> depth[m] = 0
  BY DEF LocksInv, LocksTypeOK
<1>2. \A m \in Mutexes : owner[m] = t <=> Held(t)[m] > 0
  BY <1>1 DEF Held, Threads
<1>3. /\ Held(t) \in Levels
      /\ todo[t] = <<>> => Held(t) = Nothing
  BY NothingHeldBetween, OutlineOfRest DEF LocksInv
<1>4. todo[t] # <<>> => /\ Head(todo[t]) \in Actions
                       /\ Careful(Head(todo[t]), Held(t), Free(t))
  BY OutlineOfRest DEF LocksInv
<1>5. \A m \in Mutexes : owner[m] = t => owner["worker_mutex"] = t
  BY <1>2, <1>3 DEF Levels, Mutexes
<1>6. todo[t] = <<>> => \A m \in Mutexes : owner[m] # t
  BY <1>2, <1>3 DEF Nothing
<1> QED
  BY <1>2, <1>4, <1>5, <1>6 DEF Mutexes

\* Every caller of transmit_work has locked worker_mutex before (server.cpp:138).
THEOREM WorkerMutexIsFirst == Spec => []WorkerMutexFirst
<1>1. LocksInv => WorkerMutexFirst
  BY HeldInOrder DEF WorkerMutexFirst, Mutexes
<1> QED
  BY <1>1, LocksInvariant, PTL

\* The two threads touch worker_queues one at a time, and enqueued_work but for the
\* push of serve_work (server.cpp:85); no socket has two messages sent on it at once.
THEOREM OnlyKnownRaces == Spec => []RacesAreKnown
<1>1. ASSUME LocksInv PROVE RacesAreKnown
  <2> SUFFICES ASSUME NEW object \in {"worker_queues", "enqueued_work", "work_socket",
                                      "communication_socket"},
                      \A t \in Threads : Touches(t, object),
                      \A t \in Threads : Head(todo[t]) # Receive(object),
                      ~ (object = "enqueued_work" /\ stage = "pushing")
               PROVE  FALSE
    BY DEF RacesAreKnown
  <2>1. ASSUME NEW t \in Threads
        PROVE  owner["worker_mutex"] = t
    <3>1. todo[t] # <<>> /\ Head(todo[t]).on = object /\ object \notin Mutexes
      BY DEF Touches
    <3>2. Head(todo[t]) \in Actions /\ Careful(Head(todo[t]), Held(t), Free(t))
      BY <1>1, <3>1, HeldInOrder
    <3>3. Head(todo[t]).do \in {"use", "send"}
      BY <3>1, <3>2 DEF Actions, Lock, Unlock, Use, Send, Receive
    <3>4. object \notin Free(t)
      BY DEF Free
    <3>5. Held(t)["worker_mutex"] > 0
      BY <3>1, <3>2, <3>3, <3>4 DEF Careful
    <3> QED
      BY <1>1, <3>5, HeldInOrder
  <2> QED
    BY <2>1 DEF Threads
<1> QED
  BY <1>1, LocksInvariant, PTL

\* t cannot take its next step, for the other thread holds the mutex it locks.
Blocked(t) ==
  /\ todo[t] # <<>>
  /\ Head(todo[t]).do = "lock"
  /\ owner[Head(todo[t]).on] \notin {"none", t}

\* The thread a thread waits for is in the middle of an operation, and waits for
\* nobody itself.
WaitingEnds ==
  \A t \in Threads : Blocked(t) =>
    \E u \in Threads : /\ owner[Head(todo[t]).on] = u
                      /\ todo[u] # <<>>
                      /\ ~ Blocked(u)

\* The two mutexes never leave the work and the communication thread waiting for
\* each other, though transmit_work and dismiss_worker name them in reverse
\* (server.cpp:138, 249); nor does a thread end an operation with a mutex held.
THEOREM ThreadsNeverDeadlock ==
  Spec => [](WaitingEnds /\ \A t \in Threads : todo[t] = <<>> =>
                              \A m \in Mutexes : owner[m] # t)
<1>1. ASSUME LocksInv PROVE WaitingEnds
  <2> SUFFICES ASSUME NEW t \in Threads, Blocked(t)
               PROVE  \E u \in Threads : /\ owner[Head(todo[t]).on] = u
                                        /\ todo[u] # <<>>
                                        /\ ~ Blocked(u)
    BY DEF WaitingEnds
  <2> DEFINE m == Head(todo[t]).on
             u == owner[m]
  <2>1. \A v \in Threads : Blocked(v) => Head(todo[v]).on \in Mutexes
    BY <1>1, HeldInOrder DEF Blocked, Actions, Lock, Unlock, Use, Send, Receive
  <2>2. owner \in [Mutexes -> Threads \cup {"none"}]
    BY <1>1 DEF LocksInv, LocksTypeOK
  <2>3. m \in Mutexes /\ u \in Threads /\ u # t
    BY <2>1, <2>2 DEF Blocked
  <2>4. owner["worker_mutex"] = u
    BY <1>1, <2>3, HeldInOrder
  <2>5. todo[u] # <<>>
    BY <1>1, <2>3, HeldInOrder
  <2>6. ASSUME Blocked(u) PROVE FALSE
    <3> DEFINE n == Head(todo[u]).on
    <3>1. n \in Mutexes /\ owner[n] \in Threads /\ owner[n] # u
      BY <2>1, <2>2, <2>3, <2>6 DEF Blocked
    <3>2. owner["worker_mutex"] = owner[n]
      BY <1>1, <3>1, HeldInOrder
    <3> QED
      BY <2>4, <3>1, <3>2
  <2> QED
    BY <2>3, <2>5, <2>6
<1>2. LocksInv => \A t \in Threads : todo[t] = <<>> => \A m \in Mutexes : owner[m] # t
  BY HeldInOrder
<1> QED
  BY <1>1, <1>2, LocksInvariant, PTL
=============================================================================
