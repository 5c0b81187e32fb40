# Exposure: a verification project

Exposure evens out brightness changes in time-lapses. A *server* takes a
directory of images and has *workers* on the network do two jobs for each file:
compute its histogram, then, when all histograms are known, equalise its
brightness and send the new image back. This directory holds TLA+ modules of how
the server and its workers distribute those jobs, TLC configurations that check
them on small instances, and TLAPS proofs of their safety properties and
refinements for every number of workers, threads and files, images and histograms of
every size, and any number of servers.

Line numbers refer to `src/src/`.

## The system

| Component | State | Operations | Modelled in |
|---|---|---|---|
| Server (`server.cpp`) | `enqueued_work`, `worker_queues` (jobs, heartbeat data and concurrency of each registered worker), the collected results, the flag of the communication thread, two recursive mutexes | `serve_work`, `receive_histograms`, `receive_equalised`, `send_heartbeats`, `dismiss_worker(s)`, `transmit_work`, handlers of HELO, heartbeats and results | `Server`, `ServerLocks` |
| Worker connection (`ServerConnection`, `worker.cpp`) | its state, two sockets, the scheduled jobs | `connect`, `run` and its threads, `disconnect`, handlers of EHLO, jobs, heartbeats and BYE | `WorkerPeer` |
| Command vocabulary (`protocol.cpp`) | none | commands, `operator==` between a job and a result, `to_message`, `from_serialised_string`, the chunks of an image | `Protocol`, `Encoding`, `ImageTransfer`, `CommandTransfer` |
| ZeroMQ sockets | routes and messages in flight | routing, delivery, loss at a crash | `Network` (external) |
| Threads of a connection, `POSIXSemaphore` | two semaphores | `run`, `background_task`, `schedule_job`, `notify_dying`, `disconnect` | `WorkerThreads` |
| List of servers of a worker (`Worker`) | `serverDetails`, a semaphore | `add_server`, `next_connection`, `pop_connection`, `run_jobs` | `ServerList` |
| Service discovery (`network.cpp`) | Avahi's poll loops, client, entry group, browser and resolvers | their callbacks; start and stop of the service | `MdnsService` (server), `ServerList` (worker), `Discovery` (both) |
| Arithmetic (`algorithm.cpp`) | none | `get_equalisation_parameters`, `linear_map` | `EqualisationMapping` |
| Entry point (`main.cpp`) | none | arguments, the order of the calls above | `ServerList`, `MdnsService` |

### How the parts interact

The server has a main thread (`serve_work`), a *work thread* it waits for
(`receive_histograms`, then `receive_equalised`), and a *communication thread*
(`run_communication_service`) beside both. They share `enqueued_work` and
`worker_queues`. A worker has a thread that reads jobs, one that reads heartbeat
requests, and background threads that do jobs. Between a server and a worker
there are two pairs of sockets: *work* carries jobs, results and BYE;
*communication* carries HELO, EHLO and heartbeats.

    worker                         server
      HELO(concurrency) ------------>  register, EHLO, heartbeat request, jobs
      <------------ EHLO, REQUEST
      REPLY ------------------------>  heartbeat_reply_received
      <---------------------- jobs
      result ----------------------->  erase the job, record the result, more jobs
      <----------------------- BYE     at the end, or no reply within the interval

Before this, the server announces itself by Avahi, in a thread of its own, and a
worker's discovery thread adds the servers it hears of to a list, from which the
worker's main thread takes one after the other (`--persist`) or the first alone.

Hard are: the communication thread handing out jobs while the main thread
fills the queue; two stages whose results must not mix; workers dismissed
because they are slow, whose results come all the same; workers that die with jobs
and results in flight; sends that fail unnoticed; threads that must end; services
that change their names while they are served; and loops over two arrays at once.

### What makes each component correct

- Server: no job is lost or handed to two workers; each file counts once; a stage
  ends when, and only when, all its files are done; its asserted facts hold;
  erasing the job of a result always finds one; dead workers are dismissed and
  live ones are kept; the server ends.
- Worker connection: EHLO first; each job leads to one result or to the end of the
  worker; after BYE it ends.
- Vocabulary: a result matches the job it answers and no other.
- Threads of a connection: no scheduled job is slept on, no job is done twice, BYE
  wakes all, and the sockets are destroyed after the last use.
- Mutexes of the server: whatever their order, the threads never wait for each other.
- Encoding: a command comes out of its message as it went in, its image byte by byte.
- List of servers: the semaphore counts its entries; the server removed is the one
  that was served; whatever is announced is found, and the threads end.
- Arithmetic: the walk over two histograms ends, and its mapping is monotone and
  keeps ranks.

`PROJECT.json` lists the hazards of the code line by line, with the properties that
cover them or the reason why none does.

## The modules

- `Protocol`: files, jobs, results, and when a result answers a job. Histograms,
  mappings and image data are left out: no decision of the distribution looks
  at them.
- `Network`: the sockets as variables. `routes[w]` are the sockets of `w` the
  server's routers know; a message to an unknown identity is lost and the error
  ignored (`send_work_message`). The work channels are sets of jobs and of results,
  as threads on both sides take and send them in any order; BYE is always the last
  message on a work channel and is read only after the jobs. The communication
  channels are FIFO sequences. Closing or losing a worker's sockets empties what is
  in flight to it, while results and commands already sent may still arrive.
- `Server`: one action per handler or step. `phase` says where the main thread and
  the work thread it waits for are (they never act at once). Handlers run under the
  recursive `worker_mutex`, so each is one atomic action: `ReceiveHistogramResult`
  is a round of `receive_histograms` with the whole of
  `visit_histogram_result`, the final `transmit_work` included. `PushEqualisationJob`
  is one push of `serve_work`, done without a mutex, so anything may come between
  two of them. `ServeExisting` is one round of the loop at line 193, during which
  the communication thread cannot take the mutex. `SendHeartbeats` is the whole
  of `send_heartbeats` with its calls of `dismiss_worker`. `IntervalPasses` is the clock.
- `WorkerPeer`: a connection of a worker from HELO to the end. A process that
  serves a second server draws a new identity, so each member of `Workers` connects once.
- `Cluster`: server, workers and network together; its properties; the inductive
  invariants `IInv` and `AnswersInv`; the refinement mapping to `JobLedger`.
- `JobLedger`: the abstract specification: in each stage the job of a file is in
  the pool, with one worker, or done; only the worker that has a job gets it done;
  jobs return to the pool only in the second stage; a stage ends when all is done.
- `WorkerThreads`: the threads of one connection: the one that calls `connect()` and
  `run()`, the communication thread, and the background threads, each with its place
  in the code (`main`, `communication`, `background`). A step is what a thread does
  between two looks at what the threads share: the state, the vector of jobs under
  `jobsMutex`, a semaphore, a socket. The rest of the server is what it may send: jobs, and
  one BYE. `PeerKept` maps the threads to `WorkerPeer`, so `Cluster`, whose workers have no
  threads, loses nothing: the jobs of the connection are those scheduled and those in
  the hands of a thread.
- `ServerLocks`: justifies the handlers of `Server` being single steps. Each operation of
  the server is the sequence of what it locks, looks at, sends and receives; two threads
  run them, "work" for the main thread and those it waits for, "communication"
  for the other. What data make a handler do is left open. `transmit_work` takes the
  mutexes in the reverse order of `dismiss_worker`, which is harmless only while all
  callers hold `worker_mutex` already.
- `Encoding`: the message of each class of command, with its tags and texts, and the
  command of a message. Operators only, on fields told apart by value.
- `ImageTransfer`: the loops that cut an image into chunks (`split_equalisation_tiff`) and
  put it together (`from_data`), one step per round, with arithmetic of `size_t`.
- `CommandTransfer`: composes the two: a command goes through `to_message` and
  `from_serialised_string`; if it was a job, its result comes back the same way.
- `EqualisationMapping`: `get_equalisation_parameters`, one step per round of its loop,
  over any two histograms; `linear_map` as an operator. Proportions are natural
  numbers, in units that make each division exact.
- `MdnsService`: a server's main thread as far as it starts and stops the service, and
  the callbacks of Avahi in the service thread. `drawn` are the names drawn at
  random, which are taken to be different. `FillGroup` is the part of
  `create_avahi_services` that fills an empty group: each of its three calls of Avahi may fail,
  and leaves a server whose client runs without a service.
- `ServerList`: a worker process from `main()` to its end: the discovery thread with its
  browser and resolvers, the list and its semaphore, and the main thread. `registration`
  is what the server being served has made of the worker: registered by its HELO while the
  server works (`serverMain[s] = "serve"`), dismissed by a BYE, at the end
  (`DismissWorkers`) or before it as too slow (`DismissWorker`), or forgotten: its HELO was
  handled after `dismiss_workers`, while the communication service still ran
  (`"dismissed"`), or the send of the BYE failed. `run()` returns on a BYE only.
- `Discovery`: any number of servers and a worker. What it leaves to `Cluster` is what
  a worker does with a server; what `Cluster` leaves to it is why workers come late.
- `MCCluster`, `MCWorkerThreads`, `MCServerLocks`, `MCCommandTransfer`,
  `MCEqualisationMapping`, `MCDiscovery`: the instances for TLC.
- `ClusterSafetyProofs` (types, where jobs are, and the counters), `ClusterAnswersProofs`
  (queues' limits, heartbeats, dismissals, what is under way), `LedgerProofs` (the
  refinement of `JobLedger`), `ServerLocksProofs`, `WorkerThreadsProofs`, `TransferProofs`,
  `EqualisationProofs`, `DiscoveryProofs`: the theorems.

Jobs are `unique_ptr`s moved from one container to the next and never copied, so
the queue and the workers' queues are sets of jobs. The order of a queue is left
open: the model may take any job next, the code takes the front.

`phase = "aborted"` stands for a failed assertion (the build defines no `NDEBUG`);
nothing the server does follows it.

Operators named `Wrong...` are what the next definition would be with a plausible
mistake. No specification uses them. They document which mistake each property
notices, and are paired with properties in `PROJECT.json`.

## The runs

`Faults` names what the surroundings may do: `crash` (a worker process dies),
`slow` (an answer takes longer than `MAX_HEARTBEAT_INTERVAL`), `late_join` (workers
start at any time), `late_route` (the work socket of a worker becomes known after
its HELO was handled). Those of `Discovery` are `start` (the service cannot be
started), `register` (its group cannot be made, filled or committed), `host_name` (the host is
renamed), `collision` (of service names), `failure` (of Avahi, on either side), `resolver` (a
service is seen but not resolved), `slow` (a worker that lives is dismissed, or its EHLO comes
too late) and `lost_bye` (the send of a BYE fails).

| Run | Instance | Shows |
|---|---|---|
| `cluster_safety` | 2 workers (1 and 3 threads), 3 files, all faults | types, nine safety properties, and that the server implements `JobLedger` |
| `cluster_fair` | 2 workers, 3 files, `crash` | `serve_work` ends with every image and registered workers end, unless one dies while results are awaited; in the second stage a dead worker is dismissed, and no live one; every job recorded as a live worker's can still be answered, and while all live something is under way |
| `helo_race` | 2 workers, 2 files, no fault | refutes the assertion of server.cpp:100 |
| `histogram_crash` | 2 workers, 2 files, `crash` | refutes config.hpp:25 while histograms are collected |
| `requeue` | 2 workers, 2 files, `crash` | refutes server.cpp:333: requeued work is not given to idle workers |
| `late_route` | 2 workers, 2 files, `late_route` | refutes server.cpp:234: errors are ignored for connecting clients too |
| `worker_threads` | 3 background threads, 1 file (2 jobs) | no wake-up is lost, BYE wakes all, sockets outlive threads, no job is done twice, and the threads implement `WorkerPeer`; a scheduled job is done unless BYE comes first; after BYE all threads end |
| `server_locks` | complete | the threads never wait for each other; only the known accesses are unguarded |
| `command_transfer` | every command, images of 0 to 7 bytes, chunks of 3 | commands and images arrive as they were sent, nothing is written out of bounds, a result finds its job alone |
| `equalisation_mapping` | any two histograms of 5 bins, proportions in quarters | the mapping is monotone and keeps ranks, the walk ends, `linear_map` interpolates |
| `discovery` | 2 servers, 1 route, 3 names, all faults | the semaphore counts the list; a worker that serves once pops the server it served |
| `discovery_fair` | 1 server, 2 routes, 3 names, `host_name`, `collision`, `slow`, `lost_bye` | the service stops without harm; a server whose client runs is found, unless the browser told of it on every route before; entries leave the list and a worker that serves once ends, if servers do and release it |

Bounds. `MAX_WORKER_QUEUE` is 32 in the code and 2 here, so that a worker with three
threads meets the limit and one with a single thread does not. Three files
with two workers leave work on the queue after each is full, which is what makes
handing out, requeueing and the HELO race interesting. No counter needs a
bound there: the heartbeat data is two booleans (`request_overdue` abstracts the time since the last
request) and each file is counted once, and the semaphores of `WorkerThreads` grow by
the jobs and the one BYE only. Its three threads and two jobs let all
threads sleep, one be awake for both jobs, and tokens of jobs that are
already done be left over. Larger instances (three threads and four jobs; three
workers and two or three files, where a job is taken back and handed out again beside
an idle worker) were checked without liveness, and passed. Symmetry is used in runs without liveness
only, over values no definition tells apart.

In `CommandTransfer` seven bytes are two full chunks and one byte more, and zero bytes no
chunk. `SizeValues` (16) is the number of values of a `size_t`: large enough for an image,
small enough that a subtraction below zero would show. In `EqualisationMapping` five
bins in quarters give histograms with empty bins at either end and in the middle,
and `Rounding` (1) lets two of them add up to different sums. In `Discovery` a name is
drawn at each registration and none twice; `NamesLeft` lets hosts be renamed and
services collide while a name is left for every server: with three names, once or twice. The
two servers of `discovery` are alike, so its states are taken up to their exchange.

Deadlock is checked in `server_locks`, and in no other run: the server may end, may stop at an assertion, or may
wait for ever with no worker left, and each is a final state of the program.

### Fairness

Weak fairness, per thread, of: the main or work thread; the communication thread,
for each worker's commands (ZeroMQ reads its peers in turn) and for its own end;
each kind of step of each worker's threads. The scheduler of the operating system
justifies these. The clock advances, users start their workers
(`StartWorker`), and a connecting socket becomes known (`RouteFound`). No fault is fair.
Only `ServeWorkEnds` needs the users: with no worker the server waits.

In `Discovery` it is likewise per thread, and of each callback of Avahi for which there is
a reason: it tells a client that it runs, that its group is established, and browsers and
resolvers what they ask for. No fault is fair, nor that a server's work ends (`DismissWorkers`,
`StopMdns`): what needs this has it as its premise (`ServersEnd`). That a BYE is read is part
of the worker's fairness; that one is sent is not. `EqualisationMapping` is a function
that runs. `ServerLocks` claims no liveness: a `std::recursive_mutex` promises no order among
those that wait, so that one thread may take it for ever.

`WorkerThreads` assumes weak fairness of each thread. For a thread that waits on
`jobsSemaphore` this says it goes on if the semaphore stays above zero, which is
all `sem_wait` promises; that it stays so is what `DyingWakesAll` is about. The server
need not send anything.

That a job is done "unless BYE comes first" is the code's choice: a thread that sees
`Dying` leaves its loop, and the destructor drops what is scheduled. The server says BYE
when all images are written or when it has taken the jobs back.

## Findings

1. The assertion at server.cpp:100 fails when a worker says HELO after the last
   histogram arrived and before the assertion: its handler takes a job.
2. While histograms are collected no heartbeat is sent, so a dead worker is never
   noticed and the server waits for ever.
3. Work of a dismissed worker goes back onto the queue but is handed out only at
   the next result or HELO: when all other workers are idle, nobody gets it.
4. A job sent to a worker whose work socket is still connecting is lost, and
   recorded as sent; the worker answers heartbeats, so the job never comes back.

More are visible in the models without a run of their own:

- A HELO handled after `dismiss_workers` registers a worker that is never told BYE.
  `WorkersReleased` therefore speaks of workers registered earlier, and `EntriesTaken` and
  `WorkerEnds` except a worker in this state (`NeverReleased`): it blocks in `run_work`
  for ever, its list with it, though all servers may have ended. A BYE whose send fails
  (server.cpp:233) has the same effect.
- A worker dismissed as too slow takes the server from its list as if it had ended
  (worker.cpp:371, 372). The server goes on, but the worker's browser has told of it already and
  does so again only after it disappeared. `RunningServersFound` therefore promises an entry
  only while some route of the server is still untold.
- A route resolved after the server was popped gives it an entry again. If the server
  has ended, the next `connect()` times out and ends the process, a worker that persists included.
- `pop_connection` erases the first entry of the list, as if it were still the one
  `next_connection` took. In a worker that persists, a server of smaller name found
  meanwhile is erased unserved, and the one just served stays to be connected to again
  (worker.cpp:354, 363). `PopsTheServed` is therefore about workers that serve once, whose
  discovery stops at the first server.
- "We already have an entry for this server, so drop this instance" (worker.cpp:323) goes
  by `server-name`, which is drawn anew at each registration (network.cpp:148): a server
  that was renamed has two entries.
- The last element of the mapping is not divided by the number of bins (algorithm.cpp:147),
  as all others are: even between images of equal lightness white is mapped beyond the
  range, and with it what lies between the last two bins. `QuantilesMatch` leaves
  that element out; `MappingMonotone` does not, and holds as it is the largest.
- `--client` alone reads `argv[2]`, a null pointer (main.cpp:29): `Main` ends the process.
- After a failure of Avahi, `stop_mdns_service` uses a poll object that may be freed, or
  was never made (network.cpp:104); the server aborts though its work is done.
  `ServerStopsCleanly` is checked without such failures.
- If registering the service fails, `create_avahi_services` returns and is not called again until
  the host's name changes: the server serves on unseen. `RunningServersFound` is checked
  without such failures.

## The proofs

For every finite set of workers, every non-empty finite set of files, all thread counts, any queue
limit and any of the faults:

- `TypeCorrect`: `Spec => []TypeOK`. `TypeOK` alone is not inductive, since
  `receive_equalised` looks up workers of its loop; `ExistingRegistered` is added.
- `InvariantHolds`: `Spec => []IInv`, and from it `JobsAreConserved`,
  `HistogramsAreDrained`, `EqualisedCountIsExact`, `ImagesAreComplete`,
  `EraseAlwaysFindsJob`, `ResultsAreOfTheStage` and `DismissedHoldNoWork`.

Why `IInv` looks as it does. That a result always finds its job needs to know
that whatever a registered worker carries (jobs on the way, jobs it has, results on
the way back) is in its queue, each once: `CarriedRecorded`. This would fail if an
identity could be registered again after its dismissal; `FreshUnknown` says a HELO
comes only from a worker the server has never heard of. That the counters end the
stages at the right moment needs exact equality between them and the
completed files, `HistogramsExact` and `EqualisedCountExact`, and these need that
queues are disjoint, `QueuesDisjoint`. That the stages do not mix needs
`OnlyStageJobs` and, for workers the server does not know, `UnregisteredIdle`: nobody
is dismissed while histograms are collected, so no stray histogram job survives.

The proof of each step follows one pattern. `TransmitWorkKeeps` says what
`transmit_work` after the erasure of some jobs does to the parts of `IInv`; `StillJobs`,
`StillCarried`, `StillConnections` and `StillServer` cover the parts a step does not touch,
`WorkerKeeps` any step of a worker; one lemma per action puts them together.
`AllFiles` turns the comparison of sizes in the loops' conditions into equality of sets.

`AnswersInv` (`ClusterAnswersProofs`) is a second invariant, proved with the help of `IInv`:
what a step does to the queues is only known where jobs are. From
`AnswersInvariantHolds` follow

- `QueuesWithinCapacity`: an entry keeps the concurrency it was registered with
  (`CapacityKept`), and `transmit_work` stops there. That `dismiss_worker` empties one queue
  into the pool and fills no other is part of it.
- `EhloIsFirst`: the EHLO is the first command in the channel as long as it was not read. This
  needs `RepliesFollowEhlo`: a second request is sent only after a reply, and a worker that has
  not read its EHLO has sent none.
- `RepliesAnswerLatestRequest`: a worker's request under way, its reply under way and the
  reply recorded are together at most one, and every step passes that one on
  (`OccurrencesAppend`, `OccurrencesTail` count it). `RepliesFollowEhlo` is used again: a
  HELO finds no commands of before.
- `OutstandingJobsReachWorkers`, if `late_route` is no fault: the router knows a running
  worker (`RoutesOpen`), so what is recorded was also sent. With it the run `late_route` shows the
  opposite.
- `LiveWorkersAreKept`, if `slow` is no fault: an action property. Whoever `send_heartbeats`
  dismisses owes an overdue answer, and that is a dead worker (`OverdueIsDead`).
- `WorkNeverStandsStill`, if neither `slow` nor `late_route` is a fault: while workers live and
  results are missing, a job or a result is on its way or with a worker. This is the safety
  part of `ServeWorkEnds`. It needs `FullWhileWaiting`: as long as nobody was dismissed a
  job waits on the queue only while every worker's queue is full, since whoever frees a place
  (a result) or adds one (a HELO) calls `transmit_work`, and so does the loop at line 193 for
  those who were there before the stage. Then either some worker's queue is not empty,
  and what is recorded there is carried (`OutstandingReachesWorker`), or no job is left
  anywhere and all files are complete. Finding 3 is the case it excludes.

Three more results state what no run checks separately:

- `ForgottenAreReleased`, if `late_route` is no fault: a worker that the server has heard of
  and no longer knows has BYE before it. (One registered after
  `dismiss_workers` is still known, see Findings.)
- `ServerKeepsOrder`, under every fault, is what `WorkerThreads` takes for granted of the server: it
  sends no job to a worker that has it or has answered it on the way, nothing
  after BYE, and BYE once. With `LedgerKept`, which says that a completed job stays so, no
  worker gets a job twice, as `unsent` has it there. So what
  `ThreadsImplementPeer` assumes of the server follows from the server's own theorems; that last
  step, from one module's variables to the other's, is this argument and not a checked proof.
- `DismissalNeverPutOff`, under every fault, is what `DeadWorkerDismissed` rests on. `DelaysLeft` counts what can still come between a dead worker and its dismissal: the
  interval that has not passed, a reply recorded, replies still to be read. No step raises the
  count, and each that fairness promises lowers it (the clock; reading a
  reply; `send_heartbeats` once the request is overdue). At zero
  `send_heartbeats` has nothing to lower and dismisses.

`ClusterImplementsLedger` (`LedgerProofs`) is the refinement: `Spec => LedgerKept`. Its lemma
`LocatedHolds` says that the mapping puts each file in exactly one place: since queues
are disjoint and completed jobs in none (`IInv`), `WorkerOf` chooses the one holder
there is. Each action of `Cluster` then is a step of `JobLedger` or leaves both `stage` and
`holder` alone: handing out (several jobs at once), a completion together with the
handing out that follows it, the return of a dismissed worker's jobs, the end of
a stage. `PlacesAssumption`, that no worker is called `"pool"` or `"done"`, only keeps the
names of places apart.

For any number of background threads and any files (`WorkerThreadsProofs`): `TypeCorrect`,
`InvariantHolds`, `NoJobIsSleptOn`, `ByeWakesEveryThread`, `SocketsCloseLast`, `NoJobIsDoneTwice`
and the refinement `ThreadsImplementPeer`. The properties on wake-ups are counts: a step takes a
token and moves one thread, so that both sides of the inequality change by one, or it
adds a token with the job. What makes them inductive is where the threads can be in
each state of the connection (`StateOfMain`, `NothingBeforeEhlo`, `ThreadsJoined`: before EHLO
nobody works, before BYE nobody ends) and `JobsApart`, which follows a job from
the server's hand on and says that a thread has one job at a time. The refinement needs
the same: closing the sockets is a step of `WorkerPeer` only as no thread has a job any more.

`ThreadsNeverStuck` and `ByeEndsEveryLoop` are what `ConnectionEnds` rests on. The first says that
after BYE every thread that has not ended can move, but for the one in `run()`, which waits for
one that can: no cycle of joins and semaphores is possible. "Can move" is spelt out as
guards (`BackgroundCanMove` and its like), not as `ENABLED`. It needs `DyingWakesAll`, and that
`finishedSemaphore` is released before anyone waits for it (`StartedAndFinished`). The
second is a variant: `StepsLeft` adds up how far each thread is from its end (as cardinalities
of the sets of threads at certain places) and two steps per scheduled job, and every
step lowers it.

For the server's mutexes (`ServerLocksProofs`): `WorkerMutexIsFirst`, `OnlyKnownRaces` and
`ThreadsNeverDeadlock`. The run visits all states of `ServerLocks`; the proof says why they are
as they are, operation by operation. It is
a proof outline of each operation, in the manner of Owicki and Gries: how often each mutex is held
before each action. `Outlined` code may be put in a row or under a mutex and stays so, and
every operation is made in these ways, so each has its outline without a look at the
interleavings. `LocksInv` says that what is left of each thread's operation continues an
outline from what the thread holds; as no outline holds `work_mutex` without
`worker_mutex`, the owner of `work_mutex` is never blocked.

For any commands, images and chunk size (`TransferProofs`): `TypeCorrect`; `TransferInvariant`,
that each loop's sum is what the chunks behind it hold (`Covered`) and the bytes
behind it are the image's; and from it `ChunksAlwaysFit`, `CopiesStayWithin`, `ImageIsReceived`.
The arithmetic is in lemmas on `ChunkCount` and `Covered`: the last chunk is what is left, and
neither empty nor out of range. That `SizeValues` exceeds every image keeps the subtraction from
wrapping around. `CommandInvariant` ties the message to the command: with `DecodeEncoded`, that
each class of command comes out of its message as it went in and satisfies every
assertion on the way, it gives `CommandIsReceived`; with `Answers`, that a result has type
and file of its job, `ResultsFindTheirJob`. `TiffsAssumption` says that images have one of the sizes
considered, and that the empty one, which stands for "no image", is among them.

For every number of bins and any two histograms (`EqualisationProofs`): `TypeCorrect`,
`WalkInvariant`, `MappingIsMonotone` (the assertion of algorithm.cpp:167 cannot fail),
`QuantilesAreMatched` and `LinearMapIsLinear`. `WalkInv` says that both cumulative proportions
are those of the bins the walk is at, that the previous image is at most one bin ahead, and that
what is behind is mapped in order and by rank; "one bin ahead" is what ranks need, and is true
only because of the branch taken. The order is stated of any two bins behind, not of
neighbours, so that no induction over bins is needed. `LinearMapIsLinear` is about products and
quotients of variables: `DivisionUnique` finds the bin below a pixel from the one `round()`
gives, on either side of it (`LinearMapInterpolates`), and `Between` compares two points of a
line, or of two lines one after the other (`InterpolatedRises`). `WalkIsBounded` is the variant
behind `WalkEnds`: each step lowers `StepsLeft`, the bins left on both sides.

For any number of servers, routes and names and any faults (`DiscoveryProofs`): `TypeCorrect`,
`ListInvariant`, `ConnectionsAreCounted`, `ServedStaysListed`, `PopsTheServedServer`,
`ListAssertionsHold` (only a missing argument, or an EHLO that is missing or late, terminates a
worker), `WorkerNeverStuck` (it
waits for an entry only while none is listed, and for a discovery thread only when that is
ending); and `CleanStop`, without the faults `start` and `failure`. `TypeCorrect` needs that a server
has a name before anyone resolves it (`NamedWhenSeen`), `DiscoveryInv` that a worker
that serves once lists nothing until it has found a server, and one only then.

Assumptions: `FilesAssumption` (finite, not empty: the code dereferences the
first histogram), `ServerAssumption`, `WorkersAssumption`, and `PlacesAssumption` above. (`WorkerThreads`
has two of its own: at least one background thread, though `hardware_concurrency()` may return 0,
and a single connection. Those of the other modules say that chunks and bins are at least one,
that images fit into a `size_t`, and that a worker has a command line.) Five theorems have a
hypothesis on `Faults`, which names the only faults that break them.

Model-checked only:

- Liveness, which is beyond the prover as is anything about `ENABLED`: `ServeWorkEnds`,
  `WorkersReleased`, `DeadWorkerDismissed`, `ConnectionEnds`, `ScheduledJobsDone`, `WalkEnds`,
  `RunningServersFound`, `EntriesTaken`, `WorkerEnds`. For five of them the proofs
  have the safety part: that something can go on (`ServeWorkEnds`, `WorkerEnds`), that it
  cannot for ever (`WalkEnds`), or both (`ConnectionEnds`, `DeadWorkerDismissed`).
- The four findings, as counterexamples.

## Not modelled

- Undefined behaviour inside libraries: two threads in one ZeroMQ socket, and two
  in one `std::queue`. Each operation is a step of its own in the model.
- `ServerWorkVisitor::visit_bye` and the server's answer to a heartbeat *request*:
  no worker sends either. Handlers that ignore their message do nothing.
- A directory without files; exceptions; corrupted messages; files that cannot be
  written, and those a second run over a directory would take for its input.
- The words of a Cap'n Proto message, and its limit of size; the text of a TXT record.
- What ImageMagick does: reading and writing images, the layout of their pixels
  (`image_equalise` takes them to have three channels). `EqualisationBand`, `has_jobs`,
  `remove_server` and most comparisons of commands, which nothing uses.
- Failures of the worker's own calls of Avahi, for a poll object, a client, a browser or a
  resolver. A second server process on a host is another member of `Servers`.
- Crashes of the server: nothing is persisted, and its workers hold nothing that
  outlives it. They do wait for it for ever, as for a BYE that was lost.

## Plan

All components are modelled as far as the section above says, and every safety property and
refinement that a run checks for one instance of many is proved for all. What is left is a
variant for `serve_work` as a whole, like `StepsLeft` of `WorkerThreads`: the jobs not yet
completed and the places each still has to pass. `WorkNeverStandsStill` and `LedgerKept` are
two thirds of it; a job that goes back onto the queue raises it, by a bound on dismissals.
