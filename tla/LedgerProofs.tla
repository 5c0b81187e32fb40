----------------------------- MODULE LedgerProofs -----------------------------
(***************************************************************************)
(* The server, with the workers that come and go, implements JobLedger:    *)
(* proof of LedgerKept, by the refinement mapping of Cluster.              *)
(***************************************************************************)
EXTENDS ClusterSafetyProofs

\* What the mapping makes of the places a job can be in.
Located ==
  \A f \in Files :
    /\ Waiting(f) => HolderOf(f) = "pool"
    /\ \A w \in Workers : StageJob(f) \in Queue(w) => HolderOf(f) = w
    /\ Completed(f) => HolderOf(f) = "done"
    /\ Waiting(f) \/ Completed(f) \/ \E w \in Workers : StageJob(f) \in Queue(w)

\* The stage is finished only when every job is done.
FinishedDone == StageOfPhase = "finished" => \A f \in Files : HolderOf(f) = "done"

LEMMA LocatedHolds == IInv => Located
<1> SUFFICES ASSUME IInv, NEW f \in Files
             PROVE  /\ Waiting(f) => HolderOf(f) = "pool"
                    /\ \A w \in Workers : StageJob(f) \in Queue(w) => HolderOf(f) = w
                    /\ Completed(f) => HolderOf(f) = "done"
                    /\ Waiting(f) \/ Completed(f) \/ \E w \in Workers : StageJob(f) \in Queue(w)
  BY DEF Located
<1>1. TypeOK /\ Registered \subseteq Workers
  BY DEF IInv, TypeOK, ServerTypeOK, Registered
<1>2. \A w : w \in HoldersOf(f) <=> w \in Workers /\ StageJob(f) \in Queue(w)
  BY <1>1 DEF HoldersOf, Queue
<1>3. ASSUME NEW w \in Workers, StageJob(f) \in Queue(w)
      PROVE  HolderOf(f) = w
  <2>1. HoldersOf(f) = {w}
    <3>1. \A v \in Workers : v # w => StageJob(f) \notin Queue(v)
      BY <1>3 DEF IInv, QueuesDisjoint
    <3>2. HoldersOf(f) \subseteq Workers
      BY <1>2
    <3> QED
      BY <1>2, <1>3, <3>1, <3>2
  <2>2. ~ Waiting(f)
    <3>1. StageJob(f) \notin enqueued_work
      BY <1>3 DEF IInv, QueuesDisjoint
    <3>2. f \notin unpushed
      BY <1>3 DEF IInv, UnpushedNowhere, StageJob
    <3> QED
      BY <3>1, <3>2 DEF Waiting
  <2>3. WorkerOf(f) = w
    BY <2>1 DEF WorkerOf
  <2> QED
    BY <2>1, <2>2, <2>3 DEF HolderOf, Completed
<1>4. Completed(f) => Collected(f)
  BY DEF IInv, HistogramsExact, ImagesExact, Collected
<1>5. Completed(f) => HolderOf(f) = "done"
  BY <1>4 DEF HolderOf, Completed
<1>6. Waiting(f) => HolderOf(f) = "pool"
  <2>1. Waiting(f) => \A w \in Workers : StageJob(f) \notin Queue(w)
    BY DEF Waiting, IInv, QueuesDisjoint, UnpushedNowhere, StageJob
  <2>2. Waiting(f) => HoldersOf(f) = {}
    BY <1>2, <2>1
  <2> QED
    BY <2>2 DEF HolderOf, Completed
<1> QED
  BY <1>2, <1>3, <1>5, <1>6 DEF Completed

LEMMA FinishedDoneHolds == IInv => FinishedDone
<1> SUFFICES ASSUME IInv, StageOfPhase = "finished", NEW f \in Files
             PROVE  HolderOf(f) = "done"
  BY DEF FinishedDone
<1>1. Completed(f)
  BY EqualisationOver DEF CompletedFiles
<1> QED
  BY <1>1, LocatedHolds DEF Located

LEMMA LocatedNext == IInv' => Located' /\ FinishedDone'
  BY LocatedHolds, FinishedDoneHolds, PTL

-----------------------------------------------------------------------------
(* Steps of the cluster are steps of the ledger, or stutter *)

LedgerStep == Ledger!LedgerNext \/ UNCHANGED Ledger!ledgerVars

\* No job changes place, nor the stage.
LEMMA StillLedger ==
  ASSUME StageOfPhase' = StageOfPhase, \A f \in Files : HolderOf(f)' = HolderOf(f)
  PROVE  LedgerStep
<1>1. [f \in Files |-> HolderOf(f)]' = [f \in Files |-> HolderOf(f)]
  OBVIOUS
<1> QED
  BY <1>1 DEF LedgerStep, Ledger!ledgerVars

\* Nothing happens to jobs after the last stage.
LEMMA FinishedStep ==
  ASSUME IInv, IInv', StageOfPhase = "finished", StageOfPhase' = "finished"
  PROVE  LedgerStep
<1>1. \A f \in Files : HolderOf(f) = "done" /\ HolderOf(f)' = "done"
  BY FinishedDoneHolds, LocatedNext DEF FinishedDone
<1> QED
  BY <1>1, StillLedger

\* A job is where it was when it is waiting, and in the queues, as before.
LEMMA SameHolder ==
  ASSUME IInv, IInv', NEW f \in Files,
         Waiting(f)' <=> Waiting(f),
         \A w \in Workers : StageJob(f)' \in Queue(w)' <=> StageJob(f) \in Queue(w)
  PROVE  HolderOf(f)' = HolderOf(f)
<1>1. Located /\ Located'
  BY LocatedHolds, LocatedNext
<1>2. CASE Waiting(f)
  BY <1>1, <1>2 DEF Located
<1>3. CASE \E w \in Workers : StageJob(f) \in Queue(w)
  BY <1>1, <1>3 DEF Located
<1>4. CASE Completed(f)
  <2>1. ~ Waiting(f) /\ \A w \in Workers : StageJob(f) \notin Queue(w)
    BY <1>4, CompletedByQueues DEF Completed, IInv
  <2> QED
    BY <1>1, <1>4, <2>1 DEF Located
<1> QED
  BY <1>1, <1>2, <1>3, <1>4 DEF Located

\* A step that moves no job from queue to queue and stays in its stage.
LEMMA StillQueues ==
  ASSUME IInv, IInv', UNCHANGED <<enqueued_work, unpushed>>,
         \A w \in Workers : Queue(w)' = Queue(w),
         phase' = "receive_histograms" <=> phase = "receive_histograms",
         StageOfPhase' = StageOfPhase
  PROVE  LedgerStep
<1>1. \A f \in Files : StageJob(f)' = StageJob(f)
  BY DEF StageJob
<1>2. \A f \in Files : HolderOf(f)' = HolderOf(f)
  BY <1>1, SameHolder DEF Waiting
<1> QED
  BY <1>2, StillLedger

\* transmit_work to w, after the jobs of erased left its queue: those are done,
\* the batch leaves the pool.
LEMMA TransmitWorkMoves ==
  ASSUME IInv, IInv', NEW w \in Workers, NEW data \in WorkerData,
         NEW batch \in SUBSET enqueued_work, TransmitWork(w, data, batch),
         NEW erased \in SUBSET Queue(w), data.work = Queue(w) \ erased,
         phase' = "receive_histograms" <=> phase = "receive_histograms",
         UNCHANGED unpushed,
         NEW f \in Files
  PROVE  /\ HolderOf(f)' = IF StageJob(f) \in erased THEN "done"
                           ELSE IF StageJob(f) \in batch THEN w ELSE HolderOf(f)
         /\ StageJob(f) \in batch => HolderOf(f) = "pool"
         /\ StageJob(f) \in erased => HolderOf(f) = w
<1>1. Located /\ Located'
  BY LocatedHolds, LocatedNext
<1>2. TypeOK /\ TypeOK'
  BY DEF IInv
<1>3. /\ enqueued_work' = enqueued_work \ batch
      /\ Queue(w)' = (Queue(w) \ erased) \cup batch
      /\ \A v \in Workers : v # w => Queue(v)' = Queue(v)
  BY <1>2, TransmitWorkEffect
<1>4. StageJob(f)' = StageJob(f)
  BY DEF StageJob
<1>5. StageJob(f) \in Queue(w) => /\ f \notin unpushed
                                  /\ StageJob(f) \notin enqueued_work
                                  /\ \A v \in Workers : v # w => StageJob(f) \notin Queue(v)
  BY DEF IInv, QueuesDisjoint, UnpushedNowhere, StageJob
<1>6. CASE StageJob(f) \in erased
  <2>1. Completed(f)'
    <3>1. \A v \in Workers : StageJob(f)' \notin Queue(v)'
      BY <1>3, <1>4, <1>5, <1>6
    <3> QED
      BY <1>2, <1>3, <1>4, <1>5, <1>6, <3>1, CompletedByQueuesNext
  <2> QED
    BY <1>1, <1>5, <1>6, <2>1 DEF Located
<1>7. CASE StageJob(f) \in batch
  <2>1. StageJob(f) \notin Queue(w)
    BY <1>5, <1>7
  <2>2. Waiting(f)
    BY <1>7 DEF Waiting
  <2>3. StageJob(f)' \in Queue(w)'
    BY <1>3, <1>4, <1>7
  <2> QED
    BY <1>1, <1>7, <2>1, <2>2, <2>3 DEF Located
<1>8. CASE StageJob(f) \notin erased \cup batch
  <2>1. Waiting(f)' <=> Waiting(f)
    BY <1>3, <1>4, <1>8 DEF Waiting
  <2>2. \A v \in Workers : StageJob(f)' \in Queue(v)' <=> StageJob(f) \in Queue(v)
    BY <1>3, <1>4, <1>8
  <2> QED
    BY <1>8, <2>1, <2>2, SameHolder
<1> QED
  BY <1>6, <1>7, <1>8

-----------------------------------------------------------------------------
(* The steps that hand out jobs *)

FilesOf(batch) == {f \in Files : StageJob(f) \in batch}

\* transmit_work to a worker whose queue it only adds to.
LEMMA AssignStep ==
  ASSUME IInv, IInv', NEW w \in Workers, NEW data \in WorkerData,
         NEW batch \in SUBSET enqueued_work, TransmitWork(w, data, batch),
         data.work = Queue(w), UNCHANGED <<phase, unpushed>>
  PROVE  LedgerStep
<1>1. StageOfPhase' = StageOfPhase
  BY DEF StageOfPhase
<1>2. PICK erased \in SUBSET Queue(w) : erased = {}
  OBVIOUS
<1>3. data.work = Queue(w) \ erased
  BY <1>2
<1>4. \A f \in Files :
        /\ HolderOf(f)' = IF StageJob(f) \in batch THEN w ELSE HolderOf(f)
        /\ StageJob(f) \in batch => HolderOf(f) = "pool"
  BY <1>2, <1>3, TransmitWorkMoves
<1>5. CASE StageOfPhase = "finished"
  BY <1>1, <1>5, FinishedStep
<1>6. CASE StageOfPhase # "finished"
  <2>1. FilesOf(batch) \in SUBSET Files
    BY DEF FilesOf
  <2>2. Ledger!Assign(w, FilesOf(batch))
    BY <1>1, <1>4, <1>6 DEF Ledger!Assign, Ledger!HeldBy, Ledger!Move, FilesOf
  <2> QED
    BY <2>1, <2>2 DEF LedgerStep, Ledger!LedgerNext
<1> QED
  BY <1>5, <1>6

LEMMA ServeExistingLedger ==
  ASSUME IInv, IInv', NEW w \in Workers, ServeExisting(w)
  PROVE  LedgerStep
<1>1. w \in Registered /\ worker_queues[w] \in WorkerData /\ worker_queues[w].work = Queue(w)
  BY DEF ServeExisting, IInv, ExistingRegistered, TypeOK, ServerTypeOK, Queue, Registered
<1>2. PICK batch \in SUBSET enqueued_work : TransmitWork(w, worker_queues[w], batch)
  BY DEF ServeExisting, Batches
<1>3. UNCHANGED <<phase, unpushed>>
  BY DEF ServeExisting
<1> QED
  BY <1>1, <1>2, <1>3, AssignStep

LEMMA VisitHeloLedger ==
  ASSUME IInv, IInv', NEW w \in Workers, VisitHelo(w)
  PROVE  LedgerStep
<1>1. Registration(w) \in WorkerData
  BY RegistrationType DEF IInv
<1>2. Registration(w).work = Queue(w)
  BY DEF Registration, Queue, Registered
<1>3. PICK batch \in SUBSET enqueued_work : TransmitWork(w, Registration(w), batch)
  BY DEF VisitHelo, Batches
<1>4. UNCHANGED <<phase, unpushed>>
  BY DEF VisitHelo, stageVars
<1> QED
  BY <1>1, <1>2, <1>3, <1>4, AssignStep

-----------------------------------------------------------------------------
(* The steps that receive results *)

\* A result gets its sender's job done, and its sender more jobs.
LEMMA CompleteStep ==
  ASSUME IInv, IInv', NEW w \in Registered, NEW r \in work_to_server[w],
         CompleteJob(w, r), UNCHANGED unpushed,
         phase' = "receive_histograms" <=> phase = "receive_histograms",
         StageOfPhase # "finished", StageOfPhase' = StageOfPhase
  PROVE  LedgerStep
<1> DEFINE Erased(job) == [worker_queues[w] EXCEPT !.work = @ \ {job}]
<1>1. w \in Workers /\ worker_queues[w] \in WorkerData /\ r \in Jobs
  BY JobEquality DEF IInv, TypeOK, ServerTypeOK, NetworkTypeOK, Registered
<1>2. PICK job \in worker_queues[w].work :
        /\ Matches(job, r)
        /\ \E batch \in Batches(Erased(job)) : TransmitWork(w, Erased(job), batch)
  BY DEF CompleteJob
<1>3. job = r /\ worker_queues[w].work = Queue(w) /\ r \in Queue(w)
  <2>1. job \in Jobs
    BY <1>1 DEF WorkerData
  <2> QED
    BY <1>1, <1>2, <2>1, JobEquality DEF Queue
<1>4. Erased(job) \in WorkerData /\ Erased(job).work = Queue(w) \ {r}
  BY <1>1, <1>3 DEF WorkerData
<1> HIDE DEF Erased
<1>5. PICK batch \in SUBSET enqueued_work : TransmitWork(w, Erased(job), batch)
  BY <1>2 DEF Batches
<1>6. PICK erased \in SUBSET Queue(w) : erased = {r}
  BY <1>3
<1>7. Erased(job).work = Queue(w) \ erased
  BY <1>4, <1>6
<1>8. \A f \in Files :
        /\ HolderOf(f)' = IF StageJob(f) = r THEN "done"
                          ELSE IF StageJob(f) \in batch THEN w ELSE HolderOf(f)
        /\ StageJob(f) \in batch => HolderOf(f) = "pool"
        /\ StageJob(f) = r => HolderOf(f) = w
  BY <1>1, <1>4, <1>5, <1>6, <1>7, TransmitWorkMoves
<1>9. PICK g \in Files : StageJob(g) = r /\ \A f \in Files : StageJob(f) = r => f = g
  <2>1. r.filename \in Files /\ r.type = StageType
    BY <1>1, <1>3 DEF Jobs, IInv, OnlyStageJobs
  <2>2. StageJob(r.filename) = r
    BY <1>1, <2>1, StageJobFacts, JobEquality
  <2> QED
    BY <2>1, <2>2, StageJobFacts
<1>10. FilesOf(batch) \in SUBSET Files
  BY DEF FilesOf
<1>11. Ledger!Complete(w, g, FilesOf(batch))
  BY <1>8, <1>9 DEF Ledger!Complete, Ledger!HeldBy, FilesOf
<1> QED
  BY <1>1, <1>10, <1>11 DEF LedgerStep, Ledger!LedgerNext

LEMMA ReceiveLedger ==
  ASSUME IInv, IInv', NEW w \in Workers, NEW r \in Results,
         ReceiveHistogramResult(w, r) \/ ReceiveEqualisedResult(w, r)
  PROVE  LedgerStep
<1>1. /\ r \in work_to_server[w]
      /\ UNCHANGED unpushed
      /\ phase' = "receive_histograms" <=> phase = "receive_histograms"
      /\ StageOfPhase # "finished" /\ StageOfPhase' = StageOfPhase
  BY DEF ReceiveHistogramResult, ReceiveEqualisedResult, ReceiveWork, StageOfPhase
<1>2. r.type = IF phase = "receive_histograms" THEN "HISTOGRAM" ELSE "EQUALISATION"
  BY <1>1 DEF IInv, OnlyStageJobs, Carried, StageType
<1>3. CASE w \in Registered
  <2>1. CompleteJob(w, r)
    BY <1>2, <1>3 DEF ReceiveHistogramResult, ReceiveEqualisedResult, Registered
  <2> QED
    BY <1>1, <1>3, <2>1, CompleteStep
<1>4. CASE w \notin Registered
  <2>1. UNCHANGED <<enqueued_work, worker_queues>>
    BY <1>4 DEF ReceiveHistogramResult, ReceiveEqualisedResult, Registered
  <2>2. \A v \in Workers : Queue(v)' = Queue(v)
    BY <2>1 DEF Queue, Registered
  <2> QED
    BY <1>1, <2>1, <2>2, StillQueues
<1> QED
  BY <1>3, <1>4

-----------------------------------------------------------------------------
(* The ends of the stages, and dismissals *)

LEMMA HistogramsCompleteLedger ==
  ASSUME IInv, IInv', HistogramsComplete
  PROVE  LedgerStep
<1>1. CompletedFiles = Files
  BY HistogramsOver DEF HistogramsComplete
<1>2. enqueued_work = {}
  BY <1>1, NothingLeft
<1>3. StageOfPhase = "histograms" /\ StageOfPhase' = "equalisation"
  BY <1>2 DEF HistogramsComplete, StageOfPhase
<1>4. \A f \in Files : HolderOf(f) = "done"
  BY <1>1, LocatedHolds DEF CompletedFiles, Located
<1>5. \A f \in Files : HolderOf(f)' = "pool"
  BY LocatedNext DEF Located, HistogramsComplete, Waiting
<1>6. Ledger!StartEqualisation
  BY <1>3, <1>4, <1>5 DEF Ledger!StartEqualisation, Ledger!AllDone, Ledger!HeldBy, Ledger!Move
<1> QED
  BY <1>6 DEF LedgerStep, Ledger!LedgerNext

\* A job is in the pool before it is pushed: the ledger knows no difference.
LEMMA PushEqualisationJobLedger ==
  ASSUME IInv, IInv', NEW g \in Files, PushEqualisationJob(g)
  PROVE  LedgerStep
<1>1. /\ phase = "queue_equalisation" /\ phase' = phase
      /\ g \in unpushed
      /\ unpushed' = unpushed \ {g}
      /\ enqueued_work' = enqueued_work \cup {EqualisationJob(g)}
      /\ UNCHANGED worker_queues
  BY DEF PushEqualisationJob
<1>2. \A f \in Files : StageJob(f) = EqualisationJob(f) /\ StageJob(f)' = EqualisationJob(f)
  BY <1>1 DEF StageJob
<1>3. \A f \in Files : EqualisationJob(f) = EqualisationJob(g) => f = g
  BY JobEquality
<1>4. \A f \in Files : Waiting(f)' <=> Waiting(f)
  BY <1>1, <1>2, <1>3 DEF Waiting
<1>5. \A w \in Workers : Queue(w)' = Queue(w)
  BY <1>1 DEF Queue, Registered
<1>6. \A f \in Files : HolderOf(f)' = HolderOf(f)
  BY <1>2, <1>4, <1>5, SameHolder
<1>7. StageOfPhase' = StageOfPhase
  BY <1>1 DEF StageOfPhase
<1> QED
  BY <1>6, <1>7, StillLedger

\* send_heartbeats takes the jobs of those it dismisses back into the pool, unless
\* all are done: then it ends the stage.
LEMMA SendHeartbeatsLedger ==
  ASSUME IInv, IInv', SendHeartbeats
  PROVE  LedgerStep
<1>1. Located /\ Located' /\ FinishedDone'
  BY LocatedHolds, LocatedNext
<1>2. TypeOK /\ Registered \subseteq Workers /\ Unanswered \subseteq Registered
  BY DEF IInv, TypeOK, ServerTypeOK, Registered, Unanswered
<1>3. /\ phase = "send_heartbeats"
      /\ phase' = IF MoreImages THEN "receive_equalised" ELSE "dismiss_workers"
      /\ enqueued_work' = enqueued_work \cup UNION {worker_queues[w].work : w \in Unanswered}
      /\ UNCHANGED unpushed
  BY DEF SendHeartbeats, ReleasedWork, stageVars
<1>4. StageOfPhase = "equalisation" /\ \A f \in Files : StageJob(f)' = StageJob(f)
  BY <1>3 DEF StageOfPhase, StageJob
<1>5. CASE ~ MoreImages
  <2>1. \A f \in Files : HolderOf(f) = "done"
    BY <1>1, <1>3, <1>5, EqualisationOver DEF CompletedFiles, Located
  <2>2. StageOfPhase' = "finished"
    BY <1>3, <1>5 DEF StageOfPhase
  <2>3. [f \in Files |-> HolderOf(f)]' = [f \in Files |-> HolderOf(f)]
    BY <1>1, <2>1, <2>2 DEF FinishedDone
  <2>4. Ledger!Finish
    BY <1>4, <2>1, <2>2, <2>3 DEF Ledger!Finish, Ledger!AllDone, Ledger!HeldBy
  <2> QED
    BY <2>4 DEF LedgerStep, Ledger!LedgerNext
<1>6. CASE MoreImages
  <2>1. StageOfPhase' = "equalisation"
    BY <1>3, <1>6 DEF StageOfPhase
  <2>2. \A w \in Unanswered : worker_queues[w].work = Queue(w)
    BY <1>2 DEF Queue
  <2>3. \A w \in Workers : Queue(w)' = IF w \in Unanswered THEN {} ELSE Queue(w)
    <3>1. Registered' = Registered \ Unanswered
      BY DEF SendHeartbeats, Registered
    <3>2. \A w \in Registered : Requested(worker_queues[w]).work = worker_queues[w].work
      BY <1>2 DEF Requested, TypeOK, ServerTypeOK, WorkerData, Registered
    <3>3. \A w \in Registered' : worker_queues'[w].work = worker_queues[w].work
      BY <3>1, <3>2 DEF SendHeartbeats, Registered
    <3> QED
      BY <3>1, <3>3 DEF Queue
  <2>4. ASSUME NEW f \in Files
        PROVE  HolderOf(f)' = IF HolderOf(f) \in Unanswered THEN "pool" ELSE HolderOf(f)
    <3>1. CASE \E w \in Unanswered : StageJob(f) \in Queue(w)
      <4>1. PICK w \in Unanswered : StageJob(f) \in Queue(w)
        BY <3>1
      <4>2. HolderOf(f) = w
        BY <1>1, <1>2, <4>1 DEF Located
      <4>3. Waiting(f)'
        BY <1>3, <1>4, <2>2, <4>1 DEF Waiting
      <4> QED
        BY <1>1, <4>1, <4>2, <4>3 DEF Located
    <3>2. CASE \A w \in Unanswered : StageJob(f) \notin Queue(w)
      <4>1. Waiting(f)' <=> Waiting(f)
        BY <1>3, <1>4, <2>2, <3>2 DEF Waiting
      <4>2. \A w \in Workers : StageJob(f)' \in Queue(w)' <=> StageJob(f) \in Queue(w)
        BY <1>4, <2>3, <3>2
      <4>3. HolderOf(f)' = HolderOf(f)
        BY <4>1, <4>2, SameHolder
      <4>4. HolderOf(f) \notin Unanswered
        <5>1. "pool" \notin Unanswered /\ "done" \notin Unanswered
          BY <1>2, PlacesAssumption
        <5> QED
          BY <1>1, <1>2, <3>2, <5>1 DEF Located
      <4> QED
        BY <4>3, <4>4
    <3> QED
      BY <3>1, <3>2
  <2>5. Ledger!Release(Unanswered)
    BY <1>4, <2>1, <2>4 DEF Ledger!Release, Ledger!Move
  <2>6. Unanswered \in SUBSET Workers
    BY <1>2
  <2> QED
    BY <2>5, <2>6 DEF LedgerStep, Ledger!LedgerNext
<1> QED
  BY <1>5, <1>6

-----------------------------------------------------------------------------
(* The refinement *)

LEMMA LedgerInitMap == Init => Ledger!LedgerInit
<1> SUFFICES ASSUME Init PROVE Ledger!LedgerInit
  OBVIOUS
<1>1. StageOfPhase = "histograms"
  BY DEF Init, ServerInit, StageOfPhase
<1>2. \A f \in Files : Waiting(f)
  BY DEF Init, ServerInit, Waiting, StageJob
<1>3. \A f \in Files : HolderOf(f) = "pool"
  BY <1>2, IInvInit, LocatedHolds DEF Located
<1> QED
  BY <1>1, <1>3 DEF Ledger!LedgerInit

LEMMA LedgerNextMap == IInv /\ IInv' /\ [Next]_vars => LedgerStep
<1> SUFFICES ASSUME IInv, IInv', [Next]_vars PROVE LedgerStep
  OBVIOUS
<1>1. CASE \E w \in Workers, r \in Results :
             ReceiveHistogramResult(w, r) \/ ReceiveEqualisedResult(w, r)
  BY <1>1, ReceiveLedger
<1>2. CASE HistogramsComplete
  BY <1>2, HistogramsCompleteLedger
<1>3. CASE \E f \in Files : PushEqualisationJob(f)
  BY <1>3, PushEqualisationJobLedger
<1>4. CASE \E w \in Workers : ServeExisting(w)
  BY <1>4, ServeExistingLedger
<1>5. CASE SendHeartbeats
  BY <1>5, SendHeartbeatsLedger
<1>6. CASE DismissWorkers
  BY <1>6, FinishedStep DEF DismissWorkers, StageOfPhase
<1>7. CASE StartEqualising \/ ServeExistingStarts \/ ExistingServed \/ ReceiveTimeout
           \/ StopCommunication \/ Exit
  <2>1. UNCHANGED <<enqueued_work, unpushed, worker_queues>>
    BY <1>7 DEF StartEqualising, ServeExistingStarts, ExistingServed, ReceiveTimeout,
                StopCommunication, Exit, stageVars
  <2>2. \A w \in Workers : Queue(w)' = Queue(w)
    BY <2>1 DEF Queue, Registered
  <2>3. /\ phase # "receive_histograms" /\ phase' # "receive_histograms"
        /\ StageOfPhase' = StageOfPhase
    BY <1>7 DEF StartEqualising, ServeExistingStarts, ExistingServed, ReceiveTimeout,
                StopCommunication, Exit, StageOfPhase
  <2> QED
    BY <2>1, <2>2, <2>3, StillQueues
<1>8. CASE \E w \in Workers : VisitHelo(w)
  BY <1>8, VisitHeloLedger
<1>9. CASE \E w \in Workers : VisitHeartbeatReply(w) \/ IntervalPasses(w)
  <2>1. UNCHANGED <<phase, enqueued_work, unpushed>>
    BY <1>9 DEF VisitHeartbeatReply, IntervalPasses, stageVars
  <2>2. \A w \in Workers : Queue(w)' = Queue(w)
    BY <1>9 DEF VisitHeartbeatReply, IntervalPasses, IInv, TypeOK, ServerTypeOK,
                WorkerData, Queue, Registered
  <2> QED
    BY <2>1, <2>2, StillQueues DEF StageOfPhase
<1>10. CASE \/ CommunicationStops \/ UNCHANGED vars
            \/ \E w \in Workers : StartWorker(w) \/ WorkerStep(w) \/ WorkerFault(w)
                                   \/ RouteFound(w)
  <2>1. UNCHANGED <<phase, enqueued_work, unpushed, worker_queues>>
    BY <1>10 DEF CommunicationStops, StartWorker, WorkerStep, WorkerFault, RouteFound,
                 vars, serverVars
  <2>2. \A w \in Workers : Queue(w)' = Queue(w)
    BY <2>1 DEF Queue, Registered
  <2> QED
    BY <2>1, <2>2, StillQueues DEF StageOfPhase
<1> QED
  BY <1>1, <1>2, <1>3, <1>4, <1>5, <1>6, <1>7, <1>8, <1>9, <1>10
     DEF Next, ServerNext, WorkStep

\* The server keeps the promise of JobLedger, over joins, lost messages, crashes and
\* dismissals: only the worker that has a job gets it done, a completed job stays so,
\* jobs return to the pool only by dismissal in the second stage, and a stage ends
\* when all its jobs are done.
THEOREM ClusterImplementsLedger == Spec => LedgerKept
<1>1. IInv /\ IInv' /\ [Next]_vars => [Ledger!LedgerNext]_(Ledger!ledgerVars)
  BY LedgerNextMap DEF LedgerStep
<1> QED
  BY InvariantHolds, LedgerInitMap, <1>1, PTL DEF Spec, LedgerKept, Ledger!LedgerSpec
=============================================================================
