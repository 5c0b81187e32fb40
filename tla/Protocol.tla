------------------------------ MODULE Protocol ------------------------------
(***************************************************************************)
(* The vocabulary of commands exchanged by an Exposure server and its      *)
(* workers (protocol.hpp, protocol.cpp): the jobs, the results that answer *)
(* them and the comparison that pairs a result with a job.  Payloads       *)
(* (histograms, mappings, TIFF data) are left out: nothing in the          *)
(* distribution of work depends on them.                                   *)
(***************************************************************************)
EXTENDS FiniteSets

CONSTANT Files        \* the regular files of the served directory

\* serve_work dereferences histograms.begin() (server.cpp:78-86), which is
\* undefined for a directory without files: the model starts with at least one.
ASSUME FilesAssumption == IsFiniteSet(Files) /\ Files # {}

JobType == {"HISTOGRAM", "EQUALISATION"}

Jobs == [type : JobType, filename : Files]

HistogramJob(f) == [type |-> "HISTOGRAM", filename |-> f]

EqualisationJob(f) == [type |-> "EQUALISATION", filename |-> f]

\* A result names the type and the file of the job it answers.
Results == [type : JobType, filename : Files]

ResultOf(job) == [type |-> job.type, filename |-> job.filename]

\* WorkerJobCommand::operator==(const WorkerResultCommand&) and its overrides:
\* first the types are compared, then the file names.
Matches(job, result) ==
  /\ job.type = result.type
  /\ job.filename = result.filename

\* Commands of the communication sockets.
ToServerCommand == {"HELO", "HEARTBEAT_REPLY"}

ToWorkerCommand == {"EHLO", "HEARTBEAT_REQUEST"}
=============================================================================
