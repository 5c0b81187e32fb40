--------------------------- MODULE CommandTransfer ---------------------------
(***************************************************************************)
(* A command on its way through to_message and from_serialised_string, and *)
(* the result of a job on its way back: Encoding gives the message,        *)
(* ImageTransfer cuts the image of an equalisation result into the         *)
(* message's chunks and puts it together again.  A command without an      *)
(* image has no chunks.                                                    *)
(***************************************************************************)
EXTENDS Encoding, ImageTransfer, FiniteSets

\* A command without an image has the bytes of an empty one.
ASSUME TiffsAssumption ==
  /\ \A tiff \in Tiffs : \E n \in ImageSizes : tiff \in [0..(n - 1) -> Bytes]
  /\ 0 \in ImageSizes

VARIABLES
  job,                \* the job that sent answers
  sent,               \* the command of the sender
  message,
  received            \* the command of the receiver

commandVars == <<job, sent, message, received>>

TiffOf(c) == IF c.class = "EqualisationResult" THEN c.tiff_data ELSE NoData.bytes

CommandInit ==
  /\ Init
  /\ job = None
  /\ sent \in {c \in Commands : TiffOf(c) = tiff_data}
  /\ message = None
  /\ received = None

\* to_message
SplitImage == Split /\ UNCHANGED commandVars

SendCommand ==
  /\ Send
  /\ message' = Encode(sent, chunks)
  /\ UNCHANGED <<job, sent, received>>

\* from_serialised_string
JoinImage == (Measure \/ Allocate \/ Copy) /\ UNCHANGED commandVars

ReceiveCommand ==
  /\ Decoded
  /\ received' = Decode(message, tiffData)
  /\ UNCHANGED <<job, sent, message>>

\* visit_histogram_job, visit_equalisation_job: the job is run, and its result sent.
RunJob ==
  LET answer == Answer(received)
      tiff == TiffOf(answer)
  IN  /\ received \in JobCommands
      /\ job' = sent
      /\ sent' = answer
      /\ message' = None
      /\ received' = None
      /\ size' = Cardinality(DOMAIN tiff)
      /\ tiff_data' = tiff
      /\ chunks' = [j \in 0..(ChunkCount(size') - 1) |-> NoData]
      /\ phase' = "split"
      /\ i' = 0
      /\ totalTiffDataSize' = 0
      /\ cumulativeSize' = 0
      /\ tiffData' = NoData.bytes

CommandNext == SplitImage \/ SendCommand \/ JoinImage \/ ReceiveCommand \/ RunJob

CommandSpec == CommandInit /\ [][CommandNext]_<<vars, commandVars>>

-----------------------------------------------------------------------------
(* Safety *)

\* No assertion on the texts of a message fails, and the receiver gets the command that
\* was sent.
CommandReceived ==
  /\ message # None => TextsAgree(message)
  /\ phase = "decoded" => received = sent

\* The result of a job that comes back to the server matches that job and no other, and
\* it is what the job asked for: an image equalised by the mapping the server sent.
ResultFindsItsJob ==
  job # None /\ phase = "decoded" =>
    /\ \A other \in JobCommands :
         Matches(AsJob(other), AsJob(received)) <=> AsJob(other) = AsJob(job)
    /\ job.class = "EqualisationJob" =>
         received.tiff_data = Equalised(job.filename, job.mapping)

\* The inductive invariant, beside that of ImageTransfer: a message is that of the
\* command being sent, and a result that of the job it answers.
CommandInv ==
  /\ sent \in Commands
  /\ tiff_data = TiffOf(sent)
  /\ job # None => job \in JobCommands /\ sent = Answer(job)
  /\ message = IF phase = "split" THEN None ELSE Encode(sent, chunks)
  /\ received = IF phase = "decoded" THEN sent ELSE None
=============================================================================
