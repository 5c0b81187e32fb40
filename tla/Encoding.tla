------------------------------ MODULE Encoding ------------------------------
(***************************************************************************)
(* The commands as messages (protocol.cpp): to_message puts a command into *)
(* the union of commands.capnp under the tag of its class, with the texts  *)
(* its constructors chose beside the tags; from_serialised_string picks a  *)
(* class by the tags and asserts the texts.  Protocol and Network take for *)
(* granted that a command arrives as it was sent.  Words and pointers are  *)
(* Cap'n Proto's; CommandTransfer sends a command through these operators. *)
(*                                                                         *)
(* A definition named Wrong... is what the one after it would be with a    *)
(* plausible mistake, see Server.                                          *)
(***************************************************************************)
EXTENDS Protocol, Naturals

CONSTANTS
  Concurrencies,      \* of a HELO
  HISTOGRAM_SEGMENTS,
  Floats,             \* what a bin may hold
  Tiffs,              \* images, and what the library makes of them:
  HistogramOf(_), Equalised(_, _)

ASSUME EncodingAssumption ==
  /\ HISTOGRAM_SEGMENTS \in Nat \ {0}
  /\ \A f \in Files : /\ HistogramOf(f) \in [0..(HISTOGRAM_SEGMENTS - 1) -> Floats]
                       /\ \A mapping \in [0..(HISTOGRAM_SEGMENTS - 1) -> Floats] :
                            Equalised(f, mapping) \in Tiffs

Bins == 0..(HISTOGRAM_SEGMENTS - 1)

Histogram == [Bins -> Floats]

\* The class of every command, and the fields of its objects.
Commands ==
  [class : {"Helo"}, concurrency : Concurrencies]
    \cup [class : {"Ehlo", "Bye"}]
    \cup [class : {"Heartbeat"}, type : {"REQUEST", "REPLY"}]
    \cup [class : {"HistogramJob"}, filename : Files]
    \cup [class : {"EqualisationJob"}, filename : Files, mapping : Histogram]
    \cup [class : {"HistogramResult"}, filename : Files, histogram : Histogram]
    \cup [class : {"EqualisationResult"}, filename : Files, tiff_data : Tiffs]

JobCommands == {c \in Commands : c.class \in {"HistogramJob", "EqualisationJob"}}

None == [class |-> "None"]

-----------------------------------------------------------------------------
(* to_message *)

\* The text the constructor of a job or a result has for its type.
WrongTypeText(c) == "HISTOGRAM"         \* copied from one class to the next

TypeText(c) ==
  IF c.class \in {"HistogramJob", "HistogramResult"} THEN "HISTOGRAM" ELSE "EQUALISATION"

\* A list that is filled one element after the other.
List(array) == [size |-> HISTOGRAM_SEGMENTS, at |-> [i \in Bins |-> array[i]]]

\* command_data of the classes of jobs and results, which choose a member of the union.
HistogramJobData(c) == [which |-> "HISTOGRAM", filename |-> c.filename]

EqualisationJobData(c) ==
  [which |-> "EQUALISATION", filename |-> c.filename, histogramMapping |-> List(c.mapping)]

HistogramResultData(c) ==
  [which |-> "HISTOGRAM", filename |-> c.filename, histogram |-> List(c.histogram)]

EqualisationResultData(c, chunks) ==
  [which |-> "EQUALISATION", filename |-> c.filename, tiffResult |-> chunks]

CommandData(c, chunks) ==
  CASE c.class = "HistogramJob"       -> HistogramJobData(c)
    [] c.class = "EqualisationJob"    -> EqualisationJobData(c)
    [] c.class = "HistogramResult"    -> HistogramResultData(c)
    [] c.class = "EqualisationResult" -> EqualisationResultData(c, chunks)

Typed(c, chunks) == [type |-> TypeText(c), data |-> CommandData(c, chunks)]

Encoded(tag, data) == [command |-> tag, which |-> tag, data |-> data]

\* The message of a command; chunks are those of its TIFF, if it has one.
Encode(c, chunks) ==
  CASE c.class = "Helo"      -> Encoded("HELO", [concurrency |-> c.concurrency])
    [] c.class = "Ehlo"      -> Encoded("EHLO", None)
    [] c.class = "Bye"       -> Encoded("BYE", None)
    [] c.class = "Heartbeat" -> Encoded("HEARTBEAT", [type |-> c.type])
    [] c.class \in {"HistogramJob", "EqualisationJob"}       -> Encoded("JOB", Typed(c, chunks))
    [] c.class \in {"HistogramResult", "EqualisationResult"} -> Encoded("RESULT", Typed(c, chunks))

-----------------------------------------------------------------------------
(* from_serialised_string *)

\* As many elements as the array has.
Elements(list) == [i \in Bins |-> list.at[i]]

\* from_data of these classes
HistogramJobFrom(data) == [class |-> "HistogramJob", filename |-> data.filename]

EqualisationJobFrom(data) ==
  [class |-> "EqualisationJob", filename |-> data.filename,
   mapping |-> Elements(data.histogramMapping)]

HistogramResultFrom(data) ==
  [class |-> "HistogramResult", filename |-> data.filename, histogram |-> Elements(data.histogram)]

EqualisationResultFrom(data, tiff) ==
  [class |-> "EqualisationResult", filename |-> data.filename, tiff_data |-> tiff]

JobFrom(data) ==
  IF data.which = "HISTOGRAM" THEN HistogramJobFrom(data) ELSE EqualisationJobFrom(data)

ResultFrom(data, tiff) ==
  IF data.which = "HISTOGRAM" THEN HistogramResultFrom(data) ELSE EqualisationResultFrom(data, tiff)

\* The command of a message; tiff is put together from its chunks.
Decode(m, tiff) ==
  CASE m.which = "HELO"      -> [class |-> "Helo", concurrency |-> m.data.concurrency]
    [] m.which = "EHLO"      -> [class |-> "Ehlo"]
    [] m.which = "BYE"       -> [class |-> "Bye"]
    [] m.which = "HEARTBEAT" -> [class |-> "Heartbeat", type |-> m.data.type]
    [] m.which = "JOB"       -> JobFrom(m.data.data)
    [] m.which = "RESULT"    -> ResultFrom(m.data.data, tiff)

\* The assertions on the texts, and on the length of a histogram.
TextsAgree(m) ==
  /\ m.command = m.which
  /\ m.which \in {"JOB", "RESULT"} => m.data.type = m.data.data.which
  /\ m.which = "RESULT" /\ m.data.data.which = "HISTOGRAM" =>
       m.data.data.histogram.size = HISTOGRAM_SEGMENTS

-----------------------------------------------------------------------------
(* RunningWorkerCommandVisitor *)

WrongAnswer(c) ==           \* a histogram, whatever was asked for
  [class |-> "HistogramResult", filename |-> c.filename, histogram |-> HistogramOf(c.filename)]

Answer(c) ==
  IF c.class = "HistogramJob"
  THEN [class |-> "HistogramResult", filename |-> c.filename,
        histogram |-> HistogramOf(c.filename)]
  ELSE [class |-> "EqualisationResult", filename |-> c.filename,
        tiff_data |-> Equalised(c.filename, c.mapping)]

AsJob(c) == [type |-> TypeText(c), filename |-> c.filename]
=============================================================================
