--------------------------- MODULE ImageTransfer ---------------------------
(***************************************************************************)
(* An equalised image on its way from a worker to the server: protocol.cpp *)
(* cuts the bytes of the TIFF into the chunks of a Cap'n Proto list        *)
(* (command_data and split_equalisation_tiff) and puts them together again *)
(* in memory allocated beforehand (from_data).                             *)
(*                                                                         *)
(* What a read beyond the end of the bytes would give is Garbage, and a    *)
(* copy beyond the allocated memory would add to the domain of tiffData.   *)
(*                                                                         *)
(* A definition named Wrong... is what the one after it would be with a    *)
(* plausible mistake, see Server.                                          *)
(***************************************************************************)
EXTENDS Integers

CONSTANTS
  Bytes,
  Garbage,
  ImageSizes,         \* the sizes of TIFFs that image_equalise may return
  MAX_CHUNK_SIZE,
  SizeValues          \* how many values a size_t has

ASSUME TransferAssumption ==
  /\ MAX_CHUNK_SIZE \in Nat \ {0}
  /\ SizeValues \in Nat
  /\ ImageSizes \subseteq 0..(SizeValues - 1)
  /\ 0 \in Bytes /\ Garbage \notin Bytes

VARIABLES
  size, tiff_data,    \* of the WorkerEqualisationResultCommand the worker sends
  chunks,             \* tiffResult: the list of Data
  phase,
  i,                  \* the chunk the loop of this phase is at
  totalTiffDataSize, cumulativeSize,
  tiffData            \* the memory the server copies into

vars == <<size, tiff_data, chunks, phase, i, totalTiffDataSize, cumulativeSize, tiffData>>

IsData(chunk) ==
  /\ chunk.size \in Nat
  /\ chunk.bytes \in [0..(chunk.size - 1) -> Bytes \cup {Garbage}]

NoData == [size |-> 0, bytes |-> [b \in {} |-> 0]]

\* lldiv, and one more chunk for the rest
ChunkCount(n) ==
  (n \div MAX_CHUNK_SIZE) + IF n % MAX_CHUNK_SIZE = 0 THEN 0 ELSE 1

\* The range of the loops.
Indices == 0..(ChunkCount(size) - 1)

Init ==
  /\ size \in ImageSizes
  /\ tiff_data \in [0..(size - 1) -> Bytes]
  /\ chunks = [j \in Indices |-> NoData]
  /\ phase = "split"
  /\ i = 0
  /\ totalTiffDataSize = 0
  /\ cumulativeSize = 0
  /\ tiffData = [b \in {} |-> 0]

-----------------------------------------------------------------------------
(* The worker *)

\* Subtraction of size_t.
Difference(a, b) == IF b <= a THEN a - b ELSE SizeValues + a - b

WrongChunkSize(j) == MAX_CHUNK_SIZE        \* the last chunk is as long as the others

\* chunkSize
ChunkSize(j) ==
  LET left == Difference(size, j * MAX_CHUNK_SIZE)
  IN  IF MAX_CHUNK_SIZE < left THEN MAX_CHUNK_SIZE ELSE left

Byte(b) == IF b < size THEN tiff_data[b] ELSE Garbage

Chunk(j) ==
  [size  |-> ChunkSize(j),
   bytes |-> [b \in 0..(ChunkSize(j) - 1) |-> Byte(j * MAX_CHUNK_SIZE + b)]]

\* split_equalisation_tiff
Split ==
  /\ phase = "split"
  /\ i \in Indices
  /\ chunks' = [chunks EXCEPT ![i] = Chunk(i)]
  /\ i' = i + 1
  /\ UNCHANGED <<size, tiff_data, phase, totalTiffDataSize, cumulativeSize, tiffData>>

\* The command is sent, and from_data called for it.
Send ==
  /\ phase = "split"
  /\ i \notin Indices
  /\ phase' = "measure"
  /\ i' = 0
  /\ UNCHANGED <<size, tiff_data, chunks, totalTiffDataSize, cumulativeSize, tiffData>>

-----------------------------------------------------------------------------
(* The server *)

Measure ==
  /\ phase = "measure"
  /\ i \in DOMAIN chunks
  /\ totalTiffDataSize' = totalTiffDataSize + chunks[i].size
  /\ i' = i + 1
  /\ UNCHANGED <<size, tiff_data, chunks, phase, cumulativeSize, tiffData>>

Allocate ==
  /\ phase = "measure"
  /\ i \notin DOMAIN chunks
  /\ tiffData' = [b \in 0..(totalTiffDataSize - 1) |-> 0]
  /\ phase' = "copy"
  /\ i' = 0
  /\ UNCHANGED <<size, tiff_data, chunks, totalTiffDataSize, cumulativeSize>>

WrongEndElem == cumulativeSize + chunks[i].size     \* cumulativeSize is advanced first

\* Where the next chunk goes.
endElem == cumulativeSize

\* memcpy of a chunk
Copy ==
  /\ phase = "copy"
  /\ i \in DOMAIN chunks
  /\ LET place == endElem..(endElem + chunks[i].size - 1)
     IN  tiffData' = [b \in DOMAIN tiffData \cup place |->
                        IF b \in place THEN chunks[i].bytes[b - endElem] ELSE tiffData[b]]
  /\ cumulativeSize' = cumulativeSize + chunks[i].size
  /\ i' = i + 1
  /\ UNCHANGED <<size, tiff_data, chunks, phase, totalTiffDataSize>>

Decoded ==
  /\ phase = "copy"
  /\ i \notin DOMAIN chunks
  /\ phase' = "decoded"
  /\ UNCHANGED <<size, tiff_data, chunks, i, totalTiffDataSize, cumulativeSize, tiffData>>

Next == Split \/ Send \/ Measure \/ Allocate \/ Copy \/ Decoded

Spec == Init /\ [][Next]_vars

-----------------------------------------------------------------------------
(* Safety *)

\* Every variable keeps its type.
TypeOK ==
  /\ size \in ImageSizes
  /\ tiff_data \in [0..(size - 1) -> Bytes]
  /\ DOMAIN chunks = Indices /\ \A j \in Indices : IsData(chunks[j])
  /\ phase \in {"split", "measure", "copy", "decoded"}
  /\ i \in 0..ChunkCount(size)
  /\ totalTiffDataSize \in Nat
  /\ cumulativeSize \in Nat
  /\ DOMAIN tiffData \subseteq Nat

\* How many bytes the first k chunks hold.
Covered(k) == IF k * MAX_CHUNK_SIZE < size THEN k * MAX_CHUNK_SIZE ELSE size

\* The inductive invariant: the chunks the loop has passed are the image's, and both
\* sums of sizes are what these chunks hold.
TransferInv ==
  /\ \A j \in Indices : phase # "split" \/ j < i => chunks[j] = Chunk(j)
  /\ phase = "split" => totalTiffDataSize = 0
  /\ phase = "measure" => totalTiffDataSize = Covered(i)
  /\ phase \in {"split", "measure"} => cumulativeSize = 0
  /\ phase \in {"copy", "decoded"} =>
       /\ totalTiffDataSize = size
       /\ cumulativeSize = Covered(i)
       /\ tiffData = [b \in 0..(size - 1) |-> tiffData[b]]
       /\ \A b \in 0..(cumulativeSize - 1) : tiffData[b] = tiff_data[b]
  /\ phase = "decoded" => i = ChunkCount(size)

\* A chunk is never empty and never more than MAX_CHUNK_SIZE, which keeps it within
\* what Cap'n Proto takes.
ChunksFit == phase # "split" => \A j \in Indices : chunks[j].size \in 1..MAX_CHUNK_SIZE

\* No memcpy of from_data writes beyond what it allocated.
WithinAllocation ==
  phase \in {"copy", "decoded"} => DOMAIN tiffData = 0..(totalTiffDataSize - 1)

\* The server writes the very bytes the worker computed.
ImageReceived == phase = "decoded" => tiffData = tiff_data
=============================================================================
