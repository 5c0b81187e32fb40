--------------------------- MODULE TransferProofs ---------------------------
(***************************************************************************)
(* Proofs about CommandTransfer and the ImageTransfer within it, for any   *)
(* commands, and for images and chunks of any size.                        *)
(***************************************************************************)
EXTENDS CommandTransfer, FiniteSetTheorems, TLAPS

-----------------------------------------------------------------------------
(* The arithmetic of chunks *)

LEMMA Division ==
  ASSUME NEW n \in Nat, NEW m \in Nat \ {0}
  PROVE  /\ n \div m \in Nat /\ n % m \in 0..(m - 1)
         /\ n = ((n \div m) * m) + (n % m)
  OBVIOUS

\* A product with a larger factor is larger by at least the other one.
LEMMA Products ==
  ASSUME NEW a \in Int, NEW b \in Int, NEW m \in Nat \ {0}
  PROVE  /\ a * m \in Int /\ (a + 1) * m = a * m + m
         /\ a <= b => a * m <= b * m
         /\ a < b => a * m + m <= b * m
<1>1. \A c \in Int : c * m \in Int /\ (c + 1) * m = c * m + m
  OBVIOUS
<1>2. \A d \in Nat : 0 <= d * m
  OBVIOUS
<1>3. ASSUME a <= b PROVE a * m <= b * m
  <2>1. b - a \in Nat /\ (b - a) * m = b * m - a * m
    BY <1>3
  <2> QED
    BY <1>1, <1>2, <2>1
<1>4. ASSUME a < b PROVE a * m + m <= b * m
  <2>1. b - (a + 1) \in Nat /\ (b - (a + 1)) * m = b * m - (a + 1) * m
    BY <1>4
  <2> QED
    BY <1>1, <1>2, <2>1
<1> QED
  BY <1>1, <1>3, <1>4

LEMMA CountNat == ASSUME NEW n \in Nat PROVE ChunkCount(n) \in Nat
<1>1. n \div MAX_CHUNK_SIZE \in Nat
  BY TransferAssumption, Division
<1> QED
  BY <1>1 DEF ChunkCount

\* The loops run over the chunks that start before the end of the image, and those
\* hold all of it.
LEMMA Counting ==
  ASSUME size \in Nat
  PROVE  /\ ChunkCount(size) \in Nat
         /\ \A j \in Nat : j \in Indices <=> j * MAX_CHUNK_SIZE < size
         /\ Covered(ChunkCount(size)) = size
<1> DEFINE m == MAX_CHUNK_SIZE
           q == size \div m
           r == size % m
           k == ChunkCount(size)
<1>1. m \in Nat \ {0}
  BY TransferAssumption
<1>2. q \in Nat /\ r \in 0..(m - 1) /\ size = q * m + r
  BY <1>1, Division
<1>3. k = IF r = 0 THEN q ELSE q + 1
  BY <1>2 DEF ChunkCount
<1>4. k \in Nat
  BY <1>2, <1>3
<1> HIDE DEF q, r, m, k
<1>5. q * m \in Int /\ (q + 1) * m = q * m + m
  BY <1>1, <1>2, Products
<1>6. ASSUME NEW j \in Nat PROVE j < k <=> j * m < size
  <2>1. j * m \in Int /\ (j <= q => j * m <= q * m) /\ (j < q => j * m + m <= q * m)
    BY <1>1, <1>2, Products
  <2>2. (q <= j => q * m <= j * m) /\ (q < j => q * m + m <= j * m)
    BY <1>1, <1>2, Products
  <2>3. CASE j < q
    BY <1>1, <1>2, <1>3, <1>5, <2>1, <2>3
  <2>4. CASE j = q
    BY <1>1, <1>2, <1>3, <1>5, <2>1, <2>4
  <2>5. CASE q < j
    BY <1>1, <1>2, <1>3, <1>5, <2>1, <2>2, <2>5
  <2> QED
    BY <1>2, <2>3, <2>4, <2>5
<1>7. ~ (k * m < size)
  BY <1>4, <1>6
<1> QED
  BY <1>4, <1>6, <1>7 DEF Indices, Covered, k, m

\* Each chunk starts where the ones before it end, and none is empty.
LEMMA ChunkBounds ==
  ASSUME size \in Nat, NEW j \in Indices
  PROVE  /\ j \in Nat /\ Covered(j) = j * MAX_CHUNK_SIZE /\ Covered(j) \in Nat
         /\ ChunkSize(j) \in 1..MAX_CHUNK_SIZE
         /\ Covered(j + 1) = Covered(j) + ChunkSize(j)
         /\ Covered(j + 1) \in 0..size
<1> DEFINE m == MAX_CHUNK_SIZE
<1>1. m \in Nat \ {0}
  BY TransferAssumption
<1>2. j \in Nat /\ j * m < size
  BY Counting DEF Indices
<1>3. j * m \in Nat /\ (j + 1) * m = j * m + m
  <2>1. j * m \in Int /\ (j + 1) * m = j * m + m /\ 0 * m <= j * m
    BY <1>1, <1>2, Products
  <2> QED
    BY <1>1, <2>1
<1>4. ChunkSize(j) = IF m < size - j * m THEN m ELSE size - j * m
  BY <1>2, <1>3 DEF ChunkSize, Difference
<1> HIDE DEF m
<1> QED
  BY <1>1, <1>2, <1>3, <1>4 DEF Covered, m

\* A chunk holds bytes of the image only, each at its place.
LEMMA ChunkBytes ==
  ASSUME size \in Nat, tiff_data \in [0..(size - 1) -> Bytes], NEW j \in Indices
  PROVE  /\ IsData(Chunk(j))
         /\ Chunk(j).size = ChunkSize(j)
         /\ \A b \in Covered(j)..(Covered(j) + ChunkSize(j) - 1) :
              Chunk(j).bytes[b - Covered(j)] = tiff_data[b]
<1>1. /\ Covered(j) = j * MAX_CHUNK_SIZE /\ Covered(j) \in Nat
      /\ ChunkSize(j) \in Nat /\ Covered(j) + ChunkSize(j) <= size
  BY ChunkBounds, TransferAssumption
<1>2. Chunk(j).bytes = [b \in 0..(ChunkSize(j) - 1) |-> Byte(Covered(j) + b)]
  BY <1>1 DEF Chunk
<1>3. Chunk(j).size = ChunkSize(j)
  BY DEF Chunk
<1>4. \A b \in 0..(ChunkSize(j) - 1) :
         Byte(Covered(j) + b) = tiff_data[Covered(j) + b] /\ Byte(Covered(j) + b) \in Bytes
  BY <1>1 DEF Byte
<1>5. \A b \in Covered(j)..(Covered(j) + ChunkSize(j) - 1) :
         b - Covered(j) \in 0..(ChunkSize(j) - 1) /\ Covered(j) + (b - Covered(j)) = b
  BY <1>1
<1>6. IsData(Chunk(j))
  <2>1. Chunk(j).bytes \in [0..(ChunkSize(j) - 1) -> Bytes \cup {Garbage}]
    BY <1>2, <1>4
  <2> QED
    BY <1>1, <1>3, <2>1 DEF IsData
<1>7. \A b \in Covered(j)..(Covered(j) + ChunkSize(j) - 1) :
         Chunk(j).bytes[b - Covered(j)] = tiff_data[b]
  BY <1>2, <1>4, <1>5
<1> QED
  BY <1>3, <1>6, <1>7

-----------------------------------------------------------------------------
(* Type correctness *)

LEMMA SizeNat == TypeOK => size \in Nat
  BY TransferAssumption DEF TypeOK

LEMMA TypeInit == Init => TypeOK
<1> SUFFICES ASSUME Init PROVE TypeOK
  OBVIOUS
<1>1. size \in Nat /\ ChunkCount(size) \in Nat
  BY Counting, TransferAssumption DEF Init
<1>2. IsData(NoData)
  BY DEF IsData, NoData
<1> QED
  BY <1>1, <1>2 DEF Init, TypeOK

LEMMA TypeStep == TypeOK /\ [Next]_vars => TypeOK'
<1> SUFFICES ASSUME TypeOK, [Next]_vars PROVE TypeOK'
  OBVIOUS
<1>1. size \in Nat /\ ChunkCount(size) \in Nat
  BY SizeNat, Counting
<1>2. DOMAIN chunks = Indices /\ \A j \in Indices : j \in Nat /\ j + 1 \in 0..ChunkCount(size)
  BY <1>1 DEF TypeOK, Indices
<1>3. \A j \in Indices : chunks[j].size \in Nat
  BY DEF TypeOK, IsData
<1>4. CASE Split
  <2>1. IsData(Chunk(i))
    BY <1>1, <1>4, ChunkBytes DEF Split, TypeOK
  <2>2. \A j \in Indices : chunks'[j] = chunks[j] \/ chunks'[j] = Chunk(i)
    BY <1>2, <1>4 DEF Split
  <2>3. \A j \in Indices : IsData(chunks'[j])
    BY <2>1, <2>2 DEF TypeOK
  <2> QED
    BY <1>2, <1>4, <2>3 DEF Split, TypeOK, Indices, IsData
<1>5. CASE Send
  BY <1>1, <1>5 DEF Send, TypeOK, Indices, IsData
<1>6. CASE Measure
  BY <1>2, <1>3, <1>6 DEF Measure, TypeOK, Indices, IsData
<1>7. CASE Allocate
  BY <1>1, <1>7 DEF Allocate, TypeOK, Indices, IsData
<1>8. CASE Copy
  <2>1. i \in Indices /\ DOMAIN tiffData' \subseteq Nat
    BY <1>2, <1>3, <1>8 DEF Copy, TypeOK, endElem
  <2> QED
    BY <1>2, <1>3, <1>8, <2>1 DEF Copy, TypeOK, Indices, IsData
<1>9. CASE Decoded
  BY <1>9 DEF Decoded, TypeOK, Indices, IsData
<1>10. CASE UNCHANGED vars
  BY <1>10 DEF vars, TypeOK, Indices, IsData
<1> QED
  BY <1>4, <1>5, <1>6, <1>7, <1>8, <1>9, <1>10 DEF Next

-----------------------------------------------------------------------------
(* The inductive invariant *)

LEMMA NothingCovered == TypeOK => Covered(0) = 0 /\ Covered(ChunkCount(size)) = size
<1> SUFFICES ASSUME TypeOK PROVE Covered(0) = 0 /\ Covered(ChunkCount(size)) = size
  OBVIOUS
<1>1. size \in Nat /\ 0 * MAX_CHUNK_SIZE = 0
  BY SizeNat, TransferAssumption
<1> QED
  BY <1>1, Counting DEF Covered

LEMMA TransferInit == Init => TransferInv
  BY TypeInit, TransferAssumption DEF Init, TransferInv, Indices

\* The steps that do not touch the received bytes keep what is said of them.
LEMMA SplitStep == TypeOK /\ TransferInv /\ Split => TransferInv'
<1> SUFFICES ASSUME TypeOK, TransferInv, Split PROVE TransferInv'
  OBVIOUS
<1>1. /\ phase = "split" /\ phase' = "split" /\ i \in Indices /\ i' = i + 1
      /\ UNCHANGED <<size, tiff_data, totalTiffDataSize, cumulativeSize, tiffData>>
      /\ chunks' = [chunks EXCEPT ![i] = Chunk(i)]
      /\ DOMAIN chunks = Indices
  BY DEF Split, TypeOK
<1>2. Indices' = Indices /\ \A j : Chunk(j)' = Chunk(j)
  BY <1>1 DEF Indices, Chunk, ChunkSize, Difference, Byte
<1>3. \A j \in Indices : j < i + 1 => j = i \/ j < i
  BY <1>1, SizeNat, ChunkBounds
<1>4. \A j \in Indices : j < i' => chunks'[j] = Chunk(j)
  BY <1>1, <1>3 DEF TransferInv
<1> QED
  BY <1>1, <1>2, <1>4 DEF TransferInv

\* After the last chunk the index of the loop has reached their number.
LEMMA LoopEnds == TypeOK /\ i \notin Indices => i = ChunkCount(size)
<1> SUFFICES ASSUME TypeOK, i \notin Indices PROVE i = ChunkCount(size)
  OBVIOUS
<1>1. ChunkCount(size) \in Nat
  BY SizeNat, Counting
<1> QED
  BY <1>1 DEF TypeOK, Indices

LEMMA SendStep == TypeOK /\ TransferInv /\ Send => TransferInv'
<1> SUFFICES ASSUME TypeOK, TransferInv, Send PROVE TransferInv'
  OBVIOUS
<1>1. /\ phase = "split" /\ phase' = "measure" /\ i = ChunkCount(size) /\ i' = 0
      /\ UNCHANGED <<size, tiff_data, chunks, totalTiffDataSize, cumulativeSize, tiffData>>
  BY LoopEnds DEF Send
<1>2. /\ Indices' = Indices /\ \A j : Chunk(j)' = Chunk(j)
      /\ Covered(0)' = Covered(0)
  BY <1>1 DEF Indices, Chunk, ChunkSize, Difference, Byte, Covered
<1>3. \A j \in Indices : j < i
  BY <1>1, SizeNat, Counting DEF Indices
<1> QED
  BY <1>1, <1>2, <1>3, NothingCovered DEF TransferInv

LEMMA MeasureStep == TypeOK /\ TransferInv /\ Measure => TransferInv'
<1> SUFFICES ASSUME TypeOK, TransferInv, Measure PROVE TransferInv'
  OBVIOUS
<1>1. /\ phase = "measure" /\ phase' = "measure" /\ i \in Indices /\ i' = i + 1
      /\ UNCHANGED <<size, tiff_data, chunks, cumulativeSize, tiffData>>
      /\ totalTiffDataSize' = totalTiffDataSize + chunks[i].size
  BY DEF Measure, TypeOK
<1>2. /\ Indices' = Indices /\ \A j : Chunk(j)' = Chunk(j)
      /\ Covered(i)' = Covered(i + 1)
  BY <1>1 DEF Indices, Chunk, ChunkSize, Difference, Byte, Covered
<1>3. chunks[i].size = ChunkSize(i)
  BY <1>1, SizeNat, ChunkBytes DEF TransferInv, TypeOK
<1>4. totalTiffDataSize' = Covered(i)'
  BY <1>1, <1>2, <1>3, SizeNat, ChunkBounds DEF TransferInv
<1> QED
  BY <1>1, <1>2, <1>4 DEF TransferInv

LEMMA AllocateStep == TypeOK /\ TransferInv /\ Allocate => TransferInv'
<1> SUFFICES ASSUME TypeOK, TransferInv, Allocate PROVE TransferInv'
  OBVIOUS
<1>1. /\ phase = "measure" /\ phase' = "copy" /\ i = ChunkCount(size) /\ i' = 0
      /\ UNCHANGED <<size, tiff_data, chunks, totalTiffDataSize, cumulativeSize>>
      /\ tiffData' = [b \in 0..(totalTiffDataSize - 1) |-> 0]
  BY LoopEnds DEF Allocate, TypeOK
<1>2. /\ Indices' = Indices /\ \A j : Chunk(j)' = Chunk(j)
      /\ Covered(0)' = Covered(0)
  BY <1>1 DEF Indices, Chunk, ChunkSize, Difference, Byte, Covered
<1>3. totalTiffDataSize' = size' /\ cumulativeSize' = 0
  BY <1>1, NothingCovered DEF TransferInv
<1> QED
  BY <1>1, <1>2, <1>3, NothingCovered DEF TransferInv

LEMMA CopyStep == TypeOK /\ TransferInv /\ Copy => TransferInv'
<1> SUFFICES ASSUME TypeOK, TransferInv, Copy PROVE TransferInv'
  OBVIOUS
<1>1. /\ phase = "copy" /\ phase' = "copy" /\ i \in Indices /\ i' = i + 1
      /\ UNCHANGED <<size, tiff_data, chunks, totalTiffDataSize>>
      /\ cumulativeSize' = cumulativeSize + chunks[i].size
  BY DEF Copy, TypeOK
<1>2. /\ Indices' = Indices /\ \A j : Chunk(j)' = Chunk(j)
      /\ Covered(i)' = Covered(i + 1)
  BY <1>1 DEF Indices, Chunk, ChunkSize, Difference, Byte, Covered
<1>3. chunks[i] = Chunk(i) /\ cumulativeSize = Covered(i) /\ chunks[i].size = ChunkSize(i)
  BY <1>1, SizeNat, ChunkBytes DEF TransferInv, TypeOK
<1>4. /\ Covered(i) \in Nat /\ ChunkSize(i) \in Nat /\ size \in Nat
      /\ Covered(i + 1) = Covered(i) + ChunkSize(i) /\ Covered(i + 1) <= size
  BY <1>1, SizeNat, ChunkBounds, TransferAssumption
<1> DEFINE place == Covered(i)..(Covered(i) + ChunkSize(i) - 1)
<1>5. place \subseteq 0..(size - 1)
  BY <1>4
<1>6. /\ tiffData = [b \in 0..(size - 1) |-> tiffData[b]]
      /\ \A b \in 0..(Covered(i) - 1) : tiffData[b] = tiff_data[b]
  BY <1>1, <1>3 DEF TransferInv
<1>7. DOMAIN tiffData \cup place = 0..(size - 1)
  BY <1>5, <1>6
<1>8. tiffData' = [b \in DOMAIN tiffData \cup place |->
                     IF b \in place THEN chunks[i].bytes[b - Covered(i)] ELSE tiffData[b]]
  BY <1>3 DEF Copy, endElem
<1>9. tiffData' = [b \in 0..(size - 1) |->
                     IF b \in place THEN Chunk(i).bytes[b - Covered(i)] ELSE tiffData[b]]
  BY <1>3, <1>7, <1>8
<1>10. \A b \in 0..(Covered(i + 1) - 1) : tiffData'[b] = tiff_data[b]
  <2> SUFFICES ASSUME NEW b \in 0..(Covered(i + 1) - 1) PROVE tiffData'[b] = tiff_data[b]
    OBVIOUS
  <2>1. b \in 0..(size - 1) /\ (b \in place \/ b \in 0..(Covered(i) - 1))
    BY <1>4
  <2>2. CASE b \in place
    <3>1. Chunk(i).bytes[b - Covered(i)] = tiff_data[b]
      BY <1>1, <1>4, <2>2, ChunkBytes DEF TypeOK
    <3> QED
      BY <1>9, <2>1, <2>2, <3>1
  <2>3. CASE b \notin place
    BY <1>6, <1>9, <2>1, <2>3
  <2> QED
    BY <2>2, <2>3
<1>11. tiffData' = [b \in 0..(size - 1) |-> tiffData'[b]]
  BY <1>9
<1>12. totalTiffDataSize' = size' /\ cumulativeSize' = Covered(i)'
  BY <1>1, <1>2, <1>3, <1>4 DEF TransferInv
<1> QED
  BY <1>1, <1>2, <1>10, <1>11, <1>12 DEF TransferInv

LEMMA DecodedStep == TypeOK /\ TransferInv /\ Decoded => TransferInv'
<1> SUFFICES ASSUME TypeOK, TransferInv, Decoded PROVE TransferInv'
  OBVIOUS
<1>1. /\ phase = "copy" /\ phase' = "decoded" /\ i = ChunkCount(size)
      /\ UNCHANGED <<size, tiff_data, chunks, i, totalTiffDataSize, cumulativeSize, tiffData>>
  BY LoopEnds DEF Decoded, TypeOK
<1>2. /\ Indices' = Indices /\ \A j : Chunk(j)' = Chunk(j)
      /\ Covered(i)' = Covered(i) /\ ChunkCount(size)' = ChunkCount(size)
  BY <1>1 DEF Indices, Chunk, ChunkSize, Difference, Byte, Covered, ChunkCount
<1> QED
  BY <1>1, <1>2 DEF TransferInv

LEMMA TransferStep == TypeOK /\ TransferInv /\ [Next]_vars => TransferInv'
<1>1. TypeOK /\ TransferInv /\ UNCHANGED vars => TransferInv'
  BY DEF vars, TransferInv, Indices, Chunk, ChunkSize, Difference, Byte, Covered, ChunkCount
<1> QED
  BY <1>1, SplitStep, SendStep, MeasureStep, AllocateStep, CopyStep, DecodedStep DEF Next

-----------------------------------------------------------------------------
(* Messages *)

\* A command has the fields of its class.
LEMMA CommandFields ==
  ASSUME NEW c \in Commands
  PROVE  \/ c.class = "Helo" /\ c = [class |-> "Helo", concurrency |-> c.concurrency]
         \/ c.class = "Ehlo" /\ c = [class |-> "Ehlo"]
         \/ c.class = "Bye" /\ c = [class |-> "Bye"]
         \/ c.class = "Heartbeat" /\ c = [class |-> "Heartbeat", type |-> c.type]
         \/ /\ c.class = "HistogramJob" /\ c.filename \in Files
            /\ c = [class |-> "HistogramJob", filename |-> c.filename]
         \/ /\ c.class = "EqualisationJob" /\ c.filename \in Files /\ c.mapping \in Histogram
            /\ c = [class |-> "EqualisationJob", filename |-> c.filename,
                    mapping |-> c.mapping]
         \/ /\ c.class = "HistogramResult" /\ c.filename \in Files
            /\ c.histogram \in Histogram
            /\ c = [class |-> "HistogramResult", filename |-> c.filename,
                    histogram |-> c.histogram]
         \/ /\ c.class = "EqualisationResult" /\ c.filename \in Files /\ c.tiff_data \in Tiffs
            /\ c = [class |-> "EqualisationResult", filename |-> c.filename,
                    tiff_data |-> c.tiff_data]
<1>1. CASE c \in [class : {"Helo"}, concurrency : Concurrencies]
  BY <1>1
<1>2. CASE c \in [class : {"Ehlo", "Bye"}]
  BY <1>2
<1>3. CASE c \in [class : {"Heartbeat"}, type : {"REQUEST", "REPLY"}]
  BY <1>3
<1>4. CASE c \in [class : {"HistogramJob"}, filename : Files]
  BY <1>4
<1>5. CASE c \in [class : {"EqualisationJob"}, filename : Files, mapping : Histogram]
  BY <1>5
<1>6. CASE c \in [class : {"HistogramResult"}, filename : Files, histogram : Histogram]
  BY <1>6
<1>7. CASE c \in [class : {"EqualisationResult"}, filename : Files, tiff_data : Tiffs]
  BY <1>7
<1> QED
  BY <1>1, <1>2, <1>3, <1>4, <1>5, <1>6, <1>7 DEF Commands

\* A list holds the elements it was filled with.
LEMMA ListElements ==
  ASSUME NEW array \in Histogram
  PROVE  Elements(List(array)) = array /\ List(array).size = HISTOGRAM_SEGMENTS
<1>1. Elements(List(array)) = [bin \in Bins |-> array[bin]]
  BY DEF Elements, List
<1>2. array = [bin \in Bins |-> array[bin]]
  BY DEF Histogram
<1> QED
  BY <1>1, <1>2 DEF List

\* What to_message encodes from_serialised_string decodes.
LEMMA DecodeEncoded ==
  ASSUME NEW c \in Commands, NEW data
  PROVE  /\ TextsAgree(Encode(c, data))
         /\ Decode(Encode(c, data), TiffOf(c)) = c
<1> DEFINE m == Encode(c, data)
<1> SUFFICES TextsAgree(m) /\ Decode(m, TiffOf(c)) = c
  OBVIOUS
<1>1. CASE c.class = "Helo"
  <2>1. m = Encoded("HELO", [concurrency |-> c.concurrency])
    BY <1>1 DEF Encode
  <2> QED
    BY <1>1, <2>1, CommandFields DEF Encoded, Decode, TextsAgree
<1>2. CASE c.class \in {"Ehlo", "Bye"}
  <2>1. m = IF c.class = "Ehlo" THEN Encoded("EHLO", None) ELSE Encoded("BYE", None)
    BY <1>2 DEF Encode
  <2> QED
    BY <1>2, <2>1, CommandFields DEF Encoded, Decode, TextsAgree
<1>3. CASE c.class = "Heartbeat"
  <2>1. m = Encoded("HEARTBEAT", [type |-> c.type])
    BY <1>3 DEF Encode
  <2> QED
    BY <1>3, <2>1, CommandFields DEF Encoded, Decode, TextsAgree
<1>4. CASE c.class = "HistogramJob"
  <2>1. m = Encoded("JOB", [type |-> "HISTOGRAM",
                            data |-> [which |-> "HISTOGRAM", filename |-> c.filename]])
    BY <1>4 DEF Encode, Typed, TypeText, CommandData, HistogramJobData
  <2>2. Decode(m, TiffOf(c)) = [class |-> "HistogramJob", filename |-> c.filename]
    BY <2>1 DEF Encoded, Decode, JobFrom, HistogramJobFrom
  <2>3. TextsAgree(m)
    BY <2>1 DEF Encoded, TextsAgree
  <2> QED
    BY <1>4, <2>2, <2>3, CommandFields
<1>5. CASE c.class = "EqualisationJob"
  <2>1. m = Encoded("JOB", [type |-> "EQUALISATION",
                            data |-> [which |-> "EQUALISATION", filename |-> c.filename,
                                      histogramMapping |-> List(c.mapping)]])
    BY <1>5 DEF Encode, Typed, TypeText, CommandData, EqualisationJobData
  <2>2. Elements(List(c.mapping)) = c.mapping
    BY <1>5, CommandFields, ListElements
  <2>3. Decode(m, TiffOf(c)) = [class |-> "EqualisationJob", filename |-> c.filename,
                                mapping |-> c.mapping]
    BY <2>1, <2>2 DEF Encoded, Decode, JobFrom, EqualisationJobFrom
  <2>4. TextsAgree(m)
    BY <2>1 DEF Encoded, TextsAgree
  <2> QED
    BY <1>5, <2>3, <2>4, CommandFields
<1>6. CASE c.class = "HistogramResult"
  <2>1. m = Encoded("RESULT", [type |-> "HISTOGRAM",
                               data |-> [which |-> "HISTOGRAM", filename |-> c.filename,
                                         histogram |-> List(c.histogram)]])
    BY <1>6 DEF Encode, Typed, TypeText, CommandData, HistogramResultData
  <2>2. /\ Elements(List(c.histogram)) = c.histogram
        /\ List(c.histogram).size = HISTOGRAM_SEGMENTS
    BY <1>6, CommandFields, ListElements
  <2>3. Decode(m, TiffOf(c)) = [class |-> "HistogramResult", filename |-> c.filename,
                                histogram |-> c.histogram]
    BY <2>1, <2>2 DEF Encoded, Decode, ResultFrom, HistogramResultFrom
  <2>4. TextsAgree(m)
    BY <2>1, <2>2 DEF Encoded, TextsAgree
  <2> QED
    BY <1>6, <2>3, <2>4, CommandFields
<1>7. CASE c.class = "EqualisationResult"
  <2>1. m = Encoded("RESULT", [type |-> "EQUALISATION",
                               data |-> [which |-> "EQUALISATION", filename |-> c.filename,
                                         tiffResult |-> data]])
    BY <1>7 DEF Encode, Typed, TypeText, CommandData, EqualisationResultData
  <2>2. Decode(m, TiffOf(c)) = [class |-> "EqualisationResult", filename |-> c.filename,
                                tiff_data |-> c.tiff_data]
    BY <1>7, <2>1 DEF Encoded, Decode, ResultFrom, EqualisationResultFrom, TiffOf
  <2>3. TextsAgree(m)
    BY <2>1 DEF Encoded, TextsAgree
  <2> QED
    BY <1>7, <2>2, <2>3, CommandFields
<1> QED
  BY <1>1, <1>2, <1>3, <1>4, <1>5, <1>6, <1>7, CommandFields

\* A job is answered by the result of its class, for its file.
LEMMA Answers ==
  ASSUME NEW c \in JobCommands
  PROVE  /\ Answer(c) \in Commands
         /\ AsJob(Answer(c)) = AsJob(c)
         /\ c.class = "EqualisationJob" =>
              Answer(c).tiff_data = Equalised(c.filename, c.mapping)
<1>1. c \in Commands /\ c.class \in {"HistogramJob", "EqualisationJob"} /\ c.filename \in Files
  BY CommandFields DEF JobCommands
<1>2. CASE c.class = "HistogramJob"
  <2>1. Answer(c) = [class |-> "HistogramResult", filename |-> c.filename,
                     histogram |-> HistogramOf(c.filename)]
    BY <1>2 DEF Answer
  <2>2. HistogramOf(c.filename) \in Histogram
    BY <1>1, EncodingAssumption DEF Histogram, Bins
  <2> QED
    BY <1>1, <1>2, <2>1, <2>2 DEF Commands, AsJob, TypeText
<1>3. CASE c.class = "EqualisationJob"
  <2>1. Answer(c) = [class |-> "EqualisationResult", filename |-> c.filename,
                     tiff_data |-> Equalised(c.filename, c.mapping)]
    BY <1>3 DEF Answer
  <2>2. c.mapping \in [0..(HISTOGRAM_SEGMENTS - 1) -> Floats]
    BY <1>1, <1>3, CommandFields DEF Histogram, Bins
  <2>3. Equalised(c.filename, c.mapping) \in Tiffs
    BY <1>1, <2>2, EncodingAssumption
  <2> QED
    BY <1>1, <1>3, <2>1, <2>3 DEF Commands, AsJob, TypeText
<1> QED
  BY <1>1, <1>2, <1>3

\* The bytes of a command, if it has any, are those of an image.
LEMMA TiffType ==
  ASSUME NEW c \in Commands
  PROVE  /\ Cardinality(DOMAIN TiffOf(c)) \in ImageSizes
         /\ TiffOf(c) \in [0..(Cardinality(DOMAIN TiffOf(c)) - 1) -> Bytes]
<1>1. PICK n \in ImageSizes : TiffOf(c) \in [0..(n - 1) -> Bytes]
  <2>1. CASE c.class = "EqualisationResult"
    <3>1. c.tiff_data \in Tiffs
      BY <2>1, CommandFields
    <3> QED
      BY <2>1, <3>1, TiffsAssumption DEF TiffOf
  <2>2. CASE c.class # "EqualisationResult"
    <3>1. TiffOf(c) = [b \in {} |-> 0]
      BY <2>2 DEF TiffOf, NoData
    <3>2. 0..(0 - 1) = {}
      OBVIOUS
    <3>3. TiffOf(c) \in [{} -> Bytes]
      BY <3>1
    <3> QED
      BY <3>2, <3>3, TiffsAssumption
  <2> QED
    BY <2>1, <2>2
<1>2. n \in Nat
  BY TransferAssumption
<1>3. DOMAIN TiffOf(c) = 0..(n - 1)
  BY <1>1
<1>4. Cardinality(0..(n - 1)) = n
  BY <1>2, FS_Interval
<1> QED
  BY <1>1, <1>3, <1>4

-----------------------------------------------------------------------------
(* The steps of CommandTransfer *)

\* A step of CommandTransfer is one of ImageTransfer, or starts it over.
LEMMA CommandSteps ==
  [CommandNext]_<<vars, commandVars>> => [Next]_vars \/ RunJob
  BY DEF CommandNext, SplitImage, SendCommand, JoinImage, ReceiveCommand, Next

LEMMA RunJobStep ==
  ASSUME TypeOK, CommandInv, RunJob
  PROVE  TypeOK' /\ TransferInv' /\ CommandInv'
<1> DEFINE tiff == TiffOf(Answer(received))
<1>1. received \in JobCommands /\ received = sent
  BY DEF RunJob, CommandInv, None, JobCommands
<1>2. /\ job' = sent /\ sent' = Answer(sent) /\ message' = None /\ received' = None
      /\ size' = Cardinality(DOMAIN tiff) /\ tiff_data' = tiff
      /\ chunks' = [j \in 0..(ChunkCount(size') - 1) |-> NoData]
      /\ phase' = "split" /\ i' = 0 /\ totalTiffDataSize' = 0 /\ cumulativeSize' = 0
      /\ tiffData' = NoData.bytes
  BY <1>1 DEF RunJob
<1>3. Answer(sent) \in Commands
  BY <1>1, Answers
<1>4. /\ size' \in ImageSizes /\ tiff_data' \in [0..(size' - 1) -> Bytes]
      /\ tiff_data' = TiffOf(sent')
  BY <1>1, <1>2, <1>3, TiffType
<1>5. ChunkCount(size') \in Nat
  BY <1>4, TransferAssumption, CountNat
<1>6. IsData(NoData)
  BY DEF IsData, NoData
<1>7. TypeOK'
  <2>1. DOMAIN chunks' = Indices' /\ \A j \in Indices' : chunks'[j] = NoData
    BY <1>2 DEF Indices, ChunkCount
  <2>2. \A j \in Indices' : IsData(chunks[j])'
    BY <1>6, <2>1 DEF IsData
  <2>3. i' \in 0..ChunkCount(size')
    BY <1>2, <1>5
  <2>4. DOMAIN tiffData' \subseteq Nat
    BY <1>2 DEF NoData
  <2> QED
    BY <1>2, <1>4, <2>1, <2>2, <2>3, <2>4 DEF TypeOK, ChunkCount
<1>8. TransferInv'
  <2>1. \A j \in Indices' : ~ (j < i')
    BY <1>2, <1>5 DEF Indices, ChunkCount
  <2> QED
    BY <1>2, <2>1 DEF TransferInv
<1>9. CommandInv'
  BY <1>1, <1>2, <1>3, <1>4 DEF CommandInv
<1> QED
  BY <1>7, <1>8, <1>9

\* When every chunk is copied the memory holds the image.
LEMMA ImageDecoded ==
  ASSUME TypeOK, TransferInv, phase = "decoded" \/ (phase = "copy" /\ i \notin Indices)
  PROVE  tiffData = tiff_data
<1>1. i = ChunkCount(size)
  BY LoopEnds DEF TransferInv
<1>2. tiffData = [b \in 0..(size - 1) |-> tiffData[b]]
  BY DEF TransferInv
<1>3. \A b \in 0..(size - 1) : tiffData[b] = tiff_data[b]
  BY <1>1, NothingCovered DEF TransferInv
<1>4. tiff_data = [b \in 0..(size - 1) |-> tiff_data[b]]
  BY DEF TypeOK
<1>5. [b \in 0..(size - 1) |-> tiffData[b]] = [b \in 0..(size - 1) |-> tiff_data[b]]
  BY <1>3
<1> QED
  BY <1>2, <1>4, <1>5

LEMMA CommandInvStep ==
  ASSUME TypeOK, TransferInv, TransferInv', TypeOK', CommandInv,
         [CommandNext]_<<vars, commandVars>>
  PROVE  CommandInv'
<1>1. CASE SplitImage
  BY <1>1 DEF SplitImage, Split, CommandInv, commandVars
<1>2. CASE SendCommand
  BY <1>2 DEF SendCommand, Send, CommandInv
<1>3. CASE JoinImage
  BY <1>3 DEF JoinImage, Measure, Allocate, Copy, CommandInv, commandVars
<1>4. CASE ReceiveCommand
  <2>1. /\ phase = "copy" /\ phase' = "decoded"
        /\ UNCHANGED <<job, sent, message, chunks, tiff_data, tiffData>>
        /\ received' = Decode(message, tiffData) /\ i \notin Indices
    BY <1>4 DEF ReceiveCommand, Decoded, TypeOK
  <2>2. tiffData = TiffOf(sent)
    BY <2>1, ImageDecoded DEF CommandInv
  <2>3. Decode(Encode(sent, chunks), TiffOf(sent)) = sent
    BY DecodeEncoded DEF CommandInv
  <2> QED
    BY <2>1, <2>2, <2>3 DEF CommandInv
<1>5. CASE RunJob
  BY <1>5, RunJobStep
<1>6. CASE UNCHANGED <<vars, commandVars>>
  BY <1>6 DEF vars, commandVars, CommandInv
<1> QED
  BY <1>1, <1>2, <1>3, <1>4, <1>5, <1>6 DEF CommandNext

LEMMA CommandInvInit == CommandInit => CommandInv
  BY DEF CommandInit, Init, CommandInv

-----------------------------------------------------------------------------
(* The invariants of the specification *)

LEMMA Inductive ==
  TypeOK /\ TransferInv /\ CommandInv /\ [CommandNext]_<<vars, commandVars>>
    => TypeOK' /\ TransferInv' /\ CommandInv'
<1> SUFFICES ASSUME TypeOK, TransferInv, CommandInv, [CommandNext]_<<vars, commandVars>>
             PROVE  TypeOK' /\ TransferInv' /\ CommandInv'
  OBVIOUS
<1>1. TypeOK' /\ TransferInv'
  BY CommandSteps, TypeStep, TransferStep, RunJobStep
<1> QED
  BY <1>1, CommandInvStep

\* No loop of to_message or from_serialised_string runs past the last chunk, and each
\* chunk holds as many bytes as it says.
THEOREM TypeCorrect == CommandSpec => []TypeOK
<1>1. CommandInit => TypeOK /\ TransferInv /\ CommandInv
  BY TypeInit, TransferInit, CommandInvInit DEF CommandInit
<1> QED
  BY <1>1, Inductive, PTL DEF CommandSpec

\* What each loop has done so far: the chunks split off are the bytes of their places,
\* the sizes added up are those of the chunks before, and what is copied is the image.
THEOREM TransferInvariant == CommandSpec => []TransferInv
<1>1. CommandInit => TypeOK /\ TransferInv /\ CommandInv
  BY TypeInit, TransferInit, CommandInvInit DEF CommandInit
<1> QED
  BY <1>1, Inductive, PTL DEF CommandSpec

\* The message under way is that of the command sent, the command received is the one
\* sent, and a result is the answer to the job that was received.
THEOREM CommandInvariant == CommandSpec => []CommandInv
<1>1. CommandInit => TypeOK /\ TransferInv /\ CommandInv
  BY TypeInit, TransferInit, CommandInvInit DEF CommandInit
<1> QED
  BY <1>1, Inductive, PTL DEF CommandSpec

-----------------------------------------------------------------------------
(* What the transfer promises *)

\* No chunk that to_message makes is empty or too large for Cap'n Proto.
THEOREM ChunksAlwaysFit == CommandSpec => []ChunksFit
<1>1. TypeOK /\ TransferInv => ChunksFit
  <2> SUFFICES ASSUME TypeOK, TransferInv, phase # "split", NEW j \in Indices
               PROVE  chunks[j].size \in 1..MAX_CHUNK_SIZE
    BY DEF ChunksFit
  <2>1. chunks[j].size = ChunkSize(j)
    BY SizeNat, ChunkBytes DEF TransferInv, TypeOK
  <2> QED
    BY <2>1, SizeNat, ChunkBounds
<1> QED
  BY <1>1, TypeCorrect, TransferInvariant, PTL

\* No memcpy of from_data leaves the memory it allocated.
THEOREM CopiesStayWithin == CommandSpec => []WithinAllocation
<1>1. TypeOK /\ TransferInv => WithinAllocation
  BY DEF TransferInv, WithinAllocation
<1> QED
  BY <1>1, TypeCorrect, TransferInvariant, PTL

\* The server decodes the very image the worker encoded.
THEOREM ImageIsReceived == CommandSpec => []ImageReceived
<1>1. TypeOK /\ TransferInv => ImageReceived
  BY ImageDecoded DEF ImageReceived
<1> QED
  BY <1>1, TypeCorrect, TransferInvariant, PTL

\* Any command of the program arrives as it was sent, and no assertion of
\* from_serialised_string on the texts and sizes of its message can fail.
THEOREM CommandIsReceived == CommandSpec => []CommandReceived
<1>1. CommandInv => CommandReceived
  <2> SUFFICES ASSUME CommandInv PROVE CommandReceived
    OBVIOUS
  <2>1. message = None \/ message = Encode(sent, chunks)
    BY DEF CommandInv
  <2>2. TextsAgree(Encode(sent, chunks))
    BY DecodeEncoded DEF CommandInv
  <2> QED
    BY <2>1, <2>2 DEF CommandInv, CommandReceived
<1> QED
  BY <1>1, CommandInvariant, PTL

\* A result finds the one job it answers in the server's maps, and carries what that
\* job asked for.
THEOREM ResultsFindTheirJob == CommandSpec => []ResultFindsItsJob
<1>1. CommandInv => ResultFindsItsJob
  <2> SUFFICES ASSUME CommandInv, job # None, phase = "decoded"
               PROVE  /\ \A other \in JobCommands :
                           Matches(AsJob(other), AsJob(received)) <=> AsJob(other) = AsJob(job)
                      /\ job.class = "EqualisationJob" =>
                           received.tiff_data = Equalised(job.filename, job.mapping)
    BY DEF ResultFindsItsJob
  <2>1. job \in JobCommands /\ received = Answer(job)
    BY DEF CommandInv
  <2>2. /\ AsJob(received) = AsJob(job)
        /\ job.class = "EqualisationJob" =>
             received.tiff_data = Equalised(job.filename, job.mapping)
    BY <2>1, Answers
  <2>3. ASSUME NEW other \in JobCommands
        PROVE  Matches(AsJob(other), AsJob(job)) <=> AsJob(other) = AsJob(job)
    BY DEF Matches, AsJob
  <2> QED
    BY <2>2, <2>3
<1> QED
  BY <1>1, CommandInvariant, PTL
=============================================================================
