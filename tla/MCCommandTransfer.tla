-------------------------- MODULE MCCommandTransfer --------------------------
EXTENDS CommandTransfer

CONSTANTS f1, f2

MCFiles == {f1, f2}
MCFloats == 0..2
MCConcurrencies == {1, 32}

\* From the empty image over two full chunks to one byte more.
MCImageSizes == 0..7
MCBytes == 0..1
MCTiffs == UNION {[0..(n - 1) -> MCBytes] : n \in MCImageSizes}

MCHistogramOf(f) == [bin \in 0..1 |-> IF f = f1 THEN bin ELSE 2 * bin]

\* Images of several sizes, those of the two files of unlike bytes.
MCEqualised(f, map) ==
  [b \in 0..(map[0] + 2 * map[1] - 1) |-> IF f = f1 THEN b % 2 ELSE 1 - (b % 2)]
=============================================================================
