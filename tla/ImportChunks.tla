---------------------------- MODULE ImportChunks ----------------------------
(***************************************************************************)
(* The bytes of an import (image_controller.go, writeDisk, writeChunks and *)
(* createImportDisk): a download is written to a disk, chunk by chunk      *)
(* through one buffer, all-zero chunks left out and the last one padded to *)
(* whole blocks.  A new disk reads as zeros; an import that breaks starts  *)
(* over on a new disk, or on the same one if its cleanup gets stuck.       *)
(* ImageImport has the calls around this loop, and whole chunks.           *)
(*                                                                         *)
(* Nothing runs beside the loop; what a step chooses is what the server    *)
(* and Oxide answer.  Bytes are counted from 0.                            *)
(***************************************************************************)
EXTENDS Integers

CONSTANTS
  Bytes,       \* values of a byte, 0 among them
  MaxLength,   \* bound: the length of a download
  BlockSizes,  \* values of spec.blockSize
  ChunkSize,   \* importChunkSize
  Gib

ASSUME SizesAssumption ==
  /\ 0 \in Bytes /\ MaxLength \in Nat
  /\ ChunkSize \in Nat \ {0} /\ BlockSizes \subseteq Nat \ {0}
  /\ \A b \in BlockSizes : \E k \in 1 .. ChunkSize : ChunkSize = k * b
  /\ Gib \in Nat /\ \E k \in 1 .. Gib : Gib = k * ChunkSize

VARIABLES
  block,   \* spec.blockSize
  size,    \* of the import disk
  disk,    \* its bytes
  was,     \* and those it had before the running attempt
  pc,
  length, body,  \* the bytes the running download yields
  buf,     \* the buffer of the loop
  offset,  \* of the chunk that is next
  sent     \* the last bulk write: its offset and its length

loop == <<length, body, buf, offset>>
vars == <<block, size, disk, was, pc, loop, sent>>

Zeros(n) == [i \in 0 .. n - 1 |-> 0]

Bodies(n) == [0 .. n - 1 -> Bytes]

RoundedUp(n, unit) == ((n + unit - 1) \div unit) * unit

\* Mutant: an empty download gets an empty disk.
NoLeastSize(n) == RoundedUp(n, Gib)

\* Disk sizes are whole GiB, and at least one.
DiskSize(n) == IF n = 0 THEN Gib ELSE RoundedUp(n, Gib)

Padded(n) == RoundedUp(n, block)

\* Mutant: the last chunk only has to start on the disk.
TooLargeByAChunk(announced) == announced > size + ChunkSize

TooLarge(announced) == announced > size

NothingSent == [off |-> 0, len |-> 0]

Init ==
  /\ block \in BlockSizes
  /\ \E n \in 0 .. MaxLength : size = DiskSize(n)
  /\ disk = Zeros(size) /\ was = disk
  /\ pc = "open"
  /\ length = 0 /\ body = Zeros(0) /\ buf = Zeros(ChunkSize) /\ offset = 0
  /\ sent = NothingSent

\* What the server announces now may be longer than what the disk was made for, which
\* changes nothing: disk and size are kept.  What it sends may end early.
Open(announced, n) ==
  /\ pc = "open" /\ ~TooLarge(announced)
  /\ pc' = "read"
  /\ length' = n /\ body' \in Bodies(n)
  /\ buf' = Zeros(ChunkSize) /\ offset' = 0
  /\ UNCHANGED <<block, size, disk, was, sent>>

\* io.ReadFull: how many bytes there are, and the buffer with them.
Left  == length - offset
Count == IF Left < ChunkSize THEN Left ELSE ChunkSize

Filled == [i \in 0 .. ChunkSize - 1 |-> IF i < Count THEN body[offset + i] ELSE buf[i]]

\* Mutant: the rest of the buffer is sent as it is.
NotCleared(n) == Filled

Cleared(n) ==
  [i \in 0 .. ChunkSize - 1 |-> IF n <= i /\ i < Padded(n) THEN 0 ELSE Filled[i]]

AllZero(n) == \A i \in 0 .. Padded(n) - 1 : Cleared(n)[i] = 0

Written(n) ==
  [i \in 0 .. size - 1 |->
     IF offset <= i /\ i < offset + Padded(n) THEN Cleared(n)[i - offset] ELSE disk[i]]

Further(n) ==
  /\ offset' = offset + ChunkSize
  /\ pc' = IF n < ChunkSize THEN "done" ELSE "read"

Read(n) == pc = "read" /\ n = Count /\ n > 0 /\ buf' = Cleared(n)

SkipChunk(n) ==
  /\ Read(n) /\ AllZero(n)
  /\ Further(n)
  /\ UNCHANGED <<block, size, disk, was, length, body, sent>>

WriteChunk(n) ==
  /\ Read(n) /\ ~AllZero(n)
  /\ disk' = Written(n)
  /\ sent' = [off |-> offset, len |-> Padded(n)]
  /\ Further(n)
  /\ UNCHANGED <<block, size, was, length, body>>

\* The write, or only its answer, fails.
WriteFails(n) ==
  /\ Read(n) /\ ~AllZero(n)
  /\ disk' \in {disk, Written(n)}
  /\ sent' = [off |-> offset, len |-> Padded(n)]
  /\ pc' = "broken"
  /\ UNCHANGED <<block, size, was, length, body, offset>>

\* The download fails in mid-chunk, in a way that is no end of it, or the operator is
\* restarted.
ReadFails ==
  /\ pc = "read"
  /\ pc' = "broken"
  /\ UNCHANGED <<block, size, disk, was, loop, sent>>

EndOfBody ==
  /\ pc = "read" /\ Left <= 0
  /\ pc' = "done"
  /\ UNCHANGED <<block, size, disk, was, loop, sent>>

\* A whole download is given up as well: its checksum is wrong, the bulk write cannot be
\* stopped, or the operator is restarted before.
Rejected ==
  /\ pc = "done"
  /\ pc' = "broken"
  /\ UNCHANGED <<block, size, disk, was, loop, sent>>

FreshDisk(n) == size' = DiskSize(n) /\ disk' = Zeros(DiskSize(n))

NextAttempt ==
  /\ pc' = "open" /\ was' = disk'
  /\ length' = 0 /\ body' = Zeros(0) /\ buf' = Zeros(ChunkSize) /\ offset' = 0
  /\ sent' = NothingSent
  /\ UNCHANGED block

\* The import's disk is deleted; the next reconcile makes another, sized by what the
\* server announces then.  Until that has worked, every reconcile tries it again.
StartOver(n) == pc = "broken" /\ FreshDisk(n) /\ NextAttempt

\* The bulk write is stopped, and then the Finalize fails, the cleanup's or that of a
\* whole download, or the operator is restarted: the disk is import_ready as it is, and
\* the next reconcile opens it.
Reopen == pc \in {"broken", "done"} /\ UNCHANGED <<size, disk>> /\ NextAttempt

Next ==
  \/ \E announced \in 0 .. MaxLength : \E n \in 0 .. announced : Open(announced, n)
  \/ \E n \in 1 .. ChunkSize : SkipChunk(n) \/ WriteChunk(n) \/ WriteFails(n)
  \/ ReadFails \/ EndOfBody \/ Rejected \/ Reopen
  \/ \E n \in 0 .. MaxLength : StartOver(n)

Spec == Init /\ [][Next]_vars

-----------------------------------------------------------------------------

TypeOK ==
  /\ block \in BlockSizes /\ size \in Nat \ {0}
  /\ disk \in Bodies(size) /\ was \in Bodies(size)
  /\ pc \in {"open", "read", "done", "broken"}
  /\ length \in 0 .. MaxLength /\ body \in Bodies(length)
  /\ buf \in Bodies(ChunkSize) /\ offset \in Nat
  /\ sent \in [off : Nat, len : 0 .. ChunkSize]

Wanted(i) == IF i < length THEN body[i] ELSE 0

\* Once everything is written the disk holds the download and zeros behind it, whatever
\* the buffer held before the last chunk and with the chunks that were left out.  Only
\* where a zero is wanted may a byte be as it was before: on a new disk that is a zero,
\* on one that was opened again it may be a byte of an earlier attempt
\* (image_controller.go:237, 249-250).
DiskIsBody ==
  pc = "done" =>
    \A i \in 0 .. size - 1 : disk[i] = Wanted(i) \/ (Wanted(i) = 0 /\ disk[i] = was[i])

\* Every bulk write begins at a chunk's offset, is of whole blocks and lies on the
\* disk, also when the disk was made for another download
\* (image_controller.go:195, 216, 253, 261).
WritesFit ==
  /\ sent.off % ChunkSize = 0 /\ sent.len % block = 0
  /\ sent.off + sent.len <= size
=============================================================================
