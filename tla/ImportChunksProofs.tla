-------------------------- MODULE ImportChunksProofs --------------------------
(***************************************************************************)
(* What a finished import leaves on its disk, for every length, block      *)
(* size, chunk size and content, and after any earlier attempt             *)
(* (ImportChunks).                                                         *)
(***************************************************************************)
EXTENDS ImportChunks, TLAPS

Multiple(n, unit) == \E k \in Nat : n = k * unit

-----------------------------------------------------------------------------
(* Rounding up, and what is whole.                                         *)

LEMMA Quotient ==
  ASSUME NEW a \in Nat, NEW u \in Nat \ {0}
  PROVE  /\ a \div u \in Nat
         /\ (a \div u) * u <= a
         /\ a < (a \div u) * u + u
  BY SMT

LEMMA TimesNat ==
  ASSUME NEW k \in Nat, NEW u \in Nat
  PROVE  k * u \in Nat
  BY SMT

LEMMA TimesMonotone ==
  ASSUME NEW j \in Nat, NEW k \in Nat, NEW u \in Nat \ {0}, j * u < k * u
  PROVE  j * u + u <= k * u
<1>1. j < k
  <2> SUFFICES ASSUME k <= j PROVE FALSE
    OBVIOUS
  <2> DEFINE d == j - k
  <2>1. d \in Nat /\ j = k + d
    OBVIOUS
  <2>2. j * u = k * u + d * u
    BY <2>1
  <2>3. d * u \in Nat
    BY <2>1, TimesNat
  <2> QED
    BY <2>2, <2>3, TimesNat
<1> DEFINE d == k - j - 1
<1>2. d \in Nat /\ k = j + 1 + d
  BY <1>1
<1>3. k * u = j * u + u + d * u
  BY <1>2
<1>4. d * u \in Nat
  BY <1>2, TimesNat
<1> QED
  BY <1>3, <1>4, TimesNat

LEMMA MultipleIsWhole ==
  ASSUME NEW n \in Nat, NEW u \in Nat \ {0}, Multiple(n, u)
  PROVE  n % u = 0
<1>1. PICK k \in Nat : n = k * u
  BY DEF Multiple
<1> DEFINE q == n \div u
           r == n % u
<1>2. n = q * u + r /\ r \in 0 .. u - 1 /\ q \in Nat
  BY SMT
<1> HIDE DEF q, r
<1>3. q * u \in Nat
  BY <1>2, TimesNat
<1> SUFFICES ASSUME r # 0 PROVE FALSE
  BY DEF r
<1>4. q * u < k * u
  BY <1>1, <1>2, <1>3
<1>5. q * u + u <= k * u
  BY <1>2, <1>4, TimesMonotone
<1> QED
  BY <1>1, <1>2, <1>3, <1>5

LEMMA RoundedUpIsNext ==
  ASSUME NEW n \in Nat, NEW u \in Nat \ {0}
  PROVE  /\ RoundedUp(n, u) \in Nat /\ Multiple(RoundedUp(n, u), u)
         /\ n <= RoundedUp(n, u) /\ RoundedUp(n, u) < n + u
<1> DEFINE q == (n + u - 1) \div u
<1>1. n + u - 1 \in Nat
  OBVIOUS
<1>2. q \in Nat /\ q * u <= n + u - 1 /\ n + u - 1 < q * u + u
  BY <1>1, Quotient
<1>3. RoundedUp(n, u) = q * u
  BY DEF RoundedUp
<1>4. q * u \in Nat
  BY <1>2, TimesNat
<1> HIDE DEF q
<1>5. Multiple(q * u, u)
  BY <1>2 DEF Multiple
<1> QED
  BY <1>2, <1>3, <1>4, <1>5

\* Rounding up passes no multiple.
LEMMA RoundedUpFits ==
  ASSUME NEW n \in Nat, NEW u \in Nat \ {0}, NEW m \in Nat, Multiple(m, u), n <= m
  PROVE  RoundedUp(n, u) <= m
<1>1. PICK k \in Nat : m = k * u
  BY DEF Multiple
<1>2. PICK q \in Nat : RoundedUp(n, u) = q * u
  BY RoundedUpIsNext DEF Multiple
<1>3. RoundedUp(n, u) \in Nat /\ RoundedUp(n, u) < n + u
  BY RoundedUpIsNext
<1> SUFFICES ASSUME m < RoundedUp(n, u) PROVE FALSE
  BY <1>3
<1>4. k * u + u <= q * u
  BY <1>1, <1>2, TimesMonotone
<1> QED
  BY <1>1, <1>2, <1>3, <1>4, TimesNat

LEMMA MultipleOfMultiple ==
  ASSUME NEW n \in Nat, NEW m \in Nat, NEW u \in Nat, Multiple(n, m), Multiple(m, u)
  PROVE  Multiple(n, u)
<1>1. PICK j \in Nat : n = j * m
  BY DEF Multiple
<1>2. PICK k \in Nat : m = k * u
  BY DEF Multiple
<1>3. n = (j * k) * u
  BY <1>1, <1>2
<1>4. j * k \in Nat
  BY TimesNat
<1> QED
  BY <1>3, <1>4 DEF Multiple

LEMMA NextMultiple ==
  ASSUME NEW n \in Nat, NEW u \in Nat, Multiple(n, u)
  PROVE  Multiple(n + u, u)
<1>1. PICK k \in Nat : n = k * u
  BY DEF Multiple
<1>2. n + u = (k + 1) * u
  BY <1>1
<1> QED
  BY <1>2 DEF Multiple

\* From one multiple below another there is room for a whole unit.
LEMMA RoomForOne ==
  ASSUME NEW m \in Nat, NEW n \in Nat, NEW u \in Nat \ {0},
         Multiple(m, u), Multiple(n, u), m < n
  PROVE  m + u <= n
<1>1. PICK j \in Nat : m = j * u
  BY DEF Multiple
<1>2. PICK k \in Nat : n = k * u
  BY DEF Multiple
<1> QED
  BY <1>1, <1>2, TimesMonotone

-----------------------------------------------------------------------------
(* The sizes.                                                              *)

LEMMA Units ==
  /\ ChunkSize \in Nat \ {0} /\ Gib \in Nat \ {0}
  /\ Multiple(Gib, ChunkSize)
  /\ \A b \in BlockSizes : b \in Nat \ {0} /\ Multiple(ChunkSize, b)
<1>1. ChunkSize \in Nat \ {0} /\ Gib \in Nat
  BY SizesAssumption
<1>2. PICK k \in 1 .. Gib : Gib = k * ChunkSize
  BY SizesAssumption
<1>3. Gib # 0 /\ k \in Nat
  BY <1>1, <1>2
<1>4. ASSUME NEW b \in BlockSizes PROVE b \in Nat \ {0} /\ Multiple(ChunkSize, b)
  <2>1. PICK j \in 1 .. ChunkSize : ChunkSize = j * b
    BY SizesAssumption
  <2>2. j \in Nat
    BY <1>1, <2>1
  <2> QED
    BY <2>1, <2>2, SizesAssumption DEF Multiple
<1> QED
  BY <1>1, <1>2, <1>3, <1>4 DEF Multiple

LEMMA DiskSizeIsWhole ==
  ASSUME NEW n \in Nat
  PROVE  DiskSize(n) \in Nat \ {0} /\ Multiple(DiskSize(n), ChunkSize)
<1>1. CASE n = 0
  BY <1>1, Units DEF DiskSize
<1>2. CASE n # 0
  <2>1. /\ RoundedUp(n, Gib) \in Nat /\ Multiple(RoundedUp(n, Gib), Gib)
        /\ n <= RoundedUp(n, Gib)
    BY RoundedUpIsNext, Units
  <2>2. DiskSize(n) = RoundedUp(n, Gib)
    BY <1>2 DEF DiskSize
  <2> QED
    BY <1>2, <2>1, <2>2, MultipleOfMultiple, Units
<1> QED
  BY <1>1, <1>2

\* A chunk is padded to whole blocks within the buffer.
LEMMA PaddedFits ==
  ASSUME block \in BlockSizes, NEW n \in 1 .. ChunkSize
  PROVE  /\ Padded(n) \in Nat /\ Multiple(Padded(n), block)
         /\ n <= Padded(n) /\ Padded(n) <= ChunkSize
<1>1. n \in Nat /\ n <= ChunkSize
  BY Units
<1> QED
  BY <1>1, RoundedUpIsNext, RoundedUpFits, Units DEF Padded

-----------------------------------------------------------------------------
(* The invariant.                                                          *)

OnChunks ==
  /\ Multiple(size, ChunkSize) /\ Multiple(offset, ChunkSize)
  /\ length <= size
  /\ pc = "open" => length = 0 /\ offset = 0
  /\ pc = "read" => offset <= length
  /\ pc = "done" => length <= offset

\* The disk has what was read so far, or what it had where that is a zero; from there on
\* it is as it was.
KeptOrWanted(i) == disk[i] = Wanted(i) \/ (Wanted(i) = 0 /\ disk[i] = was[i])

WrittenSoFar ==
  /\ pc = "open" => disk = was
  /\ pc \in {"read", "done"} =>
       \A i \in 0 .. size - 1 : IF i < offset THEN KeptOrWanted(i) ELSE disk[i] = was[i]

SentWhole ==
  /\ Multiple(sent.off, ChunkSize) /\ Multiple(sent.len, block)
  /\ sent.off + sent.len <= size

ChunksInv == TypeOK /\ OnChunks /\ WrittenSoFar /\ SentWhole

LEMMA NothingMultiple == ASSUME NEW u \in Nat PROVE Multiple(0, u)
<1>1. 0 = 0 * u
  OBVIOUS
<1> QED
  BY <1>1 DEF Multiple

LEMMA ChunksInit == Init => ChunksInv
<1> SUFFICES ASSUME Init PROVE ChunksInv
  OBVIOUS
<1> USE DEF Init
<1>1. PICK n \in 0 .. MaxLength : size = DiskSize(n)
  OBVIOUS
<1>2. size \in Nat \ {0} /\ Multiple(size, ChunkSize)
  BY <1>1, DiskSizeIsWhole, SizesAssumption
<1>3. block \in Nat /\ ChunkSize \in Nat /\ 0 \in Bytes
  BY Units, SizesAssumption
<1>4. TypeOK
  BY <1>2, <1>3, SizesAssumption DEF TypeOK, Bodies, Zeros, NothingSent
<1>5. OnChunks
  BY <1>2, <1>3, NothingMultiple DEF OnChunks
<1>6. WrittenSoFar
  BY DEF WrittenSoFar
<1>7. SentWhole
  BY <1>2, <1>3, NothingMultiple DEF SentWhole, NothingSent
<1> QED
  BY <1>4, <1>5, <1>6, <1>7 DEF ChunksInv

LEMMA OpenKeeps ==
  ASSUME ChunksInv, NEW announced \in 0 .. MaxLength, NEW n \in 0 .. announced,
         Open(announced, n)
  PROVE  ChunksInv'
<1> USE DEF ChunksInv, Open
<1>1. n \in 0 .. MaxLength /\ n <= size /\ size \in Nat \ {0}
  BY SizesAssumption DEF TooLarge, TypeOK
<1>2. TypeOK'
  BY <1>1, Units, SizesAssumption DEF TypeOK, Bodies, Zeros
<1>3. OnChunks'
  BY <1>1, Units, NothingMultiple DEF OnChunks
<1>4. WrittenSoFar'
  <2>1. disk = was /\ offset' = 0
    BY DEF WrittenSoFar
  <2> QED
    BY <2>1 DEF WrittenSoFar
<1>5. SentWhole'
  BY DEF SentWhole
<1> QED
  BY <1>2, <1>3, <1>4, <1>5

\* What a chunk that is read comes to.
LEMMA ReadChunk ==
  ASSUME ChunksInv, NEW n \in 1 .. ChunkSize, Read(n)
  PROVE  /\ n <= length - offset
         /\ n < ChunkSize => length = offset + n
         /\ offset + ChunkSize <= size
         /\ Cleared(n) \in Bodies(ChunkSize)
         /\ \A i \in 0 .. ChunkSize - 1 :
              i < Padded(n) => Cleared(n)[i] = IF offset + i < length THEN body[offset + i] ELSE 0
<1> USE DEF ChunksInv, Read
<1>1. length \in Nat /\ offset \in Nat /\ size \in Nat \ {0} /\ ChunkSize \in Nat \ {0} /\ n \in Nat
  BY Units, SizesAssumption DEF TypeOK
<1>2. n <= length - offset /\ (n < ChunkSize => length = offset + n)
  BY <1>1 DEF Count, Left
<1>3. offset + ChunkSize <= size
  <2>1. offset < size
    BY <1>1, <1>2 DEF OnChunks
  <2> QED
    BY <1>1, <2>1, RoomForOne DEF OnChunks
<1>4. /\ Padded(n) \in Nat /\ n <= Padded(n) /\ Padded(n) <= ChunkSize
  BY PaddedFits DEF TypeOK
<1>5. Filled \in Bodies(ChunkSize)
  <2> SUFFICES ASSUME NEW i \in 0 .. ChunkSize - 1
               PROVE  (IF i < Count THEN body[offset + i] ELSE buf[i]) \in Bytes
    BY DEF Filled, Bodies
  <2>1. CASE i < Count
    <3>1. offset + i \in 0 .. length - 1
      BY <1>1, <1>2, <2>1
    <3> QED
      BY <2>1, <3>1 DEF TypeOK, Bodies
  <2>2. CASE ~(i < Count)
    BY <2>2 DEF TypeOK, Bodies
  <2> QED
    BY <2>1, <2>2
<1>6. Cleared(n) \in Bodies(ChunkSize)
  BY <1>5, SizesAssumption DEF Cleared, Bodies
<1>7. ASSUME NEW i \in 0 .. ChunkSize - 1, i < Padded(n)
      PROVE  Cleared(n)[i] = IF offset + i < length THEN body[offset + i] ELSE 0
  <2>1. CASE i < n
    <3>1. Cleared(n)[i] = Filled[i] /\ Filled[i] = body[offset + i]
      BY <1>1, <2>1 DEF Cleared, Filled
    <3> QED
      BY <1>1, <1>2, <2>1, <3>1
  <2>2. CASE n <= i
    <3>1. Cleared(n)[i] = 0
      BY <1>7, <2>2 DEF Cleared
    <3>2. n < ChunkSize
      BY <1>1, <2>2
    <3> QED
      BY <1>1, <1>2, <2>2, <3>1, <3>2
  <2> QED
    BY <1>1, <2>1, <2>2
<1> QED
  BY <1>2, <1>3, <1>6, <1>7

LEMMA FurtherKeeps ==
  ASSUME ChunksInv, NEW n \in 1 .. ChunkSize, Read(n), Further(n),
         UNCHANGED <<block, size, length, body>>
  PROVE  OnChunks' /\ offset' \in Nat /\ buf' \in Bodies(ChunkSize)
<1> USE DEF ChunksInv, Further
<1>1. length \in Nat /\ offset \in Nat /\ size \in Nat \ {0} /\ ChunkSize \in Nat \ {0} /\ n \in Nat
  BY Units, SizesAssumption DEF TypeOK
<1>2. n <= length - offset /\ (n < ChunkSize => length = offset + n)
  BY ReadChunk
<1>3. Multiple(offset + ChunkSize, ChunkSize)
  BY <1>1, NextMultiple DEF OnChunks
<1>4. buf' \in Bodies(ChunkSize)
  BY ReadChunk DEF Read
<1>5. Multiple(size, ChunkSize)' /\ Multiple(offset, ChunkSize)'
  BY <1>3 DEF OnChunks, Multiple
<1>6. (length <= size)' /\ (pc = "open" => length = 0 /\ offset = 0)'
  BY DEF OnChunks
<1>7. (pc = "read" => offset <= length)' /\ (pc = "done" => length <= offset)'
  BY <1>1, <1>2
<1>8. OnChunks'
  BY <1>5, <1>6, <1>7 DEF OnChunks
<1> QED
  BY <1>1, <1>4, <1>8

LEMMA SkipKeeps ==
  ASSUME ChunksInv, NEW n \in 1 .. ChunkSize, SkipChunk(n)
  PROVE  ChunksInv'
<1> USE DEF ChunksInv, SkipChunk
<1>1. length \in Nat /\ offset \in Nat /\ size \in Nat \ {0} /\ ChunkSize \in Nat \ {0} /\ n \in Nat
  BY Units, SizesAssumption DEF TypeOK
<1>2. OnChunks' /\ offset' \in Nat /\ buf' \in Bodies(ChunkSize)
  BY FurtherKeeps
<1>3. TypeOK'
  BY <1>2 DEF TypeOK, Bodies, Further
<1>4. WrittenSoFar'
  <2>0. \A i : Wanted(i)' = Wanted(i)
    BY DEF Wanted
  <2> SUFFICES ASSUME NEW i \in 0 .. size - 1
               PROVE  IF i < offset + ChunkSize THEN KeptOrWanted(i) ELSE disk[i] = was[i]
    BY <2>0 DEF WrittenSoFar, Further, KeptOrWanted
  <2>1. IF i < offset THEN KeptOrWanted(i) ELSE disk[i] = was[i]
    BY DEF WrittenSoFar, Read
  <2>2. CASE i < offset \/ offset + ChunkSize <= i
    BY <1>1, <2>1, <2>2
  <2>3. CASE offset <= i /\ i < offset + ChunkSize
    <3> DEFINE j == i - offset
    <3>1. j \in 0 .. ChunkSize - 1 /\ i = offset + j
      BY <1>1, <2>3
    <3>2. Padded(n) \in Nat /\ n <= Padded(n)
      BY PaddedFits DEF TypeOK
    <3>3. CASE i < length
      <4>1. n <= length - offset /\ (n < ChunkSize => length = offset + n)
        BY ReadChunk
      <4>2. j < Padded(n)
        BY <1>1, <3>1, <3>2, <3>3, <4>1
      <4>3. Cleared(n)[j] = 0
        BY <3>1, <3>2, <4>2 DEF AllZero
      <4>4. Cleared(n)[j] = body[i]
        BY <3>1, <3>3, <4>2, ReadChunk
      <4>5. Wanted(i) = 0
        BY <3>3, <4>3, <4>4 DEF Wanted
      <4> QED
        BY <1>1, <2>1, <2>3, <4>5 DEF KeptOrWanted
    <3>4. CASE ~(i < length)
      BY <1>1, <2>1, <2>3, <3>4 DEF KeptOrWanted, Wanted
    <3> QED
      BY <3>3, <3>4
  <2> QED
    BY <1>1, <2>2, <2>3
<1>5. SentWhole'
  BY DEF SentWhole
<1> QED
  BY <1>2, <1>3, <1>4, <1>5

\* The write of a chunk, whatever becomes of it.
LEMMA ChunkIsWhole ==
  ASSUME ChunksInv, NEW n \in 1 .. ChunkSize, Read(n)
  PROVE  /\ Written(n) \in Bodies(size)
         /\ Padded(n) \in 0 .. ChunkSize
         /\ Multiple(offset, ChunkSize) /\ Multiple(Padded(n), block)
         /\ offset + Padded(n) <= size
<1> USE DEF ChunksInv
<1>1. length \in Nat /\ offset \in Nat /\ size \in Nat \ {0} /\ ChunkSize \in Nat \ {0} /\ n \in Nat
  BY Units, SizesAssumption DEF TypeOK
<1>2. /\ Padded(n) \in Nat /\ Multiple(Padded(n), block)
      /\ n <= Padded(n) /\ Padded(n) <= ChunkSize
  BY PaddedFits DEF TypeOK
<1>3. offset + ChunkSize <= size /\ Cleared(n) \in Bodies(ChunkSize)
  BY ReadChunk
<1>5. Multiple(offset, ChunkSize)
  BY DEF OnChunks
<1>6. Written(n) \in Bodies(size)
  <2> SUFFICES ASSUME NEW i \in 0 .. size - 1
               PROVE  (IF offset <= i /\ i < offset + Padded(n) THEN Cleared(n)[i - offset]
                       ELSE disk[i]) \in Bytes
    BY DEF Written, Bodies
  <2>1. CASE offset <= i /\ i < offset + Padded(n)
    <3>1. i - offset \in 0 .. ChunkSize - 1
      BY <1>1, <1>2, <2>1
    <3> QED
      BY <1>3, <2>1, <3>1 DEF Bodies
  <2>2. CASE ~(offset <= i /\ i < offset + Padded(n))
    BY <2>2 DEF TypeOK, Bodies
  <2> QED
    BY <2>1, <2>2
<1> QED
  BY <1>1, <1>2, <1>3, <1>5, <1>6

LEMMA WriteKeeps ==
  ASSUME ChunksInv, NEW n \in 1 .. ChunkSize, WriteChunk(n)
  PROVE  ChunksInv'
<1> USE DEF ChunksInv, WriteChunk
<1>1. length \in Nat /\ offset \in Nat /\ size \in Nat \ {0} /\ ChunkSize \in Nat \ {0} /\ n \in Nat
  BY Units, SizesAssumption DEF TypeOK
<1>2. OnChunks' /\ offset' \in Nat /\ buf' \in Bodies(ChunkSize)
  BY FurtherKeeps
<1>3. /\ Written(n) \in Bodies(size)
      /\ Padded(n) \in 0 .. ChunkSize
      /\ Multiple(offset, ChunkSize) /\ Multiple(Padded(n), block)
      /\ offset + Padded(n) <= size
  BY ChunkIsWhole
<1>4. TypeOK'
  BY <1>1, <1>2, <1>3 DEF TypeOK, Bodies, Further
<1>5. WrittenSoFar'
  <2>0. \A i : Wanted(i)' = Wanted(i)
    BY DEF Wanted
  <2> SUFFICES ASSUME NEW i \in 0 .. size - 1
               PROVE  IF i < offset + ChunkSize
                      THEN \/ Written(n)[i] = Wanted(i)
                           \/ Wanted(i) = 0 /\ Written(n)[i] = was[i]
                      ELSE Written(n)[i] = was[i]
    BY <2>0 DEF WrittenSoFar, Further, KeptOrWanted
  <2>1. IF i < offset THEN KeptOrWanted(i) ELSE disk[i] = was[i]
    BY DEF WrittenSoFar, Read
  <2>2. n <= length - offset /\ (n < ChunkSize => length = offset + n)
    BY ReadChunk
  <2>3. n <= Padded(n)
    BY PaddedFits DEF TypeOK
  <2>4. CASE offset <= i /\ i < offset + Padded(n)
    <3> DEFINE j == i - offset
    <3>1. j \in 0 .. ChunkSize - 1 /\ i = offset + j /\ j < Padded(n)
      BY <1>1, <1>3, <2>4
    <3>2. Cleared(n)[j] = Wanted(i)
      BY <3>1, ReadChunk DEF Wanted
    <3>3. Written(n)[i] = Cleared(n)[j]
      BY <2>4 DEF Written
    <3>4. i < offset + ChunkSize
      BY <1>1, <1>3, <2>4
    <3> QED
      BY <3>2, <3>3, <3>4
  <2>5. CASE ~(offset <= i /\ i < offset + Padded(n))
    <3>1. Written(n)[i] = disk[i]
      BY <2>5 DEF Written
    <3>2. i < offset \/ offset + ChunkSize <= i \/ (length <= i /\ offset <= i)
      BY <1>1, <1>3, <2>2, <2>3, <2>5
    <3>3. CASE i < offset
      BY <1>1, <2>1, <3>1, <3>3 DEF KeptOrWanted
    <3>4. CASE offset + ChunkSize <= i
      BY <1>1, <2>1, <3>1, <3>4
    <3>5. CASE length <= i /\ offset <= i
      BY <1>1, <2>1, <3>1, <3>5 DEF Wanted
    <3> QED
      BY <3>2, <3>3, <3>4, <3>5
  <2> QED
    BY <2>4, <2>5
<1>6. SentWhole'
  BY <1>3 DEF SentWhole, Multiple
<1> QED
  BY <1>2, <1>4, <1>5, <1>6

LEMMA WriteFailsKeeps ==
  ASSUME ChunksInv, NEW n \in 1 .. ChunkSize, WriteFails(n)
  PROVE  ChunksInv'
<1> USE DEF ChunksInv, WriteFails
<1>1. /\ Written(n) \in Bodies(size)
      /\ Padded(n) \in 0 .. ChunkSize
      /\ Multiple(offset, ChunkSize) /\ Multiple(Padded(n), block)
      /\ offset + Padded(n) <= size
  BY ChunkIsWhole
<1>2. Cleared(n) \in Bodies(ChunkSize)
  BY ReadChunk
<1>3. TypeOK'
  BY <1>1, <1>2 DEF TypeOK, Bodies, Read
<1>4. OnChunks' /\ WrittenSoFar'
  BY DEF OnChunks, WrittenSoFar, Multiple
<1>5. SentWhole'
  BY <1>1 DEF SentWhole, Multiple
<1> QED
  BY <1>3, <1>4, <1>5

\* Every attempt begins with the disk as it is, new or not.
LEMMA NextAttemptKeeps ==
  ASSUME ChunksInv, NextAttempt, size' \in Nat \ {0}, Multiple(size', ChunkSize),
         disk' \in Bodies(size')
  PROVE  ChunksInv'
<1>1. /\ block \in BlockSizes /\ block \in Nat /\ ChunkSize \in Nat /\ 0 \in Bytes
      /\ MaxLength \in Nat
  BY Units, SizesAssumption DEF ChunksInv, TypeOK
<1>2. /\ block' = block /\ was' = disk' /\ pc' = "open"
      /\ length' = 0 /\ body' = Zeros(0) /\ buf' = Zeros(ChunkSize) /\ offset' = 0
      /\ sent' = [off |-> 0, len |-> 0]
  BY DEF NextAttempt, NothingSent
<1>3. Zeros(0) \in Bodies(0) /\ Zeros(ChunkSize) \in Bodies(ChunkSize)
  BY <1>1 DEF Zeros, Bodies
<1>4. TypeOK'
  <2>1. body' \in Bodies(length') /\ was' \in Bodies(size') /\ length' \in 0 .. MaxLength
    BY <1>1, <1>2, <1>3
  <2>2. sent' \in [off : Nat, len : 0 .. ChunkSize]
    BY <1>1, <1>2
  <2>3. Bodies(size)' = Bodies(size') /\ Bodies(length)' = Bodies(length')
        /\ Bodies(ChunkSize)' = Bodies(ChunkSize)
    BY DEF Bodies
  <2> QED
    BY <1>1, <1>2, <1>3, <2>1, <2>2, <2>3 DEF TypeOK
<1>5. OnChunks'
  <2>1. Multiple(0, ChunkSize)
    BY <1>1, NothingMultiple
  <2>2. Multiple(size, ChunkSize)' = Multiple(size', ChunkSize)
        /\ Multiple(offset, ChunkSize)' = Multiple(0, ChunkSize)
    BY <1>2 DEF Multiple
  <2> QED
    BY <1>1, <1>2, <2>1, <2>2 DEF OnChunks
<1>6. WrittenSoFar'
  BY <1>2 DEF WrittenSoFar
<1>7. SentWhole'
  <2>1. Multiple(0, ChunkSize) /\ Multiple(0, block)
    BY <1>1, NothingMultiple
  <2>2. /\ Multiple(sent.off, ChunkSize)' = Multiple(0, ChunkSize)
        /\ Multiple(sent.len, block)' = Multiple(0, block)
    BY <1>2 DEF Multiple
  <2>3. sent'.off = 0 /\ sent'.len = 0 /\ size' \in Nat
    BY <1>2
  <2> QED
    BY <2>1, <2>2, <2>3 DEF SentWhole
<1> QED
  BY <1>4, <1>5, <1>6, <1>7 DEF ChunksInv

LEMMA StartOverKeeps ==
  ASSUME ChunksInv, NEW n \in 0 .. MaxLength, StartOver(n)
  PROVE  ChunksInv'
<1>1. size' \in Nat \ {0} /\ Multiple(size', ChunkSize) /\ size' = DiskSize(n)
  BY DiskSizeIsWhole, SizesAssumption DEF StartOver, FreshDisk
<1>2. disk' \in Bodies(size')
  BY <1>1, SizesAssumption DEF StartOver, FreshDisk, Bodies, Zeros
<1> QED
  BY <1>1, <1>2, NextAttemptKeeps DEF StartOver

LEMMA ReopenKeeps == ASSUME ChunksInv, Reopen PROVE ChunksInv'
<1>1. size' \in Nat \ {0} /\ Multiple(size', ChunkSize) /\ disk' \in Bodies(size')
  BY DEF Reopen, ChunksInv, TypeOK, OnChunks
<1> QED
  BY <1>1, NextAttemptKeeps DEF Reopen

LEMMA ChunksNext == ChunksInv /\ [Next]_vars => ChunksInv'
<1> SUFFICES ASSUME ChunksInv, [Next]_vars PROVE ChunksInv'
  OBVIOUS
<1>1. CASE \E announced \in 0 .. MaxLength : \E n \in 0 .. announced : Open(announced, n)
  BY <1>1, OpenKeeps
<1>2. CASE \E n \in 1 .. ChunkSize : SkipChunk(n) \/ WriteChunk(n) \/ WriteFails(n)
  BY <1>2, SkipKeeps, WriteKeeps, WriteFailsKeeps
<1>3. CASE ReadFails \/ Rejected \/ UNCHANGED vars
  BY <1>3
  DEF ChunksInv, TypeOK, OnChunks, WrittenSoFar, KeptOrWanted, Wanted, SentWhole,
      ReadFails, Rejected, vars, loop
<1>4. CASE EndOfBody
  <2> USE DEF ChunksInv, EndOfBody, loop
  <2>1. length <= offset
    BY <1>4 DEF Left, TypeOK
  <2>2. TypeOK' /\ SentWhole'
    BY <1>4 DEF TypeOK, SentWhole
  <2>3. OnChunks'
    BY <1>4, <2>1 DEF OnChunks
  <2>4. WrittenSoFar'
    BY <1>4 DEF WrittenSoFar, KeptOrWanted, Wanted
  <2> QED
    BY <2>2, <2>3, <2>4
<1>5. CASE \E n \in 0 .. MaxLength : StartOver(n)
  BY <1>5, StartOverKeeps
<1>6. CASE Reopen
  BY <1>6, ReopenKeeps
<1> QED
  BY <1>1, <1>2, <1>3, <1>4, <1>5, <1>6 DEF Next

LEMMA ChunksInvariant == Spec => []ChunksInv
  BY ChunksInit, ChunksNext, PTL DEF Spec

\* The buffer, the disk and every write keep their sizes (image_controller.go:251-272).
THEOREM ChunkTypes == Spec => []TypeOK
<1>1. ChunksInv => TypeOK
  BY DEF ChunksInv
<1> QED
  BY <1>1, ChunksInvariant, PTL

LEMMA DoneIsBody == ChunksInv => DiskIsBody
<1> SUFFICES ASSUME ChunksInv, pc = "done", NEW i \in 0 .. size - 1
             PROVE  disk[i] = Wanted(i) \/ (Wanted(i) = 0 /\ disk[i] = was[i])
  BY DEF DiskIsBody
<1>1. length <= offset /\ length \in Nat /\ offset \in Nat
  BY SizesAssumption DEF ChunksInv, OnChunks, TypeOK
<1>2. IF i < offset THEN KeptOrWanted(i) ELSE disk[i] = was[i]
  BY DEF ChunksInv, WrittenSoFar
<1> QED
  BY <1>1, <1>2 DEF KeptOrWanted, Wanted

\* What a finished import has on its disk is the download and zeros behind it, except that
\* in place of a zero there may be what the disk held before, whatever the length, the
\* block size and the content, and however often it was started over or the disk opened
\* again (image_controller.go:237, 249-250).
THEOREM ImportIsExact == Spec => []DiskIsBody
  BY DoneIsBody, ChunksInvariant, PTL

\* So on a disk that read as zeros when the attempt began it is the download exactly
\* (image_controller.go:249-250).
THEOREM NewDiskIsExact ==
  Spec => [](pc = "done" /\ was = Zeros(size)
               => \A i \in 0 .. size - 1 : disk[i] = IF i < length THEN body[i] ELSE 0)
<1>1. DiskIsBody => (pc = "done" /\ was = Zeros(size)
                       => \A i \in 0 .. size - 1 : disk[i] = IF i < length THEN body[i] ELSE 0)
  BY DEF DiskIsBody, Wanted, Zeros
<1> QED
  BY <1>1, ImportIsExact, PTL

\* Every write begins with a chunk, is of whole blocks and stays on the disk, even when the
\* disk was made for a shorter download (image_controller.go:195, 216, 253, 261).
THEOREM WritesAreWhole == Spec => []WritesFit
<1>1. ChunksInv => WritesFit
  <2> SUFFICES ASSUME ChunksInv PROVE WritesFit
    OBVIOUS
  <2>1. /\ block \in Nat \ {0} /\ ChunkSize \in Nat \ {0}
        /\ sent.off \in Nat /\ sent.len \in Nat
    BY Units DEF ChunksInv, TypeOK
  <2> QED
    BY <2>1, MultipleIsWhole DEF ChunksInv, SentWhole, WritesFit
<1> QED
  BY <1>1, ChunksInvariant, PTL
=============================================================================
