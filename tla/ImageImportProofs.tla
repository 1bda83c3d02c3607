------------------------- MODULE ImageImportProofs -------------------------
(***************************************************************************)
(* Proofs about the Image controller for every set of files, every bound   *)
(* and every choice of faults.                                             *)
(***************************************************************************)
EXTENDS ImageImport, SequenceTheorems, TLAPS

-----------------------------------------------------------------------------
(* Types.                                                                  *)

\* What a url serves is a sequence of chunks.
LEMMA FileIsChunks == \A f \in Served : f \in Chunks
BY FilesAssumption DEF Chunks

\* A new disk has room for at least one GiB, and its content is a sequence.
LEMMA NewDiskType ==
  ASSUME NEW n \in Nat
  PROVE  DiskSize(n) \in Nat /\ NewDisk(DiskSize(n)).data \in Chunks
<1>1. WholeGiB(n) \in Int
  BY BoundsAssumption DEF WholeGiB
<1>2. DiskSize(n) \in Nat
  BY <1>1, BoundsAssumption DEF DiskSize
<1> QED
  BY <1>2 DEF NewDisk, Chunks

\* The values a reconcile's local variables start from and return to.
LEMMA IdleType == Idle \in Jobs
<1>1. NoObject \in Objects
  BY DEF NoObject, NewObject, Objects, Phases
<1>2. <<>> \in Chunks
  BY DEF Chunks
<1> QED
  BY <1>1, <1>2 DEF Idle, Jobs, Steps, Reasons, Results

LEMMA InitType == Init => TypeOK
<1> SUFFICES ASSUME Init PROVE TypeOK
  OBVIOUS
<1>1. OxideTypeOK
  BY DEF Init, OxideInit, OxideTypeOK, NoDisk, NoSnap, NoImage, DiskStates, SnapStates, Chunks
<1>2. obj \in Objects /\ cache \in Objects
  BY FilesAssumption DEF Init, NewObject, Objects, Phases
<1> QED
  BY <1>1, <1>2, IdleType, BoundsAssumption DEF Init, TypeOK, At, Idle

\* Returning keeps the types.
LEMMA ReturnType ==
  ASSUME NEW again \in BOOLEAN, timer \in BOOLEAN, Return(again)
  PROVE  job' \in Jobs /\ timer' \in BOOLEAN /\ queued' = queued /\ ~At("writeChunks")'
BY IdleType DEF Return, Idle, At

LEMMA ReconcileType ==
  ASSUME TypeOK, Reconcile PROVE TypeOK'
<1>1. job' \in Jobs /\ ~At("writeChunks")'
  <2>1. FirstStep(cache) \in Steps \ {"writeChunks"}
    BY DEF FirstStep, DeletionStep, Steps
  <2> QED
    BY <2>1, IdleType DEF Reconcile, TypeOK, Jobs, Idle, At, Objects, Reasons
<1> QED
  BY <1>1 DEF Reconcile, TypeOK, oxide, OxideTypeOK

\* A call leaves the count of faults a number.
LEMMA CallType ==
  ASSUME faults \in Nat, NEW o, Call(o) \/ Fault PROVE faults' \in Nat
BY DEF Call, Fault

\* The ways a step may leave its local variables: each is well typed, and none
\* of them is in the middle of a download.
Stopped(j) == j \in Jobs /\ j.pc # "writeChunks"

LEMMA GotoType ==
  ASSUME TypeOK, NEW pc \in Steps \ {"writeChunks"} PROVE Stopped(Goto(pc))
BY DEF TypeOK, Goto, Jobs, Stopped

LEMMA OutcomeType ==
  ASSUME TypeOK, NEW res \in Results PROVE Stopped(Outcome(res))
BY DEF TypeOK, Outcome, Jobs, Stopped, Steps

LEMMA CleanupType ==
  ASSUME TypeOK, NEW why \in Reasons, NEW res \in Results
  PROVE  Stopped(Cleanup(why)) /\ Stopped(WriteFails(res))
BY DEF TypeOK, Cleanup, WriteFails, Jobs, Stopped, Steps, Reasons

LEMMA FoundType ==
  ASSUME TypeOK, NEW cur \in [id : Nat, silo : BOOLEAN]
  PROVE  Stopped(Settled(cur)) /\ Stopped(Found(cur))
<1>1. Stopped(Settled(cur))
  BY DEF TypeOK, Settled, Jobs, Stopped, Steps, Results
<1>2. Stopped([job EXCEPT !.pc = "deleteSnap", !.cur = cur, !.why = "recorded"])
  BY DEF TypeOK, Jobs, Stopped, Steps, Reasons
<1> QED
  BY <1>1, <1>2 DEF Found

LEMMA AfterCleanupType ==
  ASSUME TypeOK, NEW done \in BOOLEAN PROVE Stopped(AfterCleanup(done))
<1>1. job.res \in Results /\ job.cur \in [id : Nat, silo : BOOLEAN]
  BY DEF TypeOK, Jobs
<1>2. Stopped(Outcome("Progressing")) /\ Stopped(Outcome("Error")) /\ Stopped(Outcome(job.res))
  BY <1>1, OutcomeType DEF Results
<1>3. Stopped(Settled(job.cur))
  BY <1>1, FoundType
<1>4. Stopped(Goto("deleteImage"))
  BY GotoType DEF Steps
<1>5. Stopped(Idle)
  BY IdleType DEF Stopped, Idle
<1> QED
  BY <1>2, <1>3, <1>4, <1>5 DEF AfterCleanup

\* What remains to be shown of a step that is not in the middle of a download.
LEMMA StepType ==
  ASSUME TypeOK, Stopped(job'), OxideTypeOK', obj' \in Objects, cache' = cache,
         queued' \in BOOLEAN, timer' \in BOOLEAN, source' = source /\ url' = url, faults' \in Nat, edits' = edits
  PROVE  TypeOK'
BY DEF TypeOK, Stopped, At

LEMMA FinalizerType ==
  ASSUME TypeOK, AddFinalizer \/ RemoveFinalizer \/ PatchStatus PROVE TypeOK'
<1>1. CASE AddFinalizer
  <2>1. PICK o \in Outcomes : AddFinalizer!2!(o)
    BY <1>1 DEF AddFinalizer
  <2> DEFINE new == [job.img EXCEPT !.fin = TRUE]
  <2>2. job.img \in Objects /\ new \in Objects
    BY DEF TypeOK, Jobs, Objects
  <2>3. obj' \in Objects
    BY <2>1, <2>2 DEF TypeOK
  <2>4. Stopped(job') /\ timer' \in BOOLEAN /\ queued' \in BOOLEAN
    <3>1. CASE Answered(o, ~Conflicts(job.img))
      BY <2>1, <2>2, <3>1 DEF TypeOK, Jobs, Stopped, Steps
    <3>2. CASE Return(TRUE)
      BY <3>2, IdleType DEF Return, Stopped, Idle, TypeOK
    <3> QED
      BY <2>1, <3>1, <3>2
  <2>5. OxideTypeOK' /\ cache' = cache /\ source' = source /\ url' = url /\ edits' = edits /\ faults' \in Nat
    BY <1>1, <2>1, CallType DEF AddFinalizer, TypeOK, oxide, OxideTypeOK
  <2> QED
    BY <2>3, <2>4, <2>5, StepType
<1>2. CASE RemoveFinalizer
  <2>1. PICK o \in Outcomes : RemoveFinalizer!2!(o)
    BY <1>2 DEF RemoveFinalizer
  <2>2. obj' \in Objects
    BY <2>1 DEF TypeOK, Objects, Phases
  <2>3. Stopped(job') /\ timer' \in BOOLEAN /\ queued' \in BOOLEAN
    BY <2>1, IdleType DEF Return, Stopped, Idle, TypeOK
  <2>4. OxideTypeOK' /\ cache' = cache /\ source' = source /\ url' = url /\ edits' = edits /\ faults' \in Nat
    BY <1>2, <2>1, CallType DEF RemoveFinalizer, TypeOK, oxide, OxideTypeOK
  <2> QED
    BY <2>2, <2>3, <2>4, StepType
<1>3. CASE PatchStatus
  <2>1. PICK o \in Outcomes : PatchStatus!2!(o)
    BY <1>3 DEF PatchStatus
  <2>2. Patched \in Objects
    <3>1. /\ NewStatus.id \in Nat /\ NewStatus.obs \in Nat
          /\ NewStatus.ready \in Results \union {"Unset"}
      BY DEF NewStatus, TypeOK, Jobs, Objects
    <3> QED
      BY <3>1 DEF Patched, Merged, TypeOK, Objects
  <2>3. obj' \in Objects
    BY <2>1, <2>2 DEF TypeOK
  <2>4. Stopped(job') /\ timer' \in BOOLEAN /\ queued' \in BOOLEAN
    BY <2>1, IdleType DEF Return, Stopped, Idle, TypeOK
  <2>5. OxideTypeOK' /\ cache' = cache /\ source' = source /\ url' = url /\ edits' = edits /\ faults' \in Nat
    BY <1>3, <2>1, CallType DEF PatchStatus, TypeOK, oxide, OxideTypeOK
  <2> QED
    BY <2>3, <2>4, <2>5, StepType
<1> QED
  BY <1>1, <1>2, <1>3

LEMMA ImageStepsType ==
  ASSUME TypeOK, ViewImage \/ ViewSnap \/ ViewDisk \/ CreateImage \/ Promote \/ DeleteImage
  PROVE  TypeOK'
<1>1. /\ obj' \in Objects /\ cache' = cache /\ queued' \in BOOLEAN /\ timer' \in BOOLEAN
      /\ source' = source /\ url' = url /\ edits' = edits
  BY DEF ViewImage, ViewSnap, ViewDisk, CreateImage, Promote, DeleteImage, k8s, TypeOK
<1>2. faults' \in Nat
  BY CallType DEF ViewImage, ViewSnap, ViewDisk, CreateImage, Promote, DeleteImage, TypeOK
<1>3. OxideTypeOK'
  <2>1. NewImage(snap.data) \in [id : Nat, data : Chunks, silo : BOOLEAN]
    BY DEF TypeOK, OxideTypeOK, NewImage
  <2>2. NoImage \in [id : Nat, data : Chunks, silo : BOOLEAN]
    BY DEF NoImage, Chunks
  <2>3. [image EXCEPT !.silo = job.img.promote] \in [id : Nat, data : Chunks, silo : BOOLEAN]
    BY DEF TypeOK, OxideTypeOK, Jobs, Objects
  <2>4. CASE ViewImage \/ ViewSnap \/ ViewDisk
    BY <2>4 DEF ViewImage, ViewSnap, ViewDisk, oxide, TypeOK, OxideTypeOK
  <2>5. CASE CreateImage
    BY <2>1, <2>5 DEF CreateImage, TypeOK, OxideTypeOK
  <2>6. CASE Promote
    BY <2>3, <2>6 DEF Promote, TypeOK, OxideTypeOK
  <2>7. CASE DeleteImage
    BY <2>2, <2>7 DEF DeleteImage, TypeOK, OxideTypeOK
  <2> QED
    BY <2>4, <2>5, <2>6, <2>7
<1>4. Stopped(job')
  <2>1. /\ Stopped(Outcome("Error")) /\ Stopped(Outcome("Progressing"))
        /\ Stopped(Outcome("Ready"))
    BY OutcomeType DEF Results
  <2>2. /\ Stopped(Goto("viewSnap")) /\ Stopped(Goto("viewDisk")) /\ Stopped(Goto("createImage"))
        /\ Stopped(Goto("createDisk")) /\ Stopped(Goto("startWrite"))
        /\ Stopped(Goto("removeFinalizer"))
    BY GotoType DEF Steps
  <2>3. Stopped(Cleanup("restart"))
    BY CleanupType DEF Reasons, Results
  <2>4. Stopped(Idle)
    BY IdleType DEF Stopped, Idle
  <2>5. Stopped(Found(InOxide(image))) /\ Stopped(Found(InOxide(NewImage(snap.data))))
    <3>1. /\ InOxide(image) \in [id : Nat, silo : BOOLEAN]
          /\ InOxide(NewImage(snap.data)) \in [id : Nat, silo : BOOLEAN]
      BY DEF InOxide, NewImage, TypeOK, OxideTypeOK
    <3> QED
      BY <3>1, FoundType
  <2>6. Stopped(AfterViewSnap) /\ Stopped(AfterViewDisk)
    BY <2>1, <2>2, <2>3 DEF AfterViewSnap, AfterViewDisk
  <2>7. CASE ViewImage
    BY <2>1, <2>2, <2>5, <2>7 DEF ViewImage
  <2>8. CASE ViewSnap \/ ViewDisk
    BY <2>1, <2>6, <2>8 DEF ViewSnap, ViewDisk
  <2>9. CASE CreateImage \/ Promote
    BY <2>1, <2>5, <2>9 DEF CreateImage, Promote
  <2>10. CASE DeleteImage
    BY <2>2, <2>4, <2>10 DEF DeleteImage
  <2> QED
    BY <2>7, <2>8, <2>9, <2>10
<1> QED
  BY <1>1, <1>2, <1>3, <1>4, StepType

\* Every disk a call may leave behind is a disk.
Disks == [state : DiskStates, data : Chunks, pending : BOOLEAN]

LEMMA DiskValuesType ==
  ASSUME OxideTypeOK
  PROVE  /\ disk \in Disks /\ NoDisk \in Disks
         /\ StartedDisk \in Disks /\ StoppedDisk \in Disks
         /\ SnapshottingDisk \in Disks /\ PlainFinalDisk \in Disks
<1>1. disk \in Disks
  BY DEF OxideTypeOK, Disks
<1>2. NoDisk \in Disks
  <2>1. <<>> \in Chunks
    BY DEF Chunks
  <2> QED
    BY <2>1 DEF NoDisk, Disks, DiskStates
<1> QED
  BY <1>1, <1>2 DEF StartedDisk, StoppedDisk, SnapshottingDisk, PlainFinalDisk, Disks, DiskStates

\* Steps that stop on an error, or touch the import disk outside a download.
LEMMA DiskStepsType ==
  ASSUME TypeOK,
         \/ DownloadFails \/ CreateDisk \/ WritesDone \/ StopWrite \/ FinalizeIntoSnapshot
         \/ DeleteSnap \/ Stop \/ PlainFinalize \/ DeleteDisk
  PROVE  TypeOK'
<1> USE DEF DownloadFails, CreateDisk, WritesDone, StopWrite, FinalizeIntoSnapshot,
            DeleteSnap, Stop, PlainFinalize, DeleteDisk
<1>1. /\ obj' \in Objects /\ cache' = cache /\ queued' \in BOOLEAN /\ timer' \in BOOLEAN
      /\ source' = source /\ url' = url /\ edits' = edits
  BY DEF k8s, TypeOK
<1>2. faults' \in Nat
  BY CallType DEF TypeOK
<1>3. OxideTypeOK'
  <2>1. /\ disk \in Disks /\ StoppedDisk \in Disks /\ SnapshottingDisk \in Disks
        /\ PlainFinalDisk \in Disks /\ NoDisk \in Disks
    BY DiskValuesType DEF TypeOK
  <2>2. NewDisk(DiskSize(Len(url))) \in Disks
    <3>1. Len(url) \in Nat
      BY FileIsChunks DEF TypeOK, Chunks
    <3> QED
      BY <3>1, NewDiskType DEF NewDisk, DiskStates, Disks
  <2>3. NoSnap \in [state : SnapStates, data : Chunks]
    BY DEF NoSnap, SnapStates, Chunks
  <2>4. disk' \in Disks
    BY <2>1, <2>2 DEF oxide
  <2>5. snap' \in [state : SnapStates, data : Chunks]
    BY <2>3 DEF TypeOK, OxideTypeOK, oxide
  <2>6. image' = image /\ lastId' = lastId
    BY DEF oxide
  <2> QED
    BY <2>4, <2>5, <2>6 DEF TypeOK, OxideTypeOK, Disks
<1>4. Stopped(job')
  <2>1. /\ Stopped(Outcome("Error")) /\ Stopped(Outcome("Progressing"))
        /\ Stopped(Outcome("Failed"))
    BY OutcomeType DEF Results
  <2>2. /\ Stopped(Goto("stopWrite")) /\ Stopped(Goto("finalize")) /\ Stopped(Goto("stop"))
        /\ Stopped(Goto("plainFinalize")) /\ Stopped(Goto("deleteDisk"))
    BY GotoType DEF Steps
  <2>3. Stopped(WriteFails("Error")) /\ Stopped(WriteFails("Failed"))
    BY CleanupType DEF Reasons, Results
  <2>4. Stopped(AfterCleanup(TRUE)) /\ Stopped(AfterCleanup(FALSE))
    BY AfterCleanupType
  <2>5. \A o \in Outcomes :
          Stopped(AfterCleanup(o = "ok" /\ (CanDeleteDisk \/ disk.state = "none")))
    BY AfterCleanupType
  <2>6. CASE DownloadFails \/ CreateDisk \/ WritesDone
    BY <2>1, <2>2, <2>3, <2>6
  <2>7. CASE StopWrite \/ FinalizeIntoSnapshot
    BY <2>1, <2>2, <2>3, <2>7
  <2>8. CASE DeleteSnap \/ Stop \/ PlainFinalize
    BY <2>2, <2>4, <2>8
  <2>9. CASE DeleteDisk
    BY <2>5, <2>9
  <2> QED
    BY <2>6, <2>7, <2>8, <2>9
<1> QED
  BY <1>1, <1>2, <1>3, <1>4, StepType

LEMMA StartWriteType ==
  ASSUME TypeOK, StartWrite PROVE TypeOK'
<1> USE DEF k8s
<1>1. CASE ~Fits(url)
  <2>1. Stopped(job')
    BY <1>1, OutcomeType DEF StartWrite, Results
  <2> QED
    BY <1>1, <2>1, StepType DEF StartWrite, TypeOK, OxideTypeOK
<1>2. CASE Fits(url)
  <2>1. PICK o \in Outcomes :
          /\ Call(o)
          /\ disk' = IF Applied(o, CanStart) THEN StartedDisk ELSE disk
          /\ job' = IF Answered(o, CanStart)
                    THEN [job EXCEPT !.pc = "writeChunks", !.body = url, !.off = 0]
                    ELSE Outcome("Error")
    BY <1>2 DEF StartWrite
  <2>2. /\ faults' \in Nat /\ obj' = obj /\ cache' = cache /\ queued' = queued /\ timer' = timer
        /\ source' = source /\ url' = url /\ edits' = edits
    BY <2>1, CallType DEF StartWrite, TypeOK
  <2>3. OxideTypeOK' /\ disk'.data = disk.data
    <3>1. disk' \in Disks
      BY <2>1, DiskValuesType DEF TypeOK
    <3>2. disk'.data = disk.data
      BY <2>1 DEF StartedDisk, TypeOK, OxideTypeOK
    <3> QED
      BY <3>1, <3>2 DEF StartWrite, TypeOK, OxideTypeOK, Disks
  <2>4. CASE Answered(o, CanStart)
    <3>1. url \in Chunks /\ Len(url) \in Nat
      BY FileIsChunks DEF TypeOK, Chunks
    <3>2. job' = [job EXCEPT !.pc = "writeChunks", !.body = url, !.off = 0]
      BY <2>1, <2>4
    <3>3. job' \in Jobs /\ job'.off = 0 /\ job'.body = url
      BY <3>1, <3>2 DEF TypeOK, Jobs, Steps
    <3>4. job'.off <= Len(job'.body) /\ Len(job'.body) <= Len(disk'.data)
      BY <1>2, <2>3, <3>1, <3>3 DEF Fits
    <3> QED
      BY <2>2, <2>3, <3>3, <3>4 DEF TypeOK
  <2>5. CASE ~Answered(o, CanStart)
    <3>1. Stopped(job')
      BY <2>1, <2>5, OutcomeType DEF Results
    <3> QED
      BY <2>2, <2>3, <3>1, StepType DEF TypeOK
  <2> QED
    BY <2>4, <2>5
<1> QED
  BY <1>1, <1>2

\* Writing a chunk leaves the disk as long as it was.
LEMMA WrittenDiskType ==
  ASSUME OxideTypeOK, NEW i \in 1 .. Len(disk.data), NEW chunk \in Nat
  PROVE  WrittenDisk(i, chunk) \in Disks /\ Len(WrittenDisk(i, chunk).data) = Len(disk.data)
<1>1. disk.data \in Seq(Nat) /\ disk \in Disks
  BY DEF OxideTypeOK, Disks, Chunks
<1>2. /\ [disk.data EXCEPT ![i] = chunk] \in Seq(Nat)
      /\ Len([disk.data EXCEPT ![i] = chunk]) = Len(disk.data)
  BY <1>1, ExceptSeq
<1>3. WrittenDisk(i, chunk) = [disk EXCEPT !.data = [disk.data EXCEPT ![i] = chunk]]
  BY <1>1 DEF WrittenDisk, Disks
<1>4. WrittenDisk(i, chunk).data = [disk.data EXCEPT ![i] = chunk]
  BY <1>1, <1>3 DEF Disks
<1>5. WrittenDisk(i, chunk) \in Disks
  BY <1>1, <1>2, <1>3 DEF Disks, Chunks
<1> QED
  BY <1>2, <1>4, <1>5

LEMMA WriteChunkType ==
  ASSUME TypeOK, WriteChunk PROVE TypeOK'
<1> DEFINE chunk == job.body[job.off + 1]
           next  == [job EXCEPT !.off = @ + 1]
<1>1. /\ job.off \in Nat /\ job.body \in Seq(Nat) /\ job.off < Len(job.body)
      /\ Len(job.body) <= Len(disk.data) /\ job \in Jobs
  BY DEF WriteChunk, TypeOK, Jobs, Chunks
<1>2. chunk \in Nat /\ job.off + 1 \in 1 .. Len(disk.data)
  <2>1. Len(job.body) \in Nat /\ Len(disk.data) \in Nat
    BY <1>1 DEF TypeOK, OxideTypeOK, Chunks
  <2> QED
    BY <1>1, <2>1
<1>3. next \in Jobs /\ next.off <= Len(next.body) /\ next.body = job.body
  <2>1. Len(job.body) \in Nat
    BY <1>1
  <2>2. next.off = job.off + 1 /\ next.body = job.body /\ next \in Jobs
    BY <1>1, <1>2 DEF Jobs
  <2> QED
    BY <1>1, <2>1, <2>2
<1>4. /\ obj' = obj /\ cache' = cache /\ queued' = queued /\ timer' = timer
      /\ source' = source /\ url' = url /\ edits' = edits /\ snap' = snap /\ image' = image /\ lastId' = lastId
  BY DEF WriteChunk, k8s
<1>5. CASE Skipped(chunk)
  <2>1. job' = next /\ disk' = disk /\ faults' = faults
    BY <1>5 DEF WriteChunk
  <2> QED
    BY <1>1, <1>3, <1>4, <2>1 DEF TypeOK, OxideTypeOK
<1>6. CASE ~Skipped(chunk)
  <2>1. PICK o \in Outcomes :
          /\ Call(o)
          /\ disk' = IF Applied(o, CanWrite) THEN WrittenDisk(job.off + 1, chunk) ELSE disk
          /\ job' = IF Answered(o, CanWrite) THEN next ELSE WriteFails("Error")
    BY <1>6 DEF WriteChunk
  <2>2. disk' \in Disks /\ Len(disk'.data) = Len(disk.data)
    BY <1>2, <2>1, WrittenDiskType, DiskValuesType DEF TypeOK
  <2>3. OxideTypeOK' /\ faults' \in Nat
    BY <1>4, <2>1, <2>2, CallType DEF TypeOK, OxideTypeOK, Disks
  <2>4. CASE Answered(o, CanWrite)
    BY <1>1, <1>3, <1>4, <2>1, <2>2, <2>3, <2>4 DEF TypeOK
  <2>5. CASE ~Answered(o, CanWrite)
    <3>1. Stopped(job')
      BY <2>1, <2>5, CleanupType DEF Results, Reasons
    <3> QED
      BY <1>4, <2>3, <3>1, StepType DEF TypeOK
  <2> QED
    BY <2>4, <2>5
<1> QED
  BY <1>5, <1>6

LEMMA DownloadBreaksType ==
  ASSUME TypeOK, DownloadBreaks PROVE TypeOK'
<1>1. /\ obj' = obj /\ cache' = cache /\ queued' = queued /\ timer' = timer
      /\ source' = source /\ url' = url /\ edits' = edits /\ oxide' = oxide /\ faults' \in Nat
  BY CallType DEF DownloadBreaks, k8s, TypeOK
<1>2. OxideTypeOK' /\ disk' = disk
  BY <1>1 DEF TypeOK, OxideTypeOK, oxide
<1>3. CASE job' = WriteFails("Error")
  <2>1. Stopped(job')
    BY <1>3, CleanupType DEF Results, Reasons
  <2> QED
    BY <1>1, <1>2, <2>1, StepType DEF TypeOK
<1>4. CASE job' = [job EXCEPT !.body = SubSeq(@, 1, job.off)]
  <2>1. /\ job \in Jobs /\ job.body \in Seq(Nat) /\ job.off \in Nat
        /\ job.off < Len(job.body) /\ Len(job.body) <= Len(disk.data)
    BY DEF DownloadBreaks, TypeOK, Jobs, Chunks
  <2>2. SubSeq(job.body, 1, job.off) \in Seq(Nat) /\ Len(SubSeq(job.body, 1, job.off)) = job.off
    BY <2>1
  <2>3. job' \in Jobs /\ job'.off = job.off /\ job'.body = SubSeq(job.body, 1, job.off)
    BY <1>4, <2>1, <2>2 DEF Jobs, Chunks
  <2>4. job'.off <= Len(job'.body) /\ Len(job'.body) <= Len(disk'.data)
    <3>1. Len(job.body) \in Nat /\ Len(disk.data) \in Nat
      BY <2>1 DEF TypeOK, OxideTypeOK, Chunks
    <3> QED
      BY <1>2, <2>1, <2>2, <2>3, <3>1
  <2> QED
    BY <1>1, <1>2, <2>3, <2>4 DEF TypeOK
<1> QED
  BY <1>3, <1>4 DEF DownloadBreaks

\* Whatever a user changes in an object leaves an object.
LEMMA EditedType ==
  ASSUME obj \in Objects, NEW g \in Nat
  PROVE  /\ \A s \in Shas : [obj EXCEPT !.sha = s, !.gen = g] \in Objects
         /\ \A b \in BOOLEAN : /\ [obj EXCEPT !.promote = b, !.gen = g] \in Objects
                               /\ [obj EXCEPT !.prot = b, !.gen = g] \in Objects
                               /\ [obj EXCEPT !.disabled = b] \in Objects
         /\ \A ph \in Phases : /\ [obj EXCEPT !.phase = ph, !.gen = g] \in Objects
                               /\ [obj EXCEPT !.phase = ph] \in Objects
BY FilesAssumption DEF Objects

\* Everything around the reconciler.
LEMMA SurroundingsType ==
  ASSUME TypeOK, InformerSync \/ TimerFires \/ Oxide \/ Crash \/ Users PROVE TypeOK'
<1>1. CASE InformerSync \/ TimerFires
  BY <1>1 DEF InformerSync, TimerFires, TypeOK, oxide, OxideTypeOK, At
<1>2. CASE Oxide
  <2>1. disk' \in Disks /\ disk'.data = disk.data
    BY <1>2 DEF Oxide, OxideStep, DiskCreated, SnapshotMade, SnapshotReady, FinalizeDone,
                TypeOK, OxideTypeOK, Disks, DiskStates
  <2>2. snap' \in [state : SnapStates, data : Chunks]
    BY <1>2 DEF Oxide, OxideStep, DiskCreated, SnapshotMade, SnapshotReady, FinalizeDone,
                TypeOK, OxideTypeOK, SnapStates
  <2>3. UNCHANGED <<image, lastId, k8s, job, source, url, faults, edits>>
    BY <1>2 DEF Oxide, OxideStep, DiskCreated, SnapshotMade, SnapshotReady, FinalizeDone
  <2> QED
    BY <2>1, <2>2, <2>3 DEF TypeOK, OxideTypeOK, Disks, At, k8s
<1>3. CASE Crash
  BY <1>3, IdleType, CallType DEF Crash, TypeOK, oxide, OxideTypeOK, At, Idle
<1>4. CASE UserEdits \/ UserDeletes
  <2>1. edits' \in Nat
    <3>1. Edit
      BY <1>4 DEF UserEdits, UserDeletes
    <3> QED
      BY <3>1 DEF Edit, TypeOK
  <2>2. obj' \in Objects
    <3>1. obj \in Objects /\ obj.gen + 1 \in Nat
      BY DEF TypeOK, Objects
    <3>2. CASE UserEdits
      <4>1. PICK new \in {[obj EXCEPT !.sha = s, !.gen = @ + 1] : s \in Shas \ {obj.sha}}
                         \union {[obj EXCEPT !.promote = ~@, !.gen = @ + 1],
                                 [obj EXCEPT !.prot = ~@, !.gen = @ + 1],
                                 [obj EXCEPT !.disabled = ~@]} : obj' = new
        BY <3>2 DEF UserEdits
      <4>2. ASSUME NEW s \in Shas, new = [obj EXCEPT !.sha = s, !.gen = @ + 1]
            PROVE  new \in Objects
        BY <3>1, <4>2, EditedType
      <4>3. /\ [obj EXCEPT !.promote = ~@, !.gen = @ + 1] \in Objects
            /\ [obj EXCEPT !.prot = ~@, !.gen = @ + 1] \in Objects
            /\ [obj EXCEPT !.disabled = ~@] \in Objects
        <5>1. (~obj.promote) \in BOOLEAN /\ (~obj.prot) \in BOOLEAN /\ (~obj.disabled) \in BOOLEAN
          OBVIOUS
        <5> QED
          BY <3>1, <5>1, EditedType
      <4> QED
        BY <4>1, <4>2, <4>3
    <3>3. CASE UserDeletes
      BY <3>1, <3>3, EditedType DEF UserDeletes, Phases
    <3> QED
      BY <1>4, <3>2, <3>3
  <2>3. UNCHANGED <<oxide, cache, queued, timer, job, source, url, faults>>
    BY <1>4 DEF UserEdits, UserDeletes
  <2> QED
    BY <2>1, <2>2, <2>3 DEF TypeOK, oxide, OxideTypeOK, At
<1>5. CASE Publish \/ ImageDeleted \/ SnapshotTaken
  <2>1. edits' \in Nat /\ source' = source /\ url' \in Served
    BY <1>5 DEF Publish, ImageDeleted, SnapshotTaken, Edit, TypeOK
  <2>2. UNCHANGED <<k8s, job, faults>> /\ disk' = disk /\ lastId' = lastId
    BY <1>5 DEF Publish, ImageDeleted, SnapshotTaken, oxide, ImageDeletedOutside
  <2>3. snap' \in [state : SnapStates, data : Chunks]
    <3>1. CASE SnapshotTaken
      BY <3>1, FileIsChunks DEF SnapshotTaken, SnapStates
    <3>2. CASE Publish \/ ImageDeleted
      BY <3>2 DEF Publish, ImageDeleted, oxide, ImageDeletedOutside, TypeOK, OxideTypeOK
    <3> QED
      BY <1>5, <3>1, <3>2
  <2>4. image' \in [id : Nat, data : Chunks, silo : BOOLEAN]
    <3>1. NoImage \in [id : Nat, data : Chunks, silo : BOOLEAN]
      <4>1. <<>> \in Chunks
        BY DEF Chunks
      <4> QED
        BY <4>1 DEF NoImage
    <3>2. image' = image \/ image' = NoImage
      BY <1>5 DEF Publish, ImageDeleted, SnapshotTaken, oxide, ImageDeletedOutside
    <3> QED
      BY <3>1, <3>2 DEF TypeOK, OxideTypeOK
  <2> QED
    BY <2>1, <2>2, <2>3, <2>4 DEF TypeOK, OxideTypeOK, At, k8s
<1> QED
  BY <1>1, <1>2, <1>3, <1>4, <1>5 DEF Users

LEMMA NextType == TypeOK /\ [Next]_vars => TypeOK'
<1> SUFFICES ASSUME TypeOK, [Next]_vars PROVE TypeOK'
  OBVIOUS
<1>1. CASE Step
  BY <1>1, ReconcileType, FinalizerType, ImageStepsType, DiskStepsType, StartWriteType,
     WriteChunkType, DownloadBreaksType DEF Step
<1>2. CASE InformerSync \/ TimerFires \/ Oxide \/ Crash \/ Users
  BY <1>2, SurroundingsType
<1>3. CASE UNCHANGED vars
  BY <1>3 DEF vars, TypeOK, OxideTypeOK, At
<1> QED
  BY <1>1, <1>2, <1>3 DEF Next

\* Every variable keeps its type, and a file being written always fits its disk
\* and is written in order (image_controller.go:216, 253).
THEOREM TypeCorrect == Spec => []TypeOK
<1> QED
  BY InitType, NextType, PTL DEF Spec

-----------------------------------------------------------------------------
(* What Oxide holds for the object is held by its finalizer.               *)

\* The object never comes back to life, and the cache lags behind it.
CacheLags == cache.phase # "live" => obj.phase # "live"

\* A cached live object with the finalizer still has it: only a deletion that
\* was read from the cache takes it off.
CachedFinalizer == cache.phase = "live" /\ cache.fin => obj.fin

Deleting ==
  \/ At("deleteImage") \/ At("removeFinalizer")
  \/ job.pc \in {"deleteSnap", "stop", "plainFinalize", "deleteDisk"} /\ job.why = "delete"

DeletionWasRead == Deleting => cache.phase # "live"

\* The steps on the way to a DiskCreate or an ImageCreate have the finalizer.
Creating == job.pc \in {"viewImage", "viewSnap", "viewDisk", "createDisk", "createImage"}

CreatesUnderFinalizer == Creating => obj.fin

\* Only a url has an import disk.
DisksAreForUrls ==
  /\ At("viewDisk") \/ At("createDisk") => source = "url"
  /\ source = "snapshot" => disk.state = "none"

\* The deletion has removed what there was before it goes on.
DiskGoneFirst == At("deleteImage") => disk.state = "none"
AllGoneFirst ==
  At("removeFinalizer") /\ ~job.img.prot => disk.state = "none" /\ image.id = 0

\* A cleanup knows what it is for.
ReasonGiven ==
  job.pc \in {"deleteSnap", "stop", "plainFinalize", "deleteDisk"} => job.why # "none"

HeldInv ==
  /\ CacheLags /\ CachedFinalizer /\ DeletionWasRead /\ CreatesUnderFinalizer
  /\ DisksAreForUrls /\ DiskGoneFirst /\ AllGoneFirst /\ ReasonGiven
  /\ ResourcesAreHeld

LEMMA HeldInit == Init => HeldInv
BY DEF Init, OxideInit, NoDisk, NoImage, NewObject, Idle, HeldInv, CacheLags, CachedFinalizer,
       DeletionWasRead, Deleting, CreatesUnderFinalizer, Creating, DisksAreForUrls,
       DiskGoneFirst, AllGoneFirst, ReasonGiven, ResourcesAreHeld, At

\* The parts of the invariant an image or a disk takes part in, together.
LEMMA HeldNext == TypeOK /\ HeldInv /\ [Next]_vars => HeldInv'
<1> SUFFICES ASSUME TypeOK, HeldInv, [Next]_vars PROVE HeldInv'
  OBVIOUS
<1> USE DEF HeldInv, CacheLags, CachedFinalizer, DeletionWasRead, Deleting, CreatesUnderFinalizer,
            Creating, DisksAreForUrls, DiskGoneFirst, AllGoneFirst, ReasonGiven, ResourcesAreHeld,
            At, k8s, oxide
<1>1. CASE Reconcile
  <2>1. /\ UNCHANGED <<oxide, obj, cache, source>>
        /\ job' = Idle \/ job' = [Idle EXCEPT !.pc = FirstStep(cache), !.img = cache, !.id = cache.id,
                        !.why = IF cache.phase = "deleting" THEN "delete" ELSE "none"]
    BY <1>1 DEF Reconcile
  <2>2. CASE job' = Idle
    BY <2>1, <2>2 DEF Idle
  <2>3. CASE job' # Idle
    <3>1. /\ job'.pc = FirstStep(cache) /\ job'.img = cache
          /\ job'.why = IF cache.phase = "deleting" THEN "delete" ELSE "none"
      BY <2>1, <2>3 DEF Idle
    <3>2. cache.phase \in Phases
      BY DEF TypeOK, Objects
    <3> DEFINE p == FirstStep(cache)
    <3>3. /\ p \in {"idle", "removeFinalizer", "deleteSnap", "deleteImage", "viewImage", "addFinalizer"}
          /\ p = "removeFinalizer" => cache.phase = "deleting" /\ cache.prot
          /\ p = "deleteImage" => cache.phase = "deleting" /\ source = "snapshot"
          /\ p = "deleteSnap" => cache.phase = "deleting"
          /\ p = "viewImage" => cache.phase = "live" /\ cache.fin
      BY <3>2, SourcesAssumption DEF FirstStep, DeletionStep, LeftAlone, Phases, TypeOK
    <3> HIDE DEF p
    <3>4. job'.pc = p
      BY <3>1 DEF p
    <3>5. AllGoneFirst' /\ DiskGoneFirst'
      BY <2>1, <3>1, <3>3, <3>4
    <3>6. DeletionWasRead' /\ ReasonGiven'
      BY <2>1, <3>1, <3>3, <3>4
    <3>7. CreatesUnderFinalizer' /\ DisksAreForUrls'
      BY <2>1, <3>1, <3>3, <3>4
    <3> QED
      BY <2>1, <3>5, <3>6, <3>7
  <2> QED
    BY <2>2, <2>3
<1>2. CASE AddFinalizer
  <2>1. PICK o \in Outcomes : AddFinalizer!2!(o)
    BY <1>2 DEF AddFinalizer
  <2> DEFINE new == [job.img EXCEPT !.fin = TRUE]
  <2>2. job.img \in Objects /\ job.pc = "addFinalizer" /\ UNCHANGED <<oxide, cache, source>>
    BY <1>2 DEF AddFinalizer, TypeOK, Jobs
  <2>3. new.fin = TRUE /\ new.phase = job.img.phase /\ new.prot = job.img.prot
    BY <2>2 DEF Objects
  <2>4. \/ obj' = obj /\ job'.pc = "idle"
        \/ job.img = obj /\ obj' = new /\ (job'.pc = "idle" \/ job'.pc = "viewImage")
    <3>1. CASE Applied(o, ~Conflicts(job.img))
      <4>1. job.img = obj /\ obj' = new
        BY <2>1, <3>1 DEF Applied, Conflicts
      <4>2. job'.pc = "idle" \/ job'.pc = "viewImage"
        <5>1. job' = Idle \/ \E n : job' = [job EXCEPT !.pc = "viewImage", !.img = n]
          BY <2>1 DEF Return
        <5>2. job \in Jobs /\ Idle.pc = "idle"
          BY DEF TypeOK, Idle
        <5>3. \A n : [job EXCEPT !.pc = "viewImage", !.img = n].pc = "viewImage"
          BY <5>2 DEF Jobs
        <5> QED
          BY <5>1, <5>2, <5>3
      <4> QED
        BY <4>1, <4>2
    <3>2. CASE ~Applied(o, ~Conflicts(job.img))
      <4>1. obj' = obj /\ ~Answered(o, ~Conflicts(job.img))
        BY <2>1, <3>2 DEF Applied, Answered
      <4> QED
        BY <2>1, <4>1 DEF Return, Idle
    <3> QED
      BY <3>1, <3>2
  <2> QED
    BY <2>2, <2>3, <2>4
<1>3. CASE RemoveFinalizer
  BY <1>3 DEF RemoveFinalizer, Return, Idle, TypeOK, Objects, Conflicts, Applied, Answered, Jobs
<1>4. CASE PatchStatus
  BY <1>4 DEF PatchStatus, Return, Idle, TypeOK, Objects, Applied, Patched
<1>5. CASE ViewImage
  BY <1>5 DEF ViewImage, Outcome, Goto, Found, Settled, TypeOK, Jobs
<1>6. CASE ViewSnap
  BY <1>6 DEF ViewSnap, AfterViewSnap, Outcome, Goto, TypeOK, Jobs
<1>7. CASE CreateImage
  BY <1>7 DEF CreateImage, NewImage, Found, Settled, Outcome, TypeOK, Jobs, Applied
<1>8. CASE Promote
  BY <1>8 DEF Promote, Outcome, TypeOK, Jobs, OxideTypeOK
<1>9. CASE ViewDisk
  BY <1>9 DEF ViewDisk, AfterViewDisk, Cleanup, Outcome, Goto, TypeOK, Jobs
<1>10. CASE DownloadFails
  BY <1>10 DEF DownloadFails, Outcome, TypeOK, Jobs
<1>11. CASE CreateDisk
  BY <1>11, SourcesAssumption DEF CreateDisk, NewDisk, Outcome, TypeOK, Jobs, Applied
<1>12. CASE StartWrite
  BY <1>12 DEF StartWrite, StartedDisk, Outcome, TypeOK, Jobs, Applied, CanStart, OxideTypeOK
<1>13. CASE WriteChunk
  BY <1>13 DEF WriteChunk, WrittenDisk, WriteFails, Cleanup, TypeOK, Jobs, OxideTypeOK
<1>14. CASE DownloadBreaks
  BY <1>14 DEF DownloadBreaks, WriteFails, Cleanup, TypeOK, Jobs
<1>15. CASE WritesDone
  BY <1>15 DEF WritesDone, WriteFails, Cleanup, Goto, TypeOK, Jobs
<1>16. CASE StopWrite
  BY <1>16 DEF StopWrite, StoppedDisk, WriteFails, Cleanup, Goto, TypeOK, Jobs, Applied, CanStop,
               OxideTypeOK
<1>17. CASE FinalizeIntoSnapshot
  BY <1>17 DEF FinalizeIntoSnapshot, SnapshottingDisk, Outcome, TypeOK, Jobs, Applied,
               CanFinalize, OxideTypeOK
<1>18. CASE DeleteSnap
  BY <1>18 DEF DeleteSnap, AfterCleanup, Settled, Outcome, Goto, Idle, TypeOK, Jobs, Reasons
<1>19. CASE Stop
  BY <1>19 DEF Stop, StoppedDisk, Goto, TypeOK, Jobs, Applied, CanStop, OxideTypeOK
<1>20. CASE PlainFinalize
  BY <1>20 DEF PlainFinalize, PlainFinalDisk, Goto, TypeOK, Jobs, Applied, CanFinalize, OxideTypeOK
<1>21. CASE DeleteDisk
  BY <1>21 DEF DeleteDisk, AfterCleanup, Settled, Outcome, Goto, Idle, TypeOK, Jobs, Reasons,
               Applied, CanDeleteDisk, NoDisk
<1>22. CASE DeleteImage
  BY <1>22 DEF DeleteImage, Goto, Idle, NoImage, TypeOK, Jobs, Applied
<1>23. CASE InformerSync \/ TimerFires
  BY <1>23 DEF InformerSync, TimerFires
<1>24. CASE Oxide
  BY <1>24 DEF Oxide, OxideStep, DiskCreated, SnapshotMade, SnapshotReady, FinalizeDone,
               TypeOK, OxideTypeOK
<1>25. CASE Crash
  BY <1>25 DEF Crash, Idle
<1>26. CASE UserEdits
  <2>1. UNCHANGED <<oxide, cache, source, job>> /\ obj \in Objects /\ obj.phase # "absent"
    BY <1>26 DEF UserEdits, TypeOK
  <2>2. obj'.phase = obj.phase /\ obj'.fin = obj.fin
    <3>1. PICK new \in {[obj EXCEPT !.sha = s, !.gen = @ + 1] : s \in Shas \ {obj.sha}}
                       \union {[obj EXCEPT !.promote = ~@, !.gen = @ + 1],
                               [obj EXCEPT !.prot = ~@, !.gen = @ + 1],
                               [obj EXCEPT !.disabled = ~@]} : obj' = new
      BY <1>26 DEF UserEdits
    <3>2. CASE \E s \in Shas \ {obj.sha} : new = [obj EXCEPT !.sha = s, !.gen = @ + 1]
      BY <2>1, <3>1, <3>2 DEF Objects
    <3>3. CASE \/ new = [obj EXCEPT !.promote = ~@, !.gen = @ + 1]
               \/ new = [obj EXCEPT !.prot = ~@, !.gen = @ + 1]
      BY <2>1, <3>1, <3>3 DEF Objects
    <3>4. CASE new = [obj EXCEPT !.disabled = ~@]
      BY <2>1, <3>1, <3>4 DEF Objects
    <3> QED
      BY <3>1, <3>2, <3>3, <3>4
  <2> QED
    BY <2>1, <2>2
<1>27. CASE UserDeletes
  BY <1>27 DEF UserDeletes, TypeOK, Objects
<1>28. CASE Publish \/ ImageDeleted \/ SnapshotTaken
  BY <1>28 DEF Publish, ImageDeleted, SnapshotTaken, ImageDeletedOutside, NoImage
<1>29. CASE UNCHANGED vars
  BY <1>29 DEF vars
<1> QED
  BY <1>1, <1>2, <1>3, <1>4, <1>5, <1>6, <1>7, <1>8, <1>9, <1>10, <1>11, <1>12, <1>13, <1>14,
     <1>15, <1>16, <1>17, <1>18, <1>19, <1>20, <1>21, <1>22, <1>23, <1>24, <1>25, <1>26, <1>27,
     <1>28, <1>29 DEF Next, Step, Users

\* Whatever calls fail, whenever the operator crashes and however its cache
\* lags, an image or an import disk in Oxide has an object with the finalizer,
\* unless the object was deleted under deletionProtection
\* (image_controller.go:77, 107, 349).
THEOREM ResourcesHeld == Spec => []ResourcesAreHeld
<1>1. HeldInv => ResourcesAreHeld
  BY DEF HeldInv
<1> QED
  BY <1>1, TypeCorrect, HeldInit, HeldNext, PTL DEF Spec

-----------------------------------------------------------------------------
(* What is finalized is what was verified.                                 *)

Nonzero(file, i) == i \in 1 .. Len(file) /\ file[i] # 0

\* Every file the url serves has its zero chunks in the same places.
SameZeros == \A f, g \in Served : \A i \in Nat : Nonzero(f, i) => Nonzero(g, i)

\* An import disk holds nothing where the files have zeros, even when it was
\* written before and is written again.
DiskInv == \A i \in 1 .. Len(disk.data) : disk.data[i] # 0 => \A f \in Served : Nonzero(f, i)

Writing == At("writeChunks") \/ At("stopWrite") \/ At("finalize")
Written == At("stopWrite") \/ At("finalize")

\* What has been read of the file is on the disk.
BodyInv ==
  Writing => /\ job.body \in Served
             /\ job.off <= Len(job.body) /\ Len(job.body) <= Len(disk.data)
             /\ \A i \in 1 .. job.off : disk.data[i] = job.body[i]

WrittenInv == Written => job.off = Len(job.body) /\ Verified

FileInv == DiskInv /\ BodyInv /\ WrittenInv

LEMMA FileInit == Init => FileInv
BY DEF Init, OxideInit, NoDisk, Idle, FileInv, DiskInv, BodyInv, WrittenInv, Writing, Written, At

\* A step that leaves the disk's content alone, or deletes the disk, and is not
\* in the middle of a download afterwards.
LEMMA FileQuiet ==
  ASSUME TypeOK, FileInv, disk'.data = disk.data \/ disk' = NoDisk, ~Writing' PROVE FileInv'
BY DEF FileInv, DiskInv, BodyInv, WrittenInv, Writing, Written, NoDisk, At

\* Steps of the worker that are neither part of a download nor make a disk.
LEMMA FileQuietSteps ==
  ASSUME TypeOK, FileInv,
         \/ Reconcile \/ AddFinalizer \/ RemoveFinalizer \/ PatchStatus
         \/ ViewImage \/ ViewSnap \/ CreateImage \/ Promote \/ ViewDisk \/ DownloadFails
         \/ FinalizeIntoSnapshot
         \/ DeleteSnap \/ Stop \/ PlainFinalize \/ DeleteDisk \/ DeleteImage
  PROVE  FileInv'
<1>1. disk'.data = disk.data \/ disk' = NoDisk
  BY DEF Reconcile, AddFinalizer, RemoveFinalizer, PatchStatus, ViewImage, ViewSnap, CreateImage,
         Promote, ViewDisk, DownloadFails, FinalizeIntoSnapshot, DeleteSnap, Stop, PlainFinalize,
         DeleteDisk, DeleteImage, oxide, SnapshottingDisk, StoppedDisk, PlainFinalDisk,
         TypeOK, OxideTypeOK
<1>2. ~Writing'
  <2> USE DEF Writing, At, TypeOK, Jobs
  <2>1. CASE Reconcile
    <3>1. FirstStep(cache) \notin {"writeChunks", "stopWrite", "finalize"}
      BY DEF FirstStep, DeletionStep
    <3> QED
      BY <2>1, <3>1 DEF Reconcile, Idle
  <2>2. CASE AddFinalizer
    <3>1. job' = Idle \/ \E n : job' = [job EXCEPT !.pc = "viewImage", !.img = n]
      BY <2>2 DEF AddFinalizer, Return
    <3>2. job \in Jobs /\ Idle.pc = "idle"
      BY DEF Idle
    <3>3. \A n : [job EXCEPT !.pc = "viewImage", !.img = n].pc = "viewImage"
      BY <3>2
    <3> QED
      BY <3>1, <3>2, <3>3
  <2>3. CASE RemoveFinalizer \/ PatchStatus
    BY <2>3 DEF RemoveFinalizer, PatchStatus, Return, Idle
  <2>4. CASE ViewImage \/ CreateImage
    BY <2>4 DEF ViewImage, CreateImage, Found, Settled, Outcome, Goto
  <2>5. CASE ViewSnap \/ ViewDisk
    BY <2>5 DEF ViewSnap, AfterViewSnap, ViewDisk, AfterViewDisk, Cleanup, Outcome, Goto
  <2>6. CASE Promote \/ DownloadFails \/ FinalizeIntoSnapshot
    BY <2>6 DEF Promote, DownloadFails, FinalizeIntoSnapshot, Outcome
  <2>7. CASE Stop \/ PlainFinalize \/ DeleteImage
    <3>1. job' \in {Goto("plainFinalize"), Goto("deleteDisk"), Goto("removeFinalizer"), Idle}
      BY <2>7 DEF Stop, PlainFinalize, DeleteImage
    <3> QED
      BY <3>1 DEF Goto, Idle
  <2>8. CASE DeleteSnap
    BY <2>8 DEF DeleteSnap, AfterCleanup, Settled, Outcome, Goto, Idle
  <2>9. CASE DeleteDisk
    <3>1. job' = AfterCleanup(TRUE) \/ job' = AfterCleanup(FALSE)
      BY <2>9 DEF DeleteDisk
    <3>2. job' \in {Outcome("Progressing"), Outcome("Error"), Outcome(job.res),
                    Settled(job.cur), Goto("deleteImage"), Idle}
      BY <3>1 DEF AfterCleanup
    <3>3. \A r : Outcome(r).pc = "patch"
      BY DEF Outcome
    <3>4. \A c : Settled(c).pc \in {"patch", "promote"}
      BY DEF Settled
    <3>5. Goto("deleteImage").pc = "deleteImage" /\ Idle.pc = "idle"
      BY DEF Goto, Idle
    <3> QED
      BY <3>2, <3>3, <3>4, <3>5
  <2> QED
    BY <2>1, <2>2, <2>3, <2>4, <2>5, <2>6, <2>7, <2>8, <2>9
<1> QED
  BY <1>1, <1>2, FileQuiet

LEMMA FileCreateDisk ==
  ASSUME TypeOK, FileInv, CreateDisk PROVE FileInv'
<1>1. ~Writing'
  BY DEF CreateDisk, Outcome, Writing, At, TypeOK, Jobs
<1>2. Len(url) \in Nat
  BY FileIsChunks DEF TypeOK, Chunks
<1>3. disk' = disk \/ disk' = NewDisk(DiskSize(Len(url)))
  BY DEF CreateDisk
<1>4. CASE disk' = NewDisk(DiskSize(Len(url)))
  <2>1. DiskSize(Len(url)) \in Nat
    BY <1>2, NewDiskType
  <2>2. \A i \in 1 .. Len(disk'.data) : disk'.data[i] = 0
    BY <1>4, <2>1 DEF NewDisk
  <2> QED
    BY <1>1, <2>2 DEF FileInv, DiskInv, BodyInv, WrittenInv, Writing, Written, At
<1> QED
  BY <1>1, <1>3, <1>4, FileQuiet

LEMMA FileStartWrite ==
  ASSUME TypeOK, FileInv, StartWrite PROVE FileInv'
<1>1. disk'.data = disk.data
  BY DEF StartWrite, StartedDisk, TypeOK, OxideTypeOK
<1>2. CASE Writing'
  <2>1. /\ job' = [job EXCEPT !.pc = "writeChunks", !.body = url, !.off = 0]
        /\ Fits(url)
    BY <1>2 DEF StartWrite, Outcome, Writing, At, TypeOK, Jobs
  <2>2. job'.pc = "writeChunks" /\ job'.body = url /\ job'.off = 0
    BY <2>1 DEF TypeOK, Jobs
  <2>3. url \in Served /\ Len(url) \in Nat
    BY FileIsChunks DEF TypeOK, Chunks
  <2>4. BodyInv'
    BY <1>1, <2>1, <2>2, <2>3 DEF BodyInv, Fits
  <2> QED
    BY <1>1, <2>2, <2>4 DEF FileInv, DiskInv, WrittenInv, Written, At
<1>3. CASE ~Writing'
  BY <1>1, <1>3, FileQuiet
<1> QED
  BY <1>2, <1>3

\* One more chunk of the file is on the disk, whether it was written, was
\* skipped because the disk reads as zeros there, or was lost.
LEMMA FileWriteChunk ==
  ASSUME SameZeros, TypeOK, FileInv, WriteChunk PROVE FileInv'
<1> DEFINE n     == job.off + 1
           chunk == job.body[n]
           next  == [job EXCEPT !.off = @ + 1]
<1>1. /\ job.pc = "writeChunks" /\ job \in Jobs
      /\ job.body \in Served /\ job.off \in Nat /\ job.off < Len(job.body)
      /\ Len(job.body) <= Len(disk.data)
      /\ \A i \in 1 .. job.off : disk.data[i] = job.body[i]
  BY DEF WriteChunk, FileInv, BodyInv, Writing, At, TypeOK, Jobs
<1>2. /\ job.body \in Seq(Nat) /\ disk.data \in Seq(Nat)
      /\ Len(job.body) \in Nat /\ Len(disk.data) \in Nat
  BY <1>1, FileIsChunks DEF TypeOK, OxideTypeOK, Chunks
<1>3. n \in 1 .. Len(disk.data) /\ n \in 1 .. Len(job.body) /\ chunk \in Nat
  <2>1. n \in 1 .. Len(job.body) /\ n \in 1 .. Len(disk.data)
    BY <1>1, <1>2
  <2> QED
    BY <1>2, <2>1
<1>4. next.pc = "writeChunks" /\ next.off = n /\ next.body = job.body
  BY <1>1 DEF Jobs
<1>5. CASE Skipped(chunk)
  <2>1. job' = next /\ disk' = disk
    BY <1>5 DEF WriteChunk
  <2>2. disk.data[n] = chunk
    <3>1. disk.data[n] # 0 => Nonzero(job.body, n)
      BY <1>1, <1>3 DEF FileInv, DiskInv
    <3> QED
      BY <1>3, <1>5, <3>1 DEF Skipped, Nonzero
  <2>3. \A i \in 1 .. n : disk.data[i] = job.body[i]
    BY <1>1, <2>2
  <2>4. BodyInv'
    BY <1>1, <1>2, <1>4, <2>1, <2>3 DEF BodyInv
  <2> QED
    BY <1>4, <2>1, <2>4 DEF FileInv, DiskInv, WrittenInv, Written, At
<1>6. CASE ~Skipped(chunk)
  <2>1. PICK o \in Outcomes :
          /\ Call(o)
          /\ disk' = IF Applied(o, CanWrite) THEN WrittenDisk(n, chunk) ELSE disk
          /\ job' = IF Answered(o, CanWrite) THEN next ELSE WriteFails("Error")
    BY <1>6 DEF WriteChunk
  <2>2. /\ WrittenDisk(n, chunk).data = [disk.data EXCEPT ![n] = chunk]
        /\ Len(WrittenDisk(n, chunk).data) = Len(disk.data)
        /\ \A i \in 1 .. Len(disk.data) :
             WrittenDisk(n, chunk).data[i] = IF i = n THEN chunk ELSE disk.data[i]
    <3>1. WrittenDisk(n, chunk).data = [disk.data EXCEPT ![n] = chunk]
      BY DEF WrittenDisk, TypeOK, OxideTypeOK
    <3> QED
      BY <1>2, <1>3, <3>1, ExceptSeq
  <2>3. \A f \in Served : Nonzero(f, n)
    <3>1. Nonzero(job.body, n)
      BY <1>3, <1>6 DEF Skipped, Nonzero
    <3> QED
      BY <1>1, <1>3, <3>1 DEF SameZeros
  <2>4. DiskInv'
    BY <2>1, <2>2, <2>3 DEF FileInv, DiskInv
  <2>5. CASE Answered(o, CanWrite)
    <3>1. job' = next /\ disk' = WrittenDisk(n, chunk)
      BY <2>1, <2>5 DEF Answered, Applied
    <3>2. \A i \in 1 .. n : disk'.data[i] = job.body[i]
      <4>1. ASSUME NEW i \in 1 .. n PROVE disk'.data[i] = job.body[i]
        <5>1. i \in 1 .. Len(disk.data) /\ (i = n \/ i \in 1 .. job.off)
          BY <1>1, <1>3, <1>2
        <5> QED
          BY <1>1, <2>2, <3>1, <5>1
      <4> QED
        BY <4>1
    <3>3. BodyInv'
      BY <1>1, <1>2, <1>4, <2>2, <3>1, <3>2 DEF BodyInv
    <3> QED
      BY <1>4, <2>4, <3>1, <3>3 DEF FileInv, WrittenInv, Written, At
  <2>6. CASE ~Answered(o, CanWrite)
    <3>1. ~Writing'
      BY <1>1, <2>1, <2>6 DEF WriteFails, Cleanup, Writing, At, Jobs
    <3> QED
      BY <2>4, <3>1 DEF FileInv, BodyInv, WrittenInv, Writing, Written
  <2> QED
    BY <2>5, <2>6
<1> QED
  BY <1>5, <1>6

LEMMA FileWriteEnds ==
  ASSUME TypeOK, FileInv, "truncate" \notin DownloadFaults, DownloadBreaks \/ WritesDone \/ StopWrite
  PROVE  FileInv'
<1>1. disk'.data = disk.data
  BY DEF DownloadBreaks, WritesDone, StopWrite, oxide, StoppedDisk, TypeOK, OxideTypeOK
<1>2. CASE Writing'
  <2>1. \/ WritesDone /\ Verified /\ job' = Goto("stopWrite")
        \/ StopWrite /\ job' = Goto("finalize")
    BY <1>2 DEF DownloadBreaks, WritesDone, StopWrite, WriteFails, Cleanup, Writing, At, TypeOK, Jobs
  <2>2. job'.body = job.body /\ job'.off = job.off /\ job'.img = job.img
    BY <2>1 DEF Goto, TypeOK, Jobs
  <2>3. Writing /\ job.off = Len(job.body) /\ Verified
    BY <2>1 DEF WritesDone, StopWrite, Writing, Written, At, FileInv, WrittenInv
  <2>4. BodyInv' /\ WrittenInv'
    BY <1>1, <2>2, <2>3 DEF FileInv, BodyInv, WrittenInv, Verified
  <2> QED
    BY <1>1, <2>4 DEF FileInv, DiskInv
<1>3. CASE ~Writing'
  BY <1>1, <1>3, FileQuiet
<1> QED
  BY <1>2, <1>3

LEMMA FileSurroundings ==
  ASSUME TypeOK, FileInv, InformerSync \/ TimerFires \/ Oxide \/ Crash \/ Users \/ UNCHANGED vars
  PROVE  FileInv'
<1>1. disk'.data = disk.data
  BY DEF InformerSync, TimerFires, Oxide, OxideStep, DiskCreated, SnapshotMade, SnapshotReady,
         FinalizeDone, Crash, Users, UserEdits, UserDeletes, Publish, ImageDeleted, SnapshotTaken,
         ImageDeletedOutside, oxide, vars, TypeOK, OxideTypeOK
<1>2. CASE Crash
  BY <1>1, <1>2, FileQuiet DEF Crash, Idle, Writing, At
<1>3. CASE ~Crash
  <2>1. job' = job
    BY <1>3 DEF InformerSync, TimerFires, Oxide, Users, UserEdits, UserDeletes, Publish,
         ImageDeleted, SnapshotTaken, vars
  <2> QED
    BY <1>1, <2>1 DEF FileInv, DiskInv, BodyInv, WrittenInv, Writing, Written, Verified, At
<1> QED
  BY <1>2, <1>3

LEMMA FileNext ==
  ASSUME SameZeros, "truncate" \notin DownloadFaults
  PROVE  TypeOK /\ FileInv /\ [Next]_vars => FileInv'
BY FileQuietSteps, FileCreateDisk, FileStartWrite, FileWriteChunk, FileWriteEnds, FileSurroundings
   DEF Next, Step

\* A step that asks for the import snapshot finds the expected file on the disk.
LEMMA SnapshotStep ==
  ASSUME TypeOK, FileInv, [Next]_vars, ~disk.pending, disk'.pending
  PROVE  disk.data = Padded(Expected, Len(disk.data))
<1>1. At("finalize")
  <2> USE DEF oxide, TypeOK, OxideTypeOK
  <2>1. ~(Reconcile \/ AddFinalizer \/ RemoveFinalizer \/ PatchStatus \/ ViewImage \/ ViewSnap
          \/ CreateImage \/ Promote \/ ViewDisk \/ DownloadFails \/ DownloadBreaks
          \/ WritesDone \/ DeleteSnap \/ DeleteImage)
    BY DEF Reconcile, AddFinalizer, RemoveFinalizer, PatchStatus, ViewImage, ViewSnap,
           CreateImage, Promote, ViewDisk, DownloadFails, DownloadBreaks, WritesDone,
           DeleteSnap, DeleteImage
  <2>2. ~(CreateDisk \/ StartWrite \/ StopWrite \/ Stop \/ PlainFinalize \/ DeleteDisk)
    BY DEF CreateDisk, StartWrite, StopWrite, Stop, PlainFinalize, DeleteDisk,
           NewDisk, StartedDisk, StoppedDisk, PlainFinalDisk, NoDisk
  <2>3. ~WriteChunk
    BY DEF WriteChunk, WrittenDisk
  <2>4. ~(InformerSync \/ TimerFires \/ Crash \/ UNCHANGED vars)
    BY DEF InformerSync, TimerFires, Crash, vars
  <2>5. ~Oxide
    BY DEF Oxide, OxideStep, DiskCreated, SnapshotMade, SnapshotReady, FinalizeDone
  <2>6. ~Users
    BY DEF Users, UserEdits, UserDeletes, Publish, ImageDeleted, SnapshotTaken,
           ImageDeletedOutside
  <2> QED
    BY <2>1, <2>2, <2>3, <2>4, <2>5, <2>6 DEF Next, Step, FinalizeIntoSnapshot
<1>2. /\ job.body \in Served /\ job.off = Len(job.body) /\ Len(job.body) <= Len(disk.data)
      /\ \A i \in 1 .. Len(job.body) : disk.data[i] = job.body[i]
      /\ Verified
  BY <1>1 DEF FileInv, BodyInv, WrittenInv, Writing, Written
<1>3. /\ disk.data \in Seq(Nat) /\ job.body \in Seq(Nat)
      /\ Len(disk.data) \in Nat /\ Len(job.body) \in Nat
  BY <1>2, FileIsChunks DEF TypeOK, OxideTypeOK, Chunks
<1>4. \A i \in 1 .. Len(disk.data) : i > Len(job.body) => disk.data[i] = 0
  <2>1. \A i \in 1 .. Len(disk.data) : disk.data[i] # 0 => Nonzero(job.body, i)
    BY <1>2 DEF FileInv, DiskInv
  <2>2. \A i : Nonzero(job.body, i) => i <= Len(job.body)
    BY <1>3 DEF Nonzero
  <2> QED
    BY <2>1, <2>2, <1>3
<1>5. Expected = job.body
  BY <1>2 DEF Expected, Verified
<1>6. \A i \in 1 .. Len(disk.data) :
        disk.data[i] = IF i <= Len(job.body) THEN job.body[i] ELSE 0
  BY <1>2, <1>3, <1>4
<1>7. disk.data = [i \in 1 .. Len(disk.data) |-> disk.data[i]]
  BY <1>3
<1> QED
  BY <1>5, <1>6, <1>7 DEF Padded

\* As long as every file a url serves has its zero chunks in the same places,
\* and no download ends early unnoticed, the import snapshot is only made of
\* the file that was verified, however often the disk was written before
\* (image_controller.go:230, 237, 249).
THEOREM SnapshotVerified ==
  ASSUME SameZeros, "truncate" \notin DownloadFaults
  PROVE  Spec => VerifiedSnapshot
<1>1. /\ TypeOK /\ FileInv /\ [Next]_vars
      => [~disk.pending /\ disk'.pending => disk.data = Padded(Expected, Len(disk.data))]_vars
  BY SnapshotStep
<1> QED
  BY <1>1, TypeCorrect, FileInit, FileNext, PTL DEF Spec, VerifiedSnapshot

-----------------------------------------------------------------------------
(* The controller implements ManagedResource.                              *)

\* What is deleted was read as such, with the finalizer; the finalizer is only added
\* to an object that was read alive.
ReadInv ==
  /\ Deleting => job.img.phase = "deleting" /\ job.img.fin
  /\ At("addFinalizer") => job.img.phase = "live"

\* The steps between the first and the last of a reconcile.
Worker ==
  \/ PatchStatus
  \/ ViewImage \/ ViewSnap \/ CreateImage \/ Promote
  \/ ViewDisk \/ DownloadFails \/ CreateDisk \/ StartWrite \/ WriteChunk
  \/ DownloadBreaks \/ WritesDone \/ StopWrite \/ FinalizeIntoSnapshot
  \/ DeleteSnap \/ Stop \/ PlainFinalize \/ DeleteDisk \/ DeleteImage

\* They keep to the object that was read, and do not turn into a deletion.
LEMMA WorkerReads ==
  ASSUME TypeOK, HeldInv, Worker
  PROVE  \/ job' = Idle
         \/ /\ job'.img = job.img /\ job'.pc # "addFinalizer"
            /\ Deleting' => Deleting
<1> USE DEF TypeOK, Jobs, Deleting, At
<1>1. CASE PatchStatus
  BY <1>1 DEF PatchStatus, Return
<1>2. CASE ViewImage
  BY <1>2 DEF ViewImage, Outcome, Goto, Found, Settled
<1>3. CASE ViewSnap
  BY <1>3 DEF ViewSnap, AfterViewSnap, Outcome, Goto
<1>4. CASE CreateImage
  BY <1>4 DEF CreateImage, Found, Settled, Outcome
<1>5. CASE Promote
  BY <1>5 DEF Promote, Outcome
<1>6. CASE ViewDisk
  BY <1>6 DEF ViewDisk, AfterViewDisk, Cleanup, Outcome, Goto
<1>7. CASE DownloadFails \/ CreateDisk
  BY <1>7 DEF DownloadFails, CreateDisk, Outcome
<1>8. CASE StartWrite
  BY <1>8 DEF StartWrite, Outcome
<1>9. CASE WriteChunk
  BY <1>9 DEF WriteChunk, WriteFails, Cleanup
<1>10. CASE DownloadBreaks
  BY <1>10 DEF DownloadBreaks, WriteFails, Cleanup
<1>11. CASE WritesDone \/ StopWrite
  BY <1>11 DEF WritesDone, StopWrite, WriteFails, Cleanup, Goto
<1>12. CASE FinalizeIntoSnapshot
  BY <1>12 DEF FinalizeIntoSnapshot, Outcome
<1>13. CASE DeleteSnap
  BY <1>13 DEF DeleteSnap, AfterCleanup, Settled, Outcome, Goto
<1>14. CASE Stop \/ PlainFinalize
  BY <1>14 DEF Stop, PlainFinalize, Goto
<1>15. CASE DeleteDisk
  BY <1>15 DEF DeleteDisk, AfterCleanup, Settled, Outcome, Goto, HeldInv, ReasonGiven, Reasons
<1>16. CASE DeleteImage
  BY <1>16 DEF DeleteImage, Goto
<1> QED
  BY <1>1, <1>2, <1>3, <1>4, <1>5, <1>6, <1>7, <1>8, <1>9, <1>10, <1>11, <1>12, <1>13, <1>14,
     <1>15, <1>16 DEF Worker

\* What AddFinalizer may do.
LEMMA AddsFinalizer ==
  ASSUME TypeOK, AddFinalizer
  PROVE  \/ obj' = obj /\ job' = Idle
         \/ /\ job.img = obj /\ obj' = [obj EXCEPT !.fin = TRUE]
            /\ job' = Idle \/ job' = [job EXCEPT !.pc = "viewImage", !.img = obj']
<1> DEFINE new == [job.img EXCEPT !.fin = TRUE]
<1>1. PICK o \in Outcomes :
        /\ obj' = IF Applied(o, ~Conflicts(job.img)) THEN new ELSE obj
        /\ IF Answered(o, ~Conflicts(job.img))
           THEN /\ job' = [job EXCEPT !.pc = "viewImage", !.img = new]
                /\ UNCHANGED <<queued, timer>>
           ELSE Return(TRUE)
  BY DEF AddFinalizer
<1>2. CASE Applied(o, ~Conflicts(job.img))
  <2>1. job.img = obj /\ obj' = new
    BY <1>1, <1>2 DEF Applied, Conflicts
  <2> QED
    BY <1>1, <2>1 DEF Return
<1>3. CASE ~Applied(o, ~Conflicts(job.img))
  BY <1>1, <1>3 DEF Applied, Answered, Return
<1> QED
  BY <1>2, <1>3

\* A reconcile starts from the cached object, or returns at once.
LEMMA Starts ==
  ASSUME TypeOK, Reconcile
  PROVE  \/ job' = Idle
         \/ /\ ~LeftAlone(cache)
            /\ job'.pc = FirstStep(cache) /\ job'.img = cache /\ job'.id = cache.id
            /\ job'.cur.id = 0
<1>1. CASE job' = Idle
  BY <1>1
<1>2. CASE job' # Idle
  BY <1>2 DEF Reconcile, Idle, FirstStep
<1> QED
  BY <1>1, <1>2

LEMMA ReadNext ==
  ASSUME TypeOK, HeldInv, ReadInv, [Next]_vars PROVE ReadInv'
<1> USE DEF ReadInv
<1>1. CASE job' = Idle
  BY <1>1 DEF Idle, Deleting, At
<1>2. CASE Reconcile /\ job' # Idle
  <2>1. ~LeftAlone(cache) /\ job'.pc = FirstStep(cache) /\ job'.img = cache
    BY <1>2, Starts
  <2>2. cache.phase \in Phases
    BY DEF TypeOK, Objects
  <2> QED
    BY <2>1, <2>2, SourcesAssumption DEF FirstStep, DeletionStep, LeftAlone, Phases, Deleting, At
<1>3. CASE AddFinalizer /\ job' # Idle
  <2>1. job'.pc = "viewImage"
    BY <1>3, AddsFinalizer DEF TypeOK, Jobs
  <2> QED
    BY <2>1 DEF Deleting, At
<1>4. CASE Worker /\ job' # Idle
  BY <1>4, WorkerReads DEF At
<1>5. CASE InformerSync \/ TimerFires \/ Oxide \/ Users \/ UNCHANGED vars
  <2>1. UNCHANGED job
    BY <1>5 DEF InformerSync, TimerFires, Oxide, Users, UserEdits, UserDeletes, Publish, ImageDeleted,
                SnapshotTaken, vars
  <2> QED
    BY <2>1 DEF Deleting, At
<1> QED
  BY <1>1, <1>2, <1>3, <1>4, <1>5 DEF Next, Step, Worker, RemoveFinalizer, Return, Crash

\* What a user's change is to the promise.
LEMMA EditManaged ==
  ASSUME TypeOK, UserEdits PROVE [Managed!Next]_(Managed!vars)
<1> USE DEF Managed!Next, Managed!vars
<1>1. obj \in Objects /\ obj.phase \in {"live", "deleting"} /\ UNCHANGED <<image, disk>>
  BY DEF UserEdits, TypeOK, Objects, Phases, oxide
<1>2. PICK new \in {[obj EXCEPT !.sha = s, !.gen = @ + 1] : s \in Shas \ {obj.sha}}
                   \union {[obj EXCEPT !.promote = ~@, !.gen = @ + 1],
                           [obj EXCEPT !.prot = ~@, !.gen = @ + 1],
                           [obj EXCEPT !.disabled = ~@]} : obj' = new
  BY DEF UserEdits
<1>3. CASE \E s \in Shas \ {obj.sha} : new = [obj EXCEPT !.sha = s, !.gen = @ + 1]
  BY <1>1, <1>2, <1>3 DEF Objects
<1>4. CASE new = [obj EXCEPT !.promote = ~@, !.gen = @ + 1] \/ new = [obj EXCEPT !.disabled = ~@]
  BY <1>1, <1>2, <1>4 DEF Objects
<1>5. CASE new = [obj EXCEPT !.prot = ~@, !.gen = @ + 1]
  BY <1>1, <1>2, <1>5 DEF Objects, Managed!Protect
<1> QED
  BY <1>2, <1>3, <1>4, <1>5

\* Steps that make a disk or an image do it for a held object; the other calls of a
\* reconcile at most remove one.
LEMMA WorkerManaged ==
  ASSUME TypeOK, HeldInv, Worker PROVE [Managed!Next]_(Managed!vars)
<1> USE DEF Managed!Next, Managed!vars
<1>1. UNCHANGED <<obj.phase, obj.fin, obj.prot>>
  <2>1. CASE PatchStatus
    <3>1. Patched.phase = obj.phase /\ Patched.fin = obj.fin /\ Patched.prot = obj.prot
      BY DEF Patched, TypeOK, Objects
    <3> QED
      BY <2>1, <3>1 DEF PatchStatus
  <2>2. CASE ~PatchStatus
    BY <2>2 DEF Worker, k8s, ViewImage, ViewSnap, CreateImage, Promote, ViewDisk, DownloadFails,
                CreateDisk, StartWrite, WriteChunk, DownloadBreaks, WritesDone, StopWrite,
                FinalizeIntoSnapshot, DeleteSnap, Stop, PlainFinalize, DeleteDisk, DeleteImage
  <2> QED
    BY <2>1, <2>2
<1>2. CASE CreateImage \/ CreateDisk
  <2>1. obj.fin
    BY <1>2 DEF CreateImage, CreateDisk, HeldInv, CreatesUnderFinalizer, Creating, At
  <2> QED
    BY <1>1, <2>1 DEF Managed!Appear, Managed!Vanish
<1>3. CASE ~CreateImage /\ ~CreateDisk
  <2>1. image'.id # 0 => image.id # 0
    <3>1. CASE Promote
      BY <3>1 DEF Promote, TypeOK, OxideTypeOK
    <3>2. CASE DeleteImage
      <4>1. image' = NoImage \/ image' = image
        BY <3>2 DEF DeleteImage
      <4> QED
        BY <4>1 DEF NoImage
    <3>3. CASE ~Promote /\ ~DeleteImage
      <4>1. UNCHANGED image
        BY <1>3, <3>3
           DEF Worker, oxide, PatchStatus, ViewImage, ViewSnap, ViewDisk, DownloadFails, StartWrite,
               WriteChunk, DownloadBreaks, WritesDone, StopWrite, FinalizeIntoSnapshot, DeleteSnap, Stop,
               PlainFinalize, DeleteDisk
      <4> QED
        BY <4>1
    <3> QED
      BY <3>1, <3>2, <3>3
  <2>2. disk'.state # "none" => disk.state # "none"
    <3> USE DEF TypeOK, OxideTypeOK, Applied
    <3>1. CASE StartWrite
      BY <3>1 DEF StartWrite, StartedDisk, CanStart
    <3>2. CASE WriteChunk
      BY <3>2 DEF WriteChunk, WrittenDisk, CanWrite
    <3>3. CASE StopWrite \/ Stop
      BY <3>3 DEF StopWrite, Stop, StoppedDisk, CanStop
    <3>4. CASE FinalizeIntoSnapshot \/ PlainFinalize
      BY <3>4 DEF FinalizeIntoSnapshot, PlainFinalize, SnapshottingDisk, PlainFinalDisk, CanFinalize
    <3>5. CASE DeleteDisk
      BY <3>5 DEF DeleteDisk, NoDisk
    <3>6. CASE \/ PatchStatus \/ ViewImage \/ ViewSnap \/ Promote \/ ViewDisk \/ DownloadFails
               \/ DownloadBreaks \/ WritesDone \/ DeleteSnap \/ DeleteImage
      <4>1. UNCHANGED disk
        BY <3>6 DEF oxide, PatchStatus, ViewImage, ViewSnap, Promote, ViewDisk, DownloadFails,
                    DownloadBreaks, WritesDone, DeleteSnap, DeleteImage
      <4> QED
        BY <4>1
    <3> QED
      BY <1>3, <3>1, <3>2, <3>3, <3>4, <3>5, <3>6 DEF Worker
  <2> QED
    BY <1>1, <2>1, <2>2 DEF Managed!Vanish
<1> QED
  BY <1>2, <1>3

\* Every step of the controller and around it is a step of the promise, or none.
LEMMA StepManaged ==
  ASSUME TypeOK, HeldInv, ReadInv, [Next]_vars PROVE [Managed!Next]_(Managed!vars)
<1> USE DEF Managed!Next, Managed!vars
<1>1. CASE AddFinalizer
  <2>1. UNCHANGED oxide /\ job.img.phase = "live"
    BY <1>1 DEF AddFinalizer, ReadInv
  <2>2. CASE job.img = obj /\ obj' = [obj EXCEPT !.fin = TRUE]
    BY <2>1, <2>2 DEF Managed!Hold, TypeOK, Objects, oxide
  <2> QED
    BY <1>1, <2>1, <2>2, AddsFinalizer DEF oxide
<1>2. CASE RemoveFinalizer
  <2>1. UNCHANGED oxide /\ At("removeFinalizer")
    BY <1>2 DEF RemoveFinalizer
  <2>2. CASE job.img = obj /\ obj' = [obj EXCEPT !.phase = "absent", !.fin = FALSE]
    <3>1. obj.phase = "deleting" /\ obj.fin
      BY <2>1, <2>2 DEF ReadInv, Deleting
    <3>2. image.id # 0 \/ disk.state # "none" => obj.prot
      BY <2>1, <2>2 DEF HeldInv, AllGoneFirst
    <3> QED
      BY <2>1, <2>2, <3>1, <3>2 DEF Managed!Release, TypeOK, Objects, oxide
  <2> QED
    BY <1>2, <2>1, <2>2 DEF RemoveFinalizer, Applied, Conflicts, oxide
<1>3. CASE Worker
  BY <1>3, WorkerManaged
<1>4. CASE UserEdits
  BY <1>4, EditManaged
<1>5. CASE UserDeletes
  BY <1>5 DEF UserDeletes, Managed!Delete, TypeOK, Objects, oxide
<1>6. CASE ImageDeleted
  BY <1>6 DEF ImageDeleted, ImageDeletedOutside, NoImage, Managed!Vanish, k8s
<1>7. CASE Oxide
  BY <1>7 DEF Oxide, OxideStep, DiskCreated, SnapshotMade, SnapshotReady, FinalizeDone, TypeOK,
              OxideTypeOK, k8s
<1>8. CASE Reconcile \/ InformerSync \/ TimerFires \/ Crash \/ Publish \/ SnapshotTaken \/ UNCHANGED vars
  <2>1. UNCHANGED <<obj, image, disk>>
    BY <1>8 DEF Reconcile, InformerSync, TimerFires, Crash, Publish, SnapshotTaken, vars, oxide, k8s
  <2> QED
    BY <2>1
<1> QED
  BY <1>1, <1>2, <1>3, <1>4, <1>5, <1>6, <1>7, <1>8 DEF Next, Step, Users, Worker

\* The Image controller keeps the promise every controller makes: the object is held
\* before anything is made for it, and only goes when its image and its import disk have
\* gone or are to be kept (image_controller.go:349).
THEOREM ImageManaged == Spec => ImplementsManaged
<1>1. Init => Managed!Init /\ ReadInv
  BY DEF Init, OxideInit, NoDisk, NoImage, NewObject, Idle, Managed!Init, ReadInv, Deleting, At
<1> QED
  BY <1>1, TypeCorrect, HeldInit, HeldNext, ReadNext, StepManaged, PTL
     DEF Spec, ImplementsManaged, Managed!Spec

-----------------------------------------------------------------------------
(* A recorded ID means that the import has been cleaned up.                *)

\* IDs are handed out once, and only known once they are.
IdsAreOld ==
  /\ image.id <= lastId /\ obj.id <= lastId /\ cache.id <= lastId
  /\ job.img.id <= lastId /\ job.id <= lastId /\ job.cur.id <= lastId

\* Between looking for the image and creating it there is none: nobody else makes one.
Importing ==
  job.pc \in {"viewSnap", "viewDisk", "createDisk", "startWrite", "writeChunks", "stopWrite",
              "finalize", "createImage"}

NoImageYet == source = "url" /\ Importing => image.id = 0

\* A disk about to turn into the snapshot comes before the snapshot and the image.
SnapshotComesFirst == source = "url" /\ disk.pending => snap.state = "none" /\ image.id = 0

Recorded == {obj.id, cache.id, job.img.id, job.id}
Clean == disk.state = "none" /\ snap.state = "none"

\* An ID that is recorded anywhere is that of an image whose import is cleaned up.
RecordedIsClean == source = "url" /\ image.id # 0 /\ image.id \in Recorded => Clean

\* A cleanup that is to record the image's ID has begun with the snapshot.
SnapshotGoneFirst ==
  /\ source = "url" /\ job.why = "recorded" /\ job.pc \in {"stop", "plainFinalize", "deleteDisk"}
  /\ image.id # 0
  => snap.state = "none"

IdInv == IdsAreOld /\ NoImageYet /\ SnapshotComesFirst /\ RecordedIsClean /\ SnapshotGoneFirst

LEMMA IdInit == Init => IdInv
BY DEF Init, OxideInit, NoDisk, NoSnap, NoImage, NoObject, NewObject, Idle, IdInv, IdsAreOld, NoImageYet,
       Importing, SnapshotComesFirst, Recorded, RecordedIsClean, SnapshotGoneFirst

\* Steps that leave Oxide alone and spread no new ID.
LEMMA IdSpreads ==
  ASSUME TypeOK, IdInv, UNCHANGED <<oxide, source>>,
         obj'.id \in Recorded, cache'.id \in Recorded,
         job'.img.id \in Recorded \union {0}, job'.id \in Recorded \union {0, image.id},
         source = "url" => job'.id \in Recorded \union {0},
         job'.cur.id \in {0, job.cur.id, image.id},
         source = "url" /\ Importing' => image.id = 0,
         source = "url" /\ job'.why = "recorded" /\ job'.pc \in {"stop", "plainFinalize", "deleteDisk"}
           => image.id = 0 \/ snap.state = "none"
  PROVE  IdInv'
<1> USE DEF TypeOK, OxideTypeOK, Objects, Jobs, IdInv, oxide
<1>1. \A i \in Recorded \union {0, job.cur.id, image.id} : i <= lastId
  BY DEF Recorded, IdsAreOld
<1>2. IdsAreOld'
  BY <1>1 DEF IdsAreOld
<1>3. RecordedIsClean'
  BY DEF RecordedIsClean, Recorded, Clean
<1>4. NoImageYet' /\ SnapshotComesFirst' /\ SnapshotGoneFirst'
  BY DEF NoImageYet, SnapshotComesFirst, SnapshotGoneFirst
<1> QED
  BY <1>2, <1>3, <1>4

LEMMA IdKubernetes ==
  ASSUME TypeOK, IdInv,
         \/ Reconcile \/ AddFinalizer \/ RemoveFinalizer \/ PatchStatus
         \/ InformerSync \/ TimerFires \/ Crash \/ UserEdits \/ UserDeletes \/ UNCHANGED vars
  PROVE  IdInv'
<1> USE DEF Recorded
<1>1. UNCHANGED <<oxide, source>>
  BY DEF Reconcile, AddFinalizer, RemoveFinalizer, PatchStatus, InformerSync, TimerFires, Crash,
         UserEdits, UserDeletes, vars, oxide
<1>2. CASE Reconcile
  <2>1. UNCHANGED <<obj, cache>>
    BY <1>2 DEF Reconcile
  <2>2. CASE job' = Idle
    BY <1>1, <2>1, <2>2, IdSpreads DEF Idle, NoObject, NewObject, Importing
  <2>3. CASE /\ ~LeftAlone(cache)
             /\ job'.pc = FirstStep(cache) /\ job'.img = cache /\ job'.id = cache.id
             /\ job'.cur.id = 0
    <3>1. FirstStep(cache) \in {"removeFinalizer", "deleteSnap", "deleteImage", "viewImage",
                                "addFinalizer"}
      BY <2>3 DEF FirstStep, DeletionStep
    <3> QED
      BY <1>1, <2>1, <2>3, <3>1, IdSpreads DEF Importing
  <2> QED
    BY <1>2, <2>2, <2>3, Starts
<1>3. CASE AddFinalizer
  <2>1. UNCHANGED cache /\ At("addFinalizer")
    BY <1>3 DEF AddFinalizer
  <2>2. obj'.id = obj.id
    BY <1>3, AddsFinalizer DEF TypeOK, Objects
  <2>3. \/ job'.img.id = 0 /\ job'.id = 0 /\ job'.pc = "idle" /\ job'.cur.id = 0
        \/ job'.img.id = obj.id /\ job'.id = job.id /\ job'.pc = "viewImage" /\ job'.cur = job.cur
    <3>1. CASE job' = Idle
      BY <3>1 DEF Idle, NoObject, NewObject
    <3>2. CASE job' = [job EXCEPT !.pc = "viewImage", !.img = obj']
      BY <2>2, <3>2 DEF TypeOK, Jobs
    <3> QED
      BY <1>3, <3>1, <3>2, AddsFinalizer
  <2> QED
    BY <1>1, <2>1, <2>2, <2>3, IdSpreads DEF Importing
<1>4. CASE RemoveFinalizer \/ PatchStatus \/ Crash
  <2>1. job' = Idle
    BY <1>4 DEF RemoveFinalizer, PatchStatus, Crash, Return
  <2>2. obj'.id \in {obj.id, job.id} /\ cache'.id \in {cache.id, obj.id}
    BY <1>4 DEF RemoveFinalizer, PatchStatus, Crash, Patched, NewStatus, Merged, TypeOK, Objects
  <2> QED
    BY <1>1, <2>1, <2>2, IdSpreads DEF Idle, NoObject, NewObject, Importing
<1>5. CASE InformerSync \/ TimerFires \/ UserEdits \/ UserDeletes \/ UNCHANGED vars
  <2>1. UNCHANGED job /\ cache'.id \in {cache.id, obj.id}
    BY <1>5 DEF InformerSync, TimerFires, UserEdits, UserDeletes, vars
  <2>2. obj'.id = obj.id
    <3>1. CASE UserEdits
      <4>1. PICK new \in {[obj EXCEPT !.sha = s, !.gen = @ + 1] : s \in Shas \ {obj.sha}}
                   \union {[obj EXCEPT !.promote = ~@, !.gen = @ + 1],
                           [obj EXCEPT !.prot = ~@, !.gen = @ + 1],
                           [obj EXCEPT !.disabled = ~@]} : obj' = new
        BY <3>1 DEF UserEdits
      <4> QED
        BY <4>1 DEF TypeOK, Objects
    <3>2. CASE UserDeletes
      BY <3>2 DEF UserDeletes, TypeOK, Objects
    <3> QED
      BY <1>5, <3>1, <3>2 DEF InformerSync, TimerFires, vars
  <2> QED
    BY <1>1, <2>1, <2>2, IdSpreads DEF IdInv, NoImageYet, SnapshotGoneFirst, Importing
<1> QED
  BY <1>2, <1>3, <1>4, <1>5

\* The steps that look at Oxide or decide.
LEMMA IdLooks ==
  ASSUME TypeOK, IdInv,
         ViewImage \/ ViewSnap \/ ViewDisk \/ DownloadFails \/ DownloadBreaks \/ WritesDone
  PROVE  IdInv'
<1> USE DEF Recorded, TypeOK, Jobs
<1>1. UNCHANGED <<oxide, source, obj, cache>>
  BY DEF ViewImage, ViewSnap, ViewDisk, DownloadFails, DownloadBreaks, WritesDone, k8s
<1>2. CASE ViewImage
  <2>1. /\ job'.img = job.img /\ job'.id \in {job.id, job.img.id, image.id}
        /\ source = "url" => job'.id \in {job.id, job.img.id}
        /\ job'.pc \in {"patch", "viewSnap", "deleteSnap", "promote"}
        /\ job'.pc = "viewSnap" => image.id = 0
        /\ job'.cur.id \in {job.cur.id, image.id}
    <3>1. \/ job' = Outcome("Error")
          \/ job' = Goto("viewSnap") /\ image.id = 0
          \/ job' = Found(InOxide(image))
      BY <1>2 DEF ViewImage
    <3>2. CASE job' = Outcome("Error")
      BY <3>2 DEF Outcome
    <3>3. CASE job' = Goto("viewSnap") /\ image.id = 0
      BY <3>3 DEF Goto
    <3>4. CASE job' = Found(InOxide(image))
      BY <3>4 DEF Found, Settled, ImportJustDone, InOxide
    <3> QED
      BY <3>1, <3>2, <3>3, <3>4
  <2>2. source = "url" /\ Importing' => image.id = 0
    BY <2>1 DEF Importing
  <2>3. /\ job'.img.id \in Recorded /\ obj'.id \in Recorded /\ cache'.id \in Recorded
        /\ job'.id \in Recorded \union {image.id}
        /\ source = "url" => job'.id \in Recorded
    BY <1>1, <2>1
  <2>4. job'.pc \notin {"stop", "plainFinalize", "deleteDisk"}
    BY <2>1
  <2> HIDE DEF Recorded, TypeOK, Jobs
  <2> QED
    BY <1>1, <2>1, <2>2, <2>3, <2>4, IdSpreads
<1>3. CASE ~ViewImage
  <2>1. Importing
    BY <1>3 DEF ViewSnap, ViewDisk, DownloadFails, DownloadBreaks, WritesDone, Importing, At
  <2>2. job'.img = job.img /\ job'.id = job.id /\ job'.cur = job.cur
    BY <1>3 DEF ViewSnap, AfterViewSnap, ViewDisk, AfterViewDisk, DownloadFails, DownloadBreaks,
                WritesDone, WriteFails, Cleanup, Outcome, Goto
  <2>3. source = "url" => image.id = 0
    BY <2>1 DEF IdInv, NoImageYet
  <2> QED
    BY <1>1, <2>2, <2>3, IdSpreads
<1> QED
  BY <1>2, <1>3

\* Where image and snapshot stay, a disk that is not made costs nothing.
LEMMA IdDisk ==
  ASSUME TypeOK, IdInv,
         CreateDisk \/ StartWrite \/ WriteChunk \/ StopWrite \/ FinalizeIntoSnapshot
  PROVE  IdInv'
<1> USE DEF TypeOK, OxideTypeOK, Jobs
<1>1. UNCHANGED <<snap, image, lastId, obj, cache, source>> /\ Importing
  BY DEF CreateDisk, StartWrite, WriteChunk, StopWrite, FinalizeIntoSnapshot, k8s, oxide, Importing, At
<1>2. job'.img = job.img /\ job'.id = job.id /\ job'.cur = job.cur
  BY DEF CreateDisk, StartWrite, WriteChunk, StopWrite, FinalizeIntoSnapshot, WriteFails, Cleanup,
         Outcome, Goto
<1>3. source = "url" => image.id = 0
  BY <1>1 DEF IdInv, NoImageYet
<1>4. disk'.pending => disk.pending \/ snap.state = "none"
  BY DEF CreateDisk, StartWrite, WriteChunk, StopWrite, FinalizeIntoSnapshot, NewDisk, StartedDisk,
         WrittenDisk, StoppedDisk, SnapshottingDisk, Applied, oxide
<1> QED
  BY <1>1, <1>2, <1>3, <1>4
     DEF IdInv, IdsAreOld, NoImageYet, SnapshotComesFirst, RecordedIsClean, Recorded, SnapshotGoneFirst

LEMMA IdImage ==
  ASSUME TypeOK, IdInv, CreateImage \/ Promote PROVE IdInv'
<1> USE DEF TypeOK, OxideTypeOK, Jobs, Objects
<1>1. UNCHANGED <<disk, snap, obj, cache, source>>
  BY DEF CreateImage, Promote, k8s
<1>2. CASE Promote
  <2>1. image'.id = image.id /\ UNCHANGED lastId /\ job'.img = job.img /\ job'.id = job.id
        /\ job'.pc = "patch" /\ job'.cur = job.cur
    BY <1>2 DEF Promote, Outcome
  <2> QED
    BY <1>1, <2>1 DEF IdInv, IdsAreOld, NoImageYet, Importing, SnapshotComesFirst, RecordedIsClean,
                      Recorded, Clean, SnapshotGoneFirst
<1>3. CASE CreateImage /\ UNCHANGED <<image, lastId>>
  <2>1. job'.pc \in {"patch", "deleteSnap", "promote"} /\ job'.img = job.img
    BY <1>3 DEF CreateImage, Found, Settled, Outcome
  <2>2. source = "url" => image.id = 0
    BY <1>3 DEF CreateImage, IdInv, NoImageYet, Importing, At
  <2>4. job'.id = job.id /\ job'.cur = job.cur
    <3>1. CASE \E n : job' = Outcome(n)
      BY <3>1 DEF Outcome
    <3>2. CASE image' = NewImage(snap.data)
      BY <1>3, <3>2 DEF NewImage, IdInv, IdsAreOld
    <3> QED
      BY <1>3, <3>1, <3>2 DEF CreateImage, Applied, Answered
  <2> QED
    BY <1>1, <1>3, <2>1, <2>2, <2>4
       DEF IdInv, IdsAreOld, NoImageYet, Importing, SnapshotComesFirst, RecordedIsClean, Recorded,
           SnapshotGoneFirst
<1>4. CASE CreateImage /\ image' = NewImage(snap.data) /\ lastId' = lastId + 1
  <2>1. snap.state = "ready"
    <3>1. CASE image' = image
      BY <1>4, <3>1 DEF NewImage, IdInv, IdsAreOld
    <3> QED
      BY <1>4, <3>1 DEF CreateImage, Applied
  <2>2. image'.id = lastId + 1
    BY <1>4 DEF NewImage
  <2>3. job'.img = job.img /\ job'.pc \in {"patch", "deleteSnap", "promote"}
    BY <1>4 DEF CreateImage, Found, Settled, Outcome
  <2>4. /\ job'.id = job.id \/ (source # "url" /\ job'.id = lastId + 1)
        /\ job'.cur.id \in {job.cur.id, lastId + 1}
    <3>1. ImportJustDone(InOxide(NewImage(snap.data)))
      BY DEF ImportJustDone, InOxide, NewImage, IdInv, IdsAreOld
    <3> QED
      BY <1>4, <3>1 DEF CreateImage, Found, Settled, Outcome, InOxide, NewImage
  <2> QED
    BY <1>1, <1>4, <2>1, <2>2, <2>3, <2>4
       DEF IdInv, IdsAreOld, NoImageYet, Importing, SnapshotComesFirst, RecordedIsClean, Recorded,
           SnapshotGoneFirst
<1> QED
  BY <1>2, <1>3, <1>4 DEF CreateImage

LEMMA IdCleanup ==
  ASSUME TypeOK, HeldInv, IdInv, DeleteSnap \/ Stop \/ PlainFinalize \/ DeleteDisk \/ DeleteImage
  PROVE  IdInv'
<1> USE DEF TypeOK, OxideTypeOK, Jobs, Objects
<1>1. UNCHANGED <<lastId, obj, cache, source>> /\ ~Importing'
  <2>1. UNCHANGED <<lastId, obj, cache, source>>
    BY DEF DeleteSnap, Stop, PlainFinalize, DeleteDisk, DeleteImage, k8s
  <2>2. job'.pc \in {"idle", "stop", "plainFinalize", "deleteDisk", "deleteImage", "promote", "patch",
                     "removeFinalizer"}
    <3>1. CASE DeleteSnap \/ DeleteDisk
      <4>1. \E done \in BOOLEAN : job' = AfterCleanup(done) \/ job' = Goto("stop")
        BY <3>1 DEF DeleteSnap, DeleteDisk
      <4>2. \/ job' = Idle \/ job' = Settled(job.cur)
            \/ \E res : job' = Outcome(res)
            \/ \E pc \in {"deleteImage", "stop"} : job' = Goto(pc)
        BY <4>1 DEF AfterCleanup
      <4>3. CASE job' = Idle \/ \E pc \in {"deleteImage", "stop"} : job' = Goto(pc)
        BY <4>3 DEF Goto, Idle
      <4>4. CASE job' = Settled(job.cur)
        BY <4>4 DEF Settled
      <4>5. CASE \E res : job' = Outcome(res)
        BY <4>5 DEF Outcome
      <4> QED
        BY <4>2, <4>3, <4>4, <4>5
    <3>2. CASE Stop \/ PlainFinalize \/ DeleteImage
      <4>1. job' = Idle \/ \E pc \in {"plainFinalize", "deleteDisk", "removeFinalizer"} : job' = Goto(pc)
        BY <3>2 DEF Stop, PlainFinalize, DeleteImage
      <4> QED
        BY <4>1 DEF Goto, Idle
    <3> QED
      BY <3>1, <3>2
  <2> QED
    BY <2>1, <2>2 DEF Importing
<1>2. CASE DeleteSnap
  <2>1. UNCHANGED <<disk, image>> /\ (snap'.state # "none" => snap' = snap)
    BY <1>2 DEF DeleteSnap, NoSnap
  <2>2. /\ job'.img.id \in {job.img.id, 0} /\ job'.id \in {job.id, 0} /\ job'.cur.id \in {job.cur.id, 0}
        /\ job'.pc \in {"stop", "plainFinalize", "deleteDisk"} => snap'.state = "none"
    BY <1>2 DEF DeleteSnap, AfterCleanup, Settled, Outcome, Goto, Idle, NoObject, NewObject, Applied, NoSnap
  <2> QED
    BY <1>1, <2>1, <2>2
       DEF IdInv, IdsAreOld, NoImageYet, Importing, SnapshotComesFirst, RecordedIsClean, Recorded, Clean,
           SnapshotGoneFirst
<1>3. CASE Stop \/ PlainFinalize
  <2>1. /\ UNCHANGED <<snap, image>> /\ disk'.pending = disk.pending
        /\ disk.state = "none" => disk'.state = "none"
    BY <1>3 DEF Stop, PlainFinalize, StoppedDisk, PlainFinalDisk, Applied, CanStop, CanFinalize
  <2>2. /\ job'.img = job.img /\ job'.id = job.id /\ job'.why = job.why /\ job'.cur = job.cur
        /\ job.pc \in {"stop", "plainFinalize"} /\ job'.pc \in {"plainFinalize", "deleteDisk"}
    BY <1>3 DEF Stop, PlainFinalize, Goto, At
  <2> QED
    BY <1>1, <2>1, <2>2
       DEF IdInv, IdsAreOld, NoImageYet, Importing, SnapshotComesFirst, RecordedIsClean, Recorded, Clean,
           SnapshotGoneFirst
<1>4. CASE DeleteDisk
  <2>1. UNCHANGED <<snap, image>> /\ (disk' = disk \/ disk' = NoDisk)
    BY <1>4 DEF DeleteDisk
  <2>2. PICK o \in Outcomes :
          /\ disk' = IF Applied(o, CanDeleteDisk) THEN NoDisk ELSE disk
          /\ job' = AfterCleanup(o = "ok" /\ (CanDeleteDisk \/ disk.state = "none"))
    BY <1>4 DEF DeleteDisk
  <2>3. job'.pc \notin {"stop", "plainFinalize", "deleteDisk"}
    BY <2>2 DEF AfterCleanup, Settled, Outcome, Goto, Idle
  <2>4. IdsAreOld' /\ NoImageYet' /\ SnapshotComesFirst' /\ SnapshotGoneFirst'
    <3>1. /\ job'.img.id \in {job.img.id, 0} /\ job'.id \in {job.id, job.cur.id, 0}
          /\ job'.cur.id \in {job.cur.id, 0}
      BY <2>2 DEF AfterCleanup, Settled, Outcome, Goto, Idle, NoObject, NewObject
    <3> QED
      BY <1>1, <2>1, <2>3, <3>1
         DEF IdInv, IdsAreOld, NoImageYet, Importing, SnapshotComesFirst, SnapshotGoneFirst, NoDisk
  <2>5. RecordedIsClean'
    <3>1. CASE job'.img.id \in {job.img.id, 0} /\ job'.id \in {job.id, 0}
      BY <1>1, <2>1, <3>1 DEF IdInv, RecordedIsClean, Recorded, Clean, NoDisk
    <3>2. CASE job.why = "recorded" /\ disk'.state = "none"
      BY <1>1, <1>4, <2>1, <3>2 DEF IdInv, SnapshotGoneFirst, RecordedIsClean, Clean, DeleteDisk, At
    <3>3. \/ job'.img.id \in {job.img.id, 0} /\ job'.id \in {job.id, 0}
          \/ job.why = "recorded" /\ disk'.state = "none"
      BY <2>2 DEF AfterCleanup, Outcome, Goto, Idle, NoObject, NewObject, Applied, NoDisk
    <3> QED
      BY <3>1, <3>2, <3>3
  <2> QED
    BY <2>4, <2>5 DEF IdInv
<1>5. CASE DeleteImage
  <2>1. UNCHANGED <<disk, snap>> /\ (image' = image \/ image' = NoImage)
    BY <1>5 DEF DeleteImage
  <2>2. /\ job'.img.id \in {job.img.id, 0} /\ job'.id \in {job.id, 0} /\ job'.cur.id \in {job.cur.id, 0}
        /\ job'.pc \notin {"stop", "plainFinalize", "deleteDisk"}
    BY <1>5 DEF DeleteImage, Goto, Idle, NoObject, NewObject
  <2> QED
    BY <1>1, <2>1, <2>2
       DEF IdInv, IdsAreOld, NoImageYet, Importing, SnapshotComesFirst, RecordedIsClean, Recorded, Clean,
           SnapshotGoneFirst, NoImage
<1> QED
  BY <1>2, <1>3, <1>4, <1>5

LEMMA IdOxide ==
  ASSUME TypeOK, IdInv, Oxide \/ Publish \/ ImageDeleted \/ SnapshotTaken PROVE IdInv'
<1> USE DEF TypeOK, OxideTypeOK, Jobs, Objects
<1>1. UNCHANGED <<lastId, obj, cache, job, source>>
  BY DEF Oxide, OxideStep, DiskCreated, SnapshotMade, SnapshotReady, FinalizeDone, Publish, ImageDeleted,
         ImageDeletedOutside, SnapshotTaken, k8s, oxide
<1>2. CASE Oxide /\ SnapshotMade
  BY <1>1, <1>2 DEF SnapshotMade, IdInv, IdsAreOld, NoImageYet, Importing, SnapshotComesFirst,
                    RecordedIsClean, Recorded, Clean, SnapshotGoneFirst
<1>3. CASE Oxide /\ ~SnapshotMade
  <2>1. /\ UNCHANGED image /\ disk'.pending = disk.pending
        /\ disk.state = "none" => disk'.state = "none"
        /\ snap.state = "none" => snap'.state = "none"
    BY <1>3 DEF Oxide, OxideStep, DiskCreated, SnapshotReady, FinalizeDone
  <2> QED
    BY <1>1, <2>1 DEF IdInv, IdsAreOld, NoImageYet, Importing, SnapshotComesFirst, RecordedIsClean,
                      Recorded, Clean, SnapshotGoneFirst
<1>4. CASE Publish \/ ImageDeleted \/ SnapshotTaken
  <2>1. /\ UNCHANGED disk /\ (image' = image \/ image'.id = 0)
        /\ source = "url" => UNCHANGED snap
    BY <1>4 DEF Publish, ImageDeleted, ImageDeletedOutside, NoImage, SnapshotTaken, oxide
  <2> QED
    BY <1>1, <2>1 DEF IdInv, IdsAreOld, NoImageYet, Importing, SnapshotComesFirst, RecordedIsClean,
                      Recorded, Clean, SnapshotGoneFirst
<1> QED
  BY <1>2, <1>3, <1>4

LEMMA IdNext ==
  ASSUME TypeOK, HeldInv, IdInv, [Next]_vars PROVE IdInv'
BY IdKubernetes, IdLooks, IdDisk, IdImage, IdCleanup, IdOxide DEF Next, Step, Users

\* Once the image's ID is in the status, the import's disk and snapshot are gone, however
\* often the cleanup failed half way or the operator crashed before it
\* (image_controller.go:106).
THEOREM IdMeansCleanedUp == Spec => []IdRecordedAfterCleanup
<1>1. TypeOK /\ IdInv => IdRecordedAfterCleanup
  BY DEF IdInv, RecordedIsClean, Recorded, Clean, IdRecordedAfterCleanup, TypeOK, Objects
<1> QED
  BY <1>1, TypeCorrect, HeldInit, HeldNext, IdInit, IdNext, PTL DEF Spec
=============================================================================
