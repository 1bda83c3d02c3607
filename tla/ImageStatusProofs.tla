------------------------- MODULE ImageStatusProofs -------------------------
(***************************************************************************)
(* More proofs about the Image controller: what its status says of the     *)
(* image, what the image is made of, and that no live object is dropped.   *)
(***************************************************************************)
EXTENDS ImageImportProofs

-----------------------------------------------------------------------------
(* A live object is looked at again.                                       *)

\* The steps that go on to another step of the same reconcile.
GoesOn ==
  \/ ViewImage \/ ViewSnap \/ CreateImage \/ Promote
  \/ ViewDisk \/ DownloadFails \/ CreateDisk \/ StartWrite \/ WriteChunk
  \/ DownloadBreaks \/ WritesDone \/ StopWrite \/ FinalizeIntoSnapshot
  \/ Stop \/ PlainFinalize

LEMMA GoesOnWorking ==
  ASSUME TypeOK, GoesOn PROVE ~At("idle")'
<1> USE DEF TypeOK, Jobs, At
<1>1. CASE ViewImage
  BY <1>1 DEF ViewImage, Outcome, Goto, Found, Settled
<1>2. CASE ViewSnap
  BY <1>2 DEF ViewSnap, AfterViewSnap, Outcome, Goto
<1>3. CASE CreateImage
  BY <1>3 DEF CreateImage, Found, Settled, Outcome
<1>4. CASE Promote \/ DownloadFails \/ CreateDisk \/ FinalizeIntoSnapshot
  BY <1>4 DEF Promote, DownloadFails, CreateDisk, FinalizeIntoSnapshot, Outcome
<1>5. CASE ViewDisk
  BY <1>5 DEF ViewDisk, AfterViewDisk, Cleanup, Outcome, Goto
<1>6. CASE StartWrite
  BY <1>6 DEF StartWrite, Outcome
<1>7. CASE WriteChunk
  BY <1>7 DEF WriteChunk, WriteFails, Cleanup
<1>8. CASE DownloadBreaks
  BY <1>8 DEF DownloadBreaks, WriteFails, Cleanup
<1>9. CASE WritesDone \/ StopWrite
  BY <1>9 DEF WritesDone, StopWrite, WriteFails, Cleanup, Goto
<1>10. CASE Stop \/ PlainFinalize
  BY <1>10 DEF Stop, PlainFinalize, Goto
<1> QED
  BY <1>1, <1>2, <1>3, <1>4, <1>5, <1>6, <1>7, <1>8, <1>9, <1>10 DEF GoesOn

\* The steps of a deletion give up without asking for another reconcile; the object
\* they were read of is not live any more.
LEMMA GivesUpDeleting ==
  ASSUME TypeOK, HeldInv, DeleteSnap \/ DeleteDisk \/ DeleteImage, At("idle")'
  PROVE  obj.phase # "live"
<1> USE DEF TypeOK, Jobs, At
<1>1. Deleting
  <2>1. CASE DeleteSnap
    BY <2>1 DEF DeleteSnap, AfterCleanup, Settled, Outcome, Goto, HeldInv, ReasonGiven, Reasons, Deleting
  <2>2. CASE DeleteDisk
    BY <2>2 DEF DeleteDisk, AfterCleanup, Settled, Outcome, Goto, HeldInv, ReasonGiven, Reasons, Deleting
  <2>3. CASE DeleteImage
    BY <2>3 DEF DeleteImage, Deleting
  <2> QED
    BY <2>1, <2>2, <2>3
<1> QED
  BY <1>1 DEF HeldInv, DeletionWasRead, CacheLags

LEMMA StepRemembers ==
  ASSUME TypeOK, HeldInv, [Next]_vars, ~Users, Forgotten'
  PROVE  Forgotten \/ (At("patch") /\ job.res = "Failed")
<1> USE DEF Forgotten, Awaited
<1>1. CASE Reconcile
  <2>1. UNCHANGED <<obj, cache>> /\ cache \in Objects
    BY <1>1 DEF Reconcile, TypeOK
  <2>2. LeftAlone(cache)
    <3>1. CASE ~LeftAlone(cache)
      <4>1. FirstStep(cache) # "idle"
        BY <3>1 DEF FirstStep, DeletionStep
      <4> QED
        BY <1>1, <4>1 DEF Reconcile, Idle, At
    <3> QED
      BY <3>1
  <2> QED
    BY <2>1, <2>2 DEF LeftAlone, Changed, HeldInv, CacheLags
<1>2. CASE AddFinalizer
  <2>1. job' = [job EXCEPT !.pc = "viewImage", !.img = job'.img] \/ timer'
    BY <1>2 DEF AddFinalizer, Return, TypeOK, Jobs
  <2> QED
    BY <2>1 DEF TypeOK, Jobs, At
<1>3. CASE RemoveFinalizer
  <2>1. obj' = obj \/ obj'.phase = "absent"
    BY <1>3 DEF RemoveFinalizer, TypeOK, Objects
  <2>2. timer' \/ obj'.phase = "absent"
    <3>1. PICK o \in Outcomes :
            /\ obj' = IF Applied(o, ~Conflicts(job.img)) THEN [obj EXCEPT !.phase = "absent", !.fin = FALSE]
                      ELSE obj
            /\ Return(/\ ~Answered(o, ~Conflicts(job.img))
                      /\ ~(o = "ok" /\ obj.phase = "absent"))
      BY <1>3 DEF RemoveFinalizer
    <3>2. CASE Answered(o, ~Conflicts(job.img))
      BY <3>1, <3>2 DEF Answered, Applied, TypeOK, Objects
    <3>3. CASE ~Answered(o, ~Conflicts(job.img)) /\ obj.phase = "absent"
      BY <2>1, <3>3
    <3>4. CASE ~Answered(o, ~Conflicts(job.img)) /\ obj.phase # "absent"
      BY <3>1, <3>4 DEF Return
    <3> QED
      BY <3>2, <3>3, <3>4
  <2> QED
    BY <2>2
<1>4. CASE PatchStatus
  <2>1. obj'.phase = obj.phase
    BY <1>4 DEF PatchStatus, Patched, TypeOK, Objects
  <2>2. PICK o \in Outcomes :
          Return(/\ Requeues(job.res)
                 /\ obj.phase = "absent" /\ o = "ok" => job.res = "Error")
    BY <1>4 DEF PatchStatus
  <2>3. ~Requeues(job.res)
    BY <2>1, <2>2 DEF Return
  <2> QED
    BY <1>4, <2>3 DEF PatchStatus, Requeues
<1>5. CASE GoesOn
  BY <1>5, GoesOnWorking
<1>6. CASE DeleteSnap \/ DeleteDisk \/ DeleteImage
  <2>1. UNCHANGED obj
    BY <1>6 DEF DeleteSnap, DeleteDisk, DeleteImage, k8s
  <2> QED
    BY <1>6, <2>1, GivesUpDeleting DEF At
<1>7. CASE InformerSync
  BY <1>7 DEF InformerSync, Changed, At
<1>8. CASE TimerFires \/ Crash
  BY <1>8 DEF TimerFires, Crash
<1>9. CASE Oxide \/ UNCHANGED vars
  <2>1. UNCHANGED <<k8s, job>>
    BY <1>9 DEF Oxide, vars, k8s
  <2> QED
    BY <2>1 DEF k8s, At, Changed
<1> QED
  BY <1>1, <1>2, <1>3, <1>4, <1>5, <1>6, <1>7, <1>8, <1>9 DEF Next, Step, GoesOn

\* Whatever call fails and wherever the operator crashes, a live object that is not opted
\* out is queued, being reconciled, or about to be queued by a timer or an event, unless
\* its last outcome was one that no retry would change (helpers.go:57, image_controller.go:81).
THEOREM NothingForgotten == Spec => NeverForgotten
<1>1. TypeOK /\ HeldInv /\ [Next]_vars
      => [~Users /\ Forgotten' => Forgotten \/ (At("patch") /\ job.res = "Failed")]_vars
  BY StepRemembers
<1> QED
  BY <1>1, TypeCorrect, HeldInit, HeldNext, PTL DEF Spec, NeverForgotten

-----------------------------------------------------------------------------
(* What is observed has been done.                                         *)

CleansUp == job.pc \in {"deleteSnap", "stop", "plainFinalize", "deleteDisk"}

\* The image is in the silo, or not, as it was seen: unless it has gone since.
StillSo(id, silo) == image.id = id => image.silo = silo

\* Only a reconcile that has come to its end is ready.
ReadyAtTheEnd == job.res = "Ready" => At("promote") \/ At("patch")

\* The image that was found stays where it was found until it is moved, and nobody else
\* moves it: a reconcile that is ready has found it, or moved it, where it belongs.
SeenInv ==
  /\ CleansUp /\ job.why = "recorded" => job.cur.id # 0 /\ StillSo(job.cur.id, job.cur.silo)
  /\ At("promote") => job.cur.id # 0 /\ job.id = job.cur.id
  /\ At("patch") /\ job.res = "Ready" => job.id # 0 /\ StillSo(job.id, job.img.promote)

SettledInv == ReadyAtTheEnd /\ SeenInv

LEMMA SettledInit == Init => SettledInv
BY DEF Init, Idle, SettledInv, ReadyAtTheEnd, SeenInv, CleansUp, At

\* A step that ends the reconcile, or goes on to one that is neither a cleanup nor an end.
LEMMA SettledQuiet ==
  ASSUME TypeOK, SettledInv, job'.res # "Ready", job'.pc # "promote",
         ~CleansUp' \/ job'.why # "recorded"
  PROVE  SettledInv'
BY DEF SettledInv, ReadyAtTheEnd, SeenInv, At

\* Steps after which the image is where the reconcile takes it to be.
LEMMA SettledFound ==
  ASSUME TypeOK, SettledInv, job.res # "Ready",
         NEW cur, cur \in [id : Nat, silo : BOOLEAN], cur.id # 0, (StillSo(cur.id, cur.silo))',
         job' = Settled(cur) \/ job' = Found(cur)
  PROVE  SettledInv'
<1> USE DEF TypeOK, Jobs
<1>1. CASE job' = Settled(cur)
  BY <1>1 DEF Settled, SettledInv, ReadyAtTheEnd, SeenInv, StillSo, CleansUp, At
<1>2. CASE job' = [job EXCEPT !.pc = "deleteSnap", !.cur = cur, !.why = "recorded"]
  BY <1>2 DEF SettledInv, ReadyAtTheEnd, SeenInv, StillSo, CleansUp, At
<1> QED
  BY <1>1, <1>2 DEF Found

LEMMA SettledStarts ==
  ASSUME TypeOK, SettledInv, Reconcile \/ AddFinalizer \/ RemoveFinalizer \/ PatchStatus \/ Crash
  PROVE  SettledInv'
<1>1. CASE job' = Idle
  BY <1>1, SettledQuiet DEF Idle, CleansUp
<1>2. CASE Reconcile /\ job' # Idle
  <2>1. /\ job' = [Idle EXCEPT !.pc = FirstStep(cache), !.img = cache, !.id = cache.id,
                              !.why = IF cache.phase = "deleting" THEN "delete" ELSE "none"]
        /\ FirstStep(cache) # "promote"
    BY <1>2 DEF Reconcile, FirstStep, DeletionStep
  <2>2. job'.res = "Error" /\ job'.pc = FirstStep(cache) /\ job'.why \in {"delete", "none"}
    BY <2>1 DEF Idle
  <2> QED
    BY <2>1, <2>2, SettledQuiet
<1>3. CASE AddFinalizer /\ job' # Idle
  <2>1. job' = [job EXCEPT !.pc = "viewImage", !.img = obj'] /\ At("addFinalizer")
    BY <1>3, AddsFinalizer DEF AddFinalizer
  <2>2. job'.pc = "viewImage" /\ job'.res = job.res /\ job.res # "Ready"
    BY <2>1 DEF TypeOK, Jobs, SettledInv, ReadyAtTheEnd, At
  <2> QED
    BY <2>2, SettledQuiet DEF CleansUp
<1> QED
  BY <1>1, <1>2, <1>3 DEF RemoveFinalizer, PatchStatus, Return, Crash

\* Steps before the image is found.
LEMMA SettledImporting ==
  ASSUME TypeOK, SettledInv,
         \/ ViewSnap \/ ViewDisk \/ DownloadFails \/ CreateDisk \/ StartWrite \/ WriteChunk
         \/ DownloadBreaks \/ WritesDone \/ StopWrite \/ FinalizeIntoSnapshot
  PROVE  SettledInv'
<1> USE DEF TypeOK, Jobs
<1>1. job.res # "Ready"
  BY DEF ViewSnap, ViewDisk, DownloadFails, CreateDisk, StartWrite, WriteChunk, DownloadBreaks,
         WritesDone, StopWrite, FinalizeIntoSnapshot, SettledInv, ReadyAtTheEnd, At
<1>2. job'.res # "Ready" /\ job'.pc # "promote" /\ (~CleansUp' \/ job'.why # "recorded")
  <2> USE <1>1 DEF CleansUp, Outcome, Goto
  <2>1. CASE ViewSnap
    BY <2>1 DEF ViewSnap, AfterViewSnap
  <2>2. CASE ViewDisk
    BY <2>2 DEF ViewDisk, AfterViewDisk, Cleanup
  <2>3. CASE DownloadFails \/ CreateDisk \/ FinalizeIntoSnapshot
    BY <2>3 DEF DownloadFails, CreateDisk, FinalizeIntoSnapshot
  <2>4. CASE StartWrite
    BY <2>4 DEF StartWrite
  <2>5. CASE WriteChunk
    BY <2>5 DEF WriteChunk, WriteFails, Cleanup, At
  <2>6. CASE DownloadBreaks
    BY <2>6 DEF DownloadBreaks, WriteFails, Cleanup, At
  <2>7. CASE WritesDone \/ StopWrite
    BY <2>7 DEF WritesDone, StopWrite, WriteFails, Cleanup
  <2> QED
    BY <2>1, <2>2, <2>3, <2>4, <2>5, <2>6, <2>7
<1> QED
  BY <1>2, SettledQuiet

LEMMA SettledImage ==
  ASSUME TypeOK, IdInv, SettledInv, ViewImage \/ CreateImage \/ Promote
  PROVE  SettledInv'
<1> USE DEF TypeOK, OxideTypeOK, Jobs
<1>1. CASE \E res \in {"Error"} : job' = Outcome(res)
  BY <1>1, SettledQuiet DEF Outcome, CleansUp
<1>2. CASE ViewImage /\ job' = Goto("viewSnap")
  <2>1. job'.res # "Ready" /\ job'.pc = "viewSnap"
    BY <1>2 DEF Goto, ViewImage, SettledInv, ReadyAtTheEnd, At
  <2> QED
    BY <2>1, SettledQuiet DEF CleansUp
<1>3. CASE ViewImage /\ job' = Found(InOxide(image)) /\ image.id # 0
  <2>1. UNCHANGED image /\ job.res # "Ready" /\ InOxide(image) \in [id : Nat, silo : BOOLEAN]
    BY <1>3 DEF ViewImage, oxide, InOxide, SettledInv, ReadyAtTheEnd, At
  <2> QED
    BY <1>3, <2>1, SettledFound DEF InOxide, StillSo
<1>4. CASE CreateImage /\ job' = Found(InOxide(NewImage(snap.data))) /\ image' = NewImage(snap.data)
  <2> DEFINE cur == [id |-> lastId + 1, silo |-> FALSE]
  <2>1. job.res # "Ready" /\ job' = Found(cur)
    BY <1>4 DEF CreateImage, InOxide, NewImage, SettledInv, ReadyAtTheEnd, At
  <2>2. /\ cur \in [id : Nat, silo : BOOLEAN] /\ cur.id # 0
        /\ image'.silo = cur.silo
    BY <1>4 DEF NewImage
  <2> HIDE DEF cur
  <2> QED
    BY <2>1, <2>2, SettledFound DEF StillSo
<1>5. CASE Promote /\ job' = Outcome("Ready")
  <2>1. image.id = job.cur.id /\ image' = [image EXCEPT !.silo = job.img.promote]
    BY <1>5 DEF Promote, Outcome, Applied, Answered
  <2>2. job'.pc = "patch" /\ job'.id = job.id /\ job'.img = job.img
    BY <1>5 DEF Outcome
  <2>3. job.id = job.cur.id /\ job.cur.id # 0
    BY <1>5 DEF Promote, SettledInv, SeenInv
  <2>4. image'.silo = job.img.promote
    BY <2>1
  <2> QED
    BY <2>2, <2>3, <2>4 DEF SettledInv, ReadyAtTheEnd, SeenInv, StillSo, CleansUp, At
<1> QED
  BY <1>1, <1>2, <1>3, <1>4, <1>5 DEF ViewImage, CreateImage, Promote, Answered, Applied

LEMMA SettledCleanup ==
  ASSUME TypeOK, HeldInv, SettledInv, DeleteSnap \/ Stop \/ PlainFinalize \/ DeleteDisk \/ DeleteImage
  PROVE  SettledInv'
<1> USE DEF TypeOK, Jobs
<1>1. job.res # "Ready"
  BY DEF DeleteSnap, Stop, PlainFinalize, DeleteDisk, DeleteImage, SettledInv, ReadyAtTheEnd, At
<1>2. CASE DeleteImage
  <2>1. job' = Idle \/ job' = Goto("removeFinalizer")
    BY <1>2 DEF DeleteImage
  <2> QED
    BY <1>1, <2>1, SettledQuiet DEF Idle, Goto, CleansUp
<1>3. CASE ~DeleteImage
  <2>1. UNCHANGED image /\ CleansUp
    BY <1>3 DEF DeleteSnap, Stop, PlainFinalize, DeleteDisk, CleansUp, At
  <2>2. CASE \E pc \in {"stop", "plainFinalize", "deleteDisk", "deleteImage"} : job' = Goto(pc)
    BY <1>1, <2>1, <2>2 DEF Goto, CleansUp, SettledInv, ReadyAtTheEnd, SeenInv, StillSo, At
  <2>3. CASE \E res \in {"Progressing", "Error", job.res} : job' = Outcome(res)
    BY <1>1, <2>3, SettledQuiet DEF Outcome, CleansUp
  <2>4. CASE job' = Idle
    BY <2>4, SettledQuiet DEF Idle, CleansUp
  <2>5. CASE job.why = "recorded" /\ job' = Settled(job.cur)
    BY <1>1, <2>1, <2>5, SettledFound DEF SettledInv, SeenInv, StillSo
  <2>6. CASE DeleteSnap \/ DeleteDisk
    <3>1. \E done \in BOOLEAN : job' = AfterCleanup(done) \/ job' = Goto("stop")
      BY <2>6 DEF DeleteSnap, DeleteDisk
    <3> QED
      BY <3>1, <2>2, <2>3, <2>4, <2>5 DEF AfterCleanup
  <2> QED
    BY <1>3, <2>2, <2>6 DEF Stop, PlainFinalize
<1> QED
  BY <1>2, <1>3

LEMMA SettledSurroundings ==
  ASSUME TypeOK, IdInv, SettledInv, InformerSync \/ TimerFires \/ Oxide \/ Users \/ UNCHANGED vars
  PROVE  SettledInv'
<1>1. UNCHANGED job /\ (image' = image \/ image' = NoImage)
  BY DEF InformerSync, TimerFires, Oxide, OxideStep, DiskCreated, SnapshotMade, SnapshotReady,
         FinalizeDone, Users, UserEdits, UserDeletes, Publish, ImageDeleted, ImageDeletedOutside,
         SnapshotTaken, oxide, vars
<1> QED
  BY <1>1 DEF SettledInv, ReadyAtTheEnd, SeenInv, StillSo, CleansUp, NoImage, At

LEMMA SettledNext ==
  ASSUME TypeOK, HeldInv, IdInv, SettledInv, [Next]_vars PROVE SettledInv'
BY SettledStarts, SettledImporting, SettledImage, SettledCleanup, SettledSurroundings DEF Next, Step

\* Only the status patch of a reconcile that is ready moves the observed generation.
LEMMA ObservesReady ==
  ASSUME TypeOK, HeldInv, [Next]_vars, obj'.obs # obj.obs
  PROVE  At("patch") /\ job.res = "Ready" /\ obj'.obs = job.img.gen /\ UNCHANGED image
<1> USE DEF TypeOK, Objects
<1>1. CASE PatchStatus
  BY <1>1 DEF PatchStatus, Patched, NewStatus, Merged, oxide
<1>2. CASE AddFinalizer
  BY <1>2, AddsFinalizer
<1>3. CASE RemoveFinalizer
  BY <1>3 DEF RemoveFinalizer
<1>4. CASE UserEdits
  <2>1. PICK new \in {[obj EXCEPT !.sha = s, !.gen = @ + 1] : s \in Shas \ {obj.sha}}
               \union {[obj EXCEPT !.promote = ~@, !.gen = @ + 1],
                       [obj EXCEPT !.prot = ~@, !.gen = @ + 1],
                       [obj EXCEPT !.disabled = ~@]} : obj' = new
    BY <1>4 DEF UserEdits
  <2> QED
    BY <2>1
<1>5. CASE UserDeletes
  BY <1>5 DEF UserDeletes
<1>6. CASE \/ Reconcile \/ GoesOn \/ DeleteSnap \/ DeleteDisk \/ DeleteImage
           \/ InformerSync \/ TimerFires \/ Oxide \/ Crash
           \/ Publish \/ ImageDeleted \/ SnapshotTaken \/ UNCHANGED vars
  <2>1. UNCHANGED obj
    BY <1>6 DEF Reconcile, GoesOn, ViewImage, ViewSnap, CreateImage, Promote, ViewDisk, DownloadFails,
         CreateDisk, StartWrite, WriteChunk, DownloadBreaks, WritesDone, StopWrite,
         FinalizeIntoSnapshot, Stop, PlainFinalize, DeleteSnap, DeleteDisk, DeleteImage,
         InformerSync, TimerFires, Oxide, Crash, Publish, ImageDeleted, SnapshotTaken, vars, k8s
  <2> QED
    BY <2>1
<1> QED
  BY <1>1, <1>2, <1>3, <1>4, <1>5, <1>6 DEF Next, Step, GoesOn, Users

\* A generation is only reported as observed once its spec.promote is what the image
\* the status records looks like, however stale the copy the reconcile worked on and
\* however late its patch (image_controller.go:84, 112).
THEOREM ObservedMeansDone == Spec => ObservedIsDone
<1>1. TypeOK /\ HeldInv /\ SettledInv /\ [Next]_vars
      => [obj'.obs # obj.obs =>
            obj'.obs = job.img.gen /\ (image.id = job.id => image.silo = job.img.promote)]_vars
  BY ObservesReady DEF SettledInv, SeenInv, StillSo
<1> QED
  BY <1>1, TypeCorrect, HeldInit, HeldNext, IdInit, IdNext, SettledInit, SettledNext, PTL
     DEF Spec, ObservedIsDone

-----------------------------------------------------------------------------
(* What an image is made of.                                               *)

HoldsAFile(data) == \E f \in Served : data = Padded(f, Len(data))

\* What was verified on the disk goes into the snapshot, and from there into the image:
\* nothing writes to a disk that is about to become a snapshot.
ServedInv ==
  source = "url" =>
    /\ disk.pending => disk.state = "finalizing" /\ HoldsAFile(disk.data)
    /\ snap.state # "none" => HoldsAFile(snap.data)
    /\ image.id # 0 => HoldsAFile(image.data)

LEMMA ServedInit == Init => ServedInv
BY DEF Init, OxideInit, NoDisk, NoSnap, NoImage, ServedInv

\* A disk that is about to become a snapshot was verified in this step, or is left alone.
LEMMA PendingStep ==
  ASSUME TypeOK, FileInv, ServedInv, [Next]_vars, source = "url", disk'.pending
  PROVE  disk'.state = "finalizing" /\ HoldsAFile(disk'.data)
<1> USE DEF TypeOK, OxideTypeOK
<1>1. CASE FinalizeIntoSnapshot
  <2>1. \/ disk' = disk
        \/ ~disk.pending /\ disk' = SnapshottingDisk
        \/ disk.pending /\ disk.state = "import_ready"
    BY <1>1 DEF FinalizeIntoSnapshot, Applied, CanFinalize
  <2>2. CASE ~disk.pending /\ disk' = SnapshottingDisk
    <3>1. disk.data = Padded(Expected, Len(disk.data))
      BY <2>2, SnapshotStep
    <3>2. Expected \in Served
      <4>1. job.body \in Served /\ Verified
        BY <1>1 DEF FinalizeIntoSnapshot, FileInv, BodyInv, WrittenInv, Writing, Written, At
      <4> QED
        BY <4>1 DEF Expected, Verified
    <3>3. disk'.data = disk.data /\ disk'.state = "finalizing"
      BY <2>2 DEF SnapshottingDisk
    <3> QED
      BY <3>1, <3>2, <3>3 DEF HoldsAFile
  <2> QED
    BY <2>1, <2>2 DEF ServedInv
<1>2. CASE \/ CreateDisk \/ StartWrite \/ WriteChunk \/ StopWrite \/ Stop \/ PlainFinalize
           \/ DeleteDisk
  <2>1. \/ disk' = disk \/ ~disk'.pending
        \/ disk.pending /\ disk.state # "finalizing"
    BY <1>2 DEF CreateDisk, StartWrite, WriteChunk, StopWrite, Stop, PlainFinalize, DeleteDisk, NewDisk,
                StartedDisk, WrittenDisk, StoppedDisk, PlainFinalDisk, NoDisk, Applied, CanStart,
                CanWrite, CanStop, CanFinalize, CanDeleteDisk
  <2> QED
    BY <2>1 DEF ServedInv
<1>3. CASE Oxide
  <2>1. \/ disk' = disk \/ ~disk'.pending
        \/ disk.pending /\ disk.state # "finalizing"
    BY <1>3 DEF Oxide, OxideStep, DiskCreated, SnapshotMade, SnapshotReady, FinalizeDone
  <2> QED
    BY <2>1 DEF ServedInv
<1>4. CASE \/ Reconcile \/ AddFinalizer \/ RemoveFinalizer \/ PatchStatus
           \/ ViewImage \/ ViewSnap \/ CreateImage \/ Promote \/ ViewDisk \/ DownloadFails
           \/ DownloadBreaks \/ WritesDone \/ DeleteSnap \/ DeleteImage
           \/ InformerSync \/ TimerFires \/ Crash \/ Users \/ UNCHANGED vars
  <2>1. disk' = disk
    BY <1>4 DEF Reconcile, AddFinalizer, RemoveFinalizer, PatchStatus, ViewImage, ViewSnap, CreateImage,
         Promote, ViewDisk, DownloadFails, DownloadBreaks, WritesDone, DeleteSnap, DeleteImage,
         InformerSync, TimerFires, Crash, Users, UserEdits, UserDeletes, Publish, ImageDeleted,
         ImageDeletedOutside, SnapshotTaken, oxide, vars
  <2> QED
    BY <2>1 DEF ServedInv
<1> QED
  BY <1>1, <1>2, <1>3, <1>4 DEF Next, Step

\* The snapshot comes out of a verified disk, the image out of the snapshot.
LEMMA ServedStep ==
  ASSUME TypeOK, ServedInv, [Next]_vars, source = "url"
  PROVE  /\ snap'.state # "none" => HoldsAFile(snap'.data)
         /\ image'.id # 0 => HoldsAFile(image'.data)
<1> USE DEF TypeOK, OxideTypeOK
<1>1. CASE CreateImage
  <2>1. UNCHANGED snap
    BY <1>1 DEF CreateImage
  <2>2. image' = image \/ (image' = NewImage(snap.data) /\ snap.state # "none")
    BY <1>1 DEF CreateImage, Applied
  <2> QED
    BY <2>1, <2>2 DEF NewImage, ServedInv
<1>2. CASE Promote
  BY <1>2 DEF Promote, ServedInv
<1>3. CASE DeleteSnap \/ DeleteImage
  <2>1. (snap' = snap \/ snap' = NoSnap) /\ (image' = image \/ image' = NoImage)
    BY <1>3 DEF DeleteSnap, DeleteImage
  <2> QED
    BY <2>1 DEF NoSnap, NoImage, ServedInv
<1>4. CASE Oxide
  <2>1. UNCHANGED image
    BY <1>4 DEF Oxide, OxideStep, DiskCreated, SnapshotMade, SnapshotReady, FinalizeDone
  <2>2. \/ snap' = snap
        \/ snap.state # "none" /\ snap'.data = snap.data
        \/ disk.pending /\ snap'.data = disk.data
    BY <1>4 DEF Oxide, OxideStep, DiskCreated, SnapshotMade, SnapshotReady, FinalizeDone
  <2> QED
    BY <2>1, <2>2 DEF ServedInv
<1>5. CASE Users
  <2>1. UNCHANGED snap /\ (image' = image \/ image' = NoImage)
    BY <1>5 DEF Users, UserEdits, UserDeletes, Publish, ImageDeleted, ImageDeletedOutside, SnapshotTaken,
         oxide
  <2> QED
    BY <2>1 DEF NoImage, ServedInv
<1>6. CASE \/ Reconcile \/ AddFinalizer \/ RemoveFinalizer \/ PatchStatus
           \/ ViewImage \/ ViewSnap \/ ViewDisk \/ DownloadFails \/ CreateDisk \/ StartWrite
           \/ WriteChunk \/ DownloadBreaks \/ WritesDone \/ StopWrite \/ FinalizeIntoSnapshot
           \/ Stop \/ PlainFinalize \/ DeleteDisk
           \/ InformerSync \/ TimerFires \/ Crash \/ UNCHANGED vars
  <2>1. UNCHANGED <<snap, image>>
    BY <1>6 DEF Reconcile, AddFinalizer, RemoveFinalizer, PatchStatus, ViewImage, ViewSnap, ViewDisk,
         DownloadFails, CreateDisk, StartWrite, WriteChunk, DownloadBreaks, WritesDone, StopWrite,
         FinalizeIntoSnapshot, Stop, PlainFinalize, DeleteDisk, InformerSync, TimerFires, Crash,
         oxide, vars
  <2> QED
    BY <2>1 DEF ServedInv
<1> QED
  BY <1>1, <1>2, <1>3, <1>4, <1>5, <1>6 DEF Next, Step

LEMMA ServedNext ==
  ASSUME TypeOK, FileInv, ServedInv, [Next]_vars PROVE ServedInv'
<1>1. source' = source
  BY DEF Next, Step, Reconcile, AddFinalizer, RemoveFinalizer, PatchStatus, ViewImage, ViewSnap,
         CreateImage, Promote, ViewDisk, DownloadFails, CreateDisk, StartWrite, WriteChunk,
         DownloadBreaks, WritesDone, StopWrite, FinalizeIntoSnapshot, DeleteSnap, Stop, PlainFinalize,
         DeleteDisk, DeleteImage, InformerSync, TimerFires, Oxide, Crash, Users, UserEdits,
         UserDeletes, Publish, ImageDeleted, SnapshotTaken, vars
<1> QED
  BY <1>1, PendingStep, ServedStep DEF ServedInv, HoldsAFile

\* As long as every file a url serves has its zero chunks in the same places, and no
\* download ends early unnoticed, an image holds one file its url has served, whole and
\* padded with zeros, whatever the calls, the crashes and the earlier attempts left on the
\* disk (image_controller.go:230, 237, 243).
THEOREM ImageHoldsAFile ==
  ASSUME SameZeros, "truncate" \notin DownloadFaults
  PROVE  Spec => []ImageIsAServedFile
<1>1. ServedInv => ImageIsAServedFile
  BY DEF ServedInv, HoldsAFile, ImageIsAServedFile
<1> QED
  BY <1>1, TypeCorrect, FileInit, FileNext, ServedInit, ServedNext, PTL DEF Spec
=============================================================================
