---------------------------- MODULE ImageImport ----------------------------
(***************************************************************************)
(* The Image controller: Reconcile in image_controller.go, call by call,   *)
(* for one Image object, against the API server, its informer cache, the   *)
(* work queue and Oxide.                                                   *)
(*                                                                         *)
(*  - Every call may succeed ("ok"), take effect and report an error       *)
(*    ("lost"), or do nothing and report an error ("refused").             *)
(*  - The operator may crash between any two calls.                        *)
(*  - A file stands for its own digest: spec.sha256 is a file or NoFile.   *)
(*  - An object's content stands for its resourceVersion.                  *)
(*  - One worker reconciles (MaxConcurrentReconciles: 1); delays (10s,     *)
(*    10min, backoff) are a timer that fires at any time.                  *)
(***************************************************************************)
EXTENDS OxideImages

CONSTANTS
  Sources,         \* what an Image may be made from
  Files,           \* the files a url may serve or a sha256 may name
  Served,          \* the files this url serves
  NoFile,          \* spec.sha256 is not set
  Shas,            \* values of spec.sha256
  ChunksPerGiB,    \* chunks in a GiB: disk sizes are whole GiB
  DownloadFaults,  \* ways a download may fail
  MaxFaults,       \* bound: failed calls, failed downloads and crashes
  MaxEdits         \* bound: what users and other Oxide clients do

ASSUME SourcesAssumption == Sources \subseteq {"url", "snapshot"}
ASSUME FilesAssumption ==
  /\ Files \subseteq Seq(Nat)
  /\ Served \subseteq Files
  /\ NoFile \notin Files
  /\ Shas \subseteq Files \union {NoFile}
ASSUME BoundsAssumption ==
  /\ ChunksPerGiB \in Nat \ {0}
  /\ DownloadFaults \subseteq {"retry", "reject", "truncate"}
  /\ MaxFaults \in Nat
  /\ MaxEdits \in Nat

VARIABLES
  obj,     \* the Image at the API server
  cache,   \* the operator's informer cache of it
  queued,  \* the Image's key is in the work queue
  timer,   \* the key will be added again (RequeueAfter or backoff)
  job,     \* the local variables of the running Reconcile
  source,  \* which of spec.url and spec.snapshot is set (immutable)
  url,     \* the file the url serves now
  faults, edits

k8s  == <<obj, cache, queued, timer>>
vars == <<disk, snap, image, lastId, obj, cache, queued, timer, job, source, url, faults, edits>>

Outcomes == {"ok", "lost", "refused"}
Results  == {"Ready", "Progressing", "Error", "Failed"}
Phases   == {"live", "deleting", "absent"}

\* fin: our finalizer; ready: the Ready condition's reason; id, ready, obs: status.
Objects ==
  [phase : Phases, fin : BOOLEAN, disabled : BOOLEAN, sha : Files \union {NoFile},
   promote : BOOLEAN, prot : BOOLEAN, gen : Nat,
   id : Nat, ready : Results \union {"Unset"}, obs : Nat]

NewObject(sha, promote, prot) ==
  [phase |-> "live", fin |-> FALSE, disabled |-> FALSE, sha |-> sha,
   promote |-> promote, prot |-> prot, gen |-> 1, id |-> 0, ready |-> "Unset", obs |-> 0]

NoObject == [NewObject(NoFile, FALSE, FALSE) EXCEPT !.phase = "absent"]

Steps == {"idle", "addFinalizer", "viewImage", "viewSnap", "viewDisk", "createDisk",
          "startWrite", "writeChunks", "stopWrite", "finalize", "createImage",
          "deleteSnap", "stop", "plainFinalize", "deleteDisk", "promote",
          "deleteImage", "removeFinalizer", "patch"}

\* Why the import is being cleaned up, which decides what follows the cleanup.
Reasons == {"none", "restart", "failed", "recorded", "delete"}

Idle ==
  [pc |-> "idle", img |-> NoObject, body |-> <<>>, off |-> 0,
   cur |-> [id |-> 0, silo |-> FALSE], id |-> 0, why |-> "none", res |-> "Error"]

Jobs ==
  [pc : Steps, img : Objects, body : Chunks, off : Nat,
   cur : [id : Nat, silo : BOOLEAN], id : Nat, why : Reasons, res : Results]

Init ==
  /\ OxideInit
  /\ \E sha \in Shas, promote, prot \in BOOLEAN : obj = NewObject(sha, promote, prot)
  /\ cache = obj
  /\ queued = TRUE
  /\ timer = FALSE
  /\ job = Idle
  /\ source \in Sources
  /\ url \in Served
  /\ faults = 0
  /\ edits = 0

-----------------------------------------------------------------------------
(* Calls and returns.                                                      *)

At(pc) == job.pc = pc
Goto(pc) == [job EXCEPT !.pc = pc]

Fault == faults < MaxFaults /\ faults' = faults + 1

\* A call that ends in o.
Call(o) == IF o = "ok" THEN UNCHANGED faults ELSE Fault

Applied(o, can) == can /\ o # "refused"   \* the call took effect
Answered(o, can) == can /\ o = "ok"       \* and the operator knows

\* Return from Reconcile.
Return(again) ==
  /\ job' = Idle
  /\ timer' = (timer \/ again)
  /\ UNCHANGED queued

\* handleImageOperations returns: setReady, then the status patch.
Outcome(res) == [job EXCEPT !.pc = "patch", !.res = res]

\* Mutant: waiting for Oxide is left to the informer.
RequeuesErrors(res) == res \notin {"Failed", "Progressing"}

Requeues(res) == res # "Failed"

-----------------------------------------------------------------------------
(* Reconcile: the object, its finalizer and its status.                    *)

\* Reconcile returns at once: the object is gone, opted out, or ours no more.
LeftAlone(img) ==
  \/ img.phase = "absent"
  \/ img.disabled
  \/ img.phase = "deleting" /\ ~img.fin

DeletionStep(img) ==
  IF img.prot THEN "removeFinalizer"
  ELSE IF source = "url" THEN "deleteSnap" ELSE "deleteImage"

FirstStep(img) ==
  IF LeftAlone(img) THEN "idle"
  ELSE IF img.phase = "deleting" THEN DeletionStep(img)
  ELSE IF img.fin THEN "viewImage" ELSE "addFinalizer"

Reconcile ==
  /\ At("idle") /\ queued
  /\ queued' = FALSE
  /\ job' = IF FirstStep(cache) = "idle" THEN Idle
            ELSE [Idle EXCEPT !.pc = FirstStep(cache), !.img = cache, !.id = cache.id,
                              !.why = IF cache.phase = "deleting" THEN "delete" ELSE "none"]
  /\ UNCHANGED <<oxide, obj, cache, timer, source, url, faults, edits>>

\* Mutant: an Update that carries no resourceVersion.
ConflictsNever(img) == FALSE

\* The API server refuses an Update of anything but the current object.
Conflicts(img) == img # obj

AddFinalizer ==
  /\ At("addFinalizer")
  /\ \E o \in Outcomes :
       /\ Call(o)
       /\ LET can == ~Conflicts(job.img)
              new == [job.img EXCEPT !.fin = TRUE]
          IN /\ obj' = IF Applied(o, can) THEN new ELSE obj
             /\ IF Answered(o, can)
                THEN /\ job' = [job EXCEPT !.pc = "viewImage", !.img = new]
                     /\ UNCHANGED <<queued, timer>>
                ELSE Return(TRUE)
  /\ UNCHANGED <<oxide, cache, source, url, edits>>

RemoveFinalizer ==
  /\ At("removeFinalizer")
  /\ \E o \in Outcomes :
       /\ Call(o)
       /\ LET can == ~Conflicts(job.img)
          IN /\ obj' = IF Applied(o, can) THEN [obj EXCEPT !.phase = "absent", !.fin = FALSE]
                       ELSE obj
             /\ Return(~Answered(o, can) /\ ~(o = "ok" /\ obj.phase = "absent"))
  /\ UNCHANGED <<oxide, cache, source, url, edits>>

\* Mutant: observedGeneration is read from the object after the reconcile.
NewStatusLate ==
  [id |-> job.id, ready |-> job.res,
   obs |-> IF job.res = "Ready" THEN obj.gen ELSE job.img.obs]

\* The status this reconcile leaves on its copy of the object.
NewStatus ==
  [id |-> job.id, ready |-> job.res,
   obs |-> IF job.res = "Ready" THEN job.img.gen ELSE job.img.obs]

\* A merge patch carries the fields that differ from the copy that was read.
Merged(new, old, now) == IF new # old THEN new ELSE now

Patched ==
  [obj EXCEPT !.id    = Merged(NewStatus.id, job.img.id, @),
              !.ready = Merged(NewStatus.ready, job.img.ready, @),
              !.obs   = Merged(NewStatus.obs, job.img.obs, @)]

PatchStatus ==
  /\ At("patch")
  /\ \E o \in Outcomes :
       /\ Call(o)
       /\ obj' = IF Applied(o, obj.phase # "absent") THEN Patched ELSE obj
       \* NotFound is ignored, and hides a nil or progressing outcome's requeue.
       /\ Return(/\ Requeues(job.res)
                 /\ obj.phase = "absent" /\ o = "ok" => job.res = "Error")
  /\ UNCHANGED <<oxide, cache, source, url, edits>>

-----------------------------------------------------------------------------
(* The image and its import snapshot (handleImageOperations, createImage). *)

Cleanup(why) == [job EXCEPT !.pc = "stop", !.why = why]

\* Mutant: the ID is recorded before the check, so it never differs.
ImportNeverDone(cur) == cur.id # cur.id

\* The image's ID is not the recorded one: its import has just finished.
ImportJustDone(cur) == cur.id # job.img.id

\* The image is as it should be, or is moved between its project and the silo.
Settled(cur) ==
  [job EXCEPT !.cur = cur, !.id = cur.id, !.res = "Ready",
              !.pc = IF cur.silo = job.img.promote THEN "patch" ELSE "promote"]

Found(cur) ==
  IF ImportJustDone(cur) /\ source = "url"
  THEN [job EXCEPT !.pc = "deleteSnap", !.cur = cur, !.why = "recorded"]
  ELSE Settled(cur)

InOxide(i) == [id |-> i.id, silo |-> i.silo]

ViewImage ==
  /\ At("viewImage")
  /\ \E o \in {"ok", "refused"} :
       /\ Call(o)
       /\ job' = IF o = "refused" THEN Outcome("Error")
                 ELSE IF image.id = 0 THEN Goto("viewSnap")
                 ELSE Found(InOxide(image))
  /\ UNCHANGED <<oxide, k8s, source, url, edits>>

AfterViewSnap ==
  CASE snap.state = "none" /\ source = "url"  -> Goto("viewDisk")
    [] snap.state = "none" /\ source # "url"  -> Outcome("Error")
    [] snap.state = "creating"                -> Outcome("Progressing")
    [] OTHER                                  -> Goto("createImage")

ViewSnap ==
  /\ At("viewSnap")
  /\ \E o \in {"ok", "refused"} :
       /\ Call(o)
       /\ job' = IF o = "ok" THEN AfterViewSnap ELSE Outcome("Error")
  /\ UNCHANGED <<oxide, k8s, source, url, edits>>

CreateImage ==
  /\ At("createImage")
  /\ \E o \in Outcomes :
       /\ Call(o)
       /\ LET can == image.id = 0 /\ snap.state = "ready"
          IN /\ IF Applied(o, can)
                THEN image' = NewImage(snap.data) /\ lastId' = lastId + 1
                ELSE UNCHANGED <<image, lastId>>
             /\ job' = IF Answered(o, can) THEN Found(InOxide(NewImage(snap.data)))
                       ELSE Outcome("Error")
  /\ UNCHANGED <<disk, snap, k8s, source, url, edits>>

\* ImagePromote or ImageDemote.
Promote ==
  /\ At("promote")
  /\ \E o \in Outcomes :
       /\ Call(o)
       /\ LET can == image.id = job.cur.id
          IN /\ image' = IF Applied(o, can) THEN [image EXCEPT !.silo = job.img.promote] ELSE image
             /\ job' = Outcome(IF Answered(o, can) THEN "Ready" ELSE "Error")
  /\ UNCHANGED <<disk, snap, lastId, k8s, source, url, edits>>

-----------------------------------------------------------------------------
(* The import disk (importDisk, createImportDisk, writeDisk).              *)

\* Mutant: a disk that is being written is left to its writer, now gone.
AfterViewDiskWaits ==
  CASE disk.state = "none"                        -> Goto("createDisk")
    [] disk.state = "import_ready"                -> Goto("startWrite")
    [] disk.state = "detached"                    -> Cleanup("restart")
    [] disk.state \in {"importing", "creating", "finalizing"} -> Outcome("Progressing")
    [] OTHER                                      -> Outcome("Error")

\* Where an import goes on from the state its disk is in.
AfterViewDisk ==
  CASE disk.state = "none"                        -> Goto("createDisk")
    [] disk.state = "import_ready"                -> Goto("startWrite")
    [] disk.state \in {"importing", "detached"}   -> Cleanup("restart")
    [] disk.state \in {"creating", "finalizing"}  -> Outcome("Progressing")
    [] OTHER                                      -> Outcome("Error")

ViewDisk ==
  /\ At("viewDisk")
  /\ \E o \in {"ok", "refused"} :
       /\ Call(o)
       /\ job' = IF o = "ok" THEN AfterViewDisk ELSE Outcome("Error")
  /\ UNCHANGED <<oxide, k8s, source, url, edits>>

\* No response or a retryable status, or one that won't fix itself.
DownloadFails ==
  /\ At("createDisk") \/ At("startWrite")
  /\ Fault
  /\ \/ "retry" \in DownloadFaults /\ job' = Outcome("Error")
     \/ "reject" \in DownloadFaults /\ job' = Outcome("Failed")
  /\ UNCHANGED <<oxide, k8s, source, url, edits>>

WholeGiB(n) == ((n + ChunksPerGiB - 1) \div ChunksPerGiB) * ChunksPerGiB
DiskSize(n) == IF WholeGiB(n) < ChunksPerGiB THEN ChunksPerGiB ELSE WholeGiB(n)

CreateDisk ==
  /\ At("createDisk")
  /\ \E o \in Outcomes :
       /\ Call(o)
       /\ LET can == disk.state = "none"
          IN /\ disk' = IF Applied(o, can) THEN NewDisk(DiskSize(Len(url))) ELSE disk
             /\ job' = Outcome(IF Answered(o, can) THEN "Progressing" ELSE "Error")
  /\ UNCHANGED <<snap, image, lastId, k8s, source, url, edits>>

\* Mutant: the size is checked with one chunk to spare.
FitsAlmost(file) == Len(file) <= Len(disk.data) + 1

Fits(file) == Len(file) <= Len(disk.data)

\* The whole download starts here: what the url serves later does not change it.
StartWrite ==
  /\ At("startWrite")
  /\ IF ~Fits(url)
     THEN job' = Outcome("Error") /\ UNCHANGED <<disk, faults>>
     ELSE \E o \in Outcomes :
            /\ Call(o)
            /\ disk' = IF Applied(o, CanStart) THEN StartedDisk ELSE disk
            /\ job' = IF Answered(o, CanStart)
                      THEN [job EXCEPT !.pc = "writeChunks", !.body = url, !.off = 0]
                      ELSE Outcome("Error")
  /\ UNCHANGED <<snap, image, lastId, k8s, source, url, edits>>

\* Mutant: a write that fails ends the file.
WriteFailsQuietly(res) == Goto("stopWrite")

\* A failed write is cleaned up first and returned after it.
WriteFails(res) == [Cleanup("failed") EXCEPT !.res = res]

Skipped(chunk) == chunk = 0

WriteChunk ==
  /\ At("writeChunks") /\ job.off < Len(job.body)
  /\ LET chunk == job.body[job.off + 1]
         next  == [job EXCEPT !.off = @ + 1]
     IN IF Skipped(chunk)
        THEN job' = next /\ UNCHANGED <<disk, faults>>
        ELSE \E o \in Outcomes :
               /\ Call(o)
               /\ disk' = IF Applied(o, CanWrite) THEN WrittenDisk(job.off + 1, chunk) ELSE disk
               /\ job' = IF Answered(o, CanWrite) THEN next ELSE WriteFails("Error")
  /\ UNCHANGED <<snap, image, lastId, k8s, source, url, edits>>

\* The connection breaks.  net/http reports a body shorter than its length as
\* io.ErrUnexpectedEOF, which writeChunks takes for the end of the file.
DownloadBreaks ==
  /\ At("writeChunks") /\ job.off < Len(job.body)
  /\ Fault
  /\ \/ "truncate" \in DownloadFaults /\ job' = [job EXCEPT !.body = SubSeq(@, 1, job.off)]
     \/ "retry" \in DownloadFaults /\ job' = WriteFails("Error")
  /\ UNCHANGED <<oxide, k8s, source, url, edits>>

\* Mutant: the checksum is compared with itself.
VerifiedAlways == job.img.sha = job.img.sha

Verified == job.img.sha \in {NoFile, job.body}

WritesDone ==
  /\ At("writeChunks") /\ job.off = Len(job.body)
  /\ job' = IF Verified THEN Goto("stopWrite") ELSE WriteFails("Failed")
  /\ UNCHANGED <<oxide, k8s, source, url, faults, edits>>

StopWrite ==
  /\ At("stopWrite")
  /\ \E o \in Outcomes :
       /\ Call(o)
       /\ disk' = IF Applied(o, CanStop) THEN StoppedDisk ELSE disk
       /\ job' = IF Answered(o, CanStop) THEN Goto("finalize") ELSE WriteFails("Error")
  /\ UNCHANGED <<snap, image, lastId, k8s, source, url, edits>>

\* Unlike the calls before it, a failure here returns without a cleanup.
FinalizeIntoSnapshot ==
  /\ At("finalize")
  /\ \E o \in Outcomes :
       /\ Call(o)
       /\ LET can == CanFinalize /\ snap.state = "none"
          IN /\ disk' = IF Applied(o, can) THEN SnapshottingDisk ELSE disk
             /\ job' = Outcome(IF Answered(o, can) THEN "Progressing" ELSE "Error")
  /\ UNCHANGED <<snap, image, lastId, k8s, source, url, edits>>

-----------------------------------------------------------------------------
(* Cleaning an import up (deleteImport, deleteImportDisk), for four reasons.*)

\* The rest of the reconcile once the cleanup has succeeded or failed.
AfterCleanup(done) ==
  CASE job.why = "restart"           -> Outcome(IF done THEN "Progressing" ELSE "Error")
    [] job.why = "failed"            -> Outcome(job.res)
    [] job.why = "recorded" /\ done  -> Settled(job.cur)
    [] job.why = "recorded" /\ ~done -> Outcome("Error")
    [] OTHER                         -> IF done THEN Goto("deleteImage") ELSE Idle

\* AfterCleanup never asks for a requeue: handleDelete's errors are terminal.
DeleteSnap ==
  /\ At("deleteSnap")
  /\ \E o \in Outcomes :
       /\ Call(o)
       /\ snap' = IF Applied(o, CanDeleteSnap) THEN NoSnap ELSE snap
       /\ job' = IF o = "ok" /\ (CanDeleteSnap \/ snap.state = "none") THEN Goto("stop")
                 ELSE AfterCleanup(FALSE)
  /\ UNCHANGED <<disk, image, lastId, k8s, source, url, edits>>

\* The errors of Stop and of Finalize are ignored.
Stop ==
  /\ At("stop")
  /\ \E o \in Outcomes :
       /\ Call(o)
       /\ disk' = IF Applied(o, CanStop) THEN StoppedDisk ELSE disk
  /\ job' = Goto("plainFinalize")
  /\ UNCHANGED <<snap, image, lastId, k8s, source, url, edits>>

PlainFinalize ==
  /\ At("plainFinalize")
  /\ \E o \in Outcomes :
       /\ Call(o)
       /\ disk' = IF Applied(o, CanFinalize) THEN PlainFinalDisk ELSE disk
  /\ job' = Goto("deleteDisk")
  /\ UNCHANGED <<snap, image, lastId, k8s, source, url, edits>>

DeleteDisk ==
  /\ At("deleteDisk")
  /\ \E o \in Outcomes :
       /\ Call(o)
       /\ disk' = IF Applied(o, CanDeleteDisk) THEN NoDisk ELSE disk
       /\ job' = AfterCleanup(o = "ok" /\ (CanDeleteDisk \/ disk.state = "none"))
  /\ UNCHANGED <<snap, image, lastId, k8s, source, url, edits>>

\* ImageView and ImageDelete of the ID it returns: only this worker creates one.
DeleteImage ==
  /\ At("deleteImage")
  /\ \E o \in Outcomes :
       /\ Call(o)
       /\ image' = IF Applied(o, TRUE) THEN NoImage ELSE image
       /\ job' = IF o = "ok" THEN Goto("removeFinalizer") ELSE Idle
  /\ UNCHANGED <<disk, snap, lastId, k8s, source, url, edits>>

-----------------------------------------------------------------------------
(* Everything around the reconciler.                                       *)

\* What the controller's predicate lets through: a new generation, changed
\* annotations, or the object gone.
Changed(old, new) ==
  \/ new.gen # old.gen
  \/ new.disabled # old.disabled
  \/ new.phase = "absent"

InformerSync ==
  /\ cache # obj
  /\ cache' = obj
  /\ queued' = (queued \/ Changed(cache, obj))
  /\ UNCHANGED <<oxide, obj, timer, job, source, url, faults, edits>>

TimerFires ==
  /\ timer
  /\ timer' = FALSE
  /\ queued' = TRUE
  /\ UNCHANGED <<oxide, obj, cache, job, source, url, faults, edits>>

\* The operator dies; the next one lists every object and queues it.
Crash ==
  /\ Fault
  /\ job' = Idle
  /\ cache' = obj
  /\ queued' = (obj.phase # "absent")
  /\ timer' = FALSE
  /\ UNCHANGED <<oxide, obj, source, url, edits>>

Edit == edits < MaxEdits /\ edits' = edits + 1

UserEdits ==
  /\ Edit
  /\ obj.phase # "absent"
  /\ \E new \in {[obj EXCEPT !.sha = s, !.gen = @ + 1] : s \in Shas \ {obj.sha}}
                \union {[obj EXCEPT !.promote = ~@, !.gen = @ + 1],
                        [obj EXCEPT !.prot = ~@, !.gen = @ + 1],
                        [obj EXCEPT !.disabled = ~@]} :
       obj' = new
  /\ UNCHANGED <<oxide, cache, queued, timer, job, source, url, faults>>

UserDeletes ==
  /\ Edit
  /\ obj.phase = "live"
  /\ obj' = IF obj.fin THEN [obj EXCEPT !.phase = "deleting", !.gen = @ + 1]
            ELSE [obj EXCEPT !.phase = "absent"]
  /\ UNCHANGED <<oxide, cache, queued, timer, job, source, url, faults>>

Publish ==
  /\ Edit
  /\ source = "url"
  /\ url' \in Served \ {url}
  /\ UNCHANGED <<oxide, k8s, job, source, faults>>

ImageDeleted ==
  /\ Edit
  /\ ImageDeletedOutside
  /\ UNCHANGED <<k8s, job, source, url, faults>>

\* Somebody takes the snapshot an Image with spec.snapshot names.
SnapshotTaken ==
  /\ Edit
  /\ source = "snapshot" /\ snap = NoSnap
  /\ snap' \in [state : {"creating"}, data : Served]
  /\ UNCHANGED <<disk, image, lastId, k8s, job, source, url, faults>>

Step ==
  \/ Reconcile \/ AddFinalizer \/ RemoveFinalizer \/ PatchStatus
  \/ ViewImage \/ ViewSnap \/ CreateImage \/ Promote
  \/ ViewDisk \/ DownloadFails \/ CreateDisk \/ StartWrite \/ WriteChunk
  \/ DownloadBreaks \/ WritesDone \/ StopWrite \/ FinalizeIntoSnapshot
  \/ DeleteSnap \/ Stop \/ PlainFinalize \/ DeleteDisk \/ DeleteImage

Oxide == OxideStep /\ UNCHANGED <<k8s, job, source, url, faults, edits>>

Users == UserEdits \/ UserDeletes \/ Publish \/ ImageDeleted \/ SnapshotTaken

Next == Step \/ InformerSync \/ TimerFires \/ Oxide \/ Crash \/ Users

Spec == Init /\ [][Next]_vars

\* The worker, the informer, the delaying queue and Oxide keep running.  Which
\* of them goes on is independent of the others; nobody is made to fail.
Fairness ==
  /\ WF_vars(Step)
  /\ WF_vars(InformerSync)
  /\ WF_vars(TimerFires)
  /\ WF_vars(Oxide)

FairSpec == Spec /\ Fairness

-----------------------------------------------------------------------------
(* What the controller promises.                                           *)

\* Types, and what each local variable holds where Reconcile uses it: a file
\* being written fits its disk, and the offset stays inside the file.
TypeOK ==
  /\ OxideTypeOK
  /\ obj \in Objects
  /\ cache \in Objects
  /\ queued \in BOOLEAN
  /\ timer \in BOOLEAN
  /\ job \in Jobs
  /\ source \in Sources
  /\ url \in Served
  /\ faults \in Nat
  /\ edits \in Nat
  /\ At("writeChunks") => /\ job.off <= Len(job.body)
                          /\ Len(job.body) <= Len(disk.data)

\* The finalizer stays on the object as long as an image or an import disk of
\* it exists in Oxide, so that a deletion always finds them; only an object
\* deleted under deletionProtection leaves them behind.
ResourcesAreHeld ==
  image.id # 0 \/ disk.state # "none" =>
    obj.fin \/ (obj.phase = "absent" /\ obj.prot)

\* The controller implements the promise every controller makes: a finalizer comes
\* first, whatever the copies and the calls it works with, the object only goes
\* when its image and its import disk have gone or are to be kept, and nothing is
\* made for it after that (image_controller.go:349).
Managed == INSTANCE ManagedResource WITH
  phase <- obj.phase, held <- obj.fin, protected <- obj.prot,
  exists <- image.id # 0 \/ disk.state # "none"

ImplementsManaged == Managed!Spec

\* The recorded ID says the import's disk and snapshot are gone: a cleanup that
\* failed half way is found again by every later reconcile
\* (image_controller.go:106).
IdRecordedAfterCleanup ==
  source = "url" /\ obj.id # 0 /\ image.id = obj.id =>
    disk.state = "none" /\ snap.state = "none"

Padded(file, size) == [i \in 1 .. size |-> IF i <= Len(file) THEN file[i] ELSE 0]

\* The file this reconcile has verified.
Expected == IF job.img.sha = NoFile THEN job.body ELSE job.img.sha

\* A disk is only ever finalized into the import snapshot when it holds exactly
\* the downloaded file, which is spec.sha256's if that is set.
VerifiedSnapshot ==
  [][~disk.pending /\ disk'.pending
       => disk.data = Padded(Expected, Len(disk.data))]_vars

\* An image holds one of the files its url has served, whole.
ImageIsAServedFile ==
  image.id # 0 /\ source = "url" =>
    \E f \in Served : image.data = Padded(f, Len(image.data))

\* Something will make the controller look at the object again: its key is queued
\* or will be, it is being looked at, or an event the predicate lets through is
\* on its way.
Awaited == queued \/ timer \/ ~At("idle") \/ Changed(cache, obj)

Forgotten == obj.phase = "live" /\ ~obj.disabled /\ ~Awaited

\* No step of the operator, of Oxide or of a crash drops a live object that is
\* not opted out: whatever fails, the controller comes back to it, except after
\* an outcome that will not fix itself (helpers.go:57, image_controller.go:81).
\* Users may put back what they changed before the cache has seen it.
NeverForgotten ==
  [][~Users /\ Forgotten' => Forgotten \/ (At("patch") /\ job.res = "Failed")]_vars

InSync ==
  /\ obj.ready = "Ready" /\ obj.obs = obj.gen
  /\ obj.id # 0 /\ image.id = obj.id

\* The observed generation only moves to one whose spec.promote the reconcile has
\* carried out on the image it records, so it never runs ahead of the image,
\* however stale the copy it works on or late the patch (image_controller.go:84).
ObservedIsDone ==
  [][obj'.obs # obj.obs =>
       obj'.obs = job.img.gen /\ (image.id = job.id => image.silo = job.img.promote)]_vars

Importable ==
  /\ obj.phase = "live" /\ ~obj.disabled
  /\ source = "url" => obj.sha \in {NoFile, url}
  /\ source = "snapshot" => snap.state # "none"

\* However its calls fail and whenever it crashes, the operator ends with the
\* image in Oxide and the object Ready, once the users leave an object that can
\* be imported alone.
ImportFinishes == <>[]Importable => <>[](obj.phase = "live" => InSync)

\* Deleting an enabled object removes it, once its Oxide resources are gone
\* (image_controller.go:349).
DeletionFinishes ==
  <>[](~obj.disabled) => (obj.phase = "deleting" ~> obj.phase = "absent")

\* The finalizer also stays as long as the import's snapshot exists or is still
\* to come out of a disk that is finalizing (image_controller.go:349).
LeftoverImportIsHeld ==
  source = "url" /\ (snap.state # "none" \/ disk.pending) =>
    obj.fin \/ (obj.phase = "absent" /\ obj.prot)
=============================================================================
