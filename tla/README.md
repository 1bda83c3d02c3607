# oxide-operator in TLA+

A verification project for oxide-operator, the Kubernetes operator that manages
the resources of an Oxide rack: TLA+ models of its controllers, TLC runs that
check them on small instances, and TLAPS proofs for every size. Paths below are
relative to `src/`; controllers live in `internal/controller/oxide/`.

## 1. The system

Each kind of resource has a custom resource, a controller and an object in
Oxide. A controller is a `Reconcile` function that controller-runtime calls with
the key of an object from a work queue: never twice at a time for one key, again
after an error (with backoff), after 10s while Oxide works (`progressPeriod`),
and after 10min to resync (`resyncPeriod`). It reads the object from an informer
cache, which lags behind the API server; writes go to the API server directly.
Nothing else is persisted: a crash loses every local variable, the queue and the
cache, and the next process lists everything and starts from what Kubernetes and
Oxide say.

| component | state | operations | talks to |
|---|---|---|---|
| Image controller (`image_controller.go`) | the Image; import disk, import snapshot and image in Oxide; the offset of a running write, in memory only | add the finalizer, view, import step by step, create, promote, clean up, delete, patch the status | API server and cache, Oxide, the server of `spec.url`, client cache |
| Project, Vpc, VpcSubnet controllers | the object; project, VPC or subnet in Oxide, with the defaults Oxide adds | finalizer, view, create, update, firewall rules, delete, patch | API server and caches (also of other kinds), Oxide, client cache |
| Disk, Snapshot controllers | the object; disk or snapshot in Oxide | finalizer, view, create, delete, patch | the same |
| Instance controller (`instance_controller.go`) | the Instance; instance and boot disk in Oxide | create, resize, start, stop, delete, patch | the same, and the watcher |
| Instance watcher (`pkg/oxideclient/fetcher.go`) | a registration per Instance (in a library) | poll Oxide, report drift, patch `status.state` | Oxide, API server, the Instance controller's queue |
| InstanceSet controller | the set and its children | create or patch, list, delete surplus, patch | API server and cache |
| OxideConnection controller | the connection; the version of its Secret in `status.observedSecretResourceVersion` | read the Secret, check the token, patch; on deletion wait for the last user | API server, Secret watch, all the resource caches, client cache |
| Oxide client cache (`pkg/oxideclient/client.go`) | a client per connection name, tagged with what it was built from | look up, build | every controller, the Secret at the API server |
| outcomes and events (`helpers.go`, `predicate.go`) | - | `setReady`, the `changed` predicate | every controller |
| manager (`cmd/main.go`) | - | flags and wiring | - |

What is hard in it:

- every API call is a point where the operator may crash, where the call may
  fail, and where it may take effect although the caller gets an error;
- the object a reconcile works on is a cached copy, and its status patch is a
  merge patch against that copy;
- an import is a protocol with a disk whose states are Oxide's, run by a process
  that remembers nothing of it;
- controllers of different kinds share containment rules in Oxide, one client
  cache and one connection, but never talk to each other;
- errors come in four sorts (progress, error, failed, terminal deletion errors)
  that differ only in whether anyone looks at the object again.

What makes each component correct:

- *Image*: what it makes in Oxide is always under a finalizer; only a verified
  disk is snapshotted, and an image holds one served file, whole; a recorded ID
  means the import has been cleaned up; the observed generation is one that was
  carried out; the object is only given up when no retry would help; an import
  finishes, a deletion finishes.
- *Project, Vpc, VpcSubnet*: deleting leaves nothing behind and finishes whatever
  the order; protected resources stay; what is Ready can be used.
- *OxideConnection and client cache*: nobody is handed an older token than the
  one recorded or than one handed out before, or a client of another spec;
  rotations are picked up; the connection outlives its users.
- *Instance and watcher*: an instance and the boot disk made with it are always
  under a finalizer; a change stops the instance once; an observed generation has
  its size; the controller never loses sight of the object; the instance ends with
  the size and the power state it was asked for; a deletion finishes from every
  state.
- *Disk, Snapshot*: as for Projects, and Ready only while Oxide's object is done.
- *InstanceSet*: an Instance that was always wanted is never deleted; a set only
  shrinks after what it keeps has been brought up to date; the observed
  generation was rolled out to every Instance; it ends with exactly its Instances
  and leaves none.

`PROJECT.json` lists every hazard with its line and the properties that cover it.

## 2. The modules

| module | what it is |
|---|---|
| `OxideImages` | the disk, the snapshot and the image of one url import as Oxide keeps them: what a call needs, what it leaves, what Oxide does by itself (external, from the code's use of it) |
| `ImageImport` | the Image controller on top of it, one action per call of `Reconcile`; its promises |
| `ConnectionClients` | the way of an API token: Secret, connection controller, status field, client cache, reconcilers |
| `ImportChunks` | the bytes of that import: the loop of `writeChunks` with its buffer, blocks, padding and skipped chunks |
| `Teardown` | Project, Vpc, VpcSubnet, Disk and Snapshot controllers with the deleted connection, over Oxide's rules of what contains and needs what |
| `Instances` | the Instance controller call by call, with the watcher, against Oxide's instance states |
| `InstanceSets` | the InstanceSet controller call by call, with users, stale caches and garbage collection |
| `ManagedResource` | what a controller promises of one object and what it makes for it: the abstract specification that `ImageImport`, `Instances` and each kind of `Teardown` implement |
| `MCImageImport`, `MCTeardown`, `MCInstanceSets` | values of the constants for TLC; the cfgs of the others need none |
| `ImageImportProofs`, `ImageStatusProofs`, `ImportChunksProofs`, `ConnectionClientsProofs`, `TeardownProofs`, `InstancesProofs`, `InstanceSetsProofs`, `ManagedResourceProofs` | theorems |

`ImageImport` extends `OxideImages`; `ImageImport` and `Instances` instantiate
`ManagedResource`, `Teardown` does once for each kind; a proof module extends its
component (`ImageStatusProofs` through `ImageImportProofs`). The models stand on
their own because they meet at narrow interfaces: the image and instance
controllers see the connection only as a call that may fail, the client cache
sees the other controllers only as readers, a set sees its Instances only as
objects that become Ready or go, and an import sees the bytes of a chunk only as
zero or not.

Operators named in a comment `\* Mutant: ...` are deliberately wrong versions of
the definition after them. The specification does not use them; they record that
each property notices the bug.

### ImageImport

`job` holds the local variables of the running `Reconcile`: the step (`pc`), the
copy of the object it read (`img`), the body being written and the offset in it,
the image it found (`cur`), the ID to record, why an import is being cleaned up
(`why`) and the outcome (`res`). Every action is one call (or one decision
between two calls) and ends as an element of `Outcomes`: `ok`, `lost` (it took
effect and the caller got an error) or `refused`. `DownloadFails` and
`DownloadBreaks` are the url's failures. `obj`, `cache`, `queued` and `timer` are
the Kubernetes side: `InformerSync` with the predicate `Changed`, `TimerFires`
for every delayed requeue. `Crash` drops `job`, queue and timer and reads the
cache afresh. Users edit, delete, annotate and publish; other Oxide clients
delete the image or take the snapshot an Image names.

`source` says whether the Image has `spec.url` or `spec.snapshot`, which cannot
change; `Sources` names the choices.

Data is abstracted to what the properties tell apart: a file is a short sequence
of chunks, a chunk a number with 0 for all zeros, and a file stands for its own
SHA-256. An object's content stands for its resourceVersion. The image's fields
that are only applied at creation are left out. The cache jumps to the newest
object: intermediate versions only delay that. A download and the call after it
are one action, since nothing else depends on the moment in between.

### ConnectionClients

A version of the Secret stands for the token in it, a UID and a generation for a
connection's spec. `ClientFor` is atomic because it holds `clientsMu` throughout,
including the read of the Secret. Readers are the reconcilers of other resources:
they read the cached connection (`ReadConnection`) and later call `ClientFor`
with it (`GotClient`, `NoClientFor`). The connection's own controller is
`Reconcile`, `ReadSecret` (metadata), `GetClient`, `ViewUser`, `PatchStatus`;
both of its reads of the Secret go to the API server (`cmd/main.go:150`, and the
metadata read at `oxideconnection_controller.go:77` is taken to be the latest as
well; a cached, older one would only make the recorded version older). Every
outcome of the connection's reconcile is queued again, by backoff, by resync or by
the Secret watch. `Recreated` needs an idle controller: the finalizer keeps the
object in place while its reconcile runs.

### ImportChunks

One action per turn of the loop: a chunk of zeros is skipped (`SkipChunk`), any
other is padded to whole blocks and written (`WriteChunk`, `WriteFails`), the
download ends (`EndOfBody`, or a short chunk) or fails (`ReadFails`). `buf` is the
one buffer of the loop, which keeps the bytes of earlier chunks; `sent` remembers
the last bulk write. `Open` chooses what the server announces, which must not be
larger than the disk, and what it sends, which may be less. An attempt that breaks
(`WriteFails`, `ReadFails`), or whose whole download is not taken (`Rejected`), has
one of two sequels. Its cleanup deletes the disk, at once or in a later reconcile,
and the next one makes another, sized by what the server announces then
(`StartOver`). Or the bulk write is stopped and the Finalize after it fails or is
never called, because the operator is restarted: then the disk is `import_ready`,
and the next reconcile opens it with the bytes it has (`Reopen`). `was` is a history
variable: the disk's bytes before the running attempt. Here bytes and block sizes
are explicit and there is no operator around the loop, `ImageImport` has the
operator and whole chunks.

`DiskIsBody` therefore says two things of a finished import: every byte that is not
zero in the download is on the disk, and where a zero is wanted there is a zero or
what the disk had before. On a new disk that is the download exactly
(`NewDiskIsExact`); on one that was opened again it need not be, which is what
`ImageMixedFiles` finds (section 4).

### Teardown

`obj[k]`, `cache[k]` and `job[k]` are the object, the cached copy and the running
reconcile of each kind in `Kinds`; `ox` is the set of things in Oxide, `making`
and `faulted` those of them that Oxide is still making or has given up; `conn`,
`connCache` and `connJob` belong to the connection. A scene says which kinds there
are, what is in Oxide already, what is protected and how many faults there may be.
`clone` is a Disk made from a Snapshot. `Bring[k]` is what creating k puts into
Oxide (Oxide adds a default VPC to a project and a default subnet to a VPC:
`project_controller.go:124`, `vpc_controller.go:146`), `Removes(k)` what
`handleDelete` deletes, in order; Oxide refuses to delete what is not `Emptied` or
is still being made, and to make anything from a source that is not `Usable`. A
live reconcile runs `ClientLive`, `View`, `FindSource` for a clone, `Create`,
`UpdateRules` for a VPC, `PatchStatus`; a deletion `ClientDeleted`, `Delete` for
each of `Removes(k)`, `RemoveFinalizer`. The connection's deletion lists kind
after kind (`ListUsers`) and then decides (`RemoveConnection`).

`Annotate` sets and removes the reconcile-mode annotation on the kinds of a scene's
`optsOut`. A controller leaves an object with it alone, also in deletion
(`Reconciled`, from `reconcileDisabled`), and a reconcile that had begun goes on; such
an object still uses the connection. The connection itself never has the annotation,
here and in `ConnectionClients`: with it, its controller would do nothing, neither
record a rotation nor go.

Objects are created and deleted once, at any time and in any order. There is no
queue: a reconcile may run whenever its object is in the cache, which includes
every schedule a queue allows. An update of a description or DNS name fails like
the view before it and is part of `View`. The other kinds that `inUse` lists are
represented by these.

### Instances

`obj`, `cache`, `queued` and `job` are as in `ImageImport`, except that an object
waiting for its `RequeueAfter` or backoff counts as queued. `inst` and `disk` are
the instance and the boot disk `<name>-boot` in Oxide; `OwnDisk` says whether
`spec.bootDisk` asks for one. A live reconcile is `Reconcile`, `AddFinalizer`,
`ViewInstance`, then what `AfterView` finds to be next (`CreateInstance`,
`ResizeInstance`, `StopInstance`, `StartInstance`, `ListIPs` or nothing), then
`PatchStatus`; a deletion is `ViewToDelete`, `StopInstance` or `DeleteInstance`,
`DeleteDisk`, `RemoveFinalizer`. The watcher's poll is `Fetch` and `Report`, with
`watched` for its registration: `InformerSync` registers on a new generation
(`cmd/main.go:165`), a deletion unregisters.

Oxide's side is taken from how the code uses it: a creation leads to `starting`
or `stopped` by its start flag, a resize and a start need a stopped instance, a
deletion a stopped or failed one, a disk can only be deleted when it is not
attached, and a name is taken once. `Outside` is whatever else happens to the
instance (`Outsiders`): its guest stops or reboots it, it fails, somebody deletes
it, which leaves the boot disk until somebody deletes that too.

A size stands for `spec.ncpus` and `spec.memory` together. `stopped` is a history
variable: the generations for which the controller has stopped the instance.

### InstanceSets

`set` and `kids` are the InstanceSet and its Instances by index, `setCache` and
`kidsCache` the informer caches, each as things were at some earlier moment. A
reconcile is `Reconcile`, then for each replica in turn one of `Create`,
`PatchKid` (what differs from the cached Instance is sent, and the answer is
counted) and `KeepKid` (counted as cached), then `ListKids`, `DeleteKid` for the
surplus in any order, `Finish` and `PatchStatus`. The first error ends it
(`SyncFails`). The set has no finalizer: its Instances go by garbage collection
(`CollectKid`, `SetGone`), which is Kubernetes' and taken from its documented
behaviour. Users scale, edit, pause, delete in the foreground or background,
re-create and delete an Instance. The Instances' own controller is reduced to
`KidReady`, `KidUnready` and a deletion that takes a while (`KidGone`).

A template stands for everything an Instance gets from the set, its labels
included. `past` is a history variable: the templates each index has ever had,
and the fewest replicas any version of the set has asked for.

### ManagedResource

Four variables per object: its `phase`, whether it is `held` by the finalizer,
whether it is `protected`, and whether something made for it `exists` in Oxide.
`ImageImport` maps `exists` to its image or its import disk, `Instances` to its
instance or its boot disk; phase, finalizer and protection are those of the
object at the API server. The mapping forgets every call in between: a creation
with a lost answer is still `Appear`, a stale Update of a finalizer that conflicts
is a stutter, and `Release` is only allowed when nothing is left. An import
snapshot is not part of it, because the code does leave it behind
(`ImageSnapshotLeft`). `Teardown` maps `exists` of a kind to anything that creating
it puts into Oxide (`Bring[k]`), so that a VPC's default subnet counts, and a
project's default VPC; a kind that is not in a scene never appears. A set has no
finalizer.

## 3. The runs that pass

| run | instance | shows |
|---|---|---|
| `ImageSafety` | from a url or a snapshot; two files of two and three chunks with zeros in the same places, 1 fault, 2 edits, disks may fault, downloads may fail for good or for a while | `TypeOK`, `ResourcesAreHeld`, `IdRecordedAfterCleanup`, `ImageIsAServedFile`, `VerifiedSnapshot`, `ObservedIsDone`, `NeverForgotten`, `ImplementsManaged` (6.4M states) |
| `ImageProgress` | from a url or a snapshot; one served file, two values of `spec.sha256`, 2 faults, 1 edit, fair | `ImportFinishes` (0.5M) |
| `Clients` | 1 reader, 2 versions, 2 generations, 2 UIDs, 1 fault, fair | `TypeOK`, `TokenNotOlderThanTag`, `NeverAnOlderToken`, `NoTokenComesBack`, `ClientOfItsSpec`, `RotationIsPickedUp` (1.6M) |
| `Teardown` | seven scenes of one or two kinds, below; fair | `TypeOK`, `NothingLeftBehind`, `ReadyIsUsable`, `ConnectionOutlivesUsers`, `ProtectedStays`, `ImplementsManaged`, `RecordedGoes`, `ComesUp` (0.8M) |
| `Instances` | two sizes, made running with a boot disk; 1 fault, failure or deletion in Oxide, 1 edit of size, power state or the disabling annotation, or a deletion, fair | `TypeOK`, `InstanceIsHeld`, `NeverForgotten`, `ObservedSizeIsReal`, `OneStopPerChange`, `ImplementsManaged`, `Converges`, `DeletionFinishes` (1.1M) |
| `InstanceSets` | up to 2 replicas, two templates; scenes with 1 edit of any kind, with an edit and a fault, with 2 edits; fair | `TypeOK`, `ObservedIsRolledOut`, `KeptWhileWanted`, `ShrinksLast`, `Converges`, `NothingSurvives` (0.6M) |
| `ImportChunks` | bytes 0 and 1, up to 7 of them, blocks of 1, 2 and 4, chunks of 4, a GiB of 4 | `TypeOK`, `DiskIsBody`, `WritesFit` (0.9M) |

The scenes of `Teardown` (`MCTeardown`): a project and a VPC in it, and a disk and
a snapshot of it, each once with a fault and once with the connection's deletion;
a protected snapshot and a disk made from it, with a fault; a protected VPC and a
subnet by `spec.vpcRef`, with a fault and the connection's deletion; a disk that is
opted out of reconciling and back again at any time, with a fault and the
connection's deletion (a disk and a snapshot of it, without faults, were checked the
same way with the disk opted out, 0.8M states).

Bounds. `MaxFaults` counts failed calls, failed downloads, crashes and (in
`Instances`) what `Outsiders` do together; one or two are enough because the
controllers keep no memory of a failure: after it, they start over from a state
that a run without it reaches too, or from one that differs by that failure's
trace in Oxide. `MaxEdits` counts what users do, and in `ImageImport` other Oxide
clients; two reach an edit during an import and a deletion after it.
`ChunksPerGiB = 2` makes files fall on and between the rounding of
`createImportDisk`. In `Clients` the connection's own controller and one reader
share the cache entry, so a reader's older view meets a newer one's client and the
other way round; two readers were checked without liveness, and the proofs hold
for any number. With one reader `NoTokenComesBack` compares what that reader had
with what it gets, through clients that the connection's controller has put there.
In `Teardown` two kinds are enough for each rule that relates two of them; the proofs cover all six together. In `InstanceSets` two replicas have a first
and a last one, and a second that is surplus while the first is wanted; one fault
or a second edit can fall between any two steps of a reconcile. In `ImportChunks`
seven bytes are a whole chunk and a part of one that is itself no whole block, on
disks of one and two GiB, so that a download can be announced for a disk made for
another, and an attempt can leave bytes in every chunk for the next one; nothing
bounds the number of attempts. In `Instances` one edit is enough to
need a stop, a resize and a start with a fault anywhere in between; its safety
properties were also checked with `deletionProtection`, the disabling annotation
and an instance that its guest stops or reboots (28M states), and are proved for
all of these.

`CHECK_DEADLOCK FALSE` is set where the system may really stop: an Image that is
absent, or failed with nobody editing it; all of Teardown's objects gone; an
Instance or a set that is gone; an import that is written.

Fairness. `ImageImport`: the worker (`Step`), the informer, the delaying queue and
Oxide each keep going; the code relies on the same (controller-runtime's workers,
watches that are re-established, Oxide finishing what it started). `Step` is one
weak fairness condition for the whole worker because at any moment it has one next
call; its faults are bounded, so fairness never forces a failure to be over.
`ConnectionClients` and `Teardown`: a condition per controller, since each has
workers of its own, and per watch. `Instances`: the worker, the informer and
Oxide; not the watcher, because a reconcile of a live instance is queued again
whatever its outcome. `Teardown` also assumes that Oxide finishes a disk or a
snapshot, or gives it up. `InstanceSets`: the worker, both informers, Instances
that come up when they are left alone and go when they are deleted, and garbage
collection. No fairness is assumed of users, crashes or failures.

`Converges` (Instances) is about objects that are left alone, instances that do
not end as `failed` and those of which more than the boot disk is left; `Converges`
(InstanceSets) about a set that is neither deleted nor paused for good; `ComesUp`
about objects that are left alone and of which nothing came out faulted. These and
the properties of deletion speak of objects that are not opted out of reconciling in
the end (`AllReconciled` in `Teardown`): the code leaves an object that is alone for
as long as it is.

## 4. The runs that find a disagreement

Each checks one property that a comment of the code states, and TLC finds a
behaviour of the code against it. `PROJECT.json` quotes the line.

| run | what happens |
|---|---|
| `ImageMixedFiles` | after a checksum mismatch the cleanup has stopped the bulk write when the operator is restarted, before the Finalize: the written disk is `import_ready`; the url now serves the file with the right checksum, which is written over the old one without its zero chunks, and the mixture is snapshotted |
| `ImageTruncated` | a connection that breaks is taken for the end of the file |
| `ImageDeleteStuck` | deleting an Image in mid-import is a terminal error, and nothing looks at the object again |
| `ImageSnapshotLeft` | deleting it between Finalize and the snapshot's appearance leaves the snapshot |
| `TeardownWedged` | a subnet by `spec.vpcRef` without an ID cannot be deleted once its Vpc object is gone, and keeps the connection |

A failed Finalize leaves such a disk without a restart: with two edits (`spec.sha256`
and the file) a snapshotting Finalize that is refused (`image_controller.go:243`) was
found to lead to the same snapshot.

Met while modelling and kept without a run, because no comment promises otherwise
or because they are harmless:

- with `spec.sha256` a broken download is a checksum mismatch, which is never
  retried (`image_controller.go:230`);
- an instance that somebody deletes in Oxide leaves its boot disk, whose name Oxide
  then refuses to the controller: the instance is never made again
  (`instance_controller.go:97`);
- a set can report a generation before any of its Instances runs with it: Ready is
  taken from each Instance's condition, whatever generation that is of
  (`instanceset_controller.go:97`), so `ObservedIsRolledOut` speaks of templates
  that were given, not of Instances that came up with them;
- a set that is deleted and made again while its predecessor is being reconciled
  gets that one's status, until its own reconcile
  (`instanceset_controller.go:66`);
- a file that outgrows its import disk never fits (`image_controller.go:216`);
- a failed outcome whose status patch fails is neither recorded nor retried
  (`image_controller.go:86`);
- a merge patch against a stale copy may leave Ready for a generation that was not
  carried out, until the next reconcile (`image_controller.go:81`);
- a client may hold a newer token than the version recorded for it, never an older
  one (`client.go:74`);
- a resource created while its connection is being deleted may lose the connection
  (`LateCreates = TRUE`);
- a failed instance that needs a resize only ever reports that it is being stopped
  (`instance_controller.go:108`).

The passing runs exclude these causes: files with their zeros in the same places
(`SameZeroFiles`), so that in `ImageImport` a disk written over holds the new file all
the same, no truncation, one served file where growth matters, a recorded ID where a subnet has `spec.vpcRef`, no resources
created for a connection that is being deleted (`LateCreates = FALSE`), no
instance that stays `failed` or leaves an orphaned boot disk, no set that was made
again (`ObservedIsRolledOut` only). `ImportChunks` excludes none of them: its
disks may be written over and its downloads be cut short, and `DiskIsBody` says what
is then on the disk. Beyond that, the connection is never opted out of reconciling,
and what section 7 lists is not modelled.

## 5. What is proved

For every value of the constants, from the named assumptions in the modules.

| theorem | from |
|---|---|
| `TypeCorrect`: `Spec => []TypeOK` (ImageImport) | induction; the interesting conjunct is that a body being written fits its disk, from `Fits` and from a disk that only this worker changes while it is being written |
| `ResourcesHeld`: `Spec => []ResourcesAreHeld` | `HeldInv`, below |
| `SnapshotVerified`: `Spec => VerifiedSnapshot`, if the files' zeros are in the same places and no download is cut short | `FileInv`, below |
| `IdMeansCleanedUp`: `Spec => []IdRecordedAfterCleanup` | `IdInv`, below |
| `ImageHoldsAFile`: `Spec => []ImageIsAServedFile`, under the same two conditions | `ServedInv`, below |
| `ObservedMeansDone`: `Spec => ObservedIsDone` | `SettledInv`, below |
| `NothingForgotten`: `Spec => NeverForgotten` (ImageImport) | step by step, from `HeldInv` |
| `ImageManaged`, `InstanceManaged`: `Spec => ImplementsManaged` | step by step, from `HeldInv` |
| `KindsAreManaged`: `Spec => ImplementsManaged` (Teardown) | step by step, from `KindInv(k)` |
| `PromiseLeavesNothing`: `ManagedResource`'s `Spec => []NothingLeft` | induction |
| `ChunkTypes`, `ImportIsExact` (`Spec => []DiskIsBody`), `NewDiskIsExact`, `WritesAreWhole` (ImportChunks) | `ChunksInv`, below |
| `ClientTypes`, `CachedTokenIsFresh`, `TokensDoNotGoBack`, `ClientsMatchSpecs` | `ClientInv`, below |
| `TokensOnlyGetNewer`: `Spec => NoTokenComesBack` | `HandedOutInv`, below |
| `TeardownTypes`, `NothingIsLeft`, `ProtectedAreKept` | `KindInv(k)` for each kind, below |
| `ReadyCanBeUsed`: `Spec => []ReadyIsUsable` | `ReadyInv(k)` for each kind, below |
| `ConnectionGoesLast`, if nothing is created for a deleted connection | `ConnInv`, below |
| `TypeCorrect`, `InstanceHeld` (Instances) | `HeldInv` of Instances, below |
| `StopsOnce`: `Spec => OneStopPerChange` (Instances) | `StopInv`, below |
| `InstanceNotForgotten`: `Spec => []NeverForgotten` (Instances) | `AwakeInv`, below |
| `ObservedMeansSized`: `Spec => []ObservedSizeIsReal` | `SizeInv`, below |
| `InstanceSetTypes`, `WantedAreKept`: `Spec => KeptWhileWanted` | `WantInv`, below |
| `ObservedWasRolledOut`: `Spec => []ObservedIsRolledOut` | `RolloutInv`, below |
| `SetShrinksLast`: `Spec => ShrinksLast` | `SurplusInv` and `LoopInv`, below |

*HeldInv.* `ResourcesAreHeld` is not inductive: a reconcile creates things on the
word of its copy of the object. The invariant says that the cache only ever lags
behind the object (a finalizer that is cached is still there unless a reconcile
of the deleted object removed it), that a reconcile past its finalizer step works
on a copy with it, that a job in `removeFinalizer` has seen the deletion and has
deleted the disk and the image first (`DiskGoneFirst`, `AllGoneFirst`), and that
the Update which removes the finalizer conflicts if its copy is stale. Instances
has the same argument with the instance before its boot disk
(`InstanceGoneFirst`); only a deletion's copy reaches the deleting steps
(`StepsFit`).

*FileInv.* The disk being written holds exactly the written prefix of the body,
padded with zeros (`WrittenInv`); any `import_ready` disk is zero wherever the
files are (`DiskInv`). The second part is where `SameZeros` is needed: without
it `ImageMixedFiles` is a counterexample.

*ServedInv.* `FileInv` says what is on a disk while it is written; `ServedInv`
follows it from there: a disk that is about to become the snapshot holds a served
file and nothing writes to it any more (`PendingStep`), and snapshot and image are
made of nothing else. `ImageTruncated` is the counterexample without the second
condition.

*The refinement.* Every action of the Image and Instance controllers is mapped to
one of `ManagedResource` or to a stutter. Where the abstract step has a guard, the
invariant supplies it: `Appear` needs the finalizer that `HeldInv` says is there
when a creating call is made, `Release` needs the nothing that is left when the
Update of the finalizer goes through. For the kinds of `Teardown`, every step has to
be a step or a stutter of each kind's own promise at once: what one kind's
controller does leaves the object and the things of every other kind alone, since
kinds bring different things. That an object in deletion still has its finalizer
(`DeletedIsHeld`) is needed for `Release` to be the only way out.
`PromiseLeavesNothing` then says once, for all of them, what the promise comes to.

*IdInv.* The invariant says that IDs are handed out once (`IdsAreOld`), that while a
reconcile is importing there is no image (`NoImageYet`), that a disk about to turn
into the snapshot comes before snapshot and image (`SnapshotComesFirst`), that a
cleanup which is to record the image's ID has removed the snapshot before it goes
on to the disk (`SnapshotGoneFirst`), and that wherever the image's ID is recorded,
in the object or in any copy of it, disk and snapshot are gone
(`RecordedIsClean`).

*SettledInv.* That the status is never ahead of the image rests on two facts about
the running reconcile: its outcome is `Ready` only from the last decision on
(`ReadyAtTheEnd`), and then the image it is going to record, if that is still
there, is in the silo exactly if the copy asks for it; a cleanup on the way keeps
what it has seen (`SeenInv`). It holds although the copy may be stale, because
only this controller moves an image and IDs are never used twice (`IdInv`).

*NeverForgotten.* For an Image every outcome but `Failed` comes back by a queue or a
timer; the theorem is about steps, since a `Failed` object is meant to rest. Of
`HeldInv` it needs that the cache lags (`CacheLags`), so that what a reconcile has
not seen will be an event, and that only a deletion it has read makes it give up
in the middle (`DeletionWasRead`). For an Instance it is an invariant: every outcome
is queued again, so an object that the cache shows, and that is not opted out, is
queued or being worked on (`CacheAwake`); what the cache does not show yet is an
event to come, and a deletion cannot slip by, because a deleted object has its
finalizer until the controller takes it (`DeletedIsHeld`) and does not come back
(`GoneForGood`).

*ChunksInv.* Offset and size are multiples of a chunk (`OnChunks`). Up to the offset
each byte is the download's, or where that is zero the one that was there
(`KeptOrWanted`), and from there on nothing has changed (`WrittenSoFar`); leaving out
a zero chunk keeps this, and makes it the download exactly if what was there is zero
(`NewDiskIsExact`). The last bulk write is whole (`SentWhole`).
The arithmetic of rounding (`RoundedUpIsNext`, `RoundedUpFits`, `NextMultiple`,
`MultipleOfMultiple`) is proved as lemmas from division.

*ClientInv.* Versions seen anywhere are no newer than the Secret's
(`SeenVersions`); a cached client was built for the spec in its tag
(`BuiltForTag`) and from a token no older than the version in it. The last holds
because a client is built by reading the Secret after the version in the tag was
recorded, and versions grow.

*HandedOutInv.* `NeverAnOlderToken` speaks of what a reconciler has seen,
`NoTokenComesBack` of what anybody has had. No token handed out is newer than the
Secret's last version or than the cached client's, if there is one. What
`ClientFor` hands out next is that client or reads the Secret now
(`NotOlderThanUsed`), and a restart empties the cache, never the Secret.

*KindInv(k).* While the controller of k has brought anything into Oxide, its
object has the finalizer or the running deletion still has it on its list
(`HeldOrToDelete`); with `FinalizerKept`, `DeletionSeen` and `StepsApart`, which
tie the running reconcile to the object it read. Every controller deletes only
what it brought, and a protected object's nothing (`OwnOnly`), which is all that
`ProtectedAreKept` needs, since the things of two kinds are different.

*ReadyInv(k).* What can be used stays so while its object lives (`UsableStays`): no
other kind deletes it, Oxide gives up only what it is still making, and its own
controller deletes only for a deletion it has read. So a reconcile that found it in
order may write Ready however much later, and a live object that is Ready has it.

*ConnInv* follows the connection's lists: once a kind has been listed as unused, its
cached and real objects are gone for good.

*StopInv.* A reconcile decides to stop on the word of its copy of the object and
of an instance it has looked at. The invariant orders the copies (`CopiesLag`: of
one generation they hold one spec, and the reconcile's is no newer than the
cache's), bounds the generations that have stopped the instance by both copies
(`StopsSeen`), and says that once a generation has stopped it, the instance is
`SettledIn` for every copy of that generation: down, or on its way up with the
size and the power state the copy asks for, so that `AfterView` finds no reason to
stop it again. What Oxide or anybody else does to the instance keeps it settled,
because nobody but the controller changes its size and nobody starts an instance
that is to be stopped; a model in which other users of Oxide did either would
need a property that counts their changes too.

*SizeInv.* An observed generation is a lasting claim about the instance, not about
the moment of the patch. The invariant says that neither the cached object nor the
running reconcile's copy is older than what has been observed (`ObservedLags`), that
a reconcile which found nothing to change leaves an instance of its copy's size (`ReadyIsSized`), and that only
such a reconcile is `Ready` (`ReadyAtTheEnd`). So once a generation is observed, a
creation or a resize can only come from a copy of it or a later one, and while it
is the object's last, `CopiesLag` says that such a copy asks for the same size.

*WantInv.* No copy of the set, cached or in a running reconcile, wants fewer
replicas than the fewest ever asked for, and what is listed as surplus lies beyond
them: the list may be as old as it likes, indices do not change.

*RolloutInv.* A copy of the set with the current UID and generation has the current
replicas and template (`VersionInv`); whatever Instance is there, or is in the
cache, has had its template (`HadInv`); the loop has left every index before `next`
with the template of the copy it works on (`LoopInv`), so that a `patch` of a
successful sync has rolled that copy out to all of them; and a first set's observed
generation is one it has had (`ObservedInv`). `KeepKid` is the interesting step: it
goes by the cache, which may show an Instance that is long gone, and is why the
property speaks of what an index has been given.

*SurplusInv.* What is listed as surplus lies beyond the replicas of the copy the
reconcile works on. With `LoopInv`, which has rolled out that copy before anything
is listed, an Instance is deleted last.

## 6. What is only model-checked

Liveness (`ImportFinishes`, `RotationIsPickedUp`, `RecordedGoes`, `ComesUp`,
`Converges` of both modules, `DeletionFinishes`, `NothingSurvives`): it needs
fairness and ENABLED, which TLAPS does not handle here. Every invariant, action
property and refinement that a passing run checks is also a theorem.

## 7. What is not modelled, and the plan

Left out on purpose: event records and error texts (no property is about them),
deployment manifests, generated code, flags, the conversion of firewall rules, and
the fields that are only applied when something is created. Also not modelled:

- in-flight requests that outlive a crash, and a second replica of the operator
  (leader election is off by default and the deployment runs one);
- import disks deleted by hand, and instances that other users of Oxide resize or
  start;
- images of other projects, and silo images, under the same name
  (`image_controller.go:335`); an import whose name is cut to 63 characters
  (`image_controller.go:301`);
- a Vpc that is itself named `default`, whose objects would be Oxide's own;
- Instances that a user made under the name of a set's, which the set takes over.

Done, the most important first: `ImageImport`, the only long protocol of the
operator; `ConnectionClients`, which every controller depends on; `Teardown`, where
controllers meet, with disks and snapshots; `Instances`, with its watcher;
`InstanceSets`; `ImportChunks`; `ManagedResource` and its three refinements.

Left, in this order:

1. A second project's images in `OxideImages`, for `viewImage`'s fallback to silo
   images.
2. A set that takes over Instances of the same name, and one that is re-created in
   `ObservedIsRolledOut`.

New runs are to take the place of, or be merged with, the ones above where they
ask the same question of a larger model: the project keeps a dozen runs that
finish in a few minutes each.
