---------------------------- MODULE OxideImages ----------------------------
(***************************************************************************)
(* The Oxide API objects one url import goes through: the temporary disk,  *)
(* the temporary snapshot and the image.  Oxide itself is not part of the  *)
(* repository: its rules are taken from the states, calls and comments of  *)
(* image_controller.go.                                                    *)
(*                                                                         *)
(* Contents are sequences of chunks, one number per bulk-write chunk, and  *)
(* chunk 0 is the all-zero chunk.                                          *)
(***************************************************************************)
EXTENDS Integers, Sequences

CONSTANTS DiskMayFault   \* whether a disk being created may end up faulted

ASSUME DiskMayFaultIsBoolean == DiskMayFault \in BOOLEAN

VARIABLES disk, snap, image, lastId

oxide == <<disk, snap, image, lastId>>

NoDisk  == [state |-> "none", data |-> <<>>, pending |-> FALSE]
NoSnap  == [state |-> "none", data |-> <<>>]
NoImage == [id |-> 0, data |-> <<>>, silo |-> FALSE]

Chunks == Seq(Nat)
DiskStates == {"none", "creating", "import_ready", "importing", "finalizing",
               "detached", "faulted"}
SnapStates == {"none", "creating", "ready"}

OxideTypeOK ==
  /\ disk \in [state : DiskStates, data : Chunks, pending : BOOLEAN]
  /\ snap \in [state : SnapStates, data : Chunks]
  /\ image \in [id : Nat, data : Chunks, silo : BOOLEAN]
  /\ lastId \in Nat

OxideInit ==
  /\ disk = NoDisk
  /\ snap = NoSnap
  /\ image = NoImage
  /\ lastId = 0

-----------------------------------------------------------------------------
(* What each call needs and what it leaves behind.                         *)

CanStart      == disk.state = "import_ready"
CanWrite      == disk.state = "importing"
CanStop       == disk.state = "importing"
CanFinalize   == disk.state = "import_ready"
CanDeleteDisk == disk.state \in {"detached", "faulted"}
CanDeleteSnap == snap.state = "ready"

NewDisk(size) ==
  [state |-> "creating", data |-> [i \in 1 .. size |-> 0], pending |-> FALSE]
StartedDisk   == [disk EXCEPT !.state = "importing"]
WrittenDisk(off, chunk) == [disk EXCEPT !.data = [@ EXCEPT ![off] = chunk]]
StoppedDisk   == [disk EXCEPT !.state = "import_ready"]

\* Finalizing into a named snapshot takes time; without one it does not.
SnapshottingDisk == [disk EXCEPT !.state = "finalizing", !.pending = TRUE]
PlainFinalDisk   == [disk EXCEPT !.state = "detached"]

NewImage(data) == [id |-> lastId + 1, data |-> data, silo |-> FALSE]

-----------------------------------------------------------------------------
(* What Oxide does by itself.                                              *)

DiskCreated ==
  /\ disk.state = "creating"
  /\ \E s \in {"import_ready"} \union (IF DiskMayFault THEN {"faulted"} ELSE {}) :
       disk' = [disk EXCEPT !.state = s]
  /\ UNCHANGED <<snap, image, lastId>>

SnapshotMade ==
  /\ disk.state = "finalizing" /\ disk.pending
  /\ snap' = [state |-> "creating", data |-> disk.data]
  /\ disk' = [disk EXCEPT !.pending = FALSE]
  /\ UNCHANGED <<image, lastId>>

SnapshotReady ==
  /\ snap.state = "creating"
  /\ snap' = [snap EXCEPT !.state = "ready"]
  /\ UNCHANGED <<disk, image, lastId>>

FinalizeDone ==
  /\ disk.state = "finalizing" /\ ~disk.pending
  /\ disk' = [disk EXCEPT !.state = "detached"]
  /\ UNCHANGED <<snap, image, lastId>>

OxideStep == DiskCreated \/ SnapshotMade \/ SnapshotReady \/ FinalizeDone

\* Somebody deletes the image with the Oxide console or CLI.
ImageDeletedOutside ==
  /\ image.id # 0
  /\ image' = NoImage
  /\ UNCHANGED <<disk, snap, lastId>>
=============================================================================
