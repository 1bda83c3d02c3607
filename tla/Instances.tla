----------------------------- MODULE Instances -----------------------------
(***************************************************************************)
(* The Instance controller (instance_controller.go), call by call, for one *)
(* Instance object, with the watcher that polls Oxide for it (fetcher.go,  *)
(* cmd/main.go).  Calls, crashes and the informer cache are as in          *)
(* ImageImport.  An object waiting for its RequeueAfter or backoff counts  *)
(* as queued: the worker may take it at any time.                          *)
(*                                                                         *)
(*  - A size stands for spec.ncpus and spec.memory together; 0 is no size. *)
(*  - Fields that are only applied at creation are left out.               *)
(*  - "rebooting" stands for migrating as well; an instance being repaired *)
(*    is left out.                                                         *)
(*  - The client, the boot disk's image and the call after them fail as    *)
(*    one call: nothing else depends on which of them it was.              *)
(***************************************************************************)
EXTENDS Naturals

CONSTANTS
  Sizes,      \* values of spec.ncpus and spec.memory
  OwnDisk,    \* spec.bootDisk.size is set: "<name>-boot" is made with the instance
  Made,       \* the sizes an Instance is made with,
  MadeRun,    \*   its spec.runState
  Prots,      \*   and its spec.deletionProtection
  Edits,      \* what Kubernetes users change
  Outsiders,  \* what happens to the instance in Oxide besides
  MaxFaults,  \* bound: failed calls, crashes and what Outsiders do
  MaxEdits    \* bound: what Kubernetes users do

ASSUME SizesAssumption == Sizes \subseteq Nat \ {0} /\ Sizes # {}
ASSUME DiskAssumption == OwnDisk \in BOOLEAN
ASSUME OutsideAssumption ==
  /\ Made \subseteq Sizes /\ MadeRun \subseteq {"Running", "Stopped"} /\ Prots \subseteq BOOLEAN
  /\ Edits \subseteq {"size", "run", "prot", "disabled", "delete"}
  /\ Outsiders \subseteq {"stop", "reboot", "fail", "delete"}
  /\ MaxFaults \in Nat /\ MaxEdits \in Nat

VARIABLES
  obj,      \* the Instance at the API server
  cache,    \* the operator's informer cache of it
  queued,   \* its key is in the work queue, or will be added (RequeueAfter or backoff)
  job,      \* the local variables of the running Reconcile
  inst,     \* the instance in Oxide
  disk,     \* the boot disk "<name>-boot" is in Oxide
  watched,  \* the watcher polls the instance
  poll,     \* the state the watcher has just fetched, or "none"
  stopped,  \* the generations for which the controller has stopped the instance
  faults, edits

k8s    == <<obj, cache, queued>>
oxide  == <<inst, disk>>
watch  == <<watched, poll>>
bounds == <<faults, edits>>
vars   == <<k8s, job, oxide, watch, stopped, bounds>>

Outcomes == {"ok", "lost", "refused"}
Results  == {"Ready", "Progressing", "Error"}
Phases   == {"live", "deleting", "absent"}
Wanted   == {"Running", "Stopped"}
RunStates ==
  {"none", "creating", "starting", "running", "stopping", "stopped", "rebooting", "failed"}

\* id, state, ready, obs: the status; state "none" is an empty status.state.
Objects ==
  [phase : Phases, fin : BOOLEAN, disabled : BOOLEAN, prot : BOOLEAN, gen : Nat,
   size : Sizes \union {0}, run : Wanted, id : BOOLEAN, state : RunStates,
   ready : Results \union {"Unset"}, obs : Nat]

NoObject ==
  [phase |-> "absent", fin |-> FALSE, disabled |-> FALSE, prot |-> FALSE, gen |-> 0, size |-> 0,
   run |-> "Stopped", id |-> FALSE, state |-> "none", ready |-> "Unset", obs |-> 0]

NoInst == [state |-> "none", size |-> 0, start |-> FALSE]

Steps == {"idle", "addFinalizer", "view", "create", "stop", "resize", "start", "listIPs",
          "patch", "viewToDelete", "deleteInst", "deleteDisk", "removeFinalizer"}

Jobs == [pc : Steps, obj : Objects, id : BOOLEAN, state : RunStates, res : Results]

Idle == [pc |-> "idle", obj |-> NoObject, id |-> FALSE, state |-> "none", res |-> "Error"]

Init ==
  /\ \E size \in Made, run \in MadeRun, prot \in Prots :
       obj = [NoObject EXCEPT !.phase = "live", !.prot = prot, !.gen = 1, !.size = size, !.run = run]
  /\ cache = obj /\ job = Idle
  /\ queued = TRUE
  /\ inst = NoInst /\ disk = FALSE
  /\ watched = TRUE /\ poll = "none"
  /\ stopped = {}
  /\ faults = 0 /\ edits = 0

-----------------------------------------------------------------------------
(* Calls and returns.                                                      *)

At(pc) == job.pc = pc

Fault == faults < MaxFaults /\ faults' = faults + 1

\* A call that ends in o; it took effect, and the operator knows.
Call(o) == IF o = "ok" THEN UNCHANGED faults ELSE Fault
Applied(o, can) == can /\ o # "refused"
Answered(o, can) == can /\ o = "ok"

\* Return from Reconcile.
Return(again) ==
  /\ job' = Idle
  /\ queued' = (queued \/ again)

\* handleInstanceOperations goes on, or returns to the status patch.
Goto(pc)     == [job EXCEPT !.pc = pc]
Outcome(res) == [job EXCEPT !.pc = "patch", !.res = res]

-----------------------------------------------------------------------------
(* Reconcile: the object, its finalizer and its status.                    *)

LeftAlone(o) ==
  \/ o.phase = "absent"
  \/ o.disabled
  \/ o.phase = "deleting" /\ ~o.fin

\* Mutant: the finalizer is left for later.
FirstStepUnheld(o) ==
  IF o.phase = "live" THEN "view"
  ELSE IF o.prot THEN "removeFinalizer" ELSE "viewToDelete"

FirstStep(o) ==
  IF o.phase = "live" THEN IF o.fin THEN "view" ELSE "addFinalizer"
  ELSE IF o.prot THEN "removeFinalizer" ELSE "viewToDelete"

\* A deletion stops the watcher first (instance_controller.go:168).
Reconcile ==
  /\ At("idle") /\ queued
  /\ queued' = FALSE
  /\ job' = IF LeftAlone(cache) THEN Idle
            ELSE [pc |-> FirstStep(cache), obj |-> cache, id |-> cache.id,
                  state |-> cache.state, res |-> "Error"]
  /\ watched' = (watched /\ (LeftAlone(cache) \/ cache.phase = "live"))
  /\ UNCHANGED <<obj, cache, oxide, poll, stopped, bounds>>

\* The API server refuses an Update of anything but the current object.
Conflicts(o) == o # obj

AddFinalizer ==
  /\ At("addFinalizer")
  /\ \E o \in Outcomes :
       /\ Call(o)
       /\ LET can == ~Conflicts(job.obj)
              new == [job.obj EXCEPT !.fin = TRUE]
          IN /\ obj' = IF Applied(o, can) THEN new ELSE obj
             /\ IF Answered(o, can)
                THEN job' = [job EXCEPT !.pc = "view", !.obj = new] /\ UNCHANGED queued
                ELSE Return(TRUE)
  /\ UNCHANGED <<cache, oxide, watch, stopped, edits>>

RemoveFinalizer ==
  /\ At("removeFinalizer")
  /\ \E o \in Outcomes :
       /\ Call(o)
       /\ LET can == ~Conflicts(job.obj)
          IN /\ obj' = IF Applied(o, can) THEN [obj EXCEPT !.phase = "absent", !.fin = FALSE]
                       ELSE obj
             /\ Return(~Answered(o, can) /\ ~(o = "ok" /\ obj.phase = "absent"))
  /\ UNCHANGED <<cache, oxide, watch, stopped, edits>>

\* A merge patch carries the fields that differ from the copy that was read.
Merged(new, old, now) == IF new # old THEN new ELSE now

\* Mutant: the generation is that of the object as it is now.
ObservedLate == IF job.res = "Ready" THEN obj.gen ELSE job.obj.obs

Observed == IF job.res = "Ready" THEN job.obj.gen ELSE job.obj.obs

Patched ==
  [obj EXCEPT !.id    = Merged(job.id, job.obj.id, @),
              !.state = Merged(job.state, job.obj.state, @),
              !.ready = Merged(job.res, job.obj.ready, @),
              !.obs   = Merged(Observed, job.obj.obs, @)]

PatchStatus ==
  /\ At("patch")
  /\ \E o \in Outcomes :
       /\ Call(o)
       /\ obj' = IF Applied(o, obj.phase # "absent") THEN Patched ELSE obj
       \* NotFound is ignored unless the outcome was an error of its own.
       /\ Return(obj.phase = "absent" /\ o = "ok" => job.res = "Error")
  /\ UNCHANGED <<cache, oxide, watch, stopped, edits>>

-----------------------------------------------------------------------------
(* A live object: handleInstanceOperations.                                *)

Viewed == [state |-> inst.state, size |-> inst.size]

InFlight == {"creating", "starting", "stopping", "rebooting"}

\* Mutant: the power state comes first.
AfterViewPowersFirst(cur) ==
  LET go(pc)    == [job EXCEPT !.id = TRUE, !.state = cur.state, !.pc = pc]
      done(res) == [go("patch") EXCEPT !.res = res]
  IN CASE cur.state = "stopped" /\ job.obj.run = "Running" -> go("start")
       [] cur.state = "running" /\ job.obj.run = "Stopped" -> go("stop")
       [] cur.state = "running" /\ cur.size # job.obj.size -> go("stop")
       [] cur.state = "stopped" /\ cur.size # job.obj.size -> go("resize")
       [] cur.state = "failed"    -> done("Error")
       [] cur.state \in InFlight  -> done("Progressing")
       [] OTHER                   -> go("listIPs")

\* What an instance in this state needs next: its size, for which it must be
\* stopped, then its power state.
AfterView(cur) ==
  LET go(pc)    == [job EXCEPT !.id = TRUE, !.state = cur.state, !.pc = pc]
      done(res) == [go("patch") EXCEPT !.res = res]
      resize    == cur.size # job.obj.size
  IN CASE resize /\ cur.state = "stopped" -> go("resize")
       [] resize /\ cur.state = "running" -> go("stop")
       [] resize /\ cur.state \notin {"stopped", "running"} -> done("Progressing")
       [] ~resize /\ cur.state = "stopped" /\ job.obj.run = "Running" -> go("start")
       [] ~resize /\ cur.state = "running" /\ job.obj.run = "Stopped" -> go("stop")
       [] ~resize /\ cur.state = "failed"   -> done("Error")
       [] ~resize /\ cur.state \in InFlight -> done("Progressing")
       [] OTHER -> go("listIPs")

ViewInstance ==
  /\ At("view")
  /\ \E o \in {"ok", "refused"} :
       /\ Call(o)
       /\ job' = IF o = "refused" THEN Outcome("Error")
                 ELSE IF inst.state = "none" THEN Goto("create")
                 ELSE AfterView(Viewed)
  /\ UNCHANGED <<k8s, oxide, watch, stopped, edits>>

NewInst ==
  [state |-> "creating", size |-> job.obj.size, start |-> job.obj.run = "Running"]

\* Oxide makes the boot disk with the instance, and refuses a name it has.
CanCreate == inst.state = "none" /\ ~disk

CreateInstance ==
  /\ At("create")
  /\ \E o \in Outcomes :
       /\ Call(o)
       /\ inst' = IF Applied(o, CanCreate) THEN NewInst ELSE inst
       /\ disk' = (disk \/ (Applied(o, CanCreate) /\ OwnDisk))
       /\ job' = IF Answered(o, CanCreate)
                 THEN AfterView([state |-> NewInst.state, size |-> NewInst.size])
                 ELSE Outcome("Error")
  /\ UNCHANGED <<k8s, watch, stopped, edits>>

CanStop == inst.state \in {"running", "rebooting"}

\* stopInstance, of a live and of a deleted object.
StopInstance ==
  /\ At("stop")
  /\ \E o \in Outcomes :
       /\ Call(o)
       /\ inst' = IF Applied(o, CanStop) THEN [inst EXCEPT !.state = "stopping"] ELSE inst
       /\ stopped' = IF Applied(o, CanStop) THEN stopped \union {job.obj.gen} ELSE stopped
       /\ IF job.obj.phase = "live"
          THEN /\ job' = Outcome(IF Answered(o, CanStop) THEN "Progressing" ELSE "Error")
               /\ UNCHANGED queued
          ELSE Return(TRUE)
  /\ UNCHANGED <<obj, cache, disk, watch, edits>>

CanChange == inst.state = "stopped"

\* InstanceUpdate, then InstanceStart.
ResizeInstance ==
  /\ At("resize")
  /\ \E o \in Outcomes :
       /\ Call(o)
       /\ inst' = IF Applied(o, CanChange) THEN [inst EXCEPT !.size = job.obj.size] ELSE inst
       /\ job' = Outcome(IF Answered(o, CanChange) THEN "Progressing" ELSE "Error")
  /\ UNCHANGED <<k8s, disk, watch, stopped, edits>>

StartInstance ==
  /\ At("start")
  /\ \E o \in Outcomes :
       /\ Call(o)
       /\ inst' = IF Applied(o, CanChange) THEN [inst EXCEPT !.state = "starting"] ELSE inst
       /\ job' = Outcome(IF Answered(o, CanChange) THEN "Progressing" ELSE "Error")
  /\ UNCHANGED <<k8s, disk, watch, stopped, edits>>

\* The instance is as the spec wants it; its addresses are read before it is Ready.
ListIPs ==
  /\ At("listIPs")
  /\ \E o \in {"ok", "refused"} :
       /\ Call(o)
       /\ job' = Outcome(IF o = "ok" /\ inst.state # "none" THEN "Ready" ELSE "Error")
  /\ UNCHANGED <<k8s, oxide, watch, stopped, edits>>

-----------------------------------------------------------------------------
(* A deleted object: deleteInstance.                                       *)

\* Mutant: the boot disk is forgotten.
AfterDeleteForgets == "removeFinalizer"

AfterDelete == IF OwnDisk THEN "deleteDisk" ELSE "removeFinalizer"

ViewToDelete ==
  /\ At("viewToDelete")
  /\ \/ /\ inst.state \in {"none", "stopped", "failed", "running"}
        /\ job' = Goto(CASE inst.state = "none"    -> AfterDelete
                         [] inst.state = "running" -> "stop"
                         [] OTHER                  -> "deleteInst")
        /\ UNCHANGED <<queued, faults>>
     \/ inst.state \in InFlight /\ Return(TRUE) /\ UNCHANGED faults
     \/ Fault /\ Return(TRUE)
  /\ UNCHANGED <<obj, cache, oxide, watch, stopped, edits>>

\* Mutant: what isn't there can't be deleted.
DeletedOrFails(o, gone, can, next) ==
  IF o = "ok" /\ ~gone /\ can
  THEN job' = Goto(next) /\ UNCHANGED queued
  ELSE Return(TRUE)

\* Mutant: what Oxide refuses to delete is left there.
DeletedOrGivesUp(o, gone, can, next) ==
  IF o = "ok" THEN job' = (IF gone \/ can THEN Goto(next) ELSE Idle) /\ UNCHANGED queued
  ELSE Return(TRUE)

\* A deletion that ends in o; what isn't there has been deleted.
Deleted(o, gone, can, next) ==
  IF o = "ok" /\ (gone \/ can)
  THEN job' = Goto(next) /\ UNCHANGED queued
  ELSE Return(TRUE)

CanDelete == inst.state \in {"stopped", "failed"}

DeleteInstance ==
  /\ At("deleteInst")
  /\ \E o \in Outcomes :
       /\ Call(o)
       /\ inst' = IF Applied(o, CanDelete) THEN NoInst ELSE inst
       /\ Deleted(o, inst.state = "none", CanDelete, AfterDelete)
  /\ UNCHANGED <<obj, cache, disk, watch, stopped, edits>>

\* Oxide refuses to delete an attached disk.
DeleteDisk ==
  /\ At("deleteDisk")
  /\ \E o \in Outcomes :
       /\ Call(o)
       /\ disk' = (disk /\ ~Applied(o, inst.state = "none"))
       /\ Deleted(o, ~disk, inst.state = "none", "removeFinalizer")
  /\ UNCHANGED <<obj, cache, inst, watch, stopped, edits>>

-----------------------------------------------------------------------------
(* The watcher.                                                            *)

\* runState: states on their way to Running or Stopped count as that.
RunState(s) ==
  CASE s \in {"running", "starting", "rebooting"} -> "Running"
    [] s \in {"stopped", "stopping"}              -> "Stopped"
    [] OTHER                                      -> s

\* GetDesiredState and TransformExternalState differ.
Drifted ==
  /\ ~cache.disabled
  /\ cache.size # inst.size \/ cache.run # RunState(inst.state)

\* The watcher fetches the instance of an object that IsResourceReadyToWatch, and
\* queues it if it has drifted.
Fetch ==
  /\ watched /\ poll = "none"
  /\ cache.phase # "absent" /\ cache.id
  /\ inst.state # "none"
  /\ poll' = inst.state
  /\ queued' = (queued \/ Drifted)
  /\ UNCHANGED <<obj, cache, job, oxide, watched, stopped, bounds>>

\* UpdateResourceStatus.
Report ==
  /\ poll # "none"
  /\ poll' = "none"
  /\ \/ /\ obj' = IF "absent" \in {cache.phase, obj.phase} THEN obj
                  ELSE [obj EXCEPT !.state = Merged(poll, cache.state, @)]
        /\ UNCHANGED faults
     \/ Fault /\ UNCHANGED obj
  /\ UNCHANGED <<cache, queued, job, oxide, watched, stopped, edits>>

-----------------------------------------------------------------------------
(* Informer, queue, crashes, users and Oxide.                              *)

\* What the controller's predicate lets through.
Changed(old, new) ==
  \/ new.gen # old.gen
  \/ new.disabled # old.disabled
  \/ new.phase = "absent"

\* The watcher registers on a new generation and forgets an object that is gone.
InformerSync ==
  /\ cache # obj
  /\ cache' = obj
  /\ queued' = (queued \/ Changed(cache, obj))
  /\ watched' = (obj.phase # "absent" /\ (watched \/ obj.gen # cache.gen))
  /\ UNCHANGED <<obj, job, oxide, poll, stopped, bounds>>

\* The operator dies; the next one lists every object, queues and watches it.
Crash ==
  /\ Fault
  /\ job' = Idle
  /\ cache' = obj
  /\ queued' = (obj.phase # "absent") /\ watched' = queued'
  /\ poll' = "none"
  /\ UNCHANGED <<obj, oxide, stopped, edits>>

Changes(e) ==
  CASE e = "size"     -> {[obj EXCEPT !.size = s, !.gen = @ + 1] : s \in Sizes \ {obj.size}}
    [] e = "run"      -> {[obj EXCEPT !.run = w, !.gen = @ + 1] : w \in Wanted \ {obj.run}}
    [] e = "prot"     -> {[obj EXCEPT !.prot = ~@, !.gen = @ + 1]}
    [] e = "disabled" -> {[obj EXCEPT !.disabled = ~@]}
    [] e = "delete"   -> IF obj.phase # "live" THEN {}
                         ELSE IF obj.fin THEN {[obj EXCEPT !.phase = "deleting", !.gen = @ + 1]}
                         ELSE {[obj EXCEPT !.phase = "absent"]}

UserEdits ==
  /\ edits < MaxEdits /\ edits' = edits + 1
  /\ obj.phase # "absent"
  /\ \E e \in Edits : obj' \in Changes(e)
  /\ UNCHANGED <<cache, queued, job, oxide, watch, stopped, faults>>

\* What Oxide finishes by itself.
OxideGoesOn ==
  /\ inst.state \in InFlight
  /\ inst' = [inst EXCEPT !.state =
       CASE inst.state = "creating"  -> IF inst.start THEN "starting" ELSE "stopped"
         [] inst.state = "stopping"  -> "stopped"
         [] OTHER                    -> "running"]
  /\ UNCHANGED <<k8s, job, disk, watch, stopped, bounds>>

\* A failed instance may be restarted by its auto-restart policy, or never.
AutoRestarts ==
  /\ inst.state = "failed"
  /\ inst' = [inst EXCEPT !.state = "starting"]
  /\ UNCHANGED <<k8s, job, disk, watch, stopped, bounds>>

From(o) == IF o = "delete" THEN {"stopped", "failed"} ELSE {"running"}
To(o) ==
  CASE o = "stop" -> "stopping" [] o = "reboot" -> "rebooting"
    [] o = "fail" -> "failed"   [] o = "delete" -> "none"

\* Other Oxide clients, or the instance itself.  Its boot disk stays when it is
\* deleted, until somebody deletes that too.
Outside ==
  \/ /\ Fault
     /\ \E o \in Outsiders :
          /\ inst.state \in From(o)
          /\ inst' = IF o = "delete" THEN NoInst ELSE [inst EXCEPT !.state = To(o)]
     /\ UNCHANGED <<k8s, job, disk, watch, stopped, edits>>
  \/ /\ "delete" \in Outsiders /\ inst.state = "none" /\ disk
     /\ disk' = FALSE
     /\ UNCHANGED <<k8s, job, inst, watch, stopped, bounds>>

Step ==
  \/ Reconcile \/ AddFinalizer \/ RemoveFinalizer \/ PatchStatus
  \/ ViewInstance \/ CreateInstance \/ StopInstance \/ ResizeInstance \/ StartInstance
  \/ ListIPs \/ ViewToDelete \/ DeleteInstance \/ DeleteDisk

Next ==
  \/ Step \/ Fetch \/ Report \/ InformerSync \/ Crash
  \/ UserEdits \/ OxideGoesOn \/ AutoRestarts \/ Outside

Spec == Init /\ [][Next]_vars

\* The worker, the informer and Oxide keep running; nothing is made to fail, to be
\* edited or to be restarted.  The watcher need not run: a reconcile is queued again
\* whatever its outcome.
Fairness ==
  /\ WF_vars(Step)
  /\ WF_vars(InformerSync)
  /\ WF_vars(OxideGoesOn)

FairSpec == Spec /\ Fairness

-----------------------------------------------------------------------------
(* What the controller promises.                                           *)

\* Types; an instance is looked up, created or deleted only for a copy of the object
\* with our finalizer.
TypeOK ==
  /\ obj \in Objects /\ cache \in Objects
  /\ queued \in BOOLEAN
  /\ job \in Jobs
  /\ inst \in [state : RunStates, size : Sizes \union {0}, start : BOOLEAN]
  /\ disk \in BOOLEAN
  /\ watched \in BOOLEAN /\ poll \in RunStates
  /\ stopped \subseteq Nat
  /\ faults \in Nat /\ edits \in Nat
  /\ At("view") \/ At("create") \/ At("viewToDelete") => job.obj.fin

\* The finalizer stays on the object as long as the instance or the boot disk made
\* with it exists in Oxide, whatever calls fail half way through a creation or a
\* deletion; only an object deleted under deletionProtection leaves them
\* (instance_controller.go:162).
InstanceIsHeld ==
  inst.state # "none" \/ disk => obj.fin \/ (obj.phase = "absent" /\ obj.prot)

\* A generation of the object stops the instance at most once: however often calls
\* fail and reconciles work from stale copies, a change restarts it, but never
\* again and again (instance_types.go:39, "Changing it restarts the instance").
OneStopPerChange ==
  [][StopInstance /\ inst' # inst => job.obj.gen \notin stopped]_vars

\* An object that is there and not opted out is always queued, being reconciled, or
\* about to be queued by an event: no failed call, crash, stale copy or edit makes the
\* controller lose it, and no outcome ends its retries (instance_controller.go:72).
NeverForgotten ==
  obj.phase # "absent" /\ ~obj.disabled => queued \/ ~At("idle") \/ Changed(cache, obj)

\* An instance has the size its object asks for as long as the object's generation is
\* reported as observed, also when the instance is deleted and made again and when
\* reconciles work from stale copies (instance_controller.go:74).
ObservedSizeIsReal ==
  inst.state # "none" /\ obj.obs = obj.gen => inst.size = obj.size

\* The controller implements the promise every controller makes: a finalizer comes
\* first, whatever the copies and the calls it works with, the object only goes
\* when the instance and its boot disk have gone or are to be kept, and nothing is
\* made for it after that (instance_controller.go:155).
Managed == INSTANCE ManagedResource WITH
  phase <- obj.phase, held <- obj.fin, protected <- obj.prot,
  exists <- inst.state # "none" \/ disk

ImplementsManaged == Managed!Spec

Wants == IF obj.run = "Running" THEN "running" ELSE "stopped"

Converged ==
  /\ inst.size = obj.size /\ inst.state = Wants
  /\ obj.id /\ obj.ready = "Ready" /\ obj.obs = obj.gen
  /\ obj.state = inst.state

Reachable == obj.phase = "live" /\ ~obj.disabled /\ inst.state # "failed"

\* A boot disk whose instance somebody has deleted: its name is taken, and the
\* controller never makes that instance again.
Orphaned == inst.state = "none" /\ disk

\* Once users and Oxide leave it alone the instance gets the size and the power
\* state the spec asks for, the object is Ready for its generation, and status.state
\* ends right although the controller and the watcher both patch it from their own
\* views (instance_controller.go:82).
Converges == <>[]Reachable /\ []<>~Orphaned => <>[]Converged

\* A deleted object goes, from whatever state its instance is in, as long as
\* reconciling is not switched off for it.
DeletionFinishes ==
  <>[](~obj.disabled) => (obj.phase = "deleting" ~> obj.phase = "absent")
=============================================================================
