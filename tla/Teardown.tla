------------------------------ MODULE Teardown ------------------------------
(***************************************************************************)
(* Creating and deleting the resources that need one another: a Project, a *)
(* Vpc and a Disk in it, a VpcSubnet in the Vpc, a Snapshot of the Disk    *)
(* and a clone, a Disk made from the Snapshot.  Each kind is reconciled by *)
(* its own controller; all need the OxideConnection, which goes last.      *)
(* Oxide refuses to delete what still has something in it, and to make     *)
(* anything from what isn't finished.                                      *)
(*                                                                         *)
(* Objects are created and deleted once, by users, at any time and in any  *)
(* order.  A reconcile may run whenever its object is in the informer      *)
(* cache: work queues, resyncs and retries only decide when.               *)
(***************************************************************************)
EXTENDS Integers, Sequences

CONSTANTS
  Scenes,      \* what there is to create, and what users and faults may do
  LateCreates  \* users create resources for a connection they are deleting

-----------------------------------------------------------------------------
(* What there can be in Oxide.  It puts a default VPC into every project   *)
(* and a default subnet into every VPC, and takes its time over disks and  *)
(* snapshots.                                                              *)

AllKinds == {"project", "vpc", "subnet", "disk", "snapshot", "clone"}

Parent ==
  [vpc |-> "project", defaultVpc |-> "project",
   subnet |-> "vpc", defaultSubnet |-> "vpc", subnetOfDefault |-> "defaultVpc",
   disk |-> "project", snapshot |-> "project", clone |-> "project"]

Things == {"project"} \cup DOMAIN Parent

Bring ==
  [k \in AllKinds |->
     CASE k = "project" -> {"project", "defaultVpc", "subnetOfDefault"}
       [] k = "vpc"     -> {"vpc", "defaultSubnet"}
       [] OTHER         -> {k}]

\* What a snapshot is taken of, and a clone made from.
Source == [snapshot |-> "disk", clone |-> "snapshot"]

Slow == {"disk", "snapshot", "clone"}

ASSUME ParametersAssumption ==
  /\ \A s \in Scenes :
       /\ s.kinds \subseteq AllKinds      \* the kinds of object there will be
       /\ s.protected \subseteq s.kinds   \* those with spec.deletionProtection
       /\ s.optsOut \subseteq s.kinds     \* those users take out of reconciling at times
       /\ s.byRef \in BOOLEAN            \* the subnet has spec.vpcRef, not spec.vpc
       /\ s.byRef => "vpc" \in s.kinds
       /\ s.given \subseteq Things        \* what is in Oxide already
       /\ \A k \in s.kinds : Bring[k] \cap s.given = {}
       /\ s.stays \in BOOLEAN            \* the connection is not deleted
       /\ s.faults \in Nat               \* bound: failed calls, lost answers, crashes,
                                         \* and resources that come out faulted
  /\ LateCreates \in BOOLEAN

VARIABLES
  scene,      \* the scene played
  obj,        \* the objects at the API server
  cache,      \* the operator's informer caches of them
  job,        \* the running reconcile of each
  conn,       \* phase of the OxideConnection, which has its finalizer
  connCache,  \* the informer cache's
  connJob,    \* the running reconcile of the deleted connection
  ox,         \* what there is in Oxide
  making,     \* and of that what Oxide is still making
  faulted,    \* and what came out faulted
  faults

oxide == <<ox, making, faulted>>
vars == <<scene, obj, cache, job, conn, connCache, connJob, oxide, faults>>

connection == <<conn, connCache, connJob>>

Kinds == scene.kinds
Protected == scene.protected

Phases == {"absent", "live", "deleting", "gone"}
Objects == [phase : Phases, fin : BOOLEAN, id : BOOLEAN, ready : BOOLEAN, disabled : BOOLEAN]
NoObject ==
  [phase |-> "absent", fin |-> FALSE, id |-> FALSE, ready |-> FALSE, disabled |-> FALSE]

Exists(o) == o.phase \in {"live", "deleting"}

Usable(x) == x \in ox \ (making \cup faulted)

Creatable(k) ==
  /\ k \notin ox
  /\ k # "project" => Parent[k] \in ox
  /\ k \in DOMAIN Source => Usable(Source[k])

Emptied(x) == \A y \in ox : y \in DOMAIN Parent => Parent[y] # x

-----------------------------------------------------------------------------
(* A reconcile's steps.                                                    *)

Steps == {"idle", "client", "view", "source", "create", "rules", "patch", "delete", "unfinalize"}

Jobs == [pc : Steps, img : Objects, todo : Seq(Things), ok : BOOLEAN, id : BOOLEAN]
Idle == [pc |-> "idle", img |-> NoObject, todo |-> <<>>, ok |-> FALSE, id |-> FALSE]

Init ==
  /\ scene \in Scenes
  /\ obj = [k \in Kinds |-> NoObject]
  /\ cache = obj
  /\ job = [k \in Kinds |-> Idle]
  /\ conn = "live" /\ connCache = "live"
  /\ connJob = [pc |-> "idle", left |-> {}, inUse |-> FALSE]
  /\ ox = scene.given /\ making = {} /\ faulted = {}
  /\ faults = 0

At(k, pc) == job[k].pc = pc

Goto(k, pc) == job' = [job EXCEPT ![k].pc = pc]
Return(k)   == job' = [job EXCEPT ![k] = Idle]

\* setReady's error outcome, and the status patch that follows.
Fails(k) == job' = [job EXCEPT ![k].pc = "patch"]

Fault == faults < scene.faults /\ faults' = faults + 1

\* Mutant: everything is removed in the order it was made.
ParentsFirst(k) ==
  CASE k = "project" -> <<"subnetOfDefault", "project", "defaultVpc">>
    [] k = "vpc"     -> <<"vpc", "defaultSubnet">>
    [] OTHER         -> <<k>>

\* What handleDelete and deleteVpc delete, in their order.
Removes(k) ==
  CASE k = "project" -> <<"subnetOfDefault", "defaultVpc", "project">>
    [] k = "vpc"     -> <<"defaultSubnet", "vpc">>
    [] OTHER         -> <<k>>

-----------------------------------------------------------------------------
(* Reconcile.                                                              *)

Started(k, img, pc) == job' = [job EXCEPT ![k] = [Idle EXCEPT !.pc = pc, !.img = img]]

\* Mutant: the finalizer is left for later.
NoFinalizerYet(k) == UNCHANGED obj

\* An Update from a stale cached object conflicts: the object must be the cached one.
AddFinalizer(k) ==
  /\ obj[k] = cache[k]
  /\ obj' = [obj EXCEPT ![k].fin = TRUE]

\* reconcileDisabled: an object with the annotation is left as it is, in deletion too.
Reconciled(k) == ~cache[k].disabled

ReconcileLive(k) ==
  /\ At(k, "idle") /\ cache[k].phase = "live" /\ Reconciled(k)
  /\ \/ cache[k].fin /\ UNCHANGED obj /\ Started(k, cache[k], "client")
     \/ ~cache[k].fin /\ AddFinalizer(k) /\ Started(k, obj'[k], "client")
  /\ UNCHANGED <<scene, cache, connection, oxide, faults>>

\* Mutant: deletion protection is not looked at.
Unprotected(k) == "client"

FirstDeleteStep(k) == IF k \in Protected THEN "unfinalize" ELSE "client"

\* handleDelete; deletion protection only drops the finalizer.
ReconcileDeleted(k) ==
  /\ At(k, "idle") /\ cache[k].phase = "deleting" /\ Reconciled(k) /\ cache[k].fin
  /\ Started(k, cache[k], FirstDeleteStep(k))
  /\ UNCHANGED <<scene, obj, cache, connection, oxide, faults>>

\* subnetVpc's error; with waitReady, the Vpc must also be Ready.
NoVpc(k, waitReady) ==
  /\ k = "subnet" /\ scene.byRef
  /\ ~Exists(cache["vpc"]) \/ (waitReady /\ ~cache["vpc"].ready)

\* NewClientFromRef, and the subnet's VPC.
ClientLive(k) ==
  /\ At(k, "client") /\ job[k].img.phase = "live"
  /\ \/ connCache # "gone" /\ ~NoVpc(k, TRUE) /\ Goto(k, "view") /\ UNCHANGED faults
     \/ (connCache = "gone" \/ NoVpc(k, TRUE)) /\ Fails(k) /\ UNCHANGED faults
     \/ Fault /\ Fails(k)
  /\ UNCHANGED <<scene, obj, cache, connection, oxide>>

\* Mutant: the recorded ID is not used.
VpcNeeded(k) == connCache # "gone" /\ ~NoVpc(k, FALSE)

\* A subnet with a recorded ID needs no VPC.
Deletable(k) == connCache # "gone" /\ (NoVpc(k, FALSE) => job[k].img.id)

ClientDeleted(k) ==
  /\ At(k, "client") /\ job[k].img.phase = "deleting"
  /\ \/ /\ Deletable(k)
        /\ job' = [job EXCEPT ![k].pc = "delete", ![k].todo = Removes(k)]
        /\ UNCHANGED faults
     \/ ~Deletable(k) /\ Return(k) /\ UNCHANGED faults
     \/ Fault /\ Return(k)
  /\ UNCHANGED <<scene, obj, cache, connection, oxide>>

\* Mutant: the state is recorded and not looked at.
StateIgnored(k, good) ==
  job' = [job EXCEPT ![k].pc = IF k = "vpc" THEN "rules" ELSE "patch",
                     ![k].id = TRUE, ![k].ok = TRUE]

\* The ID is known: the outcome hangs on the state of a disk or snapshot, and on a
\* Vpc's firewall rules.
Known(k, good) ==
  job' = [job EXCEPT ![k].pc = IF k = "vpc" THEN "rules" ELSE "patch",
                     ![k].id = TRUE, ![k].ok = good]

\* Mutant: the state is read once, when the ID is recorded.
SeenOnce(k) ==
  /\ At(k, "view")
  /\ \/ k \in ox /\ Known(k, IF job[k].img.id THEN job[k].img.ready ELSE Usable(k)) /\ UNCHANGED faults
     \/ k \notin ox /\ Goto(k, IF k = "clone" THEN "source" ELSE "create") /\ UNCHANGED faults
     \/ Fault /\ Fails(k)
  /\ UNCHANGED <<scene, obj, cache, connection, oxide>>

\* Updating a description or DNS name that differs can fail like the view itself.
View(k) ==
  /\ At(k, "view")
  /\ \/ k \in ox /\ Known(k, Usable(k)) /\ UNCHANGED faults
     \/ k \notin ox /\ Goto(k, IF k = "clone" THEN "source" ELSE "create") /\ UNCHANGED faults
     \/ Fault /\ Fails(k)
  /\ UNCHANGED <<scene, obj, cache, connection, oxide>>

\* diskSource: the disk's snapshot is looked up, whatever state it is in.
FindSource(k) ==
  /\ At(k, "source")
  /\ \/ Source[k] \in ox /\ Goto(k, "create") /\ UNCHANGED faults
     \/ Source[k] \notin ox /\ Fails(k) /\ UNCHANGED faults
     \/ Fault /\ Fails(k)
  /\ UNCHANGED <<scene, obj, cache, connection, oxide>>

Made(k) ==
  /\ Creatable(k)
  /\ ox' = ox \cup Bring[k]
  /\ making' = making \cup (Slow \cap {k})
  /\ UNCHANGED faulted

\* The answer of a call that took effect may be lost.
Create(k) ==
  /\ At(k, "create")
  /\ \/ Made(k) /\ Known(k, k \notin Slow) /\ UNCHANGED faults
     \/ Made(k) /\ Fails(k) /\ Fault
     \/ ~Creatable(k) /\ Fails(k) /\ UNCHANGED <<oxide, faults>>
     \/ Fault /\ Fails(k) /\ UNCHANGED oxide
  /\ UNCHANGED <<scene, obj, cache, connection>>

UpdateRules(k) ==
  /\ At(k, "rules")
  /\ \/ Goto(k, "patch") /\ UNCHANGED faults
     \/ Fault /\ job' = [job EXCEPT ![k].pc = "patch", ![k].ok = FALSE]
  /\ UNCHANGED <<scene, obj, cache, connection, oxide>>

\* The merge patch sends what differs from the object the reconcile read.
Merged(was, new, stored) == IF new # was THEN new ELSE stored

Patched(k) ==
  IF Exists(obj[k])
    THEN [obj EXCEPT
           ![k].id    = Merged(job[k].img.id, job[k].id \/ job[k].img.id, @),
           ![k].ready = Merged(job[k].img.ready, job[k].ok, @)]
    ELSE obj

PatchStatus(k) ==
  /\ At(k, "patch")
  /\ \/ obj' = Patched(k) /\ UNCHANGED faults
     \/ Fault /\ UNCHANGED obj
  /\ Return(k)
  /\ UNCHANGED <<scene, cache, connection, oxide>>

-----------------------------------------------------------------------------
(* handleDelete's calls.                                                   *)

\* Mutant: one deletion too many.
RemovedLate(k) ==
  job' = [job EXCEPT ![k].todo = Tail(@),
                     ![k].pc = IF job[k].todo = <<>> THEN "unfinalize" ELSE @]

\* Mutant: the last deletion is not waited for.
RemovedEarly(k) ==
  job' = [job EXCEPT ![k].todo = Tail(@),
                     ![k].pc = IF Len(job[k].todo) <= 2 THEN "unfinalize" ELSE @]

Removed(k) ==
  job' = [job EXCEPT ![k].todo = Tail(@),
                     ![k].pc = IF Len(job[k].todo) = 1 THEN "unfinalize" ELSE @]

Gone(x) ==
  /\ x \in ox /\ Emptied(x) /\ x \notin making
  /\ ox' = ox \ {x} /\ faulted' = faulted \ {x}
  /\ UNCHANGED making

\* What isn't found has been deleted; what has something in it, or is still being
\* made, is refused.
Delete(k) ==
  LET x == Head(job[k].todo)
  IN /\ At(k, "delete")
     /\ \/ x \notin ox /\ Removed(k) /\ UNCHANGED <<oxide, faults>>
        \/ Gone(x) /\ Removed(k) /\ UNCHANGED faults
        \/ Gone(x) /\ Return(k) /\ Fault
        \/ x \in ox /\ (~Emptied(x) \/ x \in making) /\ Return(k) /\ UNCHANGED <<oxide, faults>>
        \/ Fault /\ Return(k) /\ UNCHANGED oxide
     /\ UNCHANGED <<scene, obj, cache, connection>>

\* Without its finalizer the object goes.  A stale Update conflicts.
RemoveFinalizer(k) ==
  /\ At(k, "unfinalize")
  /\ \/ /\ obj[k] = job[k].img
        /\ obj' = [obj EXCEPT ![k] = [NoObject EXCEPT !.phase = "gone"]]
        /\ UNCHANGED faults
     \/ obj[k] # job[k].img /\ UNCHANGED <<obj, faults>>
     \/ Fault /\ UNCHANGED obj
  /\ Return(k)
  /\ UNCHANGED <<scene, cache, connection, oxide>>

-----------------------------------------------------------------------------
(* The deleted OxideConnection: handleDelete and inUse.  It has no          *)
(* reconcile-mode annotation itself; what has one still uses it.            *)

StartConnection ==
  /\ connJob.pc = "idle" /\ connCache = "deleting"
  /\ connJob' = [pc |-> "list", left |-> Kinds, inUse |-> FALSE]
  /\ UNCHANGED <<scene, obj, cache, job, conn, connCache, oxide, faults>>

\* Mutant: VPCs don't count as users.
VpcsIgnored(k) == k # "vpc" /\ Exists(cache[k])

Uses(k) == Exists(cache[k])

\* The kinds are listed from the cache one after the other.
ListUsers(k) ==
  /\ connJob.pc = "list" /\ k \in connJob.left
  /\ connJob' = [connJob EXCEPT !.left = @ \ {k}, !.inUse = @ \/ Uses(k),
                                !.pc = IF connJob.left = {k} THEN "decide" ELSE @]
  /\ UNCHANGED <<scene, obj, cache, job, conn, connCache, oxide, faults>>

RemoveConnection ==
  /\ connJob.pc = "decide"
  /\ \/ ~connJob.inUse /\ conn' = "gone" /\ UNCHANGED faults
     \/ connJob.inUse /\ UNCHANGED <<conn, faults>>
     \/ ~connJob.inUse /\ Fault /\ UNCHANGED conn
  /\ connJob' = [connJob EXCEPT !.pc = "idle", !.inUse = FALSE]
  /\ UNCHANGED <<scene, obj, cache, job, connCache, oxide>>

-----------------------------------------------------------------------------
(* Users, informers and crashes.                                           *)

CreateObject(k) ==
  /\ obj[k].phase = "absent"
  /\ LateCreates \/ conn = "live"
  /\ obj' = [obj EXCEPT ![k].phase = "live"]
  /\ UNCHANGED <<scene, cache, job, connection, oxide, faults>>

DeleteObject(k) ==
  /\ obj[k].phase = "live"
  /\ obj' = [obj EXCEPT ![k] =
       IF @.fin THEN [@ EXCEPT !.phase = "deleting"] ELSE [NoObject EXCEPT !.phase = "gone"]]
  /\ UNCHANGED <<scene, cache, job, connection, oxide, faults>>

\* The reconcile-mode annotation is set or removed.
Annotate(k) ==
  /\ k \in scene.optsOut /\ Exists(obj[k])
  /\ obj' = [obj EXCEPT ![k].disabled = ~@]
  /\ UNCHANGED <<scene, cache, job, connection, oxide, faults>>

\* Without LateCreates, what uses the connection has been there for a while.
DeleteConnection ==
  /\ conn = "live" /\ ~scene.stays
  /\ LateCreates \/ \A k \in Kinds : cache[k].phase = "absent" => obj[k].phase = "absent"
  /\ conn' = "deleting"
  /\ UNCHANGED <<scene, obj, cache, job, connCache, connJob, oxide, faults>>

InformerSync(k) ==
  /\ cache[k] # obj[k]
  /\ cache' = [cache EXCEPT ![k] = obj[k]]
  /\ UNCHANGED <<scene, obj, job, connection, oxide, faults>>

ConnectionSync ==
  /\ connCache # conn
  /\ connCache' = conn
  /\ UNCHANGED <<scene, obj, cache, job, conn, connJob, oxide, faults>>

Crash ==
  /\ Fault
  /\ job' = [k \in Kinds |-> Idle]
  /\ connJob' = [pc |-> "idle", left |-> {}, inUse |-> FALSE]
  /\ cache' = obj
  /\ connCache' = conn
  /\ UNCHANGED <<scene, obj, conn, oxide>>

\* Oxide finishes what it makes, or gives up.
Finish(x) ==
  /\ x \in making
  /\ making' = making \ {x}
  /\ \/ UNCHANGED <<faulted, faults>>
     \/ Fault /\ faulted' = faulted \cup {x}
  /\ UNCHANGED <<scene, obj, cache, job, connection, ox>>

-----------------------------------------------------------------------------
(* The controllers.                                                        *)

Common(k) ==
  \/ ReconcileLive(k) \/ ReconcileDeleted(k) \/ ClientLive(k) \/ ClientDeleted(k)
  \/ View(k) \/ Create(k) \/ PatchStatus(k)
  \/ Delete(k) \/ RemoveFinalizer(k)

ProjectStep(k)  == k = "project" /\ Common(k)
VpcStep(k)      == k = "vpc" /\ (Common(k) \/ UpdateRules(k))
SubnetStep(k)   == k = "subnet" /\ Common(k)
DiskStep(k)     == k \in {"disk", "clone"} /\ (Common(k) \/ FindSource(k))
SnapshotStep(k) == k = "snapshot" /\ Common(k)

ResourceStep(k) ==
  ProjectStep(k) \/ VpcStep(k) \/ SubnetStep(k) \/ DiskStep(k) \/ SnapshotStep(k)

ConnectionStep == StartConnection \/ RemoveConnection \/ \E k \in Kinds : ListUsers(k)

Next ==
  \/ \E k \in Kinds : \/ ResourceStep(k) \/ InformerSync(k)
                     \/ CreateObject(k) \/ DeleteObject(k) \/ Annotate(k)
  \/ ConnectionStep \/ ConnectionSync \/ DeleteConnection
  \/ \E x \in making : Finish(x)
  \/ Crash

Spec == Init /\ [][Next]_vars

\* Each controller has a worker of its own and retries; informers keep up, and Oxide
\* finishes what it makes.
Fairness ==
  /\ \A k \in AllKinds : /\ WF_vars(k \in Kinds /\ ResourceStep(k))
                         /\ WF_vars(k \in Kinds /\ InformerSync(k))
  /\ WF_vars(ConnectionStep) /\ WF_vars(ConnectionSync)
  /\ WF_vars(\E x \in making : Finish(x))

FairSpec == Spec /\ Fairness

-----------------------------------------------------------------------------
(* What deleting promises.                                                 *)

TypeOK ==
  /\ scene \in Scenes
  /\ obj \in [Kinds -> Objects] /\ cache \in [Kinds -> Objects]
  /\ job \in [Kinds -> Jobs]
  /\ conn \in Phases /\ connCache \in Phases
  /\ connJob \in [pc : {"idle", "list", "decide"}, left : SUBSET Kinds, inUse : BOOLEAN]
  /\ ox \subseteq Things /\ making \subseteq ox /\ faulted \subseteq ox
  /\ faults \in Nat
  /\ \A k \in Kinds : At(k, "delete") => job[k].todo # <<>>

\* When an unprotected object is gone, so is everything its controller had brought
\* into Oxide, down to the defaults Oxide added, also when its controller crashed,
\* lost answers or worked from a stale cache (vpc_controller.go:125).
NothingLeftBehind ==
  \A k \in Kinds \ Protected : obj[k].phase = "gone" => Bring[k] \cap ox = {}

\* While an object has the finalizer the connection is there, so that its deletion
\* can still reach Oxide (oxideconnection_controller.go:95).
ConnectionOutlivesUsers ==
  conn = "gone" => \A k \in Kinds : ~obj[k].fin

\* What a protected object stands for in Oxide stays, whatever is deleted around it
\* (common_types.go:42).
ProtectedStays ==
  [][\A k \in Protected : k \in ox => k \in ox']_vars

\* A live object that is Ready has what it stands for in Oxide, and it can be used: the
\* controllers of other kinds, deleted ones, faulted resources and patches from stale
\* copies take nothing from it (disk_controller.go:100-109, project_controller.go:125).
ReadyIsUsable ==
  \A k \in Kinds : obj[k].phase = "live" /\ obj[k].ready => Usable(k)

\* Seen one by one, the kinds keep the promise every controller makes: the finalizer
\* comes before anything is in Oxide for the object, and only goes, with the object,
\* when nothing is left of it, the defaults Oxide added included, or all is to stay
\* (vpc_controller.go:63, 125).
Resource(k) ==
  INSTANCE ManagedResource WITH
    phase     <- IF k \notin Kinds \/ obj[k].phase = "absent" THEN "none"
                 ELSE IF obj[k].phase = "gone" THEN "absent" ELSE obj[k].phase,
    held      <- k \in Kinds /\ obj[k].fin,
    protected <- k \in Protected,
    exists    <- k \in Kinds /\ Bring[k] \cap ox # {}

ImplementsManaged ==
  /\ \A k \in AllKinds : Resource(k)!Init
  /\ [][\A k \in AllKinds : [Resource(k)!Next]_(Resource(k)!vars)]_vars

Doomed(p) == p \in {"absent", "deleting", "gone"}
AllDoomed == Doomed(conn) /\ \A k \in Kinds : Doomed(obj[k].phase)
AllGone == conn = "gone" /\ \A k \in Kinds : ~Exists(obj[k])

\* In the end nothing is opted out of reconciling (project_controller.go:54).
AllReconciled == <>[](\A k \in Kinds : ~obj[k].disabled)

\* Deleted all at once, everything goes, in whatever order Oxide allows, unless it is
\* opted out (oxideconnection_controller.go:95).
EverythingGoes == AllReconciled => (AllDoomed ~> AllGone)

\* The same, protected or not, half made or not, opted out for a while or not, once a
\* subnet that refers to a Vpc object has its ID recorded (vpcsubnet_controller.go:133).
RecordedGoes ==
  LET recorded == scene.byRef /\ "subnet" \in Kinds /\ Exists(obj["subnet"]) => obj["subnet"].id
  IN AllReconciled => ((AllDoomed /\ recorded) ~> AllGone)

AllWanted ==
  /\ conn = "live" /\ faulted = {}
  /\ \A k \in Kinds : obj[k].phase = "live" /\ ~obj[k].disabled

\* Objects that are left alone, and not opted out, all become Ready and stay so,
\* whatever order they were created in, what they need before or after them
\* (disk_controller.go:86, vpcsubnet_controller.go:164).
ComesUp == <>[]AllWanted => <>[](\A k \in Kinds : obj[k].ready)
=============================================================================
