-------------------------- MODULE InstancesProofs --------------------------
(***************************************************************************)
(* Proofs about the Instance controller for every set of sizes, every      *)
(* bound and whatever happens to the instance besides.                     *)
(***************************************************************************)
EXTENDS Instances, TLAPS

-----------------------------------------------------------------------------
(* Types.                                                                  *)

\* The steps that rely on the copy's finalizer.
UnderFinalizer == At("view") \/ At("create") \/ At("viewToDelete") => job.obj.fin

Insts == [state : RunStates, size : Sizes \union {0}, start : BOOLEAN]

LEMMA BlankType == NoObject \in Objects /\ Idle \in Jobs
BY DEF NoObject, Objects, Phases, Wanted, RunStates, Results, Idle, Jobs, Steps

LEMMA InitType == Init => TypeOK
<1> SUFFICES ASSUME Init PROVE TypeOK
  OBVIOUS
<1>1. obj \in Objects
  <2>1. PICK size \in Made, run \in MadeRun, prot \in Prots :
          obj = [NoObject EXCEPT !.phase = "live", !.prot = prot, !.gen = 1,
                                 !.size = size, !.run = run]
    BY DEF Init
  <2> QED
    BY <2>1, BlankType, OutsideAssumption DEF NoObject, Objects, Phases, Wanted
<1> QED
  BY <1>1, BlankType DEF Init, TypeOK, NoInst, RunStates, Idle, At

LEMMA FaultType ==
  ASSUME TypeOK PROVE (Fault => faults' \in Nat) /\ \A o : Call(o) => faults' \in Nat
BY DEF TypeOK, Fault, Call

\* Reconcile returns, or goes on to a step that needs no finalizer.
LEMMA ReturnType ==
  ASSUME NEW again \in BOOLEAN, queued \in BOOLEAN, Return(again)
  PROVE  job' \in Jobs /\ queued' \in BOOLEAN /\ UnderFinalizer'
BY BlankType DEF Return, UnderFinalizer, At, Idle

LEMMA GotoType ==
  ASSUME TypeOK, NEW pc \in Steps \ {"view", "create", "viewToDelete"}, job' = Goto(pc)
  PROVE  job' \in Jobs /\ UnderFinalizer'
BY DEF TypeOK, Goto, Jobs, UnderFinalizer, At

LEMMA OutcomeType ==
  ASSUME TypeOK, NEW res \in Results, job' = Outcome(res)
  PROVE  job' \in Jobs /\ UnderFinalizer'
BY DEF TypeOK, Outcome, Jobs, Steps, UnderFinalizer, At

LEMMA AfterViewType ==
  ASSUME TypeOK, NEW cur, cur.state \in RunStates, job' = AfterView(cur)
  PROVE  /\ job' \in Jobs /\ UnderFinalizer'
         /\ job'.obj = job.obj
         /\ job'.pc \in {"resize", "stop", "start", "listIPs", "patch"}
<1> DEFINE go(pc)    == [job EXCEPT !.id = TRUE, !.state = cur.state, !.pc = pc]
           done(res) == [go("patch") EXCEPT !.res = res]
<1>1. \/ \E pc \in {"resize", "stop", "start", "listIPs"} : job' = go(pc)
      \/ \E res \in Results : job' = done(res)
  BY DEF AfterView, Results
<1>2. ASSUME NEW pc \in {"resize", "stop", "start", "listIPs"}, job' = go(pc)
      PROVE  job' \in Jobs /\ job'.obj = job.obj /\ job'.pc = pc
  BY <1>2 DEF TypeOK, Jobs, Steps
<1>3. ASSUME NEW res \in Results, job' = done(res)
      PROVE  job' \in Jobs /\ job'.obj = job.obj /\ job'.pc = "patch"
  BY <1>3 DEF TypeOK, Jobs, Steps
<1> QED
  BY <1>1, <1>2, <1>3 DEF UnderFinalizer, At

LEMMA ReconcileType ==
  ASSUME TypeOK, Reconcile PROVE TypeOK'
<1>1. CASE LeftAlone(cache)
  BY <1>1, BlankType DEF Reconcile, TypeOK, k8s, oxide, bounds, Idle, At
<1>2. CASE ~LeftAlone(cache)
  <2>1. /\ FirstStep(cache) \in Steps
        /\ FirstStep(cache) \in {"view", "create", "viewToDelete"} => cache.fin
    BY <1>2 DEF FirstStep, LeftAlone, Steps, TypeOK, Objects, Phases
  <2> DEFINE p == FirstStep(cache)
  <2>2. job' = [pc |-> p, obj |-> cache, id |-> cache.id, state |-> cache.state, res |-> "Error"]
    BY <1>2 DEF Reconcile
  <2> HIDE DEF p
  <2>3. job' \in Jobs /\ UnderFinalizer'
    BY <2>1, <2>2 DEF p, TypeOK, Objects, Jobs, Results, UnderFinalizer, At
  <2> QED
    BY <2>3 DEF Reconcile, TypeOK, oxide, bounds, UnderFinalizer
<1> QED
  BY <1>1, <1>2

LEMMA FinalizerType ==
  ASSUME TypeOK, AddFinalizer \/ RemoveFinalizer PROVE TypeOK'
<1>1. obj' \in Objects
  <2>1. [job.obj EXCEPT !.fin = TRUE] \in Objects
    BY DEF TypeOK, Jobs, Objects
  <2>2. [obj EXCEPT !.phase = "absent", !.fin = FALSE] \in Objects
    BY DEF TypeOK, Objects, Phases
  <2> QED
    BY <2>1, <2>2 DEF AddFinalizer, RemoveFinalizer, TypeOK
<1>2. faults' \in Nat
  BY FaultType DEF AddFinalizer, RemoveFinalizer
<1>3. job' \in Jobs /\ queued' \in BOOLEAN /\ UnderFinalizer'
  <2>1. CASE \E again \in BOOLEAN : Return(again)
    BY <2>1, ReturnType DEF TypeOK
  <2>2. CASE /\ job' = [job EXCEPT !.pc = "view", !.obj = [job.obj EXCEPT !.fin = TRUE]]
             /\ queued' = queued
    BY <2>2 DEF TypeOK, Jobs, Objects, Steps, UnderFinalizer, At
  <2> QED
    BY <2>1, <2>2 DEF AddFinalizer, RemoveFinalizer, Answered
<1> QED
  BY <1>1, <1>2, <1>3 DEF AddFinalizer, RemoveFinalizer, TypeOK, oxide, watch, UnderFinalizer

LEMMA PatchType ==
  ASSUME TypeOK, PatchStatus PROVE TypeOK'
<1>1. Patched \in Objects
  BY DEF Patched, Merged, Observed, TypeOK, Objects, Jobs, Results
<1>2. obj' \in Objects /\ faults' \in Nat
  BY <1>1 DEF PatchStatus, Call, Fault, TypeOK
<1>3. job' \in Jobs /\ queued' \in BOOLEAN /\ UnderFinalizer'
  BY ReturnType DEF PatchStatus, TypeOK
<1> QED
  BY <1>2, <1>3 DEF PatchStatus, TypeOK, oxide, watch, UnderFinalizer

\* The calls for a live object.
LEMMA LiveType ==
  ASSUME TypeOK,
         ViewInstance \/ CreateInstance \/ ResizeInstance \/ StartInstance \/ ListIPs
  PROVE  TypeOK'
<1>1. UNCHANGED <<k8s, watch, stopped, edits>> /\ faults' \in Nat
  BY DEF ViewInstance, CreateInstance, ResizeInstance, StartInstance, ListIPs, Call, Fault, TypeOK
<1>2. inst' \in Insts /\ disk' \in BOOLEAN
  <2>1. NewInst \in Insts
    BY DEF NewInst, Insts, TypeOK, Jobs, Objects, RunStates
  <2>2. [inst EXCEPT !.size = job.obj.size] \in Insts /\ [inst EXCEPT !.state = "starting"] \in Insts
    BY DEF Insts, TypeOK, Jobs, Objects, RunStates
  <2>3. inst' \in {inst, NewInst, [inst EXCEPT !.size = job.obj.size], [inst EXCEPT !.state = "starting"]}
    BY DEF ViewInstance, CreateInstance, ResizeInstance, StartInstance, ListIPs, oxide
  <2>4. disk' \in BOOLEAN
    BY DEF ViewInstance, CreateInstance, ResizeInstance, StartInstance, ListIPs, oxide, TypeOK
  <2> QED
    BY <2>1, <2>2, <2>3, <2>4 DEF TypeOK, Insts
<1>3. job' \in Jobs /\ UnderFinalizer'
  <2>1. CASE job' = AfterView(Viewed)
    BY <2>1, AfterViewType DEF Viewed, TypeOK
  <2>2. CASE job' = AfterView([state |-> NewInst.state, size |-> NewInst.size])
    BY <2>2, AfterViewType DEF NewInst, RunStates
  <2>3. CASE \E res \in Results : job' = Outcome(res)
    BY <2>3, OutcomeType
  <2>4. CASE ViewInstance /\ job' = Goto("create")
    BY <2>4 DEF ViewInstance, Goto, TypeOK, Jobs, Steps, UnderFinalizer, At
  <2> QED
    BY <2>1, <2>2, <2>3, <2>4
       DEF ViewInstance, CreateInstance, ResizeInstance, StartInstance, ListIPs, Results
<1> QED
  BY <1>1, <1>2, <1>3 DEF TypeOK, k8s, watch, UnderFinalizer, Insts

\* The calls for a deleted object, and the one both have.
LEMMA DeletedType ==
  ASSUME TypeOK, StopInstance \/ ViewToDelete \/ DeleteInstance \/ DeleteDisk
  PROVE  TypeOK'
<1>1. UNCHANGED <<obj, cache, watch, edits>>
  BY DEF StopInstance, ViewToDelete, DeleteInstance, DeleteDisk
<1>5. faults' \in Nat
  BY FaultType DEF StopInstance, ViewToDelete, DeleteInstance, DeleteDisk, TypeOK
<1>2. stopped' \subseteq Nat
  <2>1. job.obj.gen \in Nat
    BY DEF TypeOK, Jobs, Objects
  <2>2. stopped' = stopped \/ stopped' = stopped \union {job.obj.gen}
    BY DEF StopInstance, ViewToDelete, DeleteInstance, DeleteDisk
  <2> QED
    BY <2>1, <2>2 DEF TypeOK
<1>4. inst' \in Insts /\ disk' \in BOOLEAN
  <2>1. NoInst \in Insts /\ [inst EXCEPT !.state = "stopping"] \in Insts
    BY DEF Insts, NoInst, TypeOK, RunStates
  <2>2. inst' \in {inst, NoInst, [inst EXCEPT !.state = "stopping"]}
    BY DEF StopInstance, ViewToDelete, DeleteInstance, DeleteDisk, oxide
  <2>3. disk' \in BOOLEAN
    BY DEF StopInstance, ViewToDelete, DeleteInstance, DeleteDisk, oxide, TypeOK
  <2> QED
    BY <2>1, <2>2, <2>3 DEF TypeOK, Insts
<1>3. job' \in Jobs /\ queued' \in BOOLEAN /\ UnderFinalizer'
  <2>1. CASE \E again \in BOOLEAN : Return(again)
    BY <2>1, ReturnType DEF TypeOK
  <2>2. CASE queued' = queued /\ \E res \in Results : job' = Outcome(res)
    BY <2>2, OutcomeType DEF TypeOK
  <2>3. CASE /\ queued' = queued
             /\ \E pc \in {"stop", "deleteInst", "deleteDisk", "removeFinalizer"} : job' = Goto(pc)
    BY <2>3, GotoType DEF TypeOK, Steps
  <2> QED
    BY <2>1, <2>2, <2>3
       DEF StopInstance, ViewToDelete, DeleteInstance, DeleteDisk, Deleted, AfterDelete, Results
<1> QED
  BY <1>1, <1>2, <1>3, <1>4, <1>5 DEF TypeOK, watch, UnderFinalizer, Insts

\* What a user makes of the object.
LEMMA EditType ==
  ASSUME TypeOK, NEW e \in Edits, NEW new \in Changes(e)
  PROVE  new \in Objects
<1>1. obj \in Objects /\ obj.gen + 1 \in Nat
  BY DEF TypeOK, Objects
<1>2. /\ \A size \in Sizes : [obj EXCEPT !.size = size, !.gen = @ + 1] \in Objects
      /\ \A run \in Wanted : [obj EXCEPT !.run = run, !.gen = @ + 1] \in Objects
      /\ [obj EXCEPT !.prot = ~@, !.gen = @ + 1] \in Objects
      /\ [obj EXCEPT !.disabled = ~@] \in Objects
  BY <1>1 DEF Objects
<1>3. /\ [obj EXCEPT !.phase = "deleting", !.gen = @ + 1] \in Objects
      /\ [obj EXCEPT !.phase = "absent"] \in Objects
  BY <1>1 DEF Objects, Phases
<1> QED
  BY <1>2, <1>3, OutsideAssumption DEF Changes

LEMMA SurroundingsType ==
  ASSUME TypeOK,
         Fetch \/ Report \/ InformerSync \/ Crash \/ UserEdits \/ OxideGoesOn \/ AutoRestarts \/ Outside
  PROVE  TypeOK'
<1> USE DEF TypeOK, k8s, oxide, watch, bounds, At
<1>1. CASE Fetch
  BY <1>1 DEF Fetch
<1>2. CASE Report
  <2>1. obj' \in Objects
    BY <1>2 DEF Report, Merged, Objects
  <2> QED
    BY <1>2, <2>1 DEF Report, Fault, RunStates
<1>3. CASE InformerSync
  BY <1>3 DEF InformerSync, Changed
<1>4. CASE Crash
  BY <1>4, BlankType DEF Crash, Fault, Idle, RunStates
<1>5. CASE UserEdits
  BY <1>5, EditType DEF UserEdits
<1>6. CASE OxideGoesOn
  BY <1>6 DEF OxideGoesOn, RunStates
<1>7. CASE AutoRestarts
  BY <1>7 DEF AutoRestarts, RunStates
<1>8. CASE Outside
  <2>1. \A o \in Outsiders : To(o) \in RunStates
    BY OutsideAssumption DEF To, RunStates
  <2>2. NoInst \in Insts /\ \A o \in Outsiders : [inst EXCEPT !.state = To(o)] \in Insts
    BY <2>1 DEF Insts, NoInst, RunStates
  <2>3. inst' \in Insts
    BY <1>8, <2>2 DEF Outside, Insts
  <2>4. disk' \in BOOLEAN /\ faults' \in Nat
    BY <1>8, FaultType DEF Outside, bounds, oxide
  <2>5. UNCHANGED <<k8s, job, watch, stopped, edits>>
    BY <1>8 DEF Outside
  <2> QED
    BY <2>3, <2>4, <2>5 DEF Insts
<1> QED
  BY <1>1, <1>2, <1>3, <1>4, <1>5, <1>6, <1>7, <1>8

\* Every variable keeps its type, and an instance is only looked up, created or
\* deleted for an object that was read with its finalizer (instance_controller.go:155).
THEOREM TypeCorrect == Spec => []TypeOK
<1>1. TypeOK /\ [Next]_vars => TypeOK'
  <2>1. TypeOK /\ UNCHANGED vars => TypeOK'
    BY DEF TypeOK, vars, k8s, oxide, watch, bounds, At
  <2> QED
    BY <2>1, ReconcileType, FinalizerType, PatchType, LiveType, DeletedType, SurroundingsType
       DEF Next, Step
<1> QED
  BY <1>1, InitType, PTL DEF Spec

-----------------------------------------------------------------------------
(* What Oxide holds for the object is held by its finalizer.               *)

\* The object never comes back to life, and the cache lags behind it.
CacheLags == cache.phase # "live" => obj.phase # "live"

\* A cached live object with the finalizer still has it: only a deletion that
\* was read from the cache takes it off.
CachedFinalizer == cache.phase = "live" /\ cache.fin => obj.fin

Deleting ==
  \/ job.pc \in {"viewToDelete", "deleteInst", "deleteDisk", "removeFinalizer"}
  \/ At("stop") /\ job.obj.phase # "live"

DeletionWasRead == Deleting => cache.phase # "live"

CreatesUnderFinalizer == At("view") \/ At("create") => obj.fin

\* Live objects are given an instance, deleted ones lose it.
StepsFit ==
  /\ job.pc \in {"addFinalizer", "view", "create", "resize", "start"} => job.obj.phase = "live"
  /\ At("viewToDelete") => job.obj.phase # "live"

OnlyOwnDisk == disk => OwnDisk

\* The deletion has removed what there was before it goes on.
InstanceGoneFirst == At("deleteDisk") => inst.state = "none"
AllGoneFirst == At("removeFinalizer") /\ ~job.obj.prot => inst.state = "none" /\ ~disk

HeldInv ==
  /\ CacheLags /\ CachedFinalizer /\ DeletionWasRead /\ CreatesUnderFinalizer /\ StepsFit
  /\ OnlyOwnDisk /\ InstanceGoneFirst /\ AllGoneFirst
  /\ InstanceIsHeld

LEMMA HeldInit == Init => HeldInv
BY DEF Init, NoInst, NoObject, Idle, HeldInv, CacheLags, CachedFinalizer, DeletionWasRead, Deleting,
       CreatesUnderFinalizer, StepsFit, OnlyOwnDisk, InstanceGoneFirst, AllGoneFirst, InstanceIsHeld, At

\* Where the next values of job stand.
LEMMA Pcs ==
  ASSUME TypeOK
  PROVE  /\ Idle.pc = "idle"
         /\ \A pc : Goto(pc).pc = pc /\ Goto(pc).obj = job.obj
         /\ \A res : Outcome(res).pc = "patch" /\ Outcome(res).obj = job.obj
BY DEF Idle, Goto, Outcome, TypeOK, Jobs

\* What AddFinalizer may do.
LEMMA AddsFinalizer ==
  ASSUME TypeOK, AddFinalizer
  PROVE  \/ obj' = obj /\ job' = Idle
         \/ /\ job.obj = obj /\ obj' = [obj EXCEPT !.fin = TRUE]
            /\ job' = Idle \/ job' = [job EXCEPT !.pc = "view", !.obj = obj']
<1> DEFINE new == [job.obj EXCEPT !.fin = TRUE]
<1>1. PICK o \in Outcomes :
        /\ obj' = IF Applied(o, ~Conflicts(job.obj)) THEN new ELSE obj
        /\ IF Answered(o, ~Conflicts(job.obj))
           THEN job' = [job EXCEPT !.pc = "view", !.obj = new] /\ UNCHANGED queued
           ELSE Return(TRUE)
  BY DEF AddFinalizer
<1>2. CASE Applied(o, ~Conflicts(job.obj))
  <2>1. job.obj = obj /\ obj' = new
    BY <1>1, <1>2 DEF Applied, Conflicts
  <2> QED
    BY <1>1, <2>1 DEF Return
<1>3. CASE ~Applied(o, ~Conflicts(job.obj))
  BY <1>1, <1>3 DEF Applied, Answered, Return
<1> QED
  BY <1>2, <1>3

\* What RemoveFinalizer may do.
LEMMA RemovesFinalizer ==
  ASSUME TypeOK, RemoveFinalizer
  PROVE  /\ job' = Idle
         /\ \/ obj' = obj
            \/ job.obj = obj /\ obj' = [obj EXCEPT !.phase = "absent", !.fin = FALSE]
BY DEF RemoveFinalizer, Return, Applied, Conflicts

\* What a user's change leaves alone.
LEMMA Edited ==
  ASSUME TypeOK, obj.phase # "absent", NEW e \in Edits, NEW new \in Changes(e)
  PROVE  /\ new.fin = obj.fin
         /\ new.phase # obj.phase => obj.phase = "live"
         /\ new.phase = "absent" => ~obj.fin
<1>1. obj \in Objects
  BY DEF TypeOK
<1>2. /\ LET n == [obj EXCEPT !.prot = ~@, !.gen = @ + 1]
         IN n.fin = obj.fin /\ n.phase = obj.phase
      /\ LET n == [obj EXCEPT !.disabled = ~@]
         IN n.fin = obj.fin /\ n.phase = obj.phase
  BY <1>1 DEF Objects
<1>3. e \in {"size", "run", "prot", "disabled"} => new.fin = obj.fin /\ new.phase = obj.phase
  <2>1. CASE e = "size"
    <3>1. PICK size \in Sizes : new = [obj EXCEPT !.size = size, !.gen = @ + 1]
      BY <2>1 DEF Changes
    <3> QED
      BY <1>1, <3>1 DEF Objects
  <2>2. CASE e = "run"
    <3>1. PICK run \in Wanted : new = [obj EXCEPT !.run = run, !.gen = @ + 1]
      BY <2>2 DEF Changes
    <3> QED
      BY <1>1, <3>1 DEF Objects
  <2>3. CASE e = "prot"
    BY <1>2, <2>3 DEF Changes
  <2>4. CASE e = "disabled"
    BY <1>2, <2>4 DEF Changes
  <2> QED
    BY <2>1, <2>2, <2>3, <2>4
<1>4. e = "delete" => /\ obj.phase = "live"
                      /\ \/ obj.fin /\ new = [obj EXCEPT !.phase = "deleting", !.gen = @ + 1]
                         \/ ~obj.fin /\ new = [obj EXCEPT !.phase = "absent"]
  BY DEF Changes
<1>5. CASE e = "delete"
  BY <1>1, <1>4, <1>5 DEF Objects
<1> QED
  BY <1>3, <1>5, OutsideAssumption

\* The parts of the invariant an instance or a disk takes part in, together.
LEMMA HeldNext == TypeOK /\ HeldInv /\ [Next]_vars => HeldInv'
<1> SUFFICES ASSUME TypeOK, HeldInv, [Next]_vars PROVE HeldInv'
  OBVIOUS
<1> USE DEF HeldInv, CacheLags, CachedFinalizer, DeletionWasRead, Deleting, CreatesUnderFinalizer,
            StepsFit, OnlyOwnDisk, InstanceGoneFirst, AllGoneFirst, InstanceIsHeld, At, k8s, oxide
<1>1. CASE Reconcile
  <2>1. /\ UNCHANGED <<oxide, obj, cache>>
        /\ \/ job' = Idle
           \/ /\ ~LeftAlone(cache)
              /\ job' = [pc |-> FirstStep(cache), obj |-> cache, id |-> cache.id,
                         state |-> cache.state, res |-> "Error"]
    BY <1>1 DEF Reconcile
  <2>2. CASE job' = Idle
    BY <2>1, <2>2 DEF Idle
  <2>3. CASE ~LeftAlone(cache) /\ job'.pc = FirstStep(cache) /\ job'.obj = cache
    BY <2>1, <2>3 DEF FirstStep, LeftAlone
  <2> QED
    BY <2>1, <2>2, <2>3
<1>2. CASE AddFinalizer
  <2>1. UNCHANGED <<oxide, cache>> /\ At("addFinalizer")
    BY <1>2 DEF AddFinalizer
  <2>2. CASE obj' = obj /\ job' = Idle
    BY <2>1, <2>2 DEF Idle
  <2>3. CASE /\ job.obj = obj /\ obj' = [obj EXCEPT !.fin = TRUE]
             /\ job' = Idle \/ job' = [job EXCEPT !.pc = "view", !.obj = obj']
    <3>1. obj'.fin /\ obj'.phase = obj.phase /\ obj'.prot = obj.prot
      BY <2>3 DEF TypeOK, Objects
    <3>2. job'.pc = "idle" \/ (job'.pc = "view" /\ job'.obj = obj')
      <4>1. CASE job' = Idle
        BY <4>1, Pcs
      <4>2. CASE job' = [job EXCEPT !.pc = "view", !.obj = obj']
        BY <4>2 DEF TypeOK, Jobs
      <4> QED
        BY <2>3, <4>1, <4>2
    <3>3. job'.pc = "view" => obj.phase = "live"
      BY <2>1, <2>3, <3>2 DEF StepsFit
    <3> QED
      BY <2>1, <3>1, <3>2, <3>3
  <2> QED
    BY <1>2, <2>2, <2>3, AddsFinalizer
<1>3. CASE RemoveFinalizer
  <2>1. UNCHANGED <<oxide, cache>> /\ At("removeFinalizer")
    BY <1>3 DEF RemoveFinalizer
  <2>2. job'.pc = "idle"
    BY <1>3, RemovesFinalizer DEF Idle
  <2>3. CASE obj' = obj
    BY <2>1, <2>2, <2>3
  <2>4. CASE job.obj = obj /\ obj' = [obj EXCEPT !.phase = "absent", !.fin = FALSE]
    <3>1. obj'.phase = "absent" /\ ~obj'.fin /\ obj'.prot = job.obj.prot
      BY <2>4 DEF TypeOK, Objects
    <3> QED
      BY <2>1, <2>2, <3>1
  <2> QED
    BY <1>3, <2>3, <2>4, RemovesFinalizer
<1>4. CASE PatchStatus
  BY <1>4 DEF PatchStatus, Return, Idle, TypeOK, Objects, Applied, Patched
<1>5. CASE ViewInstance
  <2>1. UNCHANGED <<oxide, k8s>> /\ At("view")
    BY <1>5 DEF ViewInstance
  <2>2. job'.pc \in {"create", "resize", "stop", "start", "listIPs", "patch"} /\ job'.obj = job.obj
    BY <1>5, AfterViewType DEF ViewInstance, Viewed, Outcome, Goto, TypeOK, Jobs
  <2> QED
    BY <2>1, <2>2
<1>6. CASE CreateInstance
  <2>1. UNCHANGED k8s /\ At("create") /\ (disk' => disk \/ OwnDisk)
    BY <1>6, DiskAssumption DEF CreateInstance, TypeOK
  <2>2. job'.pc \in {"resize", "stop", "start", "listIPs", "patch"} /\ job'.obj = job.obj
    BY <1>6, AfterViewType DEF CreateInstance, NewInst, RunStates, Outcome, TypeOK, Jobs
  <2> QED
    BY <2>1, <2>2
<1>7. CASE StopInstance
  <2>1. /\ UNCHANGED <<obj, cache, disk>> /\ At("stop")
        /\ inst' = inst \/ (CanStop /\ inst' = [inst EXCEPT !.state = "stopping"])
        /\ job'.pc \in {"idle", "patch"}
    <3>1. job' = Idle \/ \E res : job' = Outcome(res)
      BY <1>7 DEF StopInstance, Return
    <3>2. job'.pc \in {"idle", "patch"}
      BY <3>1, Pcs
    <3> QED
      BY <1>7, <3>2 DEF StopInstance, Applied
  <2> QED
    BY <2>1 DEF CanStop, TypeOK
<1>8. CASE ResizeInstance \/ StartInstance
  <2>1. /\ UNCHANGED <<k8s, disk>> /\ job'.pc = "patch" /\ (inst'.state # "none" => inst.state # "none")
    BY <1>8 DEF ResizeInstance, StartInstance, Outcome, TypeOK, Jobs, Applied, CanChange
  <2>2. ~At("deleteDisk") /\ ~At("removeFinalizer")
    BY <1>8 DEF ResizeInstance, StartInstance
  <2> QED
    BY <2>1
<1>9. CASE ListIPs
  BY <1>9 DEF ListIPs, Outcome, TypeOK, Jobs
<1>10. CASE ViewToDelete
  <2>1. /\ UNCHANGED <<obj, cache, oxide>> /\ At("viewToDelete")
        /\ \/ job' = Idle
           \/ job' = Goto("deleteInst")
           \/ job' = Goto("stop")
           \/ job' = Goto(AfterDelete) /\ inst.state = "none"
    BY <1>10 DEF ViewToDelete, Return
  <2> QED
    BY <2>1 DEF Goto, Idle, AfterDelete, TypeOK, Jobs
<1>11. CASE DeleteInstance
  <2>1. /\ UNCHANGED <<obj, cache, disk>> /\ At("deleteInst")
        /\ inst' \in {inst, NoInst}
        /\ \/ job' = Idle
           \/ job' = Goto(AfterDelete) /\ inst'.state = "none"
    BY <1>11 DEF DeleteInstance, Deleted, Applied, Return, NoInst
  <2> QED
    BY <2>1 DEF Goto, Idle, AfterDelete, NoInst, TypeOK, Jobs
<1>12. CASE DeleteDisk
  <2>1. /\ UNCHANGED <<obj, cache, inst>> /\ At("deleteDisk") /\ (disk' => disk)
        /\ \/ job' = Idle
           \/ job' = Goto("removeFinalizer") /\ ~disk'
    BY <1>12 DEF DeleteDisk, Deleted, Applied, Return, TypeOK
  <2> QED
    BY <2>1 DEF Goto, Idle, TypeOK, Jobs
<1>13. CASE Fetch
  BY <1>13 DEF Fetch
<1>14. CASE Report
  BY <1>14 DEF Report, TypeOK, Objects
<1>15. CASE InformerSync
  BY <1>15 DEF InformerSync
<1>16. CASE Crash
  BY <1>16 DEF Crash, Idle
<1>17. CASE UserEdits
  <2>1. UNCHANGED <<cache, job, oxide>> /\ obj.phase # "absent"
    BY <1>17 DEF UserEdits
  <2>2. /\ obj'.fin = obj.fin
        /\ obj'.phase # obj.phase => obj.phase = "live"
        /\ obj'.phase = "absent" => ~obj.fin
    BY <1>17, <2>1, Edited DEF UserEdits
  <2> QED
    BY <2>1, <2>2
<1>18. CASE OxideGoesOn \/ AutoRestarts
  BY <1>18 DEF OxideGoesOn, AutoRestarts, InFlight, TypeOK
<1>19. CASE Outside
  <2>1. /\ UNCHANGED <<k8s, job>> /\ (disk' => disk)
        /\ inst'.state # "none" => inst.state # "none"
    BY <1>19, OutsideAssumption DEF Outside, From, NoInst, TypeOK
  <2> QED
    BY <2>1
<1>20. CASE UNCHANGED vars
  BY <1>20 DEF vars
<1> QED
  BY <1>1, <1>2, <1>3, <1>4, <1>5, <1>6, <1>7, <1>8, <1>9, <1>10, <1>11, <1>12, <1>13, <1>14,
     <1>15, <1>16, <1>17, <1>18, <1>19, <1>20 DEF Next, Step

\* Whatever calls fail half way through creating or deleting, an instance in Oxide
\* and the boot disk made with it have an object with the finalizer, unless the
\* object was deleted under deletionProtection (instance_controller.go:162, 189).
THEOREM InstanceHeld == Spec => []InstanceIsHeld
<1>1. HeldInv => InstanceIsHeld
  BY DEF HeldInv
<1> QED
  BY <1>1, TypeCorrect, HeldInit, HeldNext, PTL DEF Spec

-----------------------------------------------------------------------------
(* A generation stops the instance once.                                   *)

Same(a, b) == a.gen = b.gen => a.size = b.size /\ a.run = b.run
SamePhase(a, b) == a.gen = b.gen /\ b.phase # "absent" => a.phase = b.phase

\* Copies lag behind, and a generation is one spec.
Lag(a, b) == a.gen <= b.gen /\ Same(a, b) /\ SamePhase(a, b)
CopiesLag == Lag(cache, obj) /\ (~At("idle") => Lag(job.obj, cache))

StopsSeen == \A g \in stopped : g <= cache.gen /\ (~At("idle") => g <= job.obj.gen)

\* With instance i nothing is left to stop for o: it is down, or comes up as o wants it.
SettledIn(i, o) ==
  \/ i.state \in {"none", "stopping", "stopped"}
  \/ o.phase = "live" /\ o.run = "Stopped" /\ i.state = "creating" /\ ~i.start
  \/ o.phase = "live" /\ o.run = "Running" /\ i.size = o.size

Settled(o) == SettledIn(inst, o)

SettledOnce ==
  /\ cache.phase # "absent" /\ cache.gen \in stopped => Settled(cache)
  /\ ~At("idle") /\ job.obj.gen \in stopped => Settled(job.obj)

NotAgain == At("stop") => job.obj.gen \notin stopped

StartsSized ==
  At("start") => job.obj.run = "Running" /\ (inst.state # "none" => inst.size = job.obj.size)

Present == ~At("idle") => job.obj.phase # "absent"

StopInv ==
  /\ CopiesLag /\ StopsSeen /\ SettledOnce /\ NotAgain /\ StartsSized /\ Present
Spec4(o) == <<o.gen, o.size, o.run, o.phase>>

LEMMA StopInit == Init => StopInv
BY DEF Init, Idle, NoObject, StopInv, CopiesLag, Lag, Same, SamePhase, StopsSeen, SettledOnce,
       NotAgain, StartsSized, Present, At, NoInst

\* When AfterView stops or starts the instance.
LEMMA AfterViewSteps ==
  ASSUME TypeOK, NEW cur, job' = AfterView(cur)
  PROVE  /\ job'.pc = "stop" => /\ cur.state = "running"
                                /\ cur.size # job.obj.size \/ job.obj.run = "Stopped"
         /\ job'.pc = "start" => /\ cur.state = "stopped" /\ cur.size = job.obj.size
                                 /\ job.obj.run = "Running"
<1> DEFINE go(pc)    == [job EXCEPT !.id = TRUE, !.state = cur.state, !.pc = pc]
           done(res) == [go("patch") EXCEPT !.res = res]
<1>1. /\ \A pc : go(pc).pc = pc
      /\ \A res : done(res).pc = "patch"
  BY DEF TypeOK, Jobs
<1> HIDE DEF go, done
<1>2. CASE cur.size # job.obj.size
  <2>1. \/ job' = go("resize")
        \/ job' = go("stop") /\ cur.state = "running"
        \/ job' = done("Progressing")
    <3>1. CASE cur.state = "stopped"
      BY <1>2, <3>1 DEF AfterView, go, done
    <3>2. CASE cur.state = "running"
      BY <1>2, <3>2 DEF AfterView, go, done
    <3>3. CASE cur.state \notin {"stopped", "running"}
      BY <1>2, <3>3 DEF AfterView, go, done
    <3> QED
      BY <3>1, <3>2, <3>3
  <2> QED
    BY <1>1, <1>2, <2>1
<1>3. CASE cur.size = job.obj.size
  <2>1. \/ job' = go("start") /\ cur.state = "stopped" /\ job.obj.run = "Running"
        \/ job' = go("stop") /\ cur.state = "running" /\ job.obj.run = "Stopped"
        \/ job' = go("listIPs")
        \/ job' = done("Error")
        \/ job' = done("Progressing")
    BY <1>3 DEF AfterView, go, done, InFlight
  <2> QED
    BY <1>1, <1>3, <2>1
<1> QED
  BY <1>2, <1>3

\* The running reconcile goes on with its copy of the object, or returns.
JobGoesOn == job'.pc = "idle" \/ (~At("idle") /\ Spec4(job'.obj) = Spec4(job.obj))

\* A step that leaves the object's spec and the cache alone keeps the copies' order.
LEMMA CopiesKept ==
  ASSUME TypeOK, StopInv, JobGoesOn, cache' = cache,
         obj'.gen = obj.gen /\ obj'.size = obj.size /\ obj'.run = obj.run,
         obj'.phase \in {obj.phase, "absent"},
         stopped' = stopped \/ (~At("idle") /\ stopped' = stopped \union {job.obj.gen})
  PROVE  CopiesLag' /\ StopsSeen' /\ Present'
<1> USE DEF StopInv, CopiesLag, Lag, Same, SamePhase, StopsSeen, Present, Spec4, JobGoesOn, At
<1>1. cache.gen \in Nat /\ obj.gen \in Nat /\ job.obj.gen \in Nat
  BY DEF TypeOK, Jobs, Objects
<1>2. Lag(cache, obj)'
  OBVIOUS
<1>3. ASSUME ~At("idle")'
      PROVE  /\ ~At("idle") /\ Lag(job.obj, cache)' /\ Present'
             /\ job'.obj.gen = job.obj.gen
  BY <1>3
<1>4. \A g \in stopped' : g <= cache'.gen
  BY <1>1
<1>5. ASSUME ~At("idle")' PROVE \A g \in stopped' : g <= job'.obj.gen
  BY <1>1, <1>3, <1>5
<1> QED
  BY <1>2, <1>3, <1>4, <1>5

\* The cache has the spec of the running reconcile, or one that has stopped nothing yet.
LEMMA CacheOrJob ==
  ASSUME TypeOK, StopInv, ~At("idle"), cache.phase # "absent", cache.gen \in stopped
  PROVE  Spec4(cache) = Spec4(job.obj)
BY DEF StopInv, CopiesLag, Lag, Same, SamePhase, StopsSeen, Spec4, TypeOK, Jobs, Objects

\* Whether an object is settled depends on its spec and the instance.
LEMMA SettledSpec ==
  ASSUME NEW a, NEW b, NEW i, Spec4(a) = Spec4(b), SettledIn(i, a)
  PROVE  SettledIn(i, b)
BY DEF SettledIn, Spec4

\* The instance stays settled for the copies if it does so for their specs.
LEMMA SettledKept ==
  ASSUME TypeOK, StopInv, JobGoesOn, cache' = cache,
         \/ stopped' = stopped
         \/ ~At("idle") /\ stopped' = stopped \union {job.obj.gen} /\ inst'.state = "stopping",
         cache.phase # "absent" /\ cache.gen \in stopped /\ SettledIn(inst, cache)
           => SettledIn(inst', cache),
         ~At("idle") /\ job.obj.gen \in stopped /\ SettledIn(inst, job.obj)
           => SettledIn(inst', job.obj)
  PROVE  SettledOnce'
<1>1. CASE inst'.state = "stopping"
  BY <1>1 DEF SettledOnce, Settled, SettledIn
<1>2. CASE stopped' = stopped
  <2>1. (cache.phase # "absent" /\ cache.gen \in stopped => Settled(cache))'
    BY <1>2 DEF StopInv, SettledOnce, Settled
  <2>2. ASSUME job'.pc # "idle", job'.obj.gen \in stopped PROVE SettledIn(inst', job'.obj)
    <3>1. ~At("idle") /\ Spec4(job.obj) = Spec4(job'.obj) /\ job.obj.gen \in stopped
      BY <2>2 DEF JobGoesOn, Spec4
    <3>2. SettledIn(inst', job.obj)
      BY <3>1 DEF StopInv, SettledOnce, Settled
    <3> QED
      BY <3>1, <3>2, SettledSpec
  <2> QED
    BY <1>2, <2>1, <2>2 DEF SettledOnce, Settled, At
<1> QED
  BY <1>1, <1>2

\* A step that changes neither the instance nor a copy's spec.
LEMMA QuietKept ==
  ASSUME TypeOK, StopInv, JobGoesOn, inst' = inst, stopped' = stopped, cache' = cache,
         obj'.gen = obj.gen /\ obj'.size = obj.size /\ obj'.run = obj.run,
         obj'.phase \in {obj.phase, "absent"},
         job'.pc \notin {"stop", "start"}
  PROVE  StopInv'
<1>1. CopiesLag' /\ StopsSeen' /\ Present'
  BY CopiesKept
<1>2. SettledOnce'
  BY SettledKept
<1>3. NotAgain' /\ StartsSized'
  BY DEF NotAgain, StartsSized, At
<1> QED
  BY <1>1, <1>2, <1>3 DEF StopInv

\* A step of Oxide or of its other users, of an instance that stays as it was made.
LEMMA OxideKept ==
  ASSUME TypeOK, StopInv, UNCHANGED <<obj, cache, job, stopped>>,
         inst'.state # "none" => inst.state # "none" /\ inst'.size = inst.size,
         \A o : SettledIn(inst, o) => SettledIn(inst', o)
  PROVE  StopInv'
<1>1. JobGoesOn
  BY DEF JobGoesOn, At
<1>2. CopiesLag' /\ StopsSeen' /\ Present'
  BY <1>1, CopiesKept
<1>3. SettledOnce'
  BY <1>1, SettledKept
<1>4. NotAgain' /\ StartsSized'
  BY DEF StopInv, NotAgain, StartsSized, At
<1> QED
  BY <1>2, <1>3, <1>4 DEF StopInv

\* What a user's change makes of the spec.
LEMMA EditedSpec ==
  ASSUME TypeOK, obj.phase # "absent", NEW e \in Edits, NEW new \in Changes(e)
  PROVE  \/ new.gen = obj.gen + 1
         \/ /\ new.gen = obj.gen /\ new.size = obj.size /\ new.run = obj.run
            /\ new.phase \in {obj.phase, "absent"}
<1>1. obj \in Objects
  BY DEF TypeOK
<1>2. CASE e \in {"size", "run"}
  <2>1. \/ \E s : new = [obj EXCEPT !.size = s, !.gen = @ + 1]
        \/ \E w : new = [obj EXCEPT !.run = w, !.gen = @ + 1]
    BY <1>2 DEF Changes
  <2> QED
    BY <1>1, <2>1 DEF Objects
<1>3. CASE e = "prot"
  <2>1. new = [obj EXCEPT !.prot = ~@, !.gen = @ + 1]
    BY <1>3 DEF Changes
  <2> QED
    BY <1>1, <2>1 DEF Objects
<1>4. CASE e = "disabled"
  <2>1. new = [obj EXCEPT !.disabled = ~@]
    BY <1>4 DEF Changes
  <2> QED
    BY <1>1, <2>1 DEF Objects
<1>5. CASE e = "delete"
  <2>1. \/ new = [obj EXCEPT !.phase = "deleting", !.gen = @ + 1]
        \/ new = [obj EXCEPT !.phase = "absent"]
    BY <1>5 DEF Changes
  <2> QED
    BY <1>1, <2>1 DEF Objects
<1> QED
  BY <1>2, <1>3, <1>4, <1>5, OutsideAssumption

\* Steps of the reconcile that only wait, record or go on.
LEMMA StopQuietSteps ==
  ASSUME TypeOK, StopInv,
         RemoveFinalizer \/ PatchStatus \/ ListIPs \/ DeleteDisk \/ Fetch \/ Report
  PROVE  StopInv'
<1>1. CASE RemoveFinalizer
  <2>1. /\ UNCHANGED <<inst, stopped, cache>> /\ job' = Idle
    BY <1>1, RemovesFinalizer DEF RemoveFinalizer, oxide
  <2>2. /\ obj'.gen = obj.gen /\ obj'.size = obj.size /\ obj'.run = obj.run
        /\ obj'.phase \in {obj.phase, "absent"}
    BY <1>1, RemovesFinalizer DEF TypeOK, Objects
  <2> QED
    BY <2>1, <2>2, Pcs, QuietKept DEF JobGoesOn
<1>2. CASE PatchStatus
  <2>1. UNCHANGED <<inst, stopped, cache>> /\ job' = Idle
    BY <1>2 DEF PatchStatus, Return, oxide
  <2>2. obj' \in {obj, Patched}
    BY <1>2 DEF PatchStatus
  <2>3. /\ obj'.gen = obj.gen /\ obj'.size = obj.size /\ obj'.run = obj.run
        /\ obj'.phase \in {obj.phase, "absent"}
    BY <2>2 DEF Patched, TypeOK, Objects
  <2> QED
    BY <2>1, <2>3, Pcs, QuietKept DEF JobGoesOn
<1>3. CASE ListIPs
  <2>1. UNCHANGED <<inst, stopped, cache, obj>> /\ At("listIPs") /\ \E res : job' = Outcome(res)
    BY <1>3 DEF ListIPs, oxide, k8s
  <2> QED
    BY <2>1, Pcs, QuietKept DEF JobGoesOn, Spec4, At
<1>4. CASE DeleteDisk
  <2>1. /\ UNCHANGED <<inst, stopped, cache, obj>> /\ At("deleteDisk")
        /\ job' = Idle \/ job' = Goto("removeFinalizer")
    BY <1>4 DEF DeleteDisk, Deleted, Return
  <2> QED
    BY <2>1, Pcs, QuietKept DEF JobGoesOn, Spec4, At
<1>5. CASE Fetch \/ Report
  <2>1. UNCHANGED <<inst, stopped, cache, job>>
    BY <1>5 DEF Fetch, Report, oxide
  <2>2. Spec4(obj') = Spec4(obj)
    BY <1>5 DEF Fetch, Report, Spec4, TypeOK, Objects
  <2>3. CopiesLag' /\ StopsSeen' /\ Present'
    BY <2>1, <2>2, CopiesKept DEF JobGoesOn, Spec4, At
  <2> QED
    BY <2>1, <2>3 DEF StopInv, SettledOnce, Settled, NotAgain, StartsSized, At
<1> QED
  BY <1>1, <1>2, <1>3, <1>4, <1>5

\* Steps that take a copy of the object, or change the object.
LEMMA StopCopySteps ==
  ASSUME TypeOK, HeldInv, StopInv,
         Reconcile \/ AddFinalizer \/ InformerSync \/ Crash \/ UserEdits
  PROVE  StopInv'
<1> USE DEF StopInv, CopiesLag, Lag, Same, SamePhase, StopsSeen, SettledOnce, Settled, NotAgain,
            StartsSized, Present, At
<1>0. /\ cache.gen \in Nat /\ obj.gen \in Nat /\ job.obj.gen \in Nat
      /\ \A g \in stopped : g \in Nat
  BY DEF TypeOK, Jobs, Objects
<1>1. CASE Reconcile
  <2>1. /\ UNCHANGED <<obj, cache, inst, stopped>>
        /\ \/ job' = Idle
           \/ /\ ~LeftAlone(cache)
              /\ job' = [pc |-> FirstStep(cache), obj |-> cache, id |-> cache.id,
                         state |-> cache.state, res |-> "Error"]
    BY <1>1 DEF Reconcile, oxide
  <2>2. CASE job' = Idle
    BY <2>1, <2>2, Pcs
  <2>3. CASE ~LeftAlone(cache) /\ job'.pc = FirstStep(cache) /\ job'.obj = cache
    <3>1. job'.pc \notin {"stop", "start"} /\ cache.phase # "absent"
      BY <2>3 DEF FirstStep, LeftAlone
    <3> QED
      BY <1>0, <2>1, <2>3, <3>1
  <2> QED
    BY <2>1, <2>2, <2>3
<1>2. CASE AddFinalizer
  <2>1. UNCHANGED <<inst, stopped, cache>> /\ At("addFinalizer")
    BY <1>2 DEF AddFinalizer, oxide
  <2>2. Spec4(obj') = Spec4(obj)
    BY <1>2, AddsFinalizer DEF Spec4, TypeOK, Objects
  <2>3. job'.pc = "idle" \/ (job'.pc = "view" /\ Spec4(job'.obj) = Spec4(job.obj))
    <3>1. CASE job' = Idle
      BY <3>1, Pcs
    <3>2. CASE /\ job.obj = obj
               /\ job' = [job EXCEPT !.pc = "view", !.obj = obj']
      <4>1. job'.pc = "view" /\ job'.obj = obj'
        BY <3>2 DEF TypeOK, Jobs
      <4> QED
        BY <2>2, <3>2, <4>1
    <3> QED
      BY <1>2, <3>1, <3>2, AddsFinalizer
  <2>4. JobGoesOn /\ job'.pc \notin {"stop", "start"}
    BY <2>1, <2>3 DEF JobGoesOn
  <2> QED
    BY <2>1, <2>2, <2>4, QuietKept DEF Spec4
<1>3. CASE InformerSync
  <2>1. UNCHANGED <<obj, job, inst, stopped>> /\ cache' = obj
    BY <1>3 DEF InformerSync, oxide
  <2>2. CopiesLag' /\ StopsSeen' /\ Present'
    BY <1>0, <2>1
  <2>3. ASSUME obj.phase # "absent", obj.gen \in stopped PROVE Settled(obj)
    <3>1. Spec4(cache) = Spec4(obj) /\ cache.phase # "absent" /\ cache.gen \in stopped
      BY <1>0, <2>3 DEF Spec4
    <3> QED
      BY <3>1, SettledSpec
  <2> QED
    BY <2>1, <2>2, <2>3
<1>4. CASE Crash
  <2>1. UNCHANGED <<obj, inst, stopped>> /\ cache' = obj /\ job'.pc = "idle"
    BY <1>4, Pcs DEF Crash, oxide
  <2>2. CopiesLag' /\ StopsSeen' /\ Present'
    BY <1>0, <2>1
  <2>3. ASSUME obj.phase # "absent", obj.gen \in stopped PROVE Settled(obj)
    <3>1. Spec4(cache) = Spec4(obj) /\ cache.phase # "absent" /\ cache.gen \in stopped
      BY <1>0, <2>3 DEF Spec4
    <3> QED
      BY <3>1, SettledSpec
  <2> QED
    BY <2>1, <2>2, <2>3
<1>5. CASE UserEdits
  <2>1. UNCHANGED <<cache, job, inst, stopped>> /\ obj.phase # "absent"
    BY <1>5 DEF UserEdits, oxide
  <2>2. \/ obj'.gen = obj.gen + 1
        \/ /\ obj'.gen = obj.gen /\ obj'.size = obj.size /\ obj'.run = obj.run
           /\ obj'.phase \in {obj.phase, "absent"}
    BY <1>5, <2>1, EditedSpec DEF UserEdits
  <2>3. Lag(cache, obj)'
    BY <1>0, <2>1, <2>2
  <2> QED
    BY <2>1, <2>3
<1> QED
  BY <1>1, <1>2, <1>3, <1>4, <1>5

\* Steps that look at the instance or change it for a live object.
LEMMA StopLiveSteps ==
  ASSUME TypeOK, HeldInv, StopInv,
         ViewInstance \/ CreateInstance \/ ResizeInstance \/ StartInstance
  PROVE  StopInv'
<1>1. UNCHANGED <<obj, cache, stopped>>
  BY DEF ViewInstance, CreateInstance, ResizeInstance, StartInstance, k8s
<1>2. /\ ~At("idle") /\ job.obj.phase = "live" /\ job'.obj = job.obj
      /\ job'.pc \in {"create", "resize", "stop", "start", "listIPs", "patch"}
  <2>1. CASE ViewInstance
    BY <2>1, Pcs, AfterViewType DEF ViewInstance, Viewed, TypeOK, HeldInv, StepsFit, At
  <2>2. CASE CreateInstance
    BY <2>2, Pcs, AfterViewType DEF CreateInstance, NewInst, RunStates, HeldInv, StepsFit, At
  <2>3. CASE ResizeInstance \/ StartInstance
    BY <2>3, Pcs DEF ResizeInstance, StartInstance, HeldInv, StepsFit, At
  <2> QED
    BY <2>1, <2>2, <2>3
<1>3. JobGoesOn
  BY <1>2 DEF JobGoesOn
<1>4. CopiesLag' /\ StopsSeen' /\ Present'
  BY <1>1, <1>3, CopiesKept
<1>5. CASE ViewInstance
  <2>1. inst' = inst
    BY <1>5 DEF ViewInstance, oxide
  <2>2. SettledOnce'
    BY <1>1, <1>3, <2>1, SettledKept
  <2>3. /\ job'.pc = "stop" => /\ inst.state = "running"
                               /\ inst.size # job.obj.size \/ job.obj.run = "Stopped"
        /\ job'.pc = "start" => job.obj.run = "Running" /\ inst.size = job.obj.size
    <3>1. CASE job' = AfterView(Viewed)
      BY <3>1, AfterViewSteps DEF Viewed
    <3>2. CASE job' = Outcome("Error") \/ job' = Goto("create")
      BY <3>2, Pcs
    <3> QED
      BY <1>5, <3>1, <3>2 DEF ViewInstance
  <2>4. NotAgain'
    BY <1>1, <1>2, <2>1, <2>3 DEF StopInv, SettledOnce, Settled, SettledIn, NotAgain, At
  <2>5. StartsSized'
    BY <1>2, <2>1, <2>3 DEF StartsSized, At
  <2> QED
    BY <1>4, <2>2, <2>4, <2>5 DEF StopInv
<1>6. CASE CreateInstance
  <2>1. inst' = inst \/ inst' = NewInst
    BY <1>6 DEF CreateInstance
  <2>2. SettledIn(NewInst, job.obj)
    BY <1>2 DEF SettledIn, NewInst, TypeOK, Jobs, Objects, Wanted
  <2>3. cache.phase # "absent" /\ cache.gen \in stopped => SettledIn(NewInst, cache)
    BY <1>2, <2>2, CacheOrJob, SettledSpec
  <2>4. SettledOnce'
    BY <1>1, <1>3, <2>1, <2>2, <2>3, SettledKept
  <2>5. job'.pc \notin {"stop", "start"}
    <3>1. CASE job' = AfterView([state |-> NewInst.state, size |-> NewInst.size])
      BY <3>1, AfterViewSteps DEF NewInst
    <3>2. CASE job' = Outcome("Error")
      BY <3>2, Pcs
    <3> QED
      BY <1>6, <3>1, <3>2 DEF CreateInstance
  <2> QED
    BY <1>4, <2>4, <2>5 DEF StopInv, NotAgain, StartsSized, At
<1>7. CASE ResizeInstance
  <2>1. inst' = inst \/ (inst.state = "stopped" /\ inst' = [inst EXCEPT !.size = job.obj.size])
    BY <1>7 DEF ResizeInstance, Applied, CanChange
  <2>2. \A o : SettledIn(inst, o) => SettledIn(inst', o)
    BY <2>1 DEF SettledIn, TypeOK
  <2>3. SettledOnce'
    BY <1>1, <1>3, <2>2, SettledKept
  <2>4. job'.pc = "patch"
    BY <1>7, Pcs DEF ResizeInstance
  <2> QED
    BY <1>4, <2>3, <2>4 DEF StopInv, NotAgain, StartsSized, At
<1>8. CASE StartInstance
  <2>1. inst' = inst \/ (inst.state = "stopped" /\ inst' = [inst EXCEPT !.state = "starting"])
    BY <1>8 DEF StartInstance, Applied, CanChange
  <2>2. job.obj.run = "Running" /\ (inst.state = "stopped" => inst.size = job.obj.size)
    BY <1>8 DEF StartInstance, StopInv, StartsSized
  <2>3. inst' # inst => SettledIn(inst', job.obj)
    BY <1>2, <2>1, <2>2 DEF SettledIn, TypeOK
  <2>4. inst' # inst /\ cache.phase # "absent" /\ cache.gen \in stopped => SettledIn(inst', cache)
    BY <1>2, <2>3, CacheOrJob, SettledSpec
  <2>5. SettledOnce'
    BY <1>1, <1>3, <2>3, <2>4, SettledKept
  <2>6. job'.pc = "patch"
    BY <1>8, Pcs DEF StartInstance
  <2> QED
    BY <1>4, <2>5, <2>6 DEF StopInv, NotAgain, StartsSized, At
<1> QED
  BY <1>5, <1>6, <1>7, <1>8

\* Stopping and deleting.
LEMMA StopDownSteps ==
  ASSUME TypeOK, HeldInv, StopInv, StopInstance \/ ViewToDelete \/ DeleteInstance
  PROVE  StopInv'
<1>1. UNCHANGED <<obj, cache>> /\ ~At("idle")
  BY DEF StopInstance, ViewToDelete, DeleteInstance, At
<1>2. /\ JobGoesOn /\ job'.pc # "start"
      /\ job'.pc = "stop" => /\ ViewToDelete /\ inst.state = "running"
                             /\ job'.obj = job.obj /\ job.obj.phase # "live"
  <2>1. CASE StopInstance
    <3>1. job' = Idle \/ \E res : job' = Outcome(res)
      BY <2>1 DEF StopInstance, Return
    <3> QED
      BY <1>1, <3>1, Pcs DEF JobGoesOn
  <2>2. CASE ViewToDelete
    <3>1. \/ job' = Idle
          \/ job' = Goto("stop") /\ inst.state = "running"
          \/ job' = Goto(AfterDelete)
          \/ job' = Goto("deleteInst")
      BY <2>2 DEF ViewToDelete, Return
    <3>2. job.obj.phase # "live"
      BY <2>2 DEF ViewToDelete, HeldInv, StepsFit
    <3> QED
      BY <1>1, <2>2, <3>1, <3>2, Pcs DEF JobGoesOn, AfterDelete
  <2>3. CASE DeleteInstance
    <3>1. job' = Idle \/ job' = Goto(AfterDelete)
      BY <2>3 DEF DeleteInstance, Deleted, Return
    <3> QED
      BY <1>1, <3>1, Pcs DEF JobGoesOn, AfterDelete
  <2> QED
    BY <2>1, <2>2, <2>3
<1>3. \/ stopped' = stopped /\ (inst' = inst \/ inst' = NoInst)
      \/ stopped' = stopped \union {job.obj.gen} /\ inst' = [inst EXCEPT !.state = "stopping"]
  BY DEF StopInstance, ViewToDelete, DeleteInstance, oxide
<1>4. CopiesLag' /\ StopsSeen' /\ Present'
  BY <1>1, <1>2, <1>3, CopiesKept
<1>5. SettledOnce'
  <2>1. stopped' = stopped \/ inst'.state = "stopping"
    BY <1>3 DEF TypeOK
  <2>2. \A o : SettledIn(inst, o) => SettledIn(inst', o)
    BY <1>3 DEF SettledIn, NoInst, TypeOK
  <2> QED
    BY <1>1, <1>2, <1>3, <2>1, <2>2, SettledKept
<1>6. NotAgain'
  <2>1. ViewToDelete => stopped' = stopped
    BY DEF ViewToDelete
  <2> QED
    BY <1>1, <1>2, <2>1 DEF StopInv, SettledOnce, Settled, SettledIn, NotAgain, At
<1>7. StartsSized'
  BY <1>2 DEF StartsSized, At
<1> QED
  BY <1>4, <1>5, <1>6, <1>7 DEF StopInv

\* Oxide and everybody else.
LEMMA StopOxideSteps ==
  ASSUME TypeOK, StopInv, OxideGoesOn \/ AutoRestarts \/ Outside
  PROVE  StopInv'
<1>1. UNCHANGED <<obj, cache, job, stopped>>
  BY DEF OxideGoesOn, AutoRestarts, Outside, k8s
<1>2. CASE OxideGoesOn
  <2>1. /\ inst'.state # "none" /\ inst.state # "none" /\ inst'.size = inst.size
        /\ inst.state = "stopping" => inst'.state = "stopped"
        /\ inst.state = "creating" /\ ~inst.start => inst'.state = "stopped"
        /\ inst.state \in InFlight
    BY <1>2 DEF OxideGoesOn, InFlight, TypeOK
  <2>2. \A o : SettledIn(inst, o) => SettledIn(inst', o)
    BY <2>1 DEF SettledIn, InFlight
  <2> QED
    BY <1>1, <2>1, <2>2, OxideKept
<1>3. CASE AutoRestarts
  <2>1. inst.state = "failed" /\ inst'.size = inst.size
    BY <1>3 DEF AutoRestarts, TypeOK
  <2>2. \A o : SettledIn(inst, o) => SettledIn(inst', o)
    BY <2>1 DEF SettledIn
  <2> QED
    BY <1>1, <2>1, <2>2, OxideKept
<1>4. CASE Outside
  <2>1. \/ inst' = inst
        \/ inst' = NoInst
        \/ \E s \in {"stopping", "rebooting", "failed"} :
             inst.state = "running" /\ inst' = [inst EXCEPT !.state = s]
    BY <1>4, OutsideAssumption DEF Outside, From, To
  <2>2. \A o : SettledIn(inst, o) => SettledIn(inst', o)
    BY <2>1 DEF SettledIn, NoInst, TypeOK
  <2>3. inst'.state # "none" => inst.state # "none" /\ inst'.size = inst.size
    BY <2>1 DEF NoInst, TypeOK
  <2> QED
    BY <1>1, <2>2, <2>3, OxideKept
<1> QED
  BY <1>2, <1>3, <1>4

LEMMA StopNext == TypeOK /\ HeldInv /\ StopInv /\ [Next]_vars => StopInv'
<1>1. TypeOK /\ StopInv /\ UNCHANGED vars => StopInv'
  BY DEF vars, k8s, oxide, StopInv, CopiesLag, StopsSeen, SettledOnce, Settled, NotAgain,
         StartsSized, Present, At
<1> QED
  BY <1>1, StopQuietSteps, StopCopySteps, StopLiveSteps, StopDownSteps, StopOxideSteps DEF Next, Step

\* A generation stops the instance once: a reconcile that would stop it again works
\* from a copy that is no older than the one that stopped it, and finds it coming up
\* with the size and the power state that copy asks for (instance_controller.go:106).
THEOREM StopsOnce == Spec => OneStopPerChange
<1>1. StopInv => (StopInstance /\ inst' # inst => job.obj.gen \notin stopped)
  BY DEF StopInv, NotAgain, StopInstance
<1> QED
  BY <1>1, TypeCorrect, HeldInit, HeldNext, StopInit, StopNext, PTL DEF Spec, OneStopPerChange

-----------------------------------------------------------------------------
(* The controller implements ManagedResource.                              *)

\* What is deleted was read as such, with the finalizer.
DeletesHeld == Deleting => job.obj.phase = "deleting" /\ job.obj.fin

LEMMA DeletesHeldNext ==
  ASSUME TypeOK, HeldInv, DeletesHeld, [Next]_vars
  PROVE  DeletesHeld'
<1> USE DEF DeletesHeld, Deleting, At
<1>1. CASE Reconcile
  <2>1. CASE LeftAlone(cache)
    BY <1>1, <2>1, Pcs DEF Reconcile
  <2>2. CASE ~LeftAlone(cache)
    <3>1. job'.pc = FirstStep(cache) /\ job'.obj = cache
      BY <1>1, <2>2 DEF Reconcile
    <3> QED
      BY <2>2, <3>1 DEF FirstStep, LeftAlone, TypeOK, Objects, Phases
  <2> QED
    BY <2>1, <2>2
<1>2. CASE AddFinalizer
  <2>1. job'.pc \in {"idle", "view"}
    <3>1. CASE job' = Idle
      BY <3>1, Pcs
    <3>2. CASE job' = [job EXCEPT !.pc = "view", !.obj = obj']
      BY <3>2 DEF TypeOK, Jobs
    <3> QED
      BY <1>2, <3>1, <3>2, AddsFinalizer
  <2> QED
    BY <2>1
<1>3. CASE RemoveFinalizer \/ PatchStatus \/ Crash
  BY <1>3, Pcs DEF RemoveFinalizer, PatchStatus, Crash, Return
<1>4. CASE ViewInstance \/ CreateInstance \/ ResizeInstance \/ StartInstance \/ ListIPs
  <2>1. job.obj.phase = "live" \/ At("listIPs")
    BY <1>4 DEF HeldInv, StepsFit, ViewInstance, CreateInstance, ResizeInstance, StartInstance, ListIPs
  <2>2. ASSUME NEW cur, cur.state \in RunStates, job' = AfterView(cur)
        PROVE  job'.obj = job.obj /\ job'.pc \in {"resize", "stop", "start", "listIPs", "patch"}
    BY <2>2, AfterViewType
  <2>3. Viewed.state \in RunStates /\ NewInst.state \in RunStates
    BY DEF Viewed, NewInst, TypeOK, RunStates
  <2>4. CASE ListIPs
    BY <2>4, Pcs DEF ListIPs
  <2>5. CASE ~ListIPs
    <3>1. job.obj.phase = "live"
      BY <1>4, <2>5 DEF HeldInv, StepsFit, ViewInstance, CreateInstance, ResizeInstance, StartInstance
    <3>2. job'.obj = job.obj /\ job'.pc \in {"create", "resize", "stop", "start", "listIPs", "patch"}
      <4>1. \/ \E cur : cur.state \in RunStates /\ job' = AfterView(cur)
            \/ job' = Goto("create")
            \/ \E res : job' = Outcome(res)
        BY <1>4, <2>3, <2>5 DEF ViewInstance, CreateInstance, ResizeInstance, StartInstance
      <4> QED
        BY <4>1, <2>2, Pcs
    <3> QED
      BY <3>1, <3>2
  <2> QED
    BY <2>4, <2>5
<1>5. CASE StopInstance \/ ViewToDelete \/ DeleteInstance \/ DeleteDisk
  <2>1. \/ job'.pc \in {"idle", "patch"}
        \/ job'.obj = job.obj /\ Deleting
    <3>1. CASE StopInstance
      BY <3>1, Pcs DEF StopInstance, Return
    <3>2. CASE ViewToDelete
      BY <3>2, Pcs DEF ViewToDelete, Return, AfterDelete
    <3>3. CASE DeleteInstance \/ DeleteDisk
      BY <3>3, Pcs DEF DeleteInstance, DeleteDisk, Deleted, Return, AfterDelete
    <3> QED
      BY <1>5, <3>1, <3>2, <3>3
  <2> QED
    BY <2>1
<1>6. CASE \/ Fetch \/ Report \/ InformerSync \/ UserEdits \/ OxideGoesOn \/ AutoRestarts \/ Outside
           \/ UNCHANGED vars
  <2>1. UNCHANGED job
    BY <1>6 DEF Fetch, Report, InformerSync, UserEdits, OxideGoesOn, AutoRestarts, Outside, vars
  <2> QED
    BY <2>1
<1> QED
  BY <1>1, <1>2, <1>3, <1>4, <1>5, <1>6 DEF Next, Step

\* What a user's change is to the promise.
LEMMA EditManaged ==
  ASSUME TypeOK, obj.phase # "absent", NEW e \in Edits, obj' \in Changes(e), UNCHANGED oxide
  PROVE  [Managed!Next]_(Managed!vars)
<1> USE DEF Managed!Next, Managed!vars, oxide
<1>1. obj \in Objects /\ obj.phase \in {"live", "deleting"}
  BY DEF TypeOK, Objects, Phases
<1>2. CASE obj'.phase = obj.phase /\ obj'.fin = obj.fin /\ obj'.prot = obj.prot
  BY <1>2
<1>3. CASE obj'.phase = obj.phase /\ obj'.fin = obj.fin /\ obj'.prot = ~obj.prot
  BY <1>1, <1>3 DEF Managed!Protect
<1>4. CASE /\ obj.phase = "live" /\ obj'.phase = (IF obj.fin THEN "deleting" ELSE "absent")
           /\ obj'.fin = obj.fin /\ obj'.prot = obj.prot
  BY <1>4 DEF Managed!Delete
<1>5. CASE e = "size"
  <2>1. PICK size \in Sizes : obj' = [obj EXCEPT !.size = size, !.gen = @ + 1]
    BY <1>5 DEF Changes
  <2> QED
    BY <1>1, <1>2, <2>1 DEF Objects
<1>6. CASE e = "run"
  <2>1. PICK run \in Wanted : obj' = [obj EXCEPT !.run = run, !.gen = @ + 1]
    BY <1>6 DEF Changes
  <2> QED
    BY <1>1, <1>2, <2>1 DEF Objects
<1>7. CASE e = "prot"
  BY <1>1, <1>3, <1>7 DEF Changes, Objects
<1>8. CASE e = "disabled"
  BY <1>1, <1>2, <1>8 DEF Changes, Objects
<1>9. CASE e = "delete"
  BY <1>1, <1>4, <1>9 DEF Changes, Objects
<1> QED
  BY <1>5, <1>6, <1>7, <1>8, <1>9, OutsideAssumption

\* Every step of the controller and around it is a step of the promise, or none.
LEMMA StepManaged ==
  ASSUME TypeOK, HeldInv, DeletesHeld, [Next]_vars
  PROVE  [Managed!Next]_(Managed!vars)
<1> USE DEF Managed!Next, Managed!vars, oxide, k8s
<1>1. CASE AddFinalizer
  <2>1. UNCHANGED oxide /\ At("addFinalizer") /\ job.obj.phase = "live"
    BY <1>1 DEF AddFinalizer, HeldInv, StepsFit, At
  <2>2. CASE job.obj = obj /\ obj' = [obj EXCEPT !.fin = TRUE]
    <3>1. obj.phase = "live" /\ obj'.fin /\ obj'.phase = obj.phase /\ obj'.prot = obj.prot
      BY <2>1, <2>2 DEF TypeOK, Objects
    <3> QED
      BY <2>1, <3>1 DEF Managed!Hold, TypeOK, Objects
  <2> QED
    BY <1>1, <2>1, <2>2, AddsFinalizer
<1>2. CASE RemoveFinalizer
  <2>1. UNCHANGED oxide /\ At("removeFinalizer")
    BY <1>2 DEF RemoveFinalizer
  <2>2. CASE job.obj = obj /\ obj' = [obj EXCEPT !.phase = "absent", !.fin = FALSE]
    <3>1. obj'.phase = "absent" /\ ~obj'.fin /\ obj'.prot = obj.prot
      BY <2>2 DEF TypeOK, Objects
    <3>2. obj.phase = "deleting" /\ obj.fin
      BY <2>1, <2>2 DEF DeletesHeld, Deleting, At
    <3>3. inst.state # "none" \/ disk => obj.prot
      BY <2>1, <2>2 DEF HeldInv, AllGoneFirst
    <3> QED
      BY <2>1, <3>1, <3>2, <3>3 DEF Managed!Release
  <2> QED
    BY <1>2, <2>1, <2>2, RemovesFinalizer
<1>3. CASE PatchStatus
  <2>1. Patched.phase = obj.phase /\ Patched.fin = obj.fin /\ Patched.prot = obj.prot
    BY DEF Patched, TypeOK, Objects
  <2> QED
    BY <1>3, <2>1 DEF PatchStatus
<1>4. CASE CreateInstance
  <2>1. UNCHANGED obj /\ obj.fin
    BY <1>4 DEF CreateInstance, HeldInv, CreatesUnderFinalizer, At
  <2>2. \/ UNCHANGED <<inst, disk>>
        \/ inst.state = "none" /\ ~disk /\ inst'.state = "creating"
    BY <1>4 DEF CreateInstance, Applied, CanCreate, NewInst, TypeOK
  <2> QED
    BY <2>1, <2>2 DEF Managed!Appear
<1>5. CASE StopInstance \/ ResizeInstance \/ StartInstance \/ OxideGoesOn \/ AutoRestarts
  <2>1. UNCHANGED <<obj, disk>>
    BY <1>5 DEF StopInstance, ResizeInstance, StartInstance, OxideGoesOn, AutoRestarts
  <2>2. inst' = inst \/ (inst.state # "none" /\ inst'.state # "none")
    BY <1>5 DEF StopInstance, ResizeInstance, StartInstance, OxideGoesOn, AutoRestarts, Applied, CanStop,
                CanChange, InFlight, TypeOK
  <2> QED
    BY <2>1, <2>2
<1>6. CASE DeleteInstance \/ DeleteDisk
  <2>1. UNCHANGED obj
    BY <1>6 DEF DeleteInstance, DeleteDisk
  <2>2. disk' => disk
    BY <1>6, Zenon DEF DeleteInstance, DeleteDisk
  <2>3. inst'.state # "none" => inst.state # "none"
    BY <1>6 DEF DeleteInstance, DeleteDisk, NoInst, TypeOK
  <2>4. (inst'.state # "none" \/ disk') => (inst.state # "none" \/ disk)
    BY <2>2, <2>3
  <2> QED
    BY <2>1, <2>4 DEF Managed!Vanish
<1>7. CASE Report
  <2>1. \A s : LET new == [obj EXCEPT !.state = s]
               IN new.phase = obj.phase /\ new.fin = obj.fin /\ new.prot = obj.prot
    BY DEF TypeOK, Objects
  <2> QED
    BY <1>7, <2>1 DEF Report
<1>8. CASE UserEdits
  BY <1>8, EditManaged DEF UserEdits
<1>9. CASE Outside
  <2>1. UNCHANGED obj
    BY <1>9 DEF Outside
  <2>2. \/ inst'.state = "none" /\ UNCHANGED disk
        \/ inst.state # "none" /\ inst'.state # "none" /\ UNCHANGED disk
        \/ UNCHANGED inst /\ ~disk'
    BY <1>9, OutsideAssumption DEF Outside, From, To, NoInst, TypeOK
  <2> QED
    BY <2>1, <2>2 DEF Managed!Vanish
<1>10. CASE \/ Reconcile \/ ViewInstance \/ ListIPs \/ ViewToDelete \/ Fetch \/ InformerSync \/ Crash
            \/ UNCHANGED vars
  <2>1. UNCHANGED <<obj, inst, disk>>
    BY <1>10 DEF Reconcile, ViewInstance, ListIPs, ViewToDelete, Fetch, InformerSync, Crash, vars
  <2> QED
    BY <2>1
<1> QED
  BY <1>1, <1>2, <1>3, <1>4, <1>5, <1>6, <1>7, <1>8, <1>9, <1>10 DEF Next, Step

\* The Instance controller keeps the promise every controller makes: the object is
\* held before anything is made for it, and only goes when the instance and its boot
\* disk have gone or are to be kept (instance_controller.go:155).
THEOREM InstanceManaged == Spec => ImplementsManaged
<1>1. Init => Managed!Init
  <2> SUFFICES ASSUME Init PROVE Managed!Init
    OBVIOUS
  <2>1. PICK size \in Made, run \in MadeRun, prot \in Prots :
          obj = [NoObject EXCEPT !.phase = "live", !.prot = prot, !.gen = 1,
                                 !.size = size, !.run = run]
    BY DEF Init
  <2> QED
    BY <2>1, OutsideAssumption DEF Init, NoObject, NoInst, Managed!Init
<1>2. Init => DeletesHeld
  BY DEF Init, Idle, DeletesHeld, Deleting, At
<1> QED
  BY <1>1, <1>2, TypeCorrect, HeldInit, HeldNext, DeletesHeldNext, StepManaged, PTL
     DEF Spec, ImplementsManaged, Managed!Spec

-----------------------------------------------------------------------------
(* An object is looked at again.                                           *)

\* A deleted object has the finalizer, or it would be gone; and it does not come back.
DeletedIsHeld == (obj.phase = "deleting" => obj.fin) /\ (cache.phase = "deleting" => cache.fin)
GoneForGood == cache.phase = "absent" => obj.phase = "absent"

\* What the cache has to offer is taken: every return from Reconcile queues it again.
CacheAwake ==
  cache.phase # "absent" /\ ~cache.disabled /\ obj.phase # "absent" => queued \/ ~At("idle")

AwakeInv == DeletedIsHeld /\ GoneForGood /\ CacheAwake

LEMMA AwakeInit == Init => AwakeInv
BY DEF Init, NoObject, AwakeInv, DeletedIsHeld, GoneForGood, CacheAwake

\* A step that works on, or returns with a requeue, for an object that stays as it is.
LEMMA AwakeKept ==
  ASSUME TypeOK, AwakeInv, cache' = cache,
         (obj'.phase = obj.phase /\ (obj.fin => obj'.fin)) \/ obj'.phase = "absent",
         obj'.phase # "absent" => queued' \/ ~At("idle")'
  PROVE  AwakeInv'
BY DEF AwakeInv, DeletedIsHeld, GoneForGood, CacheAwake

LEMMA AwakeWorks ==
  ASSUME TypeOK, AwakeInv,
         \/ ViewInstance \/ CreateInstance \/ StopInstance \/ ResizeInstance \/ StartInstance
         \/ ListIPs \/ ViewToDelete \/ DeleteInstance \/ DeleteDisk
  PROVE  AwakeInv'
<1>1. UNCHANGED <<obj, cache>>
  BY DEF ViewInstance, CreateInstance, StopInstance, ResizeInstance, StartInstance, ListIPs,
         ViewToDelete, DeleteInstance, DeleteDisk, k8s
<1>2. queued' \/ ~At("idle")'
  <2>1. CASE ViewInstance
    BY <2>1, Pcs, AfterViewType DEF ViewInstance, Viewed, TypeOK, At
  <2>2. CASE CreateInstance
    BY <2>2, Pcs, AfterViewType DEF CreateInstance, NewInst, RunStates, At
  <2>3. CASE ResizeInstance \/ StartInstance \/ ListIPs
    BY <2>3, Pcs DEF ResizeInstance, StartInstance, ListIPs, At
  <2>4. CASE StopInstance
    BY <2>4, Pcs DEF StopInstance, Return, At
  <2>5. CASE ViewToDelete
    BY <2>5, Pcs DEF ViewToDelete, AfterDelete, Return, At
  <2>6. CASE DeleteInstance \/ DeleteDisk
    BY <2>6, Pcs DEF DeleteInstance, DeleteDisk, Deleted, AfterDelete, Return, At
  <2> QED
    BY <2>1, <2>2, <2>3, <2>4, <2>5, <2>6
<1> QED
  BY <1>1, <1>2, AwakeKept

\* A user's deletion of an object with the finalizer is what makes it deleting.
LEMMA DeletingIsHeld ==
  ASSUME TypeOK, DeletedIsHeld, obj.phase # "absent", NEW e \in Edits, NEW new \in Changes(e)
  PROVE  new.phase = "deleting" => new.fin
<1>1. CASE obj.phase = "live" /\ new.phase = "deleting" /\ ~obj.fin
  <2>1. obj \in Objects
    BY DEF TypeOK
  <2>2. CASE e = "delete"
    BY <1>1, <2>1, <2>2 DEF Changes, Objects
  <2>3. CASE e = "size"
    <3>1. PICK size \in Sizes : new = [obj EXCEPT !.size = size, !.gen = @ + 1]
      BY <2>3 DEF Changes
    <3> QED
      BY <1>1, <2>1, <3>1 DEF Objects
  <2>4. CASE e = "run"
    <3>1. PICK run \in Wanted : new = [obj EXCEPT !.run = run, !.gen = @ + 1]
      BY <2>4 DEF Changes
    <3> QED
      BY <1>1, <2>1, <3>1 DEF Objects
  <2>5. CASE e = "prot"
    BY <1>1, <2>1, <2>5 DEF Changes, Objects
  <2>6. CASE e = "disabled"
    BY <1>1, <2>1, <2>6 DEF Changes, Objects
  <2> QED
    BY <2>2, <2>3, <2>4, <2>5, <2>6, OutsideAssumption
<1> QED
  BY <1>1, Edited DEF DeletedIsHeld, TypeOK, Objects, Phases

LEMMA AwakeNext ==
  ASSUME TypeOK, AwakeInv, [Next]_vars PROVE AwakeInv'
<1>1. CASE Reconcile
  <2>1. UNCHANGED <<obj, cache>>
    BY <1>1 DEF Reconcile
  <2>2. CASE LeftAlone(cache)
    BY <2>1, <2>2 DEF LeftAlone, AwakeInv, DeletedIsHeld, GoneForGood, CacheAwake
  <2>3. CASE ~LeftAlone(cache)
    <3>1. job'.pc = FirstStep(cache) /\ FirstStep(cache) # "idle"
      BY <1>1, <2>3 DEF Reconcile, FirstStep
    <3> QED
      BY <2>1, <3>1, AwakeKept DEF At
  <2> QED
    BY <2>2, <2>3
<1>2. CASE AddFinalizer
  <2>1. UNCHANGED cache /\ (queued' \/ job' = [job EXCEPT !.pc = "view", !.obj = job'.obj])
    BY <1>2 DEF AddFinalizer, Return, TypeOK, Jobs
  <2>2. obj'.phase = obj.phase /\ (obj.fin => obj'.fin)
    BY <1>2, AddsFinalizer DEF TypeOK, Objects
  <2>3. queued' \/ ~At("idle")'
    BY <2>1 DEF TypeOK, Jobs, At
  <2> QED
    BY <2>1, <2>2, <2>3, AwakeKept
<1>3. CASE RemoveFinalizer
  <2>1. UNCHANGED cache
    BY <1>3 DEF RemoveFinalizer
  <2>2. PICK o \in Outcomes :
          /\ obj' = IF Applied(o, ~Conflicts(job.obj)) THEN [obj EXCEPT !.phase = "absent", !.fin = FALSE]
                    ELSE obj
          /\ Return(/\ ~Answered(o, ~Conflicts(job.obj))
                    /\ ~(o = "ok" /\ obj.phase = "absent"))
    BY <1>3 DEF RemoveFinalizer
  <2>3. obj' = obj \/ obj'.phase = "absent"
    BY <2>2 DEF TypeOK, Objects
  <2>4. obj'.phase # "absent" => queued'
    BY <2>2, <2>3 DEF Answered, Applied, Return, TypeOK, Objects
  <2> QED
    BY <2>1, <2>3, <2>4, AwakeKept
<1>4. CASE PatchStatus
  <2>1. UNCHANGED cache /\ obj'.phase = obj.phase /\ obj'.fin = obj.fin
    BY <1>4 DEF PatchStatus, Patched, TypeOK, Objects
  <2>2. obj.phase # "absent" => queued'
    BY <1>4 DEF PatchStatus, Return
  <2> QED
    BY <2>1, <2>2, AwakeKept
<1>5. CASE Fetch
  BY <1>5 DEF Fetch, AwakeInv, DeletedIsHeld, GoneForGood, CacheAwake, At
<1>6. CASE Report
  <2>1. UNCHANGED <<cache, queued, job>> /\ obj'.phase = obj.phase /\ obj'.fin = obj.fin
    BY <1>6 DEF Report, TypeOK, Objects
  <2> QED
    BY <2>1 DEF AwakeInv, DeletedIsHeld, GoneForGood, CacheAwake, At
<1>7. CASE InformerSync
  BY <1>7 DEF InformerSync, Changed, AwakeInv, DeletedIsHeld, GoneForGood, CacheAwake, At
<1>8. CASE Crash
  BY <1>8 DEF Crash, AwakeInv, DeletedIsHeld, GoneForGood, CacheAwake
<1>9. CASE UserEdits
  <2>1. UNCHANGED <<cache, queued, job>> /\ obj.phase # "absent"
    BY <1>9 DEF UserEdits
  <2>2. obj'.phase = "deleting" => obj'.fin
    BY <1>9, <2>1, DeletingIsHeld DEF UserEdits, AwakeInv
  <2> QED
    BY <2>1, <2>2 DEF AwakeInv, DeletedIsHeld, GoneForGood, CacheAwake, At
<1>10. CASE OxideGoesOn \/ AutoRestarts \/ Outside \/ UNCHANGED vars
  <2>1. UNCHANGED <<k8s, job>>
    BY <1>10 DEF OxideGoesOn, AutoRestarts, Outside, vars
  <2> QED
    BY <2>1 DEF k8s, AwakeInv, DeletedIsHeld, GoneForGood, CacheAwake, At
<1> QED
  BY <1>1, <1>2, <1>3, <1>4, <1>5, <1>6, <1>7, <1>8, <1>9, <1>10, AwakeWorks DEF Next, Step

\* An object that is there and not opted out is queued, being reconciled or about to be
\* queued by an event, whatever fails and whatever is edited: every outcome of a
\* reconcile is looked at again (instance_controller.go:72, helpers.go:93).
THEOREM InstanceNotForgotten == Spec => []NeverForgotten
<1>1. AwakeInv => NeverForgotten
  BY DEF AwakeInv, DeletedIsHeld, GoneForGood, CacheAwake, NeverForgotten, Changed
<1> QED
  BY <1>1, TypeCorrect, AwakeInit, AwakeNext, PTL DEF Spec

-----------------------------------------------------------------------------
(* The observed generation's size is the instance's.                       *)

\* A generation is observed by a reconcile of a copy that was no older.
ObservedLags == obj.obs <= cache.gen /\ (~At("idle") => obj.obs <= job.obj.gen)

\* A reconcile that gets to the addresses has found the size it wants.
ReadyIsSized ==
  At("listIPs") \/ (At("patch") /\ job.res = "Ready") =>
    (inst.state # "none" => inst.size = job.obj.size)

ReadyAtTheEnd == job.res = "Ready" => At("patch")

SizeInv == ObservedLags /\ ReadyIsSized /\ ReadyAtTheEnd /\ ObservedSizeIsReal

LEMMA SizeInit == Init => SizeInv
BY DEF Init, NoObject, NoInst, Idle, SizeInv, ObservedLags, ReadyIsSized, ReadyAtTheEnd,
       ObservedSizeIsReal, At

\* When a reconcile finds nothing to change.
LEMMA AfterViewEnds ==
  ASSUME TypeOK, NEW cur, cur.state \in RunStates, job' = AfterView(cur), job.res # "Ready"
  PROVE  /\ job'.pc = "listIPs" => cur.size = job.obj.size
         /\ job'.res # "Ready"
<1> DEFINE go(pc)    == [job EXCEPT !.id = TRUE, !.state = cur.state, !.pc = pc]
           done(res) == [go("patch") EXCEPT !.res = res]
<1>1. /\ \A pc : go(pc).pc = pc /\ go(pc).res = job.res
      /\ \A res : done(res).pc = "patch" /\ done(res).res = res
  BY DEF TypeOK, Jobs
<1> HIDE DEF go, done
<1>2. CASE cur.size # job.obj.size
  <2>1. job' = go("resize") \/ job' = go("stop") \/ job' = done("Progressing")
    <3>1. CASE cur.state = "stopped"
      BY <1>2, <3>1 DEF AfterView, go, done
    <3>2. CASE cur.state = "running"
      BY <1>2, <3>2 DEF AfterView, go, done
    <3>3. CASE cur.state \notin {"stopped", "running"}
      BY <1>2, <3>3 DEF AfterView, go, done
    <3> QED
      BY <3>1, <3>2, <3>3
  <2> QED
    BY <1>1, <2>1
<1>3. CASE cur.size = job.obj.size
  <2>1. \/ job' = go("start") \/ job' = go("stop") \/ job' = go("listIPs")
        \/ job' = done("Error") \/ job' = done("Progressing")
    BY <1>3 DEF AfterView, go, done, InFlight
  <2> QED
    BY <1>1, <1>3, <2>1
<1> QED
  BY <1>2, <1>3

\* The running reconcile goes on with its copy, or returns.
KeepsCopy == job'.pc = "idle" \/ (~At("idle") /\ job'.obj.gen = job.obj.gen)

\* A reconcile's copy that is of the observed generation is of the observed spec.
LEMMA ObservedCopy ==
  ASSUME TypeOK, StopInv, SizeInv, ~At("idle"), obj.obs = obj.gen
  PROVE  job.obj.size = obj.size
BY DEF StopInv, CopiesLag, Lag, Same, SizeInv, ObservedLags, TypeOK, Jobs, Objects

\* A step that neither moves the observed generation nor ends ready, and gives the
\* instance no other size than the reconcile's.
LEMMA SizeKept ==
  ASSUME TypeOK, StopInv, SizeInv, KeepsCopy, cache' = cache,
         obj'.gen = obj.gen /\ obj'.size = obj.size /\ obj'.obs = obj.obs,
         \/ inst'.state = "none"
         \/ inst.state # "none" /\ inst'.size = inst.size
         \/ ~At("idle") /\ inst'.size = job.obj.size,
         job'.res # "Ready",
         job'.pc = "listIPs" => (inst'.state # "none" => inst'.size = job'.obj.size)
  PROVE  SizeInv'
<1>1. ObservedLags' /\ ReadyIsSized' /\ ReadyAtTheEnd'
  BY DEF SizeInv, KeepsCopy, ObservedLags, ReadyIsSized, ReadyAtTheEnd, At
<1>2. ObservedSizeIsReal'
  BY ObservedCopy DEF SizeInv, ObservedSizeIsReal
<1> QED
  BY <1>1, <1>2 DEF SizeInv

LEMMA NotReadyYet ==
  ASSUME TypeOK, SizeInv, ~At("patch") PROVE job.res # "Ready"
BY DEF SizeInv, ReadyAtTheEnd

\* What goes on or returns without being ready.
LEMMA Unready ==
  ASSUME TypeOK
  PROVE  /\ Idle.res # "Ready"
         /\ \A pc : Goto(pc).res = job.res
         /\ \A res : Outcome(res).res = res
BY DEF Idle, Goto, Outcome, TypeOK, Jobs

LEMMA SizeCallSteps ==
  ASSUME TypeOK, StopInv, SizeInv,
         \/ CreateInstance \/ StopInstance \/ ResizeInstance \/ StartInstance
         \/ ViewInstance \/ ViewToDelete \/ DeleteInstance \/ DeleteDisk
  PROVE  SizeInv'
<1>1. UNCHANGED <<obj, cache>> /\ ~At("idle") /\ job.res # "Ready"
  BY NotReadyYet DEF CreateInstance, StopInstance, ResizeInstance, StartInstance, ViewInstance,
         ViewToDelete, DeleteInstance, DeleteDisk, k8s, At
<1>2. CASE ViewInstance
  <2>1. inst' = inst /\ Viewed.state \in RunStates
    BY <1>2 DEF ViewInstance, oxide, Viewed, TypeOK
  <2>2. CASE job' = AfterView(Viewed)
    <3>1. job'.obj = job.obj /\ job'.res # "Ready" /\ (job'.pc = "listIPs" => inst.size = job.obj.size)
      BY <1>1, <2>1, <2>2, AfterViewType, AfterViewEnds DEF Viewed
    <3> QED
      BY <1>1, <2>1, <3>1, SizeKept DEF KeepsCopy
  <2>3. CASE job' = Outcome("Error") \/ job' = Goto("create")
    BY <1>1, <2>1, <2>3, Pcs, Unready, SizeKept DEF KeepsCopy
  <2> QED
    BY <1>2, <2>2, <2>3 DEF ViewInstance
<1>3. CASE CreateInstance
  <2> DEFINE cur == [state |-> NewInst.state, size |-> NewInst.size]
  <2>1. /\ inst' = inst \/ inst' = NewInst
        /\ \/ job' = AfterView(cur) /\ inst' = NewInst
           \/ job' = Outcome("Error")
    BY <1>3 DEF CreateInstance, Answered, Applied
  <2>2. NewInst.size = job.obj.size /\ cur.state \in RunStates /\ cur.size = job.obj.size
    BY DEF NewInst, RunStates
  <2>3. inst' = inst \/ inst'.size = job.obj.size
    BY <2>1, <2>2
  <2> HIDE DEF cur
  <2>4. CASE job' = AfterView(cur) /\ inst' = NewInst
    <3>1. job'.obj = job.obj /\ job'.res # "Ready"
      BY <1>1, <2>2, <2>4, AfterViewType, AfterViewEnds
    <3> QED
      BY <1>1, <2>2, <2>4, <3>1, SizeKept DEF KeepsCopy
  <2>5. CASE job' = Outcome("Error")
    BY <1>1, <2>3, <2>5, Pcs, Unready, SizeKept DEF KeepsCopy
  <2> QED
    BY <2>1, <2>4, <2>5
<1>4. CASE StopInstance \/ ResizeInstance \/ StartInstance \/ ViewToDelete \/ DeleteInstance \/ DeleteDisk
  <2>1. \/ inst'.state = "none"
        \/ inst.state # "none" /\ inst'.size = inst.size
        \/ inst'.size = job.obj.size
    <3>1. inst' \in {inst, NoInst, [inst EXCEPT !.state = "stopping"], [inst EXCEPT !.state = "starting"],
                     [inst EXCEPT !.size = job.obj.size]}
      BY <1>4 DEF StopInstance, ResizeInstance, StartInstance, ViewToDelete, DeleteInstance, DeleteDisk,
                  oxide
    <3>2. inst' # inst => inst' = NoInst \/ inst.state # "none"
      BY <1>4 DEF StopInstance, ResizeInstance, StartInstance, ViewToDelete, DeleteInstance, DeleteDisk,
                  Applied, CanStop, CanChange, oxide
    <3> QED
      BY <3>1, <3>2 DEF NoInst, TypeOK
  <2>2. \/ job' = Idle
        \/ \E res \in {"Progressing", "Error"} : job' = Outcome(res)
        \/ \E pc \in {"stop", "deleteInst", "deleteDisk", "removeFinalizer"} : job' = Goto(pc)
    <3>1. CASE StopInstance
      BY <3>1 DEF StopInstance, Return
    <3>2. CASE ResizeInstance \/ StartInstance
      BY <3>2 DEF ResizeInstance, StartInstance
    <3>3. CASE ViewToDelete
      BY <3>3 DEF ViewToDelete, AfterDelete, Return
    <3>4. CASE DeleteInstance \/ DeleteDisk
      BY <3>4 DEF DeleteInstance, DeleteDisk, Deleted, AfterDelete, Return
    <3> QED
      BY <1>4, <3>1, <3>2, <3>3, <3>4
  <2>3. KeepsCopy /\ job'.res # "Ready" /\ job'.pc # "listIPs"
    BY <1>1, <2>2, Pcs, Unready DEF KeepsCopy
  <2> QED
    BY <1>1, <2>1, <2>3, SizeKept
<1> QED
  BY <1>2, <1>3, <1>4

LEMMA SizeObjectSteps ==
  ASSUME TypeOK, StopInv, SizeInv,
         Reconcile \/ AddFinalizer \/ RemoveFinalizer \/ PatchStatus \/ ListIPs
  PROVE  SizeInv'
<1>1. UNCHANGED <<cache, inst>>
  BY DEF Reconcile, AddFinalizer, RemoveFinalizer, PatchStatus, ListIPs, k8s, oxide
<1>2. CASE Reconcile
  <2>1. CASE job' = Idle
    BY <1>1, <1>2, <2>1, Pcs, Unready
       DEF Reconcile, SizeInv, ObservedLags, ReadyIsSized, ReadyAtTheEnd, ObservedSizeIsReal, At
  <2>2. CASE /\ job'.pc = FirstStep(cache) /\ job'.obj = cache /\ job'.res = "Error"
    <3>1. FirstStep(cache) \notin {"listIPs", "patch"}
      BY DEF FirstStep
    <3> QED
      BY <1>1, <1>2, <2>2, <3>1
         DEF Reconcile, SizeInv, ObservedLags, ReadyIsSized, ReadyAtTheEnd, ObservedSizeIsReal, At
  <2> QED
    BY <1>2, <2>1, <2>2 DEF Reconcile
<1>3. CASE AddFinalizer
  <2>1. /\ obj'.gen = obj.gen /\ obj'.size = obj.size /\ obj'.obs = obj.obs
    BY <1>3, AddsFinalizer DEF TypeOK, Objects
  <2>2. job.res # "Ready" /\ ~At("idle")
    BY <1>3, NotReadyYet DEF AddFinalizer, At
  <2>3. CASE job' = Idle
    BY <1>1, <2>1, <2>3, Pcs, Unready, SizeKept DEF KeepsCopy, TypeOK
  <2>4. CASE job.obj = obj /\ job' = [job EXCEPT !.pc = "view", !.obj = obj']
    <3>1. job'.pc = "view" /\ job'.obj = obj' /\ job'.res = job.res
      BY <2>4 DEF TypeOK, Jobs
    <3> QED
      BY <1>1, <2>1, <2>2, <2>4, <3>1, SizeKept DEF KeepsCopy
  <2> QED
    BY <1>3, <2>3, <2>4, AddsFinalizer
<1>4. CASE RemoveFinalizer
  <2>1. /\ obj'.gen = obj.gen /\ obj'.size = obj.size /\ obj'.obs = obj.obs
        /\ job' = Idle
    BY <1>4, RemovesFinalizer DEF TypeOK, Objects
  <2> QED
    BY <1>1, <2>1, Pcs, Unready, SizeKept DEF KeepsCopy
<1>5. CASE PatchStatus
  <2>1. job' = Idle /\ ~At("idle")
    BY <1>5 DEF PatchStatus, Return, At
  <2>2. obj'.gen = obj.gen /\ obj'.size = obj.size
    BY <1>5 DEF PatchStatus, Patched, TypeOK, Objects
  <2>3. CASE obj'.obs = obj.obs
    BY <1>1, <2>1, <2>2, <2>3, Pcs, Unready, SizeKept DEF KeepsCopy
  <2>4. CASE obj'.obs # obj.obs
    <3>1. obj'.obs = job.obj.gen /\ job.res = "Ready"
      BY <1>5, <2>4 DEF PatchStatus, Patched, Merged, Observed, TypeOK, Objects
    <3>2. inst.state # "none" => inst.size = job.obj.size
      BY <1>5, <3>1 DEF PatchStatus, SizeInv, ReadyIsSized
    <3>3. job.obj.gen <= cache.gen /\ (job.obj.gen = obj.gen => job.obj.size = obj.size)
      BY <2>1 DEF StopInv, CopiesLag, Lag, Same, TypeOK, Jobs, Objects
    <3>4. ObservedLags' /\ ObservedSizeIsReal'
      BY <1>1, <2>1, <2>2, <3>1, <3>2, <3>3, Pcs DEF ObservedLags, ObservedSizeIsReal, At
    <3>5. ReadyIsSized' /\ ReadyAtTheEnd'
      BY <2>1, Pcs, Unready DEF ReadyIsSized, ReadyAtTheEnd, At
    <3> QED
      BY <3>4, <3>5 DEF SizeInv
  <2> QED
    BY <2>3, <2>4
<1>6. CASE ListIPs
  <2>1. UNCHANGED obj /\ At("listIPs") /\ \E res : job' = Outcome(res)
    BY <1>6 DEF ListIPs, k8s
  <2>2. job'.pc = "patch" /\ job'.obj = job.obj
    BY <2>1, Pcs
  <2> QED
    BY <1>1, <2>1, <2>2
       DEF SizeInv, ObservedLags, ReadyIsSized, ReadyAtTheEnd, ObservedSizeIsReal, At
<1> QED
  BY <1>2, <1>3, <1>4, <1>5, <1>6

LEMMA SizeSurroundings ==
  ASSUME TypeOK, StopInv, SizeInv,
         \/ Fetch \/ Report \/ InformerSync \/ Crash \/ UserEdits
         \/ OxideGoesOn \/ AutoRestarts \/ Outside \/ UNCHANGED vars
  PROVE  SizeInv'
<1> USE DEF SizeInv, ObservedLags, ReadyIsSized, ReadyAtTheEnd, ObservedSizeIsReal, At
<1>1. cache.gen <= obj.gen /\ obj.obs <= cache.gen /\ cache.gen \in Nat /\ obj.gen \in Nat /\ obj.obs \in Nat
  BY DEF StopInv, CopiesLag, Lag, TypeOK, Objects
<1>2. CASE Fetch \/ Report
  <2>1. UNCHANGED <<cache, job, inst>>
    BY <1>2 DEF Fetch, Report, oxide
  <2>2. obj'.gen = obj.gen /\ obj'.size = obj.size /\ obj'.obs = obj.obs
    BY <1>2 DEF Fetch, Report, TypeOK, Objects
  <2> QED
    BY <2>1, <2>2
<1>3. CASE InformerSync
  BY <1>1, <1>3 DEF InformerSync, oxide
<1>4. CASE Crash
  BY <1>1, <1>4, Pcs, Unready DEF Crash, oxide
<1>5. CASE UserEdits
  <2>1. UNCHANGED <<cache, job, inst>> /\ obj.phase # "absent" /\ \E e \in Edits : obj' \in Changes(e)
    BY <1>5 DEF UserEdits, oxide
  <2>2. obj'.obs = obj.obs
    <3>1. PICK e \in Edits : obj' \in Changes(e)
      BY <2>1
    <3>2. CASE e = "size"
      <4>1. PICK size \in Sizes : obj' = [obj EXCEPT !.size = size, !.gen = @ + 1]
        BY <3>1, <3>2 DEF Changes
      <4> QED
        BY <4>1 DEF TypeOK, Objects
    <3>3. CASE e = "run"
      <4>1. PICK run \in Wanted : obj' = [obj EXCEPT !.run = run, !.gen = @ + 1]
        BY <3>1, <3>3 DEF Changes
      <4> QED
        BY <4>1 DEF TypeOK, Objects
    <3>4. CASE e \in {"prot", "disabled", "delete"}
      BY <3>1, <3>4 DEF Changes, TypeOK, Objects
    <3> QED
      BY <3>2, <3>3, <3>4, OutsideAssumption
  <2>3. obj'.gen = obj.gen + 1 \/ (obj'.gen = obj.gen /\ obj'.size = obj.size)
    BY <2>1, EditedSpec
  <2> QED
    BY <1>1, <2>1, <2>2, <2>3
<1>6. CASE OxideGoesOn \/ AutoRestarts \/ Outside
  <2>1. UNCHANGED <<obj, cache, job>>
    BY <1>6 DEF OxideGoesOn, AutoRestarts, Outside, k8s
  <2>2. inst'.state = "none" \/ (inst.state # "none" /\ inst'.size = inst.size)
    BY <1>6, OutsideAssumption
       DEF OxideGoesOn, AutoRestarts, Outside, InFlight, From, NoInst, TypeOK
  <2> QED
    BY <2>1, <2>2
<1>7. CASE UNCHANGED vars
  BY <1>7 DEF vars, k8s, oxide
<1> QED
  BY <1>2, <1>3, <1>4, <1>5, <1>6, <1>7

LEMMA SizeNext ==
  ASSUME TypeOK, StopInv, SizeInv, [Next]_vars PROVE SizeInv'
BY SizeCallSteps, SizeObjectSteps, SizeSurroundings DEF Next, Step

\* As long as the object's generation is reported as observed, the instance in Oxide has
\* the size the object asks for, whatever copies the reconciles worked from and whatever
\* happened to the instance since (instance_controller.go:74, 106).
THEOREM ObservedMeansSized == Spec => []ObservedSizeIsReal
<1>1. SizeInv => ObservedSizeIsReal
  BY DEF SizeInv
<1> QED
  BY <1>1, TypeCorrect, HeldInit, HeldNext, StopInit, StopNext, SizeInit, SizeNext, PTL DEF Spec
=============================================================================
