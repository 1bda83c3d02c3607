--------------------------- MODULE TeardownProofs ---------------------------
(***************************************************************************)
(* What deleting promises, for every choice of kinds, protection and       *)
(* faults: nothing is left in Oxide, and the connection goes last.         *)
(***************************************************************************)
EXTENDS Teardown, SequenceTheorems, TLAPS

USE DEF Kinds, Protected

-----------------------------------------------------------------------------
(* Data.                                                                   *)

LEMMA KindsKnown ==
  ASSUME scene \in Scenes
  PROVE  /\ scene.kinds \subseteq AllKinds /\ scene.protected \subseteq scene.kinds
         /\ scene.given \subseteq Things /\ scene.byRef \in BOOLEAN
         /\ \A k \in scene.kinds : Bring[k] \cap scene.given = {}
BY ParametersAssumption

LEMMA Brings ==
  /\ Bring["project"] = {"project", "defaultVpc", "subnetOfDefault"}
  /\ Bring["vpc"] = {"vpc", "defaultSubnet"}
  /\ \A k \in AllKinds \ {"project", "vpc"} : Bring[k] = {k}
BY DEF Bring, AllKinds

LEMMA BringsThings == \A k \in AllKinds : k \in Bring[k] /\ Bring[k] \subseteq Things
<1> SUFFICES ASSUME NEW k \in AllKinds PROVE k \in Bring[k] /\ Bring[k] \subseteq Things
  OBVIOUS
<1>1. CASE k = "project" BY <1>1, Brings DEF Things, Parent
<1>2. CASE k = "vpc" BY <1>2, Brings DEF Things, Parent
<1>3. CASE k \notin {"project", "vpc"} BY <1>3, Brings DEF AllKinds, Things, Parent
<1> QED BY <1>1, <1>2, <1>3

\* No two controllers bring the same thing.
LEMMA BringApart == \A k, h \in AllKinds : k # h => Bring[k] \cap Bring[h] = {}
<1> SUFFICES ASSUME NEW k \in AllKinds, NEW h \in AllKinds, k # h
             PROVE  Bring[k] \cap Bring[h] = {}
  OBVIOUS
<1>1. CASE k \notin {"project", "vpc"} BY <1>1, Brings DEF AllKinds
<1>2. CASE h \notin {"project", "vpc"} BY <1>2, Brings DEF AllKinds
<1>3. CASE k \in {"project", "vpc"} /\ h \in {"project", "vpc"} BY <1>3, Brings
<1> QED BY <1>1, <1>2, <1>3

\* A thing is one of those to be deleted.
In(x, todo) == \E i \in 1..Len(todo) : todo[i] = x

LEMMA Tuples ==
  ASSUME NEW S, NEW a \in S, NEW b \in S, NEW c \in S
  PROVE  /\ <<a, b>> \in Seq(S) /\ <<a, b>> # <<>>
         /\ <<a, b, c>> \in Seq(S) /\ <<a, b, c>> # <<>>
OBVIOUS

\* handleDelete deletes what the controller brought, all of it and nothing else.
LEMMA RemovesAll ==
  ASSUME NEW k \in AllKinds
  PROVE  /\ Removes(k) \in Seq(Things) /\ Removes(k) # <<>>
         /\ \A x \in Bring[k] : In(x, Removes(k))
         /\ Removes(k) \in Seq(Bring[k])
<1> k \in AllKinds /\ Bring[k] \subseteq Things
  BY BringsThings
<1>1. CASE k = "project"
  <2>1. Removes(k) = <<"subnetOfDefault", "defaultVpc", "project">>
    BY <1>1 DEF Removes
  <2>2. "project" \in Bring[k] /\ "defaultVpc" \in Bring[k] /\ "subnetOfDefault" \in Bring[k]
    BY <1>1, Brings
  <2>3. Removes(k) \in Seq(Bring[k]) /\ Removes(k) # <<>>
    BY <2>1, <2>2, Tuples
  <2>4. Removes(k) \in Seq(Things)
    BY <2>1, <2>2, Tuples
  <2>5. \A x \in Bring[k] : In(x, Removes(k))
    BY <1>1, <2>1, Brings DEF In
  <2> QED BY <2>3, <2>4, <2>5
<1>2. CASE k = "vpc"
  <2>1. Removes(k) = <<"defaultSubnet", "vpc">>
    BY <1>2 DEF Removes
  <2>2. "vpc" \in Bring[k] /\ "defaultSubnet" \in Bring[k]
    BY <1>2, Brings
  <2>3. Removes(k) \in Seq(Bring[k]) /\ Removes(k) # <<>>
    BY <2>1, <2>2, Tuples
  <2>4. Removes(k) \in Seq(Things)
    BY <2>1, <2>2, Tuples
  <2>5. \A x \in Bring[k] : In(x, Removes(k))
    BY <1>2, <2>1, Brings DEF In
  <2> QED BY <2>3, <2>4, <2>5
<1>3. CASE k \notin {"project", "vpc"}
  <2>1. Removes(k) = <<k>> /\ Bring[k] = {k}
    BY <1>3, Brings DEF Removes
  <2>2. k \in Things
    BY <2>1, BringsThings
  <2> QED BY <2>1, <2>2 DEF In
<1> QED BY <1>1, <1>2, <1>3

\* Deleting the first leaves the others.
LEMMA TailKeeps ==
  ASSUME NEW todo \in Seq(Things), todo # <<>>, NEW x, In(x, todo), x # Head(todo)
  PROVE  In(x, Tail(todo)) /\ Len(todo) # 1
<1>1. PICK i \in 1..Len(todo) : todo[i] = x
  BY DEF In
<1>2. i # 1
  BY <1>1
<1>3. i - 1 \in 1..Len(Tail(todo)) /\ Tail(todo)[i - 1] = x
  BY <1>1, <1>2
<1>4. Len(todo) # 1
  BY <1>1, <1>2
<1>5. In(x, Tail(todo))
  BY <1>3 DEF In
<1> QED BY <1>4, <1>5

-----------------------------------------------------------------------------
(* Types.                                                                  *)

LEMMA IdleType == NoObject \in Objects /\ Idle \in Jobs
<1>1. NoObject \in Objects
  BY DEF NoObject, Objects, Phases
<1>2. <<>> \in Seq(Things)
  OBVIOUS
<1> QED BY <1>1, <1>2 DEF Idle, Jobs, Steps

\* The annotation changes nothing else about an object, and nothing about the others.
LEMMA AnnotateSame ==
  ASSUME obj \in [Kinds -> Objects], NEW h \in Kinds, Annotate(h)
  PROVE  /\ UNCHANGED <<scene, cache, job, conn, connCache, connJob, ox, making, faulted, faults>>
         /\ obj' \in [Kinds -> Objects]
         /\ \A k \in Kinds : /\ obj'[k].phase = obj[k].phase /\ obj'[k].fin = obj[k].fin
                             /\ obj'[k].id = obj[k].id /\ obj'[k].ready = obj[k].ready
         /\ \A k \in Kinds : k # h => obj'[k] = obj[k]
BY DEF Annotate, connection, oxide, Objects

LEMMA InitTypes == Init => TypeOK
<1> SUFFICES ASSUME Init PROVE TypeOK
  OBVIOUS
<1> QED BY KindsKnown, IdleType DEF Init, TypeOK, Phases, At, Idle

\* A step of one reconcile, seen from outside.
LEMMA JobTypes ==
  ASSUME TypeOK, NEW k \in Kinds, scene' = scene, NEW j \in Jobs, job' = [job EXCEPT ![k] = j],
         j.pc = "delete" => j.todo # <<>>
  PROVE  job' \in [Kinds -> Jobs] /\ \A h \in Kinds : At(h, "delete")' => job'[h].todo # <<>>
BY DEF TypeOK, At

\* The next record of a reconcile that goes on, fails or returns.
LEMMA GotoTypes ==
  ASSUME TypeOK, NEW k \in Kinds, scene' = scene, NEW pc \in Steps, pc # "delete",
         NEW good \in BOOLEAN,
         Goto(k, pc) \/ Fails(k) \/ Return(k) \/ Known(k, good)
  PROVE  job' \in [Kinds -> Jobs] /\ \A h \in Kinds : At(h, "delete")' => job'[h].todo # <<>>
<1>1. CASE Goto(k, pc)
  <2> DEFINE j == [job[k] EXCEPT !.pc = pc]
  <2>1. j \in Jobs /\ j.pc # "delete"
    BY DEF TypeOK, Jobs
  <2>2. job' = [job EXCEPT ![k] = j]
    BY <1>1 DEF Goto
  <2> QED BY <2>1, <2>2, JobTypes
<1>2. CASE Fails(k)
  <2> DEFINE j == [job[k] EXCEPT !.pc = "patch"]
  <2>1. j \in Jobs /\ j.pc # "delete"
    BY DEF TypeOK, Jobs, Steps
  <2>2. job' = [job EXCEPT ![k] = j]
    BY <1>2 DEF Fails
  <2> QED BY <2>1, <2>2, JobTypes
<1>3. CASE Return(k)
  <2>1. Idle \in Jobs /\ Idle.pc # "delete"
    BY IdleType DEF Idle
  <2> QED BY <1>3, <2>1, JobTypes DEF Return
<1>4. CASE Known(k, good)
  <2> DEFINE j == [job[k] EXCEPT !.pc = IF k = "vpc" THEN "rules" ELSE "patch",
                                 !.id = TRUE, !.ok = good]
  <2>1. j \in Jobs /\ j.pc # "delete"
    BY DEF TypeOK, Jobs, Steps
  <2>2. job' = [job EXCEPT ![k] = j]
    BY <1>4 DEF Known
  <2> QED BY <2>1, <2>2, JobTypes
<1> QED BY <1>1, <1>2, <1>3, <1>4

LEMMA ReconcileTypes ==
  ASSUME TypeOK, NEW k \in Kinds, ReconcileLive(k) \/ ReconcileDeleted(k)
  PROVE  TypeOK'
<1>1. obj' \in [Kinds -> Objects]
  <2>1. obj[k] \in Objects /\ [obj[k] EXCEPT !.fin = TRUE] \in Objects
    BY DEF TypeOK, Objects
  <2>2. obj' = obj \/ obj' = [obj EXCEPT ![k] = [obj[k] EXCEPT !.fin = TRUE]]
    BY DEF ReconcileLive, ReconcileDeleted, AddFinalizer
  <2> QED BY <2>1, <2>2 DEF TypeOK, ReconcileLive, ReconcileDeleted
<1>2. PICK img \in Objects, pc \in {"client", "unfinalize"} : Started(k, img, pc)
  BY <1>1 DEF TypeOK, ReconcileLive, ReconcileDeleted, FirstDeleteStep
<1> DEFINE j == [Idle EXCEPT !.pc = pc, !.img = img]
<1>3. j \in Jobs /\ j.pc # "delete" /\ job' = [job EXCEPT ![k] = j]
  BY <1>2, IdleType DEF Started, Jobs, Steps, Idle
<1>4. job' \in [Kinds -> Jobs] /\ \A h \in Kinds : At(h, "delete")' => job'[h].todo # <<>>
  BY <1>3, JobTypes DEF ReconcileLive, ReconcileDeleted
<1> QED BY <1>1, <1>4 DEF TypeOK, ReconcileLive, ReconcileDeleted, connection, oxide

\* What a reconcile does next once it has looked, or made something.
LEMMA GoesOn ==
  ASSUME NEW k, View(k) \/ Create(k)
  PROVE  \/ \E good \in BOOLEAN : Known(k, good)
         \/ Goto(k, "source") \/ Goto(k, "create") \/ Fails(k)
<1>1. Usable(k) \in BOOLEAN /\ (k \notin Slow) \in BOOLEAN
  BY DEF Usable
<1>2. CASE View(k)
  BY <1>1, <1>2 DEF View
<1>3. CASE Create(k)
  BY <1>1, <1>3 DEF Create
<1> QED BY <1>2, <1>3

LEMMA LiveTypes ==
  ASSUME TypeOK, NEW k \in Kinds,
         ClientLive(k) \/ View(k) \/ FindSource(k) \/ Create(k) \/ UpdateRules(k)
  PROVE  TypeOK'
<1>1. job' \in [Kinds -> Jobs] /\ \A h \in Kinds : At(h, "delete")' => job'[h].todo # <<>>
  <2> DEFINE j == [job[k] EXCEPT !.pc = "patch", !.ok = FALSE]
  <2>1. j \in Jobs /\ j.pc # "delete"
    BY DEF TypeOK, Jobs, Steps
  <2>2. \/ job' = [job EXCEPT ![k] = j]
        \/ Goto(k, "view") \/ Goto(k, "source") \/ Goto(k, "create") \/ Goto(k, "patch")
        \/ Fails(k) \/ \E good \in BOOLEAN : Known(k, good)
    <3>1. CASE ClientLive(k) BY <3>1 DEF ClientLive
    <3>2. CASE View(k) BY <3>2, GoesOn
    <3>3. CASE FindSource(k) BY <3>3 DEF FindSource
    <3>4. CASE Create(k) BY <3>4, GoesOn
    <3>5. CASE UpdateRules(k) BY <3>5 DEF UpdateRules
    <3> QED BY <3>1, <3>2, <3>3, <3>4, <3>5
  <2>3. {"view", "source", "create", "patch"} \subseteq Steps /\ "delete" \notin {"view", "source", "create", "patch"}
    BY DEF Steps
  <2>4. scene' = scene
    BY DEF ClientLive, View, FindSource, Create, UpdateRules
  <2>5. CASE job' = [job EXCEPT ![k] = j]
    BY <2>1, <2>4, <2>5, JobTypes
  <2>6. ASSUME NEW good \in BOOLEAN, Known(k, good)
        PROVE  job' \in [Kinds -> Jobs] /\ \A h \in Kinds : At(h, "delete")' => job'[h].todo # <<>>
    BY <2>3, <2>4, <2>6, GotoTypes
  <2>7. CASE Goto(k, "view") \/ Goto(k, "source") \/ Goto(k, "create") \/ Goto(k, "patch") \/ Fails(k)
    BY <2>3, <2>4, <2>7, GotoTypes
  <2> QED BY <2>2, <2>5, <2>6, <2>7
<1>2. ox' \subseteq Things /\ making' \subseteq ox' /\ faulted' \subseteq ox'
  <2>1. UNCHANGED oxide \/ Made(k)
    BY DEF ClientLive, View, FindSource, Create, UpdateRules
  <2>2. k \in Bring[k] /\ Bring[k] \subseteq Things
    BY BringsThings, KindsKnown DEF TypeOK
  <2> QED BY <2>1, <2>2 DEF TypeOK, oxide, Made
<1>3. faults' \in Nat
  <2>1. UNCHANGED faults \/ Fault
    BY DEF ClientLive, View, FindSource, Create, UpdateRules
  <2> QED BY <2>1 DEF TypeOK, Fault
<1>4. UNCHANGED <<scene, obj, cache, connection>>
  BY DEF ClientLive, View, FindSource, Create, UpdateRules
<1> QED BY <1>1, <1>2, <1>3, <1>4 DEF TypeOK, connection

LEMMA PatchTypes ==
  ASSUME TypeOK, NEW k \in Kinds, PatchStatus(k) \/ RemoveFinalizer(k)
  PROVE  TypeOK'
<1>1. job' \in [Kinds -> Jobs] /\ \A h \in Kinds : At(h, "delete")' => job'[h].todo # <<>>
  <2>1. Return(k) /\ scene' = scene /\ "patch" \in Steps
    BY DEF PatchStatus, RemoveFinalizer, Steps
  <2> QED BY <2>1, GotoTypes
<1>2. obj' \in [Kinds -> Objects]
  <2>1. CASE PatchStatus(k)
    <3> DEFINE o == [obj[k] EXCEPT
                 !.id    = Merged(job[k].img.id, job[k].id \/ job[k].img.id, @),
                 !.ready = Merged(job[k].img.ready, job[k].ok, @)]
    <3>1. o \in Objects
      <4>1. obj[k] \in Objects /\ job[k] \in Jobs
        BY DEF TypeOK
      <4>2. /\ Merged(job[k].img.id, job[k].id \/ job[k].img.id, obj[k].id) \in BOOLEAN
            /\ Merged(job[k].img.ready, job[k].ok, obj[k].ready) \in BOOLEAN
        BY <4>1 DEF Merged, Objects, Jobs
      <4> QED BY <4>1, <4>2 DEF Objects
    <3>2. obj' = [obj EXCEPT ![k] = o] \/ obj' = obj
      BY <2>1 DEF PatchStatus, Patched
    <3> QED BY <3>1, <3>2 DEF TypeOK
  <2>2. CASE RemoveFinalizer(k)
    <3>1. [NoObject EXCEPT !.phase = "gone"] \in Objects
      BY DEF NoObject, Objects, Phases
    <3> QED BY <2>2, <3>1 DEF RemoveFinalizer, TypeOK
  <2> QED BY <2>1, <2>2
<1>3. faults' \in Nat
  BY DEF TypeOK, PatchStatus, RemoveFinalizer, Fault
<1> QED BY <1>1, <1>2, <1>3 DEF TypeOK, connection, oxide, PatchStatus, RemoveFinalizer

LEMMA DeleteTypes ==
  ASSUME TypeOK, NEW k \in Kinds, ClientDeleted(k) \/ Delete(k)
  PROVE  TypeOK'
<1>0. scene' = scene /\ "patch" \in Steps
  BY DEF ClientDeleted, Delete, Steps
<1>1. job' \in [Kinds -> Jobs] /\ \A h \in Kinds : At(h, "delete")' => job'[h].todo # <<>>
  <2>1. CASE job' = [job EXCEPT ![k].pc = "delete", ![k].todo = Removes(k)]
    <3> DEFINE j == [job[k] EXCEPT !.pc = "delete", !.todo = Removes(k)]
    <3>1. j \in Jobs /\ j.todo # <<>>
      BY RemovesAll, KindsKnown DEF TypeOK, Jobs, Steps
    <3>2. job' = [job EXCEPT ![k] = j]
      BY <2>1
    <3> QED BY <1>0, <3>1, <3>2, JobTypes
  <2>2. CASE Return(k)
    BY <1>0, <2>2, GotoTypes
  <2>3. CASE Removed(k) /\ At(k, "delete")
    <3> DEFINE todo == job[k].todo
               j == [job[k] EXCEPT !.todo = Tail(todo),
                                   !.pc = IF Len(todo) = 1 THEN "unfinalize" ELSE @]
    <3>1. todo \in Seq(Things) /\ todo # <<>>
      BY <2>3 DEF TypeOK, Jobs
    <3>2. Tail(todo) \in Seq(Things) /\ (Len(todo) # 1 => Tail(todo) # <<>>)
      <4>1. Tail(todo) \in Seq(Things) /\ Len(Tail(todo)) = Len(todo) - 1
        BY <3>1, HeadTailProperties
      <4>2. Len(todo) # 1 => Len(Tail(todo)) # 0
        BY <3>1, <4>1
      <4>3. Tail(todo) = <<>> => Len(Tail(todo)) = 0
        BY <4>1, EmptySeq
      <4> QED BY <4>1, <4>2, <4>3
    <3>3. j \in Jobs /\ (j.pc = "delete" => j.todo # <<>>)
      BY <2>3, <3>2 DEF TypeOK, Jobs, Steps, At
    <3>4. job' = [job EXCEPT ![k] = j]
      BY <2>3 DEF Removed
    <3> QED BY <1>0, <3>3, <3>4, JobTypes
  <2> QED BY <2>1, <2>2, <2>3 DEF ClientDeleted, Delete
<1>2. ox' \subseteq Things /\ making' \subseteq ox' /\ faulted' \subseteq ox'
  BY DEF TypeOK, ClientDeleted, Delete, Gone, oxide
<1>3. faults' \in Nat /\ UNCHANGED <<scene, obj, cache, connection>>
  BY DEF TypeOK, ClientDeleted, Delete, Fault
<1> QED BY <1>1, <1>2, <1>3 DEF TypeOK, connection

LEMMA OtherTypes ==
  ASSUME TypeOK,
         \/ ConnectionStep \/ ConnectionSync \/ DeleteConnection \/ Crash
         \/ \E x \in making : Finish(x)
         \/ \E k \in Kinds : CreateObject(k) \/ DeleteObject(k) \/ Annotate(k) \/ InformerSync(k)
  PROVE  TypeOK'
<1>1. CASE ConnectionStep
  <2>1. CASE StartConnection
    BY <2>1 DEF StartConnection, TypeOK, At, oxide
  <2>2. CASE RemoveConnection
    <3>1. conn' \in Phases /\ faults' \in Nat
      BY <2>2 DEF RemoveConnection, TypeOK, Phases, Fault
    <3>2. connJob' \in [pc : {"idle", "list", "decide"}, left : SUBSET Kinds, inUse : BOOLEAN]
      BY <2>2 DEF RemoveConnection, TypeOK
    <3> QED BY <2>2, <3>1, <3>2 DEF RemoveConnection, TypeOK, At, oxide
  <2>3. ASSUME NEW k \in Kinds, ListUsers(k) PROVE TypeOK'
    <3>1. Uses(k) \in BOOLEAN
      BY DEF Uses, Exists
    <3>2. connJob' \in [pc : {"idle", "list", "decide"}, left : SUBSET Kinds, inUse : BOOLEAN]
      BY <2>3, <3>1 DEF ListUsers, TypeOK
    <3> QED BY <2>3, <3>2 DEF ListUsers, TypeOK, At, oxide
  <2> QED BY <1>1, <2>1, <2>2, <2>3 DEF ConnectionStep
<1>2. CASE ConnectionSync \/ DeleteConnection
  BY <1>2 DEF ConnectionSync, DeleteConnection, TypeOK, At, Phases, connection, oxide
<1>3. CASE Crash
  BY <1>3, IdleType DEF Crash, Fault, TypeOK, At, Idle, oxide
<1>4. ASSUME NEW k \in Kinds, CreateObject(k) \/ DeleteObject(k) \/ Annotate(k) \/ InformerSync(k)
      PROVE  TypeOK'
  <2>1. obj' \in [Kinds -> Objects] /\ cache' \in [Kinds -> Objects]
    <3>2. CASE Annotate(k)
      BY <3>2, AnnotateSame DEF TypeOK
    <3>0. obj[k] \in Objects
      BY DEF TypeOK
    <3>1. /\ [obj[k] EXCEPT !.phase = "live"] \in Objects
          /\ [obj[k] EXCEPT !.phase = "deleting"] \in Objects
          /\ [NoObject EXCEPT !.phase = "gone"] \in Objects
      BY <3>0 DEF NoObject, Objects, Phases
    <3> QED BY <1>4, <3>1, <3>2 DEF CreateObject, DeleteObject, InformerSync, TypeOK
  <2> QED BY <1>4, <2>1 DEF CreateObject, DeleteObject, Annotate, InformerSync, TypeOK, At, connection, oxide
<1>5. ASSUME NEW x \in making, Finish(x) PROVE TypeOK'
  <2>1. making' \subseteq ox /\ faulted' \subseteq ox /\ faults' \in Nat
    BY <1>5 DEF Finish, TypeOK, Fault
  <2> QED BY <1>5, <2>1 DEF Finish, TypeOK, At, connection
<1> QED BY <1>1, <1>2, <1>3, <1>4, <1>5

\* The actions a controller's step is one of.
LEMMA Actions ==
  ASSUME NEW k, ResourceStep(k)
  PROVE  \/ ReconcileLive(k) \/ ReconcileDeleted(k)
         \/ ClientLive(k) \/ View(k) \/ FindSource(k) \/ Create(k) \/ UpdateRules(k)
         \/ PatchStatus(k) \/ RemoveFinalizer(k) \/ ClientDeleted(k) \/ Delete(k)
BY DEF ResourceStep, ProjectStep, VpcStep, SubnetStep, DiskStep, SnapshotStep, Common

LEMMA NextTypes == TypeOK /\ [Next]_vars => TypeOK'
<1> SUFFICES ASSUME TypeOK, [Next]_vars PROVE TypeOK'
  OBVIOUS
<1>1. ASSUME NEW k \in Kinds, ResourceStep(k) PROVE TypeOK'
  BY <1>1, Actions, ReconcileTypes, LiveTypes, PatchTypes, DeleteTypes
<1>2. CASE UNCHANGED vars
  BY <1>2 DEF vars, oxide, TypeOK, At
<1> QED BY <1>1, <1>2, OtherTypes DEF Next

\* Every variable keeps its type, and a deletion always has something to delete next.
THEOREM TeardownTypes == Spec => []TypeOK
BY InitTypes, NextTypes, PTL DEF Spec
-----------------------------------------------------------------------------
(* Nothing is left behind.                                                 *)

\* A reconcile of an object it has seen live, and one of an object it has seen
\* being deleted.
Making(k)   == ~At(k, "idle") /\ job[k].img.phase = "live"
Unmaking(k) == ~At(k, "idle") /\ job[k].img.phase = "deleting"

\* The finalizer goes last: a live object seen with it still has it, and so has
\* an object whose resource is being made.
FinalizerKept(k) ==
  /\ obj[k].fin => Exists(obj[k])
  /\ cache[k].phase = "live" /\ cache[k].fin => obj[k].fin
  /\ Making(k) => obj[k].fin

\* Caches lag but do not lead, and deletion is only started when seen.
DeletionSeen(k) ==
  /\ cache[k].phase = "deleting" => obj[k].phase \in {"deleting", "gone"}
  /\ cache[k].phase = "gone" => obj[k].phase = "gone"
  /\ Unmaking(k) => cache[k].phase \in {"deleting", "gone"}

StepsApart(k) ==
  /\ At(k, "idle") \/ Making(k) \/ Unmaking(k)
  /\ job[k].pc \in {"view", "source", "create", "rules", "patch"} => Making(k)
  /\ job[k].pc \in {"delete", "unfinalize"} => Unmaking(k)

\* What there is in Oxide is held by the finalizer, or still to be deleted.
HeldOrToDelete(k) ==
  /\ k \notin Protected /\ Bring[k] \cap ox # {} => obj[k].fin
  /\ At(k, "delete") => \A x \in Bring[k] \cap ox : In(x, job[k].todo)
  /\ At(k, "unfinalize") /\ k \notin Protected => Bring[k] \cap ox = {}

\* A controller deletes what it brought, and nothing for a protected object.
OwnOnly(k) ==
  /\ k \in Protected => ~At(k, "delete") /\ ~(At(k, "client") /\ Unmaking(k))
  /\ At(k, "delete") => job[k].todo \in Seq(Bring[k])

KindInv(k) ==
  FinalizerKept(k) /\ DeletionSeen(k) /\ StepsApart(k) /\ HeldOrToDelete(k) /\ OwnOnly(k)

\* A step that leaves a kind's own state alone and adds nothing of it to Oxide.
LEMMA Apart ==
  ASSUME NEW k \in Kinds, KindInv(k), scene' = scene,
         obj'[k] = obj[k], cache'[k] = cache[k], job'[k] = job[k],
         Bring[k] \cap ox' \subseteq ox
  PROVE  KindInv(k)'
BY DEF KindInv, FinalizerKept, DeletionSeen, StepsApart, HeldOrToDelete, OwnOnly, Making, Unmaking, At, Exists

LEMMA InitKinds == Init => \A k \in Kinds : KindInv(k)
<1> SUFFICES ASSUME Init, NEW k \in Kinds PROVE KindInv(k)
  OBVIOUS
<1>1. Bring[k] \cap ox = {}
  BY KindsKnown DEF Init
<1> QED
  BY <1>1 DEF Init, KindInv, FinalizerKept, DeletionSeen, StepsApart, HeldOrToDelete, OwnOnly, Making,
     Unmaking, At, Idle, NoObject, Exists

LEMMA ReconcileKind ==
  ASSUME TypeOK, NEW k \in Kinds, KindInv(k), ReconcileLive(k) \/ ReconcileDeleted(k)
  PROVE  KindInv(k)'
<1> USE DEF KindInv, FinalizerKept, DeletionSeen, StepsApart, HeldOrToDelete, OwnOnly, Making, Unmaking, At,
            Exists
<1>0. scene' = scene
  BY DEF ReconcileLive, ReconcileDeleted
<1>1. CASE ReconcileLive(k)
  <2>1. obj' \in [Kinds -> Objects] /\ obj'[k].fin /\ obj'[k].phase = obj[k].phase
    <3>1. obj[k] \in Objects /\ cache[k] \in Objects
      BY DEF TypeOK
    <3>2. CASE cache[k].fin /\ UNCHANGED obj
      BY <1>1, <3>2 DEF ReconcileLive, TypeOK
    <3>3. CASE AddFinalizer(k)
      BY <3>1, <3>3 DEF AddFinalizer, TypeOK, Objects
    <3> QED BY <1>1, <3>2, <3>3 DEF ReconcileLive
  <2>2. PICK img \in {cache[k], obj'[k]} : Started(k, img, "client") /\ img.phase = "live"
    <3>1. CASE Started(k, cache[k], "client")
      BY <1>1, <3>1 DEF ReconcileLive
    <3>2. CASE ~cache[k].fin /\ AddFinalizer(k) /\ Started(k, obj'[k], "client")
      BY <1>1, <2>1, <3>2 DEF ReconcileLive, AddFinalizer
    <3> QED BY <1>1, <3>1, <3>2 DEF ReconcileLive
  <2>3. job'[k].pc = "client" /\ job'[k].img.phase = "live"
    BY <2>2 DEF Started, Idle, TypeOK
  <2>4. obj[k].fin \/ obj[k] = cache[k]
    BY <1>1 DEF ReconcileLive, AddFinalizer
  <2> QED BY <1>0, <1>1, <2>1, <2>3, <2>4 DEF ReconcileLive, oxide
<1>2. CASE ReconcileDeleted(k)
  <2>1. job'[k].pc = FirstDeleteStep(k) /\ job'[k].img.phase = "deleting"
    BY <1>2 DEF ReconcileDeleted, Started, Idle, TypeOK
  <2> QED BY <1>0, <1>2, <2>1 DEF ReconcileDeleted, FirstDeleteStep, oxide
<1> QED BY <1>1, <1>2

\* The next record of a reconcile that goes on or fails.
LEMMA NextRecord ==
  ASSUME TypeOK, NEW k \in Kinds
  PROVE  /\ \A pc : Goto(k, pc) => job'[k].pc = pc /\ job'[k].img = job[k].img
         /\ Fails(k) => job'[k].pc = "patch" /\ job'[k].img = job[k].img
         /\ \A good \in BOOLEAN : Known(k, good) => job'[k].pc \in {"rules", "patch"} /\ job'[k].img = job[k].img
         /\ job' = [job EXCEPT ![k].pc = "patch", ![k].ok = FALSE]
              => job'[k].pc = "patch" /\ job'[k].img = job[k].img
<1>1. job \in [Kinds -> Jobs] /\ job[k] \in Jobs
  BY DEF TypeOK
<1>2. \A pc : Goto(k, pc) => job'[k].pc = pc /\ job'[k].img = job[k].img
  BY <1>1 DEF Goto, Jobs
<1>3. Fails(k) => job'[k].pc = "patch" /\ job'[k].img = job[k].img
  BY <1>1 DEF Fails, Jobs
<1>4. \A good \in BOOLEAN : Known(k, good) => job'[k].pc \in {"rules", "patch"} /\ job'[k].img = job[k].img
  BY <1>1 DEF Known, Jobs
<1>5. job' = [job EXCEPT ![k].pc = "patch", ![k].ok = FALSE]
        => job'[k].pc = "patch" /\ job'[k].img = job[k].img
  BY <1>1 DEF Jobs
<1> QED BY <1>2, <1>3, <1>4, <1>5

\* Making: the resource appears under the finalizer.
LEMMA MakeKind ==
  ASSUME TypeOK, NEW k \in Kinds, KindInv(k),
         ClientLive(k) \/ View(k) \/ FindSource(k) \/ Create(k) \/ UpdateRules(k)
  PROVE  KindInv(k)'
<1> USE DEF KindInv, FinalizerKept, DeletionSeen, StepsApart, HeldOrToDelete, OwnOnly, Making, Unmaking, At,
            Exists
<1>1. Making(k) /\ UNCHANGED <<scene, obj, cache>>
  BY DEF ClientLive, View, FindSource, Create, UpdateRules
<1>2. job'[k].pc \in {"view", "source", "create", "rules", "patch"} /\ job'[k].img = job[k].img
  <2>1. \/ Goto(k, "view") \/ Goto(k, "source") \/ Goto(k, "create") \/ Goto(k, "patch")
        \/ Fails(k) \/ \E good \in BOOLEAN : Known(k, good)
        \/ job' = [job EXCEPT ![k].pc = "patch", ![k].ok = FALSE]
    <3>1. CASE ClientLive(k) BY <3>1 DEF ClientLive
    <3>2. CASE View(k) BY <3>2, GoesOn
    <3>3. CASE FindSource(k) BY <3>3 DEF FindSource
    <3>4. CASE Create(k) BY <3>4, GoesOn
    <3>5. CASE UpdateRules(k) BY <3>5 DEF UpdateRules
    <3> QED BY <3>1, <3>2, <3>3, <3>4, <3>5
  <2> QED BY <2>1, NextRecord
<1> QED BY <1>1, <1>2

LEMMA PatchKind ==
  ASSUME TypeOK, NEW k \in Kinds, KindInv(k), PatchStatus(k)
  PROVE  KindInv(k)'
<1>1. obj'[k].phase = obj[k].phase /\ obj'[k].fin = obj[k].fin
  BY DEF PatchStatus, Patched, TypeOK, Objects
<1>2. job'[k] = Idle /\ UNCHANGED <<scene, cache, ox>>
  BY DEF PatchStatus, Return, TypeOK, oxide
<1> QED
  BY <1>1, <1>2 DEF KindInv, FinalizerKept, DeletionSeen, StepsApart, HeldOrToDelete, OwnOnly,
     Making, Unmaking, At, Exists, Idle

\* Unmaking: what is left to delete shrinks as Oxide does.
LEMMA DeleteKind ==
  ASSUME TypeOK, NEW k \in Kinds, KindInv(k), ClientDeleted(k) \/ Delete(k)
  PROVE  KindInv(k)'
<1> USE DEF KindInv, FinalizerKept, DeletionSeen, StepsApart, HeldOrToDelete, OwnOnly, Making, Unmaking, At,
            Exists
<1>1. Unmaking(k) /\ UNCHANGED <<scene, obj, cache>> /\ ox' \subseteq ox
  BY DEF ClientDeleted, Delete, Gone, oxide
<1>2. CASE job'[k] = Idle
  BY <1>1, <1>2 DEF Idle
<1>3. CASE ClientDeleted(k) /\ job' = [job EXCEPT ![k].pc = "delete", ![k].todo = Removes(k)]
  <2>1. job'[k].pc = "delete" /\ job'[k].todo = Removes(k) /\ job'[k].img = job[k].img
    BY <1>3 DEF TypeOK, Jobs
  <2>2. (\A x \in Bring[k] \cap ox' : In(x, job'[k].todo)) /\ job'[k].todo \in Seq(Bring[k])
    BY <2>1, RemovesAll, KindsKnown DEF TypeOK
  <2>3. k \notin Protected
    BY <1>1, <1>3 DEF ClientDeleted
  <2> QED BY <1>1, <2>1, <2>2, <2>3
<1>4. CASE Delete(k) /\ Removed(k)
  <2> DEFINE todo == job[k].todo
  <2>1. todo \in Seq(Things) /\ todo # <<>>
    BY <1>4 DEF Delete, TypeOK, Jobs
  <2>2. Head(todo) \notin ox'
    <3>1. ~Return(k)
      BY <1>4 DEF Removed, Delete, Return, Idle, TypeOK, Jobs
    <3> QED BY <1>4, <3>1 DEF Delete, Gone, oxide
  <2>3. \A x \in Bring[k] \cap ox' : In(x, Tail(todo)) /\ Len(todo) # 1
    <3>1. ASSUME NEW x \in Bring[k] \cap ox'
          PROVE  In(x, todo) /\ x # Head(todo)
      BY <1>1, <1>4, <2>2 DEF Delete
    <3> QED BY <2>1, <3>1, TailKeeps
  <2>4. /\ job'[k].todo = Tail(todo) /\ job'[k].img = job[k].img
        /\ job'[k].pc = IF Len(todo) = 1 THEN "unfinalize" ELSE "delete"
    BY <1>4 DEF Removed, Delete, TypeOK, Jobs
  <2>5. Tail(todo) \in Seq(Bring[k])
    BY <1>4, <2>1, HeadTailProperties DEF Delete
  <2>6. k \notin Protected
    BY <1>4 DEF Delete
  <2> QED BY <1>1, <2>3, <2>4, <2>5, <2>6
<1> QED BY <1>2, <1>3, <1>4 DEF ClientDeleted, Delete, Return, TypeOK

\* Without the finalizer there is nothing any more.
LEMMA RemoveFinalizerKind ==
  ASSUME TypeOK, NEW k \in Kinds, KindInv(k), RemoveFinalizer(k)
  PROVE  KindInv(k)'
<1>1. job'[k] = Idle /\ UNCHANGED <<scene, cache, ox>>
  BY DEF RemoveFinalizer, Return, TypeOK, oxide
<1>2. obj'[k] = obj[k] \/ obj'[k] = [NoObject EXCEPT !.phase = "gone"]
  BY DEF RemoveFinalizer, TypeOK
<1> QED
  BY <1>1, <1>2 DEF RemoveFinalizer, KindInv, FinalizerKept, DeletionSeen, StepsApart,
     HeldOrToDelete, OwnOnly, Making, Unmaking, At, Exists, Idle, NoObject

LEMMA UserKind ==
  ASSUME TypeOK, NEW k \in Kinds, KindInv(k),
         CreateObject(k) \/ DeleteObject(k) \/ Annotate(k) \/ InformerSync(k)
  PROVE  KindInv(k)'
<1> USE DEF KindInv, FinalizerKept, DeletionSeen, StepsApart, HeldOrToDelete, OwnOnly, Making, Unmaking, At,
            Exists
<1>0. scene' = scene /\ ox' = ox
  BY DEF CreateObject, DeleteObject, Annotate, InformerSync, oxide
<1>1. CASE CreateObject(k)
  <2>1. obj'[k] = [obj[k] EXCEPT !.phase = "live"] /\ obj[k] \in Objects
    BY <1>1 DEF CreateObject, TypeOK
  <2> QED BY <1>0, <1>1, <2>1 DEF CreateObject, Objects
<1>2. CASE DeleteObject(k)
  <2>1. /\ obj[k] \in Objects
        /\ obj'[k] = IF obj[k].fin THEN [obj[k] EXCEPT !.phase = "deleting"]
                                   ELSE [NoObject EXCEPT !.phase = "gone"]
    BY <1>2 DEF DeleteObject, TypeOK
  <2> QED BY <1>0, <1>2, <2>1 DEF DeleteObject, Objects, NoObject
<1>3. CASE InformerSync(k)
  BY <1>0, <1>3 DEF InformerSync, TypeOK
<1>4. CASE Annotate(k)
  BY <1>0, <1>4, AnnotateSame DEF TypeOK
<1> QED BY <1>1, <1>2, <1>3, <1>4

LEMMA SceneStays == [Next]_vars => scene' = scene
<1> SUFFICES ASSUME [Next]_vars PROVE scene' = scene
  OBVIOUS
<1>1. ASSUME NEW h \in Kinds, ResourceStep(h) PROVE scene' = scene
  BY <1>1, Actions
  DEF ReconcileLive, ReconcileDeleted, ClientLive, ClientDeleted, View, FindSource, Create,
      UpdateRules, PatchStatus, Delete, RemoveFinalizer
<1>2. ASSUME NEW h \in Kinds, CreateObject(h) \/ DeleteObject(h) \/ Annotate(h) \/ InformerSync(h)
      PROVE  scene' = scene
  BY <1>2 DEF CreateObject, DeleteObject, Annotate, InformerSync
<1>3. CASE ConnectionStep \/ ConnectionSync \/ DeleteConnection \/ Crash \/ \E x \in making : Finish(x)
  BY <1>3
  DEF ConnectionStep, ConnectionSync, DeleteConnection, StartConnection, ListUsers, RemoveConnection,
      Crash, Finish
<1>4. CASE UNCHANGED vars
  BY <1>4 DEF vars
<1> QED BY <1>1, <1>2, <1>3, <1>4 DEF Next

\* What another controller's step leaves alone, and what it may do to Oxide.
LEMMA OthersApart ==
  ASSUME TypeOK, NEW k \in Kinds, NEW h \in Kinds, h # k, ResourceStep(h)
  PROVE  /\ obj'[k] = obj[k] /\ cache'[k] = cache[k] /\ job'[k] = job[k]
         /\ ox' \subseteq ox \cup Bring[h]
<1>1. ox' \subseteq ox \cup Bring[h]
  <2>1. UNCHANGED oxide \/ Create(h) \/ Delete(h)
    BY Actions
    DEF ReconcileLive, ReconcileDeleted, ClientLive, ClientDeleted, View, FindSource,
        UpdateRules, PatchStatus, RemoveFinalizer
  <2>2. CASE Create(h)
    BY <2>2 DEF Create, Made, oxide
  <2>3. CASE Delete(h)
    BY <2>3 DEF Delete, Gone, oxide
  <2> QED BY <2>1, <2>2, <2>3 DEF oxide
<1>2. job'[k] = job[k]
  <2> SUFFICES \E j : job' = [job EXCEPT ![h] = j]
    BY DEF TypeOK
  <2>1. CASE ReconcileLive(h) \/ ReconcileDeleted(h)
    BY <2>1 DEF ReconcileLive, ReconcileDeleted, Started
  <2>2. CASE ClientLive(h) \/ FindSource(h) \/ UpdateRules(h)
    BY <2>2 DEF ClientLive, FindSource, UpdateRules, Goto, Fails
  <2>3. CASE View(h) \/ Create(h)
    <3>1. ASSUME NEW good \in BOOLEAN, Known(h, good) PROVE \E j : job' = [job EXCEPT ![h] = j]
      BY <3>1 DEF Known
    <3>2. CASE Goto(h, "source") \/ Goto(h, "create") \/ Fails(h)
      BY <3>2 DEF Goto, Fails
    <3> QED BY <2>3, <3>1, <3>2, GoesOn
  <2>4. CASE PatchStatus(h) \/ RemoveFinalizer(h) \/ ClientDeleted(h)
    BY <2>4 DEF PatchStatus, RemoveFinalizer, ClientDeleted, Return
  <2>5. CASE Delete(h)
    BY <2>5 DEF Delete, Removed, Return
  <2> QED BY <2>1, <2>2, <2>3, <2>4, <2>5, Actions
<1>3. obj'[k] = obj[k] /\ cache'[k] = cache[k]
  BY Actions
  DEF ReconcileLive, ReconcileDeleted, ClientLive, ClientDeleted, View, FindSource, Create,
      UpdateRules, PatchStatus, Patched, Delete, RemoveFinalizer, AddFinalizer, TypeOK
<1> QED BY <1>1, <1>2, <1>3

LEMMA KindNext ==
  ASSUME TypeOK, \A k \in Kinds : KindInv(k), [Next]_vars
  PROVE  (\A k \in Kinds : KindInv(k))'
<1>0. scene' = scene
  BY SceneStays
<1> SUFFICES ASSUME NEW k \in Kinds PROVE KindInv(k)'
  BY <1>0
<1>1. ASSUME NEW h \in Kinds, ResourceStep(h) PROVE KindInv(k)'
  <2>1. CASE h = k
    BY <1>1, <2>1, Actions, ReconcileKind, MakeKind, PatchKind, DeleteKind, RemoveFinalizerKind
  <2>2. CASE h # k
    <3>1. Bring[k] \cap ox' \subseteq ox
      BY <1>1, <2>2, OthersApart, BringApart, KindsKnown DEF TypeOK
    <3> QED BY <1>0, <1>1, <2>2, <3>1, OthersApart, Apart
  <2> QED BY <2>1, <2>2
<1>2. ASSUME NEW h \in Kinds, CreateObject(h) \/ DeleteObject(h) \/ Annotate(h) \/ InformerSync(h)
      PROVE  KindInv(k)'
  <2>1. CASE h = k
    BY <1>2, <2>1, UserKind
  <2>2. CASE h # k
    BY <1>0, <1>2, <2>2, Apart DEF CreateObject, DeleteObject, Annotate, InformerSync, TypeOK, oxide
  <2> QED BY <2>1, <2>2
<1>3. CASE ConnectionStep \/ ConnectionSync \/ DeleteConnection \/ \E x \in making : Finish(x)
  BY <1>0, <1>3, Apart
  DEF ConnectionStep, ConnectionSync, DeleteConnection, StartConnection, ListUsers, RemoveConnection,
      Finish, oxide
<1>4. CASE Crash
  <2>1. job'[k] = Idle /\ cache'[k] = obj[k] /\ UNCHANGED <<obj, ox>>
    BY <1>4 DEF Crash, oxide
  <2> QED
    BY <1>0, <2>1 DEF KindInv, FinalizerKept, DeletionSeen, StepsApart, HeldOrToDelete, OwnOnly,
       Making, Unmaking, At, Exists, Idle
<1>5. CASE UNCHANGED vars
  BY <1>5, Apart DEF vars, oxide
<1> QED BY <1>1, <1>2, <1>3, <1>4, <1>5 DEF Next

LEMMA KindInvariant == Spec => [](\A k \in Kinds : KindInv(k))
<1>1. TypeOK /\ (\A k \in Kinds : KindInv(k)) /\ [Next]_vars => (\A k \in Kinds : KindInv(k))'
  BY KindNext
<1> QED BY <1>1, InitKinds, TeardownTypes, PTL DEF Spec

\* When an unprotected object is gone, nothing its controller brought into Oxide is
\* left, whatever order things are deleted in and whatever fails on the way.
THEOREM NothingIsLeft == Spec => []NothingLeftBehind
<1>1. (\A k \in Kinds : KindInv(k)) => NothingLeftBehind
  BY DEF KindInv, FinalizerKept, HeldOrToDelete, NothingLeftBehind, Exists
<1> QED BY <1>1, KindInvariant, PTL

\* What a protected object stands for stays: no controller deletes what another's
\* object stands for, and its own stops short of Oxide.
THEOREM ProtectedAreKept == Spec => ProtectedStays
<1>1. TypeOK /\ (\A k \in Kinds : KindInv(k)) /\ [Next]_vars
        => [\A k \in Protected : k \in ox => k \in ox']_vars
  <2> SUFFICES ASSUME TypeOK, \A k \in Kinds : KindInv(k), Next,
                      NEW k \in Protected, k \in ox
               PROVE  k \in ox'
    OBVIOUS
  <2>1. k \in Kinds /\ k \in Bring[k] /\ Kinds \subseteq AllKinds
    BY KindsKnown, BringsThings DEF TypeOK
  <2>2. ASSUME NEW h \in Kinds, Delete(h) PROVE k \in ox'
    <3>1. CASE h = k
      BY <2>1, <2>2, <3>1 DEF Delete, KindInv, OwnOnly
    <3>2. CASE h # k
      <4>1. job[h].todo \in Seq(Bring[h]) /\ job[h].todo # <<>>
        BY <2>2 DEF Delete, KindInv, OwnOnly, TypeOK
      <4>2. Head(job[h].todo) \in Bring[h]
        BY <4>1, HeadTailProperties
      <4>3. k # Head(job[h].todo)
        BY <2>1, <3>2, <4>2, BringApart
      <4> QED BY <2>2, <4>3 DEF Delete, Gone, oxide
    <3> QED BY <3>1, <3>2
  <2>3. ASSUME NEW h \in Kinds, ResourceStep(h), ~Delete(h) PROVE k \in ox'
    <3>1. CASE Create(h)
      BY <3>1 DEF Create, Made, oxide
    <3>2. CASE ~Create(h)
      BY <2>3, <3>2, Actions
      DEF ReconcileLive, ReconcileDeleted, ClientLive, ClientDeleted, View, FindSource,
          UpdateRules, PatchStatus, RemoveFinalizer, oxide
    <3> QED BY <3>1, <3>2
  <2>4. ASSUME NEW h \in Kinds, CreateObject(h) \/ DeleteObject(h) \/ Annotate(h) \/ InformerSync(h)
        PROVE  k \in ox'
    BY <2>4 DEF CreateObject, DeleteObject, Annotate, InformerSync, oxide
  <2>5. CASE ConnectionStep \/ ConnectionSync \/ DeleteConnection \/ Crash
             \/ \E x \in making : Finish(x)
    BY <2>5
    DEF ConnectionStep, ConnectionSync, DeleteConnection, StartConnection, ListUsers,
        RemoveConnection, Crash, Finish, oxide
  <2> QED BY <2>2, <2>3, <2>4, <2>5 DEF Next
<1> QED BY <1>1, TeardownTypes, KindInvariant, PTL DEF Spec, ProtectedStays

-----------------------------------------------------------------------------
(* The connection goes last.                                               *)

\* The deleted connection's controller has seen it deleted; users have not made
\* anything its caches don't show; what it has listed so far is right.
ConnInv ==
  /\ connCache # "live" \/ connJob.pc # "idle" => conn # "live"
  /\ conn # "live" => \A k \in Kinds : cache[k].phase = "absent" => obj[k].phase = "absent"
  /\ connJob.pc # "idle" /\ ~connJob.inUse
       => \A k \in Kinds \ connJob.left : ~Exists(cache[k])
  /\ connJob.pc = "decide" => connJob.left = {}
  /\ conn = "gone" => \A k \in Kinds : ~Exists(obj[k])

AllInv == TypeOK /\ (\A k \in Kinds : KindInv(k)) /\ ConnInv

\* A reconcile never brings an object back.
LEMMA ResourcePhases ==
  ASSUME TypeOK, \A k \in Kinds : KindInv(k), NEW h \in Kinds, ResourceStep(h)
  PROVE  /\ UNCHANGED <<cache, connection>>
         /\ \A k \in Kinds : \/ obj'[k].phase = obj[k].phase
                             \/ obj[k].phase = "deleting" /\ obj'[k].phase = "gone"
<1>1. UNCHANGED <<cache, connection>>
  BY Actions
  DEF ReconcileLive, ReconcileDeleted, ClientLive, ClientDeleted, View, FindSource, Create,
      UpdateRules, PatchStatus, Delete, RemoveFinalizer
<1>2. CASE UNCHANGED obj
  BY <1>1, <1>2
<1>3. CASE AddFinalizer(h)
  BY <1>1, <1>3 DEF AddFinalizer, TypeOK, Objects
<1>4. CASE PatchStatus(h)
  <2>1. obj' = Patched(h) \/ obj' = obj
    BY <1>4 DEF PatchStatus
  <2>2. obj \in [Kinds -> Objects]
    BY DEF TypeOK
  <2>3. \A k \in Kinds : obj'[k].phase = obj[k].phase
    BY <2>1, <2>2 DEF Patched, Objects
  <2> QED BY <1>1, <2>3
<1>5. CASE RemoveFinalizer(h)
  <2>1. job[h].img.phase = "deleting"
    BY <1>5 DEF RemoveFinalizer, KindInv, StepsApart, Unmaking, At
  <2>2. \/ obj' = obj
        \/ obj[h] = job[h].img /\ obj' = [obj EXCEPT ![h] = [NoObject EXCEPT !.phase = "gone"]]
    BY <1>5 DEF RemoveFinalizer
  <2> QED BY <1>1, <2>1, <2>2 DEF TypeOK, NoObject
<1> QED
  BY <1>2, <1>3, <1>4, <1>5, Actions
  DEF ReconcileLive, ReconcileDeleted, ClientLive, ClientDeleted, View, FindSource, Create,
      UpdateRules, Delete

LEMMA InitConn == Init => ConnInv
BY DEF Init, ConnInv, NoObject, Exists

LEMMA ConnNext ==
  ASSUME AllInv, ~LateCreates, [Next]_vars  PROVE ConnInv'
<1> USE DEF ConnInv, Exists
<1>0. TypeOK /\ ConnInv /\ (\A k \in Kinds : KindInv(k)) /\ scene' = scene
  BY SceneStays DEF AllInv
<1>1. ASSUME NEW h \in Kinds, ResourceStep(h) PROVE ConnInv'
  <2>1. /\ UNCHANGED <<cache, connection>>
        /\ \A k \in Kinds : \/ obj'[k].phase = obj[k].phase
                            \/ obj[k].phase = "deleting" /\ obj'[k].phase = "gone"
    BY <1>0, <1>1, ResourcePhases
  <2> QED BY <1>0, <2>1 DEF connection
<1>2. ASSUME NEW h \in Kinds, CreateObject(h) PROVE ConnInv'
  BY <1>0, <1>2 DEF CreateObject, connection
<1>3. ASSUME NEW h \in Kinds, DeleteObject(h) PROVE ConnInv'
  <2>1. \A k \in Kinds : \/ obj'[k] = obj[k]
                         \/ obj[k].phase = "live" /\ obj'[k].phase \in {"deleting", "gone"}
    BY <1>0, <1>3 DEF DeleteObject, TypeOK, Objects, NoObject
  <2> QED BY <1>0, <1>3, <2>1 DEF DeleteObject, connection
<1>4. ASSUME NEW h \in Kinds, InformerSync(h) PROVE ConnInv'
  <2>1. \A k \in Kinds : cache'[k] = cache[k] \/ cache'[k] = obj[k]
    BY <1>0, <1>4 DEF InformerSync, TypeOK
  <2>2. \A k \in Kinds : cache[k].phase = "gone" => obj[k].phase = "gone"
    BY <1>0 DEF KindInv, DeletionSeen
  <2>3. \A k \in Kinds : cache[k].phase \in Phases
    BY <1>0 DEF TypeOK, Objects
  <2>4. conn # "live" => \A k \in Kinds : ~Exists(cache[k]) => ~Exists(cache'[k])
    BY <1>0, <2>1, <2>2, <2>3 DEF Phases
  <2> QED BY <1>0, <1>4, <2>1, <2>4 DEF InformerSync, connection
<1>5. CASE StartConnection
  BY <1>0, <1>5 DEF StartConnection
<1>6. ASSUME NEW h \in Kinds, ListUsers(h) PROVE ConnInv'
  <2>1. /\ connJob'.left = connJob.left \ {h}
        /\ connJob'.inUse = (connJob.inUse \/ Uses(h))
        /\ connJob'.pc = IF connJob.left = {h} THEN "decide" ELSE connJob.pc
        /\ connJob.pc = "list" /\ UNCHANGED <<obj, cache, conn, connCache>>
    BY <1>0, <1>6 DEF ListUsers, TypeOK
  <2> QED BY <1>0, <2>1 DEF Uses
<1>7. CASE RemoveConnection
  <2>1. connJob'.pc = "idle" /\ conn # "live" /\ UNCHANGED <<obj, cache, connCache>>
    BY <1>0, <1>7 DEF RemoveConnection, TypeOK
  <2>2. conn' = conn \/ (conn' = "gone" /\ ~connJob.inUse)
    BY <1>7 DEF RemoveConnection
  <2>3. ~connJob.inUse => \A k \in Kinds : ~Exists(obj[k])
    <3>1. ~connJob.inUse => \A k \in Kinds : ~Exists(cache[k])
      BY <1>0, <1>7 DEF RemoveConnection
    <3>2. \A k \in Kinds : cache[k].phase = "gone" => obj[k].phase = "gone"
      BY <1>0 DEF KindInv, DeletionSeen
    <3>3. \A k \in Kinds : cache[k].phase \in Phases
      BY <1>0 DEF TypeOK, Objects
    <3> QED BY <1>0, <2>1, <3>1, <3>2, <3>3 DEF Phases
  <2> QED BY <1>0, <2>1, <2>2, <2>3
<1>8. CASE ConnectionSync
  BY <1>0, <1>8 DEF ConnectionSync
<1>9. CASE DeleteConnection
  BY <1>0, <1>9 DEF DeleteConnection
<1>10. CASE Crash
  BY <1>0, <1>10 DEF Crash
<1>12. ASSUME NEW x \in making, Finish(x) PROVE ConnInv'
  BY <1>0, <1>12 DEF Finish, connection
<1>11. CASE UNCHANGED vars
  BY <1>0, <1>11 DEF vars
<1>13. ASSUME NEW h \in Kinds, Annotate(h) PROVE ConnInv'
  BY <1>0, <1>13, AnnotateSame DEF TypeOK
<1> QED
  BY <1>1, <1>2, <1>3, <1>4, <1>5, <1>6, <1>7, <1>8, <1>9, <1>10, <1>11, <1>12, <1>13
  DEF Next, ConnectionStep

\* If users make nothing new for a connection they delete, and its other resources
\* have been seen, it stays while any object has a finalizer (handleDelete and
\* inUse, oxideconnection_controller.go:95-160).
THEOREM ConnectionGoesLast ==
  ASSUME ~LateCreates  PROVE Spec => []ConnectionOutlivesUsers
<1>1. AllInv => ConnectionOutlivesUsers
  BY DEF AllInv, ConnInv, KindInv, FinalizerKept, ConnectionOutlivesUsers
<1>2. TypeOK /\ (\A k \in Kinds : KindInv(k)) /\ ConnInv /\ [Next]_vars => ConnInv'
  BY ConnNext DEF AllInv
<1>3. Spec => []ConnInv
  BY <1>2, InitConn, TeardownTypes, KindInvariant, PTL DEF Spec
<1> QED BY <1>1, <1>3, TeardownTypes, KindInvariant, PTL DEF AllInv

-----------------------------------------------------------------------------
(* What is Ready can be used.                                              *)

\* A reconcile that found the resource in order still finds it so: only its own
\* kind's deletion takes it away, and that waits for the object to be deleted.
ReadyInv(k) ==
  /\ obj[k].phase = "absent" => ~obj[k].ready /\ ~job[k].ok
  /\ obj[k].phase = "live" /\ obj[k].ready => Usable(k)
  /\ obj[k].phase = "live" /\ job[k].ok => Usable(k)

LEMMA ReadyInit == Init => \A k \in Kinds : ReadyInv(k)
BY DEF Init, ReadyInv, NoObject, Idle

\* No step takes from a live object what it stands for.
LEMMA UsableStays ==
  ASSUME TypeOK, \A k \in Kinds : KindInv(k), [Next]_vars,
         NEW k \in Kinds, obj[k].phase = "live", Usable(k)
  PROVE  Usable(k)'
<1>0. k \in ox /\ k \notin making /\ k \notin faulted
  BY DEF Usable
<1>1. k \in Bring[k] /\ Kinds \subseteq AllKinds
  BY KindsKnown, BringsThings DEF TypeOK
<1>2. ASSUME NEW h \in Kinds, Delete(h) PROVE Usable(k)'
  <2>1. CASE h = k
    BY <1>2, <2>1 DEF Delete, KindInv, StepsApart, DeletionSeen, Unmaking, At
  <2>2. CASE h # k
    <3>1. job[h].todo \in Seq(Bring[h]) /\ job[h].todo # <<>>
      BY <1>2 DEF Delete, KindInv, OwnOnly, TypeOK
    <3>2. Head(job[h].todo) \in Bring[h]
      BY <3>1, HeadTailProperties
    <3>3. k # Head(job[h].todo)
      BY <1>1, <2>2, <3>2, BringApart
    <3> QED BY <1>0, <1>2, <3>3 DEF Delete, Gone, oxide, Usable
  <2> QED BY <2>1, <2>2
<1>3. ASSUME NEW h \in Kinds, Create(h) PROVE Usable(k)'
  <2>1. CASE Made(h)
    <3>1. k # h
      BY <1>0, <2>1 DEF Made, Creatable
    <3> QED BY <1>0, <2>1, <3>1 DEF Made, Usable
  <2>2. CASE UNCHANGED oxide
    BY <1>0, <2>2 DEF oxide, Usable
  <2> QED BY <1>3, <2>1, <2>2 DEF Create
<1>4. ASSUME NEW x \in making, Finish(x) PROVE Usable(k)'
  BY <1>0, <1>4 DEF Finish, Usable
<1>5. ASSUME NEW h \in Kinds, ResourceStep(h), ~Delete(h), ~Create(h) PROVE UNCHANGED oxide
  BY <1>5, Actions
  DEF ReconcileLive, ReconcileDeleted, ClientLive, ClientDeleted, View, FindSource,
      UpdateRules, PatchStatus, RemoveFinalizer
<1>6. ASSUME NEW h \in Kinds, CreateObject(h) \/ DeleteObject(h) \/ Annotate(h) \/ InformerSync(h)
      PROVE  UNCHANGED oxide
  BY <1>6 DEF CreateObject, DeleteObject, Annotate, InformerSync
<1>7. ASSUME ConnectionStep \/ ConnectionSync \/ DeleteConnection \/ Crash \/ UNCHANGED vars
      PROVE  UNCHANGED oxide
  BY <1>7
  DEF ConnectionStep, ConnectionSync, DeleteConnection, StartConnection, ListUsers,
      RemoveConnection, Crash, vars
<1>8. CASE UNCHANGED oxide
  BY <1>0, <1>8 DEF oxide, Usable
<1> QED BY <1>2, <1>3, <1>4, <1>5, <1>6, <1>7, <1>8 DEF Next

\* A controller's own steps: the outcome is good only when the resource was seen to be,
\* or has been made at once, and the status says so only by such an outcome.
LEMMA OwnReady ==
  ASSUME TypeOK, NEW k \in Kinds, KindInv(k), ReadyInv(k), ResourceStep(k),
         Usable(k) /\ obj[k].phase = "live" => Usable(k)'
  PROVE  ReadyInv(k)'
<1>0. obj[k] \in Objects /\ job[k] \in Jobs
  BY DEF TypeOK
<1>9. View(k) \/ Create(k) => obj[k].phase # "absent"
  BY DEF View, Create, At, KindInv, StepsApart, FinalizerKept, Exists
<1>1. CASE ReconcileLive(k) \/ ReconcileDeleted(k)
  <2>1. ~job'[k].ok
    <3>1. \A img, pc : Started(k, img, pc) => ~job'[k].ok
      BY DEF Started, Idle, TypeOK
    <3> QED BY <1>1, <3>1 DEF ReconcileLive, ReconcileDeleted
  <2>2. obj'[k].phase = obj[k].phase /\ obj'[k].ready = obj[k].ready
    BY <1>0, <1>1 DEF ReconcileLive, ReconcileDeleted, AddFinalizer, TypeOK, Objects
  <2> QED BY <2>1, <2>2 DEF ReadyInv
<1>2. CASE obj'[k] = obj[k] /\ job'[k].ok \in {job[k].ok, FALSE}
  BY <1>0, <1>2 DEF ReadyInv, Jobs
<1>3. CASE ClientLive(k) \/ FindSource(k) \/ UpdateRules(k) \/ ClientDeleted(k) \/ Delete(k)
  <2>1. obj'[k] = obj[k]
    BY <1>3 DEF ClientLive, FindSource, UpdateRules, ClientDeleted, Delete
  <2>2. job'[k].ok \in {job[k].ok, FALSE}
    <3>1. /\ \A pc : Goto(k, pc) => job'[k].ok = job[k].ok
          /\ Fails(k) \/ Removed(k) => job'[k].ok = job[k].ok
          /\ Return(k) => job'[k].ok = FALSE
      BY <1>0 DEF Goto, Fails, Removed, Return, Idle, TypeOK, Jobs
    <3>2. CASE ClientLive(k) \/ FindSource(k)
      BY <3>1, <3>2 DEF ClientLive, FindSource
    <3>3. CASE UpdateRules(k)
      BY <1>0, <3>1, <3>3 DEF UpdateRules, TypeOK, Jobs
    <3>4. CASE ClientDeleted(k)
      BY <1>0, <3>1, <3>4 DEF ClientDeleted, TypeOK, Jobs
    <3>5. CASE Delete(k)
      BY <3>1, <3>5 DEF Delete
    <3> QED BY <1>3, <3>2, <3>3, <3>4, <3>5
  <2> QED BY <1>2, <2>1, <2>2
<1>4. CASE View(k)
  <2>1. obj' = obj /\ UNCHANGED oxide
    BY <1>4 DEF View
  <2>2. CASE Known(k, Usable(k))
    <3>1. job'[k].ok = Usable(k)
      BY <1>0, <2>2 DEF Known, TypeOK, Jobs
    <3>2. Usable(k)' = Usable(k)
      BY <2>1 DEF Usable, oxide
    <3> QED BY <1>4, <1>9, <2>1, <3>1, <3>2 DEF ReadyInv
  <2>3. CASE Fails(k) \/ \E pc \in Steps : Goto(k, pc)
    <3>1. job'[k].ok = job[k].ok
      BY <1>0, <2>3 DEF Fails, Goto, TypeOK, Jobs
    <3> QED BY <1>2, <2>1, <3>1
  <2>4. {"source", "create"} \subseteq Steps
    BY DEF Steps
  <2> QED BY <1>4, <2>2, <2>3, <2>4 DEF View
<1>5. CASE Create(k)
  <2>1. obj' = obj
    BY <1>5 DEF Create
  <2>2. CASE Made(k) /\ Known(k, k \notin Slow)
    <3>1. job'[k].ok = (k \notin Slow)
      BY <1>0, <2>2 DEF Known, TypeOK, Jobs
    <3>2. k \in Bring[k] /\ k \notin ox
      BY <2>2, KindsKnown, BringsThings DEF TypeOK, Made, Creatable
    <3>3. k \notin Slow => Usable(k)'
      BY <2>2, <3>2 DEF Made, Usable, TypeOK
    <3>4. ~Usable(k)
      BY <3>2 DEF Usable
    <3> QED BY <1>5, <1>9, <2>1, <3>1, <3>3, <3>4 DEF ReadyInv
  <2>3. CASE Fails(k)
    <3>1. job'[k].ok = job[k].ok
      BY <1>0, <2>3 DEF Fails, TypeOK, Jobs
    <3> QED BY <1>2, <2>1, <3>1
  <2> QED BY <1>5, <2>2, <2>3 DEF Create
<1>6. CASE PatchStatus(k)
  <2>1. ~job'[k].ok
    BY <1>6 DEF PatchStatus, Return, Idle, TypeOK
  <2>2. obj'[k].phase = obj[k].phase
    BY <1>0, <1>6 DEF PatchStatus, Patched, TypeOK, Objects
  <2>3. obj'[k].ready = obj[k].ready \/ (Exists(obj[k]) /\ obj'[k].ready = job[k].ok)
    BY <1>0, <1>6 DEF PatchStatus, Patched, Merged, TypeOK, Objects
  <2> QED BY <2>1, <2>2, <2>3 DEF ReadyInv, Exists
<1>7. CASE RemoveFinalizer(k)
  <2>1. ~job'[k].ok
    BY <1>7 DEF RemoveFinalizer, Return, Idle, TypeOK
  <2>2. obj'[k] = obj[k] \/ obj'[k].phase = "gone"
    BY <1>7 DEF RemoveFinalizer, TypeOK, NoObject
  <2> QED BY <2>1, <2>2 DEF ReadyInv
<1> QED BY <1>1, <1>3, <1>4, <1>5, <1>6, <1>7, Actions

LEMMA ReadyNext ==
  ASSUME TypeOK, \A k \in Kinds : KindInv(k) /\ ReadyInv(k), [Next]_vars
  PROVE  (\A k \in Kinds : ReadyInv(k))'
<1>0. scene' = scene
  BY SceneStays
<1> SUFFICES ASSUME NEW k \in Kinds PROVE ReadyInv(k)'
  BY <1>0
<1>1. Usable(k) /\ obj[k].phase = "live" => Usable(k)'
  BY UsableStays
<1>2. CASE obj'[k] = obj[k] /\ job'[k].ok \in {job[k].ok, FALSE}
  <2>1. job[k].ok \in BOOLEAN
    BY DEF TypeOK, Jobs
  <2> QED BY <1>1, <1>2, <2>1 DEF ReadyInv
<1>3. ASSUME NEW h \in Kinds, ResourceStep(h) PROVE ReadyInv(k)'
  <2>1. CASE h = k
    BY <1>1, <1>3, <2>1, OwnReady
  <2>2. CASE h # k
    BY <1>2, <1>3, <2>2, OthersApart
  <2> QED BY <2>1, <2>2
<1>4. ASSUME NEW h \in Kinds, CreateObject(h) PROVE ReadyInv(k)'
  <2>1. CASE h = k
    <3>1. obj[k].phase = "absent" /\ ~obj[k].ready /\ obj'[k].ready = obj[k].ready
      BY <1>4, <2>1 DEF CreateObject, ReadyInv, TypeOK, Objects
    <3>2. ~job[k].ok
      BY <3>1 DEF ReadyInv
    <3> QED BY <1>4, <2>1, <3>1, <3>2 DEF CreateObject, ReadyInv
  <2>2. CASE h # k
    BY <1>2, <1>4, <2>2 DEF CreateObject, TypeOK
  <2> QED BY <2>1, <2>2
<1>5. ASSUME NEW h \in Kinds, DeleteObject(h) PROVE ReadyInv(k)'
  <2>1. obj'[k] = obj[k] \/ obj'[k].phase \in {"deleting", "gone"}
    BY <1>5 DEF DeleteObject, TypeOK, Objects, NoObject
  <2>2. job' = job
    BY <1>5 DEF DeleteObject
  <2> QED BY <1>2, <2>1, <2>2 DEF ReadyInv
<1>6. ASSUME NEW h \in Kinds, InformerSync(h) PROVE ReadyInv(k)'
  BY <1>2, <1>6 DEF InformerSync
<1>7. CASE \/ ConnectionStep \/ ConnectionSync \/ DeleteConnection
           \/ \E x \in making : Finish(x)
           \/ UNCHANGED vars
  BY <1>2, <1>7
  DEF ConnectionStep, ConnectionSync, DeleteConnection, StartConnection, ListUsers,
      RemoveConnection, Finish, vars
<1>8. CASE Crash
  BY <1>2, <1>8 DEF Crash, Idle
<1>9. ASSUME NEW h \in Kinds, Annotate(h) PROVE ReadyInv(k)'
  BY <1>1, <1>9, AnnotateSame DEF ReadyInv, TypeOK
<1> QED BY <1>3, <1>4, <1>5, <1>6, <1>7, <1>8, <1>9 DEF Next

\* Whatever the other kinds' controllers delete, whatever comes out faulted and however
\* stale the copies are, a live Ready object's resource is in Oxide and can be used.
THEOREM ReadyCanBeUsed == Spec => []ReadyIsUsable
<1>1. TypeOK /\ (\A k \in Kinds : KindInv(k)) /\ (\A k \in Kinds : ReadyInv(k)) /\ [Next]_vars
        => (\A k \in Kinds : ReadyInv(k))'
  BY ReadyNext
<1>2. (\A k \in Kinds : ReadyInv(k)) => ReadyIsUsable
  BY DEF ReadyInv, ReadyIsUsable
<1> QED BY <1>1, <1>2, ReadyInit, TeardownTypes, KindInvariant, PTL DEF Spec

-----------------------------------------------------------------------------
(* Every kind implements ManagedResource.                                  *)

\* The finalizer of an object that is being deleted is what keeps it there.
DeletedIsHeld(k) == obj[k].phase = "deleting" => obj[k].fin

\* What a step can make of an object.
LEMMA ObjectSteps ==
  ASSUME TypeOK, NEW k \in Kinds, [Next]_vars
  PROVE  \/ obj'[k].phase = obj[k].phase /\ obj'[k].fin \in {obj[k].fin, TRUE}
         \/ obj'[k].phase = "live"
         \/ obj'[k].phase = "deleting" /\ obj'[k].fin
         \/ obj'[k].phase = "gone"
<1>0. obj \in [Kinds -> Objects]
  BY DEF TypeOK
<1>1. ASSUME NEW h \in Kinds, h # k, ResourceStep(h) PROVE obj'[k] = obj[k]
  BY <1>1, OthersApart
<1>2. ASSUME ResourceStep(k), ~AddFinalizer(k), ~PatchStatus(k), ~RemoveFinalizer(k)
      PROVE  obj'[k] = obj[k]
  BY <1>2, Actions
  DEF ReconcileLive, ReconcileDeleted, ClientLive, ClientDeleted, View, FindSource, Create,
      UpdateRules, Delete
<1>3. CASE AddFinalizer(k)
  BY <1>0, <1>3 DEF AddFinalizer, Objects
<1>4. CASE PatchStatus(k)
  <2>1. obj'[k].phase = obj[k].phase /\ obj'[k].fin = obj[k].fin
    BY <1>4 DEF PatchStatus, Patched, TypeOK, Objects
  <2> QED BY <2>1
<1>5. CASE RemoveFinalizer(k)
  BY <1>0, <1>5 DEF RemoveFinalizer, NoObject
<1>6. ASSUME NEW h \in Kinds, CreateObject(h) PROVE obj'[k] = obj[k] \/ obj'[k].phase = "live"
  BY <1>0, <1>6 DEF CreateObject, Objects
<1>7. ASSUME NEW h \in Kinds, DeleteObject(h)
      PROVE  \/ obj'[k] = obj[k]
             \/ obj'[k].phase = "deleting" /\ obj'[k].fin
             \/ obj'[k].phase = "gone"
  BY <1>0, <1>7 DEF DeleteObject, Objects, NoObject
<1>8. ASSUME NEW h \in Kinds, InformerSync(h) PROVE obj' = obj
  BY <1>8 DEF InformerSync
<1>9. ASSUME \/ ConnectionStep \/ ConnectionSync \/ DeleteConnection \/ Crash
             \/ \E x \in making : Finish(x)
             \/ UNCHANGED vars
      PROVE  obj' = obj
  BY <1>9
  DEF ConnectionStep, ConnectionSync, DeleteConnection, StartConnection, ListUsers,
      RemoveConnection, Crash, Finish, vars
<1>10. ASSUME NEW h \in Kinds, Annotate(h)
       PROVE  obj'[k].phase = obj[k].phase /\ obj'[k].fin = obj[k].fin
  BY <1>0, <1>10, AnnotateSame
<1> QED BY <1>1, <1>2, <1>3, <1>4, <1>5, <1>6, <1>7, <1>8, <1>9, <1>10 DEF Next

LEMMA DeletedIsHeldNext ==
  ASSUME TypeOK, \A k \in Kinds : DeletedIsHeld(k), [Next]_vars
  PROVE  (\A k \in Kinds : DeletedIsHeld(k))'
<1>1. scene' = scene
  BY SceneStays
<1> SUFFICES ASSUME NEW k \in Kinds PROVE DeletedIsHeld(k)'
  BY <1>1
<1> QED BY ObjectSteps DEF DeletedIsHeld

HeldKinds == TypeOK /\ \A k \in Kinds : KindInv(k) /\ DeletedIsHeld(k)

LEMMA HeldKindsInvariant == Spec => []HeldKinds
<1>1. Init => \A k \in Kinds : DeletedIsHeld(k)
  BY DEF Init, DeletedIsHeld, NoObject
<1>2. TypeOK /\ (\A k \in Kinds : DeletedIsHeld(k)) /\ [Next]_vars
        => (\A k \in Kinds : DeletedIsHeld(k))'
  BY DeletedIsHeldNext
<1>3. TypeOK /\ (\A k \in Kinds : KindInv(k)) /\ (\A k \in Kinds : DeletedIsHeld(k))
        => HeldKinds
  BY DEF HeldKinds
<1> QED BY <1>1, <1>2, <1>3, TeardownTypes, KindInvariant, PTL DEF Spec

\* A step that leaves the object's phase and finalizer alone, and adds nothing to
\* Oxide for it, is at most the end of what there was.
LEMMA NothingAdded ==
  ASSUME NEW k \in Kinds, scene' = scene,
         obj'[k].phase = obj[k].phase, obj'[k].fin = obj[k].fin,
         Bring[k] \cap ox' \subseteq ox
  PROVE  [Resource(k)!Next]_(Resource(k)!vars)
<1>1. Bring[k] \cap ox' # {} => Bring[k] \cap ox # {}
  OBVIOUS
<1> QED BY <1>1 DEF Resource!Next, Resource!vars, Resource!Vanish

LEMMA NotPlayed ==
  ASSUME NEW k, k \notin Kinds, scene' = scene
  PROVE  [Resource(k)!Next]_(Resource(k)!vars)
BY DEF Resource!vars

\* The steps of the kind's own controller.
LEMMA OwnStep ==
  ASSUME HeldKinds, NEW k \in Kinds, ResourceStep(k), scene' = scene
  PROVE  [Resource(k)!Next]_(Resource(k)!vars)
<1>0. TypeOK /\ KindInv(k) /\ DeletedIsHeld(k) /\ obj[k] \in Objects
  BY DEF HeldKinds, TypeOK
<1>1. CASE ReconcileLive(k)
  <2>1. UNCHANGED oxide
    BY <1>1 DEF ReconcileLive
  <2>2. CASE UNCHANGED obj
    BY <2>1, <2>2, NothingAdded DEF oxide
  <2>3. CASE ~cache[k].fin /\ AddFinalizer(k)
    <3>1. obj[k].phase = "live" /\ ~obj[k].fin
      BY <1>1, <2>3 DEF ReconcileLive, AddFinalizer
    <3>2. obj'[k].phase = "live" /\ obj'[k].fin
      BY <1>0, <2>3, <3>1 DEF AddFinalizer, TypeOK, Objects
    <3> QED BY <2>1, <3>1, <3>2 DEF Resource!Next, Resource!Hold, oxide
  <2> QED BY <1>1, <2>2, <2>3 DEF ReconcileLive
<1>2. CASE ReconcileDeleted(k) \/ ClientLive(k) \/ View(k) \/ FindSource(k) \/ UpdateRules(k)
           \/ ClientDeleted(k)
  <2>1. UNCHANGED <<obj, ox>>
    BY <1>2
    DEF ReconcileDeleted, ClientLive, View, FindSource, UpdateRules, ClientDeleted, oxide
  <2> QED BY <2>1, NothingAdded
<1>3. CASE Create(k)
  <2>1. obj' = obj /\ ox \subseteq ox'
    BY <1>3 DEF Create, Made, oxide
  <2>2. obj[k].fin
    BY <1>0, <1>3 DEF Create, At, KindInv, StepsApart, FinalizerKept
  <2>3. CASE Bring[k] \cap ox # {} \/ Bring[k] \cap ox' = {}
    <3>1. (Bring[k] \cap ox' # {}) = (Bring[k] \cap ox # {})
      BY <2>1, <2>3
    <3> QED BY <2>1, <3>1 DEF Resource!vars
  <2>4. CASE Bring[k] \cap ox = {} /\ Bring[k] \cap ox' # {}
    BY <2>1, <2>2, <2>4 DEF Resource!Next, Resource!Appear
  <2> QED BY <2>3, <2>4
<1>4. CASE PatchStatus(k)
  <2>1. obj'[k].phase = obj[k].phase /\ obj'[k].fin = obj[k].fin /\ UNCHANGED ox
    BY <1>0, <1>4 DEF PatchStatus, Patched, TypeOK, Objects, oxide
  <2> QED BY <2>1, NothingAdded
<1>5. CASE Delete(k)
  <2>1. obj' = obj /\ ox' \subseteq ox
    BY <1>5 DEF Delete, Gone, oxide
  <2> QED BY <2>1, NothingAdded
<1>6. CASE RemoveFinalizer(k)
  <2>1. UNCHANGED ox
    BY <1>6 DEF RemoveFinalizer, oxide
  <2>2. CASE UNCHANGED obj
    BY <2>1, <2>2, NothingAdded
  <2>3. CASE obj[k] = job[k].img /\ obj' = [obj EXCEPT ![k] = [NoObject EXCEPT !.phase = "gone"]]
    <3>1. obj[k].phase = "deleting" /\ obj[k].fin
      BY <1>0, <1>6, <2>3
      DEF RemoveFinalizer, KindInv, StepsApart, Unmaking, At, DeletedIsHeld
    <3>2. obj'[k].phase = "gone" /\ ~obj'[k].fin
      BY <1>0, <2>3 DEF TypeOK, NoObject
    <3>3. Bring[k] \cap ox # {} => k \in Protected
      BY <1>0, <1>6 DEF RemoveFinalizer, KindInv, HeldOrToDelete
    <3> QED BY <2>1, <3>1, <3>2, <3>3 DEF Resource!Next, Resource!Release
  <2> QED BY <1>6, <2>2, <2>3 DEF RemoveFinalizer
<1> QED BY <1>1, <1>2, <1>3, <1>4, <1>5, <1>6, Actions

\* The users' steps.
LEMMA UserStep ==
  ASSUME HeldKinds, NEW k \in Kinds, scene' = scene,
         CreateObject(k) \/ DeleteObject(k) \/ Annotate(k) \/ InformerSync(k)
  PROVE  [Resource(k)!Next]_(Resource(k)!vars)
<1>0. obj[k] \in Objects /\ obj \in [Kinds -> Objects] /\ UNCHANGED ox
  BY DEF HeldKinds, TypeOK, CreateObject, DeleteObject, Annotate, InformerSync, oxide
<1>1. CASE CreateObject(k)
  <2>1. obj'[k].phase = "live" /\ obj'[k].fin = obj[k].fin /\ obj[k].phase = "absent"
    BY <1>0, <1>1 DEF CreateObject, Objects
  <2> QED BY <1>0, <2>1 DEF Resource!Next, Resource!Make
<1>2. CASE DeleteObject(k)
  <2>1. obj[k].phase = "live" /\ obj'[k].fin = obj[k].fin
        /\ obj'[k].phase = IF obj[k].fin THEN "deleting" ELSE "gone"
    BY <1>0, <1>2 DEF DeleteObject, Objects, NoObject
  <2> QED BY <1>0, <2>1 DEF Resource!Next, Resource!Delete
<1>3. CASE InformerSync(k)
  BY <1>0, <1>3, NothingAdded DEF InformerSync
<1>4. CASE Annotate(k)
  BY <1>0, <1>4, AnnotateSame, NothingAdded
<1> QED BY <1>1, <1>2, <1>3, <1>4

\* Whatever else happens is the world's business, or another kind's.
LEMMA KindStep ==
  ASSUME HeldKinds, [Next]_vars, NEW k \in AllKinds
  PROVE  [Resource(k)!Next]_(Resource(k)!vars)
<1>0. scene' = scene /\ TypeOK
  BY SceneStays DEF HeldKinds
<1> SUFFICES ASSUME k \in Kinds PROVE [Resource(k)!Next]_(Resource(k)!vars)
  BY <1>0, NotPlayed
<1>1. ASSUME NEW h \in Kinds, ResourceStep(h) PROVE [Resource(k)!Next]_(Resource(k)!vars)
  <2>1. CASE h = k
    BY <1>0, <1>1, <2>1, OwnStep
  <2>2. CASE h # k
    <3>1. obj'[k] = obj[k] /\ Bring[k] \cap ox' \subseteq ox
      BY <1>0, <1>1, <2>2, OthersApart, BringApart, KindsKnown DEF TypeOK
    <3> QED BY <1>0, <3>1, NothingAdded
  <2> QED BY <2>1, <2>2
<1>2. ASSUME NEW h \in Kinds, CreateObject(h) \/ DeleteObject(h) \/ Annotate(h) \/ InformerSync(h)
      PROVE  [Resource(k)!Next]_(Resource(k)!vars)
  <2>1. CASE h = k
    BY <1>0, <1>2, <2>1, UserStep
  <2>2. CASE h # k
    <3>1. obj'[k] = obj[k] /\ ox' = ox
      BY <1>0, <1>2, <2>2 DEF CreateObject, DeleteObject, Annotate, InformerSync, TypeOK, oxide
    <3> QED BY <1>0, <3>1, NothingAdded
  <2> QED BY <2>1, <2>2
<1>3. CASE \/ ConnectionStep \/ ConnectionSync \/ DeleteConnection \/ Crash
           \/ \E x \in making : Finish(x)
           \/ UNCHANGED vars
  <2>1. obj' = obj /\ ox' = ox
    BY <1>3
    DEF ConnectionStep, ConnectionSync, DeleteConnection, StartConnection, ListUsers,
        RemoveConnection, Crash, Finish, vars, oxide
  <2> QED BY <1>0, <2>1, NothingAdded
<1> QED BY <1>1, <1>2, <1>3 DEF Next

\* Whatever is in Oxide already, however the kinds depend on one another and whatever
\* fails, each kind's controller keeps the promise of ManagedResource.
THEOREM KindsAreManaged == Spec => ImplementsManaged
<1>1. ASSUME Init, NEW k \in AllKinds PROVE Resource(k)!Init
  <2>1. k \in Kinds => Bring[k] \cap ox = {}
    BY <1>1, KindsKnown DEF Init
  <2>2. k \in Kinds => ~obj[k].fin /\ obj[k].phase = "absent"
    BY <1>1 DEF Init, NoObject
  <2> QED BY <2>1, <2>2 DEF Resource!Init
<1>2. HeldKinds /\ [Next]_vars
        => [\A k \in AllKinds : [Resource(k)!Next]_(Resource(k)!vars)]_vars
  BY KindStep
<1>3. Init => \A k \in AllKinds : Resource(k)!Init
  BY <1>1
<1> QED BY <1>2, <1>3, HeldKindsInvariant, PTL DEF Spec, ImplementsManaged
=============================================================================
