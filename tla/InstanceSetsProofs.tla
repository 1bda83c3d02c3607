-------------------------- MODULE InstanceSetsProofs --------------------------
(***************************************************************************)
(* Proofs about InstanceSets, for any number of replicas, templates and    *)
(* edits, and any scenes.                                                  *)
(***************************************************************************)
EXTENDS InstanceSets, TLAPS

-----------------------------------------------------------------------------
(* Types.                                                                  *)

\* The loop counts no Instance twice and stays below the replicas it read.
LoopBounds ==
  /\ job.up <= job.next
  /\ At("child") => job.next < job.img.want

TypeInv == TypeOK /\ LoopBounds

LEMMA NothingTyped ==
  /\ FirstTemplate \in Templates
  /\ NoKid \in Kids /\ NoSet \in Sets /\ Idle \in Jobs
  /\ MaxReplicas \in Nat
<1>1. FirstTemplate \in Templates
  BY ParametersAssumption DEF FirstTemplate
<1>2. NoKid \in Kids
  BY <1>1 DEF NoKid, Kids
<1>3. NoSet \in Sets
  <2>1. NewSet(0, 0, FirstTemplate) \in Sets
    BY <1>1, ParametersAssumption DEF NewSet, Sets
  <2> QED
    BY <2>1 DEF NoSet, Sets
<1>4. Idle \in Jobs
  BY <1>3, ParametersAssumption DEF Idle, Running, Jobs, Steps
<1> QED
  BY <1>1, <1>2, <1>3, <1>4, ParametersAssumption

LEMMA NewTyped ==
  /\ \A u \in Nat, n \in 0 .. MaxReplicas, t \in Templates : NewSet(u, n, t) \in Sets
  /\ \A s \in Sets : NewKid(s) \in Kids
  /\ \A s \in Sets, pc \in Steps : Running(pc, s) \in Jobs
<1>1. MaxReplicas \in Nat
  BY NothingTyped
<1>2. \A u \in Nat, n \in 0 .. MaxReplicas, t \in Templates : NewSet(u, n, t) \in Sets
  BY <1>1 DEF NewSet, Sets
<1>3. \A s \in Sets : NewKid(s) \in Kids
  BY DEF NewKid, Kids, Sets
<1>4. \A s \in Sets, pc \in Steps : Running(pc, s) \in Jobs
  BY <1>1 DEF Running, Jobs
<1> QED
  BY <1>2, <1>3, <1>4

LEMMA TypesInit == Init => TypeInv
<1> SUFFICES ASSUME Init PROVE TypeInv
  OBVIOUS
<1> USE DEF Init
<1>1. scene.want \in 0 .. MaxReplicas
  BY ParametersAssumption
<1>2. set \in Sets /\ setCache \in Sets
  BY <1>1, NewTyped, NothingTyped
<1>3. kids \in [Indices -> Kids] /\ kidsCache \in [Indices -> Kids]
  BY NothingTyped
<1>4. past \in Pasts
  BY <1>2 DEF Pasts, Sets
<1>5. job \in Jobs /\ ~At("child") /\ job.up <= job.next
  BY NothingTyped DEF At, Idle, Running
<1> QED
  BY <1>2, <1>3, <1>4, <1>5 DEF TypeInv, TypeOK, LoopBounds

\* What happens to the Instances keeps them Instances.
LEMMA BecomeTyped ==
  ASSUME TypeOK, NEW new \in [Indices -> Kids], Become(new)
  PROVE  kids' \in [Indices -> Kids] /\ past' \in Pasts
<1> DEFINE seen == [i \in Indices |-> past.had[i] \cup (IF There(new[i]) THEN {new[i].tmpl} ELSE {})]
<1>1. past \in Pasts /\ past' = [past EXCEPT !.had = seen]
  BY DEF Become, TypeOK
<1>2. seen \in [Indices -> SUBSET Templates]
  <2> SUFFICES ASSUME NEW i \in Indices
               PROVE  past.had[i] \cup (IF There(new[i]) THEN {new[i].tmpl} ELSE {})
                        \in SUBSET Templates
    OBVIOUS
  <2>1. past.had[i] \in SUBSET Templates
    BY <1>1 DEF Pasts
  <2>2. new[i].tmpl \in Templates
    BY DEF Kids
  <2> QED
    BY <2>1, <2>2
<1> HIDE DEF seen
<1>3. past' \in Pasts
  BY <1>1, <1>2 DEF Pasts
<1> QED
  BY <1>3 DEF Become

LEMMA FailsTyped ==
  ASSUME TypeInv, job' = SyncFails
  PROVE  job' \in Jobs /\ ~At("child")' /\ (job.up <= job.next)'
<1>1. job.img \in Sets
  BY DEF TypeInv, TypeOK, Jobs
<1>2. SyncFails \in Jobs
  BY <1>1, NewTyped DEF SyncFails, Steps
<1> QED
  BY <1>2 DEF SyncFails, Running, At

LEMMA AdvanceTyped ==
  ASSUME TypeInv, At("child"), NEW up \in {job.up, job.up + 1}, job' = Advance(up)
  PROVE  job' \in Jobs /\ LoopBounds' /\ (At("child") => job.next \in Indices)'
<1>1. /\ job \in Jobs /\ MaxReplicas \in Nat /\ job.img \in Sets
      /\ job.up <= job.next /\ job.next < job.img.want
  BY NothingTyped DEF TypeInv, TypeOK, LoopBounds, Jobs
<1>2. /\ job.next \in Nat /\ job.up \in Nat /\ job.img.want \in 0 .. MaxReplicas
  BY <1>1 DEF Jobs, Sets
<1>3. /\ job.next + 1 \in 0 .. MaxReplicas /\ up \in 0 .. MaxReplicas /\ up <= job.next + 1
  BY <1>1, <1>2
<1>4. job' \in Jobs
  BY <1>1, <1>3 DEF Advance, Jobs, Steps
<1>5. job'.up = up /\ job'.next = job.next + 1 /\ job'.img = job.img
  BY <1>1 DEF Advance, Jobs
<1>6. job'.pc = "child" => job.next + 1 < job.img.want
  BY <1>1 DEF Advance, Jobs
<1>7. LoopBounds'
  BY <1>3, <1>5, <1>6 DEF LoopBounds, At
<1>8. (At("child") => job.next \in Indices)'
  BY <1>1, <1>2, <1>5, <1>6 DEF At, Indices
<1> QED
  BY <1>4, <1>7, <1>8

\* A changed Instance among the others.
LEMMA OneKidTyped ==
  ASSUME TypeOK, NEW i \in Indices, NEW kid \in Kids
  PROVE  [kids EXCEPT ![i] = kid] \in [Indices -> Kids]
  BY DEF TypeOK

LEMMA CountedTyped ==
  ASSUME NEW kid, TypeInv
  PROVE  Counted(kid) \in {job.up, job.up + 1}
  BY DEF Counted

LEMMA DeletedTyped ==
  ASSUME TypeOK, NEW i \in Indices
  PROVE  Deleted(i) \in [Indices -> Kids]
<1>1. [kids EXCEPT ![i].phase = "deleting"] \in [Indices -> Kids]
  BY DEF TypeOK, Kids
<1> QED
  BY <1>1 DEF Deleted, TypeOK

LEMMA LoopTypes == TypeInv /\ (Create \/ PatchKid \/ KeepKid) => TypeInv'
<1> SUFFICES ASSUME TypeInv, Create \/ PatchKid \/ KeepKid PROVE TypeInv'
  OBVIOUS
<1>1. At("child") /\ TypeOK /\ job.img \in Sets /\ job.next \in Indices
  BY DEF TypeInv, TypeOK, Jobs, Create, PatchKid, KeepKid
<1>2. UNCHANGED <<scene, set, setCache, kidsCache, edits>> /\ faults' \in Nat
  BY DEF TypeInv, TypeOK, Fault, Create, PatchKid, KeepKid
<1>3. kids' \in [Indices -> Kids] /\ past' \in Pasts
  <2>1. CASE UNCHANGED <<kids, past>>
    BY <1>1, <2>1 DEF TypeOK
  <2>2. CASE Become([kids EXCEPT ![job.next] = NewKid(job.img)])
    BY <1>1, <2>2, NewTyped, OneKidTyped, BecomeTyped
  <2>3. CASE Become([kids EXCEPT ![job.next] = PatchedKid(kidsCache[job.next], kids[job.next])])
    <3> DEFINE seen   == kidsCache[job.next]
               stored == kids[job.next]
               t == IF seen.tmpl # job.img.tmpl THEN job.img.tmpl ELSE stored.tmpl
               o == IF seen.owner # job.img.uid THEN job.img.uid ELSE stored.owner
    <3>1. stored \in Kids
      BY <1>1 DEF TypeOK
    <3>2. t \in Templates /\ o \in Nat
      BY <1>1, <3>1 DEF Kids, Sets
    <3>3. PatchedKid(seen, stored) = [stored EXCEPT !.tmpl = t, !.owner = o]
      BY DEF PatchedKid
    <3> HIDE DEF t, o
    <3>4. PatchedKid(seen, stored) \in Kids
      BY <3>1, <3>2, <3>3 DEF Kids
    <3> QED
      BY <1>1, <2>3, <3>4, OneKidTyped, BecomeTyped
  <2> QED
    BY <2>1, <2>2, <2>3 DEF Create, PatchKid, KeepKid
<1>4. job' = SyncFails \/ \E up \in {job.up, job.up + 1} : job' = Advance(up)
  BY CountedTyped DEF Create, PatchKid, KeepKid, ChildFails
<1>5. job' \in Jobs /\ LoopBounds' /\ (At("child") => job.next \in Indices)'
  BY <1>1, <1>4, AdvanceTyped, FailsTyped DEF LoopBounds
<1> QED
  BY <1>1, <1>2, <1>3, <1>5 DEF TypeInv, TypeOK

LEMMA EndTypes == TypeInv /\ (Reconcile \/ ListKids \/ Finish \/ PatchStatus) => TypeInv'
<1> SUFFICES ASSUME TypeInv, Reconcile \/ ListKids \/ Finish \/ PatchStatus PROVE TypeInv'
  OBVIOUS
<1> USE DEF TypeInv
<1>1. /\ job \in Jobs /\ set \in Sets /\ setCache \in Sets /\ job.img \in Sets
      /\ MaxReplicas \in Nat
  BY NothingTyped DEF TypeOK, Jobs
<1>2. job' \in Jobs /\ LoopBounds' /\ (At("child") => job.next \in Indices)'
  <2>1. CASE Reconcile
    <3> DEFINE pc == IF setCache.want = 0 THEN "list" ELSE "child"
    <3>1. pc \in Steps /\ job' = Running(pc, setCache)
      BY <2>1 DEF Reconcile, Steps
    <3>2. job' \in Jobs
      BY <1>1, <3>1, NewTyped
    <3>3. job'.up = 0 /\ job'.next = 0 /\ job'.pc = pc /\ job'.img = setCache
      BY <3>1 DEF Running
    <3>4. setCache.want \in 0 .. MaxReplicas
      BY <1>1 DEF Sets
    <3> QED
      BY <1>1, <3>2, <3>3, <3>4 DEF LoopBounds, At, Indices
  <2>2. CASE ListKids
    <3>1. Surplus \subseteq Indices
      BY DEF Surplus
    <3>2. job' \in Jobs
      BY <1>1, <2>2, <3>1 DEF ListKids, Jobs, Steps
    <3>3. job'.up = job.up /\ job'.next = job.next /\ job'.pc = "delete"
      BY <1>1, <2>2 DEF ListKids, Jobs
    <3> QED
      BY <3>2, <3>3 DEF LoopBounds, At
  <2>3. CASE Finish
    <3>1. SyncFails \in Jobs
      BY <1>1, NewTyped DEF SyncFails, Steps
    <3>2. InSync \in BOOLEAN
      BY DEF InSync
    <3>3. job' \in Jobs
      BY <2>3, <3>1, <3>2 DEF Finish, SyncEnds, Jobs
    <3>4. job'.up = 0 /\ job'.next = 0 /\ job'.pc = "patch"
      BY <2>3 DEF Finish, SyncEnds, SyncFails, Running
    <3> QED
      BY <3>3, <3>4 DEF LoopBounds, At
  <2>4. CASE PatchStatus
    BY <2>4, NothingTyped DEF PatchStatus, LoopBounds, At, Idle, Running
  <2> QED
    BY <2>1, <2>2, <2>3, <2>4
<1>3. PatchedSets \subseteq Sets
  <2> SUFFICES ASSUME NEW s \in PatchedSets PROVE s \in Sets
    OBVIOUS
  <2> DEFINE obs   == Merged(job.img.obs, IF job.ok THEN job.img.gen ELSE job.img.obs, set.obs)
             count == Merged(job.img.count, IF job.synced THEN job.img.want ELSE job.img.count, set.count)
  <2>1. obs \in Nat /\ count \in 0 .. MaxReplicas
    BY <1>1 DEF Merged, Sets
  <2>2. PICK r \in {Merged(job.img.ready, job.ok, set.ready)} \cup (IF job.ok THEN {} ELSE {FALSE}) :
          s = [set EXCEPT !.ready = r, !.obs = obs, !.count = count]
    BY DEF PatchedSets
  <2>3. job.ok \in BOOLEAN /\ set.ready \in BOOLEAN
    BY <1>1 DEF Jobs, Sets
  <2>4. r \in BOOLEAN
    BY <2>3 DEF Merged
  <2> HIDE DEF obs, count
  <2> QED
    BY <1>1, <2>1, <2>2, <2>4 DEF Sets
<1>4. set' \in Sets
  BY <1>1, <1>3 DEF Reconcile, ListKids, Finish, PatchStatus
<1>5. UNCHANGED <<scene, setCache, kids, kidsCache, past, edits>> /\ faults' \in Nat
  BY DEF TypeOK, Fault, Reconcile, ListKids, Finish, PatchStatus
<1> QED
  BY <1>1, <1>2, <1>4, <1>5 DEF TypeOK

LEMMA DeleteKidTypes == ASSUME TypeInv, NEW i \in Indices, DeleteKid(i) PROVE TypeInv'
<1> USE DEF TypeInv
<1>1. job' \in Jobs /\ LoopBounds' /\ ~At("child")'
  <2>1. CASE job' = SyncFails
    BY <2>1, FailsTyped DEF LoopBounds
  <2>2. CASE job' = [job EXCEPT !.surplus = @ \ {i}]
    BY <2>2 DEF DeleteKid, LoopBounds, At, TypeOK, Jobs
  <2> QED
    BY <2>1, <2>2 DEF DeleteKid
<1>2. kids' \in [Indices -> Kids]
  BY DeletedTyped DEF DeleteKid, TypeOK
<1>3. UNCHANGED <<scene, set, setCache, kidsCache, past, edits>> /\ faults' \in Nat
  BY DEF TypeOK, Fault, DeleteKid
<1> QED
  BY <1>1, <1>2, <1>3 DEF TypeOK

LEMMA KidTypes ==
  ASSUME TypeInv, NEW i \in Indices,
         KidReady(i) \/ KidUnready(i) \/ KidGone(i) \/ CollectKid(i) \/ UserDeletesKid(i)
  PROVE  TypeInv'
<1> USE DEF TypeInv
<1>1. kids' \in [Indices -> Kids]
  <2>1. \A b \in BOOLEAN : [kids EXCEPT ![i].ready = b] \in [Indices -> Kids]
    BY DEF TypeOK, Kids
  <2>2. [kids EXCEPT ![i] = NoKid] \in [Indices -> Kids]
    BY NothingTyped, OneKidTyped
  <2> QED
    BY <2>1, <2>2, DeletedTyped DEF KidReady, KidUnready, KidGone, CollectKid, UserDeletesKid
<1>2. past' \in Pasts
  BY DEF TypeOK, KidReady, KidUnready, KidGone, CollectKid, UserDeletesKid
<1>3. /\ UNCHANGED <<scene, set, setCache, kidsCache, job>>
      /\ faults' \in Nat /\ edits' \in Nat
  BY DEF TypeOK, Fault, Edit, KidReady, KidUnready, KidGone, CollectKid, UserDeletesKid
<1> QED
  BY <1>1, <1>2, <1>3 DEF TypeOK, LoopBounds, At

Environment ==
  \/ SetGone \/ SetSync \/ KidsSync \/ Crash
  \/ \E n \in 0 .. MaxReplicas : Scale(n)
  \/ \E t \in Templates : EditTemplate(t)
  \/ Pause
  \/ \E how \in {"absent", "deleting"} : DeleteSet(how)
  \/ \E n \in 0 .. MaxReplicas, t \in Templates : CreateSet(n, t)

LEMMA EnvironmentTypes == TypeInv /\ Environment => TypeInv'
<1> SUFFICES ASSUME TypeInv, Environment PROVE TypeInv'
  OBVIOUS
<1> USE DEF TypeInv
<1>1. set' \in Sets /\ past' \in Pasts
  <2>1. CASE UNCHANGED <<set, past>>
    BY <2>1 DEF TypeOK
  <2>2. CASE SetGone \/ Pause \/ (\E how \in {"absent", "deleting"} : DeleteSet(how))
    BY <2>2 DEF TypeOK, SetGone, Pause, DeleteSet, Sets
  <2>3. ASSUME NEW n \in 0 .. MaxReplicas, Scale(n) PROVE set' \in Sets /\ past' \in Pasts
    <3>1. Lesser(n) \in 0 .. MaxReplicas
      BY DEF TypeOK, Pasts, Lesser
    <3>2. set.gen + 1 \in Nat
      BY DEF TypeOK, Sets
    <3>3. set' \in Sets
      BY <2>3, <3>2 DEF TypeOK, Scale, Sets
    <3> QED
      BY <2>3, <3>1, <3>3 DEF TypeOK, Scale, Pasts
  <2>4. ASSUME NEW t \in Templates, EditTemplate(t) PROVE set' \in Sets /\ past' \in Pasts
    <3>1. set.gen + 1 \in Nat
      BY DEF TypeOK, Sets
    <3>2. set' \in Sets
      BY <2>4, <3>1 DEF TypeOK, EditTemplate, Sets
    <3> QED
      BY <2>4, <3>2 DEF TypeOK, EditTemplate
  <2>5. ASSUME NEW n \in 0 .. MaxReplicas, NEW t \in Templates, CreateSet(n, t)
        PROVE  set' \in Sets /\ past' \in Pasts
    <3>1. Lesser(n) \in 0 .. MaxReplicas
      BY DEF TypeOK, Pasts, Lesser
    <3>2. set.uid + 1 \in Nat
      BY DEF TypeOK, Sets
    <3>3. set' \in Sets
      BY <2>5, <3>2, NewTyped DEF CreateSet
    <3> QED
      BY <2>5, <3>1, <3>3 DEF TypeOK, CreateSet, Pasts
  <2> QED
    BY <2>1, <2>2, <2>3, <2>4, <2>5 DEF Environment, SetSync, KidsSync, Crash
<1>2. /\ setCache' \in Sets /\ kids' \in [Indices -> Kids] /\ kidsCache' \in [Indices -> Kids]
      /\ scene' = scene /\ edits' \in Nat /\ faults' \in Nat
  <2>1. CASE SetGone \/ SetSync \/ KidsSync
    BY <2>1 DEF TypeOK, SetGone, SetSync, KidsSync
  <2>2. CASE Crash
    BY <2>2 DEF TypeOK, Crash, Fault
  <2>3. ASSUME \/ \E n \in 0 .. MaxReplicas : Scale(n)
               \/ \E t \in Templates : EditTemplate(t)
               \/ Pause
               \/ \E how \in {"absent", "deleting"} : DeleteSet(how)
               \/ \E n \in 0 .. MaxReplicas, t \in Templates : CreateSet(n, t)
        PROVE  UNCHANGED <<setCache, kids, kidsCache, scene, faults>> /\ edits' = edits + 1
    BY <2>3 DEF Scale, EditTemplate, Pause, DeleteSet, CreateSet, Edit
  <2> QED
    BY <2>1, <2>2, <2>3 DEF TypeOK, Environment
<1>3. job' \in {job, Idle}
  BY DEF Environment, SetGone, SetSync, KidsSync, Crash, Scale, EditTemplate, Pause,
         DeleteSet, CreateSet
<1>4. job' \in Jobs /\ LoopBounds' /\ (At("child") => job.next \in Indices)'
  <2>1. CASE job' = job
    <3>1. job \in Jobs /\ LoopBounds /\ (At("child") => job.next \in Indices)
      BY DEF TypeOK
    <3>2. LoopBounds'
      BY <2>1, <3>1 DEF LoopBounds, At
    <3> QED
      BY <2>1, <3>1, <3>2 DEF At
  <2>2. CASE job' = Idle
    BY <2>2, NothingTyped DEF LoopBounds, At, Idle, Running
  <2> QED
    BY <1>3, <2>1, <2>2
<1> QED
  BY <1>1, <1>2, <1>4 DEF TypeOK

LEMMA TypesNext == TypeInv /\ [Next]_vars => TypeInv'
<1> SUFFICES ASSUME TypeInv, [Next]_vars PROVE TypeInv'
  OBVIOUS
<1>1. CASE UNCHANGED vars
  BY <1>1 DEF vars, TypeInv, TypeOK, LoopBounds, At
<1>2. CASE Create \/ PatchKid \/ KeepKid
  BY <1>2, LoopTypes
<1>3. CASE Reconcile \/ ListKids \/ Finish \/ PatchStatus
  BY <1>3, EndTypes
<1>4. CASE \E i \in Indices : DeleteKid(i)
  BY <1>4, DeleteKidTypes
<1>5. CASE \E i \in Indices :
             KidReady(i) \/ KidUnready(i) \/ KidGone(i) \/ CollectKid(i) \/ UserDeletesKid(i)
  BY <1>5, KidTypes
<1>6. CASE Environment
  BY <1>6, EnvironmentTypes
<1> QED
  BY <1>1, <1>2, <1>3, <1>4, <1>5, <1>6 DEF Next, SetStep, Users, Environment

LEMMA TypesHold == Spec => []TypeInv
  BY TypesInit, TypesNext, PTL DEF Spec

\* Every variable keeps its type, for any number of replicas.
THEOREM InstanceSetTypes == Spec => []TypeOK
<1>1. TypeInv => TypeOK
  BY DEF TypeInv
<1> QED
  BY <1>1, TypesHold, PTL

-----------------------------------------------------------------------------
(* No Instance is deleted that was wanted all along.                       *)

\* Nobody has seen a set that wants fewer, and nothing less is surplus.
WantInv ==
  /\ past.least <= set.want /\ past.least <= setCache.want
  /\ ~At("idle") => past.least <= job.img.want
  /\ \A i \in job.surplus : past.least <= i

LEMMA Numbers ==
  ASSUME TypeOK
  PROVE  /\ past.least \in Nat /\ set.want \in 0 .. MaxReplicas
         /\ setCache.want \in 0 .. MaxReplicas /\ job.img.want \in 0 .. MaxReplicas
         /\ set.uid \in Nat /\ set.gen \in Nat /\ set.obs \in Nat
         /\ setCache.uid \in Nat /\ setCache.gen \in Nat
         /\ job.img.uid \in Nat /\ job.img.gen \in Nat /\ job.next \in Nat
         /\ job.surplus \subseteq Indices /\ MaxReplicas \in Nat
  BY NothingTyped DEF TypeOK, Pasts, Sets, Jobs

LEMMA WantInit == Init => WantInv
<1> SUFFICES ASSUME Init PROVE WantInv
  OBVIOUS
<1>1. scene.want \in 0 .. MaxReplicas /\ MaxReplicas \in Nat
  BY ParametersAssumption DEF Init
<1>2. past.least = set.want /\ setCache.want = set.want /\ set.want = scene.want
  BY DEF Init, NewSet
<1>3. At("idle") /\ job.surplus = {}
  BY DEF Init, Idle, Running, At
<1> QED
  BY <1>1, <1>2, <1>3 DEF WantInv

\* What the set and the least are after any step.
LEMMA LeastFalls ==
  ASSUME TypeInv, WantInv, [Next]_vars
  PROVE  /\ past'.least <= past.least
         /\ past'.least <= set'.want
         /\ past'.least \in Nat
<1> USE DEF TypeInv
<1>1. past \in Pasts /\ set \in Sets /\ past.least <= set.want /\ past.least \in Nat
  BY Numbers DEF WantInv, TypeOK
<1>2. ASSUME past'.least = past.least, set'.want = set.want
      PROVE  past'.least <= past.least /\ past'.least <= set'.want /\ past'.least \in Nat
  BY <1>1, <1>2
<1>3. ASSUME NEW n \in 0 .. MaxReplicas, past' = [past EXCEPT !.least = Lesser(n)], set'.want = n
      PROVE  past'.least <= past.least /\ past'.least <= set'.want /\ past'.least \in Nat
  <2>1. past'.least = Lesser(n)
    BY <1>1, <1>3 DEF Pasts
  <2> QED
    BY <1>1, <1>3, <2>1, Numbers DEF Lesser
<1>4. ASSUME NEW new, Become(new) PROVE past'.least = past.least
  BY <1>1, <1>4 DEF Become, Pasts
<1>5. CASE Create \/ PatchKid
  BY <1>2, <1>4, <1>5 DEF Create, PatchKid
<1>6. CASE PatchStatus
  <2>1. \A s \in PatchedSets : s.want = set.want
    BY <1>1 DEF PatchedSets, Sets
  <2> QED
    BY <1>2, <1>6, <2>1 DEF PatchStatus
<1>7. CASE \E i \in Indices : KidReady(i)
  BY <1>2, <1>7 DEF KidReady
<1>8. CASE \E n \in 0 .. MaxReplicas : Scale(n)
  <2> PICK n \in 0 .. MaxReplicas : Scale(n)
    BY <1>8
  <2>1. set'.want = n /\ past' = [past EXCEPT !.least = Lesser(n)]
    BY <1>1 DEF Scale, Sets
  <2> QED
    BY <1>3, <2>1
<1>9. CASE \E n \in 0 .. MaxReplicas, t \in Templates : CreateSet(n, t)
  <2> PICK n \in 0 .. MaxReplicas, t \in Templates : CreateSet(n, t)
    BY <1>9
  <2>1. set'.want = n /\ past' = [past EXCEPT !.least = Lesser(n)]
    BY DEF CreateSet, NewSet
  <2> QED
    BY <1>3, <2>1
<1>10. CASE SetGone \/ Pause \/ (\E t \in Templates : EditTemplate(t))
            \/ (\E how \in {"absent", "deleting"} : DeleteSet(how))
  <2>1. set'.want = set.want /\ past' = past
    BY <1>1, <1>10 DEF SetGone, Pause, EditTemplate, DeleteSet, Sets
  <2> QED
    BY <1>2, <2>1
<1>11. CASE UNCHANGED <<set, past>>
  BY <1>2, <1>11
<1> QED
  BY <1>5, <1>6, <1>7, <1>8, <1>9, <1>10, <1>11
     DEF Next, SetStep, Users, Reconcile, KeepKid, ListKids, DeleteKid, Finish,
         KidUnready, KidGone, CollectKid, UserDeletesKid, SetSync, KidsSync, Crash, vars

\* What the running reconcile has read stays; a new one reads the cache.
LEMMA WantNext == TypeInv /\ WantInv /\ [Next]_vars => WantInv'
<1> SUFFICES ASSUME TypeInv, WantInv, [Next]_vars PROVE WantInv'
  OBVIOUS
<1>1. /\ past'.least <= past.least /\ past'.least <= set'.want
      /\ past'.least \in Nat /\ past.least \in Nat
  BY LeastFalls, Numbers DEF TypeInv
<1>2. /\ set.want \in Nat /\ setCache.want \in Nat /\ job.img.want \in Nat
      /\ job.surplus \subseteq Nat /\ job \in Jobs
  BY Numbers DEF TypeInv, Indices, TypeOK
<1>3. past'.least <= setCache'.want
  <2>1. setCache' \in {setCache, set}
    BY DEF Next, SetStep, Users, Reconcile, Create, PatchKid, KeepKid, ListKids, DeleteKid, Finish,
           PatchStatus, KidReady, KidUnready, KidGone, CollectKid, UserDeletesKid, SetGone, Scale,
           EditTemplate, Pause, DeleteSet, CreateSet, SetSync, KidsSync, Crash, vars
  <2> QED
    BY <1>1, <1>2, <2>1 DEF WantInv
<1>4. (job'.pc # "idle" => past'.least <= job'.img.want) /\ \A i \in job'.surplus : past'.least <= i
  <2>1. CASE job' = Idle \/ Reconcile
    <3>1. CASE job' = Idle
      BY <3>1 DEF Idle, Running, At
    <3>2. CASE Reconcile
      <4>1. job'.img = setCache /\ job'.surplus = {}
        BY <3>2 DEF Reconcile, Running
      <4> QED
        BY <1>1, <1>2, <4>1 DEF WantInv
    <3> QED
      BY <2>1, <3>1, <3>2
  <2>2. CASE ListKids
    <3>1. /\ job'.img = job.img /\ job'.surplus = Surplus /\ At("list")
      BY <1>2, <2>2 DEF ListKids, Jobs
    <3>2. \A i \in Surplus : job.img.want <= i /\ i \in Nat
      BY <1>2, Numbers DEF Surplus, Indices, TypeInv
    <3> QED
      BY <1>1, <1>2, <3>1, <3>2 DEF WantInv, At
  <2>3. CASE job' = job
    BY <1>1, <1>2, <2>3 DEF WantInv, At
  <2>4. ASSUME ~At("idle"), job'.img = job.img, job'.surplus \subseteq job.surplus
        PROVE  past'.least <= job'.img.want /\ \A i \in job'.surplus : past'.least <= i
    BY <1>1, <1>2, <2>4 DEF WantInv
  <2>5. CASE Create \/ PatchKid \/ KeepKid
    <3>1. ~At("idle") /\ (job' = SyncFails \/ \E up : job' = Advance(up))
      BY <2>5 DEF Create, PatchKid, KeepKid, ChildFails, At
    <3>2. CASE job' = SyncFails
      <4>1. job'.img = job.img /\ job'.surplus = {}
        BY <3>2 DEF SyncFails, Running
      <4> QED
        BY <2>4, <3>1, <4>1
    <3>3. ASSUME NEW up, job' = Advance(up)
          PROVE  job'.img = job.img /\ job'.surplus = job.surplus
      BY <1>2, <3>3 DEF Advance, Jobs
    <3> QED
      BY <2>4, <3>1, <3>2, <3>3
  <2>6. CASE Finish \/ \E i \in Indices : DeleteKid(i)
    <3>1. ~At("idle")
      BY <2>6 DEF Finish, DeleteKid, At
    <3>2. CASE job' = SyncFails \/ \E ok : job' = SyncEnds(ok)
      <4>1. SyncFails.img = job.img /\ SyncFails.surplus = {}
        BY DEF SyncFails, Running
      <4>2. \A ok : SyncEnds(ok).img = job.img /\ SyncEnds(ok).surplus = {}
        BY DEF SyncEnds, SyncFails, Running
      <4>3. job'.img = job.img /\ job'.surplus = {}
        BY <3>2, <4>1, <4>2
      <4> QED
        BY <2>4, <3>1, <4>3
    <3>3. ASSUME NEW i \in Indices, job' = [job EXCEPT !.surplus = @ \ {i}]
          PROVE  job'.img = job.img /\ job'.surplus \subseteq job.surplus
      BY <1>2, <3>3 DEF Jobs
    <3> QED
      BY <2>4, <2>6, <3>1, <3>2, <3>3 DEF Finish, DeleteKid
  <2> QED
    BY <2>1, <2>2, <2>3, <2>5, <2>6
       DEF Next, SetStep, Users, PatchStatus, KidReady, KidUnready, KidGone, CollectKid,
           UserDeletesKid, SetGone, Scale, EditTemplate, Pause, DeleteSet, CreateSet, SetSync,
           KidsSync, Crash, vars
<1> QED
  BY <1>1, <1>3, <1>4 DEF WantInv, At

\* However the set is scaled, re-created and fails, and however old the caches are, an
\* Instance all versions of the set ask for is not deleted
\* (instanceset_controller.go:106-110).
THEOREM WantedAreKept == Spec => KeptWhileWanted
<1>1. TypeInv /\ WantInv /\ [Next]_vars
        => [SetStep => \A i \in Indices : i < past.least /\ kids[i].phase = "live"
                                           => kids'[i].phase = "live"]_vars
  <2> SUFFICES ASSUME TypeInv, WantInv, SetStep, NEW i \in Indices,
                      i < past.least, kids[i].phase = "live"
               PROVE  kids'[i].phase = "live"
    OBVIOUS
  <2>1. /\ kids \in [Indices -> Kids] /\ There(kids[i]) /\ past.least \in Nat
        /\ Indices \subseteq Nat /\ job.surplus \subseteq Indices
    BY Numbers DEF TypeInv, TypeOK, There, Indices
  <2>2. CASE Create
    <3>1. kids' = kids \/ (~There(kids[job.next]) /\ kids' = [kids EXCEPT ![job.next] = NewKid(job.img)])
      BY <2>2 DEF Create, Become
    <3> QED
      BY <2>1, <3>1
  <2>3. CASE PatchKid
    <3> DEFINE now == PatchedKid(kidsCache[job.next], kids[job.next])
    <3>1. kids' = kids \/ kids' = [kids EXCEPT ![job.next] = now]
      BY <2>3 DEF PatchKid, Become
    <3>2. job.next \in Indices
      BY <2>3 DEF PatchKid, TypeInv, TypeOK
    <3>3. now.phase = kids[job.next].phase
      BY <2>1, <3>2 DEF PatchedKid, Kids
    <3> HIDE DEF now
    <3> QED
      BY <2>1, <3>1, <3>2, <3>3
  <2>4. CASE \E j \in Indices : DeleteKid(j)
    <3> PICK j \in Indices : DeleteKid(j)
      BY <2>4
    <3>1. j # i
      BY <2>1 DEF DeleteKid, WantInv
    <3>2. Deleted(j)[i] = kids[i]
      BY <2>1, <3>1 DEF Deleted
    <3> QED
      BY <3>2 DEF DeleteKid
  <2>5. CASE UNCHANGED kids
    BY <2>5
  <2> QED
    BY <2>2, <2>3, <2>4, <2>5 DEF SetStep, Reconcile, KeepKid, ListKids, Finish, PatchStatus
<1>2. Spec => []WantInv
  BY TypesHold, WantInit, WantNext, PTL DEF Spec
<1> QED
  BY <1>1, <1>2, TypesHold, PTL DEF Spec, KeptWhileWanted

-----------------------------------------------------------------------------
(* A reconciled generation was rolled out.                                 *)

\* s is what v is, or was before an edit.
Version(v, s) ==
  /\ v.uid # 0 /\ v.uid <= s.uid
  /\ v.uid = s.uid => v.gen <= s.gen
  /\ v.uid = s.uid /\ v.gen = s.gen => v.want = s.want /\ v.tmpl = s.tmpl

VersionInv == Version(setCache, set) /\ (~At("idle") => Version(job.img, set))

\* What is there, or was when the cache saw it, has been there.
HadInv ==
  \A i \in Indices : /\ There(kids[i]) => kids[i].tmpl \in past.had[i]
                     /\ There(kidsCache[i]) => kidsCache[i].tmpl \in past.had[i]

RolledOut(n, t) == \A i \in Indices : i < n => t \in past.had[i]

\* What the running reconcile is through with.
LoopInv ==
  /\ At("child") => RolledOut(job.next, job.img.tmpl)
  /\ At("list") \/ At("delete") \/ (At("patch") /\ job.ok) => RolledOut(job.img.want, job.img.tmpl)

ObservedInv == set.uid = 1 => set.obs <= set.gen

RolloutInv == VersionInv /\ HadInv /\ LoopInv /\ ObservedInv /\ ObservedIsRolledOut

LEMMA RolloutInit == Init => RolloutInv
<1> SUFFICES ASSUME Init PROVE RolloutInv
  OBVIOUS
<1>1. /\ set.uid = 1 /\ set.gen = 1 /\ set.obs = 0 /\ setCache = set
      /\ job.pc = "idle" /\ kidsCache = kids /\ \A i \in Indices : ~There(kids[i])
  BY DEF Init, NewSet, Idle, Running, NoKid, There
<1>2. VersionInv
  BY <1>1 DEF VersionInv, Version, At
<1>3. HadInv /\ LoopInv
  BY <1>1 DEF HadInv, LoopInv, At
<1>4. ObservedInv /\ ObservedIsRolledOut
  BY <1>1 DEF ObservedInv, ObservedIsRolledOut
<1> QED
  BY <1>2, <1>3, <1>4 DEF RolloutInv

\* What has been there has been there for good.
HadKept == \A i \in Indices : past.had[i] \subseteq past'.had[i]

LEMMA BecomeHad ==
  ASSUME TypeOK, NEW new \in [Indices -> Kids], Become(new)
  PROVE  /\ HadKept
         /\ \A i \in Indices : There(new[i]) => new[i].tmpl \in past'.had[i]
<1>1. past \in Pasts
  BY DEF TypeOK
<1>2. past'.had = [i \in Indices |-> past.had[i] \cup (IF There(new[i]) THEN {new[i].tmpl} ELSE {})]
  BY <1>1 DEF Become, Pasts
<1> QED
  BY <1>2 DEF HadKept

LEMMA HadNext ==
  ASSUME TypeInv, HadInv, [Next]_vars
  PROVE  HadInv' /\ HadKept
<1> USE DEF TypeInv
<1>1. kids \in [Indices -> Kids] /\ past \in Pasts /\ (At("child") => job.next \in Indices /\ job.img \in Sets)
  BY DEF TypeOK, Jobs
<1>2. CASE \E new \in [Indices -> Kids] : Become(new) /\ UNCHANGED kidsCache
  <2> PICK new \in [Indices -> Kids] : Become(new) /\ UNCHANGED kidsCache
    BY <1>2
  <2>1. HadKept /\ \A i \in Indices : There(new[i]) => new[i].tmpl \in past'.had[i]
    BY BecomeHad
  <2>2. kids' = new
    BY DEF Become
  <2> QED
    BY <2>1, <2>2 DEF HadInv, HadKept
<1>3. CASE /\ HadKept
           /\ kidsCache' \in {kidsCache, kids}
           /\ \A i \in Indices : There(kids'[i]) => There(kids[i]) /\ kids'[i].tmpl = kids[i].tmpl
  BY <1>3 DEF HadInv, HadKept
<1>4. CASE Create \/ PatchKid
  <2>1. CASE UNCHANGED <<kids, past, kidsCache>>
    BY <2>1 DEF HadInv, HadKept
  <2>2. CASE Create /\ Become([kids EXCEPT ![job.next] = NewKid(job.img)])
    <3>1. [kids EXCEPT ![job.next] = NewKid(job.img)] \in [Indices -> Kids]
      BY <1>1, <2>2, NewTyped, OneKidTyped DEF Create
    <3> QED
      BY <1>2, <2>2, <3>1 DEF Create
  <2>3. CASE PatchKid /\ Become([kids EXCEPT ![job.next] = PatchedKid(kidsCache[job.next], kids[job.next])])
    <3>1. kids' = [kids EXCEPT ![job.next] = PatchedKid(kidsCache[job.next], kids[job.next])]
      BY <2>3 DEF Become
    <3>2. kids' \in [Indices -> Kids]
      BY <2>3, LoopTypes DEF TypeOK
    <3> QED
      BY <1>2, <2>3, <3>1, <3>2 DEF PatchKid
  <2> QED
    BY <1>4, <2>1, <2>2, <2>3 DEF Create, PatchKid
<1>5. CASE \E i \in Indices : KidReady(i)
  <2> PICK i \in Indices : KidReady(i)
    BY <1>5
  <2>1. past' = past
    BY DEF KidReady
  <2>2. \A j \in Indices : There(kids'[j]) => There(kids[j]) /\ kids'[j].tmpl = kids[j].tmpl
    BY <1>1 DEF KidReady, There, Kids
  <2> QED
    BY <1>3, <2>1, <2>2 DEF HadKept, KidReady
<1>6. CASE \E i \in Indices : KidUnready(i) \/ KidGone(i) \/ CollectKid(i) \/ UserDeletesKid(i) \/ DeleteKid(i)
  <2> PICK i \in Indices : KidUnready(i) \/ KidGone(i) \/ CollectKid(i) \/ UserDeletesKid(i) \/ DeleteKid(i)
    BY <1>6
  <2>1. past' = past /\ kidsCache' = kidsCache
    BY DEF KidUnready, KidGone, CollectKid, UserDeletesKid, DeleteKid
  <2>2. \A j \in Indices : There(Deleted(i)[j]) => There(kids[j]) /\ Deleted(i)[j].tmpl = kids[j].tmpl
    BY <1>1 DEF Deleted, There, Kids
  <2>3. \A j \in Indices : There(kids'[j]) => There(kids[j]) /\ kids'[j].tmpl = kids[j].tmpl
    <3>1. CASE KidUnready(i)
      BY <1>1, <3>1 DEF KidUnready, There, Kids
    <3>2. CASE KidGone(i)
      BY <1>1, <3>2 DEF KidGone, There, NoKid
    <3>3. CASE kids' \in {kids, Deleted(i)}
      BY <2>2, <3>3
    <3> QED
      BY <3>1, <3>2, <3>3 DEF CollectKid, UserDeletesKid, DeleteKid
  <2> QED
    BY <1>3, <2>1, <2>3 DEF HadKept
<1>7. CASE \/ \E n \in 0 .. MaxReplicas : Scale(n)
           \/ \E n \in 0 .. MaxReplicas, t \in Templates : CreateSet(n, t)
  <2>1. past'.had = past.had /\ kids' = kids /\ kidsCache' = kidsCache
    BY <1>1, <1>7 DEF Scale, CreateSet, Pasts
  <2> QED
    BY <1>3, <2>1 DEF HadKept
<1>8. CASE UNCHANGED <<kids, past>> /\ kidsCache' \in {kidsCache, kids}
  BY <1>3, <1>8 DEF HadKept
<1> QED
  BY <1>4, <1>5, <1>6, <1>7, <1>8
     DEF Next, SetStep, Users, Reconcile, KeepKid, ListKids, Finish, PatchStatus, SetGone,
         EditTemplate, Pause, DeleteSet, SetSync, KidsSync, Crash, vars

\* What any step makes of the set: an edit is a generation of its own, a new set has a
\* uid of its own.
LEMMA SetMoves ==
  ASSUME TypeInv, [Next]_vars
  PROVE  \/ set'.uid = set.uid /\ set'.gen = set.gen /\ set'.want = set.want /\ set'.tmpl = set.tmpl
         \/ set'.uid = set.uid /\ set'.gen = set.gen + 1
         \/ set'.uid = set.uid + 1
<1>1. set \in Sets
  BY DEF TypeInv, TypeOK
<1>2. CASE PatchStatus
  <2>1. \A s \in PatchedSets : s.uid = set.uid /\ s.gen = set.gen /\ s.want = set.want /\ s.tmpl = set.tmpl
    BY <1>1 DEF PatchedSets, Sets
  <2> QED
    BY <1>2, <2>1 DEF PatchStatus
<1>3. CASE SetGone \/ Pause \/ (\E how \in {"absent", "deleting"} : DeleteSet(how))
  BY <1>1, <1>3 DEF SetGone, Pause, DeleteSet, Sets
<1>4. CASE (\E n \in 0 .. MaxReplicas : Scale(n)) \/ (\E t \in Templates : EditTemplate(t))
  BY <1>1, <1>4 DEF Scale, EditTemplate, Sets
<1>5. CASE \E n \in 0 .. MaxReplicas, t \in Templates : CreateSet(n, t)
  BY <1>5 DEF CreateSet, NewSet
<1>6. CASE UNCHANGED set
  BY <1>6
<1> QED
  BY <1>2, <1>3, <1>4, <1>5, <1>6
     DEF Next, SetStep, Users, Reconcile, Create, PatchKid, KeepKid, ListKids, DeleteKid, Finish,
         KidReady, KidUnready, KidGone, CollectKid, UserDeletesKid, SetSync, KidsSync, Crash, vars

LEMMA VersionKept ==
  ASSUME TypeInv, [Next]_vars, NEW v \in Sets, Version(v, set)
  PROVE  Version(v, set')
<1>1. set.uid \in Nat /\ set.gen \in Nat /\ v.uid \in Nat /\ v.gen \in Nat
  BY DEF TypeInv, TypeOK, Sets
<1> QED
  BY <1>1, SetMoves DEF Version

\* The image of a reconcile stays until it ends.
LEMMA ImageKept ==
  ASSUME TypeInv, [Next]_vars, job'.pc # "idle"
  PROVE  (~At("idle") /\ job'.img = job.img) \/ (Reconcile /\ job'.img = setCache)
<1>1. job \in Jobs
  BY DEF TypeInv, TypeOK
<1>2. CASE Reconcile
  BY <1>2 DEF Reconcile, Running
<1>3. CASE UNCHANGED job
  BY <1>3 DEF At
<1>4. CASE PatchStatus \/ Crash
  BY <1>4 DEF PatchStatus, Crash, Idle, Running
<1>5. SyncFails.img = job.img /\ (\A ok : SyncEnds(ok).img = job.img) /\ (\A up : Advance(up).img = job.img)
  BY <1>1 DEF SyncFails, SyncEnds, Running, Advance, Jobs
<1>6. CASE Create \/ PatchKid \/ KeepKid
  BY <1>5, <1>6 DEF Create, PatchKid, KeepKid, ChildFails, At
<1>7. CASE ListKids \/ Finish \/ \E i \in Indices : DeleteKid(i)
  BY <1>1, <1>5, <1>7 DEF ListKids, Finish, DeleteKid, At, Jobs
<1> QED
  BY <1>2, <1>3, <1>4, <1>6, <1>7
     DEF Next, SetStep, Users, KidReady, KidUnready, KidGone, CollectKid,
         UserDeletesKid, SetGone, Scale, EditTemplate, Pause, DeleteSet, CreateSet, SetSync,
         KidsSync, vars

LEMMA VersionNext == TypeInv /\ VersionInv /\ [Next]_vars => VersionInv'
<1> SUFFICES ASSUME TypeInv, VersionInv, [Next]_vars PROVE VersionInv'
  OBVIOUS
<1>1. set \in Sets /\ setCache \in Sets /\ job.img \in Sets
  BY DEF TypeInv, TypeOK, Jobs
<1>2. Version(setCache, set) /\ (job.pc # "idle" => Version(job.img, set))
  BY DEF VersionInv, At
<1>3. Version(setCache, set')
  BY <1>1, <1>2, VersionKept
<1>4. Version(setCache', set')
  <2>1. Version(set, set)
    BY <1>1, <1>2 DEF Version, Sets
  <2>2. setCache' \in {setCache, set}
    BY DEF Next, SetStep, Users, Reconcile, Create, PatchKid, KeepKid, ListKids, DeleteKid, Finish,
           PatchStatus, KidReady, KidUnready, KidGone, CollectKid, UserDeletesKid, SetGone, Scale,
           EditTemplate, Pause, DeleteSet, CreateSet, SetSync, KidsSync, Crash, vars
  <2> QED
    BY <1>1, <1>3, <2>1, <2>2, VersionKept
<1>5. ASSUME job'.pc # "idle" PROVE Version(job'.img, set')
  BY <1>1, <1>2, <1>3, <1>5, ImageKept, VersionKept DEF At
<1> QED
  BY <1>4, <1>5 DEF VersionInv, At

LEMMA RolledOutKept ==
  ASSUME HadKept, NEW n, NEW t, RolledOut(n, t)
  PROVE  RolledOut(n, t)'
  BY DEF HadKept, RolledOut

\* The child whose turn it was has the template, or had it when the cache saw it.
LEMMA ChildDone ==
  ASSUME TypeInv, HadInv, Create \/ PatchKid \/ KeepKid, job' # SyncFails
  PROVE  job.img.tmpl \in past'.had[job.next]
<1> USE DEF TypeInv
<1>1. /\ kids \in [Indices -> Kids] /\ kidsCache \in [Indices -> Kids] /\ past \in Pasts
      /\ job.next \in Indices /\ job.img \in Sets
  BY DEF TypeOK, Jobs, Create, PatchKid, KeepKid
<1>2. CASE Create
  <2> DEFINE new == [kids EXCEPT ![job.next] = NewKid(job.img)]
  <2>1. Become(new)
    BY <1>2 DEF Create, ChildFails
  <2>2. new \in [Indices -> Kids]
    BY <1>1, NewTyped, OneKidTyped
  <2>3. There(new[job.next]) /\ new[job.next].tmpl = job.img.tmpl
    BY <1>1 DEF NewKid, There
  <2> HIDE DEF new
  <2> QED
    BY <1>1, <2>1, <2>2, <2>3, BecomeHad
<1>3. CASE PatchKid
  <2> DEFINE seen == kidsCache[job.next]
             now  == PatchedKid(seen, kids[job.next])
             new  == [kids EXCEPT ![job.next] = now]
  <2>1. Become(new) /\ There(seen) /\ There(kids[job.next])
    BY <1>3 DEF PatchKid, ChildFails
  <2>2. kids' = new
    BY <2>1 DEF Become
  <2>3. kids' \in [Indices -> Kids]
    BY <1>3, LoopTypes DEF TypeOK
  <2>4. new \in [Indices -> Kids] /\ new[job.next] = now
    BY <1>1, <2>2, <2>3
  <2>5. HadKept /\ (There(now) => now.tmpl \in past'.had[job.next])
    <3> HIDE DEF new
    <3> QED
      BY <1>1, <2>1, <2>4, BecomeHad
  <2>6. kids[job.next] \in Kids
    BY <1>1
  <2>7. now.phase = kids[job.next].phase
    BY <2>6 DEF PatchedKid, Kids
  <2>8. CASE seen.tmpl = job.img.tmpl
    BY <1>1, <2>1, <2>5, <2>8 DEF HadInv, HadKept
  <2>9. CASE seen.tmpl # job.img.tmpl
    <3>1. now.tmpl = job.img.tmpl
      BY <2>6, <2>9 DEF PatchedKid, Kids
    <3> QED
      BY <2>1, <2>5, <2>7, <3>1 DEF There
  <2> QED
    BY <2>8, <2>9
<1>4. CASE KeepKid
  BY <1>1, <1>4 DEF KeepKid, Differs, HadInv
<1> QED
  BY <1>2, <1>3, <1>4

LEMMA LoopNext == TypeInv /\ HadInv /\ LoopInv /\ [Next]_vars => LoopInv'
<1> SUFFICES ASSUME TypeInv, HadInv, LoopInv, [Next]_vars PROVE LoopInv'
  OBVIOUS
<1>1. HadKept
  BY HadNext
<1>2. /\ job \in Jobs /\ job.next \in Nat /\ job.img.want \in Nat /\ setCache.want \in Nat
      /\ Indices \subseteq Nat
  BY Numbers DEF TypeInv, TypeOK, Indices
<1>3. CASE job'.pc = "idle" \/ job' = SyncFails
  BY <1>3 DEF LoopInv, At, SyncFails, Running
<1>4. CASE UNCHANGED job
  BY <1>1, <1>4, RolledOutKept DEF LoopInv, At, RolledOut, HadKept
<1>5. CASE Reconcile
  <2>1. job'.next = 0 /\ (job'.pc = "list" => job'.img.want = 0) /\ job'.pc \in {"child", "list"}
    BY <1>5 DEF Reconcile, Running
  <2>2. \A t : RolledOut(0, t)'
    BY <1>2 DEF RolledOut
  <2> QED
    BY <2>1, <2>2 DEF LoopInv, At, RolledOut
<1>6. CASE (Create \/ PatchKid \/ KeepKid) /\ job' # SyncFails
  <2>1. At("child") /\ \E up : job' = Advance(up)
    BY <1>6 DEF Create, PatchKid, KeepKid, ChildFails
  <2>2. /\ job'.next = job.next + 1 /\ job'.img = job.img
        /\ job'.pc = IF job.next + 1 < job.img.want THEN "child" ELSE "list"
    BY <1>2, <2>1 DEF Advance, Jobs
  <2>3. \A i \in Indices : i < job.next + 1 => job.img.tmpl \in past'.had[i]
    <3> SUFFICES ASSUME NEW i \in Indices, i < job.next + 1 PROVE job.img.tmpl \in past'.had[i]
      OBVIOUS
    <3>1. CASE i = job.next
      BY <1>6, <3>1, ChildDone
    <3>2. CASE i < job.next
      BY <1>1, <2>1, <3>2 DEF LoopInv, RolledOut, HadKept
    <3> QED
      BY <1>2, <3>1, <3>2
  <2>4. ~(job.next + 1 < job.img.want)
          => \A i \in Indices : i < job.img.want => job.img.tmpl \in past'.had[i]
    <3> SUFFICES ASSUME ~(job.next + 1 < job.img.want), NEW i \in Indices, i < job.img.want
                 PROVE  i < job.next + 1
      BY <2>3
    <3>1. i \in Nat
      BY <1>2
    <3> QED
      BY <1>2, <3>1
  <2> QED
    BY <2>2, <2>3, <2>4 DEF LoopInv, At, RolledOut
<1>7. CASE ListKids \/ Finish \/ \E i \in Indices : DeleteKid(i) /\ job' # SyncFails
  <2>1. At("list") \/ At("delete")
    BY <1>7 DEF ListKids, Finish, DeleteKid
  <2>2. job'.img = job.img /\ job'.pc \in {"delete", "patch"}
    <3>1. CASE Finish
      BY <3>1 DEF Finish, SyncEnds, SyncFails, Running
    <3>2. CASE ListKids
      BY <1>2, <3>2 DEF ListKids, Jobs
    <3>3. CASE \E i \in Indices : DeleteKid(i) /\ job' # SyncFails
      BY <1>2, <3>3 DEF DeleteKid, Jobs, At
    <3> QED
      BY <1>7, <3>1, <3>2, <3>3
  <2>3. RolledOut(job.img.want, job.img.tmpl)'
    BY <1>1, <2>1, <2>2 DEF LoopInv, RolledOut, HadKept
  <2> QED
    BY <2>2, <2>3 DEF LoopInv, At
<1>8. CASE PatchStatus \/ Crash
  BY <1>3, <1>8 DEF PatchStatus, Crash, Idle, Running
<1> QED
  BY <1>3, <1>4, <1>5, <1>6, <1>7, <1>8
     DEF Next, SetStep, Users, KidReady, KidUnready, KidGone, CollectKid,
         UserDeletesKid, SetGone, Scale, EditTemplate, Pause, DeleteSet, CreateSet, SetSync,
         KidsSync, Crash, vars

LEMMA ObservedNext ==
  TypeInv /\ RolloutInv /\ [Next]_vars => ObservedInv' /\ ObservedIsRolledOut'
<1> SUFFICES ASSUME TypeInv, RolloutInv, [Next]_vars PROVE ObservedInv' /\ ObservedIsRolledOut'
  OBVIOUS
<1> USE DEF RolloutInv
<1>1. /\ set \in Sets /\ set.uid \in Nat /\ set.gen \in Nat /\ set.obs \in Nat
      /\ job.img \in Sets /\ job.img.uid \in Nat /\ job.img.gen \in Nat
      /\ Version(setCache, set)
  BY Numbers DEF TypeInv, TypeOK, Jobs, VersionInv
<1>2. HadKept
  BY HadNext
<1>3. set.uid # 0
  BY <1>1 DEF Version, Sets, TypeInv, TypeOK
<1>4. ASSUME set'.uid = set.uid, set'.gen = set.gen, set'.obs = set.obs,
             set'.want = set.want, set'.tmpl = set.tmpl
      PROVE  ObservedInv' /\ ObservedIsRolledOut'
  BY <1>2, <1>4 DEF ObservedInv, ObservedIsRolledOut, HadKept
<1>5. ASSUME set'.uid = set.uid, set'.gen = set.gen + 1, set'.obs = set.obs
      PROVE  ObservedInv' /\ ObservedIsRolledOut'
  BY <1>1, <1>5 DEF ObservedInv, ObservedIsRolledOut
<1>6. CASE PatchStatus
  <2>1. CASE set' = set
    BY <1>4, <2>1
  <2>2. CASE set' \in PatchedSets
    <3> DEFINE obs == Merged(job.img.obs, IF job.ok THEN job.img.gen ELSE job.img.obs, set.obs)
    <3>1. /\ set'.uid = set.uid /\ set'.gen = set.gen /\ set'.want = set.want /\ set'.tmpl = set.tmpl
          /\ set'.obs = obs
      BY <1>1, <2>2 DEF PatchedSets, Sets
    <3>2. CASE obs = set.obs
      BY <1>4, <3>1, <3>2
    <3>3. CASE obs # set.obs
      <4>1. obs = job.img.gen /\ job.ok
        BY <3>3 DEF Merged
      <4>2. Version(job.img, set) /\ RolledOut(job.img.want, job.img.tmpl)
        BY <1>6, <4>1 DEF PatchStatus, VersionInv, LoopInv, At
      <4>3. set.uid = 1 => job.img.uid = 1 /\ job.img.gen <= set.gen
        BY <1>1, <4>2 DEF Version
      <4>4. ObservedInv'
        BY <3>1, <4>1, <4>3 DEF ObservedInv
      <4>5. ObservedIsRolledOut'
        BY <1>2, <3>1, <4>1, <4>2, <4>3 DEF ObservedIsRolledOut, RolledOut, HadKept, Version
      <4> QED
        BY <4>4, <4>5
    <3> QED
      BY <3>2, <3>3
  <2> QED
    BY <1>6, <2>1, <2>2 DEF PatchStatus
<1>7. CASE SetGone \/ Pause \/ (\E how \in {"absent", "deleting"} : DeleteSet(how))
  BY <1>1, <1>4, <1>7 DEF SetGone, Pause, DeleteSet, Sets
<1>8. CASE (\E n \in 0 .. MaxReplicas : Scale(n)) \/ (\E t \in Templates : EditTemplate(t))
  BY <1>1, <1>5, <1>8 DEF Scale, EditTemplate, Sets
<1>9. CASE \E n \in 0 .. MaxReplicas, t \in Templates : CreateSet(n, t)
  <2>1. set'.uid = set.uid + 1
    BY <1>9 DEF CreateSet, NewSet
  <2> QED
    BY <1>1, <1>3, <2>1 DEF ObservedInv, ObservedIsRolledOut
<1>10. CASE UNCHANGED set
  BY <1>4, <1>10
<1> QED
  BY <1>6, <1>7, <1>8, <1>9, <1>10
     DEF Next, SetStep, Users, Reconcile, Create, PatchKid, KeepKid, ListKids, DeleteKid, Finish,
         KidReady, KidUnready, KidGone, CollectKid, UserDeletesKid, SetSync, KidsSync, Crash, vars

LEMMA RolloutHolds == Spec => []RolloutInv
<1>1. TypeInv /\ RolloutInv /\ [Next]_vars => RolloutInv'
  BY VersionNext, HadNext, LoopNext, ObservedNext DEF RolloutInv
<1> QED
  BY <1>1, RolloutInit, TypesHold, PTL DEF Spec

\* A generation is only reported as reconciled once all its Instances have been given its
\* template, whatever fails, is edited or comes late in between
\* (instanceset_controller.go:66, 94-96).
THEOREM ObservedWasRolledOut == Spec => []ObservedIsRolledOut
<1>1. RolloutInv => ObservedIsRolledOut
  BY DEF RolloutInv
<1> QED
  BY <1>1, RolloutHolds, PTL

-----------------------------------------------------------------------------
(* A set shrinks last.                                                     *)

\* What is listed is beyond the replicas the reconcile has read.
SurplusInv == \A i \in job.surplus : i >= job.img.want

LEMMA SurplusNext == TypeInv /\ SurplusInv /\ [Next]_vars => SurplusInv'
<1> SUFFICES ASSUME TypeInv, SurplusInv, [Next]_vars PROVE SurplusInv'
  OBVIOUS
<1>1. job \in Jobs
  BY DEF TypeInv, TypeOK
<1>2. CASE job'.surplus = {}
  BY <1>2 DEF SurplusInv
<1>3. CASE job'.img = job.img /\ job'.surplus \subseteq job.surplus
  BY <1>3 DEF SurplusInv
<1>4. CASE ListKids
  <2>1. job'.img = job.img /\ job'.surplus = Surplus
    BY <1>1, <1>4 DEF ListKids, Jobs
  <2> QED
    BY <2>1 DEF SurplusInv, Surplus
<1>5. CASE Create \/ PatchKid \/ KeepKid
  <2>1. job' = SyncFails \/ \E up : job' = Advance(up)
    BY <1>5 DEF Create, PatchKid, KeepKid, ChildFails
  <2>2. SyncFails.surplus = {}
    BY DEF SyncFails, Running
  <2>3. \A up : Advance(up).img = job.img /\ Advance(up).surplus = job.surplus
    BY <1>1 DEF Advance, Jobs
  <2> QED
    BY <1>2, <1>3, <2>1, <2>2, <2>3
<1>6. CASE \E i \in Indices : DeleteKid(i)
  <2> PICK i \in Indices : DeleteKid(i)
    BY <1>6
  <2>1. CASE job' = SyncFails
    BY <1>2, <2>1 DEF SyncFails, Running
  <2>2. CASE job' = [job EXCEPT !.surplus = @ \ {i}]
    BY <1>1, <1>3, <2>2 DEF Jobs
  <2> QED
    BY <2>1, <2>2 DEF DeleteKid
<1>7. CASE Reconcile \/ Finish \/ PatchStatus \/ Crash
  <2>1. \A pc, img : Running(pc, img).surplus = {}
    BY DEF Running
  <2>2. \A ok : SyncEnds(ok).surplus = {}
    BY DEF SyncEnds, SyncFails, Running
  <2> QED
    BY <1>2, <1>7, <2>1, <2>2 DEF Reconcile, Finish, PatchStatus, Crash, Idle
<1>8. CASE UNCHANGED job
  BY <1>3, <1>8
<1> QED
  BY <1>4, <1>5, <1>6, <1>7, <1>8
     DEF Next, SetStep, Users, KidReady, KidUnready, KidGone, CollectKid,
         UserDeletesKid, SetGone, Scale, EditTemplate, Pause, DeleteSet, CreateSet, SetSync,
         KidsSync, vars

\* Whatever fails and however the set is edited meanwhile, an Instance is only deleted as
\* surplus to a version all of whose own Instances have been given its template
\* (instanceset_controller.go:76-110).
THEOREM SetShrinksLast == Spec => ShrinksLast
<1>1. SurplusInv /\ LoopInv /\ [Next]_vars
        => [\A i \in Indices : DeleteKid(i) =>
              /\ i >= job.img.want
              /\ \A j \in Indices : j < job.img.want => job.img.tmpl \in past.had[j]]_vars
  BY DEF SurplusInv, LoopInv, RolledOut, DeleteKid, At
<1>2. Init => SurplusInv
  BY DEF Init, Idle, Running, SurplusInv
<1>3. Spec => []SurplusInv
  BY <1>2, TypesHold, SurplusNext, PTL DEF Spec
<1>4. RolloutInv => LoopInv
  BY DEF RolloutInv
<1> QED
  BY <1>1, <1>3, <1>4, RolloutHolds, PTL DEF Spec, ShrinksLast
=============================================================================
