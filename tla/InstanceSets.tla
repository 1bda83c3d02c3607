---------------------------- MODULE InstanceSets ----------------------------
(***************************************************************************)
(* The InstanceSet controller (instanceset_controller.go), call by call:   *)
(* one set and its Instances <set>-0, <set>-1, ..., with users who scale,  *)
(* edit, pause, delete and re-create the set, or delete its Instances.     *)
(*                                                                         *)
(*  - The Instances have a controller and a finalizer of their own, of     *)
(*    which only the Ready condition and the delay of a deletion are kept. *)
(*  - The set has no finalizer.  Its Instances go by garbage collection,   *)
(*    which this module models as Kubernetes does it: in the background,   *)
(*    once there is no owner, or ahead of a set deleted in the foreground. *)
(*  - The Instance informer delivers every change in order, so its cache   *)
(*    is all the Instances as they were some time ago.                     *)
(*  - A reconcile may run whenever the set is in its cache: events,        *)
(*    resyncs and retries only decide when.                                *)
(***************************************************************************)
EXTENDS Integers

CONSTANTS
  MaxReplicas,  \* bound: spec.replicas
  Templates,    \* values of spec.template
  Scenes        \* what users and faults may do

ASSUME ParametersAssumption ==
  /\ MaxReplicas \in Nat /\ Templates # {}
  /\ \A s \in Scenes :
       /\ s.want \in 0 .. MaxReplicas  \* the replicas of the first set
       /\ s.users \subseteq {"scale", "template", "pause", "delete", "deleteKid"}
       /\ s.edits \in Nat              \* bound: how often users do that
       /\ s.faults \in Nat             \* bound: failed calls, lost answers and crashes

VARIABLES
  scene,      \* the scene played
  set,        \* the InstanceSet at the API server
  setCache,   \* the operator's informer cache of it
  kids,       \* the Instances at the API server, by index
  kidsCache,  \* the operator's informer cache of them
  job,        \* the local variables of the running Reconcile
  past,       \* what has been: see Pasts
  edits, faults

vars == <<scene, set, setCache, kids, kidsCache, job, past, edits, faults>>

Indices == 0 .. MaxReplicas - 1

\* uid: which set of its name this is.  count, ready, obs: the status.
Sets ==
  [phase : {"absent", "live", "deleting"}, uid : Nat, gen : Nat, want : 0 .. MaxReplicas,
   tmpl : Templates, paused : BOOLEAN, count : 0 .. MaxReplicas, ready : BOOLEAN, obs : Nat]

\* owner: the uid of the set in its owner reference.
Kids ==
  [phase : {"none", "live", "deleting"}, owner : Nat, tmpl : Templates, ready : BOOLEAN]

\* Which template comes first makes no difference.
FirstTemplate == CHOOSE t \in Templates : TRUE

There(kid) == kid.phase # "none"

NewSet(u, want, tmpl) ==
  [phase |-> "live", uid |-> u, gen |-> 1, want |-> want, tmpl |-> tmpl, paused |-> FALSE,
   count |-> 0, ready |-> FALSE, obs |-> 0]

\* Mutant: no owner reference.
Ownerless(s) == [phase |-> "live", owner |-> 0, tmpl |-> s.tmpl, ready |-> FALSE]

NewKid(s) == [phase |-> "live", owner |-> s.uid, tmpl |-> s.tmpl, ready |-> FALSE]

NoKid == [phase |-> "none", owner |-> 0, tmpl |-> FirstTemplate, ready |-> FALSE]

\* What each index has ever had as its template; the smallest number of replicas any
\* version of the set has asked for.
Pasts == [had : [Indices -> SUBSET Templates], least : 0 .. MaxReplicas]

Steps == {"idle", "child", "list", "delete", "patch"}

\* next: the child whose turn it is; up: how many are Ready; surplus: still to be deleted;
\* synced, ok: how sync ended.
Jobs ==
  [pc : Steps, img : Sets, next : 0 .. MaxReplicas, up : 0 .. MaxReplicas,
   surplus : SUBSET Indices, synced : BOOLEAN, ok : BOOLEAN]

NoSet == [NewSet(0, 0, FirstTemplate) EXCEPT !.phase = "absent"]

Running(pc, img) ==
  [pc |-> pc, img |-> img, next |-> 0, up |-> 0, surplus |-> {}, synced |-> FALSE, ok |-> FALSE]

Idle == Running("idle", NoSet)

Init ==
  /\ scene \in Scenes
  /\ set = NewSet(1, scene.want, FirstTemplate)
  /\ setCache = set
  /\ kids = [i \in Indices |-> NoKid] /\ kidsCache = kids
  /\ job = Idle
  /\ past = [had |-> [i \in Indices |-> {}], least |-> set.want]
  /\ edits = 0 /\ faults = 0

At(pc) == job.pc = pc

Fault == faults < scene.faults /\ faults' = faults + 1

\* The Instances become new, and so does what they have had.
Become(new) ==
  /\ kids' = new
  /\ past' = [past EXCEPT
       !.had = [i \in Indices |-> @[i] \cup (IF There(new[i]) THEN {new[i].tmpl} ELSE {})]]

-----------------------------------------------------------------------------
(* Reconcile and sync.                                                     *)

\* sync has returned: an error, or all in order, or progress.
SyncFails == Running("patch", job.img)
SyncEnds(ok) == [SyncFails EXCEPT !.synced = TRUE, !.ok = ok]

\* Mutant: the loop goes to the last replica and one more.
OneFurther(up) ==
  [job EXCEPT !.next = @ + 1, !.up = up, !.pc = IF job.next + 1 <= job.img.want THEN "child" ELSE "list"]

\* From one child to the next, and on to the surplus.
Advance(up) ==
  [job EXCEPT !.next = @ + 1, !.up = up, !.pc = IF job.next + 1 < job.img.want THEN "child" ELSE "list"]

Reconcile ==
  /\ At("idle")
  /\ setCache.phase = "live" /\ ~setCache.paused
  /\ job' = Running(IF setCache.want = 0 THEN "list" ELSE "child", setCache)
  /\ UNCHANGED <<scene, set, setCache, kids, kidsCache, past, edits, faults>>

\* Mutant: an Instance of the set keeps the template it was made from.
OwnerDiffers(kid) == kid.owner # job.img.uid

\* Only a change is sent, and it answers with the Instance as it is now.
Differs(kid) == kid.tmpl # job.img.tmpl \/ kid.owner # job.img.uid

\* What is sent is what differs from the cached Instance.
PatchedKid(seen, stored) ==
  [stored EXCEPT !.tmpl = IF seen.tmpl # job.img.tmpl THEN job.img.tmpl ELSE @,
                 !.owner = IF seen.owner # job.img.uid THEN job.img.uid ELSE @]

Counted(kid) == IF kid.ready THEN job.up + 1 ELSE job.up

\* Mutant: the error is kept for later, and the loop goes on.
ErrorKept == job' = Advance(Counted(kidsCache[job.next]))

ChildFails == job' = SyncFails

Create ==
  LET i == job.next
  IN /\ At("child") /\ ~There(kidsCache[i])
     /\ \/ /\ ~There(kids[i]) /\ Become([kids EXCEPT ![i] = NewKid(job.img)])
           /\ \/ job' = Advance(job.up) /\ UNCHANGED faults
              \/ ChildFails /\ Fault
        \/ There(kids[i]) /\ ChildFails /\ UNCHANGED <<kids, past, faults>>
        \/ ChildFails /\ Fault /\ UNCHANGED <<kids, past>>
     /\ UNCHANGED <<scene, set, setCache, kidsCache, edits>>

PatchKid ==
  LET i == job.next
      now == PatchedKid(kidsCache[i], kids[i])
  IN /\ At("child") /\ There(kidsCache[i]) /\ Differs(kidsCache[i])
     /\ \/ /\ There(kids[i]) /\ Become([kids EXCEPT ![i] = now])
           /\ \/ job' = Advance(Counted(now)) /\ UNCHANGED faults
              \/ ChildFails /\ Fault
        \/ ~There(kids[i]) /\ ChildFails /\ UNCHANGED <<kids, past, faults>>
        \/ ChildFails /\ Fault /\ UNCHANGED <<kids, past>>
     /\ UNCHANGED <<scene, set, setCache, kidsCache, edits>>

\* A child that is as it should be is counted as the cache has it.
KeepKid ==
  /\ At("child") /\ There(kidsCache[job.next]) /\ ~Differs(kidsCache[job.next])
  /\ job' = Advance(Counted(kidsCache[job.next]))
  /\ UNCHANGED <<scene, set, setCache, kids, kidsCache, past, edits, faults>>

\* Mutant: the last replica is taken for surplus.
OneTooMany == {i \in Indices : There(kidsCache[i]) /\ i + 1 >= job.img.want}

Surplus == {i \in Indices : There(kidsCache[i]) /\ i >= job.img.want}

ListKids ==
  /\ At("list")
  /\ job' = [job EXCEPT !.pc = "delete", !.surplus = Surplus]
  /\ UNCHANGED <<scene, set, setCache, kids, kidsCache, past, edits, faults>>

Deleted(i) == IF There(kids[i]) THEN [kids EXCEPT ![i].phase = "deleting"] ELSE kids

\* A listed Instance is deleted by name, whatever it is by now.
DeleteKid(i) ==
  /\ At("delete") /\ i \in job.surplus
  /\ \/ kids' = Deleted(i) /\ job' = [job EXCEPT !.surplus = @ \ {i}] /\ UNCHANGED faults
     \/ kids' \in {kids, Deleted(i)} /\ job' = SyncFails /\ Fault
  /\ UNCHANGED <<scene, set, setCache, kidsCache, past, edits>>

InSync == job.up >= job.img.want

Finish ==
  /\ At("delete") /\ job.surplus = {}
  /\ job' = SyncEnds(InSync)
  /\ UNCHANGED <<scene, set, setCache, kids, kidsCache, past, edits, faults>>

\* The merge patch sends what differs from the set the reconcile read.
Merged(was, new, stored) == IF new # was THEN new ELSE stored

\* A failed sync writes only the condition, whose message is not modelled: it is sent or
\* not when it stays false.  The generation is that of the set that was read, the set
\* that of its name.
PatchedSets ==
  LET img == job.img
  IN {[set EXCEPT !.ready = r,
                  !.obs   = Merged(img.obs, IF job.ok THEN img.gen ELSE img.obs, @),
                  !.count = Merged(img.count, IF job.synced THEN img.want ELSE img.count, @)] :
        r \in {Merged(img.ready, job.ok, set.ready)} \cup (IF job.ok THEN {} ELSE {FALSE})}

PatchStatus ==
  /\ At("patch")
  /\ \/ /\ set' \in IF set.phase # "absent" THEN PatchedSets ELSE {set}
        /\ UNCHANGED faults
     \/ Fault /\ UNCHANGED set
  /\ job' = Idle
  /\ UNCHANGED <<scene, setCache, kids, kidsCache, past, edits>>

-----------------------------------------------------------------------------
(* The Instances' own controller, and garbage collection.                  *)

KidReady(i) ==
  /\ kids[i].phase = "live" /\ ~kids[i].ready
  /\ kids' = [kids EXCEPT ![i].ready = TRUE]
  /\ UNCHANGED <<scene, set, setCache, kidsCache, job, past, edits, faults>>

KidUnready(i) ==
  /\ kids[i].phase = "live" /\ kids[i].ready
  /\ Fault
  /\ kids' = [kids EXCEPT ![i].ready = FALSE]
  /\ UNCHANGED <<scene, set, setCache, kidsCache, job, past, edits>>

KidGone(i) ==
  /\ kids[i].phase = "deleting"
  /\ kids' = [kids EXCEPT ![i] = NoKid]
  /\ UNCHANGED <<scene, set, setCache, kidsCache, job, past, edits, faults>>

Orphan(kid) == kid.owner # 0 /\ (set.phase # "live" \/ kid.owner # set.uid)

CollectKid(i) ==
  /\ kids[i].phase = "live" /\ Orphan(kids[i])
  /\ kids' = Deleted(i)
  /\ UNCHANGED <<scene, set, setCache, kidsCache, job, past, edits, faults>>

\* Deleted in the foreground, the set waits for its Instances.
SetGone ==
  /\ set.phase = "deleting" /\ \A i \in Indices : ~There(kids[i])
  /\ set' = [set EXCEPT !.phase = "absent"]
  /\ UNCHANGED <<scene, setCache, kids, kidsCache, job, past, edits, faults>>

-----------------------------------------------------------------------------
(* Users, informers and crashes.                                           *)

Edit(what) == what \in scene.users /\ edits < scene.edits /\ edits' = edits + 1

Lesser(n) == IF n < past.least THEN n ELSE past.least

Scale(n) ==
  /\ Edit("scale") /\ set.phase = "live" /\ n # set.want
  /\ set' = [set EXCEPT !.want = n, !.gen = @ + 1]
  /\ past' = [past EXCEPT !.least = Lesser(n)]
  /\ UNCHANGED <<scene, setCache, kids, kidsCache, job, faults>>

EditTemplate(t) ==
  /\ Edit("template") /\ set.phase = "live" /\ t # set.tmpl
  /\ set' = [set EXCEPT !.tmpl = t, !.gen = @ + 1]
  /\ UNCHANGED <<scene, setCache, kids, kidsCache, job, past, faults>>

\* The reconcile-mode annotation; no new generation.
Pause ==
  /\ Edit("pause") /\ set.phase = "live"
  /\ set' = [set EXCEPT !.paused = ~@]
  /\ UNCHANGED <<scene, setCache, kids, kidsCache, job, past, faults>>

DeleteSet(how) ==
  /\ Edit("delete") /\ set.phase = "live"
  /\ set' = [set EXCEPT !.phase = how]
  /\ UNCHANGED <<scene, setCache, kids, kidsCache, job, past, faults>>

CreateSet(n, t) ==
  /\ Edit("delete") /\ set.phase = "absent"
  /\ set' = NewSet(set.uid + 1, n, t)
  /\ past' = [past EXCEPT !.least = Lesser(n)]
  /\ UNCHANGED <<scene, setCache, kids, kidsCache, job, faults>>

UserDeletesKid(i) ==
  /\ Edit("deleteKid") /\ kids[i].phase = "live"
  /\ kids' = Deleted(i)
  /\ UNCHANGED <<scene, set, setCache, kidsCache, job, past, faults>>

SetSync ==
  /\ setCache # set /\ setCache' = set
  /\ UNCHANGED <<scene, set, kids, kidsCache, job, past, edits, faults>>

KidsSync ==
  /\ kidsCache # kids /\ kidsCache' = kids
  /\ UNCHANGED <<scene, set, setCache, kids, job, past, edits, faults>>

Crash ==
  /\ Fault
  /\ setCache' = set /\ kidsCache' = kids
  /\ job' = Idle
  /\ UNCHANGED <<scene, set, kids, past, edits>>

-----------------------------------------------------------------------------

SetStep ==
  \/ Reconcile \/ Create \/ PatchKid \/ KeepKid
  \/ ListKids \/ (\E i \in Indices : DeleteKid(i)) \/ Finish \/ PatchStatus

Users ==
  \/ \E n \in 0 .. MaxReplicas : Scale(n)
  \/ \E t \in Templates : EditTemplate(t)
  \/ Pause
  \/ \E how \in {"absent", "deleting"} : DeleteSet(how)
  \/ \E n \in 0 .. MaxReplicas, t \in Templates : CreateSet(n, t)
  \/ \E i \in Indices : UserDeletesKid(i)

Next ==
  \/ SetStep
  \/ \E i \in Indices : KidReady(i) \/ KidUnready(i) \/ KidGone(i) \/ CollectKid(i)
  \/ SetGone \/ SetSync \/ KidsSync \/ Crash
  \/ Users

Spec == Init /\ [][Next]_vars

\* The controller retries and has a worker of its own; informers keep up; Instances
\* come up or go; garbage is collected.
Fairness ==
  /\ WF_vars(SetStep) /\ WF_vars(SetSync) /\ WF_vars(KidsSync) /\ WF_vars(SetGone)
  /\ \A i \in Indices :
       WF_vars(KidReady(i)) /\ WF_vars(KidGone(i)) /\ WF_vars(CollectKid(i))

FairSpec == Spec /\ Fairness

-----------------------------------------------------------------------------
(* What a set promises.                                                    *)

TypeOK ==
  /\ scene \in Scenes
  /\ set \in Sets /\ setCache \in Sets
  /\ kids \in [Indices -> Kids] /\ kidsCache \in [Indices -> Kids]
  /\ job \in Jobs /\ past \in Pasts
  /\ edits \in Nat /\ faults \in Nat
  /\ At("child") => job.next \in Indices

\* The controller never deletes an Instance that every version of the set has asked
\* for, however it is scaled, re-created or fails, and however old its caches are
\* (instanceset_controller.go:106-110).
KeptWhileWanted ==
  [][SetStep => \A i \in Indices : i < past.least /\ kids[i].phase = "live"
                                     => kids'[i].phase = "live"]_vars

\* A set only shrinks once what it keeps has been brought up to date: an Instance is
\* deleted as surplus to the version that is reconciled, after every Instance of that
\* version has been given its template, also when calls fail, caches are stale and the
\* set is edited or re-created in between (instanceset_controller.go:76-110).
ShrinksLast ==
  [][\A i \in Indices : DeleteKid(i) =>
       /\ i >= job.img.want
       /\ \A j \in Indices : j < job.img.want => job.img.tmpl \in past.had[j]]_vars

\* A generation is only reported as reconciled when every Instance it asks for has
\* been given its template, with calls that fail and Instances that come and go
\* (instanceset_controller.go:66, 94-96); a set that was re-created may be patched by
\* the reconcile of its predecessor.
ObservedIsRolledOut ==
  set.uid = 1 /\ set.obs = set.gen
    => \A i \in Indices : i < set.want => set.tmpl \in past.had[i]

InLine ==
  /\ \A i \in Indices : There(kids[i]) <=> i < set.want
  /\ \A i \in Indices : i < set.want
       => kids[i].phase = "live" /\ kids[i].tmpl = set.tmpl /\ kids[i].owner = set.uid
  /\ set.ready /\ set.obs = set.gen /\ set.count = set.want

\* A set that is left alone gets its Instances, and no others, and reports so,
\* whatever happened before (instanceset_controller.go:52).
Converges == <>[](set.phase = "live" /\ ~set.paused) => <>[]InLine

\* What is left of a deleted set goes, even what its last reconcile still makes
\* (instanceset_controller.go:53).
NothingSurvives == <>[](set.phase = "absent") => <>[](\A i \in Indices : ~There(kids[i]))
=============================================================================
