------------------------- MODULE ConnectionClients -------------------------
(***************************************************************************)
(* How an OxideConnection's API token reaches the reconcilers: the token   *)
(* Secret, the connection's controller that watches it, the status field   *)
(* it records the Secret's version in, and the process-wide client cache   *)
(* in pkg/oxideclient that every reconciler goes through.                  *)
(*                                                                         *)
(* One connection, possibly deleted and created again under its name.  A   *)
(* Secret's version stands for the token it holds, and a connection's UID  *)
(* and generation for its spec.  Versions only grow; 0 is no Secret.       *)
(***************************************************************************)
EXTENDS Integers

CONSTANTS
  Readers,      \* the reconcilers of the resources that use the connection
  MaxVersion,   \* bound: versions of the Secret
  MaxGen,       \* bound: generations of one connection's spec
  MaxUid,       \* bound: connections created under the name
  MaxFaults     \* bound: failed calls and crashes

ASSUME BoundsAssumption ==
  /\ MaxVersion \in Nat /\ MaxGen \in Nat /\ MaxUid \in Nat /\ MaxFaults \in Nat

VARIABLES
  secret,       \* version of the token Secret at the API server
  last,         \* the newest version there has been
  noticed,      \* version the Secret watch has reported
  conn,         \* the OxideConnection at the API server
  connCache,    \* the operator's informer cache of it
  queued,       \* the connection is, or will again be, in its work queue
  job,          \* the connection's running Reconcile
  clients,      \* the entry for the connection in the client cache
  readers,      \* what each reader is doing
  used,         \* the client each reader last got
  faults

vars == <<secret, last, noticed, conn, connCache, queued, job, clients, readers, used, faults>>

api   == <<secret, last, noticed, conn>>
users == <<readers, used>>

Connections == [uid : Nat, gen : Nat, obs : Nat, fin : BOOLEAN]

Tags == [uid : Nat, gen : Nat, obs : Nat]

\* The client built for a tag: the spec it was built from and its token.
Clients == [tag : Tags, uid : Nat, gen : Nat, token : Nat]
NoTag == [uid |-> 0, gen |-> 0, obs |-> 0]
NoClient == [tag |-> NoTag, uid |-> 0, gen |-> 0, token |-> 0]

NoConnection == [uid |-> 0, gen |-> 0, obs |-> 0, fin |-> FALSE]

Idle == [pc |-> "idle", img |-> NoConnection, obs |-> 0]
Jobs == [pc : {"idle", "readSecret", "getClient", "viewUser", "patch"}, img : Connections, obs : Nat]

Away == [pc |-> "idle", img |-> NoConnection]
ReaderStates == [pc : {"idle", "getClient"}, img : Connections]

Init ==
  /\ secret = 1 /\ last = 1 /\ noticed = 1
  /\ conn = [uid |-> 1, gen |-> 1, obs |-> 0, fin |-> FALSE]
  /\ connCache = conn
  /\ queued = TRUE
  /\ job = Idle
  /\ clients = NoClient
  /\ readers = [r \in Readers |-> Away]
  /\ used = [r \in Readers |-> NoClient]
  /\ faults = 0

Fault == faults < MaxFaults /\ faults' = faults + 1

-----------------------------------------------------------------------------
(* ClientFor (client.go:73), atomic under clientsMu.                       *)

\* Mutant: the tag leaves out the connection's UID.
TagWithoutUid(img, obs) == [uid |-> 1, gen |-> img.gen, obs |-> obs]

\* Mutant: the tag leaves out the Secret's version.
TagWithoutSecret(img, obs) == [uid |-> img.uid, gen |-> img.gen, obs |-> 0]

Tag(img, obs) == [uid |-> img.uid, gen |-> img.gen, obs |-> obs]

Cached(img, obs) == clients # NoClient /\ clients.tag = Tag(img, obs)

\* Mutant: the token is read from the informer's copy of the Secret.
TokenFromCache(img, obs) ==
  [tag |-> Tag(img, obs), uid |-> img.uid, gen |-> img.gen, token |-> noticed]

\* newClient reads the token straight from the API server.
NewClient(img, obs) ==
  [tag |-> Tag(img, obs), uid |-> img.uid, gen |-> img.gen, token |-> secret]

\* Mutant: a client that could not be built is cached as well.
CachesFailures(img, obs) == IF Cached(img, obs) THEN clients ELSE NewClient(img, obs)

\* What the call leaves in the cache; without a Secret it fails and leaves it alone.
AfterClientFor(img, obs) ==
  IF Cached(img, obs) \/ secret = 0 THEN clients ELSE NewClient(img, obs)

Served(img, obs) == Cached(img, obs) \/ secret # 0

-----------------------------------------------------------------------------
(* The OxideConnection controller.                                         *)

Started(img) == job' = [pc |-> "readSecret", img |-> img, obs |-> img.obs]

AddFinalizer ==
  /\ ~connCache.fin /\ connCache = conn
  /\ conn' = [conn EXCEPT !.fin = TRUE]
  /\ Started(conn')

\* Without the finalizer, a stale cached object only gets a conflict and a retry.
\* One that has a successor is being deleted: nothing uses it, so it just goes.  The
\* connection has no reconcile-mode annotation.
Reconcile ==
  /\ job.pc = "idle" /\ queued
  /\ queued' = FALSE
  /\ \/ AddFinalizer
     \/ connCache.fin /\ connCache.uid = conn.uid /\ Started(connCache) /\ UNCHANGED conn
     \/ connCache.fin /\ connCache.uid # conn.uid /\ UNCHANGED <<conn, job>>
  /\ UNCHANGED <<secret, last, noticed, connCache, clients, users, faults>>

\* The Secret's metadata.  On an error the outcome is patched at once.
ReadSecret ==
  /\ job.pc = "readSecret"
  /\ \/ /\ secret # 0
        /\ job' = [job EXCEPT !.pc = "getClient", !.obs = secret]
        /\ UNCHANGED faults
     \/ /\ secret = 0
        /\ job' = [job EXCEPT !.pc = "patch"]
        /\ UNCHANGED faults
     \/ Fault /\ job' = [job EXCEPT !.pc = "patch"]
  /\ UNCHANGED <<api, connCache, queued, clients, users>>

GetClient ==
  /\ job.pc = "getClient"
  /\ \/ /\ clients' = AfterClientFor(job.img, job.obs)
        /\ job' = [job EXCEPT !.pc = IF Served(job.img, job.obs) THEN "viewUser" ELSE "patch"]
        /\ UNCHANGED faults
     \/ /\ Fault /\ ~Cached(job.img, job.obs)
        /\ job' = [job EXCEPT !.pc = "patch"]
        /\ UNCHANGED clients
  /\ UNCHANGED <<api, connCache, queued, users>>

\* CurrentUserView: whether the token works only changes the Ready condition.
ViewUser ==
  /\ job.pc = "viewUser"
  /\ job' = [job EXCEPT !.pc = "patch"]
  /\ UNCHANGED <<api, connCache, queued, clients, users, faults>>

\* Mutant: the field counts changes instead of holding the version.
ObservedCounts(img, obs, now) == IF obs # img.obs THEN now + 1 ELSE now

\* The merge patch carries the version if it differs from the cached one's.
Observed(img, obs, now) == IF obs # img.obs THEN obs ELSE now

\* The patch names the object, not its UID.  Every outcome is requeued: on
\* success for the resync.
PatchStatus ==
  /\ job.pc = "patch"
  /\ \/ conn' = [conn EXCEPT !.obs = Observed(job.img, job.obs, @)] /\ UNCHANGED faults
     \/ Fault /\ UNCHANGED conn
  /\ job' = Idle
  /\ queued' = TRUE
  /\ UNCHANGED <<secret, last, noticed, connCache, clients, users>>

-----------------------------------------------------------------------------
(* The other reconcilers: NewClientFromRef (client.go:64).                 *)

ReadConnection(r) ==
  /\ readers[r].pc = "idle"
  /\ readers' = [readers EXCEPT ![r] = [pc |-> "getClient", img |-> connCache]]
  /\ UNCHANGED <<api, connCache, queued, job, clients, used, faults>>

GotClient(r) ==
  LET img == readers[r].img
  IN /\ readers[r].pc = "getClient"
     /\ Served(img, img.obs)
     /\ clients' = AfterClientFor(img, img.obs)
     /\ used' = [used EXCEPT ![r] = clients']
     /\ readers' = [readers EXCEPT ![r] = Away]
     /\ UNCHANGED <<api, connCache, queued, job, faults>>

\* The resource waits for the next time it is reconciled.
NoClientFor(r) ==
  LET img == readers[r].img
  IN /\ readers[r].pc = "getClient"
     /\ ~Cached(img, img.obs)
     /\ \/ secret = 0 /\ UNCHANGED faults
        \/ secret # 0 /\ Fault
     /\ readers' = [readers EXCEPT ![r] = Away]
     /\ UNCHANGED <<api, connCache, queued, job, clients, used>>

-----------------------------------------------------------------------------
(* Users, watches and crashes.                                             *)

Rotate ==
  /\ last < MaxVersion
  /\ last' = last + 1
  /\ secret' = last'
  /\ UNCHANGED <<noticed, conn, connCache, queued, job, clients, users, faults>>

SecretDeleted ==
  /\ secret # 0
  /\ secret' = 0
  /\ UNCHANGED <<last, noticed, conn, connCache, queued, job, clients, users, faults>>

SpecEdited ==
  /\ conn.gen < MaxGen
  /\ conn' = [conn EXCEPT !.gen = @ + 1]
  /\ UNCHANGED <<secret, last, noticed, connCache, queued, job, clients, users, faults>>

\* Deleted, with nothing using it, and created again with another spec.  The
\* finalizer keeps it in place while its Reconcile runs.
Recreated ==
  /\ conn.uid < MaxUid
  /\ job.pc = "idle"
  /\ conn' = [uid |-> conn.uid + 1, gen |-> 1, obs |-> 0, fin |-> FALSE]
  /\ UNCHANGED <<secret, last, noticed, connCache, queued, job, clients, users, faults>>

\* connectionsForSecret queues the connections that name the Secret.
SecretEvent ==
  /\ noticed # secret
  /\ noticed' = secret
  /\ queued' = TRUE
  /\ UNCHANGED <<secret, last, conn, connCache, job, clients, users, faults>>

\* A status-only update does not queue the connection.
ConnectionEvent ==
  /\ connCache # conn
  /\ connCache' = conn
  /\ queued' = (queued \/ conn.gen # connCache.gen \/ conn.uid # connCache.uid)
  /\ UNCHANGED <<api, job, clients, users, faults>>

Crash ==
  /\ Fault
  /\ clients' = NoClient
  /\ job' = Idle
  /\ readers' = [r \in Readers |-> Away]
  /\ connCache' = conn
  /\ noticed' = secret
  /\ queued' = TRUE
  /\ UNCHANGED <<secret, last, conn, used>>

ConnectionStep == Reconcile \/ ReadSecret \/ GetClient \/ ViewUser \/ PatchStatus

ReaderStep(r) == ReadConnection(r) \/ GotClient(r) \/ NoClientFor(r)

Next ==
  \/ ConnectionStep \/ \E r \in Readers : ReaderStep(r)
  \/ SecretEvent \/ ConnectionEvent \/ Crash
  \/ Rotate \/ SecretDeleted \/ SpecEdited \/ Recreated

Spec == Init /\ [][Next]_vars

\* Each controller has workers of its own, and both watches keep delivering.
Fairness ==
  /\ WF_vars(ConnectionStep)
  /\ \A r \in Readers : WF_vars(ReaderStep(r))
  /\ WF_vars(SecretEvent)
  /\ WF_vars(ConnectionEvent)

FairSpec == Spec /\ Fairness

-----------------------------------------------------------------------------
(* What the cache promises.                                                *)

\* Types; and no version is newer than the last one.
TypeOK ==
  /\ secret \in Nat /\ last \in Nat /\ noticed \in Nat
  /\ conn \in Connections /\ connCache \in Connections
  /\ queued \in BOOLEAN
  /\ job \in Jobs
  /\ clients \in Clients
  /\ readers \in [Readers -> ReaderStates]
  /\ used \in [Readers -> Clients]
  /\ faults \in Nat
  /\ secret \in {0, last}
  /\ conn.obs <= last /\ job.obs <= last /\ clients.token <= last

\* A cached client's token is at least as new as the version it is tagged with,
\* so a hit on the tag never hands out a token from before it (client.go:74-79).
TokenNotOlderThanTag == clients.tag.obs <= clients.token

\* A reconciler that has seen version v recorded in the connection's status gets
\* a token of version v or later, whatever the other reconcilers, with older or
\* newer views of the connection, have put into the cache in between.
NeverAnOlderToken ==
  [][\A r \in Readers : GotClient(r) =>
       used'[r].token >= readers[r].img.obs]_vars

\* Once any reconciler has been handed a token, none is handed an older one: not for
\* a status that lags, an older spec or an earlier connection of the name, nor after
\* a restart (the one entry per name and the live read, client.go:76-93).
NoTokenComesBack ==
  [][\A r \in Readers : GotClient(r) =>
       \A q \in Readers : used[q].token <= used'[r].token]_vars

\* A reconciler gets a client for the very spec it has read, also when another
\* connection had the name before.
ClientOfItsSpec ==
  [][\A r \in Readers : GotClient(r) =>
       used'[r].uid = readers[r].img.uid /\ used'[r].gen = readers[r].img.gen]_vars

\* Changes to the Secret and to the connection are picked up: with a Secret in
\* place, every reconciler ends up with the newest token and the newest spec
\* (oxideconnection_types.go:30).
RotationIsPickedUp ==
  <>[](secret # 0) =>
    <>[](\A r \in Readers : /\ used[r].token = secret
                            /\ used[r].uid = conn.uid /\ used[r].gen = conn.gen)
=============================================================================
