---------------------- MODULE ConnectionClientsProofs ----------------------
(***************************************************************************)
(* What the client cache promises, for any number of reconcilers, rotated  *)
(* Secrets, edits, connections of the same name, failed calls and crashes. *)
(***************************************************************************)
EXTENDS ConnectionClients, TLAPS

\* No view of the connection holds a version that is not there yet.
SeenVersions ==
  /\ connCache.obs <= last
  /\ job.img.obs <= last
  /\ \A r \in Readers : readers[r].img.obs <= last

\* A client is built for the spec its tag names.
BuiltForTag == clients.uid = clients.tag.uid /\ clients.gen = clients.tag.gen

\* The inductive invariant: a new client's token is as new as any version seen,
\* since the Secret is read after whatever named the version.
ClientInv == TypeOK /\ SeenVersions /\ BuiltForTag /\ TokenNotOlderThanTag

\* The definitions every step's proof looks at.
USE DEF api, users, Connections, Tags, Clients, Jobs, ReaderStates,
        NoTag, NoClient, NoConnection, Idle, Away

-----------------------------------------------------------------------------

\* A view of the connection taken from the API server or the cache leads to a
\* client of that spec with a token no older than the version asked for.
LEMMA ClientForView ==
  ASSUME ClientInv, NEW img \in Connections, NEW obs \in Nat, obs <= last, Served(img, obs)
  PROVE  LET c == AfterClientFor(img, obs)
         IN /\ c \in Clients /\ c.token <= last
            /\ c.uid = c.tag.uid /\ c.gen = c.tag.gen
            /\ c.tag.obs <= c.token
            /\ c.tag = Tag(img, obs)
<1>1. CASE Cached(img, obs)
  BY <1>1 DEF ClientInv, TypeOK, BuiltForTag, TokenNotOlderThanTag, AfterClientFor, Cached
<1>2. CASE ~Cached(img, obs)
  <2>1. secret = last
    BY <1>2 DEF Served, ClientInv, TypeOK
  <2>2. AfterClientFor(img, obs) = NewClient(img, obs)
    BY <1>2 DEF AfterClientFor, Served
  <2> QED BY <2>1, <2>2 DEF NewClient, Tag, ClientInv, TypeOK
<1> QED BY <1>1, <1>2

\* Without one, the cache is left alone.
LEMMA NoClientForView ==
  ASSUME NEW img, NEW obs, ~Served(img, obs)
  PROVE  AfterClientFor(img, obs) = clients
BY DEF Served, AfterClientFor

LEMMA ClientInit == Init => ClientInv
BY DEF Init, ClientInv, TypeOK, SeenVersions, BuiltForTag, TokenNotOlderThanTag

-----------------------------------------------------------------------------
(* One lemma per group of actions.                                         *)

LEMMA ReconcileStep ==
  ASSUME ClientInv, Reconcile  PROVE ClientInv'
<1> USE DEF ClientInv, TypeOK, SeenVersions, BuiltForTag, TokenNotOlderThanTag
<1>1. CASE AddFinalizer
  BY <1>1 DEF Reconcile, AddFinalizer, Started
<1>2. CASE connCache.fin /\ connCache.uid = conn.uid /\ Started(connCache) /\ UNCHANGED conn
  BY <1>2 DEF Reconcile, Started
<1>3. CASE connCache.fin /\ connCache.uid # conn.uid /\ UNCHANGED <<conn, job>>
  BY <1>3 DEF Reconcile
<1> QED BY <1>1, <1>2, <1>3 DEF Reconcile

LEMMA ReadSecretStep ==
  ASSUME ClientInv, ReadSecret  PROVE ClientInv'
<1>1. /\ job' \in Jobs /\ job'.img = job.img /\ job'.obs <= last
      /\ faults' \in Nat
  <2> USE DEF ClientInv, TypeOK
  <2>1. CASE job' = [job EXCEPT !.pc = "getClient", !.obs = secret] /\ UNCHANGED faults
    <3>1. secret \in Nat /\ secret <= last
      OBVIOUS
    <3> QED BY <2>1, <3>1
  <2>2. CASE job' = [job EXCEPT !.pc = "patch"] /\ (UNCHANGED faults \/ Fault)
    BY <2>2 DEF Fault
  <2> QED BY <2>1, <2>2 DEF ReadSecret
<1>2. UNCHANGED <<api, connCache, queued, clients, users>>
  BY DEF ReadSecret
<1> QED
  BY <1>1, <1>2 DEF ClientInv, TypeOK, SeenVersions, BuiltForTag, TokenNotOlderThanTag

LEMMA GetClientStep ==
  ASSUME ClientInv, GetClient  PROVE ClientInv'
<1>1. job.img \in Connections /\ job.obs \in Nat /\ job.obs <= last
  BY DEF ClientInv, TypeOK
<1>2. /\ clients' \in Clients /\ clients'.token <= last
      /\ clients'.uid = clients'.tag.uid /\ clients'.gen = clients'.tag.gen
      /\ clients'.tag.obs <= clients'.token
  <2>1. CASE UNCHANGED clients
    BY <2>1 DEF ClientInv, TypeOK, BuiltForTag, TokenNotOlderThanTag
  <2>2. CASE clients' = AfterClientFor(job.img, job.obs) /\ Served(job.img, job.obs)
    BY <1>1, <2>2, ClientForView
  <2>3. CASE clients' = AfterClientFor(job.img, job.obs) /\ ~Served(job.img, job.obs)
    BY <2>1, <2>3, NoClientForView
  <2> QED BY <2>1, <2>2, <2>3 DEF GetClient
<1>3. job' \in Jobs /\ job'.img = job.img /\ job'.obs = job.obs /\ faults' \in Nat
  BY DEF GetClient, Fault, ClientInv, TypeOK
<1> QED
  BY <1>2, <1>3 DEF GetClient, ClientInv, TypeOK, SeenVersions, BuiltForTag, TokenNotOlderThanTag

LEMMA PatchSteps ==
  ASSUME ClientInv, ViewUser \/ PatchStatus  PROVE ClientInv'
<1>1. CASE ViewUser
  <2>1. job' \in Jobs /\ job'.img = job.img /\ job'.obs = job.obs
    BY <1>1 DEF ViewUser, ClientInv, TypeOK
  <2> QED
    BY <1>1, <2>1
    DEF ViewUser, ClientInv, TypeOK, SeenVersions, BuiltForTag, TokenNotOlderThanTag
<1>2. CASE PatchStatus
  <2>1. conn' \in Connections /\ conn'.obs <= last /\ faults' \in Nat
    BY <1>2 DEF PatchStatus, Observed, Fault, ClientInv, TypeOK
  <2>2. job' \in Jobs /\ job'.obs <= last /\ job'.img.obs <= last
    BY <1>2 DEF PatchStatus, ClientInv, TypeOK
  <2> QED
    BY <1>2, <2>1, <2>2
    DEF PatchStatus, ClientInv, TypeOK, SeenVersions, BuiltForTag, TokenNotOlderThanTag
<1> QED BY <1>1, <1>2

LEMMA ReaderSteps ==
  ASSUME ClientInv, NEW r \in Readers, ReaderStep(r)  PROVE ClientInv'
<1> USE DEF ClientInv, TypeOK, SeenVersions, BuiltForTag, TokenNotOlderThanTag
<1>1. CASE ReadConnection(r)
  BY <1>1 DEF ReadConnection
<1>2. CASE GotClient(r)
  <2> DEFINE img == readers[r].img
  <2>1. img \in Connections /\ img.obs \in Nat /\ img.obs <= last /\ Served(img, img.obs)
    BY <1>2 DEF GotClient
  <2>2. /\ clients' \in Clients /\ clients'.token <= last
        /\ clients'.uid = clients'.tag.uid /\ clients'.gen = clients'.tag.gen
        /\ clients'.tag.obs <= clients'.token
    BY <1>2, <2>1, ClientForView DEF GotClient
  <2> QED BY <1>2, <2>2 DEF GotClient
<1>3. CASE NoClientFor(r)
  BY <1>3 DEF NoClientFor, Fault
<1> QED BY <1>1, <1>2, <1>3 DEF ReaderStep

LEMMA WorldSteps ==
  ASSUME ClientInv, SecretEvent \/ ConnectionEvent \/ Crash \/ Rotate \/ SecretDeleted
                    \/ SpecEdited \/ Recreated
  PROVE  ClientInv'
<1> USE DEF ClientInv, TypeOK, SeenVersions, BuiltForTag, TokenNotOlderThanTag
<1>1. CASE SecretEvent BY <1>1 DEF SecretEvent
<1>2. CASE ConnectionEvent BY <1>2 DEF ConnectionEvent
<1>3. CASE Crash BY <1>3 DEF Crash, Fault
<1>4. CASE Rotate BY <1>4 DEF Rotate
<1>5. CASE SecretDeleted BY <1>5 DEF SecretDeleted
<1>6. CASE SpecEdited BY <1>6 DEF SpecEdited
<1>7. CASE Recreated BY <1>7 DEF Recreated
<1> QED BY <1>1, <1>2, <1>3, <1>4, <1>5, <1>6, <1>7

LEMMA ClientNext == ClientInv /\ [Next]_vars => ClientInv'
<1> SUFFICES ASSUME ClientInv, [Next]_vars PROVE ClientInv'
  OBVIOUS
<1>1. CASE ConnectionStep
  BY <1>1, ReconcileStep, ReadSecretStep, GetClientStep, PatchSteps DEF ConnectionStep
<1>2. CASE \E r \in Readers : ReaderStep(r)
  BY <1>2, ReaderSteps
<1>3. CASE SecretEvent \/ ConnectionEvent \/ Crash \/ Rotate \/ SecretDeleted
           \/ SpecEdited \/ Recreated
  BY <1>3, WorldSteps
<1>4. CASE UNCHANGED vars
  BY <1>4 DEF vars, ClientInv, TypeOK, SeenVersions, BuiltForTag, TokenNotOlderThanTag
<1> QED BY <1>1, <1>2, <1>3, <1>4 DEF Next

LEMMA ClientInvariant == Spec => []ClientInv
BY ClientInit, ClientNext, PTL DEF Spec

-----------------------------------------------------------------------------

\* Every variable keeps its type, and no recorded or cached version is newer than
\* the Secret has ever been.
THEOREM ClientTypes == Spec => []TypeOK
BY ClientInvariant, PTL DEF ClientInv

\* The token of the cached client is never older than the version in its tag
\* (ClientFor and newClient, client.go:73-97).
THEOREM CachedTokenIsFresh == Spec => []TokenNotOlderThanTag
BY ClientInvariant, PTL DEF ClientInv

\* However the reconcilers' calls of ClientFor interleave with rotations, one that
\* has seen a version in the status never gets a token from before it.
THEOREM TokensDoNotGoBack == Spec => NeverAnOlderToken
<1>1. ASSUME ClientInv, Next, NEW r \in Readers, GotClient(r)
      PROVE  used'[r].token >= readers[r].img.obs
  <2> DEFINE img == readers[r].img
  <2>1. img \in Connections /\ img.obs \in Nat /\ img.obs <= last /\ Served(img, img.obs)
    BY <1>1 DEF GotClient, ClientInv, TypeOK, SeenVersions
  <2>2. used'[r] = AfterClientFor(img, img.obs)
    BY <1>1 DEF GotClient, ClientInv, TypeOK
  <2>3. used'[r].tag.obs <= used'[r].token /\ used'[r].tag = Tag(img, img.obs)
        /\ used'[r] \in Clients
    BY <1>1, <2>1, <2>2, ClientForView
  <2> QED BY <2>1, <2>3 DEF Tag
<1>2. ClientInv /\ [Next]_vars =>
        [\A r \in Readers : GotClient(r) => used'[r].token >= readers[r].img.obs]_vars
  BY <1>1
<1> QED BY <1>2, ClientInvariant, PTL DEF Spec, NeverAnOlderToken

\* A reconciler is never handed the client of another spec than the one it has read,
\* not even of an earlier connection with the same name.
THEOREM ClientsMatchSpecs == Spec => ClientOfItsSpec
<1>1. ASSUME ClientInv, Next, NEW r \in Readers, GotClient(r)
      PROVE  used'[r].uid = readers[r].img.uid /\ used'[r].gen = readers[r].img.gen
  <2> DEFINE img == readers[r].img
  <2>1. img \in Connections /\ img.obs \in Nat /\ img.obs <= last /\ Served(img, img.obs)
    BY <1>1 DEF GotClient, ClientInv, TypeOK, SeenVersions
  <2>2. used'[r] = AfterClientFor(img, img.obs)
    BY <1>1 DEF GotClient, ClientInv, TypeOK
  <2>3. used'[r].uid = used'[r].tag.uid /\ used'[r].gen = used'[r].tag.gen
        /\ used'[r].tag = Tag(img, img.obs)
    BY <1>1, <2>1, <2>2, ClientForView
  <2> QED BY <2>3 DEF Tag
<1>2. ClientInv /\ [Next]_vars =>
        [\A r \in Readers : GotClient(r) =>
           used'[r].uid = readers[r].img.uid /\ used'[r].gen = readers[r].img.gen]_vars
  BY <1>1
<1> QED BY <1>2, ClientInvariant, PTL DEF Spec, ClientOfItsSpec

-----------------------------------------------------------------------------
(* Tokens only get newer.                                                  *)

\* No reader has a token newer than the Secret has been, nor than the cached client's:
\* whatever is handed out next is read after it, or is that client.
HandedOutInv ==
  /\ ClientInv
  /\ \A r \in Readers :
       /\ used[r].token <= last
       /\ clients # NoClient => used[r].token <= clients.token

\* What a view of the connection leads to is no older than anything handed out.
LEMMA NotOlderThanUsed ==
  ASSUME HandedOutInv, NEW img \in Connections, NEW obs \in Nat, obs <= last, Served(img, obs),
         NEW r \in Readers
  PROVE  used[r].token <= AfterClientFor(img, obs).token
<1>1. CASE Cached(img, obs)
  BY <1>1 DEF Cached, AfterClientFor, HandedOutInv
<1>2. CASE ~Cached(img, obs)
  <2>1. secret = last
    BY <1>2 DEF Served, HandedOutInv, ClientInv, TypeOK
  <2>2. AfterClientFor(img, obs) = NewClient(img, obs)
    BY <1>2 DEF AfterClientFor, Served
  <2> QED BY <2>1, <2>2 DEF NewClient, HandedOutInv
<1> QED BY <1>1, <1>2

LEMMA HandedOutInit == Init => HandedOutInv
BY ClientInit DEF Init, HandedOutInv

\* A step that hands out nothing leaves the cached client, empties the cache, or
\* puts one there that is no older than those in use.
LEMMA HandedOutNext == HandedOutInv /\ [Next]_vars => HandedOutInv'
<1> SUFFICES ASSUME HandedOutInv, [Next]_vars PROVE HandedOutInv'
  OBVIOUS
<1>1. ClientInv'
  BY ClientNext DEF HandedOutInv
<1>2. last \in Nat /\ last' \in Nat /\ last <= last'
  <2>1. last \in Nat /\ last' \in Nat
    BY <1>1 DEF HandedOutInv, ClientInv, TypeOK
  <2>2. last' = last \/ last' = last + 1
    BY DEF Next, vars, ConnectionStep, Reconcile, ReadSecret, GetClient, ViewUser, PatchStatus,
           ReaderStep, ReadConnection, GotClient, NoClientFor, SecretEvent, ConnectionEvent,
           Crash, Rotate, SecretDeleted, SpecEdited, Recreated
  <2> QED BY <2>1, <2>2
<1>3. \A r \in Readers : used[r].token \in Nat
  BY DEF HandedOutInv, ClientInv, TypeOK
<1>4. CASE UNCHANGED used /\ (UNCHANGED clients \/ clients' = NoClient)
  BY <1>1, <1>2, <1>3, <1>4 DEF HandedOutInv
<1>5. CASE GetClient
  <2>1. job.img \in Connections /\ job.obs \in Nat /\ job.obs <= last
    BY DEF HandedOutInv, ClientInv, TypeOK
  <2>2. UNCHANGED used /\ (UNCHANGED clients \/ clients' = AfterClientFor(job.img, job.obs))
    BY <1>5 DEF GetClient
  <2>3. CASE clients' = AfterClientFor(job.img, job.obs) /\ Served(job.img, job.obs)
    BY <1>1, <1>2, <1>3, <2>1, <2>2, <2>3, NotOlderThanUsed DEF HandedOutInv
  <2> QED BY <1>4, <2>2, <2>3, NoClientForView
<1>6. ASSUME NEW q \in Readers, GotClient(q) PROVE HandedOutInv'
  <2> DEFINE img == readers[q].img
  <2>1. img \in Connections /\ img.obs \in Nat /\ img.obs <= last /\ Served(img, img.obs)
    BY <1>6 DEF GotClient, HandedOutInv, ClientInv, TypeOK, SeenVersions
  <2>2. clients' = AfterClientFor(img, img.obs) /\ used' = [used EXCEPT ![q] = clients']
        /\ last' = last
    BY <1>6 DEF GotClient
  <2>3. clients' \in Clients /\ clients'.token <= last
    BY <2>1, <2>2, ClientForView DEF HandedOutInv
  <2>4. \A r \in Readers : used[r].token <= clients'.token
    BY <2>1, <2>2, NotOlderThanUsed
  <2>5. \A r \in Readers : used'[r] = clients' \/ used'[r] = used[r]
    BY <2>2 DEF HandedOutInv, ClientInv, TypeOK
  <2> QED BY <1>1, <1>3, <2>2, <2>3, <2>4, <2>5 DEF HandedOutInv
<1> QED
  BY <1>4, <1>5, <1>6
  DEF Next, vars, ConnectionStep, Reconcile, ReadSecret, ViewUser, PatchStatus,
      ReaderStep, ReadConnection, NoClientFor, SecretEvent, ConnectionEvent,
      Crash, Rotate, SecretDeleted, SpecEdited, Recreated

\* However the calls of ClientFor interleave with rotations, edits and restarts, no
\* reconciler is handed a token older than one that any of them has had.
THEOREM TokensOnlyGetNewer == Spec => NoTokenComesBack
<1>1. ASSUME HandedOutInv, Next, NEW r \in Readers, GotClient(r), NEW q \in Readers
      PROVE  used[q].token <= used'[r].token
  <2> DEFINE img == readers[r].img
  <2>1. img \in Connections /\ img.obs \in Nat /\ img.obs <= last /\ Served(img, img.obs)
    BY <1>1 DEF GotClient, HandedOutInv, ClientInv, TypeOK, SeenVersions
  <2>2. used'[r] = AfterClientFor(img, img.obs)
    BY <1>1 DEF GotClient, HandedOutInv, ClientInv, TypeOK
  <2> QED BY <1>1, <2>1, <2>2, NotOlderThanUsed
<1>2. HandedOutInv /\ [Next]_vars =>
        [\A r \in Readers : GotClient(r) =>
           \A q \in Readers : used[q].token <= used'[r].token]_vars
  BY <1>1
<1> QED BY <1>2, HandedOutInit, HandedOutNext, PTL DEF Spec, NoTokenComesBack
=============================================================================
